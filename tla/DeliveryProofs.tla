--------------------------- MODULE DeliveryProofs ---------------------------
(***************************************************************************)
(* Proofs about Delivery, for any set of endpoints, any payloads and any   *)
(* limit on sequence numbers, and about HostLoop, for any retransmission   *)
(* period and refused messages: the loop takes only steps of Delivery, and *)
(* what the round robin and a refused message do to the packet buffer.     *)
(***************************************************************************)
EXTENDS HostLoop, SingleDeliveryProofs

-----------------------------------------------------------------------------
(***************************************************************************)
(* The operators of the delivery layer, on the states Delivery gives them. *)
(***************************************************************************)

\* Replacing one acknowledgment state changes nothing else.
LEMMA PutAckStateEffect ==
    ASSUME NEW x \in SingleDeliveryState, NEW d \in EndPoint, NEW t \in AckState
    PROVE  LET y == PutAckState(x, d, t)
           IN  /\ y \in SingleDeliveryState
               /\ y.receive_state = x.receive_state
               /\ y.send_state[d] = t
               /\ \A e \in EndPoint \ {d} : y.send_state[e] = x.send_state[e]
BY DEF PutAckState, SingleDeliveryState

\* An acknowledgment of what was sent moves num_packets_acked up to it, or
\* leaves it, and drops from un_acked exactly the messages in between.
LEMMA ReceiveAckEffect ==
    ASSUME NEW x \in SingleDeliveryState, NEW p \in AckPacket,
           \A i \in 1 .. Len(x.send_state[p.src].un_acked) :
               x.send_state[p.src].un_acked[i].seqno
                   = x.send_state[p.src].num_packets_acked + i,
           p.msg.ack_seqno <= LastSent(x, p.src)
    PROVE  LET y == ReceiveAck(x, p)
               old == x.send_state[p.src]
               new == y.send_state[p.src]
               dropped == new.num_packets_acked - old.num_packets_acked
           IN  /\ y \in SingleDeliveryState
               /\ y.receive_state = x.receive_state
               /\ \A d \in EndPoint \ {p.src} : y.send_state[d] = x.send_state[d]
               /\ \/ new.num_packets_acked = p.msg.ack_seqno
                  \/ new.num_packets_acked = old.num_packets_acked
               /\ dropped \in Nat
               /\ Len(new.un_acked) = Len(old.un_acked) - dropped
               /\ \A i \in 1 .. Len(new.un_acked) :
                     new.un_acked[i] = old.un_acked[i + dropped]
<1> DEFINE y == ReceiveAck(x, p)
           old == x.send_state[p.src]
           new == y.send_state[p.src]
           n == p.msg.ack_seqno
           c == n - old.num_packets_acked
<1> USE MaxSeqnoAssumption
<1>1. /\ p.src \in EndPoint
      /\ old \in AckState
      /\ n \in 0 .. MaxSeqno
  BY DEF AckPacket, AckMessage, SingleDeliveryState, Seqno
<1>2. /\ old.num_packets_acked \in 0 .. MaxSeqno
      /\ old.un_acked \in Seq(DataMessage)
      /\ Len(old.un_acked) \in Nat
  BY <1>1 DEF AckState, Seqno
<1>3. CASE n <= old.num_packets_acked
  <2>1. y = x
    BY <1>3 DEF ReceiveAck
  <2> HIDE DEF y
  <2>2. new = old
    BY <2>1
  <2>3. /\ new.num_packets_acked - old.num_packets_acked = 0
        /\ Len(new.un_acked) = Len(old.un_acked) - 0
        /\ \A i \in 1 .. Len(new.un_acked) : new.un_acked[i] = old.un_acked[i + 0]
    BY <1>2, <2>2
  <2> QED
    BY <2>1, <2>2, <2>3 DEF y
<1>4. CASE ~(n <= old.num_packets_acked)
  <2> DEFINE t == Truncate(old, n)
             rest == SubSeq(old.un_acked, c + 1, Len(old.un_acked))
  <2>1. y = PutAckState(x, p.src, t)
    BY <1>4 DEF ReceiveAck
  <2>2. Covered(old.un_acked, n) = c
    <3>1. n <= old.num_packets_acked + Len(old.un_acked)
      BY DEF LastSent
    <3>2. n \in Nat /\ old.num_packets_acked \in Nat /\ old.num_packets_acked <= n
      BY <1>1, <1>2, <1>4
    <3> QED
      BY <1>2, <3>1, <3>2, CoveredSequential
  <2>3. c \in 1 .. Len(old.un_acked)
    <3>1. n <= old.num_packets_acked + Len(old.un_acked)
      BY DEF LastSent
    <3>2. n \in Nat /\ old.num_packets_acked \in Nat
      BY <1>1, <1>2
    <3> QED
      BY <1>2, <1>4, <3>1, <3>2, NewlyAcked
  <2>4. t = [num_packets_acked |-> n, un_acked |-> rest]
    BY <2>2 DEF Truncate
  <2>5. /\ rest \in Seq(DataMessage)
        /\ Len(rest) = Len(old.un_acked) - c
        /\ \A i \in 1 .. Len(rest) : rest[i] = old.un_acked[i + c]
    <3>1. c \in 0 .. Len(old.un_acked)
      BY <1>2, <2>3
    <3> QED
      BY <1>2, <3>1, DropFront
  <2>6. c \in Nat
    BY <2>3, <1>2
  <2> HIDE DEF rest, t
  <2>7. t \in AckState
    BY <1>1, <2>4, <2>5 DEF AckState, Seqno
  <2>8. /\ y \in SingleDeliveryState
        /\ y.receive_state = x.receive_state
        /\ new = t
        /\ \A d \in EndPoint \ {p.src} : y.send_state[d] = x.send_state[d]
    BY <1>1, <2>1, <2>7, PutAckStateEffect
  <2>9. new.num_packets_acked = n /\ new.un_acked = rest
    BY <2>4, <2>8
  <2>10. /\ new.num_packets_acked - old.num_packets_acked = c
         /\ Len(new.un_acked) = Len(old.un_acked) - c
         /\ \A i \in 1 .. Len(new.un_acked) : new.un_acked[i] = old.un_acked[i + c]
    BY <2>5, <2>9
  <2> HIDE DEF y
  <2> QED
    BY <2>6, <2>8, <2>9, <2>10 DEF y
<1> QED
  BY <1>3, <1>4

\* A message changes nothing but the tombstone of its sender, by one, and
\* only if it is the next one.
LEMMA ReceiveRealPacketEffect ==
    ASSUME NEW x \in SingleDeliveryState, NEW p \in DataPacket
    PROVE  LET y == ReceiveRealPacket(x, p)
           IN  /\ y \in SingleDeliveryState
               /\ y.send_state = x.send_state
               /\ \A s \in EndPoint \ {p.src} : y.receive_state[s] = x.receive_state[s]
               /\ NewSingleMessage(x, p) =>
                     /\ p.msg.seqno = x.receive_state[p.src] + 1
                     /\ y.receive_state[p.src] = x.receive_state[p.src] + 1
               /\ ~NewSingleMessage(x, p) =>
                     y.receive_state[p.src] = x.receive_state[p.src]
<1> USE MaxSeqnoAssumption
<1>1. /\ p.src \in EndPoint
      /\ p.msg.seqno \in 0 .. MaxSeqno
      /\ x.receive_state \in [EndPoint -> 0 .. MaxSeqno]
  BY DEF DataPacket, DataMessage, SingleDeliveryState, Seqno
<1>2. CASE NewSingleMessage(x, p)
  <2>1. p.msg.seqno = x.receive_state[p.src] + 1
    BY <1>1, <1>2 DEF NewSingleMessage
  <2>2. x.receive_state[p.src] + 1 \in 0 .. MaxSeqno
    BY <1>1, <2>1
  <2> DEFINE r == [x.receive_state EXCEPT ![p.src] = x.receive_state[p.src] + 1]
  <2>3. r \in [EndPoint -> 0 .. MaxSeqno]
    BY <1>1, <2>2
  <2>4. ReceiveRealPacket(x, p) = [x EXCEPT !.receive_state = r]
    BY <1>2 DEF ReceiveRealPacket
  <2> QED
    BY <1>1, <1>2, <2>1, <2>3, <2>4 DEF SingleDeliveryState, Seqno
<1>3. CASE ~NewSingleMessage(x, p)
  BY <1>3 DEF ReceiveRealPacket
<1> QED
  BY <1>2, <1>3

\* Sending appends one message, numbered after the last one, and never
\* passes the largest sequence number.
LEMMA SendEffect ==
    ASSUME NEW x \in SingleDeliveryState, NEW d \in EndPoint, NEW m \in Payload,
           CanSend(x, d), LastSent(x, d) <= MaxSeqno
    PROVE  LET y == SendSingleMessage(x, d, m)
               old == x.send_state[d]
               new == y.send_state[d]
           IN  /\ y \in SingleDeliveryState
               /\ NextMessage(x, d, m) \in DataMessage
               /\ LastSent(x, d) + 1 <= MaxSeqno
               /\ y.receive_state = x.receive_state
               /\ \A e \in EndPoint \ {d} : y.send_state[e] = x.send_state[e]
               /\ new.num_packets_acked = old.num_packets_acked
               /\ new.un_acked = Append(old.un_acked, NextMessage(x, d, m))
<1> DEFINE y == SendSingleMessage(x, d, m)
           old == x.send_state[d]
           next == NextMessage(x, d, m)
           t == [old EXCEPT !.un_acked = Append(@, next)]
<1> USE MaxSeqnoAssumption
<1>1. /\ old \in AckState
      /\ old.num_packets_acked \in 0 .. MaxSeqno
      /\ old.un_acked \in Seq(DataMessage)
      /\ Len(old.un_acked) \in Nat
  BY DEF SingleDeliveryState, AckState, Seqno
<1>2. LastSent(x, d) + 1 \in 0 .. MaxSeqno
  <2>1. /\ old.num_packets_acked + Len(old.un_acked) <= MaxSeqno
        /\ MaxSeqno - old.num_packets_acked # Len(old.un_acked)
    BY DEF CanSend, LastSent
  <2>2. old.num_packets_acked \in Nat
    BY <1>1
  <2>3. old.num_packets_acked + Len(old.un_acked) + 1 \in 0 .. MaxSeqno
    BY <1>1, <2>1, <2>2, RoomForOneMore
  <2> QED
    BY <2>3 DEF LastSent
<1>3. next \in DataMessage
  BY <1>2 DEF NextMessage, Message, DataMessage, Seqno
<1>4. y = PutAckState(x, d, t)
  BY DEF SendSingleMessage
<1> HIDE DEF next
<1>5. Append(old.un_acked, next) \in Seq(DataMessage)
  BY <1>1, <1>3
<1>6. /\ t \in AckState
      /\ t.num_packets_acked = old.num_packets_acked
      /\ t.un_acked = Append(old.un_acked, next)
  BY <1>1, <1>5 DEF AckState
<1> HIDE DEF t, y
<1>7. /\ y \in SingleDeliveryState
      /\ y.receive_state = x.receive_state
      /\ y.send_state[d] = t
      /\ \A e \in EndPoint \ {d} : y.send_state[e] = x.send_state[e]
  BY <1>4, <1>6, PutAckStateEffect
<1>8. LastSent(x, d) + 1 <= MaxSeqno
  BY <1>2
<1> QED
  BY <1>3, <1>6, <1>7, <1>8 DEF y, next

-----------------------------------------------------------------------------
(***************************************************************************)
(* The inductive invariant, action by action.                              *)
(***************************************************************************)

\* The types of the counters of one link.
LEMMA LinkTypes ==
    ASSUME NEW x \in [EndPoint -> SingleDeliveryState],
           NEW s \in EndPoint, NEW d \in EndPoint
    PROVE  /\ x[s].send_state[d].num_packets_acked \in Nat
           /\ x[s].send_state[d].num_packets_acked <= MaxSeqno
           /\ x[s].send_state[d].un_acked \in Seq(DataMessage)
           /\ Len(x[s].send_state[d].un_acked) \in Nat
           /\ x[s].receive_state[d] \in Nat
           /\ x[s].receive_state[d] <= MaxSeqno
<1> USE MaxSeqnoAssumption
<1>1. x[s].send_state[d] \in AckState /\ x[s].receive_state[d] \in 0 .. MaxSeqno
  BY DEF SingleDeliveryState, Seqno
<1> QED
  BY <1>1 DEF AckState, Seqno

\* What a packet in flight looks like.
LEMMA PacketTypes ==
    ASSUME IInv, NEW q \in net
    PROVE  /\ q.src \in EndPoint
           /\ q.dst \in EndPoint
           /\ q.msg.type = "Ack" => q \in AckPacket /\ q.msg.ack_seqno \in Nat
           /\ q.msg.type # "Ack" => q \in DataPacket /\ q.msg.type = "Message"
<1>1. CASE q \in DataPacket
  BY <1>1 DEF DataPacket, DataMessage
<1>2. CASE q \in AckPacket
  BY <1>2, MaxSeqnoAssumption DEF AckPacket, AckMessage, Seqno
<1> QED
  BY <1>1, <1>2 DEF IInv, TypeOK, Packets

\* A packet taken off the network, or sent and lost, leaves only packets that
\* were in flight or were sent.
LEMMA TransmitEffect ==
    ASSUME NEW in, NEW out, Transmit(in, out), in \subseteq net
    PROVE  net' \subseteq net \cup out
BY DEF Transmit

\* Steps that leave the delivery states alone and put nothing on the network
\* that its sender would not retransmit.
LEMMA NetworkStep ==
    ASSUME IInv,
           UNCHANGED <<sd, sent, delivered>>,
           received_packet' \in [EndPoint -> DataPacket \cup {None}],
           NEW e \in EndPoint,
           net' \subseteq net \cup UnAckedPackets(sd[e], e)
    PROVE  IInv'
<1> USE MaxSeqnoAssumption
<1>1. ASSUME NEW p \in UnAckedPackets(sd[e], e)
      PROVE  /\ p \in DataPacket
             /\ p.msg.type = "Message"
             /\ p.msg.seqno \in DOMAIN sent[p.src][p.dst]
             /\ p.msg.m = sent[p.src][p.dst][p.msg.seqno]
  <2>0. PICK d \in EndPoint : \E i \in DOMAIN UnAcked(e, d) : p = Packet(e, d, UnAcked(e, d)[i])
    BY DEF UnAckedPackets, UnAcked
  <2>1. PICK i \in DOMAIN UnAcked(e, d) : p = Packet(e, d, UnAcked(e, d)[i])
    BY <2>0
  <2>2. /\ UnAcked(e, d) \in Seq(DataMessage)
        /\ Acked(e, d) \in Nat
        /\ sent[e][d] \in Seq(Payload)
    <3>1. sd[e].send_state[d].un_acked \in Seq(DataMessage)
          /\ sd[e].send_state[d].num_packets_acked \in Nat
      BY LinkTypes DEF IInv, TypeOK
    <3> QED
      BY <3>1 DEF IInv, TypeOK, UnAcked, Acked
  <2>3. i \in 1 .. Len(UnAcked(e, d)) /\ Len(UnAcked(e, d)) \in Nat
    BY <2>2
  <2>4. /\ UnAcked(e, d)[i] = Message(Acked(e, d) + i, d, sent[e][d][Acked(e, d) + i])
        /\ Len(sent[e][d]) = Acked(e, d) + Len(UnAcked(e, d))
    BY <2>3 DEF IInv, UnAckedIsSuffix, LastSent, UnAcked, Acked
  <2>5. Acked(e, d) + i \in DOMAIN sent[e][d]
    BY <2>2, <2>3, <2>4
  <2>6. /\ p.src = e
        /\ p.dst = d
        /\ p.msg = UnAcked(e, d)[i]
        /\ p.msg \in DataMessage
    BY <2>1, <2>2, <2>3 DEF Packet
  <2>7. p \in DataPacket
    BY <2>1, <2>6 DEF Packet, DataPacket
  <2>8. /\ p.msg.type = "Message"
        /\ p.msg.seqno = Acked(e, d) + i
        /\ p.msg.m = sent[e][d][Acked(e, d) + i]
    BY <2>4, <2>6 DEF Message
  <2> QED
    BY <2>5, <2>6, <2>7, <2>8
<1>2. TypeOK'
  BY <1>1 DEF IInv, TypeOK, Packets
<1>3. (AckedWereAccepted /\ UnAckedIsSuffix /\ DeliveredIsPrefix)'
  BY DEF IInv, AckedWereAccepted, UnAckedIsSuffix, DeliveredIsPrefix,
         Acked, UnAcked, Tombstone
<1>4. AcksAreTrue'
  BY <1>1 DEF IInv, AcksAreTrue, Tombstone
<1>5. SeqnoNamesOneMessage'
  BY <1>1 DEF IInv, SeqnoNamesOneMessage
<1> QED
  BY <1>2, <1>3, <1>4, <1>5 DEF IInv

\* Receiving an acknowledgment.
LEMMA ReceiveAckStep ==
    ASSUME IInv, NEW e \in EndPoint, NEW p \in net,
           ReceivePacket(e, p), p.msg.type = "Ack"
    PROVE  IInv'
<1> USE MaxSeqnoAssumption
<1> DEFINE x == sd[e]
           y == ReceiveAck(x, p)
           d0 == p.src
           k == Acked(e, d0)' - Acked(e, d0)
<1>1. /\ p \in AckPacket
      /\ p.dst = e
      /\ d0 \in EndPoint
      /\ x \in SingleDeliveryState
      /\ sd \in [EndPoint -> SingleDeliveryState]
  BY DEF IInv, TypeOK, Packets, DataPacket, DataMessage, AckPacket, ReceivePacket
<1>2. sd' = [sd EXCEPT ![e] = y]
  BY DEF ReceivePacket, ReceiveSingleMessage
<1>3. UNCHANGED <<received_packet, sent, delivered>>
  BY DEF ReceivePacket, NewSingleMessage
<1>4. net' \subseteq net
  <2>1. MaybeAck(sd'[e], p) = {}
    BY DEF MaybeAck
  <2>2. Transmit({p}, {})
    BY <2>1 DEF ReceivePacket
  <2> QED
    BY <2>2, TransmitEffect
<1>5. /\ \A i \in 1 .. Len(x.send_state[d0].un_acked) :
            x.send_state[d0].un_acked[i].seqno = x.send_state[d0].num_packets_acked + i
      /\ p.msg.ack_seqno <= Tombstone(e, d0)
      /\ Tombstone(e, d0) <= LastSent(x, d0)
  <2>1. p.msg.ack_seqno <= Tombstone(e, d0)
    BY <1>1 DEF IInv, AcksAreTrue
  <2>3. Tombstone(e, d0) <= LastSent(x, d0)
    BY <1>1 DEF IInv, AckedWereAccepted
  <2>2. ASSUME NEW i \in 1 .. Len(UnAcked(e, d0))
        PROVE  UnAcked(e, d0)[i].seqno = Acked(e, d0) + i
    <3>1. UnAcked(e, d0)[i]
            = Message(Acked(e, d0) + i, d0, sent[e][d0][Acked(e, d0) + i])
      BY <1>1 DEF IInv, UnAckedIsSuffix
    <3> QED
      BY <3>1 DEF Message
  <2> QED
    BY <2>1, <2>3, <2>2 DEF UnAcked, Acked
<1>6. /\ p.msg.ack_seqno \in Nat
      /\ Tombstone(e, d0) \in Nat
      /\ LastSent(x, d0) \in Nat
      /\ Acked(e, d0) \in Nat
      /\ UnAcked(e, d0) \in Seq(DataMessage)
  BY <1>1 DEF AckPacket, AckMessage, Seqno, Tombstone, LastSent, Acked, UnAcked,
              SingleDeliveryState, AckState
<1>7. p.msg.ack_seqno <= LastSent(x, d0)
  BY <1>5, <1>6
<1>8. /\ y \in SingleDeliveryState
      /\ y.receive_state = x.receive_state
      /\ \A d \in EndPoint \ {d0} : y.send_state[d] = x.send_state[d]
      /\ \/ y.send_state[d0].num_packets_acked = p.msg.ack_seqno
         \/ y.send_state[d0].num_packets_acked = x.send_state[d0].num_packets_acked
      /\ y.send_state[d0].num_packets_acked - x.send_state[d0].num_packets_acked \in Nat
      /\ Len(y.send_state[d0].un_acked)
           = Len(x.send_state[d0].un_acked)
              - (y.send_state[d0].num_packets_acked - x.send_state[d0].num_packets_acked)
      /\ \A i \in 1 .. Len(y.send_state[d0].un_acked) :
           y.send_state[d0].un_acked[i]
             = x.send_state[d0].un_acked
                 [i + (y.send_state[d0].num_packets_acked - x.send_state[d0].num_packets_acked)]
  BY <1>1, <1>5, <1>7, ReceiveAckEffect
<1> HIDE DEF y
<1>9. /\ \A s \in EndPoint : s # e => sd'[s] = sd[s]
      /\ sd'[e] = y
  BY <1>1, <1>2
<1>10. /\ \A s, d \in EndPoint : Tombstone(s, d)' = Tombstone(s, d)
       /\ \A s, d \in EndPoint :
            <<s, d>> # <<e, d0>> =>
                Acked(s, d)' = Acked(s, d) /\ UnAcked(s, d)' = UnAcked(s, d)
  BY <1>8, <1>9 DEF Tombstone, Acked, UnAcked
<1>11. /\ Acked(e, d0)' = p.msg.ack_seqno \/ Acked(e, d0)' = Acked(e, d0)
       /\ k \in Nat
       /\ Len(UnAcked(e, d0)') = Len(UnAcked(e, d0)) - k
       /\ \A i \in 1 .. Len(UnAcked(e, d0)') : (UnAcked(e, d0)')[i] = UnAcked(e, d0)[i + k]
  BY <1>8, <1>9 DEF Acked, UnAcked
<1>12. sd' \in [EndPoint -> SingleDeliveryState]
  BY <1>1, <1>2, <1>8
<1>13. /\ Acked(e, d0)' \in Nat
       /\ Len(UnAcked(e, d0)') \in Nat
       /\ Len(UnAcked(e, d0)) \in Nat
  BY <1>1, <1>12, LinkTypes DEF Acked, UnAcked
<1>14. LastSent(sd[e], d0)' = LastSent(sd[e], d0)
  <2>1. Acked(e, d0)' + Len(UnAcked(e, d0)') = Acked(e, d0) + Len(UnAcked(e, d0))
    BY <1>6, <1>11, <1>13
  <2> QED
    BY <2>1 DEF LastSent, Acked, UnAcked
<1>15. \A s, d \in EndPoint : LastSent(sd[s], d)' = LastSent(sd[s], d)
  BY <1>10, <1>14 DEF LastSent, Acked, UnAcked
<1>16. TypeOK'
  BY <1>3, <1>4, <1>12 DEF IInv, TypeOK
<1>17. AckedWereAccepted'
  <2>1. Acked(e, d0)' <= Tombstone(e, d0)
    BY <1>1, <1>5, <1>11 DEF IInv, AckedWereAccepted
  <2> QED
    BY <2>1, <1>10, <1>15 DEF IInv, AckedWereAccepted
<1>18. UnAckedIsSuffix'
  <2>1. ASSUME NEW i \in 1 .. Len(UnAcked(e, d0)')
        PROVE  (UnAcked(e, d0)')[i]
                 = Message(Acked(e, d0)' + i, d0, sent[e][d0][Acked(e, d0)' + i])
    <3>1. i + k \in 1 .. Len(UnAcked(e, d0)) /\ Acked(e, d0) + (i + k) = Acked(e, d0)' + i
      BY <1>6, <1>11, <1>13
    <3>2. UnAcked(e, d0)[i + k]
            = Message(Acked(e, d0) + (i + k), d0, sent[e][d0][Acked(e, d0) + (i + k)])
      BY <1>1, <3>1 DEF IInv, UnAckedIsSuffix
    <3> QED
      BY <1>11, <3>1, <3>2
  <2>2. ASSUME NEW s \in EndPoint, NEW d \in EndPoint,
               NEW i \in 1 .. Len(UnAcked(s, d)')
        PROVE  (UnAcked(s, d)')[i]
                 = Message(Acked(s, d)' + i, d, sent[s][d][Acked(s, d)' + i])
    <3>1. CASE s = e /\ d = d0
      BY <2>1, <2>2, <3>1
    <3>2. CASE ~(s = e /\ d = d0)
      BY <1>10, <2>2, <3>2 DEF IInv, UnAckedIsSuffix
    <3> QED
      BY <3>1, <3>2
  <2>3. \A s, d \in EndPoint : Len(sent[s][d]) = LastSent(sd[s], d)'
    BY <1>15 DEF IInv, UnAckedIsSuffix
  <2> QED
    BY <1>3, <2>2, <2>3 DEF UnAckedIsSuffix
<1>19. DeliveredIsPrefix'
  BY <1>3, <1>10 DEF IInv, DeliveredIsPrefix
<1>20. AcksAreTrue'
  <2>1. \A q \in net : q.src \in EndPoint /\ q.dst \in EndPoint
    BY DEF IInv, TypeOK, Packets, DataPacket, AckPacket
  <2> QED
    BY <1>4, <1>10, <2>1 DEF IInv, AcksAreTrue
<1>21. SeqnoNamesOneMessage'
  BY <1>3, <1>4 DEF IInv, SeqnoNamesOneMessage
<1> QED
  BY <1>16, <1>17, <1>18, <1>19, <1>20, <1>21 DEF IInv

\* A step that puts nothing new on the network but an acknowledgment of what
\* its receiver has accepted keeps what the network holds true.
LEMMA AcksStayTrue ==
    ASSUME IInv, UNCHANGED sent, NEW p \in DataPacket,
           \A s, d \in EndPoint : Tombstone(s, d) <= Tombstone(s, d)',
           \A s, d \in EndPoint : Tombstone(s, d) \in Nat /\ Tombstone(s, d)' \in Nat,
           \A q \in net' :
               \/ q \in net
               \/ /\ q = Packet(p.dst, p.src, Ack(p.msg.seqno))
                  /\ p.msg.seqno <= Tombstone(p.src, p.dst)'
    PROVE  AcksAreTrue' /\ SeqnoNamesOneMessage'
<1>1. ASSUME NEW q \in net', q.msg.type = "Ack"
      PROVE  q.msg.ack_seqno <= Tombstone(q.dst, q.src)'
  <2>1. CASE q \in net
    <3>1. /\ q.dst \in EndPoint
          /\ q.src \in EndPoint
          /\ q.msg.ack_seqno \in Nat
      BY <1>1, <2>1, PacketTypes
    <3>2. q.msg.ack_seqno <= Tombstone(q.dst, q.src)
      BY <1>1, <2>1 DEF IInv, AcksAreTrue
    <3>3. /\ Tombstone(q.dst, q.src) <= Tombstone(q.dst, q.src)'
          /\ Tombstone(q.dst, q.src) \in Nat
          /\ Tombstone(q.dst, q.src)' \in Nat
      BY <3>1
    <3> QED
      BY <3>1, <3>2, <3>3
  <2>2. CASE q \notin net
    BY <1>1, <2>2 DEF Packet, Ack
  <2> QED
    BY <2>1, <2>2
<1>2. ASSUME NEW q \in net', q.msg.type = "Message"
      PROVE  q \in net
  BY <1>2 DEF Packet, Ack
<1> QED
  BY <1>1, <1>2 DEF IInv, AcksAreTrue, SeqnoNamesOneMessage

\* Receiving a message.
LEMMA ReceiveMessageStep ==
    ASSUME IInv, NEW e \in EndPoint, NEW p \in net,
           ReceivePacket(e, p), p.msg.type # "Ack"
    PROVE  IInv'
<1> USE MaxSeqnoAssumption
<1> DEFINE x == sd[e]
           y == ReceiveRealPacket(x, p)
           s0 == p.src
           ack == Packet(p.dst, p.src, Ack(p.msg.seqno))
<1>1. /\ p \in DataPacket
      /\ p.dst = e
      /\ s0 \in EndPoint
      /\ p.msg.seqno \in 0 .. MaxSeqno
      /\ p.msg.m \in Payload
      /\ p.msg.type = "Message"
      /\ x \in SingleDeliveryState
      /\ sd \in [EndPoint -> SingleDeliveryState]
  BY DEF IInv, TypeOK, Packets, DataPacket, DataMessage, AckPacket, AckMessage,
         ReceivePacket, Seqno
<1>2. sd' = [sd EXCEPT ![e] = y]
  BY DEF ReceivePacket, ReceiveSingleMessage
<1>3. /\ y \in SingleDeliveryState
      /\ y.send_state = x.send_state
      /\ \A s \in EndPoint \ {s0} : y.receive_state[s] = x.receive_state[s]
      /\ NewSingleMessage(x, p) =>
            /\ p.msg.seqno = x.receive_state[s0] + 1
            /\ y.receive_state[s0] = x.receive_state[s0] + 1
      /\ ~NewSingleMessage(x, p) => y.receive_state[s0] = x.receive_state[s0]
  BY <1>1, ReceiveRealPacketEffect
<1> HIDE DEF y
<1>4. /\ \A s \in EndPoint : s # e => sd'[s] = sd[s]
      /\ sd'[e] = y
      /\ sd' \in [EndPoint -> SingleDeliveryState]
  BY <1>1, <1>2, <1>3
<1>5. /\ \A s, d \in EndPoint :
           Acked(s, d)' = Acked(s, d) /\ UnAcked(s, d)' = UnAcked(s, d)
      /\ \A s, d \in EndPoint :
           <<s, d>> # <<s0, e>> => Tombstone(s, d)' = Tombstone(s, d)
  BY <1>3, <1>4 DEF Acked, UnAcked, Tombstone
<1>6. \A s, d \in EndPoint : LastSent(sd[s], d)' = LastSent(sd[s], d)
  BY <1>5 DEF LastSent, Acked, UnAcked
<1>7. /\ Tombstone(s0, e) \in Nat
      /\ Tombstone(s0, e)' \in Nat
  BY <1>1, <1>4, LinkTypes DEF Tombstone
<1>8. /\ NewSingleMessage(x, p) =>
            /\ p.msg.seqno = Tombstone(s0, e) + 1
            /\ Tombstone(s0, e)' = Tombstone(s0, e) + 1
      /\ ~NewSingleMessage(x, p) => Tombstone(s0, e)' = Tombstone(s0, e)
  BY <1>3, <1>4 DEF Tombstone
<1>9. UNCHANGED sent
  BY DEF ReceivePacket
<1>10. /\ p.msg.seqno \in DOMAIN sent[s0][e]
       /\ p.msg.m = sent[s0][e][p.msg.seqno]
       /\ Len(sent[s0][e]) = LastSent(sd[s0], e)
       /\ sent[s0][e] \in Seq(Payload)
       /\ delivered[s0][e] \in Seq(Payload)
       /\ Len(delivered[s0][e]) = Tombstone(s0, e)
  <2>1. p.msg.seqno \in DOMAIN sent[s0][e] /\ p.msg.m = sent[s0][e][p.msg.seqno]
    BY <1>1 DEF IInv, SeqnoNamesOneMessage
  <2>2. sent[s0][e] \in Seq(Payload) /\ delivered[s0][e] \in Seq(Payload)
    BY <1>1 DEF IInv, TypeOK
  <2>3. Len(sent[s0][e]) = LastSent(sd[s0], e)
    BY <1>1 DEF IInv, UnAckedIsSuffix
  <2>4. Len(delivered[s0][e]) = Tombstone(s0, e)
    BY <1>1 DEF IInv, DeliveredIsPrefix
  <2> QED
    BY <2>1, <2>2, <2>3, <2>4
<1>11. \A s, d \in EndPoint : Tombstone(s, d) <= Tombstone(s, d)'
  <2>1. Tombstone(s0, e) <= Tombstone(s0, e)'
    BY <1>7, <1>8
  <2>2. \A s, d \in EndPoint : Tombstone(s, d) \in Nat
    BY <1>1, LinkTypes DEF Tombstone
  <2> QED
    BY <1>5, <2>1, <2>2
<1>12. \A q \in net' :
          q \in net \/ (q = ack /\ ack \in AckPacket /\ p.msg.seqno <= Tombstone(s0, e)')
  <2>1. MaybeAck(sd'[e], p)
          = IF p.msg.seqno <= Tombstone(s0, e)' THEN {ack} ELSE {}
    BY <1>1 DEF MaybeAck, Tombstone
  <2>2. Transmit({p}, MaybeAck(sd'[e], p))
    BY DEF ReceivePacket
  <2>3. net' \subseteq net \cup MaybeAck(sd'[e], p)
    BY <2>2, TransmitEffect
  <2>4. ack \in AckPacket
    BY <1>1 DEF AckPacket, AckMessage, Packet, Ack, Seqno
  <2> QED
    BY <2>1, <2>3, <2>4
<1>15. \A s, d \in EndPoint : Tombstone(s, d) \in Nat /\ Tombstone(s, d)' \in Nat
  BY <1>1, <1>4, LinkTypes DEF Tombstone
<1>13. CASE NewSingleMessage(x, p)
  <2>1. /\ received_packet' = [received_packet EXCEPT ![e] = p]
        /\ delivered' = [delivered EXCEPT ![s0][e] = Append(@, p.msg.m)]
    BY <1>13 DEF ReceivePacket
  <2>2. TypeOK'
    <3>1. received_packet' \in [EndPoint -> DataPacket \cup {None}]
      BY <1>1, <2>1 DEF IInv, TypeOK
    <3>2. Append(delivered[s0][e], p.msg.m) \in Seq(Payload)
      BY <1>1, <1>10
    <3>3. delivered' \in [EndPoint -> [EndPoint -> Seq(Payload)]]
      BY <1>1, <2>1, <3>2 DEF IInv, TypeOK
    <3>4. net' \subseteq Packets
      BY <1>12 DEF IInv, TypeOK, Packets
    <3> QED
      BY <1>4, <1>9, <3>1, <3>3, <3>4 DEF IInv, TypeOK
  <2>3. /\ delivered'[s0][e] = Append(delivered[s0][e], p.msg.m)
        /\ \A s, d \in EndPoint :
             <<s, d>> # <<s0, e>> => delivered'[s][d] = delivered[s][d]
    BY <1>1, <2>1 DEF IInv, TypeOK
  <2>4. AckedWereAccepted'
    <3>1. Acked(s0, e)' <= Tombstone(s0, e)' /\ Tombstone(s0, e)' <= LastSent(sd[s0], e)'
      <4>1. Tombstone(s0, e)' <= LastSent(sd[s0], e)'
        BY <1>1, <1>6, <1>7, <1>8, <1>10, <1>13
      <4>2. Acked(s0, e)' <= Tombstone(s0, e)'
        <5>1. Acked(s0, e) <= Tombstone(s0, e)
          BY <1>1 DEF IInv, AckedWereAccepted
        <5>2. Acked(s0, e) \in Nat
          BY <1>1, LinkTypes DEF Acked
        <5> QED
          BY <1>1, <1>5, <1>7, <1>8, <1>13, <5>1, <5>2
      <4> QED
        BY <4>1, <4>2
    <3> QED
      BY <1>5, <1>6, <3>1 DEF IInv, AckedWereAccepted
  <2>5. DeliveredIsPrefix'
    <3>1. Len(delivered'[s0][e]) = Tombstone(s0, e)'
      BY <1>1, <1>7, <1>8, <1>10, <1>13, <2>3
    <3>2. ASSUME NEW n \in 1 .. Tombstone(s0, e)'
          PROVE  delivered'[s0][e][n] = sent[s0][e][n]
      <4>1. CASE n = Tombstone(s0, e)'
        BY <1>1, <1>7, <1>8, <1>10, <1>13, <2>3, <4>1
      <4>2. CASE n # Tombstone(s0, e)'
        <5>1. n \in 1 .. Tombstone(s0, e)
          BY <1>7, <1>8, <1>13, <4>2
        <5>2. delivered[s0][e][n] = sent[s0][e][n]
          BY <1>1, <5>1 DEF IInv, DeliveredIsPrefix
        <5> QED
          BY <1>1, <1>10, <2>3, <5>1, <5>2
      <4> QED
        BY <4>1, <4>2
    <3>3. \A s, d \in EndPoint :
            <<s, d>> # <<s0, e>> =>
              /\ Len(delivered'[s][d]) = Tombstone(s, d)'
              /\ \A n \in 1 .. Tombstone(s, d)' : delivered'[s][d][n] = sent[s][d][n]
      BY <1>5, <2>3 DEF IInv, DeliveredIsPrefix
    <3> QED
      BY <1>9, <3>1, <3>2, <3>3 DEF DeliveredIsPrefix
  <2>6. UnAckedIsSuffix'
    BY <1>5, <1>6, <1>9 DEF IInv, UnAckedIsSuffix
  <2>7. AcksAreTrue' /\ SeqnoNamesOneMessage'
    BY <1>1, <1>9, <1>11, <1>12, <1>15, AcksStayTrue
  <2> QED
    BY <2>2, <2>4, <2>5, <2>6, <2>7 DEF IInv
<1>14. CASE ~NewSingleMessage(x, p)
  <2>1. UNCHANGED <<received_packet, delivered>>
    BY <1>14 DEF ReceivePacket
  <2>2. TypeOK'
    BY <1>4, <1>9, <1>12, <2>1 DEF IInv, TypeOK, Packets
  <2>3. \A s, d \in EndPoint : Tombstone(s, d)' = Tombstone(s, d)
    BY <1>5, <1>8, <1>14
  <2>4. (AckedWereAccepted /\ UnAckedIsSuffix /\ DeliveredIsPrefix)'
    BY <1>5, <1>6, <1>9, <2>1, <2>3
       DEF IInv, AckedWereAccepted, UnAckedIsSuffix, DeliveredIsPrefix
  <2>5. AcksAreTrue' /\ SeqnoNamesOneMessage'
    BY <1>1, <1>9, <1>11, <1>12, <1>15, AcksStayTrue
  <2> QED
    BY <2>2, <2>4, <2>5 DEF IInv
<1> QED
  BY <1>13, <1>14

\* The last sequence number used is a sequence number.
LEMMA LastSentBound ==
    ASSUME IInv, NEW s \in EndPoint, NEW d \in EndPoint
    PROVE  LastSent(sd[s], d) \in 0 .. MaxSeqno
<1> USE MaxSeqnoAssumption
<1> DEFINE u == UnAcked(s, d)
<1>1. /\ Acked(s, d) \in Nat
      /\ Acked(s, d) <= MaxSeqno
      /\ u \in Seq(DataMessage)
      /\ Len(u) \in Nat
  BY LinkTypes DEF IInv, TypeOK, Acked, UnAcked
<1>2. LastSent(sd[s], d) = Acked(s, d) + Len(u)
  BY DEF LastSent, Acked, UnAcked
<1>3. CASE Len(u) = 0
  BY <1>1, <1>2, <1>3
<1>4. CASE Len(u) > 0
  <2>1. Len(u) \in 1 .. Len(u)
    BY <1>1, <1>4
  <2>2. u[Len(u)] = Message(Acked(s, d) + Len(u), d, sent[s][d][Acked(s, d) + Len(u)])
    BY <2>1 DEF IInv, UnAckedIsSuffix
  <2>3. u[Len(u)].seqno = Acked(s, d) + Len(u)
    BY <2>2 DEF Message
  <2>4. u[Len(u)] \in DataMessage
    BY <1>1, <2>1
  <2>5. u[Len(u)].seqno \in 0 .. MaxSeqno
    BY <2>4 DEF DataMessage, Seqno
  <2> QED
    BY <1>2, <2>3, <2>5
<1> QED
  BY <1>1, <1>3, <1>4

\* Sending a message.
LEMMA SendStep ==
    ASSUME IInv, NEW e \in EndPoint, NEW d0 \in EndPoint, NEW m \in Payload,
           ProcessAndSend(e, d0, m)
    PROVE  IInv'
<1> USE MaxSeqnoAssumption
<1> DEFINE x == sd[e]
           y == SendSingleMessage(x, d0, m)
           n == LastSent(x, d0) + 1
           next == NextMessage(x, d0, m)
           pkt == Packet(e, d0, next)
<1>1. /\ sd \in [EndPoint -> SingleDeliveryState]
      /\ x \in SingleDeliveryState
      /\ LastSent(x, d0) \in 0 .. MaxSeqno
      /\ CanSend(x, d0)
      /\ sent[e][d0] \in Seq(Payload)
  BY LastSentBound DEF IInv, TypeOK, ProcessAndSend
<1>2. /\ sd' = [sd EXCEPT ![e] = y]
      /\ sent' = [sent EXCEPT ![e][d0] = Append(@, m)]
      /\ received_packet' = [received_packet EXCEPT ![e] = None]
      /\ UNCHANGED delivered
  BY DEF ProcessAndSend
<1>3. net' \subseteq net \cup {pkt}
  BY TransmitEffect DEF ProcessAndSend
<1>4. /\ y \in SingleDeliveryState
      /\ next \in DataMessage
      /\ n <= MaxSeqno
      /\ y.receive_state = x.receive_state
      /\ \A d \in EndPoint \ {d0} : y.send_state[d] = x.send_state[d]
      /\ y.send_state[d0].num_packets_acked = x.send_state[d0].num_packets_acked
      /\ y.send_state[d0].un_acked = Append(x.send_state[d0].un_acked, next)
  BY <1>1, SendEffect
<1> HIDE DEF y
<1>5. /\ \A s \in EndPoint : s # e => sd'[s] = sd[s]
      /\ sd'[e] = y
      /\ sd' \in [EndPoint -> SingleDeliveryState]
  BY <1>1, <1>2, <1>4
<1>6. /\ \A s, d \in EndPoint : Tombstone(s, d)' = Tombstone(s, d)
      /\ \A s, d \in EndPoint : Acked(s, d)' = Acked(s, d)
      /\ \A s, d \in EndPoint :
           <<s, d>> # <<e, d0>> => UnAcked(s, d)' = UnAcked(s, d)
      /\ UnAcked(e, d0)' = Append(UnAcked(e, d0), next)
  BY <1>4, <1>5 DEF Tombstone, Acked, UnAcked
<1>7. /\ UnAcked(e, d0) \in Seq(DataMessage)
      /\ Len(UnAcked(e, d0)) \in Nat
      /\ Acked(e, d0) \in Nat
      /\ n = Acked(e, d0) + Len(UnAcked(e, d0)) + 1
      /\ Len(sent[e][d0]) \in Nat
      /\ n = Len(sent[e][d0]) + 1
  <2>1. /\ UnAcked(e, d0) \in Seq(DataMessage)
        /\ Len(UnAcked(e, d0)) \in Nat
        /\ Acked(e, d0) \in Nat
    BY <1>1, LinkTypes DEF Acked, UnAcked
  <2>2. LastSent(x, d0) = Acked(e, d0) + Len(UnAcked(e, d0))
    BY DEF Acked, UnAcked, LastSent
  <2>3. Len(sent[e][d0]) = LastSent(x, d0)
    BY DEF IInv, UnAckedIsSuffix
  <2> QED
    BY <2>1, <2>2, <2>3
<1>8. /\ \A s, d \in EndPoint :
           <<s, d>> # <<e, d0>> => LastSent(sd[s], d)' = LastSent(sd[s], d)
      /\ LastSent(sd[e], d0)' = n
  <2>1. Len(UnAcked(e, d0)') = Len(UnAcked(e, d0)) + 1
    BY <1>4, <1>6, <1>7
  <2>2. Acked(e, d0)' + Len(UnAcked(e, d0)') = n
    BY <1>6, <1>7, <2>1
  <2> QED
    BY <1>6, <2>2 DEF LastSent, Acked, UnAcked
<1>9. /\ Append(sent[e][d0], m) \in Seq(Payload)
      /\ Len(Append(sent[e][d0], m)) = n
      /\ Append(sent[e][d0], m)[n] = m
      /\ \A i \in 1 .. Len(sent[e][d0]) : Append(sent[e][d0], m)[i] = sent[e][d0][i]
  BY <1>1, <1>7
<1>10. /\ sent' \in [EndPoint -> [EndPoint -> Seq(Payload)]]
       /\ sent'[e][d0] = Append(sent[e][d0], m)
       /\ \A s, d \in EndPoint : <<s, d>> # <<e, d0>> => sent'[s][d] = sent[s][d]
  BY <1>2, <1>9 DEF IInv, TypeOK
<1>11. next = Message(n, d0, m)
  BY DEF NextMessage
<1>12. TypeOK'
  <2>1. pkt \in DataPacket
    BY <1>4 DEF Packet, DataPacket
  <2>2. received_packet' \in [EndPoint -> DataPacket \cup {None}]
    BY <1>2 DEF IInv, TypeOK
  <2> QED
    BY <1>2, <1>3, <1>5, <1>10, <2>1, <2>2 DEF IInv, TypeOK, Packets
<1>13. AckedWereAccepted'
  <2>1. Tombstone(e, d0) \in Nat /\ LastSent(x, d0) \in Nat
    BY <1>1, LinkTypes DEF Tombstone
  <2>2. Tombstone(e, d0)' <= LastSent(sd[e], d0)'
    BY <1>6, <1>8, <2>1 DEF IInv, AckedWereAccepted
  <2> QED
    BY <1>6, <1>8, <2>2 DEF IInv, AckedWereAccepted
<1>14. UnAckedIsSuffix'
  <2>1. Len(sent'[e][d0]) = LastSent(sd[e], d0)'
    BY <1>8, <1>9, <1>10
  <2>2. ASSUME NEW i \in 1 .. Len(UnAcked(e, d0)')
        PROVE  (UnAcked(e, d0)')[i]
                 = Message(Acked(e, d0)' + i, d0, sent'[e][d0][Acked(e, d0)' + i])
    <3>1. CASE i = Len(UnAcked(e, d0)) + 1
      <4>1. (UnAcked(e, d0)')[i] = next
        BY <1>4, <1>6, <1>7, <3>1
      <4>2. Acked(e, d0)' + i = n
        BY <1>6, <1>7, <3>1
      <4> QED
        BY <1>9, <1>10, <1>11, <4>1, <4>2
    <3>2. CASE i # Len(UnAcked(e, d0)) + 1
      <4>1. i \in 1 .. Len(UnAcked(e, d0))
        BY <1>4, <1>6, <1>7, <2>2, <3>2
      <4>2. (UnAcked(e, d0)')[i] = UnAcked(e, d0)[i]
        BY <1>4, <1>6, <1>7, <4>1
      <4>3. Acked(e, d0) + i \in 1 .. Len(sent[e][d0])
        BY <1>7, <4>1
      <4>4. UnAcked(e, d0)[i] = Message(Acked(e, d0) + i, d0, sent[e][d0][Acked(e, d0) + i])
        BY <4>1 DEF IInv, UnAckedIsSuffix
      <4> QED
        BY <1>6, <1>9, <1>10, <4>2, <4>3, <4>4
    <3> QED
      BY <3>1, <3>2
  <2>3. \A s, d \in EndPoint :
          <<s, d>> # <<e, d0>> =>
            /\ Len(sent'[s][d]) = LastSent(sd[s], d)'
            /\ \A i \in 1 .. Len(UnAcked(s, d)') :
                 (UnAcked(s, d)')[i]
                   = Message(Acked(s, d)' + i, d, sent'[s][d][Acked(s, d)' + i])
    <3>1. SUFFICES ASSUME NEW s \in EndPoint, NEW d \in EndPoint, <<s, d>> # <<e, d0>>
          PROVE  /\ Len(sent'[s][d]) = LastSent(sd[s], d)'
                 /\ \A i \in 1 .. Len(UnAcked(s, d)') :
                      (UnAcked(s, d)')[i]
                        = Message(Acked(s, d)' + i, d, sent'[s][d][Acked(s, d)' + i])
      OBVIOUS
    <3>2. UnAckedIsSuffix
      BY DEF IInv
    <3>3. Len(sent[s][d]) = LastSent(sd[s], d)
      BY <3>2 DEF UnAckedIsSuffix
    <3>4. \A i \in 1 .. Len(UnAcked(s, d)) :
            UnAcked(s, d)[i] = Message(Acked(s, d) + i, d, sent[s][d][Acked(s, d) + i])
      BY <3>2 DEF UnAckedIsSuffix
    <3>5. /\ sent'[s][d] = sent[s][d]
          /\ UnAcked(s, d)' = UnAcked(s, d)
          /\ Acked(s, d)' = Acked(s, d)
          /\ LastSent(sd[s], d)' = LastSent(sd[s], d)
      BY <1>6, <1>8, <1>10, <3>1
    <3> QED
      BY <3>3, <3>4, <3>5
  <2> QED
    BY <2>1, <2>2, <2>3 DEF UnAckedIsSuffix
<1>15. DeliveredIsPrefix'
  <2>1. ASSUME NEW i \in 1 .. Tombstone(e, d0)
        PROVE  sent'[e][d0][i] = sent[e][d0][i]
    <3>1. Tombstone(e, d0) <= LastSent(x, d0) /\ Tombstone(e, d0) \in Nat
      BY <1>1, LinkTypes DEF IInv, AckedWereAccepted, Tombstone
    <3>2. i \in 1 .. Len(sent[e][d0])
      BY <1>1, <1>7, <3>1
    <3> QED
      BY <1>9, <1>10, <3>2
  <2>2. \A s, d \in EndPoint : \A i \in 1 .. Tombstone(s, d) : sent'[s][d][i] = sent[s][d][i]
    BY <1>10, <2>1
  <2>3. ASSUME NEW s \in EndPoint, NEW d \in EndPoint
        PROVE  /\ Len(delivered'[s][d]) = Tombstone(s, d)'
               /\ \A i \in 1 .. Tombstone(s, d)' : delivered'[s][d][i] = sent'[s][d][i]
    <3>1. DeliveredIsPrefix
      BY DEF IInv
    <3>2. Len(delivered[s][d]) = Tombstone(s, d)
      BY <3>1 DEF DeliveredIsPrefix
    <3>3. \A i \in 1 .. Tombstone(s, d) : delivered[s][d][i] = sent[s][d][i]
      BY <3>1 DEF DeliveredIsPrefix
    <3>4. delivered' = delivered /\ Tombstone(s, d)' = Tombstone(s, d)
      BY <1>2, <1>6
    <3> QED
      BY <2>2, <3>2, <3>3, <3>4
  <2> QED
    BY <2>3 DEF DeliveredIsPrefix
<1>16. AcksAreTrue'
  <2>1. pkt.msg.type = "Message"
    BY <1>11 DEF Packet, Message
  <2>2. \A q \in net : q.src \in EndPoint /\ q.dst \in EndPoint
    BY DEF IInv, TypeOK, Packets, DataPacket, AckPacket
  <2> QED
    BY <1>3, <1>6, <2>1, <2>2 DEF IInv, AcksAreTrue
<1>17. SeqnoNamesOneMessage'
  <2>1. ASSUME NEW q \in net', q.msg.type = "Message"
        PROVE  /\ q.msg.seqno \in DOMAIN sent'[q.src][q.dst]
               /\ q.msg.m = sent'[q.src][q.dst][q.msg.seqno]
    <3>1. CASE q = pkt
      <4>1. q.src = e /\ q.dst = d0 /\ q.msg.seqno = n /\ q.msg.m = m
        BY <1>11, <3>1 DEF Packet, Message
      <4> QED
        BY <1>7, <1>9, <1>10, <4>1
    <3>2. CASE q \in net
      <4>1. /\ q.src \in EndPoint
            /\ q.dst \in EndPoint
            /\ q.msg.seqno \in DOMAIN sent[q.src][q.dst]
            /\ q.msg.m = sent[q.src][q.dst][q.msg.seqno]
        <5>1. q.src \in EndPoint /\ q.dst \in EndPoint
          BY <3>2, PacketTypes
        <5>2. SeqnoNamesOneMessage
          BY DEF IInv
        <5> QED
          BY <2>1, <3>2, <5>1, <5>2 DEF SeqnoNamesOneMessage
      <4>2. CASE q.src = e /\ q.dst = d0
        <5>1. q.msg.seqno \in 1 .. Len(sent[e][d0]) /\ q.msg.m = sent[e][d0][q.msg.seqno]
          BY <1>1, <4>1, <4>2
        <5>2. DOMAIN Append(sent[e][d0], m) = 1 .. n
          BY <1>9
        <5>3. /\ q.msg.seqno \in 1 .. n
              /\ Append(sent[e][d0], m)[q.msg.seqno] = sent[e][d0][q.msg.seqno]
          BY <1>7, <1>9, <5>1
        <5> QED
          BY <1>10, <4>2, <5>1, <5>2, <5>3
      <4>3. CASE ~(q.src = e /\ q.dst = d0)
        BY <1>10, <4>1, <4>3
      <4> QED
        BY <4>2, <4>3
    <3> QED
      BY <1>3, <3>1, <3>2
  <2> QED
    BY <2>1 DEF SeqnoNamesOneMessage
<1> QED
  BY <1>12, <1>13, <1>14, <1>15, <1>16, <1>17 DEF IInv
\* Nothing is sent or received at first.
LEMMA InitIInv == Init => IInv
<1> USE MaxSeqnoAssumption
<1> SUFFICES ASSUME Init PROVE IInv
  OBVIOUS
<1>1. /\ <<>> \in Seq(DataMessage)
      /\ <<>> \in Seq(Payload)
      /\ Len(<<>>) = 0
  OBVIOUS
<1>2. EmptySingleDelivery \in SingleDeliveryState
  <2>1. NewAckState \in AckState
    BY <1>1 DEF NewAckState, AckState, Seqno
  <2> QED
    BY <2>1 DEF EmptySingleDelivery, SingleDeliveryState, Seqno
<1>3. TypeOK
  <2>1. /\ sd \in [EndPoint -> SingleDeliveryState]
        /\ received_packet \in [EndPoint -> DataPacket \cup {None}]
        /\ net \subseteq Packets
    BY <1>2 DEF Init
  <2>2. sent = [s \in EndPoint |-> [d \in EndPoint |-> <<>>]] /\ delivered = sent
    BY DEF Init
  <2>3. [s \in EndPoint |-> [d \in EndPoint |-> <<>>]]
            \in [EndPoint -> [EndPoint -> Seq(Payload)]]
    BY <1>1
  <2>4. /\ sent \in [EndPoint -> [EndPoint -> Seq(Payload)]]
        /\ delivered \in [EndPoint -> [EndPoint -> Seq(Payload)]]
    BY <2>2, <2>3
  <2> QED
    BY <2>1, <2>4 DEF TypeOK
<1>4. \A s, d \in EndPoint :
        /\ Acked(s, d) = 0
        /\ UnAcked(s, d) = <<>>
        /\ Tombstone(s, d) = 0
        /\ LastSent(sd[s], d) = 0
        /\ sent[s][d] = <<>>
        /\ delivered[s][d] = <<>>
  BY DEF Init, EmptySingleDelivery, NewAckState, Acked, UnAcked, Tombstone, LastSent
<1>5. AckedWereAccepted
  BY <1>4 DEF AckedWereAccepted
<1>6. UnAckedIsSuffix
  BY <1>4 DEF UnAckedIsSuffix
<1>7. DeliveredIsPrefix
  BY <1>4 DEF DeliveredIsPrefix
<1>8. AcksAreTrue /\ SeqnoNamesOneMessage
  BY DEF Init, AcksAreTrue, SeqnoNamesOneMessage
<1> QED
  BY <1>3, <1>5, <1>6, <1>7, <1>8 DEF IInv

\* Every step keeps the inductive invariant.
LEMMA NextIInv == IInv /\ [Next]_vars => IInv'
<1> SUFFICES ASSUME IInv, [Next]_vars PROVE IInv'
  OBVIOUS
<1>1. received_packet \in [EndPoint -> DataPacket \cup {None}]
  BY DEF IInv, TypeOK
<1>2. ASSUME NEW e \in EndPoint, NEW p \in net, ReceivePacket(e, p) PROVE IInv'
  BY <1>2, ReceiveAckStep, ReceiveMessageStep
<1>3. ASSUME NEW e \in EndPoint, NEW p \in net, DropPacket(e, p) PROVE IInv'
  <2>1. net' \subseteq net \cup {}
    BY <1>3, TransmitEffect DEF DropPacket
  <2>2. /\ UNCHANGED <<sd, sent, delivered>>
        /\ UNCHANGED received_packet
    BY <1>3 DEF DropPacket
  <2> QED
    BY <1>1, <2>1, <2>2, NetworkStep
<1>4. ASSUME NEW e \in EndPoint, ProcessPacket(e) PROVE IInv'
  <2>1. /\ UNCHANGED <<sd, sent, delivered>>
        /\ net' \subseteq net
        /\ received_packet' \in [EndPoint -> DataPacket \cup {None}]
    BY <1>1, <1>4 DEF ProcessPacket
  <2> QED
    BY <2>1, NetworkStep
<1>5. ASSUME NEW e \in EndPoint, NEW d \in EndPoint, NEW m \in Payload,
             ProcessAndSend(e, d, m)
      PROVE  IInv'
  BY <1>5, SendStep
<1>6. ASSUME NEW e \in EndPoint, RetransmitUnAckedPackets(e) PROVE IInv'
  <2>1. net' \subseteq net \cup UnAckedPackets(sd[e], e)
    BY <1>6, TransmitEffect DEF RetransmitUnAckedPackets
  <2>2. /\ UNCHANGED <<sd, sent, delivered>>
        /\ UNCHANGED received_packet
    BY <1>6 DEF RetransmitUnAckedPackets
  <2> QED
    BY <1>1, <2>1, <2>2, NetworkStep
<1>7. ASSUME UNCHANGED vars PROVE IInv'
  BY <1>7 DEF vars, IInv, TypeOK, AckedWereAccepted, UnAckedIsSuffix, DeliveredIsPrefix,
              AcksAreTrue, SeqnoNamesOneMessage, Acked, UnAcked, Tombstone
<1> QED
  BY <1>2, <1>3, <1>4, <1>5, <1>6, <1>7 DEF Next

-----------------------------------------------------------------------------
(***************************************************************************)
(* The theorems.                                                           *)
(***************************************************************************)

\* The inductive invariant of Delivery: types, counters, lists, packets and
\* histories agree in every reachable state.
THEOREM InductiveInvariant == Spec => []IInv
<1>1. Init => IInv
  BY InitIInv
<1>2. IInv /\ [Next]_vars => IInv'
  BY NextIInv
<1> QED
  BY <1>1, <1>2, PTL DEF Spec

\* Every variable keeps its type; the u64 sequence numbers never overflow.
THEOREM TypeCorrect == Spec => []TypeOK
<1>1. IInv => TypeOK
  BY DEF IInv
<1> QED
  BY <1>1, InductiveInvariant, PTL

\* No message is dropped from un_acked before its receiver accepted it, and
\* none is accepted that was not sent (truncate, receive_ack_impl).
THEOREM AcknowledgedWereAccepted == Spec => []AckedWereAccepted
<1>1. IInv => AckedWereAccepted
  BY DEF IInv
<1> QED
  BY <1>1, InductiveInvariant, PTL

\* No message that is not accepted yet is beyond retransmission
\* (retransmit_un_acked_packets).
THEOREM NothingIsLost == Spec => []UndeliveredIsRetransmittable
<1>1. IInv => UndeliveredIsRetransmittable
  <2> SUFFICES ASSUME IInv, NEW s \in EndPoint, NEW d \in EndPoint,
                      NEW n \in Tombstone(s, d) + 1 .. Len(sent[s][d])
               PROVE  \E i \in DOMAIN UnAcked(s, d) :
                          UnAcked(s, d)[i] = Message(n, d, sent[s][d][n])
    BY DEF UndeliveredIsRetransmittable
  <2>1. /\ Acked(s, d) \in Nat
        /\ UnAcked(s, d) \in Seq(DataMessage)
        /\ Len(UnAcked(s, d)) \in Nat
        /\ Tombstone(s, d) \in Nat
    BY LinkTypes DEF IInv, TypeOK, Acked, UnAcked, Tombstone
  <2>2. Len(sent[s][d]) = Acked(s, d) + Len(UnAcked(s, d))
    BY DEF IInv, UnAckedIsSuffix, LastSent, Acked, UnAcked
  <2>3. Acked(s, d) <= Tombstone(s, d)
    BY DEF IInv, AckedWereAccepted
  <2> DEFINE i == n - Acked(s, d)
  <2>4. i \in 1 .. Len(UnAcked(s, d)) /\ Acked(s, d) + i = n
    BY <2>1, <2>2, <2>3
  <2>5. UnAckedIsSuffix
    BY DEF IInv
  <2>6. UnAcked(s, d)[i] = Message(Acked(s, d) + i, d, sent[s][d][Acked(s, d) + i])
    BY <2>4, <2>5 DEF UnAckedIsSuffix
  <2>7. i \in DOMAIN UnAcked(s, d)
    BY <2>1, <2>4
  <2> QED
    BY <2>4, <2>6, <2>7
<1> QED
  BY <1>1, InductiveInvariant, PTL

\* An acknowledgment in flight acknowledges only what was accepted
\* (maybe_ack_packet_impl).
THEOREM AcknowledgmentsAreTrue == Spec => []AcksAreTrue
<1>1. IInv => AcksAreTrue
  BY DEF IInv
<1> QED
  BY <1>1, InductiveInvariant, PTL

\* A packet in flight carries what was sent under its sequence number
\* (send_single_cmessage, retransmit_un_acked_packets).
THEOREM SequenceNumbersNameMessages == Spec => []SeqnoNamesOneMessage
<1>1. IInv => SeqnoNamesOneMessage
  BY DEF IInv
<1> QED
  BY <1>1, InductiveInvariant, PTL

-----------------------------------------------------------------------------
(***************************************************************************)
(* Refinement: every step of Delivery is a step of FifoChannel or leaves   *)
(* its channels as they are.                                               *)
(***************************************************************************)

\* The first packet of a sequence number to be accepted carries the next
\* message of the channel.
LEMMA AcceptIsDeliver ==
    ASSUME IInv, NEW e \in EndPoint, NEW p \in net,
           ReceivePacket(e, p), NewSingleMessage(sd[e], p)
    PROVE  Fifo!Deliver(p.src, e)
<1> DEFINE s == p.src
<1>1. /\ p \in DataPacket
      /\ p.msg.type = "Message"
      /\ s \in EndPoint
      /\ p.dst = e
    BY PacketTypes DEF NewSingleMessage, ReceivePacket
<1>2. /\ Len(delivered[s][e]) = Tombstone(s, e)
      /\ Tombstone(s, e) \in Nat
  <2>1. DeliveredIsPrefix
    BY DEF IInv
  <2> QED
    BY <1>1, <2>1, LinkTypes DEF IInv, TypeOK, DeliveredIsPrefix, Tombstone
<1>3. p.msg.seqno = Tombstone(s, e) + 1
  <2>1. p.msg.seqno - 1 = Tombstone(s, e)
    BY DEF NewSingleMessage, Tombstone
  <2>2. p.msg.seqno \in Nat
    BY <1>1, MaxSeqnoAssumption DEF DataPacket, DataMessage, Seqno
  <2> QED
    BY <1>2, <2>1, <2>2
<1>4. /\ p.msg.seqno \in DOMAIN sent[s][e]
      /\ p.msg.m = sent[s][e][p.msg.seqno]
  <2>1. SeqnoNamesOneMessage
    BY DEF IInv
  <2> QED
    BY <1>1, <2>1 DEF SeqnoNamesOneMessage
<1>5. sent[s][e] \in Seq(Payload)
  BY <1>1 DEF IInv, TypeOK
<1>6. Len(delivered[s][e]) < Len(sent[s][e])
  BY <1>2, <1>3, <1>4, <1>5
<1>7. p.msg.m = sent[s][e][Len(delivered[s][e]) + 1]
  BY <1>2, <1>3, <1>4
<1>8. /\ delivered' = [delivered EXCEPT ![s][e] = Append(@, p.msg.m)]
      /\ UNCHANGED sent
  BY DEF ReceivePacket
<1>9. delivered' = [delivered EXCEPT ![s][e] =
                      Append(delivered[s][e], sent[s][e][Len(delivered[s][e]) + 1])]
  BY <1>7, <1>8
<1> QED
  BY <1>6, <1>8, <1>9 DEF Fifo!Deliver

\* The delivery layer implements exactly-once, in-order channels, over a
\* network that loses, duplicates and reorders.
THEOREM ExactlyOnceInOrder == Spec => FifoSpec
<1>1. Init => Fifo!Init
  BY DEF Init, Fifo!Init
<1>2. IInv /\ [Next]_vars => [Fifo!Next]_(Fifo!vars)
  <2> SUFFICES ASSUME IInv, [Next]_vars
               PROVE  Fifo!Next \/ UNCHANGED <<sent, delivered>>
    BY DEF Fifo!vars
  <2>1. ASSUME NEW e \in EndPoint, NEW p \in net, ReceivePacket(e, p)
        PROVE  Fifo!Next \/ UNCHANGED <<sent, delivered>>
    <3>1. CASE NewSingleMessage(sd[e], p)
      <4>1. Fifo!Deliver(p.src, e)
        BY <2>1, <3>1, AcceptIsDeliver
      <4>2. p.src \in EndPoint
        BY PacketTypes
      <4> QED
        BY <4>1, <4>2 DEF Fifo!Next
    <3>2. CASE ~NewSingleMessage(sd[e], p)
      BY <2>1, <3>2 DEF ReceivePacket
    <3> QED
      BY <3>1, <3>2
  <2>2. ASSUME NEW e \in EndPoint, NEW d \in EndPoint, NEW m \in Payload,
               ProcessAndSend(e, d, m)
        PROVE  Fifo!Next
    <3>1. Fifo!Send(e, d, m)
      BY <2>2 DEF ProcessAndSend, Fifo!Send
    <3> QED
      BY <3>1 DEF Fifo!Next
  <2>3. ASSUME NEW e \in EndPoint,
               \/ \E p \in net : DropPacket(e, p)
               \/ ProcessPacket(e)
               \/ RetransmitUnAckedPackets(e)
        PROVE  UNCHANGED <<sent, delivered>>
    BY <2>3 DEF DropPacket, ProcessPacket, RetransmitUnAckedPackets
  <2>4. ASSUME UNCHANGED vars PROVE UNCHANGED <<sent, delivered>>
    BY <2>4 DEF vars
  <2> QED
    BY <2>1, <2>2, <2>3, <2>4 DEF Next
<1> QED
  BY <1>1, <1>2, InductiveInvariant, PTL DEF Spec, FifoSpec, Fifo!Spec
-----------------------------------------------------------------------------
(***************************************************************************)
(* The loop implements the delivery layer.                                 *)
(***************************************************************************)

\* Every step of the loop is a step of Delivery or leaves its state alone.
LEMMA LoopStep == [LoopNext]_loopVars => [Next]_vars
<1> SUFFICES ASSUME [LoopNext]_loopVars PROVE Next \/ UNCHANGED vars
  OBVIOUS
<1>1. ASSUME NEW e \in EndPoint, NEW p \in net, Receive(e, p) PROVE Next
  BY <1>1 DEF Receive, Next
<1>2. ASSUME NEW e \in EndPoint, ReceiveNothing(e) PROVE UNCHANGED vars
  BY <1>2 DEF ReceiveNothing
<1>3. ASSUME NEW e \in EndPoint, Process(e) PROVE Next \/ UNCHANGED vars
  <2>1. CASE ProcessPacket(e)
    BY <2>1 DEF Next
  <2>2. CASE ProcessSends(e)
    BY <2>2 DEF ProcessSends, Next
  <2> QED
    BY <1>3, <2>1, <2>2 DEF Process
<1>4. ASSUME NEW e \in EndPoint, Resend(e) PROVE Next \/ UNCHANGED vars
  BY <1>4 DEF Resend, Next
<1>5. ASSUME UNCHANGED loopVars PROVE UNCHANGED vars
  BY <1>5 DEF loopVars
<1> QED
  BY <1>1, <1>2, <1>3, <1>4, <1>5 DEF LoopNext, HostNext

\* The channels of the loops are exactly-once and in order, in whatever step a
\* loop ends (real_next_impl, send_packet_seq).
THEOREM LoopIsExactlyOnceInOrder == LoopSpec => FifoSpec
<1>1. LoopInit => Init
  BY DEF LoopInit
<1>2. LoopSpec => Spec
  BY <1>1, LoopStep, PTL DEF LoopSpec, Spec
<1> QED
  BY <1>2, ExactlyOnceInOrder, PTL

-----------------------------------------------------------------------------
(***************************************************************************)
(* The packet buffer. Between the processing step and the next receive it  *)
(* is empty or holds a message that is refused; and whoever has accepted a *)
(* message to be refused holds it.                                         *)
(***************************************************************************)
LoopTypeOK ==
    /\ received_packet \in [EndPoint -> DataPacket \cup {None}]
    /\ next_action_index \in [EndPoint -> 0 .. 2]
    /\ ok \in [EndPoint -> BOOLEAN]
    /\ delivered \in [EndPoint -> [EndPoint -> Seq(Payload)]]

EmptyAfterProcessing ==
    \A e \in EndPoint :
        ok[e] /\ next_action_index[e] # 1 /\ ShouldProcess(e) => received_packet[e] = None

LastIsRefused(s, e) ==
    delivered[s][e] # <<>> /\ delivered[s][e][Len(delivered[s][e])] \in Refused

RefusedIsHeld ==
    \A e, s \in EndPoint :
        LastIsRefused(s, e) => received_packet[e] # None /\ ~ShouldProcess(e)

LoopInv == LoopTypeOK /\ EmptyAfterProcessing /\ RefusedIsHeld

\* How a step ends.
LEMMA SendEnds ==
    ASSUME NEW e, NEW out, Send(e, out)
    PROVE  Continue(e) \/ Stop(e)
  BY DEF Send

LEMMA StepEnds ==
    ASSUME LoopTypeOK, NEW e \in EndPoint, Continue(e) \/ Stop(e)
    PROVE  /\ next_action_index' \in [EndPoint -> 0 .. 2]
           /\ ok' \in [EndPoint -> BOOLEAN]
           /\ \A o \in EndPoint \ {e} :
                 ok'[o] = ok[o] /\ next_action_index'[o] = next_action_index[o]
           /\ ok'[e] => ok[e] /\ next_action_index'[e] = (next_action_index[e] + 1) % 3
<1>1. CASE Continue(e)
  <2>1. next_action_index' = [next_action_index EXCEPT ![e] = (@ + 1) % 3] /\ ok' = ok
    BY <1>1 DEF Continue
  <2>2. (next_action_index[e] + 1) % 3 \in 0 .. 2
    <3>1. next_action_index[e] \in 0 .. 2
      BY DEF LoopTypeOK
    <3>2. \A i \in 0 .. 2 : (i + 1) % 3 \in 0 .. 2
      OBVIOUS
    <3> QED
      BY <3>1, <3>2
  <2> QED
    BY <2>1, <2>2 DEF LoopTypeOK
<1>2. CASE Stop(e)
  <2>1. ok' = [ok EXCEPT ![e] = FALSE] /\ next_action_index' = next_action_index
    BY <1>2 DEF Stop
  <2>2. ok' \in [EndPoint -> BOOLEAN]
    BY <2>1 DEF LoopTypeOK
  <2>3. ok'[e] = FALSE /\ \A o \in EndPoint \ {e} : ok'[o] = ok[o]
    BY <2>1 DEF LoopTypeOK
  <2> QED
    BY <2>1, <2>2, <2>3 DEF LoopTypeOK
<1> QED
  BY <1>1, <1>2

\* A step that leaves the buffers and the deliveries alone, and is not one
\* that brings an endpoint past its processing step.
LEMMA BuffersKept ==
    ASSUME LoopInv, NEW e \in EndPoint, Continue(e) \/ Stop(e),
           UNCHANGED <<received_packet, delivered>>,
           next_action_index[e] = 1 /\ ShouldProcess(e) => received_packet[e] = None
    PROVE  LoopInv'
<1>1. LoopTypeOK'
  BY StepEnds DEF LoopInv, LoopTypeOK
<1>2. ASSUME NEW o \in EndPoint, ok'[o], next_action_index'[o] # 1, ShouldProcess(o)'
      PROVE  received_packet'[o] = None
  <2>1. ShouldProcess(o)
    BY <1>2 DEF ShouldProcess
  <2>2. CASE o # e
    BY <1>2, <2>1, <2>2, StepEnds DEF LoopInv, EmptyAfterProcessing
  <2>3. CASE o = e
    <3>1. next_action_index[e] \in 0 .. 2
      BY DEF LoopInv, LoopTypeOK
    <3>2. ok[e]
      BY <1>2, <2>3, StepEnds DEF LoopInv
    <3> QED
      BY <2>1, <2>3, <3>1, <3>2 DEF LoopInv, EmptyAfterProcessing
  <2> QED
    BY <2>2, <2>3
<1>3. RefusedIsHeld'
  BY DEF LoopInv, RefusedIsHeld, LastIsRefused, ShouldProcess
<1> QED
  BY <1>1, <1>2, <1>3 DEF LoopInv, EmptyAfterProcessing

\* Processing empties the buffer of e and changes no delivery.
LEMMA BufferProcessed ==
    ASSUME LoopInv, NEW e \in EndPoint, Continue(e) \/ Stop(e), ShouldProcess(e),
           received_packet' = [received_packet EXCEPT ![e] = None],
           UNCHANGED delivered
    PROVE  LoopInv'
<1>1. LoopTypeOK'
  BY StepEnds DEF LoopInv, LoopTypeOK
<1>2. received_packet'[e] = None /\ \A o \in EndPoint \ {e} : received_packet'[o] = received_packet[o]
  BY DEF LoopInv, LoopTypeOK
<1>3. EmptyAfterProcessing'
  BY <1>2, StepEnds DEF LoopInv, EmptyAfterProcessing, ShouldProcess
<1>4. RefusedIsHeld'
  BY <1>2 DEF LoopInv, RefusedIsHeld, LastIsRefused, ShouldProcess
<1> QED
  BY <1>1, <1>3, <1>4 DEF LoopInv

\* A fresh message is put into the empty buffer.
LEMMA BufferFilled ==
    ASSUME LoopInv, IInv, NEW e \in EndPoint, NEW p \in net,
           ReceivePacket(e, p), NewSingleMessage(sd[e], p),
           At(e, 0), Continue(e) \/ Stop(e)
    PROVE  LoopInv'
<1> DEFINE s == p.src
<1>1. p \in DataPacket /\ s \in EndPoint /\ p.msg.m \in Payload
  BY PacketTypes DEF NewSingleMessage, DataPacket, DataMessage
<1>2. /\ received_packet[e] = None
      /\ received_packet' = [received_packet EXCEPT ![e] = p]
      /\ delivered' = [delivered EXCEPT ![s][e] = Append(@, p.msg.m)]
  BY DEF ReceivePacket
<1>3. /\ received_packet'[e] = p
      /\ \A o \in EndPoint \ {e} : received_packet'[o] = received_packet[o]
      /\ p # None
  BY <1>1, <1>2, NoneAssumption DEF LoopInv, LoopTypeOK
<1>4. delivered[s][e] \in Seq(Payload)
  BY <1>1 DEF LoopInv, LoopTypeOK
<1>5. /\ delivered'[s][e] = Append(delivered[s][e], p.msg.m)
      /\ \A r, o \in EndPoint : <<r, o>> # <<s, e>> => delivered'[r][o] = delivered[r][o]
  BY <1>1, <1>2 DEF LoopInv, LoopTypeOK
<1>6. LoopTypeOK'
  <2>1. delivered' \in [EndPoint -> [EndPoint -> Seq(Payload)]]
    <3>1. Append(delivered[s][e], p.msg.m) \in Seq(Payload)
      BY <1>1, <1>4
    <3> QED
      BY <1>1, <1>2, <3>1 DEF LoopInv, LoopTypeOK
  <2>2. received_packet' \in [EndPoint -> DataPacket \cup {None}]
    BY <1>1, <1>2 DEF LoopInv, LoopTypeOK
  <2> QED
    BY <2>1, <2>2, StepEnds DEF LoopInv, LoopTypeOK
<1>7. EmptyAfterProcessing'
  <2> SUFFICES ASSUME NEW o \in EndPoint, ok'[o], next_action_index'[o] # 1, ShouldProcess(o)'
               PROVE  received_packet'[o] = None
    BY DEF EmptyAfterProcessing
  <2>1. o # e
    BY StepEnds DEF LoopInv, At
  <2> QED
    BY <1>3, <2>1, StepEnds DEF LoopInv, EmptyAfterProcessing, ShouldProcess
<1>8. RefusedIsHeld'
  <2> SUFFICES ASSUME NEW o \in EndPoint, NEW r \in EndPoint, LastIsRefused(r, o)'
               PROVE  (received_packet[o] # None /\ ~ShouldProcess(o))'
    BY DEF RefusedIsHeld
  <2>1. CASE o # e
    BY <1>3, <1>5, <2>1 DEF LoopInv, RefusedIsHeld, LastIsRefused, ShouldProcess
  <2>2. CASE o = e /\ r # s
    BY <1>2, <1>5, <2>2 DEF LoopInv, RefusedIsHeld, LastIsRefused
  <2>3. CASE o = e /\ r = s
    <3>1. delivered'[s][e][Len(delivered'[s][e])] = p.msg.m
      BY <1>1, <1>4, <1>5
    <3>2. p.msg.m \in Refused
      BY <2>3, <3>1 DEF LastIsRefused
    <3> QED
      BY <1>3, <2>3, <3>2 DEF ShouldProcess
  <2> QED
    BY <2>1, <2>2, <2>3
<1> QED
  BY <1>6, <1>7, <1>8 DEF LoopInv

LEMMA InitLoopInv == LoopInit => LoopInv
<1> SUFFICES ASSUME LoopInit PROVE LoopInv
  OBVIOUS
<1>1. IInv
  BY InitIInv DEF LoopInit
<1>2. LoopTypeOK
  BY <1>1 DEF LoopInit, LoopTypeOK, IInv, TypeOK
<1>3. \A e, s \in EndPoint : received_packet[e] = None /\ delivered[s][e] = <<>>
  BY DEF LoopInit, Init
<1> QED
  BY <1>2, <1>3 DEF LoopInv, EmptyAfterProcessing, RefusedIsHeld, LastIsRefused

LEMMA NextLoopInv == LoopInv /\ IInv /\ [LoopNext]_loopVars => LoopInv'
<1> SUFFICES ASSUME LoopInv, IInv, [LoopNext]_loopVars PROVE LoopInv'
  OBVIOUS
<1>1. ASSUME NEW e \in EndPoint, NEW p \in net, Receive(e, p) PROVE LoopInv'
  <2>1. At(e, 0) /\ (Continue(e) \/ Stop(e))
    BY <1>1, SendEnds DEF Receive
  <2>2. next_action_index[e] = 0
    BY <2>1 DEF At
  <2>3. CASE ReceivePacket(e, p) /\ NewSingleMessage(sd[e], p)
    BY <2>1, <2>3, BufferFilled
  <2>4. CASE ReceivePacket(e, p) /\ ~NewSingleMessage(sd[e], p)
    <3>1. UNCHANGED <<received_packet, delivered>>
      BY <2>4 DEF ReceivePacket
    <3> QED
      BY <2>1, <2>2, <3>1, BuffersKept
  <2>5. CASE DropPacket(e, p)
    <3>1. UNCHANGED <<received_packet, delivered>>
      BY <2>5 DEF DropPacket
    <3> QED
      BY <2>1, <2>2, <3>1, BuffersKept
  <2> QED
    BY <1>1, <2>3, <2>4, <2>5 DEF Receive
<1>2. ASSUME NEW e \in EndPoint, ReceiveNothing(e) PROVE LoopInv'
  <2>1. next_action_index[e] = 0 /\ (Continue(e) \/ Stop(e)) /\ UNCHANGED <<received_packet, delivered>>
    BY <1>2 DEF ReceiveNothing, At, vars
  <2> QED
    BY <2>1, BuffersKept
<1>3. ASSUME NEW e \in EndPoint, Process(e) PROVE LoopInv'
  <2>1. CASE ShouldProcess(e) /\ ProcessPacket(e) /\ Continue(e)
    <3>1. received_packet' = [received_packet EXCEPT ![e] = None] /\ UNCHANGED delivered
      BY <2>1 DEF ProcessPacket
    <3> QED
      BY <2>1, <3>1, BufferProcessed
  <2>2. CASE ShouldProcess(e) /\ ProcessSends(e)
    <3>1. /\ received_packet' = [received_packet EXCEPT ![e] = None]
          /\ UNCHANGED delivered
          /\ Continue(e) \/ Stop(e)
      BY <2>2, SendEnds DEF ProcessSends, ProcessAndSend
    <3> QED
      BY <2>2, <3>1, BufferProcessed
  <2>3. CASE (received_packet[e] = None \/ ~ShouldProcess(e)) /\ UNCHANGED vars /\ Continue(e)
    <3>1. UNCHANGED <<received_packet, delivered>>
      BY <2>3 DEF vars
    <3> QED
      BY <2>3, <3>1, BuffersKept
  <2> QED
    BY <1>3, <2>1, <2>2, <2>3 DEF Process
<1>4. ASSUME NEW e \in EndPoint, Resend(e) PROVE LoopInv'
  <2>1. /\ next_action_index[e] = 2
        /\ Continue(e) \/ Stop(e)
        /\ UNCHANGED <<received_packet, delivered>>
    BY <1>4, SendEnds DEF Resend, At, vars, RetransmitUnAckedPackets
  <2> QED
    BY <2>1, BuffersKept
<1>5. ASSUME UNCHANGED loopVars PROVE LoopInv'
  BY <1>5 DEF loopVars, vars, schedulerVars, LoopInv, LoopTypeOK, EmptyAfterProcessing,
              RefusedIsHeld, LastIsRefused, ShouldProcess
<1> QED
  BY <1>1, <1>2, <1>3, <1>4, <1>5 DEF LoopNext, HostNext

THEOREM LoopInvariant == LoopSpec => [](LoopInv /\ IInv)
<1>1. LoopInit => LoopInv /\ IInv
  BY InitLoopInv, InitIInv DEF LoopInit
<1>2. LoopInv /\ IInv /\ [LoopNext]_loopVars => (LoopInv /\ IInv)'
  BY NextLoopInv, LoopStep, NextIInv
<1> QED
  BY <1>1, <1>2, PTL DEF LoopSpec

\* A receive step never drops an acknowledgment because of a message that
\* the handlers would have taken (real_next_impl).
THEOREM BufferIsEmptyAtReceive == LoopSpec => []BufferEmptyAtReceive
<1>1. LoopInv => BufferEmptyAtReceive
  BY DEF LoopInv, EmptyAfterProcessing, BufferEmptyAtReceive, At
<1> QED
  BY <1>1, LoopInvariant, PTL

-----------------------------------------------------------------------------
\* A host that has accepted a message it refuses accepts nothing more, and no
\* acknowledgment reaches it (process_received_packet_next_impl).
THEOREM RefusalIsForever == LoopSpec => RefusedIsForever
<1> DEFINE Kept == \A e \in EndPoint :
                      Stuck(e) => \A o \in EndPoint : /\ delivered'[o][e] = delivered[o][e]
                                                     /\ Acked(e, o)' = Acked(e, o)
<1>1. LoopInv /\ IInv /\ [LoopNext]_loopVars => [Kept]_loopVars
  <2> SUFFICES ASSUME LoopInv, IInv, LoopNext, NEW e \in EndPoint, Stuck(e), NEW o \in EndPoint
               PROVE  delivered'[o][e] = delivered[o][e] /\ Acked(e, o)' = Acked(e, o)
    OBVIOUS
  <2>1. received_packet[e] # None /\ ~ShouldProcess(e)
    BY DEF LoopInv, RefusedIsHeld, LastIsRefused, Stuck
  <2>2. /\ sd \in [EndPoint -> SingleDeliveryState]
        /\ delivered \in [EndPoint -> [EndPoint -> Seq(Payload)]]
    BY DEF IInv, TypeOK
  <2>3. PICK h \in EndPoint : HostNext(h)
    BY DEF LoopNext
  <2>4. CASE h = e
    <3>1. UNCHANGED <<sd, delivered>>
      BY <2>1, <2>3, <2>4 DEF HostNext, Receive, ReceivePacket, DropPacket, ReceiveNothing, Process,
                   Resend, RetransmitUnAckedPackets, vars
    <3> QED
      BY <3>1 DEF Acked
  <2>5. CASE h # e
    <3>1. CASE \E p \in net : Receive(h, p)
      <4>1. PICK p \in net : Receive(h, p)
        BY <3>1
      <4>2. p.src \in EndPoint
        BY PacketTypes
      <4>3. CASE ReceivePacket(h, p)
        <5>1. sd'[e] = sd[e]
          BY <2>2, <2>5, <4>3 DEF ReceivePacket
        <5>2. delivered'[o][e] = delivered[o][e]
          <6>1. CASE NewSingleMessage(sd[h], p)
            <7> DEFINE accepted == Append(delivered[p.src][h], p.msg.m)
            <7>1. delivered' = [delivered EXCEPT ![p.src][h] = accepted]
              BY <4>3, <6>1 DEF ReceivePacket
            <7> HIDE DEF accepted
            <7> QED
              BY <2>2, <2>5, <4>2, <7>1
          <6>2. CASE ~NewSingleMessage(sd[h], p)
            BY <4>3, <6>2 DEF ReceivePacket
          <6> QED
            BY <6>1, <6>2
        <5> QED
          BY <5>1, <5>2 DEF Acked
      <4>4. CASE DropPacket(h, p)
        BY <4>4 DEF DropPacket, Acked
      <4> QED
        BY <4>1, <4>3, <4>4 DEF Receive
    <3>2. CASE ProcessSends(h)
      <4>1. sd'[e] = sd[e] /\ delivered' = delivered
        BY <2>2, <2>5, <3>2 DEF ProcessSends, ProcessAndSend
      <4> QED
        BY <4>1 DEF Acked
    <3>3. CASE UNCHANGED <<sd, delivered>>
      BY <3>3 DEF Acked
    <3>4. ReceiveNothing(h) \/ Process(h) \/ Resend(h) => ProcessSends(h) \/ UNCHANGED <<sd, delivered>>
      BY DEF ReceiveNothing, Process, ProcessPacket, Resend, RetransmitUnAckedPackets, vars
    <3> QED
      BY <2>3, <3>1, <3>2, <3>3, <3>4 DEF HostNext
  <2> QED
    BY <2>4, <2>5
<1> QED
  BY <1>1, LoopInvariant, PTL DEF LoopSpec, RefusedIsForever
=============================================================================
