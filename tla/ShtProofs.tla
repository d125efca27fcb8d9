----------------------------- MODULE ShtProofs -----------------------------
(***************************************************************************)
(* Proofs about Sht, for any hosts, clients, keys, values, requests and    *)
(* limits: types, the delivery layer between hosts, answers, and who has a *)
(* key and its value.                                                      *)
(***************************************************************************)
EXTENDS Sht, SingleDeliveryProofs, FiniteSetTheorems

-----------------------------------------------------------------------------
(***************************************************************************)
(* The delivery layer between hosts, by the sequence numbers of a link:    *)
(* from h to o, the numbers up to Acked are acknowledged, those up to Last *)
(* are sent, and MsgAt is the message of each in between.                  *)
(***************************************************************************)
SingleDeliveryState ==
    [receive_state : [EndPoint -> Seqno], send_state : [EndPoint -> AckState]]

Acked(h, o) == sd[h].send_state[o].num_packets_acked
UnAcked(h, o) == sd[h].send_state[o].un_acked
Tombstone(h, o) == sd[h].receive_state[o]
Last(h, o) == Acked(h, o) + Len(UnAcked(h, o))
MsgAt(h, o, n) == UnAcked(h, o)[n - Acked(h, o)]

SdOK == sd \in [Host -> SingleDeliveryState]

LastFits == \A h \in Host, o \in EndPoint : Last(h, o) <= MaxSeqno

\* Every message that is not acknowledged has its number, its destination,
\* and was sent.
UnAckedSent ==
    \A h \in Host, o \in EndPoint : \A n \in Acked(h, o) + 1 .. Last(h, o) :
        /\ MsgAt(h, o, n).seqno = n
        /\ MsgAt(h, o, n).dst = o
        /\ Packet(h, o, MsgAt(h, o, n)) \in net

\* A message in net was sent by its host, and is in un_acked as long as it is
\* not acknowledged.
MessagesKnown ==
    \A p \in net :
        p.src \in Host /\ p.msg.type = "Message" =>
            /\ p.msg.seqno <= Last(p.src, p.dst)
            /\ p.msg.seqno > Acked(p.src, p.dst) => p.msg = MsgAt(p.src, p.dst, p.msg.seqno)

\* Nobody acknowledges what was not sent, and no host what it did not accept.
AcksKnown ==
    \A p \in net :
        p.dst \in Host /\ p.msg.type = "Ack" =>
            /\ p.msg.ack_seqno <= Last(p.dst, p.src)
            /\ p.src \in Host => p.msg.ack_seqno <= Tombstone(p.src, p.dst)

AckedWereAccepted == \A s, d \in Host : Acked(s, d) <= Tombstone(d, s)

AcceptedWereSent == \A s, d \in Host : Tombstone(d, s) <= Last(s, d)

\* What is in a buffer was sent to the host and counts as accepted.
BuffersHold ==
    \A e \in Host :
        received_packet[e] # NoPacket =>
            /\ received_packet[e] \in net
            /\ received_packet[e] \in DataPacket
            /\ received_packet[e].dst = e
            /\ received_packet[e].msg.seqno <= Tombstone(e, received_packet[e].src)

DeliveryInv ==
    /\ LastFits
    /\ UnAckedSent
    /\ MessagesKnown
    /\ AcksKnown
    /\ AckedWereAccepted
    /\ AcceptedWereSent
    /\ BuffersHold

-----------------------------------------------------------------------------
(***************************************************************************)
(* What the operators of the delivery layer do to a link.                  *)
(***************************************************************************)
LEMMA LinkTypes ==
    ASSUME SdOK, NEW h \in Host, NEW o \in EndPoint
    PROVE  /\ sd[h] \in SingleDeliveryState
           /\ sd[h].send_state[o] \in AckState
           /\ Acked(h, o) \in Nat
           /\ Acked(h, o) \in Seqno
           /\ UnAcked(h, o) \in Seq(DataMessage)
           /\ Len(UnAcked(h, o)) \in Nat
           /\ Last(h, o) \in Nat
           /\ Tombstone(h, o) \in Nat
           /\ Tombstone(h, o) \in Seqno
<1> USE MaxSeqnoAssumption
<1>1. sd[h] \in SingleDeliveryState
  BY DEF SdOK
<1>2. sd[h].send_state[o] \in AckState /\ sd[h].receive_state[o] \in Seqno
  BY <1>1 DEF SingleDeliveryState
<1>3. /\ Acked(h, o) \in Seqno
      /\ UnAcked(h, o) \in Seq(DataMessage)
  BY <1>2 DEF AckState, Acked, UnAcked
<1>4. Len(UnAcked(h, o)) \in Nat
  BY <1>3
<1> QED
  BY <1>1, <1>2, <1>3, <1>4 DEF Seqno, Tombstone, Last

LEMMA PacketTypes ==
    ASSUME net \subseteq DataPacket \cup AckPacket, NEW p \in net
    PROVE  /\ p.src \in EndPoint
           /\ p.dst \in EndPoint
           /\ p.msg.type = "Ack" \/ p.msg.type = "Message"
           /\ p.msg.type = "Ack" => p \in AckPacket /\ p.msg.ack_seqno \in Nat
                                    /\ p.msg.ack_seqno \in Seqno
           /\ p.msg.type = "Message" => p \in DataPacket /\ p.msg.seqno \in Nat
                                        /\ p.msg.seqno \in Seqno
<1>1. CASE p \in DataPacket
  BY <1>1, MaxSeqnoAssumption DEF DataPacket, DataMessage, Seqno
<1>2. CASE p \in AckPacket
  BY <1>2, MaxSeqnoAssumption DEF AckPacket, Seqno
<1> QED
  BY <1>1, <1>2

\* The lists of un_acked messages are numbered in order.
LEMMA Numbered ==
    ASSUME SdOK, UnAckedSent, NEW h \in Host, NEW o \in EndPoint,
           NEW i \in 1 .. Len(UnAcked(h, o))
    PROVE  /\ UnAcked(h, o)[i].seqno = Acked(h, o) + i
           /\ UnAcked(h, o)[i].dst = o
           /\ Packet(h, o, UnAcked(h, o)[i]) \in net
<1>1. Acked(h, o) \in Nat /\ Len(UnAcked(h, o)) \in Nat
  BY LinkTypes
<1> DEFINE n == Acked(h, o) + i
<1>2. n \in Acked(h, o) + 1 .. Last(h, o) /\ n - Acked(h, o) = i
  BY <1>1 DEF Last
<1>3. MsgAt(h, o, n) = UnAcked(h, o)[i]
  BY <1>2 DEF MsgAt
<1> QED
  BY <1>2, <1>3 DEF UnAckedSent

\* Only the state of e changes, and only its link to s.
Elsewhere(e, s) ==
    \A h \in Host, o \in EndPoint :
        <<h, o>> # <<e, s>> => sd'[h].send_state[o] = sd[h].send_state[o]

LEMMA AckReceived ==
    ASSUME SdOK, UnAckedSent, NEW e \in Host, NEW s \in EndPoint, NEW p,
           p.src = s, p.msg.ack_seqno \in Seqno, p.msg.ack_seqno <= Last(e, s),
           sd' = [sd EXCEPT ![e] = ReceiveAck(@, p)]
    PROVE  /\ SdOK'
           /\ Elsewhere(e, s)
           /\ \A h \in Host : sd'[h].receive_state = sd[h].receive_state
           /\ Acked(e, s) <= Acked(e, s)'
           /\ Acked(e, s)' = Acked(e, s) \/ Acked(e, s)' = p.msg.ack_seqno
           /\ Last(e, s)' = Last(e, s)
           /\ \A n \in Acked(e, s)' + 1 .. Last(e, s) : MsgAt(e, s, n)' = MsgAt(e, s, n)
<1> USE MaxSeqnoAssumption
<1> DEFINE a == Acked(e, s)
           u == UnAcked(e, s)
           n == p.msg.ack_seqno
           c == n - a
<1>1. /\ sd[e] \in SingleDeliveryState
      /\ a \in Nat /\ a \in Seqno
      /\ u \in Seq(DataMessage) /\ Len(u) \in Nat
      /\ n \in Nat
  BY LinkTypes DEF Seqno
<1>2. CASE n <= a
  <2>1. sd' = sd
    BY <1>2 DEF SdOK, ReceiveAck, Acked
  <2>2. Acked(e, s)' = Acked(e, s) /\ UnAcked(e, s)' = UnAcked(e, s)
    BY <2>1 DEF Acked, UnAcked
  <2> QED
    BY <1>1, <2>1, <2>2 DEF SdOK, Elsewhere, Last, MsgAt
<1>3. CASE ~(n <= a)
  <2> DEFINE rest == SubSeq(u, c + 1, Len(u))
             t == [num_packets_acked |-> n, un_acked |-> rest]
  <2>1. Covered(u, n) = c
    <3>1. a <= n /\ n <= a + Len(u)
      BY <1>1, <1>3 DEF Last
    <3>2. \A i \in 1 .. Len(u) : u[i].seqno = a + i
      BY Numbered
    <3> HIDE DEF a, u, n
    <3> QED
      BY <1>1, <3>1, <3>2, CoveredSequential
  <2>2. ReceiveAck(sd[e], p) = [sd[e] EXCEPT !.send_state[s] = t]
    BY <1>3, <2>1 DEF ReceiveAck, PutAckState, Truncate, Acked, UnAcked
  <2>3. c \in 1 .. Len(u) /\ c \in 0 .. Len(u)
    <3>1. n <= a + Len(u)
      BY DEF Last
    <3> QED
      BY <1>1, <1>3, <3>1
  <2>4. /\ rest \in Seq(DataMessage)
        /\ Len(rest) = Len(u) - c
        /\ \A i \in 1 .. Len(rest) : rest[i] = u[i + c]
    <3> HIDE DEF u, n, a
    <3> HIDE DEF c
    <3> QED
      BY <1>1, <2>3, DropFront
  <2> HIDE DEF rest
  <2>5. t \in AckState
    BY <2>4 DEF AckState
  <2> HIDE DEF t
  <2>6. sd' = [sd EXCEPT ![e] = [sd[e] EXCEPT !.send_state[s] = t]]
    BY <2>2
  <2> DEFINE y == [sd[e] EXCEPT !.send_state[s] = t]
  <2>7. /\ y \in SingleDeliveryState
        /\ y.receive_state = sd[e].receive_state
        /\ y.send_state = [sd[e].send_state EXCEPT ![s] = t]
    BY <1>1, <2>5 DEF SingleDeliveryState
  <2> HIDE DEF y
  <2>7a. SdOK' /\ sd'[e] = y /\ \A h \in Host \ {e} : sd'[h] = sd[h]
    BY <2>6, <2>7 DEF SdOK, y
  <2>7b. \A h \in Host : sd'[h].receive_state = sd[h].receive_state
    BY <2>7, <2>7a
  <2>8. sd'[e].send_state[s] = t /\ Elsewhere(e, s)
    BY <1>1, <2>7, <2>7a DEF SingleDeliveryState, Elsewhere
  <2>9. Acked(e, s)' = n /\ UnAcked(e, s)' = rest
    BY <2>8 DEF Acked, UnAcked, t
  <2>10. Last(e, s)' = Last(e, s)
    <3>1. Last(e, s)' = n + Len(rest)
      BY <2>9 DEF Last
    <3>2. n + (Len(u) - c) = a + Len(u)
      <4> HIDE DEF a, u, n
      <4> QED
        BY <1>1
    <3> QED
      BY <2>4, <3>1, <3>2 DEF Last
  <2>11. ASSUME NEW k \in Acked(e, s)' + 1 .. Last(e, s) PROVE MsgAt(e, s, k)' = MsgAt(e, s, k)
    <3>1. k - n \in 1 .. Len(rest) /\ (k - n) + c = k - a
      BY <1>1, <2>4, <2>9 DEF Last
    <3>2. rest[k - n] = u[k - a]
      BY <2>4, <3>1
    <3> QED
      BY <2>9, <3>2 DEF MsgAt
  <2> QED
    BY <1>1, <1>3, <2>7a, <2>7b, <2>8, <2>9, <2>10, <2>11
<1> QED
  BY <1>2, <1>3

LEMMA MessageReceived ==
    ASSUME SdOK, NEW e \in Host, NEW p \in DataPacket,
           sd' = [sd EXCEPT ![e] = ReceiveRealPacket(@, p)]
    PROVE  /\ SdOK'
           /\ \A h \in Host : sd'[h].send_state = sd[h].send_state
           /\ \A h \in Host, o \in EndPoint :
                 <<h, o>> # <<e, p.src>> => Tombstone(h, o)' = Tombstone(h, o)
           /\ NewSingleMessage(sd[e], p) =>
                 /\ p.msg.seqno = Tombstone(e, p.src) + 1
                 /\ Tombstone(e, p.src)' = Tombstone(e, p.src) + 1
           /\ ~NewSingleMessage(sd[e], p) => Tombstone(e, p.src)' = Tombstone(e, p.src)
<1> USE MaxSeqnoAssumption
<1>1. /\ p.src \in EndPoint
      /\ p.msg.seqno \in 0 .. MaxSeqno
      /\ sd[e] \in SingleDeliveryState
      /\ sd[e].receive_state \in [EndPoint -> 0 .. MaxSeqno]
  BY DEF DataPacket, DataMessage, SingleDeliveryState, SdOK, Seqno
<1>2. CASE NewSingleMessage(sd[e], p)
  <2>1. p.msg.seqno = sd[e].receive_state[p.src] + 1
    BY <1>1, <1>2 DEF NewSingleMessage
  <2> DEFINE r == [sd[e].receive_state EXCEPT ![p.src] = sd[e].receive_state[p.src] + 1]
             y == [sd[e] EXCEPT !.receive_state = r]
  <2>2. r \in [EndPoint -> 0 .. MaxSeqno]
    BY <1>1, <2>1
  <2>3. ReceiveRealPacket(sd[e], p) = y
    BY <1>2 DEF ReceiveRealPacket
  <2>4. /\ y \in SingleDeliveryState
        /\ y.send_state = sd[e].send_state
        /\ y.receive_state[p.src] = sd[e].receive_state[p.src] + 1
        /\ \A o \in EndPoint \ {p.src} : y.receive_state[o] = sd[e].receive_state[o]
    BY <1>1, <2>2 DEF SingleDeliveryState, Seqno
  <2> HIDE DEF y
  <2>5. SdOK' /\ sd'[e] = y /\ \A h \in Host \ {e} : sd'[h] = sd[h]
    BY <2>3, <2>4 DEF SdOK
  <2> QED
    BY <1>2, <2>1, <2>4, <2>5 DEF Tombstone
<1>3. CASE ~NewSingleMessage(sd[e], p)
  <2>1. sd' = sd
    BY <1>3 DEF ReceiveRealPacket, SdOK
  <2> QED
    BY <1>3, <2>1 DEF SdOK, Tombstone
<1> QED
  BY <1>2, <1>3

LEMMA MessageSent ==
    ASSUME SdOK, LastFits, NEW e \in Host, NEW d \in EndPoint, NEW m \in CMessage,
           CanSend(sd[e], d),
           sd' = [sd EXCEPT ![e] = SendSingleMessage(@, d, m)]
    PROVE  /\ SdOK'
           /\ Elsewhere(e, d)
           /\ \A h \in Host : sd'[h].receive_state = sd[h].receive_state
           /\ Acked(e, d)' = Acked(e, d)
           /\ Last(e, d)' = Last(e, d) + 1
           /\ Last(e, d)' <= MaxSeqno
           /\ NextMessage(sd[e], d, m) = Message(Last(e, d) + 1, d, m)
           /\ NextMessage(sd[e], d, m) \in DataMessage
           /\ \A n : n = Last(e, d) + 1 => MsgAt(e, d, n)' = NextMessage(sd[e], d, m)
           /\ \A n \in Acked(e, d) + 1 .. Last(e, d) : MsgAt(e, d, n)' = MsgAt(e, d, n)
<1> USE MaxSeqnoAssumption
<1> DEFINE a == Acked(e, d)
           u == UnAcked(e, d)
           next == NextMessage(sd[e], d, m)
           t == [sd[e].send_state[d] EXCEPT !.un_acked = Append(u, next)]
           y == [sd[e] EXCEPT !.send_state[d] = t]
<1>1. /\ sd[e] \in SingleDeliveryState
      /\ sd[e].send_state[d] \in AckState
      /\ a \in Nat /\ a \in Seqno
      /\ u \in Seq(DataMessage) /\ Len(u) \in Nat
  BY LinkTypes
<1>2. Last(e, d) + 1 \in 0 .. MaxSeqno
  <2>1. a + Len(u) <= MaxSeqno
    BY DEF LastFits, Last
  <2>2. MaxSeqno - a # Len(u)
    BY DEF CanSend, Acked, UnAcked
  <2>3. a + Len(u) + 1 \in 0 .. MaxSeqno
    <3> HIDE DEF a, u
    <3> QED
      BY <1>1, <2>1, <2>2, RoomForOneMore
  <2> QED
    BY <2>3 DEF Last
<1>3. next = Message(Last(e, d) + 1, d, m)
  BY DEF NextMessage, LastSent, Last, Acked, UnAcked
<1>4. next \in DataMessage
  BY <1>2, <1>3 DEF Message, DataMessage, Seqno
<1>5. SendSingleMessage(sd[e], d, m) = y
  BY DEF SendSingleMessage, PutAckState, UnAcked
<1> HIDE DEF next
<1>6. Append(u, next) \in Seq(DataMessage)
  BY <1>1, <1>4
<1>7. /\ t \in AckState
      /\ t.num_packets_acked = a
      /\ t.un_acked = Append(u, next)
  BY <1>1, <1>6 DEF AckState, Acked
<1> HIDE DEF t
<1>8. /\ y \in SingleDeliveryState
      /\ y.receive_state = sd[e].receive_state
      /\ y.send_state = [sd[e].send_state EXCEPT ![d] = t]
  BY <1>1, <1>7 DEF SingleDeliveryState
<1> HIDE DEF y
<1>9. SdOK' /\ sd'[e] = y /\ \A h \in Host \ {e} : sd'[h] = sd[h]
  BY <1>5, <1>8 DEF SdOK
<1>10. sd'[e].send_state[d] = t /\ Elsewhere(e, d)
  BY <1>1, <1>8, <1>9 DEF SingleDeliveryState, Elsewhere
<1>11. Acked(e, d)' = a /\ UnAcked(e, d)' = Append(u, next)
  BY <1>7, <1>10 DEF Acked, UnAcked
<1>12. Last(e, d)' = Last(e, d) + 1
  <2>1. Len(Append(u, next)) = Len(u) + 1
    BY <1>1, <1>4
  <2>2. Last(e, d)' = a + Len(Append(u, next))
    BY <1>11 DEF Last
  <2> HIDE DEF a, u
  <2> QED
    BY <1>1, <2>1, <2>2 DEF Last, a, u
<1>13. ASSUME NEW n, n = Last(e, d) + 1 PROVE MsgAt(e, d, n)' = next
  <2>1. n - a = Len(u) + 1
    BY <1>1, <1>13 DEF Last
  <2>2. MsgAt(e, d, n)' = Append(u, next)[n - a]
    BY <1>11 DEF MsgAt
  <2>3. Append(u, next)[Len(u) + 1] = next
    BY <1>1, <1>4
  <2> QED
    BY <2>1, <2>2, <2>3
<1>14. ASSUME NEW n \in Acked(e, d) + 1 .. Last(e, d) PROVE MsgAt(e, d, n)' = MsgAt(e, d, n)
  <2>1. n - a \in 1 .. Len(u)
    BY <1>1 DEF Last
  <2> QED
    BY <1>1, <1>4, <1>11, <2>1 DEF MsgAt
<1> QED
  BY <1>2, <1>3, <1>4, <1>8, <1>9, <1>10, <1>11, <1>12, <1>13, <1>14 DEF next

LEMMA LinkElsewhere ==
    ASSUME NEW e, NEW s, Elsewhere(e, s), NEW h \in Host, NEW o \in EndPoint, <<h, o>> # <<e, s>>
    PROVE  /\ Acked(h, o)' = Acked(h, o)
           /\ Last(h, o)' = Last(h, o)
           /\ \A n : MsgAt(h, o, n)' = MsgAt(h, o, n)
  BY DEF Elsewhere, Acked, UnAcked, Last, MsgAt

-----------------------------------------------------------------------------
(***************************************************************************)
(* DeliveryInv is kept by every kind of step.                              *)
(***************************************************************************)
NetOK == net \subseteq DataPacket \cup AckPacket

\* What a client sends: a message, or the acknowledgment of one sent to it.
FromClient(q) ==
    /\ q.src \in Client
    /\ \/ q.msg.type = "Message"
       \/ /\ q.msg.type = "Ack"
          /\ \E p \in net : /\ p.msg.type = "Message"
                            /\ p.src = q.dst
                            /\ p.dst = q.src
                            /\ p.msg.seqno = q.msg.ack_seqno

LEMMA QuietStep ==
    ASSUME SdOK, NetOK, DeliveryInv, UNCHANGED sd, net \subseteq net',
           \A q \in net' \ net : FromClient(q),
           \A e \in Host : received_packet'[e] = received_packet[e] \/ received_packet'[e] = NoPacket
    PROVE  DeliveryInv'
<1>1. \A h \in Host, o \in EndPoint :
        /\ Acked(h, o)' = Acked(h, o)
        /\ Last(h, o)' = Last(h, o)
        /\ Tombstone(h, o)' = Tombstone(h, o)
        /\ \A n : MsgAt(h, o, n)' = MsgAt(h, o, n)
  BY DEF Acked, UnAcked, Last, Tombstone, MsgAt
<1>2. Host \cap Client = {} /\ Host \subseteq EndPoint
  BY ShtAssumption
<1>3. LastFits'
  BY <1>1 DEF DeliveryInv, LastFits
<1>4. UnAckedSent'
  BY <1>1 DEF DeliveryInv, UnAckedSent
<1>5. MessagesKnown'
  <2> SUFFICES ASSUME NEW p \in net', p.src \in Host, p.msg.type = "Message"
               PROVE  /\ p.msg.seqno <= Last(p.src, p.dst)'
                      /\ p.msg.seqno > Acked(p.src, p.dst)'
                            => p.msg = MsgAt(p.src, p.dst, p.msg.seqno)'
    BY DEF MessagesKnown
  <2>1. p \in net
    BY <1>2 DEF FromClient
  <2>2. p.dst \in EndPoint
    BY <2>1, PacketTypes DEF NetOK
  <2> QED
    BY <1>1, <2>1, <2>2 DEF DeliveryInv, MessagesKnown
<1>6. AcksKnown'
  <2> SUFFICES ASSUME NEW q \in net', q.dst \in Host, q.msg.type = "Ack"
               PROVE  /\ q.msg.ack_seqno <= Last(q.dst, q.src)'
                      /\ q.src \in Host => q.msg.ack_seqno <= Tombstone(q.src, q.dst)'
    BY DEF AcksKnown
  <2>1. CASE q \in net
    <3>1. q.src \in EndPoint
      BY <2>1, PacketTypes DEF NetOK
    <3> QED
      BY <1>1, <1>2, <2>1, <3>1 DEF DeliveryInv, AcksKnown
  <2>2. CASE q \notin net
    <3>1. FromClient(q) /\ q.src \notin Host
      BY <1>2, <2>2 DEF FromClient
    <3>2. PICK p \in net : p.msg.type = "Message" /\ p.src = q.dst /\ p.dst = q.src
                           /\ p.msg.seqno = q.msg.ack_seqno
      BY <3>1 DEF FromClient
    <3>3. p.msg.seqno <= Last(p.src, p.dst)
      BY <3>2 DEF DeliveryInv, MessagesKnown
    <3>4. p.dst \in EndPoint
      BY PacketTypes DEF NetOK
    <3> QED
      BY <1>1, <3>1, <3>2, <3>3, <3>4
  <2> QED
    BY <2>1, <2>2
<1>7. AckedWereAccepted'
  BY <1>1, <1>2 DEF DeliveryInv, AckedWereAccepted
<1>8. BuffersHold'
  <2> SUFFICES ASSUME NEW e \in Host, NEW q, q = received_packet'[e], q # NoPacket
               PROVE  /\ q \in net' /\ q \in DataPacket /\ q.dst = e
                      /\ q.msg.seqno <= Tombstone(e, q.src)'
    BY DEF BuffersHold, Tombstone
  <2>1. q = received_packet[e]
    OBVIOUS
  <2>2. q \in net /\ q \in DataPacket /\ q.dst = e /\ q.msg.seqno <= Tombstone(e, q.src)
    BY <2>1 DEF DeliveryInv, BuffersHold
  <2>3. q.src \in EndPoint
    BY <2>2 DEF DataPacket
  <2> QED
    BY <1>1, <2>2, <2>3
<1>9. AcceptedWereSent'
  BY <1>1, <1>2 DEF DeliveryInv, AcceptedWereSent
<1> QED
  BY <1>3, <1>4, <1>5, <1>6, <1>7, <1>8, <1>9 DEF DeliveryInv

LEMMA AckStep ==
    ASSUME SdOK, NetOK, DeliveryInv, received_packet \in [Host -> DataPacket \cup {NoPacket}],
           NEW e \in Host, NEW p \in net, ReceivePacket(e, p), p.msg.type = "Ack"
    PROVE  /\ SdOK'
           /\ DeliveryInv'
           /\ UNCHANGED <<net, received_packet>>
           /\ \A h \in Host, o \in EndPoint :
                 Tombstone(h, o)' = Tombstone(h, o) /\ Last(h, o)' = Last(h, o)
<1> DEFINE s == p.src
<1>1. /\ s \in EndPoint
      /\ p.dst = e
      /\ p.msg.ack_seqno \in Nat
      /\ p.msg.ack_seqno \in Seqno
  BY PacketTypes DEF NetOK, ReceivePacket
<1>2. Host \cap Client = {} /\ Host \subseteq EndPoint
  BY ShtAssumption
<1>3. UNCHANGED <<net, received_packet>>
  BY DEF ReceivePacket, MaybeAck, NewSingleMessage
<1>4. /\ p.msg.ack_seqno <= Last(e, s)
      /\ s \in Host => p.msg.ack_seqno <= Tombstone(s, e)
  BY <1>1 DEF DeliveryInv, AcksKnown
<1>5. sd' = [sd EXCEPT ![e] = ReceiveAck(@, p)]
  BY DEF ReceivePacket, ReceiveSingleMessage
<1>6. /\ SdOK'
      /\ Elsewhere(e, s)
      /\ \A h \in Host : sd'[h].receive_state = sd[h].receive_state
      /\ Acked(e, s) <= Acked(e, s)'
      /\ Acked(e, s)' = Acked(e, s) \/ Acked(e, s)' = p.msg.ack_seqno
      /\ Last(e, s)' = Last(e, s)
      /\ \A n \in Acked(e, s)' + 1 .. Last(e, s) : MsgAt(e, s, n)' = MsgAt(e, s, n)
  BY <1>1, <1>4, <1>5, AckReceived DEF DeliveryInv
<1>7. \A h \in Host, o \in EndPoint :
        /\ Tombstone(h, o)' = Tombstone(h, o)
        /\ Last(h, o)' = Last(h, o)
        /\ Acked(h, o) <= Acked(h, o)'
        /\ Acked(h, o) \in Nat /\ Acked(h, o)' \in Nat /\ Last(h, o) \in Nat
        /\ \A n \in Acked(h, o)' + 1 .. Last(h, o) : MsgAt(h, o, n)' = MsgAt(h, o, n)
  <2> SUFFICES ASSUME NEW h \in Host, NEW o \in EndPoint
               PROVE  /\ Tombstone(h, o)' = Tombstone(h, o)
                      /\ Last(h, o)' = Last(h, o)
                      /\ Acked(h, o) <= Acked(h, o)'
                      /\ Acked(h, o) \in Nat /\ Acked(h, o)' \in Nat /\ Last(h, o) \in Nat
                      /\ \A n \in Acked(h, o)' + 1 .. Last(h, o) : MsgAt(h, o, n)' = MsgAt(h, o, n)
    OBVIOUS
  <2>1. Acked(h, o) \in Nat /\ Last(h, o) \in Nat
    BY LinkTypes
  <2>2. Tombstone(h, o)' = Tombstone(h, o)
    BY <1>6 DEF Tombstone
  <2>3. CASE <<h, o>> = <<e, s>>
    BY <1>1, <1>6, <2>1, <2>2, <2>3
  <2>4. CASE <<h, o>> # <<e, s>>
    BY <1>6, <2>1, <2>2, <2>4, LinkElsewhere
  <2> QED
    BY <2>3, <2>4
<1>8. LastFits'
  BY <1>7 DEF DeliveryInv, LastFits
<1>9. UnAckedSent'
  <2> SUFFICES ASSUME NEW h \in Host, NEW o \in EndPoint, NEW n \in Acked(h, o)' + 1 .. Last(h, o)'
               PROVE  /\ MsgAt(h, o, n)'.seqno = n
                      /\ MsgAt(h, o, n)'.dst = o
                      /\ Packet(h, o, MsgAt(h, o, n))' \in net'
    BY DEF UnAckedSent
  <2>0. Packet(h, o, MsgAt(h, o, n))' = Packet(h, o, MsgAt(h, o, n)')
    BY DEF Packet
  <2>1. n \in Acked(h, o) + 1 .. Last(h, o) /\ MsgAt(h, o, n)' = MsgAt(h, o, n)
    BY <1>7
  <2> QED
    BY <1>3, <2>0, <2>1 DEF DeliveryInv, UnAckedSent
<1>10. MessagesKnown'
  <2> SUFFICES ASSUME NEW q \in net, q.src \in Host, q.msg.type = "Message"
               PROVE  /\ q.msg.seqno <= Last(q.src, q.dst)'
                      /\ q.msg.seqno > Acked(q.src, q.dst)'
                            => q.msg = MsgAt(q.src, q.dst, q.msg.seqno)'
    BY <1>3 DEF MessagesKnown
  <2>1. q.dst \in EndPoint /\ q.msg.seqno \in Nat
    BY PacketTypes DEF NetOK
  <2>2. /\ q.msg.seqno <= Last(q.src, q.dst)
        /\ q.msg.seqno > Acked(q.src, q.dst) => q.msg = MsgAt(q.src, q.dst, q.msg.seqno)
    BY DEF DeliveryInv, MessagesKnown
  <2>3. ASSUME q.msg.seqno > Acked(q.src, q.dst)'
        PROVE  /\ q.msg.seqno > Acked(q.src, q.dst)
               /\ q.msg.seqno \in Acked(q.src, q.dst)' + 1 .. Last(q.src, q.dst)
    BY <1>7, <2>1, <2>2, <2>3
  <2>4. ASSUME NEW n, n = q.msg.seqno, n > Acked(q.src, q.dst)'
        PROVE  q.msg = MsgAt(q.src, q.dst, n)'
    BY <1>7, <2>1, <2>2, <2>3, <2>4
  <2>5. q.msg.seqno > Acked(q.src, q.dst)' => q.msg = MsgAt(q.src, q.dst, q.msg.seqno)'
    BY <1>3, <2>4 DEF MsgAt
  <2> QED
    BY <1>7, <2>1, <2>2, <2>5
<1>11. AcksKnown'
  <2> SUFFICES ASSUME NEW q \in net, q.dst \in Host, q.msg.type = "Ack"
               PROVE  /\ q.msg.ack_seqno <= Last(q.dst, q.src)'
                      /\ q.src \in Host => q.msg.ack_seqno <= Tombstone(q.src, q.dst)'
    BY <1>3 DEF AcksKnown
  <2>1. q.src \in EndPoint
    BY PacketTypes DEF NetOK
  <2> QED
    BY <1>2, <1>7, <2>1 DEF DeliveryInv, AcksKnown
<1>12. AckedWereAccepted'
  <2> SUFFICES ASSUME NEW h \in Host, NEW d \in Host PROVE Acked(h, d)' <= Tombstone(d, h)
    BY <1>2, <1>7 DEF AckedWereAccepted
  <2>1. CASE Acked(h, d)' = Acked(h, d)
    BY <2>1 DEF DeliveryInv, AckedWereAccepted
  <2>2. CASE Acked(h, d)' # Acked(h, d)
    <3>1. h = e /\ d = s
      BY <1>2, <1>6, <2>2, LinkElsewhere
    <3> QED
      BY <1>4, <1>6, <2>2, <3>1
  <2> QED
    BY <2>1, <2>2
<1>13. BuffersHold'
  <2> SUFFICES ASSUME NEW h \in Host, NEW q, q = received_packet[h], q # NoPacket
               PROVE  /\ q \in net /\ q \in DataPacket /\ q.dst = h
                      /\ q.msg.seqno <= Tombstone(h, q.src)'
    BY <1>3 DEF BuffersHold, Tombstone
  <2>1. q \in net /\ q \in DataPacket /\ q.dst = h /\ q.msg.seqno <= Tombstone(h, q.src)
    BY DEF DeliveryInv, BuffersHold
  <2>2. q.src \in EndPoint
    BY <2>1 DEF DataPacket
  <2> QED
    BY <1>7, <2>1, <2>2
<1>14. AcceptedWereSent'
  BY <1>2, <1>7 DEF DeliveryInv, AcceptedWereSent
<1> QED
  BY <1>3, <1>6, <1>7, <1>8, <1>9, <1>10, <1>11, <1>12, <1>13, <1>14 DEF DeliveryInv

LEMMA MessageStep ==
    ASSUME SdOK, NetOK, DeliveryInv, received_packet \in [Host -> DataPacket \cup {NoPacket}],
           NEW e \in Host, NEW p \in net, ReceivePacket(e, p), p.msg.type = "Message"
    PROVE  /\ SdOK'
           /\ NetOK'
           /\ DeliveryInv'
           /\ p \in DataPacket
           /\ net' = net \cup MaybeAck(sd'[e], p)
           /\ \A q \in net' \ net : q.msg.type = "Ack"
           /\ \A h \in Host, o \in EndPoint : Last(h, o)' = Last(h, o)
           /\ \A h \in Host, o \in EndPoint :
                 <<h, o>> # <<e, p.src>> => Tombstone(h, o)' = Tombstone(h, o)
           /\ NewSingleMessage(sd[e], p) =>
                 /\ p.msg.seqno = Tombstone(e, p.src) + 1
                 /\ Tombstone(e, p.src)' = Tombstone(e, p.src) + 1
           /\ ~NewSingleMessage(sd[e], p) => Tombstone(e, p.src)' = Tombstone(e, p.src)
<1> DEFINE s == p.src
<1>1. /\ s \in EndPoint
      /\ p.dst = e
      /\ p \in DataPacket
      /\ p.msg.seqno \in Nat
      /\ p.msg.seqno \in Seqno
      /\ received_packet[e] = NoPacket
  BY PacketTypes DEF NetOK, ReceivePacket
<1>2. Host \cap Client = {} /\ Host \subseteq EndPoint
  BY ShtAssumption
<1>3. /\ net' = net \cup MaybeAck(sd'[e], p)
      /\ sd' = [sd EXCEPT ![e] = ReceiveRealPacket(@, p)]
      /\ received_packet' =
            [received_packet EXCEPT ![e] = IF NewSingleMessage(sd[e], p) THEN p ELSE NoPacket]
  BY DEF ReceivePacket, ReceiveSingleMessage
<1>4. /\ SdOK'
      /\ \A h \in Host : sd'[h].send_state = sd[h].send_state
      /\ \A h \in Host, o \in EndPoint :
            <<h, o>> # <<e, s>> => Tombstone(h, o)' = Tombstone(h, o)
      /\ NewSingleMessage(sd[e], p) =>
            /\ p.msg.seqno = Tombstone(e, s) + 1
            /\ Tombstone(e, s)' = Tombstone(e, s) + 1
      /\ ~NewSingleMessage(sd[e], p) => Tombstone(e, s)' = Tombstone(e, s)
  BY <1>1, <1>3, MessageReceived
<1>5. \A h \in Host, o \in EndPoint :
        /\ Acked(h, o)' = Acked(h, o)
        /\ Last(h, o)' = Last(h, o)
        /\ \A n : MsgAt(h, o, n)' = MsgAt(h, o, n)
        /\ Acked(h, o) \in Nat
        /\ Tombstone(h, o) \in Nat
        /\ Tombstone(h, o)' \in Nat
        /\ Tombstone(h, o) <= Tombstone(h, o)'
  <2> SUFFICES ASSUME NEW h \in Host, NEW o \in EndPoint
               PROVE  /\ Acked(h, o)' = Acked(h, o)
                      /\ Last(h, o)' = Last(h, o)
                      /\ \A n : MsgAt(h, o, n)' = MsgAt(h, o, n)
                      /\ Acked(h, o) \in Nat
                      /\ Tombstone(h, o) \in Nat
                      /\ Tombstone(h, o)' \in Nat
                      /\ Tombstone(h, o) <= Tombstone(h, o)'
    OBVIOUS
  <2>1. Acked(h, o) \in Nat /\ Tombstone(h, o) \in Nat
    BY LinkTypes
  <2>2. /\ Acked(h, o)' = Acked(h, o)
        /\ Last(h, o)' = Last(h, o)
        /\ \A n : MsgAt(h, o, n)' = MsgAt(h, o, n)
    BY <1>4 DEF Acked, Last, MsgAt, UnAcked
  <2>3. Tombstone(h, o)' = Tombstone(h, o) \/ Tombstone(h, o)' = Tombstone(h, o) + 1
    <3>1. CASE <<h, o>> = <<e, s>>
      BY <1>4, <3>1
    <3>2. CASE <<h, o>> # <<e, s>>
      BY <1>4, <3>2
    <3> QED
      BY <3>1, <3>2
  <2> QED
    BY <2>1, <2>2, <2>3
<1>6. ASSUME NEW q \in net' \ net
      PROVE  /\ q.msg.type = "Ack"
             /\ q.src = e
             /\ q.dst = s
             /\ q.msg.ack_seqno = p.msg.seqno
             /\ p.msg.seqno <= Tombstone(e, s)'
             /\ q \in AckPacket
  <2>1. q \in MaybeAck(sd'[e], p)
    BY <1>3
  <2>2. q = Packet(e, s, Ack(p.msg.seqno)) /\ p.msg.seqno <= sd'[e].receive_state[s]
    BY <1>1, <2>1 DEF MaybeAck
  <2>3. Ack(p.msg.seqno) \in [type : {"Ack"}, ack_seqno : Seqno]
    BY <1>1 DEF Ack
  <2>4. q \in AckPacket
    BY <1>1, <1>2, <2>2, <2>3 DEF Packet, AckPacket
  <2> QED
    BY <2>2, <2>4 DEF Packet, Ack, Tombstone
<1>7. NetOK'
  BY <1>3, <1>6 DEF NetOK
<1>8. LastFits'
  BY <1>5 DEF DeliveryInv, LastFits
<1>9. UnAckedSent'
  BY <1>3, <1>5 DEF DeliveryInv, UnAckedSent
<1>10. MessagesKnown'
  <2> SUFFICES ASSUME NEW q \in net', q.src \in Host, q.msg.type = "Message"
               PROVE  /\ q.msg.seqno <= Last(q.src, q.dst)'
                      /\ q.msg.seqno > Acked(q.src, q.dst)'
                            => q.msg = MsgAt(q.src, q.dst, q.msg.seqno)'
    BY DEF MessagesKnown
  <2>1. q \in net
    BY <1>6
  <2>2. q.dst \in EndPoint
    BY <2>1, PacketTypes DEF NetOK
  <2> QED
    BY <1>5, <2>1, <2>2 DEF DeliveryInv, MessagesKnown
<1>11. AcksKnown'
  <2> SUFFICES ASSUME NEW q \in net', q.dst \in Host, q.msg.type = "Ack"
               PROVE  /\ q.msg.ack_seqno <= Last(q.dst, q.src)'
                      /\ q.src \in Host => q.msg.ack_seqno <= Tombstone(q.src, q.dst)'
    BY DEF AcksKnown
  <2>1. CASE q \in net
    <3>1. q.src \in EndPoint /\ q.msg.ack_seqno \in Nat
      BY <2>1, PacketTypes DEF NetOK
    <3>2. /\ q.msg.ack_seqno <= Last(q.dst, q.src)
          /\ q.src \in Host => q.msg.ack_seqno <= Tombstone(q.src, q.dst)
      BY <2>1 DEF DeliveryInv, AcksKnown
    <3> QED
      BY <1>2, <1>5, <3>1, <3>2
  <2>2. CASE q \notin net
    <3>1. s \in Host /\ p.msg.seqno <= Last(s, e)
      BY <1>1, <1>6, <2>2 DEF DeliveryInv, MessagesKnown
    <3> QED
      BY <1>2, <1>5, <1>6, <2>2, <3>1
  <2> QED
    BY <2>1, <2>2
<1>12. AckedWereAccepted'
  <2> SUFFICES ASSUME NEW h \in Host, NEW d \in Host PROVE Acked(h, d)' <= Tombstone(d, h)'
    BY DEF AckedWereAccepted
  <2>1. Acked(h, d) <= Tombstone(d, h)
    BY DEF DeliveryInv, AckedWereAccepted
  <2> QED
    BY <1>2, <1>5, <2>1
<1>13. BuffersHold'
  <2> SUFFICES ASSUME NEW h \in Host, NEW q, q = received_packet'[h], q # NoPacket
               PROVE  /\ q \in net' /\ q \in DataPacket /\ q.dst = h
                      /\ q.msg.seqno <= Tombstone(h, q.src)'
    BY DEF BuffersHold, Tombstone
  <2>1. CASE h = e
    <3>1. q = p /\ NewSingleMessage(sd[e], p)
      BY <1>3, <2>1
    <3> QED
      BY <1>1, <1>3, <1>4, <1>5, <2>1, <3>1
  <2>2. CASE h # e
    <3>1. q = received_packet[h]
      BY <1>3, <2>2
    <3>2. q \in net /\ q \in DataPacket /\ q.dst = h /\ q.msg.seqno <= Tombstone(h, q.src)
      BY <3>1 DEF DeliveryInv, BuffersHold
    <3>3. q.src \in EndPoint /\ q.msg.seqno \in Nat
      BY <3>2, MaxSeqnoAssumption DEF DataPacket, DataMessage, Seqno
    <3> QED
      BY <1>3, <1>5, <3>2, <3>3
  <2> QED
    BY <2>1, <2>2
<1>14. AcceptedWereSent'
  <2> SUFFICES ASSUME NEW h \in Host, NEW d \in Host PROVE Tombstone(d, h)' <= Last(h, d)'
    BY DEF AcceptedWereSent
  <2>1. CASE <<d, h>> = <<e, s>> /\ NewSingleMessage(sd[e], p)
    <3>1. p.msg.seqno <= Last(h, d)
      BY <1>1, <2>1 DEF NewSingleMessage, DeliveryInv, MessagesKnown
    <3> QED
      BY <1>2, <1>4, <1>5, <2>1, <3>1
  <2>2. CASE ~(<<d, h>> = <<e, s>> /\ NewSingleMessage(sd[e], p))
    <3>1. Tombstone(d, h)' = Tombstone(d, h)
      BY <1>2, <1>4, <2>2
    <3> QED
      BY <1>2, <1>5, <3>1 DEF DeliveryInv, AcceptedWereSent
  <2> QED
    BY <2>1, <2>2
<1>15. \A h \in Host, o \in EndPoint : Last(h, o)' = Last(h, o)
  BY <1>5
<1> QED
  BY <1>1, <1>3, <1>4, <1>6, <1>7, <1>8, <1>9, <1>10, <1>11, <1>12, <1>13, <1>14, <1>15
     DEF DeliveryInv

LEMMA SendStep ==
    ASSUME SdOK, NetOK, DeliveryInv,
           NEW e \in Host, NEW d \in EndPoint, NEW m \in CMessage,
           CanSend(sd[e], d), Sends(e, d, m),
           \A h \in Host : received_packet'[h] = received_packet[h] \/ received_packet'[h] = NoPacket
    PROVE  /\ SdOK'
           /\ NetOK'
           /\ DeliveryInv'
           /\ NextMessage(sd[e], d, m) = Message(Last(e, d) + 1, d, m)
           /\ \A h \in Host, o \in EndPoint :
                 /\ Tombstone(h, o)' = Tombstone(h, o)
                 /\ Last(h, o)' = IF <<h, o>> = <<e, d>> THEN Last(h, o) + 1 ELSE Last(h, o)
<1> DEFINE msg == NextMessage(sd[e], d, m)
<1>1. Host \cap Client = {} /\ Host \subseteq EndPoint
  BY ShtAssumption
<1>2. /\ sd' = [sd EXCEPT ![e] = SendSingleMessage(@, d, m)]
      /\ net' = net \cup {Packet(e, d, msg)}
  BY DEF Sends
<1>3. /\ SdOK'
      /\ Elsewhere(e, d)
      /\ \A h \in Host : sd'[h].receive_state = sd[h].receive_state
      /\ Acked(e, d)' = Acked(e, d)
      /\ Last(e, d)' = Last(e, d) + 1
      /\ Last(e, d)' <= MaxSeqno
      /\ msg = Message(Last(e, d) + 1, d, m)
      /\ msg \in DataMessage
      /\ \A n : n = Last(e, d) + 1 => MsgAt(e, d, n)' = msg
      /\ \A n \in Acked(e, d) + 1 .. Last(e, d) : MsgAt(e, d, n)' = MsgAt(e, d, n)
  BY <1>2, MessageSent DEF DeliveryInv
<1>4. /\ msg.type = "Message"
      /\ msg.seqno = Last(e, d) + 1
      /\ msg.dst = d
  BY <1>3 DEF Message
<1> HIDE DEF msg
<1>5. \A h \in Host, o \in EndPoint :
        /\ Tombstone(h, o)' = Tombstone(h, o)
        /\ Acked(h, o)' = Acked(h, o)
        /\ Last(h, o)' = IF <<h, o>> = <<e, d>> THEN Last(h, o) + 1 ELSE Last(h, o)
        /\ \A n \in Acked(h, o) + 1 .. Last(h, o) : MsgAt(h, o, n)' = MsgAt(h, o, n)
        /\ Acked(h, o) \in Nat
        /\ Last(h, o) \in Nat
  <2> SUFFICES ASSUME NEW h \in Host, NEW o \in EndPoint
               PROVE  /\ Tombstone(h, o)' = Tombstone(h, o)
                      /\ Acked(h, o)' = Acked(h, o)
                      /\ Last(h, o)' = IF <<h, o>> = <<e, d>> THEN Last(h, o) + 1 ELSE Last(h, o)
                      /\ \A n \in Acked(h, o) + 1 .. Last(h, o) : MsgAt(h, o, n)' = MsgAt(h, o, n)
                      /\ Acked(h, o) \in Nat
                      /\ Last(h, o) \in Nat
    OBVIOUS
  <2>1. Acked(h, o) \in Nat /\ Last(h, o) \in Nat
    BY LinkTypes
  <2>2. Tombstone(h, o)' = Tombstone(h, o)
    BY <1>3 DEF Tombstone
  <2>3. CASE <<h, o>> = <<e, d>>
    BY <1>3, <2>1, <2>2, <2>3
  <2>4. CASE <<h, o>> # <<e, d>>
    BY <1>3, <2>1, <2>2, <2>4, LinkElsewhere
  <2> QED
    BY <2>3, <2>4
<1>6. NetOK'
  <2>1. Packet(e, d, msg) \in DataPacket
    BY <1>1, <1>3 DEF Packet, DataPacket
  <2> QED
    BY <1>2, <2>1 DEF NetOK
<1>7. LastFits'
  <2> SUFFICES ASSUME NEW h \in Host, NEW o \in EndPoint PROVE Last(h, o)' <= MaxSeqno
    BY DEF LastFits
  <2>1. CASE <<h, o>> = <<e, d>>
    BY <1>3, <2>1
  <2>2. CASE <<h, o>> # <<e, d>>
    BY <1>5, <2>2 DEF DeliveryInv, LastFits
  <2> QED
    BY <2>1, <2>2
<1>8. UnAckedSent'
  <2> SUFFICES ASSUME NEW h \in Host, NEW o \in EndPoint, NEW n \in Acked(h, o)' + 1 .. Last(h, o)'
               PROVE  /\ MsgAt(h, o, n)'.seqno = n
                      /\ MsgAt(h, o, n)'.dst = o
                      /\ Packet(h, o, MsgAt(h, o, n))' \in net'
    BY DEF UnAckedSent
  <2>0. Packet(h, o, MsgAt(h, o, n))' = Packet(h, o, MsgAt(h, o, n)')
    BY DEF Packet
  <2>1. CASE n \in Acked(h, o) + 1 .. Last(h, o)
    <3>1. MsgAt(h, o, n)' = MsgAt(h, o, n)
      BY <1>5, <2>1
    <3> QED
      BY <1>2, <2>0, <2>1, <3>1 DEF DeliveryInv, UnAckedSent
  <2>2. CASE n \notin Acked(h, o) + 1 .. Last(h, o)
    <3>1. h = e /\ o = d /\ n = Last(e, d) + 1
      BY <1>5, <2>2
    <3>2. MsgAt(h, o, n)' = msg
      BY <1>3, <3>1
    <3> QED
      BY <1>2, <1>4, <2>0, <3>1, <3>2
  <2> QED
    BY <2>1, <2>2
<1>9. MessagesKnown'
  <2> SUFFICES ASSUME NEW q \in net', q.src \in Host, q.msg.type = "Message"
               PROVE  /\ q.msg.seqno <= Last(q.src, q.dst)'
                      /\ q.msg.seqno > Acked(q.src, q.dst)'
                            => q.msg = MsgAt(q.src, q.dst, q.msg.seqno)'
    BY DEF MessagesKnown
  <2>1. CASE q \in net
    <3>1. q.dst \in EndPoint /\ q.msg.seqno \in Nat
      BY <2>1, PacketTypes DEF NetOK
    <3>2. /\ q.msg.seqno <= Last(q.src, q.dst)
          /\ q.msg.seqno > Acked(q.src, q.dst) => q.msg = MsgAt(q.src, q.dst, q.msg.seqno)
      BY <2>1 DEF DeliveryInv, MessagesKnown
    <3> QED
      BY <1>5, <3>1, <3>2
  <2>2. CASE q = Packet(e, d, msg)
    <3>1. q.src = e /\ q.dst = d /\ q.msg = msg /\ q.msg.seqno = Last(e, d) + 1
      BY <1>4, <2>2 DEF Packet
    <3>2. \A n : n = q.msg.seqno => MsgAt(e, d, n)' = msg
      BY <1>3, <3>1
    <3> QED
      BY <1>3, <1>5, <3>1, <3>2
  <2> QED
    BY <1>2, <2>1, <2>2
<1>10. AcksKnown'
  <2> SUFFICES ASSUME NEW q \in net', q.dst \in Host, q.msg.type = "Ack"
               PROVE  /\ q.msg.ack_seqno <= Last(q.dst, q.src)'
                      /\ q.src \in Host => q.msg.ack_seqno <= Tombstone(q.src, q.dst)'
    BY DEF AcksKnown
  <2>1. q \in net
    BY <1>2, <1>4 DEF Packet
  <2>2. q.src \in EndPoint /\ q.msg.ack_seqno \in Nat
    BY <2>1, PacketTypes DEF NetOK
  <2>3. /\ q.msg.ack_seqno <= Last(q.dst, q.src)
        /\ q.src \in Host => q.msg.ack_seqno <= Tombstone(q.src, q.dst)
    BY <2>1 DEF DeliveryInv, AcksKnown
  <2> QED
    BY <1>1, <1>5, <2>2, <2>3
<1>11. AckedWereAccepted'
  BY <1>1, <1>5 DEF DeliveryInv, AckedWereAccepted
<1>12. BuffersHold'
  <2> SUFFICES ASSUME NEW h \in Host, NEW q, q = received_packet'[h], q # NoPacket
               PROVE  /\ q \in net' /\ q \in DataPacket /\ q.dst = h
                      /\ q.msg.seqno <= Tombstone(h, q.src)'
    BY DEF BuffersHold, Tombstone
  <2>1. q = received_packet[h]
    OBVIOUS
  <2>2. q \in net /\ q \in DataPacket /\ q.dst = h /\ q.msg.seqno <= Tombstone(h, q.src)
    BY <2>1 DEF DeliveryInv, BuffersHold
  <2>3. q.src \in EndPoint
    BY <2>2 DEF DataPacket
  <2> QED
    BY <1>2, <1>5, <2>2, <2>3
<1>13. AcceptedWereSent'
  <2> SUFFICES ASSUME NEW h \in Host, NEW o \in Host PROVE Tombstone(o, h)' <= Last(h, o)'
    BY DEF AcceptedWereSent
  <2>1. Tombstone(o, h) <= Last(h, o) /\ Tombstone(o, h) \in Nat
    BY <1>1, LinkTypes DEF DeliveryInv, AcceptedWereSent
  <2> QED
    BY <1>1, <1>5, <2>1
<1>14. \A h \in Host, o \in EndPoint :
         /\ Tombstone(h, o)' = Tombstone(h, o)
         /\ Last(h, o)' = IF <<h, o>> = <<e, d>> THEN Last(h, o) + 1 ELSE Last(h, o)
  BY <1>5
<1> QED
  BY <1>3, <1>6, <1>7, <1>8, <1>9, <1>10, <1>11, <1>12, <1>13, <1>14 DEF DeliveryInv, msg

-----------------------------------------------------------------------------
(***************************************************************************)
(* Types. The invariant is Inv: the types, that net is finite (the clients *)
(* number their requests by how many they sent) and DeliveryInv, which     *)
(* keeps the sequence numbers within their limit.                          *)
(***************************************************************************)
Inv == TypeOK /\ IsFiniteSet(net) /\ DeliveryInv

LEMMA TypesOfInv ==
    ASSUME TypeOK
    PROVE  /\ SdOK
           /\ NetOK
           /\ received_packet \in [Host -> DataPacket \cup {NoPacket}]
           /\ Host \subseteq EndPoint
           /\ Client \subseteq EndPoint
           /\ Host \cap Client = {}
  BY ShtAssumption DEF TypeOK, SdOK, SingleDeliveryState, NetOK

LEMMA BufferTypes ==
    ASSUME TypeOK, NEW e \in Host, Buffered(e)
    PROVE  /\ received_packet[e] \in DataPacket
           /\ received_packet[e].src \in EndPoint
           /\ received_packet[e].msg.m \in CMessage
  BY DEF TypeOK, Buffered, DataPacket, DataMessage

LEMMA FinitePlusOne ==
    ASSUME IsFiniteSet(net), NEW x, net' = net \cup {x}
    PROVE  IsFiniteSet(net)'
  BY FS_AddElement

LEMMA ClientRequestInv ==
    ASSUME Inv, NEW c \in Client, NEW h \in Host, NEW m \in Request[h], ClientRequest(c, h, m)
    PROVE  Inv'
<1> DEFINE n == Cardinality(Submitted(c, h)) + 1
           q == Packet(c, h, Message(n, h, m))
<1>1. n <= MaxSeqno /\ net' = net \cup {q}
  BY DEF ClientRequest
<1>2. IsFiniteSet(Submitted(c, h))
  <2>1. Submitted(c, h) \subseteq net
    BY DEF Submitted, FromClients
  <2> QED
    BY <2>1, FS_Subset DEF Inv
<1>3. n \in Seqno
  <2>1. Cardinality(Submitted(c, h)) \in Nat
    BY <1>2, FS_CardinalityType
  <2> QED
    BY <1>1, <2>1, MaxSeqnoAssumption DEF Seqno
<1> HIDE DEF n
<1>4. c \in EndPoint /\ h \in EndPoint /\ m \in CMessage
  BY ShtAssumption, MessagesAssumption
<1>5. /\ q \in DataPacket
      /\ q.src = c
      /\ q.msg.type = "Message"
  BY <1>3, <1>4 DEF Packet, Message, DataPacket, DataMessage
<1> HIDE DEF q
<1>6. TypeOK'
  BY <1>1, <1>5 DEF Inv, TypeOK, ClientRequest
<1>7. IsFiniteSet(net)'
  BY <1>1, FinitePlusOne DEF Inv
<1>8. DeliveryInv'
  <2>1. \A x \in net' \ net : FromClient(x)
    BY <1>1, <1>5 DEF FromClient
  <2> QED
    BY <1>1, <2>1, QuietStep, TypesOfInv DEF Inv, ClientRequest
<1> QED
  BY <1>6, <1>7, <1>8 DEF Inv

LEMMA ClientAckInv ==
    ASSUME Inv, NEW c \in Acking, NEW p \in net, ClientAck(c, p)
    PROVE  Inv'
<1> DEFINE q == Packet(c, p.src, Ack(p.msg.seqno))
<1>1. c \in Client /\ c \in EndPoint
  BY ShtAssumption
<1>2. p.dst = c /\ p.msg.type = "Message" /\ net' = net \cup {q}
  BY DEF ClientAck
<1>3. p.src \in EndPoint /\ p.msg.seqno \in Seqno
  BY <1>2, PacketTypes, TypesOfInv DEF Inv, NetOK
<1>4. /\ q \in AckPacket
      /\ q.src = c
      /\ q.dst = p.src
      /\ q.msg.type = "Ack"
      /\ q.msg.ack_seqno = p.msg.seqno
  BY <1>1, <1>3 DEF Packet, Ack, AckPacket
<1> HIDE DEF q
<1>5. TypeOK'
  BY <1>2, <1>4 DEF Inv, TypeOK, ClientAck
<1>6. IsFiniteSet(net)'
  BY <1>2, FinitePlusOne DEF Inv
<1>7. DeliveryInv'
  <2>1. \A x \in net' \ net : FromClient(x)
    BY <1>1, <1>2, <1>4 DEF FromClient
  <2> QED
    BY <1>2, <2>1, QuietStep, TypesOfInv DEF Inv, ClientAck
<1> QED
  BY <1>5, <1>6, <1>7 DEF Inv

LEMMA ReceiveInv ==
    ASSUME Inv, NEW e \in Host, NEW p \in net, ReceivePacket(e, p)
    PROVE  Inv'
<1>1. /\ SdOK
      /\ NetOK
      /\ received_packet \in [Host -> DataPacket \cup {NoPacket}]
      /\ DeliveryInv
  BY TypesOfInv DEF Inv
<1>2. p.msg.type = "Ack" \/ p.msg.type = "Message"
  BY <1>1, PacketTypes DEF NetOK
<1>3. /\ SdOK'
      /\ NetOK'
      /\ DeliveryInv'
      /\ received_packet' \in [Host -> DataPacket \cup {NoPacket}]
      /\ IsFiniteSet(net)'
  <2>1. CASE p.msg.type = "Ack"
    BY <1>1, <2>1, AckStep DEF Inv, NetOK
  <2>2. CASE p.msg.type = "Message"
    <3>1. /\ SdOK' /\ NetOK' /\ DeliveryInv'
          /\ p \in DataPacket
          /\ net' = net \cup MaybeAck(sd'[e], p)
      BY <1>1, <2>2, MessageStep
    <3>2. received_packet' \in [Host -> DataPacket \cup {NoPacket}]
      BY <1>1, <3>1 DEF ReceivePacket
    <3>3. MaybeAck(sd'[e], p) = {} \/ MaybeAck(sd'[e], p) = {Packet(p.dst, p.src, Ack(p.msg.seqno))}
      BY DEF MaybeAck
    <3>4. IsFiniteSet(net)'
      BY <3>1, <3>3, FinitePlusOne DEF Inv
    <3> QED
      BY <3>1, <3>2, <3>4
  <2> QED
    BY <1>2, <2>1, <2>2
<1>4. TypeOK'
  BY <1>3 DEF Inv, TypeOK, SdOK, SingleDeliveryState, NetOK, ReceivePacket
<1> QED
  BY <1>3, <1>4 DEF Inv

\* The handlers send at most one message, and take the buffered one.
LEMMA HandlerDelivery ==
    ASSUME Inv, NEW e \in Host, NEW d \in EndPoint, NEW m \in CMessage,
           received_packet' = [received_packet EXCEPT ![e] = NoPacket],
           \/ CanSend(sd[e], d) /\ Sends(e, d, m)
           \/ SendsNothing
    PROVE  /\ SdOK'
           /\ NetOK'
           /\ DeliveryInv'
           /\ received_packet' \in [Host -> DataPacket \cup {NoPacket}]
           /\ IsFiniteSet(net)'
<1>1. /\ SdOK
      /\ NetOK
      /\ received_packet \in [Host -> DataPacket \cup {NoPacket}]
      /\ DeliveryInv
      /\ IsFiniteSet(net)
  BY TypesOfInv DEF Inv
<1>2. \A h \in Host : received_packet'[h] = received_packet[h] \/ received_packet'[h] = NoPacket
  BY <1>1
<1>3. received_packet' \in [Host -> DataPacket \cup {NoPacket}]
  BY <1>1
<1>4. CASE CanSend(sd[e], d) /\ Sends(e, d, m)
  <2>1. IsFiniteSet(net)'
    BY <1>1, <1>4, FinitePlusOne DEF Sends
  <2> QED
    BY <1>1, <1>2, <1>3, <1>4, <2>1, SendStep
<1>5. CASE SendsNothing
  <2>1. DeliveryInv'
    BY <1>1, <1>2, <1>5, QuietStep DEF SendsNothing
  <2> QED
    BY <1>1, <1>3, <1>5, <2>1 DEF SendsNothing, SdOK, NetOK
<1> QED
  BY <1>4, <1>5

\* What is left to show of a handler: its tables, its counter, its record.
LEMMA HandlerInv ==
    ASSUME Inv, SdOK', NetOK', DeliveryInv', IsFiniteSet(net)',
           received_packet' \in [Host -> DataPacket \cup {NoPacket}],
           delegation_map' \in [Host -> [Key -> Host]],
           ht' \in [Host -> Hashtable],
           num_delegations' \in [Host -> 1 .. MaxDelegations - 1],
           received_requests' \in [Host -> Seq([request : DataPacket, v : OptionalValue])],
           UNCHANGED status
    PROVE  Inv'
  BY DEF Inv, TypeOK, SdOK, SingleDeliveryState, NetOK

LEMMA ExecutesTypes ==
    ASSUME TypeOK, NEW e \in Host, Buffered(e), NEW v \in OptionalValue, Executes(e, v)
    PROVE  received_requests' \in [Host -> Seq([request : DataPacket, v : OptionalValue])]
<1> DEFINE R == [request : DataPacket, v : OptionalValue]
           a == [request |-> received_packet[e], v |-> v]
<1>1. a \in R
  BY BufferTypes
<1>2. received_requests \in [Host -> Seq(R)]
  BY DEF TypeOK
<1>3. received_requests' = [received_requests EXCEPT ![e] = Append(received_requests[e], a)]
  BY DEF Executes
<1> HIDE DEF R, a
<1>4. Append(received_requests[e], a) \in Seq(R)
  BY <1>1, <1>2
<1>5. received_requests' \in [Host -> Seq(R)]
  BY <1>2, <1>3, <1>4
<1> QED
  BY <1>5 DEF R

LEMMA AnswerTypes ==
    ASSUME TypeOK, NEW e \in Host, NEW k \in Key, NEW v \in OptionalValue
    PROVE  Answer(e, k, v) \in CMessage
<1>1. delegation_map[e][k] \in Host
  BY DEF TypeOK
<1> QED
  BY <1>1 DEF Answer, Reply, Redirect, CMessage

LEMMA GetRequestInv ==
    ASSUME Inv, NEW e \in Host, NextGetRequest(e)
    PROVE  Inv'
<1>1. PICK k \in Key :
        /\ Takes(e, GetRequest(k))
        /\ IF CanSend(sd[e], received_packet[e].src)
           THEN /\ Sends(e, received_packet[e].src, Answer(e, k, ht[e][k]))
                /\ \/ delegation_map[e][k] = e /\ Executes(e, ht[e][k])
                   \/ delegation_map[e][k] # e /\ UNCHANGED received_requests
           ELSE SendsNothing /\ UNCHANGED received_requests
        /\ UNCHANGED <<delegation_map, ht, num_delegations>>
  BY DEF NextGetRequest
<1> DEFINE d == received_packet[e].src
           m == Answer(e, k, ht[e][k])
<1>2. /\ Buffered(e)
      /\ received_packet' = [received_packet EXCEPT ![e] = NoPacket]
      /\ UNCHANGED status
  BY <1>1 DEF Takes
<1>3. ht[e][k] \in OptionalValue
  BY DEF Inv, TypeOK, Hashtable
<1>4. d \in EndPoint /\ m \in CMessage
  BY <1>2, <1>3, BufferTypes, AnswerTypes DEF Inv
<1>5. (CanSend(sd[e], d) /\ Sends(e, d, m)) \/ SendsNothing
  BY <1>1
<1> HIDE DEF d, m
<1>6. /\ SdOK' /\ NetOK' /\ DeliveryInv' /\ IsFiniteSet(net)'
      /\ received_packet' \in [Host -> DataPacket \cup {NoPacket}]
  BY <1>2, <1>4, <1>5, HandlerDelivery
<1>7. received_requests' \in [Host -> Seq([request : DataPacket, v : OptionalValue])]
  BY <1>1, <1>2, <1>3, ExecutesTypes DEF Inv, TypeOK
<1> QED
  BY <1>1, <1>2, <1>6, <1>7, HandlerInv DEF Inv, TypeOK

LEMMA SetRequestInv ==
    ASSUME Inv, NEW e \in Host, NextSetRequest(e)
    PROVE  Inv'
<1>1. PICK k \in Key, v \in OptionalValue :
        /\ Takes(e, SetRequest(k, v))
        /\ IF v \notin Oversized /\ CanSend(sd[e], received_packet[e].src)
           THEN /\ Sends(e, received_packet[e].src, Answer(e, k, v))
                /\ \/ /\ delegation_map[e][k] = e
                      /\ ht' = [ht EXCEPT ![e][k] = v]
                      /\ Executes(e, v)
                   \/ /\ delegation_map[e][k] # e
                      /\ UNCHANGED <<ht, received_requests>>
           ELSE SendsNothing /\ UNCHANGED <<ht, received_requests>>
        /\ UNCHANGED <<delegation_map, num_delegations>>
  BY DEF NextSetRequest, OptionalValue
<1> DEFINE d == received_packet[e].src
           m == Answer(e, k, v)
<1>2. /\ Buffered(e)
      /\ received_packet' = [received_packet EXCEPT ![e] = NoPacket]
      /\ UNCHANGED status
  BY <1>1 DEF Takes
<1>4. d \in EndPoint /\ m \in CMessage
  BY <1>2, BufferTypes, AnswerTypes DEF Inv
<1>5. (CanSend(sd[e], d) /\ Sends(e, d, m)) \/ SendsNothing
  BY <1>1
<1> HIDE DEF d, m
<1>6. /\ SdOK' /\ NetOK' /\ DeliveryInv' /\ IsFiniteSet(net)'
      /\ received_packet' \in [Host -> DataPacket \cup {NoPacket}]
  BY <1>2, <1>4, <1>5, HandlerDelivery
<1>7. received_requests' \in [Host -> Seq([request : DataPacket, v : OptionalValue])]
  BY <1>1, <1>2, ExecutesTypes DEF Inv, TypeOK
<1>8. ht' \in [Host -> Hashtable]
  <2>1. ht \in [Host -> Hashtable]
    BY DEF Inv, TypeOK
  <2>2. CASE ht' = [ht EXCEPT ![e][k] = v]
    BY <2>1, <2>2 DEF Hashtable
  <2>3. CASE UNCHANGED ht
    BY <2>1, <2>3
  <2> QED
    BY <1>1, <2>2, <2>3
<1> QED
  BY <1>1, <1>2, <1>6, <1>7, <1>8, HandlerInv DEF Inv, TypeOK

\* A delegation that is counted leaves the counter below its limit.
LEMMA CountedDelegation ==
    ASSUME TypeOK, NEW e \in Host, ShouldProcess(e),
           received_packet[e].msg.m.type \in {"Delegate", "Shard"},
           \/ num_delegations' = [num_delegations EXCEPT ![e] = @ + 1]
           \/ UNCHANGED num_delegations
    PROVE  num_delegations' \in [Host -> 1 .. MaxDelegations - 1]
<1>1. num_delegations \in [Host -> 1 .. MaxDelegations - 1] /\ MaxDelegations \in Nat
  BY ShtAssumption DEF TypeOK
<1>2. num_delegations[e] + 1 < MaxDelegations - 1
  BY DEF ShouldProcess
<1>3. num_delegations[e] + 1 \in 1 .. MaxDelegations - 1
  BY <1>1, <1>2
<1> QED
  BY <1>1, <1>3

LEMMA SetRangeTypes ==
    ASSUME NEW map \in [Key -> Host], NEW lo, NEW hi, NEW h \in Host
    PROVE  SetRange(map, lo, hi, h) \in [Key -> Host]
  BY DEF SetRange

LEMMA TableTypes ==
    ASSUME NEW table \in Hashtable, NEW other \in Hashtable, NEW lo, NEW hi
    PROVE  /\ BulkUpdate(table, lo, hi, other) \in Hashtable
           /\ BulkRemove(table, lo, hi) \in Hashtable
           /\ ExtractRange(table, lo, hi) \in Hashtable
  BY DEF BulkUpdate, BulkRemove, ExtractRange, Hashtable, OptionalValue

LEMMA DelegateInv ==
    ASSUME Inv, NEW e \in Host, NextDelegate(e)
    PROVE  Inv'
<1>1. PICK lo \in KeyIterator, hi \in KeyIterator, h \in Hashtable :
        /\ Takes(e, Delegate(lo, hi, h))
        /\ IF lo < hi /\ ValidHashtable(h) /\ received_packet[e].src \in Host
           THEN /\ delegation_map' = [delegation_map EXCEPT ![e] = SetRange(@, lo, hi, e)]
                /\ ht' = [ht EXCEPT ![e] = BulkUpdate(@, lo, hi, h)]
                /\ num_delegations' = [num_delegations EXCEPT ![e] = @ + 1]
           ELSE UNCHANGED <<delegation_map, ht, num_delegations>>
        /\ SendsNothing
        /\ UNCHANGED received_requests
  BY DEF NextDelegate, Hashtable, OptionalValue
<1>2. /\ Buffered(e)
      /\ ShouldProcess(e)
      /\ received_packet[e].msg.m.type = "Delegate"
      /\ received_packet' = [received_packet EXCEPT ![e] = NoPacket]
      /\ UNCHANGED status
  BY <1>1 DEF Takes, Delegate
<1>3. received_packet[e].src \in EndPoint /\ received_packet[e].msg.m \in CMessage
  BY <1>2, BufferTypes DEF Inv
<1>4. /\ SdOK' /\ NetOK' /\ DeliveryInv' /\ IsFiniteSet(net)'
      /\ received_packet' \in [Host -> DataPacket \cup {NoPacket}]
  BY <1>1, <1>2, <1>3, HandlerDelivery
<1>5. num_delegations' \in [Host -> 1 .. MaxDelegations - 1]
  BY <1>1, <1>2, CountedDelegation DEF Inv
<1>6. delegation_map' \in [Host -> [Key -> Host]]
  <2>1. delegation_map \in [Host -> [Key -> Host]]
    BY DEF Inv, TypeOK
  <2>2. SetRange(delegation_map[e], lo, hi, e) \in [Key -> Host]
    BY <2>1, SetRangeTypes
  <2> QED
    BY <1>1, <2>1, <2>2
<1>7. ht' \in [Host -> Hashtable]
  <2>1. ht \in [Host -> Hashtable]
    BY DEF Inv, TypeOK
  <2>2. BulkUpdate(ht[e], lo, hi, h) \in Hashtable
    BY <2>1, TableTypes
  <2> QED
    BY <1>1, <2>1, <2>2
<1> QED
  BY <1>1, <1>2, <1>4, <1>5, <1>6, <1>7, HandlerInv DEF Inv, TypeOK

LEMMA ShardInv ==
    ASSUME Inv, NEW e \in Host, NextShard(e)
    PROVE  Inv'
<1>1. PICK lo \in KeyIterator, hi \in KeyIterator, recipient \in EndPoint :
        /\ Takes(e, Shard(lo, hi, recipient))
        /\ \/ /\ CanDelegate(e, lo, hi, recipient)
              /\ CanSend(sd[e], recipient)
              /\ Sends(e, recipient, Delegate(lo, hi, ExtractRange(ht[e], lo, hi)))
              /\ delegation_map' = [delegation_map EXCEPT ![e] = SetRange(@, lo, hi, recipient)]
              /\ ht' = [ht EXCEPT ![e] = BulkRemove(@, lo, hi)]
              /\ num_delegations' = [num_delegations EXCEPT ![e] = @ + 1]
           \/ /\ CanDelegate(e, lo, hi, recipient)
              /\ ~CanSend(sd[e], recipient)
              /\ SendsNothing
              /\ num_delegations' = [num_delegations EXCEPT ![e] = @ + 1]
              /\ UNCHANGED <<delegation_map, ht>>
           \/ /\ ~CanDelegate(e, lo, hi, recipient)
              /\ SendsNothing
              /\ UNCHANGED <<delegation_map, ht, num_delegations>>
        /\ UNCHANGED received_requests
  BY DEF NextShard
<1> DEFINE m == Delegate(lo, hi, ExtractRange(ht[e], lo, hi))
<1>2. /\ Buffered(e)
      /\ ShouldProcess(e)
      /\ received_packet[e].msg.m.type = "Shard"
      /\ received_packet' = [received_packet EXCEPT ![e] = NoPacket]
      /\ UNCHANGED status
  BY <1>1 DEF Takes, Shard
<1>3. /\ ht \in [Host -> Hashtable]
      /\ delegation_map \in [Host -> [Key -> Host]]
  BY DEF Inv, TypeOK
<1>4. ExtractRange(ht[e], lo, hi) \in Hashtable /\ BulkRemove(ht[e], lo, hi) \in Hashtable
  BY <1>3, TableTypes
<1>5. m \in CMessage
  BY <1>4 DEF Delegate, CMessage
<1>6. (CanSend(sd[e], recipient) /\ Sends(e, recipient, m)) \/ SendsNothing
  BY <1>1
<1> HIDE DEF m
<1>7. /\ SdOK' /\ NetOK' /\ DeliveryInv' /\ IsFiniteSet(net)'
      /\ received_packet' \in [Host -> DataPacket \cup {NoPacket}]
  BY <1>1, <1>2, <1>5, <1>6, HandlerDelivery
<1>8. num_delegations' \in [Host -> 1 .. MaxDelegations - 1]
  <2>1. \/ num_delegations' = [num_delegations EXCEPT ![e] = @ + 1]
        \/ UNCHANGED num_delegations
    BY <1>1
  <2> QED
    BY <1>2, <2>1, CountedDelegation DEF Inv
<1>9. delegation_map' \in [Host -> [Key -> Host]]
  <2>1. CASE delegation_map' = [delegation_map EXCEPT ![e] = SetRange(@, lo, hi, recipient)]
             /\ recipient \in Host
    <3>1. SetRange(delegation_map[e], lo, hi, recipient) \in [Key -> Host]
      BY <1>3, <2>1, SetRangeTypes
    <3> QED
      BY <1>3, <2>1, <3>1
  <2>2. CASE UNCHANGED delegation_map
    BY <1>3, <2>2
  <2> QED
    BY <1>1, <2>1, <2>2 DEF CanDelegate
<1>10. ht' \in [Host -> Hashtable]
  BY <1>1, <1>3, <1>4
<1> QED
  BY <1>1, <1>2, <1>7, <1>8, <1>9, <1>10, HandlerInv DEF Inv, TypeOK

LEMMA ReplyOrRedirectInv ==
    ASSUME Inv, NEW e \in Host, NextReplyOrRedirect(e)
    PROVE  Inv'
<1>1. /\ Buffered(e)
      /\ received_packet' = [received_packet EXCEPT ![e] = NoPacket]
      /\ SendsNothing
      /\ UNCHANGED <<delegation_map, ht, num_delegations, status, received_requests>>
  BY DEF NextReplyOrRedirect, Takes
<1>2. received_packet[e].src \in EndPoint /\ received_packet[e].msg.m \in CMessage
  BY <1>1, BufferTypes DEF Inv
<1>3. /\ SdOK' /\ NetOK' /\ DeliveryInv' /\ IsFiniteSet(net)'
      /\ received_packet' \in [Host -> DataPacket \cup {NoPacket}]
  BY <1>1, <1>2, HandlerDelivery
<1> QED
  BY <1>1, <1>3, HandlerInv DEF Inv, TypeOK

LEMMA HaltInv ==
    ASSUME Inv, NEW e \in Host, Halts(e)
    PROVE  Inv'
<1>1. TypeOK' /\ IsFiniteSet(net)'
  BY DEF Inv, TypeOK, Halts
<1>2. DeliveryInv'
  BY QuietStep, TypesOfInv DEF Inv, Halts
<1> QED
  BY <1>1, <1>2 DEF Inv

\* What is sent again was sent before.
LEMMA RetransmitsNothingNew ==
    ASSUME Inv, NEW e \in Host
    PROVE  net \cup UnAckedPackets(sd[e], e) = net
<1> SUFFICES ASSUME NEW q \in UnAckedPackets(sd[e], e) PROVE q \in net
  OBVIOUS
<1>1. PICK d \in EndPoint : \E i \in DOMAIN sd[e].send_state[d].un_acked :
        q = Packet(e, d, sd[e].send_state[d].un_acked[i])
  BY DEF UnAckedPackets
<1>2. PICK i \in DOMAIN UnAcked(e, d) : q = Packet(e, d, UnAcked(e, d)[i])
  BY <1>1 DEF UnAcked
<1>3. SdOK /\ UnAckedSent
  BY TypesOfInv DEF Inv, DeliveryInv
<1>4. i \in 1 .. Len(UnAcked(e, d))
  BY <1>2, <1>3, LinkTypes
<1> QED
  BY <1>2, <1>3, <1>4, Numbered

LEMMA InitInv == Init => Inv
<1> SUFFICES ASSUME Init PROVE Inv
  OBVIOUS
<1> USE MaxSeqnoAssumption, ShtAssumption
<1>1. /\ 0 \in Seqno
      /\ NewAckState \in AckState
      /\ NewAckState.num_packets_acked = 0
      /\ NewAckState.un_acked = <<>>
  BY DEF Seqno, NewAckState, AckState
<1> DEFINE S == [receive_state : [EndPoint -> Seqno], send_state : [EndPoint -> AckState]]
<1>2. /\ EmptySingleDelivery \in S
      /\ \A o \in EndPoint : EmptySingleDelivery.receive_state[o] = 0
      /\ \A o \in EndPoint : EmptySingleDelivery.send_state[o] = NewAckState
  BY <1>1 DEF EmptySingleDelivery
<1>3. sd \in [Host -> S] /\ \A h \in Host : sd[h] = EmptySingleDelivery
  BY <1>2 DEF Init
<1>4. TypeOK
  <2>1. EmptyTable \in Hashtable
    BY DEF EmptyTable, Hashtable, OptionalValue
  <2>2. delegation_map \in [Host -> [Key -> Host]]
    BY DEF Init
  <2>3. num_delegations \in [Host -> 1 .. MaxDelegations - 1]
    BY DEF Init
  <2>4. received_requests \in [Host -> Seq([request : DataPacket, v : OptionalValue])]
    <3> DEFINE R == [request : DataPacket, v : OptionalValue]
    <3> HIDE DEF R
    <3>1. received_requests \in [Host -> Seq(R)]
      BY DEF Init
    <3> QED
      BY <3>1 DEF R
  <2> QED
    BY <1>3, <2>1, <2>2, <2>3, <2>4 DEF Init, TypeOK
<1>5. IsFiniteSet(net)
  BY FS_EmptySet DEF Init
<1>6. \A h \in Host, o \in EndPoint : Acked(h, o) = 0 /\ Len(UnAcked(h, o)) = 0
  BY <1>1, <1>2, <1>3 DEF Acked, UnAcked
<1>7. \A h \in Host, o \in EndPoint : Tombstone(h, o) = 0 /\ Last(h, o) = 0
  BY <1>2, <1>3, <1>6 DEF Tombstone, Last
<1>8. DeliveryInv
  <2>1. LastFits
    BY <1>7 DEF LastFits
  <2>2. UnAckedSent
    BY <1>6, <1>7 DEF UnAckedSent
  <2>3. MessagesKnown /\ AcksKnown
    BY DEF Init, MessagesKnown, AcksKnown
  <2>4. AckedWereAccepted /\ AcceptedWereSent
    BY <1>6, <1>7 DEF AckedWereAccepted, AcceptedWereSent
  <2>5. BuffersHold
    BY DEF Init, BuffersHold
  <2> QED
    BY <2>1, <2>2, <2>3, <2>4, <2>5 DEF DeliveryInv
<1> QED
  BY <1>4, <1>5, <1>8 DEF Inv

LEMMA StutterInv == Inv /\ UNCHANGED vars => Inv'
<1> SUFFICES ASSUME Inv, UNCHANGED vars PROVE Inv'
  OBVIOUS
<1>1. TypeOK' /\ IsFiniteSet(net)'
  BY DEF Inv, vars, TypeOK
<1>2. DeliveryInv'
  BY QuietStep, TypesOfInv DEF Inv, vars
<1> QED
  BY <1>1, <1>2 DEF Inv

LEMMA NextInv == Inv /\ [Next]_vars => Inv'
<1> SUFFICES ASSUME Inv, [Next]_vars PROVE Inv'
  OBVIOUS
<1>1. ASSUME NEW c \in Client, NEW h \in Host, NEW m \in Request[h], ClientRequest(c, h, m)
      PROVE  Inv'
  BY <1>1, ClientRequestInv
<1>2. ASSUME NEW c \in Acking, NEW p \in net, ClientAck(c, p)
      PROVE  Inv'
  BY <1>2, ClientAckInv
<1>3. ASSUME NEW e \in Host, HostNext(e)
      PROVE  Inv'
  <2>1. CASE \E p \in net : ReceivePacket(e, p)
    BY <2>1, ReceiveInv
  <2>2. CASE ProcessReceivedPacket(e)
    BY <2>2, GetRequestInv, SetRequestInv, DelegateInv, ShardInv, ReplyOrRedirectInv, HaltInv
       DEF ProcessReceivedPacket
  <2>3. CASE RetransmitUnAckedPackets(e)
    <3>1. UNCHANGED vars
      BY <2>3, RetransmitsNothingNew DEF RetransmitUnAckedPackets, vars
    <3> QED
      BY <3>1, StutterInv
  <2> QED
    BY <1>3, <2>1, <2>2, <2>3 DEF HostNext
<1>4. CASE UNCHANGED vars
  BY <1>4, StutterInv
<1> QED
  BY <1>1, <1>2, <1>3, <1>4 DEF Next

\* The delivery layer between hosts is consistent, in every reachable state:
\* what is acknowledged was accepted, what is accepted was sent, and what is
\* not acknowledged is numbered without a gap.
THEOREM DeliveryBetweenHosts == Spec => []DeliveryInv
<1>1. Inv => DeliveryInv
  BY DEF Inv
<1> QED
  BY <1>1, InitInv, NextInv, PTL DEF Spec

\* Every variable keeps its type, for any number of requests: in particular
\* no sequence number and no counter of delegations exceeds its limit.
THEOREM TypesOK == Spec => []TypeOK
<1>1. Inv => TypeOK
  BY DEF Inv
<1> QED
  BY <1>1, InitInv, NextInv, PTL DEF Spec

-----------------------------------------------------------------------------
(***************************************************************************)
(* A host answers what it accepted from a client, once, and sends clients  *)
(* nothing else.                                                           *)
(***************************************************************************)
AnswersCounted ==
    \A e \in Host, c \in Client :
        /\ Last(e, c) <= Tombstone(e, c)
        /\ received_packet[e] # NoPacket /\ received_packet[e].src = c =>
               Last(e, c) + 1 <= Tombstone(e, c)

LEMMA QuietCounts ==
    ASSUME AnswersCounted, UNCHANGED <<sd, received_packet>>
    PROVE  AnswersCounted'
  BY DEF AnswersCounted, Last, Tombstone, Acked, UnAcked

LEMMA ReceiveCounts ==
    ASSUME Inv, AnswersCounted, NEW e \in Host, NEW p \in net, ReceivePacket(e, p)
    PROVE  AnswersCounted'
<1>1. /\ SdOK
      /\ NetOK
      /\ received_packet \in [Host -> DataPacket \cup {NoPacket}]
      /\ DeliveryInv
      /\ Client \subseteq EndPoint
  BY TypesOfInv DEF Inv
<1>2. CASE p.msg.type = "Ack"
  <2>1. /\ UNCHANGED received_packet
        /\ \A h \in Host, o \in EndPoint :
              Tombstone(h, o)' = Tombstone(h, o) /\ Last(h, o)' = Last(h, o)
    BY <1>1, <1>2, AckStep
  <2> QED
    BY <1>1, <2>1 DEF AnswersCounted
<1>3. CASE p.msg.type = "Message"
  <2>1. /\ \A h \in Host, o \in EndPoint : Last(h, o)' = Last(h, o)
        /\ \A h \in Host, o \in EndPoint :
              <<h, o>> # <<e, p.src>> => Tombstone(h, o)' = Tombstone(h, o)
        /\ NewSingleMessage(sd[e], p) => Tombstone(e, p.src)' = Tombstone(e, p.src) + 1
        /\ ~NewSingleMessage(sd[e], p) => Tombstone(e, p.src)' = Tombstone(e, p.src)
    BY <1>1, <1>3, MessageStep
  <2>2. \A h \in Host : received_packet'[h] =
            IF h = e THEN IF NewSingleMessage(sd[e], p) THEN p ELSE NoPacket
            ELSE received_packet[h]
    BY <1>1 DEF ReceivePacket
  <2> SUFFICES ASSUME NEW h \in Host, NEW c \in Client
               PROVE  /\ Last(h, c)' <= Tombstone(h, c)'
                      /\ received_packet'[h] # NoPacket /\ received_packet'[h].src = c =>
                             Last(h, c)' + 1 <= Tombstone(h, c)'
    BY DEF AnswersCounted
  <2>3. /\ Last(h, c) \in Nat /\ Tombstone(h, c) \in Nat
        /\ Last(h, c) <= Tombstone(h, c)
        /\ received_packet[h] # NoPacket /\ received_packet[h].src = c =>
               Last(h, c) + 1 <= Tombstone(h, c)
    BY <1>1, LinkTypes DEF AnswersCounted
  <2>4. CASE h = e /\ c = p.src
    BY <1>1, <2>1, <2>2, <2>3, <2>4
  <2>5. CASE ~(h = e /\ c = p.src)
    <3>1. Last(h, c)' = Last(h, c) /\ Tombstone(h, c)' = Tombstone(h, c)
      BY <1>1, <2>1, <2>5
    <3> QED
      BY <2>2, <2>3, <2>5, <3>1
  <2> QED
    BY <2>4, <2>5
<1> QED
  BY <1>1, <1>2, <1>3, PacketTypes DEF NetOK

LEMMA HandlerCounts ==
    ASSUME Inv, AnswersCounted, NEW e \in Host, Buffered(e),
           received_packet' = [received_packet EXCEPT ![e] = NoPacket],
           NEW d \in EndPoint, NEW m \in CMessage, d = received_packet[e].src \/ d \in Host,
           (CanSend(sd[e], d) /\ Sends(e, d, m)) \/ SendsNothing
    PROVE  AnswersCounted'
<1>1. /\ SdOK
      /\ NetOK
      /\ received_packet \in [Host -> DataPacket \cup {NoPacket}]
      /\ DeliveryInv
      /\ Client \subseteq EndPoint
      /\ Host \cap Client = {}
  BY TypesOfInv DEF Inv
<1>2. \A h \in Host : received_packet'[h] = IF h = e THEN NoPacket ELSE received_packet[h]
  BY <1>1
<1>3. \A h \in Host, o \in EndPoint :
        /\ Tombstone(h, o)' = Tombstone(h, o)
        /\ \/ Last(h, o)' = Last(h, o)
           \/ h = e /\ o = d /\ Last(h, o)' = Last(h, o) + 1
  <2>1. CASE CanSend(sd[e], d) /\ Sends(e, d, m)
    <3>1. \A h \in Host, o \in EndPoint :
            /\ Tombstone(h, o)' = Tombstone(h, o)
            /\ Last(h, o)' = IF <<h, o>> = <<e, d>> THEN Last(h, o) + 1 ELSE Last(h, o)
      BY <1>1, <1>2, <2>1, SendStep
    <3> QED
      BY <3>1
  <2>2. CASE SendsNothing
    BY <2>2 DEF SendsNothing, Tombstone, Last, Acked, UnAcked
  <2> QED
    BY <2>1, <2>2
<1>4. received_packet[e] # NoPacket
  BY DEF Buffered
<1> SUFFICES ASSUME NEW h \in Host, NEW c \in Client
             PROVE  /\ Last(h, c)' <= Tombstone(h, c)'
                    /\ received_packet'[h] # NoPacket /\ received_packet'[h].src = c =>
                           Last(h, c)' + 1 <= Tombstone(h, c)'
  BY DEF AnswersCounted
<1>5. /\ Last(h, c) <= Tombstone(h, c)
      /\ received_packet[h] # NoPacket /\ received_packet[h].src = c =>
             Last(h, c) + 1 <= Tombstone(h, c)
  BY DEF AnswersCounted
<1>6. CASE Last(h, c)' = Last(h, c)
  BY <1>1, <1>2, <1>3, <1>5, <1>6
<1>7. CASE h = e /\ c = d /\ Last(h, c)' = Last(h, c) + 1
  BY <1>1, <1>2, <1>3, <1>4, <1>5, <1>7
<1> QED
  BY <1>1, <1>3, <1>6, <1>7

LEMMA NextCounts == Inv /\ AnswersCounted /\ [Next]_vars => AnswersCounted'
<1> SUFFICES ASSUME Inv, AnswersCounted, [Next]_vars PROVE AnswersCounted'
  OBVIOUS
<1>1. ASSUME NEW c \in Client, NEW h \in Host, NEW m \in Request[h], ClientRequest(c, h, m)
      PROVE  AnswersCounted'
  BY <1>1, QuietCounts DEF ClientRequest
<1>2. ASSUME NEW c \in Acking, NEW p \in net, ClientAck(c, p)
      PROVE  AnswersCounted'
  BY <1>2, QuietCounts DEF ClientAck
<1>3. ASSUME NEW e \in Host, NEW p \in net, ReceivePacket(e, p)
      PROVE  AnswersCounted'
  BY <1>3, ReceiveCounts
<1>4. ASSUME NEW e \in Host, NextGetRequest(e)
      PROVE  AnswersCounted'
  <2>1. PICK k \in Key :
          /\ Takes(e, GetRequest(k))
          /\ IF CanSend(sd[e], received_packet[e].src)
             THEN Sends(e, received_packet[e].src, Answer(e, k, ht[e][k]))
             ELSE SendsNothing
    BY <1>4 DEF NextGetRequest
  <2>2. Buffered(e) /\ received_packet' = [received_packet EXCEPT ![e] = NoPacket]
    BY <2>1 DEF Takes
  <2>3. ht[e][k] \in OptionalValue
    BY DEF Inv, TypeOK, Hashtable
  <2>4. received_packet[e].src \in EndPoint /\ Answer(e, k, ht[e][k]) \in CMessage
    BY <2>2, <2>3, BufferTypes, AnswerTypes DEF Inv
  <2> QED
    BY <2>1, <2>2, <2>4, HandlerCounts
<1>5. ASSUME NEW e \in Host, NextSetRequest(e)
      PROVE  AnswersCounted'
  <2>1. PICK k \in Key, v \in OptionalValue :
          /\ Takes(e, SetRequest(k, v))
          /\ IF v \notin Oversized /\ CanSend(sd[e], received_packet[e].src)
             THEN Sends(e, received_packet[e].src, Answer(e, k, v))
             ELSE SendsNothing
    BY <1>5 DEF NextSetRequest, OptionalValue
  <2>2. Buffered(e) /\ received_packet' = [received_packet EXCEPT ![e] = NoPacket]
    BY <2>1 DEF Takes
  <2>3. received_packet[e].src \in EndPoint /\ Answer(e, k, v) \in CMessage
    BY <2>2, BufferTypes, AnswerTypes DEF Inv
  <2> QED
    BY <2>1, <2>2, <2>3, HandlerCounts
<1>6. ASSUME NEW e \in Host, NextDelegate(e)
      PROVE  AnswersCounted'
  <2>1. /\ Buffered(e)
        /\ received_packet' = [received_packet EXCEPT ![e] = NoPacket]
        /\ SendsNothing
    BY <1>6 DEF NextDelegate, Takes
  <2>2. received_packet[e].src \in EndPoint /\ received_packet[e].msg.m \in CMessage
    BY <2>1, BufferTypes DEF Inv
  <2> QED
    BY <2>1, <2>2, HandlerCounts
<1>7. ASSUME NEW e \in Host, NextShard(e)
      PROVE  AnswersCounted'
  <2>1. PICK lo \in KeyIterator, hi \in KeyIterator, recipient \in EndPoint :
          /\ Takes(e, Shard(lo, hi, recipient))
          /\ \/ /\ CanDelegate(e, lo, hi, recipient)
                /\ CanSend(sd[e], recipient)
                /\ Sends(e, recipient, Delegate(lo, hi, ExtractRange(ht[e], lo, hi)))
             \/ SendsNothing
    BY <1>7 DEF NextShard
  <2>2. Buffered(e) /\ received_packet' = [received_packet EXCEPT ![e] = NoPacket]
    BY <2>1 DEF Takes
  <2>3. CASE SendsNothing
    <3>1. received_packet[e].src \in EndPoint /\ received_packet[e].msg.m \in CMessage
      BY <2>2, BufferTypes DEF Inv
    <3> QED
      BY <2>2, <2>3, <3>1, HandlerCounts
  <2>4. CASE ~SendsNothing
    <3>1. ExtractRange(ht[e], lo, hi) \in Hashtable
      BY TableTypes DEF Inv, TypeOK
    <3>2. Delegate(lo, hi, ExtractRange(ht[e], lo, hi)) \in CMessage
      BY <3>1 DEF Delegate, CMessage
    <3>3. recipient \in Host
      BY <2>1, <2>4 DEF CanDelegate
    <3> QED
      BY <2>1, <2>2, <2>4, <3>2, <3>3, HandlerCounts
  <2> QED
    BY <2>3, <2>4
<1>8. ASSUME NEW e \in Host, NextReplyOrRedirect(e)
      PROVE  AnswersCounted'
  <2>1. /\ Buffered(e)
        /\ received_packet' = [received_packet EXCEPT ![e] = NoPacket]
        /\ SendsNothing
    BY <1>8 DEF NextReplyOrRedirect, Takes
  <2>2. received_packet[e].src \in EndPoint /\ received_packet[e].msg.m \in CMessage
    BY <2>1, BufferTypes DEF Inv
  <2> QED
    BY <2>1, <2>2, HandlerCounts
<1>9. ASSUME NEW e \in Host, Halts(e) \/ RetransmitUnAckedPackets(e)
      PROVE  AnswersCounted'
  BY <1>9, QuietCounts DEF Halts, RetransmitUnAckedPackets
<1>10. CASE UNCHANGED vars
  BY <1>10, QuietCounts DEF vars
<1> QED
  BY <1>1, <1>2, <1>3, <1>4, <1>5, <1>6, <1>7, <1>8, <1>9, <1>10
     DEF Next, HostNext, ProcessReceivedPacket

\* A message that a client numbered has a number for its answer.
LEMMA CanAnswer ==
    ASSUME Inv, AnswersCounted, NEW e \in Host,
           received_packet[e] # NoPacket, received_packet[e].src \in Client
    PROVE  CanSend(sd[e], received_packet[e].src)
<1> DEFINE c == received_packet[e].src
<1>1. SdOK /\ c \in EndPoint
  BY TypesOfInv DEF Inv
<1>2. /\ Acked(e, c) \in Nat
      /\ Len(UnAcked(e, c)) \in Nat
      /\ Tombstone(e, c) \in Nat /\ Tombstone(e, c) \in Seqno
  BY <1>1, LinkTypes
<1>3. Acked(e, c) + Len(UnAcked(e, c)) + 1 <= Tombstone(e, c)
  BY DEF AnswersCounted, Last
<1>4. MaxSeqno - Acked(e, c) # Len(UnAcked(e, c))
  BY <1>2, <1>3, MaxSeqnoAssumption DEF Seqno
<1> QED
  BY <1>4 DEF CanSend, Acked, UnAcked

\* A host can always answer: its clients run out of sequence numbers for
\* requests before it runs out of numbers for the answers. So the handlers
\* of get and set never take the branch that drops a request for want of a
\* number, whatever the limit is.
THEOREM AnswersAlwaysFit == Spec => []AnswersFit
<1>1. Init => AnswersCounted
  <2> SUFFICES ASSUME Init PROVE AnswersCounted
    OBVIOUS
  <2>1. \A h \in Host, o \in EndPoint : Tombstone(h, o) = 0 /\ Last(h, o) = 0
    BY DEF Init, EmptySingleDelivery, NewAckState, Tombstone, Last, Acked, UnAcked
  <2> QED
    BY <2>1, ShtAssumption DEF Init, AnswersCounted
<1>2. Inv /\ AnswersCounted => AnswersFit
  <2> SUFFICES ASSUME Inv, AnswersCounted, NEW e \in Host,
                      received_packet[e] # NoPacket, received_packet[e].src \in Client
               PROVE  CanSend(sd[e], received_packet[e].src)
    BY DEF AnswersFit
  <2> QED
    BY CanAnswer
<1> QED
  BY <1>1, <1>2, InitInv, NextInv, NextCounts, PTL DEF Spec

-----------------------------------------------------------------------------
(***************************************************************************)
(* Keys are never lost nor owned twice, while Shard and Delegate messages  *)
(* move them between the hosts.                                            *)
(***************************************************************************)
\* The messages between hosts that their recipients have not accepted.
Unaccepted ==
    {p \in net : /\ p.src \in Host
                 /\ p.dst \in Host
                 /\ p.msg.type = "Message"
                 /\ p.msg.seqno > Tombstone(p.dst, p.src)}

\* The messages of hosts that are yet to be processed.
Pending == {p \in Unaccepted \cup Unprocessed : p.src \in Host}

Carries(p, k) == p.msg.m.type = "Delegate" /\ Between(p.msg.m.lo, k, p.msg.m.hi)

LEMMA InvFacts ==
    ASSUME Inv
    PROVE  /\ SdOK
           /\ NetOK
           /\ DeliveryInv
           /\ received_packet \in [Host -> DataPacket \cup {NoPacket}]
           /\ Host \subseteq EndPoint
           /\ Host \cap Client = {}
           /\ NoPacket \notin DataPacket
  BY TypesOfInv, MessagesAssumption DEF Inv

\* What is not accepted is not acknowledged, so that it is in un_acked.
LEMMA UnreceivedAreUnaccepted == Inv => Unreceived = Unaccepted
<1> SUFFICES ASSUME Inv PROVE Unreceived = Unaccepted
  OBVIOUS
<1>1. ASSUME NEW p \in Unreceived PROVE p \in Unaccepted
  <2>1. PICK s \in Host : p \in UnAckedPackets(sd[s], s)
    BY DEF Unreceived
  <2>2. PICK d \in EndPoint : \E i \in DOMAIN sd[s].send_state[d].un_acked :
          p = Packet(s, d, sd[s].send_state[d].un_acked[i])
    BY <2>1 DEF UnAckedPackets
  <2>3. PICK i \in DOMAIN UnAcked(s, d) : p = Packet(s, d, UnAcked(s, d)[i])
    BY <2>2 DEF UnAcked
  <2>4. UnAcked(s, d) \in Seq(DataMessage)
    BY InvFacts, LinkTypes
  <2>5. i \in 1 .. Len(UnAcked(s, d)) /\ UnAcked(s, d)[i] \in DataMessage
    BY <2>3, <2>4
  <2>6. p \in net
    BY <2>3, <2>5, InvFacts, Numbered DEF DeliveryInv
  <2>7. p.src = s /\ p.dst = d /\ p.msg.type = "Message"
    BY <2>3, <2>5 DEF Packet, DataMessage
  <2> QED
    BY <2>6, <2>7 DEF Unreceived, Unaccepted, Tombstone
<1>2. ASSUME NEW p \in Unaccepted PROVE p \in Unreceived
  <2> DEFINE s == p.src
             d == p.dst
             i == p.msg.seqno - Acked(s, d)
  <2>1. /\ p \in net /\ s \in Host /\ d \in Host /\ d \in EndPoint /\ s \in EndPoint
        /\ p.msg.type = "Message"
        /\ p.msg.seqno > Tombstone(d, s)
    BY InvFacts DEF Unaccepted
  <2>2. p \in DataPacket /\ p.msg.seqno \in Nat
    BY <2>1, InvFacts, PacketTypes DEF NetOK
  <2>3. /\ Acked(s, d) \in Nat /\ Tombstone(d, s) \in Nat
        /\ Len(UnAcked(s, d)) \in Nat
        /\ UnAcked(s, d) \in Seq(DataMessage)
    BY <2>1, InvFacts, LinkTypes
  <2>4. Acked(s, d) <= Tombstone(d, s)
    BY <2>1, InvFacts DEF DeliveryInv, AckedWereAccepted
  <2>5. p.msg.seqno <= Last(s, d) /\ p.msg = MsgAt(s, d, p.msg.seqno)
    BY <2>1, <2>2, <2>3, <2>4, InvFacts DEF DeliveryInv, MessagesKnown
  <2>6. i \in 1 .. Len(UnAcked(s, d))
    BY <2>1, <2>2, <2>3, <2>4, <2>5 DEF Last
  <2>7. i \in DOMAIN sd[s].send_state[d].un_acked /\ p.msg = sd[s].send_state[d].un_acked[i]
    BY <2>3, <2>5, <2>6 DEF UnAcked, MsgAt
  <2>8. p = Packet(s, d, p.msg)
    BY <2>2 DEF DataPacket, Packet
  <2>9. p \in UnAckedPackets(sd[s], s)
    <3> DEFINE W(o) == {Packet(s, o, sd[s].send_state[o].un_acked[j])
                           : j \in DOMAIN sd[s].send_state[o].un_acked}
    <3>1. p \in W(d)
      <4>1. PICK j \in DOMAIN sd[s].send_state[d].un_acked : p.msg = sd[s].send_state[d].un_acked[j]
        BY <2>7
      <4>2. p = Packet(s, d, sd[s].send_state[d].un_acked[j])
        BY <2>8, <4>1
      <4> QED
        BY <4>1, <4>2
    <3>2. W(d) \in {W(o) : o \in EndPoint}
      BY <2>1
    <3> HIDE DEF W
    <3>3. p \in UNION {W(o) : o \in EndPoint}
      BY <3>1, <3>2
    <3> QED
      BY <3>3 DEF W, UnAckedPackets
  <2>10. p \in UNION {UnAckedPackets(sd[h], h) : h \in Host}
    <3>1. UnAckedPackets(sd[s], s) \in {UnAckedPackets(sd[h], h) : h \in Host}
      BY <2>1
    <3> QED
      BY <2>9, <3>1
  <2>11. p.dst \in Host /\ p.msg.seqno > sd[p.dst].receive_state[p.src]
    BY <2>1 DEF Tombstone
  <2> QED
    BY <2>10, <2>11 DEF Unreceived
<1> QED
  BY <1>1, <1>2

LEMMA DelegationsArePending ==
    Inv => \A k : Delegations(k) = {p \in Pending : Carries(p, k)}
  BY UnreceivedAreUnaccepted DEF Delegations, Pending, Carries

\* A sequence number that is not accepted belongs to one message.
LEMMA OneMessagePerNumber ==
    ASSUME Inv, NEW p \in Unaccepted, NEW q \in Unaccepted,
           p.src = q.src, p.dst = q.dst, p.msg.seqno = q.msg.seqno
    PROVE  p = q
<1>1. ASSUME NEW x \in Unaccepted
      PROVE  x = Packet(x.src, x.dst, MsgAt(x.src, x.dst, x.msg.seqno))
  <2>1. /\ x \in net /\ x.src \in Host /\ x.dst \in Host
        /\ x.src \in EndPoint /\ x.dst \in EndPoint
        /\ x.msg.type = "Message"
        /\ x.msg.seqno > Tombstone(x.dst, x.src)
    BY InvFacts DEF Unaccepted
  <2>2. x \in DataPacket /\ x.msg.seqno \in Nat
    BY <2>1, InvFacts, PacketTypes DEF NetOK
  <2>3. Acked(x.src, x.dst) \in Nat /\ Tombstone(x.dst, x.src) \in Nat
    BY <2>1, InvFacts, LinkTypes
  <2>4. Acked(x.src, x.dst) <= Tombstone(x.dst, x.src)
    BY <2>1, InvFacts DEF DeliveryInv, AckedWereAccepted
  <2>5. x.msg = MsgAt(x.src, x.dst, x.msg.seqno)
    BY <2>1, <2>2, <2>3, <2>4, InvFacts DEF DeliveryInv, MessagesKnown
  <2> QED
    BY <2>2, <2>5 DEF DataPacket, Packet
<1> QED
  BY <1>1

-----------------------------------------------------------------------------
(***************************************************************************)
(* What the steps do to the pending messages.                              *)
(***************************************************************************)
LEMMA PendingQuiet ==
    ASSUME Inv, UNCHANGED <<sd, received_packet>>, net \subseteq net',
           \A q \in net' \ net : q.src \in Client
    PROVE  Pending' = Pending
<1>1. Unaccepted' = Unaccepted
  BY InvFacts DEF Unaccepted, Tombstone
<1> QED
  BY <1>1 DEF Pending, Unprocessed

\* A message that is received moves into the buffer.
LEMMA PendingReceive ==
    ASSUME Inv, NEW e \in Host, NEW p \in net, ReceivePacket(e, p)
    PROVE  Pending' = Pending
<1>1. p.msg.type = "Ack" \/ p.msg.type = "Message"
  BY InvFacts, PacketTypes DEF NetOK
<1>2. CASE p.msg.type = "Ack"
  <2>1. /\ UNCHANGED <<net, received_packet>>
        /\ \A h \in Host, o \in EndPoint : Tombstone(h, o)' = Tombstone(h, o)
    BY <1>2, InvFacts, AckStep
  <2>2. Unaccepted' = Unaccepted
    BY <2>1, InvFacts DEF Unaccepted
  <2> QED
    BY <2>1, <2>2 DEF Pending, Unprocessed
<1>3. CASE p.msg.type = "Message"
  <2> DEFINE s == p.src
  <2>1. /\ p \in DataPacket
        /\ net' = net \cup MaybeAck(sd'[e], p)
        /\ \A q \in net' \ net : q.msg.type = "Ack"
        /\ \A h \in Host, o \in EndPoint :
              <<h, o>> # <<e, s>> => Tombstone(h, o)' = Tombstone(h, o)
        /\ NewSingleMessage(sd[e], p) =>
              /\ p.msg.seqno = Tombstone(e, s) + 1
              /\ Tombstone(e, s)' = Tombstone(e, s) + 1
        /\ ~NewSingleMessage(sd[e], p) => Tombstone(e, s)' = Tombstone(e, s)
    BY <1>3, InvFacts, MessageStep
  <2>2. /\ p.dst = e
        /\ received_packet[e] = NoPacket
        /\ received_packet' =
              [received_packet EXCEPT ![e] = IF NewSingleMessage(sd[e], p) THEN p ELSE NoPacket]
    BY DEF ReceivePacket
  <2>3. s \in EndPoint
    BY <2>1 DEF DataPacket
  <2>4. \A q : q \in net' /\ q.msg.type = "Message" <=> q \in net /\ q.msg.type = "Message"
    BY <2>1
  <2>5. CASE ~NewSingleMessage(sd[e], p)
    <3>1. UNCHANGED received_packet
      BY <2>2, <2>5, InvFacts
    <3>2. \A h \in Host, o \in EndPoint : Tombstone(h, o)' = Tombstone(h, o)
      BY <2>1, <2>5
    <3>3. Unaccepted' = Unaccepted
      BY <2>4, <3>2, InvFacts DEF Unaccepted
    <3> QED
      BY <3>1, <3>3 DEF Pending, Unprocessed
  <2>6. CASE NewSingleMessage(sd[e], p)
    <3>1. Unprocessed' = Unprocessed \cup {p}
      BY <2>1, <2>2, <2>6, InvFacts DEF Unprocessed
    <3>2. CASE s \in Host
      <4>1. Tombstone(e, s) \in Nat
        BY <2>3, InvFacts, LinkTypes
      <4>2. p \in Unaccepted
        BY <1>3, <2>1, <2>2, <2>6, <3>2, <4>1 DEF Unaccepted
      <4>3. ASSUME NEW q \in net, q.msg.type = "Message", q.src \in Host, q.dst \in Host
            PROVE  q.msg.seqno > Tombstone(q.dst, q.src)'
                     <=> q.msg.seqno > Tombstone(q.dst, q.src) /\ q # p
        <5>1. q.msg.seqno \in Nat /\ q.src \in EndPoint /\ q.dst \in EndPoint
          BY <4>3, InvFacts, PacketTypes DEF NetOK
        <5>2. CASE <<q.dst, q.src>> = <<e, s>>
          <6>1. q.msg.seqno > Tombstone(e, s)' <=>
                    q.msg.seqno > Tombstone(e, s) /\ q.msg.seqno # p.msg.seqno
            BY <2>1, <2>6, <4>1, <5>1
          <6>2. q.msg.seqno > Tombstone(e, s) /\ q.msg.seqno = p.msg.seqno => q = p
            BY <2>2, <4>2, <4>3, <5>2, OneMessagePerNumber DEF Unaccepted
          <6> QED
            BY <5>2, <6>1, <6>2
        <5>3. CASE <<q.dst, q.src>> # <<e, s>>
          BY <2>1, <2>2, <4>3, <5>1, <5>3
        <5> QED
          BY <5>2, <5>3
      <4>4. Unaccepted' = Unaccepted \ {p}
        BY <2>4, <4>3 DEF Unaccepted
      <4> QED
        BY <3>1, <4>2, <4>4 DEF Pending
    <3>3. CASE s \notin Host
      <4>1. \A h, o \in Host : Tombstone(h, o)' = Tombstone(h, o)
        BY <2>1, <3>3, InvFacts
      <4>2. Unaccepted' = Unaccepted
        BY <2>4, <4>1 DEF Unaccepted
      <4> QED
        BY <3>1, <3>3, <4>2 DEF Pending
    <3> QED
      BY <3>2, <3>3
  <2> QED
    BY <2>5, <2>6
<1> QED
  BY <1>1, <1>2, <1>3

\* The message in a buffer is not one that is still to be accepted, nor is
\* it in another buffer.
LEMMA BufferedOnce ==
    ASSUME Inv, NEW e \in Host, Buffered(e),
           received_packet' = [received_packet EXCEPT ![e] = NoPacket]
    PROVE  /\ received_packet[e] \notin Unaccepted
           /\ Unprocessed' = Unprocessed \ {received_packet[e]}
<1> DEFINE b == received_packet[e]
<1>1. /\ b \in DataPacket
      /\ b.dst = e
      /\ b.msg.seqno <= Tombstone(e, b.src)
      /\ b.src \in EndPoint
      /\ b.msg.seqno \in Nat
  BY InvFacts, MaxSeqnoAssumption
     DEF Buffered, DeliveryInv, BuffersHold, DataPacket, DataMessage, Seqno
<1>2. Tombstone(e, b.src) \in Nat
  BY <1>1, InvFacts, LinkTypes
<1>3. b \notin Unaccepted
  BY <1>1, <1>2 DEF Unaccepted
<1>4. \A h \in Host : h # e => received_packet[h] # b
  BY <1>1, InvFacts DEF DeliveryInv, BuffersHold, Buffered
<1>5. \A h \in Host : received_packet'[h] = IF h = e THEN NoPacket ELSE received_packet[h]
  BY InvFacts
<1>6. Unprocessed' = Unprocessed \ {b}
  BY <1>4, <1>5 DEF Unprocessed, Buffered
<1> QED
  BY <1>3, <1>6

LEMMA PendingSilent ==
    ASSUME Inv, NEW e \in Host, Buffered(e),
           received_packet' = [received_packet EXCEPT ![e] = NoPacket],
           SendsNothing
    PROVE  Pending' = Pending \ {received_packet[e]}
<1>1. Unaccepted' = Unaccepted
  BY DEF SendsNothing, Unaccepted, Tombstone
<1> QED
  BY <1>1, BufferedOnce DEF Pending

LEMMA PendingSend ==
    ASSUME Inv, NEW e \in Host, Buffered(e),
           received_packet' = [received_packet EXCEPT ![e] = NoPacket],
           NEW d \in EndPoint, NEW m \in CMessage, CanSend(sd[e], d), Sends(e, d, m)
    PROVE  Pending' = (Pending \ {received_packet[e]})
                         \cup {q \in {Packet(e, d, NextMessage(sd[e], d, m))} : d \in Host}
<1> DEFINE x == Packet(e, d, NextMessage(sd[e], d, m))
           b == received_packet[e]
<1>1. \A h \in Host : received_packet'[h] = received_packet[h] \/ received_packet'[h] = NoPacket
  BY InvFacts
<1>2. /\ NextMessage(sd[e], d, m) = Message(Last(e, d) + 1, d, m)
      /\ \A h \in Host, o \in EndPoint : Tombstone(h, o)' = Tombstone(h, o)
  BY <1>1, InvFacts, SendStep
<1>3. /\ x.src = e
      /\ x.dst = d
      /\ x.msg.type = "Message"
      /\ x.msg.seqno = Last(e, d) + 1
  BY <1>2 DEF Packet, Message
<1>4. net' = net \cup {x}
  BY DEF Sends
<1> HIDE DEF x
<1>5. ASSUME d \in Host PROVE x.msg.seqno > Tombstone(d, e)
  <2>1. Tombstone(d, e) <= Last(e, d) /\ Tombstone(d, e) \in Nat /\ Last(e, d) \in Nat
    BY <1>5, InvFacts, LinkTypes DEF DeliveryInv, AcceptedWereSent
  <2> QED
    BY <1>3, <2>1
<1>6. Unaccepted' = Unaccepted \cup {q \in {x} : d \in Host}
  BY <1>2, <1>3, <1>4, <1>5, InvFacts DEF Unaccepted
<1>7. b \notin Unaccepted /\ Unprocessed' = Unprocessed \ {b}
  BY BufferedOnce
<1>8. Pending' = (Pending \ {b}) \cup {q \in {x} : d \in Host}
  BY <1>3, <1>6, <1>7 DEF Pending
<1> QED
  BY <1>8 DEF x

-----------------------------------------------------------------------------
(***************************************************************************)
(* Who claims a key. The invariant is OwnInv.                              *)
(***************************************************************************)
Claimed(k) ==
    \/ \E h \in Host : Owners(k) = {h} /\ Delegations(k) = {}
    \/ \E p : Owners(k) = {} /\ Delegations(k) = {p}

\* Whoever has the key, or is about to receive it.
Destinations(k) == Owners(k) \cup {p.dst : p \in Delegations(k)}

\* No hosts redirect requests for the key among themselves for ever.
Leads(k) ==
    \A hosts \in SUBSET Host :
        hosts # {} /\ (\A h \in hosts : delegation_map[h][k] \in hosts)
        => Destinations(k) \cap hosts # {}

\* A Delegate message of a host is never one that its recipient ignores.
Deliverable(p) ==
    p.src \in Host /\ p.msg.type = "Message" /\ p.msg.m.type = "Delegate" =>
        /\ p.msg.m.lo < p.msg.m.hi
        /\ ValidHashtable(p.msg.m.h)
        /\ \A k \in Domain(p.msg.m.h) : Between(p.msg.m.lo, k, p.msg.m.hi)

DelegatesDeliverable == \A p \in net : Deliverable(p)

\* No host stores a value that is too long, so that it may delegate it.
StoredValuesFit == \A h \in Host, k \in Key : ht[h][k] \notin Oversized

OwnInv ==
    /\ Inv
    /\ DelegatesDeliverable
    /\ OnlyOwnedKeysStored
    /\ StoredValuesFit
    /\ \A k \in Key : Claimed(k) /\ Leads(k)

\* The value of a key is with whoever claims it.
ClaimantHasValue ==
    /\ \A k, h : Owners(k) = {h} => Table(k) = ht[h][k]
    /\ \A k, p : Owners(k) = {} /\ Delegations(k) = {p} => Table(k) = p.msg.m.h[k]

LEMMA TableIsClaimed == ClaimantHasValue
<1>1. ASSUME NEW k, NEW h, Owners(k) = {h} PROVE Table(k) = ht[h][k]
  <2>1. (CHOOSE x \in {h} : TRUE) = h
    OBVIOUS
  <2> QED
    BY <1>1, <2>1 DEF Table
<1>2. ASSUME NEW k, NEW p, Owners(k) = {}, Delegations(k) = {p} PROVE Table(k) = p.msg.m.h[k]
  <2>1. (CHOOSE x \in {p} : TRUE) = p
    OBVIOUS
  <2> QED
    BY <1>2, <2>1 DEF Table
<1> QED
  BY <1>1, <1>2 DEF ClaimantHasValue

TableKept == \A k \in Key : Table(k)' = Table(k)

LEMMA ClaimStays ==
    ASSUME NEW k, Claimed(k), Owners(k)' = Owners(k), Delegations(k)' = Delegations(k),
           \A h \in Owners(k) : ht'[h][k] = ht[h][k]
    PROVE  Claimed(k)' /\ Table(k)' = Table(k)
<1>1. Claimed(k)'
  BY DEF Claimed
<1>2. ClaimantHasValue /\ ClaimantHasValue'
  BY TableIsClaimed, PTL
<1>3. ASSUME NEW h \in Host, Owners(k) = {h}
      PROVE  Table(k)' = Table(k)
  <2>1. Owners(k)' = {h}
    BY <1>3
  <2>2. Table(k) = ht[h][k] /\ Table(k)' = ht'[h][k]
    BY <1>2, <1>3, <2>1 DEF ClaimantHasValue
  <2> QED
    BY <1>3, <2>2
<1>4. ASSUME NEW p, Owners(k) = {}, Delegations(k) = {p}
      PROVE  Table(k)' = Table(k)
  <2>1. Owners(k)' = {} /\ Delegations(k)' = {p}
    BY <1>4
  <2>2. Table(k) = p.msg.m.h[k]
    BY <1>2, <1>4 DEF ClaimantHasValue
  <2>3. Table(k)' = p.msg.m.h[k]
    BY <1>2, <2>1 DEF ClaimantHasValue
  <2> QED
    BY <2>2, <2>3
<1> QED
  BY <1>1, <1>3, <1>4 DEF Claimed

\* The key moves from e to d, where e points from then on: any set of hosts
\* that no redirect leaves and that does not have d is without e, so it had no
\* redirect to e before either.
LEMMA RedirectsFollow ==
    ASSUME NEW k, Leads(k), NEW e \in Host, NEW d \in Host,
           Destinations(k) = {e}, Destinations(k)' = {d},
           \A h \in Host : delegation_map'[h][k] = IF h = e THEN d ELSE delegation_map[h][k]
    PROVE  Leads(k)'
<1> SUFFICES ASSUME NEW hosts \in SUBSET Host,
                    hosts # {},
                    \A h \in hosts : delegation_map'[h][k] \in hosts,
                    d \notin hosts
             PROVE  FALSE
  BY DEF Leads
<1>1. e \notin hosts
  OBVIOUS
<1>2. \A h \in hosts : delegation_map[h][k] \in hosts
  BY <1>1
<1>3. Destinations(k) \cap hosts # {}
  BY <1>2 DEF Leads
<1> QED
  BY <1>1, <1>3

\* A step that moves no key.
LEMMA NothingMoves ==
    ASSUME OwnInv, Inv', UNCHANGED <<delegation_map, ht>>,
           \A q \in net' \ net : Deliverable(q),
           \A k \in Key : Delegations(k)' = Delegations(k)
    PROVE  OwnInv' /\ TableKept
<1>1. DelegatesDeliverable'
  BY DEF OwnInv, DelegatesDeliverable, Deliverable
<1>2. OnlyOwnedKeysStored' /\ StoredValuesFit'
  BY DEF OwnInv, OnlyOwnedKeysStored, StoredValuesFit
<1>3. ASSUME NEW k \in Key PROVE Claimed(k)' /\ Leads(k)' /\ Table(k)' = Table(k)
  <2>1. Owners(k)' = Owners(k)
    BY DEF Owners
  <2>2. Leads(k)'
    BY <2>1 DEF OwnInv, Leads, Destinations
  <2> QED
    BY <2>1, <2>2, ClaimStays DEF OwnInv
<1> QED
  BY <1>1, <1>2, <1>3 DEF OwnInv, TableKept

LEMMA PendingKeepsDelegations ==
    ASSUME Inv, Inv', Pending' = Pending
    PROVE  \A k : Delegations(k)' = Delegations(k)
<1>1. \A k : Delegations(k) = {p \in Pending : Carries(p, k)}
  BY DelegationsArePending
<1>2. (\A k : Delegations(k) = {p \in Pending : Carries(p, k)})'
  BY DelegationsArePending, PTL
<1> QED
  BY <1>1, <1>2 DEF Carries

\* A handler that takes a message other than Delegate, and sends none or one
\* other than Delegate.
LEMMA AnswersMoveNothing ==
    ASSUME Inv, Inv', NEW e \in Host, Buffered(e), received_packet[e].msg.m.type # "Delegate",
           received_packet' = [received_packet EXCEPT ![e] = NoPacket],
           NEW d \in EndPoint, NEW m \in CMessage, m.type # "Delegate",
           (CanSend(sd[e], d) /\ Sends(e, d, m)) \/ SendsNothing
    PROVE  /\ \A q \in net' \ net : Deliverable(q)
           /\ \A k \in Key : Delegations(k)' = Delegations(k)
<1> DEFINE b == received_packet[e]
           x == Packet(e, d, NextMessage(sd[e], d, m))
<1>1. x.msg.m = m
  BY DEF Packet, NextMessage, Message
<1>2. net' \subseteq net \cup {x}
  BY DEF Sends, SendsNothing
<1>3. \/ Pending' = (Pending \ {b}) \cup {q \in {x} : d \in Host}
      \/ Pending' = Pending \ {b}
  BY PendingSend, PendingSilent
<1>4. \A k : Delegations(k) = {p \in Pending : Carries(p, k)}
  BY DelegationsArePending
<1>5. (\A k : Delegations(k) = {p \in Pending : Carries(p, k)})'
  BY DelegationsArePending, PTL
<1>6. \A k : Delegations(k)' = {p \in Pending' : Carries(p, k)}
  BY <1>5 DEF Carries
<1>7. \A k : ~Carries(x, k) /\ ~Carries(b, k)
  BY <1>1 DEF Carries
<1>8. Deliverable(x)
  BY <1>1 DEF Deliverable
<1> HIDE DEF b, x
<1>9. \A k : {p \in Pending' : Carries(p, k)} = {p \in Pending : Carries(p, k)}
  BY <1>3, <1>7
<1> QED
  BY <1>2, <1>4, <1>6, <1>8, <1>9

LEMMA AnswerIsNotDelegate ==
    ASSUME NEW e, NEW k, NEW v
    PROVE  Answer(e, k, v).type # "Delegate"
  BY DEF Answer, Reply, Redirect

LEMMA GetRequestOwn ==
    ASSUME OwnInv, Inv', NEW e \in Host, NextGetRequest(e)
    PROVE  OwnInv' /\ TableKept
<1>1. PICK k \in Key :
        /\ Takes(e, GetRequest(k))
        /\ IF CanSend(sd[e], received_packet[e].src)
           THEN Sends(e, received_packet[e].src, Answer(e, k, ht[e][k]))
           ELSE SendsNothing
        /\ UNCHANGED <<delegation_map, ht>>
  BY DEF NextGetRequest
<1> DEFINE d == received_packet[e].src
           m == Answer(e, k, ht[e][k])
<1>2. /\ Inv
      /\ Buffered(e)
      /\ received_packet[e].msg.m.type # "Delegate"
      /\ received_packet' = [received_packet EXCEPT ![e] = NoPacket]
  BY <1>1 DEF OwnInv, Takes, GetRequest
<1>3. ht[e][k] \in OptionalValue
  BY <1>2 DEF Inv, TypeOK, Hashtable
<1>4. d \in EndPoint /\ m \in CMessage /\ m.type # "Delegate"
  BY <1>2, <1>3, BufferTypes, AnswerTypes, AnswerIsNotDelegate DEF Inv
<1>5. (CanSend(sd[e], d) /\ Sends(e, d, m)) \/ SendsNothing
  BY <1>1
<1> HIDE DEF d, m
<1> QED
  BY <1>1, <1>2, <1>4, <1>5, AnswersMoveNothing, NothingMoves

LEMMA SetRequestOwn ==
    ASSUME OwnInv, Inv', NEW e \in Host, NextSetRequest(e)
    PROVE  OwnInv' /\ \A j \in Key : Owners(j)' = Owners(j) /\ Delegations(j)' = Delegations(j)
<1>1. PICK k \in Key, v \in OptionalValue :
        /\ Takes(e, SetRequest(k, v))
        /\ IF v \notin Oversized /\ CanSend(sd[e], received_packet[e].src)
           THEN /\ Sends(e, received_packet[e].src, Answer(e, k, v))
                /\ \/ delegation_map[e][k] = e /\ ht' = [ht EXCEPT ![e][k] = v]
                   \/ UNCHANGED ht
           ELSE SendsNothing /\ UNCHANGED ht
        /\ UNCHANGED delegation_map
        /\ v \notin Oversized \/ UNCHANGED ht
  BY DEF NextSetRequest, OptionalValue
<1> DEFINE d == received_packet[e].src
           m == Answer(e, k, v)
<1>2. /\ Inv
      /\ Buffered(e)
      /\ received_packet[e].msg.m.type # "Delegate"
      /\ received_packet' = [received_packet EXCEPT ![e] = NoPacket]
  BY <1>1 DEF OwnInv, Takes, SetRequest
<1>3. d \in EndPoint /\ m \in CMessage /\ m.type # "Delegate"
  BY <1>2, BufferTypes, AnswerTypes, AnswerIsNotDelegate DEF Inv
<1>4. (CanSend(sd[e], d) /\ Sends(e, d, m)) \/ SendsNothing
  BY <1>1
<1> HIDE DEF d, m
<1>5. /\ \A q \in net' \ net : Deliverable(q)
      /\ \A j \in Key : Delegations(j)' = Delegations(j)
  BY <1>2, <1>3, <1>4, AnswersMoveNothing
<1>6. \A j \in Key : Owners(j)' = Owners(j)
  BY <1>1 DEF Owners
<1>7. CASE UNCHANGED ht
  BY <1>1, <1>5, <1>6, <1>7, NothingMoves
<1>8. CASE delegation_map[e][k] = e /\ ht' = [ht EXCEPT ![e][k] = v]
  <2>1. DelegatesDeliverable'
    BY <1>5 DEF OwnInv, DelegatesDeliverable, Deliverable
  <2>2. OnlyOwnedKeysStored'
    <3>1. ht \in [Host -> [Key -> OptionalValue]]
      BY <1>2 DEF Inv, TypeOK, Hashtable
    <3>2. ASSUME NEW h \in Host, NEW j \in Key, ht'[h][j] # NoValue
          PROVE  delegation_map[h][j] = h
      <4>1. CASE h = e /\ j = k
        BY <1>8, <4>1
      <4>2. CASE ~(h = e /\ j = k)
        <5>1. ht'[h][j] = ht[h][j]
          BY <1>8, <3>1, <4>2
        <5> QED
          BY <3>2, <5>1 DEF OwnInv, OnlyOwnedKeysStored, Domain
      <4> QED
        BY <4>1, <4>2
    <3> QED
      BY <1>1, <3>2 DEF OnlyOwnedKeysStored, Domain
  <2>3. ASSUME NEW j \in Key PROVE Claimed(j)' /\ Leads(j)'
    BY <1>1, <1>5, <1>6 DEF OwnInv, Claimed, Leads, Destinations
  <2>4. StoredValuesFit'
    <3>1. ht \in [Host -> [Key -> OptionalValue]]
      BY <1>2 DEF Inv, TypeOK, Hashtable
    <3>2. \A h \in Host, j \in Key : ht'[h][j] = IF h = e /\ j = k THEN v ELSE ht[h][j]
      BY <1>8, <3>1
    <3> QED
      BY <1>1, <3>2 DEF OwnInv, StoredValuesFit
  <2> QED
    BY <1>5, <1>6, <2>1, <2>2, <2>3, <2>4 DEF OwnInv
<1> QED
  BY <1>1, <1>7, <1>8

\* The keys that arrive were claimed by the message alone.
LEMMA DelegateOwn ==
    ASSUME OwnInv, Inv', NEW e \in Host, NextDelegate(e)
    PROVE  OwnInv' /\ TableKept
<1>1. PICK lo \in KeyIterator, hi \in KeyIterator, h \in Hashtable :
        /\ Takes(e, Delegate(lo, hi, h))
        /\ IF lo < hi /\ ValidHashtable(h) /\ received_packet[e].src \in Host
           THEN /\ delegation_map' = [delegation_map EXCEPT ![e] = SetRange(@, lo, hi, e)]
                /\ ht' = [ht EXCEPT ![e] = BulkUpdate(@, lo, hi, h)]
           ELSE UNCHANGED <<delegation_map, ht>>
        /\ SendsNothing
  BY DEF NextDelegate, Hashtable, OptionalValue
<1> DEFINE b == received_packet[e]
<1>2. /\ Inv
      /\ Buffered(e)
      /\ b.msg.m = Delegate(lo, hi, h)
      /\ received_packet' = [received_packet EXCEPT ![e] = NoPacket]
  BY <1>1 DEF OwnInv, Takes
<1>3. /\ b.msg.m.type = "Delegate"
      /\ b.msg.m.lo = lo
      /\ b.msg.m.hi = hi
      /\ b.msg.m.h = h
  BY <1>2 DEF Delegate
<1>4. /\ b \in net
      /\ b.dst = e
      /\ b.msg.type = "Message"
      /\ b \in Unprocessed
  BY <1>2, InvFacts DEF DeliveryInv, BuffersHold, Buffered, DataPacket, DataMessage, Unprocessed
<1>5. Pending' = Pending \ {b}
  BY <1>1, <1>2, PendingSilent
<1>6. \A k : Delegations(k) = {p \in Pending : Carries(p, k)}
  BY <1>2, DelegationsArePending
<1>7. (\A k : Delegations(k) = {p \in Pending : Carries(p, k)})'
  BY DelegationsArePending, PTL
<1>8. \A k : Delegations(k)' = Delegations(k) \ {b}
  BY <1>5, <1>6, <1>7 DEF Carries
<1>9. \A q \in net' \ net : Deliverable(q)
  BY <1>1 DEF SendsNothing
<1>10. CASE b.src \notin Host
  <2>1. b \notin Pending
    BY <1>10 DEF Pending
  <2>2. Pending' = Pending
    BY <1>5, <2>1
  <2> QED
    BY <1>1, <1>2, <1>9, <1>10, <2>2, PendingKeepsDelegations, NothingMoves
<1>11. CASE b.src \in Host
  <2>1. b \in Pending
    BY <1>4, <1>11 DEF Pending
  <2>2. /\ lo < hi
        /\ ValidHashtable(h)
        /\ \A k \in Domain(h) : Between(lo, k, hi)
    BY <1>3, <1>4, <1>11 DEF OwnInv, DelegatesDeliverable, Deliverable
  <2>3. /\ delegation_map' = [delegation_map EXCEPT ![e] = SetRange(delegation_map[e], lo, hi, e)]
        /\ ht' = [ht EXCEPT ![e] = BulkUpdate(ht[e], lo, hi, h)]
    BY <1>1, <1>11, <2>2
  <2>4. \A j \in Host, k \in Key :
          delegation_map'[j][k] =
              IF j = e /\ Between(lo, k, hi) THEN e ELSE delegation_map[j][k]
    BY <1>2, <2>3 DEF Inv, TypeOK, SetRange
  <2>5. \A j \in Host, k \in Key :
          ht'[j][k] = IF j = e THEN BulkUpdate(ht[e], lo, hi, h)[k] ELSE ht[j][k]
    BY <1>2, <2>3 DEF Inv, TypeOK
  <2>6. DelegatesDeliverable'
    BY <1>9 DEF OwnInv, DelegatesDeliverable, Deliverable
  <2>7. OnlyOwnedKeysStored'
    <3>1. ASSUME NEW j \in Host, NEW k \in Key, ht'[j][k] # NoValue
          PROVE  delegation_map'[j][k] = j
      <4>1. CASE j = e /\ Between(lo, k, hi)
        BY <2>4, <4>1
      <4>2. CASE ~(j = e /\ Between(lo, k, hi))
        <5>1. ht'[j][k] = ht[j][k]
          BY <2>2, <2>5, <4>2 DEF BulkUpdate
        <5>2. delegation_map[j][k] = j
          BY <3>1, <5>1 DEF OwnInv, OnlyOwnedKeysStored, Domain
        <5> QED
          BY <2>4, <4>2, <5>2
      <4> QED
        BY <4>1, <4>2
    <3> QED
      BY <3>1 DEF OnlyOwnedKeysStored, Domain
  <2>8. ASSUME NEW k \in Key PROVE Claimed(k)' /\ Leads(k)' /\ Table(k)' = Table(k)
    <3>1. CASE Between(lo, k, hi)
      <4>1. b \in Delegations(k)
        BY <1>3, <1>6, <2>1, <3>1 DEF Carries
      <4>2. Owners(k) = {} /\ Delegations(k) = {b}
        BY <4>1 DEF OwnInv, Claimed
      <4>3. Owners(k)' = {e}
        BY <2>4, <3>1, <4>2 DEF Owners
      <4>4. ClaimantHasValue /\ ClaimantHasValue'
        BY TableIsClaimed, PTL
      <4>5. Table(k) = h[k] /\ Table(k)' = ht'[e][k]
        BY <1>3, <4>2, <4>3, <4>4 DEF ClaimantHasValue
      <4>6. ht'[e][k] = h[k]
        BY <2>5, <3>1 DEF BulkUpdate, Domain
      <4>7. Delegations(k)' = {}
        BY <1>8, <4>2
      <4>8. Destinations(k) = {e} /\ Destinations(k)' = {e}
        BY <1>4, <4>2, <4>3, <4>7 DEF Destinations
      <4>9. Leads(k)'
        BY <2>4, <3>1, <4>8, RedirectsFollow DEF OwnInv
      <4> QED
        BY <4>2, <4>3, <4>5, <4>6, <4>7, <4>9 DEF Claimed
    <3>2. CASE ~Between(lo, k, hi)
      <4>1. b \notin Delegations(k)
        BY <1>3, <1>6, <3>2 DEF Carries
      <4>2. Owners(k)' = Owners(k)
        BY <2>4, <3>2 DEF Owners
      <4>3. Delegations(k)' = Delegations(k)
        BY <1>8, <4>1
      <4>4. \A j \in Host : ht'[j][k] = ht[j][k]
        BY <2>2, <2>5, <3>2 DEF BulkUpdate
      <4>5. Leads(k)'
        BY <2>4, <3>2, <4>2, <4>3 DEF OwnInv, Leads, Destinations
      <4> QED
        BY <4>2, <4>3, <4>4, <4>5, ClaimStays DEF OwnInv, Owners
    <3> QED
      BY <3>1, <3>2
  <2>9. StoredValuesFit'
    <3>1. \A k \in Domain(h) : h[k] \notin Oversized
      BY <2>2 DEF ValidHashtable
    <3>2. NoValue \notin Oversized
      BY ShtAssumption
    <3>3. \A j \in Host, k \in Key :
            ht'[j][k] \in {ht[j][k], NoValue} \/ (k \in Domain(h) /\ ht'[j][k] = h[k])
      BY <2>5 DEF BulkUpdate
    <3> QED
      BY <3>1, <3>2, <3>3 DEF OwnInv, StoredValuesFit
  <2> QED
    BY <2>6, <2>7, <2>8, <2>9 DEF OwnInv, TableKept
<1> QED
  BY <1>10, <1>11

\* The keys that leave were claimed by the host alone.
LEMMA ShardOwn ==
    ASSUME OwnInv, Inv', NEW e \in Host, NextShard(e)
    PROVE  OwnInv' /\ TableKept
<1>1. PICK lo \in KeyIterator, hi \in KeyIterator, recipient \in EndPoint :
        /\ Takes(e, Shard(lo, hi, recipient))
        /\ \/ /\ CanDelegate(e, lo, hi, recipient)
              /\ CanSend(sd[e], recipient)
              /\ Sends(e, recipient, Delegate(lo, hi, ExtractRange(ht[e], lo, hi)))
              /\ delegation_map' = [delegation_map EXCEPT ![e] = SetRange(@, lo, hi, recipient)]
              /\ ht' = [ht EXCEPT ![e] = BulkRemove(@, lo, hi)]
           \/ SendsNothing /\ UNCHANGED <<delegation_map, ht>>
  BY DEF NextShard
<1> DEFINE b == received_packet[e]
<1>2. /\ Inv
      /\ Buffered(e)
      /\ b.msg.m.type = "Shard"
      /\ received_packet' = [received_packet EXCEPT ![e] = NoPacket]
  BY <1>1 DEF OwnInv, Takes, Shard
<1>3. \A k : ~Carries(b, k)
  BY <1>2 DEF Carries
<1>4. \A k : Delegations(k) = {p \in Pending : Carries(p, k)}
  BY <1>2, DelegationsArePending
<1>5. (\A k : Delegations(k) = {p \in Pending : Carries(p, k)})'
  BY DelegationsArePending, PTL
<1>6. CASE SendsNothing /\ UNCHANGED <<delegation_map, ht>>
  <2>1. Pending' = Pending \ {b}
    BY <1>2, <1>6, PendingSilent
  <2>2. \A k \in Key : Delegations(k)' = Delegations(k)
    BY <1>3, <1>4, <1>5, <2>1 DEF Carries
  <2>3. \A q \in net' \ net : Deliverable(q)
    BY <1>6 DEF SendsNothing
  <2> QED
    BY <1>6, <2>2, <2>3, NothingMoves
<1>7. CASE /\ CanDelegate(e, lo, hi, recipient)
           /\ CanSend(sd[e], recipient)
           /\ Sends(e, recipient, Delegate(lo, hi, ExtractRange(ht[e], lo, hi)))
           /\ delegation_map' = [delegation_map EXCEPT ![e] = SetRange(@, lo, hi, recipient)]
           /\ ht' = [ht EXCEPT ![e] = BulkRemove(@, lo, hi)]
  <2> DEFINE h == ExtractRange(ht[e], lo, hi)
             m == Delegate(lo, hi, h)
             x == Packet(e, recipient, NextMessage(sd[e], recipient, m))
  <2>1. /\ lo < hi
        /\ recipient \in Host
        /\ recipient # e
        /\ \A k \in Key : Between(lo, k, hi) => delegation_map[e][k] = e
        /\ FewEnough(h)
    BY <1>7 DEF CanDelegate, DelegateForRangeIs
  <2>2. h \in Hashtable
    BY <1>2, TableTypes DEF Inv, TypeOK
  <2>3. m \in CMessage
    BY <2>2 DEF Delegate, CMessage
  <2>4. /\ x.src = e
        /\ x.dst = recipient
        /\ x.msg.m.type = "Delegate"
        /\ x.msg.m.lo = lo
        /\ x.msg.m.hi = hi
        /\ x.msg.m.h = h
    BY DEF Packet, NextMessage, Message, Delegate
  <2>5. net' = net \cup {x}
    BY <1>7 DEF Sends
  <2>6. Pending' = (Pending \ {b}) \cup {x}
    <3> HIDE DEF m
    <3>1. CanSend(sd[e], recipient) /\ Sends(e, recipient, m)
      BY <1>7 DEF m
    <3>2. Pending' = (Pending \ {b}) \cup {q \in {x} : recipient \in Host}
      BY <1>2, <2>3, <3>1, PendingSend
    <3> QED
      BY <2>1, <3>2
  <2>7. Deliverable(x)
    <3>1. \A k \in Domain(h) : Between(lo, k, hi) /\ h[k] = ht[e][k]
      BY DEF Domain, ExtractRange
    <3>2. ValidHashtable(h)
      BY <2>1, <3>1 DEF ValidHashtable, OwnInv, StoredValuesFit, Domain
    <3> QED
      BY <2>1, <2>4, <3>1, <3>2 DEF Deliverable
  <2> HIDE DEF x, m
  <2>8. DelegatesDeliverable'
    <3>1. ASSUME NEW p \in net' PROVE Deliverable(p)
      BY <2>5, <2>7 DEF OwnInv, DelegatesDeliverable
    <3> QED
      BY <3>1 DEF DelegatesDeliverable, Deliverable
  <2>9. \A j \in Host, k \in Key :
          delegation_map'[j][k] =
              IF j = e /\ Between(lo, k, hi) THEN recipient ELSE delegation_map[j][k]
    BY <1>2, <1>7 DEF Inv, TypeOK, SetRange
  <2>10. \A j \in Host, k \in Key :
          ht'[j][k] = IF j = e /\ Between(lo, k, hi) THEN NoValue ELSE ht[j][k]
    BY <1>2, <1>7 DEF Inv, TypeOK, BulkRemove
  <2>11. OnlyOwnedKeysStored'
    <3>1. ASSUME NEW j \in Host, NEW k \in Key, ht'[j][k] # NoValue
          PROVE  delegation_map'[j][k] = j
      BY <2>9, <2>10, <3>1 DEF OwnInv, OnlyOwnedKeysStored, Domain
    <3> QED
      BY <3>1 DEF OnlyOwnedKeysStored, Domain
  <2>12. \A k : Delegations(k)' =
            Delegations(k) \cup {q \in {x} : Between(lo, k, hi)}
    BY <1>3, <1>4, <1>5, <2>4, <2>6 DEF Carries
  <2>13. ASSUME NEW k \in Key PROVE Claimed(k)' /\ Leads(k)' /\ Table(k)' = Table(k)
    <3>1. CASE Between(lo, k, hi)
      <4>1. e \in Owners(k)
        BY <2>1, <3>1 DEF Owners
      <4>2. Owners(k) = {e} /\ Delegations(k) = {}
        BY <4>1 DEF OwnInv, Claimed
      <4>3. Owners(k)' = {}
        BY <2>1, <2>9, <3>1, <4>2 DEF Owners
      <4>4. Delegations(k)' = {x}
        BY <2>12, <3>1, <4>2
      <4>5. ClaimantHasValue /\ ClaimantHasValue'
        BY TableIsClaimed, PTL
      <4>6. Table(k) = ht[e][k] /\ Table(k)' = x.msg.m.h[k]
        BY <4>2, <4>3, <4>4, <4>5 DEF ClaimantHasValue
      <4>7. x.msg.m.h[k] = ht[e][k]
        BY <2>4, <3>1 DEF ExtractRange
      <4>8. Destinations(k) = {e} /\ Destinations(k)' = {recipient}
        BY <2>4, <4>2, <4>3, <4>4 DEF Destinations
      <4>9. Leads(k)'
        BY <2>1, <2>9, <3>1, <4>8, RedirectsFollow DEF OwnInv
      <4> QED
        BY <4>3, <4>4, <4>6, <4>7, <4>9 DEF Claimed
    <3>2. CASE ~Between(lo, k, hi)
      <4>1. Owners(k)' = Owners(k)
        BY <2>9, <3>2 DEF Owners
      <4>2. Delegations(k)' = Delegations(k)
        BY <2>12, <3>2
      <4>3. \A j \in Host : ht'[j][k] = ht[j][k]
        BY <2>10, <3>2
      <4>4. Leads(k)'
        BY <2>9, <3>2, <4>1, <4>2 DEF OwnInv, Leads, Destinations
      <4> QED
        BY <4>1, <4>2, <4>3, <4>4, ClaimStays DEF OwnInv, Owners
    <3> QED
      BY <3>1, <3>2
  <2>14. StoredValuesFit'
    BY <2>10, ShtAssumption DEF OwnInv, StoredValuesFit
  <2> QED
    BY <2>8, <2>11, <2>13, <2>14 DEF OwnInv, TableKept
<1> QED
  BY <1>1, <1>6, <1>7

LEMMA ReplyOrRedirectOwn ==
    ASSUME OwnInv, Inv', NEW e \in Host, NextReplyOrRedirect(e)
    PROVE  OwnInv' /\ TableKept
<1> DEFINE b == received_packet[e]
<1>1. /\ Inv
      /\ Buffered(e)
      /\ b.msg.m.type # "Delegate"
      /\ received_packet' = [received_packet EXCEPT ![e] = NoPacket]
      /\ SendsNothing
      /\ UNCHANGED <<delegation_map, ht>>
  BY DEF OwnInv, NextReplyOrRedirect, Takes
<1>2. b.src \in EndPoint /\ b.msg.m \in CMessage
  BY <1>1, BufferTypes DEF Inv
<1> QED
  BY <1>1, <1>2, AnswersMoveNothing, NothingMoves

LEMMA QuietOwn ==
    ASSUME OwnInv, Inv', UNCHANGED <<sd, received_packet, delegation_map, ht>>,
           net \subseteq net', \A q \in net' \ net : q.src \in Client
    PROVE  OwnInv' /\ TableKept
<1>1. Inv
  BY DEF OwnInv
<1>2. Pending' = Pending
  BY <1>1, PendingQuiet
<1>3. \A q \in net' \ net : Deliverable(q)
  BY <1>1, InvFacts DEF Deliverable
<1> QED
  BY <1>1, <1>2, <1>3, PendingKeepsDelegations, NothingMoves

LEMMA ReceiveOwn ==
    ASSUME OwnInv, Inv', NEW e \in Host, NEW p \in net, ReceivePacket(e, p)
    PROVE  OwnInv' /\ TableKept
<1>1. Inv
  BY DEF OwnInv
<1>2. Pending' = Pending
  BY <1>1, PendingReceive
<1>3. \A q \in net' \ net : Deliverable(q)
  <2>1. net' = net \cup MaybeAck(sd'[e], p)
    BY DEF ReceivePacket
  <2>2. \A q \in MaybeAck(sd'[e], p) : q.msg.type = "Ack"
    BY DEF MaybeAck, Packet, Ack
  <2> QED
    BY <2>1, <2>2 DEF Deliverable
<1> QED
  BY <1>1, <1>2, <1>3, PendingKeepsDelegations, NothingMoves DEF ReceivePacket

LEMMA NextOwn == OwnInv /\ [Next]_vars => OwnInv'
<1> SUFFICES ASSUME OwnInv, [Next]_vars PROVE OwnInv'
  OBVIOUS
<1>0. Inv /\ Inv'
  BY NextInv DEF OwnInv
<1>1. ASSUME NEW c \in Client, NEW h \in Host, NEW m \in Request[h], ClientRequest(c, h, m)
      PROVE  OwnInv'
  BY <1>0, <1>1, QuietOwn DEF ClientRequest, Packet
<1>2. ASSUME NEW c \in Acking, NEW p \in net, ClientAck(c, p)
      PROVE  OwnInv'
  BY <1>0, <1>2, QuietOwn, ShtAssumption DEF ClientAck, Packet
<1>3. ASSUME NEW e \in Host, HostNext(e)
      PROVE  OwnInv'
  <2>1. CASE \E p \in net : ReceivePacket(e, p)
    BY <1>0, <2>1, ReceiveOwn
  <2>2. CASE ProcessReceivedPacket(e)
    <3>1. CASE Halts(e)
      BY <1>0, <3>1, QuietOwn DEF Halts
    <3> QED
      BY <1>0, <2>2, <3>1, GetRequestOwn, SetRequestOwn, DelegateOwn, ShardOwn, ReplyOrRedirectOwn
         DEF ProcessReceivedPacket
  <2>3. CASE RetransmitUnAckedPackets(e)
    BY <1>0, <2>3, RetransmitsNothingNew, QuietOwn DEF RetransmitUnAckedPackets
  <2> QED
    BY <1>3, <2>1, <2>2, <2>3 DEF HostNext
<1>4. CASE UNCHANGED vars
  BY <1>0, <1>4, QuietOwn DEF vars
<1> QED
  BY <1>1, <1>2, <1>3, <1>4 DEF Next

LEMMA InitOwn == Init => OwnInv
<1> SUFFICES ASSUME Init PROVE OwnInv
  OBVIOUS
<1>1. Inv
  BY InitInv
<1>2. DelegatesDeliverable /\ OnlyOwnedKeysStored /\ StoredValuesFit
  BY ShtAssumption
     DEF Init, DelegatesDeliverable, OnlyOwnedKeysStored, StoredValuesFit, Domain, EmptyTable
<1>3. ASSUME NEW k \in Key PROVE Claimed(k) /\ Leads(k)
  <2>1. Owners(k) = {Root}
    BY ShtAssumption DEF Init, Owners
  <2>2. Delegations(k) = {}
    <3>1. Delegations(k) = {p \in Pending : Carries(p, k)}
      BY <1>1, DelegationsArePending
    <3> QED
      BY <3>1 DEF Init, Pending, Unaccepted, Unprocessed
  <2>3. Leads(k)
    BY <2>1, ShtAssumption DEF Init, Leads, Destinations
  <2> QED
    BY <2>1, <2>2, <2>3, ShtAssumption DEF Claimed
<1> QED
  BY <1>1, <1>2, <1>3 DEF OwnInv

LEMMA OwnInvariant == Spec => []OwnInv
  BY InitOwn, NextOwn, PTL DEF Spec

\* However many hosts there are, and whatever clients ask for: every key has
\* exactly one owner, or is in exactly one Delegate message that its
\* recipient will accept.
THEOREM KeysAreClaimedOnce == Spec => []EachKeyClaimedOnce
<1>1. OwnInv => EachKeyClaimedOnce
  <2> SUFFICES ASSUME OwnInv, NEW k \in Key
               PROVE  Cardinality(Owners(k)) + Cardinality(Delegations(k)) = 1
    BY DEF EachKeyClaimedOnce
  <2>1. \A x : Cardinality({x}) = 1
    BY FS_Singleton
  <2>2. Cardinality({}) = 0
    BY FS_EmptySet
  <2>3. Claimed(k)
    BY DEF OwnInv
  <2>4. CASE \E h \in Host : Owners(k) = {h} /\ Delegations(k) = {}
    <3>1. Cardinality(Owners(k)) = 1 /\ Cardinality(Delegations(k)) = 0
      BY <2>1, <2>2, <2>4
    <3> QED
      BY <3>1
  <2>5. CASE \E p : Owners(k) = {} /\ Delegations(k) = {p}
    <3>1. Cardinality(Owners(k)) = 0 /\ Cardinality(Delegations(k)) = 1
      BY <2>1, <2>2, <2>5
    <3> QED
      BY <3>1
  <2> QED
    BY <2>3, <2>4, <2>5 DEF Claimed
<1> QED
  BY <1>1, OwnInvariant, PTL

\* Whichever host a client asks first, the redirects it follows lead it to the
\* owner of the key, or to the host that the key is on its way to.
THEOREM RedirectsLead == Spec => []RedirectsLeadToKey
<1>1. ASSUME OwnInv, NEW e \in Host, NEW k \in Key
      PROVE  Destinations(k) \cap Visited(e, k) # {}
  <2>1. \A h \in Host : delegation_map[h][k] \in Host
    BY <1>1 DEF OwnInv, Inv, TypeOK
  <2>2. e \in Visited(e, k) /\ Visited(e, k) \in SUBSET Host
    BY DEF Visited
  <2>3. ASSUME NEW h \in Visited(e, k)
        PROVE  delegation_map[h][k] \in Visited(e, k)
    BY <2>1 DEF Visited
  <2> HIDE DEF Visited
  <2> QED
    BY <1>1, <2>2, <2>3 DEF OwnInv, Leads
<1>2. OwnInv => RedirectsLeadToKey
  BY <1>1 DEF RedirectsLeadToKey, Destinations
<1> QED
  BY <1>2, OwnInvariant, PTL

\* A host stores the values of no keys but its own, so that a range that
\* comes back to it brings its own values.
THEOREM StoredKeysAreOwned == Spec => []OnlyOwnedKeysStored
<1>1. OwnInv => OnlyOwnedKeysStored
  BY DEF OwnInv
<1> QED
  BY <1>1, OwnInvariant, PTL
=============================================================================
