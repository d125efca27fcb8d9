--------------------------- MODULE SingleDelivery ---------------------------
(***************************************************************************)
(* The exactly-once delivery layer every host runs (CSingleDelivery in     *)
(* single_delivery_model_v.rs and single_delivery_state_v.rs), as          *)
(* operators on one host's state                                           *)
(*                                                                         *)
(*   receive_state[e]  the tombstone: the last sequence number accepted    *)
(*                     from endpoint e                                     *)
(*   send_state[e]     num_packets_acked and the list un_acked of the      *)
(*                     messages sent to e that e has not acknowledged      *)
(*                                                                         *)
(* An endpoint absent from a hash map of the code reads as 0, or as the    *)
(* empty acknowledgment state: both maps are total functions here.         *)
(***************************************************************************)
EXTENDS Naturals, Sequences

CONSTANTS
    EndPoint,   \* network addresses
    MaxSeqno    \* the largest sequence number, 2^64 - 1 in the code

ASSUME MaxSeqnoAssumption == MaxSeqno \in Nat

(***************************************************************************)
(* Wire format: CSingleMessage inside CPacket.                             *)
(***************************************************************************)
Message(seqno, dst, m) ==
    [type |-> "Message", seqno |-> seqno, dst |-> dst, m |-> m]

Ack(seqno) == [type |-> "Ack", ack_seqno |-> seqno]

Packet(src, dst, msg) == [src |-> src, dst |-> dst, msg |-> msg]

(***************************************************************************)
(* State.                                                                  *)
(***************************************************************************)
NewAckState == [num_packets_acked |-> 0, un_acked |-> <<>>]

EmptySingleDelivery ==
    [receive_state |-> [e \in EndPoint |-> 0],
     send_state    |-> [e \in EndPoint |-> NewAckState]]

\* The sequence number of the last message sent to dst.
LastSent(sd, dst) ==
    sd.send_state[dst].num_packets_acked + Len(sd.send_state[dst].un_acked)

PutAckState(sd, dst, ackState) ==
    [sd EXCEPT !.send_state[dst] = ackState]

(***************************************************************************)
(* Receiving. Some definitions have a variant with a bug beside them, which *)
(* no action uses: the properties are shown to tell the two apart.         *)
(***************************************************************************)
\* How many messages at the front of un_acked the scan of truncate skips: it
\* stops at the first one numbered above seqno.
Covered(un_acked, seqno) ==
    CHOOSE i \in 0 .. Len(un_acked) :
        /\ \A j \in 1 .. i : un_acked[j].seqno <= seqno
        /\ i < Len(un_acked) => un_acked[i + 1].seqno > seqno

\* Bug: one message too many is dropped.
TruncateTooMuch(ackState, seqno) ==
    [num_packets_acked |-> seqno,
     un_acked |-> SubSeq(ackState.un_acked,
                         Covered(ackState.un_acked, seqno) + 2,
                         Len(ackState.un_acked))]

Truncate(ackState, seqno) ==
    [num_packets_acked |-> seqno,
     un_acked |-> SubSeq(ackState.un_acked,
                         Covered(ackState.un_acked, seqno) + 1,
                         Len(ackState.un_acked))]

\* Bug: an acknowledgment of the past is not ignored.
ReceiveStaleAck(sd, pkt) ==
    PutAckState(sd, pkt.src, Truncate(sd.send_state[pkt.src], pkt.msg.ack_seqno))

\* A cumulative acknowledgment; one that covers nothing new is ignored.
ReceiveAck(sd, pkt) ==
    IF pkt.msg.ack_seqno <= sd.send_state[pkt.src].num_packets_acked
    THEN sd
    ELSE PutAckState(sd, pkt.src, Truncate(sd.send_state[pkt.src], pkt.msg.ack_seqno))

\* Bug: messages of the future are taken for the next one.
SkipsMissingMessages(sd, pkt) ==
    /\ pkt.msg.type = "Message"
    /\ pkt.msg.seqno > sd.receive_state[pkt.src]

\* Bug: duplicates are taken for the next message.
AcceptsDuplicates(sd, pkt) ==
    /\ pkt.msg.type = "Message"
    /\ pkt.msg.seqno > 0
    /\ pkt.msg.seqno - 1 <= sd.receive_state[pkt.src]

\* The next message in order, and no other, is fresh.
NewSingleMessage(sd, pkt) ==
    /\ pkt.msg.type = "Message"
    /\ pkt.msg.seqno > 0
    /\ pkt.msg.seqno - 1 = sd.receive_state[pkt.src]

ReceiveRealPacket(sd, pkt) ==
    IF NewSingleMessage(sd, pkt)
    THEN [sd EXCEPT !.receive_state[pkt.src] = @ + 1]
    ELSE sd

ReceiveSingleMessage(sd, pkt) ==
    IF pkt.msg.type = "Ack" THEN ReceiveAck(sd, pkt) ELSE ReceiveRealPacket(sd, pkt)

\* Bug: what cannot be accepted yet is acknowledged too.
AcksTheFuture(sd, pkt) ==
    IF pkt.msg.type = "Message" THEN {Packet(pkt.dst, pkt.src, Ack(pkt.msg.seqno))} ELSE {}

\* Bug: the last message accepted is not acknowledged.
AcksThePast(sd, pkt) ==
    IF pkt.msg.type = "Message" /\ pkt.msg.seqno < sd.receive_state[pkt.src]
    THEN {Packet(pkt.dst, pkt.src, Ack(pkt.msg.seqno))}
    ELSE {}

\* Fresh messages and duplicates are acknowledged, those of the future are
\* not. sd is the state after the packet was received.
MaybeAck(sd, pkt) ==
    IF pkt.msg.type = "Message" /\ pkt.msg.seqno <= sd.receive_state[pkt.src]
    THEN {Packet(pkt.dst, pkt.src, Ack(pkt.msg.seqno))}
    ELSE {}

(***************************************************************************)
(* Sending.                                                                *)
(***************************************************************************)
\* Bug: the limit is compared with the length of the list alone.
ForgetsAcked(sd, dst) == MaxSeqno # Len(sd.send_state[dst].un_acked)

\* No message is sent once the sequence numbers to dst are used up.
CanSend(sd, dst) ==
    MaxSeqno - sd.send_state[dst].num_packets_acked # Len(sd.send_state[dst].un_acked)

\* Bug: numbers that were acknowledged are used again.
ReusesSeqnos(sd, dst, m) == Message(Len(sd.send_state[dst].un_acked) + 1, dst, m)

NextMessage(sd, dst, m) == Message(LastSent(sd, dst) + 1, dst, m)

SendSingleMessage(sd, dst, m) ==
    PutAckState(sd, dst,
        [sd.send_state[dst] EXCEPT !.un_acked = Append(@, NextMessage(sd, dst, m))])

\* Bug: only the newest message is sent again.
OnlyTheNewest(sd, src) ==
    UNION {{Packet(src, dst, sd.send_state[dst].un_acked[i])
               : i \in DOMAIN sd.send_state[dst].un_acked \cap {Len(sd.send_state[dst].un_acked)}}
             : dst \in EndPoint}

\* What one round of retransmission sends: every message not yet acknowledged.
UnAckedPackets(sd, src) ==
    UNION {{Packet(src, dst, sd.send_state[dst].un_acked[i])
               : i \in DOMAIN sd.send_state[dst].un_acked} : dst \in EndPoint}
=============================================================================
