------------------------------ MODULE Delivery ------------------------------
(***************************************************************************)
(* Endpoints that run the delivery layer of SingleDelivery over a network  *)
(* that loses, duplicates, delays and reorders packets. An endpoint is the *)
(* part of a host (host_impl_v.rs) that every message goes through: the    *)
(* delivery state, the one-packet buffer received_packet between the       *)
(* receive step and the processing step, and the handler's right to send   *)
(* one message when it processes the buffered one. What the handlers       *)
(* decide is left open: here they consume a message and may send any.      *)
(*                                                                         *)
(* sent and delivered are history variables: no action reads them.         *)
(***************************************************************************)
EXTENDS SingleDelivery, FiniteSets

CONSTANTS
    Payload,    \* the application's messages
    None        \* an empty packet buffer

VARIABLES
    sd,                 \* sd[e]: the delivery state of endpoint e
    received_packet,    \* received_packet[e]: the buffered packet, or None
    net,                \* the packets in flight
    sent,               \* sent[s][d]: every message s sent to d
    delivered           \* delivered[s][d]: every message of s that d accepted

vars == <<sd, received_packet, net, sent, delivered>>

(***************************************************************************)
(* Types.                                                                  *)
(***************************************************************************)
Seqno == 0 .. MaxSeqno

DataMessage == [type : {"Message"}, seqno : Seqno, dst : EndPoint, m : Payload]
AckMessage == [type : {"Ack"}, ack_seqno : Seqno]
DataPacket == [src : EndPoint, dst : EndPoint, msg : DataMessage]
AckPacket == [src : EndPoint, dst : EndPoint, msg : AckMessage]
Packets == DataPacket \cup AckPacket

AckState == [num_packets_acked : Seqno, un_acked : Seq(DataMessage)]
SingleDeliveryState ==
    [receive_state : [EndPoint -> Seqno], send_state : [EndPoint -> AckState]]

ASSUME NoneAssumption == None \notin DataPacket

(***************************************************************************)
(* The network. A step takes the packets in off the network and sends the  *)
(* packets out: some of in may arrive again, some of out are lost.         *)
(***************************************************************************)
Transmit(in, out) ==
    \E again \in SUBSET in, kept \in SUBSET out :
        net' = (net \ in) \cup again \cup kept

Init ==
    /\ sd = [e \in EndPoint |-> EmptySingleDelivery]
    /\ received_packet = [e \in EndPoint |-> None]
    /\ net = {}
    /\ sent = [s \in EndPoint |-> [d \in EndPoint |-> <<>>]]
    /\ delivered = [s \in EndPoint |-> [d \in EndPoint |-> <<>>]]

\* The receive step with an empty buffer: the delivery layer sees the packet,
\* a fresh message is buffered, and fresh and duplicate ones are acknowledged.
ReceivePacket(e, p) ==
    /\ p \in net
    /\ p.dst = e
    /\ received_packet[e] = None
    /\ sd' = [sd EXCEPT ![e] = ReceiveSingleMessage(@, p)]
    /\ Transmit({p}, MaybeAck(sd'[e], p))
    /\ IF NewSingleMessage(sd[e], p)
       THEN /\ received_packet' = [received_packet EXCEPT ![e] = p]
            /\ delivered' = [delivered EXCEPT ![p.src][e] = Append(@, p.msg.m)]
       ELSE UNCHANGED <<received_packet, delivered>>
    /\ UNCHANGED sent

\* The receive step with a full buffer drops the packet, acknowledgments too.
DropPacket(e, p) ==
    /\ p \in net
    /\ p.dst = e
    /\ received_packet[e] # None
    /\ Transmit({p}, {})
    /\ UNCHANGED <<sd, received_packet, sent, delivered>>

\* The processing step of a handler that sends nothing.
ProcessPacket(e) ==
    /\ received_packet[e] # None
    /\ received_packet' = [received_packet EXCEPT ![e] = None]
    /\ UNCHANGED <<sd, net, sent, delivered>>

\* The processing step of a handler that sends m to d. The request processed
\* may be one of a client, which is not an endpoint here: the buffer may be
\* empty.
ProcessAndSend(e, d, m) ==
    /\ CanSend(sd[e], d)
    /\ sd' = [sd EXCEPT ![e] = SendSingleMessage(@, d, m)]
    /\ Transmit({}, {Packet(e, d, NextMessage(sd[e], d, m))})
    /\ received_packet' = [received_packet EXCEPT ![e] = None]
    /\ sent' = [sent EXCEPT ![e][d] = Append(@, m)]
    /\ UNCHANGED delivered

RetransmitUnAckedPackets(e) ==
    /\ Transmit({}, UnAckedPackets(sd[e], e))
    /\ UNCHANGED <<sd, received_packet, sent, delivered>>

Next ==
    \E e \in EndPoint :
        \/ \E p \in net : ReceivePacket(e, p) \/ DropPacket(e, p)
        \/ ProcessPacket(e)
        \/ \E d \in EndPoint \ {e}, m \in Payload : ProcessAndSend(e, d, m)
        \/ RetransmitUnAckedPackets(e)

Spec == Init /\ [][Next]_vars
-----------------------------------------------------------------------------
\* Every variable keeps its type; sequence numbers stay below the limit of
\* the code's u64 counters.
TypeOK ==
    /\ sd \in [EndPoint -> SingleDeliveryState]
    /\ received_packet \in [EndPoint -> DataPacket \cup {None}]
    /\ net \subseteq Packets
    /\ sent \in [EndPoint -> [EndPoint -> Seq(Payload)]]
    /\ delivered \in [EndPoint -> [EndPoint -> Seq(Payload)]]

Acked(s, d) == sd[s].send_state[d].num_packets_acked
UnAcked(s, d) == sd[s].send_state[d].un_acked
Tombstone(s, d) == sd[d].receive_state[s]

\* The sender's and the receiver's counters agree: a message is dropped from
\* un_acked only after its receiver accepted it (truncate, receive_ack_impl),
\* and nothing is accepted that was not sent. A duplicated, reordered or stale
\* acknowledgment must not break this.
AckedWereAccepted ==
    \A s, d \in EndPoint :
        /\ Acked(s, d) <= Tombstone(s, d)
        /\ Tombstone(s, d) <= LastSent(sd[s], d)

\* Whatever was sent and not yet accepted can still be retransmitted: it is
\* in un_acked, under the sequence number the receiver waits for, with the
\* payload the application gave (send_single_cmessage, truncate).
UndeliveredIsRetransmittable ==
    \A s, d \in EndPoint :
        \A n \in Tombstone(s, d) + 1 .. Len(sent[s][d]) :
            \E i \in DOMAIN UnAcked(s, d) :
                UnAcked(s, d)[i] = Message(n, d, sent[s][d][n])

\* The delivery layer implements exactly-once in-order channels.
Fifo == INSTANCE FifoChannel
FifoSpec == Fifo!Spec

\* An endpoint never acknowledges more than it accepted: an acknowledgment
\* says "I have received everything up to and including seqno"
\* (single_message_t.rs), and no message with a sequence number in its range
\* is still to be accepted.
AcksAreTrue ==
    \A p \in net : p.msg.type = "Ack" => p.msg.ack_seqno <= Tombstone(p.dst, p.src)

\* A sequence number names one message for ever: a packet of the past that is
\* still in flight carries what was sent under its number, so that accepting
\* it late is harmless.
SeqnoNamesOneMessage ==
    \A p \in net :
        p.msg.type = "Message" =>
            /\ p.msg.seqno \in DOMAIN sent[p.src][p.dst]
            /\ p.msg.m = sent[p.src][p.dst][p.msg.seqno]

\* What is left unacknowledged is the end of what was sent, numbered from
\* num_packets_acked + 1 on, all of it addressed to its destination
\* (CAckState::valid).
UnAckedIsSuffix ==
    \A s, d \in EndPoint :
        /\ Len(sent[s][d]) = LastSent(sd[s], d)
        /\ \A i \in 1 .. Len(UnAcked(s, d)) :
              UnAcked(s, d)[i] = Message(Acked(s, d) + i, d, sent[s][d][Acked(s, d) + i])

\* What was accepted is the beginning of what was sent, up to the tombstone.
DeliveredIsPrefix ==
    \A s, d \in EndPoint :
        /\ Len(delivered[s][d]) = Tombstone(s, d)
        /\ \A n \in 1 .. Tombstone(s, d) : delivered[s][d][n] = sent[s][d][n]

\* The inductive invariant: the parts hold together, none of them alone.
IInv ==
    /\ TypeOK
    /\ AckedWereAccepted
    /\ UnAckedIsSuffix
    /\ DeliveredIsPrefix
    /\ AcksAreTrue
    /\ SeqnoNamesOneMessage
=============================================================================
