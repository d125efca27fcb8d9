------------------------------ MODULE HostLoop ------------------------------
(***************************************************************************)
(* The main loop of a host (sht_main, real_next_impl) around the delivery  *)
(* layer: each pass takes the three steps receive, process and resend in   *)
(* turn, and only every ResendPeriod-th resend step retransmits. Delivery  *)
(* lets its actions happen in any order; here they happen when the         *)
(* scheduler reaches them, which is what liveness rests on.                *)
(***************************************************************************)
EXTENDS Delivery

CONSTANTS
    ResendPeriod,   \* 100,000,000 in the code
    Sender,         \* the endpoints whose handlers send messages
    Refused         \* the messages no handler will take (see ShouldProcess)

ASSUME ResendPeriodAssumption == ResendPeriod \in Nat \ {0}

VARIABLES
    next_action_index,  \* 0: receive, 1: process, 2: resend
    resend_count,
    ok                  \* ok[e]: the loop of e goes on

schedulerVars == <<next_action_index, resend_count, ok>>
loopVars == <<vars, schedulerVars>>

LoopInit ==
    /\ Init
    /\ next_action_index = [e \in EndPoint |-> 0]
    /\ resend_count = [e \in EndPoint |-> 0]
    /\ ok = [e \in EndPoint |-> TRUE]

At(e, i) == ok[e] /\ next_action_index[e] = i

(***************************************************************************)
(* How a step ends: the loop goes on to the next one, or the step returns  *)
(* an error and the loop ends for good. What the step has changed by then  *)
(* stays changed. A step that sends the packets out may fail at the first  *)
(* of them or later; the rest is not sent, which looks like a loss.        *)
(***************************************************************************)
Continue(e) ==
    /\ next_action_index' = [next_action_index EXCEPT ![e] = (@ + 1) % 3]
    /\ UNCHANGED ok

Stop(e) ==
    /\ ok' = [ok EXCEPT ![e] = FALSE]
    /\ UNCHANGED next_action_index

Send(e, out) == Continue(e) \/ (out # {} /\ Stop(e))

\* The receive step takes one packet off the network.
Receive(e, p) ==
    /\ At(e, 0)
    /\ \/ ReceivePacket(e, p) /\ Send(e, MaybeAck(sd'[e], p))
       \/ DropPacket(e, p) /\ Continue(e)
    /\ UNCHANGED resend_count

\* The receive step times out, gets bytes it cannot parse, or fails.
ReceiveNothing(e) ==
    /\ At(e, 0)
    /\ Continue(e) \/ Stop(e)
    /\ UNCHANGED <<vars, resend_count>>

\* A host that has no delegations left refuses the Delegate and Shard messages
\* (should_process_received_message_impl): such a message stays in the buffer.
ShouldProcess(e) ==
    received_packet[e] # None => received_packet[e].msg.m \notin Refused

\* A handler sends a message.
ProcessSends(e) ==
    /\ e \in Sender
    /\ \E d \in EndPoint \ {e}, m \in Payload :
          ProcessAndSend(e, d, m) /\ Send(e, {NextMessage(sd[e], d, m)})

\* Bug: a packet that is not answered stays in the buffer.
ProcessLater(e) ==
    /\ At(e, 1)
    /\ ProcessSends(e) \/ (UNCHANGED vars /\ Continue(e))
    /\ UNCHANGED resend_count

\* Bug: a message that is refused is thrown away.
ProcessDiscards(e) ==
    /\ At(e, 1)
    /\ \/ ProcessPacket(e) /\ Continue(e)
       \/ ProcessSends(e)
       \/ received_packet[e] = None /\ UNCHANGED vars /\ Continue(e)
    /\ UNCHANGED resend_count

Process(e) ==
    /\ At(e, 1)
    /\ \/ ShouldProcess(e) /\ ProcessPacket(e) /\ Continue(e)
       \/ ShouldProcess(e) /\ ProcessSends(e)
       \/ /\ received_packet[e] = None \/ ~ShouldProcess(e)
          /\ UNCHANGED vars
          /\ Continue(e)
    /\ UNCHANGED resend_count

Resend(e) ==
    /\ At(e, 2)
    /\ resend_count' = [resend_count EXCEPT ![e] = (@ + 1) % ResendPeriod]
    /\ \/ /\ resend_count'[e] = 0
          /\ RetransmitUnAckedPackets(e)
          /\ Send(e, UnAckedPackets(sd[e], e))
       \/ /\ resend_count'[e] # 0
          /\ UNCHANGED vars
          /\ Continue(e)

HostNext(e) ==
    \/ \E p \in net : Receive(e, p)
    \/ ReceiveNothing(e)
    \/ Process(e)
    \/ Resend(e)

LoopNext == \E e \in EndPoint : HostNext(e)

LoopSpec == LoopInit /\ [][LoopNext]_loopVars

(***************************************************************************)
(* Fairness. The loop of sht_main goes on until a step fails. The          *)
(* network may lose any packet, but not the same packet for ever: one that *)
(* is sent again and again gets through, and one that is in flight is not  *)
(* passed over for ever by the receive steps of its destination.           *)
(***************************************************************************)
Link == {l \in Sender \X EndPoint : l[1] # l[2]}

PossibleMessages ==
    {Packet(l[1], l[2], Message(n, l[2], m)) : l \in Link, n \in 1 .. MaxSeqno, m \in Payload}

PossibleAcks == {Packet(l[2], l[1], Ack(n)) : l \in Link, n \in 1 .. MaxSeqno}

LoopRuns == \A e \in EndPoint : WF_loopVars(HostNext(e))

ResendGetsThrough ==
    \A p \in PossibleMessages : SF_loopVars(Resend(p.src) /\ p \in net')

ReceiveGetsThrough ==
    \A p \in PossibleMessages \cup PossibleAcks :
        SF_loopVars(Receive(p.dst, p) /\ MaybeAck(sd'[p.dst], p) \subseteq net')

FairLoopSpec == LoopSpec /\ LoopRuns /\ ResendGetsThrough /\ ReceiveGetsThrough
-----------------------------------------------------------------------------
\* The round robin of the loop processes between two receives: a receive step
\* finds the buffer full only if it holds a message that is refused, so that
\* no acknowledgment is dropped by a host whose handlers consume every message
\* (real_next_impl).
BufferEmptyAtReceive ==
    \A e \in EndPoint :
        At(e, 0) /\ ShouldProcess(e) => received_packet[e] = None

\* Once an endpoint has accepted a message it refuses to process, it takes in
\* nothing more from anyone, not even acknowledgments: whoever sends to it
\* retransmits for ever (process_received_packet_next_impl leaves
\* received_packet as it is, host_model_receive_packet drops what follows).
Stuck(e) ==
    \E s \in EndPoint :
        delivered[s][e] # <<>> /\ delivered[s][e][Len(delivered[s][e])] \in Refused

RefusedIsForever ==
    [][\A e \in EndPoint :
          Stuck(e) => \A o \in EndPoint : /\ delivered'[o][e] = delivered[o][e]
                                         /\ Acked(e, o)' = Acked(e, o)]_loopVars

\* Every message sent is eventually delivered, whatever is lost on the way,
\* unless one of the two loops ends or the receiver refuses a message.
EventuallyDelivered ==
    \A l \in Link, n \in 1 .. MaxSeqno :
        (Len(sent[l[1]][l[2]]) >= n) ~>
            \/ Len(delivered[l[1]][l[2]]) >= n
            \/ Stuck(l[2])
            \/ ~ok[l[1]] \/ ~ok[l[2]]

\* Every message sent is eventually acknowledged, so that retransmission
\* ends, unless one of the two stops or refuses a message.
EventuallyAcknowledged ==
    \A l \in Link, n \in 1 .. MaxSeqno :
        (Len(sent[l[1]][l[2]]) >= n) ~>
            \/ Acked(l[1], l[2]) >= n
            \/ Stuck(l[1]) \/ Stuck(l[2])
            \/ ~ok[l[1]] \/ ~ok[l[2]]
=============================================================================
