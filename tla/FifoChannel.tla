---------------------------- MODULE FifoChannel ----------------------------
(***************************************************************************)
(* What the delivery layer promises: between every two endpoints a         *)
(* channel that delivers each message exactly once and in the order in     *)
(* which it was sent. Nothing is said here of packets, acknowledgments or  *)
(* retransmission.                                                         *)
(***************************************************************************)
EXTENDS Naturals, Sequences

CONSTANTS EndPoint, Payload

VARIABLES
    sent,       \* sent[s][d]: all the messages s has sent to d
    delivered   \* delivered[s][d]: all the messages of s that d has accepted

vars == <<sent, delivered>>

Init ==
    /\ sent = [s \in EndPoint |-> [d \in EndPoint |-> <<>>]]
    /\ delivered = [s \in EndPoint |-> [d \in EndPoint |-> <<>>]]

Send(s, d, m) ==
    /\ sent' = [sent EXCEPT ![s][d] = Append(@, m)]
    /\ UNCHANGED delivered

Deliver(s, d) ==
    /\ Len(delivered[s][d]) < Len(sent[s][d])
    /\ delivered' = [delivered EXCEPT ![s][d] = Append(@, sent[s][d][Len(@) + 1])]
    /\ UNCHANGED sent

Next ==
    \E s, d \in EndPoint :
        \/ \E m \in Payload : Send(s, d, m)
        \/ Deliver(s, d)

Spec == Init /\ [][Next]_vars
=============================================================================
