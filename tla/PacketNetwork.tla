--------------------------- MODULE PacketNetwork ---------------------------
(***************************************************************************)
(* What the I/O framework promises: a packet is received only by the node  *)
(* it was sent to, and at most once. Packets may be lost, and overtake     *)
(* each other.                                                             *)
(***************************************************************************)
EXTENDS SequencesExt

CONSTANTS
    Node,
    Packet  \* records with a field dst

VARIABLES
    sent,
    received    \* received[n]: what n has received, in order

Init == sent = {} /\ received = [n \in Node |-> <<>>]

Send(p) ==
    /\ p \notin sent
    /\ sent' = sent \cup {p}
    /\ UNCHANGED received

Receive(p) ==
    /\ p \in sent \ ToSet(received[p.dst])
    /\ received' = [received EXCEPT ![p.dst] = Append(@, p)]
    /\ UNCHANGED sent

Next == \E p \in Packet : Send(p) \/ Receive(p)

Spec == Init /\ [][Next]_<<sent, received>>
=============================================================================
