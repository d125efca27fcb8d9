---------------------------- MODULE HostProtocol ----------------------------
(***************************************************************************)
(* What a host may do: the protocol of host_protocol_t.rs and the delivery *)
(* layer of single_delivery_t.rs, which the repository trusts and verifies *)
(* the implementation against. It says which answer is right, not when one *)
(* is given: a host may drop any packet it receives, and leave any request *)
(* it processes without effect.                                            *)
(*                                                                         *)
(* net holds every packet ever sent, as in Sht. A packet that is dropped,  *)
(* a packet that is not a message and a pass of the loop that resends      *)
(* nothing leave everything as it is.                                      *)
(***************************************************************************)
EXTENDS KeyRanges, Sequences, FiniteSets

CONSTANTS
    EndPoint, Host, Root, MaxSeqno, MaxDelegations, MaxTable,
    Value, Oversized, NoValue, NoPacket

VARIABLES
    sd, delegation_map, ht, received_packet, num_delegations, received_requests, net

tableVars == <<delegation_map, ht, num_delegations>>
hostVars == <<sd, tableVars, received_packet, received_requests>>
vars == <<hostVars, net>>

Init ==
    /\ sd = [e \in Host |->
                [receive_state |-> [o \in EndPoint |-> 0],
                 send_state |-> [o \in EndPoint |-> [num_packets_acked |-> 0, un_acked |-> <<>>]]]]
    /\ delegation_map = [e \in Host |-> [k \in Key |-> Root]]
    /\ ht = [e \in Host |-> [k \in Key |-> NoValue]]
    /\ received_packet = [e \in Host |-> NoPacket]
    /\ num_delegations = [e \in Host |-> 1]
    /\ received_requests = [e \in Host |-> <<>>]
    /\ net = {}

(***************************************************************************)
(* The delivery layer.                                                     *)
(***************************************************************************)
AckState(e, o) == sd[e].send_state[o]

SetAckState(e, o, ackState) ==
    sd' = [sd EXCEPT ![e] = [@ EXCEPT !.send_state[o] = ackState]]

\* truncate_un_ack_list drops the first n messages: those up to the first one
\* that is not acknowledged.
TruncatesBy(un_acked, seqno_acked, n) ==
    /\ \A i \in 1 .. n : un_acked[i].seqno <= seqno_acked
    /\ n < Len(un_acked) => un_acked[n + 1].seqno > seqno_acked

ReceiveAck(e, p) ==
    LET old == AckState(e, p.src)
        seqno_acked == p.msg.ack_seqno
    IN  IF seqno_acked > old.num_packets_acked
        THEN \E n \in 0 .. Len(old.un_acked) :
                /\ TruncatesBy(old.un_acked, seqno_acked, n)
                /\ SetAckState(e, p.src,
                       [num_packets_acked |-> seqno_acked,
                        un_acked |-> SubSeq(old.un_acked, n + 1, Len(old.un_acked))])
        ELSE UNCHANGED sd

NewSingleMessage(e, p) ==
    /\ p.msg.type = "Message"
    /\ p.msg.seqno = sd[e].receive_state[p.src] + 1

ReceiveRealPacket(e, p) ==
    IF NewSingleMessage(e, p)
    THEN sd' = [sd EXCEPT ![e] = [@ EXCEPT !.receive_state[p.src] = p.msg.seqno]]
    ELSE UNCHANGED sd

\* The acknowledgment of a message that has been accepted, now or before.
MaybeAckPacket(e, p) ==
    {ack \in {[src |-> p.dst, dst |-> p.src, msg |-> [type |-> "Ack", ack_seqno |-> p.msg.seqno]]} :
        p.msg.seqno <= sd'[e].receive_state[p.src]}

\* A message takes the next sequence number, while there is one.
SendSingleMessage(e, dst, m) ==
    LET old == AckState(e, dst)
        seqno == old.num_packets_acked + Len(old.un_acked) + 1
        sm == [type |-> "Message", seqno |-> seqno, dst |-> dst, m |-> m]
    IN  /\ seqno <= MaxSeqno
        /\ SetAckState(e, dst, [old EXCEPT !.un_acked = Append(@, sm)])
        /\ net' = net \cup {[src |-> e, dst |-> dst, msg |-> sm]}

SeqnosUsedUp(e, dst) ==
    AckState(e, dst).num_packets_acked + Len(AckState(e, dst).un_acked) + 1 > MaxSeqno

UnAckedMessages(e) ==
    UNION {{[src |-> e, dst |-> AckState(e, o).un_acked[i].dst, msg |-> AckState(e, o).un_acked[i]]
               : i \in DOMAIN AckState(e, o).un_acked} : o \in EndPoint}

(***************************************************************************)
(* The steps of a host.                                                    *)
(***************************************************************************)
ReceivePacket(e, p) ==
    /\ p.dst = e
    /\ received_packet[e] = NoPacket
    /\ \/ p.msg.type = "Ack" /\ ReceiveAck(e, p) /\ UNCHANGED net
       \/ /\ p.msg.type = "Message"
          /\ ReceiveRealPacket(e, p)
          /\ net' = net \cup MaybeAckPacket(e, p)
    /\ received_packet' =
         [received_packet EXCEPT ![e] = IF NewSingleMessage(e, p) THEN p ELSE NoPacket]
    /\ UNCHANGED <<tableVars, received_requests>>

Processed(e) == received_packet[e].msg.m

ShouldProcess(e) ==
    /\ received_packet[e] # NoPacket
    /\ Processed(e).type \in {"Delegate", "Shard"} => num_delegations[e] < MaxDelegations - 2

\* Nothing changes but that the message is taken out of the buffer.
NoEffect == UNCHANGED <<sd, tableVars, received_requests, net>>

\* A request for k is answered by its owner, who records it, or by a redirect.
\* The record holds the request's packet and what it was answered.
Replies(e, k, v) ==
    /\ delegation_map[e][k] = e
    /\ SendSingleMessage(e, received_packet[e].src, [type |-> "Reply", k |-> k, v |-> v])
    /\ received_requests' =
         [received_requests EXCEPT ![e] = Append(@, [request |-> received_packet[e], v |-> v])]

Redirects(e, k) ==
    /\ delegation_map[e][k] # e
    /\ SendSingleMessage(e, received_packet[e].src,
           [type |-> "Redirect", k |-> k, id |-> delegation_map[e][k]])
    /\ UNCHANGED received_requests

NextGetRequest(e) ==
    /\ Processed(e).type = "GetRequest"
    /\ \/ /\ \/ Replies(e, Processed(e).k, ht[e][Processed(e).k])
             \/ Redirects(e, Processed(e).k)
          /\ UNCHANGED tableVars
       \/ NoEffect

NextSetRequest(e) ==
    /\ Processed(e).type = "SetRequest"
    /\ \/ /\ Processed(e).v \notin Oversized
          /\ \/ /\ Replies(e, Processed(e).k, Processed(e).v)
                /\ ht' = [ht EXCEPT ![e] = [@ EXCEPT ![Processed(e).k] = Processed(e).v]]
             \/ /\ Redirects(e, Processed(e).k)
                /\ UNCHANGED ht
          /\ UNCHANGED <<delegation_map, num_delegations>>
       \/ NoEffect

\* bulk_update_hashtable
BulkUpdate(table, lo, hi, other) ==
    [k \in Key |->
        IF other[k] # NoValue \/ Between(lo, k, hi) THEN other[k] ELSE table[k]]

NextDelegate(e) ==
    LET m == Processed(e)
    IN  /\ m.type = "Delegate"
        /\ \/ /\ received_packet[e].src \in Host
              /\ delegation_map' = [delegation_map EXCEPT ![e] = SetRange(@, m.lo, m.hi, e)]
              /\ ht' = [ht EXCEPT ![e] = BulkUpdate(@, m.lo, m.hi, m.h)]
              /\ num_delegations' = [num_delegations EXCEPT ![e] = @ + 1]
              /\ UNCHANGED <<sd, received_requests, net>>
           \/ received_packet[e].src \notin Host /\ NoEffect

\* The part of a table that lies in the range of m, and the rest of it.
ExtractRange(table, m) == [k \in Key |-> IF Between(m.lo, k, m.hi) THEN table[k] ELSE NoValue]
BulkRemove(table, m) == [k \in Key |-> IF Between(m.lo, k, m.hi) THEN NoValue ELSE table[k]]
Keyset(table) == {k \in Key : table[k] # NoValue}

MustReject(e, m) ==
    \/ m.recipient = e
    \/ m.hi <= m.lo
    \/ m.recipient \notin Host
    \/ ~DelegateForRangeIs(delegation_map[e], m.lo, m.hi, e)
    \/ Cardinality(Keyset(ExtractRange(ht[e], m))) >= MaxTable

\* A Shard that need not be rejected counts as a delegation, and moves the
\* range to its recipient if the Delegate message can be numbered.
NextShard(e) ==
    LET m == Processed(e)
    IN  /\ m.type = "Shard"
        /\ \/ MustReject(e, m) /\ NoEffect
           \/ /\ ~MustReject(e, m)
              /\ SendSingleMessage(e, m.recipient,
                     [type |-> "Delegate", lo |-> m.lo, hi |-> m.hi, h |-> ExtractRange(ht[e], m)])
              /\ delegation_map' =
                   [delegation_map EXCEPT ![e] = SetRange(@, m.lo, m.hi, m.recipient)]
              /\ ht' = [ht EXCEPT ![e] = BulkRemove(@, m)]
              /\ num_delegations' = [num_delegations EXCEPT ![e] = @ + 1]
              /\ UNCHANGED received_requests
           \/ /\ ~MustReject(e, m)
              /\ SeqnosUsedUp(e, m.recipient)
              /\ num_delegations' = [num_delegations EXCEPT ![e] = @ + 1]
              /\ UNCHANGED <<sd, delegation_map, ht, received_requests, net>>

NextReplyOrRedirect(e) == Processed(e).type \in {"Reply", "Redirect"} /\ NoEffect

\* A Delegate message that no host could have meant: of an empty range, or
\* with more or longer values than it may carry.
IgnoreNonsensicalDelegationPacket(e) ==
    /\ Processed(e).type = "Delegate"
    /\ \/ Processed(e).hi <= Processed(e).lo
       \/ Cardinality(Keyset(Processed(e).h)) >= MaxTable
       \/ \E k \in Key : Processed(e).h[k] \in Oversized
    /\ NoEffect

ProcessReceivedPacket(e) ==
    /\ ShouldProcess(e)
    /\ received_packet' = [received_packet EXCEPT ![e] = NoPacket]
    /\ \/ NextGetRequest(e)
       \/ NextSetRequest(e)
       \/ NextDelegate(e)
       \/ NextShard(e)
       \/ NextReplyOrRedirect(e)
       \/ IgnoreNonsensicalDelegationPacket(e)

SpontaneouslyRetransmit(e) ==
    /\ net' = net \cup UnAckedMessages(e)
    /\ UNCHANGED hostVars

HostNext(e) ==
    \/ \E p \in net : ReceivePacket(e, p)
    \/ ProcessReceivedPacket(e)
    \/ SpontaneouslyRetransmit(e)

\* Nobody else sends in the name of a host.
OthersSend ==
    /\ net \subseteq net'
    /\ \A p \in net' \ net : p.src \notin Host
    /\ UNCHANGED hostVars

Next == OthersSend \/ \E e \in Host : HostNext(e)

Spec == Init /\ [][Next]_vars
=============================================================================
