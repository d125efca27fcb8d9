-------------------------------- MODULE Sht --------------------------------
(***************************************************************************)
(* The distributed hash table: hosts that serve the keys they own, hand    *)
(* ranges of keys to each other, and redirect clients to the owner of a    *)
(* key they do not own. Every action is a whole step of the main loop of a *)
(* host (host_impl_v.rs) or a message of a client; the messages go through *)
(* the delivery layer of SingleDelivery.                                   *)
(*                                                                         *)
(* net holds every packet ever sent and nothing is taken out of it: a      *)
(* packet may be received late, often, or never. A retransmission or a     *)
(* dropped packet changes nothing here (Delivery has both in detail).      *)
(***************************************************************************)
EXTENDS SingleDelivery, KeyRanges, FiniteSets

CONSTANTS
    Host,           \* host_ids
    Client,         \* the other endpoints
    Acking,         \* the clients whose acknowledgments are not all lost
    Root,           \* root_identity, the first owner of every key
    Value,          \* the values of keys
    Oversized,      \* the values of max_val_len bytes or more
    NoValue,        \* the value of an absent key
    NoPacket,       \* an empty packet buffer
    MaxDelegations, \* max_delegations
    MaxTable,       \* max_hashtable_size, 62 in the code
    Stubbed,        \* the operations of CKeyHashMap that never return
    Request,        \* the messages clients send, for each host
    MaxRequests     \* bound: how many of them

ASSUME ShtAssumption ==
    /\ EndPoint = Host \cup Client
    /\ Host \cap Client = {}
    /\ Acking \subseteq Client
    /\ Root \in Host
    /\ Oversized \subseteq Value
    /\ NoValue \notin Value
    /\ MaxDelegations \in Nat \ {0, 1}
    /\ MaxTable \in Nat
    /\ MaxRequests \in Nat

VARIABLES
    sd,                 \* sd[h]: the delivery state of host h
    delegation_map,     \* delegation_map[h][k]: who owns k, as far as h knows
    ht,                 \* ht[h][k]: the hash table of h
    received_packet,    \* the packet h is to process, or NoPacket
    num_delegations,
    status,             \* "running", or "halted" for ever
    received_requests,  \* ghost in the code: the requests h has executed
    net                 \* every packet ever sent

vars == <<sd, delegation_map, ht, received_packet, num_delegations, status,
          received_requests, net>>

(***************************************************************************)
(* Messages (CMessage). A range of keys is a pair of key iterators.        *)
(***************************************************************************)
GetRequest(k) == [type |-> "GetRequest", k |-> k]
SetRequest(k, v) == [type |-> "SetRequest", k |-> k, v |-> v]
Reply(k, v) == [type |-> "Reply", k |-> k, v |-> v]
Redirect(k, id) == [type |-> "Redirect", k |-> k, id |-> id]
Shard(lo, hi, recipient) == [type |-> "Shard", lo |-> lo, hi |-> hi, recipient |-> recipient]
Delegate(lo, hi, h) == [type |-> "Delegate", lo |-> lo, hi |-> hi, h |-> h]

(***************************************************************************)
(* Hash tables (CKeyHashMap), by what their ensures clauses state. Some    *)
(* definitions have a variant with a bug beside them, which no action      *)
(* uses: the properties are shown to tell the two apart.                   *)
(***************************************************************************)
EmptyTable == [k \in Key |-> NoValue]
Domain(h) == {k \in Key : h[k] # NoValue}
FewEnough(h) == Cardinality(Domain(h)) < MaxTable
ValidHashtable(h) == FewEnough(h) /\ \A k \in Domain(h) : h[k] \notin Oversized

\* Bug: the first key of the range is left out.
ExtractTooLittle(h, lo, hi) == [k \in Key |-> IF lo < k /\ k < hi THEN h[k] ELSE NoValue]

ExtractRange(h, lo, hi) == [k \in Key |-> IF Between(lo, k, hi) THEN h[k] ELSE NoValue]

\* Bug: the last key of the range stays.
RemoveTooLittle(h, lo, hi) == [k \in Key |-> IF lo <= k /\ k + 1 < hi THEN NoValue ELSE h[k]]

BulkRemove(h, lo, hi) == [k \in Key |-> IF Between(lo, k, hi) THEN NoValue ELSE h[k]]
BulkUpdate(h, lo, hi, other) ==
    [k \in Key |->
        IF k \in Domain(other) THEN other[k]
        ELSE IF Between(lo, k, hi) THEN NoValue
        ELSE h[k]]

Init ==
    /\ sd = [h \in Host |-> EmptySingleDelivery]
    /\ delegation_map = [h \in Host |-> [k \in Key |-> Root]]
    /\ ht = [h \in Host |-> EmptyTable]
    /\ received_packet = [h \in Host |-> NoPacket]
    /\ num_delegations = [h \in Host |-> 1]
    /\ status = [h \in Host |-> "running"]
    /\ received_requests = [h \in Host |-> <<>>]
    /\ net = {}

(***************************************************************************)
(* Clients number their requests to a host from 1 on, and acknowledge what *)
(* they receive.                                                           *)
(***************************************************************************)
FromClients == {p \in net : p.src \in Client /\ p.msg.type = "Message"}
Submitted(c, h) == {p \in FromClients : p.src = c /\ p.dst = h}

ClientRequest(c, h, m) ==
    /\ Cardinality(FromClients) < MaxRequests
    /\ LET n == Cardinality(Submitted(c, h)) + 1
       IN  /\ n <= MaxSeqno
           /\ net' = net \cup {Packet(c, h, Message(n, h, m))}
    /\ UNCHANGED <<sd, delegation_map, ht, received_packet, num_delegations, status,
                   received_requests>>

ClientAck(c, p) ==
    /\ p.dst = c
    /\ p.msg.type = "Message"
    /\ net' = net \cup {Packet(c, p.src, Ack(p.msg.seqno))}
    /\ UNCHANGED <<sd, delegation_map, ht, received_packet, num_delegations, status,
                   received_requests>>

(***************************************************************************)
(* The receive step. A full buffer drops the packet.                       *)
(***************************************************************************)
ReceivePacket(e, p) ==
    /\ status[e] = "running"
    /\ p.dst = e
    /\ received_packet[e] = NoPacket
    /\ sd' = [sd EXCEPT ![e] = ReceiveSingleMessage(@, p)]
    /\ net' = net \cup MaybeAck(sd'[e], p)
    /\ received_packet' =
         [received_packet EXCEPT ![e] = IF NewSingleMessage(sd[e], p) THEN p ELSE NoPacket]
    /\ UNCHANGED <<delegation_map, ht, num_delegations, status, received_requests>>

(***************************************************************************)
(* The processing step takes the message m out of the buffer.              *)
(***************************************************************************)
Buffered(e) == status[e] = "running" /\ received_packet[e] # NoPacket

\* Bug: the last two delegations are not kept in reserve.
ProcessesAtLimit(e) ==
    received_packet[e].msg.m.type \in {"Delegate", "Shard"} =>
        num_delegations[e] < MaxDelegations

\* Messages that count against max_delegations wait for ever once it is
\* reached.
ShouldProcess(e) ==
    received_packet[e].msg.m.type \in {"Delegate", "Shard"} =>
        num_delegations[e] + 1 < MaxDelegations - 1

\* What the processing of the buffered message calls of CKeyHashMap, as far
\* as the operations are not plain calls of the standard library.
CallsOf(e) ==
    LET p == received_packet[e]
        m == p.msg.m
        accepted == /\ m.lo < m.hi
                    /\ m.recipient \in Host \ {e}
                    /\ DelegateForRangeIs(delegation_map[e], m.lo, m.hi, e)
    IN  CASE m.type = "SetRequest" ->
               {op \in {"remove"} : /\ m.v = NoValue
                                    /\ delegation_map[e][m.k] = e
                                    /\ CanSend(sd[e], p.src)}
          [] m.type = "Delegate" ->
               {op \in {"valid", "bulk_update"} : m.lo < m.hi}
          [] m.type = "Shard" ->
               {op \in {"filter"} : accepted /\ Domain(ht[e]) # {}}
               \cup {op \in {"bulk_remove"} : accepted /\ CanSend(sd[e], m.recipient)}
          [] OTHER -> {}

Takes(e, m) ==
    /\ Buffered(e)
    /\ received_packet[e].msg.m = m
    /\ ShouldProcess(e)
    /\ CallsOf(e) \cap Stubbed = {}
    /\ received_packet' = [received_packet EXCEPT ![e] = NoPacket]
    /\ UNCHANGED status

\* A host that calls an operation which panics or loops does nothing more.
Halts(e) ==
    /\ Buffered(e)
    /\ ShouldProcess(e)
    /\ CallsOf(e) \cap Stubbed # {}
    /\ status' = [status EXCEPT ![e] = "halted"]
    /\ UNCHANGED <<sd, delegation_map, ht, received_packet, num_delegations,
                   received_requests, net>>

Sends(e, dst, m) ==
    /\ sd' = [sd EXCEPT ![e] = SendSingleMessage(@, dst, m)]
    /\ net' = net \cup {Packet(e, dst, NextMessage(sd[e], dst, m))}

SendsNothing == UNCHANGED <<sd, net>>

\* The request in the buffer of e was executed, and v is the reply.
Executes(e, v) ==
    received_requests' =
        [received_requests EXCEPT ![e] = Append(@, [request |-> received_packet[e], v |-> v])]

\* Bug: a host answers for keys it does not own.
AnswersForOthers(e, k, v) == Reply(k, v)

\* The answer to a request for k: a redirect, if another host owns k.
Answer(e, k, v) ==
    IF delegation_map[e][k] = e THEN Reply(k, v) ELSE Redirect(k, delegation_map[e][k])

NextGetRequest(e) ==
    \E k \in Key :
        /\ Takes(e, GetRequest(k))
        /\ IF CanSend(sd[e], received_packet[e].src)
           THEN /\ Sends(e, received_packet[e].src, Answer(e, k, ht[e][k]))
                /\ \/ delegation_map[e][k] = e /\ Executes(e, ht[e][k])
                   \/ delegation_map[e][k] # e /\ UNCHANGED received_requests
           ELSE SendsNothing /\ UNCHANGED received_requests
        /\ UNCHANGED <<delegation_map, ht, num_delegations>>

\* Bug: a value that is too long is stored, though the request is dropped.
SetsOversized(e) ==
    \E k \in Key, v \in Value \cup {NoValue} :
        /\ Takes(e, SetRequest(k, v))
        /\ IF delegation_map[e][k] = e
           THEN ht' = [ht EXCEPT ![e][k] = v]
           ELSE UNCHANGED ht
        /\ IF v \notin Oversized /\ CanSend(sd[e], received_packet[e].src)
           THEN /\ Sends(e, received_packet[e].src, Answer(e, k, v))
                /\ IF delegation_map[e][k] = e THEN Executes(e, v) ELSE UNCHANGED received_requests
           ELSE SendsNothing /\ UNCHANGED received_requests
        /\ UNCHANGED <<delegation_map, num_delegations>>

\* The table changes only if the reply is sent.
NextSetRequest(e) ==
    \E k \in Key, v \in Value \cup {NoValue} :
        /\ Takes(e, SetRequest(k, v))
        /\ IF v \notin Oversized /\ CanSend(sd[e], received_packet[e].src)
           THEN /\ Sends(e, received_packet[e].src, Answer(e, k, v))
                /\ \/ /\ delegation_map[e][k] = e
                      /\ ht' = [ht EXCEPT ![e][k] = v]
                      /\ Executes(e, v)
                   \/ /\ delegation_map[e][k] # e
                      /\ UNCHANGED <<ht, received_requests>>
           ELSE SendsNothing /\ UNCHANGED <<ht, received_requests>>
        /\ UNCHANGED <<delegation_map, num_delegations>>

\* Bug: a delegation of keys that have no values is ignored.
IgnoresEmpty(e) ==
    \E lo, hi \in KeyIterator, h \in [Key -> Value \cup {NoValue}] :
        /\ Takes(e, Delegate(lo, hi, h))
        /\ IF lo < hi /\ Domain(h) # {}
           THEN /\ delegation_map' = [delegation_map EXCEPT ![e] = SetRange(@, lo, hi, e)]
                /\ ht' = [ht EXCEPT ![e] = BulkUpdate(@, lo, hi, h)]
                /\ num_delegations' = [num_delegations EXCEPT ![e] = @ + 1]
           ELSE UNCHANGED <<delegation_map, ht, num_delegations>>
        /\ SendsNothing
        /\ UNCHANGED received_requests

\* The keys of a Delegate message now belong to e, if a host sent it and it
\* is one a host could have meant.
NextDelegate(e) ==
    \E lo, hi \in KeyIterator, h \in [Key -> Value \cup {NoValue}] :
        /\ Takes(e, Delegate(lo, hi, h))
        /\ IF lo < hi /\ ValidHashtable(h) /\ received_packet[e].src \in Host
           THEN /\ delegation_map' = [delegation_map EXCEPT ![e] = SetRange(@, lo, hi, e)]
                /\ ht' = [ht EXCEPT ![e] = BulkUpdate(@, lo, hi, h)]
                /\ num_delegations' = [num_delegations EXCEPT ![e] = @ + 1]
           ELSE UNCHANGED <<delegation_map, ht, num_delegations>>
        /\ SendsNothing
        /\ UNCHANGED received_requests

\* Bug: the size of the table is not checked before it is sent.
DelegatesTooMuch(e, lo, hi, recipient) ==
    /\ lo < hi
    /\ recipient \in Host \ {e}
    /\ DelegateForRangeIs(delegation_map[e], lo, hi, e)

\* What host_model_next_shard requires before it moves the keys.
CanDelegate(e, lo, hi, recipient) ==
    /\ lo < hi
    /\ recipient \in Host \ {e}
    /\ DelegateForRangeIs(delegation_map[e], lo, hi, e)
    /\ FewEnough(ExtractRange(ht[e], lo, hi))

\* Bug: the keys leave the host even if the message cannot be sent.
ShardsUnsent(e) ==
    \E lo, hi \in KeyIterator, recipient \in EndPoint :
        /\ Takes(e, Shard(lo, hi, recipient))
        /\ CanDelegate(e, lo, hi, recipient)
        /\ IF CanSend(sd[e], recipient)
           THEN Sends(e, recipient, Delegate(lo, hi, ExtractRange(ht[e], lo, hi)))
           ELSE SendsNothing
        /\ delegation_map' = [delegation_map EXCEPT ![e] = SetRange(@, lo, hi, recipient)]
        /\ ht' = [ht EXCEPT ![e] = BulkRemove(@, lo, hi)]
        /\ num_delegations' = [num_delegations EXCEPT ![e] = @ + 1]
        /\ UNCHANGED received_requests

\* Bug: the host points to the first owner, not to the recipient.
ShardsToRoot(e) ==
    \E lo, hi \in KeyIterator, recipient \in EndPoint :
        /\ Takes(e, Shard(lo, hi, recipient))
        /\ CanDelegate(e, lo, hi, recipient)
        /\ Sends(e, recipient, Delegate(lo, hi, ExtractRange(ht[e], lo, hi)))
        /\ delegation_map' =
             [delegation_map EXCEPT ![e] = SetRange(@, lo, hi, IF e = Root THEN recipient ELSE Root)]
        /\ ht' = [ht EXCEPT ![e] = BulkRemove(@, lo, hi)]
        /\ num_delegations' = [num_delegations EXCEPT ![e] = @ + 1]
        /\ UNCHANGED received_requests

\* The keys leave the host with the message. A host that has no sequence
\* number left keeps them, but counts the delegation.
NextShard(e) ==
    \E lo, hi \in KeyIterator, recipient \in EndPoint :
        /\ Takes(e, Shard(lo, hi, recipient))
        /\ \/ /\ CanDelegate(e, lo, hi, recipient)
              /\ CanSend(sd[e], recipient)
              /\ Sends(e, recipient, Delegate(lo, hi, ExtractRange(ht[e], lo, hi)))
              /\ delegation_map' = [delegation_map EXCEPT ![e] = SetRange(@, lo, hi, recipient)]
              /\ ht' = [ht EXCEPT ![e] = BulkRemove(@, lo, hi)]
              /\ num_delegations' = [num_delegations EXCEPT ![e] = @ + 1]
           \/ /\ CanDelegate(e, lo, hi, recipient)
              /\ ~CanSend(sd[e], recipient)
              /\ SendsNothing
              /\ num_delegations' = [num_delegations EXCEPT ![e] = @ + 1]
              /\ UNCHANGED <<delegation_map, ht>>
           \/ /\ ~CanDelegate(e, lo, hi, recipient)
              /\ SendsNothing
              /\ UNCHANGED <<delegation_map, ht, num_delegations>>
        /\ UNCHANGED received_requests

\* An answer that is sent to a host is dropped.
NextReplyOrRedirect(e) ==
    /\ Buffered(e)
    /\ received_packet[e].msg.m.type \in {"Reply", "Redirect"}
    /\ Takes(e, received_packet[e].msg.m)
    /\ SendsNothing
    /\ UNCHANGED <<delegation_map, ht, num_delegations, received_requests>>

ProcessReceivedPacket(e) ==
    \/ NextGetRequest(e)
    \/ NextSetRequest(e)
    \/ NextDelegate(e)
    \/ NextShard(e)
    \/ NextReplyOrRedirect(e)
    \/ Halts(e)

RetransmitUnAckedPackets(e) ==
    /\ status[e] = "running"
    /\ net' = net \cup UnAckedPackets(sd[e], e)
    /\ UNCHANGED <<sd, delegation_map, ht, received_packet, num_delegations, status,
                   received_requests>>

HostNext(e) ==
    \/ \E p \in net : ReceivePacket(e, p)
    \/ ProcessReceivedPacket(e)
    \/ RetransmitUnAckedPackets(e)

Next ==
    \/ \E c \in Client, h \in Host : \E m \in Request[h] : ClientRequest(c, h, m)
    \/ \E c \in Acking, p \in net : ClientAck(c, p)
    \/ \E e \in Host : HostNext(e)

Spec == Init /\ [][Next]_vars

(***************************************************************************)
(* Fairness. The main loop never stops processing, and a message of a host *)
(* that is retransmitted until it is acknowledged is received in the end.  *)
(* Nothing is assumed of clients, nor of retransmission itself: what was   *)
(* sent once stays in net.                                                 *)
(***************************************************************************)
ReceivesFresh(e, s) ==
    \E p \in net : p.src = s /\ NewSingleMessage(sd[e], p) /\ ReceivePacket(e, p)

Fairness ==
    /\ \A e \in Host : WF_vars(ProcessReceivedPacket(e))
    /\ \A e, s \in Host : SF_vars(ReceivesFresh(e, s))

FairSpec == Spec /\ Fairness
-----------------------------------------------------------------------------
(***************************************************************************)
(* Types.                                                                  *)
(***************************************************************************)
OptionalValue == Value \cup {NoValue}
Hashtable == [Key -> OptionalValue]

CMessage ==
    [type : {"GetRequest"}, k : Key]
    \cup [type : {"SetRequest", "Reply"}, k : Key, v : OptionalValue]
    \cup [type : {"Redirect"}, k : Key, id : Host]
    \cup [type : {"Shard"}, lo : KeyIterator, hi : KeyIterator, recipient : EndPoint]
    \cup [type : {"Delegate"}, lo : KeyIterator, hi : KeyIterator, h : Hashtable]

Seqno == 0 .. MaxSeqno
DataMessage == [type : {"Message"}, seqno : Seqno, dst : EndPoint, m : CMessage]
DataPacket == [src : EndPoint, dst : EndPoint, msg : DataMessage]
AckPacket == [src : EndPoint, dst : EndPoint, msg : [type : {"Ack"}, ack_seqno : Seqno]]
AckState == [num_packets_acked : Seqno, un_acked : Seq(DataMessage)]

ASSUME MessagesAssumption ==
    /\ Request \in [Host -> SUBSET CMessage]
    /\ NoPacket \notin DataPacket

\* Every variable keeps its type; the counters of a host stay below their
\* limits (HostState::valid, CSingleDelivery::valid).
TypeOK ==
    /\ sd \in [Host -> [receive_state : [EndPoint -> Seqno],
                        send_state : [EndPoint -> AckState]]]
    /\ delegation_map \in [Host -> [Key -> Host]]
    /\ ht \in [Host -> Hashtable]
    /\ received_packet \in [Host -> DataPacket \cup {NoPacket}]
    /\ num_delegations \in [Host -> 1 .. MaxDelegations - 1]
    /\ status \in [Host -> {"running", "halted"}]
    /\ received_requests \in [Host -> Seq([request : DataPacket, v : OptionalValue])]
    /\ net \subseteq DataPacket \cup AckPacket

(***************************************************************************)
(* Who has a key: the host that believes it owns it, or a Delegate message *)
(* of a host that its recipient has not processed yet.                     *)
(***************************************************************************)
Owners(k) == {h \in Host : delegation_map[h][k] = h}

Unreceived ==
    {p \in UNION {UnAckedPackets(sd[s], s) : s \in Host} :
        p.dst \in Host /\ p.msg.seqno > sd[p.dst].receive_state[p.src]}

Unprocessed == {received_packet[h] : h \in {e \in Host : received_packet[e] # NoPacket}}

Delegations(k) ==
    {p \in Unreceived \cup Unprocessed :
        /\ p.src \in Host
        /\ p.msg.m.type = "Delegate"
        /\ Between(p.msg.m.lo, k, p.msg.m.hi)}

\* Every key is in exactly one place: one host owns it, or one Delegate
\* message carries it. A Delegate lost, ignored or processed twice, and a
\* Shard of keys the host does not own, would break it (next_shard,
\* next_delegate).
EachKeyClaimedOnce ==
    \A k \in Key : Cardinality(Owners(k)) + Cardinality(Delegations(k)) = 1

\* A host stores only keys it owns, so that no value of the past comes back
\* when the key returns to it (bulk_remove, bulk_update).
OnlyOwnedKeysStored ==
    \A e \in Host : \A k \in Domain(ht[e]) : delegation_map[e][k] = e

\* The hosts a client visits that asks e for k and follows redirects: those
\* in every set of hosts that e is in and no redirect leaves.
Visited(e, k) ==
    {h \in Host : \A hosts \in SUBSET Host :
        e \in hosts /\ (\A g \in hosts : delegation_map[g][k] \in hosts) => h \in hosts}

\* Redirects never lead away from a key for good: they lead to its owner or
\* to the host that a Delegate message carries it to (next_get_request,
\* next_set_request), however stale the delegation maps on the way are.
RedirectsLeadToKey ==
    \A e \in Host, k \in Key :
        \/ Owners(k) \cap Visited(e, k) # {}
        \/ \E p \in Delegations(k) : p.dst \in Visited(e, k)

\* The requests of client c that host e executed, by their places among all
\* it executed, and the replies it sent to the client.
ExecutedFor(e, c) ==
    {i \in DOMAIN received_requests[e] : received_requests[e][i].request.src = c}

RepliesSent(e, c) ==
    {p \in net : /\ p.src = e
                 /\ p.dst = c
                 /\ p.msg.type = "Message"
                 /\ p.msg.m.type = "Reply"}

\* Each of those requests has a reply of its own, in the same order, and
\* there are no other replies.
Matched(e, c) ==
    \E reply \in [ExecutedFor(e, c) -> RepliesSent(e, c)] :
        /\ \A p \in RepliesSent(e, c) : \E i \in ExecutedFor(e, c) : reply[i] = p
        /\ \A i, j \in ExecutedFor(e, c) : i < j => reply[i].msg.seqno < reply[j].msg.seqno
        /\ \A i \in ExecutedFor(e, c) :
              LET a == received_requests[e][i]
              IN  reply[i].msg.m = Reply(a.request.msg.m.k, a.v)

\* The i-th reply a host sends to a client answers the i-th request of the
\* client that the host executed: none is without effect, none is answered
\* twice, and no request takes effect without its reply.
RepliesMatchRequests == \A e \in Host, c \in Client : Matched(e, c)

\* A host always has a sequence number left for the answer to a request: it
\* answers each request of a client at most once, and the requests are
\* numbered by the client within the same limit. So no request is dropped
\* for want of one, although the handlers provide for it.
AnswersFit ==
    \A e \in Host :
        /\ received_packet[e] # NoPacket
        /\ received_packet[e].src \in Client
        => CanSend(sd[e], received_packet[e].src)

\* The hosts together implement one table: a request takes effect at once,
\* wherever its key is, at most once, and is answered with the value at that
\* moment, while ranges of keys move between hosts.
Table(k) ==
    IF Owners(k) # {} THEN LET h == CHOOSE h \in Owners(k) : TRUE IN ht[h][k]
    ELSE IF Delegations(k) # {} THEN LET p == CHOOSE p \in Delegations(k) : TRUE
                                     IN p.msg.m.h[k]
    ELSE NoValue

IsAppRequest(p) == p.msg.m.type \in {"GetRequest", "SetRequest"}

AppRequests ==
    {p \in UNION {{Packet(c, h, Message(n, h, m)) : c \in Client, n \in 1 .. MaxSeqno, m \in Request[h]}
                     : h \in Host} : IsAppRequest(p)}

Service ==
    INSTANCE KvService WITH
        Requests <- AppRequests,
        table <- [k \in Key |-> Table(k)],
        requests <- {p \in FromClients : IsAppRequest(p)},
        replies <- UNION {{received_requests[h][i] : i \in DOMAIN received_requests[h]}
                             : h \in Host}
ServiceSpec == Service!Spec

\* Every step of a host is one the trusted protocol allows (HostState::
\* next_ensures): an answer, a delegation or a rejection that the protocol
\* does not know would make the verified proofs about it worthless.
Protocol == INSTANCE HostProtocol
ProtocolSpec == Protocol!Spec

\* A key is never without an owner for good: the Delegate message that
\* carries it is processed in the end.
KeysComeToRest == \A k \in Key : []<>(Owners(k) # {})

\* Every host goes on for ever: the operations of CKeyHashMap return.
HostsKeepRunning == \A e \in Host : status[e] = "running"
=============================================================================
