------------------------- MODULE RefinementProofs -------------------------
(***************************************************************************)
(* The proofs that the hosts of Sht implement what they promise clients,   *)
(* KvService, and what the repository trusts them to do, HostProtocol.     *)
(***************************************************************************)
EXTENDS ShtProofs

-----------------------------------------------------------------------------
(***************************************************************************)
(* KvService: one table, each request executed at most once, while ranges  *)
(* of keys move between hosts. Ownership says where the value of a key is; *)
(* the numbers of the delivery layer say that no request is executed       *)
(* twice.                                                                  *)
(***************************************************************************)
Asked == {p \in FromClients : IsAppRequest(p)}

RepliesOf(h) == {received_requests[h][i] : i \in DOMAIN received_requests[h]}
Replied == UNION {RepliesOf(h) : h \in Host}

\* The requests of the service come from clients.
HostsDoNotAsk ==
    \A p \in net : p.src \in Host /\ p.msg.type = "Message" => ~IsAppRequest(p)

\* A request that was executed was accepted before, and is no longer in the
\* buffer.
ExecutedWereAccepted ==
    \A h \in Host : \A a \in RepliesOf(h) :
        /\ a.request \in DataPacket
        /\ a.request.dst = h
        /\ a.request.msg.seqno <= Tombstone(h, a.request.src)
        /\ a.request # received_packet[h]

ServiceInv == OwnInv /\ HostsDoNotAsk /\ ExecutedWereAccepted

-----------------------------------------------------------------------------
(***************************************************************************)
(* The requests that hosts execute.                                        *)
(***************************************************************************)
LEMMA ExecutesAdds ==
    ASSUME Inv, NEW e \in Host, NEW v, Executes(e, v)
    PROVE  /\ \A h \in Host :
                 RepliesOf(h)' = IF h = e
                                 THEN RepliesOf(h) \cup {[request |-> received_packet[e], v |-> v]}
                                 ELSE RepliesOf(h)
           /\ Replied' = Replied \cup {[request |-> received_packet[e], v |-> v]}
<1> DEFINE a == [request |-> received_packet[e], v |-> v]
           R == [request : DataPacket, v : OptionalValue]
           s == received_requests[e]
<1>1. received_requests \in [Host -> Seq(R)]
  BY DEF Inv, TypeOK
<1>2. received_requests' = [received_requests EXCEPT ![e] = Append(s, a)]
  BY DEF Executes
<1>3. s \in Seq(R)
  BY <1>1
<1> HIDE DEF a, R
<1>4. /\ received_requests'[e] = Append(s, a)
      /\ \A h \in Host : h # e => received_requests'[h] = received_requests[h]
  BY <1>1, <1>2
<1>5. RepliesOf(e)' = RepliesOf(e) \cup {a}
  <2>1. /\ DOMAIN s = 1 .. Len(s)
        /\ DOMAIN Append(s, a) = 1 .. Len(s) + 1
        /\ Len(s) \in Nat
        /\ Append(s, a)[Len(s) + 1] = a
        /\ \A i \in 1 .. Len(s) : Append(s, a)[i] = s[i]
    BY <1>3
  <2>2. RepliesOf(e) = {s[i] : i \in 1 .. Len(s)}
    BY <2>1 DEF RepliesOf
  <2>3. RepliesOf(e)' = {Append(s, a)[i] : i \in 1 .. Len(s) + 1}
    BY <1>4, <2>1 DEF RepliesOf
  <2> QED
    BY <2>1, <2>2, <2>3
<1>6. \A h \in Host : h # e => RepliesOf(h)' = RepliesOf(h)
  BY <1>4 DEF RepliesOf
<1>7. \A h \in Host : RepliesOf(h)' = IF h = e THEN RepliesOf(h) \cup {a} ELSE RepliesOf(h)
  BY <1>5, <1>6
<1>8. Replied' = Replied \cup {a}
  BY <1>7 DEF Replied
<1> QED
  BY <1>7, <1>8 DEF a

\* No request is executed twice.
LEMMA BufferedIsUnanswered ==
    ASSUME ServiceInv, NEW e \in Host, Buffered(e)
    PROVE  Service!Unanswered(received_packet[e])
<1>1. received_packet[e].dst = e
  BY DEF ServiceInv, OwnInv, Inv, DeliveryInv, BuffersHold, Buffered
<1>2. \A h \in Host : \A a \in RepliesOf(h) : a.request # received_packet[e]
  BY <1>1 DEF ServiceInv, ExecutedWereAccepted
<1> QED
  BY <1>2 DEF Service!Unanswered, RepliesOf

LEMMA BufferedIsAsked ==
    ASSUME ServiceInv, NEW e \in Host, Buffered(e), IsAppRequest(received_packet[e])
    PROVE  received_packet[e] \in Asked
<1> DEFINE b == received_packet[e]
<1>1. b \in net /\ b \in DataPacket
  BY DEF ServiceInv, OwnInv, Inv, DeliveryInv, BuffersHold, Buffered
<1>2. b.msg.type = "Message" /\ b.src \in EndPoint
  BY <1>1 DEF DataPacket, DataMessage
<1>3. b.src \in Client
  BY <1>1, <1>2, ShtAssumption DEF ServiceInv, HostsDoNotAsk
<1> QED
  BY <1>1, <1>2, <1>3 DEF Asked, FromClients

\* An answer or a delegation asks for nothing.
NoRequest(m) == m.type \notin {"GetRequest", "SetRequest"}

LEMMA NothingAsked ==
    ASSUME Inv, HostsDoNotAsk, net \subseteq net',
           \A q \in net' \ net : q.msg.type = "Message" => q.src \in Host /\ NoRequest(q.msg.m)
    PROVE  Asked' = Asked /\ HostsDoNotAsk'
<1>1. Asked' = Asked
  BY InvFacts DEF Asked, FromClients, IsAppRequest
<1>2. HostsDoNotAsk'
  BY DEF HostsDoNotAsk, IsAppRequest, NoRequest
<1> QED
  BY <1>1, <1>2

\* A step in which no request takes effect.
LEMMA ServiceStutters ==
    ASSUME TableKept, Asked' = Asked, UNCHANGED received_requests
    PROVE  UNCHANGED Service!vars
<1>1. [k \in Key |-> Table(k)'] = [k \in Key |-> Table(k)]
  BY DEF TableKept
<1> QED
  BY <1>1 DEF Service!vars, Asked

\* What is accepted stays accepted, when the buffer only empties.
LEMMA AcceptedStay ==
    ASSUME Inv, ExecutedWereAccepted, UNCHANGED received_requests,
           \A h \in Host, o \in EndPoint : Tombstone(h, o)' = Tombstone(h, o),
           \A h \in Host : received_packet'[h] \in {received_packet[h], NoPacket}
    PROVE  ExecutedWereAccepted'
<1> SUFFICES ASSUME NEW h \in Host, NEW a \in RepliesOf(h)'
             PROVE  /\ a.request \in DataPacket
                    /\ a.request.dst = h
                    /\ a.request.msg.seqno <= Tombstone(h, a.request.src)'
                    /\ a.request # received_packet'[h]
  BY DEF ExecutedWereAccepted
<1>1. a \in RepliesOf(h)
  BY DEF RepliesOf
<1>2. a.request.src \in EndPoint /\ a.request # NoPacket
  BY <1>1, InvFacts DEF ExecutedWereAccepted, DataPacket
<1> QED
  BY <1>1, <1>2 DEF ExecutedWereAccepted

\* What every handler keeps, with what it sends and whether it executes the
\* request in the buffer or not.
LEMMA HandlerKeeps ==
    ASSUME ServiceInv, NEW e \in Host, Buffered(e),
           received_packet' = [received_packet EXCEPT ![e] = NoPacket],
           NEW d \in EndPoint, NEW m \in CMessage, NoRequest(m),
           (CanSend(sd[e], d) /\ Sends(e, d, m)) \/ SendsNothing,
           UNCHANGED received_requests \/ \E v \in OptionalValue : Executes(e, v)
    PROVE  HostsDoNotAsk' /\ ExecutedWereAccepted' /\ Asked' = Asked
<1>1. Inv
  BY DEF ServiceInv, OwnInv
<1>2. \A h \in Host : received_packet'[h] = IF h = e THEN NoPacket ELSE received_packet[h]
  BY <1>1, InvFacts
<1>3. \A h \in Host, o \in EndPoint : Tombstone(h, o)' = Tombstone(h, o)
  <2>1. CASE CanSend(sd[e], d) /\ Sends(e, d, m)
    BY <1>1, <1>2, <2>1, InvFacts, SendStep
  <2>2. CASE SendsNothing
    BY <2>2 DEF SendsNothing, Tombstone
  <2> QED
    BY <2>1, <2>2
<1>4. Asked' = Asked /\ HostsDoNotAsk'
  <2> DEFINE x == Packet(e, d, NextMessage(sd[e], d, m))
  <2>1. x.src = e /\ x.msg.m = m
    BY DEF Packet, NextMessage, Message
  <2>2. net \subseteq net' /\ \A q \in net' \ net : q = x
    BY DEF Sends, SendsNothing
  <2> HIDE DEF x
  <2> QED
    BY <1>1, <2>1, <2>2, NothingAsked DEF ServiceInv
<1>5. CASE UNCHANGED received_requests
  BY <1>1, <1>2, <1>3, <1>4, <1>5, AcceptedStay DEF ServiceInv
<1>6. ASSUME NEW v \in OptionalValue, Executes(e, v)
      PROVE  ExecutedWereAccepted'
  <2> DEFINE b == received_packet[e]
             n == [request |-> b, v |-> v]
  <2>1. n.request = b
    OBVIOUS
  <2>2. \A h \in Host : RepliesOf(h)' = IF h = e THEN RepliesOf(h) \cup {n} ELSE RepliesOf(h)
    BY <1>1, <1>6, ExecutesAdds
  <2>3. /\ b \in DataPacket
        /\ b.dst = e
        /\ b.msg.seqno <= Tombstone(e, b.src)
    BY <1>1, InvFacts DEF DeliveryInv, BuffersHold, Buffered
  <2> HIDE DEF b, n
  <2>4. ASSUME NEW h \in Host, NEW a \in RepliesOf(h)'
        PROVE  /\ a.request \in DataPacket
               /\ a.request.dst = h
               /\ a.request.msg.seqno <= Tombstone(h, a.request.src)
               /\ h # e => a.request # received_packet[h]
    BY <2>1, <2>2, <2>3, <2>4 DEF ServiceInv, ExecutedWereAccepted
  <2>5. ASSUME NEW h \in Host, NEW a \in RepliesOf(h)'
        PROVE  /\ a.request \in DataPacket
               /\ a.request.dst = h
               /\ a.request.msg.seqno <= Tombstone(h, a.request.src)'
               /\ a.request # received_packet'[h]
    <3>1. a.request.src \in EndPoint /\ a.request # NoPacket
      BY <1>1, <2>4, <2>5, InvFacts DEF DataPacket
    <3> QED
      BY <1>2, <1>3, <2>4, <2>5, <3>1
  <2> QED
    BY <2>5 DEF ExecutedWereAccepted
<1> QED
  BY <1>4, <1>5, <1>6

-----------------------------------------------------------------------------
(***************************************************************************)
(* Every step of Sht is a step of KvService, or changes nothing of it.     *)
(***************************************************************************)
ServiceStep == ServiceInv' /\ [Service!Next]_Service!vars

\* The owner of a key has its value.
LEMMA OwnerHasValue ==
    ASSUME OwnInv, NEW k \in Key, NEW e \in Host, delegation_map[e][k] = e
    PROVE  Owners(k) = {e} /\ Table(k) = ht[e][k]
<1>1. e \in Owners(k)
  BY DEF Owners
<1>2. Owners(k) = {e}
  BY <1>1 DEF OwnInv, Claimed
<1> QED
  BY <1>2, TableIsClaimed DEF ClaimantHasValue

LEMMA GetRequestServes ==
    ASSUME ServiceInv, Inv', NEW e \in Host, NextGetRequest(e)
    PROVE  ServiceStep
<1>1. PICK k \in Key :
        /\ Takes(e, GetRequest(k))
        /\ IF CanSend(sd[e], received_packet[e].src)
           THEN /\ Sends(e, received_packet[e].src, Answer(e, k, ht[e][k]))
                /\ \/ delegation_map[e][k] = e /\ Executes(e, ht[e][k])
                   \/ delegation_map[e][k] # e /\ UNCHANGED received_requests
           ELSE SendsNothing /\ UNCHANGED received_requests
  BY DEF NextGetRequest
<1> DEFINE b == received_packet[e]
           d == b.src
           m == Answer(e, k, ht[e][k])
<1>2. /\ Inv
      /\ Buffered(e)
      /\ b.msg.m.type = "GetRequest"
      /\ b.msg.m.k = k
      /\ received_packet' = [received_packet EXCEPT ![e] = NoPacket]
  BY <1>1 DEF ServiceInv, OwnInv, Takes, GetRequest
<1>3. ht[e][k] \in OptionalValue
  BY <1>2 DEF Inv, TypeOK, Hashtable
<1>4. d \in EndPoint /\ m \in CMessage
  BY <1>2, <1>3, BufferTypes, AnswerTypes DEF Inv
<1>5. NoRequest(m)
  BY DEF NoRequest, Answer, Reply, Redirect
<1>6. (CanSend(sd[e], d) /\ Sends(e, d, m)) \/ SendsNothing
  BY <1>1
<1>7. UNCHANGED received_requests \/ \E v \in OptionalValue : Executes(e, v)
  BY <1>1, <1>3
<1>8. OwnInv' /\ TableKept
  BY GetRequestOwn DEF ServiceInv
<1> HIDE DEF d, m
<1>9. HostsDoNotAsk' /\ ExecutedWereAccepted' /\ Asked' = Asked
  BY <1>2, <1>4, <1>5, <1>6, <1>7, HandlerKeeps
<1>10. CASE UNCHANGED received_requests
  BY <1>8, <1>9, <1>10, ServiceStutters DEF ServiceInv, ServiceStep
<1>11. CASE delegation_map[e][k] = e /\ Executes(e, ht[e][k])
  <2>1. Table(k) = ht[e][k]
    BY <1>11, OwnerHasValue DEF ServiceInv
  <2>2. Replied' = Replied \cup {[request |-> b, v |-> ht[e][k]]}
    BY <1>2, <1>11, ExecutesAdds
  <2>3. IsAppRequest(b)
    BY <1>2 DEF IsAppRequest
  <2>4. b \in Asked /\ Service!Unanswered(b)
    BY <1>2, <2>3, BufferedIsAsked, BufferedIsUnanswered
  <2>5. [j \in Key |-> Table(j)'] = [j \in Key |-> Table(j)]
    BY <1>8 DEF TableKept
  <2>6. PICK r \in Asked : r = b
    BY <2>4
  <2>7. Service!Next
    <3>1. Service!Unanswered(r)
      BY <2>4, <2>6 DEF Service!Unanswered
    <3>2. r.msg.m.type = "GetRequest" /\ [j \in Key |-> Table(j)][r.msg.m.k] = ht[e][k]
      BY <1>2, <2>1, <2>6
    <3>3. Replied' = Replied \cup {[request |-> r, v |-> ht[e][k]]}
      BY <2>2, <2>6
    <3>4. Service!AppGetRequest(r)
      BY <1>9, <2>5, <3>1, <3>2, <3>3
         DEF Service!AppGetRequest, Service!AppReply, Asked, Replied, RepliesOf
    <3> QED
      BY <2>6, <3>4 DEF Service!Next, Asked
  <2> QED
    BY <1>8, <1>9, <2>7 DEF ServiceInv, ServiceStep
<1> QED
  BY <1>1, <1>10, <1>11

LEMMA SetRequestServes ==
    ASSUME ServiceInv, Inv', NEW e \in Host, NextSetRequest(e)
    PROVE  ServiceStep
<1>1. PICK k \in Key, v \in OptionalValue :
        /\ Takes(e, SetRequest(k, v))
        /\ IF v \notin Oversized /\ CanSend(sd[e], received_packet[e].src)
           THEN /\ Sends(e, received_packet[e].src, Answer(e, k, v))
                /\ \/ /\ delegation_map[e][k] = e
                      /\ ht' = [ht EXCEPT ![e][k] = v]
                      /\ Executes(e, v)
                   \/ /\ delegation_map[e][k] # e
                      /\ UNCHANGED <<ht, received_requests>>
           ELSE SendsNothing /\ UNCHANGED <<ht, received_requests>>
  BY DEF NextSetRequest, OptionalValue
<1> DEFINE b == received_packet[e]
           d == b.src
           m == Answer(e, k, v)
<1>2. /\ Inv
      /\ Buffered(e)
      /\ b.msg.m.type = "SetRequest"
      /\ b.msg.m.k = k
      /\ b.msg.m.v = v
      /\ received_packet' = [received_packet EXCEPT ![e] = NoPacket]
  BY <1>1 DEF ServiceInv, OwnInv, Takes, SetRequest
<1>3. d \in EndPoint /\ m \in CMessage
  BY <1>2, BufferTypes, AnswerTypes DEF Inv
<1>4. NoRequest(m)
  BY DEF NoRequest, Answer, Reply, Redirect
<1>5. (CanSend(sd[e], d) /\ Sends(e, d, m)) \/ SendsNothing
  BY <1>1
<1>6. UNCHANGED received_requests \/ \E w \in OptionalValue : Executes(e, w)
  BY <1>1
<1>7. OwnInv' /\ \A j \in Key : Owners(j)' = Owners(j) /\ Delegations(j)' = Delegations(j)
  BY SetRequestOwn DEF ServiceInv
<1> HIDE DEF d, m
<1>8. HostsDoNotAsk' /\ ExecutedWereAccepted' /\ Asked' = Asked
  BY <1>2, <1>3, <1>4, <1>5, <1>6, HandlerKeeps
<1>9. \A j \in Key : (\A h \in Owners(j) : ht'[h][j] = ht[h][j]) => Table(j)' = Table(j)
  BY <1>7, ClaimStays DEF ServiceInv, OwnInv
<1>10. CASE UNCHANGED <<ht, received_requests>>
  <2>1. TableKept
    BY <1>9, <1>10 DEF TableKept
  <2> QED
    BY <1>7, <1>8, <1>10, <2>1, ServiceStutters DEF ServiceInv, ServiceStep
<1>11. CASE delegation_map[e][k] = e /\ ht' = [ht EXCEPT ![e][k] = v] /\ Executes(e, v)
  <2>1. Replied' = Replied \cup {[request |-> b, v |-> v]}
    BY <1>2, <1>11, ExecutesAdds
  <2>2. IsAppRequest(b)
    BY <1>2 DEF IsAppRequest
  <2>3. b \in Asked /\ Service!Unanswered(b)
    BY <1>2, <2>2, BufferedIsAsked, BufferedIsUnanswered
  <2>4. ht \in [Host -> [Key -> OptionalValue]]
    BY <1>2 DEF Inv, TypeOK, Hashtable
  <2>5. Table(k)' = v
    <3>1. Owners(k)' = {e}
      BY <1>7, <1>11, OwnerHasValue DEF ServiceInv
    <3>2. ClaimantHasValue'
      BY TableIsClaimed, PTL
    <3>3. Table(k)' = ht'[e][k]
      BY <3>1, <3>2 DEF ClaimantHasValue
    <3> QED
      BY <1>11, <2>4, <3>3
  <2>6. ASSUME NEW j \in Key, j # k PROVE Table(j)' = Table(j)
    <3>1. \A h \in Host : ht'[h][j] = ht[h][j]
      BY <1>11, <2>4, <2>6
    <3> QED
      BY <1>9, <3>1 DEF Owners
  <2>7. [j \in Key |-> Table(j)'] = [[j \in Key |-> Table(j)] EXCEPT ![k] = v]
    BY <2>5, <2>6
  <2>8. PICK r \in Asked : r = b
    BY <2>3
  <2>9. Service!Next
    <3>1. Service!Unanswered(r)
      BY <2>3, <2>8 DEF Service!Unanswered
    <3>2. r.msg.m.type = "SetRequest" /\ r.msg.m.k = k /\ r.msg.m.v = v
      BY <1>2, <2>8
    <3>3. Replied' = Replied \cup {[request |-> r, v |-> v]}
      BY <2>1, <2>8
    <3>4. Service!AppSetRequest(r)
      BY <1>8, <2>7, <3>1, <3>2, <3>3
         DEF Service!AppSetRequest, Service!AppReply, Asked, Replied, RepliesOf
    <3> QED
      BY <2>8, <3>4 DEF Service!Next, Asked
  <2> QED
    BY <1>7, <1>8, <2>9 DEF ServiceInv, ServiceStep
<1> QED
  BY <1>1, <1>10, <1>11

\* The other handlers, and the steps of the network.
LEMMA OtherServes ==
    ASSUME ServiceInv, OwnInv', TableKept, UNCHANGED received_requests,
           HostsDoNotAsk', ExecutedWereAccepted', Asked' = Asked
    PROVE  ServiceStep
  BY ServiceStutters DEF ServiceInv, ServiceStep

LEMMA DelegateServes ==
    ASSUME ServiceInv, Inv', NEW e \in Host, NextDelegate(e)
    PROVE  ServiceStep
<1>1. /\ Inv
      /\ Buffered(e)
      /\ received_packet' = [received_packet EXCEPT ![e] = NoPacket]
      /\ SendsNothing
      /\ UNCHANGED received_requests
  BY DEF ServiceInv, OwnInv, NextDelegate, Takes
<1>2. OwnInv' /\ TableKept
  BY DelegateOwn DEF ServiceInv
<1>3. Redirect(0, Root) \in CMessage /\ NoRequest(Redirect(0, Root)) /\ e \in EndPoint
  BY ShtAssumption, KeysAssumption DEF Redirect, CMessage, NoRequest, Key
<1>4. HostsDoNotAsk' /\ ExecutedWereAccepted' /\ Asked' = Asked
  BY <1>1, <1>3, HandlerKeeps
<1> QED
  BY <1>1, <1>2, <1>4, OtherServes

LEMMA ShardServes ==
    ASSUME ServiceInv, Inv', NEW e \in Host, NextShard(e)
    PROVE  ServiceStep
<1>1. PICK lo \in KeyIterator, hi \in KeyIterator, recipient \in EndPoint :
        /\ Takes(e, Shard(lo, hi, recipient))
        /\ \/ /\ CanSend(sd[e], recipient)
              /\ Sends(e, recipient, Delegate(lo, hi, ExtractRange(ht[e], lo, hi)))
           \/ SendsNothing
        /\ UNCHANGED received_requests
  BY DEF NextShard
<1> DEFINE m == Delegate(lo, hi, ExtractRange(ht[e], lo, hi))
<1>2. /\ Inv
      /\ Buffered(e)
      /\ received_packet' = [received_packet EXCEPT ![e] = NoPacket]
  BY <1>1 DEF ServiceInv, OwnInv, Takes
<1>3. m \in CMessage /\ NoRequest(m)
  <2>1. ExtractRange(ht[e], lo, hi) \in Hashtable
    BY <1>2, TableTypes DEF Inv, TypeOK
  <2> QED
    BY <2>1 DEF Delegate, CMessage, NoRequest
<1>4. (CanSend(sd[e], recipient) /\ Sends(e, recipient, m)) \/ SendsNothing
  BY <1>1
<1> HIDE DEF m
<1>5. HostsDoNotAsk' /\ ExecutedWereAccepted' /\ Asked' = Asked
  BY <1>1, <1>2, <1>3, <1>4, HandlerKeeps
<1>6. OwnInv' /\ TableKept
  BY ShardOwn DEF ServiceInv
<1> QED
  BY <1>1, <1>5, <1>6, OtherServes

LEMMA ReplyOrRedirectServes ==
    ASSUME ServiceInv, Inv', NEW e \in Host, NextReplyOrRedirect(e)
    PROVE  ServiceStep
<1>1. /\ Inv
      /\ Buffered(e)
      /\ received_packet' = [received_packet EXCEPT ![e] = NoPacket]
      /\ SendsNothing
      /\ UNCHANGED received_requests
      /\ received_packet[e].msg.m.type \in {"Reply", "Redirect"}
  BY DEF ServiceInv, OwnInv, NextReplyOrRedirect, Takes
<1>2. OwnInv' /\ TableKept
  BY ReplyOrRedirectOwn DEF ServiceInv
<1>3. received_packet[e].src \in EndPoint /\ received_packet[e].msg.m \in CMessage
  BY <1>1, BufferTypes DEF Inv
<1>4. NoRequest(received_packet[e].msg.m)
  BY <1>1 DEF NoRequest
<1>5. HostsDoNotAsk' /\ ExecutedWereAccepted' /\ Asked' = Asked
  BY <1>1, <1>3, <1>4, HandlerKeeps
<1> QED
  BY <1>1, <1>2, <1>5, OtherServes

LEMMA ReceiveServes ==
    ASSUME ServiceInv, Inv', NEW e \in Host, NEW p \in net, ReceivePacket(e, p)
    PROVE  ServiceStep
<1>1. Inv /\ UNCHANGED received_requests
  BY DEF ServiceInv, OwnInv, ReceivePacket
<1>2. OwnInv' /\ TableKept
  BY ReceiveOwn DEF ServiceInv
<1>3. p.msg.type = "Ack" \/ p.msg.type = "Message"
  BY <1>1, InvFacts, PacketTypes DEF NetOK
<1>4. net \subseteq net' /\ \A q \in net' \ net : q.msg.type # "Message"
  BY DEF ReceivePacket, MaybeAck, Packet, Ack
<1>5. Asked' = Asked /\ HostsDoNotAsk'
  BY <1>1, <1>4, NothingAsked DEF ServiceInv
<1>6. CASE p.msg.type = "Ack"
  <2>1. /\ UNCHANGED received_packet
        /\ \A h \in Host, o \in EndPoint : Tombstone(h, o)' = Tombstone(h, o)
    BY <1>1, <1>6, InvFacts, AckStep
  <2>2. ExecutedWereAccepted'
    BY <1>1, <2>1, AcceptedStay DEF ServiceInv
  <2> QED
    BY <1>1, <1>2, <1>5, <2>2, OtherServes
<1>7. CASE p.msg.type = "Message"
  <2>1. /\ p \in DataPacket
        /\ \A h \in Host, o \in EndPoint :
              <<h, o>> # <<e, p.src>> => Tombstone(h, o)' = Tombstone(h, o)
        /\ NewSingleMessage(sd[e], p) =>
              /\ p.msg.seqno = Tombstone(e, p.src) + 1
              /\ Tombstone(e, p.src)' = Tombstone(e, p.src) + 1
        /\ ~NewSingleMessage(sd[e], p) => Tombstone(e, p.src)' = Tombstone(e, p.src)
    BY <1>1, <1>7, InvFacts, MessageStep
  <2>2. /\ received_packet[e] = NoPacket
        /\ received_packet' =
              [received_packet EXCEPT ![e] = IF NewSingleMessage(sd[e], p) THEN p ELSE NoPacket]
    BY DEF ReceivePacket
  <2>3. CASE ~NewSingleMessage(sd[e], p)
    <3>1. UNCHANGED received_packet
      BY <1>1, <2>2, <2>3, InvFacts
    <3>2. \A h \in Host, o \in EndPoint : Tombstone(h, o)' = Tombstone(h, o)
      BY <2>1, <2>3
    <3>3. ExecutedWereAccepted'
      BY <1>1, <3>1, <3>2, AcceptedStay DEF ServiceInv
    <3> QED
      BY <1>1, <1>2, <1>5, <3>3, OtherServes
  <2>4. CASE NewSingleMessage(sd[e], p)
    <3>1. ASSUME NEW h \in Host, NEW a \in RepliesOf(h)'
          PROVE  /\ a.request \in DataPacket
                 /\ a.request.dst = h
                 /\ a.request.msg.seqno <= Tombstone(h, a.request.src)'
                 /\ a.request # received_packet'[h]
      <4>1. a \in RepliesOf(h)
        BY <1>1, <3>1 DEF RepliesOf
      <4>2. /\ a.request \in DataPacket
            /\ a.request.dst = h
            /\ a.request.msg.seqno <= Tombstone(h, a.request.src)
            /\ a.request # received_packet[h]
        BY <4>1 DEF ServiceInv, ExecutedWereAccepted
      <4>3. a.request.src \in EndPoint /\ a.request.msg.seqno \in Nat
        BY <4>2, MaxSeqnoAssumption DEF DataPacket, DataMessage, Seqno
      <4>4. Tombstone(h, a.request.src) \in Nat
        BY <1>1, <4>3, InvFacts, LinkTypes
      <4>5. CASE <<h, a.request.src>> = <<e, p.src>>
        <5>1. a.request.msg.seqno < p.msg.seqno
          BY <2>1, <2>4, <4>2, <4>3, <4>4, <4>5
        <5>2. received_packet'[h] = p
          BY <1>1, <2>2, <2>4, <4>5, InvFacts
        <5> QED
          BY <2>1, <2>4, <4>2, <4>3, <4>4, <4>5, <5>1, <5>2
      <4>6. CASE <<h, a.request.src>> # <<e, p.src>>
        <5>1. Tombstone(h, a.request.src)' = Tombstone(h, a.request.src)
          BY <2>1, <4>3, <4>6
        <5>2. a.request # received_packet'[h]
          BY <1>1, <2>2, <2>4, <4>2, <4>6, InvFacts
        <5> QED
          BY <4>2, <5>1, <5>2
      <4> QED
        BY <4>5, <4>6
    <3>2. ExecutedWereAccepted'
      BY <3>1 DEF ExecutedWereAccepted
    <3> QED
      BY <1>1, <1>2, <1>5, <3>2, OtherServes
  <2> QED
    BY <2>3, <2>4
<1> QED
  BY <1>3, <1>6, <1>7

\* A step that leaves the hosts as they are.
LEMMA QuietServes ==
    ASSUME ServiceInv, Inv', UNCHANGED <<sd, received_packet, delegation_map, ht, received_requests>>,
           net \subseteq net', \A q \in net' \ net : q.src \in Client
    PROVE  /\ OwnInv' /\ TableKept /\ HostsDoNotAsk' /\ ExecutedWereAccepted'
           /\ (\A q \in net' \ net : q.msg.type # "Message") => Asked' = Asked
<1>1. Inv /\ OwnInv
  BY DEF ServiceInv, OwnInv
<1>2. OwnInv' /\ TableKept
  BY <1>1, QuietOwn
<1>3. ExecutedWereAccepted'
  <2>1. \A h \in Host, o \in EndPoint : Tombstone(h, o)' = Tombstone(h, o)
    BY DEF Tombstone
  <2> QED
    BY <1>1, <2>1, AcceptedStay DEF ServiceInv
<1>4. HostsDoNotAsk'
  BY <1>1, InvFacts DEF ServiceInv, HostsDoNotAsk, IsAppRequest
<1>5. (\A q \in net' \ net : q.msg.type # "Message") => Asked' = Asked
  BY <1>1, NothingAsked DEF ServiceInv
<1> QED
  BY <1>2, <1>3, <1>4, <1>5

LEMMA ClientRequestServes ==
    ASSUME ServiceInv, Inv', NEW c \in Client, NEW h \in Host, NEW m \in Request[h],
           ClientRequest(c, h, m)
    PROVE  ServiceStep
<1> DEFINE n == Cardinality(Submitted(c, h)) + 1
           q == Packet(c, h, Message(n, h, m))
<1>1. /\ n <= MaxSeqno
      /\ net' = net \cup {q}
      /\ UNCHANGED <<sd, received_packet, delegation_map, ht, received_requests>>
  BY DEF ClientRequest
<1>2. n \in 1 .. MaxSeqno
  <2>1. IsFiniteSet(Submitted(c, h))
    <3>1. Submitted(c, h) \subseteq net
      BY DEF Submitted, FromClients
    <3> QED
      BY <3>1, FS_Subset DEF ServiceInv, OwnInv, Inv
  <2>2. Cardinality(Submitted(c, h)) \in Nat
    BY <2>1, FS_CardinalityType
  <2> QED
    BY <1>1, <2>2, MaxSeqnoAssumption
<1>3. PICK i \in 1 .. MaxSeqno : i = n
  BY <1>2
<1>4. PICK r : r = Packet(c, h, Message(i, h, m))
  OBVIOUS
<1>5. net' = net \cup {r} /\ r.src = c /\ r.msg.type = "Message"
  BY <1>1, <1>3, <1>4 DEF Packet, Message
<1> HIDE DEF n, q
<1>6. OwnInv' /\ TableKept /\ HostsDoNotAsk' /\ ExecutedWereAccepted'
  BY <1>1, <1>5, QuietServes
<1>7. CASE ~IsAppRequest(r)
  <2>1. Asked' = Asked
    BY <1>5, <1>7 DEF Asked, FromClients, IsAppRequest
  <2> QED
    BY <1>1, <1>6, <2>1, OtherServes
<1>8. CASE IsAppRequest(r)
  <2> DEFINE W(o) == {Packet(b, o, Message(j, o, a)) : b \in Client, j \in 1 .. MaxSeqno,
                                                       a \in Request[o]}
  <2>1. r \in W(h)
    BY <1>4
  <2>2. W(h) \in {W(o) : o \in Host}
    OBVIOUS
  <2> HIDE DEF W
  <2>3. r \in UNION {W(o) : o \in Host}
    BY <2>1, <2>2
  <2>4. r \in AppRequests
    BY <1>8, <2>3 DEF AppRequests, W
  <2>5. Asked' = Asked \cup {r}
    BY <1>5, <1>8 DEF Asked, FromClients, IsAppRequest
  <2>6. [k \in Key |-> Table(k)'] = [k \in Key |-> Table(k)]
    BY <1>6 DEF TableKept
  <2>7. Service!Submit(r)
    BY <1>1, <2>5, <2>6 DEF Service!Submit, Asked
  <2> QED
    BY <1>6, <2>4, <2>7 DEF ServiceInv, ServiceStep, Service!Next
<1> QED
  BY <1>7, <1>8

LEMMA ClientAckServes ==
    ASSUME ServiceInv, Inv', NEW c \in Acking, NEW p \in net, ClientAck(c, p)
    PROVE  ServiceStep
<1> DEFINE q == Packet(c, p.src, Ack(p.msg.seqno))
<1>1. /\ net' = net \cup {q}
      /\ UNCHANGED <<sd, received_packet, delegation_map, ht, received_requests>>
  BY DEF ClientAck
<1>2. q.src \in Client /\ q.msg.type # "Message"
  BY ShtAssumption DEF Packet, Ack
<1> HIDE DEF q
<1>3. /\ net \subseteq net'
      /\ \A x \in net' \ net : x.src \in Client /\ x.msg.type # "Message"
  BY <1>1, <1>2
<1>4. OwnInv' /\ TableKept /\ HostsDoNotAsk' /\ ExecutedWereAccepted' /\ Asked' = Asked
  BY <1>1, <1>3, QuietServes
<1> QED
  BY <1>1, <1>4, OtherServes

LEMMA IdleServes ==
    ASSUME ServiceInv, Inv',
           UNCHANGED <<sd, received_packet, delegation_map, ht, received_requests, net>>
    PROVE  ServiceStep
  BY QuietServes, OtherServes

LEMMA NextServes == ServiceInv /\ [Next]_vars => ServiceStep
<1> SUFFICES ASSUME ServiceInv, [Next]_vars PROVE ServiceStep
  OBVIOUS
<1>1. Inv /\ Inv'
  BY NextInv DEF ServiceInv, OwnInv
<1>2. ASSUME NEW e \in Host, HostNext(e)
      PROVE  ServiceStep
  <2>1. CASE ProcessReceivedPacket(e)
    <3>1. CASE Halts(e)
      BY <1>1, <3>1, IdleServes DEF Halts
    <3> QED
      BY <1>1, <2>1, <3>1, GetRequestServes, SetRequestServes, DelegateServes, ShardServes,
         ReplyOrRedirectServes DEF ProcessReceivedPacket
  <2>2. CASE RetransmitUnAckedPackets(e)
    BY <1>1, <2>2, RetransmitsNothingNew, IdleServes DEF RetransmitUnAckedPackets
  <2> QED
    BY <1>1, <1>2, <2>1, <2>2, ReceiveServes DEF HostNext
<1>3. CASE UNCHANGED vars
  BY <1>1, <1>3, IdleServes DEF vars
<1> QED
  BY <1>1, <1>2, <1>3, ClientRequestServes, ClientAckServes DEF Next

LEMMA InitServes == Init => ServiceInv /\ Service!Init
<1> SUFFICES ASSUME Init PROVE ServiceInv /\ Service!Init
  OBVIOUS
<1>1. OwnInv
  BY InitOwn
<1>2. \A h \in Host : RepliesOf(h) = {}
  BY DEF Init, RepliesOf
<1>3. HostsDoNotAsk /\ ExecutedWereAccepted
  BY <1>2 DEF Init, HostsDoNotAsk, ExecutedWereAccepted
<1>4. Asked = {} /\ Replied = {}
  BY <1>2 DEF Init, Asked, FromClients, Replied
<1>5. ASSUME NEW k \in Key PROVE Table(k) = NoValue
  <2>1. Table(k) = ht[Root][k]
    BY <1>1, <1>5, OwnerHasValue, ShtAssumption DEF Init
  <2> QED
    BY <2>1, ShtAssumption DEF Init, EmptyTable
<1>6. Service!Init
  BY <1>4, <1>5 DEF Service!Init, Asked, Replied, RepliesOf
<1> QED
  BY <1>1, <1>3, <1>6 DEF ServiceInv

\* The hosts implement one table, whatever clients ask for and whatever keys
\* are delegated: a request takes effect at one step of one host, with the
\* value of the key at that moment, and no request takes effect twice.
THEOREM HostsImplementOneTable == Spec => ServiceSpec
<1>1. ServiceStep => ServiceInv' /\ [Service!Next]_Service!vars
  BY DEF ServiceStep
<1> QED
  BY <1>1, InitServes, NextServes, PTL DEF Spec, ServiceSpec, Service!Spec
-----------------------------------------------------------------------------
(***************************************************************************)
(* The replies of a host to a client match what it executed: a reply that  *)
(* is added has a higher number than all before, as the request it answers *)
(* comes after all before.                                                 *)
(***************************************************************************)
LEMMA SamePlaces ==
    ASSUME NEW e, NEW c, ExecutedFor(e, c)' = ExecutedFor(e, c),
           RepliesSent(e, c)' = RepliesSent(e, c),
           \A i \in ExecutedFor(e, c) : received_requests'[e][i] = received_requests[e][i],
           Matched(e, c)
    PROVE  Matched(e, c)'
<1>1. PICK reply \in [ExecutedFor(e, c) -> RepliesSent(e, c)] :
        /\ \A p \in RepliesSent(e, c) : \E i \in ExecutedFor(e, c) : reply[i] = p
        /\ \A i, j \in ExecutedFor(e, c) : i < j => reply[i].msg.seqno < reply[j].msg.seqno
        /\ \A i \in ExecutedFor(e, c) : reply[i].msg.m =
              Reply(received_requests[e][i].request.msg.m.k, received_requests[e][i].v)
  BY DEF Matched
<1>2. \A i \in ExecutedFor(e, c) : reply[i].msg.m =
              Reply(received_requests'[e][i].request.msg.m.k, received_requests'[e][i].v)
  BY <1>1
<1> QED
  BY <1>1, <1>2 DEF Matched, Reply

\* A step in which nothing is executed and no host replies to a client.
LEMMA NothingReplied ==
    ASSUME RepliesMatchRequests, UNCHANGED received_requests, net \subseteq net',
           \A q \in net' \ net :
               q.src \in Host /\ q.dst \in Client /\ q.msg.type = "Message" => q.msg.m.type # "Reply"
    PROVE  RepliesMatchRequests'
<1> SUFFICES ASSUME NEW e \in Host, NEW c \in Client PROVE Matched(e, c)'
  BY DEF RepliesMatchRequests
<1>1. ExecutedFor(e, c)' = ExecutedFor(e, c)
  BY DEF ExecutedFor
<1>2. RepliesSent(e, c)' = RepliesSent(e, c)
  BY DEF RepliesSent
<1> QED
  BY <1>1, <1>2, SamePlaces DEF RepliesMatchRequests

\* The places of what is executed, when one more request is.
LEMMA ExecutedPlaces ==
    ASSUME Inv, NEW e \in Host, NEW v, Executes(e, v)
    PROVE  LET n == Len(received_requests[e]) + 1
           IN  /\ n \in Nat
               /\ \A c : ExecutedFor(e, c) \subseteq 1 .. n - 1
               /\ \A c : ExecutedFor(e, c)' =
                     ExecutedFor(e, c) \cup {i \in {n} : received_packet[e].src = c}
               /\ received_requests'[e][n] = [request |-> received_packet[e], v |-> v]
               /\ \A i \in 1 .. n - 1 : received_requests'[e][i] = received_requests[e][i]
               /\ \A h \in Host : h # e => received_requests'[h] = received_requests[h]
<1> DEFINE a == [request |-> received_packet[e], v |-> v]
           R == [request : DataPacket, v : OptionalValue]
           s == received_requests[e]
           n == Len(s) + 1
<1>1. received_requests \in [Host -> Seq(R)]
  BY DEF Inv, TypeOK
<1>2. received_requests' = [received_requests EXCEPT ![e] = Append(s, a)]
  BY DEF Executes
<1>3. s \in Seq(R)
  BY <1>1
<1>4. a.request = received_packet[e]
  OBVIOUS
<1> HIDE DEF a, R
<1>5. /\ received_requests'[e] = Append(s, a)
      /\ \A h \in Host : h # e => received_requests'[h] = received_requests[h]
  BY <1>1, <1>2
<1>6. /\ n \in Nat
      /\ DOMAIN s = 1 .. n - 1
      /\ DOMAIN Append(s, a) = (1 .. n - 1) \cup {n}
      /\ Append(s, a)[n] = a
      /\ \A i \in 1 .. n - 1 : Append(s, a)[i] = s[i]
  BY <1>3
<1>7. ASSUME NEW c
      PROVE  ExecutedFor(e, c)' = ExecutedFor(e, c) \cup {i \in {n} : received_packet[e].src = c}
  BY <1>4, <1>5, <1>6 DEF ExecutedFor
<1>8. \A c : ExecutedFor(e, c) \subseteq 1 .. n - 1
  BY <1>6 DEF ExecutedFor
<1> QED
  BY <1>5, <1>6, <1>7, <1>8 DEF a

LEMMA ReplyMatches ==
    ASSUME Inv, RepliesMatchRequests, NEW e \in Host, Buffered(e),
           received_packet' = [received_packet EXCEPT ![e] = NoPacket],
           NEW d \in EndPoint, d = received_packet[e].src,
           NEW k, k = received_packet[e].msg.m.k, NEW v, Reply(k, v) \in CMessage,
           CanSend(sd[e], d), Sends(e, d, Reply(k, v)), Executes(e, v)
    PROVE  RepliesMatchRequests'
<1> DEFINE n == Len(received_requests[e]) + 1
           m == Reply(k, v)
           x == Packet(e, d, NextMessage(sd[e], d, m))
<1>1. /\ n \in Nat
      /\ \A c : ExecutedFor(e, c) \subseteq 1 .. n - 1
      /\ \A c : ExecutedFor(e, c)' = ExecutedFor(e, c) \cup {i \in {n} : d = c}
      /\ received_requests'[e][n] = [request |-> received_packet[e], v |-> v]
      /\ \A i \in 1 .. n - 1 : received_requests'[e][i] = received_requests[e][i]
      /\ \A h \in Host : h # e => received_requests'[h] = received_requests[h]
  BY ExecutedPlaces
<1>2. m.type = "Reply"
  BY DEF Reply
<1>3. \A h \in Host : received_packet'[h] = received_packet[h] \/ received_packet'[h] = NoPacket
  BY InvFacts
<1> HIDE DEF m
<1>4. NextMessage(sd[e], d, m) = Message(Last(e, d) + 1, d, m)
  BY <1>3, InvFacts, SendStep DEF m
<1>5. /\ net' = net \cup {x}
      /\ x.src = e
      /\ x.dst = d
      /\ x.msg.type = "Message"
      /\ x.msg.seqno = Last(e, d) + 1
      /\ x.msg.m = m
  BY <1>4 DEF Sends, Packet, Message, m
<1> HIDE DEF n, x
<1>6. \A h \in Host, c \in Client :
        RepliesSent(h, c)' = RepliesSent(h, c) \cup {q \in {x} : <<h, c>> = <<e, d>>}
  BY <1>2, <1>5 DEF RepliesSent
<1> SUFFICES ASSUME NEW h \in Host, NEW c \in Client PROVE Matched(h, c)'
  BY DEF RepliesMatchRequests
<1>7. Matched(h, c)
  BY DEF RepliesMatchRequests
<1>8. CASE <<h, c>> # <<e, d>>
  <2>1. RepliesSent(h, c)' = RepliesSent(h, c)
    BY <1>6, <1>8
  <2>2. ExecutedFor(h, c)' = ExecutedFor(h, c)
    <3>1. CASE h = e
      BY <1>1, <1>8, <3>1
    <3>2. CASE h # e
      BY <1>1, <3>2 DEF ExecutedFor
    <3> QED
      BY <3>1, <3>2
  <2>3. \A i \in ExecutedFor(h, c) : received_requests'[h][i] = received_requests[h][i]
    BY <1>1
  <2> QED
    BY <1>7, <2>1, <2>2, <2>3, SamePlaces
<1>9. CASE <<h, c>> = <<e, d>>
  <2> DEFINE E == ExecutedFor(e, d)
             R == RepliesSent(e, d)
  <2>1. /\ E' = E \cup {n}
        /\ R' = R \cup {x}
        /\ E \subseteq 1 .. n - 1
    BY <1>1, <1>6, <1>9
  <2>2. ASSUME NEW p \in R PROVE p.msg.seqno < x.msg.seqno /\ p.msg.seqno \in Nat
    <3>1. p \in net /\ p.src = e /\ p.dst = d /\ p.msg.type = "Message"
      BY DEF RepliesSent
    <3>2. p.msg.seqno \in Nat /\ Last(e, d) \in Nat
      BY <3>1, InvFacts, PacketTypes, LinkTypes DEF NetOK
    <3>3. p.msg.seqno <= Last(e, d)
      BY <3>1, InvFacts DEF DeliveryInv, MessagesKnown
    <3> QED
      BY <1>5, <3>2, <3>3
  <2>3. PICK reply \in [E -> R] :
          /\ \A p \in R : \E i \in E : reply[i] = p
          /\ \A i, j \in E : i < j => reply[i].msg.seqno < reply[j].msg.seqno
          /\ \A i \in E : reply[i].msg.m =
                Reply(received_requests[e][i].request.msg.m.k, received_requests[e][i].v)
    BY <1>7, <1>9 DEF Matched
  <2> DEFINE f == [i \in E \cup {n} |-> IF i = n THEN x ELSE reply[i]]
  <2> HIDE DEF E, R
  <2>4. n \notin E /\ \A i \in E : i < n /\ f[i] = reply[i]
    <3>1. n \in Nat /\ \A i \in E : i \in 1 .. n - 1
      BY <1>1, <2>1
    <3>2. n \notin E /\ \A i \in E : i < n /\ i # n
      BY <3>1
    <3> QED
      BY <3>2
  <2>5. f[n] = x
    OBVIOUS
  <2>6. f \in [E \cup {n} -> R \cup {x}]
    OBVIOUS
  <2>7. \A p \in R \cup {x} : \E i \in E \cup {n} : f[i] = p
    BY <2>3, <2>4, <2>5
  <2>8. \A i, j \in E \cup {n} : i < j => f[i].msg.seqno < f[j].msg.seqno
    <3>1. ASSUME NEW i \in E, NEW j \in E, i < j PROVE f[i].msg.seqno < f[j].msg.seqno
      BY <2>3, <2>4, <3>1
    <3>2. ASSUME NEW i \in E PROVE f[i].msg.seqno < f[n].msg.seqno /\ ~(n < i)
      BY <1>1, <2>1, <2>2, <2>3, <2>4, <2>5
    <3>3. ~(n < n)
      BY <1>1
    <3> HIDE DEF f
    <3> QED
      BY <3>1, <3>2, <3>3
  <2>9. \A i \in E \cup {n} : f[i].msg.m =
            Reply(received_requests'[e][i].request.msg.m.k, received_requests'[e][i].v)
    <3>1. ASSUME NEW i \in E
          PROVE  f[i].msg.m = Reply(received_requests'[e][i].request.msg.m.k, received_requests'[e][i].v)
      <4>1. received_requests'[e][i] = received_requests[e][i]
        BY <1>1, <2>1
      <4> QED
        BY <2>3, <2>4, <4>1
    <3>2. f[n].msg.m = Reply(received_requests'[e][n].request.msg.m.k, received_requests'[e][n].v)
      BY <1>1, <1>5, <2>5 DEF m
    <3> HIDE DEF f
    <3> QED
      BY <3>1, <3>2
  <2> HIDE DEF f
  <2>10. /\ f \in [E' -> R']
         /\ \A p \in R' : \E i \in E' : f[i] = p
         /\ \A i, j \in E' : i < j => f[i].msg.seqno < f[j].msg.seqno
         /\ \A i \in E' : f[i].msg.m =
               Reply(received_requests'[e][i].request.msg.m.k, received_requests'[e][i].v)
    BY <2>1, <2>6, <2>7, <2>8, <2>9
  <2>11. f \in [ExecutedFor(e, d)' -> RepliesSent(e, d)']
    BY <2>10 DEF E, R
  <2>12. \A p \in RepliesSent(e, d)' : \E i \in ExecutedFor(e, d)' : f[i] = p
    BY <2>10 DEF E, R
  <2> QED
    BY <1>9, <2>10, <2>11, <2>12 DEF Matched, Reply, E, R
<1> QED
  BY <1>8, <1>9

\* A request that is not executed: it is refused or redirected.
LEMMA NoReply ==
    ASSUME RepliesMatchRequests, UNCHANGED received_requests,
           \/ SendsNothing
           \/ \E e, d, m : Sends(e, d, m) /\ m.type # "Reply"
    PROVE  RepliesMatchRequests'
<1>1. CASE SendsNothing
  BY <1>1, NothingReplied DEF SendsNothing
<1>2. ASSUME NEW e, NEW d, NEW m, Sends(e, d, m), m.type # "Reply"
      PROVE  RepliesMatchRequests'
  <2>1. net' = net \cup {Packet(e, d, NextMessage(sd[e], d, m))}
    BY <1>2 DEF Sends
  <2>2. Packet(e, d, NextMessage(sd[e], d, m)).msg.m = m
    BY DEF Packet, NextMessage, Message
  <2> QED
    BY <1>2, <2>1, <2>2, NothingReplied
<1> QED
  BY <1>1, <1>2

LEMMA GetRequestMatches ==
    ASSUME Inv, RepliesMatchRequests, NEW e \in Host, NextGetRequest(e)
    PROVE  RepliesMatchRequests'
<1>1. PICK k \in Key :
        /\ Takes(e, GetRequest(k))
        /\ IF CanSend(sd[e], received_packet[e].src)
           THEN /\ Sends(e, received_packet[e].src, Answer(e, k, ht[e][k]))
                /\ \/ delegation_map[e][k] = e /\ Executes(e, ht[e][k])
                   \/ delegation_map[e][k] # e /\ UNCHANGED received_requests
           ELSE SendsNothing /\ UNCHANGED received_requests
  BY DEF NextGetRequest
<1>2. /\ Buffered(e)
      /\ received_packet[e].msg.m.k = k
      /\ received_packet' = [received_packet EXCEPT ![e] = NoPacket]
  BY <1>1 DEF Takes, GetRequest
<1>3. ht[e][k] \in OptionalValue
  BY DEF Inv, TypeOK, Hashtable
<1>4. received_packet[e].src \in EndPoint /\ Answer(e, k, ht[e][k]) \in CMessage
  BY <1>2, <1>3, BufferTypes, AnswerTypes DEF Inv
<1>5. CASE ~(/\ CanSend(sd[e], received_packet[e].src)
             /\ delegation_map[e][k] = e
             /\ Executes(e, ht[e][k]))
  <2>1. delegation_map[e][k] # e => Answer(e, k, ht[e][k]).type = "Redirect"
    BY DEF Answer, Redirect
  <2> QED
    BY <1>1, <1>5, <2>1, NoReply
<1>6. CASE /\ CanSend(sd[e], received_packet[e].src)
           /\ delegation_map[e][k] = e
           /\ Executes(e, ht[e][k])
  <2>1. Answer(e, k, ht[e][k]) = Reply(k, ht[e][k])
    BY <1>6 DEF Answer
  <2> QED
    BY <1>1, <1>2, <1>4, <1>6, <2>1, ReplyMatches
<1> QED
  BY <1>1, <1>5, <1>6

LEMMA SetRequestMatches ==
    ASSUME Inv, RepliesMatchRequests, NEW e \in Host, NextSetRequest(e)
    PROVE  RepliesMatchRequests'
<1>1. PICK k \in Key, v \in OptionalValue :
        /\ Takes(e, SetRequest(k, v))
        /\ IF v \notin Oversized /\ CanSend(sd[e], received_packet[e].src)
           THEN /\ Sends(e, received_packet[e].src, Answer(e, k, v))
                /\ \/ delegation_map[e][k] = e /\ Executes(e, v)
                   \/ delegation_map[e][k] # e /\ UNCHANGED received_requests
           ELSE SendsNothing /\ UNCHANGED received_requests
  BY DEF NextSetRequest, OptionalValue
<1>2. /\ Buffered(e)
      /\ received_packet[e].msg.m.k = k
      /\ received_packet' = [received_packet EXCEPT ![e] = NoPacket]
  BY <1>1 DEF Takes, SetRequest
<1>3. received_packet[e].src \in EndPoint /\ Answer(e, k, v) \in CMessage
  BY <1>2, BufferTypes, AnswerTypes DEF Inv
<1>4. CASE ~(/\ CanSend(sd[e], received_packet[e].src)
             /\ delegation_map[e][k] = e
             /\ Executes(e, v)
             /\ Sends(e, received_packet[e].src, Answer(e, k, v)))
  <2>1. delegation_map[e][k] # e => Answer(e, k, v).type = "Redirect"
    BY DEF Answer, Redirect
  <2> QED
    BY <1>1, <1>4, <2>1, NoReply
<1>5. CASE /\ CanSend(sd[e], received_packet[e].src)
           /\ delegation_map[e][k] = e
           /\ Executes(e, v)
           /\ Sends(e, received_packet[e].src, Answer(e, k, v))
  <2>1. Answer(e, k, v) = Reply(k, v)
    BY <1>5 DEF Answer
  <2> QED
    BY <1>2, <1>3, <1>5, <2>1, ReplyMatches
<1> QED
  BY <1>1, <1>4, <1>5

\* The steps of a host, whatever clients do.
LEMMA HostMatches ==
    ASSUME Inv, RepliesMatchRequests, NEW e \in Host, HostNext(e)
    PROVE  RepliesMatchRequests'
<1>1. ASSUME NEW p \in net, ReceivePacket(e, p)
      PROVE  RepliesMatchRequests'
  <2>1. net' = net \cup MaybeAck(sd'[e], p) /\ UNCHANGED received_requests
    BY <1>1 DEF ReceivePacket
  <2>2. \A q \in MaybeAck(sd'[e], p) : q.msg.type = "Ack"
    BY DEF MaybeAck, Packet, Ack
  <2> QED
    BY <2>1, <2>2, NothingReplied
<1>2. CASE NextDelegate(e) \/ NextReplyOrRedirect(e) \/ Halts(e) \/ RetransmitUnAckedPackets(e)
  <2>1. UNCHANGED <<net, received_requests>>
    BY <1>2, RetransmitsNothingNew
       DEF NextDelegate, NextReplyOrRedirect, SendsNothing, Halts, RetransmitUnAckedPackets
  <2> QED
    BY <2>1, NothingReplied
<1>3. CASE NextShard(e)
  <2>1. UNCHANGED received_requests
    BY <1>3 DEF NextShard
  <2>2. PICK lo \in KeyIterator, hi \in KeyIterator, recipient \in EndPoint :
          \/ Sends(e, recipient, Delegate(lo, hi, ExtractRange(ht[e], lo, hi)))
          \/ SendsNothing
    BY <1>3 DEF NextShard
  <2>3. Delegate(lo, hi, ExtractRange(ht[e], lo, hi)).type = "Delegate"
    BY DEF Delegate
  <2> QED
    BY <2>1, <2>2, <2>3, NoReply
<1> QED
  BY <1>1, <1>2, <1>3, GetRequestMatches, SetRequestMatches DEF HostNext, ProcessReceivedPacket

LEMMA NextMatches == Inv /\ RepliesMatchRequests /\ [Next]_vars => RepliesMatchRequests'
<1> SUFFICES ASSUME Inv, RepliesMatchRequests, [Next]_vars PROVE RepliesMatchRequests'
  OBVIOUS
<1>1. ASSUME NEW c \in Client, NEW h \in Host, NEW m \in Request[h], ClientRequest(c, h, m)
      PROVE  RepliesMatchRequests'
  <2> DEFINE q == Packet(c, h, Message(Cardinality(Submitted(c, h)) + 1, h, m))
  <2>1. net' = net \cup {q} /\ q.src = c
    BY <1>1 DEF ClientRequest, Packet
  <2>2. UNCHANGED received_requests
    BY <1>1 DEF ClientRequest
  <2> HIDE DEF q
  <2> QED
    BY <2>1, <2>2, NothingReplied, ShtAssumption
<1>2. ASSUME NEW c \in Acking, NEW p \in net, ClientAck(c, p)
      PROVE  RepliesMatchRequests'
  <2> DEFINE q == Packet(c, p.src, Ack(p.msg.seqno))
  <2>1. net' = net \cup {q} /\ q.src = c
    BY <1>2 DEF ClientAck, Packet
  <2>2. UNCHANGED received_requests
    BY <1>2 DEF ClientAck
  <2> HIDE DEF q
  <2> QED
    BY <2>1, <2>2, NothingReplied, ShtAssumption
<1>3. CASE UNCHANGED vars
  BY <1>3, NothingReplied DEF vars
<1> QED
  BY <1>1, <1>2, <1>3, HostMatches DEF Next

LEMMA InitMatches == Init => RepliesMatchRequests
<1> SUFFICES ASSUME Init, NEW e \in Host, NEW c \in Client PROVE Matched(e, c)
  BY DEF RepliesMatchRequests
<1>1. ExecutedFor(e, c) = {} /\ RepliesSent(e, c) = {}
  BY DEF Init, ExecutedFor, RepliesSent
<1>2. [i \in {} |-> e] \in [{} -> {}]
  OBVIOUS
<1> QED
  BY <1>1, <1>2 DEF Matched

\* Every reply of a host answers a request that took effect, with the value
\* it had then, in the order in which the requests were executed; and every
\* request that took effect has its reply, under a number of its own.
THEOREM RepliesMatch == Spec => []RepliesMatchRequests
<1> QED
  BY InitInv, NextInv, InitMatches, NextMatches, PTL DEF Spec

-----------------------------------------------------------------------------
(***************************************************************************)
(* HostProtocol: the hosts of Sht take only steps that the trusted         *)
(* protocol allows.                                                        *)
(***************************************************************************)
LEMMA InvParts ==
    ASSUME Inv
    PROVE  /\ SdOK
           /\ NetOK
           /\ DeliveryInv
           /\ Host \subseteq EndPoint
           /\ Host \cap Client = {}
           /\ ht \in [Host -> Hashtable]
           /\ delegation_map \in [Host -> [Key -> Host]]
           /\ num_delegations \in [Host -> 1 .. MaxDelegations - 1]
           /\ MaxDelegations \in Nat
  BY TypesOfInv, ShtAssumption DEF Inv, TypeOK

LEMMA SameKeys ==
    /\ Protocol!Key = Key
    /\ \A lo, k, hi : Protocol!Between(lo, k, hi) <=> Between(lo, k, hi)
    /\ \A map, lo, hi, h : Protocol!SetRange(map, lo, hi, h) = SetRange(map, lo, hi, h)
    /\ \A map, lo, hi, h :
          Protocol!DelegateForRangeIs(map, lo, hi, h) <=> DelegateForRangeIs(map, lo, hi, h)
  BY DEF Protocol!Key, Key, Protocol!Between, Between, Protocol!SetRange, SetRange,
         Protocol!DelegateForRangeIs, DelegateForRangeIs

-----------------------------------------------------------------------------
(***************************************************************************)
(* The delivery layer.                                                     *)
(***************************************************************************)
LEMMA AckAllowed ==
    ASSUME Inv, NEW e \in Host, NEW p \in net, ReceivePacket(e, p), p.msg.type = "Ack"
    PROVE  Protocol!ReceiveAck(e, p)
<1> DEFINE s == p.src
           a == Acked(e, s)
           u == UnAcked(e, s)
           n == p.msg.ack_seqno
<1>1. /\ s \in EndPoint
      /\ p.dst = e
      /\ n \in Nat
  BY InvParts, PacketTypes DEF NetOK, ReceivePacket
<1>2. n <= Last(e, s)
  BY <1>1, InvParts DEF DeliveryInv, AcksKnown
<1>3. /\ sd[e] \in SingleDeliveryState
      /\ a \in Nat
      /\ u \in Seq(DataMessage)
      /\ Len(u) \in Nat
  BY <1>1, InvParts, LinkTypes
<1>4. sd' = [sd EXCEPT ![e] = ReceiveAck(sd[e], p)]
  BY DEF ReceivePacket, ReceiveSingleMessage
<1>5. CASE n <= a
  <2>1. UNCHANGED sd
    BY <1>4, <1>5, InvParts DEF ReceiveAck, Acked, SdOK
  <2>2. ~(n > a)
    BY <1>1, <1>3, <1>5
  <2> QED
    BY <2>1, <2>2 DEF Protocol!ReceiveAck, Protocol!AckState, Acked
<1>6. CASE ~(n <= a)
  <2>1. \A i \in 1 .. Len(u) : u[i].seqno = a + i
    BY <1>1, InvParts, Numbered DEF DeliveryInv
  <2>2. a <= n /\ n <= a + Len(u)
    BY <1>1, <1>2, <1>3, <1>6 DEF Last
  <2>3. Covered(u, n) = n - a /\ n - a \in 0 .. Len(u)
    <3> HIDE DEF a, u, n
    <3> QED
      BY <1>1, <1>3, <2>1, <2>2, CoveredSequential
  <2>4. Protocol!TruncatesBy(u, n, n - a)
    <3> HIDE DEF a, u, n
    <3>1. \A i \in 1 .. n - a : u[i].seqno <= n
      BY <1>1, <1>3, <2>1, <2>2
    <3>2. ASSUME n - a < Len(u) PROVE u[n - a + 1].seqno > n
      <4>1. n - a + 1 \in 1 .. Len(u) /\ a + (n - a + 1) = n + 1
        BY <1>1, <1>3, <2>2, <3>2
      <4>2. u[n - a + 1].seqno = n + 1
        BY <2>1, <4>1
      <4> QED
        BY <1>1, <4>2
    <3> QED
      BY <3>1, <3>2 DEF Protocol!TruncatesBy
  <2>5. sd' = [sd EXCEPT ![e] = [sd[e] EXCEPT !.send_state[s] =
                  [num_packets_acked |-> n, un_acked |-> SubSeq(u, Covered(u, n) + 1, Len(u))]]]
    BY <1>4, <1>6 DEF ReceiveAck, PutAckState, Truncate, Acked, UnAcked
  <2>6. Protocol!SetAckState(e, s,
            [num_packets_acked |-> n, un_acked |-> SubSeq(u, (n - a) + 1, Len(u))])
    BY <2>3, <2>5 DEF Protocol!SetAckState
  <2>7. n > a
    BY <1>1, <1>3, <1>6
  <2> QED
    BY <2>3, <2>4, <2>6, <2>7 DEF Protocol!ReceiveAck, Protocol!AckState, Acked, UnAcked
<1> QED
  BY <1>5, <1>6

LEMMA ReceiveAllowed ==
    ASSUME Inv, NEW e \in Host, NEW p \in net, ReceivePacket(e, p)
    PROVE  Protocol!ReceivePacket(e, p)
<1>1. /\ p.msg.type = "Ack" \/ p.msg.type = "Message"
      /\ p.src \in EndPoint
      /\ p.msg.type = "Message" => p.msg.seqno \in Nat
  BY InvParts, PacketTypes DEF NetOK
<1>2. sd[e].receive_state[p.src] \in Nat
  BY <1>1, InvParts, LinkTypes DEF Tombstone
<1>3. NewSingleMessage(sd[e], p) <=> Protocol!NewSingleMessage(e, p)
  BY <1>1, <1>2 DEF NewSingleMessage, Protocol!NewSingleMessage
<1>4. /\ p.dst = e
      /\ received_packet[e] = NoPacket
      /\ received_packet' =
            [received_packet EXCEPT ![e] = IF Protocol!NewSingleMessage(e, p) THEN p ELSE NoPacket]
      /\ UNCHANGED <<delegation_map, ht, num_delegations, received_requests>>
      /\ net' = net \cup MaybeAck(sd'[e], p)
      /\ sd' = [sd EXCEPT ![e] = ReceiveSingleMessage(sd[e], p)]
  BY <1>3 DEF ReceivePacket
<1>5. CASE p.msg.type = "Ack"
  <2>1. UNCHANGED net
    BY <1>4, <1>5 DEF MaybeAck
  <2> QED
    BY <1>4, <1>5, <2>1, AckAllowed DEF Protocol!ReceivePacket, Protocol!tableVars
<1>6. CASE p.msg.type = "Message"
  <2>1. MaybeAck(sd'[e], p) = Protocol!MaybeAckPacket(e, p)
    BY <1>6 DEF MaybeAck, Packet, Ack, Protocol!MaybeAckPacket
  <2>2. Protocol!ReceiveRealPacket(e, p)
    <3>1. sd' = [sd EXCEPT ![e] = ReceiveRealPacket(sd[e], p)]
      BY <1>4, <1>6 DEF ReceiveSingleMessage
    <3>2. CASE NewSingleMessage(sd[e], p)
      <4>1. ReceiveRealPacket(sd[e], p) =
                [sd[e] EXCEPT !.receive_state[p.src] = sd[e].receive_state[p.src] + 1]
        BY <3>2 DEF ReceiveRealPacket
      <4>2. sd[e].receive_state[p.src] + 1 = p.msg.seqno
        BY <1>1, <1>2, <3>2 DEF NewSingleMessage
      <4> QED
        BY <1>3, <3>1, <3>2, <4>1, <4>2 DEF Protocol!ReceiveRealPacket
    <3>3. CASE ~NewSingleMessage(sd[e], p)
      <4>1. UNCHANGED sd
        BY <3>1, <3>3, InvParts DEF ReceiveRealPacket, SdOK
      <4> QED
        BY <1>3, <3>3, <4>1 DEF Protocol!ReceiveRealPacket
    <3> QED
      BY <3>2, <3>3
  <2> QED
    BY <1>4, <1>6, <2>1, <2>2 DEF Protocol!ReceivePacket, Protocol!tableVars
<1> QED
  BY <1>1, <1>5, <1>6

LEMMA SendAllowed ==
    ASSUME Inv, NEW e \in Host, NEW d \in EndPoint, NEW m, CanSend(sd[e], d), Sends(e, d, m)
    PROVE  Protocol!SendSingleMessage(e, d, m)
<1> DEFINE a == Acked(e, d)
           u == UnAcked(e, d)
           sm == [type |-> "Message", seqno |-> a + Len(u) + 1, dst |-> d, m |-> m]
<1>1. a \in Nat /\ Len(u) \in Nat
  BY InvParts, LinkTypes
<1>2. a + Len(u) + 1 <= MaxSeqno
  <2>1. a + Len(u) <= MaxSeqno
    BY InvParts DEF DeliveryInv, LastFits, Last
  <2>2. MaxSeqno - a # Len(u)
    BY DEF CanSend, Acked, UnAcked
  <2> HIDE DEF a, u
  <2>3. a + Len(u) + 1 \in 0 .. MaxSeqno
    BY <1>1, <2>1, <2>2, MaxSeqnoAssumption, RoomForOneMore
  <2> QED
    BY <2>3, MaxSeqnoAssumption
<1>3. NextMessage(sd[e], d, m) = sm
  BY DEF NextMessage, LastSent, Message, Acked, UnAcked
<1>4. net' = net \cup {[src |-> e, dst |-> d, msg |-> sm]}
  BY <1>3 DEF Sends, Packet
<1>5. sd' = [sd EXCEPT ![e] = [sd[e] EXCEPT !.send_state[d] =
                [sd[e].send_state[d] EXCEPT !.un_acked = Append(sd[e].send_state[d].un_acked, sm)]]]
  <2>1. SendSingleMessage(sd[e], d, m) = [sd[e] EXCEPT !.send_state[d] =
            [sd[e].send_state[d] EXCEPT
                !.un_acked = Append(sd[e].send_state[d].un_acked, NextMessage(sd[e], d, m))]]
    BY DEF SendSingleMessage, PutAckState
  <2> QED
    BY <1>3, <2>1 DEF Sends
<1> QED
  BY <1>2, <1>4, <1>5
     DEF Protocol!SendSingleMessage, Protocol!AckState, Protocol!SetAckState, Acked, UnAcked

LEMMA CannotSend ==
    ASSUME Inv, NEW e \in Host, NEW d \in EndPoint, ~CanSend(sd[e], d)
    PROVE  Protocol!SeqnosUsedUp(e, d)
<1>1. Acked(e, d) \in Nat /\ Len(UnAcked(e, d)) \in Nat
  BY InvParts, LinkTypes
<1>2. MaxSeqno - Acked(e, d) = Len(UnAcked(e, d))
  BY DEF CanSend, Acked, UnAcked
<1>3. Acked(e, d) + Len(UnAcked(e, d)) + 1 > MaxSeqno
  BY <1>1, <1>2, MaxSeqnoAssumption
<1> QED
  BY <1>3 DEF Protocol!SeqnosUsedUp, Protocol!AckState, Acked, UnAcked

-----------------------------------------------------------------------------
(***************************************************************************)
(* The handlers.                                                           *)
(***************************************************************************)
LEMMA TakeAllowed ==
    ASSUME Inv, NEW e \in Host, NEW m, Takes(e, m)
    PROVE  /\ Protocol!ShouldProcess(e)
           /\ received_packet' = [received_packet EXCEPT ![e] = NoPacket]
           /\ Protocol!Processed(e) = m
           /\ received_packet[e].src \in EndPoint
<1>1. /\ received_packet[e] # NoPacket
      /\ received_packet[e].msg.m = m
      /\ ShouldProcess(e)
      /\ received_packet[e].src \in EndPoint
  BY BufferTypes DEF Takes, Buffered, Inv
<1>2. num_delegations[e] \in Nat /\ MaxDelegations \in Nat
  BY InvParts
<1>3. num_delegations[e] + 1 < MaxDelegations - 1 => num_delegations[e] < MaxDelegations - 2
  BY <1>2
<1> QED
  BY <1>1, <1>3 DEF Takes, ShouldProcess, Protocol!ShouldProcess, Protocol!Processed

LEMMA GetAllowed ==
    ASSUME Inv, NEW e \in Host, NextGetRequest(e)
    PROVE  Protocol!NextGetRequest(e) /\ (\E m : Takes(e, m))
<1>1. PICK k \in Key :
        /\ Takes(e, GetRequest(k))
        /\ IF CanSend(sd[e], received_packet[e].src)
           THEN /\ Sends(e, received_packet[e].src, Answer(e, k, ht[e][k]))
                /\ \/ delegation_map[e][k] = e /\ Executes(e, ht[e][k])
                   \/ delegation_map[e][k] # e /\ UNCHANGED received_requests
           ELSE SendsNothing /\ UNCHANGED received_requests
        /\ UNCHANGED <<delegation_map, ht, num_delegations>>
  BY DEF NextGetRequest
<1> DEFINE d == received_packet[e].src
           pm == Protocol!Processed(e)
<1>2. d \in EndPoint /\ pm.type = "GetRequest" /\ pm.k = k
  BY <1>1, TakeAllowed DEF GetRequest
<1>3. CASE ~CanSend(sd[e], d)
  BY <1>1, <1>2, <1>3
     DEF Protocol!NextGetRequest, Protocol!NoEffect, Protocol!tableVars, SendsNothing
<1>4. CASE CanSend(sd[e], d)
  <2>1. Protocol!SendSingleMessage(e, d, Answer(e, k, ht[e][k]))
    BY <1>1, <1>2, <1>4, SendAllowed
  <2>2. CASE delegation_map[e][k] = e
    <3>1. Protocol!Replies(e, k, ht[e][k])
      BY <1>1, <1>4, <2>1, <2>2 DEF Protocol!Replies, Answer, Reply, Executes
    <3> QED
      BY <1>1, <1>2, <3>1 DEF Protocol!NextGetRequest, Protocol!tableVars
  <2>3. CASE delegation_map[e][k] # e
    <3>1. Protocol!Redirects(e, k)
      BY <1>1, <1>4, <2>1, <2>3 DEF Protocol!Redirects, Answer, Redirect
    <3> QED
      BY <1>1, <1>2, <3>1 DEF Protocol!NextGetRequest, Protocol!tableVars
  <2> QED
    BY <2>2, <2>3
<1> QED
  BY <1>1, <1>3, <1>4

LEMMA SetAllowed ==
    ASSUME Inv, NEW e \in Host, NextSetRequest(e)
    PROVE  Protocol!NextSetRequest(e) /\ (\E m : Takes(e, m))
<1>1. PICK k \in Key, v \in OptionalValue :
        /\ Takes(e, SetRequest(k, v))
        /\ IF v \notin Oversized /\ CanSend(sd[e], received_packet[e].src)
           THEN /\ Sends(e, received_packet[e].src, Answer(e, k, v))
                /\ \/ /\ delegation_map[e][k] = e
                      /\ ht' = [ht EXCEPT ![e][k] = v]
                      /\ Executes(e, v)
                   \/ /\ delegation_map[e][k] # e
                      /\ UNCHANGED <<ht, received_requests>>
           ELSE SendsNothing /\ UNCHANGED <<ht, received_requests>>
        /\ UNCHANGED <<delegation_map, num_delegations>>
  BY DEF NextSetRequest, OptionalValue
<1> DEFINE d == received_packet[e].src
           pm == Protocol!Processed(e)
<1>2. d \in EndPoint /\ pm.type = "SetRequest" /\ pm.k = k /\ pm.v = v
  BY <1>1, TakeAllowed DEF SetRequest
<1>3. CASE ~(v \notin Oversized /\ CanSend(sd[e], d))
  BY <1>1, <1>2, <1>3
     DEF Protocol!NextSetRequest, Protocol!NoEffect, Protocol!tableVars, SendsNothing
<1>4. CASE v \notin Oversized /\ CanSend(sd[e], d)
  <2>1. Protocol!SendSingleMessage(e, d, Answer(e, k, v))
    BY <1>1, <1>2, <1>4, SendAllowed
  <2>2. CASE delegation_map[e][k] = e
    <3>1. Protocol!Replies(e, k, v)
      BY <1>1, <1>4, <2>1, <2>2 DEF Protocol!Replies, Answer, Reply, Executes
    <3>2. ht' = [ht EXCEPT ![e] = [ht[e] EXCEPT ![k] = v]]
      BY <1>1, <1>4, <2>2
    <3> QED
      BY <1>1, <1>2, <1>4, <3>1, <3>2 DEF Protocol!NextSetRequest
  <2>3. CASE delegation_map[e][k] # e
    <3>1. Protocol!Redirects(e, k)
      BY <1>1, <1>4, <2>1, <2>3 DEF Protocol!Redirects, Answer, Redirect
    <3> QED
      BY <1>1, <1>2, <1>4, <2>3, <3>1 DEF Protocol!NextSetRequest
  <2> QED
    BY <2>2, <2>3
<1> QED
  BY <1>1, <1>3, <1>4

LEMMA SameCardinality == \A S : Protocol!Cardinality(S) = Cardinality(S)
  BY DEF Cardinality, Protocol!Cardinality

\* The bound of a table's size is compared with a natural number.
LEMMA TableSize ==
    ASSUME NEW table
    PROVE  /\ Domain(table) = Protocol!Keyset(table)
           /\ FewEnough(table) <=> ~(Cardinality(Protocol!Keyset(table)) >= MaxTable)
<1>1. Domain(table) = Protocol!Keyset(table)
  BY SameKeys DEF Domain, Protocol!Keyset
<1>2. IsFiniteSet(Key)
  BY FS_Interval, KeysAssumption DEF Key
<1>3. IsFiniteSet(Domain(table))
  <2>1. Domain(table) \subseteq Key
    BY DEF Domain
  <2> QED
    BY <1>2, <2>1, FS_Subset
<1>4. Cardinality(Domain(table)) \in Nat
  BY <1>3, FS_CardinalityType
<1>5. MaxTable \in Nat
  BY ShtAssumption
<1> QED
  BY <1>1, <1>4, <1>5 DEF FewEnough

LEMMA DelegateAllowed ==
    ASSUME Inv, NEW e \in Host, NextDelegate(e)
    PROVE  /\ Protocol!NextDelegate(e) \/ Protocol!IgnoreNonsensicalDelegationPacket(e)
           /\ \E m : Takes(e, m)
<1>1. PICK lo \in KeyIterator, hi \in KeyIterator, h \in Hashtable :
        /\ Takes(e, Delegate(lo, hi, h))
        /\ IF lo < hi /\ ValidHashtable(h) /\ received_packet[e].src \in Host
           THEN /\ delegation_map' = [delegation_map EXCEPT ![e] = SetRange(@, lo, hi, e)]
                /\ ht' = [ht EXCEPT ![e] = BulkUpdate(@, lo, hi, h)]
                /\ num_delegations' = [num_delegations EXCEPT ![e] = @ + 1]
           ELSE UNCHANGED <<delegation_map, ht, num_delegations>>
        /\ SendsNothing
        /\ UNCHANGED received_requests
  BY DEF NextDelegate, Hashtable, OptionalValue
<1> DEFINE pm == Protocol!Processed(e)
<1>2. pm.type = "Delegate" /\ pm.lo = lo /\ pm.hi = hi /\ pm.h = h
  BY <1>1, TakeAllowed DEF Delegate
<1>3. CASE lo < hi /\ ValidHashtable(h) /\ received_packet[e].src \in Host
  <2>1. BulkUpdate(ht[e], lo, hi, h) = Protocol!BulkUpdate(ht[e], lo, hi, h)
    BY SameKeys DEF BulkUpdate, Protocol!BulkUpdate, Domain
  <2>2. /\ delegation_map' =
              [delegation_map EXCEPT ![e] = Protocol!SetRange(delegation_map[e], lo, hi, e)]
        /\ ht' = [ht EXCEPT ![e] = Protocol!BulkUpdate(ht[e], lo, hi, h)]
        /\ num_delegations' = [num_delegations EXCEPT ![e] = @ + 1]
    BY <1>1, <1>3, <2>1, SameKeys
  <2> QED
    BY <1>1, <1>2, <1>3, <2>2 DEF Protocol!NextDelegate, SendsNothing
<1>4. CASE received_packet[e].src \notin Host
  BY <1>1, <1>2, <1>4
     DEF Protocol!NextDelegate, Protocol!NoEffect, Protocol!tableVars, SendsNothing
<1>5. CASE ~(lo < hi /\ ValidHashtable(h))
  <2>0. ~(lo < hi) => hi <= lo
    BY KeysAssumption DEF KeyIterator
  <2>1. \/ hi <= lo
        \/ Cardinality(Protocol!Keyset(h)) >= MaxTable
        \/ \E k \in Key : h[k] \in Oversized
    BY <1>5, <2>0, TableSize DEF ValidHashtable, Domain
  <2>2. Protocol!NoEffect
    BY <1>1, <1>5 DEF Protocol!NoEffect, Protocol!tableVars, SendsNothing
  <2> HIDE DEF pm
  <2>3. \/ pm.hi <= pm.lo
        \/ Cardinality(Protocol!Keyset(pm.h)) >= MaxTable
        \/ \E k \in Protocol!Key : pm.h[k] \in Oversized
    BY <1>2, <2>1, SameKeys
  <2>4. Protocol!IgnoreNonsensicalDelegationPacket(e)
    BY <1>2, <2>2, <2>3, SameCardinality, Zenon
       DEF Protocol!IgnoreNonsensicalDelegationPacket, pm
  <2> QED
    BY <1>1, <2>4
<1> QED
  BY <1>1, <1>3, <1>4, <1>5

LEMMA ShardAllowed ==
    ASSUME Inv, NEW e \in Host, NextShard(e)
    PROVE  Protocol!NextShard(e) /\ (\E m : Takes(e, m))
<1>1. PICK lo \in KeyIterator, hi \in KeyIterator, recipient \in EndPoint :
        /\ Takes(e, Shard(lo, hi, recipient))
        /\ \/ /\ CanDelegate(e, lo, hi, recipient)
              /\ CanSend(sd[e], recipient)
              /\ Sends(e, recipient, Delegate(lo, hi, ExtractRange(ht[e], lo, hi)))
              /\ delegation_map' = [delegation_map EXCEPT ![e] = SetRange(@, lo, hi, recipient)]
              /\ ht' = [ht EXCEPT ![e] = BulkRemove(@, lo, hi)]
              /\ num_delegations' = [num_delegations EXCEPT ![e] = @ + 1]
           \/ /\ CanDelegate(e, lo, hi, recipient)
              /\ ~CanSend(sd[e], recipient)
              /\ SendsNothing
              /\ num_delegations' = [num_delegations EXCEPT ![e] = @ + 1]
              /\ UNCHANGED <<delegation_map, ht>>
           \/ /\ ~CanDelegate(e, lo, hi, recipient)
              /\ SendsNothing
              /\ UNCHANGED <<delegation_map, ht, num_delegations>>
        /\ UNCHANGED received_requests
  BY DEF NextShard
<1> DEFINE pm == Protocol!Processed(e)
<1>2. pm.type = "Shard" /\ pm.lo = lo /\ pm.hi = hi /\ pm.recipient = recipient
  BY <1>1, TakeAllowed DEF Shard
<1>3. /\ ExtractRange(ht[e], lo, hi) = Protocol!ExtractRange(ht[e], pm)
      /\ BulkRemove(ht[e], lo, hi) = Protocol!BulkRemove(ht[e], pm)
  BY <1>2, SameKeys
     DEF ExtractRange, BulkRemove, Protocol!ExtractRange, Protocol!BulkRemove
<1>4. CanDelegate(e, lo, hi, recipient) <=> ~Protocol!MustReject(e, pm)
  <2>1. lo < hi <=> ~(hi <= lo)
    BY KeysAssumption DEF KeyIterator
  <2>2. FewEnough(ExtractRange(ht[e], lo, hi)) <=>
            ~(Cardinality(Protocol!Keyset(Protocol!ExtractRange(ht[e], pm))) >= MaxTable)
    BY <1>3, TableSize
  <2> HIDE DEF pm
  <2>3. Protocol!MustReject(e, pm) <=>
          \/ recipient = e
          \/ hi <= lo
          \/ recipient \notin Host
          \/ ~DelegateForRangeIs(delegation_map[e], lo, hi, e)
          \/ Cardinality(Protocol!Keyset(Protocol!ExtractRange(ht[e], pm))) >= MaxTable
    <3>1. Protocol!DelegateForRangeIs(delegation_map[e], pm.lo, pm.hi, e)
            <=> DelegateForRangeIs(delegation_map[e], lo, hi, e)
      BY <1>2, SameKeys
    <3>2. /\ pm.recipient = e <=> recipient = e
          /\ pm.recipient \notin Host <=> recipient \notin Host
          /\ pm.hi <= pm.lo <=> hi <= lo
      BY <1>2
    <3> QED
      BY <3>1, <3>2, SameCardinality, Zenon DEF Protocol!MustReject
  <2> QED
    BY <2>1, <2>2, <2>3 DEF CanDelegate
<1> HIDE DEF pm
<1>5. CASE CanDelegate(e, lo, hi, recipient) /\ CanSend(sd[e], recipient)
  <2>1. /\ Sends(e, recipient, Delegate(lo, hi, ExtractRange(ht[e], lo, hi)))
        /\ delegation_map' =
              [delegation_map EXCEPT ![e] = SetRange(delegation_map[e], lo, hi, recipient)]
        /\ ht' = [ht EXCEPT ![e] = BulkRemove(ht[e], lo, hi)]
        /\ num_delegations' = [num_delegations EXCEPT ![e] = @ + 1]
        /\ UNCHANGED received_requests
    BY <1>1, <1>5
  <2>2. Protocol!SendSingleMessage(e, recipient,
            [type |-> "Delegate", lo |-> lo, hi |-> hi, h |-> Protocol!ExtractRange(ht[e], pm)])
    <3>1. Protocol!SendSingleMessage(e, recipient, Delegate(lo, hi, ExtractRange(ht[e], lo, hi)))
      BY <1>5, <2>1, SendAllowed
    <3> QED
      BY <1>3, <3>1 DEF Delegate
  <2>3. /\ delegation_map' = [delegation_map EXCEPT
                ![e] = Protocol!SetRange(delegation_map[e], lo, hi, recipient)]
        /\ ht' = [ht EXCEPT ![e] = Protocol!BulkRemove(ht[e], pm)]
    BY <1>3, <2>1, SameKeys
  <2> QED
    BY <1>1, <1>2, <1>4, <1>5, <2>1, <2>2, <2>3 DEF Protocol!NextShard, pm
<1>6. CASE CanDelegate(e, lo, hi, recipient) /\ ~CanSend(sd[e], recipient)
  <2>1. Protocol!SeqnosUsedUp(e, recipient)
    BY <1>6, CannotSend
  <2>2. /\ num_delegations' = [num_delegations EXCEPT ![e] = @ + 1]
        /\ UNCHANGED <<sd, delegation_map, ht, received_requests, net>>
    BY <1>1, <1>6 DEF SendsNothing
  <2> QED
    BY <1>1, <1>2, <1>4, <1>6, <2>1, <2>2 DEF Protocol!NextShard, pm
<1>7. CASE ~CanDelegate(e, lo, hi, recipient)
  <2>1. Protocol!NoEffect
    BY <1>1, <1>7 DEF SendsNothing, Protocol!NoEffect, Protocol!tableVars
  <2> QED
    BY <1>1, <1>2, <1>4, <1>7, <2>1 DEF Protocol!NextShard, pm
<1> QED
  BY <1>5, <1>6, <1>7

LEMMA ProcessAllowed ==
    ASSUME Inv, NEW e \in Host, ProcessReceivedPacket(e), ~Halts(e)
    PROVE  Protocol!ProcessReceivedPacket(e)
<1>1. ASSUME NEW m, Takes(e, m)
      PROVE  /\ Protocol!ShouldProcess(e)
             /\ received_packet' = [received_packet EXCEPT ![e] = NoPacket]
  BY <1>1, TakeAllowed
<1>2. CASE NextGetRequest(e)
  BY <1>1, <1>2, GetAllowed DEF Protocol!ProcessReceivedPacket
<1>3. CASE NextSetRequest(e)
  BY <1>1, <1>3, SetAllowed DEF Protocol!ProcessReceivedPacket
<1>4. CASE NextDelegate(e)
  BY <1>1, <1>4, DelegateAllowed DEF Protocol!ProcessReceivedPacket
<1>5. CASE NextShard(e)
  BY <1>1, <1>5, ShardAllowed DEF Protocol!ProcessReceivedPacket
<1>6. CASE NextReplyOrRedirect(e)
  <2>1. /\ Takes(e, received_packet[e].msg.m)
        /\ Protocol!Processed(e).type \in {"Reply", "Redirect"}
        /\ Protocol!NoEffect
    BY <1>6 DEF NextReplyOrRedirect, Protocol!Processed, Protocol!NoEffect, Protocol!tableVars,
                SendsNothing
  <2> QED
    BY <1>1, <2>1 DEF Protocol!ProcessReceivedPacket, Protocol!NextReplyOrRedirect
<1> QED
  BY <1>2, <1>3, <1>4, <1>5, <1>6 DEF ProcessReceivedPacket

-----------------------------------------------------------------------------
LEMMA InitAllowed == Init => Protocol!Init
  BY SameKeys DEF Init, Protocol!Init, EmptySingleDelivery, NewAckState, EmptyTable

LEMMA NextAllowed == Inv /\ [Next]_vars => [Protocol!Next]_(Protocol!vars)
<1> SUFFICES ASSUME Inv, [Next]_vars PROVE [Protocol!Next]_(Protocol!vars)
  OBVIOUS
<1> USE DEF Protocol!vars, Protocol!hostVars, Protocol!tableVars
<1>1. ASSUME NEW c \in Client, NEW h \in Host, NEW m \in Request[h], ClientRequest(c, h, m)
      PROVE  Protocol!Next
  BY <1>1, InvParts DEF ClientRequest, Packet, Protocol!Next, Protocol!OthersSend
<1>2. ASSUME NEW c \in Acking, NEW p \in net, ClientAck(c, p)
      PROVE  Protocol!Next
  <2>1. c \notin Host
    BY ShtAssumption
  <2> QED
    BY <1>2, <2>1 DEF ClientAck, Packet, Protocol!Next, Protocol!OthersSend
<1>3. ASSUME NEW e \in Host, HostNext(e)
      PROVE  [Protocol!Next]_(Protocol!vars)
  <2>1. CASE \E p \in net : ReceivePacket(e, p)
    BY <2>1, ReceiveAllowed DEF Protocol!Next, Protocol!HostNext
  <2>2. CASE ProcessReceivedPacket(e) /\ ~Halts(e)
    BY <2>2, ProcessAllowed DEF Protocol!Next, Protocol!HostNext
  <2>3. CASE Halts(e)
    BY <2>3 DEF Halts
  <2>4. CASE RetransmitUnAckedPackets(e)
    BY <2>4, RetransmitsNothingNew DEF RetransmitUnAckedPackets
  <2> QED
    BY <1>3, <2>1, <2>2, <2>3, <2>4 DEF HostNext
<1>4. CASE UNCHANGED vars
  BY <1>4 DEF vars
<1> QED
  BY <1>1, <1>2, <1>3, <1>4 DEF Next

\* Hosts that process packets as the code does keep to the trusted protocol,
\* however many there are and whatever they are sent.
THEOREM HostsFollowProtocol == Spec => ProtocolSpec
<1>1. Spec => []Inv
  BY InitInv, NextInv, PTL DEF Spec
<1> QED
  BY <1>1, InitAllowed, NextAllowed, PTL DEF Spec, ProtocolSpec, Protocol!Spec
=============================================================================
