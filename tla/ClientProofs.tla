---------------------------- MODULE ClientProofs ----------------------------
(***************************************************************************)
(* Proofs about the two loops of Client, Setup and Experiment, for any     *)
(* hosts, clients, keys, values and limits. What the hosts promise clients *)
(* that number requests in any way (ShtProofs) holds for these too.        *)
(***************************************************************************)
EXTENDS Client, ShtProofs

\* No client runs the sharding workload, whose acknowledgments go to the
\* server that was asked last, and may name a message of the other one.
LoopsOnly == \A c \in Client : ~Sharding(c)

\* A client asks for no key twice: that is how Setup goes through the keys,
\* and the experiment as long as it has fewer requests than keys.
NoKeyComesRound ==
    \A c \in Client : \A m, n \in 1 .. LastSeqNum(c) :
        RequestKey(c, m) = RequestKey(c, n) => m = n

-----------------------------------------------------------------------------
(***************************************************************************)
(* The invariant. The loops ask the first host alone, which keeps all the  *)
(* keys, so that each request it executes is answered with a reply.        *)
(***************************************************************************)
CountersOK ==
    /\ seqNum \in [Client -> Nat]
    /\ receivedReply \in [Client -> BOOLEAN]
    /\ \A c \in Client :
          /\ seqNum[c] <= LastSeqNum(c)
          /\ ~receivedReply[c] => 1 <= seqNum[c]

\* What a client sent is an encoding of a request it has made.
RequestsEncoded ==
    \A p \in net :
        p.src \in Client /\ p.msg.type = "Message" =>
            /\ p.msg.seqno \in 1 .. seqNum[p.src]
            /\ p \in Encodings(p.src, p.msg.seqno)

RootOwnsAll == \A e \in Host, k \in Key : delegation_map[e][k] = Root

Places == DOMAIN received_requests[Root]
ExecutedAt(i) == received_requests[Root][i].request

\* What a host sent is a reply to a client, and a request of the client for
\* that key was executed.
RepliesEarned ==
    \A p \in net :
        p.src \in Host /\ p.msg.type = "Message" =>
            /\ p.src = Root
            /\ p.dst \in Client
            /\ p.msg.m.type = "Reply"
            /\ \E i \in Places : ExecutedAt(i).src = p.dst /\ ExecutedAt(i).msg.m.k = p.msg.m.k

\* The requests of a client were executed in the order of their numbers, and
\* the one in the buffer comes after them.
ExecutedInOrder ==
    \A i \in Places :
        LET q == ExecutedAt(i)
        IN  /\ q \in net
            /\ q.src \in Client
            /\ q.msg.type = "Message"
            /\ q.msg.seqno <= Tombstone(Root, q.src)
            /\ received_packet[Root] # NoPacket /\ received_packet[Root].src = q.src =>
                   q.msg.seqno < received_packet[Root].msg.seqno
            /\ \A j \in Places :
                   j < i /\ ExecutedAt(j).src = q.src => ExecutedAt(j).msg.seqno < q.msg.seqno

LoopInv ==
    /\ CountersOK
    /\ RequestsEncoded
    /\ RootOwnsAll
    /\ RepliesEarned
    /\ ExecutedInOrder

ClientInv == Inv /\ AnswersCounted /\ LoopInv

\* If no value is too long, every request that was accepted was executed, or
\* is in the buffer.
AcceptedAreExecuted ==
    \A c \in Client : \A n \in 1 .. Tombstone(Root, c) :
        \/ Executed(c, n) # {}
        \/ /\ received_packet[Root] # NoPacket
           /\ received_packet[Root].src = c
           /\ received_packet[Root].msg.seqno = n

-----------------------------------------------------------------------------
(***************************************************************************)
(* What is in the network and in the buffers.                              *)
(***************************************************************************)
LEMMA RequestKeys ==
    ASSUME LoopsOnly, NEW c \in Client, NEW n \in 1 .. LastSeqNum(c)
    PROVE  RequestKey(c, n) \in Key /\ n \in Seqno /\ n \in Nat
<1> USE ClientAssumption, KeysAssumption, MaxSeqnoAssumption
<1>1. ~Sharding(c) /\ NumKeys \in Nat \ {0} /\ NumKeys <= Keys /\ MaxSeqNum \in Nat
  BY DEF LoopsOnly
<1>2. CASE Setup(c)
  BY <1>1, <1>2 DEF LastSeqNum, RequestKey, Key, Seqno
<1>3. CASE ~Setup(c)
  <2>1. n \in 1 .. MaxSeqNum
    BY <1>1, <1>3 DEF LastSeqNum
  <2>2. n % NumKeys \in 0 .. NumKeys - 1
    BY <1>1, <2>1
  <2> QED
    BY <1>1, <1>3, <2>1, <2>2 DEF RequestKey, Key, Seqno
<1> QED
  BY <1>2, <1>3

\* A get or a set of the key of the request, to the first host.
LEMMA EncodingIs ==
    ASSUME LoopsOnly, NEW c \in Client, NEW n \in 1 .. LastSeqNum(c), NEW p \in Encodings(c, n)
    PROVE  /\ p \in DataPacket
           /\ p.src = c
           /\ p.dst = Root
           /\ p.msg.type = "Message"
           /\ p.msg.seqno = n
           /\ p.msg.m.type \in {"GetRequest", "SetRequest"}
           /\ p.msg.m.k = RequestKey(c, n)
<1> DEFINE k == RequestKey(c, n)
<1>1. k \in Key /\ n \in Seqno
  BY RequestKeys
<1>2. Workload[c] \in {"setup", "g", "s"} /\ ~Sharding(c)
  BY ClientAssumption DEF LoopsOnly, Sharding
<1>3. Server(c, n) = Root /\ RequestSeqno(c, n) = n
  BY <1>2 DEF Server, RequestSeqno, ToSecond
<1>4. PICK m \in RequestMessages(c, n) : p = Packet(c, Root, Message(n, c, m))
  BY <1>3 DEF Encodings
<1>5. m \in CMessage /\ m.type \in {"GetRequest", "SetRequest"} /\ m.k = k
  <2>1. CASE Workload[c] = "g"
    <3>1. m = GetRequest(k)
      BY <1>4, <2>1 DEF RequestMessages, Sharding
    <3> QED
      BY <1>1, <3>1 DEF GetRequest, CMessage
  <2>2. CASE Workload[c] \in {"setup", "s"}
    <3>1. PICK v \in Value : m = SetRequest(k, v)
      BY <1>4, <2>2 DEF RequestMessages, Sharding
    <3> QED
      BY <1>1, <3>1 DEF SetRequest, CMessage, OptionalValue
  <2> QED
    BY <1>2, <2>1, <2>2
<1>6. c \in EndPoint /\ Root \in EndPoint
  BY ShtAssumption
<1> HIDE DEF k
<1>7. p \in DataPacket
  BY <1>1, <1>4, <1>5, <1>6 DEF Packet, Message, DataPacket, DataMessage
<1> QED
  BY <1>4, <1>5, <1>7 DEF Packet, Message, k

LEMMA Executions ==
    ASSUME LoopsOnly, NEW c \in Client, NEW n
    PROVE  Executed(c, n) = {i \in Places : ExecutedAt(i).src = c /\ ExecutedAt(i).msg.seqno = n}
<1>1. ~Sharding(c)
  BY DEF LoopsOnly
<1>2. Server(c, n) = Root /\ RequestSeqno(c, n) = n
  BY <1>1 DEF Server, RequestSeqno, ToSecond
<1> QED
  BY <1>2 DEF Executed, Places, ExecutedAt

\* A request of a client, as it is found in net.
LEMMA RequestIs ==
    ASSUME LoopsOnly, ClientInv, NEW p \in net, p.src \in Client, p.msg.type = "Message"
    PROVE  /\ p \in DataPacket
           /\ p.dst = Root
           /\ p.msg.seqno \in 1 .. seqNum[p.src]
           /\ p.msg.seqno \in 1 .. LastSeqNum(p.src)
           /\ p.msg.seqno \in Nat
           /\ p.msg.m.type \in {"GetRequest", "SetRequest"}
           /\ p.msg.m.k = RequestKey(p.src, p.msg.seqno)
<1>1. p.msg.seqno \in 1 .. seqNum[p.src] /\ p \in Encodings(p.src, p.msg.seqno)
  BY DEF ClientInv, LoopInv, RequestsEncoded
<1>2. seqNum[p.src] \in Nat /\ seqNum[p.src] <= LastSeqNum(p.src)
  BY DEF ClientInv, LoopInv, CountersOK
<1>3. LastSeqNum(p.src) \in Nat
  BY ClientAssumption DEF LastSeqNum
<1>4. p.msg.seqno \in 1 .. LastSeqNum(p.src)
  BY <1>1, <1>2, <1>3
<1> QED
  BY <1>1, <1>2, <1>4, EncodingIs

\* Only the first host has something to process: a request of a client.
LEMMA BufferHoldsRequest ==
    ASSUME LoopsOnly, ClientInv, NEW e \in Host, received_packet[e] # NoPacket
    PROVE  /\ e = Root
           /\ received_packet[e] \in net
           /\ received_packet[e].src \in Client
           /\ received_packet[e].src \in EndPoint
           /\ received_packet[e].msg.type = "Message"
           /\ received_packet[e].msg.m.type \in {"GetRequest", "SetRequest"}
           /\ received_packet[e].msg.seqno <= Tombstone(e, received_packet[e].src)
<1> DEFINE b == received_packet[e]
<1>1. b \in net /\ b \in DataPacket /\ b.dst = e /\ b.msg.seqno <= Tombstone(e, b.src)
  BY DEF ClientInv, Inv, DeliveryInv, BuffersHold
<1>2. b.msg.type = "Message" /\ b.src \in EndPoint
  BY <1>1 DEF DataPacket, DataMessage
<1>3. b.src \notin Host
  BY <1>1, <1>2, ShtAssumption DEF ClientInv, LoopInv, RepliesEarned
<1>4. b.src \in Client
  BY <1>2, <1>3, ShtAssumption
<1> QED
  BY <1>1, <1>2, <1>4, RequestIs

-----------------------------------------------------------------------------
(***************************************************************************)
(* What the hosts do: they receive, they answer, or nothing of the kind.   *)
(***************************************************************************)
AnswersRequest ==
    \E k \in Key, v \in OptionalValue :
        /\ Buffered(Root)
        /\ received_packet[Root].msg.m.k = k
        /\ received_packet' = [received_packet EXCEPT ![Root] = NoPacket]
        /\ Sends(Root, received_packet[Root].src, Reply(k, v))
        /\ Executes(Root, v)
        /\ UNCHANGED delegation_map

\* The host throws away a request to store a value that is too long.
RejectsRequest ==
    /\ Oversized # {}
    /\ received_packet' = [received_packet EXCEPT ![Root] = NoPacket]
    /\ UNCHANGED <<sd, net, delegation_map, received_requests>>

NothingHappens == UNCHANGED <<sd, net, delegation_map, received_requests, received_packet>>

LEMMA ProcessingAnswers ==
    ASSUME LoopsOnly, ClientInv, NEW e \in Host, ProcessReceivedPacket(e)
    PROVE  AnswersRequest \/ RejectsRequest \/ NothingHappens
<1>1. CASE Halts(e)
  BY <1>1 DEF Halts, NothingHappens
<1>2. ASSUME ~Halts(e)
      PROVE  AnswersRequest \/ RejectsRequest
  <2>1. Buffered(e)
    BY <1>2 DEF ProcessReceivedPacket, NextGetRequest, NextSetRequest, NextDelegate, NextShard,
                NextReplyOrRedirect, Takes
  <2>2. /\ e = Root
        /\ received_packet[e].src \in Client
        /\ received_packet[e].msg.m.type \in {"GetRequest", "SetRequest"}
        /\ CanSend(sd[e], received_packet[e].src)
    BY <2>1, BufferHoldsRequest, CanAnswer DEF Buffered, ClientInv
  <2>3. \A k \in Key : delegation_map[e][k] = e
    BY <2>2 DEF ClientInv, LoopInv, RootOwnsAll
  <2>4. CASE NextGetRequest(e)
    <3>1. PICK k \in Key :
            /\ Takes(e, GetRequest(k))
            /\ Sends(e, received_packet[e].src, Answer(e, k, ht[e][k]))
            /\ delegation_map[e][k] = e => Executes(e, ht[e][k])
            /\ UNCHANGED delegation_map
      BY <2>2, <2>4 DEF NextGetRequest
    <3>2. Answer(e, k, ht[e][k]) = Reply(k, ht[e][k])
      BY <2>3 DEF Answer
    <3>3. received_packet[e].msg.m.k = k
      BY <3>1 DEF Takes, GetRequest
    <3>4. ht[e][k] \in OptionalValue
      BY DEF ClientInv, Inv, TypeOK, Hashtable
    <3>5. received_packet' = [received_packet EXCEPT ![e] = NoPacket]
      BY <3>1 DEF Takes
    <3> QED
      BY <2>1, <2>2, <2>3, <3>1, <3>2, <3>3, <3>4, <3>5 DEF AnswersRequest
  <2>5. CASE NextSetRequest(e)
    <3>1. PICK k \in Key, v \in OptionalValue :
            /\ Takes(e, SetRequest(k, v))
            /\ IF v \notin Oversized
               THEN /\ Sends(e, received_packet[e].src, Answer(e, k, v))
                    /\ delegation_map[e][k] = e => Executes(e, v)
               ELSE SendsNothing /\ UNCHANGED received_requests
            /\ UNCHANGED delegation_map
      BY <2>2, <2>5 DEF NextSetRequest, OptionalValue
    <3>2. received_packet' = [received_packet EXCEPT ![e] = NoPacket]
      BY <3>1 DEF Takes
    <3>3. CASE v \in Oversized
      BY <2>2, <3>1, <3>2, <3>3 DEF RejectsRequest, SendsNothing
    <3>4. CASE v \notin Oversized
      <4>1. Answer(e, k, v) = Reply(k, v)
        BY <2>3 DEF Answer
      <4>2. received_packet[e].msg.m.k = k
        BY <3>1 DEF Takes, SetRequest
      <4> QED
        BY <2>1, <2>2, <2>3, <3>1, <3>2, <3>4, <4>1, <4>2 DEF AnswersRequest
    <3> QED
      BY <3>3, <3>4
  <2>6. ASSUME NextDelegate(e) PROVE FALSE
    <3>1. PICK lo \in KeyIterator, hi \in KeyIterator, h \in [Key -> Value \cup {NoValue}] :
            Takes(e, Delegate(lo, hi, h))
      BY <2>6 DEF NextDelegate
    <3> QED
      BY <2>2, <3>1 DEF Takes, Delegate
  <2>7. ASSUME NextShard(e) PROVE FALSE
    <3>1. PICK lo \in KeyIterator, hi \in KeyIterator, recipient \in EndPoint :
            Takes(e, Shard(lo, hi, recipient))
      BY <2>7 DEF NextShard
    <3> QED
      BY <2>2, <3>1 DEF Takes, Shard
  <2>8. ~NextReplyOrRedirect(e)
    BY <2>2 DEF NextReplyOrRedirect
  <2> QED
    BY <1>2, <2>4, <2>5, <2>6, <2>7, <2>8 DEF ProcessReceivedPacket
<1> QED
  BY <1>1, <1>2

LEMMA HostDoes ==
    ASSUME LoopsOnly, ClientInv, NEW e \in Host, HostNext(e)
    PROVE  \/ \E p \in net : ReceivePacket(e, p)
           \/ AnswersRequest
           \/ RejectsRequest
           \/ NothingHappens
<1>1. ASSUME RetransmitUnAckedPackets(e) PROVE NothingHappens
  BY <1>1, RetransmitsNothingNew DEF RetransmitUnAckedPackets, NothingHappens, ClientInv
<1> QED
  BY <1>1, ProcessingAnswers DEF HostNext

-----------------------------------------------------------------------------
(***************************************************************************)
(* Each kind of step keeps the invariant, and what was executed.           *)
(***************************************************************************)
ExecutedStay ==
    \A c \in Client : \A n \in Nat : Executed(c, n) \subseteq Executed(c, n)'

\* What the clients, the network and the record of the first host contribute
\* to the invariant stays as it is when no message is added.
LEMMA NoNewMessage ==
    ASSUME LoopsOnly, LoopInv, UNCHANGED <<delegation_map, received_requests, clientVars>>,
           net \subseteq net', \A q \in net' \ net : q.msg.type = "Ack"
    PROVE  /\ CountersOK' /\ RequestsEncoded' /\ RootOwnsAll' /\ RepliesEarned'
           /\ ExecutedStay
<1>1. CountersOK' /\ RootOwnsAll'
  BY DEF LoopInv, CountersOK, RootOwnsAll, clientVars
<1>2. \A p \in net' : p.msg.type = "Message" => p \in net
  OBVIOUS
<1>3. RequestsEncoded'
  BY <1>2 DEF LoopInv, RequestsEncoded, clientVars
<1>4. RepliesEarned'
  BY <1>2 DEF LoopInv, RepliesEarned, Places, ExecutedAt
<1>5. ExecutedStay
  BY DEF ExecutedStay, Executed
<1> QED
  BY <1>1, <1>3, <1>4, <1>5

LEMMA NothingLoops ==
    ASSUME LoopsOnly, ClientInv, NothingHappens, UNCHANGED clientVars
    PROVE  LoopInv' /\ ExecutedStay /\ (AcceptedAreExecuted => AcceptedAreExecuted')
<1>1. /\ CountersOK' /\ RequestsEncoded' /\ RootOwnsAll' /\ RepliesEarned'
      /\ ExecutedStay
  BY NoNewMessage DEF NothingHappens, ClientInv
<1>2. ExecutedInOrder'
  BY DEF NothingHappens, ClientInv, LoopInv, ExecutedInOrder, Places, ExecutedAt, Tombstone
<1>3. AcceptedAreExecuted => AcceptedAreExecuted'
  BY DEF NothingHappens, AcceptedAreExecuted, Tombstone, Executed
<1> QED
  BY <1>1, <1>2, <1>3 DEF LoopInv

LEMMA RejectionLoops ==
    ASSUME LoopsOnly, ClientInv, RejectsRequest, UNCHANGED clientVars
    PROVE  LoopInv' /\ ExecutedStay /\ Oversized # {}
<1>1. /\ CountersOK' /\ RequestsEncoded' /\ RootOwnsAll' /\ RepliesEarned'
      /\ ExecutedStay
  BY NoNewMessage DEF RejectsRequest, ClientInv
<1>2. received_packet'[Root] = NoPacket
  BY ShtAssumption DEF RejectsRequest, ClientInv, Inv, TypeOK
<1>3. ExecutedInOrder'
  BY <1>2 DEF RejectsRequest, ClientInv, LoopInv, ExecutedInOrder, Places, ExecutedAt, Tombstone
<1> QED
  BY <1>1, <1>3 DEF LoopInv, RejectsRequest

\* What is accepted next comes after all that was executed.
LEMMA ReceiveLoops ==
    ASSUME LoopsOnly, ClientInv, NEW e \in Host, NEW p \in net, ReceivePacket(e, p),
           UNCHANGED clientVars
    PROVE  LoopInv' /\ ExecutedStay /\ (AcceptedAreExecuted => AcceptedAreExecuted')
<1>1. /\ SdOK
      /\ NetOK
      /\ received_packet \in [Host -> DataPacket \cup {NoPacket}]
      /\ DeliveryInv
      /\ Client \subseteq EndPoint
      /\ Root \in Host
      /\ UNCHANGED <<delegation_map, received_requests>>
  BY TypesOfInv, ShtAssumption DEF ClientInv, Inv, ReceivePacket
<1>2. CASE p.msg.type = "Ack"
  <2>1. /\ UNCHANGED <<net, received_packet>>
        /\ \A o \in EndPoint : Tombstone(Root, o)' = Tombstone(Root, o)
    BY <1>1, <1>2, AckStep
  <2>2. /\ CountersOK' /\ RequestsEncoded' /\ RootOwnsAll' /\ RepliesEarned'
        /\ ExecutedStay
    BY <1>1, <2>1, NoNewMessage DEF ClientInv
  <2>3. ExecutedInOrder'
    BY <1>1, <2>1 DEF ClientInv, LoopInv, ExecutedInOrder, Places, ExecutedAt
  <2>4. AcceptedAreExecuted => AcceptedAreExecuted'
    BY <1>1, <2>1 DEF AcceptedAreExecuted, Executed
  <2> QED
    BY <2>2, <2>3, <2>4 DEF LoopInv
<1>3. CASE p.msg.type = "Message"
  <2>1. /\ net \subseteq net'
        /\ \A q \in net' \ net : q.msg.type = "Ack"
        /\ \A o \in EndPoint :
              <<Root, o>> # <<e, p.src>> => Tombstone(Root, o)' = Tombstone(Root, o)
        /\ NewSingleMessage(sd[e], p) =>
              /\ p.msg.seqno = Tombstone(e, p.src) + 1
              /\ Tombstone(e, p.src)' = Tombstone(e, p.src) + 1
        /\ ~NewSingleMessage(sd[e], p) => Tombstone(e, p.src)' = Tombstone(e, p.src)
    BY <1>1, <1>3, MessageStep
  <2>2. /\ CountersOK' /\ RequestsEncoded' /\ RootOwnsAll' /\ RepliesEarned'
        /\ ExecutedStay
    BY <1>1, <2>1, NoNewMessage DEF ClientInv
  <2>3. /\ received_packet[e] = NoPacket
        /\ received_packet'[Root] =
             IF Root = e THEN IF NewSingleMessage(sd[e], p) THEN p ELSE NoPacket
             ELSE received_packet[Root]
    BY <1>1 DEF ReceivePacket
  <2>4. \A o \in EndPoint :
          /\ Tombstone(Root, o) \in Nat
          /\ Tombstone(Root, o)' \in {Tombstone(Root, o), Tombstone(Root, o) + 1}
    BY <1>1, <2>1, LinkTypes
  <2>5. ExecutedInOrder'
    <3> SUFFICES ASSUME NEW i \in Places, NEW q, q = ExecutedAt(i)
                 PROVE  /\ q \in net'
                        /\ q.src \in Client
                        /\ q.msg.type = "Message"
                        /\ q.msg.seqno <= Tombstone(Root, q.src)'
                        /\ received_packet'[Root] # NoPacket /\ received_packet'[Root].src = q.src =>
                               q.msg.seqno < received_packet'[Root].msg.seqno
                        /\ \A j \in Places : j < i /\ ExecutedAt(j).src = q.src =>
                               ExecutedAt(j).msg.seqno < q.msg.seqno
      BY <1>1 DEF ExecutedInOrder, Places, ExecutedAt, Tombstone
    <3>1. /\ q \in net
          /\ q.src \in Client
          /\ q.msg.type = "Message"
          /\ q.msg.seqno <= Tombstone(Root, q.src)
          /\ received_packet[Root] # NoPacket /\ received_packet[Root].src = q.src =>
                 q.msg.seqno < received_packet[Root].msg.seqno
          /\ \A j \in Places : j < i /\ ExecutedAt(j).src = q.src =>
                 ExecutedAt(j).msg.seqno < q.msg.seqno
      BY DEF ClientInv, LoopInv, ExecutedInOrder
    <3>2. q.msg.seqno \in Nat /\ q.src \in EndPoint
      BY <1>1, <3>1, RequestIs
    <3>3. q.msg.seqno <= Tombstone(Root, q.src)'
      BY <2>4, <3>1, <3>2
    <3>4. ASSUME received_packet'[Root] # NoPacket, received_packet'[Root].src = q.src
          PROVE  q.msg.seqno < received_packet'[Root].msg.seqno
      BY <2>1, <2>3, <2>4, <3>1, <3>2, <3>4
    <3> QED
      BY <2>1, <3>1, <3>3, <3>4
  <2>6. AcceptedAreExecuted => AcceptedAreExecuted'
    <3> SUFFICES ASSUME AcceptedAreExecuted, NEW c \in Client, NEW n \in 1 .. Tombstone(Root, c)'
                 PROVE  \/ Executed(c, n)' # {}
                        \/ /\ received_packet'[Root] # NoPacket
                           /\ received_packet'[Root].src = c
                           /\ received_packet'[Root].msg.seqno = n
      BY DEF AcceptedAreExecuted
    <3>1. Executed(c, n)' = Executed(c, n)
      BY <1>1 DEF Executed
    <3>2. c \in EndPoint
      BY <1>1
    <3>3. CASE n \in 1 .. Tombstone(Root, c)
      <4>1. \/ Executed(c, n) # {}
            \/ /\ received_packet[Root] # NoPacket
               /\ received_packet[Root].src = c
               /\ received_packet[Root].msg.seqno = n
        BY <3>3 DEF AcceptedAreExecuted
      <4> QED
        BY <2>3, <3>1, <4>1
    <3>4. CASE n \notin 1 .. Tombstone(Root, c)
      <4>1. n = Tombstone(Root, c) + 1 /\ Tombstone(Root, c)' # Tombstone(Root, c)
        BY <2>4, <3>2, <3>4
      <4>2. Root = e /\ c = p.src /\ NewSingleMessage(sd[e], p)
        BY <2>1, <3>2, <4>1
      <4>3. p # NoPacket
        BY <1>1, <1>3, PacketTypes, MessagesAssumption DEF NetOK
      <4> QED
        BY <2>1, <2>3, <4>1, <4>2, <4>3
    <3> QED
      BY <3>3, <3>4
  <2> QED
    BY <2>2, <2>5, <2>6 DEF LoopInv
<1> QED
  BY <1>1, <1>2, <1>3, PacketTypes DEF NetOK

\* The answer is a reply, and the request it answers is executed last.
LEMMA AnswerLoops ==
    ASSUME LoopsOnly, ClientInv, AnswersRequest, UNCHANGED clientVars
    PROVE  LoopInv' /\ ExecutedStay /\ (AcceptedAreExecuted => AcceptedAreExecuted')
<1> DEFINE b == received_packet[Root]
           s == received_packet[Root].src
<1>1. PICK k \in Key, v \in OptionalValue :
        /\ Buffered(Root)
        /\ b.msg.m.k = k
        /\ received_packet' = [received_packet EXCEPT ![Root] = NoPacket]
        /\ Sends(Root, s, Reply(k, v))
        /\ Executes(Root, v)
        /\ UNCHANGED delegation_map
  BY DEF AnswersRequest
<1>2. /\ Root \in Host
      /\ Client \subseteq EndPoint
      /\ Host \cap Client = {}
      /\ SdOK /\ NetOK /\ DeliveryInv
      /\ Inv /\ AnswersCounted
      /\ received_packet \in [Host -> DataPacket \cup {NoPacket}]
      /\ b # NoPacket
  BY <1>1, TypesOfInv, ShtAssumption DEF ClientInv, Inv, Buffered
<1>3. /\ b \in net
      /\ s \in Client
      /\ s \in EndPoint
      /\ b.msg.type = "Message"
      /\ b.msg.seqno <= Tombstone(Root, s)
      /\ b.msg.seqno \in Nat
  BY <1>2, BufferHoldsRequest, RequestIs
<1>4. received_packet'[Root] = NoPacket
  BY <1>1, <1>2
<1>5. Reply(k, v) \in CMessage /\ Reply(k, v).type = "Reply" /\ Reply(k, v).k = k
  BY DEF Reply, CMessage
<1>6. \A o \in EndPoint : Tombstone(Root, o)' = Tombstone(Root, o)
  <2>1. CanSend(sd[Root], s)
    BY <1>2, <1>3, CanAnswer
  <2>2. \A h \in Host : received_packet'[h] = received_packet[h] \/ received_packet'[h] = NoPacket
    BY <1>1, <1>2
  <2> QED
    BY <1>1, <1>2, <1>3, <1>5, <2>1, <2>2, SendStep
\* The record grows by b at its end.
<1>7. PICK N \in Nat :
        /\ Places = 1 .. N
        /\ Places' = 1 .. N + 1
        /\ \A i \in 1 .. N : ExecutedAt(i)' = ExecutedAt(i)
        /\ ExecutedAt(N + 1)' = b
  <2> DEFINE R == [request : DataPacket, v : OptionalValue]
             a == [request |-> b, v |-> v]
             t == received_requests[Root]
  <2>1. received_requests \in [Host -> Seq(R)] /\ a \in R
    BY <1>2 DEF Inv, TypeOK
  <2> HIDE DEF R
  <2>2. t \in Seq(R)
    BY <1>2, <2>1
  <2>3. received_requests'[Root] = Append(t, a)
    BY <1>1, <1>2, <2>1 DEF Executes
  <2>4. a.request = b
    OBVIOUS
  <2> HIDE DEF a, t
  <2>5. PICK N \in Nat : N = Len(t)
    BY <2>2
  <2>6. /\ DOMAIN t = 1 .. N
        /\ DOMAIN Append(t, a) = 1 .. N + 1
        /\ \A i \in 1 .. N : Append(t, a)[i] = t[i]
        /\ Append(t, a)[N + 1] = a
    BY <2>1, <2>2, <2>5
  <2>7. Places = 1 .. N /\ \A i : ExecutedAt(i) = t[i].request
    BY <2>6 DEF t, Places, ExecutedAt
  <2>8. Places' = 1 .. N + 1 /\ \A i : ExecutedAt(i)' = Append(t, a)[i].request
    BY <2>3, <2>6 DEF Places, ExecutedAt
  <2> QED
    BY <2>4, <2>6, <2>7, <2>8
<1>8. Places \subseteq Places'
  BY <1>7
<1> DEFINE r == Packet(Root, s, NextMessage(sd[Root], s, Reply(k, v)))
<1>9. /\ net' = net \cup {r}
      /\ r.src = Root
      /\ r.dst = s
      /\ r.msg.m = Reply(k, v)
  BY <1>1 DEF Sends, Packet, NextMessage, Message
<1> HIDE DEF r
<1>10. CountersOK' /\ RootOwnsAll'
  BY <1>1 DEF ClientInv, LoopInv, CountersOK, RootOwnsAll, clientVars
<1>11. RequestsEncoded'
  <2>1. \A p \in net' : p.src \in Client => p \in net
    BY <1>2, <1>9
  <2> QED
    BY <2>1 DEF ClientInv, LoopInv, RequestsEncoded, clientVars
<1>12. RepliesEarned'
  <2> SUFFICES ASSUME NEW p \in net', p.src \in Host, p.msg.type = "Message"
               PROVE  /\ p.src = Root
                      /\ p.dst \in Client
                      /\ p.msg.m.type = "Reply"
                      /\ \E i \in Places' : /\ ExecutedAt(i)'.src = p.dst
                                            /\ ExecutedAt(i)'.msg.m.k = p.msg.m.k
    BY DEF RepliesEarned
  <2>1. CASE p \in net
    <3>1. /\ p.src = Root
          /\ p.dst \in Client
          /\ p.msg.m.type = "Reply"
      BY <2>1 DEF ClientInv, LoopInv, RepliesEarned
    <3>2. PICK i \in Places : ExecutedAt(i).src = p.dst /\ ExecutedAt(i).msg.m.k = p.msg.m.k
      BY <2>1 DEF ClientInv, LoopInv, RepliesEarned
    <3>3. i \in Places' /\ ExecutedAt(i)' = ExecutedAt(i)
      BY <1>7, <1>8
    <3> QED
      BY <3>1, <3>2, <3>3
  <2>2. CASE p = r
    <3>1. N + 1 \in Places'
      BY <1>7
    <3> QED
      BY <1>1, <1>3, <1>5, <1>7, <1>9, <2>2, <3>1
  <2> QED
    BY <1>9, <2>1, <2>2
<1>13. ExecutedInOrder'
  <2> SUFFICES ASSUME NEW i \in Places', NEW q, q = ExecutedAt(i)'
               PROVE  /\ q \in net'
                      /\ q.src \in Client
                      /\ q.msg.type = "Message"
                      /\ q.msg.seqno <= Tombstone(Root, q.src)'
                      /\ \A j \in Places' :
                             j < i /\ ExecutedAt(j)'.src = q.src => ExecutedAt(j)'.msg.seqno < q.msg.seqno
    BY <1>4 DEF ExecutedInOrder, Tombstone
  <2>1. \A j \in Places : /\ ExecutedAt(j)' = ExecutedAt(j)
                          /\ ExecutedAt(j).src = s => ExecutedAt(j).msg.seqno < b.msg.seqno
    BY <1>2, <1>7 DEF ClientInv, LoopInv, ExecutedInOrder
  <2>2. CASE i \in Places
    <3>1. q = ExecutedAt(i)
      BY <2>1, <2>2
    <3>2. /\ q \in net
          /\ q.src \in Client
          /\ q.msg.type = "Message"
          /\ q.msg.seqno <= Tombstone(Root, q.src)
          /\ \A j \in Places : j < i /\ ExecutedAt(j).src = q.src =>
                 ExecutedAt(j).msg.seqno < q.msg.seqno
      BY <2>2, <3>1 DEF ClientInv, LoopInv, ExecutedInOrder
    <3>3. \A j \in Places' : j < i => j \in Places
      BY <1>7, <2>2
    <3>4. q.msg.seqno <= Tombstone(Root, q.src)'
      BY <1>2, <1>6, <3>2
    <3>5. \A j \in Places' :
             j < i /\ ExecutedAt(j)'.src = q.src => ExecutedAt(j)'.msg.seqno < q.msg.seqno
      BY <2>1, <3>2, <3>3
    <3> QED
      BY <1>9, <3>2, <3>4, <3>5
  <2>3. CASE i = N + 1
    <3>1. q = b
      BY <1>7, <2>3
    <3>2. \A j \in Places' : j < i => j \in Places
      BY <1>7, <2>3
    <3> QED
      BY <1>3, <1>6, <1>9, <2>1, <3>1, <3>2
  <2> QED
    BY <1>7, <2>2, <2>3
<1>14. \A c \in Client : \A n : Executed(c, n)' =
          {i \in Places' : ExecutedAt(i)'.src = c /\ ExecutedAt(i)'.msg.seqno = n}
  <2> SUFFICES ASSUME NEW c \in Client, NEW n
               PROVE  Executed(c, n)' =
                        {i \in Places' : ExecutedAt(i)'.src = c /\ ExecutedAt(i)'.msg.seqno = n}
    OBVIOUS
  <2>1. ~Sharding(c)
    BY DEF LoopsOnly
  <2>2. Server(c, n) = Root /\ RequestSeqno(c, n) = n
    BY <2>1 DEF Server, RequestSeqno, ToSecond
  <2> QED
    BY <2>2 DEF Executed, Places, ExecutedAt
<1>15. ExecutedStay
  <2> SUFFICES ASSUME NEW c \in Client, NEW n \in Nat, NEW i \in Executed(c, n)
               PROVE  i \in Executed(c, n)'
    BY DEF ExecutedStay
  <2>1. i \in Places /\ ExecutedAt(i).src = c /\ ExecutedAt(i).msg.seqno = n
    BY Executions
  <2>2. i \in Places' /\ ExecutedAt(i)' = ExecutedAt(i)
    BY <1>7, <1>8, <2>1
  <2> QED
    BY <1>14, <2>1, <2>2
<1>16. AcceptedAreExecuted => AcceptedAreExecuted'
  <2> SUFFICES ASSUME AcceptedAreExecuted, NEW c \in Client, NEW n \in 1 .. Tombstone(Root, c)'
               PROVE  Executed(c, n)' # {}
    BY DEF AcceptedAreExecuted
  <2>1. n \in 1 .. Tombstone(Root, c) /\ n \in Nat
    BY <1>2, <1>6
  <2>2. CASE Executed(c, n) # {}
    BY <1>15, <2>1, <2>2 DEF ExecutedStay
  <2>3. CASE s = c /\ b.msg.seqno = n
    <3>1. N + 1 \in Places' /\ ExecutedAt(N + 1)' = b
      BY <1>7
    <3>2. N + 1 \in Executed(c, n)'
      BY <1>14, <2>3, <3>1
    <3> QED
      BY <3>2
  <2> QED
    BY <2>1, <2>2, <2>3 DEF AcceptedAreExecuted
<1> QED
  BY <1>10, <1>11, <1>12, <1>13, <1>15, <1>16 DEF LoopInv

LEMMA HostStep ==
    ASSUME LoopsOnly, ClientInv, NEW e \in Host, HostNext(e), UNCHANGED clientVars
    PROVE  /\ ClientInv'
           /\ ExecutedStay
           /\ Oversized = {} /\ AcceptedAreExecuted => AcceptedAreExecuted'
<1>1. Inv' /\ AnswersCounted'
  <2>1. [Next]_vars
    BY DEF Next
  <2> QED
    BY <2>1, NextInv, NextCounts DEF ClientInv
<1>2. /\ LoopInv'
      /\ ExecutedStay
      /\ Oversized = {} /\ AcceptedAreExecuted => AcceptedAreExecuted'
  BY HostDoes, ReceiveLoops, AnswerLoops, RejectionLoops, NothingLoops
<1> QED
  BY <1>1, <1>2 DEF ClientInv

-----------------------------------------------------------------------------
(***************************************************************************)
(* What the clients do.                                                    *)
(***************************************************************************)
\* A client adds one packet of its own to the network.
LEMMA ClientSends ==
    ASSUME Inv, AnswersCounted, UNCHANGED hostVars, NEW q \in DataPacket \cup AckPacket,
           net' = net \cup {q}, FromClient(q)
    PROVE  Inv' /\ AnswersCounted'
<1>1. TypeOK'
  BY DEF Inv, TypeOK, hostVars
<1>2. IsFiniteSet(net)'
  BY FinitePlusOne DEF Inv
<1>3. DeliveryInv'
  <2>1. net \subseteq net' /\ \A x \in net' \ net : FromClient(x)
    OBVIOUS
  <2> QED
    BY <2>1, QuietStep, TypesOfInv DEF Inv, hostVars
<1>4. AnswersCounted'
  BY QuietCounts DEF hostVars
<1> QED
  BY <1>1, <1>2, <1>3, <1>4 DEF Inv

\* What the hosts contribute to the invariant does not change.
LEMMA HostsStay ==
    ASSUME LoopsOnly, ClientInv, UNCHANGED hostVars, net \subseteq net',
           \A q \in net' \ net : q.src \in Client
    PROVE  /\ RootOwnsAll' /\ RepliesEarned' /\ ExecutedInOrder'
           /\ ExecutedStay
           /\ AcceptedAreExecuted => AcceptedAreExecuted'
<1>1. RootOwnsAll'
  BY DEF ClientInv, LoopInv, RootOwnsAll, hostVars
<1>2. RepliesEarned'
  <2>1. \A p \in net' : p.src \in Host => p \in net
    BY ShtAssumption
  <2> QED
    BY <2>1 DEF ClientInv, LoopInv, RepliesEarned, Places, ExecutedAt, hostVars
<1>3. ExecutedInOrder'
  BY DEF ClientInv, LoopInv, ExecutedInOrder, Places, ExecutedAt, Tombstone, hostVars
<1>4. ExecutedStay
  BY DEF ExecutedStay, Executed, hostVars
<1>5. AcceptedAreExecuted => AcceptedAreExecuted'
  BY DEF AcceptedAreExecuted, Tombstone, Executed, hostVars
<1> QED
  BY <1>1, <1>2, <1>3, <1>4, <1>5

\* A client sends an encoding of the n-th request, which is the last one it
\* has made.
LEMMA EncodingSent ==
    ASSUME LoopsOnly, ClientInv, CountersOK', NEW c \in Client, NEW n \in 1 .. LastSeqNum(c),
           n = seqNum'[c], NEW p \in Encodings(c, n), net' = net \cup {p},
           \A d \in Client : seqNum[d] <= seqNum'[d],
           UNCHANGED hostVars
    PROVE  ClientInv' /\ ExecutedStay /\ (AcceptedAreExecuted => AcceptedAreExecuted')
<1>1. p \in DataPacket /\ p.src = c /\ p.msg.type = "Message" /\ p.msg.seqno = n
  BY EncodingIs
<1>2. Inv' /\ AnswersCounted'
  BY <1>1, ClientSends DEF FromClient, ClientInv
<1>3. /\ RootOwnsAll' /\ RepliesEarned' /\ ExecutedInOrder'
      /\ ExecutedStay
      /\ AcceptedAreExecuted => AcceptedAreExecuted'
  BY <1>1, HostsStay
<1>4. RequestsEncoded'
  <2> SUFFICES ASSUME NEW q \in net', q.src \in Client, q.msg.type = "Message"
               PROVE  q.msg.seqno \in 1 .. seqNum'[q.src] /\ q \in Encodings(q.src, q.msg.seqno)
    BY DEF RequestsEncoded, Encodings, RequestMessages, RequestKey, RequestSeqno, Server, Sharding,
           Setup, ToSecond
  <2>1. CASE q \in net
    <3>1. q.msg.seqno \in 1 .. seqNum[q.src] /\ q \in Encodings(q.src, q.msg.seqno)
      BY <2>1 DEF ClientInv, LoopInv, RequestsEncoded
    <3>2. seqNum[q.src] \in Nat /\ seqNum'[q.src] \in Nat /\ seqNum[q.src] <= seqNum'[q.src]
      BY DEF ClientInv, LoopInv, CountersOK
    <3> QED
      BY <3>1, <3>2
  <2>2. CASE q = p
    <3>1. n \in 1 .. n
      BY RequestKeys
    <3> QED
      BY <1>1, <2>2, <3>1
  <2> QED
    BY <2>1, <2>2
<1> QED
  BY <1>2, <1>3, <1>4 DEF ClientInv, LoopInv

LEMMA SendRequestStep ==
    ASSUME LoopsOnly, ClientInv, NEW c \in Client, SendRequest(c)
    PROVE  ClientInv' /\ ExecutedStay /\ (AcceptedAreExecuted => AcceptedAreExecuted')
<1>1. /\ seqNum \in [Client -> Nat]
      /\ receivedReply \in [Client -> BOOLEAN]
      /\ \A d \in Client :
            /\ seqNum[d] <= LastSeqNum(d)
            /\ ~receivedReply[d] => 1 <= seqNum[d]
      /\ LastSeqNum(c) \in Nat
  BY ClientAssumption DEF ClientInv, LoopInv, CountersOK, LastSeqNum
<1>2. /\ seqNum[c] < LastSeqNum(c)
      /\ seqNum' = [seqNum EXCEPT ![c] = seqNum[c] + 1]
      /\ receivedReply' = [receivedReply EXCEPT ![c] = FALSE]
      /\ \E p \in Encodings(c, seqNum'[c]) : net' = net \cup {p}
      /\ UNCHANGED hostVars
  BY DEF SendRequest
<1>3. seqNum'[c] = seqNum[c] + 1 /\ seqNum'[c] \in 1 .. LastSeqNum(c)
  BY <1>1, <1>2
<1>4. CountersOK'
  BY <1>1, <1>2, <1>3 DEF CountersOK, LastSeqNum, Setup, Sharding
<1>5. \A d \in Client : seqNum[d] <= seqNum'[d]
  BY <1>1, <1>2
<1> QED
  BY <1>2, <1>3, <1>4, <1>5, EncodingSent

LEMMA RetryStep ==
    ASSUME LoopsOnly, ClientInv, NEW c \in Client, Retry(c)
    PROVE  ClientInv' /\ ExecutedStay /\ (AcceptedAreExecuted => AcceptedAreExecuted')
<1>1. /\ seqNum \in [Client -> Nat]
      /\ seqNum[c] <= LastSeqNum(c)
      /\ 1 <= seqNum[c]
      /\ LastSeqNum(c) \in Nat
  BY ClientAssumption DEF ClientInv, LoopInv, CountersOK, LastSeqNum, Retry
<1>2. /\ \E p \in Encodings(c, seqNum[c]) : net' = net \cup {p}
      /\ UNCHANGED <<hostVars, clientVars>>
  BY DEF Retry
<1>3. CountersOK'
  BY <1>2 DEF clientVars, ClientInv, LoopInv, CountersOK
<1>4. seqNum' = seqNum /\ seqNum[c] \in 1 .. LastSeqNum(c)
  BY <1>1, <1>2 DEF clientVars
<1>5. \A d \in Client : seqNum[d] <= seqNum'[d]
  BY <1>1, <1>4
<1> QED
  BY <1>2, <1>3, <1>4, <1>5, EncodingSent

\* What a client receives, the first host has sent, and that is where its
\* acknowledgment goes.
LEMMA ReceiveStep ==
    ASSUME LoopsOnly, ClientInv, NEW c \in Client, NEW p \in net, Receive(c, p)
    PROVE  ClientInv' /\ ExecutedStay /\ (AcceptedAreExecuted => AcceptedAreExecuted')
<1>1. /\ seqNum \in [Client -> Nat]
      /\ receivedReply \in [Client -> BOOLEAN]
      /\ CountersOK
  BY DEF ClientInv, LoopInv, CountersOK
<1>2. /\ ~receivedReply[c]
      /\ p.dst = c
      /\ receivedReply' = [receivedReply EXCEPT ![c] = IsReply(c, p)]
      /\ UNCHANGED <<hostVars, seqNum>>
  BY DEF Receive
<1>3. CountersOK'
  <2>1. IsReply(c, p) \in BOOLEAN
    BY DEF IsReply
  <2>2. receivedReply' \in [Client -> BOOLEAN]
    BY <1>1, <1>2, <2>1
  <2>3. \A d \in Client : ~receivedReply'[d] => ~receivedReply[d]
    BY <1>1, <1>2
  <2> QED
    BY <1>1, <1>2, <2>2, <2>3 DEF CountersOK
<1>4. /\ Inv' /\ AnswersCounted'
      /\ net \subseteq net'
      /\ \A q \in net' \ net : q.src \in Client /\ q.msg.type = "Ack"
  <2>1. CASE net' = net
    <3>1. Inv'
      BY <1>2, <2>1, StutterInv DEF ClientInv, hostVars, vars
    <3>2. AnswersCounted'
      BY <1>2, QuietCounts DEF ClientInv, hostVars
    <3> QED
      BY <2>1, <3>1, <3>2
  <2>2. CASE net' # net
    <3> DEFINE q == Packet(c, Root, Ack(p.msg.seqno))
    <3>1. ~Sharding(c)
      BY DEF LoopsOnly
    <3>2. Server(c, seqNum[c]) = Root
      BY <3>1 DEF Server, ToSecond
    <3>3. p.msg.type = "Message" /\ net' = net \cup {q}
      BY <2>2, <3>2 DEF Receive, SendAck
    <3>4. p \in DataPacket /\ p.msg.seqno \in Seqno /\ p.src \in EndPoint
      BY <3>3, PacketTypes, TypesOfInv DEF ClientInv, Inv, NetOK
    <3>5. p.src \notin Client
      BY <1>2, <3>3, RequestIs, ShtAssumption
    <3>6. p.src = Root
      BY <3>3, <3>4, <3>5, ShtAssumption DEF ClientInv, LoopInv, RepliesEarned
    <3>7. c \in EndPoint /\ Root \in EndPoint
      BY ShtAssumption
    <3>8. /\ q \in AckPacket
          /\ q.src = c
          /\ q.dst = Root
          /\ q.msg.type = "Ack"
          /\ q.msg.ack_seqno = p.msg.seqno
      BY <3>4, <3>7 DEF Packet, Ack, AckPacket
    <3> HIDE DEF q
    <3>9. FromClient(q)
      BY <1>2, <3>3, <3>6, <3>8 DEF FromClient
    <3>10. Inv' /\ AnswersCounted'
      BY <1>2, <3>3, <3>8, <3>9, ClientSends DEF ClientInv
    <3> QED
      BY <3>3, <3>8, <3>10
  <2> QED
    BY <2>1, <2>2
<1>5. /\ RootOwnsAll' /\ RepliesEarned' /\ ExecutedInOrder'
      /\ ExecutedStay
      /\ AcceptedAreExecuted => AcceptedAreExecuted'
  BY <1>2, <1>4, HostsStay
<1>6. RequestsEncoded'
  <2>1. \A q \in net' : q.msg.type = "Message" => q \in net
    BY <1>4
  <2> QED
    BY <1>2, <2>1 DEF ClientInv, LoopInv, RequestsEncoded
<1> QED
  BY <1>3, <1>4, <1>5, <1>6 DEF ClientInv, LoopInv

-----------------------------------------------------------------------------
(***************************************************************************)
(* Theorems.                                                               *)
(***************************************************************************)
LEMMA InitClientInv ==
    ASSUME ClientInit
    PROVE  ClientInv /\ AcceptedAreExecuted /\ WaitsForReply
<1>1. Init /\ seqNum = [c \in Client |-> 0] /\ receivedReply = [c \in Client |-> TRUE]
  BY DEF ClientInit
<1>2. \A h \in Host, o \in EndPoint : Tombstone(h, o) = 0 /\ Last(h, o) = 0
  BY <1>1 DEF Init, EmptySingleDelivery, NewAckState, Tombstone, Last, Acked, UnAcked
<1>3. AnswersCounted
  BY <1>1, <1>2, ShtAssumption DEF Init, AnswersCounted
<1>4. CountersOK
  <2>1. \A c \in Client : LastSeqNum(c) \in Nat
    BY ClientAssumption DEF LastSeqNum
  <2> QED
    BY <1>1, <2>1 DEF CountersOK
<1>5. RequestsEncoded /\ RepliesEarned
  BY <1>1 DEF Init, RequestsEncoded, RepliesEarned
<1>6. RootOwnsAll
  BY <1>1 DEF Init, RootOwnsAll
<1>7. ExecutedInOrder
  <2>1. Places = {}
    BY <1>1, ShtAssumption DEF Init, Places
  <2> QED
    BY <2>1 DEF ExecutedInOrder
<1>8. AcceptedAreExecuted
  BY <1>2, ShtAssumption DEF AcceptedAreExecuted
<1>9. WaitsForReply
  BY <1>1 DEF WaitsForReply
<1> QED
  BY <1>1, <1>3, <1>4, <1>5, <1>6, <1>7, <1>8, <1>9, InitInv DEF ClientInv, LoopInv

LEMMA Stutter ==
    ASSUME LoopsOnly, ClientInv, UNCHANGED <<vars, clientVars>>
    PROVE  ClientInv' /\ ExecutedStay /\ (AcceptedAreExecuted => AcceptedAreExecuted')
<1>1. NothingHappens
  BY DEF NothingHappens, vars
<1>2. Inv' /\ AnswersCounted'
  <2>1. UNCHANGED vars /\ UNCHANGED <<sd, received_packet>>
    BY DEF vars
  <2> QED
    BY <2>1, StutterInv, QuietCounts DEF ClientInv
<1> QED
  BY <1>1, <1>2, NothingLoops DEF ClientInv

LEMMA ClientNextInv ==
    ASSUME LoopsOnly, ClientInv, [ClientNext]_<<vars, clientVars>>
    PROVE  /\ ClientInv'
           /\ ExecutedStay
           /\ Oversized = {} /\ AcceptedAreExecuted => AcceptedAreExecuted'
  BY Stutter, HostStep, SendRequestStep, RetryStep, ReceiveStep DEF ClientNext

\* A reply for the key of the last request answers this request, if no other
\* asks for the key.
LEMMA ReplyIsOwn ==
    ASSUME LoopsOnly, NoKeyComesRound, ClientInv, NEW c \in Client, NEW p \in net,
           ~receivedReply[c], p.dst = c, IsReply(c, p)
    PROVE  Executed(c, seqNum[c]) # {}
<1> DEFINE n == seqNum[c]
<1>1. ~Sharding(c) /\ Awaited(c, n) = {"Reply"}
  BY DEF LoopsOnly, Awaited
<1>2. p.msg.type = "Message" /\ p.msg.m.k = RequestKey(c, n)
  BY <1>1 DEF IsReply
<1>3. p.src \in Host
  <2>1. p.src \in EndPoint
    BY PacketTypes, TypesOfInv DEF ClientInv, Inv, NetOK
  <2>2. p.src \notin Client
    BY <1>2, RequestIs, ShtAssumption
  <2> QED
    BY <2>1, <2>2, ShtAssumption
<1>4. PICK i \in Places : ExecutedAt(i).src = c /\ ExecutedAt(i).msg.m.k = p.msg.m.k
  BY <1>2, <1>3 DEF ClientInv, LoopInv, RepliesEarned
<1> DEFINE q == ExecutedAt(i)
<1>5. q \in net /\ q.src = c /\ q.msg.type = "Message"
  BY <1>4 DEF ClientInv, LoopInv, ExecutedInOrder
<1>6. q.msg.seqno \in 1 .. LastSeqNum(c) /\ q.msg.m.k = RequestKey(c, q.msg.seqno)
  BY <1>5, RequestIs
<1>7. n \in 1 .. LastSeqNum(c)
  <2>1. n \in Nat /\ n <= LastSeqNum(c) /\ 1 <= n
    BY DEF ClientInv, LoopInv, CountersOK
  <2>2. LastSeqNum(c) \in Nat
    BY ClientAssumption DEF LastSeqNum
  <2> QED
    BY <2>1, <2>2
<1>8. q.msg.seqno = n
  BY <1>2, <1>4, <1>6, <1>7 DEF NoKeyComesRound
<1>9. i \in Executed(c, n)
  BY <1>4, <1>8, Executions
<1> QED
  BY <1>9

LEMMA WaitsForReplyStays ==
    ASSUME LoopsOnly, NoKeyComesRound, ClientInv, WaitsForReply,
           [ClientNext]_<<vars, clientVars>>
    PROVE  WaitsForReply'
<1> SUFFICES ASSUME NEW c \in Client, NEW n \in 1 .. seqNum'[c],
                    n < seqNum'[c] \/ receivedReply'[c]
             PROVE  Executed(c, n)' # {}
  BY DEF WaitsForReply, Awaited, Sharding
<1>1. /\ seqNum \in [Client -> Nat] /\ seqNum[c] \in Nat
      /\ receivedReply \in [Client -> BOOLEAN]
  BY DEF ClientInv, LoopInv, CountersOK
<1>2. \A m \in 1 .. seqNum[c] : m < seqNum[c] \/ receivedReply[c] => Executed(c, m) # {}
  <2>1. \A m \in 1 .. seqNum[c] : Awaited(c, m) = {"Reply"}
    BY DEF LoopsOnly, Awaited
  <2> QED
    BY <2>1 DEF WaitsForReply
<1>3. ExecutedStay
  BY ClientNextInv
<1>4. n \in 1 .. seqNum[c] /\ Executed(c, n) # {}
  <2>1. CASE UNCHANGED clientVars
    BY <1>2, <2>1 DEF clientVars
  <2>2. ASSUME NEW d \in Client, SendRequest(d)
        PROVE  n \in 1 .. seqNum[c] /\ Executed(c, n) # {}
    <3>1. /\ receivedReply[d]
          /\ seqNum'[c] = IF c = d THEN seqNum[c] + 1 ELSE seqNum[c]
          /\ receivedReply'[c] = IF c = d THEN FALSE ELSE receivedReply[c]
      BY <1>1, <2>2 DEF SendRequest
    <3> QED
      BY <1>1, <1>2, <3>1
  <2>3. ASSUME NEW d \in Client, NEW p \in net, Receive(d, p)
        PROVE  n \in 1 .. seqNum[c] /\ Executed(c, n) # {}
    <3>1. /\ ~receivedReply[d]
          /\ p.dst = d
          /\ seqNum' = seqNum
          /\ receivedReply'[c] = IF c = d THEN IsReply(d, p) ELSE receivedReply[c]
      BY <1>1, <2>3 DEF Receive
    <3>2. CASE c = d /\ n = seqNum[c]
      BY <1>1, <3>1, <3>2, ReplyIsOwn
    <3>3. CASE ~(c = d /\ n = seqNum[c])
      BY <1>1, <1>2, <3>1, <3>3
    <3> QED
      BY <3>2, <3>3
  <2> QED
    BY <2>1, <2>2, <2>3 DEF ClientNext, Retry
<1> QED
  BY <1>1, <1>3, <1>4 DEF ExecutedStay

\* In the order of their numbers, one request after the other: whichever way
\* it is known that the ones before were executed.
LEMMA InOrder ==
    ASSUME LoopsOnly, ClientInv,
           \A c \in Client : \A n \in 1 .. seqNum[c] : \A m \in 1 .. n - 1 :
               Executed(c, n) # {} => Executed(c, m) # {}
    PROVE  OneEncodingExecuted
<1> SUFFICES ASSUME NEW c \in Client, NEW n \in 1 .. seqNum[c]
             PROVE  /\ Cardinality(Executed(c, n)) <= 1
                    /\ \A i \in Executed(c, n), m \in 1 .. n - 1 : \E j \in Executed(c, m) : j < i
  BY DEF OneEncodingExecuted
<1>1. \A i, j \in Places :
        j < i /\ ExecutedAt(j).src = ExecutedAt(i).src => ExecutedAt(j).msg.seqno < ExecutedAt(i).msg.seqno
  BY DEF ClientInv, LoopInv, ExecutedInOrder
<1>2. Places \subseteq Nat
  BY ShtAssumption DEF Places, ClientInv, Inv, TypeOK
<1>3. seqNum[c] \in Nat
  BY DEF ClientInv, LoopInv, CountersOK
<1>4. Cardinality(Executed(c, n)) <= 1
  <2>1. \A i, j \in Executed(c, n) : i = j
    <3> SUFFICES ASSUME NEW i \in Executed(c, n), NEW j \in Executed(c, n) PROVE i = j
      OBVIOUS
    <3>1. /\ i \in Places /\ ExecutedAt(i).src = c /\ ExecutedAt(i).msg.seqno = n
          /\ j \in Places /\ ExecutedAt(j).src = c /\ ExecutedAt(j).msg.seqno = n
      BY Executions
    <3>2. ~(i < j) /\ ~(j < i)
      BY <1>1, <1>3, <3>1
    <3> QED
      BY <1>2, <3>1, <3>2
  <2>2. CASE Executed(c, n) = {}
    BY <2>2, FS_EmptySet
  <2>3. ASSUME NEW i \in Executed(c, n)
        PROVE  Cardinality(Executed(c, n)) <= 1
    <3>1. Executed(c, n) = {i}
      BY <2>1, <2>3
    <3>2. Cardinality({i}) = 1
      BY FS_Singleton
    <3> QED
      BY <3>1, <3>2
  <2> QED
    BY <2>2, <2>3
<1>5. ASSUME NEW i \in Executed(c, n), NEW m \in 1 .. n - 1
      PROVE  \E j \in Executed(c, m) : j < i
  <2>1. PICK j : j \in Executed(c, m)
    OBVIOUS
  <2>2. /\ i \in Places /\ ExecutedAt(i).src = c /\ ExecutedAt(i).msg.seqno = n
        /\ j \in Places /\ ExecutedAt(j).src = c /\ ExecutedAt(j).msg.seqno = m
    BY <2>1, Executions
  <2>3. i # j /\ ~(i < j)
    BY <1>1, <1>3, <2>2
  <2> QED
    BY <1>2, <2>1, <2>2, <2>3
<1> QED
  BY <1>4, <1>5

\* A client that never asks for a key again goes on only when its request was
\* executed: no reply that is sent once more, however late it is, passes for
\* the answer to another request (the loop of Setup, and Experiment).
THEOREM SetupWaits == LoopsOnly /\ NoKeyComesRound => (ClientSpec => []WaitsForReply)
<1> SUFFICES ASSUME LoopsOnly, NoKeyComesRound PROVE ClientSpec => []WaitsForReply
  OBVIOUS
<1>1. ClientInit => ClientInv /\ WaitsForReply
  BY InitClientInv
<1>2. ClientInv /\ WaitsForReply /\ [ClientNext]_<<vars, clientVars>> => ClientInv' /\ WaitsForReply'
  BY ClientNextInv, WaitsForReplyStays
<1> QED
  BY <1>1, <1>2, PTL DEF ClientSpec

\* Of all the encodings of a request, with whatever values, the host executes
\* at most one, and after all the requests before it: because the client
\* waited for those.
THEOREM SetupExecutesOnce == LoopsOnly /\ NoKeyComesRound => (ClientSpec => []OneEncodingExecuted)
<1> SUFFICES ASSUME LoopsOnly, NoKeyComesRound PROVE ClientSpec => []OneEncodingExecuted
  OBVIOUS
<1>1. ClientInit => ClientInv /\ WaitsForReply
  BY InitClientInv
<1>2. ClientInv /\ WaitsForReply /\ [ClientNext]_<<vars, clientVars>> => ClientInv' /\ WaitsForReply'
  BY ClientNextInv, WaitsForReplyStays
<1>3. ClientInv /\ WaitsForReply => OneEncodingExecuted
  <2> SUFFICES ASSUME ClientInv, WaitsForReply PROVE OneEncodingExecuted
    OBVIOUS
  <2>1. ASSUME NEW c \in Client, NEW n \in 1 .. seqNum[c], NEW m \in 1 .. n - 1
        PROVE  Executed(c, m) # {}
    <3>1. seqNum[c] \in Nat
      BY DEF ClientInv, LoopInv, CountersOK
    <3>2. m \in 1 .. seqNum[c] /\ m < seqNum[c]
      BY <3>1
    <3>3. Awaited(c, m) = {"Reply"}
      BY DEF LoopsOnly, Awaited
    <3> QED
      BY <3>2, <3>3 DEF WaitsForReply
  <2> QED
    BY <2>1, InOrder
<1> QED
  BY <1>1, <1>2, <1>3, PTL DEF ClientSpec

\* The same of clients that ask for keys again and again, and may go on with
\* the reply to an older request, as long as no value is too long: then the
\* host executes all that it accepts.
THEOREM ExperimentExecutesOnce == LoopsOnly /\ Oversized = {} => (ClientSpec => []OneEncodingExecuted)
<1> SUFFICES ASSUME LoopsOnly, Oversized = {} PROVE ClientSpec => []OneEncodingExecuted
  OBVIOUS
<1>1. ClientInit => ClientInv /\ AcceptedAreExecuted
  BY InitClientInv
<1>2. ClientInv /\ AcceptedAreExecuted /\ [ClientNext]_<<vars, clientVars>>
        => ClientInv' /\ AcceptedAreExecuted'
  BY ClientNextInv
<1>3. ClientInv /\ AcceptedAreExecuted => OneEncodingExecuted
  <2> SUFFICES ASSUME ClientInv, AcceptedAreExecuted PROVE OneEncodingExecuted
    OBVIOUS
  <2>1. ASSUME NEW c \in Client, NEW n \in 1 .. seqNum[c], NEW m \in 1 .. n - 1,
               Executed(c, n) # {}
        PROVE  Executed(c, m) # {}
    <3>1. PICK i : i \in Executed(c, n)
      BY <2>1
    <3>2. i \in Places /\ ExecutedAt(i).src = c /\ ExecutedAt(i).msg.seqno = n
      BY <3>1, Executions
    <3>3. /\ n <= Tombstone(Root, c)
          /\ received_packet[Root] # NoPacket /\ received_packet[Root].src = c =>
                 n < received_packet[Root].msg.seqno
      BY <3>2 DEF ClientInv, LoopInv, ExecutedInOrder
    <3>4. Tombstone(Root, c) \in Nat /\ seqNum[c] \in Nat
      BY LinkTypes, TypesOfInv, ShtAssumption DEF ClientInv, Inv, LoopInv, CountersOK
    <3>5. m \in 1 .. Tombstone(Root, c)
      BY <3>3, <3>4
    <3>6. ~(received_packet[Root] # NoPacket /\ received_packet[Root].src = c
              /\ received_packet[Root].msg.seqno = m)
      BY <3>3, <3>4
    <3> QED
      BY <3>5, <3>6 DEF AcceptedAreExecuted
  <2> QED
    BY <2>1, InOrder
<1> QED
  BY <1>1, <1>2, <1>3, PTL DEF ClientSpec
=============================================================================
