------------------------------- MODULE Client -------------------------------
(***************************************************************************)
(* The client program (Client.cs) against the hosts of Sht: the loop that  *)
(* sets every key once before an experiment (Setup), the loop of the       *)
(* experiment with a workload of gets or of sets, and the four requests of *)
(* the sharding workload (Experiment). The loops talk to one host, which   *)
(* they never change; the last request of the sharding workload goes to    *)
(* another one.                                                            *)
(*                                                                         *)
(* Each client has one request at a time under way. The loops send it      *)
(* again when they hear nothing for a while, and encode a request to set a *)
(* key anew each time, with a new random value; the sharding workload      *)
(* sends each request once.                                                *)
(***************************************************************************)
EXTENDS Sht

CONSTANTS
    Workload,       \* Workload[c]: "setup", "g", "s" or "f"
    Second,         \* the server after the first, Root; Root if it is the only one
    Recipient,      \* the endpoint that Shard requests name
    NumKeys,        \* numKeys
    AckBatch,       \* 100 in the code
    MaxSeqNum       \* bound: how many requests a client of an experiment sends

ASSUME ClientAssumption ==
    /\ Workload \in [Client -> {"setup", "g", "s", "f"}]
    /\ Second \in Host
    /\ Recipient \in EndPoint
    /\ NumKeys \in 1 .. Keys
    /\ AckBatch \in Nat \ {0}
    /\ MaxSeqNum \in Nat
    \* The numbers of clients and hosts are of the same width.
    /\ NumKeys <= MaxSeqno
    /\ MaxSeqNum <= MaxSeqno

VARIABLES
    seqNum,         \* seqNum[c]: how many requests c has made
    receivedReply   \* receivedReply[c]: c has stopped waiting for the last of them

clientVars == <<seqNum, receivedReply>>
hostVars == <<sd, delegation_map, ht, received_packet, num_delegations, status, received_requests>>

ClientInit ==
    /\ Init
    /\ seqNum = [c \in Client |-> 0]
    /\ receivedReply = [c \in Client |-> TRUE]

Setup(c) == Workload[c] = "setup"
Sharding(c) == Workload[c] = "f"

\* How many requests c sends in all. The experiment goes on for ever.
LastSeqNum(c) == IF Setup(c) THEN NumKeys ELSE IF Sharding(c) THEN 4 ELSE MaxSeqNum

\* The sharding workload uses one key, and a range of keys around it.
RequestKey(c, n) ==
    IF Setup(c) THEN n - 1 ELSE IF Sharding(c) THEN 0 ELSE n % NumKeys

RequestMessages(c, n) ==
    LET k == RequestKey(c, n)
    IN  CASE Workload[c] = "g" -> {GetRequest(k)}
          [] Workload[c] \in {"setup", "s"} -> {SetRequest(k, v) : v \in Value}
          [] Sharding(c) -> {IF n = 2 THEN Shard(k, k + 1, Recipient) ELSE GetRequest(k)}

\* The last request of the sharding workload is the first to its server.
ToSecond(c, n) == Sharding(c) /\ n = 4
Server(c, n) == IF ToSecond(c, n) THEN Second ELSE Root
RequestSeqno(c, n) == IF ToSecond(c, n) THEN 1 ELSE n

\* What the n-th request of c may be encoded to. The client fills in itself
\* for the destination, which no host reads.
Encodings(c, n) ==
    {Packet(c, Server(c, n), Message(RequestSeqno(c, n), c, m)) : m \in RequestMessages(c, n)}

\* Bug: the first request has the number 0.
NumbersFromZero(c) ==
    /\ receivedReply[c]
    /\ seqNum[c] < LastSeqNum(c)
    /\ seqNum' = [seqNum EXCEPT ![c] = @ + 1]
    /\ receivedReply' = [receivedReply EXCEPT ![c] = FALSE]
    /\ \E p \in Encodings(c, seqNum'[c]) : net' = net \cup {[p EXCEPT !.msg.seqno = seqNum[c]]}
    /\ UNCHANGED hostVars

SendRequest(c) ==
    /\ receivedReply[c]
    /\ seqNum[c] < LastSeqNum(c)
    /\ seqNum' = [seqNum EXCEPT ![c] = @ + 1]
    /\ receivedReply' = [receivedReply EXCEPT ![c] = FALSE]
    /\ \E p \in Encodings(c, seqNum'[c]) : net' = net \cup {p}
    /\ UNCHANGED hostVars

\* Nothing was received for a second.
Retry(c) ==
    /\ ~receivedReply[c]
    /\ ~Sharding(c)
    /\ \E p \in Encodings(c, seqNum[c]) : net' = net \cup {p}
    /\ UNCHANGED <<hostVars, clientVars>>

\* The gets and sets of the experiment acknowledge only what is received
\* while the number of the request is a multiple of AckBatch.
SendAck(c, p) ==
    net' = IF /\ p.msg.type = "Message"
              /\ Setup(c) \/ Sharding(c) \/ seqNum[c] % AckBatch = 0
           THEN net \cup {Packet(c, Server(c, seqNum[c]), Ack(p.msg.seqno))}
           ELSE net

\* Bug: any reply will do.
IgnoresKey(c, p) == p.msg.type = "Message" /\ p.msg.m.type = "Reply"

\* What ends the wait for the n-th request of c. A reply ends the wait for the
\* acknowledgment of a Shard request too.
Awaited(c, n) ==
    CASE Sharding(c) /\ n = 2 -> {"Ack", "Reply"}
      [] Sharding(c) /\ n = 3 -> {"Redirect"}
      [] OTHER -> {"Reply"}

\* Whether p ends the wait of c: any acknowledgment where one will do, or a
\* reply or a redirect for the key of the request. Who sent it is not looked at.
IsReply(c, p) ==
    LET awaited == Awaited(c, seqNum[c])
    IN  \/ "Ack" \in awaited /\ p.msg.type = "Ack"
        \/ /\ p.msg.type = "Message"
           /\ p.msg.m.type \in awaited
           /\ p.msg.m.k = RequestKey(c, seqNum[c])

Receive(c, p) ==
    /\ ~receivedReply[c]
    /\ p.dst = c
    /\ SendAck(c, p)
    /\ receivedReply' = [receivedReply EXCEPT ![c] = IsReply(c, p)]
    /\ UNCHANGED <<hostVars, seqNum>>

ClientNext ==
    \/ \E c \in Client :
         \/ SendRequest(c)
         \/ Retry(c)
         \/ \E p \in net : Receive(c, p)
    \/ \E e \in Host : HostNext(e) /\ UNCHANGED clientVars

ClientSpec == ClientInit /\ [][ClientNext]_<<vars, clientVars>>

(***************************************************************************)
(* Fairness. The loops of the hosts and clients go on, and what is sent    *)
(* again until it is answered arrives in the end, a request and its reply. *)
(***************************************************************************)
ReceivesRequest(e, c) ==
    /\ \E p \in net : p.src = c /\ NewSingleMessage(sd[e], p) /\ ReceivePacket(e, p)
    /\ UNCHANGED clientVars

ReceivesReply(c) == \E p \in net : IsReply(c, p) /\ Receive(c, p)

FairClientSpec ==
    /\ ClientSpec
    /\ \A c \in Client :
         /\ WF_<<vars, clientVars>>(SendRequest(c))
         /\ SF_<<vars, clientVars>>(ReceivesReply(c))
    /\ \A e \in Host :
         /\ WF_<<vars, clientVars>>(ProcessReceivedPacket(e) /\ UNCHANGED clientVars)
         /\ \A c \in Client : SF_<<vars, clientVars>>(ReceivesRequest(e, c))
-----------------------------------------------------------------------------
(***************************************************************************)
(* Properties                                                              *)
(***************************************************************************)
Executed(c, n) ==
    {i \in DOMAIN received_requests[Server(c, n)] :
        LET request == received_requests[Server(c, n)][i].request
        IN  request.src = c /\ request.msg.seqno = RequestSeqno(c, n)}

\* "Wait for the reply": when a client stops waiting for the reply to a
\* request, the host has executed the request. A reply the host sends again
\* because it was not acknowledged must not pass for the next one.
WaitsForReply ==
    \A c \in Client : \A n \in 1 .. seqNum[c] :
        Awaited(c, n) = {"Reply"} /\ (n < seqNum[c] \/ receivedReply[c]) => Executed(c, n) # {}

\* However often a request is sent again, and with whatever values, the host
\* executes one of its encodings, once, and after all the requests before it.
OneEncodingExecuted ==
    \A c \in Client : ~Sharding(c) =>
        \A n \in 1 .. seqNum[c] :
            /\ Cardinality(Executed(c, n)) <= 1
            /\ \A i \in Executed(c, n), m \in 1 .. n - 1 : \E j \in Executed(c, m) : j < i

\* "Sending a GetRequest after a Shard, expect a redirect": the first server
\* does not answer the second get of the sharding workload itself, even when
\* the client did not wait for the acknowledgment of the Shard.
RedirectExpected == \A c \in Client : Sharding(c) => Executed(c, 3) = {}

\* Setup comes to its end, over a network that loses what it may lose.
SetupEnds ==
    \A c \in Client :
        Setup(c) => <>(seqNum[c] = NumKeys /\ receivedReply[c])
=============================================================================
