---------------------------- MODULE IoFramework ----------------------------
(***************************************************************************)
(* The I/O framework between the hosts and TCP (IoFramework.cs): the       *)
(* threads of each process, their queues, and the connections between      *)
(* processes. A packet goes from SendPacket to the queue of the dispatch   *)
(* thread, to the queue of a sender thread, over the connection of that    *)
(* thread, and into the receive queue of the other process.                *)
(*                                                                         *)
(* A client sender thread makes a connection, and is alone on its end of   *)
(* it; the listener of the other process starts a server sender thread for *)
(* the other end. A connection is named after the client sender thread.    *)
(*                                                                         *)
(* Some definitions have a variant with a bug beside them, which no action *)
(* uses: the properties are shown to tell the two apart.                   *)
(***************************************************************************)
EXTENDS SequencesExt

CONSTANTS
    Node,           \* the processes, named by the hashes of their public keys
    Server,         \* those that listen, and whose addresses are known
    Packet,         \* what is sent, each one at most once: records with src and dst
    MaxSendTries,   \* 3 in the code
    MaxThreads,     \* bound: how many sender threads are started
    MaxBreaks,      \* bound: how many connections break
    Nothing         \* no task, no thread

ASSUME IoAssumption ==
    /\ Server \subseteq Node
    /\ \A p \in Packet : p.src \in Node /\ p.dst \in Node /\ p.src # p.dst
    /\ MaxSendTries \in Nat \ {0}
    /\ MaxThreads \in Nat
    /\ MaxBreaks \in Nat

Thread == 1 .. MaxThreads

VARIABLES
    sendQueue,      \* sendQueue[n]: the tasks for the dispatch thread of n
    inHand,         \* inHand[n]: the task it is dispatching, with a thread or none yet
    senders,        \* senders[n][d]: the registered sender threads of n to d
    thread,         \* thread[t]: the state of sender thread t
    wire,           \* wire[t][n]: what is on its way to n on connection t
    link,           \* link[t]: the state of connection t
    accepting,      \* accepting[n]: the connection the listener of n is accepting
    receiveQueue,   \* receiveQueue[n]: what n has received and not yet taken
    sent,           \* the packets given to SendPacket
    received        \* received[n]: what ReceivePacket has returned to n, in order

threadVars == <<senders, thread>>
wireVars == <<wire, link, accepting>>
history == <<sent, received>>
vars == <<sendQueue, inHand, threadVars, wireVars, receiveQueue, history>>

(***************************************************************************)
(* A task is a packet and how often sending it has failed. A thread is     *)
(* connecting, then sending, until its connection fails; then it takes     *)
(* itself off the register, gives its tasks back and ends.                 *)
(***************************************************************************)
Task(p, tries) == [packet |-> p, numTriesSoFar |-> tries]

Unstarted ==
    [status |-> "unstarted", node |-> Nothing, dst |-> Nothing, queue |-> <<>>,
     current |-> Nothing, connection |-> Nothing]

Init ==
    /\ sendQueue = [n \in Node |-> <<>>]
    /\ inHand = [n \in Node |-> Nothing]
    /\ senders = [n \in Node |-> [d \in Node |-> <<>>]]
    /\ thread = [t \in Thread |-> Unstarted]
    /\ wire = [t \in Thread |-> [n \in Node |-> <<>>]]
    /\ link = [t \in Thread |-> "none"]
    /\ accepting = [n \in Node |-> Nothing]
    /\ receiveQueue = [n \in Node |-> <<>>]
    /\ sent = {}
    /\ received = [n \in Node |-> <<>>]

\* The next thread to start. It registers before it runs.
Fresh(t) == thread[t].status = "unstarted" /\ \A u \in 1 .. t - 1 : thread[u].status # "unstarted"

Start(t, n, d, status, connection) ==
    /\ Fresh(t)
    /\ thread' = [thread EXCEPT ![t] = [status |-> status, node |-> n, dst |-> d, queue |-> <<>>,
                                        current |-> Nothing, connection |-> connection]]
    /\ senders' = [senders EXCEPT ![n][d] = <<t>> \o @]

StartClientSender(t, n, d) == Start(t, n, d, "connecting", t)

(***************************************************************************)
(* The process: SendPacket, ReceivePacket, and Connect, by which a client  *)
(* connects to the servers before it sends anything.                       *)
(***************************************************************************)
SendPacket(p) ==
    /\ p \notin sent
    /\ sent' = sent \cup {p}
    /\ sendQueue' = [sendQueue EXCEPT ![p.src] = Append(@, Task(p, 0))]
    /\ UNCHANGED <<inHand, threadVars, wireVars, receiveQueue, received>>

ReceivePacket(n) ==
    /\ receiveQueue[n] # <<>>
    /\ receiveQueue' = [receiveQueue EXCEPT ![n] = Tail(@)]
    /\ received' = [received EXCEPT ![n] = Append(@, Head(receiveQueue[n]))]
    /\ UNCHANGED <<sendQueue, inHand, threadVars, wireVars, sent>>

ConnectToServer(t, n, d) ==
    /\ n \notin Server
    /\ d \in Server
    /\ \A p \in sent : p.src # n
    /\ senders[n][d] = <<>>
    /\ StartClientSender(t, n, d)
    /\ UNCHANGED <<sendQueue, inHand, wireVars, receiveQueue, history>>

(***************************************************************************)
(* The dispatch thread takes a task and looks for a sender, starts one if  *)
(* there is none, and hands it the task. Other threads run in between.     *)
(***************************************************************************)
Dispatch(n) ==
    /\ inHand[n] = Nothing
    /\ sendQueue[n] # <<>>
    /\ LET task == Head(sendQueue[n])
           found == senders[n][task.packet.dst]
       IN  inHand' = [inHand EXCEPT ![n] =
                         [task |-> task, sender |-> IF found = <<>> THEN Nothing ELSE Head(found)]]
    /\ sendQueue' = [sendQueue EXCEPT ![n] = Tail(@)]
    /\ UNCHANGED <<threadVars, wireVars, receiveQueue, history>>

CreateSender(n, t) ==
    /\ inHand[n] # Nothing
    /\ inHand[n].sender = Nothing
    /\ StartClientSender(t, n, inHand[n].task.packet.dst)
    /\ inHand' = [inHand EXCEPT ![n].sender = t]
    /\ UNCHANGED <<sendQueue, wireVars, receiveQueue, history>>

EnqueueSendTask(n) ==
    /\ inHand[n] # Nothing
    /\ inHand[n].sender # Nothing
    /\ thread' = [thread EXCEPT ![inHand[n].sender].queue = Append(@, inHand[n].task)]
    /\ inHand' = [inHand EXCEPT ![n] = Nothing]
    /\ UNCHANGED <<sendQueue, senders, wireVars, receiveQueue, history>>

(***************************************************************************)
(* Connections. One breaks at any time, and with it is lost some end of    *)
(* what is on its way.                                                     *)
(***************************************************************************)
\* A process that does not listen has no known address.
Connect(t) ==
    /\ thread[t].status = "connecting"
    /\ \/ /\ thread[t].dst \in Server
          /\ thread' = [thread EXCEPT ![t].status = "sending"]
          /\ link' = [link EXCEPT ![t] = "connected"]
       \/ /\ thread' = [thread EXCEPT ![t].status = "failed"]
          /\ UNCHANGED link
    /\ UNCHANGED <<sendQueue, inHand, senders, wire, accepting, receiveQueue, history>>

\* The listener starts a receiver thread, which runs at once,
Accept(t) ==
    /\ link[t] = "connected"
    /\ accepting[thread[t].dst] = Nothing
    /\ link' = [link EXCEPT ![t] = "accepted"]
    /\ accepting' = [accepting EXCEPT ![thread[t].dst] = t]
    /\ UNCHANGED <<sendQueue, inHand, threadVars, wire, receiveQueue, history>>

\* then a sender thread, whatever has become of the connection, and then it
\* listens again.
CreateServerSender(n, u) ==
    /\ accepting[n] # Nothing
    /\ Start(u, n, thread[accepting[n]].node, "sending", accepting[n])
    /\ accepting' = [accepting EXCEPT ![n] = Nothing]
    /\ UNCHANGED <<sendQueue, inHand, wire, link, receiveQueue, history>>

Break(t) ==
    /\ link[t] \in {"connected", "accepted"}
    /\ Cardinality({u \in Thread : link[u] = "broken"}) < MaxBreaks
    /\ \E kept \in [Node -> 0 .. Cardinality(Packet)] :
         /\ \A n \in Node : kept[n] <= Len(wire[t][n])
         /\ wire' = [wire EXCEPT ![t] = [n \in Node |->
                        IF link[t] = "connected" /\ n # thread[t].node THEN <<>>
                        ELSE SubSeq(wire[t][n], 1, kept[n])]]
    /\ link' = [link EXCEPT ![t] = "broken"]
    /\ UNCHANGED <<sendQueue, inHand, threadVars, accepting, receiveQueue, history>>

\* A receiver thread; there is one for each end of a connection once it is
\* accepted.
ReceiveLoop(t, n) ==
    /\ wire[t][n] # <<>>
    /\ link[t] # "connected"
    /\ receiveQueue' = [receiveQueue EXCEPT ![n] = Append(@, Head(wire[t][n]))]
    /\ wire' = [wire EXCEPT ![t][n] = Tail(@)]
    /\ UNCHANGED <<sendQueue, inHand, threadVars, link, accepting, history>>

(***************************************************************************)
(* Sender threads.                                                         *)
(***************************************************************************)
\* Writing to a broken connection may seem to succeed.
Written(t) ==
    LET connection == thread[t].connection
    IN  IF link[connection] = "broken" THEN UNCHANGED wire
        ELSE wire' = [wire EXCEPT ![connection][thread[t].dst] = Append(@, Head(thread[t].queue).packet)]

\* Bug: a task is taken off the queue only when it is written.
PeeksAtTask(t) ==
    /\ thread[t].status = "sending"
    /\ thread[t].queue # <<>>
    /\ \/ /\ Written(t)
          /\ thread' = [thread EXCEPT ![t].queue = Tail(@)]
       \/ /\ link[thread[t].connection] = "broken"
          /\ thread' = [thread EXCEPT ![t].current = Head(thread[t].queue),
                                      ![t].status = "failed"]
          /\ UNCHANGED wire
    /\ UNCHANGED <<sendQueue, inHand, senders, link, accepting, receiveQueue, history>>

\* Bug: a thread that has written a task keeps it as the current one.
KeepsWhatItWrote(t) ==
    /\ thread[t].status = "sending"
    /\ thread[t].queue # <<>>
    /\ \/ /\ Written(t)
          /\ thread' = [thread EXCEPT ![t].queue = Tail(@), ![t].current = Head(thread[t].queue)]
       \/ /\ link[thread[t].connection] = "broken"
          /\ thread' = [thread EXCEPT ![t].status = "failed"]
          /\ UNCHANGED wire
    /\ UNCHANGED <<sendQueue, inHand, senders, link, accepting, receiveQueue, history>>

\* A task whose writing fails stays the current one.
SendLoop(t) ==
    /\ thread[t].status = "sending"
    /\ thread[t].queue # <<>>
    /\ \/ /\ Written(t)
          /\ thread' = [thread EXCEPT ![t].queue = Tail(@)]
       \/ /\ link[thread[t].connection] = "broken"
          /\ thread' = [thread EXCEPT ![t].queue = Tail(@),
                                      ![t].current = Head(thread[t].queue),
                                      ![t].status = "failed"]
          /\ UNCHANGED wire
    /\ UNCHANGED <<sendQueue, inHand, senders, link, accepting, receiveQueue, history>>

\* Bug: the thread stays registered while it gives back its tasks.
StaysRegistered(t) ==
    /\ thread[t].status = "failed"
    /\ thread' = [thread EXCEPT ![t].status = "draining"]
    /\ UNCHANGED <<sendQueue, inHand, senders, wireVars, receiveQueue, history>>

UnregisterSender(t) ==
    /\ thread[t].status = "failed"
    /\ thread' = [thread EXCEPT ![t].status = "draining"]
    /\ senders' = [senders EXCEPT ![thread[t].node][thread[t].dst] = RemoveFirst(@, t)]
    /\ UNCHANGED <<sendQueue, inHand, wireVars, receiveQueue, history>>

\* Bug: one try too many.
ResendsOnceMore(n, task) ==
    sendQueue' = IF task.numTriesSoFar + 1 <= MaxSendTries
                 THEN [sendQueue EXCEPT ![n] = Append(@, Task(task.packet, task.numTriesSoFar + 1))]
                 ELSE sendQueue

ResendPacket(n, task) ==
    sendQueue' = IF task.numTriesSoFar + 1 < MaxSendTries
                 THEN [sendQueue EXCEPT ![n] = Append(@, Task(task.packet, task.numTriesSoFar + 1))]
                 ELSE sendQueue

\* What was being sent is given back first, then what waited in the queue;
\* a queue that is found empty is not looked at again.
Requeue(t) ==
    /\ thread[t].status = "draining"
    /\ \/ /\ thread[t].current # Nothing
          /\ ResendPacket(thread[t].node, thread[t].current)
          /\ thread' = [thread EXCEPT ![t].current = Nothing]
       \/ /\ thread[t].current = Nothing
          /\ thread[t].queue # <<>>
          /\ ResendPacket(thread[t].node, Head(thread[t].queue))
          /\ thread' = [thread EXCEPT ![t].queue = Tail(@)]
       \/ /\ thread[t].current = Nothing
          /\ thread[t].queue = <<>>
          /\ thread' = [thread EXCEPT ![t].status = "ended"]
          /\ UNCHANGED sendQueue
    /\ UNCHANGED <<inHand, senders, wireVars, receiveQueue, history>>

Next ==
    \/ \E p \in Packet : SendPacket(p)
    \/ \E n \in Node :
         \/ ReceivePacket(n)
         \/ Dispatch(n)
         \/ EnqueueSendTask(n)
         \/ \E t \in Thread : CreateSender(n, t) \/ CreateServerSender(n, t) \/ ReceiveLoop(t, n)
         \/ \E d \in Node, t \in Thread : ConnectToServer(t, n, d)
    \/ \E t \in Thread :
         \/ Connect(t)
         \/ Accept(t)
         \/ Break(t)
         \/ SendLoop(t)
         \/ UnregisterSender(t)
         \/ Requeue(t)

Network == INSTANCE PacketNetwork

Spec == Init /\ [][Next]_vars

-----------------------------------------------------------------------------
(***************************************************************************)
(* Properties                                                              *)
(***************************************************************************)
Held(t) == thread[t].queue \o IF thread[t].current = Nothing THEN <<>> ELSE <<thread[t].current>>

TaskSet == [packet : Packet, numTriesSoFar : 0 .. MaxSendTries - 1]
HandSet == [task : TaskSet, sender : Thread \cup {Nothing}]
Status == {"unstarted", "connecting", "sending", "failed", "draining", "ended"}
ThreadSet ==
    [status : Status, node : Node \cup {Nothing}, dst : Node \cup {Nothing},
     queue : Seq(TaskSet), current : TaskSet \cup {Nothing},
     connection : Thread \cup {Nothing}]

\* The state of the framework is well formed: in particular every task that
\* waits anywhere has a try left (ResendPacket drops it otherwise).
TypeOK ==
    /\ sendQueue \in [Node -> Seq(TaskSet)]
    /\ inHand \in [Node -> HandSet \cup {Nothing}]
    /\ senders \in [Node -> [Node -> Seq(Thread)]]
    /\ thread \in [Thread -> ThreadSet]
    /\ wire \in [Thread -> [Node -> Seq(Packet)]]
    /\ link \in [Thread -> {"none", "connected", "accepted", "broken"}]
    /\ accepting \in [Node -> Thread \cup {Nothing}]
    /\ receiveQueue \in [Node -> Seq(Packet)]
    /\ received \in [Node -> Seq(Packet)]
    /\ sent \subseteq Packet

(***************************************************************************)
(* Everything that holds packets, by name, and the packets in it.          *)
(***************************************************************************)
Place ==
    ({"sendQueue", "inHand", "receiveQueue", "received"} \X Node)
    \cup ({"queue", "current"} \X Thread)
    \cup ({"wire"} \X Thread \X Node)

Packets(tasks) == [i \in DOMAIN tasks |-> tasks[i].packet]
AtMostOne(x) == IF x = Nothing THEN <<>> ELSE <<x>>

Holdings ==
    [x \in Place |->
        CASE x[1] = "sendQueue" -> Packets(sendQueue[x[2]])
          [] x[1] = "inHand" -> IF inHand[x[2]] = Nothing THEN <<>>
                                ELSE <<inHand[x[2]].task.packet>>
          [] x[1] = "receiveQueue" -> receiveQueue[x[2]]
          [] x[1] = "received" -> received[x[2]]
          [] x[1] = "queue" -> Packets(thread[x[2]].queue)
          [] x[1] = "current" -> Packets(AtMostOne(thread[x[2]].current))
          [] x[1] = "wire" -> wire[x[2]][x[3]]]

Positions == UNION {{x} \X DOMAIN Holdings[x] : x \in Place}

\* A packet is in at most one place, however often it is given back and sent
\* again: Run takes a task off a queue before it sends it or gives it back,
\* and what a failed write leaves is the one current task.
HeldOnce ==
    \A v, w \in Positions : Holdings[v[1]][v[2]] = Holdings[w[1]][w[2]] => v = w

\* A thread that FindSenderForDestinationPublicKeyHash may return has not yet
\* begun to give back its tasks, and sends to where it is registered.
FoundSendersServe ==
    \A n, d \in Node : \A t \in ToSet(senders[n][d]) :
        /\ thread[t].status \in {"connecting", "sending", "failed"}
        /\ thread[t].node = n
        /\ thread[t].dst = d

\* What the framework promises its processes.
NetworkSpec == Network!Spec

\* "If there are packets queued for us to send, re-queue them for sending by
\* another sender thread": a thread that has ended has left nothing behind.
NothingStranded ==
    \A t \in Thread : thread[t].status = "ended" => Held(t) = <<>>
=============================================================================
