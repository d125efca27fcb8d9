# IronSHT in TLA+

IronSHT (`src/ironsht`) is a sharded hash table: a fixed set of hosts serve
gets and sets for the keys they own, hand ranges of keys to each other, and
redirect clients to the owner of a key. Hosts and clients talk over an
unreliable network; an exactly-once delivery layer sits under everything the
hosts decide.

The repository verifies one host: its steps refine a host state machine
(`host_protocol_t.rs`). It does not say what several hosts do together: the
README of the repository states that the proof "that the host program TLA state
machine model, in the context of a distributed system, implements the high-level
spec" is not replicated. That layer is what this project supplies: hosts, clients and
the network between them, what they promise together, and liveness, which the
verified code leaves out altogether.

## The system

| component | state | operations | interacts by |
|---|---|---|---|
| single delivery layer (`single_delivery_*`) | per peer: the last number accepted, the numbers acknowledged, the messages not yet acknowledged | send, receive message, receive acknowledgment, acknowledge, retransmit | called by the host for every packet |
| host loop (`host_impl_v.rs`, `main_t.rs`) | `received_packet`, `next_action_index`, `resend_count` | receive, process, resend, round robin | calls the delivery layer and the handlers, one after the other |
| request handlers (`host_impl_v.rs`), and the protocol they are verified against (`host_protocol_t.rs`) | `delegation_map`, hash table `h`, `num_delegations`, ghost `received_requests` | get, set, delegate, shard | messages to clients and to other hosts |
| delegation map (`delegation_map_v.rs`) | the starts of ranges, sorted, with their owners | get, set a range, is a range owned by | called by the handlers |
| hash table (`hashmap_t.rs`) | keys and values | get, insert, remove, bulk update, bulk remove, filter, size | called by the handlers |
| endpoint map (`endpoint_hashmap_t.rs`) | state per peer | get, put, keys | called by the delivery layer |
| network glue (`net_sht_v.rs`, `io_t.rs`) | none | receive and parse, marshal and send | callbacks into the C# process |
| client (`csharp/IronSHTClient`) | sequence number, the request it waits for | send, wait, retry, acknowledge | messages |
| I/O framework (`csharp/Common/IoFramework.cs`) | connections, send and receive queues, threads | connect, send, receive, drop | TCP |
| marshalling (`marshal_v.rs`, `marshal_ironsht_specific_v.rs`, the encoders and the parser of `Client.cs`) | none | serialize, deserialize, demarshal a packet | called by the network glue and the client |
| command line, certificates, server process | none that matters between steps | | |

What is hard here, and where the properties aim:

* **Unreliable delivery.** Packets are lost, duplicated, delayed and reordered,
  acknowledgments too. A host drops whatever arrives while its one-packet buffer
  is full. Sequence numbers are finite.
* **Ownership in flight.** A range of keys leaves a host when a `Delegate` message is
  sent, and arrives when the recipient processes it, after any number of other
  steps, other delegations of the same keys among them. No host knows where
  every key is, and every delegation map but the owner's is stale.
* **Limits.** Too many delegations, values in a range, bytes in a value, or
  sequence numbers: each has an early return, and each early return must leave
  map, table and counters in agreement.
* **Waiting for ever.** A message that a host refuses blocks it; retransmission is
  rare; operations of the hash table that the verifier trusts never return.
* **Threads.** Under each host and client, a packet passes through three queues, each filled by
  other threads, and comes back to the first one whenever a connection fails.
* **Two languages.** The client encodes, parses, numbers, retries and acknowledges with
  code of its own, which nothing verifies.

## Modules

| module | models | promise |
|---|---|---|
| `SingleDelivery` | the operations of `CSingleDelivery`, as operators on the state of one host | |
| `Delivery` | endpoints that run them over a lossy, duplicating, reordering network, around the one-packet buffer | implements `FifoChannel` |
| `FifoChannel` | nothing in the code: exactly-once, in-order channels | |
| `HostLoop` | the scheduler of a host around `Delivery`, and sends and receives that fail | implements `FifoChannel`; liveness |
| `Sht` | hosts with all their handlers, clients, delegations | implements `KvService` and `HostProtocol` |
| `HostProtocol` | the abstract host of `host_protocol_t.rs` and the delivery layer of `single_delivery_t.rs`, which the repository trusts | |
| `KvService` | the requests and replies of `abstract_service_t.rs` on one table | |
| `KeyRanges` | keys, iterators and ranges of keys (`keys_t.rs`), owners as a function | |
| `DelegationMap` | the two vectors of `delegation_map_v.rs` | implements `OwnerMap` |
| `OwnerMap` | `AbstractDelegationMap`: an owner for every key | |
| `Client` | the loops of `Client.cs`, against the hosts of `Sht` | |
| `IoFramework` | the threads, queues and connections of `IoFramework.cs` | implements `PacketNetwork` |
| `PacketNetwork` | nothing in the code: packets sent once, received at most once, by their destination | |
| `Marshalling` | the encodings of the hosts, as operators on sequences of bytes | |
| `Wire` | the encoders and the parser of the client, and bytes that arrive | |
| `SingleDeliveryProofs` | lemmas about the operators of `SingleDelivery` | |
| `DeliveryProofs`, `DelegationMapProofs` | the theorems about `Delivery` and `HostLoop`, and about `DelegationMap` | |
| `ShtProofs` | the theorems about `Sht`: types, the delivery layer between hosts, answers; who has a key and its value, where redirects lead | |
| `RefinementProofs` | `Sht` implements `KvService` and `HostProtocol`; replies match what was executed | |
| `ClientProofs`, `IoFrameworkProofs` | the theorems about the loops of `Client`, and about `IoFramework` | |
| `WireProofs` | the theorems about `Marshalling` and `Wire` | |
| `MCHostLoop`, `MCSht`, `MCDelegationMap`, `MCClient`, `MCIoFramework`, `MCWire` | small instances for TLC | |

`Delivery` and `Sht` both stand on `SingleDelivery`; `Sht` and `DelegationMap` on `KeyRanges`;
`Client` takes the hosts of `Sht` and replaces its clients. `Delivery` has the whole
network and no handlers; `Sht` has all the handlers, and a network that keeps
every packet ever sent, so that a packet is received late, often or never by
whether and when `ReceivePacket` takes it. Loss and retransmission add nothing to
that, and are looked at in `Delivery` and `HostLoop`.

### Correspondence with the code

* `sd[e]` is `HostState::sd`. The two hash maps from endpoints are total
  functions: an absent endpoint reads as 0 (`CTombstoneTable::lookup`) or as
  `CAckState::new()`, which is how the code treats it. Sequence numbers are
  `u64` with `max_seqno = 2^64 - 1`: `MaxSeqno` stands for that limit, and `CanSend` is
  the comparison of `send_single_cmessage`, which cannot overflow, as `TypeOK` shows.
* `Covered` is the scan of `CAckState::truncate`, given by where it stops.
* `ReceivePacket` is `receive_packet_next` with an empty buffer, down to the
  acknowledgment it sends; `DropPacket` is the same step with a full one. A packet
  that does not parse and a receive that times out are `ReceiveNothing`.
* The processing step is `process_received_packet_next_impl`. In `Delivery` the
  handler is any handler that sends at most one message; in `Sht` it is one of
  `NextGetRequest`, `NextSetRequest`, `NextDelegate`, `NextShard`, with their early
  returns as disjuncts, or `NextReplyOrRedirect`, which empties the buffer and does nothing
  else (no program of the repository sends a host such a message; in run
  `ShtDelegation` a client does).
* `Resend`, `Process` and `Receive` of `HostLoop` end in `Continue` or, when a packet
  cannot be sent, in `Stop`: the step returns an error with the state already changed, `ok`
  becomes false in `sht_main`, and the loop is over. Which of the packets of the step went out before
  the failure is up to the network, as a packet that was not sent and one that was lost look the same.
* `HostProtocol` is a second translation of the handlers, from the trusted specification
  rather than from the code, with a vocabulary of its own: a host may leave any request without effect (`NoEffect`), and the
  list of messages is truncated at any place that `TruncatesBy` allows. The ghost fields that only collect
  what was sent are left out, as `net` has it.
* `Resend` retransmits when `resend_count` wraps around; `ResendPeriod` is
  100,000,000 in the code and 2 in the runs: the liveness argument needs only that it
  is finite.
* Keys are `0 .. Keys - 1` and a key iterator is a number up to `Keys`, where
  `Keys` is the iterator past the last key (`KeyIterator { k: None }`). The
  delegation map of `Sht` is a total function (`AbstractDelegationMap`), which is what the
  map of `DelegationMap` is proved to implement.
* `lows` in `DelegationMap` is `DelegationMap::lows`: the vector of the starts of ranges
  and the vector of their owners. The loops over them (`insert`, `erase`,
  `greatest_lower_bound_index`, `find_key`) are given by where they stop, indices count from 1.
* Values are opaque; `Oversized` holds those that `is_value_valid` rejects. A host does not send a table
  of `MaxTable` values or more (62 in the code; `FewEnough`), and ignores one that has so many or one of `Oversized`
  (`ValidHashtable`).
* `Stubbed` names the operations of `CKeyHashMap` whose bodies panic or loop
  (`hashmap_t.rs`): a host that calls one halts. With `Stubbed = {}` the operations do what their
  contracts say, which is what the verified code relies on.
* The clients of `Sht` send any of the messages in `Request`, numbered per host from 1 on,
  and acknowledge replies if they are in `Acking`; the acknowledgments of the others are all lost.

* `Client` has the loop of `Setup`, which sets each key once, that of `Experiment` with the
  workloads of gets and of sets, and the requests of the sharding workload: a get, a `Shard` of
  the key, the get again, and a get to the second server. In that workload a timeout sends nothing, an acknowledgment goes to the server
  that was asked, and what ends a wait depends on the request (`Awaited`):
  for the `Shard` any acknowledgment, but a reply for the key too, one to the first get that the host repeats; for the get after it a redirect; else a reply.
  `Recipient` is what the `Shard` names: a public key, which is no host.
  In the two loops a retry after a timeout encodes the message anew
  (`Client.cs` 283-310 draws the value while it encodes), so that one sequence number
  may stand for several values. A received packet is acknowledged, always in the first
  loop, and in the second while the number of the current request is a multiple of `AckBatch` (100 in
  the code); then it is compared with the key of the request, and with nothing else.
* In `IoFramework` a connection is named after the client sender thread that made it. `Start` is
  the constructor of a sender thread, which registers it; a lookup and the use of what
  was found (`Dispatch`, `EnqueueSendTask`) are separate steps, as no lock is held
  between them, and so are what the listener does (`Accept`: the receiver thread runs; `CreateServerSender`: the
  sender thread for the other end is registered, and the listener takes the next connection), and the four things a failing thread does: give up its connection, unregister, give
  back each task, end. TCP is external: it keeps the order of a connection, and when the connection breaks some
  end of what is on its way is lost, and all of it if the other side has not accepted yet. A write to a broken
  connection fails or seems to succeed. Sleeping, certificates and the bytes of a frame are left out.
* `Marshalling` counts in bytes below `Base` and words of `WordSize` bytes (256 and 8 in the
  code), the lowest byte first. What `deserialize` returns is a set with at most one
  element, for its `Option`. `to_vec` and `from_vec` of the hash table are modelled by what they do,
  a sort and repeated insertion; the repository states their properties as axioms
  (`hashmap_t.rs` 129-150). The conversions of the parser of the client from `ulong` to `int` keep the lowest
  `IntSize` bytes (4 in the code). `Vec::with_capacity`, which takes memory for as many
  elements as the data announces, is left out.

The history variables `sent` and `delivered` of `Delivery` are read by no
action. `received_requests` is ghost state in the code too.

Next to some definitions stands a variant with a bug (`TruncateTooMuch` beside
`Truncate`, and so on). No action uses a variant. Put in the place of the
definition, it makes TLC refute the property that is meant to catch that bug.

## What is checked

All runs are exhaustive for their bounds.

| run | instance | shows |
|---|---|---|
| `HostLoop` | one sender, 2 messages one of which the receiver refuses, sends and receives that fail, fairness | `FifoSpec`: exactly-once in-order delivery as refinement, in whatever step a loop ends; `AckedWereAccepted`, `UndeliveredIsRetransmittable`, `AcksAreTrue`, `SeqnoNamesOneMessage`: why it works; `IInv`: the invariant of the proofs; `BufferEmptyAtReceive`: no packet is dropped for a full buffer unless the message in it is refused; `RefusedIsForever`: a host with a refused message is deaf from then on, to acknowledgments too; `EventuallyDelivered`, `EventuallyAcknowledged`: every other message gets through while both loops go on |
| `ShtService` | 2 hosts, 1 key, 4 requests, fairness | `ServiceSpec`: one table, each request at most once, while the key moves; `RepliesMatchRequests`: the i-th reply answers the i-th request executed; `AnswersFit`: a reply can always be numbered; `KeysComeToRest`: a key in flight arrives |
| `ShtDelegation` | 3 hosts, 2 clients, 4 requests, 1 sequence number for each pair, removals that halt a host | `EachKeyClaimedOnce`: one owner or one message carries a key, also when a delegation cannot be sent or a host halts; `RedirectsLeadToKey`; `ProtocolSpec`: every step is one the trusted protocol allows |
| `ShtLimits` | 2 keys, all ways to split them, tables of 1, values too long, 5 delegations, empty ranges, a recipient that is no host | rejected requests have no effect; `OnlyOwnedKeysStored`; `EachKeyClaimedOnce`, `ServiceSpec` and `ProtocolSpec` for ranges that are split and rejoined |
| `ShtStubs` | the operations of `hashmap_t.rs` as built | violated: `HostsKeepRunning` |
| `DelegationMap` | 4 keys, 3 hosts | `Valid`, `RangeQueryIsExact`, `ImplementsOwnerMap`: every map that can arise, every range set in it and asked for |
| `ClientSetup` | 1 host, a client that sets 2 keys and one that gets them, 2 values | `OneEncodingExecuted`: of the encodings of a request the host executes one, once, in order; `WaitsForReply`: the client goes on only when its request was executed; `SetupEnds` |
| `ClientExperiment` | 1 host, 1 key, 3 sets | violated: `WaitsForReply` |
| `ClientSharding` | 2 hosts, 1 key, a client with the sharding workload | violated: `RedirectExpected` |
| `IoFramework` | a server and a client, 3 packets, 4 sender threads, 1 broken connection, 2 tries | `HeldOnce`: a packet is in one place at a time; `NetworkSpec`: received once, by its destination; `FoundSendersServe`: a registered thread has not begun to give back its tasks; `TypeOK`: no task outlives its tries |
| `IoStranded` | the same | violated: `NothingStranded` |
| `Wire` | 2 keys, tables of up to 2, each message as it is encoded and with one change | `HostsUnderstand`, `ClientsUnderstand`: the two languages agree; `ParsesExactly`: a host takes no bytes for a message but its encoding, and none it could not send; `PartsAreRejected` |

**Bounds.** Two messages in each direction are enough for a message to be
overtaken by its successor and by the acknowledgment of its successor, for an
acknowledgment to be stale, and for a list to be truncated in part. Four
requests take a key from one host to the other and back, with a get or a set at
either end; three hosts are needed for a redirect to go through a host that owned the key
in between. One key is enough for what happens to a key over time; two
keys for what ranges add: a range that is partly owned, a neighbour that must
not change. In `ShtLimits`, `MaxDelegations = 5` makes a host refuse after two counted
delegations, `MaxTable = 2` makes a table of two values too large.
Four keys
let a range of `DelegationMap` have neighbours on both sides and a start strictly inside;
three hosts make it differ from both neighbours.
`MaxRequests` and `MaxSeqno` bound the runs of hosts; the second is a limit of the code,
the first a bound of the model only.

`HostLoop` has one sender, since the two directions meet only in the packet buffer, and acknowledgments
fill that of the sender; messages in both directions at once are in the runs of `Sht`, where hosts and clients
send to each other, and in the proofs. In `IoFramework`, four threads are a connection from the client,
its other end, and one more of each after the first has failed; three packets are two in a queue while one
goes the other way; the two differ in name only, which `Alike` makes use of. A second connection that breaks would repeat the first.
In `ClientSetup` no key comes round again: that is why `WaitsForReply` holds there,
and not in `ClientExperiment`. In `Wire`, `Base = 10` leaves room for every tag and a tag too
many, words of 3 bytes a number that needs two of them, an int of 2 bytes one that holds the length of every
buffer (`BufferAssumption`: up to 49) while lengths announced in the data become negative;
tables have a limit that the largest one exceeds; one changed byte makes two keys equal.

**Deadlock.** Every system here may really stop: the loops of `HostLoop` end when a send fails, the hosts of `Sht`
halt or have nothing to do once the bound on requests is reached, the threads of `IoFramework` end, and a client is
done with its requests. No run asks for deadlocks; what must go on is stated as liveness.

**Fairness.** `HostLoop` assumes that the loop of `sht_main` goes on until a step fails
(`LoopRuns`), that a message which is sent again and again is not lost every
time (`ResendGetsThrough`), and that a packet which is again and again in flight
when its destination receives is not always passed over, nor its acknowledgment
always lost (`ReceiveGetsThrough`). The last two are strong fairness, as
a network that delivers nothing makes every promise void; each is about one packet, so the network
remains free to lose any number of packets. Handlers are under no obligation to send.
`ShtService` assumes that hosts process what they have buffered, and that a
message which stays deliverable is received in the end.
`ClientSetup` assumes the same of its host; that a client sends when it is its turn, as the loop does
nothing else; and that the request it repeats every second, and the reply the host repeats until it is acknowledged,
get through if they can again and again. It is free to retry or not, for what it sent stays in `net`.
`IoFramework` and `Wire` assume no fairness.

## What is proved

`DeliveryProofs` proves, for any set of endpoints, any payloads and any
`MaxSeqno`, and with the assumptions that `MaxSeqno` is a number and that the
empty buffer is not a packet:

* `InductiveInvariant`: `Spec => []IInv`. `IInv` says that the sender's list is the end of
  what was sent, numbered without gaps from `num_packets_acked + 1` on
  (`UnAckedIsSuffix`), that what was accepted is the beginning of what was sent
  (`DeliveredIsPrefix`), that the counters of both ends agree (`AckedWereAccepted`), and that every
  packet in flight is true: an acknowledgment covers only what was
  accepted (`AcksAreTrue`), a message is what was sent under its number
  (`SeqnoNamesOneMessage`). No part is inductive alone. `TypeOK`, for one, needs the
  list to be numbered without gaps, since only then does the scan of `truncate` stop at one definite place
  (lemma `CoveredSequential`); a stale acknowledgment is harmless because of `AcksAreTrue`, a
  duplicated message because of `SeqnoNamesOneMessage`.
* `TypeCorrect`, `AcknowledgedWereAccepted`, `AcknowledgmentsAreTrue`, `SequenceNumbersNameMessages`,
  `NothingIsLost`: its consequences, the last one for `UndeliveredIsRetransmittable`.
* `ExactlyOnceInOrder`: `Spec => FifoSpec`. Accepting a message is `Deliver`
  (lemma `AcceptIsDeliver`: the payload is the next one of `sent`), sending is
  `Send`, everything else stutters.

The lemmas of `SingleDeliveryProofs` say where the scan of `truncate` stops; those of `DeliveryProofs` say what each operator of `SingleDelivery` returns
(`PutAckStateEffect`, `ReceiveAckEffect`, `ReceiveRealPacketEffect`,
`SendEffect`), what a step of the network may leave in flight (`TransmitEffect`),
and then, one per action, that it keeps the invariant.

It also proves, of `HostLoop`, for any endpoints, refused messages and retransmission period:

* `LoopIsExactlyOnceInOrder`: `LoopSpec => FifoSpec`, with every send and receive that fails; a step of a loop is one of
  `Delivery` or none by the way `HostLoop` is built (`LoopStep`), so the invariant of `Delivery` serves.
* `BufferIsEmptyAtReceive`: from `EmptyAfterProcessing`, which says the same of the two steps after the processing.
* `RefusalIsForever`: from `RefusedIsHeld`: a host whose last accepted message is one it refuses has that message in its buffer.

`DelegationMapProofs` proves, for any number of keys and any hosts:

* `Validity`: `Spec => []Valid`; the vectors stay sorted and in step. `Valid` is inductive as it stands.
* `QueriesAreExact`: the scan of `range_consistent_impl` says that a host owns a range exactly when
  looking up each key of it would say so.
* `MapImplementsOwners`, `MapRefinesOwnerMap`: setting a range changes the owners of its
  keys and of no other, so that the vectors implement `OwnerMap`, and `Sht` may use a function.

The argument is not about positions but about the set of pairs of a start and an owner
(`Holds`), and which of them governs a key (`Governs`): one lemma for each operation says what it does to that set
(`SetLowIs`, `EraseRangeIs`, `SetHolds`), and what `get` returns depends on the set alone (`GetIs`, `GetFrom`). That each
scan has somewhere to stop comes from the least number of a set (`LeastElement`).

Two modules prove what `Sht` promises, for any hosts, clients, keys, values, requests,
limits and stubbed operations, from the named assumptions of `Sht`: `Keys` and `MaxDelegations` are not too small,
the root is a host, the requests are messages, `NoPacket` is none, and so on.

* `ShtProofs`. `TypesOK`: `Spec => []TypeOK`; `DeliveryBetweenHosts`: `Spec => []DeliveryInv`. The invariant is
  `Inv`: types, finitely many packets (a client numbers its requests by counting them), and the delivery layer
  between any two hosts as it looks from outside, without the history that `Delivery` keeps: what is acknowledged was accepted, what was
  accepted was sent, a packet in `net` that is not yet acknowledged is the one in the list of its sender. Clients may
  number and acknowledge what they like, as long as they do not pretend to be hosts and acknowledge only what they received.
  `AnswersAlwaysFit`: `Spec => []AnswersFit`. A host has sent a client no more messages than it has accepted requests from it, less the one
  in the buffer (`AnswersCounted`), and those are limited by the same `MaxSeqno`.
* `ShtProofs`, in its second part. `KeysAreClaimedOnce`: `Spec => []EachKeyClaimedOnce`; `StoredKeysAreOwned`:
  `Spec => []OnlyOwnedKeysStored`. The invariant is `OwnInv`: every key has one owner and is in no pending message, or is in one pending message and has
  no owner (`Claimed`), and every `Delegate` message of a host is one its recipient will not ignore (`DelegatesDeliverable`), as
  no host stores a value that is too long (`StoredValuesFit`). Each step either leaves the set
  of pending messages alone, or moves one message from the network to a buffer (`PendingReceive`), or takes one out
  and adds one (`PendingSend`). The lemmas also say that no such step changes the value of a key (`TableKept`).
  `RedirectsLead`: `Spec => []RedirectsLeadToKey`. The part of the invariant for it, `Leads`, says that every set of hosts that no
  redirect leaves has a destination of the key in it, its owner or the host that a message carries it to. When a key moves, the host
  it leaves points to the new destination (`RedirectsFollow`): a set that no redirect leaves and without that destination is without that
  host as well, so no redirect to it came from the set before either.
* `RefinementProofs`. `HostsImplementOneTable`: `Spec => ServiceSpec`. A get or a set of an owned key is the step
  of `KvService` at which it takes effect (`GetRequestServes`, `SetRequestServes`), as `Table` is the table of the
  owner (`OwnerHasValue`); a client that asks is `Submit`; all else stutters. That a request is executed once
  rests on `ExecutedWereAccepted`: what was executed has a number below that of the packet in the buffer.
  `RepliesMatch`: `Spec => []RepliesMatchRequests`. The function from requests to replies that the property asks for is extended by one pair with
  each request that is executed; the new reply has the highest number, since a message that was ever sent
  has a number up to `Last` (`MessagesKnown`).
  `HostsFollowProtocol`: `Spec => ProtocolSpec`. One lemma for each handler, for sending, for
  acknowledgments and for retransmission. This is the refinement that the repository verifies of one host
  (`next_ensures`), for the models of this project.

`ClientProofs` proves, for any clients that run the two loops of `Client.cs` (`LoopsOnly`) against any hosts, with any
keys, values and batches of acknowledgments, from `ClientAssumption`: the numbers of clients are no wider than those of hosts, `ulong` and `u64` in the code:

* `SetupWaits`: if no client asks for a key twice (`NoKeyComesRound`: always so in `Setup`, and in the experiment up to as many requests
  as keys), then `ClientSpec => []WaitsForReply`. `ClientExperiment` refutes it without that.
* `SetupExecutesOnce`, `ExperimentExecutesOnce`: `ClientSpec => []OneEncodingExecuted`, under the same assumption, since a client waits for the
  requests before; or without it, if no value is too long, since the host executes all it accepts (`AcceptedAreExecuted`). With neither, the host may
  reject a set whose client goes on with the reply to an older request.

`ClientInv` adds to the invariants of `Sht`, which clients that number their requests in any way keep, what the loops contribute: all that a client sent encodes a request it has
made (`RequestsEncoded`), a reply is for a key of which a request was executed (`RepliesEarned`), and the requests of a client were executed in the order of
their numbers (`ExecutedInOrder`), by the one host that is asked and keeps its keys (`RootOwnsAll`). `LoopsOnly` is needed because
the sharding workload acknowledges to the server it asked last, which may not be the one that sent the message: what `DeliveryInv` says of acknowledgments is not
true of that client.

`IoFrameworkProofs` proves, for any processes, packets, sender threads, numbers of connections that break, and tries:

* `NeverTwice`: `Spec => []HeldOnce`; `FoundServe`: `Spec => []FoundSendersServe`; `Types`: `Spec => []TypeOK`.
* `ImplementsNetwork`: `Spec => NetworkSpec`: accepting a packet from a connection is `Receive` of `PacketNetwork`, sending is `Send`,
  what the threads do in between stutters.

The invariant is `IInv`. `HeldOnce` speaks of the places where a packet may be: in the hand of the
dispatch thread, in the queue or the hand of a sender thread, on a connection, in a receive queue. It is not inductive alone. A
thread has a task in its hand only once its connection has failed (`ThreadsKnown`), so that taking the next one loses none;
a thread that may be found has not begun to give back its tasks (`FoundSendersServe`), which needs that it is registered once
(`RegisteredOnce`), as giving up takes out one entry; a connection in use, or being accepted, has a thread that was started (`LinksMade`). `NetworkSpec` needs that what a thread
has in its queue, what is on a connection and what was received is for the process at the end of it
(`TasksAddressed`, `PacketsAddressed`), and that what is held was sent (`HeldWereSent`). One lemma for each
action says from which place to which a packet goes.

`WireProofs` proves, for any number of values of a byte (above 5, so that every tag is one), any widths of words and of ints of the client, any
limits, any messages and any number of changes to their bytes:

* `FromVecToVec`, `ToVecFromVec`: the table of the vector of a table is that table, and the other way round for a sorted vector. The repository
  states both as axioms (`hashmap_t.rs` 129-152).
* `NotAPrefix`: the encoding of a message that can be sent is no beginning of that of another, and the encoding of one
  message only, what the trait `Marshalable` demands of its instances (`marshal_v.rs` 66-85).
* `HostsUnderstandAlways`, `ParsesExactlyAlways`, `PartsAreRejectedAlways`, `ClientsUnderstandAlways`: `Spec => []P` for the four
  properties of the run. The invariant is `WireInv` (`Invariance`): what was meant is a message, what was sent is its encoding, and what arrives
  is no longer than the changes make it.

They rest on named assumptions. Hosts send messages with the fields of their types, and clients those of the four
requests they have (`MessagesAssumption`); what arrives has a length that an int holds, as it is handed over in a span
(`BufferAssumption`; `IronSHTServer/Program.cs` 222-225, and arrays in the client). Without the second, a host may take a message
for one that the parser of the client rejects, as its sums of lengths are cut to an int.

The argument goes from part to part of a message, and each part has two lemmas. One says that data in which the encoding of
a value stands at some place is read as that value there, up to where the encoding ends (`U64Reads`, `BytesReads`, `VecReads`, ..., `CSingleMessageReads`);
the other that, whatever is read anywhere, its encoding stands there (`U64Exact`, ..., `CSingleMessageExact`). Together they say what
a host makes of a buffer (`Demarshalled`, `Understood`). The bytes of a number are unique (`SerializeFromLeBytes`, `FromLeBytesSerialize`), and a
part of an encoding is not read, since reading it would make it end twice (`PartRejected`). The client is compared with
the same encodings: its encoders write what `Serialize` writes (`EncodeIs`), and its conversions to int change nothing
in a message that a host accepts (`Ints`, `ClientReadsKey`, `ClientSkipsAddress`). Induction over the bytes of a number and the elements of a vector goes
by the least counterexample (`LeastElement`), and that a function defined by recursion over such a range exists is proved from it (`Recursion`): the
operators of `Marshalling` are recursive functions, and its parts are parsed by comprehension.

Only model-checked:

* Liveness: it rests on fairness, which the prover does not handle.
* What `HostsKeepRunning`, `NothingStranded` and `RedirectExpected` say is not true, and `WaitsForReply` only under the assumption above.

## Disagreement with the code

`CKeyHashMap` is trusted: its contracts are assumed by every proof of the
repository. The bodies of `remove`, `bulk_update`, `bulk_remove` and `valid` are
`panic!()`, and `filter` never ends on a table with an entry, because it reads
its iterator once, before the loop. Run `ShtStubs` shows the consequence: a host
halts on the first `Delegate` with a range, on the first `Shard` of keys it owns, and on the
first removal of a key.

A sender thread that fails gives back what is in its queue, "for sending by another sender
thread" (`IoFramework.cs` 691-692). Run `IoStranded` shows a packet that is not given back: the
dispatch thread had found the sender thread before it unregistered, and put the packet into its queue after it
had found the queue empty. For the hosts this is one more lost packet.

The experiment of the client waits "for the reply" (`Client.cs` 633). Run `ClientExperiment` shows it go on with a reply to
an earlier request for the same key, which the host sent again because the client
acknowledges only in batches. Nothing is executed twice, but the request that was given up may never be executed, and the host
then accepts none of the later ones until it is.

`ParseMessageFromBytes` "returns null if bytes can't be parsed" (`Client.cs` 102), but does not look whether the key of a reply or a redirect was
there (151, 155): one that ends early has key 0. `KeyAt` models this. Hosts never send such a message.

The sharding workload says "Sending a GetRequest after a Shard, expect a redirect" (`Client.cs` 592), but its `Shard` request
names the recipient by its public key (586), where hosts are named by the hash of their key. Run `ClientSharding` shows the
first host reject the request and answer the get, after which the workload waits for ever, as a reply is not what it waits for. The wait for the acknowledgment of
the `Shard` is no help: it ends with a repeated reply to the first get as well (545-547).

## Not modelled

Command line, certificates, the entry point and the server process
have no state that changes between steps of a host. The profiler, the tests of the I/O framework and the
library of lemmas are no part of the running system.

A host that is started again is not modelled: "We haven't implemented crash recovery, so if you restart a server its state will
be empty" (`src/README.md` 111). A new process with the old name would number its packets from 1 again, and the other
hosts would take them for duplicates. A host that stops for good, at any time, is in every model.

The memory that `Vec::with_capacity` takes for an announced length, and the time that anything takes, are left out.

## Plan

1. done: `SingleDelivery`, `Delivery`, `FifoChannel`, `HostLoop`, `Sht`, `KvService`, `DeliveryProofs`.
2. done: `KeyRanges`, `DelegationMap`, `OwnerMap`, `DelegationMapProofs`.
3. done: `Client`, `IoFramework`, `PacketNetwork`, `Marshalling`, `Wire`.
4. done: `HostProtocol`; failures of sends and receives in `HostLoop`; the sharding workload in `Client`.
5. done: `ShtProofs`, `RefinementProofs`, and the loop in `DeliveryProofs`.
6. done: `IoFrameworkProofs`, with the register and the places of packets stated by positions; `RedirectsLead` and
   `RepliesMatch`; `ClientProofs`.
7. done: `WireProofs`: everything that the runs find true, but for liveness, is now proved for all values of the constants.
8. open: the sharding workload in `ClientProofs`, with acknowledgments that may name what their destination has not sent.
