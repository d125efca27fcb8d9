------------------------------- MODULE MCSht -------------------------------
(***************************************************************************)
(* Sht for TLC: the messages clients send, for each of the runs.           *)
(***************************************************************************)
EXTENDS Sht, TLC

CONSTANTS h1, h2, h3, c1, c2

Gets == {GetRequest(k) : k \in Key}
Sets(values) == {SetRequest(k, v) : k \in Key, v \in values}
Ranges == {r \in KeyIterator \X KeyIterator : r[1] < r[2]}
Shards(ranges) == {Shard(r[1], r[2], h) : r \in ranges, h \in Host}

\* Gets, sets and delegations to the other hosts.
GetSetOrShard ==
    [h \in Host |-> Gets \cup Sets(Value) \cup {s \in Shards(Ranges) : s.recipient # h}]

\* Delegations, the removal of a key, which may halt a host, and an answer
\* that the root did not ask for.
ShardOrRemove ==
    [h \in Host |->
        Shards(Ranges) \cup Sets({NoValue}) \cup {m \in {Redirect(0, Root)} : h = Root}]

\* Requests that run into the limits: values and tables that are too large,
\* ranges that are empty or partly owned, recipients that are not hosts.
ToTheLimits ==
    [h \in Host |->
        IF h = h1
        THEN Gets \cup Sets({"v"})
             \cup {SetRequest(0, "big"), Shard(0, 2, h2), Shard(0, 1, h2), Shard(1, 1, h2),
                   Shard(0, 2, c1)}
        ELSE {SetRequest(0, NoValue), Shard(0, 1, h1), Shard(0, 2, h1)}]

\* Clients are alike, and so are the hosts other than the root.
Alike == Permutations({c1, c2}) \cup Permutations({h2, h3})
=============================================================================
