------------------------------- MODULE MCWire -------------------------------
(***************************************************************************)
(* Wire for TLC.                                                           *)
(***************************************************************************)
EXTENDS Wire

Keys == {0, 2}                  \* one changed byte makes them equal
Seqno == 2 * Base + 3           \* two bytes
Value == {<<>>, <<1>>}
Address == {<<2>>, <<0, 1>>}    \* the second one is too long
Iter == {<<>>} \cup {<<k>> : k \in Keys}
Ranges == {KeyRange(lo, hi) : lo, hi \in Iter}
Tables == UNION {[S -> Value] : S \in SUBSET Keys}

Messages(M) == {Message(Seqno, dst, m) : dst \in Address, m \in M}

MCHostMessages ==
    {Ack(Seqno)}
    \cup Messages({Reply(k, v) : k \in Keys, v \in {<<>>} \cup {<<b>> : b \in Value}})
    \cup Messages({Redirect(k, id) : k \in Keys, id \in Address})
    \cup Messages({Delegate(r, h) : r \in {KeyRange(<<0>>, <<>>), KeyRange(<<0>>, <<2>>)}, h \in Tables})

MCClientMessages ==
    {Ack(Seqno)}
    \cup Messages({GetRequest(k) : k \in Keys})
    \cup Messages({SetRequest(k, <<b>>) : k \in Keys, b \in Value})
    \cup Messages({Shard(KeyRange(<<lo>>, <<hi>>), id) : lo, hi \in Keys, id \in Address})
=============================================================================
