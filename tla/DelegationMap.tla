--------------------------- MODULE DelegationMap ---------------------------
(***************************************************************************)
(* A delegation map as it is stored (delegation_map_v.rs): the first keys  *)
(* of the ranges with an owner of their own, in a sorted vector, and the   *)
(* owners in a second vector. A range ends where the next one starts.      *)
(*                                                                         *)
(* Definitions with a bug, used by no action, stand beside the correct     *)
(* ones: the properties are shown to tell the two apart.                   *)
(***************************************************************************)
EXTENDS KeyRanges, SequencesExt

CONSTANTS
    ID,         \* the hosts
    Root        \* the first owner of every key

ASSUME RootAssumption == Root \in ID

VARIABLE lows   \* lows.keys: StrictlyOrderedVec, lows.vals: the owners

(***************************************************************************)
(* Scans of the sorted keys.                                               *)
(***************************************************************************)
\* How many keys there are before the first one that is at iter or above.
CountBelow(keys, iter) ==
    CHOOSE n \in 0 .. Len(keys) :
        /\ \A i \in 1 .. n : keys[i] < iter
        /\ n < Len(keys) => keys[n + 1] >= iter

\* The index of the last key that is not above iter; the scan starts at the
\* second key, the first is never above anything.
GreatestLowerBoundIndex(keys, iter) ==
    CHOOSE n \in 1 .. Len(keys) :
        /\ \A i \in 2 .. n : keys[i] <= iter
        /\ n < Len(keys) => iter < keys[n + 1]

FindKey(keys, k) ==
    CHOOSE n \in 1 .. Len(keys) : keys[n] = k /\ \A i \in 1 .. n - 1 : keys[i] # k

(***************************************************************************)
(* StrictlyOrderedMap.                                                     *)
(***************************************************************************)
\* Bug: a key that is there already is inserted again.
InsertsAlways(map, k, v) ==
    LET n == CountBelow(map.keys, k)
    IN  [keys |-> InsertAt(map.keys, n + 1, k),
         vals |-> InsertAt(map.vals, n + 1, v)]

SetLow(map, k, v) ==
    IF \E i \in 1 .. Len(map.keys) : map.keys[i] = k
    THEN [map EXCEPT !.vals[FindKey(map.keys, k)] = v]
    ELSE LET n == CountBelow(map.keys, k)
         IN  [keys |-> InsertAt(map.keys, n + 1, k),
              vals |-> InsertAt(map.vals, n + 1, v)]

\* vec_erase and StrictlyOrderedVec::erase: the elements after the first
\* start, up to the one at end, are removed.
VecErase(v, start, end) == SubSeq(v, 1, start) \o SubSeq(v, end + 1, Len(v))

EraseRange(map, lo, hi) ==
    LET start == CountBelow(map.keys, lo)
        end == CountBelow(map.keys, hi)
    IN  [keys |-> VecErase(map.keys, start, end), vals |-> VecErase(map.vals, start, end)]

(***************************************************************************)
(* DelegationMap.                                                          *)
(***************************************************************************)
Get(map, k) == map.vals[FindKey(map.keys, map.keys[GreatestLowerBoundIndex(map.keys, k)])]

\* Bug: the keys from hi on lose their owner when the start of their range
\* is erased.
SetForgetsHi(map, lo, hi, dst) ==
    IF lo < hi THEN SetLow(EraseRange(map, lo, hi), lo, dst) ELSE map

Set(map, lo, hi, dst) ==
    IF lo < hi
    THEN LET fixed == IF hi = Keys THEN map ELSE SetLow(map, hi, Get(map, hi))
         IN  SetLow(EraseRange(fixed, lo, hi), lo, dst)
    ELSE map

\* Bug: the range that starts at hi counts too.
RangeConsistentWithHi(map, lo, hi, dst) ==
    lo < hi =>
        \A i \in GreatestLowerBoundIndex(map.keys, lo) .. GreatestLowerBoundIndex(map.keys, hi) :
            map.vals[i] = dst

\* values_agree looks at the owners of every range between those of lo and
\* hi; the last one may differ if it starts at hi.
RangeConsistent(map, lo, hi, dst) ==
    lo < hi =>
        LET first == GreatestLowerBoundIndex(map.keys, lo)
            last == GreatestLowerBoundIndex(map.keys, hi)
            agree == \A i \in first .. last : map.vals[i] = dst
            almost == /\ map.vals[last] # dst
                      /\ \A i \in first .. last - 1 : map.vals[i] = dst
        IN  agree \/ (almost /\ hi # Keys /\ map.keys[last] = hi)

Init == lows = [keys |-> <<0>>, vals |-> <<Root>>]

SetRangeOwner(lo, hi, dst) == lows' = Set(lows, lo, hi, dst)

Next == \E lo, hi \in KeyIterator, dst \in ID : SetRangeOwner(lo, hi, dst)

Spec == Init /\ [][Next]_lows
-----------------------------------------------------------------------------
Ordered(map) ==
    /\ map \in [keys : Seq(Key), vals : Seq(ID)]
    /\ Len(map.vals) = Len(map.keys)
    /\ \A i, j \in 1 .. Len(map.keys) : i < j => map.keys[i] < map.keys[j]

\* The starts of the ranges stay sorted, without duplicates and in step with
\* their owners, and the first range starts at the first key, so that every
\* key is in a range (DelegationMap::valid).
Valid ==
    /\ Ordered(lows)
    /\ Len(lows.keys) > 0 /\ lows.keys[1] = 0

OwnerOf == [k \in Key |-> Get(lows, k)]
Owners == INSTANCE OwnerMap WITH m <- OwnerOf

\* Whatever ranges are set, overlapping, nested, adjacent or empty, get
\* returns for every key the host its range was last given to: setting a range
\* changes the owners of its keys and of no other (DelegationMap::set, get).
ImplementsOwnerMap ==
    /\ Owners!Init
    /\ [][\A lo, hi \in KeyIterator, dst \in ID :
             SetRangeOwner(lo, hi, dst) => Owners!Update(lo, hi, dst)]_lows

\* The answer to whether a host owns a whole range is the one that looking up
\* every key of it would give (range_consistent_impl). A Shard request is
\* granted on the strength of it.
RangeQueryIsExact ==
    \A lo, hi \in KeyIterator, dst \in ID :
        RangeConsistent(lows, lo, hi, dst)
            <=> DelegateForRangeIs(OwnerOf, lo, hi, dst)
=============================================================================
