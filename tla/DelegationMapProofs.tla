------------------------ MODULE DelegationMapProofs ------------------------
(***************************************************************************)
(* Proofs about DelegationMap, for every number of keys and set of hosts:  *)
(* the vectors stay sorted and in step, a map answers like a total         *)
(* function from keys to owners, and the range query is exact.             *)
(*                                                                         *)
(* The argument is about the set of pairs a map holds (Holds), not about   *)
(* positions: the lemmas on the scans and on insertion and erasure say     *)
(* what an operation does to that set, and the rest follows from the order *)
(* of the keys.                                                            *)
(***************************************************************************)
EXTENDS DelegationMap, WellFoundedInduction, SequenceTheorems, TLAPS

Sorted(keys) ==
    /\ keys \in Seq(Key)
    /\ \A i, j \in 1 .. Len(keys) : i < j => keys[i] < keys[j]

Complete(map) == Ordered(map) /\ Len(map.keys) > 0 /\ map.keys[1] = 0

\* A range of map starts at k, and its owner is v.
Holds(map, k, v) == \E i \in 1 .. Len(map.keys) : map.keys[i] = k /\ map.vals[i] = v

\* j is the start of the range of map that k is in.
Governs(map, j, k) ==
    /\ j <= k
    /\ \A j2 \in Key, w \in ID : Holds(map, j2, w) /\ j2 <= k => j2 <= j

-----------------------------------------------------------------------------
(***************************************************************************)
(* The scans.                                                              *)
(***************************************************************************)
\* A set of numbers that is not empty has a least one: a scan has somewhere to stop.
LEMMA LeastElement ==
    ASSUME NEW T, T \subseteq Nat, T # {}
    PROVE  \E x \in T : \A y \in T : x <= y
<1>1. \E x \in T : \A y \in T : ~ (<<y, x>> \in OpToRel(<, Nat))
  BY WFMin, NatLessThanWellFounded, Zenon
<1>2. PICK x \in T : \A y \in T : ~ (<<y, x>> \in OpToRel(<, Nat))
  BY <1>1
<1>3. ASSUME NEW y \in T PROVE x <= y
  <2>1. y < x => <<y, x>> \in OpToRel(<, Nat)
    BY DEF OpToRel
  <2>2. ~(y < x)
    BY <1>2, <2>1
  <2> QED BY <2>2
<1> QED BY <1>3

\* The scan for the place of a key splits the keys into those below it and the
\* others (StrictlyOrderedVec::insert, StrictlyOrderedMap::erase).
LEMMA CountBelowIs ==
    ASSUME NEW keys, Sorted(keys), NEW iter \in KeyIterator
    PROVE  /\ CountBelow(keys, iter) \in 0 .. Len(keys)
           /\ \A i \in 1 .. CountBelow(keys, iter) : keys[i] < iter
           /\ \A i \in CountBelow(keys, iter) + 1 .. Len(keys) : keys[i] >= iter
<1> DEFINE T == {n \in 0 .. Len(keys) : n < Len(keys) => keys[n + 1] >= iter}
<1>1. Len(keys) \in Nat /\ \A i \in 1 .. Len(keys) : keys[i] \in Int
  BY KeysAssumption DEF Sorted, Key
<1>2. iter \in Int
  BY KeysAssumption DEF KeyIterator
<1>3. PICK n \in T : \A m \in T : n <= m
  <2>1. Len(keys) \in T
    BY <1>1
  <2>2. T \subseteq Nat
    BY <1>1
  <2> QED BY <2>1, <2>2, LeastElement
<1>4. \A i \in 1 .. n : keys[i] < iter
  <2>1. SUFFICES ASSUME NEW i \in 1 .. n, ~(keys[i] < iter) PROVE FALSE
    OBVIOUS
  <2>2. i - 1 \in T
    BY <1>1, <1>2, <2>1
  <2>3. n <= i - 1
    BY <1>3, <2>2
  <2> QED BY <2>3, <1>1
<1>5. \E m \in 0 .. Len(keys) :
          /\ \A i \in 1 .. m : keys[i] < iter
          /\ m < Len(keys) => keys[m + 1] >= iter
  BY <1>3, <1>4
<1> DEFINE c == CountBelow(keys, iter)
<1>6. /\ c \in 0 .. Len(keys)
      /\ \A i \in 1 .. c : keys[i] < iter
      /\ c < Len(keys) => keys[c + 1] >= iter
  BY <1>5 DEF CountBelow
<1>7. ASSUME NEW i \in c + 1 .. Len(keys)
      PROVE  keys[i] >= iter
  <2>1. c + 1 \in 1 .. Len(keys) /\ i \in 1 .. Len(keys) /\ keys[c + 1] >= iter
    BY <1>1, <1>6
  <2>2. i = c + 1 \/ keys[c + 1] < keys[i]
    BY <2>1, <1>1, <1>6 DEF Sorted
  <2> QED BY <2>1, <2>2, <1>1, <1>2
<1> QED BY <1>6, <1>7

\* The scan of greatest_lower_bound_index stops at the last key that is not
\* above iter.
LEMMA GreatestLowerBoundIndexIs ==
    ASSUME NEW keys, Sorted(keys), Len(keys) > 0, keys[1] = 0, NEW iter \in KeyIterator
    PROVE  /\ GreatestLowerBoundIndex(keys, iter) \in 1 .. Len(keys)
           /\ \A i \in 1 .. GreatestLowerBoundIndex(keys, iter) : keys[i] <= iter
           /\ \A i \in GreatestLowerBoundIndex(keys, iter) + 1 .. Len(keys) : iter < keys[i]
<1> DEFINE T == {n \in 1 .. Len(keys) : n < Len(keys) => iter < keys[n + 1]}
<1>1. Len(keys) \in Nat /\ \A i \in 1 .. Len(keys) : keys[i] \in Int
  BY KeysAssumption DEF Sorted, Key
<1>2. iter \in Int /\ 0 <= iter
  BY KeysAssumption DEF KeyIterator
<1>3. PICK n \in T : \A m \in T : n <= m
  <2>1. Len(keys) \in T
    BY <1>1
  <2>2. T \subseteq Nat
    BY <1>1
  <2> QED BY <2>1, <2>2, LeastElement
<1>4. \A i \in 2 .. n : keys[i] <= iter
  <2>1. SUFFICES ASSUME NEW i \in 2 .. n, ~(keys[i] <= iter) PROVE FALSE
    OBVIOUS
  <2>2. i - 1 \in T
    BY <1>1, <1>2, <2>1
  <2>3. n <= i - 1
    BY <1>3, <2>2
  <2> QED BY <2>3, <1>1
<1>5. \E m \in 1 .. Len(keys) :
          /\ \A i \in 2 .. m : keys[i] <= iter
          /\ m < Len(keys) => iter < keys[m + 1]
  BY <1>3, <1>4
<1> DEFINE c == GreatestLowerBoundIndex(keys, iter)
<1>6. /\ c \in 1 .. Len(keys)
      /\ \A i \in 2 .. c : keys[i] <= iter
      /\ c < Len(keys) => iter < keys[c + 1]
  BY <1>5 DEF GreatestLowerBoundIndex
<1>7. \A i \in 1 .. c : keys[i] <= iter
  BY <1>1, <1>2, <1>6
<1>8. ASSUME NEW i \in c + 1 .. Len(keys)
      PROVE  iter < keys[i]
  <2>1. c + 1 \in 1 .. Len(keys) /\ i \in 1 .. Len(keys) /\ iter < keys[c + 1]
    BY <1>1, <1>6
  <2>2. i = c + 1 \/ keys[c + 1] < keys[i]
    BY <2>1, <1>1, <1>6 DEF Sorted
  <2> QED BY <2>1, <2>2, <1>1, <1>2
<1> QED BY <1>6, <1>7, <1>8

\* In a sorted vector there is one place to find a key at.
LEMMA FindKeyIs ==
    ASSUME NEW keys, Sorted(keys), NEW i \in 1 .. Len(keys)
    PROVE  FindKey(keys, keys[i]) = i
<1>1. Len(keys) \in Nat /\ \A j \in 1 .. Len(keys) : keys[j] \in Int
  BY KeysAssumption DEF Sorted, Key
<1>2. \A j \in 1 .. Len(keys) : keys[j] = keys[i] => j = i
  BY <1>1 DEF Sorted
<1>3. \A j \in 1 .. i - 1 : keys[j] # keys[i]
  BY <1>1, <1>2
<1> QED BY <1>1, <1>2, <1>3 DEF FindKey

-----------------------------------------------------------------------------
(***************************************************************************)
(* The vectors.                                                            *)
(***************************************************************************)
\* t is s with e after its first n elements.
InsertsAfter(t, s, n, e) ==
    /\ Len(t) = Len(s) + 1
    /\ \A i \in 1 .. n : t[i] = s[i]
    /\ t[n + 1] = e
    /\ \A i \in n + 1 .. Len(s) : t[i + 1] = s[i]

\* t is s without the elements after the first start, up to the one at end.
ErasesBetween(t, s, start, end) ==
    /\ Len(t) = Len(s) - (end - start)
    /\ \A i \in 1 .. start : t[i] = s[i]
    /\ \A i \in end + 1 .. Len(s) : t[i - (end - start)] = s[i]

\* What is at each place of a vector after an insertion.
LEMMA InsertAtIs ==
    ASSUME NEW S, NEW s \in Seq(S), NEW n \in 0 .. Len(s), NEW e \in S
    PROVE  /\ InsertAt(s, n + 1, e) \in Seq(S)
           /\ InsertsAfter(InsertAt(s, n + 1, e), s, n, e)
<1> DEFINE front == SubSeq(s, 1, n)
           back == SubSeq(s, n + 1, Len(s))
<1>1. InsertAt(s, n + 1, e) = (front \o <<e>>) \o back
  <2>1. (n + 1) - 1 = n
    OBVIOUS
  <2> QED BY <2>1, Zenon DEF InsertAt
<1>2. front \in Seq(S) /\ Len(front) = n /\ \A i \in 1 .. n : front[i] = s[i]
  OBVIOUS
<1>3. /\ back \in Seq(S)
      /\ Len(back) = Len(s) - n
      /\ \A i \in 1 .. Len(s) - n : back[i] = s[n + i]
  OBVIOUS
<1> HIDE DEF front, back
<1> DEFINE head == front \o <<e>>
<1>4. /\ head \in Seq(S)
      /\ Len(head) = n + 1
      /\ \A i \in 1 .. n : head[i] = s[i]
      /\ head[n + 1] = e
  BY <1>2
<1> HIDE DEF head
<1>5. head \o back \in Seq(S) /\ Len(head \o back) = Len(s) + 1
  BY <1>3, <1>4
<1>6. \A i \in 1 .. n + 1 : (head \o back)[i] = head[i]
  BY <1>3, <1>4
<1>7. \A i \in 1 .. Len(s) - n : (head \o back)[n + 1 + i] = back[i]
  BY <1>3, <1>4
<1>8. ASSUME NEW i \in n + 1 .. Len(s)
      PROVE  (head \o back)[i + 1] = s[i]
  <2>1. i - n \in 1 .. Len(s) - n
    OBVIOUS
  <2>2. (head \o back)[n + 1 + (i - n)] = s[n + (i - n)]
    BY <1>3, <1>7, <2>1
  <2>3. n + 1 + (i - n) = i + 1 /\ n + (i - n) = i
    OBVIOUS
  <2> QED BY <2>2, <2>3
<1>9. \A i \in 1 .. n : (head \o back)[i] = s[i]
  BY <1>4, <1>6
<1>10. (head \o back)[n + 1] = e
  BY <1>4, <1>6
<1>11. InsertAt(s, n + 1, e) = head \o back
  BY <1>1 DEF head
<1> QED BY <1>5, <1>8, <1>9, <1>10, <1>11 DEF InsertsAfter

\* What is at each place of a vector after an erasure (vec_erase).
LEMMA VecEraseIs ==
    ASSUME NEW S, NEW s \in Seq(S), NEW end \in 0 .. Len(s), NEW start \in 0 .. end
    PROVE  /\ VecErase(s, start, end) \in Seq(S)
           /\ ErasesBetween(VecErase(s, start, end), s, start, end)
<1> DEFINE front == SubSeq(s, 1, start)
           back == SubSeq(s, end + 1, Len(s))
<1>1. VecErase(s, start, end) = front \o back
  BY DEF VecErase
<1>2. front \in Seq(S) /\ Len(front) = start /\ \A i \in 1 .. start : front[i] = s[i]
  OBVIOUS
<1>3. /\ back \in Seq(S)
      /\ Len(back) = Len(s) - end
      /\ \A i \in 1 .. Len(s) - end : back[i] = s[end + i]
  OBVIOUS
<1> HIDE DEF front, back
<1>4. front \o back \in Seq(S) /\ Len(front \o back) = Len(s) - (end - start)
  <2>1. front \o back \in Seq(S) /\ Len(front \o back) = Len(front) + Len(back)
    BY <1>2, <1>3, ConcatProperties
  <2> QED BY <1>2, <1>3, <2>1
<1>5. \A i \in 1 .. start : (front \o back)[i] = s[i]
  BY <1>2, <1>3
<1>6. \A i \in 1 .. Len(s) - end : (front \o back)[start + i] = back[i]
  BY <1>2, <1>3
<1>7. ASSUME NEW i \in end + 1 .. Len(s)
      PROVE  (front \o back)[i - (end - start)] = s[i]
  <2>1. i - end \in 1 .. Len(s) - end
    OBVIOUS
  <2>2. (front \o back)[start + (i - end)] = s[end + (i - end)]
    BY <1>3, <1>6, <2>1
  <2>3. start + (i - end) = i - (end - start) /\ end + (i - end) = i
    OBVIOUS
  <2> QED BY <2>2, <2>3
<1> QED BY <1>1, <1>4, <1>5, <1>7 DEF ErasesBetween

-----------------------------------------------------------------------------
(***************************************************************************)
(* What the operations do to the ranges a map holds.                       *)
(***************************************************************************)
\* The types of the elements of an ordered map.
LEMMA OrderedFacts ==
    ASSUME NEW map, Ordered(map)
    PROVE  /\ Sorted(map.keys)
           /\ map = [keys |-> map.keys, vals |-> map.vals]
           /\ Len(map.keys) \in Nat
           /\ map.vals \in Seq(ID)
           /\ Len(map.vals) = Len(map.keys)
           /\ \A i \in 1 .. Len(map.keys) : map.keys[i] \in Key /\ map.vals[i] \in ID
BY DEF Ordered, Sorted

\* Keys are iterators, iterators are integers.
LEMMA KeysAreIntegers == Key \subseteq KeyIterator /\ KeyIterator \subseteq Int /\ 0 \in Key
BY KeysAssumption DEF Key, KeyIterator

\* A key that is there gets a new owner.
LEMMA SetPresentLow ==
    ASSUME NEW map, Ordered(map), NEW i \in 1 .. Len(map.keys), NEW v \in ID
    PROVE  /\ Ordered(SetLow(map, map.keys[i], v))
           /\ \A j \in Key, w \in ID :
                 Holds(SetLow(map, map.keys[i], v), j, w)
                    <=> IF j = map.keys[i] THEN w = v ELSE Holds(map, j, w)
<1> DEFINE new == SetLow(map, map.keys[i], v)
<1>1. FindKey(map.keys, map.keys[i]) = i
  BY OrderedFacts, FindKeyIs
<1>2. new = [keys |-> map.keys, vals |-> [map.vals EXCEPT ![i] = v]]
  BY <1>1, OrderedFacts DEF SetLow
<1>3. Ordered(new)
  BY <1>2 DEF Ordered
<1>4. ASSUME NEW j \in Key, NEW w \in ID
      PROVE  Holds(new, j, w) <=> IF j = map.keys[i] THEN w = v ELSE Holds(map, j, w)
  <2>1. \A n \in 1 .. Len(map.keys) : new.vals[n] = IF n = i THEN v ELSE map.vals[n]
    BY <1>2, OrderedFacts
  <2>2. \A n \in 1 .. Len(map.keys) : map.keys[n] = map.keys[i] => n = i
    BY OrderedFacts, KeysAreIntegers DEF Sorted
  <2> QED BY <1>2, <2>1, <2>2 DEF Holds
<1> QED BY <1>3, <1>4

\* A key that is not there is inserted where it belongs.
LEMMA SetAbsentLow ==
    ASSUME NEW map, Ordered(map), NEW k \in Key, NEW v \in ID,
           \A i \in 1 .. Len(map.keys) : map.keys[i] # k
    PROVE  /\ Ordered(SetLow(map, k, v))
           /\ \A j \in Key, w \in ID :
                 Holds(SetLow(map, k, v), j, w) <=> IF j = k THEN w = v ELSE Holds(map, j, w)
<1> DEFINE n == CountBelow(map.keys, k)
           keys == InsertAt(map.keys, n + 1, k)
           vals == InsertAt(map.vals, n + 1, v)
           len == Len(map.keys)
<1>1. SetLow(map, k, v) = [keys |-> keys, vals |-> vals]
  BY DEF SetLow
<1>2. /\ n \in 0 .. len
      /\ \A i \in 1 .. n : map.keys[i] < k
      /\ \A i \in n + 1 .. len : map.keys[i] > k
  <2>1. /\ n \in 0 .. len
        /\ \A i \in 1 .. n : map.keys[i] < k
        /\ \A i \in n + 1 .. len : map.keys[i] >= k
    BY OrderedFacts, KeysAreIntegers, CountBelowIs
  <2> QED BY <2>1, OrderedFacts, KeysAreIntegers
<1> HIDE DEF n
<1>3. /\ keys \in Seq(Key)
      /\ Len(keys) = len + 1
      /\ \A i \in 1 .. n : keys[i] = map.keys[i]
      /\ keys[n + 1] = k
      /\ \A i \in n + 1 .. len : keys[i + 1] = map.keys[i]
  <2>1. map.keys \in Seq(Key) /\ len = Len(map.keys)
    BY OrderedFacts DEF Sorted
  <2>2. n \in 0 .. Len(map.keys)
    BY <1>2, <2>1
  <2>3. keys \in Seq(Key) /\ InsertsAfter(keys, map.keys, n, k)
    BY <2>1, <2>2, InsertAtIs, Zenon
  <2> QED BY <2>1, <2>3 DEF InsertsAfter
<1>4. /\ vals \in Seq(ID)
      /\ Len(vals) = len + 1
      /\ \A i \in 1 .. n : vals[i] = map.vals[i]
      /\ vals[n + 1] = v
      /\ \A i \in n + 1 .. len : vals[i + 1] = map.vals[i]
  <2>1. map.vals \in Seq(ID) /\ len = Len(map.vals)
    BY OrderedFacts
  <2>2. n \in 0 .. Len(map.vals)
    BY <1>2, <2>1
  <2>3. vals \in Seq(ID) /\ InsertsAfter(vals, map.vals, n, v)
    BY <2>1, <2>2, InsertAtIs, Zenon
  <2> QED BY <2>1, <2>3 DEF InsertsAfter
<1> HIDE DEF keys, vals
<1>5. \A i \in 1 .. len + 1 : i \in 1 .. n \/ i = n + 1 \/ i - 1 \in n + 1 .. len
  BY <1>2, OrderedFacts
<1>6. \A i \in n + 2 .. len + 1 : i - 1 \in n + 1 .. len /\ keys[i] = map.keys[i - 1]
  <2>1. SUFFICES ASSUME NEW i \in n + 2 .. len + 1
                 PROVE  i - 1 \in n + 1 .. len /\ keys[i] = map.keys[i - 1]
    OBVIOUS
  <2>2. i - 1 \in n + 1 .. len /\ (i - 1) + 1 = i
    BY <1>2, OrderedFacts
  <2> QED BY <1>3, <2>2
<1>7. \A i, j \in 1 .. len + 1 : i < j => keys[i] < keys[j]
  <2>1. SUFFICES ASSUME NEW i \in 1 .. len + 1, NEW j \in 1 .. len + 1, i < j
                 PROVE  keys[i] < keys[j]
    OBVIOUS
  <2>2. \A a, b \in 1 .. len : a < b => map.keys[a] < map.keys[b]
    BY OrderedFacts DEF Sorted
  <2>3. \A a \in 1 .. len : map.keys[a] \in Int
    BY OrderedFacts, KeysAreIntegers
  <2>4. k \in Int /\ n \in Int /\ len \in Nat
    BY <1>2, OrderedFacts, KeysAreIntegers
  <2>5. CASE j <= n
    <3>1. i \in 1 .. n /\ j \in 1 .. n /\ i \in 1 .. len /\ j \in 1 .. len
      BY <1>2, <2>1, <2>4, <2>5
    <3> QED BY <1>3, <2>1, <2>2, <3>1
  <2>6. CASE j = n + 1
    BY <1>2, <1>3, <2>1, <2>4, <2>6
  <2>7. CASE j >= n + 2
    <3>1. j - 1 \in n + 1 .. len /\ keys[j] = map.keys[j - 1]
      BY <1>6, <2>4, <2>7
    <3>2. CASE i <= n
      BY <1>2, <1>3, <2>2, <2>4, <3>1, <3>2
    <3>3. CASE i = n + 1
      BY <1>2, <1>3, <3>1, <3>3
    <3>4. CASE i >= n + 2
      <4>1. i - 1 \in n + 1 .. len /\ keys[i] = map.keys[i - 1] /\ i - 1 < j - 1
        BY <1>6, <2>1, <2>4, <3>4
      <4> QED BY <1>2, <2>2, <2>4, <3>1, <4>1
    <3> QED BY <2>4, <3>2, <3>3, <3>4
  <2> QED BY <2>4, <2>5, <2>6, <2>7
<1>8. Ordered(SetLow(map, k, v))
  BY <1>1, <1>3, <1>4, <1>7 DEF Ordered
<1>9. ASSUME NEW j \in Key, NEW w \in ID
      PROVE  Holds(SetLow(map, k, v), j, w) <=> IF j = k THEN w = v ELSE Holds(map, j, w)
  <2>1. Holds(SetLow(map, k, v), j, w)
           <=> \E i \in 1 .. len + 1 : keys[i] = j /\ vals[i] = w
    BY <1>1, <1>3 DEF Holds
  <2>2. \A i \in n + 2 .. len + 1 : vals[i] = map.vals[i - 1]
    <3>1. SUFFICES ASSUME NEW i \in n + 2 .. len + 1
                   PROVE  vals[i] = map.vals[i - 1]
      OBVIOUS
    <3>2. i - 1 \in n + 1 .. len /\ (i - 1) + 1 = i
      BY <1>2, OrderedFacts
    <3> QED BY <1>4, <3>2
  <2>3. ASSUME NEW i \in 1 .. len + 1, keys[i] = j, vals[i] = w
        PROVE  IF j = k THEN w = v ELSE Holds(map, j, w)
    <3>1. CASE i \in 1 .. n
      BY <1>2, <1>3, <1>4, <2>3, <3>1, OrderedFacts DEF Holds
    <3>2. CASE i = n + 1
      BY <1>3, <1>4, <2>3, <3>2
    <3>3. CASE i \in n + 2 .. len + 1
      <4>1. i - 1 \in 1 .. len /\ map.keys[i - 1] = j /\ map.vals[i - 1] = w
        BY <1>2, <1>6, <2>2, <2>3, <3>3, OrderedFacts
      <4> QED BY <4>1 DEF Holds
    <3> QED BY <1>2, <3>1, <3>2, <3>3, OrderedFacts
  <2>4. ASSUME j # k, NEW i \in 1 .. len, map.keys[i] = j, map.vals[i] = w
        PROVE  \E a \in 1 .. len + 1 : keys[a] = j /\ vals[a] = w
    <3>1. CASE i \in 1 .. n
      BY <1>2, <1>3, <1>4, <2>4, <3>1, OrderedFacts
    <3>2. CASE i \in n + 1 .. len
      <4>1. i + 1 \in 1 .. len + 1 /\ keys[i + 1] = j /\ vals[i + 1] = w
        BY <1>2, <1>3, <1>4, <2>4, <3>2, OrderedFacts
      <4> QED BY <4>1
    <3> QED BY <1>2, <3>1, <3>2, OrderedFacts
  <2>5. n + 1 \in 1 .. len + 1 /\ keys[n + 1] = k /\ vals[n + 1] = v
    BY <1>2, <1>3, <1>4, OrderedFacts
  <2>6. CASE j = k
    BY <2>1, <2>3, <2>5, <2>6
  <2>7. CASE j # k
    BY <2>1, <2>3, <2>4, <2>7 DEF Holds
  <2> QED BY <2>6, <2>7
<1> QED BY <1>8, <1>9

\* Whether its key was there or not, StrictlyOrderedMap::set adds one pair to
\* the pairs the map holds and removes the one with the same key.
LEMMA SetLowIs ==
    ASSUME NEW map, Ordered(map), NEW k \in Key, NEW v \in ID
    PROVE  /\ Ordered(SetLow(map, k, v))
           /\ \A j \in Key, w \in ID :
                 Holds(SetLow(map, k, v), j, w) <=> IF j = k THEN w = v ELSE Holds(map, j, w)
<1>1. CASE \E i \in 1 .. Len(map.keys) : map.keys[i] = k
  BY <1>1, SetPresentLow
<1>2. CASE \A i \in 1 .. Len(map.keys) : map.keys[i] # k
  BY <1>2, SetAbsentLow
<1> QED BY <1>1, <1>2

\* StrictlyOrderedMap::erase removes the pairs whose keys are in the range.
LEMMA EraseRangeIs ==
    ASSUME NEW map, Ordered(map), NEW lo \in KeyIterator, NEW hi \in KeyIterator, lo < hi
    PROVE  /\ Ordered(EraseRange(map, lo, hi))
           /\ \A j \in Key, w \in ID :
                 Holds(EraseRange(map, lo, hi), j, w)
                    <=> Holds(map, j, w) /\ ~Between(lo, j, hi)
<1> DEFINE start == CountBelow(map.keys, lo)
           end == CountBelow(map.keys, hi)
           len == Len(map.keys)
           keys == VecErase(map.keys, start, end)
           vals == VecErase(map.vals, start, end)
<1>1. EraseRange(map, lo, hi) = [keys |-> keys, vals |-> vals]
  BY DEF EraseRange
<1>2. /\ start \in 0 .. len
      /\ \A i \in 1 .. start : map.keys[i] < lo
      /\ \A i \in start + 1 .. len : map.keys[i] >= lo
  BY OrderedFacts, CountBelowIs
<1>3. /\ end \in 0 .. len
      /\ \A i \in 1 .. end : map.keys[i] < hi
      /\ \A i \in end + 1 .. len : map.keys[i] >= hi
  BY OrderedFacts, CountBelowIs
<1> HIDE DEF start, end
<1>4. /\ len \in Nat /\ lo \in Int /\ hi \in Int
      /\ \A i \in 1 .. len : map.keys[i] \in Int
  BY OrderedFacts, KeysAreIntegers
<1>5. start \in 0 .. end
  <2>1. SUFFICES ASSUME end < start PROVE FALSE
    BY <1>2, <1>3, <1>4
  <2>2. start \in end + 1 .. len /\ start \in 1 .. start /\ start \in 1 .. len
    BY <1>2, <1>3, <1>4, <2>1
  <2>3. map.keys[start] >= hi /\ map.keys[start] < lo
    BY <1>2, <1>3, <2>2
  <2> QED BY <1>4, <2>2, <2>3
<1>6. /\ keys \in Seq(Key)
      /\ Len(keys) = len - (end - start)
      /\ \A i \in 1 .. start : keys[i] = map.keys[i]
      /\ \A i \in end + 1 .. len : keys[i - (end - start)] = map.keys[i]
  <2>1. map.keys \in Seq(Key) /\ len = Len(map.keys)
    BY OrderedFacts DEF Sorted
  <2>2. end \in 0 .. Len(map.keys)
    BY <1>3, <2>1
  <2>3. keys \in Seq(Key) /\ ErasesBetween(keys, map.keys, start, end)
    BY <1>5, <2>1, <2>2, VecEraseIs, Zenon
  <2> QED BY <2>1, <2>3 DEF ErasesBetween
<1>7. /\ vals \in Seq(ID)
      /\ Len(vals) = len - (end - start)
      /\ \A i \in 1 .. start : vals[i] = map.vals[i]
      /\ \A i \in end + 1 .. len : vals[i - (end - start)] = map.vals[i]
  <2>1. map.vals \in Seq(ID) /\ Len(map.vals) = len
    BY OrderedFacts
  <2>2. end \in 0 .. Len(map.vals)
    BY <1>3, <2>1
  <2>3. vals \in Seq(ID) /\ ErasesBetween(vals, map.vals, start, end)
    BY <1>5, <2>1, <2>2, VecEraseIs, Zenon
  <2> QED BY <2>1, <2>3 DEF ErasesBetween
<1> HIDE DEF keys, vals
\* What is left at i was at source[i].
<1> DEFINE source == [i \in 1 .. Len(keys) |-> IF i <= start THEN i ELSE i + (end - start)]
<1>8. ASSUME NEW i \in 1 .. Len(keys)
      PROVE  /\ source[i] \in 1 .. len
             /\ source[i] \in 1 .. start \/ source[i] \in end + 1 .. len
             /\ keys[i] = map.keys[source[i]]
             /\ vals[i] = map.vals[source[i]]
  <2>1. CASE i <= start
    BY <1>2, <1>4, <1>5, <1>6, <1>7, <2>1
  <2>2. CASE i > start
    <3>1. i + (end - start) \in end + 1 .. len /\ (i + (end - start)) - (end - start) = i
      BY <1>2, <1>3, <1>4, <1>5, <1>6, <2>2
    <3>2. source[i] = i + (end - start)
      BY <1>2, <2>2
    <3>3. keys[i] = map.keys[source[i]] /\ vals[i] = map.vals[source[i]]
      BY <1>6, <1>7, <3>1, <3>2
    <3> QED BY <1>3, <1>4, <3>1, <3>2, <3>3
  <2> QED BY <1>2, <2>1, <2>2
<1>9. \A i, j \in 1 .. Len(keys) : i < j => source[i] < source[j]
  BY <1>2, <1>3, <1>4, <1>5, <1>6
<1>10. Ordered(EraseRange(map, lo, hi))
  <2>1. \A i, j \in 1 .. Len(keys) : i < j => keys[i] < keys[j]
    <3>1. SUFFICES ASSUME NEW i \in 1 .. Len(keys), NEW j \in 1 .. Len(keys), i < j
                   PROVE  keys[i] < keys[j]
      OBVIOUS
    <3>2. source[i] < source[j] /\ source[i] \in 1 .. len /\ source[j] \in 1 .. len
      BY <1>8, <1>9, <3>1
    <3>3. map.keys[source[i]] < map.keys[source[j]]
      BY <3>2 DEF Ordered
    <3> QED BY <1>8, <3>3
  <2> QED BY <1>1, <1>6, <1>7, <2>1 DEF Ordered
<1>11. ASSUME NEW j \in Key, NEW w \in ID
       PROVE  Holds(EraseRange(map, lo, hi), j, w)
                 <=> Holds(map, j, w) /\ ~Between(lo, j, hi)
  <2>1. Holds(EraseRange(map, lo, hi), j, w)
           <=> \E i \in 1 .. Len(keys) : keys[i] = j /\ vals[i] = w
    BY <1>1 DEF Holds
  <2>2. ASSUME NEW i \in 1 .. Len(keys), keys[i] = j, vals[i] = w
        PROVE  Holds(map, j, w) /\ ~Between(lo, j, hi)
    <3>1. Holds(map, j, w)
      BY <1>8, <2>2 DEF Holds
    <3>2. map.keys[source[i]] < lo \/ map.keys[source[i]] >= hi
      BY <1>2, <1>3, <1>8
    <3>3. ~Between(lo, j, hi)
      BY <1>4, <1>8, <2>2, <3>2 DEF Between
    <3> QED BY <3>1, <3>3
  <2>3. ASSUME NEW i \in 1 .. len, map.keys[i] = j, map.vals[i] = w, ~Between(lo, j, hi)
        PROVE  \E a \in 1 .. Len(keys) : keys[a] = j /\ vals[a] = w
    <3>1. i \in 1 .. start \/ i \in end + 1 .. len
      <4>1. ~(i \in start + 1 .. len /\ i \in 1 .. end)
        BY <1>2, <1>3, <1>4, <2>3 DEF Between
      <4> QED BY <1>2, <1>3, <1>4, <4>1
    <3>2. CASE i \in 1 .. start
      <4>1. i \in 1 .. Len(keys)
        BY <1>2, <1>3, <1>4, <1>5, <1>6, <3>2
      <4> QED BY <1>6, <1>7, <2>3, <3>2, <4>1
    <3>3. CASE i \in end + 1 .. len
      <4>1. i - (end - start) \in 1 .. Len(keys)
        BY <1>2, <1>3, <1>4, <1>5, <1>6, <3>3
      <4> QED BY <1>6, <1>7, <2>3, <3>3, <4>1
    <3> QED BY <3>1, <3>2, <3>3
  <2> QED BY <2>1, <2>2, <2>3 DEF Holds
<1> QED BY <1>10, <1>11

-----------------------------------------------------------------------------
(***************************************************************************)
(* Lookups.                                                                *)
(***************************************************************************)
\* get returns the owner of the range that governs the key.
LEMMA GetIs ==
    ASSUME NEW map, Complete(map), NEW k \in Key
    PROVE  /\ Get(map, k) = map.vals[GreatestLowerBoundIndex(map.keys, k)]
           /\ Get(map, k) \in ID
           /\ \E j \in Key : Holds(map, j, Get(map, k)) /\ Governs(map, j, k)
<1> DEFINE n == GreatestLowerBoundIndex(map.keys, k)
<1>1. Ordered(map) /\ Len(map.keys) > 0 /\ map.keys[1] = 0
  BY DEF Complete
<1>2. /\ n \in 1 .. Len(map.keys)
      /\ \A i \in 1 .. n : map.keys[i] <= k
      /\ \A i \in n + 1 .. Len(map.keys) : k < map.keys[i]
  BY <1>1, OrderedFacts, KeysAreIntegers, GreatestLowerBoundIndexIs
<1>3. FindKey(map.keys, map.keys[n]) = n
  BY <1>1, <1>2, OrderedFacts, FindKeyIs
<1>4. Get(map, k) = map.vals[n]
  BY <1>3 DEF Get
<1> HIDE DEF n
<1>5. map.vals[n] \in ID /\ map.keys[n] \in Key /\ Holds(map, map.keys[n], map.vals[n])
  BY <1>1, <1>2, OrderedFacts DEF Holds
<1>6. Governs(map, map.keys[n], k)
  <2>1. map.keys[n] <= k
    BY <1>1, <1>2, OrderedFacts
  <2>2. ASSUME NEW i \in 1 .. Len(map.keys), map.keys[i] <= k
        PROVE  map.keys[i] <= map.keys[n]
    <3>1. map.keys[i] \in Int /\ map.keys[n] \in Int /\ k \in Int
      BY <1>1, <1>2, OrderedFacts, KeysAreIntegers
    <3>2. ~(i \in n + 1 .. Len(map.keys))
      BY <1>2, <2>2, <3>1
    <3>3. i = n \/ i < n
      BY <1>1, <1>2, <3>2, OrderedFacts
    <3> QED BY <1>1, <1>2, <3>1, <3>3, OrderedFacts DEF Sorted
  <2> QED BY <2>1, <2>2 DEF Governs, Holds
<1>7. Get(map, k) = map.vals[GreatestLowerBoundIndex(map.keys, k)]
  BY <1>4 DEF n
<1> QED BY <1>4, <1>5, <1>6, <1>7

\* No key starts two ranges.
LEMMA HoldsOne ==
    ASSUME NEW map, Ordered(map), NEW j \in Key, NEW v, NEW w,
           Holds(map, j, v), Holds(map, j, w)
    PROVE  v = w
<1>1. PICK a \in 1 .. Len(map.keys) : map.keys[a] = j /\ map.vals[a] = v
  BY DEF Holds
<1>2. PICK b \in 1 .. Len(map.keys) : map.keys[b] = j /\ map.vals[b] = w
  BY DEF Holds
<1>3. a = b
  BY <1>1, <1>2, OrderedFacts, KeysAreIntegers DEF Sorted
<1> QED BY <1>1, <1>2, <1>3

\* A key is owned by the owner of the start that governs it.
LEMMA GetFrom ==
    ASSUME NEW map, Complete(map), NEW k \in Key, NEW j \in Key, NEW v \in ID,
           Holds(map, j, v), Governs(map, j, k)
    PROVE  Get(map, k) = v
<1>1. PICK a \in Key : Holds(map, a, Get(map, k)) /\ Governs(map, a, k)
  BY GetIs
<1>2. Get(map, k) \in ID /\ Ordered(map)
  BY GetIs DEF Complete
<1>3. a <= j /\ j <= a
  BY <1>1, <1>2 DEF Governs
<1>4. a = j
  BY <1>3, KeysAreIntegers
<1> QED BY <1>1, <1>2, <1>4, HoldsOne

-----------------------------------------------------------------------------
(***************************************************************************)
(* Setting a range.                                                        *)
(***************************************************************************)
\* A complete map has a range that starts at the first key.
LEMMA CompleteHoldsZero ==
    ASSUME NEW map, Ordered(map)
    PROVE  Complete(map) <=> \E v \in ID : Holds(map, 0, v)
<1>1. ASSUME Complete(map) PROVE \E v \in ID : Holds(map, 0, v)
  <2>1. 1 \in 1 .. Len(map.keys) /\ map.keys[1] = 0 /\ map.vals[1] \in ID
    BY <1>1, OrderedFacts DEF Complete
  <2> QED BY <2>1 DEF Holds
<1>2. ASSUME NEW v \in ID, Holds(map, 0, v) PROVE Complete(map)
  <2>1. PICK i \in 1 .. Len(map.keys) : map.keys[i] = 0
    BY <1>2 DEF Holds
  <2>2. 1 \in 1 .. Len(map.keys) /\ Len(map.keys) > 0 /\ map.keys[1] \in Key
    BY <2>1, OrderedFacts
  <2>3. i = 1 \/ map.keys[1] < map.keys[i]
    BY <2>1, <2>2, OrderedFacts DEF Sorted
  <2>4. map.keys[1] = 0
    BY <2>1, <2>2, <2>3, KeysAssumption DEF Key
  <2> QED BY <2>2, <2>4 DEF Complete
<1> QED BY <1>1, <1>2

\* The ranges of a map after a range is set: the one that starts at lo, the
\* one that starts at hi, and those outside.
LEMMA SetHolds ==
    ASSUME NEW map, Complete(map), NEW lo \in KeyIterator, NEW hi \in KeyIterator, lo < hi,
           NEW dst \in ID
    PROVE  /\ Ordered(Set(map, lo, hi, dst))
           /\ \A j \in Key, w \in ID :
                 Holds(Set(map, lo, hi, dst), j, w)
                    <=> IF j = lo THEN w = dst
                        ELSE IF Between(lo, j, hi) THEN FALSE
                        ELSE IF j = hi THEN w = Get(map, hi)
                        ELSE Holds(map, j, w)
<1> DEFINE fixed == IF hi = Keys THEN map ELSE SetLow(map, hi, Get(map, hi))
           erased == EraseRange(fixed, lo, hi)
<1>1. lo \in Key /\ (hi # Keys => hi \in Key) /\ Keys \notin Key /\ ~Between(lo, hi, hi)
  BY KeysAssumption DEF Key, KeyIterator, Between
<1>2. Ordered(map)
  BY DEF Complete
<1>3. /\ Ordered(fixed)
      /\ \A j \in Key, w \in ID :
            Holds(fixed, j, w) <=> IF j = hi THEN w = Get(map, hi) ELSE Holds(map, j, w)
  <2>1. CASE hi = Keys
    BY <1>1, <1>2, <2>1
  <2>2. CASE hi # Keys
    <3>1. hi \in Key /\ Get(map, hi) \in ID /\ fixed = SetLow(map, hi, Get(map, hi))
      BY <1>1, <2>2, GetIs
    <3> QED BY <1>2, <3>1, SetLowIs
  <2> QED BY <2>1, <2>2
<1> HIDE DEF fixed
<1>4. /\ Ordered(erased)
      /\ \A j \in Key, w \in ID : Holds(erased, j, w) <=> Holds(fixed, j, w) /\ ~Between(lo, j, hi)
  BY <1>3, EraseRangeIs
<1> HIDE DEF erased
<1>5. Set(map, lo, hi, dst) = SetLow(erased, lo, dst)
  BY DEF Set, erased, fixed
<1>6. /\ Ordered(SetLow(erased, lo, dst))
      /\ \A j \in Key, w \in ID :
            Holds(SetLow(erased, lo, dst), j, w) <=> IF j = lo THEN w = dst ELSE Holds(erased, j, w)
  BY <1>1, <1>4, SetLowIs
<1> QED BY <1>1, <1>3, <1>4, <1>5, <1>6

\* DelegationMap::set leaves the map ordered and complete.
LEMMA SetKeepsComplete ==
    ASSUME NEW map, Complete(map), NEW lo \in KeyIterator, NEW hi \in KeyIterator,
           NEW dst \in ID
    PROVE  Complete(Set(map, lo, hi, dst))
<1>1. CASE ~(lo < hi)
  BY <1>1 DEF Set
<1>2. CASE lo < hi
  <2> DEFINE new == Set(map, lo, hi, dst)
  <2>1. 0 \in Key /\ lo \in Int /\ hi \in Int /\ 0 <= lo
    BY KeysAssumption DEF Key, KeyIterator
  <2>2. Ordered(new)
    BY <1>2, SetHolds
  <2>3. CASE lo = 0
    <3>1. Holds(new, 0, dst)
      BY <1>2, <2>1, <2>3, SetHolds
    <3> QED BY <2>2, <3>1, CompleteHoldsZero
  <2>4. CASE lo # 0
    <3>1. PICK v \in ID : Holds(map, 0, v)
      BY CompleteHoldsZero DEF Complete
    <3>2. ~Between(lo, 0, hi) /\ 0 # hi
      BY <1>2, <2>1, <2>4 DEF Between
    <3>3. Holds(new, 0, v)
      BY <1>2, <2>1, <2>4, <3>1, <3>2, SetHolds
    <3> QED BY <2>2, <3>3, CompleteHoldsZero
  <2> QED BY <2>3, <2>4
<1> QED BY <1>1, <1>2

\* After a range is set, its keys belong to dst, and no other key changed
\* hands.
LEMMA GetAfterSet ==
    ASSUME NEW map, Complete(map), NEW lo \in KeyIterator, NEW hi \in KeyIterator,
           NEW dst \in ID, NEW k \in Key
    PROVE  Get(Set(map, lo, hi, dst), k) = IF Between(lo, k, hi) THEN dst ELSE Get(map, k)
<1>1. CASE ~(lo < hi)
  <2>1. ~Between(lo, k, hi)
    BY <1>1, KeysAreIntegers DEF Between
  <2> QED BY <1>1, <2>1 DEF Set
<1>2. CASE lo < hi
  <2> DEFINE new == Set(map, lo, hi, dst)
  <2>1. lo \in Int /\ hi \in Int /\ k \in Int /\ Key \subseteq Int
    BY KeysAreIntegers
  <2>2. lo \in Key
    BY <1>2, KeysAssumption DEF Key, KeyIterator
  <2>3. Complete(new)
    BY SetKeepsComplete
  <2>4. \A j \in Key, w \in ID :
           Holds(new, j, w) <=> IF j = lo THEN w = dst
                                ELSE IF Between(lo, j, hi) THEN FALSE
                                ELSE IF j = hi THEN w = Get(map, hi)
                                ELSE Holds(map, j, w)
    BY <1>2, SetHolds
  <2> SUFFICES Get(new, k) = IF Between(lo, k, hi) THEN dst ELSE Get(map, k)
    OBVIOUS
  <2> HIDE DEF new
  <2>5. PICK j \in Key : Holds(map, j, Get(map, k)) /\ Governs(map, j, k)
    BY GetIs
  <2>6. Get(map, k) \in ID
    BY GetIs
  <2>7. CASE Between(lo, k, hi)
    <3>1. Holds(new, lo, dst)
      BY <2>2, <2>4
    <3>2. Governs(new, lo, k)
      BY <2>1, <2>4, <2>7 DEF Governs, Between
    <3> QED BY <2>2, <2>3, <2>7, <3>1, <3>2, GetFrom
  <2>8. CASE k < lo
    <3>1. j # lo /\ ~Between(lo, j, hi) /\ j # hi
      BY <1>2, <2>1, <2>5, <2>8 DEF Governs, Between
    <3>2. Holds(new, j, Get(map, k))
      BY <2>4, <2>5, <2>6, <3>1
    <3>3. Governs(new, j, k)
      BY <1>2, <2>1, <2>4, <2>5, <2>8 DEF Governs, Between
    <3>4. ~Between(lo, k, hi)
      BY <2>1, <2>8 DEF Between
    <3> QED BY <2>3, <2>6, <3>2, <3>3, <3>4, GetFrom
  <2>9. CASE hi <= k
    <3>1. hi \in Key
      BY <2>9, KeysAssumption DEF Key, KeyIterator
    <3>2. ~Between(lo, k, hi)
      BY <2>1, <2>9 DEF Between
    <3>3. CASE hi < j
      <4>1. j # lo /\ ~Between(lo, j, hi) /\ j # hi
        BY <1>2, <2>1, <3>3 DEF Between
      <4>2. Holds(new, j, Get(map, k))
        BY <2>4, <2>5, <2>6, <4>1
      <4>3. Governs(new, j, k)
        BY <1>2, <2>1, <2>4, <2>5, <3>3 DEF Governs, Between
      <4> QED BY <2>3, <2>6, <3>2, <4>2, <4>3, GetFrom
    <3>4. CASE j <= hi
      <4>1. Governs(map, j, hi)
        BY <2>1, <2>5, <2>9, <3>1, <3>4 DEF Governs
      <4>2. Get(map, hi) = Get(map, k)
        BY <2>5, <2>6, <3>1, <4>1, GetFrom
      <4>3. hi # lo /\ ~Between(lo, hi, hi)
        BY <1>2, <2>1 DEF Between
      <4>4. Holds(new, hi, Get(map, k))
        BY <2>4, <2>6, <3>1, <4>2, <4>3
      <4>5. Governs(new, hi, k)
        BY <1>2, <2>1, <2>4, <2>5, <2>9, <3>1, <3>4 DEF Governs, Between
      <4> QED BY <2>3, <2>6, <3>1, <3>2, <4>4, <4>5, GetFrom
    <3> QED BY <2>1, <3>3, <3>4
  <2> QED BY <2>1, <2>7, <2>8, <2>9 DEF Between
<1> QED BY <1>1, <1>2

-----------------------------------------------------------------------------
(***************************************************************************)
(* The range query.                                                        *)
(***************************************************************************)
\* Every range from the one lo is in to the one hi is in has a key of lo .. hi,
\* except one that starts at hi.
LEMMA RangesInBetween ==
    ASSUME NEW map, Complete(map), NEW lo \in KeyIterator, NEW hi \in KeyIterator, lo < hi,
           NEW i \in GreatestLowerBoundIndex(map.keys, lo)
                        .. GreatestLowerBoundIndex(map.keys, hi),
           ~(i = GreatestLowerBoundIndex(map.keys, hi) /\ hi # Keys /\ map.keys[i] = hi)
    PROVE  \E k \in Key : Between(lo, k, hi) /\ Get(map, k) = map.vals[i]
<1> DEFINE first == GreatestLowerBoundIndex(map.keys, lo)
           last == GreatestLowerBoundIndex(map.keys, hi)
           len == Len(map.keys)
<1>1. Ordered(map) /\ Len(map.keys) > 0 /\ map.keys[1] = 0
  BY DEF Complete
<1>2. /\ first \in 1 .. len
      /\ \A n \in 1 .. first : map.keys[n] <= lo
      /\ \A n \in first + 1 .. len : lo < map.keys[n]
  BY <1>1, OrderedFacts, GreatestLowerBoundIndexIs
<1>3. /\ last \in 1 .. len
      /\ \A n \in 1 .. last : map.keys[n] <= hi
      /\ \A n \in last + 1 .. len : hi < map.keys[n]
  BY <1>1, OrderedFacts, GreatestLowerBoundIndexIs
<1> HIDE DEF first, last
<1>4. /\ len \in Nat /\ lo \in Int /\ hi \in Int
      /\ \A n \in 1 .. len : map.keys[n] \in Int /\ map.keys[n] \in Key /\ map.vals[n] \in ID
  BY <1>1, OrderedFacts, KeysAreIntegers
<1>5. i \in first .. last /\ i \in 1 .. len
  BY <1>2, <1>3, <1>4 DEF first, last
<1>6. \A a, b \in 1 .. len : a < b => map.keys[a] < map.keys[b]
  BY <1>1 DEF Ordered
\* The key: lo, if lo is in the range, or else the first key of the range.
<1> DEFINE k == IF map.keys[i] <= lo THEN lo ELSE map.keys[i]
<1>7. k \in Key
  BY <1>4, <1>5, KeysAssumption DEF Key, KeyIterator
<1>8. map.keys[i] <= k /\ lo <= k
  BY <1>4, <1>5
<1>9. map.keys[i] < hi
  <2>1. CASE i < last
    BY <1>3, <1>4, <1>5, <1>6, <2>1
  <2>2. CASE i = last
    <3>1. map.keys[i] <= hi
      BY <1>3, <1>5, <2>2
    <3>2. hi = Keys => map.keys[i] # hi
      BY <1>4, <1>5, KeysAssumption DEF Key
    <3>3. map.keys[i] # hi
      BY <3>2, <2>2 DEF last
    <3> QED BY <1>4, <1>5, <3>1, <3>3
  <2> QED BY <1>2, <1>3, <1>5, <2>1, <2>2
<1>10. Between(lo, k, hi)
  BY <1>4, <1>5, <1>8, <1>9 DEF Between
<1>11. ASSUME NEW n \in 1 .. len, i < n PROVE k < map.keys[n]
  <2>1. map.keys[i] < map.keys[n]
    BY <1>5, <1>6, <1>11
  <2>2. n \in first + 1 .. len
    BY <1>2, <1>4, <1>5, <1>11
  <2>3. lo < map.keys[n]
    BY <1>2, <2>2
  <2> QED BY <2>1, <2>3
<1> HIDE DEF k
<1>12. Governs(map, map.keys[i], k)
  <2>1. ASSUME NEW n \in 1 .. len, map.keys[n] <= k PROVE map.keys[n] <= map.keys[i]
    <3>1. k \in Int
      BY <1>7, KeysAreIntegers
    <3>2. ~(i < n)
      BY <1>4, <1>11, <2>1, <3>1
    <3> QED BY <1>4, <1>5, <1>6, <3>2
  <2> QED BY <1>8, <2>1 DEF Governs, Holds
<1>13. Holds(map, map.keys[i], map.vals[i])
  BY <1>5 DEF Holds
<1>14. Get(map, k) = map.vals[i]
  BY <1>4, <1>5, <1>7, <1>12, <1>13, GetFrom
<1> QED BY <1>7, <1>10, <1>14

\* The keys of lo .. hi are in those ranges.
LEMMA KeysInBetween ==
    ASSUME NEW map, Complete(map), NEW lo \in KeyIterator, NEW hi \in KeyIterator, lo < hi,
           NEW k \in Key, Between(lo, k, hi)
    PROVE  \E i \in GreatestLowerBoundIndex(map.keys, lo)
                        .. GreatestLowerBoundIndex(map.keys, hi) :
              /\ Get(map, k) = map.vals[i]
              /\ map.keys[i] < hi
<1> DEFINE first == GreatestLowerBoundIndex(map.keys, lo)
           last == GreatestLowerBoundIndex(map.keys, hi)
           i == GreatestLowerBoundIndex(map.keys, k)
           len == Len(map.keys)
<1>1. Ordered(map) /\ Len(map.keys) > 0 /\ map.keys[1] = 0
  BY DEF Complete
<1>2. first \in 1 .. len /\ \A n \in 1 .. first : map.keys[n] <= lo
  BY <1>1, OrderedFacts, GreatestLowerBoundIndexIs
<1>3. last \in 1 .. len /\ \A n \in last + 1 .. len : hi < map.keys[n]
  BY <1>1, OrderedFacts, GreatestLowerBoundIndexIs
<1>4. /\ i \in 1 .. len
      /\ \A n \in 1 .. i : map.keys[n] <= k
      /\ \A n \in i + 1 .. len : k < map.keys[n]
  BY <1>1, OrderedFacts, KeysAreIntegers, GreatestLowerBoundIndexIs
<1>5. Get(map, k) = map.vals[i]
  BY GetIs
<1> HIDE DEF first, last, i
<1>6. /\ len \in Nat /\ lo \in Int /\ hi \in Int /\ k \in Int
      /\ \A n \in 1 .. len : map.keys[n] \in Int
  BY <1>1, OrderedFacts, KeysAreIntegers
<1>7. lo <= k /\ k < hi
  BY DEF Between
<1>8. first <= i
  <2>1. SUFFICES ASSUME i < first PROVE FALSE
    BY <1>2, <1>4, <1>6
  <2>2. first \in i + 1 .. len /\ first \in 1 .. first
    BY <1>2, <1>4, <1>6, <2>1
  <2>3. k < map.keys[first] /\ map.keys[first] <= lo
    BY <1>2, <1>4, <2>2
  <2> QED BY <1>2, <1>6, <1>7, <2>3
<1>9. i <= last
  <2>1. SUFFICES ASSUME last < i PROVE FALSE
    BY <1>3, <1>4, <1>6
  <2>2. i \in last + 1 .. len /\ i \in 1 .. i
    BY <1>3, <1>4, <1>6, <2>1
  <2>3. hi < map.keys[i] /\ map.keys[i] <= k
    BY <1>3, <1>4, <2>2
  <2> QED BY <1>4, <1>6, <1>7, <2>3
<1>10. map.keys[i] < hi
  <2>1. i \in 1 .. i /\ i \in 1 .. len
    BY <1>4, <1>6
  <2>2. map.keys[i] <= k
    BY <1>4, <2>1
  <2> QED BY <1>6, <1>7, <2>1, <2>2
<1>11. i \in first .. last
  BY <1>2, <1>3, <1>4, <1>6, <1>8, <1>9
<1> QED BY <1>5, <1>10, <1>11 DEF first, last

\* The query agrees with looking up every key.
LEMMA RangeConsistentIs ==
    ASSUME NEW map, Complete(map), NEW lo \in KeyIterator, NEW hi \in KeyIterator,
           NEW dst \in ID
    PROVE  RangeConsistent(map, lo, hi, dst)
              <=> \A k \in Key : Between(lo, k, hi) => Get(map, k) = dst
<1> DEFINE first == GreatestLowerBoundIndex(map.keys, lo)
           last == GreatestLowerBoundIndex(map.keys, hi)
<1>1. CASE ~(lo < hi)
  <2>1. \A k \in Key : ~Between(lo, k, hi)
    BY <1>1, KeysAreIntegers DEF Between
  <2> QED BY <1>1, <2>1 DEF RangeConsistent
<1>2. CASE lo < hi
  <2>1. first \in Int /\ last \in Int
    BY OrderedFacts, GreatestLowerBoundIndexIs DEF Complete
  <2>2. RangeConsistent(map, lo, hi, dst)
           <=> \/ \A i \in first .. last : map.vals[i] = dst
               \/ /\ map.vals[last] # dst
                  /\ \A i \in first .. last - 1 : map.vals[i] = dst
                  /\ hi # Keys
                  /\ map.keys[last] = hi
    BY <1>2 DEF RangeConsistent
  <2>3. ASSUME NEW i \in first .. last, ~(i = last /\ hi # Keys /\ map.keys[i] = hi)
        PROVE  \E k \in Key : Between(lo, k, hi) /\ Get(map, k) = map.vals[i]
    BY <1>2, <2>3, RangesInBetween
  <2>4. ASSUME NEW k \in Key, Between(lo, k, hi)
        PROVE  \E i \in first .. last : Get(map, k) = map.vals[i] /\ map.keys[i] < hi
    BY <1>2, <2>4, KeysInBetween
  <2>5. hi \in Int
    BY KeysAreIntegers
  <2> HIDE DEF first, last
  <2>6. ASSUME RangeConsistent(map, lo, hi, dst), NEW k \in Key, Between(lo, k, hi)
        PROVE  Get(map, k) = dst
    <3>1. PICK i \in first .. last : Get(map, k) = map.vals[i] /\ map.keys[i] < hi
      BY <2>4, <2>6
    <3>2. i = last => map.keys[last] # hi
      BY <2>5, <3>1
    <3>3. i # last => i \in first .. last - 1
      BY <2>1
    <3> QED BY <2>2, <2>6, <3>1, <3>2, <3>3
  <2>7. ASSUME \A k \in Key : Between(lo, k, hi) => Get(map, k) = dst
        PROVE  RangeConsistent(map, lo, hi, dst)
    <3>1. \A i \in first .. last :
             ~(i = last /\ hi # Keys /\ map.keys[i] = hi) => map.vals[i] = dst
      BY <2>3, <2>7
    <3>2. \A i \in first .. last - 1 : map.vals[i] = dst
      <4>1. \A i \in first .. last - 1 : i \in first .. last /\ i # last
        BY <2>1
      <4> QED BY <3>1, <4>1
    <3>3. CASE \A i \in first .. last : map.vals[i] = dst
      BY <2>2, <3>3
    <3>4. CASE \E i \in first .. last : map.vals[i] # dst
      <4>1. hi # Keys /\ map.keys[last] = hi /\ map.vals[last] # dst
        BY <3>1, <3>4
      <4> QED BY <2>2, <3>2, <4>1
    <3> QED BY <3>3, <3>4
  <2> QED BY <2>6, <2>7
<1> QED BY <1>1, <1>2

-----------------------------------------------------------------------------
(***************************************************************************)
(* The theorems.                                                           *)
(***************************************************************************)
\* Valid, in the words of the lemmas.
LEMMA ValidIsComplete == Valid <=> Complete(lows)
BY DEF Valid, Complete

\* The first map gives every key to the root (DelegationMap::new).
LEMMA InitialMap ==
    ASSUME Init
    PROVE  Complete(lows) /\ \A k \in Key : Get(lows, k) = Root
<1>1. /\ lows.keys = <<0>> /\ lows.vals = <<Root>>
      /\ lows = [keys |-> <<0>>, vals |-> <<Root>>]
  BY DEF Init
<1>2. 0 \in Key
  BY KeysAssumption DEF Key
<1>3. Len(lows.keys) = 1 /\ Len(lows.vals) = 1 /\ lows.keys[1] = 0 /\ lows.vals[1] = Root
  BY <1>1
<1>4. lows.keys \in Seq(Key) /\ lows.vals \in Seq(ID)
  BY <1>1, <1>2, RootAssumption
<1>5. Complete(lows)
  BY <1>1, <1>3, <1>4 DEF Complete, Ordered
<1>6. ASSUME NEW k \in Key PROVE Get(lows, k) = Root
  <2>1. Holds(lows, 0, Root)
    BY <1>3 DEF Holds
  <2>2. Governs(lows, 0, k)
    BY <1>3, KeysAssumption DEF Governs, Holds, Key
  <2> QED BY <1>2, <1>5, <2>1, <2>2, RootAssumption, GetFrom
<1> QED BY <1>5, <1>6

\* The vectors stay sorted and in step, and start at the first key
\* (DelegationMap::valid).
THEOREM Validity == Spec => []Valid
<1>1. Init => Valid
  BY InitialMap, ValidIsComplete
<1>2. Valid /\ [Next]_lows => Valid'
  <2>1. SUFFICES ASSUME Complete(lows), [Next]_lows PROVE Complete(lows')
    BY DEF Valid, Complete
  <2>2. CASE UNCHANGED lows
    BY <2>1, <2>2
  <2>3. CASE Next
    <3>1. PICK lo \in KeyIterator, hi \in KeyIterator, dst \in ID : lows' = Set(lows, lo, hi, dst)
      BY <2>3 DEF Next, SetRangeOwner
    <3> QED BY <2>1, <3>1, SetKeepsComplete
  <2> QED BY <2>1, <2>2, <2>3
<1> QED BY <1>1, <1>2, PTL DEF Spec

\* A host that asks whether it owns a range is told what looking up every key
\* would tell it (range_consistent_impl).
THEOREM QueriesAreExact == Spec => []RangeQueryIsExact
<1>1. Valid => RangeQueryIsExact
  <2>1. SUFFICES ASSUME Valid, NEW lo \in KeyIterator, NEW hi \in KeyIterator, NEW dst \in ID
                 PROVE  RangeConsistent(lows, lo, hi, dst)
                           <=> DelegateForRangeIs(OwnerOf, lo, hi, dst)
    BY DEF RangeQueryIsExact
  <2>2. DelegateForRangeIs(OwnerOf, lo, hi, dst)
           <=> \A k \in Key : Between(lo, k, hi) => Get(lows, k) = dst
    BY DEF DelegateForRangeIs, OwnerOf
  <2> QED BY <2>1, <2>2, ValidIsComplete, RangeConsistentIs
<1> QED BY <1>1, Validity, PTL

\* OwnerMap instantiates KeyRanges once more.
LEMMA SameKeyRanges ==
    /\ Owners!Key = Key
    /\ Owners!KeyIterator = KeyIterator
    /\ \A map, lo, hi, host : Owners!SetRange(map, lo, hi, host) = SetRange(map, lo, hi, host)
BY DEF Owners!Key, Owners!KeyIterator, Owners!SetRange, Owners!Between,
       Key, KeyIterator, SetRange, Between

\* A step of the vectors is an update of the function from keys to owners.
LEMMA SetUpdatesOwners ==
    ASSUME Valid, NEW lo \in KeyIterator, NEW hi \in KeyIterator, NEW dst \in ID,
           SetRangeOwner(lo, hi, dst)
    PROVE  Owners!Update(lo, hi, dst)
<1>1. lows' = Set(lows, lo, hi, dst) /\ Complete(lows)
  BY ValidIsComplete DEF SetRangeOwner
<1>2. OwnerOf' = [k \in Key |-> Get(lows', k)]
  BY DEF OwnerOf
<1>3. \A k \in Key : Get(lows', k) = IF Between(lo, k, hi) THEN dst ELSE OwnerOf[k]
  BY <1>1, GetAfterSet DEF OwnerOf
<1> QED BY <1>2, <1>3, SameKeyRanges DEF Owners!Update, SetRange

\* Setting a range changes the owners of the keys of the range and of no
\* other: the vectors implement a total function from keys to owners
\* (DelegationMap::set, AbstractDelegationMap::update).
THEOREM MapImplementsOwners == Spec => ImplementsOwnerMap
<1>1. Init => Owners!Init
  BY InitialMap, SameKeyRanges DEF Owners!Init, OwnerOf
<1>2. Valid /\ [Next]_lows
        => [\A lo, hi \in KeyIterator, dst \in ID :
               SetRangeOwner(lo, hi, dst) => Owners!Update(lo, hi, dst)]_lows
  BY SetUpdatesOwners
<1> QED BY <1>1, <1>2, Validity, PTL DEF Spec, ImplementsOwnerMap

\* And so every behavior of the vectors is one of the abstract map.
THEOREM MapRefinesOwnerMap == Spec => Owners!Spec
<1>1. Init => Owners!Init
  BY InitialMap, SameKeyRanges DEF Owners!Init, OwnerOf
<1>2. Valid /\ [Next]_lows => [Owners!Next]_OwnerOf
  <2>1. SUFFICES ASSUME Valid, [Next]_lows PROVE [Owners!Next]_OwnerOf
    OBVIOUS
  <2>2. CASE UNCHANGED lows
    BY <2>2 DEF OwnerOf
  <2>3. CASE Next
    <3>1. PICK lo \in KeyIterator, hi \in KeyIterator, dst \in ID : SetRangeOwner(lo, hi, dst)
      BY <2>3 DEF Next
    <3>2. Owners!Update(lo, hi, dst)
      BY <2>1, <3>1, SetUpdatesOwners
    <3> QED BY <3>2, SameKeyRanges DEF Owners!Next
  <2> QED BY <2>1, <2>2, <2>3
<1> QED BY <1>1, <1>2, Validity, PTL DEF Spec, Owners!Spec
=============================================================================
