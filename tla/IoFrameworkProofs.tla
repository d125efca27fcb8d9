------------------------- MODULE IoFrameworkProofs -------------------------
(***************************************************************************)
(* Proofs about IoFramework, for any processes, packets, numbers of        *)
(* threads, tries and broken connections.                                  *)
(***************************************************************************)
EXTENDS IoFramework, FiniteSetTheorems, SequenceTheorems, TLAPS

\* A thread that was started knows its process, its destination and its
\* connection; it gives back a current task only once its connection failed.
ThreadsKnown ==
    \A t \in Thread : thread[t].status # "unstarted" =>
        /\ thread[t].node \in Node
        /\ thread[t].dst \in Node
        /\ thread[t].connection \in Thread
        /\ thread[t].status \notin {"failed", "draining"} => thread[t].current = Nothing

\* A connection belongs to a thread that made it, one that is being accepted
\* too.
LinksMade ==
    /\ \A t \in Thread : link[t] # "none" => thread[t].status # "unstarted"
    /\ \A n \in Node, t \in Thread :
          accepting[n] = t /\ t # Nothing => thread[t].status # "unstarted"

\* No thread is registered twice.
RegisteredOnce ==
    \A n, d \in Node : \A i, j \in DOMAIN senders[n][d] :
        senders[n][d][i] = senders[n][d][j] => i = j

\* What is on its way to a process is for that process: the tasks of the
\* thread that is to send it, the packets on the wire and those received.
TasksAddressed ==
    /\ \A n \in Node :
         /\ inHand[n] # Nothing
         /\ inHand[n].sender # Nothing
         => /\ thread[inHand[n].sender].status # "unstarted"
            /\ thread[inHand[n].sender].dst = inHand[n].task.packet.dst
    /\ \A t \in Thread : \A i \in DOMAIN thread[t].queue :
         thread[t].queue[i].packet.dst = thread[t].dst

PacketsAddressed ==
    /\ \A n \in Node, t \in Thread : \A i \in DOMAIN wire[t][n] : wire[t][n][i].dst = n
    /\ \A n \in Node : \A i \in DOMAIN receiveQueue[n] : receiveQueue[n][i].dst = n

\* Only packets that were sent are held anywhere.
HeldWereSent == \A v \in Positions : Holdings[v[1]][v[2]] \in sent

IInv ==
    /\ TypeOK
    /\ ThreadsKnown
    /\ LinksMade
    /\ FoundSendersServe
    /\ RegisteredOnce
    /\ TasksAddressed
    /\ PacketsAddressed
    /\ HeldOnce
    /\ HeldWereSent
-----------------------------------------------------------------------------
(***************************************************************************)
(* Queues.                                                                 *)
(***************************************************************************)
LEMMA FirstIs ==
    ASSUME NEW S, NEW s \in Seq(S), s # <<>>
    PROVE  /\ Head(s) = s[1]
           /\ Head(s) \in S
           /\ Tail(s) \in Seq(S)
           /\ DOMAIN s = 1 .. Len(s)
           /\ Len(s) \in Nat \ {0}
           /\ DOMAIN Tail(s) = 1 .. Len(s) - 1
           /\ \A i \in 1 .. Len(s) - 1 : Tail(s)[i] = s[i + 1]
  BY HeadTailProperties, LenProperties, EmptySeq

LEMMA HeadIs ==
    ASSUME NEW S, NEW s \in Seq(S), s # <<>>
    PROVE  Head(s) = s[1] /\ Head(s) \in S /\ 1 \in DOMAIN s
<1>1. 1 \in DOMAIN s
  BY LenProperties, EmptySeq
<1> QED
  BY <1>1, FirstIs

LEMMA AppendIs ==
    ASSUME NEW S, NEW s \in Seq(S), NEW e \in S
    PROVE  /\ Append(s, e) \in Seq(S)
           /\ Len(s) \in Nat
           /\ DOMAIN s = 1 .. Len(s)
           /\ DOMAIN Append(s, e) = 1 .. Len(s) + 1
           /\ \A i \in 1 .. Len(s) : Append(s, e)[i] = s[i]
           /\ Append(s, e)[Len(s) + 1] = e
  OBVIOUS

LEMMA PrefixIs ==
    ASSUME NEW S, NEW s \in Seq(S), NEW k \in Nat, k <= Len(s)
    PROVE  /\ SubSeq(s, 1, k) \in Seq(S)
           /\ DOMAIN SubSeq(s, 1, k) = 1 .. k
           /\ DOMAIN s = 1 .. Len(s)
           /\ \A i \in 1 .. k : SubSeq(s, 1, k)[i] = s[i]
<1>1. \A i \in 1 .. k : s[i] \in S
  BY ElementOfSeq, LenProperties
<1>2. /\ SubSeq(s, 1, k) \in Seq(S)
      /\ Len(SubSeq(s, 1, k)) = IF 1 <= k THEN k - 1 + 1 ELSE 0
      /\ \A i \in 1 .. k - 1 + 1 : SubSeq(s, 1, k)[i] = s[1 + i - 1]
  BY <1>1, SubSeqProperties
<1> QED
  BY <1>2, LenProperties

\* A thread that is registered once is not registered any more, and nothing
\* else is changed.
LEMMA RemoveFirstIs ==
    ASSUME NEW S, NEW s \in Seq(S), NEW e,
           \A i, j \in DOMAIN s : s[i] = s[j] => i = j
    PROVE  LET r == RemoveFirst(s, e)
           IN  /\ r \in Seq(S)
               /\ \A i \in DOMAIN r : r[i] # e /\ \E k \in DOMAIN s : r[i] = s[k]
               /\ \A i, j \in DOMAIN r : r[i] = r[j] => i = j
<1> DEFINE r == RemoveFirst(s, e)
<1>1. Len(s) \in Nat /\ DOMAIN s = 1 .. Len(s)
  BY LenProperties
<1>2. CASE ~\E i \in 1 .. Len(s) : s[i] = e
  BY <1>1, <1>2 DEF RemoveFirst
<1>3. ASSUME NEW k \in 1 .. Len(s), s[k] = e
      PROVE  /\ r \in Seq(S)
             /\ \A i \in DOMAIN r : r[i] # e /\ \E l \in DOMAIN s : r[i] = s[l]
             /\ \A i, j \in DOMAIN r : r[i] = r[j] => i = j
  <2> DEFINE a == SubSeq(s, 1, k - 1)
             b == SubSeq(s, k + 1, Len(s))
  <2>1. {i \in 1 .. Len(s) : s[i] = e} = {k}
    BY <1>1, <1>3
  <2>2. Min({k}) = k
    BY DEF Min
  <2>3. SelectInSeq(s, LAMBDA v : v = e) = k
    BY <2>1, <2>2 DEF SelectInSeq
  <2>4. r = a \o b
    BY <1>3, <2>3 DEF RemoveFirst, RemoveAt
  <2>5. \A i \in 1 .. Len(s) : s[i] \in S
    BY ElementOfSeq
  <2>6. /\ a \in Seq(S)
        /\ Len(a) = k - 1
        /\ \A i \in 1 .. k - 1 : a[i] = s[i]
    <3>1. \A i \in 1 .. k - 1 : s[i] \in S
      BY <1>1, <2>5
    <3>2. /\ a \in Seq(S)
          /\ Len(a) = IF 1 <= k - 1 THEN k - 1 - 1 + 1 ELSE 0
          /\ \A i \in 1 .. k - 1 - 1 + 1 : a[i] = s[1 + i - 1]
      BY <1>1, <3>1, SubSeqProperties
    <3> HIDE DEF a
    <3> QED
      BY <1>1, <3>2
  <2>7. /\ b \in Seq(S)
        /\ Len(b) = Len(s) - k
        /\ \A i \in 1 .. Len(s) - k : b[i] = s[k + i]
    <3>1. \A i \in k + 1 .. Len(s) : s[i] \in S
      BY <1>1, <2>5
    <3>2. /\ b \in Seq(S)
          /\ Len(b) = IF k + 1 <= Len(s) THEN Len(s) - (k + 1) + 1 ELSE 0
          /\ \A i \in 1 .. Len(s) - (k + 1) + 1 : b[i] = s[k + 1 + i - 1]
      BY <1>1, <3>1, SubSeqProperties
    <3> HIDE DEF b
    <3>3. Len(b) = Len(s) - k
      <4>1. k \in Int /\ k <= Len(s) /\ Len(s) \in Int
        BY <1>1
      <4>2. Len(b) = IF k + 1 <= Len(s) THEN Len(s) - (k + 1) + 1 ELSE 0
        BY <3>2
      <4> QED
        BY <4>1, <4>2
    <3>4. ASSUME NEW i \in 1 .. Len(s) - k PROVE b[i] = s[k + i]
      <4>1. i \in 1 .. Len(s) - (k + 1) + 1 /\ k + 1 + i - 1 = k + i
        BY <1>1
      <4> QED
        BY <3>2, <4>1
    <3> QED
      BY <3>2, <3>3, <3>4
  <2> HIDE DEF a, b, r
  <2>8. /\ r \in Seq(S)
        /\ DOMAIN r = 1 .. Len(s) - 1
        /\ \A i \in 1 .. Len(s) - 1 : r[i] = IF i <= k - 1 THEN s[i] ELSE s[i + 1]
    <3>1. /\ r \in Seq(S)
          /\ Len(r) = Len(s) - 1
          /\ \A i \in 1 .. Len(s) - 1 : r[i] = IF i <= k - 1 THEN a[i] ELSE b[i - (k - 1)]
      <4>1. /\ r \in Seq(S)
            /\ Len(r) = Len(a) + Len(b)
            /\ \A i \in 1 .. Len(a) + Len(b) : r[i] = IF i <= Len(a) THEN a[i] ELSE b[i - Len(a)]
        <5>1. a \in Seq(S) /\ b \in Seq(S)
          BY <2>6, <2>7
        <5> QED
          BY <2>4, <5>1, ConcatProperties
      <4>2. Len(a) = k - 1 /\ Len(a) + Len(b) = Len(s) - 1
        BY <1>1, <2>6, <2>7
      <4> QED
        BY <4>1, <4>2
    <3>2. ASSUME NEW i \in 1 .. Len(s) - 1
          PROVE  r[i] = IF i <= k - 1 THEN s[i] ELSE s[i + 1]
      <4>1. i \in Int /\ k \in Int /\ k >= 1 /\ Len(s) \in Int /\ i >= 1 /\ i <= Len(s) - 1
        BY <1>1
      <4>2. CASE i <= k - 1
        <5>1. r[i] = a[i] /\ i \in 1 .. k - 1
          BY <3>1, <4>1, <4>2
        <5> QED
          BY <2>6, <4>2, <5>1
      <4>3. CASE ~(i <= k - 1)
        <5>1. r[i] = b[i - (k - 1)]
          BY <3>1, <4>3
        <5>2. i - (k - 1) \in 1 .. Len(s) - k /\ k + (i - (k - 1)) = i + 1
          BY <4>1, <4>3
        <5> QED
          BY <2>7, <4>3, <5>1, <5>2
      <4> QED
        BY <4>2, <4>3
    <3> QED
      BY <1>1, <3>1, <3>2, LenProperties
  <2>9. ASSUME NEW i \in DOMAIN r
        PROVE  \E l \in 1 .. Len(s) : l # k /\ r[i] = s[l] /\ l = IF i <= k - 1 THEN i ELSE i + 1
    BY <1>1, <2>8
  <2>10. \A i \in DOMAIN r : r[i] # e /\ \E l \in DOMAIN s : r[i] = s[l]
    BY <1>1, <1>3, <2>9
  <2>11. ASSUME NEW i \in DOMAIN r, NEW j \in DOMAIN r, r[i] = r[j]
         PROVE  i = j
    <3>1. PICK l \in 1 .. Len(s) : r[i] = s[l] /\ l = IF i <= k - 1 THEN i ELSE i + 1
      BY <2>9
    <3>2. PICK m \in 1 .. Len(s) : r[j] = s[m] /\ m = IF j <= k - 1 THEN j ELSE j + 1
      BY <2>9
    <3>3. l = m
      BY <1>1, <2>11, <3>1, <3>2
    <3>4. i \in Int /\ j \in Int
      BY <2>8
    <3> QED
      BY <3>1, <3>2, <3>3, <3>4
  <2> QED
    BY <2>8, <2>10, <2>11
<1> QED
  BY <1>2, <1>3

-----------------------------------------------------------------------------
(***************************************************************************)
(* Moving packets between places. Q and R are what the places hold         *)
(* before and after a step.                                                *)
(***************************************************************************)
Spots(Q) == UNION {{x} \X DOMAIN Q[x] : x \in Place}

Once(Q) == \A v, w \in Spots(Q) : Q[v[1]][v[2]] = Q[w[1]][w[2]] => v = w

HeldIn(Q) == {Q[v[1]][v[2]] : v \in Spots(Q)}

\* Both by place and position.
LEMMA OnceIs ==
    ASSUME NEW Q
    PROVE  /\ Once(Q) <=>
                  \A x, y \in Place : \A i \in DOMAIN Q[x], j \in DOMAIN Q[y] :
                      Q[x][i] = Q[y][j] => x = y /\ i = j
           /\ \A p : p \in HeldIn(Q) <=> \E x \in Place : \E i \in DOMAIN Q[x] : p = Q[x][i]
<1>1. ASSUME NEW x \in Place, NEW i \in DOMAIN Q[x]
      PROVE  <<x, i>> \in Spots(Q)
  BY DEF Spots
<1>2. ASSUME NEW v \in Spots(Q)
      PROVE  \E x \in Place : \E i \in DOMAIN Q[x] : v = <<x, i>>
  BY DEF Spots
<1> HIDE DEF Spots
<1>3. ASSUME Once(Q), NEW x \in Place, NEW y \in Place, NEW i \in DOMAIN Q[x], NEW j \in DOMAIN Q[y],
             Q[x][i] = Q[y][j]
      PROVE  x = y /\ i = j
  <2>1. <<x, i>> \in Spots(Q) /\ <<y, j>> \in Spots(Q)
    BY <1>1
  <2>2. <<x, i>> = <<y, j>>
    BY <1>3, <2>1 DEF Once
  <2> QED
    BY <2>2
<1>4. ASSUME \A x, y \in Place : \A i \in DOMAIN Q[x], j \in DOMAIN Q[y] :
                 Q[x][i] = Q[y][j] => x = y /\ i = j
      PROVE  Once(Q)
  <2> SUFFICES ASSUME NEW v \in Spots(Q), NEW w \in Spots(Q),
                      Q[v[1]][v[2]] = Q[w[1]][w[2]]
               PROVE  v = w
    BY DEF Once
  <2>1. PICK x \in Place : \E i \in DOMAIN Q[x] : v = <<x, i>>
    BY <1>2
  <2>2. PICK i \in DOMAIN Q[x] : v = <<x, i>>
    BY <2>1
  <2>3. PICK y \in Place : \E j \in DOMAIN Q[y] : w = <<y, j>>
    BY <1>2
  <2>4. PICK j \in DOMAIN Q[y] : w = <<y, j>>
    BY <2>3
  <2> QED
    BY <1>4, <2>2, <2>4
<1>5. ASSUME NEW p
      PROVE  p \in HeldIn(Q) <=> \E x \in Place : \E i \in DOMAIN Q[x] : p = Q[x][i]
  <2>1. ASSUME p \in HeldIn(Q) PROVE \E x \in Place : \E i \in DOMAIN Q[x] : p = Q[x][i]
    <3>1. PICK v \in Spots(Q) : p = Q[v[1]][v[2]]
      BY <2>1 DEF HeldIn
    <3> QED
      BY <1>2, <3>1
  <2>2. ASSUME NEW x \in Place, NEW i \in DOMAIN Q[x], p = Q[x][i] PROVE p \in HeldIn(Q)
    <3>1. <<x, i>> \in Spots(Q) /\ p = Q[<<x, i>>[1]][<<x, i>>[2]]
      BY <1>1, <2>2
    <3> QED
      BY <3>1 DEF HeldIn
  <2> QED
    BY <2>1, <2>2
<1> QED
  BY <1>3, <1>4, <1>5

\* Whatever is held was held before, at a spot of its own.
LEMMA Traced ==
    ASSUME NEW Q, NEW R, Once(Q),
           NEW f \in [Spots(R) -> Spots(Q)],
           \A v, w \in Spots(R) : f[v] = f[w] => v = w,
           \A v \in Spots(R) : R[v[1]][v[2]] = Q[f[v][1]][f[v][2]]
    PROVE  Once(R) /\ HeldIn(R) \subseteq HeldIn(Q)
<1>1. ASSUME NEW v \in Spots(R), NEW w \in Spots(R), R[v[1]][v[2]] = R[w[1]][w[2]]
      PROVE  v = w
  <2>1. f[v] = f[w]
    BY <1>1 DEF Once
  <2> QED
    BY <2>1
<1>2. ASSUME NEW p \in HeldIn(R)
      PROVE  p \in HeldIn(Q)
  BY <1>2 DEF HeldIn
<1> QED
  BY <1>1, <1>2 DEF Once

\* The first packet of a goes to the end of b, or is lost.
LEMMA MovesHead ==
    ASSUME NEW Q, NEW R, NEW a \in Place, NEW b \in Place, a # b, Once(Q),
           Q[a] \in Seq(Packet), Q[a] # <<>>, Q[b] \in Seq(Packet),
           \A x \in Place : x # a /\ x # b => R[x] = Q[x],
           R[a] = Tail(Q[a]),
           R[b] = Q[b] \/ R[b] = Append(Q[b], Head(Q[a]))
    PROVE  Once(R) /\ HeldIn(R) \subseteq HeldIn(Q)
<1> DEFINE n == Len(Q[b])
           From(v) == IF v[1] = a THEN <<a, v[2] + 1>>
                      ELSE IF v[1] = b /\ v[2] = n + 1 THEN <<a, 1>>
                      ELSE v
           f == [v \in Spots(R) |-> From(v)]
<1>1. /\ Head(Q[a]) = Q[a][1]
      /\ Head(Q[a]) \in Packet
      /\ DOMAIN Q[a] = 1 .. Len(Q[a])
      /\ Len(Q[a]) \in Nat \ {0}
      /\ DOMAIN R[a] = 1 .. Len(Q[a]) - 1
      /\ \A i \in 1 .. Len(Q[a]) - 1 : R[a][i] = Q[a][i + 1]
  BY FirstIs
<1>2. n \in Nat /\ DOMAIN Q[b] = 1 .. n
  BY LenProperties
<1>3. \/ R[b] = Q[b]
      \/ /\ DOMAIN R[b] = 1 .. n + 1
         /\ \A i \in 1 .. n : R[b][i] = Q[b][i]
         /\ R[b][n + 1] = Q[a][1]
  <2>1. CASE R[b] = Q[b]
    BY <2>1
  <2>2. CASE R[b] = Append(Q[b], Head(Q[a]))
    <3>1. PICK e \in Packet : e = Head(Q[a]) /\ e = Q[a][1]
      BY <1>1
    <3>2. /\ DOMAIN Append(Q[b], e) = 1 .. Len(Q[b]) + 1
          /\ \A i \in 1 .. Len(Q[b]) : Append(Q[b], e)[i] = Q[b][i]
          /\ Append(Q[b], e)[Len(Q[b]) + 1] = e
      BY AppendIs
    <3> QED
      BY <2>2, <3>1, <3>2
  <2> QED
    BY <2>1, <2>2
<1> HIDE DEF n
<1>4. ASSUME NEW v \in Spots(R)
      PROVE  /\ From(v) \in Spots(Q)
             /\ R[v[1]][v[2]] = Q[From(v)[1]][From(v)[2]]
             /\ v[2] \in Int \/ v[1] \notin {a, b}
             /\ v = <<v[1], v[2]>>
  <2>1. v = <<v[1], v[2]>> /\ v[1] \in Place /\ v[2] \in DOMAIN R[v[1]]
    BY DEF Spots
  <2>2. \A x \in Place : \A i \in DOMAIN Q[x] : <<x, i>> \in Spots(Q)
    BY DEF Spots
  <2>3. CASE v[1] = a
    <3>1. PICK i : i = v[2]
      OBVIOUS
    <3>2. /\ i \in 1 .. Len(Q[a]) - 1
          /\ i + 1 \in 1 .. Len(Q[a])
          /\ R[a][i] = Q[a][i + 1]
      <4>1. i \in 1 .. Len(Q[a]) - 1
        BY <1>1, <2>1, <2>3, <3>1
      <4>2. R[a][i] = Q[a][i + 1]
        BY <1>1, <4>1
      <4> QED
        BY <1>1, <4>1, <4>2
    <3>3. From(v) = <<a, i + 1>>
      BY <2>3, <3>1
    <3>4. <<a, i + 1>> \in Spots(Q)
      BY <1>1, <2>2, <3>2
    <3>5. i \in Int
      BY <3>2
    <3>6. From(v)[1] = a /\ From(v)[2] = i + 1
      BY <3>3
    <3> HIDE DEF From
    <3>7. R[v[1]][v[2]] = Q[From(v)[1]][From(v)[2]]
      BY <2>3, <3>1, <3>2, <3>6
    <3> QED
      BY <2>1, <3>1, <3>3, <3>4, <3>5, <3>7
  <2>4. CASE v[1] = b /\ v[2] = n + 1
    <3>1. R[b][n + 1] = Q[a][1] /\ 1 \in DOMAIN Q[a]
      BY <1>1, <1>2, <1>3, <2>1, <2>4
    <3> QED
      BY <1>2, <2>1, <2>2, <2>4, <3>1
  <2>5. CASE v[1] = b /\ v[2] # n + 1
    <3>1. v[2] \in 1 .. n /\ R[b][v[2]] = Q[b][v[2]]
      BY <1>2, <1>3, <2>1, <2>5
    <3> QED
      BY <1>2, <2>1, <2>2, <2>5, <3>1
  <2>6. CASE v[1] # a /\ v[1] # b
    BY <2>1, <2>2, <2>6
  <2> QED
    BY <2>3, <2>4, <2>5, <2>6
<1>5. ASSUME NEW v \in Spots(R), NEW w \in Spots(R), From(v) = From(w)
      PROVE  v = w
  <2> DEFINE x == v[1]
             i == v[2]
             y == w[1]
             j == w[2]
  <2>1. /\ x = a => i \in 1 .. Len(Q[a]) - 1
        /\ y = a => j \in 1 .. Len(Q[a]) - 1
    <3>1. x \in Place /\ i \in DOMAIN R[x] /\ y \in Place /\ j \in DOMAIN R[y]
      BY DEF Spots
    <3> HIDE DEF x, i, y, j
    <3> QED
      BY <1>1, <3>1
  <2>2. v = <<x, i>> /\ w = <<y, j>>
    BY <1>4
  <2> QED
    BY <1>1, <1>2, <1>5, <2>1, <2>2
<1>6. f \in [Spots(R) -> Spots(Q)]
  BY <1>4
<1> HIDE DEF From
<1>7. /\ \A v, w \in Spots(R) : f[v] = f[w] => v = w
      /\ \A v \in Spots(R) : R[v[1]][v[2]] = Q[f[v][1]][f[v][2]]
  BY <1>4, <1>5
<1> HIDE DEF f
<1> QED
  BY <1>6, <1>7, Traced

\* Nothing moves, but packets are lost.
LEMMA KeepsPrefixes ==
    ASSUME NEW Q, NEW R, Once(Q),
           \A x \in Place : \A i \in DOMAIN R[x] : i \in DOMAIN Q[x] /\ R[x][i] = Q[x][i]
    PROVE  Once(R) /\ HeldIn(R) \subseteq HeldIn(Q)
<1> DEFINE f == [v \in Spots(R) |-> v]
<1>1. \A v \in Spots(R) : v \in Spots(Q) /\ R[v[1]][v[2]] = Q[v[1]][v[2]]
  BY DEF Spots
<1>2. /\ f \in [Spots(R) -> Spots(Q)]
      /\ \A v, w \in Spots(R) : f[v] = f[w] => v = w
      /\ \A v \in Spots(R) : R[v[1]][v[2]] = Q[f[v][1]][f[v][2]]
  BY <1>1
<1> HIDE DEF f
<1> QED
  BY <1>2, Traced

\* A packet that is nowhere comes to b.
LEMMA AddsFresh ==
    ASSUME NEW Q, NEW R, NEW b \in Place, NEW p \in Packet, Once(Q),
           p \notin HeldIn(Q),
           Q[b] \in Seq(Packet), R[b] = Append(Q[b], p),
           \A x \in Place : x # b => R[x] = Q[x]
    PROVE  Once(R) /\ HeldIn(R) \subseteq HeldIn(Q) \cup {p}
<1> DEFINE n == Len(Q[b])
<1>1. /\ n \in Nat
      /\ DOMAIN Q[b] = 1 .. n
      /\ DOMAIN R[b] = 1 .. n + 1
      /\ \A i \in 1 .. n : R[b][i] = Q[b][i]
      /\ R[b][n + 1] = p
  BY AppendIs
<1> HIDE DEF n
<1>2. ASSUME NEW x \in Place, NEW i \in DOMAIN R[x]
      PROVE  \/ i \in DOMAIN Q[x] /\ R[x][i] = Q[x][i] /\ R[x][i] # p
             \/ x = b /\ i = n + 1 /\ R[x][i] = p
  <2>1. \A j \in DOMAIN Q[x] : Q[x][j] # p
    BY OnceIs
  <2>2. CASE x = b
    <3>1. i \in 1 .. n \/ i = n + 1
      BY <1>1, <1>2, <2>2
    <3>2. CASE i \in 1 .. n
      BY <1>1, <2>1, <2>2, <3>2
    <3>3. CASE i = n + 1
      BY <1>1, <2>2, <3>3
    <3> QED
      BY <3>1, <3>2, <3>3
  <2>3. CASE x # b
    BY <1>2, <2>1, <2>3
  <2> QED
    BY <2>2, <2>3
<1>3. \A x, y \in Place : \A i \in DOMAIN Q[x], j \in DOMAIN Q[y] :
          Q[x][i] = Q[y][j] => x = y /\ i = j
  BY OnceIs
<1>4. ASSUME NEW x \in Place, NEW y \in Place, NEW i \in DOMAIN R[x], NEW j \in DOMAIN R[y],
             R[x][i] = R[y][j]
      PROVE  x = y /\ i = j
  BY <1>2, <1>3, <1>4
<1>5. ASSUME NEW q \in HeldIn(R)
      PROVE  q \in HeldIn(Q) \/ q = p
  <2>1. PICK x \in Place : \E i \in DOMAIN R[x] : q = R[x][i]
    BY OnceIs
  <2> QED
    BY <1>2, <2>1, OnceIs
<1> QED
  BY <1>4, <1>5, OnceIs

-----------------------------------------------------------------------------
(***************************************************************************)
(* What each place holds.                                                  *)
(***************************************************************************)
LEMMA PacketsOf ==
    ASSUME NEW s \in Seq(TaskSet)
    PROVE  /\ Packets(s) \in Seq(Packet)
           /\ s # <<>> => /\ Packets(s) # <<>>
                          /\ Head(Packets(s)) = Head(s).packet
                          /\ Packets(Tail(s)) = Tail(Packets(s))
           /\ \A e \in TaskSet : Packets(Append(s, e)) = Append(Packets(s), e.packet)
<1> DEFINE p == Packets(s)
<1>1. Len(s) \in Nat /\ DOMAIN s = 1 .. Len(s) /\ \A i \in 1 .. Len(s) : s[i] \in TaskSet
  BY LenProperties, ElementOfSeq
<1>2. \A e \in TaskSet : e.packet \in Packet
  BY DEF TaskSet
<1>3. /\ p \in Seq(Packet)
      /\ Len(p) = Len(s)
      /\ \A i \in 1 .. Len(s) : p[i] = s[i].packet
  <2>1. p = [i \in 1 .. Len(s) |-> s[i].packet]
    BY <1>1 DEF Packets
  <2>2. \A i \in 1 .. Len(s) : s[i].packet \in Packet
    BY <1>1, <1>2
  <2> HIDE DEF p
  <2> QED
    BY <1>1, <2>1, <2>2
<1> HIDE DEF p
<1>4. ASSUME s # <<>>
      PROVE  p # <<>> /\ Head(p) = Head(s).packet /\ Packets(Tail(s)) = Tail(p)
  <2>1. Len(s) # 0
    BY <1>4, EmptySeq
  <2>2. p # <<>>
    BY <1>3, <2>1, EmptySeq
  <2>3. /\ Head(s) = s[1]
        /\ DOMAIN Tail(s) = 1 .. Len(s) - 1
        /\ \A i \in 1 .. Len(s) - 1 : Tail(s)[i] = s[i + 1]
    BY <1>4, FirstIs
  <2>4. /\ Head(p) = p[1]
        /\ Tail(p) \in Seq(Packet)
        /\ DOMAIN Tail(p) = 1 .. Len(s) - 1
        /\ \A i \in 1 .. Len(s) - 1 : Tail(p)[i] = p[i + 1]
    BY <1>3, <2>2, FirstIs
  <2>5. Head(p) = Head(s).packet
    BY <1>1, <1>3, <2>1, <2>3, <2>4
  <2>6. \A i \in 1 .. Len(s) - 1 : Tail(p)[i] = Tail(s)[i].packet
    BY <1>1, <1>3, <2>3, <2>4
  <2>7. Tail(p) = [i \in 1 .. Len(s) - 1 |-> Tail(p)[i]]
    BY <2>4, LenProperties
  <2>8. Packets(Tail(s)) = Tail(p)
    BY <2>3, <2>6, <2>7 DEF Packets
  <2> QED
    BY <2>2, <2>5, <2>8
<1>5. ASSUME NEW e \in TaskSet
      PROVE  Packets(Append(s, e)) = Append(p, e.packet)
  <2> DEFINE u == Append(s, e)
             q == Append(p, e.packet)
  <2>1. /\ DOMAIN u = 1 .. Len(s) + 1
        /\ \A i \in 1 .. Len(s) : u[i] = s[i]
        /\ u[Len(s) + 1] = e
    BY AppendIs
  <2>2. /\ q \in Seq(Packet)
        /\ DOMAIN q = 1 .. Len(s) + 1
        /\ \A i \in 1 .. Len(s) : q[i] = p[i]
        /\ q[Len(s) + 1] = e.packet
    BY <1>2, <1>3, AppendIs
  <2> HIDE DEF u, q
  <2>3. \A i \in 1 .. Len(s) + 1 : q[i] = u[i].packet
    BY <1>1, <1>3, <2>1, <2>2
  <2>4. q = [i \in 1 .. Len(s) + 1 |-> q[i]]
    BY <2>2, LenProperties
  <2> QED
    BY <2>1, <2>3, <2>4 DEF Packets, u, q
<1> QED
  BY <1>3, <1>4, <1>5 DEF p

LEMMA PlacesAre ==
    /\ \A n \in Node : /\ <<"sendQueue", n>> \in Place
                       /\ <<"inHand", n>> \in Place
                       /\ <<"receiveQueue", n>> \in Place
                       /\ <<"received", n>> \in Place
    /\ \A t \in Thread : <<"queue", t>> \in Place /\ <<"current", t>> \in Place
    /\ \A t \in Thread, n \in Node : <<"wire", t, n>> \in Place
    /\ \A x \in Place :
         \/ \E n \in Node : x \in {<<"sendQueue", n>>, <<"inHand", n>>, <<"receiveQueue", n>>,
                                   <<"received", n>>}
         \/ \E t \in Thread : x \in {<<"queue", t>>, <<"current", t>>}
         \/ \E t \in Thread, n \in Node : x = <<"wire", t, n>>
  BY DEF Place

HandPackets(hand) == IF hand = Nothing THEN <<>> ELSE <<hand.task.packet>>

HoldingsKnown ==
    /\ \A n \in Node : /\ Holdings[<<"sendQueue", n>>] = Packets(sendQueue[n])
                       /\ Holdings[<<"inHand", n>>] = HandPackets(inHand[n])
                       /\ Holdings[<<"receiveQueue", n>>] = receiveQueue[n]
                       /\ Holdings[<<"received", n>>] = received[n]
    /\ \A t \in Thread : /\ Holdings[<<"queue", t>>] = Packets(thread[t].queue)
                         /\ Holdings[<<"current", t>>] = Packets(AtMostOne(thread[t].current))
    /\ \A t \in Thread, n \in Node : Holdings[<<"wire", t, n>>] = wire[t][n]

LEMMA HoldingsAre == HoldingsKnown
  BY PlacesAre DEF HoldingsKnown, Holdings, HandPackets

\* A step changes what a place holds only where it changes a variable.
LEMMA SameElsewhere ==
    ASSUME NEW X,
           \A n \in Node : <<"sendQueue", n>> \in X \/ sendQueue'[n] = sendQueue[n],
           \A n \in Node : <<"inHand", n>> \in X \/ inHand'[n] = inHand[n],
           \A n \in Node : <<"receiveQueue", n>> \in X \/ receiveQueue'[n] = receiveQueue[n],
           \A n \in Node : <<"received", n>> \in X \/ received'[n] = received[n],
           \A t \in Thread : <<"queue", t>> \in X \/ thread'[t].queue = thread[t].queue,
           \A t \in Thread : <<"current", t>> \in X \/ thread'[t].current = thread[t].current,
           \A t \in Thread, n \in Node : <<"wire", t, n>> \in X \/ wire'[t][n] = wire[t][n]
    PROVE  \A x \in Place : x \notin X => Holdings'[x] = Holdings[x]
<1> SUFFICES ASSUME NEW x \in Place, x \notin X PROVE Holdings'[x] = Holdings[x]
  OBVIOUS
<1>1. HoldingsKnown /\ HoldingsKnown'
  BY HoldingsAre, PTL
<1>2. ASSUME NEW n \in Node
      PROVE  /\ x = <<"sendQueue", n>> => Holdings'[x] = Holdings[x]
             /\ x = <<"inHand", n>> => Holdings'[x] = Holdings[x]
             /\ x = <<"receiveQueue", n>> => Holdings'[x] = Holdings[x]
             /\ x = <<"received", n>> => Holdings'[x] = Holdings[x]
  <2>1. /\ Holdings[<<"sendQueue", n>>] = Packets(sendQueue[n])
        /\ Holdings[<<"inHand", n>>] = HandPackets(inHand[n])
        /\ Holdings[<<"receiveQueue", n>>] = receiveQueue[n]
        /\ Holdings[<<"received", n>>] = received[n]
    BY <1>1 DEF HoldingsKnown
  <2>2. Holdings'[<<"sendQueue", n>>] = Packets(sendQueue'[n])
    BY <1>1 DEF HoldingsKnown
  <2>3. Holdings'[<<"inHand", n>>] = HandPackets(inHand'[n])
    BY <1>1 DEF HoldingsKnown
  <2>4. Holdings'[<<"receiveQueue", n>>] = receiveQueue'[n]
    BY <1>1 DEF HoldingsKnown
  <2>5. Holdings'[<<"received", n>>] = received'[n]
    BY <1>1 DEF HoldingsKnown
  <2> QED
    BY <2>1, <2>2, <2>3, <2>4, <2>5
<1>3. ASSUME NEW t \in Thread
      PROVE  /\ x = <<"queue", t>> => Holdings'[x] = Holdings[x]
             /\ x = <<"current", t>> => Holdings'[x] = Holdings[x]
  <2>1. /\ Holdings[<<"queue", t>>] = Packets(thread[t].queue)
        /\ Holdings[<<"current", t>>] = Packets(AtMostOne(thread[t].current))
    BY <1>1 DEF HoldingsKnown
  <2>2. Holdings'[<<"queue", t>>] = Packets(thread'[t].queue)
    BY <1>1 DEF HoldingsKnown
  <2>3. Holdings'[<<"current", t>>] = Packets(AtMostOne(thread'[t].current))
    BY <1>1 DEF HoldingsKnown
  <2> QED
    BY <2>1, <2>2, <2>3
<1>4. ASSUME NEW t \in Thread, NEW n \in Node, x = <<"wire", t, n>>
      PROVE  Holdings'[x] = Holdings[x]
  BY <1>1, <1>4 DEF HoldingsKnown
<1> QED
  BY <1>2, <1>3, <1>4, PlacesAre

LEMMA HeldAfter ==
    ASSUME HeldWereSent, sent \subseteq sent', Once(Holdings'),
           \A p \in HeldIn(Holdings') : p \in HeldIn(Holdings) \/ p \in sent'
    PROVE  HeldOnce' /\ HeldWereSent'
<1>1. HeldOnce'
  BY DEF HeldOnce, Once, Positions, Spots
<1>2. HeldIn(Holdings) \subseteq sent
  BY DEF HeldWereSent, HeldIn, Positions, Spots
<1>3. HeldIn(Holdings') \subseteq sent'
  BY <1>2
<1>4. HeldWereSent'
  BY <1>3 DEF HeldWereSent, HeldIn, Positions, Spots
<1> QED
  BY <1>1, <1>4

LEMMA MoveStep ==
    ASSUME HeldOnce, HeldWereSent, sent' = sent,
           NEW a \in Place, NEW b \in Place, a # b,
           Holdings[a] \in Seq(Packet), Holdings[a] # <<>>, Holdings[b] \in Seq(Packet),
           Holdings'[a] = Tail(Holdings[a]),
           Holdings'[b] = Holdings[b] \/ Holdings'[b] = Append(Holdings[b], Head(Holdings[a])),
           \A x \in Place : x \notin {a, b} => Holdings'[x] = Holdings[x]
    PROVE  HeldOnce' /\ HeldWereSent'
<1>1. Once(Holdings)
  BY DEF HeldOnce, Once, Positions, Spots
<1>2. Once(Holdings') /\ HeldIn(Holdings') \subseteq HeldIn(Holdings)
  BY <1>1, MovesHead
<1> QED
  BY <1>2, HeldAfter

LEMMA LossStep ==
    ASSUME HeldOnce, HeldWereSent, sent' = sent,
           \A x \in Place : \A i \in DOMAIN Holdings'[x] :
               i \in DOMAIN Holdings[x] /\ Holdings'[x][i] = Holdings[x][i]
    PROVE  HeldOnce' /\ HeldWereSent'
<1>1. Once(Holdings)
  BY DEF HeldOnce, Once, Positions, Spots
<1>2. Once(Holdings') /\ HeldIn(Holdings') \subseteq HeldIn(Holdings)
  BY <1>1, KeepsPrefixes
<1> QED
  BY <1>2, HeldAfter

\* A step that moves no packet keeps the packets where they are.
LEMMA SameHeld ==
    ASSUME IInv, UNCHANGED <<sendQueue, inHand, thread, wire, receiveQueue, sent, received>>
    PROVE  HeldOnce' /\ HeldWereSent'
<1>1. PICK X : X = {}
  OBVIOUS
<1>2. \A x \in Place : x \notin X => Holdings'[x] = Holdings[x]
  BY SameElsewhere
<1> QED
  BY <1>1, <1>2, LossStep DEF IInv

LEMMA RegisteredAreThreads ==
    ASSUME TypeOK
    PROVE  \A n, d \in Node : ToSet(senders[n][d]) \subseteq Thread
<1> SUFFICES ASSUME NEW n \in Node, NEW d \in Node PROVE ToSet(senders[n][d]) \subseteq Thread
  OBVIOUS
<1>1. senders[n][d] \in Seq(Thread)
  BY DEF TypeOK
<1> QED
  BY <1>1, LenProperties, ElementOfSeq DEF ToSet

LEMMA QueueUpdate ==
    ASSUME TypeOK, NEW t \in Thread, NEW q \in Seq(TaskSet),
           thread' = [thread EXCEPT ![t].queue = q]
    PROVE  /\ thread' \in [Thread -> ThreadSet]
           /\ thread'[t].queue = q
           /\ thread'[t].status = thread[t].status
           /\ thread'[t].node = thread[t].node
           /\ thread'[t].dst = thread[t].dst
           /\ thread'[t].current = thread[t].current
           /\ thread'[t].connection = thread[t].connection
           /\ \A u \in Thread : u # t => thread'[u] = thread[u]
<1>1. thread \in [Thread -> ThreadSet] /\ thread[t] \in ThreadSet
  BY DEF TypeOK
<1> DEFINE new == [thread[t] EXCEPT !.queue = q]
<1>2. /\ new \in ThreadSet
      /\ new.queue = q
      /\ new.status = thread[t].status
      /\ new.node = thread[t].node
      /\ new.dst = thread[t].dst
      /\ new.current = thread[t].current
      /\ new.connection = thread[t].connection
  BY <1>1 DEF ThreadSet
<1>3. thread' = [thread EXCEPT ![t] = new]
  BY <1>1
<1> HIDE DEF new
<1> QED
  BY <1>1, <1>2, <1>3

LEMMA HoldingsTypes ==
    ASSUME TypeOK
    PROVE  \A x \in Place : Holdings[x] \in Seq(Packet)
<1>1. HoldingsKnown
  BY HoldingsAre
<1>2. ASSUME NEW n \in Node
      PROVE  /\ Holdings[<<"sendQueue", n>>] \in Seq(Packet)
             /\ Holdings[<<"inHand", n>>] \in Seq(Packet)
             /\ Holdings[<<"receiveQueue", n>>] \in Seq(Packet)
             /\ Holdings[<<"received", n>>] \in Seq(Packet)
  <2>1. /\ sendQueue[n] \in Seq(TaskSet)
        /\ inHand[n] \in HandSet \cup {Nothing}
        /\ receiveQueue[n] \in Seq(Packet)
        /\ received[n] \in Seq(Packet)
    BY DEF TypeOK
  <2>2. HandPackets(inHand[n]) \in Seq(Packet)
    BY <2>1 DEF HandPackets, HandSet, TaskSet
  <2> QED
    BY <1>1, <2>1, <2>2, PacketsOf DEF HoldingsKnown
<1>3. ASSUME NEW t \in Thread
      PROVE  /\ Holdings[<<"queue", t>>] \in Seq(Packet)
             /\ Holdings[<<"current", t>>] \in Seq(Packet)
  <2>1. thread[t].queue \in Seq(TaskSet) /\ thread[t].current \in TaskSet \cup {Nothing}
    BY DEF TypeOK, ThreadSet
  <2>2. AtMostOne(thread[t].current) \in Seq(TaskSet)
    BY <2>1 DEF AtMostOne
  <2> QED
    BY <1>1, <2>1, <2>2, PacketsOf DEF HoldingsKnown
<1>4. ASSUME NEW t \in Thread, NEW n \in Node
      PROVE  Holdings[<<"wire", t, n>>] \in Seq(Packet)
  BY <1>1 DEF HoldingsKnown, TypeOK
<1> QED
  BY <1>2, <1>3, <1>4, PlacesAre

-----------------------------------------------------------------------------
(***************************************************************************)
(* The process and the dispatch thread.                                    *)
(***************************************************************************)
LEMMA SendPacketInv ==
    ASSUME IInv, NEW p \in Packet, SendPacket(p)
    PROVE  IInv'
<1> DEFINE n == p.src
           task == Task(p, 0)
<1>1. /\ n \in Node
      /\ task \in TaskSet
      /\ task.packet = p
  BY IoAssumption DEF Task, TaskSet
<1>2. /\ TypeOK
      /\ sendQueue' = [sendQueue EXCEPT ![n] = Append(@, task)]
      /\ UNCHANGED <<inHand, senders, thread, wire, link, accepting, receiveQueue, received>>
      /\ p \notin sent
      /\ sent' = sent \cup {p}
  BY DEF IInv, SendPacket, threadVars, wireVars
<1> HIDE DEF n, task
<1>3. /\ sendQueue[n] \in Seq(TaskSet)
      /\ sendQueue'[n] = Append(sendQueue[n], task)
      /\ \A m \in Node : m # n => sendQueue'[m] = sendQueue[m]
      /\ sendQueue' \in [Node -> Seq(TaskSet)]
  BY <1>1, <1>2 DEF TypeOK
<1>4. TypeOK'
  BY <1>2, <1>3 DEF TypeOK
<1>5. HeldOnce' /\ HeldWereSent'
  <2>1. HoldingsKnown /\ HoldingsKnown'
    BY HoldingsAre, PTL
  <2>2. Holdings[<<"sendQueue", n>>] = Packets(sendQueue[n])
    BY <1>1, <2>1 DEF HoldingsKnown
  <2>3. Holdings'[<<"sendQueue", n>>] = Packets(sendQueue'[n])
    BY <1>1, <2>1 DEF HoldingsKnown
  <2>4. Holdings'[<<"sendQueue", n>>] = Append(Holdings[<<"sendQueue", n>>], p)
    BY <1>1, <1>3, <2>2, <2>3, PacketsOf
  <2>5. \A x \in Place : x \notin {<<"sendQueue", n>>} => Holdings'[x] = Holdings[x]
    BY <1>2, <1>3, SameElsewhere
  <2>6. Once(Holdings) /\ HeldIn(Holdings) \subseteq sent
    BY DEF IInv, HeldOnce, HeldWereSent, Once, HeldIn, Positions, Spots
  <2>7. Holdings[<<"sendQueue", n>>] \in Seq(Packet) /\ <<"sendQueue", n>> \in Place
    BY <1>1, <1>2, HoldingsTypes, PlacesAre
  <2>8. Once(Holdings') /\ HeldIn(Holdings') \subseteq HeldIn(Holdings) \cup {p}
    <3>1. p \notin HeldIn(Holdings)
      BY <1>2, <2>6
    <3>2. PICK b \in Place : b = <<"sendQueue", n>>
      BY <2>7
    <3>3. /\ Holdings[b] \in Seq(Packet)
          /\ Holdings'[b] = Append(Holdings[b], p)
          /\ \A x \in Place : x # b => Holdings'[x] = Holdings[x]
      BY <2>4, <2>5, <2>7, <3>2
    <3> QED
      BY <2>6, <3>1, <3>3, AddsFresh
  <2> QED
    BY <1>2, <2>8, HeldAfter DEF IInv
<1>6. /\ ThreadsKnown'
      /\ LinksMade'
      /\ FoundSendersServe'
      /\ RegisteredOnce'
  BY <1>2 DEF IInv, ThreadsKnown, LinksMade, FoundSendersServe, RegisteredOnce
<1>7. TasksAddressed' /\ PacketsAddressed'
  BY <1>2 DEF IInv, TasksAddressed, PacketsAddressed
<1> QED
  BY <1>4, <1>5, <1>6, <1>7 DEF IInv

LEMMA ReceivePacketInv ==
    ASSUME IInv, NEW n \in Node, ReceivePacket(n)
    PROVE  IInv'
<1>1. /\ TypeOK
      /\ receiveQueue[n] # <<>>
      /\ receiveQueue' = [receiveQueue EXCEPT ![n] = Tail(@)]
      /\ received' = [received EXCEPT ![n] = Append(@, Head(receiveQueue[n]))]
      /\ UNCHANGED <<sendQueue, inHand, senders, thread, wire, link, accepting, sent>>
  BY DEF IInv, ReceivePacket, threadVars, wireVars
<1>2. /\ receiveQueue[n] \in Seq(Packet)
      /\ received[n] \in Seq(Packet)
      /\ receiveQueue'[n] = Tail(receiveQueue[n])
      /\ received'[n] = Append(received[n], Head(receiveQueue[n]))
      /\ \A m \in Node : m # n => receiveQueue'[m] = receiveQueue[m] /\ received'[m] = received[m]
  BY <1>1 DEF TypeOK
<1>3. /\ Head(receiveQueue[n]) \in Packet
      /\ Tail(receiveQueue[n]) \in Seq(Packet)
      /\ \A i \in DOMAIN Tail(receiveQueue[n]) :
            i + 1 \in DOMAIN receiveQueue[n] /\ Tail(receiveQueue[n])[i] = receiveQueue[n][i + 1]
  BY <1>1, <1>2, FirstIs
<1>4. TypeOK'
  BY <1>1, <1>2, <1>3 DEF TypeOK
<1>5. HeldOnce' /\ HeldWereSent'
  <2> DEFINE a == <<"receiveQueue", n>>
             b == <<"received", n>>
  <2>1. HoldingsKnown /\ HoldingsKnown'
    BY HoldingsAre, PTL
  <2>2. Holdings[a] = receiveQueue[n] /\ Holdings[b] = received[n]
    BY <2>1 DEF HoldingsKnown
  <2>3. Holdings'[a] = receiveQueue'[n] /\ Holdings'[b] = received'[n]
    BY <2>1 DEF HoldingsKnown
  <2>4. \A x \in Place : x \notin {a, b} => Holdings'[x] = Holdings[x]
    BY <1>1, <1>2, SameElsewhere
  <2>5. a \in Place /\ b \in Place /\ a # b
    BY PlacesAre
  <2> HIDE DEF a, b
  <2>6. /\ Holdings[a] \in Seq(Packet) /\ Holdings[a] # <<>> /\ Holdings[b] \in Seq(Packet)
        /\ Holdings'[a] = Tail(Holdings[a])
        /\ Holdings'[b] = Append(Holdings[b], Head(Holdings[a]))
    BY <1>1, <1>2, <2>2, <2>3
  <2>7. HeldOnce /\ HeldWereSent /\ sent' = sent
    BY <1>1 DEF IInv
  <2> QED
    BY <2>4, <2>5, <2>6, <2>7, MoveStep
<1>6. /\ ThreadsKnown'
      /\ LinksMade'
      /\ FoundSendersServe'
      /\ RegisteredOnce'
      /\ TasksAddressed'
  BY <1>1 DEF IInv, ThreadsKnown, LinksMade, FoundSendersServe, RegisteredOnce, TasksAddressed
<1>7. PacketsAddressed'
  BY <1>1, <1>2, <1>3 DEF IInv, PacketsAddressed
<1> QED
  BY <1>4, <1>5, <1>6, <1>7 DEF IInv

\* A thread that starts is registered first, and holds nothing.
LEMMA StartEffect ==
    ASSUME TypeOK, NEW t \in Thread, NEW n \in Node, NEW d \in Node, NEW connection \in Thread,
           NEW status \in {"connecting", "sending"}, Start(t, n, d, status, connection)
    PROVE  /\ thread' \in [Thread -> ThreadSet]
           /\ senders' \in [Node -> [Node -> Seq(Thread)]]
           /\ thread[t].status = "unstarted"
           /\ thread'[t].status = status
           /\ thread'[t].node = n
           /\ thread'[t].dst = d
           /\ thread'[t].queue = <<>>
           /\ thread'[t].current = Nothing
           /\ thread'[t].connection = connection
           /\ \A u \in Thread : u # t => thread'[u] = thread[u]
           /\ DOMAIN senders'[n][d] = 1 .. Len(senders[n][d]) + 1
           /\ senders'[n][d][1] = t
           /\ DOMAIN senders[n][d] = 1 .. Len(senders[n][d])
           /\ Len(senders[n][d]) \in Nat
           /\ \A i \in 1 .. Len(senders[n][d]) : senders'[n][d][i + 1] = senders[n][d][i]
           /\ \A m, e \in Node : <<m, e>> # <<n, d>> => senders'[m][e] = senders[m][e]
<1> DEFINE new == [status |-> status, node |-> n, dst |-> d, queue |-> <<>>,
                   current |-> Nothing, connection |-> connection]
<1>1. /\ thread[t].status = "unstarted"
      /\ thread' = [thread EXCEPT ![t] = new]
      /\ senders' = [senders EXCEPT ![n][d] = <<t>> \o @]
  BY DEF Start, Fresh
<1>2. /\ new.status = status /\ new.node = n /\ new.dst = d /\ new.queue = <<>>
      /\ new.current = Nothing /\ new.connection = connection
  OBVIOUS
<1>3. new \in ThreadSet
  BY DEF ThreadSet, Status
<1>4. thread' \in [Thread -> ThreadSet] /\ thread'[t] = new
      /\ \A u \in Thread : u # t => thread'[u] = thread[u]
  <2> HIDE DEF new
  <2> QED
    BY <1>1, <1>3 DEF TypeOK
<1>5. senders[n][d] \in Seq(Thread) /\ <<t>> \in Seq(Thread)
  BY DEF TypeOK
<1>6. /\ <<t>> \o senders[n][d] \in Seq(Thread)
      /\ Len(<<t>> \o senders[n][d]) = 1 + Len(senders[n][d])
      /\ \A i \in 1 .. 1 + Len(senders[n][d]) : (<<t>> \o senders[n][d])[i] =
            IF i <= 1 THEN <<t>>[i] ELSE senders[n][d][i - 1]
  BY <1>5, ConcatProperties
<1>7. /\ senders' \in [Node -> [Node -> Seq(Thread)]]
      /\ senders'[n][d] = <<t>> \o senders[n][d]
      /\ \A m, e \in Node : <<m, e>> # <<n, d>> => senders'[m][e] = senders[m][e]
  BY <1>1, <1>6 DEF TypeOK
<1>8. /\ DOMAIN senders[n][d] = 1 .. Len(senders[n][d])
      /\ Len(senders[n][d]) \in Nat
  BY <1>5, LenProperties
<1>9. DOMAIN senders'[n][d] = 1 .. Len(senders[n][d]) + 1
  <2>1. DOMAIN (<<t>> \o senders[n][d]) = 1 .. Len(<<t>> \o senders[n][d])
    BY <1>6, LenProperties
  <2> QED
    BY <1>6, <1>7, <1>8, <2>1
<1>10. senders'[n][d][1] = t
  BY <1>6, <1>7, <1>8
<1>11. ASSUME NEW i \in 1 .. Len(senders[n][d])
       PROVE  senders'[n][d][i + 1] = senders[n][d][i]
  <2>1. i + 1 \in 1 .. 1 + Len(senders[n][d]) /\ ~(i + 1 <= 1) /\ i + 1 - 1 = i
    BY <1>8
  <2> DEFINE q == <<t>> \o senders[n][d]
             s == senders[n][d]
  <2>2. /\ \A k \in 1 .. 1 + Len(s) : q[k] = IF k <= 1 THEN <<t>>[k] ELSE s[k - 1]
        /\ senders'[n][d] = q
    BY <1>6, <1>7
  <2> HIDE DEF q, s
  <2>3. i + 1 \in 1 .. 1 + Len(s)
    BY <2>1 DEF s
  <2>4. q[i + 1] = s[i]
    BY <2>1, <2>2, <2>3
  <2> QED
    BY <2>2, <2>4 DEF s
<1> QED
  BY <1>1, <1>2, <1>4, <1>7, <1>8, <1>9, <1>10, <1>11

LEMMA StartKeeps ==
    ASSUME IInv, NEW t \in Thread, NEW n \in Node, NEW d \in Node, NEW connection \in Thread,
           NEW status \in {"connecting", "sending"}, Start(t, n, d, status, connection),
           UNCHANGED <<sendQueue, wire, receiveQueue, sent, received>>,
           \A m \in Node : HandPackets(inHand'[m]) \in {HandPackets(inHand[m]), <<>>}
    PROVE  /\ ThreadsKnown' /\ FoundSendersServe' /\ RegisteredOnce'
           /\ HeldOnce' /\ HeldWereSent' /\ PacketsAddressed'
           /\ \A u \in Thread : \A i \in DOMAIN thread'[u].queue :
                 thread'[u].queue[i].packet.dst = thread'[u].dst
<1>1. /\ thread[t].status = "unstarted"
      /\ thread'[t].status = status
      /\ thread'[t].node = n
      /\ thread'[t].dst = d
      /\ thread'[t].queue = <<>>
      /\ thread'[t].current = Nothing
      /\ thread'[t].connection = connection
      /\ \A u \in Thread : u # t => thread'[u] = thread[u]
  BY StartEffect DEF IInv
<1>2. /\ DOMAIN senders'[n][d] = 1 .. Len(senders[n][d]) + 1
      /\ senders'[n][d][1] = t
      /\ DOMAIN senders[n][d] = 1 .. Len(senders[n][d])
      /\ Len(senders[n][d]) \in Nat
      /\ \A i \in 1 .. Len(senders[n][d]) : senders'[n][d][i + 1] = senders[n][d][i]
      /\ \A m, e \in Node : <<m, e>> # <<n, d>> => senders'[m][e] = senders[m][e]
  BY StartEffect DEF IInv
<1>3. \A m, e \in Node : \A i \in DOMAIN senders[m][e] :
        /\ senders[m][e][i] \in Thread
        /\ thread[senders[m][e][i]].status \in {"connecting", "sending", "failed"}
        /\ thread[senders[m][e][i]].node = m
        /\ thread[senders[m][e][i]].dst = e
        /\ senders[m][e][i] # t
  <2>1. SUFFICES ASSUME NEW m \in Node, NEW e \in Node, NEW i \in DOMAIN senders[m][e]
                 PROVE  /\ senders[m][e][i] \in Thread
                        /\ senders[m][e][i] \in ToSet(senders[m][e])
    BY <1>1 DEF IInv, FoundSendersServe
  <2>2. senders[m][e] \in Seq(Thread)
    BY DEF IInv, TypeOK
  <2> QED
    BY <2>2, LenProperties DEF ToSet
<1>4. ThreadsKnown'
  BY <1>1 DEF IInv, ThreadsKnown
<1>5. FoundSendersServe'
  <2> SUFFICES ASSUME NEW m \in Node, NEW e \in Node, NEW i \in DOMAIN senders'[m][e]
               PROVE  /\ thread'[senders'[m][e][i]].status \in {"connecting", "sending", "failed"}
                      /\ thread'[senders'[m][e][i]].node = m
                      /\ thread'[senders'[m][e][i]].dst = e
    BY DEF FoundSendersServe, ToSet
  <2>1. CASE <<m, e>> # <<n, d>>
    BY <1>1, <1>2, <1>3, <2>1
  <2>2. CASE <<m, e>> = <<n, d>> /\ i = 1
    BY <1>1, <1>2, <2>2
  <2>3. CASE <<m, e>> = <<n, d>> /\ i # 1
    <3>1. i - 1 \in 1 .. Len(senders[n][d]) /\ i - 1 + 1 = i
      BY <1>2, <2>3
    <3>2. senders'[n][d][i] = senders[n][d][i - 1]
      BY <1>2, <3>1
    <3> QED
      BY <1>1, <1>2, <1>3, <2>3, <3>1, <3>2
  <2> QED
    BY <2>1, <2>2, <2>3
<1>6. RegisteredOnce'
  <2> SUFFICES ASSUME NEW m \in Node, NEW e \in Node, NEW i \in DOMAIN senders'[m][e],
                      NEW j \in DOMAIN senders'[m][e], senders'[m][e][i] = senders'[m][e][j]
               PROVE  i = j
    BY DEF RegisteredOnce
  <2>1. CASE <<m, e>> # <<n, d>>
    BY <1>2, <2>1 DEF IInv, RegisteredOnce
  <2>2. CASE <<m, e>> = <<n, d>>
    <3>1. ASSUME NEW k \in DOMAIN senders'[n][d], k # 1
          PROVE  /\ k - 1 \in DOMAIN senders[n][d]
                 /\ senders'[n][d][k] = senders[n][d][k - 1]
                 /\ senders'[n][d][k] # t
                 /\ k \in Int
      <4>1. k - 1 \in 1 .. Len(senders[n][d]) /\ k - 1 + 1 = k /\ k \in Int
        BY <1>2, <3>1
      <4>2. senders'[n][d][k] = senders[n][d][k - 1]
        BY <1>2, <4>1
      <4> QED
        BY <1>2, <1>3, <4>1, <4>2
    <3>2. CASE i = 1 \/ j = 1
      BY <1>2, <2>2, <3>1, <3>2
    <3>3. CASE i # 1 /\ j # 1
      <4>1. i - 1 = j - 1
        BY <2>2, <3>1, <3>3 DEF IInv, RegisteredOnce
      <4> QED
        BY <2>2, <3>1, <3>3, <4>1
    <3> QED
      BY <3>2, <3>3
  <2> QED
    BY <2>1, <2>2
<1>7. HeldOnce' /\ HeldWereSent'
  <2>1. HoldingsKnown /\ HoldingsKnown'
    BY HoldingsAre, PTL
  <2> DEFINE X == {<<"queue", t>>, <<"current", t>>} \cup {<<"inHand", m>> : m \in Node}
  <2>2. \A x \in Place : x \notin X => Holdings'[x] = Holdings[x]
    BY <1>1, SameElsewhere
  <2>3. ASSUME NEW m \in Node
        PROVE  Holdings'[<<"inHand", m>>] \in {Holdings[<<"inHand", m>>], <<>>}
    <3>1. Holdings[<<"inHand", m>>] = HandPackets(inHand[m])
      BY <2>1 DEF HoldingsKnown
    <3>2. Holdings'[<<"inHand", m>>] = HandPackets(inHand'[m])
      BY <2>1 DEF HoldingsKnown
    <3> QED
      BY <3>1, <3>2
  <2>4. Holdings'[<<"queue", t>>] = <<>> /\ Holdings'[<<"current", t>>] = <<>>
    <3>1. Packets(<<>>) = <<>> /\ AtMostOne(Nothing) = <<>>
      BY DEF Packets, AtMostOne
    <3>2. Holdings'[<<"queue", t>>] = Packets(thread'[t].queue)
      BY <2>1 DEF HoldingsKnown
    <3>3. Holdings'[<<"current", t>>] = Packets(AtMostOne(thread'[t].current))
      BY <2>1 DEF HoldingsKnown
    <3> QED
      BY <1>1, <3>1, <3>2, <3>3
  <2>5. \A x \in Place : Holdings'[x] = Holdings[x] \/ Holdings'[x] = <<>>
    BY <2>2, <2>3, <2>4
  <2>6. HeldOnce /\ HeldWereSent /\ DOMAIN <<>> = {}
    BY DEF IInv
  <2> QED
    BY <2>5, <2>6, LossStep
<1>8. PacketsAddressed'
  BY DEF IInv, PacketsAddressed
<1>9. ASSUME NEW u \in Thread, NEW i \in DOMAIN thread'[u].queue
      PROVE  thread'[u].queue[i].packet.dst = thread'[u].dst
  BY <1>1 DEF IInv, TasksAddressed
<1> QED
  BY <1>4, <1>5, <1>6, <1>7, <1>8, <1>9

\* No task is in hand for a thread that starts only now.
LEMMA HandsKeep ==
    ASSUME IInv, UNCHANGED inHand, NEW t \in Thread, thread[t].status = "unstarted",
           \A u \in Thread : u # t => thread'[u] = thread[u],
           \A u \in Thread : \A i \in DOMAIN thread'[u].queue :
               thread'[u].queue[i].packet.dst = thread'[u].dst
    PROVE  TasksAddressed'
<1>1. ASSUME NEW m \in Node, inHand[m] # Nothing, inHand[m].sender # Nothing
      PROVE  /\ thread'[inHand[m].sender].status # "unstarted"
             /\ thread'[inHand[m].sender].dst = inHand[m].task.packet.dst
  <2>1. PICK u \in Thread : u = inHand[m].sender
    BY <1>1 DEF IInv, TypeOK, HandSet
  <2>2. thread[u].status # "unstarted" /\ thread[u].dst = inHand[m].task.packet.dst
    BY <1>1, <2>1 DEF IInv, TasksAddressed
  <2> QED
    BY <2>1, <2>2
<1> QED
  BY <1>1 DEF TasksAddressed

LEMMA ConnectToServerInv ==
    ASSUME IInv, NEW n \in Node, NEW d \in Node, NEW t \in Thread, ConnectToServer(t, n, d)
    PROVE  IInv'
<1>1. /\ Start(t, n, d, "connecting", t)
      /\ UNCHANGED <<sendQueue, inHand, wire, link, accepting, receiveQueue, sent, received>>
  BY DEF ConnectToServer, StartClientSender, wireVars, history
<1>2. /\ ThreadsKnown' /\ FoundSendersServe' /\ RegisteredOnce'
      /\ HeldOnce' /\ HeldWereSent' /\ PacketsAddressed'
      /\ \A u \in Thread : \A i \in DOMAIN thread'[u].queue :
            thread'[u].queue[i].packet.dst = thread'[u].dst
  BY <1>1, StartKeeps
<1>3. /\ thread' \in [Thread -> ThreadSet]
      /\ senders' \in [Node -> [Node -> Seq(Thread)]]
      /\ thread[t].status = "unstarted"
      /\ thread'[t].status = "connecting"
      /\ \A u \in Thread : u # t => thread'[u] = thread[u]
  BY <1>1, StartEffect DEF IInv
<1>4. TypeOK'
  BY <1>1, <1>3 DEF IInv, TypeOK
<1>5. LinksMade'
  BY <1>1, <1>3 DEF IInv, LinksMade
<1>6. TasksAddressed'
  BY <1>1, <1>2, <1>3, HandsKeep
<1> QED
  BY <1>2, <1>4, <1>5, <1>6 DEF IInv

LEMMA CreateSenderInv ==
    ASSUME IInv, NEW n \in Node, NEW t \in Thread, CreateSender(n, t)
    PROVE  IInv'
<1> DEFINE d == inHand[n].task.packet.dst
<1>1. /\ inHand[n] # Nothing
      /\ Start(t, n, d, "connecting", t)
      /\ inHand' = [inHand EXCEPT ![n].sender = t]
      /\ UNCHANGED <<sendQueue, wire, link, accepting, receiveQueue, sent, received>>
  BY DEF CreateSender, StartClientSender, wireVars, history
<1>2. /\ inHand[n] \in HandSet
      /\ inHand[n].task \in TaskSet
      /\ d \in Node
  BY <1>1, IoAssumption DEF IInv, TypeOK, HandSet, TaskSet
<1> HIDE DEF d
<1>3. /\ ThreadsKnown' /\ FoundSendersServe' /\ RegisteredOnce'
      /\ HeldOnce' /\ HeldWereSent' /\ PacketsAddressed'
      /\ \A u \in Thread : \A i \in DOMAIN thread'[u].queue :
            thread'[u].queue[i].packet.dst = thread'[u].dst
  <2>1. inHand \in [Node -> HandSet \cup {Nothing}]
    BY DEF IInv, TypeOK
  <2>2. \A m \in Node : m # n => inHand'[m] = inHand[m]
    BY <1>1, <2>1
  <2>3. inHand'[n] = [inHand[n] EXCEPT !.sender = t]
    BY <1>1, <2>1
  <2>4. inHand'[n].task = inHand[n].task
    BY <1>2, <2>3 DEF HandSet
  <2>5. \A m \in Node : HandPackets(inHand'[m]) \in {HandPackets(inHand[m]), <<>>}
    BY <1>1, <2>2, <2>4 DEF HandPackets
  <2> QED
    BY <1>1, <1>2, <2>5, StartKeeps
<1>4. /\ thread' \in [Thread -> ThreadSet]
      /\ senders' \in [Node -> [Node -> Seq(Thread)]]
      /\ thread[t].status = "unstarted"
      /\ thread'[t].status = "connecting"
      /\ thread'[t].dst = d
      /\ \A u \in Thread : u # t => thread'[u] = thread[u]
  BY <1>1, <1>2, StartEffect DEF IInv
<1>5. /\ inHand' \in [Node -> HandSet \cup {Nothing}]
      /\ inHand'[n].sender = t
      /\ inHand'[n].task.packet.dst = d
      /\ \A m \in Node : m # n => inHand'[m] = inHand[m]
  BY <1>1, <1>2 DEF IInv, TypeOK, HandSet, d
<1>6. TypeOK'
  BY <1>1, <1>4, <1>5 DEF IInv, TypeOK
<1>7. LinksMade'
  BY <1>1, <1>4 DEF IInv, LinksMade
<1>8. TasksAddressed'
  <2>1. \A m \in Node : inHand[m] # Nothing /\ inHand[m].sender # Nothing => inHand[m].sender \in Thread
    BY DEF IInv, TypeOK, HandSet
  <2>2. ASSUME NEW m \in Node, inHand'[m] # Nothing, inHand'[m].sender # Nothing
        PROVE  /\ thread'[inHand'[m].sender].status # "unstarted"
               /\ thread'[inHand'[m].sender].dst = inHand'[m].task.packet.dst
    <3>1. CASE m = n
      BY <1>4, <1>5, <3>1
    <3>2. CASE m # n
      <4>1. inHand'[m] = inHand[m]
        BY <1>5, <3>2
      <4>2. PICK u \in Thread : u = inHand[m].sender
        BY <2>1, <2>2, <4>1
      <4>3. thread[u].status # "unstarted" /\ thread[u].dst = inHand[m].task.packet.dst
        BY <2>2, <4>1, <4>2 DEF IInv, TasksAddressed
      <4>4. thread'[u] = thread[u]
        BY <1>4, <4>3
      <4> QED
        BY <4>1, <4>2, <4>3, <4>4
    <3> QED
      BY <3>1, <3>2
  <2> QED
    BY <1>3, <2>2 DEF TasksAddressed
<1> QED
  BY <1>3, <1>6, <1>7, <1>8 DEF IInv

LEMMA CreateServerSenderInv ==
    ASSUME IInv, NEW n \in Node, NEW u \in Thread, CreateServerSender(n, u)
    PROVE  IInv'
<1>1. PICK t \in Thread : t = accepting[n] /\ t # Nothing
  BY DEF IInv, TypeOK, CreateServerSender
<1>2. /\ Start(u, n, thread[t].node, "sending", t)
      /\ accepting' = [accepting EXCEPT ![n] = Nothing]
      /\ UNCHANGED <<sendQueue, inHand, wire, link, receiveQueue, sent, received>>
  BY <1>1 DEF CreateServerSender, history
<1>3. thread[t].status # "unstarted" /\ thread[t].node \in Node
  BY <1>1 DEF IInv, LinksMade, ThreadsKnown
<1>4. /\ ThreadsKnown' /\ FoundSendersServe' /\ RegisteredOnce'
      /\ HeldOnce' /\ HeldWereSent' /\ PacketsAddressed'
      /\ \A v \in Thread : \A i \in DOMAIN thread'[v].queue :
            thread'[v].queue[i].packet.dst = thread'[v].dst
  BY <1>2, <1>3, StartKeeps
<1>5. /\ thread' \in [Thread -> ThreadSet]
      /\ senders' \in [Node -> [Node -> Seq(Thread)]]
      /\ thread[u].status = "unstarted"
      /\ thread'[u].status = "sending"
      /\ \A v \in Thread : v # u => thread'[v] = thread[v]
  BY <1>2, <1>3, StartEffect DEF IInv
<1>6. /\ accepting' \in [Node -> Thread \cup {Nothing}]
      /\ \A m \in Node : accepting'[m] \in {accepting[m], Nothing}
  BY <1>2 DEF IInv, TypeOK
<1>7. TypeOK'
  BY <1>2, <1>5, <1>6 DEF IInv, TypeOK
<1>8. LinksMade'
  <2>1. ASSUME NEW m \in Node, NEW v \in Thread, accepting'[m] = v, v # Nothing
        PROVE  thread'[v].status # "unstarted"
    <3>1. CASE v = u
      BY <1>5, <3>1
    <3>2. CASE v # u
      BY <1>5, <1>6, <2>1, <3>2 DEF IInv, LinksMade
    <3> QED
      BY <3>1, <3>2
  <2>2. \A v \in Thread : link'[v] # "none" => thread'[v].status # "unstarted"
    BY <1>2, <1>5 DEF IInv, LinksMade
  <2> QED
    BY <2>1, <2>2 DEF LinksMade
<1>9. TasksAddressed'
  BY <1>2, <1>4, <1>5, HandsKeep
<1> QED
  BY <1>4, <1>7, <1>8, <1>9 DEF IInv

\* What the listener and the receiver thread do with a connection keeps
\* everything but the connection itself.
LEMMA AcceptInv ==
    ASSUME IInv, NEW t \in Thread, Accept(t)
    PROVE  IInv'
<1>1. /\ link[t] = "connected"
      /\ link' = [link EXCEPT ![t] = "accepted"]
      /\ accepting' = [accepting EXCEPT ![thread[t].dst] = t]
      /\ UNCHANGED <<sendQueue, inHand, senders, thread, wire, receiveQueue, sent, received>>
  BY DEF Accept, threadVars, history
<1>2. thread[t].status # "unstarted" /\ thread[t].dst \in Node
  BY <1>1 DEF IInv, LinksMade, ThreadsKnown
<1>3. TypeOK'
  BY <1>1, <1>2 DEF IInv, TypeOK
<1>4. LinksMade'
  BY <1>1, <1>2 DEF IInv, TypeOK, LinksMade
<1>5. /\ ThreadsKnown' /\ FoundSendersServe' /\ RegisteredOnce'
      /\ TasksAddressed' /\ PacketsAddressed'
  BY <1>1 DEF IInv, ThreadsKnown, FoundSendersServe, RegisteredOnce, TasksAddressed, PacketsAddressed
<1>6. HeldOnce' /\ HeldWereSent'
  BY <1>1, SameHeld
<1> QED
  BY <1>3, <1>4, <1>5, <1>6 DEF IInv

LEMMA DispatchInv ==
    ASSUME IInv, NEW n \in Node, Dispatch(n)
    PROVE  IInv'
<1> DEFINE task == Head(sendQueue[n])
           found == senders[n][task.packet.dst]
           hand == [task |-> task, sender |-> IF found = <<>> THEN Nothing ELSE Head(found)]
<1>1. /\ TypeOK
      /\ inHand[n] = Nothing
      /\ sendQueue[n] # <<>>
      /\ inHand' = [inHand EXCEPT ![n] = hand]
      /\ sendQueue' = [sendQueue EXCEPT ![n] = Tail(@)]
      /\ UNCHANGED <<senders, thread, wire, link, accepting, receiveQueue, sent, received>>
  BY DEF IInv, Dispatch, threadVars, wireVars, history
<1>2. sendQueue[n] \in Seq(TaskSet)
  BY <1>1 DEF TypeOK
<1>3. task \in TaskSet /\ task.packet \in Packet /\ Tail(sendQueue[n]) \in Seq(TaskSet)
  <2>1. task \in TaskSet /\ Tail(sendQueue[n]) \in Seq(TaskSet)
    BY <1>1, <1>2, FirstIs
  <2> HIDE DEF task
  <2> QED
    BY <2>1 DEF TaskSet
<1>4. task.packet.dst \in Node
  <2>1. PICK p \in Packet : p = task.packet
    BY <1>3
  <2> HIDE DEF task
  <2> QED
    BY <2>1, IoAssumption
<1>5. found \in Seq(Thread)
  <2>1. PICK d \in Node : d = task.packet.dst
    BY <1>4
  <2>2. senders \in [Node -> [Node -> Seq(Thread)]]
    BY DEF IInv, TypeOK
  <2>3. senders[n][d] \in Seq(Thread)
    BY <2>2
  <2> HIDE DEF task
  <2> QED
    BY <2>1, <2>3
<1>6. \/ hand.sender = Nothing
      \/ /\ hand.sender \in Thread
         /\ thread[hand.sender].status # "unstarted"
         /\ thread[hand.sender].dst = task.packet.dst
  <2>1. CASE found = <<>>
    <3> HIDE DEF found, task
    <3> QED
      BY <2>1
  <2>2. CASE found # <<>>
    <3>1. Head(found) = found[1] /\ Head(found) \in Thread /\ 1 \in DOMAIN found
      <4> HIDE DEF found
      <4> QED
        BY <1>5, <2>2, HeadIs
    <3>2. Head(found) \in ToSet(found)
      BY <3>1 DEF ToSet
    <3>3. PICK d \in Node : d = task.packet.dst
      BY <1>4
    <3>4. /\ thread[Head(found)].status \in {"connecting", "sending", "failed"}
          /\ thread[Head(found)].dst = d
      <4>1. PICK u : u = Head(found)
        OBVIOUS
      <4>2. u \in ToSet(senders[n][d])
        BY <3>2, <3>3, <4>1
      <4> HIDE DEF found, hand, task
      <4>3. FoundSendersServe
        BY DEF IInv
      <4>4. /\ thread[u].status \in {"connecting", "sending", "failed"}
            /\ thread[u].dst = d
        BY <4>2, <4>3 DEF FoundSendersServe
      <4> QED
        BY <4>1, <4>4
    <3>5. hand.sender = Head(found)
      <4> HIDE DEF found, task
      <4> QED
        BY <2>2
    <3> HIDE DEF hand, found, task
    <3> QED
      BY <3>1, <3>3, <3>4, <3>5
  <2> QED
    BY <2>1, <2>2
<1>7. hand \in HandSet /\ hand.task = task
  BY <1>3, <1>6 DEF HandSet
<1> HIDE DEF task, found, hand
<1>8. /\ inHand' \in [Node -> HandSet \cup {Nothing}]
      /\ inHand'[n] = hand
      /\ \A m \in Node : m # n => inHand'[m] = inHand[m] /\ sendQueue'[m] = sendQueue[m]
      /\ sendQueue' \in [Node -> Seq(TaskSet)]
      /\ sendQueue'[n] = Tail(sendQueue[n])
  BY <1>1, <1>3, <1>7 DEF TypeOK
<1>9. TypeOK'
  BY <1>1, <1>8 DEF TypeOK
<1>10. HeldOnce' /\ HeldWereSent'
  <2> DEFINE a == <<"sendQueue", n>>
             b == <<"inHand", n>>
  <2>1. HoldingsKnown /\ HoldingsKnown'
    BY HoldingsAre, PTL
  <2>2. Holdings[a] = Packets(sendQueue[n]) /\ Holdings[b] = HandPackets(inHand[n])
    BY <2>1 DEF HoldingsKnown
  <2>3. Holdings'[a] = Packets(sendQueue'[n])
    BY <2>1 DEF HoldingsKnown
  <2>4. Holdings'[b] = HandPackets(inHand'[n])
    BY <2>1 DEF HoldingsKnown
  <2>5. \A x \in Place : x \notin {a, b} => Holdings'[x] = Holdings[x]
    BY <1>1, <1>8, SameElsewhere
  <2>6. a \in Place /\ b \in Place /\ a # b
    BY PlacesAre
  <2> HIDE DEF a, b
  <2>7. /\ Packets(sendQueue[n]) # <<>>
        /\ Packets(sendQueue[n]) \in Seq(Packet)
        /\ Head(Packets(sendQueue[n])) = task.packet
        /\ Packets(Tail(sendQueue[n])) = Tail(Packets(sendQueue[n]))
    BY <1>1, <1>2, PacketsOf DEF task
  <2>8. HandPackets(inHand[n]) = <<>> /\ HandPackets(hand) \in {<<>>, <<task.packet>>}
    BY <1>1, <1>7 DEF HandPackets
  <2>9. Append(<<>>, task.packet) = <<task.packet>> /\ <<>> \in Seq(Packet)
    OBVIOUS
  <2>10. /\ Holdings[a] \in Seq(Packet) /\ Holdings[a] # <<>> /\ Holdings[b] \in Seq(Packet)
         /\ Holdings'[a] = Tail(Holdings[a])
         /\ Holdings'[b] = Holdings[b] \/ Holdings'[b] = Append(Holdings[b], Head(Holdings[a]))
    BY <1>8, <2>2, <2>3, <2>4, <2>7, <2>8, <2>9
  <2>11. HeldOnce /\ HeldWereSent /\ sent' = sent
    BY <1>1 DEF IInv
  <2> QED
    BY <2>5, <2>6, <2>10, <2>11, MoveStep
<1>11. /\ ThreadsKnown'
       /\ LinksMade'
       /\ FoundSendersServe'
       /\ RegisteredOnce'
       /\ PacketsAddressed'
  BY <1>1 DEF IInv, ThreadsKnown, LinksMade, FoundSendersServe, RegisteredOnce, PacketsAddressed
<1>12. TasksAddressed'
  BY <1>1, <1>6, <1>7, <1>8 DEF IInv, TasksAddressed
<1> QED
  BY <1>9, <1>10, <1>11, <1>12 DEF IInv

LEMMA EnqueueSendTaskInv ==
    ASSUME IInv, NEW n \in Node, EnqueueSendTask(n)
    PROVE  IInv'
<1> DEFINE hand == inHand[n]
           t == hand.sender
           task == hand.task
<1>1. /\ TypeOK
      /\ hand # Nothing
      /\ t # Nothing
      /\ thread' = [thread EXCEPT ![t].queue = Append(@, task)]
      /\ inHand' = [inHand EXCEPT ![n] = Nothing]
      /\ UNCHANGED <<sendQueue, senders, wire, link, accepting, receiveQueue, sent, received>>
  BY DEF IInv, EnqueueSendTask, wireVars, history
<1>2. t \in Thread /\ task \in TaskSet /\ task.packet \in Packet
  BY <1>1 DEF TypeOK, HandSet, TaskSet
<1>3. thread[t].status # "unstarted" /\ thread[t].dst = task.packet.dst
  BY <1>1 DEF IInv, TasksAddressed
<1>4. hand \in HandSet
  BY <1>1 DEF TypeOK
<1> HIDE DEF t, task
<1>5. thread[t] \in ThreadSet /\ thread[t].queue \in Seq(TaskSet)
  BY <1>1, <1>2 DEF TypeOK, ThreadSet
<1>6. /\ thread' \in [Thread -> ThreadSet]
      /\ thread'[t].queue = Append(thread[t].queue, task)
      /\ thread'[t].status = thread[t].status
      /\ thread'[t].node = thread[t].node
      /\ thread'[t].dst = thread[t].dst
      /\ thread'[t].current = thread[t].current
      /\ thread'[t].connection = thread[t].connection
      /\ \A u \in Thread : u # t => thread'[u] = thread[u]
  <2>0. Append(thread[t].queue, task) \in Seq(TaskSet)
    BY <1>2, <1>5, AppendIs
  <2>1. PICK q \in Seq(TaskSet) : q = Append(thread[t].queue, task)
    BY <2>0
  <2>2. thread' = [thread EXCEPT ![t].queue = q]
    BY <1>1, <2>1
  <2> QED
    BY <1>1, <1>2, <2>1, <2>2, QueueUpdate
<1>7. /\ inHand' \in [Node -> HandSet \cup {Nothing}]
      /\ inHand'[n] = Nothing
      /\ \A m \in Node : m # n => inHand'[m] = inHand[m]
  BY <1>1 DEF TypeOK
<1>8. TypeOK'
  BY <1>1, <1>6, <1>7 DEF TypeOK
<1>9. HeldOnce' /\ HeldWereSent'
  <2> DEFINE a == <<"inHand", n>>
             b == <<"queue", t>>
  <2>1. HoldingsKnown /\ HoldingsKnown'
    BY HoldingsAre, PTL
  <2>2. Holdings[a] = HandPackets(inHand[n]) /\ Holdings[b] = Packets(thread[t].queue)
    BY <1>2, <2>1 DEF HoldingsKnown
  <2>3. Holdings'[a] = HandPackets(inHand'[n])
    BY <2>1 DEF HoldingsKnown
  <2>4. Holdings'[b] = Packets(thread'[t].queue)
    BY <1>2, <2>1 DEF HoldingsKnown
  <2>5. \A x \in Place : x \notin {a, b} => Holdings'[x] = Holdings[x]
    <3>1. \A m \in Node : a \in {a, b} /\ (m # n => inHand'[m] = inHand[m])
      BY <1>7
    <3>2. \A u \in Thread : <<"queue", u>> \in {a, b} \/ thread'[u].queue = thread[u].queue
      BY <1>6
    <3>3. \A u \in Thread : thread'[u].current = thread[u].current
      BY <1>6
    <3> QED
      BY <1>1, <3>1, <3>2, <3>3, SameElsewhere
  <2>6. a \in Place /\ b \in Place /\ a # b
    BY <1>2, PlacesAre
  <2> HIDE DEF a, b
  <2>7. /\ HandPackets(inHand[n]) = <<task.packet>>
        /\ HandPackets(inHand'[n]) = <<>>
    BY <1>1, <1>7 DEF HandPackets, task
  <2>8. /\ Packets(thread[t].queue) \in Seq(Packet)
        /\ Packets(thread'[t].queue) = Append(Packets(thread[t].queue), task.packet)
    BY <1>2, <1>5, <1>6, PacketsOf
  <2>9. /\ <<task.packet>> \in Seq(Packet)
        /\ <<task.packet>> # <<>>
        /\ Tail(<<task.packet>>) = <<>>
        /\ Head(<<task.packet>>) = task.packet
    BY <1>2
  <2>10. /\ Holdings[a] \in Seq(Packet) /\ Holdings[a] # <<>> /\ Holdings[b] \in Seq(Packet)
         /\ Holdings'[a] = Tail(Holdings[a])
         /\ Holdings'[b] = Append(Holdings[b], Head(Holdings[a]))
    BY <2>2, <2>3, <2>4, <2>7, <2>8, <2>9
  <2>11. HeldOnce /\ HeldWereSent /\ sent' = sent
    BY <1>1 DEF IInv
  <2> QED
    BY <2>5, <2>6, <2>10, <2>11, MoveStep
<1>10. ThreadsKnown' /\ LinksMade' /\ RegisteredOnce' /\ PacketsAddressed'
  BY <1>1, <1>6 DEF IInv, ThreadsKnown, LinksMade, RegisteredOnce, PacketsAddressed
<1>11. FoundSendersServe'
  BY <1>1, <1>6, RegisteredAreThreads DEF IInv, FoundSendersServe
<1>12. TasksAddressed'
  <2>1. ASSUME NEW m \in Node, inHand'[m] # Nothing, inHand'[m].sender # Nothing
        PROVE  /\ thread'[inHand'[m].sender].status # "unstarted"
               /\ thread'[inHand'[m].sender].dst = inHand'[m].task.packet.dst
    <3>1. inHand'[m] = inHand[m]
      BY <1>7, <2>1
    <3>2. PICK u \in Thread : u = inHand[m].sender
      BY <1>1, <2>1, <3>1 DEF TypeOK, HandSet
    <3>3. thread[u].status # "unstarted" /\ thread[u].dst = inHand[m].task.packet.dst
      BY <2>1, <3>1, <3>2 DEF IInv, TasksAddressed
    <3> QED
      BY <1>6, <3>1, <3>2, <3>3
  <2>2. ASSUME NEW u \in Thread, NEW i \in DOMAIN thread'[u].queue
        PROVE  thread'[u].queue[i].packet.dst = thread'[u].dst
    <3>1. CASE u = t
      <4>1. /\ DOMAIN thread'[t].queue = 1 .. Len(thread[t].queue) + 1
            /\ DOMAIN thread[t].queue = 1 .. Len(thread[t].queue)
            /\ Len(thread[t].queue) \in Nat
            /\ \A j \in 1 .. Len(thread[t].queue) : thread'[t].queue[j] = thread[t].queue[j]
            /\ thread'[t].queue[Len(thread[t].queue) + 1] = task
        BY <1>2, <1>5, <1>6, AppendIs
      <4>2. CASE i = Len(thread[t].queue) + 1
        BY <1>3, <1>6, <3>1, <4>1, <4>2
      <4>3. CASE i # Len(thread[t].queue) + 1
        <5>1. i \in DOMAIN thread[t].queue /\ thread'[t].queue[i] = thread[t].queue[i]
          BY <2>2, <3>1, <4>1, <4>3
        <5>2. thread[t].queue[i].packet.dst = thread[t].dst
          BY <1>2, <5>1 DEF IInv, TasksAddressed
        <5> QED
          BY <1>6, <3>1, <5>1, <5>2
      <4> QED
        BY <4>2, <4>3
    <3>2. CASE u # t
      BY <1>6, <2>2, <3>2 DEF IInv, TasksAddressed
    <3> QED
      BY <3>1, <3>2
  <2> QED
    BY <2>1, <2>2 DEF TasksAddressed
<1> QED
  BY <1>8, <1>9, <1>10, <1>11, <1>12 DEF IInv

-----------------------------------------------------------------------------
(***************************************************************************)
(* Connections.                                                            *)
(***************************************************************************)

\* A step that changes how far a thread is, but not what it holds.
LEMMA StatusStep ==
    ASSUME IInv, NEW t \in Thread, NEW status \in Status \ {"unstarted"},
           thread' = [thread EXCEPT ![t].status = status],
           thread[t].status # "unstarted",
           status \notin {"failed", "draining"} => thread[t].current = Nothing,
           UNCHANGED <<sendQueue, inHand, wire, receiveQueue, sent, received>>
    PROVE  /\ thread' \in [Thread -> ThreadSet]
           /\ thread'[t].status = status
           /\ \A u \in Thread :
                /\ u # t => thread'[u] = thread[u]
                /\ thread'[u].node = thread[u].node
                /\ thread'[u].dst = thread[u].dst
                /\ thread'[u].status = "unstarted" => thread[u].status = "unstarted"
           /\ HeldOnce' /\ HeldWereSent'
           /\ ThreadsKnown' /\ TasksAddressed' /\ PacketsAddressed'
<1>1. thread[t] \in ThreadSet
  BY DEF IInv, TypeOK
<1>2. /\ thread' \in [Thread -> ThreadSet]
      /\ thread'[t].status = status
      /\ thread'[t].queue = thread[t].queue
      /\ thread'[t].node = thread[t].node
      /\ thread'[t].dst = thread[t].dst
      /\ thread'[t].current = thread[t].current
      /\ thread'[t].connection = thread[t].connection
      /\ \A u \in Thread : u # t => thread'[u] = thread[u]
  BY <1>1 DEF IInv, TypeOK, ThreadSet
<1>3. HeldOnce' /\ HeldWereSent'
  <2>1. \A x \in Place : Holdings'[x] = Holdings[x]
    <3>1. PICK X : X = {}
      OBVIOUS
    <3>2. \A u \in Thread : thread'[u].queue = thread[u].queue /\ thread'[u].current = thread[u].current
      BY <1>2
    <3>3. \A x \in Place : x \notin X => Holdings'[x] = Holdings[x]
      BY <3>2, SameElsewhere
    <3> QED
      BY <3>1, <3>3
  <2>2. HeldOnce /\ HeldWereSent
    BY DEF IInv
  <2> QED
    BY <2>1, <2>2, LossStep
<1>4. ThreadsKnown'
  BY <1>2 DEF IInv, ThreadsKnown
<1>5. TasksAddressed'
  <2>1. ASSUME NEW m \in Node, inHand[m] # Nothing, inHand[m].sender # Nothing
        PROVE  /\ thread'[inHand[m].sender].status # "unstarted"
               /\ thread'[inHand[m].sender].dst = inHand[m].task.packet.dst
    <3>1. PICK u \in Thread : u = inHand[m].sender
      BY <2>1 DEF IInv, TypeOK, HandSet
    <3>2. thread[u].status # "unstarted" /\ thread[u].dst = inHand[m].task.packet.dst
      BY <2>1, <3>1 DEF IInv, TasksAddressed
    <3> QED
      BY <1>2, <3>1, <3>2
  <2>2. \A u \in Thread : \A i \in DOMAIN thread'[u].queue :
            thread'[u].queue[i].packet.dst = thread'[u].dst
    BY <1>2 DEF IInv, TasksAddressed
  <2> QED
    BY <2>1, <2>2 DEF TasksAddressed
<1>6. PacketsAddressed'
  BY DEF IInv, PacketsAddressed
<1> QED
  BY <1>2, <1>3, <1>4, <1>5, <1>6

LEMMA ConnectInv ==
    ASSUME IInv, NEW t \in Thread, Connect(t)
    PROVE  IInv'
<1>1. PICK status \in {"sending", "failed"} :
        /\ thread[t].status = "connecting"
        /\ thread' = [thread EXCEPT ![t].status = status]
        /\ link' = [link EXCEPT ![t] = "connected"] \/ UNCHANGED link
        /\ UNCHANGED <<sendQueue, inHand, senders, wire, accepting, receiveQueue, sent, received>>
  BY DEF Connect, history
<1>2. status \in Status \ {"unstarted"} /\ thread[t].current = Nothing
  BY <1>1 DEF IInv, ThreadsKnown, Status
<1>3. /\ thread' \in [Thread -> ThreadSet]
      /\ thread'[t].status = status
      /\ \A u \in Thread :
           /\ u # t => thread'[u] = thread[u]
           /\ thread'[u].node = thread[u].node
           /\ thread'[u].dst = thread[u].dst
           /\ thread'[u].status = "unstarted" => thread[u].status = "unstarted"
      /\ HeldOnce' /\ HeldWereSent'
      /\ ThreadsKnown' /\ TasksAddressed' /\ PacketsAddressed'
  BY <1>1, <1>2, StatusStep
<1>4. link' \in [Thread -> {"none", "connected", "accepted", "broken"}]
  BY <1>1 DEF IInv, TypeOK
<1>5. TypeOK'
  BY <1>1, <1>3, <1>4 DEF IInv, TypeOK
<1>6. LinksMade'
  BY <1>1, <1>3 DEF IInv, TypeOK, LinksMade
<1>7. FoundSendersServe'
  BY <1>1, <1>3, RegisteredAreThreads DEF IInv, FoundSendersServe
<1>8. RegisteredOnce'
  BY <1>1 DEF IInv, RegisteredOnce
<1> QED
  BY <1>3, <1>5, <1>6, <1>7, <1>8 DEF IInv

LEMMA BreakInv ==
    ASSUME IInv, NEW t \in Thread, Break(t)
    PROVE  IInv'
<1>1. /\ TypeOK
      /\ link[t] \in {"connected", "accepted"}
      /\ link' = [link EXCEPT ![t] = "broken"]
      /\ UNCHANGED <<sendQueue, inHand, senders, thread, accepting, receiveQueue, sent, received>>
  BY DEF IInv, Break, threadVars, history
<1>2. PICK kept \in [Node -> 0 .. Cardinality(Packet)] :
        /\ \A n \in Node : kept[n] <= Len(wire[t][n])
        /\ wire' = [wire EXCEPT ![t] = [n \in Node |->
                       IF link[t] = "connected" /\ n # thread[t].node THEN <<>>
                       ELSE SubSeq(wire[t][n], 1, kept[n])]]
  BY DEF Break
<1>3. ASSUME NEW n \in Node
      PROVE  /\ wire'[t][n] \in Seq(Packet)
             /\ \A i \in DOMAIN wire'[t][n] :
                   i \in DOMAIN wire[t][n] /\ wire'[t][n][i] = wire[t][n][i]
  <2>1. wire'[t][n] \in {<<>>, SubSeq(wire[t][n], 1, kept[n])}
    BY <1>1, <1>2 DEF TypeOK
  <2>2. /\ wire[t][n] \in Seq(Packet)
        /\ kept[n] \in Nat
        /\ kept[n] <= Len(wire[t][n])
        /\ Len(wire[t][n]) \in Nat
    BY <1>1, <1>2, LenProperties DEF TypeOK
  <2>3. CASE wire'[t][n] = <<>>
    BY <2>3
  <2>4. CASE wire'[t][n] = SubSeq(wire[t][n], 1, kept[n])
    <3>1. /\ SubSeq(wire[t][n], 1, kept[n]) \in Seq(Packet)
          /\ DOMAIN SubSeq(wire[t][n], 1, kept[n]) = 1 .. kept[n]
          /\ DOMAIN wire[t][n] = 1 .. Len(wire[t][n])
          /\ \A i \in 1 .. kept[n] : SubSeq(wire[t][n], 1, kept[n])[i] = wire[t][n][i]
      BY <2>2, PrefixIs
    <3> QED
      BY <2>2, <2>4, <3>1
  <2> QED
    BY <2>1, <2>3, <2>4
<1>4. /\ wire' \in [Thread -> [Node -> Seq(Packet)]]
      /\ \A u \in Thread : u # t => wire'[u] = wire[u]
  <2> DEFINE new == [n \in Node |-> IF link[t] = "connected" /\ n # thread[t].node THEN <<>>
                                    ELSE SubSeq(wire[t][n], 1, kept[n])]
  <2>1. wire' = [wire EXCEPT ![t] = new] /\ DOMAIN new = Node
    BY <1>2
  <2>2. new = [n \in Node |-> new[n]]
    OBVIOUS
  <2> HIDE DEF new
  <2>3. wire'[t] = new
    BY <1>1, <2>1 DEF TypeOK
  <2>4. new \in [Node -> Seq(Packet)]
    BY <1>3, <2>1, <2>2, <2>3
  <2> QED
    BY <1>1, <2>1, <2>4 DEF TypeOK
<1>5. link' \in [Thread -> {"none", "connected", "accepted", "broken"}]
  BY <1>1 DEF TypeOK
<1>6. TypeOK'
  BY <1>1, <1>4, <1>5 DEF TypeOK
<1>7. HeldOnce' /\ HeldWereSent'
  <2>1. HoldingsKnown /\ HoldingsKnown'
    BY HoldingsAre, PTL
  <2> DEFINE X == {<<"wire", t, n>> : n \in Node}
  <2>2. \A x \in Place : x \notin X => Holdings'[x] = Holdings[x]
    BY <1>1, <1>4, SameElsewhere
  <2>3. ASSUME NEW n \in Node
        PROVE  \A i \in DOMAIN Holdings'[<<"wire", t, n>>] :
                   /\ i \in DOMAIN Holdings[<<"wire", t, n>>]
                   /\ Holdings'[<<"wire", t, n>>][i] = Holdings[<<"wire", t, n>>][i]
    <3>1. Holdings[<<"wire", t, n>>] = wire[t][n]
      BY <2>1 DEF HoldingsKnown
    <3>2. Holdings'[<<"wire", t, n>>] = wire'[t][n]
      BY <2>1 DEF HoldingsKnown
    <3> QED
      BY <1>3, <3>1, <3>2
  <2>4. \A x \in Place : \A i \in DOMAIN Holdings'[x] :
            i \in DOMAIN Holdings[x] /\ Holdings'[x][i] = Holdings[x][i]
    BY <2>2, <2>3
  <2>5. HeldOnce /\ HeldWereSent /\ sent' = sent
    BY <1>1 DEF IInv
  <2> QED
    BY <2>4, <2>5, LossStep
<1>8. LinksMade'
  BY <1>1 DEF IInv, TypeOK, LinksMade
<1>9. ThreadsKnown' /\ FoundSendersServe' /\ RegisteredOnce' /\ TasksAddressed'
  BY <1>1 DEF IInv, ThreadsKnown, FoundSendersServe, RegisteredOnce, TasksAddressed
<1>10. PacketsAddressed'
  <2>1. ASSUME NEW n \in Node, NEW u \in Thread, NEW i \in DOMAIN wire'[u][n]
        PROVE  wire'[u][n][i].dst = n
    <3>1. i \in DOMAIN wire[u][n] /\ wire'[u][n][i] = wire[u][n][i]
      <4>1. CASE u = t
        BY <1>3, <2>1, <4>1
      <4>2. CASE u # t
        BY <1>4, <2>1, <4>2
      <4> QED
        BY <4>1, <4>2
    <3>2. wire[u][n][i].dst = n
      BY <3>1 DEF IInv, PacketsAddressed
    <3> QED
      BY <3>1, <3>2
  <2> QED
    BY <1>1, <2>1 DEF IInv, PacketsAddressed
<1> QED
  BY <1>6, <1>7, <1>8, <1>9, <1>10 DEF IInv

LEMMA ReceiveLoopInv ==
    ASSUME IInv, NEW t \in Thread, NEW n \in Node, ReceiveLoop(t, n)
    PROVE  IInv'
<1>1. /\ TypeOK
      /\ wire[t][n] # <<>>
      /\ receiveQueue' = [receiveQueue EXCEPT ![n] = Append(@, Head(wire[t][n]))]
      /\ wire' = [wire EXCEPT ![t][n] = Tail(@)]
      /\ UNCHANGED <<sendQueue, inHand, senders, thread, link, accepting, sent, received>>
  BY DEF IInv, ReceiveLoop, threadVars, history
<1>2. wire[t][n] \in Seq(Packet) /\ receiveQueue[n] \in Seq(Packet)
  BY <1>1 DEF TypeOK
<1>3. /\ Head(wire[t][n]) \in Packet
      /\ Head(wire[t][n]) = wire[t][n][1]
      /\ 1 \in DOMAIN wire[t][n]
      /\ Tail(wire[t][n]) \in Seq(Packet)
      /\ \A i \in DOMAIN Tail(wire[t][n]) :
            i + 1 \in DOMAIN wire[t][n] /\ Tail(wire[t][n])[i] = wire[t][n][i + 1]
  BY <1>1, <1>2, FirstIs
<1>4. /\ wire' \in [Thread -> [Node -> Seq(Packet)]]
      /\ wire'[t][n] = Tail(wire[t][n])
      /\ \A u \in Thread, m \in Node : <<u, m>> # <<t, n>> => wire'[u][m] = wire[u][m]
  BY <1>1, <1>3 DEF TypeOK
<1>5. /\ receiveQueue' \in [Node -> Seq(Packet)]
      /\ receiveQueue'[n] = Append(receiveQueue[n], Head(wire[t][n]))
      /\ \A m \in Node : m # n => receiveQueue'[m] = receiveQueue[m]
  BY <1>1, <1>2, <1>3, AppendIs DEF TypeOK
<1>6. TypeOK'
  BY <1>1, <1>4, <1>5 DEF TypeOK
<1>7. HeldOnce' /\ HeldWereSent'
  <2> DEFINE a == <<"wire", t, n>>
             b == <<"receiveQueue", n>>
  <2>1. HoldingsKnown /\ HoldingsKnown'
    BY HoldingsAre, PTL
  <2>2. Holdings[a] = wire[t][n] /\ Holdings[b] = receiveQueue[n]
    BY <2>1 DEF HoldingsKnown
  <2>3. Holdings'[a] = wire'[t][n]
    BY <2>1 DEF HoldingsKnown
  <2>4. Holdings'[b] = receiveQueue'[n]
    BY <2>1 DEF HoldingsKnown
  <2>5. \A x \in Place : x \notin {a, b} => Holdings'[x] = Holdings[x]
    <3>1. \A m \in Node : <<"receiveQueue", m>> \in {a, b} \/ receiveQueue'[m] = receiveQueue[m]
      BY <1>5
    <3>2. \A u \in Thread, m \in Node : <<"wire", u, m>> \in {a, b} \/ wire'[u][m] = wire[u][m]
      BY <1>4
    <3> QED
      BY <1>1, <3>1, <3>2, SameElsewhere
  <2>6. a \in Place /\ b \in Place /\ a # b
    BY PlacesAre
  <2> HIDE DEF a, b
  <2>7. /\ Holdings[a] \in Seq(Packet) /\ Holdings[a] # <<>> /\ Holdings[b] \in Seq(Packet)
        /\ Holdings'[a] = Tail(Holdings[a])
        /\ Holdings'[b] = Append(Holdings[b], Head(Holdings[a]))
    BY <1>1, <1>2, <1>4, <1>5, <2>2, <2>3, <2>4
  <2>8. HeldOnce /\ HeldWereSent /\ sent' = sent
    BY <1>1 DEF IInv
  <2> QED
    BY <2>5, <2>6, <2>7, <2>8, MoveStep
<1>8. ThreadsKnown' /\ LinksMade' /\ FoundSendersServe' /\ RegisteredOnce' /\ TasksAddressed'
  BY <1>1 DEF IInv, ThreadsKnown, LinksMade, FoundSendersServe, RegisteredOnce, TasksAddressed
<1>9. PacketsAddressed'
  <2>1. ASSUME NEW m \in Node, NEW u \in Thread, NEW i \in DOMAIN wire'[u][m]
        PROVE  wire'[u][m][i].dst = m
    <3>1. PICK j \in DOMAIN wire[u][m] : wire'[u][m][i] = wire[u][m][j]
      <4>1. CASE u = t /\ m = n
        <5>1. i \in DOMAIN Tail(wire[t][n]) /\ wire'[u][m] = Tail(wire[t][n])
          BY <1>4, <2>1, <4>1
        <5>2. i + 1 \in DOMAIN wire[t][n] /\ Tail(wire[t][n])[i] = wire[t][n][i + 1]
          BY <1>3, <5>1
        <5> QED
          BY <4>1, <5>1, <5>2
      <4>2. CASE ~(u = t /\ m = n)
        <5>1. wire'[u][m] = wire[u][m]
          BY <1>4, <4>2
        <5> QED
          BY <2>1, <5>1
      <4> QED
        BY <4>1, <4>2
    <3>2. wire[u][m][j].dst = m
      BY DEF IInv, PacketsAddressed
    <3> QED
      BY <3>1, <3>2
  <2>2. ASSUME NEW m \in Node, NEW i \in DOMAIN receiveQueue'[m]
        PROVE  receiveQueue'[m][i].dst = m
    <3>1. /\ DOMAIN receiveQueue'[n] = 1 .. Len(receiveQueue[n]) + 1
          /\ DOMAIN receiveQueue[n] = 1 .. Len(receiveQueue[n])
          /\ Len(receiveQueue[n]) \in Nat
          /\ \A j \in 1 .. Len(receiveQueue[n]) : receiveQueue'[n][j] = receiveQueue[n][j]
          /\ receiveQueue'[n][Len(receiveQueue[n]) + 1] = Head(wire[t][n])
      BY <1>2, <1>3, <1>5, AppendIs
    <3>2. CASE m # n
      BY <1>5, <2>2, <3>2 DEF IInv, PacketsAddressed
    <3>3. CASE m = n /\ i = Len(receiveQueue[n]) + 1
      BY <1>3, <3>1, <3>3 DEF IInv, PacketsAddressed
    <3>4. CASE m = n /\ i # Len(receiveQueue[n]) + 1
      <4>1. i \in DOMAIN receiveQueue[n] /\ receiveQueue'[n][i] = receiveQueue[n][i]
        BY <2>2, <3>1, <3>4
      <4> QED
        BY <3>4, <4>1 DEF IInv, PacketsAddressed
    <3> QED
      BY <3>2, <3>3, <3>4
  <2> QED
    BY <2>1, <2>2 DEF PacketsAddressed
<1> QED
  BY <1>6, <1>7, <1>8, <1>9 DEF IInv

-----------------------------------------------------------------------------
(***************************************************************************)
(* Sender threads.                                                         *)
(***************************************************************************)
LEMMA ThreadUpdate ==
    ASSUME TypeOK, NEW t \in Thread, NEW q \in Seq(TaskSet), NEW c \in TaskSet \cup {Nothing},
           NEW status \in Status,
           thread' = [thread EXCEPT ![t].queue = q, ![t].current = c, ![t].status = status]
    PROVE  /\ thread' \in [Thread -> ThreadSet]
           /\ thread'[t].queue = q
           /\ thread'[t].current = c
           /\ thread'[t].status = status
           /\ thread'[t].node = thread[t].node
           /\ thread'[t].dst = thread[t].dst
           /\ thread'[t].connection = thread[t].connection
           /\ \A u \in Thread : u # t => thread'[u] = thread[u]
<1>1. thread \in [Thread -> ThreadSet] /\ thread[t] \in ThreadSet
  BY DEF TypeOK
<1> DEFINE new == [thread[t] EXCEPT !.queue = q, !.current = c, !.status = status]
<1>2. /\ new \in ThreadSet
      /\ new.queue = q
      /\ new.current = c
      /\ new.status = status
      /\ new.node = thread[t].node
      /\ new.dst = thread[t].dst
      /\ new.connection = thread[t].connection
  BY <1>1 DEF ThreadSet
<1>3. thread' = [thread EXCEPT ![t] = new]
  BY <1>1
<1> HIDE DEF new
<1>4. thread'[t] = new /\ \A u \in Thread : u # t => thread'[u] = thread[u]
  BY <1>1, <1>3
<1>5. thread' \in [Thread -> ThreadSet]
  <2>1. new \in ThreadSet /\ thread \in [Thread -> ThreadSet]
    BY <1>1, <1>2
  <2> QED
    BY <1>3, <2>1
<1> QED
  BY <1>2, <1>4, <1>5

\* A step that gives no thread a new task, and no new address.
LEMMA TasksKeep ==
    ASSUME IInv, UNCHANGED inHand,
           \A u \in Thread :
               /\ thread'[u].dst = thread[u].dst
               /\ thread'[u].status = "unstarted" => thread[u].status = "unstarted"
               /\ \A i \in DOMAIN thread'[u].queue : \E j \in DOMAIN thread[u].queue :
                      thread'[u].queue[i] = thread[u].queue[j]
    PROVE  TasksAddressed'
<1>1. ASSUME NEW m \in Node, inHand[m] # Nothing, inHand[m].sender # Nothing
      PROVE  /\ thread'[inHand[m].sender].status # "unstarted"
             /\ thread'[inHand[m].sender].dst = inHand[m].task.packet.dst
  <2>1. PICK u \in Thread : u = inHand[m].sender
    BY <1>1 DEF IInv, TypeOK, HandSet
  <2>2. thread[u].status # "unstarted" /\ thread[u].dst = inHand[m].task.packet.dst
    BY <1>1, <2>1 DEF IInv, TasksAddressed
  <2> QED
    BY <2>1, <2>2
<1>2. ASSUME NEW u \in Thread, NEW i \in DOMAIN thread'[u].queue
      PROVE  thread'[u].queue[i].packet.dst = thread'[u].dst
  <2>1. PICK j \in DOMAIN thread[u].queue : thread'[u].queue[i] = thread[u].queue[j]
    BY <1>2
  <2>2. thread[u].queue[j].packet.dst = thread[u].dst
    BY DEF IInv, TasksAddressed
  <2> QED
    BY <2>1, <2>2
<1> QED
  BY <1>1, <1>2 DEF TasksAddressed

\* Taking the first task off a queue.
LEMMA TaskTaken ==
    ASSUME IInv, NEW t \in Thread, thread[t].queue # <<>>
    PROVE  /\ thread[t].queue \in Seq(TaskSet)
           /\ Head(thread[t].queue) \in TaskSet
           /\ Head(thread[t].queue).packet \in Packet
           /\ Head(thread[t].queue).packet.dst = thread[t].dst
           /\ Tail(thread[t].queue) \in Seq(TaskSet)
           /\ \A i \in DOMAIN Tail(thread[t].queue) : \E j \in DOMAIN thread[t].queue :
                  Tail(thread[t].queue)[i] = thread[t].queue[j]
           /\ Holdings[<<"queue", t>>] # <<>>
           /\ Head(Holdings[<<"queue", t>>]) = Head(thread[t].queue).packet
           /\ thread'[t].queue = Tail(thread[t].queue) =>
                  Holdings'[<<"queue", t>>] = Tail(Holdings[<<"queue", t>>])
<1>1. thread[t].queue \in Seq(TaskSet)
  BY DEF IInv, TypeOK, ThreadSet
<1> DEFINE s == thread[t].queue
<1>2. /\ Head(s) = s[1]
      /\ Head(s) \in TaskSet
      /\ Tail(s) \in Seq(TaskSet)
      /\ DOMAIN s = 1 .. Len(s)
      /\ Len(s) \in Nat \ {0}
      /\ DOMAIN Tail(s) = 1 .. Len(s) - 1
      /\ \A i \in 1 .. Len(s) - 1 : Tail(s)[i] = s[i + 1]
  BY <1>1, FirstIs
<1>3. 1 \in DOMAIN s /\ \A i \in DOMAIN Tail(s) : i + 1 \in DOMAIN s /\ Tail(s)[i] = s[i + 1]
  BY <1>2
<1>4. s[1].packet.dst = thread[t].dst
  BY <1>3 DEF IInv, TasksAddressed
<1>5. Head(s).packet \in Packet
  <2> HIDE DEF s
  <2> QED
    BY <1>2 DEF TaskSet
<1>6. HoldingsKnown /\ HoldingsKnown'
  BY HoldingsAre, PTL
<1>7. Holdings[<<"queue", t>>] = Packets(s)
  BY <1>6 DEF HoldingsKnown
<1>8. Holdings'[<<"queue", t>>] = Packets(thread'[t].queue)
  BY <1>6 DEF HoldingsKnown
<1>9. /\ Packets(s) # <<>>
      /\ Head(Packets(s)) = Head(s).packet
      /\ Packets(Tail(s)) = Tail(Packets(s))
  BY <1>1, PacketsOf
<1> HIDE DEF s
<1>10. \A i \in DOMAIN Tail(s) : \E j \in DOMAIN s : Tail(s)[i] = s[j]
  BY <1>3
<1> QED
  BY <1>1, <1>2, <1>3, <1>4, <1>5, <1>7, <1>8, <1>9, <1>10 DEF s

LEMMA TakenKeeps ==
    ASSUME IInv, NEW t \in Thread, thread[t].queue # <<>>, UNCHANGED inHand,
           thread'[t].queue = Tail(thread[t].queue),
           thread'[t].dst = thread[t].dst,
           thread'[t].status # "unstarted",
           \A u \in Thread : u # t => thread'[u] = thread[u]
    PROVE  TasksAddressed'
<1>1. ASSUME NEW u \in Thread, NEW i \in DOMAIN thread'[u].queue
      PROVE  \E j \in DOMAIN thread[u].queue : thread'[u].queue[i] = thread[u].queue[j]
  <2>1. CASE u = t
    <3>1. \A k \in DOMAIN Tail(thread[t].queue) : \E j \in DOMAIN thread[t].queue :
              Tail(thread[t].queue)[k] = thread[t].queue[j]
      BY TaskTaken
    <3>2. i \in DOMAIN Tail(thread[t].queue) /\ thread'[u].queue = Tail(thread[t].queue)
      BY <1>1, <2>1
    <3>3. PICK j \in DOMAIN thread[t].queue : Tail(thread[t].queue)[i] = thread[t].queue[j]
      BY <3>1, <3>2
    <3> QED
      BY <2>1, <3>2, <3>3
  <2>2. CASE u # t
    <3>1. thread'[u] = thread[u]
      BY <2>2
    <3> QED
      BY <1>1, <3>1
  <2> QED
    BY <2>1, <2>2
<1>2. \A u \in Thread : /\ thread'[u].dst = thread[u].dst
                        /\ thread'[u].status = "unstarted" => thread[u].status = "unstarted"
  OBVIOUS
<1> QED
  BY <1>1, <1>2, TasksKeep

\* What the task that is being sent holds.
LEMMA CurrentIs ==
    ASSUME TypeOK, NEW t \in Thread
    PROVE  /\ Holdings[<<"current", t>>] = IF thread[t].current = Nothing THEN <<>>
                                           ELSE <<thread[t].current.packet>>
           /\ Holdings'[<<"current", t>>] = IF thread'[t].current = Nothing THEN <<>>
                                            ELSE <<thread'[t].current.packet>>
<1>1. HoldingsKnown /\ HoldingsKnown'
  BY HoldingsAre, PTL
<1>2. Holdings[<<"current", t>>] = Packets(AtMostOne(thread[t].current))
  BY <1>1 DEF HoldingsKnown
<1>3. Holdings'[<<"current", t>>] = Packets(AtMostOne(thread'[t].current))
  BY <1>1 DEF HoldingsKnown
<1>4. ASSUME NEW x
      PROVE  Packets(AtMostOne(x)) = IF x = Nothing THEN <<>> ELSE <<x.packet>>
  BY DEF Packets, AtMostOne
<1> QED
  BY <1>2, <1>3, <1>4

LEMMA SendLoopInv ==
    ASSUME IInv, NEW t \in Thread, SendLoop(t)
    PROVE  IInv'
<1> DEFINE s == thread[t].queue
           c == thread[t].connection
           d == thread[t].dst
           a == <<"queue", t>>
<1>1. /\ TypeOK
      /\ thread[t].status = "sending"
      /\ s # <<>>
      /\ UNCHANGED <<sendQueue, inHand, senders, link, accepting, receiveQueue, sent, received>>
  BY DEF IInv, SendLoop, history
<1>2. /\ c \in Thread
      /\ d \in Node
      /\ thread[t].current = Nothing
  BY <1>1 DEF IInv, ThreadsKnown
<1>3. /\ s \in Seq(TaskSet)
      /\ Head(s) \in TaskSet
      /\ Head(s).packet \in Packet
      /\ Head(s).packet.dst = d
      /\ Tail(s) \in Seq(TaskSet)
      /\ \A i \in DOMAIN Tail(s) : \E j \in DOMAIN s : Tail(s)[i] = s[j]
      /\ Holdings[a] # <<>>
      /\ Head(Holdings[a]) = Head(s).packet
      /\ thread'[t].queue = Tail(s) => Holdings'[a] = Tail(Holdings[a])
  BY <1>1, TaskTaken
<1>4. HeldOnce /\ HeldWereSent /\ sent' = sent
  BY <1>1 DEF IInv
<1>5. \A x \in Place : Holdings[x] \in Seq(Packet)
  BY <1>1, HoldingsTypes
<1>6. ASSUME Written(t), thread' = [thread EXCEPT ![t].queue = Tail(@)]
      PROVE  IInv'
  <2>1. /\ thread' \in [Thread -> ThreadSet]
        /\ thread'[t].queue = Tail(s)
        /\ thread'[t].status = thread[t].status
        /\ thread'[t].node = thread[t].node
        /\ thread'[t].dst = thread[t].dst
        /\ thread'[t].current = thread[t].current
        /\ thread'[t].connection = thread[t].connection
        /\ \A u \in Thread : u # t => thread'[u] = thread[u]
    <3>1. PICK q \in Seq(TaskSet) : q = Tail(s)
      BY <1>3
    <3>2. thread' = [thread EXCEPT ![t].queue = q]
      BY <1>6, <3>1
    <3> QED
      BY <1>1, <3>1, <3>2, QueueUpdate
  <2> DEFINE p == Head(s).packet
             b == <<"wire", c, d>>
  <2>2. wire[c][d] \in Seq(Packet)
    BY <1>1, <1>2 DEF TypeOK
  <2>3. UNCHANGED wire \/ wire' = [wire EXCEPT ![c][d] = Append(@, p)]
    BY <1>6 DEF Written
  <2> HIDE DEF s, c, d, p
  <2>4. /\ wire' \in [Thread -> [Node -> Seq(Packet)]]
        /\ wire'[c][d] = wire[c][d] \/ wire'[c][d] = Append(wire[c][d], p)
        /\ \A u \in Thread, m \in Node : <<u, m>> # <<c, d>> => wire'[u][m] = wire[u][m]
    <3>1. CASE UNCHANGED wire
      BY <1>1, <3>1 DEF TypeOK
    <3>2. CASE wire' = [wire EXCEPT ![c][d] = Append(@, p)]
      <4>1. p \in Packet
        BY <1>3 DEF p
      <4>2. Append(wire[c][d], p) \in Seq(Packet)
        BY <2>2, <4>1, AppendIs
      <4> QED
        BY <1>1, <1>2, <3>2, <4>2 DEF TypeOK
    <3> QED
      BY <2>3, <3>1, <3>2
  <2>5. TypeOK'
    BY <1>1, <2>1, <2>4 DEF TypeOK
  <2>6. HeldOnce' /\ HeldWereSent'
    <3>1. HoldingsKnown /\ HoldingsKnown'
      BY HoldingsAre, PTL
    <3>2. Holdings[b] = wire[c][d]
      BY <1>2, <3>1 DEF HoldingsKnown
    <3>3. Holdings'[b] = wire'[c][d]
      BY <1>2, <3>1 DEF HoldingsKnown
    <3>4. \A x \in Place : x \notin {a, b} => Holdings'[x] = Holdings[x]
      <4>1. \A u \in Thread, m \in Node : <<"wire", u, m>> \in {a, b} \/ wire'[u][m] = wire[u][m]
        BY <2>4
      <4>2. \A u \in Thread : <<"queue", u>> \in {a, b} \/ thread'[u].queue = thread[u].queue
        BY <2>1
      <4>3. \A u \in Thread : thread'[u].current = thread[u].current
        BY <2>1
      <4> QED
        BY <1>1, <4>1, <4>2, <4>3, SameElsewhere
    <3>5. a \in Place /\ b \in Place /\ a # b
      BY <1>2, PlacesAre
    <3> HIDE DEF a, b
    <3>6. /\ Holdings[a] \in Seq(Packet) /\ Holdings[a] # <<>> /\ Holdings[b] \in Seq(Packet)
          /\ Holdings'[a] = Tail(Holdings[a])
          /\ Holdings'[b] = Holdings[b] \/ Holdings'[b] = Append(Holdings[b], Head(Holdings[a]))
      BY <1>3, <1>5, <2>1, <2>4, <3>2, <3>3, <3>5 DEF p
    <3> QED
      BY <1>4, <3>4, <3>5, <3>6, MoveStep
  <2>7. TasksAddressed'
    BY <1>1, <2>1, TakenKeeps DEF s
  <2>8. PacketsAddressed'
    <3>1. ASSUME NEW m \in Node, NEW u \in Thread, NEW i \in DOMAIN wire'[u][m]
          PROVE  wire'[u][m][i].dst = m
      <4>1. CASE wire'[u][m] = wire[u][m]
        BY <3>1, <4>1 DEF IInv, PacketsAddressed
      <4>2. CASE u = c /\ m = d /\ wire'[c][d] = Append(wire[c][d], p)
        <5>1. /\ DOMAIN wire'[c][d] = 1 .. Len(wire[c][d]) + 1
              /\ DOMAIN wire[c][d] = 1 .. Len(wire[c][d])
              /\ Len(wire[c][d]) \in Nat
              /\ \A j \in 1 .. Len(wire[c][d]) : wire'[c][d][j] = wire[c][d][j]
              /\ wire'[c][d][Len(wire[c][d]) + 1] = p
          BY <1>3, <2>2, <4>2, AppendIs DEF p
        <5>2. CASE i = Len(wire[c][d]) + 1
          BY <1>3, <4>2, <5>1, <5>2 DEF p
        <5>3. CASE i # Len(wire[c][d]) + 1
          <6>1. i \in DOMAIN wire[c][d] /\ wire'[c][d][i] = wire[c][d][i]
            BY <3>1, <4>2, <5>1, <5>3
          <6>2. wire[c][d][i].dst = d
            BY <1>2, <6>1 DEF IInv, PacketsAddressed
          <6> QED
            BY <4>2, <6>1, <6>2
        <5> QED
          BY <5>2, <5>3
      <4> QED
        BY <2>4, <4>1, <4>2
    <3> QED
      BY <1>1, <3>1 DEF IInv, PacketsAddressed
  <2>9. ThreadsKnown' /\ LinksMade' /\ RegisteredOnce'
    BY <1>1, <2>1 DEF IInv, ThreadsKnown, LinksMade, RegisteredOnce
  <2>10. FoundSendersServe'
    BY <1>1, <2>1, RegisteredAreThreads DEF IInv, FoundSendersServe
  <2> QED
    BY <2>5, <2>6, <2>7, <2>8, <2>9, <2>10 DEF IInv
<1>7. ASSUME thread' = [thread EXCEPT ![t].queue = Tail(@), ![t].current = Head(s),
                                      ![t].status = "failed"],
             UNCHANGED wire
      PROVE  IInv'
  <2>1. /\ thread' \in [Thread -> ThreadSet]
        /\ thread'[t].queue = Tail(s)
        /\ thread'[t].current = Head(s)
        /\ thread'[t].status = "failed"
        /\ thread'[t].node = thread[t].node
        /\ thread'[t].dst = thread[t].dst
        /\ thread'[t].connection = thread[t].connection
        /\ \A u \in Thread : u # t => thread'[u] = thread[u]
    <3>1. PICK q \in Seq(TaskSet), h \in TaskSet \cup {Nothing}, status \in Status :
            q = Tail(s) /\ h = Head(s) /\ status = "failed"
      <4>1. Tail(s) \in Seq(TaskSet) /\ Head(s) \in TaskSet \cup {Nothing} /\ "failed" \in Status
        BY <1>3 DEF Status
      <4> HIDE DEF s
      <4> QED
        BY <4>1
    <3>2. thread' = [thread EXCEPT ![t].queue = q, ![t].current = h, ![t].status = status]
      BY <1>7, <3>1
    <3> QED
      BY <1>1, <3>1, <3>2, ThreadUpdate
  <2> HIDE DEF s
  <2>2. TypeOK'
    BY <1>1, <1>7, <2>1 DEF TypeOK
  <2>3. HeldOnce' /\ HeldWereSent'
    <3> DEFINE b == <<"current", t>>
    <3>1. \A x \in Place : x \notin {a, b} => Holdings'[x] = Holdings[x]
      <4>1. \A u \in Thread : <<"queue", u>> \in {a, b} \/ thread'[u].queue = thread[u].queue
        BY <2>1
      <4>2. \A u \in Thread : <<"current", u>> \in {a, b} \/ thread'[u].current = thread[u].current
        BY <2>1
      <4> QED
        BY <1>1, <1>7, <4>1, <4>2, SameElsewhere
    <3>2. Holdings[b] = <<>> /\ Holdings'[b] \in {<<>>, <<Head(s).packet>>}
      BY <1>1, <1>2, <2>1, CurrentIs
    <3>3. a \in Place /\ b \in Place /\ a # b
      BY PlacesAre
    <3>4. Append(<<>>, Head(s).packet) = <<Head(s).packet>>
      OBVIOUS
    <3> HIDE DEF a, b
    <3>5. /\ Holdings[a] \in Seq(Packet) /\ Holdings[a] # <<>> /\ Holdings[b] \in Seq(Packet)
          /\ Holdings'[a] = Tail(Holdings[a])
          /\ Holdings'[b] = Holdings[b] \/ Holdings'[b] = Append(Holdings[b], Head(Holdings[a]))
      BY <1>3, <1>5, <2>1, <3>2, <3>3, <3>4
    <3> QED
      BY <1>4, <3>1, <3>3, <3>5, MoveStep
  <2>4. TasksAddressed'
    BY <1>1, <2>1, TakenKeeps DEF s
  <2>5. /\ ThreadsKnown' /\ LinksMade' /\ RegisteredOnce' /\ PacketsAddressed'
    BY <1>1, <1>7, <2>1 DEF IInv, ThreadsKnown, LinksMade, RegisteredOnce, PacketsAddressed
  <2>6. FoundSendersServe'
    BY <1>1, <2>1, RegisteredAreThreads DEF IInv, FoundSendersServe
  <2> QED
    BY <2>2, <2>3, <2>4, <2>5, <2>6 DEF IInv
<1>8. \/ Written(t) /\ thread' = [thread EXCEPT ![t].queue = Tail(@)]
      \/ /\ thread' = [thread EXCEPT ![t].queue = Tail(@), ![t].current = Head(s),
                                     ![t].status = "failed"]
         /\ UNCHANGED wire
  BY DEF SendLoop
<1> QED
  BY <1>6, <1>7, <1>8

LEMMA UnregisterSenderInv ==
    ASSUME IInv, NEW t \in Thread, UnregisterSender(t)
    PROVE  IInv'
<1> DEFINE n == thread[t].node
           d == thread[t].dst
<1>1. /\ TypeOK
      /\ thread[t].status = "failed"
      /\ thread' = [thread EXCEPT ![t].status = "draining"]
      /\ senders' = [senders EXCEPT ![n][d] = RemoveFirst(@, t)]
      /\ UNCHANGED <<sendQueue, inHand, wire, link, accepting, receiveQueue, sent, received>>
  BY DEF IInv, UnregisterSender, wireVars, history
<1>2. n \in Node /\ d \in Node
  BY <1>1 DEF IInv, ThreadsKnown
<1>3. /\ thread' \in [Thread -> ThreadSet]
      /\ thread'[t].status = "draining"
      /\ \A u \in Thread :
           /\ u # t => thread'[u] = thread[u]
           /\ thread'[u].node = thread[u].node
           /\ thread'[u].dst = thread[u].dst
           /\ thread'[u].status = "unstarted" => thread[u].status = "unstarted"
      /\ HeldOnce' /\ HeldWereSent'
      /\ ThreadsKnown' /\ TasksAddressed' /\ PacketsAddressed'
  <2>1. PICK status \in Status \ {"unstarted"} : status = "draining"
    BY DEF Status
  <2>2. /\ thread' = [thread EXCEPT ![t].status = status]
        /\ thread[t].status # "unstarted"
        /\ status \notin {"failed", "draining"} => thread[t].current = Nothing
    BY <1>1, <2>1
  <2> QED
    BY <1>1, <2>1, <2>2, StatusStep
<1> HIDE DEF n, d
<1>4. /\ RemoveFirst(senders[n][d], t) \in Seq(Thread)
      /\ \A i \in DOMAIN RemoveFirst(senders[n][d], t) :
           /\ RemoveFirst(senders[n][d], t)[i] # t
           /\ \E k \in DOMAIN senders[n][d] : RemoveFirst(senders[n][d], t)[i] = senders[n][d][k]
      /\ \A i, j \in DOMAIN RemoveFirst(senders[n][d], t) :
           RemoveFirst(senders[n][d], t)[i] = RemoveFirst(senders[n][d], t)[j] => i = j
  <2>1. PICK s \in Seq(Thread) : s = senders[n][d]
    BY <1>1, <1>2 DEF TypeOK
  <2>2. \A i, j \in DOMAIN s : s[i] = s[j] => i = j
    BY <1>2, <2>1 DEF IInv, RegisteredOnce
  <2> QED
    BY <2>1, <2>2, RemoveFirstIs
<1>5. /\ senders' \in [Node -> [Node -> Seq(Thread)]]
      /\ senders'[n][d] = RemoveFirst(senders[n][d], t)
      /\ \A m, e \in Node : <<m, e>> # <<n, d>> => senders'[m][e] = senders[m][e]
  BY <1>1, <1>2, <1>4 DEF TypeOK
<1>6. TypeOK'
  BY <1>1, <1>3, <1>5 DEF TypeOK
<1>7. ASSUME NEW m \in Node, NEW e \in Node, NEW i \in DOMAIN senders[m][e]
      PROVE  /\ senders[m][e][i] \in Thread
             /\ thread[senders[m][e][i]].status \in {"connecting", "sending", "failed"}
             /\ thread[senders[m][e][i]].node = m
             /\ thread[senders[m][e][i]].dst = e
  <2>1. senders[m][e] \in Seq(Thread)
    BY <1>1 DEF TypeOK
  <2>2. senders[m][e][i] \in ToSet(senders[m][e]) /\ senders[m][e][i] \in Thread
    BY <2>1, LenProperties DEF ToSet
  <2> QED
    BY <2>2 DEF IInv, FoundSendersServe
<1>8. FoundSendersServe'
  <2> SUFFICES ASSUME NEW m \in Node, NEW e \in Node, NEW i \in DOMAIN senders'[m][e]
               PROVE  /\ thread'[senders'[m][e][i]].status \in {"connecting", "sending", "failed"}
                      /\ thread'[senders'[m][e][i]].node = m
                      /\ thread'[senders'[m][e][i]].dst = e
    BY DEF FoundSendersServe, ToSet
  <2>1. PICK k \in DOMAIN senders[m][e] : senders'[m][e][i] = senders[m][e][k]
    <3>1. CASE m = n /\ e = d
      BY <1>4, <1>5, <3>1
    <3>2. CASE ~(m = n /\ e = d)
      <4>1. senders'[m][e] = senders[m][e]
        BY <1>5, <3>2
      <4> QED
        BY <4>1
    <3> QED
      BY <3>1, <3>2
  <2>2. senders[m][e][k] # t
    <3>1. CASE <<m, e>> = <<n, d>>
      BY <1>4, <1>5, <2>1, <3>1
    <3>2. CASE <<m, e>> # <<n, d>>
      BY <1>7, <3>2 DEF n, d
    <3> QED
      BY <3>1, <3>2
  <2>3. PICK u \in Thread : u = senders[m][e][k]
    BY <1>7
  <2>4. thread'[u] = thread[u]
    BY <1>3, <2>2, <2>3
  <2>5. /\ thread[u].status \in {"connecting", "sending", "failed"}
        /\ thread[u].node = m
        /\ thread[u].dst = e
    BY <1>7, <2>3
  <2> QED
    BY <2>1, <2>3, <2>4, <2>5
<1>9. RegisteredOnce'
  <2> SUFFICES ASSUME NEW m \in Node, NEW e \in Node, NEW i \in DOMAIN senders'[m][e],
                      NEW j \in DOMAIN senders'[m][e], senders'[m][e][i] = senders'[m][e][j]
               PROVE  i = j
    BY DEF RegisteredOnce
  <2>1. CASE m = n /\ e = d
    BY <1>4, <1>5, <2>1
  <2>2. CASE ~(m = n /\ e = d)
    <3>1. senders'[m][e] = senders[m][e]
      BY <1>5, <2>2
    <3> QED
      BY <3>1 DEF IInv, RegisteredOnce
  <2> QED
    BY <2>1, <2>2
<1>10. LinksMade'
  BY <1>1, <1>3 DEF IInv, LinksMade
<1> QED
  BY <1>3, <1>6, <1>8, <1>9, <1>10 DEF IInv

\* A task that is given back goes to the end of the queue of the dispatch
\* thread, or is dropped.
LEMMA ResendEffect ==
    ASSUME TypeOK, NEW n \in Node, NEW task \in TaskSet, ResendPacket(n, task)
    PROVE  LET b == <<"sendQueue", n>>
           IN  /\ sendQueue' \in [Node -> Seq(TaskSet)]
               /\ \A m \in Node : m # n => sendQueue'[m] = sendQueue[m]
               /\ Holdings'[b] = Holdings[b] \/ Holdings'[b] = Append(Holdings[b], task.packet)
<1> DEFINE again == Task(task.packet, task.numTriesSoFar + 1)
<1>1. HoldingsKnown /\ HoldingsKnown'
  BY HoldingsAre, PTL
<1>2. Holdings[<<"sendQueue", n>>] = Packets(sendQueue[n])
  BY <1>1 DEF HoldingsKnown
<1>3. Holdings'[<<"sendQueue", n>>] = Packets(sendQueue'[n])
  BY <1>1 DEF HoldingsKnown
<1>4. sendQueue[n] \in Seq(TaskSet) /\ sendQueue \in [Node -> Seq(TaskSet)]
  BY DEF TypeOK
<1>5. CASE sendQueue' = sendQueue
  BY <1>2, <1>3, <1>4, <1>5
<1>6. CASE /\ task.numTriesSoFar + 1 < MaxSendTries
           /\ sendQueue' = [sendQueue EXCEPT ![n] = Append(@, again)]
  <2>1. again \in TaskSet /\ again.packet = task.packet
    BY <1>6, IoAssumption DEF Task, TaskSet
  <2> HIDE DEF again
  <2>2. Append(sendQueue[n], again) \in Seq(TaskSet)
    BY <1>4, <2>1, AppendIs
  <2>3. /\ sendQueue' \in [Node -> Seq(TaskSet)]
        /\ sendQueue'[n] = Append(sendQueue[n], again)
        /\ \A m \in Node : m # n => sendQueue'[m] = sendQueue[m]
    BY <1>4, <1>6, <2>2
  <2>4. Packets(Append(sendQueue[n], again)) = Append(Packets(sendQueue[n]), again.packet)
    BY <1>4, <2>1, PacketsOf
  <2> QED
    BY <1>2, <1>3, <2>1, <2>3, <2>4
<1> QED
  BY <1>5, <1>6 DEF ResendPacket

LEMMA RequeueInv ==
    ASSUME IInv, NEW t \in Thread, Requeue(t)
    PROVE  IInv'
<1> DEFINE n == thread[t].node
           c == thread[t].current
           s == thread[t].queue
           b == <<"sendQueue", n>>
<1>1. /\ TypeOK
      /\ thread[t].status = "draining"
      /\ UNCHANGED <<inHand, senders, wire, link, accepting, receiveQueue, sent, received>>
  BY DEF IInv, Requeue, wireVars, history
<1>2. n \in Node
  BY <1>1 DEF IInv, ThreadsKnown
<1>3. HeldOnce /\ HeldWereSent /\ sent' = sent
  BY <1>1 DEF IInv
<1>4. \A x \in Place : Holdings[x] \in Seq(Packet)
  BY <1>1, HoldingsTypes
<1>5. thread[t] \in ThreadSet /\ thread \in [Thread -> ThreadSet]
  BY <1>1 DEF TypeOK
<1>6. ASSUME c # Nothing, ResendPacket(n, c), thread' = [thread EXCEPT ![t].current = Nothing]
      PROVE  IInv'
  <2>1. /\ thread' \in [Thread -> ThreadSet]
        /\ thread'[t].queue = s
        /\ thread'[t].current = Nothing
        /\ thread'[t].status = "draining"
        /\ thread'[t].node = thread[t].node
        /\ thread'[t].dst = thread[t].dst
        /\ thread'[t].connection = thread[t].connection
        /\ \A u \in Thread : u # t => thread'[u] = thread[u]
    BY <1>1, <1>5, <1>6 DEF ThreadSet
  <2>2. c \in TaskSet /\ c.packet \in Packet
    BY <1>5, <1>6 DEF ThreadSet, TaskSet
  <2> HIDE DEF n, c, s
  <2>3. /\ sendQueue' \in [Node -> Seq(TaskSet)]
        /\ \A m \in Node : m # n => sendQueue'[m] = sendQueue[m]
        /\ Holdings'[b] = Holdings[b] \/ Holdings'[b] = Append(Holdings[b], c.packet)
    BY <1>1, <1>2, <1>6, <2>2, ResendEffect
  <2>4. TypeOK'
    BY <1>1, <2>1, <2>3 DEF TypeOK
  <2>5. HeldOnce' /\ HeldWereSent'
    <3> DEFINE a == <<"current", t>>
    <3>1. Holdings[a] = <<c.packet>> /\ Holdings'[a] = <<>>
      BY <1>1, <1>6, <2>1, CurrentIs DEF c
    <3>2. \A x \in Place : x \notin {a, b} => Holdings'[x] = Holdings[x]
      <4>1. \A m \in Node : <<"sendQueue", m>> \in {a, b} \/ sendQueue'[m] = sendQueue[m]
        BY <2>3
      <4>2. \A u \in Thread : <<"current", u>> \in {a, b} \/ thread'[u].current = thread[u].current
        BY <2>1
      <4>3. \A u \in Thread : thread'[u].queue = thread[u].queue
        BY <2>1 DEF s
      <4> QED
        BY <1>1, <4>1, <4>2, <4>3, SameElsewhere
    <3>3. a \in Place /\ b \in Place /\ a # b
      BY <1>2, PlacesAre
    <3> HIDE DEF a, b
    <3>4. /\ <<c.packet>> # <<>>
          /\ Tail(<<c.packet>>) = <<>>
          /\ Head(<<c.packet>>) = c.packet
      BY <2>2
    <3>5. /\ Holdings[a] \in Seq(Packet) /\ Holdings[a] # <<>> /\ Holdings[b] \in Seq(Packet)
          /\ Holdings'[a] = Tail(Holdings[a])
          /\ Holdings'[b] = Holdings[b] \/ Holdings'[b] = Append(Holdings[b], Head(Holdings[a]))
      BY <1>4, <2>3, <3>1, <3>3, <3>4
    <3> QED
      BY <1>3, <3>2, <3>3, <3>5, MoveStep
  <2>6. TasksAddressed'
    <3>1. \A u \in Thread :
            /\ thread'[u].dst = thread[u].dst
            /\ thread'[u].status = "unstarted" => thread[u].status = "unstarted"
            /\ thread'[u].queue = thread[u].queue
      BY <2>1 DEF s
    <3> QED
      BY <1>1, <3>1, TasksKeep
  <2>7. ThreadsKnown' /\ LinksMade' /\ RegisteredOnce' /\ PacketsAddressed'
    BY <1>1, <2>1 DEF IInv, ThreadsKnown, LinksMade, RegisteredOnce, PacketsAddressed
  <2>8. FoundSendersServe'
    BY <1>1, <2>1, RegisteredAreThreads DEF IInv, FoundSendersServe
  <2> QED
    BY <2>4, <2>5, <2>6, <2>7, <2>8 DEF IInv
<1>7. ASSUME s # <<>>, ResendPacket(n, Head(s)), thread' = [thread EXCEPT ![t].queue = Tail(@)]
      PROVE  IInv'
  <2> DEFINE a == <<"queue", t>>
  <2>1. /\ s \in Seq(TaskSet)
        /\ Head(s) \in TaskSet
        /\ Head(s).packet \in Packet
        /\ Tail(s) \in Seq(TaskSet)
        /\ Holdings[a] # <<>>
        /\ Head(Holdings[a]) = Head(s).packet
        /\ thread'[t].queue = Tail(s) => Holdings'[a] = Tail(Holdings[a])
    BY <1>7, TaskTaken
  <2>2. /\ thread' \in [Thread -> ThreadSet]
        /\ thread'[t].queue = Tail(s)
        /\ thread'[t].current = thread[t].current
        /\ thread'[t].status = thread[t].status
        /\ thread'[t].node = thread[t].node
        /\ thread'[t].dst = thread[t].dst
        /\ thread'[t].connection = thread[t].connection
        /\ \A u \in Thread : u # t => thread'[u] = thread[u]
    <3>1. PICK q \in Seq(TaskSet) : q = Tail(s)
      BY <2>1
    <3>2. thread' = [thread EXCEPT ![t].queue = q]
      BY <1>7, <3>1
    <3> QED
      BY <1>1, <3>1, <3>2, QueueUpdate
  <2> HIDE DEF n, s
  <2>3. PICK h \in TaskSet : h = Head(s)
    BY <2>1
  <2>4. /\ sendQueue' \in [Node -> Seq(TaskSet)]
        /\ \A m \in Node : m # n => sendQueue'[m] = sendQueue[m]
        /\ Holdings'[b] = Holdings[b] \/ Holdings'[b] = Append(Holdings[b], h.packet)
    BY <1>1, <1>2, <1>7, <2>3, ResendEffect
  <2>5. TypeOK'
    BY <1>1, <2>2, <2>4 DEF TypeOK
  <2>6. HeldOnce' /\ HeldWereSent'
    <3>1. \A x \in Place : x \notin {a, b} => Holdings'[x] = Holdings[x]
      <4>1. \A m \in Node : <<"sendQueue", m>> \in {a, b} \/ sendQueue'[m] = sendQueue[m]
        BY <2>4
      <4>2. \A u \in Thread : <<"queue", u>> \in {a, b} \/ thread'[u].queue = thread[u].queue
        BY <2>2
      <4>3. \A u \in Thread : thread'[u].current = thread[u].current
        BY <2>2
      <4> QED
        BY <1>1, <4>1, <4>2, <4>3, SameElsewhere
    <3>2. a \in Place /\ b \in Place /\ a # b
      BY <1>2, PlacesAre
    <3> HIDE DEF a, b
    <3>3. /\ Holdings[a] \in Seq(Packet) /\ Holdings[a] # <<>> /\ Holdings[b] \in Seq(Packet)
          /\ Holdings'[a] = Tail(Holdings[a])
          /\ Holdings'[b] = Holdings[b] \/ Holdings'[b] = Append(Holdings[b], Head(Holdings[a]))
      BY <1>4, <2>1, <2>2, <2>3, <2>4, <3>2
    <3> QED
      BY <1>3, <3>1, <3>2, <3>3, MoveStep
  <2>7. TasksAddressed'
    BY <1>1, <1>7, <2>2, TakenKeeps DEF s
  <2>8. ThreadsKnown' /\ LinksMade' /\ RegisteredOnce' /\ PacketsAddressed'
    BY <1>1, <2>2 DEF IInv, ThreadsKnown, LinksMade, RegisteredOnce, PacketsAddressed
  <2>9. FoundSendersServe'
    BY <1>1, <2>2, RegisteredAreThreads DEF IInv, FoundSendersServe
  <2> QED
    BY <2>5, <2>6, <2>7, <2>8, <2>9 DEF IInv
<1>8. ASSUME c = Nothing, thread' = [thread EXCEPT ![t].status = "ended"], UNCHANGED sendQueue
      PROVE  IInv'
  <2>1. PICK status \in Status \ {"unstarted"} : status = "ended"
    BY DEF Status
  <2>2. /\ thread' = [thread EXCEPT ![t].status = status]
        /\ thread[t].status # "unstarted"
        /\ status \notin {"failed", "draining"} => thread[t].current = Nothing
    BY <1>1, <1>8, <2>1
  <2>3. /\ thread' \in [Thread -> ThreadSet]
        /\ \A u \in Thread :
             /\ u # t => thread'[u] = thread[u]
             /\ thread'[u].status = "unstarted" => thread[u].status = "unstarted"
        /\ HeldOnce' /\ HeldWereSent'
        /\ ThreadsKnown' /\ TasksAddressed' /\ PacketsAddressed'
    BY <1>1, <1>8, <2>1, <2>2, StatusStep
  <2>4. TypeOK'
    BY <1>1, <1>8, <2>3 DEF TypeOK
  <2>5. LinksMade' /\ RegisteredOnce'
    BY <1>1, <2>3 DEF IInv, LinksMade, RegisteredOnce
  <2>6. FoundSendersServe'
    <3>1. \A m, e \in Node : t \notin ToSet(senders[m][e])
      BY <1>1 DEF IInv, FoundSendersServe
    <3> QED
      BY <1>1, <2>3, <3>1, RegisteredAreThreads DEF IInv, FoundSendersServe
  <2> QED
    BY <2>3, <2>4, <2>5, <2>6 DEF IInv
<1>9. \/ c # Nothing /\ ResendPacket(n, c) /\ thread' = [thread EXCEPT ![t].current = Nothing]
      \/ s # <<>> /\ ResendPacket(n, Head(s)) /\ thread' = [thread EXCEPT ![t].queue = Tail(@)]
      \/ c = Nothing /\ thread' = [thread EXCEPT ![t].status = "ended"] /\ UNCHANGED sendQueue
  BY DEF Requeue
<1> QED
  BY <1>6, <1>7, <1>8, <1>9

-----------------------------------------------------------------------------
(***************************************************************************)
(* The invariant, and what follows from it.                                *)
(***************************************************************************)
LEMMA InitIInv == Init => IInv
<1> SUFFICES ASSUME Init PROVE IInv
  OBVIOUS
<1>1. TypeOK
  BY IoAssumption DEF Init, TypeOK, Unstarted, ThreadSet, Status
<1>2. /\ \A t \in Thread : thread[t].status = "unstarted" /\ thread[t].queue = <<>>
                           /\ thread[t].current = Nothing /\ link[t] = "none"
      /\ \A t \in Thread, n \in Node : wire[t][n] = <<>>
      /\ \A n \in Node : /\ sendQueue[n] = <<>> /\ inHand[n] = Nothing
                         /\ receiveQueue[n] = <<>> /\ received[n] = <<>>
                         /\ accepting[n] = Nothing
      /\ \A n, d \in Node : senders[n][d] = <<>>
  BY DEF Init, Unstarted
<1>3. ThreadsKnown /\ LinksMade
  BY <1>2 DEF ThreadsKnown, LinksMade
<1>4. FoundSendersServe /\ RegisteredOnce
  <2>1. ToSet(<<>>) = {} /\ DOMAIN <<>> = {}
    BY DEF ToSet
  <2> QED
    BY <1>2, <2>1 DEF FoundSendersServe, RegisteredOnce
<1>5. TasksAddressed /\ PacketsAddressed
  BY <1>2 DEF TasksAddressed, PacketsAddressed
<1>6. \A x \in Place : Holdings[x] = <<>>
  <2>1. HoldingsKnown
    BY HoldingsAre
  <2>2. Packets(<<>>) = <<>> /\ AtMostOne(Nothing) = <<>> /\ HandPackets(Nothing) = <<>>
    BY DEF Packets, AtMostOne, HandPackets
  <2>3. ASSUME NEW n \in Node
        PROVE  /\ Holdings[<<"sendQueue", n>>] = <<>>
               /\ Holdings[<<"inHand", n>>] = <<>>
               /\ Holdings[<<"receiveQueue", n>>] = <<>>
               /\ Holdings[<<"received", n>>] = <<>>
    <3>1. /\ Holdings[<<"sendQueue", n>>] = Packets(sendQueue[n])
          /\ Holdings[<<"inHand", n>>] = HandPackets(inHand[n])
          /\ Holdings[<<"receiveQueue", n>>] = receiveQueue[n]
          /\ Holdings[<<"received", n>>] = received[n]
      BY <2>1 DEF HoldingsKnown
    <3>2. sendQueue[n] = <<>> /\ inHand[n] = Nothing /\ receiveQueue[n] = <<>> /\ received[n] = <<>>
      BY <1>2
    <3> QED
      BY <2>2, <3>1, <3>2
  <2>4. ASSUME NEW t \in Thread
        PROVE  Holdings[<<"queue", t>>] = <<>> /\ Holdings[<<"current", t>>] = <<>>
    <3>1. /\ Holdings[<<"queue", t>>] = Packets(thread[t].queue)
          /\ Holdings[<<"current", t>>] = Packets(AtMostOne(thread[t].current))
      BY <2>1 DEF HoldingsKnown
    <3>2. thread[t].queue = <<>> /\ thread[t].current = Nothing
      BY <1>2
    <3> QED
      BY <2>2, <3>1, <3>2
  <2>5. ASSUME NEW t \in Thread, NEW n \in Node
        PROVE  Holdings[<<"wire", t, n>>] = <<>>
    BY <1>2, <2>1 DEF HoldingsKnown
  <2>6. PICK e : e = <<>>
    OBVIOUS
  <2>7. SUFFICES ASSUME NEW x \in Place PROVE Holdings[x] = e
    BY <2>6
  <2>8. ASSUME NEW n \in Node
        PROVE  x \in {<<"sendQueue", n>>, <<"inHand", n>>, <<"receiveQueue", n>>, <<"received", n>>}
               => Holdings[x] = e
    BY <2>3, <2>6
  <2>9. ASSUME NEW t \in Thread
        PROVE  x \in {<<"queue", t>>, <<"current", t>>} => Holdings[x] = e
    BY <2>4, <2>6
  <2>10. ASSUME NEW t \in Thread, NEW n \in Node
         PROVE  x = <<"wire", t, n>> => Holdings[x] = e
    BY <2>5, <2>6
  <2> QED
    BY <2>8, <2>9, <2>10, PlacesAre
<1>7. Positions = {}
  BY <1>6 DEF Positions
<1>8. HeldOnce /\ HeldWereSent
  BY <1>7 DEF HeldOnce, HeldWereSent
<1> QED
  BY <1>1, <1>3, <1>4, <1>5, <1>8 DEF IInv

LEMMA NextIInv == IInv /\ [Next]_vars => IInv'
<1> SUFFICES ASSUME IInv, [Next]_vars PROVE IInv'
  OBVIOUS
<1>1. ASSUME NEW p \in Packet, SendPacket(p) PROVE IInv'
  BY <1>1, SendPacketInv
<1>2. ASSUME NEW n \in Node, ReceivePacket(n) PROVE IInv'
  BY <1>2, ReceivePacketInv
<1>3. ASSUME NEW n \in Node, Dispatch(n) PROVE IInv'
  BY <1>3, DispatchInv
<1>4. ASSUME NEW n \in Node, EnqueueSendTask(n) PROVE IInv'
  BY <1>4, EnqueueSendTaskInv
<1>5. ASSUME NEW n \in Node, NEW t \in Thread, CreateSender(n, t) PROVE IInv'
  BY <1>5, CreateSenderInv
<1>6. ASSUME NEW n \in Node, NEW t \in Thread, ReceiveLoop(t, n) PROVE IInv'
  BY <1>6, ReceiveLoopInv
<1>7. ASSUME NEW n \in Node, NEW d \in Node, NEW t \in Thread, ConnectToServer(t, n, d) PROVE IInv'
  BY <1>7, ConnectToServerInv
<1>8. ASSUME NEW t \in Thread, Connect(t) PROVE IInv'
  BY <1>8, ConnectInv
<1>9. ASSUME NEW t \in Thread, Accept(t) PROVE IInv'
  BY <1>9, AcceptInv
<1>10. ASSUME NEW t \in Thread, Break(t) PROVE IInv'
  BY <1>10, BreakInv
<1>11. ASSUME NEW t \in Thread, SendLoop(t) PROVE IInv'
  BY <1>11, SendLoopInv
<1>12. ASSUME NEW t \in Thread, UnregisterSender(t) PROVE IInv'
  BY <1>12, UnregisterSenderInv
<1>13. ASSUME NEW t \in Thread, Requeue(t) PROVE IInv'
  BY <1>13, RequeueInv
<1>14. ASSUME NEW n \in Node, NEW t \in Thread, CreateServerSender(n, t) PROVE IInv'
  BY <1>14, CreateServerSenderInv
<1>15. CASE UNCHANGED vars
  <2>1. UNCHANGED <<sendQueue, inHand, senders, thread, wire, link, accepting, receiveQueue, sent, received>>
    BY <1>15 DEF vars, threadVars, wireVars, history
  <2>2. TypeOK' /\ ThreadsKnown' /\ LinksMade' /\ FoundSendersServe' /\ RegisteredOnce'
    BY <2>1 DEF IInv, TypeOK, ThreadsKnown, LinksMade, FoundSendersServe, RegisteredOnce
  <2>3. TasksAddressed' /\ PacketsAddressed'
    BY <2>1 DEF IInv, TasksAddressed, PacketsAddressed
  <2>4. HeldOnce' /\ HeldWereSent'
    BY <2>1, SameHeld
  <2> QED
    BY <2>2, <2>3, <2>4 DEF IInv
<1>16. CASE Next
  BY <1>16, <1>1, <1>2, <1>3, <1>4, <1>5, <1>6, <1>7, <1>8, <1>9, <1>10, <1>11, <1>12, <1>13, <1>14 DEF Next
<1> QED
  BY <1>15, <1>16

\* In every reachable state, the strengthened invariant holds.
THEOREM Invariant == Spec => []IInv
  BY InitIInv, NextIInv, PTL DEF Spec

\* TypeOK: the state is well formed, and every task that waits anywhere has a
\* try left.
THEOREM Types == Spec => []TypeOK
<1>1. IInv => TypeOK
  BY DEF IInv
<1> QED
  BY <1>1, Invariant, PTL

\* HeldOnce: however threads fail and tasks are given back, a packet is never in
\* two places, or twice in one.
THEOREM NeverTwice == Spec => []HeldOnce
<1>1. IInv => HeldOnce
  BY DEF IInv
<1> QED
  BY <1>1, Invariant, PTL

\* FoundSendersServe: a sender thread that the dispatch thread may find sends to
\* where it is registered, and is not giving back its tasks.
THEOREM FoundServe == Spec => []FoundSendersServe
<1>1. IInv => FoundSendersServe
  BY DEF IInv
<1> QED
  BY <1>1, Invariant, PTL

-----------------------------------------------------------------------------
(***************************************************************************)
(* The framework is a network that neither invents, misdirects nor         *)
(* duplicates packets.                                                     *)
(***************************************************************************)
LEMMA ReceiveIsNew ==
    ASSUME IInv, NEW n \in Node, receiveQueue[n] # <<>>
    PROVE  LET p == Head(receiveQueue[n])
           IN  /\ p \in Packet
               /\ p.dst = n
               /\ p \in sent
               /\ p \notin ToSet(received[n])
<1> DEFINE p == Head(receiveQueue[n])
<1>1. receiveQueue[n] \in Seq(Packet)
  BY DEF IInv, TypeOK
<1>2. p = receiveQueue[n][1] /\ p \in Packet /\ 1 \in DOMAIN receiveQueue[n]
  BY <1>1, FirstIs
<1>3. p.dst = n
  BY <1>2 DEF IInv, PacketsAddressed
<1> HIDE DEF p
<1>4. /\ Holdings[<<"receiveQueue", n>>] = receiveQueue[n]
      /\ Holdings[<<"received", n>>] = received[n]
  BY HoldingsAre DEF HoldingsKnown
<1>5. /\ <<"receiveQueue", n>> \in Place
      /\ <<"received", n>> \in Place
      /\ <<"receiveQueue", n>> # <<"received", n>>
  BY PlacesAre
<1>6. /\ Once(Holdings)
      /\ HeldIn(Holdings) \subseteq sent
  BY DEF IInv, HeldOnce, HeldWereSent, Once, HeldIn, Positions, Spots
<1>7. p \in sent
  <2>1. p \in HeldIn(Holdings)
    BY <1>2, <1>4, <1>5, OnceIs
  <2> QED
    BY <1>6, <2>1
<1>8. ASSUME p \in ToSet(received[n]) PROVE FALSE
  <2>1. PICK j \in DOMAIN received[n] : received[n][j] = p
    BY <1>8 DEF ToSet
  <2>2. \A x, y \in Place : \A i \in DOMAIN Holdings[x], k \in DOMAIN Holdings[y] :
            Holdings[x][i] = Holdings[y][k] => x = y /\ i = k
    BY <1>6, OnceIs
  <2>3. PICK x \in Place, y \in Place : x = <<"receiveQueue", n>> /\ y = <<"received", n>>
    BY <1>5
  <2>4. 1 \in DOMAIN Holdings[x] /\ j \in DOMAIN Holdings[y] /\ Holdings[x][1] = Holdings[y][j]
    BY <1>2, <1>4, <2>1, <2>3
  <2> QED
    BY <1>5, <2>2, <2>3, <2>4
<1> QED
  BY <1>2, <1>3, <1>7, <1>8 DEF p

LEMMA NetworkStep == IInv /\ [Next]_vars => [Network!Next]_<<sent, received>>
<1> SUFFICES ASSUME IInv, [Next]_vars
             PROVE  [Network!Next]_<<sent, received>>
  OBVIOUS
<1>1. ASSUME NEW p \in Packet, SendPacket(p)
      PROVE  Network!Send(p)
  BY <1>1 DEF SendPacket, Network!Send
<1>2. ASSUME NEW n \in Node, ReceivePacket(n)
      PROVE  \E p \in Packet : Network!Receive(p)
  <2>1. PICK p \in Packet : /\ p = Head(receiveQueue[n])
                            /\ p.dst = n
                            /\ p \in sent
                            /\ p \notin ToSet(received[n])
    BY <1>2, ReceiveIsNew DEF ReceivePacket
  <2>2. received' = [received EXCEPT ![p.dst] = Append(@, p)] /\ UNCHANGED sent
    BY <1>2, <2>1 DEF ReceivePacket
  <2> QED
    BY <2>1, <2>2 DEF Network!Receive, Network!ToSet, ToSet
<1>3. ASSUME NEW n \in Node, Dispatch(n) PROVE UNCHANGED <<sent, received>>
  BY <1>3 DEF Dispatch, history
<1>4. ASSUME NEW n \in Node, EnqueueSendTask(n) PROVE UNCHANGED <<sent, received>>
  BY <1>4 DEF EnqueueSendTask, history
<1>5. ASSUME NEW n \in Node, NEW t \in Thread,
             CreateSender(n, t) \/ CreateServerSender(n, t) \/ ReceiveLoop(t, n)
      PROVE  UNCHANGED <<sent, received>>
  BY <1>5 DEF CreateSender, CreateServerSender, ReceiveLoop, history
<1>6. ASSUME NEW n \in Node, NEW d \in Node, NEW t \in Thread, ConnectToServer(t, n, d)
      PROVE  UNCHANGED <<sent, received>>
  BY <1>6 DEF ConnectToServer, history
<1>7. ASSUME NEW t \in Thread,
             Connect(t) \/ Accept(t) \/ Break(t) \/ SendLoop(t) \/ UnregisterSender(t) \/ Requeue(t)
      PROVE  UNCHANGED <<sent, received>>
  BY <1>7 DEF Connect, Accept, Break, SendLoop, UnregisterSender, Requeue, history
<1>8. CASE UNCHANGED vars
  BY <1>8 DEF vars, history
<1>9. CASE Next
  BY <1>9, <1>1, <1>2, <1>3, <1>4, <1>5, <1>6, <1>7 DEF Next, Network!Next
<1> QED
  BY <1>8, <1>9

\* NetworkSpec: a packet is received only where it was sent to, and at most
\* once, whatever threads, queues and connections do with it in between.
THEOREM ImplementsNetwork == Spec => NetworkSpec
<1>1. Init => Network!Init
  BY DEF Init, Network!Init
<1> QED
  BY <1>1, Invariant, NetworkStep, PTL DEF Spec, NetworkSpec, Network!Spec
=============================================================================
