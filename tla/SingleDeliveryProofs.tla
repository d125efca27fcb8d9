------------------------ MODULE SingleDeliveryProofs ------------------------
(***************************************************************************)
(* Lemmas about the lists of unacknowledged messages of SingleDelivery,    *)
(* whatever the messages are.                                              *)
(***************************************************************************)
EXTENDS SingleDelivery, SequenceTheorems, TLAPS

\* On a list numbered a+1, a+2, ... the scan of truncate stops after the
\* messages up to n.
LEMMA CoveredSequential ==
    ASSUME NEW T, NEW u \in Seq(T), NEW a \in Nat, NEW n \in Nat,
           a <= n, n <= a + Len(u),
           \A i \in 1 .. Len(u) : u[i].seqno = a + i
    PROVE  Covered(u, n) = n - a
<1> DEFINE P(i) == /\ \A j \in 1 .. i : u[j].seqno <= n
                   /\ i < Len(u) => u[i + 1].seqno > n
<1>0. Len(u) \in Nat
  OBVIOUS
<1>1. n - a \in 0 .. Len(u)
  BY <1>0
<1>2. P(n - a)
  BY <1>0
<1>3. ASSUME NEW i \in 0 .. Len(u), P(i) PROVE i = n - a
  <2>1. i <= n - a
    <3>1. SUFFICES ASSUME i > n - a PROVE FALSE
      BY <1>0, <1>1
    <3>2. n - a + 1 \in 1 .. i /\ n - a + 1 \in 1 .. Len(u)
      BY <1>0, <3>1
    <3>3. u[n - a + 1].seqno = n + 1
      BY <1>0, <3>2
    <3> QED
      BY <1>3, <3>2, <3>3
  <2>2. i >= n - a
    <3>1. SUFFICES ASSUME i < n - a PROVE FALSE
      BY <1>0, <1>1
    <3>2. i < Len(u) /\ i + 1 \in 1 .. Len(u)
      BY <1>0, <3>1
    <3>3. u[i + 1].seqno = a + i + 1
      BY <1>0, <3>2
    <3> QED
      BY <1>0, <1>3, <3>1, <3>2, <3>3
  <2> QED
    BY <1>0, <2>1, <2>2
<1>4. Covered(u, n) = CHOOSE i \in 0 .. Len(u) : P(i)
  BY DEF Covered
<1> HIDE DEF P
<1> QED
  BY <1>1, <1>2, <1>3, <1>4

\* What is left of a list without its first c elements.
LEMMA DropFront ==
    ASSUME NEW T, NEW u \in Seq(T), NEW c \in 0 .. Len(u)
    PROVE  LET rest == SubSeq(u, c + 1, Len(u))
           IN  /\ rest \in Seq(T)
               /\ Len(rest) = Len(u) - c
               /\ \A i \in 1 .. Len(rest) : rest[i] = u[i + c]
<1>1. Len(u) \in Nat
  OBVIOUS
<1>2. c + 1 \in Int /\ Len(u) \in Int /\ \A i \in c + 1 .. Len(u) : u[i] \in T
  BY <1>1
<1> DEFINE rest == SubSeq(u, c + 1, Len(u))
<1>3. /\ rest \in Seq(T)
      /\ Len(rest) = IF c + 1 <= Len(u) THEN Len(u) - (c + 1) + 1 ELSE 0
      /\ \A i \in 1 .. Len(u) - (c + 1) + 1 : rest[i] = u[c + 1 + i - 1]
  BY <1>2, SubSeqProperties
<1> HIDE DEF rest
<1>4. Len(rest) = Len(u) - c
  BY <1>1, <1>3
<1>5. ASSUME NEW i \in 1 .. Len(rest) PROVE rest[i] = u[i + c]
  <2>1. i \in 1 .. Len(u) - (c + 1) + 1 /\ c + 1 + i - 1 = i + c
    BY <1>1, <1>4
  <2> QED
    BY <1>3, <2>1
<1> QED
  BY <1>3, <1>4, <1>5 DEF rest

\* The overflow guard of send_single_cmessage, without the code's wording.
LEMMA RoomForOneMore ==
    ASSUME NEW a \in Nat, NEW k \in Nat, NEW limit \in Nat,
           a + k <= limit, limit - a # k
    PROVE  a + k + 1 \in 0 .. limit
OBVIOUS

\* An acknowledgment n above a covers between 1 and k of the k messages that
\* follow a, if it is not of the future.
LEMMA NewlyAcked ==
    ASSUME NEW a \in Nat, NEW k \in Nat, NEW n \in Nat, ~(n <= a), n <= a + k
    PROVE  n - a \in 1 .. k
OBVIOUS
=============================================================================
