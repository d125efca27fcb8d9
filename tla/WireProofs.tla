----------------------------- MODULE WireProofs -----------------------------
(***************************************************************************)
(* Proofs that the byte encodings of the hosts are read back exactly, and  *)
(* that hosts and clients understand each other, for any bytes, words and  *)
(* messages (Marshalling, Wire).                                           *)
(***************************************************************************)
EXTENDS Wire, WellFoundedInduction, FiniteSetTheorems, SequenceTheorems, TLAPS

-----------------------------------------------------------------------------
(***************************************************************************)
(* Recursion and induction over numbers up to n, for sets and functions:   *)
(* the forms with an operator as a parameter are of no use to the provers. *)
(***************************************************************************)
LEMMA LeastElement ==
    ASSUME NEW T, T \subseteq Nat, T # {}
    PROVE  \E x \in T : \A y \in T : x <= y
<1>1. \E x \in T : \A y \in T : ~ (<<y, x>> \in OpToRel(<, Nat))
  BY WFMin, NatLessThanWellFounded, Zenon
<1>2. PICK x \in T : \A y \in T : ~ (<<y, x>> \in OpToRel(<, Nat))
  BY <1>1
<1>3. ASSUME NEW y \in T PROVE x <= y
  <2>1. y < x => <<y, x>> \in OpToRel(<, Nat)
    BY DEF OpToRel
  <2>2. ~(y < x)
    BY <1>2, <2>1
  <2> QED BY <2>2
<1> QED BY <1>3

LEMMA Induction ==
    ASSUME NEW n \in Nat, NEW T, 0 \in T, \A i \in 0 .. n - 1 : i \in T => i + 1 \in T
    PROVE  \A i \in 0 .. n : i \in T
<1> DEFINE Bad == {i \in 0 .. n : i \notin T}
<1>1. SUFFICES ASSUME Bad # {} PROVE FALSE
  OBVIOUS
<1>2. PICK x \in Bad : \A y \in Bad : x <= y
  <2>1. Bad \subseteq Nat
    OBVIOUS
  <2> HIDE DEF Bad
  <2> QED BY <1>1, <2>1, LeastElement
<1>3. x # 0 /\ x \in 0 .. n
  OBVIOUS
<1>4. x - 1 \in 0 .. n - 1 /\ x - 1 \notin Bad
  BY <1>2, <1>3
<1>5. x - 1 \in T /\ (x - 1) + 1 = x
  BY <1>3, <1>4
<1> QED BY <1>4, <1>5

\* f[i] is what the steps G[1], ..., G[i] make of x0, one after the other.
Iterates(f, n, S, x0, G) ==
    /\ f \in [0 .. n -> S]
    /\ f[0] = x0
    /\ \A i \in 1 .. n : f[i] = G[i][f[i - 1]]

LEMMA Recursion ==
    ASSUME NEW n \in Nat, NEW S, NEW x0 \in S, NEW G \in [1 .. n -> [S -> S]]
    PROVE  \E f : Iterates(f, n, S, x0, G)
<1> DEFINE Upto(m, f) == f \in [0 .. m -> S] /\ f[0] = x0 /\ \A i \in 1 .. m : f[i] = G[i][f[i - 1]]
           T == {m \in 0 .. n : \E f : Upto(m, f)}
<1>1. 0 \in T
  <2>1. Upto(0, [i \in 0 .. 0 |-> x0]) /\ 0 \in 0 .. n
    OBVIOUS
  <2> HIDE DEF Upto
  <2> QED BY <2>1, Zenon
<1>2. ASSUME NEW m \in 0 .. n - 1, m \in T PROVE m + 1 \in T
  <2>1. PICK f : Upto(m, f)
    BY <1>2, Zenon
  <2> DEFINE g == [i \in 0 .. m + 1 |-> IF i = m + 1 THEN G[m + 1][f[m]] ELSE f[i]]
  <2>2. G[m + 1][f[m]] \in S
    BY <2>1
  <2>3. g \in [0 .. m + 1 -> S]
    BY <2>1, <2>2
  <2>4. ASSUME NEW i \in 1 .. m + 1 PROVE g[i] = G[i][g[i - 1]]
    <3>1. i - 1 \in 0 .. m /\ g[i - 1] = f[i - 1]
      OBVIOUS
    <3> QED BY <2>1, <3>1
  <2>5. g[0] = x0 /\ m + 1 \in 0 .. n
    BY <2>1
  <2> HIDE DEF g
  <2>6. Upto(m + 1, g)
    BY <2>3, <2>4, <2>5
  <2> HIDE DEF Upto
  <2> QED BY <2>5, <2>6, Zenon
<1>3. n \in T
  <2>1. n \in 0 .. n
    OBVIOUS
  <2> HIDE DEF T
  <2> QED BY <1>1, <1>2, <2>1, Induction, Zenon
<1>4. PICK f : Upto(n, f)
  BY <1>3, Zenon
<1>5. Iterates(f, n, S, x0, G)
  BY <1>4 DEF Iterates
<1> QED BY <1>5
-----------------------------------------------------------------------------
(***************************************************************************)
(* Words: a number is the sum of its digits.                               *)
(***************************************************************************)
LEMMA Products ==
    /\ \A a, b \in Nat : a * b \in Nat
    /\ \A a, b, c \in Nat : a <= b => a * c <= b * c
    /\ \A a, b, c \in Nat : (a + b) * c = a * c + b * c
    /\ \A a, b, c \in Nat : a * (b * c) = (a * b) * c
    /\ \A a, b \in Nat : a * b = b * a
  OBVIOUS

LEMMA Division ==
    ASSUME NEW a \in Nat, NEW m \in Nat \ {0}
    PROVE  /\ a \div m \in Nat /\ a % m \in 0 .. m - 1
           /\ a = m * (a \div m) + (a % m)
  OBVIOUS

LEMMA DivisionIsUnique ==
    ASSUME NEW a \in Nat, NEW m \in Nat \ {0}, NEW q \in Nat, NEW r \in 0 .. m - 1, a = m * q + r
    PROVE  a \div m = q /\ a % m = r
  OBVIOUS

LEMMA WeightIs ==
    /\ Weight[0] = 1
    /\ \A i \in 1 .. WordSize : Weight[i] = Base * Weight[i - 1]
    /\ \A i \in 0 .. WordSize : Weight[i] \in Nat \ {0}
<1> DEFINE G == [i \in 1 .. WordSize |-> [x \in Nat \ {0} |-> Base * x]]
<1>1. WordSize \in Nat /\ Base \in Nat \ {0} /\ 1 \in Nat \ {0}
  BY WidthAssumption
<1>2. \A x \in Nat \ {0} : Base * x \in Nat \ {0}
  BY <1>1
<1>3. G \in [1 .. WordSize -> [Nat \ {0} -> Nat \ {0}]]
  BY <1>2
<1>4. \A i \in 1 .. WordSize, x \in Nat \ {0} : G[i][x] = Base * x
  OBVIOUS
<1> HIDE DEF G
<1>5. PICK f : Iterates(f, WordSize, Nat \ {0}, 1, G)
  BY <1>1, <1>3, Recursion
<1>6. ASSUME NEW i \in 1 .. WordSize PROVE f[i] = Base * f[i - 1]
  <2>1. i - 1 \in 0 .. WordSize
    BY <1>1
  <2>2. f[i - 1] \in Nat \ {0}
    BY <1>5, <2>1 DEF Iterates
  <2> QED BY <1>4, <1>5, <2>2 DEF Iterates
<1>7. f = [i \in 0 .. WordSize |-> IF i = 0 THEN 1 ELSE Base * f[i - 1]]
  BY <1>1, <1>5, <1>6 DEF Iterates
<1>8. Weight = [i \in 0 .. WordSize |-> IF i = 0 THEN 1 ELSE Base * Weight[i - 1]]
  BY <1>7, Zenon DEF Weight
<1>9. ASSUME NEW i \in 1 .. WordSize PROVE Weight[i] = Base * Weight[i - 1]
  BY <1>1, <1>8
<1>10. Weight[0] = 1
  BY <1>1, <1>8
<1> DEFINE T == {j \in 0 .. WordSize : Weight[j] = f[j]}
<1>11. 0 \in T
  BY <1>1, <1>5, <1>10 DEF Iterates
<1>12. ASSUME NEW i \in 0 .. WordSize - 1, i \in T PROVE i + 1 \in T
  <2>1. i + 1 \in 1 .. WordSize /\ i + 1 \in 0 .. WordSize /\ (i + 1) - 1 = i
    BY <1>1
  <2>2. Weight[i + 1] = Base * Weight[i] /\ f[i + 1] = Base * f[i]
    BY <1>6, <1>9, <2>1
  <2> QED BY <1>12, <2>1, <2>2
<1>13. \A i \in 0 .. WordSize : i \in T
  <2> HIDE DEF T
  <2> QED BY <1>1, <1>11, <1>12, Induction, Zenon
<1>14. \A i \in 0 .. WordSize : Weight[i] \in Nat \ {0}
  BY <1>5, <1>13 DEF Iterates
<1> QED BY <1>9, <1>10, <1>14

LEMMA Limits ==
    /\ Base \in Nat /\ Base > 5 /\ WordSize \in Nat \ {0}
    /\ UsizeMax \in Nat /\ Weight[WordSize] = UsizeMax + 1
    /\ Byte \subseteq Nat /\ \A b \in Byte : b < Base
    /\ U64 \subseteq Nat
  BY WidthAssumption, WeightIs DEF UsizeMax, Byte, U64

Word == [1 .. WordSize -> Byte]

\* sums[i] is the number the lowest i bytes of b make.
Sums(sums, b) ==
    /\ sums \in [0 .. WordSize -> Nat]
    /\ sums[0] = 0
    /\ \A i \in 1 .. WordSize : sums[i] = sums[i - 1] + b[i] * Weight[i - 1]

LEMMA WordLen == \A b \in Word : b \in Seq(Byte) /\ Len(b) = WordSize
  BY Limits DEF Word

LEMMA FromLeBytesSums ==
    ASSUME NEW b \in Word
    PROVE  \E sums : Sums(sums, b) /\ FromLeBytes(b) = sums[WordSize]
<1> DEFINE G == [i \in 1 .. WordSize |-> [x \in Nat |-> x + b[i] * Weight[i - 1]]]
<1>1. WordSize \in Nat /\ Len(b) = WordSize
  BY Limits, WordLen
<1>2. \A i \in 1 .. WordSize, x \in Nat : x + b[i] * Weight[i - 1] \in Nat
  <2> SUFFICES ASSUME NEW i \in 1 .. WordSize, NEW x \in Nat PROVE x + b[i] * Weight[i - 1] \in Nat
    OBVIOUS
  <2>1. b[i] \in Byte /\ i - 1 \in 0 .. WordSize
    BY <1>1 DEF Word
  <2>2. b[i] \in Nat /\ Weight[i - 1] \in Nat
    BY <2>1, Limits, WeightIs
  <2> QED BY <2>2
<1>3. G \in [1 .. WordSize -> [Nat -> Nat]]
  BY <1>2
<1>4. \A i \in 1 .. WordSize, x \in Nat : G[i][x] = x + b[i] * Weight[i - 1]
  OBVIOUS
<1> HIDE DEF G
<1>5. PICK f : Iterates(f, WordSize, Nat, 0, G)
  BY <1>1, <1>3, Recursion
<1>6. ASSUME NEW i \in 1 .. WordSize PROVE f[i] = f[i - 1] + b[i] * Weight[i - 1]
  <2>1. i - 1 \in 0 .. WordSize
    BY <1>1
  <2>2. f[i - 1] \in Nat
    BY <1>5, <2>1 DEF Iterates
  <2> QED BY <1>4, <1>5, <2>2 DEF Iterates
<1>7. f = [i \in 0 .. Len(b) |-> IF i = 0 THEN 0 ELSE f[i - 1] + b[i] * Weight[i - 1]]
  BY <1>1, <1>5, <1>6 DEF Iterates
<1> DEFINE upTo == CHOOSE g : g = [i \in 0 .. Len(b) |-> IF i = 0 THEN 0 ELSE g[i - 1] + b[i] * Weight[i - 1]]
<1>8. upTo = [i \in 0 .. Len(b) |-> IF i = 0 THEN 0 ELSE upTo[i - 1] + b[i] * Weight[i - 1]]
  BY <1>7, Zenon
<1>9. FromLeBytes(b) = upTo[WordSize]
  BY <1>1, Zenon DEF FromLeBytes
<1> HIDE DEF upTo
<1>10. ASSUME NEW i \in 1 .. WordSize PROVE upTo[i] = upTo[i - 1] + b[i] * Weight[i - 1]
  BY <1>1, <1>8
<1>11. upTo[0] = 0 /\ upTo = [i \in 0 .. WordSize |-> upTo[i]]
  BY <1>1, <1>8
<1> DEFINE T == {j \in 0 .. WordSize : upTo[j] = f[j]}
<1>12. 0 \in T
  BY <1>1, <1>5, <1>11 DEF Iterates
<1>13. ASSUME NEW i \in 0 .. WordSize - 1, i \in T PROVE i + 1 \in T
  <2>1. i + 1 \in 1 .. WordSize /\ i + 1 \in 0 .. WordSize /\ (i + 1) - 1 = i
    BY <1>1
  <2>2. upTo[i + 1] = upTo[i] + b[i + 1] * Weight[i] /\ f[i + 1] = f[i] + b[i + 1] * Weight[i]
    BY <1>6, <1>10, <2>1
  <2> QED BY <1>13, <2>1, <2>2
<1>14. \A i \in 0 .. WordSize : i \in T
  <2> HIDE DEF T
  <2> QED BY <1>1, <1>12, <1>13, Induction, Zenon
<1>15. \A i \in 0 .. WordSize : upTo[i] \in Nat
  BY <1>5, <1>14 DEF Iterates
<1>16. Sums(upTo, b)
  BY <1>10, <1>11, <1>15 DEF Sums
<1> QED BY <1>9, <1>16

\* The lowest i bytes of b are less than a byte behind them counts for.
LEMMA SumsAreLess ==
    ASSUME NEW b \in Word, NEW sums, Sums(sums, b)
    PROVE  \A i \in 0 .. WordSize : sums[i] < Weight[i]
<1> DEFINE T == {j \in 0 .. WordSize : sums[j] < Weight[j]}
<1>1. 0 \in T
  BY Limits, WeightIs DEF Sums
<1>2. ASSUME NEW i \in 0 .. WordSize - 1, i \in T PROVE i + 1 \in T
  <2>1. i + 1 \in 1 .. WordSize /\ i + 1 \in 0 .. WordSize /\ i \in 0 .. WordSize /\ (i + 1) - 1 = i
    BY Limits
  <2>2. sums[i + 1] = sums[i] + b[i + 1] * Weight[i] /\ Weight[i + 1] = Base * Weight[i]
    BY <2>1, WeightIs DEF Sums
  <2>3. sums[i] \in Nat /\ sums[i + 1] \in Nat /\ Weight[i] \in Nat
    BY <2>1, WeightIs DEF Sums
  <2>4. b[i + 1] \in Nat /\ b[i + 1] + 1 <= Base /\ Base \in Nat
    <3>1. b[i + 1] \in Byte
      BY <2>1 DEF Word
    <3> QED BY <3>1, Limits DEF Byte
  <2>5. (b[i + 1] + 1) * Weight[i] <= Base * Weight[i]
    <3> DEFINE c == b[i + 1] + 1
    <3>1. c \in Nat /\ c <= Base
      BY <2>4
    <3> HIDE DEF c
    <3>2. c * Weight[i] <= Base * Weight[i]
      BY <2>3, <2>4, <3>1, Products
    <3> QED BY <3>2 DEF c
  <2>6. (b[i + 1] + 1) * Weight[i] = b[i + 1] * Weight[i] + Weight[i]
    BY <2>3, <2>4
  <2>7. b[i + 1] * Weight[i] \in Nat /\ Base * Weight[i] \in Nat
    BY <2>3, <2>4
  <2>8. sums[i] < Weight[i]
    BY <1>2
  <2> QED BY <2>1, <2>2, <2>3, <2>5, <2>6, <2>7, <2>8
<1>3. \A i \in 0 .. WordSize : i \in T
  <2> HIDE DEF T
  <2> QED BY <1>1, <1>2, Limits, Induction, Zenon
<1> QED BY <1>3

\* The number of a word is in range, and has these bytes as its digits.
LEMMA SerializeFromLeBytes ==
    ASSUME NEW b \in Word
    PROVE  FromLeBytes(b) \in U64 /\ SerializeU64(FromLeBytes(b)) = b
<1>1. PICK sums : Sums(sums, b) /\ FromLeBytes(b) = sums[WordSize]
  BY FromLeBytesSums
<1> DEFINE n == FromLeBytes(b)
           Rest(i, h) == n = sums[i] + Weight[i] * h
           T == {j \in 0 .. WordSize : \E h \in Nat : Rest(WordSize - j, h)}
<1>2. n \in Nat /\ n < Weight[WordSize] /\ WordSize \in Nat
  BY <1>1, Limits, SumsAreLess, SMTT(30) DEF Sums
<1> HIDE DEF n
<1>3. 0 \in T
  <2>1. Rest(WordSize, 0) /\ WordSize - 0 = WordSize
    BY <1>1, <1>2, Limits DEF n
  <2> HIDE DEF Rest
  <2> QED BY <1>2, <2>1
<1>4. ASSUME NEW i \in 1 .. WordSize, NEW h \in Nat, Rest(i, h)
      PROVE  /\ Rest(i - 1, b[i] + Base * h)
             /\ b[i] + Base * h \in Nat
             /\ (n \div Weight[i - 1]) % Base = b[i]
  <2>1. i \in 0 .. WordSize /\ i - 1 \in 0 .. WordSize
    BY <1>2
  <2>2. sums[i] = sums[i - 1] + b[i] * Weight[i - 1] /\ Weight[i] = Base * Weight[i - 1]
    BY <1>1, WeightIs DEF Sums
  <2>3. sums[i - 1] \in Nat /\ Weight[i - 1] \in Nat \ {0} /\ sums[i - 1] < Weight[i - 1]
    BY <1>1, <2>1, WeightIs, SumsAreLess DEF Sums
  <2>4. b[i] \in Nat /\ b[i] \in 0 .. Base - 1 /\ Base \in Nat \ {0}
    BY <2>1, Limits DEF Word, Byte
  <2>5. b[i] + Base * h \in Nat
    BY <2>4
  <2>6. n = sums[i - 1] + b[i] * Weight[i - 1] + (Base * Weight[i - 1]) * h
    BY <1>4, <2>2
  <2>7. n = Weight[i - 1] * (b[i] + Base * h) + sums[i - 1]
    BY <2>3, <2>4, <2>6
  <2>8. n \div Weight[i - 1] = b[i] + Base * h
    <3> DEFINE p == Weight[i - 1]
               q == b[i] + Base * h
    <3>1. p \in Nat \ {0} /\ q \in Nat /\ n \in Nat /\ sums[i - 1] \in 0 .. p - 1 /\ n = p * q + sums[i - 1]
      BY <1>2, <2>3, <2>5, <2>7
    <3> HIDE DEF p, q
    <3>2. n \div p = q
      BY <3>1, DivisionIsUnique
    <3> QED BY <3>2 DEF p, q
  <2>9. (b[i] + Base * h) % Base = b[i]
    <3> DEFINE c == b[i] + Base * h
    <3>1. c = Base * h + b[i] /\ c \in Nat
      BY <2>4, <2>5
    <3> HIDE DEF c
    <3>2. c % Base = b[i]
      BY <2>4, <3>1, DivisionIsUnique
    <3> QED BY <3>2 DEF c
  <2> QED BY <2>3, <2>5, <2>7, <2>8, <2>9
<1>5. ASSUME NEW j \in 0 .. WordSize - 1, j \in T PROVE j + 1 \in T
  <2>1. PICK h \in Nat : Rest(WordSize - j, h)
    BY <1>5
  <2>2. WordSize - j \in 1 .. WordSize /\ (WordSize - j) - 1 = WordSize - (j + 1) /\ j + 1 \in 0 .. WordSize
    BY <1>2
  <2> HIDE DEF Rest
  <2>3. \E g \in Nat : Rest(WordSize - (j + 1), g)
    BY <1>4, <2>1, <2>2
  <2> QED BY <2>2, <2>3
<1>6. \A j \in 0 .. WordSize : j \in T
  <2> HIDE DEF T
  <2> QED BY <1>2, <1>3, <1>5, Induction, Zenon
<1>7. ASSUME NEW i \in 1 .. WordSize PROVE (n \div Weight[i - 1]) % Base = b[i]
  <2>1. WordSize - i \in 0 .. WordSize /\ WordSize - (WordSize - i) = i
    BY <1>2
  <2>2. \E h \in Nat : Rest(i, h)
    BY <1>6, <2>1
  <2> HIDE DEF Rest
  <2> QED BY <1>4, <2>2
<1>8. SerializeU64(n) = b
  BY <1>7 DEF SerializeU64, Word
<1>9. n \in U64
  BY <1>2, Limits DEF U64
<1> QED BY <1>8, <1>9 DEF n

LEMMA SerializeU64IsWord == \A n \in Nat : SerializeU64(n) \in Word
<1> SUFFICES ASSUME NEW n \in Nat, NEW i \in 1 .. WordSize
             PROVE  (n \div Weight[i - 1]) % Base \in Byte
  BY DEF SerializeU64, Word
<1>1. n \in Nat /\ i - 1 \in 0 .. WordSize
  BY Limits
<1>2. n \div Weight[i - 1] \in Nat
  BY <1>1, WeightIs, Division
<1> DEFINE h == n \div Weight[i - 1]
<1>3. h \in Nat /\ Base \in Nat \ {0}
  BY <1>2, Limits
<1> HIDE DEF h
<1>4. h % Base \in 0 .. Base - 1
  BY <1>3, Division
<1> QED BY <1>4 DEF Byte, h

\* A number is made of its digits.
LEMMA FromLeBytesSerialize ==
    ASSUME NEW n \in U64
    PROVE  FromLeBytes(SerializeU64(n)) = n
<1> DEFINE b == SerializeU64(n)
<1>1. b \in Word
  BY Limits, SerializeU64IsWord
<1>2. \A i \in 1 .. WordSize : b[i] = (n \div Weight[i - 1]) % Base
  BY DEF SerializeU64
<1> HIDE DEF b
<1>3. PICK sums : Sums(sums, b) /\ FromLeBytes(b) = sums[WordSize]
  BY <1>1, FromLeBytesSums
<1>4. n \in Nat /\ n <= UsizeMax /\ WordSize \in Nat
  BY Limits DEF U64
<1> DEFINE T == {j \in 0 .. WordSize : n = Weight[j] * (n \div Weight[j]) + sums[j]}
<1>5. 0 \in T
  <2>1. Weight[0] = 1 /\ sums[0] = 0
    BY <1>3, WeightIs DEF Sums
  <2>2. n \div 1 = n
    BY <1>4
  <2> QED BY <1>4, <2>1, <2>2
<1>6. ASSUME NEW j \in 0 .. WordSize - 1, j \in T PROVE j + 1 \in T
  <2>1. j + 1 \in 1 .. WordSize /\ j + 1 \in 0 .. WordSize /\ j \in 0 .. WordSize /\ (j + 1) - 1 = j
    BY <1>4
  <2> DEFINE p == Weight[j]
             h == n \div p
             d == h % Base
             q == h \div Base
             s == sums[j]
  <2>2. p \in Nat \ {0} /\ Weight[j + 1] = Base * p /\ Base \in Nat \ {0}
    BY <2>1, WeightIs, Limits
  <2>3. s \in Nat /\ s < p /\ sums[j + 1] = s + d * p
    BY <1>1, <1>2, <1>3, <2>1, SumsAreLess DEF Sums
  <2>4. h \in Nat /\ n = p * h + s
    BY <1>4, <1>6, <2>2, Division
  <2>5. q \in Nat /\ d \in 0 .. Base - 1 /\ h = Base * q + d
    BY <2>2, <2>4, Division
  <2> HIDE DEF p, d, q, s, h
  <2>6. n = (Base * p) * q + (s + d * p)
    <3>1. p * h = p * (Base * q) + p * d
      BY <2>2, <2>5
    <3>2. p * (Base * q) = (Base * p) * q
      BY <2>2, <2>5
    <3> QED BY <2>2, <2>3, <2>4, <2>5, <3>1, <3>2
  <2>7. sums[j + 1] < Base * p
    BY <1>1, <1>3, <2>1, <2>2, SumsAreLess
  <2>8. n \div (Base * p) = q
    <3> DEFINE m == Base * p
               r == s + d * p
    <3>1. m \in Nat \ {0} /\ r \in 0 .. m - 1
      <4>1. m \in Nat \ {0} /\ r \in Nat
        BY <2>2, <2>3, <2>5
      <4> QED BY <4>1, <2>3, <2>7
    <3>2. n = m * q + r
      BY <2>6
    <3> HIDE DEF m, r
    <3>3. n \div m = q
      BY <1>4, <2>5, <3>1, <3>2, DivisionIsUnique
    <3> QED BY <3>3 DEF m
  <2> QED BY <2>1, <2>2, <2>3, <2>6, <2>8
<1>7. \A j \in 0 .. WordSize : j \in T
  <2> HIDE DEF T
  <2> QED BY <1>4, <1>5, <1>6, Induction, Zenon
<1>8. n = Weight[WordSize] * (n \div Weight[WordSize]) + sums[WordSize]
  BY <1>4, <1>7
<1>9. n \div Weight[WordSize] = 0
  <2> DEFINE m == Weight[WordSize]
  <2>1. m \in Nat \ {0} /\ n \in 0 .. m - 1 /\ n = m * 0 + n
    BY <1>4, Limits
  <2> HIDE DEF m
  <2>2. n \div m = 0
    BY <1>4, <2>1, DivisionIsUnique
  <2> QED BY <2>2 DEF m
<1>10. n = sums[WordSize]
  BY <1>3, <1>4, <1>8, <1>9, Limits DEF Sums
<1> QED BY <1>3, <1>10 DEF b

-----------------------------------------------------------------------------
(***************************************************************************)
(* Bytes s that stand in data behind the first start bytes.                *)
(***************************************************************************)
At(data, start, s) ==
    /\ start + Len(s) <= Len(data)
    /\ \A i \in 1 .. Len(s) : data[start + i] = s[i]

\* A buffer is no longer than a usize can tell.
Buffer(data) == data \in Bytes /\ Len(data) <= UsizeMax

\* What r says is encoded by s, and r ends where s does.
Encodes(r, data, start, s) ==
    /\ r = Parsed(r.val, r.end)
    /\ r.end = start + Len(s)
    /\ At(data, start, s)

LEMMA AtConcat ==
    ASSUME NEW data, NEW start \in Nat, NEW s \in Bytes, NEW t \in Bytes, Len(data) \in Nat
    PROVE  At(data, start, s \o t) <=> At(data, start, s) /\ At(data, start + Len(s), t)
<1>1. /\ Len(s \o t) = Len(s) + Len(t)
      /\ Len(s) \in Nat /\ Len(t) \in Nat
      /\ \A i \in 1 .. Len(s) : (s \o t)[i] = s[i]
      /\ \A i \in 1 .. Len(t) : (s \o t)[Len(s) + i] = t[i]
  BY DEF Bytes
<1>2. ASSUME At(data, start, s \o t) PROVE At(data, start, s) /\ At(data, start + Len(s), t)
  <2>1. ASSUME NEW i \in 1 .. Len(s) PROVE data[start + i] = s[i]
    <3>1. i \in 1 .. Len(s \o t)
      BY <1>1
    <3> QED BY <1>1, <1>2, <3>1 DEF At
  <2>2. ASSUME NEW i \in 1 .. Len(t) PROVE data[(start + Len(s)) + i] = t[i]
    <3>1. Len(s) + i \in 1 .. Len(s \o t) /\ start + (Len(s) + i) = (start + Len(s)) + i
      BY <1>1
    <3>2. data[start + (Len(s) + i)] = (s \o t)[Len(s) + i]
      BY <1>2, <3>1 DEF At
    <3> QED BY <1>1, <3>1, <3>2
  <2>3. start + Len(s) <= Len(data) /\ (start + Len(s)) + Len(t) <= Len(data)
    BY <1>1, <1>2 DEF At
  <2> QED BY <2>1, <2>2, <2>3 DEF At
<1>3. ASSUME At(data, start, s), At(data, start + Len(s), t) PROVE At(data, start, s \o t)
  <2>1. start + Len(s \o t) <= Len(data)
    BY <1>1, <1>3 DEF At
  <2>2. ASSUME NEW i \in 1 .. Len(s \o t) PROVE data[start + i] = (s \o t)[i]
    <3>1. CASE i <= Len(s)
      <4>1. i \in 1 .. Len(s)
        BY <1>1, <3>1
      <4> QED BY <1>1, <1>3, <4>1 DEF At
    <3>2. CASE ~(i <= Len(s))
      <4>1. i - Len(s) \in 1 .. Len(t) /\ Len(s) + (i - Len(s)) = i /\ (start + Len(s)) + (i - Len(s)) = start + i
        BY <1>1, <3>2
      <4>2. data[(start + Len(s)) + (i - Len(s))] = t[i - Len(s)]
        BY <1>3, <4>1 DEF At
      <4>3. (s \o t)[Len(s) + (i - Len(s))] = t[i - Len(s)]
        BY <1>1, <4>1
      <4> QED BY <4>1, <4>2, <4>3
    <3> QED BY <3>1, <3>2
  <2> QED BY <2>1, <2>2 DEF At
<1> QED BY <1>2, <1>3

LEMMA AtOne ==
    ASSUME NEW data \in Bytes, NEW start \in Nat, NEW b
    PROVE  At(data, start, <<b>>) <=> start < Len(data) /\ data[start + 1] = b
<1>1. Len(<<b>>) = 1 /\ <<b>>[1] = b /\ Len(data) \in Nat
  BY DEF Bytes
<1> QED BY <1>1 DEF At

LEMMA AtSubSeq ==
    ASSUME NEW data \in Bytes, NEW start \in Nat, NEW s \in Bytes, At(data, start, s)
    PROVE  SubSeq(data, start + 1, start + Len(s)) = s
<1>1. Len(data) \in Nat /\ Len(s) \in Nat /\ start + Len(s) <= Len(data)
  BY DEF At, Bytes
<1>2. /\ SubSeq(data, start + 1, start + Len(s)) \in Seq(Byte)
      /\ Len(SubSeq(data, start + 1, start + Len(s))) = Len(s)
      /\ \A i \in 1 .. Len(s) : SubSeq(data, start + 1, start + Len(s))[i] = data[start + i]
  BY <1>1, SubSeqProperties DEF Bytes
<1> QED BY <1>2, SeqEqual DEF At, Bytes

LEMMA SubSeqIsAt ==
    ASSUME NEW data \in Bytes, NEW start \in Nat, NEW n \in Nat, start + n <= Len(data)
    PROVE  /\ SubSeq(data, start + 1, start + n) \in Bytes
           /\ Len(SubSeq(data, start + 1, start + n)) = n
           /\ At(data, start, SubSeq(data, start + 1, start + n))
<1>1. Len(data) \in Nat
  BY DEF Bytes
<1>2. /\ SubSeq(data, start + 1, start + n) \in Seq(Byte)
      /\ Len(SubSeq(data, start + 1, start + n)) = n
      /\ \A i \in 1 .. n : SubSeq(data, start + 1, start + n)[i] = data[start + i]
  BY <1>1, SubSeqProperties, SMTT(30) DEF Bytes
<1> QED BY <1>2 DEF At, Bytes

LEMMA AtWhole ==
    ASSUME NEW data \in Bytes, NEW s \in Bytes, At(data, 0, s), Len(s) = Len(data)
    PROVE  data = s
<1>1. \A i \in 1 .. Len(s) : data[i] = s[i]
  BY DEF At
<1> QED BY <1>1, SeqEqual DEF Bytes

LEMMA AtItself ==
    ASSUME NEW s \in Bytes
    PROVE  At(s, 0, s)
<1>1. Len(s) \in Nat
  BY DEF Bytes
<1> QED BY <1>1 DEF At

-----------------------------------------------------------------------------
(***************************************************************************)
(* The parts of a message: what is serialized is read back, wherever in a  *)
(* buffer it stands, and what is read was serialized like that.            *)
(***************************************************************************)
LEMMA BytesLen == \A b \in Bytes : Len(b) \in Nat
  BY DEF Bytes

LEMMA BufferLen ==
    ASSUME NEW data, Buffer(data)
    PROVE  data \in Bytes /\ Len(data) \in Nat /\ Len(data) <= UsizeMax /\ \A i \in 1 .. Len(data) : data[i] \in Byte
  BY DEF Buffer, Bytes

LEMMA AtWithin ==
    ASSUME NEW data, Buffer(data), NEW start \in Nat, NEW s \in Bytes, At(data, start, s)
    PROVE  Len(s) \in Nat /\ Len(s) <= UsizeMax /\ Len(s) \in U64 /\ start + Len(s) <= Len(data)
<1>1. Len(s) \in Nat /\ start + Len(s) <= Len(data)
  BY DEF At, Bytes
<1> QED BY <1>1, BufferLen, Limits DEF U64

LEMMA U64Bytes ==
    /\ \A n \in Nat : SerializeU64(n) \in Bytes /\ Len(SerializeU64(n)) = WordSize
    /\ \A n \in U64 : SerializeU64(n) \in Bytes /\ Len(SerializeU64(n)) = WordSize
  BY SerializeU64IsWord, WordLen, Limits DEF Bytes

LEMMA U64Reads ==
    ASSUME NEW data, Buffer(data), NEW start \in Nat, NEW n \in U64, At(data, start, SerializeU64(n))
    PROVE  DeserializeU64(data, start) = {Parsed(n, start + WordSize)}
<1>1. WordSize \in Nat /\ Len(data) \in Nat /\ data \in Bytes
  BY Limits, BufferLen
<1>2. start + WordSize <= Len(data)
  BY U64Bytes DEF At
<1>3. SubSeq(data, start + 1, start + WordSize) = SerializeU64(n)
  BY <1>1, AtSubSeq, U64Bytes
<1>4. ~(Len(data) < WordSize \/ start > Len(data) - WordSize)
  BY <1>1, <1>2
<1> QED BY <1>3, <1>4, FromLeBytesSerialize DEF DeserializeU64

LEMMA U64Exact ==
    ASSUME NEW data, Buffer(data), NEW start \in Nat, NEW r \in DeserializeU64(data, start)
    PROVE  r.val \in U64 /\ Encodes(r, data, start, SerializeU64(r.val))
<1>1. WordSize \in Nat /\ Len(data) \in Nat /\ data \in Bytes
  BY Limits, BufferLen
<1> DEFINE b == SubSeq(data, start + 1, start + WordSize)
<1>2. ~(Len(data) < WordSize \/ start > Len(data) - WordSize) /\ r = Parsed(FromLeBytes(b), start + WordSize)
  BY DEF DeserializeU64
<1>3. b \in Bytes /\ Len(b) = WordSize /\ At(data, start, b)
  <2>1. start + WordSize <= Len(data)
    BY <1>1, <1>2
  <2> QED BY <1>1, <2>1, SubSeqIsAt
<1> HIDE DEF b
<1>4. b \in Word
  BY <1>3 DEF Bytes, Word
<1>5. r.val = FromLeBytes(b) /\ r.end = start + WordSize /\ r = Parsed(r.val, r.end)
  BY <1>2 DEF Parsed
<1>6. r.val \in U64 /\ SerializeU64(r.val) = b
  BY <1>4, <1>5, SerializeFromLeBytes
<1> QED BY <1>3, <1>5, <1>6 DEF Encodes

LEMMA UsizeIsU64 ==
    ASSUME NEW data, Buffer(data), NEW start \in Nat
    PROVE  DeserializeUsize(data, start) = DeserializeU64(data, start)
<1>1. \A r \in DeserializeU64(data, start) : r.val <= UsizeMax
  BY U64Exact, Limits DEF U64
<1> QED BY <1>1 DEF DeserializeUsize

LEMMA BytesBytes ==
    ASSUME NEW b \in Bytes
    PROVE  SerializeBytes(b) \in Bytes /\ Len(SerializeBytes(b)) = WordSize + Len(b)
<1>1. b \in Seq(Byte) /\ Len(b) \in Nat
  BY DEF Bytes
<1>2. SerializeU64(Len(b)) \in Seq(Byte) /\ Len(SerializeU64(Len(b))) = WordSize
  BY <1>1, U64Bytes DEF Bytes
<1> QED BY <1>1, <1>2 DEF SerializeBytes, Bytes

LEMMA BytesReads ==
    ASSUME NEW data, Buffer(data), NEW start \in Nat, NEW b \in Bytes, At(data, start, SerializeBytes(b))
    PROVE  DeserializeBytes(data, start) = {Parsed(b, start + (WordSize + Len(b)))}
<1>1. WordSize \in Nat /\ Len(data) \in Nat /\ data \in Bytes /\ Len(data) <= UsizeMax /\ UsizeMax \in Nat /\ Len(b) \in Nat
  BY Limits, BufferLen DEF Bytes
<1>2. At(data, start, SerializeU64(Len(b))) /\ At(data, start + WordSize, b)
  BY <1>1, AtConcat, U64Bytes DEF SerializeBytes
<1> DEFINE end == start + WordSize
<1>3. DeserializeUsize(data, start) = {Parsed(Len(b), end)}
  <2>1. Len(b) \in U64
    BY <1>1, <1>2 DEF At, U64
  <2> QED BY <1>2, <2>1, U64Reads, UsizeIsU64
<1>4. end \in Nat /\ end + Len(b) <= Len(data) /\ UsizeMax - end >= Len(b)
  BY <1>1, <1>2 DEF At
<1>5. SubSeq(data, end + 1, end + Len(b)) = b
  BY <1>1, <1>2, <1>4, AtSubSeq
<1>6. end + Len(b) = start + (WordSize + Len(b))
  BY <1>1
<1> HIDE DEF end
<1>7. {r \in DeserializeUsize(data, start) : UsizeMax - r.end >= r.val /\ r.end + r.val <= Len(data)}
        = {Parsed(Len(b), end)}
  BY <1>3, <1>4 DEF Parsed
<1> DEFINE Of(len) == Parsed(SubSeq(data, len.end + 1, len.end + len.val), len.end + len.val)
<1>8. DeserializeBytes(data, start) = {Of(len) : len \in {Parsed(Len(b), end)}}
  BY <1>7 DEF DeserializeBytes
<1>9. Of(Parsed(Len(b), end)) = Parsed(b, start + (WordSize + Len(b)))
  BY <1>5, <1>6 DEF Parsed
<1> HIDE DEF Of
<1> QED BY <1>8, <1>9

LEMMA BytesExact ==
    ASSUME NEW data, Buffer(data), NEW start \in Nat, NEW r \in DeserializeBytes(data, start)
    PROVE  r.val \in Bytes /\ Encodes(r, data, start, SerializeBytes(r.val))
<1>1. WordSize \in Nat /\ Len(data) \in Nat /\ data \in Bytes
  BY Limits, BufferLen
<1>2. PICK len \in DeserializeU64(data, start) :
          /\ UsizeMax - len.end >= len.val /\ len.end + len.val <= Len(data)
          /\ r = Parsed(SubSeq(data, len.end + 1, len.end + len.val), len.end + len.val)
  BY UsizeIsU64 DEF DeserializeBytes
<1>3. /\ len.val \in U64 /\ len.val \in Nat
      /\ len.end = start + WordSize
      /\ At(data, start, SerializeU64(len.val))
      /\ SerializeU64(len.val) \in Bytes /\ Len(SerializeU64(len.val)) = WordSize
  <2>1. len.val \in U64 /\ Encodes(len, data, start, SerializeU64(len.val))
    BY <1>2, U64Exact
  <2> QED BY <2>1, U64Bytes, Limits DEF Encodes
<1> DEFINE b == SubSeq(data, len.end + 1, len.end + len.val)
<1>4. b \in Bytes /\ Len(b) = len.val /\ At(data, len.end, b)
  <2>1. len.end \in Nat /\ len.end + len.val <= Len(data)
    BY <1>1, <1>2, <1>3
  <2> QED BY <1>1, <1>3, <2>1, SubSeqIsAt
<1>5. r.val = b /\ r.end = len.end + len.val /\ r = Parsed(r.val, r.end)
  BY <1>2 DEF Parsed
<1> HIDE DEF b
<1>6. At(data, start, SerializeBytes(b))
  BY <1>1, <1>3, <1>4, AtConcat, ZenonT(40) DEF SerializeBytes
<1>7. r.end = start + Len(SerializeBytes(b))
  <2>1. Len(SerializeBytes(b)) = WordSize + len.val
    BY <1>4, BytesBytes
  <2> QED BY <1>1, <1>3, <1>5, <2>1
<1> QED BY <1>3, <1>4, <1>5, <1>6, <1>7 DEF Encodes

LEMMA OptionIs ==
    ASSUME NEW T
    PROVE  /\ \A o \in Option(T) : o = <<>> \/ (Len(o) = 1 /\ o[1] \in T /\ o = <<o[1]>>)
           /\ <<>> \in Option(T)
           /\ \A x \in T : <<x>> \in Option(T)
<1>1. ASSUME NEW o \in Option(T) PROVE o = <<>> \/ (Len(o) = 1 /\ o[1] \in T /\ o = <<o[1]>>)
  <2>1. o \in Seq(T) /\ Len(o) \in Nat /\ Len(o) <= 1
    BY DEF Option
  <2>2. CASE Len(o) = 0
    <3>1. o = <<>>
      BY <2>1, <2>2
    <3> QED BY <3>1
  <2>3. CASE Len(o) = 1
    <3>1. o[1] \in T
      BY <2>1, <2>3
    <3>2. o = <<o[1]>>
      BY <2>1, <2>3, <3>1, SeqEqual
    <3> QED BY <2>3, <3>1, <3>2, Zenon
  <2>4. Len(o) = 0 \/ Len(o) = 1
    BY <2>1
  <2> QED BY <2>2, <2>3, <2>4, Zenon
<1>2. <<>> \in Option(T) /\ \A x \in T : <<x>> \in Option(T)
  BY DEF Option
<1> QED BY <1>1, <1>2

LEMMA SerializeOptionIs ==
    /\ SerializeOptionU64(<<>>) = <<0>> /\ \A n : SerializeOptionU64(<<n>>) = <<1>> \o SerializeU64(n)
    /\ SerializeOptionBytes(<<>>) = <<0>> /\ \A b : SerializeOptionBytes(<<b>>) = <<1>> \o SerializeBytes(b)
<1>1. \A x : <<x>> # <<>> /\ <<x>>[1] = x
  OBVIOUS
<1> QED BY <1>1 DEF SerializeOptionU64, SerializeOptionBytes, SerializeOption

LEMMA Tags == \A b \in 0 .. 5 : b \in Byte /\ <<b>> \in Bytes /\ Len(<<b>>) = 1
  BY Limits DEF Byte, Bytes

\* Behind a tag of one byte.
LEMMA AtTagged ==
    ASSUME NEW data, Buffer(data), NEW start \in Nat, NEW b \in 0 .. 5, NEW s \in Bytes
    PROVE  /\ <<b>> \o s \in Bytes /\ Len(<<b>> \o s) = 1 + Len(s)
           /\ At(data, start, <<b>> \o s) <=> start < Len(data) /\ data[start + 1] = b /\ At(data, start + 1, s)
<1>1. <<b>> \in Bytes /\ Len(<<b>>) = 1
  BY Tags
<1>2. At(data, start, <<b>> \o s) <=> At(data, start, <<b>>) /\ At(data, start + 1, s)
  BY <1>1, AtConcat, BufferLen
<1>3. At(data, start, <<b>>) <=> start < Len(data) /\ data[start + 1] = b
  BY AtOne, BufferLen
<1>4. <<b>> \o s \in Bytes /\ Len(<<b>> \o s) = 1 + Len(s)
  BY <1>1 DEF Bytes
<1> QED BY <1>2, <1>3, <1>4

LEMMA ParsedIs == \A v, e : Parsed(v, e).val = v /\ Parsed(v, e).end = e
  BY DEF Parsed

LEMMA OfOne ==
    ASSUME NEW v, NEW e
    PROVE  {Parsed(<<r.val>>, r.end) : r \in {Parsed(v, e)}} = {Parsed(<<v>>, e)}
  BY DEF Parsed

LEMMA DeserializeOptionIs ==
    ASSUME NEW data, Buffer(data), NEW start \in Nat
    PROVE  /\ start < Len(data) /\ data[start + 1] = 0 =>
                /\ DeserializeOptionU64(data, start) = {Parsed(<<>>, start + 1)}
                /\ DeserializeOptionBytes(data, start) = {Parsed(<<>>, start + 1)}
           /\ start < Len(data) /\ data[start + 1] = 1 =>
                /\ DeserializeOptionU64(data, start) =
                        {Parsed(<<r.val>>, r.end) : r \in DeserializeU64(data, start + 1)}
                /\ DeserializeOptionBytes(data, start) =
                        {Parsed(<<r.val>>, r.end) : r \in DeserializeBytes(data, start + 1)}
           /\ ~(start < Len(data) /\ data[start + 1] \in {0, 1}) =>
                DeserializeOptionU64(data, start) = {} /\ DeserializeOptionBytes(data, start) = {}
<1>1. Len(data) \in Nat
  BY BufferLen
<1>2. start < Len(data) <=> ~(Len(data) = 0 \/ start > Len(data) - 1)
  BY <1>1
<1>3. 0 # 1
  OBVIOUS
<1>4. ASSUME start < Len(data), data[start + 1] = 0
      PROVE  /\ DeserializeOptionU64(data, start) = {Parsed(<<>>, start + 1)}
             /\ DeserializeOptionBytes(data, start) = {Parsed(<<>>, start + 1)}
  BY <1>2, <1>3, <1>4, Zenon DEF DeserializeOptionU64, DeserializeOptionBytes, DeserializeOption
<1>5. ASSUME start < Len(data), data[start + 1] = 1
      PROVE  /\ DeserializeOptionU64(data, start) =
                        {Parsed(<<r.val>>, r.end) : r \in DeserializeU64(data, start + 1)}
             /\ DeserializeOptionBytes(data, start) =
                        {Parsed(<<r.val>>, r.end) : r \in DeserializeBytes(data, start + 1)}
  BY <1>2, <1>3, <1>5, Zenon DEF DeserializeOptionU64, DeserializeOptionBytes, DeserializeOption, As
<1>6. ASSUME ~(start < Len(data) /\ data[start + 1] \in {0, 1})
      PROVE  DeserializeOptionU64(data, start) = {} /\ DeserializeOptionBytes(data, start) = {}
  <2>1. CASE ~(start < Len(data))
    BY <1>2, <2>1, Zenon DEF DeserializeOptionU64, DeserializeOptionBytes, DeserializeOption
  <2>2. CASE start < Len(data)
    <3>1. data[start + 1] # 0 /\ data[start + 1] # 1
      BY <1>6, <2>2
    <3> QED BY <1>2, <2>2, <3>1, Zenon DEF DeserializeOptionU64, DeserializeOptionBytes, DeserializeOption
  <2> QED BY <2>1, <2>2
<1> QED BY <1>4, <1>5, <1>6

LEMMA OptionU64Bytes ==
    ASSUME NEW o \in Option(U64)
    PROVE  SerializeOptionU64(o) \in Bytes /\ Len(SerializeOptionU64(o)) \in Nat
<1>1. CASE o = <<>>
  <2>1. SerializeOptionU64(o) = <<0>> /\ 0 \in 0 .. 5
    BY <1>1, SerializeOptionIs
  <2>2. <<0>> \in Bytes /\ Len(<<0>>) = 1
    BY <2>1, Tags
  <2> QED BY <2>1, <2>2
<1>2. CASE o[1] \in U64 /\ o = <<o[1]>>
  <2>1. SerializeOptionU64(o) = <<1>> \o SerializeU64(o[1]) /\ SerializeU64(o[1]) \in Bytes /\ <<1>> \in Bytes
    BY <1>2, SerializeOptionIs, U64Bytes, Tags
  <2> QED BY <2>1 DEF Bytes
<1> QED BY <1>1, <1>2, OptionIs

LEMMA OptionU64Reads ==
    ASSUME NEW data, Buffer(data), NEW start \in Nat, NEW o \in Option(U64), At(data, start, SerializeOptionU64(o))
    PROVE  DeserializeOptionU64(data, start) = {Parsed(o, start + Len(SerializeOptionU64(o)))}
<1>1. CASE o = <<>>
  <2>1. At(data, start, <<0>>)
    BY <1>1, SerializeOptionIs
  <2> QED BY <1>1, <2>1, AtOne, BufferLen, SerializeOptionIs, Tags, DeserializeOptionIs
<1>2. CASE o[1] \in U64 /\ o = <<o[1]>>
  <2> DEFINE n == o[1]
  <2>1. SerializeOptionU64(o) = <<1>> \o SerializeU64(n) /\ n \in U64
    BY <1>2, SerializeOptionIs
  <2>2. /\ start < Len(data) /\ data[start + 1] = 1 /\ At(data, start + 1, SerializeU64(n))
        /\ Len(SerializeOptionU64(o)) = 1 + WordSize
    BY <2>1, U64Bytes, AtTagged
  <2>3. DeserializeU64(data, start + 1) = {Parsed(n, (start + 1) + WordSize)}
    BY <2>1, <2>2, U64Reads
  <2>4. DeserializeOptionU64(data, start) = {Parsed(<<n>>, (start + 1) + WordSize)}
    <3>1. DeserializeOptionU64(data, start) = {Parsed(<<r.val>>, r.end) : r \in DeserializeU64(data, start + 1)}
      BY <2>2, DeserializeOptionIs
    <3> QED BY <2>3, <3>1, OfOne
  <2>5. (start + 1) + WordSize = start + (1 + WordSize)
    BY Limits
  <2> QED BY <1>2, <2>2, <2>4, <2>5
<1> QED BY <1>1, <1>2, OptionIs

LEMMA OptionU64Exact ==
    ASSUME NEW data, Buffer(data), NEW start \in Nat, NEW r \in DeserializeOptionU64(data, start)
    PROVE  r.val \in Option(U64) /\ Encodes(r, data, start, SerializeOptionU64(r.val))
<1>1. start < Len(data) /\ data[start + 1] \in {0, 1}
  BY DeserializeOptionIs
<1>2. CASE data[start + 1] = 0
  <2>1. r = Parsed(<<>>, start + 1)
    BY <1>1, <1>2, DeserializeOptionIs
  <2>2. At(data, start, <<0>>)
    BY <1>1, <1>2, AtOne, BufferLen
  <2> QED BY <2>1, <2>2, OptionIs, SerializeOptionIs, Tags DEF Encodes, Parsed
<1>3. CASE data[start + 1] = 1
  <2>1. PICK x \in DeserializeU64(data, start + 1) : r = Parsed(<<x.val>>, x.end)
    BY <1>1, <1>3, DeserializeOptionIs
  <2>2. x.val \in U64 /\ Encodes(x, data, start + 1, SerializeU64(x.val))
    BY <2>1, U64Exact
  <2>3. r.val = <<x.val>> /\ r.end = x.end /\ r = Parsed(r.val, r.end)
    BY <2>1 DEF Parsed
  <2>4. SerializeOptionU64(r.val) = <<1>> \o SerializeU64(x.val)
    BY <2>3, SerializeOptionIs
  <2>5. At(data, start, <<1>> \o SerializeU64(x.val)) /\ Len(<<1>> \o SerializeU64(x.val)) = 1 + WordSize
    BY <1>1, <1>3, <2>2, U64Bytes, AtTagged DEF Encodes
  <2>6. r.end = start + (1 + WordSize)
    <3>1. x.end = (start + 1) + WordSize
      BY <2>2, U64Bytes DEF Encodes
    <3> QED BY <2>3, <3>1, Limits
  <2>7. r.val \in Option(U64)
    BY <2>2, <2>3, OptionIs
  <2> QED BY <2>3, <2>4, <2>5, <2>6, <2>7 DEF Encodes
<1> QED BY <1>1, <1>2, <1>3

LEMMA OptionBytesBytes ==
    ASSUME NEW o \in Option(Bytes)
    PROVE  SerializeOptionBytes(o) \in Bytes /\ Len(SerializeOptionBytes(o)) \in Nat
<1>1. CASE o = <<>>
  <2>1. SerializeOptionBytes(o) = <<0>> /\ 0 \in 0 .. 5
    BY <1>1, SerializeOptionIs
  <2>2. <<0>> \in Bytes /\ Len(<<0>>) = 1
    BY <2>1, Tags
  <2> QED BY <2>1, <2>2
<1>2. CASE o[1] \in Bytes /\ o = <<o[1]>>
  <2>1. SerializeOptionBytes(o) = <<1>> \o SerializeBytes(o[1]) /\ SerializeBytes(o[1]) \in Bytes /\ <<1>> \in Bytes
    BY <1>2, SerializeOptionIs, BytesBytes, Tags
  <2> QED BY <2>1 DEF Bytes
<1> QED BY <1>1, <1>2, OptionIs

LEMMA OptionBytesReads ==
    ASSUME NEW data, Buffer(data), NEW start \in Nat, NEW o \in Option(Bytes), At(data, start, SerializeOptionBytes(o))
    PROVE  DeserializeOptionBytes(data, start) = {Parsed(o, start + Len(SerializeOptionBytes(o)))}
<1>1. CASE o = <<>>
  <2>1. At(data, start, <<0>>)
    BY <1>1, SerializeOptionIs
  <2> QED BY <1>1, <2>1, AtOne, BufferLen, SerializeOptionIs, Tags, DeserializeOptionIs, ZenonT(40)
<1>2. CASE o[1] \in Bytes /\ o = <<o[1]>>
  <2> DEFINE n == o[1]
  <2>1. SerializeOptionBytes(o) = <<1>> \o SerializeBytes(n) /\ n \in Bytes
    BY <1>2, SerializeOptionIs
  <2>2. /\ start < Len(data) /\ data[start + 1] = 1 /\ At(data, start + 1, SerializeBytes(n))
        /\ Len(SerializeOptionBytes(o)) = 1 + (WordSize + Len(n))
    BY <2>1, BytesBytes, AtTagged
  <2>3. DeserializeBytes(data, start + 1) = {Parsed(n, (start + 1) + (WordSize + Len(n)))}
    BY <2>1, <2>2, BytesReads
  <2>4. DeserializeOptionBytes(data, start) = {Parsed(<<n>>, (start + 1) + (WordSize + Len(n)))}
    <3>1. DeserializeOptionBytes(data, start) = {Parsed(<<r.val>>, r.end) : r \in DeserializeBytes(data, start + 1)}
      BY <2>2, DeserializeOptionIs
    <3> QED BY <2>3, <3>1, OfOne
  <2>5. (start + 1) + (WordSize + Len(n)) = start + (1 + (WordSize + Len(n)))
    <3>1. Len(n) \in Nat /\ WordSize \in Nat
      BY <2>1, BytesLen, Limits
    <3> HIDE DEF n
    <3> QED BY <3>1
  <2> QED BY <1>2, <2>2, <2>4, <2>5
<1> QED BY <1>1, <1>2, OptionIs

LEMMA OptionBytesExact ==
    ASSUME NEW data, Buffer(data), NEW start \in Nat, NEW r \in DeserializeOptionBytes(data, start)
    PROVE  r.val \in Option(Bytes) /\ Encodes(r, data, start, SerializeOptionBytes(r.val))
<1>1. start < Len(data) /\ data[start + 1] \in {0, 1}
  BY DeserializeOptionIs
<1>2. CASE data[start + 1] = 0
  <2>1. r = Parsed(<<>>, start + 1)
    BY <1>1, <1>2, DeserializeOptionIs
  <2>2. At(data, start, <<0>>)
    BY <1>1, <1>2, AtOne, BufferLen
  <2> QED BY <2>1, <2>2, OptionIs, SerializeOptionIs, Tags DEF Encodes, Parsed
<1>3. CASE data[start + 1] = 1
  <2>1. PICK x \in DeserializeBytes(data, start + 1) : r = Parsed(<<x.val>>, x.end)
    BY <1>1, <1>3, DeserializeOptionIs
  <2>2. x.val \in Bytes /\ Encodes(x, data, start + 1, SerializeBytes(x.val))
    BY <2>1, BytesExact
  <2>3. r.val = <<x.val>> /\ r.end = x.end /\ r = Parsed(r.val, r.end)
    BY <2>1 DEF Parsed
  <2>4. SerializeOptionBytes(r.val) = <<1>> \o SerializeBytes(x.val)
    BY <2>3, SerializeOptionIs
  <2>5. At(data, start, <<1>> \o SerializeBytes(x.val)) /\ Len(<<1>> \o SerializeBytes(x.val)) = 1 + (WordSize + Len(x.val))
    BY <1>1, <1>3, <2>2, BytesBytes, AtTagged, SMTT(30) DEF Encodes
  <2>6. r.end = start + (1 + (WordSize + Len(x.val)))
    <3>1. x.end = (start + 1) + (WordSize + Len(x.val))
      BY <2>2, BytesBytes DEF Encodes
    <3>2. Len(x.val) \in Nat /\ WordSize \in Nat
      BY <2>2, BytesLen, Limits
    <3> DEFINE e == x.end
               n == Len(x.val)
               w == WordSize
    <3>3. e = (start + 1) + (w + n) /\ n \in Nat /\ w \in Nat /\ r.end = e
      BY <2>3, <3>1, <3>2
    <3> HIDE DEF e, n, w
    <3>4. r.end = start + (1 + (w + n))
      BY <3>3
    <3> QED BY <3>4 DEF n, w
  <2>7. r.val \in Option(Bytes)
    BY <2>2, <2>3, OptionIs
  <2> QED BY <2>3, <2>4, <2>5, <2>6, <2>7 DEF Encodes
<1> QED BY <1>1, <1>2, <1>3

-----------------------------------------------------------------------------
(***************************************************************************)
(* Two parts, one behind the other: what parses to a pair, and a pair of   *)
(* which either part parses to one value.                                  *)
(***************************************************************************)
U64AndBytes(data, start) == DeserializePair(DeserializeU64, DeserializeBytes, data, start)

LEMMA U64AndBytesAre ==
    ASSUME NEW data, NEW start
    PROVE  \A p : p \in U64AndBytes(data, start) <=>
                \E x \in DeserializeU64(data, start) : \E y \in DeserializeBytes(data, x.end) :
                    p = Parsed(<<x.val, y.val>>, y.end)
<1> DEFINE Behind(x) == {Parsed(<<x.val, y.val>>, y.end) : y \in DeserializeBytes(data, x.end)}
<1>1. U64AndBytes(data, start) = UNION {Behind(x) : x \in DeserializeU64(data, start)}
  BY Zenon DEF U64AndBytes, DeserializePair, As
<1>2. \A p, x : p \in Behind(x) <=> \E y \in DeserializeBytes(data, x.end) : p = Parsed(<<x.val, y.val>>, y.end)
  BY Zenon
<1> HIDE DEF Behind
<1>3. \A p : p \in U64AndBytes(data, start) <=> \E x \in DeserializeU64(data, start) : p \in Behind(x)
  BY <1>1, Zenon
<1> QED BY <1>2, <1>3

LEMMA U64AndBytesOfOne ==
    ASSUME NEW data, NEW start, NEW a, NEW m, NEW b, NEW e,
           DeserializeU64(data, start) = {Parsed(a, m)}, DeserializeBytes(data, m) = {Parsed(b, e)}
    PROVE  U64AndBytes(data, start) = {Parsed(<<a, b>>, e)}
<1>1. \A x \in DeserializeU64(data, start) : x.val = a /\ x.end = m
  BY ParsedIs
<1>2. \A y \in DeserializeBytes(data, m) : y.val = b /\ y.end = e
  BY ParsedIs
<1>3. Parsed(a, m) \in DeserializeU64(data, start) /\ Parsed(b, e) \in DeserializeBytes(data, m)
  OBVIOUS
<1>4. ASSUME NEW p \in U64AndBytes(data, start) PROVE p = Parsed(<<a, b>>, e)
  <2>1. PICK x \in DeserializeU64(data, start) : \E y \in DeserializeBytes(data, x.end) : p = Parsed(<<x.val, y.val>>, y.end)
    BY U64AndBytesAre
  <2> QED BY <1>1, <1>2, <2>1
<1>5. Parsed(<<a, b>>, e) \in U64AndBytes(data, start)
  <2>1. Parsed(a, m).val = a /\ Parsed(a, m).end = m /\ Parsed(b, e).val = b /\ Parsed(b, e).end = e
    BY ParsedIs
  <2> QED BY <1>3, <2>1, U64AndBytesAre
<1> QED BY <1>4, <1>5

U64AndOption(data, start) == DeserializePair(DeserializeU64, DeserializeOptionBytes, data, start)

LEMMA U64AndOptionAre ==
    ASSUME NEW data, NEW start
    PROVE  \A p : p \in U64AndOption(data, start) <=>
                \E x \in DeserializeU64(data, start) : \E y \in DeserializeOptionBytes(data, x.end) :
                    p = Parsed(<<x.val, y.val>>, y.end)
<1> DEFINE Behind(x) == {Parsed(<<x.val, y.val>>, y.end) : y \in DeserializeOptionBytes(data, x.end)}
<1>1. U64AndOption(data, start) = UNION {Behind(x) : x \in DeserializeU64(data, start)}
  BY Zenon DEF U64AndOption, DeserializePair, As
<1>2. \A p, x : p \in Behind(x) <=> \E y \in DeserializeOptionBytes(data, x.end) : p = Parsed(<<x.val, y.val>>, y.end)
  BY Zenon
<1> HIDE DEF Behind
<1>3. \A p : p \in U64AndOption(data, start) <=> \E x \in DeserializeU64(data, start) : p \in Behind(x)
  BY <1>1, Zenon
<1> QED BY <1>2, <1>3

LEMMA U64AndOptionOfOne ==
    ASSUME NEW data, NEW start, NEW a, NEW m, NEW b, NEW e,
           DeserializeU64(data, start) = {Parsed(a, m)}, DeserializeOptionBytes(data, m) = {Parsed(b, e)}
    PROVE  U64AndOption(data, start) = {Parsed(<<a, b>>, e)}
<1>1. \A x \in DeserializeU64(data, start) : x.val = a /\ x.end = m
  BY ParsedIs
<1>2. \A y \in DeserializeOptionBytes(data, m) : y.val = b /\ y.end = e
  BY ParsedIs
<1>3. Parsed(a, m) \in DeserializeU64(data, start) /\ Parsed(b, e) \in DeserializeOptionBytes(data, m)
  OBVIOUS
<1>4. ASSUME NEW p \in U64AndOption(data, start) PROVE p = Parsed(<<a, b>>, e)
  <2>1. PICK x \in DeserializeU64(data, start) : \E y \in DeserializeOptionBytes(data, x.end) : p = Parsed(<<x.val, y.val>>, y.end)
    BY U64AndOptionAre
  <2> QED BY <1>1, <1>2, <2>1
<1>5. Parsed(<<a, b>>, e) \in U64AndOption(data, start)
  <2>1. Parsed(a, m).val = a /\ Parsed(a, m).end = m /\ Parsed(b, e).val = b /\ Parsed(b, e).end = e
    BY ParsedIs
  <2> QED BY <1>3, <2>1, U64AndOptionAre
<1> QED BY <1>4, <1>5

TwoOptions(data, start) == DeserializePair(DeserializeOptionU64, DeserializeOptionU64, data, start)

LEMMA TwoOptionsAre ==
    ASSUME NEW data, NEW start
    PROVE  \A p : p \in TwoOptions(data, start) <=>
                \E x \in DeserializeOptionU64(data, start) : \E y \in DeserializeOptionU64(data, x.end) :
                    p = Parsed(<<x.val, y.val>>, y.end)
<1> DEFINE Behind(x) == {Parsed(<<x.val, y.val>>, y.end) : y \in DeserializeOptionU64(data, x.end)}
<1>1. TwoOptions(data, start) = UNION {Behind(x) : x \in DeserializeOptionU64(data, start)}
  BY Zenon DEF TwoOptions, DeserializePair, As
<1>2. \A p, x : p \in Behind(x) <=> \E y \in DeserializeOptionU64(data, x.end) : p = Parsed(<<x.val, y.val>>, y.end)
  BY Zenon
<1> HIDE DEF Behind
<1>3. \A p : p \in TwoOptions(data, start) <=> \E x \in DeserializeOptionU64(data, start) : p \in Behind(x)
  BY <1>1, Zenon
<1> QED BY <1>2, <1>3

LEMMA TwoOptionsOfOne ==
    ASSUME NEW data, NEW start, NEW a, NEW m, NEW b, NEW e,
           DeserializeOptionU64(data, start) = {Parsed(a, m)}, DeserializeOptionU64(data, m) = {Parsed(b, e)}
    PROVE  TwoOptions(data, start) = {Parsed(<<a, b>>, e)}
<1>1. \A x \in DeserializeOptionU64(data, start) : x.val = a /\ x.end = m
  BY ParsedIs
<1>2. \A y \in DeserializeOptionU64(data, m) : y.val = b /\ y.end = e
  BY ParsedIs
<1>3. Parsed(a, m) \in DeserializeOptionU64(data, start) /\ Parsed(b, e) \in DeserializeOptionU64(data, m)
  OBVIOUS
<1>4. ASSUME NEW p \in TwoOptions(data, start) PROVE p = Parsed(<<a, b>>, e)
  <2>1. PICK x \in DeserializeOptionU64(data, start) : \E y \in DeserializeOptionU64(data, x.end) : p = Parsed(<<x.val, y.val>>, y.end)
    BY TwoOptionsAre
  <2> QED BY <1>1, <1>2, <2>1
<1>5. Parsed(<<a, b>>, e) \in TwoOptions(data, start)
  <2>1. Parsed(a, m).val = a /\ Parsed(a, m).end = m /\ Parsed(b, e).val = b /\ Parsed(b, e).end = e
    BY ParsedIs
  <2> QED BY <1>3, <2>1, TwoOptionsAre
<1> QED BY <1>4, <1>5

LEMMA ConcatIs ==
    ASSUME NEW s \in Bytes, NEW t \in Bytes
    PROVE  s \o t \in Bytes /\ Len(s \o t) = Len(s) + Len(t) /\ Len(s) \in Nat /\ Len(t) \in Nat
  BY DEF Bytes

LEMMA AtBoth ==
    ASSUME NEW data, Buffer(data), NEW start \in Nat, NEW s \in Bytes, NEW t \in Bytes, At(data, start, s \o t)
    PROVE  /\ At(data, start, s) /\ At(data, start + Len(s), t)
           /\ start + Len(s) \in Nat
           /\ (start + Len(s)) + Len(t) = start + Len(s \o t)
<1>1. Len(s \o t) = Len(s) + Len(t) /\ Len(s) \in Nat /\ Len(t) \in Nat
  BY ConcatIs
<1> QED BY <1>1, AtConcat, BufferLen

LEMMA EncodesBoth ==
    ASSUME NEW data, Buffer(data), NEW start \in Nat, NEW s \in Bytes, NEW t \in Bytes,
           NEW x, Encodes(x, data, start, s), NEW y, Encodes(y, data, x.end, t)
    PROVE  /\ At(data, start, s \o t)
           /\ y.end = start + Len(s \o t)
<1>1. Len(s \o t) = Len(s) + Len(t) /\ Len(s) \in Nat /\ Len(t) \in Nat
  BY ConcatIs
<1> QED BY <1>1, AtConcat, BufferLen DEF Encodes

LEMMA EncodesEnd ==
    ASSUME NEW data, Buffer(data), NEW start \in Nat, NEW s \in Bytes, NEW x, Encodes(x, data, start, s)
    PROVE  x.end \in Nat /\ x.end <= Len(data) /\ x = Parsed(x.val, x.end)
<1>1. Len(s) \in Nat
  BY BytesLen
<1> QED BY <1>1, BufferLen DEF Encodes, At

-----------------------------------------------------------------------------
(***************************************************************************)
(* The elements of a table, and ranges of keys.                            *)
(***************************************************************************)
CKeyKVs == [k : U64, v : Bytes]

LEMMA CKeyKVBytes ==
    ASSUME NEW kv \in CKeyKVs
    PROVE  SerializeCKeyKV(kv) \in Bytes /\ Len(SerializeCKeyKV(kv)) \in Nat \ {0}
<1>1. kv.k \in U64 /\ kv.v \in Bytes
  BY DEF CKeyKVs
<1>2. /\ SerializeU64(kv.k) \in Bytes /\ Len(SerializeU64(kv.k)) = WordSize
      /\ SerializeBytes(kv.v) \in Bytes /\ Len(SerializeBytes(kv.v)) = WordSize + Len(kv.v)
      /\ Len(kv.v) \in Nat
  BY <1>1, U64Bytes, BytesBytes, BytesLen
<1>3. SerializeCKeyKV(kv) \in Bytes /\ Len(SerializeCKeyKV(kv)) = WordSize + (WordSize + Len(kv.v))
  BY <1>2, ConcatIs DEF SerializeCKeyKV
<1>4. WordSize \in Nat \ {0}
  BY Limits
<1> QED BY <1>2, <1>3, <1>4

LEMMA CKeyKVReads ==
    ASSUME NEW data, Buffer(data), NEW start \in Nat, NEW kv \in CKeyKVs, At(data, start, SerializeCKeyKV(kv))
    PROVE  DeserializeCKeyKV(data, start) = {Parsed(kv, start + Len(SerializeCKeyKV(kv)))}
<1>1. kv.k \in U64 /\ kv.v \in Bytes /\ kv = [k |-> kv.k, v |-> kv.v]
  BY DEF CKeyKVs
<1> DEFINE s == SerializeU64(kv.k)
           t == SerializeBytes(kv.v)
           end == start + Len(SerializeCKeyKV(kv))
           Of(p) == Parsed([k |-> p.val[1], v |-> p.val[2]], p.end)
<1>2. s \in Bytes /\ Len(s) = WordSize /\ t \in Bytes /\ Len(t) = WordSize + Len(kv.v)
  BY <1>1, U64Bytes, BytesBytes
<1>3. /\ At(data, start, s) /\ At(data, start + Len(s), t)
      /\ start + Len(s) \in Nat /\ (start + Len(s)) + Len(t) = end
  BY <1>2, AtBoth DEF SerializeCKeyKV
<1> HIDE DEF end
<1>4. DeserializeU64(data, start) = {Parsed(kv.k, start + Len(s))}
  BY <1>1, <1>2, <1>3, U64Reads
<1>5. DeserializeBytes(data, start + Len(s)) = {Parsed(kv.v, end)}
  BY <1>1, <1>2, <1>3, BytesReads
<1>6. U64AndBytes(data, start) = {Parsed(<<kv.k, kv.v>>, end)}
  BY <1>4, <1>5, U64AndBytesOfOne
<1>7. DeserializeCKeyKV(data, start) = {Of(p) : p \in U64AndBytes(data, start)}
  BY Zenon DEF DeserializeCKeyKV, As, U64AndBytes
<1>8. Of(Parsed(<<kv.k, kv.v>>, end)) = Parsed(kv, end)
  BY <1>1, ParsedIs
<1> HIDE DEF Of
<1>9. DeserializeCKeyKV(data, start) = {Parsed(kv, end)}
  BY <1>6, <1>7, <1>8
<1> QED BY <1>9 DEF end

LEMMA CKeyKVExact ==
    ASSUME NEW data, Buffer(data), NEW start \in Nat, NEW r \in DeserializeCKeyKV(data, start)
    PROVE  r.val \in CKeyKVs /\ Encodes(r, data, start, SerializeCKeyKV(r.val))
<1>1. DeserializeCKeyKV(data, start) = {Parsed([k |-> p.val[1], v |-> p.val[2]], p.end) : p \in U64AndBytes(data, start)}
  BY Zenon DEF DeserializeCKeyKV, As, U64AndBytes
<1>2. PICK p \in U64AndBytes(data, start) : r = Parsed([k |-> p.val[1], v |-> p.val[2]], p.end)
  BY <1>1
<1>3. PICK x \in DeserializeU64(data, start) : \E y \in DeserializeBytes(data, x.end) : p = Parsed(<<x.val, y.val>>, y.end)
  BY U64AndBytesAre
<1>4. PICK y \in DeserializeBytes(data, x.end) : p = Parsed(<<x.val, y.val>>, y.end)
  BY <1>3
<1>5. r = Parsed([k |-> x.val, v |-> y.val], y.end) /\ r.val = [k |-> x.val, v |-> y.val] /\ r.end = y.end
  BY <1>2, <1>4, ParsedIs
<1>6. x.val \in U64 /\ Encodes(x, data, start, SerializeU64(x.val)) /\ SerializeU64(x.val) \in Bytes
  BY U64Exact, U64Bytes
<1>7. x.end \in Nat
  BY <1>6, EncodesEnd
<1>8. y.val \in Bytes /\ Encodes(y, data, x.end, SerializeBytes(y.val)) /\ SerializeBytes(y.val) \in Bytes
  BY <1>7, BytesExact, BytesBytes
<1>9. r.val \in CKeyKVs /\ SerializeCKeyKV(r.val) = SerializeU64(x.val) \o SerializeBytes(y.val)
  BY <1>5, <1>6, <1>8, SMTT(30) DEF CKeyKVs, SerializeCKeyKV
<1>10. At(data, start, SerializeU64(x.val) \o SerializeBytes(y.val))
       /\ y.end = start + Len(SerializeU64(x.val) \o SerializeBytes(y.val))
  BY <1>6, <1>8, EncodesBoth
<1> QED BY <1>5, <1>9, <1>10 DEF Encodes

LEMMA KeyRangeBytes ==
    ASSUME NEW kr \in KeyRanges
    PROVE  SerializeKeyRange(kr) \in Bytes /\ Len(SerializeKeyRange(kr)) \in Nat
<1>1. kr.lo \in Option(U64) /\ kr.hi \in Option(U64)
  BY DEF KeyRanges
<1>2. SerializeOptionU64(kr.lo) \in Bytes /\ SerializeOptionU64(kr.hi) \in Bytes
  BY <1>1, OptionU64Bytes
<1> QED BY <1>2, ConcatIs DEF SerializeKeyRange

LEMMA KeyRangeReads ==
    ASSUME NEW data, Buffer(data), NEW start \in Nat, NEW kr \in KeyRanges, At(data, start, SerializeKeyRange(kr))
    PROVE  DeserializeKeyRange(data, start) = {Parsed(kr, start + Len(SerializeKeyRange(kr)))}
<1>1. kr.lo \in Option(U64) /\ kr.hi \in Option(U64) /\ kr = KeyRange(kr.lo, kr.hi)
  BY DEF KeyRanges, KeyRange
<1> DEFINE s == SerializeOptionU64(kr.lo)
           t == SerializeOptionU64(kr.hi)
           end == start + Len(SerializeKeyRange(kr))
           Of(p) == Parsed(KeyRange(p.val[1], p.val[2]), p.end)
<1>2. s \in Bytes /\ t \in Bytes
  BY <1>1, OptionU64Bytes
<1>3. /\ At(data, start, s) /\ At(data, start + Len(s), t)
      /\ start + Len(s) \in Nat /\ (start + Len(s)) + Len(t) = end
  BY <1>2, AtBoth DEF SerializeKeyRange
<1> HIDE DEF end
<1>4. DeserializeOptionU64(data, start) = {Parsed(kr.lo, start + Len(s))}
  BY <1>1, <1>3, OptionU64Reads
<1>5. DeserializeOptionU64(data, start + Len(s)) = {Parsed(kr.hi, end)}
  BY <1>1, <1>3, OptionU64Reads
<1>6. TwoOptions(data, start) = {Parsed(<<kr.lo, kr.hi>>, end)}
  BY <1>4, <1>5, TwoOptionsOfOne
<1>7. DeserializeKeyRange(data, start) = {Of(p) : p \in TwoOptions(data, start)}
  BY Zenon DEF DeserializeKeyRange, As, TwoOptions
<1>8. Of(Parsed(<<kr.lo, kr.hi>>, end)) = Parsed(kr, end)
  BY <1>1, ParsedIs
<1> HIDE DEF Of
<1>9. DeserializeKeyRange(data, start) = {Parsed(kr, end)}
  BY <1>6, <1>7, <1>8
<1> QED BY <1>9 DEF end

LEMMA KeyRangeExact ==
    ASSUME NEW data, Buffer(data), NEW start \in Nat, NEW r \in DeserializeKeyRange(data, start)
    PROVE  r.val \in KeyRanges /\ Encodes(r, data, start, SerializeKeyRange(r.val))
<1>1. DeserializeKeyRange(data, start) = {Parsed(KeyRange(p.val[1], p.val[2]), p.end) : p \in TwoOptions(data, start)}
  BY Zenon DEF DeserializeKeyRange, As, TwoOptions
<1>2. PICK p \in TwoOptions(data, start) : r = Parsed(KeyRange(p.val[1], p.val[2]), p.end)
  BY <1>1
<1>3. PICK x \in DeserializeOptionU64(data, start) : \E y \in DeserializeOptionU64(data, x.end) : p = Parsed(<<x.val, y.val>>, y.end)
  BY TwoOptionsAre
<1>4. PICK y \in DeserializeOptionU64(data, x.end) : p = Parsed(<<x.val, y.val>>, y.end)
  BY <1>3
<1>5. r = Parsed(KeyRange(x.val, y.val), y.end) /\ r.val = KeyRange(x.val, y.val) /\ r.end = y.end
  BY <1>2, <1>4, ParsedIs
<1>6. x.val \in Option(U64) /\ Encodes(x, data, start, SerializeOptionU64(x.val)) /\ SerializeOptionU64(x.val) \in Bytes
  BY OptionU64Exact, OptionU64Bytes
<1>7. x.end \in Nat
  BY <1>6, EncodesEnd
<1>8. y.val \in Option(U64) /\ Encodes(y, data, x.end, SerializeOptionU64(y.val)) /\ SerializeOptionU64(y.val) \in Bytes
  BY <1>7, OptionU64Exact, OptionU64Bytes
<1>9. r.val \in KeyRanges /\ SerializeKeyRange(r.val) = SerializeOptionU64(x.val) \o SerializeOptionU64(y.val)
  BY <1>5, <1>6, <1>8, SMTT(30) DEF KeyRanges, KeyRange, SerializeKeyRange
<1>10. At(data, start, SerializeOptionU64(x.val) \o SerializeOptionU64(y.val))
       /\ y.end = start + Len(SerializeOptionU64(x.val) \o SerializeOptionU64(y.val))
  BY <1>6, <1>8, EncodesBoth
<1> QED BY <1>5, <1>9, <1>10 DEF Encodes

-----------------------------------------------------------------------------
(***************************************************************************)
(* Vectors: the bytes of the elements, one behind the other.               *)
(***************************************************************************)
\* cat[i] is what the first i elements make.
Concatenates(cat, n, parts) ==
    /\ cat \in [0 .. n -> Bytes]
    /\ cat[0] = <<>>
    /\ \A i \in 1 .. n : cat[i] = cat[i - 1] \o parts[i]

LEMMA FlattenSeqConcatenates ==
    ASSUME NEW n \in Nat, NEW parts \in [1 .. n -> Bytes]
    PROVE  \E cat : Concatenates(cat, n, parts) /\ FlattenSeq(parts) = cat[n]
<1> DEFINE G == [i \in 1 .. n |-> [x \in Bytes |-> x \o parts[i]]]
<1>1. Len(parts) = n /\ parts \in Seq(Bytes)
  OBVIOUS
<1>2. \A i \in 1 .. n, x \in Bytes : x \o parts[i] \in Bytes
  BY ConcatIs
<1>3. G \in [1 .. n -> [Bytes -> Bytes]] /\ <<>> \in Bytes
  BY <1>2 DEF Bytes
<1>4. \A i \in 1 .. n, x \in Bytes : G[i][x] = x \o parts[i]
  OBVIOUS
<1> HIDE DEF G
<1>5. PICK cat : Iterates(cat, n, Bytes, <<>>, G)
  BY <1>3, Recursion
<1>6. ASSUME NEW i \in 1 .. n PROVE cat[i] = cat[i - 1] \o parts[i]
  <2>1. i - 1 \in 0 .. n
    OBVIOUS
  <2>2. cat[i - 1] \in Bytes
    BY <1>5, <2>1 DEF Iterates
  <2> QED BY <1>4, <1>5, <2>2 DEF Iterates
<1>7. Concatenates(cat, n, parts)
  BY <1>5, <1>6 DEF Iterates, Concatenates
<1>8. CASE n = 0
  <2>1. FlattenSeq(parts) = parts
    BY <1>1, <1>8 DEF FlattenSeq
  <2>2. parts = <<>>
    BY <1>8
  <2> QED BY <1>7, <1>8, <2>1, <2>2 DEF Concatenates
<1>9. CASE n # 0
  <2> DEFINE f == [i \in 1 .. n |-> cat[i]]
             flatten == CHOOSE g : g = [i \in 1 .. Len(parts) |-> IF i = 1 THEN parts[i] ELSE g[i - 1] \o parts[i]]
  <2>1. f = [i \in 1 .. n |-> IF i = 1 THEN parts[i] ELSE f[i - 1] \o parts[i]]
    <3> SUFFICES ASSUME NEW i \in 1 .. n PROVE cat[i] = IF i = 1 THEN parts[i] ELSE f[i - 1] \o parts[i]
      OBVIOUS
    <3>1. CASE i = 1
      <4>1. i - 1 = 0 /\ cat[i] = cat[i - 1] \o parts[i] /\ cat[0] = <<>>
        BY <1>6, <1>7, <3>1, SMTT(30) DEF Concatenates
      <4>2. parts[1] \in Seq(Byte)
        BY <3>1 DEF Bytes
      <4>3. <<>> \o parts[1] = parts[1]
        BY <4>2
      <4> QED BY <3>1, <4>1, <4>3
    <3>2. CASE i # 1
      <4>1. i - 1 \in 1 .. n
        BY <3>2
      <4> QED BY <1>6, <3>2, <4>1
    <3> QED BY <3>1, <3>2
  <2> HIDE DEF f
  <2>2. flatten = [i \in 1 .. Len(parts) |-> IF i = 1 THEN parts[i] ELSE flatten[i - 1] \o parts[i]]
    BY <1>1, <2>1, Zenon
  <2>3. ~(Len(parts) = 0)
    BY <1>1, <1>9
  <2>4. FlattenSeq(parts) = flatten[n]
    BY <1>1, <2>3, Zenon DEF FlattenSeq
  <2> HIDE DEF flatten
  <2>5. \A i \in 1 .. n : flatten[i] = IF i = 1 THEN parts[i] ELSE flatten[i - 1] \o parts[i]
    BY <1>1, <2>2
  <2>6. \A i \in 1 .. n : cat[i] = IF i = 1 THEN parts[i] ELSE cat[i - 1] \o parts[i]
    <3>1. \A i \in 1 .. n : i # 1 => i - 1 \in 1 .. n
      OBVIOUS
    <3> QED BY <2>1, <3>1 DEF f
  <2> DEFINE T == {j \in 0 .. n - 1 : flatten[j + 1] = cat[j + 1]}
  <2>7. 0 \in T
    BY <1>9, <2>5, <2>6
  <2>8. ASSUME NEW j \in 0 .. (n - 1) - 1, j \in T PROVE j + 1 \in T
    <3>1. (j + 1) + 1 \in 1 .. n /\ (j + 1) + 1 # 1 /\ ((j + 1) + 1) - 1 = j + 1 /\ j + 1 \in 0 .. n - 1
      OBVIOUS
    <3> QED BY <2>5, <2>6, <2>8, <3>1
  <2>9. n - 1 \in Nat /\ (n - 1) + 1 = n
    BY <1>9
  <2>10. \A j \in 0 .. n - 1 : j \in T
    <3> HIDE DEF T
    <3> QED BY <2>7, <2>8, <2>9, Induction, Zenon
  <2>11. flatten[n] = cat[n]
    BY <2>9, <2>10
  <2> QED BY <1>7, <2>4, <2>11
<1> QED BY <1>8, <1>9

Elements(v) == FlattenSeq([i \in DOMAIN v |-> SerializeCKeyKV(v[i])])

LEMMA ElementsConcatenate ==
    ASSUME NEW v \in Seq(CKeyKVs)
    PROVE  \E cat : Concatenates(cat, Len(v), [i \in 1 .. Len(v) |-> SerializeCKeyKV(v[i])]) /\ Elements(v) = cat[Len(v)]
<1> DEFINE parts == [i \in 1 .. Len(v) |-> SerializeCKeyKV(v[i])]
<1>1. DOMAIN v = 1 .. Len(v) /\ Len(v) \in Nat /\ \A i \in 1 .. Len(v) : v[i] \in CKeyKVs
  OBVIOUS
<1>2. parts \in [1 .. Len(v) -> Bytes]
  BY <1>1, CKeyKVBytes
<1>3. Elements(v) = FlattenSeq(parts)
  BY <1>1, Zenon DEF Elements
<1> HIDE DEF parts
<1> QED BY <1>1, <1>2, <1>3, FlattenSeqConcatenates DEF parts

LEMMA ElementsAre ==
    /\ Elements(<<>>) = <<>>
    /\ \A v \in Seq(CKeyKVs) : Elements(v) \in Bytes /\ Len(v) <= Len(Elements(v))
    /\ \A v \in Seq(CKeyKVs), kv \in CKeyKVs : Elements(Append(v, kv)) = Elements(v) \o SerializeCKeyKV(kv)
<1>1. Elements(<<>>) = <<>>
  <2>1. <<>> \in Seq(CKeyKVs) /\ Len(<<>>) = 0
    OBVIOUS
  <2>2. PICK cat : Concatenates(cat, Len(<<>>), [i \in 1 .. Len(<<>>) |-> SerializeCKeyKV(<<>>[i])]) /\ Elements(<<>>) = cat[Len(<<>>)]
    BY <2>1, ElementsConcatenate, Zenon
  <2> QED BY <2>1, <2>2 DEF Concatenates
<1>2. ASSUME NEW v \in Seq(CKeyKVs) PROVE Elements(v) \in Bytes /\ Len(v) <= Len(Elements(v))
  <2> DEFINE parts == [i \in 1 .. Len(v) |-> SerializeCKeyKV(v[i])]
             n == Len(v)
  <2>1. PICK cat : Concatenates(cat, n, parts) /\ Elements(v) = cat[n]
    BY ElementsConcatenate
  <2>2. n \in Nat /\ \A i \in 1 .. n : parts[i] \in Bytes /\ Len(parts[i]) \in Nat \ {0}
    BY CKeyKVBytes
  <2> HIDE DEF parts, n
  <2> DEFINE T == {i \in 0 .. n : i <= Len(cat[i])}
  <2>3. 0 \in T
    <3>1. cat[0] = <<>>
      BY <2>1 DEF Concatenates
    <3> QED BY <2>2, <3>1
  <2>4. ASSUME NEW i \in 0 .. n - 1, i \in T PROVE i + 1 \in T
    <3>1. i \in 0 .. n /\ i + 1 \in 1 .. n /\ (i + 1) - 1 = i /\ i + 1 \in 0 .. n
      BY <2>2
    <3>2. cat[i + 1] = cat[i] \o parts[i + 1] /\ cat[i] \in Bytes /\ parts[i + 1] \in Bytes
      BY <2>1, <2>2, <3>1 DEF Concatenates
    <3>3. Len(cat[i + 1]) = Len(cat[i]) + Len(parts[i + 1]) /\ Len(cat[i]) \in Nat
      BY <3>2, ConcatIs
    <3>4. Len(parts[i + 1]) \in Nat \ {0} /\ i <= Len(cat[i])
      BY <2>2, <2>4, <3>1
    <3>5. i \in Nat
      BY <2>2
    <3>6. i + 1 <= Len(cat[i + 1])
      <4> DEFINE a == Len(cat[i])
                 b == Len(parts[i + 1])
                 c == Len(cat[i + 1])
      <4>1. c = a + b /\ a \in Nat /\ b \in Nat \ {0} /\ i <= a
        BY <3>3, <3>4
      <4> HIDE DEF a, b, c
      <4>2. i + 1 <= c
        BY <3>5, <4>1
      <4> QED BY <4>2 DEF c
    <3> QED BY <3>1, <3>6
  <2>5. \A i \in 0 .. n : i \in T
    <3> HIDE DEF T
    <3> QED BY <2>2, <2>3, <2>4, Induction, Zenon
  <2>6. n \in 0 .. n
    BY <2>2
  <2> QED BY <2>1, <2>5, <2>6 DEF n, Concatenates
<1>3. ASSUME NEW v \in Seq(CKeyKVs), NEW kv \in CKeyKVs
      PROVE  Elements(Append(v, kv)) = Elements(v) \o SerializeCKeyKV(kv)
  <2> DEFINE n == Len(v)
             w == Append(v, kv)
             parts == [i \in 1 .. n |-> SerializeCKeyKV(v[i])]
             more == [i \in 1 .. Len(w) |-> SerializeCKeyKV(w[i])]
  <2>1. /\ w \in Seq(CKeyKVs) /\ Len(w) = n + 1 /\ n \in Nat
        /\ w[n + 1] = kv /\ \A i \in 1 .. n : w[i] = v[i]
    OBVIOUS
  <2>2. PICK cat : Concatenates(cat, n, parts) /\ Elements(v) = cat[n]
    BY ElementsConcatenate
  <2> HIDE DEF w
  <2>3. PICK longer : Concatenates(longer, n + 1, more) /\ Elements(w) = longer[n + 1]
    BY <2>1, ElementsConcatenate
  <2>4. (\A i \in 1 .. n : more[i] = parts[i]) /\ more[n + 1] = SerializeCKeyKV(kv)
    BY <2>1
  <2> HIDE DEF n, parts, more
  <2> DEFINE T == {i \in 0 .. n : longer[i] = cat[i]}
  <2>5. 0 \in T
    BY <2>1, <2>2, <2>3 DEF Concatenates
  <2>6. ASSUME NEW i \in 0 .. n - 1, i \in T PROVE i + 1 \in T
    <3>1. i + 1 \in 1 .. n /\ i + 1 \in 1 .. n + 1 /\ (i + 1) - 1 = i /\ i + 1 \in 0 .. n
      BY <2>1
    <3>2. cat[i + 1] = cat[i] \o parts[i + 1] /\ longer[i + 1] = longer[i] \o more[i + 1]
      BY <2>2, <2>3, <3>1 DEF Concatenates
    <3> QED BY <2>4, <2>6, <3>1, <3>2
  <2>7. \A i \in 0 .. n : i \in T
    <3> HIDE DEF T
    <3> QED BY <2>1, <2>5, <2>6, Induction, Zenon
  <2>8. longer[n + 1] = longer[n] \o more[n + 1]
    <3>1. n + 1 \in 1 .. n + 1 /\ (n + 1) - 1 = n
      BY <2>1
    <3> QED BY <2>3, <3>1 DEF Concatenates
  <2>9. n \in 0 .. n
    BY <2>1
  <2> QED BY <2>2, <2>3, <2>4, <2>7, <2>8, <2>9 DEF w
<1> QED BY <1>1, <1>2, <1>3

LEMMA VecBytes ==
    ASSUME NEW v \in Seq(CKeyKVs)
    PROVE  /\ SerializeVec(v) = SerializeU64(Len(v)) \o Elements(v)
           /\ SerializeU64(Len(v)) \in Bytes /\ Len(SerializeU64(Len(v))) = WordSize
           /\ SerializeVec(v) \in Bytes
<1>1. SerializeVec(v) = SerializeU64(Len(v)) \o Elements(v)
  BY Zenon DEF SerializeVec, Elements
<1>2. Len(v) \in Nat
  OBVIOUS
<1> QED BY <1>1, <1>2, U64Bytes, ElementsAre, ConcatIs

\* The parses behind one element more than those of E.
Longer(data, E) ==
    UNION {{Parsed(Append(v.val, kv.val), kv.end) : kv \in DeserializeCKeyKV(data, v.end)} : v \in E}

LEMMA LongerAre ==
    ASSUME NEW data, NEW E
    PROVE  \A z : z \in Longer(data, E) <=>
                \E v \in E : \E kv \in DeserializeCKeyKV(data, v.end) : z = Parsed(Append(v.val, kv.val), kv.end)
<1> DEFINE Of(v) == {Parsed(Append(v.val, kv.val), kv.end) : kv \in DeserializeCKeyKV(data, v.end)}
<1>1. Longer(data, E) = UNION {Of(v) : v \in E}
  BY Zenon DEF Longer
<1>2. \A z, v : z \in Of(v) <=> \E kv \in DeserializeCKeyKV(data, v.end) : z = Parsed(Append(v.val, kv.val), kv.end)
  BY Zenon
<1> HIDE DEF Of
<1>3. \A z : z \in Longer(data, E) <=> \E v \in E : z \in Of(v)
  BY <1>1, Zenon
<1> QED BY <1>2, <1>3

Parses == {r \in [val : Seq(CKeyKVs), end : Nat] : TRUE}

\* els[i] is what the first i elements parse to.
ParsesElements(els, n, data, end) ==
    /\ els \in [0 .. n -> SUBSET Parses]
    /\ els[0] = {Parsed(<<>>, end)}
    /\ \A i \in 1 .. n : els[i] = Longer(data, els[i - 1])

ElementsOf(data, len) ==
    LET elements[i \in 0 .. len.val] ==
            IF i = 0
            THEN {Parsed(<<>>, len.end)}
            ELSE UNION {As(LAMBDA x : Append(v.val, x), DeserializeCKeyKV(data, v.end)) : v \in elements[i - 1]}
    IN  elements[len.val]

LEMMA ElementsOfParses ==
    ASSUME NEW data, Buffer(data), NEW len, len.val \in Nat, len.end \in Nat
    PROVE  \E els : ParsesElements(els, len.val, data, len.end) /\ ElementsOf(data, len) = els[len.val]
<1> DEFINE n == len.val
           end == len.end
           G == [i \in 1 .. n |-> [E \in SUBSET Parses |-> Longer(data, E)]]
<1>1. n \in Nat /\ end \in Nat
  OBVIOUS
<1> HIDE DEF n, end
<1>2. ASSUME NEW E \in SUBSET Parses PROVE Longer(data, E) \in SUBSET Parses
  <2>1. SUFFICES ASSUME NEW z \in Longer(data, E) PROVE z \in Parses
    OBVIOUS
  <2>2. PICK v \in E : \E kv \in DeserializeCKeyKV(data, v.end) : z = Parsed(Append(v.val, kv.val), kv.end)
    BY LongerAre
  <2>3. PICK kv \in DeserializeCKeyKV(data, v.end) : z = Parsed(Append(v.val, kv.val), kv.end)
    BY <2>2
  <2>4. v.val \in Seq(CKeyKVs) /\ v.end \in Nat
    BY DEF Parses
  <2>5. kv.val \in CKeyKVs /\ kv.end \in Nat
    <3>1. kv.val \in CKeyKVs /\ Encodes(kv, data, v.end, SerializeCKeyKV(kv.val))
      BY <2>4, CKeyKVExact
    <3>2. SerializeCKeyKV(kv.val) \in Bytes
      BY <3>1, CKeyKVBytes
    <3> QED BY <2>4, <3>1, <3>2, EncodesEnd
  <2>6. Append(v.val, kv.val) \in Seq(CKeyKVs)
    BY <2>4, <2>5
  <2> QED BY <2>3, <2>5, <2>6 DEF Parses, Parsed
<1>3. G \in [1 .. n -> [SUBSET Parses -> SUBSET Parses]]
  BY <1>2
<1>4. {Parsed(<<>>, end)} \in SUBSET Parses
  BY <1>1 DEF Parses, Parsed
<1>5. \A i \in 1 .. n, E \in SUBSET Parses : G[i][E] = Longer(data, E)
  OBVIOUS
<1> HIDE DEF G
<1>6. PICK f : Iterates(f, n, SUBSET Parses, {Parsed(<<>>, end)}, G)
  BY <1>1, <1>3, <1>4, Recursion
<1>7. ASSUME NEW i \in 1 .. n PROVE f[i] = Longer(data, f[i - 1])
  <2>1. i - 1 \in 0 .. n
    BY <1>1
  <2>2. f[i - 1] \in SUBSET Parses
    BY <1>6, <2>1 DEF Iterates
  <2> QED BY <1>5, <1>6, <2>2 DEF Iterates
<1>8. f = [i \in 0 .. n |-> IF i = 0 THEN {Parsed(<<>>, end)} ELSE Longer(data, f[i - 1])]
  BY <1>1, <1>6, <1>7 DEF Iterates
<1> DEFINE els == CHOOSE g : g = [i \in 0 .. n |-> IF i = 0 THEN {Parsed(<<>>, end)} ELSE Longer(data, g[i - 1])]
<1>9. els = [i \in 0 .. n |-> IF i = 0 THEN {Parsed(<<>>, end)} ELSE Longer(data, els[i - 1])]
  BY <1>8, Zenon
<1>10. ElementsOf(data, len) = els[n]
  BY Zenon DEF ElementsOf, Longer, As, n, end
<1> HIDE DEF els
<1>11. els = [i \in 0 .. n |-> els[i]] /\ els[0] = {Parsed(<<>>, end)}
  BY <1>1, <1>9
<1>12. ASSUME NEW i \in 1 .. n PROVE els[i] = Longer(data, els[i - 1])
  <2>1. i \in 0 .. n /\ i # 0
    BY <1>1
  <2> QED BY <1>9, <2>1, Zenon
<1> DEFINE T == {j \in 0 .. n : els[j] = f[j]}
<1>13. 0 \in T
  BY <1>1, <1>6, <1>11 DEF Iterates
<1>14. ASSUME NEW i \in 0 .. n - 1, i \in T PROVE i + 1 \in T
  <2>1. i + 1 \in 1 .. n /\ i + 1 \in 0 .. n /\ (i + 1) - 1 = i
    BY <1>1
  <2>2. els[i + 1] = Longer(data, els[i]) /\ f[i + 1] = Longer(data, f[i])
    BY <1>7, <1>12, <2>1
  <2> QED BY <1>14, <2>1, <2>2
<1>15. \A i \in 0 .. n : i \in T
  <2> HIDE DEF T
  <2> QED BY <1>1, <1>13, <1>14, Induction, Zenon
<1>16. \A i \in 0 .. n : els[i] \in SUBSET Parses
  BY <1>6, <1>15 DEF Iterates
<1>17. els \in [0 .. n -> SUBSET Parses]
  BY <1>11, <1>16
<1>18. ParsesElements(els, n, data, end)
  BY <1>11, <1>12, <1>17 DEF ParsesElements
<1> QED BY <1>10, <1>18, Zenon DEF n, end

LEMMA VecAre ==
    ASSUME NEW data, Buffer(data), NEW start \in Nat
    PROVE  \A r : r \in DeserializeVec(data, start) <=>
                \E len \in DeserializeU64(data, start) : len.val <= Len(data) /\ r \in ElementsOf(data, len)
<1>1. DeserializeVec(data, start) =
        UNION {ElementsOf(data, len) : len \in {r \in DeserializeUsize(data, start) : r.val <= Len(data)}}
  BY Zenon DEF DeserializeVec, ElementsOf
<1>2. \A len : len \in {r \in DeserializeUsize(data, start) : r.val <= Len(data)} <=>
        len \in DeserializeU64(data, start) /\ len.val <= Len(data)
  BY UsizeIsU64
<1> HIDE DEF ElementsOf
<1> DEFINE L == {r \in DeserializeUsize(data, start) : r.val <= Len(data)}
<1> HIDE DEF L
<1>3. DeserializeVec(data, start) = UNION {ElementsOf(data, len) : len \in L}
  BY <1>1 DEF L
<1>4. \A r : r \in DeserializeVec(data, start) <=> \E len \in L : r \in ElementsOf(data, len)
  BY <1>3, Zenon
<1>5. \A len : len \in L <=> len \in DeserializeU64(data, start) /\ len.val <= Len(data)
  BY <1>2 DEF L
<1> QED BY <1>4, <1>5

LEMMA LongerOfOne ==
    ASSUME NEW data, NEW v, NEW m, NEW kv, NEW e, DeserializeCKeyKV(data, m) = {Parsed(kv, e)}
    PROVE  Longer(data, {Parsed(v, m)}) = {Parsed(Append(v, kv), e)}
<1> DEFINE E == {Parsed(v, m)}
<1>1. \A x \in E : x.val = v /\ x.end = m
  BY ParsedIs
<1>2. \A y \in DeserializeCKeyKV(data, m) : y.val = kv /\ y.end = e
  BY ParsedIs
<1>3. Parsed(v, m) \in E /\ Parsed(kv, e) \in DeserializeCKeyKV(data, m)
  OBVIOUS
<1> HIDE DEF E
<1>4. ASSUME NEW z \in Longer(data, E) PROVE z = Parsed(Append(v, kv), e)
  <2>1. PICK x \in E : \E y \in DeserializeCKeyKV(data, x.end) : z = Parsed(Append(x.val, y.val), y.end)
    BY LongerAre
  <2> QED BY <1>1, <1>2, <2>1
<1>5. Parsed(Append(v, kv), e) \in Longer(data, E)
  <2>1. Parsed(v, m).val = v /\ Parsed(v, m).end = m /\ Parsed(kv, e).val = kv /\ Parsed(kv, e).end = e
    BY ParsedIs
  <2> QED BY <1>3, <2>1, LongerAre
<1>6. Longer(data, E) = {Parsed(Append(v, kv), e)}
  BY <1>4, <1>5
<1> QED BY <1>6 DEF E

LEMMA Heads ==
    ASSUME NEW S, NEW v \in Seq(S)
    PROVE  /\ SubSeq(v, 1, 0) = <<>> /\ SubSeq(v, 1, Len(v)) = v
           /\ \A i \in 0 .. Len(v) : SubSeq(v, 1, i) \in Seq(S)
           /\ \A i \in 0 .. Len(v) - 1 :
                v[i + 1] \in S /\ SubSeq(v, 1, i + 1) = Append(SubSeq(v, 1, i), v[i + 1])
<1>1. Len(v) \in Nat
  OBVIOUS
<1>2. SubSeq(v, 1, 0) = <<>> /\ SubSeq(v, 1, Len(v)) = v
  OBVIOUS
<1>3. ASSUME NEW i \in 0 .. Len(v)
      PROVE  /\ SubSeq(v, 1, i) \in Seq(S) /\ Len(SubSeq(v, 1, i)) = i
             /\ \A j \in 1 .. i : SubSeq(v, 1, i)[j] = v[j]
  OBVIOUS
<1>4. ASSUME NEW i \in 0 .. Len(v) - 1
      PROVE  v[i + 1] \in S /\ SubSeq(v, 1, i + 1) = Append(SubSeq(v, 1, i), v[i + 1])
  <2>1. i \in 0 .. Len(v) /\ i + 1 \in 0 .. Len(v) /\ i + 1 \in 1 .. Len(v) /\ v[i + 1] \in S
    BY <1>1
  <2> DEFINE s == SubSeq(v, 1, i + 1)
             t == Append(SubSeq(v, 1, i), v[i + 1])
  <2>2. s \in Seq(S) /\ Len(s) = i + 1 /\ \A j \in 1 .. i + 1 : s[j] = v[j]
    BY <1>3, <2>1
  <2>3. t \in Seq(S) /\ Len(t) = i + 1 /\ \A j \in 1 .. i + 1 : t[j] = v[j]
    BY <1>3, <2>1
  <2> HIDE DEF s, t
  <2>4. s = t
    BY <2>2, <2>3, SeqEqual
  <2> QED BY <2>1, <2>4 DEF s, t
<1> QED BY <1>2, <1>3, <1>4

LEMMA VecReads ==
    ASSUME NEW data, Buffer(data), NEW start \in Nat, NEW v \in Seq(CKeyKVs), At(data, start, SerializeVec(v))
    PROVE  DeserializeVec(data, start) = {Parsed(v, start + Len(SerializeVec(v)))}
<1> DEFINE n == Len(v)
           m == start + WordSize
           head(i) == SubSeq(v, 1, i)
           end(i) == m + Len(Elements(head(i)))
<1>1. n \in Nat /\ Elements(v) \in Bytes /\ Len(Elements(v)) \in Nat /\ n <= Len(Elements(v))
  BY ElementsAre, BytesLen
<1>2. /\ At(data, start, SerializeU64(n)) /\ At(data, m, Elements(v)) /\ m \in Nat
      /\ m + Len(Elements(v)) = start + Len(SerializeVec(v))
  <2> DEFINE w == SerializeU64(n)
             t == Elements(v)
  <2>1. SerializeVec(v) = w \o t /\ w \in Bytes /\ Len(w) = WordSize /\ t \in Bytes /\ At(data, start, w \o t)
    <3>1. SerializeVec(v) = w \o t /\ w \in Bytes /\ Len(w) = WordSize /\ t \in Bytes
      BY <1>1, VecBytes
    <3> HIDE DEF w, t
    <3> QED BY <3>1
  <2>2. At(data, start, w) /\ At(data, start + Len(w), t) /\ start + Len(w) \in Nat
    BY <2>1, AtBoth
  <2>3. (start + Len(w)) + Len(t) = start + Len(w \o t)
    <3>1. Len(w \o t) = Len(w) + Len(t) /\ Len(w) \in Nat /\ Len(t) \in Nat
      BY <2>1, ConcatIs
    <3> HIDE DEF w, t
    <3> QED BY <3>1
  <2> HIDE DEF w, t, n
  <2> QED BY <2>1, <2>2, <2>3 DEF w, t
<1>3. n \in U64 /\ n <= Len(data)
  <2>1. Len(Elements(v)) <= UsizeMax /\ m + Len(Elements(v)) <= Len(data) /\ UsizeMax \in Nat /\ Len(data) \in Nat
    BY <1>1, <1>2, AtWithin, BufferLen, Limits
  <2> QED BY <1>1, <1>2, <2>1 DEF U64
<1>4. DeserializeU64(data, start) = {Parsed(n, m)}
  BY <1>2, <1>3, U64Reads
<1> DEFINE len == Parsed(n, m)
<1>5. len.val = n /\ len.end = m
  BY ParsedIs
<1> HIDE DEF len
<1>6. PICK els : ParsesElements(els, n, data, m) /\ ElementsOf(data, len) = els[n]
  BY <1>1, <1>2, <1>5, ElementsOfParses
<1> HIDE DEF m
<1>7. head(0) = <<>> /\ head(n) = v /\ \A i \in 0 .. n : head(i) \in Seq(CKeyKVs)
  BY Heads
<1>8. \A i \in 0 .. n - 1 : v[i + 1] \in CKeyKVs /\ head(i + 1) = Append(head(i), v[i + 1])
  BY Heads
<1> HIDE DEF head
<1>9. ASSUME NEW i \in 0 .. n - 1
      PROVE  /\ Elements(head(i + 1)) = Elements(head(i)) \o SerializeCKeyKV(v[i + 1])
             /\ Elements(head(i)) \in Bytes /\ SerializeCKeyKV(v[i + 1]) \in Bytes
  <2>1. i \in 0 .. n
    BY <1>1
  <2> QED BY <1>7, <1>8, <2>1, ElementsAre, CKeyKVBytes
<1>10. \A i \in 0 .. n : At(data, m, Elements(head(i)))
  <2> DEFINE T == {j \in 0 .. n : At(data, m, Elements(head(n - j)))}
  <2>1. 0 \in T
    <3>1. n - 0 = n
      BY <1>1
    <3> QED BY <1>1, <1>2, <1>7, <3>1
  <2>2. ASSUME NEW j \in 0 .. n - 1, j \in T PROVE j + 1 \in T
    <3> DEFINE i == n - (j + 1)
    <3>1. i \in 0 .. n - 1 /\ i + 1 = n - j /\ j + 1 \in 0 .. n
      BY <1>1
    <3>2. At(data, m, Elements(head(i + 1)))
      BY <2>2, <3>1
    <3> HIDE DEF i
    <3>3. At(data, m, Elements(head(i)))
      <4> DEFINE s == Elements(head(i))
                 t == SerializeCKeyKV(v[i + 1])
      <4>1. At(data, m, s \o t) /\ s \in Bytes /\ t \in Bytes
        BY <1>9, <3>1, <3>2
      <4> HIDE DEF s, t
      <4>2. At(data, m, s)
        BY <1>2, <4>1, AtBoth
      <4> QED BY <4>2 DEF s
    <3> QED BY <3>1, <3>3 DEF i
  <2>3. \A j \in 0 .. n : j \in T
    <3> HIDE DEF T
    <3> QED BY <1>1, <2>1, <2>2, Induction, Zenon
  <2>4. ASSUME NEW i \in 0 .. n PROVE At(data, m, Elements(head(i)))
    <3>1. n - i \in 0 .. n /\ n - (n - i) = i
      BY <1>1
    <3>2. At(data, m, Elements(head(n - (n - i))))
      BY <2>3, <3>1
    <3> QED BY <3>1, <3>2
  <2> QED BY <2>4
<1>11. \A i \in 0 .. n : els[i] = {Parsed(head(i), end(i))}
  <2> DEFINE T == {i \in 0 .. n : els[i] = {Parsed(head(i), end(i))}}
  <2>1. 0 \in T
    <3>1. end(0) = m
      <4>1. Elements(head(0)) = <<>> /\ Len(<<>>) = 0 /\ m + 0 = m
        BY <1>2, <1>7, ElementsAre
      <4> QED BY <4>1
    <3> QED BY <1>1, <1>6, <1>7, <3>1 DEF ParsesElements
  <2>2. ASSUME NEW i \in 0 .. n - 1, i \in T PROVE i + 1 \in T
    <3>1. i + 1 \in 0 .. n /\ i + 1 \in 1 .. n /\ (i + 1) - 1 = i
      BY <1>1
    <3>2. els[i + 1] = Longer(data, {Parsed(head(i), end(i))})
      BY <1>6, <2>2, <3>1 DEF ParsesElements
    <3>3. /\ At(data, end(i), SerializeCKeyKV(v[i + 1])) /\ end(i) \in Nat
          /\ end(i) + Len(SerializeCKeyKV(v[i + 1])) = end(i + 1)
      <4> DEFINE s == Elements(head(i))
                 t == SerializeCKeyKV(v[i + 1])
      <4>1. /\ Elements(head(i + 1)) = s \o t /\ s \in Bytes /\ t \in Bytes
            /\ At(data, m, s \o t) /\ end(i) = m + Len(s) /\ end(i + 1) = m + Len(s \o t)
        BY <1>9, <1>10, <3>1
      <4> HIDE DEF s, t, end
      <4>2. /\ At(data, m + Len(s), t) /\ m + Len(s) \in Nat
            /\ (m + Len(s)) + Len(t) = m + Len(s \o t)
        BY <1>2, <4>1, AtBoth
      <4> QED BY <4>1, <4>2 DEF t
    <3> HIDE DEF end
    <3>4. DeserializeCKeyKV(data, end(i)) = {Parsed(v[i + 1], end(i + 1))}
      BY <1>8, <3>3, CKeyKVReads
    <3>5. els[i + 1] = {Parsed(Append(head(i), v[i + 1]), end(i + 1))}
      BY <3>2, <3>4, LongerOfOne
    <3> QED BY <1>8, <3>1, <3>5
  <2>3. \A j \in 0 .. n : j \in T
    <3> HIDE DEF T
    <3> QED BY <1>1, <2>1, <2>2, Induction, Zenon
  <2> HIDE DEF end
  <2> QED BY <2>3
<1>12. ElementsOf(data, len) = {Parsed(v, start + Len(SerializeVec(v)))}
  <2>1. n \in 0 .. n /\ end(n) = start + Len(SerializeVec(v))
    BY <1>1, <1>2, <1>7
  <2> HIDE DEF end
  <2> QED BY <1>6, <1>7, <1>11, <2>1
<1>13. DeserializeU64(data, start) = {len} /\ len.val <= Len(data)
  BY <1>3, <1>4, <1>5 DEF len
<1>14. \A r : r \in DeserializeVec(data, start) <=> r \in ElementsOf(data, len)
  BY <1>13, VecAre
<1> QED BY <1>12, <1>14

LEMMA VecExact ==
    ASSUME NEW data, Buffer(data), NEW start \in Nat, NEW r \in DeserializeVec(data, start)
    PROVE  r.val \in Seq(CKeyKVs) /\ Encodes(r, data, start, SerializeVec(r.val))
<1>1. PICK len \in DeserializeU64(data, start) : len.val <= Len(data) /\ r \in ElementsOf(data, len)
  BY VecAre
<1> DEFINE n == len.val
           m == len.end
<1>2. /\ n \in U64 /\ n \in Nat /\ Encodes(len, data, start, SerializeU64(n))
      /\ SerializeU64(n) \in Bytes
  BY U64Exact, U64Bytes, Limits
<1>3. m \in Nat /\ m <= Len(data)
  BY <1>2, EncodesEnd
<1>4. PICK els : ParsesElements(els, n, data, m) /\ r \in els[n]
  BY <1>1, <1>2, <1>3, ElementsOfParses
<1> HIDE DEF n, m
<1> DEFINE Holds(z, i) == z.val \in Seq(CKeyKVs) /\ Len(z.val) = i /\ Encodes(z, data, m, Elements(z.val))
           T == {i \in 0 .. n : \A z \in els[i] : Holds(z, i)}
<1>5. 0 \in T
  <2>1. els[0] = {Parsed(<<>>, m)}
    BY <1>4 DEF ParsesElements
  <2>2. Parsed(<<>>, m).val = <<>> /\ Parsed(<<>>, m).end = m /\ Len(<<>>) = 0 /\ <<>> \in Seq(CKeyKVs)
    BY ParsedIs
  <2>3. At(data, m, <<>>) /\ m + Len(<<>>) = m
    BY <1>3 DEF At
  <2>4. Encodes(Parsed(<<>>, m), data, m, Elements(<<>>))
    BY <2>2, <2>3, ElementsAre DEF Encodes
  <2>5. Holds(Parsed(<<>>, m), 0)
    BY <2>2, <2>4
  <2> HIDE DEF Holds
  <2>6. 0 \in 0 .. n
    BY <1>2
  <2> QED BY <2>1, <2>5, <2>6
<1>6. ASSUME NEW i \in 0 .. n - 1, i \in T PROVE i + 1 \in T
  <2>1. i + 1 \in 0 .. n /\ i + 1 \in 1 .. n /\ (i + 1) - 1 = i /\ i \in 0 .. n
    BY <1>2
  <2>2. ASSUME NEW z \in els[i + 1] PROVE Holds(z, i + 1)
    <3>1. z \in Longer(data, els[i])
      BY <1>4, <2>1 DEF ParsesElements
    <3>2. PICK x \in els[i] : \E kv \in DeserializeCKeyKV(data, x.end) : z = Parsed(Append(x.val, kv.val), kv.end)
      BY <3>1, LongerAre
    <3>3. PICK kv \in DeserializeCKeyKV(data, x.end) : z = Parsed(Append(x.val, kv.val), kv.end)
      BY <3>2
    <3>4. x.val \in Seq(CKeyKVs) /\ Len(x.val) = i /\ Encodes(x, data, m, Elements(x.val)) /\ Elements(x.val) \in Bytes
      BY <1>6, ElementsAre
    <3>5. x.end \in Nat
      BY <1>3, <3>4, EncodesEnd
    <3>6. kv.val \in CKeyKVs /\ Encodes(kv, data, x.end, SerializeCKeyKV(kv.val)) /\ SerializeCKeyKV(kv.val) \in Bytes
      BY <3>5, CKeyKVExact, CKeyKVBytes
    <3>7. z.val = Append(x.val, kv.val) /\ z.end = kv.end /\ z = Parsed(z.val, z.end)
      BY <3>3, ParsedIs
    <3>8. z.val \in Seq(CKeyKVs) /\ Len(z.val) = i + 1
      BY <3>4, <3>6, <3>7
    <3>9. Elements(z.val) = Elements(x.val) \o SerializeCKeyKV(kv.val)
      BY <3>4, <3>6, <3>7, ElementsAre
    <3>10. At(data, m, Elements(z.val)) /\ z.end = m + Len(Elements(z.val))
      BY <1>3, <3>4, <3>6, <3>7, <3>9, EncodesBoth
    <3> QED BY <3>7, <3>8, <3>10 DEF Encodes
  <2> HIDE DEF Holds
  <2> QED BY <2>1, <2>2
<1>7. \A j \in 0 .. n : j \in T
  <2> HIDE DEF T
  <2> QED BY <1>2, <1>5, <1>6, Induction, Zenon
<1>8. Holds(r, n)
  <2>1. n \in 0 .. n
    BY <1>2
  <2> HIDE DEF Holds
  <2> QED BY <1>4, <1>7, <2>1
<1>9. r.val \in Seq(CKeyKVs) /\ Len(r.val) = n /\ Encodes(r, data, m, Elements(r.val)) /\ Elements(r.val) \in Bytes
  BY <1>8, ElementsAre
<1>10. SerializeVec(r.val) = SerializeU64(n) \o Elements(r.val)
  BY <1>9, VecBytes
<1>11. At(data, start, SerializeVec(r.val)) /\ r.end = start + Len(SerializeVec(r.val))
  BY <1>2, <1>9, <1>10, EncodesBoth DEF m
<1> QED BY <1>9, <1>11 DEF Encodes

-----------------------------------------------------------------------------
(***************************************************************************)
(* Tables: a finite set of numbers has one increasing enumeration, so that *)
(* a table is the same after ToVec and FromVec, and a vector whose keys    *)
(* increase after FromVec and ToVec.                                       *)
(***************************************************************************)
Increasing(keys, n) == \A i, j \in 1 .. n : i < j => keys[i] < keys[j]

Enumerates(keys, n, S) ==
    /\ keys \in [1 .. n -> S]
    /\ Increasing(keys, n)
    /\ \A x \in S : \E i \in 1 .. n : keys[i] = x

LEMMA IncreasingIsInjective ==
    ASSUME NEW n \in Nat, NEW S \in SUBSET Nat, NEW keys \in [1 .. n -> S], Increasing(keys, n)
    PROVE  /\ \A i, j \in 1 .. n : keys[i] = keys[j] => i = j
           /\ \A i, j \in 1 .. n : keys[i] < keys[j] => i < j
           /\ keys \in Injection(1 .. n, S)
<1>1. \A i \in 1 .. n : keys[i] \in Nat
  OBVIOUS
<1>2. ASSUME NEW i \in 1 .. n, NEW j \in 1 .. n, keys[i] = keys[j] PROVE i = j
  BY <1>1, <1>2 DEF Increasing
<1>3. ASSUME NEW i \in 1 .. n, NEW j \in 1 .. n, keys[i] < keys[j] PROVE i < j
  BY <1>1, <1>3 DEF Increasing
<1>4. keys \in Injection(1 .. n, S)
  BY <1>2 DEF Injection, IsInjective
<1> QED BY <1>2, <1>3, <1>4

LEMMA EnumerationsAreCounted ==
    ASSUME NEW n \in Nat, NEW S \in SUBSET Nat, NEW keys, Enumerates(keys, n, S)
    PROVE  IsFiniteSet(S) /\ Cardinality(S) = n
<1>1. keys \in Bijection(1 .. n, S)
  <2>1. keys \in [1 .. n -> S] /\ Increasing(keys, n) /\ \A x \in S : \E i \in 1 .. n : keys[i] = x
    BY DEF Enumerates
  <2>2. keys \in Injection(1 .. n, S)
    BY <2>1, IncreasingIsInjective
  <2>3. keys \in Surjection(1 .. n, S)
    BY <2>1 DEF Surjection
  <2> QED BY <2>2, <2>3 DEF Bijection
<1>2. ExistsBijection(1 .. n, S)
  BY <1>1 DEF ExistsBijection
<1>3. IsFiniteSet(S)
  BY <1>2, FS_NatBijection
<1> QED BY <1>2, <1>3, FS_CountingElements

LEMMA EnumerationExists ==
    ASSUME NEW N \in Nat
    PROVE  \A S \in SUBSET Nat : IsFiniteSet(S) /\ Cardinality(S) = N => \E keys : Enumerates(keys, N, S)
<1> DEFINE Sets(n) == {S \in SUBSET Nat : IsFiniteSet(S) /\ Cardinality(S) = n}
           T == {n \in 0 .. N : \A S \in Sets(n) : \E keys : Enumerates(keys, n, S)}
<1>1. 0 \in T
  <2>1. ASSUME NEW S \in Sets(0) PROVE \E keys : Enumerates(keys, 0, S)
    <3>1. S = {}
      BY FS_EmptySet
    <3>2. Enumerates([i \in 1 .. 0 |-> 0], 0, S)
      BY <3>1 DEF Enumerates, Increasing
    <3> QED BY <3>2
  <2> HIDE DEF Sets
  <2> QED BY <2>1
<1>2. ASSUME NEW n \in 0 .. N - 1, n \in T PROVE n + 1 \in T
  <2>1. ASSUME NEW S \in Sets(n + 1) PROVE \E keys : Enumerates(keys, n + 1, S)
    <3>1. S \subseteq Nat /\ IsFiniteSet(S) /\ Cardinality(S) = n + 1
      OBVIOUS
    <3>2. S # {}
      BY <3>1, FS_EmptySet
    <3>3. PICK x \in S : \A y \in S : x <= y
      BY <3>1, <3>2, LeastElement
    <3> DEFINE R == S \ {x}
    <3>4. IsFiniteSet(R) /\ Cardinality(R) = n
      BY <3>1, FS_RemoveElement
    <3>5. PICK k : Enumerates(k, n, R)
      <4>1. R \in Sets(n)
        BY <3>1, <3>4
      <4> HIDE DEF Sets, R
      <4> QED BY <1>2, <4>1
    <3> DEFINE keys == [i \in 1 .. n + 1 |-> IF i = 1 THEN x ELSE k[i - 1]]
    <3>6. k \in [1 .. n -> R] /\ Increasing(k, n) /\ \A y \in R : \E i \in 1 .. n : k[i] = y
      BY <3>5 DEF Enumerates
    <3>7. \A i \in 1 .. n + 1 : i # 1 => i - 1 \in 1 .. n /\ k[i - 1] \in R
      BY <3>6
    <3>8. keys \in [1 .. n + 1 -> S]
      BY <3>7
    <3>9. ASSUME NEW i \in 1 .. n + 1, NEW j \in 1 .. n + 1, i < j PROVE keys[i] < keys[j]
      <4>1. keys[j] = k[j - 1] /\ j - 1 \in 1 .. n /\ k[j - 1] \in R
        BY <3>7, <3>9
      <4>2. CASE i = 1
        <5> DEFINE y == k[j - 1]
        <5>1. keys[i] = x /\ y \in S /\ y # x
          BY <4>1, <4>2
        <5> HIDE DEF y
        <5>2. x <= y /\ x \in Nat /\ y \in Nat
          BY <3>1, <3>3, <5>1
        <5>3. x < y
          BY <5>1, <5>2
        <5> HIDE DEF keys
        <5> QED BY <4>1, <5>1, <5>3 DEF y
      <4>3. CASE i # 1
        <5>1. keys[i] = k[i - 1] /\ i - 1 \in 1 .. n /\ i - 1 < j - 1
          BY <3>9, <4>3
        <5> QED BY <3>6, <4>1, <5>1 DEF Increasing
      <4> QED BY <4>2, <4>3
    <3>10. ASSUME NEW y \in S PROVE \E i \in 1 .. n + 1 : keys[i] = y
      <4>1. CASE y = x
        <5>1. 1 \in 1 .. n + 1 /\ keys[1] = x
          OBVIOUS
        <5> HIDE DEF keys
        <5> QED BY <4>1, <5>1
      <4>2. CASE y # x
        <5>1. PICK i \in 1 .. n : k[i] = y
          BY <3>6, <4>2
        <5>2. i + 1 \in 1 .. n + 1 /\ keys[i + 1] = y
          BY <5>1
        <5> HIDE DEF keys
        <5> QED BY <5>2
      <4> QED BY <4>1, <4>2
    <3> HIDE DEF keys, Sets
    <3>11. Enumerates(keys, n + 1, S)
      BY <3>8, <3>9, <3>10 DEF Enumerates, Increasing
    <3> QED BY <3>11
  <2>2. n + 1 \in 0 .. N
    OBVIOUS
  <2> HIDE DEF Sets
  <2> QED BY <2>1, <2>2
<1>3. \A n \in 0 .. N : n \in T
  <2> HIDE DEF T
  <2> QED BY <1>1, <1>2, Induction, Zenon
<1>4. \A S \in Sets(N) : \E keys : Enumerates(keys, N, S)
  <2>1. N \in 0 .. N
    OBVIOUS
  <2> HIDE DEF Sets
  <2> QED BY <1>3, <2>1
<1>5. \A S \in SUBSET Nat : IsFiniteSet(S) /\ Cardinality(S) = N => S \in Sets(N)
  OBVIOUS
<1> HIDE DEF Sets
<1> QED BY <1>4, <1>5

LEMMA EnumerationIsUnique ==
    ASSUME NEW n \in Nat, NEW S \in SUBSET Nat, NEW k, NEW l, Enumerates(k, n, S), Enumerates(l, n, S)
    PROVE  k = l
<1> DEFINE Differ == {i \in 1 .. n : k[i] # l[i]}
<1>1. SUFFICES ASSUME Differ # {} PROVE FALSE
  BY DEF Enumerates
<1>2. PICK i \in Differ : \A j \in Differ : i <= j
  <2>1. Differ \subseteq Nat
    OBVIOUS
  <2> HIDE DEF Differ
  <2> QED BY <1>1, <2>1, LeastElement
<1>3. i \in 1 .. n /\ k[i] # l[i] /\ \A j \in 1 .. n : j < i => k[j] = l[j]
  BY <1>2
<1> HIDE DEF Differ
<1>4. /\ k \in [1 .. n -> S] /\ Increasing(k, n) /\ \A x \in S : \E j \in 1 .. n : k[j] = x
      /\ l \in [1 .. n -> S] /\ Increasing(l, n) /\ \A x \in S : \E j \in 1 .. n : l[j] = x
  BY DEF Enumerates
<1>5. k[i] \in S /\ l[i] \in S /\ k[i] \in Nat /\ l[i] \in Nat
  BY <1>3, <1>4
<1>6. PICK a \in 1 .. n : l[a] = k[i]
  BY <1>4, <1>5
<1>7. PICK b \in 1 .. n : k[b] = l[i]
  BY <1>4, <1>5
<1>8. ~(k[i] < l[i])
  <2> SUFFICES ASSUME k[i] < l[i] PROVE FALSE
    OBVIOUS
  <2>1. l[a] < l[i]
    BY <1>6
  <2>2. a < i
    BY <1>3, <1>4, <2>1, IncreasingIsInjective
  <2>3. k[a] = k[i]
    BY <1>3, <1>6, <2>2
  <2>4. k[a] < k[i]
    BY <1>3, <1>4, <2>2 DEF Increasing
  <2> QED BY <1>5, <2>3, <2>4
<1>9. ~(l[i] < k[i])
  <2> SUFFICES ASSUME l[i] < k[i] PROVE FALSE
    OBVIOUS
  <2>1. k[b] < k[i]
    BY <1>7
  <2>2. b < i
    BY <1>3, <1>4, <2>1, IncreasingIsInjective
  <2>3. l[b] = l[i]
    BY <1>3, <1>7, <2>2
  <2>4. l[b] < l[i]
    BY <1>3, <1>4, <2>2 DEF Increasing
  <2> QED BY <1>5, <2>3, <2>4
<1> QED BY <1>3, <1>5, <1>8, <1>9

LEMMA SortedEnumerates ==
    ASSUME NEW S \in SUBSET Nat, IsFiniteSet(S)
    PROVE  Enumerates(Sorted(S), Cardinality(S), S)
<1> DEFINE n == Cardinality(S)
<1>1. n \in Nat
  BY FS_CardinalityType
<1>2. PICK k : Enumerates(k, n, S)
  BY <1>1, EnumerationExists
<1>3. k \in [1 .. n -> S] /\ \A i, j \in 1 .. n : i < j => k[i] < k[j]
  BY <1>2 DEF Enumerates, Increasing
<1>4. Sorted(S) \in [1 .. n -> S] /\ \A i, j \in 1 .. n : i < j => Sorted(S)[i] < Sorted(S)[j]
  BY <1>3, Zenon DEF Sorted
<1> DEFINE keys == Sorted(S)
<1>5. keys \in [1 .. n -> S] /\ Increasing(keys, n)
  BY <1>4 DEF Increasing
<1> HIDE DEF keys
<1>6. keys \in Injection(1 .. n, S)
  BY <1>1, <1>5, IncreasingIsInjective
<1>7. Cardinality(1 .. n) = n /\ IsFiniteSet(1 .. n)
  BY <1>1, FS_Interval
<1>8. keys \in Surjection(1 .. n, S)
  BY <1>6, <1>7, FS_Injection
<1>9. \A x \in S : \E i \in 1 .. n : keys[i] = x
  BY <1>8 DEF Surjection
<1> QED BY <1>5, <1>9 DEF Enumerates, keys

LEMMA TableIs ==
    ASSUME NEW h, IsTable(h)
    PROVE  /\ DOMAIN h \in SUBSET Nat /\ IsFiniteSet(DOMAIN h) /\ Cardinality(DOMAIN h) \in Nat
           /\ Enumerates(Sorted(DOMAIN h), Cardinality(DOMAIN h), DOMAIN h)
<1>1. DOMAIN h \in SUBSET U64 /\ U64 = 0 .. UsizeMax /\ UsizeMax \in Nat
  BY Limits DEF IsTable, U64
<1>2. IsFiniteSet(U64)
  BY <1>1, FS_Interval
<1>3. IsFiniteSet(DOMAIN h) /\ DOMAIN h \in SUBSET Nat
  BY <1>1, <1>2, FS_Subset
<1> QED BY <1>3, FS_CardinalityType, SortedEnumerates

LEMMA ToVecIs ==
    ASSUME NEW h, IsTable(h)
    PROVE  LET n == Cardinality(DOMAIN h)
               keys == Sorted(DOMAIN h)
           IN  /\ ToVec(h) \in Seq(CKeyKVs) /\ Len(ToVec(h)) = n
               /\ \A i \in 1 .. n : ToVec(h)[i] = [k |-> keys[i], v |-> h[keys[i]]]
<1> DEFINE n == Cardinality(DOMAIN h)
           keys == Sorted(DOMAIN h)
<1>1. n \in Nat /\ keys \in [1 .. n -> DOMAIN h]
  BY TableIs DEF Enumerates
<1>2. ToVec(h) = [i \in DOMAIN keys |-> [k |-> keys[i], v |-> h[keys[i]]]]
  BY DEF ToVec
<1> HIDE DEF n, keys
<1>3. ToVec(h) = [i \in 1 .. n |-> [k |-> keys[i], v |-> h[keys[i]]]]
  BY <1>1, <1>2
<1>4. \A i \in 1 .. n : [k |-> keys[i], v |-> h[keys[i]]] \in CKeyKVs
  BY <1>1 DEF IsTable, CKeyKVs
<1>5. ToVec(h) \in Seq(CKeyKVs) /\ Len(ToVec(h)) = n
  BY <1>1, <1>3, <1>4
<1>6. \A i \in 1 .. n : ToVec(h)[i] = [k |-> keys[i], v |-> h[keys[i]]]
  BY <1>3
<1> QED BY <1>5, <1>6 DEF n, keys

LEMMA CKeyKVsAre ==
    ASSUME NEW v \in Seq(CKeyKVs)
    PROVE  /\ Len(v) \in Nat /\ DOMAIN v = 1 .. Len(v)
           /\ \A i \in 1 .. Len(v) :
                /\ v[i] = [k |-> v[i].k, v |-> v[i].v]
                /\ v[i].k \in U64 /\ v[i].k \in Nat /\ v[i].v \in Bytes
<1>1. Len(v) \in Nat /\ DOMAIN v = 1 .. Len(v) /\ \A i \in 1 .. Len(v) : v[i] \in CKeyKVs
  OBVIOUS
<1>2. \A kv \in CKeyKVs : kv = [k |-> kv.k, v |-> kv.v] /\ kv.k \in U64 /\ kv.v \in Bytes
  BY DEF CKeyKVs
<1> QED BY <1>1, <1>2, Limits

\* A key stands at one place only.
Once(v) == \A i, j \in DOMAIN v : v[i].k = v[j].k => i = j

LEMMA FromVecIs ==
    ASSUME NEW v \in Seq(CKeyKVs)
    PROVE  /\ IsTable(FromVec(v))
           /\ DOMAIN FromVec(v) = {v[i].k : i \in 1 .. Len(v)}
           /\ Once(v) => \A i \in 1 .. Len(v) : FromVec(v)[v[i].k] = v[i].v
<1> DEFINE n == Len(v)
           Keys == {v[i].k : i \in DOMAIN v}
           LastFor(key) == CHOOSE i \in DOMAIN v : v[i].k = key /\ \A j \in i + 1 .. Len(v) : v[j].k # key
<1>1. n \in Nat /\ DOMAIN v = 1 .. n /\ \A i \in 1 .. n : v[i].k \in U64 /\ v[i].v \in Bytes
  BY CKeyKVsAre
<1>2. FromVec(v) = [key \in Keys |-> v[LastFor(key)].v]
  BY Zenon DEF FromVec
<1>3. ASSUME NEW key \in Keys
      PROVE  LastFor(key) \in 1 .. n /\ v[LastFor(key)].k = key
  <2> DEFINE Behind == {d \in 0 .. n - 1 : v[n - d].k = key}
  <2>1. PICK i \in 1 .. n : v[i].k = key
    BY <1>1
  <2>2. n - i \in Behind
    <3>1. n - i \in 0 .. n - 1 /\ n - (n - i) = i
      BY <1>1
    <3> QED BY <2>1, <3>1
  <2>3. PICK d \in Behind : \A c \in Behind : d <= c
    <3>1. Behind # {}
      BY <2>2
    <3>2. Behind \subseteq Nat
      <4> HIDE DEF n
      <4> QED BY <1>1
    <3> HIDE DEF Behind
    <3> QED BY <3>1, <3>2, LeastElement
  <2>4. n - d \in 1 .. n /\ v[n - d].k = key
    BY <1>1
  <2>5. ASSUME NEW j \in (n - d) + 1 .. n PROVE v[j].k # key
    <3> SUFFICES ASSUME v[j].k = key PROVE FALSE
      OBVIOUS
    <3>1. n - j \in 0 .. n - 1 /\ n - (n - j) = j /\ n - j < d
      BY <1>1
    <3>2. n - j \in Behind
      BY <3>1
    <3>3. d \in Nat
      BY <1>1
    <3> HIDE DEF Behind
    <3>4. d <= n - j
      BY <2>3, <3>2
    <3> QED BY <3>1, <3>3, <3>4
  <2> HIDE DEF Behind
  <2>6. n - d \in DOMAIN v /\ v[n - d].k = key /\ \A j \in (n - d) + 1 .. Len(v) : v[j].k # key
    BY <1>1, <2>4, <2>5
  <2>7. \E m \in DOMAIN v : v[m].k = key /\ \A j \in m + 1 .. Len(v) : v[j].k # key
    BY <2>6, Zenon
  <2>8. LastFor(key) \in DOMAIN v /\ v[LastFor(key)].k = key
    BY <2>7, Zenon
  <2> HIDE DEF LastFor
  <2> QED BY <1>1, <2>8
<1> HIDE DEF LastFor
<1>4. DOMAIN FromVec(v) = Keys
  BY <1>2
<1>5. Keys \subseteq U64 /\ Keys = {v[i].k : i \in 1 .. n}
  BY <1>1
<1>6. ASSUME NEW key \in Keys PROVE FromVec(v)[key] = v[LastFor(key)].v /\ v[LastFor(key)].v \in Bytes
  <2> HIDE DEF Keys
  <2> QED BY <1>1, <1>2, <1>3
<1>7. FromVec(v) \in [Keys -> Bytes]
  <2> HIDE DEF Keys
  <2> QED BY <1>2, <1>6
<1>8. IsTable(FromVec(v))
  BY <1>4, <1>5, <1>7 DEF IsTable
<1>9. ASSUME Once(v), NEW i \in 1 .. n PROVE FromVec(v)[v[i].k] = v[i].v
  <2>1. v[i].k \in Keys
    BY <1>1
  <2> HIDE DEF Keys
  <2>2. LastFor(v[i].k) \in 1 .. n /\ v[LastFor(v[i].k)].k = v[i].k
    BY <1>3, <2>1
  <2>3. LastFor(v[i].k) = i
    BY <1>1, <1>9, <2>2 DEF Once
  <2> QED BY <1>6, <2>1, <2>3
<1> HIDE DEF Keys
<1> QED BY <1>4, <1>5, <1>8, <1>9

\* What from_vec makes of the vector to_vec makes of a table is the table
\* again, and that vector holds the pairs of the table by their keys: the code
\* takes this for granted as the axiom lemma_to_vec (hashmap_t.rs 129-140).
THEOREM FromVecToVec ==
    ASSUME NEW h, IsTable(h)
    PROVE  /\ FromVec(ToVec(h)) = h
           /\ Len(ToVec(h)) = Cardinality(DOMAIN h)
           /\ SortedKeys(ToVec(h))
           /\ \A i \in DOMAIN ToVec(h) : ToVec(h)[i].k \in DOMAIN h /\ h[ToVec(h)[i].k] = ToVec(h)[i].v
<1> DEFINE n == Cardinality(DOMAIN h)
           keys == Sorted(DOMAIN h)
           v == ToVec(h)
<1>1. /\ n \in Nat /\ DOMAIN h \in SUBSET Nat
      /\ keys \in [1 .. n -> DOMAIN h] /\ Increasing(keys, n) /\ \A x \in DOMAIN h : \E i \in 1 .. n : keys[i] = x
  BY TableIs DEF Enumerates
<1>2. /\ v \in Seq(CKeyKVs) /\ Len(v) = n /\ DOMAIN v = 1 .. n
      /\ \A i \in 1 .. n : v[i].k = keys[i] /\ v[i].v = h[keys[i]]
  <2>1. v \in Seq(CKeyKVs) /\ Len(v) = n /\ \A i \in 1 .. n : v[i] = [k |-> keys[i], v |-> h[keys[i]]]
    BY ToVecIs, Zenon
  <2> HIDE DEF n, keys, v
  <2> QED BY <2>1
<1> HIDE DEF n, keys, v
<1>3. Once(v)
  <2>1. \A i, j \in 1 .. n : keys[i] = keys[j] => i = j
    BY <1>1, IncreasingIsInjective
  <2> QED BY <1>2, <2>1 DEF Once
<1>4. {v[i].k : i \in 1 .. n} = DOMAIN h
  <2>1. ASSUME NEW i \in 1 .. n PROVE v[i].k \in DOMAIN h
    BY <1>1, <1>2
  <2>2. ASSUME NEW key \in DOMAIN h PROVE \E i \in 1 .. n : key = v[i].k
    BY <1>1, <1>2
  <2> QED BY <2>1, <2>2
<1>5. DOMAIN FromVec(v) = DOMAIN h
  BY <1>2, <1>4, FromVecIs
<1>6. ASSUME NEW key \in DOMAIN h PROVE FromVec(v)[key] = h[key]
  <2>1. PICK i \in 1 .. n : keys[i] = key
    BY <1>1
  <2>2. FromVec(v)[v[i].k] = v[i].v
    BY <1>2, <1>3, FromVecIs
  <2> QED BY <1>2, <2>1, <2>2
<1>7. FromVec(v) \in [DOMAIN h -> Bytes] /\ h \in [DOMAIN h -> Bytes]
  <2>1. IsTable(FromVec(v))
    BY <1>2, FromVecIs
  <2> QED BY <1>5, <2>1 DEF IsTable
<1>8. FromVec(v) = h
  BY <1>6, <1>7
<1>9. SortedKeys(v)
  <2> SUFFICES ASSUME NEW i \in 2 .. n PROVE v[i - 1].k < v[i].k
    BY <1>2 DEF SortedKeys
  <2>1. i - 1 \in 1 .. n /\ i \in 1 .. n /\ i - 1 < i
    BY <1>1
  <2> QED BY <1>1, <1>2, <2>1 DEF Increasing
<1>10. \A i \in DOMAIN v : v[i].k \in DOMAIN h /\ h[v[i].k] = v[i].v
  BY <1>1, <1>2
<1> QED BY <1>2, <1>8, <1>9, <1>10 DEF n, v

LEMMA SortedKeysIncrease ==
    ASSUME NEW v \in Seq(CKeyKVs), SortedKeys(v)
    PROVE  \A i, j \in 1 .. Len(v) : i < j => v[i].k < v[j].k
<1>1. Len(v) \in Nat /\ \A i \in 1 .. Len(v) : v[i].k \in Nat
  BY CKeyKVsAre
<1> SUFFICES ASSUME NEW i \in 1 .. Len(v) PROVE \A j \in 1 .. Len(v) : i < j => v[i].k < v[j].k
  OBVIOUS
<1> DEFINE m == Len(v) - i
           T == {d \in 0 .. m : d = 0 \/ v[i].k < v[i + d].k}
<1>2. m \in Nat
  BY <1>1
<1>3. 0 \in T
  BY <1>2
<1>4. ASSUME NEW d \in 0 .. m - 1, d \in T PROVE d + 1 \in T
  <2>1. i + (d + 1) \in 2 .. Len(v) /\ (i + (d + 1)) - 1 = i + d /\ i + d \in 1 .. Len(v) /\ i + (d + 1) \in 1 .. Len(v)
    BY <1>1
  <2>2. v[i + d].k < v[i + (d + 1)].k
    BY <2>1 DEF SortedKeys
  <2>3. d + 1 \in 0 .. m
    BY <1>1
  <2>4. v[i].k < v[i + (d + 1)].k
    <3>1. CASE d = 0
      BY <2>2, <3>1
    <3>2. CASE d # 0
      <4>1. v[i].k < v[i + d].k
        BY <1>4, <3>2
      <4>2. v[i].k \in Nat /\ v[i + d].k \in Nat /\ v[i + (d + 1)].k \in Nat
        BY <1>1, <2>1
      <4> QED BY <2>2, <4>1, <4>2
    <3> QED BY <3>1, <3>2
  <2> QED BY <2>3, <2>4
<1>5. \A d \in 0 .. m : d \in T
  <2> HIDE DEF T
  <2> QED BY <1>2, <1>3, <1>4, Induction, Zenon
<1>6. ASSUME NEW j \in 1 .. Len(v), i < j PROVE v[i].k < v[j].k
  <2>1. j - i \in 0 .. m /\ j - i # 0 /\ i + (j - i) = j
    BY <1>1, <1>6
  <2>2. v[i].k < v[i + (j - i)].k
    BY <1>5, <2>1
  <2> QED BY <2>1, <2>2
<1> QED BY <1>6

\* A vector whose keys increase, as the parser of a table wants them, is what
\* to_vec makes of the table from_vec makes of it: the axiom lemma_from_vec
\* (hashmap_t.rs 149-152).
THEOREM ToVecFromVec ==
    ASSUME NEW v \in Seq(CKeyKVs), SortedKeys(v)
    PROVE  ToVec(FromVec(v)) = v
<1> DEFINE n == Len(v)
           h == FromVec(v)
           S == {v[i].k : i \in 1 .. n}
           keys == [i \in 1 .. n |-> v[i].k]
<1>1. n \in Nat /\ DOMAIN v = 1 .. n /\ \A i \in 1 .. n : v[i] = [k |-> v[i].k, v |-> v[i].v] /\ v[i].k \in Nat
  BY CKeyKVsAre
<1>2. \A i, j \in 1 .. n : i < j => v[i].k < v[j].k
  BY SortedKeysIncrease
<1>3. IsTable(h) /\ DOMAIN h = S
  BY FromVecIs
<1>4. S \in SUBSET Nat
  BY <1>1
<1>5. Once(v)
  BY <1>1, <1>2 DEF Once
<1>6. \A i \in 1 .. n : h[v[i].k] = v[i].v
  BY <1>5, FromVecIs
<1>7. Enumerates(keys, n, S)
  <2>1. keys \in [1 .. n -> S] /\ \A x \in S : \E i \in 1 .. n : keys[i] = x
    OBVIOUS
  <2>2. Increasing(keys, n)
    BY <1>2 DEF Increasing
  <2> HIDE DEF keys, S
  <2> QED BY <2>1, <2>2 DEF Enumerates
<1> HIDE DEF S, h
<1>8. \A i \in 1 .. n : keys[i] = v[i].k
  OBVIOUS
<1> HIDE DEF keys
<1>9. Cardinality(S) = n
  BY <1>1, <1>4, <1>7, EnumerationsAreCounted
<1>10. Sorted(S) = keys
  BY <1>1, <1>3, <1>4, <1>7, <1>9, TableIs, EnumerationIsUnique
<1>11. /\ ToVec(h) \in Seq(CKeyKVs) /\ Len(ToVec(h)) = n
       /\ \A i \in 1 .. n : ToVec(h)[i] = [k |-> keys[i], v |-> h[keys[i]]]
  BY <1>3, <1>9, <1>10, ToVecIs
<1>12. \A i \in 1 .. n : ToVec(h)[i] = v[i]
  BY <1>1, <1>6, <1>8, <1>11
<1>13. ToVec(h) = v
  BY <1>11, <1>12, SeqEqual
<1> QED BY <1>13 DEF h

LEMMA CKeyHashMapBytes ==
    ASSUME NEW h, IsTable(h)
    PROVE  SerializeCKeyHashMap(h) \in Bytes /\ Len(SerializeCKeyHashMap(h)) \in Nat \ {0}
<1> DEFINE v == ToVec(h)
<1>1. v \in Seq(CKeyKVs)
  BY ToVecIs
<1> HIDE DEF v
<1>2. SerializeCKeyHashMap(h) = SerializeVec(v)
  BY DEF SerializeCKeyHashMap, v
<1>3. Len(SerializeVec(v)) = WordSize + Len(Elements(v)) /\ Len(Elements(v)) \in Nat
  BY <1>1, VecBytes, ElementsAre, ConcatIs
<1>4. SerializeVec(v) \in Bytes /\ WordSize \in Nat \ {0}
  BY <1>1, VecBytes, Limits
<1> QED BY <1>2, <1>3, <1>4

\* A table is read back if it is within the limit, and not at all if not.
LEMMA CKeyHashMapReads ==
    ASSUME NEW data, Buffer(data), NEW start \in Nat, NEW h, IsTable(h), At(data, start, SerializeCKeyHashMap(h))
    PROVE  DeserializeCKeyHashMap(data, start) =
                IF Len(SerializeCKeyHashMap(h)) <= MaxTableSize
                THEN {Parsed(h, start + Len(SerializeCKeyHashMap(h)))} ELSE {}
<1> DEFINE v == ToVec(h)
           size == Len(SerializeCKeyHashMap(h))
           Within == {r \in DeserializeVec(data, start) : SortedKeys(r.val) /\ r.end - start <= MaxTableSize}
           Of(r) == Parsed(FromVec(r.val), r.end)
<1>1. v \in Seq(CKeyKVs) /\ FromVec(v) = h /\ SortedKeys(v)
  BY ToVecIs, FromVecToVec
<1>2. SerializeCKeyHashMap(h) = SerializeVec(v) /\ size \in Nat
  BY CKeyHashMapBytes DEF SerializeCKeyHashMap
<1>3. DeserializeVec(data, start) = {Parsed(v, start + size)}
  BY <1>1, <1>2, VecReads
<1> HIDE DEF size, v
<1>4. DeserializeCKeyHashMap(data, start) = {Of(r) : r \in Within}
  BY Zenon DEF DeserializeCKeyHashMap, As
<1>5. Of(Parsed(v, start + size)) = Parsed(h, start + size)
  BY <1>1, ParsedIs
<1>6. CASE size <= MaxTableSize
  <2>1. Within = {Parsed(v, start + size)}
    <3>1. (start + size) - start = size
      BY <1>2
    <3>2. SortedKeys(Parsed(v, start + size).val) /\ Parsed(v, start + size).end - start <= MaxTableSize
      BY <1>1, <1>6, <3>1, ParsedIs
    <3> QED BY <1>3, <3>2
  <2> HIDE DEF Within, Of
  <2> QED BY <1>4, <1>5, <1>6, <2>1 DEF size
<1>7. CASE ~(size <= MaxTableSize)
  <2>1. Within = {}
    <3>1. (start + size) - start = size
      BY <1>2
    <3>2. ~(Parsed(v, start + size).end - start <= MaxTableSize)
      BY <1>7, <3>1, ParsedIs
    <3> QED BY <1>3, <3>2
  <2> HIDE DEF Within, Of
  <2> QED BY <1>4, <1>7, <2>1 DEF size
<1> QED BY <1>6, <1>7

LEMMA CKeyHashMapExact ==
    ASSUME NEW data, Buffer(data), NEW start \in Nat, NEW r \in DeserializeCKeyHashMap(data, start)
    PROVE  /\ IsTable(r.val) /\ Encodes(r, data, start, SerializeCKeyHashMap(r.val))
           /\ Len(SerializeCKeyHashMap(r.val)) <= MaxTableSize
<1> DEFINE Within == {v \in DeserializeVec(data, start) : SortedKeys(v.val) /\ v.end - start <= MaxTableSize}
<1>1. DeserializeCKeyHashMap(data, start) = {Parsed(FromVec(v.val), v.end) : v \in Within}
  BY Zenon DEF DeserializeCKeyHashMap, As
<1>2. PICK v \in Within : r = Parsed(FromVec(v.val), v.end)
  <2> HIDE DEF Within
  <2> QED BY <1>1
<1>3. v \in DeserializeVec(data, start) /\ SortedKeys(v.val) /\ v.end - start <= MaxTableSize
  OBVIOUS
<1>4. v.val \in Seq(CKeyKVs) /\ Encodes(v, data, start, SerializeVec(v.val)) /\ SerializeVec(v.val) \in Bytes
  BY <1>3, VecExact, VecBytes
<1>5. r.val = FromVec(v.val) /\ r.end = v.end /\ r = Parsed(r.val, r.end)
  BY <1>2, ParsedIs
<1>6. IsTable(r.val) /\ ToVec(r.val) = v.val
  BY <1>3, <1>4, <1>5, FromVecIs, ToVecFromVec
<1>7. SerializeCKeyHashMap(r.val) = SerializeVec(v.val)
  BY <1>6 DEF SerializeCKeyHashMap
<1>8. Encodes(r, data, start, SerializeCKeyHashMap(r.val))
  BY <1>4, <1>5, <1>7 DEF Encodes
<1>9. Len(SerializeVec(v.val)) <= MaxTableSize
  <2>1. Len(SerializeVec(v.val)) \in Nat /\ v.end = start + Len(SerializeVec(v.val))
    BY <1>4, BytesLen DEF Encodes
  <2> QED BY <1>3, <2>1
<1> QED BY <1>6, <1>7, <1>8, <1>9

-----------------------------------------------------------------------------
(***************************************************************************)
(* The messages between hosts and clients. A tag is read only if something *)
(* stands behind it, which is so for all of them.                          *)
(***************************************************************************)
RangeAndBytes(data, start) == DeserializePair(DeserializeKeyRange, DeserializeBytes, data, start)

LEMMA RangeAndBytesAre ==
    ASSUME NEW data, NEW start
    PROVE  \A p : p \in RangeAndBytes(data, start) <=>
                \E x \in DeserializeKeyRange(data, start) : \E y \in DeserializeBytes(data, x.end) :
                    p = Parsed(<<x.val, y.val>>, y.end)
<1> DEFINE Behind(x) == {Parsed(<<x.val, y.val>>, y.end) : y \in DeserializeBytes(data, x.end)}
<1>1. RangeAndBytes(data, start) = UNION {Behind(x) : x \in DeserializeKeyRange(data, start)}
  BY Zenon DEF RangeAndBytes, DeserializePair, As
<1>2. \A p, x : p \in Behind(x) <=> \E y \in DeserializeBytes(data, x.end) : p = Parsed(<<x.val, y.val>>, y.end)
  BY Zenon
<1> HIDE DEF Behind
<1>3. \A p : p \in RangeAndBytes(data, start) <=> \E x \in DeserializeKeyRange(data, start) : p \in Behind(x)
  BY <1>1, Zenon
<1> QED BY <1>2, <1>3

LEMMA RangeAndBytesOfOne ==
    ASSUME NEW data, NEW start, NEW a, NEW m, NEW b, NEW e,
           DeserializeKeyRange(data, start) = {Parsed(a, m)}, DeserializeBytes(data, m) = {Parsed(b, e)}
    PROVE  RangeAndBytes(data, start) = {Parsed(<<a, b>>, e)}
<1>1. \A x \in DeserializeKeyRange(data, start) : x.val = a /\ x.end = m
  BY ParsedIs
<1>2. \A y \in DeserializeBytes(data, m) : y.val = b /\ y.end = e
  BY ParsedIs
<1>3. Parsed(a, m) \in DeserializeKeyRange(data, start) /\ Parsed(b, e) \in DeserializeBytes(data, m)
  OBVIOUS
<1>4. ASSUME NEW p \in RangeAndBytes(data, start) PROVE p = Parsed(<<a, b>>, e)
  <2>1. PICK x \in DeserializeKeyRange(data, start) : \E y \in DeserializeBytes(data, x.end) : p = Parsed(<<x.val, y.val>>, y.end)
    BY RangeAndBytesAre
  <2> QED BY <1>1, <1>2, <2>1
<1>5. Parsed(<<a, b>>, e) \in RangeAndBytes(data, start)
  <2>1. Parsed(a, m).val = a /\ Parsed(a, m).end = m /\ Parsed(b, e).val = b /\ Parsed(b, e).end = e
    BY ParsedIs
  <2> QED BY <1>3, <2>1, RangeAndBytesAre
<1> QED BY <1>4, <1>5

RangeAndTable(data, start) == DeserializePair(DeserializeKeyRange, DeserializeCKeyHashMap, data, start)

LEMMA RangeAndTableAre ==
    ASSUME NEW data, NEW start
    PROVE  \A p : p \in RangeAndTable(data, start) <=>
                \E x \in DeserializeKeyRange(data, start) : \E y \in DeserializeCKeyHashMap(data, x.end) :
                    p = Parsed(<<x.val, y.val>>, y.end)
<1> DEFINE Behind(x) == {Parsed(<<x.val, y.val>>, y.end) : y \in DeserializeCKeyHashMap(data, x.end)}
<1>1. RangeAndTable(data, start) = UNION {Behind(x) : x \in DeserializeKeyRange(data, start)}
  BY Zenon DEF RangeAndTable, DeserializePair, As
<1>2. \A p, x : p \in Behind(x) <=> \E y \in DeserializeCKeyHashMap(data, x.end) : p = Parsed(<<x.val, y.val>>, y.end)
  BY Zenon
<1> HIDE DEF Behind
<1>3. \A p : p \in RangeAndTable(data, start) <=> \E x \in DeserializeKeyRange(data, start) : p \in Behind(x)
  BY <1>1, Zenon
<1> QED BY <1>2, <1>3

LEMMA RangeAndTableOfOne ==
    ASSUME NEW data, NEW start, NEW a, NEW m, NEW b, NEW e,
           DeserializeKeyRange(data, start) = {Parsed(a, m)}, DeserializeCKeyHashMap(data, m) = {Parsed(b, e)}
    PROVE  RangeAndTable(data, start) = {Parsed(<<a, b>>, e)}
<1>1. \A x \in DeserializeKeyRange(data, start) : x.val = a /\ x.end = m
  BY ParsedIs
<1>2. \A y \in DeserializeCKeyHashMap(data, m) : y.val = b /\ y.end = e
  BY ParsedIs
<1>3. Parsed(a, m) \in DeserializeKeyRange(data, start) /\ Parsed(b, e) \in DeserializeCKeyHashMap(data, m)
  OBVIOUS
<1>4. ASSUME NEW p \in RangeAndTable(data, start) PROVE p = Parsed(<<a, b>>, e)
  <2>1. PICK x \in DeserializeKeyRange(data, start) : \E y \in DeserializeCKeyHashMap(data, x.end) : p = Parsed(<<x.val, y.val>>, y.end)
    BY RangeAndTableAre
  <2> QED BY <1>1, <1>2, <2>1
<1>5. Parsed(<<a, b>>, e) \in RangeAndTable(data, start)
  <2>1. Parsed(a, m).val = a /\ Parsed(a, m).end = m /\ Parsed(b, e).val = b /\ Parsed(b, e).end = e
    BY ParsedIs
  <2> QED BY <1>3, <2>1, RangeAndTableAre
<1> QED BY <1>4, <1>5

LEMMA CMessageCases ==
    ASSUME NEW m, IsCMessage(m)
    PROVE  \/ m = GetRequest(m.k) /\ m.k \in U64
           \/ m = SetRequest(m.k, m.v) /\ m.k \in U64 /\ m.v \in Option(Bytes)
           \/ m = Reply(m.k, m.v) /\ m.k \in U64 /\ m.v \in Option(Bytes)
           \/ m = Redirect(m.k, m.id) /\ m.k \in U64 /\ m.id \in Bytes
           \/ m = Shard(m.kr, m.recipient) /\ m.kr \in KeyRanges /\ m.recipient \in Bytes
           \/ m = Delegate(m.range, m.h) /\ m.range \in KeyRanges /\ IsTable(m.h)
<1>1. CASE m \in [type : {"GetRequest"}, k : U64]
  BY <1>1 DEF GetRequest
<1>2. CASE m \in [type : {"SetRequest", "Reply"}, k : U64, v : Option(Bytes)]
  <2>1. m.type \in {"SetRequest", "Reply"} /\ m.k \in U64 /\ m.v \in Option(Bytes)
        /\ m = [type |-> m.type, k |-> m.k, v |-> m.v]
    BY <1>2
  <2> QED BY <2>1 DEF SetRequest, Reply
<1>3. CASE m \in [type : {"Redirect"}, k : U64, id : Bytes]
  BY <1>3 DEF Redirect
<1>4. CASE m \in [type : {"Shard"}, kr : KeyRanges, recipient : Bytes]
  BY <1>4 DEF Shard
<1>5. CASE m.type = "Delegate" /\ m = Delegate(m.range, m.h) /\ m.range \in KeyRanges /\ IsTable(m.h)
  BY <1>5
<1> QED BY <1>1, <1>2, <1>3, <1>4, <1>5 DEF IsCMessage

LEMMA CMessagesAre ==
    /\ \A k \in U64 : IsCMessage(GetRequest(k))
    /\ \A k \in U64, v \in Option(Bytes) : IsCMessage(SetRequest(k, v)) /\ IsCMessage(Reply(k, v))
    /\ \A k \in U64, id \in Bytes : IsCMessage(Redirect(k, id))
    /\ \A kr \in KeyRanges, id \in Bytes : IsCMessage(Shard(kr, id))
    /\ \A kr \in KeyRanges : \A h : IsTable(h) => IsCMessage(Delegate(kr, h))
<1>1. \A k \in U64 : IsCMessage(GetRequest(k))
  BY DEF IsCMessage, GetRequest
<1>2. \A k \in U64, v \in Option(Bytes) : IsCMessage(SetRequest(k, v)) /\ IsCMessage(Reply(k, v))
  BY DEF IsCMessage, SetRequest, Reply
<1>3. \A k \in U64, id \in Bytes : IsCMessage(Redirect(k, id))
  BY DEF IsCMessage, Redirect
<1>4. \A kr \in KeyRanges, id \in Bytes : IsCMessage(Shard(kr, id))
  BY DEF IsCMessage, Shard
<1>5. \A kr \in KeyRanges : \A h : IsTable(h) => IsCMessage(Delegate(kr, h))
  BY DEF IsCMessage, Delegate
<1> QED BY <1>1, <1>2, <1>3, <1>4, <1>5

LEMMA ConcatAssociates ==
    ASSUME NEW s \in Bytes, NEW t \in Bytes, NEW u \in Bytes
    PROVE  (s \o t) \o u = s \o (t \o u)
  BY ConcatAssociative DEF Bytes

LEMMA SerializeCMessageIs ==
    /\ \A k \in U64 : SerializeCMessage(GetRequest(k)) = <<0>> \o SerializeU64(k)
    /\ \A k \in U64, v \in Option(Bytes) :
        /\ SerializeCMessage(SetRequest(k, v)) = <<1>> \o (SerializeU64(k) \o SerializeOptionBytes(v))
        /\ SerializeCMessage(Reply(k, v)) = <<2>> \o (SerializeU64(k) \o SerializeOptionBytes(v))
    /\ \A k \in U64, id \in Bytes :
        SerializeCMessage(Redirect(k, id)) = <<3>> \o (SerializeU64(k) \o SerializeBytes(id))
    /\ \A kr \in KeyRanges, id \in Bytes :
        SerializeCMessage(Shard(kr, id)) = <<4>> \o (SerializeKeyRange(kr) \o SerializeBytes(id))
    /\ \A kr \in KeyRanges : \A h : IsTable(h) =>
        SerializeCMessage(Delegate(kr, h)) = <<5>> \o (SerializeKeyRange(kr) \o SerializeCKeyHashMap(h))
<1>1. \A m : m.type = "GetRequest" => SerializeCMessage(m) = <<0>> \o SerializeU64(m.k)
  BY Zenon DEF SerializeCMessage
<1>2. \A m : m.type = "SetRequest" =>
        SerializeCMessage(m) = (<<1>> \o SerializeU64(m.k)) \o SerializeOptionBytes(m.v)
  BY Zenon DEF SerializeCMessage
<1>3. \A m : m.type = "Reply" =>
        SerializeCMessage(m) = (<<2>> \o SerializeU64(m.k)) \o SerializeOptionBytes(m.v)
  BY Zenon DEF SerializeCMessage
<1>4. \A m : m.type = "Redirect" =>
        SerializeCMessage(m) = (<<3>> \o SerializeU64(m.k)) \o SerializeBytes(m.id)
  BY Zenon DEF SerializeCMessage
<1>5. \A m : m.type = "Shard" =>
        SerializeCMessage(m) = (<<4>> \o SerializeKeyRange(m.kr)) \o SerializeBytes(m.recipient)
  BY Zenon DEF SerializeCMessage
<1>6. \A m : m.type = "Delegate" =>
        SerializeCMessage(m) = (<<5>> \o SerializeKeyRange(m.range)) \o SerializeCKeyHashMap(m.h)
  BY Zenon DEF SerializeCMessage
<1>7. \A k \in U64 : SerializeCMessage(GetRequest(k)) = <<0>> \o SerializeU64(k)
  BY <1>1 DEF GetRequest
<1>8. ASSUME NEW k \in U64, NEW v \in Option(Bytes)
      PROVE  /\ SerializeCMessage(SetRequest(k, v)) = <<1>> \o (SerializeU64(k) \o SerializeOptionBytes(v))
             /\ SerializeCMessage(Reply(k, v)) = <<2>> \o (SerializeU64(k) \o SerializeOptionBytes(v))
  <2>1. /\ SerializeCMessage(SetRequest(k, v)) = (<<1>> \o SerializeU64(k)) \o SerializeOptionBytes(v)
        /\ SerializeCMessage(Reply(k, v)) = (<<2>> \o SerializeU64(k)) \o SerializeOptionBytes(v)
    <3>1. /\ SetRequest(k, v).type = "SetRequest" /\ SetRequest(k, v).k = k /\ SetRequest(k, v).v = v
          /\ Reply(k, v).type = "Reply" /\ Reply(k, v).k = k /\ Reply(k, v).v = v
      BY DEF SetRequest, Reply
    <3> QED BY <1>2, <1>3, <3>1
  <2>2. SerializeU64(k) \in Bytes /\ SerializeOptionBytes(v) \in Bytes /\ <<1>> \in Bytes /\ <<2>> \in Bytes
    BY U64Bytes, OptionBytesBytes, Tags
  <2> QED BY <2>1, <2>2, ConcatAssociates
<1>9. ASSUME NEW k \in U64, NEW id \in Bytes
      PROVE  SerializeCMessage(Redirect(k, id)) = <<3>> \o (SerializeU64(k) \o SerializeBytes(id))
  <2>1. SerializeCMessage(Redirect(k, id)) = (<<3>> \o SerializeU64(k)) \o SerializeBytes(id)
    <3>1. Redirect(k, id).type = "Redirect" /\ Redirect(k, id).k = k /\ Redirect(k, id).id = id
      BY DEF Redirect
    <3> QED BY <1>4, <3>1
  <2>2. SerializeU64(k) \in Bytes /\ SerializeBytes(id) \in Bytes /\ <<3>> \in Bytes
    BY U64Bytes, BytesBytes, Tags
  <2> QED BY <2>1, <2>2, ConcatAssociates
<1>10. ASSUME NEW kr \in KeyRanges, NEW id \in Bytes
       PROVE  SerializeCMessage(Shard(kr, id)) = <<4>> \o (SerializeKeyRange(kr) \o SerializeBytes(id))
  <2>1. SerializeCMessage(Shard(kr, id)) = (<<4>> \o SerializeKeyRange(kr)) \o SerializeBytes(id)
    <3>1. Shard(kr, id).type = "Shard" /\ Shard(kr, id).kr = kr /\ Shard(kr, id).recipient = id
      BY DEF Shard
    <3> QED BY <1>5, <3>1
  <2>2. SerializeKeyRange(kr) \in Bytes /\ SerializeBytes(id) \in Bytes /\ <<4>> \in Bytes
    BY KeyRangeBytes, BytesBytes, Tags
  <2> QED BY <2>1, <2>2, ConcatAssociates
<1>11. ASSUME NEW kr \in KeyRanges, NEW h, IsTable(h)
       PROVE  SerializeCMessage(Delegate(kr, h)) = <<5>> \o (SerializeKeyRange(kr) \o SerializeCKeyHashMap(h))
  <2>1. SerializeCMessage(Delegate(kr, h)) = (<<5>> \o SerializeKeyRange(kr)) \o SerializeCKeyHashMap(h)
    <3>1. Delegate(kr, h).type = "Delegate" /\ Delegate(kr, h).range = kr /\ Delegate(kr, h).h = h
      BY DEF Delegate
    <3> QED BY <1>6, <3>1
  <2>2. SerializeKeyRange(kr) \in Bytes /\ SerializeCKeyHashMap(h) \in Bytes /\ <<5>> \in Bytes
    BY <1>11, KeyRangeBytes, CKeyHashMapBytes, Tags
  <2> QED BY <2>1, <2>2, ConcatAssociates
<1> QED BY <1>7, <1>8, <1>9, <1>10, <1>11

\* With the tag behind the first start bytes, and something behind the tag.
LEMMA DeserializeCMessageIs ==
    ASSUME NEW data, Buffer(data), NEW start \in Nat
    PROVE  LET mid == start + 1
               D == DeserializeCMessage(data, start)
           IN  /\ mid < Len(data) /\ data[mid] = 0 =>
                    D = {Parsed(GetRequest(r.val), r.end) : r \in DeserializeU64(data, mid)}
               /\ mid < Len(data) /\ data[mid] = 1 =>
                    D = {Parsed(SetRequest(p.val[1], p.val[2]), p.end) : p \in U64AndOption(data, mid)}
               /\ mid < Len(data) /\ data[mid] = 2 =>
                    D = {Parsed(Reply(p.val[1], p.val[2]), p.end) : p \in U64AndOption(data, mid)}
               /\ mid < Len(data) /\ data[mid] = 3 =>
                    D = {Parsed(Redirect(p.val[1], p.val[2]), p.end) : p \in U64AndBytes(data, mid)}
               /\ mid < Len(data) /\ data[mid] = 4 =>
                    D = {Parsed(Shard(p.val[1], p.val[2]), p.end) : p \in RangeAndBytes(data, mid)}
               /\ mid < Len(data) /\ data[mid] = 5 =>
                    D = {Parsed(Delegate(p.val[1], p.val[2]), p.end) : p \in RangeAndTable(data, mid)}
               /\ ~(mid < Len(data) /\ data[mid] \in 0 .. 5) => D = {}
<1> DEFINE mid == start + 1
           tag == data[mid]
<1>1. mid < Len(data) <=> ~(Len(data) = 0 \/ start >= Len(data) - 1)
  BY BufferLen
<1>2. tag = 0 => tag # 1 /\ tag # 2 /\ tag # 3 /\ tag # 4 /\ tag # 5
  OBVIOUS
<1>3. tag = 1 => tag # 0 /\ tag # 2 /\ tag # 3 /\ tag # 4 /\ tag # 5
  OBVIOUS
<1>4. tag = 2 => tag # 0 /\ tag # 1 /\ tag # 3 /\ tag # 4 /\ tag # 5
  OBVIOUS
<1>5. tag = 3 => tag # 0 /\ tag # 1 /\ tag # 2 /\ tag # 4 /\ tag # 5
  OBVIOUS
<1>6. tag = 4 => tag # 0 /\ tag # 1 /\ tag # 2 /\ tag # 3 /\ tag # 5
  OBVIOUS
<1>7. tag = 5 => tag # 0 /\ tag # 1 /\ tag # 2 /\ tag # 3 /\ tag # 4
  OBVIOUS
<1>8. tag \notin 0 .. 5 => tag # 0 /\ tag # 1 /\ tag # 2 /\ tag # 3 /\ tag # 4 /\ tag # 5
  OBVIOUS
<1>9. ASSUME mid < Len(data), tag = 0
      PROVE  DeserializeCMessage(data, start) = {Parsed(GetRequest(r.val), r.end) : r \in DeserializeU64(data, mid)}
  BY <1>1, <1>2, <1>9, Zenon DEF DeserializeCMessage, As
<1>10. ASSUME mid < Len(data), tag = 1
       PROVE  DeserializeCMessage(data, start) =
                {Parsed(SetRequest(p.val[1], p.val[2]), p.end) : p \in U64AndOption(data, mid)}
  BY <1>1, <1>3, <1>10, Zenon DEF DeserializeCMessage, As, U64AndOption
<1>11. ASSUME mid < Len(data), tag = 2
       PROVE  DeserializeCMessage(data, start) =
                {Parsed(Reply(p.val[1], p.val[2]), p.end) : p \in U64AndOption(data, mid)}
  BY <1>1, <1>4, <1>11, Zenon DEF DeserializeCMessage, As, U64AndOption
<1>12. ASSUME mid < Len(data), tag = 3
       PROVE  DeserializeCMessage(data, start) =
                {Parsed(Redirect(p.val[1], p.val[2]), p.end) : p \in U64AndBytes(data, mid)}
  BY <1>1, <1>5, <1>12, Zenon DEF DeserializeCMessage, As, U64AndBytes
<1>13. ASSUME mid < Len(data), tag = 4
       PROVE  DeserializeCMessage(data, start) =
                {Parsed(Shard(p.val[1], p.val[2]), p.end) : p \in RangeAndBytes(data, mid)}
  BY <1>1, <1>6, <1>13, Zenon DEF DeserializeCMessage, As, RangeAndBytes
<1>14. ASSUME mid < Len(data), tag = 5
       PROVE  DeserializeCMessage(data, start) =
                {Parsed(Delegate(p.val[1], p.val[2]), p.end) : p \in RangeAndTable(data, mid)}
  BY <1>1, <1>7, <1>14, Zenon DEF DeserializeCMessage, As, RangeAndTable
<1>15. ASSUME ~(mid < Len(data) /\ tag \in 0 .. 5) PROVE DeserializeCMessage(data, start) = {}
  <2>1. CASE ~(mid < Len(data))
    BY <1>1, <2>1, Zenon DEF DeserializeCMessage
  <2>2. CASE mid < Len(data)
    <3>1. tag # 0 /\ tag # 1 /\ tag # 2 /\ tag # 3 /\ tag # 4 /\ tag # 5
      BY <1>8, <1>15, <2>2
    <3> QED BY <1>1, <2>2, <3>1, Zenon DEF DeserializeCMessage
  <2> QED BY <2>1, <2>2
<1> QED BY <1>9, <1>10, <1>11, <1>12, <1>13, <1>14, <1>15

LEMMA EncodesTagged ==
    ASSUME NEW data, Buffer(data), NEW start \in Nat, NEW b \in 0 .. 5, NEW s \in Bytes, NEW r,
           start + 1 < Len(data), data[start + 1] = b,
           r = Parsed(r.val, r.end), At(data, start + 1, s), r.end = (start + 1) + Len(s)
    PROVE  Encodes(r, data, start, <<b>> \o s)
<1>1. Len(<<b>> \o s) = 1 + Len(s) /\ (At(data, start, <<b>> \o s) <=> start < Len(data) /\ data[start + 1] = b /\ At(data, start + 1, s))
  BY AtTagged
<1>2. start < Len(data) /\ Len(s) \in Nat
  BY BufferLen, BytesLen
<1> QED BY <1>1, <1>2 DEF Encodes

LEMMA PartsAreLong ==
    /\ \A b \in Bytes : Len(SerializeBytes(b)) \in Nat \ {0}
    /\ \A o \in Option(Bytes) : Len(SerializeOptionBytes(o)) \in Nat \ {0}
    /\ \A h : IsTable(h) => Len(SerializeCKeyHashMap(h)) \in Nat \ {0}
<1>1. ASSUME NEW b \in Bytes PROVE Len(SerializeBytes(b)) \in Nat \ {0}
  <2>1. Len(SerializeBytes(b)) = WordSize + Len(b) /\ Len(b) \in Nat
    BY BytesBytes, BytesLen
  <2>2. WordSize \in Nat \ {0}
    BY Limits
  <2> QED BY <2>1, <2>2
<1>2. ASSUME NEW o \in Option(Bytes) PROVE Len(SerializeOptionBytes(o)) \in Nat \ {0}
  <2>1. CASE o = <<>>
    <3>1. SerializeOptionBytes(o) = <<0>> /\ Len(<<0>>) = 1
      BY <2>1, SerializeOptionIs, Tags
    <3> QED BY <3>1
  <2>2. CASE o[1] \in Bytes /\ o = <<o[1]>>
    <3>1. SerializeOptionBytes(o) = <<1>> \o SerializeBytes(o[1]) /\ SerializeBytes(o[1]) \in Bytes
      BY <2>2, SerializeOptionIs, BytesBytes
    <3>2. <<1>> \in Bytes /\ Len(<<1>>) = 1
      BY Tags
    <3>3. Len(SerializeOptionBytes(o)) = Len(<<1>>) + Len(SerializeBytes(o[1])) /\ Len(SerializeBytes(o[1])) \in Nat
      BY <3>1, <3>2, ConcatIs
    <3> QED BY <3>2, <3>3
  <2> QED BY <2>1, <2>2, OptionIs
<1>3. \A h : IsTable(h) => Len(SerializeCKeyHashMap(h)) \in Nat \ {0}
  BY CKeyHashMapBytes
<1> QED BY <1>1, <1>2, <1>3

LEMMA GetRequestReads ==
    ASSUME NEW data, Buffer(data), NEW start \in Nat, NEW k \in U64,
           At(data, start, SerializeCMessage(GetRequest(k)))
    PROVE  DeserializeCMessage(data, start) =
                {Parsed(GetRequest(k), start + Len(SerializeCMessage(GetRequest(k))))}
<1> DEFINE s == SerializeU64(k)
           mid == start + 1
           end == start + Len(SerializeCMessage(GetRequest(k)))
           Of(r) == Parsed(GetRequest(r.val), r.end)
<1>1. SerializeCMessage(GetRequest(k)) = <<0>> \o s /\ s \in Bytes /\ Len(s) = WordSize /\ WordSize \in Nat \ {0}
  BY SerializeCMessageIs, U64Bytes, Limits
<1>2. data[mid] = 0 /\ At(data, mid, s) /\ Len(SerializeCMessage(GetRequest(k))) = 1 + Len(s)
  BY <1>1, AtTagged
<1>3. mid < Len(data) /\ mid \in Nat /\ mid + WordSize = end
  <2>1. mid + Len(s) <= Len(data) /\ Len(data) \in Nat
    BY <1>1, <1>2, AtWithin, BufferLen
  <2>2. end = start + (1 + WordSize)
    BY <1>1, <1>2
  <2>3. start + 1 + WordSize <= Len(data)
    BY <1>1, <2>1
  <2> HIDE DEF end
  <2> QED BY <1>1, <2>1, <2>2, <2>3
<1> HIDE DEF end
<1>4. DeserializeU64(data, mid) = {Parsed(k, end)}
  BY <1>2, <1>3, U64Reads
<1>5. DeserializeCMessage(data, start) = {Of(r) : r \in DeserializeU64(data, mid)}
  BY <1>2, <1>3, DeserializeCMessageIs, Zenon
<1>6. Of(Parsed(k, end)) = Parsed(GetRequest(k), end)
  BY ParsedIs
<1> HIDE DEF Of
<1>7. DeserializeCMessage(data, start) = {Parsed(GetRequest(k), end)}
  BY <1>4, <1>5, <1>6
<1> QED BY <1>7 DEF end

LEMMA GetRequestExact ==
    ASSUME NEW data, Buffer(data), NEW start \in Nat, NEW r \in DeserializeCMessage(data, start),
           start + 1 < Len(data), data[start + 1] = 0
    PROVE  IsCMessage(r.val) /\ Encodes(r, data, start, SerializeCMessage(r.val)) /\ r.val.type = "GetRequest"
<1> DEFINE mid == start + 1
<1>1. DeserializeCMessage(data, start) = {Parsed(GetRequest(x.val), x.end) : x \in DeserializeU64(data, mid)}
  BY DeserializeCMessageIs, Zenon
<1>2. PICK x \in DeserializeU64(data, mid) : r = Parsed(GetRequest(x.val), x.end)
  BY <1>1
<1>3. x.val \in U64 /\ Encodes(x, data, mid, SerializeU64(x.val)) /\ SerializeU64(x.val) \in Bytes
  BY U64Exact, U64Bytes
<1>4. r.val = GetRequest(x.val) /\ r.end = x.end /\ r = Parsed(r.val, r.end)
  BY <1>2, ParsedIs
<1>5. SerializeCMessage(r.val) = <<0>> \o SerializeU64(x.val) /\ IsCMessage(r.val) /\ r.val.type = "GetRequest"
  <2>1. SerializeCMessage(GetRequest(x.val)) = <<0>> \o SerializeU64(x.val)
    BY <1>3, SerializeCMessageIs, Zenon
  <2>2. IsCMessage(GetRequest(x.val))
    BY <1>3, CMessagesAre, Zenon
  <2>3. GetRequest(x.val).type = "GetRequest"
    BY DEF GetRequest
  <2> QED BY <1>4, <2>1, <2>2, <2>3, Zenon
<1>6. Encodes(r, data, start, SerializeCMessage(r.val))
  <2> DEFINE u == SerializeU64(x.val)
  <2>1. u \in Bytes /\ At(data, start + 1, u) /\ r.end = (start + 1) + Len(u)
    BY <1>3, <1>4 DEF Encodes
  <2> HIDE DEF u
  <2>2. Encodes(r, data, start, <<0>> \o u)
    BY <1>4, <2>1, EncodesTagged
  <2> QED BY <1>5, <2>2 DEF u
<1> QED BY <1>5, <1>6

LEMMA SetRequestReads ==
    ASSUME NEW data, Buffer(data), NEW start \in Nat, NEW k \in U64, NEW v \in Option(Bytes),
           At(data, start, SerializeCMessage(SetRequest(k, v)))
    PROVE  DeserializeCMessage(data, start) =
                {Parsed(SetRequest(k, v), start + Len(SerializeCMessage(SetRequest(k, v))))}
<1> DEFINE s == SerializeU64(k)
           t == SerializeOptionBytes(v)
           mid == start + 1
           end == start + Len(SerializeCMessage(SetRequest(k, v)))
           Of(p) == Parsed(SetRequest(p.val[1], p.val[2]), p.end)
<1>1. SerializeCMessage(SetRequest(k, v)) = <<1>> \o (s \o t) /\ s \in Bytes /\ t \in Bytes
  BY SerializeCMessageIs, U64Bytes, OptionBytesBytes
<1>2. Len(s) \in Nat /\ Len(t) \in Nat \ {0} /\ s \o t \in Bytes
  BY <1>1, U64Bytes, OptionBytesBytes, BytesLen, ConcatIs, PartsAreLong
<1>3. data[mid] = 1 /\ At(data, mid, s \o t) /\ Len(SerializeCMessage(SetRequest(k, v))) = 1 + Len(s \o t)
  BY <1>1, <1>2, AtTagged
<1>4. mid \in Nat /\ At(data, mid, s) /\ At(data, mid + Len(s), t) /\ mid + Len(s) \in Nat
  BY <1>1, <1>3, AtBoth
<1>5. mid < Len(data) /\ (mid + Len(s)) + Len(t) = end
  <2>1. (mid + Len(s)) + Len(t) <= Len(data) /\ Len(data) \in Nat /\ Len(s \o t) = Len(s) + Len(t)
    BY <1>1, <1>4, AtWithin, BufferLen, ConcatIs
  <2> QED BY <1>2, <1>3, <2>1
<1> HIDE DEF end
<1>6. DeserializeU64(data, mid) = {Parsed(k, mid + Len(s))}
  BY <1>4, U64Reads, U64Bytes
<1>7. DeserializeCMessage(data, start) = {Of(p) : p \in U64AndOption(data, mid)}
  BY <1>3, <1>5, DeserializeCMessageIs, Zenon
<1>8. Of(Parsed(<<k, v>>, end)) = Parsed(SetRequest(k, v), end)
  BY ParsedIs
<1> HIDE DEF Of, mid, s
<1>9. DeserializeOptionBytes(data, mid + Len(s)) = {Parsed(v, end)}
  BY <1>4, <1>5, OptionBytesReads
<1>10. U64AndOption(data, mid) = {Parsed(<<k, v>>, end)}
  BY <1>6, <1>9, U64AndOptionOfOne
<1>11. DeserializeCMessage(data, start) = {Parsed(SetRequest(k, v), end)}
  BY <1>7, <1>8, <1>10
<1> QED BY <1>11 DEF end

LEMMA SetRequestExact ==
    ASSUME NEW data, Buffer(data), NEW start \in Nat, NEW r \in DeserializeCMessage(data, start),
           start + 1 < Len(data), data[start + 1] = 1
    PROVE  /\ IsCMessage(r.val) /\ Encodes(r, data, start, SerializeCMessage(r.val)) /\ r.val.type = "SetRequest"
<1> DEFINE mid == start + 1
<1>1. DeserializeCMessage(data, start) = {Parsed(SetRequest(p.val[1], p.val[2]), p.end) : p \in U64AndOption(data, mid)}
  BY DeserializeCMessageIs, Zenon
<1>2. PICK p \in U64AndOption(data, mid) : r = Parsed(SetRequest(p.val[1], p.val[2]), p.end)
  BY <1>1
<1>3. PICK x \in DeserializeU64(data, mid) : \E y \in DeserializeOptionBytes(data, x.end) : p = Parsed(<<x.val, y.val>>, y.end)
  BY U64AndOptionAre
<1>4. PICK y \in DeserializeOptionBytes(data, x.end) : p = Parsed(<<x.val, y.val>>, y.end)
  BY <1>3
<1>5. r.val = SetRequest(x.val, y.val) /\ r.end = y.end /\ r = Parsed(r.val, r.end)
  BY <1>2, <1>4, ParsedIs
<1> DEFINE s == SerializeU64(x.val)
           t == SerializeOptionBytes(y.val)
<1>6. x.val \in U64 /\ Encodes(x, data, mid, s) /\ s \in Bytes
  BY U64Exact, U64Bytes
<1>7. x.end \in Nat
  BY <1>6, EncodesEnd
<1>8. y.val \in Option(Bytes) /\ Encodes(y, data, x.end, t) /\ t \in Bytes
  BY <1>7, OptionBytesExact, OptionBytesBytes
<1>9. SerializeCMessage(r.val) = <<1>> \o (s \o t) /\ IsCMessage(r.val)
  BY <1>5, <1>6, <1>8, SerializeCMessageIs, CMessagesAre
<1>10. r.val.type = "SetRequest"
  BY <1>5 DEF SetRequest
<1> HIDE DEF s, t
<1>11. At(data, mid, s \o t) /\ y.end = mid + Len(s \o t) /\ s \o t \in Bytes
  BY <1>6, <1>8, EncodesBoth, ConcatIs
<1>12. At(data, start + 1, s \o t) /\ r.end = (start + 1) + Len(s \o t)
  BY <1>5, <1>11
<1>13. Encodes(r, data, start, <<1>> \o (s \o t))
  <2> DEFINE u == s \o t
  <2>1. u \in Bytes /\ At(data, start + 1, u) /\ r.end = (start + 1) + Len(u)
    BY <1>11, <1>12
  <2> HIDE DEF u
  <2>2. Encodes(r, data, start, <<1>> \o u)
    BY <1>5, <2>1, EncodesTagged
  <2> QED BY <2>2 DEF u
<1> QED BY <1>9, <1>10, <1>13

LEMMA ReplyReads ==
    ASSUME NEW data, Buffer(data), NEW start \in Nat, NEW k \in U64, NEW v \in Option(Bytes),
           At(data, start, SerializeCMessage(Reply(k, v)))
    PROVE  DeserializeCMessage(data, start) =
                {Parsed(Reply(k, v), start + Len(SerializeCMessage(Reply(k, v))))}
<1> DEFINE s == SerializeU64(k)
           t == SerializeOptionBytes(v)
           mid == start + 1
           end == start + Len(SerializeCMessage(Reply(k, v)))
           Of(p) == Parsed(Reply(p.val[1], p.val[2]), p.end)
<1>1. SerializeCMessage(Reply(k, v)) = <<2>> \o (s \o t) /\ s \in Bytes /\ t \in Bytes
  BY SerializeCMessageIs, U64Bytes, OptionBytesBytes
<1>2. Len(s) \in Nat /\ Len(t) \in Nat \ {0} /\ s \o t \in Bytes
  BY <1>1, U64Bytes, OptionBytesBytes, BytesLen, ConcatIs, PartsAreLong
<1>3. data[mid] = 2 /\ At(data, mid, s \o t) /\ Len(SerializeCMessage(Reply(k, v))) = 1 + Len(s \o t)
  BY <1>1, <1>2, AtTagged
<1>4. mid \in Nat /\ At(data, mid, s) /\ At(data, mid + Len(s), t) /\ mid + Len(s) \in Nat
  BY <1>1, <1>3, AtBoth
<1>5. mid < Len(data) /\ (mid + Len(s)) + Len(t) = end
  <2>1. (mid + Len(s)) + Len(t) <= Len(data) /\ Len(data) \in Nat /\ Len(s \o t) = Len(s) + Len(t)
    BY <1>1, <1>4, AtWithin, BufferLen, ConcatIs
  <2> QED BY <1>2, <1>3, <2>1
<1> HIDE DEF end
<1>6. DeserializeU64(data, mid) = {Parsed(k, mid + Len(s))}
  BY <1>4, U64Reads, U64Bytes
<1>7. DeserializeCMessage(data, start) = {Of(p) : p \in U64AndOption(data, mid)}
  BY <1>3, <1>5, DeserializeCMessageIs, Zenon
<1>8. Of(Parsed(<<k, v>>, end)) = Parsed(Reply(k, v), end)
  BY ParsedIs
<1> HIDE DEF Of, mid, s
<1>9. DeserializeOptionBytes(data, mid + Len(s)) = {Parsed(v, end)}
  BY <1>4, <1>5, OptionBytesReads
<1>10. U64AndOption(data, mid) = {Parsed(<<k, v>>, end)}
  BY <1>6, <1>9, U64AndOptionOfOne
<1>11. DeserializeCMessage(data, start) = {Parsed(Reply(k, v), end)}
  BY <1>7, <1>8, <1>10
<1> QED BY <1>11 DEF end

LEMMA ReplyExact ==
    ASSUME NEW data, Buffer(data), NEW start \in Nat, NEW r \in DeserializeCMessage(data, start),
           start + 1 < Len(data), data[start + 1] = 2
    PROVE  /\ IsCMessage(r.val) /\ Encodes(r, data, start, SerializeCMessage(r.val)) /\ r.val.type = "Reply"
<1> DEFINE mid == start + 1
<1>1. DeserializeCMessage(data, start) = {Parsed(Reply(p.val[1], p.val[2]), p.end) : p \in U64AndOption(data, mid)}
  BY DeserializeCMessageIs, Zenon
<1>2. PICK p \in U64AndOption(data, mid) : r = Parsed(Reply(p.val[1], p.val[2]), p.end)
  BY <1>1
<1>3. PICK x \in DeserializeU64(data, mid) : \E y \in DeserializeOptionBytes(data, x.end) : p = Parsed(<<x.val, y.val>>, y.end)
  BY U64AndOptionAre
<1>4. PICK y \in DeserializeOptionBytes(data, x.end) : p = Parsed(<<x.val, y.val>>, y.end)
  BY <1>3
<1>5. r.val = Reply(x.val, y.val) /\ r.end = y.end /\ r = Parsed(r.val, r.end)
  BY <1>2, <1>4, ParsedIs
<1> DEFINE s == SerializeU64(x.val)
           t == SerializeOptionBytes(y.val)
<1>6. x.val \in U64 /\ Encodes(x, data, mid, s) /\ s \in Bytes
  BY U64Exact, U64Bytes
<1>7. x.end \in Nat
  BY <1>6, EncodesEnd
<1>8. y.val \in Option(Bytes) /\ Encodes(y, data, x.end, t) /\ t \in Bytes
  BY <1>7, OptionBytesExact, OptionBytesBytes
<1>9. SerializeCMessage(r.val) = <<2>> \o (s \o t) /\ IsCMessage(r.val)
  BY <1>5, <1>6, <1>8, SerializeCMessageIs, CMessagesAre
<1>10. r.val.type = "Reply"
  BY <1>5 DEF Reply
<1> HIDE DEF s, t
<1>11. At(data, mid, s \o t) /\ y.end = mid + Len(s \o t) /\ s \o t \in Bytes
  BY <1>6, <1>8, EncodesBoth, ConcatIs
<1>12. At(data, start + 1, s \o t) /\ r.end = (start + 1) + Len(s \o t)
  BY <1>5, <1>11
<1>13. Encodes(r, data, start, <<2>> \o (s \o t))
  <2> DEFINE u == s \o t
  <2>1. u \in Bytes /\ At(data, start + 1, u) /\ r.end = (start + 1) + Len(u)
    BY <1>11, <1>12
  <2> HIDE DEF u
  <2>2. Encodes(r, data, start, <<2>> \o u)
    BY <1>5, <2>1, EncodesTagged
  <2> QED BY <2>2 DEF u
<1> QED BY <1>9, <1>10, <1>13

LEMMA RedirectReads ==
    ASSUME NEW data, Buffer(data), NEW start \in Nat, NEW k \in U64, NEW id \in Bytes,
           At(data, start, SerializeCMessage(Redirect(k, id)))
    PROVE  DeserializeCMessage(data, start) =
                {Parsed(Redirect(k, id), start + Len(SerializeCMessage(Redirect(k, id))))}
<1> DEFINE s == SerializeU64(k)
           t == SerializeBytes(id)
           mid == start + 1
           end == start + Len(SerializeCMessage(Redirect(k, id)))
           Of(p) == Parsed(Redirect(p.val[1], p.val[2]), p.end)
<1>1. SerializeCMessage(Redirect(k, id)) = <<3>> \o (s \o t) /\ s \in Bytes /\ t \in Bytes
  BY SerializeCMessageIs, U64Bytes, BytesBytes
<1>2. Len(s) \in Nat /\ Len(t) \in Nat \ {0} /\ s \o t \in Bytes
  BY <1>1, U64Bytes, BytesBytes, BytesLen, ConcatIs, PartsAreLong
<1>3. data[mid] = 3 /\ At(data, mid, s \o t) /\ Len(SerializeCMessage(Redirect(k, id))) = 1 + Len(s \o t)
  BY <1>1, <1>2, AtTagged
<1>4. mid \in Nat /\ At(data, mid, s) /\ At(data, mid + Len(s), t) /\ mid + Len(s) \in Nat
  BY <1>1, <1>3, AtBoth
<1>5. mid < Len(data) /\ (mid + Len(s)) + Len(t) = end
  <2>1. (mid + Len(s)) + Len(t) <= Len(data) /\ Len(data) \in Nat /\ Len(s \o t) = Len(s) + Len(t)
    BY <1>1, <1>4, AtWithin, BufferLen, ConcatIs
  <2> QED BY <1>2, <1>3, <2>1
<1> HIDE DEF end
<1>6. DeserializeU64(data, mid) = {Parsed(k, mid + Len(s))}
  BY <1>4, U64Reads, U64Bytes
<1>7. DeserializeCMessage(data, start) = {Of(p) : p \in U64AndBytes(data, mid)}
  BY <1>3, <1>5, DeserializeCMessageIs, Zenon
<1>8. Of(Parsed(<<k, id>>, end)) = Parsed(Redirect(k, id), end)
  BY ParsedIs
<1> HIDE DEF Of, mid, s
<1>9. DeserializeBytes(data, mid + Len(s)) = {Parsed(id, end)}
  BY <1>4, <1>5, BytesReads, BytesBytes, SMTT(30)
<1>10. U64AndBytes(data, mid) = {Parsed(<<k, id>>, end)}
  BY <1>6, <1>9, U64AndBytesOfOne
<1>11. DeserializeCMessage(data, start) = {Parsed(Redirect(k, id), end)}
  BY <1>7, <1>8, <1>10
<1> QED BY <1>11 DEF end

LEMMA RedirectExact ==
    ASSUME NEW data, Buffer(data), NEW start \in Nat, NEW r \in DeserializeCMessage(data, start),
           start + 1 < Len(data), data[start + 1] = 3
    PROVE  /\ IsCMessage(r.val) /\ Encodes(r, data, start, SerializeCMessage(r.val)) /\ r.val.type = "Redirect"
<1> DEFINE mid == start + 1
<1>1. DeserializeCMessage(data, start) = {Parsed(Redirect(p.val[1], p.val[2]), p.end) : p \in U64AndBytes(data, mid)}
  BY DeserializeCMessageIs, Zenon
<1>2. PICK p \in U64AndBytes(data, mid) : r = Parsed(Redirect(p.val[1], p.val[2]), p.end)
  BY <1>1
<1>3. PICK x \in DeserializeU64(data, mid) : \E y \in DeserializeBytes(data, x.end) : p = Parsed(<<x.val, y.val>>, y.end)
  BY U64AndBytesAre
<1>4. PICK y \in DeserializeBytes(data, x.end) : p = Parsed(<<x.val, y.val>>, y.end)
  BY <1>3
<1>5. r.val = Redirect(x.val, y.val) /\ r.end = y.end /\ r = Parsed(r.val, r.end)
  BY <1>2, <1>4, ParsedIs
<1> DEFINE s == SerializeU64(x.val)
           t == SerializeBytes(y.val)
<1>6. x.val \in U64 /\ Encodes(x, data, mid, s) /\ s \in Bytes
  BY U64Exact, U64Bytes
<1>7. x.end \in Nat
  BY <1>6, EncodesEnd
<1>8. y.val \in Bytes /\ Encodes(y, data, x.end, t) /\ t \in Bytes
  BY <1>7, BytesExact, BytesBytes
<1>9. SerializeCMessage(r.val) = <<3>> \o (s \o t) /\ IsCMessage(r.val)
  BY <1>5, <1>6, <1>8, SerializeCMessageIs, CMessagesAre
<1>10. r.val.type = "Redirect"
  BY <1>5 DEF Redirect
<1> HIDE DEF s, t
<1>11. At(data, mid, s \o t) /\ y.end = mid + Len(s \o t) /\ s \o t \in Bytes
  BY <1>6, <1>8, EncodesBoth, ConcatIs
<1>12. At(data, start + 1, s \o t) /\ r.end = (start + 1) + Len(s \o t)
  BY <1>5, <1>11
<1>13. Encodes(r, data, start, <<3>> \o (s \o t))
  <2> DEFINE u == s \o t
  <2>1. u \in Bytes /\ At(data, start + 1, u) /\ r.end = (start + 1) + Len(u)
    BY <1>11, <1>12
  <2> HIDE DEF u
  <2>2. Encodes(r, data, start, <<3>> \o u)
    BY <1>5, <2>1, EncodesTagged
  <2> QED BY <2>2 DEF u
<1> QED BY <1>9, <1>10, <1>13

LEMMA ShardReads ==
    ASSUME NEW data, Buffer(data), NEW start \in Nat, NEW kr \in KeyRanges, NEW id \in Bytes,
           At(data, start, SerializeCMessage(Shard(kr, id)))
    PROVE  DeserializeCMessage(data, start) =
                {Parsed(Shard(kr, id), start + Len(SerializeCMessage(Shard(kr, id))))}
<1> DEFINE s == SerializeKeyRange(kr)
           t == SerializeBytes(id)
           mid == start + 1
           end == start + Len(SerializeCMessage(Shard(kr, id)))
           Of(p) == Parsed(Shard(p.val[1], p.val[2]), p.end)
<1>1. SerializeCMessage(Shard(kr, id)) = <<4>> \o (s \o t) /\ s \in Bytes /\ t \in Bytes
  BY SerializeCMessageIs, KeyRangeBytes, BytesBytes
<1>2. Len(s) \in Nat /\ Len(t) \in Nat \ {0} /\ s \o t \in Bytes
  BY <1>1, KeyRangeBytes, BytesBytes, BytesLen, ConcatIs, PartsAreLong
<1>3. data[mid] = 4 /\ At(data, mid, s \o t) /\ Len(SerializeCMessage(Shard(kr, id))) = 1 + Len(s \o t)
  BY <1>1, <1>2, AtTagged
<1>4. mid \in Nat /\ At(data, mid, s) /\ At(data, mid + Len(s), t) /\ mid + Len(s) \in Nat
  BY <1>1, <1>3, AtBoth
<1>5. mid < Len(data) /\ (mid + Len(s)) + Len(t) = end
  <2>1. (mid + Len(s)) + Len(t) <= Len(data) /\ Len(data) \in Nat /\ Len(s \o t) = Len(s) + Len(t)
    BY <1>1, <1>4, AtWithin, BufferLen, ConcatIs
  <2> QED BY <1>2, <1>3, <2>1
<1> HIDE DEF end
<1>6. DeserializeKeyRange(data, mid) = {Parsed(kr, mid + Len(s))}
  BY <1>4, KeyRangeReads
<1>7. DeserializeCMessage(data, start) = {Of(p) : p \in RangeAndBytes(data, mid)}
  BY <1>3, <1>5, DeserializeCMessageIs, Zenon
<1>8. Of(Parsed(<<kr, id>>, end)) = Parsed(Shard(kr, id), end)
  BY ParsedIs
<1> HIDE DEF Of, mid, s
<1>9. DeserializeBytes(data, mid + Len(s)) = {Parsed(id, end)}
  BY <1>4, <1>5, BytesReads, BytesBytes, SMTT(30)
<1>10. RangeAndBytes(data, mid) = {Parsed(<<kr, id>>, end)}
  BY <1>6, <1>9, RangeAndBytesOfOne
<1>11. DeserializeCMessage(data, start) = {Parsed(Shard(kr, id), end)}
  BY <1>7, <1>8, <1>10
<1> QED BY <1>11 DEF end

LEMMA ShardExact ==
    ASSUME NEW data, Buffer(data), NEW start \in Nat, NEW r \in DeserializeCMessage(data, start),
           start + 1 < Len(data), data[start + 1] = 4
    PROVE  /\ IsCMessage(r.val) /\ Encodes(r, data, start, SerializeCMessage(r.val)) /\ r.val.type = "Shard"
<1> DEFINE mid == start + 1
<1>1. DeserializeCMessage(data, start) = {Parsed(Shard(p.val[1], p.val[2]), p.end) : p \in RangeAndBytes(data, mid)}
  BY DeserializeCMessageIs, Zenon
<1>2. PICK p \in RangeAndBytes(data, mid) : r = Parsed(Shard(p.val[1], p.val[2]), p.end)
  BY <1>1
<1>3. PICK x \in DeserializeKeyRange(data, mid) : \E y \in DeserializeBytes(data, x.end) : p = Parsed(<<x.val, y.val>>, y.end)
  BY RangeAndBytesAre
<1>4. PICK y \in DeserializeBytes(data, x.end) : p = Parsed(<<x.val, y.val>>, y.end)
  BY <1>3
<1>5. r.val = Shard(x.val, y.val) /\ r.end = y.end /\ r = Parsed(r.val, r.end)
  BY <1>2, <1>4, ParsedIs
<1> DEFINE s == SerializeKeyRange(x.val)
           t == SerializeBytes(y.val)
<1>6. x.val \in KeyRanges /\ Encodes(x, data, mid, s) /\ s \in Bytes
  BY KeyRangeExact, KeyRangeBytes
<1>7. x.end \in Nat
  BY <1>6, EncodesEnd
<1>8. y.val \in Bytes /\ Encodes(y, data, x.end, t) /\ t \in Bytes
  BY <1>7, BytesExact, BytesBytes
<1>9. SerializeCMessage(r.val) = <<4>> \o (s \o t) /\ IsCMessage(r.val)
  BY <1>5, <1>6, <1>8, SerializeCMessageIs, CMessagesAre
<1>10. r.val.type = "Shard"
  BY <1>5 DEF Shard
<1> HIDE DEF s, t
<1>11. At(data, mid, s \o t) /\ y.end = mid + Len(s \o t) /\ s \o t \in Bytes
  BY <1>6, <1>8, EncodesBoth, ConcatIs
<1>12. At(data, start + 1, s \o t) /\ r.end = (start + 1) + Len(s \o t)
  BY <1>5, <1>11
<1>13. Encodes(r, data, start, <<4>> \o (s \o t))
  <2> DEFINE u == s \o t
  <2>1. u \in Bytes /\ At(data, start + 1, u) /\ r.end = (start + 1) + Len(u)
    BY <1>11, <1>12
  <2> HIDE DEF u
  <2>2. Encodes(r, data, start, <<4>> \o u)
    BY <1>5, <2>1, EncodesTagged
  <2> QED BY <2>2 DEF u
<1> QED BY <1>9, <1>10, <1>13

LEMMA DelegateReads ==
    ASSUME NEW data, Buffer(data), NEW start \in Nat, NEW kr \in KeyRanges, NEW h, IsTable(h),
           At(data, start, SerializeCMessage(Delegate(kr, h)))
    PROVE  DeserializeCMessage(data, start) =
                IF Len(SerializeCKeyHashMap(h)) <= MaxTableSize
                THEN {Parsed(Delegate(kr, h), start + Len(SerializeCMessage(Delegate(kr, h))))} ELSE {}
<1> DEFINE s == SerializeKeyRange(kr)
           t == SerializeCKeyHashMap(h)
           mid == start + 1
           end == start + Len(SerializeCMessage(Delegate(kr, h)))
           Of(p) == Parsed(Delegate(p.val[1], p.val[2]), p.end)
<1>1. SerializeCMessage(Delegate(kr, h)) = <<5>> \o (s \o t) /\ s \in Bytes /\ t \in Bytes
  BY SerializeCMessageIs, KeyRangeBytes, CKeyHashMapBytes
<1>2. Len(s) \in Nat /\ Len(t) \in Nat \ {0} /\ s \o t \in Bytes
  BY <1>1, KeyRangeBytes, CKeyHashMapBytes, BytesLen, ConcatIs, PartsAreLong
<1>3. data[mid] = 5 /\ At(data, mid, s \o t) /\ Len(SerializeCMessage(Delegate(kr, h))) = 1 + Len(s \o t)
  BY <1>1, <1>2, AtTagged
<1>4. mid \in Nat /\ At(data, mid, s) /\ At(data, mid + Len(s), t) /\ mid + Len(s) \in Nat
  BY <1>1, <1>3, AtBoth
<1>5. mid < Len(data) /\ (mid + Len(s)) + Len(t) = end
  <2>1. (mid + Len(s)) + Len(t) <= Len(data) /\ Len(data) \in Nat /\ Len(s \o t) = Len(s) + Len(t)
    BY <1>1, <1>4, AtWithin, BufferLen, ConcatIs
  <2> QED BY <1>2, <1>3, <2>1
<1> HIDE DEF end
<1>6. DeserializeKeyRange(data, mid) = {Parsed(kr, mid + Len(s))}
  BY <1>4, KeyRangeReads
<1>7. DeserializeCMessage(data, start) = {Of(p) : p \in RangeAndTable(data, mid)}
  BY <1>3, <1>5, DeserializeCMessageIs, Zenon
<1>8. Of(Parsed(<<kr, h>>, end)) = Parsed(Delegate(kr, h), end)
  BY ParsedIs
<1> HIDE DEF Of, mid, s
<1>9. CASE Len(t) <= MaxTableSize
  <2>1. DeserializeCKeyHashMap(data, mid + Len(s)) = {Parsed(h, end)}
    BY <1>4, <1>5, <1>9, CKeyHashMapReads
  <2>2. RangeAndTable(data, mid) = {Parsed(<<kr, h>>, end)}
    BY <1>6, <2>1, RangeAndTableOfOne
  <2>3. DeserializeCMessage(data, start) = {Parsed(Delegate(kr, h), end)}
    BY <1>7, <1>8, <2>2
  <2> QED BY <1>9, <2>3 DEF end
<1>10. CASE ~(Len(t) <= MaxTableSize)
  <2>1. DeserializeCKeyHashMap(data, mid + Len(s)) = {}
    BY <1>4, <1>10, CKeyHashMapReads
  <2>2. \A x \in DeserializeKeyRange(data, mid) : x.end = mid + Len(s)
    BY <1>6, ParsedIs
  <2>3. RangeAndTable(data, mid) = {}
    <3>1. \A p : p \notin RangeAndTable(data, mid)
      <4> SUFFICES ASSUME NEW p, p \in RangeAndTable(data, mid) PROVE FALSE
        OBVIOUS
      <4>1. PICK x \in DeserializeKeyRange(data, mid) : \E y \in DeserializeCKeyHashMap(data, x.end) : p = Parsed(<<x.val, y.val>>, y.end)
        BY RangeAndTableAre
      <4> QED BY <2>1, <2>2, <4>1
    <3> QED BY <3>1
  <2>4. DeserializeCMessage(data, start) = {}
    BY <1>7, <2>3
  <2> QED BY <1>10, <2>4
<1> QED BY <1>9, <1>10

LEMMA DelegateExact ==
    ASSUME NEW data, Buffer(data), NEW start \in Nat, NEW r \in DeserializeCMessage(data, start),
           start + 1 < Len(data), data[start + 1] = 5
    PROVE  /\ IsCMessage(r.val) /\ Encodes(r, data, start, SerializeCMessage(r.val)) /\ r.val.type = "Delegate"
           /\ Len(SerializeCKeyHashMap(r.val.h)) <= MaxTableSize
<1> DEFINE mid == start + 1
<1>1. DeserializeCMessage(data, start) = {Parsed(Delegate(p.val[1], p.val[2]), p.end) : p \in RangeAndTable(data, mid)}
  BY DeserializeCMessageIs, Zenon
<1>2. PICK p \in RangeAndTable(data, mid) : r = Parsed(Delegate(p.val[1], p.val[2]), p.end)
  BY <1>1
<1>3. PICK x \in DeserializeKeyRange(data, mid) : \E y \in DeserializeCKeyHashMap(data, x.end) : p = Parsed(<<x.val, y.val>>, y.end)
  BY RangeAndTableAre
<1>4. PICK y \in DeserializeCKeyHashMap(data, x.end) : p = Parsed(<<x.val, y.val>>, y.end)
  BY <1>3
<1>5. r.val = Delegate(x.val, y.val) /\ r.end = y.end /\ r = Parsed(r.val, r.end)
  BY <1>2, <1>4, ParsedIs
<1> DEFINE s == SerializeKeyRange(x.val)
           t == SerializeCKeyHashMap(y.val)
<1>6. x.val \in KeyRanges /\ Encodes(x, data, mid, s) /\ s \in Bytes
  BY KeyRangeExact, KeyRangeBytes
<1>7. x.end \in Nat
  BY <1>6, EncodesEnd
<1>8. IsTable(y.val) /\ Encodes(y, data, x.end, t) /\ t \in Bytes /\ Len(t) <= MaxTableSize
  BY <1>7, CKeyHashMapExact, CKeyHashMapBytes
<1>9. SerializeCMessage(r.val) = <<5>> \o (s \o t) /\ IsCMessage(r.val)
  BY <1>5, <1>6, <1>8, SerializeCMessageIs, CMessagesAre
<1>10. r.val.type = "Delegate" /\ r.val.h = y.val
  BY <1>5 DEF Delegate
<1> HIDE DEF s
<1>11. At(data, mid, s \o t) /\ y.end = mid + Len(s \o t) /\ s \o t \in Bytes
  BY <1>6, <1>8, EncodesBoth, ConcatIs
<1>12. At(data, start + 1, s \o t) /\ r.end = (start + 1) + Len(s \o t)
  BY <1>5, <1>11
<1>13. Encodes(r, data, start, <<5>> \o (s \o t))
  <2> DEFINE u == s \o t
  <2>1. u \in Bytes /\ At(data, start + 1, u) /\ r.end = (start + 1) + Len(u)
    BY <1>11, <1>12
  <2> HIDE DEF u
  <2>2. Encodes(r, data, start, <<5>> \o u)
    BY <1>5, <2>1, EncodesTagged
  <2> QED BY <2>2 DEF u
<1> QED BY <1>8, <1>9, <1>10, <1>13
-----------------------------------------------------------------------------
(***************************************************************************)
(* Messages of the hosts: read back unless the table of a Delegate is too  *)
(* large.                                                                  *)
(***************************************************************************)
TableFits(m) == m.type = "Delegate" => Len(SerializeCKeyHashMap(m.h)) <= MaxTableSize

LEMMA CMessageBytes ==
    ASSUME NEW m, IsCMessage(m)
    PROVE  SerializeCMessage(m) \in Bytes
<1>1. CASE m = GetRequest(m.k) /\ m.k \in U64
  <2>1. SerializeCMessage(GetRequest(m.k)) = <<0>> \o SerializeU64(m.k)
    BY <1>1, SerializeCMessageIs
  <2>2. SerializeU64(m.k) \in Bytes /\ <<0>> \in Bytes
    <3>1. SerializeU64(m.k) \in Bytes
      BY <1>1, U64Bytes
    <3> QED BY <3>1, Tags
  <2>3. <<0>> \o SerializeU64(m.k) \in Bytes
    BY <2>2, ConcatIs
  <2> QED BY <1>1, <2>1, <2>3
<1>2. CASE m = SetRequest(m.k, m.v) /\ m.k \in U64 /\ m.v \in Option(Bytes)
  <2>1. SerializeCMessage(SetRequest(m.k, m.v)) = <<1>> \o (SerializeU64(m.k) \o SerializeOptionBytes(m.v))
    BY <1>2, SerializeCMessageIs
  <2>2. SerializeU64(m.k) \in Bytes /\ SerializeOptionBytes(m.v) \in Bytes /\ <<1>> \in Bytes
    <3>1. SerializeU64(m.k) \in Bytes
      BY <1>2, U64Bytes
    <3>2. SerializeOptionBytes(m.v) \in Bytes
      BY <1>2, OptionBytesBytes
    <3> QED BY <3>1, <3>2, Tags
  <2>3. <<1>> \o (SerializeU64(m.k) \o SerializeOptionBytes(m.v)) \in Bytes
    BY <2>2, ConcatIs
  <2> QED BY <1>2, <2>1, <2>3
<1>3. CASE m = Reply(m.k, m.v) /\ m.k \in U64 /\ m.v \in Option(Bytes)
  <2>1. SerializeCMessage(Reply(m.k, m.v)) = <<2>> \o (SerializeU64(m.k) \o SerializeOptionBytes(m.v))
    BY <1>3, SerializeCMessageIs
  <2>2. SerializeU64(m.k) \in Bytes /\ SerializeOptionBytes(m.v) \in Bytes /\ <<2>> \in Bytes
    <3>1. SerializeU64(m.k) \in Bytes
      BY <1>3, U64Bytes
    <3>2. SerializeOptionBytes(m.v) \in Bytes
      BY <1>3, OptionBytesBytes
    <3> QED BY <3>1, <3>2, Tags
  <2>3. <<2>> \o (SerializeU64(m.k) \o SerializeOptionBytes(m.v)) \in Bytes
    BY <2>2, ConcatIs
  <2> QED BY <1>3, <2>1, <2>3
<1>4. CASE m = Redirect(m.k, m.id) /\ m.k \in U64 /\ m.id \in Bytes
  <2>1. SerializeCMessage(Redirect(m.k, m.id)) = <<3>> \o (SerializeU64(m.k) \o SerializeBytes(m.id))
    BY <1>4, SerializeCMessageIs
  <2>2. SerializeU64(m.k) \in Bytes /\ SerializeBytes(m.id) \in Bytes /\ <<3>> \in Bytes
    <3>1. SerializeU64(m.k) \in Bytes
      BY <1>4, U64Bytes
    <3>2. SerializeBytes(m.id) \in Bytes
      BY <1>4, BytesBytes
    <3> QED BY <3>1, <3>2, Tags
  <2>3. <<3>> \o (SerializeU64(m.k) \o SerializeBytes(m.id)) \in Bytes
    BY <2>2, ConcatIs
  <2> QED BY <1>4, <2>1, <2>3
<1>5. CASE m = Shard(m.kr, m.recipient) /\ m.kr \in KeyRanges /\ m.recipient \in Bytes
  <2>1. SerializeCMessage(Shard(m.kr, m.recipient)) = <<4>> \o (SerializeKeyRange(m.kr) \o SerializeBytes(m.recipient))
    BY <1>5, SerializeCMessageIs
  <2>2. SerializeKeyRange(m.kr) \in Bytes /\ SerializeBytes(m.recipient) \in Bytes /\ <<4>> \in Bytes
    <3>1. SerializeKeyRange(m.kr) \in Bytes
      BY <1>5, KeyRangeBytes
    <3>2. SerializeBytes(m.recipient) \in Bytes
      BY <1>5, BytesBytes
    <3> QED BY <3>1, <3>2, Tags
  <2>3. <<4>> \o (SerializeKeyRange(m.kr) \o SerializeBytes(m.recipient)) \in Bytes
    BY <2>2, ConcatIs
  <2> QED BY <1>5, <2>1, <2>3
<1>6. CASE m = Delegate(m.range, m.h) /\ m.range \in KeyRanges /\ IsTable(m.h)
  <2>1. SerializeCMessage(Delegate(m.range, m.h)) = <<5>> \o (SerializeKeyRange(m.range) \o SerializeCKeyHashMap(m.h))
    BY <1>6, SerializeCMessageIs
  <2>2. SerializeKeyRange(m.range) \in Bytes /\ SerializeCKeyHashMap(m.h) \in Bytes /\ <<5>> \in Bytes
    <3>1. SerializeKeyRange(m.range) \in Bytes
      BY <1>6, KeyRangeBytes
    <3>2. SerializeCKeyHashMap(m.h) \in Bytes
      BY <1>6, CKeyHashMapBytes
    <3> QED BY <3>1, <3>2, Tags
  <2>3. <<5>> \o (SerializeKeyRange(m.range) \o SerializeCKeyHashMap(m.h)) \in Bytes
    BY <2>2, ConcatIs
  <2> QED BY <1>6, <2>1, <2>3
<1> QED BY <1>1, <1>2, <1>3, <1>4, <1>5, <1>6, CMessageCases

LEMMA CMessageReads ==
    ASSUME NEW data, Buffer(data), NEW start \in Nat, NEW m, IsCMessage(m),
           At(data, start, SerializeCMessage(m))
    PROVE  DeserializeCMessage(data, start) =
                IF TableFits(m) THEN {Parsed(m, start + Len(SerializeCMessage(m)))} ELSE {}
<1>1. CASE m = GetRequest(m.k) /\ m.k \in U64
  <2>1. GetRequest(m.k).type = "GetRequest"
    BY DEF GetRequest
  <2>2. At(data, start, SerializeCMessage(GetRequest(m.k)))
    BY <1>1
  <2>3. TableFits(m)
    BY <1>1, <2>1 DEF TableFits
  <2>4. DeserializeCMessage(data, start) = {Parsed(GetRequest(m.k), start + Len(SerializeCMessage(GetRequest(m.k))))}
    BY <1>1, <2>2, GetRequestReads
  <2> QED BY <1>1, <2>3, <2>4, Zenon
<1>2. CASE m = SetRequest(m.k, m.v) /\ m.k \in U64 /\ m.v \in Option(Bytes)
  <2>1. SetRequest(m.k, m.v).type = "SetRequest"
    BY DEF SetRequest
  <2>2. At(data, start, SerializeCMessage(SetRequest(m.k, m.v)))
    BY <1>2
  <2>3. TableFits(m)
    BY <1>2, <2>1 DEF TableFits
  <2>4. DeserializeCMessage(data, start) = {Parsed(SetRequest(m.k, m.v), start + Len(SerializeCMessage(SetRequest(m.k, m.v))))}
    BY <1>2, <2>2, SetRequestReads
  <2> QED BY <1>2, <2>3, <2>4, Zenon
<1>3. CASE m = Reply(m.k, m.v) /\ m.k \in U64 /\ m.v \in Option(Bytes)
  <2>1. Reply(m.k, m.v).type = "Reply"
    BY DEF Reply
  <2>2. At(data, start, SerializeCMessage(Reply(m.k, m.v)))
    BY <1>3
  <2>3. TableFits(m)
    BY <1>3, <2>1 DEF TableFits
  <2>4. DeserializeCMessage(data, start) = {Parsed(Reply(m.k, m.v), start + Len(SerializeCMessage(Reply(m.k, m.v))))}
    BY <1>3, <2>2, ReplyReads
  <2> QED BY <1>3, <2>3, <2>4, Zenon
<1>4. CASE m = Redirect(m.k, m.id) /\ m.k \in U64 /\ m.id \in Bytes
  <2>1. Redirect(m.k, m.id).type = "Redirect"
    BY DEF Redirect
  <2>2. At(data, start, SerializeCMessage(Redirect(m.k, m.id)))
    BY <1>4
  <2>3. TableFits(m)
    BY <1>4, <2>1 DEF TableFits
  <2>4. DeserializeCMessage(data, start) = {Parsed(Redirect(m.k, m.id), start + Len(SerializeCMessage(Redirect(m.k, m.id))))}
    BY <1>4, <2>2, RedirectReads
  <2> QED BY <1>4, <2>3, <2>4, Zenon
<1>5. CASE m = Shard(m.kr, m.recipient) /\ m.kr \in KeyRanges /\ m.recipient \in Bytes
  <2>1. Shard(m.kr, m.recipient).type = "Shard"
    BY DEF Shard
  <2>2. At(data, start, SerializeCMessage(Shard(m.kr, m.recipient)))
    BY <1>5
  <2>3. TableFits(m)
    BY <1>5, <2>1 DEF TableFits
  <2>4. DeserializeCMessage(data, start) = {Parsed(Shard(m.kr, m.recipient), start + Len(SerializeCMessage(Shard(m.kr, m.recipient))))}
    BY <1>5, <2>2, ShardReads
  <2> QED BY <1>5, <2>3, <2>4, Zenon
<1>6. CASE m = Delegate(m.range, m.h) /\ m.range \in KeyRanges /\ IsTable(m.h)
  <2>1. Delegate(m.range, m.h).type = "Delegate"
    BY DEF Delegate
  <2>2. At(data, start, SerializeCMessage(Delegate(m.range, m.h)))
    BY <1>6
  <2>3. TableFits(m) <=> Len(SerializeCKeyHashMap(m.h)) <= MaxTableSize
    BY <1>6, <2>1 DEF TableFits
  <2>4. DeserializeCMessage(data, start) =
            IF Len(SerializeCKeyHashMap(m.h)) <= MaxTableSize
            THEN {Parsed(Delegate(m.range, m.h), start + Len(SerializeCMessage(Delegate(m.range, m.h))))} ELSE {}
    BY <1>6, <2>2, DelegateReads
  <2> QED BY <1>6, <2>3, <2>4, Zenon
<1> QED BY <1>1, <1>2, <1>3, <1>4, <1>5, <1>6, CMessageCases

LEMMA CMessageExact ==
    ASSUME NEW data, Buffer(data), NEW start \in Nat, NEW r \in DeserializeCMessage(data, start)
    PROVE  IsCMessage(r.val) /\ Encodes(r, data, start, SerializeCMessage(r.val)) /\ TableFits(r.val)
<1>1. start + 1 < Len(data) /\ data[start + 1] \in 0 .. 5
  BY DeserializeCMessageIs, Zenon
<1>2. CASE data[start + 1] = 0
  BY <1>1, <1>2, GetRequestExact DEF TableFits
<1>3. CASE data[start + 1] = 1
  BY <1>1, <1>3, SetRequestExact DEF TableFits
<1>4. CASE data[start + 1] = 2
  BY <1>1, <1>4, ReplyExact DEF TableFits
<1>5. CASE data[start + 1] = 3
  BY <1>1, <1>5, RedirectExact DEF TableFits
<1>6. CASE data[start + 1] = 4
  BY <1>1, <1>6, ShardExact DEF TableFits
<1>7. CASE data[start + 1] = 5
  BY <1>1, <1>7, DelegateExact DEF TableFits
<1> QED BY <1>1, <1>2, <1>3, <1>4, <1>5, <1>6, <1>7
-----------------------------------------------------------------------------
(***************************************************************************)
(* What hosts and clients send: the same for the messages of the           *)
(* single-delivery layer.                                                  *)
(***************************************************************************)
DstAndM(data, start) == DeserializePair(DeserializeBytes, DeserializeCMessage, data, start)

LEMMA DstAndMAre ==
    ASSUME NEW data, NEW start
    PROVE  \A p : p \in DstAndM(data, start) <=>
                \E x \in DeserializeBytes(data, start) : \E y \in DeserializeCMessage(data, x.end) :
                    p = Parsed(<<x.val, y.val>>, y.end)
<1> DEFINE Behind(x) == {Parsed(<<x.val, y.val>>, y.end) : y \in DeserializeCMessage(data, x.end)}
<1>1. DstAndM(data, start) = UNION {Behind(x) : x \in DeserializeBytes(data, start)}
  BY Zenon DEF DstAndM, DeserializePair, As
<1>2. \A p, x : p \in Behind(x) <=> \E y \in DeserializeCMessage(data, x.end) : p = Parsed(<<x.val, y.val>>, y.end)
  BY Zenon
<1> HIDE DEF Behind
<1>3. \A p : p \in DstAndM(data, start) <=> \E x \in DeserializeBytes(data, start) : p \in Behind(x)
  BY <1>1, Zenon
<1> QED BY <1>2, <1>3

LEMMA DstAndMOfOne ==
    ASSUME NEW data, NEW start, NEW a, NEW m, NEW b, NEW e,
           DeserializeBytes(data, start) = {Parsed(a, m)}, DeserializeCMessage(data, m) = {Parsed(b, e)}
    PROVE  DstAndM(data, start) = {Parsed(<<a, b>>, e)}
<1>1. \A x \in DeserializeBytes(data, start) : x.val = a /\ x.end = m
  BY ParsedIs
<1>2. \A y \in DeserializeCMessage(data, m) : y.val = b /\ y.end = e
  BY ParsedIs
<1>3. Parsed(a, m) \in DeserializeBytes(data, start) /\ Parsed(b, e) \in DeserializeCMessage(data, m)
  OBVIOUS
<1>4. ASSUME NEW p \in DstAndM(data, start) PROVE p = Parsed(<<a, b>>, e)
  <2>1. PICK x \in DeserializeBytes(data, start) : \E y \in DeserializeCMessage(data, x.end) : p = Parsed(<<x.val, y.val>>, y.end)
    BY DstAndMAre
  <2> QED BY <1>1, <1>2, <2>1
<1>5. Parsed(<<a, b>>, e) \in DstAndM(data, start)
  <2>1. Parsed(a, m).val = a /\ Parsed(a, m).end = m /\ Parsed(b, e).val = b /\ Parsed(b, e).end = e
    BY ParsedIs
  <2> QED BY <1>3, <2>1, DstAndMAre
<1> QED BY <1>4, <1>5

Content(data, start) == DeserializePair(DeserializeU64, DstAndM, data, start)

LEMMA ContentAre ==
    ASSUME NEW data, NEW start
    PROVE  \A p : p \in Content(data, start) <=>
                \E x \in DeserializeU64(data, start) : \E y \in DstAndM(data, x.end) :
                    p = Parsed(<<x.val, y.val>>, y.end)
<1> DEFINE Behind(x) == {Parsed(<<x.val, y.val>>, y.end) : y \in DstAndM(data, x.end)}
<1>1. Content(data, start) = UNION {Behind(x) : x \in DeserializeU64(data, start)}
  BY Zenon DEF Content, DeserializePair, As
<1>2. \A p, x : p \in Behind(x) <=> \E y \in DstAndM(data, x.end) : p = Parsed(<<x.val, y.val>>, y.end)
  BY Zenon
<1> HIDE DEF Behind
<1>3. \A p : p \in Content(data, start) <=> \E x \in DeserializeU64(data, start) : p \in Behind(x)
  BY <1>1, Zenon
<1> QED BY <1>2, <1>3

LEMMA ContentOfOne ==
    ASSUME NEW data, NEW start, NEW a, NEW m, NEW b, NEW e,
           DeserializeU64(data, start) = {Parsed(a, m)}, DstAndM(data, m) = {Parsed(b, e)}
    PROVE  Content(data, start) = {Parsed(<<a, b>>, e)}
<1>1. \A x \in DeserializeU64(data, start) : x.val = a /\ x.end = m
  BY ParsedIs
<1>2. \A y \in DstAndM(data, m) : y.val = b /\ y.end = e
  BY ParsedIs
<1>3. Parsed(a, m) \in DeserializeU64(data, start) /\ Parsed(b, e) \in DstAndM(data, m)
  OBVIOUS
<1>4. ASSUME NEW p \in Content(data, start) PROVE p = Parsed(<<a, b>>, e)
  <2>1. PICK x \in DeserializeU64(data, start) : \E y \in DstAndM(data, x.end) : p = Parsed(<<x.val, y.val>>, y.end)
    BY ContentAre
  <2> QED BY <1>1, <1>2, <2>1
<1>5. Parsed(<<a, b>>, e) \in Content(data, start)
  <2>1. Parsed(a, m).val = a /\ Parsed(a, m).end = m /\ Parsed(b, e).val = b /\ Parsed(b, e).end = e
    BY ParsedIs
  <2> QED BY <1>3, <2>1, ContentAre
<1> QED BY <1>4, <1>5

LEMMA SerializeIs ==
    /\ \A n \in U64, d \in Bytes : \A m : IsCMessage(m) =>
        Serialize(Message(n, d, m)) = <<0>> \o (SerializeU64(n) \o (SerializeBytes(d) \o SerializeCMessage(m)))
    /\ \A n \in U64 : Serialize(Ack(n)) = <<1>> \o SerializeU64(n)
    /\ Serialize(InvalidMessage) = <<2>>
<1>1. \A sm : sm.type = "Message" =>
        Serialize(sm) = ((<<0>> \o SerializeU64(sm.seqno)) \o SerializeBytes(sm.dst)) \o SerializeCMessage(sm.m)
  BY Zenon DEF Serialize
<1>2. \A sm : sm.type = "Ack" => Serialize(sm) = <<1>> \o SerializeU64(sm.ack_seqno)
  BY Zenon DEF Serialize
<1>3. \A sm : sm.type = "InvalidMessage" => Serialize(sm) = <<2>>
  BY Zenon DEF Serialize
<1>4. ASSUME NEW n \in U64, NEW d \in Bytes, NEW m, IsCMessage(m)
      PROVE  Serialize(Message(n, d, m)) = <<0>> \o (SerializeU64(n) \o (SerializeBytes(d) \o SerializeCMessage(m)))
  <2> DEFINE s == SerializeU64(n)
             t == SerializeBytes(d)
             u == SerializeCMessage(m)
  <2>1. Serialize(Message(n, d, m)) = ((<<0>> \o s) \o t) \o u
    <3>1. /\ Message(n, d, m).type = "Message" /\ Message(n, d, m).seqno = n
          /\ Message(n, d, m).dst = d /\ Message(n, d, m).m = m
      BY DEF Message
    <3> QED BY <1>1, <3>1
  <2>2. s \in Bytes /\ t \in Bytes /\ u \in Bytes
    BY <1>4, U64Bytes, BytesBytes, CMessageBytes
  <2> HIDE DEF s, t, u
  <2>3. <<0>> \in Bytes /\ <<0>> \o s \in Bytes
    BY <2>2, Tags, ConcatIs
  <2>4. (<<0>> \o s) \o t = <<0>> \o (s \o t) /\ s \o t \in Bytes
    <3>1. (<<0>> \o s) \o t = <<0>> \o (s \o t)
      BY <2>2, <2>3, ConcatAssociates, SMTT(30)
    <3>2. s \o t \in Bytes
      BY <2>2, ConcatIs
    <3> QED BY <3>1, <3>2
  <2>5. (<<0>> \o (s \o t)) \o u = <<0>> \o ((s \o t) \o u)
    BY <2>2, <2>3, <2>4, ConcatAssociates, SMTT(30)
  <2>6. (s \o t) \o u = s \o (t \o u)
    BY <2>2, ConcatAssociates, SMTT(30)
  <2>7. Serialize(Message(n, d, m)) = <<0>> \o (s \o (t \o u))
    BY <2>1, <2>4, <2>5, <2>6
  <2> QED BY <2>7 DEF s, t, u
<1>5. ASSUME NEW n \in U64 PROVE Serialize(Ack(n)) = <<1>> \o SerializeU64(n)
  <2>1. Ack(n).type = "Ack" /\ Ack(n).ack_seqno = n
    BY DEF Ack
  <2> QED BY <1>2, <2>1
<1>6. Serialize(InvalidMessage) = <<2>>
  <2>1. InvalidMessage.type = "InvalidMessage"
    BY DEF InvalidMessage
  <2> QED BY <1>3, <2>1
<1> QED BY <1>4, <1>5, <1>6

LEMMA CSingleMessageCases ==
    ASSUME NEW sm, IsCSingleMessage(sm)
    PROVE  \/ /\ sm = Message(sm.seqno, sm.dst, sm.m) /\ sm.type = "Message"
              /\ sm.seqno \in U64 /\ sm.dst \in Bytes /\ IsCMessage(sm.m)
           \/ sm = Ack(sm.ack_seqno) /\ sm.type = "Ack" /\ sm.ack_seqno \in U64
           \/ sm = InvalidMessage
  BY DEF IsCSingleMessage, Ack

LEMMA CSingleMessagesAre ==
    /\ \A n \in U64, d \in Bytes : \A m : IsCMessage(m) =>
        /\ IsCSingleMessage(Message(n, d, m)) /\ Message(n, d, m) # InvalidMessage
        /\ Message(n, d, m).type = "Message" /\ Message(n, d, m).m = m
    /\ \A n \in U64 :
        /\ IsCSingleMessage(Ack(n)) /\ Ack(n) # InvalidMessage
        /\ Ack(n).type = "Ack" /\ Ack(n).ack_seqno = n
    /\ IsCSingleMessage(InvalidMessage) /\ InvalidMessage.type = "InvalidMessage"
<1>1. ASSUME NEW n \in U64, NEW d \in Bytes, NEW m, IsCMessage(m)
      PROVE  /\ IsCSingleMessage(Message(n, d, m)) /\ Message(n, d, m) # InvalidMessage
             /\ Message(n, d, m).type = "Message" /\ Message(n, d, m).m = m
  <2>1. /\ Message(n, d, m).type = "Message" /\ Message(n, d, m).seqno = n
        /\ Message(n, d, m).dst = d /\ Message(n, d, m).m = m /\ InvalidMessage.type = "InvalidMessage"
    BY DEF Message, InvalidMessage
  <2> QED BY <1>1, <2>1, Zenon DEF IsCSingleMessage
<1>2. ASSUME NEW n \in U64
      PROVE  /\ IsCSingleMessage(Ack(n)) /\ Ack(n) # InvalidMessage
             /\ Ack(n).type = "Ack" /\ Ack(n).ack_seqno = n
  BY DEF IsCSingleMessage, Ack, InvalidMessage
<1>3. IsCSingleMessage(InvalidMessage) /\ InvalidMessage.type = "InvalidMessage"
  BY DEF IsCSingleMessage, InvalidMessage
<1> QED BY <1>1, <1>2, <1>3

LEMMA DeserializeCSingleMessageIs ==
    ASSUME NEW data, Buffer(data), NEW start \in Nat
    PROVE  LET mid == start + 1
               D == DeserializeCSingleMessage(data, start)
           IN  /\ mid < Len(data) /\ data[mid] = 0 =>
                    D = {Parsed(Message(p.val[1], p.val[2][1], p.val[2][2]), p.end) : p \in Content(data, mid)}
               /\ mid < Len(data) /\ data[mid] = 1 =>
                    D = {Parsed(Ack(r.val), r.end) : r \in DeserializeU64(data, mid)}
               /\ mid < Len(data) /\ data[mid] = 2 => D = {Parsed(InvalidMessage, mid)}
               /\ ~(mid < Len(data) /\ data[mid] \in 0 .. 2) => D = {}
<1> DEFINE mid == start + 1
           tag == data[mid]
<1>1. mid < Len(data) <=> ~(Len(data) = 0 \/ start >= Len(data) - 1)
  BY BufferLen
<1>2. tag = 0 => tag # 1 /\ tag # 2
  OBVIOUS
<1>3. tag = 1 => tag # 0 /\ tag # 2
  OBVIOUS
<1>4. tag = 2 => tag # 0 /\ tag # 1
  OBVIOUS
<1>5. ASSUME mid < Len(data), tag = 0
      PROVE  DeserializeCSingleMessage(data, start) =
                {Parsed(Message(p.val[1], p.val[2][1], p.val[2][2]), p.end) : p \in Content(data, mid)}
  BY <1>1, <1>2, <1>5, Zenon DEF DeserializeCSingleMessage, As, Content, DstAndM, DeserializePair
<1>6. ASSUME mid < Len(data), tag = 1
      PROVE  DeserializeCSingleMessage(data, start) = {Parsed(Ack(r.val), r.end) : r \in DeserializeU64(data, mid)}
  BY <1>1, <1>3, <1>6, Zenon DEF DeserializeCSingleMessage, As
<1>7. ASSUME mid < Len(data), tag = 2
      PROVE  DeserializeCSingleMessage(data, start) = {Parsed(InvalidMessage, mid)}
  BY <1>1, <1>4, <1>7, Zenon DEF DeserializeCSingleMessage
<1>8. ASSUME ~(mid < Len(data) /\ tag \in 0 .. 2) PROVE DeserializeCSingleMessage(data, start) = {}
  <2>1. CASE ~(mid < Len(data))
    BY <1>1, <2>1, Zenon DEF DeserializeCSingleMessage
  <2>2. CASE mid < Len(data)
    <3>1. tag # 0 /\ tag # 1 /\ tag # 2
      BY <1>8, <2>2
    <3> QED BY <1>1, <2>2, <3>1, Zenon DEF DeserializeCSingleMessage
  <2> QED BY <2>1, <2>2
<1> QED BY <1>5, <1>6, <1>7, <1>8

\* Only the table of a Delegate is too large for some buffers.
Fits(sm) == sm.type = "Message" => TableFits(sm.m)

LEMMA SerializeBytesIs ==
    ASSUME NEW sm, IsCSingleMessage(sm)
    PROVE  Serialize(sm) \in Bytes
<1>1. CASE /\ sm = Message(sm.seqno, sm.dst, sm.m) /\ sm.type = "Message"
           /\ sm.seqno \in U64 /\ sm.dst \in Bytes /\ IsCMessage(sm.m)
  <2> DEFINE s == SerializeU64(sm.seqno)
             t == SerializeBytes(sm.dst)
             u == SerializeCMessage(sm.m)
  <2>1. Serialize(sm) = <<0>> \o (s \o (t \o u))
    BY <1>1, SerializeIs
  <2>2. s \in Bytes /\ t \in Bytes /\ u \in Bytes /\ <<0>> \in Bytes
    <3>1. s \in Bytes
      BY <1>1, U64Bytes
    <3>2. t \in Bytes
      BY <1>1, BytesBytes
    <3>3. u \in Bytes
      BY <1>1, CMessageBytes
    <3> QED BY <3>1, <3>2, <3>3, Tags
  <2> HIDE DEF s, t, u
  <2>3. t \o u \in Bytes
    BY <2>2, ConcatIs
  <2>4. s \o (t \o u) \in Bytes
    BY <2>2, <2>3, ConcatIs
  <2>5. <<0>> \o (s \o (t \o u)) \in Bytes
    BY <2>2, <2>4, ConcatIs
  <2> QED BY <2>1, <2>5
<1>2. CASE sm = Ack(sm.ack_seqno) /\ sm.type = "Ack" /\ sm.ack_seqno \in U64
  <2>1. Serialize(sm) = <<1>> \o SerializeU64(sm.ack_seqno)
    BY <1>2, SerializeIs
  <2>2. SerializeU64(sm.ack_seqno) \in Bytes /\ <<1>> \in Bytes
    BY <1>2, U64Bytes, Tags
  <2> QED BY <2>1, <2>2, ConcatIs
<1>3. CASE sm = InvalidMessage
  BY <1>3, SerializeIs, Tags
<1> QED BY <1>1, <1>2, <1>3, CSingleMessageCases

LEMMA MessageReads ==
    ASSUME NEW data, Buffer(data), NEW start \in Nat, NEW n \in U64, NEW d \in Bytes, NEW m, IsCMessage(m),
           At(data, start, Serialize(Message(n, d, m)))
    PROVE  DeserializeCSingleMessage(data, start) =
                IF TableFits(m)
                THEN {Parsed(Message(n, d, m), start + Len(Serialize(Message(n, d, m))))}
                ELSE {}
<1> DEFINE s == SerializeU64(n)
           t == SerializeBytes(d)
           u == SerializeCMessage(m)
           mid == start + 1
           end == start + Len(Serialize(Message(n, d, m)))
           Of(p) == Parsed(Message(p.val[1], p.val[2][1], p.val[2][2]), p.end)
<1>1. Serialize(Message(n, d, m)) = <<0>> \o (s \o (t \o u))
  BY SerializeIs
<1>2. s \in Bytes /\ Len(s) = WordSize /\ t \in Bytes /\ u \in Bytes /\ WordSize \in Nat \ {0}
  BY U64Bytes, BytesBytes, CMessageBytes, Limits
<1>3. DeserializeU64(data, mid) = {Parsed(n, mid + WordSize)} \/ ~At(data, mid, s)
  BY U64Reads
<1>4. DeserializeBytes(data, mid + Len(s)) = {Parsed(d, (mid + Len(s)) + Len(t))} \/ ~At(data, mid + Len(s), t)
  <2> DEFINE e == mid + Len(s)
  <2>1. Len(t) = WordSize + Len(d) /\ e \in Nat
    BY <1>2, BytesBytes
  <2>2. ASSUME At(data, e, t) PROVE DeserializeBytes(data, e) = {Parsed(d, e + (WordSize + Len(d)))}
    <3> HIDE DEF e
    <3> QED BY <2>1, <2>2, BytesReads
  <2> QED BY <2>1, <2>2
<1>5. \/ ~At(data, (mid + Len(s)) + Len(t), u)
      \/ DeserializeCMessage(data, (mid + Len(s)) + Len(t)) =
            IF TableFits(m) THEN {Parsed(m, ((mid + Len(s)) + Len(t)) + Len(u))} ELSE {}
  <2>1. (mid + Len(s)) + Len(t) \in Nat
    BY <1>2, BytesLen
  <2> QED BY <2>1, CMessageReads
<1>6. Of(Parsed(<<n, <<d, m>>>>, end)) = Parsed(Message(n, d, m), end)
  BY ParsedIs
<1>7. mid < Len(data) /\ data[mid] = 0 => DeserializeCSingleMessage(data, start) = {Of(p) : p \in Content(data, mid)}
  BY DeserializeCSingleMessageIs, Zenon
<1> HIDE DEF Of, s, t, u
<1>8. t \o u \in Bytes /\ s \o (t \o u) \in Bytes
  BY <1>2, ConcatIs
<1>9. data[mid] = 0 /\ At(data, mid, s \o (t \o u)) /\ end = start + (1 + Len(s \o (t \o u)))
  BY <1>1, <1>8, AtTagged
<1>10. mid \in Nat /\ At(data, mid, s) /\ At(data, mid + Len(s), t \o u) /\ mid + Len(s) \in Nat
  <2> DEFINE v == t \o u
  <2>1. v \in Bytes /\ At(data, mid, s \o v) /\ mid \in Nat
    BY <1>8, <1>9
  <2> HIDE DEF v, mid
  <2>2. At(data, mid, s) /\ At(data, mid + Len(s), v) /\ mid + Len(s) \in Nat
    BY <1>2, <2>1, AtBoth
  <2> QED BY <2>1, <2>2 DEF v
<1>11. At(data, mid + Len(s), t) /\ At(data, (mid + Len(s)) + Len(t), u)
  BY <1>2, <1>10, AtBoth
<1>12. mid < Len(data) /\ ((mid + Len(s)) + Len(t)) + Len(u) = end
  <2>1. Len(s \o (t \o u)) = Len(s) + Len(t \o u) /\ Len(t \o u) = Len(t) + Len(u)
    BY <1>2, <1>8, ConcatIs
  <2>2. mid + Len(s) <= Len(data) /\ Len(data) \in Nat
    BY <1>2, <1>10, AtWithin, BufferLen
  <2>3. Len(s) \in Nat /\ Len(t) \in Nat /\ Len(u) \in Nat
    BY <1>2, BytesLen
  <2> HIDE DEF end
  <2> QED BY <1>2, <1>9, <2>1, <2>2, <2>3
<1> DEFINE e1 == mid + Len(s)
           e2 == (mid + Len(s)) + Len(t)
<1>13. DeserializeU64(data, mid) = {Parsed(n, e1)} /\ DeserializeBytes(data, e1) = {Parsed(d, e2)}
  BY <1>2, <1>3, <1>4, <1>10, <1>11
<1>14. DeserializeCMessage(data, e2) = IF TableFits(m) THEN {Parsed(m, end)} ELSE {}
  BY <1>5, <1>11, <1>12
<1>15. DeserializeCSingleMessage(data, start) = {Of(p) : p \in Content(data, mid)}
  BY <1>7, <1>9, <1>12
<1> HIDE DEF e1, e2, mid, end
<1>16. CASE TableFits(m)
  <2>1. DstAndM(data, e1) = {Parsed(<<d, m>>, end)}
    BY <1>13, <1>14, <1>16, DstAndMOfOne
  <2>2. Content(data, mid) = {Parsed(<<n, <<d, m>>>>, end)}
    BY <1>13, <2>1, ContentOfOne
  <2>3. DeserializeCSingleMessage(data, start) = {Parsed(Message(n, d, m), end)}
    BY <1>6, <1>15, <2>2
  <2> QED BY <1>16, <2>3 DEF end
<1>17. CASE ~TableFits(m)
  <2>1. \A p : p \notin Content(data, mid)
    <3> SUFFICES ASSUME NEW p, p \in Content(data, mid) PROVE FALSE
      OBVIOUS
    <3>1. PICK x \in DeserializeU64(data, mid) : \E y \in DstAndM(data, x.end) : p = Parsed(<<x.val, y.val>>, y.end)
      BY ContentAre
    <3>2. PICK y \in DstAndM(data, x.end) : p = Parsed(<<x.val, y.val>>, y.end)
      BY <3>1
    <3>3. x.end = e1
      BY <1>13, ParsedIs
    <3>4. PICK a \in DeserializeBytes(data, e1) : \E b \in DeserializeCMessage(data, a.end) : y = Parsed(<<a.val, b.val>>, b.end)
      BY <3>2, <3>3, DstAndMAre
    <3>5. a.end = e2
      BY <1>13, ParsedIs
    <3> QED BY <1>14, <1>17, <3>4, <3>5
  <2>2. DeserializeCSingleMessage(data, start) = {}
    BY <1>15, <2>1
  <2> QED BY <1>17, <2>2
<1> QED BY <1>16, <1>17

LEMMA AckReads ==
    ASSUME NEW data, Buffer(data), NEW start \in Nat, NEW n \in U64, At(data, start, Serialize(Ack(n)))
    PROVE  DeserializeCSingleMessage(data, start) = {Parsed(Ack(n), start + Len(Serialize(Ack(n))))}
<1> DEFINE s == SerializeU64(n)
           mid == start + 1
           end == start + Len(Serialize(Ack(n)))
           Of(r) == Parsed(Ack(r.val), r.end)
<1>1. Serialize(Ack(n)) = <<1>> \o s /\ s \in Bytes /\ Len(s) = WordSize /\ WordSize \in Nat \ {0}
  BY SerializeIs, U64Bytes, Limits
<1>2. data[mid] = 1 /\ At(data, mid, s) /\ Len(Serialize(Ack(n))) = 1 + Len(s)
  BY <1>1, AtTagged
<1>3. mid < Len(data) /\ mid \in Nat /\ mid + WordSize = end
  <2>1. mid + Len(s) <= Len(data) /\ Len(data) \in Nat
    BY <1>1, <1>2, AtWithin, BufferLen
  <2>2. end = start + (1 + WordSize)
    BY <1>1, <1>2
  <2>3. start + 1 + WordSize <= Len(data)
    BY <1>1, <2>1
  <2> HIDE DEF end
  <2> QED BY <1>1, <2>1, <2>2, <2>3
<1> HIDE DEF end
<1>4. DeserializeU64(data, mid) = {Parsed(n, end)}
  BY <1>2, <1>3, U64Reads
<1>5. DeserializeCSingleMessage(data, start) = {Of(r) : r \in DeserializeU64(data, mid)}
  BY <1>2, <1>3, DeserializeCSingleMessageIs, Zenon
<1>6. Of(Parsed(n, end)) = Parsed(Ack(n), end)
  BY ParsedIs
<1> HIDE DEF Of
<1>7. DeserializeCSingleMessage(data, start) = {Parsed(Ack(n), end)}
  BY <1>4, <1>5, <1>6
<1> QED BY <1>7 DEF end

LEMMA InvalidMessageReads ==
    ASSUME NEW data, Buffer(data), NEW start \in Nat, At(data, start, Serialize(InvalidMessage))
    PROVE  \A r \in DeserializeCSingleMessage(data, start) : r = Parsed(InvalidMessage, start + 1)
<1>1. Serialize(InvalidMessage) = <<2>> /\ 2 \in 0 .. 5
  BY SerializeIs
<1>2. data[start + 1] = 2
  BY <1>1, Tags, AtOne, BufferLen
<1>3. CASE start + 1 < Len(data)
  <2>1. DeserializeCSingleMessage(data, start) = {Parsed(InvalidMessage, start + 1)}
    BY <1>2, <1>3, DeserializeCSingleMessageIs, Zenon
  <2> QED BY <2>1
<1>4. CASE ~(start + 1 < Len(data))
  <2>1. DeserializeCSingleMessage(data, start) = {}
    BY <1>4, DeserializeCSingleMessageIs, Zenon
  <2> QED BY <2>1
<1> QED BY <1>3, <1>4

LEMMA CSingleMessageReads ==
    ASSUME NEW data, Buffer(data), NEW start \in Nat, NEW sm, IsCSingleMessage(sm), sm # InvalidMessage,
           At(data, start, Serialize(sm))
    PROVE  DeserializeCSingleMessage(data, start) =
                IF Fits(sm) THEN {Parsed(sm, start + Len(Serialize(sm)))} ELSE {}
<1>1. CASE /\ sm = Message(sm.seqno, sm.dst, sm.m) /\ sm.type = "Message"
           /\ sm.seqno \in U64 /\ sm.dst \in Bytes /\ IsCMessage(sm.m)
  <2>1. At(data, start, Serialize(Message(sm.seqno, sm.dst, sm.m)))
    BY <1>1
  <2>2. DeserializeCSingleMessage(data, start) =
            IF TableFits(sm.m)
            THEN {Parsed(Message(sm.seqno, sm.dst, sm.m),
                         start + Len(Serialize(Message(sm.seqno, sm.dst, sm.m))))}
            ELSE {}
    BY <1>1, <2>1, MessageReads
  <2>3. Fits(sm) <=> TableFits(sm.m)
    BY <1>1 DEF Fits
  <2> QED BY <1>1, <2>2, <2>3, Zenon
<1>2. CASE sm = Ack(sm.ack_seqno) /\ sm.type = "Ack" /\ sm.ack_seqno \in U64
  <2>1. At(data, start, Serialize(Ack(sm.ack_seqno)))
    BY <1>2
  <2>2. DeserializeCSingleMessage(data, start) =
            {Parsed(Ack(sm.ack_seqno), start + Len(Serialize(Ack(sm.ack_seqno))))}
    BY <1>2, <2>1, AckReads
  <2>3. Fits(sm)
    BY <1>2 DEF Fits
  <2> QED BY <1>2, <2>2, <2>3, Zenon
<1> QED BY <1>1, <1>2, CSingleMessageCases

LEMMA MessageExact ==
    ASSUME NEW data, Buffer(data), NEW start \in Nat, NEW r \in DeserializeCSingleMessage(data, start),
           start + 1 < Len(data), data[start + 1] = 0
    PROVE  /\ r.val = Message(r.val.seqno, r.val.dst, r.val.m) /\ r.val.type = "Message"
           /\ r.val.seqno \in U64 /\ r.val.dst \in Bytes /\ IsCMessage(r.val.m)
           /\ Encodes(r, data, start, Serialize(r.val)) /\ TableFits(r.val.m)
<1> DEFINE mid == start + 1
<1>1. DeserializeCSingleMessage(data, start) =
        {Parsed(Message(p.val[1], p.val[2][1], p.val[2][2]), p.end) : p \in Content(data, mid)}
  BY DeserializeCSingleMessageIs, Zenon
<1>2. PICK p \in Content(data, mid) : r = Parsed(Message(p.val[1], p.val[2][1], p.val[2][2]), p.end)
  BY <1>1
<1>3. PICK x \in DeserializeU64(data, mid) : \E c \in DstAndM(data, x.end) : p = Parsed(<<x.val, c.val>>, c.end)
  BY ContentAre
<1>4. PICK c \in DstAndM(data, x.end) : p = Parsed(<<x.val, c.val>>, c.end)
  BY <1>3
<1>5. PICK y \in DeserializeBytes(data, x.end) : \E z \in DeserializeCMessage(data, y.end) : c = Parsed(<<y.val, z.val>>, z.end)
  BY DstAndMAre
<1>6. PICK z \in DeserializeCMessage(data, y.end) : c = Parsed(<<y.val, z.val>>, z.end)
  BY <1>5
<1> DEFINE s == SerializeU64(x.val)
           t == SerializeBytes(y.val)
           u == SerializeCMessage(z.val)
<1>7. /\ r.val = Message(x.val, y.val, z.val) /\ r.end = z.end /\ r = Parsed(r.val, r.end)
  <2>1. c.val = <<y.val, z.val>> /\ c.end = z.end
    BY <1>6, ParsedIs
  <2>2. p.val = <<x.val, <<y.val, z.val>>>> /\ p.end = z.end
    BY <1>4, <2>1, ParsedIs
  <2>3. p.val[1] = x.val /\ p.val[2][1] = y.val /\ p.val[2][2] = z.val
    BY <2>2
  <2> QED BY <1>2, <2>2, <2>3, ParsedIs
<1>8. x.val \in U64 /\ Encodes(x, data, mid, s) /\ s \in Bytes
  BY U64Exact, U64Bytes
<1>9. x.end \in Nat
  BY <1>8, EncodesEnd
<1>10. y.val \in Bytes /\ Encodes(y, data, x.end, t) /\ t \in Bytes
  BY <1>9, BytesExact, BytesBytes
<1>11. y.end \in Nat
  BY <1>9, <1>10, EncodesEnd
<1>12. IsCMessage(z.val) /\ Encodes(z, data, y.end, u) /\ TableFits(z.val) /\ u \in Bytes
  <2>1. IsCMessage(z.val) /\ Encodes(z, data, y.end, u) /\ TableFits(z.val)
    BY <1>11, CMessageExact
  <2> QED BY <2>1, CMessageBytes
<1>13. /\ r.val.type = "Message" /\ r.val.seqno = x.val /\ r.val.dst = y.val /\ r.val.m = z.val
  BY <1>7 DEF Message
<1>14. Serialize(r.val) = <<0>> \o (s \o (t \o u))
  BY <1>7, <1>8, <1>10, <1>12, SerializeIs, ZenonT(40)
<1> HIDE DEF s, t, u
<1>15. Encodes(r, data, start, <<0>> \o (s \o (t \o u)))
  <2> DEFINE w == t \o u
             v == s \o w
  <2>1. w \in Bytes /\ At(data, x.end, w) /\ z.end = x.end + Len(w)
    BY <1>9, <1>10, <1>12, EncodesBoth, ConcatIs
  <2> DEFINE g == Parsed(w, z.end)
  <2>2. Encodes(g, data, x.end, w) /\ g.end = z.end
    <3> HIDE DEF w
    <3> QED BY <2>1, ParsedIs DEF Encodes
  <2> HIDE DEF w, g
  <2>3. v \in Bytes
    BY <1>8, <2>1, ConcatIs
  <2>4. At(data, start + 1, v) /\ r.end = (start + 1) + Len(v)
    <3>1. At(data, mid, v) /\ g.end = mid + Len(v)
      BY <1>8, <2>1, <2>2, EncodesBoth
    <3> QED BY <1>7, <2>2, <3>1
  <2> HIDE DEF v
  <2>5. Encodes(r, data, start, <<0>> \o v)
    BY <1>7, <2>3, <2>4, EncodesTagged
  <2> QED BY <2>5 DEF v, w
<1> QED BY <1>7, <1>8, <1>10, <1>12, <1>13, <1>14, <1>15

LEMMA AckExact ==
    ASSUME NEW data, Buffer(data), NEW start \in Nat, NEW r \in DeserializeCSingleMessage(data, start),
           start + 1 < Len(data), data[start + 1] = 1
    PROVE  /\ r.val = Ack(r.val.ack_seqno) /\ r.val.type = "Ack" /\ r.val.ack_seqno \in U64
           /\ Encodes(r, data, start, Serialize(r.val))
<1> DEFINE mid == start + 1
<1>1. DeserializeCSingleMessage(data, start) = {Parsed(Ack(x.val), x.end) : x \in DeserializeU64(data, mid)}
  BY DeserializeCSingleMessageIs, Zenon
<1>2. PICK x \in DeserializeU64(data, mid) : r = Parsed(Ack(x.val), x.end)
  BY <1>1
<1>3. x.val \in U64 /\ Encodes(x, data, mid, SerializeU64(x.val)) /\ SerializeU64(x.val) \in Bytes
  BY U64Exact, U64Bytes
<1>4. r.val = Ack(x.val) /\ r.end = x.end /\ r = Parsed(r.val, r.end)
  BY <1>2, ParsedIs
<1>5. r.val.type = "Ack" /\ r.val.ack_seqno = x.val
  BY <1>4 DEF Ack
<1>6. Serialize(r.val) = <<1>> \o SerializeU64(x.val)
  BY <1>3, <1>4, SerializeIs
<1>7. Encodes(r, data, start, Serialize(r.val))
  <2> DEFINE u == SerializeU64(x.val)
  <2>1. u \in Bytes /\ At(data, start + 1, u) /\ r.end = (start + 1) + Len(u)
    BY <1>3, <1>4 DEF Encodes
  <2> HIDE DEF u
  <2>2. Encodes(r, data, start, <<1>> \o u)
    BY <1>4, <2>1, EncodesTagged
  <2> QED BY <1>6, <2>2 DEF u
<1> QED BY <1>3, <1>4, <1>5, <1>7

LEMMA CSingleMessageExact ==
    ASSUME NEW data, Buffer(data), NEW start \in Nat, NEW r \in DeserializeCSingleMessage(data, start),
           r.val # InvalidMessage
    PROVE  IsCSingleMessage(r.val) /\ Encodes(r, data, start, Serialize(r.val)) /\ Fits(r.val)
<1>1. start + 1 < Len(data) /\ data[start + 1] \in 0 .. 2
  BY DeserializeCSingleMessageIs, Zenon
<1>2. CASE data[start + 1] = 0
  <2>1. /\ r.val = Message(r.val.seqno, r.val.dst, r.val.m) /\ r.val.seqno \in U64 /\ r.val.dst \in Bytes
        /\ IsCMessage(r.val.m) /\ Encodes(r, data, start, Serialize(r.val)) /\ TableFits(r.val.m)
    BY <1>1, <1>2, MessageExact
  <2>2. IsCSingleMessage(Message(r.val.seqno, r.val.dst, r.val.m))
    BY <2>1, CSingleMessagesAre
  <2> QED BY <2>1, <2>2 DEF Fits
<1>3. CASE data[start + 1] = 1
  <2>1. /\ r.val = Ack(r.val.ack_seqno) /\ r.val.ack_seqno \in U64 /\ r.val.type = "Ack"
        /\ Encodes(r, data, start, Serialize(r.val))
    BY <1>1, <1>3, AckExact
  <2>2. IsCSingleMessage(Ack(r.val.ack_seqno))
    BY <2>1, CSingleMessagesAre
  <2> QED BY <2>1, <2>2 DEF Fits
<1>4. CASE data[start + 1] = 2
  <2>1. DeserializeCSingleMessage(data, start) = {Parsed(InvalidMessage, start + 1)}
    BY <1>1, <1>4, DeserializeCSingleMessageIs, Zenon
  <2> QED BY <2>1, ParsedIs
<1> QED BY <1>1, <1>2, <1>3, <1>4

-----------------------------------------------------------------------------
(***************************************************************************)
(* What a host makes of a buffer.                                          *)
(***************************************************************************)
LEMMA Demarshalled ==
    ASSUME NEW buffer, Buffer(buffer), NEW sm, sm = ShtDemarshallData(buffer), sm # InvalidMessage
    PROVE  /\ IsCSingleMessage(sm) /\ Fits(sm) /\ AddressesValid(sm)
           /\ Serialize(sm) = buffer
           /\ Parsed(sm, Len(buffer)) \in DeserializeCSingleMessage(buffer, 0)
<1> DEFINE messages == {r \in DeserializeCSingleMessage(buffer, 0) : IsWhole(buffer, r.end) /\ AddressesValid(r.val)}
<1>1. ShtDemarshallData(buffer) = IF messages = {} THEN InvalidMessage ELSE (CHOOSE r \in messages : TRUE).val
  BY Zenon DEF ShtDemarshallData
<1>2. PICK r \in messages : sm = r.val
  <2>1. messages # {}
    BY <1>1
  <2> HIDE DEF messages
  <2> QED BY <1>1, <2>1
<1>3. r \in DeserializeCSingleMessage(buffer, 0) /\ r.end = Len(buffer) /\ AddressesValid(sm)
  BY <1>2 DEF IsWhole
<1> HIDE DEF messages
<1>4. IsCSingleMessage(sm) /\ Encodes(r, buffer, 0, Serialize(sm)) /\ Fits(sm)
  BY <1>2, <1>3, CSingleMessageExact
<1>5. Serialize(sm) \in Bytes
  BY <1>4, SerializeBytesIs
<1>6. r = Parsed(sm, Len(buffer)) /\ Len(buffer) = Len(Serialize(sm)) /\ At(buffer, 0, Serialize(sm))
  <2>1. Len(Serialize(sm)) \in Nat
    BY <1>5, BytesLen
  <2> QED BY <1>2, <1>3, <1>4, <2>1 DEF Encodes
<1>7. Serialize(sm) = buffer
  BY <1>5, <1>6, AtWhole, BufferLen
<1> QED BY <1>3, <1>4, <1>6, <1>7

LEMMA Marshalable ==
    ASSUME NEW sm, IsCSingleMessage(sm), Len(Serialize(sm)) <= UsizeMax
    PROVE  IsMarshalable(sm) <=> Fits(sm)
<1>1. CASE sm.type = "Message"
  <2>1. IsCMessage(sm.m)
    <3>1. sm # InvalidMessage /\ \A n \in U64 : Ack(n).type # "Message"
      BY <1>1 DEF InvalidMessage, Ack
    <3> QED BY <1>1, <3>1, CSingleMessageCases
  <2>2. CASE sm.m.type = "Delegate"
    <3>1. IsTable(sm.m.h)
      <4>1. sm.m \notin [type : {"GetRequest"}, k : U64] /\ sm.m \notin [type : {"SetRequest", "Reply"}, k : U64, v : Option(Bytes)]
        BY <2>2
      <4>2. sm.m \notin [type : {"Redirect"}, k : U64, id : Bytes]
        BY <2>2
      <4>3. sm.m \notin [type : {"Shard"}, kr : KeyRanges, recipient : Bytes]
        BY <2>2
      <4> QED BY <2>1, <4>1, <4>2, <4>3 DEF IsCMessage
    <3>2. SortedKeys(ToVec(sm.m.h))
      BY <3>1, FromVecToVec
    <3> QED BY <1>1, <2>2, <3>2 DEF IsMarshalable, Fits, TableFits
  <2>3. CASE sm.m.type # "Delegate"
    BY <1>1, <2>3 DEF IsMarshalable, Fits, TableFits
  <2> QED BY <2>2, <2>3
<1>2. CASE sm.type # "Message"
  BY <1>2 DEF IsMarshalable, Fits
<1> QED BY <1>1, <1>2

\* All of a buffer that is one message.
LEMMA Understood ==
    ASSUME NEW sm, IsCSingleMessage(sm), NEW buffer, Buffer(buffer), buffer = Serialize(sm)
    PROVE  ShtDemarshallData(buffer) = IF Fits(sm) /\ AddressesValid(sm) THEN sm ELSE InvalidMessage
<1> DEFINE messages == {r \in DeserializeCSingleMessage(buffer, 0) : IsWhole(buffer, r.end) /\ AddressesValid(r.val)}
<1>1. ShtDemarshallData(buffer) = IF messages = {} THEN InvalidMessage ELSE (CHOOSE r \in messages : TRUE).val
  BY Zenon DEF ShtDemarshallData
<1>2. At(buffer, 0, Serialize(sm)) /\ Len(buffer) \in Nat
  BY BufferLen, AtItself
<1>3. CASE sm = InvalidMessage
  <2>1. \A r \in DeserializeCSingleMessage(buffer, 0) : r.val = InvalidMessage
    <3>1. \A r \in DeserializeCSingleMessage(buffer, 0) : r = Parsed(InvalidMessage, 0 + 1)
      BY <1>2, <1>3, InvalidMessageReads
    <3> QED BY <3>1, ParsedIs
  <2>2. messages # {} => (CHOOSE r \in messages : TRUE).val = InvalidMessage
    <3>1. \A r \in messages : r.val = InvalidMessage
      BY <2>1
    <3> HIDE DEF messages
    <3> QED BY <3>1
  <2> HIDE DEF messages
  <2> QED BY <1>1, <1>3, <2>2
<1>4. CASE sm # InvalidMessage
  <2>1. DeserializeCSingleMessage(buffer, 0) = IF Fits(sm) THEN {Parsed(sm, Len(buffer))} ELSE {}
    <3>1. DeserializeCSingleMessage(buffer, 0) = IF Fits(sm) THEN {Parsed(sm, 0 + Len(Serialize(sm)))} ELSE {}
      BY <1>2, <1>4, CSingleMessageReads
    <3> QED BY <1>2, <3>1
  <2>2. CASE Fits(sm) /\ AddressesValid(sm)
    <3>1. messages = {Parsed(sm, Len(buffer))}
      BY <2>1, <2>2, ParsedIs DEF IsWhole
    <3> HIDE DEF messages
    <3>2. (CHOOSE r \in messages : TRUE) = Parsed(sm, Len(buffer)) /\ messages # {}
      BY <3>1
    <3> QED BY <1>1, <2>2, <3>2, ParsedIs
  <2>3. CASE ~(Fits(sm) /\ AddressesValid(sm))
    <3>1. messages = {}
      BY <2>1, <2>3, ParsedIs
    <3> QED BY <1>1, <2>3, <3>1
  <2> QED BY <2>2, <2>3
<1> QED BY <1>3, <1>4

\* A buffer that holds a message and more, or a part of a message.
LEMMA PartRejected ==
    ASSUME NEW sm, IsCSingleMessage(sm), NEW whole, Buffer(whole), whole = Serialize(sm),
           NEW buffer, Buffer(buffer), buffer # whole,
           At(buffer, 0, whole) \/ At(whole, 0, buffer)
    PROVE  ShtDemarshallData(buffer) = InvalidMessage
<1> SUFFICES ASSUME ShtDemarshallData(buffer) # InvalidMessage PROVE FALSE
  OBVIOUS
<1> DEFINE other == ShtDemarshallData(buffer)
<1>1. /\ IsCSingleMessage(other) /\ Fits(other) /\ other # InvalidMessage /\ Serialize(other) = buffer
      /\ Parsed(other, Len(buffer)) \in DeserializeCSingleMessage(buffer, 0)
  BY Demarshalled
<1> HIDE DEF other
<1>2. Len(buffer) \in Nat /\ Len(whole) \in Nat /\ buffer \in Bytes /\ whole \in Bytes
  BY BufferLen
\* In both cases the longer buffer would be read as both messages.
<1>3. PICK both : /\ Buffer(both) /\ At(both, 0, Serialize(sm))
                  /\ Parsed(other, Len(buffer)) \in DeserializeCSingleMessage(both, 0)
                  /\ (both = buffer \/ both = whole) /\ At(both, 0, buffer)
  <2>1. CASE At(buffer, 0, whole)
    BY <1>1, <1>2, <2>1, AtItself
  <2>2. CASE At(whole, 0, buffer)
    <3>1. DeserializeCSingleMessage(whole, 0) = {Parsed(other, 0 + Len(buffer))}
      <4>1. At(whole, 0, Serialize(other)) /\ 0 \in Nat
        BY <1>1, <2>2
      <4> QED BY <1>1, <4>1, CSingleMessageReads
    <3>2. Parsed(other, Len(buffer)) \in DeserializeCSingleMessage(whole, 0)
      BY <1>2, <3>1
    <3> QED BY <1>2, <2>2, <3>2, AtItself
  <2> QED BY <2>1, <2>2
<1>4. CASE sm = InvalidMessage
  <2>1. \A r \in DeserializeCSingleMessage(both, 0) : r = Parsed(InvalidMessage, 0 + 1)
    BY <1>3, <1>4, InvalidMessageReads
  <2> QED BY <1>1, <1>3, <2>1, ParsedIs
<1>5. CASE sm # InvalidMessage
  <2>1. DeserializeCSingleMessage(both, 0) = IF Fits(sm) THEN {Parsed(sm, 0 + Len(Serialize(sm)))} ELSE {}
    BY <1>3, <1>5, CSingleMessageReads
  <2>2. other = sm
    BY <1>3, <2>1, ParsedIs
  <2> QED BY <1>1, <2>2
<1> QED BY <1>4, <1>5

LEMMA PrefixIsAt ==
    ASSUME NEW s \in Bytes, NEW t \in Bytes, IsPrefix(s, t)
    PROVE  At(t, 0, s)
<1>1. Len(s) \in Nat /\ Len(t) \in Nat /\ Len(s) <= Len(t) /\ SubSeq(s, 1, Len(s)) = SubSeq(t, 1, Len(s))
  BY BytesLen DEF IsPrefix
<1>2. At(t, 0, SubSeq(t, 0 + 1, 0 + Len(s)))
  <2> DEFINE n == Len(s)
  <2>1. n \in Nat /\ 0 \in Nat /\ 0 + n <= Len(t)
    BY <1>1
  <2> HIDE DEF n
  <2>2. At(t, 0, SubSeq(t, 0 + 1, 0 + n))
    BY <2>1, SubSeqIsAt
  <2> QED BY <2>2 DEF n
<1>3. SubSeq(s, 0 + 1, 0 + Len(s)) = s
  BY <1>1, AtItself, AtSubSeq
<1>4. 0 + 1 = 1 /\ 0 + Len(s) = Len(s)
  BY <1>1
<1>5. SubSeq(t, 0 + 1, 0 + Len(s)) = s
  BY <1>1, <1>3, <1>4
<1> QED BY <1>1, <1>2, <1>5

\* The encoding of a message that can be sent is not the beginning of the
\* encoding of another one, nor the same (marshal_v.rs 66-85,
\* lemma_serialization_is_not_a_prefix_of and lemma_serialize_injective).
THEOREM NotAPrefix ==
    ASSUME NEW sm, IsCSingleMessage(sm), IsMarshalable(sm),
           NEW other, IsCSingleMessage(other), IsMarshalable(other),
           IsPrefix(Serialize(sm), Serialize(other))
    PROVE  sm = other
<1> DEFINE data == Serialize(other)
<1>1. Len(Serialize(sm)) <= UsizeMax /\ Len(data) <= UsizeMax
  BY DEF IsMarshalable
<1>2. Fits(sm) /\ Fits(other) /\ Serialize(sm) \in Bytes /\ data \in Bytes
  BY <1>1, Marshalable, SerializeBytesIs
<1>3. Buffer(data) /\ At(data, 0, Serialize(other))
  BY <1>1, <1>2, AtItself DEF Buffer
<1>4. At(data, 0, Serialize(sm))
  BY <1>2, PrefixIsAt
<1>5. CASE sm # InvalidMessage /\ other # InvalidMessage
  <2>1. DeserializeCSingleMessage(data, 0) = {Parsed(sm, 0 + Len(Serialize(sm)))}
    BY <1>2, <1>3, <1>4, <1>5, CSingleMessageReads
  <2>2. DeserializeCSingleMessage(data, 0) = {Parsed(other, 0 + Len(Serialize(other)))}
    BY <1>2, <1>3, <1>5, CSingleMessageReads
  <2> QED BY <2>1, <2>2, ParsedIs
<1>6. CASE sm = InvalidMessage /\ other # InvalidMessage
  <2>1. DeserializeCSingleMessage(data, 0) = {Parsed(other, 0 + Len(Serialize(other)))}
    BY <1>2, <1>3, <1>6, CSingleMessageReads
  <2>2. \A r \in DeserializeCSingleMessage(data, 0) : r = Parsed(InvalidMessage, 0 + 1)
    BY <1>3, <1>4, <1>6, InvalidMessageReads
  <2> QED BY <1>6, <2>1, <2>2, ParsedIs
<1>7. CASE sm # InvalidMessage /\ other = InvalidMessage
  <2>1. DeserializeCSingleMessage(data, 0) = {Parsed(sm, 0 + Len(Serialize(sm)))}
    BY <1>2, <1>3, <1>4, <1>7, CSingleMessageReads
  <2>2. \A r \in DeserializeCSingleMessage(data, 0) : r = Parsed(InvalidMessage, 0 + 1)
    BY <1>3, <1>7, InvalidMessageReads
  <2> QED BY <1>7, <2>1, <2>2, ParsedIs
<1> QED BY <1>5, <1>6, <1>7

-----------------------------------------------------------------------------
(***************************************************************************)
(* The client: its ints, its encoders and its parser.                      *)
(***************************************************************************)
LEMMA WeightGrows == \A i, j \in 0 .. WordSize : i <= j => Weight[i] <= Weight[j]
<1> SUFFICES ASSUME NEW i \in 0 .. WordSize PROVE \A j \in 0 .. WordSize : i <= j => Weight[i] <= Weight[j]
  OBVIOUS
<1> DEFINE m == WordSize - i
           T == {d \in 0 .. m : Weight[i] <= Weight[i + d]}
<1>1. m \in Nat /\ WordSize \in Nat /\ Base \in Nat /\ Base > 5
  BY Limits
<1>2. 0 \in T
  <2>1. i + 0 = i /\ Weight[i] \in Nat
    BY <1>1, WeightIs
  <2> QED BY <1>1, <2>1
<1>3. ASSUME NEW d \in 0 .. m - 1, d \in T PROVE d + 1 \in T
  <2>1. i + (d + 1) \in 1 .. WordSize /\ (i + (d + 1)) - 1 = i + d /\ i + d \in 0 .. WordSize /\ d + 1 \in 0 .. m
    BY <1>1
  <2>2. Weight[i + (d + 1)] = Base * Weight[i + d] /\ Weight[i + d] \in Nat /\ Weight[i] \in Nat
    BY <2>1, WeightIs
  <2>3. Weight[i] <= Weight[i + d]
    BY <1>3
  <2> DEFINE v == Weight[i]
             w == Weight[i + d]
             x == Weight[i + (d + 1)]
  <2>4. v \in Nat /\ w \in Nat /\ x = Base * w /\ v <= w
    BY <2>2, <2>3
  <2> HIDE DEF v, w, x
  <2>5. v <= x
    BY <1>1, <2>4
  <2> QED BY <2>1, <2>5 DEF v, x
<1>4. \A d \in 0 .. m : d \in T
  <2> HIDE DEF T
  <2> QED BY <1>1, <1>2, <1>3, Induction, Zenon
<1>5. ASSUME NEW j \in 0 .. WordSize, i <= j PROVE Weight[i] <= Weight[j]
  <2>1. j - i \in 0 .. m /\ i + (j - i) = j
    BY <1>1, <1>5
  <2> QED BY <1>4, <2>1
<1> QED BY <1>5

\* What an int can tell is left alone, and a usize can tell it, too.
LEMMA Ints ==
    /\ IntMax \in Int /\ IntMax <= UsizeMax
    /\ \A n \in 0 .. IntMax : ToInt(n) = n /\ n \in U64
<1>1. IntSize \in 0 .. WordSize /\ WordSize \in 0 .. WordSize /\ IntSize <= WordSize
  BY IntAssumption, Limits
<1> DEFINE w == Weight[IntSize]
<1>2. w \in Nat \ {0} /\ w <= Weight[WordSize] /\ Weight[WordSize] = UsizeMax + 1 /\ UsizeMax \in Nat
  BY <1>1, WeightIs, WeightGrows, Limits
<1>3. IntMax = (w \div 2) - 1
  BY DEF IntMax
<1> HIDE DEF w
<1>4. w \div 2 \in Nat /\ w \div 2 <= w
  BY <1>2
<1>5. IntMax \in Int /\ IntMax < w /\ IntMax <= UsizeMax
  BY <1>2, <1>3, <1>4
<1>6. ASSUME NEW n \in 0 .. IntMax PROVE ToInt(n) = n /\ n \in U64
  <2>1. n \in Nat /\ n < w /\ n <= UsizeMax /\ n <= IntMax
    BY <1>2, <1>5
  <2>2. n % w = n
    BY <1>2, <2>1
  <2>3. ToInt(n) = LET low == n % w IN IF low <= IntMax THEN low ELSE low - w
    BY DEF ToInt, w
  <2> QED BY <2>1, <2>2, <2>3 DEF U64
<1> QED BY <1>5, <1>6

\* A number is read where it stands.
LEMMA LE64AtIs ==
    ASSUME NEW data, Buffer(data), NEW start \in Nat, NEW n \in U64, At(data, start, SerializeU64(n))
    PROVE  LE64At(data, start) = n /\ start + WordSize <= Len(data)
<1>1. SerializeU64(n) \in Bytes /\ Len(SerializeU64(n)) = WordSize
  BY U64Bytes
<1>2. SubSeq(data, start + 1, start + WordSize) = SerializeU64(n)
  BY <1>1, AtSubSeq, BufferLen
<1> QED BY <1>1, <1>2, FromLeBytesSerialize, AtWithin DEF LE64At

LEMMA EncodesAsSerialize ==
    /\ \A n : EncodeUlong(n) = SerializeU64(n)
    /\ \A b : EncodeBytes(b) = SerializeBytes(b)
  BY DEF EncodeUlong, SerializeU64, EncodeBytes, SerializeBytes

LEMMA HeaderIs ==
    ASSUME NEW sm, IsCSingleMessage(sm), sm.type = "Message"
    PROVE  /\ EncodeHeader(sm) \in Bytes
           /\ IsCMessage(sm.m)
           /\ Serialize(sm) = EncodeHeader(sm) \o SerializeCMessage(sm.m)
<1>1. sm.seqno \in U64 /\ sm.dst \in Bytes /\ IsCMessage(sm.m)
  BY CSingleMessageCases DEF Ack, InvalidMessage
<1>2. EncodeHeader(sm) = (<<0>> \o SerializeU64(sm.seqno)) \o SerializeBytes(sm.dst)
  BY EncodesAsSerialize DEF EncodeHeader
<1>3. Serialize(sm) = ((<<0>> \o SerializeU64(sm.seqno)) \o SerializeBytes(sm.dst)) \o SerializeCMessage(sm.m)
  BY Zenon DEF Serialize
<1> DEFINE s == SerializeU64(sm.seqno)
           t == SerializeBytes(sm.dst)
<1>4. s \in Bytes /\ t \in Bytes /\ <<0>> \in Bytes
  <2>1. s \in Bytes
    BY <1>1, U64Bytes
  <2>2. t \in Bytes
    BY <1>1, BytesBytes
  <2> QED BY <2>1, <2>2, Tags
<1> HIDE DEF s, t
<1>5. <<0>> \o s \in Bytes
  BY <1>4, ConcatIs
<1>6. (<<0>> \o s) \o t \in Bytes
  BY <1>4, <1>5, ConcatIs
<1> QED BY <1>1, <1>2, <1>3, <1>6 DEF s, t

LEMMA EncodeGetRequestIs ==
    ASSUME NEW sm, IsCSingleMessage(sm), sm.type = "Message", sm.m.type = "GetRequest"
    PROVE  EncodeGetRequest(sm) = Serialize(sm)
<1> DEFINE h == EncodeHeader(sm)
           k == SerializeU64(sm.m.k)
<1>1. EncodeGetRequest(sm) = (h \o <<0>>) \o k
  BY EncodesAsSerialize DEF EncodeGetRequest
<1>2. Serialize(sm) = h \o (<<0>> \o k)
  <2>1. SerializeCMessage(sm.m) = <<0>> \o k
    BY Zenon DEF SerializeCMessage
  <2> QED BY <2>1, HeaderIs
<1>3. h \in Bytes /\ <<0>> \in Bytes /\ k \in Bytes
  <2>1. IsCMessage(sm.m) /\ h \in Bytes
    BY HeaderIs
  <2>2. sm.m.k \in U64
    BY <2>1, CMessageCases DEF SetRequest, Reply, Redirect, Shard, Delegate
  <2>3. k \in Bytes
    BY <2>2, U64Bytes
  <2> QED BY <2>1, <2>3, Tags
<1> HIDE DEF h, k
<1>4. (h \o <<0>>) \o k = h \o (<<0>> \o k)
  BY <1>3, ConcatAssociates
<1> QED BY <1>1, <1>2, <1>4

LEMMA EncodeSetRequestIs ==
    ASSUME NEW sm, IsCSingleMessage(sm), sm.type = "Message", sm.m.type = "SetRequest", Len(sm.m.v) = 1
    PROVE  EncodeSetRequest(sm) = Serialize(sm)
<1> DEFINE h == EncodeHeader(sm)
           k == SerializeU64(sm.m.k)
           v == SerializeBytes(sm.m.v[1])
<1>1. EncodeSetRequest(sm) = (((h \o <<1>>) \o k) \o <<1>>) \o v
  BY EncodesAsSerialize DEF EncodeSetRequest
<1>2. IsCMessage(sm.m) /\ h \in Bytes /\ Serialize(sm) = h \o SerializeCMessage(sm.m)
  BY HeaderIs
<1>3. sm.m.k \in U64 /\ sm.m.v \in Option(Bytes)
  BY <1>2, CMessageCases DEF GetRequest, Reply, Redirect, Shard, Delegate
<1>4. sm.m.v = <<sm.m.v[1]>> /\ sm.m.v[1] \in Bytes
  <2>1. Len(<<>>) = 0
    OBVIOUS
  <2> QED BY <1>3, <2>1, OptionIs
<1>5. SerializeOptionBytes(sm.m.v) = <<1>> \o v
  <2>1. SerializeOptionBytes(<<sm.m.v[1]>>) = <<1>> \o v
    BY SerializeOptionIs
  <2> QED BY <1>4, <2>1
<1>6. SerializeCMessage(sm.m) = (<<1>> \o k) \o (<<1>> \o v)
  <2>1. SerializeCMessage(sm.m) = (<<1>> \o k) \o SerializeOptionBytes(sm.m.v)
    BY Zenon DEF SerializeCMessage
  <2> QED BY <1>5, <2>1
<1>7. <<1>> \in Bytes /\ k \in Bytes /\ v \in Bytes
  <2>1. k \in Bytes
    BY <1>3, U64Bytes
  <2>2. v \in Bytes
    BY <1>4, BytesBytes
  <2> QED BY <2>1, <2>2, Tags
<1> DEFINE a == <<1>>
<1>8. a \in Bytes /\ Serialize(sm) = h \o ((a \o k) \o (a \o v)) /\ EncodeSetRequest(sm) = (((h \o a) \o k) \o a) \o v
  BY <1>1, <1>2, <1>6, <1>7
<1> HIDE DEF a, h, k, v
<1>9. (((h \o a) \o k) \o a) \o v = h \o (a \o (k \o (a \o v)))
  <2> DEFINE ha == h \o a
             hab == ha \o k
             cd == a \o v
             bcd == k \o cd
  <2>1. h \in Bytes /\ a \in Bytes /\ k \in Bytes /\ v \in Bytes
    BY <1>2, <1>7, <1>8
  <2>2. ha \in Bytes /\ cd \in Bytes
    BY <2>1, ConcatIs
  <2>3. hab \in Bytes /\ bcd \in Bytes
    <3> HIDE DEF ha, cd
    <3> QED BY <2>1, <2>2, ConcatIs
  <2>4. (hab \o a) \o v = hab \o cd
    <3>1. hab \in Bytes /\ a \in Bytes /\ v \in Bytes
      BY <2>1, <2>3
    <3> HIDE DEF hab
    <3> QED BY <3>1, ConcatAssociates
  <2>5. hab \o cd = ha \o bcd
    <3>1. ha \in Bytes /\ k \in Bytes /\ cd \in Bytes
      BY <2>1, <2>2
    <3> HIDE DEF ha, cd
    <3> QED BY <3>1, ConcatAssociates
  <2>6. ha \o bcd = h \o (a \o bcd)
    <3>1. h \in Bytes /\ a \in Bytes /\ bcd \in Bytes
      BY <2>1, <2>3
    <3> HIDE DEF bcd
    <3> QED BY <3>1, ConcatAssociates
  <2> HIDE DEF ha, hab, cd, bcd
  <2>7. ((hab \o a) \o v) = h \o (a \o bcd)
    BY <2>4, <2>5, <2>6
  <2> QED BY <2>7 DEF ha, hab, cd, bcd
<1>10. (a \o k) \o (a \o v) = a \o (k \o (a \o v))
  <2> DEFINE av == a \o v
  <2>1. av \in Bytes
    BY <1>7, <1>8, ConcatIs
  <2> HIDE DEF av
  <2>2. (a \o k) \o av = a \o (k \o av)
    BY <1>7, <1>8, <2>1, ConcatAssociates
  <2> QED BY <2>2 DEF av
<1> QED BY <1>8, <1>9, <1>10

LEMMA EncodeShardRequestIs ==
    ASSUME NEW sm, IsCSingleMessage(sm), sm.type = "Message", sm.m.type = "Shard",
           Len(sm.m.kr.lo) = 1, Len(sm.m.kr.hi) = 1
    PROVE  EncodeShardRequest(sm) = Serialize(sm)
<1> DEFINE h == EncodeHeader(sm)
           lo == SerializeU64(sm.m.kr.lo[1])
           hi == SerializeU64(sm.m.kr.hi[1])
           r == SerializeBytes(sm.m.recipient)
<1>1. EncodeShardRequest(sm) = (((((h \o <<4>>) \o <<1>>) \o lo) \o <<1>>) \o hi) \o r
  BY EncodesAsSerialize DEF EncodeShardRequest
<1>2. IsCMessage(sm.m) /\ h \in Bytes /\ Serialize(sm) = h \o SerializeCMessage(sm.m)
  BY HeaderIs
<1>3. sm.m.kr.lo \in Option(U64) /\ sm.m.kr.hi \in Option(U64) /\ sm.m.recipient \in Bytes
  <2>1. sm.m.kr \in KeyRanges /\ sm.m.recipient \in Bytes
    BY <1>2, CMessageCases DEF GetRequest, SetRequest, Reply, Redirect, Delegate
  <2> QED BY <2>1 DEF KeyRanges
<1>4. /\ sm.m.kr.lo = <<sm.m.kr.lo[1]>> /\ sm.m.kr.lo[1] \in U64
      /\ sm.m.kr.hi = <<sm.m.kr.hi[1]>> /\ sm.m.kr.hi[1] \in U64
  <2>1. Len(<<>>) = 0
    OBVIOUS
  <2> QED BY <1>3, <2>1, OptionIs
<1>5. SerializeOptionU64(sm.m.kr.lo) = <<1>> \o lo /\ SerializeOptionU64(sm.m.kr.hi) = <<1>> \o hi
  <2>1. SerializeOptionU64(<<sm.m.kr.lo[1]>>) = <<1>> \o lo /\ SerializeOptionU64(<<sm.m.kr.hi[1]>>) = <<1>> \o hi
    BY SerializeOptionIs
  <2> QED BY <1>4, <2>1
<1>6. SerializeCMessage(sm.m) = (<<4>> \o ((<<1>> \o lo) \o (<<1>> \o hi))) \o r
  <2>1. SerializeCMessage(sm.m) = (<<4>> \o SerializeKeyRange(sm.m.kr)) \o r
    BY Zenon DEF SerializeCMessage
  <2>2. SerializeKeyRange(sm.m.kr) = (<<1>> \o lo) \o (<<1>> \o hi)
    BY <1>5 DEF SerializeKeyRange
  <2> QED BY <2>1, <2>2
<1>7. <<1>> \in Bytes /\ <<4>> \in Bytes /\ lo \in Bytes /\ hi \in Bytes /\ r \in Bytes
  <2>1. lo \in Bytes /\ hi \in Bytes
    BY <1>4, U64Bytes
  <2>2. r \in Bytes
    BY <1>3, BytesBytes
  <2> QED BY <2>1, <2>2, Tags
<1> DEFINE a == <<1>>
           b == <<4>>
<1>8. /\ a \in Bytes /\ b \in Bytes
      /\ Serialize(sm) = h \o ((b \o ((a \o lo) \o (a \o hi))) \o r)
      /\ EncodeShardRequest(sm) = (((((h \o b) \o a) \o lo) \o a) \o hi) \o r
  BY <1>1, <1>2, <1>6, <1>7
<1> HIDE DEF a, b, h, lo, hi, r
<1> DEFINE hb == h \o b
           ends == (a \o lo) \o (a \o hi)
<1>9. hb \in Bytes /\ ends \in Bytes
  <2>1. a \o lo \in Bytes /\ a \o hi \in Bytes
    BY <1>7, <1>8, ConcatIs
  <2> QED BY <1>2, <1>8, <2>1, ConcatIs
<1>10. (((hb \o a) \o lo) \o a) \o hi = hb \o ends
  <2> HIDE DEF hb, ends
  <2>1. (((hb \o a) \o lo) \o a) \o hi = hb \o (a \o (lo \o (a \o hi)))
    <3> DEFINE ha == hb \o a
               hab == ha \o lo
               cd == a \o hi
               bcd == lo \o cd
    <3>1. hb \in Bytes /\ a \in Bytes /\ lo \in Bytes /\ hi \in Bytes
      BY <1>7, <1>8, <1>9
    <3>2. ha \in Bytes /\ cd \in Bytes
      BY <3>1, ConcatIs
    <3>3. hab \in Bytes /\ bcd \in Bytes
      <4> HIDE DEF ha, cd
      <4> QED BY <3>1, <3>2, ConcatIs
    <3>4. (hab \o a) \o hi = hab \o cd
      <4>1. hab \in Bytes /\ a \in Bytes /\ hi \in Bytes
        BY <3>1, <3>3
      <4> HIDE DEF hab
      <4> QED BY <4>1, ConcatAssociates
    <3>5. hab \o cd = ha \o bcd
      <4>1. ha \in Bytes /\ lo \in Bytes /\ cd \in Bytes
        BY <3>1, <3>2
      <4> HIDE DEF ha, cd
      <4> QED BY <4>1, ConcatAssociates
    <3>6. ha \o bcd = hb \o (a \o bcd)
      <4>1. hb \in Bytes /\ a \in Bytes /\ bcd \in Bytes
        BY <3>1, <3>3
      <4> HIDE DEF bcd
      <4> QED BY <4>1, ConcatAssociates
    <3> HIDE DEF ha, hab, cd, bcd
    <3>7. ((hab \o a) \o hi) = hb \o (a \o bcd)
      BY <3>4, <3>5, <3>6
    <3> QED BY <3>7 DEF ha, hab, cd, bcd
  <2>2. a \o (lo \o (a \o hi)) = ends
    <3> DEFINE ah == a \o hi
    <3>1. ah \in Bytes
      BY <1>7, <1>8, ConcatIs
    <3> HIDE DEF ah
    <3>2. (a \o lo) \o ah = a \o (lo \o ah)
      <4>1. a \in Bytes /\ lo \in Bytes
        BY <1>7, <1>8
      <4> QED BY <3>1, <4>1, ConcatAssociates
    <3> QED BY <3>2 DEF ah, ends
  <2> QED BY <2>1, <2>2
<1>11. EncodeShardRequest(sm) = (hb \o ends) \o r
  BY <1>8, <1>10
<1>12. (hb \o ends) \o r = h \o ((b \o ends) \o r)
  <2> HIDE DEF ends
  <2>1. hb \o ends = h \o (b \o ends)
    BY <1>2, <1>8, <1>9, ConcatAssociates
  <2> DEFINE be == b \o ends
  <2>2. be \in Bytes
    BY <1>8, <1>9, ConcatIs
  <2> HIDE DEF be
  <2>3. (h \o be) \o r = h \o (be \o r)
    BY <1>2, <1>7, <2>2, ConcatAssociates, ZenonT(40)
  <2> QED BY <2>1, <2>3 DEF be
<1> QED BY <1>8, <1>11, <1>12

LEMMA EncodeIs ==
    ASSUME NEW sm, IsClientMessage(sm)
    PROVE  Encode(sm) = Serialize(sm)
<1>1. CASE sm.type = "Ack"
  <2>1. Encode(sm) = <<1>> \o EncodeUlong(sm.ack_seqno)
    BY <1>1, Zenon DEF Encode, EncodeAck
  <2>2. Serialize(sm) = <<1>> \o SerializeU64(sm.ack_seqno)
    BY <1>1, Zenon DEF Serialize
  <2> QED BY <2>1, <2>2, EncodesAsSerialize
<1>2. CASE sm.type = "Message" /\ sm.m.type = "GetRequest"
  <2>1. Encode(sm) = EncodeGetRequest(sm)
    BY <1>2, Zenon DEF Encode
  <2> QED BY <1>2, <2>1, EncodeGetRequestIs DEF IsClientMessage
<1>3. CASE sm.type = "Message" /\ sm.m.type = "SetRequest"
  <2>1. Encode(sm) = EncodeSetRequest(sm)
    BY <1>3, Zenon DEF Encode
  <2> QED BY <1>3, <2>1, EncodeSetRequestIs DEF IsClientMessage
<1>4. CASE sm.type = "Message" /\ sm.m.type = "Shard"
  <2>1. Encode(sm) = EncodeShardRequest(sm)
    BY <1>4, Zenon DEF Encode
  <2> QED BY <1>4, <2>1, EncodeShardRequestIs DEF IsClientMessage
<1> QED BY <1>1, <1>2, <1>3, <1>4 DEF IsClientMessage

\* Whatever a host would take for an acknowledgement, a reply or a redirect.
LEMMA ClientReadsAck ==
    ASSUME NEW data, Buffer(data), Len(data) <= IntMax, NEW n \in U64, data = Serialize(Ack(n))
    PROVE  ParseMessageFromBytes(data) = Ack(n)
<1> DEFINE s == SerializeU64(n)
<1>1. data = <<1>> \o s /\ s \in Bytes /\ Len(s) = WordSize /\ WordSize \in Nat
  BY SerializeIs, U64Bytes, Limits
<1>2. At(data, 0, <<1>> \o s) /\ Len(data) = 1 + WordSize /\ Len(data) \in Nat
  BY <1>1, AtItself, AtTagged, BufferLen
<1>3. data[1] = 1 /\ At(data, 1, s)
  <2>1. data[0 + 1] = 1 /\ At(data, 0 + 1, s)
    BY <1>1, <1>2, AtTagged
  <2> QED BY <2>1
<1>4. HasBytes(data, 0, 1 + WordSize)
  <2>1. 0 + (1 + WordSize) \in 0 .. IntMax
    BY <1>1, <1>2
  <2>2. ToInt(0 + (1 + WordSize)) = 0 + (1 + WordSize)
    BY <2>1, Ints
  <2> QED BY <1>1, <1>2, <2>2 DEF HasBytes
<1>5. LE64At(data, 1) = n
  BY <1>3, LE64AtIs
<1>6. ParseMessageFromBytes(data) = Ack(LE64At(data, 1))
  <2>1. data[1] # 0
    BY <1>3
  <2> QED BY <1>3, <1>4, <2>1, Zenon DEF ParseMessageFromBytes
<1> QED BY <1>5, <1>6

LEMMA ClientReadsKey ==
    ASSUME NEW data, Buffer(data), Len(data) <= IntMax, NEW start \in Nat, NEW tag \in {2, 3}, NEW k \in U64,
           NEW rest \in Bytes, At(data, start, <<tag>> \o (SerializeU64(k) \o rest)), NEW seqno
    PROVE  ParseCMessage(data, start, seqno) =
                [type |-> IF tag = 2 THEN "Reply" ELSE "Redirect", seqno |-> seqno, k |-> k]
<1> DEFINE s == SerializeU64(k)
           v == s \o rest
<1>1. s \in Bytes /\ Len(s) = WordSize /\ WordSize \in Nat
  BY U64Bytes, Limits
<1>2. v \in Bytes /\ At(data, start, <<tag>> \o v)
  BY <1>1, ConcatIs
<1>3. start < Len(data) /\ data[start + 1] = tag /\ At(data, start + 1, v) /\ Len(data) \in Nat
  <2>1. tag \in 0 .. 5
    OBVIOUS
  <2> HIDE DEF v
  <2> QED BY <1>2, <2>1, AtTagged, BufferLen
<1>4. At(data, start + 1, s)
  <2>1. start + 1 \in Nat
    OBVIOUS
  <2> HIDE DEF s
  <2> QED BY <1>1, <1>3, <2>1, AtBoth
<1>5. LE64At(data, start + 1) = k /\ (start + 1) + WordSize <= Len(data)
  BY <1>4, LE64AtIs
<1>6. HasBytes(data, start, 1) /\ HasBytes(data, start + 1, WordSize)
  <2>1. start + 1 \in 0 .. IntMax /\ (start + 1) + WordSize \in 0 .. IntMax
    BY <1>1, <1>3, <1>5, Ints
  <2>2. ToInt(start + 1) = start + 1 /\ ToInt((start + 1) + WordSize) = (start + 1) + WordSize
    BY <2>1, Ints
  <2> QED BY <1>3, <1>5, <2>2 DEF HasBytes
<1>7. KeyAt(data, start + 1) = k
  BY <1>5, <1>6 DEF KeyAt
<1>8. ~(start < 0)
  OBVIOUS
<1>9. CASE tag = 2
  <2>1. data[start + 1] = 2 /\ data[start + 1] # 3
    BY <1>3, <1>9
  <2>2. ParseCMessage(data, start, seqno) = [type |-> "Reply", seqno |-> seqno, k |-> KeyAt(data, start + 1)]
    BY <1>6, <1>8, <2>1, Zenon DEF ParseCMessage
  <2> QED BY <1>7, <1>9, <2>2
<1>10. CASE tag = 3
  <2>1. data[start + 1] = 3 /\ data[start + 1] # 2
    BY <1>3, <1>10
  <2>2. ParseCMessage(data, start, seqno) = [type |-> "Redirect", seqno |-> seqno, k |-> KeyAt(data, start + 1)]
    BY <1>6, <1>8, <2>1, Zenon DEF ParseCMessage
  <2> QED BY <1>7, <1>10, <2>2
<1> QED BY <1>9, <1>10

\* The parser of the client skips the address.
LEMMA ClientSkipsAddress ==
    ASSUME NEW data, Buffer(data), Len(data) <= IntMax, NEW n \in U64, NEW d \in Bytes, NEW u \in Bytes,
           u # <<>>, data = << 0 >> \o (SerializeU64(n) \o (SerializeBytes(d) \o u))
    PROVE  \E start \in Nat : /\ At(data, start, u)
                              /\ ParseMessageFromBytes(data) = ParseCMessage(data, start, n)
<1> DEFINE s == SerializeU64(n)
           l == SerializeU64(Len(d))
           t == SerializeBytes(d)
           e1 == 1 + WordSize
           e2 == e1 + WordSize
           e3 == e2 + Len(d)
<1>1. /\ s \in Bytes /\ Len(s) = WordSize /\ WordSize \in Nat /\ Len(d) \in Nat
      /\ l \in Bytes /\ Len(l) = WordSize /\ t = l \o d /\ t \in Bytes /\ Len(t) = WordSize + Len(d)
  BY U64Bytes, Limits, BytesLen, BytesBytes DEF SerializeBytes
<1>2. data[1] = 0 /\ At(data, 1, s \o (t \o u))
  <2> DEFINE v == s \o (t \o u)
  <2>1. v \in Bytes /\ data = <<0>> \o v
    <3>1. t \o u \in Bytes
      BY <1>1, ConcatIs
    <3> QED BY <1>1, <3>1, ConcatIs
  <2> HIDE DEF v
  <2>2. At(data, 0, <<0>> \o v)
    BY <2>1, AtItself, BufferLen
  <2>3. data[0 + 1] = 0 /\ At(data, 0 + 1, v)
    BY <2>1, <2>2, AtTagged
  <2> QED BY <2>3 DEF v
<1>3. At(data, 1, s) /\ At(data, e1, t \o u)
  <2> DEFINE v == t \o u
  <2>1. v \in Bytes /\ At(data, 1, s \o v)
    BY <1>1, <1>2, ConcatIs
  <2> HIDE DEF v, s
  <2>2. At(data, 1, s) /\ At(data, 1 + Len(s), v)
    BY <1>1, <2>1, AtBoth
  <2> QED BY <1>1, <2>2 DEF v
<1> HIDE DEF s
<1>4. At(data, e1, t) /\ At(data, e3, u) /\ e1 \in Nat
  <2>1. e1 \in Nat /\ e1 + Len(t) = e3
    BY <1>1
  <2> HIDE DEF t, e1, e3
  <2>2. At(data, e1, t) /\ At(data, e1 + Len(t), u)
    BY <1>1, <1>3, <2>1, AtBoth
  <2> QED BY <2>1, <2>2
<1>5. At(data, e1, l)
  <2> HIDE DEF l, e1, t
  <2>1. At(data, e1, l \o d)
    BY <1>1, <1>4
  <2> QED BY <1>1, <1>4, <2>1, AtBoth
<1>6. e3 + Len(u) <= Len(data) /\ Len(data) \in Nat /\ Len(u) \in Nat \ {0} /\ e3 \in Nat
  <2>1. e3 \in Nat
    BY <1>1
  <2>2. Len(u) \in Nat \ {0}
    BY DEF Bytes
  <2> HIDE DEF e3
  <2> QED BY <1>4, <2>1, <2>2, AtWithin, BufferLen
<1>7. e1 \in 0 .. IntMax /\ e2 \in 0 .. IntMax /\ Len(d) \in 0 .. IntMax /\ e3 \in 0 .. IntMax
  <2>1. e1 <= e3 /\ e2 <= e3 /\ Len(d) <= e3 /\ e1 \in Nat /\ e2 \in Nat
    BY <1>1
  <2>2. e3 <= IntMax
    BY <1>6, Ints
  <2> HIDE DEF e1, e2, e3
  <2> QED BY <1>1, <1>6, <2>1, <2>2, Ints
<1>8. LE64At(data, 1) = n /\ LE64At(data, e1) = Len(d)
  <2>1. LE64At(data, 1) = n
    BY <1>3, LE64AtIs DEF s
  <2>2. Len(d) \in U64
    BY <1>7, Ints
  <2> HIDE DEF e1
  <2>3. LE64At(data, e1) = Len(d)
    BY <1>4, <1>5, <2>2, LE64AtIs
  <2> QED BY <2>1, <2>3
<1>9. HasBytes(data, 0, e1) /\ HasBytes(data, e1, WordSize)
  <2>1. ToInt(0 + e1) = e1 /\ ToInt(e1 + WordSize) = e2
    <3>1. ToInt(e1) = e1 /\ ToInt(e2) = e2 /\ 0 + e1 = e1
      BY <1>4, <1>7, Ints
    <3> QED BY <3>1
  <2>2. e1 <= Len(data) /\ e2 <= Len(data)
    BY <1>1, <1>6
  <2> HIDE DEF e1, e2
  <2> QED BY <2>1, <2>2 DEF HasBytes
<1>10. SkipAddress(data, e1) = e3
  <2>1. ToInt(LE64At(data, e1)) = Len(d)
    BY <1>7, <1>8, Ints
  <2>2. ToInt(e3) = e3
    BY <1>7, Ints
  <2> QED BY <2>1, <2>2 DEF SkipAddress
<1>11. ~(Len(data) < e3)
  <2> HIDE DEF e3
  <2> QED BY <1>6
<1>12. ParseMessageFromBytes(data) = ParseCMessage(data, e3, n)
  <2>1. ~(data[1] = 1)
    BY <1>2
  <2> DEFINE offset == SkipAddress(data, 1 + WordSize)
  <2>2. offset = e3
    BY <1>10
  <2>3. ParseMessageFromBytes(data) =
            IF Len(data) < offset THEN Null ELSE ParseCMessage(data, offset, LE64At(data, 1))
    BY <1>2, <1>9, <2>1, Zenon DEF ParseMessageFromBytes
  <2> HIDE DEF offset, e3
  <2> QED BY <1>8, <1>11, <2>2, <2>3
<1> HIDE DEF e3
<1> QED BY <1>4, <1>6, <1>12

-----------------------------------------------------------------------------
(***************************************************************************)
(* The invariant: what was meant is a message and what was sent is its     *)
(* encoding, and changes make it longer by one byte at most each, so that  *)
(* the client's ints and the host's usizes can tell every length.          *)
(***************************************************************************)
WireInv ==
    /\ IsCSingleMessage(sent)
    /\ original = Serialize(sent)
    /\ original \in Bytes /\ wire \in Bytes
    /\ changes \in 0 .. MaxChanges
    /\ Len(original) + MaxChanges <= IntMax
    /\ Len(wire) <= Len(original) + changes
    /\ changes = 0 => wire = original

LEMMA InitInv == Init => WireInv
<1> SUFFICES ASSUME Init PROVE WireInv
  OBVIOUS
<1>1. wire = original /\ changes = 0 /\ changes \in 0 .. MaxChanges
  BY ChangesAssumption DEF Init
<1>2. IsCSingleMessage(sent) /\ original = Serialize(sent) /\ Len(original) + MaxChanges <= IntMax
  <2>1. CASE sent \in HostMessages /\ original = Serialize(sent)
    BY <2>1, MessagesAssumption, BufferAssumption
  <2>2. CASE sent \in ClientMessages /\ original = Encode(sent)
    <3>1. IsClientMessage(sent) /\ Len(original) + MaxChanges <= IntMax
      BY <2>2, MessagesAssumption, BufferAssumption
    <3>2. original = Serialize(sent)
      BY <2>2, <3>1, EncodeIs
    <3> QED BY <3>1, <3>2 DEF IsClientMessage
  <2> QED BY <2>1, <2>2 DEF Init
<1>3. original \in Bytes /\ Len(original) \in Nat
  <2>1. original \in Bytes
    BY <1>2, SerializeBytesIs
  <2> QED BY <2>1, BytesLen
<1>4. Len(wire) <= Len(original) + changes
  <2> DEFINE n == Len(original)
  <2>1. n \in Nat /\ Len(wire) = n
    BY <1>1, <1>3
  <2> HIDE DEF n
  <2>2. n <= n + changes
    BY <1>1, <2>1
  <2> QED BY <2>1, <2>2 DEF n
<1> QED BY <1>1, <1>2, <1>3, <1>4 DEF WireInv

\* A change keeps it if the bytes become longer by one at most.
LEMMA ChangeKeepsInv ==
    ASSUME WireInv, NEW bytes \in Bytes, Len(bytes) <= Len(wire) + 1, Change(bytes)
    PROVE  WireInv'
<1>1. /\ wire' = bytes /\ changes' = changes + 1 /\ changes < MaxChanges
      /\ sent' = sent /\ original' = original
  BY DEF Change
<1>2. changes' \in 0 .. MaxChanges /\ changes' # 0 /\ changes \in Nat
  BY <1>1, ChangesAssumption DEF WireInv
<1>3. Len(wire') <= Len(original') + changes'
  <2>1. Len(bytes) \in Nat /\ Len(wire) \in Nat /\ Len(original) \in Nat /\ Len(wire) <= Len(original) + changes
    BY BytesLen DEF WireInv
  <2> DEFINE a == Len(bytes)
             b == Len(wire)
             c == Len(original)
  <2>2. a \in Nat /\ b \in Nat /\ c \in Nat /\ b <= c + changes /\ a <= b + 1
    BY <2>1
  <2> HIDE DEF a, b, c
  <2>3. a <= c + (changes + 1)
    BY <1>2, <2>2
  <2> QED BY <1>1, <2>3 DEF a, c
<1> QED BY <1>1, <1>2, <1>3 DEF WireInv

LEMMA NextInv == WireInv /\ [Next]_vars => WireInv'
<1> SUFFICES ASSUME WireInv, [Next]_vars PROVE WireInv'
  OBVIOUS
<1>1. wire \in Bytes /\ Len(wire) \in Nat
  BY BytesLen DEF WireInv
<1>2. CASE Truncate
  <2>1. PICK n \in 0 .. Len(wire) - 1 : Change(SubSeq(wire, 1, n))
    BY <1>2 DEF Truncate
  <2>2. SubSeq(wire, 0 + 1, 0 + n) \in Bytes /\ Len(SubSeq(wire, 0 + 1, 0 + n)) = n
    <3>1. n \in Nat /\ 0 + n <= Len(wire)
      BY <1>1
    <3> QED BY <1>1, <3>1, SubSeqIsAt, ZenonT(40)
  <2>3. SubSeq(wire, 1, n) \in Bytes /\ Len(SubSeq(wire, 1, n)) <= Len(wire) + 1
    BY <1>1, <2>2
  <2> QED BY <2>1, <2>3, ChangeKeepsInv
<1>3. CASE Replace
  <2>1. PICK i \in DOMAIN wire : \E b \in Byte : Change([wire EXCEPT ![i] = b])
    BY <1>3 DEF Replace
  <2>2. PICK b \in Byte : Change([wire EXCEPT ![i] = b])
    BY <2>1
  <2>3. [wire EXCEPT ![i] = b] \in Bytes /\ Len([wire EXCEPT ![i] = b]) <= Len(wire) + 1
    BY <1>1 DEF Bytes
  <2> QED BY <2>2, <2>3, ChangeKeepsInv
<1>4. CASE Extend
  <2>1. PICK b \in Byte : Change(Append(wire, b))
    BY <1>4 DEF Extend
  <2>2. Append(wire, b) \in Bytes /\ Len(Append(wire, b)) <= Len(wire) + 1
    BY <1>1 DEF Bytes
  <2> QED BY <2>1, <2>2, ChangeKeepsInv
<1>5. CASE UNCHANGED vars
  BY <1>5 DEF vars, WireInv
<1> QED BY <1>2, <1>3, <1>4, <1>5 DEF Next

\* What was sent is the encoding of what was meant, whoever sent it, and no
\* change makes it longer than the lengths both sides compute with.
THEOREM Invariance == Spec => []WireInv
<1> QED BY InitInv, NextInv, PTL DEF Spec

LEMMA Buffers ==
    ASSUME WireInv
    PROVE  /\ Buffer(wire) /\ Len(wire) <= IntMax
           /\ Buffer(original)
<1>1. Len(wire) \in Nat /\ Len(original) \in Nat /\ changes \in 0 .. MaxChanges /\ MaxChanges \in Nat
  BY BytesLen, ChangesAssumption DEF WireInv
<1> DEFINE a == Len(wire)
           b == Len(original)
<1>2. a <= b + changes /\ b + MaxChanges <= IntMax /\ a \in Nat /\ b \in Nat
  BY <1>1 DEF WireInv
<1> HIDE DEF a, b
<1>3. a <= IntMax /\ b <= IntMax /\ a <= UsizeMax /\ b <= UsizeMax
  BY <1>1, <1>2, Ints, Limits
<1> QED BY <1>3 DEF a, b, Buffer, WireInv

-----------------------------------------------------------------------------
(***************************************************************************)
(* The properties of the wire.                                             *)
(***************************************************************************)
LEMMA InvImpliesHostsUnderstand == WireInv => HostsUnderstand
<1> SUFFICES ASSUME WireInv, changes = 0
             PROVE  ShtDemarshallData(wire) =
                        IF IsMarshalable(sent) /\ AddressesValid(sent) THEN sent ELSE InvalidMessage
  BY DEF HostsUnderstand
<1>1. IsCSingleMessage(sent) /\ wire = Serialize(sent) /\ Buffer(wire)
  BY Buffers DEF WireInv
<1>2. ShtDemarshallData(wire) = IF Fits(sent) /\ AddressesValid(sent) THEN sent ELSE InvalidMessage
  BY <1>1, Understood
<1>3. IsMarshalable(sent) <=> Fits(sent)
  <2>1. Len(Serialize(sent)) <= UsizeMax
    BY <1>1 DEF Buffer
  <2> QED BY <1>1, <2>1, Marshalable
<1> QED BY <1>2, <1>3

\* HostsUnderstand: a host parses what a host or a client encodes back to the
\* message that was meant, or rejects it if it is beyond the limits, for any
\* messages, tables, keys and values (marshal_v.rs, Client.cs).
THEOREM HostsUnderstandAlways == Spec => []HostsUnderstand
<1> QED BY Invariance, InvImpliesHostsUnderstand, PTL

LEMMA InvImpliesParsesExactly == WireInv => ParsesExactly
<1> SUFFICES ASSUME WireInv, ShtDemarshallData(wire) # InvalidMessage
             PROVE  /\ IsMarshalable(ShtDemarshallData(wire)) /\ AddressesValid(ShtDemarshallData(wire))
                    /\ Serialize(ShtDemarshallData(wire)) = wire
  BY DEF ParsesExactly
<1> DEFINE sm == ShtDemarshallData(wire)
<1>1. Buffer(wire)
  BY Buffers
<1>2. IsCSingleMessage(sm) /\ Fits(sm) /\ AddressesValid(sm) /\ Serialize(sm) = wire
  BY <1>1, Demarshalled
<1> HIDE DEF sm
<1>3. Len(Serialize(sm)) <= UsizeMax
  BY <1>1, <1>2 DEF Buffer
<1>4. IsMarshalable(sm)
  BY <1>2, <1>3, Marshalable
<1> QED BY <1>2, <1>4 DEF sm

\* ParsesExactly: whatever bytes arrive, what a host takes for a message is
\* encoded by exactly these bytes and could be sent on (the contract of
\* sht_demarshall_data_method, net_sht_v.rs 130-135).
THEOREM ParsesExactlyAlways == Spec => []ParsesExactly
<1> QED BY Invariance, InvImpliesParsesExactly, PTL

LEMMA InvImpliesPartsAreRejected == WireInv => PartsAreRejected
<1> SUFFICES ASSUME WireInv, IsStrictPrefix(wire, original) \/ IsStrictPrefix(original, wire)
             PROVE  ShtDemarshallData(wire) = InvalidMessage
  BY DEF PartsAreRejected
<1>1. IsCSingleMessage(sent) /\ original = Serialize(sent) /\ Buffer(original) /\ Buffer(wire)
  BY Buffers DEF WireInv
<1>2. (At(wire, 0, original) \/ At(original, 0, wire)) /\ wire # original
  BY PrefixIsAt DEF WireInv, IsStrictPrefix
<1> QED BY <1>1, <1>2, PartRejected

\* PartsAreRejected: no encoding is the beginning of another one, so that a
\* message cut short, or with bytes behind it, is never taken for a message
\* (marshal_v.rs 66-85, what the trait of the encodings promises).
THEOREM PartsAreRejectedAlways == Spec => []PartsAreRejected
<1> QED BY Invariance, InvImpliesPartsAreRejected, PTL

LEMMA InvImpliesClientsUnderstand == WireInv => ClientsUnderstand
<1> SUFFICES ASSUME WireInv PROVE ClientsUnderstand
  OBVIOUS
<1> DEFINE sm == ShtDemarshallData(wire)
<1>1. Buffer(wire) /\ Len(wire) <= IntMax
  BY Buffers
<1>2. sm # InvalidMessage => IsCSingleMessage(sm) /\ Serialize(sm) = wire
  BY <1>1, Demarshalled
<1> HIDE DEF sm
<1>3. ASSUME sm.type = "Ack" PROVE ParseMessageFromBytes(wire) = sm
  <2>1. IsCSingleMessage(sm) /\ Serialize(sm) = wire
    BY <1>2, <1>3 DEF InvalidMessage
  <2>2. sm = Ack(sm.ack_seqno) /\ sm.ack_seqno \in U64
    BY <1>3, <2>1, CSingleMessageCases DEF InvalidMessage
  <2>3. wire = Serialize(Ack(sm.ack_seqno))
    BY <2>1, <2>2
  <2>4. ParseMessageFromBytes(wire) = Ack(sm.ack_seqno)
    BY <1>1, <2>2, <2>3, ClientReadsAck
  <2> QED BY <2>2, <2>4
<1>4. ASSUME sm.type = "Message", sm.m.type \in {"Reply", "Redirect"}
      PROVE  ParseMessageFromBytes(wire) = [type |-> sm.m.type, seqno |-> sm.seqno, k |-> sm.m.k]
  <2>1. IsCSingleMessage(sm) /\ Serialize(sm) = wire
    BY <1>2, <1>4 DEF InvalidMessage
  <2>2. /\ sm = Message(sm.seqno, sm.dst, sm.m)
        /\ sm.seqno \in U64 /\ sm.dst \in Bytes /\ IsCMessage(sm.m)
    BY <1>4, <2>1, CSingleMessageCases DEF InvalidMessage
  <2> DEFINE u == SerializeCMessage(sm.m)
             n == SerializeU64(sm.seqno)
             d == SerializeBytes(sm.dst)
  <2>3. wire = <<0>> \o (n \o (d \o u))
    BY <2>1, <2>2, SerializeIs
  <2>4. PICK rest \in Bytes : \E tag \in {2, 3} :
            /\ u = <<tag>> \o (SerializeU64(sm.m.k) \o rest)
            /\ sm.m.type = IF tag = 2 THEN "Reply" ELSE "Redirect"
            /\ sm.m.k \in U64
    <3>1. CASE sm.m.type = "Reply"
      <4>1. sm.m = Reply(sm.m.k, sm.m.v) /\ sm.m.k \in U64 /\ sm.m.v \in Option(Bytes)
        BY <2>2, <3>1, CMessageCases DEF GetRequest, SetRequest, Redirect, Shard, Delegate
      <4>2. u = <<2>> \o (SerializeU64(sm.m.k) \o SerializeOptionBytes(sm.m.v))
        BY <4>1, SerializeCMessageIs
      <4>3. SerializeOptionBytes(sm.m.v) \in Bytes
        BY <4>1, OptionBytesBytes
      <4> HIDE DEF u
      <4> QED BY <3>1, <4>1, <4>2, <4>3
    <3>2. CASE sm.m.type = "Redirect"
      <4>1. sm.m = Redirect(sm.m.k, sm.m.id) /\ sm.m.k \in U64 /\ sm.m.id \in Bytes
        BY <2>2, <3>2, CMessageCases DEF GetRequest, SetRequest, Reply, Shard, Delegate
      <4>2. u = <<3>> \o (SerializeU64(sm.m.k) \o SerializeBytes(sm.m.id))
        BY <4>1, SerializeCMessageIs
      <4>3. SerializeBytes(sm.m.id) \in Bytes
        BY <4>1, BytesBytes
      <4> HIDE DEF u
      <4> QED BY <3>2, <4>1, <4>2, <4>3
    <3> QED BY <1>4, <3>1, <3>2
  <2>5. PICK tag \in {2, 3} :
            /\ u = <<tag>> \o (SerializeU64(sm.m.k) \o rest)
            /\ sm.m.type = IF tag = 2 THEN "Reply" ELSE "Redirect"
            /\ sm.m.k \in U64
    BY <2>4
  <2>6. u \in Bytes
    BY <2>2, CMessageBytes
  <2>7. u # <<>>
    <3> DEFINE v == SerializeU64(sm.m.k) \o rest
    <3>1. v \in Bytes
      BY <2>5, U64Bytes, ConcatIs
    <3>2. Len(<<tag>> \o v) = 1 + Len(v) /\ Len(v) \in Nat
      <4>1. tag \in 0 .. 5
        OBVIOUS
      <4> HIDE DEF v
      <4> QED BY <1>1, <3>1, <4>1, AtTagged, BytesLen
    <3>3. Len(u) # 0
      <4>1. u = <<tag>> \o v
        BY <2>5
      <4> HIDE DEF u, v
      <4> QED BY <3>2, <4>1
    <3>4. Len(<<>>) = 0
      OBVIOUS
    <3> QED BY <3>3, <3>4
  <2> HIDE DEF u
  <2>8. PICK start \in Nat : At(wire, start, u) /\ ParseMessageFromBytes(wire) = ParseCMessage(wire, start, sm.seqno)
    BY <1>1, <2>2, <2>3, <2>6, <2>7, ClientSkipsAddress
  <2>9. ParseCMessage(wire, start, sm.seqno) =
            [type |-> IF tag = 2 THEN "Reply" ELSE "Redirect", seqno |-> sm.seqno, k |-> sm.m.k]
    <3>1. At(wire, start, <<tag>> \o (SerializeU64(sm.m.k) \o rest))
      BY <2>5, <2>8
    <3> QED BY <1>1, <2>5, <3>1, ClientReadsKey
  <2> QED BY <2>5, <2>8, <2>9
<1> QED BY <1>3, <1>4 DEF ClientsUnderstand, sm

\* ClientsUnderstand: the client's parser, which no one verified, computes
\* with ints and skips the addresses, takes every acknowledgement, reply and
\* redirect for what a host would (Client.cs 117-214).
THEOREM ClientsUnderstandAlways == Spec => []ClientsUnderstand
<1> QED BY Invariance, InvImpliesClientsUnderstand, PTL
=============================================================================
