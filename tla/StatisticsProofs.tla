-------------------------- MODULE StatisticsProofs --------------------------
(***************************************************************************)
(* Proofs about the alerts, for every table, of any length and width, and  *)
(* with any values in it, finite or not.                                   *)
(*                                                                         *)
(* The only invariant is that the table is a sequence of rows: what is     *)
(* proved is what the operators compute from one.  Their sums are          *)
(* functions defined by recursion, about which nothing is known but what   *)
(* Induction and Recursion, the first lemmas, give.                        *)
(***************************************************************************)
EXTENDS Statistics, FiniteSetTheorems, SequenceTheorems, WellFoundedInduction, TLAPS

-----------------------------------------------------------------------------
(***************************************************************************)
(* Induction, on sets of numbers instead of formulas.                      *)
(***************************************************************************)
\* Some number of a set of natural numbers is its least.
LEMMA Least ==
  ASSUME NEW K \in SUBSET Nat, K # {}
  PROVE  \E m \in K : \A k \in K : m <= k
<1> DEFINE less == {p \in Nat \X Nat : p[1] < p[2]}
<1>1. IsWellFoundedOn(less, Nat)
  BY NatLessThanWellFounded, Zenon DEF OpToRel
<1> HIDE DEF less
<1>2. \E x \in K : \A y \in K : ~ (<<y, x>> \in less)
  BY <1>1, WFMin
<1>3. PICK m \in K : \A k \in K : ~ (<<k, m>> \in less)
  BY <1>2
<1>4. \A k \in K : ~ (k < m)
  <2>1. \A k \in K : k \in Nat
    OBVIOUS
  <2> QED
    BY <1>3, <2>1 DEF less
<1> QED
  BY <1>4

\* A set that has 0, and i + 1 with every i below n, has all numbers to n.
LEMMA Induction ==
  ASSUME NEW n \in Nat, NEW A, 0 \in A, \A i \in 0..(n - 1) : i \in A => i + 1 \in A
  PROVE  0..n \subseteq A
<1> DEFINE K == {k \in 0..n : k \notin A}
<1>1. SUFFICES ASSUME K # {} PROVE FALSE
  BY <1>1
<1>2. PICK m \in K : \A k \in K : m <= k
  <2>1. K \in SUBSET Nat
    OBVIOUS
  <2> HIDE DEF K
  <2> QED
    BY <1>1, <2>1, Least
<1>3. m # 0 /\ m - 1 \in 0..(n - 1) /\ m - 1 \in 0..n
  OBVIOUS
<1>4. m - 1 \in A
  BY <1>2, <1>3
<1>5. m - 1 + 1 \in A
  BY <1>3, <1>4
<1> QED
  BY <1>5

-----------------------------------------------------------------------------
(***************************************************************************)
(* Recursion: what a loop from 1 to n computes.                            *)
(***************************************************************************)
Loop(f, n, V, b, g) ==
    /\ f \in [0..n -> V]
    /\ f[0] = b
    /\ \A i \in 1..n : f[i] = g[i][f[i - 1]]

\* There is such a loop, whatever its steps.
LEMMA Recursion ==
  ASSUME NEW n \in Nat, NEW V, NEW b \in V, NEW g \in [1..n -> [V -> V]]
  PROVE  \E f : Loop(f, n, V, b, g)
<1> DEFINE A == {k \in 0..n : \E f : Loop(f, k, V, b, g)}
<1>1. 0 \in A
  <2> DEFINE first == [i \in 0..0 |-> b]
  <2>1. first \in [0..0 -> V] /\ first[0] = b /\ \A i \in 1..0 : first[i] = g[i][first[i - 1]]
    OBVIOUS
  <2> HIDE DEF first
  <2>2. \E f : Loop(f, 0, V, b, g)
    BY <2>1 DEF Loop
  <2> QED
    BY <2>2
<1>2. ASSUME NEW k \in 0..(n - 1), k \in A
      PROVE  k + 1 \in A
  <2>1. PICK f : Loop(f, k, V, b, g)
    BY <1>2
  <2> DEFINE h == [i \in 0..(k + 1) |-> IF i = k + 1 THEN g[k + 1][f[k]] ELSE f[i]]
  <2>2. g[k + 1][f[k]] \in V
    BY <2>1 DEF Loop
  <2>3. h \in [0..(k + 1) -> V]
    BY <2>1, <2>2 DEF Loop
  <2>4. h[0] = b
    BY <2>1 DEF Loop
  <2>5. ASSUME NEW i \in 1..(k + 1) PROVE h[i] = g[i][h[i - 1]]
    <3>1. h[i - 1] = f[i - 1]
      OBVIOUS
    <3>2. CASE i = k + 1
      <4>1. h[k + 1] = g[k + 1][f[k]] /\ h[k] = f[k] /\ k + 1 - 1 = k
        OBVIOUS
      <4> HIDE DEF h
      <4>2. h[k + 1] = g[k + 1][h[k]]
        BY <4>1
      <4> QED
        BY <3>2, <4>1, <4>2
    <3>3. CASE i # k + 1
      <4>1. i \in 1..k /\ h[i] = f[i]
        BY <3>3
      <4> QED
        BY <2>1, <3>1, <4>1 DEF Loop
    <3> QED
      BY <3>2, <3>3
  <2> HIDE DEF h
  <2>6. Loop(h, k + 1, V, b, g)
    BY <2>3, <2>4, <2>5 DEF Loop
  <2> QED
    BY <2>6
<1> HIDE DEF A
<1>3. \A k \in 0..(n - 1) : k \in A => k + 1 \in A
  BY <1>2
<1>4. 0..n \subseteq A
  BY <1>1, <1>3, Induction, Zenon
<1>5. n \in 0..n
  OBVIOUS
<1> QED
  BY <1>4, <1>5 DEF A

\* The sums that Total adds up.
Sums(f, values) ==
    /\ f \in [0..Len(values) -> Int]
    /\ f[0] = 0
    /\ \A i \in 1..Len(values) : f[i] = f[i - 1] + values[i]

\* Total ends with the last of the sums.
LEMMA TotalAddsUp ==
  ASSUME NEW v \in Seq(Int)
  PROVE  \E f : Sums(f, v) /\ Total(v) = f[Len(v)]
<1> DEFINE n == Len(v)
           g == [i \in 1..n |-> [x \in Int |-> x + v[i]]]
           Is(f) == f = [i \in 0..n |-> IF i = 0 THEN 0 ELSE f[i - 1] + v[i]]
           upTo == CHOOSE f : Is(f)
<1>1. n \in Nat /\ \A i \in 1..n : v[i] \in Int
  OBVIOUS
<1>2. PICK f : Loop(f, n, Int, 0, g)
  <2>1. g \in [1..n -> [Int -> Int]]
    BY <1>1
  <2>2. n \in Nat /\ 0 \in Int
    BY <1>1
  <2> HIDE DEF g, n
  <2>3. \E f : Loop(f, n, Int, 0, g)
    BY <2>1, <2>2, Recursion, Zenon
  <2> QED
    BY <2>3
<1>3. \A i \in 1..n : f[i - 1] \in Int /\ f[i] = f[i - 1] + v[i]
  <2>1. \A i \in 1..n, x \in Int : g[i][x] = x + v[i]
    OBVIOUS
  <2> HIDE DEF g, n
  <2>2. \A i \in 1..n : f[i - 1] \in Int
    BY <1>1, <1>2 DEF Loop
  <2> QED
    BY <1>1, <1>2, <2>1, <2>2 DEF Loop
<1>4. \E h : Is(h)
  <2> HIDE DEF g, n
  <2>1. \A i \in 0..n : f[i] = IF i = 0 THEN 0 ELSE f[i - 1] + v[i]
    <3>1. \A i \in 0..n : i = 0 \/ i \in 1..n
      BY <1>1
    <3> QED
      BY <1>2, <1>3, <3>1 DEF Loop
  <2>2. Is(f)
    BY <1>2, <2>1 DEF Loop
  <2> QED
    BY <2>2
<1>5. Is(upTo)
  BY <1>4, Zenon
<1>6. Total(v) = upTo[n]
  BY Zenon DEF Total
<1> HIDE DEF upTo
<1>7. upTo[0] = 0 /\ \A i \in 1..n : upTo[i] = upTo[i - 1] + v[i]
  <2> HIDE DEF n
  <2> QED
    BY <1>1, <1>5
<1>8. 0..n \subseteq {i \in 0..n : upTo[i] \in Int}
  <2> DEFINE A == {i \in 0..n : upTo[i] \in Int}
  <2>1. 0 \in A
    BY <1>1, <1>7
  <2>2. ASSUME NEW i \in 0..(n - 1), i \in A PROVE i + 1 \in A
    <3>1. i + 1 \in 1..n /\ i + 1 - 1 = i /\ v[i + 1] \in Int
      BY <1>1
    <3> HIDE DEF n
    <3> QED
      BY <1>1, <1>7, <2>2, <3>1
  <2> HIDE DEF A, n
  <2>3. 0..n \subseteq A
    BY <1>1, <2>1, <2>2, Induction
  <2> QED
    BY <2>3 DEF A
<1>9. upTo \in [0..n -> Int]
  <2> HIDE DEF n
  <2> QED
    BY <1>5, <1>8
<1> QED
  BY <1>6, <1>7, <1>9 DEF Sums

-----------------------------------------------------------------------------
(***************************************************************************)
(* What FlattenSeq joins its parts to.                                     *)
(***************************************************************************)
In(x, s) == \E k \in 1..Len(s) : s[k] = x

\* What is in one of two sequences is in both joined.
LEMMA InJoined ==
  ASSUME NEW X, NEW s \in Seq(X), NEW t \in Seq(X), NEW x, In(x, s) \/ In(x, t)
  PROVE  In(x, s \o t)
<1>1. s \o t \in Seq(X) /\ Len(s \o t) = Len(s) + Len(t) /\ Len(s) \in Nat /\ Len(t) \in Nat
  OBVIOUS
<1>2. ASSUME In(x, s) PROVE In(x, s \o t)
  <2>1. PICK k \in 1..Len(s) : s[k] = x
    BY <1>2 DEF In
  <2>2. k \in 1..Len(s \o t)
    BY <1>1
  <2>3. (s \o t)[k] = x
    BY <2>1
  <2> QED
    BY <2>2, <2>3 DEF In
<1>3. ASSUME In(x, t) PROVE In(x, s \o t)
  <2>1. PICK k \in 1..Len(t) : t[k] = x
    BY <1>3 DEF In
  <2>2. Len(s) + k \in 1..Len(s \o t)
    BY <1>1
  <2>3. (s \o t)[Len(s) + k] = x
    BY <2>1
  <2> QED
    BY <2>2, <2>3 DEF In
<1> QED
  BY <1>2, <1>3

Covers(s, parts) == \A i \in 1..Len(parts) : \A x : In(x, parts[i]) => In(x, s)

\* All parts are in what FlattenSeq joins, and nothing of another type.
LEMMA Flattened ==
  ASSUME NEW X, NEW parts \in Seq(Seq(X))
  PROVE  FlattenSeq(parts) \in Seq(X) /\ Covers(FlattenSeq(parts), parts)
<1> DEFINE n == Len(parts)
           g == [i \in 1..n |-> [s \in Seq(X) |-> s \o parts[i]]]
           Is(f) == f = [i \in 1..n |-> IF i = 1 THEN parts[i] ELSE f[i - 1] \o parts[i]]
           upTo == CHOOSE f : Is(f)
<1>1. n \in Nat /\ \A i \in 1..n : parts[i] \in Seq(X)
  OBVIOUS
<1>2. <<>> \in Seq(X)
  OBVIOUS
<1>3. ASSUME n = 0 PROVE FlattenSeq(parts) = parts
  BY <1>3, Zenon DEF FlattenSeq
<1>4. CASE n = 0
  <2>1. parts = <<>>
    BY <1>4
  <2>2. Covers(parts, parts)
    BY <1>4 DEF Covers
  <2> QED
    BY <1>2, <1>3, <1>4, <2>1, <2>2
<1>5. ASSUME n # 0 PROVE FlattenSeq(parts) = upTo[n]
  BY <1>5, Zenon DEF FlattenSeq
<1>6. PICK f : Loop(f, n, Seq(X), <<>>, g)
  <2>1. g \in [1..n -> [Seq(X) -> Seq(X)]]
    <3>1. \A i \in 1..n, s \in Seq(X) : s \o parts[i] \in Seq(X)
      BY <1>1
    <3> QED
      BY <3>1
  <2>2. n \in Nat
    BY <1>1
  <2> HIDE DEF g, n
  <2>3. \E f : Loop(f, n, Seq(X), <<>>, g)
    BY <1>2, <2>1, <2>2, Recursion, Zenon
  <2> QED
    BY <2>3
<1>7. \A i \in 1..n : f[i - 1] \in Seq(X) /\ f[i] \in Seq(X) /\ f[i] = f[i - 1] \o parts[i]
  <2>1. \A i \in 1..n, s \in Seq(X) : g[i][s] = s \o parts[i]
    OBVIOUS
  <2> HIDE DEF g, n
  <2>2. \A i \in 1..n : f[i - 1] \in Seq(X) /\ f[i] \in Seq(X)
    <3>1. \A i \in 1..n : i - 1 \in 0..n /\ i \in 0..n
      BY <1>1
    <3>2. f \in [0..n -> Seq(X)]
      BY <1>6, Zenon DEF Loop
    <3> QED
      BY <3>1, <3>2, Zenon
  <2>3. \A i \in 1..n : f[i] = g[i][f[i - 1]]
    BY <1>6, Zenon DEF Loop
  <2> QED
    BY <2>1, <2>2, <2>3, Zenon
<1>8. f[0] = <<>>
  BY <1>6 DEF Loop
<1>9. Is([i \in 1..n |-> f[i]])
  <2> DEFINE h == [i \in 1..n |-> f[i]]
  <2>1. ASSUME NEW i \in 1..n PROVE h[i] = IF i = 1 THEN parts[i] ELSE h[i - 1] \o parts[i]
    <3>1. CASE i = 1
      <4>1. f[1] = <<>> \o parts[1]
        <5>1. 1 \in 1..n /\ 1 - 1 = 0
          BY <3>1
        <5> QED
          BY <1>7, <1>8, <5>1
      <4>2. parts[1] \in Seq(X)
        BY <1>1, <3>1
      <4>3. <<>> \o parts[1] = parts[1]
        BY <4>2
      <4> QED
        BY <3>1, <4>1, <4>3
    <3>2. CASE i # 1
      <4>1. i - 1 \in 1..n
        BY <1>1, <3>2
      <4> QED
        BY <1>7, <3>2, <4>1
    <3> QED
      BY <3>1, <3>2
  <2>2. h = [i \in 1..n |-> h[i]]
    OBVIOUS
  <2> HIDE DEF h
  <2>3. h = [i \in 1..n |-> IF i = 1 THEN parts[i] ELSE h[i - 1] \o parts[i]]
    BY <2>1, <2>2, Zenon
  <2> QED
    BY <2>3 DEF h
<1>10. Is(upTo)
  BY <1>9, Zenon
<1> HIDE DEF upTo
<1>11. \A i \in 1..n : upTo[i] = IF i = 1 THEN parts[i] ELSE upTo[i - 1] \o parts[i]
  <2> HIDE DEF n
  <2> QED
    BY <1>10, Zenon
<1> HIDE DEF Is
<1>12. \A i \in 1..n : /\ upTo[i] \in Seq(X)
                      /\ \A h \in 1..i : \A x : In(x, parts[h]) => In(x, upTo[i])
  <2> DEFINE P(i) == upTo[i] \in Seq(X) /\ \A h \in 1..i : \A x : In(x, parts[h]) => In(x, upTo[i])
             A == {i \in 0..n : i = 0 \/ P(i)}
  <2>1. 0 \in A
    BY <1>1
  <2>2. \A i \in 0..(n - 1) : i \in A => i + 1 \in A
    <3> SUFFICES ASSUME NEW i \in 0..(n - 1), i \in A PROVE i + 1 \in A
      OBVIOUS
    <3>1. i + 1 \in 1..n /\ i + 1 \in 0..n /\ i + 1 - 1 = i
      BY <1>1
    <3>2. CASE i = 0
      <4>1. upTo[1] = parts[1] /\ 1 \in 1..n
        BY <1>11, <3>1, <3>2
      <4>2. P(1)
        BY <1>1, <4>1
      <4> QED
        BY <3>1, <3>2, <4>2
    <3>3. CASE i # 0
      <4>1. P(i)
        BY <3>3
      <4>2. upTo[i + 1] = upTo[i] \o parts[i + 1]
        <5>1. i + 1 \in 1..n /\ i + 1 # 1 /\ i + 1 - 1 = i
          BY <3>1, <3>3
        <5> DEFINE j == i + 1
        <5>2. j \in 1..n /\ j # 1 /\ j - 1 = i
          BY <5>1
        <5> HIDE DEF j
        <5>3. upTo[j] = upTo[j - 1] \o parts[j]
          BY <1>11, <5>2, Zenon
        <5>4. upTo[j] = upTo[i] \o parts[j]
          BY <5>2, <5>3, Zenon
        <5> QED
          BY <5>4 DEF j
      <4>3. parts[i + 1] \in Seq(X)
        BY <1>1, <3>1
      <4>4. upTo[i + 1] \in Seq(X)
        BY <4>1, <4>2, <4>3
      <4>5. ASSUME NEW h \in 1..(i + 1), NEW x, In(x, parts[h]) PROVE In(x, upTo[i + 1])
        <5>1. h \in 1..i \/ h = i + 1
          OBVIOUS
        <5>2. In(x, upTo[i]) \/ In(x, parts[i + 1])
          BY <4>1, <4>5, <5>1
        <5>3. upTo[i] \in Seq(X)
          BY <4>1
        <5>4. In(x, upTo[i] \o parts[i + 1])
          BY <5>2, <5>3, <4>3, InJoined
        <5> QED
          BY <4>2, <5>4
      <4> QED
        BY <3>1, <4>4, <4>5
    <3> QED
      BY <3>2, <3>3
  <2> HIDE DEF A
  <2>3. n \in Nat
    BY <1>1
  <2> HIDE DEF n
  <2>4. 0..n \subseteq A
    BY <2>1, <2>2, <2>3, Induction, Zenon
  <2>5. \A i \in 1..n : i \in 0..n /\ i # 0
    BY <2>3
  <2>6. \A i \in 1..n : P(i)
    BY <2>4, <2>5 DEF A
  <2> QED
    BY <2>6
<1>13. CASE n # 0
  <2>1. n \in 1..n
    BY <1>1, <1>13
  <2>2. FlattenSeq(parts) = upTo[n]
    BY <1>5, <1>13
  <2>3. upTo[n] \in Seq(X)
    BY <1>12, <2>1
  <2>4. Covers(upTo[n], parts)
    BY <1>12, <2>1 DEF Covers
  <2> QED
    BY <2>2, <2>3, <2>4
<1> QED
  BY <1>4, <1>13

-----------------------------------------------------------------------------
(***************************************************************************)
(* What Picked takes from a sequence.                                      *)
(***************************************************************************)
UpTo(at, i) == {j \in at : j <= i}

\* The positions up to i are finitely many, from none at 0 to all at m.
LEMMA Counted ==
  ASSUME NEW m \in Nat, NEW at \in SUBSET (1..m)
  PROVE  /\ IsFiniteSet(at)
         /\ \A i \in 0..m : IsFiniteSet(UpTo(at, i)) /\ Cardinality(UpTo(at, i)) \in Nat
         /\ UpTo(at, 0) = {} /\ Cardinality(UpTo(at, 0)) = 0
         /\ UpTo(at, m) = at
<1>1. IsFiniteSet(1..m)
  <2>1. 1 \in Int /\ m \in Int
    OBVIOUS
  <2> QED
    BY <2>1, FS_Interval
<1>2. IsFiniteSet(at)
  BY <1>1, FS_Subset
<1>3. \A i \in 0..m : UpTo(at, i) \subseteq at
  BY DEF UpTo
<1>4. \A i \in 0..m : IsFiniteSet(UpTo(at, i))
  BY <1>2, <1>3, FS_Subset
<1>5. \A i \in 0..m : Cardinality(UpTo(at, i)) \in Nat
  BY <1>4, FS_CardinalityType
<1>6. UpTo(at, 0) = {} /\ UpTo(at, m) = at
  <2>1. \A j \in at : ~ (j <= 0) /\ j <= m
    OBVIOUS
  <2>2. UpTo(at, 0) = {}
    BY <2>1 DEF UpTo
  <2>3. UpTo(at, m) = at
    BY <2>1, Zenon DEF UpTo
  <2> QED
    BY <2>2, <2>3
<1>7. Cardinality(UpTo(at, 0)) = 0
  BY <1>6, FS_EmptySet
<1> QED
  BY <1>2, <1>4, <1>5, <1>6, <1>7

\* One more position is counted, or not.
LEMMA CountedStep ==
  ASSUME NEW m \in Nat, NEW at \in SUBSET (1..m), NEW i \in 1..m
  PROVE  Cardinality(UpTo(at, i)) =
             IF i \in at THEN Cardinality(UpTo(at, i - 1)) + 1 ELSE Cardinality(UpTo(at, i - 1))
<1>1. i - 1 \in 0..m
  OBVIOUS
<1>2. IsFiniteSet(UpTo(at, i - 1))
  BY <1>1, Counted
<1>0. \A j \in at : j <= i - 1 <=> j <= i /\ j # i
  OBVIOUS
<1>3. CASE i \in at
  <2>0. i <= i
    OBVIOUS
  <2>1. UpTo(at, i) = UpTo(at, i - 1) \union {i} /\ i \notin UpTo(at, i - 1)
    BY <1>0, <1>3, <2>0, Zenon DEF UpTo
  <2>2. Cardinality(UpTo(at, i - 1) \union {i}) = Cardinality(UpTo(at, i - 1)) + 1
    BY <1>2, <2>1, FS_AddElement
  <2> QED
    BY <1>3, <2>1, <2>2
<1>4. CASE i \notin at
  <2>1. UpTo(at, i) = UpTo(at, i - 1)
    BY <1>0, <1>4, Zenon DEF UpTo
  <2> QED
    BY <1>4, <2>1
<1> QED
  BY <1>3, <1>4

\* The ranks of the positions are 1 to their number, each met once.
Rank(at, i) == Cardinality(UpTo(at, i))

\* For every n up to their number, n of the positions come up to one of them.
LEMMA EveryRank ==
  ASSUME NEW m \in Nat, NEW at \in SUBSET (1..m), NEW n \in 1..Cardinality(at)
  PROVE  \E i \in at : Rank(at, i) = n
<1>1. \A i \in 0..m : Rank(at, i) \in Nat
  BY Counted DEF Rank
<1>2. Rank(at, 0) = 0 /\ Rank(at, m) = Cardinality(at)
  BY Counted DEF Rank
<1> DEFINE K == {k \in 0..m : n <= Rank(at, k)}
<1>3. PICK k \in K : \A j \in K : k <= j
  <2>1. m \in K /\ K \in SUBSET Nat
    BY <1>1, <1>2
  <2> HIDE DEF K
  <2> QED
    BY <2>1, Least
<1>4. k \in 1..m /\ k - 1 \in 0..m /\ k - 1 \notin K
  BY <1>2, <1>3
<1>5. Rank(at, k) = IF k \in at THEN Rank(at, k - 1) + 1 ELSE Rank(at, k - 1)
  BY <1>4, CountedStep DEF Rank
<1>6. n <= Rank(at, k) /\ ~ (n <= Rank(at, k - 1))
  BY <1>3, <1>4
<1>7. n \in Nat /\ Rank(at, k) \in Nat /\ Rank(at, k - 1) \in Nat
  <2>1. Cardinality(at) \in Nat
    BY <1>1, <1>2
  <2> QED
    BY <1>1, <1>4, <2>1
<1>8. k \in at
  BY <1>5, <1>6
<1>9. Rank(at, k) = n
  BY <1>5, <1>6, <1>7, <1>8
<1> QED
  BY <1>8, <1>9

\* A later position has a higher rank.
LEMMA RanksDiffer ==
  ASSUME NEW m \in Nat, NEW at \in SUBSET (1..m), NEW i \in at, NEW j \in at, i < j
  PROVE  Rank(at, i) < Rank(at, j)
<1>1. i \in 0..m /\ j \in 0..m
  OBVIOUS
<1>2. IsFiniteSet(UpTo(at, i)) /\ IsFiniteSet(UpTo(at, j))
  BY <1>1, Counted
<1>3. UpTo(at, i) \union {j} \subseteq UpTo(at, j) /\ j \notin UpTo(at, i)
  <2>1. \A h \in at : h <= i => h <= j
    OBVIOUS
  <2>2. j <= j /\ ~ (j <= i)
    OBVIOUS
  <2> QED
    BY <2>1, <2>2, Zenon DEF UpTo
<1>4. Cardinality(UpTo(at, i) \union {j}) = Cardinality(UpTo(at, i)) + 1
  BY <1>2, <1>3, FS_AddElement
<1>5. Cardinality(UpTo(at, i) \union {j}) <= Cardinality(UpTo(at, j))
  BY <1>2, <1>3, FS_Subset
<1>6. Cardinality(UpTo(at, i)) \in Nat /\ Cardinality(UpTo(at, j)) \in Nat
  BY <1>1, Counted
<1> QED
  BY <1>4, <1>5, <1>6 DEF Rank

\* The rank of a position is at most their number.
LEMMA RankInRange ==
  ASSUME NEW m \in Nat, NEW at \in SUBSET (1..m), NEW i \in at
  PROVE  Rank(at, i) \in 1..Cardinality(at)
<1>1. i \in 0..m /\ IsFiniteSet(at)
  BY Counted
<1>2. IsFiniteSet(UpTo(at, i)) /\ Cardinality(UpTo(at, i)) \in Nat
  BY <1>1, Counted
<1>3. i \in UpTo(at, i) /\ UpTo(at, i) \subseteq at
  BY DEF UpTo
<1>4. Cardinality(UpTo(at, i)) <= Cardinality(at)
  BY <1>1, <1>3, FS_Subset
<1>5. Cardinality(UpTo(at, i)) # 0
  <2>1. UpTo(at, i) # {}
    BY <1>3
  <2> QED
    BY <1>2, <2>1, FS_EmptySet
<1>6. Cardinality(at) \in Nat
  BY <1>1, FS_CardinalityType
<1> QED
  BY <1>2, <1>4, <1>5, <1>6 DEF Rank

\* p has exactly the elements of s at these positions.
Keeps(p, s, at) ==
    /\ Len(p) = Cardinality(at)
    /\ \A n \in 1..Len(p) : \E i \in at : p[n] = s[i]
    /\ \A i \in at : In(s[i], p)

\* Picked keeps the elements at the positions it is given, and no others.
LEMMA PickedKeeps ==
  ASSUME NEW X, NEW s \in Seq(X), NEW at \in SUBSET (1..Len(s))
  PROVE  Picked(s, at) \in Seq(X) /\ Keeps(Picked(s, at), s, at)
<1> DEFINE m == Len(s)
           c == Cardinality(at)
           p == [n \in 1..c |-> s[CHOOSE i \in at : Rank(at, i) = n]]
<1>1. Picked(s, at) = p
  BY Zenon DEF Picked, Rank, UpTo
<1>2. m \in Nat /\ c \in Nat
  <2>1. m \in Nat
    OBVIOUS
  <2>2. IsFiniteSet(at)
    BY <2>1, Counted
  <2> QED
    BY <2>1, <2>2, FS_CardinalityType
<1>3. ASSUME NEW n \in 1..c
      PROVE  \E i \in at : p[n] = s[i] /\ Rank(at, i) = n
  <2>1. \E i \in at : Rank(at, i) = n
    BY <1>2, EveryRank
  <2> QED
    BY <2>1
<1>4. ASSUME NEW i \in at
      PROVE  In(s[i], p)
  <2>1. Rank(at, i) \in 1..c
    BY <1>2, RankInRange
  <2>2. PICK j \in at : p[Rank(at, i)] = s[j] /\ Rank(at, j) = Rank(at, i)
    BY <1>3, <2>1
  <2>3. ~ (i < j) /\ ~ (j < i)
    <3>1. i < j => Rank(at, i) < Rank(at, j)
      BY <1>2, RanksDiffer
    <3>2. j < i => Rank(at, j) < Rank(at, i)
      BY <1>2, RanksDiffer
    <3> QED
      BY <2>1, <2>2, <3>1, <3>2
  <2>4. i = j
    BY <1>2, <2>3
  <2>5. Len(p) = c
    BY <1>2
  <2> QED
    BY <2>1, <2>2, <2>4, <2>5 DEF In
<1>5. p \in Seq(X)
  <2>1. \A n \in 1..c : p[n] \in X
    <3>1. \A i \in at : s[i] \in X
      OBVIOUS
    <3> HIDE DEF p
    <3> QED
      BY <1>3, <3>1
  <2>2. p \in [1..c -> X]
    BY <2>1
  <2> HIDE DEF p, c
  <2> QED
    BY <1>2, <2>2
<1>6. Len(p) = c
  BY <1>2
<1>7. Keeps(p, s, at)
  <2> HIDE DEF p
  <2> QED
    BY <1>3, <1>4, <1>6 DEF Keeps
<1> QED
  BY <1>1, <1>5, <1>7

-----------------------------------------------------------------------------
(***************************************************************************)
(* Sums of squares.                                                        *)
(***************************************************************************)
\* No square is negative.
LEMMA SquareIsNatural ==
  ASSUME NEW x \in Int
  PROVE  x * x \in Int /\ 0 <= x * x
OBVIOUS

\* The square of a * x + b, multiplied out and added.
LEMMA OneMoreSquare ==
  ASSUME NEW a \in Int, NEW b \in Int, NEW q \in Int, NEW s \in Int, NEW i \in Int, NEW x \in Int
  PROVE  a * a * (q + x * x) + 2 * a * b * (s + x) + b * b * (i + 1)
             = (a * a * q + 2 * a * b * s + b * b * i) + (a * x + b) * (a * x + b)
OBVIOUS

\* If c is at most the square of a * x + b for the x at some positions, the sum of
\* all these squares is at least c times the number of the positions.
LEMMA SquaresOutweigh ==
  ASSUME NEW v \in Seq(Int), NEW a \in Int, NEW b \in Int, NEW c \in Int,
         NEW at \in SUBSET (1..Len(v)),
         \A i \in at : c <= (a * v[i] + b) * (a * v[i] + b)
  PROVE  c * Cardinality(at)
             <= a * a * Total(Squares(v)) + 2 * a * b * Total(v) + b * b * Len(v)
<1> DEFINE n == Len(v)
<1>1. n \in Nat /\ \A i \in 1..n : v[i] \in Int
  OBVIOUS
<1>2. /\ Squares(v) \in Seq(Int) /\ Len(Squares(v)) = n
      /\ \A i \in 1..n : Squares(v)[i] = v[i] * v[i]
  BY DEF Squares
<1>3. PICK s : Sums(s, v) /\ Total(v) = s[n]
  BY TotalAddsUp
<1>4. PICK q : Sums(q, Squares(v)) /\ Total(Squares(v)) = q[Len(Squares(v))]
  BY <1>2, TotalAddsUp
<1> DEFINE T(i) == a * a * q[i] + 2 * a * b * s[i] + b * b * i
           A == {i \in 0..n : c * Rank(at, i) <= T(i)}
<1>5. \A i \in 0..n : s[i] \in Int /\ q[i] \in Int
  BY <1>2, <1>3, <1>4 DEF Sums
<1>6. \A i \in 0..n : Rank(at, i) \in Nat
  BY <1>1, Counted DEF Rank
<1>7. 0 \in A
  <2>1. Rank(at, 0) = 0
    BY <1>1, Counted DEF Rank
  <2>2. s[0] = 0 /\ q[0] = 0
    BY <1>3, <1>4 DEF Sums
  <2>3. T(0) = 0 /\ c * Rank(at, 0) = 0
    BY <2>1, <2>2
  <2>4. 0 \in 0..n
    BY <1>1
  <2> HIDE DEF T
  <2> QED
    BY <2>3, <2>4
<1>8. \A i \in 0..(n - 1) : i \in A => i + 1 \in A
  <2> SUFFICES ASSUME NEW i \in 0..(n - 1), i \in A PROVE i + 1 \in A
    OBVIOUS
  <2>1. i \in 0..n /\ i + 1 \in 0..n /\ i + 1 \in 1..n /\ i + 1 - 1 = i
    BY <1>1
  <2> DEFINE x == v[i + 1]
             d == (a * x + b) * (a * x + b)
  <2>2. x \in Int /\ a * x + b \in Int
    BY <1>1, <2>1
  <2>3. d \in Int /\ 0 <= d
    BY <2>2, SquareIsNatural
  <2>4. T(i + 1) = T(i) + d
    <3>1. s[i + 1] = s[i] + x
      BY <1>3, <2>1 DEF Sums
    <3>2. q[i + 1] = q[i] + x * x
      BY <1>2, <1>4, <2>1 DEF Sums
    <3>3. s[i] \in Int /\ q[i] \in Int /\ i \in Int
      BY <1>5, <2>1
    <3> HIDE DEF x
    <3>4. T(i + 1) = a * a * (q[i] + x * x) + 2 * a * b * (s[i] + x) + b * b * (i + 1)
      BY <3>1, <3>2
    <3>5. a * a * (q[i] + x * x) + 2 * a * b * (s[i] + x) + b * b * (i + 1)
              = (a * a * q[i] + 2 * a * b * s[i] + b * b * i) + (a * x + b) * (a * x + b)
      <4> DEFINE qi == q[i]
                 si == s[i]
      <4>1. qi \in Int /\ si \in Int /\ i \in Int /\ x \in Int
        BY <2>2, <3>3
      <4> HIDE DEF qi, si
      <4>2. a * a * (qi + x * x) + 2 * a * b * (si + x) + b * b * (i + 1)
                = (a * a * qi + 2 * a * b * si + b * b * i) + (a * x + b) * (a * x + b)
        BY <4>1, OneMoreSquare
      <4> QED
        BY <4>2 DEF qi, si
    <3> QED
      BY <3>4, <3>5
  <2>5. T(i) \in Int
    BY <1>5, <2>1
  <2>6. c * Rank(at, i) <= T(i) /\ Rank(at, i) \in Nat /\ Rank(at, i + 1) \in Nat
    BY <1>6, <2>1
  <2>7. Rank(at, i + 1) = IF i + 1 \in at THEN Rank(at, i) + 1 ELSE Rank(at, i)
    <3>1. \A k \in 1..n : Rank(at, k) = IF k \in at THEN Rank(at, k - 1) + 1 ELSE Rank(at, k - 1)
      BY <1>1, CountedStep DEF Rank
    <3> QED
      BY <2>1, <3>1
  <2>8. i + 1 \in at => c <= d
    OBVIOUS
  <2> HIDE DEF T, d
  <2>9. c * Rank(at, i + 1) <= T(i + 1)
    <3>1. CASE i + 1 \in at
      <4>1. c * (Rank(at, i) + 1) = c * Rank(at, i) + c
        BY <2>6
      <4>2. c * Rank(at, i) \in Int
        BY <2>6
      <4> HIDE DEF x
      <4> QED
        BY <2>3, <2>4, <2>5, <2>6, <2>7, <2>8, <3>1, <4>1, <4>2
    <3>2. CASE i + 1 \notin at
      <4>1. c * Rank(at, i) \in Int
        BY <2>6
      <4> QED
        BY <2>3, <2>4, <2>5, <2>6, <2>7, <3>2, <4>1
    <3> QED
      BY <3>1, <3>2
  <2> QED
    BY <2>1, <2>9
<1> HIDE DEF A
<1>9. 0..n \subseteq A
  <2> HIDE DEF n
  <2> QED
    BY <1>1, <1>7, <1>8, Induction, Zenon
<1>10. c * Rank(at, n) <= T(n)
  <2>1. n \in 0..n
    BY <1>1
  <2> HIDE DEF T, n
  <2> QED
    BY <1>9, <2>1 DEF A
<1>11. Rank(at, n) = Cardinality(at)
  BY <1>1, Counted DEF Rank
<1> QED
  BY <1>2, <1>3, <1>4, <1>10, <1>11

-----------------------------------------------------------------------------
(***************************************************************************)
(* Outliers.                                                               *)
(***************************************************************************)
\* A sum of integers is one.
LEMMA TotalType ==
  ASSUME NEW v \in Seq(Int)
  PROVE  Total(v) \in Int
<1>1. PICK s : Sums(s, v) /\ Total(v) = s[Len(v)]
  BY TotalAddsUp
<1>2. Len(v) \in 0..Len(v)
  OBVIOUS
<1> QED
  BY <1>1, <1>2 DEF Sums

\* So are the squares.
LEMMA SquaresType ==
  ASSUME NEW v \in Seq(Int)
  PROVE  Squares(v) \in Seq(Int)
BY DEF Squares

\* A number of positions far from the mean weighs at most as much as all.
LEMMA Deviations ==
  ASSUME NEW n \in Int, NEW q \in Int, NEW s \in Int
  PROVE  (2 * n) * (2 * n) * q + 2 * (2 * n) * (-(2 * s)) * s + (-(2 * s)) * (-(2 * s)) * n
             = 4 * n * (n * q - s * s)
OBVIOUS

\* The positions of the values that are Far from the mean.
FarAt(v) == {i \in DOMAIN v : Far(Len(v) * v[i] - Total(v), Spread(v))}

\* Chebyshev's inequality: the squared deviations add up to n variances, and that of a
\* value that is Far takes more than 25 / 4 of one.
LEMMA FewAreFar ==
  ASSUME NEW v \in Seq(Int), Len(v) # 0
  PROVE  /\ Spread(v) \in Int /\ 0 <= Spread(v)
         /\ (25 * Spread(v) + 1) * Cardinality(FarAt(v)) <= 4 * Len(v) * Spread(v)
<1> DEFINE n == Len(v)
           q == Total(Squares(v))
           s == Total(v)
           a == 2 * n
           b == -(2 * s)
<1>1. n \in Nat /\ s \in Int /\ q \in Int
  BY TotalType, SquaresType
<1>2. Spread(v) = n * q - s * s
  BY DEF Spread
<1>3. a * a * q + 2 * a * b * s + b * b * n = 4 * n * (n * q - s * s)
  <2> HIDE DEF n, q, s
  <2> QED
    BY <1>1, Deviations
<1>4. a \in Int /\ b \in Int
  <2> HIDE DEF n, q, s
  <2> QED
    BY <1>1
<1>5. Spread(v) \in Int
  <2> HIDE DEF n, q, s
  <2> QED
    BY <1>1, <1>2
<1>6. ASSUME NEW c \in Int, NEW at \in SUBSET (1..n),
             \A i \in at : c <= (a * v[i] + b) * (a * v[i] + b)
      PROVE  c * Cardinality(at) <= 4 * n * Spread(v)
  <2>1. c * Cardinality(at) <= a * a * q + 2 * a * b * s + b * b * n
    BY <1>4, <1>6, SquaresOutweigh
  <2> HIDE DEF n, q, s, a, b
  <2> QED
    BY <1>2, <1>3, <2>1
<1>7. 0 <= Spread(v)
  <2>1. 0 * Cardinality({}) <= 4 * n * Spread(v)
    <3>1. {} \in SUBSET (1..n) /\ 0 \in Int /\ \A i \in {} : 0 <= (a * v[i] + b) * (a * v[i] + b)
      OBVIOUS
    <3> HIDE DEF a, b, n
    <3> QED
      BY <1>6, <3>1
  <2>2. Cardinality({}) = 0
    BY FS_EmptySet
  <2>3. 0 < n
    BY <1>1
  <2> HIDE DEF n
  <2>4. 0 <= 4 * n * Spread(v)
    BY <2>1, <2>2
  <2> QED
    BY <1>1, <1>5, <2>3, <2>4
<1>8. FarAt(v) \in SUBSET (1..n)
  BY DEF FarAt
<1>9. ASSUME NEW i \in FarAt(v)
      PROVE  25 * Spread(v) + 1 <= (a * v[i] + b) * (a * v[i] + b)
  <2>1. Far(n * v[i] - s, Spread(v)) /\ v[i] \in Int
    BY DEF FarAt
  <2> DEFINE x == v[i]
  <2>2. 4 * (n * x - s) * (n * x - s) > 25 * Spread(v)
    BY <2>1 DEF Far
  <2>3. x \in Int
    BY <2>1
  <2> HIDE DEF n, s, x
  <2>4. (a * x + b) * (a * x + b) = 4 * (n * x - s) * (n * x - s)
    BY <1>1, <2>3
  <2>5. (a * x + b) * (a * x + b) \in Int
    BY <1>4, <2>3
  <2> HIDE DEF a, b
  <2>6. 25 * Spread(v) + 1 <= (a * x + b) * (a * x + b)
    BY <1>5, <2>2, <2>4, <2>5
  <2> QED
    BY <2>6 DEF x
<1>10. (25 * Spread(v) + 1) * Cardinality(FarAt(v)) <= 4 * n * Spread(v)
  <2>1. 25 * Spread(v) + 1 \in Int
    BY <1>5
  <2> HIDE DEF n, s, a, b
  <2> QED
    BY <1>6, <1>8, <1>9, <2>1
<1> QED
  BY <1>5, <1>7, <1>10

\* Outlying gives the values that are Far, if there are finite ones only.
LEMMA OutlyingAreFar ==
  ASSUME NEW v \in Seq(Values)
  PROVE  \/ Outlying(v) = <<>>
         \/ v \in Seq(Int) /\ Measurable(v) /\ Outlying(v) = Picked(v, FarAt(v))
<1>1. CASE ~ Measurable(v)
  BY <1>1, Zenon DEF Outlying
<1>2. CASE Measurable(v)
  <2>1. Outlying(v) = Picked(v, FarAt(v))
    BY <1>2, Zenon DEF Outlying, Where, FarAt
  <2>2. v \in Seq(Int)
    <3>1. Len(v) \in Nat /\ DOMAIN v = 1..Len(v) /\ v = [i \in 1..Len(v) |-> v[i]]
      OBVIOUS
    <3>2. {v[i] : i \in DOMAIN v} \subseteq Int
      BY <1>2, Zenon DEF Measurable, Range
    <3>3. \A i \in 1..Len(v) : v[i] \in Int
      BY <3>1, <3>2
    <3>4. v \in [1..Len(v) -> Int]
      BY <3>1, <3>3
    <3> QED
      BY <3>1, <3>4
  <2> QED
    BY <1>2, <2>1, <2>2
<1> QED
  BY <1>1, <1>2

\* That bounds what Outlying gives, for any column of values.
LEMMA RareOutliers ==
  ASSUME NEW v \in Seq(Values)
  PROVE  Outlying(v) \in Seq(Int) /\ 25 * Len(Outlying(v)) <= 4 * Len(v)
<1>1. Len(v) \in Nat
  OBVIOUS
<1>2. CASE Outlying(v) = <<>>
  BY <1>1, <1>2
<1>3. CASE v \in Seq(Int) /\ Measurable(v) /\ Outlying(v) = Picked(v, FarAt(v))
  <2>1. FarAt(v) \in SUBSET (1..Len(v))
    BY <1>3 DEF FarAt
  <2>2. Keeps(Picked(v, FarAt(v)), v, FarAt(v)) /\ Picked(v, FarAt(v)) \in Seq(Int)
    BY <1>3, <2>1, PickedKeeps
  <2>3. Len(Outlying(v)) = Cardinality(FarAt(v)) /\ Outlying(v) \in Seq(Int)
    BY <1>3, <2>2 DEF Keeps
  <2> DEFINE k == Cardinality(FarAt(v))
             p == Spread(v)
             n == Len(v)
  <2>4. k \in Nat
    BY <2>3
  <2>5. Len(v) # 0 /\ Spread(v) # 0
    BY <1>1, <1>3 DEF Measurable
  <2>6. p \in Int /\ 0 < p /\ (25 * p + 1) * k <= 4 * n * p /\ n \in Nat
    BY <1>1, <1>3, <2>5, FewAreFar
  <2>7. 25 * k <= 4 * n
    <3> HIDE DEF k, p, n
    <3>1. SUFFICES ASSUME 4 * n <= 25 * k - 1 PROVE FALSE
      BY <2>4, <2>6
    <3>2. (4 * n) * p <= (25 * k - 1) * p
      BY <2>4, <2>6, <3>1
    <3>3. (25 * p + 1) * k = (25 * k) * p + k /\ 4 * n * p = (4 * n) * p
      BY <2>4, <2>6
    <3>4. (25 * k - 1) * p = (25 * k) * p - p
      BY <2>4, <2>6
    <3>5. (25 * k) * p \in Int /\ (4 * n) * p \in Int
      BY <2>4, <2>6
    <3> QED
      BY <2>4, <2>6, <3>2, <3>3, <3>4, <3>5
  <2> QED
    BY <2>3, <2>7
<1> QED
  BY <1>2, <1>3, OutlyingAreFar

-----------------------------------------------------------------------------
(***************************************************************************)
(* The table and its columns.                                              *)
(***************************************************************************)
TableType == table \in Seq(Rows)

\* The table is a sequence of rows, whatever rows the source gives.
THEOREM TablesAreOfRows == Spec => []TableType
<1>1. Init => TableType
  BY DEF Init, TableType
<1>2. TableType /\ [AddRow]_table => TableType'
  BY DEF TableType, AddRow
<1> QED
  BY <1>1, <1>2, PTL DEF Spec

\* All rows have Width columns, and a value in each.
LEMMA RowsAreWide ==
  /\ Width \in Nat
  /\ \A row \in Rows : row \in Seq(Values) /\ Len(row) = Width
<1>1. PICK row \in Rows : TRUE
  BY RowsAssumption
<1>2. Len(row) \in {Len(r) : r \in Rows}
  OBVIOUS
<1>3. Width \in {Len(r) : r \in Rows}
  BY <1>2, Zenon DEF Width
<1>4. PICK r \in Rows : Width = Len(r)
  BY <1>3
<1>5. \A s \in Rows : s \in Seq(Values) /\ Len(s) = Len(r)
  BY <1>4, RowsAssumption, Zenon
<1>6. Len(r) \in Nat
  BY <1>4, <1>5
<1> QED
  BY <1>4, <1>5, <1>6

\* What is picked has the type of the positions it is picked at.
LEMMA PickedType ==
  ASSUME NEW X, NEW s \in Seq(X), NEW at \in SUBSET (1..Len(s)),
         NEW Y, \A i \in at : s[i] \in Y
  PROVE  Picked(s, at) \in Seq(Y)
<1>1. Picked(s, at) \in Seq(X) /\ Keeps(Picked(s, at), s, at)
  BY PickedKeeps
<1> DEFINE p == Picked(s, at)
<1> HIDE DEF p
<1>2. p \in Seq(X) /\ Keeps(p, s, at)
  BY <1>1 DEF p
<1>3. \A n \in 1..Len(p) : p[n] \in Y
  BY <1>2 DEF Keeps
<1>4. p = [n \in 1..Len(p) |-> p[n]] /\ Len(p) \in Nat
  BY <1>2
<1>5. p \in [1..Len(p) -> Y]
  BY <1>3, <1>4
<1>6. p \in Seq(Y)
  BY <1>4, <1>5
<1> QED
  BY <1>6 DEF p

\* A column has the value of each row.
LEMMA ColumnsAreLong ==
  ASSUME TableType, NEW c \in 1..Width
  PROVE  /\ Column(c) \in Seq(Values) /\ Len(Column(c)) = Len(table)
         /\ \A i \in 1..Len(table) : Column(c)[i] = table[i][c] /\ table[i][c] \in Values
<1>1. Len(table) \in Nat /\ DOMAIN table = 1..Len(table)
  BY DEF TableType
<1>2. \A i \in 1..Len(table) : table[i] \in Rows
  BY DEF TableType
<1>3. \A row \in Rows : row[c] \in Values
  BY RowsAreWide
<1>4. \A i \in 1..Len(table) : table[i][c] \in Values
  BY <1>2, <1>3
<1>5. Column(c) = [i \in 1..Len(table) |-> table[i][c]]
  BY <1>1, Zenon DEF Column
<1>6. Column(c) \in [1..Len(table) -> Values]
  BY <1>4, <1>5
<1>7. Column(c) \in Seq(Values) /\ Len(Column(c)) = Len(table)
  BY <1>1, <1>5, <1>6
<1> QED
  BY <1>4, <1>5, <1>7

\* The rows with a number in a column.
NumbersAt(c) == {i \in 1..Len(table) : IsNumber(table[i][c])}

\* The floats of a column are the numbers in it, finite or not.
Numbers == Int \union Infinite \union {NaN}

\* They are numbers and values, each at a row that has one.
LEMMA FloatsAreNumbers ==
  ASSUME TableType, NEW c \in 1..Width
  PROVE  /\ Floats(c) \in Seq(Numbers) /\ Floats(c) \in Seq(Values)
         /\ Keeps(Floats(c), Column(c), NumbersAt(c))
<1>1. Column(c) \in Seq(Values) /\ Len(Column(c)) = Len(table)
  BY ColumnsAreLong
<1>2. \A i \in 1..Len(table) : Column(c)[i] = table[i][c] /\ table[i][c] \in Values
  BY ColumnsAreLong
<1>3. DOMAIN Column(c) = 1..Len(table)
  BY <1>1
<1>4. {i \in DOMAIN Column(c) : IsNumber(Column(c)[i])} = NumbersAt(c)
  BY <1>2, <1>3, Zenon DEF NumbersAt
<1>5. Floats(c) = Picked(Column(c), NumbersAt(c))
  BY <1>4, Zenon DEF Floats, Where
<1>6. NumbersAt(c) \in SUBSET (1..Len(Column(c)))
  BY <1>1 DEF NumbersAt
<1>7. \A i \in NumbersAt(c) : Column(c)[i] \in Numbers
  <2>1. \A v \in Values : IsNumber(v) => v \in Numbers
    BY DEF Values, IsNumber, Numbers
  <2> QED
    BY <1>2, <2>1 DEF NumbersAt
<1>8. Picked(Column(c), NumbersAt(c)) \in Seq(Numbers)
  BY <1>1, <1>6, <1>7, PickedType
<1>9. Picked(Column(c), NumbersAt(c)) \in Seq(Values) /\ Keeps(Picked(Column(c), NumbersAt(c)), Column(c), NumbersAt(c))
  BY <1>1, <1>6, PickedKeeps
<1> QED
  BY <1>5, <1>8, <1>9

\* At most 4 of 25 values of a column are outliers, in every table
\* (anomaly_detector.py:25-47).
THEOREM FewOutliers == Spec => []OutliersAreRare
<1>1. TableType => OutliersAreRare
  <2> SUFFICES ASSUME TableType, NEW c \in 1..Width
               PROVE  25 * Len(Outlying(Floats(c))) <= 4 * Len(Floats(c))
    BY Zenon DEF OutliersAreRare
  <2>1. Floats(c) \in Seq(Values)
    BY FloatsAreNumbers
  <2> QED
    BY <2>1, RareOutliers
<1> QED
  BY <1>1, TablesAreOfRows, PTL

-----------------------------------------------------------------------------
(***************************************************************************)
(* Drops.                                                                  *)
(***************************************************************************)
\* FirstOf takes a sequence as it is if it is not too long.
LEMMA FirstOfType ==
  ASSUME NEW X, NEW s \in Seq(X), NEW k \in Nat
  PROVE  /\ FirstOf(s, k) \in Seq(X)
         /\ Len(FirstOf(s, k)) = IF k <= Len(s) THEN k ELSE Len(s)
         /\ Len(s) <= k => FirstOf(s, k) = s
<1> DEFINE m == Min({k, Len(s)})
<1>1. Len(s) \in Nat
  OBVIOUS
<1>2. \E x \in {k, Len(s)} : \A y \in {k, Len(s)} : x <= y
  BY <1>1
<1>3. m \in {k, Len(s)} /\ \A y \in {k, Len(s)} : m <= y
  <2> DEFINE S == {k, Len(s)}
  <2>1. \E x \in S : \A y \in S : x <= y
    BY <1>2
  <2> HIDE DEF S
  <2>2. Min(S) \in S /\ \A y \in S : Min(S) <= y
    BY <2>1, Zenon DEF Min
  <2> QED
    BY <2>2 DEF S
<1>4. m = IF k <= Len(s) THEN k ELSE Len(s)
  <2> HIDE DEF m
  <2> QED
    BY <1>1, <1>3
<1>5. FirstOf(s, k) = SubSeq(s, 1, m)
  BY Zenon DEF FirstOf
<1> HIDE DEF m
<1>6. m \in Nat /\ m <= Len(s)
  BY <1>1, <1>4
<1>7. SubSeq(s, 1, m) \in Seq(X) /\ Len(SubSeq(s, 1, m)) = m
  BY <1>6
<1>8. m = Len(s) => SubSeq(s, 1, m) = s
  BY <1>6
<1> QED
  BY <1>1, <1>4, <1>5, <1>7, <1>8

Kinds == {"outlier", "spike", "drop", "concentration", "nulls"}
Said == Numbers \union {MostCommon(Floats(c)) : c \in 1..Width}
            \union {CountOf(NULL, Column(c)) : c \in 1..Width}
HasNegative(values) == \E j \in DOMAIN values : Negative(values[j])

\* The alerts that DropsEndBelowZero allows.
Honest == {a \in [kind : Kinds, column : 1..Width, value : Said] :
              a.kind = "drop" => HasNegative(Floats(a.column))}

\* An alert is honest if it is no drop, or one in a column with a negative number.
LEMMA AlertsAreHonest ==
  ASSUME NEW k \in Kinds, NEW c \in 1..Width, NEW v \in Said, k = "drop" => HasNegative(Floats(c))
  PROVE  Alert(k, c, v) \in Honest
BY DEF Alert, Honest

\* The alerts of each kind are honest: outliers are no drops.
LEMMA OutliersAreHonest ==
  ASSUME TableType, NEW c \in 1..Width
  PROVE  Outliers(Floats(c), c) \in Seq(Honest)
<1> DEFINE values == Floats(c)
           found == FirstOf(Outlying(values), 3)
<1>1. values \in Seq(Values)
  BY FloatsAreNumbers
<1>2. Outlying(values) \in Seq(Int)
  BY <1>1, RareOutliers
<1>3. found \in Seq(Int)
  BY <1>2, FirstOfType
<1>4. Outliers(values, c) = [i \in DOMAIN found |-> Alert("outlier", c, found[i])]
  BY Zenon DEF Outliers
<1> HIDE DEF found, values
<1>5. DOMAIN found = 1..Len(found) /\ Len(found) \in Nat
  BY <1>3
<1>6. \A i \in DOMAIN found : Alert("outlier", c, found[i]) \in Honest
  <2> TAKE i \in DOMAIN found
  <2>1. found[i] \in Said
    BY <1>3, <1>5 DEF Said, Numbers
  <2>2. "outlier" \in Kinds /\ "outlier" # "drop"
    BY DEF Kinds
  <2> QED
    BY <2>1, <2>2, AlertsAreHonest
<1>7. Outliers(values, c) \in Seq(Honest)
  BY <1>4, <1>5, <1>6
<1> QED
  BY <1>7 DEF values

\* A drop of more than 100 % begins or ends below zero.
LEMMA JumpsDownAreNegative ==
  ASSUME NEW prev, NEW curr \in Numbers, Jumps(prev, curr), ~ Upwards(prev, curr)
  PROVE  Negative(prev) \/ Negative(curr)
<1>1. prev \in Int
  BY DEF Jumps
<1>2. CASE curr \in Infinite
  BY <1>2 DEF Upwards, Negative, Infinite
<1>3. CASE curr \in Int /\ Abs(curr - prev) > Abs(prev)
  <2>1. ~ (curr > prev)
    BY <1>3 DEF Upwards
  <2>2. prev < 0 \/ curr < 0
    BY <1>1, <1>3, <2>1 DEF Abs
  <2> QED
    BY <1>1, <1>3, <2>2 DEF Negative
<1> QED
  BY <1>2, <1>3 DEF Jumps

\* A drop among the spikes is a jump down.
LEMMA SpikesAreHonest ==
  ASSUME TableType, NEW c \in 1..Width
  PROVE  Spikes(Floats(c), c) \in Seq(Honest)
<1> DEFINE values == Floats(c)
           n == Len(values)
           steps == [i \in 1..(n - 1) |-> <<values[i], values[i + 1]>>]
           at == {i \in DOMAIN steps : Jumps(steps[i][1], steps[i][2])}
           found == FirstOf(Picked(steps, at), 2)
           Jumping == {p \in Numbers \X Numbers :
                         /\ Jumps(p[1], p[2])
                         /\ Negative(p[1]) \/ Negative(p[2]) => HasNegative(values)}
           kind(p) == IF Upwards(p[1], p[2]) THEN "spike" ELSE "drop"
<1>1. values \in Seq(Numbers)
  BY FloatsAreNumbers
<1>2. CASE n < 4
  <2>1. Spikes(values, c) = <<>>
    BY <1>2, Zenon DEF Spikes
  <2> QED
    BY <2>1
<1>3. CASE ~ (n < 4)
  <2>1. Spikes(values, c) = [i \in DOMAIN found |-> Alert(kind(found[i]), c, found[i][2])]
    BY <1>3, Zenon DEF Spikes, Where
  <2>2. n \in Nat /\ DOMAIN values = 1..n
    <3> HIDE DEF values
    <3> QED
      BY <1>1
  <2>3. n - 1 \in Nat /\ \A i \in 1..(n - 1) : i \in 1..n /\ i + 1 \in 1..n
    <3> HIDE DEF n
    <3> QED
      BY <1>3, <2>2
  <2> HIDE DEF values
  <2>4. \A i \in 1..n : values[i] \in Numbers
    BY <1>1
  <2>5. steps \in Seq(Numbers \X Numbers) /\ Len(steps) = n - 1 /\ DOMAIN steps = 1..(n - 1)
    BY <2>3, <2>4
  <2>6. \A i \in 1..(n - 1) : steps[i] = <<values[i], values[i + 1]>>
    OBVIOUS
  <2> HIDE DEF n, steps
  <2>7. \A i \in at : steps[i] \in Jumping
    <3> TAKE i \in at
    <3>1. i \in 1..(n - 1)
      BY <2>5
    <3>2. steps[i] = <<values[i], values[i + 1]>> /\ values[i] \in Numbers /\ values[i + 1] \in Numbers
      BY <2>3, <2>4, <2>6, <3>1
    <3>3. Negative(values[i]) \/ Negative(values[i + 1]) => HasNegative(values)
      BY <2>2, <2>3, <3>1 DEF HasNegative
    <3>4. Jumps(steps[i][1], steps[i][2])
      OBVIOUS
    <3> QED
      BY <3>2, <3>3, <3>4
  <2>8. at \in SUBSET (1..Len(steps))
    BY <2>5
  <2> HIDE DEF at, Jumping
  <2>9. Picked(steps, at) \in Seq(Jumping)
    BY <2>5, <2>7, <2>8, PickedType
  <2>10. found \in Seq(Jumping)
    BY <2>9, FirstOfType
  <2> HIDE DEF found
  <2>11. DOMAIN found = 1..Len(found) /\ Len(found) \in Nat
    BY <2>10
  <2>12. \A i \in DOMAIN found : Alert(kind(found[i]), c, found[i][2]) \in Honest
    <3> TAKE i \in DOMAIN found
    <3> DEFINE p == found[i]
    <3>1. p \in Jumping
      BY <2>10, <2>11
    <3> HIDE DEF p
    <3>2. p[1] \in Numbers /\ p[2] \in Numbers /\ Jumps(p[1], p[2])
      BY <3>1 DEF Jumping
    <3>3. Negative(p[1]) \/ Negative(p[2]) => HasNegative(values)
      BY <3>1 DEF Jumping
    <3>4. kind(p) = "drop" => HasNegative(values)
      <4>1. ~ Upwards(p[1], p[2]) => Negative(p[1]) \/ Negative(p[2])
        BY <3>2, JumpsDownAreNegative
      <4>2. kind(p) = "drop" => ~ Upwards(p[1], p[2])
        OBVIOUS
      <4> QED
        BY <3>3, <4>1, <4>2
    <3>5. kind(p) \in Kinds /\ p[2] \in Said
      BY <3>2 DEF Kinds, Said
    <3> HIDE DEF kind
    <3>6. Alert(kind(p), c, p[2]) \in Honest
      BY <3>4, <3>5, AlertsAreHonest DEF values
    <3> QED
      BY <3>6 DEF p
  <2> HIDE DEF kind
  <2>13. Spikes(values, c) \in [DOMAIN found -> Honest]
    BY <2>1, <2>12, Zenon
  <2> DEFINE m == Len(found)
  <2>14. Spikes(values, c) \in [1..m -> Honest] /\ m \in Nat
    BY <2>11, <2>13, Zenon
  <2> HIDE DEF m
  <2>15. Spikes(values, c) \in Seq(Honest)
    BY <2>14
  <2> QED
    BY <2>15 DEF values
<1> QED
  BY <1>2, <1>3 DEF values

\* One alert, or none.
LEMMA AtMostOne ==
  <<>> \in Seq(Honest) /\ \A a \in Honest : <<a>> \in Seq(Honest)
OBVIOUS

\* All alerts of a column are honest.
LEMMA ColumnsAreHonest ==
  ASSUME TableType, NEW c \in 1..Width
  PROVE  ColumnAlerts(c) \in Seq(Honest) /\ NullConcentration(c) \in Seq(Honest)
<1>1. Concentration(Floats(c), c) \in Seq(Honest)
  <2> DEFINE v == MostCommon(Floats(c))
  <2>1. Concentration(Floats(c), c) \in {<<Alert("concentration", c, v)>>, <<>>}
    BY Zenon DEF Concentration
  <2>2. Alert("concentration", c, v) \in Honest
    <3>1. v \in Said
      BY DEF Said
    <3>2. "concentration" \in Kinds /\ "concentration" # "drop"
      BY DEF Kinds
    <3> HIDE DEF v
    <3> QED
      BY <3>1, <3>2, AlertsAreHonest
  <2> QED
    BY <2>1, <2>2, AtMostOne, Zenon
<1>2. NullConcentration(c) \in Seq(Honest)
  <2> DEFINE v == CountOf(NULL, Column(c))
  <2>1. NullConcentration(c) \in {<<Alert("nulls", c, v)>>, <<>>}
    BY Zenon DEF NullConcentration
  <2>2. Alert("nulls", c, v) \in Honest
    <3>1. v \in Said
      BY DEF Said
    <3>2. "nulls" \in Kinds /\ "nulls" # "drop"
      BY DEF Kinds
    <3> HIDE DEF v
    <3> QED
      BY <3>1, <3>2, AlertsAreHonest
  <2> QED
    BY <2>1, <2>2, AtMostOne, Zenon
<1>3. ColumnAlerts(c) \in Seq(Honest)
  <2> DEFINE all == Outliers(Floats(c), c) \o Spikes(Floats(c), c) \o Concentration(Floats(c), c)
  <2>1. all \in Seq(Honest)
    BY <1>1, OutliersAreHonest, SpikesAreHonest
  <2>2. ColumnAlerts(c) \in {<<>>, all}
    BY Zenon DEF ColumnAlerts
  <2> QED
    BY <2>1, <2>2, AtMostOne, Zenon
<1> QED
  BY <1>2, <1>3

\* So are those that the answer carries.
LEMMA AnomaliesAreHonest ==
  ASSUME TableType
  PROVE  Anomalies \in Seq(Honest)
<1> DEFINE of == [c \in 1..Width |-> ColumnAlerts(c)]
           nulls == [c \in 1..Width |-> NullConcentration(c)]
<1>1. Width \in Nat
  BY RowsAreWide
<1>2. of \in Seq(Seq(Honest)) /\ nulls \in Seq(Seq(Honest))
  <2>1. \A c \in 1..Width : ColumnAlerts(c) \in Seq(Honest) /\ NullConcentration(c) \in Seq(Honest)
    BY ColumnsAreHonest
  <2> DEFINE S == Seq(Honest)
  <2> HIDE DEF S
  <2>2. of \in [1..Width -> S] /\ nulls \in [1..Width -> S]
    BY <2>1, Zenon DEF S
  <2> HIDE DEF of, nulls
  <2>3. of \in Seq(S) /\ nulls \in Seq(S)
    BY <1>1, <2>2
  <2> QED
    BY <2>3 DEF S
<1>3. Found = FlattenSeq(of) \o FlattenSeq(nulls)
  BY Zenon DEF Found
<1> HIDE DEF of, nulls
<1>4. FlattenSeq(of) \in Seq(Honest) /\ FlattenSeq(nulls) \in Seq(Honest)
  BY <1>2, Flattened
<1>5. Found \in Seq(Honest)
  BY <1>3, <1>4
<1>6. FirstOf(Found, 5) \in Seq(Honest)
  BY <1>5, FirstOfType
<1>7. Anomalies \in {<<>>, FirstOf(Found, 5)}
  BY Zenon DEF Anomalies
<1> QED
  BY <1>6, <1>7, AtMostOne, Zenon

\* A column without a negative number is never said to drop, in every table
\* (anomaly_detector.py:68-88).
THEOREM NoDropAboveZero == Spec => []DropsEndBelowZero
<1>1. TableType => DropsEndBelowZero
  <2> SUFFICES ASSUME TableType PROVE DropsEndBelowZero
    OBVIOUS
  <2>1. \A i \in DOMAIN Anomalies : Anomalies[i] \in Honest
    <3>1. Anomalies \in Seq(Honest)
      BY AnomaliesAreHonest
    <3> DEFINE alerts == Anomalies
    <3> HIDE DEF alerts
    <3>2. alerts \in Seq(Honest)
      BY <3>1 DEF alerts
    <3>3. \A i \in DOMAIN alerts : alerts[i] \in Honest
      BY <3>2
    <3> QED
      BY <3>3 DEF alerts
  <2>2. \A i \in DOMAIN Anomalies : Anomalies[i].kind = "drop" =>
            HasNegative(Floats(Anomalies[i].column))
    BY <2>1 DEF Honest
  <2> QED
    BY <2>2, Zenon DEF DropsEndBelowZero, HasNegative
<1> QED
  BY <1>1, TablesAreOfRows, PTL
=============================================================================
