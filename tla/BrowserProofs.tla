---------------------------- MODULE BrowserProofs ----------------------------
(***************************************************************************)
(* Proofs about the browser window, for any number of questions, words,    *)
(* sessions and uploads, and any way of cutting the streams into chunks.   *)
(*                                                                         *)
(* The heart is StreamInv: what is left over of the chunks so far, with    *)
(* what is still on its way, is exactly the pieces of the events that were *)
(* sent and not handled.  That a message is whole, and that a stream that  *)
(* has come to its end gave an answer, follow from it.                     *)
(***************************************************************************)
EXTENDS Browser, Integers, FiniteSetTheorems, SequenceTheorems, TLAPS

-----------------------------------------------------------------------------
(***************************************************************************)
(* What Picked takes from a sequence.                                      *)
(***************************************************************************)
\* f gives k positions, each of them after the ones before.
Rising(f, k) == \A a, b \in 1..k : a < b => f[a] < f[b]

Positions(f, k) == {f[a] : a \in 1..k}
InOrder(s, f, k) == [n \in 1..k |-> s[f[n]]]

\* There are k of them.
LEMMA Counted ==
  ASSUME NEW k \in Nat, NEW f \in [1..k -> Nat], Rising(f, k)
  PROVE  Cardinality({f[a] : a \in 1..k}) = k
<1> DEFINE S == {f[a] : a \in 1..k}
<1>1. f \in [1..k -> S]
  OBVIOUS
<1>2. ASSUME NEW a \in 1..k, NEW b \in 1..k, f[a] = f[b] PROVE a = b
  <2>1. ~ (a < b) /\ ~ (b < a)
    BY <1>2 DEF Rising
  <2> QED
    BY <2>1
<1>3. \A t \in S : \E a \in 1..k : f[a] = t
  OBVIOUS
<1> HIDE DEF S
<1>4. f \in Bijection(1..k, S)
  BY <1>1, <1>2, <1>3 DEF Bijection, Injection, Surjection, IsInjective
<1>5. ExistsBijection(1..k, S)
  BY <1>4 DEF ExistsBijection
<1>6. Cardinality(S) = k
  BY <1>5, FS_CountingElements
<1> QED
  BY <1>6 DEF S

\* Positions in rising order are picked in that order.
LEMMA PickedAt ==
  ASSUME NEW s, NEW k \in Nat, NEW f \in [1..k -> Nat], Rising(f, k)
  PROVE  Picked(s, Positions(f, k)) = InOrder(s, f, k)
<1> DEFINE at == {f[a] : a \in 1..k}
           rank(i) == Cardinality({j \in at : j <= i})
<1>1. ASSUME NEW n \in 1..k PROVE rank(f[n]) = n
  <2> DEFINE g == [a \in 1..n |-> f[a]]
  <2>1. n \in Nat /\ \A a \in 1..n : a \in 1..k /\ g[a] = f[a]
    OBVIOUS
  <2>2. g \in [1..n -> Nat]
    BY <2>1
  <2>3. Rising(g, n)
    BY <2>1 DEF Rising
  <2>4. {j \in at : j <= f[n]} = {g[a] : a \in 1..n}
    <3>1. ASSUME NEW a \in 1..k, f[a] <= f[n] PROVE a \in 1..n
      <4>1. a \in Nat /\ n \in Nat /\ ~ (n < a)
        BY <3>1 DEF Rising
      <4> QED
        BY <4>1
    <3>2. ASSUME NEW a \in 1..n PROVE f[a] <= f[n]
      BY <2>1 DEF Rising
    <3> HIDE DEF g
    <3> QED
      BY <2>1, <3>1, <3>2
  <2> HIDE DEF g
  <2>5. Cardinality({g[a] : a \in 1..n}) = n
    BY <2>1, <2>2, <2>3, Counted
  <2> QED
    BY <2>4, <2>5
<1>2. Cardinality(at) = k
  BY Counted
<1>3. ASSUME NEW n \in 1..k PROVE (CHOOSE i \in at : rank(i) = n) = f[n]
  <2>1. f[n] \in at /\ rank(f[n]) = n
    BY <1>1
  <2>2. ASSUME NEW i \in at, rank(i) = n PROVE i = f[n]
    <3>1. PICK a \in 1..k : i = f[a]
      OBVIOUS
    <3>2. rank(i) = a
      BY <1>1, <3>1
    <3> QED
      BY <2>2, <3>1, <3>2
  <2> HIDE DEF at, rank
  <2> QED
    BY <2>1, <2>2
<1> HIDE DEF at
<1>4. Picked(s, at) = [n \in 1..k |-> s[CHOOSE i \in at : rank(i) = n]]
  BY <1>2, Zenon DEF Picked
<1>5. Picked(s, at) = [n \in 1..k |-> s[f[n]]]
  <2> HIDE DEF rank
  <2> QED
    BY <1>3, <1>4, Zenon
<1> QED
  BY <1>5 DEF at, Positions, InOrder

-----------------------------------------------------------------------------
(***************************************************************************)
(* What a chunk is, and what submit() and streamQuery() make of it.        *)
(***************************************************************************)

\* The pieces of k events of q's stream, the first of them the one after d.
Halves(q, d, k) ==
    [j \in 1..(2 * k) |-> [of |-> <<q, d + ((j + 1) \div 2)>>, ends |-> j % 2 = 0]]

\* What is left of the last chunk and what is on its way.
Ahead(r, w, q, d, k) == r \o w = Halves(q, d, k)

\* The first m of these.
Chunk(bytes, q, d, k, m) == bytes = [j \in 1..m |-> Halves(q, d, k)[j]]

\* A chunk's lines end at its even positions.
LinesAre(bytes, q, d, e, m) ==
    /\ Whole(bytes) = {2 * a : a \in 1..e}
    /\ \A a \in 1..e : 2 * a \in 1..m /\ bytes[2 * a].of = <<q, d + a>>

LEMMA WholeLines ==
  ASSUME NEW q, NEW d \in Nat, NEW k \in Nat, NEW m \in 1..(2 * k),
         NEW bytes, Chunk(bytes, q, d, k, m), NEW e \in Nat, e = m \div 2
  PROVE  LinesAre(bytes, q, d, e, m)
<1>1. m \in Nat /\ \A j \in 1..m : j \in Nat /\ j \in 1..(2 * k)
  OBVIOUS
<1>2. \A j \in 1..m : /\ bytes[j].ends <=> j % 2 = 0
                      /\ bytes[j].of = <<q, d + ((j + 1) \div 2)>>
  BY <1>1 DEF Halves, Chunk
<1>3. DOMAIN bytes = 1..m
  BY DEF Chunk
<1>4. \A j \in 1..m : (bytes[j].ends /\ j > 1 /\ ~bytes[j - 1].ends) <=> j % 2 = 0
  <2>1. \A j \in 1..m : j % 2 = 0 => j > 1 /\ j - 1 \in 1..m /\ (j - 1) % 2 # 0
    BY <1>1
  <2> QED
    BY <1>2, <2>1
<1>5. \A a \in 1..e : 2 * a \in 1..m /\ (2 * a) % 2 = 0 /\ (2 * a + 1) \div 2 = a
  BY <1>1
<1>6. \A j \in 1..m : j % 2 = 0 => j \div 2 \in 1..e /\ j = 2 * (j \div 2)
  BY <1>1
<1>7. Whole(bytes) = {j \in 1..m : j % 2 = 0}
  BY <1>3, <1>4 DEF Whole
<1> QED
  BY <1>2, <1>5, <1>6, <1>7 DEF LinesAre

\* The tokens among a chunk's events, when the first t of its e events are.
FirstTokens(d, e, t) == \A a \in 1..e : d + a <= Words <=> a <= t
WordsAfter(q, d, t) == [a \in 1..t |-> <<q, d + a>>]

TokensAre(bytes, q, d, e, t) ==
    /\ WordsIn(bytes) = WordsAfter(q, d, t)
    /\ Tokens(bytes) = {} <=> t = 0
    /\ Tokens(bytes) = Whole(bytes) <=> t = e

LEMMA WordsOf ==
  ASSUME NEW q, NEW d \in Nat, NEW k \in Nat, NEW m \in 1..(2 * k),
         NEW bytes, Chunk(bytes, q, d, k, m),
         NEW e \in Nat, e = m \div 2, NEW t \in 0..e, FirstTokens(d, e, t)
  PROVE  TokensAre(bytes, q, d, e, t)
<1> DEFINE tokens == {i \in Whole(bytes) : IsToken(bytes[i].of)}
           of == [i \in DOMAIN bytes |-> bytes[i].of]
           even == [a \in 1..t |-> 2 * a]
<1>1. e \in Nat /\ t \in Nat /\ \A a \in 1..t : a \in 1..e
  OBVIOUS
<1>2. /\ Whole(bytes) = {2 * a : a \in 1..e}
      /\ \A a \in 1..e : 2 * a \in 1..m /\ bytes[2 * a].of = <<q, d + a>>
  <2>1. LinesAre(bytes, q, d, e, m)
    BY WholeLines
  <2> QED
    BY <2>1 DEF LinesAre
<1>3. \A a \in 1..e : IsToken(bytes[2 * a].of) <=> a <= t
  <2>1. \A a \in 1..e : bytes[2 * a].of[2] = d + a
    BY <1>2
  <2> QED
    BY <2>1 DEF IsToken, FirstTokens
<1>4. \A a \in 1..e : a <= t <=> a \in 1..t
  BY <1>1
<1>5. tokens = {2 * a : a \in 1..t}
  BY <1>1, <1>2, <1>3, <1>4
<1>6. tokens = {even[a] : a \in 1..t}
  BY <1>5
<1>7. even \in [1..t -> Nat] /\ Rising(even, t)
  BY <1>1 DEF Rising
<1>8. \A a \in 1..t : of[even[a]] = <<q, d + a>>
  <2>1. DOMAIN bytes = 1..m
    BY DEF Chunk
  <2> QED
    BY <1>1, <1>2, <2>1
<1>9. Picked(of, tokens) = [a \in 1..t |-> <<q, d + a>>]
  <2> HIDE DEF of, tokens, even
  <2>1. t \in Nat
    BY <1>1
  <2>2. Picked(of, Positions(even, t)) = InOrder(of, even, t)
    BY <1>7, <2>1, PickedAt
  <2>3. tokens = Positions(even, t)
    BY <1>6 DEF Positions
  <2>4. InOrder(of, even, t) = [a \in 1..t |-> <<q, d + a>>]
    BY <1>8 DEF InOrder
  <2> QED
    BY <2>2, <2>3, <2>4
<1>10. tokens = {} <=> t = 0
  <2>1. t # 0 => 2 * 1 \in tokens
    BY <1>1, <1>5
  <2> QED
    BY <1>5, <2>1
<1>11. tokens = Whole(bytes) <=> t = e
  <2>1. ASSUME t # e PROVE 2 * e \in Whole(bytes) /\ 2 * e \notin tokens
    <3>1. e \in 1..e /\ \A a \in 1..t : 2 * a # 2 * e
      BY <1>1, <2>1
    <3> QED
      BY <1>2, <1>5, <3>1
  <2> QED
    BY <1>2, <1>5, <2>1
<1> QED
  BY <1>9, <1>10, <1>11 DEF TokensAre, WordsAfter, Tokens, WordsIn

\* Two sequences of a and b pieces, one after the other.
InARow(both, s, t, a, b) ==
    /\ both \in Seq(Pieces) /\ Len(both) = a + b /\ DOMAIN both = 1..(a + b)
    /\ both = [i \in 1..(a + b) |-> both[i]]
    /\ \A i \in 1..a : both[i] = s[i]
    /\ \A i \in 1..b : both[a + i] = t[i]

LEMMA Joined ==
  ASSUME NEW s \in Seq(Pieces), NEW t \in Seq(Pieces),
         NEW a \in Nat, Len(s) = a, NEW b \in Nat, Len(t) = b
  PROVE  InARow(s \o t, s, t, a, b)
<1>1. /\ s \o t \in Seq(Pieces) /\ Len(s \o t) = a + b /\ DOMAIN (s \o t) = 1..(a + b)
      /\ \A i \in 1..a : (s \o t)[i] = s[i]
      /\ \A i \in 1..b : (s \o t)[a + i] = t[i]
  OBVIOUS
<1>2. s \o t \in [1..Len(s \o t) -> Pieces]
  BY <1>1, LenProperties
<1>3. PICK both : both = s \o t
  OBVIOUS
<1>4. both = [i \in 1..(a + b) |-> both[i]]
  BY <1>1, <1>2, <1>3
<1> QED
  BY <1>1, <1>3, <1>4 DEF InARow

\* A chunk ends after e whole events and p pieces of the next.
LEMMA CutAt ==
  ASSUME NEW a \in 0..1, NEW b \in Nat, NEW k \in Nat, a + b = 2 * k, NEW n \in 1..b
  PROVE  \E e \in 0..k, p \in 0..1 : /\ e = (a + n) \div 2 /\ p = (a + n) % 2
                                     /\ a + n = 2 * e + p
                                     /\ p + (b - n) = 2 * (k - e)
                                     /\ a + n \in 1..(2 * k)
<1> DEFINE m == a + n
<1>1. m \in Nat /\ m <= 2 * k /\ 1 <= m
  OBVIOUS
<1> HIDE DEF m
<1>2. m = 2 * (m \div 2) + (m % 2) /\ m \div 2 \in 0..k /\ m % 2 \in 0..1
  BY <1>1
<1>3. b - n = 2 * k - m
  BY DEF m
<1>4. (m % 2) + (b - n) = 2 * (k - (m \div 2))
  BY <1>1, <1>2, <1>3
<1>5. \E e \in 0..k, p \in 0..1 : /\ e = m \div 2 /\ p = m % 2 /\ m = 2 * e + p
                                  /\ p + (b - n) = 2 * (k - e)
  BY <1>2, <1>4
<1> QED
  BY <1>1, <1>5 DEF m

\* However a stream is cut, its pieces stay in their order: what is left over of
\* a chunk and what is still on its way are the pieces of the events to come.
LEMMA Arrives ==
  ASSUME NEW q, NEW d \in Nat, NEW k \in Nat,
         NEW r \in Seq(Pieces), NEW w \in Seq(Pieces), Len(r) <= 1, Ahead(r, w, q, d, k),
         NEW n \in 1..Len(w)
  PROVE  LET bytes == r \o SubSeq(w, 1, n)
             later == SubSeq(w, n + 1, Len(w))
         IN  /\ later \in Seq(Pieces)
             /\ LeftOver(bytes) \in Seq(Pieces) /\ Len(LeftOver(bytes)) <= 1
             /\ \E m \in 1..(2 * k), e \in 0..k :
                    /\ e = m \div 2
                    /\ Chunk(bytes, q, d, k, m)
                    /\ Ahead(LeftOver(bytes), later, q, d + e, k - e)
<1>1. PICK lr \in 0..1, lw \in Nat : lr = Len(r) /\ lw = Len(w)
  <2>1. Len(r) \in Nat /\ Len(w) \in Nat
    BY LenProperties
  <2>2. PICK lr \in Nat, lw \in Nat : lr = Len(r) /\ lw = Len(w)
    BY <2>1
  <2>3. lr <= 1
    BY <2>2
  <2>4. lr \in 0..1
    BY <2>3
  <2> QED
    BY <2>2, <2>4
<1>2. PICK all : all = Halves(q, d, k)
  OBVIOUS
<1>3. /\ DOMAIN all = 1..(2 * k) /\ Len(all) = 2 * k
      /\ \A i \in 1..(2 * k) : all[i].ends <=> i % 2 = 0
  <2>1. DOMAIN all = 1..(2 * k) /\ Len(all) = 2 * k
    BY <1>2 DEF Halves
  <2>2. \A i \in 1..(2 * k) : all[i].ends = (i % 2 = 0)
    BY <1>2 DEF Halves
  <2> QED
    BY <2>1, <2>2
<1>4. InARow(r \o w, r, w, lr, lw)
  <2>1. lr \in Nat
    OBVIOUS
  <2> QED
    BY <1>1, <2>1, Joined
<1>5. /\ lr + lw = 2 * k
      /\ \A i \in 1..lr : all[i] = r[i]
      /\ \A i \in 1..lw : all[lr + i] = w[i]
  BY <1>2, <1>3, <1>4 DEF InARow, Ahead
<1>6. n \in 1..lw
  BY <1>1
<1>7. PICK e \in 0..k, p \in 0..1 : /\ e = (lr + n) \div 2 /\ p = (lr + n) % 2
                                    /\ lr + n = 2 * e + p
                                    /\ p + (lw - n) = 2 * (k - e)
                                    /\ lr + n \in 1..(2 * k)
  BY <1>5, <1>6, CutAt
<1>8. PICK m \in 1..(2 * k) : m = lr + n
  BY <1>7
<1>9. PICK g \in Nat, c \in Nat : g = lw - n /\ c = k - e
  BY <1>6
<1>10. m = 2 * e + p /\ p + g = 2 * c /\ n + g = lw /\ n \in Nat /\ m % 2 = p /\ e = m \div 2
  BY <1>6, <1>7, <1>8, <1>9
<1>11. PICK early \in Seq(Pieces) :
         early = SubSeq(w, 1, n) /\ Len(early) = n /\ \A i \in 1..n : early[i] = w[i]
  <2>1. /\ SubSeq(w, 1, n) \in Seq(Pieces) /\ Len(SubSeq(w, 1, n)) = n
        /\ \A i \in 1..n : SubSeq(w, 1, n)[i] = w[i]
    BY <1>1, <1>6
  <2> QED
    BY <2>1
<1>12. PICK later \in Seq(Pieces) :
         /\ later = SubSeq(w, n + 1, Len(w))
         /\ Len(later) = g /\ \A i \in 1..g : later[i] = w[n + i]
  <2>1. /\ SubSeq(w, n + 1, lw) \in Seq(Pieces) /\ Len(SubSeq(w, n + 1, lw)) = lw - n
        /\ \A i \in 1..(lw - n) : SubSeq(w, n + 1, lw)[i] = w[n + i]
    BY <1>1, <1>6
  <2> QED
    BY <1>1, <1>9, <2>1
<1>13. PICK bytes \in Seq(Pieces) :
         /\ bytes = r \o early /\ Len(bytes) = m /\ DOMAIN bytes = 1..m
         /\ bytes = [i \in 1..m |-> bytes[i]]
         /\ \A i \in 1..lr : bytes[i] = r[i]
         /\ \A i \in 1..n : bytes[lr + i] = early[i]
  <2>1. lr \in Nat /\ n \in Nat
    BY <1>10
  <2>2. InARow(r \o early, r, early, lr, n)
    BY <1>1, <1>11, <2>1, Joined
  <2> QED
    BY <1>8, <2>2 DEF InARow
<1>14. ASSUME NEW i \in 1..m PROVE bytes[i] = all[i]
  <2>1. CASE i \in 1..lr
    BY <1>5, <1>13, <2>1
  <2>2. CASE i \notin 1..lr
    <3>1. PICK h \in 1..n : i = lr + h /\ h \in 1..lw
      <4>1. i - lr \in 1..n /\ i = lr + (i - lr)
        BY <1>8, <1>10, <2>2
      <4> QED
        BY <1>6, <4>1
    <3> QED
      BY <1>5, <1>11, <1>13, <3>1
  <2> QED
    BY <2>1, <2>2
<1>15. Chunk(bytes, q, d, k, m)
  <2>1. bytes = [j \in 1..m |-> all[j]]
    BY <1>13, <1>14
  <2> QED
    BY <1>2, <2>1 DEF Chunk
<1>16. ASSUME NEW i \in 1..g PROVE later[i] = all[m + i]
  <2>1. n + i \in 1..lw /\ lr + (n + i) = m + i
    BY <1>8, <1>10
  <2> QED
    BY <1>5, <1>12, <2>1
<1>17. bytes[m] = all[m] /\ bytes[m] \in Pieces /\ (all[m].ends <=> p = 0)
  <2>1. m \in 1..m
    OBVIOUS
  <2>2. bytes[m] = all[m]
    BY <1>14, <2>1
  <2>3. bytes[m] \in Pieces
    BY <1>13, <2>1, ElementOfSeq
  <2>4. all[m].ends <=> p = 0
    BY <1>3, <1>10
  <2> QED
    BY <2>2, <2>3, <2>4
<1>18. PICK left \in Seq(Pieces) : /\ left = LeftOver(bytes)
                                   /\ Len(left) = p /\ \A i \in 1..p : left[i] = all[m]
  <2>1. LeftOver(bytes) = IF p = 0 THEN <<>> ELSE <<bytes[m]>>
    BY <1>13, <1>17 DEF LeftOver
  <2>2. LeftOver(bytes) \in Seq(Pieces) /\ Len(LeftOver(bytes)) = p
        /\ \A i \in 1..p : LeftOver(bytes)[i] = all[m]
    <3>1. CASE p = 0
      BY <2>1, <3>1
    <3>2. CASE p = 1
      BY <1>17, <2>1, <3>2
    <3> QED
      BY <3>1, <3>2
  <2> QED
    BY <2>2
<1>19. left \o later = Halves(q, d + e, c)
  <2>1. /\ DOMAIN (left \o later) = 1..(p + g)
        /\ left \o later \in Seq(Pieces)
        /\ \A i \in 1..p : (left \o later)[i] = left[i]
        /\ \A i \in 1..g : (left \o later)[p + i] = later[i]
    <3>1. p \in Nat
      OBVIOUS
    <3>2. InARow(left \o later, left, later, p, g)
      BY <1>12, <1>18, <3>1, Joined
    <3> QED
      BY <3>2 DEF InARow
  <2>2. ASSUME NEW i \in 1..(2 * c) PROVE (left \o later)[i] = all[2 * e + i]
    <3>1. CASE i \in 1..p
      <4>1. 2 * e + i = m
        BY <1>10, <3>1
      <4> QED
        BY <1>18, <2>1, <3>1, <4>1
    <3>2. CASE i \notin 1..p
      <4>1. PICK h \in 1..g : i = p + h /\ m + h = 2 * e + i
        <5>1. i - p \in 1..g /\ i = p + (i - p) /\ m + (i - p) = 2 * e + i
          BY <1>10, <3>2
        <5> QED
          BY <5>1
      <4>2. later[h] = all[m + h]
        BY <1>16
      <4> QED
        BY <2>1, <4>1, <4>2
    <3> QED
      BY <3>1, <3>2
  <2>3. \A i \in 1..(2 * c) : all[2 * e + i] = Halves(q, d + e, c)[i]
    <3> SUFFICES ASSUME NEW i \in 1..(2 * c)
                 PROVE  all[2 * e + i] = Halves(q, d + e, c)[i]
      OBVIOUS
    <3>1. /\ 2 * e + i \in 1..(2 * k)
          /\ d + ((2 * e + i + 1) \div 2) = (d + e) + ((i + 1) \div 2)
          /\ (2 * e + i) % 2 = i % 2
      BY <1>9
    <3> QED
      BY <1>2, <3>1 DEF Halves
  <2>4. PICK both : both = left \o later
    OBVIOUS
  <2>5. both \in Seq(Pieces) /\ DOMAIN both = 1..(2 * c)
    BY <1>10, <2>1, <2>4
  <2>6. \A i \in 1..(2 * c) : both[i] = Halves(q, d + e, c)[i]
    BY <2>2, <2>3, <2>4
  <2>7. both = [i \in 1..(2 * c) |-> Halves(q, d + e, c)[i]]
    BY <2>5, <2>6
  <2>8. Halves(q, d + e, c) = [i \in 1..(2 * c) |-> Halves(q, d + e, c)[i]]
    BY DEF Halves
  <2> QED
    BY <2>4, <2>7, <2>8
<1>20. p <= 1 /\ c = k - e
  BY <1>9
<1>21. \E m1 \in 1..(2 * k), e1 \in 0..k :
           /\ e1 = m1 \div 2
           /\ Chunk(bytes, q, d, k, m1)
           /\ Ahead(left, later, q, d + e1, k - e1)
  BY <1>10, <1>15, <1>19, <1>20 DEF Ahead
<1> QED
  BY <1>11, <1>12, <1>13, <1>18, <1>20, <1>21

\* It does not matter where pieces are joined first.
LEMMA Regrouped ==
  ASSUME NEW x \in Seq(Pieces), NEW y \in Seq(Pieces), NEW z \in Seq(Pieces)
  PROVE  x \o (y \o z) = (x \o y) \o z
BY ConcatAssociative

\* An event is sent after those before it.
LEMMA Departs ==
  ASSUME NEW q \in Questions, NEW d \in Nat, NEW k \in Nat, d + k <= Words,
         NEW r \in Seq(Pieces), NEW w \in Seq(Pieces), Ahead(r, w, q, d, k)
  PROVE  /\ w \o Line(<<q, d + k + 1>>) \in Seq(Pieces)
         /\ Ahead(r, w \o Line(<<q, d + k + 1>>), q, d, k + 1)
<1>1. PICK line \in Seq(Pieces) :
         /\ line = Line(<<q, d + k + 1>>) /\ Len(line) = 2
         /\ line[1] = [of |-> <<q, d + k + 1>>, ends |-> FALSE]
         /\ line[2] = [of |-> <<q, d + k + 1>>, ends |-> TRUE]
  <2>1. <<q, d + k + 1>> \in Questions \X (1..(Words + 1))
    BY WordsAssumption
  <2>2. /\ [of |-> <<q, d + k + 1>>, ends |-> FALSE] \in Pieces
        /\ [of |-> <<q, d + k + 1>>, ends |-> TRUE] \in Pieces
    BY <2>1 DEF Pieces
  <2>3. PICK x \in Pieces, y \in Pieces : /\ x = [of |-> <<q, d + k + 1>>, ends |-> FALSE]
                                          /\ y = [of |-> <<q, d + k + 1>>, ends |-> TRUE]
    BY <2>2
  <2>4. Line(<<q, d + k + 1>>) = <<x, y>>
    BY <2>3 DEF Line
  <2>5. <<x, y>> \in Seq(Pieces) /\ Len(<<x, y>>) = 2 /\ <<x, y>>[1] = x /\ <<x, y>>[2] = y
    OBVIOUS
  <2> QED
    BY <2>3, <2>4, <2>5
<1>2. r \o (w \o line) = (r \o w) \o line
  BY <1>1, Regrouped
<1>3. PICK all \in Seq(Pieces) : all = r \o w
  <2>1. r \o w \in Seq(Pieces)
    OBVIOUS
  <2> QED
    BY <2>1
<1>4. Len(all) = 2 * k /\ 2 * k \in Nat
  BY <1>3 DEF Halves, Ahead
<1>5. PICK both \in Seq(Pieces) :
        /\ both = all \o line /\ DOMAIN both = 1..(2 * k + 2)
        /\ both = [i \in 1..(2 * k + 2) |-> both[i]]
        /\ \A i \in 1..(2 * k) : both[i] = all[i]
        /\ \A i \in 1..2 : both[2 * k + i] = line[i]
  <2>1. 2 \in Nat
    OBVIOUS
  <2>2. InARow(all \o line, all, line, 2 * k, 2)
    BY <1>1, <1>4, <2>1, Joined
  <2> QED
    BY <1>4, <2>2 DEF InARow
<1>6. ASSUME NEW i \in 1..(2 * k + 2)
      PROVE  both[i] = [of |-> <<q, d + ((i + 1) \div 2)>>, ends |-> i % 2 = 0]
  <2>1. CASE i \in 1..(2 * k)
    BY <1>3, <1>5, <2>1 DEF Halves, Ahead
  <2>2. CASE i = 2 * k + 1
    <3>1. (i + 1) \div 2 = k + 1 /\ i % 2 # 0 /\ d + (k + 1) = d + k + 1
      BY <2>2
    <3>2. both[2 * k + 1] = line[1]
      <4>1. 1 \in 1..2
        OBVIOUS
      <4> QED
        BY <1>5, <4>1
    <3> QED
      BY <1>1, <2>2, <3>1, <3>2
  <2>3. CASE i = 2 * k + 2
    <3>1. (i + 1) \div 2 = k + 1 /\ i % 2 = 0 /\ d + (k + 1) = d + k + 1
      BY <2>3
    <3>2. both[2 * k + 2] = line[2]
      <4>1. 2 \in 1..2
        OBVIOUS
      <4> QED
        BY <1>5, <4>1
    <3> QED
      BY <1>1, <2>3, <3>1, <3>2
  <2>4. i \in 1..(2 * k) \/ i = 2 * k + 1 \/ i = 2 * k + 2
    OBVIOUS
  <2> QED
    BY <2>1, <2>2, <2>3, <2>4
<1>7. 2 * (k + 1) = 2 * k + 2
  OBVIOUS
<1>8. PICK next : next = Halves(q, d, k + 1)
  OBVIOUS
<1>9. both = Halves(q, d, k + 1)
  <2>1. \A i \in 1..(2 * k + 2) :
           next[i] = [of |-> <<q, d + ((i + 1) \div 2)>>, ends |-> i % 2 = 0]
    BY <1>7, <1>8 DEF Halves
  <2>2. next = [i \in 1..(2 * k + 2) |-> next[i]]
    BY <1>7, <1>8 DEF Halves
  <2>3. \A i \in 1..(2 * k + 2) : both[i] = next[i]
    BY <1>6, <2>1
  <2> QED
    BY <1>5, <1>8, <2>2, <2>3
<1> QED
  <2>1. r \o (w \o line) = Halves(q, d, k + 1)
    BY <1>2, <1>3, <1>5, <1>9
  <2>2. w \o line \in Seq(Pieces)
    BY ConcatProperties
  <2> QED
    BY <1>1, <2>1, <2>2 DEF Ahead

-----------------------------------------------------------------------------
(***************************************************************************)
(* The inductive invariant.                                                *)
(***************************************************************************)

\* The types of all but the streams.
BasicTypes ==
    /\ WindowTypes /\ UploadTypes
    /\ connector \in Connectors
    /\ loading \in BOOLEAN
    /\ panels \subseteq Sessions \X Questions
    /\ stage \in [Questions -> {"unasked", "asked", "over"}]
    /\ chosen \subseteq Connectors
    /\ here \in [Questions -> BOOLEAN]
    /\ during \in [Questions -> SUBSET Sessions]

\* The words among the first d events of q's stream.
AllWords(q, c) == [a \in 1..c |-> <<q, a>>]
FirstWords(q, d) == AllWords(q, IF d <= Words THEN d ELSE Words)

\* What submit() has, when it has handled d events of q's stream.
Handled(q, d) ==
    /\ d <= sent[q]
    /\ Ahead(rest[q], wire[q], q, d, sent[q] - d)
    /\ text[q] = FirstWords(q, d)
    /\ answered[q] <=> d = Words + 1 /\ parses[q]

Texts == Seq(Questions \X (1..Words))

StreamTypes ==
    /\ wire \in [Questions -> Seq(Pieces)]
    /\ rest \in [Questions -> Seq(Pieces)]
    /\ text \in [Questions -> Texts]
    /\ answered \in [Questions -> BOOLEAN]
    /\ sent \in [Questions -> 0..(Words + 1)]
    /\ parses \in [Questions -> BOOLEAN]

\* The pieces that are left over and on their way are those of the events that
\* were sent and not handled.
StreamInv ==
    \A q \in Questions : Len(rest[q]) <= 1 /\ \E d \in 0..(Words + 1) : Handled(q, d)

\* A question that is not being answered has no stream.
QuietInv ==
    \A q \in Questions :
        stage[q] # "asked" => /\ sent[q] = 0 /\ wire[q] = <<>> /\ rest[q] = <<>>
                              /\ text[q] = <<>> /\ ~answered[q]

\* The page loads one question at most, and its session is one it had meanwhile.
PageInv ==
    /\ loading <=> Asking # {}
    /\ \A p, q \in Asking : p = q
    /\ \A q \in Asking : live = text[q] /\ session \in during[q]

Shown == [of : Questions, failed : BOOLEAN, text : Texts]

\* A message is that of a question that is over, and of no other message.
FiledInv ==
    /\ messages \in Seq(Shown)
    /\ \A i \in DOMAIN messages : /\ stage[messages[i].of] = "over"
                                  /\ session \in during[messages[i].of]
                                  /\ messages[i].failed \/ messages[i].text = Answer(messages[i].of)
    /\ \A i, j \in DOMAIN messages : messages[i].of = messages[j].of => i = j
    /\ \A p \in panels : p[1] \in during[p[2]] /\ stage[p[2]] # "unasked"

\* The preset counts as chosen, and the server says only of what is indexed that it
\* is connected.
SourceInv ==
    /\ IndexedUnlessChosen /\ Demo \in chosen
    /\ \A u \in Uploads : upload[u] = "connected" => u \in indexed

IInv ==
    /\ BasicTypes /\ StreamTypes
    /\ StreamInv /\ QuietInv /\ PageInv /\ FiledInv /\ SourceInv

-----------------------------------------------------------------------------
(***************************************************************************)
(* Its parts, step by step.                                                *)
(***************************************************************************)

\* Every step keeps the types.
LEMMA BasicTypesStep ==
  ASSUME BasicTypes, messages \in Seq(Shown), [Next]_vars
  PROVE  BasicTypes'
<1> USE DEF BasicTypes, WindowTypes, UploadTypes, window, display, calls, streams, uploads
<1>1. ASSUME NEW q \in Questions, Submit(q), UNCHANGED <<uploads, chosen>> PROVE BasicTypes'
  <2>1. session \in Sessions /\ connector \in Connectors
    OBVIOUS
  <2> QED
    BY <1>1, <2>1 DEF Submit
<1>2. ASSUME NEW q \in Questions, SendEvent(q), UNCHANGED <<uploads, chosen>> PROVE BasicTypes'
  BY <1>2 DEF SendEvent
<1>3. ASSUME NEW q \in Questions, Receive(q), UNCHANGED <<uploads, chosen>> PROVE BasicTypes'
  BY <1>3 DEF Receive
<1>4. ASSUME NEW q \in Questions, NEW new, Return(q, new), UNCHANGED <<uploads, chosen>> PROVE BasicTypes'
  BY <1>4 DEF Return
<1>5. ASSUME NewSession, UNCHANGED <<uploads, chosen>> PROVE BasicTypes'
  <2>1. session' \in Sessions
    BY <1>5, SessionsAssumption DEF NewSession, Sessions
  <2> QED
    BY <1>5, <2>1 DEF NewSession
<1>6. ASSUME NEW i \in DOMAIN messages, Pin(messages[i]), UNCHANGED <<uploads, chosen>> PROVE BasicTypes'
  <2>1. messages[i].of \in Questions
    <3>1. messages[i] \in Shown
      BY ElementOfSeq
    <3> QED
      BY <3>1 DEF Shown
  <2> QED
    BY <1>6, <2>1 DEF Pin
<1>7. ASSUME NEW u \in Uploads, Send(u), UNCHANGED <<chat, chosen>> PROVE BasicTypes'
  BY <1>7 DEF Send, chat
<1>8. ASSUME NEW u \in Uploads, Handle(u), UNCHANGED <<chat, chosen>> PROVE BasicTypes'
  BY <1>8 DEF Handle, chat
<1>9. ASSUME NEW u \in Uploads, Connected(u), UNCHANGED <<chat, chosen>> PROVE BasicTypes'
  BY <1>9 DEF Connected, chat, Connectors
<1>10. ASSUME NEW u \in Uploads, Refused(u), UNCHANGED <<chat, chosen>> PROVE BasicTypes'
  BY <1>10 DEF Refused, chat
<1>11. ASSUME Reset, UNCHANGED <<chat, chosen>> PROVE BasicTypes'
  BY <1>11 DEF Reset, chat
<1>12. ASSUME GoToUpload PROVE BasicTypes'
  BY <1>12 DEF GoToUpload, Unmount, Pages, Connectors
<1>13. ASSUME GoToChat PROVE BasicTypes'
  BY <1>13 DEF GoToChat, UnmountUpload, Pages
<1>14. ASSUME Choose PROVE BasicTypes'
  BY <1>14 DEF Choose, Select, Connectors
<1>15. ASSUME UNCHANGED vars PROVE BasicTypes'
  BY <1>15 DEF vars, chat
<1> QED
  BY <1>1, <1>2, <1>3, <1>4, <1>5, <1>6, <1>7, <1>8, <1>9, <1>10, <1>11, <1>12, <1>13, <1>14,
     <1>15 DEF Next, ChatStep, UploadStep, StreamEnds, StreamBreaks

\* Only the server's answer, which comes after the ingestion, names a source.
LEMMA SourceStep ==
  ASSUME BasicTypes, SourceInv, [Next]_vars
  PROVE  SourceInv'
<1> USE DEF BasicTypes, WindowTypes, UploadTypes, window, display, calls, streams, uploads,
            SourceInv, IndexedUnlessChosen
<1>1. ASSUME NEW q \in Questions, Submit(q), UNCHANGED <<uploads, chosen>> PROVE SourceInv'
  BY <1>1 DEF Submit
<1>2. ASSUME NEW q \in Questions, SendEvent(q), UNCHANGED <<uploads, chosen>> PROVE SourceInv'
  BY <1>2 DEF SendEvent
<1>3. ASSUME NEW q \in Questions, Receive(q), UNCHANGED <<uploads, chosen>> PROVE SourceInv'
  BY <1>3 DEF Receive
<1>4. ASSUME NEW q \in Questions, NEW new, Return(q, new), UNCHANGED <<uploads, chosen>> PROVE SourceInv'
  BY <1>4 DEF Return
<1>5. ASSUME NewSession, UNCHANGED <<uploads, chosen>> PROVE SourceInv'
  BY <1>5 DEF NewSession
<1>6. ASSUME NEW i \in DOMAIN messages, Pin(messages[i]), UNCHANGED <<uploads, chosen>> PROVE SourceInv'
  BY <1>6 DEF Pin
<1>7. ASSUME NEW u \in Uploads, Send(u), UNCHANGED <<chat, chosen>> PROVE SourceInv'
  BY <1>7 DEF Send, chat
<1>8. ASSUME NEW u \in Uploads, Handle(u), UNCHANGED <<chat, chosen>> PROVE SourceInv'
  BY <1>8 DEF Handle, chat
<1>9. ASSUME NEW u \in Uploads, Connected(u), UNCHANGED <<chat, chosen>> PROVE SourceInv'
  BY <1>9 DEF Connected, chat
<1>10. ASSUME NEW u \in Uploads, Refused(u), UNCHANGED <<chat, chosen>> PROVE SourceInv'
  BY <1>10 DEF Refused, chat
<1>11. ASSUME Reset, UNCHANGED <<chat, chosen>> PROVE SourceInv'
  BY <1>11 DEF Reset, chat
<1>12. ASSUME GoToUpload PROVE SourceInv'
  BY <1>12 DEF GoToUpload, Unmount
<1>13. ASSUME GoToChat PROVE SourceInv'
  BY <1>13 DEF GoToChat, UnmountUpload
<1>14. ASSUME Choose PROVE SourceInv'
  BY <1>14 DEF Choose, Select
<1>15. ASSUME UNCHANGED vars PROVE SourceInv'
  BY <1>15 DEF vars, chat
<1> QED
  BY <1>1, <1>2, <1>3, <1>4, <1>5, <1>6, <1>7, <1>8, <1>9, <1>10, <1>11, <1>12, <1>13, <1>14,
     <1>15 DEF Next, ChatStep, UploadStep, StreamEnds, StreamBreaks

\* How many of the e events after d are tokens.
LEMMA TokensAmong ==
  ASSUME NEW d \in Nat, NEW e \in Nat, d + e <= Words + 1
  PROVE  \E t \in 0..e :
            /\ FirstTokens(d, e, t)
            /\ (IF d + e <= Words THEN d + e ELSE Words) = (IF d <= Words THEN d ELSE Words) + t
            /\ d + e = Words + 1 <=> d = Words + 1 \/ t # e
<1>1. Words \in Nat /\ Words >= 1
  BY WordsAssumption
<1>2. CASE d + e <= Words
  <2>1. e \in 0..e /\ d # Words + 1 /\ d + e # Words + 1 /\ d <= Words
    BY <1>1, <1>2
  <2>2. \A a \in 1..e : d + a <= Words /\ a <= e
    BY <1>1, <1>2
  <2> QED
    BY <1>2, <2>1, <2>2 DEF FirstTokens
<1>3. CASE d + e = Words + 1 /\ e # 0
  <2>1. e - 1 \in 0..e /\ d <= Words /\ d + (e - 1) = Words /\ d # Words + 1 /\ e - 1 # e
        /\ ~ (d + e <= Words)
    BY <1>1, <1>3
  <2>2. \A a \in 1..e : d + a <= Words <=> a <= e - 1
    BY <1>1, <1>3
  <2> QED
    BY <1>1, <1>3, <2>1, <2>2 DEF FirstTokens
<1>4. CASE d + e = Words + 1 /\ e = 0
  BY <1>1, <1>4 DEF FirstTokens
<1> QED
  BY <1>1, <1>2, <1>3, <1>4

\* The words of the first events and those of the next are those of all.
LEMMA MoreWords ==
  ASSUME NEW q \in Questions, NEW c \in Nat, NEW t \in Nat, c + t <= Words, NEW d \in Nat,
         t = 0 \/ d = c
  PROVE  /\ AllWords(q, c) \in Texts
         /\ AllWords(q, c) \o WordsAfter(q, d, t) = AllWords(q, c + t)
         /\ t = 0 => AllWords(q, c) \o WordsAfter(q, d, t) = AllWords(q, c)
<1> DEFINE X == Questions \X (1..Words)
<1>1. c <= Words /\ Words \in Nat
  BY WordsAssumption
<1>2. PICK first \in Texts : /\ first = AllWords(q, c) /\ Len(first) = c
                             /\ \A a \in 1..c : first[a] = <<q, a>>
  <2>1. \A a \in 1..c : <<q, a>> \in X
    BY <1>1
  <2> HIDE DEF X
  <2>2. AllWords(q, c) \in [1..c -> X]
    BY <2>1 DEF AllWords
  <2>3. AllWords(q, c) \in Seq(X) /\ Len(AllWords(q, c)) = c
    BY <2>2
  <2>4. \A a \in 1..c : AllWords(q, c)[a] = <<q, a>>
    BY DEF AllWords
  <2> QED
    BY <2>3, <2>4 DEF Texts, X
<1>3. PICK more \in Texts : /\ more = WordsAfter(q, d, t) /\ Len(more) = t
                            /\ \A a \in 1..t : more[a] = <<q, d + a>>
  <2>1. \A a \in 1..t : <<q, d + a>> \in X
    BY <1>1
  <2> HIDE DEF X
  <2>2. WordsAfter(q, d, t) \in [1..t -> X]
    BY <2>1 DEF WordsAfter
  <2>3. WordsAfter(q, d, t) \in Seq(X) /\ Len(WordsAfter(q, d, t)) = t
    BY <2>2
  <2>4. \A a \in 1..t : WordsAfter(q, d, t)[a] = <<q, d + a>>
    BY DEF WordsAfter
  <2> QED
    BY <2>3, <2>4 DEF Texts, X
<1>4. CASE t = 0
  <2>1. more = <<>>
    BY <1>3, <1>4, EmptySeq DEF Texts
  <2>2. first \o <<>> = first
    BY <1>2, ConcatEmptySeq DEF Texts
  <2>3. c + t = c
    BY <1>4
  <2> QED
    BY <1>2, <1>3, <2>1, <2>2, <2>3
<1>5. CASE t # 0
  <2>1. d = c
    BY <1>5
  <2>2. PICK both \in Texts : /\ both = first \o more /\ Len(both) = c + t
                              /\ \A a \in 1..c : both[a] = first[a]
                              /\ \A a \in 1..t : both[c + a] = more[a]
    <3> HIDE DEF X
    <3>1. first \in Seq(X) /\ more \in Seq(X)
      BY DEF Texts, X
    <3>2. first \o more \in Seq(X) /\ Len(first \o more) = c + t
      <4>1. first \o more \in Seq(X) /\ Len(first \o more) = Len(first) + Len(more)
        BY <3>1, ConcatProperties
      <4> QED
        BY <1>2, <1>3, <4>1
    <3>3. \A a \in 1..c : (first \o more)[a] = first[a]
      BY <1>2, <1>3, <3>1
    <3>4. \A a \in 1..t : (first \o more)[c + a] = more[a]
      BY <1>2, <1>3, <3>1
    <3> QED
      BY <3>2, <3>3, <3>4 DEF Texts, X
  <2>3. both \in [1..(c + t) -> Questions \X (1..Words)]
    BY <2>2, LenProperties DEF Texts
  <2>4. ASSUME NEW a \in 1..(c + t) PROVE both[a] = <<q, a>>
    <3>1. CASE a \in 1..c
      BY <1>2, <2>2, <3>1
    <3>2. CASE a \notin 1..c
      <4>1. PICK h \in 1..t : a = c + h
        <5>1. a - c \in 1..t /\ a = c + (a - c)
          BY <3>2
        <5> QED
          BY <5>1
      <4> QED
        BY <1>3, <2>1, <2>2, <4>1
    <3> QED
      BY <3>1, <3>2
  <2>5. both = AllWords(q, c + t)
    BY <2>3, <2>4 DEF AllWords
  <2> QED
    BY <1>2, <1>3, <1>5, <2>2, <2>5
<1> QED
  BY <1>4, <1>5

\* What submit() does with a chunk is to handle the next few events.
HandledUpTo(q, d, k, bytes, later) ==
    /\ later \in Seq(Pieces)
    /\ LeftOver(bytes) \in Seq(Pieces) /\ Len(LeftOver(bytes)) <= 1
    /\ FirstWords(q, d) \o WordsIn(bytes) \in Texts
    /\ Tokens(bytes) = {} => FirstWords(q, d) \o WordsIn(bytes) = FirstWords(q, d)
    /\ \E e \in 0..k :
          /\ Ahead(LeftOver(bytes), later, q, d + e, k - e)
          /\ FirstWords(q, d) \o WordsIn(bytes) = FirstWords(q, d + e)
          /\ d + e = Words + 1 <=> d = Words + 1 \/ Tokens(bytes) # Whole(bytes)

LEMMA Handles ==
  ASSUME NEW q \in Questions, NEW d \in Nat, NEW k \in Nat, d + k <= Words + 1,
         NEW r \in Seq(Pieces), NEW w \in Seq(Pieces), Len(r) <= 1, Ahead(r, w, q, d, k),
         NEW n \in 1..Len(w)
  PROVE  HandledUpTo(q, d, k, r \o SubSeq(w, 1, n), SubSeq(w, n + 1, Len(w)))
<1>1. PICK bytes, later : bytes = r \o SubSeq(w, 1, n) /\ later = SubSeq(w, n + 1, Len(w))
  OBVIOUS
<1>2. PICK tokens, words : tokens = Tokens(bytes) /\ words = WordsIn(bytes)
  OBVIOUS
<1>3. PICK left : left = LeftOver(bytes)
  OBVIOUS
<1>4. /\ later \in Seq(Pieces) /\ left \in Seq(Pieces) /\ Len(left) <= 1
      /\ \E m \in 1..(2 * k), e \in 0..k : /\ e = m \div 2
                                           /\ Chunk(bytes, q, d, k, m)
                                           /\ Ahead(left, later, q, d + e, k - e)
  BY <1>1, <1>3, Arrives
<1>5. PICK m \in 1..(2 * k), e \in 0..k : /\ e = m \div 2
                                          /\ Chunk(bytes, q, d, k, m)
                                          /\ Ahead(left, later, q, d + e, k - e)
  BY <1>4
<1>6. Words \in Nat
  BY WordsAssumption
<1>7. e \in Nat /\ d + e <= Words + 1
  BY <1>6
<1>8. PICK t \in 0..e :
        /\ FirstTokens(d, e, t)
        /\ (IF d + e <= Words THEN d + e ELSE Words) = (IF d <= Words THEN d ELSE Words) + t
        /\ d + e = Words + 1 <=> d = Words + 1 \/ t # e
  BY <1>7, TokensAmong
<1>9. /\ words = WordsAfter(q, d, t)
      /\ tokens = {} <=> t = 0
      /\ tokens = Whole(bytes) <=> t = e
  <2>1. FirstTokens(d, e, t)
    BY <1>8
  <2>2. Chunk(bytes, q, d, k, m) /\ e = m \div 2
    BY <1>5
  <2>3. TokensAre(bytes, q, d, e, t)
    BY <1>7, <2>1, <2>2, WordsOf
  <2> QED
    BY <1>2, <2>3 DEF TokensAre
<1>10. PICK c \in Nat : c = IF d <= Words THEN d ELSE Words
  BY <1>6
<1>11. c + t <= Words /\ (t = 0 \/ d = c)
  <2>1. d <= Words \/ t = 0
    BY <1>6, <1>8
  <2> QED
    BY <1>6, <1>8, <1>10, <2>1
<1>12. PICK first : first = FirstWords(q, d) /\ first = AllWords(q, c)
  BY <1>10 DEF FirstWords
<1>13. /\ first \in Texts
       /\ first \o words = AllWords(q, c + t)
       /\ t = 0 => first \o words = first
  <2>1. t \in Nat
    OBVIOUS
  <2>2. /\ AllWords(q, c) \in Texts
        /\ AllWords(q, c) \o WordsAfter(q, d, t) = AllWords(q, c + t)
        /\ t = 0 => AllWords(q, c) \o WordsAfter(q, d, t) = AllWords(q, c)
    BY <1>11, <2>1, MoreWords
  <2> QED
    BY <1>9, <1>12, <2>2
<1>14. first \o words = FirstWords(q, d + e)
  BY <1>8, <1>10, <1>13 DEF FirstWords
<1>15. first \o words \in Texts
  <2>1. \A a \in 1..(c + t) : <<q, a>> \in Questions \X (1..Words)
    BY <1>6, <1>11
  <2>2. AllWords(q, c + t) \in [1..(c + t) -> Questions \X (1..Words)]
    BY <2>1 DEF AllWords
  <2>3. c + t \in Nat
    OBVIOUS
  <2>4. AllWords(q, c + t) \in Texts
    BY <2>2, <2>3 DEF Texts
  <2> QED
    BY <1>13, <2>4
<1> QED
  BY <1>1, <1>2, <1>3, <1>4, <1>5, <1>8, <1>9, <1>12, <1>13, <1>14, <1>15 DEF HandledUpTo

-----------------------------------------------------------------------------
(***************************************************************************)
(* The streams.                                                            *)
(***************************************************************************)

\* A stream that is not touched stays as it is.
LEMMA StreamKept ==
  ASSUME NEW p \in Questions,
         Len(rest[p]) <= 1 /\ \E d \in 0..(Words + 1) : Handled(p, d),
         sent'[p] = sent[p], wire'[p] = wire[p], rest'[p] = rest[p],
         text'[p] = text[p], answered'[p] = answered[p], parses'[p] = parses[p]
  PROVE  (Len(rest[p]) <= 1 /\ \E d \in 0..(Words + 1) : Handled(p, d))'
BY DEF Handled

\* submit() has handled all of the words that have come, and shows them.
LEMMA Received ==
  ASSUME StreamTypes, StreamInv, NEW q \in Questions, Receive(q)
  PROVE  /\ StreamTypes' /\ StreamInv'
         /\ \A p \in Questions : p # q => text'[p] = text[p]
         /\ here[q] => live' = text'[q] \/ (live' = live /\ text'[q] = text[q])
         /\ ~here[q] => live' = live
<1>1. PICK d \in 0..(Words + 1) : Handled(q, d) /\ Len(rest[q]) <= 1
  BY DEF StreamInv
<1>2. PICK r \in Seq(Pieces), w \in Seq(Pieces), s \in 0..(Words + 1) :
        r = rest[q] /\ w = wire[q] /\ s = sent[q]
  BY DEF StreamTypes
<1>3. Words \in Nat /\ d \in Nat /\ s \in Nat
  BY WordsAssumption
<1>4. d <= s /\ Ahead(r, w, q, d, s - d) /\ text[q] = FirstWords(q, d)
      /\ (answered[q] <=> d = Words + 1 /\ parses[q]) /\ Len(r) <= 1
  BY <1>1, <1>2 DEF Handled
<1>5. PICK k \in Nat : k = s - d /\ d + k = s /\ d + k <= Words + 1
  BY <1>3, <1>4
<1>6. PICK n \in 1..Len(wire[q]) :
        LET chunk == rest[q] \o SubSeq(wire[q], 1, n)
        IN  /\ wire' = [wire EXCEPT ![q] = SubSeq(@, n + 1, Len(@))]
            /\ rest' = [rest EXCEPT ![q] = LeftOver(chunk)]
            /\ text' = [text EXCEPT ![q] = @ \o WordsIn(chunk)]
            /\ answered' = [answered EXCEPT ![q] = @ \/ (Tokens(chunk) # Whole(chunk) /\ parses[q])]
            /\ live' = IF here[q] /\ Tokens(chunk) # {} THEN text'[q] ELSE live
            /\ sent' = sent /\ parses' = parses
  BY DEF Receive
<1>7. PICK bytes, later : bytes = r \o SubSeq(w, 1, n) /\ later = SubSeq(w, n + 1, Len(w))
  OBVIOUS
<1>8. /\ wire' = [wire EXCEPT ![q] = later]
      /\ rest' = [rest EXCEPT ![q] = LeftOver(bytes)]
      /\ text' = [text EXCEPT ![q] = FirstWords(q, d) \o WordsIn(bytes)]
      /\ answered' = [answered EXCEPT ![q] = @ \/ (Tokens(bytes) # Whole(bytes) /\ parses[q])]
      /\ live' = IF here[q] /\ Tokens(bytes) # {} THEN text'[q] ELSE live
      /\ sent' = sent /\ parses' = parses
  BY <1>2, <1>4, <1>6, <1>7
<1>9. /\ later \in Seq(Pieces)
      /\ LeftOver(bytes) \in Seq(Pieces) /\ Len(LeftOver(bytes)) <= 1
      /\ FirstWords(q, d) \o WordsIn(bytes) \in Texts
      /\ Tokens(bytes) = {} => FirstWords(q, d) \o WordsIn(bytes) = FirstWords(q, d)
      /\ \E e \in 0..k :
             /\ Ahead(LeftOver(bytes), later, q, d + e, k - e)
             /\ FirstWords(q, d) \o WordsIn(bytes) = FirstWords(q, d + e)
             /\ d + e = Words + 1 <=> d = Words + 1 \/ Tokens(bytes) # Whole(bytes)
  <2>1. n \in 1..Len(w) /\ Ahead(r, w, q, d, k)
    BY <1>2, <1>4, <1>5
  <2>2. HandledUpTo(q, d, k, r \o SubSeq(w, 1, n), SubSeq(w, n + 1, Len(w)))
    BY <1>3, <1>4, <1>5, <2>1, Handles
  <2> QED
    BY <1>7, <2>2 DEF HandledUpTo
<1>10. PICK e \in 0..k :
         /\ Ahead(LeftOver(bytes), later, q, d + e, k - e)
         /\ FirstWords(q, d) \o WordsIn(bytes) = FirstWords(q, d + e)
         /\ d + e = Words + 1 <=> d = Words + 1 \/ Tokens(bytes) # Whole(bytes)
  BY <1>9
<1>11. PICK c \in 0..(Words + 1) : c = d + e /\ c <= s /\ s - c = k - e
  <2>1. d + e \in 0..(Words + 1) /\ d + e <= s /\ s - (d + e) = k - e
    BY <1>3, <1>5
  <2> QED
    BY <2>1
<1>12. StreamTypes'
  <2>1. wire' \in [Questions -> Seq(Pieces)] /\ rest' \in [Questions -> Seq(Pieces)]
    BY <1>8, <1>9 DEF StreamTypes
  <2>2. text' \in [Questions -> Texts]
    BY <1>8, <1>9 DEF StreamTypes
  <2>3. answered' \in [Questions -> BOOLEAN]
    <3>1. (answered[q] \/ (Tokens(bytes) # Whole(bytes) /\ parses[q])) \in BOOLEAN
      OBVIOUS
    <3> QED
      BY <1>8, <3>1 DEF StreamTypes
  <2>4. sent' \in [Questions -> 0..(Words + 1)] /\ parses' \in [Questions -> BOOLEAN]
    BY <1>8 DEF StreamTypes
  <2> QED
    BY <2>1, <2>2, <2>3, <2>4 DEF StreamTypes
<1>13. /\ wire'[q] = later /\ rest'[q] = LeftOver(bytes) /\ text'[q] = FirstWords(q, c)
       /\ sent'[q] = s
       /\ text'[q] = FirstWords(q, d) \o WordsIn(bytes)
  BY <1>2, <1>8, <1>10, <1>11 DEF StreamTypes
<1>14. answered'[q] <=> c = Words + 1 /\ parses'[q]
  <2>1. answered'[q] = (answered[q] \/ (Tokens(bytes) # Whole(bytes) /\ parses[q]))
    BY <1>8 DEF StreamTypes
  <2> QED
    BY <1>4, <1>8, <1>10, <1>11, <2>1
<1>15. (Len(rest[q]) <= 1 /\ \E j \in 0..(Words + 1) : Handled(q, j))'
  <2>1. Ahead(rest'[q], wire'[q], q, c, s - c)
    BY <1>10, <1>11, <1>13
  <2>2. Handled(q, c)'
    BY <1>11, <1>13, <1>14, <2>1 DEF Handled
  <2> QED
    BY <1>9, <1>13, <2>2
<1>16. StreamInv'
  <2> SUFFICES ASSUME NEW p \in Questions
               PROVE  (Len(rest[p]) <= 1 /\ \E j \in 0..(Words + 1) : Handled(p, j))'
    BY DEF StreamInv
  <2>1. CASE p = q
    BY <1>15, <2>1
  <2>2. CASE p # q
    <3>1. /\ sent'[p] = sent[p] /\ wire'[p] = wire[p] /\ rest'[p] = rest[p]
          /\ text'[p] = text[p] /\ answered'[p] = answered[p] /\ parses'[p] = parses[p]
      BY <1>8, <2>2 DEF StreamTypes
    <3>2. Len(rest[p]) <= 1 /\ \E j \in 0..(Words + 1) : Handled(p, j)
      BY DEF StreamInv
    <3> QED
      BY <3>1, <3>2, StreamKept
  <2> QED
    BY <2>1, <2>2
<1>17. \A p \in Questions : p # q => text'[p] = text[p]
  BY <1>8 DEF StreamTypes
<1>18. here[q] => live' = text'[q] \/ (live' = live /\ text'[q] = text[q])
  BY <1>4, <1>8, <1>9, <1>13
<1>19. ~here[q] => live' = live
  BY <1>8
<1> QED
  BY <1>12, <1>16, <1>17, <1>18, <1>19

\* Of a stream without events, nothing is to be handled.
LEMMA NothingYet ==
  ASSUME NEW q
  PROVE  Ahead(<<>>, <<>>, q, 0, 0) /\ FirstWords(q, 0) = <<>>
<1>1. \A e : [i \in 1..0 |-> e] = <<>>
  OBVIOUS
<1>2. Halves(q, 0, 0) = <<>>
  BY DEF Halves
<1>3. <<>> \o <<>> = <<>>
  OBVIOUS
<1>4. 0 <= Words
  BY WordsAssumption
<1>5. AllWords(q, 0) = <<>>
  BY DEF AllWords
<1> QED
  BY <1>2, <1>3, <1>4, <1>5 DEF Ahead, FirstWords

\* The server appends an event to what is on its way.
LEMMA Sent ==
  ASSUME StreamTypes, StreamInv, NEW q \in Questions, SendEvent(q)
  PROVE  StreamTypes' /\ StreamInv'
<1>1. PICK d \in 0..(Words + 1) : Handled(q, d) /\ Len(rest[q]) <= 1
  BY DEF StreamInv
<1>2. PICK r \in Seq(Pieces), w \in Seq(Pieces), s \in 0..(Words + 1) :
        r = rest[q] /\ w = wire[q] /\ s = sent[q]
  BY DEF StreamTypes
<1>3. Words \in Nat /\ d \in Nat /\ s \in Nat
  BY WordsAssumption
<1>4. /\ sent' = [sent EXCEPT ![q] = s + 1]
      /\ wire' = [wire EXCEPT ![q] = w \o Line(<<q, sent'[q]>>)]
      /\ UNCHANGED <<rest, text, answered>> /\ s <= Words
      /\ \E json \in BOOLEAN : parses' = [parses EXCEPT ![q] = json]
  BY <1>2 DEF SendEvent, calls
<1>5. sent'[q] = s + 1
  BY <1>4 DEF StreamTypes
<1>6. d <= s /\ Ahead(r, w, q, d, s - d)
  BY <1>1, <1>2 DEF Handled
<1>7. PICK k \in Nat : k = s - d /\ d + k = s /\ d + k <= Words /\ d <= s + 1
                       /\ d + k + 1 = s + 1 /\ k + 1 = s + 1 - d
  <2>1. s - d \in Nat /\ d + (s - d) = s /\ d <= s + 1 /\ d + (s - d) + 1 = s + 1
        /\ s - d + 1 = s + 1 - d
    BY <1>3, <1>6
  <2> QED
    BY <1>4, <2>1
<1>8. /\ w \o Line(<<q, s + 1>>) \in Seq(Pieces)
      /\ Ahead(r, w \o Line(<<q, s + 1>>), q, d, k + 1)
  <2>1. Ahead(r, w, q, d, k)
    BY <1>6, <1>7
  <2>2. /\ w \o Line(<<q, d + k + 1>>) \in Seq(Pieces)
        /\ Ahead(r, w \o Line(<<q, d + k + 1>>), q, d, k + 1)
    BY <1>3, <1>7, <2>1, Departs
  <2> QED
    BY <1>7, <2>2
<1>9. wire' = [wire EXCEPT ![q] = w \o Line(<<q, s + 1>>)]
  BY <1>4, <1>5
<1>10. StreamTypes'
  <2>1. s + 1 \in 0..(Words + 1)
    BY <1>3, <1>4
  <2>2. sent' \in [Questions -> 0..(Words + 1)]
    BY <1>4, <2>1 DEF StreamTypes
  <2>3. wire' \in [Questions -> Seq(Pieces)]
    BY <1>8, <1>9 DEF StreamTypes
  <2> QED
    BY <1>4, <2>2, <2>3 DEF StreamTypes
<1>11. wire'[q] = w \o Line(<<q, s + 1>>)
  BY <1>9 DEF StreamTypes
<1>12. Handled(q, d)'
  <2>1. Ahead(rest'[q], wire'[q], q, d, sent'[q] - d)
    <3>1. rest'[q] = r
      BY <1>2, <1>4
    <3>2. sent'[q] - d = k + 1
      BY <1>5, <1>7
    <3> QED
      BY <1>8, <1>11, <3>1, <3>2
  <2>2. d # Words + 1 /\ ~answered[q]
    BY <1>1, <1>3, <1>4, <1>6 DEF Handled
  <2> QED
    BY <1>1, <1>4, <1>5, <1>7, <2>1, <2>2 DEF Handled
<1> SUFFICES ASSUME NEW p \in Questions
             PROVE  (Len(rest[p]) <= 1 /\ \E j \in 0..(Words + 1) : Handled(p, j))'
  BY <1>10 DEF StreamInv
<1>13. CASE p = q
  BY <1>1, <1>4, <1>12, <1>13
<1>14. CASE p # q
  <2>1. /\ sent'[p] = sent[p] /\ wire'[p] = wire[p] /\ rest'[p] = rest[p]
        /\ text'[p] = text[p] /\ answered'[p] = answered[p] /\ parses'[p] = parses[p]
    BY <1>4, <1>14 DEF StreamTypes
  <2>2. Len(rest[p]) <= 1 /\ \E j \in 0..(Words + 1) : Handled(p, j)
    BY DEF StreamInv
  <2> QED
    BY <2>1, <2>2, StreamKept
<1> QED
  BY <1>13, <1>14

\* The end of submit()'s variables.
LEMMA Returned ==
  ASSUME StreamTypes, StreamInv, NEW q \in Questions, NEW new, Return(q, new)
  PROVE  StreamTypes' /\ StreamInv'
<1>1. /\ wire' = [wire EXCEPT ![q] = <<>>]
      /\ rest' = [rest EXCEPT ![q] = <<>>]
      /\ text' = [text EXCEPT ![q] = <<>>]
      /\ answered' = [answered EXCEPT ![q] = FALSE]
      /\ sent' = [sent EXCEPT ![q] = 0]
      /\ parses' = [parses EXCEPT ![q] = TRUE]
  BY DEF Return
<1>2. <<>> \in Seq(Pieces) /\ <<>> \in Texts /\ 0 \in 0..(Words + 1) /\ Len(<<>>) <= 1
  BY WordsAssumption DEF Texts
<1>3. StreamTypes'
  BY <1>1, <1>2 DEF StreamTypes
<1> SUFFICES ASSUME NEW p \in Questions
             PROVE  (Len(rest[p]) <= 1 /\ \E j \in 0..(Words + 1) : Handled(p, j))'
  BY <1>3 DEF StreamInv
<1>4. CASE p = q
  <2>1. /\ wire'[p] = <<>> /\ rest'[p] = <<>> /\ text'[p] = <<>> /\ ~answered'[p] /\ sent'[p] = 0
    BY <1>1, <1>4 DEF StreamTypes
  <2>2. Ahead(<<>>, <<>>, p, 0, 0) /\ FirstWords(p, 0) = <<>>
    BY NothingYet
  <2>3. 0 # Words + 1 /\ 0 - 0 = 0 /\ 0 <= 0
    BY WordsAssumption
  <2>4. Ahead(rest'[p], wire'[p], p, 0, sent'[p] - 0)
    BY <2>1, <2>2, <2>3
  <2>5. Handled(p, 0)'
    BY <2>1, <2>2, <2>3, <2>4 DEF Handled
  <2> QED
    BY <1>2, <2>1, <2>5
<1>5. CASE p # q
  <2>1. /\ sent'[p] = sent[p] /\ wire'[p] = wire[p] /\ rest'[p] = rest[p]
        /\ text'[p] = text[p] /\ answered'[p] = answered[p] /\ parses'[p] = parses[p]
    BY <1>1, <1>5 DEF StreamTypes
  <2>2. Len(rest[p]) <= 1 /\ \E j \in 0..(Words + 1) : Handled(p, j)
    BY DEF StreamInv
  <2> QED
    BY <2>1, <2>2, StreamKept
<1> QED
  BY <1>4, <1>5

\* Every step keeps the streams whole.
LEMMA StreamStep ==
  ASSUME StreamTypes, StreamInv, [Next]_vars
  PROVE  StreamTypes' /\ StreamInv'
<1>1. ASSUME UNCHANGED <<wire, rest, text, answered, sent, parses>> PROVE StreamTypes' /\ StreamInv'
  BY <1>1 DEF StreamTypes, StreamInv, Handled
<1>2. ASSUME NEW q \in Questions, Submit(q) PROVE StreamTypes' /\ StreamInv'
  BY <1>1, <1>2 DEF Submit, streams
<1>3. ASSUME NewSession \/ \E i \in DOMAIN messages : Pin(messages[i])
      PROVE  StreamTypes' /\ StreamInv'
  BY <1>1, <1>3 DEF NewSession, Pin, calls, streams
<1>4. ASSUME GoToUpload \/ GoToChat \/ Choose PROVE StreamTypes' /\ StreamInv'
  BY <1>1, <1>4 DEF GoToUpload, GoToChat, Choose, Select, Unmount, calls, streams
<1>5. ASSUME UNCHANGED chat PROVE StreamTypes' /\ StreamInv'
  BY <1>1, <1>5 DEF chat, calls, streams
<1> QED
  BY <1>2, <1>3, <1>4, <1>5, Sent, Received, Returned
  DEF Next, ChatStep, vars, StreamEnds, StreamBreaks

\* Only a question that is being answered gets a stream.
LEMMA QuietStep ==
  ASSUME BasicTypes, StreamTypes, QuietInv, [Next]_vars
  PROVE  QuietInv'
<1> USE DEF BasicTypes, StreamTypes
<1>1. ASSUME UNCHANGED <<stage, wire, rest, text, answered, sent>> PROVE QuietInv'
  BY <1>1 DEF QuietInv
<1>2. ASSUME NEW q \in Questions, Submit(q) PROVE QuietInv'
  BY <1>2 DEF QuietInv, Submit, streams
<1>3. ASSUME NewSession \/ \E i \in DOMAIN messages : Pin(messages[i]) PROVE QuietInv'
  BY <1>1, <1>3 DEF NewSession, Pin, calls, streams
<1>4. ASSUME GoToUpload \/ GoToChat \/ Choose PROVE QuietInv'
  BY <1>1, <1>4 DEF GoToUpload, GoToChat, Choose, Select, Unmount, calls, streams
<1>5. ASSUME UNCHANGED chat PROVE QuietInv'
  BY <1>1, <1>5 DEF chat, calls, streams
<1>6. ASSUME NEW q \in Questions, SendEvent(q) PROVE QuietInv'
  BY <1>6 DEF QuietInv, SendEvent, calls
<1>7. ASSUME NEW q \in Questions, Receive(q) PROVE QuietInv'
  <2>1. stage[q] = "asked" /\ UNCHANGED <<stage, sent>>
    BY <1>7 DEF Receive
  <2>2. \A p \in Questions : p # q => /\ wire'[p] = wire[p] /\ rest'[p] = rest[p]
                                      /\ text'[p] = text[p] /\ answered'[p] = answered[p] /\ parses'[p] = parses[p]
    BY <1>7 DEF Receive
  <2> QED
    BY <2>1, <2>2 DEF QuietInv
<1>8. ASSUME NEW q \in Questions, NEW new, Return(q, new) PROVE QuietInv'
  <2>1. /\ wire'[q] = <<>> /\ rest'[q] = <<>> /\ text'[q] = <<>> /\ ~answered'[q] /\ sent'[q] = 0
    BY <1>8 DEF Return
  <2>2. \A p \in Questions : p # q => /\ wire'[p] = wire[p] /\ rest'[p] = rest[p]
                                      /\ text'[p] = text[p] /\ answered'[p] = answered[p] /\ parses'[p] = parses[p]
                                      /\ stage'[p] = stage[p] /\ sent'[p] = sent[p]
    BY <1>8 DEF Return
  <2> QED
    BY <2>1, <2>2 DEF QuietInv
<1> QED
  BY <1>2, <1>3, <1>4, <1>5, <1>6, <1>7, <1>8
  DEF Next, ChatStep, vars, StreamEnds, StreamBreaks

-----------------------------------------------------------------------------
(***************************************************************************)
(* The page and its messages.                                              *)
(***************************************************************************)
\* Only the page that asked shows a question, and it asks one at a time.
LEMMA PageStep ==
  ASSUME BasicTypes, StreamTypes, StreamInv, QuietInv, PageInv, [Next]_vars
  PROVE  PageInv'
<1> USE DEF BasicTypes, StreamTypes, PageInv
<1>1. ASSUME UNCHANGED <<loading, live, here, stage, text, session, during>> PROVE PageInv'
  BY <1>1 DEF Asking
<1>2. ASSUME NEW q \in Questions, Submit(q) PROVE PageInv'
  <2>1. Asking = {}
    BY <1>2 DEF Submit
  <2>2. Asking' = {q}
    BY <1>2, <2>1 DEF Submit, Asking
  <2>3. text'[q] = <<>>
    BY <1>2 DEF Submit, QuietInv, IsNext
  <2>4. loading' = TRUE /\ live' = <<>> /\ session' = session /\ during'[q] = {session}
    BY <1>2 DEF Submit, window
  <2> QED
    BY <2>2, <2>3, <2>4
<1>3. ASSUME NEW q \in Questions, SendEvent(q) PROVE PageInv'
  BY <1>1, <1>3 DEF SendEvent, window, display, calls
<1>4. ASSUME NEW q \in Questions, Receive(q) PROVE PageInv'
  <2>1. stage[q] = "asked" /\ UNCHANGED <<loading, here, stage, session, during>>
    BY <1>4 DEF Receive, window
  <2>2. /\ \A p \in Questions : p # q => text'[p] = text[p]
        /\ here[q] => live' = text'[q] \/ (live' = live /\ text'[q] = text[q])
        /\ ~here[q] => live' = live
    BY <1>4, Received
  <2>3. Asking' = Asking
    BY <2>1 DEF Asking
  <2>4. q \in Asking <=> here[q]
    BY <2>1 DEF Asking
  <2>5. ASSUME NEW p \in Asking PROVE live' = text'[p]
    <3>1. CASE p = q
      BY <2>2, <2>4, <3>1
    <3>2. CASE p # q
      <4>1. q \notin Asking /\ p \in Questions
        BY <3>2 DEF Asking
      <4> QED
        BY <2>2, <2>4, <3>2, <4>1
    <3> QED
      BY <3>1, <3>2
  <2> QED
    BY <2>1, <2>3, <2>5
<1>5. ASSUME NEW q \in Questions, NEW new, stage[q] = "asked", Return(q, new) PROVE PageInv'
  <2>1. /\ stage' = [stage EXCEPT ![q] = "over"] /\ here' = [here EXCEPT ![q] = FALSE]
        /\ UNCHANGED <<session, during>>
    BY <1>5 DEF Return, window
  <2>2. Asking' = Asking \ {q}
    BY <2>1 DEF Asking
  <2>3. \A p \in Questions : p # q => text'[p] = text[p]
    BY <1>5 DEF Return
  <2>4. q \in Asking <=> here[q]
    BY <1>5 DEF Asking
  <2>5. CASE here[q]
    <3>1. Asking' = {}
      BY <2>2, <2>4, <2>5
    <3>2. loading' = FALSE
      BY <1>5, <2>5 DEF Return
    <3> QED
      BY <3>1, <3>2
  <2>6. CASE ~here[q]
    <3>1. Asking' = Asking /\ q \notin Asking
      BY <2>2, <2>4, <2>6
    <3>2. UNCHANGED <<loading, live>>
      BY <1>5, <2>6 DEF Return
    <3>3. \A p \in Asking : p \in Questions /\ p # q
      BY <3>1 DEF Asking
    <3> QED
      BY <2>1, <2>3, <3>1, <3>2, <3>3
  <2> QED
    BY <2>5, <2>6
<1>6. ASSUME NewSession PROVE PageInv'
  <2>1. Asking' = Asking /\ UNCHANGED <<loading, live, text>>
    BY <1>6 DEF NewSession, Asking, calls
  <2>2. \A q \in Asking : session' \in during'[q]
    BY <1>6 DEF NewSession, Asking
  <2> QED
    BY <2>1, <2>2
<1>7. ASSUME NEW i \in DOMAIN messages, Pin(messages[i]) PROVE PageInv'
  BY <1>1, <1>7 DEF Pin, window, display, calls
<1>8. ASSUME GoToUpload PROVE PageInv'
  BY <1>8 DEF GoToUpload, Unmount, Asking
<1>9. ASSUME GoToChat PROVE PageInv'
  BY <1>1, <1>9 DEF GoToChat, calls
<1>10. ASSUME Choose PROVE PageInv'
  BY <1>1, <1>10 DEF Choose, Select, calls
<1>11. ASSUME UploadStep, UNCHANGED chat PROVE PageInv'
  <2>1. session' = session
    BY <1>11 DEF UploadStep, Send, Handle, Connected, Refused, Reset, window
  <2> QED
    BY <1>1, <1>11, <2>1 DEF chat, display, calls
<1>12. ASSUME UNCHANGED vars PROVE PageInv'
  BY <1>1, <1>12 DEF vars, chat, window, display, calls
<1> QED
  BY <1>2, <1>3, <1>4, <1>5, <1>6, <1>7, <1>8, <1>9, <1>10, <1>11, <1>12
  DEF Next, ChatStep, StreamEnds, StreamBreaks

\* The last event comes after all the words.
LEMMA AnswerIsWhole ==
  ASSUME StreamInv, NEW q \in Questions, answered[q]
  PROVE  text[q] = Answer(q)
<1>1. PICK d \in 0..(Words + 1) : Handled(q, d)
  BY DEF StreamInv
<1>2. d = Words + 1 /\ text[q] = FirstWords(q, d)
  BY <1>1 DEF Handled
<1>3. Words \in Nat /\ ~ (Words + 1 <= Words)
  BY WordsAssumption
<1>4. text[q] = AllWords(q, Words)
  BY <1>2, <1>3 DEF FirstWords
<1>5. Answer(q) = AllWords(q, Words)
  <2>1. PICK events : events = Events(q)
    OBVIOUS
  <2>2. events \in Seq({<<q, i>> : i \in 1..(Words + 1)}) /\ Len(events) = Words + 1
        /\ \A i \in 1..(Words + 1) : events[i] = <<q, i>>
    BY <1>3, <2>1 DEF Events
  <2>3. PICK answer : answer = SubSeq(events, 1, Words)
    OBVIOUS
  <2>4. answer = [i \in 1..Words |-> events[i]]
    BY <1>3, <2>2, <2>3
  <2>5. answer = AllWords(q, Words)
    BY <1>3, <2>2, <2>4 DEF AllWords
  <2> QED
    BY <2>1, <2>3, <2>5 DEF Answer
<1> QED
  BY <1>4, <1>5

\* A stream that has come to its end was whole, and gave an answer if it parses.
LEMMA EndIsHandled ==
  ASSUME StreamTypes, StreamInv, NEW q \in Questions, sent[q] = Words + 1, wire[q] = <<>>
  PROVE  answered[q] <=> parses[q]
<1>1. PICK d \in 0..(Words + 1) : Handled(q, d) /\ Len(rest[q]) <= 1
  BY DEF StreamInv
<1>2. PICK k \in Nat : k = Words + 1 - d
  BY WordsAssumption
<1>3. rest[q] \o <<>> = Halves(q, d, k)
  <2>1. Ahead(rest[q], wire[q], q, d, sent[q] - d)
    BY <1>1 DEF Handled
  <2>2. sent[q] - d = k /\ wire[q] = <<>>
    BY <1>2, WordsAssumption
  <2>3. Ahead(rest[q], <<>>, q, d, k)
    BY <2>1, <2>2
  <2> QED
    BY <2>3 DEF Ahead
<1>4. rest[q] \in Seq(Pieces)
  BY DEF StreamTypes
<1>5. rest[q] \o <<>> = rest[q]
  BY <1>4, ConcatEmptySeq
<1>6. PICK n \in Nat : n = Len(rest[q]) /\ n <= 1
  BY <1>1, <1>4
<1>7. Len(Halves(q, d, k)) = 2 * k
  BY DEF Halves
<1>8. 2 * k <= 1
  BY <1>3, <1>5, <1>6, <1>7
<1>9. k = 0
  BY <1>8
<1>10. d = Words + 1
  BY <1>2, <1>9, WordsAssumption
<1> QED
  BY <1>1, <1>10 DEF Handled

\* One more message, of a question that has none.
LEMMA OneMoreMessage ==
  ASSUME BasicTypes, FiledInv, NEW q \in Questions, stage[q] = "asked", session \in during[q],
         NEW m \in Shown, m.of = q, m.failed \/ m.text = Answer(q),
         messages' = messages \o <<m>>, stage' = [stage EXCEPT ![q] = "over"],
         UNCHANGED <<session, panels, during>>
  PROVE  /\ FiledInv'
         /\ Len(messages') = Len(messages) + 1 /\ messages'[Len(messages')] = m
<1>1. PICK old \in Seq(Shown), n \in Nat : old = messages /\ n = Len(old)
  BY DEF FiledInv
<1>2. PICK now : now = messages'
  OBVIOUS
<1>3. /\ now \in Seq(Shown) /\ Len(now) = n + 1 /\ DOMAIN now = 1..(n + 1)
      /\ now[n + 1] = m
      /\ \A i \in 1..n : now[i] = old[i]
  <2>1. now = Append(old, m)
    BY <1>1, <1>2
  <2> QED
    BY <1>1, <2>1
<1>4. \A i \in 1..n : i \in DOMAIN messages /\ now[i] = messages[i]
  BY <1>1, <1>3
<1>5. \A i \in 1..(n + 1) : i \in 1..n \/ i = n + 1
  OBVIOUS
<1>6. \A p \in Questions : stage[p] # "asked" => stage'[p] = stage[p]
  BY DEF BasicTypes
<1>7. stage'[q] = "over"
  BY DEF BasicTypes
<1>8. \A i \in 1..n : now[i].of \in Questions /\ now[i].of # q
  <2>1. \A i \in 1..n : now[i] \in Shown
    BY <1>1, <1>3, ElementOfSeq
  <2>2. \A i \in DOMAIN messages : stage[messages[i].of] = "over"
    BY Zenon DEF FiledInv
  <2>3. \A i \in 1..n : stage[now[i].of] = "over"
    BY <1>4, <2>2, Zenon
  <2> QED
    BY <2>1, <2>3 DEF Shown
<1>9. ASSUME NEW i \in 1..(n + 1)
      PROVE  /\ stage'[now[i].of] = "over"
             /\ session \in during[now[i].of]
             /\ now[i].failed \/ now[i].text = Answer(now[i].of)
  <2>1. CASE i \in 1..n
    BY <1>4, <1>6, <1>8, <2>1 DEF FiledInv
  <2>2. CASE i = n + 1
    BY <1>3, <1>7, <2>2
  <2> QED
    BY <1>5, <2>1, <2>2
<1>10. ASSUME NEW i \in 1..(n + 1), NEW j \in 1..(n + 1), now[i].of = now[j].of PROVE i = j
  <2>1. CASE i \in 1..n /\ j \in 1..n
    BY <1>4, <1>10, <2>1 DEF FiledInv
  <2>2. CASE i = n + 1 /\ j = n + 1
    BY <2>2
  <2>3. CASE i \in 1..n /\ j = n + 1
    BY <1>3, <1>8, <1>10, <2>3
  <2>4. CASE i = n + 1 /\ j \in 1..n
    BY <1>3, <1>8, <1>10, <2>4
  <2> QED
    BY <1>5, <2>1, <2>2, <2>3, <2>4
<1>11. \A p \in panels : p[1] \in during[p[2]] /\ stage'[p[2]] # "unasked"
  <2>1. \A p \in panels : p[2] \in Questions /\ p[1] \in during[p[2]] /\ stage[p[2]] # "unasked"
    BY DEF BasicTypes, FiledInv
  <2> QED
    BY <1>6, <1>7, <2>1
<1>12. FiledInv'
  BY <1>2, <1>3, <1>9, <1>10, <1>11 DEF FiledInv
<1> QED
  BY <1>1, <1>2, <1>3, <1>12

\* The message that a question ends with.
LEMMA MessageOf ==
  ASSUME StreamTypes, StreamInv, NEW q \in Questions, NEW failed \in BOOLEAN, failed \/ answered[q]
  PROVE  /\ Message(q, failed) \in Shown
         /\ Message(q, failed).of = q
         /\ Message(q, failed).failed \/ Message(q, failed).text = Answer(q)
<1>1. PICK t : t = IF failed THEN <<>> ELSE text[q]
  OBVIOUS
<1>2. t \in Texts
  <2>1. <<>> \in Texts
    BY DEF Texts
  <2> QED
    BY <1>1, <2>1 DEF StreamTypes
<1>3. failed \/ t = Answer(q)
  BY <1>1, AnswerIsWhole
<1>4. Message(q, failed) = [of |-> q, failed |-> failed, text |-> t]
  BY <1>1 DEF Message
<1> QED
  BY <1>2, <1>3, <1>4 DEF Shown

\* Every step keeps the messages and the panels filed.
LEMMA FiledStep ==
  ASSUME BasicTypes, StreamTypes, StreamInv, PageInv, FiledInv, [Next]_vars
  PROVE  FiledInv'
<1>1. ASSUME UNCHANGED <<messages, panels, stage, session, during>> PROVE FiledInv'
  BY <1>1 DEF FiledInv
<1>2. ASSUME NEW q \in Questions, Submit(q) PROVE FiledInv'
  <2>1. stage[q] = "unasked" /\ UNCHANGED <<messages, panels, session>>
    BY <1>2 DEF Submit, IsNext, window
  <2>2. \A p \in Questions : p # q => stage'[p] = stage[p] /\ during'[p] = during[p]
    BY <1>2 DEF Submit, BasicTypes
  <2>3. \A i \in DOMAIN messages : messages[i].of \in Questions /\ messages[i].of # q
    <3>1. \A i \in DOMAIN messages : messages[i] \in Shown /\ stage[messages[i].of] = "over"
      BY DEF FiledInv
    <3> QED
      BY <2>1, <3>1 DEF Shown
  <2>4. \A p \in panels : p[2] \in Questions /\ p[2] # q
    BY <2>1 DEF BasicTypes, FiledInv
  <2> QED
    BY <2>1, <2>2, <2>3, <2>4 DEF FiledInv
<1>3. ASSUME NEW q \in Questions, SendEvent(q) PROVE FiledInv'
  BY <1>1, <1>3 DEF SendEvent, window, display, calls
<1>4. ASSUME NEW q \in Questions, Receive(q) PROVE FiledInv'
  BY <1>1, <1>4 DEF Receive, window
<1>5. ASSUME NEW q \in Questions, NEW new, stage[q] = "asked", Return(q, new),
             \/ new = <<>>
             \/ \E failed \in BOOLEAN : (failed \/ answered[q]) /\ new = <<Message(q, failed)>>
      PROVE  FiledInv'
  <2>1. stage' = [stage EXCEPT ![q] = "over"] /\ UNCHANGED <<session, panels, during>>
    BY <1>5 DEF Return, window
  <2>2. CASE messages' = messages
    <3>1. \A p \in Questions : stage[p] # "asked" => stage'[p] = stage[p]
      BY <1>5, <2>1 DEF BasicTypes
    <3>2. \A i \in DOMAIN messages : messages[i].of \in Questions
      <4>1. \A i \in DOMAIN messages : messages[i] \in Shown
        BY DEF FiledInv
      <4> QED
        BY <4>1 DEF Shown
    <3>3. \A p \in panels : stage'[p[2]] # "unasked"
      BY <2>1 DEF BasicTypes, FiledInv
    <3> QED
      BY <2>1, <2>2, <3>1, <3>2, <3>3 DEF FiledInv
  <2>3. CASE messages' # messages
    <3>1. here[q] /\ messages' = messages \o new
      BY <1>5, <2>3 DEF Return
    <3>2. q \in Asking
      BY <1>5, <3>1 DEF Asking
    <3>3. session \in during[q]
      BY <3>2 DEF PageInv
    <3>4. messages \o <<>> = messages
      BY ConcatEmptySeq DEF FiledInv
    <3>5. PICK failed \in BOOLEAN : (failed \/ answered[q]) /\ new = <<Message(q, failed)>>
      BY <1>5, <2>3, <3>1, <3>4
    <3>6. PICK m \in Shown : /\ m = Message(q, failed) /\ m.of = q
                             /\ m.failed \/ m.text = Answer(q)
      BY <3>5, MessageOf
    <3> QED
      BY <1>5, <2>1, <3>1, <3>3, <3>5, <3>6, OneMoreMessage
  <2> QED
    BY <2>2, <2>3
<1>6. ASSUME NewSession PROVE FiledInv'
  <2>1. messages' = <<>> /\ UNCHANGED <<panels, stage>>
    BY <1>6 DEF NewSession, calls
  <2>2. <<>> \in Seq(Shown) /\ DOMAIN <<>> = {}
    OBVIOUS
  <2>3. \A q \in Questions : during[q] \subseteq during'[q]
    BY <1>6 DEF NewSession
  <2>4. \A p \in panels : p[2] \in Questions
    BY DEF BasicTypes
  <2> QED
    BY <2>1, <2>2, <2>3, <2>4 DEF FiledInv
<1>7. ASSUME NEW i \in DOMAIN messages, Pin(messages[i]) PROVE FiledInv'
  <2>1. panels' = panels \union {<<session, messages[i].of>>}
        /\ UNCHANGED <<messages, stage, session, during>>
    BY <1>7 DEF Pin, window, display, calls
  <2>2. session \in during[messages[i].of] /\ stage[messages[i].of] = "over"
    BY DEF FiledInv
  <2> QED
    BY <2>1, <2>2 DEF FiledInv
<1>8. ASSUME GoToUpload PROVE FiledInv'
  <2>1. messages' = <<>> /\ UNCHANGED <<panels, stage, session, during>>
    BY <1>8 DEF GoToUpload, Unmount
  <2>2. <<>> \in Seq(Shown) /\ DOMAIN <<>> = {}
    OBVIOUS
  <2> QED
    BY <2>1, <2>2 DEF FiledInv
<1>9. ASSUME GoToChat PROVE FiledInv'
  BY <1>1, <1>9 DEF GoToChat, calls
<1>10. ASSUME Choose PROVE FiledInv'
  BY <1>1, <1>10 DEF Choose, Select, calls
<1>11. ASSUME UploadStep, UNCHANGED chat PROVE FiledInv'
  <2>1. session' = session
    BY <1>11 DEF UploadStep, Send, Handle, Connected, Refused, Reset, window
  <2> QED
    BY <1>1, <1>11, <2>1 DEF chat, display, calls
<1>12. ASSUME UNCHANGED vars PROVE FiledInv'
  BY <1>1, <1>12 DEF vars, chat, window, display, calls
<1>13. ASSUME NEW q \in Questions, StreamEnds(q) PROVE FiledInv'
  BY <1>5, <1>13 DEF StreamEnds
<1>14. ASSUME NEW q \in Questions, StreamBreaks(q) PROVE FiledInv'
  BY <1>5, <1>14 DEF StreamBreaks
<1> QED
  BY <1>2, <1>3, <1>4, <1>6, <1>7, <1>8, <1>9, <1>10, <1>11, <1>12, <1>13, <1>14
  DEF Next, ChatStep

-----------------------------------------------------------------------------
(***************************************************************************)
(* The theorems.                                                           *)
(***************************************************************************)

\* A window that has just been opened has the invariant.
LEMMA InitEstablishes ==
  ASSUME Init
  PROVE  IInv
<1> USE DEF Init, WindowInit, ChatInit, UploadInit
<1>1. BasicTypes
  <2>1. 1 \in Sessions
    BY SessionsAssumption DEF Sessions
  <2>2. session \in Sessions /\ Demo \in Connectors /\ page \in Pages /\ stored \in Connectors
    BY <2>1 DEF Connectors, Pages
  <2> QED
    BY <2>2 DEF BasicTypes, WindowTypes, UploadTypes
<1>2. StreamTypes
  <2>1. <<>> \in Seq(Pieces) /\ <<>> \in Texts /\ 0 \in 0..(Words + 1)
    BY WordsAssumption DEF Texts
  <2> QED
    BY <2>1 DEF StreamTypes
<1>3. StreamInv
  <2> SUFFICES ASSUME NEW q \in Questions
               PROVE  Len(rest[q]) <= 1 /\ \E d \in 0..(Words + 1) : Handled(q, d)
    BY DEF StreamInv
  <2>1. Ahead(<<>>, <<>>, q, 0, 0) /\ FirstWords(q, 0) = <<>>
    BY NothingYet
  <2>2. 0 # Words + 1 /\ 0 - 0 = 0 /\ 0 <= 0 /\ 0 \in 0..(Words + 1) /\ Len(<<>>) <= 1
    BY WordsAssumption
  <2>3. /\ wire[q] = <<>> /\ rest[q] = <<>> /\ text[q] = <<>> /\ ~answered[q] /\ sent[q] = 0
    OBVIOUS
  <2>4. Ahead(rest[q], wire[q], q, 0, sent[q] - 0)
    BY <2>1, <2>2, <2>3
  <2>5. Handled(q, 0)
    BY <2>1, <2>2, <2>3, <2>4 DEF Handled
  <2> QED
    BY <2>2, <2>3, <2>5
<1>4. QuietInv
  BY DEF QuietInv
<1>5. PageInv
  BY DEF PageInv, Asking
<1>6. FiledInv
  <2>1. <<>> \in Seq(Shown) /\ DOMAIN <<>> = {}
    OBVIOUS
  <2> QED
    BY <2>1 DEF FiledInv
<1>7. SourceInv
  BY DEF SourceInv, IndexedUnlessChosen
<1> QED
  BY <1>1, <1>2, <1>3, <1>4, <1>5, <1>6, <1>7 DEF IInv

\* The invariant holds of every window.
THEOREM Invariance == Spec => []IInv
<1>1. Init => IInv
  BY InitEstablishes
<1>2. IInv /\ [Next]_vars => IInv'
  <2> SUFFICES ASSUME IInv, [Next]_vars PROVE IInv'
    OBVIOUS
  <2>1. BasicTypes' /\ SourceInv'
    BY BasicTypesStep, SourceStep DEF IInv, FiledInv
  <2>2. StreamTypes' /\ StreamInv' /\ QuietInv'
    BY StreamStep, QuietStep DEF IInv
  <2>3. PageInv' /\ FiledInv'
    BY PageStep, FiledStep DEF IInv
  <2> QED
    BY <2>1, <2>2, <2>3 DEF IInv
<1> QED
  BY <1>1, <1>2, PTL DEF Spec

\* What has come is always the beginning of the answer.
LEMMA TextIsPrefix ==
  ASSUME StreamInv, NEW q \in Questions
  PROVE  text[q] \in Prefixes(q)
<1>1. PICK d \in 0..(Words + 1) : Handled(q, d)
  BY DEF StreamInv
<1>2. PICK n \in 0..Words : text[q] = AllWords(q, n)
  <2>1. (IF d <= Words THEN d ELSE Words) \in 0..Words
    BY WordsAssumption
  <2>2. text[q] = AllWords(q, IF d <= Words THEN d ELSE Words)
    BY <1>1 DEF Handled, FirstWords
  <2> QED
    BY <2>1, <2>2
<1>3. SubSeq(Events(q), 1, n) = AllWords(q, n)
  <2>1. PICK events : events = Events(q)
    OBVIOUS
  <2>2. events \in Seq({<<q, i>> : i \in 1..(Words + 1)}) /\ Len(events) = Words + 1
        /\ \A i \in 1..(Words + 1) : events[i] = <<q, i>>
    BY <2>1, WordsAssumption DEF Events
  <2>3. n \in Nat /\ n <= Words + 1 /\ \A i \in 1..n : i \in 1..(Words + 1)
    BY WordsAssumption
  <2>4. PICK answer : answer = SubSeq(events, 1, n)
    OBVIOUS
  <2>5. answer = [i \in 1..n |-> events[i]]
    BY <2>2, <2>3, <2>4
  <2>6. answer = AllWords(q, n)
    BY <2>2, <2>3, <2>5 DEF AllWords
  <2> QED
    BY <2>1, <2>4, <2>6
<1> QED
  BY <1>2, <1>3 DEF Prefixes

\* Types, and one message a question at most (TypeOK of Browser).
THEOREM TypesCorrect == Spec => []TypeOK
<1>1. IInv => TypeOK
  <2> SUFFICES ASSUME IInv PROVE TypeOK
    OBVIOUS
  <2>1. \A i \in DOMAIN messages : messages[i].of \in Questions /\ messages[i].failed \in BOOLEAN
    <3>1. \A i \in DOMAIN messages : messages[i] \in Shown
      BY ElementOfSeq DEF IInv, FiledInv
    <3> QED
      BY <3>1 DEF Shown
  <2>2. \A q \in Questions : text[q] \in Prefixes(q)
    BY TextIsPrefix DEF IInv
  <2>3. \A q \in Questions : wire[q] \in Seq(Pieces) /\ rest[q] \in Seq(Pieces)
    BY DEF IInv, StreamTypes
  <2>4. /\ connector \in Connectors /\ loading \in BOOLEAN
        /\ panels \subseteq Sessions \X Questions
        /\ stage \in [Questions -> {"unasked", "asked", "over"}]
        /\ chosen \subseteq Connectors
        /\ here \in [Questions -> BOOLEAN]
        /\ during \in [Questions -> SUBSET Sessions]
        /\ WindowTypes /\ UploadTypes
    BY DEF IInv, BasicTypes
  <2>5. answered \in [Questions -> BOOLEAN] /\ parses \in [Questions -> BOOLEAN] /\ sent \in [Questions -> 0..(Words + 1)]
    BY DEF IInv, StreamTypes
  <2>6. ChatTypes
    BY <2>1, <2>2, <2>3, <2>4, <2>5 DEF ChatTypes
  <2>7. \A i, j \in DOMAIN messages : messages[i].of = messages[j].of => i = j
    BY DEF IInv, FiledInv
  <2> QED
    BY <2>4, <2>6, <2>7 DEF TypeOK
<1> QED
  BY <1>1, Invariance, PTL

\* However the network cuts the streams, messages show whole answers.
THEOREM WholeAnswers == Spec => []MessagesAreWhole
<1>1. IInv => MessagesAreWhole
  BY DEF IInv, FiledInv, MessagesAreWhole
<1> QED
  BY <1>1, Invariance, PTL

\* The page shows the words of the one question it is loading.
THEOREM OwnText == Spec => []LiveTextIsOwn
<1>1. IInv => LiveTextIsOwn
  BY DEF IInv, PageInv, LiveTextIsOwn
<1> QED
  BY <1>1, Invariance, PTL

\* Messages and panels are filed under sessions their questions saw.
THEOREM OwnSessions == Spec => []FiledWhereAsked
<1>1. IInv => FiledWhereAsked
  BY DEF IInv, FiledInv, FiledWhereAsked
<1> QED
  BY <1>1, Invariance, PTL

\* What the user did not choose is kept and asked about only once it is indexed.
THEOREM KnownSources == Spec => []IndexedUnlessChosen
<1>1. IInv => IndexedUnlessChosen
  BY DEF IInv, SourceInv
<1> QED
  BY <1>1, Invariance, PTL

\* The end of a question that the page is loading.
LEMMA ItsMessage ==
  ASSUME IInv, NEW q \in Asking, NEW failed \in BOOLEAN, failed \/ answered[q],
         Return(q, <<Message(q, failed)>>)
  PROVE  Len(messages') = Len(messages) + 1 /\ messages'[Len(messages')].of = q
<1>1. q \in Questions /\ here[q] /\ stage[q] = "asked" /\ session \in during[q]
  BY DEF IInv, PageInv, Asking
<1>2. PICK m \in Shown : /\ m = Message(q, failed) /\ m.of = q
                         /\ m.failed \/ m.text = Answer(q)
  BY <1>1, MessageOf DEF IInv
<1>3. /\ messages' = messages \o <<m>> /\ stage' = [stage EXCEPT ![q] = "over"]
      /\ UNCHANGED <<session, panels, during>>
  BY <1>1, <1>2 DEF Return, window
<1>4. Len(messages') = Len(messages) + 1 /\ messages'[Len(messages')] = m
  BY <1>1, <1>2, <1>3, OneMoreMessage DEF IInv
<1> QED
  BY <1>2, <1>4

\* When the page stops loading a question, it has its message, or its stream ended
\* in what is no JSON.
THEOREM NoneDropped == Spec => NoQuestionDropped
<1> DEFINE Answered(q) == \/ DroppedAtTheEnd(q)
                          \/ Len(messages') = Len(messages) + 1 /\ messages'[Len(messages')].of = q
<1>1. ASSUME IInv, [Next]_vars, NEW q \in Asking, stage'[q] = "over"
      PROVE  Answered(q)
  <2>1. /\ q \in Questions /\ stage[q] = "asked" /\ here[q]
        /\ stage \in [Questions -> {"unasked", "asked", "over"}]
    BY <1>1 DEF Asking, IInv, BasicTypes
  <2>2. stage'[q] # stage[q]
    BY <1>1, <2>1
  <2>3. ASSUME NEW p \in Questions, Submit(p) PROVE FALSE
    BY <1>1, <2>1, <2>3 DEF Submit, IsNext
  <2>4. ASSUME NEW p \in Questions, NEW new, Return(p, new), p # q PROVE FALSE
    BY <2>1, <2>2, <2>4 DEF Return
  <2>5. ASSUME UNCHANGED stage PROVE FALSE
    BY <2>2, <2>5
  <2>6. ASSUME StreamEnds(q) PROVE Answered(q)
    <3>1. answered[q] <=> parses[q]
      BY <1>1, <2>1, <2>6, EndIsHandled DEF StreamEnds, IInv
    <3>2. CASE answered[q]
      <4>1. Return(q, <<Message(q, FALSE)>>)
        BY <2>6, <3>2 DEF StreamEnds
      <4> QED
        BY <1>1, <3>2, <4>1, ItsMessage
    <3>3. CASE ~answered[q]
      <4>1. messages' = messages \o <<>> /\ sent[q] = Words + 1
        BY <2>1, <2>6, <3>3 DEF StreamEnds, Return
      <4>2. messages \o <<>> = messages
        BY <1>1, ConcatEmptySeq DEF IInv, FiledInv
      <4> QED
        BY <3>1, <3>3, <4>1, <4>2 DEF DroppedAtTheEnd
    <3> QED
      BY <3>2, <3>3
  <2>7. ASSUME StreamBreaks(q) PROVE Answered(q)
    <3>1. Return(q, <<Message(q, TRUE)>>)
      BY <2>7 DEF StreamBreaks
    <3> QED
      BY <1>1, <3>1, ItsMessage
  <2>8. ASSUME ChatStep PROVE Answered(q)
    <3>1. ASSUME NEW p \in Questions, SendEvent(p) \/ Receive(p) PROVE FALSE
      BY <2>5, <3>1 DEF SendEvent, Receive, calls
    <3>2. ASSUME NewSession \/ \E i \in DOMAIN messages : Pin(messages[i]) PROVE FALSE
      BY <2>5, <3>2 DEF NewSession, Pin, calls
    <3>3. ASSUME NEW p \in Questions, StreamEnds(p) \/ StreamBreaks(p) PROVE p = q
      BY <2>4, <3>3 DEF StreamEnds, StreamBreaks
    <3> HIDE DEF Answered
    <3> QED
      BY <2>3, <2>6, <2>7, <2>8, <3>1, <3>2, <3>3 DEF ChatStep
  <2>9. ASSUME UNCHANGED chat \/ GoToUpload \/ GoToChat \/ Choose PROVE FALSE
    BY <2>5, <2>9 DEF chat, calls, GoToUpload, Unmount, GoToChat, Choose, Select
  <2> HIDE DEF Answered
  <2> QED
    BY <1>1, <2>8, <2>9 DEF Next, vars
<1>2. IInv /\ [Next]_vars => [\A q \in Asking : stage'[q] = "over" => Answered(q)]_chat
  BY <1>1
<1>3. NoQuestionDropped <=> [][\A q \in Asking : stage'[q] = "over" => Answered(q)]_chat
  BY DEF NoQuestionDropped
<1> HIDE DEF Answered
<1> QED
  BY <1>2, <1>3, Invariance, PTL DEF Spec
=============================================================================
