------------------------- MODULE QueryServiceProofs -------------------------
(***************************************************************************)
(* Proofs about QueryService for any requests, sessions, history length    *)
(* and number of threads.  IInv ties the state of a response to that of    *)
(* its run, keeps every queued run in the queue once, and says that the    *)
(* list a session holds now is the end of its log: this is what makes the  *)
(* conversation of QueryService a behaviour of ConversationLog.            *)
(***************************************************************************)
EXTENDS QueryService, FiniteSetTheorems, SequenceTheorems, TLAPS

\* A queued run is in the queue once, and nothing else is.
QueueInv ==
    /\ \A i \in 1..Len(queue) : run[queue[i]] = "queued"
    /\ \A i, j \in 1..Len(queue) : queue[i] = queue[j] => i = j

\* Which states a run may be in while its response is in a state.
ReplyInv ==
    \A r \in Requests :
        /\ reply[r] = "none" <=> run[r] = "none"
        /\ run[r] = "queued" => reply[r] = "waiting"
        /\ run[r] \in {"running", "hung"} => reply[r] \in {"waiting", "gone"}
        /\ run[r] = "cancelled" => reply[r] = "gone"
        /\ run[r] = "raised" => reply[r] \in {"waiting", "failed", "gone"}

\* Nobody waits for a recorded turn, whose request may be gone all the same.
LogInv ==
    /\ TurnsAreAnswers
    /\ \A r \in Recorded : reply[r] # "waiting"
    /\ IsFiniteSet(Recorded)

\* The list a session holds is the end of its log; no list is ever empty.
ListsInv ==
    \A s \in Sessions :
        /\ \A i \in 1..Len(lists[s]) : lists[s][i] # <<>>
        /\ Current(s) = LastTurns(log[s], MaxHistory)

IInv == TypeOK /\ QueueInv /\ ReplyInv /\ LogInv /\ ListsInv

-----------------------------------------------------------------------------
(* Sequences without one element, their ends, and how ends grow.           *)

\* What is left of a sequence without its i-th element.
LEMMA Removed ==
  ASSUME NEW S, NEW q \in Seq(S), NEW i \in 1..Len(q)
  PROVE  /\ RemoveAt(q, i) \in Seq(S)
         /\ Len(RemoveAt(q, i)) = Len(q) - 1
         /\ \A j \in 1..(Len(q) - 1) : RemoveAt(q, i)[j] = IF j < i THEN q[j] ELSE q[j + 1]
<1> DEFINE a == SubSeq(q, 1, i - 1)
           b == SubSeq(q, i + 1, Len(q))
<1>1. /\ a \in Seq(S) /\ Len(a) = i - 1
      /\ \A j \in 1..(i - 1) : a[j] = q[j]
  OBVIOUS
<1>2. /\ b \in Seq(S) /\ Len(b) = Len(q) - i
      /\ \A j \in 1..(Len(q) - i) : b[j] = q[i + j]
  OBVIOUS
<1>3. RemoveAt(q, i) = a \o b
  BY DEF RemoveAt
<1> HIDE DEF a, b
<1>4. /\ a \o b \in Seq(S)
      /\ Len(a \o b) = Len(a) + Len(b)
      /\ \A j \in 1..(Len(a) + Len(b)) : (a \o b)[j] = IF j <= Len(a) THEN a[j] ELSE b[j - Len(a)]
  BY <1>1, <1>2, ConcatProperties
<1>5. ASSUME NEW j \in 1..(Len(q) - 1)
      PROVE  (a \o b)[j] = IF j < i THEN q[j] ELSE q[j + 1]
  <2>1. CASE j < i
    BY <1>1, <1>2, <1>4, <2>1
  <2>2. CASE ~(j < i)
    <3>1. j - (i - 1) \in 1..(Len(q) - i) /\ i + (j - (i - 1)) = j + 1
      BY <2>2
    <3>2. (a \o b)[j] = b[j - (i - 1)]
      BY <1>1, <1>2, <1>4, <2>2
    <3> QED
      BY <1>2, <2>2, <3>1, <3>2
  <2> QED
    BY <2>1, <2>2
<1> QED
  BY <1>1, <1>2, <1>3, <1>4, <1>5

\* How many turns LastTurns leaves out.
Dropped(turns, n) == IF Len(turns) > n THEN Len(turns) - n ELSE 0

LEMMA LastTurnsAre ==
  ASSUME NEW S, NEW s \in Seq(S), NEW n \in Nat \ {0}
  PROVE  /\ LastTurns(s, n) \in Seq(S)
         /\ Dropped(s, n) \in 0..Len(s)
         /\ Len(LastTurns(s, n)) = Len(s) - Dropped(s, n)
         /\ \A i \in 1..(Len(s) - Dropped(s, n)) : LastTurns(s, n)[i] = s[i + Dropped(s, n)]
<1> DEFINE d == Dropped(s, n)
<1>1. d \in 0..Len(s) /\ (Len(s) > n => d = Len(s) - n) /\ (~(Len(s) > n) => d = 0)
  BY DEF Dropped
<1>2. LastTurns(s, n) = SubSeq(s, d + 1, Len(s))
  <2>1. (IF Len(s) > n THEN Len(s) - n + 1 ELSE 1) = d + 1
    BY <1>1
  <2> HIDE DEF d
  <2> QED
    BY <2>1, Zenon DEF LastTurns
<1> HIDE DEF d
<1>3. /\ SubSeq(s, d + 1, Len(s)) \in Seq(S)
      /\ Len(SubSeq(s, d + 1, Len(s))) = Len(s) - d
      /\ \A i \in 1..(Len(s) - d) : SubSeq(s, d + 1, Len(s))[i] = s[i + d]
  BY <1>1
<1> QED
  BY <1>1, <1>2, <1>3 DEF d

\* The end of a sequence is a suffix of it.
LEMMA LastTurnsIsSuffix ==
  ASSUME NEW S, NEW s \in Seq(S), NEW n \in Nat \ {0}
  PROVE  IsSuffix(LastTurns(s, n), s)
<1> DEFINE t == LastTurns(s, n)
           d == Dropped(s, n)
<1>1. /\ t \in Seq(S) /\ d \in 0..Len(s) /\ Len(t) = Len(s) - d
      /\ \A i \in 1..(Len(s) - d) : t[i] = s[i + d]
  BY LastTurnsAre
<1> HIDE DEF t, d
<1>2. /\ Reverse(t) \in Seq(S) /\ Len(Reverse(t)) = Len(t)
      /\ \A i \in 1..Len(t) : Reverse(t)[i] = t[Len(t) - i + 1]
  BY <1>1 DEF Reverse
<1>3. /\ Reverse(s) \in Seq(S) /\ Len(Reverse(s)) = Len(s)
      /\ \A i \in 1..Len(s) : Reverse(s)[i] = s[Len(s) - i + 1]
  BY DEF Reverse
<1>4. ASSUME NEW i \in 1..Len(t)
      PROVE  Reverse(t)[i] = Reverse(s)[i]
  <2>1. /\ Len(t) - i + 1 \in 1..(Len(s) - d)
        /\ Len(t) - i + 1 + d = Len(s) - i + 1
        /\ i \in 1..Len(s)
    BY <1>1
  <2> QED
    BY <1>1, <1>2, <1>3, <2>1
<1>5. SubSeq(Reverse(t), 1, Len(t)) = SubSeq(Reverse(s), 1, Len(t))
  BY <1>1, <1>2, <1>3, <1>4
<1> QED
  BY <1>1, <1>2, <1>3, <1>5 DEF IsSuffix, IsPrefix, t

\* The end of a sequence that has grown is the end of its grown end.
LEMMA EndGrows ==
  ASSUME NEW S, NEW s \in Seq(S), NEW e \in S, NEW n \in Nat \ {0}
  PROVE  LET grown == Append(LastTurns(s, n), e)
         IN  LastTurns(Append(s, e), n) = IF Len(grown) > n THEN LastTurns(grown, n) ELSE grown
<1>1. PICK t \in Seq(S), d \in Nat :
        /\ t = LastTurns(s, n)
        /\ d = Dropped(s, n)
        /\ Len(t) = Len(s) - d
        /\ \A i \in 1..(Len(s) - d) : t[i] = s[i + d]
  <2>1. /\ LastTurns(s, n) \in Seq(S)
        /\ Dropped(s, n) \in 0..Len(s)
        /\ Len(LastTurns(s, n)) = Len(s) - Dropped(s, n)
        /\ \A i \in 1..(Len(s) - Dropped(s, n)) : LastTurns(s, n)[i] = s[i + Dropped(s, n)]
    BY LastTurnsAre
  <2> QED
    BY <2>1
<1>2. PICK grown \in Seq(S) :
        /\ grown = Append(t, e)
        /\ Len(grown) = Len(t) + 1
        /\ \A i \in 1..Len(t) : grown[i] = t[i]
        /\ grown[Len(t) + 1] = e
  BY AppendProperties
<1>3. PICK u \in Seq(S) :
        /\ u = Append(s, e)
        /\ Len(u) = Len(s) + 1
        /\ \A i \in 1..Len(s) : u[i] = s[i]
        /\ u[Len(s) + 1] = e
  BY AppendProperties
<1>4. PICK l \in Nat, g \in Nat, du \in Nat, dg \in Nat :
        /\ l = Len(s) /\ g = Len(grown) /\ g = l - d + 1
        /\ du = Dropped(u, n) /\ dg = Dropped(grown, n)
        /\ d = (IF l > n THEN l - n ELSE 0)
        /\ du = (IF l + 1 > n THEN l + 1 - n ELSE 0)
        /\ dg = (IF g > n THEN g - n ELSE 0)
  <2>1. /\ Len(s) \in Nat /\ Len(grown) \in Nat
        /\ Len(grown) = Len(s) - d + 1 /\ Len(u) = Len(s) + 1
    BY <1>1, <1>2, <1>3
  <2>2. Dropped(u, n) \in Nat /\ Dropped(grown, n) \in Nat
    BY <2>1 DEF Dropped
  <2>3. /\ d = (IF Len(s) > n THEN Len(s) - n ELSE 0)
        /\ Dropped(u, n) = (IF Len(s) + 1 > n THEN Len(s) + 1 - n ELSE 0)
        /\ Dropped(grown, n) = (IF Len(grown) > n THEN Len(grown) - n ELSE 0)
    BY <1>1, <2>1 DEF Dropped
  <2> QED
    BY <2>1, <2>2, <2>3
<1>5. /\ g = l - d + 1
       /\ d = (IF l > n THEN l - n ELSE 0)
       /\ du = (IF l + 1 > n THEN l + 1 - n ELSE 0)
       /\ dg = (IF g > n THEN g - n ELSE 0)
  BY <1>4
<1>6. /\ LastTurns(u, n) \in Seq(S) /\ Len(LastTurns(u, n)) = l + 1 - du
      /\ \A i \in 1..(l + 1 - du) : LastTurns(u, n)[i] = u[i + du]
  <2>1. /\ LastTurns(u, n) \in Seq(S)
        /\ Len(LastTurns(u, n)) = Len(u) - Dropped(u, n)
        /\ \A i \in 1..(Len(u) - Dropped(u, n)) : LastTurns(u, n)[i] = u[i + Dropped(u, n)]
    BY LastTurnsAre
  <2>2. Len(u) - Dropped(u, n) = l + 1 - du
    BY <1>3, <1>4
  <2> QED
    BY <1>4, <2>1, <2>2
<1>7. /\ LastTurns(grown, n) \in Seq(S) /\ Len(LastTurns(grown, n)) = g - dg
      /\ \A i \in 1..(g - dg) : LastTurns(grown, n)[i] = grown[i + dg]
  <2>1. /\ LastTurns(grown, n) \in Seq(S)
        /\ Len(LastTurns(grown, n)) = Len(grown) - Dropped(grown, n)
        /\ \A i \in 1..(Len(grown) - Dropped(grown, n)) :
              LastTurns(grown, n)[i] = grown[i + Dropped(grown, n)]
    BY LastTurnsAre
  <2> QED
    BY <1>4, <2>1
<1>8. \A i \in 1..g : grown[i] = u[i + d]
  <2> TAKE i \in 1..g
  <2>1. CASE i <= Len(t)
    <3>1. i \in 1..Len(t) /\ i \in 1..(Len(s) - d) /\ i + d \in 1..Len(s)
      BY <1>1, <2>1
    <3> QED
      BY <1>1, <1>2, <1>3, <3>1
  <2>2. CASE i = Len(t) + 1
    <3>1. i + d = Len(s) + 1
      BY <1>1, <2>2
    <3> QED
      BY <1>2, <1>3, <2>2, <3>1
  <2> QED
    BY <1>2, <1>4, <2>1, <2>2
<1>9. CASE g > n
  <2>1. dg = g - n /\ du = l + 1 - n /\ dg + d = du
    BY <1>5, <1>9
  <2>2. \A i \in 1..n : LastTurns(grown, n)[i] = LastTurns(u, n)[i]
    <3> TAKE i \in 1..n
    <3>1. i + dg \in 1..g /\ i + dg + d = i + du
      BY <1>9, <2>1
    <3>2. i \in 1..(g - dg) /\ i \in 1..(l + 1 - du)
      BY <2>1
    <3> QED
      BY <1>6, <1>7, <1>8, <3>1, <3>2
  <2>3. Len(LastTurns(grown, n)) = n /\ Len(LastTurns(u, n)) = n
    BY <1>6, <1>7, <2>1
  <2>4. LastTurns(grown, n) = LastTurns(u, n)
    BY <1>6, <1>7, <2>2, <2>3, SeqEqual
  <2> QED
    BY <1>1, <1>2, <1>3, <1>4, <1>9, <2>4
<1>10. CASE ~(g > n)
  <2>1. d = 0 /\ du = 0 /\ l + 1 = g
    BY <1>5, <1>10
  <2>2. Len(LastTurns(u, n)) = g /\ \A i \in 1..g : grown[i] = LastTurns(u, n)[i]
    BY <1>6, <1>8, <2>1
  <2>3. grown = LastTurns(u, n)
    BY <1>4, <1>6, <2>2, SeqEqual
  <2> QED
    BY <1>1, <1>2, <1>3, <1>4, <1>10, <2>3
<1> QED
  BY <1>9, <1>10

\* What a turn does to the lists of a session: the current one gets it at its
\* end, the others stay as they are, and no list is lost or left empty.
LEMMA TurnIsAdded ==
  ASSUME NEW S, NEW held \in Seq(Seq(S)), NEW e \in S,
         \A i \in 1..Len(held) : held[i] # <<>>
  PROVE  LET new == WithTurn(held, e)
             now == IF held = <<>> THEN <<>> ELSE held[Len(held)]
             last == Append(now, e)
         IN  /\ new \in Seq(Seq(S)) /\ new # <<>>
             /\ Len(held) <= Len(new)
             /\ \A i \in 1..Len(held) :
                    new[i] = IF i = Len(held) THEN Append(held[i], e) ELSE held[i]
             /\ \A i \in 1..Len(new) : new[i] # <<>>
             /\ new[Len(new)] = IF Len(last) > MaxHistory THEN LastTurns(last, MaxHistory) ELSE last
<1>1. PICK all \in Seq(Seq(S)) :
        /\ all = IF held = <<>> THEN <<<<>>>> ELSE held
        /\ Len(all) \in Nat \ {0}
        /\ Len(held) \in {0, Len(all)}
        /\ \A i \in 1..Len(held) : all[i] = held[i]
        /\ held = <<>> => Len(all) = 1 /\ all[1] = <<>>
  <2>1. CASE held = <<>>
    <3>1. <<<<>>>> \in Seq(Seq(S)) /\ Len(<<<<>>>>) = 1 /\ <<<<>>>>[1] = <<>> /\ Len(held) = 0
      BY <2>1
    <3>2. \A i \in 1..Len(held) : <<<<>>>>[i] = held[i]
      BY <3>1
    <3> WITNESS <<<<>>>> \in Seq(Seq(S))
    <3> QED
      BY <2>1, <3>1, <3>2
  <2>2. CASE held # <<>>
    <3>1. Len(held) \in Nat \ {0}
      BY <2>2, EmptySeq
    <3> QED
      BY <2>2, <3>1
  <2> QED
    BY <2>1, <2>2
<1>2. PICK n \in Nat \ {0} : n = Len(all)
  BY <1>1
<1>3. PICK now \in Seq(S) :
        /\ now = all[n]
        /\ now = IF held = <<>> THEN <<>> ELSE held[Len(held)]
  <2>1. all[n] \in Seq(S)
    BY <1>2
  <2>2. all[n] = IF held = <<>> THEN <<>> ELSE held[Len(held)]
    <3>1. held # <<>> => Len(held) = n /\ n \in 1..Len(held)
      BY <1>1, <1>2, EmptySeq
    <3> QED
      BY <1>1, <1>2, <3>1
  <2> QED
    BY <2>1, <2>2
<1>4. PICK last \in Seq(S) : last = Append(now, e) /\ last # <<>> /\ Len(last) \in Nat \ {0}
  <2>1. Append(now, e) \in Seq(S) /\ Append(now, e) # <<>>
    BY AppendProperties
  <2> QED
    BY <2>1, EmptySeq
<1>5. PICK grown \in Seq(Seq(S)) :
        /\ grown = [all EXCEPT ![Len(all)] = last]
        /\ Len(grown) = n
        /\ \A i \in 1..n : grown[i] = IF i = n THEN last ELSE all[i]
  <2> DEFINE g == [all EXCEPT ![n] = last]
  <2>1. /\ g \in Seq(Seq(S)) /\ Len(g) = Len(all)
        /\ \A i \in 1..Len(all) : g[i] = IF i = n THEN last ELSE all[i]
    <3>1. n \in 1..Len(all)
      BY <1>2
    <3> QED
      BY <3>1, ExceptSeq
  <2> HIDE DEF g
  <2>2. g = [all EXCEPT ![Len(all)] = last]
    BY <1>2 DEF g
  <2> QED
    BY <1>2, <2>1, <2>2
<1>6. \A i \in 1..n : grown[i] # <<>>
  <2> TAKE i \in 1..n
  <2>1. CASE i = n
    BY <1>4, <1>5, <2>1
  <2>2. CASE i # n
    <3>1. i \in 1..Len(held)
      BY <1>1, <1>2, <2>2
    <3> QED
      BY <1>1, <1>5, <2>2, <3>1
  <2> QED
    BY <2>1, <2>2
<1>7. \A i \in 1..Len(held) :
        grown[i] = IF i = Len(held) THEN Append(held[i], e) ELSE held[i]
  <2> TAKE i \in 1..Len(held)
  <2>1. Len(held) = n /\ held # <<>>
    BY <1>1, <1>2
  <2> QED
    BY <1>1, <1>3, <1>4, <1>5, <2>1
<1>8. WithTurn(held, e) =
        IF Len(last) > MaxHistory THEN Append(grown, LastTurns(last, MaxHistory)) ELSE grown
  BY <1>1, <1>2, <1>3, <1>4, <1>5, Zenon DEF WithTurn
<1>9. CASE Len(last) > MaxHistory
  <2>1. PICK cut \in Seq(S) : cut = LastTurns(last, MaxHistory) /\ cut # <<>>
    <3>1. LastTurns(last, MaxHistory) \in Seq(S) /\ Len(LastTurns(last, MaxHistory)) = MaxHistory
      <4>1. Dropped(last, MaxHistory) = Len(last) - MaxHistory
        BY <1>9 DEF Dropped
      <4>2. Len(last) - Dropped(last, MaxHistory) = MaxHistory
        BY <1>4, <4>1, BoundsAssumption
      <4> QED
        BY <4>2, LastTurnsAre, BoundsAssumption
    <3> QED
      BY <3>1, BoundsAssumption, EmptySeq
  <2>2. PICK new \in Seq(Seq(S)) :
          /\ new = Append(grown, cut)
          /\ Len(new) = n + 1
          /\ \A i \in 1..n : new[i] = grown[i]
          /\ new[n + 1] = cut
    <3>1. /\ Append(grown, cut) \in Seq(Seq(S))
          /\ Len(Append(grown, cut)) = Len(grown) + 1
          /\ \A i \in 1..Len(grown) : Append(grown, cut)[i] = grown[i]
          /\ Append(grown, cut)[Len(grown) + 1] = cut
      BY AppendProperties
    <3> QED
      BY <1>5, <3>1
  <2>3. new = WithTurn(held, e) /\ new # <<>>
    <3>1. Len(new) # 0 /\ Len(<<>>) = 0
      BY <2>2
    <3>2. new # <<>>
      BY <3>1
    <3> QED
      BY <1>8, <1>9, <2>1, <2>2, <3>2
  <2>4. Len(held) <= Len(new) /\ \A i \in 1..Len(held) : i \in 1..n
    BY <1>1, <1>2, <2>2
  <2>5. \A i \in 1..Len(new) : new[i] # <<>>
    BY <1>6, <2>1, <2>2
  <2> QED
    BY <1>3, <1>4, <1>7, <1>9, <2>1, <2>2, <2>3, <2>4, <2>5
<1>10. CASE ~(Len(last) > MaxHistory)
  <2>1. WithTurn(held, e) = grown /\ grown # <<>>
    BY <1>5, <1>8, <1>10
  <2>2. Len(held) <= Len(grown)
    BY <1>1, <1>2, <1>5
  <2>3. grown[Len(grown)] = last
    BY <1>5
  <2> QED
    BY <1>3, <1>4, <1>5, <1>6, <1>7, <1>10, <2>1, <2>2, <2>3
<1> QED
  BY <1>9, <1>10

-----------------------------------------------------------------------------
-----------------------------------------------------------------------------
(* The invariant.                                                          *)

RunStates == {"none", "queued", "running", "hung", "returned", "raised", "cancelled"}
ReplyStates == {"none", "waiting", "streaming", "answered", "failed", "gone"}

\* The values of the lists and of the log after a turn of r.
LEMMA RecordedTurn ==
  ASSUME IInv, NEW r \in Requests, ResumeReturned(r)
  PROVE  LET s == session[r]
         IN  /\ s \in Sessions
             /\ lists' \in [Sessions -> Seq(Seq(Requests))]
             /\ log' \in [Sessions -> Seq(Requests)]
             /\ \A z \in Sessions : z # s => lists'[z] = lists[z] /\ log'[z] = log[z]
             /\ lists'[s] = WithTurn(lists[s], r)
             /\ log'[s] = Append(log[s], r)
             /\ lists'[s] # <<>> /\ Len(lists[s]) <= Len(lists'[s])
             /\ \A i \in 1..Len(lists[s]) :
                    lists'[s][i] = IF i = Len(lists[s]) THEN Append(lists[s][i], r) ELSE lists[s][i]
             /\ \A i \in 1..Len(lists'[s]) : lists'[s][i] # <<>>
             /\ lists'[s][Len(lists'[s])] = LastTurns(log'[s], MaxHistory)
<1> DEFINE s == session[r]
<1>1. /\ s \in Sessions
      /\ lists \in [Sessions -> Seq(Seq(Requests))]
      /\ log \in [Sessions -> Seq(Requests)]
  BY DEF IInv, TypeOK
<1>2. /\ lists' = [lists EXCEPT ![s] = WithTurn(lists[s], r)]
      /\ log' = [log EXCEPT ![s] = Append(log[s], r)]
  BY DEF ResumeReturned
<1> HIDE DEF s
<1>3. lists[s] \in Seq(Seq(Requests)) /\ \A i \in 1..Len(lists[s]) : lists[s][i] # <<>>
  BY <1>1 DEF IInv, ListsInv
<1> DEFINE now == IF lists[s] = <<>> THEN <<>> ELSE lists[s][Len(lists[s])]
           last == Append(now, r)
           new == WithTurn(lists[s], r)
<1>4. /\ new \in Seq(Seq(Requests)) /\ new # <<>>
      /\ Len(lists[s]) <= Len(new)
      /\ \A i \in 1..Len(lists[s]) :
             new[i] = IF i = Len(lists[s]) THEN Append(lists[s][i], r) ELSE lists[s][i]
      /\ \A i \in 1..Len(new) : new[i] # <<>>
      /\ new[Len(new)] = IF Len(last) > MaxHistory THEN LastTurns(last, MaxHistory) ELSE last
  BY <1>3, TurnIsAdded
<1>5. now = LastTurns(log[s], MaxHistory)
  BY <1>1 DEF IInv, ListsInv, Current
<1>6. LastTurns(Append(log[s], r), MaxHistory) =
        IF Len(last) > MaxHistory THEN LastTurns(last, MaxHistory) ELSE last
  BY <1>1, <1>5, EndGrows, BoundsAssumption
<1> HIDE DEF now, last, new
<1>7. lists'[s] = new /\ log'[s] = Append(log[s], r)
  BY <1>1, <1>2 DEF new
<1>8. lists'[s][Len(lists'[s])] = LastTurns(log'[s], MaxHistory)
  BY <1>4, <1>6, <1>7
<1>9. Append(log[s], r) \in Seq(Requests)
  BY <1>1, AppendProperties
<1>10. /\ lists' \in [Sessions -> Seq(Seq(Requests))]
       /\ log' \in [Sessions -> Seq(Requests)]
       /\ \A z \in Sessions : z # s => lists'[z] = lists[z] /\ log'[z] = log[z]
  <2>1. new \in Seq(Seq(Requests))
    BY <1>4
  <2> QED
    BY <1>1, <1>2, <1>9, <2>1 DEF new
<1>11. lists'[s] = WithTurn(lists[s], r)
  BY <1>7 DEF new
<1> QED
  BY <1>1, <1>4, <1>7, <1>8, <1>10, <1>11 DEF s

\* Every step keeps the types.
LEMMA TypeStep == IInv /\ [Next]_vars => TypeOK'
<1> SUFFICES ASSUME IInv, [Next]_vars PROVE TypeOK'
  OBVIOUS
<1> DEFINE Goal == TypeOK'
<1>a. /\ kind \in [Requests -> {"run", "stream"}]
      /\ session \in [Requests -> Sessions]
      /\ lists \in [Sessions -> Seq(Seq(Requests))]
      /\ history \in [Requests -> Nat]
      /\ \A r \in Requests : history[r] \in 0..Len(lists[session[r]])
      /\ queue \in Seq(Requests)
      /\ run \in [Requests -> RunStates]
      /\ reply \in [Requests -> ReplyStates]
      /\ total \in Nat
      /\ loopTracer \in Requests \cup {NoRequest}
      /\ traced \subseteq Requests
      /\ log \in [Sessions -> Seq(Requests)]
  BY DEF IInv, TypeOK, RunStates, ReplyStates
<1> USE DEF RunStates, ReplyStates, request, tracing, record
<1>1. ASSUME NEW r \in Requests, Arrive(r) PROVE Goal
  <2>1. Len(lists[session[r]]) \in Nat
    BY <1>a
  <2>2. history' \in [Requests -> Nat] /\ \A q \in Requests : history'[q] \in 0..Len(lists[session[q]])
    BY <1>1, <1>a, <2>1 DEF Arrive, HistoryFor
  <2>3. Append(queue, r) \in Seq(Requests)
    BY <1>a, AppendProperties
  <2> QED
    BY <1>1, <1>a, <2>2, <2>3 DEF Arrive, TypeOK
<1>2. ASSUME NEW r \in Requests, StartRun(r) PROVE Goal
  <2>1. Tail(queue) \in Seq(Requests)
    BY <1>2, <1>a, HeadTailProperties DEF StartRun
  <2> QED
    BY <1>2, <1>a, <2>1 DEF StartRun, TypeOK
<1>3. ASSUME NEW r \in Requests, RunEnds(r) PROVE Goal
  <2>1. traced' \subseteq Requests
    BY <1>3, <1>a DEF RunEnds, GetTracer
  <2>2. run' \in [Requests -> RunStates]
    BY <1>3, <1>a DEF RunEnds
  <2> QED
    BY <1>3, <1>a, <2>1, <2>2 DEF RunEnds, TypeOK
<1>4. ASSUME NEW r \in Requests, RunHangs(r) PROVE Goal
  BY <1>4, <1>a DEF RunHangs, TypeOK
<1>5. ASSUME NEW r \in Requests, ResumeReturned(r) PROVE Goal
  <2>1. /\ lists' \in [Sessions -> Seq(Seq(Requests))]
        /\ log' \in [Sessions -> Seq(Requests)]
        /\ session[r] \in Sessions
        /\ \A z \in Sessions : z # session[r] => lists'[z] = lists[z]
        /\ Len(lists[session[r]]) <= Len(lists'[session[r]])
    BY <1>5, RecordedTurn
  <2>2. \A q \in Requests : history[q] \in 0..Len(lists'[session[q]])
    <3> TAKE q \in Requests
    <3>1. /\ session[q] \in Sessions /\ history[q] \in 0..Len(lists[session[q]])
          /\ Len(lists[session[q]]) \in Nat /\ Len(lists'[session[q]]) \in Nat
      BY <1>a, <2>1
    <3>2. Len(lists[session[q]]) <= Len(lists'[session[q]])
      <4>1. CASE session[q] = session[r]
        BY <2>1, <4>1
      <4>2. CASE session[q] # session[r]
        BY <2>1, <3>1, <4>2
      <4> QED
        BY <4>1, <4>2
    <3> QED
      BY <3>1, <3>2
  <2>3. reply' \in [Requests -> ReplyStates]
    BY <1>5, <1>a DEF ResumeReturned
  <2>4. UNCHANGED <<kind, session, history, queue, run, traced>>
        /\ total' = total + 1 /\ loopTracer' = NoRequest
    BY <1>5 DEF ResumeReturned
  <2> QED
    BY <1>a, <2>1, <2>2, <2>3, <2>4 DEF TypeOK
<1>6. ASSUME NEW r \in Requests, ResumeRaised(r) PROVE Goal
  BY <1>6, <1>a DEF ResumeRaised, TypeOK
<1>7. ASSUME NEW r \in Requests, FinishStream(r) PROVE Goal
  BY <1>7, <1>a DEF FinishStream, TypeOK
<1>8. ASSUME NEW r \in Requests, Disconnect(r) PROVE Goal
  <2>1. queue' \in Seq(Requests) /\ run' \in [Requests -> RunStates]
    <3>1. CASE run[r] = "queued"
      <4>1. PICK i \in 1..Len(queue) : queue' = RemoveAt(queue, i)
        BY <1>8, <1>a, <3>1 DEF Disconnect
      <4> QED
        BY <1>8, <1>a, <3>1, <4>1, Removed DEF Disconnect
    <3>2. CASE run[r] # "queued"
      BY <1>8, <1>a, <3>2 DEF Disconnect
    <3> QED
      BY <3>1, <3>2
  <2> QED
    BY <1>8, <1>a, <2>1 DEF Disconnect, TypeOK
<1>9. CASE UNCHANGED vars
  BY <1>9, <1>a DEF vars, TypeOK
<1> QED
  BY <1>1, <1>2, <1>3, <1>4, <1>5, <1>6, <1>7, <1>8, <1>9 DEF Next, Progress

\* Every step keeps the queue in step with the runs.
LEMMA QueueStep == IInv /\ [Next]_vars => QueueInv'
<1> SUFFICES ASSUME IInv, [Next]_vars PROVE QueueInv'
  OBVIOUS
<1> DEFINE Goal == QueueInv'
<1>a. /\ queue \in Seq(Requests) /\ run \in [Requests -> RunStates]
      /\ Len(queue) \in Nat
      /\ \A i \in 1..Len(queue) : queue[i] \in Requests /\ run[queue[i]] = "queued"
      /\ \A i, j \in 1..Len(queue) : queue[i] = queue[j] => i = j
  BY DEF IInv, TypeOK, QueueInv, RunStates
<1>b. \A r \in Requests : (reply[r] = "none") = (run[r] = "none")
  BY DEF IInv, ReplyInv
<1> USE DEF RunStates
<1>1. ASSUME NEW r \in Requests, Arrive(r) PROVE Goal
  <2>1. /\ queue' = Append(queue, r) /\ run' = [run EXCEPT ![r] = "queued"]
        /\ run[r] = "none"
    BY <1>1, <1>b DEF Arrive
  <2>2. /\ Len(queue') = Len(queue) + 1
        /\ \A i \in 1..Len(queue) : queue'[i] = queue[i]
        /\ queue'[Len(queue) + 1] = r
    BY <1>a, <2>1, AppendProperties
  <2>3. \A i \in 1..Len(queue) : queue[i] # r
    BY <1>a, <2>1
  <2>4. \A i \in 1..Len(queue') : run'[queue'[i]] = "queued"
    BY <1>a, <2>1, <2>2
  <2>5. \A i, j \in 1..Len(queue') : queue'[i] = queue'[j] => i = j
    BY <1>a, <2>2, <2>3
  <2> QED
    BY <2>4, <2>5 DEF QueueInv
<1>2. ASSUME NEW r \in Requests, StartRun(r) PROVE Goal
  <2>1. queue # <<>> /\ r = queue[1] /\ queue' = Tail(queue)
        /\ run' = [run EXCEPT ![r] = "running"]
    BY <1>2, <1>a DEF StartRun
  <2>2. /\ Len(queue') = Len(queue) - 1
        /\ \A i \in 1..Len(queue') : queue'[i] = queue[i + 1]
    BY <1>a, <2>1, HeadTailProperties
  <2>3. \A i \in 1..Len(queue') : i + 1 \in 1..Len(queue) /\ 1 \in 1..Len(queue) /\ i + 1 # 1
    BY <1>a, <2>2
  <2>4. \A i \in 1..Len(queue') : queue'[i] # r
    BY <1>a, <2>1, <2>2, <2>3
  <2>5. \A i \in 1..Len(queue') : run'[queue'[i]] = "queued"
    BY <1>a, <2>1, <2>2, <2>3, <2>4
  <2>6. \A i, j \in 1..Len(queue') : queue'[i] = queue'[j] => i = j
    BY <1>a, <2>2, <2>3
  <2> QED
    BY <2>5, <2>6 DEF QueueInv
<1>3. ASSUME NEW r \in Requests, RunEnds(r) PROVE Goal
  BY <1>3, <1>a DEF RunEnds, QueueInv
<1>4. ASSUME NEW r \in Requests, RunHangs(r) PROVE Goal
  BY <1>4, <1>a DEF RunHangs, QueueInv
<1>5. ASSUME NEW r \in Requests, ResumeReturned(r) PROVE Goal
  <2>1. UNCHANGED <<queue, run>>
    BY <1>5 DEF ResumeReturned
  <2> QED
    BY <1>a, <2>1 DEF QueueInv
<1>6. ASSUME NEW r \in Requests, ResumeRaised(r) PROVE Goal
  BY <1>6, <1>a DEF ResumeRaised, QueueInv
<1>7. ASSUME NEW r \in Requests, FinishStream(r) PROVE Goal
  BY <1>7, <1>a DEF FinishStream, QueueInv
<1>8. ASSUME NEW r \in Requests, Disconnect(r) PROVE Goal
  <2>1. CASE run[r] = "queued"
    <3>1. PICK k \in 1..Len(queue) : queue[k] = r /\ queue' = RemoveAt(queue, k)
      BY <1>8, <1>a, <2>1 DEF Disconnect
    <3>2. run' = [run EXCEPT ![r] = "cancelled"]
      BY <1>8, <2>1 DEF Disconnect
    <3>3. /\ Len(queue') = Len(queue) - 1
          /\ \A i \in 1..(Len(queue) - 1) : queue'[i] = IF i < k THEN queue[i] ELSE queue[i + 1]
      <4>1. /\ Len(RemoveAt(queue, k)) = Len(queue) - 1
            /\ \A j \in 1..(Len(queue) - 1) :
                   RemoveAt(queue, k)[j] = IF j < k THEN queue[j] ELSE queue[j + 1]
        BY <1>a, Removed
      <4> QED
        BY <3>1, <4>1
    <3> DEFINE from(i) == IF i < k THEN i ELSE i + 1
    <3>4. \A i \in 1..Len(queue') : from(i) \in 1..Len(queue) /\ from(i) # k
      BY <1>a, <3>3
    <3>5. \A i, j \in 1..Len(queue') : from(i) = from(j) => i = j
      BY <1>a, <3>3
    <3>6. \A i \in 1..Len(queue') : queue'[i] = queue[from(i)]
      BY <1>a, <3>3
    <3> HIDE DEF from
    <3>7. \A i \in 1..Len(queue') : run'[queue'[i]] = "queued"
      BY <1>a, <3>1, <3>2, <3>4, <3>6
    <3>8. \A i, j \in 1..Len(queue') : queue'[i] = queue'[j] => i = j
      <4> TAKE i, j \in 1..Len(queue')
      <4>1. queue[from(i)] = queue[from(j)] => from(i) = from(j)
        BY <1>a, <3>4
      <4> QED
        BY <3>5, <3>6, <4>1
    <3> QED
      BY <3>7, <3>8 DEF QueueInv
  <2>2. CASE run[r] # "queued"
    <3>1. UNCHANGED <<queue, run>>
      BY <1>8, <2>2 DEF Disconnect
    <3> QED
      BY <1>a, <3>1 DEF QueueInv
  <2> QED
    BY <2>1, <2>2
<1>9. CASE UNCHANGED vars
  BY <1>9, <1>a DEF vars, QueueInv
<1> QED
  BY <1>1, <1>2, <1>3, <1>4, <1>5, <1>6, <1>7, <1>8, <1>9 DEF Next, Progress

\* Every step keeps the responses in step with the runs.
LEMMA ReplyStep == IInv /\ [Next]_vars => ReplyInv'
<1> SUFFICES ASSUME IInv, [Next]_vars PROVE ReplyInv'
  OBVIOUS
<1> DEFINE Goal == ReplyInv'
<1>a. /\ queue \in Seq(Requests)
      /\ run \in [Requests -> RunStates] /\ reply \in [Requests -> ReplyStates]
      /\ \A i \in 1..Len(queue) : run[queue[i]] = "queued"
      /\ ReplyInv
  BY DEF IInv, TypeOK, QueueInv, RunStates, ReplyStates
<1> USE DEF ReplyInv, RunStates, ReplyStates
<1>1. ASSUME NEW r \in Requests, Arrive(r) PROVE Goal
  BY <1>1, <1>a DEF Arrive
<1>2. ASSUME NEW r \in Requests, StartRun(r) PROVE Goal
  <2>1. run[r] = "queued"
    BY <1>2, <1>a DEF StartRun
  <2> QED
    BY <1>2, <1>a, <2>1 DEF StartRun
<1>3. ASSUME NEW r \in Requests, RunEnds(r) PROVE Goal
  BY <1>3, <1>a DEF RunEnds
<1>4. ASSUME NEW r \in Requests, RunHangs(r) PROVE Goal
  BY <1>4, <1>a DEF RunHangs
<1>5. ASSUME NEW r \in Requests, ResumeReturned(r) PROVE Goal
  <2>1. PICK how \in {"answered", "failed", "streaming"} : reply' = [reply EXCEPT ![r] = how]
    BY <1>5 DEF ResumeReturned
  <2>2. run' = run /\ run[r] = "returned"
    BY <1>5 DEF ResumeReturned
  <2> QED
    BY <1>a, <2>1, <2>2
<1>6. ASSUME NEW r \in Requests, ResumeRaised(r) PROVE Goal
  BY <1>6, <1>a DEF ResumeRaised
<1>7. ASSUME NEW r \in Requests, FinishStream(r) PROVE Goal
  BY <1>7, <1>a DEF FinishStream
<1>8. ASSUME NEW r \in Requests, Disconnect(r) PROVE Goal
  BY <1>8, <1>a DEF Disconnect
<1>9. CASE UNCHANGED vars
  BY <1>9, <1>a DEF vars
<1> QED
  BY <1>1, <1>2, <1>3, <1>4, <1>5, <1>6, <1>7, <1>8, <1>9 DEF Next, Progress

\* Every step keeps the log one of answers.
LEMMA LogStep == IInv /\ [Next]_vars => LogInv'
<1> SUFFICES ASSUME IInv, [Next]_vars PROVE LogInv'
  OBVIOUS
<1> DEFINE Goal == LogInv'
<1>a. /\ session \in [Requests -> Sessions]
      /\ queue \in Seq(Requests)
      /\ \A i \in 1..Len(queue) : run[queue[i]] = "queued"
      /\ run \in [Requests -> RunStates] /\ reply \in [Requests -> ReplyStates]
      /\ log \in [Sessions -> Seq(Requests)]
      /\ total \in Nat
      /\ ReplyInv /\ LogInv
  BY DEF IInv, TypeOK, QueueInv, RunStates, ReplyStates
<1>b. ASSUME UNCHANGED <<session, log, total>>,
             \A q \in Requests : run[q] = "returned" => run'[q] = "returned",
             \A q \in Requests : reply'[q] \in {"streaming", "answered"}
                                     => reply[q] \in {"streaming", "answered"},
             \A q \in Requests : reply'[q] = "waiting" => reply[q] = "waiting" \/ run[q] = "none"
      PROVE  Goal
  <2>1. Recorded' = Recorded
    BY <1>b DEF Recorded
  <2>2. \A s \in Sessions : \A r \in Range(log[s]) : r \in Requests
    BY <1>a DEF Range
  <2>3. TurnsAreAnswers'
    BY <1>a, <1>b, <2>1, <2>2 DEF LogInv, TurnsAreAnswers
  <2>4. \A r \in Recorded : run[r] = "returned"
    BY <1>a DEF LogInv, TurnsAreAnswers, Recorded
  <2>5. \A r \in Recorded : reply'[r] # "waiting"
    BY <1>a, <1>b, <2>4 DEF LogInv, Recorded
  <2> QED
    BY <1>a, <2>1, <2>3, <2>5 DEF LogInv
<1> USE DEF RunStates, ReplyStates, record, request, tracing
<1>1. ASSUME NEW r \in Requests, Arrive(r) PROVE Goal
  BY <1>1, <1>a, <1>b DEF Arrive, ReplyInv
<1>2. ASSUME NEW r \in Requests, StartRun(r) PROVE Goal
  <2>1. run[r] = "queued"
    BY <1>2, <1>a DEF StartRun
  <2> QED
    BY <1>2, <1>a, <1>b, <2>1 DEF StartRun
<1>3. ASSUME NEW r \in Requests, RunEnds(r) PROVE Goal
  BY <1>3, <1>a, <1>b DEF RunEnds
<1>4. ASSUME NEW r \in Requests, RunHangs(r) PROVE Goal
  BY <1>4, <1>a, <1>b DEF RunHangs
<1>5. ASSUME NEW r \in Requests, ResumeReturned(r) PROVE Goal
  <2> DEFINE s == session[r]
  <2>1. /\ s \in Sessions
        /\ log'[s] = Append(log[s], r)
        /\ \A z \in Sessions : z # s => log'[z] = log[z]
    BY <1>5, RecordedTurn
  <2>2. /\ reply[r] = "waiting" /\ run[r] = "returned"
        /\ UNCHANGED <<run, session>> /\ total' = total + 1
    BY <1>5 DEF ResumeReturned
  <2>3. \A q \in Requests : q # r => reply'[q] = reply[q]
    BY <1>5, <1>a DEF ResumeReturned
  <2>4. reply'[r] # "waiting"
    BY <1>5, <1>a DEF ResumeReturned
  <2> HIDE DEF s
  <2>5. r \notin Recorded
    BY <1>a, <2>2 DEF LogInv
  <2>6. r \notin Range(log[s])
    BY <2>5 DEF Recorded, s
  <2>7. /\ Len(log'[s]) = Len(log[s]) + 1
        /\ \A i \in 1..Len(log[s]) : log'[s][i] = log[s][i]
        /\ log'[s][Len(log[s]) + 1] = r
        /\ log'[s] \in Seq(Requests) /\ log[s] \in Seq(Requests)
    BY <1>a, <2>1, AppendProperties
  <2>8. DOMAIN log[s] = 1..Len(log[s]) /\ DOMAIN log'[s] = 1..(Len(log[s]) + 1) /\ Len(log[s]) \in Nat
    BY <2>7
  <2>9. Range(log'[s]) = Range(log[s]) \cup {r}
    BY <2>7, <2>8 DEF Range
  <2>10. IsInjective(log'[s])
    <3>1. IsInjective(log[s])
      BY <1>a, <2>1 DEF LogInv, TurnsAreAnswers
    <3>2. PICK n \in Nat : n = Len(log[s])
      BY <2>8
    <3>3. \A i, j \in 1..n : log[s][i] = log[s][j] => i = j
      BY <2>8, <3>1, <3>2, Zenon DEF IsInjective
    <3>4. \A i \in 1..n : log[s][i] # r
      BY <2>6, <2>8, <3>2, Zenon DEF Range
    <3>5. /\ \A i \in 1..n : log'[s][i] = log[s][i]
          /\ log'[s][n + 1] = r /\ DOMAIN log'[s] = 1..(n + 1)
      BY <2>7, <2>8, <3>2, Zenon
    <3>6. \A i \in 1..(n + 1) : i \in 1..n \/ i = n + 1
      BY <3>2
    <3> QED
      BY <3>3, <3>4, <3>5, <3>6, Zenon DEF IsInjective
  <2>11. Recorded' = Recorded \cup {r}
    <3>1. \A q \in Requests : session[q] \in Sessions
      BY <1>a
    <3> QED
      BY <2>1, <2>2, <2>9, <3>1 DEF Recorded, s
  <2>12. IsFiniteSet(Recorded') /\ Cardinality(Recorded') = Cardinality(Recorded) + 1
    BY <1>a, <2>5, <2>11, FS_AddElement DEF LogInv
  <2>13. TurnsAreAnswers'
    <3>1. ASSUME NEW z \in Sessions
          PROVE  /\ IsInjective(log'[z])
                 /\ \A q \in Range(log'[z]) : session'[q] = z /\ run'[q] = "returned"
      <4>1. CASE z = s
        <5>1. \A q \in Range(log[z]) : session[q] = z /\ run[q] = "returned"
          BY <1>a DEF LogInv, TurnsAreAnswers
        <5>2. session[r] = z
          BY <4>1 DEF s
        <5> QED
          BY <2>2, <2>9, <2>10, <4>1, <5>1, <5>2
      <4>2. CASE z # s
        BY <1>a, <2>1, <2>2, <4>2 DEF LogInv, TurnsAreAnswers
      <4> QED
        BY <4>1, <4>2
    <3>2. \A q \in Requests : reply'[q] \in {"streaming", "answered"} => q \in Recorded'
      BY <1>a, <2>3, <2>11 DEF LogInv, TurnsAreAnswers
    <3>3. total' = Cardinality(Recorded')
      BY <1>a, <2>2, <2>12 DEF LogInv, TurnsAreAnswers
    <3> QED
      BY <3>1, <3>2, <3>3 DEF TurnsAreAnswers
  <2>14. \A q \in Recorded' : reply'[q] # "waiting"
    BY <1>a, <2>3, <2>4, <2>11 DEF LogInv, Recorded
  <2> QED
    BY <2>12, <2>13, <2>14 DEF LogInv
<1>6. ASSUME NEW r \in Requests, ResumeRaised(r) PROVE Goal
  BY <1>6, <1>a, <1>b DEF ResumeRaised
<1>7. ASSUME NEW r \in Requests, FinishStream(r) PROVE Goal
  BY <1>7, <1>a, <1>b DEF FinishStream
<1>8. ASSUME NEW r \in Requests, Disconnect(r) PROVE Goal
  BY <1>8, <1>a, <1>b DEF Disconnect
<1>9. CASE UNCHANGED vars
  BY <1>9, <1>a, <1>b DEF vars
<1> QED
  BY <1>1, <1>2, <1>3, <1>4, <1>5, <1>6, <1>7, <1>8, <1>9 DEF Next, Progress

\* Every step keeps the current lists the ends of the logs.
LEMMA ListsStep == IInv /\ [Next]_vars => ListsInv'
<1> SUFFICES ASSUME IInv, [Next]_vars PROVE ListsInv'
  OBVIOUS
<1>1. ASSUME NEW r \in Requests, ResumeReturned(r) PROVE ListsInv'
  <2>1. /\ \A z \in Sessions : z # session[r] => lists'[z] = lists[z] /\ log'[z] = log[z]
        /\ \A i \in 1..Len(lists'[session[r]]) : lists'[session[r]][i] # <<>>
        /\ LET new == lists'[session[r]]
           IN  new # <<>> /\ new[Len(new)] = LastTurns(log'[session[r]], MaxHistory)
        /\ session[r] \in Sessions
    BY <1>1, RecordedTurn
  <2>2. session' = session
    BY <1>1 DEF ResumeReturned, request
  <2>3. ASSUME NEW z \in Sessions
        PROVE  /\ \A i \in 1..Len(lists'[z]) : lists'[z][i] # <<>>
               /\ Current(z)' = LastTurns(log'[z], MaxHistory)
    <3>1. CASE z = session[r]
      BY <2>1, <2>2, <3>1 DEF Current
    <3>2. CASE z # session[r]
      BY <2>1, <3>2 DEF Current, IInv, ListsInv
    <3> QED
      BY <3>1, <3>2
  <2> QED
    BY <2>3 DEF ListsInv
<1>2. CASE UNCHANGED <<lists, log>>
  BY <1>2 DEF IInv, ListsInv, Current
<1> QED
  BY <1>1, <1>2 DEF Next, Progress, vars, record, Arrive, StartRun, RunEnds, RunHangs,
                    ResumeRaised, FinishStream, Disconnect

LEMMA InitEstablishes == Init => IInv
<1> SUFFICES ASSUME Init PROVE IInv
  OBVIOUS
<1> USE DEF Init
<1>1. TypeOK
  BY DEF TypeOK
<1>2. QueueInv
  BY DEF QueueInv
<1>3. ReplyInv
  BY DEF ReplyInv
<1>4. Recorded = {}
  <2>1. \A r \in Requests : session[r] \in Sessions
    OBVIOUS
  <2>2. \A s \in Sessions : Range(log[s]) = {}
    BY DEF Range
  <2> QED
    BY <2>1, <2>2 DEF Recorded
<1>5. LogInv
  <2>1. \A s \in Sessions : Range(log[s]) = {} /\ IsInjective(log[s])
    BY DEF Range, IsInjective
  <2>2. Cardinality({}) = 0 /\ IsFiniteSet({})
    BY FS_EmptySet
  <2> QED
    BY <1>4, <2>1, <2>2 DEF LogInv, TurnsAreAnswers
<1>6. ListsInv
  <2>1. LastTurns(<<>>, MaxHistory) = <<>>
    BY BoundsAssumption DEF LastTurns
  <2> QED
    BY <2>1 DEF ListsInv, Current
<1> QED
  BY <1>1, <1>2, <1>3, <1>5, <1>6 DEF IInv

\* IInv is an invariant.
THEOREM Invariance == Spec => []IInv
<1>1. IInv /\ [Next]_vars => IInv'
  BY TypeStep, QueueStep, ReplyStep, LogStep, ListsStep DEF IInv
<1> QED
  BY InitEstablishes, <1>1, PTL DEF Spec

\* Every variable of the service keeps its type, the history a run was handed
\* being one of the lists of its session (query.py, _build_initial_state).
THEOREM TypesCorrect == Spec => []TypeOK
<1>1. IInv => TypeOK
  BY DEF IInv
<1> QED
  BY Invariance, <1>1, PTL

\* A conversation holds each answer of its session once, and nothing else
\* (query.py, _update_conversation).
THEOREM TurnsBelong == Spec => []TurnsAreAnswers
<1>1. IInv => TurnsAreAnswers
  BY DEF IInv, LogInv
<1> QED
  BY Invariance, <1>1, PTL

-----------------------------------------------------------------------------
(* The refinement: what the runs are given is a view of a ConversationLog. *)

\* Steps that leave the lists alone change only who is answering, and what one
\* request was given.
LEMMA SameLists ==
  ASSUME IInv, UNCHANGED <<request, lists, log>>, history' = history, Answering' = Answering
  PROVE  UNCHANGED Conversation!vars
<1>1. \A s \in Sessions : Current(s)' = Current(s)
  BY DEF Current
<1>2. \A r \in Requests : Given(r)' = Given(r)
  BY DEF Given, request
<1>3. [s \in Sessions |-> Current(s)]' = [s \in Sessions |-> Current(s)]
  BY <1>1
<1>4. [r \in Requests |-> Given(r)]' = [r \in Requests |-> Given(r)]
  BY <1>2
<1> QED
  BY <1>3, <1>4 DEF Conversation!vars

LEMMA Dropping ==
  ASSUME IInv, UNCHANGED <<request, lists, log>>, history' = history,
         NEW r \in Answering, Answering' = Answering \ {r}
  PROVE  Conversation!Next
<1>1. [s \in Sessions |-> Current(s)]' = [s \in Sessions |-> Current(s)]
  <2>1. \A s \in Sessions : Current(s)' = Current(s)
    BY DEF Current
  <2> QED
    BY <2>1
<1>2. r \in Requests
  BY DEF Answering
<1>3. \A q \in Requests : Given(q)' = IF q = r THEN <<>> ELSE Given(q)
  BY DEF Given, request
<1>4. [q \in Requests |-> Given(q)]' = [[q \in Requests |-> Given(q)] EXCEPT ![r] = <<>>]
  BY <1>2, <1>3
<1>5. Conversation!Drop(r)
  BY <1>1, <1>4 DEF Conversation!Drop
<1> QED
  BY <1>2, <1>5 DEF Conversation!Next

LEMMA Asking ==
  ASSUME IInv, NEW r \in Requests, Arrive(r)
  PROVE  Conversation!Next
<1>1. /\ UNCHANGED <<kind, session, lists, log>>
      /\ history' = [history EXCEPT ![r] = Len(lists[session[r]])]
      /\ run' = [run EXCEPT ![r] = "queued"]
      /\ reply' = [reply EXCEPT ![r] = "waiting"]
      /\ run[r] = "none"
  BY DEF Arrive, request, record, HistoryFor, IInv, ReplyInv
<1>2. /\ history \in [Requests -> Nat] /\ run \in [Requests -> RunStates]
      /\ reply \in [Requests -> ReplyStates] /\ session \in [Requests -> Sessions]
      /\ lists \in [Sessions -> Seq(Seq(Requests))]
  BY DEF IInv, TypeOK, RunStates, ReplyStates
<1>3. r \notin Answering /\ Answering' = Answering \cup {r}
  BY <1>1, <1>2 DEF Answering, RunStates, ReplyStates
<1>4. [s \in Sessions |-> Current(s)]' = [s \in Sessions |-> Current(s)]
  <2>1. \A s \in Sessions : Current(s)' = Current(s)
    BY <1>1 DEF Current
  <2> QED
    BY <2>1
<1>5. Given(r)' = Current(session[r])
  <2>1. lists[session[r]] \in Seq(Seq(Requests))
    BY <1>2
  <2>2. Len(lists[session[r]]) = 0 <=> lists[session[r]] = <<>>
    BY <2>1, EmptySeq
  <2>3. history'[r] = Len(lists[session[r]]) /\ r \in Answering'
    BY <1>1, <1>2, <1>3
  <2> QED
    BY <1>1, <2>2, <2>3 DEF Given, Current
<1>6. \A q \in Requests : q # r => Given(q)' = Given(q)
  BY <1>1, <1>2, <1>3 DEF Given
<1> DEFINE memory == [s \in Sessions |-> Current(s)]
<1>7. [q \in Requests |-> Given(q)]' = [[q \in Requests |-> Given(q)] EXCEPT ![r] = memory[session[r]]]
  <2>1. memory[session[r]] = Current(session[r])
    BY <1>2
  <2> HIDE DEF memory
  <2> QED
    BY <1>5, <1>6, <2>1
<1>8. Conversation!Ask(r, session[r])
  BY <1>1, <1>3, <1>4, <1>7 DEF Conversation!Ask
<1> QED
  BY <1>2, <1>8 DEF Conversation!Next

LEMMA Recording ==
  ASSUME IInv, NEW r \in Requests, ResumeReturned(r)
  PROVE  Conversation!Next
<1> DEFINE s == session[r]
<1>1. /\ s \in Sessions
      /\ \A z \in Sessions : z # s => lists'[z] = lists[z] /\ log'[z] = log[z]
      /\ log'[s] = Append(log[s], r)
      /\ lists'[s] # <<>> /\ Len(lists[s]) <= Len(lists'[s])
      /\ \A i \in 1..Len(lists[s]) :
             lists'[s][i] = IF i = Len(lists[s]) THEN Append(lists[s][i], r) ELSE lists[s][i]
      /\ lists'[s][Len(lists'[s])] = LastTurns(log'[s], MaxHistory)
  BY RecordedTurn
<1>2. /\ UNCHANGED <<kind, session, history, run>>
      /\ reply[r] = "waiting" /\ run[r] = "returned"
      /\ log' = [log EXCEPT ![s] = Append(log[s], r)]
  BY DEF ResumeReturned, request
<1>3. /\ history \in [Requests -> Nat] /\ session \in [Requests -> Sessions]
      /\ \A q \in Requests : history[q] \in 0..Len(lists[session[q]])
      /\ lists \in [Sessions -> Seq(Seq(Requests))]
      /\ log \in [Sessions -> Seq(Requests)]
      /\ reply \in [Requests -> ReplyStates]
  BY DEF IInv, TypeOK, ReplyStates
<1>4. reply'[r] # "waiting" /\ \A q \in Requests : q # r => reply'[q] = reply[q]
  BY <1>3 DEF ResumeReturned, ReplyStates
<1>5. r \in Answering /\ Answering' = Answering \ {r}
  BY <1>2, <1>4 DEF Answering
<1>6. r \notin Range(log[s])
  BY <1>2 DEF IInv, LogInv, Recorded
<1> DEFINE Q == {q \in Answering \ {r} : session[q] = s /\ history[q] # 0 /\ history[q] = Len(lists[s])}
           view == [q \in Requests |-> Given(q)]
           memory == [z \in Sessions |-> Current(z)]
<1> HIDE DEF s
<1>7. \A q \in Q : Given(q) # <<>> /\ IsSuffix(Given(q), log[s])
  <2> TAKE q \in Q
  <2>1. /\ q \in Requests /\ q \in Answering /\ session[q] = s
        /\ history[q] = Len(lists[s]) /\ history[q] # 0
    BY DEF Answering
  <2>2. lists[s] \in Seq(Seq(Requests)) /\ Len(lists[s]) \in Nat
    BY <1>1, <1>3
  <2>3. lists[s] # <<>> /\ history[q] \in 1..Len(lists[s])
    BY <2>1, <2>2
  <2>4. Given(q) = Current(s)
    BY <2>1, <2>3 DEF Given, Current
  <2>5. Given(q) # <<>>
    BY <1>1, <2>1, <2>3 DEF Given, IInv, ListsInv
  <2>6. Current(s) = LastTurns(log[s], MaxHistory) /\ log[s] \in Seq(Requests)
    BY <1>1, <1>3 DEF IInv, ListsInv
  <2> QED
    BY <2>4, <2>5, <2>6, LastTurnsIsSuffix, BoundsAssumption
<1>8. ASSUME NEW q \in Requests
      PROVE  Given(q)' = IF q = r THEN <<>>
                         ELSE IF q \in Q THEN Append(Given(q), r) ELSE Given(q)
  <2>1. CASE q \notin Answering \ {r}
    BY <1>5, <2>1 DEF Given
  <2>2. CASE q \in Answering \ {r} /\ history[q] = 0
    BY <1>2, <1>5, <2>2 DEF Given
  <2>3. CASE q \in Answering \ {r} /\ history[q] # 0 /\ session[q] # s
    <3>1. session[q] \in Sessions
      BY <1>3
    <3> QED
      BY <1>1, <1>2, <1>5, <2>3, <3>1 DEF Given
  <2>4. CASE q \in Answering \ {r} /\ history[q] # 0 /\ session[q] = s
    <3>1. history[q] \in 1..Len(lists[s])
      BY <1>3, <2>4
    <3>2. Given(q) = lists[s][history[q]] /\ Given(q)' = lists'[s][history[q]]
      BY <1>2, <1>5, <2>4 DEF Given
    <3> QED
      BY <1>1, <2>4, <3>1, <3>2
  <2> QED
    BY <2>1, <2>2, <2>3, <2>4
<1>9. memory' = [memory EXCEPT ![s] = LastTurns(log'[s], MaxHistory)]
  <2>1. \A z \in Sessions : z # s => Current(z)' = Current(z)
    BY <1>1 DEF Current
  <2>2. \A z \in Sessions : z = s => Current(z)' = LastTurns(log'[s], MaxHistory)
    BY <1>1 DEF Current
  <2> QED
    BY <1>1, <2>1, <2>2
<1>10. Q \in SUBSET (Answering \ {r}) /\ \A q \in Q : q \in Requests
  BY DEF Answering
<1> HIDE DEF Q
<1>11. view' = [q \in Requests |-> IF q = r THEN <<>>
                                   ELSE IF q \in Q THEN Append(view[q], r) ELSE view[q]]
  BY <1>8
<1>12. \A q \in Q : view[q] # <<>> /\ IsSuffix(view[q], log[s])
  BY <1>7, <1>10
<1> HIDE DEF view, memory
<1>13. \E P \in SUBSET (Answering \ {r}) :
         /\ \A q \in P : view[q] # <<>> /\ IsSuffix(view[q], log[s])
         /\ view' = [q \in Requests |-> IF q = r THEN <<>>
                                        ELSE IF q \in P THEN Append(view[q], r) ELSE view[q]]
  BY <1>10, <1>11, <1>12
<1>14. memory' = [memory EXCEPT ![s] = Conversation!LastTurns(log'[s], MaxHistory)]
  BY <1>9 DEF LastTurns, Conversation!LastTurns
<1>15. log' = [log EXCEPT ![s] = Append(@, r)]
  BY <1>2
<1>16. /\ Conversation!Range(log[s]) = Range(log[s])
       /\ \A a, b : Conversation!IsSuffix(a, b) = IsSuffix(a, b)
  BY DEF Range, Conversation!Range, IsSuffix, Conversation!IsSuffix, IsPrefix,
         Conversation!IsPrefix, Reverse, Conversation!Reverse
<1>17. Conversation!Record(r, s)
  BY <1>5, <1>6, <1>13, <1>14, <1>15, <1>16 DEF Conversation!Record, view, memory
<1> QED
  BY <1>1, <1>17 DEF Conversation!Next
LEMMA ConversationInit == Init => Conversation!Init
<1> SUFFICES ASSUME Init PROVE Conversation!Init
  OBVIOUS
<1>1. \A s \in Sessions : Current(s) = <<>>
  BY DEF Init, Current
<1>2. Answering = {}
  BY DEF Init, Answering
<1>3. \A r \in Requests : Given(r) = <<>>
  BY <1>2 DEF Given
<1> QED
  BY <1>1, <1>2, <1>3 DEF Init, Conversation!Init

\* Every step is one of ConversationLog, or leaves its variables as they are.
LEMMA ConversationStep == IInv /\ [Next]_vars => [Conversation!Next]_(Conversation!vars)
<1> SUFFICES ASSUME IInv, [Next]_vars PROVE Conversation!Next \/ UNCHANGED Conversation!vars
  OBVIOUS
<1> DEFINE Goal == Conversation!Next \/ UNCHANGED Conversation!vars
<1>a. /\ run \in [Requests -> RunStates] /\ reply \in [Requests -> ReplyStates]
      /\ queue \in Seq(Requests)
      /\ \A i \in 1..Len(queue) : run[queue[i]] = "queued"
      /\ ReplyInv
  BY DEF IInv, TypeOK, QueueInv, RunStates, ReplyStates
<1>b. \A r \in Requests : r \in Answering <=>
         \/ run[r] \in {"queued", "running", "hung"}
         \/ run[r] \in {"returned", "raised"} /\ reply[r] = "waiting"
  BY DEF Answering
<1>c. \A r \in Requests : r \in Answering' <=>
         \/ run'[r] \in {"queued", "running", "hung"}
         \/ run'[r] \in {"returned", "raised"} /\ reply'[r] = "waiting"
  BY DEF Answering
<1>d. Answering \subseteq Requests /\ Answering' \subseteq Requests
  BY DEF Answering
<1> USE DEF RunStates, ReplyStates, record
<1>1. ASSUME NEW r \in Requests, Arrive(r) PROVE Goal
  BY <1>1, Asking
<1>2. ASSUME NEW r \in Requests, StartRun(r) PROVE Goal
  <2>1. run[r] = "queued"
    BY <1>2, <1>a DEF StartRun
  <2>2. \A q \in Requests : q \in Answering' <=> q \in Answering
    BY <1>2, <1>a, <1>b, <1>c, <2>1 DEF StartRun
  <2>3. Answering' = Answering
    BY <1>d, <2>2
  <2>4. UNCHANGED <<request, lists, log, history>>
    BY <1>2 DEF StartRun
  <2> QED
    BY <2>3, <2>4, SameLists
<1>3. ASSUME NEW r \in Requests, RunEnds(r) PROVE Goal
  <2>1. UNCHANGED <<request, lists, log, history>>
    BY <1>3 DEF RunEnds
  <2>2. CASE reply[r] = "waiting"
    <3>1. \A q \in Requests : q \in Answering' <=> q \in Answering
      BY <1>3, <1>a, <1>b, <1>c, <2>2 DEF RunEnds
    <3>2. Answering' = Answering
      BY <1>d, <3>1
    <3> QED
      BY <2>1, <3>2, SameLists
  <2>3. CASE reply[r] # "waiting"
    <3>1. \A q \in Requests : q \in Answering' <=> q \in Answering /\ q # r
      BY <1>3, <1>a, <1>b, <1>c, <2>3 DEF RunEnds
    <3>2. r \in Answering
      BY <1>3, <1>b DEF RunEnds
    <3>3. Answering' = Answering \ {r}
      BY <1>d, <3>1
    <3> QED
      BY <2>1, <3>2, <3>3, Dropping
  <2> QED
    BY <2>2, <2>3
<1>4. ASSUME NEW r \in Requests, RunHangs(r) PROVE Goal
  <2>1. \A q \in Requests : q \in Answering' <=> q \in Answering
    BY <1>4, <1>a, <1>b, <1>c DEF RunHangs
  <2>2. Answering' = Answering
    BY <1>d, <2>1
  <2>3. UNCHANGED <<request, lists, log, history>>
    BY <1>4 DEF RunHangs
  <2> QED
    BY <2>2, <2>3, SameLists
<1>5. ASSUME NEW r \in Requests, ResumeReturned(r) PROVE Goal
  BY <1>5, Recording
<1>6. ASSUME NEW r \in Requests, ResumeRaised(r) PROVE Goal
  <2>1. UNCHANGED <<request, lists, log, history>>
    BY <1>6 DEF ResumeRaised
  <2>2. \A q \in Requests : q \in Answering' <=> q \in Answering /\ q # r
    BY <1>6, <1>a, <1>b, <1>c DEF ResumeRaised
  <2>3. r \in Answering
    BY <1>6, <1>b DEF ResumeRaised
  <2>4. Answering' = Answering \ {r}
    BY <1>d, <2>2
  <2> QED
    BY <2>1, <2>3, <2>4, Dropping
<1>7. ASSUME NEW r \in Requests, FinishStream(r) PROVE Goal
  <2>1. \A q \in Requests : q \in Answering' <=> q \in Answering
    BY <1>7, <1>a, <1>b, <1>c DEF FinishStream
  <2>2. Answering' = Answering
    BY <1>d, <2>1
  <2>3. UNCHANGED <<request, lists, log, history>>
    BY <1>7 DEF FinishStream
  <2> QED
    BY <2>2, <2>3, SameLists
<1>8. ASSUME NEW r \in Requests, Disconnect(r) PROVE Goal
  <2>1. UNCHANGED <<request, lists, log, history>>
    BY <1>8 DEF Disconnect
  <2>2. CASE reply[r] = "waiting" /\ run[r] \in {"queued", "returned", "raised"}
    <3>1. \A q \in Requests : q \in Answering' <=> q \in Answering /\ q # r
      BY <1>8, <1>a, <1>b, <1>c, <2>2 DEF Disconnect
    <3>2. r \in Answering
      BY <1>b, <2>2
    <3>3. Answering' = Answering \ {r}
      BY <1>d, <3>1
    <3> QED
      BY <2>1, <3>2, <3>3, Dropping
  <2>3. CASE ~(reply[r] = "waiting" /\ run[r] \in {"queued", "returned", "raised"})
    <3>1. run[r] # "queued"
      BY <1>8, <1>a, <2>3 DEF ReplyInv
    <3>2. \A q \in Requests : q \in Answering' <=> q \in Answering
      BY <1>8, <1>a, <1>b, <1>c, <2>3, <3>1 DEF Disconnect
    <3>3. Answering' = Answering
      BY <1>d, <3>2
    <3> QED
      BY <2>1, <3>3, SameLists
  <2> QED
    BY <2>2, <2>3
<1>9. CASE UNCHANGED vars
  <2>1. UNCHANGED <<request, lists, log, history>> /\ Answering' = Answering
    BY <1>9 DEF vars, Answering
  <2> QED
    BY <2>1, SameLists
<1> QED
  BY <1>1, <1>2, <1>3, <1>4, <1>5, <1>6, <1>7, <1>8, <1>9 DEF Next, Progress

\* A question is given the last turns of its session, and sees no turn vanish
\* or be skipped while it is being answered: the service implements
\* ConversationLog (query.py, _build_initial_state and _update_conversation).
THEOREM Refinement == Spec => ImplementsConversationLog
<1> QED
  BY Invariance, ConversationInit, ConversationStep, PTL
  DEF Spec, Conversation!Spec, ImplementsConversationLog

=============================================================================
