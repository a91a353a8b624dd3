--------------------------- MODULE ServicesProofs ---------------------------
(***************************************************************************)
(* Proofs about Services for any number of runs, texts and connections and *)
(* any durations that satisfy its assumptions.  IInv adds to the           *)
(* properties what makes them inductive: for each stage of a call that was *)
(* not slow, how much of the patience it can have used up; that what is    *)
(* executing has not taken longer than it may; and which of the results of *)
(* a batch are still to be filled in.                                      *)
(***************************************************************************)
EXTENDS Services, FiniteSetTheorems, SequenceTheorems, WellFoundedInduction, TLAPS

\* An attempt that is not slow and the pause after it, and the first n of them.
Round == 2 * Slow + Longest
Rounds(n) == n * Round

CallInv ==
    \A r \in Runs :
        /\ stage[r] \in {"queued", "sent", "pausing"} => attempt[r] \in 1..Attempts
        /\ stage[r] = "pausing" => attempt[r] < Attempts
        /\ worked[r] \in 0..1
        /\ stage[r] \notin {"replied", "raised"} => worked[r] = 0

PatienceInv ==
    \A r \in Runs :
        /\ awaited[r] = "nobody" => slow[r]
        /\ awaited[r] = "run" => waited[r] = 0 /\ ~slow[r]
        /\ awaited[r] # "run" =>
               stage[r] \in {"submitted", "queued", "sent", "trickling", "pausing", "replied", "raised"}
        /\ stage[r] = "submitted" => awaited[r] # "run"
        /\ stage[r] = "trickling" /\ awaited[r] # "run" => slow[r]

\* What a call that is not slow can have used up of its patience.
Used(r) ==
    /\ stage[r] = "submitted" => waited[r] <= Slow
    /\ stage[r] = "queued" =>
        timer[r] <= Slow /\ waited[r] <= Rounds(attempt[r] - 1) + Slow + timer[r]
    /\ stage[r] = "sent" =>
        timer[r] <= Slow /\ waited[r] <= Rounds(attempt[r] - 1) + 2 * Slow + timer[r]
    /\ stage[r] = "pausing" =>
        timer[r] <= Longest /\ waited[r] <= Rounds(attempt[r] - 1) + 3 * Slow + timer[r]

UsedInv == \A r \in Runs : awaited[r] = "future" /\ ~slow[r] => Used(r)

RecentInv ==
    /\ entry.left + entry.age <= TimeToLive + ExecTime
    /\ \A r \in Runs : stage[r] = "executing" => timer[r] <= ExecTime

EmbedInv ==
    /\ \A t \in Texts : embed_cache[t] \in {Missing, Vector(t)}
    /\ \A r \in Runs : stage[r] \in {"embedding", "embedded"} =>
        /\ DOMAIN results[r] = DOMAIN texts[r]
        /\ \A i \in DOMAIN texts[r] : results[r][i] \in {Missing, Vector(texts[r][i])}
    /\ VectorsAreOfTheirTexts

IInv == TypeOK /\ CallInv /\ PatienceInv /\ UsedInv /\ RecentInv /\ EmbedInv

-----------------------------------------------------------------------------
LEMMA AttemptsType == Attempts \in Nat \ {0} /\ DOMAIN Pauses = 1..(Attempts - 1)
BY ClientAssumption DEF Attempts

LEMMA FunctionsAreSequences ==
    ASSUME NEW S, NEW n \in Nat, NEW f \in [1..n -> S]
    PROVE  f \in Seq(S)
BY SeqDef

LEMMA ElementsOf == ASSUME NEW S, NEW s \in Seq(S) PROVE \A i \in DOMAIN s : s[i] \in S
OBVIOUS

LEMMA Monotone ==
    ASSUME NEW m \in Nat, NEW n \in Nat, NEW k \in Nat, m <= n
    PROVE  m * k <= n * k
<1>1. n - m \in Nat
  OBVIOUS
<1>2. (n - m) * k \in Nat
  BY <1>1
<1>3. n * k = m * k + (n - m) * k
  OBVIOUS
<1>4. m * k \in Nat /\ n * k \in Nat
  OBVIOUS
<1> QED
  BY <1>2, <1>3, <1>4

LEMMA RoundsGrow ==
    ASSUME NEW n \in Nat \ {0}
    PROVE  /\ Rounds(n) \in Nat /\ Rounds(n - 1) \in Nat
           /\ Rounds(n) = Rounds(n - 1) + Round
           /\ \A m \in Nat : m <= n => Rounds(m) <= Rounds(n)
           /\ \A m \in Nat : m <= n - 1 => Rounds(m) <= Rounds(n - 1)
<1>1. Round \in Nat
  BY PatienceAssumption DEF Round
<1>2. Rounds(n) \in Nat /\ Rounds(n - 1) \in Nat
  BY <1>1 DEF Rounds
<1>3. n * Round = (n - 1) * Round + Round
  BY <1>1
<1>4. \A m \in Nat : m <= n => Rounds(m) <= Rounds(n)
  BY <1>1, Monotone DEF Rounds
<1>5. \A m \in Nat : m <= n - 1 => Rounds(m) <= Rounds(n - 1)
  BY <1>1, Monotone DEF Rounds
<1> QED
  BY <1>2, <1>3, <1>4, <1>5 DEF Rounds

\* What is filed has a vector, or nothing, at each position.
LEMMA FiledIsList ==
    ASSUME NEW r \in Runs, texts[r] \in Seq(Texts),
           results[r] \in Seq(Vectors \union {Missing}), DOMAIN results[r] = DOMAIN texts[r]
    PROVE  Filed(r) \in Seq(Vectors \union {Missing})
<1> DEFINE V == Vectors \union {Missing}
           n == Len(texts[r])
<1>1. n \in Nat /\ DOMAIN texts[r] = 1..n
  OBVIOUS
<1>2. ASSUME NEW i \in 1..n PROVE Filed(r)[i] \in V
  <2>1. texts[r][i] \in Texts
    BY <1>1, <1>2, ElementsOf
  <2>2. results[r][i] \in V
    <3>1. results[r] \in Seq(V) /\ i \in DOMAIN results[r]
      BY <1>1, <1>2
    <3> HIDE DEF V
    <3> QED
      BY <3>1, ElementsOf
  <2>3. Vector(texts[r][i]) \in V
    BY <2>1 DEF Vectors
  <2> HIDE DEF V
  <2> QED
    BY <1>1, <1>2, <2>2, <2>3 DEF Filed
<1>3. Filed(r) = [i \in 1..n |-> Filed(r)[i]]
  BY <1>1 DEF Filed
<1>4. Filed(r) \in [1..n -> V]
  <2> HIDE DEF V, n
  <2> QED
    BY <1>2, <1>3
<1> QED
  BY <1>1, <1>4, FunctionsAreSequences

\* Every step keeps the types.
LEMMA TypeStep == IInv /\ [Next]_vars => TypeOK'
<1> SUFFICES ASSUME IInv, [Next]_vars PROVE TypeOK'
  OBVIOUS
<1> DEFINE Goal == TypeOK'
<1> USE TextsAssumption, TimesAssumption, AttemptsType, PatienceAssumption
<1> USE DEF IInv, TypeOK, Stages, ClientTypes, client, deadline, CallInv
<1>1. ASSUME Tick PROVE Goal
  <2>1. stage' \in [Runs -> Stages] /\ timer' \in [Runs -> Nat]
    BY <1>1 DEF Tick, Unlimited
  <2>2. EmbedderTypes'
    BY <1>1 DEF Tick, EmbedderTypes, embedding
  <2>3. entry' \in Entries
    BY <1>1 DEF Tick, EntryAges, Entries, NoEntry
  <2>4. ClientTypes'
    BY <1>1 DEF Tick, Unlimited
  <2>5. awaited' \in [Runs -> {"run", "future", "nobody"}]
    BY <1>1 DEF Tick, Unlimited
  <2>6. waited' \in [Runs -> 0..Patience]
    BY <1>1 DEF Tick, Unlimited
  <2>7. slow' \in [Runs -> BOOLEAN]
    BY <1>1 DEF Tick, Unlimited
  <2> QED
    BY <2>1, <2>2, <2>3, <2>4, <2>5, <2>6, <2>7
<1>2. ASSUME NEW r \in Runs, Ask(r) PROVE Goal
  <2> PICK batch \in Seq(Texts) : EmbedBatch(r, batch)
    <3>1. \A t \in Texts : <<t>> \in Seq(Texts)
      OBVIOUS
    <3>2. CASE \E t \in Texts : Embed(r, t)
      BY <3>1, <3>2 DEF Embed
    <3>3. CASE \E b \in Batches : EmbedBatch(r, b)
      BY <3>3
    <3> QED
      BY <1>2, <3>2, <3>3 DEF Ask
  <2>1. stage' \in [Runs -> Stages] /\ timer' \in [Runs -> Nat]
    BY DEF EmbedBatch, Enter
  <2>2. EmbedderTypes'
    <3>1. [i \in DOMAIN batch |-> embed_cache[batch[i]]] \in Seq(Vectors \union {Missing})
      <4>1. Len(batch) \in Nat /\ DOMAIN batch = 1..Len(batch)
        OBVIOUS
      <4>2. \A i \in DOMAIN batch : embed_cache[batch[i]] \in Vectors \union {Missing}
        BY DEF EmbedderTypes
      <4>3. [i \in DOMAIN batch |-> embed_cache[batch[i]]]
              \in [1..Len(batch) -> Vectors \union {Missing}]
        BY <4>1, <4>2
      <4> QED
        BY <4>1, <4>3, FunctionsAreSequences
    <3> QED
      BY <3>1 DEF EmbedBatch, EmbedderTypes
  <2>3. entry' \in Entries
    BY <1>2 DEF Ask, EmbedBatch, Entries, NoEntry
  <2>4. ClientTypes'
    BY <1>2 DEF Ask, EmbedBatch, Enter
  <2>5. awaited' \in [Runs -> {"run", "future", "nobody"}] /\ waited' \in [Runs -> 0..Patience]
    BY <1>2 DEF Ask, EmbedBatch
  <2>6. slow' \in [Runs -> BOOLEAN]
    BY <1>2 DEF Ask, EmbedBatch
  <2> QED
    BY <2>1, <2>2, <2>3, <2>4, <2>5, <2>6
<1>3. ASSUME NEW r \in Runs, StoreVectors(r), UNCHANGED <<entry, client, deadline>> PROVE Goal
  <2>1. stage' \in [Runs -> Stages] /\ timer' \in [Runs -> Nat]
    BY <1>3 DEF StoreVectors, Enter
  <2>2. EmbedderTypes'
    <3>1. texts[r] \in Seq(Texts) /\ results[r] \in Seq(Vectors \union {Missing})
      BY DEF EmbedderTypes
    <3>2. Filed(r) \in Seq(Vectors \union {Missing})
      <4>1. DOMAIN results[r] = DOMAIN texts[r]
        BY <1>3 DEF StoreVectors, EmbedInv
      <4> QED
        BY <3>1, <4>1, FiledIsList
    <3>3. embed_cache' \in [Texts -> Vectors \union {Missing}]
      BY <1>3 DEF StoreVectors, EmbedderTypes, Vectors
    <3> QED
      BY <1>3, <3>2, <3>3 DEF StoreVectors, EmbedderTypes
  <2>3. entry' \in Entries
    BY <1>3 DEF StoreVectors, Entries, NoEntry
  <2>4. ClientTypes'
    BY <1>3 DEF StoreVectors, Enter
  <2>5. awaited' \in [Runs -> {"run", "future", "nobody"}] /\ waited' \in [Runs -> 0..Patience]
    BY <1>3 DEF StoreVectors
  <2>6. slow' \in [Runs -> BOOLEAN]
    BY <1>3 DEF StoreVectors
  <2> QED
    BY <2>1, <2>2, <2>3, <2>4, <2>5, <2>6
<1>4. ASSUME NEW r \in Runs, Think(r) PROVE Goal
  <2>1. EmbedderTypes'
    BY <1>4 DEF Think, TakeVectors, Post, EmbedderTypes, embedding
  <2> QED
    BY <1>4, <2>1 DEF Think, TakeVectors, Post, Entries, NoEntry, Enter
<1>5. ASSUME NEW r \in Runs, Thought(r) PROVE Goal
  <2>1. EmbedderTypes'
    BY <1>5 DEF Thought, TakeReply, EmbedderTypes, embedding
  <2> QED
    BY <1>5, <2>1 DEF Thought, TakeReply, Entries, NoEntry, Enter
<1>6. ASSUME NEW r \in Runs, CacheHit(r), UNCHANGED <<embedding, client, deadline>> PROVE Goal
  <2>1. EmbedderTypes'
    BY <1>6 DEF CacheHit, EmbedderTypes, embedding
  <2> QED
    BY <1>6, <2>1 DEF CacheHit, Entries, NoEntry, Enter
<1>7. ASSUME NEW r \in Runs, CacheMiss(r), UNCHANGED <<embedding, client, deadline>> PROVE Goal
  <2>1. EmbedderTypes'
    BY <1>7 DEF CacheMiss, EmbedderTypes, embedding
  <2> QED
    BY <1>7, <2>1 DEF CacheMiss, Entries, NoEntry, Enter
<1>8. ASSUME NEW r \in Runs, Executed(r), UNCHANGED <<embedding, client, deadline>> PROVE Goal
  <2>1. EmbedderTypes'
    BY <1>8 DEF Executed, EmbedderTypes, embedding
  <2> QED
    BY <1>8, <2>1 DEF Executed, Entries, NoEntry, Enter
<1>9. ASSUME NEW r \in Runs, ExecutionFails(r), UNCHANGED <<embedding, client, deadline>> PROVE Goal
  <2>1. EmbedderTypes'
    BY <1>9 DEF ExecutionFails, EmbedderTypes, embedding
  <2> QED
    BY <1>9, <2>1 DEF ExecutionFails, Entries, NoEntry, Enter
<1>10. ASSUME NEW r \in Runs, Conclude(r) PROVE Goal
  <2>1. EmbedderTypes'
    BY <1>10 DEF Conclude, EmbedderTypes, embedding
  <2> QED
    BY <1>10, <2>1 DEF Conclude, Entries, NoEntry, Enter
<1>23. ASSUME NEW r \in Runs, Start(r) PROVE Goal
  <2>1. EmbedderTypes'
    BY <1>23 DEF Start, Post, EmbedderTypes, embedding
  <2> QED
    BY <1>23, <2>1 DEF Start, Post, Entries, NoEntry, Enter
<1>11. ASSUME NEW r \in Runs, GiveUp(r) PROVE Goal
  <2>1. EmbedderTypes'
    BY <1>11 DEF GiveUp, EmbedderTypes, embedding
  <2> QED
    BY <1>11, <2>1 DEF GiveUp, Entries, NoEntry, Enter
<1>12. ASSUME NEW r \in Runs, CallEnds(r) PROVE Goal
  <2>1. EmbedderTypes'
    BY <1>12 DEF CallEnds, TakeReply, Over, EmbedderTypes, embedding
  <2> QED
    BY <1>12, <2>1 DEF CallEnds, TakeReply, Over, Entries, NoEntry, Enter
<1>13. ASSUME NEW r \in Runs, CodeFails(r) PROVE Goal
  <2>1. EmbedderTypes'
    BY <1>13 DEF CodeFails, Over, EmbedderTypes, embedding
  <2> QED
    BY <1>13, <2>1 DEF CodeFails, Over, Entries, NoEntry, Enter
<1>14. ASSUME NEW r \in Runs, Connect(r), UNCHANGED <<embedding, entry, deadline>> PROVE Goal
  <2>1. EmbedderTypes'
    BY <1>14 DEF Connect, EmbedderTypes, embedding
  <2> QED
    BY <1>14, <2>1 DEF Connect, Entries, NoEntry, Enter
<1>15. ASSUME NEW r \in Runs, PoolTimesOut(r), UNCHANGED <<embedding, entry, deadline>> PROVE Goal
  <2>1. EmbedderTypes'
    BY <1>15 DEF PoolTimesOut, Leave, EmbedderTypes, embedding
  <2> QED
    BY <1>15, <2>1 DEF PoolTimesOut, Leave, Entries, NoEntry, Enter
<1>16. ASSUME NEW r \in Runs, Retry(r), UNCHANGED <<embedding, entry, deadline>> PROVE Goal
  <2>1. EmbedderTypes'
    BY <1>16 DEF Retry, EmbedderTypes, embedding
  <2> QED
    BY <1>16, <2>1 DEF Retry, Entries, NoEntry, Enter
<1>17. ASSUME NEW r \in Runs, ReadTimesOut(r), UNCHANGED <<embedding, entry, deadline>> PROVE Goal
  <2>1. stage' \in [Runs -> Stages] /\ timer' \in [Runs -> Nat]
    BY <1>17 DEF ReadTimesOut, Leave, Enter
  <2>2. EmbedderTypes'
    BY <1>17 DEF ReadTimesOut, Leave, EmbedderTypes, embedding
  <2>3. entry' \in Entries
    BY <1>17 DEF ReadTimesOut, Leave, Entries, NoEntry
  <2>4. ClientTypes'
    <3>1. worked[r] = 0
      BY <1>17 DEF ReadTimesOut, Leave
    <3>2. attempt' \in [Runs -> 0..Attempts]
      BY <1>17 DEF ReadTimesOut, Leave
    <3>3. CASE UNCHANGED worked
      BY <3>2, <3>3
    <3>4. CASE worked' = [worked EXCEPT ![r] = worked[r] + 1]
      BY <3>1, <3>2, <3>4
    <3> QED
      BY <1>17, <3>3, <3>4 DEF ReadTimesOut, Leave
  <2>5. awaited' \in [Runs -> {"run", "future", "nobody"}] /\ waited' \in [Runs -> 0..Patience]
    BY <1>17 DEF ReadTimesOut, Leave
  <2>6. slow' \in [Runs -> BOOLEAN]
    BY <1>17 DEF ReadTimesOut, Leave
  <2> QED
    BY <2>1, <2>2, <2>3, <2>4, <2>5, <2>6
<1>18. ASSUME NEW r \in Runs, Answers(r), UNCHANGED <<embedding, entry, deadline>> PROVE Goal
  <2>1. stage' \in [Runs -> Stages] /\ timer' \in [Runs -> Nat]
    BY <1>18 DEF Answers, InUse, Leave, Enter
  <2>2. EmbedderTypes'
    BY <1>18 DEF Answers, InUse, Leave, EmbedderTypes, embedding
  <2>3. entry' \in Entries
    BY <1>18 DEF Answers, InUse, Leave, Entries, NoEntry
  <2>4. ClientTypes'
    <3>1. worked[r] = 0
      BY <1>18 DEF Answers, InUse, Leave
    <3>2. attempt' \in [Runs -> 0..Attempts]
      BY <1>18 DEF Answers, InUse, Leave
    <3>3. worked' \in [Runs -> 0..Attempts]
      BY <1>18, <3>1 DEF Answers, InUse, Leave
    <3> QED
      BY <3>2, <3>3
  <2>5. awaited' \in [Runs -> {"run", "future", "nobody"}] /\ waited' \in [Runs -> 0..Patience]
    BY <1>18 DEF Answers, InUse, Leave
  <2>6. slow' \in [Runs -> BOOLEAN]
    BY <1>18 DEF Answers, InUse, Leave
  <2> QED
    BY <2>1, <2>2, <2>3, <2>4, <2>5, <2>6
<1>19. ASSUME NEW r \in Runs, RateLimited(r), UNCHANGED <<embedding, entry, deadline>> PROVE Goal
  <2>1. EmbedderTypes'
    BY <1>19 DEF RateLimited, EmbedderTypes, embedding
  <2> QED
    BY <1>19, <2>1 DEF RateLimited, Entries, NoEntry, Enter
<1>20. ASSUME NEW r \in Runs, Refused(r), UNCHANGED <<embedding, entry, deadline>> PROVE Goal
  <2>1. EmbedderTypes'
    BY <1>20 DEF Refused, Leave, EmbedderTypes, embedding
  <2> QED
    BY <1>20, <2>1 DEF Refused, Leave, Entries, NoEntry, Enter
<1>21. ASSUME NEW r \in Runs, Breaks(r), UNCHANGED <<embedding, entry, deadline>> PROVE Goal
  <2>1. stage' \in [Runs -> Stages] /\ timer' \in [Runs -> Nat]
    BY <1>21 DEF Breaks, InUse, Leave, Enter
  <2>2. EmbedderTypes'
    BY <1>21 DEF Breaks, InUse, Leave, EmbedderTypes, embedding
  <2>3. entry' \in Entries
    BY <1>21 DEF Breaks, InUse, Leave, Entries, NoEntry
  <2>4. ClientTypes'
    <3>1. worked[r] = 0
      BY <1>21 DEF Breaks, InUse, Leave
    <3>2. attempt' \in [Runs -> 0..Attempts]
      BY <1>21 DEF Breaks, InUse, Leave
    <3>3. CASE UNCHANGED worked
      BY <3>2, <3>3
    <3>4. CASE worked' = [worked EXCEPT ![r] = worked[r] + 1]
      BY <3>1, <3>2, <3>4
    <3> QED
      BY <1>21, <3>3, <3>4 DEF Breaks, InUse, Leave
  <2>5. awaited' \in [Runs -> {"run", "future", "nobody"}] /\ waited' \in [Runs -> 0..Patience]
    BY <1>21 DEF Breaks, InUse, Leave
  <2>6. slow' \in [Runs -> BOOLEAN]
    BY <1>21 DEF Breaks, InUse, Leave
  <2> QED
    BY <2>1, <2>2, <2>3, <2>4, <2>5, <2>6
<1>24. ASSUME NEW r \in Runs, Trickles(r), UNCHANGED <<embedding, entry, deadline>> PROVE Goal
  <2>1. EmbedderTypes'
    BY <1>24 DEF Trickles, EmbedderTypes, embedding
  <2> QED
    BY <1>24, <2>1 DEF Trickles, Entries, NoEntry, Enter
<1>25. ASSUME NEW r \in Runs, Hangs(r), UNCHANGED <<embedding, client, deadline>> PROVE Goal
  <2>1. EmbedderTypes'
    BY <1>25 DEF Hangs, EmbedderTypes, embedding
  <2> QED
    BY <1>25, <2>1 DEF Hangs, Entries, NoEntry, Enter
<1>22. CASE UNCHANGED vars
  BY <1>22 DEF vars, EmbedderTypes, embedding
<1> QED
  BY <1>1, <1>2, <1>3, <1>4, <1>5, <1>6, <1>7, <1>8, <1>9, <1>10, <1>11,
     <1>12, <1>13, <1>14, <1>15, <1>16, <1>17, <1>18, <1>19, <1>20, <1>21, <1>22, <1>23,
     <1>24, <1>25
     DEF Next, RunStep, ServerStep, ClientStep, Reply

\* A call of the model costs one answer at most, and counts its attempts.
LEMMA CallStep == IInv /\ [Next]_vars => CallInv'
<1> SUFFICES ASSUME IInv, [Next]_vars PROVE CallInv'
  OBVIOUS
<1> DEFINE Goal == CallInv'
<1> USE AttemptsType
<1> USE DEF IInv, TypeOK, Stages, ClientTypes, client, deadline, CallInv
<1>1. ASSUME Tick PROVE Goal
  BY <1>1 DEF Tick, Unlimited
<1>2. ASSUME NEW r \in Runs, Ask(r) PROVE Goal
  BY <1>2 DEF Ask, Embed, EmbedBatch, Enter
<1>3. ASSUME NEW r \in Runs, StoreVectors(r), UNCHANGED <<entry, client, deadline>> PROVE Goal
  BY <1>3 DEF StoreVectors, Enter
<1>4. ASSUME NEW r \in Runs, Think(r) PROVE Goal
  BY <1>4 DEF Think, TakeVectors, Post, Enter
<1>5. ASSUME NEW r \in Runs, Thought(r) PROVE Goal
  BY <1>5 DEF Thought, TakeReply, Enter
<1>6. ASSUME NEW r \in Runs, CacheHit(r), UNCHANGED <<embedding, client, deadline>> PROVE Goal
  BY <1>6 DEF CacheHit, Enter
<1>7. ASSUME NEW r \in Runs, CacheMiss(r), UNCHANGED <<embedding, client, deadline>> PROVE Goal
  BY <1>7 DEF CacheMiss, Enter
<1>8. ASSUME NEW r \in Runs, Executed(r), UNCHANGED <<embedding, client, deadline>> PROVE Goal
  BY <1>8 DEF Executed, Enter
<1>9. ASSUME NEW r \in Runs, ExecutionFails(r), UNCHANGED <<embedding, client, deadline>> PROVE Goal
  BY <1>9 DEF ExecutionFails, Enter
<1>10. ASSUME NEW r \in Runs, Conclude(r) PROVE Goal
  BY <1>10 DEF Conclude, Enter
<1>23. ASSUME NEW r \in Runs, Start(r) PROVE Goal
  BY <1>23 DEF Start, Post, Enter, Submitted
<1>11. ASSUME NEW r \in Runs, GiveUp(r) PROVE Goal
  BY <1>11 DEF GiveUp
<1>12. ASSUME NEW r \in Runs, CallEnds(r) PROVE Goal
  BY <1>12 DEF CallEnds, TakeReply, Over, Enter
<1>13. ASSUME NEW r \in Runs, CodeFails(r) PROVE Goal
  BY <1>13 DEF CodeFails, Over, Enter
<1>14. ASSUME NEW r \in Runs, Connect(r), UNCHANGED <<embedding, entry, deadline>> PROVE Goal
  BY <1>14 DEF Connect, Enter
<1>15. ASSUME NEW r \in Runs, PoolTimesOut(r), UNCHANGED <<embedding, entry, deadline>> PROVE Goal
  BY <1>15 DEF PoolTimesOut, Leave, Enter
<1>16. ASSUME NEW r \in Runs, Retry(r), UNCHANGED <<embedding, entry, deadline>> PROVE Goal
  BY <1>16 DEF Retry, Enter
<1>17. ASSUME NEW r \in Runs, ReadTimesOut(r), UNCHANGED <<embedding, entry, deadline>> PROVE Goal
  BY <1>17 DEF ReadTimesOut, Leave, Enter
<1>18. ASSUME NEW r \in Runs, Answers(r), UNCHANGED <<embedding, entry, deadline>> PROVE Goal
  BY <1>18 DEF Answers, InUse, Leave, Enter
<1>19. ASSUME NEW r \in Runs, RateLimited(r), UNCHANGED <<embedding, entry, deadline>> PROVE Goal
  BY <1>19 DEF RateLimited, Enter
<1>20. ASSUME NEW r \in Runs, Refused(r), UNCHANGED <<embedding, entry, deadline>> PROVE Goal
  BY <1>20 DEF Refused, Leave, Enter
<1>21. ASSUME NEW r \in Runs, Breaks(r), UNCHANGED <<embedding, entry, deadline>> PROVE Goal
  BY <1>21 DEF Breaks, InUse, Leave, Enter
<1>24. ASSUME NEW r \in Runs, Trickles(r), UNCHANGED <<embedding, entry, deadline>> PROVE Goal
  BY <1>24 DEF Trickles, Enter
<1>25. ASSUME NEW r \in Runs, Hangs(r), UNCHANGED <<embedding, client, deadline>> PROVE Goal
  BY <1>25 DEF Hangs, Enter
<1>22. CASE UNCHANGED vars
  BY <1>22 DEF vars
<1> QED
  BY <1>1, <1>2, <1>3, <1>4, <1>5, <1>6, <1>7, <1>8, <1>9, <1>10, <1>11,
     <1>12, <1>13, <1>14, <1>15, <1>16, <1>17, <1>18, <1>19, <1>20, <1>21, <1>22, <1>23,
     <1>24, <1>25
     DEF Next, RunStep, ServerStep, ClientStep, Reply

\* Nobody has used up the patience with a call that was not slow.
LEMMA UsedUp ==
    ASSUME IInv, NEW r \in Runs, awaited[r] = "future", ~slow[r],
           stage[r] \in {"submitted", "queued", "sent", "pausing"}
    PROVE  waited[r] < Patience
<1> USE PatienceAssumption, AttemptsType DEF IInv, TypeOK, ClientTypes, CallInv
<1>1. Used(r)
  BY DEF UsedInv
<1>2. stage[r] # "submitted" => attempt[r] \in 1..Attempts
  OBVIOUS
<1>3. Round = 2 * Slow + Longest /\ Rounds(Attempts - 1) + 3 * Slow < Patience
  BY DEF Rounds, Round
<1>4. /\ stage[r] # "submitted" =>
            Rounds(attempt[r] - 1) \in Nat /\ Rounds(attempt[r]) = Rounds(attempt[r] - 1) + Round
      /\ Rounds(Attempts - 1) \in Nat
  BY <1>2, RoundsGrow
<1>5. CASE stage[r] \in {"queued", "sent"}
  <2>1. Rounds(attempt[r] - 1) <= Rounds(Attempts - 1)
    BY <1>2, <1>5, RoundsGrow
  <2> QED
    BY <1>1, <1>3, <1>4, <1>5, <2>1 DEF Used
<1>6. CASE stage[r] = "pausing"
  <2>1. Rounds(attempt[r]) <= Rounds(Attempts - 1)
    BY <1>2, <1>6, RoundsGrow
  <2> QED
    BY <1>1, <1>3, <1>4, <1>6, <2>1 DEF Used
<1>7. CASE stage[r] = "submitted"
  BY <1>1, <1>3, <1>4, <1>7 DEF Used
<1> QED
  BY <1>5, <1>6, <1>7

\* A reply that comes in pieces has kept its run waiting.
LEMMA PiecesAreLate ==
    ASSUME IInv, NEW r \in Runs, awaited[r] # "run", stage[r] = "sent", timer[r] = Timeout
    PROVE  slow[r]
<1>1. CASE awaited[r] = "nobody"
  BY <1>1 DEF IInv, PatienceInv
<1>2. CASE awaited[r] = "future"
  <2> SUFFICES ASSUME ~slow[r] PROVE FALSE
    BY DEF IInv, TypeOK
  <2>1. timer[r] <= Slow
    BY <1>2 DEF IInv, UsedInv, Used
  <2> QED
    BY <2>1, PatienceAssumption, ClientAssumption
<1> QED
  BY <1>1, <1>2 DEF IInv, TypeOK

\* Whoever has given up was kept waiting.
LEMMA PatienceStep == IInv /\ [Next]_vars => PatienceInv'
<1> SUFFICES ASSUME IInv, [Next]_vars PROVE PatienceInv'
  OBVIOUS
<1> DEFINE Goal == PatienceInv'
<1> USE PatienceAssumption, AttemptsType
<1> USE DEF IInv, TypeOK, Stages, ClientTypes, client, deadline, CallInv, PatienceInv
<1>1. ASSUME Tick PROVE Goal
  <2>1. /\ stage' = stage /\ awaited' = awaited
        /\ \A r \in Runs : awaited[r] = "run" => waited'[r] = waited[r]
    BY <1>1 DEF Tick, Unlimited
  <2>2. \A r \in Runs : slow'[r] = (slow[r] \/ Waits(r))
    BY <1>1 DEF Tick, Unlimited
  <2>3. \A r \in Runs : Waits(r) => awaited[r] = "future"
    BY DEF Waits
  <2> QED
    BY <2>1, <2>2, <2>3
<1>2. ASSUME NEW r \in Runs, Ask(r) PROVE Goal
  BY <1>2 DEF Ask, Embed, EmbedBatch, Enter
<1>3. ASSUME NEW r \in Runs, StoreVectors(r), UNCHANGED <<entry, client, deadline>> PROVE Goal
  BY <1>3 DEF StoreVectors, Enter
<1>4. ASSUME NEW r \in Runs, Think(r) PROVE Goal
  BY <1>4 DEF Think, TakeVectors, Post, Enter
<1>5. ASSUME NEW r \in Runs, Thought(r) PROVE Goal
  BY <1>5 DEF Thought, TakeReply, Enter
<1>6. ASSUME NEW r \in Runs, CacheHit(r), UNCHANGED <<embedding, client, deadline>> PROVE Goal
  BY <1>6 DEF CacheHit, Enter
<1>7. ASSUME NEW r \in Runs, CacheMiss(r), UNCHANGED <<embedding, client, deadline>> PROVE Goal
  BY <1>7 DEF CacheMiss, Enter
<1>8. ASSUME NEW r \in Runs, Executed(r), UNCHANGED <<embedding, client, deadline>> PROVE Goal
  BY <1>8 DEF Executed, Enter
<1>9. ASSUME NEW r \in Runs, ExecutionFails(r), UNCHANGED <<embedding, client, deadline>> PROVE Goal
  BY <1>9 DEF ExecutionFails, Enter
<1>10. ASSUME NEW r \in Runs, Conclude(r) PROVE Goal
  BY <1>10 DEF Conclude, Enter
<1>23. ASSUME NEW r \in Runs, Start(r) PROVE Goal
  BY <1>23 DEF Start, Post, Enter, Submitted
<1>11. ASSUME NEW r \in Runs, GiveUp(r) PROVE Goal
  <2>1. CASE stage[r] = "trickling"
    BY <1>11, <2>1 DEF GiveUp
  <2>2. CASE stage[r] # "trickling"
    <3>1. slow[r]
      BY <1>11, <2>2, UsedUp DEF GiveUp
    <3> QED
      BY <1>11, <3>1 DEF GiveUp
  <2> QED
    BY <2>1, <2>2
<1>12. ASSUME NEW r \in Runs, CallEnds(r) PROVE Goal
  BY <1>12 DEF CallEnds, TakeReply, Over, Enter
<1>13. ASSUME NEW r \in Runs, CodeFails(r) PROVE Goal
  BY <1>13 DEF CodeFails, Over, Enter
<1>14. ASSUME NEW r \in Runs, Connect(r), UNCHANGED <<embedding, entry, deadline>> PROVE Goal
  BY <1>14 DEF Connect, Enter
<1>15. ASSUME NEW r \in Runs, PoolTimesOut(r), UNCHANGED <<embedding, entry, deadline>> PROVE Goal
  BY <1>15 DEF PoolTimesOut, Leave, Enter
<1>16. ASSUME NEW r \in Runs, Retry(r), UNCHANGED <<embedding, entry, deadline>> PROVE Goal
  BY <1>16 DEF Retry, Enter
<1>17. ASSUME NEW r \in Runs, ReadTimesOut(r), UNCHANGED <<embedding, entry, deadline>> PROVE Goal
  BY <1>17 DEF ReadTimesOut, Leave, Enter
<1>18. ASSUME NEW r \in Runs, Answers(r), UNCHANGED <<embedding, entry, deadline>> PROVE Goal
  BY <1>18 DEF Answers, InUse, Leave, Enter
<1>19. ASSUME NEW r \in Runs, RateLimited(r), UNCHANGED <<embedding, entry, deadline>> PROVE Goal
  BY <1>19 DEF RateLimited, Enter
<1>20. ASSUME NEW r \in Runs, Refused(r), UNCHANGED <<embedding, entry, deadline>> PROVE Goal
  BY <1>20 DEF Refused, Leave, Enter
<1>21. ASSUME NEW r \in Runs, Breaks(r), UNCHANGED <<embedding, entry, deadline>> PROVE Goal
  BY <1>21 DEF Breaks, InUse, Leave, Enter
<1>24. ASSUME NEW r \in Runs, Trickles(r), UNCHANGED <<embedding, entry, deadline>> PROVE Goal
  <2>1. awaited[r] # "run" => slow[r]
    BY <1>24, PiecesAreLate DEF Trickles
  <2> QED
    BY <1>24, <2>1 DEF Trickles, Enter
<1>25. ASSUME NEW r \in Runs, Hangs(r), UNCHANGED <<embedding, client, deadline>> PROVE Goal
  BY <1>25 DEF Hangs, Enter
<1>22. CASE UNCHANGED vars
  BY <1>22 DEF vars
<1> QED
  BY <1>1, <1>2, <1>3, <1>4, <1>5, <1>6, <1>7, <1>8, <1>9, <1>10, <1>11,
     <1>12, <1>13, <1>14, <1>15, <1>16, <1>17, <1>18, <1>19, <1>20, <1>21, <1>22, <1>23,
     <1>24, <1>25
     DEF Next, RunStep, ServerStep, ClientStep, Reply

\* A call that is not slow uses up no more than its attempts and pauses.
LEMMA UsedStep == IInv /\ [Next]_vars => UsedInv'
<1> SUFFICES ASSUME IInv, [Next]_vars PROVE UsedInv'
  OBVIOUS
<1> DEFINE Goal == UsedInv'
<1> USE PatienceAssumption, AttemptsType
<1> USE DEF IInv, TypeOK, Stages, ClientTypes, client, deadline, CallInv, PatienceInv, UsedInv, Used
<1>1. ASSUME Tick PROVE Goal
  <2> SUFFICES ASSUME NEW p \in Runs, awaited'[p] = "future", ~slow'[p] PROVE Used(p)'
    BY DEF UsedInv
  <2>1. awaited[p] = "future" /\ stage' = stage /\ attempt' = attempt
    BY <1>1 DEF Tick, Unlimited
  <2>2. slow'[p] = (slow[p] \/ Waits(p))
    BY <1>1 DEF Tick, Unlimited
  <2>3. /\ ~slow[p]
        /\ stage[p] \in {"queued", "sent"} => ~(timer[p] >= Slow)
        /\ stage[p] = "submitted" => ~(waited[p] >= Slow)
    BY <2>1, <2>2 DEF Waits
  <2>4. Used(p)
    BY <2>1, <2>3
  <2>5. stage[p] = "pausing" => timer[p] < Longest
    <3>1. stage[p] = "pausing" => timer[p] < Pauses[attempt[p]]
      BY <1>1 DEF Tick, Unlimited, Limit, Pause
    <3>2. stage[p] = "pausing" => attempt[p] \in DOMAIN Pauses
      OBVIOUS
    <3>3. \A i \in DOMAIN Pauses : Pauses[i] \in Nat
      BY ClientAssumption
    <3> QED
      BY <3>1, <3>2, <3>3
  <2>6. stage[p] \in {"queued", "sent", "pausing"} => Rounds(attempt[p] - 1) \in Nat
    <3>1. stage[p] \in {"queued", "sent", "pausing"} => attempt[p] \in Nat \ {0}
      OBVIOUS
    <3> QED
      BY <3>1, RoundsGrow
  <2>7. waited'[p] = waited[p] + 1 /\ (stage[p] \notin {"idle", "submitted"} => timer'[p] = timer[p] + 1)
    BY <1>1, <2>1 DEF Tick, Unlimited
  <2>8. timer[p] \in Nat /\ waited[p] \in Nat
    OBVIOUS
  <2>9. CASE stage[p] = "queued"
    <3>1. timer'[p] <= Slow
      BY <2>1, <2>3, <2>4, <2>6, <2>7, <2>8, <2>9
    <3>2. waited'[p] <= Rounds(attempt[p] - 1) + Slow + timer'[p]
      BY <2>1, <2>3, <2>4, <2>6, <2>7, <2>8, <2>9
    <3> QED
      BY <2>1, <2>9, <3>1, <3>2
  <2>10. CASE stage[p] = "sent"
    BY <2>1, <2>3, <2>4, <2>6, <2>7, <2>8, <2>10
  <2>11. CASE stage[p] = "pausing"
    <3>1. timer'[p] <= Longest
      BY <2>1, <2>4, <2>5, <2>6, <2>7, <2>8, <2>11
    <3>2. waited'[p] <= Rounds(attempt[p] - 1) + 3 * Slow + timer'[p]
      BY <2>1, <2>4, <2>5, <2>6, <2>7, <2>8, <2>11
    <3> QED
      BY <2>1, <2>11, <3>1, <3>2
  <2>12. CASE stage[p] = "submitted"
    BY <2>1, <2>3, <2>7, <2>8, <2>12
  <2> QED
    BY <2>1, <2>9, <2>10, <2>11, <2>12
<1>2. ASSUME NEW r \in Runs, Ask(r) PROVE Goal
  BY <1>2 DEF Ask, Embed, EmbedBatch, Enter
<1>3. ASSUME NEW r \in Runs, StoreVectors(r), UNCHANGED <<entry, client, deadline>> PROVE Goal
  BY <1>3 DEF StoreVectors, Enter
<1>4. ASSUME NEW r \in Runs, Think(r) PROVE Goal
  BY <1>4 DEF Think, TakeVectors, Post, Enter
<1>5. ASSUME NEW r \in Runs, Thought(r) PROVE Goal
  BY <1>5 DEF Thought, TakeReply, Enter
<1>6. ASSUME NEW r \in Runs, CacheHit(r), UNCHANGED <<embedding, client, deadline>> PROVE Goal
  BY <1>6 DEF CacheHit, Enter
<1>7. ASSUME NEW r \in Runs, CacheMiss(r), UNCHANGED <<embedding, client, deadline>> PROVE Goal
  BY <1>7 DEF CacheMiss, Enter
<1>8. ASSUME NEW r \in Runs, Executed(r), UNCHANGED <<embedding, client, deadline>> PROVE Goal
  BY <1>8 DEF Executed, Enter
<1>9. ASSUME NEW r \in Runs, ExecutionFails(r), UNCHANGED <<embedding, client, deadline>> PROVE Goal
  BY <1>9 DEF ExecutionFails, Enter
<1>10. ASSUME NEW r \in Runs, Conclude(r) PROVE Goal
  <2> SUFFICES ASSUME NEW p \in Runs, awaited'[p] = "future", ~slow'[p] PROVE Used(p)'
    BY DEF UsedInv
  <2>1. CASE p # r
    BY <1>10, <2>1 DEF Used, Conclude, Enter
  <2>2. CASE p = r
    <3>1. waited[r] = 0
      BY <1>10 DEF Conclude
    <3> QED
      BY <1>10, <2>2, <3>1 DEF Used, Conclude, Enter
  <2> QED
    BY <2>1, <2>2
<1>23. ASSUME NEW r \in Runs, Start(r) PROVE Goal
  <2> SUFFICES ASSUME NEW p \in Runs, awaited'[p] = "future", ~slow'[p] PROVE Used(p)'
    BY DEF UsedInv
  <2>1. CASE p # r
    BY <1>23, <2>1 DEF Used, Start, Post, Enter
  <2>2. CASE p = r
    <3>1. stage[r] = "submitted" /\ awaited[r] = "future" /\ ~slow[r]
      BY <1>23, <2>2 DEF Start, Submitted
    <3>2. waited[r] <= Slow
      BY <3>1 DEF Used
    <3>3. Rounds(0) = 0
      BY DEF Rounds, Round
    <3> QED
      BY <1>23, <2>2, <3>2, <3>3 DEF Used, Start, Post, Enter
  <2> QED
    BY <2>1, <2>2
<1>11. ASSUME NEW r \in Runs, GiveUp(r) PROVE Goal
  BY <1>11 DEF GiveUp
<1>12. ASSUME NEW r \in Runs, CallEnds(r) PROVE Goal
  BY <1>12 DEF CallEnds, TakeReply, Over, Enter
<1>13. ASSUME NEW r \in Runs, CodeFails(r) PROVE Goal
  BY <1>13 DEF CodeFails, Over, Enter
<1>14. ASSUME NEW r \in Runs, Connect(r), UNCHANGED <<embedding, entry, deadline>> PROVE Goal
  <2> SUFFICES ASSUME NEW p \in Runs, awaited'[p] = "future", ~slow'[p] PROVE Used(p)'
    BY DEF UsedInv
  <2>1. CASE p # r
    BY <1>14, <2>1 DEF Used, Connect, Enter
  <2>2. CASE p = r
    <3>1. attempt[r] \in 1..Attempts
      BY <1>14 DEF Connect
    <3>2. Rounds(attempt[r] - 1) \in Nat /\ Rounds(attempt[r]) = Rounds(attempt[r] - 1) + Round
      <4>1. attempt[r] \in Nat \ {0}
        BY <3>1
      <4> QED
        BY <4>1, RoundsGrow
    <3>3. Used(r)
      BY <1>14, <2>2 DEF Connect
    <3> QED
      BY <1>14, <2>2, <3>1, <3>2, <3>3 DEF Used, Round, Connect, Enter
  <2> QED
    BY <2>1, <2>2
<1>15. ASSUME NEW r \in Runs, PoolTimesOut(r), UNCHANGED <<embedding, entry, deadline>> PROVE Goal
  BY <1>15 DEF PoolTimesOut, Leave, Enter
<1>16. ASSUME NEW r \in Runs, Retry(r), UNCHANGED <<embedding, entry, deadline>> PROVE Goal
  <2> SUFFICES ASSUME NEW p \in Runs, awaited'[p] = "future", ~slow'[p] PROVE Used(p)'
    BY DEF UsedInv
  <2>1. CASE p # r
    BY <1>16, <2>1 DEF Used, Retry, Enter
  <2>2. CASE p = r
    <3>1. attempt[r] \in 1..Attempts
      BY <1>16 DEF Retry
    <3>2. Rounds(attempt[r] - 1) \in Nat /\ Rounds(attempt[r]) = Rounds(attempt[r] - 1) + Round
      <4>1. attempt[r] \in Nat \ {0}
        BY <3>1
      <4> QED
        BY <4>1, RoundsGrow
    <3>3. Used(r)
      BY <1>16, <2>2 DEF Retry
    <3> QED
      BY <1>16, <2>2, <3>1, <3>2, <3>3 DEF Used, Round, Retry, Enter
  <2> QED
    BY <2>1, <2>2
<1>17. ASSUME NEW r \in Runs, ReadTimesOut(r), UNCHANGED <<embedding, entry, deadline>> PROVE Goal
  BY <1>17 DEF ReadTimesOut, Leave, Enter
<1>18. ASSUME NEW r \in Runs, Answers(r), UNCHANGED <<embedding, entry, deadline>> PROVE Goal
  BY <1>18 DEF Answers, InUse, Leave, Enter
<1>19. ASSUME NEW r \in Runs, RateLimited(r), UNCHANGED <<embedding, entry, deadline>> PROVE Goal
  <2> SUFFICES ASSUME NEW p \in Runs, awaited'[p] = "future", ~slow'[p] PROVE Used(p)'
    BY DEF UsedInv
  <2>1. CASE p # r
    BY <1>19, <2>1 DEF Used, RateLimited, Enter
  <2>2. CASE p = r
    <3>1. attempt[r] \in 1..Attempts
      BY <1>19 DEF RateLimited
    <3>2. Rounds(attempt[r] - 1) \in Nat /\ Rounds(attempt[r]) = Rounds(attempt[r] - 1) + Round
      <4>1. attempt[r] \in Nat \ {0}
        BY <3>1
      <4> QED
        BY <4>1, RoundsGrow
    <3>3. Used(r)
      BY <1>19, <2>2 DEF RateLimited
    <3> QED
      BY <1>19, <2>2, <3>1, <3>2, <3>3 DEF Used, Round, RateLimited, Enter
  <2> QED
    BY <2>1, <2>2
<1>20. ASSUME NEW r \in Runs, Refused(r), UNCHANGED <<embedding, entry, deadline>> PROVE Goal
  BY <1>20 DEF Refused, Leave, Enter
<1>21. ASSUME NEW r \in Runs, Breaks(r), UNCHANGED <<embedding, entry, deadline>> PROVE Goal
  BY <1>21 DEF Breaks, InUse, Leave, Enter
<1>24. ASSUME NEW r \in Runs, Trickles(r), UNCHANGED <<embedding, entry, deadline>> PROVE Goal
  BY <1>24 DEF Trickles, Enter
<1>25. ASSUME NEW r \in Runs, Hangs(r), UNCHANGED <<embedding, client, deadline>> PROVE Goal
  BY <1>25 DEF Hangs, Enter
<1>22. CASE UNCHANGED vars
  BY <1>22 DEF vars
<1> QED
  BY <1>1, <1>2, <1>3, <1>4, <1>5, <1>6, <1>7, <1>8, <1>9, <1>10, <1>11,
     <1>12, <1>13, <1>14, <1>15, <1>16, <1>17, <1>18, <1>19, <1>20, <1>21, <1>22, <1>23,
     <1>24, <1>25
     DEF Next, RunStep, ServerStep, ClientStep, Reply

\* An entry is no older than its time and the execution that made it.
LEMMA RecentStep == IInv /\ [Next]_vars => RecentInv'
<1> SUFFICES ASSUME IInv, [Next]_vars PROVE RecentInv'
  OBVIOUS
<1> DEFINE Goal == RecentInv'
<1> USE TimesAssumption
<1> USE DEF IInv, TypeOK, Stages, ClientTypes, client, deadline, Entries, NoEntry, RecentInv
<1>1. ASSUME Tick PROVE Goal
  <2>1. (entry.left + entry.age <= TimeToLive + ExecTime)'
    <3>1. entry.left \in Nat /\ entry.age \in Nat
      OBVIOUS
    <3>2. CASE entry.left <= 1
      BY <1>1, <3>2 DEF Tick, EntryAges
    <3>3. CASE ~(entry.left <= 1)
      BY <1>1, <3>1, <3>3 DEF Tick, EntryAges
    <3> QED
      BY <3>2, <3>3
  <2>2. ASSUME NEW p \in Runs, stage'[p] = "executing" PROVE timer'[p] <= ExecTime
    <3>1. stage[p] = "executing"
      BY <1>1, <2>2 DEF Tick, Unlimited
    <3>2. timer[p] < ExecTime
      BY <1>1, <3>1 DEF Tick, Unlimited, Limit
    <3> QED
      BY <1>1, <3>1, <3>2 DEF Tick, Unlimited
  <2> QED
    BY <2>1, <2>2
<1>2. ASSUME NEW r \in Runs, Ask(r) PROVE Goal
  BY <1>2 DEF Ask, Embed, EmbedBatch, Enter
<1>3. ASSUME NEW r \in Runs, StoreVectors(r), UNCHANGED <<entry, client, deadline>> PROVE Goal
  BY <1>3 DEF StoreVectors, Enter
<1>4. ASSUME NEW r \in Runs, Think(r) PROVE Goal
  BY <1>4 DEF Think, TakeVectors, Post, Enter
<1>5. ASSUME NEW r \in Runs, Thought(r) PROVE Goal
  BY <1>5 DEF Thought, TakeReply, Enter
<1>6. ASSUME NEW r \in Runs, CacheHit(r), UNCHANGED <<embedding, client, deadline>> PROVE Goal
  BY <1>6 DEF CacheHit, Enter
<1>7. ASSUME NEW r \in Runs, CacheMiss(r), UNCHANGED <<embedding, client, deadline>> PROVE Goal
  BY <1>7 DEF CacheMiss, Enter
<1>8. ASSUME NEW r \in Runs, Executed(r), UNCHANGED <<embedding, client, deadline>> PROVE Goal
  BY <1>8 DEF Executed, Enter
<1>9. ASSUME NEW r \in Runs, ExecutionFails(r), UNCHANGED <<embedding, client, deadline>> PROVE Goal
  BY <1>9 DEF ExecutionFails, Enter
<1>10. ASSUME NEW r \in Runs, Conclude(r) PROVE Goal
  BY <1>10 DEF Conclude, Enter
<1>23. ASSUME NEW r \in Runs, Start(r) PROVE Goal
  BY <1>23 DEF Start, Post, Enter, Submitted
<1>11. ASSUME NEW r \in Runs, GiveUp(r) PROVE Goal
  BY <1>11 DEF GiveUp
<1>12. ASSUME NEW r \in Runs, CallEnds(r) PROVE Goal
  BY <1>12 DEF CallEnds, TakeReply, Over, Enter
<1>13. ASSUME NEW r \in Runs, CodeFails(r) PROVE Goal
  BY <1>13 DEF CodeFails, Over, Enter
<1>14. ASSUME NEW r \in Runs, Connect(r), UNCHANGED <<embedding, entry, deadline>> PROVE Goal
  BY <1>14 DEF Connect, Enter
<1>15. ASSUME NEW r \in Runs, PoolTimesOut(r), UNCHANGED <<embedding, entry, deadline>> PROVE Goal
  BY <1>15 DEF PoolTimesOut, Leave, Enter
<1>16. ASSUME NEW r \in Runs, Retry(r), UNCHANGED <<embedding, entry, deadline>> PROVE Goal
  BY <1>16 DEF Retry, Enter
<1>17. ASSUME NEW r \in Runs, ReadTimesOut(r), UNCHANGED <<embedding, entry, deadline>> PROVE Goal
  BY <1>17 DEF ReadTimesOut, Leave, Enter
<1>18. ASSUME NEW r \in Runs, Answers(r), UNCHANGED <<embedding, entry, deadline>> PROVE Goal
  BY <1>18 DEF Answers, InUse, Leave, Enter
<1>19. ASSUME NEW r \in Runs, RateLimited(r), UNCHANGED <<embedding, entry, deadline>> PROVE Goal
  BY <1>19 DEF RateLimited, Enter
<1>20. ASSUME NEW r \in Runs, Refused(r), UNCHANGED <<embedding, entry, deadline>> PROVE Goal
  BY <1>20 DEF Refused, Leave, Enter
<1>21. ASSUME NEW r \in Runs, Breaks(r), UNCHANGED <<embedding, entry, deadline>> PROVE Goal
  BY <1>21 DEF Breaks, InUse, Leave, Enter
<1>24. ASSUME NEW r \in Runs, Trickles(r), UNCHANGED <<embedding, entry, deadline>> PROVE Goal
  BY <1>24 DEF Trickles, Enter
<1>25. ASSUME NEW r \in Runs, Hangs(r), UNCHANGED <<embedding, client, deadline>> PROVE Goal
  BY <1>25 DEF Hangs, Enter
<1>22. CASE UNCHANGED vars
  BY <1>22 DEF vars
<1> QED
  BY <1>1, <1>2, <1>3, <1>4, <1>5, <1>6, <1>7, <1>8, <1>9, <1>10, <1>11,
     <1>12, <1>13, <1>14, <1>15, <1>16, <1>17, <1>18, <1>19, <1>20, <1>21, <1>22, <1>23,
     <1>24, <1>25
     DEF Next, RunStep, ServerStep, ClientStep, Reply

\* A non-empty set of positions has a last one.
LEMMA LastOf ==
    ASSUME NEW n \in Nat, NEW K \in SUBSET (1..n), K # {}
    PROVE  \E m \in K : \A k \in K : k <= m
<1> DEFINE Rest(k) == (k + 1)..n
           T == {Rest(k) : k \in K}
<1>1. T \subseteq FiniteSubsetsOf(1..n) /\ T # {}
  <2>1. \A k \in K : IsFiniteSet(Rest(k)) /\ Rest(k) \subseteq 1..n
    <3>1. \A k \in K : k + 1 \in Int /\ n \in Int
      OBVIOUS
    <3>2. \A k \in K : IsFiniteSet(Rest(k))
      BY <3>1, FS_Interval
    <3> QED
      BY <3>2
  <2> QED
    BY <2>1 DEF FiniteSubsetsOf
<1>2. \E x \in T : \A y \in T : ~ (<<y, x>> \in StrictSubsetOrdering(1..n))
  <2>1. IsWellFoundedOn(StrictSubsetOrdering(1..n), FiniteSubsetsOf(1..n))
    BY FS_StrictSubsetOrderingWellFounded
  <2> HIDE DEF T
  <2> QED
    BY <1>1, <2>1, WFMin
<1>3. PICK m \in K : \A k \in K : ~ (<<Rest(k), Rest(m)>> \in StrictSubsetOrdering(1..n))
  BY <1>2
<1>4. ASSUME NEW k \in K, ~ (k <= m) PROVE FALSE
  <2>1. Rest(k) \subseteq Rest(m) /\ k \in Rest(m) /\ k \notin Rest(k)
    BY <1>4
  <2>2. Rest(k) \in SUBSET (1..n) /\ Rest(m) \in SUBSET (1..n)
    OBVIOUS
  <2> QED
    BY <1>3, <2>1, <2>2 DEF StrictSubsetOrdering
<1> QED
  BY <1>4

\* What a run stores fits in the room it finds: the last text it stores had room
\* with all of the others before it.
LEMMA RoomIsKept ==
    ASSUME TextsAssumption, EmbedderTypes, NEW r \in Runs, DOMAIN results[r] = DOMAIN texts[r],
           Cardinality(Stored) <= MaxVectors
    PROVE  Cardinality(Stored \union Storable(r)) <= MaxVectors
<1> DEFINE K == {k \in Uncached(r) : HasRoom(r, k)}
<1>1. texts[r] \in Seq(Texts) /\ IsFiniteSet(Texts) /\ MaxVectors \in Nat
  BY DEF EmbedderTypes, TextsAssumption
<1>2. Len(texts[r]) \in Nat /\ K \in SUBSET (1..Len(texts[r]))
  BY <1>1 DEF Uncached
<1>3. \A i \in Uncached(r) : texts[r][i] \in Texts
  BY <1>1 DEF Uncached
<1>4. Stored \subseteq Texts
  BY DEF Stored
<1>5. CASE K = {}
  <2>1. Storable(r) = {}
    BY <1>5 DEF Storable
  <2> QED
    BY <2>1
<1>6. CASE K # {}
  <2>1. PICK m \in K : \A k \in K : k <= m
    <3> HIDE DEF K
    <3> QED
      BY <1>2, <1>6, LastOf
  <2> DEFINE S == Stored \union Before(r, m)
  <2>2. Cardinality(S) < MaxVectors
    BY <2>1 DEF HasRoom
  <2>3. S \subseteq Texts /\ texts[r][m] \in Texts
    BY <1>3, <1>4, <2>1 DEF Before
  <2>4. IsFiniteSet(S)
    BY <1>1, <2>3, FS_Subset
  <2> DEFINE U == S \union {texts[r][m]}
  <2>5. IsFiniteSet(U) /\ Cardinality(U) <= Cardinality(S) + 1
    <3>1. Cardinality(S) \in Nat
      BY <2>4, FS_CardinalityType
    <3>2. IsFiniteSet(U) /\ (Cardinality(U) = Cardinality(S) \/ Cardinality(U) = Cardinality(S) + 1)
      <4> HIDE DEF S
      <4> QED
        BY <2>4, FS_AddElement
    <3> QED
      BY <3>1, <3>2
  <2>6. Stored \union Storable(r) \subseteq U
    <3>1. ASSUME NEW k \in K PROVE texts[r][k] \in U
      <4>1. CASE k = m
        BY <4>1
      <4>2. CASE k # m
        <5>1. k \in Uncached(r) /\ k < m
          BY <1>2, <2>1, <4>2
        <5> QED
          BY <5>1 DEF Before
      <4> QED
        BY <4>1, <4>2
    <3> QED
      BY <3>1 DEF Storable
  <2>7. Cardinality(Stored \union Storable(r)) <= Cardinality(U)
    BY <2>5, <2>6, FS_Subset
  <2>8. /\ Cardinality(S) \in Nat /\ Cardinality(U) \in Nat
        /\ Cardinality(Stored \union Storable(r)) \in Nat
    BY <2>4, <2>5, <2>6, FS_Subset, FS_CardinalityType
  <2> QED
    BY <1>1, <2>2, <2>5, <2>7, <2>8
<1> QED
  BY <1>5, <1>6

\* The vectors of a batch stay those of its texts.
LEMMA EmbedStep == IInv /\ [Next]_vars => EmbedInv'
<1> SUFFICES ASSUME IInv, [Next]_vars PROVE EmbedInv'
  OBVIOUS
<1> DEFINE Goal == EmbedInv'
<1> USE TextsAssumption
<1> USE DEF IInv, TypeOK, Stages, ClientTypes, client, deadline, EmbedderTypes, embedding, EmbedInv, VectorsAreOfTheirTexts, Stored
<1>1. ASSUME Tick PROVE Goal
  BY <1>1 DEF Tick, Unlimited
<1>2. ASSUME NEW r \in Runs, Ask(r) PROVE Goal
  <2> PICK batch \in Seq(Texts) : EmbedBatch(r, batch)
    <3>1. \A t \in Texts : <<t>> \in Seq(Texts)
      OBVIOUS
    <3>2. CASE \E t \in Texts : Embed(r, t)
      BY <3>1, <3>2 DEF Embed
    <3>3. CASE \E b \in Batches : EmbedBatch(r, b)
      BY <3>3
    <3> QED
      BY <1>2, <3>2, <3>3 DEF Ask
  <2>1. (\A t \in Texts : embed_cache[t] \in {Missing, Vector(t)})'
    BY DEF EmbedBatch
  <2>2. ASSUME NEW p \in Runs, stage'[p] \in {"embedding", "embedded"}
        PROVE  /\ DOMAIN results'[p] = DOMAIN texts'[p]
               /\ \A i \in DOMAIN texts'[p] : results'[p][i] \in {Missing, Vector(texts'[p][i])}
    <3>1. CASE p = r
      <4>1. \A i \in DOMAIN batch : batch[i] \in Texts
        OBVIOUS
      <4>2. results'[r] = [i \in DOMAIN batch |-> embed_cache[batch[i]]] /\ texts'[r] = batch
        BY DEF EmbedBatch
      <4> QED
        BY <3>1, <4>1, <4>2
    <3>2. CASE p # r
      <4>1. stage'[p] = stage[p] /\ results'[p] = results[p] /\ texts'[p] = texts[p]
        BY <3>2 DEF EmbedBatch, Enter
      <4> QED
        BY <2>2, <4>1
    <3> QED
      BY <3>1, <3>2
  <2>3. ASSUME NEW p \in Runs, stage'[p] = "embedded"
        PROVE  results'[p] = [i \in DOMAIN texts'[p] |-> Vector(texts'[p][i])]
    BY <2>3 DEF EmbedBatch, Enter
  <2>4. (Cardinality(Stored) <= MaxVectors)'
    BY DEF EmbedBatch
  <2> QED
    BY <2>1, <2>2, <2>3, <2>4
<1>3. ASSUME NEW r \in Runs, StoreVectors(r), UNCHANGED <<entry, client, deadline>> PROVE Goal
  <2>1. (\A t \in Texts : embed_cache[t] \in {Missing, Vector(t)})'
    BY <1>3 DEF StoreVectors
  <2>2. ASSUME NEW p \in Runs, stage'[p] \in {"embedding", "embedded"}
        PROVE  /\ DOMAIN results'[p] = DOMAIN texts'[p]
               /\ \A i \in DOMAIN texts'[p] : results'[p][i] \in {Missing, Vector(texts'[p][i])}
    <3>1. CASE p = r
      BY <1>3, <3>1 DEF StoreVectors, Enter, Filed
    <3>2. CASE p # r
      BY <1>3, <2>2, <3>2 DEF StoreVectors, Enter
    <3> QED
      BY <3>1, <3>2
  <2>3. ASSUME NEW p \in Runs, stage'[p] = "embedded"
        PROVE  results'[p] = [i \in DOMAIN texts'[p] |-> Vector(texts'[p][i])]
    <3>1. CASE p = r
      <4>1. stage[r] = "embedding" /\ results'[r] = Filed(r) /\ texts'[r] = texts[r]
        BY <1>3 DEF StoreVectors
      <4>2. \A i \in DOMAIN texts[r] : results[r][i] \in {Missing, Vector(texts[r][i])}
        BY <4>1
      <4>3. Filed(r) = [i \in DOMAIN texts[r] |-> Vector(texts[r][i])]
        BY <4>2 DEF Filed, Uncached
      <4> QED
        BY <3>1, <4>1, <4>3
    <3>2. CASE p # r
      BY <1>3, <2>3, <3>2 DEF StoreVectors, Enter
    <3> QED
      BY <3>1, <3>2
  <2>4. (Cardinality(Stored) <= MaxVectors)'
    <3>1. Stored' \subseteq Stored \union Storable(r)
      BY <1>3 DEF StoreVectors
    <3>2. Cardinality(Stored \union Storable(r)) <= MaxVectors
      BY <1>3, RoomIsKept DEF StoreVectors
    <3>3. Stored \union Storable(r) \subseteq Texts
      <4>1. texts[r] \in Seq(Texts)
        OBVIOUS
      <4> QED
        BY <4>1 DEF Storable, Uncached
    <3>4. IsFiniteSet(Stored \union Storable(r))
      BY <3>3, FS_Subset
    <3>5. /\ Cardinality(Stored') <= Cardinality(Stored \union Storable(r))
          /\ IsFiniteSet(Stored')
      <4> HIDE DEF Stored
      <4> QED
        BY <3>1, <3>4, FS_Subset
    <3>6. Cardinality(Stored') \in Nat /\ Cardinality(Stored \union Storable(r)) \in Nat
      <4> HIDE DEF Stored
      <4> QED
        BY <3>4, <3>5, FS_CardinalityType
    <3>7. Cardinality(Stored') <= MaxVectors
      <4> HIDE DEF Stored
      <4> QED
        BY <3>2, <3>5, <3>6
    <3> QED
      BY <3>7
  <2> QED
    BY <2>1, <2>2, <2>3, <2>4
<1>4. ASSUME NEW r \in Runs, Think(r) PROVE Goal
  BY <1>4 DEF Think, TakeVectors, Post, Enter
<1>5. ASSUME NEW r \in Runs, Thought(r) PROVE Goal
  BY <1>5 DEF Thought, TakeReply, Enter
<1>6. ASSUME NEW r \in Runs, CacheHit(r), UNCHANGED <<embedding, client, deadline>> PROVE Goal
  BY <1>6 DEF CacheHit, Enter
<1>7. ASSUME NEW r \in Runs, CacheMiss(r), UNCHANGED <<embedding, client, deadline>> PROVE Goal
  BY <1>7 DEF CacheMiss, Enter
<1>8. ASSUME NEW r \in Runs, Executed(r), UNCHANGED <<embedding, client, deadline>> PROVE Goal
  BY <1>8 DEF Executed, Enter
<1>9. ASSUME NEW r \in Runs, ExecutionFails(r), UNCHANGED <<embedding, client, deadline>> PROVE Goal
  BY <1>9 DEF ExecutionFails, Enter
<1>10. ASSUME NEW r \in Runs, Conclude(r) PROVE Goal
  BY <1>10 DEF Conclude, Enter
<1>23. ASSUME NEW r \in Runs, Start(r) PROVE Goal
  BY <1>23 DEF Start, Post, Enter, Submitted
<1>11. ASSUME NEW r \in Runs, GiveUp(r) PROVE Goal
  BY <1>11 DEF GiveUp
<1>12. ASSUME NEW r \in Runs, CallEnds(r) PROVE Goal
  BY <1>12 DEF CallEnds, TakeReply, Over, Enter
<1>13. ASSUME NEW r \in Runs, CodeFails(r) PROVE Goal
  BY <1>13 DEF CodeFails, Over, Enter
<1>14. ASSUME NEW r \in Runs, Connect(r), UNCHANGED <<embedding, entry, deadline>> PROVE Goal
  BY <1>14 DEF Connect, Enter
<1>15. ASSUME NEW r \in Runs, PoolTimesOut(r), UNCHANGED <<embedding, entry, deadline>> PROVE Goal
  BY <1>15 DEF PoolTimesOut, Leave, Enter
<1>16. ASSUME NEW r \in Runs, Retry(r), UNCHANGED <<embedding, entry, deadline>> PROVE Goal
  BY <1>16 DEF Retry, Enter
<1>17. ASSUME NEW r \in Runs, ReadTimesOut(r), UNCHANGED <<embedding, entry, deadline>> PROVE Goal
  BY <1>17 DEF ReadTimesOut, Leave, Enter
<1>18. ASSUME NEW r \in Runs, Answers(r), UNCHANGED <<embedding, entry, deadline>> PROVE Goal
  BY <1>18 DEF Answers, InUse, Leave, Enter
<1>19. ASSUME NEW r \in Runs, RateLimited(r), UNCHANGED <<embedding, entry, deadline>> PROVE Goal
  BY <1>19 DEF RateLimited, Enter
<1>20. ASSUME NEW r \in Runs, Refused(r), UNCHANGED <<embedding, entry, deadline>> PROVE Goal
  BY <1>20 DEF Refused, Leave, Enter
<1>21. ASSUME NEW r \in Runs, Breaks(r), UNCHANGED <<embedding, entry, deadline>> PROVE Goal
  BY <1>21 DEF Breaks, InUse, Leave, Enter
<1>24. ASSUME NEW r \in Runs, Trickles(r), UNCHANGED <<embedding, entry, deadline>> PROVE Goal
  BY <1>24 DEF Trickles, Enter
<1>25. ASSUME NEW r \in Runs, Hangs(r), UNCHANGED <<embedding, client, deadline>> PROVE Goal
  BY <1>25 DEF Hangs, Enter
<1>22. CASE UNCHANGED vars
  BY <1>22 DEF vars
<1> QED
  BY <1>1, <1>2, <1>3, <1>4, <1>5, <1>6, <1>7, <1>8, <1>9, <1>10, <1>11,
     <1>12, <1>13, <1>14, <1>15, <1>16, <1>17, <1>18, <1>19, <1>20, <1>21, <1>22, <1>23,
     <1>24, <1>25
     DEF Next, RunStep, ServerStep, ClientStep, Reply

\* The initial states satisfy the invariant.
LEMMA InitEstablishes == Init => IInv
<1> SUFFICES ASSUME Init PROVE IInv
  OBVIOUS
<1> USE TextsAssumption, TimesAssumption, AttemptsType, PatienceAssumption
<1> USE DEF Init, EmbedderInit, ResultCacheInit, ClientInit
<1>1. TypeOK
  <2>1. EmbedderTypes
    BY DEF EmbedderTypes
  <2> QED
    BY <2>1 DEF TypeOK, Stages, ClientTypes, Entries, NoEntry
<1>2. CallInv
  BY DEF CallInv
<1>3. PatienceInv
  BY DEF PatienceInv
<1>4. UsedInv
  BY DEF UsedInv
<1>5. RecentInv
  BY DEF RecentInv, NoEntry
<1>6. EmbedInv
  <2>1. Stored = {}
    BY DEF Stored
  <2>2. Cardinality(Stored) <= MaxVectors
    BY <2>1, FS_EmptySet
  <2> QED
    BY <2>2 DEF EmbedInv, VectorsAreOfTheirTexts
<1> QED
  BY <1>1, <1>2, <1>3, <1>4, <1>5, <1>6 DEF IInv

\* The invariant holds in every state of every execution.
THEOREM Invariance == Spec => []IInv
<1>1. IInv /\ [Next]_vars => IInv'
  BY TypeStep, CallStep, PatienceStep, UsedStep, RecentStep, EmbedStep DEF IInv
<1> QED
  BY InitEstablishes, <1>1, PTL DEF Spec

-----------------------------------------------------------------------------
\* For any durations for which the attempts and pauses of a call fit in the
\* patience, and any number of runs that compete for any number of connections,
\* a run gives up on its insight only if a wait was longer than Slow (graph.py:187).
THEOREM BackoffFits == Spec => []BackoffFitsTheWait
<1>1. IInv => BackoffFitsTheWait
  BY DEF IInv, PatienceInv, BackoffFitsTheWait
<1> QED
  BY Invariance, <1>1, PTL

\* For any number of attempts, the server works out at most one answer to a call
\* (groq_client.py:25-52).
THEOREM WorksOnce == Spec => []ModelWorksOnce
<1>1. IInv => ModelWorksOnce
  BY DEF IInv, CallInv, ModelWorksOnce
<1> QED
  BY Invariance, <1>1, PTL

\* For any time to live and any longest execution, an entry is no older than the
\* two together (executor.py:79).
THEOREM Recent == Spec => []AnswersAreRecent
<1>1. IInv => AnswersAreRecent
  BY TimesAssumption DEF IInv, TypeOK, RecentInv, AnswersAreRecent, Entries, NoEntry
<1> QED
  BY Invariance, <1>1, PTL

\* For any texts, batches and limit of the cache, each text gets its own vector
\* and the cache keeps to its limit (together_embedder.py:49-76).
THEOREM OwnVectors == Spec => []VectorsAreOfTheirTexts
<1>1. IInv => VectorsAreOfTheirTexts
  BY DEF IInv, EmbedInv
<1> QED
  BY Invariance, <1>1, PTL

\* The types hold for every value of the constants.
THEOREM TypeCorrect == Spec => []TypeOK
<1>1. IInv => TypeOK
  BY DEF IInv
<1> QED
  BY Invariance, <1>1, PTL
=============================================================================
