------------------------- MODULE SchemaIndexProofs -------------------------
(***************************************************************************)
(* Proofs about SchemaIndex for any number of workers, connectors and      *)
(* questions, and any size of the cache.  IInv adds to the properties that *)
(* a DELETE dooms rows of its own connector only, that it dooms all of     *)
(* them if nobody else is ingesting the connector, and how many entries    *)
(* the threads about to store one may still add to the cache.              *)
(***************************************************************************)
EXTENDS SchemaIndex, FiniteSetTheorems, TLAPS

\* The event loop's thread only ingests, and the workers' calls have a question.
CallInv ==
    /\ pc[Loop] \notin {"lookup", "search", "found", "storing"}
    /\ Question(Loop) = NoQuestion
    /\ \A t \in Workers : pc[t] # "idle" => Question(t) \in Questions

AnswerInv ==
    /\ AnswersAreOfConnector
    /\ \A t \in Workers : pc[t] = "found" => found[t] # {}
    /\ \A t \in Workers : found[t] # {} => Question(t) \in Questions

IngestInv ==
    /\ \A t \in Threads : pc[t] \in {"deleting", "deleted"} =>
        /\ \A r \in doomed[t] : r.of = Connector(t)
        /\ alone[t] => RowsOf(Connector(t)) \subseteq doomed[t]
                          /\ Transacting(Connector(t)) = {t}

Storing == {t \in Workers : pc[t] = "storing"}

RoomInv ==
    /\ IsFiniteSet(Cached)
    /\ Cardinality(Cached) + Cardinality(Storing) <= MaxCache - 1 + Cardinality(Workers)

\* Each row can be given a thread that inserted it, a different one for each row
\* of a connector: a thread that ingests it again dooms its own row before.
Owned(c, owner) ==
    /\ owner \in [RowsOf(c) -> Threads]
    /\ \A r, s \in RowsOf(c) : owner[r] = owner[s] => r = s
    /\ \A t \in Transacting(c) : \A r \in RowsOf(c) : owner[r] = t => r \in doomed[t]

CopiesInv == \A c \in Connectors : \E owner : Owned(c, owner)

IInv == TypeOK /\ CallInv /\ AnswerInv /\ IngestInv /\ RoomInv /\ CopiesInv

-----------------------------------------------------------------------------
\* Every step keeps the types.
LEMMA TypeStep == IInv /\ [Next]_vars => TypeOK'
<1> SUFFICES ASSUME IInv, [Next]_vars PROVE TypeOK'
  OBVIOUS
<1> DEFINE Goal == TypeOK'
<1> USE VersionsAssumption, BoundsAssumption
<1> USE DEF IInv, TypeOK, CallInv, Threads, Stages, Calls, local, Question, Connector
<1>1. ASSUME NEW c \in Connectors, IngestRequest(c) PROVE Goal
  BY <1>1 DEF IngestRequest, GoTo
<1>2. ASSUME NEW t \in Workers, NEW c \in Connectors, NEW q \in Questions, LookupRequest(t, c, q) PROVE Goal
  BY <1>2 DEF LookupRequest, GoTo
<1>3. ASSUME NEW t \in Threads, LookupHits(t) PROVE Goal
  <2>1. KeyOf(t) \in Keys
    BY <1>3 DEF LookupHits, KeyOf, Keys
  <2>2. found' \in [Threads -> SUBSET Contents]
    BY <1>3, <2>1 DEF LookupHits
  <2> QED
    BY <1>3, <2>2 DEF LookupHits, Return, GoTo
<1>4. ASSUME NEW t \in Threads, LookupMisses(t) PROVE Goal
  BY <1>4 DEF LookupMisses, GoTo
<1>5. ASSUME NEW t \in Threads, SearchFinds(t) PROVE Goal
  <2>1. \A S \in SUBSET RowsOf(Connector(t)) : Content(S) \subseteq Contents
    BY DEF RowsOf, Content, Contents, Batches
  <2>2. PICK S \in SUBSET RowsOf(Connector(t)) : found' = [found EXCEPT ![t] = Content(S)]
    BY <1>5 DEF SearchFinds
  <2>3. found' \in [Threads -> SUBSET Contents]
    BY <2>1, <2>2
  <2> QED
    BY <1>5, <2>3 DEF SearchFinds, GoTo
<1>6. ASSUME NEW t \in Threads, SearchIngests(t) PROVE Goal
  BY <1>6 DEF SearchIngests, GoTo
<1>7. ASSUME NEW t \in Threads, Crawl(t) PROVE Goal
  BY <1>7 DEF Crawl, GoTo
<1>8. ASSUME NEW t \in Threads, BeginDelete(t) PROVE Goal
  <2>1. doomed' \in [Threads -> SUBSET Batches]
    BY <1>8 DEF BeginDelete, RowsOf
  <2>2. alone' \in [Threads -> BOOLEAN]
    <3>1. \A s \in Threads : alone'[s] \in BOOLEAN
      BY <1>8 DEF BeginDelete
    <3> QED
      BY <1>8, <3>1 DEF BeginDelete
  <2> QED
    BY <1>8, <2>1, <2>2 DEF BeginDelete, GoTo
<1>9. ASSUME NEW t \in Threads, Commit(t) PROVE Goal
  <2>1. rows' \subseteq Batches
    BY <1>9 DEF Commit, FreshIds, Batches
  <2> QED
    BY <1>9, <2>1 DEF Commit, GoTo
<1>10. ASSUME NEW t \in Threads, BeginSweep(t) PROVE Goal
  <2>1. Cardinality(Cached) \in Nat
    BY FS_CardinalityType DEF RoomInv
  <2> QED
    BY <1>10, <2>1 DEF BeginSweep, GoTo
<1>11. ASSUME NEW t \in Threads, EndSweep(t) PROVE Goal
  <2>1. cache' = cache
    BY <1>11 DEF EndSweep, KeysToRemove
  <2>2. CASE Question(t) = NoQuestion
    <3>1. Return(t, TRUE) /\ UNCHANGED <<rows, call, found>>
      BY <1>11, <2>2 DEF EndSweep
    <3> QED
      BY <2>1, <3>1 DEF Return, GoTo
  <2>3. CASE Question(t) # NoQuestion
    <3>1. /\ UNCHANGED <<rows, call, crawled, doomed, depth, found, answered, alone>>
          /\ GoTo(t, "lookup")
          /\ size' = [size EXCEPT ![t] = 0]
      BY <1>11, <2>3 DEF EndSweep
    <3> QED
      BY <2>1, <3>1 DEF GoTo
  <2> QED
    BY <2>2, <2>3
<1>12. ASSUME NEW t \in Threads, CheckRoom(t) PROVE Goal
  BY <1>12 DEF CheckRoom, GoTo
<1>13. ASSUME NEW t \in Threads, NoRoom(t) PROVE Goal
  BY <1>13 DEF NoRoom, Return, GoTo
<1>14. ASSUME NEW t \in Threads, Store(t) PROVE Goal
  <2>1. cache' \in [Keys -> SUBSET Contents]
    BY <1>14 DEF Store
  <2> QED
    BY <1>14, <2>1 DEF Store, Return, GoTo
<1>15. ASSUME NEW t \in Threads, EndDelete(t) PROVE Goal
  BY <1>15 DEF EndDelete, GoTo
<1>16. ASSUME NEW t \in Threads, Raises(t) PROVE Goal
  BY <1>16 DEF Raises, Return, GoTo
<1>17. CASE Restart
  BY <1>17 DEF Restart
<1>18. CASE UNCHANGED vars
  BY <1>18 DEF vars
<1> QED
  BY <1>1, <1>2, <1>3, <1>4, <1>5, <1>6, <1>7, <1>8, <1>9, <1>10, <1>11,
     <1>12, <1>13, <1>14, <1>15, <1>16, <1>17, <1>18
     DEF Next, Proceed

\* The event loop never looks tables up.
LEMMA CallStep == IInv /\ [Next]_vars => CallInv'
<1> SUFFICES ASSUME IInv, [Next]_vars PROVE CallInv'
  OBVIOUS
<1> DEFINE Goal == CallInv'
<1> USE ThreadsAssumption
<1> USE DEF IInv, TypeOK, CallInv, Threads, local, Question
<1>1. ASSUME NEW c \in Connectors, IngestRequest(c) PROVE Goal
  BY <1>1 DEF IngestRequest, GoTo
<1>2. ASSUME NEW t \in Workers, NEW c \in Connectors, NEW q \in Questions, LookupRequest(t, c, q) PROVE Goal
  BY <1>2 DEF LookupRequest, GoTo
<1>3. ASSUME NEW t \in Threads, LookupHits(t) PROVE Goal
  BY <1>3 DEF LookupHits, Return, GoTo
<1>4. ASSUME NEW t \in Threads, LookupMisses(t) PROVE Goal
  BY <1>4 DEF LookupMisses, GoTo
<1>5. ASSUME NEW t \in Threads, SearchFinds(t) PROVE Goal
  BY <1>5 DEF SearchFinds, GoTo
<1>6. ASSUME NEW t \in Threads, SearchIngests(t) PROVE Goal
  BY <1>6 DEF SearchIngests, GoTo
<1>7. ASSUME NEW t \in Threads, Crawl(t) PROVE Goal
  BY <1>7 DEF Crawl, GoTo
<1>8. ASSUME NEW t \in Threads, BeginDelete(t) PROVE Goal
  BY <1>8 DEF BeginDelete, GoTo
<1>9. ASSUME NEW t \in Threads, Commit(t) PROVE Goal
  BY <1>9 DEF Commit, GoTo
<1>10. ASSUME NEW t \in Threads, BeginSweep(t) PROVE Goal
  BY <1>10 DEF BeginSweep, GoTo
<1>11. ASSUME NEW t \in Threads, EndSweep(t) PROVE Goal
  BY <1>11 DEF EndSweep, Return, GoTo
<1>12. ASSUME NEW t \in Threads, CheckRoom(t) PROVE Goal
  BY <1>12 DEF CheckRoom, GoTo
<1>13. ASSUME NEW t \in Threads, NoRoom(t) PROVE Goal
  BY <1>13 DEF NoRoom, Return, GoTo
<1>14. ASSUME NEW t \in Threads, Store(t) PROVE Goal
  BY <1>14 DEF Store, Return, GoTo
<1>15. ASSUME NEW t \in Threads, EndDelete(t) PROVE Goal
  BY <1>15 DEF EndDelete, GoTo
<1>16. ASSUME NEW t \in Threads, Raises(t) PROVE Goal
  BY <1>16 DEF Raises, Return, GoTo
<1>17. CASE Restart
  BY <1>17 DEF Restart
<1>18. CASE UNCHANGED vars
  BY <1>18 DEF vars
<1> QED
  BY <1>1, <1>2, <1>3, <1>4, <1>5, <1>6, <1>7, <1>8, <1>9, <1>10, <1>11,
     <1>12, <1>13, <1>14, <1>15, <1>16, <1>17, <1>18
     DEF Next, Proceed

\* What is found and what is cached is of a connector that shares the key.
LEMMA AnswerStep == IInv /\ [Next]_vars => AnswerInv'
<1> SUFFICES ASSUME IInv, [Next]_vars PROVE AnswerInv'
  OBVIOUS
<1> DEFINE Goal == AnswerInv'
<1> USE ThreadsAssumption
<1> USE DEF IInv, TypeOK, CallInv, AnswerInv, AnswersAreOfConnector, Threads, local, Question, Connector,
            KeyOf
<1>1. ASSUME NEW c \in Connectors, IngestRequest(c) PROVE Goal
  BY <1>1 DEF IngestRequest, GoTo
<1>2. ASSUME NEW t \in Workers, NEW c \in Connectors, NEW q \in Questions, LookupRequest(t, c, q) PROVE Goal
  BY <1>2 DEF LookupRequest, GoTo
<1>3. ASSUME NEW t \in Threads, LookupHits(t) PROVE Goal
  <2>1. CASE t = Loop
    BY <1>3, <2>1 DEF LookupHits
  <2>2. CASE t \in Workers
    <3>1. KeyOf(t) = CacheKey(Connector(t), Question(t)) /\ Question(t) \in Questions
      BY <1>3, <2>2 DEF LookupHits
    <3>2. /\ \A x \in cache[KeyOf(t)] : x.of \in Sharing(KeyOf(t))
          /\ cache[KeyOf(t)] # {}
      BY <1>3, <3>1 DEF LookupHits, Calls, Keys
    <3> QED
      BY <1>3, <2>2, <3>2 DEF LookupHits, Return, GoTo
  <2> QED
    BY <2>1, <2>2
<1>4. ASSUME NEW t \in Threads, LookupMisses(t) PROVE Goal
  BY <1>4 DEF LookupMisses, GoTo
<1>5. ASSUME NEW t \in Threads, SearchFinds(t) PROVE Goal
  <2>1. ASSUME NEW S \in SUBSET RowsOf(Connector(t)), S # {}
        PROVE  Content(S) # {} /\ \A x \in Content(S) : x.of = Connector(t)
    <3>1. PICK r \in S : TRUE
      BY <2>1
    <3>2. [of |-> r.of, version |-> r.version] \in Content(S)
      BY DEF Content
    <3>3. ASSUME NEW x \in Content(S) PROVE x.of = Connector(t)
      <4>1. PICK y \in S : x = [of |-> y.of, version |-> y.version]
        BY <3>3 DEF Content
      <4> QED
        BY <4>1 DEF RowsOf
    <3> QED
      BY <3>2, <3>3
  <2>2. PICK S \in SUBSET RowsOf(Connector(t)) :
          S # {} /\ found' = [found EXCEPT ![t] = Content(S)]
    BY <1>5 DEF SearchFinds
  <2>3. /\ \A s \in Threads : found'[s] = IF s = t THEN Content(S) ELSE found[s]
        /\ Content(S) # {}
        /\ \A x \in Content(S) : x.of = Connector(t)
    BY <2>1, <2>2
  <2>4. Connector(t) \in Sharing(KeyOf(t))
    BY <1>5 DEF SearchFinds, Sharing, Calls
  <2> QED
    BY <1>5, <2>3, <2>4 DEF SearchFinds, GoTo
<1>6. ASSUME NEW t \in Threads, SearchIngests(t) PROVE Goal
  BY <1>6 DEF SearchIngests, GoTo
<1>7. ASSUME NEW t \in Threads, Crawl(t) PROVE Goal
  BY <1>7 DEF Crawl, GoTo
<1>8. ASSUME NEW t \in Threads, BeginDelete(t) PROVE Goal
  BY <1>8 DEF BeginDelete, GoTo
<1>9. ASSUME NEW t \in Threads, Commit(t) PROVE Goal
  BY <1>9 DEF Commit, GoTo
<1>10. ASSUME NEW t \in Threads, BeginSweep(t) PROVE Goal
  BY <1>10 DEF BeginSweep, GoTo
<1>11. ASSUME NEW t \in Threads, EndSweep(t) PROVE Goal
  <2>1. cache' = cache
    BY <1>11 DEF EndSweep, KeysToRemove
  <2>2. CASE Question(t) = NoQuestion
    <3>1. Return(t, TRUE) /\ UNCHANGED <<call, found>>
      BY <1>11, <2>2 DEF EndSweep
    <3>2. t \notin Workers
      BY <1>11, <2>2, QuestionsAssumption DEF EndSweep
    <3> QED
      BY <2>1, <3>1, <3>2 DEF Return, GoTo
  <2>3. CASE Question(t) # NoQuestion
    <3>1. UNCHANGED <<call, found, answered>> /\ pc' = [pc EXCEPT ![t] = "lookup"]
      BY <1>11, <2>3 DEF EndSweep, GoTo
    <3> QED
      BY <2>1, <3>1
  <2> QED
    BY <2>2, <2>3
<1>12. ASSUME NEW t \in Threads, CheckRoom(t) PROVE Goal
  BY <1>12 DEF CheckRoom, GoTo
<1>13. ASSUME NEW t \in Threads, NoRoom(t) PROVE Goal
  BY <1>13 DEF NoRoom, Return, GoTo
<1>14. ASSUME NEW t \in Threads, Store(t) PROVE Goal
  <2>1. t \in Workers
    BY <1>14 DEF Store
  <2>2. cache' = [cache EXCEPT ![KeyOf(t)] = found[t]]
    BY <1>14 DEF Store
  <2>3. ASSUME NEW k \in Keys, NEW x \in cache'[k] PROVE x.of \in Sharing(k)
    BY <2>1, <2>2, <2>3
  <2> QED
    BY <1>14, <2>3 DEF Store, Return, GoTo
<1>15. ASSUME NEW t \in Threads, EndDelete(t) PROVE Goal
  BY <1>15 DEF EndDelete, GoTo
<1>16. ASSUME NEW t \in Threads, Raises(t) PROVE Goal
  BY <1>16 DEF Raises, Return, GoTo
<1>17. CASE Restart
  BY <1>17 DEF Restart, Keys
<1>18. CASE UNCHANGED vars
  BY <1>18 DEF vars
<1> QED
  BY <1>1, <1>2, <1>3, <1>4, <1>5, <1>6, <1>7, <1>8, <1>9, <1>10, <1>11,
     <1>12, <1>13, <1>14, <1>15, <1>16, <1>17, <1>18
     DEF Next, Proceed

\* A DELETE that nobody overlaps dooms every row of its connector.
LEMMA IngestStep == IInv /\ [Next]_vars => IngestInv'
<1> SUFFICES ASSUME IInv, [Next]_vars PROVE IngestInv'
  OBVIOUS
<1> DEFINE Goal == IngestInv'
<1> USE DEF IInv, TypeOK, IngestInv, Transacting, local, Connector, RowsOf
<1>1. ASSUME NEW c \in Connectors, IngestRequest(c) PROVE Goal
  BY <1>1 DEF IngestRequest, GoTo
<1>2. ASSUME NEW t \in Workers, NEW c \in Connectors, NEW q \in Questions, LookupRequest(t, c, q) PROVE Goal
  BY <1>2 DEF LookupRequest, GoTo
<1>3. ASSUME NEW t \in Threads, LookupHits(t) PROVE Goal
  BY <1>3 DEF LookupHits, Return, GoTo
<1>4. ASSUME NEW t \in Threads, LookupMisses(t) PROVE Goal
  BY <1>4 DEF LookupMisses, GoTo
<1>5. ASSUME NEW t \in Threads, SearchFinds(t) PROVE Goal
  BY <1>5 DEF SearchFinds, GoTo
<1>6. ASSUME NEW t \in Threads, SearchIngests(t) PROVE Goal
  BY <1>6 DEF SearchIngests, GoTo
<1>7. ASSUME NEW t \in Threads, Crawl(t) PROVE Goal
  BY <1>7 DEF Crawl, GoTo
<1>8. ASSUME NEW t \in Threads, BeginDelete(t) PROVE Goal
  <2>1. /\ pc' = [pc EXCEPT ![t] = "deleting"] /\ UNCHANGED <<rows, call>>
        /\ doomed' = [doomed EXCEPT ![t] = RowsOf(Connector(t))]
        /\ pc[t] = "crawled"
    BY <1>8 DEF BeginDelete, GoTo
  <2>2. /\ alone'[t] => Transacting(Connector(t)) = {}
        /\ \A s \in Threads \ {t} : alone'[s] => alone[s] /\ s \notin Transacting(Connector(t))
    BY <1>8 DEF BeginDelete
  <2>3. ASSUME NEW s \in Threads, pc'[s] \in {"deleting", "deleted"}
        PROVE  /\ \A r \in doomed'[s] : r.of = Connector(s)'
               /\ alone'[s] => RowsOf(Connector(s))' \subseteq doomed'[s]
                                   /\ Transacting(Connector(s))' = {s}
    <3>1. CASE s = t
      BY <2>1, <2>2, <3>1
    <3>2. CASE s # t
      BY <2>1, <2>2, <2>3, <3>2
    <3> QED
      BY <3>1, <3>2
  <2> QED
    BY <2>3
<1>9. ASSUME NEW t \in Threads, Commit(t) PROVE Goal
  BY <1>9 DEF Commit, GoTo
<1>10. ASSUME NEW t \in Threads, BeginSweep(t) PROVE Goal
  BY <1>10 DEF BeginSweep, GoTo
<1>11. ASSUME NEW t \in Threads, EndSweep(t) PROVE Goal
  BY <1>11 DEF EndSweep, Return, GoTo
<1>12. ASSUME NEW t \in Threads, CheckRoom(t) PROVE Goal
  BY <1>12 DEF CheckRoom, GoTo
<1>13. ASSUME NEW t \in Threads, NoRoom(t) PROVE Goal
  BY <1>13 DEF NoRoom, Return, GoTo
<1>14. ASSUME NEW t \in Threads, Store(t) PROVE Goal
  BY <1>14 DEF Store, Return, GoTo
<1>15. ASSUME NEW t \in Threads, EndDelete(t) PROVE Goal
  BY <1>15 DEF EndDelete, GoTo
<1>16. ASSUME NEW t \in Threads, Raises(t) PROVE Goal
  BY <1>16 DEF Raises, Return, GoTo
<1>17. CASE Restart
  BY <1>17 DEF Restart
<1>18. CASE UNCHANGED vars
  BY <1>18 DEF vars
<1> QED
  BY <1>1, <1>2, <1>3, <1>4, <1>5, <1>6, <1>7, <1>8, <1>9, <1>10, <1>11,
     <1>12, <1>13, <1>14, <1>15, <1>16, <1>17, <1>18
     DEF Next, Proceed

\* Each thread that is about to store an entry has found room for one.
LEMMA RoomStep == IInv /\ [Next]_vars => RoomInv'
<1> SUFFICES ASSUME IInv, [Next]_vars PROVE RoomInv'
  OBVIOUS
<1> DEFINE Goal == RoomInv'
<1> USE ThreadsAssumption, BoundsAssumption
<1> USE DEF IInv, TypeOK, CallInv, RoomInv, Threads, local
<1>1. ASSUME NEW c \in Connectors, IngestRequest(c) PROVE Goal
  BY <1>1 DEF IngestRequest, GoTo, Cached, Storing
<1>2. ASSUME NEW t \in Workers, NEW c \in Connectors, NEW q \in Questions, LookupRequest(t, c, q) PROVE Goal
  BY <1>2 DEF LookupRequest, GoTo, Cached, Storing
<1>3. ASSUME NEW t \in Threads, LookupHits(t) PROVE Goal
  BY <1>3 DEF LookupHits, Return, GoTo, Cached, Storing
<1>4. ASSUME NEW t \in Threads, LookupMisses(t) PROVE Goal
  BY <1>4 DEF LookupMisses, GoTo, Cached, Storing
<1>5. ASSUME NEW t \in Threads, SearchFinds(t) PROVE Goal
  BY <1>5 DEF SearchFinds, GoTo, Cached, Storing
<1>6. ASSUME NEW t \in Threads, SearchIngests(t) PROVE Goal
  BY <1>6 DEF SearchIngests, GoTo, Cached, Storing
<1>7. ASSUME NEW t \in Threads, Crawl(t) PROVE Goal
  BY <1>7 DEF Crawl, GoTo, Cached, Storing
<1>8. ASSUME NEW t \in Threads, BeginDelete(t) PROVE Goal
  BY <1>8 DEF BeginDelete, GoTo, Cached, Storing
<1>9. ASSUME NEW t \in Threads, Commit(t) PROVE Goal
  BY <1>9 DEF Commit, GoTo, Cached, Storing
<1>10. ASSUME NEW t \in Threads, BeginSweep(t) PROVE Goal
  BY <1>10 DEF BeginSweep, GoTo, Cached, Storing
<1>11. ASSUME NEW t \in Threads, EndSweep(t) PROVE Goal
  <2>1. cache' = cache
    BY <1>11 DEF EndSweep, KeysToRemove
  <2>2. pc[t] = "sweeping" /\ \E s \in Stages \ {"storing"} : pc' = [pc EXCEPT ![t] = s]
    BY <1>11 DEF EndSweep, Return, GoTo, Stages
  <2>3. Storing' = Storing /\ Cached' = Cached
    BY <2>1, <2>2 DEF Storing, Cached
  <2> QED
    BY <2>3
<1>12. ASSUME NEW t \in Threads, CheckRoom(t) PROVE Goal
  <2>1. Cached' = Cached /\ Cardinality(Cached) < MaxCache
    BY <1>12 DEF CheckRoom, Cached, HasRoom
  <2>2. Cardinality(Storing') \in Nat /\ Cardinality(Storing') <= Cardinality(Workers)
    BY FS_Subset, FS_CardinalityType DEF Storing
  <2>3. Cardinality(Cached) \in Nat /\ Cardinality(Workers) \in Nat
    BY FS_CardinalityType
  <2>4. Cardinality(Cached') <= MaxCache - 1
    BY <2>1, <2>3
  <2>5. Cardinality(Cached') + Cardinality(Storing') <= MaxCache - 1 + Cardinality(Workers)
    BY <2>1, <2>2, <2>3, <2>4
  <2> QED
    BY <2>1, <2>5
<1>13. ASSUME NEW t \in Threads, NoRoom(t) PROVE Goal
  BY <1>13 DEF NoRoom, Return, GoTo, Cached, Storing
<1>14. ASSUME NEW t \in Threads, Store(t) PROVE Goal
  <2>1. t \in Workers /\ Storing' = Storing \ {t} /\ t \in Storing
    BY <1>14 DEF Store, Return, GoTo, Storing
  <2>2. IsFiniteSet(Storing) /\ Cardinality(Storing') = Cardinality(Storing) - 1
    <3>1. IsFiniteSet(Storing)
      BY FS_Subset DEF Storing
    <3> QED
      BY <2>1, <3>1, FS_RemoveElement
  <2>3. Cached' \subseteq Cached \cup {KeyOf(t)}
    BY <1>14 DEF Store, Cached
  <2>4. /\ IsFiniteSet(Cached \cup {KeyOf(t)})
        /\ Cardinality(Cached \cup {KeyOf(t)}) <= Cardinality(Cached) + 1
    <3>1. Cardinality(Cached) \in Nat
      BY FS_CardinalityType
    <3>2. IsFiniteSet(Cached)
      OBVIOUS
    <3>3. /\ IsFiniteSet(Cached \cup {KeyOf(t)})
          /\ Cardinality(Cached \cup {KeyOf(t)})
                = IF KeyOf(t) \in Cached THEN Cardinality(Cached) ELSE Cardinality(Cached) + 1
      BY <3>2, FS_AddElement
    <3> QED
      BY <3>1, <3>3
  <2>5. IsFiniteSet(Cached') /\ Cardinality(Cached') <= Cardinality(Cached) + 1
    <3>1. /\ IsFiniteSet(Cached')
          /\ Cardinality(Cached') <= Cardinality(Cached \cup {KeyOf(t)})
      BY <2>3, <2>4, FS_Subset
    <3>2. /\ Cardinality(Cached') \in Nat /\ Cardinality(Cached) \in Nat
          /\ Cardinality(Cached \cup {KeyOf(t)}) \in Nat
      BY <2>4, <3>1, FS_CardinalityType
    <3> QED
      BY <2>4, <3>1, <3>2
  <2>6. /\ Cardinality(Cached) \in Nat /\ Cardinality(Storing) \in Nat
        /\ Cardinality(Workers) \in Nat /\ Cardinality(Cached') \in Nat
    BY <2>2, <2>5, FS_CardinalityType
  <2> QED
    BY <2>2, <2>5, <2>6
<1>15. ASSUME NEW t \in Threads, EndDelete(t) PROVE Goal
  BY <1>15 DEF EndDelete, GoTo, Cached, Storing
<1>16. ASSUME NEW t \in Threads, Raises(t) PROVE Goal
  BY <1>16 DEF Raises, Return, GoTo, Cached, Storing
<1>17. CASE Restart
  <2>1. Cached' = {} /\ Storing' = {}
    BY <1>17 DEF Restart, Cached, Storing
  <2>2. IsFiniteSet(Cached') /\ Cardinality(Cached') = 0 /\ Cardinality(Storing') = 0
    BY <2>1, FS_EmptySet
  <2>3. Cardinality(Workers) \in Nat
    BY FS_CardinalityType
  <2> QED
    BY <2>2, <2>3
<1>18. CASE UNCHANGED vars
  BY <1>18 DEF vars, Cached, Storing
<1> QED
  BY <1>1, <1>2, <1>3, <1>4, <1>5, <1>6, <1>7, <1>8, <1>9, <1>10, <1>11,
     <1>12, <1>13, <1>14, <1>15, <1>16, <1>17, <1>18
     DEF Next, Proceed

\* Steps that leave the rows alone and let no other thread into a transaction
\* leave the owners as they are.
LEMMA SameOwners ==
  ASSUME CopiesInv, rows' = rows,
         \A c \in Connectors : \A t \in Transacting(c)' :
             t \in Transacting(c) /\ doomed[t] \cap rows \subseteq doomed'[t]
  PROVE  CopiesInv'
<1> SUFFICES ASSUME NEW c \in Connectors PROVE \E owner : Owned(c, owner)'
  BY DEF CopiesInv
<1>1. PICK owner : Owned(c, owner)
  BY DEF CopiesInv
<1>2. RowsOf(c)' = RowsOf(c) /\ RowsOf(c) \subseteq rows
  BY DEF RowsOf
<1>3. Owned(c, owner)'
  BY <1>1, <1>2 DEF Owned
<1> QED
  BY <1>3

\* Every step leaves each row an owner of its own.
LEMMA CopiesStep == IInv /\ [Next]_vars => CopiesInv'
<1> SUFFICES ASSUME IInv, [Next]_vars PROVE CopiesInv'
  OBVIOUS
<1> DEFINE Goal == CopiesInv'
<1>a. /\ pc \in [Threads -> Stages] /\ call \in [Threads -> Calls]
      /\ doomed \in [Threads -> SUBSET Batches]
      /\ \A t \in Threads : Connector(t) \in Connectors
      /\ CopiesInv /\ IngestInv
  BY DEF IInv, TypeOK, Connector, Calls
<1> USE DEF Stages, Transacting, Connector, local
<1>1. ASSUME NEW c \in Connectors, IngestRequest(c) PROVE Goal
  BY <1>1, <1>a, SameOwners DEF IngestRequest, GoTo
<1>2. ASSUME NEW t \in Workers, NEW c \in Connectors, NEW q \in Questions, LookupRequest(t, c, q) PROVE Goal
  BY <1>2, <1>a, SameOwners DEF LookupRequest, GoTo
<1>3. ASSUME NEW t \in Threads, LookupHits(t) PROVE Goal
  BY <1>3, <1>a, SameOwners DEF LookupHits, Return, GoTo
<1>4. ASSUME NEW t \in Threads, LookupMisses(t) PROVE Goal
  BY <1>4, <1>a, SameOwners DEF LookupMisses, GoTo
<1>5. ASSUME NEW t \in Threads, SearchFinds(t) PROVE Goal
  BY <1>5, <1>a, SameOwners DEF SearchFinds, GoTo
<1>6. ASSUME NEW t \in Threads, SearchIngests(t) PROVE Goal
  BY <1>6, <1>a, SameOwners DEF SearchIngests, GoTo
<1>7. ASSUME NEW t \in Threads, Crawl(t) PROVE Goal
  BY <1>7, <1>a, SameOwners DEF Crawl, GoTo
<1>8. ASSUME NEW t \in Threads, BeginDelete(t) PROVE Goal
  <2>1. /\ pc' = [pc EXCEPT ![t] = "deleting"] /\ UNCHANGED <<rows, call>>
        /\ doomed' = [doomed EXCEPT ![t] = RowsOf(Connector(t))]
    BY <1>8 DEF BeginDelete, GoTo
  <2> SUFFICES ASSUME NEW c \in Connectors PROVE \E owner : Owned(c, owner)'
    BY DEF CopiesInv
  <2>2. PICK owner : Owned(c, owner)
    BY <1>a DEF CopiesInv
  <2>3. RowsOf(c)' = RowsOf(c)
    BY <2>1 DEF RowsOf
  <2>4. ASSUME NEW s \in Transacting(c)', NEW r \in RowsOf(c), owner[r] = s
        PROVE  r \in doomed'[s]
    <3>1. CASE s = t
      BY <1>a, <2>1, <2>4, <3>1
    <3>2. CASE s # t
      BY <1>a, <2>1, <2>2, <2>4, <3>2 DEF Owned
    <3> QED
      BY <3>1, <3>2
  <2>5. Owned(c, owner)'
    BY <2>2, <2>3, <2>4 DEF Owned
  <2> QED
    BY <2>5
<1>9. ASSUME NEW t \in Threads, Commit(t) PROVE Goal
  <2>1. /\ pc[t] = "deleted" /\ pc' = [pc EXCEPT ![t] = "committed"] /\ call' = call
        /\ doomed' = [doomed EXCEPT ![t] = {}]
    BY <1>9 DEF Commit, GoTo
  <2>2. PICK new : /\ new.of = Connector(t)
                   /\ rows' \subseteq (rows \ doomed[t]) \cup {new}
    <3>1. CASE crawled[t] = 0
      <4> WITNESS [of |-> Connector(t)]
      <4> QED
        BY <1>9, <3>1 DEF Commit
    <3>2. CASE crawled[t] # 0
      BY <1>9, <3>2 DEF Commit
    <3> QED
      BY <3>1, <3>2
  <2> SUFFICES ASSUME NEW c \in Connectors PROVE \E owner : Owned(c, owner)'
    BY DEF CopiesInv
  <2>3. PICK owner : Owned(c, owner)
    BY <1>a DEF CopiesInv
  <2> DEFINE Heir == [r \in RowsOf(c)' |-> IF r = new THEN t ELSE owner[r]]
  <2>a. PICK heir : heir = Heir
    OBVIOUS
  <2>4. \A r \in RowsOf(c)' : r # new => r \in RowsOf(c) /\ r \notin doomed[t]
    BY <2>2 DEF RowsOf
  <2>5. \A r \in RowsOf(c)' : r # new => owner[r] \in Threads
    BY <2>3, <2>4 DEF Owned
  <2>6. \A r \in RowsOf(c)' : r = new => c = Connector(t)
    BY <2>2 DEF RowsOf
  <2>7. c = Connector(t) => \A r \in RowsOf(c)' : r # new => owner[r] # t
    BY <1>a, <2>1, <2>3, <2>4 DEF Owned
  <2>8. heir \in [RowsOf(c)' -> Threads]
    BY <2>5, <2>a
  <2>9. \A r, s \in RowsOf(c)' : heir[r] = heir[s] => r = s
    BY <2>3, <2>4, <2>6, <2>7, <2>a DEF Owned
  <2>10. ASSUME NEW s \in Transacting(c)', NEW r \in RowsOf(c)', heir[r] = s
         PROVE  r \in doomed'[s]
    <3>1. s # t /\ s \in Transacting(c)
      BY <1>a, <2>1
    <3>2. r # new /\ owner[r] = s
      BY <2>10, <2>a, <3>1
    <3> QED
      BY <1>a, <2>1, <2>3, <2>4, <3>1, <3>2 DEF Owned
  <2> HIDE DEF Heir
  <2>11. Owned(c, heir)'
    BY <2>8, <2>9, <2>10 DEF Owned
  <2> QED
    BY <2>11
<1>10. ASSUME NEW t \in Threads, BeginSweep(t) PROVE Goal
  BY <1>10, <1>a, SameOwners DEF BeginSweep, GoTo
<1>11. ASSUME NEW t \in Threads, EndSweep(t) PROVE Goal
  BY <1>11, <1>a, SameOwners DEF EndSweep, Return, GoTo
<1>12. ASSUME NEW t \in Threads, CheckRoom(t) PROVE Goal
  BY <1>12, <1>a, SameOwners DEF CheckRoom, GoTo
<1>13. ASSUME NEW t \in Threads, NoRoom(t) PROVE Goal
  BY <1>13, <1>a, SameOwners DEF NoRoom, Return, GoTo
<1>14. ASSUME NEW t \in Threads, Store(t) PROVE Goal
  BY <1>14, <1>a, SameOwners DEF Store, Return, GoTo
<1>15. ASSUME NEW t \in Threads, EndDelete(t) PROVE Goal
  BY <1>15, <1>a, SameOwners DEF EndDelete, GoTo
<1>16. ASSUME NEW t \in Threads, Raises(t) PROVE Goal
  BY <1>16, <1>a, SameOwners DEF Raises, Return, GoTo
<1>17. CASE Restart
  BY <1>17, <1>a, SameOwners DEF Restart
<1>18. CASE UNCHANGED vars
  BY <1>18, <1>a, SameOwners DEF vars
<1> QED
  BY <1>1, <1>2, <1>3, <1>4, <1>5, <1>6, <1>7, <1>8, <1>9, <1>10, <1>11,
     <1>12, <1>13, <1>14, <1>15, <1>16, <1>17, <1>18
     DEF Next, Proceed

-----------------------------------------------------------------------------
\* The process starts with an empty index and an empty cache.
LEMMA InitEstablishes == Init => IInv
<1> SUFFICES ASSUME Init PROVE IInv
  OBVIOUS
<1> USE VersionsAssumption, BoundsAssumption, ThreadsAssumption DEF Threads
<1>1. TypeOK
  BY DEF Init, TypeOK, Calls, Stages
<1>2. CallInv
  BY DEF Init, CallInv, Question
<1>3. AnswerInv
  BY DEF Init, AnswerInv, AnswersAreOfConnector, Keys
<1>4. IngestInv
  BY DEF Init, IngestInv
<1>5. RoomInv
  <2>1. Cached = {} /\ Storing = {}
    BY DEF Init, Cached, Storing
  <2>2. Cardinality(Workers) \in Nat
    BY FS_CardinalityType
  <2> QED
    BY <2>1, <2>2, FS_EmptySet DEF RoomInv
<1>6. CopiesInv
  <2> SUFFICES ASSUME NEW c \in Connectors PROVE \E owner : Owned(c, owner)
    BY DEF CopiesInv
  <2>1. RowsOf(c) = {}
    BY DEF Init, RowsOf
  <2>2. Owned(c, [r \in {} |-> Loop])
    BY <2>1 DEF Owned
  <2> QED
    BY <2>2
<1> QED
  BY <1>1, <1>2, <1>3, <1>4, <1>5, <1>6 DEF IInv

\* IInv holds in every reachable state.
THEOREM Invariance == Spec => []IInv
<1>1. IInv /\ [Next]_vars => IInv'
  BY TypeStep, CallStep, AnswerStep, IngestStep, RoomStep, CopiesStep DEF IInv
<1> QED
  BY <1>1, InitEstablishes, PTL DEF Spec

\* The variables of the index, the cache and the threads keep their types.
THEOREM TypesCorrect == Spec => []TypeOK
<1>1. IInv => TypeOK
  BY DEF IInv
<1> QED
  BY <1>1, Invariance, PTL

\* A lookup of get_relevant_tables returns tables of a connector that shares the
\* key of its question, and at least one, from the index or from the cache.
THEOREM AnswersBelong == Spec => []AnswersAreOfConnector
<1>1. IInv => AnswersAreOfConnector
  BY DEF IInv, AnswerInv
<1> QED
  BY <1>1, Invariance, PTL

\* The tables a lookup has found are those of the connector it asked for.
OwnTables == \A t \in Workers : \A x \in found[t] : x.of = Connector(t)

\* That they are its own takes connector ids of which none continues another at a
\* colon, which nothing in connectors/base.py makes sure of.
THEOREM AnswersAreOwn ==
    ASSUME \A c, d \in Connectors, q, r \in Questions :
               CacheKey(c, q) = CacheKey(d, r) => c = d
    PROVE  Spec => []OwnTables
<1>1. IInv => OwnTables
  <2> SUFFICES ASSUME IInv, NEW t \in Workers, NEW x \in found[t] PROVE x.of = Connector(t)
    BY DEF OwnTables
  <2>1. x.of \in Sharing(KeyOf(t)) /\ Question(t) \in Questions /\ Connector(t) \in Connectors
    BY DEF IInv, TypeOK, Calls, Connector, Threads, AnswerInv, AnswersAreOfConnector
  <2> QED
    BY <2>1 DEF Sharing, KeyOf
<1> QED
  BY <1>1, Invariance, PTL

\* Threads that checked the room before any of them stored its entry may exceed
\* the limit, each by one entry.
CacheBounded == Cardinality(Cached) <= MaxCache + Cardinality(Workers) - 1

\* The check of the room that is not atomic with the store lets the cache grow
\* beyond its limit by less than one entry per worker.
THEOREM CacheStaysBounded == Spec => []CacheBounded
<1>1. IInv => CacheBounded
  <2> SUFFICES ASSUME IInv PROVE CacheBounded
    OBVIOUS
  <2>1. IsFiniteSet(Storing)
    BY ThreadsAssumption, FS_Subset DEF Storing
  <2>2. /\ Cardinality(Storing) \in Nat /\ Cardinality(Cached) \in Nat
        /\ Cardinality(Workers) \in Nat
    BY <2>1, ThreadsAssumption, FS_CardinalityType DEF IInv, RoomInv
  <2> QED
    BY <2>2, BoundsAssumption DEF IInv, RoomInv, CacheBounded
<1> QED
  BY <1>1, Invariance, PTL

\* However ingestions of a connector overlap, there are no more copies of its
\* schema than threads: each thread's own copy is doomed before it inserts the
\* next one (ingestor.py, ingest_schema).
THEOREM CopiesStayBounded == Spec => []CopiesBounded
<1>1. IInv => CopiesBounded
  <2> SUFFICES ASSUME IInv, NEW c \in Connectors
               PROVE  Cardinality(RowsOf(c)) <= Cardinality(Threads)
    BY DEF CopiesBounded
  <2>1. PICK owner : Owned(c, owner)
    BY DEF IInv, CopiesInv
  <2>2. owner \in Injection(RowsOf(c), Threads)
    BY <2>1 DEF Owned, Injection, IsInjective
  <2>3. IsFiniteSet(Threads)
    BY ThreadsAssumption, FS_AddElement DEF Threads
  <2> QED
    BY <2>2, <2>3, FS_Injection
<1> QED
  BY <1>1, Invariance, PTL

\* An ingestion that is not overlapped leaves no earlier row of its connector.
THEOREM ReplacesAll == Spec => AloneReplacesAll
<1> DEFINE Clean(t) ==
      pc[t] = "deleted" /\ pc'[t] = "committed" /\ alone[t] =>
        \A r \in rows' : r.of = Connector(t) => r \notin rows
<1>1. ASSUME IInv, Next, NEW t \in Threads PROVE Clean(t)
  <2> SUFFICES ASSUME pc[t] = "deleted", pc'[t] = "committed", alone[t],
                      NEW r \in rows', r.of = Connector(t), r \in rows
               PROVE  FALSE
    OBVIOUS
  <2>1. Commit(t)
    <3>1. pc \in [Threads -> Stages]
      BY <1>1 DEF IInv, TypeOK
    <3>2. ASSUME NEW c \in Connectors, IngestRequest(c) PROVE FALSE
      BY <3>1, <3>2 DEF IngestRequest, GoTo, local, Threads
    <3>3. ASSUME NEW s \in Workers, NEW c \in Connectors, NEW q \in Questions,
                 LookupRequest(s, c, q)
          PROVE  FALSE
      BY <3>1, <3>3 DEF LookupRequest, GoTo, Threads
    <3>4. ASSUME NEW s \in Threads, Proceed(s) \/ EndDelete(s) \/ Raises(s) PROVE Commit(t)
      <4>1. CASE Commit(s)
        BY <3>1, <4>1 DEF Commit, GoTo
      <4>2. CASE ~Commit(s)
        <5>1. \E x \in Stages \ {"committed"} : pc' = [pc EXCEPT ![s] = x]
          BY <3>4, <4>2 DEF Proceed, LookupHits, LookupMisses, SearchFinds, SearchIngests, Crawl,
            BeginDelete, BeginSweep, EndSweep, CheckRoom, NoRoom, Store, EndDelete, Raises,
            Return, GoTo, Stages
        <5> QED
          BY <3>1, <5>1
      <4> QED
        BY <4>1, <4>2
    <3> QED
      BY <1>1, <3>1, <3>2, <3>3, <3>4 DEF Next, Restart
  <2>2. r \in doomed[t]
    BY <1>1 DEF IInv, IngestInv, RowsOf
  <2>3. \A x \in rows' : x \in rows => x \notin doomed[t]
    <3>1. CASE crawled[t] = 0
      BY <2>1, <3>1 DEF Commit
    <3>2. CASE crawled[t] # 0
      <4>1. PICK i \in FreshIds(Connector(t)) : rows' = (rows \ doomed[t])
                  \cup {[id |-> i, of |-> Connector(t), version |-> crawled[t]]}
        BY <2>1, <3>2 DEF Commit
      <4>2. [id |-> i, of |-> Connector(t), version |-> crawled[t]] \notin rows
        BY DEF FreshIds, TakenIds
      <4> QED
        BY <4>1, <4>2
    <3> QED
      BY <3>1, <3>2
  <2> QED
    BY <2>2, <2>3
<1>2. IInv /\ [Next]_vars => [\A t \in Threads : Clean(t)]_vars
  BY <1>1
<1> QED
  BY <1>2, Invariance, PTL DEF Spec, AloneReplacesAll

\* A reader never finds the index of a connector emptied by an ingestion that
\* is still going on; only a source without tables empties it.
THEOREM NeverEmptied == Spec => OnlyEmptySourcesEmpty
<1> DEFINE ByCommit(c) == \E t \in Threads :
      pc[t] = "deleted" /\ pc'[t] = "committed" /\ Connector(t) = c /\ crawled[t] = 0
<1> DEFINE Emptied(c) == RowsOf(c) # {} /\ {r \in rows' : r.of = c} = {} => ByCommit(c)
<1>1. ASSUME IInv, Next, NEW c \in Connectors PROVE Emptied(c)
  <2> SUFFICES ASSUME RowsOf(c) # {}, {r \in rows' : r.of = c} = {} PROVE ByCommit(c)
    OBVIOUS
  <2>1. PICK r \in rows : r.of = c
    BY DEF RowsOf
  <2>2. r \notin rows'
    BY <2>1
  <2>3. PICK t \in Threads : Commit(t)
    BY <1>1, <2>1, <2>2 DEF Next, Proceed, Threads, IngestRequest, LookupRequest,
      LookupHits, LookupMisses, SearchFinds, SearchIngests, Crawl, BeginDelete, BeginSweep,
      EndSweep, CheckRoom, NoRoom, Store, EndDelete, Raises, Return, GoTo, Restart
  <2>4. r \in doomed[t]
    BY <2>1, <2>2, <2>3 DEF Commit
  <2>5. Connector(t) = c
    BY <1>1, <2>1, <2>3, <2>4 DEF IInv, IngestInv, Commit
  <2>6. crawled[t] = 0
    <3> SUFFICES ASSUME crawled[t] # 0 PROVE FALSE
      OBVIOUS
    <3>1. PICK i \in FreshIds(Connector(t)) : rows' = (rows \ doomed[t])
                \cup {[id |-> i, of |-> Connector(t), version |-> crawled[t]]}
      BY <2>3 DEF Commit
    <3> DEFINE b == [id |-> i, of |-> Connector(t), version |-> crawled[t]]
    <3>2. b \in rows' /\ b.of = c
      BY <2>5, <3>1
    <3> QED
      BY <3>2
  <2>7. pc[t] = "deleted" /\ pc'[t] = "committed"
    BY <1>1, <2>3 DEF IInv, TypeOK, Commit, GoTo
  <2> QED
    BY <2>5, <2>6, <2>7
<1>2. IInv /\ [Next]_vars => [\A c \in Connectors : Emptied(c)]_vars
  BY <1>1
<1> QED
  BY <1>2, Invariance, PTL DEF Spec, OnlyEmptySourcesEmpty
=============================================================================
