------------------------- MODULE ParallelPoolProofs -------------------------
(***************************************************************************)
(* Proofs about ParallelPool for any runs, sessions and number of threads. *)
(* IInv ties the future of every task to the position of the thread that   *)
(* submitted it: untouched before, pending until the wait for it is over   *)
(* or the run has failed, done after.  That the queue holds every queued   *)
(* task once keeps a task from running twice.                              *)
(***************************************************************************)
EXTENDS ParallelPool, FiniteSetTheorems, SequenceTheorems, TLAPS

States == {"none", "queued", "running", "done", "raised"}

Types ==
    /\ pc \in [Runs -> Positions]
    /\ session \in [Runs -> Sessions]
    /\ rows \in [Runs -> {"unknown", "some", "empty"}]
    /\ future \in [Runs -> [Kinds -> States]]
    /\ queue \in Seq(Tasks)
    /\ saved \in SUBSET Runs
    /\ recalled \in [Runs -> SUBSET Runs]

QueueInv ==
    /\ \A i \in 1..Len(queue) : future[queue[i][1]][queue[i][2]] = "queued"
    /\ \A i, j \in 1..Len(queue) : queue[i] = queue[j] => i = j

\* Where the thread of a run is before it has submitted task k,
Before(k) ==
    {"route", "ask_memory"}
    \union (IF k = "memory" THEN {} ELSE {"ask_schema"})
    \union (IF k \in Recalls THEN {}
            ELSE {"await_memory", "await_schema", "plan", "compute", "output", "ask_insight"})
    \union (IF k \in {"anomaly", "chart", "write"} THEN {"ask_anomaly"} ELSE {})
    \union (IF k \in {"chart", "write"} THEN {"ask_chart"} ELSE {})
    \union (IF k = "write" THEN {"await_insight", "await_anomaly", "await_chart", "record"}
            ELSE {})

\* and where it is while the task is in the queue or on a thread.
During(k) ==
    IF k = "memory" THEN {"ask_schema", "await_memory", "failed"}
    ELSE IF k = "schema" THEN {"await_memory", "await_schema", "failed"}
    ELSE IF k = "insight" THEN {"ask_anomaly", "ask_chart", "await_insight", "failed"}
    ELSE IF k = "anomaly" THEN {"ask_chart", "await_insight", "await_anomaly", "failed"}
    ELSE IF k = "chart" THEN {"await_insight", "await_anomaly", "await_chart", "failed"}
    ELSE {"return", "answered"}

\* Where its result is known to be there.
Got(k) ==
    IF k = "memory" THEN {"await_schema", "plan"}
    ELSE IF k = "schema" THEN {"plan"}
    ELSE IF k = "insight" THEN {"await_anomaly", "await_chart"}
    ELSE IF k = "anomaly" THEN {"await_chart"}
    ELSE {}

FutureInv ==
    \A r \in Runs, k \in Kinds :
        /\ pc[r] \in Before(k) => future[r][k] = "none"
        /\ future[r][k] \in {"queued", "running"} => pc[r] \in During(k)
        /\ pc[r] \in Got(k) => future[r][k] = "done"

RowsInv ==
    \A r \in Runs :
        /\ pc[r] \in Planning \union {"compute"} => rows[r] = "unknown"
        /\ pc[r] = "output" => rows[r] # "unknown"
        /\ pc[r] \in {"ask_insight", "ask_anomaly", "ask_chart",
                      "await_insight", "await_anomaly", "await_chart"} => rows[r] = "some"

SavedInv == saved \subseteq Presented

IInv ==
    /\ Types
    /\ Cardinality(Busy) <= MaxWorkers
    /\ QueueInv
    /\ FutureInv
    /\ RowsInv
    /\ SavedInv
    /\ RecallsOnlyPresented

-----------------------------------------------------------------------------
\* The pool starts empty.
LEMMA InitEstablishes == Init => IInv
<1> SUFFICES ASSUME Init PROVE IInv
  OBVIOUS
<1>1. Types
  BY DEF Init, Types, Positions, Submits, Waits, States, Kinds
<1>2. Cardinality(Busy) <= MaxWorkers
  <2>1. Busy = {}
    BY DEF Init, Busy, Tasks
  <2> QED
    BY <2>1, FS_EmptySet, PoolAssumption
<1>3. QueueInv
  BY DEF Init, QueueInv
<1>4. FutureInv
  BY DEF Init, FutureInv, During, Got
<1>5. RowsInv /\ SavedInv /\ RecallsOnlyPresented
  BY DEF Init, RowsInv, SavedInv, RecallsOnlyPresented, Planning
<1> QED
  BY <1>1, <1>2, <1>3, <1>4, <1>5 DEF IInv

\* The task a thread takes is a queued one.
LEMMA HeadIsQueued ==
  ASSUME Types, QueueInv, Take
  PROVE  \E r \in Runs, k \in Kinds :
             /\ Head(queue) = <<r, k>>
             /\ future[r][k] = "queued"
             /\ future' = [future EXCEPT ![r][k] = "running"]
<1>1. Head(queue) \in Tasks /\ Head(queue) = queue[1] /\ Len(queue) \in Nat /\ Len(queue) > 0
  BY HeadTailProperties, LenProperties DEF Types, Take
<1>2. PICK r \in Runs, k \in Kinds : Head(queue) = <<r, k>>
  BY <1>1 DEF Tasks
<1>3. future[r][k] = "queued"
  BY <1>1, <1>2 DEF QueueInv
<1>4. Head(queue)[1] = r /\ Head(queue)[2] = k
  BY <1>2
<1>5. future' = [future EXCEPT ![Head(queue)[1]][Head(queue)[2]] = "running"]
  BY DEF Take
<1>6. future' = [future EXCEPT ![r][k] = "running"]
  BY <1>4, <1>5
<1> QED
  BY <1>2, <1>3, <1>6

\* The positions of a run, written out.
LEMMA AllPositions ==
    Positions = {"route", "ask_memory", "ask_schema", "await_memory", "await_schema",
                 "plan", "compute", "output", "ask_insight", "ask_anomaly", "ask_chart",
                 "await_insight", "await_anomaly", "await_chart", "record", "return",
                 "answered", "failed"}
  BY DEF Positions, Submits, Waits

\* Every step keeps the types.
LEMMA TypesStep == IInv /\ [Next]_vars => Types'
<1> SUFFICES ASSUME IInv, [Next]_vars PROVE Types'
  OBVIOUS
<1> DEFINE Goal == Types'
<1> USE DEF IInv, Types, Goto, Positions, Submits, Waits, States
<1>1. ASSUME NEW r \in Runs, Route(r) PROVE Goal
  BY <1>1 DEF Route
<1>2. ASSUME NEW r \in Runs, Submit(r) PROVE Goal
  <2>1. PICK s \in Submits : /\ pc[r] = s[1]
                             /\ future' = [future EXCEPT ![r][s[2]] = "queued"]
                             /\ queue' = Append(queue, <<r, s[2]>>)
                             /\ pc' = [pc EXCEPT ![r] = s[3]]
                             /\ UNCHANGED <<session, rows, saved, recalled>>
    BY <1>2 DEF Submit
  <2>2. s[2] \in Kinds
    BY DEF Kinds, Recalls, Outputs
  <2>3. queue' \in Seq(Tasks)
    BY <2>1, <2>2, AppendProperties DEF Tasks
  <2> QED
    BY <2>1, <2>2, <2>3
<1>3. ASSUME NEW r \in Runs, AwaitReturns(r) PROVE Goal
  BY <1>3 DEF AwaitReturns
<1>4. ASSUME NEW r \in Runs, AwaitRaises(r) \/ AwaitTimesOut(r) PROVE Goal
  BY <1>4 DEF AwaitRaises, AwaitTimesOut
<1>5. ASSUME NEW r \in Runs, Plan(r) \/ Compute(r) \/ Output(r) \/ Return(r) PROVE Goal
  <2> HIDE DEF Positions
  <2>1. ASSUME Plan(r) \/ Return(r) PROVE Goal
    BY <2>1, AllPositions DEF Plan, Return
  <2>2. ASSUME Compute(r) PROVE Goal
    BY <2>2, AllPositions DEF Compute
  <2>3. ASSUME Output(r) PROVE Goal
    BY <2>3, AllPositions DEF Output
  <2> QED
    BY <1>5, <2>1, <2>2, <2>3
<1>6. CASE Take
  <2>1. queue' \in Seq(Tasks)
    BY <1>6, HeadTailProperties DEF Take
  <2> QED
    BY <1>6, <2>1, HeadIsQueued DEF Take
<1>7. ASSUME NEW r \in Runs, NEW k \in Kinds, TaskReturns(r, k) PROVE Goal
  BY <1>7 DEF TaskReturns, Write, Remember
<1>8. ASSUME NEW r \in Runs, NEW k \in Kinds, TaskRaises(r, k) PROVE Goal
  BY <1>8 DEF TaskRaises
<1>9. CASE UNCHANGED vars
  BY <1>9 DEF vars
<1> QED
  BY <1>1, <1>2, <1>3, <1>4, <1>5, <1>6, <1>7, <1>8, <1>9 DEF Next, RunStep, PoolStep, Tasks

\* No step makes more tasks run than there are threads.
LEMMA CapacityStep == IInv /\ [Next]_vars => (Cardinality(Busy) <= MaxWorkers)'
<1> SUFFICES ASSUME IInv, [Next]_vars PROVE Cardinality(Busy') <= MaxWorkers
  OBVIOUS
<1>1. IsFiniteSet(Busy)
  <2>1. IsFiniteSet(Kinds)
    <3>1. IsFiniteSet({"memory"} \union {"schema"})
      BY FS_Singleton, FS_Union
    <3>2. IsFiniteSet(({"insight"} \union {"anomaly"}) \union {"chart"})
      <4>1. IsFiniteSet({"insight"} \union {"anomaly"})
        BY FS_Singleton, FS_Union
      <4> QED
        BY <4>1, FS_Singleton, FS_Union
    <3>3. IsFiniteSet(Recalls) /\ IsFiniteSet(Outputs)
      <4>1. /\ Recalls = {"memory"} \union {"schema"}
            /\ Outputs = ({"insight"} \union {"anomaly"}) \union {"chart"}
        BY DEF Recalls, Outputs
      <4> QED
        BY <3>1, <3>2, <4>1
    <3>4. IsFiniteSet(Recalls \union Outputs)
      BY <3>3, FS_Union
    <3> QED
      BY <3>4, FS_Singleton, FS_Union DEF Kinds
  <2>2. IsFiniteSet(Tasks)
    BY <2>1, PoolAssumption, FS_Product DEF Tasks
  <2>3. Busy \in SUBSET Tasks
    BY DEF Busy
  <2> QED
    BY <2>2, <2>3, FS_Subset
<1>2. Cardinality(Busy) \in Nat
  BY <1>1, FS_CardinalityType
<1>3. CASE Take
  <2>1. PICK r \in Runs, k \in Kinds : future' = [future EXCEPT ![r][k] = "running"]
    BY <1>3, HeadIsQueued DEF IInv
  <2>2. Busy' = Busy \union {<<r, k>>}
    BY <2>1 DEF IInv, Types, Busy, Tasks
  <2>3. Cardinality(Busy') = IF <<r, k>> \in Busy THEN Cardinality(Busy)
                             ELSE Cardinality(Busy) + 1
    BY <1>1, <2>2, FS_AddElement
  <2>4. Cardinality(Busy) < MaxWorkers
    BY <1>3 DEF Take
  <2> QED
    BY <1>2, <2>3, <2>4, PoolAssumption
<1>4. CASE ~Take
  <2> DEFINE Goal == Busy' \in SUBSET Busy
  <2> USE DEF IInv, Types, Busy, Tasks
  <2>1. ASSUME NEW r \in Runs, Submit(r) PROVE Goal
    BY <2>1 DEF Submit, Submits
  <2>2. ASSUME NEW r \in Runs, NEW k \in Kinds, TaskReturns(r, k) \/ TaskRaises(r, k) PROVE Goal
    BY <2>2 DEF TaskReturns, TaskRaises
  <2>3. CASE UNCHANGED future
    BY <2>3
  <2>4. Goal
    BY <1>4, <2>1, <2>2, <2>3
       DEF Next, RunStep, PoolStep, Route, AwaitReturns, AwaitRaises, AwaitTimesOut,
           Plan, Compute, Output, Return, vars
  <2> QED
    BY <1>1, <1>2, <2>4, FS_Subset, FS_CardinalityType, PoolAssumption
<1> QED
  BY <1>3, <1>4

\* A run submits a task that was never submitted before.
LEMMA SubmitsOnce ==
  ASSUME IInv, NEW r \in Runs, Submit(r)
  PROVE  \E s \in Submits :
             /\ s[2] \in Kinds
             /\ pc[r] = s[1]
             /\ future[r][s[2]] = "none"
             /\ future' = [future EXCEPT ![r][s[2]] = "queued"]
             /\ queue' = Append(queue, <<r, s[2]>>)
             /\ pc' = [pc EXCEPT ![r] = s[3]]
             /\ UNCHANGED <<session, rows, saved, recalled>>
<1>1. PICK s \in Submits : /\ pc[r] = s[1]
                           /\ future' = [future EXCEPT ![r][s[2]] = "queued"]
                           /\ queue' = Append(queue, <<r, s[2]>>)
                           /\ pc' = [pc EXCEPT ![r] = s[3]]
                           /\ UNCHANGED <<session, rows, saved, recalled>>
  BY DEF Submit, Goto
<1>2. s[2] \in Kinds
  BY DEF Submits, Kinds, Recalls, Outputs
<1>3. s[1] \in Before(s[2])
  BY DEF Submits, Before, Recalls
<1>4. future[r][s[2]] = "none"
  BY <1>1, <1>2, <1>3 DEF IInv, FutureInv
<1> QED
  BY <1>1, <1>2, <1>4

\* The queue holds the queued tasks, each once.
LEMMA QueueStep == IInv /\ [Next]_vars => QueueInv'
<1> SUFFICES ASSUME IInv, [Next]_vars PROVE QueueInv'
  OBVIOUS
<1> DEFINE Goal == QueueInv'
<1>0. queue \in Seq(Tasks) /\ future \in [Runs -> [Kinds -> States]] /\ QueueInv
  BY DEF IInv, Types
<1>00. Len(queue) \in Nat /\ \A i \in 1..Len(queue) : queue[i] \in Tasks
  BY <1>0, LenProperties, ElementOfSeq
<1>1. ASSUME NEW r \in Runs, Submit(r) PROVE Goal
  <2>1. PICK s \in Submits : /\ s[2] \in Kinds
                             /\ future[r][s[2]] = "none"
                             /\ future' = [future EXCEPT ![r][s[2]] = "queued"]
                             /\ queue' = Append(queue, <<r, s[2]>>)
    BY <1>1, SubmitsOnce
  <2>2. <<r, s[2]>> \in Tasks
    BY <2>1 DEF Tasks
  <2>3. /\ Len(queue') = Len(queue) + 1
        /\ \A i \in 1..Len(queue) : queue'[i] = queue[i]
        /\ queue'[Len(queue) + 1] = <<r, s[2]>>
    BY <1>0, <2>1, <2>2, AppendProperties
  <2>4. \A i \in 1..Len(queue) : queue[i] # <<r, s[2]>>
    BY <1>0, <2>1 DEF QueueInv
  <2>5. \A i \in 1..Len(queue) : future'[queue[i][1]][queue[i][2]] = "queued"
    <3> SUFFICES ASSUME NEW i \in 1..Len(queue)
                 PROVE  future'[queue[i][1]][queue[i][2]] = "queued"
      OBVIOUS
    <3>1. PICK q \in Runs, k \in Kinds : queue[i] = <<q, k>>
      BY <1>00 DEF Tasks
    <3> QED
      BY <1>0, <2>1, <2>4, <3>1 DEF QueueInv
  <2>6. future'[r][s[2]] = "queued"
    BY <1>0, <2>1
  <2>7. \A i \in 1..Len(queue') : future'[queue'[i][1]][queue'[i][2]] = "queued"
    BY <1>00, <2>3, <2>5, <2>6
  <2>8. \A i, j \in 1..Len(queue') : queue'[i] = queue'[j] => i = j
    BY <1>0, <1>00, <2>3, <2>4 DEF QueueInv
  <2> QED
    BY <2>7, <2>8 DEF QueueInv
<1>2. CASE Take
  <2>1. PICK r \in Runs, k \in Kinds : /\ Head(queue) = <<r, k>>
                                       /\ future' = [future EXCEPT ![r][k] = "running"]
    BY <1>2, HeadIsQueued DEF IInv
  <2>2. /\ queue[1] = <<r, k>>
        /\ Len(queue') = Len(queue) - 1
        /\ \A i \in 1..Len(queue') : queue'[i] = queue[i + 1]
    BY <1>0, <1>2, <2>1, HeadTailProperties DEF Take
  <2>3. \A i \in 1..Len(queue') : queue[i + 1] # queue[1]
    <3> SUFFICES ASSUME NEW i \in 1..Len(queue') PROVE queue[i + 1] # queue[1]
      OBVIOUS
    <3>1. i + 1 \in 1..Len(queue) /\ 1 \in 1..Len(queue) /\ i + 1 # 1
      BY <1>00, <2>2
    <3> QED
      BY <1>0, <3>1 DEF QueueInv
  <2>4. \A i \in 1..Len(queue') : future'[queue'[i][1]][queue'[i][2]] = "queued"
    <3> SUFFICES ASSUME NEW i \in 1..Len(queue')
                 PROVE  future'[queue'[i][1]][queue'[i][2]] = "queued"
      OBVIOUS
    <3>1. i + 1 \in 1..Len(queue)
      BY <1>00, <2>2
    <3>2. PICK q \in Runs, m \in Kinds : queue[i + 1] = <<q, m>>
      BY <1>00, <3>1 DEF Tasks
    <3>3. future[q][m] = "queued"
      BY <1>0, <3>1, <3>2 DEF QueueInv
    <3> QED
      BY <1>0, <2>1, <2>2, <2>3, <3>2, <3>3
  <2>5. \A i, j \in 1..Len(queue') : queue'[i] = queue'[j] => i = j
    BY <1>0, <1>00, <2>2 DEF QueueInv
  <2> QED
    BY <2>4, <2>5 DEF QueueInv
<1>3. ASSUME NEW r \in Runs, NEW k \in Kinds, TaskReturns(r, k) \/ TaskRaises(r, k) PROVE Goal
  <2>1. /\ future[r][k] = "running"
        /\ queue' = queue
        /\ \/ future' = [future EXCEPT ![r][k] = "done"]
           \/ future' = [future EXCEPT ![r][k] = "raised"]
    BY <1>3 DEF TaskReturns, TaskRaises
  <2>2. ASSUME NEW i \in 1..Len(queue) PROVE future'[queue[i][1]][queue[i][2]] = "queued"
    <3>1. PICK q \in Runs, m \in Kinds : queue[i] = <<q, m>>
      BY <1>00 DEF Tasks
    <3>2. future[q][m] = "queued"
      BY <1>0, <3>1 DEF QueueInv
    <3> QED
      BY <1>0, <2>1, <3>1, <3>2
  <2> QED
    BY <1>0, <2>1, <2>2 DEF QueueInv
<1>4. CASE UNCHANGED <<future, queue>>
  BY <1>0, <1>4 DEF QueueInv
<1> QED
  BY <1>1, <1>2, <1>3, <1>4
     DEF Next, RunStep, PoolStep, Tasks, Route, AwaitReturns, AwaitRaises, AwaitTimesOut,
         Plan, Compute, Output, Return, vars

\* Positions and futures keep their order.
LEMMA FutureStep == IInv /\ [Next]_vars => FutureInv'
<1> SUFFICES ASSUME IInv, [Next]_vars, NEW q \in Runs, NEW m \in Kinds
             PROVE  /\ pc'[q] \in Before(m) => future'[q][m] = "none"
                    /\ future'[q][m] \in {"queued", "running"} => pc'[q] \in During(m)
                    /\ pc'[q] \in Got(m) => future'[q][m] = "done"
  BY DEF FutureInv
<1> DEFINE Goal == /\ pc'[q] \in Before(m) => future'[q][m] = "none"
                   /\ future'[q][m] \in {"queued", "running"} => pc'[q] \in During(m)
                   /\ pc'[q] \in Got(m) => future'[q][m] = "done"
<1>0. /\ pc \in [Runs -> Positions] /\ future \in [Runs -> [Kinds -> States]]
      /\ pc[q] \in Before(m) => future[q][m] = "none"
      /\ future[q][m] \in {"queued", "running"} => pc[q] \in During(m)
      /\ pc[q] \in Got(m) => future[q][m] = "done"
  BY DEF IInv, Types, FutureInv
<1>00. m \in {"memory", "schema", "insight", "anomaly", "chart", "write"}
  BY DEF Kinds, Recalls, Outputs
<1>1. ASSUME NEW r \in Runs, Route(r) PROVE Goal
  BY <1>0, <1>00, <1>1 DEF Route, Goto, Before, During, Got, Recalls
<1>2. ASSUME NEW r \in Runs, Submit(r) PROVE Goal
  <2>1. PICK s \in Submits : /\ s[2] \in Kinds
                             /\ pc[r] = s[1]
                             /\ future[r][s[2]] = "none"
                             /\ future' = [future EXCEPT ![r][s[2]] = "queued"]
                             /\ pc' = [pc EXCEPT ![r] = s[3]]
    BY <1>2, SubmitsOnce
  <2>2. CASE q # r
    BY <1>0, <2>1, <2>2
  <2>3. CASE q = r /\ m # s[2]
    BY <1>0, <1>00, <2>1, <2>3 DEF Submits, Before, During, Got, Recalls
  <2>4. CASE q = r /\ m = s[2]
    <3>1. future'[q][m] = "queued" /\ pc'[q] = s[3]
      BY <1>0, <2>1, <2>4
    <3>2. s[3] \notin Before(s[2]) /\ s[3] \in During(s[2]) /\ s[3] \notin Got(s[2])
      BY DEF Submits, Before, During, Got, Recalls
    <3> QED
      BY <2>4, <3>1, <3>2
  <2> QED
    BY <2>2, <2>3, <2>4
<1>3. ASSUME NEW r \in Runs, AwaitReturns(r) PROVE Goal
  <2>1. PICK w \in Waits : /\ pc[r] = w[1]
                           /\ future[r][w[2]] = "done"
                           /\ pc' = [pc EXCEPT ![r] = w[3]]
                           /\ future' = future
    BY <1>3 DEF AwaitReturns, Goto
  <2>2. CASE q # r
    BY <1>0, <2>1, <2>2
  <2>3. CASE q = r /\ m # w[2]
    BY <1>0, <1>00, <2>1, <2>3 DEF Waits, Before, During, Got, Recalls
  <2>4. CASE q = r /\ m = w[2]
    <3>1. future'[q][m] = "done" /\ pc'[q] = w[3]
      BY <1>0, <2>1, <2>4
    <3>2. w[3] \notin Before(w[2])
      BY DEF Waits, Before, Recalls
    <3> QED
      BY <2>4, <3>1, <3>2
  <2> QED
    BY <2>2, <2>3, <2>4
<1>4. ASSUME NEW r \in Runs, AwaitRaises(r) \/ AwaitTimesOut(r) PROVE Goal
  <2>1. PICK w \in Waits : /\ pc[r] = w[1]
                           /\ pc' = [pc EXCEPT ![r] = "failed"]
                           /\ future' = future
    BY <1>4 DEF AwaitRaises, AwaitTimesOut, Goto
  <2>2. CASE q # r
    BY <1>0, <2>1, <2>2
  <2>3. CASE q = r
    <3>1. pc[q] \in Before("write")
      BY <2>1, <2>3 DEF Waits, Before, Recalls
    <3>2. future'[q][m] \in {"queued", "running"} => m # "write"
      BY <1>0, <2>1, <3>1
    <3>3. m # "write" => "failed" \in During(m)
      BY <1>00 DEF During
    <3>4. "failed" \notin Before(m) /\ "failed" \notin Got(m)
      BY <1>00 DEF Before, Got, Recalls
    <3> QED
      BY <1>0, <2>1, <2>3, <3>2, <3>3, <3>4
  <2> QED
    BY <2>2, <2>3
<1>5. ASSUME NEW r \in Runs, Plan(r) \/ Compute(r) PROVE Goal
  BY <1>0, <1>00, <1>5 DEF Plan, Compute, Goto, Before, During, Got, Recalls
<1>6. ASSUME NEW r \in Runs, Output(r) \/ Return(r) PROVE Goal
  BY <1>0, <1>00, <1>6 DEF Output, Return, Goto, Before, During, Got, Recalls
<1>7. CASE Take
  <2>1. PICK r \in Runs, k \in Kinds : /\ future[r][k] = "queued"
                                       /\ future' = [future EXCEPT ![r][k] = "running"]
                                       /\ pc' = pc
    BY <1>7, HeadIsQueued DEF IInv, Take
  <2> QED
    BY <1>0, <2>1
<1>8. ASSUME NEW r \in Runs, NEW k \in Kinds, TaskReturns(r, k) \/ TaskRaises(r, k) PROVE Goal
  <2>1. /\ future[r][k] = "running"
        /\ pc' = pc
        /\ \/ future' = [future EXCEPT ![r][k] = "done"]
           \/ future' = [future EXCEPT ![r][k] = "raised"]
    BY <1>8 DEF TaskReturns, TaskRaises
  <2>2. pc[r] \in During(k) /\ pc[r] \notin Got(k)
    BY <2>1 DEF IInv, FutureInv
  <2> QED
    BY <1>0, <2>1, <2>2
<1>9. CASE UNCHANGED vars
  BY <1>0, <1>9 DEF vars
<1> QED
  BY <1>1, <1>2, <1>3, <1>4, <1>5, <1>6, <1>7, <1>8, <1>9 DEF Next, RunStep, PoolStep, Tasks

\* The rows are known from the moment the code has run.
LEMMA RowsStep == IInv /\ [Next]_vars => RowsInv'
<1> SUFFICES ASSUME IInv, [Next]_vars PROVE RowsInv'
  OBVIOUS
<1> DEFINE Goal == RowsInv'
<1> USE DEF RowsInv, Planning, Goto
<1>0. /\ pc \in [Runs -> Positions] /\ rows \in [Runs -> {"unknown", "some", "empty"}]
      /\ RowsInv
  BY DEF IInv, Types
<1>1. ASSUME NEW r \in Runs, Route(r) PROVE Goal
  BY <1>0, <1>1 DEF Route
<1>2. ASSUME NEW r \in Runs, Submit(r) PROVE Goal
  BY <1>0, <1>2 DEF Submit, Submits
<1>3. ASSUME NEW r \in Runs, AwaitReturns(r) PROVE Goal
  BY <1>0, <1>3 DEF AwaitReturns, Waits
<1>4. ASSUME NEW r \in Runs, AwaitRaises(r) \/ AwaitTimesOut(r) PROVE Goal
  BY <1>0, <1>4 DEF AwaitRaises, AwaitTimesOut
<1>5. ASSUME NEW r \in Runs, Plan(r) \/ Compute(r) PROVE Goal
  BY <1>0, <1>5 DEF Plan, Compute
<1>6. ASSUME NEW r \in Runs, Output(r) \/ Return(r) PROVE Goal
  BY <1>0, <1>6 DEF Output, Return
<1>7. CASE UNCHANGED <<pc, rows>>
  BY <1>0, <1>7
<1> QED
  BY <1>1, <1>2, <1>3, <1>4, <1>5, <1>6, <1>7
     DEF Next, RunStep, PoolStep, Take, TaskReturns, TaskRaises, vars

\* A turn that was presented in full stays so.
LEMMA PresentedStays == IInv /\ [Next]_vars => Presented \subseteq Presented'
<1> SUFFICES ASSUME IInv, [Next]_vars PROVE Presented \subseteq Presented'
  OBVIOUS
<1> DEFINE Goal == Presented \subseteq Presented'
<1> USE DEF Presented, Goto
<1>0. pc \in [Runs -> Positions] /\ rows \in [Runs -> {"unknown", "some", "empty"}]
  BY DEF IInv, Types
<1>1. ASSUME NEW r \in Runs, Route(r) PROVE Goal
  BY <1>0, <1>1 DEF Route
<1>2. ASSUME NEW r \in Runs, Submit(r) PROVE Goal
  BY <1>0, <1>2 DEF Submit, Submits
<1>3. ASSUME NEW r \in Runs, AwaitReturns(r) PROVE Goal
  BY <1>0, <1>3 DEF AwaitReturns, Waits
<1>4. ASSUME NEW r \in Runs, AwaitRaises(r) \/ AwaitTimesOut(r) PROVE Goal
  BY <1>0, <1>4 DEF AwaitRaises, AwaitTimesOut, Waits
<1>5. ASSUME NEW r \in Runs, Plan(r) \/ Compute(r) PROVE Goal
  BY <1>0, <1>5 DEF Plan, Compute
<1>6. ASSUME NEW r \in Runs, Output(r) \/ Return(r) PROVE Goal
  BY <1>0, <1>6 DEF Output, Return
<1>7. CASE UNCHANGED <<pc, rows>>
  BY <1>7
<1> QED
  BY <1>1, <1>2, <1>3, <1>4, <1>5, <1>6, <1>7
     DEF Next, RunStep, PoolStep, Take, TaskReturns, TaskRaises, vars

\* Only such turns are written.
LEMMA SavedStep == IInv /\ [Next]_vars => SavedInv'
<1> SUFFICES ASSUME IInv, [Next]_vars PROVE SavedInv'
  OBVIOUS
<1>1. SavedInv /\ Presented \subseteq Presented'
  BY PresentedStays DEF IInv
<1>2. ASSUME NEW r \in Runs, NEW k \in Kinds, TaskReturns(r, k) PROVE SavedInv'
  <2>1. CASE k = "write" /\ rows[r] = "some"
    <3>1. pc[r] \in {"return", "answered"}
      BY <1>2, <2>1 DEF TaskReturns, IInv, FutureInv, During
    <3>2. r \in Presented
      BY <2>1, <3>1 DEF Presented
    <3> QED
      BY <1>1, <1>2, <2>1, <3>2 DEF TaskReturns, Write, SavedInv
  <2>2. CASE ~(k = "write" /\ rows[r] = "some")
    BY <1>1, <1>2, <2>2 DEF TaskReturns, Write, SavedInv
  <2> QED
    BY <2>1, <2>2
<1>3. CASE UNCHANGED saved
  BY <1>1, <1>3 DEF SavedInv
<1> QED
  BY <1>2, <1>3
     DEF Next, RunStep, PoolStep, Tasks, Route, Submit, AwaitReturns, AwaitRaises,
         AwaitTimesOut, Plan, Compute, Output, Return, Take, TaskRaises, vars

\* A run that looks for memories finds saved turns of its chat, and has not
\* been presented itself.
LEMMA RecallsStep == IInv /\ [Next]_vars => RecallsOnlyPresented'
<1> SUFFICES ASSUME IInv, [Next]_vars PROVE RecallsOnlyPresented'
  OBVIOUS
<1>0. /\ recalled \in [Runs -> SUBSET Runs] /\ RecallsOnlyPresented
      /\ SavedInv /\ Presented \subseteq Presented'
  BY PresentedStays DEF IInv, Types
<1>1. session' = session
  BY DEF Next, RunStep, PoolStep, Route, Submit, AwaitReturns, AwaitRaises, AwaitTimesOut,
         Plan, Compute, Output, Return, Take, TaskReturns, TaskRaises, vars
<1>2. ASSUME NEW r \in Runs, TaskReturns(r, "memory") PROVE RecallsOnlyPresented'
  <2>1. r \notin Presented
    <3>1. "memory" \in Kinds
      BY DEF Kinds, Recalls
    <3>2. pc[r] \in During("memory")
      BY <1>2, <3>1 DEF TaskReturns, IInv, FutureInv
    <3> QED
      BY <3>2 DEF During, Presented
  <2>2. PICK found \in SUBSET {s \in saved : session[s] = session[r]} :
            recalled' = [recalled EXCEPT ![r] = found]
    BY <1>2 DEF TaskReturns, Remember
  <2>3. \A s \in found : s # r /\ s \in Presented /\ session[s] = session[r]
    BY <1>0, <2>1, <2>2 DEF SavedInv
  <2> QED
    BY <1>0, <1>1, <2>2, <2>3 DEF RecallsOnlyPresented
<1>3. CASE UNCHANGED recalled
  BY <1>0, <1>1, <1>3 DEF RecallsOnlyPresented
<1> QED
  BY <1>2, <1>3
     DEF Next, RunStep, PoolStep, Tasks, Route, Submit, AwaitReturns, AwaitRaises,
         AwaitTimesOut, Plan, Compute, Output, Return, Take, TaskReturns, TaskRaises, vars

\* IInv is inductive.
LEMMA Inductive == Spec => []IInv
<1>1. IInv /\ [Next]_vars => IInv'
  <2> SUFFICES ASSUME IInv, [Next]_vars PROVE IInv'
    OBVIOUS
  <2> QED
    BY TypesStep, CapacityStep, QueueStep, FutureStep, RowsStep, SavedStep, RecallsStep
       DEF IInv
<1> QED
  BY <1>1, InitEstablishes, PTL DEF Spec

-----------------------------------------------------------------------------
\* Every variable has its type and the pool never runs more tasks than it has
\* threads (agent/graph.py:49-51), for any number of runs and threads.
THEOREM TypesCorrect == Spec => []TypeOK
<1>1. IInv => TypeOK
  BY DEF IInv, Types, TypeOK, States
<1> QED
  BY <1>1, Inductive, PTL

\* A run is reminded only of other turns of its chat that were presented in
\* full (agent/graph.py:79-112, 183-221), whatever times out.
THEOREM RemindersArePresented == Spec => []RecallsOnlyPresented
<1>1. IInv => RecallsOnlyPresented
  BY DEF IInv
<1> QED
  BY <1>1, Inductive, PTL

-----------------------------------------------------------------------------
(***************************************************************************)
(* The refinement of SequentialNodes.                                      *)
(***************************************************************************)
stageMap == [r \in Runs |-> StageOf(r)]
haveMap == [r \in Runs |-> HaveOf(r)]

\* A step that moves the thread of run r only, and fails or keeps its results.
LEMMA OneRunMoves ==
  ASSUME IInv, NEW r \in Runs, NEW p,
         pc' = [pc EXCEPT ![r] = p],
         \A q \in Runs \ {r} : rows'[q] = rows[q] /\ future'[q] = future[q]
  PROVE  /\ stageMap' = [stageMap EXCEPT ![r] = StageOf(r)']
         /\ haveMap' = [haveMap EXCEPT ![r] = HaveOf(r)']
<1>1. \A q \in Runs \ {r} : pc'[q] = pc[q]
  BY DEF IInv, Types
<1>2. \A q \in Runs \ {r} : StageOf(q)' = StageOf(q) /\ HaveOf(q)' = HaveOf(q)
  BY <1>1 DEF StageOf, HaveOf
<1> QED
  BY <1>2 DEF stageMap, haveMap

\* Every step is a step of SequentialNodes or changes nothing there.
LEMMA RefinementStep ==
  IInv /\ [Next]_vars => [Sequential!Next]_(Sequential!vars)
<1> SUFFICES ASSUME IInv, [Next]_vars PROVE [Sequential!Next]_(Sequential!vars)
  OBVIOUS
<1> DEFINE Goal == [Sequential!Next]_(Sequential!vars)
<1>0. /\ pc \in [Runs -> Positions] /\ rows \in [Runs -> {"unknown", "some", "empty"}]
      /\ future \in [Runs -> [Kinds -> States]]
  BY DEF IInv, Types
<1>a. Goal <=> \/ \E r \in Runs : \/ \E k \in Recalls \union Outputs : Sequential!Part(r, k)
                                  \/ Sequential!Plan(r)
                                  \/ Sequential!Present(r)
                                  \/ Sequential!AnswerWithoutRows(r)
                                  \/ Sequential!Answer(r)
                                  \/ Sequential!Fail(r)
               \/ stageMap' = stageMap /\ haveMap' = haveMap
  BY DEF Sequential!Next, Sequential!vars, stageMap, haveMap
<1>b. ASSUME NEW r \in Runs, pc[r] # "failed",
             pc' = [pc EXCEPT ![r] = "failed"], UNCHANGED <<rows, future>>,
             pc[r] \notin {"record", "return", "answered"}, pc[r] # "output"
      PROVE  Goal
  <2>1. StageOf(r)' = "failed" /\ HaveOf(r)' = {}
    BY <1>0, <1>b DEF StageOf, HaveOf
  <2>2. StageOf(r) \notin {"answered", "failed"}
    <3>1. rows[r] # "empty"
      BY <1>0, <1>b, AllPositions DEF IInv, RowsInv, Planning
    <3> QED
      BY <1>b, <3>1 DEF StageOf
  <2>3. Sequential!Fail(r)
    BY <1>b, <2>1, <2>2, OneRunMoves DEF Sequential!Fail, stageMap, haveMap
  <2> QED
    BY <1>a, <2>3
<1>c. ASSUME NEW r \in Runs, NEW p, pc' = [pc EXCEPT ![r] = p],
             \A q \in Runs \ {r} : rows'[q] = rows[q] /\ future'[q] = future[q],
             StageOf(r)' = StageOf(r), HaveOf(r)' = HaveOf(r)
      PROVE  Goal
  <2>1. stageMap' = stageMap /\ haveMap' = haveMap
    BY <1>c, OneRunMoves DEF stageMap, haveMap
  <2> QED
    BY <1>a, <2>1
<1>1. ASSUME NEW r \in Runs, Route(r) PROVE Goal
  <2>0. pc[r] = "route" /\ rows[r] = "unknown" /\ StageOf(r) = "planning"
    BY <1>1 DEF Route, IInv, RowsInv, StageOf, Planning
  <2>1. UNCHANGED future
    BY <1>1 DEF Route
  <2>2. HaveOf(r) = {}
    <3>1. \A k \in Kinds : future[r][k] = "none"
      BY <2>0 DEF IInv, FutureInv, Before
    <3> QED
      BY <3>1 DEF HaveOf, Kinds
  <2>3. CASE Goto(r, "ask_memory") /\ UNCHANGED rows
    <3>1. StageOf(r)' = "planning" /\ HaveOf(r)' = HaveOf(r)
      BY <1>0, <2>0, <2>1, <2>3 DEF Goto, StageOf, HaveOf, Planning
    <3> QED
      BY <1>c, <2>0, <2>1, <2>3, <3>1 DEF Goto
  <2>4. CASE \/ Goto(r, "output") /\ rows' = [rows EXCEPT ![r] = "empty"]
             \/ Goto(r, "answered") /\ UNCHANGED rows
    <3>1. \E p \in {"output", "answered"} :
              /\ pc' = [pc EXCEPT ![r] = p]
              /\ p = "output" => rows' = [rows EXCEPT ![r] = "empty"]
              /\ p = "answered" => UNCHANGED rows
      BY <2>4 DEF Goto
    <3>2. StageOf(r)' = "answered" /\ HaveOf(r)' = HaveOf(r)
      BY <1>0, <2>0, <2>1, <3>1 DEF StageOf, HaveOf, Planning
    <3>3. \A q \in Runs \ {r} : rows'[q] = rows[q] /\ future'[q] = future[q]
      BY <1>0, <2>1, <3>1
    <3>4. /\ stageMap' = [stageMap EXCEPT ![r] = "answered"]
          /\ haveMap' = [haveMap EXCEPT ![r] = HaveOf(r)]
      BY <3>1, <3>2, <3>3, OneRunMoves
    <3>5. Sequential!AnswerWithoutRows(r)
      BY <2>0, <2>2, <3>4 DEF Sequential!AnswerWithoutRows, stageMap, haveMap
    <3> QED
      BY <1>a, <3>5
  <2>5. CASE Goto(r, "failed") /\ UNCHANGED rows
    BY <1>b, <2>0, <2>1, <2>5 DEF Goto
  <2> QED
    BY <1>1, <2>3, <2>4, <2>5 DEF Route
<1>2. ASSUME NEW r \in Runs, Submit(r) PROVE Goal
  <2>1. PICK s \in Submits : /\ s[2] \in Kinds
                             /\ pc[r] = s[1]
                             /\ future[r][s[2]] = "none"
                             /\ future' = [future EXCEPT ![r][s[2]] = "queued"]
                             /\ pc' = [pc EXCEPT ![r] = s[3]]
                             /\ UNCHANGED rows
    BY <1>2, SubmitsOnce
  <2>2. rows[r] # "empty" \/ pc[r] = "record"
    BY <2>1 DEF IInv, RowsInv, Submits, Planning
  <2>3. StageOf(r)' = StageOf(r)
    BY <1>0, <2>1, <2>2 DEF Submits, StageOf, Planning
  <2>4. HaveOf(r)' = HaveOf(r)
    <3>1. \A k \in Kinds : future'[r][k] = "done" <=> future[r][k] = "done"
      BY <1>0, <2>1
    <3>2. pc[r] # "failed" /\ pc'[r] # "failed"
      BY <1>0, <2>1 DEF Submits
    <3> QED
      BY <3>1, <3>2 DEF HaveOf, Kinds
  <2>5. \A q \in Runs \ {r} : rows'[q] = rows[q] /\ future'[q] = future[q]
    BY <1>0, <2>1
  <2> QED
    BY <1>c, <2>1, <2>3, <2>4, <2>5
<1>3. ASSUME NEW r \in Runs, AwaitReturns(r) PROVE Goal
  <2>1. PICK w \in Waits : /\ pc[r] = w[1]
                           /\ future[r][w[2]] = "done"
                           /\ pc' = [pc EXCEPT ![r] = w[3]]
                           /\ UNCHANGED <<rows, future>>
    BY <1>3 DEF AwaitReturns, Goto
  <2>2. rows[r] # "empty"
    BY <2>1 DEF IInv, RowsInv, Waits, Planning
  <2>3. HaveOf(r)' = HaveOf(r)
    BY <1>0, <2>1 DEF HaveOf, Waits
  <2>4. CASE w[1] # "await_chart"
    <3>1. StageOf(r)' = StageOf(r)
      BY <1>0, <2>1, <2>2, <2>4 DEF Waits, StageOf, Planning
    <3> QED
      BY <1>c, <2>1, <2>3, <3>1
  <2>5. CASE w[1] = "await_chart"
    <3>1. w[2] = "chart" /\ w[3] = "record"
      BY <2>5 DEF Waits
    <3>2. StageOf(r) = "presenting" /\ StageOf(r)' = "answered"
      BY <1>0, <2>1, <2>2, <2>5, <3>1 DEF StageOf, Planning
    <3>3. Outputs \subseteq HaveOf(r)
      <4>1. "insight" \in Kinds /\ "anomaly" \in Kinds
        BY DEF Kinds, Outputs
      <4>2. future[r]["insight"] = "done" /\ future[r]["anomaly"] = "done"
        BY <2>1, <2>5, <4>1 DEF IInv, FutureInv, Got
      <4> QED
        BY <2>1, <2>5, <3>1, <4>2 DEF HaveOf, Outputs
    <3>4. /\ stageMap' = [stageMap EXCEPT ![r] = "answered"]
          /\ haveMap' = [haveMap EXCEPT ![r] = HaveOf(r)]
      BY <2>1, <2>3, <3>2, OneRunMoves
    <3>5. Sequential!Answer(r)
      BY <3>2, <3>3, <3>4 DEF Sequential!Answer, stageMap, haveMap
    <3> QED
      BY <1>a, <3>5
  <2> QED
    BY <2>4, <2>5
<1>4. ASSUME NEW r \in Runs, AwaitRaises(r) \/ AwaitTimesOut(r) PROVE Goal
  <2>1. PICK w \in Waits : /\ pc[r] = w[1]
                           /\ pc' = [pc EXCEPT ![r] = "failed"]
                           /\ UNCHANGED <<rows, future>>
    BY <1>4 DEF AwaitRaises, AwaitTimesOut, Goto
  <2>2. pc[r] \notin {"record", "return", "answered", "failed", "output"}
    BY <2>1 DEF Waits
  <2> QED
    BY <1>b, <2>1, <2>2
<1>5. ASSUME NEW r \in Runs, Plan(r) PROVE Goal
  <2>1. CASE Goto(r, "failed")
    BY <1>5, <1>b, <2>1 DEF Plan, Goto
  <2>2. CASE Goto(r, "compute")
    <3>1. StageOf(r) = "planning" /\ StageOf(r)' = "coding" /\ HaveOf(r)' = HaveOf(r)
      BY <1>0, <1>5, <2>2 DEF Plan, Goto, StageOf, HaveOf, Planning
    <3>2. Recalls \subseteq HaveOf(r)
      <4>1. "memory" \in Kinds /\ "schema" \in Kinds
        BY DEF Kinds, Recalls
      <4>2. future[r]["memory"] = "done" /\ future[r]["schema"] = "done"
        BY <1>5, <4>1 DEF Plan, IInv, FutureInv, Got
      <4> QED
        BY <1>5, <4>2 DEF Plan, HaveOf, Recalls
    <3>3. /\ stageMap' = [stageMap EXCEPT ![r] = "coding"]
          /\ haveMap' = [haveMap EXCEPT ![r] = HaveOf(r)]
      BY <1>5, <2>2, <3>1, OneRunMoves DEF Plan, Goto
    <3>4. Sequential!Plan(r)
      BY <3>1, <3>2, <3>3 DEF Sequential!Plan, stageMap, haveMap
    <3> QED
      BY <1>a, <3>4
  <2> QED
    BY <1>5, <2>1, <2>2 DEF Plan
<1>6. ASSUME NEW r \in Runs, Compute(r) PROVE Goal
  <2>0. pc[r] = "compute" /\ StageOf(r) = "coding" /\ UNCHANGED future
    BY <1>6 DEF Compute, StageOf, Planning
  <2>1. CASE Goto(r, "failed") /\ UNCHANGED rows
    BY <1>b, <2>0, <2>1 DEF Goto
  <2>2. ASSUME NEW found \in {"some", "empty"}, rows' = [rows EXCEPT ![r] = found],
               Goto(r, "output")
        PROVE  Goal
    <3>1. /\ StageOf(r)' = IF found = "empty" THEN "answered" ELSE "presenting"
          /\ HaveOf(r)' = HaveOf(r)
      BY <1>0, <2>0, <2>2 DEF Goto, StageOf, HaveOf, Planning
    <3>2. \A q \in Runs \ {r} : rows'[q] = rows[q] /\ future'[q] = future[q]
      BY <1>0, <2>0, <2>2
    <3>3. /\ stageMap' = [stageMap EXCEPT ![r] = StageOf(r)']
          /\ haveMap' = [haveMap EXCEPT ![r] = HaveOf(r)]
      BY <2>2, <3>1, <3>2, OneRunMoves DEF Goto
    <3>4. CASE found = "some"
      <4>1. Sequential!Present(r)
        BY <2>0, <3>1, <3>3, <3>4 DEF Sequential!Present, stageMap, haveMap
      <4> QED
        BY <1>a, <4>1
    <3>5. CASE found = "empty"
      <4>1. Sequential!AnswerWithoutRows(r)
        BY <2>0, <3>1, <3>3, <3>5 DEF Sequential!AnswerWithoutRows, stageMap, haveMap
      <4> QED
        BY <1>a, <4>1
    <3> QED
      BY <3>4, <3>5
  <2> QED
    BY <1>6, <2>1, <2>2 DEF Compute
<1>7. ASSUME NEW r \in Runs, Output(r) \/ Return(r) PROVE Goal
  <2>1. /\ pc[r] \in {"output", "return"} /\ UNCHANGED <<rows, future>>
        /\ pc' = [pc EXCEPT ![r] = IF pc[r] = "return" THEN "answered"
                                   ELSE IF rows[r] = "some" THEN "ask_insight" ELSE "record"]
    BY <1>7 DEF Output, Return, Goto
  <2>2. pc[r] = "output" => rows[r] \in {"some", "empty"}
    BY <1>0 DEF IInv, RowsInv
  <2>3. StageOf(r)' = StageOf(r) /\ HaveOf(r)' = HaveOf(r)
    BY <1>0, <2>1, <2>2 DEF StageOf, HaveOf, Planning
  <2> QED
    BY <1>c, <2>1, <2>3
<1>8. CASE Take
  <2>1. PICK r \in Runs, k \in Kinds : /\ future[r][k] = "queued"
                                       /\ future' = [future EXCEPT ![r][k] = "running"]
                                       /\ UNCHANGED <<pc, rows>>
    BY <1>8, HeadIsQueued DEF IInv, Take
  <2>2. \A j \in Kinds : future'[r][j] = "done" <=> future[r][j] = "done"
    BY <1>0, <2>1
  <2>3. StageOf(r)' = StageOf(r) /\ HaveOf(r)' = HaveOf(r)
    BY <2>1, <2>2 DEF StageOf, HaveOf, Kinds
  <2>4. /\ pc' = [pc EXCEPT ![r] = pc[r]]
        /\ \A q \in Runs \ {r} : rows'[q] = rows[q] /\ future'[q] = future[q]
    BY <1>0, <2>1
  <2> QED
    BY <1>c, <2>3, <2>4
<1>9. ASSUME NEW r \in Runs, NEW k \in Kinds, TaskReturns(r, k) \/ TaskRaises(r, k) PROVE Goal
  <2>1. PICK v \in {"done", "raised"} : /\ future' = [future EXCEPT ![r][k] = v]
                                        /\ v = "raised" => TaskRaises(r, k)
    BY <1>9 DEF TaskReturns, TaskRaises
  <2>2. future[r][k] = "running" /\ UNCHANGED <<pc, rows>>
    BY <1>9 DEF TaskReturns, TaskRaises
  <2>3. /\ pc' = [pc EXCEPT ![r] = pc[r]]
        /\ \A q \in Runs \ {r} : rows'[q] = rows[q] /\ future'[q] = future[q]
    BY <1>0, <2>1, <2>2
  <2>4. StageOf(r)' = StageOf(r)
    BY <2>2 DEF StageOf
  <2>5. CASE pc[r] = "failed" \/ v = "raised" \/ k = "write"
    <3>1. HaveOf(r)' = HaveOf(r)
      BY <1>0, <2>1, <2>2, <2>5 DEF HaveOf, Kinds, Recalls, Outputs
    <3> QED
      BY <1>c, <2>3, <2>4, <3>1
  <2>6. CASE pc[r] # "failed" /\ v = "done" /\ k # "write"
    <3>1. k \in Recalls \union Outputs
      BY <2>6 DEF Kinds
    <3>2. HaveOf(r)' = HaveOf(r) \union {k} /\ k \notin HaveOf(r)
      BY <1>0, <2>1, <2>2, <2>6, <3>1 DEF HaveOf, Kinds
    <3>3. /\ k \in Recalls => StageOf(r) = "planning"
          /\ k \in Outputs => StageOf(r) = "presenting"
      <4>1. pc[r] \in During(k)
        BY <2>2 DEF IInv, FutureInv
      <4>2. /\ k \in Recalls => pc[r] \in Planning
            /\ k \in Outputs => pc[r] \in {"ask_anomaly", "ask_chart", "await_insight",
                                           "await_anomaly", "await_chart"}
        BY <2>6, <4>1 DEF During, Recalls, Outputs, Planning
      <4>3. k \in Outputs => rows[r] = "some"
        BY <4>2 DEF IInv, RowsInv
      <4> QED
        BY <4>2, <4>3 DEF StageOf, Planning
    <3>4. /\ stageMap' = stageMap
          /\ haveMap' = [haveMap EXCEPT ![r] = HaveOf(r) \union {k}]
      BY <2>3, <2>4, <3>2, OneRunMoves DEF stageMap
    <3>5. Sequential!Part(r, k)
      BY <3>1, <3>2, <3>3, <3>4 DEF Sequential!Part, stageMap, haveMap
    <3> QED
      BY <1>a, <3>1, <3>5
  <2> QED
    BY <2>1, <2>5, <2>6
<1>10. CASE UNCHANGED vars
  <2>1. stageMap' = stageMap /\ haveMap' = haveMap
    BY <1>10 DEF vars, stageMap, haveMap, StageOf, HaveOf
  <2> QED
    BY <1>a, <2>1
<1> QED
  BY <1>1, <1>2, <1>3, <1>4, <1>5, <1>6, <1>7, <1>8, <1>9, <1>10
     DEF Next, RunStep, PoolStep, Tasks

\* The fused nodes answer as the nodes run one after the other would
\* (agent/graph.py:59-65, 163-171), for any runs and any number of threads.
THEOREM Refinement == Spec => ImplementsSequentialNodes
<1>1. Init => Sequential!Init
  <2> SUFFICES ASSUME Init PROVE Sequential!Init
    OBVIOUS
  <2>1. \A r \in Runs : StageOf(r) = "planning" /\ HaveOf(r) = {}
    BY DEF Init, StageOf, HaveOf, Planning, Kinds
  <2> QED
    BY <2>1 DEF Sequential!Init
<1> QED
  BY <1>1, RefinementStep, Inductive, PTL DEF Spec, Sequential!Spec, ImplementsSequentialNodes
=============================================================================
