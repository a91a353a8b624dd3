---------------------------- MODULE ParallelPool ----------------------------
(***************************************************************************)
(* The thread pool that runs of the agent graph share (agent/graph.py).    *)
(* planner_with_memory submits two tasks to it and output_pipeline three,  *)
(* and each waits for its own with a timeout; memory_updater submits the   *)
(* write of the turn and waits for nothing.  The pool keeps one queue for  *)
(* everybody, in order of submission, and a fixed number of threads.  A    *)
(* wait that times out raises, the run fails, and the tasks it submitted   *)
(* stay where they are, in the queue or on a thread.                       *)
(*                                                                         *)
(* The nodes between the planner and the output pipeline run on the run's  *)
(* own thread and are one step here (Compute); AgentGraph is their model.  *)
(***************************************************************************)
EXTENDS Naturals, Sequences, FiniteSets

CONSTANTS
    Runs,           \* the runs of the graph in one server process
    Sessions,       \* the chats they belong to
    MaxWorkers,     \* max_workers of the pool
    RecallLimit     \* the LIMIT of the memory query

ASSUME PoolAssumption ==
    /\ IsFiniteSet(Runs)
    /\ MaxWorkers \in Nat \ {0}
    /\ RecallLimit \in Nat

\* The tasks of a run, and the positions of its thread, in program order.
Recalls == {"memory", "schema"}
Outputs == {"insight", "anomaly", "chart"}
Kinds == Recalls \union Outputs \union {"write"}

\* Where the thread submits which task, and where it goes from there,
Submits == {
    <<"ask_memory", "memory", "ask_schema">>,
    <<"ask_schema", "schema", "await_memory">>,
    <<"ask_insight", "insight", "ask_anomaly">>,
    <<"ask_anomaly", "anomaly", "ask_chart">>,
    <<"ask_chart", "chart", "await_insight">>,
    <<"record", "write", "return">>}

\* and where it waits for which, and where it goes with the result.
Waits == {
    <<"await_memory", "memory", "await_schema">>,
    <<"await_schema", "schema", "plan">>,
    <<"await_insight", "insight", "await_anomaly">>,
    <<"await_anomaly", "anomaly", "await_chart">>,
    <<"await_chart", "chart", "record">>}

Positions ==
    {s[1] : s \in Submits} \union {w[1] : w \in Waits}
    \union {"route", "plan", "compute", "output", "return", "answered", "failed"}

VARIABLES
    pc,         \* pc[r]: where the thread of run r is
    session,    \* session[r]: state["session_id"]
    rows,       \* rows[r]: state["execution_result"], unknown until the code has run
    future,     \* future[r][k]: the future of task k of run r
    queue,      \* the pool's queue of <<run, task>>
    saved,      \* the runs with a row in memory_embeddings
    recalled    \* recalled[r]: the past runs in the memory context of run r

vars == <<pc, session, rows, future, queue, saved, recalled>>

Tasks == Runs \X Kinds
Busy == {t \in Tasks : future[t[1]][t[2]] = "running"}

Init ==
    /\ pc = [r \in Runs |-> "route"]
    /\ session \in [Runs -> Sessions]
    /\ rows = [r \in Runs |-> "unknown"]
    /\ future = [r \in Runs |-> [k \in Kinds |-> "none"]]
    /\ queue = <<>>
    /\ saved = {}
    /\ recalled = [r \in Runs |-> {}]

-----------------------------------------------------------------------------
(***************************************************************************)
(* The thread of a run.                                                    *)
(***************************************************************************)
Goto(r, p) == pc' = [pc EXCEPT ![r] = p]

\* intent_router: a question about the data is planned, one about the last
\* result has nothing to run and goes to the output pipeline, and any other
\* ends the run.  The call to the model can raise, and so can the embedding
\* of the question, with which the planner begins.
Route(r) ==
    /\ pc[r] = "route"
    /\ \/ Goto(r, "ask_memory") /\ UNCHANGED rows
       \/ Goto(r, "output") /\ rows' = [rows EXCEPT ![r] = "empty"]
       \/ Goto(r, "answered") /\ UNCHANGED rows
       \/ Goto(r, "failed") /\ UNCHANGED rows
    /\ UNCHANGED <<session, future, queue, saved, recalled>>

\* submit(): the task goes to the end of the queue.
Submit(r) ==
    \E s \in Submits :
        /\ pc[r] = s[1]
        /\ future' = [future EXCEPT ![r][s[2]] = "queued"]
        /\ queue' = Append(queue, <<r, s[2]>>)
        /\ Goto(r, s[3])
        /\ UNCHANGED <<session, rows, saved, recalled>>

\* result(timeout=...) returns what the task returned,
AwaitReturns(r) ==
    \E w \in Waits :
        /\ pc[r] = w[1]
        /\ future[r][w[2]] = "done"
        /\ Goto(r, w[3])
        /\ UNCHANGED <<session, rows, future, queue, saved, recalled>>

\* raises what the task raised,
AwaitRaises(r) ==
    \E w \in Waits :
        /\ pc[r] = w[1]
        /\ future[r][w[2]] = "raised"
        /\ Goto(r, "failed")
        /\ UNCHANGED <<session, rows, future, queue, saved, recalled>>

\* Faulty: result() without a timeout.
WaitsForEver(r) == FALSE

\* Faulty: a part that is late is left out of the answer.
LeavesItOut(r) ==
    \E w \in Waits :
        /\ pc[r] = w[1]
        /\ future[r][w[2]] \in {"queued", "running"}
        /\ Goto(r, w[3])
        /\ UNCHANGED <<session, rows, future, queue, saved, recalled>>

\* or gives up on a task that has not ended, and cancels nothing.
AwaitTimesOut(r) ==
    \E w \in Waits :
        /\ pc[r] = w[1]
        /\ future[r][w[2]] \in {"queued", "running"}
        /\ Goto(r, "failed")
        /\ UNCHANGED <<session, rows, future, queue, saved, recalled>>

\* The planner's call to the model, on the run's own thread.
Plan(r) ==
    /\ pc[r] = "plan"
    /\ Goto(r, "compute") \/ Goto(r, "failed")
    /\ UNCHANGED <<session, rows, future, queue, saved, recalled>>

\* Code generation, validation and execution, with its corrections.
Compute(r) ==
    /\ pc[r] = "compute"
    /\ \/ /\ \E found \in {"some", "empty"} : rows' = [rows EXCEPT ![r] = found]
          /\ Goto(r, "output")
       \/ Goto(r, "failed") /\ UNCHANGED rows
    /\ UNCHANGED <<session, future, queue, saved, recalled>>

\* output_pipeline submits nothing when there is nothing to present.
Output(r) ==
    /\ pc[r] = "output"
    /\ Goto(r, IF rows[r] = "some" THEN "ask_insight" ELSE "record")
    /\ UNCHANGED <<session, rows, future, queue, saved, recalled>>

\* The graph ends after memory_updater; the write may not have begun.
Return(r) ==
    /\ pc[r] = "return"
    /\ Goto(r, "answered")
    /\ UNCHANGED <<session, rows, future, queue, saved, recalled>>

-----------------------------------------------------------------------------
(***************************************************************************)
(* The threads of the pool.                                                *)
(***************************************************************************)

\* An idle thread takes the task that has waited longest.
Take ==
    /\ queue # <<>>
    /\ Cardinality(Busy) < MaxWorkers
    /\ future' = [future EXCEPT ![Head(queue)[1]][Head(queue)[2]] = "running"]
    /\ queue' = Tail(queue)
    /\ UNCHANGED <<pc, session, rows, saved, recalled>>

\* memory_updater keeps a turn only if it has rows (and an insight, which it
\* has then); _safe_memory_write drops what the write raises.
Write(r) ==
    \/ rows[r] = "some" /\ saved' = saved \union {r}
    \/ UNCHANGED saved

\* The memory query reads the rows of the session, at most RecallLimit of
\* them, and keeps those that are similar enough.
Remember(r) ==
    \E found \in SUBSET {s \in saved : session[s] = session[r]} :
        /\ Cardinality(found) <= RecallLimit
        /\ recalled' = [recalled EXCEPT ![r] = found]

\* A task returns, or raises, which its future holds for whoever asks; the
\* thread is free again either way.
TaskReturns(r, k) ==
    /\ future[r][k] = "running"
    /\ future' = [future EXCEPT ![r][k] = "done"]
    /\ IF k = "write" THEN Write(r) ELSE UNCHANGED saved
    /\ IF k = "memory" THEN Remember(r) ELSE UNCHANGED recalled
    /\ UNCHANGED <<pc, session, rows, queue>>

TaskRaises(r, k) ==
    /\ future[r][k] = "running"
    /\ k # "write"
    /\ future' = [future EXCEPT ![r][k] = "raised"]
    /\ UNCHANGED <<pc, session, rows, queue, saved, recalled>>

-----------------------------------------------------------------------------
RunStep(r) ==
    \/ Route(r) \/ Submit(r)
    \/ AwaitReturns(r) \/ AwaitRaises(r) \/ AwaitTimesOut(r)
    \/ Plan(r) \/ Compute(r) \/ Output(r) \/ Return(r)

PoolStep == Take \/ \E t \in Tasks : TaskReturns(t[1], t[2]) \/ TaskRaises(t[1], t[2])

Next == PoolStep \/ \E r \in Runs : RunStep(r)

Spec == Init /\ [][Next]_vars

\* Every wait has a timeout, so the thread of a run always gets to its next
\* step, whatever the pool does, except that the code it runs may take forever
\* and the pool may lose its threads to calls that never come back: nothing
\* is assumed of PoolStep, nor of Compute.
FairSpec ==
    /\ Spec
    /\ \A r \in Runs : WF_vars(RunStep(r) /\ pc[r] # "compute")
-----------------------------------------------------------------------------
(***************************************************************************)
(* Properties.                                                             *)
(***************************************************************************)

\* Every variable has its type, and the pool never runs more tasks than it
\* has threads (max_workers=4, agent/graph.py:49-51).
TypeOK ==
    /\ pc \in [Runs -> Positions]
    /\ session \in [Runs -> Sessions]
    /\ rows \in [Runs -> {"unknown", "some", "empty"}]
    /\ future \in [Runs -> [Kinds -> {"none", "queued", "running", "done", "raised"}]]
    /\ queue \in Seq(Tasks)
    /\ saved \in SUBSET Runs
    /\ recalled \in [Runs -> SUBSET Runs]
    /\ Cardinality(Busy) <= MaxWorkers

\* What a run is reminded of is a turn of the same chat that was presented in
\* full.  A run that failed on a timeout goes on working in the background,
\* and none of what it does there may come back as a memory; nor may a run
\* be reminded of itself (agent/graph.py:79-112 and 183-221).
Presented == {r \in Runs : rows[r] = "some" /\ pc[r] \in {"return", "answered"}}

RecallsOnlyPresented ==
    \A r \in Runs : \A s \in recalled[r] :
        s # r /\ s \in Presented /\ session[s] = session[r]

\* A run never waits for the pool for good, even if every thread of the pool
\* is stuck in the tasks of others: it ends, or it is at the code it runs
\* itself (the timeouts of agent/graph.py:111-112 and 187-189).
EveryWaitEnds == \A r \in Runs : []<>(pc[r] \in {"compute", "answered", "failed"})

\* The fused nodes answer as the nodes run one after the other would: the plan
\* is made from both recalls, and an answer has all three of its parts or the
\* run fails (the docstrings at agent/graph.py:59-65 and 163-171).
Planning == {"route", "ask_memory", "ask_schema", "await_memory", "await_schema", "plan"}

StageOf(r) ==
    IF pc[r] = "failed" THEN "failed"
    ELSE IF pc[r] \in Planning THEN "planning"
    ELSE IF pc[r] = "compute" THEN "coding"
    ELSE IF pc[r] \in {"record", "return", "answered"} \/ rows[r] = "empty" THEN "answered"
    ELSE "presenting"

HaveOf(r) ==
    IF pc[r] = "failed" THEN {}
    ELSE {k \in Recalls \union Outputs : future[r][k] = "done"}

Sequential == INSTANCE SequentialNodes WITH
    stage <- [r \in Runs |-> StageOf(r)],
    have <- [r \in Runs |-> HaveOf(r)]

ImplementsSequentialNodes == Sequential!Spec
=============================================================================
