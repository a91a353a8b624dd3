---------------------------- MODULE QueryService ----------------------------
(***************************************************************************)
(* api/routers/query.py with agent/trace.py and agent/metrics.py: how one  *)
(* process answers the questions of many chats.                            *)
(*                                                                         *)
(* The handlers are coroutines of one event loop: the code between two     *)
(* awaits is one atomic action.  The agent runs they await are executed by *)
(* the loop's thread pool.  Conversations are Python lists that are handed *)
(* to the runs by reference, so a run may see turns that were appended     *)
(* after its question was asked; trimming replaces the list.               *)
(***************************************************************************)
EXTENDS Integers, Sequences, FiniteSets, SequencesExt

CONSTANTS
    Requests,     \* POSTs to /query/run and /query/stream
    Sessions,     \* session ids
    NoRequest,    \* nobody's tracer
    MaxHistory,   \* _MAX_HISTORY, 5
    MaxWorkers    \* threads of the loop's executor

ASSUME BoundsAssumption == MaxHistory \in Nat \ {0} /\ MaxWorkers \in Nat \ {0}
ASSUME NoRequestAssumption == NoRequest \notin Requests

VARIABLES
    kind,         \* per request: its endpoint
    session,      \* per request: its session id
    lists,        \* per session: every list _conversations has held for it
    history,      \* per request: which of them its run was handed, 0 for a new one
    queue,        \* runs that wait for a thread
    run,          \* per request: the state of its agent run
    reply,        \* per request: the state of its response
    total,        \* total_queries of the metrics
    loopTracer,   \* the tracer in the event loop's thread-local slot
    traced,       \* requests whose tracer has collected an event
    log           \* per session: all turns ever recorded (history variable)

request == <<kind, session>>
tracing == <<loopTracer, traced>>
record == <<lists, total, log>>
vars == <<request, history, queue, run, reply, tracing, record>>

TypeOK ==
    /\ kind \in [Requests -> {"run", "stream"}]
    /\ session \in [Requests -> Sessions]
    /\ lists \in [Sessions -> Seq(Seq(Requests))]
    /\ history \in [Requests -> Nat]
    /\ \A r \in Requests : history[r] \in 0..Len(lists[session[r]])
    /\ queue \in Seq(Requests)
    /\ run \in [Requests -> {"none", "queued", "running", "hung", "returned", "raised", "cancelled"}]
    /\ reply \in [Requests -> {"none", "waiting", "streaming", "answered", "failed", "gone"}]
    /\ total \in Nat
    /\ loopTracer \in Requests \cup {NoRequest}
    /\ traced \subseteq Requests
    /\ log \in [Sessions -> Seq(Requests)]

-----------------------------------------------------------------------------
(* Helpers.                                                                *)

\* conversation[-n:]
LastTurns(turns, n) == SubSeq(turns, IF Len(turns) > n THEN Len(turns) - n + 1 ELSE 1, Len(turns))

\* get_tracer: the slot is thread-local, and set on the event loop only.
GetTracer(onLoop) == IF onLoop THEN loopTracer ELSE NoRequest

\* Faulty: a thread is lost to every run that raises.
BusyForEver == {r \in Requests : run[r] \in {"running", "hung", "raised"}}
Busy == {r \in Requests : run[r] \in {"running", "hung"}}

\* Faulty: one past the current list.
HistoryPastEnd(r) == Len(lists[session[r]]) + 1
\* _build_initial_state: the list there is, or one of its own.
HistoryFor(r) == Len(lists[session[r]])

\* Faulty: the list the runs hold is itself cut.
TrimmedInPlace(held, r) ==
    LET all == IF held = <<>> THEN <<<<>>>> ELSE held
    IN  [all EXCEPT ![Len(all)] = LastTurns(Append(@, r), MaxHistory)]

\* _update_conversation: append to the current list, and replace it by a shorter
\* copy once it is too long.
WithTurn(held, r) ==
    LET all == IF held = <<>> THEN <<<<>>>> ELSE held
        last == Append(all[Len(all)], r)
        grown == [all EXCEPT ![Len(all)] = last]
    IN  IF Len(last) > MaxHistory THEN Append(grown, LastTurns(last, MaxHistory)) ELSE grown

-----------------------------------------------------------------------------
Init ==
    /\ kind \in [Requests -> {"run", "stream"}]
    /\ session \in [Requests -> Sessions]
    /\ lists = [s \in Sessions |-> <<>>]
    /\ history = [r \in Requests |-> 0]
    /\ queue = <<>>
    /\ run = [r \in Requests |-> "none"]
    /\ reply = [r \in Requests |-> "none"]
    /\ total = 0
    /\ loopTracer = NoRequest
    /\ traced = {}
    /\ log = [s \in Sessions |-> <<>>]

\* A handler up to its await of the run.
Arrive(r) ==
    /\ reply[r] = "none"
    /\ reply' = [reply EXCEPT ![r] = "waiting"]
    /\ history' = [history EXCEPT ![r] = HistoryFor(r)]
    /\ loopTracer' = r
    /\ run' = [run EXCEPT ![r] = "queued"]
    /\ queue' = Append(queue, r)
    /\ UNCHANGED <<request, traced, record>>

StartRun(r) ==
    /\ queue # <<>>
    /\ r = Head(queue)
    /\ Cardinality(Busy) < MaxWorkers
    /\ queue' = Tail(queue)
    /\ run' = [run EXCEPT ![r] = "running"]
    /\ UNCHANGED <<request, history, reply, tracing, record>>

\* The run ends; its nodes have traced into the tracer they found in their thread.
RunEnds(r) ==
    /\ run[r] = "running"
    /\ run' = [run EXCEPT ![r] = "returned"] \/ run' = [run EXCEPT ![r] = "raised"]
    /\ traced' = traced \cup ({GetTracer(FALSE)} \ {NoRequest})
    /\ UNCHANGED <<request, history, queue, reply, loopTracer, record>>

\* Pandas code without an end keeps its thread.
RunHangs(r) ==
    /\ run[r] = "running"
    /\ run' = [run EXCEPT ![r] = "hung"]
    /\ UNCHANGED <<request, history, queue, reply, tracing, record>>

\* The handler resumes with a result: the turn and the metrics are recorded.
\* The response of /run may still fail, on a value JSON cannot express.
ResumeReturned(r) ==
    /\ reply[r] = "waiting"
    /\ run[r] = "returned"
    /\ loopTracer' = NoRequest
    /\ lists' = [lists EXCEPT ![session[r]] = WithTurn(@, r)]
    /\ log' = [log EXCEPT ![session[r]] = Append(@, r)]
    /\ total' = total + 1
    /\ \E how \in IF kind[r] = "run" THEN {"answered", "failed"} ELSE {"streaming"} :
        reply' = [reply EXCEPT ![r] = how]
    /\ UNCHANGED <<request, history, queue, run, traced>>

\* Faulty: a run that raised leaves an empty turn.
FailureRecorded(r) ==
    /\ reply[r] = "waiting"
    /\ run[r] = "raised"
    /\ lists' = [lists EXCEPT ![session[r]] = WithTurn(@, r)]
    /\ log' = [log EXCEPT ![session[r]] = Append(@, r)]
    /\ total' = total + 1
    /\ loopTracer' = NoRequest
    /\ reply' = [reply EXCEPT ![r] = "failed"]
    /\ UNCHANGED <<request, history, queue, run, traced>>

\* The handler resumes with an exception; only run_query has a finally clause.
ResumeRaised(r) ==
    /\ reply[r] = "waiting"
    /\ run[r] = "raised"
    /\ loopTracer' = IF kind[r] = "run" THEN NoRequest ELSE loopTracer
    /\ reply' = [reply EXCEPT ![r] = "failed"]
    /\ UNCHANGED <<request, history, queue, run, traced, record>>

\* The trace, the words of the insight and the final event.
FinishStream(r) ==
    /\ reply[r] = "streaming"
    /\ reply' = [reply EXCEPT ![r] = "answered"]
    /\ UNCHANGED <<request, history, queue, run, tracing, record>>

\* The client of a stream goes away and its generator is cancelled where it
\* awaits.  A run that waits for a thread is cancelled with it, a run that has
\* one goes on for nobody.
Disconnect(r) ==
    /\ kind[r] = "stream"
    /\ reply[r] \in {"waiting", "streaming"}
    /\ reply' = [reply EXCEPT ![r] = "gone"]
    /\ IF run[r] = "queued"
       THEN /\ \E i \in DOMAIN queue : queue[i] = r /\ queue' = RemoveAt(queue, i)
            /\ run' = [run EXCEPT ![r] = "cancelled"]
       ELSE UNCHANGED <<queue, run>>
    /\ UNCHANGED <<request, history, tracing, record>>

Progress(r) ==
    \/ StartRun(r)
    \/ RunEnds(r)
    \/ ResumeReturned(r)
    \/ ResumeRaised(r)
    \/ FinishStream(r)

Next == \E r \in Requests : Arrive(r) \/ Progress(r) \/ RunHangs(r) \/ Disconnect(r)

Spec == Init /\ [][Next]_vars

\* The pool starts what it can, runs that do not hang end, and the event loop
\* resumes every coroutine whose result is there.
FairSpec == Spec /\ \A r \in Requests : WF_vars(Progress(r))

-----------------------------------------------------------------------------
(* Safety and liveness.                                                    *)

Recorded == {r \in Requests : r \in Range(log[session[r]])}

\* The conversation of a session holds the turns of its own requests, of runs
\* that returned, each once, and of every request that was answered; and the
\* metrics count exactly the recorded turns, whenever clients disconnect.
TurnsAreAnswers ==
    /\ \A s \in Sessions :
        /\ IsInjective(log[s])
        /\ \A r \in Range(log[s]) : session[r] = s /\ run[r] = "returned"
    /\ \A r \in Requests : reply[r] \in {"streaming", "answered"} => r \in Recorded
    /\ total = Cardinality(Recorded)

\* Every request is settled, unless its run hangs or all threads do.
EveryRequestSettles ==
    \A r \in Requests : reply[r] = "waiting" ~>
        \/ reply[r] \notin {"waiting", "streaming"}
        \/ run[r] = "hung"
        \/ Cardinality({q \in Requests : run[q] = "hung"}) = MaxWorkers

-----------------------------------------------------------------------------
(* The promise about conversations.                                        *)

\* Runs that read their history, or are still waited for.
Answering ==
    {r \in Requests : \/ run[r] \in {"queued", "running", "hung"}
                      \/ run[r] \in {"returned", "raised"} /\ reply[r] = "waiting"}

Current(s) == IF lists[s] = <<>> THEN <<>> ELSE lists[s][Len(lists[s])]

Given(r) ==
    IF r \in Answering /\ history[r] # 0 THEN lists[session[r]][history[r]] ELSE <<>>

Conversation == INSTANCE ConversationLog WITH
    Requests <- Requests,
    Sessions <- Sessions,
    MaxHistory <- MaxHistory,
    log <- log,
    memory <- [s \in Sessions |-> Current(s)],
    active <- Answering,
    view <- [r \in Requests |-> Given(r)]

\* A question is given the last turns of its session, and sees no turn vanish or
\* be skipped while it is being answered.
ImplementsConversationLog == Conversation!Spec

-----------------------------------------------------------------------------
(* What the documentation says and the code does not do.                   *)

\* query.py:4: /stream sends the trace events of the run, /run returns them.
TraceDelivered == \A r \in Requests : reply[r] = "answered" => r \in traced
=============================================================================
