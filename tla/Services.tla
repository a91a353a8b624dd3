------------------------------ MODULE Services ------------------------------
(***************************************************************************)
(* What a run of the agent graph calls, in the order of agent/graph.py,    *)
(* and the time it takes: the embedder, the model for the plan and the     *)
(* code, the executor with its cache, and the model for the insight.  The  *)
(* last call is made on a thread of the pool while the run waits for it,   *)
(* and a run that has waited for too long fails without ending the call:   *)
(* it keeps its thread, and its connection, until it is over.  The other   *)
(* tasks of the pool, and the order of all, are in ParallelPool.           *)
(*                                                                         *)
(* Time is discrete.  What takes no time happens before the next tick, and *)
(* no tick goes past a limit.                                              *)
(***************************************************************************)
EXTENDS Embedder, ResultCache, GroqClient

CONSTANTS
    PoolThreads,    \* max_workers of the pool
    Patience,   \* how long output_pipeline waits for the insight
    Slow,       \* the longest wait for a thread, a connection or a reply that is not slow
    Longest     \* the longest of the pauses

\* A call that is not slow, with the pauses between its attempts, takes less than
\* the patience: 3 + 2 * (3 + 3 + 4) + 3 + 3 < 30 with waits of three seconds.
ASSUME PatienceAssumption ==
    /\ PoolThreads \in Nat \ {0} /\ Patience \in Nat /\ Slow \in Nat /\ Longest \in Nat
    /\ \A i \in DOMAIN Pauses : Pauses[i] <= Longest
    /\ Slow < Timeout
    /\ Patience > (Attempts - 1) * (2 * Slow + Longest) + 3 * Slow

VARIABLES
    awaited,    \* awaited[r]: who waits for the call of the model: "run" is the
                \*   run's own thread, "future" the run, "nobody" if it has given up
    waited,     \* waited[r]: for how long the run has waited for the insight
    slow        \* slow[r]: a wait of that call was longer than Slow

deadline == <<awaited, waited, slow>>
vars == <<stage, timer, embedding, entry, client, deadline>>

Stages == {"idle", "embedding", "embedded", "submitted", "queued", "sent", "trickling",
           "pausing", "replied", "raised", "lookup", "executing", "hung", "executed", "failed"}

TypeOK ==
    /\ stage \in [Runs -> Stages]
    /\ timer \in [Runs -> Nat]
    /\ EmbedderTypes
    /\ entry \in Entries
    /\ ClientTypes
    /\ awaited \in [Runs -> {"run", "future", "nobody"}]
    /\ waited \in [Runs -> 0..Patience]
    /\ slow \in [Runs -> BOOLEAN]

Init ==
    /\ stage = [r \in Runs |-> "idle"]
    /\ timer = [r \in Runs |-> 0]
    /\ EmbedderInit
    /\ ResultCacheInit
    /\ ClientInit
    /\ awaited = [r \in Runs |-> "run"]
    /\ waited = [r \in Runs |-> 0]
    /\ slow = [r \in Runs |-> FALSE]

\* The run, or the call it left behind, is over.
Over(r) ==
    /\ awaited' = [awaited EXCEPT ![r] = "run"]
    /\ waited' = [waited EXCEPT ![r] = 0]
    /\ slow' = [slow EXCEPT ![r] = FALSE]

\* A question: the planner embeds it, or the tables it has to ingest first.
Ask(r) ==
    /\ stage[r] = "idle"
    /\ \/ \E t \in Texts : Embed(r, t)
       \/ \E batch \in Batches : EmbedBatch(r, batch)
    /\ UNCHANGED <<entry, client, deadline>>

\* The plan and the code are asked of the model on the run's own thread.
Think(r) ==
    /\ TakeVectors(r)
    /\ Post(r)
    /\ UNCHANGED <<entry, deadline>>

\* There is code, and it goes to the executor.
Thought(r) ==
    /\ stage[r] = "replied" /\ awaited[r] = "run"
    /\ TakeReply(r, "lookup")
    /\ UNCHANGED <<embedding, entry, deadline>>

\* There are rows, and output_pipeline submits the insight and waits.
Conclude(r) ==
    /\ stage[r] = "executed"
    /\ Enter(r, "submitted")
    /\ awaited' = [awaited EXCEPT ![r] = "future"]
    /\ UNCHANGED <<embedding, entry, client, waited, slow>>

\* A thread that is free takes the call that has waited longest.
Submitted == {r \in Runs : stage[r] = "submitted"}
OnPool == {r \in Runs \ Submitted : awaited[r] # "run"}
ThreadFree == Cardinality(OnPool) < PoolThreads

Start(r) ==
    /\ r \in Submitted
    /\ ThreadFree
    /\ \A s \in Submitted : waited[s] <= waited[r]
    /\ Post(r)
    /\ UNCHANGED <<embedding, entry, deadline>>

\* The future times out, and the run fails.
GiveUp(r) ==
    /\ awaited[r] = "future"
    /\ waited[r] = Patience
    /\ stage[r] \in {"submitted", "queued", "sent", "trickling", "pausing"}
    /\ awaited' = [awaited EXCEPT ![r] = "nobody"]
    /\ UNCHANGED <<stage, timer, embedding, entry, client, waited, slow>>

\* A call returns or raises: the run is answered or fails, unless it has already.
CallEnds(r) ==
    /\ stage[r] = "raised" \/ r \in OnPool
    /\ TakeReply(r, "idle")
    /\ Over(r)
    /\ UNCHANGED <<embedding, entry>>

\* The code fails; the correction of it is AgentGraph's.
CodeFails(r) ==
    /\ stage[r] = "failed"
    /\ Enter(r, "idle")
    /\ Over(r)
    /\ UNCHANGED <<embedding, entry, client>>

\* How long a run can stay in a stage that has a limit.
Unlimited == {"idle", "submitted", "trickling", "hung"}
Limit(r) ==
    IF stage[r] = "sent" \/ (stage[r] = "queued" /\ ~ConnectionFree) THEN Timeout
    ELSE IF stage[r] = "pausing" THEN Pause(r)
    ELSE IF stage[r] = "executing" THEN ExecTime
    ELSE 0

\* The tick that comes makes this wait a slow one.
Waits(r) ==
    /\ awaited[r] = "future"
    /\ \/ stage[r] \in {"queued", "sent"} /\ timer[r] >= Slow
       \/ stage[r] = "submitted" /\ waited[r] >= Slow

Tick ==
    /\ \A r \in Runs :
        /\ stage[r] \notin Unlimited => timer[r] < Limit(r)
        /\ stage[r] = "submitted" => ~ThreadFree
        /\ awaited[r] = "future" => waited[r] < Patience
    /\ timer' = [r \in Runs |-> IF stage[r] \in Unlimited THEN 0 ELSE timer[r] + 1]
    /\ waited' = [r \in Runs |-> waited[r] + IF awaited[r] = "future" THEN 1 ELSE 0]
    /\ slow' = [r \in Runs |-> slow[r] \/ Waits(r)]
    /\ EntryAges
    /\ UNCHANGED <<stage, embedding, client, awaited>>

RunStep(r) ==
    \/ StoreVectors(r) /\ UNCHANGED <<entry, client, deadline>>
    \/ Think(r)
    \/ Thought(r)
    \/ (CacheHit(r) \/ CacheMiss(r) \/ Executed(r) \/ ExecutionFails(r))
        /\ UNCHANGED <<embedding, client, deadline>>
    \/ Conclude(r)
    \/ Start(r)
    \/ GiveUp(r)
    \/ CallEnds(r)
    \/ CodeFails(r)
    \/ ClientStep(r) /\ UNCHANGED <<embedding, entry, deadline>>

\* What the servers do, of which nothing need ever come.
ServerStep(r) ==
    \/ Reply(r) /\ UNCHANGED <<embedding, entry, deadline>>
    \/ Hangs(r) /\ UNCHANGED <<embedding, client, deadline>>

Next == Tick \/ \E r \in Runs : Ask(r) \/ RunStep(r) \/ ServerStep(r)

Spec == Init /\ [][Next]_vars

\* Threads run, what does not hang ends, and time passes, whatever others do
\* meanwhile; the servers owe nobody a reply.
FairSpec ==
    /\ Spec
    /\ SF_vars(Tick)
    /\ \A r \in Runs : WF_vars(RunStep(r))

-----------------------------------------------------------------------------
\* The attempts of a call and the pauses between them fit in the time its run
\* waits for it: a run gives up on its insight only if a thread, a connection or a
\* reply made it wait for longer than Slow, never because of rate limits alone
\* (graph.py:187, groq_client.py:48-52).
BackoffFitsTheWait == \A r \in Runs : awaited[r] = "nobody" => slow[r]

\* A run is over when it is answered or has failed, which it can do before its call.
\* It is held up on its own thread by what has no limit: Redis or a connector that
\* does not answer, or a reply that never stops coming.
Ended(r) == stage[r] = "idle" \/ awaited[r] = "nobody"
HeldUp(r) == stage[r] = "hung" \/ (stage[r] = "trickling" /\ awaited[r] = "run")

\* Every run ends or is held up by its own server, whatever holds up the others, and
\* the call a run has left behind ends too, unless a reply that never stops keeps a
\* thread of the pool or the connection (groq_client.py:43, graph.py:187).
EveryQuestionEnds ==
    \A r \in Runs :
        /\ ~Ended(r) ~> Ended(r) \/ HeldUp(r)
        /\ awaited[r] = "nobody" ~> stage[r] = "idle" \/ \E s \in Runs : stage[s] = "trickling"
=============================================================================
