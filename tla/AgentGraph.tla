----------------------------- MODULE AgentGraph -----------------------------
(***************************************************************************)
(* One invocation of the LangGraph agent (agent/graph.py and the nodes     *)
(* under agent/nodes): a question is routed, planned, turned into SQL or   *)
(* Pandas code, validated, executed, corrected while it fails, and         *)
(* summarised; its history row is then written by a background thread      *)
(* while the answer is already on its way to the user.                     *)
(*                                                                         *)
(* Every node is one function call on one worker thread, so a node is one  *)
(* atomic action.  Prompts, rows and messages are abstracted to what the   *)
(* routing functions and the properties tell apart.                        *)
(***************************************************************************)
EXTENDS Integers

CONSTANTS
    Codes,            \* program texts the language model may return
    NoCode,           \* generated_code before any generator has run
    Accepted,         \* the <<language, text>> pairs the validators accept
    MaxCorrections,   \* max_corrections of the initial state, 3
    RecursionLimit,   \* LangGraph's bound on the nodes of one run, 25
    HistoryIds,       \* what uuid4 may draw
    NoId              \* history_id None

Dialects == {"postgres", "sqlite"}
Languages == Dialects \cup {"python"}

ASSUME CodesAssumption == NoCode \notin Codes
ASSUME AcceptedAssumption == Accepted \subseteq Languages \X Codes
ASSUME BoundsAssumption == MaxCorrections \in Nat /\ RecursionLimit \in Nat
ASSUME IdsAssumption == NoId \notin HistoryIds

VARIABLES
    node,         \* the node about to run, "END", or "ABORTED" by an exception
    steps,        \* nodes run so far
    connector,    \* kind of data source the connector_id names
    hasHistory,   \* conversation_history is not empty
    intent,       \* intent
    code,         \* generated_code
    codeType,     \* code_type
    dialect,      \* sql_dialect
    error,        \* execution_error
    result,       \* execution_result, labelled with the program it comes from
    fromCache,    \* from_cache
    attempts,     \* correction_attempts
    insight,      \* insight_text
    historyId,    \* history_id
    cache,        \* the result cache in Redis, shared with all other runs
    executed,     \* programs handed to a connector (history variable)
    write,        \* progress of the background history write
    savedId       \* id of the query_history row this run wrote

request == <<connector, hasHistory>>
program == <<intent, code, codeType, dialect>>
outcome == <<error, result, fromCache, attempts>>
shared == <<cache, executed>>
answer == <<insight, historyId>>
background == <<write, savedId>>
vars == <<node, steps, request, program, outcome, shared, answer, background>>

Nodes == {"intent_router", "planner_with_memory", "sql_generator",
          "pandas_generator", "safety_validator", "executor",
          "error_classifier", "self_corrector", "output_pipeline",
          "memory_updater"}
\* What the classifier may reply: anything outside the four intents is "other".
Intents == {"sql", "pandas", "insight", "unsupported", "other"}
NoResult == [of |-> <<"none", NoCode>>, rows |-> "none"]
Programs == Languages \X Codes
Results == [of : Programs, rows : {"some", "none"}]
\* None, "SAFETY_BLOCK: ...", the text of an exception, and the empty text
\* that str() gives for an exception raised without a message.
Errors == {"None", "SAFETY_BLOCK", "message", "blank"}

TypeOK ==
    /\ node \in Nodes \cup {"END", "ABORTED"}
    /\ steps \in Nat
    /\ connector \in {"relational", "file"}
    /\ hasHistory \in BOOLEAN
    /\ intent \in Intents \cup {"blank"}
    /\ code \in Codes \cup {NoCode}
    /\ codeType \in {"sql", "pandas"}
    /\ dialect \in Dialects
    /\ error \in Errors
    /\ result \in Results \cup {NoResult}
    /\ fromCache \in BOOLEAN
    /\ attempts \in Nat
    /\ insight \in {"blank", "no_results", "summary"}
    /\ historyId \in HistoryIds \cup {NoId}
    /\ cache \subseteq Results
    /\ executed \subseteq Programs
    /\ write \in {"none", "queued", "saved", "skipped", "failed"}
    /\ savedId \in HistoryIds \cup {NoId}

-----------------------------------------------------------------------------
(* Helpers the nodes and the routing functions are built from.             *)

\* Python's truth of an optional text, and of an optional list of rows.
Truthy(err) == err \notin {"None", "blank"}
HasRows(res) == res.rows = "some"

\* Faulty: the default of the initial state is kept for every source.
DialectIsDefault(conn) == "postgres"

\* sql_generator: the dialect SQL is written and validated in.
DialectOf(conn) == IF conn = "relational" THEN "postgres" ELSE "sqlite"

\* safety_validator: the language a validator reads the code in.
ValidatedAs(type, dial) == IF type = "sql" THEN dial ELSE "python"

\* executor: the language the connector's engine runs the code in; SQL runs on
\* Postgres for a relational source and on SQLite for a file.
RunsAs(type, conn) ==
    IF type = "pandas" THEN "python"
    ELSE IF conn = "relational" THEN "postgres" ELSE "sqlite"

Running == <<RunsAs(codeType, connector), code>>

\* Faulty: the code alone, so that SQL and Pandas programs share entries.
CacheKeyOfText(p) == p[2]

\* executor._cache_key: connector, code type and code.
CacheKey(p) == p

\* executor: setex replaces the entry of the key.
CachePut(p, res) == {e \in cache : CacheKey(e.of) # CacheKey(p)} \cup {res}

RouteIntent(i) ==
    IF i = "unsupported" THEN "END"
    ELSE IF i = "insight" THEN "output_pipeline" ELSE "planner_with_memory"

RouteAfterPlanning(i) == IF i = "pandas" THEN "pandas_generator" ELSE "sql_generator"

BlockedToExecutor(err) == "executor"

RouteAfterValidation(err) == IF err = "SAFETY_BLOCK" THEN "output_pipeline" ELSE "executor"

\* Faulty: one correction too few.
OneLessCorrection(err, tried) ==
    IF Truthy(err) /\ tried + 1 < MaxCorrections THEN "error_classifier" ELSE "output_pipeline"

\* Faulty: one correction too many.
OneMoreCorrection(err, tried) ==
    IF Truthy(err) /\ tried <= MaxCorrections THEN "error_classifier" ELSE "output_pipeline"

RouteAfterExecution(err, tried) ==
    IF Truthy(err) /\ tried < MaxCorrections THEN "error_classifier" ELSE "output_pipeline"

\* The classifier's reply, with its safeguard: no insight without history.
IntentFor(reply, history) == IF reply = "insight" /\ ~history THEN "sql" ELSE reply

\* Faulty: the rows are not looked at.
RecordedWithInsight(res, text) == text # "blank"

\* memory_updater: a run is recorded only with rows and an insight.
WorthRecording(res, text) == HasRows(res) /\ text # "blank"

-----------------------------------------------------------------------------
Init ==
    /\ node = "intent_router"
    /\ steps = 0
    /\ connector \in {"relational", "file"}
    /\ hasHistory \in BOOLEAN
    /\ intent = "blank"
    /\ code = NoCode
    /\ codeType = "sql"
    /\ dialect = "postgres"
    /\ error = "None"
    /\ result = NoResult
    /\ fromCache = FALSE
    /\ attempts = 0
    /\ insight = "blank"
    /\ historyId = NoId
    /\ cache = {}
    /\ executed = {}
    /\ write = "none"
    /\ savedId = NoId

\* LangGraph runs node n, if the run has steps left, and goes on to node m.
Run(n, m) ==
    /\ node = n
    /\ steps < RecursionLimit
    /\ steps' = steps + 1
    /\ node' = m

IntentRouter ==
    \E reply \in Intents :
        /\ intent' = IntentFor(reply, hasHistory)
        /\ Run("intent_router", RouteIntent(intent'))
        /\ UNCHANGED <<request, code, codeType, dialect, outcome, shared, answer, background>>

\* Its memory and schema lookups change nothing here; what they feed is prompts.
PlannerWithMemory ==
    /\ Run("planner_with_memory", RouteAfterPlanning(intent))
    /\ UNCHANGED <<request, program, outcome, shared, answer, background>>

SqlGenerator ==
    /\ Run("sql_generator", "safety_validator")
    /\ code' \in Codes
    /\ codeType' = "sql"
    /\ dialect' = DialectOf(connector)
    /\ UNCHANGED <<request, intent, outcome, shared, answer, background>>

PandasGenerator ==
    /\ Run("pandas_generator", "safety_validator")
    /\ code' \in Codes
    /\ codeType' = "pandas"
    /\ UNCHANGED <<request, intent, dialect, outcome, shared, answer, background>>

SafetyValidator ==
    /\ IF <<ValidatedAs(codeType, dialect), code>> \in Accepted
       THEN error' = "None" /\ UNCHANGED result
       ELSE error' = "SAFETY_BLOCK" /\ result' = NoResult
    /\ Run("safety_validator", RouteAfterValidation(error'))
    /\ UNCHANGED <<request, program, fromCache, attempts, shared, answer, background>>

ExecutorCacheHit ==
    \E e \in cache :
        /\ CacheKey(e.of) = CacheKey(Running)
        /\ result' = e
        /\ error' = "None"
        /\ fromCache' = TRUE
        /\ Run("executor", RouteAfterExecution(error', attempts))
        /\ UNCHANGED <<request, program, attempts, shared, answer, background>>

\* The cache missed, or Redis failed.  A relational connector cannot load a
\* data frame without a table name, so Pandas code only succeeds on a file.
ExecutorSucceeds ==
    \E rows \in {"some", "none"} :
        /\ codeType = "pandas" => connector = "file"
        /\ executed' = executed \cup {Running}
        /\ result' = [of |-> Running, rows |-> rows]
        /\ error' = "None"
        /\ fromCache' = FALSE
        /\ cache' \in {cache, CachePut(Running, result')}
        /\ Run("executor", RouteAfterExecution(error', attempts))
        /\ UNCHANGED <<request, program, attempts, answer, background>>

ExecutorFails ==
    \E err \in {"message", "blank"} :
        /\ executed' = executed \cup {Running}
        /\ result' = NoResult
        /\ error' = err
        /\ fromCache' = FALSE
        /\ Run("executor", RouteAfterExecution(error', attempts))
        /\ UNCHANGED <<request, program, attempts, cache, answer, background>>

\* error_class only selects the hint of the next prompt.
ErrorClassifier ==
    /\ Run("error_classifier", "self_corrector")
    /\ UNCHANGED <<request, program, outcome, shared, answer, background>>

\* Its own test of max_attempts never succeeds: RouteAfterExecution made it.
SelfCorrector ==
    /\ Run("self_corrector", "safety_validator")
    /\ code' \in Codes
    /\ attempts' = attempts + 1
    /\ error' = "None"
    /\ UNCHANGED <<request, intent, codeType, dialect, result, fromCache, shared, answer, background>>

\* The insight is the model's reply, possibly empty.
OutputPipeline ==
    /\ Run("output_pipeline", "memory_updater")
    /\ insight' \in IF HasRows(result) THEN {"summary", "blank"} ELSE {"no_results"}
    /\ UNCHANGED <<request, program, outcome, shared, historyId, background>>

\* The write is submitted to the thread pool and an id is returned at once.
MemoryUpdater ==
    /\ Run("memory_updater", "END")
    /\ write' = "queued"
    /\ historyId' \in HistoryIds
    /\ UNCHANGED <<request, program, outcome, shared, insight, savedId>>

\* A node that calls a model, a database or a parser may raise, and LangGraph
\* raises in the place of any node once the run has no steps left; the run is
\* lost with it.
RunRaises ==
    /\ node \in Nodes
    /\ node # "memory_updater" \/ steps >= RecursionLimit
    /\ node' = "ABORTED"
    /\ UNCHANGED <<steps, request, program, outcome, shared, answer, background>>


\* The background thread draws an id of its own (uuid4 never repeats one); an
\* exception of the write is swallowed.  The row is "saved" once it is stored, also
\* if the reply to its commit was lost.
SafeMemoryWrite ==
    /\ write = "queued"
    /\ IF WorthRecording(result, insight)
       THEN \/ write' = "saved" /\ savedId' \in HistoryIds \ {historyId}
            \/ write' = "failed" /\ UNCHANGED savedId
       ELSE write' = "skipped" /\ UNCHANGED savedId
    /\ UNCHANGED <<node, steps, request, program, outcome, shared, answer>>

\* Other runs of the agent fill the same cache with what they executed, which
\* their validators had accepted, and entries expire after an hour.
OtherRuns ==
    /\ node \in Nodes
    /\ \/ \E p \in Accepted, r \in {"some", "none"} :
            /\ p[1] \in {"python", DialectOf(connector)}
            /\ cache' = CachePut(p, [of |-> p, rows |-> r])
       \/ \E e \in cache : cache' = cache \ {e}
    /\ UNCHANGED <<node, steps, request, program, outcome, executed, answer, background>>

GraphStep ==
    \/ IntentRouter
    \/ PlannerWithMemory
    \/ SqlGenerator
    \/ PandasGenerator
    \/ SafetyValidator
    \/ ExecutorCacheHit
    \/ ExecutorSucceeds
    \/ ExecutorFails
    \/ ErrorClassifier
    \/ SelfCorrector
    \/ OutputPipeline
    \/ MemoryUpdater
    \/ RunRaises

Next == GraphStep \/ SafeMemoryWrite \/ OtherRuns

Spec == Init /\ [][Next]_vars

\* The executor runs generated code, SQL or Pandas, and nothing limits how long
\* an engine or the sandbox takes for it, so it may never return.  The other
\* nodes wait on futures and on a client that have timeouts, and the background
\* thread takes what is queued; its two INSERTs are assumed to be answered.
RunsGenerated == node = "executor"

FairSpec ==
    /\ Spec
    /\ WF_vars(~RunsGenerated /\ GraphStep)
    /\ WF_vars(SafeMemoryWrite)

-----------------------------------------------------------------------------
(* Safety.                                                                 *)

\* Whatever reaches a connector has been accepted by the validator of the
\* language that connector runs, after every correction as well: the loop of
\* graph.py goes through safety_validator each time, and the dialect chosen by
\* sql_generator is the one of the engine.
OnlyAcceptedRuns == executed \subseteq Accepted

\* The rows of an answer were computed by the very code that is shown with them
\* and stored in history, be it now or earlier through the result cache.
AnswerIsOfShownCode == result # NoResult => result.of = Running

\* The longest run takes 7 nodes and 4 for every correction: with a recursion
\* limit of at least that, no run is cut off by it (25 is, for 3 corrections).
NeverOutOfSteps == node \in Nodes => steps < RecursionLimit

\* What later questions recall from history and memory is an answer with rows
\* and an insight, computed by a program the validators accept.
OnlyAnswersAreRecorded ==
    write = "saved" => HasRows(result) /\ insight # "blank" /\ result.of \in Accepted

\* A run turns to its output without rows only if it was to have no program, if
\* its program is blocked, if all corrections are spent on an error that has a
\* text, or if the error has none: graph.py:259 takes the blank one for success,
\* so that it ends the run uncorrected, however many attempts are left.
GivesUpOnlyForAReason ==
    node \in {"output_pipeline", "memory_updater", "END"} /\ result = NoResult =>
        \/ code = NoCode
        \/ error \in {"SAFETY_BLOCK", "blank"}
        \/ error = "message" /\ attempts = MaxCorrections


-----------------------------------------------------------------------------
(* What the documentation says and the code does not do.                   *)

\* state.py:50: the history_id of the final state belongs to the persisted row.
HistoryIdNamesTheRow == write = "saved" => savedId = historyId

-----------------------------------------------------------------------------
(* The promise this graph implements.                                      *)

loopStage ==
    IF node \in {"intent_router", "planner_with_memory", "sql_generator", "pandas_generator"}
    THEN "open"
    ELSE IF node = "safety_validator" THEN "proposed"
    ELSE IF node = "executor" THEN "approved"
    ELSE IF node \in {"error_classifier", "self_corrector"} THEN "retry"
    ELSE IF node \in {"output_pipeline", "memory_updater"} THEN "settled"
    ELSE IF node = "END" THEN "delivered"
    ELSE "failed"

Loop == INSTANCE CorrectionLoop WITH
    Programs <- Programs,
    Approvable <- Accepted,
    NoProgram <- <<"none", NoCode>>,
    NoAnswer <- NoResult,
    MaxCorrections <- MaxCorrections,
    stage <- loopStage,
    proposal <- IF code = NoCode THEN <<"none", NoCode>> ELSE Running,
    tries <- attempts,
    answer <- result

\* The agent runs only approved programs, retries boundedly, and delivers what
\* the last program computed.
ImplementsCorrectionLoop == Loop!Spec
=============================================================================
