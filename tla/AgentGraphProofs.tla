-------------------------- MODULE AgentGraphProofs --------------------------
(***************************************************************************)
(* Proofs about AgentGraph for any programs, validators and bounds.  The   *)
(* properties are not inductive by themselves: whether the executor's      *)
(* program is an accepted one depends on where the run stands, so IInv     *)
(* says for every node what the nodes before it have established.          *)
(***************************************************************************)
EXTENDS AgentGraph, TLAPS

Early == {"intent_router", "planner_with_memory", "sql_generator", "pandas_generator"}
InLoop == {"safety_validator", "executor", "error_classifier", "self_corrector"}

\* Before a generator has run, the state is the initial one.
EarlyInv ==
    node \in Early =>
        /\ code = NoCode
        /\ attempts = 0
        /\ result = NoResult
        /\ error = "None"

\* In the loop there is a program, its dialect is the engine's, and no rows yet.
LoopInv ==
    node \in InLoop =>
        /\ code \in Codes
        /\ codeType = "sql" => dialect = DialectOf(connector)
        /\ result = NoResult

ExecutorInv == node = "executor" => Running \in Accepted

CorrectionInv ==
    node \in {"error_classifier", "self_corrector"} =>
        /\ error = "message"
        /\ Running \in executed
        /\ attempts < MaxCorrections

ResultInv ==
    result # NoResult =>
        /\ code \in Codes
        /\ result.of = Running
        /\ Running \in Accepted

ProvenanceInv ==
    /\ executed \subseteq Accepted
    /\ \A e \in cache : e.of \in Accepted

\* Nodes run so far, by the node that is next; four more for every correction.
StepsInv ==
    /\ attempts <= MaxCorrections
    /\ node = "intent_router" => steps = 0
    /\ node = "planner_with_memory" => steps = 1
    /\ node \in {"sql_generator", "pandas_generator"} => steps = 2
    /\ node = "safety_validator" => steps = 3 + 4 * attempts
    /\ node = "executor" => steps = 4 + 4 * attempts
    /\ node = "error_classifier" => steps = 5 + 4 * attempts
    /\ node = "self_corrector" => steps = 6 + 4 * attempts
    /\ node = "output_pipeline" => steps <= 5 + 4 * attempts
    /\ node = "memory_updater" => steps <= 6 + 4 * attempts
    /\ node \in {"END", "ABORTED"} => steps <= 7 + 4 * attempts

RecordInv ==
    /\ write # "none" => node = "END"
    /\ write = "saved" => WorthRecording(result, insight)

IInv ==
    /\ TypeOK
    /\ EarlyInv
    /\ LoopInv
    /\ ExecutorInv
    /\ CorrectionInv
    /\ ResultInv
    /\ ProvenanceInv
    /\ StepsInv
    /\ RecordInv
    /\ GivesUpOnlyForAReason

-----------------------------------------------------------------------------
(* IInv is inductive.                                                      *)

\* The state a request starts in satisfies the invariant.
LEMMA InitEstablishes == Init => IInv
<1> USE CodesAssumption, BoundsAssumption, IdsAssumption
<1>1. Init => TypeOK
  <2> SUFFICES ASSUME Init PROVE TypeOK
    OBVIOUS
  <2>1. result \in Results \cup {NoResult} /\ cache \subseteq Results /\ executed \subseteq Programs
    BY DEF Init
  <2> QED
    BY <2>1 DEF Init, TypeOK, Nodes, Dialects, Errors, Intents
<1>2. Init => EarlyInv /\ LoopInv /\ ExecutorInv /\ CorrectionInv /\ ResultInv
  BY DEF Init, EarlyInv, LoopInv, ExecutorInv, CorrectionInv, ResultInv, InLoop
<1>3. Init => ProvenanceInv /\ StepsInv /\ RecordInv /\ GivesUpOnlyForAReason
  BY DEF Init, ProvenanceInv, StepsInv, RecordInv, GivesUpOnlyForAReason
<1> QED
  BY <1>1, <1>2, <1>3 DEF IInv

\* Every node, the background write and the other runs preserve the types.
LEMMA TypeStep == TypeOK /\ LoopInv /\ [Next]_vars => TypeOK'
<1> SUFFICES ASSUME TypeOK, LoopInv, [Next]_vars PROVE TypeOK'
  OBVIOUS
<1> USE DEF TypeOK, Nodes, Dialects, Languages, Programs, Results, NoResult, Errors, Intents,
            Run, request, program, outcome, shared, answer, background
<1>1. CASE IntentRouter
  BY <1>1 DEF IntentRouter, IntentFor, RouteIntent
<1>2. CASE PlannerWithMemory
  BY <1>2 DEF PlannerWithMemory, RouteAfterPlanning
<1>3. CASE SqlGenerator
  BY <1>3 DEF SqlGenerator, DialectOf
<1>4. CASE PandasGenerator
  BY <1>4 DEF PandasGenerator
<1>5. CASE SafetyValidator
  BY <1>5 DEF SafetyValidator, RouteAfterValidation
<1>6. CASE ExecutorCacheHit
  BY <1>6 DEF ExecutorCacheHit, RouteAfterExecution
<1>7. CASE ExecutorSucceeds
  <2>1. PICK rows \in {"some", "none"} :
          /\ executed' = executed \cup {Running}
          /\ result' = [of |-> Running, rows |-> rows]
          /\ cache' \in {cache, CachePut(Running, result')}
    BY <1>7 DEF ExecutorSucceeds
  <2>2. Running \in Programs
    BY <1>7 DEF ExecutorSucceeds, LoopInv, InLoop, Running, RunsAs
  <2>3. result' \in Results /\ executed' \subseteq Programs
    BY <2>1, <2>2
  <2>4. cache' \subseteq Results
    BY <2>1, <2>3 DEF CachePut
  <2>5. node' \in Nodes /\ steps' \in Nat /\ error' \in Errors
    BY <1>7 DEF ExecutorSucceeds, RouteAfterExecution
  <2>6. fromCache' \in BOOLEAN /\ UNCHANGED <<request, program, attempts, answer, background>>
    BY <1>7 DEF ExecutorSucceeds
  <2> HIDE DEF Programs, Results, NoResult
  <2> QED
    BY <2>3, <2>4, <2>5, <2>6
<1>8. CASE ExecutorFails
  <2>1. Running \in Programs
    BY <1>8 DEF ExecutorFails, LoopInv, InLoop, Running, RunsAs
  <2>2. executed' \subseteq Programs
    BY <1>8, <2>1 DEF ExecutorFails
  <2>3. node' \in Nodes /\ steps' \in Nat /\ error' \in Errors
    BY <1>8 DEF ExecutorFails, RouteAfterExecution
  <2>4. fromCache' \in BOOLEAN
    BY <1>8 DEF ExecutorFails
  <2>5. result' = NoResult /\ UNCHANGED <<request, program, attempts, cache, answer, background>>
    BY <1>8 DEF ExecutorFails
  <2> HIDE DEF Programs, Results, NoResult
  <2> QED
    BY <2>2, <2>3, <2>4, <2>5
<1>9. CASE ErrorClassifier
  BY <1>9 DEF ErrorClassifier
<1>10. CASE SelfCorrector
  BY <1>10 DEF SelfCorrector
<1>11. CASE OutputPipeline
  BY <1>11 DEF OutputPipeline
<1>12. CASE MemoryUpdater
  BY <1>12 DEF MemoryUpdater
<1>13. CASE RunRaises
  BY <1>13 DEF RunRaises
<1>14. CASE SafeMemoryWrite
  BY <1>14 DEF SafeMemoryWrite
<1>15. CASE OtherRuns
  BY <1>15, AcceptedAssumption DEF OtherRuns, CachePut
<1>16. CASE UNCHANGED vars
  BY <1>16 DEF vars
<1> QED
  BY <1>1, <1>2, <1>3, <1>4, <1>5, <1>6, <1>7, <1>8, <1>9, <1>10, <1>11, <1>12, <1>13, <1>14, <1>15, <1>16 DEF Next, GraphStep

\* Every node keeps the program, its dialect and the rows in step with the place
\* the run has reached.
LEMMA PlaceStep ==
    IInv /\ [Next]_vars => (EarlyInv /\ LoopInv /\ ExecutorInv /\ CorrectionInv /\ ResultInv)'
<1> SUFFICES ASSUME IInv, [Next]_vars
             PROVE  (EarlyInv /\ LoopInv /\ ExecutorInv /\ CorrectionInv /\ ResultInv)'
  OBVIOUS
<1> USE CodesAssumption
<1> USE DEF IInv, TypeOK, EarlyInv, LoopInv, ExecutorInv, CorrectionInv, ResultInv, Early,
            InLoop, Running, RunsAs, Nodes, NoResult, Results, Programs, Run,
            request, program, outcome, shared, answer, background
<1>1. CASE IntentRouter
  BY <1>1 DEF IntentRouter, RouteIntent
<1>2. CASE PlannerWithMemory
  BY <1>2 DEF PlannerWithMemory, RouteAfterPlanning
<1>3. CASE SqlGenerator
  BY <1>3 DEF SqlGenerator, DialectOf
<1>4. CASE PandasGenerator
  BY <1>4 DEF PandasGenerator
<1>5. CASE SafetyValidator
  BY <1>5 DEF SafetyValidator, RouteAfterValidation, ValidatedAs, DialectOf
<1>6. CASE ExecutorCacheHit
  BY <1>6 DEF ExecutorCacheHit, CacheKey, RouteAfterExecution, Truthy, ProvenanceInv
<1>7. CASE ExecutorSucceeds
  BY <1>7 DEF ExecutorSucceeds, RouteAfterExecution, Truthy
<1>8. CASE ExecutorFails
  BY <1>8 DEF ExecutorFails, RouteAfterExecution, Truthy
<1>9. CASE ErrorClassifier
  BY <1>9 DEF ErrorClassifier
<1>10. CASE SelfCorrector
  BY <1>10 DEF SelfCorrector
<1>11. CASE OutputPipeline
  BY <1>11 DEF OutputPipeline
<1>12. CASE MemoryUpdater
  BY <1>12 DEF MemoryUpdater
<1>13. CASE RunRaises
  BY <1>13 DEF RunRaises
<1>14. CASE SafeMemoryWrite
  BY <1>14 DEF SafeMemoryWrite
<1>15. CASE OtherRuns
  BY <1>15 DEF OtherRuns
<1>16. CASE UNCHANGED vars
  BY <1>16 DEF vars
<1> QED
  BY <1>1, <1>2, <1>3, <1>4, <1>5, <1>6, <1>7, <1>8, <1>9, <1>10, <1>11, <1>12, <1>13, <1>14, <1>15, <1>16 DEF Next, GraphStep

\* Only accepted programs are executed and cached, by this run and by the others.
LEMMA ProvenanceStep == IInv /\ [Next]_vars => ProvenanceInv'
<1> SUFFICES ASSUME IInv, [Next]_vars PROVE ProvenanceInv'
  OBVIOUS
<1> USE DEF IInv, ProvenanceInv
<1>1. CASE ExecutorSucceeds
  BY <1>1 DEF ExecutorSucceeds, Run, ExecutorInv, CachePut
<1>2. CASE ExecutorFails
  BY <1>2 DEF ExecutorFails, Run, ExecutorInv
<1>3. CASE OtherRuns
  BY <1>3 DEF OtherRuns, CachePut
<1>4. CASE UNCHANGED shared
  BY <1>4 DEF shared
<1> QED
  BY <1>1, <1>2, <1>3, <1>4
     DEF Next, GraphStep, IntentRouter, PlannerWithMemory, SqlGenerator, PandasGenerator,
         SafetyValidator, ExecutorCacheHit, ErrorClassifier, SelfCorrector, OutputPipeline,
         MemoryUpdater, RunRaises, SafeMemoryWrite, vars

\* A node adds one step, a correction four; giving up needs spent corrections.
LEMMA StepsStep == IInv /\ [Next]_vars => StepsInv' /\ GivesUpOnlyForAReason'
<1> SUFFICES ASSUME IInv, [Next]_vars PROVE StepsInv' /\ GivesUpOnlyForAReason'
  OBVIOUS
<1> USE BoundsAssumption
<1> USE DEF IInv, TypeOK, EarlyInv, Early, LoopInv, InLoop, CorrectionInv, StepsInv, GivesUpOnlyForAReason, Nodes, Run,
            request, program, outcome, shared, answer, background
<1>1. CASE IntentRouter
  BY <1>1 DEF IntentRouter, RouteIntent
<1>2. CASE PlannerWithMemory
  BY <1>2 DEF PlannerWithMemory, RouteAfterPlanning
<1>3. CASE SqlGenerator
  BY <1>3 DEF SqlGenerator
<1>4. CASE PandasGenerator
  BY <1>4 DEF PandasGenerator
<1>5. CASE SafetyValidator
  BY <1>5 DEF SafetyValidator, RouteAfterValidation
<1>6. CASE ExecutorCacheHit
  <2>1. result' # NoResult
    BY <1>6, CodesAssumption DEF ExecutorCacheHit, CacheKey, Running, NoResult
  <2> QED
    BY <1>6, <2>1 DEF ExecutorCacheHit, RouteAfterExecution, Truthy
<1>7. CASE ExecutorSucceeds
  <2>1. result' # NoResult
    BY <1>7, CodesAssumption DEF ExecutorSucceeds, Running, NoResult
  <2> QED
    BY <1>7, <2>1 DEF ExecutorSucceeds, RouteAfterExecution, Truthy
<1>8. CASE ExecutorFails
  BY <1>8 DEF ExecutorFails, RouteAfterExecution, Truthy
<1>9. CASE ErrorClassifier
  BY <1>9 DEF ErrorClassifier
<1>10. CASE SelfCorrector
  BY <1>10 DEF SelfCorrector
<1>11. CASE OutputPipeline
  BY <1>11 DEF OutputPipeline
<1>12. CASE MemoryUpdater
  BY <1>12 DEF MemoryUpdater
<1>13. CASE RunRaises
  BY <1>13 DEF RunRaises
<1>14. CASE SafeMemoryWrite
  BY <1>14 DEF SafeMemoryWrite
<1>15. CASE OtherRuns
  BY <1>15 DEF OtherRuns
<1>16. CASE UNCHANGED vars
  BY <1>16 DEF vars
<1> QED
  BY <1>1, <1>2, <1>3, <1>4, <1>5, <1>6, <1>7, <1>8, <1>9, <1>10, <1>11, <1>12, <1>13, <1>14, <1>15, <1>16 DEF Next, GraphStep

\* The history row is written after the run has ended, from its final state.
LEMMA RecordStep == IInv /\ [Next]_vars => RecordInv'
<1> SUFFICES ASSUME IInv, [Next]_vars PROVE RecordInv'
  OBVIOUS
<1> USE DEF IInv, RecordInv, Run, request, program, outcome, shared, answer, background
<1>1. CASE SafeMemoryWrite
  BY <1>1 DEF SafeMemoryWrite
<1>2. CASE OtherRuns
  BY <1>2 DEF OtherRuns, Nodes
<1>3. CASE GraphStep
  <2>1. node \in Nodes
    BY <1>3 DEF GraphStep, IntentRouter, PlannerWithMemory, SqlGenerator, PandasGenerator,
         SafetyValidator, ExecutorCacheHit, ExecutorSucceeds, ExecutorFails, ErrorClassifier,
         SelfCorrector, OutputPipeline, MemoryUpdater, RunRaises, Nodes
  <2>2. write = "none"
    BY <2>1 DEF Nodes, TypeOK
  <2>3. MemoryUpdater \/ UNCHANGED write
    BY <1>3 DEF GraphStep, IntentRouter, PlannerWithMemory, SqlGenerator, PandasGenerator,
         SafetyValidator, ExecutorCacheHit, ExecutorSucceeds, ExecutorFails, ErrorClassifier,
         SelfCorrector, OutputPipeline, RunRaises
  <2> QED
    BY <2>2, <2>3 DEF MemoryUpdater
<1>4. CASE UNCHANGED vars
  BY <1>4 DEF vars, WorthRecording, HasRows
<1> QED
  BY <1>1, <1>2, <1>3, <1>4 DEF Next

\* The invariant holds in every state of every run.
THEOREM Invariance == Spec => []IInv
<1>1. IInv /\ [Next]_vars => IInv'
  <2> SUFFICES ASSUME IInv, [Next]_vars PROVE IInv'
    OBVIOUS
  <2>1. TypeOK'
    BY TypeStep DEF IInv
  <2> QED
    BY <2>1, PlaceStep, ProvenanceStep, StepsStep, RecordStep DEF IInv
<1> QED
  BY InitEstablishes, <1>1, PTL DEF Spec

-----------------------------------------------------------------------------
(* What follows from it.                                                   *)

\* The state of a run keeps its types (agent/state.py).
THEOREM TypesCorrect == Spec => []TypeOK
<1>1. IInv => TypeOK
  BY DEF IInv
<1> QED
  BY Invariance, <1>1, PTL

\* For any validators and any number of corrections, a connector only ever
\* receives programs that the validator of its language accepts.
THEOREM AcceptedOnly == Spec => []OnlyAcceptedRuns
<1>1. IInv => OnlyAcceptedRuns
  BY DEF IInv, ProvenanceInv, OnlyAcceptedRuns
<1> QED
  BY Invariance, <1>1, PTL

\* The rows returned and the code returned beside them belong together.
THEOREM ShownCodeIsTheAnswers == Spec => []AnswerIsOfShownCode
<1>1. IInv => AnswerIsOfShownCode
  BY DEF IInv, ResultInv, AnswerIsOfShownCode
<1> QED
  BY Invariance, <1>1, PTL

\* The longest run takes 7 nodes and 4 for every correction: max_corrections
\* bounds the loop, and with 3 the graph stays below LangGraph's limit of 25.
StepsBounded == attempts <= MaxCorrections /\ steps <= 7 + 4 * MaxCorrections

\* max_corrections bounds the corrections and with them the nodes of a run.
THEOREM BoundedRun == Spec => []StepsBounded
<1>1. IInv => StepsBounded
  <2> SUFFICES ASSUME IInv PROVE StepsBounded
    OBVIOUS
  <2>1. node \in Nodes \cup {"END", "ABORTED"} /\ attempts \in Nat /\ steps \in Nat /\ StepsInv
    BY DEF IInv, TypeOK
  <2> QED
    BY <2>1, BoundsAssumption DEF StepsInv, StepsBounded, Nodes
<1> QED
  BY Invariance, <1>1, PTL

\* A recursion limit of 7 + 4 * max_corrections is enough for every run: 25 is,
\* for the 3 corrections of api/routers/query.py.
THEOREM NeverCutOff ==
    ASSUME RecursionLimit >= 7 + 4 * MaxCorrections
    PROVE  Spec => []NeverOutOfSteps
<1>1. IInv => NeverOutOfSteps
  <2> SUFFICES ASSUME IInv PROVE NeverOutOfSteps
    OBVIOUS
  <2>1. attempts \in Nat /\ steps \in Nat /\ StepsInv
    BY DEF IInv, TypeOK
  <2> QED
    BY <2>1, BoundsAssumption DEF StepsInv, NeverOutOfSteps, Nodes
<1> QED
  BY Invariance, <1>1, PTL

\* Whatever the bound on corrections: no rows means that no program was asked
\* for, or it was blocked, or every correction failed, or an error had no text.
THEOREM EmptyHandedForAReason == Spec => []GivesUpOnlyForAReason
<1>1. IInv => GivesUpOnlyForAReason
  BY DEF IInv
<1> QED
  BY Invariance, <1>1, PTL

\* History and memory hold answers with rows, computed by accepted programs.
THEOREM RecordsAreAnswers == Spec => []OnlyAnswersAreRecorded
<1>1. IInv => OnlyAnswersAreRecorded
  BY DEF IInv, RecordInv, ResultInv, OnlyAnswersAreRecorded, WorthRecording, HasRows, NoResult
<1> QED
  BY Invariance, <1>1, PTL

\* A correction replaces only a program that was executed and failed with an
\* error text to learn from; a blocked program is never handed to it.
OnlyFailedCodeIsCorrected ==
    [][attempts' # attempts => Running \in executed /\ error = "message"]_vars

\* self_corrector only ever rewrites a program that ran and failed with a text.
THEOREM CorrectsOnlyFailures == Spec => OnlyFailedCodeIsCorrected
<1>1. IInv /\ [Next]_vars => [attempts' # attempts => Running \in executed /\ error = "message"]_vars
  <2> SUFFICES ASSUME IInv, [Next]_vars, attempts' # attempts
               PROVE  Running \in executed /\ error = "message"
    OBVIOUS
  <2>1. SelfCorrector
    BY DEF Next, GraphStep, IntentRouter, PlannerWithMemory, SqlGenerator, PandasGenerator,
         SafetyValidator, ExecutorCacheHit, ExecutorSucceeds, ExecutorFails, ErrorClassifier,
         OutputPipeline, MemoryUpdater, RunRaises, SafeMemoryWrite, OtherRuns,
         vars, outcome
  <2> QED
    BY <2>1 DEF SelfCorrector, Run, IInv, CorrectionInv
<1> QED
  BY Invariance, <1>1, PTL DEF Spec, OnlyFailedCodeIsCorrected

-----------------------------------------------------------------------------
(* The graph implements CorrectionLoop.                                    *)

\* A request starts as an open question of the abstract loop.
LEMMA LoopInit == Init => Loop!Init
  BY DEF Init, Loop!Init, loopStage

\* Every node is a step of the abstract loop or leaves it as it is.
LEMMA LoopStep == IInv /\ [Next]_vars => [Loop!Next]_(Loop!vars)
<1> SUFFICES ASSUME IInv, [Next]_vars PROVE [Loop!Next]_(Loop!vars)
  OBVIOUS
<1> USE CodesAssumption
<1> USE DEF IInv, TypeOK, Running, RunsAs, Run, loopStage, Loop!vars,
            request, program, outcome, shared, answer, background
<1>1. CASE IntentRouter
  BY <1>1 DEF IntentRouter, RouteIntent, Loop!Next, Loop!Decline
<1>2. CASE PlannerWithMemory
  BY <1>2 DEF PlannerWithMemory, RouteAfterPlanning
<1>3. CASE SqlGenerator
  <2>1. code' \in Codes /\ Running' \in Programs
    BY <1>3 DEF SqlGenerator, Programs, Languages, Dialects
  <2>2. Loop!Propose(Running')
    BY <1>3, <2>1 DEF SqlGenerator, EarlyInv, Early, Loop!Propose
  <2> QED
    BY <2>1, <2>2 DEF Loop!Next
<1>4. CASE PandasGenerator
  <2>1. code' \in Codes /\ Running' \in Programs
    BY <1>4 DEF PandasGenerator, Programs, Languages, Dialects
  <2>2. Loop!Propose(Running')
    BY <1>4, <2>1 DEF PandasGenerator, EarlyInv, Early, Loop!Propose
  <2> QED
    BY <2>1, <2>2 DEF Loop!Next
<1>5. CASE SafetyValidator
  BY <1>5 DEF SafetyValidator, RouteAfterValidation, ValidatedAs, DialectOf, LoopInv, InLoop, Loop!Next, Loop!Approve, Loop!Reject
<1>6. CASE ExecutorCacheHit
  BY <1>6 DEF ExecutorCacheHit, CacheKey, RouteAfterExecution, Truthy, LoopInv, InLoop, Loop!Answers, Results, Loop!Next, Loop!RunSucceeds
<1>7. CASE ExecutorSucceeds
  BY <1>7 DEF ExecutorSucceeds, RouteAfterExecution, Truthy, LoopInv, InLoop, Loop!Answers, Programs, Languages, Dialects, Loop!Next, Loop!RunSucceeds
<1>8. CASE ExecutorFails
  BY <1>8 DEF ExecutorFails, RouteAfterExecution, Truthy, LoopInv, InLoop, StepsInv, Loop!Next, Loop!RunFails
<1>9. CASE ErrorClassifier
  BY <1>9 DEF ErrorClassifier
<1>10. CASE SelfCorrector
  <2>1. code' \in Codes /\ Running' \in Programs
    BY <1>10 DEF SelfCorrector, Programs, Languages, Dialects
  <2>2. Loop!Correct(Running')
    BY <1>10, <2>1 DEF SelfCorrector, LoopInv, InLoop, Loop!Correct
  <2> QED
    BY <2>1, <2>2 DEF Loop!Next
<1>11. CASE OutputPipeline
  BY <1>11 DEF OutputPipeline
<1>12. CASE MemoryUpdater
  BY <1>12 DEF MemoryUpdater, Loop!Next, Loop!Deliver
<1>13. CASE RunRaises
  BY <1>13 DEF RunRaises, Nodes, Loop!Next, Loop!Fail
<1>14. CASE SafeMemoryWrite
  BY <1>14 DEF SafeMemoryWrite
<1>15. CASE OtherRuns
  BY <1>15 DEF OtherRuns
<1>16. CASE UNCHANGED vars
  BY <1>16 DEF vars
<1> QED
  BY <1>1, <1>2, <1>3, <1>4, <1>5, <1>6, <1>7, <1>8, <1>9, <1>10, <1>11, <1>12, <1>13, <1>14, <1>15, <1>16 DEF Next, GraphStep

\* The agent graph keeps the promise of the abstract correction loop.
THEOREM Refinement == Spec => ImplementsCorrectionLoop
<1> QED
  BY Invariance, LoopInit, LoopStep, PTL DEF Spec, Loop!Spec, ImplementsCorrectionLoop
=============================================================================
