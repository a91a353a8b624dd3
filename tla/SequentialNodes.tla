--------------------------- MODULE SequentialNodes ---------------------------
(***************************************************************************)
(* What the fused nodes of the agent graph promise: that running the parts *)
(* of a node at the same time changes how long it takes and nothing else.  *)
(* The query is planned from both recalls and answered from all three      *)
(* outputs, or it fails; no answer is put together from what happened to   *)
(* be there.                                                               *)
(***************************************************************************)
EXTENDS Naturals

CONSTANTS
    Runs,       \* the runs of the agent graph
    Recalls,    \* what the planner waits for
    Outputs     \* what the output pipeline waits for

Stages == {"planning", "coding", "presenting", "answered", "failed"}

VARIABLES
    stage,      \* stage[r]: how far run r is
    have        \* have[r]: the parts that have been worked out for run r

vars == <<stage, have>>

Init ==
    /\ stage = [r \in Runs |-> "planning"]
    /\ have = [r \in Runs |-> {}]

\* A part is worked out while the node it belongs to is running.
Part(r, p) ==
    /\ \/ stage[r] = "planning" /\ p \in Recalls
       \/ stage[r] = "presenting" /\ p \in Outputs
    /\ p \notin have[r]
    /\ have' = [have EXCEPT ![r] = @ \union {p}]
    /\ UNCHANGED stage

\* The planner's own part needs both recalls.
Plan(r) ==
    /\ stage[r] = "planning"
    /\ Recalls \subseteq have[r]
    /\ stage' = [stage EXCEPT ![r] = "coding"]
    /\ UNCHANGED have

\* The code has run and left rows to present; a question that needs no code
\* has none, and goes straight to the answer.
Present(r) ==
    /\ stage[r] = "coding"
    /\ stage' = [stage EXCEPT ![r] = "presenting"]
    /\ UNCHANGED have

AnswerWithoutRows(r) ==
    /\ \/ stage[r] = "coding"
       \/ stage[r] = "planning" /\ have[r] = {}
    /\ stage' = [stage EXCEPT ![r] = "answered"]
    /\ UNCHANGED have

Answer(r) ==
    /\ stage[r] = "presenting"
    /\ Outputs \subseteq have[r]
    /\ stage' = [stage EXCEPT ![r] = "answered"]
    /\ UNCHANGED have

Fail(r) ==
    /\ stage[r] \notin {"answered", "failed"}
    /\ stage' = [stage EXCEPT ![r] = "failed"]
    /\ have' = [have EXCEPT ![r] = {}]

Next ==
    \E r \in Runs :
        \/ \E p \in Recalls \union Outputs : Part(r, p)
        \/ Plan(r) \/ Present(r) \/ AnswerWithoutRows(r) \/ Answer(r) \/ Fail(r)

Spec == Init /\ [][Next]_vars
=============================================================================
