------------------------------ MODULE Progress ------------------------------
(***************************************************************************)
(* Runs of the agent graph as what they call sees them: the stage each is  *)
(* in and how long it has been there.  Embedder, ResultCache and           *)
(* GroqClient have their own stages, and Services puts them in the order   *)
(* in which a run goes through them and lets the time pass.                *)
(***************************************************************************)
EXTENDS Integers, Sequences, FiniteSets

CONSTANTS Runs

ASSUME RunsAssumption == IsFiniteSet(Runs)

VARIABLES
    stage,      \* stage[r]: where run r is
    timer       \* timer[r]: for how long it has been there

\* Run r goes on to stage s.
Enter(r, s) ==
    /\ stage' = [stage EXCEPT ![r] = s]
    /\ timer' = [timer EXCEPT ![r] = 0]
=============================================================================
