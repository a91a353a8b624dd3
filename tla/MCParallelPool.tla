--------------------------- MODULE MCParallelPool ---------------------------
(***************************************************************************)
(* The shared thread pool for TLC: two runs, of one chat or of two, and a  *)
(* pool of two threads, so that the tasks of one run can hold every thread *)
(* while the other waits.                                                  *)
(***************************************************************************)
EXTENDS ParallelPool, TLC

CONSTANTS r1, r2, s1, s2

TwoRuns == {r1, r2}
TwoSessions == {s1, s2}
=============================================================================
