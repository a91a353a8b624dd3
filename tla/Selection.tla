------------------------------ MODULE Selection ------------------------------
(***************************************************************************)
(* What a loop with a test keeps of a sequence.  (SelectSeq would do, but  *)
(* the prover knows it by name only.)                                      *)
(***************************************************************************)
EXTENDS Integers, Sequences, FiniteSets

\* The elements of s at some positions, in their order.
Picked(s, at) ==
    [n \in 1..Cardinality(at) |-> s[CHOOSE i \in at : Cardinality({j \in at : j <= i}) = n]]

\* The elements of s that pass a test, in their order.
Where(s, Test(_)) == Picked(s, {i \in DOMAIN s : Test(s[i])})
=============================================================================
