-------------------------- MODULE MCConnectionPool --------------------------
(* Instances of ConnectionPool for TLC. *)
EXTENDS ConnectionPool, TLC

CONSTANTS c1, c2, c3, c4, t1, t2, t3

TwoThreads == {t1, t2}
ThreeThreads == {t1, t2, t3}
ThreeConns == {c1, c2, c3}
FourConns == {c1, c2, c3, c4}

SymmetryThree == Permutations(ThreeConns) \cup Permutations(TwoThreads)
SymmetryFour == Permutations(FourConns) \cup Permutations(ThreeThreads)
=============================================================================
