----------------------------- MODULE MCServices -----------------------------
(***************************************************************************)
(* Two runs share one connection, a cache of one vector and a result that  *)
(* lives for three ticks.  Durations keep the order and the ratios that    *)
(* matter: the second pause is twice the first, three attempts that are    *)
(* not slow fit in the patience by one tick, and one that hangs does not.  *)
(***************************************************************************)
EXTENDS Services

CONSTANTS r1, r2, a, b

TwoRuns == {r1, r2}
TwoTexts == {a, b}
Tables == {<<b, a>>, <<a, a>>}
Doubling == <<1, 2>>
=============================================================================
