--------------------------- MODULE MCQueryService ---------------------------
(* Instances of QueryService for TLC. *)
EXTENDS QueryService

CONSTANTS r1, r2, r3, s1, s2

ThreeRequests == {r1, r2, r3}
TwoSessions == {s1, s2}
=============================================================================
