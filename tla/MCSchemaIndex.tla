--------------------------- MODULE MCSchemaIndex ---------------------------
(* Instances of SchemaIndex for TLC. *)
EXTENDS SchemaIndex

CONSTANTS w1, q1

OneWorker == {w1}
OneConnector == {<<"neon", "public">>}
\* The id of one connector goes on where that of another ends, and so does a question.
ContinuedConnectors == {<<"pg", "x">>, <<"pg", "x", "sales">>}
ContinuedQuestions == {<<q1>>, <<"sales", q1>>}
OneQuestion == {<<q1>>}
=============================================================================
