---------------------------- MODULE MCAgentGraph ----------------------------
(* Instances of AgentGraph for TLC: two program texts, of which one is      *)
(* accepted as Postgres and as Python and the other as SQLite, so that a    *)
(* text validated in the wrong language is told apart.                      *)
EXTENDS AgentGraph

CONSTANTS draft, rewrite

MCCodes == {draft, rewrite}
MCAccepted == {<<"postgres", draft>>, <<"python", draft>>, <<"sqlite", rewrite>>}
=============================================================================
