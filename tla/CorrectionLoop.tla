--------------------------- MODULE CorrectionLoop ---------------------------
(***************************************************************************)
(* What one question promises, whatever nodes the agent is built from: a   *)
(* program is proposed, it may run only after it has been approved, a      *)
(* failed run may be followed by at most MaxCorrections further proposals, *)
(* and the answer that is delivered is what the last proposal computed.    *)
(* AgentGraph implements this specification.                               *)
(***************************************************************************)
EXTENDS Integers

CONSTANTS
    Programs,        \* what can be proposed: a language and a text in it
    Approvable,      \* the programs the validators accept
    NoProgram,       \* nothing has been proposed yet
    NoAnswer,        \* there are no rows to answer with
    MaxCorrections   \* proposals that may follow the first one


VARIABLES
    stage,      \* how far the question has got
    proposal,   \* the program under discussion
    tries,      \* corrections made so far
    answer      \* rows computed, labelled with the program they come from

vars == <<stage, proposal, tries, answer>>

Answers == [of : Programs, rows : {"some", "none"}]

Init ==
    /\ stage = "open"
    /\ proposal = NoProgram
    /\ tries = 0
    /\ answer = NoAnswer

Propose(p) ==
    /\ stage = "open"
    /\ stage' = "proposed"
    /\ proposal' = p
    /\ UNCHANGED <<tries, answer>>

\* Nothing to compute: the question needs no program, or is out of scope and
\* delivered as it is.
Decline ==
    /\ stage = "open"
    /\ stage' \in {"settled", "delivered"}
    /\ UNCHANGED <<proposal, tries, answer>>

Approve ==
    /\ stage = "proposed"
    /\ proposal \in Approvable
    /\ stage' = "approved"
    /\ UNCHANGED <<proposal, tries, answer>>

Reject ==
    /\ stage = "proposed"
    /\ proposal \notin Approvable
    /\ stage' = "settled"
    /\ UNCHANGED <<proposal, tries, answer>>

RunSucceeds ==
    /\ stage = "approved"
    /\ stage' = "settled"
    /\ answer' \in {a \in Answers : a.of = proposal}
    /\ UNCHANGED <<proposal, tries>>

\* A failed run settles the question without an answer, or is retried while
\* corrections are left.
RunFails ==
    /\ stage = "approved"
    /\ stage' \in {"settled"} \cup (IF tries < MaxCorrections THEN {"retry"} ELSE {})
    /\ UNCHANGED <<proposal, tries, answer>>

\* A correction rewrites the program in the language it was written in.
Correct(p) ==
    /\ stage = "retry"
    /\ p[1] = proposal[1]
    /\ stage' = "proposed"
    /\ proposal' = p
    /\ tries' = tries + 1
    /\ UNCHANGED answer

Deliver ==
    /\ stage = "settled"
    /\ stage' = "delivered"
    /\ UNCHANGED <<proposal, tries, answer>>

Fail ==
    /\ stage \notin {"delivered", "failed"}
    /\ stage' = "failed"
    /\ UNCHANGED <<proposal, tries, answer>>

Next ==
    \/ \E p \in Programs : Propose(p) \/ Correct(p)
    \/ Decline
    \/ Approve
    \/ Reject
    \/ RunSucceeds
    \/ RunFails
    \/ Deliver
    \/ Fail

Spec == Init /\ [][Next]_vars
=============================================================================
