-------------------------- MODULE ConversationLog --------------------------
(***************************************************************************)
(* What the multi-turn memory of the chat promises: the turns of a session *)
(* form one log; a question is given the last MaxHistory turns there are   *)
(* when it is asked; and while it is being answered, turns may only be     *)
(* added to what it was given, in the order of the log and without gaps.   *)
(***************************************************************************)
EXTENDS Integers, Sequences, SequencesExt

CONSTANTS Requests, Sessions, MaxHistory

VARIABLES
    log,      \* per session: its turns, named by the requests that made them
    memory,   \* per session: what the next question will be given
    active,   \* requests that are being answered
    view      \* per request: the turns its agent run sees

vars == <<log, memory, active, view>>

LastTurns(turns, n) == SubSeq(turns, IF Len(turns) > n THEN Len(turns) - n + 1 ELSE 1, Len(turns))

Init ==
    /\ log = [s \in Sessions |-> <<>>]
    /\ memory = [s \in Sessions |-> <<>>]
    /\ active = {}
    /\ view = [r \in Requests |-> <<>>]

Ask(r, s) ==
    /\ r \notin active
    /\ active' = active \cup {r}
    /\ view' = [view EXCEPT ![r] = memory[s]]
    /\ UNCHANGED <<log, memory>>

\* r is forgotten: it failed, or nobody waits for it any more.
Drop(r) ==
    /\ r \in active
    /\ active' = active \ {r}
    /\ view' = [view EXCEPT ![r] = <<>>]
    /\ UNCHANGED <<log, memory>>

\* The turn of r is recorded; questions whose view ends where the log ended may
\* see it too.
Record(r, s) ==
    /\ r \in active
    /\ r \notin Range(log[s])
    /\ active' = active \ {r}
    /\ log' = [log EXCEPT ![s] = Append(@, r)]
    /\ memory' = [memory EXCEPT ![s] = LastTurns(log'[s], MaxHistory)]
    /\ \E Q \in SUBSET (active \ {r}) :
        /\ \A q \in Q : view[q] # <<>> /\ IsSuffix(view[q], log[s])
        /\ view' = [q \in Requests |->
                        IF q = r THEN <<>>
                        ELSE IF q \in Q THEN Append(view[q], r) ELSE view[q]]

Next ==
    \E r \in Requests :
        \/ \E s \in Sessions : Ask(r, s) \/ Record(r, s)
        \/ Drop(r)

Spec == Init /\ [][Next]_vars
=============================================================================
