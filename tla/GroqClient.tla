----------------------------- MODULE GroqClient -----------------------------
(***************************************************************************)
(* llm/groq_client.py: a call of the language model over HTTP.  All        *)
(* threads share one client with a limited number of connections.  A call  *)
(* waits for a connection, sends its request and waits for the reply; both *)
(* waits have the same limit.  Only the refusal of a rate limit (429) is   *)
(* tried again, after a pause that holds no connection and for a fixed     *)
(* number of attempts.  Any other failure is raised.                       *)
(*                                                                         *)
(* A reply that is lost, or comes after the client has stopped waiting,    *)
(* was worked out by the server all the same.                              *)
(* httpx limits the wait for each piece of a reply: one that takes longer  *)
(* comes in pieces, and can go on for ever.                                *)
(***************************************************************************)
EXTENDS Progress

CONSTANTS
    MaxConnections, \* limits of the client
    Timeout,        \* its timeout, for a connection of the pool and for a reply
    Pauses          \* the pauses between attempts, <<2, 4>>

ASSUME ClientAssumption ==
    /\ MaxConnections \in Nat \ {0}
    /\ Timeout \in Nat \ {0}
    /\ Pauses \in Seq(Nat \ {0})

VARIABLES
    attempt,    \* attempt[r]: the attempts the call of run r has made
    worked      \* worked[r]: how often the server has worked out an answer to it

client == <<attempt, worked>>

Attempts == Len(Pauses) + 1

\* Faulty: the pauses begin at ten seconds.
LongPause(r) == 5 * Pauses[attempt[r]]
Pause(r) == Pauses[attempt[r]]

InUse == {r \in Runs : stage[r] \in {"sent", "trickling"}}
ConnectionFree == Cardinality(InUse) < MaxConnections

ClientTypes ==
    /\ attempt \in [Runs -> 0..Attempts]
    /\ worked \in [Runs -> 0..Attempts]

ClientInit ==
    /\ attempt = [r \in Runs |-> 0]
    /\ worked = [r \in Runs |-> 0]

\* complete or complete_system calls _post.
Post(r) ==
    /\ Enter(r, "queued")
    /\ attempt' = [attempt EXCEPT ![r] = 1]
    /\ UNCHANGED worked

\* The call is over.
Leave(r, s) ==
    /\ Enter(r, s)
    /\ attempt' = [attempt EXCEPT ![r] = 0]

Connect(r) ==
    /\ stage[r] = "queued"
    /\ ConnectionFree
    /\ Enter(r, "sent")
    /\ UNCHANGED client

PoolTimesOut(r) ==
    /\ stage[r] = "queued"
    /\ ~ConnectionFree
    /\ timer[r] = Timeout
    /\ Leave(r, "raised")
    /\ UNCHANGED worked

\* A piece of the reply comes in time, and nothing limits how many follow.
Trickles(r) ==
    /\ stage[r] = "sent"
    /\ timer[r] = Timeout
    /\ Enter(r, "trickling")
    /\ UNCHANGED client

Answers(r) ==
    /\ r \in InUse
    /\ Leave(r, "replied")
    /\ worked' = [worked EXCEPT ![r] = @ + 1]

\* 429, with an attempt left ...
RateLimited(r) ==
    /\ stage[r] = "sent"
    /\ attempt[r] < Attempts
    /\ Enter(r, "pausing")
    /\ UNCHANGED client

\* ... which is made after the pause, ...
Retry(r) ==
    /\ stage[r] = "pausing"
    /\ timer[r] = Pause(r)
    /\ Enter(r, "queued")
    /\ attempt' = [attempt EXCEPT ![r] = @ + 1]
    /\ UNCHANGED worked

\* ... or without one: RetryError.  Another status is raised as it is.
Refused(r) ==
    /\ stage[r] = "sent"
    /\ Leave(r, "raised")
    /\ UNCHANGED worked

\* The connection breaks, before or after the server did its work, ...
Breaks(r) ==
    /\ r \in InUse
    /\ Leave(r, "raised")
    /\ UNCHANGED worked \/ worked' = [worked EXCEPT ![r] = @ + 1]

\* Faulty: the client has no timeout.
NoTimeout(r) == FALSE /\ UNCHANGED <<stage, timer, client>>
\* Faulty: every exception is tried again.
TimeoutRetried(r) ==
    /\ stage[r] = "sent"
    /\ timer[r] = Timeout
    /\ IF attempt[r] < Attempts THEN Enter(r, "pausing") /\ UNCHANGED attempt
       ELSE Leave(r, "raised")
    /\ UNCHANGED worked \/ worked' = [worked EXCEPT ![r] = @ + 1]
\* ... or the reply does not come in time.
ReadTimesOut(r) ==
    /\ stage[r] = "sent"
    /\ timer[r] = Timeout
    /\ Leave(r, "raised")
    /\ UNCHANGED worked \/ worked' = [worked EXCEPT ![r] = @ + 1]

\* The thread that called goes on to stage s.
TakeReply(r, s) ==
    /\ stage[r] \in {"replied", "raised"}
    /\ Enter(r, s)
    /\ worked' = [worked EXCEPT ![r] = 0]
    /\ UNCHANGED attempt

\* What the server and the network do ...
Reply(r) ==
    \/ Trickles(r)
    \/ Answers(r)
    \/ RateLimited(r)
    \/ Refused(r)
    \/ Breaks(r)

\* ... and what the client does by itself.
ClientStep(r) ==
    \/ Connect(r)
    \/ PoolTimesOut(r)
    \/ Retry(r)
    \/ ReadTimesOut(r)

-----------------------------------------------------------------------------
\* However a call goes, refusals, pauses, lost and late replies included, the
\* server works out at most one answer to it: a retry never repeats work that
\* was done, and no answer that was paid for is asked for again (groq_client.py:25-52).
ModelWorksOnce == \A r \in Runs : worked[r] <= 1
=============================================================================
