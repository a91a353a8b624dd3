----------------------------- MODULE ResultCache -----------------------------
(***************************************************************************)
(* agent/nodes/executor.py: results of validated code, kept in Redis for a *)
(* fixed time.  The key is a hash of the connector, the language and the   *)
(* code, and entries under different keys never meet: the module has one   *)
(* key, and the runs that execute the same code at the same time.          *)
(* A failure of Redis is a miss, or a result that is not kept.             *)
(***************************************************************************)
EXTENDS Progress

CONSTANTS
    TimeToLive,     \* the seconds given to setex
    ExecTime        \* how long a statement or a program takes that ends at all

ASSUME TimesAssumption == TimeToLive \in Nat \ {0} /\ ExecTime \in Nat

VARIABLES
    entry       \* the entry Redis has under the key

\* left: until Redis drops it; age: since the rows in it were read, at most.
NoEntry == [left |-> 0, age |-> 0]
Entries == [left : 1..TimeToLive, age : Nat] \union {NoEntry}

ResultCacheInit == entry = NoEntry

\* Faulty: an entry that is used stays for as long again.
HitRenews(r) ==
    /\ stage[r] = "lookup"
    /\ entry # NoEntry
    /\ Enter(r, "executed")
    /\ entry' = [entry EXCEPT !.left = TimeToLive]
CacheHit(r) ==
    /\ stage[r] = "lookup"
    /\ entry # NoEntry
    /\ Enter(r, "executed")
    /\ UNCHANGED entry

\* Nothing there, or Redis does not answer: the code is executed.
CacheMiss(r) ==
    /\ stage[r] = "lookup"
    /\ Enter(r, "executing")
    /\ UNCHANGED entry

\* The rows are there, read when the execution began at the earliest, and are
\* kept for the next one, unless Redis or their conversion to JSON fails.
Executed(r) ==
    /\ stage[r] = "executing"
    /\ Enter(r, "executed")
    /\ \/ entry' = [left |-> TimeToLive, age |-> timer[r]]
       \/ UNCHANGED entry

\* The code fails: nothing is kept.
ExecutionFails(r) ==
    /\ stage[r] = "executing"
    /\ Enter(r, "failed")
    /\ UNCHANGED entry

\* Nothing limits the time of a statement, of a program or of a command to Redis,
\* and one that does not end keeps the run for ever.
Hangs(r) ==
    /\ stage[r] \in {"lookup", "executing"}
    /\ Enter(r, "hung")
    /\ UNCHANGED entry

\* Redis counts down, and drops the entry at the end of its time.
EntryAges ==
    entry' = IF entry.left <= 1 THEN NoEntry
             ELSE [left |-> entry.left - 1, age |-> entry.age + 1]

-----------------------------------------------------------------------------
\* What a lookup is answered was read no longer ago than the hour an entry lives
\* and the execution that made it, however often it is used and by whomever it
\* is overwritten (executor.py:4, 79).
AnswersAreRecent == entry.age <= TimeToLive + ExecTime
=============================================================================
