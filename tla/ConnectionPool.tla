--------------------------- MODULE ConnectionPool ---------------------------
(***************************************************************************)
(* db/pool.py: threads that borrow a pooled psycopg2 connection for a      *)
(* read, a write or a browse (a read that forgets to say so), and return   *)
(* it.  A connection keeps its session characteristics while it sits in    *)
(* the pool, so what one borrower leaves behind the next one finds.  The   *)
(* server may drop connections, and the application may shut down while    *)
(* threads still hold some.                                                *)
(***************************************************************************)
EXTENDS Integers, FiniteSets

CONSTANTS
    Threads,   \* request, agent and background threads of the process
    Conns,     \* identities a connection can have
    NoConn,    \* a thread holds nothing
    MinConn,   \* minconn: idle connections kept open
    MaxConn    \* maxconn: connections lent at the same time

ASSUME PoolSizeAssumption ==
    MinConn \in Nat /\ MaxConn \in Nat /\ 1 <= MinConn /\ MinConn <= MaxConn
ASSUME NoConnAssumption == NoConn \notin Conns

VARIABLES
    closed,    \* there is no pool, or it has been closed
    idle,      \* connections waiting in the pool
    used,      \* connections the pool has lent
    status,    \* per connection: "live", "dropped" by the server, or "closed"
    session,   \* per connection: readonly and autocommit of its session
    inTxn,     \* per connection: a transaction is open
    pc,        \* per thread: how far it is in its with block
    op,        \* per thread: what it borrowed the connection for
    held,      \* per thread: the connection it holds
    outcome,   \* per thread: how its last with block ended
    stored,    \* per thread: statements of its write that are durable
    down       \* the application has run its shutdown handler

pool == <<closed, idle, used>>
conn == <<status, session, inTxn>>
thread == <<pc, op, held, outcome, stored>>
vars == <<pool, conn, thread, down>>

Ops == {"read", "write", "browse"}
Writable == [readonly |-> FALSE, autocommit |-> FALSE]
ReadOnly == [readonly |-> TRUE, autocommit |-> TRUE]

TypeOK ==
    /\ closed \in BOOLEAN
    /\ idle \subseteq Conns
    /\ used \subseteq Conns
    /\ status \in [Conns -> {"live", "dropped", "closed"}]
    /\ session \in [Conns -> {Writable, ReadOnly}]
    /\ inTxn \in [Conns -> BOOLEAN]
    /\ pc \in [Threads -> {"out", "held", "ready", "half", "leaving"}]
    /\ op \in [Threads -> Ops]
    /\ held \in [Threads -> Conns \cup {NoConn}]
    /\ outcome \in [Threads -> {"none", "ok", "error"}]
    /\ stored \in [Threads -> 0..2]
    /\ down \in BOOLEAN

-----------------------------------------------------------------------------
(* Helpers.                                                                *)

Held == {held[t] : t \in Threads}
\* Identities a new connection may take.
Fresh == {c \in Conns : status[c] = "closed" /\ c \notin idle \cup used \cup Held}

\* psycopg2.connect gives every connection of S a new session.
Connected(S) == [c \in Conns |-> IF c \in S THEN "live" ELSE status[c]]
NewSessions(S) == [c \in Conns |-> IF c \in S THEN Writable ELSE session[c]]

\* get_pool: the minimum of connections is opened with a new pool.
NewPool(S) == S \subseteq Fresh /\ IsFiniteSet(S) /\ Cardinality(S) = MinConn

\* Faulty: the session is made writable again, but keeps its autocommit.
AutocommitKept(t) ==
    IF op[t] = "read" THEN session[held[t]] ELSE [readonly |-> FALSE, autocommit |-> TRUE]

\* pooled_connection: what the exit of the with block leaves of the session.
AfterReset(t) ==
    LET c == held[t]
    IN  IF op[t] # "read" /\ status[c] = "live" /\ ~inTxn[c] THEN Writable ELSE session[c]

\* ThreadedConnectionPool.putconn keeps a connection up to the minimum only.
Kept(c, waiting) == status[c] # "closed" /\ Cardinality(waiting) < MinConn

\* Before it keeps c, and before it frees its slot, it rolls c back.  On a lost
\* connection that raises; release_connection swallows it.
PutRaises(c, waiting) == Kept(c, waiting) /\ inTxn[c] /\ status[c] = "dropped"

-----------------------------------------------------------------------------
Init ==
    /\ closed = TRUE
    /\ idle = {}
    /\ used = {}
    /\ status = [c \in Conns |-> "closed"]
    /\ session = [c \in Conns |-> Writable]
    /\ inTxn = [c \in Conns |-> FALSE]
    /\ pc = [t \in Threads |-> "out"]
    /\ op = [t \in Threads |-> "read"]
    /\ held = [t \in Threads |-> NoConn]
    /\ outcome = [t \in Threads |-> "none"]
    /\ stored = [t \in Threads |-> 0]
    /\ down = FALSE

\* Faulty: a reader starts without setting its session.
EnterReady(t, o, c) ==
    /\ pc' = [pc EXCEPT ![t] = "ready"]
    /\ op' = [op EXCEPT ![t] = o]
    /\ held' = [held EXCEPT ![t] = c]
    /\ outcome' = [outcome EXCEPT ![t] = "none"]
    /\ stored' = [stored EXCEPT ![t] = 0]
    /\ UNCHANGED down

\* A thread enters its with block holding c; only a reader sets the session.
Enter(t, o, c) ==
    /\ pc' = [pc EXCEPT ![t] = IF o = "read" THEN "held" ELSE "ready"]
    /\ op' = [op EXCEPT ![t] = o]
    /\ held' = [held EXCEPT ![t] = c]
    /\ outcome' = [outcome EXCEPT ![t] = "none"]
    /\ stored' = [stored EXCEPT ![t] = 0]
    /\ UNCHANGED down

\* getconn takes a waiting connection (psycopg2 the last one returned) ...
AcquireIdle(t, o) ==
    /\ pc[t] = "out"
    /\ ~closed
    /\ \E c \in idle :
        /\ idle' = idle \ {c}
        /\ used' = used \cup {c}
        /\ Enter(t, o, c)
    /\ UNCHANGED <<closed, conn>>

\* ... or opens one more ...
AcquireNew(t, o) ==
    /\ pc[t] = "out"
    /\ ~closed
    /\ idle = {}
    /\ Cardinality(used) < MaxConn
    /\ \E c \in Fresh :
        /\ used' = used \cup {c}
        /\ status' = Connected({c})
        /\ session' = NewSessions({c})
        /\ Enter(t, o, c)
    /\ UNCHANGED <<closed, idle, inTxn>>

\* ... or raises PoolError: nobody waits for a connection.
AcquireExhausted(t, o) ==
    /\ pc[t] = "out"
    /\ ~closed
    /\ idle = {}
    /\ Cardinality(used) >= MaxConn
    /\ op' = [op EXCEPT ![t] = o]
    /\ outcome' = [outcome EXCEPT ![t] = "error"]
    /\ stored' = [stored EXCEPT ![t] = 0]
    /\ UNCHANGED <<pool, conn, pc, held, down>>

\* The first borrower, or the first after a shutdown, opens the pool.
AcquireOpens(t, o) ==
    /\ pc[t] = "out"
    /\ closed
    /\ \E S \in SUBSET Conns :
        /\ NewPool(S)
        /\ \E c \in S :
            /\ idle' = S \ {c}
            /\ used' = {c}
            /\ Enter(t, o, c)
        /\ status' = Connected(S)
        /\ session' = NewSessions(S)
    /\ closed' = FALSE
    /\ UNCHANGED inTxn

\* set_session(readonly=True, autocommit=True); a session that is so already
\* needs no statement, and does not notice a dropped connection.
SetReadOnly(t) ==
    /\ pc[t] = "held"
    /\ status[held[t]] = "live" \/ (status[held[t]] = "dropped" /\ session[held[t]] = ReadOnly)
    /\ session' = [session EXCEPT ![held[t]] = ReadOnly]
    /\ pc' = [pc EXCEPT ![t] = "ready"]
    /\ UNCHANGED <<pool, status, inTxn, op, held, outcome, stored, down>>

\* The with block ends without an exception.
Done(t) ==
    /\ pc' = [pc EXCEPT ![t] = "leaving"]
    /\ outcome' = [outcome EXCEPT ![t] = "ok"]

Read(t) ==
    /\ pc[t] = "ready"
    /\ op[t] = "read"
    /\ status[held[t]] = "live"
    /\ Done(t)
    /\ UNCHANGED <<pool, conn, op, held, stored, down>>

\* A listing that borrows a writable connection and never commits.
Browse(t) ==
    /\ pc[t] = "ready"
    /\ op[t] = "browse"
    /\ status[held[t]] = "live"
    /\ inTxn' = [inTxn EXCEPT ![held[t]] = ~session[held[t]].autocommit]
    /\ Done(t)
    /\ UNCHANGED <<pool, status, session, op, held, stored, down>>

\* The first statement of a write; a read-only session refuses it.
WriteFirst(t) ==
    /\ pc[t] = "ready"
    /\ op[t] = "write"
    /\ status[held[t]] = "live"
    /\ ~session[held[t]].readonly
    /\ inTxn' = [inTxn EXCEPT ![held[t]] = ~session[held[t]].autocommit]
    /\ stored' = [stored EXCEPT ![t] = IF session[held[t]].autocommit THEN 1 ELSE 0]
    /\ pc' = [pc EXCEPT ![t] = "half"]
    /\ UNCHANGED <<pool, status, session, op, held, outcome, down>>

\* The remaining statements and the commit.
WriteRest(t) ==
    /\ pc[t] = "half"
    /\ status[held[t]] = "live"
    /\ inTxn' = [inTxn EXCEPT ![held[t]] = FALSE]
    /\ stored' = [stored EXCEPT ![t] = 2]
    /\ Done(t)
    /\ UNCHANGED <<pool, status, session, op, held, down>>

\* The connection is lost after the commit has become durable and before its
\* reply has come: the write raises, with everything stored.
CommitUnanswered(t) ==
    /\ pc[t] = "half"
    /\ status[held[t]] = "live"
    /\ status' = [status EXCEPT ![held[t]] = "closed"]
    /\ inTxn' = [inTxn EXCEPT ![held[t]] = FALSE]
    /\ stored' = [stored EXCEPT ![t] = 2]
    /\ pc' = [pc EXCEPT ![t] = "leaving"]
    /\ outcome' = [outcome EXCEPT ![t] = "error"]
    /\ UNCHANGED <<pool, session, op, held, down>>

\* Faulty: the except clause returns the connection, before the finally clause;
\* or a dropped connection makes the statement hang and never raise.
RaisesAndReturns(t) ==
    /\ pc[t] \in {"held", "ready", "half"}
    /\ pc' = [pc EXCEPT ![t] = "leaving"]
    /\ outcome' = [outcome EXCEPT ![t] = "error"]
    /\ inTxn' = [inTxn EXCEPT ![held[t]] = FALSE]
    /\ used' = used \ {held[t]}
    /\ idle' = idle \cup {held[t]}
    /\ UNCHANGED <<closed, status, session, op, held, stored, down>>

\* An exception at any point of the block: rollback, and on to the finally
\* clause.  Talking to a dropped connection is how the client notices, and a
\* rollback of an open transaction talks to it.
BlockRaises(t) ==
    /\ pc[t] \in {"held", "ready", "half"}
    /\ pc' = [pc EXCEPT ![t] = "leaving"]
    /\ outcome' = [outcome EXCEPT ![t] = "error"]
    /\ inTxn' = [inTxn EXCEPT ![held[t]] = FALSE]
    /\ \/ status[held[t]] = "dropped" /\ status' = [status EXCEPT ![held[t]] = "closed"]
       \/ ~(status[held[t]] = "dropped" /\ inTxn[held[t]]) /\ UNCHANGED status
    /\ UNCHANGED <<pool, session, op, held, stored, down>>

\* Faulty: no finally clause, so that a failed block keeps its slot for ever;
\* or a return to the pool without the rollback of an open transaction.
ReleaseIfOk(t) ==
    /\ pc[t] = "leaving"
    /\ held[t] \in used
    /\ used' = IF outcome[t] = "ok" THEN used \ {held[t]} ELSE used
    /\ pc' = [pc EXCEPT ![t] = "out"]
    /\ held' = [held EXCEPT ![t] = NoConn]
    /\ UNCHANGED <<closed, idle, conn, op, outcome, stored, down>>
ReleaseInTransaction(t) ==
    /\ pc[t] = "leaving"
    /\ held[t] \in used
    /\ used' = used \ {held[t]}
    /\ idle' = idle \cup {held[t]}
    /\ pc' = [pc EXCEPT ![t] = "out"]
    /\ held' = [held EXCEPT ![t] = NoConn]
    /\ UNCHANGED <<closed, conn, op, outcome, stored, down>>

\* The finally clause up to release_connection, in an open pool that lent c.
Release(t) ==
    /\ pc[t] = "leaving"
    /\ held[t] \in used
    /\ LET c == held[t] IN
        /\ used' = IF PutRaises(c, idle) THEN used ELSE used \ {c}
        /\ session' = [session EXCEPT ![c] = AfterReset(t)]
        /\ inTxn' = [inTxn EXCEPT ![c] = FALSE]
        /\ IF Kept(c, idle) /\ ~PutRaises(c, idle)
           THEN idle' = idle \cup {c} /\ UNCHANGED status
           ELSE status' = [status EXCEPT ![c] = "closed"] /\ UNCHANGED idle
    /\ pc' = [pc EXCEPT ![t] = "out"]
    /\ held' = [held EXCEPT ![t] = NoConn]
    /\ UNCHANGED <<closed, op, outcome, stored, down>>

\* The pool that lent c was closed meanwhile: get_pool opens another one, whose
\* putconn does not know c; its exception is swallowed.
ReleaseUnknown(t) ==
    /\ pc[t] = "leaving"
    /\ held[t] \notin used
    /\ IF closed
       THEN \E S \in SUBSET Conns :
                /\ NewPool(S)
                /\ idle' = S
                /\ status' = Connected(S)
                /\ session' = NewSessions(S)
       ELSE UNCHANGED <<idle, status, session>>
    /\ closed' = FALSE
    /\ pc' = [pc EXCEPT ![t] = "out"]
    /\ held' = [held EXCEPT ![t] = NoConn]
    /\ UNCHANGED <<used, inTxn, op, outcome, stored, down>>

\* The server drops a connection, with the transaction open on it.
ServerDrops(c) ==
    /\ status[c] = "live"
    /\ status' = [status EXCEPT ![c] = "dropped"]
    /\ UNCHANGED <<pool, session, inTxn, thread, down>>

\* lifespan: closeall closes what waits and what is lent, whoever holds it.
Shutdown ==
    /\ ~down
    /\ down' = TRUE
    /\ closed' = TRUE
    /\ idle' = {}
    /\ used' = {}
    /\ status' = [c \in Conns |-> IF c \in idle \cup used THEN "closed" ELSE status[c]]
    /\ inTxn' = [c \in Conns |-> inTxn[c] /\ c \notin idle \cup used]
    /\ UNCHANGED <<session, thread>>

Acquire(t) ==
    \E o \in Ops :
        \/ AcquireIdle(t, o)
        \/ AcquireNew(t, o)
        \/ AcquireExhausted(t, o)
        \/ AcquireOpens(t, o)

\* A thread that is inside its with block.
Proceed(t) ==
    \/ SetReadOnly(t)
    \/ Read(t)
    \/ Browse(t)
    \/ WriteFirst(t)
    \/ WriteRest(t)
    \/ CommitUnanswered(t)
    \/ BlockRaises(t)
    \/ Release(t)
    \/ ReleaseUnknown(t)

Next ==
    \/ \E t \in Threads : Acquire(t) \/ Proceed(t)
    \/ \E c \in Conns : ServerDrops(c)
    \/ Shutdown

Spec == Init /\ [][Next]_vars

-----------------------------------------------------------------------------
(* Safety.                                                                 *)

\* A connection is never in two hands: not in two threads, and not lent and
\* waiting at once, also across a shutdown that replaces the pool.
OneHolder ==
    /\ \A s, t \in Threads : s # t /\ held[s] = held[t] => held[s] = NoConn
    /\ idle \cap (used \cup Held) = {}

\* A thread that leaves its block gives the slot back, whatever went wrong in
\* it, with one exception: a listing that never ends its transaction, ends well,
\* and is cut off before the return.  That slot is lost until the shutdown.
OnlyListingsLoseSlots ==
    [][\A t \in Threads :
           held[t] \in used \cap used' /\ held'[t] = NoConn =>
               /\ op[t] = "browse" /\ outcome[t] = "ok"
               /\ status[held[t]] = "dropped"]_vars

\* Generated SQL only ever runs on a connection that is read-only for Postgres.
ReadersAreReadOnly ==
    \A t \in Threads : pc[t] = "ready" /\ op[t] = "read" => session[held[t]] = ReadOnly

\* The several statements of a write (DELETE and INSERTs of a schema, the two
\* INSERTs of a history row) are stored together or not at all: together when
\* the write ends well, and nobody knows which when it fails.
AllOrNothing ==
    \A t \in Threads : pc[t] = "out" =>
        /\ stored[t] \in {0, 2}
        /\ op[t] = "write" /\ outcome[t] = "ok" => stored[t] = 2
        /\ op[t] # "write" => stored[t] = 0

\* No transaction is left open on a connection that waits for its next borrower.
IdleOutsideTransaction == \A c \in idle : ~inTxn[c]

-----------------------------------------------------------------------------
(* What the comments say and the code does not do.                         *)

\* pool.py:96: the session is reset to writable for the next user.
WritersCanWrite ==
    \A t \in Threads : pc[t] = "ready" /\ op[t] = "write" => ~session[held[t]].readonly
=============================================================================
