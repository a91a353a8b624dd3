------------------------ MODULE ConnectionPoolProofs ------------------------
(***************************************************************************)
(* Proofs about ConnectionPool for any number of threads and any pool      *)
(* sizes.  IInv adds to the properties who holds what: a thread holds a    *)
(* connection exactly while it is in its with block, and one that the pool *)
(* no longer knows has been closed by a shutdown.                          *)
(***************************************************************************)
EXTENDS ConnectionPool, FiniteSetTheorems, TLAPS

HolderInv ==
    /\ closed => idle = {} /\ used = {}
    /\ \A t \in Threads : pc[t] = "out" <=> held[t] = NoConn
    /\ OneHolder
    /\ \A t \in Threads : held[t] \in Conns \ used => status[held[t]] = "closed"

\* Nothing of a write is durable until its block has reached the commit.
WriteInv ==
    \A t \in Threads :
        /\ pc[t] \in {"held", "ready", "half"} => stored[t] = 0 /\ outcome[t] = "none"
        /\ pc[t] = "half" => op[t] = "write"
        /\ pc[t] \in {"leaving", "out"} =>
               /\ stored[t] \in {0, 2}
               /\ op[t] = "write" /\ outcome[t] = "ok" => stored[t] = 2
               /\ op[t] # "write" => stored[t] = 0

\* A transaction is open only on a connection that is lent, in the middle of a
\* write or after a listing.
TxnInv ==
    /\ \A c \in Conns : inTxn[c] => c \in used
    /\ \A t \in Threads :
        held[t] # NoConn /\ inTxn[held[t]] =>
            pc[t] = "half" \/ (pc[t] = "leaving" /\ op[t] = "browse" /\ outcome[t] = "ok")

\* The pool never has more than maxconn connections open, waiting ones included.
OpenBounded ==
    Cardinality(used) <= MaxConn /\ Cardinality(idle) <= MinConn
        /\ Cardinality(idle \cup used) <= MaxConn

BoundInv == IsFiniteSet(idle) /\ IsFiniteSet(used) /\ OpenBounded

IInv ==
    /\ TypeOK
    /\ HolderInv
    /\ ReadersAreReadOnly
    /\ WriteInv
    /\ TxnInv
    /\ BoundInv

-----------------------------------------------------------------------------
\* The process starts without a pool and with nobody holding a connection.
LEMMA InitEstablishes == Init => IInv
<1> SUFFICES ASSUME Init PROVE IInv
  OBVIOUS
<1> USE NoConnAssumption, PoolSizeAssumption
<1>1. TypeOK
  <2>1. closed \in BOOLEAN /\ inTxn \in [Conns -> BOOLEAN] /\ down \in BOOLEAN
    BY DEF Init
  <2> QED
    BY <2>1 DEF Init, TypeOK, Ops
<1>2. HolderInv
  BY DEF Init, HolderInv, OneHolder, Held
<1>3. ReadersAreReadOnly /\ WriteInv /\ TxnInv
  BY DEF Init, ReadersAreReadOnly, WriteInv, TxnInv
<1>4. BoundInv
  BY FS_EmptySet DEF Init, BoundInv, OpenBounded
<1> QED
  BY <1>1, <1>2, <1>3, <1>4 DEF IInv

\* Every step keeps the types.
LEMMA TypeStep == IInv /\ [Next]_vars => TypeOK'
<1> SUFFICES ASSUME IInv, [Next]_vars PROVE TypeOK'
  OBVIOUS
<1> DEFINE Goal == TypeOK'
<1> USE DEF IInv, TypeOK, HolderInv, Ops, Writable, ReadOnly, pool, conn, thread
<1>1. ASSUME NEW t \in Threads, NEW o \in Ops, AcquireIdle(t, o) PROVE Goal
  BY <1>1 DEF AcquireIdle, Enter
<1>2. ASSUME NEW t \in Threads, NEW o \in Ops, AcquireNew(t, o) PROVE Goal
  BY <1>2 DEF AcquireNew, Enter, NewPool, Fresh, Connected, NewSessions
<1>3. ASSUME NEW t \in Threads, NEW o \in Ops, AcquireExhausted(t, o) PROVE Goal
  BY <1>3 DEF AcquireExhausted
<1>4. ASSUME NEW t \in Threads, NEW o \in Ops, AcquireOpens(t, o) PROVE Goal
  <2>1. closed' \in BOOLEAN /\ down' \in BOOLEAN /\ inTxn' \in [Conns -> BOOLEAN]
    BY <1>4 DEF AcquireOpens, Enter
  <2>2. status' \in [Conns -> {"live", "dropped", "closed"}]
    BY <1>4 DEF AcquireOpens, Connected
  <2>3. session' \in [Conns -> {Writable, ReadOnly}]
    BY <1>4 DEF AcquireOpens, NewSessions
  <2>4. idle' \subseteq Conns /\ used' \subseteq Conns
    BY <1>4 DEF AcquireOpens
  <2>5. /\ pc' \in [Threads -> {"out", "held", "ready", "half", "leaving"}]
        /\ op' \in [Threads -> Ops]
        /\ held' \in [Threads -> Conns \cup {NoConn}]
        /\ outcome' \in [Threads -> {"none", "ok", "error"}]
        /\ stored' \in [Threads -> 0..2]
    BY <1>4 DEF AcquireOpens, Enter
  <2> QED
    BY <2>1, <2>2, <2>3, <2>4, <2>5
<1>5. ASSUME NEW t \in Threads, SetReadOnly(t) PROVE Goal
  BY <1>5 DEF SetReadOnly
<1>6. ASSUME NEW t \in Threads, Read(t) PROVE Goal
  BY <1>6 DEF Read, Done
<1>7. ASSUME NEW t \in Threads, Browse(t) PROVE Goal
  BY <1>7 DEF Browse, Done
<1>8. ASSUME NEW t \in Threads, WriteFirst(t) PROVE Goal
  BY <1>8 DEF WriteFirst
<1>9. ASSUME NEW t \in Threads, WriteRest(t) PROVE Goal
  BY <1>9 DEF WriteRest, Done
<1>10. ASSUME NEW t \in Threads, BlockRaises(t) PROVE Goal
  BY <1>10 DEF BlockRaises
<1>16. ASSUME NEW t \in Threads, CommitUnanswered(t) PROVE Goal
  BY <1>16 DEF CommitUnanswered
<1>11. ASSUME NEW t \in Threads, Release(t) PROVE Goal
  BY <1>11 DEF Release, AfterReset
<1>12. ASSUME NEW t \in Threads, ReleaseUnknown(t) PROVE Goal
  <2>1. closed' \in BOOLEAN /\ down' \in BOOLEAN /\ inTxn' \in [Conns -> BOOLEAN]
    BY <1>12 DEF ReleaseUnknown
  <2>2. /\ idle' \subseteq Conns
        /\ status' \in [Conns -> {"live", "dropped", "closed"}]
        /\ session' \in [Conns -> {Writable, ReadOnly}]
    <3>1. CASE closed
      BY <1>12, <3>1 DEF ReleaseUnknown, Connected, NewSessions
    <3>2. CASE ~closed
      BY <1>12, <3>2 DEF ReleaseUnknown
    <3> QED
      BY <3>1, <3>2
  <2>3. UNCHANGED <<used, op, outcome, stored>>
    BY <1>12 DEF ReleaseUnknown
  <2>4. /\ pc' \in [Threads -> {"out", "held", "ready", "half", "leaving"}]
        /\ held' \in [Threads -> Conns \cup {NoConn}]
    BY <1>12 DEF ReleaseUnknown
  <2> QED
    BY <2>1, <2>2, <2>3, <2>4
<1>13. ASSUME NEW c \in Conns, ServerDrops(c) PROVE Goal
  BY <1>13 DEF ServerDrops
<1>14. CASE Shutdown
  BY <1>14 DEF Shutdown
<1>15. CASE UNCHANGED vars
  BY <1>15 DEF vars
<1> QED
  BY <1>1, <1>2, <1>3, <1>4, <1>5, <1>6, <1>7, <1>8, <1>9, <1>10, <1>11, <1>12, <1>13, <1>14, <1>15, <1>16
     DEF Next, Acquire, Proceed

\* A connection has one holder, and every taken slot has one.
LEMMA HolderStep == IInv /\ [Next]_vars => HolderInv'
<1> SUFFICES ASSUME IInv, [Next]_vars PROVE HolderInv'
  OBVIOUS
<1> DEFINE Goal == HolderInv'
<1> USE NoConnAssumption
<1> USE DEF IInv, TypeOK, HolderInv, OneHolder, Held, pool, conn, thread
<1>1. ASSUME NEW t \in Threads, NEW o \in Ops, AcquireIdle(t, o) PROVE Goal
  BY <1>1 DEF AcquireIdle, Enter
<1>2. ASSUME NEW t \in Threads, NEW o \in Ops, AcquireNew(t, o) PROVE Goal
  BY <1>2 DEF AcquireNew, Enter, NewPool, Fresh, Connected, NewSessions
<1>3. ASSUME NEW t \in Threads, NEW o \in Ops, AcquireExhausted(t, o) PROVE Goal
  BY <1>3 DEF AcquireExhausted
<1>4. ASSUME NEW t \in Threads, NEW o \in Ops, AcquireOpens(t, o) PROVE Goal
  BY <1>4 DEF AcquireOpens, Enter, NewPool, Fresh, Connected, NewSessions
<1>5. ASSUME NEW t \in Threads, SetReadOnly(t) PROVE Goal
  BY <1>5 DEF SetReadOnly
<1>6. ASSUME NEW t \in Threads, Read(t) PROVE Goal
  BY <1>6 DEF Read, Done
<1>7. ASSUME NEW t \in Threads, Browse(t) PROVE Goal
  BY <1>7 DEF Browse, Done
<1>8. ASSUME NEW t \in Threads, WriteFirst(t) PROVE Goal
  BY <1>8 DEF WriteFirst
<1>9. ASSUME NEW t \in Threads, WriteRest(t) PROVE Goal
  BY <1>9 DEF WriteRest, Done
<1>10. ASSUME NEW t \in Threads, BlockRaises(t) PROVE Goal
  BY <1>10 DEF BlockRaises
<1>16. ASSUME NEW t \in Threads, CommitUnanswered(t) PROVE Goal
  BY <1>16 DEF CommitUnanswered
<1>11. ASSUME NEW t \in Threads, Release(t) PROVE Goal
  BY <1>11 DEF Release, AfterReset, Kept, PutRaises
<1>12. ASSUME NEW t \in Threads, ReleaseUnknown(t) PROVE Goal
  BY <1>12 DEF ReleaseUnknown, NewPool, Fresh, Connected, NewSessions
<1>13. ASSUME NEW c \in Conns, ServerDrops(c) PROVE Goal
  BY <1>13 DEF ServerDrops
<1>14. CASE Shutdown
  BY <1>14 DEF Shutdown
<1>15. CASE UNCHANGED vars
  BY <1>15 DEF vars
<1> QED
  BY <1>1, <1>2, <1>3, <1>4, <1>5, <1>6, <1>7, <1>8, <1>9, <1>10, <1>11, <1>12, <1>13, <1>14, <1>15, <1>16
     DEF Next, Acquire, Proceed

\* Nobody else touches the session of a connection a reader holds.
LEMMA ReaderStep == IInv /\ [Next]_vars => ReadersAreReadOnly'
<1> SUFFICES ASSUME IInv, [Next]_vars PROVE ReadersAreReadOnly'
  OBVIOUS
<1> DEFINE Goal == ReadersAreReadOnly'
<1> USE NoConnAssumption
<1> USE DEF IInv, TypeOK, HolderInv, OneHolder, Held, ReadersAreReadOnly, pool, conn, thread
<1>1. ASSUME NEW t \in Threads, NEW o \in Ops, AcquireIdle(t, o) PROVE Goal
  BY <1>1 DEF AcquireIdle, Enter
<1>2. ASSUME NEW t \in Threads, NEW o \in Ops, AcquireNew(t, o) PROVE Goal
  BY <1>2 DEF AcquireNew, Enter, NewPool, Fresh, Connected, NewSessions
<1>3. ASSUME NEW t \in Threads, NEW o \in Ops, AcquireExhausted(t, o) PROVE Goal
  BY <1>3 DEF AcquireExhausted
<1>4. ASSUME NEW t \in Threads, NEW o \in Ops, AcquireOpens(t, o) PROVE Goal
  BY <1>4 DEF AcquireOpens, Enter, NewPool, Fresh, Connected, NewSessions
<1>5. ASSUME NEW t \in Threads, SetReadOnly(t) PROVE Goal
  BY <1>5 DEF SetReadOnly
<1>6. ASSUME NEW t \in Threads, Read(t) PROVE Goal
  BY <1>6 DEF Read, Done
<1>7. ASSUME NEW t \in Threads, Browse(t) PROVE Goal
  BY <1>7 DEF Browse, Done
<1>8. ASSUME NEW t \in Threads, WriteFirst(t) PROVE Goal
  BY <1>8 DEF WriteFirst
<1>9. ASSUME NEW t \in Threads, WriteRest(t) PROVE Goal
  BY <1>9 DEF WriteRest, Done
<1>10. ASSUME NEW t \in Threads, BlockRaises(t) PROVE Goal
  BY <1>10 DEF BlockRaises
<1>16. ASSUME NEW t \in Threads, CommitUnanswered(t) PROVE Goal
  BY <1>16 DEF CommitUnanswered
<1>11. ASSUME NEW t \in Threads, Release(t) PROVE Goal
  BY <1>11 DEF Release, AfterReset
<1>12. ASSUME NEW t \in Threads, ReleaseUnknown(t) PROVE Goal
  BY <1>12 DEF ReleaseUnknown, NewPool, Fresh, Connected, NewSessions
<1>13. ASSUME NEW c \in Conns, ServerDrops(c) PROVE Goal
  BY <1>13 DEF ServerDrops
<1>14. CASE Shutdown
  BY <1>14 DEF Shutdown
<1>15. CASE UNCHANGED vars
  BY <1>15 DEF vars
<1> QED
  BY <1>1, <1>2, <1>3, <1>4, <1>5, <1>6, <1>7, <1>8, <1>9, <1>10, <1>11, <1>12, <1>13, <1>14, <1>15, <1>16
     DEF Next, Acquire, Proceed

\* A session that accepts a write is not in autocommit mode.
LEMMA WriteStep == IInv /\ [Next]_vars => WriteInv'
<1> SUFFICES ASSUME IInv, [Next]_vars PROVE WriteInv'
  OBVIOUS
<1> DEFINE Goal == WriteInv'
<1> USE DEF IInv, TypeOK, HolderInv, WriteInv, Writable, ReadOnly, Ops, pool, conn, thread
<1>1. ASSUME NEW t \in Threads, NEW o \in Ops, AcquireIdle(t, o) PROVE Goal
  BY <1>1 DEF AcquireIdle, Enter
<1>2. ASSUME NEW t \in Threads, NEW o \in Ops, AcquireNew(t, o) PROVE Goal
  BY <1>2 DEF AcquireNew, Enter
<1>3. ASSUME NEW t \in Threads, NEW o \in Ops, AcquireExhausted(t, o) PROVE Goal
  BY <1>3 DEF AcquireExhausted
<1>4. ASSUME NEW t \in Threads, NEW o \in Ops, AcquireOpens(t, o) PROVE Goal
  BY <1>4 DEF AcquireOpens, Enter
<1>5. ASSUME NEW t \in Threads, SetReadOnly(t) PROVE Goal
  BY <1>5 DEF SetReadOnly
<1>6. ASSUME NEW t \in Threads, Read(t) PROVE Goal
  BY <1>6 DEF Read, Done
<1>7. ASSUME NEW t \in Threads, Browse(t) PROVE Goal
  BY <1>7 DEF Browse, Done
<1>8. ASSUME NEW t \in Threads, WriteFirst(t) PROVE Goal
  BY <1>8 DEF WriteFirst
<1>9. ASSUME NEW t \in Threads, WriteRest(t) PROVE Goal
  BY <1>9 DEF WriteRest, Done
<1>10. ASSUME NEW t \in Threads, BlockRaises(t) PROVE Goal
  BY <1>10 DEF BlockRaises
<1>16. ASSUME NEW t \in Threads, CommitUnanswered(t) PROVE Goal
  BY <1>16 DEF CommitUnanswered
<1>11. ASSUME NEW t \in Threads, Release(t) PROVE Goal
  BY <1>11 DEF Release
<1>12. ASSUME NEW t \in Threads, ReleaseUnknown(t) PROVE Goal
  BY <1>12 DEF ReleaseUnknown
<1>13. ASSUME NEW c \in Conns, ServerDrops(c) PROVE Goal
  BY <1>13 DEF ServerDrops
<1>14. CASE Shutdown
  BY <1>14 DEF Shutdown
<1>15. CASE UNCHANGED vars
  BY <1>15 DEF vars
<1> QED
  BY <1>1, <1>2, <1>3, <1>4, <1>5, <1>6, <1>7, <1>8, <1>9, <1>10, <1>11, <1>12, <1>13, <1>14, <1>15, <1>16
     DEF Next, Acquire, Proceed

\* A transaction is open only on a connection that is lent.
LEMMA TxnStep == IInv /\ [Next]_vars => TxnInv'
<1> SUFFICES ASSUME IInv, [Next]_vars PROVE TxnInv'
  OBVIOUS
<1> DEFINE Goal == TxnInv'
<1> USE NoConnAssumption
<1> USE DEF IInv, TypeOK, HolderInv, OneHolder, Held, TxnInv, pool, conn, thread
<1>1. ASSUME NEW t \in Threads, NEW o \in Ops, AcquireIdle(t, o) PROVE Goal
  BY <1>1 DEF AcquireIdle, Enter
<1>2. ASSUME NEW t \in Threads, NEW o \in Ops, AcquireNew(t, o) PROVE Goal
  BY <1>2 DEF AcquireNew, Enter, Fresh, Held
<1>3. ASSUME NEW t \in Threads, NEW o \in Ops, AcquireExhausted(t, o) PROVE Goal
  BY <1>3 DEF AcquireExhausted
<1>4. ASSUME NEW t \in Threads, NEW o \in Ops, AcquireOpens(t, o) PROVE Goal
  BY <1>4 DEF AcquireOpens, Enter
<1>5. ASSUME NEW t \in Threads, SetReadOnly(t) PROVE Goal
  BY <1>5 DEF SetReadOnly
<1>6. ASSUME NEW t \in Threads, Read(t) PROVE Goal
  BY <1>6 DEF Read, Done
<1>7. ASSUME NEW t \in Threads, Browse(t) PROVE Goal
  BY <1>7 DEF Browse, Done
<1>8. ASSUME NEW t \in Threads, WriteFirst(t) PROVE Goal
  BY <1>8 DEF WriteFirst
<1>9. ASSUME NEW t \in Threads, WriteRest(t) PROVE Goal
  BY <1>9 DEF WriteRest, Done
<1>10. ASSUME NEW t \in Threads, BlockRaises(t) PROVE Goal
  BY <1>10 DEF BlockRaises
<1>16. ASSUME NEW t \in Threads, CommitUnanswered(t) PROVE Goal
  BY <1>16 DEF CommitUnanswered
<1>11. ASSUME NEW t \in Threads, Release(t) PROVE Goal
  BY <1>11 DEF Release, Kept, PutRaises
<1>12. ASSUME NEW t \in Threads, ReleaseUnknown(t) PROVE Goal
  BY <1>12 DEF ReleaseUnknown
<1>13. ASSUME NEW c \in Conns, ServerDrops(c) PROVE Goal
  BY <1>13 DEF ServerDrops
<1>14. CASE Shutdown
  BY <1>14 DEF Shutdown
<1>15. CASE UNCHANGED vars
  BY <1>15 DEF vars
<1> QED
  BY <1>1, <1>2, <1>3, <1>4, <1>5, <1>6, <1>7, <1>8, <1>9, <1>10, <1>11, <1>12, <1>13, <1>14, <1>15, <1>16
     DEF Next, Acquire, Proceed

\* The pool keeps within its sizes.
LEMMA BoundStep == IInv /\ [Next]_vars => BoundInv'
<1> SUFFICES ASSUME IInv, [Next]_vars PROVE BoundInv'
  OBVIOUS
<1> DEFINE Goal == BoundInv'
<1> USE PoolSizeAssumption
<1> USE DEF IInv, HolderInv, BoundInv, OpenBounded
<1>0. UNCHANGED <<idle, used>> => Goal
  OBVIOUS
<1>a. ASSUME NEW S, IsFiniteSet(S) PROVE Cardinality(S) \in Nat
  BY <1>a, FS_CardinalityType
<1>1. ASSUME NEW t \in Threads, NEW o \in Ops, AcquireIdle(t, o) PROVE Goal
  <2>1. PICK c \in idle : idle' = idle \ {c} /\ used' = used \cup {c}
    BY <1>1 DEF AcquireIdle
  <2>2. idle' \cup used' = idle \cup used /\ used' \subseteq idle \cup used
    BY <2>1
  <2>3. IsFiniteSet(idle \cup used) /\ IsFiniteSet(used') /\ IsFiniteSet(idle')
    BY <2>1, FS_Union, FS_AddElement, FS_RemoveElement
  <2>4. Cardinality(used') <= Cardinality(idle \cup used) /\ Cardinality(idle') <= Cardinality(idle)
    BY <2>1, <2>2, <2>3, FS_Subset
  <2> QED
    BY <2>2, <2>3, <2>4, <1>a
<1>2. ASSUME NEW t \in Threads, NEW o \in Ops, AcquireNew(t, o) PROVE Goal
  <2>1. PICK c : used' = used \cup {c} /\ idle = {} /\ idle' = {} /\ Cardinality(used) < MaxConn
    BY <1>2 DEF AcquireNew
  <2>2. IsFiniteSet(used') /\ Cardinality(used') <= Cardinality(used) + 1
    <3>1. Cardinality(used) \in Nat
      BY <1>a
    <3>2. /\ IsFiniteSet(used \cup {c})
          /\ Cardinality(used \cup {c}) = IF c \in used THEN Cardinality(used) ELSE Cardinality(used) + 1
      BY FS_AddElement
    <3> QED
      BY <2>1, <3>1, <3>2
  <2>3. idle' \cup used' = used'
    BY <2>1
  <2>4. Cardinality(used) \in Nat /\ Cardinality(used') \in Nat /\ Cardinality(idle') = 0
    BY <2>1, <2>2, <1>a, FS_EmptySet
  <2> QED
    BY <2>1, <2>2, <2>3, <2>4, FS_EmptySet
<1>3. ASSUME NEW t \in Threads, NEW o \in Ops, AcquireExhausted(t, o) PROVE Goal
  BY <1>0, <1>3 DEF AcquireExhausted, pool
<1>4. ASSUME NEW t \in Threads, NEW o \in Ops, AcquireOpens(t, o) PROVE Goal
  <2>1. PICK S \in SUBSET Conns :
          NewPool(S) /\ \E c \in S : idle' = S \ {c} /\ used' = {c}
    BY <1>4 DEF AcquireOpens
  <2>2. PICK c \in S : idle' = S \ {c} /\ used' = {c}
    BY <2>1
  <2>3. IsFiniteSet(S) /\ Cardinality(S) = MinConn /\ idle' \cup used' = S
    BY <2>1, <2>2 DEF NewPool
  <2>4. IsFiniteSet(idle') /\ IsFiniteSet(used') /\ Cardinality(used') = 1
    BY <2>2, <2>3, FS_RemoveElement, FS_Singleton
  <2>5. Cardinality(idle') <= MinConn
    BY <2>2, <2>3, FS_Subset
  <2> QED
    BY <2>3, <2>4, <2>5
<1>5. ASSUME NEW t \in Threads, Release(t) PROVE Goal
  <2>1. PICK c \in used :
          /\ used' \subseteq used
          /\ (idle' = idle \cup {c} /\ Cardinality(idle) < MinConn) \/ idle' = idle
    BY <1>5 DEF Release, Kept
  <2>2. IsFiniteSet(used') /\ IsFiniteSet(idle') /\ IsFiniteSet(idle \cup used)
    BY <2>1, FS_Union, FS_AddElement, FS_Subset
  <2>3. Cardinality(used') <= Cardinality(used)
    BY <2>1, FS_Subset
  <2>4. Cardinality(idle') <= MinConn
    <3>1. Cardinality(idle) \in Nat
      BY <1>a
    <3>2. Cardinality(idle \cup {c}) = IF c \in idle THEN Cardinality(idle) ELSE Cardinality(idle) + 1
      BY FS_AddElement
    <3> QED
      BY <2>1, <3>1, <3>2, PoolSizeAssumption
  <2>5. idle' \cup used' \subseteq idle \cup used
    BY <2>1
  <2>6. Cardinality(idle' \cup used') <= Cardinality(idle \cup used)
    BY <2>2, <2>5, FS_Subset
  <2> QED
    <3>1. IsFiniteSet(idle' \cup used')
      BY <2>2, FS_Union
    <3>2. /\ Cardinality(used) \in Nat /\ Cardinality(used') \in Nat
          /\ Cardinality(idle \cup used) \in Nat /\ Cardinality(idle' \cup used') \in Nat
      BY <2>2, <3>1, <1>a
    <3> QED
      BY <2>2, <2>3, <2>4, <2>6, <3>2
<1>6. ASSUME NEW t \in Threads, ReleaseUnknown(t) PROVE Goal
  <2>1. CASE closed
    <3>1. PICK S \in SUBSET Conns : NewPool(S) /\ idle' = S /\ used' = {}
      BY <1>6, <2>1 DEF ReleaseUnknown
    <3>2. idle' \cup used' = S
      BY <3>1
    <3> QED
      BY <3>1, <3>2, FS_EmptySet DEF NewPool
  <2>2. CASE ~closed
    BY <1>0, <1>6, <2>2 DEF ReleaseUnknown
  <2> QED
    BY <2>1, <2>2
<1>7. CASE Shutdown
  <2>1. idle' = {} /\ used' = {} /\ idle' \cup used' = {}
    BY <1>7 DEF Shutdown
  <2> QED
    BY <2>1, FS_EmptySet
<1>8. ASSUME NEW t \in Threads,
             SetReadOnly(t) \/ Read(t) \/ Browse(t) \/ WriteFirst(t) \/ WriteRest(t)
                 \/ CommitUnanswered(t) \/ BlockRaises(t)
      PROVE  Goal
  BY <1>0, <1>8 DEF SetReadOnly, Read, Browse, WriteFirst, WriteRest, CommitUnanswered, BlockRaises, pool
<1>9. ASSUME NEW c \in Conns, ServerDrops(c) PROVE Goal
  BY <1>0, <1>9 DEF ServerDrops, pool
<1>10. CASE UNCHANGED vars
  BY <1>0, <1>10 DEF vars, pool
<1> QED
  BY <1>1, <1>2, <1>3, <1>4, <1>5, <1>6, <1>7, <1>8, <1>9, <1>10 DEF Next, Acquire, Proceed

\* The invariant holds in every state.
THEOREM Invariance == Spec => []IInv
<1>1. IInv /\ [Next]_vars => IInv'
  BY TypeStep, HolderStep, ReaderStep, WriteStep, TxnStep, BoundStep DEF IInv
<1> QED
  BY InitEstablishes, <1>1, PTL DEF Spec

-----------------------------------------------------------------------------
(* What follows from it.                                                   *)

\* Pool, connections and threads keep their types (db/pool.py).
THEOREM TypesCorrect == Spec => []TypeOK
<1>1. IInv => TypeOK
  BY DEF IInv
<1> QED
  BY Invariance, <1>1, PTL

\* However threads interleave with each other and with a shutdown, a connection
\* is never in two hands.
THEOREM Exclusive == Spec => []OneHolder
<1>1. IInv => OneHolder
  BY DEF IInv, HolderInv
<1> QED
  BY Invariance, <1>1, PTL

\* No failure in a block, of whatever operation and at whatever statement, loses
\* a slot of the pool; only a listing that was cut off after it ended well does.
THEOREM SlotsComeBack == Spec => OnlyListingsLoseSlots
<1> DEFINE Kind(t) == held[t] \in used \cap used' /\ held'[t] = NoConn =>
                          /\ op[t] = "browse" /\ outcome[t] = "ok"
                          /\ status[held[t]] = "dropped"
<1> DEFINE Step == \A t \in Threads : Kind(t)
<1>1. IInv /\ [Next]_vars => [Step]_vars
  <2> SUFFICES ASSUME IInv, Next, NEW u \in Threads, held[u] \in used \cap used', held'[u] = NoConn
               PROVE  Kind(u)
    OBVIOUS
  <2> USE NoConnAssumption
  <2>1. ~UNCHANGED held
    BY DEF IInv, TypeOK
  <2>2. PICK t \in Threads : Release(t) \/ ReleaseUnknown(t)
    <3>1. ASSUME NEW t \in Threads, Acquire(t) PROVE FALSE
      <4>1. ASSUME NEW o \in Ops, NEW c \in Conns, Enter(t, o, c) PROVE FALSE
        BY <2>1, <4>1 DEF Enter, IInv, TypeOK
      <4>2. ASSUME NEW o \in Ops, AcquireExhausted(t, o) PROVE FALSE
        BY <2>1, <4>2 DEF AcquireExhausted
      <4> QED
        BY <3>1, <4>1, <4>2 DEF Acquire, AcquireIdle, AcquireNew, AcquireOpens, Fresh, IInv, TypeOK
    <3> QED
      BY <2>1, <3>1 DEF Next, Proceed, SetReadOnly, Read, Browse, WriteFirst, WriteRest,
           CommitUnanswered, BlockRaises, ServerDrops, Shutdown, thread
  <2>3. t = u
    BY <2>1, <2>2 DEF Release, ReleaseUnknown, IInv, TypeOK
  <2>4. Release(u) /\ PutRaises(held[u], idle)
    BY <2>2, <2>3 DEF Release, ReleaseUnknown
  <2> QED
    BY <2>4 DEF Release, PutRaises, IInv, TypeOK, TxnInv
<1> QED
  BY Invariance, <1>1, PTL DEF Spec, OnlyListingsLoseSlots

\* minconn and maxconn bound what the pool keeps open.
THEOREM WithinSizes == Spec => []OpenBounded
<1>1. IInv => OpenBounded
  BY DEF IInv, BoundInv
<1> QED
  BY Invariance, <1>1, PTL

\* Generated SQL runs read-only, whatever the borrower before left behind.
THEOREM ReadOnlyIsolation == Spec => []ReadersAreReadOnly
<1>1. IInv => ReadersAreReadOnly
  BY DEF IInv
<1> QED
  BY Invariance, <1>1, PTL

\* A write is stored entirely or not at all, and entirely if it ends well.
THEOREM AtomicWrites == Spec => []AllOrNothing
<1>1. IInv => AllOrNothing
  BY DEF IInv, WriteInv, AllOrNothing
<1> QED
  BY Invariance, <1>1, PTL

\* Connections wait in the pool outside transactions.
THEOREM CleanIdle == Spec => []IdleOutsideTransaction
<1>1. IInv => IdleOutsideTransaction
  BY DEF IInv, TypeOK, TxnInv, HolderInv, OneHolder, IdleOutsideTransaction
<1> QED
  BY Invariance, <1>1, PTL
=============================================================================
