---------------------------- MODULE SchemaIndex ----------------------------
(***************************************************************************)
(* schema/ingestor.py: the schema index of the connectors, a Postgres      *)
(* table of embeddings, with an in-memory cache of lookups in front of it. *)
(*                                                                         *)
(* The endpoints that ingest a schema run on the event loop, one at a      *)
(* time; lookups run on the agent's worker threads and ingest on the fly   *)
(* what they do not find.  The source may change its tables at any time,   *)
(* so a crawl may meet any version of them.  A schema is one batch of      *)
(* rows, named by the version it was crawled from; version 0 has no        *)
(* tables, and leaves no rows.                                             *)
(*                                                                         *)
(* Transactions are READ COMMITTED: a DELETE sees the rows that were       *)
(* committed when it started, and waits for rows another DELETE has        *)
(* locked.                                                                 *)
(***************************************************************************)
EXTENDS Integers, Sequences, FiniteSets

CONSTANTS
    Workers,      \* threads of the agent, which look tables up
    Loop,         \* the event loop's thread, which ingests on request
    Connectors,   \* connector ids, as sequences of their parts between colons
    Questions,    \* user queries, likewise
    NoQuestion,   \* an ingestion that serves no lookup
    Versions,     \* versions of a source's schema
    Ids,          \* what uuid4 may draw, in the order in which it does
    MaxCache,     \* entries beyond which the cache takes no more, 512
    MaxDepth      \* lookups the interpreter's recursion limit lets be nested

Threads == Workers \cup {Loop}

\* _cache_key: the hashed text is connector_id, a colon and the query.
CacheKey(c, q) == c \o q

ASSUME ThreadsAssumption == IsFiniteSet(Workers) /\ Loop \notin Workers
ASSUME BoundsAssumption == MaxCache \in Nat \ {0} /\ MaxDepth \in Nat
ASSUME VersionsAssumption == 0 \in Versions
ASSUME IdsAssumption == Ids \subseteq Nat
ASSUME QuestionsAssumption == NoQuestion \notin Questions

VARIABLES
    rows,      \* committed rows of schema_embeddings, one per batch
    cache,     \* _schema_cache; {} where a key is absent
    pc,        \* per thread: where it is in ingest_schema or get_relevant_tables
    call,      \* per thread: the connector and question of its call
    crawled,   \* per thread: the version it is ingesting
    doomed,    \* per thread: rows its DELETE removes
    size,      \* per thread: entries of the cache when it began to sweep it
    depth,     \* per thread: on-the-fly ingestions its lookup has made
    found,     \* per thread: contents its lookup found
    answered,  \* per thread: its last call has ended, without an exception
    alone      \* per thread: no ingestion of its connector overlaps its own

local == <<pc, call, crawled, doomed, size, depth, found, answered, alone>>
vars == <<rows, cache, local>>

Batches == [id : Ids, of : Connectors, version : Versions \ {0}]
Contents == [of : Connectors, version : Versions \ {0}]
Keys == {CacheKey(c, q) : c \in Connectors, q \in Questions}
Calls == [connector : Connectors, question : Questions \cup {NoQuestion}]
Stages == {"idle", "lookup", "search", "crawl", "crawled", "deleting", "deleted",
           "committed", "sweeping", "found", "storing"}

TypeOK ==
    /\ rows \subseteq Batches
    /\ cache \in [Keys -> SUBSET Contents]
    /\ pc \in [Threads -> Stages]
    /\ call \in [Threads -> Calls]
    /\ crawled \in [Threads -> Versions]
    /\ doomed \in [Threads -> SUBSET Batches]
    /\ size \in [Threads -> Nat]
    /\ depth \in [Threads -> 0..MaxDepth]
    /\ found \in [Threads -> SUBSET Contents]
    /\ answered \in [Threads -> BOOLEAN]
    /\ alone \in [Threads -> BOOLEAN]

-----------------------------------------------------------------------------
(* Helpers.                                                                *)

Connector(t) == call[t].connector
Question(t) == call[t].question
\* Faulty: the search has lost its WHERE clause.
RowsOfAny(c) == rows
RowsOf(c) == {r \in rows : r.of = c}
Content(S) == {[of |-> r.of, version |-> r.version] : r \in S}
\* An id only tells a row from the others of its connector: the least one that is
\* free stands for all.
TakenIds(c) == {r.id : r \in {s \in rows \cup UNION {doomed[t] : t \in Threads} : s.of = c}}
FreshIds(c) == {i \in Ids \ TakenIds(c) : \A j \in Ids \ TakenIds(c) : i <= j}

KeyOf(t) == CacheKey(Connector(t), Question(t))
\* The connectors that have a question under key k: more than one if the id of
\* one continues the id of another at a colon.
Sharing(k) == {c \in Connectors : \E q \in Questions : CacheKey(c, q) = k}
Cached == {k \in Keys : cache[k] # {}}

\* get_relevant_tables: the test made before an entry is stored.
HasRoom == Cardinality(Cached) < MaxCache

\* ingest_schema: keys to remove start with the connector id, but keys are hex
\* digests and a connector id has a colon among its first characters.
KeysToRemove(c) == {}

\* Ingestions of c that are between their DELETE and the end of the transaction.
Transacting(c) == {t \in Threads : pc[t] \in {"deleting", "deleted"} /\ Connector(t) = c}

\* The thread goes on to stage s.
GoTo(t, s) == pc' = [pc EXCEPT ![t] = s]

\* The call ends; what it knew is gone with its frame.
Return(t, how) ==
    /\ GoTo(t, "idle")
    /\ answered' = [answered EXCEPT ![t] = how]
    /\ crawled' = [crawled EXCEPT ![t] = 0]
    /\ doomed' = [doomed EXCEPT ![t] = {}]
    /\ size' = [size EXCEPT ![t] = 0]
    /\ depth' = [depth EXCEPT ![t] = 0]
    /\ alone' = [alone EXCEPT ![t] = TRUE]

-----------------------------------------------------------------------------
Init ==
    /\ rows = {}
    /\ cache = [k \in Keys |-> {}]
    /\ pc = [t \in Threads |-> "idle"]
    /\ call \in [Threads -> [connector : Connectors, question : {NoQuestion}]]
    /\ \A s, t \in Threads : call[s] = call[t]
    /\ crawled = [t \in Threads |-> 0]
    /\ doomed = [t \in Threads |-> {}]
    /\ size = [t \in Threads |-> 0]
    /\ depth = [t \in Threads |-> 0]
    /\ found = [t \in Threads |-> {}]
    /\ answered = [t \in Threads |-> FALSE]
    /\ alone = [t \in Threads |-> TRUE]

\* POST /schema/ingest, or the end of an upload.
IngestRequest(c) ==
    /\ pc[Loop] = "idle"
    /\ GoTo(Loop, "crawl")
    /\ call' = [call EXCEPT ![Loop] = [connector |-> c, question |-> NoQuestion]]
    /\ answered' = [answered EXCEPT ![Loop] = FALSE]
    /\ UNCHANGED <<rows, cache, crawled, doomed, size, depth, found, alone>>

\* A planner calls get_relevant_tables.
LookupRequest(t, c, q) ==
    /\ t \in Workers
    /\ pc[t] = "idle"
    /\ GoTo(t, "lookup")
    /\ call' = [call EXCEPT ![t] = [connector |-> c, question |-> q]]
    /\ found' = [found EXCEPT ![t] = {}]
    /\ answered' = [answered EXCEPT ![t] = FALSE]
    /\ UNCHANGED <<rows, cache, crawled, doomed, size, depth, alone>>

LookupHits(t) ==
    /\ pc[t] = "lookup"
    /\ cache[KeyOf(t)] # {}
    /\ found' = [found EXCEPT ![t] = cache[KeyOf(t)]]
    /\ Return(t, TRUE)
    /\ UNCHANGED <<rows, cache, call>>

LookupMisses(t) ==
    /\ pc[t] = "lookup"
    /\ cache[KeyOf(t)] = {}
    /\ GoTo(t, "search")
    /\ UNCHANGED <<rows, cache, call, crawled, doomed, size, depth, found, answered, alone>>

\* The search returns the best rows of the connector, some of those it has.
SearchFinds(t) ==
    /\ pc[t] = "search"
    /\ \E S \in SUBSET RowsOf(Connector(t)) :
        /\ S # {}
        /\ found' = [found EXCEPT ![t] = Content(S)]
    /\ GoTo(t, "found")
    /\ UNCHANGED <<rows, cache, call, crawled, doomed, size, depth, answered, alone>>

\* Faulty: the retry is not a recursive call, which would end some time.
RetryForEver(t) ==
    /\ pc[t] = "search"
    /\ RowsOf(Connector(t)) = {}
    /\ GoTo(t, "crawl")
    /\ UNCHANGED <<rows, cache, call, crawled, doomed, size, depth, found, answered, alone>>

\* It finds nothing: ingest on the fly and call itself again.
SearchIngests(t) ==
    /\ pc[t] = "search"
    /\ RowsOf(Connector(t)) = {}
    /\ depth[t] < MaxDepth
    /\ GoTo(t, "crawl")
    /\ depth' = [depth EXCEPT ![t] = @ + 1]
    /\ UNCHANGED <<rows, cache, call, crawled, doomed, size, found, answered, alone>>

Crawl(t) ==
    /\ pc[t] = "crawl"
    /\ \E v \in Versions : crawled' = [crawled EXCEPT ![t] = v]
    /\ GoTo(t, "crawled")
    /\ UNCHANGED <<rows, cache, call, doomed, size, depth, found, answered, alone>>

\* The DELETE starts: it will remove the rows that are committed now.
BeginDelete(t) ==
    /\ pc[t] = "crawled"
    /\ doomed' = [doomed EXCEPT ![t] = RowsOf(Connector(t))]
    /\ alone' = [s \in Threads |->
                    IF s = t THEN Transacting(Connector(t)) = {}
                    ELSE alone[s] /\ s \notin Transacting(Connector(t))]
    /\ GoTo(t, "deleting")
    /\ UNCHANGED <<rows, cache, call, crawled, size, depth, found, answered>>

\* Faulty: the DELETE commits by itself, on a connection left in autocommit.
DeleteAutocommits(t) ==
    /\ pc[t] = "deleting"
    /\ \A s \in Threads \ {t} : pc[s] = "deleted" => doomed[s] \cap doomed[t] = {}
    /\ rows' = rows \ doomed[t]
    /\ doomed' = [doomed EXCEPT ![t] = {}]
    /\ GoTo(t, "deleted")
    /\ UNCHANGED <<cache, call, crawled, size, depth, found, answered, alone>>

\* The DELETE ends, once no other transaction holds one of its rows.
EndDelete(t) ==
    /\ pc[t] = "deleting"
    /\ \A s \in Threads \ {t} : pc[s] = "deleted" => doomed[s] \cap doomed[t] = {}
    /\ doomed' = [doomed EXCEPT ![t] = @ \cap rows]
    /\ GoTo(t, "deleted")
    /\ UNCHANGED <<rows, cache, call, crawled, size, depth, found, answered, alone>>

\* Faulty: the rows of earlier ingestions stay.
CommitAppends(t) ==
    /\ pc[t] = "deleted"
    /\ IF crawled[t] = 0 THEN UNCHANGED rows
       ELSE \E i \in FreshIds(Connector(t)) :
            rows' = rows \cup {[id |-> i, of |-> Connector(t), version |-> crawled[t]]}
    /\ doomed' = [doomed EXCEPT ![t] = {}]
    /\ crawled' = [crawled EXCEPT ![t] = 0]
    /\ alone' = [alone EXCEPT ![t] = TRUE]
    /\ GoTo(t, "committed")
    /\ UNCHANGED <<cache, call, size, depth, found, answered>>

\* The tables are embedded, inserted and committed.
Commit(t) ==
    /\ pc[t] = "deleted"
    /\ IF crawled[t] = 0 THEN rows' = rows \ doomed[t]
       ELSE \E i \in FreshIds(Connector(t)) :
            rows' = (rows \ doomed[t])
                        \cup {[id |-> i, of |-> Connector(t), version |-> crawled[t]]}
    /\ doomed' = [doomed EXCEPT ![t] = {}]
    /\ crawled' = [crawled EXCEPT ![t] = 0]
    /\ alone' = [alone EXCEPT ![t] = TRUE]
    /\ GoTo(t, "committed")
    /\ UNCHANGED <<cache, call, size, depth, found, answered>>

\* The iteration over the cache starts ...
BeginSweep(t) ==
    /\ pc[t] = "committed"
    /\ size' = [size EXCEPT ![t] = Cardinality(Cached)]
    /\ GoTo(t, "sweeping")
    /\ UNCHANGED <<rows, cache, call, crawled, doomed, depth, found, answered, alone>>

\* ... and removes what it found; a lookup then calls itself again.
EndSweep(t) ==
    /\ pc[t] = "sweeping"
    /\ size[t] = Cardinality(Cached)
    /\ cache' = [k \in Keys |-> IF k \in KeysToRemove(Connector(t)) THEN {} ELSE cache[k]]
    /\ IF Question(t) = NoQuestion
       THEN Return(t, TRUE) /\ UNCHANGED <<call, found>>
       ELSE /\ GoTo(t, "lookup")
            /\ size' = [size EXCEPT ![t] = 0]
            /\ UNCHANGED <<call, crawled, doomed, depth, found, answered, alone>>
    /\ UNCHANGED rows

\* The room in the cache is checked ...
CheckRoom(t) ==
    /\ pc[t] = "found"
    /\ HasRoom
    /\ GoTo(t, "storing")
    /\ UNCHANGED <<rows, cache, call, crawled, doomed, size, depth, found, answered, alone>>

NoRoom(t) ==
    /\ pc[t] = "found"
    /\ ~HasRoom
    /\ Return(t, TRUE)
    /\ UNCHANGED <<rows, cache, call, found>>

\* ... before the entry is stored.
Store(t) ==
    /\ pc[t] = "storing"
    /\ cache' = [cache EXCEPT ![KeyOf(t)] = found[t]]
    /\ Return(t, TRUE)
    /\ UNCHANGED <<rows, call, found>>

\* An exception: of the embedder, the source, the database, the nesting of
\* calls, or of a dictionary that changed its size while it was iterated over.
\* A transaction that is open is rolled back; "committed" is one whose reply was
\* lost.
Raises(t) ==
    /\ \/ pc[t] \in {"search", "crawl", "crawled", "deleting", "deleted", "committed"}
       \/ pc[t] = "sweeping" /\ size[t] # Cardinality(Cached)
    /\ Return(t, FALSE)
    /\ UNCHANGED <<rows, cache, call, found>>

\* The process is killed, in the middle of whatever it does, and started again:
\* the database rolls back what was not committed, and the cache is empty.
Restart ==
    /\ cache' = [k \in Keys |-> {}]
    /\ pc' = [t \in Threads |-> "idle"]
    /\ crawled' = [t \in Threads |-> 0]
    /\ doomed' = [t \in Threads |-> {}]
    /\ size' = [t \in Threads |-> 0]
    /\ depth' = [t \in Threads |-> 0]
    /\ found' = [t \in Threads |-> {}]
    /\ answered' = [t \in Threads |-> FALSE]
    /\ alone' = [t \in Threads |-> TRUE]
    /\ UNCHANGED <<rows, call>>

Proceed(t) ==
    \/ LookupHits(t)
    \/ LookupMisses(t)
    \/ SearchFinds(t)
    \/ SearchIngests(t)
    \/ Crawl(t)
    \/ BeginDelete(t)
    \/ Commit(t)
    \/ BeginSweep(t)
    \/ EndSweep(t)
    \/ CheckRoom(t)
    \/ NoRoom(t)
    \/ Store(t)

\* The exceptions a call cannot avoid.
MustRaise(t) ==
    /\ Raises(t)
    /\ pc[t] \in {"search", "sweeping"}
    /\ pc[t] = "search" => RowsOf(Connector(t)) = {} /\ depth[t] = MaxDepth

Next ==
    \/ \E c \in Connectors : IngestRequest(c)
    \/ \E t \in Workers, c \in Connectors, q \in Questions : LookupRequest(t, c, q)
    \/ \E t \in Threads : Proceed(t) \/ EndDelete(t) \/ Raises(t)
    \/ Restart

Spec == Init /\ [][Next]_vars

\* Statements and calls return; Postgres grants row locks in the order in which
\* they were asked for.
FairSpec ==
    /\ Spec
    /\ \A t \in Threads :
        /\ WF_vars(Proceed(t) \/ MustRaise(t))
        /\ SF_vars(EndDelete(t))

-----------------------------------------------------------------------------
(* Safety.                                                                 *)

\* An ingestion that no other one of the same connector overlaps replaces every
\* row of the connector: its own batch, or nothing, is what remains.
AloneReplacesAll ==
    [][\A t \in Threads : pc[t] = "deleted" /\ pc'[t] = "committed" /\ alone[t] =>
        \A r \in rows' : r.of = Connector(t) => r \notin rows]_vars

\* The index of a connector never becomes empty under a reader because it is
\* being ingested again: only the commit of a source without tables empties it.
OnlyEmptySourcesEmpty ==
    [][\A c \in Connectors : RowsOf(c) # {} /\ {r \in rows' : r.of = c} = {} =>
        \E t \in Threads :
            pc[t] = "deleted" /\ pc'[t] = "committed" /\ Connector(t) = c /\ crawled[t] = 0]_vars

\* However ingestions of a connector overlap, they leave no more copies of its
\* schema than there are threads to ingest it.
CopiesBounded == \A c \in Connectors : Cardinality(RowsOf(c)) <= Cardinality(Threads)

\* What a question finds, in the index or in the cache, are tables of a connector
\* that shares its key, and at least one.  Nobody shares the key if no id goes on
\* where another ends, as "postgres-enc:x" does in "postgres-enc:x:sales".
AnswersAreOfConnector ==
    /\ \A k \in Keys : \A x \in cache[k] : x.of \in Sharing(k)
    /\ \A t \in Workers :
        /\ \A x \in found[t] : x.of \in Sharing(KeyOf(t))
        /\ pc[t] = "storing" \/ (pc[t] = "idle" /\ answered[t]) => found[t] # {}

\* Every ingestion and every lookup ends, whatever locks it waits for and however
\* often it finds the index empty.
EveryCallEnds == \A t \in Threads : pc[t] # "idle" ~> pc[t] = "idle"

-----------------------------------------------------------------------------
(* What the comments say and the code does not do.                         *)

\* ingestor.py:69: the cache is invalidated for the connector that was ingested.
FreshAfterIngest ==
    [][\A t \in Threads : pc[t] = "sweeping" /\ pc'[t] = "idle" /\ answered'[t] =>
        \A q \in Questions :
            cache'[CacheKey(Connector(t), q)] \subseteq Content(RowsOf(Connector(t)))]_vars
=============================================================================
