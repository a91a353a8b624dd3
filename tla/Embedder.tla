------------------------------ MODULE Embedder ------------------------------
(***************************************************************************)
(* llm/together_embedder.py: vectors of texts, kept in a dictionary that   *)
(* takes no more entries once it is full.  A run looks all of its texts    *)
(* up, encodes in one batch those that were missing, and files and stores  *)
(* the vectors under the lock; other threads store in between.             *)
(***************************************************************************)
EXTENDS Progress

CONSTANTS
    Texts,      \* the texts that are embedded
    Batches,    \* the sequences of texts embedded at once
    MaxVectors  \* _MAX_CACHE

ASSUME TextsAssumption ==
    /\ IsFiniteSet(Texts)
    /\ Batches \subseteq Seq(Texts)
    /\ MaxVectors \in Nat

VARIABLES
    embed_cache,    \* _embed_cache; Missing where a text is absent
    texts,          \* texts[r]: the argument of the call
    results         \* results[r]: the list it fills and returns

embedding == <<embed_cache, texts, results>>

\* A vector, known by the text it is of.
Vector(t) == {t}
Missing == {}
Vectors == {Vector(t) : t \in Texts}

EmbedderTypes ==
    /\ embed_cache \in [Texts -> Vectors \union {Missing}]
    /\ texts \in [Runs -> Seq(Texts)]
    /\ results \in [Runs -> Seq(Vectors \union {Missing})]

EmbedderInit ==
    /\ embed_cache = [t \in Texts |-> Missing]
    /\ texts = [r \in Runs |-> <<>>]
    /\ results = [r \in Runs |-> <<>>]

Stored == {t \in Texts : embed_cache[t] # Missing}

\* The positions of the texts that were missing, which are encoded in order.
Uncached(r) == {i \in DOMAIN texts[r] : results[r][i] = Missing}
Before(r, i) == {texts[r][j] : j \in {k \in Uncached(r) : k < i}}

\* Those that are stored: the lock is held, and the room is tested for each.
HasRoom(r, i) == Cardinality(Stored \union Before(r, i)) < MaxVectors
Storable(r) == {texts[r][i] : i \in {k \in Uncached(r) : HasRoom(r, k)}}

\* Faulty: the vectors are filed one after the other from the first position on.
FiledFromTheFirst(r) ==
    [i \in DOMAIN texts[r] |->
        IF i <= Cardinality(Uncached(r))
        THEN Vector(texts[r][CHOOSE k \in Uncached(r) :
                Cardinality({j \in Uncached(r) : j < k}) = i - 1])
        ELSE results[r][i]]
\* The results once each missing position has the vector encoded for it.
Filed(r) == [i \in DOMAIN texts[r] |->
                IF i \in Uncached(r) THEN Vector(texts[r][i]) ELSE results[r][i]]

\* The texts are looked up, without the lock.
EmbedBatch(r, batch) ==
    /\ texts' = [texts EXCEPT ![r] = batch]
    /\ results' = [results EXCEPT ![r] = [i \in DOMAIN batch |-> embed_cache[batch[i]]]]
    /\ Enter(r, "embedding")
    /\ UNCHANGED embed_cache

\* One text goes through the same steps on the same cache.
Embed(r, t) == EmbedBatch(r, <<t>>)

\* The missing ones have been encoded, if there are any.
StoreVectors(r) ==
    /\ stage[r] = "embedding"
    /\ results' = [results EXCEPT ![r] = Filed(r)]
    /\ embed_cache' = [t \in Texts |-> IF t \in Storable(r) THEN Vector(t) ELSE embed_cache[t]]
    /\ Enter(r, "embedded")
    /\ UNCHANGED texts

\* The caller takes the list.
TakeVectors(r) ==
    /\ stage[r] = "embedded"
    /\ texts' = [texts EXCEPT ![r] = <<>>]
    /\ results' = [results EXCEPT ![r] = <<>>]
    /\ UNCHANGED embed_cache

-----------------------------------------------------------------------------
\* Whatever other threads store while a batch is being encoded, each text of it
\* gets its own vector, none is left out, and the cache keeps to its limit
\* (together_embedder.py:49-76); ingestor.py:51 pairs them with the tables by
\* their positions.
VectorsAreOfTheirTexts ==
    /\ \A r \in Runs : stage[r] = "embedded" =>
        results[r] = [i \in DOMAIN texts[r] |-> Vector(texts[r][i])]
    /\ Cardinality(Stored) <= MaxVectors
=============================================================================
