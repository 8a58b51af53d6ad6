---------------------------- MODULE LongTermMemory ----------------------------
(***************************************************************************)
(* The long-term memory that subtasks write to and the planner and later   *)
(* subtasks recall from: a dictionary of the process, or a collection of   *)
(* Qdrant that outlives it.  A text becomes a vector by hashing its words. *)
(*                                                                         *)
(* No operation awaits anything but the next call, so operations do not    *)
(* overlap.  A call of Qdrant may fail, before or after it had its effect. *)
(***************************************************************************)
EXTENDS Integers, FiniteSets, Sequences, SequencesExt

CONSTANTS
  Storages,       \* kinds of memory
  Words,          \* lower-case words of the texts
  MaxWords,       \* bound: words in a text
  Digests,        \* what the first bytes of a word's SHA-256 may be
  Dimensions,     \* values that embedding_dimension is given
  MaxItems,       \* bound: texts stored
  MaxMemoryFaults \* bound: failed calls of Qdrant

ASSUME MemoryAssumption ==
  /\ Storages \subseteq {"memory", "qdrant"}
  /\ Digests \subseteq Nat /\ Dimensions \subseteq Nat \ {0}
  /\ {MaxWords, MaxItems, MaxMemoryFaults} \subseteq Nat

VARIABLES
  storage,      \* the kind
  digest,       \* of every word, and whether its fifth byte is even
  dimension,    \* of the vectors this process makes
  collection,   \* its size is 0 when there is none
  remembered,   \* items whose caller was told they are stored, not removed since
  storeCalls,
  memoryFaults

memoryVars ==
  <<storage, digest, dimension, collection, remembered, storeCalls, memoryFaults>>

Texts == UNION {[1 .. n -> Words] : n \in 0 .. MaxWords}

-----------------------------------------------------------------------------
(* Texts as vectors.  A vector is kept without its division by the magnitude,
   which no comparison of scores needs.                                    *)

\* HashingEmbeddingProvider: a word adds 1 or -1 to its bucket.
Embed(text, size) ==
  LET words(b, even) == {w \in Words : digest[w].number % size = b /\ digest[w].even = even}
      count(S) == Cardinality({i \in DOMAIN text : text[i] \in S})
  IN [b \in 0 .. size - 1 |-> count(words(b, TRUE)) - count(words(b, FALSE))]

Dot(u, v) ==
  LET size == Cardinality(DOMAIN u)
      sum[n \in 0 .. size] == IF n = 0 THEN 0 ELSE sum[n - 1] + u[n - 1] * v[n - 1]
  IN sum[size]
IsZero(u) == \A b \in DOMAIN u : u[b] = 0

\* Mutant: how much two texts have to do with each other, either way.
SquaredCosine(u, v) ==
  IF IsZero(u) \/ IsZero(v) THEN [over |-> 0, under |-> 1]
  ELSE [over |-> Dot(u, v) * Dot(u, v), under |-> Dot(u, u) * Dot(v, v)]

\* _cosine_similarity, squared with its sign: 0 when a vector has no length.
Cosine(u, v) ==
  IF IsZero(u) \/ IsZero(v) THEN [over |-> 0, under |-> 1]
  ELSE [over |-> (IF Dot(u, v) < 0 THEN -1 ELSE 1) * Dot(u, v) * Dot(u, v),
        under |-> Dot(u, u) * Dot(v, v)]

Higher(s, t) == s.over * t.under > t.over * s.under

\* The orders of the items by descending score.  The sort in memory is stable:
\* equal vectors keep their order; otherwise rounding or Qdrant decides ties.
Rankings(query) ==
  LET items == collection.items
      score(i) == Cosine(Embed(query, dimension), items[i].vector)
      mayPrecede(i, j) ==
        /\ ~Higher(score(j), score(i))
        /\ storage = "memory" /\ items[i].vector = items[j].vector => i < j
  IN {s \in [DOMAIN items -> DOMAIN items] :
        \A j, k \in DOMAIN s : j < k => s[j] # s[k] /\ mayPrecede(s[j], s[k])}

\* retrieve: what may be answered; a query of another size is an error, of which
\* the callers make an answer without items.
Recalls(query, topK) ==
  IF collection.size # dimension THEN {<<>>}
  ELSE {SubSeq(s, 1, IF Len(s) < topK THEN Len(s) ELSE topK) : s \in Rankings(query)}

-----------------------------------------------------------------------------
(* Operations *)

Empty(size) == [size |-> size, items |-> <<>>]

\* _ensure_collection: one that is there is kept, whatever its size.
Ensured(c) == IF c.size = 0 THEN Empty(dimension') ELSE c

\* create_long_term_memory: in memory the size is always the provider's own.
MemoryInit ==
  /\ storage \in Storages
  /\ digest \in [Words -> [number : Digests, even : BOOLEAN]]
  /\ dimension \in Dimensions
  /\ collection = Empty(dimension)
  /\ remembered = {}
  /\ storeCalls = 0 /\ memoryFaults = 0

\* A call of Qdrant that raises although it could have been served.
CallFails ==
  /\ storage = "qdrant" /\ memoryFaults < MaxMemoryFaults
  /\ memoryFaults' = memoryFaults + 1

CallServed == memoryFaults' = memoryFaults

\* store: Qdrant refuses a vector of another size; whoever remembers a subtask
\* ignores that, and a tool's caller is told.
Store(text) ==
  LET item == [id |-> storeCalls + 1, text |-> text, vector |-> Embed(text, dimension)]
      added == [collection EXCEPT !.items = Append(@, item)]
      fits == collection.size = dimension
  IN /\ storeCalls < MaxItems /\ storeCalls' = storeCalls + 1
     /\ \/ /\ CallServed /\ fits
           /\ collection' = added
           /\ remembered' = remembered \cup {[id |-> item.id, text |-> text]}
        \/ /\ CallServed /\ ~fits
           /\ UNCHANGED <<collection, remembered>>
        \/ /\ CallFails /\ fits
           /\ collection' \in {collection, added}
           /\ UNCHANGED remembered
     /\ UNCHANGED <<storage, digest, dimension>>

\* delete: an item that is not there is no error.
Delete(id) ==
  /\ collection.size # 0
  /\ \/ CallServed /\ \E k \in DOMAIN collection.items :
          /\ collection.items[k].id = id
          /\ collection' = [collection EXCEPT !.items = RemoveAt(@, k)]
     \/ /\ CallServed /\ \A k \in DOMAIN collection.items : collection.items[k].id # id
        /\ UNCHANGED collection
     \/ CallFails /\ UNCHANGED collection
  /\ remembered' = {m \in remembered : m.id # id}
  /\ UNCHANGED <<storage, digest, dimension, storeCalls>>

\* clear: Qdrant's collection is deleted and then made again, in the size of
\* now, unless the first call fails and nothing happens, or the second one.
Clear ==
  /\ collection.size # 0
  /\ \/ CallServed /\ collection' = Empty(dimension) /\ remembered' = {}
     \/ CallFails /\ collection' = Empty(0) /\ remembered' = {}
     \/ CallFails /\ UNCHANGED <<collection, remembered>>
  /\ UNCHANGED <<storage, digest, dimension, storeCalls>>

\* A new process, maybe with another embedding_dimension.
RestartMemory ==
  /\ dimension' \in (IF storage = "memory" THEN {dimension} ELSE Dimensions)
  /\ IF storage = "memory" THEN collection' = Empty(dimension') /\ remembered' = {}
     ELSE collection' = Ensured(collection) /\ UNCHANGED remembered
  /\ UNCHANGED <<storage, digest, storeCalls, memoryFaults>>

MemoryNext ==
  \/ \E text \in Texts : Store(text)
  \/ \E id \in 1 .. storeCalls : Delete(id)
  \/ Clear \/ RestartMemory

MemorySpec == MemoryInit /\ [][MemoryNext]_memoryVars

-----------------------------------------------------------------------------
(* Properties *)

SameWords(s, t) ==
  \A w \in Words : Cardinality({i \in DOMAIN s : s[i] = w})
                     = Cardinality({i \in DOMAIN t : t[i] = w})

SameDirection(u, v) == Dot(u, v) > 0 /\ Dot(u, v) * Dot(u, v) = Dot(u, u) * Dot(v, v)

\* What a caller was told is stored stays until it is removed, over restarts in
\* Qdrant and whatever fails.  As many items are recalled as were asked for and
\* are there, and a text that says exactly what is asked is among them, unless
\* its words cancel each other out or texts that hash alike take its place.
MemoryIsTrue ==
  LET items == collection.items
  IN /\ \A m \in remembered : \E i \in DOMAIN items :
          items[i].id = m.id /\ items[i].text = m.text
     /\ collection.size = dimension =>
          \A query \in Texts, topK \in 1 .. MaxItems : \A answer \in Recalls(query, topK) :
            /\ Len(answer) = (IF Len(items) < topK THEN Len(items) ELSE topK)
            /\ \A i \in DOMAIN items \ Range(answer) :
                 SameWords(items[i].text, query) =>
                   \/ IsZero(items[i].vector)
                   \/ \A a \in Range(answer) :
                        SameDirection(items[a].vector, items[i].vector)
=============================================================================
