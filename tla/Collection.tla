------------------------------ MODULE Collection ------------------------------
(***************************************************************************)
(* One collection of the vector store (internal/storage/collection.go): an *)
(* HNSW index, a forward index DocMap, an inverted keyword index, and the  *)
(* two in-memory maps KeyLengths and KeyIndex.  Every method runs under    *)
(* the collection's mutex c.mu.  AppendBlock and DeleteKey are one step    *)
(* each; BatchAppendBlocks takes the mutex, then one step per iteration of *)
(* its two loops, and releases it.                                         *)
(*                                                                         *)
(* A map of the code is a function whose domain is the set of its keys.    *)
(* KeyIndex[k] is a slice in the code; its order is never used (and is     *)
(* arbitrary after a restart), so it is a set here.  The HNSW index is the *)
(* map from vector id to vector that its node table holds.                 *)
(***************************************************************************)
EXTENDS Naturals, Sequences, FiniteSets, FiniteSetsExt

CONSTANTS
    Key,        \* keys of the collection
    Keyword,    \* keywords
    Vector,     \* vectors of the collection's dimension
    NoVector,   \* the empty vector
    BadVector,  \* a non-empty vector of another dimension
    Block,      \* blocks a client may append: records with fields vec and kws
    Batches,    \* batches a client may append: sequences of [key, block]
    MaxID       \* bound of the model on the vector ids handed out

ASSUME BlockAssumption ==
    \A b \in Block : /\ b.vec \in Vector \cup {NoVector, BadVector}
                     /\ b.kws \in SUBSET Keyword

ASSUME VectorAssumption == NoVector \notin Vector /\ BadVector \notin Vector

ASSUME BatchAssumption == Batches \subseteq Seq([key : Key, block : Block])

VARIABLES
    hnsw,        \* HNSWIndex.nodes: vector id -> vector
    docMap,      \* DocMap.mapping: vector id -> (key, index)
    postings,    \* KeywordIndex: keyword -> vector ids
    keyLengths,  \* KeyLengths: key -> number of blocks
    keyIndex,    \* KeyIndex: key -> vector ids
    mu,          \* "free", or "batch" while BatchAppendBlocks holds c.mu
    todo,        \* items the first loop of the batch has not reached
    vecs,        \* hnswItems: vectors the batch has not yet inserted
    given        \* auxiliary: the block each live id was given for

indexes == <<hnsw, docMap, postings, keyLengths, keyIndex, given>>
vars == <<indexes, mu, todo, vecs>>

(***************************************************************************)
(* Maps.                                                                   *)
(***************************************************************************)
Put(f, x, v) == [y \in DOMAIN f \cup {x} |-> IF y = x THEN v ELSE f[y]]

Without(f, S) == [y \in DOMAIN f \ S |-> f[y]]

IsMap(f, D, R) == DOMAIN f \subseteq D /\ f \in [DOMAIN f -> R]

-------------------------------------------------------------------------------
(***************************************************************************)
(* Reads.                                                                  *)
(***************************************************************************)

Mut_GetNextVectorID == Cardinality(DOMAIN docMap) + 1

GetNextVectorID == Max({0} \cup DOMAIN docMap) + 1

\* KeyLengths[key] and KeyIndex[key], with Go's zero value for a missing key.
KeyLength(k) == IF k \in DOMAIN keyLengths THEN keyLengths[k] ELSE 0

IDsOf(k) == IF k \in DOMAIN keyIndex THEN keyIndex[k] ELSE {}

\* The ids GetBlockVectorID may return: the ids of the key with this index.
BlockIDs(k, i) == {id \in IDsOf(k) : id \in DOMAIN docMap /\ docMap[id].index = i}

GetBlockVectorID(k, i) == CHOOSE id \in BlockIDs(k, i) : TRUE

\* KeywordIndex.Search in exact mode: documents that match all keywords.
KeywordBits(W) == {id \in UNION {postings[w] : w \in W} : \A w \in W : id \in postings[w]}

KeywordSearch(W) == {docMap[id].key : id \in KeywordBits(W) \cap DOMAIN docMap}

KeyBits(K) == UNION {IDsOf(k) : k \in K}

\* The bit set Search builds from a keyword filter and a key filter.
FilterBits(W, K) ==
    CASE W # {} /\ K # {} -> KeywordBits(W) \cap KeyBits(K)
      [] W # {} /\ K = {} -> KeywordBits(W)
      [] W = {} -> KeyBits(K)

\* The blocks Search may return for a filter, whatever the query vector is: the
\* HNSW index applies a bit set only if it is not empty, and an id without a
\* forward entry is dropped.
SearchScope(W, K) ==
    {id \in DOMAIN hnsw \cap DOMAIN docMap :
        FilterBits(W, K) # {} => id \in FilterBits(W, K)}

-------------------------------------------------------------------------------
Init ==
    /\ hnsw = << >> /\ docMap = << >> /\ given = << >>
    /\ postings = [w \in Keyword |-> {}]
    /\ keyLengths = << >> /\ keyIndex = << >>
    /\ mu = "free" /\ todo = << >> /\ vecs = << >>

\* HNSWIndex.Add accepts a vector of the right dimension under an unused id.
HNSWAccepts(id, v) == v \in Vector /\ id \notin DOMAIN hnsw

Mut_Register(id, k, b) ==
    /\ docMap' = Put(docMap, id, [key |-> k, index |-> KeyLength(k)])
    /\ postings' = [w \in Keyword |-> IF w \in b.kws THEN {id} ELSE postings[w]]
    /\ keyLengths' = Put(keyLengths, k, KeyLength(k) + 1)
    /\ keyIndex' = Put(keyIndex, k, IDsOf(k) \cup {id})
    /\ given' = Put(given, id, b)

\* What AppendBlock and each iteration of BatchAppendBlocks do to the forward
\* index, the keyword index and the in-memory maps.
Register(id, k, b) ==
    /\ docMap' = Put(docMap, id, [key |-> k, index |-> KeyLength(k)])
    /\ postings' = [w \in Keyword |->
                        IF w \in b.kws THEN postings[w] \cup {id} ELSE postings[w]]
    /\ keyLengths' = Put(keyLengths, k, KeyLength(k) + 1)
    /\ keyIndex' = Put(keyIndex, k, IDsOf(k) \cup {id})
    /\ given' = Put(given, id, b)

AppendBlock(k, b) ==
    /\ mu = "free"
    /\ b.vec = NoVector \/ HNSWAccepts(GetNextVectorID, b.vec)
    /\ hnsw' = IF b.vec = NoVector THEN hnsw ELSE Put(hnsw, GetNextVectorID, b.vec)
    /\ Register(GetNextVectorID, k, b)
    /\ UNCHANGED <<mu, todo, vecs>>

\* HNSWIndex.Add fails before anything has changed.
AppendBlockFails(b) ==
    /\ mu = "free"
    /\ b.vec # NoVector /\ ~HNSWAccepts(GetNextVectorID, b.vec)
    /\ UNCHANGED vars

BatchBegin(items) ==
    /\ mu = "free"
    /\ mu' = "batch" /\ todo' = items
    /\ UNCHANGED <<indexes, vecs>>

\* One iteration of the first loop of BatchAppendBlocks.
BatchItem ==
    /\ mu = "batch" /\ todo # << >>
    /\ LET it == Head(todo)
           id == GetNextVectorID
       IN  /\ Register(id, it.key, it.block)
           /\ vecs' = IF it.block.vec = NoVector THEN vecs
                      ELSE Append(vecs, [id |-> id, vec |-> it.block.vec])
    /\ todo' = Tail(todo)
    /\ UNCHANGED <<hnsw, mu>>

Mut_BatchVector ==
    /\ mu = "batch" /\ todo = << >> /\ vecs # << >>
    /\ LET it == Head(vecs)
       IN  /\ hnsw' = IF HNSWAccepts(it.id, it.vec) THEN Put(hnsw, it.id, it.vec) ELSE hnsw
           /\ vecs' = IF HNSWAccepts(it.id, it.vec) THEN Tail(vecs) ELSE << >>
    /\ UNCHANGED <<docMap, postings, keyLengths, keyIndex, given, mu, todo>>

\* One iteration of HNSWIndex.BatchAdd, which skips a vector it cannot add.
BatchVector ==
    /\ mu = "batch" /\ todo = << >> /\ vecs # << >>
    /\ LET it == Head(vecs)
       IN  hnsw' = IF HNSWAccepts(it.id, it.vec) THEN Put(hnsw, it.id, it.vec) ELSE hnsw
    /\ vecs' = Tail(vecs)
    /\ UNCHANGED <<docMap, postings, keyLengths, keyIndex, given, mu, todo>>

BatchEnd ==
    /\ mu = "batch" /\ todo = << >> /\ vecs = << >>
    /\ mu' = "free"
    /\ UNCHANGED <<indexes, todo, vecs>>

\* DeleteKey leaves the ids of the key in the keyword index.
DeleteKey(k) ==
    /\ mu = "free"
    /\ k \in DOMAIN keyIndex
    /\ hnsw' = Without(hnsw, keyIndex[k])
    /\ docMap' = Without(docMap, keyIndex[k])
    /\ given' = Without(given, keyIndex[k])
    /\ keyLengths' = Without(keyLengths, {k})
    /\ keyIndex' = Without(keyIndex, {k})
    /\ UNCHANGED <<postings, mu, todo, vecs>>

DeleteKeyFails(k) ==
    /\ mu = "free"
    /\ k \notin DOMAIN keyIndex
    /\ UNCHANGED vars

Next ==
    \/ \E k \in Key, b \in Block : GetNextVectorID <= MaxID /\ AppendBlock(k, b)
    \/ \E b \in Block : AppendBlockFails(b)
    \/ \E items \in Batches : GetNextVectorID + Len(items) <= MaxID + 1 /\ BatchBegin(items)
    \/ BatchItem \/ BatchVector \/ BatchEnd
    \/ \E k \in Key : DeleteKey(k) \/ DeleteKeyFails(k)

Spec == Init /\ [][Next]_vars
-------------------------------------------------------------------------------
(***************************************************************************)
(* Properties.                                                             *)
(***************************************************************************)

\* Every variable has the type of the Go field it stands for.
TypeOK ==
    /\ IsMap(hnsw, Nat, Vector)
    /\ IsMap(docMap, Nat, [key : Key, index : Nat])
    /\ postings \in [Keyword -> SUBSET Nat]
    /\ IsMap(keyLengths, Key, Nat)
    /\ IsMap(keyIndex, Key, SUBSET Nat)
    /\ IsMap(given, Nat, Block) /\ DOMAIN given = DOMAIN docMap
    /\ mu \in {"free", "batch"}
    /\ todo \in Seq([key : Key, block : Block])
    /\ vecs \in Seq([id : Nat, vec : Vector \cup {BadVector}])

\* The three views of "which blocks does a key have" agree after any sequence of
\* appends, batches and deletes: KeyIndex lists exactly the ids whose forward
\* entry names the key, and KeyLengths has the same keys (ContainsKey, ListKeys
\* and GetKeyLength read KeyLengths; Search and DeleteKey read KeyIndex).
KeyIndexAgrees ==
    /\ DOMAIN keyIndex = DOMAIN keyLengths
    /\ \A id \in DOMAIN docMap : docMap[id].key \in DOMAIN keyIndex
    /\ \A k \in DOMAIN keyIndex :
         keyIndex[k] = {id \in DOMAIN docMap : docMap[id].key = k}

\* GetBlockVectorID finds exactly one id for every index below GetKeyLength, and
\* no key has a block at or beyond its length: the array of a key has no holes
\* and no index is given to two blocks, although ids are reused after deletes.
BlocksDense ==
    \A k \in DOMAIN keyLengths :
       /\ keyLengths[k] > 0
       /\ \A i \in 0 .. keyLengths[k] - 1 : \E id \in keyIndex[k] : BlockIDs(k, i) = {id}
       /\ \A id \in keyIndex[k] : docMap[id].index < keyLengths[k]

\* In a collection that started empty, no vector of the HNSW index outlives its
\* block (what repair.go calls an orphan), and the next vector id is unused in
\* the HNSW index, so that an append is never refused with "already exists".
NoOrphanVectors ==
    /\ DOMAIN hnsw \subseteq DOMAIN docMap
    /\ GetNextVectorID \notin DOMAIN hnsw

\* KeywordSearch finds the key of every live block that was appended with the
\* keywords, however the ids were recycled by DeleteKey and the appends after it.
KeywordsFound ==
    \A W \in (SUBSET Keyword) \ {{}} : \A id \in DOMAIN docMap :
        W \subseteq given[id].kws => docMap[id].key \in KeywordSearch(W)

\* SearchInKey is "restricted to a single key's array" for every key that has
\* blocks: the blocks Search may return under a filter on the key are those of
\* its blocks that have a vector, however the ids were recycled.
KeyFilterRestricts ==
    \A k \in DOMAIN keyIndex :
        SearchScope({}, {k}) = {id \in DOMAIN hnsw \cap DOMAIN docMap : docMap[id].key = k}

-------------------------------------------------------------------------------
(***************************************************************************)
(* Refinement: what GetVector shows of a key is an array of blocks.  A     *)
(* vector that the running batch has still to insert counts as inserted,   *)
(* because c.mu keeps every reader out until the batch is done.            *)
(***************************************************************************)
Pending(id) == {vecs[n].vec : n \in {m \in 1 .. Len(vecs) : vecs[m].id = id}}

VectorOf(id) ==
    IF id \in DOMAIN hnsw THEN hnsw[id]
    ELSE IF Pending(id) \cap Vector # {} THEN CHOOSE v \in Pending(id) \cap Vector : TRUE
    ELSE NoVector

GetVectors(k) == [i \in 1 .. KeyLength(k) |-> VectorOf(GetBlockVectorID(k, i - 1))]

Abstract == INSTANCE DocStore WITH store <- [k \in Key |-> GetVectors(k)]

\* The collection implements DocStore: each successful append adds one block at
\* the end of one key's array with the vector it was given, a delete empties one
\* array, and no step changes a block of another key.
ImplementsDocStore == Abstract!Spec
===============================================================================
