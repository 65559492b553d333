--------------------------- MODULE CollectionProofs ---------------------------
(***************************************************************************)
(* Proofs that the indexes of a collection stay consistent, for any sets   *)
(* of keys, keywords, vectors, blocks and batches; and that a collection   *)
(* implements DocStore: with what GetVector shows of each key as the array *)
(* of the key, every step of AppendBlock, BatchAppendBlocks and DeleteKey  *)
(* is a step of DocStore or changes nothing in it.                         *)
(***************************************************************************)
EXTENDS Collection, WellFoundedInduction, TLAPS

(* A leaf is tried with Zenon, then with the SMT solver. *)
USE ZenonT(5), SMTT(30)

\* The forward index is bounded, so that GetNextVectorID is defined.
Bounded == \E n \in Nat : \A id \in DOMAIN docMap : id <= n

\* The array of a key, one quantifier at a time: no holes, nothing beyond the
\* length, and no index twice.
Dense ==
    \A k \in DOMAIN keyLengths :
       /\ keyLengths[k] > 0
       /\ \A i \in 0 .. keyLengths[k] - 1 : \E id \in keyIndex[k] : docMap[id].index = i
       /\ \A id \in keyIndex[k] : docMap[id].index < keyLengths[k]
       /\ \A id1, id2 \in keyIndex[k] : docMap[id1].index = docMap[id2].index => id1 = id2

\* Every live block is in the postings of the keywords it was appended with.
Posted == \A id \in DOMAIN docMap : \A w \in given[id].kws : id \in postings[w]

\* Outside a batch nothing is pending, and the vectors of a batch that still
\* have to be inserted belong to blocks the batch has registered.
BatchInv ==
    /\ mu = "free" => vecs = << >>
    /\ \A n \in 1 .. Len(vecs) : vecs[n].id \in DOMAIN docMap

\* The part of TypeOK that speaks of the maps Register and DeleteKey change.
IndexTypes ==
    /\ IsMap(docMap, Nat, [key : Key, index : Nat])
    /\ postings \in [Keyword -> SUBSET Nat]
    /\ IsMap(keyLengths, Key, Nat)
    /\ IsMap(keyIndex, Key, SUBSET Nat)
    /\ IsMap(given, Nat, Block) /\ DOMAIN given = DOMAIN docMap

\* The inductive invariant.
IndexInv == IndexTypes /\ Bounded /\ KeyIndexAgrees /\ Dense /\ Posted

IInv == TypeOK /\ IndexInv /\ BatchInv /\ DOMAIN hnsw \subseteq DOMAIN docMap

-------------------------------------------------------------------------------
\* A non-empty bounded set of naturals has a largest element.
LEMMA MaxExists ==
    ASSUME NEW S \in SUBSET Nat, S # {}, NEW n \in Nat, \A x \in S : x <= n
    PROVE  \E m \in S : \A y \in S : m >= y
<1> DEFINE T == {n - x : x \in S}
<1>1. T \subseteq Nat /\ T # {}
  <2>1. T \subseteq Nat
    OBVIOUS
  <2>2. PICK x \in S : TRUE
    OBVIOUS
  <2>3. n - x \in T
    OBVIOUS
  <2> QED
    BY <2>1, <2>3
<1>2. PICK t \in T : \A u \in T : ~(<<u, t>> \in OpToRel(<, Nat))
  BY <1>1, NatLessThanWellFounded, WFMin
<1>3. PICK m \in S : t = n - m
  OBVIOUS
<1>4. ASSUME NEW y \in S PROVE m >= y
  <2>1. n - y \in T /\ n - y \in Nat /\ t \in Nat
    BY <1>1
  <2>2. ~(n - y < t)
    BY <1>2, <2>1 DEF OpToRel
  <2> QED
    BY <1>3, <2>1, <2>2
<1> QED
  BY <1>4

\* GetNextVectorID is above every id of the forward index.
LEMMA NextIDFresh ==
    ASSUME IsMap(docMap, Nat, [key : Key, index : Nat]), Bounded
    PROVE  /\ GetNextVectorID \in Nat
           /\ \A id \in DOMAIN docMap : id < GetNextVectorID
<1> DEFINE S == {0} \cup DOMAIN docMap
<1>1. S \in SUBSET Nat /\ S # {}
  BY DEF IsMap
<1>2. PICK n \in Nat : \A x \in S : x <= n
  BY DEF Bounded, IsMap
<1>3. \E m \in S : \A y \in S : m >= y
  BY <1>1, <1>2, MaxExists
<1>4. Max(S) \in S /\ \A y \in S : Max(S) >= y
  BY <1>3 DEF Max
<1>5. PICK m \in S : m = Max(S) /\ \A y \in S : m >= y
  BY <1>4
<1>6. GetNextVectorID = m + 1
  BY <1>5 DEF GetNextVectorID
<1> QED
  BY <1>1, <1>5, <1>6

\* The density of the arrays is what BlocksDense says of GetBlockVectorID.
LEMMA DenseImpliesBlocksDense ==
    ASSUME KeyIndexAgrees, Dense
    PROVE  BlocksDense
<1> SUFFICES ASSUME NEW k \in DOMAIN keyLengths, NEW i \in 0 .. keyLengths[k] - 1
             PROVE  \E id \in keyIndex[k] : BlockIDs(k, i) = {id}
  BY DEF Dense, BlocksDense
<1>1. PICK id \in keyIndex[k] : docMap[id].index = i
  BY DEF Dense
<1>2. BlockIDs(k, i) = {id}
  BY <1>1 DEF BlockIDs, IDsOf, KeyIndexAgrees, Dense
<1> QED
  BY <1>2
-------------------------------------------------------------------------------
\* Registering a block under an id above all others keeps the indexes
\* consistent: it becomes the last block of its key.
LEMMA RegisterKeepsIndexes ==
    ASSUME IndexInv, NEW id \in Nat, \A x \in DOMAIN docMap : x < id,
           NEW k \in Key, NEW b \in Block, Register(id, k, b)
    PROVE  IndexInv'
<1> USE DEF IndexInv
<1>1. id \notin DOMAIN docMap
  BY DEF IndexTypes, IsMap
<1>2. KeyLength(k) \in Nat /\ IDsOf(k) \in SUBSET Nat
  BY DEF IndexTypes, IsMap, KeyLength, IDsOf, KeyIndexAgrees
<1>3. /\ DOMAIN docMap' = DOMAIN docMap \cup {id}
      /\ docMap'[id] = [key |-> k, index |-> KeyLength(k)]
      /\ \A x \in DOMAIN docMap : docMap'[x] = docMap[x]
  BY <1>1 DEF Register, Put
<1>4. /\ DOMAIN keyLengths' = DOMAIN keyLengths \cup {k}
      /\ keyLengths'[k] = KeyLength(k) + 1
      /\ \A x \in DOMAIN keyLengths \ {k} : keyLengths'[x] = keyLengths[x]
  BY DEF Register, Put
<1>5. /\ DOMAIN keyIndex' = DOMAIN keyIndex \cup {k}
      /\ keyIndex'[k] = IDsOf(k) \cup {id}
      /\ \A x \in DOMAIN keyIndex \ {k} : keyIndex'[x] = keyIndex[x]
  BY DEF Register, Put
<1>6. /\ DOMAIN given' = DOMAIN given \cup {id}
      /\ given'[id] = b
      /\ \A x \in DOMAIN given \ {id} : given'[x] = given[x]
  BY DEF Register, Put
<1>7. /\ \A w \in Keyword : postings[w] \subseteq postings'[w]
      /\ \A w \in b.kws : id \in postings'[w]
  BY BlockAssumption DEF Register, IndexTypes
<1>8. IndexTypes'
  <2>1. IsMap(docMap, Nat, [key : Key, index : Nat])'
    BY <1>2 DEF IndexTypes, IsMap, Register, Put
  <2>2. postings' \in [Keyword -> SUBSET Nat]
    BY DEF IndexTypes, Register
  <2>3. IsMap(keyLengths, Key, Nat)'
    BY <1>2 DEF IndexTypes, IsMap, Register, Put
  <2>4. IsMap(keyIndex, Key, SUBSET Nat)'
    BY <1>2 DEF IndexTypes, IsMap, Register, Put
  <2>5. IsMap(given, Nat, Block)' /\ DOMAIN given' = DOMAIN docMap'
    BY <1>3, BlockAssumption DEF IndexTypes, IsMap, Register, Put
  <2> QED
    BY <2>1, <2>2, <2>3, <2>4, <2>5 DEF IndexTypes
<1>9. Bounded'
  BY <1>3 DEF Bounded, IndexTypes, IsMap
<1>10. IDsOf(k) = {x \in DOMAIN docMap : docMap[x].key = k}
  BY DEF IDsOf, KeyIndexAgrees
<1>11. KeyIndexAgrees'
  BY <1>1, <1>3, <1>4, <1>5, <1>10 DEF KeyIndexAgrees
<1>12. Dense'
  <2> SUFFICES ASSUME NEW j \in DOMAIN keyLengths'
               PROVE  /\ keyLengths'[j] > 0
                      /\ \A i \in 0 .. keyLengths'[j] - 1 :
                            \E x \in keyIndex'[j] : docMap'[x].index = i
                      /\ \A x \in keyIndex'[j] : docMap'[x].index < keyLengths'[j]
                      /\ \A x, y \in keyIndex'[j] :
                            docMap'[x].index = docMap'[y].index => x = y
    BY DEF Dense
  <2>1. CASE j = k
    <3>1. /\ \A i \in 0 .. KeyLength(k) - 1 : \E x \in IDsOf(k) : docMap[x].index = i
          /\ \A x \in IDsOf(k) : docMap[x].index < KeyLength(k)
          /\ \A x, y \in IDsOf(k) : docMap[x].index = docMap[y].index => x = y
      BY DEF Dense, KeyIndexAgrees, KeyLength, IDsOf
    <3>2. \A x \in IDsOf(k) : docMap'[x].index = docMap[x].index /\ docMap[x].index \in Nat
      BY <1>3, <1>10 DEF IndexTypes, IsMap
    <3>3. docMap'[id].index = KeyLength(k)
      BY <1>3
    <3> QED
      BY <2>1, <3>1, <3>2, <3>3, <1>2, <1>4, <1>5
  <2>2. CASE j # k
    <3>1. j \in DOMAIN keyLengths /\ keyLengths'[j] = keyLengths[j]
      BY <2>2, <1>4
    <3>2. keyIndex'[j] = keyIndex[j] /\ keyIndex[j] \subseteq DOMAIN docMap
      BY <2>2, <3>1, <1>5 DEF KeyIndexAgrees
    <3>3. \A x \in keyIndex[j] : docMap'[x].index = docMap[x].index
      BY <3>2, <1>3
    <3> QED
      BY <3>1, <3>2, <3>3 DEF Dense
  <2> QED
    BY <2>1, <2>2
<1>13. Posted'
  <2>1. ASSUME NEW x \in DOMAIN docMap', NEW w \in given'[x].kws
        PROVE  x \in postings'[w]
    <3>1. CASE x = id
      BY <1>6, <1>7, <3>1
    <3>2. CASE x # id
      <4>1. x \in DOMAIN docMap /\ x \in DOMAIN given /\ given'[x] = given[x]
        BY <1>3, <1>6, <3>2 DEF IndexTypes
      <4>2. given[x] \in Block
        BY <4>1 DEF IndexTypes, IsMap
      <4>3. w \in Keyword /\ x \in postings[w]
        BY <4>1, <4>2, BlockAssumption DEF Posted
      <4> QED
        BY <1>7, <4>3
    <3> QED
      BY <3>1, <3>2
  <2> QED
    BY <2>1 DEF Posted
<1> QED
  BY <1>8, <1>9, <1>11, <1>12, <1>13

\* Deleting a key removes its array and nothing of any other key.
LEMMA DeleteKeepsIndexes ==
    ASSUME IndexInv, NEW k \in Key, DeleteKey(k)
    PROVE  IndexInv'
<1> USE DEF IndexInv
<1>1. /\ DOMAIN docMap' = DOMAIN docMap \ keyIndex[k]
      /\ \A x \in DOMAIN docMap' : docMap'[x] = docMap[x]
  BY DEF DeleteKey, Without
<1>2. /\ DOMAIN keyLengths' = DOMAIN keyLengths \ {k}
      /\ \A x \in DOMAIN keyLengths' : keyLengths'[x] = keyLengths[x]
  BY DEF DeleteKey, Without
<1>3. /\ DOMAIN keyIndex' = DOMAIN keyIndex \ {k}
      /\ \A x \in DOMAIN keyIndex' : keyIndex'[x] = keyIndex[x]
  BY DEF DeleteKey, Without
<1>4. /\ DOMAIN given' = DOMAIN docMap'
      /\ \A x \in DOMAIN given' : given'[x] = given[x]
  BY DEF DeleteKey, Without, IndexTypes
<1>5. IndexTypes'
  BY DEF IndexTypes, IsMap, DeleteKey, Without
<1>6. Bounded'
  BY <1>1 DEF Bounded
<1>7. k \in DOMAIN keyIndex
  BY DEF DeleteKey
<1>8. \A j \in DOMAIN keyIndex' : keyIndex[j] \subseteq DOMAIN docMap'
  BY <1>1, <1>3, <1>7 DEF KeyIndexAgrees
<1>9. KeyIndexAgrees'
  BY <1>1, <1>2, <1>3, <1>7 DEF KeyIndexAgrees
<1>10. Dense'
  BY <1>1, <1>2, <1>3, <1>8 DEF Dense, KeyIndexAgrees
<1>11. Posted'
  BY <1>1, <1>4 DEF Posted, DeleteKey
<1> QED
  BY <1>5, <1>6, <1>9, <1>10, <1>11
-------------------------------------------------------------------------------
\* The head and the tail of a non-empty queue, and a queue that grows.
LEMMA QueueTypes ==
    ASSUME NEW S, NEW q \in Seq(S)
    PROVE  /\ q # << >> => Head(q) \in S /\ Tail(q) \in Seq(S)
           /\ \A x \in S : Append(q, x) \in Seq(S)
OBVIOUS

\* A new collection (CreateCollection) satisfies the inductive invariant.
LEMMA InitIInv == Init => IInv
<1> SUFFICES ASSUME Init PROVE IInv
  OBVIOUS
<1>1. TypeOK /\ IndexTypes
  BY DEF Init, TypeOK, IndexTypes, IsMap
<1>2. Bounded
  BY DEF Init, Bounded
<1>3. KeyIndexAgrees /\ Dense /\ Posted /\ BatchInv
  BY DEF Init, KeyIndexAgrees, Dense, Posted, BatchInv
<1> QED
  BY <1>1, <1>2, <1>3 DEF Init, IInv, IndexInv

\* AppendBlock preserves the inductive invariant: the id it takes is above all
\* others, and it gives it to the vector and to the block alike.
LEMMA AppendBlockIInv ==
    ASSUME IInv, NEW k \in Key, NEW b \in Block, AppendBlock(k, b)
    PROVE  IInv'
<1> DEFINE id == GetNextVectorID
<1>1. id \in Nat /\ \A x \in DOMAIN docMap : x < id
  BY NextIDFresh DEF IInv, IndexInv, IndexTypes
<1>2. Register(id, k, b)
  BY DEF AppendBlock
<1> HIDE DEF id
<1>3. IndexInv'
  BY <1>1, <1>2, RegisterKeepsIndexes DEF IInv
<1>4. DOMAIN docMap' = DOMAIN docMap \cup {id}
  BY <1>2 DEF Register, Put
<1>5. hnsw' = IF b.vec = NoVector THEN hnsw ELSE Put(hnsw, id, b.vec)
  BY DEF AppendBlock, id
<1>6. b.vec = NoVector \/ b.vec \in Vector
  BY DEF AppendBlock, HNSWAccepts
<1>7. IsMap(hnsw, Nat, Vector)' /\ DOMAIN hnsw' \subseteq DOMAIN docMap'
  BY <1>1, <1>4, <1>5, <1>6 DEF IInv, TypeOK, IsMap, Put
<1>8. UNCHANGED <<mu, todo, vecs>>
  BY DEF AppendBlock
<1>9. TypeOK'
  BY <1>3, <1>7, <1>8 DEF IInv, IndexInv, TypeOK, IndexTypes
<1>10. BatchInv'
  BY <1>4, <1>8 DEF IInv, BatchInv
<1> QED
  BY <1>3, <1>7, <1>9, <1>10 DEF IInv

\* An iteration of the first loop of BatchAppendBlocks preserves it as well.
LEMMA BatchItemIInv ==
    ASSUME IInv, BatchItem
    PROVE  IInv'
<1> DEFINE id == GetNextVectorID
           it == Head(todo)
<1>1. id \in Nat /\ \A x \in DOMAIN docMap : x < id
  BY NextIDFresh DEF IInv, IndexInv, IndexTypes
<1>2. /\ Register(id, it.key, it.block)
      /\ vecs' = IF it.block.vec = NoVector THEN vecs
                 ELSE Append(vecs, [id |-> id, vec |-> it.block.vec])
      /\ todo' = Tail(todo) /\ todo # << >>
      /\ UNCHANGED <<hnsw, mu>> /\ mu = "batch"
  BY DEF BatchItem
<1>3. it \in [key : Key, block : Block]
  BY <1>2, QueueTypes DEF IInv, TypeOK
<1> HIDE DEF id, it
<1>4. it.key \in Key /\ it.block \in Block
  BY <1>3
<1>5. it.block.vec \in Vector \cup {NoVector, BadVector}
  BY <1>4, BlockAssumption
<1>6. IndexInv'
  BY <1>1, <1>2, <1>4, RegisterKeepsIndexes DEF IInv
<1>7. DOMAIN docMap' = DOMAIN docMap \cup {id}
  BY <1>2 DEF Register, Put
<1>8. vecs' \in Seq([id : Nat, vec : Vector \cup {BadVector}])
  <2> DEFINE P == [id : Nat, vec : Vector \cup {BadVector}]
             p == [id |-> id, vec |-> it.block.vec]
  <2>1. vecs \in Seq(P)
    BY DEF IInv, TypeOK
  <2>2. it.block.vec # NoVector => p \in P
    BY <1>1, <1>5
  <2>3. vecs' = IF it.block.vec = NoVector THEN vecs ELSE Append(vecs, p)
    BY <1>2
  <2> HIDE DEF P, p
  <2>4. vecs' \in Seq(P)
    BY <2>1, <2>2, <2>3, QueueTypes
  <2> QED
    BY <2>4 DEF P
<1>9. \A n \in 1 .. Len(vecs') : vecs'[n].id \in DOMAIN docMap'
  <2>1. CASE it.block.vec = NoVector
    BY <2>1, <1>2, <1>7 DEF IInv, BatchInv
  <2>2. CASE it.block.vec # NoVector
    <3>1. vecs' = Append(vecs, [id |-> id, vec |-> it.block.vec])
      BY <2>2, <1>2
    <3>2. vecs \in Seq([id : Nat, vec : Vector \cup {BadVector}])
      BY DEF IInv, TypeOK
    <3>3. ASSUME NEW n \in 1 .. Len(vecs')
          PROVE  vecs'[n].id = id \/ (n \in 1 .. Len(vecs) /\ vecs'[n] = vecs[n])
      BY <3>1, <3>2
    <3> QED
      BY <3>3, <1>7 DEF IInv, BatchInv
  <2> QED
    BY <2>1, <2>2
<1>10. todo' \in Seq([key : Key, block : Block])
  BY <1>2 DEF IInv, TypeOK
<1>11. TypeOK'
  BY <1>2, <1>6, <1>8, <1>10 DEF IInv, IndexInv, TypeOK, IndexTypes
<1>12. BatchInv'
  BY <1>2, <1>9 DEF BatchInv
<1> QED
  BY <1>2, <1>6, <1>7, <1>11, <1>12 DEF IInv

\* An iteration of HNSWIndex.BatchAdd gives a vector only to a registered block.
LEMMA BatchVectorIInv ==
    ASSUME IInv, BatchVector
    PROVE  IInv'
<1> DEFINE P == [id : Nat, vec : Vector \cup {BadVector}]
           it == Head(vecs)
<1>1. /\ mu = "batch" /\ vecs # << >> /\ vecs' = Tail(vecs)
      /\ hnsw' = IF HNSWAccepts(it.id, it.vec) THEN Put(hnsw, it.id, it.vec) ELSE hnsw
      /\ UNCHANGED <<docMap, postings, keyLengths, keyIndex, given, mu, todo>>
  BY DEF BatchVector
<1>2. vecs \in Seq(P)
  BY DEF IInv, TypeOK
<1>3. vecs' \in Seq(P)
  BY <1>1, <1>2, QueueTypes
<1>4. it = vecs[1] /\ 1 \in 1 .. Len(vecs)
  BY <1>1, <1>2
<1>5. it.id \in DOMAIN docMap
  BY <1>4 DEF IInv, BatchInv
<1>6. \A n \in 1 .. Len(vecs') : vecs'[n].id \in DOMAIN docMap'
  <2> HIDE DEF P
  <2>1. ASSUME NEW n \in 1 .. Len(vecs')
        PROVE  n + 1 \in 1 .. Len(vecs) /\ vecs'[n] = vecs[n + 1]
    BY <1>1, <1>2
  <2> QED
    BY <2>1, <1>1 DEF IInv, BatchInv
<1> HIDE DEF it
<1>7. IsMap(hnsw, Nat, Vector)' /\ DOMAIN hnsw' \subseteq DOMAIN docMap'
  <2>1. CASE HNSWAccepts(it.id, it.vec)
    BY <2>1, <1>1, <1>5 DEF IInv, TypeOK, IsMap, Put, HNSWAccepts
  <2>2. CASE ~HNSWAccepts(it.id, it.vec)
    BY <2>2, <1>1 DEF IInv, TypeOK, IsMap
  <2> QED
    BY <2>1, <2>2
<1>8. IndexInv'
  BY <1>1 DEF IInv, IndexInv, IndexTypes, Bounded, KeyIndexAgrees, Dense, Posted
<1>9. TypeOK'
  BY <1>1, <1>3, <1>7, <1>8 DEF IInv, IndexInv, TypeOK, IndexTypes
<1>10. BatchInv'
  BY <1>1, <1>6 DEF BatchInv
<1> QED
  BY <1>7, <1>8, <1>9, <1>10 DEF IInv

\* DeleteKey removes the vectors of the key together with its blocks.
LEMMA DeleteKeyIInv ==
    ASSUME IInv, NEW k \in Key, DeleteKey(k)
    PROVE  IInv'
<1>1. IndexInv'
  BY DeleteKeepsIndexes DEF IInv
<1>2. IsMap(hnsw, Nat, Vector)' /\ DOMAIN hnsw' \subseteq DOMAIN docMap'
  BY DEF DeleteKey, Without, IInv, TypeOK, IsMap
<1>3. UNCHANGED <<mu, todo, vecs>> /\ mu = "free"
  BY DEF DeleteKey
<1>4. TypeOK'
  BY <1>1, <1>2, <1>3 DEF IInv, IndexInv, TypeOK, IndexTypes
<1>5. vecs' = << >>
  BY <1>3 DEF IInv, BatchInv
<1>6. BatchInv'
  BY <1>5 DEF BatchInv
<1> QED
  BY <1>1, <1>2, <1>4, <1>6 DEF IInv

\* A step that leaves the indexes alone preserves the invariant if it leaves the
\* batch well-formed.
LEMMA UnchangedIInv ==
    ASSUME IInv, UNCHANGED <<indexes, vecs>>,
           mu' \in {"free", "batch"}, mu' = "free" => vecs = << >>,
           todo' \in Seq([key : Key, block : Block])
    PROVE  IInv'
<1>1. IndexInv'
  BY DEF indexes, IInv, IndexInv, IndexTypes, Bounded, KeyIndexAgrees, Dense, Posted
<1>2. TypeOK' /\ BatchInv' /\ DOMAIN hnsw' \subseteq DOMAIN docMap'
  BY DEF indexes, IInv, TypeOK, BatchInv
<1> QED
  BY <1>1, <1>2 DEF IInv

\* Every step of a collection preserves the inductive invariant.
LEMMA NextIInv == IInv /\ [Next]_vars => IInv'
<1> SUFFICES ASSUME IInv, [Next]_vars PROVE IInv'
  OBVIOUS
<1>1. ASSUME NEW k \in Key, NEW b \in Block, AppendBlock(k, b) PROVE IInv'
  BY <1>1, AppendBlockIInv
<1>2. ASSUME NEW items \in Batches, BatchBegin(items) PROVE IInv'
  <2>1. items \in Seq([key : Key, block : Block])
    BY BatchAssumption
  <2>2. UNCHANGED <<indexes, vecs>> /\ mu' = "batch" /\ todo' = items
    BY <1>2 DEF BatchBegin
  <2> QED
    BY <2>1, <2>2, UnchangedIInv
<1>3. CASE BatchItem
  BY <1>3, BatchItemIInv
<1>4. CASE BatchVector
  BY <1>4, BatchVectorIInv
<1>5. CASE BatchEnd
  BY <1>5, UnchangedIInv DEF BatchEnd, IInv, TypeOK
<1>6. ASSUME NEW k \in Key, DeleteKey(k) PROVE IInv'
  BY <1>6, DeleteKeyIInv
<1>7. CASE UNCHANGED vars
  BY <1>7, UnchangedIInv DEF vars, IInv, TypeOK, BatchInv
<1> QED
  BY <1>1, <1>2, <1>3, <1>4, <1>5, <1>6, <1>7
     DEF Next, AppendBlockFails, DeleteKeyFails

\* IInv is an invariant of the collection.
THEOREM Invariance == Spec => []IInv
BY InitIInv, NextIInv, PTL DEF Spec

\* Every field keeps its type (TypeOK, checked by TLC on small instances).
THEOREM TypeCorrect == Spec => []TypeOK
<1>1. IInv => TypeOK
  BY DEF IInv
<1> QED
  BY <1>1, Invariance, PTL

\* ContainsKey, ListKeys, GetKeyLength, Search and DeleteKey always see the same
\* blocks of the same keys, whatever the calls before (collection.go).
THEOREM IndexesAgree == Spec => []KeyIndexAgrees
<1>1. IInv => KeyIndexAgrees
  BY DEF IInv, IndexInv
<1> QED
  BY <1>1, Invariance, PTL

\* GetBlockVectorID finds exactly one block for every index below the length of
\* a key and none beyond it, although DeleteKey makes GetNextVectorID reuse ids.
THEOREM ArraysDense == Spec => []BlocksDense
<1>1. IInv => BlocksDense
  BY DenseImpliesBlocksDense DEF IInv, IndexInv
<1> QED
  BY <1>1, Invariance, PTL

\* A collection that started empty never holds a vector without a block, so that
\* HNSWIndex.Add is never refused because the id exists.
THEOREM NoOrphans == Spec => []NoOrphanVectors
<1>1. IInv => NoOrphanVectors
  <2> SUFFICES ASSUME IInv PROVE NoOrphanVectors
    OBVIOUS
  <2>1. GetNextVectorID \in Nat /\ \A id \in DOMAIN docMap : id < GetNextVectorID
    BY NextIDFresh DEF IInv, IndexInv, IndexTypes
  <2>2. GetNextVectorID \notin DOMAIN docMap
    BY <2>1
  <2> QED
    BY <2>2 DEF IInv, NoOrphanVectors
<1> QED
  BY <1>1, Invariance, PTL

\* KeywordSearch never misses a live block, however ids have been recycled.
THEOREM KeywordSearchComplete == Spec => []KeywordsFound
<1>1. IInv => KeywordsFound
  <2> SUFFICES ASSUME IInv, NEW W \in (SUBSET Keyword) \ {{}}, NEW id \in DOMAIN docMap,
                      W \subseteq given[id].kws
               PROVE  docMap[id].key \in KeywordSearch(W)
    BY DEF KeywordsFound
  <2>1. \A w \in W : id \in postings[w]
    BY DEF IInv, IndexInv, Posted
  <2>2. PICK w \in W : id \in postings[w]
    BY <2>1
  <2>3. id \in KeywordBits(W)
    BY <2>1, <2>2 DEF KeywordBits
  <2> QED
    BY <2>3 DEF KeywordSearch
<1> QED
  BY <1>1, Invariance, PTL

\* A search restricted to a key that has blocks considers all of its vectors and
\* no others: the bit set of such a key is never empty (Search, SearchInKey).
THEOREM SearchRestricted == Spec => []KeyFilterRestricts
<1>1. IInv => KeyFilterRestricts
  <2> SUFFICES ASSUME IInv, NEW k \in DOMAIN keyIndex
               PROVE  SearchScope({}, {k}) =
                        {id \in DOMAIN hnsw \cap DOMAIN docMap : docMap[id].key = k}
    BY DEF KeyFilterRestricts
  <2>1. k \in DOMAIN keyLengths /\ keyLengths[k] \in Nat /\ keyLengths[k] > 0
    BY DEF IInv, TypeOK, IsMap, IndexInv, KeyIndexAgrees, Dense
  <2>2. keyIndex[k] # {}
    <3>1. 0 \in 0 .. keyLengths[k] - 1
      BY <2>1
    <3> QED
      BY <2>1, <3>1 DEF IInv, IndexInv, Dense
  <2>3. FilterBits({}, {k}) = keyIndex[k]
    BY DEF FilterBits, KeyBits, IDsOf
  <2>4. keyIndex[k] = {id \in DOMAIN docMap : docMap[id].key = k}
    BY DEF IInv, IndexInv, KeyIndexAgrees
  <2> QED
    BY <2>2, <2>3, <2>4 DEF SearchScope
<1> QED
  BY <1>1, Invariance, PTL
-------------------------------------------------------------------------------
\* What the refinement mapping makes of the collection.
Store == [k \in Key |-> GetVectors(k)]

\* A vector that a batch has still to insert is the only one for its id.
PendingOnce ==
    \A n \in 1 .. Len(vecs) :
       /\ vecs[n].id \notin DOMAIN hnsw
       /\ \A m \in 1 .. Len(vecs) : vecs[m].id = vecs[n].id => m = n

\* The inductive invariant of the refinement.
RInv == IInv /\ PendingOnce

\* The vector a reader is shown for a block given b: none if it does not fit.
Shown(b) == IF b.vec \in Vector THEN b.vec ELSE NoVector

\* GetBlockVectorID finds the block with the index.
Located ==
    \A k \in DOMAIN keyLengths : \A i \in 0 .. keyLengths[k] - 1 :
       /\ GetBlockVectorID(k, i) \in keyIndex[k]
       /\ docMap[GetBlockVectorID(k, i)].index = i
       /\ \A id \in keyIndex[k] : docMap[id].index = i => id = GetBlockVectorID(k, i)

\* The length of a key is a number, 0 if the key is missing.
Lengths ==
    \A k \in Key :
       /\ KeyLength(k) \in Nat
       /\ k \in DOMAIN keyLengths => KeyLength(k) = keyLengths[k] /\ KeyLength(k) > 0
       /\ k \notin DOMAIN keyLengths => KeyLength(k) = 0

\* The array that a reader is shown of a key.
Arrays ==
    \A k \in Key :
       /\ GetVectors(k) \in Seq(Vector \cup {NoVector})
       /\ Len(GetVectors(k)) = KeyLength(k)
       /\ \A i \in 1 .. KeyLength(k) :
             GetVectors(k)[i] = VectorOf(GetBlockVectorID(k, i - 1))

-------------------------------------------------------------------------------
\* GetVector returns a vector of the collection or none.
LEMMA VectorOfType ==
    ASSUME IInv, NEW id
    PROVE  VectorOf(id) \in Vector \cup {NoVector}
<1>1. id \in DOMAIN hnsw => hnsw[id] \in Vector
  BY DEF IInv, TypeOK, IsMap
<1>2. Pending(id) \cap Vector # {} => (CHOOSE v \in Pending(id) \cap Vector : TRUE) \in Vector
  OBVIOUS
<1> QED
  BY <1>1, <1>2 DEF VectorOf

\* The invariant is what the reads need.
LEMMA Reads == IInv => Located /\ Lengths /\ Arrays
<1> SUFFICES ASSUME IInv PROVE Located /\ Lengths /\ Arrays
  OBVIOUS
<1>1. Located
  <2> SUFFICES ASSUME NEW k \in DOMAIN keyLengths, NEW i \in 0 .. keyLengths[k] - 1
               PROVE  /\ GetBlockVectorID(k, i) \in keyIndex[k]
                      /\ docMap[GetBlockVectorID(k, i)].index = i
                      /\ \A id \in keyIndex[k] :
                            docMap[id].index = i => id = GetBlockVectorID(k, i)
    BY DEF Located
  <2>1. BlocksDense
    BY DenseImpliesBlocksDense DEF IInv, IndexInv
  <2>2. PICK id \in keyIndex[k] : BlockIDs(k, i) = {id}
    BY <2>1 DEF BlocksDense
  <2>3. GetBlockVectorID(k, i) = id
    BY <2>2 DEF GetBlockVectorID
  <2>4. docMap[id].index = i
    BY <2>2 DEF BlockIDs
  <2>5. \A x \in keyIndex[k] : docMap[x].index = i => x = id
    BY <2>4 DEF IInv, IndexInv, Dense
  <2> QED
    BY <2>2, <2>3, <2>4, <2>5
<1>2. Lengths
  BY DEF IInv, IndexInv, IndexTypes, IsMap, KeyLength, Dense, Lengths
<1>3. Arrays
  <2> SUFFICES ASSUME NEW k \in Key
               PROVE  /\ GetVectors(k) \in Seq(Vector \cup {NoVector})
                      /\ Len(GetVectors(k)) = KeyLength(k)
                      /\ \A i \in 1 .. KeyLength(k) :
                            GetVectors(k)[i] = VectorOf(GetBlockVectorID(k, i - 1))
    BY DEF Arrays
  <2>1. KeyLength(k) \in Nat
    BY <1>2 DEF Lengths
  <2>2. GetVectors(k) \in [1 .. KeyLength(k) -> Vector \cup {NoVector}]
    BY VectorOfType DEF GetVectors
  <2> QED
    BY <2>1, <2>2 DEF GetVectors
<1> QED
  BY <1>1, <1>2, <1>3

\* The array of a key that keeps its blocks and their vectors starts as before.
LEMMA SameBlocks ==
    ASSUME IInv, IInv', NEW k \in Key, KeyLength(k) <= KeyLength(k)',
           IDsOf(k) \subseteq IDsOf(k)',
           \A id \in IDsOf(k) : docMap'[id] = docMap[id] /\ VectorOf(id)' = VectorOf(id)
    PROVE  \A i \in 1 .. KeyLength(k) : GetVectors(k)'[i] = GetVectors(k)[i]
<1>1. Located /\ Lengths /\ Arrays
  BY Reads
<1>2. Located' /\ Lengths' /\ Arrays'
  BY Reads, PTL
<1> SUFFICES ASSUME NEW i \in 1 .. KeyLength(k)
             PROVE  GetVectors(k)'[i] = GetVectors(k)[i]
  OBVIOUS
<1>3. KeyLength(k) \in Nat /\ KeyLength(k)' \in Nat
  BY <1>1, <1>2 DEF Lengths
<1>4. k \in DOMAIN keyLengths /\ k \in DOMAIN keyLengths'
  BY <1>1, <1>2, <1>3 DEF Lengths
<1>5. k \in DOMAIN keyIndex /\ k \in DOMAIN keyIndex'
  BY <1>4 DEF IInv, IndexInv, KeyIndexAgrees
<1>6. /\ i - 1 \in 0 .. keyLengths[k] - 1 /\ i - 1 \in 0 .. keyLengths'[k] - 1
      /\ i \in 1 .. KeyLength(k)'
  BY <1>1, <1>2, <1>3, <1>4 DEF Lengths
<1> DEFINE id == GetBlockVectorID(k, i - 1)
<1>7. id \in IDsOf(k) /\ id \in keyIndex'[k] /\ docMap[id].index = i - 1
  BY <1>1, <1>4, <1>5, <1>6 DEF Located, IDsOf
<1>8. GetBlockVectorID(k, i - 1)' = id
  BY <1>2, <1>4, <1>6, <1>7 DEF Located
<1>9. GetVectors(k)[i] = VectorOf(id)
  BY <1>1 DEF Arrays
<1>10. GetVectors(k)'[i] = VectorOf(GetBlockVectorID(k, i - 1))'
  BY <1>2, <1>6 DEF Arrays
<1>11. VectorOf(GetBlockVectorID(k, i - 1))' = VectorOf(id)
  BY <1>7, <1>8
<1> QED
  BY <1>9, <1>10, <1>11

\* A key whose length stays as well is shown the same array.
LEMMA SameArray ==
    ASSUME IInv, IInv', NEW k \in Key, KeyLength(k)' = KeyLength(k),
           IDsOf(k)' = IDsOf(k),
           \A id \in IDsOf(k) : docMap'[id] = docMap[id] /\ VectorOf(id)' = VectorOf(id)
    PROVE  GetVectors(k)' = GetVectors(k)
<1>1. Lengths /\ Arrays /\ Arrays'
  BY Reads, PTL
<1>2. KeyLength(k) \in Nat
  BY <1>1 DEF Lengths
<1>3. \A i \in 1 .. KeyLength(k) : GetVectors(k)'[i] = GetVectors(k)[i]
  BY <1>2, SameBlocks
<1>4. /\ GetVectors(k) \in Seq(Vector \cup {NoVector})
      /\ GetVectors(k)' \in Seq(Vector \cup {NoVector})
      /\ Len(GetVectors(k)) = KeyLength(k) /\ Len(GetVectors(k)') = KeyLength(k)
  BY <1>1 DEF Arrays
<1> QED
  BY <1>3, <1>4

\* Registering a block makes it the last of the array of its key.
LEMMA RegisterRefines ==
    ASSUME IInv, IInv', NEW id, id \notin DOMAIN docMap, NEW k \in Key, NEW b,
           Register(id, k, b), NEW v \in Vector \cup {NoVector}, VectorOf(id)' = v,
           \A x \in DOMAIN docMap : VectorOf(x)' = VectorOf(x)
    PROVE  Abstract!AppendBlock(k, v)
<1>1. Located /\ Lengths /\ Arrays
  BY Reads
<1>2. Located' /\ Lengths' /\ Arrays'
  BY Reads, PTL
<1>3. /\ docMap'[id] = [key |-> k, index |-> KeyLength(k)]
      /\ \A x \in DOMAIN docMap : docMap'[x] = docMap[x]
  BY DEF Register, Put
<1>4. /\ KeyLength(k)' = KeyLength(k) + 1
      /\ \A j \in Key \ {k} : KeyLength(j)' = KeyLength(j)
  BY DEF Register, Put, KeyLength
<1>5. /\ IDsOf(k)' = IDsOf(k) \cup {id}
      /\ \A j \in Key \ {k} : IDsOf(j)' = IDsOf(j)
  BY DEF Register, Put, IDsOf
<1>6. \A j \in Key : IDsOf(j) \subseteq DOMAIN docMap
  BY DEF IDsOf, IInv, IndexInv, KeyIndexAgrees
<1>7. \A j \in Key \ {k} : GetVectors(j)' = GetVectors(j)
  BY <1>3, <1>4, <1>5, <1>6, SameArray
<1>8. KeyLength(k) \in Nat /\ KeyLength(k)' \in Nat
  BY <1>1, <1>2 DEF Lengths
<1>9. \A i \in 1 .. KeyLength(k) : GetVectors(k)'[i] = GetVectors(k)[i]
  BY <1>3, <1>4, <1>5, <1>6, <1>8, SameBlocks
<1>10. GetVectors(k)'[KeyLength(k) + 1] = v
  <2>1. /\ k \in DOMAIN keyLengths' /\ k \in DOMAIN keyIndex'
        /\ keyLengths'[k] = KeyLength(k) + 1 /\ id \in keyIndex'[k]
    BY DEF Register, Put
  <2>2. PICK n \in Nat : n = KeyLength(k)
    BY <1>8
  <2>3. n \in 0 .. keyLengths'[k] - 1 /\ docMap'[id].index = n
    BY <1>3, <2>1, <2>2
  <2>4. GetBlockVectorID(k, n)' = id
    BY <1>2, <2>1, <2>3 DEF Located
  <2>5. n + 1 \in 1 .. KeyLength(k)' /\ (n + 1) - 1 = n
    BY <1>4, <2>2
  <2>6. GetVectors(k)'[n + 1] = VectorOf(GetBlockVectorID(k, (n + 1) - 1))'
    BY <1>2, <2>5 DEF Arrays
  <2> QED
    BY <2>2, <2>4, <2>5, <2>6
<1>11. GetVectors(k)' = Append(GetVectors(k), v)
  <2>1. /\ GetVectors(k) \in Seq(Vector \cup {NoVector})
        /\ GetVectors(k)' \in Seq(Vector \cup {NoVector})
        /\ Len(GetVectors(k)) = KeyLength(k) /\ Len(GetVectors(k)') = KeyLength(k) + 1
    BY <1>1, <1>2, <1>4 DEF Arrays
  <2> QED
    BY <1>9, <1>10, <2>1
<1> QED
  BY <1>7, <1>11 DEF Abstract!AppendBlock

-------------------------------------------------------------------------------
\* The vectors pending for an id, without and with one more at the end.
LEMMA PendingAppend ==
    ASSUME NEW S, vecs \in Seq(S), NEW e \in S, vecs' = Append(vecs, e)
    PROVE  \A x : Pending(x)' = Pending(x) \cup (IF e.id = x THEN {e.vec} ELSE {})
<1>1. /\ Len(vecs) \in Nat /\ Len(vecs') = Len(vecs) + 1 /\ vecs'[Len(vecs) + 1] = e
      /\ \A n \in 1 .. Len(vecs) : vecs'[n] = vecs[n]
  OBVIOUS
<1>2. /\ \A n \in 1 .. Len(vecs) + 1 : n \in 1 .. Len(vecs) \/ n = Len(vecs) + 1
      /\ Len(vecs) + 1 \in 1 .. Len(vecs) + 1
      /\ \A n \in 1 .. Len(vecs) : n \in 1 .. Len(vecs) + 1
  BY <1>1
<1> SUFFICES ASSUME NEW x
             PROVE  Pending(x)' = Pending(x) \cup (IF e.id = x THEN {e.vec} ELSE {})
  OBVIOUS
<1>3. Pending(x)' \subseteq Pending(x) \cup (IF e.id = x THEN {e.vec} ELSE {})
  BY <1>1, <1>2 DEF Pending
<1>4. Pending(x) \subseteq Pending(x)'
  BY <1>1, <1>2 DEF Pending
<1>5. e.id = x => e.vec \in Pending(x)'
  BY <1>1, <1>2 DEF Pending
<1> QED
  BY <1>3, <1>4, <1>5

\* With no vector of the collection pending for it, an id has the vector of the
\* HNSW index or none.
LEMMA VectorOfPending ==
    ASSUME NEW x
    PROVE  /\ x \in DOMAIN hnsw => VectorOf(x) = hnsw[x]
           /\ x \notin DOMAIN hnsw /\ Pending(x) \cap Vector = {} => VectorOf(x) = NoVector
           /\ \A v \in Vector : x \notin DOMAIN hnsw /\ Pending(x) = {v} => VectorOf(x) = v
BY DEF VectorOf

\* AppendBlock is an append of DocStore.
LEMMA AppendBlockRefines ==
    ASSUME RInv, RInv', NEW k \in Key, NEW b \in Block, AppendBlock(k, b)
    PROVE  Abstract!AppendBlock(k, Shown(b))
<1>1. PICK id \in Nat : id = GetNextVectorID
  BY NextIDFresh DEF RInv, IInv, IndexInv, IndexTypes
<1>2. id \notin DOMAIN docMap /\ id \notin DOMAIN hnsw
  BY <1>1, NextIDFresh DEF RInv, IInv, IndexInv, IndexTypes
<1>3. /\ Register(id, k, b) /\ vecs = << >> /\ vecs' = << >>
      /\ hnsw' = IF b.vec = NoVector THEN hnsw ELSE Put(hnsw, id, b.vec)
      /\ b.vec = NoVector \/ b.vec \in Vector
  BY <1>1 DEF AppendBlock, HNSWAccepts, RInv, IInv, BatchInv
<1>4. \A x : Pending(x) = {} /\ Pending(x)' = {}
  BY <1>3 DEF Pending
<1>5. \A x : x # id => VectorOf(x)' = VectorOf(x)
  BY <1>3, <1>4 DEF VectorOf, Put
<1>6. VectorOf(id)' = Shown(b)
  BY <1>2, <1>3, <1>4, VectorAssumption DEF VectorOf, Put, Shown
<1>7. Shown(b) \in Vector \cup {NoVector}
  BY DEF Shown
<1> QED
  BY <1>2, <1>3, <1>5, <1>6, <1>7, RegisterRefines DEF RInv

\* So is each iteration of the first loop of BatchAppendBlocks, whose vectors
\* are inserted later.
LEMMA BatchItemRefines ==
    ASSUME RInv, IInv', BatchItem
    PROVE  /\ PendingOnce'
           /\ \E k \in Key, v \in Vector \cup {NoVector} : Abstract!AppendBlock(k, v)
<1> DEFINE P == [id : Nat, vec : Vector \cup {BadVector}]
<1>1. PICK id \in Nat : id = GetNextVectorID
  BY NextIDFresh DEF RInv, IInv, IndexInv, IndexTypes
<1>2. id \notin DOMAIN docMap /\ id \notin DOMAIN hnsw
  BY <1>1, NextIDFresh DEF RInv, IInv, IndexInv, IndexTypes
<1>3. Head(todo) \in [key : Key, block : Block]
  BY QueueTypes DEF RInv, IInv, TypeOK, BatchItem
<1>4. PICK k \in Key, b \in Block : k = Head(todo).key /\ b = Head(todo).block
  BY <1>3
<1>5. /\ Register(id, k, b) /\ hnsw' = hnsw
      /\ vecs' = IF b.vec = NoVector THEN vecs ELSE Append(vecs, [id |-> id, vec |-> b.vec])
  BY <1>1, <1>4 DEF BatchItem
<1>6. b.vec \in Vector \cup {NoVector, BadVector}
  BY BlockAssumption
<1>7. vecs \in Seq(P) /\ Len(vecs) \in Nat
  BY DEF RInv, IInv, TypeOK
<1>8. \A n \in 1 .. Len(vecs) : vecs[n].id \in DOMAIN docMap /\ vecs[n].id # id
  BY <1>2 DEF RInv, IInv, BatchInv
<1>9. Pending(id) = {}
  BY <1>8 DEF Pending
<1>10. CASE b.vec = NoVector
  <2>1. \A x : VectorOf(x)' = VectorOf(x)
    BY <1>5, <1>10 DEF VectorOf, Pending
  <2>2. VectorOf(id) = NoVector
    BY <1>2, <1>9, VectorOfPending
  <2>3. PendingOnce'
    BY <1>5, <1>10 DEF RInv, PendingOnce
  <2>4. Abstract!AppendBlock(k, NoVector)
    BY <1>2, <1>5, <2>1, <2>2, RegisterRefines DEF RInv
  <2> QED
    BY <2>3, <2>4
<1>11. CASE b.vec # NoVector
  <2> DEFINE e == [id |-> id, vec |-> b.vec]
  <2>1. e \in P /\ vecs' = Append(vecs, e) /\ e.id = id /\ e.vec = b.vec
    BY <1>5, <1>6, <1>11
  <2> HIDE DEF e, P
  <2>2. \A x : Pending(x)' = Pending(x) \cup (IF id = x THEN {b.vec} ELSE {})
    BY <1>7, <2>1, PendingAppend
  <2>3. \A x : x # id => VectorOf(x)' = VectorOf(x)
    <3> SUFFICES ASSUME NEW x, x # id PROVE VectorOf(x)' = VectorOf(x)
      OBVIOUS
    <3>1. Pending(x)' = Pending(x)
      BY <2>2
    <3> QED
      BY <1>5, <3>1 DEF VectorOf
  <2>4. Pending(id)' = {b.vec} /\ id \notin DOMAIN hnsw'
    BY <1>2, <1>5, <1>9, <2>2
  <2>5. VectorOf(id)' = Shown(b)
    BY <2>4 DEF VectorOf, Shown
  <2>6. Abstract!AppendBlock(k, Shown(b)) /\ Shown(b) \in Vector \cup {NoVector}
    BY <1>2, <1>5, <2>3, <2>5, RegisterRefines DEF RInv, Shown
  <2>7. PendingOnce'
    <3>1. /\ Len(vecs') = Len(vecs) + 1 /\ vecs'[Len(vecs) + 1] = e
          /\ \A n \in 1 .. Len(vecs) : vecs'[n] = vecs[n]
      BY <1>7, <2>1
    <3>2. \A n \in 1 .. Len(vecs) + 1 : n \in 1 .. Len(vecs) \/ n = Len(vecs) + 1
      BY <1>7
    <3> QED
      BY <1>2, <1>5, <1>8, <2>1, <3>1, <3>2 DEF RInv, PendingOnce
  <2> QED
    BY <2>6, <2>7
<1> QED
  BY <1>10, <1>11

\* HNSWIndex.BatchAdd shows readers nothing new: the vector it inserts, or
\* skips, was the one pending for its id.
LEMMA BatchVectorRefines ==
    ASSUME RInv, IInv', BatchVector
    PROVE  PendingOnce' /\ Store' = Store
<1> DEFINE P == [id : Nat, vec : Vector \cup {BadVector}]
<1>0. vecs \in Seq(P) /\ vecs # << >>
  BY DEF RInv, IInv, TypeOK, BatchVector
<1>1. PICK it \in P : it = Head(vecs)
  BY <1>0, QueueTypes
<1>2. /\ vecs' = Tail(vecs) /\ UNCHANGED <<docMap, keyLengths, keyIndex>>
      /\ hnsw' = IF HNSWAccepts(it.id, it.vec) THEN Put(hnsw, it.id, it.vec) ELSE hnsw
  BY <1>1 DEF BatchVector
<1> HIDE DEF P
<1>3. /\ Len(vecs) \in Nat \ {0} /\ Len(vecs') = Len(vecs) - 1 /\ it = vecs[1]
      /\ \A n \in 1 .. Len(vecs') : vecs'[n] = vecs[n + 1]
  BY <1>0, <1>1, <1>2
<1>4. it.id \notin DOMAIN hnsw /\ \A n \in 1 .. Len(vecs) : vecs[n].id = it.id => n = 1
  BY <1>3 DEF RInv, PendingOnce
<1>5. \A n \in 1 .. Len(vecs') : n + 1 \in 1 .. Len(vecs) /\ vecs'[n].id # it.id
  BY <1>3, <1>4
<1>6. PendingOnce'
  <2> SUFFICES ASSUME NEW n \in 1 .. Len(vecs')
               PROVE  /\ vecs'[n].id \notin DOMAIN hnsw'
                      /\ \A m \in 1 .. Len(vecs') : vecs'[m].id = vecs'[n].id => m = n
    BY DEF PendingOnce
  <2>1. vecs'[n].id \notin DOMAIN hnsw
    BY <1>3, <1>5 DEF RInv, PendingOnce
  <2>2. vecs'[n].id \notin DOMAIN hnsw'
    BY <1>2, <1>5, <2>1 DEF Put
  <2>3. ASSUME NEW m \in 1 .. Len(vecs'), vecs'[m].id = vecs'[n].id PROVE m = n
    <3>1. m + 1 = n + 1
      BY <1>3, <1>5, <2>3 DEF RInv, PendingOnce
    <3> QED
      BY <1>3, <3>1
  <2> QED
    BY <2>2, <2>3
<1>7. Pending(it.id) = {it.vec} /\ Pending(it.id)' = {}
  <2>1. Pending(it.id) = {it.vec}
    BY <1>3, <1>4 DEF Pending
  <2>2. Pending(it.id)' = {}
    BY <1>5 DEF Pending
  <2> QED
    BY <2>1, <2>2
<1>8. ASSUME NEW x PROVE VectorOf(x)' = VectorOf(x)
  <2>1. CASE x = it.id
    <3>1. CASE it.vec \in Vector
      <4>1. VectorOf(x) = it.vec
        BY <1>4, <1>7, <2>1, <3>1, VectorOfPending
      <4>2. hnsw' = Put(hnsw, it.id, it.vec)
        BY <1>2, <1>4, <3>1 DEF HNSWAccepts
      <4> QED
        BY <2>1, <4>1, <4>2 DEF VectorOf, Put
    <3>2. CASE it.vec \notin Vector
      <4>1. hnsw' = hnsw
        BY <1>2, <3>2 DEF HNSWAccepts
      <4>2. Pending(x) \cap Vector = {} /\ Pending(x)' \cap Vector = {}
        BY <1>7, <2>1, <3>2
      <4> QED
        BY <1>4, <2>1, <4>1, <4>2 DEF VectorOf
    <3> QED
      BY <3>1, <3>2
  <2>2. CASE x # it.id
    <3>1. Pending(x)' = Pending(x)
      <4>1. ASSUME NEW n \in 1 .. Len(vecs), vecs[n].id = x
            PROVE  n - 1 \in 1 .. Len(vecs') /\ vecs'[n - 1] = vecs[n]
        <5>1. n # 1
          BY <1>3, <2>2, <4>1
        <5>2. n - 1 \in 1 .. Len(vecs') /\ (n - 1) + 1 = n
          BY <1>3, <5>1
        <5> QED
          BY <1>3, <5>2
      <4>2. Pending(x) \subseteq Pending(x)'
        BY <4>1 DEF Pending
      <4>3. Pending(x)' \subseteq Pending(x)
        BY <1>3, <1>5 DEF Pending
      <4> QED
        BY <4>2, <4>3
    <3>2. /\ x \in DOMAIN hnsw' <=> x \in DOMAIN hnsw
          /\ x \in DOMAIN hnsw => hnsw'[x] = hnsw[x]
      BY <1>2, <2>2 DEF Put
    <3> QED
      BY <3>1, <3>2 DEF VectorOf
  <2> QED
    BY <2>1, <2>2
<1>9. \A k \in Key : GetVectors(k)' = GetVectors(k)
  <2>1. \A k \in Key : KeyLength(k)' = KeyLength(k) /\ IDsOf(k)' = IDsOf(k)
    BY <1>2 DEF KeyLength, IDsOf
  <2> QED
    BY <1>2, <1>8, <2>1, SameArray DEF RInv
<1> QED
  BY <1>6, <1>9 DEF Store

\* DeleteKey empties the array of its key and leaves the others.
LEMMA DeleteKeyRefines ==
    ASSUME RInv, IInv', NEW k \in Key, DeleteKey(k)
    PROVE  PendingOnce' /\ Abstract!DeleteKey(k)
<1>1. /\ k \in DOMAIN keyIndex /\ vecs = << >> /\ vecs' = << >>
      /\ hnsw' = Without(hnsw, keyIndex[k]) /\ docMap' = Without(docMap, keyIndex[k])
      /\ keyLengths' = Without(keyLengths, {k}) /\ keyIndex' = Without(keyIndex, {k})
  BY DEF DeleteKey, RInv, IInv, BatchInv
<1>2. PendingOnce'
  BY <1>1 DEF PendingOnce
<1>3. Lengths /\ Arrays /\ Lengths' /\ Arrays'
  BY Reads, PTL DEF RInv
<1>4. KeyLength(k) > 0 /\ KeyLength(k)' = 0
  BY <1>1, <1>3 DEF Lengths, Without, RInv, IInv, IndexInv, KeyIndexAgrees
<1>5. GetVectors(k) # << >> /\ GetVectors(k)' = << >>
  <2>1. /\ GetVectors(k) \in Seq(Vector \cup {NoVector}) /\ Len(GetVectors(k)) > 0
        /\ GetVectors(k)' \in Seq(Vector \cup {NoVector}) /\ Len(GetVectors(k)') = 0
    BY <1>3, <1>4 DEF Arrays
  <2> QED
    BY <2>1
<1>6. ASSUME NEW j \in Key \ {k} PROVE GetVectors(j)' = GetVectors(j)
  <2>1. KeyLength(j)' = KeyLength(j) /\ IDsOf(j)' = IDsOf(j)
    BY <1>1 DEF KeyLength, IDsOf, Without
  <2>2. ASSUME NEW x \in IDsOf(j)
        PROVE  docMap'[x] = docMap[x] /\ VectorOf(x)' = VectorOf(x)
    <3>1. x \in DOMAIN docMap /\ x \notin keyIndex[k]
      BY <1>1, <2>2 DEF IDsOf, RInv, IInv, IndexInv, KeyIndexAgrees
    <3>2. Pending(x)' = Pending(x)
      BY <1>1 DEF Pending
    <3> QED
      BY <1>1, <3>1, <3>2 DEF VectorOf, Without
  <2> QED
    BY <2>1, <2>2, SameArray DEF RInv
<1>7. Store[k] # << >> /\ Store' = [Store EXCEPT ![k] = << >>]
  BY <1>5, <1>6 DEF Store
<1> QED
  BY <1>2, <1>7 DEF Abstract!DeleteKey, Store

\* A step that leaves the indexes and the pending vectors alone shows nothing.
LEMMA UnchangedRefines ==
    ASSUME RInv, UNCHANGED <<indexes, vecs>>
    PROVE  PendingOnce' /\ Store' = Store
<1>1. PendingOnce'
  BY DEF indexes, RInv, PendingOnce
<1>2. \A k \in Key : GetVectors(k)' = GetVectors(k)
  BY DEF indexes, GetVectors, KeyLength, GetBlockVectorID, BlockIDs, IDsOf, VectorOf, Pending
<1> QED
  BY <1>1, <1>2 DEF Store

\* Every step of a collection is a step of DocStore, or none.
LEMMA StepRefines ==
    RInv /\ [Next]_vars => RInv' /\ [Abstract!Next]_Store
<1> SUFFICES ASSUME RInv, [Next]_vars
             PROVE  PendingOnce' /\ (Abstract!Next \/ Store' = Store)
  BY NextIInv DEF RInv
<1>0. IInv'
  BY NextIInv DEF RInv
<1>1. ASSUME NEW k \in Key, NEW b \in Block, AppendBlock(k, b)
      PROVE  PendingOnce' /\ Abstract!Next
  <2>1. vecs' = << >>
    BY <1>1 DEF AppendBlock, RInv, IInv, BatchInv
  <2>2. PendingOnce'
    BY <2>1 DEF PendingOnce
  <2>3. Abstract!AppendBlock(k, Shown(b)) /\ Shown(b) \in Vector \cup {NoVector}
    BY <1>0, <1>1, <2>2, AppendBlockRefines DEF RInv, Shown
  <2> QED
    BY <2>2, <2>3 DEF Abstract!Next
<1>2. CASE BatchItem
  BY <1>0, <1>2, BatchItemRefines DEF Abstract!Next
<1>3. CASE BatchVector
  BY <1>0, <1>3, BatchVectorRefines
<1>4. ASSUME NEW k \in Key, DeleteKey(k) PROVE PendingOnce' /\ Abstract!Next
  BY <1>0, <1>4, DeleteKeyRefines DEF Abstract!Next
<1>5. CASE UNCHANGED <<indexes, vecs>>
  BY <1>5, UnchangedRefines
<1> QED
  BY <1>1, <1>2, <1>3, <1>4, <1>5
     DEF Next, vars, BatchBegin, BatchEnd, AppendBlockFails, DeleteKeyFails

\* An empty collection is an empty store.
LEMMA InitRefines == Init => RInv /\ Abstract!Init
<1> SUFFICES ASSUME Init PROVE RInv /\ Abstract!Init
  OBVIOUS
<1>1. RInv
  BY InitIInv DEF Init, RInv, PendingOnce
<1>2. Lengths /\ Arrays
  BY <1>1, Reads DEF RInv
<1>3. \A k \in Key : GetVectors(k) = << >>
  BY <1>2 DEF Init, Lengths, Arrays
<1> QED
  BY <1>1, <1>3 DEF Abstract!Init

\* The collection implements DocStore, for any keys, vectors, blocks and batches
\* and however AppendBlock, BatchAppendBlocks and DeleteKey follow each other:
\* each appended block is the last of its key's array with the vector it was
\* given, a delete empties one array, and no step changes another key.
THEOREM RefinesDocStore == Spec => ImplementsDocStore
<1>1. RInv /\ [Next]_vars => RInv' /\ [Abstract!Next]_([k \in Key |-> GetVectors(k)])
  BY StepRefines DEF Store
<1> QED
  BY InitRefines, <1>1, PTL DEF Spec, ImplementsDocStore, Abstract!Spec
===============================================================================
