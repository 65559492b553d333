--------------------------- MODULE ShardStoreProofs ---------------------------
(***************************************************************************)
(* Proofs about ShardStore, for any keys, buckets, callers and bounds: the *)
(* index leads to records of its keys, no record is lost from it, what     *)
(* rebuildIndex makes of a file is what was in memory, and arrays only     *)
(* grow at their end.                                                      *)
(***************************************************************************)
EXTENDS ShardStoreInvariant

(* A leaf is tried with Zenon, then with the SMT solver. *)
USE ZenonT(5), SMTT(30)

LEMMA BatchWriteKeeps ==
    ASSUME StoreInv, NEW c \in Caller, NEW b \in Bucket, BatchWrite(c, b)
    PROVE  StoreInv'
<1> USE DEF StoreInv
<1>1. PICK order \in Bijection(1 .. Cardinality(Group(c, b)), Group(c, b)) :
         /\ file' = [file EXCEPT ![b] = @ \o
                       [n \in DOMAIN order |->
                           [key |-> order[n], payload |-> todo[c][order[n]]]]]
         /\ pending' = [pending EXCEPT ![c][b] =
                          [k \in Group(c, b) |->
                              Len(file[b]) + CHOOSE n \in DOMAIN order : order[n] = k]]
  BY DEF BatchWrite
<1>2. Group(c, b) # {} /\ Ungroup(c, b) /\ UNCHANGED <<index, idxFile, state, phase, hidden>> /\ Running
  BY DEF BatchWrite
<1> DEFINE L == Len(file[b])
           n == Cardinality(Group(c, b))
           new == [i \in DOMAIN order |-> [key |-> order[i], payload |-> todo[c][order[i]]]]
           at(k) == CHOOSE i \in DOMAIN order : order[i] = k
           off == [k \in Group(c, b) |-> L + at(k)]
<1>3. /\ n \in Nat /\ new \in Seq(Record) /\ Len(new) = n
      /\ \A i \in 1 .. n : order[i] \in Group(c, b) /\ new[i].key = order[i]
      /\ \A k \in Group(c, b) : \E i \in 1 .. n : order[i] = k
      /\ \A i, j \in 1 .. n : order[i] = order[j] => i = j
      /\ DOMAIN order = 1 .. n
  BY GroupOrder
<1>4. \A k \in Group(c, b) : at(k) \in 1 .. n /\ order[at(k)] = k
  BY <1>3
<1>5. file[b] \in Seq(Record) /\ L \in Nat
  BY DEF FilesTyped
<1>6. file' = [file EXCEPT ![b] = @ \o new] /\ pending' = [pending EXCEPT ![c][b] = off]
  BY <1>1
<1> HIDE DEF new, n, at
<1>7. /\ file'[b] \in Seq(Record) /\ Len(file'[b]) = L + n
      /\ \A m \in 1 .. L : file'[b][m] = file[b][m]
      /\ \A i \in 1 .. n : file'[b][L + i] = new[i]
      /\ \A a \in Bucket \ {b} : file'[a] = file[a]
      /\ DOMAIN file' = Bucket
  <2>1. file'[b] = file[b] \o new /\ DOMAIN file' = Bucket /\ \A a \in Bucket \ {b} : file'[a] = file[a]
    BY <1>6 DEF FilesTyped
  <2>2. file[b] \o new \in Seq(Record) /\ Len(file[b] \o new) = L + n
    BY <1>3, <1>5
  <2>3. \A m \in 1 .. L : (file[b] \o new)[m] = file[b][m]
    BY <1>3, <1>5
  <2>4. \A i \in 1 .. n : (file[b] \o new)[L + i] = new[i]
    BY <1>3, <1>5
  <2> QED
    BY <2>1, <2>2, <2>3, <2>4
<1>8. /\ DOMAIN pending' = Caller /\ \A d \in Caller : DOMAIN pending'[d] = Bucket
      /\ pending'[c][b] = off
      /\ \A d \in Caller, a \in Bucket : d # c \/ a # b => pending'[d][a] = pending[d][a]
  BY <1>6 DEF BatchTypes
<1>9. /\ DOMAIN off = Group(c, b)
      /\ \A k \in Group(c, b) : /\ off[k] \in L + 1 .. L + n /\ file'[b][off[k]].key = k
                                /\ off[k] \in Nat /\ off[k] > L
  <2>1. DOMAIN off = Group(c, b) /\ \A k \in Group(c, b) : off[k] = L + at(k)
    OBVIOUS
  <2>2. ASSUME NEW k \in Group(c, b)
        PROVE  /\ off[k] \in L + 1 .. L + n /\ file'[b][off[k]].key = k
               /\ off[k] \in Nat /\ off[k] > L
    <3>1. at(k) \in 1 .. n /\ new[at(k)].key = k /\ file'[b][L + at(k)] = new[at(k)]
      BY <1>3, <1>4, <1>7
    <3>2. L + at(k) \in L + 1 .. L + n /\ L + at(k) \in Nat /\ L + at(k) > L
      BY <1>3, <1>5, <3>1
    <3> QED
      BY <2>1, <3>1, <3>2
  <2> QED
    BY <2>1, <2>2
<1>10. ASSUME NEW m \in L + 1 .. L + n PROVE \E k \in Group(c, b) : off[k] = m
  <2> DEFINE i == m - L
  <2>1. i \in 1 .. n /\ m = L + i
    BY <1>3, <1>5
  <2>2. order[i] \in Group(c, b) /\ at(order[i]) = i
    BY <1>3, <1>4, <2>1
  <2> QED
    BY <2>1, <2>2
<1>11. /\ Offsets(b) = 1 .. L /\ Offsets(b)' = 1 .. L + n
       /\ \A a \in Bucket \ {b} : Offsets(a)' = Offsets(a)
  BY <1>7 DEF Offsets
<1> HIDE DEF L, off
<1>12. FilesTyped'
  <2>1. \A a \in Bucket : file'[a] \in Seq(Record)
    BY <1>7 DEF FilesTyped
  <2>2. file' \in [Bucket -> Seq(Record)]
    BY <1>6, <1>7, <2>1 DEF FilesTyped
  <2>3. ASSUME NEW a \in Bucket, NEW m \in Offsets(a)' PROVE BucketOf[file'[a][m].key] = a
    <3>1. CASE a = b /\ m \in L + 1 .. L + n
      <4>1. PICK k \in Group(c, b) : off[k] = m
        BY <1>10, <3>1
      <4> QED
        BY <1>9, <3>1, <4>1 DEF Group
    <3>2. CASE ~(a = b /\ m \in L + 1 .. L + n)
      <4>1. m \in Offsets(a) /\ file'[a][m] = file[a][m]
        <5>1. CASE a = b
          <6>1. m \in 1 .. L
            BY <1>3, <1>5, <1>11, <3>2, <5>1 DEF L
          <6> QED
            BY <1>7, <1>11, <5>1, <6>1
        <5>2. CASE a # b
          BY <1>7, <1>11, <5>2 DEF Offsets
        <5> QED
          BY <5>1, <5>2
      <4> QED
        BY <4>1 DEF FilesTyped
    <3> QED
      BY <3>1, <3>2
  <2>4. \A a \in Bucket : hidden'[a] \subseteq Offsets(a)'
    <3>1. 1 .. L \subseteq 1 .. L + n
      BY <1>3, <1>5 DEF L
    <3>2. \A a \in Bucket : Offsets(a) \subseteq Offsets(a)'
      BY <1>11, <3>1
    <3>3. \A a \in Bucket : hidden'[a] \subseteq Offsets(a)
      BY <1>2 DEF FilesTyped
    <3> QED
      BY <3>2, <3>3
  <2> QED
    BY <1>2, <2>2, <2>3, <2>4 DEF FilesTyped
<1>13. IndexesSound'
  <2>1. ASSUME NEW idx, NEW a \in Bucket, Sound(idx, a, file[a]) PROVE Sound(idx, a, file'[a])
    <3>1. CASE a = b
      <4>1. Len(file[b]) <= Len(file'[b])
        BY <1>3, <1>5, <1>7 DEF L
      <4> QED
        BY <1>5, <1>7, <2>1, <3>1, <4>1, SoundInLongerFile DEF L
    <3>2. CASE a # b
      BY <1>7, <2>1, <3>2
    <3> QED
      BY <3>1, <3>2
  <2> QED
    BY <1>2, <2>1 DEF IndexesSound
<1>14. BatchTypes'
  <2>1. \A d \in Caller : /\ DOMAIN todo'[d] \subseteq Key /\ IsFiniteSet(DOMAIN todo'[d])
                          /\ \A k \in DOMAIN todo'[d] : todo'[d][k] \in Payload
    BY <1>2, UngroupTypes DEF BatchTypes
  <2>2. ASSUME NEW d \in Caller, NEW a \in Bucket
        PROVE  /\ DOMAIN pending'[d][a] \subseteq {k \in Key : BucketOf[k] = a}
               /\ Group(d, a)' # {} => DOMAIN pending'[d][a] = {}
    <3>1. Group(d, a)' = IF d = c /\ a = b THEN {} ELSE Group(d, a)
      BY <1>2, UngroupTypes
    <3>2. CASE d = c /\ a = b
      BY <1>8, <1>9, <3>1, <3>2 DEF BatchTypes, Group
    <3>3. CASE ~(d = c /\ a = b)
      BY <1>8, <3>1, <3>3 DEF BatchTypes
    <3> QED
      BY <3>2, <3>3
  <2>3. DOMAIN todo' = Caller
    BY <1>2, UngroupTypes
  <2> QED
    BY <1>8, <2>1, <2>2, <2>3 DEF BatchTypes
<1>15. PendingSound'
  <2>1. ASSUME NEW a \in Bucket, NEW d \in Caller, NEW k \in DOMAIN pending'[d][a],
               NEW m, m = pending'[d][a][k]
        PROVE  /\ m \in Offsets(a)' /\ file'[a][m].key = k
               /\ ~ListedIn(index[a], m) /\ m \notin hidden[a]
               /\ \A e \in Caller \ {d} : ~OwedBy(e, a, m)'
    <3>1. CASE d = c /\ a = b
      <4>1. /\ m = off[k] /\ k \in Group(c, b) /\ m \in L + 1 .. L + n
            /\ file'[b][m].key = k /\ m \in Nat /\ m > L
        BY <1>8, <1>9, <2>1, <3>1
      <4>2. m \in Offsets(b)'
        BY <1>3, <1>5, <1>11, <4>1 DEF L
      <4>3. ~ListedIn(index[b], m)
        BY <1>5, <4>1, BeyondUnlisted DEF IndexesSound, L
      <4>4. m \notin Offsets(b)
        BY <1>5, <1>11, <4>1 DEF L
      <4>5. m \notin hidden[b]
        BY <4>4 DEF FilesTyped
      <4>6. ASSUME NEW e \in Caller \ {c} PROVE ~OwedBy(e, b, m)'
        <5>1. pending'[e][b] = pending[e][b]
          BY <1>8
        <5>2. \A x \in DOMAIN pending[e][b] : pending[e][b][x] \in Offsets(b)
          BY DEF PendingSound
        <5> QED
          BY <4>4, <5>1, <5>2 DEF OwedBy
      <4> QED
        BY <3>1, <4>1, <4>2, <4>3, <4>5, <4>6
    <3>2. CASE ~(d = c /\ a = b)
      <4>1. pending'[d][a] = pending[d][a] /\ k \in DOMAIN pending[d][a] /\ m = pending[d][a][k]
        BY <1>8, <2>1, <3>2
      <4>2. /\ m \in Offsets(a) /\ file[a][m].key = k /\ ~ListedIn(index[a], m)
            /\ m \notin hidden[a] /\ \A e \in Caller \ {d} : ~OwedBy(e, a, m)
        BY <4>1 DEF PendingSound
      <4>3. m \in Offsets(a)' /\ file'[a][m].key = k
        <5>1. CASE a = b
          <6>1. m \in 1 .. L /\ m \in 1 .. L + n
            BY <1>3, <1>5, <1>11, <4>2, <5>1 DEF L
          <6> QED
            BY <1>7, <1>11, <4>2, <5>1, <6>1
        <5>2. CASE a # b
          BY <1>7, <1>11, <4>2, <5>2
        <5> QED
          BY <5>1, <5>2
      <4>4. ASSUME NEW e \in Caller \ {d} PROVE ~OwedBy(e, a, m)'
        <5>1. CASE e = c /\ a = b
          <6>1. m \in 1 .. L
            BY <1>11, <4>2, <5>1
          <6>2. \A x \in Group(c, b) : off[x] # m
            BY <1>5, <1>9, <6>1 DEF L
          <6> QED
            BY <1>8, <1>9, <5>1, <6>2 DEF OwedBy
        <5>2. CASE ~(e = c /\ a = b)
          BY <1>8, <4>2, <5>2 DEF OwedBy
        <5> QED
          BY <5>1, <5>2
      <4> QED
        BY <4>2, <4>3, <4>4
    <3> QED
      BY <3>1, <3>2
  <2> QED
    BY <1>2, <2>1 DEF PendingSound, OwedBy
<1>16. Phases'
  BY <1>2 DEF Phases, Running
<1>17. Placed'
  <2>1. ASSUME NEW a \in Bucket, state'[a] # "off", NEW m \in Offsets(a)'
        PROVE  /\ ListedIn(index'[a], m) \/ (\E d \in Caller : OwedBy(d, a, m)') \/ m \in hidden'[a]
               /\ ~(ListedIn(index'[a], m) /\ m \in hidden'[a])
    <3>1. UNCHANGED <<index, hidden, state>>
      BY <1>2
    <3>2. CASE a = b /\ m \in L + 1 .. L + n
      <4>1. OwedBy(c, b, m)'
        BY <1>8, <1>9, <1>10, <3>2 DEF OwedBy
      <4>2. m \notin hidden[b]
        <5>1. m \notin 1 .. L
          BY <1>5, <3>2 DEF L
        <5> QED
          BY <1>11, <5>1 DEF FilesTyped
      <4> QED
        BY <3>1, <3>2, <4>1, <4>2
    <3>3. CASE ~(a = b /\ m \in L + 1 .. L + n)
      <4>1. m \in Offsets(a)
        BY <1>3, <1>5, <1>11, <3>3 DEF L
      <4>2. ASSUME NEW d \in Caller, OwedBy(d, a, m) PROVE OwedBy(d, a, m)'
        <5>1. ~(d = c /\ a = b)
          BY <1>2, <4>2 DEF BatchTypes, OwedBy
        <5> QED
          BY <1>8, <4>2, <5>1 DEF OwedBy
      <4> QED
        BY <2>1, <3>1, <4>1, <4>2 DEF Placed
    <3> QED
      BY <3>2, <3>3
  <2> QED
    BY <2>1 DEF Placed
<1> QED
  BY <1>12, <1>13, <1>14, <1>15, <1>16, <1>17

LEMMA BatchIndexKeeps ==
    ASSUME StoreInv, NEW c \in Caller, NEW b \in Bucket, BatchIndex(c, b)
    PROVE  StoreInv'
<1> USE DEF StoreInv
<1> DEFINE off == pending[c][b]
<1>1. /\ index' = [index EXCEPT ![b] = AddOffsets(@, off)]
      /\ pending' = [pending EXCEPT ![c][b] = << >>]
      /\ UNCHANGED <<file, idxFile, state, phase, todo, hidden>> /\ Running
  BY DEF BatchIndex
<1>2. /\ index'[b] = AddOffsets(index[b], off) /\ DOMAIN index' = Bucket
      /\ \A a \in Bucket \ {b} : index'[a] = index[a]
  BY <1>1 DEF IndexesSound
<1>3. /\ DOMAIN pending' = Caller /\ \A d \in Caller : DOMAIN pending'[d] = Bucket
      /\ pending'[c][b] = << >>
      /\ \A d \in Caller, a \in Bucket : d # c \/ a # b => pending'[d][a] = pending[d][a]
  BY <1>1 DEF BatchTypes
<1>4. Addable(off, index[b], b, file[b])
  BY DEF Addable, BatchTypes, PendingSound, Offsets
<1> HIDE DEF off
<1>5. /\ Sound(index'[b], b, file[b])
      /\ \A m : ListedIn(index'[b], m) <=> ListedIn(index[b], m) \/ \E x \in DOMAIN off : off[x] = m
  <2>1. Len(file[b]) \in Nat /\ Sound(index[b], b, file[b])
    BY DEF FilesTyped, IndexesSound
  <2> QED
    BY <1>2, <1>4, <2>1, AddSound
<1>6. \A m : ListedIn(index'[b], m) <=> ListedIn(index[b], m) \/ OwedBy(c, b, m)
  BY <1>5 DEF OwedBy, off
<1>7. FilesTyped'
  BY <1>1 DEF FilesTyped, Offsets
<1>8. IndexesSound'
  BY <1>1, <1>2, <1>5 DEF IndexesSound
<1>9. BatchTypes'
  <2>1. DOMAIN pending'[c][b] = {}
    BY <1>3
  <2>2. \A d \in Caller, a \in Bucket : Group(d, a)' = Group(d, a)
    BY <1>1 DEF Group
  <2>3. ASSUME NEW d \in Caller, NEW a \in Bucket
        PROVE  /\ DOMAIN pending'[d][a] \subseteq {k \in Key : BucketOf[k] = a}
               /\ Group(d, a)' # {} => DOMAIN pending'[d][a] = {}
    BY <1>3, <2>1, <2>2 DEF BatchTypes
  <2> QED
    BY <1>1, <1>3, <2>3 DEF BatchTypes
<1>10. PendingSound'
  <2>1. ASSUME NEW a \in Bucket, NEW d \in Caller, NEW k \in DOMAIN pending'[d][a],
               NEW m, m = pending'[d][a][k]
        PROVE  /\ m \in Offsets(a) /\ file[a][m].key = k
               /\ ~ListedIn(index'[a], m) /\ m \notin hidden[a]
               /\ \A e \in Caller \ {d} : ~OwedBy(e, a, m)'
    <3>1. d # c \/ a # b
      BY <1>3
    <3>2. pending'[d][a] = pending[d][a] /\ m = pending[d][a][k] /\ k \in DOMAIN pending[d][a]
      BY <1>3, <2>1, <3>1
    <3>3. /\ m \in Offsets(a) /\ file[a][m].key = k /\ ~ListedIn(index[a], m)
          /\ m \notin hidden[a] /\ \A e \in Caller \ {d} : ~OwedBy(e, a, m)
      BY <3>2 DEF PendingSound
    <3>4. ~ListedIn(index'[a], m)
      BY <1>2, <1>6, <3>1, <3>3
    <3>5. \A e \in Caller : OwedBy(e, a, m)' => OwedBy(e, a, m)
      BY <1>3 DEF OwedBy
    <3> QED
      BY <3>3, <3>4, <3>5
  <2> QED
    BY <1>1, <2>1 DEF PendingSound, Offsets, OwedBy
<1>11. Phases'
  BY <1>1 DEF Phases, Running
<1>12. Placed'
  <2>1. ASSUME NEW a \in Bucket, state'[a] # "off", NEW m \in Offsets(a)'
        PROVE  /\ ListedIn(index'[a], m) \/ (\E d \in Caller : OwedBy(d, a, m)') \/ m \in hidden'[a]
               /\ ~(ListedIn(index'[a], m) /\ m \in hidden'[a])
    <3>1. state[a] # "off" /\ m \in Offsets(a) /\ hidden'[a] = hidden[a]
      BY <1>1, <2>1 DEF Offsets
    <3>2. \A d \in Caller : OwedBy(d, a, m) => OwedBy(d, a, m)' \/ (d = c /\ a = b)
      BY <1>3 DEF OwedBy
    <3>3. OwedBy(c, b, m) /\ a = b => m \notin hidden[a]
      BY DEF OwedBy, PendingSound
    <3> QED
      BY <1>2, <1>6, <3>1, <3>2, <3>3 DEF Placed
  <2> QED
    BY <2>1 DEF Placed
<1> QED
  BY <1>7, <1>8, <1>9, <1>10, <1>11, <1>12

LEMMA DeleteKeyKeeps == ASSUME StoreInv, NEW k \in Key, DeleteKey(k) PROVE StoreInv'
<1> USE DEF StoreInv
<1> DEFINE b == BucketOf[k]
           gone == Range(Listed(k))
<1>1. /\ index' = [index EXCEPT ![b] = [j \in DOMAIN @ \ {k} |-> @[j]]]
      /\ hidden' = [hidden EXCEPT ![b] = @ \cup gone]
      /\ UNCHANGED <<file, idxFile, state, phase, todo, pending>>
  BY DEF DeleteKey
<1>2. b \in Bucket
  BY BucketAssumption
<1>3. /\ index'[b] = [j \in DOMAIN index[b] \ {k} |-> index[b][j]] /\ DOMAIN index' = Bucket
      /\ \A a \in Bucket \ {b} : index'[a] = index[a]
  BY <1>1, <1>2 DEF IndexesSound
<1>4. /\ hidden'[b] = hidden[b] \cup gone
      /\ \A a \in Bucket \ {b} : hidden'[a] = hidden[a]
  BY <1>1, <1>2 DEF FilesTyped
<1>5. Sound(index[b], b, file[b])
  BY <1>2 DEF IndexesSound
<1>6. \A m : m \in gone <=> k \in DOMAIN index[b] /\ \E i \in DOMAIN index[b][k] : index[b][k][i] = m
  BY DEF Listed, Range
<1>7. \A m \in gone : m \in Offsets(b) /\ ListedIn(index[b], m) /\ file[b][m].key = k
  BY <1>5, <1>6 DEF Sound, ListedIn, Offsets
<1> HIDE DEF b, gone
<1>8. Sound(index'[b], b, file[b])
  BY <1>3, <1>5 DEF Sound, IsIndex
<1>9. ASSUME NEW m PROVE ListedIn(index'[b], m) <=> ListedIn(index[b], m) /\ m \notin gone
  <2>1. ASSUME ListedIn(index'[b], m) PROVE ListedIn(index[b], m) /\ m \notin gone
    <3>1. PICK j \in DOMAIN index'[b] : \E i \in DOMAIN index'[b][j] : index'[b][j][i] = m
      BY <2>1 DEF ListedIn
    <3>2. j \in DOMAIN index[b] /\ j # k /\ index'[b][j] = index[b][j]
      BY <1>3
    <3>3. file[b][m].key = j
      BY <1>5, <3>1, <3>2 DEF Sound
    <3> QED
      BY <1>7, <3>1, <3>2, <3>3 DEF ListedIn
  <2>2. ASSUME ListedIn(index[b], m), m \notin gone PROVE ListedIn(index'[b], m)
    <3>1. PICK j \in DOMAIN index[b] : \E i \in DOMAIN index[b][j] : index[b][j][i] = m
      BY <2>2 DEF ListedIn
    <3>2. j # k
      BY <1>6, <2>2, <3>1
    <3>3. j \in DOMAIN index'[b] /\ index'[b][j] = index[b][j]
      BY <1>3, <3>2
    <3> QED
      BY <3>1, <3>3 DEF ListedIn
  <2> QED
    BY <2>1, <2>2
<1>10. FilesTyped'
  <2>1. \A a \in Bucket : hidden'[a] \subseteq Offsets(a)
    BY <1>4, <1>7 DEF FilesTyped
  <2>2. \A a \in Bucket : Offsets(a) \subseteq Nat /\ Offsets(a)' = Offsets(a)
    BY <1>1 DEF Offsets
  <2>3. DOMAIN hidden' = Bucket /\ \A a \in Bucket : hidden'[a] \in SUBSET Nat
    BY <1>1, <2>1, <2>2 DEF FilesTyped
  <2>4. hidden' \in [Bucket -> SUBSET Nat]
    BY <1>1, <2>3 DEF FilesTyped
  <2> QED
    BY <1>1, <2>1, <2>2, <2>4 DEF FilesTyped
<1>11. IndexesSound'
  BY <1>1, <1>3, <1>8 DEF IndexesSound
<1>12. BatchTypes' /\ Phases'
  BY <1>1 DEF BatchTypes, Group, Phases, Running
<1>13. PendingSound'
  <2>1. ASSUME NEW a \in Bucket, NEW d \in Caller, NEW x \in DOMAIN pending[d][a]
        PROVE  ~ListedIn(index'[a], pending[d][a][x]) /\ pending[d][a][x] \notin hidden'[a]
    <3>1. ~ListedIn(index[a], pending[d][a][x]) /\ pending[d][a][x] \notin hidden[a]
      BY DEF PendingSound
    <3> QED
      BY <1>3, <1>4, <1>7, <1>9, <3>1
  <2>2. UNCHANGED <<pending, file>>
    BY <1>1
  <2>3. ASSUME NEW a \in Bucket, NEW d \in Caller, NEW x \in DOMAIN pending[d][a]
        PROVE  /\ pending[d][a][x] \in Offsets(a)' /\ file[a][pending[d][a][x]].key = x
               /\ \A e \in Caller \ {d} :
                     \A y \in DOMAIN pending[e][a] : pending[e][a][y] # pending[d][a][x]
    BY <2>2 DEF PendingSound, Offsets, OwedBy
  <2> QED
    BY <2>1, <2>2, <2>3 DEF PendingSound, OwedBy
<1>14. Placed'
  <2>1. ASSUME NEW a \in Bucket, state'[a] # "off", NEW m \in Offsets(a)'
        PROVE  /\ ListedIn(index'[a], m) \/ (\E d \in Caller : OwedBy(d, a, m)') \/ m \in hidden'[a]
               /\ ~(ListedIn(index'[a], m) /\ m \in hidden'[a])
    <3>1. state[a] # "off" /\ m \in Offsets(a) /\ \A d \in Caller : OwedBy(d, a, m)' <=> OwedBy(d, a, m)
      BY <1>1, <2>1 DEF Offsets, OwedBy
    <3> QED
      BY <1>3, <1>4, <1>9, <3>1 DEF Placed
  <2> QED
    BY <2>1 DEF Placed
<1> QED
  BY <1>10, <1>11, <1>12, <1>13, <1>14

LEMMA CloseKeeps == ASSUME StoreInv, Close PROVE StoreInv'
<1> USE DEF StoreInv, Close
<1>1. FilesTyped' /\ IndexesSound'
  BY DEF FilesTyped, Offsets, IndexesSound
<1>2. BatchTypes' /\ Phases'
  BY DEF BatchTypes, Group, Phases, Running
<1>3. PendingSound' /\ Placed'
  BY DEF PendingSound, Placed, Offsets, OwedBy
<1> QED
  BY <1>1, <1>2, <1>3

\* The steps of Close on a bucket change its state and what is in its index file.
LEMMA SavingKeeps ==
    ASSUME StoreInv, NEW b \in Bucket, TruncateIndex(b) \/ WriteIndex(b) \/ CloseFile(b)
    PROVE  StoreInv'
<1> USE DEF StoreInv
<1>1. UNCHANGED <<file, index, phase, todo, pending, hidden>> /\ phase = "closing"
  BY DEF TruncateIndex, WriteIndex, CloseFile
<1>2. /\ state' \in [Bucket -> {"off", "open", "saving", "saved", "closed"}]
      /\ \A a \in Bucket : state[a] # "off" /\ state'[a] # "off"
  <2>1. \A a \in Bucket : state[a] # "off"
    BY <1>1 DEF Phases, Running
  <2>2. PICK s \in {"saving", "saved", "closed"} : state' = [state EXCEPT ![b] = s]
    BY DEF TruncateIndex, WriteIndex, CloseFile
  <2> QED
    BY <2>1, <2>2 DEF FilesTyped
<1>3. PICK f \in {{}, {index[b]}, idxFile[b]} :
        DOMAIN idxFile' = Bucket /\ \A a \in Bucket : idxFile'[a] = IF a = b THEN f ELSE idxFile[a]
  <2>1. CASE TruncateIndex(b)
    BY <2>1 DEF TruncateIndex, IndexesSound
  <2>2. CASE WriteIndex(b)
    BY <2>2 DEF WriteIndex, IndexesSound
  <2>3. CASE CloseFile(b)
    BY <2>3 DEF CloseFile, IndexesSound
  <2> QED
    BY <2>1, <2>2, <2>3
<1>4. FilesTyped'
  BY <1>1, <1>2 DEF FilesTyped, Offsets
<1>5. IndexesSound'
  <2>1. /\ \A idx \in f : Sound(idx, b, file[b])
        /\ f = {} \/ \E idx \in f : f = {idx}
    BY <1>3 DEF IndexesSound
  <2> QED
    BY <1>1, <1>3, <2>1 DEF IndexesSound
<1>6. BatchTypes' /\ Phases'
  BY <1>1, <1>2 DEF BatchTypes, Group, Phases, Running
<1>7. PendingSound' /\ Placed'
  BY <1>1, <1>2 DEF PendingSound, Placed, Offsets, OwedBy
<1> QED
  BY <1>4, <1>5, <1>6, <1>7

LEMMA HaltKeeps == ASSUME StoreInv, Halt PROVE StoreInv'
<1> USE DEF StoreInv, Halt
<1>1. FilesTyped'
  BY DEF FilesTyped, Offsets
<1>2. IndexesSound'
  <2>1. \A b \in Bucket : Sound(<< >>, b, file[b])
    BY DEF Sound, IsIndex
  <2> QED
    BY <2>1 DEF IndexesSound
<1>3. BatchTypes'
  BY FS_EmptySet DEF BatchTypes, Group
<1>4. PendingSound' /\ Phases' /\ Placed'
  BY DEF PendingSound, Phases, Placed, Running
<1> QED
  BY <1>1, <1>2, <1>3, <1>4

-------------------------------------------------------------------------------
(***************************************************************************)
(* The theorems.                                                           *)
(***************************************************************************)
LEMMA BatchStepKeeps ==
    ASSUME StoreInv, NEW c \in Caller, NEW b \in Bucket, BatchStep(c, b)
    PROVE  StoreInv'
BY BatchWriteKeeps, BatchWriteFailsKeeps, BatchIndexKeeps DEF BatchStep

LEMMA NextKeeps == ASSUME StoreInv, [Next]_vars PROVE StoreInv'
<1>1. CASE Start
  BY <1>1, StartKeeps
<1>2. CASE \E b \in Bucket : LoadIndex(b) \/ RebuildIndex(b)
  BY <1>2, LoadIndexKeeps, RebuildIndexKeeps
<1>3. CASE \E k \in Key, p \in Payload : AppendRecord(k, p)
  BY <1>3, AppendRecordKeeps
<1>4. CASE \E k \in Key : AppendFails(k) \/ DeleteKey(k)
  BY <1>4, AppendFailsKeeps, DeleteKeyKeeps DEF AppendFails
<1>5. CASE \E c \in Caller, K \in (SUBSET Key) \ {{}} : \E entries \in [K -> Payload] :
              IsFiniteSet(K) /\ BatchBegin(c, entries)
  <2>1. PICK c \in Caller, K \in (SUBSET Key) \ {{}} : \E entries \in [K -> Payload] :
               IsFiniteSet(K) /\ BatchBegin(c, entries)
    BY <1>5
  <2>2. PICK entries \in [K -> Payload] : IsFiniteSet(K) /\ BatchBegin(c, entries)
    BY <2>1
  <2>3. DOMAIN entries \subseteq Key /\ IsFiniteSet(DOMAIN entries)
    BY <2>1, <2>2
  <2>4. \A k \in DOMAIN entries : entries[k] \in Payload
    OBVIOUS
  <2> QED
    BY <2>2, <2>3, <2>4, BatchBeginKeeps
<1>6. CASE \E c \in Caller, b \in Bucket : BatchStep(c, b)
  BY <1>6, BatchStepKeeps
<1>7. CASE Close
  BY <1>7, CloseKeeps
<1>8. CASE \E b \in Bucket : TruncateIndex(b) \/ WriteIndex(b) \/ CloseFile(b)
  BY <1>8, SavingKeeps
<1>9. CASE Exit \/ Crash
  BY <1>9, HaltKeeps DEF Exit, Crash
<1>10. CASE UNCHANGED vars
  BY <1>10, AppendFailsKeeps
<1> QED
  BY <1>1, <1>2, <1>3, <1>4, <1>5, <1>6, <1>7, <1>8, <1>9, <1>10 DEF Next

\* The store keeps StoreInv through starts, appends, batches, deletions, Close
\* and crashes, whatever their interleaving.
THEOREM StoreInvariant == Spec => []StoreInv
<1>1. Init => StoreInv
  BY InitStore
<1>2. StoreInv /\ [Next]_vars => StoreInv'
  BY NextKeeps
<1> QED
  BY <1>1, <1>2, PTL DEF Spec

\* readRecordAt never meets a record of another key or the end of the file: every
\* index, in memory or in an index file, lists records of its keys, each once, and
\* none that a batch is about to list.
THEOREM StoreIndexSound == Spec => []IndexSound
<1>1. ASSUME StoreInv PROVE IndexSound
  <2> USE <1>1 DEF StoreInv
  <2>1. ASSUME NEW b \in Bucket, NEW idx \in {index[b]} \cup idxFile[b], NEW k \in DOMAIN idx
        PROVE  IsInjective(idx[k]) /\ \A n \in Range(idx[k]) : n \in Offsets(b) /\ file[b][n].key = k
    <3>1. Sound(idx, b, file[b])
      BY DEF IndexesSound
    <3> QED
      BY <3>1 DEF Sound, Range, Offsets
  <2>2. ASSUME NEW b \in Bucket, NEW c \in Caller, NEW k \in DOMAIN pending[c][b]
        PROVE  file[b][pending[c][b][k]].key = k /\ pending[c][b][k] \notin Range(Listed(k))
    <3>1. BucketOf[k] = b
      BY DEF BatchTypes
    <3>2. file[b][pending[c][b][k]].key = k /\ ~ListedIn(index[b], pending[c][b][k])
      BY DEF PendingSound
    <3>3. Range(<< >>) = {}
      BY DEF Range
    <3> QED
      BY <3>1, <3>2, <3>3 DEF ListedIn, Listed, Range
  <2> QED
    BY <2>1, <2>2 DEF IndexSound
<1> QED
  BY <1>1, StoreInvariant, PTL

\* Append, BatchAppend, DeleteKey and Close lose no record between them: every
\* record of a loaded bucket is listed, or about to be, or was taken away.
THEOREM StoreEveryRecordIndexed == Spec => []EveryRecordIndexed
<1>1. ASSUME StoreInv PROVE EveryRecordIndexed
  <2> USE <1>1 DEF StoreInv
  <2>1. SUFFICES ASSUME NEW b \in Bucket, state[b] # "off"
                 PROVE  /\ Offsets(b) = Indexed(b) \cup Owed(b) \cup hidden[b]
                        /\ Indexed(b) \cap hidden[b] = {}
    BY DEF EveryRecordIndexed
  <2>2. \A n : n \in Indexed(b) <=> ListedIn(index[b], n)
    BY DEF Indexed, ListedIn, Range
  <2>3. \A n : n \in Owed(b) <=> \E c \in Caller : OwedBy(c, b, n)
    BY DEF Owed, OwedBy, Range
  <2>4. \A n : ListedIn(index[b], n) => n \in Offsets(b)
    BY DEF ListedIn, IndexesSound, Sound, Offsets
  <2>5. \A n : (\E c \in Caller : OwedBy(c, b, n)) => n \in Offsets(b)
    BY DEF OwedBy, PendingSound
  <2>6. hidden[b] \subseteq Offsets(b)
    BY DEF FilesTyped
  <2>7. \A n \in Offsets(b) :
          /\ ListedIn(index[b], n) \/ (\E c \in Caller : OwedBy(c, b, n)) \/ n \in hidden[b]
          /\ ~(ListedIn(index[b], n) /\ n \in hidden[b])
    BY <2>1 DEF Placed
  <2> QED
    BY <2>2, <2>3, <2>4, <2>5, <2>6, <2>7
<1> QED
  BY <1>1, StoreInvariant, PTL

\* Two sound indexes of a file that list the same records list them under the
\* same keys.
LEMMA SameListed ==
    ASSUME NEW b, NEW recs, NEW i, NEW j, Sound(i, b, recs), Sound(j, b, recs),
           \A n \in 1 .. Len(recs) : ListedIn(i, n) => ListedIn(j, n)
    PROVE  DOMAIN i \subseteq DOMAIN j /\ \A k \in DOMAIN i : Range(i[k]) \subseteq Range(j[k])
<1>1. ASSUME NEW k \in DOMAIN i, NEW m \in DOMAIN i[k]
      PROVE  k \in DOMAIN j /\ i[k][m] \in Range(j[k])
  <2>1. i[k][m] \in 1 .. Len(recs) /\ recs[i[k][m]].key = k
    BY DEF Sound
  <2>2. ListedIn(j, i[k][m])
    BY <2>1 DEF ListedIn
  <2>3. PICK x \in DOMAIN j : \E y \in DOMAIN j[x] : j[x][y] = i[k][m]
    BY <2>2 DEF ListedIn
  <2>4. x = k
    BY <2>1, <2>3 DEF Sound
  <2> QED
    BY <2>3, <2>4 DEF Range
<1>2. ASSUME NEW k \in DOMAIN i PROVE \E m : m \in DOMAIN i[k]
  <2>1. i[k] \in Seq(Nat \ {0}) /\ i[k] # << >>
    BY DEF Sound, IsIndex
  <2> QED
    BY <2>1
<1> QED
  BY <1>1, <1>2 DEF Range

\* rebuildIndex, from the data file alone, lists under each key the records the
\* index in memory lists, when no batch runs and nothing was taken away.
THEOREM StoreRebuildComplete == Spec => []RebuildComplete
<1>1. ASSUME StoreInv PROVE RebuildComplete
  <2> USE <1>1 DEF StoreInv
  <2>1. TypeOK
    <3>1. \A b \in Bucket : /\ IsIndex(index[b], b) /\ Cardinality(idxFile[b]) <= 1
                            /\ \A idx \in idxFile[b] : IsIndex(idx, b)
      <4>1. ASSUME NEW b \in Bucket PROVE Cardinality(idxFile[b]) <= 1
        <5>1. idxFile[b] = {} \/ \E idx \in idxFile[b] : idxFile[b] = {idx}
          BY DEF IndexesSound
        <5>2. CASE idxFile[b] = {}
          BY <5>2, FS_EmptySet
        <5>3. CASE \E idx \in idxFile[b] : idxFile[b] = {idx}
          BY <5>3, FS_Singleton
        <5> QED
          BY <5>1, <5>2, <5>3
      <4> QED
        BY <4>1 DEF IndexesSound, Sound
    <3> QED
      BY <3>1 DEF TypeOK, FilesTyped, IndexesSound, BatchTypes
  <2>2. ASSUME NEW b \in Bucket, Quiet(b)
        PROVE  /\ DOMAIN Rebuilt(b) = DOMAIN index[b]
               /\ \A k \in DOMAIN index[b] : Range(Rebuilt(b)[k]) = Range(index[b][k])
    <3>1. file[b] \in Seq(Record) /\ \A n \in 1 .. Len(file[b]) : BucketOf[file[b][n].key] = b
      BY DEF FilesTyped, Offsets
    <3>2. Len(file[b]) \in 0 .. Len(file[b]) /\ Len(file[b]) \in Nat
      BY <3>1
    <3>3. /\ Sound(Rebuilt(b), b, file[b])
          /\ \A n \in 1 .. Len(file[b]) : ListedIn(Rebuilt(b), n) <=> n <= Len(file[b])
      BY <3>1, <3>2, ScanSound DEF Rebuilt
    <3>4. \A n \in 1 .. Len(file[b]) : ListedIn(Rebuilt(b), n)
      BY <3>2, <3>3
    <3>5. \A n \in 1 .. Len(file[b]) : ListedIn(index[b], n)
      <4>1. state[b] # "off" /\ hidden[b] = {} /\ \A c \in Caller : pending[c][b] = << >>
        BY <2>2 DEF Quiet, BatchIdle
      <4>2. \A c \in Caller : \A n : ~OwedBy(c, b, n)
        BY <4>1 DEF OwedBy
      <4> QED
        BY <4>1, <4>2 DEF Placed, Offsets
    <3>6. Sound(index[b], b, file[b])
      BY DEF IndexesSound
    <3>7. /\ DOMAIN Rebuilt(b) \subseteq DOMAIN index[b]
          /\ \A k \in DOMAIN Rebuilt(b) : Range(Rebuilt(b)[k]) \subseteq Range(index[b][k])
      BY <3>3, <3>5, <3>6, SameListed
    <3>8. /\ DOMAIN index[b] \subseteq DOMAIN Rebuilt(b)
          /\ \A k \in DOMAIN index[b] : Range(index[b][k]) \subseteq Range(Rebuilt(b)[k])
      BY <3>3, <3>4, <3>6, SameListed
    <3> QED
      BY <3>7, <3>8
  <2> QED
    BY <2>1, <2>2 DEF RebuildComplete
<1> QED
  BY <1>1, StoreInvariant, PTL

\* A reader that saw block i of a key sees it again: no step of a running process
\* changes a list but at its end, except DeleteKey, which drops it whole.
THEOREM StoreArraysStable == Spec => ArraysStable
<1> DEFINE Stable == \A b \in Bucket : state[b] # "off" /\ state'[b] # "off" =>
                        \A k \in DOMAIN index[b] \cap DOMAIN index'[b] :
                           index[b][k] = SubSeq(index'[b][k], 1, Len(index[b][k]))
<1>1. ASSUME NEW s, NEW S, s \in Seq(S) PROVE s = SubSeq(s, 1, Len(s))
  BY <1>1
<1>2. ASSUME NEW S, NEW s \in Seq(S), NEW t \in Seq(S) PROVE s = SubSeq(s \o t, 1, Len(s))
  OBVIOUS
<1>3. ASSUME StoreInv, [Next]_vars PROVE [Stable]_vars
  <2> USE <1>3 DEF StoreInv
  <2>1. \A b \in Bucket : IsIndex(index[b], b)
    BY DEF IndexesSound, Sound
  <2>2. \A b \in Bucket : \A k \in DOMAIN index[b] :
           index[b][k] \in Seq(Nat \ {0}) /\ index[b][k] = SubSeq(index[b][k], 1, Len(index[b][k]))
    BY <1>1, <2>1 DEF IsIndex
  <2>3. ASSUME NEW b \in Bucket, NEW off, \A k \in DOMAIN off : off[k] \in Nat \ {0},
               index' = [index EXCEPT ![b] = AddOffsets(@, off)]
        PROVE  Stable
    <3>1. ASSUME NEW a \in Bucket, NEW k \in DOMAIN index[a] \cap DOMAIN index'[a]
          PROVE  index[a][k] = SubSeq(index'[a][k], 1, Len(index[a][k]))
      <4>1. CASE a = b
        <5> DEFINE t == IF k \in DOMAIN off THEN <<off[k]>> ELSE << >>
        <5>1. index'[a][k] = index[a][k] \o t
          BY <2>3, <4>1 DEF AddOffsets, IndexesSound
        <5>2. t \in Seq(Nat \ {0})
          <6>1. CASE k \in DOMAIN off
            <7>1. off[k] \in Nat \ {0}
              BY <2>3, <6>1
            <7> QED
              BY <6>1, <7>1
          <6>2. CASE k \notin DOMAIN off
            BY <6>2
          <6> QED
            BY <6>1, <6>2
        <5>3. index[a][k] \in Seq(Nat \ {0})
          BY <2>2
        <5> QED
          BY <1>2, <5>1, <5>2, <5>3
      <4>2. CASE a # b
        BY <2>2, <2>3, <4>2 DEF IndexesSound
      <4> QED
        BY <4>1, <4>2
    <3> QED
      BY <3>1
  <2>4. CASE UNCHANGED index
    BY <2>2, <2>4
  <2>5. CASE \E b \in Bucket : LoadIndex(b) \/ RebuildIndex(b)
    <3>1. PICK b \in Bucket : LoadIndex(b) \/ RebuildIndex(b)
      BY <2>5
    <3>2. state[b] = "off" /\ \A a \in Bucket \ {b} : index'[a] = index[a]
      BY <3>1 DEF LoadIndex, RebuildIndex, Opened, IndexesSound
    <3> QED
      BY <2>2, <3>2
  <2>6. CASE \E k \in Key, p \in Payload : AppendRecord(k, p)
    <3>1. PICK k \in Key, p \in Payload : AppendRecord(k, p)
      BY <2>6
    <3> DEFINE off == [x \in {k} |-> Len(file[BucketOf[k]]) + 1]
    <3>2. BucketOf[k] \in Bucket /\ index' = [index EXCEPT ![BucketOf[k]] = AddOffsets(@, off)]
      BY <3>1, BucketAssumption DEF AppendRecord
    <3>3. \A x \in DOMAIN off : off[x] \in Nat \ {0}
      BY <3>2 DEF FilesTyped
    <3> HIDE DEF off
    <3> QED
      BY <2>3, <3>2, <3>3
  <2>7. CASE \E k \in Key : DeleteKey(k)
    <3>1. PICK k \in Key : DeleteKey(k)
      BY <2>7
    <3>2. BucketOf[k] \in Bucket
      BY BucketAssumption
    <3>3. \A a \in Bucket : \A x \in DOMAIN index'[a] : index'[a][x] = index[a][x]
      BY <3>1, <3>2 DEF DeleteKey, IndexesSound
    <3> QED
      BY <2>2, <3>3
  <2>8. CASE \E c \in Caller, b \in Bucket : BatchIndex(c, b)
    <3>1. PICK c \in Caller, b \in Bucket : BatchIndex(c, b)
      BY <2>8
    <3>2. \A k \in DOMAIN pending[c][b] : pending[c][b][k] \in Nat \ {0}
      BY DEF PendingSound, Offsets
    <3> QED
      BY <2>3, <3>1, <3>2 DEF BatchIndex
  <2>9. CASE Halt
    BY <2>9 DEF Halt
  <2> QED
    BY <2>4, <2>5, <2>6, <2>7, <2>8, <2>9
       DEF Next, vars, Start, AppendFails, BatchBegin, BatchStep, BatchWrite, BatchWriteFails,
           Close, TruncateIndex, WriteIndex, CloseFile, Exit, Crash
<1> QED
  BY <1>3, StoreInvariant, PTL DEF Spec, ArraysStable
===============================================================================
