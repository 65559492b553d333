------------------------- MODULE ShardStoreInvariant -------------------------
(***************************************************************************)
(* The inductive invariant of ShardStore: what the index, the index file,  *)
(* a batch in progress and the file itself owe each other, and the lemmas  *)
(* about the operators of the store that ShardStoreProofs builds on.       *)
(***************************************************************************)
EXTENDS ShardStore, FiniteSetTheorems, TLAPS

(* A leaf is tried with Zenon, then with the SMT solver. *)
USE ZenonT(5), SMTT(30)

-------------------------------------------------------------------------------
(***************************************************************************)
(* The inductive invariant.                                                *)
(***************************************************************************)

\* idx lists, without repetition, offsets of records in recs under their keys.
Sound(idx, b, recs) ==
    /\ IsIndex(idx, b)
    /\ \A k \in DOMAIN idx :
         /\ idx[k] # << >> /\ IsInjective(idx[k])
         /\ \A i \in DOMAIN idx[k] : /\ idx[k][i] \in 1 .. Len(recs)
                                     /\ recs[idx[k][i]].key = k

ListedIn(idx, n) == \E k \in DOMAIN idx : \E i \in DOMAIN idx[k] : idx[k][i] = n

OwedBy(c, b, n) == \E k \in DOMAIN pending[c][b] : pending[c][b][k] = n

FilesTyped ==
    /\ file \in [Bucket -> Seq(Record)]
    /\ \A b \in Bucket : \A n \in Offsets(b) : BucketOf[file[b][n].key] = b
    /\ state \in [Bucket -> {"off", "open", "saving", "saved", "closed"}]
    /\ phase \in {"down", "starting", "open", "closing"}
    /\ hidden \in [Bucket -> SUBSET Nat]
    /\ \A b \in Bucket : hidden[b] \subseteq Offsets(b)

IndexesSound ==
    /\ DOMAIN index = Bucket /\ DOMAIN idxFile = Bucket
    /\ \A b \in Bucket :
         /\ Sound(index[b], b, file[b])
         /\ \A idx \in idxFile[b] : Sound(idx, b, file[b])
         /\ idxFile[b] = {} \/ \E idx \in idxFile[b] : idxFile[b] = {idx}

BatchTypes ==
    /\ DOMAIN todo = Caller /\ DOMAIN pending = Caller
    /\ \A c \in Caller :
         /\ DOMAIN todo[c] \subseteq Key /\ IsFiniteSet(DOMAIN todo[c])
         /\ \A k \in DOMAIN todo[c] : todo[c][k] \in Payload
         /\ DOMAIN pending[c] = Bucket
         /\ \A b \in Bucket : /\ DOMAIN pending[c][b] \subseteq {k \in Key : BucketOf[k] = b}
                              /\ Group(c, b) # {} => DOMAIN pending[c][b] = {}

\* What a batch has still to index is a record of its own that nobody else
\* lists, hides or has still to index.
PendingSound ==
    \A b \in Bucket, c \in Caller : \A k \in DOMAIN pending[c][b] :
       /\ pending[c][b][k] \in Offsets(b)
       /\ file[b][pending[c][b][k]].key = k
       /\ ~ListedIn(index[b], pending[c][b][k])
       /\ pending[c][b][k] \notin hidden[b]
       /\ \A d \in Caller \ {c} : ~OwedBy(d, b, pending[c][b][k])

\* Nothing is under way in a process that is down or starting, and every bucket
\* is loaded once the store is open.
Phases ==
    /\ ~Running => \A c \in Caller : todo[c] = << >> /\ \A b \in Bucket : pending[c][b] = << >>
    /\ Running => \A b \in Bucket : state[b] # "off"

\* Every record of a loaded bucket has its place, and a hidden one no other.
Placed ==
    \A b \in Bucket : state[b] # "off" =>
       \A n \in Offsets(b) :
          /\ ListedIn(index[b], n) \/ (\E c \in Caller : OwedBy(c, b, n)) \/ n \in hidden[b]
          /\ ~(ListedIn(index[b], n) /\ n \in hidden[b])

StoreInv == FilesTyped /\ IndexesSound /\ BatchTypes /\ PendingSound /\ Phases /\ Placed

-------------------------------------------------------------------------------
(***************************************************************************)
(* Induction over the naturals, for a set.                                 *)
(***************************************************************************)
LEMMA NatSetInduction ==
    ASSUME NEW S, 0 \in S, \A n \in Nat : n \in S => n + 1 \in S
    PROVE  Nat \subseteq S
<1> DEFINE T == Nat \ S
<1>1. SUFFICES ASSUME T # {} PROVE FALSE
  OBVIOUS
<1>2. PICK t \in T : \A u \in T : ~(<<u, t>> \in OpToRel(<, Nat))
  BY <1>1, NatLessThanWellFounded, WFMin
<1>3. t \in Nat /\ t - 1 \in Nat /\ t - 1 < t
  OBVIOUS
<1>4. t - 1 \notin T
  BY <1>2, <1>3 DEF OpToRel
<1> QED
  BY <1>3, <1>4

-------------------------------------------------------------------------------
(***************************************************************************)
(* AddOffsets.                                                             *)
(***************************************************************************)

\* The list of a key after AddOffsets: its offset, if it has one, at the end.
LEMMA AddedList ==
    ASSUME NEW idx, NEW off, NEW S,
           \A k \in DOMAIN idx : idx[k] \in Seq(S), \A k \in DOMAIN off : off[k] \in S,
           NEW k \in DOMAIN AddOffsets(idx, off)
    PROVE  LET s == IF k \in DOMAIN idx THEN idx[k] ELSE << >>
               t == AddOffsets(idx, off)[k]
           IN  /\ s \in Seq(S) /\ t \in Seq(S)
               /\ k \in DOMAIN off => Len(t) = Len(s) + 1 /\ t[Len(s) + 1] = off[k]
               /\ k \notin DOMAIN off => t = s
               /\ Len(s) <= Len(t)
               /\ \A i \in 1 .. Len(s) : t[i] = s[i]
<1> DEFINE s == IF k \in DOMAIN idx THEN idx[k] ELSE << >>
           t == AddOffsets(idx, off)[k]
<1>1. s \in Seq(S)
  OBVIOUS
<1>2. k \in DOMAIN idx \cup DOMAIN off
  BY DEF AddOffsets
<1>3. CASE k \in DOMAIN off
  <2>1. t = s \o <<off[k]>>
    BY <1>2, <1>3 DEF AddOffsets
  <2>2. off[k] \in S
    BY <1>3
  <2> HIDE DEF s, t
  <2>3. <<off[k]>> \in Seq(S) /\ Len(<<off[k]>>) = 1
    BY <2>2
  <2> QED
    BY <1>1, <1>3, <2>1, <2>3 DEF s, t
<1>4. CASE k \notin DOMAIN off
  <2>1. t = s \o << >>
    BY <1>2, <1>4 DEF AddOffsets
  <2> HIDE DEF s, t
  <2>2. t = s
    BY <1>1, <2>1
  <2> QED
    BY <1>1, <1>4, <2>2 DEF s, t
<1> QED
  BY <1>3, <1>4

\* An index stays sound when the file grows at its end.
LEMMA SoundInLongerFile ==
    ASSUME NEW idx, NEW b, NEW recs \in Seq(Record), NEW more \in Seq(Record),
           Len(recs) <= Len(more), \A n \in 1 .. Len(recs) : more[n] = recs[n],
           Sound(idx, b, recs)
    PROVE  Sound(idx, b, more)
BY DEF Sound

\* The offsets off are of records of the file, under their keys, that idx does
\* not list.
Addable(off, idx, b, recs) ==
    /\ DOMAIN off \subseteq {k \in Key : BucketOf[k] = b}
    /\ \A k \in DOMAIN off : /\ off[k] \in 1 .. Len(recs) /\ recs[off[k]].key = k
                             /\ ~ListedIn(idx, off[k])

\* An index stays sound when such offsets are added, and it lists what it listed
\* and these.
LEMMA AddSound ==
    ASSUME NEW idx, NEW off, NEW b, NEW recs, Sound(idx, b, recs),
           Len(recs) \in Nat, Addable(off, idx, b, recs)
    PROVE  /\ Sound(AddOffsets(idx, off), b, recs)
           /\ \A n : ListedIn(AddOffsets(idx, off), n) <=>
                        ListedIn(idx, n) \/ \E k \in DOMAIN off : off[k] = n
<1> DEFINE new == AddOffsets(idx, off)
           S == Nat \ {0}
           s(k) == IF k \in DOMAIN idx THEN idx[k] ELSE << >>
<1>1. DOMAIN new = DOMAIN idx \cup DOMAIN off
  BY DEF AddOffsets
<1>2. /\ \A k \in DOMAIN idx : idx[k] \in Seq(S)
      /\ \A k \in DOMAIN off : off[k] \in S
  BY DEF Sound, IsIndex, Addable
<1>3. ASSUME NEW k \in DOMAIN new
      PROVE  /\ s(k) \in Seq(S) /\ new[k] \in Seq(S)
             /\ k \in DOMAIN off => Len(new[k]) = Len(s(k)) + 1 /\ new[k][Len(s(k)) + 1] = off[k]
             /\ k \notin DOMAIN off => new[k] = s(k)
             /\ Len(s(k)) <= Len(new[k])
             /\ \A i \in 1 .. Len(s(k)) : new[k][i] = s(k)[i]
  <2> HIDE DEF S
  <2> QED
    BY <1>2, AddedList
<1> HIDE DEF new
<1>4. ASSUME NEW k \in DOMAIN new, NEW i \in 1 .. Len(s(k))
      PROVE  /\ new[k][i] = s(k)[i] /\ k \in DOMAIN idx
             /\ i \in DOMAIN idx[k] /\ s(k)[i] = idx[k][i]
  <2>1. k \in DOMAIN idx
    OBVIOUS
  <2> QED
    BY <1>2, <1>3, <2>1
<1>5. ASSUME NEW k \in DOMAIN new, NEW i \in DOMAIN new[k]
      PROVE  \/ i \in 1 .. Len(s(k))
             \/ k \in DOMAIN off /\ i = Len(s(k)) + 1 /\ new[k][i] = off[k]
  <2>1. i \in 1 .. Len(new[k]) /\ Len(s(k)) \in Nat
    BY <1>3
  <2> QED
    BY <1>3, <2>1
<1>6. \A n : ListedIn(new, n) <=> ListedIn(idx, n) \/ \E k \in DOMAIN off : off[k] = n
  <2>1. ASSUME NEW n, ListedIn(new, n)
        PROVE  ListedIn(idx, n) \/ \E k \in DOMAIN off : off[k] = n
    BY <1>4, <1>5, <2>1 DEF ListedIn
  <2>2. ASSUME NEW n, ListedIn(idx, n)
        PROVE  ListedIn(new, n)
    <3>1. PICK k \in DOMAIN idx : \E i \in DOMAIN idx[k] : idx[k][i] = n
      BY <2>2 DEF ListedIn
    <3> PICK i \in DOMAIN idx[k] : idx[k][i] = n
      BY <3>1
    <3>2. k \in DOMAIN new /\ i \in 1 .. Len(s(k)) /\ s(k) = idx[k]
      BY <1>1, <1>2, <3>1
    <3>3. i \in DOMAIN new[k] /\ new[k][i] = n
      BY <1>3, <3>1, <3>2
    <3> QED
      BY <3>2, <3>3 DEF ListedIn
  <2>3. ASSUME NEW n, NEW k \in DOMAIN off, off[k] = n
        PROVE  ListedIn(new, n)
    <3>1. k \in DOMAIN new
      BY <1>1
    <3>2. Len(s(k)) + 1 \in DOMAIN new[k] /\ new[k][Len(s(k)) + 1] = n
      BY <1>3, <2>3, <3>1
    <3> QED
      BY <3>1, <3>2 DEF ListedIn
  <2> QED
    BY <2>1, <2>2, <2>3
<1>7. IsIndex(new, b)
  BY <1>1, <1>3 DEF IsIndex, Sound, Addable
<1>8. ASSUME NEW k \in DOMAIN new
      PROVE  /\ new[k] # << >>
             /\ \A i \in DOMAIN new[k] : new[k][i] \in 1 .. Len(recs) /\ recs[new[k][i]].key = k
  <2>1. new[k] # << >>
    <3>1. CASE k \in DOMAIN off
      BY <1>3, <3>1
    <3>2. CASE k \notin DOMAIN off
      BY <1>1, <1>3, <3>2 DEF Sound
    <3> QED
      BY <3>1, <3>2
  <2>2. ASSUME NEW i \in DOMAIN new[k]
        PROVE  new[k][i] \in 1 .. Len(recs) /\ recs[new[k][i]].key = k
    <3>1. CASE i \in 1 .. Len(s(k))
      BY <1>4, <3>1 DEF Sound
    <3>2. CASE k \in DOMAIN off /\ new[k][i] = off[k]
      BY <3>2 DEF Addable
    <3> QED
      BY <1>5, <3>1, <3>2
  <2> QED
    BY <2>1, <2>2
<1>9. ASSUME NEW k \in DOMAIN new PROVE IsInjective(new[k])
  <2>1. ASSUME NEW i \in DOMAIN new[k], NEW j \in DOMAIN new[k], new[k][i] = new[k][j]
        PROVE  i = j
    <3>1. CASE i \in 1 .. Len(s(k)) /\ j \in 1 .. Len(s(k))
      BY <1>4, <2>1, <3>1 DEF Sound, IsInjective
    <3>2. ASSUME NEW x \in 1 .. Len(s(k)), k \in DOMAIN off, new[k][x] = off[k]
          PROVE  FALSE
      BY <1>4, <3>2 DEF ListedIn, Addable
    <3> QED
      BY <1>5, <2>1, <3>1, <3>2
  <2> QED
    BY <2>1 DEF IsInjective
<1> QED
  BY <1>6, <1>7, <1>8, <1>9 DEF Sound, new

-------------------------------------------------------------------------------
(***************************************************************************)
(* rebuildIndex.                                                           *)
(***************************************************************************)

\* The recursive function of Scan exists: the loop is defined for every file.
LEMMA ScanDefined ==
    ASSUME NEW recs, Len(recs) \in Nat
    PROVE  /\ Scan(recs)[0] = << >>
           /\ \A n \in 1 .. Len(recs) :
                Scan(recs)[n] = AddOffsets(Scan(recs)[n - 1], [k \in {recs[n].key} |-> n])
<1> DEFINE D(g, n) == IF n = 0 THEN << >>
                      ELSE AddOffsets(g[n - 1], [k \in {recs[n].key} |-> n])
           S == {n \in Nat : \E g : g = [m \in 0 .. n |-> D(g, m)]}
<1>1. 0 \in S
  <2> DEFINE g == [m \in 0 .. 0 |-> << >>]
  <2>1. g = [m \in 0 .. 0 |-> D(g, m)]
    OBVIOUS
  <2> QED
    BY <2>1
<1>2. ASSUME NEW n \in Nat, n \in S PROVE n + 1 \in S
  <2>1. PICK g : g = [m \in 0 .. n |-> D(g, m)]
    BY <1>2
  <2> DEFINE h == [m \in 0 .. n + 1 |-> IF m = n + 1 THEN D(g, m) ELSE g[m]]
  <2>2. ASSUME NEW m \in 0 .. n + 1 PROVE h[m] = D(h, m)
    <3>1. CASE m = 0
      BY <2>1, <3>1
    <3>2. CASE m # 0
      <4>1. m - 1 \in 0 .. n /\ m - 1 \in 0 .. n + 1 /\ m - 1 # n + 1
        BY <3>2
      <4>2. h[m - 1] = g[m - 1]
        BY <4>1
      <4>3. h[m] = D(g, m)
        <5>1. CASE m = n + 1
          BY <5>1
        <5>2. CASE m # n + 1
          <6>1. m \in 0 .. n
            BY <5>2
          <6> QED
            BY <2>1, <5>2, <6>1
        <5> QED
          BY <5>1, <5>2
      <4> QED
        BY <4>2, <4>3
    <3> QED
      BY <3>1, <3>2
  <2>3. h = [m \in 0 .. n + 1 |-> D(h, m)]
    BY <2>2
  <2>4. \E f : f = [m \in 0 .. n + 1 |-> D(f, m)]
    <3> HIDE DEF h, D
    <3> QED
      BY <2>3
  <2>5. n + 1 \in Nat
    OBVIOUS
  <2> HIDE DEF D
  <2> QED
    BY <2>4, <2>5
<1>3. Len(recs) \in S
  <2> HIDE DEF S
  <2> QED
    BY <1>1, <1>2, NatSetInduction
<1>4. Scan(recs) = CHOOSE g : g = [m \in 0 .. Len(recs) |-> D(g, m)]
  BY DEF Scan
<1>5. Scan(recs) = [m \in 0 .. Len(recs) |-> D(Scan(recs), m)]
  BY <1>3, <1>4
<1>6. ASSUME NEW n \in 0 .. Len(recs) PROVE Scan(recs)[n] = D(Scan(recs), n)
  BY <1>5
<1>7. Scan(recs)[0] = << >>
  <2>1. 0 \in 0 .. Len(recs)
    OBVIOUS
  <2> QED
    BY <1>6, <2>1
<1>8. ASSUME NEW n \in 1 .. Len(recs)
      PROVE  Scan(recs)[n] = AddOffsets(Scan(recs)[n - 1], [k \in {recs[n].key} |-> n])
  <2>1. n \in 0 .. Len(recs) /\ n # 0
    OBVIOUS
  <2> QED
    BY <1>6, <2>1
<1> QED
  BY <1>7, <1>8

\* After n steps of the loop the index is sound and lists the first n records.
LEMMA ScanSound ==
    ASSUME NEW b \in Bucket, NEW recs \in Seq(Record),
           \A n \in 1 .. Len(recs) : BucketOf[recs[n].key] = b,
           NEW n \in 0 .. Len(recs)
    PROVE  /\ Sound(Scan(recs)[n], b, recs)
           /\ \A m \in 1 .. Len(recs) : ListedIn(Scan(recs)[n], m) <=> m <= n
<1> DEFINE G(i) == /\ Sound(Scan(recs)[i], b, recs)
                   /\ \A m \in 1 .. Len(recs) : ListedIn(Scan(recs)[i], m) <=> m <= i
           S == {i \in Nat : i <= Len(recs) => G(i)}
<1>1. G(0)
  <2>1. Scan(recs)[0] = << >>
    BY ScanDefined
  <2> QED
    BY <2>1 DEF Sound, IsIndex, ListedIn
<1>2. ASSUME NEW i \in Nat, i \in S PROVE i + 1 \in S
  <2>1. SUFFICES ASSUME i + 1 <= Len(recs) PROVE G(i + 1)
    OBVIOUS
  <2>2. G(i)
    BY <1>2, <2>1
  <2> DEFINE off == [k \in {recs[i + 1].key} |-> i + 1]
             idx == Scan(recs)[i]
  <2>3. i + 1 \in 1 .. Len(recs) /\ (i + 1) - 1 = i
    BY <2>1
  <2>4. Scan(recs)[i + 1] = AddOffsets(idx, off)
    <3>1. Len(recs) \in Nat
      OBVIOUS
    <3>2. Scan(recs)[i + 1] = AddOffsets(Scan(recs)[(i + 1) - 1], off)
      BY <2>3, <3>1, ScanDefined
    <3> QED
      BY <2>3, <3>2
  <2>5. recs[i + 1].key \in Key /\ BucketOf[recs[i + 1].key] = b
    <3>1. recs[i + 1] \in Record
      BY <2>3
    <3> QED
      BY <2>3, <3>1 DEF Record
  <2>6. ~ListedIn(idx, i + 1)
    BY <2>2, <2>3
  <2>7. /\ Addable(off, idx, b, recs)
        /\ \A m : (\E k \in DOMAIN off : off[k] = m) <=> m = i + 1
    BY <2>3, <2>5, <2>6 DEF Addable
  <2>8. Len(recs) \in Nat /\ Sound(idx, b, recs)
    BY <2>2
  <2>9. /\ Sound(AddOffsets(idx, off), b, recs)
        /\ \A m : ListedIn(AddOffsets(idx, off), m) <=> ListedIn(idx, m) \/ m = i + 1
    <3> HIDE DEF off, idx
    <3>1. /\ Sound(AddOffsets(idx, off), b, recs)
          /\ \A m : ListedIn(AddOffsets(idx, off), m) <=>
                       ListedIn(idx, m) \/ \E k \in DOMAIN off : off[k] = m
      BY <2>7, <2>8, AddSound
    <3> QED
      BY <2>7, <3>1
  <2>10. ASSUME NEW m \in 1 .. Len(recs) PROVE ListedIn(Scan(recs)[i + 1], m) <=> m <= i + 1
    BY <2>2, <2>4, <2>9
  <2> QED
    BY <2>4, <2>9, <2>10
<1>3. 0 \in S
  BY <1>1
<1>4. n \in S
  <2> HIDE DEF S
  <2> QED
    BY <1>2, <1>3, NatSetInduction
<1> QED
  BY <1>4

-------------------------------------------------------------------------------
(***************************************************************************)
(* The invariant holds initially, and every action preserves it.           *)
(***************************************************************************)
LEMMA InitStore == Init => StoreInv
<1> SUFFICES ASSUME Init PROVE StoreInv
  OBVIOUS
<1> USE DEF Init
<1>1. FilesTyped
  BY DEF FilesTyped, Offsets
<1>2. IndexesSound
  BY DEF IndexesSound, Sound, IsIndex
<1>3. BatchTypes
  BY FS_EmptySet DEF BatchTypes, Group
<1>4. PendingSound /\ Phases /\ Placed
  BY DEF PendingSound, Phases, Placed, Running
<1> QED
  BY <1>1, <1>2, <1>3, <1>4 DEF StoreInv

LEMMA StartKeeps == ASSUME StoreInv, Start PROVE StoreInv'
<1> USE DEF StoreInv, Start
<1>1. FilesTyped'
  BY DEF FilesTyped, Offsets
<1>2. IndexesSound'
  BY DEF IndexesSound
<1>3. BatchTypes'
  BY DEF BatchTypes, Group
<1>4. PendingSound' /\ Placed'
  BY DEF PendingSound, Placed, Offsets, OwedBy
<1>5. Phases'
  BY DEF Phases, Running
<1> QED
  BY <1>1, <1>2, <1>3, <1>4, <1>5

\* ListedIn is membership in the union of the lists.
LEMMA ListedInUnion ==
    ASSUME NEW idx, NEW n
    PROVE  ListedIn(idx, n) <=> n \in UNION {Range(idx[k]) : k \in DOMAIN idx}
BY DEF ListedIn, Range

\* What opening a bucket leaves to show of the index it installs.
LEMMA OpenedKeeps ==
    ASSUME StoreInv, NEW b \in Bucket, Opened(b),
           NEW idx, Sound(idx, b, file[b]), index' = [index EXCEPT ![b] = idx],
           NEW hide \in SUBSET Offsets(b), hidden' = [hidden EXCEPT ![b] = hide],
           \A n \in Offsets(b) : (n \in hide) <=> ~ListedIn(idx, n),
           \/ UNCHANGED idxFile
           \/ idxFile' = [idxFile EXCEPT ![b] = {idx}]
    PROVE  StoreInv'
<1> USE DEF StoreInv, Opened
<1>1. FilesTyped'
  <2>1. state' \in [Bucket -> {"off", "open", "saving", "saved", "closed"}]
    BY DEF FilesTyped
  <2>2. phase' \in {"down", "starting", "open", "closing"}
    BY DEF FilesTyped
  <2>3. \A a \in Bucket : hidden'[a] = IF a = b THEN hide ELSE hidden[a]
    BY DEF FilesTyped
  <2>4. \A a \in Bucket : hidden'[a] \subseteq Offsets(a)
    BY <2>3 DEF FilesTyped
  <2>5. hidden' \in [Bucket -> SUBSET Nat]
    <3>1. \A a \in Bucket : Offsets(a) \subseteq Nat
      BY DEF FilesTyped, Offsets
    <3>2. hide \in SUBSET Nat
      BY <3>1
    <3> QED
      BY <3>2 DEF FilesTyped
  <2> QED
    BY <2>1, <2>2, <2>4, <2>5 DEF FilesTyped, Offsets
<1>2. IndexesSound'
  BY DEF IndexesSound
<1>3. ~Running /\ \A c \in Caller : todo[c] = << >> /\ \A a \in Bucket : pending[c][a] = << >>
  BY DEF Running, Phases
<1>4. BatchTypes'
  BY DEF BatchTypes, Group
<1>5. PendingSound'
  BY <1>3 DEF PendingSound, BatchTypes
<1>6. Phases'
  BY <1>3 DEF Phases, Running, FilesTyped
<1>7. Placed'
  <2>1. ASSUME NEW a \in Bucket, state'[a] # "off", NEW n \in Offsets(a)'
        PROVE  /\ ListedIn(index'[a], n) \/ (\E c \in Caller : OwedBy(c, a, n)') \/ n \in hidden'[a]
               /\ ~(ListedIn(index'[a], n) /\ n \in hidden'[a])
    <3>1. n \in Offsets(a) /\ \A c \in Caller : OwedBy(c, a, n)' <=> OwedBy(c, a, n)
      BY <2>1 DEF Offsets, OwedBy
    <3>2. CASE a = b
      BY <3>1, <3>2 DEF IndexesSound, FilesTyped
    <3>3. CASE a # b
      <4>1. index'[a] = index[a] /\ hidden'[a] = hidden[a] /\ state'[a] = state[a]
        BY <3>3 DEF IndexesSound, FilesTyped
      <4> QED
        BY <2>1, <3>1, <4>1 DEF Placed
    <3> QED
      BY <3>2, <3>3
  <2> QED
    BY <2>1 DEF Placed
<1> QED
  BY <1>1, <1>2, <1>4, <1>5, <1>6, <1>7

LEMMA LoadIndexKeeps == ASSUME StoreInv, NEW b \in Bucket, LoadIndex(b) PROVE StoreInv'
<1>1. PICK idx \in idxFile[b] :
        /\ index' = [index EXCEPT ![b] = idx]
        /\ hidden' = [hidden EXCEPT ![b] =
                        Offsets(b) \ UNION {Range(idx[k]) : k \in DOMAIN idx}]
  BY DEF LoadIndex
<1> DEFINE hide == Offsets(b) \ UNION {Range(idx[k]) : k \in DOMAIN idx}
<1>2. Sound(idx, b, file[b])
  BY DEF StoreInv, IndexesSound
<1>3. \A n \in Offsets(b) : (n \in hide) <=> ~ListedIn(idx, n)
  BY ListedInUnion
<1>4. hide \in SUBSET Offsets(b) /\ hidden' = [hidden EXCEPT ![b] = hide]
  BY <1>1
<1>5. Opened(b) /\ UNCHANGED idxFile
  BY DEF LoadIndex
<1> HIDE DEF hide
<1> QED
  BY <1>1, <1>2, <1>3, <1>4, <1>5, OpenedKeeps

LEMMA RebuildIndexKeeps == ASSUME StoreInv, NEW b \in Bucket, RebuildIndex(b) PROVE StoreInv'
<1>1. file[b] \in Seq(Record) /\ \A n \in 1 .. Len(file[b]) : BucketOf[file[b][n].key] = b
  BY DEF StoreInv, FilesTyped, Offsets
<1>2. Len(file[b]) \in 0 .. Len(file[b]) /\ Len(file[b]) \in Nat
  BY <1>1
<1>3. /\ Sound(Rebuilt(b), b, file[b])
      /\ \A n \in 1 .. Len(file[b]) : ListedIn(Rebuilt(b), n) <=> n <= Len(file[b])
  BY <1>1, <1>2, ScanSound DEF Rebuilt
<1>4. \A n \in Offsets(b) : (n \in {}) <=> ~ListedIn(Rebuilt(b), n)
  BY <1>2, <1>3 DEF Offsets
<1>5. {} \in SUBSET Offsets(b)
  OBVIOUS
<1> QED
  BY <1>3, <1>4, <1>5, OpenedKeeps DEF RebuildIndex

\* The index of a bucket whose file ends before offset n does not list n.
LEMMA BeyondUnlisted ==
    ASSUME NEW idx, NEW b, NEW recs, Sound(idx, b, recs), Len(recs) \in Nat,
           NEW n \in Nat, n > Len(recs)
    PROVE  ~ListedIn(idx, n)
BY DEF ListedIn, Sound

\* A record at the end of a file that is listed under its key.
LEMMA AppendRecordKeeps ==
    ASSUME StoreInv, NEW k \in Key, NEW p \in Payload, AppendRecord(k, p)
    PROVE  StoreInv'
<1> DEFINE b == BucketOf[k]
           r == [key |-> k, payload |-> p]
           n == Len(file[b]) + 1
           off == [x \in {k} |-> n]
<1> USE DEF StoreInv
<1>1. /\ b \in Bucket /\ r \in Record /\ file[b] \in Seq(Record)
      /\ Len(file[b]) \in Nat /\ n \in Nat
  <2>1. b \in Bucket /\ r \in Record
    BY BucketAssumption DEF Record
  <2>2. file[b] \in Seq(Record)
    BY <2>1 DEF FilesTyped
  <2> QED
    BY <2>1, <2>2
<1>2. /\ file' = [file EXCEPT ![b] = Append(@, r)]
      /\ index' = [index EXCEPT ![b] = AddOffsets(@, off)]
      /\ UNCHANGED <<idxFile, state, phase, todo, pending, hidden>>
  BY DEF AppendRecord
<1> HIDE DEF b, r, off
<1>3. /\ file'[b] \in Seq(Record) /\ Len(file'[b]) = n /\ file'[b][n] = r
      /\ \A m \in 1 .. Len(file[b]) : file'[b][m] = file[b][m]
      /\ \A a \in Bucket \ {b} : file'[a] = file[a]
  BY <1>1, <1>2 DEF FilesTyped
<1>4. /\ index'[b] = AddOffsets(index[b], off) /\ DOMAIN index' = Bucket
      /\ \A a \in Bucket \ {b} : index'[a] = index[a]
  BY <1>1, <1>2 DEF IndexesSound
<1>5. Offsets(b)' = Offsets(b) \cup {n} /\ \A a \in Bucket \ {b} : Offsets(a)' = Offsets(a)
  BY <1>1, <1>3 DEF Offsets
<1>6. FilesTyped'
  <2>1. file' \in [Bucket -> Seq(Record)]
    BY <1>1, <1>2, <1>3 DEF FilesTyped
  <2>2. ASSUME NEW a \in Bucket, NEW m \in Offsets(a)' PROVE BucketOf[file'[a][m].key] = a
    <3>1. CASE a = b /\ m = n
      BY <1>3, <3>1 DEF b, r
    <3>2. CASE ~(a = b /\ m = n)
      <4>1. m \in Offsets(a) /\ file'[a][m] = file[a][m]
        BY <1>1, <1>3, <1>5, <3>2 DEF Offsets
      <4> QED
        BY <4>1 DEF FilesTyped
    <3> QED
      BY <3>1, <3>2
  <2>3. \A a \in Bucket : hidden'[a] \subseteq Offsets(a)'
    BY <1>2, <1>5 DEF FilesTyped
  <2> QED
    BY <1>2, <2>1, <2>2, <2>3 DEF FilesTyped
<1>7. ASSUME NEW idx, Sound(idx, b, file[b]) PROVE Sound(idx, b, file'[b])
  <2>1. Len(file[b]) <= Len(file'[b])
    BY <1>1, <1>3
  <2> QED
    BY <1>1, <1>3, <1>7, <2>1, SoundInLongerFile
<1>8. Sound(index[b], b, file'[b]) /\ ~ListedIn(index[b], n)
  <2>1. Sound(index[b], b, file[b]) /\ n > Len(file[b])
    BY <1>1 DEF IndexesSound
  <2> QED
    BY <1>1, <1>7, <2>1, BeyondUnlisted
<1>9. Addable(off, index[b], b, file'[b])
  <2>1. DOMAIN off = {k} /\ off[k] = n
    BY DEF off
  <2>2. n \in 1 .. Len(file'[b]) /\ file'[b][n].key = k
    BY <1>1, <1>3 DEF r
  <2> QED
    BY <1>8, <2>1, <2>2 DEF Addable, b
<1>10. /\ Sound(index'[b], b, file'[b])
       /\ \A m : ListedIn(index'[b], m) <=> ListedIn(index[b], m) \/ m = n
  <2>1. Len(file'[b]) \in Nat
    BY <1>1, <1>3
  <2>2. /\ Sound(AddOffsets(index[b], off), b, file'[b])
        /\ \A m : ListedIn(AddOffsets(index[b], off), m) <=>
                    ListedIn(index[b], m) \/ \E x \in DOMAIN off : off[x] = m
    BY <1>8, <1>9, <2>1, AddSound
  <2>3. \A m : (\E x \in DOMAIN off : off[x] = m) <=> m = n
    BY DEF off
  <2> QED
    BY <1>4, <2>2, <2>3
<1>11. IndexesSound'
  <2>1. ASSUME NEW a \in Bucket
        PROVE  Sound(index'[a], a, file'[a]) /\ \A idx \in idxFile'[a] : Sound(idx, a, file'[a])
    <3>1. CASE a = b
      BY <1>2, <1>7, <1>10, <3>1 DEF IndexesSound
    <3>2. CASE a # b
      BY <1>2, <1>3, <1>4, <3>2 DEF IndexesSound
    <3> QED
      BY <3>1, <3>2
  <2> QED
    BY <1>2, <1>4, <2>1 DEF IndexesSound
<1>12. BatchTypes'
  BY <1>2 DEF BatchTypes, Group
<1>13. PendingSound'
  <2>1. ASSUME NEW a \in Bucket, NEW c \in Caller, NEW x \in DOMAIN pending[c][a]
        PROVE  /\ pending[c][a][x] \in Offsets(a)'
               /\ file'[a][pending[c][a][x]].key = x
               /\ ~ListedIn(index'[a], pending[c][a][x])
    <3>1. /\ pending[c][a][x] \in Offsets(a) /\ file[a][pending[c][a][x]].key = x
          /\ ~ListedIn(index[a], pending[c][a][x])
      BY DEF PendingSound
    <3>2. CASE a = b
      <4>1. pending[c][a][x] # n /\ pending[c][a][x] \in 1 .. Len(file[b])
        BY <1>1, <3>1, <3>2 DEF Offsets
      <4> QED
        BY <1>3, <1>5, <1>10, <3>1, <3>2, <4>1
    <3>3. CASE a # b
      BY <1>3, <1>4, <1>5, <3>1, <3>3
    <3> QED
      BY <3>2, <3>3
  <2>2. UNCHANGED <<pending, hidden>>
    BY <1>2
  <2> QED
    BY <2>1, <2>2 DEF PendingSound, OwedBy
<1>14. Phases'
  BY <1>2 DEF Phases, Running
<1>15. Placed'
  <2>1. ASSUME NEW a \in Bucket, state'[a] # "off", NEW m \in Offsets(a)'
        PROVE  /\ ListedIn(index'[a], m) \/ (\E c \in Caller : OwedBy(c, a, m)') \/ m \in hidden'[a]
               /\ ~(ListedIn(index'[a], m) /\ m \in hidden'[a])
    <3>1. state[a] # "off" /\ hidden'[a] = hidden[a] /\ \A c \in Caller : OwedBy(c, a, m)' <=> OwedBy(c, a, m)
      BY <1>2, <2>1 DEF OwedBy
    <3>2. CASE a = b /\ m = n
      <4>1. m \notin hidden[a]
        BY <1>1, <3>2 DEF FilesTyped, Offsets
      <4> QED
        BY <1>10, <3>1, <3>2, <4>1
    <3>3. CASE ~(a = b /\ m = n)
      <4>1. m \in Offsets(a) /\ (ListedIn(index'[a], m) <=> ListedIn(index[a], m))
        BY <1>4, <1>5, <1>10, <3>3
      <4> QED
        BY <3>1, <4>1 DEF Placed
    <3> QED
      BY <3>2, <3>3
  <2> QED
    BY <2>1 DEF Placed
<1> QED
  BY <1>6, <1>11, <1>12, <1>13, <1>14, <1>15

LEMMA AppendFailsKeeps == ASSUME StoreInv, UNCHANGED vars PROVE StoreInv'
<1> USE DEF StoreInv, vars
<1>1. FilesTyped' /\ IndexesSound'
  BY DEF FilesTyped, Offsets, IndexesSound
<1>2. BatchTypes' /\ Phases'
  BY DEF BatchTypes, Group, Phases, Running
<1>3. PendingSound' /\ Placed'
  BY DEF PendingSound, Placed, Offsets, OwedBy
<1> QED
  BY <1>1, <1>2, <1>3

LEMMA BatchBeginKeeps ==
    ASSUME StoreInv, NEW c \in Caller, NEW entries, BatchBegin(c, entries),
           DOMAIN entries \subseteq Key, IsFiniteSet(DOMAIN entries),
           \A k \in DOMAIN entries : entries[k] \in Payload
    PROVE  StoreInv'
<1> USE DEF StoreInv, BatchBegin
<1>1. FilesTyped' /\ IndexesSound'
  BY DEF FilesTyped, Offsets, IndexesSound
<1>2. BatchTypes'
  <2>1. \A d \in Caller : todo'[d] = IF d = c THEN entries ELSE todo[d]
    BY DEF BatchTypes
  <2>2. \A b \in Bucket : DOMAIN pending[c][b] = {}
    BY DEF BatchIdle
  <2> QED
    BY <2>1, <2>2 DEF BatchTypes, Group
<1>3. PendingSound' /\ Placed'
  BY DEF PendingSound, Placed, Offsets, OwedBy
<1>4. Phases'
  BY DEF Phases, Running
<1> QED
  BY <1>1, <1>2, <1>3, <1>4

\* The entries of a batch that are left when those of a bucket are taken out.
LEMMA UngroupTypes ==
    ASSUME BatchTypes, NEW c \in Caller, NEW b \in Bucket, Ungroup(c, b)
    PROVE  /\ DOMAIN todo' = Caller
           /\ \A d \in Caller : /\ DOMAIN todo'[d] \subseteq DOMAIN todo[d]
                                /\ IsFiniteSet(DOMAIN todo'[d])
                                /\ \A k \in DOMAIN todo'[d] : todo'[d][k] = todo[d][k]
           /\ \A d \in Caller, a \in Bucket :
                Group(d, a)' = IF d = c /\ a = b THEN {} ELSE Group(d, a)
<1>1. /\ DOMAIN todo' = Caller
      /\ todo'[c] = [k \in DOMAIN todo[c] \ Group(c, b) |-> todo[c][k]]
      /\ \A d \in Caller \ {c} : todo'[d] = todo[d]
  BY DEF Ungroup, BatchTypes
<1>2. ASSUME NEW d \in Caller
      PROVE  /\ DOMAIN todo'[d] \subseteq DOMAIN todo[d]
             /\ \A k \in DOMAIN todo'[d] : todo'[d][k] = todo[d][k]
  BY <1>1
<1>3. ASSUME NEW d \in Caller PROVE IsFiniteSet(DOMAIN todo'[d])
  BY <1>2, FS_Subset DEF BatchTypes
<1>4. \A d \in Caller, a \in Bucket :
         Group(d, a)' = IF d = c /\ a = b THEN {} ELSE Group(d, a)
  BY <1>1 DEF Group
<1> QED
  BY <1>1, <1>2, <1>3, <1>4

LEMMA BatchWriteFailsKeeps ==
    ASSUME StoreInv, NEW c \in Caller, NEW b \in Bucket, BatchWriteFails(c, b)
    PROVE  StoreInv'
<1> USE DEF StoreInv
<1>0. Running /\ Ungroup(c, b) /\ UNCHANGED <<file, index, idxFile, state, phase, pending, hidden>>
  BY DEF BatchWriteFails
<1>1. FilesTyped'
  BY <1>0 DEF FilesTyped, Offsets
<1>6. IndexesSound'
  BY <1>0 DEF IndexesSound
<1>2. BatchTypes'
  <2>1. /\ DOMAIN todo' = Caller
        /\ \A d \in Caller : /\ DOMAIN todo'[d] \subseteq Key /\ IsFiniteSet(DOMAIN todo'[d])
                             /\ \A k \in DOMAIN todo'[d] : todo'[d][k] \in Payload
    BY <1>0, UngroupTypes DEF BatchTypes
  <2>2. \A d \in Caller, a \in Bucket : Group(d, a)' # {} => Group(d, a) # {}
    BY <1>0, UngroupTypes
  <2> QED
    BY <1>0, <2>1, <2>2 DEF BatchTypes
<1>3. PendingSound'
  BY <1>0 DEF PendingSound, Offsets, OwedBy
<1>4. Placed'
  BY <1>0 DEF Placed, Offsets, OwedBy
<1>5. Phases'
  BY <1>0 DEF Phases, Running
<1> QED
  BY <1>1, <1>2, <1>3, <1>4, <1>5, <1>6

\* The records of a batch for one bucket, in the order they are written.
LEMMA GroupOrder ==
    ASSUME BatchTypes, NEW c \in Caller, NEW b \in Bucket, 
           NEW order \in Bijection(1 .. Cardinality(Group(c, b)), Group(c, b))
    PROVE  LET n == Cardinality(Group(c, b))
               new == [i \in DOMAIN order |->
                         [key |-> order[i], payload |-> todo[c][order[i]]]]
           IN  /\ n \in Nat /\ new \in Seq(Record) /\ Len(new) = n
               /\ \A i \in 1 .. n : order[i] \in Group(c, b) /\ new[i].key = order[i]
               /\ \A k \in Group(c, b) : \E i \in 1 .. n : order[i] = k
               /\ \A i, j \in 1 .. n : order[i] = order[j] => i = j
               /\ DOMAIN order = 1 .. n
<1> DEFINE n == Cardinality(Group(c, b))
           new == [i \in DOMAIN order |->
                     [key |-> order[i], payload |-> todo[c][order[i]]]]
<1>1. n \in Nat
  <2>1. Group(c, b) \in SUBSET DOMAIN todo[c] /\ IsFiniteSet(DOMAIN todo[c])
    BY DEF Group, BatchTypes
  <2> QED
    BY <2>1, FS_Subset, FS_CardinalityType
<1>2. /\ DOMAIN order = 1 .. n
      /\ \A i \in 1 .. n : order[i] \in Group(c, b)
      /\ \A k \in Group(c, b) : \E i \in 1 .. n : order[i] = k
      /\ \A i, j \in 1 .. n : order[i] = order[j] => i = j
  BY DEF Bijection, Injection, Surjection, IsInjective
<1>3. ASSUME NEW i \in 1 .. n PROVE new[i] \in Record /\ new[i].key = order[i]
  BY <1>2 DEF BatchTypes, Group, Record
<1>4. new \in Seq(Record) /\ Len(new) = n
  <2>1. new \in [1 .. n -> Record]
    BY <1>2, <1>3
  <2> HIDE DEF n, new
  <2> QED
    BY <1>1, <2>1
<1> QED
  BY <1>1, <1>2, <1>3, <1>4

===============================================================================
