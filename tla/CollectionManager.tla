------------------------- MODULE CollectionManager -------------------------
(***************************************************************************)
(* Creating and deleting collections while blocks are appended to them:    *)
(* the catalog of collection.go (a map under cm.mu and one directory per   *)
(* collection), DeleteCollection and AppendBlock of vector_manager.go,     *)
(* which keep a *Collection across their steps, and the bucket store they  *)
(* share, reached under the storage key "collection:key".                  *)
(*                                                                         *)
(* A collection object is a number, given by CreateCollection.  A block is *)
(* its object, key and index.  cm.mu is a variable only where it is held   *)
(* over more than one step.  What a restart makes of blocks is the subject *)
(* of VectorManager: here blocks are appended before the first restart.    *)
(***************************************************************************)
EXTENDS Naturals, Sequences, FiniteSets, Functions

CONSTANTS Name, Key,   \* strings: sequences of characters
          Handler,     \* goroutines that serve requests
          MaxObjects,  \* bound: calls of CreateCollection that succeed
          MaxAppends,  \* bound: calls of AppendBlock
          MaxRestarts, \* bound: ends of the process
          Free         \* cm.mu is not held

ASSUME NameAssumption ==
         /\ Name \subseteq Seq(STRING) /\ Key \subseteq Seq(STRING)
         /\ {MaxObjects, MaxAppends, MaxRestarts} \subseteq Nat
         /\ Free \notin Handler

VARIABLES live,     \* cm.collections: the object of each name, 0 if none
          objects,  \* objects created so far
          len,      \* KeyLengths of each object
          records,  \* what the bucket store lists for each storage key
          dir,      \* directory of each name: which object wrote each file
          cmMu,     \* holder of cm.mu
          op,       \* the request of each handler
          acked,    \* auxiliary: blocks whose append succeeded
          proc,     \* the process: runs, shuts down after cm.Close, or is down
          appends,  \* auxiliary: calls of AppendBlock so far
          restarts, \* auxiliary: ends of the process so far
          overlap,  \* auxiliary: names deleted while being appended to
          racy,     \* auxiliary: arrays <<object, key>> with a failed append
                    \* or appends that overlap
          broken    \* auxiliary: names whose removal a crash interrupted

vars == <<live, objects, len, records, dir, cmMu, op, acked, proc, appends,
          restarts, overlap, racy, broken>>

blocks == <<len, records, acked>>
catalog == <<live, objects, cmMu>>
world == <<proc, restarts, broken>>

makeStorageKey(n, k) == n \o <<":">> \o k

(* So it is if no name contains ':', which the code does not check.        *)
ASSUME StorageKeysDistinct ==
         \A n, m \in Name : \A k, l \in Key :
            makeStorageKey(n, k) = makeStorageKey(m, l) => n = m /\ k = l

StorageKey == {makeStorageKey(n, k) : n \in Name, k \in Key}

(* A directory: meta.json, vectors.hnsw, and doc_map.bin with keywords.inv *)
(* are each 0 if missing, else the object they were written for.           *)
Object == 0 .. MaxObjects
Directory == [there : BOOLEAN, meta : Object, vectors : Object, docs : Object]
NoDir == [there |-> FALSE, meta |-> 0, vectors |-> 0, docs |-> 0]

Idle == [do |-> "idle"]
DeletionStep == {"list", "purge", "remove", "rmdir"}
AdditionStep == {"apply", "store", "flush"}
Deletion == [do : DeletionStep, name : Name, obj : Object, keys : SUBSET Key]
Addition == [do : AdditionStep, name : Name, obj : Object, key : Key,
             index : Nat]
Block == [obj : Object, key : Key, index : Nat]

\* The handlers that delete the collection n, and those that append to it.
Deleting(n) == {h \in Handler : op[h].do \in DeletionStep /\ op[h].name = n}
Adding(n) == {h \in Handler : op[h].do \in AdditionStep /\ op[h].name = n}

Init ==
  /\ live = [n \in Name |-> 0]
  /\ objects = 0
  /\ len = [c \in 1 .. MaxObjects |-> [k \in Key |-> 0]]
  /\ records = [s \in StorageKey |-> << >>]
  /\ dir = [n \in Name |-> NoDir]
  /\ cmMu = Free
  /\ op = [h \in Handler |-> Idle]
  /\ acked = {}
  /\ proc = "run"
  /\ appends = 0 /\ restarts = 0 /\ overlap = {}
  /\ racy = {} /\ broken = {}

Set(h, o) == op' = [op EXCEPT ![h] = o]

\* After cm.Close requests in progress go on, until the process ends.
Ready(h, pc) == /\ op[h].do = pc
                /\ proc = "run" \/ (pc # "idle" /\ proc = "closing")

----------------------------------------------------------------------------
(* meta.json names the collection a start makes of the directory.          *)
LoadCollectionMeta(n) == dir[n].meta

(* The pointer a request works with, 0 for "not found".                    *)
GetCollection(n) == live[n]

Mut_CreateCollection(h, n) ==
  /\ Ready(h, "idle") /\ cmMu = Free
  /\ live[n] = 0 /\ objects < MaxObjects
  /\ objects' = objects + 1
  /\ live' = [live EXCEPT ![n] = objects + 1]
  /\ dir' = [dir EXCEPT ![n].there = TRUE,
                        ![n].meta = IF dir[n].there THEN @ ELSE objects + 1]
  /\ UNCHANGED <<blocks, cmMu, op, world, appends, racy, overlap>>

(* CreateCollection holds cm.mu throughout.  MkdirAll accepts a directory  *)
(* that is there, and the files in it stay.  A name in use is an error.    *)
CreateCollection(h, n) ==
  /\ Ready(h, "idle") /\ cmMu = Free
  /\ live[n] = 0 /\ objects < MaxObjects
  /\ objects' = objects + 1
  /\ live' = [live EXCEPT ![n] = objects + 1]
  /\ dir' = [dir EXCEPT ![n].there = TRUE, ![n].meta = objects + 1]
  /\ UNCHANGED <<blocks, cmMu, op, world, appends, racy, overlap>>

----------------------------------------------------------------------------
(* vm.DeleteCollection.  GetCollection needs cm.mu; an unknown name has no *)
(* keys to purge.                                                          *)
DeleteCollection(h, n) ==
  /\ Ready(h, "idle") /\ cmMu = Free
  /\ Set(h, [do |-> IF GetCollection(n) = 0 THEN "remove" ELSE "list",
             name |-> n, obj |-> GetCollection(n), keys |-> {}])
  /\ overlap' = overlap \cup {x \in {n} : Adding(n) # {}}
  /\ UNCHANGED <<catalog, blocks, dir, world, appends, racy>>

(* The storage keys still to purge; without any the deletion goes on.      *)
Left(h, ks) == [op[h] EXCEPT !.do = IF ks = {} THEN "remove" ELSE "purge",
                             !.keys = ks]

Mut_ListKeys(h) ==
  /\ Ready(h, "list")
  /\ Set(h, Left(h, {k \in Key : len[op[h].obj][k] > 1}))
  /\ UNCHANGED <<catalog, blocks, dir, world, appends, racy, overlap>>

ListKeys(h) ==
  /\ Ready(h, "list")
  /\ Set(h, Left(h, {k \in Key : len[op[h].obj][k] > 0}))
  /\ UNCHANGED <<catalog, blocks, dir, world, appends, racy, overlap>>

(* Manager.DeleteKey of one storage key after the other.                   *)
Purge(h, k) ==
  /\ Ready(h, "purge") /\ k \in op[h].keys
  /\ Set(h, Left(h, op[h].keys \ {k}))
  /\ records' = [records EXCEPT ![makeStorageKey(op[h].name, k)] = << >>]
  /\ UNCHANGED <<catalog, len, acked, dir, world, appends, racy, overlap>>

(* Collection.Close of the collection that has the name.                   *)
Saved(n) == [dir[n] EXCEPT !.vectors = live[n], !.docs = live[n]]

Mut_DeleteFromMap(h) ==
  LET n == op[h].name
  IN  /\ Ready(h, "remove") /\ cmMu = Free
      /\ IF live[n] = 0 \/ live[n] # op[h].obj
         THEN Set(h, Idle) /\ UNCHANGED <<live, dir, cmMu>>
         ELSE /\ Set(h, [op[h] EXCEPT !.do = "rmdir"])
              /\ live' = [live EXCEPT ![n] = 0]
              /\ dir' = [dir EXCEPT ![n] = Saved(n)]
              /\ cmMu' = h
      /\ UNCHANGED <<objects, blocks, world, appends, racy, overlap>>

(* cm.DeleteCollection up to RemoveAll: coll.Close saves the indexes, the  *)
(* name leaves the map.  It deletes what has the name now.                 *)
DeleteFromMap(h) ==
  LET n == op[h].name
  IN  /\ Ready(h, "remove") /\ cmMu = Free
      /\ IF live[n] = 0
         THEN Set(h, Idle) /\ UNCHANGED <<live, dir, cmMu>>
         ELSE /\ Set(h, [op[h] EXCEPT !.do = "rmdir"])
              /\ live' = [live EXCEPT ![n] = 0]
              /\ dir' = [dir EXCEPT ![n] = Saved(n)]
              /\ cmMu' = h
      /\ UNCHANGED <<objects, blocks, world, appends, racy, overlap>>

Mut_RemoveAll(h) ==
  /\ Ready(h, "rmdir")
  /\ Set(h, Idle)
  /\ dir' = [dir EXCEPT ![op[h].name].meta = 0]
  /\ cmMu' = Free
  /\ UNCHANGED <<live, objects, blocks, world, appends, racy, overlap>>

RemoveAll(h) ==
  /\ Ready(h, "rmdir")
  /\ Set(h, Idle)
  /\ dir' = [dir EXCEPT ![op[h].name] = NoDir]
  /\ cmMu' = Free
  /\ UNCHANGED <<live, objects, blocks, world, appends, racy, overlap>>

----------------------------------------------------------------------------
(* vm.AppendBlock: the object is looked up once and used to the end.       *)
AppendBlock(h, n, k) ==
  /\ Ready(h, "idle") /\ cmMu = Free
  /\ restarts = 0
  /\ GetCollection(n) # 0
  /\ appends < MaxAppends /\ appends' = appends + 1
  /\ Set(h, [do |-> "apply", name |-> n,
             obj |-> GetCollection(n), key |-> k, index |-> 0])
  /\ overlap' = overlap \cup {x \in {n} : Deleting(n) # {}}
  /\ racy' = racy \cup {<<op[g].obj, k>> : g \in {g \in Adding(n) :
                                 op[g].obj = live[n] /\ op[g].key = k}}
  /\ UNCHANGED <<catalog, blocks, dir, world>>

Mut_Apply(h) ==
  /\ Ready(h, "apply")
  /\ LET c == op[h].obj
         k == op[h].key
     IN  /\ len' = [len EXCEPT ![c][k] = @ + 1]
         /\ Set(h, [op[h] EXCEPT !.do = "store", !.index = len[c][k] + 1])
  /\ UNCHANGED <<catalog, records, acked, dir, world, appends, racy, overlap>>

(* coll.AppendBlock.                                                       *)
Apply(h) ==
  /\ Ready(h, "apply")
  /\ LET c == op[h].obj
         k == op[h].key
     IN  /\ len' = [len EXCEPT ![c][k] = @ + 1]
         /\ Set(h, [op[h] EXCEPT !.do = "store", !.index = len[c][k]])
  /\ UNCHANGED <<catalog, records, acked, dir, world, appends, racy, overlap>>

BlockOf(h) == [obj |-> op[h].obj, key |-> op[h].key, index |-> op[h].index]

(* EncodeEntry and Manager.Append; if either fails the append ends here    *)
(* and the block stays in the collection.                                  *)
Store(h) ==
  /\ Ready(h, "store")
  /\ records' = [records EXCEPT ![makeStorageKey(op[h].name, op[h].key)] =
                   Append(@, BlockOf(h))]
  /\ Set(h, [op[h] EXCEPT !.do = "flush"])
  /\ UNCHANGED <<catalog, len, acked, dir, world, appends, racy, overlap>>

StoreFails(h) ==
  /\ Ready(h, "store")
  /\ Set(h, Idle)
  /\ racy' = racy \cup {<<op[h].obj, op[h].key>>}
  /\ UNCHANGED <<catalog, blocks, dir, world, appends, overlap>>

(* FlushHNSW writes vectors.hnsw under the name of the collection; without *)
(* the directory it fails, and the append with it.                         *)
Flush(h) ==
  /\ Ready(h, "flush")
  /\ IF dir[op[h].name].there
     THEN /\ dir' = [dir EXCEPT ![op[h].name].vectors = op[h].obj]
          /\ acked' = acked \cup {BlockOf(h)}
     ELSE UNCHANGED <<dir, acked>>
  /\ Set(h, Idle)
  /\ UNCHANGED <<catalog, len, records, world, appends, racy, overlap>>

----------------------------------------------------------------------------
(* cm.Close saves every collection; the process ends later.                *)
Close ==
  /\ proc = "run" /\ cmMu = Free
  /\ proc' = "closing"
  /\ dir' = [n \in Name |->
               IF live[n] = 0 THEN dir[n] ELSE Saved(n)]
  /\ UNCHANGED <<catalog, blocks, op, appends, racy, restarts, overlap, broken>>

(* What RemoveAll may have left when it is cut short.                      *)
Remains(d) == {NoDir} \cup [there : {TRUE}, meta : {0, d.meta},
                            vectors : {0, d.vectors}, docs : {0, d.docs}]

(* The end of the process, at any moment.                                  *)
Down ==
  /\ proc # "down" /\ restarts < MaxRestarts
  /\ proc' = "down" /\ restarts' = restarts + 1
  /\ live' = [n \in Name |-> 0]
  /\ cmMu' = Free
  /\ op' = [h \in Handler |-> Idle]
  /\ len' = [c \in 1 .. MaxObjects |-> [k \in Key |-> 0]]
  /\ records' = [s \in StorageKey |-> << >>]
  /\ acked' = {} /\ racy' = {}
  /\ UNCHANGED <<objects, appends, overlap>>

Crash ==
  /\ cmMu = Free
  /\ Down
  /\ UNCHANGED <<dir, broken>>

CrashInRemoveAll(h) ==
  /\ cmMu = h
  /\ Down
  /\ LET n == op[h].name
     IN  /\ broken' = broken \cup {n}
         /\ \E d \in Remains(dir[n]) : dir' = [dir EXCEPT ![n] = d]

(* The directory is there and meta.json is missing or cannot be parsed.    *)
CrashInCreate(n) ==
  /\ proc = "run" /\ cmMu = Free /\ live[n] = 0
  /\ Down
  /\ dir' = [dir EXCEPT ![n].there = TRUE]
  /\ UNCHANGED broken

(* loadExistingCollections: a directory without meta.json is skipped.  An  *)
(* index file that cannot be read, which ends the start, is a subject of   *)
(* VectorManager and left out here.                                        *)
Restart ==
  /\ proc = "down"
  /\ proc' = "run"
  /\ live' = [n \in Name |-> LoadCollectionMeta(n)]
  /\ UNCHANGED <<objects, cmMu, blocks, dir, op, appends, racy, restarts,
                 overlap, broken>>

----------------------------------------------------------------------------
Next ==
  \/ \E h \in Handler, n \in Name :
       \/ CreateCollection(h, n)
       \/ DeleteCollection(h, n)
       \/ \E k \in Key : AppendBlock(h, n, k)
  \/ \E h \in Handler :
       \/ ListKeys(h) \/ (\E k \in Key : Purge(h, k))
       \/ DeleteFromMap(h) \/ RemoveAll(h) \/ CrashInRemoveAll(h)
       \/ Apply(h) \/ Store(h) \/ StoreFails(h) \/ Flush(h)
  \/ Close \/ Crash \/ Restart
  \/ \E n \in Name : CrashInCreate(n)

Spec == Init /\ [][Next]_vars

----------------------------------------------------------------------------
(* Values are of their types, one object has one name, and cm.mu is held   *)
(* exactly by the handler between delete(cm.collections) and the end of    *)
(* RemoveAll.                                                              *)
TypeOK ==
  /\ live \in [Name -> 0 .. objects] /\ objects \in 0 .. MaxObjects
  /\ \A n, m \in Name : live[n] = live[m] => n = m \/ live[n] = 0
  /\ len \in [1 .. MaxObjects -> [Key -> Nat]]
  /\ records \in [StorageKey -> Seq(Block)] /\ acked \subseteq Block
  /\ dir \in [Name -> Directory]
  /\ op \in [Handler -> {Idle} \cup Deletion \cup Addition]
  /\ \A h \in Handler : cmMu = h <=> op[h].do = "rmdir"

(* The catalog in memory is the catalog a start would load: whenever cm.mu *)
(* is free a name is in cm.collections exactly if its directory holds      *)
(* meta.json, and that file was written for the same object.  So no crash  *)
(* loses a created collection, or brings back a removed one.               *)
CatalogOnDisk ==
  proc # "down" /\ cmMu = Free
    => \A n \in Name : live[n] = LoadCollectionMeta(n)

(* DeleteCollection purges the storage keys of the object it looked up,    *)
(* then removes the object that has the name by then.  However deletions,  *)
(* creations and appends interleave, once no deletion of a name is in      *)
(* progress each acknowledged block of its collection has its record.      *)
AckedPresent ==
  \A n \in Name : Deleting(n) = {} /\ live[n] # 0
    => \A b \in acked : b.obj = live[n]
         => b \in Range(records[makeStorageKey(n, b.key)])

(* Unless an append and a deletion of the same collection overlapped, the  *)
(* records under a storage key are blocks of the present collection of     *)
(* that name and of that key: nothing of a deleted collection is left for  *)
(* GetBlock to return in one created later under the name, and storage     *)
(* keys of different collections do not meet.                              *)
OwnRecords ==
  restarts = 0
    => \A n \in Name : n \notin overlap /\ Deleting(n) = {}
         => \A k \in Key : \A r \in Range(records[makeStorageKey(n, k)]) :
              r.obj = live[n] /\ r.key = k /\ r.index < len[r.obj][k]

(* GetBlock: the record of the bucket store at this index of the array.    *)
GetBlock(n, k, i) == records[makeStorageKey(n, k)][i + 1]

(* GetBlock returns the block with the index it is asked for, in a         *)
(* collection of any age and name, for arrays to which blocks were         *)
(* appended one after the other.  (Overlapping appends take their indexes  *)
(* and write their records under different locks, in any two orders.)      *)
GetBlockExact ==
  restarts = 0
    => \A n \in Name \ overlap : \A k \in Key :
         Deleting(n) = {} /\ live[n] # 0 /\ <<live[n], k>> \notin racy
           => \A i \in 1 .. Len(records[makeStorageKey(n, k)]) :
                GetBlock(n, k, i - 1) =
                  [obj |-> live[n], key |-> k, index |-> i - 1]

(* Unless an append and a deletion of the collection overlapped, or a      *)
(* crash hit RemoveAll, the index files of a directory belong to the       *)
(* collection that has the name: a start never loads vectors or blocks of  *)
(* a deleted collection into the one created after it.                     *)
FilesOwn ==
  proc # "down" /\ cmMu = Free
    => \A n \in Name \ (overlap \cup broken) :
         {dir[n].vectors, dir[n].docs} \subseteq {0, live[n]}
============================================================================
