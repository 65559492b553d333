---------------------- MODULE CollectionManagerProofs ----------------------
(***************************************************************************)
(* Proofs about the catalog of collections and the records of their        *)
(* blocks, for any names, keys and handlers, and any bounds.               *)
(***************************************************************************)
EXTENDS CollectionManager, TLAPS

(* A leaf is tried with Zenon, then with the SMT solver. *)
USE ZenonT(5), SMTT(30)

(* The part of TypeOK that does not count appends.                         *)
Types ==
  /\ live \in [Name -> Object] /\ objects \in Object
  /\ len \in [1 .. MaxObjects -> [Key -> Nat]]
  /\ records \in [StorageKey -> Seq(Block)] /\ acked \subseteq Block
  /\ dir \in [Name -> Directory]
  /\ op \in [Handler -> {Idle} \cup Deletion \cup Addition]
  /\ cmMu \in Handler \cup {Free}

(* No object is known anywhere before CreateCollection makes it.           *)
Created ==
  /\ \A n \in Name : live[n] <= objects /\ dir[n].meta <= objects
  /\ \A h \in Handler : op[h].do # "idle" => op[h].obj <= objects
  /\ \A h \in Handler : op[h].do \in AdditionStep => op[h].obj # 0
  /\ \A b \in acked : b.obj <= objects

(* cm.mu is held exactly by the deletion that is in RemoveAll.             *)
Lock == \A h \in Handler : cmMu = h <=> op[h].do = "rmdir"

(* A process that is down has no requests, catalog or acknowledged blocks. *)
Stopped == proc = "down" => /\ \A h \in Handler : op[h] = Idle
                            /\ \A n \in Name : live[n] = 0
                            /\ acked = {}

(* Memory and disk differ only in the name that the holder of cm.mu is     *)
(* removing.                                                               *)
InStep ==
  /\ \A h \in Handler : op[h].do = "rmdir" => live[op[h].name] = 0
  /\ proc # "down" =>
       \A n \in Name : \/ live[n] = dir[n].meta
                       \/ \E h \in Handler : op[h].do = "rmdir" /\ op[h].name = n

(* No two names share an object, in memory or on disk.                     *)
Unique ==
  /\ \A n, m \in Name : live[n] = live[m] => n = m \/ live[n] = 0
  /\ \A n, m \in Name : dir[n].meta = dir[m].meta => n = m \/ dir[n].meta = 0

(* The inductive invariant behind CatalogOnDisk.                           *)
CatalogInv == Types /\ Created /\ Lock /\ Stopped /\ InStep /\ Unique

----------------------------------------------------------------------------
(* The two facts about constants that the proofs use again and again.      *)
LEMMA Bounds == MaxObjects \in Nat /\ Free \notin Handler
BY NameAssumption

(* Every name and key have a storage key that the bucket store knows.      *)
LEMMA StorageKeyType ==
  \A n \in Name, k \in Key : makeStorageKey(n, k) \in StorageKey
BY DEF StorageKey

(* The step a request is at tells which kind of request it is.             *)
LEMMA OpType ==
  ASSUME Types, NEW h \in Handler
  PROVE  /\ op[h].do \in DeletionStep => op[h] \in Deletion
         /\ op[h].do \in AdditionStep => op[h] \in Addition
         /\ op[h].do = "idle" => op[h] = Idle
         /\ op[h].do \in {"idle"} \cup DeletionStep \cup AdditionStep
BY DEF Types, Deletion, DeletionStep, Addition, AdditionStep, Idle

(* The block an append is about is a block.                                *)
LEMMA BlockOfType ==
  ASSUME Types, NEW h \in Handler, op[h].do \in AdditionStep
  PROVE  BlockOf(h) \in Block
BY OpType DEF BlockOf, Block, Addition

(* It holds before the first request.                                      *)
LEMMA InitCatalog == Init => CatalogInv
<1> SUFFICES ASSUME Init PROVE CatalogInv
    OBVIOUS
<1> USE Bounds
<1>1. Types
  BY DEF Init, Types, Object, Directory, NoDir, Idle
<1>2. Created /\ Lock /\ Stopped /\ InStep /\ Unique
  BY DEF Init, Created, Lock, Stopped, InStep, Unique, Idle, NoDir, AdditionStep,
         Object
<1> QED  BY <1>1, <1>2 DEF CatalogInv

(* Every step keeps the types.                                             *)
LEMMA TypesStep == CatalogInv /\ [Next]_vars => Types'
<1> SUFFICES ASSUME CatalogInv, [Next]_vars PROVE Types'
    OBVIOUS
<1> DEFINE Goal == Types
<1> USE Bounds, StorageKeyType DEF Types, CatalogInv, Set, blocks, catalog,
        world
<1>0. Types /\ Created
  OBVIOUS
<1>1. ASSUME NEW h \in Handler, NEW n \in Name, CreateCollection(h, n) PROVE Goal'
  <2>1. objects + 1 \in Object
    BY <1>0, <1>1 DEF CreateCollection, Object
  <2>2. live' \in [Name -> Object]
    BY <1>0, <1>1, <2>1 DEF CreateCollection
  <2>3. dir' \in [Name -> Directory]
    <3>1. dir' = [dir EXCEPT ![n].there = TRUE, ![n].meta = objects + 1]
      BY <1>1 DEF CreateCollection
    <3>2. dir \in [Name -> Directory]
      BY <1>0
    <3> QED  BY ONLY <2>1, <3>1, <3>2 DEF Directory
  <2> QED  BY <1>0, <1>1, <2>1, <2>2, <2>3 DEF CreateCollection
<1>2. ASSUME NEW h \in Handler, NEW n \in Name, DeleteCollection(h, n) PROVE Goal'
  BY <1>0, <1>2 DEF DeleteCollection, GetCollection, Deletion, DeletionStep
<1>3. ASSUME NEW h \in Handler, NEW n \in Name, NEW k \in Key,
             AppendBlock(h, n, k)
      PROVE  Goal'
  BY <1>0, <1>3 DEF AppendBlock, GetCollection, Addition, AdditionStep
<1>4. ASSUME NEW h \in Handler, ListKeys(h) PROVE Goal'
  <2>1. op[h] \in Deletion
    BY <1>0, <1>4, OpType DEF ListKeys, Ready, DeletionStep
  <2>2. \A ks \in SUBSET Key : Left(h, ks) \in Deletion
    BY <2>1 DEF Left, Deletion, DeletionStep
  <2> QED  BY <1>0, <1>4, <2>2 DEF ListKeys
<1>5. ASSUME NEW h \in Handler, NEW k \in Key, Purge(h, k) PROVE Goal'
  <2>1. op[h] \in Deletion
    BY <1>0, <1>5, OpType DEF Purge, Ready, DeletionStep
  <2>2. op[h].keys \ {k} \in SUBSET Key /\ op[h].name \in Name
    BY <2>1 DEF Deletion
  <2>3. \A ks \in SUBSET Key : Left(h, ks) \in Deletion
    BY <2>1 DEF Left, Deletion, DeletionStep
  <2>4. op' \in [Handler -> {Idle} \cup Deletion \cup Addition]
    BY <1>0, <1>5, <2>2, <2>3 DEF Purge
  <2>5. records' \in [StorageKey -> Seq(Block)]
    BY <1>0, <1>5, <2>2 DEF Purge
  <2> QED  BY <1>0, <1>5, <2>4, <2>5 DEF Purge
<1>6. ASSUME NEW h \in Handler, DeleteFromMap(h) PROVE Goal'
  <2>1. op[h] \in Deletion /\ [op[h] EXCEPT !.do = "rmdir"] \in Deletion
    BY <1>0, <1>6, OpType DEF DeleteFromMap, Ready, Deletion, DeletionStep
  <2>2. op[h].name \in Name
    BY <2>1 DEF Deletion
  <2>3. live' \in [Name -> Object]
    BY <1>0, <1>6, <2>2 DEF DeleteFromMap, Object
  <2>4. dir' \in [Name -> Directory]
    <3>1. Saved(op[h].name) \in Directory
      BY <1>0, <2>2 DEF Saved, Directory
    <3> QED  BY <1>0, <1>6, <3>1 DEF DeleteFromMap
  <2>5. op' \in [Handler -> {Idle} \cup Deletion \cup Addition]
        /\ cmMu' \in Handler \cup {Free}
    <3>1. PICK o \in {Idle} \cup Deletion :
            op' = [op EXCEPT ![h] = o] /\ cmMu' \in {cmMu, h}
      BY <1>6, <2>1 DEF DeleteFromMap
    <3> QED  BY <1>0, <3>1
  <2> QED  BY <1>0, <1>6, <2>3, <2>4, <2>5 DEF DeleteFromMap
<1>7. ASSUME NEW h \in Handler, RemoveAll(h) PROVE Goal'
  <2>1. NoDir \in Directory
    BY DEF NoDir, Directory, Object
  <2> QED  BY <1>0, <1>7, <2>1 DEF RemoveAll
<1>8. ASSUME NEW h \in Handler, CrashInRemoveAll(h) PROVE Goal'
  <2> DEFINE n == op[h].name
  <2>1. PICK d \in Remains(dir[n]) : dir' = [dir EXCEPT ![n] = d]
    BY <1>8 DEF CrashInRemoveAll
  <2>2. dir' \in [Name -> Directory]
    <3>1. ASSUME n \in Name PROVE d \in Directory
      <4>1. dir[n] \in Directory
        BY <1>0, <3>1
      <4>2. NoDir \in Directory
        BY DEF NoDir, Directory, Object
      <4>3. 0 \in Object /\ dir[n].meta \in Object /\ dir[n].vectors \in Object
            /\ dir[n].docs \in Object
        BY <4>1 DEF Directory, Object
      <4>4. ASSUME d \in [there : {TRUE}, meta : {0, dir[n].meta},
                         vectors : {0, dir[n].vectors}, docs : {0, dir[n].docs}]
            PROVE  d \in Directory
        BY <4>3, <4>4 DEF Directory
      <4> QED  BY <4>2, <4>4, <2>1 DEF Remains
    <3> QED  BY <3>1, <2>1, <1>0
  <2>3. live' \in [Name -> Object] /\ len' \in [1 .. MaxObjects -> [Key -> Nat]]
    BY <1>8 DEF CrashInRemoveAll, Down, Object
  <2> QED  BY <1>0, <1>8, <2>2, <2>3 DEF CrashInRemoveAll, Down
<1>9. ASSUME NEW h \in Handler, Apply(h) PROVE Goal'
  <2>1. op[h] \in Addition /\ op[h].obj \in 1 .. MaxObjects
    BY <1>0, <1>9, OpType DEF Apply, Ready, Created, Addition, AdditionStep, Object
  <2>2. op[h].key \in Key /\ len[op[h].obj][op[h].key] \in Nat
    BY <1>0, <2>1 DEF Addition
  <2>3. len' \in [1 .. MaxObjects -> [Key -> Nat]]
    BY <1>0, <1>9, <2>1, <2>2 DEF Apply
  <2>4. op' \in [Handler -> {Idle} \cup Deletion \cup Addition]
    BY <1>0, <1>9, <2>1, <2>2 DEF Apply, Addition, AdditionStep
  <2> QED  BY <1>0, <1>9, <2>3, <2>4 DEF Apply
<1>10. ASSUME NEW h \in Handler, Store(h) PROVE Goal'
  <2>1. op[h] \in Addition /\ BlockOf(h) \in Block
    BY <1>0, <1>10, OpType, BlockOfType DEF Store, Ready, AdditionStep
  <2>2. makeStorageKey(op[h].name, op[h].key) \in StorageKey
    BY <2>1 DEF Addition
  <2>3. records' \in [StorageKey -> Seq(Block)]
    BY <1>0, <1>10, <2>1, <2>2 DEF Store
  <2>4. op' \in [Handler -> {Idle} \cup Deletion \cup Addition]
    BY <1>0, <1>10, <2>1 DEF Store, Addition, AdditionStep
  <2> QED  BY <1>0, <1>10, <2>3, <2>4 DEF Store
<1>11. ASSUME NEW h \in Handler, StoreFails(h) PROVE Goal'
  BY <1>0, <1>11 DEF StoreFails
<1>12. ASSUME NEW h \in Handler, Flush(h) PROVE Goal'
  <2>1. op[h] \in Addition /\ BlockOf(h) \in Block
    BY <1>0, <1>12, OpType, BlockOfType DEF Flush, Ready, AdditionStep
  <2>2. op[h].name \in Name /\ op[h].obj \in Object
    BY <2>1 DEF Addition
  <2>3. dir' \in [Name -> Directory]
    <3>1. [dir[op[h].name] EXCEPT !.vectors = op[h].obj] \in Directory
      BY <1>0, <2>2 DEF Directory
    <3> QED  BY <1>0, <1>12, <3>1 DEF Flush
  <2> QED  BY <1>0, <1>12, <2>1, <2>3 DEF Flush
<1>13. ASSUME Close PROVE Goal'
  BY <1>0, <1>13 DEF Close, Saved, Directory
<1>14. ASSUME Crash PROVE Goal'
  <2>1. live' \in [Name -> Object] /\ len' \in [1 .. MaxObjects -> [Key -> Nat]]
    BY <1>14 DEF Crash, Down, Object
  <2>2. dir' \in [Name -> Directory]
    BY <1>0, <1>14 DEF Crash, Directory
  <2> QED  BY <1>0, <1>14, <2>1, <2>2 DEF Crash, Down
<1>15. ASSUME Restart PROVE Goal'
  BY <1>0, <1>15 DEF Restart, LoadCollectionMeta, Directory
<1>16. ASSUME NEW n \in Name, CrashInCreate(n) PROVE Goal'
  <2>1. live' \in [Name -> Object] /\ len' \in [1 .. MaxObjects -> [Key -> Nat]]
    BY <1>16 DEF CrashInCreate, Down, Object
  <2>2. dir' \in [Name -> Directory]
    BY <1>0, <1>16 DEF CrashInCreate, Directory
  <2> QED  BY <1>0, <1>16, <2>1, <2>2 DEF CrashInCreate, Down
<1>17. CASE UNCHANGED vars
  BY <1>0, <1>17 DEF vars
<1> QED
  BY <1>1, <1>2, <1>3, <1>4, <1>5, <1>6, <1>7, <1>8, <1>9, <1>10, <1>11, <1>12,
     <1>13, <1>14, <1>15, <1>16, <1>17 DEF Next

(* CatalogInv without the types.                                           *)
Catalog == Created /\ Lock /\ Stopped /\ InStep /\ Unique

(* Objects are numbers, so that they can be compared.                      *)
LEMMA Numbers ==
  ASSUME Types
  PROVE  /\ objects \in Nat
         /\ \A n \in Name : live[n] \in Nat /\ dir[n].meta \in Nat
         /\ \A b \in acked : b.obj \in Nat
         /\ \A h \in Handler : op[h].do # "idle" => op[h].obj \in Nat
<1>1. Object \subseteq Nat
  BY Bounds DEF Object
<1>2. \A n \in Name : live[n] \in Object /\ dir[n].meta \in Object
  BY DEF Types, Directory
<1>3. \A b \in acked : b.obj \in Object
  BY DEF Types, Block
<1>4. \A h \in Handler : op[h].do # "idle" => op[h].obj \in Object
  BY OpType DEF Deletion, Addition
<1> QED  BY <1>1, <1>2, <1>3, <1>4 DEF Types

(* A step of one request that leaves cm.collections, cm.mu and every       *)
(* meta.json alone.                                                        *)
LEMMA RequestStep ==
  ASSUME Types, Types', Catalog, NEW h \in Handler,
         proc # "down", proc' = proc, UNCHANGED <<live, objects, cmMu>>,
         \A g \in Handler \ {h} : op'[g] = op[g],
         op[h].do # "rmdir", op'[h].do # "rmdir",
         op'[h].do # "idle" => op'[h].obj <= objects,
         op'[h].do \in AdditionStep => op'[h].obj # 0,
         \A b \in acked' : b.obj <= objects,
         \A n \in Name : dir'[n].meta = dir[n].meta
  PROVE  Catalog'
<1> USE DEF Catalog
<1>1. Created'
  BY DEF Created
<1>2. Lock'
  BY DEF Lock
<1>3. Stopped' /\ Unique'
  BY DEF Stopped, Unique
<1>4. InStep'
  BY DEF InStep
<1> QED  BY <1>1, <1>2, <1>3, <1>4

(* The process ends, and no meta.json is new.                              *)
LEMMA DownStep ==
  ASSUME Types, Types', Catalog, Down,
         \A n \in Name : dir'[n].meta \in {0, dir[n].meta}
  PROVE  Catalog'
<1> USE Bounds DEF Catalog, Down
<1>1. Created'
  <2>1. \A n \in Name : live'[n] = 0 /\ dir'[n].meta <= objects /\ objects \in Nat
    BY Numbers DEF Created
  <2>2. objects' = objects /\ acked' = {} /\ \A h \in Handler : op'[h].do = "idle"
    BY DEF Idle
  <2>3. objects \in Nat
    BY Numbers
  <2> QED  BY <2>1, <2>2, <2>3 DEF Created, AdditionStep
<1>2. Lock' /\ Stopped' /\ InStep'
  BY DEF Lock, Stopped, InStep, Idle
<1>3. Unique'
  BY DEF Unique
<1> QED  BY <1>1, <1>2, <1>3

(* Every step keeps memory and disk in step.                               *)
LEMMA CatalogStep == CatalogInv /\ [Next]_vars => CatalogInv'
<1> SUFFICES ASSUME CatalogInv, [Next]_vars PROVE Catalog'
    BY TypesStep DEF CatalogInv, Catalog
<1>0. Types /\ Types' /\ Catalog
  BY TypesStep DEF CatalogInv, Catalog
<1>a. ASSUME NEW h \in Handler PROVE /\ op[h].do # "idle" => op[h].obj <= objects
                                     /\ op[h].do \in AdditionStep => op[h].obj # 0
                                     /\ op \in [Handler -> {Idle} \cup Deletion \cup Addition]
                                     /\ \A b \in acked : b.obj <= objects
  BY <1>0 DEF Catalog, Created, Types
<1> USE DEF Set, blocks, catalog, world
<1>1. ASSUME NEW h \in Handler, NEW n \in Name, CreateCollection(h, n) PROVE Catalog'
  <2>1. /\ live' = [live EXCEPT ![n] = objects + 1]
        /\ \A m \in Name : dir'[m].meta = IF m = n THEN objects + 1 ELSE dir[m].meta
        /\ objects' = objects + 1 /\ objects \in Nat /\ live[n] = 0
        /\ UNCHANGED <<op, acked, cmMu, proc>> /\ cmMu = Free /\ proc = "run"
    BY <1>0, <1>1 DEF CreateCollection, Ready, Types, Object, Directory
  <2>2. Created'
    <3>1. /\ \A m \in Name : live[m] <= objects + 1 /\ dir[m].meta <= objects + 1
          /\ \A g \in Handler : op[g].do # "idle" => op[g].obj <= objects + 1
          /\ \A b \in acked : b.obj <= objects + 1
      BY <1>0, Numbers DEF Catalog, Created
    <3>2. \A m \in Name : live'[m] <= objects + 1 /\ dir'[m].meta <= objects + 1
      BY <1>0, <2>1, <3>1 DEF Types
    <3> QED  BY <1>0, <2>1, <3>1, <3>2 DEF Catalog, Created
  <2>3. Lock' /\ Stopped'
    BY <1>0, <2>1 DEF Catalog, Lock, Stopped
  <2>4. InStep'
    BY <1>0, <2>1, Bounds DEF Catalog, InStep, Lock, Types
  <2>5. Unique'
    <3>1. \A m \in Name : live[m] # objects + 1 /\ dir[m].meta # objects + 1
      BY <1>0, Numbers DEF Catalog, Created
    <3>2. \A m \in Name : live'[m] = IF m = n THEN objects + 1 ELSE live[m]
      BY <1>0, <2>1 DEF Types
    <3> QED  BY <1>0, <2>1, <3>1, <3>2 DEF Catalog, Unique
  <2> QED  BY <2>2, <2>3, <2>4, <2>5 DEF Catalog
<1>2. ASSUME NEW h \in Handler, NEW n \in Name, DeleteCollection(h, n) PROVE Catalog'
  <2>1. op'[h].do \in {"remove", "list"} /\ op'[h].obj = live[n]
    BY <1>a, <1>2 DEF DeleteCollection, GetCollection
  <2>2. live[n] <= objects
    BY <1>0 DEF Catalog, Created
  <2> QED
    BY <1>0, <1>a, <1>2, <2>1, <2>2, RequestStep DEF DeleteCollection, Ready, AdditionStep
<1>3. ASSUME NEW h \in Handler, NEW n \in Name, NEW k \in Key, AppendBlock(h, n, k)
      PROVE  Catalog'
  <2>1. op'[h].do = "apply" /\ op'[h].obj = live[n] /\ live[n] # 0
    BY <1>a, <1>3 DEF AppendBlock, GetCollection
  <2>2. live[n] <= objects
    BY <1>0 DEF Catalog, Created
  <2> QED  BY <1>0, <1>a, <1>3, <2>1, <2>2, RequestStep DEF AppendBlock, Ready
<1>4. ASSUME NEW h \in Handler, ListKeys(h) PROVE Catalog'
  <2>1. op[h] \in Deletion
    BY <1>0, <1>4, OpType DEF ListKeys, Ready, DeletionStep
  <2>2. op'[h].do \in {"purge", "remove"} /\ op'[h].obj = op[h].obj
    BY <1>a, <1>4, <2>1 DEF ListKeys, Left, Deletion
  <2> QED  BY <1>0, <1>a, <1>4, <2>2, RequestStep DEF ListKeys, Ready, AdditionStep
<1>5. ASSUME NEW h \in Handler, NEW k \in Key, Purge(h, k) PROVE Catalog'
  <2>1. op[h] \in Deletion
    BY <1>0, <1>5, OpType DEF Purge, Ready, DeletionStep
  <2>2. op'[h].do \in {"purge", "remove"} /\ op'[h].obj = op[h].obj
    BY <1>a, <1>5, <2>1 DEF Purge, Left, Deletion
  <2> QED  BY <1>0, <1>a, <1>5, <2>2, RequestStep DEF Purge, Ready, AdditionStep
<1>6. ASSUME NEW h \in Handler, DeleteFromMap(h) PROVE Catalog'
  <2> DEFINE n == op[h].name
  <2>1. op[h] \in Deletion /\ n \in Name /\ op[h].do = "remove" /\ cmMu = Free
        /\ proc # "down"
    BY <1>0, <1>6, OpType DEF DeleteFromMap, Ready, Deletion, DeletionStep
  <2>2. CASE live[n] = 0
    <3>1. op'[h].do = "idle"
      BY <1>a, <1>6, <2>2 DEF DeleteFromMap, Idle
    <3> QED
      BY <1>0, <1>a, <1>6, <2>1, <2>2, <3>1, RequestStep DEF DeleteFromMap, AdditionStep
  <2>3. CASE live[n] # 0
    <3>1. /\ op'[h].do = "rmdir" /\ op'[h].name = n /\ op'[h].obj = op[h].obj
          /\ \A g \in Handler \ {h} : op'[g] = op[g]
          /\ \A m \in Name : live'[m] = IF m = n THEN 0 ELSE live[m]
          /\ cmMu' = h
          /\ UNCHANGED <<objects, acked, proc>>
      <4>1. live \in [Name -> Object]
        BY <1>0 DEF Types
      <4> QED  BY <4>1, <1>a, <1>6, <2>1, <2>3 DEF DeleteFromMap, Deletion
    <3>2. \A m \in Name : dir'[m].meta = dir[m].meta
      <4>1. Saved(n).meta = dir[n].meta
        BY <1>0, <2>1 DEF Saved, Types, Directory
      <4>2. dir \in [Name -> Directory] /\ dir' = [dir EXCEPT ![n] = Saved(n)]
        BY <1>0, <1>6, <2>3 DEF DeleteFromMap, Types
      <4> QED  BY <4>1, <4>2
    <3>3. Created'
      <4>1. \A g \in Handler : op'[g].do # "idle" => op'[g].obj <= objects
        BY <1>a, <2>1, <3>1
      <4>2. \A g \in Handler : op'[g].do \in AdditionStep => op'[g].obj # 0
        BY <1>a, <3>1 DEF AdditionStep
      <4>3. \A m \in Name : live'[m] <= objects /\ dir'[m].meta <= objects
        BY <1>0, <3>1, <3>2, Numbers DEF Catalog, Created
      <4> QED  BY <4>1, <4>2, <4>3, <3>1, <1>a DEF Created
    <3>4. Lock' /\ Stopped'
      BY <1>0, <2>1, <3>1, Bounds DEF Catalog, Lock, Stopped
    <3>5. InStep'
      <4>1. \A g \in Handler : op[g].do # "rmdir"
        BY <1>0, <2>1, Bounds DEF Catalog, Lock
      <4>2. \A m \in Name : live[m] = dir[m].meta
        BY <1>0, <2>1, <4>1 DEF Catalog, InStep
      <4> QED  BY <2>1, <3>1, <3>2, <4>1, <4>2 DEF InStep
    <3>6. Unique'
      BY <1>0, <3>1, <3>2 DEF Catalog, Unique
    <3> QED  BY <3>3, <3>4, <3>5, <3>6 DEF Catalog
  <2> QED  BY <2>2, <2>3
<1>7. ASSUME NEW h \in Handler, RemoveAll(h) PROVE Catalog'
  <2> DEFINE n == op[h].name
  <2>1. op[h] \in Deletion /\ n \in Name /\ op[h].do = "rmdir" /\ proc # "down"
    BY <1>0, <1>7, OpType DEF RemoveAll, Ready, Deletion, DeletionStep
  <2>2. /\ op'[h].do = "idle" /\ \A g \in Handler \ {h} : op'[g] = op[g]
        /\ cmMu' = Free /\ UNCHANGED <<live, objects, acked, proc>>
    BY <1>a, <1>7 DEF RemoveAll, Idle
  <2>3. \A m \in Name : dir'[m].meta = IF m = n THEN 0 ELSE dir[m].meta
    BY <1>0, <1>7, <2>1 DEF RemoveAll, NoDir, Types
  <2>4. cmMu = h /\ \A g \in Handler \ {h} : op[g].do # "rmdir"
    BY <1>0, <2>1 DEF Catalog, Lock
  <2>5. Created'
    BY <1>0, <2>2, <2>3, Numbers DEF Catalog, Created, AdditionStep
  <2>6. Lock' /\ Stopped'
    BY <2>1, <2>2, <2>4, Bounds DEF Lock, Stopped
  <2>7. InStep'
    BY <1>0, <2>1, <2>2, <2>3, <2>4 DEF Catalog, InStep
  <2>8. Unique'
    BY <1>0, <2>2, <2>3 DEF Catalog, Unique
  <2> QED  BY <2>5, <2>6, <2>7, <2>8 DEF Catalog
<1>8. ASSUME NEW h \in Handler, CrashInRemoveAll(h) PROVE Catalog'
  <2> DEFINE n == op[h].name
  <2>1. PICK d \in Remains(dir[n]) : dir' = [dir EXCEPT ![n] = d]
    BY <1>8 DEF CrashInRemoveAll
  <2>2. d.meta \in {0, dir[n].meta}
    <3>1. NoDir.meta = 0
      BY DEF NoDir
    <3>2. CASE d # NoDir
      <4>1. d \in [there : {TRUE}, meta : {0, dir[n].meta},
                   vectors : {0, dir[n].vectors}, docs : {0, dir[n].docs}]
        BY <2>1, <3>2 DEF Remains
      <4> QED  BY <4>1
    <3> QED  BY <3>1, <3>2
  <2>3. \A m \in Name : dir'[m].meta \in {0, dir[m].meta}
    BY <1>0, <2>1, <2>2 DEF Types
  <2> QED  BY <1>0, <1>8, <2>3, DownStep DEF CrashInRemoveAll
<1>9. ASSUME NEW h \in Handler, Apply(h) PROVE Catalog'
  <2>1. op[h] \in Addition /\ op[h].do = "apply" /\ op[h].obj # 0
    BY <1>0, <1>a, <1>9, OpType DEF Apply, Ready, AdditionStep
  <2>2. op'[h].do = "store" /\ op'[h].obj = op[h].obj
    BY <1>a, <1>9, <2>1 DEF Apply, Addition
  <2> QED  BY <1>0, <1>a, <1>9, <2>1, <2>2, RequestStep DEF Apply, Ready
<1>10. ASSUME NEW h \in Handler, Store(h) PROVE Catalog'
  <2>1. op[h] \in Addition /\ op[h].do = "store" /\ op[h].obj # 0
    BY <1>0, <1>a, <1>10, OpType DEF Store, Ready, AdditionStep
  <2>2. op'[h].do = "flush" /\ op'[h].obj = op[h].obj
    BY <1>a, <1>10, <2>1 DEF Store, Addition
  <2> QED  BY <1>0, <1>a, <1>10, <2>1, <2>2, RequestStep DEF Store, Ready
<1>11. ASSUME NEW h \in Handler, StoreFails(h) PROVE Catalog'
  <2>1. op'[h].do = "idle"
    BY <1>a, <1>11 DEF StoreFails, Idle
  <2> QED  BY <1>0, <1>a, <1>11, <2>1, RequestStep DEF StoreFails, Ready, AdditionStep
<1>12. ASSUME NEW h \in Handler, Flush(h) PROVE Catalog'
  <2>1. op'[h].do = "idle"
    BY <1>a, <1>12 DEF Flush, Idle
  <2>2. \A b \in acked' : b.obj <= objects
    BY <1>a, <1>12 DEF Flush, Ready, BlockOf
  <2>3. \A n \in Name : dir'[n].meta = dir[n].meta
    BY <1>0, <1>12 DEF Flush, Types, Directory
  <2> QED
    BY <1>0, <1>a, <1>12, <2>1, <2>2, <2>3, RequestStep DEF Flush, Ready, AdditionStep
<1>13. ASSUME Close PROVE Catalog'
  <2>1. \A n \in Name : Saved(n).meta = dir[n].meta
    BY <1>0 DEF Types, Directory, Saved
  <2>2. \A n \in Name : dir'[n].meta = dir[n].meta
    BY <1>13, <2>1 DEF Close
  <2>3. UNCHANGED <<live, objects, cmMu, acked, op>> /\ proc # "down" /\ proc' # "down"
    BY <1>13 DEF Close
  <2>4. Created' /\ Lock' /\ Stopped'
    BY <1>0, <2>2, <2>3 DEF Catalog, Created, Lock, Stopped
  <2>5. InStep' /\ Unique'
    BY <1>0, <2>2, <2>3 DEF Catalog, InStep, Unique
  <2> QED  BY <2>4, <2>5 DEF Catalog
<1>14. ASSUME Crash PROVE Catalog'
  BY <1>0, <1>14, DownStep DEF Crash
<1>15. ASSUME Restart PROVE Catalog'
  <2>1. /\ \A n \in Name : live'[n] = dir[n].meta
        /\ UNCHANGED <<objects, cmMu, acked, dir, op>> /\ proc = "down" /\ proc' = "run"
    BY <1>15 DEF Restart, LoadCollectionMeta
  <2>2. \A h \in Handler : op[h].do = "idle"
    BY <1>0, <2>1 DEF Catalog, Stopped, Idle
  <2>3. Created' /\ Lock' /\ Stopped'
    BY <1>0, <2>1 DEF Catalog, Created, Lock, Stopped
  <2>4. InStep'
    BY <2>1, <2>2 DEF InStep
  <2>5. Unique'
    BY <1>0, <2>1 DEF Catalog, Unique
  <2> QED  BY <2>3, <2>4, <2>5 DEF Catalog
<1>16. ASSUME NEW n \in Name, CrashInCreate(n) PROVE Catalog'
  <2>1. [dir[n] EXCEPT !.there = TRUE].meta = dir[n].meta
    BY <1>0 DEF Types, Directory
  <2>2. \A m \in Name : dir'[m].meta = dir[m].meta
    BY <1>0, <1>16, <2>1 DEF CrashInCreate, Types
  <2> QED  BY <1>0, <1>16, <2>2, DownStep DEF CrashInCreate
<1>17. CASE UNCHANGED vars
  BY <1>0, <1>17 DEF vars, Catalog, Created, Lock, Stopped, InStep, Unique
<1> QED
  BY <1>1, <1>2, <1>3, <1>4, <1>5, <1>6, <1>7, <1>8, <1>9, <1>10, <1>11, <1>12,
     <1>13, <1>14, <1>15, <1>16, <1>17 DEF Next

(* However requests interleave, and wherever the process is cut short, a   *)
(* name is in cm.collections exactly if a start would load it from disk,   *)
(* whenever cm.mu is free.                                                 *)
THEOREM CatalogIsOnDisk == Spec => []CatalogOnDisk
<1>1. CatalogInv => CatalogOnDisk
  BY Bounds DEF CatalogInv, CatalogOnDisk, Lock, InStep, LoadCollectionMeta
<1> QED  BY InitCatalog, CatalogStep, <1>1, PTL DEF Spec

(* Values keep their types, one object has one name, and cm.mu is held     *)
(* exactly from the removal of a name from cm.collections to the end of    *)
(* RemoveAll.                                                              *)
THEOREM CatalogTypes == Spec => []TypeOK
<1>1. CatalogInv => TypeOK
  <2> SUFFICES ASSUME CatalogInv PROVE TypeOK
      OBVIOUS
  <2>0. objects \in Nat /\ \A n \in Name : live[n] \in Nat
    BY Numbers DEF CatalogInv
  <2>1. \A n \in Name : live[n] \in 0 .. objects
    BY <2>0 DEF CatalogInv, Created
  <2>2. live \in [Name -> 0 .. objects] /\ objects \in 0 .. MaxObjects
    BY <2>1 DEF CatalogInv, Types, Object
  <2> QED  BY <2>2 DEF CatalogInv, Types, Lock, Unique, TypeOK
<1> QED  BY InitCatalog, CatalogStep, <1>1, PTL DEF Spec

----------------------------------------------------------------------------
(* The block has its record in the bucket store.                           *)
Present(n, b) == b \in Range(records[makeStorageKey(n, b.key)])

(* Nobody is deleting the collection of this name.                         *)
Undisturbed(n) ==
  \A g \in Handler : ~ (op[g].do \in DeletionStep /\ op[g].name = n)

(* The object an append holds has no other name than the one it was found  *)
(* under.                                                                  *)
Owner ==
  \A h \in Handler, n \in Name :
     op[h].do \in AdditionStep /\ live[n] = op[h].obj => n = op[h].name

(* A block that is stored and not yet acknowledged has its record, as long *)
(* as its collection stays and nobody deletes it.                          *)
Written ==
  \A h \in Handler :
     op[h].do = "flush" /\ live[op[h].name] = op[h].obj /\ Undisturbed(op[h].name)
       => Present(op[h].name, BlockOf(h))

(* AckedPresent, in the words of this module.                              *)
Recorded ==
  \A n \in Name, b \in acked :
     Undisturbed(n) /\ live[n] # 0 /\ b.obj = live[n] => Present(n, b)

(* The inductive invariant behind AckedPresent, on top of CatalogInv.      *)
BlocksInv == Owner /\ Written /\ Recorded

(* A step that starts no append: an object that stays keeps its name, one  *)
(* that is created is new, only a deletion of the collection takes records *)
(* away, and what is stored or acknowledged anew has its record.           *)
LEMMA KeepsBlocks ==
  ASSUME Types, Types', Created, BlocksInv,
         \A n \in Name, b \in acked' \ acked :
            Undisturbed(n)' /\ live'[n] = b.obj => Present(n, b)',
         \A n \in Name : live'[n] \in {0, live[n], objects + 1},
         \A n \in Name : Undisturbed(n)' => \/ Undisturbed(n)
                                            \/ live'[n] = 0,
         \A n \in Name, k \in Key :
            Undisturbed(n) => Range(records[makeStorageKey(n, k)])
                                \subseteq Range(records'[makeStorageKey(n, k)]),
         \A h \in Handler : op'[h].do = "flush" =>
            op'[h] = op[h] \/ Present(op[h].name, BlockOf(h))',
         \A h \in Handler : op'[h].do \in AdditionStep
            => op[h].do \in AdditionStep /\ op'[h].name = op[h].name
               /\ op'[h].obj = op[h].obj
  PROVE  BlocksInv'
<1>1. ASSUME NEW c \in Nat, NEW n \in Name, c <= objects, c # 0, live'[n] = c
      PROVE  live[n] = c
  <2>1. live'[n] \in {0, live[n], objects + 1}
    OBVIOUS
  <2>2. objects \in Nat
    BY Numbers
  <2> QED  BY <1>1, <2>1, <2>2
<1>2. Owner'
  <2> SUFFICES ASSUME NEW h \in Handler, NEW n \in Name, op'[h].do \in AdditionStep,
                      live'[n] = op'[h].obj
               PROVE  n = op'[h].name
      BY DEF Owner
  <2>1. op[h].do \in AdditionStep /\ op'[h].name = op[h].name /\ op'[h].obj = op[h].obj
    OBVIOUS
  <2>2. op[h].obj \in Nat /\ op[h].obj <= objects /\ op[h].obj # 0
    BY <2>1, Numbers DEF Created, AdditionStep
  <2>3. live[n] = op[h].obj
    BY <1>1, <2>1, <2>2
  <2> QED  BY <2>1, <2>3 DEF BlocksInv, Owner
<1>3. Written'
  <2> SUFFICES ASSUME NEW h \in Handler, (op[h].do = "flush")',
                      (live[op[h].name] = op[h].obj)', Undisturbed(op[h].name)'
               PROVE  Present(op[h].name, BlockOf(h))'
      BY DEF Written
  <2> SUFFICES ASSUME op'[h] = op[h] PROVE Present(op[h].name, BlockOf(h))'
      OBVIOUS
  <2>1. op'[h] = op[h] /\ op[h].do = "flush"
    OBVIOUS
  <2>2. op[h] \in Addition
    BY <2>1, OpType DEF AdditionStep
  <2>3. op[h].name \in Name /\ op[h].key \in Key
    BY <2>2 DEF Addition
  <2>4. op[h].obj \in Nat /\ op[h].obj <= objects /\ op[h].obj # 0
    BY <2>1, Numbers DEF Created, AdditionStep
  <2>5. live[op[h].name] = op[h].obj
    <3>1. live'[op[h].name] = op[h].obj
      BY <2>1
    <3> QED  BY <1>1, <2>3, <2>4, <3>1
  <2>6. Undisturbed(op[h].name)
    <3>1. \A n \in Name : n = op[h].name => Undisturbed(n)'
      BY <2>1 DEF Undisturbed
    <3> QED  BY <2>1, <2>3, <2>4, <3>1
  <2>7. BlockOf(h) \in Range(records[makeStorageKey(op[h].name, op[h].key)])
    BY <2>1, <2>5, <2>6 DEF BlocksInv, Written, Present, BlockOf
  <2>8. BlockOf(h) \in Range(records'[makeStorageKey(op[h].name, op[h].key)])
    BY <2>3, <2>6, <2>7
  <2> QED  BY <2>1, <2>8 DEF Present, BlockOf
<1>4. Recorded'
  <2> SUFFICES ASSUME NEW n \in Name, NEW b \in acked', Undisturbed(n)', live'[n] # 0,
                      b.obj = live'[n]
               PROVE  b \in Range(records'[makeStorageKey(n, b.key)])
      BY DEF Recorded, Present
  <2> SUFFICES ASSUME b \in acked PROVE b \in Range(records'[makeStorageKey(n, b.key)])
      BY DEF Present
  <2>1. b \in acked /\ b.key \in Key /\ b.obj \in Nat /\ b.obj <= objects
    BY Numbers DEF Created, Types, Block
  <2>2. live[n] = b.obj /\ Undisturbed(n)
    BY <1>1, <2>1
  <2> QED  BY <2>1, <2>2 DEF BlocksInv, Recorded, Present
<1> QED  BY <1>2, <1>3, <1>4 DEF BlocksInv

(* Appending a record adds it and takes none away.                         *)
LEMMA RangeAppend ==
  ASSUME NEW S, NEW q \in Seq(S), NEW x \in S
  PROVE  Range(Append(q, x)) = Range(q) \cup {x}
<1>1. /\ Append(q, x) \in Seq(S) /\ DOMAIN Append(q, x) = 1 .. Len(q) + 1
      /\ DOMAIN q = 1 .. Len(q) /\ Append(q, x)[Len(q) + 1] = x
      /\ \A i \in 1 .. Len(q) : Append(q, x)[i] = q[i]
  OBVIOUS
<1>2. Len(q) \in Nat
  OBVIOUS
<1>3. \A i \in 1 .. Len(q) + 1 : i \in 1 .. Len(q) \/ i = Len(q) + 1
  BY <1>2
<1> QED  BY <1>1, <1>2, <1>3 DEF Range

(* Every step keeps the records of the blocks that count.                  *)
LEMMA BlocksStep ==
  ASSUME CatalogInv, BlocksInv, [Next]_vars
  PROVE  BlocksInv'
<1>0. Types /\ Types' /\ Created /\ CatalogInv'
  BY CatalogStep DEF CatalogInv
<1>a. /\ live \in [Name -> Object] /\ op \in [Handler -> {Idle} \cup Deletion \cup Addition]
      /\ records \in [StorageKey -> Seq(Block)]
  BY <1>0 DEF Types
<1>b. \A h \in Handler : /\ op[h].do \in DeletionStep => op[h] \in Deletion
                         /\ op[h].do \in AdditionStep => op[h] \in Addition
  BY <1>0, OpType
<1>c. Idle.do = "idle"
  BY DEF Idle
<1> USE DEF Set, blocks, catalog, world
<1>1. ASSUME NEW h \in Handler, NEW n \in Name, CreateCollection(h, n) PROVE BlocksInv'
  <2>1. UNCHANGED <<op, records, acked>> /\ \A m \in Name : live'[m] \in {live[m], objects + 1}
    BY <1>a, <1>1 DEF CreateCollection
  <2> QED  BY <1>0, <2>1, KeepsBlocks DEF Undisturbed
<1>2. ASSUME NEW h \in Handler, NEW n \in Name, DeleteCollection(h, n) PROVE BlocksInv'
  <2>1. /\ op'[h].do \in {"remove", "list"} /\ \A g \in Handler \ {h} : op'[g] = op[g]
        /\ op[h].do = "idle" /\ UNCHANGED <<records, acked, live>>
    BY <1>a, <1>2 DEF DeleteCollection, Ready
  <2>2. \A m \in Name : Undisturbed(m)' => Undisturbed(m)
    BY <2>1 DEF Undisturbed, DeletionStep
  <2> QED  BY <1>0, <2>1, <2>2, KeepsBlocks DEF AdditionStep
<1>3. ASSUME NEW h \in Handler, NEW n \in Name, NEW k \in Key, AppendBlock(h, n, k)
      PROVE  BlocksInv'
  <2>1. /\ op'[h].do = "apply" /\ op'[h].obj = live[n] /\ op'[h].name = n /\ live[n] # 0
        /\ \A g \in Handler \ {h} : op'[g] = op[g]
        /\ op[h].do = "idle" /\ UNCHANGED <<records, acked, live>>
    BY <1>a, <1>3 DEF AppendBlock, Ready, GetCollection
  <2>2. \A m \in Name : Undisturbed(m)' => Undisturbed(m)
    BY <2>1 DEF Undisturbed, DeletionStep
  <2>3. Owner'
    BY <2>1 DEF BlocksInv, Owner, CatalogInv, Unique
  <2>4. Written'
    <3> SUFFICES ASSUME NEW g \in Handler, (op[g].do = "flush")',
                        (live[op[g].name] = op[g].obj)', Undisturbed(op[g].name)'
                 PROVE  Present(op[g].name, BlockOf(g))'
        BY DEF Written
    <3>1. op'[g] = op[g]
      BY <2>1
    <3>2. op[g].name \in Name
      BY <1>b, <3>1 DEF AdditionStep, Addition
    <3>3. \A m \in Name : m = op[g].name => Undisturbed(m)'
      BY <3>1 DEF Undisturbed
    <3> QED
      BY <2>1, <2>2, <3>1, <3>2, <3>3 DEF BlocksInv, Written, Present, BlockOf
  <2>5. Recorded'
    BY <2>1, <2>2 DEF BlocksInv, Recorded, Present
  <2> QED  BY <2>3, <2>4, <2>5 DEF BlocksInv
<1>4. ASSUME NEW h \in Handler, ListKeys(h) PROVE BlocksInv'
  <2>1. op[h] \in Deletion /\ op[h].do \in DeletionStep
    BY <1>b, <1>4 DEF ListKeys, Ready, DeletionStep
  <2>2. /\ op'[h].do \in {"purge", "remove"} /\ op'[h].name = op[h].name
        /\ \A g \in Handler \ {h} : op'[g] = op[g] /\ UNCHANGED <<records, acked, live>>
    BY <1>a, <1>4, <2>1 DEF ListKeys, Left, Deletion
  <2>3. \A m \in Name : Undisturbed(m)' => Undisturbed(m)
    BY <2>1, <2>2 DEF Undisturbed, DeletionStep
  <2> QED  BY <1>0, <1>4, <2>2, <2>3, KeepsBlocks DEF ListKeys, AdditionStep
<1>5. ASSUME NEW h \in Handler, NEW k \in Key, Purge(h, k) PROVE BlocksInv'
  <2>1. op[h] \in Deletion /\ op[h].do \in DeletionStep /\ op[h].name \in Name
    BY <1>b, <1>5 DEF Purge, Ready, DeletionStep, Deletion
  <2>2. /\ op'[h].do \in {"purge", "remove"} /\ op'[h].name = op[h].name
        /\ \A g \in Handler \ {h} : op'[g] = op[g]
    BY <1>a, <1>5, <2>1 DEF Purge, Left, Deletion
  <2>3. \A m \in Name : Undisturbed(m)' => Undisturbed(m)
    BY <2>1, <2>2 DEF Undisturbed, DeletionStep
  <2>4. ASSUME NEW m \in Name, NEW l \in Key, Undisturbed(m)
        PROVE  records'[makeStorageKey(m, l)] = records[makeStorageKey(m, l)]
    <3>1. makeStorageKey(m, l) # makeStorageKey(op[h].name, k)
      BY <2>1, <2>4, StorageKeysDistinct DEF Undisturbed
    <3> QED  BY <1>a, <1>5, <3>1, StorageKeyType DEF Purge
  <2>5. UNCHANGED <<acked, live>>
    BY <1>5 DEF Purge
  <2> QED  BY <1>0, <2>2, <2>3, <2>4, <2>5, KeepsBlocks DEF AdditionStep
<1>6. ASSUME NEW h \in Handler, DeleteFromMap(h) PROVE BlocksInv'
  <2> DEFINE n == op[h].name
  <2>1. op[h] \in Deletion /\ n \in Name /\ op[h].do = "remove"
    BY <1>b, <1>6 DEF DeleteFromMap, Ready, Deletion, DeletionStep
  <2>2. /\ \/ op'[h].do = "idle"
           \/ op'[h].do = "rmdir" /\ op'[h].name = n
        /\ \A g \in Handler \ {h} : op'[g] = op[g]
        /\ UNCHANGED <<records, acked>>
    BY <1>a, <1>c, <1>6, <2>1 DEF DeleteFromMap, Deletion
  <2>3. live'[n] = 0 /\ \A m \in Name : live'[m] \in {0, live[m]}
    BY <1>a, <1>6, <2>1 DEF DeleteFromMap
  <2>4. \A m \in Name : Undisturbed(m)' => Undisturbed(m) \/ live'[m] = 0
    BY <2>1, <2>2, <2>3 DEF Undisturbed, DeletionStep
  <2> QED  BY <1>0, <2>2, <2>3, <2>4, KeepsBlocks DEF AdditionStep
<1>7. ASSUME NEW h \in Handler, RemoveAll(h) PROVE BlocksInv'
  <2>1. op[h].do = "rmdir" /\ live[op[h].name] = 0
    BY <1>7 DEF RemoveAll, Ready, CatalogInv, InStep
  <2>2. /\ op'[h].do = "idle" /\ \A g \in Handler \ {h} : op'[g] = op[g]
        /\ UNCHANGED <<live, records, acked>>
    BY <1>a, <1>c, <1>7 DEF RemoveAll
  <2>3. \A m \in Name : Undisturbed(m)' => Undisturbed(m) \/ live'[m] = 0
    BY <2>1, <2>2 DEF Undisturbed, DeletionStep
  <2> QED  BY <1>0, <2>2, <2>3, KeepsBlocks DEF AdditionStep
<1>8. ASSUME Down PROVE BlocksInv'
  <2>1. acked' = {} /\ \A h \in Handler : op'[h].do = "idle"
    BY <1>8, <1>c DEF Down
  <2> QED  BY <2>1 DEF BlocksInv, Owner, Written, Recorded, AdditionStep
<1>9. ASSUME NEW h \in Handler, Apply(h) PROVE BlocksInv'
  <2>1. op[h] \in Addition /\ op[h].do = "apply"
    BY <1>b, <1>9 DEF Apply, Ready, AdditionStep
  <2>2. /\ op'[h].do = "store" /\ op'[h].obj = op[h].obj /\ op'[h].name = op[h].name
        /\ \A g \in Handler \ {h} : op'[g] = op[g]
    BY <1>a, <1>9, <2>1 DEF Apply, Addition
  <2>3. \A m \in Name : Undisturbed(m)' => Undisturbed(m)
    BY <2>1, <2>2 DEF Undisturbed, DeletionStep
  <2>4. UNCHANGED <<live, records, acked>>
    BY <1>9 DEF Apply
  <2> QED  BY <1>0, <2>1, <2>2, <2>3, <2>4, KeepsBlocks DEF AdditionStep
<1>10. ASSUME NEW h \in Handler, Store(h) PROVE BlocksInv'
  <2> DEFINE s == makeStorageKey(op[h].name, op[h].key)
  <2>1. /\ op[h] \in Addition /\ op[h].do = "store" /\ s \in StorageKey
        /\ BlockOf(h) \in Block
    BY <1>0, <1>b, <1>10, StorageKeyType, BlockOfType DEF Store, Ready, AdditionStep, Addition
  <2>2. /\ op'[h] = [op[h] EXCEPT !.do = "flush"] /\ \A g \in Handler \ {h} : op'[g] = op[g]
        /\ records' = [records EXCEPT ![s] = Append(@, BlockOf(h))]
        /\ UNCHANGED <<live, acked>>
    BY <1>a, <1>10 DEF Store
  <2>3. /\ op'[h].do = "flush" /\ op'[h].obj = op[h].obj /\ op'[h].name = op[h].name
        /\ op'[h].key = op[h].key /\ op'[h].index = op[h].index
    BY <2>1, <2>2 DEF Addition
  <2>4. Range(records'[s]) = Range(records[s]) \cup {BlockOf(h)}
    <3>1. records[s] \in Seq(Block) /\ records'[s] = Append(records[s], BlockOf(h))
      BY <1>a, <2>1, <2>2
    <3>2. \A q \in Seq(Block), x \in Block : Range(Append(q, x)) = Range(q) \cup {x}
      BY RangeAppend
    <3> HIDE DEF s
    <3> QED  BY <2>1, <3>1, <3>2
  <2>5. \A m \in Name, l \in Key : Range(records[makeStorageKey(m, l)])
                                     \subseteq Range(records'[makeStorageKey(m, l)])
    <3>1. \A t \in StorageKey : t # s => records'[t] = records[t]
      BY <1>a, <2>2
    <3> QED  BY <2>4, <3>1, StorageKeyType
  <2>6. Present(op[h].name, BlockOf(h))'
    <3>1. BlockOf(h)' = BlockOf(h) /\ BlockOf(h).key = op[h].key
      BY <2>3 DEF BlockOf
    <3> QED  BY <2>3, <2>4, <3>1 DEF Present
  <2>7. \A m \in Name : Undisturbed(m)' => Undisturbed(m)
    BY <2>1, <2>2 DEF Undisturbed, DeletionStep
  <2>8. \A g \in Handler : op'[g].do = "flush" =>
            op'[g] = op[g] \/ Present(op[g].name, BlockOf(g))'
    BY <2>2, <2>6
  <2> QED
    BY <1>0, <2>1, <2>2, <2>3, <2>5, <2>7, <2>8, KeepsBlocks DEF AdditionStep
<1>11. ASSUME NEW h \in Handler, StoreFails(h) PROVE BlocksInv'
  <2>1. /\ op'[h].do = "idle" /\ \A g \in Handler \ {h} : op'[g] = op[g]
        /\ op[h].do = "store" /\ UNCHANGED <<live, records, acked>>
    BY <1>a, <1>c, <1>11 DEF StoreFails, Ready
  <2>2. \A m \in Name : Undisturbed(m)' => Undisturbed(m)
    BY <2>1 DEF Undisturbed, DeletionStep
  <2> QED  BY <1>0, <2>1, <2>2, KeepsBlocks DEF AdditionStep
<1>12. ASSUME NEW h \in Handler, Flush(h) PROVE BlocksInv'
  <2>1. op[h].do = "flush" /\ acked' \subseteq acked \cup {BlockOf(h)}
    BY <1>12 DEF Flush, Ready
  <2>2. /\ op'[h].do = "idle" /\ \A g \in Handler \ {h} : op'[g] = op[g]
        /\ UNCHANGED <<live, records>>
    BY <1>a, <1>c, <1>12 DEF Flush
  <2>3. \A m \in Name : Undisturbed(m)' => Undisturbed(m)
    BY <2>1, <2>2 DEF Undisturbed, DeletionStep
  <2>4. ASSUME NEW n \in Name, NEW b \in acked' \ acked, Undisturbed(n)', live'[n] = b.obj
        PROVE  Present(n, b)'
    <3>1. b = BlockOf(h) /\ b.obj = op[h].obj
      BY <2>1 DEF BlockOf
    <3>2. n = op[h].name
      BY <2>1, <2>2, <2>4, <3>1 DEF BlocksInv, Owner, AdditionStep
    <3>3. Present(n, b)
      BY <2>1, <2>2, <2>3, <2>4, <3>1, <3>2 DEF BlocksInv, Written
    <3> QED  BY <2>2, <3>3 DEF Present
  <2> QED  BY <1>0, <2>2, <2>3, <2>4, KeepsBlocks DEF AdditionStep
<1>13. ASSUME Close \/ UNCHANGED vars PROVE BlocksInv'
  BY <1>13 DEF Close, vars, BlocksInv, Owner, Written, Recorded, Present, Undisturbed,
               BlockOf
<1>14. ASSUME Restart PROVE BlocksInv'
  <2>1. acked' = {} /\ \A h \in Handler : op'[h].do = "idle"
    BY <1>14, <1>c DEF Restart, CatalogInv, Stopped
  <2> QED  BY <2>1 DEF BlocksInv, Owner, Written, Recorded, AdditionStep
<1> QED
  BY <1>1, <1>2, <1>3, <1>4, <1>5, <1>6, <1>7, <1>8, <1>9, <1>10, <1>11, <1>12,
     <1>13, <1>14 DEF Next, Crash, CrashInRemoveAll, CrashInCreate

(* However creations, deletions and appends interleave: when no deletion   *)
(* of a name is in progress, each acknowledged block of the collection     *)
(* that has the name has its record in the bucket store.                   *)
THEOREM AckedBlocksPresent == Spec => []AckedPresent
<1>1. Init => BlocksInv
  <2>1. Init => acked = {} /\ \A h \in Handler : op[h].do = "idle"
    BY DEF Init, Idle
  <2> QED  BY <2>1 DEF BlocksInv, Owner, Written, Recorded, AdditionStep
<1>2. CatalogInv /\ BlocksInv /\ [Next]_vars => BlocksInv'
  BY BlocksStep
<1>3. BlocksInv => AckedPresent
  BY DEF BlocksInv, Recorded, AckedPresent, Present, Undisturbed, Deleting
<1> QED  BY InitCatalog, CatalogStep, <1>1, <1>2, <1>3, PTL DEF Spec

----------------------------------------------------------------------------
(* Unless it was noted in overlap, no collection is appended to while it   *)
(* is being deleted.                                                       *)
Apart ==
  \A g, h \in Handler :
     op[g].do \in AdditionStep /\ op[h].do \in DeletionStep /\ op[g].name = op[h].name
       => op[g].name \in overlap

(* An append that no deletion overlaps holds the object that has the name. *)
Holds ==
  \A h \in Handler :
     op[h].do \in AdditionStep /\ op[h].name \notin overlap
       => op[h].obj = live[op[h].name]

(* The object that has the name, or will have it after the next start.     *)
Current(n) == IF proc = "down" THEN dir[n].meta ELSE live[n]

(* FilesOwn also while another name is being removed, and between the end  *)
(* of the process and the next start.                                      *)
Files ==
  \A n \in Name \ (overlap \cup broken) :
     \/ \E h \in Handler : op[h].do = "rmdir" /\ op[h].name = n
     \/ dir[n].vectors \in {0, Current(n)} /\ dir[n].docs \in {0, Current(n)}

(* Arrays start empty, and the index an append was given lies in its array. *)
Lengths ==
  /\ \A c \in 1 .. MaxObjects, k \in Key :
        c > objects \/ proc = "down" => len[c][k] = 0
  /\ \A h \in Handler : op[h].do \in {"store", "flush"}
        => op[h].index < len[op[h].obj][op[h].key]

(* The deletion h will still purge the record r under the key k of n.      *)
WillPurge(h, n, k, r) ==
  op[h].do \in DeletionStep /\ op[h].name = n
    => \/ op[h].do = "list" /\ op[h].obj = r.obj
       \/ op[h].do = "purge" /\ k \in op[h].keys

(* OwnRecords also while the collection is being deleted: what is left     *)
(* belongs to the collection that has the name, and each deletion in       *)
(* progress has still to purge it.                                         *)
Own ==
  \A n \in Name \ overlap, k \in Key :
     \A r \in Range(records[makeStorageKey(n, k)]) :
        /\ r.obj = live[n] /\ r.obj # 0 /\ r.key = k /\ r.index < len[r.obj][k]
        /\ \A h \in Handler : WillPurge(h, n, k, r)

AddingTo(h, n, k) ==
  op[h].do \in AdditionStep /\ op[h].name = n /\ op[h].key = k

(* Under the key k of n are its blocks in order, and all of them but the   *)
(* one that the only append in progress has still to store.                *)
InOrder(n, k) ==
  LET recs == records[makeStorageKey(n, k)]
  IN  /\ \A i \in 1 .. Len(recs) :
            recs[i] = [obj |-> live[n], key |-> k, index |-> i - 1]
      /\ \A g, h \in Handler : AddingTo(g, n, k) /\ AddingTo(h, n, k) => g = h
      /\ \A h \in Handler : AddingTo(h, n, k) /\ op[h].do = "store"
            => op[h].index = Len(recs) /\ len[live[n]][k] = Len(recs) + 1
      /\ (\A h \in Handler : ~ (AddingTo(h, n, k) /\ op[h].do = "store"))
            => len[live[n]][k] = Len(recs)

(* Nobody is deleting the collection that has the name.                    *)
Settled(n) == live[n] # 0 /\ Undisturbed(n)

Exact ==
  \A n \in Name \ overlap, k \in Key :
     live[n] # 0 /\ Undisturbed(n) /\ <<live[n], k>> \notin racy => InOrder(n, k)

(* The inductive invariant behind OwnRecords, GetBlockExact and FilesOwn,  *)
(* on top of CatalogInv and BlocksInv.                                     *)
HistoryInv == Apart /\ Holds /\ Files /\ Lengths /\ Own /\ Exact

----------------------------------------------------------------------------
(* A name that no collection has, and that was never deleted during an     *)
(* append, has no append and no record.                                    *)
LEMMA Vacant ==
  ASSUME CatalogInv, Holds, Own, NEW n \in Name \ overlap, live[n] = 0
  PROVE  /\ \A h \in Handler : ~ (op[h].do \in AdditionStep /\ op[h].name = n)
         /\ \A k \in Key : records[makeStorageKey(n, k)] = << >>
<1>1. \A h \in Handler : ~ (op[h].do \in AdditionStep /\ op[h].name = n)
  BY DEF CatalogInv, Created, Holds
<1>2. ASSUME NEW k \in Key PROVE records[makeStorageKey(n, k)] = << >>
  <2> DEFINE recs == records[makeStorageKey(n, k)]
  <2>1. \A r \in Range(recs) : FALSE
    BY DEF Own
  <2>2. recs \in Seq(Block)
    BY StorageKeyType DEF CatalogInv, Types
  <2> HIDE DEF recs
  <2>3. 1 \notin DOMAIN recs
    BY <2>1 DEF Range
  <2>4. recs = << >>
    BY <2>2, <2>3
  <2> QED  BY <2>4 DEF recs
<1> QED  BY <1>1, <1>2

(* A step that changes neither the array of a key nor what is on its way   *)
(* to it, other than that appends end.                                     *)
LEMMA KeepsOrder ==
  ASSUME NEW n, NEW k, InOrder(n, k),
         records'[makeStorageKey(n, k)] = records[makeStorageKey(n, k)],
         live'[n] = live[n], len'[live[n]][k] = len[live[n]][k],
         \A g \in Handler :
            /\ AddingTo(g, n, k)' => AddingTo(g, n, k)
            /\ AddingTo(g, n, k)' /\ op'[g].do = "store" => op'[g] = op[g]
            /\ AddingTo(g, n, k) /\ op[g].do = "store" => op'[g] = op[g]
  PROVE  InOrder(n, k)'
<1> DEFINE Storing(g) == AddingTo(g, n, k) /\ op[g].do = "store"
<1>1. \A g \in Handler : Storing(g)' <=> Storing(g)
  BY DEF AddingTo
<1>2. \A g \in Handler : Storing(g)' => op'[g] = op[g]
  OBVIOUS
<1>3. \A g, h \in Handler : AddingTo(g, n, k)' /\ AddingTo(h, n, k)' => g = h
  BY DEF InOrder
<1> QED  BY <1>1, <1>2, <1>3 DEF InOrder

(* A step in which appends and deletions at most end or go on.             *)
LEMMA KeepsApart ==
  ASSUME Apart, Holds, overlap' = overlap, \A n \in Name : live'[n] = live[n],
         \A g \in Handler : op'[g].do \in AdditionStep =>
            /\ op[g].do \in AdditionStep /\ op[g].name \in Name
            /\ op'[g].name = op[g].name /\ op'[g].obj = op[g].obj,
         \A g \in Handler : op'[g].do \in DeletionStep =>
            op[g].do \in DeletionStep /\ op'[g].name = op[g].name
  PROVE  Apart' /\ Holds'
<1>1. Apart'
  <2> SUFFICES ASSUME NEW g \in Handler, NEW h \in Handler, op'[g].do \in AdditionStep,
                      op'[h].do \in DeletionStep, op'[g].name = op'[h].name
               PROVE  op'[g].name \in overlap
      BY Zenon DEF Apart
  <2>1. op[g].do \in AdditionStep /\ op'[g].name = op[g].name
    OBVIOUS
  <2>2. op[h].do \in DeletionStep /\ op'[h].name = op[h].name
    OBVIOUS
  <2>3. op[g].name = op[h].name
    BY <2>1, <2>2
  <2>4. op[g].name \in overlap
    BY <2>1, <2>2, <2>3 DEF Apart
  <2> QED  BY <2>1, <2>4
<1>2. Holds'
  <2> SUFFICES ASSUME NEW g \in Handler, op'[g].do \in AdditionStep, op'[g].name \notin overlap
               PROVE  op'[g].obj = live'[op'[g].name]
      BY Zenon DEF Holds
  <2>1. /\ op[g].do \in AdditionStep /\ op[g].name \in Name
        /\ op'[g].name = op[g].name /\ op'[g].obj = op[g].obj
    OBVIOUS
  <2>2. op[g].obj = live[op[g].name]
    BY <2>1 DEF Holds
  <2>3. live'[op[g].name] = live[op[g].name]
    BY <2>1
  <2> QED  BY <2>1, <2>2, <2>3
<1> QED  BY <1>1, <1>2

(* A step that changes no record, shortens no array and starts or moves no *)
(* deletion.                                                               *)
LEMMA KeepsOwn ==
  ASSUME Own, overlap \subseteq overlap', records' = records,
         \A n \in Name : live'[n] = live[n],
         \A n \in Name \ overlap, k \in Key : \A r \in Range(records[makeStorageKey(n, k)]) :
            r.index < len[r.obj][k] => r.index < len'[r.obj][k],
         \A g \in Handler : op'[g] = op[g] \/ op'[g].do \notin DeletionStep
  PROVE  Own'
<1> SUFFICES ASSUME NEW n \in Name \ overlap', NEW k \in Key,
                    NEW r \in Range(records'[makeStorageKey(n, k)])
             PROVE  /\ r.obj = live'[n] /\ r.obj # 0 /\ r.key = k /\ r.index < len'[r.obj][k]
                    /\ \A h \in Handler : WillPurge(h, n, k, r)'
    BY Zenon DEF Own
<1>1. n \in Name \ overlap /\ r \in Range(records[makeStorageKey(n, k)])
  OBVIOUS
<1>2. /\ r.obj = live[n] /\ r.obj # 0 /\ r.key = k /\ r.index < len[r.obj][k]
      /\ \A h \in Handler : WillPurge(h, n, k, r)
  BY <1>1 DEF Own
<1>3. r.index < len'[r.obj][k] /\ live'[n] = live[n]
  BY <1>1, <1>2
<1>4. ASSUME NEW h \in Handler PROVE WillPurge(h, n, k, r)'
  <2>1. WillPurge(h, n, k, r)
    BY <1>2
  <2>2. CASE op'[h] = op[h]
    BY <2>1, <2>2 DEF WillPurge
  <2>3. CASE op'[h].do \notin DeletionStep
    BY <2>3 DEF WillPurge
  <2> QED  BY <2>2, <2>3
<1> QED  BY <1>2, <1>3, <1>4

(* A step that starts no append, and changes neither the records nor the   *)
(* arrays of a collection that it leaves in place.                         *)
LEMMA KeepsExact ==
  ASSUME Exact, overlap \subseteq overlap', racy \subseteq racy',
         \A n \in Name \ overlap : Settled(n)' => live'[n] = live[n] /\ Undisturbed(n),
         \A n \in Name \ overlap, k \in Key : Settled(n)' =>
            /\ records'[makeStorageKey(n, k)] = records[makeStorageKey(n, k)]
            /\ len'[live[n]][k] = len[live[n]][k],
         \A n \in Name \ overlap, k \in Key :
            Settled(n)' /\ <<live[n], k>> \notin racy' =>
            \A g \in Handler :
               /\ AddingTo(g, n, k)' => AddingTo(g, n, k)
               /\ AddingTo(g, n, k)' /\ op'[g].do = "store" => op'[g] = op[g]
               /\ AddingTo(g, n, k) /\ op[g].do = "store" => op'[g] = op[g]
  PROVE  Exact'
<1> SUFFICES ASSUME NEW n \in Name \ overlap', NEW k \in Key,
                    live'[n] # 0, Undisturbed(n)', <<live'[n], k>> \notin racy'
             PROVE  InOrder(n, k)'
    BY Zenon DEF Exact
<1>1. n \in Name \ overlap /\ Settled(n)'
  BY DEF Settled
<1>2. live'[n] = live[n] /\ Undisturbed(n)
  BY <1>1
<1>3. <<live[n], k>> \notin racy' /\ <<live[n], k>> \notin racy
  BY <1>2
<1>4. InOrder(n, k)
  BY <1>1, <1>2, <1>3 DEF Exact
<1>5. \A g \in Handler :
         /\ AddingTo(g, n, k)' => AddingTo(g, n, k)
         /\ AddingTo(g, n, k)' /\ op'[g].do = "store" => op'[g] = op[g]
         /\ AddingTo(g, n, k) /\ op[g].do = "store" => op'[g] = op[g]
  BY <1>1, <1>3
<1>6. /\ records'[makeStorageKey(n, k)] = records[makeStorageKey(n, k)]
      /\ len'[live[n]][k] = len[live[n]][k]
  BY <1>1
<1> QED  BY <1>2, <1>4, <1>5, <1>6, KeepsOrder

(* Every step keeps what the records, arrays and index files owe the       *)
(* collection that has the name.                                           *)
LEMMA HistoryStep ==
  ASSUME CatalogInv, BlocksInv, HistoryInv, [Next]_vars
  PROVE  HistoryInv'
<1>0. Types /\ Types' /\ Created /\ Lock /\ Holds /\ Own /\ CatalogInv'
  BY CatalogStep DEF CatalogInv, HistoryInv
<1>a. /\ live \in [Name -> Object] /\ op \in [Handler -> {Idle} \cup Deletion \cup Addition]
      /\ records \in [StorageKey -> Seq(Block)] /\ dir \in [Name -> Directory]
      /\ len \in [1 .. MaxObjects -> [Key -> Nat]] /\ MaxObjects \in Nat
      /\ objects \in Nat
  BY <1>0, Bounds, Numbers DEF Types
<1>b. \A h \in Handler : /\ op[h].do \in DeletionStep => op[h] \in Deletion
                         /\ op[h].do \in AdditionStep => op[h] \in Addition
  BY <1>0, OpType
<1>c. Idle.do = "idle" /\ "idle" \notin AdditionStep \cup DeletionStep
  BY DEF Idle, AdditionStep, DeletionStep
<1>h. /\ {"apply", "store", "flush"} = AdditionStep /\ "store" # "flush" /\ "apply" # "store"
      /\ {"list", "purge", "remove", "rmdir"} = DeletionStep
      /\ \A x \in AdditionStep : x \notin DeletionStep
  BY DEF AdditionStep, DeletionStep
<1>d. \A h \in Handler : op[h].do \in AdditionStep =>
         /\ op[h].obj \in 1 .. MaxObjects /\ op[h].obj <= objects /\ op[h].key \in Key
         /\ op[h].name \in Name /\ op[h].index \in Nat
  BY <1>0, <1>a, <1>b, <1>c DEF Addition, Object, Created
<1>e. cmMu = Free => \A h \in Handler : op[h].do # "rmdir"
  BY <1>0, Bounds DEF Lock
<1>f. \A h \in Handler : op[h].do \in DeletionStep => op[h].name \in Name
  BY <1>b DEF Deletion
<1>g. \A n \in Name, k \in Key : \A r \in Range(records[makeStorageKey(n, k)]) : r \in Block
  BY <1>a, StorageKeyType DEF Range
<1> USE DEF HistoryInv, Set, blocks, catalog, world
<1>1. ASSUME NEW h \in Handler, NEW n \in Name, CreateCollection(h, n) PROVE HistoryInv'
  <2>1. /\ UNCHANGED <<op, records, len, overlap, racy, broken, proc>>
        /\ proc # "down" /\ live[n] = 0 /\ objects' = objects + 1 /\ objects < MaxObjects
        /\ \A m \in Name : live'[m] = IF m = n THEN objects + 1 ELSE live[m]
        /\ \A m \in Name : dir'[m].vectors = dir[m].vectors /\ dir'[m].docs = dir[m].docs
        /\ cmMu = Free
    BY <1>a, <1>1 DEF CreateCollection, Ready, Directory
  <2>2. n \notin overlap =>
          /\ \A g \in Handler : ~ (op[g].do \in AdditionStep /\ op[g].name = n)
          /\ \A k \in Key : records[makeStorageKey(n, k)] = << >>
    BY <1>0, <2>1, Vacant
  <2>3. Apart' /\ Holds'
    BY <1>d, <2>1, <2>2 DEF Apart, Holds
  <2>4. Files'
    BY <1>e, <2>1 DEF Files, Current
  <2>5. Lengths'
    BY <1>a, <2>1 DEF Lengths
  <2>6. Own'
    <3> SUFFICES ASSUME NEW m \in Name \ overlap', NEW k \in Key,
                        NEW r \in Range(records'[makeStorageKey(m, k)])
                 PROVE  /\ r.obj = live'[m] /\ r.obj # 0 /\ r.key = k /\ r.index < len'[r.obj][k]
                        /\ \A g \in Handler : WillPurge(g, m, k, r)'
        BY Zenon DEF Own
    <3>1. m \in Name \ overlap /\ r \in Range(records[makeStorageKey(m, k)])
      BY <2>1
    <3>2. Range(<< >>) = {}
      BY DEF Range
    <3>3. m # n /\ live'[m] = live[m] /\ len' = len
      BY <2>1, <2>2, <3>1, <3>2
    <3>4. /\ r.obj = live[m] /\ r.obj # 0 /\ r.key = k /\ r.index < len[r.obj][k]
          /\ \A g \in Handler : WillPurge(g, m, k, r)
      BY <3>1 DEF Own
    <3>5. \A g \in Handler : WillPurge(g, m, k, r)'
      BY <2>1, <3>4 DEF WillPurge
    <3> QED  BY <3>3, <3>4, <3>5
  <2>7. Exact'
    <3> SUFFICES ASSUME NEW m \in Name \ overlap, NEW k \in Key, Undisturbed(m)',
                        live'[m] # 0, <<live'[m], k>> \notin racy
                 PROVE  InOrder(m, k)'
        BY <2>1 DEF Exact
    <3>1. CASE m # n
      <4>1. InOrder(m, k)
        BY <2>1, <3>1 DEF Exact, Undisturbed
      <4> QED  BY <2>1, <3>1, <4>1, KeepsOrder DEF AddingTo
    <3>2. CASE m = n
      <4>1. live'[m] = objects + 1 /\ objects + 1 \in 1 .. MaxObjects /\ len'[objects + 1][k] = 0
        BY <1>a, <2>1, <3>2 DEF Lengths
      <4>2. records'[makeStorageKey(m, k)] = << >> /\ \A g \in Handler : ~ AddingTo(g, m, k)'
        BY <2>1, <2>2, <3>2 DEF AddingTo
      <4> QED  BY <4>1, <4>2 DEF InOrder
    <3> QED  BY <3>1, <3>2
  <2> QED  BY <2>3, <2>4, <2>5, <2>6, <2>7
<1>2. ASSUME NEW h \in Handler, NEW n \in Name, DeleteCollection(h, n) PROVE HistoryInv'
  <2>1. /\ op'[h].do \in {"remove", "list"} /\ op'[h].name = n /\ op'[h].obj = live[n]
        /\ live[n] # 0 => op'[h].do = "list"
        /\ \A g \in Handler \ {h} : op'[g] = op[g]
        /\ op[h].do = "idle" /\ UNCHANGED <<records, len, live, objects, dir, racy, broken, proc>>
        /\ overlap' = overlap \cup {x \in {n} : Adding(n) # {}}
    BY <1>a, <1>2 DEF DeleteCollection, Ready, GetCollection
  <2>2. Apart' /\ Holds'
    BY <1>c, <2>1 DEF Apart, Holds, Adding, AdditionStep
  <2>3. Files'
    BY <2>1 DEF Files, Current
  <2>4. Lengths'
    BY <2>1 DEF Lengths
  <2>5. Own'
    <3> SUFFICES ASSUME NEW m \in Name \ overlap', NEW k \in Key,
                        NEW r \in Range(records'[makeStorageKey(m, k)])
                 PROVE  /\ r.obj = live'[m] /\ r.obj # 0 /\ r.key = k /\ r.index < len'[r.obj][k]
                        /\ \A g \in Handler : WillPurge(g, m, k, r)'
        BY Zenon DEF Own
    <3>1. m \in Name \ overlap /\ r \in Range(records[makeStorageKey(m, k)])
      BY <2>1
    <3>2. /\ r.obj = live[m] /\ r.obj # 0 /\ r.key = k /\ r.index < len[r.obj][k]
          /\ \A g \in Handler : WillPurge(g, m, k, r)
      BY <3>1 DEF Own
    <3>3. ASSUME NEW g \in Handler PROVE WillPurge(g, m, k, r)'
      <4>1. CASE g = h
        BY <2>1, <3>2, <4>1 DEF WillPurge
      <4>2. CASE g # h
        BY <2>1, <3>2, <4>2 DEF WillPurge
      <4> QED  BY <4>1, <4>2
    <3> QED  BY <2>1, <3>2, <3>3
  <2>6. Exact'
    <3>1. /\ overlap \subseteq overlap' /\ racy' = racy /\ records' = records
          /\ live' = live /\ len' = len
      BY <2>1
    <3>2. \A m \in Name : Undisturbed(m)' => Undisturbed(m)
      BY <1>c, <2>1 DEF Undisturbed
    <3>3. \A g \in Handler : op'[g] = op[g] \/ (g = h /\ op'[g].do \notin AdditionStep)
      BY <1>h, <2>1
    <3>4. \A m \in Name, k \in Key : \A g \in Handler :
             /\ AddingTo(g, m, k)' => AddingTo(g, m, k) /\ op'[g] = op[g]
             /\ AddingTo(g, m, k) => op'[g] = op[g]
      BY <1>c, <2>1, <3>3 DEF AddingTo
    <3> QED  BY <3>1, <3>2, <3>4, KeepsExact DEF Settled
  <2> QED  BY <2>2, <2>3, <2>4, <2>5, <2>6
<1>3. ASSUME NEW h \in Handler, NEW n \in Name, NEW k \in Key, AppendBlock(h, n, k)
      PROVE  HistoryInv'
  <2>1. /\ op'[h] = [do |-> "apply", name |-> n, obj |-> live[n], key |-> k, index |-> 0]
        /\ \A g \in Handler \ {h} : op'[g] = op[g]
        /\ op[h].do = "idle" /\ UNCHANGED <<records, len, live, objects, dir, broken, proc>>
        /\ overlap' = overlap \cup {x \in {n} : Deleting(n) # {}}
        /\ racy' = racy \cup {<<op[g].obj, k>> : g \in {g \in Adding(n) :
                                 op[g].obj = live[n] /\ op[g].key = k}}
    BY <1>a, <1>3 DEF AppendBlock, Ready, GetCollection
  <2>2. Apart' /\ Holds'
    BY <1>c, <2>1 DEF Apart, Holds, Deleting, AdditionStep, DeletionStep
  <2>3. Files'
    BY <2>1 DEF Files, Current
  <2>4. Lengths'
    BY <2>1 DEF Lengths
  <2>5. Own'
    <3>1. \A g \in Handler : op'[g] = op[g] \/ op'[g].do \notin DeletionStep
      BY <1>h, <2>1
    <3> QED  BY <2>1, <3>1, KeepsOwn
  <2>6. Exact'
    <3> SUFFICES ASSUME NEW m \in Name \ overlap', NEW l \in Key, Undisturbed(m)',
                        live'[m] # 0, <<live'[m], l>> \notin racy'
                 PROVE  InOrder(m, l)'
        BY Zenon DEF Exact
    <3>0. m \in Name \ overlap /\ live[m] # 0 /\ <<live[m], l>> \notin racy'
      BY <2>1
    <3>4. Undisturbed(m)
      BY <1>c, <2>1 DEF Undisturbed
    <3>1. InOrder(m, l)
      BY <2>1, <3>0, <3>4 DEF Exact
    <3>2. CASE m # n \/ l # k
      <4>1. \A g \in Handler : AddingTo(g, m, l)' => g # h
        BY <2>1, <3>2 DEF AddingTo
      <4> QED  BY <1>c, <2>1, <3>1, <4>1, KeepsOrder DEF AddingTo
    <3>3. CASE m = n /\ l = k
      <4>0. ASSUME NEW g \in Handler, AddingTo(g, m, l) PROVE FALSE
        <5>1. op[g].do \in AdditionStep /\ op[g].name = m /\ op[g].key = l
          BY <4>0 DEF AddingTo
        <5>2. op[g].obj = live[m]
          BY <1>0, <3>0, <5>1 DEF Holds
        <5>3. g \in Adding(n)
          BY <3>3, <5>1 DEF Adding
        <5> QED  BY <2>1, <3>0, <3>3, <5>1, <5>2, <5>3
      <4>1. \A g \in Handler : ~ AddingTo(g, m, l)
        BY <4>0
      <4>2. \A g \in Handler : AddingTo(g, m, l)' => g = h
        BY <2>1, <4>1 DEF AddingTo
      <4>3. /\ op'[h].do # "store" /\ live' = live /\ len' = len /\ records' = records
        BY <2>1
      <4>4. \A g \in Handler : ~ (AddingTo(g, m, l)' /\ op'[g].do = "store")
        BY <4>2, <4>3
      <4>5. /\ len[live[m]][l] = Len(records[makeStorageKey(m, l)])
            /\ \A i \in 1 .. Len(records[makeStorageKey(m, l)]) :
                  records[makeStorageKey(m, l)][i] = [obj |-> live[m], key |-> l, index |-> i - 1]
        BY <3>1, <4>1 DEF InOrder
      <4> QED  BY <4>2, <4>3, <4>4, <4>5 DEF InOrder
    <3> QED  BY <3>2, <3>3
  <2> QED  BY <2>2, <2>3, <2>4, <2>5, <2>6
<1>4. ASSUME NEW h \in Handler, ListKeys(h) PROVE HistoryInv'
  <2> DEFINE ks == {k \in Key : len[op[h].obj][k] > 0}
  <2>1. op[h] \in Deletion /\ op[h].do = "list"
    BY <1>b, <1>4 DEF ListKeys, Ready, DeletionStep
  <2>2. /\ op'[h].do = (IF ks = {} THEN "remove" ELSE "purge")
        /\ op'[h].name = op[h].name /\ op'[h].keys = ks
        /\ \A g \in Handler \ {h} : op'[g] = op[g]
        /\ UNCHANGED <<records, len, live, objects, dir, racy, broken, proc, overlap>>
    BY <1>a, <1>4, <2>1 DEF ListKeys, Left, Deletion
  <2>9. op[h].do \in DeletionStep /\ op'[h].do \in DeletionStep /\ op'[h].do # "list"
    BY <1>h, <2>1, <2>2
  <2>3. Apart' /\ Holds'
    <3>1. \A g \in Handler : op'[g].do \in AdditionStep => op'[g] = op[g]
      BY <1>h, <2>2, <2>9
    <3>2. \A g \in Handler : op'[g].do \in DeletionStep =>
             op[g].do \in DeletionStep /\ op'[g].name = op[g].name
      BY <2>2, <2>9
    <3> QED  BY <1>0, <1>d, <2>2, <3>1, <3>2, KeepsApart
  <2>4. Files'
    BY <2>1, <2>2 DEF Files, Current
  <2>5. Lengths'
    BY <2>2 DEF Lengths
  <2>6. Own'
    <3> SUFFICES ASSUME NEW n \in Name \ overlap', NEW k \in Key,
                        NEW r \in Range(records'[makeStorageKey(n, k)])
                 PROVE  /\ r.obj = live'[n] /\ r.obj # 0 /\ r.key = k /\ r.index < len'[r.obj][k]
                        /\ \A g \in Handler : WillPurge(g, n, k, r)'
        BY Zenon DEF Own
    <3>5. n \in Name \ overlap /\ r \in Range(records[makeStorageKey(n, k)])
      BY <2>2
    <3>6. /\ r.obj = live[n] /\ r.obj # 0 /\ r.key = k /\ r.index < len[r.obj][k]
          /\ \A g \in Handler : WillPurge(g, n, k, r)
      BY <3>5 DEF Own
    <3>7. ASSUME NEW g \in Handler, g # h PROVE WillPurge(g, n, k, r)'
      BY <2>2, <3>6, <3>7 DEF WillPurge
    <3>1. WillPurge(h, n, k, r) /\ r.index < len[r.obj][k]
      BY <3>6
    <3>2. r.index \in Nat /\ r.obj = live[n] /\ r.obj \in 1 .. MaxObjects
      BY <1>a, <1>g, <3>5, <3>6 DEF Block, Object
    <3>3. len[r.obj][k] \in Nat
      BY <1>a, <3>2
    <3>4. op[h].name = n => k \in ks
      <4>1. op[h].name = n => op[h].obj = r.obj
        BY <2>1, <2>9, <3>1 DEF WillPurge
      <4> QED  BY <3>1, <3>2, <3>3, <4>1
    <3>8. WillPurge(h, n, k, r)'
      BY <2>2, <3>4 DEF WillPurge
    <3> QED  BY <2>2, <3>6, <3>7, <3>8
  <2>7. Exact'
    <3>1. /\ overlap' = overlap /\ racy' = racy /\ records' = records
          /\ live' = live /\ len' = len
      BY <2>2
    <3>2. \A m \in Name : Undisturbed(m)' => Undisturbed(m)
      BY <2>2, <2>9 DEF Undisturbed
    <3>3. op[h].do \notin AdditionStep /\ op'[h].do \notin AdditionStep
      BY <1>h, <2>9
    <3>4. \A m \in Name, k \in Key : \A g \in Handler :
             /\ AddingTo(g, m, k)' => AddingTo(g, m, k) /\ op'[g] = op[g]
             /\ AddingTo(g, m, k) => op'[g] = op[g]
      BY <2>2, <3>3 DEF AddingTo
    <3> QED  BY <3>1, <3>2, <3>4, KeepsExact DEF Settled
  <2> QED  BY <2>3, <2>4, <2>5, <2>6, <2>7
<1>5. ASSUME NEW h \in Handler, NEW k \in Key, Purge(h, k) PROVE HistoryInv'
  <2> DEFINE ks == op[h].keys \ {k}
  <2>1. op[h] \in Deletion /\ op[h].do = "purge" /\ op[h].name \in Name
    BY <1>b, <1>5 DEF Purge, Ready, DeletionStep, Deletion
  <2>2. /\ op'[h].do = (IF ks = {} THEN "remove" ELSE "purge")
        /\ op'[h].name = op[h].name /\ op'[h].keys = ks
        /\ \A g \in Handler \ {h} : op'[g] = op[g]
        /\ UNCHANGED <<len, live, objects, dir, racy, broken, proc, overlap>>
    BY <1>a, <1>5, <2>1 DEF Purge, Left, Deletion
  <2>3. \A n \in Name, l \in Key : records'[makeStorageKey(n, l)] =
           IF n = op[h].name /\ l = k THEN << >> ELSE records[makeStorageKey(n, l)]
    <3>1. \A s \in StorageKey : records'[s] =
             IF s = makeStorageKey(op[h].name, k) THEN << >> ELSE records[s]
      BY <1>a, <1>5, <2>1, StorageKeyType DEF Purge
    <3> QED  BY <2>1, <3>1, StorageKeyType, StorageKeysDistinct
  <2>9. op[h].do \in DeletionStep /\ op'[h].do \in DeletionStep
    BY <1>h, <2>1, <2>2
  <2>4. Apart' /\ Holds'
    <3>1. \A g \in Handler : op'[g].do \in AdditionStep => op'[g] = op[g]
      BY <1>h, <2>2, <2>9
    <3>2. \A g \in Handler : op'[g].do \in DeletionStep =>
             op[g].do \in DeletionStep /\ op'[g].name = op[g].name
      BY <2>2, <2>9
    <3> QED  BY <1>0, <1>d, <2>2, <3>1, <3>2, KeepsApart
  <2>5. Files'
    BY <2>1, <2>2 DEF Files, Current
  <2>6. Lengths'
    BY <2>2 DEF Lengths
  <2>7. Own'
    <3> SUFFICES ASSUME NEW n \in Name \ overlap', NEW l \in Key,
                        NEW r \in Range(records'[makeStorageKey(n, l)])
                 PROVE  /\ r.obj = live'[n] /\ r.obj # 0 /\ r.key = l /\ r.index < len'[r.obj][l]
                        /\ \A g \in Handler : WillPurge(g, n, l, r)'
        BY Zenon DEF Own
    <3>1. /\ ~ (n = op[h].name /\ l = k)
          /\ r \in Range(records[makeStorageKey(n, l)])
      <4>1. Range(<< >>) = {}
        BY DEF Range
      <4> QED  BY <2>3, <4>1
    <3>3. /\ r.obj = live[n] /\ r.obj # 0 /\ r.key = l /\ r.index < len[r.obj][l]
          /\ \A g \in Handler : WillPurge(g, n, l, r)
      BY <2>2, <3>1 DEF Own
    <3>2. WillPurge(h, n, l, r)'
      <4>1. WillPurge(h, n, l, r)
        BY <3>3
      <4>2. op[h].name = n => l \in ks
        BY <2>1, <2>9, <3>1, <4>1 DEF WillPurge
      <4> QED  BY <2>2, <4>2 DEF WillPurge
    <3>4. ASSUME NEW g \in Handler, g # h PROVE WillPurge(g, n, l, r)'
      BY <2>2, <3>3, <3>4 DEF WillPurge
    <3> QED  BY <2>2, <3>2, <3>3, <3>4
  <2>8. Exact'
    <3>1. overlap' = overlap /\ racy' = racy /\ live' = live /\ len' = len
      BY <2>2
    <3>2. \A m \in Name : Undisturbed(m)' => m # op[h].name /\ Undisturbed(m)
      BY <2>2, <2>9 DEF Undisturbed
    <3>3. op[h].do \notin AdditionStep /\ op'[h].do \notin AdditionStep
      BY <1>h, <2>9
    <3>4. \A m \in Name, l \in Key : \A g \in Handler :
             /\ AddingTo(g, m, l)' => AddingTo(g, m, l) /\ op'[g] = op[g]
             /\ AddingTo(g, m, l) => op'[g] = op[g]
      BY <2>2, <3>3 DEF AddingTo
    <3>5. \A m \in Name, l \in Key : Undisturbed(m)' =>
             records'[makeStorageKey(m, l)] = records[makeStorageKey(m, l)]
      BY <2>3, <3>2
    <3> QED  BY <3>1, <3>2, <3>4, <3>5, KeepsExact DEF Settled
  <2> QED  BY <2>4, <2>5, <2>6, <2>7, <2>8
<1>6. ASSUME NEW h \in Handler, DeleteFromMap(h) PROVE HistoryInv'
  <2> DEFINE n == op[h].name
  <2>1. op[h] \in Deletion /\ n \in Name /\ op[h].do = "remove" /\ cmMu = Free
    BY <1>b, <1>6 DEF DeleteFromMap, Ready, Deletion, DeletionStep
  <2>2. /\ \/ op'[h].do = "idle" /\ UNCHANGED <<live, dir>>
           \/ op'[h].do = "rmdir" /\ op'[h].name = n
        /\ \A g \in Handler \ {h} : op'[g] = op[g]
        /\ UNCHANGED <<records, len, objects, racy, broken, proc, overlap>>
        /\ \A m \in Name \ {n} : dir'[m] = dir[m]
    BY <1>a, <1>c, <1>6, <2>1 DEF DeleteFromMap, Deletion
  <2>3. live'[n] = 0 /\ \A m \in Name \ {n} : live'[m] = live[m]
    BY <1>a, <1>6, <2>1 DEF DeleteFromMap
  <2>4. Apart' /\ Holds'
    BY <1>c, <1>d, <2>1, <2>2, <2>3 DEF Apart, Holds, AdditionStep, DeletionStep
  <2>5. Files'
    BY <1>e, <2>1, <2>2, <2>3 DEF Files, Current
  <2>6. Lengths'
    BY <2>2 DEF Lengths
  <2>7. Own'
    <3> SUFFICES ASSUME NEW m \in Name \ overlap', NEW k \in Key,
                        NEW r \in Range(records'[makeStorageKey(m, k)])
                 PROVE  /\ r.obj = live'[m] /\ r.obj # 0 /\ r.key = k /\ r.index < len'[r.obj][k]
                        /\ \A g \in Handler : WillPurge(g, m, k, r)'
        BY Zenon DEF Own
    <3>1. m \in Name \ overlap /\ r \in Range(records[makeStorageKey(m, k)]) /\ len' = len
      BY <2>2
    <3>2. /\ r.obj = live[m] /\ r.obj # 0 /\ r.key = k /\ r.index < len[r.obj][k]
          /\ \A g \in Handler : WillPurge(g, m, k, r)
      BY <3>1 DEF Own
    <3>3. m # n /\ live'[m] = live[m]
      <4>1. "remove" \in DeletionStep /\ "remove" # "list" /\ "remove" # "purge"
        BY <1>h
      <4> QED  BY <2>1, <2>3, <3>1, <3>2, <4>1 DEF WillPurge
    <3>4. ASSUME NEW g \in Handler PROVE WillPurge(g, m, k, r)'
      <4>1. CASE g = h
        BY <1>c, <2>2, <3>3, <4>1 DEF WillPurge
      <4>2. CASE g # h
        BY <2>2, <3>2, <4>2 DEF WillPurge
      <4> QED  BY <4>1, <4>2
    <3> QED  BY <3>1, <3>2, <3>3, <3>4
  <2>8. Exact'
    <3>1. overlap' = overlap /\ racy' = racy /\ records' = records /\ len' = len
      BY <2>2
    <3>2. \A m \in Name : Settled(m)' => m # n /\ live'[m] = live[m]
      BY <2>3 DEF Settled
    <3>3. \A m \in Name : Settled(m)' => Undisturbed(m)
      BY <2>1, <2>2, <3>2 DEF Undisturbed, Settled
    <3>4. op[h].do \notin AdditionStep /\ op'[h].do \notin AdditionStep
      BY <1>c, <1>h, <2>1, <2>2
    <3>5. \A m \in Name, k \in Key : \A g \in Handler :
             /\ AddingTo(g, m, k)' => AddingTo(g, m, k) /\ op'[g] = op[g]
             /\ AddingTo(g, m, k) => op'[g] = op[g]
      BY <2>2, <3>4 DEF AddingTo
    <3> QED  BY <3>1, <3>2, <3>3, <3>5, KeepsExact
  <2> QED  BY <2>4, <2>5, <2>6, <2>7, <2>8
<1>7. ASSUME NEW h \in Handler, RemoveAll(h) PROVE HistoryInv'
  <2> DEFINE n == op[h].name
  <2>1. op[h].do = "rmdir" /\ live[n] = 0 /\ n \in Name
    BY <1>f, <1>7 DEF RemoveAll, Ready, CatalogInv, InStep, DeletionStep
  <2>2. /\ op'[h].do = "idle" /\ \A g \in Handler \ {h} : op'[g] = op[g]
        /\ UNCHANGED <<live, records, len, objects, racy, broken, proc, overlap>>
        /\ \A m \in Name : dir'[m] = IF m = n THEN NoDir ELSE dir[m]
    BY <1>a, <1>c, <1>7 DEF RemoveAll
  <2>8. \A g \in Handler : op'[g] = op[g] \/ op'[g].do \notin AdditionStep \cup DeletionStep
    BY <1>c, <2>2
  <2>3. Apart' /\ Holds'
    BY <1>d, <2>2, <2>8, KeepsApart
  <2>4. Files'
    BY <2>1, <2>2 DEF Files, Current, NoDir
  <2>5. Lengths'
    BY <2>2 DEF Lengths
  <2>6. Own'
    BY <2>2, <2>8, KeepsOwn
  <2>7. Exact'
    <3>1. /\ overlap' = overlap /\ racy' = racy /\ records' = records /\ live' = live
          /\ len' = len
      BY <2>2
    <3>2. \A m \in Name : Settled(m)' => m # n /\ Undisturbed(m)
      BY <2>1, <2>2 DEF Settled, Undisturbed
    <3>3. op[h].do \notin AdditionStep /\ op'[h].do \notin AdditionStep
      BY <1>c, <1>h, <2>1, <2>2
    <3>4. \A m \in Name, k \in Key : \A g \in Handler :
             /\ AddingTo(g, m, k)' => AddingTo(g, m, k) /\ op'[g] = op[g]
             /\ AddingTo(g, m, k) => op'[g] = op[g]
      BY <2>2, <3>3 DEF AddingTo
    <3> QED  BY <3>1, <3>2, <3>4, KeepsExact
  <2> QED  BY <2>3, <2>4, <2>5, <2>6, <2>7
<1>8. ASSUME Down,
             \A n \in Name \ (overlap' \cup broken') :
                /\ ~ \E h \in Handler : op[h].do = "rmdir" /\ op[h].name = n
                /\ n \notin broken /\ dir'[n].meta = live[n]
                /\ dir'[n].vectors = dir[n].vectors /\ dir'[n].docs = dir[n].docs
      PROVE  HistoryInv'
  <2>1. /\ \A h \in Handler : op'[h].do = "idle"
        /\ \A n \in Name : live'[n] = 0
        /\ \A s \in StorageKey : records'[s] = << >>
        /\ \A c \in 1 .. MaxObjects, k \in Key : len'[c][k] = 0
        /\ overlap' = overlap /\ proc # "down" /\ proc' = "down"
    BY <1>8, <1>c DEF Down
  <2>2. Apart' /\ Holds' /\ Lengths'
    BY <1>c, <2>1 DEF Apart, Holds, Lengths
  <2>3. Files'
    BY <1>8, <2>1 DEF Files, Current
  <2>4. Own'
    BY <2>1, StorageKeyType DEF Own, Range
  <2>5. Exact'
    BY <2>1 DEF Exact
  <2> QED  BY <2>2, <2>3, <2>4, <2>5
<1>9. ASSUME NEW h \in Handler, Apply(h) PROVE HistoryInv'
  <2> DEFINE c == op[h].obj
             k == op[h].key
  <2>1. /\ op[h] \in Addition /\ op[h].do = "apply" /\ op[h].do \in AdditionStep
        /\ c \in 1 .. MaxObjects /\ c <= objects /\ k \in Key /\ proc # "down"
    BY <1>b, <1>d, <1>9 DEF Apply, Ready, AdditionStep
  <2>2. /\ op'[h].do = "store" /\ op'[h].obj = c /\ op'[h].name = op[h].name
        /\ op'[h].key = k /\ op'[h].index = len[c][k]
        /\ \A g \in Handler \ {h} : op'[g] = op[g]
        /\ UNCHANGED <<live, records, objects, dir, racy, broken, proc, overlap>>
    BY <1>a, <1>9, <2>1 DEF Apply, Addition
  <2>3. /\ \A d \in 1 .. MaxObjects, l \in Key :
              len'[d][l] = IF d = c /\ l = k THEN len[d][l] + 1 ELSE len[d][l]
        /\ \A d \in 1 .. MaxObjects, l \in Key : len[d][l] \in Nat
    BY <1>a, <1>9, <2>1 DEF Apply
  <2>9. "store" \in AdditionStep /\ op'[h].do \notin DeletionStep
    BY <1>h, <2>2
  <2>4. Apart' /\ Holds'
    <3>1. \A g \in Handler : op'[g].do \in AdditionStep =>
             op[g].do \in AdditionStep /\ op'[g].name = op[g].name /\ op'[g].obj = op[g].obj
      BY <2>1, <2>2
    <3>2. \A g \in Handler : op'[g].do \in DeletionStep => op'[g] = op[g]
      BY <2>2, <2>9
    <3> QED  BY <1>d, <2>2, <3>1, <3>2, KeepsApart
  <2>5. Files'
    BY <2>1, <2>2 DEF Files, Current
  <2>6. Lengths'
    <3>1. \A d \in 1 .. MaxObjects, l \in Key :
             d > objects \/ proc = "down" => len'[d][l] = 0
      <4>1. \A d \in 1 .. MaxObjects : d > objects => d # c
        BY <1>a, <2>1
      <4>2. \A d \in 1 .. MaxObjects, l \in Key : d > objects => len[d][l] = 0
        BY DEF Lengths
      <4> QED  BY <2>1, <2>3, <4>1, <4>2
    <3>2. ASSUME NEW g \in Handler, op'[g].do \in {"store", "flush"}
          PROVE  op'[g].index < len'[op'[g].obj][op'[g].key]
      <4>1. CASE g = h
        BY <2>1, <2>2, <2>3, <4>1
      <4>2. CASE g # h
        <5>1. op'[g] = op[g] /\ op[g].do \in AdditionStep
          BY <2>2, <3>2, <4>2 DEF AdditionStep
        <5>2. op[g].index < len[op[g].obj][op[g].key]
          BY <3>2, <5>1 DEF Lengths
        <5> QED  BY <1>d, <2>3, <5>1, <5>2
      <4> QED  BY <4>1, <4>2
    <3> QED  BY <2>2, <3>1, <3>2 DEF Lengths
  <2>7. Own'
    <3>1. ASSUME NEW n \in Name \ overlap, NEW l \in Key,
                 NEW r \in Range(records[makeStorageKey(n, l)])
          PROVE  r.index < len'[r.obj][l]
      <4>1. r.index < len[r.obj][l] /\ r.obj = live[n] /\ r.obj # 0
        BY <1>0 DEF Own
      <4>2. r.index \in Nat /\ r.obj \in 1 .. MaxObjects
        BY <1>a, <1>g, <4>1 DEF Block, Object
      <4> QED  BY <2>3, <4>1, <4>2
    <3>2. \A g \in Handler : op'[g] = op[g] \/ op'[g].do \notin DeletionStep
      BY <2>2, <2>9
    <3>3. overlap' = overlap /\ records' = records /\ live' = live
      BY <2>2
    <3> QED  BY <3>1, <3>2, <3>3, KeepsOwn
  <2>8. Exact'
    <3> SUFFICES ASSUME NEW m \in Name \ overlap', NEW l \in Key, Undisturbed(m)',
                        live'[m] # 0, <<live'[m], l>> \notin racy'
                 PROVE  InOrder(m, l)'
        BY Zenon DEF Exact
    <3>0. m \in Name \ overlap /\ live[m] # 0 /\ <<live[m], l>> \notin racy
      BY <2>2
    <3>5. Undisturbed(m)
      BY <1>h, <2>1, <2>2 DEF Undisturbed
    <3>1. InOrder(m, l)
      BY <3>0, <3>5 DEF Exact
    <3>2. live[m] \in 1 .. MaxObjects
      BY <1>a, <3>0 DEF Object
    <3>3. CASE m # op[h].name \/ l # k
      <4>1. ~ AddingTo(h, m, l) /\ ~ AddingTo(h, m, l)'
        BY <2>2, <3>3 DEF AddingTo
      <4>2. ~ (live[m] = c /\ l = k)
        BY <2>1, <3>3 DEF BlocksInv, Owner
      <4>3. len'[live[m]][l] = len[live[m]][l]
        BY <2>3, <3>2, <4>2
      <4> QED  BY <2>2, <3>1, <4>1, <4>3, KeepsOrder DEF AddingTo
    <3>4. CASE m = op[h].name /\ l = k
      <4> DEFINE recs == records[makeStorageKey(m, l)]
      <4>1. live[m] = c
        BY <1>0, <2>1, <3>0, <3>4 DEF Holds
      <4>2. \A g \in Handler : AddingTo(g, m, l) => g = h
        BY <2>1, <3>1, <3>4 DEF InOrder, AddingTo
      <4>3. len[c][k] = Len(recs)
        BY <2>1, <3>1, <3>4, <4>1, <4>2 DEF InOrder
      <4>4. \A g \in Handler : AddingTo(g, m, l)' => g = h
        BY <2>2, <4>2 DEF AddingTo
      <4>5. AddingTo(h, m, l)'
        BY <2>2, <3>4 DEF AddingTo, AdditionStep
      <4>6. op'[h].index = Len(recs) /\ len'[live[m]][l] = Len(recs) + 1
        BY <2>1, <2>2, <2>3, <3>4, <4>1, <4>3
      <4> QED  BY <2>2, <3>1, <4>4, <4>5, <4>6 DEF InOrder
    <3> QED  BY <3>3, <3>4
  <2> QED  BY <2>4, <2>5, <2>6, <2>7, <2>8
<1>10. ASSUME NEW h \in Handler, Store(h) PROVE HistoryInv'
  <2> DEFINE n == op[h].name
             k == op[h].key
             s == makeStorageKey(n, k)
  <2>1. /\ op[h] \in Addition /\ op[h].do = "store" /\ op[h].do \in AdditionStep
        /\ n \in Name /\ k \in Key /\ BlockOf(h) \in Block
    BY <1>0, <1>b, <1>d, <1>10, BlockOfType DEF Store, Ready, AdditionStep
  <2>2. /\ op'[h].do = "flush" /\ op'[h].obj = op[h].obj /\ op'[h].name = n
        /\ op'[h].key = k /\ op'[h].index = op[h].index
        /\ \A g \in Handler \ {h} : op'[g] = op[g]
        /\ UNCHANGED <<live, len, objects, dir, racy, broken, proc, overlap>>
    BY <1>a, <1>10, <2>1 DEF Store, Addition
  <2>3. \A m \in Name, l \in Key : records'[makeStorageKey(m, l)] =
           IF m = n /\ l = k THEN Append(records[makeStorageKey(m, l)], BlockOf(h))
           ELSE records[makeStorageKey(m, l)]
    <3>1. \A t \in StorageKey : records'[t] =
             IF t = s THEN Append(records[t], BlockOf(h)) ELSE records[t]
      BY <1>a, <1>10, <2>1, StorageKeyType DEF Store
    <3> QED  BY <2>1, <3>1, StorageKeyType, StorageKeysDistinct
  <2>9. "flush" \in AdditionStep /\ op'[h].do \notin DeletionStep
    BY <1>h, <2>2
  <2>4. Apart' /\ Holds'
    <3>1. \A g \in Handler : op'[g].do \in AdditionStep =>
             op[g].do \in AdditionStep /\ op'[g].name = op[g].name /\ op'[g].obj = op[g].obj
      BY <2>1, <2>2
    <3>2. \A g \in Handler : op'[g].do \in DeletionStep => op'[g] = op[g]
      BY <2>2, <2>9
    <3> QED  BY <1>d, <2>2, <3>1, <3>2, KeepsApart
  <2>5. Files'
    BY <2>1, <2>2 DEF Files, Current
  <2>6. Lengths'
    BY <2>1, <2>2 DEF Lengths
  <2>7. Own'
    <3> SUFFICES ASSUME NEW m \in Name \ overlap', NEW l \in Key,
                        NEW r \in Range(records'[makeStorageKey(m, l)])
                 PROVE  /\ r.obj = live'[m] /\ r.obj # 0 /\ r.key = l /\ r.index < len'[r.obj][l]
                        /\ \A g \in Handler : WillPurge(g, m, l, r)'
        BY Zenon DEF Own
    <3>0. m \in Name \ overlap /\ live' = live /\ len' = len
      BY <2>2
    <3>1. CASE r \in Range(records[makeStorageKey(m, l)])
      <4>1. /\ r.obj = live[m] /\ r.obj # 0 /\ r.key = l /\ r.index < len[r.obj][l]
            /\ \A g \in Handler : WillPurge(g, m, l, r)
        BY <3>0, <3>1 DEF Own
      <4>2. ASSUME NEW g \in Handler PROVE WillPurge(g, m, l, r)'
        <5>1. CASE g = h
          BY <2>9, <5>1 DEF WillPurge
        <5>2. CASE g # h
          BY <2>2, <4>1, <5>2 DEF WillPurge
        <5> QED  BY <5>1, <5>2
      <4> QED  BY <3>0, <4>1, <4>2
    <3>2. CASE r \notin Range(records[makeStorageKey(m, l)])
      <4>1. m = n /\ l = k /\ r = BlockOf(h)
        <5>1. m = n /\ l = k /\ records'[makeStorageKey(m, l)]
                                  = Append(records[makeStorageKey(m, l)], BlockOf(h))
          BY <2>3, <3>2
        <5>2. records[makeStorageKey(m, l)] \in Seq(Block)
          BY <1>a, StorageKeyType
        <5>3. Range(records'[makeStorageKey(m, l)])
                = Range(records[makeStorageKey(m, l)]) \cup {BlockOf(h)}
          <6>1. \A q \in Seq(Block), x \in Block : Range(Append(q, x)) = Range(q) \cup {x}
            BY RangeAppend
          <6> QED  BY <2>1, <5>1, <5>2, <6>1
        <5> QED  BY <3>2, <5>1, <5>3
      <4>2. r.obj = op[h].obj /\ r.key = k /\ r.index = op[h].index
        BY <4>1 DEF BlockOf
      <4>3. op[h].obj = live[m] /\ op[h].obj # 0
        BY <1>0, <2>1, <3>0, <4>1 DEF Holds, Created
      <4>4. op[h].index < len[op[h].obj][k]
        BY <2>1 DEF Lengths
      <4>5. ASSUME NEW g \in Handler PROVE WillPurge(g, m, l, r)'
        <5>1. CASE g = h
          BY <2>9, <5>1 DEF WillPurge
        <5>2. CASE g # h
          <6>1. ~ (op[g].do \in DeletionStep /\ op[g].name = m)
            BY <2>1, <3>0, <4>1 DEF Apart
          <6> QED  BY <2>2, <5>2, <6>1 DEF WillPurge
        <5> QED  BY <5>1, <5>2
      <4> QED  BY <3>0, <4>1, <4>2, <4>3, <4>4, <4>5
    <3> QED  BY <3>1, <3>2
  <2>8. Exact'
    <3> SUFFICES ASSUME NEW m \in Name \ overlap', NEW l \in Key, Undisturbed(m)',
                        live'[m] # 0, <<live'[m], l>> \notin racy'
                 PROVE  InOrder(m, l)'
        BY Zenon DEF Exact
    <3>0. m \in Name \ overlap /\ live[m] # 0 /\ <<live[m], l>> \notin racy
      BY <2>2
    <3>4. Undisturbed(m)
      BY <1>h, <2>1, <2>2 DEF Undisturbed
    <3>1. InOrder(m, l)
      BY <3>0, <3>4 DEF Exact
    <3>2. CASE m # n \/ l # k
      <4>1. ~ AddingTo(h, m, l) /\ ~ AddingTo(h, m, l)'
        BY <2>2, <3>2 DEF AddingTo
      <4> QED  BY <2>2, <2>3, <3>1, <3>2, <4>1, KeepsOrder DEF AddingTo
    <3>3. CASE m = n /\ l = k
      <4> DEFINE recs == records[makeStorageKey(m, l)]
                 new == records'[makeStorageKey(m, l)]
      <4>1. recs \in Seq(Block) /\ new = Append(recs, BlockOf(h))
        BY <1>a, <2>3, <3>3, StorageKeyType
      <4>2. /\ AddingTo(h, m, l) /\ op[h].index = Len(recs) /\ len[live[m]][l] = Len(recs) + 1
            /\ \A i \in 1 .. Len(recs) : recs[i] = [obj |-> live[m], key |-> l, index |-> i - 1]
            /\ \A g \in Handler : AddingTo(g, m, l) => g = h
        BY <2>1, <3>1, <3>3 DEF InOrder, AddingTo
      <4>3. BlockOf(h) = [obj |-> live[m], key |-> l, index |-> Len(recs)]
        BY <1>0, <2>1, <3>0, <3>3, <4>2 DEF Holds, BlockOf
      <4>4. \A g \in Handler : AddingTo(g, m, l)' => g = h
        BY <2>2, <4>2 DEF AddingTo
      <4>5. /\ Len(new) = Len(recs) + 1
            /\ \A i \in 1 .. Len(new) : new[i] = [obj |-> live[m], key |-> l, index |-> i - 1]
        <5> HIDE DEF recs, new
        <5> QED  BY <2>1, <4>1, <4>2, <4>3
      <4> QED  BY <2>2, <4>2, <4>4, <4>5 DEF InOrder
    <3> QED  BY <3>2, <3>3
  <2> QED  BY <2>4, <2>5, <2>6, <2>7, <2>8
<1>11. ASSUME NEW h \in Handler, StoreFails(h) PROVE HistoryInv'
  <2>1. /\ op'[h].do = "idle" /\ \A g \in Handler \ {h} : op'[g] = op[g]
        /\ op[h].do = "store" /\ op[h].do \in AdditionStep
        /\ UNCHANGED <<live, len, records, objects, dir, broken, proc, overlap>>
        /\ racy' = racy \cup {<<op[h].obj, op[h].key>>}
    BY <1>a, <1>c, <1>11 DEF StoreFails, Ready, AdditionStep
  <2>8. \A g \in Handler : op'[g] = op[g] \/ op'[g].do \notin AdditionStep \cup DeletionStep
    BY <1>c, <2>1
  <2>2. Apart' /\ Holds'
    BY <1>d, <2>1, <2>8, KeepsApart
  <2>3. Files'
    BY <2>1 DEF Files, Current
  <2>4. Lengths'
    BY <2>1 DEF Lengths
  <2>5. Own'
    BY <2>1, <2>8, KeepsOwn
  <2>6. Exact'
    <3>1. /\ overlap' = overlap /\ racy \subseteq racy' /\ records' = records
          /\ live' = live /\ len' = len
      BY <2>1
    <3>2. \A m \in Name : Undisturbed(m)' => Undisturbed(m)
      BY <1>h, <2>1 DEF Undisturbed
    <3>3. ASSUME NEW m \in Name \ overlap, NEW k \in Key, <<live[m], k>> \notin racy'
          PROVE  ~ AddingTo(h, m, k)
      <4>1. AddingTo(h, m, k) => op[h].obj = live[m] /\ op[h].key = k
        BY <1>0 DEF AddingTo, Holds
      <4> QED  BY <2>1, <3>3, <4>1
    <3>4. \A m \in Name \ overlap, k \in Key : <<live[m], k>> \notin racy' =>
             \A g \in Handler : /\ AddingTo(g, m, k)' => AddingTo(g, m, k) /\ op'[g] = op[g]
                                /\ AddingTo(g, m, k) => op'[g] = op[g]
      BY <2>1, <2>8, <3>3 DEF AddingTo
    <3> QED  BY <3>1, <3>2, <3>4, KeepsExact DEF Settled
  <2> QED  BY <2>2, <2>3, <2>4, <2>5, <2>6
<1>12. ASSUME NEW h \in Handler, Flush(h) PROVE HistoryInv'
  <2>1. /\ op'[h].do = "idle" /\ \A g \in Handler \ {h} : op'[g] = op[g]
        /\ op[h].do = "flush" /\ op[h].do \in AdditionStep /\ proc # "down"
        /\ UNCHANGED <<live, len, records, objects, racy, broken, proc, overlap>>
    BY <1>a, <1>c, <1>12 DEF Flush, Ready, AdditionStep
  <2>2. \A m \in Name : /\ dir'[m].docs = dir[m].docs
                        /\ \/ dir'[m].vectors = dir[m].vectors
                           \/ m = op[h].name /\ dir'[m].vectors = op[h].obj
    <3>1. op[h].name \in Name
      BY <1>d, <2>1
    <3>2. \/ UNCHANGED dir
          \/ dir' = [dir EXCEPT ![op[h].name].vectors = op[h].obj]
      BY <1>12 DEF Flush
    <3>3. \A m \in Name : dir[m] \in Directory
      BY <1>a
    <3>4. \A m \in Name :
             dir'[m] = dir[m] \/ (m = op[h].name /\ dir'[m] = [dir[m] EXCEPT !.vectors = op[h].obj])
      BY <1>a, <3>1, <3>2
    <3> QED  BY <3>3, <3>4 DEF Directory
  <2>8. \A g \in Handler : op'[g] = op[g] \/ op'[g].do \notin AdditionStep \cup DeletionStep
    BY <1>c, <2>1
  <2>3. Apart' /\ Holds'
    BY <1>d, <2>1, <2>8, KeepsApart
  <2>4. Files'
    BY <2>1, <2>2 DEF Files, Current, Holds
  <2>5. Lengths'
    BY <2>1 DEF Lengths
  <2>6. Own'
    BY <2>1, <2>8, KeepsOwn
  <2>7. Exact'
    <3>1. /\ overlap' = overlap /\ racy' = racy /\ records' = records
          /\ live' = live /\ len' = len
      BY <2>1
    <3>2. \A m \in Name : Undisturbed(m)' => Undisturbed(m)
      BY <1>h, <2>1 DEF Undisturbed
    <3>3. op[h].do # "store"
      BY <2>1
    <3>4. \A m \in Name, k \in Key : \A g \in Handler :
             /\ AddingTo(g, m, k)' => AddingTo(g, m, k) /\ op'[g] = op[g]
             /\ AddingTo(g, m, k) /\ op[g].do = "store" => op'[g] = op[g]
      BY <2>1, <2>8, <3>3 DEF AddingTo
    <3> QED  BY <3>1, <3>2, <3>4, KeepsExact DEF Settled
  <2> QED  BY <2>3, <2>4, <2>5, <2>6, <2>7
<1>13. ASSUME Close \/ UNCHANGED vars PROVE HistoryInv'
  <2>1. /\ UNCHANGED <<op, live, len, records, objects, racy, broken, overlap>>
        /\ proc' = proc \/ (proc # "down" /\ proc' = "closing")
        /\ \A n \in Name : \/ dir'[n] = dir[n]
                           \/ /\ proc # "down" /\ dir'[n].vectors = live[n]
                              /\ dir'[n].docs = live[n]
    BY <1>a, <1>13 DEF Close, vars, Saved, Directory
  <2>2. Apart' /\ Holds'
    BY <1>d, <2>1, KeepsApart
  <2>6. Lengths'
    BY <2>1 DEF Lengths
  <2>3. Files'
    BY <2>1 DEF Files, Current
  <2>4. Own'
    BY <2>1, KeepsOwn
  <2>5. Exact'
    <3>1. \A m \in Name : Undisturbed(m)' => Undisturbed(m)
      BY <2>1 DEF Undisturbed
    <3>2. \A m \in Name, k \in Key : \A g \in Handler : AddingTo(g, m, k)' => AddingTo(g, m, k)
      BY <2>1 DEF AddingTo
    <3> QED  BY <2>1, <3>1, <3>2, KeepsExact DEF Settled
  <2> QED  BY <2>2, <2>3, <2>4, <2>5, <2>6
<1>14. ASSUME Restart PROVE HistoryInv'
  <2>1. /\ UNCHANGED <<op, len, records, objects, dir, racy, broken, overlap>>
        /\ proc = "down" /\ proc' = "run" /\ \A n \in Name : live'[n] = dir[n].meta
    BY <1>14 DEF Restart, LoadCollectionMeta
  <2>2. \A h \in Handler : op[h].do = "idle"
    BY <1>c, <2>1 DEF CatalogInv, Stopped
  <2>3. \A n \in Name \ overlap, k \in Key : records[makeStorageKey(n, k)] = << >>
    <3>1. \A n \in Name : live[n] = 0
      BY <2>1 DEF CatalogInv, Stopped
    <3> QED  BY <1>0, <3>1, Vacant
  <2>4. Apart' /\ Holds' /\ Lengths'
    BY <1>c, <2>1, <2>2 DEF Apart, Holds, Lengths
  <2>5. Files'
    BY <2>1 DEF Files, Current
  <2>6. Own'
    <3>1. Range(<< >>) = {}
      BY DEF Range
    <3>2. \A n \in Name \ overlap', k \in Key : Range(records'[makeStorageKey(n, k)]) = {}
      BY <2>1, <2>3, <3>1
    <3> QED  BY <3>2, Zenon DEF Own
  <2>7. Exact'
    <3> SUFFICES ASSUME NEW m \in Name \ overlap', NEW k \in Key, live'[m] # 0
                 PROVE  InOrder(m, k)'
        BY Zenon DEF Exact
    <3>1. live'[m] \in 1 .. MaxObjects
      BY <1>0, <1>a DEF Types, Object
    <3>2. len'[live'[m]][k] = 0 /\ \A h \in Handler : ~ AddingTo(h, m, k)'
      BY <1>c, <2>1, <2>2, <3>1 DEF Lengths, AddingTo
    <3>3. records'[makeStorageKey(m, k)] = << >>
      BY <2>1, <2>3
    <3> QED  BY <3>2, <3>3 DEF InOrder
  <2> QED  BY <2>4, <2>5, <2>6, <2>7
<1>15. ASSUME Down, cmMu = Free, UNCHANGED broken,
              \A n \in Name : /\ dir'[n].meta = dir[n].meta
                              /\ dir'[n].vectors = dir[n].vectors /\ dir'[n].docs = dir[n].docs
       PROVE  HistoryInv'
  <2>1. proc # "down"
    BY <1>15 DEF Down
  <2>2. \A n \in Name : live[n] = dir[n].meta
    BY <1>e, <1>15, <2>1 DEF CatalogInv, InStep
  <2> QED  BY <1>8, <1>e, <1>15, <2>2
<1>16. ASSUME NEW n \in Name, CrashInCreate(n) PROVE HistoryInv'
  <2>1. \A m \in Name : /\ dir'[m].meta = dir[m].meta
                        /\ dir'[m].vectors = dir[m].vectors /\ dir'[m].docs = dir[m].docs
    BY <1>a, <1>16 DEF CrashInCreate, Directory
  <2> QED  BY <1>15, <1>16, <2>1 DEF CrashInCreate
<1>17. ASSUME NEW h \in Handler, CrashInRemoveAll(h) PROVE HistoryInv'
  <2>1. /\ Down /\ proc # "down" /\ op[h].do = "rmdir" /\ broken' = broken \cup {op[h].name}
        /\ overlap' = overlap
        /\ \A n \in Name : n # op[h].name => dir'[n] = dir[n]
    BY <1>0, <1>a, <1>17 DEF CrashInRemoveAll, Down, Lock
  <2>2. \A g \in Handler : op[g].do = "rmdir" => g = h
    BY <1>0, <1>17 DEF CrashInRemoveAll, Lock
  <2>3. \A n \in Name : n # op[h].name => live[n] = dir[n].meta
    BY <2>1, <2>2 DEF CatalogInv, InStep
  <2> QED  BY <1>8, <2>1, <2>2, <2>3
<1>18. ASSUME Crash PROVE HistoryInv'
  BY <1>15, <1>18 DEF Crash
<1> QED
  BY <1>1, <1>2, <1>3, <1>4, <1>5, <1>6, <1>7, <1>9, <1>10, <1>11, <1>12, <1>13,
     <1>14, <1>16, <1>17, <1>18 DEF Next

(* HistoryInv holds in every state.                                        *)
LEMMA History == Spec => [](CatalogInv /\ HistoryInv)
<1>1. Init => BlocksInv /\ HistoryInv
  <2> SUFFICES ASSUME Init PROVE BlocksInv /\ HistoryInv
      OBVIOUS
  <2>1. /\ acked = {} /\ \A h \in Handler : op[h].do = "idle"
        /\ \A n \in Name : live[n] = 0 /\ dir[n].vectors = 0 /\ dir[n].docs = 0
        /\ \A s \in StorageKey : records[s] = << >>
        /\ \A c \in 1 .. MaxObjects, k \in Key : len[c][k] = 0
    BY DEF Init, Idle, NoDir
  <2>2. BlocksInv
    BY <2>1 DEF BlocksInv, Owner, Written, Recorded, AdditionStep
  <2>3. Apart /\ Holds /\ Lengths /\ Exact
    BY <2>1 DEF Apart, Holds, Lengths, Exact, AdditionStep
  <2>4. Own
    BY <2>1, StorageKeyType DEF Own, Range
  <2>5. Files
    BY <2>1 DEF Files
  <2> QED  BY <2>2, <2>3, <2>4, <2>5 DEF HistoryInv
<1>2. CatalogInv /\ BlocksInv /\ [Next]_vars => BlocksInv'
  BY BlocksStep
<1>3. CatalogInv /\ BlocksInv /\ HistoryInv /\ [Next]_vars => HistoryInv'
  BY HistoryStep
<1> QED  BY InitCatalog, CatalogStep, <1>1, <1>2, <1>3, PTL DEF Spec

(* Unless an append and a deletion of a collection overlapped, the records *)
(* under its storage keys are blocks of the collection that has the name   *)
(* now: DeleteCollection purges every record before the name is free, and  *)
(* nothing is left for a collection created later.                         *)
THEOREM OwnRecordsOnly == Spec => []OwnRecords
<1>1. HistoryInv => OwnRecords
  BY DEF HistoryInv, Own, OwnRecords
<1> QED  BY History, <1>1, PTL

(* GetBlock returns the block with the index it is asked for, for every    *)
(* array whose appends did not overlap, fail, or meet a deletion: what     *)
(* coll.AppendBlock gives as index is the place of the record that         *)
(* Manager.Append writes later.                                            *)
THEOREM BlocksInOrder == Spec => []GetBlockExact
<1>1. CatalogInv /\ HistoryInv => GetBlockExact
  <2> SUFFICES ASSUME CatalogInv, HistoryInv, NEW n \in Name \ overlap, NEW k \in Key,
                      Deleting(n) = {}, live[n] # 0, <<live[n], k>> \notin racy
               PROVE  \A i \in 1 .. Len(records[makeStorageKey(n, k)]) :
                        records[makeStorageKey(n, k)][(i - 1) + 1]
                          = [obj |-> live[n], key |-> k, index |-> i - 1]
      BY DEF GetBlockExact, GetBlock
  <2>1. InOrder(n, k)
    BY DEF HistoryInv, Exact, Undisturbed, Deleting
  <2>2. Len(records[makeStorageKey(n, k)]) \in Nat
    BY StorageKeyType DEF CatalogInv, Types
  <2>3. \A i \in 1 .. Len(records[makeStorageKey(n, k)]) : (i - 1) + 1 = i
    BY <2>2
  <2> QED  BY <2>1, <2>3 DEF InOrder
<1> QED  BY History, <1>1, PTL

(* Unless an append and a deletion overlapped, or a crash hit RemoveAll,   *)
(* the index files of a directory were written for the collection that has *)
(* the name, so that a start loads nothing of a deleted one.               *)
THEOREM IndexFilesOwn == Spec => []FilesOwn
<1>1. CatalogInv /\ HistoryInv => FilesOwn
  BY Bounds DEF CatalogInv, Lock, HistoryInv, Files, FilesOwn, Current
<1> QED  BY History, <1>1, PTL
===============================================================================
