----------------------------- MODULE VectorManager -----------------------------
(***************************************************************************)
(* The vector store as a whole (internal/storage/vector_manager.go): one   *)
(* collection, the bucket store and the write-ahead log, used by several   *)
(* request handlers at a time, with crashes, shutdowns and restarts.       *)
(*                                                                         *)
(* VectorManager takes no lock of its own in AppendBlock, DeleteKey or     *)
(* BatchAppendBlocks: the steps of a request (log, update the collection,  *)
(* write the record, flush) interleave with those of the others.  The      *)
(* recovery in NewVectorManager replays the log through the same           *)
(* AppendBlock and DeleteKey, and stops at the first error.  Close runs    *)
(* in the main goroutine while the handlers go on.  The collection exists  *)
(* in the initial state; storage keys are keys, since there is only one    *)
(* collection.  A block carries a primary data of its own (prim), so that  *)
(* two appends can be told apart, and each block is appended once.         *)
(***************************************************************************)
EXTENDS Naturals, Sequences, FiniteSets, FiniteSetsExt, Functions

CONSTANTS
    Proc,        \* request handlers
    Boot,        \* the goroutine that recovers from the log
    Key, Keyword, Vector, NoVector, BadVector,
    Block,       \* blocks: records with fields prim, vec and kws
    Encodable,   \* the blocks EncodeEntry accepts
    Batches,     \* batches clients send: sequences of [key, block]
    Ops,         \* operations clients call: a subset of {"add", "delete", "batch"}
    Bucket, BucketOf, Torn,
    MaxDeletes,  \* bounds of the model on the deletes,
    MaxCrashes,  \* the crashes
    MaxCloses    \* and the shutdowns

ASSUME ActorAssumption == Boot \notin Proc

ASSUME InputAssumption ==
    /\ Encodable \subseteq Block
    /\ \A b \in Block : /\ b.vec \in Vector \cup {NoVector, BadVector}
                        /\ b.kws \in SUBSET Keyword
    /\ NoVector \notin Vector /\ BadVector \notin Vector
    /\ Batches \subseteq Seq([key : Key, block : Block])

ASSUME KeyAssumption == BucketOf \in [Key -> Bucket]

VARIABLES
    hnsw, docMap, postings, keyLengths, keyIndex, mu, todo, vecs, given,
    file, index, idxFile, state, phase, entries, pending, hidden,
    wal, synced, stream, open, logged,
    disk,      \* vectors.hnsw, keywords.inv and doc_map.bin
    status,    \* of the process
    op,        \* what each goroutine is doing
    replay,    \* log entries recovery has not reached
    script,    \* the steps of Close that are left
    used,      \* auxiliary: blocks that were sent
    stored,    \* auxiliary: appends that returned success and no delete followed
    last,      \* auxiliary: the state at an undisturbed Close, if any
    count      \* auxiliary: deletes, crashes and shutdowns so far

\* What EncodeEntry makes of a block: its primary data and its vector id.
Encoding == [prim : {b.prim : b \in Block}, id : Nat]

C == INSTANCE Collection WITH MaxID <- 0
S == INSTANCE ShardStore WITH todo <- entries, Caller <- Proc \cup {Boot},
                              Payload <- Encoding, MaxRecords <- << >>
W == INSTANCE WriteAheadLog WITH acked <- logged, Entry <- {}, Calls <- {},
                                 MaxEntries <- 0, MaxStreams <- 0

indexes == <<hnsw, docMap, postings, keyLengths, keyIndex, given>>
collection == <<indexes, mu, todo, vecs>>
store == <<file, index, idxFile, state, phase, entries, pending, hidden>>
log == <<wal, synced, stream, open, logged>>
ghosts == <<used, stored, last, count>>
control == <<disk, status, replay, script>>
vars == <<collection, store, log, control, op, ghosts>>

Actor == Proc \cup {Boot}
Idle == [pc |-> "idle"]
At(p, pc) == op[p].pc = pc
Goto(p, pc) == op' = [op EXCEPT ![p].pc = pc]
AllIdle == \A p \in Actor : op[p] = Idle

AddEntry(k, b) == [do |-> "add", key |-> k, block |-> b]

DeleteEntry(k) == [do |-> "delete", key |-> k]

\* AppendBlock, with its variables idx and id, or DeleteKey, for an entry.
Operation(e) ==
    IF e.do = "add"
    THEN [pc |-> "logged", do |-> "add", key |-> e.key, block |-> e.block, idx |-> 0, id |-> 0]
    ELSE [pc |-> "logged", do |-> "delete", key |-> e.key]

NoFiles == [hnsw |-> << >>, kw |-> [w \in Keyword |-> {}],
            doc |-> [docMap |-> << >>, given |-> << >>]]

\* A collection just created, in a server that is about to start.
Init ==
    /\ C!Init /\ S!Init /\ W!Init
    /\ disk = [data |-> NoFiles, torn |-> {}]
    /\ status = "down" /\ replay = << >> /\ script = << >>
    /\ op = [p \in Actor |-> Idle]
    /\ used = {} /\ stored = {} /\ last = {}
    /\ count = [deletes |-> 0, crashes |-> 0, closes |-> 0]

-------------------------------------------------------------------------------
(***************************************************************************)
(* The end of a request.  An error ends the recovery.                      *)
(***************************************************************************)
Fail(p) ==
    /\ op' = [op EXCEPT ![p] = Idle]
    /\ replay' = IF p = Boot THEN << >> ELSE replay
    /\ UNCHANGED <<disk, status, script, ghosts>>

Succeed(p, blocks) ==
    /\ op' = [op EXCEPT ![p] = Idle]
    /\ stored' = IF p = Boot THEN stored ELSE stored \cup blocks
    /\ UNCHANGED <<status, replay, script, used, last, count>>

-------------------------------------------------------------------------------
(***************************************************************************)
(* A request starts: its entries go to the log.  Handlers are served until *)
(* the process ends; the log refuses entries once Close has closed it.     *)
(***************************************************************************)
Begin(p, o, es) ==
    /\ op[p] = Idle
    /\ W!Log(es)
    /\ op' = [op EXCEPT ![p] = o]
    /\ UNCHANGED <<collection, store, disk, status, script>>

\* A client's request: a Close under way is no longer undisturbed.
Request(p, o, es) ==
    /\ o.do \in Ops /\ status \in {"up", "closing"}
    /\ Begin(p, o, es)
    /\ last' = {}
    /\ UNCHANGED replay

RequestAppend(p, k, b) ==
    /\ b \notin used /\ used' = used \cup {b}
    /\ Request(p, Operation(AddEntry(k, b)), <<AddEntry(k, b)>>)
    /\ UNCHANGED <<stored, count>>

RequestDelete(p, k) ==
    /\ count.deletes < MaxDeletes /\ count' = [count EXCEPT !.deletes = @ + 1]
    /\ Request(p, Operation(DeleteEntry(k)), <<DeleteEntry(k)>>)
    /\ stored' = {s \in stored : s.key # k}
    /\ UNCHANGED used

RequestBatch(p, items) ==
    /\ \A n \in DOMAIN items : items[n].block \notin used
    /\ used' = used \cup {items[n].block : n \in DOMAIN items}
    /\ Request(p, [pc |-> "logged", do |-> "batch", items |-> items, ids |-> << >>, ok |-> TRUE],
               [n \in DOMAIN items |-> AddEntry(items[n].key, items[n].block)])
    /\ UNCHANGED <<stored, count>>

\* recoverFromWAL calls AppendBlock or DeleteKey for the next entry.
Recover ==
    /\ status = "recovering" /\ replay # << >>
    /\ Begin(Boot, Operation(Head(replay)), <<Head(replay)>>)
    /\ replay' = Tail(replay)
    /\ UNCHANGED ghosts

Mut_LogSynced(p) ==
    /\ At(p, "logged")
    /\ Goto(p, "apply")
    /\ UNCHANGED <<collection, store, log, control, ghosts>>

LogSynced(p) ==
    /\ At(p, "logged")
    /\ W!Sync
    /\ Goto(p, "apply")
    /\ UNCHANGED <<collection, store, control, ghosts>>

-------------------------------------------------------------------------------
(***************************************************************************)
(* AppendBlock.                                                            *)
(***************************************************************************)
Mut_ApplyAppend(p) ==
    /\ At(p, "apply") /\ op[p].do = "add"
    /\ \/ /\ C!AppendBlock(op[p].key, op[p].block)
          /\ op' = [op EXCEPT ![p].pc = "lookup", ![p].idx = C!KeyLength(op[p].key)]
       \/ C!AppendBlockFails(op[p].block) /\ UNCHANGED op
    /\ UNCHANGED <<store, log, control, ghosts>>

ApplyAppend(p) ==
    /\ At(p, "apply") /\ op[p].do = "add"
    /\ \/ /\ C!AppendBlock(op[p].key, op[p].block)
          /\ op' = [op EXCEPT ![p].pc = "lookup", ![p].idx = C!KeyLength(op[p].key)]
          /\ UNCHANGED <<control, ghosts>>
       \/ C!AppendBlockFails(op[p].block) /\ Fail(p)
    /\ UNCHANGED <<store, log>>

\* GetBlockVectorID, for the index that coll.AppendBlock returned.
Lookup(p) ==
    /\ At(p, "lookup") /\ mu = "free"
    /\ \/ /\ \E id \in C!BlockIDs(op[p].key, op[p].idx) :
               op' = [op EXCEPT ![p].pc = "store", ![p].id = id]
          /\ UNCHANGED <<control, ghosts>>
       \/ C!BlockIDs(op[p].key, op[p].idx) = {} /\ Fail(p)
    /\ UNCHANGED <<collection, store, log>>

EncodeEntry(b, id) == [prim |-> b.prim, id |-> id]

Mut_StoreAppend(p) ==
    /\ At(p, "store")
    /\ IF op[p].block.vec = NoVector THEN UNCHANGED store
       ELSE S!AppendRecord(op[p].key, EncodeEntry(op[p].block, op[p].id))
    /\ Goto(p, "flush")
    /\ UNCHANGED <<control, ghosts, collection, log>>

\* EncodeEntry and Manager.Append.
StoreAppend(p) ==
    /\ At(p, "store")
    /\ \/ /\ op[p].block \in Encodable
          /\ S!AppendRecord(op[p].key, EncodeEntry(op[p].block, op[p].id))
          /\ Goto(p, "flush")
          /\ UNCHANGED <<control, ghosts>>
       \/ op[p].block \in Encodable /\ S!AppendFails(op[p].key) /\ Fail(p)
       \/ op[p].block \notin Encodable /\ Fail(p) /\ UNCHANGED store
    /\ UNCHANGED <<collection, log>>

\* HNSWIndex.Save, KeywordIndex.Save and DocMap.Save truncate their file, ...
Truncate(f) == disk' = [disk EXCEPT !.torn = @ \cup {f}]

\* ... and then write it.
Write(f, data) == disk' = [disk EXCEPT !.data[f] = data, !.torn = @ \ {f}]

\* FlushHNSW saves the HNSW index under c.mu.
FlushBegin(p) ==
    /\ At(p, "flush") /\ mu = "free"
    /\ mu' = "flush"
    /\ Truncate("hnsw")
    /\ Goto(p, "flushing")
    /\ UNCHANGED <<indexes, todo, vecs, store, log, status, replay, script, ghosts>>

FlushEnd(p) ==
    /\ At(p, "flushing")
    /\ mu' = "free"
    /\ Write("hnsw", hnsw)
    /\ Succeed(p, {[key |-> op[p].key, block |-> op[p].block]})
    /\ UNCHANGED <<indexes, todo, vecs, store, log>>

-------------------------------------------------------------------------------
(***************************************************************************)
(* DeleteKey: the bucket store is not told.                                *)
(***************************************************************************)
Mut_ApplyDelete(p) ==
    /\ At(p, "apply") /\ op[p].do = "delete"
    /\ \/ /\ C!DeleteKey(op[p].key)
          /\ op' = [op EXCEPT ![p] = Idle]
       \/ C!DeleteKeyFails(op[p].key) /\ UNCHANGED op
    /\ UNCHANGED <<store, log, control, ghosts>>

ApplyDelete(p) ==
    /\ At(p, "apply") /\ op[p].do = "delete"
    /\ \/ /\ C!DeleteKey(op[p].key)
          /\ op' = [op EXCEPT ![p] = Idle]
          /\ UNCHANGED <<control, ghosts>>
       \/ C!DeleteKeyFails(op[p].key) /\ Fail(p)
    /\ UNCHANGED <<store, log>>

-------------------------------------------------------------------------------
(***************************************************************************)
(* BatchAppendBlocks.                                                      *)
(***************************************************************************)
ApplyBatch(p) ==
    /\ op[p] # Idle /\ op[p].do = "batch"
    /\ \/ At(p, "apply") /\ C!BatchBegin(op[p].items) /\ Goto(p, "batch")
       \/ /\ At(p, "batch") /\ C!BatchItem
          /\ op' = [op EXCEPT ![p].ids = Append(@, C!GetNextVectorID)]
       \/ At(p, "batch") /\ C!BatchVector /\ UNCHANGED op
       \/ At(p, "batch") /\ C!BatchEnd /\ Goto(p, "batchStore")
    /\ UNCHANGED <<store, log, control, ghosts>>

\* The items of the batch that EncodeEntry accepts, and batchEntries: the map
\* from key to entry, in which a later item of a key replaces an earlier one.
Encoded(p) == {n \in DOMAIN op[p].items : op[p].items[n].block \in Encodable}

BatchEntries(p) ==
    [k \in {op[p].items[n].key : n \in Encoded(p)} |->
        LET n == Max({m \in Encoded(p) : op[p].items[m].key = k})
        IN  EncodeEntry(op[p].items[n].block, op[p].ids[n])]

BatchSuccess(p) == Succeed(p, {op[p].items[n] : n \in Encoded(p)}) /\ UNCHANGED disk

StoreBatch(p) ==
    /\ At(p, "batchStore")
    /\ \/ S!BatchBegin(p, BatchEntries(p)) /\ Goto(p, "batchWait") /\ UNCHANGED <<control, ghosts>>
       \/ Encoded(p) = {} /\ BatchSuccess(p) /\ UNCHANGED store
    /\ UNCHANGED <<collection, log>>

\* The goroutines of BatchAppend.
StoreBatchStep(p, b) ==
    /\ At(p, "batchWait")
    /\ \/ (S!BatchWrite(p, b) \/ S!BatchIndex(p, b)) /\ UNCHANGED op
       \/ S!BatchWriteFails(p, b) /\ op' = [op EXCEPT ![p].ok = FALSE]
    /\ UNCHANGED <<collection, log, control, ghosts>>

StoreBatchEnd(p) ==
    /\ At(p, "batchWait") /\ S!BatchIdle(p)
    /\ IF op[p].ok THEN BatchSuccess(p) ELSE Fail(p)
    /\ UNCHANGED <<collection, store, log>>

-------------------------------------------------------------------------------
(***************************************************************************)
(* Close: Checkpoint (Save, then truncate the log), close the log, save    *)
(* the collection again, close the bucket store.                           *)
(***************************************************************************)
Mut_Save == <<"lock", "truncateHNSW", "writeHNSW", "truncateKw", "writeKw", "unlock">>

Save == <<"lock", "truncateHNSW", "writeHNSW", "truncateKw", "writeKw",
          "truncateDoc", "writeDoc", "unlock">>

CloseBegin ==
    /\ status = "up" /\ status' = "closing"
    /\ count.closes < MaxCloses /\ count' = [count EXCEPT !.closes = @ + 1]
    /\ script' = Save \o <<"checkpoint", "closeWAL">> \o Save \o <<"store">>
    /\ last' = IF AllIdle THEN {<<hnsw, docMap, postings, keyLengths, keyIndex, index>>} ELSE {}
    /\ UNCHANGED <<collection, store, log, disk, replay, op, used, stored>>

Locked(from, to) ==
    /\ mu = from /\ mu' = to
    /\ UNCHANGED <<indexes, todo, vecs, log, disk>>

SaveFile(step) ==
    /\ step /\ UNCHANGED <<collection, log>>

DoClose(step) ==
    CASE step = "lock" -> Locked("free", "save")
      [] step = "truncateHNSW" -> SaveFile(Truncate("hnsw"))
      [] step = "writeHNSW" -> SaveFile(Write("hnsw", hnsw))
      [] step = "truncateKw" -> SaveFile(Truncate("kw"))
      [] step = "writeKw" -> SaveFile(Write("kw", postings))
      [] step = "truncateDoc" -> SaveFile(Truncate("doc"))
      [] step = "writeDoc" -> SaveFile(Write("doc", [docMap |-> docMap, given |-> given]))
      [] step = "unlock" -> Locked("save", "free")
      [] step = "checkpoint" -> W!Checkpoint /\ UNCHANGED <<collection, disk>>
      [] step = "closeWAL" -> W!Close /\ UNCHANGED <<collection, disk>>
      [] step = "store" -> FALSE

CloseStep ==
    /\ status = "closing" /\ script # << >>
    /\ \/ DoClose(Head(script)) /\ script' = Tail(script) /\ UNCHANGED store
       \/ /\ Head(script) = "store"
          /\ S!Close \/ \E b \in Bucket : S!TruncateIndex(b) \/ S!WriteIndex(b) \/ S!CloseFile(b)
          /\ UNCHANGED <<collection, log, disk, script>>
    /\ UNCHANGED <<status, replay, op, ghosts>>

\* The process is gone: what is in memory is lost.
Halt ==
    /\ hnsw' = << >> /\ docMap' = << >> /\ given' = << >>
    /\ postings' = [w \in Keyword |-> {}]
    /\ keyLengths' = << >> /\ keyIndex' = << >>
    /\ mu' = "free" /\ todo' = << >> /\ vecs' = << >>
    /\ W!Crash
    /\ status' = "down" /\ replay' = << >> /\ script' = << >>
    /\ op' = [p \in Actor |-> Idle]
    /\ UNCHANGED <<disk, used, stored>>

\* main returns, whatever the handlers do.
Exit == status = "closing" /\ S!Exit /\ Halt /\ UNCHANGED <<last, count>>

Crash ==
    /\ status \in {"loading", "recovering", "up", "closing"}
    /\ count.crashes < MaxCrashes /\ count' = [count EXCEPT !.crashes = @ + 1]
    /\ S!Crash /\ Halt
    /\ last' = {}

-------------------------------------------------------------------------------
(***************************************************************************)
(* NewVectorManager: the bucket store, the collections, the log, recovery. *)
(***************************************************************************)
Start ==
    /\ status = "down" /\ status' = "loading"
    /\ S!Start
    /\ UNCHANGED <<collection, log, disk, replay, script, op, ghosts>>

LoadBucket(b) ==
    /\ status = "loading"
    /\ S!LoadIndex(b) \/ S!RebuildIndex(b)
    /\ UNCHANGED <<collection, log, control, op, ghosts>>

Mut_LengthsOf(dm) ==
    [k \in {dm[id].key : id \in DOMAIN dm} |->
        Max({dm[id].index : id \in {i \in DOMAIN dm : dm[i].key = k}})]

\* rebuildMemoryIndexes.
LengthsOf(dm) ==
    [k \in {dm[id].key : id \in DOMAIN dm} |->
        Max({dm[id].index : id \in {i \in DOMAIN dm : dm[i].key = k}}) + 1]

IDsByKey(dm) ==
    [k \in {dm[id].key : id \in DOMAIN dm} |-> {id \in DOMAIN dm : dm[id].key = k}]

LoadCollection ==
    /\ status = "loading" /\ phase = "open" /\ disk.torn = {}
    /\ hnsw' = disk.data.hnsw /\ postings' = disk.data.kw
    /\ docMap' = disk.data.doc.docMap /\ given' = disk.data.doc.given
    /\ keyLengths' = LengthsOf(docMap') /\ keyIndex' = IDsByKey(docMap')
    /\ W!NewWAL
    /\ replay' = W!Replay
    /\ status' = "recovering"
    /\ UNCHANGED <<mu, todo, vecs, store, disk, script, op, ghosts>>

\* A file that cannot be decoded: loadCollection returns the error and the
\* server does not start, now or later.  baseMgr.Close saves the bucket indexes
\* as they were loaded.
LoadFails ==
    /\ status = "loading" /\ phase = "open" /\ disk.torn # {}
    /\ status' = "failed"
    /\ S!Halt
    /\ UNCHANGED <<collection, log, disk, replay, script, op, ghosts>>

RecoverEnd ==
    /\ status = "recovering" /\ replay = << >> /\ op[Boot] = Idle
    /\ status' = "up" /\ last' = {}
    /\ UNCHANGED <<collection, store, log, disk, replay, script, op, used, stored, count>>

-------------------------------------------------------------------------------
Step(p) ==
    \/ LogSynced(p)
    \/ ApplyAppend(p) \/ Lookup(p) \/ StoreAppend(p) \/ FlushBegin(p) \/ FlushEnd(p)
    \/ ApplyDelete(p)
    \/ ApplyBatch(p) \/ StoreBatch(p) \/ StoreBatchEnd(p)
    \/ \E b \in Bucket : StoreBatchStep(p, b)

MainStep ==
    \/ Start \/ LoadCollection \/ LoadFails \/ RecoverEnd \/ CloseStep \/ Exit
    \/ \E b \in Bucket : LoadBucket(b)

\* The server waits for requests, or cannot start.
Quiescent == status = "failed" \/ (status = "up" /\ AllIdle)

Waiting == Quiescent /\ UNCHANGED vars

Next ==
    \/ \E p \in Proc : \/ \E k \in Key, b \in Block : RequestAppend(p, k, b)
                       \/ \E k \in Key : RequestDelete(p, k)
                       \/ \E items \in Batches : RequestBatch(p, items)
    \/ Recover
    \/ \E p \in Actor : Step(p)
    \/ MainStep
    \/ CloseBegin \/ Crash
    \/ Waiting

Spec == Init /\ [][Next]_vars

(***************************************************************************)
(* Every goroutine that can run does, and the locks it waits for (c.mu,    *)
(* w.mu, WriteLock, IndexLock) are held for a bounded number of steps.     *)
(* Requests, shutdowns and crashes are up to the environment.              *)
(***************************************************************************)
Fairness ==
    /\ \A p \in Actor : WF_vars(Step(p))
    /\ WF_vars(Recover) /\ WF_vars(MainStep)

FairSpec == Spec /\ Fairness

-------------------------------------------------------------------------------
(***************************************************************************)
(* Properties.                                                             *)
(***************************************************************************)

\* Every variable that belongs to this module has the type of what it models.
TypeOK ==
    /\ disk.torn \subseteq {"hnsw", "kw", "doc"}
    /\ status \in {"down", "loading", "recovering", "up", "closing", "failed"}
    /\ DOMAIN op = Actor
    /\ mu \in {"free", "batch", "flush", "save"}
    /\ used \subseteq Block /\ stored \subseteq [key : Key, block : Block]
    /\ logged \in Seq([stream : Nat, entry : {AddEntry(k, b) : k \in Key, b \in Block}
                                             \cup {DeleteEntry(k) : k \in Key}])

\* Write-ahead: as long as the server is not being shut down, a block that is in
\* the collection and not in doc_map.bin is in the synced part of the log.
WriteAhead ==
    status \in {"recovering", "up"} =>
       \A id \in DOMAIN docMap :
          \/ given[id] \in Range(disk.data.doc.given)
          \/ \E n \in 1 .. synced : wal[n].entry = AddEntry(docMap[id].key, given[id])

\* The bucket index never points to a wrong record and no record is lost from
\* it, with requests, recovery and Close running against each other.
StoreConsistent == TypeOK /\ S!IndexSound /\ S!EveryRecordIndexed

\* The same of the indexes of the collection: KeyLengths, KeyIndex and DocMap
\* agree, every array is dense and a keyword search finds every live block, also
\* after a crash or a shutdown in the middle of requests or between the saves of
\* two files, rebuildMemoryIndexes and a recovery that stopped half way.
IndexesConsistent == StoreConsistent /\ C!KeyIndexAgrees /\ C!BlocksDense /\ C!KeywordsFound

\* GetBlock finds a record for every index below GetKeyLength whenever no request
\* is under way: crashes, failing recoveries and deletes can leave the bucket
\* index longer than the array of the collection, but never shorter.
BlocksReadable ==
    status = "up" /\ AllIdle => \A k \in Key : S!GetLength(k) >= C!KeyLength(k)

\* A shutdown that no request disturbs, and the start after it, give back the
\* indexes as they were, with nothing to recover.
CleanRestart ==
    status = "recovering" /\ last # {} =>
       /\ last = {<<hnsw, docMap, postings, keyLengths, keyIndex, index>>}
       /\ replay = << >>

\* Every request ends, whatever the others, a Close or a crash do to it.
RequestsEnd == \A p \in Proc : op[p] # Idle ~> op[p] = Idle

\* A server that starts gets to serve requests, or gives up, or crashes: the
\* entries that recovery logs again do not keep it busy.
StartEnds == status \in {"loading", "recovering"} ~> status \in {"up", "failed", "down"}

-------------------------------------------------------------------------------
\* "Durability relies on WAL recovery + periodic Checkpoint." (BatchAppendBlocks)
\* and "WAL (Write-Ahead Log): Handles atomic writes" (docs/technical-spec.md): a
\* block whose append returned success is in the collection of a recovered server.
AckedRecovered ==
    status = "up" => \A s \in stored : s.block \in Range(given)
===============================================================================
