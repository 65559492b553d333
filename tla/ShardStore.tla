------------------------------- MODULE ShardStore -------------------------------
(***************************************************************************)
(* The bucket store (internal/storage/storage.go): per bucket an           *)
(* append-only data file, an in-memory index from key to the offsets of    *)
(* its records, and an index file that Close writes and NewManager loads.  *)
(*                                                                         *)
(* WriteLock serialises writes to the file and is held through Append, so  *)
(* an append is one step.  BatchAppend starts one goroutine per bucket,    *)
(* which writes its records under WriteLock, releases it, and only then    *)
(* updates the index.  Close saves and closes bucket after bucket, and     *)
(* nothing keeps appends out meanwhile.  An offset is the position of a    *)
(* record in the file; a crash loses what is in memory.  SyncMode is       *)
(* "strict", and a record is in the file as a whole or not at all.         *)
(***************************************************************************)
EXTENDS Naturals, Sequences, FiniteSets, Functions

CONSTANTS
    Key,        \* keys of the store
    Payload,    \* encoded entries
    Bucket,     \* buckets (16 in the code)
    BucketOf,   \* getBucketID: the bucket of each key
    Caller,     \* goroutines that may run BatchAppend
    MaxRecords  \* bound of the model on the records of each bucket

ASSUME BucketAssumption == BucketOf \in [Key -> Bucket]

VARIABLES
    file,     \* the data file of each bucket: a sequence of records
    index,    \* Bucket.Index: key -> sequence of offsets
    idxFile,  \* the .idx file: {} if missing or unreadable, else {an index}
    state,    \* of each bucket: "off" before NewManager reached it, then
              \* "open", and in Close "saving", "saved", "closed"
    phase,    \* of the manager: "down", "starting", "open", "closing"
    todo,     \* entries of each running BatchAppend not yet written
    pending,  \* newIndexEntries of each running BatchAppend, per bucket
    hidden    \* auxiliary: records DeleteKey or an old .idx file took away

vars == <<file, index, idxFile, state, phase, todo, pending, hidden>>

Record == [key : Key, payload : Payload]
Offsets(b) == 1 .. Len(file[b])

Mut_AddOffsets(idx, off) ==
    [k \in DOMAIN idx \cup DOMAIN off |->
        IF k \in DOMAIN off THEN <<off[k]>> ELSE idx[k]]

\* bucket.Index[key] = append(bucket.Index[key], off) for each k of off.
AddOffsets(idx, off) ==
    [k \in DOMAIN idx \cup DOMAIN off |->
        (IF k \in DOMAIN idx THEN idx[k] ELSE << >>)
        \o (IF k \in DOMAIN off THEN <<off[k]>> ELSE << >>)]

\* The offsets Get and GetAllValues read, and their number, GetLength.
Listed(k) == IF k \in DOMAIN index[BucketOf[k]] THEN index[BucketOf[k]][k] ELSE << >>

Get(k, i) == file[BucketOf[k]][Listed(k)[i + 1]].payload

GetLength(k) == Len(Listed(k))

\* rebuildIndex: the index after n records of the file have been read.
Scan(recs) ==
    LET idx[n \in 0 .. Len(recs)] ==
          IF n = 0 THEN << >>
          ELSE AddOffsets(idx[n - 1], [k \in {recs[n].key} |-> n])
    IN  idx

Mut_Rebuilt(b) ==
    LET n == Len(file[b]) IN Scan(file[b])[IF n = 0 THEN 0 ELSE n - 1]

Rebuilt(b) == Scan(file[b])[Len(file[b])]

Init ==
    /\ file = [b \in Bucket |-> << >>]
    /\ index = [b \in Bucket |-> << >>]
    /\ idxFile = [b \in Bucket |-> {}]
    /\ state = [b \in Bucket |-> "off"]
    /\ phase = "down"
    /\ todo = [c \in Caller |-> << >>]
    /\ pending = [c \in Caller |-> [b \in Bucket |-> << >>]]
    /\ hidden = [b \in Bucket |-> {}]

-------------------------------------------------------------------------------
(***************************************************************************)
(* NewManager.                                                             *)
(***************************************************************************)
Start ==
    /\ phase = "down" /\ phase' = "starting"
    /\ UNCHANGED <<file, index, idxFile, state, todo, pending, hidden>>

Opened(b) ==
    /\ phase = "starting" /\ state[b] = "off"
    /\ state' = [state EXCEPT ![b] = "open"]
    /\ phase' = IF \A a \in Bucket : state'[a] = "open" THEN "open" ELSE "starting"
    /\ UNCHANGED <<file, todo, pending>>

\* The index file is taken as it is, also if records were written after it.
LoadIndex(b) ==
    /\ Opened(b)
    /\ \E idx \in idxFile[b] :
         /\ index' = [index EXCEPT ![b] = idx]
         /\ hidden' = [hidden EXCEPT ![b] =
                         Offsets(b) \ UNION {Range(idx[k]) : k \in DOMAIN idx}]
    /\ UNCHANGED idxFile

RebuildIndex(b) ==
    /\ Opened(b)
    /\ idxFile[b] = {}
    /\ index' = [index EXCEPT ![b] = Rebuilt(b)]
    /\ idxFile' = [idxFile EXCEPT ![b] = {Rebuilt(b)}]
    /\ hidden' = [hidden EXCEPT ![b] = {}]

-------------------------------------------------------------------------------
(***************************************************************************)
(* Operations.  saveIndex holds IndexLock while a bucket is "saving".      *)
(***************************************************************************)
Running == phase \in {"open", "closing"}
FileOpen(b) == state[b] \in {"open", "saving", "saved"}
IndexFree(b) == state[b] # "saving"

AppendRecord(k, p) ==
    LET b == BucketOf[k]
    IN  /\ Running /\ FileOpen(b) /\ IndexFree(b)
        /\ file' = [file EXCEPT ![b] = Append(@, [key |-> k, payload |-> p])]
        /\ index' = [index EXCEPT ![b] = AddOffsets(@, [x \in {k} |-> Len(file[b]) + 1])]
        /\ UNCHANGED <<idxFile, state, phase, todo, pending, hidden>>

\* Seek on a closed file fails.
AppendFails(k) ==
    /\ Running /\ ~FileOpen(BucketOf[k])
    /\ UNCHANGED vars

BatchIdle(c) == todo[c] = << >> /\ \A b \in Bucket : pending[c][b] = << >>

BatchBegin(c, entries) ==
    /\ Running /\ BatchIdle(c) /\ entries # << >>
    /\ todo' = [todo EXCEPT ![c] = entries]
    /\ UNCHANGED <<file, index, idxFile, state, phase, pending, hidden>>

Group(c, b) == {k \in DOMAIN todo[c] : BucketOf[k] = b}

Ungroup(c, b) ==
    todo' = [todo EXCEPT ![c] = [k \in DOMAIN @ \ Group(c, b) |-> @[k]]]

Mut_BatchWrite(c, b) ==
    /\ Running /\ FileOpen(b) /\ Group(c, b) # {}
    /\ \E order \in Bijection(1 .. Cardinality(Group(c, b)), Group(c, b)) :
         /\ file' = [file EXCEPT ![b] = @ \o
                       [n \in DOMAIN order |->
                           [key |-> order[n], payload |-> todo[c][order[n]]]]]
         /\ pending' = [pending EXCEPT ![c][b] =
                          [k \in Group(c, b) |-> Len(file[b]) + 1]]
    /\ Ungroup(c, b)
    /\ UNCHANGED <<index, idxFile, state, phase, hidden>>

\* The goroutine of bucket b writes its group, in the arbitrary order in which
\* Go iterates over the map of entries.
BatchWrite(c, b) ==
    /\ Running /\ FileOpen(b) /\ Group(c, b) # {}
    /\ \E order \in Bijection(1 .. Cardinality(Group(c, b)), Group(c, b)) :
         /\ file' = [file EXCEPT ![b] = @ \o
                       [n \in DOMAIN order |->
                           [key |-> order[n], payload |-> todo[c][order[n]]]]]
         /\ pending' = [pending EXCEPT ![c][b] =
                          [k \in Group(c, b) |->
                              Len(file[b]) + CHOOSE n \in DOMAIN order : order[n] = k]]
    /\ Ungroup(c, b)
    /\ UNCHANGED <<index, idxFile, state, phase, hidden>>

Mut_BatchWriteFails(c, b) ==
    /\ Running /\ ~FileOpen(b) /\ Group(c, b) # {}
    /\ UNCHANGED vars

BatchWriteFails(c, b) ==
    /\ Running /\ ~FileOpen(b) /\ Group(c, b) # {}
    /\ Ungroup(c, b)
    /\ UNCHANGED <<file, index, idxFile, state, phase, pending, hidden>>

BatchIndex(c, b) ==
    /\ Running /\ IndexFree(b) /\ pending[c][b] # << >>
    /\ index' = [index EXCEPT ![b] = AddOffsets(@, pending[c][b])]
    /\ pending' = [pending EXCEPT ![c][b] = << >>]
    /\ UNCHANGED <<file, idxFile, state, phase, todo, hidden>>

DeleteKey(k) ==
    LET b == BucketOf[k]
    IN  /\ Running /\ IndexFree(b)
        /\ index' = [index EXCEPT ![b] = [j \in DOMAIN @ \ {k} |-> @[j]]]
        /\ hidden' = [hidden EXCEPT ![b] = @ \cup Range(Listed(k))]
        /\ UNCHANGED <<file, idxFile, state, phase, todo, pending>>

-------------------------------------------------------------------------------
(***************************************************************************)
(* Close, bucket after bucket in the arbitrary order of the map; then the  *)
(* process ends with whatever still runs in it.                            *)
(***************************************************************************)
Close ==
    /\ phase = "open" /\ phase' = "closing"
    /\ UNCHANGED <<file, index, idxFile, state, todo, pending, hidden>>

\* saveIndex: os.Create truncates the index file.
TruncateIndex(b) ==
    /\ phase = "closing" /\ state[b] = "open"
    /\ \A a \in Bucket : state[a] \in {"open", "closed"}
    /\ state' = [state EXCEPT ![b] = "saving"]
    /\ idxFile' = [idxFile EXCEPT ![b] = {}]
    /\ UNCHANGED <<file, index, phase, todo, pending, hidden>>

\* saveIndex: the index is encoded into the file and IndexLock released.
WriteIndex(b) ==
    /\ phase = "closing" /\ state[b] = "saving"
    /\ state' = [state EXCEPT ![b] = "saved"]
    /\ idxFile' = [idxFile EXCEPT ![b] = {index[b]}]
    /\ UNCHANGED <<file, index, phase, todo, pending, hidden>>

CloseFile(b) ==
    /\ phase = "closing" /\ state[b] = "saved"
    /\ state' = [state EXCEPT ![b] = "closed"]
    /\ UNCHANGED <<file, index, idxFile, phase, todo, pending, hidden>>

\* What is left of the store when the process is gone.
Halt ==
    /\ phase' = "down"
    /\ state' = [b \in Bucket |-> "off"]
    /\ index' = [b \in Bucket |-> << >>]
    /\ todo' = [c \in Caller |-> << >>]
    /\ pending' = [c \in Caller |-> [b \in Bucket |-> << >>]]
    /\ hidden' = [b \in Bucket |-> {}]
    /\ UNCHANGED <<file, idxFile>>

Exit == phase = "closing" /\ (\A b \in Bucket : state[b] = "closed") /\ Halt

Crash == phase # "down" /\ Halt

-------------------------------------------------------------------------------
BatchStep(c, b) == BatchWrite(c, b) \/ BatchWriteFails(c, b) \/ BatchIndex(c, b)

Room(b, n) == Len(file[b]) + n <= MaxRecords[b]

\* The records that running batches have still to write.
Reserved(b) == LET owed == {o \in Caller \X Key : o[2] \in Group(o[1], b)}
               IN  Cardinality(owed)

Next ==
    \/ Start
    \/ \E b \in Bucket : LoadIndex(b) \/ RebuildIndex(b)
    \/ \E k \in Key, p \in Payload :
          Room(BucketOf[k], Reserved(BucketOf[k]) + 1) /\ AppendRecord(k, p)
    \/ \E k \in Key : AppendFails(k) \/ DeleteKey(k)
    \/ \E c \in Caller, K \in (SUBSET Key) \ {{}} : \E entries \in [K -> Payload] :
          /\ IsFiniteSet(K)
          /\ \A b \in Bucket : Room(b, Reserved(b) + Cardinality({k \in K : BucketOf[k] = b}))
          /\ BatchBegin(c, entries)
    \/ \E c \in Caller, b \in Bucket : BatchStep(c, b)
    \/ Close
    \/ \E b \in Bucket : TruncateIndex(b) \/ WriteIndex(b) \/ CloseFile(b)
    \/ Exit \/ Crash

Spec == Init /\ [][Next]_vars

(***************************************************************************)
(* The goroutines of a BatchAppend and the one in Close are runnable or    *)
(* wait for a lock that is held for a bounded time.                        *)
(***************************************************************************)
Fairness ==
    /\ \A c \in Caller, b \in Bucket : WF_vars(BatchStep(c, b))
    /\ \A b \in Bucket : WF_vars(WriteIndex(b))

FairSpec == Spec /\ Fairness

-------------------------------------------------------------------------------
(***************************************************************************)
(* Properties.                                                             *)
(***************************************************************************)
IsIndex(idx, b) ==
    /\ DOMAIN idx \subseteq {k \in Key : BucketOf[k] = b}
    /\ \A k \in DOMAIN idx : idx[k] \in Seq(Nat \ {0})

\* Every variable has the type of the Go field or file it stands for.
TypeOK ==
    /\ file \in [Bucket -> Seq(Record)]
    /\ DOMAIN index = Bucket /\ DOMAIN idxFile = Bucket
    /\ \A b \in Bucket : /\ IsIndex(index[b], b)
                         /\ Cardinality(idxFile[b]) <= 1
                         /\ \A idx \in idxFile[b] : IsIndex(idx, b)
    /\ state \in [Bucket -> {"off", "open", "saving", "saved", "closed"}]
    /\ phase \in {"down", "starting", "open", "closing"}
    /\ \A c \in Caller : /\ DOMAIN todo[c] \subseteq Key
                         /\ DOMAIN pending[c] = Bucket
    /\ hidden \in [Bucket -> SUBSET Nat]

\* An index, in memory or in an index file of any age, never leads readRecordAt
\* to a record of another key or past the end of the file, lists no record
\* twice, and no record is both listed and about to be listed by a batch.
IndexSound ==
    \A b \in Bucket :
       /\ \A idx \in {index[b]} \cup idxFile[b] : \A k \in DOMAIN idx :
            /\ IsInjective(idx[k])
            /\ \A n \in Range(idx[k]) : n \in Offsets(b) /\ file[b][n].key = k
       /\ \A c \in Caller : \A k \in DOMAIN pending[c][b] :
            /\ file[b][pending[c][b][k]].key = k
            /\ pending[c][b][k] \notin Range(Listed(k))

Indexed(b) == UNION {Range(index[b][k]) : k \in DOMAIN index[b]}
Owed(b) == UNION {Range(pending[c][b]) : c \in Caller}

\* No interleaving of Append, BatchAppend, DeleteKey and Close loses a record:
\* in a loaded bucket every record of the file is listed under its key, or about
\* to be listed by a running batch, or was taken away by DeleteKey or by the
\* index file the process started from, and it is only one of these.
EveryRecordIndexed ==
    \A b \in Bucket : state[b] # "off" =>
       /\ Offsets(b) = Indexed(b) \cup Owed(b) \cup hidden[b]
       /\ Indexed(b) \cap hidden[b] = {}

\* A reader that has seen block i of a key sees it again: while the process runs
\* the list of a key only grows at its end, unless DeleteKey drops it whole.
ArraysStable ==
    [][\A b \in Bucket : state[b] # "off" /\ state'[b] # "off" =>
          \A k \in DOMAIN index[b] \cap DOMAIN index'[b] :
             index[b][k] = SubSeq(index'[b][k], 1, Len(index[b][k]))]_vars

\* wg.Wait returns: every BatchAppend ends, also if Close closes the files under
\* it (or the process ends first).
BatchEnds == \A c \in Caller : ~BatchIdle(c) ~> BatchIdle(c)

Quiet(b) == state[b] = "open" /\ hidden[b] = {} /\ \A c \in Caller : BatchIdle(c)

\* "Indexes are derived and rebuildable from the primary data"
\* (docs/technical-spec.md): after any history of appends, batches, crashes and
\* starts, rebuildIndex lists under each key the records the index in memory
\* lists, neither more nor fewer.  (Not always in its order: a batch updates the
\* index after it has released WriteLock, and an append may overtake it.)
RebuildComplete ==
    TypeOK /\ \A b \in Bucket : Quiet(b) =>
       /\ DOMAIN Rebuilt(b) = DOMAIN index[b]
       /\ \A k \in DOMAIN index[b] : Range(Rebuilt(b)[k]) = Range(index[b][k])
===============================================================================
