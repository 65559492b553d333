----------------------------- MODULE BucketFile -----------------------------
(***************************************************************************)
(* The bytes of one bucket file of storage.go: records of four parts, a    *)
(* crash that cuts the last one short, the index rebuilt by parsing what   *)
(* is there, and readRecordAt with its buffer.  ShardStore treats a record *)
(* as a whole; here it can be torn.                                        *)
(*                                                                         *)
(* A cell is a length, a key or a part of a compressed payload.  A length  *)
(* read where there is none is some number; one number, chosen anew for    *)
(* every start, stands for all of them.  SyncMode is "strict", so only the *)
(* record being written when the process ends can be torn.                 *)
(***************************************************************************)
EXTENDS Integers, Sequences, FiniteSets, SequencesExt

CONSTANTS Key, Payload,
          ZipLen,     \* cells of a compressed payload
          BufSize,    \* cells that readRecordAt reads at first
          Junk,       \* numbers that a misplaced read can give
          MaxRecords, \* bound: records written, torn ones included
          MaxTorn     \* bound: crashes in the middle of a record

ASSUME FileAssumption ==
         /\ {ZipLen, BufSize} \subseteq Nat \ {0}
         /\ Junk \subseteq Nat /\ {MaxRecords, MaxTorn} \subseteq Nat

VARIABLES cells,   \* the data file
          index,   \* Bucket.Index: key -> offsets
          idxFile, \* the .idx file: {} if missing or unreadable, else {index}
          up,      \* the process runs
          junk,    \* what misplaced reads give
          acked,   \* auxiliary: the appends that returned, [key, val, off]
          since,   \* auxiliary: how many of them returned before the last start
          count, torn \* auxiliary: records written, and torn among them

vars == <<cells, index, idxFile, up, junk, acked, since, count, torn>>

----------------------------------------------------------------------------
CompressBytes(v) == [i \in 1 .. ZipLen |-> <<"zip", v, i>>]

Error == [ok |-> FALSE]

(* A frame that is not whole is refused.                                   *)
Mut_DecompressBytes(p) ==
  IF p # << >> /\ p[1][1] = "zip" THEN [ok |-> TRUE, val |-> p[1][2]] ELSE Error

DecompressBytes(p) ==
  IF \E v \in Payload : p = CompressBytes(v)
  THEN [ok |-> TRUE, val |-> CHOOSE v \in Payload : p = CompressBytes(v)]
  ELSE Error

(* [KeyLen][Key][PayloadLen][Payload]                                      *)
Record(k, v) ==
  <<<<"len", 1>>, <<"key", k>>, <<"len", ZipLen>>>> \o CompressBytes(v)

Number(cell) == IF cell[1] = "len" THEN cell[2] ELSE junk

(* ReadAt of n cells from offset off, which fails on a short read.         *)
CanRead(off, n) == off + n <= Len(cells)

ReadAt(off, n) == SubSeq(cells, off + 1, off + n)

(* readRecordAt: the header and payload may lie in the first chunk or      *)
(* reach past it.                                                          *)
Mut_readRecordAt(off) ==
  LET n == IF Len(cells) - off < BufSize THEN Len(cells) - off ELSE BufSize
      keyLen    == Number(cells[off + 1])
      headerEnd == 1 + keyLen + 1
      payloadLen == Number(cells[off + headerEnd])
      total     == headerEnd + payloadLen
  IN  IF n < 1 THEN Error
      ELSE IF n < headerEnd
      THEN IF CanRead(off + n, headerEnd - n)
              /\ CanRead(off + headerEnd, payloadLen)
           THEN DecompressBytes(ReadAt(off + headerEnd, payloadLen))
           ELSE Error
      ELSE IF n >= total
      THEN DecompressBytes(ReadAt(off + headerEnd, payloadLen))
      ELSE IF CanRead(off + n, total - n)
           THEN DecompressBytes(ReadAt(off + headerEnd, n - headerEnd)
                                \o ReadAt(off + headerEnd, total - n))
           ELSE Error

readRecordAt(off) ==
  LET n == IF Len(cells) - off < BufSize THEN Len(cells) - off ELSE BufSize
      keyLen    == Number(cells[off + 1])
      headerEnd == 1 + keyLen + 1
      payloadLen == Number(cells[off + headerEnd])
      total     == headerEnd + payloadLen
  IN  IF n < 1 THEN Error
      ELSE IF n < headerEnd
      THEN IF CanRead(off + n, headerEnd - n)
              /\ CanRead(off + headerEnd, payloadLen)
           THEN DecompressBytes(ReadAt(off + headerEnd, payloadLen))
           ELSE Error
      ELSE IF n >= total
      THEN DecompressBytes(ReadAt(off + headerEnd, payloadLen))
      ELSE IF CanRead(off + n, total - n)
           THEN DecompressBytes(ReadAt(off + headerEnd, n - headerEnd)
                                \o ReadAt(off + n, total - n))
           ELSE Error

Offsets(k) == IF k \in DOMAIN index THEN index[k] ELSE << >>

Get(k, i) == IF i + 1 \in DOMAIN Offsets(k) THEN readRecordAt(Offsets(k)[i + 1])
             ELSE Error

----------------------------------------------------------------------------
(* rebuildIndex: the records found from offset off on.  Seeking over a     *)
(* payload succeeds past the end of the file, so a record whose payload is *)
(* cut short is found; one whose header is cut short ends the loop.        *)
RECURSIVE Found(_)

Found(off) ==
  LET keyLen == Number(cells[off + 1])
      pLen   == Number(cells[off + keyLen + 2])
  IN  IF off >= Len(cells) \/ ~ CanRead(off, keyLen + 2) THEN << >>
      ELSE <<[key |-> ReadAt(off + 1, keyLen), off |-> off]>>
           \o Found(off + keyLen + 2 + pLen)

(* Only what is listed under a key of the store is kept here.              *)
Mut_Rebuilt ==
  LET found == Found(0)
      of(k) == SelectSeq(found, LAMBDA r : r.key = <<<<"key", k>>>>)
  IN  [k \in {x \in Key : of(x) # << >>} |->
         [i \in 1 .. Len(of(k)) - 1 |-> of(k)[i].off]]

Rebuilt ==
  LET found == Found(0)
      of(k) == SelectSeq(found, LAMBDA r : r.key = <<<<"key", k>>>>)
  IN  [k \in {x \in Key : of(x) # << >>} |->
         [i \in DOMAIN of(k) |-> of(k)[i].off]]

Init ==
  /\ cells = << >> /\ index = << >> /\ idxFile = {} /\ up = FALSE
  /\ junk = 0 /\ acked = << >> /\ since = 0 /\ count = 0 /\ torn = 0

(* NewManager.                                                             *)
Load ==
  /\ ~ up /\ up' = TRUE
  /\ \E idx \in idxFile : index' = idx
  /\ since' = Len(acked)
  /\ UNCHANGED <<cells, idxFile, junk, acked, count, torn>>

Rebuild ==
  /\ ~ up /\ up' = TRUE
  /\ idxFile = {}
  /\ index' = Rebuilt
  /\ idxFile' = {Rebuilt}
  /\ since' = Len(acked)
  /\ UNCHANGED <<cells, junk, acked, count, torn>>

Mut_AppendRecord(k, v) ==
  /\ up /\ count < MaxRecords
  /\ LET end == Len(cells) - (Len(cells) % (3 + ZipLen))
     IN  /\ index' = [x \in DOMAIN index \cup {k} |->
                        Offsets(x) \o IF x = k THEN <<end>> ELSE << >>]
         /\ acked' = Append(acked, [key |-> k, val |-> v, off |-> end])
  /\ cells' = cells \o Record(k, v)
  /\ count' = count + 1
  /\ UNCHANGED <<idxFile, up, junk, since, torn>>

AppendRecord(k, v) ==
  /\ up /\ count < MaxRecords
  /\ LET end == Len(cells)
     IN  /\ index' = [x \in DOMAIN index \cup {k} |->
                        Offsets(x) \o IF x = k THEN <<end>> ELSE << >>]
         /\ acked' = Append(acked, [key |-> k, val |-> v, off |-> end])
  /\ cells' = cells \o Record(k, v)
  /\ count' = count + 1
  /\ UNCHANGED <<idxFile, up, junk, since, torn>>

Down == up' = FALSE /\ index' = << >> /\ junk' \in Junk

(* The process ends while Append writes; n cells of the record are there.  *)
TornAppend(k, v, n) ==
  /\ up /\ count < MaxRecords /\ torn < MaxTorn
  /\ cells' = cells \o SubSeq(Record(k, v), 1, n)
  /\ count' = count + 1 /\ torn' = torn + 1
  /\ Down
  /\ UNCHANGED <<idxFile, acked, since>>

Crash ==
  /\ up /\ Down
  /\ UNCHANGED <<cells, idxFile, acked, since, count, torn>>

(* Close, and a crash in it while the index file is truncated.             *)
Close ==
  /\ up /\ idxFile' \in {{index}, {}} /\ Down
  /\ UNCHANGED <<cells, acked, since, count, torn>>

Next ==
  \/ Load \/ Rebuild \/ Crash \/ Close
  \/ \E k \in Key, v \in Payload :
       \/ AppendRecord(k, v)
       \/ \E n \in 0 .. 2 + ZipLen : TornAppend(k, v, n)

Spec == Init /\ [][Next]_vars

----------------------------------------------------------------------------
RecordLen == 3 + ZipLen

OffsetsOf(s, k) ==
  LET mine == SelectSeq(s, LAMBDA e : e.key = k)
  IN  [i \in DOMAIN mine |-> mine[i].off]

(* Every acknowledged record starts where the one before it ends: nothing  *)
(* torn lies between them.                                                 *)
Contiguous == \A j \in DOMAIN acked : acked[j].off = (j - 1) * RecordLen

(* The types of the state.                                                 *)
TypeOK ==
  /\ Range(acked) \subseteq [key : Key, val : Payload, off : 0 .. Len(cells)]
  /\ DOMAIN index \subseteq Key
  /\ \A k \in DOMAIN index : Range(index[k]) \subseteq 0 .. Len(cells) - 1
  /\ Cardinality(idxFile) <= 1 /\ up \in BOOLEAN
  /\ since \in 0 .. Len(acked) /\ torn <= count

(* readRecordAt gives the same as reading the record part by part, also at *)
(* offsets where no record starts, wherever the record crosses the end of  *)
(* its buffer or of the file.                                              *)
BufferedReadExact ==
  \A off \in 0 .. Len(cells) - 1 :
    LET keyLen == Number(cells[off + 1])
        pLen   == Number(cells[off + keyLen + 2])
    IN  readRecordAt(off) =
          IF CanRead(off, keyLen + 2) /\ CanRead(off + keyLen + 2, pLen)
          THEN DecompressBytes(ReadAt(off + keyLen + 2, pLen)) ELSE Error

(* What Get returns was acknowledged for that key, although after a torn   *)
(* record rebuildIndex parses the rest of the file out of step.            *)
OnlyAcknowledgedRead ==
  /\ TypeOK
  /\ up => \A k \in Key : \A i \in DOMAIN Offsets(k) :
             LET r == Get(k, i - 1)
             IN  r.ok => \E e \in Range(acked) : e.key = k /\ e.val = r.val

(* What this process has appended it reads back, at the end of the array   *)
(* of its key, also behind a torn record and over an old index file.       *)
OwnAppendsRead ==
  up => LET mine == SubSeq(acked, since + 1, Len(acked))
        IN  /\ \A k \in Key : IsSuffix(OffsetsOf(mine, k), Offsets(k))
            /\ \A e \in Range(mine) :
                 readRecordAt(e.off) = [ok |-> TRUE, val |-> e.val]

(* As long as nothing was appended behind a torn record, rebuildIndex      *)
(* lists every acknowledged record of a key in order and at most one more, *)
(* the torn one, which cannot be read.                                     *)
RebuildAfterTear ==
  Contiguous =>
    \A k \in Key :
      LET mine == OffsetsOf(acked, k)
          new  == IF k \in DOMAIN Rebuilt THEN Rebuilt[k] ELSE << >>
      IN  /\ IsPrefix(mine, new) /\ Len(new) <= Len(mine) + 1
          /\ \A i \in DOMAIN new \ DOMAIN mine : ~ readRecordAt(new[i]).ok
============================================================================
