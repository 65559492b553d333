----------------------------- MODULE WriteAheadLog -----------------------------
(***************************************************************************)
(* The write-ahead log (internal/storage/wal.go).  The file is opened for  *)
(* appending and each process, and each Checkpoint, writes to it through a *)
(* gob encoder of its own.  A gob stream starts with the description of    *)
(* its types and a decoder rejects the same description a second time, so  *)
(* the one decoder of Replay reads the entries of the oldest stream of the *)
(* file only, and returns what it has read when it meets the next one.     *)
(*                                                                         *)
(* log and LogBatch write their entries and then call Sync, holding w.mu:  *)
(* the mutex is held if and only if the file has entries not yet synced.   *)
(* A crash keeps what is synced and any part of what is not; the last      *)
(* entry kept may be torn, which ends Replay as a second stream does.      *)
(***************************************************************************)
EXTENDS Naturals, Sequences

CONSTANTS
    Entry,      \* WAL entries
    Calls,      \* the sequences of entries one call may log
    Torn,       \* what is left of an entry by a crash in the middle of it
    MaxEntries, \* bound of the model on the entries in the file
    MaxStreams  \* bound of the model on the encoders

ASSUME EntryAssumption == Calls \subseteq Seq(Entry) /\ Torn \notin Entry

ASSUME BoundAssumption == MaxEntries \in Nat /\ MaxStreams \in Nat

VARIABLES
    wal,     \* the file: a sequence of entries, each with its stream
    synced,  \* how many of them are on disk
    stream,  \* the current encoder, 0 if there was none yet
    open,    \* whether the file is open
    acked    \* auxiliary: entries whose call has returned since the checkpoint

vars == <<wal, synced, stream, open, acked>>

Stamp(entries) == [n \in DOMAIN entries |-> [stream |-> stream, entry |-> entries[n]]]

Init == wal = << >> /\ synced = 0 /\ stream = 0 /\ open = FALSE /\ acked = << >>

\* w.mu is free.
Unlocked == synced = Len(wal)

NewWAL ==
    /\ ~open /\ open' = TRUE
    /\ stream' = stream + 1
    /\ UNCHANGED <<wal, synced, acked>>

Mut_Log(entries) ==
    /\ open /\ Unlocked
    /\ wal' = wal \o Stamp(entries)
    /\ acked' = acked \o Stamp(entries)
    /\ UNCHANGED <<synced, stream, open>>

\* log (one entry) and LogBatch: the entries are encoded into the file.
Log(entries) ==
    /\ open /\ Unlocked
    /\ wal' = wal \o Stamp(entries)
    /\ UNCHANGED <<synced, stream, open, acked>>

\* The Sync that ends log and LogBatch.
Sync ==
    /\ open /\ ~Unlocked
    /\ acked' = acked \o SubSeq(wal, synced + 1, Len(wal))
    /\ synced' = Len(wal)
    /\ UNCHANGED <<wal, stream, open>>

\* What the decoder of Replay returns.
Readable == {n \in DOMAIN wal : \A m \in 1 .. n : /\ wal[m].stream = wal[1].stream
                                                  /\ wal[m].entry # Torn}

Replay == [n \in Readable |-> wal[n].entry]

\* The file is truncated and a new encoder made.
Checkpoint ==
    /\ open /\ Unlocked
    /\ wal' = << >> /\ synced' = 0 /\ acked' = << >>
    /\ stream' = stream + 1
    /\ UNCHANGED open

Close ==
    /\ open /\ Unlocked
    /\ open' = FALSE
    /\ UNCHANGED <<wal, synced, stream, acked>>

\* The process ends; n entries survive whole, and the next one perhaps in part.
Crash ==
    /\ \E n \in synced .. Len(wal) :
         \E rest \in {<< >>} \cup (IF n < Len(wal) THEN {<<[wal[n + 1] EXCEPT !.entry = Torn]>>}
                                   ELSE {}) :
            /\ wal' = SubSeq(wal, 1, n) \o rest
            /\ synced' = Len(wal')
    /\ open' = FALSE
    /\ UNCHANGED <<stream, acked>>

Next ==
    \/ stream < MaxStreams /\ NewWAL
    \/ \E entries \in Calls : Len(wal) + Len(entries) <= MaxEntries /\ Log(entries)
    \/ Sync
    \/ stream < MaxStreams /\ Checkpoint
    \/ Close
    \/ open /\ Crash

Spec == Init /\ [][Next]_vars

-------------------------------------------------------------------------------
(***************************************************************************)
(* Properties.                                                             *)
(***************************************************************************)

\* Every variable has the type of the Go field or file it stands for.
TypeOK ==
    /\ wal \in Seq([stream : 1 .. MaxStreams, entry : Entry \cup {Torn}])
    /\ synced \in 0 .. Len(wal)
    /\ stream \in 0 .. MaxStreams
    /\ open \in BOOLEAN
    /\ acked \in Seq([stream : 1 .. MaxStreams, entry : Entry])

\* Through any crashes and restarts Replay returns every entry whose log call
\* returned in the oldest stream of the file, in the order in which the calls
\* were made, before anything a crash left of a call that did not return.
OldestStreamReplayed ==
    \A n \in DOMAIN acked :
       /\ wal # << >>
       /\ acked[n].stream = wal[1].stream => /\ n \in DOMAIN Replay
                                             /\ Replay[n] = acked[n].entry
===============================================================================
