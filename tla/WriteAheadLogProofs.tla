-------------------------- MODULE WriteAheadLogProofs --------------------------
(***************************************************************************)
(* Proofs about WriteAheadLog: for any entries, calls and number of        *)
(* restarts, what Replay returns of the oldest stream.                     *)
(***************************************************************************)
EXTENDS WriteAheadLog, TLAPS

(* A leaf is tried with Zenon, then with the SMT solver. *)
USE ZenonT(5), SMTT(30)

\* Streams follow one another in the file, and the encoder's is the newest.
Ordered ==
    /\ \A n \in DOMAIN wal : wal[n].stream <= stream
    /\ \A m, n \in DOMAIN wal : m <= n => wal[m].stream <= wal[n].stream

\* What is not synced was written whole, by the current encoder.
Unsynced ==
    /\ Len(acked) <= synced
    /\ open => stream > 0
    /\ \A n \in synced + 1 .. Len(wal) :
          open /\ wal[n].stream = stream /\ wal[n].entry \in Entry

\* While the encoder's stream is also the oldest, what is synced is what was
\* acknowledged.
Current ==
    open /\ wal # << >> /\ wal[1].stream = stream =>
       /\ Len(acked) = synced
       /\ \A n \in 1 .. synced : wal[n] = acked[n]

\* Up to an acknowledged entry of the oldest stream, the file holds the
\* acknowledged entries and nothing else.
Front ==
    \A n \in DOMAIN acked : acked[n].stream = wal[1].stream =>
       \A m \in 1 .. n : wal[m] = acked[m]

\* The inductive invariant.
LogInv == TypeOK /\ Ordered /\ Unsynced /\ Current /\ Front

\* The records of the file, and those of them that are whole.
Rec == [stream : 1 .. MaxStreams, entry : Entry \cup {Torn}]
Whole == [stream : 1 .. MaxStreams, entry : Entry]

\* What the types say of the positions of the file and of the acknowledged entries.
LEMMA Positions ==
  ASSUME LogInv
  PROVE  /\ wal \in Seq(Rec) /\ DOMAIN wal = 1 .. Len(wal) /\ Len(wal) \in Nat
         /\ acked \in Seq(Whole) /\ DOMAIN acked = 1 .. Len(acked) /\ Len(acked) \in Nat
         /\ synced \in Nat /\ synced <= Len(wal)
         /\ stream \in Nat /\ stream <= MaxStreams /\ MaxStreams \in Nat
         /\ \A n \in 1 .. Len(wal) : wal[n].stream \in Nat /\ wal[n] \in Rec
         /\ \A n \in 1 .. Len(acked) : acked[n] \in Whole
<1>1. wal \in Seq(Rec) /\ acked \in Seq(Whole)
  BY DEF LogInv, TypeOK, Rec, Whole
<1>2. \A n \in 1 .. Len(wal) : wal[n] \in Rec
  BY <1>1
<1>3. \A n \in 1 .. Len(acked) : acked[n] \in Whole
  BY <1>1
<1>4. \A n \in 1 .. Len(wal) : wal[n].stream \in Nat
  BY <1>2 DEF Rec
<1>5. /\ DOMAIN wal = 1 .. Len(wal) /\ Len(wal) \in Nat
      /\ DOMAIN acked = 1 .. Len(acked) /\ Len(acked) \in Nat
  BY <1>1
<1>6. /\ synced \in Nat /\ synced <= Len(wal)
      /\ stream \in Nat /\ stream <= MaxStreams /\ MaxStreams \in Nat
  BY <1>5, BoundAssumption DEF LogInv, TypeOK
<1> QED
  BY <1>1, <1>2, <1>3, <1>4, <1>5, <1>6

\* The empty log satisfies the invariant.
LEMMA InitInv == Init => LogInv
<1> SUFFICES ASSUME Init PROVE LogInv
  OBVIOUS
<1>1. TypeOK
  <2>1. /\ << >> \in Seq([stream : 1 .. MaxStreams, entry : Entry \cup {Torn}])
        /\ << >> \in Seq([stream : 1 .. MaxStreams, entry : Entry])
    OBVIOUS
  <2>2. 0 \in 0 .. Len(<< >>) /\ 0 \in 0 .. MaxStreams
    BY BoundAssumption
  <2>3. open \in BOOLEAN
    BY DEF Init
  <2> QED
    BY <2>1, <2>2, <2>3 DEF Init, TypeOK
<1> QED
  BY <1>1 DEF Init, LogInv, Ordered, Unsynced, Current, Front

\* A process that opens the log continues the file with a newer stream.
LEMMA NewWALStep == LogInv /\ stream < MaxStreams /\ NewWAL => LogInv'
<1> SUFFICES ASSUME LogInv, stream < MaxStreams, NewWAL PROVE LogInv'
  OBVIOUS
<1>1. TypeOK'
  BY Positions DEF LogInv, TypeOK, NewWAL
<1>2. Ordered'
  BY Positions DEF LogInv, Ordered, NewWAL
<1>3. Unsynced'
  BY Positions DEF LogInv, Unsynced, NewWAL
<1>4. Current'
  <2>1. wal # << >> => wal[1].stream <= stream /\ wal[1].stream \in Nat
    BY Positions DEF LogInv, Ordered
  <2> QED
    BY <2>1, Positions DEF Current, NewWAL
<1>5. Front'
  BY DEF LogInv, Front, NewWAL
<1> QED
  BY <1>1, <1>2, <1>3, <1>4, <1>5 DEF LogInv

\* Stamped entries are whole records of the current stream.
LEMMA Stamped ==
  ASSUME LogInv, open, NEW entries \in Seq(Entry)
  PROVE  /\ Stamp(entries) \in Seq(Whole)
         /\ Len(Stamp(entries)) = Len(entries)
         /\ \A n \in 1 .. Len(entries) : /\ Stamp(entries)[n].stream = stream
                                         /\ Stamp(entries)[n].entry \in Entry
<1>1. stream \in 1 .. MaxStreams
  BY Positions DEF LogInv, Unsynced
<1>2. \A n \in 1 .. Len(entries) : /\ Stamp(entries)[n].stream = stream
                                   /\ Stamp(entries)[n].entry \in Entry
                                   /\ Stamp(entries)[n] \in Whole
  BY <1>1 DEF Stamp, Whole
<1>3. DOMAIN Stamp(entries) = 1 .. Len(entries) /\ Len(entries) \in Nat
  BY DEF Stamp
<1>4. Stamp(entries) = [n \in 1 .. Len(entries) |-> Stamp(entries)[n]]
  BY <1>3 DEF Stamp
<1> HIDE DEF Whole
<1> QED
  BY <1>2, <1>3, <1>4

\* log and LogBatch: the entries follow what is synced.
LEMMA LogStep ==
  ASSUME LogInv, NEW entries \in Seq(Entry), Log(entries)
  PROVE  LogInv'
<1> DEFINE new == Stamp(entries)
<1>1. /\ new \in Seq(Rec) /\ Len(new) = Len(entries)
      /\ \A n \in 1 .. Len(new) : new[n].stream = stream /\ new[n].entry \in Entry
  <2>1. /\ new \in Seq(Whole) /\ Len(new) = Len(entries)
        /\ \A n \in 1 .. Len(new) : new[n].stream = stream /\ new[n].entry \in Entry
    BY Stamped DEF Log
  <2>2. Whole \subseteq Rec
    BY DEF Whole, Rec
  <2> HIDE DEF new
  <2> QED
    BY <2>1, <2>2
<1>2. /\ wal \in Seq(Rec) /\ wal' = wal \o new /\ synced = Len(wal) /\ open
      /\ UNCHANGED <<synced, stream, open, acked>>
  BY DEF Log, Unlocked, LogInv, TypeOK, Rec
<1> HIDE DEF new
<1>3. /\ wal' \in Seq(Rec) /\ Len(wal') = Len(wal) + Len(new)
      /\ \A n \in 1 .. Len(wal) : wal'[n] = wal[n]
      /\ \A n \in Len(wal) + 1 .. Len(wal') : wal'[n].stream = stream /\ wal'[n].entry \in Entry
  <2> wal \in Seq(Rec) /\ new \in Seq(Rec) /\ wal' = wal \o new
    BY <1>1, <1>2
  <2>1. wal' \in Seq(Rec) /\ Len(wal') = Len(wal) + Len(new)
    OBVIOUS
  <2>2. \A n \in 1 .. Len(wal) : wal'[n] = wal[n]
    OBVIOUS
  <2>3. \A n \in Len(wal) + 1 .. Len(wal') : /\ n - Len(wal) \in 1 .. Len(new)
                                             /\ wal'[n] = new[n - Len(wal)]
    BY <2>1
  <2> QED
    BY <2>1, <2>2, <2>3, <1>1
<1>4. TypeOK'
  BY <1>2, <1>3 DEF LogInv, TypeOK, Rec
<1>5. Ordered'
  <2>1. \A n \in 1 .. Len(wal) : wal[n].stream <= stream /\ wal[n].stream \in Nat
    BY Positions DEF LogInv, Ordered
  <2>2. \A m, n \in 1 .. Len(wal) : m <= n => wal[m].stream <= wal[n].stream
    BY Positions DEF LogInv, Ordered
  <2>3. \A n \in 1 .. Len(wal') : wal'[n].stream <= stream
    BY <2>1, <1>1, <1>2, <1>3, Positions
  <2>4. ASSUME NEW m \in 1 .. Len(wal'), NEW n \in 1 .. Len(wal'), m <= n
        PROVE  wal'[m].stream <= wal'[n].stream
    <3>1. CASE n <= Len(wal)
      <4>1. m \in 1 .. Len(wal) /\ n \in 1 .. Len(wal)
        BY <3>1, <2>4, <1>3, Positions
      <4> QED
        BY <4>1, <2>2, <2>4, <1>3
    <3>2. CASE n > Len(wal)
      BY <3>2, <2>3, <1>3, Positions
    <3> QED
      BY <3>1, <3>2, Positions
  <2>5. DOMAIN wal' = 1 .. Len(wal') /\ stream' = stream
    BY <1>2, <1>3
  <2> QED
    BY <2>3, <2>4, <2>5 DEF Ordered
<1>6. Unsynced'
  BY <1>2, <1>3 DEF LogInv, Unsynced, TypeOK
<1>7. CASE wal = << >>
  <2>1. acked = << >> /\ synced = 0
    BY <1>2, <1>7 DEF LogInv, Unsynced, TypeOK
  <2> QED
    BY <2>1, <1>2, <1>4, <1>5, <1>6 DEF LogInv, Current, Front
<1>8. CASE wal # << >>
  <2>1. 1 \in 1 .. Len(wal) /\ wal'[1] = wal[1]
    BY <1>2, <1>3, <1>8
  <2>2. Current'
    BY <2>1, <1>2, <1>3, <1>8 DEF LogInv, Current, TypeOK
  <2>3. Front'
    <3>1. \A n \in DOMAIN acked : \A m \in 1 .. n : m \in 1 .. Len(wal)
      BY <1>2, Positions DEF LogInv, Unsynced
    <3> QED
      BY <3>1, <2>1, <1>2, <1>3 DEF LogInv, Front
  <2> QED
    BY <2>2, <2>3, <1>4, <1>5, <1>6 DEF LogInv
<1> QED
  BY <1>7, <1>8

\* The sync that ends a call acknowledges its entries.
LEMMA SyncStep == LogInv /\ Sync => LogInv'
<1> SUFFICES ASSUME LogInv, Sync PROVE LogInv'
  OBVIOUS
<1> DEFINE new == SubSeq(wal, synced + 1, Len(wal))
<1>1. /\ wal \in Seq(Rec) /\ synced \in Nat /\ synced < Len(wal) /\ open
      /\ acked \in Seq(Whole) /\ acked' = acked \o new /\ synced' = Len(wal)
      /\ Len(acked) <= synced /\ UNCHANGED <<wal, stream, open>>
  BY Positions DEF Sync, Unlocked, LogInv, Unsynced
<1>2. \A n \in synced + 1 .. Len(wal) : wal[n].stream = stream /\ wal[n] \in Whole
  <2> SUFFICES ASSUME NEW n \in synced + 1 .. Len(wal)
               PROVE  wal[n].stream = stream /\ wal[n] \in Whole
    OBVIOUS
  <2>1. wal[n].stream = stream /\ wal[n].entry \in Entry
    BY DEF LogInv, Unsynced
  <2>2. wal[n] \in Rec
    BY Positions
  <2> QED
    BY <2>1, <2>2 DEF Rec, Whole
<1>3. /\ new \in Seq(Whole) /\ Len(new) = Len(wal) - synced
      /\ \A n \in 1 .. Len(new) : new[n] = wal[synced + n] /\ new[n].stream = stream
  BY <1>1, <1>2
<1> HIDE DEF new
<1>4. /\ acked' \in Seq(Whole) /\ Len(acked') = Len(acked) + Len(wal) - synced
      /\ \A n \in 1 .. Len(acked) : acked'[n] = acked[n]
      /\ \A n \in Len(acked) + 1 .. Len(acked') : /\ acked'[n] = wal[synced + n - Len(acked)]
                                                  /\ acked'[n].stream = stream
  <2> acked \in Seq(Whole) /\ new \in Seq(Whole) /\ acked' = acked \o new
    BY <1>1, <1>3
  <2>1. acked' \in Seq(Whole) /\ Len(acked') = Len(acked) + Len(new)
    OBVIOUS
  <2>2. \A n \in 1 .. Len(acked) : acked'[n] = acked[n]
    BY <1>1, <1>3
  <2>3. \A n \in Len(acked) + 1 .. Len(acked') : /\ acked'[n] = new[n - Len(acked)]
                                                 /\ n - Len(acked) \in 1 .. Len(new)
    BY <2>1, <1>1, <1>3
  <2>4. \A n \in Len(acked) + 1 .. Len(acked') : synced + (n - Len(acked)) = synced + n - Len(acked)
    BY <2>1, <1>1
  <2> QED
    BY <2>1, <2>2, <2>3, <2>4, <1>3, Positions
<1>5. TypeOK'
  BY <1>1, <1>4 DEF LogInv, TypeOK, Rec, Whole
<1>6. Ordered' /\ Unsynced'
  BY <1>1, <1>4 DEF LogInv, Ordered, Unsynced
<1>7. wal # << >>
  BY <1>1
<1>8. CASE wal[1].stream = stream
  <2>1. Len(acked) = synced /\ \A n \in 1 .. synced : wal[n] = acked[n]
    BY <1>1, <1>7, <1>8 DEF LogInv, Current
  <2>2. Len(acked') = Len(wal) /\ \A n \in 1 .. Len(wal) : wal[n] = acked'[n]
    BY <2>1, <1>1, <1>4
  <2>3. Current'
    BY <2>2, <1>1 DEF Current
  <2>4. Front'
    <3>1. DOMAIN acked' = 1 .. Len(wal)
      BY <2>2, <1>4
    <3>2. \A n \in 1 .. Len(wal) : \A m \in 1 .. n : wal[m] = acked'[m]
      BY <2>2, Positions
    <3> QED
      BY <3>1, <3>2, <1>1 DEF Front
  <2> QED
    BY <2>3, <2>4, <1>5, <1>6 DEF LogInv
<1>9. CASE wal[1].stream # stream
  <2>1. Current'
    BY <1>1, <1>9 DEF Current
  <2>2. Front'
    <3> SUFFICES ASSUME NEW n \in 1 .. Len(acked'), acked'[n].stream = wal[1].stream,
                        NEW m \in 1 .. n
                 PROVE  wal[m] = acked'[m]
      <4>1. DOMAIN acked' = 1 .. Len(acked') /\ wal' = wal
        BY <1>1, <1>4
      <4> QED
        BY <4>1 DEF Front
    <3>1. n \in 1 .. Len(acked)
      <4>1. n \notin Len(acked) + 1 .. Len(acked')
        BY <1>4, <1>9
      <4>2. Len(acked) \in Nat /\ Len(acked') \in Nat
        BY <1>1, <1>4
      <4> QED
        BY <4>1, <4>2
    <3>2. wal[m] = acked[m]
      BY <3>1, <1>4, Positions DEF LogInv, Front
    <3> QED
      BY <3>1, <3>2, <1>4, Positions
  <2> QED
    BY <2>1, <2>2, <1>5, <1>6 DEF LogInv
<1> QED
  BY <1>8, <1>9

\* Checkpoint empties the file and what is promised of it.
LEMMA CheckpointStep == LogInv /\ stream < MaxStreams /\ Checkpoint => LogInv'
  BY BoundAssumption
  DEF LogInv, TypeOK, Ordered, Unsynced, Current, Front, Checkpoint

\* Close leaves the file as it is.
LEMMA CloseStep == LogInv /\ Close => LogInv'
<1> SUFFICES ASSUME LogInv, Close PROVE LogInv'
  OBVIOUS
<1>1. TypeOK' /\ Ordered' /\ Front'
  BY DEF LogInv, TypeOK, Ordered, Front, Close
<1>2. Unsynced'
  BY Positions DEF LogInv, Unsynced, Close, Unlocked
<1>3. Current'
  BY DEF Current, Close
<1> QED
  BY <1>1, <1>2, <1>3 DEF LogInv

\* A crash keeps what is synced, and so all that is acknowledged.
LEMMA CrashStep == LogInv /\ Crash => LogInv'
<1> SUFFICES ASSUME LogInv, Crash PROVE LogInv'
  OBVIOUS
<1>1. /\ wal \in Seq(Rec) /\ synced \in 0 .. Len(wal) /\ ~open'
      /\ Len(acked) <= synced /\ UNCHANGED <<stream, acked>> /\ synced' = Len(wal')
  BY DEF Crash, LogInv, TypeOK, Unsynced, Rec
<1>2. /\ wal' \in Seq(Rec) /\ Len(wal') \in synced .. Len(wal)
      /\ \A n \in 1 .. synced : wal'[n] = wal[n]
      /\ \A n \in 1 .. Len(wal') : wal'[n].stream = wal[n].stream
  <2>1. PICK n \in synced .. Len(wal) :
          \E rest \in {<< >>} \cup (IF n < Len(wal) THEN {<<[wal[n + 1] EXCEPT !.entry = Torn]>>}
                                    ELSE {}) : wal' = SubSeq(wal, 1, n) \o rest
    BY DEF Crash
  <2>2. /\ SubSeq(wal, 1, n) \in Seq(Rec) /\ Len(SubSeq(wal, 1, n)) = n
        /\ \A m \in 1 .. n : SubSeq(wal, 1, n)[m] = wal[m]
    BY <1>1
  <2>3. CASE wal' = SubSeq(wal, 1, n) \o << >>
    BY <2>2, <2>3, <1>1
  <2>4. CASE n < Len(wal) /\ wal' = SubSeq(wal, 1, n) \o <<[wal[n + 1] EXCEPT !.entry = Torn]>>
    <3> DEFINE torn == [wal[n + 1] EXCEPT !.entry = Torn]
    <3>1. n + 1 \in 1 .. Len(wal) /\ wal[n + 1] \in Rec
      BY <2>4, <1>1, Positions
    <3>2. torn \in Rec /\ torn.stream = wal[n + 1].stream
      BY <3>1 DEF Rec
    <3>3. wal' = SubSeq(wal, 1, n) \o <<torn>>
      BY <2>4
    <3> HIDE DEF torn
    <3>4. /\ wal' \in Seq(Rec) /\ Len(wal') = n + 1 /\ wal'[n + 1] = torn
          /\ \A m \in 1 .. n : wal'[m] = wal[m]
      BY <3>2, <3>3, <2>2, <1>1
    <3> QED
      BY <3>1, <3>2, <3>4, <1>1
  <2> QED
    BY <2>1, <2>3, <2>4
<1>3. TypeOK'
  <2>1. synced' \in 0 .. Len(wal')
    BY <1>1, <1>2
  <2>2. open' \in BOOLEAN
    BY DEF Crash
  <2> QED
    BY <2>1, <2>2, <1>1, <1>2 DEF LogInv, TypeOK, Rec
<1>6. Ordered'
  <2>1. DOMAIN wal' = 1 .. Len(wal') /\ \A n \in 1 .. Len(wal') : n \in 1 .. Len(wal)
    BY <1>1, <1>2
  <2> QED
    BY <2>1, <1>1, <1>2, Positions DEF LogInv, Ordered
<1>7. Unsynced'
  BY <1>1, <1>2 DEF Unsynced
<1>4. Current'
  BY <1>1 DEF Current
<1>5. Front'
  <2>1. \A n \in DOMAIN acked : /\ 1 \in 1 .. synced
                                /\ \A m \in 1 .. n : m \in 1 .. synced
    BY <1>1, Positions
  <2> QED
    BY <2>1, <1>1, <1>2 DEF LogInv, Front
<1> QED
  BY <1>3, <1>4, <1>5, <1>6, <1>7 DEF LogInv

\* The invariant holds throughout.
LEMMA LogInvariant == Spec => []LogInv
<1>1. LogInv /\ UNCHANGED vars => LogInv'
  BY DEF vars, LogInv, TypeOK, Ordered, Unsynced, Current, Front
<1>2. LogInv /\ Next => LogInv'
  BY EntryAssumption, NewWALStep, LogStep, SyncStep, CheckpointStep, CloseStep, CrashStep
  DEF Next
<1> QED
  BY <1>1, <1>2, InitInv, PTL DEF Spec

\* Every variable keeps the type of the Go field or file it stands for.
THEOREM LogTypes == Spec => []TypeOK
<1>1. LogInv => TypeOK
  BY DEF LogInv
<1> QED
  BY <1>1, LogInvariant, PTL

\* Whatever is logged, and through any crashes, checkpoints and restarts, Replay
\* returns the acknowledged entries of the oldest stream in the order of their
\* calls (Replay reads with one decoder from the start of the file).
THEOREM OldestStreamSurvives == Spec => []OldestStreamReplayed
<1>1. LogInv => OldestStreamReplayed
  <2> SUFFICES ASSUME LogInv, NEW n \in DOMAIN acked
               PROVE  /\ wal # << >>
                      /\ acked[n].stream = wal[1].stream => /\ n \in DOMAIN Replay
                                                            /\ Replay[n] = acked[n].entry
    BY DEF OldestStreamReplayed
  <2>1. n \in 1 .. Len(acked) /\ n \in 1 .. Len(wal) /\ wal # << >>
    BY DEF LogInv, TypeOK, Unsynced
  <2>2. ASSUME acked[n].stream = wal[1].stream
        PROVE  n \in DOMAIN Replay /\ Replay[n] = acked[n].entry
    <3>1. \A m \in 1 .. n : wal[m] = acked[m]
      BY <2>2 DEF LogInv, Front
    <3>2. \A m \in 1 .. n : wal[m].entry # Torn
      BY <3>1, <2>1, EntryAssumption, Positions DEF Whole
    <3>3. \A m \in 1 .. n : wal[m].stream = wal[1].stream
      <4> SUFFICES ASSUME NEW m \in 1 .. n PROVE wal[m].stream = wal[1].stream
        OBVIOUS
      <4>1. /\ wal[1].stream <= wal[m].stream
            /\ wal[m].stream <= wal[n].stream
        BY <2>1, Positions DEF LogInv, Ordered
      <4>2. wal[n].stream = wal[1].stream
        BY <3>1, <2>1, <2>2
      <4> QED
        BY <4>1, <4>2, <2>1, Positions
    <3> QED
      <4>1. n \in Readable
        BY <3>2, <3>3, <2>1, Positions DEF Readable
      <4> QED
        BY <4>1, <3>1, <2>1 DEF Replay
  <2> QED
    BY <2>1, <2>2
<1> QED
  BY <1>1, LogInvariant, PTL
===============================================================================
