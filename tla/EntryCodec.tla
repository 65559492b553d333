----------------------------- MODULE EntryCodec -----------------------------
(***************************************************************************)
(* The on-disk form of a block, entry.go.  A string is a sequence of       *)
(* characters, numbered by Char; Width gives the bytes of a character in   *)
(* UTF-8.  A number of the format is one cell, kept modulo its width, and  *)
(* the limits of entry.go are constants so that small strings reach them.  *)
(* The checksum is ideal: it stands for the cells it covers.               *)
(***************************************************************************)
EXTENDS Integers, Sequences, FiniteSets, SequencesExt

CONSTANTS Char, LowerOf, Width,
          KeywordChar,      \* what keywordRegex allows
          MaxKeywordLength,
          MaxUint8,         \* largest value of a one-byte length
          MaxUint16         \* of a two-byte one: also MaxKeyLength and
                            \* MaxKeywordsBlockSize

ASSUME CodecAssumption ==
         /\ Char \subseteq Nat
         /\ LowerOf \in [Char -> Char]
         /\ Width \in [Char -> 1 .. 4]
         /\ KeywordChar \subseteq {c \in Char : LowerOf[c] = c /\ Width[c] = 1}
         /\ 0 < MaxKeywordLength
         /\ MaxKeywordLength <= MaxUint8 /\ MaxUint8 <= MaxUint16

ToLower(s) == [i \in DOMAIN s |-> LowerOf[s[i]]]

(* len(s) of a Go string.                                                  *)
RECURSIVE ByteLen(_)
ByteLen(s) == IF s = << >> THEN 0 ELSE Width[Head(s)] + ByteLen(Tail(s))

Uint8(n) == n % (MaxUint8 + 1)

Uint16(n) == n % (MaxUint16 + 1)

(* An operation that failed.                                               *)
Error == [ok |-> FALSE]

----------------------------------------------------------------------------
ValidateKeyword(w) ==
  /\ w # << >>
  /\ ByteLen(w) <= MaxKeywordLength
  /\ Range(ToLower(w)) \subseteq KeywordChar

(* EncodeKeywords: count, then length and characters of each keyword.      *)
KeywordCells(ws) ==
  <<Uint16(Len(ws))>> \o
  FlattenSeq([i \in DOMAIN ws |-> <<Uint8(ByteLen(ws[i]))>> \o ToLower(ws[i])])

Mut_EncodeKeywords(ws) ==
  IF Len(ws) > MaxUint16 \/ \E i \in DOMAIN ws : ~ ValidateKeyword(ToLower(ws[i]))
  THEN Error
  ELSE [ok |-> TRUE, cells |-> KeywordCells(ws)]

EncodeKeywords(ws) ==
  IF \/ Len(ws) > MaxUint16
     \/ \E i \in DOMAIN ws : ~ ValidateKeyword(ToLower(ws[i]))
     \/ Len(KeywordCells(ws)) > MaxUint16
  THEN Error
  ELSE [ok |-> TRUE, cells |-> KeywordCells(ws)]

(* The n keywords at the start of cells; a keyword that the cells cut      *)
(* short is filled up with zeros, as Read into a fresh slice does, and one *)
(* of which nothing is left is an error.                                   *)
RECURSIVE ReadKeywords(_, _)
ReadKeywords(cells, n) ==
  IF n = 0 THEN [ok |-> TRUE, words |-> << >>]
  ELSE IF Len(cells) <= 1 THEN Error
  ELSE LET len == Head(cells)
           w   == [i \in 1 .. len |->
                     IF i < Len(cells) THEN cells[i + 1] ELSE 0]
           rest == ReadKeywords(SubSeq(cells, len + 2, Len(cells)), n - 1)
       IN  IF rest.ok THEN [rest EXCEPT !.words = <<w>> \o @] ELSE Error

DecodeKeywords(cells) ==
  IF cells = << >> THEN Error ELSE ReadKeywords(Tail(cells), Head(cells))

----------------------------------------------------------------------------
(* The header: its own size, flags, four lengths and the checksum.         *)
HeaderSize == 7

EncodeFlags(f) ==
  (f.dataType % 8) + (IF f.compressed THEN 8 ELSE 0)
                   + (IF f.tombstone THEN 16 ELSE 0)

ParseFlags(n) == [dataType |-> n % 8, compressed |-> (n \div 8) % 2 = 1,
                  tombstone |-> (n \div 16) % 2 = 1]

CRC32(cells) == [cells EXCEPT ![HeaderSize] = 0]

EncodeEntry(e) ==
  LET kw == EncodeKeywords(e.keywords)
  IN  IF ~ kw.ok \/ Len(e.key) > MaxUint16 THEN Error
      ELSE LET cells == <<HeaderSize, EncodeFlags(e.flags),
                          Uint16(Len(e.key)), Len(e.primary),
                          Len(e.secondary), Uint16(Len(kw.cells)), 0>>
                        \o e.key \o kw.cells \o e.primary \o e.secondary
           IN  [ok |-> TRUE,
                cells |-> [cells EXCEPT ![HeaderSize] = CRC32(cells)]]

(* DecodeEntryHeader and DecodeEntry.                                      *)
DecodeEntry(cells) ==
  IF Len(cells) < HeaderSize \/ cells[1] > Len(cells) THEN Error
  ELSE IF cells[HeaderSize] # CRC32(cells) THEN Error
  ELSE LET keyEnd       == cells[1] + cells[3]
           kwEnd        == keyEnd + cells[6]
           primaryEnd   == kwEnd + cells[4]
           secondaryEnd == primaryEnd + cells[5]
           words == DecodeKeywords(SubSeq(cells, keyEnd + 1, kwEnd))
       IN  IF secondaryEnd > Len(cells) THEN Error
           ELSE IF ~ words.ok THEN Error
           ELSE [ok |-> TRUE, flags |-> ParseFlags(cells[2]),
                 key |-> SubSeq(cells, cells[1] + 1, keyEnd),
                 keywords |-> words.words,
                 primary |-> SubSeq(cells, kwEnd + 1, primaryEnd),
                 secondary |-> SubSeq(cells, primaryEnd + 1, secondaryEnd)]
============================================================================
