---------------------------- MODULE KeywordIndex ----------------------------
(***************************************************************************)
(* The inverted index of keyword_index.go with its four search modes, over *)
(* the bit sets of bitset.go, and the keywords of the stored entry beside  *)
(* it.  Each method holds ii.mu and is one step.                           *)
(*                                                                         *)
(* The index is one map; its "kw:" keys and its trigram keys are told      *)
(* apart by a tag here.  In the code the trigram "kw:" is the only string  *)
(* that has both forms, and a stored keyword has no colon.  The id lists   *)
(* only ever become bit sets, so they are sets here.                       *)
(***************************************************************************)
EXTENDS EntryCodec

CONSTANTS ID,          \* vector ids
          Keyword,     \* keywords that blocks are given
          Term,        \* what is searched for
          MaxWords,    \* bound: keywords of one id
          Queries,     \* lists of terms
          MaxDistance, \* Levenshtein distance asked for
          Nil          \* a nil *BitSet

VARIABLES index, \* ii.index: key -> set of ids
          given  \* auxiliary: the keywords each id was added with, in order

vars == <<index, given>>

(* A missing key reads as the empty list.                                  *)
Lookup(key) == IF key \in DOMAIN index THEN index[key] ELSE {}

Intersect(a, b) == {id \in a : id \in b}

----------------------------------------------------------------------------
(* GenerateTrigrams: the length test counts bytes, the loop characters.    *)
Mut_GenerateTrigrams(w) ==
  IF ByteLen(w) < 3 THEN <<ToLower(w)>>
  ELSE [i \in 1 .. Len(w) - 3 |-> SubSeq(ToLower(w), i, i + 2)]

GenerateTrigrams(w) ==
  IF ByteLen(w) < 3 THEN <<ToLower(w)>>
  ELSE [i \in 1 .. Len(w) - 2 |-> SubSeq(ToLower(w), i, i + 2)]

(* The keys under which a keyword is filed.                                *)
Mut_Keys(w) ==
  {<<"tg", t>> : t \in Range(GenerateTrigrams(w))} \cup {<<"kw", w>>}

Keys(w) ==
  {<<"tg", t>> : t \in Range(GenerateTrigrams(ToLower(w)))}
  \cup {<<"kw", ToLower(w)>>}

KeysOf(ws) == UNION {Keys(ws[i]) : i \in DOMAIN ws}

Init == index = << >> /\ given = [id \in ID |-> << >>]

(* An id may be filed again: ids are reused.                               *)
Add(ws, id) ==
  /\ Len(given[id] \o ws) <= MaxWords
  /\ LET keys == KeysOf(ws)
     IN  index' = [key \in DOMAIN index \cup keys |->
                     IF key \in keys THEN Lookup(key) \cup {id}
                     ELSE index[key]]
  /\ given' = [given EXCEPT ![id] = @ \o ws]

(* Delete with all the keywords of the id: nothing in the server calls it. *)
Delete(id) ==
  /\ given[id] # << >>
  /\ LET keys == KeysOf(given[id])
     IN  index' = [key \in DOMAIN index |->
                     IF key \in keys THEN index[key] \ {id} ELSE index[key]]
  /\ given' = [given EXCEPT ![id] = << >>]

Next ==
  \/ \E w, x \in Keyword, id \in ID : Add(<<w>>, id) \/ Add(<<w, x>>, id)
  \/ \E id \in ID : Delete(id)

Spec == Init /\ [][Next]_vars

----------------------------------------------------------------------------
(* d of levenshteinDistance.  With an empty argument the result is the     *)
(* length of the other in bytes.                                           *)
Mut_levenshteinDistance(a, b) ==
  IF a = << >> THEN ByteLen(b) ELSE IF b = << >> THEN ByteLen(a)
  ELSE LET d[i \in 0 .. Len(a), j \in 0 .. Len(b)] ==
             IF i = 0 THEN j ELSE IF j = 0 THEN i
             ELSE Min({d[i - 1, j] + 1, d[i, j - 1] + 1} \cup
                      IF a[i] = b[j] THEN {d[i - 1, j - 1]} ELSE {})
       IN  d[Len(a), Len(b)]

levenshteinDistance(a, b) ==
  IF a = << >> THEN ByteLen(b) ELSE IF b = << >> THEN ByteLen(a)
  ELSE LET d[i \in 0 .. Len(a), j \in 0 .. Len(b)] ==
             IF i = 0 THEN j ELSE IF j = 0 THEN i
             ELSE Min({d[i - 1, j] + 1, d[i, j - 1] + 1,
                       d[i - 1, j - 1] + IF a[i] = b[j] THEN 0 ELSE 1})
       IN  d[Len(a), Len(b)]

(* The keywords that a scan of the map meets.                              *)
Indexed == {key[2] : key \in {k \in DOMAIN index : k[1] = "kw"}}

(* The ids filed under one of the keywords.                                *)
Scan(words) == UNION {Lookup(<<"kw", w>>) : w \in words}

ExactCandidates(t) == Lookup(<<"kw", ToLower(t)>>)

PrefixCandidates(t) == Scan({w \in Indexed : IsPrefix(ToLower(t), w)})

LevenshteinCandidates(t, max) ==
  Scan({w \in Indexed : levenshteinDistance(ToLower(t), w) <= max})

PartialCandidates(t) ==
  LET tg == GenerateTrigrams(ToLower(t))
  IN  IF tg = << >> THEN {}
      ELSE FoldLeft(Intersect, Lookup(<<"tg", tg[1]>>),
                    [i \in 1 .. Len(tg) - 1 |-> Lookup(<<"tg", tg[i + 1]>>)])

Candidates(t, mode, max) ==
  CASE mode = "prefix"      -> PrefixCandidates(t)
    [] mode = "partial"     -> PartialCandidates(t)
    [] mode = "levenshtein" -> LevenshteinCandidates(t, max)
    [] OTHER                -> ExactCandidates(t)

(* Search: every term must match.                                          *)
Mut_Search(ts, mode, max) ==
  IF ts = << >> THEN Nil
  ELSE UNION {Candidates(ts[i], mode, max) : i \in DOMAIN ts}

Search(ts, mode, max) ==
  IF ts = << >> THEN Nil
  ELSE FoldLeft(Intersect, Candidates(Head(ts), mode, max),
                [i \in 1 .. Len(ts) - 1 |-> Candidates(ts[i + 1], mode, max)])

----------------------------------------------------------------------------
(* Reference definitions.                                                  *)

Words(id) == {ToLower(given[id][i]) : i \in DOMAIN given[id]}

HasSubstring(w, t) ==
  \E i \in 0 .. Len(w) - Len(t) : SubSeq(w, i + 1, i + Len(t)) = t

(* The ids that have, for each term, a keyword that is as Fits demands.    *)
Having(ts, Fits(_, _)) ==
  {id \in ID : \A i \in DOMAIN ts : \E w \in Words(id) : Fits(w, ToLower(ts[i]))}

(* b is a with one character removed, added or replaced.                   *)
OneEdit(a, b) ==
  \/ \E i \in DOMAIN a : b = RemoveAt(a, i)
  \/ \E i \in DOMAIN b : a = RemoveAt(b, i)
  \/ /\ Len(a) = Len(b)
     /\ Cardinality({i \in DOMAIN a : a[i] # b[i]}) = 1

(* The strings of S that n edits make of a.                                *)
RECURSIVE Ball(_, _, _)
Ball(a, n, S) ==
  IF n = 0 THEN {a}
  ELSE LET near == Ball(a, n - 1, S)
       IN  near \cup {b \in S : \E x \in near : OneEdit(x, b)}

----------------------------------------------------------------------------
(* Exact, prefix and Levenshtein search for a list of terms give exactly   *)
(* the ids with a matching keyword for each of the terms, whatever ids     *)
(* share a keyword and in whatever order they were filed and removed.      *)
ModesExact ==
  \A ts \in Queries :
    /\ Search(ts, "exact", 0) = Having(ts, LAMBDA w, x : w = x)
    /\ Search(ts, "prefix", 0) = Having(ts, LAMBDA w, x : IsPrefix(x, w))
    /\ Search(ts, "levenshtein", MaxDistance) =
         Having(ts, LAMBDA w, x : levenshteinDistance(x, w) <= MaxDistance)

(* Partial search for at least three characters misses no id that has a    *)
(* keyword with the term in it, and for exactly three finds nothing else.  *)
PartialFindsSubstrings ==
  \A t \in {x \in Term : Len(x) >= 3} :
    LET wanted == Having(<<t>>, HasSubstring)
        found  == Search(<<t>>, "partial", 0)
    IN  /\ wanted \subseteq found
        /\ Len(t) = 3 => found = wanted

(* The keywords that GetBlock decodes from the stored entry of a block     *)
(* find that block in every mode: entry.go and keyword_index.go agree on   *)
(* what a keyword is.                                                      *)
StoredKeywordsFound ==
  \A id \in ID :
    LET e == EncodeEntry([flags |-> ParseFlags(0), key |-> << >>,
                          keywords |-> given[id], primary |-> << >>,
                          secondary |-> << >>])
    IN  e.ok => \A w \in Range(DecodeEntry(e.cells).keywords),
                   mode \in {"exact", "prefix", "partial", "levenshtein"} :
                  id \in Search(<<w>>, mode, 0)

(* The strings over the alphabet of length at most n.                      *)
Strings(n) == UNION {[1 .. k -> KeywordChar] : k \in 0 .. n}

(* levenshteinDistance is the least number of edits that turn one string   *)
(* into the other.  (Evaluated in the initial state.)                      *)
LevenshteinIsEditDistance ==
  index = << >> =>
    \A a, b \in Strings(3) :
      LET d == levenshteinDistance(a, b)
      IN  /\ b \in Ball(a, d, Strings(3))
          /\ d > 0 => b \notin Ball(a, d - 1, Strings(3))

(* An entry that EncodeEntry accepts is decoded to the same entry with its *)
(* keywords in lower case: no length is truncated by its field, up to and  *)
(* past the limits of key, keyword and keyword block, and a file that      *)
(* stops before the end of the entry is refused.  (Evaluated in the        *)
(* initial state.)                                                         *)
EntryRoundTrip ==
  index = << >> =>
    \A n \in 0 .. MaxUint16 + 1, m \in 0 .. 1, w, x \in Keyword,
       f \in [dataType : {0, 5}, compressed : BOOLEAN, tombstone : BOOLEAN] :
      \A ws \in {<< >>, <<w>>, <<w, x>>} :
        LET entry == [flags |-> f, key |-> [i \in 1 .. n |-> w[1]],
                      keywords |-> ws, primary |-> x,
                      secondary |-> SubSeq(w, 1, m)]
            e == EncodeEntry(entry)
        IN  e.ok => /\ DecodeEntry(e.cells) =
                         [entry EXCEPT !.keywords =
                            [i \in DOMAIN ws |-> ToLower(ws[i])]]
                         @@ [ok |-> TRUE]
                    /\ ~ DecodeEntry(Front(e.cells)).ok
============================================================================
