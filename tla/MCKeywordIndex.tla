-------------------------- MODULE MCKeywordIndex --------------------------
(***************************************************************************)
(* KeywordIndex for the letters a, b, A and a letter of two bytes, which   *)
(* keywordRegex refuses.  The limits of the entry format are scaled down   *)
(* so that keys and keyword blocks of these sizes pass them.               *)
(***************************************************************************)
EXTENDS KeywordIndex

a == 1
b == 2
A == 3
u == 4

MCChar == {a, b, A, u}
MCLowerOf == [c \in MCChar |-> IF c = A THEN a ELSE c]
MCWidth == [c \in MCChar |-> IF c = u THEN 2 ELSE 1]
MCKeywordChar == {a, b}
MCKeyword == {<<a, b>>, <<A, b, b>>, <<b, b, a>>, <<a, b, b, a>>,
              <<a, b, b, a, b>>, <<u, a>>}
MCQueries == {<<<<b>>>>, <<<<a, b, b>>>>, <<<<A, b, b>>, <<b, b, a>>>>,
              <<<<a, b>>, <<a, b, b, a>>>>}
MCTerm == MCKeyword \cup {<<b>>, <<a, b, b>>, <<a, b, b, a, a>>}
============================================================================
