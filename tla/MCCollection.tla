----------------------------- MODULE MCCollection -----------------------------
(* Collection on small sets of keys, keywords, vectors and blocks.           *)
EXTENDS Collection

CONSTANTS k1, k2, w1, w2, v1, v2

one == [vec |-> v1, kws |-> {w1}]
two == [vec |-> v2, kws |-> {w1, w2}]
plain == [vec |-> NoVector, kws |-> {w2}]
misfit == [vec |-> BadVector, kws |-> {}]

MCBlock == {one, two, plain, misfit}

\* Two blocks of one key, a vector that does not fit before one that does, and
\* one block for each of two keys.
MCBatches ==
    LET Item(k, b) == [key |-> k, block |-> b]
    IN  {<<Item(k1, two), Item(k1, plain)>>, <<Item(k2, misfit), Item(k1, one)>>,
         <<Item(k1, one), Item(k2, two)>>}
===============================================================================
