---------------------------- MODULE MCVectorManager ----------------------------
(* VectorManager with one or two handlers, two keys and a few blocks.        *)
EXTENDS VectorManager, TLC

CONSTANTS p1, p2, k1, k2, w1, v1, b1

Blk(n, v, words) == [prim |-> n, vec |-> v, kws |-> words]

one == Blk(1, v1, {w1})
two == Blk(2, NoVector, {})

MCBlock == {one, two}

\* EncodeEntry refuses the keyword of block one.
MCEncodable == {two}

Item(k, b) == [key |-> k, block |-> b]

MCDistinct == {<<Item(k1, one), Item(k2, two)>>}
MCSingle == {<<Item(k1, one)>>, <<Item(k1, two)>>}
MCSameKey == {<<Item(k1, one), Item(k1, two)>>}

MCBucketOf == [k \in Key |-> b1]

Symmetry == Permutations(Proc)
===============================================================================
