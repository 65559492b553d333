------------------------------ MODULE MCShardStore ------------------------------
(* Two buckets, one of which holds two keys, and two goroutines that batch.   *)
EXTENDS ShardStore

CONSTANTS k1, k2, k3, b1, b2, p1, c1, c2

MCBucketOf == [k \in Key |-> IF k = k3 THEN b2 ELSE b1]

MCMaxRecords == [b \in Bucket |-> IF b = b1 THEN 3 ELSE 1]
===============================================================================
