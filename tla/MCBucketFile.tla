---------------------------- MODULE MCBucketFile ----------------------------
(* Two keys; a header fits the buffer and a record does not.               *)
EXTENDS BucketFile

CONSTANTS k1, k2, p1, p2
============================================================================
