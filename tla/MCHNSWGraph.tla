---------------------------- MODULE MCHNSWGraph ----------------------------
(***************************************************************************)
(* HNSWGraph on four ids.  All distances between two of the vectors        *)
(* differ, and 7, 3 and 1, added in this order, are all nearest to 0.      *)
(* With M = 1 a list is pruned when it gets a third link.                  *)
(***************************************************************************)
EXTENDS HNSWGraph

MCID == 1 .. 4
MCVector == {0, 1, 3, 7}
MCQuery == {1}
MCLevel == 0 .. 1
============================================================================
