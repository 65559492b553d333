---------------------------- MODULE MCWriteAheadLog ----------------------------
(* Calls of log with one entry and of LogBatch with two.                      *)
EXTENDS WriteAheadLog

CONSTANTS e1, e2, e3

MCCalls == {<<e1>>, <<e2>>, <<e3, e1>>}
===============================================================================
