--------------------------- MODULE MCRequestPipeline ---------------------------
(* Connections compete for a channel and a semaphore with less room than they *)
(* need; one of them sends a second request.                                  *)
EXTENDS RequestPipeline

CONSTANTS c1, c2, c3

MCMaxReq == [c \in Conn |-> IF c = c1 THEN 2 ELSE 1]
===============================================================================
