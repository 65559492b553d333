------------------------------- MODULE DocStore -------------------------------
(***************************************************************************)
(* What a collection promises to its callers: every key names an array of  *)
(* blocks, a block is appended at the end of the array of its key, and a   *)
(* key is deleted as a whole.  A block is represented by what GetVector    *)
(* returns for it: its vector, or NoVector for a block without one.        *)
(***************************************************************************)
EXTENDS Sequences

CONSTANTS Key, Vector, NoVector

VARIABLE store

Init == store = [k \in Key |-> <<>>]

AppendBlock(k, v) == store' = [store EXCEPT ![k] = Append(@, v)]

DeleteKey(k) == /\ store[k] # <<>>
                /\ store' = [store EXCEPT ![k] = <<>>]

Next == \E k \in Key : \/ \E v \in Vector \cup {NoVector} : AppendBlock(k, v)
                       \/ DeleteKey(k)

Spec == Init /\ [][Next]_store
===============================================================================
