------------------------ MODULE MCCollectionManager ------------------------
(***************************************************************************)
(* Names "a" and "ab", keys "b" and "bb": plain concatenation would give   *)
(* "abb" twice.                                                            *)
(***************************************************************************)
EXTENDS CollectionManager, TLC

MCName == {<<"a">>, <<"a", "b">>}
MCKey  == {<<"b">>, <<"b", "b">>}
Handlers == Permutations(Handler)
============================================================================
