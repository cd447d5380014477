------------------------------ MODULE MCWatcher ------------------------------
(***************************************************************************)
(* Two roots with one file each.                                           *)
(***************************************************************************)
EXTENDS Watcher

TwoRoots     == <<"r1", "r2">>
InOwnRoot    == [f \in Files |-> IF f = "f1" THEN "r1" ELSE "r2"]
=============================================================================
