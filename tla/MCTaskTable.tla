---------------------------- MODULE MCTaskTable ----------------------------
(***************************************************************************)
(* A small store: two roots' worth of requests that share remote paths.    *)
(***************************************************************************)
EXTENDS TaskTableRefinement

T(op, root, lp, rp) == [op |-> op, root |-> root, lp |-> lp, rp |-> rp]

\* Two operations on one path, and a second path of the same root.
MCTargets == {T("upload", "r1", "l1", "a"), T("download", "r1", "l1", "a"),
              T("upload", "r1", "l2", "b")}
=============================================================================
