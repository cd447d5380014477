--------------------------- MODULE MCDaemonStartup ---------------------------
(***************************************************************************)
(* Two rows left by an earlier run, one of which may be malformed.         *)
(***************************************************************************)
EXTENDS DaemonStartup

T(op, root, lp, rp) == [op |-> op, root |-> root, lp |-> lp, rp |-> rp]

MCTargets == {T("upload", "r1", "l1", "a"), T("upload", "r1", "null", "b")}
=============================================================================
