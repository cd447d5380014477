---------------------------- MODULE MCWorkerPool ----------------------------
(***************************************************************************)
(* Small pools.  Workers named u poll for uploads, those named d for       *)
(* downloads, those named x for removals; the digit is their process.      *)
(***************************************************************************)
EXTENDS WorkerPool

T(op, root, lp, rp) == [op |-> op, root |-> root, lp |-> lp, rp |-> rp]

Classes == {"upload_finalize", "other"}

ProcTable == [u1 |-> "p1", d1 |-> "p1", x1 |-> "p1", u2 |-> "p2"]
OpTable   == [u1 |-> "upload", d1 |-> "download", x1 |-> "remove", u2 |-> "upload"]

MCProcOf == [w \in Workers |-> ProcTable[w]]
MCOpOf   == [w \in Workers |-> OpTable[w]]

\* What the program's own callers request: uploads, one remote path per local path.
Uploads == {T("upload", "r1", "l1", "a"), T("upload", "r1", "l2", "b")}

OneUpload == {T("upload", "r1", "l1", "a")}

\* A download and a removal of the same path.
DownAndAway == {T("download", "r1", "l1", "a"), T("remove", "r1", "l1", "a")}
=============================================================================
