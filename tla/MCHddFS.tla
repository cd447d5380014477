------------------------------- MODULE MCHddFS -------------------------------
(***************************************************************************)
(* A small instance of HddFS for TLC: two threads, two files, a directory  *)
(* with a file, and for each mode the calls that meet in it.               *)
(***************************************************************************)
EXTENDS HddFS, TLC

CONSTANTS T1, T2

Root == <<>>
A == <<"a">>
B == <<"b">>
D == <<"d">>
DA == <<"d", "a">>
BA == <<"b", "a">>
MCPaths == {Root, A, B, BA, D, DA}
MCRank == (Root :> 0) @@ (A :> 1) @@ (B :> 2) @@ (BA :> 3) @@ (D :> 4) @@ (DA :> 5)
MCThreads == {T1, T2}
Them == "them"
MCWriters == MCThreads \union {Them}
MCRemote == [p \in MCPaths |-> CASE p \in {Root, D} -> Directory [] p \in {A, DA} -> File({Them}) [] OTHER -> Nothing]
MCStartedAs == {<<m, m>> : m \in {0, 3, 4, 6, 8}}
ThreadSymmetry == Permutations(MCThreads)

On(ops, path) == {Call(op, path, <<>>, FALSE) : op \in ops}
Renames(pairs) == {Call("rename", p[1], p[2], FALSE) : p \in pairs}
Rest == {"read", "write", "release"}

MCMenu ==
  [m \in 0..8 |->
    CASE m = 0 -> On({"open", "create", "write", "flush", "release"}, A)
                  \union Renames({<<A, B>>, <<B, A>>, <<A, A>>}) \union On({"release"}, B)
      [] m = 1 -> On({"open", "read", "release", "getattr", "readdir", "peek"}, A) \union On({"readdir", "peek"}, D)
      [] m = 3 -> On({"mkdir"}, B) \union Renames({<<D, B>>, <<B, A>>, <<DA, B>>}) \union On({"unlink"}, A)
      [] m = 4 -> Renames({<<D, B>>, <<B, D>>, <<D, DA>>, <<Root, D>>}) \union On({"mkdir"}, B) \union On({"readdir"}, Root)
      [] m = 6 -> On({"open", "read", "release", "peek"}, A) \union Renames({<<DA, A>>})
      [] m = 8 -> On({"create", "open", "read", "getattr"}, B) \union On({"write", "truncate", "release", "unlink"}, A)
                  \union On({"write", "release"}, B) \union {Call("openw", A, <<>>, TRUE)}
                  \union On({"readdir"}, Root) \union Renames({<<A, B>>})
      [] OTHER -> {}]
=============================================================================
