------------------------------ MODULE RemotePath ------------------------------
(***************************************************************************)
(* Remote paths, the sequence of their names (cleanRemote, dirAndName of   *)
(* the provider; cleanPath, parentPath, basename of the mounts).           *)
(***************************************************************************)
EXTENDS Integers, Sequences

Parent(path) == IF path = <<>> THEN <<>> ELSE SubSeq(path, 1, Len(path) - 1)
Base(path) == path[Len(path)]
Prefix(path, n) == SubSeq(path, 1, n)
Below(path, top) == Len(path) >= Len(top) /\ Prefix(path, Len(top)) = top
SameParent(old, new) == Parent(old) = Parent(new)
SameName(old, new) == old # <<>> /\ new # <<>> /\ Base(old) = Base(new)

\* Where path goes when old, at or above it, becomes new.
Rebased(path, old, new) == new \o SubSeq(path, Len(old) + 1, Len(path))
=============================================================================
