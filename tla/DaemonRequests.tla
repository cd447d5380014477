---------------------------- MODULE DaemonRequests ----------------------------
(***************************************************************************)
(* The daemon as a mount sees it: one pipe, requests that the daemon       *)
(* carries out, refuses or fails, and answers that may be lost (module     *)
(* RemoteAccess has the handlers in detail).  A request whose answer is    *)
(* lost has taken effect, will take effect later or never does: the pipe   *)
(* times out, or was closed while idle, and the daemon's handler goes on.  *)
(***************************************************************************)
EXTENDS WritePolicy, RemotePath, FiniteSets

CONSTANTS
  Paths,        \* the remote paths there can be, closed under Parent
  Writers,      \* whoever writes; a text is the set of those who wrote into it
  MaxLost       \* bound: answers lost and requests that fail

ASSUME PathsAssumption ==
  /\ Paths \subseteq Seq(UNION {{p[i] : i \in DOMAIN p} : p \in Paths})
  /\ <<>> \in Paths /\ \A p \in Paths : Parent(p) \in Paths
  /\ MaxLost \in Nat

VARIABLES
  dmode,        \* the daemon's write policy
  remote,       \* what is at each remote path
  local,        \* the daemon's local file of each path (safeCachePath)
  lost,         \* answers lost so far
  late          \* requests the daemon is still busy with after the mount gave up

daemonVars == <<dmode, remote, local, lost, late>>

Nothing == [kind |-> "none", text |-> {}]
Directory == [kind |-> "dir", text |-> {}]
File(text) == [kind |-> "file", text |-> text]

There(path) == remote[path].kind # "none"
IsDir(path) == remote[path].kind = "dir"
Entries(path) == {p \in Paths : There(p) /\ p # <<>> /\ Parent(p) = path}

\* whole: no download into the file is under way or was broken off.
NoFile == [there |-> FALSE, whole |-> FALSE, text |-> {}]
Fresh == [there |-> TRUE, whole |-> TRUE, text |-> {}]

WithNode(path, node) == [remote EXCEPT ![path] = node]
Without(path) == [p \in Paths |-> IF Below(p, path) THEN Nothing ELSE remote[p]]

\* Mutant: what is below a directory does not go with it.
MovedAlone(old, new) ==
  [p \in Paths |-> CASE p = new -> remote[old] [] p = old -> Nothing [] OTHER -> remote[p]]

MovedTo(old, new) ==
  [p \in Paths |-> CASE Below(p, new) -> IF Rebased(p, new, old) \in Paths
                                         THEN remote[Rebased(p, new, old)] ELSE Nothing
                     [] ~Below(p, new) /\ Below(p, old) -> Nothing
                     [] OTHER -> remote[p]]

\* In the fully writable mode only the last name of the new path counts.
RenamesTo(q) == IF dmode = FullyWritable THEN Append(Parent(q.path), Base(q.to)) ELSE q.to

CanRename(q) ==
  LET new == RenamesTo(q) IN
  /\ q.path # <<>> /\ q.to # <<>> /\ There(q.path) /\ new \in Paths /\ IsDir(Parent(new))
  /\ dmode # FullyWritable =>
       LetsRename(dmode, IsDir(q.path), SameParent(q.path, new), SameName(q.path, new))
  /\ new = q.path \/ (~There(new) /\ ~Below(new, q.path))
  /\ new # q.path \/ dmode = FullyWritable \/ ~IsDir(q.path)
  /\ \A p \in Paths : Below(p, q.path) /\ There(p) => Rebased(p, q.path, new) \in Paths

\* What each request does to the remote, and whether it succeeds.  fs.close and
\* fs.markDirty upload, unseen by the caller, the local file that has the remote
\* path for its name: never the file the mount has written; there is none here.
Done(after) == [good |-> TRUE, after |-> after]
Failed == [good |-> FALSE, after |-> remote]
Only(can, after) == IF can THEN Done(after) ELSE Failed

Served(q) ==
  IF ~Admits(dmode, q.req) THEN Failed
  ELSE
  CASE q.req = "fs.stat" -> Only(There(q.path), remote)
    [] q.req = "fs.list" -> Only(IsDir(q.path), remote)
    [] q.req = "fs.mkdir" -> Only(~There(q.path) /\ IsDir(Parent(q.path)), WithNode(q.path, Directory))
    [] q.req = "fs.rename" ->
         Only(CanRename(q), IF RenamesTo(q) = q.path THEN remote ELSE MovedTo(q.path, RenamesTo(q)))
    [] q.req = "fs.remove" ->
         Only(q.path # <<>> /\ There(q.path)
                /\ (IF IsDir(q.path) THEN "deleteDir" ELSE "deleteFile") \in Can(dmode),
              Without(q.path))
    [] q.req = "fs.uploadStaged" ->
         Only(~There(q.path) /\ IsDir(Parent(q.path)), WithNode(q.path, File(q.text)))
    [] q.req = "fs.close" -> Only(dmode = FullyWritable, remote)
    [] OTHER -> Done(remote)

\* fs.create makes the local file of the path anew.
LocalAfter(q) == IF q.req = "fs.create" /\ Served(q).good THEN [local EXCEPT ![q.path] = Fresh] ELSE local

Answered(q) ==
  /\ remote' = Served(q).after /\ local' = LocalAfter(q)
  /\ UNCHANGED <<dmode, lost, late>>

\* The answer is lost, or says that the request failed, in time or not.
Loses == lost < MaxLost /\ lost' = lost + 1 /\ UNCHANGED dmode
LostAnswer(q) ==
  /\ Loses
  /\ \/ UNCHANGED <<remote, local, late>>
     \/ remote' = Served(q).after /\ local' = LocalAfter(q) /\ UNCHANGED late
     \/ late' = late \union {q} /\ UNCHANGED <<remote, local>>

\* fs.open makes the local file anew and fills it; the two can be seen apart.
OpenBegins(path) == local' = [local EXCEPT ![path] = [Fresh EXCEPT !.whole = FALSE]]
OpenEnds(path) ==
  \/ /\ remote[path].kind = "file"
     /\ local' = [local EXCEPT ![path] = [Fresh EXCEPT !.text = remote[path].text]]
  \/ \* the download failed; the file it began is removed if nobody has it open
     /\ remote[path].kind # "file"
     /\ \E there \in BOOLEAN : local' = [local EXCEPT ![path].there = there, ![path].whole = FALSE]

\* The daemon finishes a request nobody waits for; a late fs.open shows its middle.
Late(q) ==
  /\ q \in late
  /\ \/ /\ q.req # "fs.open" /\ late' = late \ {q}
        /\ remote' = Served(q).after /\ local' = LocalAfter(q)
     \/ /\ q.req = "fs.open" /\ OpenBegins(q.path) /\ UNCHANGED remote
        /\ late' = (late \ {q}) \union {[q EXCEPT !.req = "fs.open.rest"]}
     \/ /\ q.req = "fs.open.rest" /\ OpenEnds(q.path) /\ UNCHANGED remote
        /\ late' = late \ {q}
  /\ UNCHANGED <<dmode, lost>>
=============================================================================
