----------------------------- MODULE WritePolicy -----------------------------
(***************************************************************************)
(* The daemon's write policies (cmd/hddsyncd/main.go).  The command line   *)
(* has one flag per mode; each mode permits what the one before it permits *)
(* and a little more.  A mode is its position in that ladder; FullyWritable*)
(* stands for a command line without any of the flags.                     *)
(***************************************************************************)
EXTENDS Integers, FiniteSetsExt

FullyWritable == 0
Modes == 1..8

\* What each mode adds: read_only, mkdir_only, .._rename_.., .._move_..,
\* .._file_rename_.., .._file_rename_move_.., .._remove_.., .._copy_upload_only.
Adds == <<{}, {"mkdir"}, {"renameDir"}, {"moveDir"}, {"renameFile"}, {"moveFile"},
          {"deleteFile", "deleteDir"}, {"copyUploadFile"}>>

\* The capabilities of a mode.  Fully writable sets none: that mode is told from
\* the others by its name, and canCreateFile and canWriteFile are set by no mode.
Can(mode) == UNION {Adds[i] : i \in 1..mode}

Permissions == Can(8) \union {"createFile", "writeFile"}

\* Mutant: the most permissive of the given flags wins.
WidestFlag(flags) == IF flags = {} THEN FullyWritable ELSE Max(flags)

\* The switch of writePolicyFromArgs: the most restrictive of the given flags wins.
PolicyFrom(flags) == IF flags = {} THEN FullyWritable ELSE Min(flags)

\* parseRunArgs refuses two flags together; it has no check for read_only with
\* mkdir_rename_move_only.
Accepted(flags) == \A f, g \in flags : f = g \/ {f, g} = {1, 4}

\* What the daemon is asked to do, by what it needs permission for.
Needs(request) ==
  CASE request = "fs.mkdir"        -> {"mkdir"}
    [] request = "fs.rename"       -> {"renameFile", "renameDir", "moveFile", "moveDir"}
    [] request = "fs.create"       -> {"createFile"}
    [] request = "fs.markDirty"    -> {"writeFile"}
    [] request = "fs.setattr"      -> {"writeFile"}
    [] request = "fs.remove"       -> {"deleteFile", "deleteDir"}
    [] request = "fs.uploadStaged" -> {"copyUploadFile"}
    [] OTHER                       -> {}

\* What a restricted daemon lets be renamed (same parent) or moved (same name).
LetsRename(m, dir, sameParent, sameName) ==
  IF dir
  THEN IF sameParent THEN "renameDir" \in Can(m) ELSE "moveDir" \in Can(m) /\ sameName
  ELSE /\ {"renameFile", "moveFile"} \intersect Can(m) # {}
       /\ sameParent \/ ("moveFile" \in Can(m) /\ sameName)

\* policyAllowsRequest, and dispatchFS's rule that only restricted modes ask it.
Admits(mode, request) ==
  mode = FullyWritable \/ Needs(request) = {} \/ Needs(request) \intersect Can(mode) # {}
=============================================================================
