-------------------------------- MODULE HddFS --------------------------------
(***************************************************************************)
(* The mount program (cmd/hddfs/main.go): either the mount over the daemon *)
(* or the read-only mount over a provider, started with one of the modes,  *)
(* and what must be true of it.                                            *)
(***************************************************************************)
EXTENDS IPCFileSystem, CloudFS

CONSTANTS
  StartedAs,    \* the pairs of modes the mount and the daemon are started with
  Remote0       \* what the remote holds at first

\* At first, too, the remote is a tree.
ASSUME HddFSAssumption ==
  /\ StartedAs \subseteq ({FullyWritable} \union Modes) \X ({FullyWritable} \union Modes)
  /\ Remote0 \in [Paths -> [kind : {"none", "dir", "file"}, text : SUBSET Writers]]
  /\ Remote0[<<>>] = Directory
  /\ \A p \in Paths : Remote0[p].kind # "none" => Remote0[Parent(p)].kind = "dir"

VARIABLES
  front,        \* "daemon" or "direct"
  told          \* history: paths at which the mount has brought about what is there now

vars == <<daemonVars, callVars, ipcVars, cloudVars, front, told>>

\* With --daemon the mount is of the mode its flags say; without it, always read-only,
\* and no daemon is involved.
RunMount ==
  /\ front \in {"daemon", "direct"}
  /\ \E pair \in IF front = "daemon" THEN StartedAs ELSE {<<1, 1>>} : fmode = pair[1] /\ dmode = pair[2]

Init ==
  /\ RunMount /\ remote = Remote0
  /\ local = [p \in Paths |-> NoFile] /\ lost = 0 /\ late = {}
  /\ th = [t \in Threads |-> Idle] /\ made = 0 /\ dirs = <<>>
  /\ IPCInit /\ CloudInit /\ told = {}

\* What a call that reaches its flush has made, removed, renamed or, in the root, sent.
Brought(q) ==
  (CASE q.op \in {"mkdir", "unlink", "rmdir"} -> {q.path}
     [] q.op = "rename" -> {q.path, q.to}
     [] q.op = "release" /\ q.then = "sent" /\ Parent(q.path) = <<>> -> {q.path}
     [] OTHER -> {}) \ {<<>>}

\* t's call has flushed the listings, met no rival, and no listing was on its way when
\* the daemon did what it asked for.
Tells(t) == th[t].pc = "flush" /\ th'[t].pc # "flush" /\ ~th[t].rival /\ ~th[t].raced

Told ==
  told' = {p \in Paths : /\ p \in told \/ \E t \in Threads : Tells(t) /\ p \in Brought(th[t])
                         /\ remote'[p].kind # "none" <=> remote[p].kind # "none"}

Next ==
  \/ front = "daemon" /\ IPCNext /\ Told /\ UNCHANGED front /\ UNCHANGED cloudVars
  \/ front = "direct" /\ CloudNext /\ Told /\ UNCHANGED front /\ UNCHANGED ipcVars

Spec == Init /\ [][Next]_vars
-----------------------------------------------------------------------------
HandleNumbers == Handles \union {None}
Texts == SUBSET Writers

\* Type correctness of the state of both mounts.
MountTypeOK ==
  /\ front \in {"daemon", "direct"} /\ {fmode, dmode} \subseteq MountModes /\ told \subseteq Paths
  /\ remote \in [Paths -> [kind : {"none", "dir", "file"}, text : Texts]] /\ remote[<<>>] = Directory
  /\ \A p \in Paths : There(p) => IsDir(Parent(p))
  /\ local \in [Paths -> [there : BOOLEAN, whole : BOOLEAN, text : Texts]]
  /\ lost \in 0..MaxLost /\ made \in 0..MaxCalls /\ fault \in {"none", "stolen", "dead"}
  /\ files \in [Paths -> HandleNumbers] /\ wire \in HandleNumbers
  /\ locks \in [Paths -> Threads \union {Nobody}]
  /\ cached \subseteq Paths /\ loading \in [Paths -> Threads \union {Nobody}]
  /\ cacheLock \in Threads \union {Nobody}
  /\ DOMAIN dirs \subseteq Paths /\ \A d \in DOMAIN dirs : dirs[d] \subseteq Paths

\* An open file is in the table under its own name only: renames on some threads, and
\* opens, removals and releases of the same paths on others, never leave a handle
\* under two names, unless a lock was unlocked from under its holder, as the renaming of
\* a path to itself may do (ipcfs.go Rename, renameInFileRenameMode, Open, Release).
HandleOnce == fault = "none" => \A p \in Paths : files[p] # None => handle[files[p]].path = p

\* Whom t waits for: the holder of a path lock, a Read that keeps a handle's mutex
\* during its download, the thread that downloads the file, the holder of the cache.
Waiting(h) == {u \in Threads : th[u].pc = "wait" /\ th[u].h = h}
WaitsFor(t) ==
  LET q == th[t] IN
  CASE q.pc = "lock" -> {locks[NextWanted(q)]} \ {Nobody}
    [] q.pc \in {"enter", "close"} -> Waiting(q.h)
    [] q.pc = "look" /\ Writes(q) /\ files[q.path] # None -> Waiting(files[q.path])
    [] front = "direct" /\ q.pc = "wait" -> {loading[q.path]} \intersect {q.then}
    [] q.pc \in {"lookup", "recheck", "fetch", "publish"} -> {cacheLock} \ {Nobody, t}
    [] OTHER -> {}

\* No threads wait for one another in a circle: path locks are taken in the order of
\* the paths, and nobody takes one while a handle's mutex or the cache is in hand
\* (ipcfs.go Rename's ordering, Read's wait under h.mu; cloudfs.go Open's wait).
NobodyWaitsInACircle ==
  ~\E circle \in SUBSET Threads : circle # {} /\ \A t \in circle : WaitsFor(t) \intersect circle # {}

\* A mount and a daemon of the same mode agree: the mount refuses by itself whatever
\* the daemon's policy refuses (ipcfs.go's mode checks, main.go policyAllowsRequest).
SentIsAdmitted ==
  front = "daemon" /\ fmode = dmode => \A t \in Threads : th[t].pc = "ask" => Admits(dmode, th[t].req)

\* Two Opens never download a file at the same time (cloudfs.go's loading guard); an
\* Open after the first one's announcement may still download it again.
OneDownloadAtATime ==
  front = "direct" =>
    \A t, u \in Threads :
      /\ {th[t].op, th[u].op} = {"open"} /\ th[t].path = th[u].path
      /\ {th[t].pc, th[u].pc} \subseteq {"download", "downloading"}
      => t = u

\* As long as no download has failed, what the read-only mount offers as downloaded is
\* all there, but while the same file is being downloaded anew (cloudfs.go Open's
\* publication of the entry, Read's download of a file nobody opened).
CachedFilesAreWhole ==
  lost = 0 => \A p \in cached :
    local[p].whole \/ \E t \in Threads : th[t].path = p /\ th[t].pc = "downloading"

\* Once something has been made, removed, renamed or, in the root, sent by a call that
\* met no rival, every cached listing says so, however old and whoever asked for it,
\* until it is changed again: only a listing that was on its way when the daemon did
\* it may be stored too late (ipcfs.go flushDirCacheFor, where it is called, Readdir).
OwnChangesListed ==
  \A p \in told : Parent(p) \in DOMAIN dirs => (p \in dirs[Parent(p)] <=> There(p))
-----------------------------------------------------------------------------
Ends(t) == Busy(t) /\ th'[t].pc = "idle"

\* In the copy-upload mode a Release that reports success has sent what its session
\* wrote: if no other call met the file meanwhile, it is at the remote under the
\* session's path, renamed or not (ipcfs.go createStagedUpload, Write, Rename, Release).
LostWriteNeedsRival ==
  [][\A t \in Threads :
       /\ CopyUpload /\ dmode = fmode
       /\ Ends(t) /\ th[t].op = "release" /\ th[t].wrote /\ ~th[t].rival /\ th'[t].good
       => t \in remote'[th[t].path].text]_vars
=============================================================================
