---------------------------- MODULE IPCFileSystem ----------------------------
(***************************************************************************)
(* The mount over the daemon (internal/mount/winfsp/ipcfs.go).  Open files *)
(* are looked up by path in a table, not by the number Open returned, so   *)
(* all sessions of a path share one entry.  A handle of a plain file       *)
(* stands for the daemon's local file, which is downloaded by a goroutine  *)
(* of its own; in the copy-upload mode a file written to is staged and     *)
(* sent when it is released.  A step is what a thread does between two     *)
(* points where others can come in: taking a lock, a request, an access to *)
(* the table, the handle or the directory cache.                           *)
(***************************************************************************)
EXTENDS MountCalls

CONSTANTS
  Rank,         \* the order in which path locks are taken
  Handles       \* numbers of handles, reused when nobody holds them

ASSUME IPCAssumption == Rank \in [Paths -> Int] /\ Handles \subseteq Nat \ {0}

VARIABLES
  files,        \* files[p]: the handle in the table, or None
  handle,       \* handle[h]
  locks,        \* locks[p]: who has locked path p
  wire,         \* the handle whose download has the pipe, or None
  fault         \* "stolen": a lock was unlocked by another than its holder;
                \* "dead": the process has been ended by a run-time error

ipcVars == <<files, handle, locks, wire, fault>>

None == 0
NewHandle ==
  [path |-> NoPath,         \* the name it has in the table
   file |-> NoPath,         \* the path whose local file it stands for
   dl |-> "none",           \* its download: asking, loading, ready, failed or none
   again |-> FALSE,         \* which has been asked for a second time
   dirty |-> FALSE,
   staged |-> FALSE, committed |-> FALSE, disk |-> FALSE, text |-> {}]

InTable == {files[p] : p \in Paths} \ {None}
Held == {th[t].h : t \in Threads} \ {None}
Pending == {h \in Handles : handle[h].dl \in {"asking", "loading"}}
Unused == Handles \ (InTable \union Held \union Pending)

\* A handle's mutex: a Read keeps it while it waits for the download.
Free(h) == ~\E t \in Threads : th[t].pc = "wait" /\ th[t].h = h

Dead == fault = "dead"
Unlock(t, paths) ==
  /\ locks' = [p \in Paths |-> IF p \in paths THEN Nobody ELSE locks[p]]
  /\ fault' = CASE \E p \in paths : locks[p] = Nobody -> "dead"
                [] (\A p \in paths : locks[p] # Nobody) /\ (\E p \in paths : locks[p] # t) -> "stolen"
                [] OTHER -> fault

\* t goes on as q; a call that returns, or has found its handle, unlocks its paths.
Go(t, q) ==
  /\ th' = CASE q.pc = "idle" -> Finished(t, q)
             [] q.pc = "refind" -> [th EXCEPT ![t] = [q EXCEPT !.holds = {}]]
             [] OTHER -> [th EXCEPT ![t] = q]
  /\ Unlock(t, IF q.pc \in {"idle", "refind", "unlock"} THEN q.holds ELSE {})

Quiet == UNCHANGED <<fmode, made>> /\ UNCHANGED daemonVars
At(t, pc) == th[t].pc = pc /\ ~Dead
Heard(t, then) == At(t, "heard") /\ th[t].then = then
Table(files2, handle2) == files' = files2 /\ handle' = handle2 /\ UNCHANGED <<wire, dirs>>
Leave == Table(files, handle)
-----------------------------------------------------------------------------
\* Where a call begins; Refused is where it ends at once.
Refused == "refused"
Asks == "ask"

\* Mutant: a removal is refused only where nothing of a file may be changed.
RemovalAtOnce == IF fmode \in {1, 2} THEN Refused ELSE "lock"

Removal == IF Restricted /\ fmode < 7 THEN Refused ELSE "lock"

First(c) ==
  CASE c.op = "open" -> "lock"
    [] c.op \in {"openw", "create"} -> IF Restricted /\ ~CopyUpload THEN Refused ELSE "lock"
    [] c.op \in {"write", "truncate"} -> IF Restricted /\ ~CopyUpload THEN Refused ELSE "find"
    [] c.op = "mkdir" -> IF fmode = 1 THEN Refused ELSE Asks
    [] c.op \in {"unlink", "rmdir"} -> Removal
    [] c.op = "rename" -> IF fmode \in {1, 2} THEN Refused ELSE IF Restricted THEN Asks ELSE "lock"
    [] c.op = "release" -> "drop"
    [] c.op = "readdir" -> "list"
    [] OTHER -> "find"

\* A rename or move of a directory, in the modes that allow nothing else.
OnlyDirectories == fmode \in {3, 4}

Begin(t, c) ==
  /\ ~Dead /\ MayCall(t, c) /\ made' = made + 1
  /\ LET after == Started(t, c, First(c)) IN
     th' = CASE First(c) = Refused -> [th EXCEPT ![t].good = FALSE, ![t].saw = "none"]
             [] First(c) = Asks /\ c.op = "mkdir" ->
                  [after EXCEPT ![t] = Asking(@, "fs.mkdir", c.path, "changed")]
             [] First(c) = Asks /\ c.op = "rename" ->
                  IF OnlyDirectories /\ c.path = <<>> THEN [th EXCEPT ![t].good = FALSE]
                  ELSE [after EXCEPT ![t] = Asking(@, "fs.stat", c.path, IF OnlyDirectories THEN "dir" ELSE "old")]
             [] OTHER -> after
  /\ UNCHANGED fmode /\ UNCHANGED daemonVars /\ Leave /\ UNCHANGED <<locks, fault>>
-----------------------------------------------------------------------------
\* IPCClient.call: one request at a time.  Lookups are asked again once if the pipe
\* fails; nothing else is.
Idempotent == {"fs.stat", "fs.list"}

Asked(q) == [req |-> q.req, path |-> q.arg, to |-> q.to,
             text |-> IF q.h = None THEN {} ELSE handle[q.h].text]

\* A change is seen too late by a listing that is in a Readdir's hands.
Overtaken(t, q) == \E u \in Threads \ {t} : th[u].op = "readdir" /\ th[u].then = "listed"
                                            /\ th[u].pc = "heard" /\ th[u].path \in Flushed(q)

Ask(t) ==
  /\ At(t, "ask") /\ wire = None
  /\ LET q == [th[t] EXCEPT !.pc = "heard", !.isdir = IsDir(th[t].arg), !.tries = 0, !.arg = <<>>, !.req = "none",
                            !.got = IF th[t].req = "fs.list" THEN Entries(th[t].arg) ELSE {},
                            !.raced = th[t].raced \/ Overtaken(t, th[t])]
         r == Asked(th[t])
         failed == [q EXCEPT !.good = FALSE]
     IN \/ Answered(r) /\ Go(t, [q EXCEPT !.good = Served(r).good])
        \/ r.req \notin Idempotent /\ LostAnswer(r) /\ Go(t, failed)
        \/ \* the pipe fails, or the daemon answers that it could not ask the server
           /\ r.req \in Idempotent /\ Loses /\ UNCHANGED <<remote, local, late>>
           /\ \/ Go(t, failed)
              \/ th[t].tries = 0 /\ Go(t, [th[t] EXCEPT !.tries = 1])
  /\ UNCHANGED <<fmode, made>> /\ Leave

\* Mutant: the locks are taken in the order the paths are named.
WantedAsNamed(q) == IF q.op = "rename" THEN <<q.path, q.to>> ELSE <<q.path>>

\* pathLock; a rename in the fully writable mode takes two.
Wanted(q) ==
  CASE q.op = "rename" /\ Rank[q.path] < Rank[q.to] -> <<q.path, q.to>>
    [] q.op = "rename" /\ Rank[q.path] > Rank[q.to] -> <<q.to, q.path>>
    [] OTHER -> <<q.path>>

NextWanted(q) == Wanted(q)[Cardinality(q.holds) + 1]

\* What is done with the lock: createStagedUpload looks the target up, Unlink, Rmdir
\* and Rename send their request, the others look into the table.
Locked(q) ==
  CASE q.op \in {"openw", "create"} /\ Restricted -> Asking(q, "fs.stat", q.path, "target")
    [] q.op \in {"unlink", "rmdir"} -> Asking(q, "fs.remove", q.path, "removed")
    [] q.op = "rename" -> Asking(q, "fs.rename", q.path, "renamed")
    [] OTHER -> [q EXCEPT !.pc = "look"]

Lock(t) ==
  /\ At(t, "lock")
  /\ LET p == NextWanted(th[t])
         q == [th[t] EXCEPT !.holds = @ \union {p}]
     IN /\ locks[p] = Nobody
        /\ locks' = [locks EXCEPT ![p] = t]
        /\ th' = [th EXCEPT ![t] = IF Cardinality(q.holds) = Len(Wanted(q)) THEN Locked(q) ELSE q]
  /\ Quiet /\ Leave /\ UNCHANGED fault
-----------------------------------------------------------------------------
\* Open for reading; also from a Read that finds no handle.
Opened(q) == IF q.op \in Opens THEN Over(q, TRUE) ELSE [q EXCEPT !.pc = "refind"]
Writes(q) == q.op \in {"openw", "create", "write"}

\* The table is looked at; a handle that is there is shared, and by a writer marked
\* dirty and emptied if the file is opened to be truncated.
Empties(q) == q.op = "create" \/ (q.op = "openw" /\ q.over)

\* The file a handle stands for can be opened: the name of a plain one's is known
\* when its download is over.
OnDisk(h) == IF handle[h].staged THEN handle[h].disk
             ELSE handle[h].dl \in {"none", "ready"} /\ local[handle[h].file].there

Look(t) ==
  /\ At(t, "look")
  /\ LET q == th[t]
         h == files[q.path]
     IN CASE h # None /\ ~Writes(q) -> Go(t, Opened(q)) /\ Quiet /\ Leave
          [] h # None /\ Writes(q) ->
               /\ Free(h)
               /\ Go(t, [q EXCEPT !.pc = "put", !.h = h])
               /\ Table(files, [handle EXCEPT ![h].dirty = TRUE])
               /\ local' = IF Empties(q) /\ OnDisk(h) THEN [local EXCEPT ![handle[h].file].text = {}] ELSE local
               /\ UNCHANGED <<fmode, made, dmode, remote, lost, late>>
          [] h = None /\ ~Writes(q) -> Go(t, [q EXCEPT !.pc = "put"]) /\ Quiet /\ Leave
          [] h = None /\ Writes(q) -> Go(t, Asking(q, "fs.create", q.path, "created")) /\ Quiet /\ Leave

\* The handle comes into the table; for a reader it is made, and its download begins.
Put(t) ==
  /\ At(t, "put") /\ Quiet
  /\ LET q == th[t] IN
     IF Writes(q)
     THEN Go(t, [Opened(q) EXCEPT !.h = None]) /\ Table([files EXCEPT ![q.path] = q.h], handle)
     ELSE \E h \in Unused :
            /\ \A g \in Unused : h <= g
            /\ Go(t, Opened(q))
            /\ Table([files EXCEPT ![q.path] = h],
                     [handle EXCEPT ![h] = [NewHandle EXCEPT !.path = q.path, !.file = q.path, !.dl = "asking"]])

\* The answer to fs.create.
Created(t) ==
  /\ Heard(t, "created") /\ Quiet
  /\ LET q == th[t] IN
     IF ~q.good THEN Go(t, Over(q, FALSE)) /\ Leave
     ELSE \E h \in Unused :
            /\ \A g \in Unused : h <= g
            /\ Go(t, Opened(q))
            /\ Table([files EXCEPT ![q.path] = h],
                     [handle EXCEPT ![h] = [NewHandle EXCEPT !.path = q.path, !.file = q.path, !.dirty = TRUE]])

\* createStagedUpload: a target that exists needs an explicit overwrite; whatever
\* handle the path had is no longer in the table.
TargetSeen(t) ==
  /\ Heard(t, "target") /\ Quiet
  /\ LET q == th[t] IN
     IF q.good /\ ~(q.op = "openw" /\ q.over) THEN Go(t, Over(q, FALSE)) /\ Leave
     ELSE \E h \in Unused :
            /\ \A g \in Unused : h <= g
            /\ Go(t, Over(q, TRUE))
            /\ Table([files EXCEPT ![q.path] = h],
                     [handle EXCEPT ![h] = [NewHandle EXCEPT !.path = q.path, !.staged = TRUE, !.disk = TRUE]])
-----------------------------------------------------------------------------
\* The download of a handle: fs.open, asked a second time if the pipe fails.
DownloadBegins(h) ==
  /\ handle[h].dl = "asking" /\ wire = None /\ ~Dead
  /\ OpenBegins(handle[h].file)
  /\ handle' = [handle EXCEPT ![h].dl = "loading"] /\ wire' = h
  /\ UNCHANGED <<dmode, remote, lost, late, files, locks, fault>> /\ UNCHANGED callVars

DownloadEnds(h) ==
  /\ handle[h].dl = "loading" /\ wire = h /\ ~Dead
  /\ OpenEnds(handle[h].file)
  /\ handle' = [handle EXCEPT ![h].dl = IF remote[handle[h].file].kind = "file" THEN "ready" ELSE "failed"]
  /\ wire' = None
  /\ UNCHANGED <<dmode, remote, lost, late, files, locks, fault>> /\ UNCHANGED callVars

\* The mount gives up waiting; the daemon's handler may not have begun.
DownloadLost(h) ==
  /\ handle[h].dl = "loading" /\ wire = h /\ ~Dead
  /\ lost < MaxLost /\ lost' = lost + 1
  /\ handle' = [handle EXCEPT ![h].dl = IF handle[h].again THEN "failed" ELSE "asking", ![h].again = TRUE]
  /\ wire' = None
  /\ LET r == [req |-> "fs.open", path |-> handle[h].file, to |-> <<>>, text |-> {}]
     IN late' \in {late, late \union {r}, late \union {[r EXCEPT !.req = "fs.open.rest"]}}
  /\ UNCHANGED <<dmode, remote, local, files, locks, fault>> /\ UNCHANGED callVars
-----------------------------------------------------------------------------
\* Read, Write, Truncate, Flush, Getattr: the handle is found by path ...
May(q, h) == h # None /\ handle[h].staged /\ ~handle[h].committed

Find(t) ==
  /\ th[t].pc \in {"find", "refind"} /\ ~Dead /\ Quiet /\ Leave
  /\ LET q == th[t]
         h == files[q.path]
         enter == [q EXCEPT !.pc = "enter", !.h = h]
     IN CASE q.op \in {"write", "truncate"} /\ Restricted -> Go(t, IF May(q, h) THEN enter ELSE Over(q, FALSE))
          [] h # None /\ ~(q.op \in {"write", "truncate"} /\ Restricted) ->
               Go(t, IF q.op = "flush" /\ handle[h].staged THEN Over(q, TRUE) ELSE enter)
          [] h = None /\ q.op \in {"read", "peek", "write"} /\ ~(q.op = "write" /\ Restricted) ->
               Go(t, IF q.pc = "refind" THEN Over(q, FALSE) ELSE [q EXCEPT !.pc = "lock"])
          [] h = None /\ q.op = "getattr" -> Go(t, Asking(q, "fs.stat", q.path, "seen"))
          [] OTHER -> \* a flush or a truncation of a file nobody has open
               Go(t, Over(q, TRUE))

\* ... and used under its mutex.
\* What a Read finds in the handle's file.
Found(q, h) ==
  IF ~OnDisk(h) THEN Over([q EXCEPT !.saw = "error"], FALSE)
  ELSE Over([q EXCEPT !.saw = IF handle[h].staged \/ local[handle[h].file].whole THEN "whole" ELSE "part"],
            TRUE)

Uses(t) ==
  /\ LET q == th[t]
         h == q.h
         f == handle[h].file
     IN CASE q.op = "getattr" -> Go(t, Over(q, TRUE)) /\ Quiet /\ Leave
          [] q.op = "flush" ->
               /\ Go(t, IF handle[h].dirty THEN Asking(q, "fs.markDirty", q.path, "marked") ELSE Over(q, TRUE))
               /\ Quiet /\ Leave
          [] q.op \in {"write", "truncate"} /\ ~OnDisk(h) -> Go(t, Over(q, FALSE)) /\ Quiet /\ Leave
          [] q.op \in {"write", "truncate"} /\ OnDisk(h) ->
               LET text(old) == IF q.op = "write" THEN old \union {t} ELSE {} IN
               /\ Go(t, Over([q EXCEPT !.wrote = (q.op = "write")], TRUE))
               /\ IF handle[h].staged
                  THEN Table(files, [handle EXCEPT ![h].text = text(@)]) /\ UNCHANGED local
                  ELSE Table(files, [handle EXCEPT ![h].dirty = TRUE]) /\ local' = [local EXCEPT ![f].text = text(@)]
               /\ UNCHANGED <<fmode, made, dmode, remote, lost, late>>
          [] OTHER -> Go(t, Found(q, h)) /\ Quiet /\ Leave

Enter(t) ==
  /\ At(t, "enter") /\ Free(th[t].h)
  /\ IF th[t].op \in {"read", "peek"} /\ handle[th[t].h].dl \in {"asking", "loading"}
     THEN Go(t, [th[t] EXCEPT !.pc = "wait"]) /\ Quiet /\ Leave
     ELSE Uses(t)

Waited(t) ==
  /\ At(t, "wait") /\ handle[th[t].h].dl \in {"ready", "failed"}
  /\ Go(t, Found(th[t], th[t].h)) /\ Quiet /\ Leave

\* The answer to fs.markDirty: the handle is clean, whatever was written meanwhile.
Marked(t) ==
  /\ Heard(t, "marked") /\ Quiet
  /\ Go(t, Over(th[t], th[t].good))
  /\ Table(files, IF th[t].good THEN [handle EXCEPT ![th[t].h].dirty = FALSE] ELSE handle)

Seen(t) == Heard(t, "seen") /\ Go(t, Over(th[t], th[t].good)) /\ Quiet /\ Leave
-----------------------------------------------------------------------------
\* Release: the entry of the path goes, whoever opened it.
Drop(t) ==
  /\ At(t, "drop") /\ Quiet
  /\ LET q == th[t]
         h == files[q.path]
     IN Go(t, IF h = None THEN Over(q, TRUE) ELSE [q EXCEPT !.pc = "close", !.h = h])
  /\ Table([files EXCEPT ![th[t].path] = None], handle)

\* A staged file is sent, once; a plain one written to is closed at the daemon.
Close(t) ==
  /\ At(t, "close") /\ Free(th[t].h) /\ Quiet
  /\ LET q == th[t]
         h == q.h
         flush == [q EXCEPT !.pc = "flush"]
     IN IF handle[h].staged
        THEN /\ Go(t, CASE handle[h].committed -> flush
                        [] ~handle[h].committed /\ handle[h].disk -> Asking(q, "fs.uploadStaged", q.path, "sent")
                        [] OTHER -> Over(q, FALSE))
             /\ Table(files, [handle EXCEPT ![h].committed = TRUE])
        ELSE /\ Go(t, IF handle[h].dirty THEN Asking(q, "fs.close", q.path, "changed") ELSE flush)
             /\ Leave

\* Mutant: the outcome of the upload is not looked at.
SentAnyhow(t) ==
  /\ Heard(t, "sent") /\ Quiet
  /\ Go(t, [th[t] EXCEPT !.pc = "flush"])
  /\ Table(files, [handle EXCEPT ![th[t].h].disk = FALSE])

\* The staged file is removed, sent or not.
Sent(t) ==
  /\ Heard(t, "sent") /\ Quiet
  /\ Go(t, IF th[t].good THEN [th[t] EXCEPT !.pc = "flush"] ELSE Over(th[t], FALSE))
  /\ Table(files, [handle EXCEPT ![th[t].h].disk = FALSE])
-----------------------------------------------------------------------------
\* fs.mkdir, fs.close and a removed directory have nothing of the table to change.
Changed(t) ==
  /\ Heard(t, "changed") /\ Quiet /\ Leave
  /\ Go(t, IF th[t].good THEN [th[t] EXCEPT !.pc = "flush"] ELSE Over(th[t], FALSE))

\* Unlink drops the entry of the path, Rmdir does not.
Removed(t) ==
  /\ Heard(t, "removed") /\ Quiet
  /\ Go(t, IF th[t].good THEN [th[t] EXCEPT !.pc = "flush"] ELSE Over(th[t], FALSE))
  /\ Table(IF th[t].good /\ th[t].op = "unlink" THEN [files EXCEPT ![th[t].path] = None] ELSE files, handle)

\* renameInFileRenameMode: directories go on in renameOrMoveDirectory, which looks
\* the old path up once more.
OldSeen(t) ==
  /\ Heard(t, "old") /\ Quiet /\ Leave
  /\ LET q == th[t]
         same == SameParent(q.path, q.to)
     IN Go(t, CASE ~q.good -> Over(q, FALSE)
                [] q.good /\ q.isdir -> Asking(q, "fs.stat", q.path, "dir")
                [] OTHER -> IF ~same /\ (~SameName(q.path, q.to) \/ fmode = 5) THEN Over(q, FALSE)
                            ELSE IF q.path = q.to THEN Over(q, TRUE)
                            ELSE Asking(q, "fs.stat", Parent(q.to), "into"))

\* renameOrMoveDirectory: a move needs a parent to move into, a rename does not look.
DirectorySeen(t) ==
  /\ Heard(t, "dir") /\ Quiet /\ Leave
  /\ LET q == th[t]
         same == SameParent(q.path, q.to)
     IN Go(t, IF ~q.good \/ ~q.isdir \/ q.path = <<>> \/ (~same /\ fmode = 3) THEN Over(q, FALSE)
              ELSE IF same THEN Asking(q, "fs.stat", q.to, "new.dir")
              ELSE Asking(q, "fs.stat", Parent(q.to), "into.dir"))

IntoSeen(t) ==
  /\ \E kind \in {<<"into", "new">>, <<"into.dir", "new.dir">>} :
       /\ Heard(t, kind[1])
       /\ LET q == th[t] IN
          Go(t, IF ~q.good \/ ~q.isdir \/ (kind[1] = "into.dir" /\ Below(q.to, q.path)) THEN Over(q, FALSE)
                ELSE Asking(q, "fs.stat", q.to, kind[2]))
  /\ Quiet /\ Leave

\* A target that cannot be looked up counts as absent.
NewSeen(t) ==
  /\ \E kind \in {<<"new", "renamed">>, <<"new.dir", "changed">>} :
       /\ Heard(t, kind[1])
       /\ Go(t, IF th[t].good THEN Over(th[t], FALSE) ELSE Asking(th[t], "fs.rename", th[t].path, kind[2]))
  /\ Quiet /\ Leave

\* Mutant: the entry of the old path stays.
EntryCopied(q) == [files EXCEPT ![q.to] = files[q.path]]

\* The handle takes its new name, in place of any that has it; set, then deleted.
EntryMoved(q) == [files EXCEPT ![q.to] = files[q.path], ![q.path] = None]

\* The call returns; a path renamed to itself in the fully writable mode is unlocked
\* twice, and others may come in between.
Return(q, good) ==
  IF q.op = "rename" /\ ~Restricted /\ q.path = q.to THEN [q EXCEPT !.pc = "unlock", !.good = good]
  ELSE Over(q, good)

Renamed(t) ==
  /\ Heard(t, "renamed") /\ Quiet
  /\ LET q == th[t]
         h == files[q.path]
     IN /\ Go(t, IF q.good THEN [q EXCEPT !.pc = "flush"] ELSE Return(q, FALSE))
        /\ IF q.good /\ h # None
           THEN Table(EntryMoved(q), [handle EXCEPT ![h].path = q.to])
           ELSE Leave

\* flushDirCacheFor; with it the call is over.
FlushDirs(t) ==
  /\ At(t, "flush") /\ Quiet
  /\ Go(t, Return(th[t], TRUE))
  /\ dirs' = DropListings(Flushed(th[t]))
  /\ UNCHANGED <<files, handle, wire>>

UnlockAgain(t) == At(t, "unlock") /\ Go(t, Over(th[t], th[t].good)) /\ Quiet /\ Leave
-----------------------------------------------------------------------------
\* Readdir: a cached listing is good for half a minute; a new one is stored, and read
\* again from the cache without its lock; a listing gone by then is a nil pointer.
Expired == BOOLEAN

List(t, expired) ==
  /\ At(t, "list") /\ Quiet /\ Leave
  /\ Go(t, IF th[t].path \in DOMAIN dirs /\ ~expired THEN Over(th[t], TRUE)
           ELSE Asking(th[t], "fs.list", th[t].path, "listed"))

Listed(t) ==
  /\ Heard(t, "listed") /\ Quiet
  /\ Go(t, IF th[t].good THEN [th[t] EXCEPT !.pc = "reread"] ELSE Over(th[t], FALSE))
  /\ dirs' = IF th[t].good THEN Store(th[t].path, th[t].got) ELSE dirs
  /\ UNCHANGED <<files, handle, wire>>

Reread(t) ==
  /\ At(t, "reread") /\ Quiet /\ Leave
  /\ IF th[t].path \in DOMAIN dirs THEN Go(t, Over(th[t], TRUE))
     ELSE fault' = "dead" /\ UNCHANGED <<th, locks>>
-----------------------------------------------------------------------------
IPCInit ==
  /\ files = [p \in Paths |-> None] /\ handle = [h \in Handles |-> NewHandle]
  /\ locks = [p \in Paths |-> Nobody] /\ wire = None /\ fault = "none"

Proceed(t) ==
  \/ Ask(t) \/ Lock(t) \/ Look(t) \/ Put(t) \/ Created(t) \/ TargetSeen(t)
  \/ Find(t) \/ Enter(t) \/ Waited(t) \/ Marked(t) \/ Seen(t)
  \/ Drop(t) \/ Close(t) \/ Sent(t) \/ Changed(t) \/ Removed(t)
  \/ OldSeen(t) \/ DirectorySeen(t) \/ IntoSeen(t) \/ NewSeen(t) \/ Renamed(t)
  \/ FlushDirs(t) \/ UnlockAgain(t) \/ (\E e \in Expired : List(t, e)) \/ Listed(t) \/ Reread(t)

Download(h) == DownloadBegins(h) \/ DownloadEnds(h) \/ DownloadLost(h)

IPCNext ==
  \/ \E t \in Threads : (\E c \in Menu[fmode] : Begin(t, c)) \/ Proceed(t)
  \/ \E h \in Handles : Download(h)
  \/ \E q \in late : Late(q) /\ th' = Disturbed(q) /\ UNCHANGED <<fmode, made, dirs>> /\ UNCHANGED ipcVars
=============================================================================
