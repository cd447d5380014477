------------------------------- MODULE CloudFS -------------------------------
(***************************************************************************)
(* The read-only mount (internal/mount/winfsp/cloudfs.go), which asks the  *)
(* provider itself.  A file is downloaded once, into a local file named    *)
(* after its path, by the thread that first opens it; others wait.  The    *)
(* local files of module DaemonRequests are the mount's own here, and      *)
(* requests that fail are counted with lost.                               *)
(***************************************************************************)
EXTENDS MountCalls

VARIABLES
  cached,       \* the paths in the cache of downloaded files, never dropped
  loading,      \* loading[p]: the thread that is downloading p for an Open
  cacheLock     \* the thread that downloads for a Read keeps the cache's lock

cloudVars == <<cached, loading, cacheLock>>

\* Nobody writes here: every call that would is refused at once.
CloudBegin(t, c) ==
  /\ MayCall(t, c) /\ made' = made + 1
  /\ LET pc == CASE c.op \in {"open", "getattr"} -> "stat"
                 [] c.op \in {"read", "peek"} -> "lookup"
                 [] c.op = "readdir" -> "list"
                 [] c.op = "release" -> "release"
                 [] OTHER -> "refused"
     IN th' = IF pc = "refused" THEN [th EXCEPT ![t].good = FALSE, ![t].saw = "none"] ELSE Started(t, c, pc)
  /\ UNCHANGED <<fmode, dirs>> /\ UNCHANGED daemonVars /\ UNCHANGED cloudVars

CloudGo(t, q) == th' = IF q.pc = "idle" THEN Finished(t, q) ELSE [th EXCEPT ![t] = q]
CloudAt(t, pc) == th[t].pc = pc
Same == UNCHANGED <<fmode, made>> /\ UNCHANGED <<dmode, remote, late>>
Still == Same /\ UNCHANGED <<local, lost, dirs>> /\ UNCHANGED cloudVars
To(q, pc) == [q EXCEPT !.pc = pc]

\* The provider is asked; it may fail to answer.
Fails == lost < MaxLost /\ lost' = lost + 1
Stat(t) ==
  /\ CloudAt(t, "stat")
  /\ LET q == th[t]
         found == CASE q.op = "getattr" -> Over(q, TRUE)
                    [] q.op = "open" -> IF IsDir(q.path) THEN Over(q, FALSE) ELSE To(q, "lookup")
                    [] OTHER -> To(q, "fetch")
         missing == IF q.op = "getattr" THEN To(q, "list") ELSE Over(q, FALSE)
     IN \/ CloudGo(t, IF There(q.path) THEN found ELSE missing) /\ UNCHANGED lost
        \/ CloudGo(t, missing) /\ Fails
  /\ Same /\ UNCHANGED <<local, dirs>> /\ UNCHANGED cloudVars

\* The cache is looked at: by an Open before and after it has waited, and by a Read.
LookUp(t) ==
  /\ CloudAt(t, "lookup") /\ cacheLock = Nobody /\ Still
  /\ LET q == th[t] IN
     CloudGo(t, CASE q.op = "open" -> IF q.path \in cached THEN Over(q, TRUE) ELSE To(q, "guard")
                  [] OTHER -> To(q, IF q.path \in cached THEN "read" ELSE "stat"))

\* Mutant: the guard is looked at, and taken a step later.
GuardOnlyLooked(t) ==
  /\ CloudAt(t, "guard")
  /\ CloudGo(t, To(th[t], IF loading[th[t].path] # Nobody THEN "wait" ELSE "download"))
  /\ Still

\* The first comes to download, the others wait for it.
Guard(t) ==
  /\ CloudAt(t, "guard")
  /\ LET q == th[t] IN
     IF loading[q.path] # Nobody
     THEN CloudGo(t, [To(q, "wait") EXCEPT !.then = loading[q.path]]) /\ UNCHANGED loading
     ELSE CloudGo(t, To(q, "download")) /\ loading' = [loading EXCEPT ![q.path] = t]
  /\ Same /\ UNCHANGED <<local, lost, dirs, cached, cacheLock>>

\* The channel waited on is closed when its thread no longer loads the path.
WaitOver(t) ==
  /\ CloudAt(t, "wait") /\ loading[th[t].path] # th[t].then
  /\ CloudGo(t, [To(th[t], "recheck") EXCEPT !.then = "none"]) /\ Still

Recheck(t) ==
  /\ CloudAt(t, "recheck") /\ cacheLock = Nobody /\ Still
  /\ CloudGo(t, Over(th[t], th[t].path \in cached))

\* A Read of a path that was never opened downloads under the cache's lock.
Fetch(t) ==
  /\ CloudAt(t, "fetch") /\ cacheLock = Nobody
  /\ cacheLock' = t /\ CloudGo(t, To(th[t], "download"))
  /\ Same /\ UNCHANGED <<local, lost, dirs, cached, loading>>

\* Mutant: an error of the download is not looked at.
DownloadedAnyhow(path) == TRUE

\* What can be downloaded.
Downloaded(path) == remote[path].kind = "file"

\* downloadToCache: the local file is made anew, then filled; a failure removes it,
\* if nobody has it open.
DownloadStarts(t) ==
  /\ CloudAt(t, "download")
  /\ OpenBegins(th[t].path)
  /\ CloudGo(t, To(th[t], "downloading"))
  /\ Same /\ UNCHANGED <<lost, dirs>> /\ UNCHANGED cloudVars

DownloadStops(t) ==
  /\ CloudAt(t, "downloading")
  /\ LET q == th[t]
         next(good) == CloudGo(t, [To(q, IF q.op = "open" THEN "announce" ELSE "publish") EXCEPT !.good = good])
     IN \/ OpenEnds(q.path) /\ next(Downloaded(q.path)) /\ UNCHANGED lost
        \/ /\ Fails /\ next(FALSE)
           /\ \E there \in BOOLEAN : local' = [local EXCEPT ![q.path].there = there, ![q.path].whole = FALSE]
  /\ Same /\ UNCHANGED dirs /\ UNCHANGED cloudVars

\* The end of the download is announced before its result is published.
Announce(t) ==
  /\ CloudAt(t, "announce")
  /\ loading' = [loading EXCEPT ![th[t].path] = Nobody]
  /\ CloudGo(t, IF th[t].good THEN To(th[t], "publish") ELSE Over(th[t], FALSE))
  /\ Same /\ UNCHANGED <<local, lost, dirs, cached, cacheLock>>

Publish(t) ==
  /\ CloudAt(t, "publish") /\ cacheLock \in {Nobody, t}
  /\ LET q == th[t] IN
     /\ cached' = IF q.good THEN cached \union {q.path} ELSE cached
     /\ CloudGo(t, CASE q.op = "open" -> Over(q, TRUE)
                     [] OTHER -> IF q.good THEN To(q, "read") ELSE Over(q, FALSE))
  /\ cacheLock' = IF cacheLock = t THEN Nobody ELSE cacheLock
  /\ Same /\ UNCHANGED <<local, lost, dirs, loading>>

ReadFile(t) ==
  /\ CloudAt(t, "read") /\ Still
  /\ LET f == local[th[t].path] IN
     CloudGo(t, IF f.there THEN Over([th[t] EXCEPT !.saw = IF f.whole THEN "whole" ELSE "part"], TRUE)
                ELSE Over([th[t] EXCEPT !.saw = "error"], FALSE))

CloudRelease(t) == CloudAt(t, "release") /\ CloudGo(t, Over(th[t], TRUE)) /\ Still

\* listDir: a listing is cached for good.  Getattr asks for the parent's when it
\* could not look the path up, and finds directories in it.
Listed2(q) == IF q.op = "getattr" THEN Parent(q.path) ELSE q.path
AfterList(q, entries) == Over(q, q.op = "readdir" \/ (q.path \in entries /\ IsDir(q.path)))

ListDir(t) ==
  /\ CloudAt(t, "list")
  /\ LET q == th[t]
         d == Listed2(q)
     IN IF d \in DOMAIN dirs
        THEN CloudGo(t, AfterList(q, dirs[d])) /\ UNCHANGED lost
        ELSE \/ IsDir(d) /\ CloudGo(t, [To(q, "listed") EXCEPT !.got = Entries(d)]) /\ UNCHANGED lost
             \/ ~IsDir(d) /\ CloudGo(t, Over(q, FALSE)) /\ UNCHANGED lost
             \/ CloudGo(t, Over(q, FALSE)) /\ Fails
  /\ Same /\ UNCHANGED <<local, dirs>> /\ UNCHANGED cloudVars

StoreListing(t) ==
  /\ CloudAt(t, "listed")
  /\ dirs' = Store(Listed2(th[t]), th[t].got)
  /\ CloudGo(t, AfterList(th[t], th[t].got))
  /\ Same /\ UNCHANGED <<local, lost>> /\ UNCHANGED cloudVars

CloudInit ==
  /\ cached = {} /\ loading = [p \in Paths |-> Nobody] /\ cacheLock = Nobody

CloudNext ==
  \E t \in Threads :
    \/ \E c \in Menu[fmode] : CloudBegin(t, c)
    \/ Stat(t) \/ LookUp(t) \/ Guard(t) \/ WaitOver(t) \/ Recheck(t) \/ Fetch(t)
    \/ DownloadStarts(t) \/ DownloadStops(t) \/ Announce(t) \/ Publish(t)
    \/ ReadFile(t) \/ CloudRelease(t) \/ ListDir(t) \/ StoreListing(t)
=============================================================================
