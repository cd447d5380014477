---------------------------- MODULE MountProofs -----------------------------
(***************************************************************************)
(* Theorems about HddFS: the read-only mount's downloads, what the mount   *)
(* over the daemon asks of it, its path locks, the table of open files that *)
(* they protect and who waits for whom, for any threads, paths, handles and *)
(* modes.                                                                  *)
(***************************************************************************)
EXTENDS HddFS, TLAPS, FiniteSetTheorems, SequenceTheorems

Fields == DOMAIN Idle

\* The calls are records with all their fields; nothing is assumed of most values.
CallsAreRecords == th = [t \in Threads |-> th[t]] /\ \A t \in Threads : DOMAIN th[t] = Fields

\* What the read-only mount knows of a call under way.
CallsAreSound ==
  \A t \in Threads :
    /\ th[t].pc # "idle" => th[t].path \in Paths
    /\ th[t].pc = "fetch" => th[t].op # "open"
    /\ th[t].pc = "announce" => th[t].op = "open"

\* An Open that downloads has put its channel into loading, until it announces.
LoadersAreKnown ==
  \A t \in Threads :
    th[t].op = "open" /\ th[t].pc \in {"download", "downloading", "announce"} => loading[th[t].path] = t

\* A path is promised by the cache or by a download that has succeeded and is not
\* published yet; what is promised is a file that is all there or downloaded anew.
Promised(p) ==
  p \in cached \/ \E t \in Threads : th[t].path = p /\ th[t].pc \in {"announce", "publish"} /\ th[t].good
Kept(p) ==
  /\ Downloaded(p)
  /\ local[p].whole \/ \E t \in Threads : th[t].path = p /\ th[t].pc = "downloading"
PromisesAreKept == lost = 0 => \A p \in Paths : Promised(p) => Kept(p)

DirectInv ==
  /\ fmode = 1 /\ lost \in Nat /\ cached \subseteq Paths
  /\ loading = [p \in Paths |-> loading[p]] /\ local = [p \in Paths |-> local[p]]
  /\ CallsAreRecords /\ CallsAreSound /\ LoadersAreKnown /\ PromisesAreKept

MountInv ==
  /\ front \in {"daemon", "direct"}
  /\ front = "daemon" => cached = {}
  /\ front = "direct" => DirectInv
-----------------------------------------------------------------------------
LEMMA FieldNames ==
  Fields = {"op", "path", "to", "over", "pc", "good", "req", "arg", "then", "tries", "isdir",
            "got", "h", "holds", "saw", "sess", "writes", "wrote", "rival", "raced"}
BY DEF Fields, Idle

\* What matters here of another thread's call is left alone by every step.
Same4(u) == th'[u].op = th[u].op /\ th'[u].path = th[u].path /\ th'[u].pc = th[u].pc /\ th'[u].good = th[u].good

LEMMA GoEffect ==
  ASSUME CallsAreRecords, NEW t \in Threads, NEW q, DOMAIN q = Fields, CloudGo(t, q)
  PROVE  /\ CallsAreRecords'
         /\ \A u \in Threads \ {t} : Same4(u)
         /\ q.pc # "idle" => th'[t] = q
         /\ q.pc = "idle" => th'[t].pc = "idle"
<1>1. CASE q.pc # "idle"
  <2>1. th' = [th EXCEPT ![t] = q]
    BY <1>1 DEF CloudGo
  <2>. QED  BY <1>1, <2>1 DEF CallsAreRecords, Same4
<1>2. CASE q.pc = "idle"
  <2>. DEFINE follow(v) == IF q.op = "rename" /\ q.good /\ v.sess # NoPath /\ Below(v.sess, q.path)
                              /\ Rebased(v.sess, q.path, q.to) \in Paths
                           THEN [v EXCEPT !.sess = Rebased(v.sess, q.path, q.to)] ELSE v
  <2>. DEFINE sess == CASE q.op \in Opens /\ q.good -> q.path
                        [] q.op = "release" -> NoPath
                        [] OTHER -> q.sess
              gone == q.op = "unlink" /\ q.good
              mine == IF sess = NoPath THEN [Idle EXCEPT !.good = q.good]
                      ELSE [Idle EXCEPT !.good = q.good, !.saw = q.saw, !.sess = sess, !.rival = q.rival,
                              !.writes = (q.writes \/ q.op \in OpensToWrite) /\ ~gone,
                              !.wrote = q.wrote /\ ~gone]
  <2>1. /\ th' = [u \in Threads |-> follow(IF u = t THEN mine ELSE th[u])]
        /\ DOMAIN mine = Fields /\ mine.pc = "idle"
    <3>1. th' = [u \in Threads |-> follow(IF u = t THEN mine ELSE th[u])]
      BY <1>2 DEF CloudGo, Finished
    <3>2. DOMAIN mine = Fields /\ mine.pc = "idle"
      BY DEF Fields, Idle
    <3>. QED  BY <3>1, <3>2
  <2>2. \A v : DOMAIN v = Fields =>
          /\ DOMAIN follow(v) = Fields
          /\ follow(v).op = v.op /\ follow(v).path = v.path /\ follow(v).pc = v.pc /\ follow(v).good = v.good
    BY FieldNames
  <2>. HIDE DEF follow, mine, sess
  <2>3. \A u \in Threads : th'[u] = follow(IF u = t THEN mine ELSE th[u])
    BY <2>1
  <2>4. CallsAreRecords'
    BY <2>1, <2>2 DEF CallsAreRecords
  <2>. QED  BY <1>2, <2>1, <2>2, <2>3, <2>4 DEF CallsAreRecords, Same4
<1>. QED  BY <1>1, <1>2

\* A step of t that neither is part of a download nor promises anything.
LEMMA QuietStep ==
  ASSUME DirectInv, NEW t \in Threads, NEW q, DOMAIN q = Fields, CloudGo(t, q),
         UNCHANGED <<fmode, remote, local, cached, loading>>,
         lost' \in Nat, lost' = 0 => lost = 0,
         q.pc # "idle" => q.path \in Paths,
         q.pc = "fetch" => q.op # "open",
         q.op = "open" => q.pc \notin {"download", "downloading"},
         q.pc \notin {"announce", "publish"}, th[t].pc # "downloading"
  PROVE  DirectInv'
<1>. USE DEF DirectInv
<1>1. /\ CallsAreRecords'
      /\ \A u \in Threads \ {t} : Same4(u)
      /\ q.pc # "idle" => th'[t] = q
      /\ q.pc = "idle" => th'[t].pc = "idle"
  BY GoEffect
<1>2. CallsAreSound'
  <2>1. ASSUME NEW u \in Threads
        PROVE  /\ th'[u].pc # "idle" => th'[u].path \in Paths
               /\ th'[u].pc = "fetch" => th'[u].op # "open"
               /\ th'[u].pc = "announce" => th'[u].op = "open"
    <3>1. CASE u = t
      BY <1>1, <3>1
    <3>2. CASE u # t
      BY <1>1, <3>2 DEF Same4, CallsAreSound
    <3>. QED  BY <3>1, <3>2
  <2>. QED  BY <2>1 DEF CallsAreSound
<1>3. LoadersAreKnown'
  BY <1>1 DEF Same4, LoadersAreKnown
<1>4. PromisesAreKept'
  <2>1. SUFFICES ASSUME lost' = 0, NEW p \in Paths, Promised(p)'
                 PROVE  Kept(p)'
    BY DEF PromisesAreKept
  <2>2. Promised(p)
    BY <1>1, <2>1 DEF Promised, Same4
  <2>3. Kept(p)
    BY <2>1, <2>2 DEF PromisesAreKept
  <2>. QED  BY <1>1, <2>3 DEF Kept, Same4, Downloaded
<1>. QED  BY <1>1, <1>2, <1>3, <1>4

\* A call that goes on has its record changed in its program point.
LEMMA Going ==
  ASSUME DirectInv, NEW t \in Threads, NEW pc, NEW b
  PROVE  /\ DOMAIN To(th[t], pc) = Fields /\ To(th[t], pc).pc = pc
         /\ To(th[t], pc).path = th[t].path /\ To(th[t], pc).op = th[t].op
         /\ To(th[t], pc).good = th[t].good
         /\ DOMAIN Over(th[t], b) = Fields /\ Over(th[t], b).pc = "idle"
<1>1. DOMAIN th[t] = Fields
  BY DEF DirectInv, CallsAreRecords
<1>. QED  BY <1>1, FieldNames DEF To, Over

\* The steps that ask, wait, look or read.
LEMMA StatStep ==
  ASSUME DirectInv, NEW t \in Threads, Stat(t)
  PROVE  DirectInv'
<1>1. PICK q : /\ CloudGo(t, q)
               /\ q \in {Over(th[t], TRUE), Over(th[t], FALSE), To(th[t], "lookup"), To(th[t], "list")}
                  \/ (q = To(th[t], "fetch") /\ th[t].op # "open")
  <2>. DEFINE found == CASE th[t].op = "getattr" -> Over(th[t], TRUE)
                         [] th[t].op = "open" -> IF IsDir(th[t].path) THEN Over(th[t], FALSE) ELSE To(th[t], "lookup")
                         [] OTHER -> To(th[t], "fetch")
              missing == IF th[t].op = "getattr" THEN To(th[t], "list") ELSE Over(th[t], FALSE)
              next == IF There(th[t].path) THEN found ELSE missing
  <2>1. CloudGo(t, next) \/ CloudGo(t, missing)
    BY DEF Stat
  <2>2. CASE CloudGo(t, next)
    <3>. WITNESS next
    <3>. QED  BY <2>2
  <2>3. CASE CloudGo(t, missing)
    <3>. WITNESS missing
    <3>. QED  BY <2>3
  <2>. QED  BY <2>1, <2>2, <2>3
<1>2. UNCHANGED <<fmode, remote, local, cached, loading>> /\ th[t].pc = "stat"
  BY DEF Stat, Same, CloudAt, cloudVars
<1>3. UNCHANGED lost \/ Fails
  BY DEF Stat
<1>4. lost' \in Nat /\ (lost' = 0 => lost = 0)
  BY <1>3 DEF Fails, DirectInv
<1>5. th[t].path \in Paths /\ DOMAIN th[t] = Fields
  BY <1>2 DEF DirectInv, CallsAreSound, CallsAreRecords
<1>6. /\ DOMAIN q = Fields
      /\ q.pc # "idle" => q.path \in Paths
      /\ q.pc = "fetch" => q.op # "open"
      /\ q.pc \in {"idle", "lookup", "list", "fetch"}
  BY <1>1, <1>5, FieldNames DEF To, Over
<1>. QED  BY <1>1, <1>2, <1>4, <1>6, QuietStep

\* Steps that leave everything but the calls alone.
LEMMA StillStep ==
  ASSUME DirectInv, NEW t \in Threads, Still, th[t].pc \notin {"idle", "downloading"},
         NEW q, CloudGo(t, q), DOMAIN q = Fields, q.path = th[t].path,
         q.pc \notin {"fetch", "download", "downloading", "announce", "publish"}
  PROVE  DirectInv'
<1>1. /\ UNCHANGED <<fmode, remote, local, cached, loading>>
      /\ lost' \in Nat /\ (lost' = 0 => lost = 0) /\ th[t].path \in Paths
  BY DEF Still, Same, DirectInv, CallsAreSound, daemonVars, cloudVars
<1>. QED  BY <1>1, QuietStep

LEMMA LookingStep ==
  ASSUME DirectInv, NEW t \in Threads,
         LookUp(t) \/ WaitOver(t) \/ Recheck(t) \/ ReadFile(t) \/ CloudRelease(t)
  PROVE  DirectInv'
<1>0. DOMAIN th[t] = Fields
  BY DEF DirectInv, CallsAreRecords
<1>1. CASE LookUp(t)
  <2>. DEFINE next == CASE th[t].op = "open" -> IF th[t].path \in cached THEN Over(th[t], TRUE) ELSE To(th[t], "guard")
                        [] OTHER -> To(th[t], IF th[t].path \in cached THEN "read" ELSE "stat")
  <2>1. CloudGo(t, next) /\ Still /\ th[t].pc = "lookup"
    BY <1>1 DEF LookUp, CloudAt
  <2>2. next \in {Over(th[t], TRUE), To(th[t], "guard"), To(th[t], "read"), To(th[t], "stat")}
    OBVIOUS
  <2>3. DOMAIN next = Fields /\ next.path = th[t].path /\ next.pc \in {"idle", "guard", "read", "stat"}
    BY <1>0, <2>2, Going, FieldNames DEF Over
  <2>. QED  BY <2>1, <2>3, StillStep
<1>2. CASE WaitOver(t)
  <2>. DEFINE next == [To(th[t], "recheck") EXCEPT !.then = "none"]
  <2>1. CloudGo(t, next) /\ Still /\ th[t].pc = "wait"
    BY <1>2 DEF WaitOver, CloudAt
  <2>2. DOMAIN next = Fields /\ next.path = th[t].path /\ next.pc = "recheck"
    BY Going, FieldNames
  <2>. QED  BY <2>1, <2>2, StillStep
<1>3. CASE Recheck(t)
  <2>. DEFINE next == Over(th[t], th[t].path \in cached)
  <2>1. CloudGo(t, next) /\ Still /\ th[t].pc = "recheck"
    BY <1>3 DEF Recheck, CloudAt
  <2>2. DOMAIN next = Fields /\ next.path = th[t].path /\ next.pc = "idle"
    BY <1>0, FieldNames DEF Over
  <2>. QED  BY <2>1, <2>2, StillStep
<1>4. CASE ReadFile(t)
  <2>. DEFINE f == local[th[t].path]
              next == IF f.there THEN Over([th[t] EXCEPT !.saw = IF f.whole THEN "whole" ELSE "part"], TRUE)
                      ELSE Over([th[t] EXCEPT !.saw = "error"], FALSE)
  <2>1. CloudGo(t, next) /\ Still /\ th[t].pc = "read"
    BY <1>4 DEF ReadFile, CloudAt
  <2>2. DOMAIN next = Fields /\ next.path = th[t].path /\ next.pc = "idle"
    BY <1>0, FieldNames DEF Over
  <2>. QED  BY <2>1, <2>2, StillStep
<1>5. CASE CloudRelease(t)
  <2>. DEFINE next == Over(th[t], TRUE)
  <2>1. CloudGo(t, next) /\ Still /\ th[t].pc = "release"
    BY <1>5 DEF CloudRelease, CloudAt
  <2>2. DOMAIN next = Fields /\ next.path = th[t].path /\ next.pc = "idle"
    BY <1>0, FieldNames DEF Over
  <2>. QED  BY <2>1, <2>2, StillStep
<1>. QED  BY <1>1, <1>2, <1>3, <1>4, <1>5

LEMMA ListingStep ==
  ASSUME DirectInv, NEW t \in Threads, ListDir(t) \/ StoreListing(t)
  PROVE  DirectInv'
<1>0. DOMAIN th[t] = Fields
  BY DEF DirectInv, CallsAreRecords
<1>1. CASE ListDir(t)
  <2>1. PICK q : CloudGo(t, q) /\ DOMAIN q = Fields /\ q.path = th[t].path /\ q.pc \in {"idle", "listed"}
    <3>. DEFINE d == Listed2(th[t])
                stored == AfterList(th[t], dirs[d])
                asked == [To(th[t], "listed") EXCEPT !.got = Entries(d)]
                failed == Over(th[t], FALSE)
    <3>1. CloudGo(t, stored) \/ CloudGo(t, asked) \/ CloudGo(t, failed)
      BY <1>1 DEF ListDir
    <3>2. DOMAIN stored = Fields /\ stored.path = th[t].path /\ stored.pc = "idle"
      BY <1>0, FieldNames DEF AfterList, Over
    <3>3. DOMAIN asked = Fields /\ asked.path = th[t].path /\ asked.pc = "listed"
      BY <1>0, FieldNames DEF To
    <3>4. DOMAIN failed = Fields /\ failed.path = th[t].path /\ failed.pc = "idle"
      BY <1>0, FieldNames DEF Over
    <3>. HIDE DEF stored, asked, failed
    <3>. QED  BY <3>1, <3>2, <3>3, <3>4
  <2>2. UNCHANGED <<fmode, remote, local, cached, loading>> /\ th[t].pc = "list"
    BY <1>1 DEF ListDir, Same, CloudAt, cloudVars
  <2>3. UNCHANGED lost \/ Fails
    BY <1>1 DEF ListDir
  <2>4. lost' \in Nat /\ (lost' = 0 => lost = 0)
    BY <2>3 DEF Fails, DirectInv
  <2>5. th[t].path \in Paths
    BY <2>2 DEF DirectInv, CallsAreSound
  <2>. QED  BY <2>1, <2>2, <2>4, <2>5, QuietStep
<1>2. CASE StoreListing(t)
  <2>. DEFINE next == AfterList(th[t], th[t].got)
  <2>1. CloudGo(t, next)
    BY <1>2 DEF StoreListing
  <2>2. DOMAIN next = Fields /\ next.path = th[t].path /\ next.pc = "idle"
    BY <1>0, FieldNames DEF AfterList, Over
  <2>3. /\ UNCHANGED <<fmode, remote, local, cached, loading>>
        /\ lost' \in Nat /\ (lost' = 0 => lost = 0) /\ th[t].pc = "listed" /\ th[t].path \in Paths
    BY <1>2 DEF StoreListing, Same, CloudAt, DirectInv, CallsAreSound, daemonVars, cloudVars
  <2>. QED  BY <2>1, <2>2, <2>3, QuietStep
<1>. QED  BY <1>1, <1>2

\* Calls that differ in no more than the session and the history.
AlikeCalls(r, s) ==
  /\ r.op = s.op /\ r.path = s.path /\ r.to = s.to /\ r.pc = s.pc /\ r.good = s.good
  /\ r.req = s.req /\ r.then = s.then /\ r.h = s.h

\* A call that begins changes nothing but the history of the others.
LEMMA StartedEffect ==
  ASSUME CallsAreRecords, NEW t \in Threads, NEW c, NEW pc
  PROVE  /\ Started(t, c, pc) = [u \in Threads |-> Started(t, c, pc)[u]]
         /\ \A u \in Threads : DOMAIN Started(t, c, pc)[u] = Fields
         /\ \A u \in Threads \ {t} : AlikeCalls(Started(t, c, pc)[u], th[u])
         /\ Started(t, c, pc)[t].op = c.op /\ Started(t, c, pc)[t].path = c.path
         /\ Started(t, c, pc)[t].pc = pc
<1>. DEFINE others == {u \in Threads \ {t} : Meet(Concerns(c), Touches(th[u]))}
            first == [Idle EXCEPT !.op = c.op, !.path = c.path, !.to = c.to, !.over = c.over, !.pc = pc,
                        !.sess = th[t].sess, !.writes = th[t].writes, !.wrote = th[t].wrote,
                        !.rival = (Open(t) /\ th[t].rival) \/ others # {}]
            started == Started(t, c, pc)
<1>1. started = [u \in Threads |-> CASE u = t -> first
                                     [] u \in others -> [th[u] EXCEPT !.rival = TRUE]
                                     [] OTHER -> th[u]]
  BY DEF Started
<1>2. DOMAIN first = Fields /\ first.op = c.op /\ first.pc = pc /\ first.path = c.path
  BY DEF Fields, Idle
<1>3. t \notin others
  OBVIOUS
<1>. HIDE DEF first, others, started
<1>4. started[t] = first
  BY <1>1, <1>3
<1>5. ASSUME NEW u \in Threads \ {t} PROVE DOMAIN started[u] = Fields /\ AlikeCalls(started[u], th[u])
  <2>1. started[u] = th[u] \/ started[u] = [th[u] EXCEPT !.rival = TRUE]
    BY <1>1
  <2>. QED  BY <2>1, FieldNames DEF AlikeCalls, CallsAreRecords
<1>6. started = [u \in Threads |-> started[u]]
  BY <1>1
<1>. QED  BY <1>2, <1>4, <1>5, <1>6 DEF started

\* A call begins: what matters of the others is left alone.
LEMMA BeginStep ==
  ASSUME DirectInv, NEW t \in Threads, NEW c \in Menu[fmode], CloudBegin(t, c)
  PROVE  DirectInv'
<1>. USE DEF DirectInv
<1>0. /\ UNCHANGED <<fmode, remote, local, cached, loading, lost>> /\ th[t].pc = "idle"
      /\ c.path \in Paths /\ DOMAIN th[t] = Fields
  BY MountAssumption DEF CloudBegin, daemonVars, cloudVars, MayCall, Busy, Modes, CallsAreRecords
<1>1. /\ CallsAreRecords'
      /\ \A u \in Threads \ {t} : Same4(u)
      /\ th'[t].pc \in {"idle", "stat", "lookup", "list", "release"}
      /\ th'[t].pc # "idle" => th'[t].path \in Paths
  <2>. DEFINE pc == CASE c.op \in {"open", "getattr"} -> "stat"
                      [] c.op \in {"read", "peek"} -> "lookup"
                      [] c.op = "readdir" -> "list"
                      [] c.op = "release" -> "release"
                      [] OTHER -> "refused"
  <2>1. pc \in {"stat", "lookup", "list", "release", "refused"}
    OBVIOUS
  <2>2. th' = IF pc = "refused" THEN [th EXCEPT ![t].good = FALSE, ![t].saw = "none"] ELSE Started(t, c, pc)
    BY DEF CloudBegin
  <2>. HIDE DEF pc
  <2>3. CASE pc = "refused"
    BY <1>0, <2>2, <2>3, FieldNames DEF CallsAreRecords, Same4
  <2>4. CASE pc # "refused"
    <3>1. th' = Started(t, c, pc)
      BY <2>2, <2>4
    <3>2. CallsAreRecords'
      BY <3>1, StartedEffect DEF CallsAreRecords
    <3>3. \A u \in Threads \ {t} : Same4(u)
      BY <3>1, StartedEffect DEF Same4, AlikeCalls
    <3>4. th'[t].pc = pc /\ th'[t].path = c.path
      BY <3>1, StartedEffect
    <3>. QED  BY <1>0, <2>1, <2>4, <3>2, <3>3, <3>4
  <2>. QED  BY <2>3, <2>4
<1>2. CallsAreSound'
  <2>1. ASSUME NEW u \in Threads
        PROVE  /\ th'[u].pc # "idle" => th'[u].path \in Paths
               /\ th'[u].pc = "fetch" => th'[u].op # "open"
               /\ th'[u].pc = "announce" => th'[u].op = "open"
    <3>1. CASE u = t
      BY <1>1, <3>1
    <3>2. CASE u # t
      BY <1>1, <3>2 DEF Same4, CallsAreSound
    <3>. QED  BY <3>1, <3>2
  <2>. QED  BY <2>1 DEF CallsAreSound
<1>3. LoadersAreKnown'
  BY <1>0, <1>1 DEF Same4, LoadersAreKnown
<1>4. PromisesAreKept'
  <2>1. SUFFICES ASSUME lost' = 0, NEW p \in Paths, Promised(p)'
                 PROVE  Kept(p)'
    BY DEF PromisesAreKept
  <2>2. Promised(p)
    BY <1>0, <1>1, <2>1 DEF Promised, Same4
  <2>3. Kept(p)
    BY <1>0, <2>1, <2>2 DEF PromisesAreKept
  <2>. QED  BY <1>0, <1>1, <2>3 DEF Kept, Same4, Downloaded
<1>. QED  BY <1>0, <1>1, <1>2, <1>3, <1>4

\* Only a Read of a file nobody opened fetches it under the cache's lock.
LEMMA FetchStep ==
  ASSUME DirectInv, NEW t \in Threads, Fetch(t)
  PROVE  DirectInv'
<1>1. CloudGo(t, To(th[t], "download")) /\ th[t].pc = "fetch"
  BY DEF Fetch, CloudAt
<1>2. UNCHANGED <<fmode, remote, local, cached, loading, lost>>
  BY DEF Fetch, Same
<1>3. lost \in Nat /\ th[t].path \in Paths /\ th[t].op # "open"
  BY <1>1 DEF DirectInv, CallsAreSound
<1>. QED  BY <1>1, <1>2, <1>3, Going, QuietStep

\* The other steps on the way of a download: what the next three invariants say of the
\* other threads is kept if the step leaves their channels alone.
LEMMA DownloadStep ==
  ASSUME DirectInv, NEW t \in Threads, NEW q, DOMAIN q = Fields, CloudGo(t, q),
         UNCHANGED fmode, lost' \in Nat, cached' \subseteq Paths,
         loading' = [p \in Paths |-> loading'[p]], local' = [p \in Paths |-> local'[p]],
         q.pc # "idle" => q.path \in Paths,
         q.pc = "fetch" => q.op # "open",
         q.pc = "announce" => q.op = "open",
         q.op = "open" /\ q.pc \in {"download", "downloading", "announce"} => loading'[q.path] = t,
         \A u \in Threads \ {t} : \A p \in Paths : loading[p] = u => loading'[p] = u,
         PromisesAreKept'
  PROVE  DirectInv'
<1>. USE DEF DirectInv
<1>1. /\ CallsAreRecords'
      /\ \A u \in Threads \ {t} : Same4(u)
      /\ q.pc # "idle" => th'[t] = q
      /\ q.pc = "idle" => th'[t].pc = "idle"
  BY GoEffect
<1>2. CallsAreSound'
  <2>1. ASSUME NEW u \in Threads
        PROVE  /\ th'[u].pc # "idle" => th'[u].path \in Paths
               /\ th'[u].pc = "fetch" => th'[u].op # "open"
               /\ th'[u].pc = "announce" => th'[u].op = "open"
    <3>1. CASE u = t
      BY <1>1, <3>1
    <3>2. CASE u # t
      BY <1>1, <3>2 DEF Same4, CallsAreSound
    <3>. QED  BY <3>1, <3>2
  <2>. QED  BY <2>1 DEF CallsAreSound
<1>3. LoadersAreKnown'
  <2>1. SUFFICES ASSUME NEW u \in Threads, th'[u].op = "open",
                        th'[u].pc \in {"download", "downloading", "announce"}
                 PROVE  loading'[th'[u].path] = u
    BY DEF LoadersAreKnown
  <2>2. CASE u = t
    BY <1>1, <2>1, <2>2
  <2>3. CASE u # t
    <3>1. th[u].op = "open" /\ th[u].pc \in {"download", "downloading", "announce"} /\ th'[u].path = th[u].path
      BY <1>1, <2>1, <2>3 DEF Same4
    <3>2. loading[th[u].path] = u /\ th[u].path \in Paths
      BY <3>1 DEF LoadersAreKnown, CallsAreSound
    <3>. QED  BY <2>3, <3>1, <3>2
  <2>. QED  BY <2>2, <2>3
<1>. QED  BY <1>1, <1>2, <1>3

LEMMA GuardStep ==
  ASSUME DirectInv, NEW t \in Threads, Guard(t)
  PROVE  DirectInv'
<1>. DEFINE waits == [To(th[t], "wait") EXCEPT !.then = loading[th[t].path]]
            first == To(th[t], "download")
<1>0. /\ UNCHANGED <<fmode, remote, local, cached, lost>> /\ th[t].pc = "guard"
      /\ lost \in Nat /\ th[t].path \in Paths
  BY DEF Guard, Same, CloudAt, DirectInv, CallsAreSound
<1>1. CASE loading[th[t].path] # Nobody
  <2>1. CloudGo(t, waits) /\ UNCHANGED loading
    BY <1>1 DEF Guard
  <2>2. DOMAIN waits = Fields /\ waits.path = th[t].path /\ waits.pc = "wait"
    BY Going, FieldNames
  <2>. QED  BY <1>0, <2>1, <2>2, QuietStep
<1>2. CASE loading[th[t].path] = Nobody
  <2>1. CloudGo(t, first) /\ loading' = [loading EXCEPT ![th[t].path] = t]
    BY <1>2 DEF Guard
  <2>2. DOMAIN first = Fields /\ first.path = th[t].path /\ first.pc = "download"
    BY Going
  <2>3. /\ loading' = [p \in Paths |-> loading'[p]] /\ loading'[th[t].path] = t
        /\ \A u \in Threads \ {t} : \A p \in Paths : loading[p] = u => loading'[p] = u
    BY <1>0, <1>2, <2>1, MountAssumption DEF DirectInv
  <2>4. PromisesAreKept'
    <3>1. /\ \A u \in Threads \ {t} : Same4(u)
          /\ th'[t].pc = "download"
      BY <2>1, <2>2, GoEffect DEF DirectInv
    <3>2. SUFFICES ASSUME lost' = 0, NEW p \in Paths, Promised(p)'
                   PROVE  Kept(p)'
      BY DEF PromisesAreKept
    <3>3. Promised(p)
      BY <1>0, <3>1, <3>2 DEF Promised, Same4
    <3>4. Kept(p)
      BY <1>0, <3>2, <3>3 DEF PromisesAreKept, DirectInv
    <3>. QED  BY <1>0, <3>1, <3>4 DEF Kept, Same4, Downloaded
  <2>. QED  BY <1>0, <2>1, <2>2, <2>3, <2>4, DownloadStep DEF DirectInv
<1>. QED  BY <1>1, <1>2

\* The download empties the file; from then on it is the downloader who vouches for it.
LEMMA StartStep ==
  ASSUME DirectInv, NEW t \in Threads, DownloadStarts(t)
  PROVE  DirectInv'
<1>. DEFINE q == To(th[t], "downloading")
<1>0. /\ UNCHANGED <<fmode, remote, cached, loading, lost>> /\ th[t].pc = "download"
      /\ lost \in Nat /\ th[t].path \in Paths
  BY DEF DownloadStarts, Same, CloudAt, cloudVars, DirectInv, CallsAreSound
<1>1. CloudGo(t, q) /\ local' = [local EXCEPT ![th[t].path] = [Fresh EXCEPT !.whole = FALSE]]
  BY DEF DownloadStarts, OpenBegins
<1>2. DOMAIN q = Fields /\ q.path = th[t].path /\ q.pc = "downloading" /\ q.op = th[t].op
  BY Going
<1>3. /\ local' = [p \in Paths |-> local'[p]]
      /\ \A p \in Paths : p # th[t].path => local'[p] = local[p]
  BY <1>1 DEF DirectInv
<1>4. /\ \A u \in Threads \ {t} : Same4(u)
      /\ th'[t] = q
  BY <1>1, <1>2, GoEffect DEF DirectInv
<1>5. PromisesAreKept'
  <2>1. SUFFICES ASSUME lost' = 0, NEW p \in Paths, Promised(p)'
                 PROVE  Kept(p)'
    BY DEF PromisesAreKept
  <2>2. Promised(p)
    BY <1>0, <1>2, <1>4, <2>1 DEF Promised, Same4
  <2>3. Kept(p)
    BY <1>0, <2>1, <2>2 DEF PromisesAreKept, DirectInv
  <2>4. Downloaded(p)'
    BY <1>0, <2>3 DEF Kept, Downloaded
  <2>5. CASE p = th[t].path
    BY <1>2, <1>4, <2>4, <2>5 DEF Kept
  <2>6. CASE p # th[t].path
    BY <1>0, <1>3, <1>4, <2>3, <2>4, <2>6 DEF Kept, Same4
  <2>. QED  BY <2>5, <2>6
<1>6. loading'[q.path] = t \/ q.op # "open"
  BY <1>0, <1>2 DEF DirectInv, LoadersAreKnown
<1>. QED  BY <1>0, <1>1, <1>2, <1>3, <1>5, <1>6, DownloadStep DEF DirectInv

\* The download ends: either all of the file is there, or a failure is counted, or
\* there was nothing to download and nothing is promised.
LEMMA StopStep ==
  ASSUME DirectInv, NEW t \in Threads, DownloadStops(t)
  PROVE  DirectInv'
<1>. DEFINE pc == IF th[t].op = "open" THEN "announce" ELSE "publish"
            q(good) == [To(th[t], pc) EXCEPT !.good = good]
<1>0. /\ UNCHANGED <<fmode, remote, cached, loading>> /\ th[t].pc = "downloading"
      /\ lost \in Nat /\ th[t].path \in Paths /\ DOMAIN th[t] = Fields
  BY DEF DownloadStops, Same, CloudAt, cloudVars, DirectInv, CallsAreSound, CallsAreRecords
<1>1. \A good : /\ DOMAIN q(good) = Fields /\ q(good).path = th[t].path
                /\ q(good).pc = pc /\ q(good).op = th[t].op /\ q(good).good = good
  BY <1>0, FieldNames DEF To
<1>2. \/ OpenEnds(th[t].path) /\ CloudGo(t, q(Downloaded(th[t].path))) /\ UNCHANGED lost
      \/ /\ Fails /\ CloudGo(t, q(FALSE))
         /\ \E there \in BOOLEAN : local' = [local EXCEPT ![th[t].path].there = there, ![th[t].path].whole = FALSE]
  BY DEF DownloadStops
<1>3. loading'[th[t].path] = t \/ th[t].op # "open"
  BY <1>0 DEF DirectInv, LoadersAreKnown
<1>. HIDE DEF q
<1>4. CASE OpenEnds(th[t].path) /\ CloudGo(t, q(Downloaded(th[t].path))) /\ UNCHANGED lost
  <2>1. /\ local' = [p \in Paths |-> local'[p]]
        /\ \A p \in Paths : p # th[t].path => local'[p] = local[p]
    BY <1>4 DEF OpenEnds, DirectInv
  <2>2. Downloaded(th[t].path) => local'[th[t].path].whole
    BY <1>0, <1>4 DEF OpenEnds, Downloaded, Fresh, DirectInv
  <2>3. /\ \A u \in Threads \ {t} : Same4(u)
        /\ th'[t] = q(Downloaded(th[t].path))
    BY <1>1, <1>4, GoEffect DEF DirectInv
  <2>4. PromisesAreKept'
    <3>1. SUFFICES ASSUME lost' = 0, NEW p \in Paths, Promised(p)'
                   PROVE  Kept(p)'
      BY DEF PromisesAreKept
    <3>2. CASE p = th[t].path
      <4>1. Downloaded(p)
        <5>1. CASE th'[t].good
          BY <1>1, <2>3, <3>2, <5>1
        <5>2. CASE ~th'[t].good
          <6>1. Promised(p)
            BY <1>0, <2>3, <3>1, <5>2 DEF Promised, Same4
          <6>. QED  BY <1>4, <3>1, <6>1 DEF PromisesAreKept, DirectInv, Kept
        <5>. QED  BY <5>1, <5>2
      <4>2. Downloaded(p)'
        BY <1>0, <4>1 DEF Downloaded
      <4>. QED  BY <2>2, <3>2, <4>1, <4>2 DEF Kept
    <3>3. CASE p # th[t].path
      <4>1. Promised(p)
        BY <1>0, <1>1, <2>3, <3>1, <3>3 DEF Promised, Same4
      <4>2. Kept(p)
        BY <1>4, <3>1, <4>1 DEF PromisesAreKept, DirectInv
      <4>. QED  BY <1>0, <2>1, <2>3, <3>3, <4>2 DEF Kept, Same4, Downloaded
    <3>. QED  BY <3>2, <3>3
  <2>. QED  BY <1>0, <1>1, <1>3, <1>4, <2>1, <2>4, DownloadStep DEF DirectInv
<1>5. CASE /\ Fails /\ CloudGo(t, q(FALSE))
           /\ \E there \in BOOLEAN : local' = [local EXCEPT ![th[t].path].there = there, ![th[t].path].whole = FALSE]
  <2>1. lost' \in Nat /\ lost' # 0
    BY <1>0, <1>5 DEF Fails
  <2>2. local' = [p \in Paths |-> local'[p]]
    BY <1>5 DEF DirectInv
  <2>3. PromisesAreKept'
    BY <2>1 DEF PromisesAreKept
  <2>. QED  BY ZenonT(40), <1>0, <1>1, <1>3, <1>5, <2>1, <2>2, <2>3, DownloadStep DEF DirectInv
<1>. QED  BY <1>2, <1>4, <1>5

\* The channel is given up; nobody else's path of that name is waited on.
LEMMA AnnounceStep ==
  ASSUME DirectInv, NEW t \in Threads, Announce(t)
  PROVE  DirectInv'
<1>. DEFINE q == IF th[t].good THEN To(th[t], "publish") ELSE Over(th[t], FALSE)
<1>0. /\ UNCHANGED <<fmode, remote, local, cached, lost>> /\ th[t].pc = "announce"
      /\ lost \in Nat /\ th[t].path \in Paths /\ DOMAIN th[t] = Fields
  BY DEF Announce, Same, CloudAt, DirectInv, CallsAreSound, CallsAreRecords
<1>1. CloudGo(t, q) /\ loading' = [loading EXCEPT ![th[t].path] = Nobody]
  BY DEF Announce
<1>2. /\ DOMAIN q = Fields /\ q.path = th[t].path /\ q.pc \in {"publish", "idle"}
      /\ q.pc = "publish" => th[t].good /\ q.good = th[t].good
  BY <1>0, FieldNames DEF To, Over
<1>. HIDE DEF q
<1>3. loading[th[t].path] = t
  BY <1>0 DEF DirectInv, CallsAreSound, LoadersAreKnown
<1>4. /\ loading' = [p \in Paths |-> loading'[p]]
      /\ \A u \in Threads \ {t} : \A p \in Paths : loading[p] = u => loading'[p] = u
  BY <1>0, <1>1, <1>3 DEF DirectInv
<1>5. /\ \A u \in Threads \ {t} : Same4(u)
      /\ q.pc # "idle" => th'[t] = q
      /\ q.pc = "idle" => th'[t].pc = "idle"
  BY <1>1, <1>2, GoEffect DEF DirectInv
<1>6. PromisesAreKept'
  <2>1. SUFFICES ASSUME lost' = 0, NEW p \in Paths, Promised(p)'
                 PROVE  Kept(p)'
    BY DEF PromisesAreKept
  <2>2. Promised(p)
    BY <1>0, <1>2, <1>5, <2>1 DEF Promised, Same4
  <2>3. Kept(p)
    BY <1>0, <2>1, <2>2 DEF PromisesAreKept, DirectInv
  <2>. QED  BY <1>0, <1>2, <1>5, <2>3 DEF Kept, Same4, Downloaded
<1>. QED  BY <1>0, <1>1, <1>2, <1>4, <1>6, DownloadStep DEF DirectInv

LEMMA PublishStep ==
  ASSUME DirectInv, NEW t \in Threads, Publish(t)
  PROVE  DirectInv'
<1>. DEFINE q == CASE th[t].op = "open" -> Over(th[t], TRUE)
                   [] OTHER -> IF th[t].good THEN To(th[t], "read") ELSE Over(th[t], FALSE)
<1>0. /\ UNCHANGED <<fmode, remote, local, loading, lost>> /\ th[t].pc = "publish"
      /\ lost \in Nat /\ th[t].path \in Paths /\ DOMAIN th[t] = Fields
  BY DEF Publish, Same, CloudAt, DirectInv, CallsAreSound, CallsAreRecords
<1>1. CloudGo(t, q) /\ cached' = IF th[t].good THEN cached \union {th[t].path} ELSE cached
  BY DEF Publish
<1>2. DOMAIN q = Fields /\ (q.pc # "idle" => q.path = th[t].path) /\ q.pc \in {"read", "idle"}
  BY <1>0, FieldNames DEF To, Over
<1>. HIDE DEF q
<1>3. cached' \subseteq Paths
  BY <1>0, <1>1 DEF DirectInv
<1>4. /\ \A u \in Threads \ {t} : Same4(u)
      /\ th'[t].pc \in {"read", "idle"}
  BY <1>1, <1>2, GoEffect DEF DirectInv
<1>5. PromisesAreKept'
  <2>1. SUFFICES ASSUME lost' = 0, NEW p \in Paths, Promised(p)'
                 PROVE  Kept(p)'
    BY DEF PromisesAreKept
  <2>2. Promised(p)
    BY <1>0, <1>1, <1>4, <2>1 DEF Promised, Same4
  <2>3. Kept(p)
    BY <1>0, <2>1, <2>2 DEF PromisesAreKept, DirectInv
  <2>. QED  BY <1>0, <1>4, <2>3 DEF Kept, Same4, Downloaded
<1>. QED  BY <1>0, <1>1, <1>2, <1>3, <1>5, DownloadStep DEF DirectInv
-----------------------------------------------------------------------------
LEMMA InitMount == Init => MountInv
<1>. SUFFICES ASSUME Init PROVE MountInv
  OBVIOUS
<1>1. cached = {} /\ front \in {"daemon", "direct"} /\ lost = 0
  BY DEF Init, RunMount, CloudInit
<1>2. ASSUME front = "direct" PROVE DirectInv
  <2>1. fmode = 1
    BY <1>2 DEF Init, RunMount
  <2>2. th = [t \in Threads |-> Idle] /\ loading = [p \in Paths |-> Nobody] /\ local = [p \in Paths |-> NoFile]
    BY DEF Init, CloudInit
  <2>3. \A t \in Threads : th[t] = Idle /\ th[t].pc = "idle"
    BY <2>2 DEF Idle
  <2>4. CallsAreRecords /\ CallsAreSound
    BY <2>2, <2>3 DEF CallsAreRecords, CallsAreSound, Fields
  <2>5. LoadersAreKnown /\ PromisesAreKept
    BY <1>1, <2>3 DEF LoadersAreKnown, PromisesAreKept, Promised
  <2>. QED  BY <1>1, <2>1, <2>2, <2>4, <2>5 DEF DirectInv
<1>. QED  BY <1>1, <1>2 DEF MountInv

LEMMA CloudStep ==
  ASSUME DirectInv, CloudNext
  PROVE  DirectInv'
<1>1. PICK t \in Threads :
        \/ \E c \in Menu[fmode] : CloudBegin(t, c)
        \/ Stat(t) \/ LookUp(t) \/ Guard(t) \/ WaitOver(t) \/ Recheck(t) \/ Fetch(t)
        \/ DownloadStarts(t) \/ DownloadStops(t) \/ Announce(t) \/ Publish(t)
        \/ ReadFile(t) \/ CloudRelease(t) \/ ListDir(t) \/ StoreListing(t)
  BY DEF CloudNext
<1>2. CASE \E c \in Menu[fmode] : CloudBegin(t, c)
  BY <1>2, BeginStep
<1>3. CASE Stat(t)
  BY <1>3, StatStep
<1>4. CASE LookUp(t) \/ WaitOver(t) \/ Recheck(t) \/ ReadFile(t) \/ CloudRelease(t)
  BY <1>4, LookingStep
<1>5. CASE Guard(t)
  BY <1>5, GuardStep
<1>6. CASE Fetch(t)
  BY <1>6, FetchStep
<1>7. CASE DownloadStarts(t)
  BY <1>7, StartStep
<1>8. CASE DownloadStops(t)
  BY <1>8, StopStep
<1>9. CASE Announce(t)
  BY <1>9, AnnounceStep
<1>10. CASE Publish(t)
  BY <1>10, PublishStep
<1>11. CASE ListDir(t) \/ StoreListing(t)
  BY <1>11, ListingStep
<1>. QED  BY <1>1, <1>2, <1>3, <1>4, <1>5, <1>6, <1>7, <1>8, <1>9, <1>10, <1>11

LEMMA DirectStutters ==
  ASSUME DirectInv, UNCHANGED vars
  PROVE  DirectInv'
<1>1. UNCHANGED <<fmode, th, remote, local, lost, cached, loading>>
  BY DEF vars, daemonVars, callVars, cloudVars
<1>2. CallsAreRecords' /\ CallsAreSound' /\ LoadersAreKnown'
  BY <1>1 DEF DirectInv, CallsAreRecords, CallsAreSound, LoadersAreKnown
<1>3. PromisesAreKept'
  <2>1. SUFFICES ASSUME lost' = 0, NEW p \in Paths, Promised(p)'
                 PROVE  Kept(p)'
    BY DEF PromisesAreKept
  <2>2. Promised(p)
    BY <1>1, <2>1 DEF Promised
  <2>3. Kept(p)
    BY <1>1, <2>1, <2>2 DEF PromisesAreKept, DirectInv
  <2>. QED  BY <1>1, <2>3 DEF Kept, Downloaded
<1>. QED  BY <1>1, <1>2, <1>3 DEF DirectInv

LEMMA NextMount == MountInv /\ [Next]_vars => MountInv'
<1>. SUFFICES ASSUME MountInv, [Next]_vars PROVE MountInv'
  OBVIOUS
<1>1. CASE front = "daemon" /\ UNCHANGED front /\ UNCHANGED cloudVars
  BY <1>1 DEF MountInv, cloudVars
<1>2. CASE front = "direct" /\ CloudNext /\ UNCHANGED front
  BY <1>2, CloudStep DEF MountInv
<1>3. CASE UNCHANGED vars
  BY <1>3, DirectStutters DEF MountInv, vars, cloudVars
<1>. QED  BY <1>1, <1>2, <1>3 DEF Next

LEMMA MountInvHolds == Spec => []MountInv
BY InitMount, NextMount, PTL DEF Spec

\* Two Opens of the read-only mount never download one file at the same time, however
\* many threads open however many files: who downloads has put its channel into the
\* table of downloads, and a path has one channel (cloudfs.go Open).
THEOREM OneDownload == Spec => []OneDownloadAtATime
<1>1. MountInv => OneDownloadAtATime
  <2>1. SUFFICES ASSUME DirectInv, NEW t \in Threads, NEW u \in Threads,
                        {th[t].op, th[u].op} = {"open"}, th[t].path = th[u].path,
                        {th[t].pc, th[u].pc} \subseteq {"download", "downloading"}
                 PROVE  t = u
    BY DEF MountInv, OneDownloadAtATime
  <2>2. loading[th[t].path] = t /\ loading[th[u].path] = u
    BY <2>1 DEF DirectInv, LoadersAreKnown
  <2>. QED  BY <2>1, <2>2
<1>. QED  BY <1>1, MountInvHolds, PTL

\* While no request has failed, a file the read-only mount offers as downloaded is all
\* there, or is being downloaded anew by somebody who will complete it: announcing the
\* end of a download before publishing it never publishes half a file (cloudfs.go Open,
\* downloadToCache, Read).
THEOREM OfferedIsWhole == Spec => []CachedFilesAreWhole
<1>1. MountInv => CachedFilesAreWhole
  BY DEF MountInv, DirectInv, PromisesAreKept, Promised, Kept, CachedFilesAreWhole
<1>. QED  BY <1>1, MountInvHolds, PTL
-----------------------------------------------------------------------------

\* What a call q on a mount of mode m may be about to do.
Lawful(m, q) ==
  /\ q.pc = "ask" => Admits(m, q.req)
  /\ q.op \in {"write", "truncate"} /\ q.pc \in {"lock", "look", "put", "refind"} => m = FullyWritable
  /\ q.op \in {"openw", "create"} /\ q.pc # "idle" => m \in {FullyWritable, 8}
  /\ q.op \in {"openw", "create"} /\ q.pc \in {"look", "put"} => m = FullyWritable
  /\ q.op \in {"unlink", "rmdir"} /\ q.pc = "lock" => m \in {FullyWritable, 7, 8}
  /\ q.op = "rename" /\ q.pc = "lock" => m = FullyWritable
  /\ q.pc \in {"ask", "heard"} =>
       /\ q.then = "created" => m = FullyWritable
       /\ q.then = "target" => m = 8
       /\ q.then \in {"old", "dir", "into", "into.dir", "new", "new.dir"} => m \in 3..8

HandlesAreRecords ==
  /\ handle = [h \in Handles |-> handle[h]] /\ \A h \in Handles : DOMAIN handle[h] = DOMAIN NewHandle
  /\ files = [p \in Paths |-> files[p]] /\ \A p \in Paths : files[p] \in Handles \union {None}

\* A restricted mount has no handle of a plain file written to; only the copy-upload
\* mode has staged ones.
HandlesAreLawful ==
  \A h \in Handles :
    /\ handle[h].dirty => fmode = FullyWritable
    /\ handle[h].staged => fmode = 8

\* The handle a call has in hand: one that there is, and staged if it is to be written
\* to by a restricted mount.
InHand ==
  \A t \in Threads :
    /\ th[t].pc \in {"enter", "close"} => th[t].h \in Handles \ {None}
    /\ th[t].pc = "put" /\ Writes(th[t]) => th[t].h \in Handles
    /\ th[t].pc = "enter" /\ th[t].op \in {"write", "truncate"} /\ fmode # FullyWritable => handle[th[t].h].staged

DaemonInv ==
  /\ fmode \in {FullyWritable} \union Modes
  /\ CallsAreRecords /\ HandlesAreRecords
  /\ \A t \in Threads : th[t].pc # "idle" => th[t].path \in Paths
  /\ \A t \in Threads : Lawful(fmode, th[t])
  /\ HandlesAreLawful /\ InHand

IPCMountInv == front \in {"daemon", "direct"} /\ (front = "daemon" => DaemonInv)
-----------------------------------------------------------------------------
\* What the modes let through.
LEMMA Lets ==
  ASSUME NEW m \in {FullyWritable} \union Modes
  PROVE  /\ \A r \in {"fs.stat", "fs.list", "fs.close"} : Admits(m, r)
         /\ m # 1 => Admits(m, "fs.mkdir")
         /\ m \in {FullyWritable} \union 3..8 => Admits(m, "fs.rename")
         /\ m \in {FullyWritable, 7, 8} => Admits(m, "fs.remove")
         /\ m \in {FullyWritable, 8} => Admits(m, "fs.uploadStaged")
         /\ m = FullyWritable => \A r : Admits(m, r)
<1>1. \A r \in {"fs.stat", "fs.list", "fs.close"} : Admits(m, r)
  BY DEF Admits, Needs
<1>2. ASSUME NEW i \in 1..8, m \in Modes, i <= m PROVE Adds[i] \subseteq Can(m)
  BY <1>2 DEF Can, Modes
<1>3. ASSUME m # 1 PROVE Admits(m, "fs.mkdir")
  <2>1. CASE m \in Modes
    <3>1. "mkdir" \in Can(m)
      BY <1>2, <1>3, <2>1 DEF Adds, Modes
    <3>. QED  BY <3>1 DEF Admits, Needs
  <2>. QED  BY <2>1 DEF Admits
<1>4. ASSUME m \in {FullyWritable} \union 3..8 PROVE Admits(m, "fs.rename")
  <2>1. CASE m \in 3..8
    <3>1. "renameDir" \in Can(m)
      BY <1>2, <2>1 DEF Adds, Modes
    <3>. QED  BY <3>1 DEF Admits, Needs
  <2>. QED  BY <1>4, <2>1 DEF Admits
<1>5. ASSUME m \in {FullyWritable, 7, 8} PROVE Admits(m, "fs.remove")
  <2>1. CASE m \in {7, 8}
    <3>1. "deleteDir" \in Can(m)
      BY <1>2, <2>1 DEF Adds, Modes
    <3>. QED  BY <3>1 DEF Admits, Needs
  <2>. QED  BY <1>5, <2>1 DEF Admits
<1>6. ASSUME m \in {FullyWritable, 8} PROVE Admits(m, "fs.uploadStaged")
  <2>1. CASE m = 8
    <3>1. "copyUploadFile" \in Can(m)
      BY <1>2, <2>1 DEF Adds, Modes
    <3>. QED  BY <3>1 DEF Admits, Needs
  <2>. QED  BY <1>6, <2>1 DEF Admits
<1>7. m = FullyWritable => \A r : Admits(m, r)
  BY DEF Admits
<1>. QED  BY <1>1, <1>3, <1>4, <1>5, <1>6, <1>7

\* A call that returns changes nothing but the sessions of the others.
LEMMA FinishedEffect ==
  ASSUME CallsAreRecords, NEW t \in Threads, NEW q
  PROVE  /\ Finished(t, q) = [u \in Threads |-> Finished(t, q)[u]]
         /\ \A u \in Threads : DOMAIN Finished(t, q)[u] = Fields
         /\ \A u \in Threads \ {t} : AlikeCalls(Finished(t, q)[u], th[u])
         /\ Finished(t, q)[t].pc = "idle"
<1>. DEFINE follow(v) == IF q.op = "rename" /\ q.good /\ v.sess # NoPath /\ Below(v.sess, q.path)
                            /\ Rebased(v.sess, q.path, q.to) \in Paths
                         THEN [v EXCEPT !.sess = Rebased(v.sess, q.path, q.to)] ELSE v
            sess == CASE q.op \in Opens /\ q.good -> q.path
                      [] q.op = "release" -> NoPath
                      [] OTHER -> q.sess
            gone == q.op = "unlink" /\ q.good
            mine == IF sess = NoPath THEN [Idle EXCEPT !.good = q.good]
                    ELSE [Idle EXCEPT !.good = q.good, !.saw = q.saw, !.sess = sess, !.rival = q.rival,
                            !.writes = (q.writes \/ q.op \in OpensToWrite) /\ ~gone,
                            !.wrote = q.wrote /\ ~gone]
            finished == Finished(t, q)
<1>1. /\ finished = [u \in Threads |-> follow(IF u = t THEN mine ELSE th[u])]
      /\ DOMAIN mine = Fields /\ mine.pc = "idle"
  <2>1. finished = [u \in Threads |-> follow(IF u = t THEN mine ELSE th[u])]
    BY DEF Finished
  <2>2. DOMAIN mine = Fields /\ mine.pc = "idle"
    BY DEF Fields, Idle
  <2>. QED  BY <2>1, <2>2
<1>2. \A v : DOMAIN v = Fields => DOMAIN follow(v) = Fields /\ AlikeCalls(follow(v), v)
  BY FieldNames DEF AlikeCalls
<1>. HIDE DEF follow, mine, sess, finished
<1>3. \A u \in Threads : finished[u] = follow(IF u = t THEN mine ELSE th[u])
  BY <1>1
<1>4. finished = [u \in Threads |-> finished[u]]
  BY <1>1
<1>5. \A u \in Threads : DOMAIN finished[u] = Fields
  BY <1>1, <1>2, <1>3 DEF CallsAreRecords
<1>6. \A u \in Threads \ {t} : AlikeCalls(finished[u], th[u])
  BY <1>2, <1>3 DEF CallsAreRecords
<1>7. finished[t].pc = "idle"
  BY <1>1, <1>2, <1>3 DEF AlikeCalls
<1>. QED  BY <1>4, <1>5, <1>6, <1>7 DEF finished

LEMMA IPCGoEffect ==
  ASSUME CallsAreRecords, NEW t \in Threads, NEW q, DOMAIN q = Fields, Go(t, q)
  PROVE  /\ CallsAreRecords'
         /\ \A u \in Threads \ {t} : AlikeCalls(th'[u], th[u])
         /\ q.pc # "idle" => AlikeCalls(th'[t], q)
         /\ q.pc = "idle" => th'[t].pc = "idle"
<1>1. CASE q.pc = "idle"
  <2>1. th' = Finished(t, q)
    BY <1>1 DEF Go
  <2>. QED  BY <1>1, <2>1, FinishedEffect DEF CallsAreRecords
<1>2. CASE q.pc = "refind"
  <2>1. th' = [th EXCEPT ![t] = [q EXCEPT !.holds = {}]]
    BY <1>2 DEF Go
  <2>. QED  BY <1>2, <2>1, FieldNames DEF CallsAreRecords, AlikeCalls
<1>3. CASE q.pc \notin {"idle", "refind"}
  <2>1. th' = [th EXCEPT ![t] = q]
    BY <1>3 DEF Go
  <2>. QED  BY <1>3, <2>1 DEF CallsAreRecords, AlikeCalls
<1>. QED  BY <1>1, <1>2, <1>3
-----------------------------------------------------------------------------
LEMMA AlikeIsLawful ==
  ASSUME NEW m, NEW r, NEW s, r.pc = "idle" \/ (AlikeCalls(r, s) /\ Lawful(m, s))
  PROVE  Lawful(m, r)
BY DEF AlikeCalls, Lawful

\* A step of thread t that leaves its call as q says.
LEMMA CallStep ==
  ASSUME DaemonInv, NEW t \in Threads, NEW q,
         CallsAreRecords', \A u \in Threads \ {t} : AlikeCalls(th'[u], th[u]),
         q.pc # "idle" => AlikeCalls(th'[t], q), q.pc = "idle" => th'[t].pc = "idle",
         UNCHANGED fmode, HandlesAreRecords', HandlesAreLawful',
         \A h \in Held \intersect Handles : handle[h].staged => handle'[h].staged,
         q.pc # "idle" => q.path \in Paths /\ Lawful(fmode, q),
         q.pc \in {"enter", "close"} => q.h \in Handles \ {None},
         q.pc = "put" /\ Writes(q) => q.h \in Handles,
         q.pc = "enter" /\ q.op \in {"write", "truncate"} /\ fmode # FullyWritable => handle'[q.h].staged
  PROVE  DaemonInv'
<1>. USE DEF DaemonInv
<1>1. \A u \in Threads : th'[u].pc # "idle" => th'[u].path \in Paths
  BY DEF AlikeCalls
<1>2. \A u \in Threads : Lawful(fmode, th'[u])
  <2>1. ASSUME NEW u \in Threads PROVE Lawful(fmode, th'[u])
    <3>1. CASE u = t
      BY <3>1, AlikeIsLawful
    <3>2. CASE u # t
      BY <3>2, AlikeIsLawful
    <3>. QED  BY <3>1, <3>2
  <2>. QED  BY <2>1
<1>3. InHand'
  <2>1. ASSUME NEW u \in Threads
        PROVE  /\ th'[u].pc \in {"enter", "close"} => th'[u].h \in Handles \ {None}
               /\ th'[u].pc = "put" /\ Writes(th'[u]) => th'[u].h \in Handles
               /\ th'[u].pc = "enter" /\ th'[u].op \in {"write", "truncate"} /\ fmode # FullyWritable
                    => handle'[th'[u].h].staged
    <3>1. CASE u = t
      BY <3>1 DEF AlikeCalls, Writes
    <3>2. CASE u # t
      <4>1. AlikeCalls(th'[u], th[u])
        BY <3>2
      <4>2. th[u].h # None => th[u].h \in Held
        BY DEF Held
      <4>. QED  BY <4>1, <4>2 DEF AlikeCalls, Writes, InHand
    <3>. QED  BY <3>1, <3>2
  <2>. QED  BY <2>1 DEF InHand
<1>. QED  BY <1>1, <1>2, <1>3

\* ... and the table and the handles as they are.
LEMMA LeaveStep ==
  ASSUME DaemonInv, NEW t \in Threads, NEW q, DOMAIN q = Fields, Go(t, q), UNCHANGED <<fmode, files, handle>>,
         q.pc # "idle" => q.path = th[t].path /\ th[t].pc # "idle" /\ Lawful(fmode, q),
         q.pc = "enter" => q.h \in Handles \ {None},
         q.pc \notin {"close", "put"} \/ (q.pc = "put" /\ ~Writes(q)) \/ (q.pc = "close" /\ q.h \in Handles \ {None}),
         q.pc = "enter" /\ q.op \in {"write", "truncate"} /\ fmode # FullyWritable => handle[q.h].staged
  PROVE  DaemonInv'
<1>1. /\ CallsAreRecords'
      /\ \A u \in Threads \ {t} : AlikeCalls(th'[u], th[u])
      /\ q.pc # "idle" => AlikeCalls(th'[t], q)
      /\ q.pc = "idle" => th'[t].pc = "idle"
  BY IPCGoEffect DEF DaemonInv
<1>2. HandlesAreRecords' /\ HandlesAreLawful'
  BY DEF DaemonInv, HandlesAreRecords, HandlesAreLawful
<1>3. q.pc # "idle" => q.path \in Paths
  BY DEF DaemonInv
<1>. QED  BY <1>1, <1>2, <1>3, CallStep

\* How a call goes on.
LEMMA Onward ==
  ASSUME NEW q, DOMAIN q = Fields
  PROVE  /\ \A pc : /\ DOMAIN [q EXCEPT !.pc = pc] = Fields /\ [q EXCEPT !.pc = pc].pc = pc
                    /\ [q EXCEPT !.pc = pc].op = q.op /\ [q EXCEPT !.pc = pc].path = q.path
                    /\ [q EXCEPT !.pc = pc].h = q.h /\ [q EXCEPT !.pc = pc].then = q.then
         /\ \A good : DOMAIN Over(q, good) = Fields /\ Over(q, good).pc = "idle"
         /\ \A r, p, w : /\ DOMAIN Asking(q, r, p, w) = Fields /\ Asking(q, r, p, w).pc = "ask"
                         /\ Asking(q, r, p, w).req = r /\ Asking(q, r, p, w).then = w
                         /\ Asking(q, r, p, w).op = q.op /\ Asking(q, r, p, w).path = q.path
                         /\ Asking(q, r, p, w).h = q.h
BY FieldNames DEF Over, Asking

LEMMA AskStep ==
  ASSUME DaemonInv, NEW t \in Threads, Ask(t)
  PROVE  DaemonInv'
<1>1. th[t].pc = "ask" /\ DOMAIN th[t] = Fields /\ Lawful(fmode, th[t])
  BY DEF Ask, At, DaemonInv, CallsAreRecords
<1>2. UNCHANGED <<fmode, files, handle>>
  BY DEF Ask, Leave, Table
<1>. DEFINE q == [th[t] EXCEPT !.pc = "heard", !.isdir = IsDir(th[t].arg), !.tries = 0, !.arg = <<>>, !.req = "none",
                            !.got = IF th[t].req = "fs.list" THEN Entries(th[t].arg) ELSE {},
                            !.raced = th[t].raced \/ Overtaken(t, th[t])]
            heard(good) == [q EXCEPT !.good = good]
            again == [th[t] EXCEPT !.tries = 1]
<1>3. Go(t, heard(Served(Asked(th[t])).good)) \/ Go(t, heard(FALSE)) \/ Go(t, again)
  BY DEF Ask
<1>4. \A good : /\ DOMAIN heard(good) = Fields /\ heard(good).pc = "heard" /\ heard(good).op = th[t].op
                /\ heard(good).path = th[t].path /\ heard(good).then = th[t].then
  BY <1>1, FieldNames
<1>5. /\ DOMAIN again = Fields /\ again.pc = "ask" /\ again.op = th[t].op /\ again.req = th[t].req
      /\ again.path = th[t].path /\ again.then = th[t].then
  BY <1>1, FieldNames
<1>. HIDE DEF q, heard, again
<1>6. Lawful(fmode, again) /\ \A good : Lawful(fmode, heard(good))
  BY <1>1, <1>4, <1>5 DEF Lawful
<1>7. ASSUME NEW good, Go(t, heard(good)) PROVE DaemonInv'
  BY <1>1, <1>2, <1>4, <1>6, <1>7, LeaveStep
<1>8. CASE Go(t, again)
  BY <1>1, <1>2, <1>5, <1>6, <1>8, LeaveStep
<1>. QED  BY <1>3, <1>7, <1>8

\* The path is locked: the daemon is asked, or the table looked at.
LEMMA LockStep ==
  ASSUME DaemonInv, NEW t \in Threads, Lock(t)
  PROVE  DaemonInv'
<1>. DEFINE q == [th[t] EXCEPT !.holds = @ \union {NextWanted(th[t])}]
            next == IF Cardinality(q.holds) = Len(Wanted(q)) THEN Locked(q) ELSE q
<1>1. /\ th[t].pc = "lock" /\ DOMAIN th[t] = Fields /\ Lawful(fmode, th[t]) /\ th[t].path \in Paths
      /\ fmode \in {FullyWritable} \union Modes
  BY DEF Lock, At, DaemonInv, CallsAreRecords
<1>2. UNCHANGED <<fmode, files, handle>> /\ th' = [th EXCEPT ![t] = next]
  BY DEF Lock, Leave, Table, Quiet
<1>3. DOMAIN q = Fields /\ q.pc = "lock" /\ q.op = th[t].op /\ q.path = th[t].path /\ Lawful(fmode, q)
  BY <1>1, FieldNames DEF Lawful
<1>. HIDE DEF q
<1>4. /\ DOMAIN Locked(q) = Fields /\ Locked(q).path = q.path /\ Locked(q).op = q.op
      /\ Locked(q).pc \in {"ask", "look"} /\ Lawful(fmode, Locked(q))
  <2>1. CASE q.op \in {"openw", "create"} /\ Restricted
    <3>1. Locked(q) = Asking(q, "fs.stat", q.path, "target")
      BY <2>1 DEF Locked
    <3>. QED  BY <1>1, <1>3, <2>1, <3>1, Onward, Lets DEF Lawful, Restricted
  <2>2. CASE q.op \in {"unlink", "rmdir"}
    <3>1. Locked(q) = Asking(q, "fs.remove", q.path, "removed")
      BY <2>2 DEF Locked
    <3>. QED  BY <1>1, <1>3, <2>2, <3>1, Onward, Lets DEF Lawful
  <2>3. CASE q.op = "rename"
    <3>1. Locked(q) = Asking(q, "fs.rename", q.path, "renamed")
      BY <2>3 DEF Locked
    <3>. QED  BY <1>1, <1>3, <2>3, <3>1, Onward, Lets DEF Lawful
  <2>4. CASE /\ ~(q.op \in {"openw", "create"} /\ Restricted)
             /\ q.op \notin {"unlink", "rmdir", "rename"}
    <3>1. Locked(q) = [q EXCEPT !.pc = "look"]
      BY <2>4 DEF Locked
    <3>. QED  BY <1>1, <1>3, <2>4, <3>1, Onward DEF Lawful, Restricted
  <2>. QED  BY <2>1, <2>2, <2>3, <2>4
<1>5. DOMAIN next = Fields /\ next.path = th[t].path /\ next.pc \in {"lock", "ask", "look"} /\ Lawful(fmode, next)
  BY <1>3, <1>4
<1>. HIDE DEF next
<1>6. /\ CallsAreRecords' /\ th'[t] = next
      /\ \A u \in Threads \ {t} : AlikeCalls(th'[u], th[u])
  BY <1>2, <1>5 DEF DaemonInv, CallsAreRecords, AlikeCalls
<1>7. HandlesAreRecords' /\ HandlesAreLawful'
  BY <1>2 DEF DaemonInv, HandlesAreRecords, HandlesAreLawful
<1>. QED  BY <1>1, <1>2, <1>5, <1>6, <1>7, CallStep DEF AlikeCalls
-----------------------------------------------------------------------------
\* The three ways in which most steps end: a return, a further question, a next step.
LEMMA EndStep ==
  ASSUME DaemonInv, NEW t \in Threads, NEW q, DOMAIN q = Fields, NEW good, Go(t, Over(q, good)),
         UNCHANGED <<fmode, files, handle>>
  PROVE  DaemonInv'
<1>1. DOMAIN Over(q, good) = Fields /\ Over(q, good).pc = "idle"
  BY Onward
<1>. QED  BY <1>1, LeaveStep

LEMMA QuestionStep ==
  ASSUME DaemonInv, NEW t \in Threads, th[t].pc # "idle", NEW r, NEW p, NEW w,
         Go(t, Asking(th[t], r, p, w)), UNCHANGED <<fmode, files, handle>>,
         Admits(fmode, r), w \notin {"created", "target"},
         w \in {"old", "dir", "into", "into.dir", "new", "new.dir"} => fmode \in 3..8
  PROVE  DaemonInv'
<1>1. DOMAIN th[t] = Fields /\ Lawful(fmode, th[t])
  BY DEF DaemonInv, CallsAreRecords
<1>. DEFINE q == Asking(th[t], r, p, w)
<1>2. /\ DOMAIN q = Fields /\ q.pc = "ask" /\ q.req = r /\ q.then = w
      /\ q.op = th[t].op /\ q.path = th[t].path
  BY <1>1, Onward
<1>3. Go(t, q)
  OBVIOUS
<1>. HIDE DEF q
<1>4. Lawful(fmode, q)
  BY <1>1, <1>2 DEF Lawful
<1>. QED  BY <1>2, <1>3, <1>4, LeaveStep

LEMMA AheadStep ==
  ASSUME DaemonInv, NEW t \in Threads, th[t].pc # "idle", NEW q, DOMAIN q = Fields,
         q.op = th[t].op, q.path = th[t].path,
         Go(t, q), UNCHANGED <<fmode, files, handle>>,
         q.pc \in {"flush", "reread", "wait", "unlock", "drop", "idle"}
  PROVE  DaemonInv'
<1>1. DOMAIN th[t] = Fields /\ Lawful(fmode, th[t])
  BY DEF DaemonInv, CallsAreRecords
<1>2. Lawful(fmode, q)
  BY <1>1 DEF Lawful
<1>. QED  BY <1>2, LeaveStep

LEMMA NextStep ==
  ASSUME DaemonInv, NEW t \in Threads, th[t].pc # "idle", UNCHANGED <<fmode, files, handle>>,
         NEW pc \in {"flush", "reread", "wait"}, Go(t, [th[t] EXCEPT !.pc = pc])
  PROVE  DaemonInv'
<1>. DEFINE q == [th[t] EXCEPT !.pc = pc]
<1>1. DOMAIN q = Fields /\ q.op = th[t].op /\ q.path = th[t].path /\ q.pc = pc
  BY FieldNames DEF DaemonInv, CallsAreRecords
<1>2. Go(t, q)
  OBVIOUS
<1>. HIDE DEF q
<1>. QED  BY <1>1, <1>2, AheadStep

LEMMA HeardMode ==
  ASSUME DaemonInv, NEW t \in Threads, NEW w, Heard(t, w)
  PROVE  /\ th[t].pc = "heard" /\ DOMAIN th[t] = Fields /\ fmode \in {FullyWritable} \union Modes
         /\ w = "created" => fmode = FullyWritable
         /\ w = "target" => fmode = 8
         /\ w \in {"old", "dir", "into", "into.dir", "new", "new.dir"} => fmode \in 3..8
BY DEF Heard, At, DaemonInv, CallsAreRecords, Lawful

LEMMA StatIsAdmitted ==
  ASSUME DaemonInv
  PROVE  /\ Admits(fmode, "fs.stat") /\ Admits(fmode, "fs.list") /\ Admits(fmode, "fs.close")
         /\ fmode \in 3..8 => Admits(fmode, "fs.rename")
BY Lets DEF DaemonInv

\* A rename or move of a restricted mount: a chain of lookups.
LEMMA RenamingStep ==
  ASSUME DaemonInv, NEW t \in Threads, OldSeen(t) \/ DirectorySeen(t) \/ IntoSeen(t) \/ NewSeen(t)
  PROVE  DaemonInv'
<1>1. CASE OldSeen(t)
  <2>1. th[t].pc = "heard" /\ DOMAIN th[t] = Fields /\ fmode \in 3..8
    BY <1>1, HeardMode DEF OldSeen
  <2>2. UNCHANGED <<fmode, files, handle>>
    BY <1>1 DEF OldSeen, Quiet, Leave, Table
  <2>3. \/ Go(t, Over(th[t], FALSE)) \/ Go(t, Over(th[t], TRUE))
        \/ Go(t, Asking(th[t], "fs.stat", th[t].path, "dir"))
        \/ Go(t, Asking(th[t], "fs.stat", Parent(th[t].to), "into"))
    BY <1>1 DEF OldSeen
  <2>4. ASSUME NEW good, Go(t, Over(th[t], good)) PROVE DaemonInv'
    BY <2>1, <2>2, <2>4, EndStep
  <2>5. ASSUME NEW p, NEW w \in {"dir", "into"}, Go(t, Asking(th[t], "fs.stat", p, w)) PROVE DaemonInv'
    BY <2>1, <2>2, <2>5, QuestionStep, StatIsAdmitted
  <2>. QED  BY <2>3, <2>4, <2>5
<1>2. CASE DirectorySeen(t)
  <2>1. th[t].pc = "heard" /\ DOMAIN th[t] = Fields /\ fmode \in 3..8
    BY <1>2, HeardMode DEF DirectorySeen
  <2>2. UNCHANGED <<fmode, files, handle>>
    BY <1>2 DEF DirectorySeen, Quiet, Leave, Table
  <2>3. \/ Go(t, Over(th[t], FALSE))
        \/ Go(t, Asking(th[t], "fs.stat", th[t].to, "new.dir"))
        \/ Go(t, Asking(th[t], "fs.stat", Parent(th[t].to), "into.dir"))
    BY <1>2 DEF DirectorySeen
  <2>4. ASSUME NEW good, Go(t, Over(th[t], good)) PROVE DaemonInv'
    BY <2>1, <2>2, <2>4, EndStep
  <2>5. ASSUME NEW p, NEW w \in {"new.dir", "into.dir"}, Go(t, Asking(th[t], "fs.stat", p, w)) PROVE DaemonInv'
    BY <2>1, <2>2, <2>5, QuestionStep, StatIsAdmitted
  <2>. QED  BY <2>3, <2>4, <2>5
<1>3. CASE IntoSeen(t)
  <2>1. PICK kind \in {<<"into", "new">>, <<"into.dir", "new.dir">>} :
          /\ Heard(t, kind[1])
          /\ Go(t, Over(th[t], FALSE)) \/ Go(t, Asking(th[t], "fs.stat", th[t].to, kind[2]))
    BY <1>3 DEF IntoSeen
  <2>2. th[t].pc = "heard" /\ DOMAIN th[t] = Fields /\ fmode \in 3..8
    BY <2>1, HeardMode
  <2>3. UNCHANGED <<fmode, files, handle>>
    BY <1>3 DEF IntoSeen, Quiet, Leave, Table
  <2>4. CASE Go(t, Over(th[t], FALSE))
    BY <2>2, <2>3, <2>4, EndStep
  <2>5. CASE Go(t, Asking(th[t], "fs.stat", th[t].to, kind[2]))
    <3>1. kind[2] \notin {"created", "target"}
      OBVIOUS
    <3>. QED  BY <2>2, <2>3, <2>5, <3>1, QuestionStep, StatIsAdmitted
  <2>. QED  BY <2>1, <2>4, <2>5
<1>4. CASE NewSeen(t)
  <2>1. PICK kind \in {<<"new", "renamed">>, <<"new.dir", "changed">>} :
          /\ Heard(t, kind[1])
          /\ Go(t, Over(th[t], FALSE)) \/ Go(t, Asking(th[t], "fs.rename", th[t].path, kind[2]))
    BY <1>4 DEF NewSeen
  <2>2. th[t].pc = "heard" /\ DOMAIN th[t] = Fields /\ fmode \in 3..8
    BY <2>1, HeardMode
  <2>3. UNCHANGED <<fmode, files, handle>>
    BY <1>4 DEF NewSeen, Quiet, Leave, Table
  <2>4. CASE Go(t, Over(th[t], FALSE))
    BY <2>2, <2>3, <2>4, EndStep
  <2>5. CASE Go(t, Asking(th[t], "fs.rename", th[t].path, kind[2]))
    <3>1. kind[2] \notin {"created", "target"}
      OBVIOUS
    <3>. QED  BY <2>2, <2>3, <2>5, <3>1, QuestionStep, StatIsAdmitted
  <2>. QED  BY <2>1, <2>4, <2>5
<1>. QED  BY <1>1, <1>2, <1>3, <1>4

\* Answers and steps that leave the table alone.
LEMMA PlainStep ==
  ASSUME DaemonInv, NEW t \in Threads,
         Waited(t) \/ Seen(t) \/ Changed(t) \/ FlushDirs(t) \/ UnlockAgain(t)
           \/ (\E e \in Expired : List(t, e)) \/ Listed(t) \/ Reread(t)
  PROVE  DaemonInv'
<1>0. DOMAIN th[t] = Fields /\ Lawful(fmode, th[t])
  BY DEF DaemonInv, CallsAreRecords
<1>1. CASE Waited(t)
  <2>1. UNCHANGED <<fmode, files, handle>>
    BY <1>1 DEF Waited, Quiet, Leave, Table
  <2>2. \E q, good : DOMAIN q = Fields /\ Go(t, Over(q, good))
    <3>1. \A saw : DOMAIN [th[t] EXCEPT !.saw = saw] = Fields
      BY <1>0
    <3>. QED  BY <1>1, <3>1 DEF Waited, Found
  <2>. QED  BY <2>1, <2>2, EndStep
<1>2. CASE Seen(t)
  BY <1>0, <1>2, EndStep DEF Seen, Quiet, Leave, Table
<1>3. CASE Changed(t)
  <2>1. UNCHANGED <<fmode, files, handle>> /\ th[t].pc = "heard"
    BY <1>3 DEF Changed, Heard, At, Quiet, Leave, Table
  <2>2. Go(t, [th[t] EXCEPT !.pc = "flush"]) \/ Go(t, Over(th[t], FALSE))
    BY <1>3 DEF Changed
  <2>3. CASE Go(t, Over(th[t], FALSE))
    BY <1>0, <2>1, <2>3, EndStep
  <2>4. CASE Go(t, [th[t] EXCEPT !.pc = "flush"])
    BY <1>0, <2>1, <2>4, NextStep
  <2>. QED  BY <2>2, <2>3, <2>4
<1>4. CASE FlushDirs(t)
  <2>1. UNCHANGED <<fmode, files, handle>> /\ th[t].pc = "flush"
    BY <1>4 DEF FlushDirs, At, Quiet
  <2>2. Go(t, [th[t] EXCEPT !.pc = "unlock", !.good = TRUE]) \/ Go(t, Over(th[t], TRUE))
    BY <1>4 DEF FlushDirs, Return
  <2>3. /\ DOMAIN [th[t] EXCEPT !.pc = "unlock", !.good = TRUE] = Fields
        /\ [th[t] EXCEPT !.pc = "unlock", !.good = TRUE].pc = "unlock"
        /\ [th[t] EXCEPT !.pc = "unlock", !.good = TRUE].op = th[t].op
        /\ [th[t] EXCEPT !.pc = "unlock", !.good = TRUE].path = th[t].path
    BY <1>0, FieldNames
  <2>4. CASE Go(t, Over(th[t], TRUE))
    BY <1>0, <2>1, <2>4, EndStep
  <2>5. CASE Go(t, [th[t] EXCEPT !.pc = "unlock", !.good = TRUE])
    BY <2>1, <2>3, <2>5, AheadStep
  <2>. QED  BY <2>2, <2>4, <2>5
<1>5. CASE UnlockAgain(t)
  BY <1>0, <1>5, EndStep DEF UnlockAgain, Quiet, Leave, Table
<1>6. ASSUME NEW e \in Expired, List(t, e) PROVE DaemonInv'
  <2>1. UNCHANGED <<fmode, files, handle>> /\ th[t].pc = "list"
    BY <1>6 DEF List, At, Quiet, Leave, Table
  <2>2. Go(t, Over(th[t], TRUE)) \/ Go(t, Asking(th[t], "fs.list", th[t].path, "listed"))
    BY <1>6 DEF List
  <2>3. CASE Go(t, Over(th[t], TRUE))
    BY <1>0, <2>1, <2>3, EndStep
  <2>4. CASE Go(t, Asking(th[t], "fs.list", th[t].path, "listed"))
    <3>1. Admits(fmode, "fs.list")
      BY StatIsAdmitted
    <3>2. \A w \in {"listed"} : w \notin {"created", "target", "old", "dir", "into", "into.dir", "new", "new.dir"}
      OBVIOUS
    <3>. QED  BY <2>1, <2>4, <3>1, <3>2, QuestionStep
  <2>. QED  BY <2>2, <2>3, <2>4
<1>7. CASE Listed(t)
  <2>1. UNCHANGED <<fmode, files, handle>> /\ th[t].pc = "heard"
    BY <1>7 DEF Listed, Heard, At, Quiet
  <2>2. Go(t, [th[t] EXCEPT !.pc = "reread"]) \/ Go(t, Over(th[t], FALSE))
    BY <1>7 DEF Listed
  <2>3. CASE Go(t, Over(th[t], FALSE))
    BY <1>0, <2>1, <2>3, EndStep
  <2>4. CASE Go(t, [th[t] EXCEPT !.pc = "reread"])
    BY <1>0, <2>1, <2>4, NextStep
  <2>. QED  BY <2>2, <2>3, <2>4
<1>8. CASE Reread(t)
  <2>1. UNCHANGED <<fmode, files, handle>>
    BY <1>8 DEF Reread, Quiet, Leave, Table
  <2>2. CASE Go(t, Over(th[t], TRUE))
    BY <1>0, <2>1, <2>2, EndStep
  <2>3. CASE UNCHANGED th
    <3>1. CallsAreRecords' /\ HandlesAreRecords' /\ HandlesAreLawful'
      BY <2>1, <2>3 DEF DaemonInv, CallsAreRecords, HandlesAreRecords, HandlesAreLawful
    <3>2. InHand'
      BY <2>1, <2>3 DEF DaemonInv, InHand, Writes
    <3>. QED  BY <2>1, <2>3, <3>1, <3>2 DEF DaemonInv
  <2>. QED  BY <1>8, <2>2, <2>3 DEF Reread
<1>. QED  BY <1>1, <1>2, <1>3, <1>4, <1>5, <1>6, <1>7, <1>8
-----------------------------------------------------------------------------
\* The steps that change the table.
LEMMA TableStep ==
  ASSUME DaemonInv, NEW t \in Threads, NEW q, DOMAIN q = Fields, Go(t, q), UNCHANGED fmode,
         HandlesAreRecords', HandlesAreLawful',
         \A h \in Held \intersect Handles : handle[h].staged => handle'[h].staged,
         q.pc # "idle" => q.path \in Paths /\ Lawful(fmode, q),
         q.pc \in {"enter", "close"} => q.h \in Handles \ {None},
         q.pc = "put" /\ Writes(q) => q.h \in Handles,
         q.pc = "enter" /\ q.op \in {"write", "truncate"} /\ fmode # FullyWritable => handle'[q.h].staged
  PROVE  DaemonInv'
<1>1. /\ CallsAreRecords'
      /\ \A u \in Threads \ {t} : AlikeCalls(th'[u], th[u])
      /\ q.pc # "idle" => AlikeCalls(th'[t], q)
      /\ q.pc = "idle" => th'[t].pc = "idle"
  BY IPCGoEffect DEF DaemonInv
<1>. QED  BY <1>1, CallStep

\* An entry is set or taken away, and a handle nobody holds is made anew.
LEMMA EntrySet ==
  ASSUME DaemonInv, NEW p, NEW h \in Handles \union {None}, UNCHANGED <<fmode, handle>>,
         files' = [files EXCEPT ![p] = h]
  PROVE  HandlesAreRecords' /\ HandlesAreLawful'
BY DEF DaemonInv, HandlesAreRecords, HandlesAreLawful

LEMMA HandleMade ==
  ASSUME DaemonInv, NEW p, NEW h \in Unused, NEW new, DOMAIN new = DOMAIN NewHandle, UNCHANGED fmode,
         files' = [files EXCEPT ![p] = h], handle' = [handle EXCEPT ![h] = new],
         new.dirty => fmode = FullyWritable, new.staged => fmode = 8
  PROVE  /\ HandlesAreRecords' /\ HandlesAreLawful'
         /\ \A g \in Held \intersect Handles : handle[g].staged => handle'[g].staged
<1>1. h \in Handles /\ h \notin Held
  BY DEF Unused
<1>2. HandlesAreRecords'
  BY <1>1 DEF DaemonInv, HandlesAreRecords
<1>3. \A g \in Handles : handle'[g] = IF g = h THEN new ELSE handle[g]
  BY <1>1 DEF DaemonInv, HandlesAreRecords
<1>. QED  BY <1>1, <1>2, <1>3 DEF DaemonInv, HandlesAreLawful

\* What is known of a thread that is about to take a step.
LEMMA AtHand ==
  ASSUME DaemonInv, NEW t \in Threads
  PROVE  /\ DOMAIN th[t] = Fields /\ Lawful(fmode, th[t]) /\ fmode \in {FullyWritable} \union Modes
         /\ th[t].pc # "idle" => th[t].path \in Paths
         /\ \A p \in Paths : files[p] \in Handles \union {None}
         /\ \A h \in Handles : DOMAIN handle[h] = DOMAIN NewHandle
BY DEF DaemonInv, CallsAreRecords, HandlesAreRecords

LEMMA LookStep ==
  ASSUME DaemonInv, NEW t \in Threads, Look(t)
  PROVE  DaemonInv'
<1>1. th[t].pc = "look" /\ th[t].path \in Paths /\ UNCHANGED fmode
  BY AtHand DEF Look, At, Quiet
<1>. DEFINE h == files[th[t].path]
<1>2. CASE ~Writes(th[t])
  <2>1. UNCHANGED <<fmode, files, handle>>
    BY <1>1, <1>2 DEF Look, Leave, Table
  <2>2. Go(t, Opened(th[t])) \/ Go(t, [th[t] EXCEPT !.pc = "put"])
    BY <1>2 DEF Look
  <2>3. CASE Go(t, Opened(th[t])) /\ th[t].op \in Opens
    BY <2>1, <2>3, AtHand, EndStep DEF Opened
  <2>4. CASE Go(t, Opened(th[t])) /\ th[t].op \notin Opens
    <3>. DEFINE q == [th[t] EXCEPT !.pc = "refind"]
    <3>1. Go(t, q)
      BY <2>4 DEF Opened
    <3>2. DOMAIN q = Fields /\ q.op = th[t].op /\ q.path = th[t].path /\ q.pc = "refind"
      BY AtHand, Onward
    <3>. HIDE DEF q
    <3>3. Lawful(fmode, q)
      BY <1>1, <1>2, <3>2, AtHand DEF Lawful, Writes
    <3>. QED  BY <1>1, <2>1, <3>1, <3>2, <3>3, LeaveStep
  <2>5. CASE Go(t, [th[t] EXCEPT !.pc = "put"])
    <3>. DEFINE q == [th[t] EXCEPT !.pc = "put"]
    <3>1. Go(t, q)
      BY <2>5
    <3>2. DOMAIN q = Fields /\ q.op = th[t].op /\ q.path = th[t].path /\ q.pc = "put"
      BY AtHand, Onward
    <3>. HIDE DEF q
    <3>3. Lawful(fmode, q)
      BY <1>1, <3>2, AtHand DEF Lawful
    <3>4. ~Writes(q)
      BY <1>2, <3>2 DEF Writes
    <3>. QED  BY <1>1, <2>1, <3>1, <3>2, <3>3, <3>4, LeaveStep
  <2>. QED  BY <2>2, <2>3, <2>4, <2>5
<1>3. CASE Writes(th[t]) /\ h # None
  <2>. DEFINE q == [th[t] EXCEPT !.pc = "put", !.h = h]
  <2>1. fmode = FullyWritable
    BY <1>1, <1>3, AtHand DEF Lawful, Writes
  <2>2. Go(t, q) /\ files' = files /\ handle' = [handle EXCEPT ![h].dirty = TRUE]
    BY <1>3 DEF Look, Table
  <2>3. DOMAIN q = Fields /\ q.op = th[t].op /\ q.path = th[t].path /\ q.pc = "put" /\ q.h = h
    BY AtHand, FieldNames
  <2>4. h \in Handles
    BY <1>1, <1>3, AtHand
  <2>. HIDE DEF q, h
  <2>5. Lawful(fmode, q)
    BY <2>1, <2>3, AtHand, Lets DEF Lawful, FullyWritable
  <2>6. HandlesAreRecords' /\ HandlesAreLawful'
        /\ \A g \in Held \intersect Handles : handle[g].staged => handle'[g].staged
    <3>1. \A g \in Handles : /\ DOMAIN handle'[g] = DOMAIN NewHandle /\ handle'[g].staged = handle[g].staged
      BY <2>2, <2>4 DEF DaemonInv, HandlesAreRecords, NewHandle
    <3>2. HandlesAreRecords'
      BY <2>2, <3>1 DEF DaemonInv, HandlesAreRecords
    <3>. QED  BY <1>1, <2>1, <3>1, <3>2 DEF DaemonInv, HandlesAreLawful
  <2>. QED  BY <1>1, <2>2, <2>3, <2>4, <2>5, <2>6, TableStep
<1>4. CASE Writes(th[t]) /\ h = None
  <2>. DEFINE q == Asking(th[t], "fs.create", th[t].path, "created")
  <2>1. fmode = FullyWritable
    BY <1>1, <1>4, AtHand DEF Lawful, Writes
  <2>2. Go(t, q) /\ UNCHANGED <<fmode, files, handle>>
    BY <1>1, <1>4 DEF Look, Leave, Table
  <2>3. /\ DOMAIN q = Fields /\ q.op = th[t].op /\ q.path = th[t].path /\ q.pc = "ask"
        /\ q.req = "fs.create" /\ q.then = "created"
    BY AtHand, Onward
  <2>. HIDE DEF q
  <2>4. Lawful(fmode, q)
    BY <2>1, <2>3, AtHand, Lets DEF Lawful
  <2>. QED  BY <1>1, <2>2, <2>3, <2>4, LeaveStep
<1>. QED  BY <1>2, <1>3, <1>4

\* A call that has found or made its handle returns or goes on to it.
LEMMA OpenedIs ==
  ASSUME NEW q, DOMAIN q = Fields, NEW m, Lawful(m, q), q.op \in {"write", "truncate"} => m = FullyWritable
  PROVE  /\ DOMAIN Opened(q) = Fields /\ Opened(q).pc \in {"idle", "refind"}
         /\ Opened(q).pc # "idle" => Opened(q).path = q.path /\ Lawful(m, Opened(q))
<1>1. CASE q.op \in Opens
  BY <1>1, FieldNames DEF Opened, Over
<1>2. CASE q.op \notin Opens
  <2>. DEFINE r == [q EXCEPT !.pc = "refind"]
  <2>1. Opened(q) = r
    BY <1>2 DEF Opened
  <2>2. DOMAIN r = Fields /\ r.pc = "refind" /\ r.path = q.path /\ r.op = q.op
    BY Onward
  <2>. HIDE DEF r
  <2>3. Lawful(m, r)
    BY <1>2, <2>2 DEF Lawful, Opens
  <2>. QED  BY <2>1, <2>2, <2>3
<1>. QED  BY <1>1, <1>2

LEMMA PutStep ==
  ASSUME DaemonInv, NEW t \in Threads, Put(t)
  PROVE  DaemonInv'
<1>1. th[t].pc = "put" /\ th[t].path \in Paths /\ UNCHANGED fmode
  BY AtHand DEF Put, At, Quiet
<1>2. /\ DOMAIN Opened(th[t]) = Fields /\ Opened(th[t]).pc \in {"idle", "refind"}
      /\ Opened(th[t]).pc # "idle" => Opened(th[t]).path = th[t].path /\ Lawful(fmode, Opened(th[t]))
  <2>1. th[t].op \in {"write", "truncate"} => fmode = FullyWritable
    BY <1>1, AtHand DEF Lawful
  <2>. QED  BY <2>1, AtHand, OpenedIs
<1>3. CASE Writes(th[t])
  <2>. DEFINE q == [Opened(th[t]) EXCEPT !.h = None]
  <2>1. Go(t, q) /\ files' = [files EXCEPT ![th[t].path] = th[t].h] /\ UNCHANGED handle
    BY <1>3 DEF Put, Table
  <2>2. /\ DOMAIN q = Fields /\ q.pc \in {"idle", "refind"} /\ q.pc = Opened(th[t]).pc
        /\ q.path = Opened(th[t]).path /\ q.op = Opened(th[t]).op
        /\ q.req = Opened(th[t]).req /\ q.then = Opened(th[t]).then
    BY <1>2, FieldNames
  <2>. HIDE DEF q
  <2>3. q.pc # "idle" => Lawful(fmode, q)
    BY <1>2, <2>2 DEF Lawful
  <2>4. HandlesAreRecords' /\ HandlesAreLawful'
    <3>1. th[t].h \in Handles
      BY <1>1, <1>3 DEF DaemonInv, InHand
    <3>. QED  BY <1>1, <2>1, <3>1, EntrySet
  <2>. QED  BY <1>1, <1>2, <2>1, <2>2, <2>3, <2>4, TableStep
<1>4. CASE ~Writes(th[t])
  <2>1. PICK h \in Unused :
          /\ Go(t, Opened(th[t])) /\ files' = [files EXCEPT ![th[t].path] = h]
          /\ handle' = [handle EXCEPT ![h] = [NewHandle EXCEPT !.path = th[t].path, !.file = th[t].path, !.dl = "asking"]]
    BY <1>4 DEF Put, Table
  <2>. DEFINE new == [NewHandle EXCEPT !.path = th[t].path, !.file = th[t].path, !.dl = "asking"]
  <2>2. DOMAIN new = DOMAIN NewHandle /\ ~new.dirty /\ ~new.staged
    BY DEF NewHandle
  <2>3. handle' = [handle EXCEPT ![h] = new]
    BY <2>1
  <2>. HIDE DEF new
  <2>4. /\ HandlesAreRecords' /\ HandlesAreLawful'
        /\ \A g \in Held \intersect Handles : handle[g].staged => handle'[g].staged
    BY <1>1, <2>1, <2>2, <2>3, HandleMade
  <2>. QED  BY <1>1, <1>2, <2>1, <2>4, TableStep
<1>. QED  BY <1>3, <1>4

LEMMA CreatedStep ==
  ASSUME DaemonInv, NEW t \in Threads, Created(t)
  PROVE  DaemonInv'
<1>1. th[t].pc = "heard" /\ fmode = FullyWritable /\ th[t].path \in Paths /\ UNCHANGED fmode
  BY AtHand, HeardMode DEF Created, Quiet
<1>2. CASE ~th[t].good
  <2>1. Go(t, Over(th[t], FALSE)) /\ UNCHANGED <<files, handle>>
    BY <1>2 DEF Created, Leave, Table
  <2>. QED  BY <1>1, <2>1, AtHand, EndStep
<1>3. CASE th[t].good
  <2>1. PICK h \in Unused :
          /\ Go(t, Opened(th[t])) /\ files' = [files EXCEPT ![th[t].path] = h]
          /\ handle' = [handle EXCEPT ![h] = [NewHandle EXCEPT !.path = th[t].path, !.file = th[t].path, !.dirty = TRUE]]
    BY <1>3 DEF Created, Table
  <2>. DEFINE new == [NewHandle EXCEPT !.path = th[t].path, !.file = th[t].path, !.dirty = TRUE]
  <2>2. DOMAIN new = DOMAIN NewHandle /\ ~new.staged
    BY DEF NewHandle
  <2>3. handle' = [handle EXCEPT ![h] = new]
    BY <2>1
  <2>. HIDE DEF new
  <2>4. /\ HandlesAreRecords' /\ HandlesAreLawful'
        /\ \A g \in Held \intersect Handles : handle[g].staged => handle'[g].staged
    BY <1>1, <2>1, <2>2, <2>3, HandleMade
  <2>5. /\ DOMAIN Opened(th[t]) = Fields /\ Opened(th[t]).pc \in {"idle", "refind"}
        /\ Opened(th[t]).pc # "idle" => Opened(th[t]).path = th[t].path /\ Lawful(fmode, Opened(th[t]))
    BY <1>1, AtHand, OpenedIs
  <2>. QED  BY <1>1, <2>1, <2>4, <2>5, TableStep
<1>. QED  BY <1>2, <1>3

LEMMA TargetStep ==
  ASSUME DaemonInv, NEW t \in Threads, TargetSeen(t)
  PROVE  DaemonInv'
<1>1. th[t].pc = "heard" /\ fmode = 8 /\ UNCHANGED fmode
  BY AtHand, HeardMode DEF TargetSeen, Quiet
<1>2. CASE th[t].good /\ ~(th[t].op = "openw" /\ th[t].over)
  <2>1. Go(t, Over(th[t], FALSE)) /\ UNCHANGED <<files, handle>>
    BY <1>2 DEF TargetSeen, Leave, Table
  <2>. QED  BY <1>1, <2>1, AtHand, EndStep
<1>3. CASE ~(th[t].good /\ ~(th[t].op = "openw" /\ th[t].over))
  <2>1. PICK h \in Unused :
          /\ Go(t, Over(th[t], TRUE)) /\ files' = [files EXCEPT ![th[t].path] = h]
          /\ handle' = [handle EXCEPT ![h] = [NewHandle EXCEPT !.path = th[t].path, !.staged = TRUE, !.disk = TRUE]]
    BY <1>3 DEF TargetSeen, Table
  <2>. DEFINE new == [NewHandle EXCEPT !.path = th[t].path, !.staged = TRUE, !.disk = TRUE]
  <2>2. DOMAIN new = DOMAIN NewHandle /\ ~new.dirty
    BY DEF NewHandle
  <2>3. handle' = [handle EXCEPT ![h] = new]
    BY <2>1
  <2>. HIDE DEF new
  <2>4. /\ HandlesAreRecords' /\ HandlesAreLawful'
        /\ \A g \in Held \intersect Handles : handle[g].staged => handle'[g].staged
    BY <1>1, <2>1, <2>2, <2>3, HandleMade
  <2>. DEFINE q == Over(th[t], TRUE)
  <2>5. Go(t, q)
    BY <2>1
  <2>6. DOMAIN q = Fields /\ q.pc = "idle"
    BY AtHand, FieldNames DEF Over
  <2>. HIDE DEF q
  <2>. QED  BY <1>1, <2>4, <2>5, <2>6, TableStep
<1>. QED  BY <1>2, <1>3

\* A handle found by path: a restricted mount writes to staged ones only.
LEMMA FindStep ==
  ASSUME DaemonInv, NEW t \in Threads, Find(t)
  PROVE  DaemonInv'
<1>. DEFINE h == files[th[t].path]
            enter == [th[t] EXCEPT !.pc = "enter", !.h = h]
            lock == [th[t] EXCEPT !.pc = "lock"]
<1>1. /\ th[t].pc \in {"find", "refind"} /\ th[t].path \in Paths /\ UNCHANGED <<fmode, files, handle>>
      /\ h \in Handles \union {None}
  BY AtHand DEF Find, Quiet, Leave, Table
<1>2. \/ Go(t, enter) /\ h # None /\ (th[t].op \in {"write", "truncate"} /\ Restricted => handle[h].staged)
      \/ Go(t, Over(th[t], FALSE)) \/ Go(t, Over(th[t], TRUE))
      \/ Go(t, lock) /\ (th[t].op \in {"read", "peek"} \/ (th[t].op = "write" /\ ~Restricted))
      \/ Go(t, Asking(th[t], "fs.stat", th[t].path, "seen"))
  <2>1. CASE th[t].op \in {"write", "truncate"} /\ Restricted
    <3>1. Go(t, IF May(th[t], h) THEN enter ELSE Over(th[t], FALSE))
      BY <2>1 DEF Find
    <3>. QED  BY <3>1 DEF May
  <2>2. CASE ~(th[t].op \in {"write", "truncate"} /\ Restricted) /\ h # None
    <3>1. Go(t, IF th[t].op = "flush" /\ handle[h].staged THEN Over(th[t], TRUE) ELSE enter)
      BY <2>2 DEF Find
    <3>. QED  BY <2>2, <3>1
  <2>3. CASE ~(th[t].op \in {"write", "truncate"} /\ Restricted) /\ h = None
    <3>1. CASE th[t].op \in {"read", "peek", "write"}
      <4>1. Go(t, IF th[t].pc = "refind" THEN Over(th[t], FALSE) ELSE lock)
        BY <2>3, <3>1 DEF Find
      <4>. QED  BY <2>3, <3>1, <4>1
    <3>2. CASE th[t].op = "getattr"
      BY <2>3, <3>2 DEF Find
    <3>3. CASE th[t].op \notin {"read", "peek", "write", "getattr"}
      BY <2>3, <3>3 DEF Find
    <3>. QED  BY <3>1, <3>2, <3>3
  <2>. QED  BY <2>1, <2>2, <2>3
<1>3. /\ DOMAIN enter = Fields /\ enter.pc = "enter" /\ enter.h = h
      /\ enter.op = th[t].op /\ enter.path = th[t].path
      /\ DOMAIN lock = Fields /\ lock.pc = "lock" /\ lock.op = th[t].op /\ lock.path = th[t].path
  BY AtHand, FieldNames
<1>. HIDE DEF enter, lock, h
<1>4. CASE Go(t, enter) /\ h # None /\ (th[t].op \in {"write", "truncate"} /\ Restricted => handle[h].staged)
  <2>1. Lawful(fmode, enter)
    BY <1>1, <1>3, AtHand DEF Lawful
  <2>. QED  BY <1>1, <1>3, <1>4, <2>1, LeaveStep DEF Restricted
<1>5. ASSUME NEW good, Go(t, Over(th[t], good)) PROVE DaemonInv'
  BY <1>1, <1>5, AtHand, EndStep
<1>6. CASE Go(t, lock) /\ (th[t].op \in {"read", "peek"} \/ (th[t].op = "write" /\ ~Restricted))
  <2>1. Lawful(fmode, lock)
    BY <1>1, <1>3, <1>6, AtHand DEF Lawful, Restricted
  <2>. QED  BY <1>1, <1>3, <1>6, <2>1, LeaveStep
<1>7. CASE Go(t, Asking(th[t], "fs.stat", th[t].path, "seen"))
  <2>1. Admits(fmode, "fs.stat")
    BY StatIsAdmitted
  <2>2. \A w \in {"seen"} : w \notin {"created", "target", "old", "dir", "into", "into.dir", "new", "new.dir"}
    OBVIOUS
  <2>. QED  BY <1>1, <1>7, <2>1, <2>2, QuestionStep
<1>. QED  BY <1>2, <1>4, <1>5, <1>6, <1>7

\* A handle is changed in something else than staged, and not made dirty unless it may be.
LEMMA HandleChanged ==
  ASSUME DaemonInv, NEW h, NEW new, UNCHANGED <<fmode, files>>, handle' = [handle EXCEPT ![h] = new],
         h \in Handles => /\ DOMAIN new = DOMAIN NewHandle /\ new.staged = handle[h].staged
                          /\ new.dirty => handle[h].dirty \/ fmode = FullyWritable
  PROVE  /\ HandlesAreRecords' /\ HandlesAreLawful'
         /\ \A g \in Held \intersect Handles : handle[g].staged => handle'[g].staged
<1>1. \A g \in Handles : handle'[g] = IF g = h THEN new ELSE handle[g]
  BY DEF DaemonInv, HandlesAreRecords
<1>2. HandlesAreRecords'
  BY <1>1 DEF DaemonInv, HandlesAreRecords
<1>. QED  BY <1>1, <1>2 DEF DaemonInv, HandlesAreLawful

LEMMA EnterStep ==
  ASSUME DaemonInv, NEW t \in Threads, Enter(t)
  PROVE  DaemonInv'
<1>. DEFINE h == th[t].h
            q == [th[t] EXCEPT !.wrote = (th[t].op = "write")]
<1>1. /\ th[t].pc = "enter" /\ UNCHANGED fmode /\ DOMAIN th[t] = Fields /\ h \in Handles
      /\ th[t].op \in {"write", "truncate"} /\ fmode # FullyWritable => handle[h].staged
      /\ DOMAIN handle[h] = DOMAIN NewHandle /\ (handle[h].dirty => fmode = FullyWritable)
  <2>1. th[t].pc = "enter"
    BY DEF Enter, At
  <2>2. UNCHANGED fmode
    BY DEF Enter, Uses, Quiet
  <2>. QED  BY <2>1, <2>2, AtHand DEF DaemonInv, InHand, HandlesAreLawful
<1>2. CASE UNCHANGED <<files, handle>> /\ \E good : Go(t, Over(th[t], good))
  BY <1>1, <1>2, EndStep
<1>3. CASE UNCHANGED <<files, handle>> /\ Go(t, Found(th[t], h))
  <2>1. \A saw : DOMAIN [th[t] EXCEPT !.saw = saw] = Fields
    BY <1>1
  <2>2. \E r, good : DOMAIN r = Fields /\ Go(t, Over(r, good))
    BY <1>3, <2>1 DEF Found
  <2>. QED  BY <1>1, <1>3, <2>2, EndStep
<1>4. CASE UNCHANGED <<files, handle>> /\ Go(t, [th[t] EXCEPT !.pc = "wait"])
  BY <1>1, <1>4, NextStep
<1>5. CASE /\ UNCHANGED <<files, handle>> /\ handle[h].dirty
           /\ Go(t, Asking(th[t], "fs.markDirty", th[t].path, "marked"))
  <2>1. Admits(fmode, "fs.markDirty")
    BY <1>1, <1>5, AtHand, Lets
  <2>2. \A w \in {"marked"} : w \notin {"created", "target", "old", "dir", "into", "into.dir", "new", "new.dir"}
    OBVIOUS
  <2>. QED  BY <1>1, <1>5, <2>1, <2>2, QuestionStep
<1>6. CASE th[t].op \in {"write", "truncate"} /\ UNCHANGED files /\ Go(t, Over(q, TRUE))
           /\ \/ handle[h].staged /\ \E text : handle' = [handle EXCEPT ![h].text = text]
              \/ ~handle[h].staged /\ handle' = [handle EXCEPT ![h].dirty = TRUE]
  <2>1. DOMAIN q = Fields
    BY <1>1
  <2>. HIDE DEF q
  <2>. DEFINE r == Over(q, TRUE)
  <2>2. DOMAIN r = Fields /\ r.pc = "idle"
    BY <2>1, FieldNames DEF Over
  <2>3. Go(t, r)
    BY <1>6
  <2>. HIDE DEF r
  <2>4. HandlesAreRecords' /\ HandlesAreLawful'
        /\ \A g \in Held \intersect Handles : handle[g].staged => handle'[g].staged
    <3>1. CASE \E text : handle' = [handle EXCEPT ![h].text = text]
      <4>1. PICK text : handle' = [handle EXCEPT ![h].text = text]
        BY <3>1
      <4>. DEFINE new == [handle[h] EXCEPT !.text = text]
      <4>2. handle' = [handle EXCEPT ![h] = new]
        BY <4>1
      <4>3. DOMAIN new = DOMAIN NewHandle /\ new.staged = handle[h].staged /\ new.dirty = handle[h].dirty
        BY <1>1 DEF NewHandle
      <4>. HIDE DEF new
      <4>. QED  BY <1>1, <1>6, <4>2, <4>3, HandleChanged
    <3>2. CASE ~handle[h].staged /\ handle' = [handle EXCEPT ![h].dirty = TRUE]
      <4>. DEFINE new == [handle[h] EXCEPT !.dirty = TRUE]
      <4>1. handle' = [handle EXCEPT ![h] = new]
        BY <3>2
      <4>2. DOMAIN new = DOMAIN NewHandle /\ new.staged = handle[h].staged
        BY <1>1 DEF NewHandle
      <4>. HIDE DEF new
      <4>3. fmode = FullyWritable
        BY <1>1, <1>6, <3>2
      <4>. QED  BY <1>1, <1>6, <4>1, <4>2, <4>3, HandleChanged
    <3>. QED  BY <1>6, <3>1, <3>2
  <2>. QED  BY <1>1, <2>2, <2>3, <2>4, TableStep
<1>7. CASE th[t].op \in {"read", "peek"} /\ handle[h].dl \in {"asking", "loading"}
  <2>1. UNCHANGED <<files, handle>> /\ Go(t, [th[t] EXCEPT !.pc = "wait"])
    BY <1>7 DEF Enter, Leave, Table
  <2>. QED  BY <1>4, <2>1
<1>8. CASE ~(th[t].op \in {"read", "peek"} /\ handle[h].dl \in {"asking", "loading"})
  <2>1. Uses(t)
    BY <1>8 DEF Enter
  <2>2. CASE th[t].op = "getattr"
    <3>1. UNCHANGED <<files, handle>> /\ Go(t, Over(th[t], TRUE))
      BY <2>1, <2>2 DEF Uses, Leave, Table
    <3>. QED  BY <1>2, <3>1
  <2>3. CASE th[t].op = "flush"
    <3>1. /\ UNCHANGED <<files, handle>>
          /\ Go(t, IF handle[h].dirty THEN Asking(th[t], "fs.markDirty", th[t].path, "marked") ELSE Over(th[t], TRUE))
      BY <2>1, <2>3 DEF Uses, Leave, Table
    <3>. QED  BY <1>2, <1>5, <3>1
  <2>4. CASE th[t].op \in {"write", "truncate"} /\ ~OnDisk(h)
    <3>1. UNCHANGED <<files, handle>> /\ Go(t, Over(th[t], FALSE))
      BY <2>1, <2>4 DEF Uses, Leave, Table
    <3>. QED  BY <1>2, <3>1
  <2>5. CASE th[t].op \in {"write", "truncate"} /\ OnDisk(h)
    <3>. DEFINE text(old) == IF th[t].op = "write" THEN old \union {t} ELSE {}
    <3>1. /\ Go(t, Over(q, TRUE))
          /\ IF handle[h].staged
             THEN Table(files, [handle EXCEPT ![h].text = text(@)])
             ELSE Table(files, [handle EXCEPT ![h].dirty = TRUE])
      BY <2>1, <2>5 DEF Uses
    <3>2. handle[h].staged => handle' = [handle EXCEPT ![h].text = text(handle[h].text)]
      BY <1>1, <3>1 DEF Table, NewHandle
    <3>. HIDE DEF text
    <3>3. \/ handle[h].staged /\ \E new : handle' = [handle EXCEPT ![h].text = new]
          \/ ~handle[h].staged /\ handle' = [handle EXCEPT ![h].dirty = TRUE]
      BY <3>1, <3>2 DEF Table
    <3>4. UNCHANGED files
      BY <3>1 DEF Table
    <3>. QED  BY <1>6, <2>5, <3>1, <3>3, <3>4
  <2>6. CASE th[t].op \notin {"getattr", "flush", "write", "truncate"}
    <3>1. UNCHANGED <<files, handle>> /\ Go(t, Found(th[t], h))
      BY <2>1, <2>6 DEF Uses, Leave, Table
    <3>. QED  BY <1>3, <3>1
  <2>. QED  BY <2>2, <2>3, <2>4, <2>5, <2>6
<1>. QED  BY <1>7, <1>8

\* The answer to fs.markDirty makes a handle clean, that of fs.uploadStaged takes its file.
LEMMA AnsweredStep ==
  ASSUME DaemonInv, NEW t \in Threads, Marked(t) \/ Sent(t)
  PROVE  DaemonInv'
<1>. DEFINE h == th[t].h
            q == IF Marked(t) THEN Over(th[t], th[t].good)
                 ELSE IF th[t].good THEN [th[t] EXCEPT !.pc = "flush"] ELSE Over(th[t], FALSE)
<1>1. /\ th[t].pc = "heard" /\ UNCHANGED <<fmode, files>> /\ DOMAIN th[t] = Fields
      /\ th[t].path \in Paths /\ Lawful(fmode, th[t])
  <2>1. th[t].pc = "heard" /\ UNCHANGED <<fmode, files>>
    BY DEF Marked, Sent, Heard, At, Quiet, Table
  <2>. QED  BY <2>1, AtHand
<1>2. /\ Go(t, q)
      /\ \/ handle' = handle \/ handle' = [handle EXCEPT ![h].dirty = FALSE]
         \/ handle' = [handle EXCEPT ![h].disk = FALSE]
  BY DEF Marked, Sent, Table
<1>3. DOMAIN q = Fields /\ q.pc \in {"idle", "flush"} /\ (q.pc # "idle" => q.path = th[t].path /\ q.op = th[t].op)
  BY <1>1, FieldNames DEF Over
<1>. HIDE DEF q
<1>4. q.pc # "idle" => Lawful(fmode, q)
  BY <1>1, <1>3 DEF Lawful
<1>5. HandlesAreRecords' /\ HandlesAreLawful'
      /\ \A g \in Held \intersect Handles : handle[g].staged => handle'[g].staged
  <2>1. CASE handle' = handle
    BY <1>1, <2>1 DEF DaemonInv, HandlesAreRecords, HandlesAreLawful
  <2>2. CASE handle' = [handle EXCEPT ![h].dirty = FALSE]
    <3>. DEFINE new == [handle[h] EXCEPT !.dirty = FALSE]
    <3>1. handle' = [handle EXCEPT ![h] = new]
      BY <2>2
    <3>2. h \in Handles => DOMAIN new = DOMAIN NewHandle /\ new.staged = handle[h].staged /\ ~new.dirty
      BY AtHand DEF NewHandle
    <3>. HIDE DEF new
    <3>. QED  BY <1>1, <3>1, <3>2, HandleChanged
  <2>3. CASE handle' = [handle EXCEPT ![h].disk = FALSE]
    <3>. DEFINE new == [handle[h] EXCEPT !.disk = FALSE]
    <3>1. handle' = [handle EXCEPT ![h] = new]
      BY <2>3
    <3>2. h \in Handles => DOMAIN new = DOMAIN NewHandle /\ new.staged = handle[h].staged /\ new.dirty = handle[h].dirty
      BY AtHand DEF NewHandle
    <3>. HIDE DEF new
    <3>. QED  BY <1>1, <3>1, <3>2, HandleChanged
  <2>. QED  BY <1>2, <2>1, <2>2, <2>3
<1>. QED  BY <1>1, <1>2, <1>3, <1>4, <1>5, TableStep

LEMMA DropStep ==
  ASSUME DaemonInv, NEW t \in Threads, Drop(t)
  PROVE  DaemonInv'
<1>. DEFINE h == files[th[t].path]
            q == IF h = None THEN Over(th[t], TRUE) ELSE [th[t] EXCEPT !.pc = "close", !.h = h]
<1>1. th[t].pc = "drop" /\ th[t].path \in Paths /\ UNCHANGED fmode /\ DOMAIN th[t] = Fields /\ Lawful(fmode, th[t])
  BY AtHand DEF Drop, At, Quiet
<1>2. Go(t, q) /\ files' = [files EXCEPT ![th[t].path] = None] /\ UNCHANGED handle
  BY DEF Drop, Table
<1>3. /\ DOMAIN q = Fields /\ q.pc \in {"idle", "close"}
      /\ q.pc # "idle" => q.path = th[t].path /\ q.op = th[t].op /\ q.h = h /\ h # None
  BY <1>1, FieldNames DEF Over
<1>. HIDE DEF q
<1>4. q.pc # "idle" => Lawful(fmode, q)
  BY <1>1, <1>3 DEF Lawful
<1>5. h \in Handles \union {None}
  BY <1>1, AtHand
<1>6. HandlesAreRecords' /\ HandlesAreLawful'
  BY <1>1, <1>2, EntrySet
<1>. QED  BY <1>1, <1>2, <1>3, <1>4, <1>5, <1>6, TableStep

\* Release: what is staged may be sent.
LEMMA CloseStep ==
  ASSUME DaemonInv, NEW t \in Threads, Close(t)
  PROVE  DaemonInv'
<1>. DEFINE h == th[t].h
            flush == [th[t] EXCEPT !.pc = "flush"]
            send == Asking(th[t], "fs.uploadStaged", th[t].path, "sent")
<1>1. /\ th[t].pc = "close" /\ UNCHANGED <<fmode, files>> /\ th[t].path \in Paths
      /\ DOMAIN th[t] = Fields /\ Lawful(fmode, th[t]) /\ h \in Handles
      /\ DOMAIN handle[h] = DOMAIN NewHandle /\ (handle[h].staged => fmode = 8)
  <2>1. th[t].pc = "close" /\ UNCHANGED <<fmode, files>>
    BY DEF Close, At, Quiet, Leave, Table
  <2>. QED  BY <2>1, AtHand DEF DaemonInv, InHand, HandlesAreLawful
<1>2. CASE ~handle[h].staged
  <2>1. /\ UNCHANGED handle
        /\ Go(t, IF handle[h].dirty THEN Asking(th[t], "fs.close", th[t].path, "changed") ELSE flush)
    BY <1>2 DEF Close, Leave, Table
  <2>2. CASE Go(t, flush)
    BY <1>1, <2>1, <2>2, NextStep
  <2>3. CASE Go(t, Asking(th[t], "fs.close", th[t].path, "changed"))
    <3>1. Admits(fmode, "fs.close")
      BY StatIsAdmitted
    <3>2. \A w \in {"changed"} : w \notin {"created", "target", "old", "dir", "into", "into.dir", "new", "new.dir"}
      OBVIOUS
    <3>. QED  BY <1>1, <2>1, <2>3, <3>1, <3>2, QuestionStep
  <2>. QED  BY <2>1, <2>2, <2>3
<1>3. CASE handle[h].staged
  <2>1. handle' = [handle EXCEPT ![h].committed = TRUE]
    BY <1>3 DEF Close, Table
  <2>. DEFINE new == [handle[h] EXCEPT !.committed = TRUE]
  <2>2. handle' = [handle EXCEPT ![h] = new]
    BY <2>1
  <2>3. DOMAIN new = DOMAIN NewHandle /\ new.staged = handle[h].staged /\ new.dirty = handle[h].dirty
    BY <1>1 DEF NewHandle
  <2>. HIDE DEF new
  <2>4. HandlesAreRecords' /\ HandlesAreLawful'
        /\ \A g \in Held \intersect Handles : handle[g].staged => handle'[g].staged
    BY <1>1, <2>2, <2>3, HandleChanged
  <2>5. PICK q : Go(t, q) /\ q \in {flush, send, Over(th[t], FALSE)}
    <3>. DEFINE next == CASE handle[h].committed -> flush
                          [] ~handle[h].committed /\ handle[h].disk -> send
                          [] OTHER -> Over(th[t], FALSE)
    <3>1. Go(t, next)
      BY <1>3 DEF Close
    <3>2. next \in {flush, send, Over(th[t], FALSE)}
      OBVIOUS
    <3>. HIDE DEF next
    <3>. QED  BY <3>1, <3>2
  <2>6. /\ DOMAIN q = Fields /\ q.pc \in {"idle", "flush", "ask"}
        /\ q.pc # "idle" => q.path = th[t].path /\ q.op = th[t].op
        /\ q.pc = "ask" => q.req = "fs.uploadStaged" /\ q.then = "sent"
    BY ZenonT(40), <1>1, <2>5, FieldNames DEF Over, Asking
  <2>7. Admits(fmode, "fs.uploadStaged")
    BY <1>1, <1>3, AtHand, Lets
  <2>8. q.pc # "idle" => Lawful(fmode, q)
    BY <1>1, <2>6, <2>7 DEF Lawful
  <2>. QED  BY <1>1, <2>4, <2>5, <2>6, <2>8, TableStep
<1>. QED  BY <1>2, <1>3

LEMMA RemovedStep ==
  ASSUME DaemonInv, NEW t \in Threads, Removed(t)
  PROVE  DaemonInv'
<1>. DEFINE q == IF th[t].good THEN [th[t] EXCEPT !.pc = "flush"] ELSE Over(th[t], FALSE)
<1>1. /\ th[t].pc = "heard" /\ UNCHANGED fmode /\ DOMAIN th[t] = Fields
      /\ th[t].path \in Paths /\ Lawful(fmode, th[t])
  BY AtHand, HeardMode DEF Removed, Quiet
<1>2. Go(t, q) /\ UNCHANGED handle /\ (files' = files \/ files' = [files EXCEPT ![th[t].path] = None])
  BY DEF Removed, Table
<1>3. DOMAIN q = Fields /\ q.pc \in {"idle", "flush"} /\ (q.pc # "idle" => q.path = th[t].path /\ q.op = th[t].op)
  BY <1>1, FieldNames DEF Over
<1>. HIDE DEF q
<1>4. q.pc # "idle" => Lawful(fmode, q)
  BY <1>1, <1>3 DEF Lawful
<1>5. HandlesAreRecords' /\ HandlesAreLawful'
  BY <1>1, <1>2 DEF DaemonInv, HandlesAreRecords, HandlesAreLawful
<1>. QED  BY <1>1, <1>2, <1>3, <1>4, <1>5, TableStep

LEMMA RenamedStep ==
  ASSUME DaemonInv, NEW t \in Threads, Renamed(t)
  PROVE  DaemonInv'
<1>. DEFINE h == files[th[t].path]
            again == [th[t] EXCEPT !.pc = "unlock", !.good = FALSE]
            flush == [th[t] EXCEPT !.pc = "flush"]
<1>1. /\ th[t].pc = "heard" /\ UNCHANGED fmode /\ DOMAIN th[t] = Fields
      /\ th[t].path \in Paths /\ Lawful(fmode, th[t]) /\ h \in Handles \union {None}
  BY AtHand, HeardMode DEF Renamed, Quiet
<1>2. PICK q : Go(t, q) /\ q \in {flush, again, Over(th[t], FALSE)}
  <2>. DEFINE next == IF th[t].good THEN flush ELSE Return(th[t], FALSE)
  <2>1. Go(t, next)
    BY DEF Renamed
  <2>2. next \in {flush, again, Over(th[t], FALSE)}
    BY DEF Return
  <2>. HIDE DEF next
  <2>. QED  BY <2>1, <2>2
<1>3. /\ DOMAIN q = Fields /\ q.pc \in {"idle", "flush", "unlock"}
      /\ q.pc # "idle" => q.path = th[t].path /\ q.op = th[t].op
  BY <1>1, <1>2, FieldNames DEF Over
<1>4. q.pc # "idle" => Lawful(fmode, q)
  BY <1>1, <1>3 DEF Lawful
<1>5. \/ UNCHANGED <<files, handle>>
      \/ /\ h # None /\ files' = EntryMoved(th[t]) /\ handle' = [handle EXCEPT ![h].path = th[t].to]
  BY DEF Renamed, Leave, Table
<1>6. HandlesAreRecords' /\ HandlesAreLawful'
      /\ \A g \in Held \intersect Handles : handle[g].staged => handle'[g].staged
  <2>1. CASE UNCHANGED <<files, handle>>
    BY <1>1, <2>1 DEF DaemonInv, HandlesAreRecords, HandlesAreLawful
  <2>2. CASE h # None /\ files' = EntryMoved(th[t]) /\ handle' = [handle EXCEPT ![h].path = th[t].to]
    <3>1. \A g \in Handles : /\ DOMAIN handle'[g] = DOMAIN NewHandle
                             /\ handle'[g].staged = handle[g].staged /\ handle'[g].dirty = handle[g].dirty
      BY <1>1, <2>2 DEF DaemonInv, HandlesAreRecords, NewHandle
    <3>2. handle' = [g \in Handles |-> handle'[g]]
      BY <2>2 DEF DaemonInv, HandlesAreRecords
    <3>3. files' = [p \in Paths |-> files'[p]] /\ \A p \in Paths : files'[p] \in Handles \union {None}
      BY <1>1, <2>2 DEF DaemonInv, HandlesAreRecords, EntryMoved
    <3>. QED  BY <1>1, <3>1, <3>2, <3>3 DEF DaemonInv, HandlesAreRecords, HandlesAreLawful
  <2>. QED  BY <1>5, <2>1, <2>2
<1>. QED  BY <1>1, <1>2, <1>3, <1>4, <1>6, TableStep

\* Where a call begins, the mount has looked at its own mode.
LEMMA FirstIs ==
  ASSUME fmode \in {FullyWritable} \union Modes, NEW c, First(c) # Refused
  PROVE  /\ First(c) \in {"lock", "find", "drop", "list", "ask"}
         /\ First(c) = "ask" => c.op \in {"mkdir", "rename"}
         /\ c.op \in {"openw", "create"} => fmode \in {FullyWritable, 8}
         /\ c.op \in {"write", "truncate"} => First(c) = "find"
         /\ c.op \in {"unlink", "rmdir"} => fmode \in {FullyWritable, 7, 8}
         /\ c.op = "rename" => (First(c) = "lock" /\ fmode = FullyWritable) \/ (First(c) = "ask" /\ fmode \in 3..8)
         /\ c.op = "mkdir" => fmode # 1
<1>1. CASE c.op \in {"open", "openw", "create"}
  BY <1>1 DEF First, Refused, Restricted, CopyUpload
<1>2. CASE c.op \in {"write", "truncate"}
  BY <1>2 DEF First, Refused
<1>3. CASE c.op \in {"unlink", "rmdir"}
  BY <1>3 DEF First, Refused, Removal, Restricted, Modes, FullyWritable
<1>4. CASE c.op = "rename"
  BY <1>4 DEF First, Refused, Asks, Restricted, Modes, FullyWritable
<1>5. CASE c.op = "mkdir"
  BY <1>5 DEF First, Refused, Asks
<1>6. CASE c.op \notin {"open", "openw", "create", "write", "truncate", "unlink", "rmdir", "rename", "mkdir"}
  BY <1>6 DEF First
<1>. QED  BY <1>1, <1>2, <1>3, <1>4, <1>5, <1>6

LEMMA IPCBeginStep ==
  ASSUME DaemonInv, NEW t \in Threads, NEW c \in Menu[fmode], Begin(t, c)
  PROVE  DaemonInv'
<1>. DEFINE after == Started(t, c, First(c))
            mkdir == Asking(after[t], "fs.mkdir", c.path, "changed")
            stat == Asking(after[t], "fs.stat", c.path, IF OnlyDirectories THEN "dir" ELSE "old")
<1>1. /\ UNCHANGED <<fmode, files, handle>> /\ th[t].pc = "idle" /\ DOMAIN th[t] = Fields
      /\ fmode \in {FullyWritable} \union Modes /\ c.path \in Paths
  BY AtHand, MountAssumption DEF Begin, Leave, Table, MayCall, Busy
<1>2. HandlesAreRecords' /\ HandlesAreLawful'
  BY <1>1 DEF DaemonInv, HandlesAreRecords, HandlesAreLawful
<1>3. \/ th' = [th EXCEPT ![t].good = FALSE, ![t].saw = "none"]
      \/ th' = [th EXCEPT ![t].good = FALSE]
      \/ First(c) # Refused /\ First(c) = "ask" /\ c.op = "mkdir" /\ th' = [after EXCEPT ![t] = mkdir]
      \/ First(c) # Refused /\ First(c) = "ask" /\ c.op = "rename" /\ th' = [after EXCEPT ![t] = stat]
      \/ First(c) # Refused /\ First(c) # "ask" /\ th' = after
  <2>1. First(c) = "ask" /\ First(c) # Refused => c.op \in {"mkdir", "rename"}
    BY <1>1, FirstIs
  <2>2. CASE First(c) = Refused
    BY <2>2 DEF Begin, Asks, Refused
  <2>3. CASE First(c) = "ask" /\ c.op = "mkdir"
    BY <2>3, StartedEffect DEF Begin, Asks, Refused, DaemonInv
  <2>4. CASE First(c) = "ask" /\ c.op = "rename"
    BY <2>4, StartedEffect DEF Begin, Asks, Refused, DaemonInv
  <2>5. CASE First(c) \notin {Refused, "ask"}
    BY <2>5 DEF Begin, Asks
  <2>. QED  BY <2>1, <2>2, <2>3, <2>4, <2>5
<1>4. /\ after = [u \in Threads |-> after[u]]
      /\ \A u \in Threads : DOMAIN after[u] = Fields
      /\ \A u \in Threads \ {t} : AlikeCalls(after[u], th[u])
      /\ after[t].op = c.op /\ after[t].path = c.path /\ after[t].pc = First(c)
  BY StartedEffect DEF DaemonInv
<1>. HIDE DEF after
<1>5. ASSUME NEW q, DOMAIN q = Fields, th' = [after EXCEPT ![t] = q], q.path = c.path,
             q.pc \in {"lock", "find", "drop", "list", "ask"}, Lawful(fmode, q)
      PROVE  DaemonInv'
  <2>1. CallsAreRecords' /\ th'[t] = q
    BY <1>4, <1>5 DEF CallsAreRecords
  <2>2. \A u \in Threads \ {t} : AlikeCalls(th'[u], th[u])
    BY <1>4, <1>5
  <2>3. AlikeCalls(th'[t], q)
    BY <2>1 DEF AlikeCalls
  <2>. QED  BY <1>1, <1>2, <1>5, <2>1, <2>2, <2>3, CallStep
<1>6. ASSUME NEW q, DOMAIN q = Fields, th' = [th EXCEPT ![t] = q], q.pc = "idle"
      PROVE  DaemonInv'
  <2>1. CallsAreRecords' /\ th'[t] = q
    BY <1>6 DEF CallsAreRecords, DaemonInv
  <2>2. \A u \in Threads \ {t} : AlikeCalls(th'[u], th[u])
    BY <1>6 DEF AlikeCalls, CallsAreRecords, DaemonInv
  <2>. QED  BY <1>1, <1>2, <1>6, <2>1, <2>2, CallStep
<1>7. CASE th' = [th EXCEPT ![t].good = FALSE, ![t].saw = "none"]
  <2>. DEFINE q == [th[t] EXCEPT !.good = FALSE, !.saw = "none"]
  <2>1. th' = [th EXCEPT ![t] = q]
    BY <1>7
  <2>2. DOMAIN q = Fields /\ q.pc = "idle"
    BY <1>1, FieldNames
  <2>. HIDE DEF q
  <2>. QED  BY <1>6, <2>1, <2>2
<1>8. CASE th' = [th EXCEPT ![t].good = FALSE]
  <2>. DEFINE q == [th[t] EXCEPT !.good = FALSE]
  <2>1. th' = [th EXCEPT ![t] = q]
    BY <1>8
  <2>2. DOMAIN q = Fields /\ q.pc = "idle"
    BY <1>1, FieldNames
  <2>. HIDE DEF q
  <2>. QED  BY <1>6, <2>1, <2>2
<1>9. CASE First(c) # Refused /\ First(c) = "ask" /\ c.op = "mkdir" /\ th' = [after EXCEPT ![t] = mkdir]
  <2>1. /\ DOMAIN mkdir = Fields /\ mkdir.pc = "ask" /\ mkdir.req = "fs.mkdir" /\ mkdir.then = "changed"
        /\ mkdir.path = c.path /\ mkdir.op = "mkdir"
    BY <1>4, <1>9, FieldNames DEF Asking
  <2>2. Admits(fmode, "fs.mkdir")
    BY <1>1, <1>9, FirstIs, Lets
  <2>3. th' = [after EXCEPT ![t] = mkdir]
    BY <1>9
  <2>. HIDE DEF mkdir
  <2>4. Lawful(fmode, mkdir)
    BY <2>1, <2>2 DEF Lawful
  <2>. QED  BY <1>5, <2>1, <2>3, <2>4
<1>10. CASE First(c) # Refused /\ First(c) = "ask" /\ c.op = "rename" /\ th' = [after EXCEPT ![t] = stat]
  <2>1. /\ DOMAIN stat = Fields /\ stat.pc = "ask" /\ stat.req = "fs.stat" /\ stat.then \in {"dir", "old"}
        /\ stat.path = c.path /\ stat.op = "rename"
    BY <1>4, <1>10, FieldNames DEF Asking
  <2>2. Admits(fmode, "fs.stat") /\ fmode \in 3..8
    BY <1>1, <1>10, FirstIs, StatIsAdmitted
  <2>3. th' = [after EXCEPT ![t] = stat]
    BY <1>10
  <2>. HIDE DEF stat
  <2>4. Lawful(fmode, stat)
    BY <2>1, <2>2 DEF Lawful
  <2>. QED  BY <1>5, <2>1, <2>3, <2>4
<1>11. CASE First(c) # Refused /\ First(c) # "ask" /\ th' = after
  <2>1. th' = [after EXCEPT ![t] = after[t]]
    BY <1>4, <1>11
  <2>2. after[t].pc \in {"lock", "find", "drop", "list"}
    BY <1>1, <1>4, <1>11, FirstIs
  <2>3. Lawful(fmode, after[t])
    BY <1>1, <1>4, <1>11, <2>2, FirstIs DEF Lawful
  <2>. QED  BY <1>4, <1>5, <2>1, <2>2, <2>3
<1>. QED  BY <1>3, <1>7, <1>8, <1>9, <1>10, <1>11

\* Downloads, and requests nobody waits for any more.
LEMMA DownloadingStep ==
  ASSUME DaemonInv, NEW h \in Handles, Download(h)
  PROVE  DaemonInv'
<1>1. UNCHANGED <<fmode, th, files>>
  BY DEF Download, DownloadBegins, DownloadEnds, DownloadLost, callVars
<1>2. PICK new : /\ handle' = [handle EXCEPT ![h] = new]
                 /\ DOMAIN new = DOMAIN NewHandle /\ new.staged = handle[h].staged /\ new.dirty = handle[h].dirty
  <2>1. \/ \E dl : handle' = [handle EXCEPT ![h].dl = dl]
        \/ \E dl : handle' = [handle EXCEPT ![h].dl = dl, ![h].again = TRUE]
    BY DEF Download, DownloadBegins, DownloadEnds, DownloadLost
  <2>2. DOMAIN handle[h] = DOMAIN NewHandle
    BY DEF DaemonInv, HandlesAreRecords
  <2>3. ASSUME NEW dl, handle' = [handle EXCEPT ![h].dl = dl]
        PROVE  LET new == [handle[h] EXCEPT !.dl = dl] IN
               /\ handle' = [handle EXCEPT ![h] = new]
               /\ DOMAIN new = DOMAIN NewHandle /\ new.staged = handle[h].staged /\ new.dirty = handle[h].dirty
    BY <2>2, <2>3 DEF NewHandle
  <2>4. ASSUME NEW dl, handle' = [handle EXCEPT ![h].dl = dl, ![h].again = TRUE]
        PROVE  LET new == [handle[h] EXCEPT !.dl = dl, !.again = TRUE] IN
               /\ handle' = [handle EXCEPT ![h] = new]
               /\ DOMAIN new = DOMAIN NewHandle /\ new.staged = handle[h].staged /\ new.dirty = handle[h].dirty
    BY <2>2, <2>4 DEF NewHandle
  <2>. QED  BY <2>1, <2>3, <2>4
<1>3. HandlesAreRecords' /\ HandlesAreLawful'
      /\ \A g \in Held \intersect Handles : handle[g].staged => handle'[g].staged
  BY <1>1, <1>2, HandleChanged
<1>4. InHand'
  <2>1. \A t \in Threads : th[t].h # None => th[t].h \in Held
    BY DEF Held
  <2>. QED  BY <1>1, <1>3, <2>1 DEF DaemonInv, InHand, Writes
<1>. QED  BY <1>1, <1>3, <1>4 DEF DaemonInv, CallsAreRecords

LEMMA LateStep ==
  ASSUME DaemonInv, NEW q, th' = Disturbed(q), UNCHANGED fmode, UNCHANGED ipcVars
  PROVE  DaemonInv'
<1>1. \A u \in Threads : th'[u] = th[u] \/ th'[u] = [th[u] EXCEPT !.rival = TRUE]
  BY DEF Disturbed
<1>2. th' = [u \in Threads |-> th'[u]]
  BY DEF Disturbed
<1>3. \A u \in Threads : DOMAIN th'[u] = Fields /\ AlikeCalls(th'[u], th[u])
  BY ZenonT(40), <1>1, FieldNames DEF DaemonInv, CallsAreRecords, AlikeCalls
<1>4. HandlesAreRecords' /\ HandlesAreLawful' /\ UNCHANGED handle
  BY DEF DaemonInv, HandlesAreRecords, HandlesAreLawful, ipcVars
<1>5. \A u \in Threads : Lawful(fmode, th'[u])
  BY <1>3, AlikeIsLawful DEF DaemonInv
<1>6. InHand'
  BY <1>3, <1>4 DEF DaemonInv, InHand, AlikeCalls, Writes
<1>. QED  BY <1>2, <1>3, <1>4, <1>5, <1>6 DEF DaemonInv, CallsAreRecords, AlikeCalls

LEMMA ProceedStep ==
  ASSUME DaemonInv, NEW t \in Threads, Proceed(t)
  PROVE  DaemonInv'
<1>1. CASE Ask(t) \/ Lock(t) \/ Look(t) \/ Put(t) \/ Created(t) \/ TargetSeen(t)
  BY <1>1, AskStep, LockStep, LookStep, PutStep, CreatedStep, TargetStep
<1>2. CASE Find(t) \/ Enter(t) \/ Marked(t) \/ Drop(t) \/ Close(t) \/ Sent(t) \/ Removed(t) \/ Renamed(t)
  BY <1>2, FindStep, EnterStep, AnsweredStep, DropStep, CloseStep, RemovedStep, RenamedStep
<1>3. CASE OldSeen(t) \/ DirectorySeen(t) \/ IntoSeen(t) \/ NewSeen(t)
  BY <1>3, RenamingStep
<1>4. CASE Waited(t) \/ Seen(t) \/ Changed(t) \/ FlushDirs(t) \/ UnlockAgain(t)
             \/ (\E e \in Expired : List(t, e)) \/ Listed(t) \/ Reread(t)
  BY <1>4, PlainStep
<1>. QED  BY <1>1, <1>2, <1>3, <1>4 DEF Proceed

LEMMA IPCStep ==
  ASSUME DaemonInv, IPCNext
  PROVE  DaemonInv'
<1>1. ASSUME NEW t \in Threads, NEW c \in Menu[fmode], Begin(t, c) PROVE DaemonInv'
  BY <1>1, IPCBeginStep
<1>2. ASSUME NEW t \in Threads, Proceed(t) PROVE DaemonInv'
  BY <1>2, ProceedStep
<1>3. ASSUME NEW h \in Handles, Download(h) PROVE DaemonInv'
  BY <1>3, DownloadingStep
<1>4. ASSUME NEW q \in late, th' = Disturbed(q), UNCHANGED <<fmode, made, dirs>>, UNCHANGED ipcVars
      PROVE  DaemonInv'
  BY <1>4, LateStep
<1>. QED  BY <1>1, <1>2, <1>3, <1>4 DEF IPCNext

LEMMA DaemonStutters ==
  ASSUME DaemonInv, UNCHANGED vars
  PROVE  DaemonInv'
<1>1. UNCHANGED <<fmode, th, files, handle>>
  BY DEF vars, callVars, ipcVars
<1>2. CallsAreRecords' /\ HandlesAreRecords' /\ HandlesAreLawful'
  BY <1>1 DEF DaemonInv, CallsAreRecords, HandlesAreRecords, HandlesAreLawful
<1>3. InHand'
  BY <1>1 DEF DaemonInv, InHand, Writes
<1>. QED  BY <1>1, <1>2, <1>3 DEF DaemonInv

LEMMA InitDaemon == Init => IPCMountInv
<1>. SUFFICES ASSUME Init, front = "daemon" PROVE DaemonInv
  BY DEF Init, RunMount, IPCMountInv
<1>1. fmode \in {FullyWritable} \union Modes
  BY HddFSAssumption DEF Init, RunMount
<1>2. /\ th = [t \in Threads |-> Idle] /\ files = [p \in Paths |-> None]
      /\ handle = [h \in Handles |-> NewHandle]
  BY DEF Init, IPCInit
<1>3. CallsAreRecords /\ \A t \in Threads : th[t].pc = "idle"
  BY <1>2 DEF CallsAreRecords, Fields, Idle
<1>4. HandlesAreRecords /\ HandlesAreLawful
  BY <1>2 DEF HandlesAreRecords, HandlesAreLawful, NewHandle
<1>5. InHand /\ \A t \in Threads : Lawful(fmode, th[t])
  BY <1>3, AlikeIsLawful DEF InHand
<1>. QED  BY <1>1, <1>3, <1>4, <1>5 DEF DaemonInv

LEMMA NextDaemon == IPCMountInv /\ [Next]_vars => IPCMountInv'
<1>. SUFFICES ASSUME IPCMountInv, [Next]_vars PROVE IPCMountInv'
  OBVIOUS
<1>1. CASE front = "daemon" /\ IPCNext /\ UNCHANGED front
  BY <1>1, IPCStep DEF IPCMountInv
<1>2. CASE front = "direct" /\ UNCHANGED front
  BY <1>2 DEF IPCMountInv
<1>3. CASE UNCHANGED vars
  BY <1>3, DaemonStutters DEF IPCMountInv, vars
<1>. QED  BY <1>1, <1>2, <1>3 DEF Next

LEMMA IPCMountInvHolds == Spec => []IPCMountInv
BY InitDaemon, NextDaemon, PTL DEF Spec

\* Whatever its threads do at the same time, a mount never sends a request that a daemon
\* of the same mode refuses, in any of the modes: what the mount checks before it asks,
\* and that a restricted mount never has a plain handle written to, cover the daemon's
\* policy (ipcfs.go's mode checks, main.go policyAllowsRequest).
THEOREM SentAdmitted == Spec => []SentIsAdmitted
<1>1. IPCMountInv => SentIsAdmitted
  BY DEF IPCMountInv, DaemonInv, Lawful, SentIsAdmitted
<1>. QED  BY <1>1, IPCMountInvHolds, PTL
-----------------------------------------------------------------------------
\* Calls that differ in the session and the history only, the locks included.
Aside(r, s) == AlikeCalls(r, s) /\ r.holds = s.holds /\ r.arg = s.arg /\ r.got = s.got

\* No call: nothing is held, in hand or asked for.
Blank(r) == r.pc = "idle" /\ r.holds = {} /\ r.h = None /\ r.arg = <<>> /\ r.got = {}

\* How a call q goes on as r, unless it takes a lock.
Continues(q, r) ==
  /\ DOMAIN r = Fields
  /\ r.op = q.op /\ r.path = q.path /\ r.to = q.to /\ r.holds = q.holds
  /\ r.pc \notin {"find", "look"}
  /\ r.pc = "lock" => q.pc = "find"
  /\ r.pc = "put" => q.pc = "look" /\ (Writes(q) => r.h = files[q.path] /\ r.h # None)
  /\ r.pc \in {"ask", "heard"} /\ r.then = "renamed" =>
       q.pc \in {"ask", "heard"} /\ (q.then = "renamed" \/ fmode # FullyWritable)
  /\ r.h \in {q.h, None, files[q.path]}
  /\ r.arg \in {q.arg, <<>>, q.path, q.to, Parent(q.to)}
  /\ r.got = q.got \/ r.got \subseteq Paths
  /\ r.sess = q.sess /\ r.writes = q.writes /\ r.rival = q.rival /\ (r.wrote => q.wrote \/ q.op = "write")
  /\ r.pc = "unlock" => fmode = FullyWritable
-----------------------------------------------------------------------------
LEMMA FinishedAside ==
  ASSUME CallsAreRecords, NEW t \in Threads, NEW q
  PROVE  /\ \A u \in Threads \ {t} : Aside(Finished(t, q)[u], th[u])
         /\ Blank(Finished(t, q)[t])
<1>. DEFINE follow(v) == IF q.op = "rename" /\ q.good /\ v.sess # NoPath /\ Below(v.sess, q.path)
                            /\ Rebased(v.sess, q.path, q.to) \in Paths
                         THEN [v EXCEPT !.sess = Rebased(v.sess, q.path, q.to)] ELSE v
            sess == CASE q.op \in Opens /\ q.good -> q.path
                      [] q.op = "release" -> NoPath
                      [] OTHER -> q.sess
            gone == q.op = "unlink" /\ q.good
            mine == IF sess = NoPath THEN [Idle EXCEPT !.good = q.good]
                    ELSE [Idle EXCEPT !.good = q.good, !.saw = q.saw, !.sess = sess, !.rival = q.rival,
                            !.writes = (q.writes \/ q.op \in OpensToWrite) /\ ~gone,
                            !.wrote = q.wrote /\ ~gone]
            finished == Finished(t, q)
<1>1. finished = [u \in Threads |-> follow(IF u = t THEN mine ELSE th[u])]
  BY DEF Finished
<1>2. DOMAIN mine = Fields /\ Blank(mine)
  BY DEF Fields, Idle, Blank, None
<1>3. \A v : DOMAIN v = Fields => Aside(follow(v), v) /\ (Blank(v) => Blank(follow(v)))
  BY FieldNames DEF Aside, AlikeCalls, Blank
<1>. HIDE DEF follow, mine, sess, finished
<1>4. \A u \in Threads : finished[u] = follow(IF u = t THEN mine ELSE th[u])
  BY <1>1
<1>5. \A u \in Threads \ {t} : Aside(finished[u], th[u])
  BY <1>3, <1>4 DEF CallsAreRecords
<1>6. Blank(finished[t])
  BY <1>2, <1>3, <1>4
<1>. QED  BY <1>5, <1>6 DEF finished

LEMMA GoAside ==
  ASSUME CallsAreRecords, NEW t \in Threads, NEW q, DOMAIN q = Fields, Go(t, q)
  PROVE  /\ \A u \in Threads \ {t} : Aside(th'[u], th[u])
         /\ q.pc = "idle" => Blank(th'[t])
         /\ q.pc = "refind" => th'[t] = [q EXCEPT !.holds = {}]
         /\ q.pc \notin {"idle", "refind"} => th'[t] = q
<1>1. CASE q.pc = "idle"
  <2>1. th' = Finished(t, q)
    BY <1>1 DEF Go
  <2>. QED  BY <1>1, <2>1, FinishedAside
<1>2. CASE q.pc = "refind"
  <2>1. th' = [th EXCEPT ![t] = [q EXCEPT !.holds = {}]]
    BY <1>2 DEF Go
  <2>. QED  BY <1>2, <2>1 DEF CallsAreRecords, Aside, AlikeCalls
<1>3. CASE q.pc \notin {"idle", "refind"}
  <2>1. th' = [th EXCEPT ![t] = q]
    BY <1>3 DEF Go
  <2>. QED  BY <1>3, <2>1 DEF CallsAreRecords, Aside, AlikeCalls
<1>. QED  BY <1>1, <1>2, <1>3

LEMMA StartedAside ==
  ASSUME CallsAreRecords, NEW t \in Threads, NEW c, NEW pc
  PROVE  /\ \A u \in Threads \ {t} : Aside(Started(t, c, pc)[u], th[u])
         /\ LET q == Started(t, c, pc)[t] IN
            q.pc = pc /\ q.path = c.path /\ q.to = c.to /\ q.then = "none"
              /\ q.holds = {} /\ q.h = None /\ q.arg = <<>> /\ q.got = {}
<1>. DEFINE others == {u \in Threads \ {t} : Meet(Concerns(c), Touches(th[u]))}
            first == [Idle EXCEPT !.op = c.op, !.path = c.path, !.to = c.to, !.over = c.over, !.pc = pc,
                        !.sess = th[t].sess, !.writes = th[t].writes, !.wrote = th[t].wrote,
                        !.rival = (Open(t) /\ th[t].rival) \/ others # {}]
            started == Started(t, c, pc)
<1>1. started = [u \in Threads |-> CASE u = t -> first
                                     [] u \in others -> [th[u] EXCEPT !.rival = TRUE]
                                     [] OTHER -> th[u]]
  BY DEF Started
<1>2. /\ first.pc = pc /\ first.path = c.path /\ first.to = c.to /\ first.then = "none"
      /\ first.holds = {} /\ first.h = None /\ first.arg = <<>> /\ first.got = {}
  BY DEF Idle, None
<1>3. t \notin others
  OBVIOUS
<1>. HIDE DEF first, others, started
<1>4. started[t] = first
  BY <1>1, <1>3
<1>5. ASSUME NEW u \in Threads \ {t} PROVE Aside(started[u], th[u])
  <2>1. started[u] = th[u] \/ started[u] = [th[u] EXCEPT !.rival = TRUE]
    BY <1>1
  <2>. QED  BY <2>1, FieldNames DEF Aside, AlikeCalls, CallsAreRecords
<1>. QED  BY <1>2, <1>4, <1>5 DEF started

LEMMA DisturbedAside ==
  ASSUME CallsAreRecords, NEW q
  PROVE  \A u \in Threads : Aside(Disturbed(q)[u], th[u])
<1>1. \A u \in Threads : Disturbed(q)[u] = th[u] \/ Disturbed(q)[u] = [th[u] EXCEPT !.rival = TRUE]
  BY DEF Disturbed
<1>. QED  BY ZenonT(40), <1>1, FieldNames DEF CallsAreRecords, Aside, AlikeCalls

\* The three ways in which most steps end, and those of a call that has its handle.
LEMMA Ways ==
  ASSUME NEW q, DOMAIN q = Fields
  PROVE  /\ \A good : Continues(q, Over(q, good))
         /\ \A good : Continues(q, Return(q, good))
         /\ \A pc : pc \notin {"find", "look", "lock", "put", "ask", "heard", "unlock"} => Continues(q, [q EXCEPT !.pc = pc])
         /\ \A r, p, w : p \in {q.path, q.to, Parent(q.to)} /\ w # "renamed" => Continues(q, Asking(q, r, p, w))
         /\ Continues(q, Opened(q)) /\ Continues(q, [Opened(q) EXCEPT !.h = None])
<1>1. \A good : Continues(q, Over(q, good))
  BY FieldNames DEF Continues, Over
<1>2. \A pc : pc \notin {"find", "look", "lock", "put", "ask", "heard", "unlock"} => Continues(q, [q EXCEPT !.pc = pc])
  BY FieldNames DEF Continues
<1>3. \A good : fmode = FullyWritable => Continues(q, [q EXCEPT !.pc = "unlock", !.good = good])
  BY FieldNames DEF Continues
<1>4. \A good : Continues(q, Return(q, good))
  BY <1>1, <1>3 DEF Return, Restricted
<1>5. \A r, p, w : p \in {q.path, q.to, Parent(q.to)} /\ w # "renamed" => Continues(q, Asking(q, r, p, w))
  BY FieldNames DEF Continues, Asking
<1>6. Continues(q, Opened(q))
  BY <1>1, <1>2 DEF Opened
<1>7. Continues(q, [Opened(q) EXCEPT !.h = None])
  <2>1. Opened(q).pc \in {"idle", "refind"}
    BY FieldNames DEF Opened, Over
  <2>. QED  BY <1>6, <2>1, FieldNames DEF Continues
<1>. QED  BY <1>1, <1>2, <1>4, <1>5, <1>6, <1>7

\* Every step of a call goes on with it, takes a lock, or ends the process.
GoesOn(t) == \E q : Go(t, q) /\ Continues(th[t], q)

LEMMA LookingGoesOn ==
  ASSUME DaemonInv, NEW t \in Threads, Look(t) \/ Put(t) \/ Created(t) \/ TargetSeen(t)
  PROVE  GoesOn(t)
<1>0. DOMAIN th[t] = Fields
  BY AtHand
<1>1. CASE Look(t)
  <2>. DEFINE h == files[th[t].path]
              put == [th[t] EXCEPT !.pc = "put"]
              have == [th[t] EXCEPT !.pc = "put", !.h = h]
  <2>1. \/ Go(t, Opened(th[t])) \/ (Go(t, put) /\ ~Writes(th[t])) \/ (Go(t, have) /\ h # None)
        \/ Go(t, Asking(th[t], "fs.create", th[t].path, "created"))
    BY <1>1 DEF Look
  <2>2. th[t].pc = "look"
    BY <1>1 DEF Look, At
  <2>3. ~Writes(th[t]) => Continues(th[t], put)
    BY <1>0, <2>2, FieldNames DEF Continues
  <2>4. h # None => Continues(th[t], have)
    BY <1>0, <2>2, FieldNames DEF Continues
  <2>. HIDE DEF put, have
  <2>. QED  BY <1>0, <2>1, <2>3, <2>4, Ways DEF GoesOn
<1>2. CASE Put(t)
  <2>1. Go(t, Opened(th[t])) \/ Go(t, [Opened(th[t]) EXCEPT !.h = None])
    BY <1>2 DEF Put
  <2>. QED  BY <1>0, <2>1, Ways DEF GoesOn
<1>3. CASE Created(t)
  <2>1. Go(t, Opened(th[t])) \/ Go(t, Over(th[t], FALSE))
    BY <1>3 DEF Created
  <2>. QED  BY <1>0, <2>1, Ways DEF GoesOn
<1>4. CASE TargetSeen(t)
  <2>1. Go(t, Over(th[t], TRUE)) \/ Go(t, Over(th[t], FALSE))
    BY <1>4 DEF TargetSeen
  <2>. QED  BY <1>0, <2>1, Ways DEF GoesOn
<1>. QED  BY <1>1, <1>2, <1>3, <1>4

LEMMA AskGoesOn ==
  ASSUME DaemonInv, NEW t \in Threads, Ask(t)
  PROVE  GoesOn(t)
<1>0. DOMAIN th[t] = Fields /\ th[t].pc = "ask"
  BY AtHand DEF Ask, At
<1>. DEFINE q == [th[t] EXCEPT !.pc = "heard", !.isdir = IsDir(th[t].arg), !.tries = 0, !.arg = <<>>, !.req = "none",
                            !.got = IF th[t].req = "fs.list" THEN Entries(th[t].arg) ELSE {},
                            !.raced = th[t].raced \/ Overtaken(t, th[t])]
            heard(good) == [q EXCEPT !.good = good]
            again == [th[t] EXCEPT !.tries = 1]
<1>1. Go(t, heard(Served(Asked(th[t])).good)) \/ Go(t, heard(FALSE)) \/ Go(t, again)
  BY DEF Ask
<1>2. Entries(th[t].arg) \subseteq Paths
  BY DEF Entries
<1>3. \A good : Continues(th[t], heard(good))
  <2>. HIDE DEF Entries
  <2>1. DOMAIN q = Fields
    BY <1>0
  <2>2. /\ q.op = th[t].op /\ q.path = th[t].path /\ q.to = th[t].to /\ q.holds = th[t].holds /\ q.pc = "heard"
        /\ q.then = th[t].then /\ q.h = th[t].h /\ q.arg = <<>> /\ q.got \subseteq Paths
        /\ q.sess = th[t].sess /\ q.writes = th[t].writes /\ q.rival = th[t].rival /\ q.wrote = th[t].wrote
    BY <1>0, <1>2, FieldNames
  <2>. HIDE DEF q
  <2>3. ASSUME NEW good PROVE Continues(th[t], heard(good))
    BY <1>0, <2>1, <2>2, FieldNames DEF Continues
  <2>. QED  BY <2>3
<1>4. Continues(th[t], again)
  BY <1>0, FieldNames DEF Continues
<1>. HIDE DEF heard, again
<1>. QED  BY <1>1, <1>3, <1>4 DEF GoesOn

LEMMA HandleGoesOn ==
  ASSUME DaemonInv, NEW t \in Threads, Find(t) \/ Enter(t) \/ Waited(t) \/ Marked(t) \/ Seen(t)
  PROVE  GoesOn(t)
<1>0. DOMAIN th[t] = Fields
  BY AtHand
<1>1. CASE Find(t)
  <2>. DEFINE enter == [th[t] EXCEPT !.pc = "enter", !.h = files[th[t].path]]
              lock == [th[t] EXCEPT !.pc = "lock"]
  <2>1. \/ Go(t, enter) \/ (Go(t, lock) /\ th[t].pc = "find")
        \/ Go(t, Over(th[t], TRUE)) \/ Go(t, Over(th[t], FALSE))
        \/ Go(t, Asking(th[t], "fs.stat", th[t].path, "seen"))
    BY <1>1 DEF Find
  <2>2. Continues(th[t], enter) /\ (th[t].pc = "find" => Continues(th[t], lock))
    BY <1>0, FieldNames DEF Continues
  <2>. HIDE DEF enter, lock
  <2>. QED  BY <1>0, <2>1, <2>2, Ways DEF GoesOn
<1>2. ASSUME NEW h, Go(t, Found(th[t], h)) PROVE GoesOn(t)
  <2>1. \A saw, good : Continues(th[t], Over([th[t] EXCEPT !.saw = saw], good))
    BY <1>0, FieldNames DEF Continues, Over
  <2>. QED  BY <1>2, <2>1 DEF GoesOn, Found
<1>3. CASE Enter(t)
  <2>1. \/ Go(t, [th[t] EXCEPT !.pc = "wait"]) \/ Go(t, Over(th[t], TRUE)) \/ Go(t, Over(th[t], FALSE))
        \/ Go(t, Asking(th[t], "fs.markDirty", th[t].path, "marked"))
        \/ Go(t, Over([th[t] EXCEPT !.wrote = (th[t].op = "write")], TRUE))
        \/ Go(t, Found(th[t], th[t].h))
    BY <1>3 DEF Enter, Uses
  <2>2. Continues(th[t], Over([th[t] EXCEPT !.wrote = (th[t].op = "write")], TRUE))
    BY <1>0, FieldNames DEF Continues, Over
  <2>. QED  BY <1>0, <1>2, <2>1, <2>2, Ways DEF GoesOn
<1>4. CASE Waited(t)
  BY <1>2, <1>4 DEF Waited
<1>5. CASE Marked(t) \/ Seen(t)
  BY <1>0, <1>5, Ways DEF Marked, Seen, GoesOn
<1>. QED  BY <1>1, <1>3, <1>4, <1>5

LEMMA ReleaseGoesOn ==
  ASSUME DaemonInv, NEW t \in Threads,
         Drop(t) \/ Close(t) \/ Sent(t) \/ Changed(t) \/ Removed(t) \/ Renamed(t) \/ FlushDirs(t) \/ UnlockAgain(t)
  PROVE  GoesOn(t)
<1>0. DOMAIN th[t] = Fields
  BY AtHand
<1>. DEFINE flush == [th[t] EXCEPT !.pc = "flush"]
            close == [th[t] EXCEPT !.pc = "close", !.h = files[th[t].path]]
<1>1. Continues(th[t], flush) /\ Continues(th[t], close)
  BY <1>0, FieldNames DEF Continues
<1>2. \/ Go(t, flush) \/ Go(t, close) \/ (\E good : Go(t, Over(th[t], good))) \/ (\E good : Go(t, Return(th[t], good)))
      \/ Go(t, Asking(th[t], "fs.uploadStaged", th[t].path, "sent"))
      \/ Go(t, Asking(th[t], "fs.close", th[t].path, "changed"))
  <2>1. CASE Drop(t)
    BY <2>1 DEF Drop
  <2>2. CASE Close(t)
    BY <2>2 DEF Close
  <2>3. CASE Sent(t) \/ Changed(t) \/ Removed(t)
    BY <2>3 DEF Sent, Changed, Removed
  <2>4. CASE Renamed(t)
    BY <2>4 DEF Renamed
  <2>5. CASE FlushDirs(t) \/ UnlockAgain(t)
    BY <2>5 DEF FlushDirs, UnlockAgain
  <2>. QED  BY <2>1, <2>2, <2>3, <2>4, <2>5
<1>. HIDE DEF flush, close
<1>3. \A w \in {"sent", "changed"} : w # "renamed"
  OBVIOUS
<1>. QED  BY <1>0, <1>1, <1>2, <1>3, Ways DEF GoesOn

\* A rename or move of a restricted mount, and the listing of a directory.
LEMMA LookupsGoOn ==
  ASSUME DaemonInv, NEW t \in Threads,
         OldSeen(t) \/ DirectorySeen(t) \/ IntoSeen(t) \/ NewSeen(t) \/ (\E e \in Expired : List(t, e)) \/ Listed(t)
  PROVE  GoesOn(t)
<1>0. DOMAIN th[t] = Fields
  BY AtHand
<1>1. ASSUME NEW r, NEW p \in {th[t].path, th[t].to, Parent(th[t].to)},
             NEW w \in {"dir", "into", "new.dir", "into.dir", "new", "changed", "listed"}, Go(t, Asking(th[t], r, p, w))
      PROVE  GoesOn(t)
  BY <1>0, <1>1, Ways DEF GoesOn
<1>2. ASSUME NEW good, Go(t, Over(th[t], good)) PROVE GoesOn(t)
  BY <1>0, <1>2, Ways DEF GoesOn
<1>3. CASE OldSeen(t)
  <2>1. \/ Go(t, Over(th[t], FALSE)) \/ Go(t, Over(th[t], TRUE))
        \/ Go(t, Asking(th[t], "fs.stat", th[t].path, "dir"))
        \/ Go(t, Asking(th[t], "fs.stat", Parent(th[t].to), "into"))
    BY <1>3 DEF OldSeen
  <2>. QED  BY <1>1, <1>2, <2>1
<1>4. CASE DirectorySeen(t)
  <2>1. \/ Go(t, Over(th[t], FALSE))
        \/ Go(t, Asking(th[t], "fs.stat", th[t].to, "new.dir"))
        \/ Go(t, Asking(th[t], "fs.stat", Parent(th[t].to), "into.dir"))
    BY <1>4 DEF DirectorySeen
  <2>. QED  BY <1>1, <1>2, <2>1
<1>5. CASE IntoSeen(t)
  <2>1. PICK kind \in {<<"into", "new">>, <<"into.dir", "new.dir">>} :
          Go(t, Over(th[t], FALSE)) \/ Go(t, Asking(th[t], "fs.stat", th[t].to, kind[2]))
    BY <1>5 DEF IntoSeen
  <2>2. kind[2] \in {"new", "new.dir"}
    OBVIOUS
  <2>. QED  BY <1>1, <1>2, <2>1, <2>2
<1>6. CASE NewSeen(t)
  <2>1. PICK kind \in {<<"new", "renamed">>, <<"new.dir", "changed">>} :
          /\ Heard(t, kind[1])
          /\ Go(t, Over(th[t], FALSE)) \/ Go(t, Asking(th[t], "fs.rename", th[t].path, kind[2]))
    BY <1>6 DEF NewSeen
  <2>2. th[t].pc = "heard" /\ fmode \in 3..8
    BY <2>1, HeardMode
  <2>. DEFINE q == Asking(th[t], "fs.rename", th[t].path, kind[2])
  <2>3. Continues(th[t], q)
    <3>1. fmode # FullyWritable
      BY <2>2 DEF FullyWritable
    <3>. QED  BY <1>0, <2>2, <3>1, FieldNames DEF Continues, Asking
  <2>. HIDE DEF q
  <2>4. Go(t, Over(th[t], FALSE)) \/ Go(t, q)
    BY <2>1 DEF q
  <2>. QED  BY <1>2, <2>3, <2>4 DEF GoesOn
<1>7. ASSUME NEW e \in Expired, List(t, e) PROVE GoesOn(t)
  <2>1. Go(t, Over(th[t], TRUE)) \/ Go(t, Asking(th[t], "fs.list", th[t].path, "listed"))
    BY <1>7 DEF List
  <2>. QED  BY <1>1, <1>2, <2>1
<1>8. CASE Listed(t)
  <2>1. Go(t, [th[t] EXCEPT !.pc = "reread"]) \/ Go(t, Over(th[t], FALSE))
    BY <1>8 DEF Listed
  <2>. QED  BY <1>0, <2>1, Ways DEF GoesOn
<1>. QED  BY <1>3, <1>4, <1>5, <1>6, <1>7, <1>8

LEMMA ProceedGoesOn ==
  ASSUME DaemonInv, NEW t \in Threads, Proceed(t)
  PROVE  GoesOn(t) \/ Lock(t) \/ (UNCHANGED <<th, locks>> /\ fault' = "dead")
<1>1. CASE Reread(t)
  <2>1. Go(t, Over(th[t], TRUE)) \/ (UNCHANGED <<th, locks>> /\ fault' = "dead")
    BY <1>1 DEF Reread
  <2>. QED  BY <2>1, AtHand, Ways DEF GoesOn
<1>. QED  BY <1>1, LookingGoesOn, AskGoesOn, HandleGoesOn, ReleaseGoesOn, LookupsGoOn DEF Proceed
-----------------------------------------------------------------------------
\* Which paths a call has locked, by how far it has come.
LocksSoFar(q) ==
  /\ q.pc \in {"idle", "find"} => q.holds = {}
  /\ q.pc = "lock" => q.holds = {} \/ (Len(Wanted(q)) = 2 /\ q.holds = {Wanted(q)[1]})
  /\ q.pc \in {"look", "put"} => q.path \in q.holds
  /\ fmode = FullyWritable /\ q.pc \in {"ask", "heard"} /\ q.then = "renamed" => q.path \in q.holds

\* A locked path has been locked by somebody who will unlock it.
LockersAreKnown ==
  \A p \in Paths : locks[p] # Nobody =>
    locks[p] \in Threads /\ p \in th[locks[p]].holds /\ th[locks[p]].pc # "unlock"

\* Whoever has locked a path still has it, and nobody else does.
HeldIsLocked == \A t \in Threads : th[t].pc # "unlock" => \A p \in th[t].holds : p \in Paths /\ locks[p] = t

LockInv ==
  /\ \A t \in Threads : LocksSoFar(th[t]) /\ (th[t].pc # "idle" => th[t].to \in Paths)
  /\ locks = [p \in Paths |-> locks[p]]
  /\ LockersAreKnown
  /\ fault = "none" => HeldIsLocked

LEMMA WantedIs ==
  ASSUME NEW q, q.path \in Paths, q.to \in Paths
  PROVE  /\ Len(Wanted(q)) = 2 => /\ q.op = "rename" /\ Wanted(q)[1] # Wanted(q)[2]
                                  /\ {Wanted(q)[1], Wanted(q)[2]} = {q.path, q.to}
                                  /\ Rank[Wanted(q)[1]] < Rank[Wanted(q)[2]]
         /\ Len(Wanted(q)) # 2 => Len(Wanted(q)) = 1 /\ Wanted(q)[1] = q.path
<1>0. Rank[q.path] \in Int /\ Rank[q.to] \in Int
  BY IPCAssumption
<1>1. CASE q.op = "rename" /\ Rank[q.path] < Rank[q.to]
  <2>1. Wanted(q) = <<q.path, q.to>>
    BY <1>0, <1>1 DEF Wanted
  <2>2. q.path # q.to
    BY <1>0, <1>1
  <2>. QED  BY <1>1, <2>1, <2>2
<1>2. CASE q.op = "rename" /\ Rank[q.path] > Rank[q.to]
  <2>1. Wanted(q) = <<q.to, q.path>>
    BY <1>0, <1>2 DEF Wanted
  <2>2. q.path # q.to
    BY <1>0, <1>2
  <2>. QED  BY <1>0, <1>2, <2>1, <2>2
<1>3. CASE ~(q.op = "rename" /\ Rank[q.path] < Rank[q.to]) /\ ~(q.op = "rename" /\ Rank[q.path] > Rank[q.to])
  <2>1. Wanted(q) = <<q.path>>
    BY <1>3 DEF Wanted
  <2>. QED  BY <2>1
<1>. QED  BY <1>1, <1>2, <1>3

LEMMA WantedAlike ==
  ASSUME NEW q, NEW r, r.op = q.op, r.path = q.path, r.to = q.to
  PROVE  Wanted(r) = Wanted(q)
BY DEF Wanted

LEMMA LocksAside ==
  ASSUME NEW r, NEW s, Aside(r, s), LocksSoFar(s), UNCHANGED fmode
  PROVE  LocksSoFar(r)'
<1>1. Wanted(r) = Wanted(s)
  BY WantedAlike DEF Aside, AlikeCalls
<1>. QED  BY <1>1 DEF LocksSoFar, Aside, AlikeCalls

\* A step that takes no lock leaves those of the others as they are.
LEMMA UnlockStep ==
  ASSUME DaemonInv, LockInv, NEW t \in Threads, NEW q, Go(t, q), Continues(th[t], q), UNCHANGED fmode,
         th[t].pc # "idle", th[t].pc = "unlock" => q.pc = "idle"
  PROVE  LockInv'
<1>. DEFINE freed == IF q.pc \in {"idle", "refind", "unlock"} THEN q.holds ELSE {}
<1>1. DOMAIN q = Fields /\ q.holds = th[t].holds /\ q.to = th[t].to
  BY DEF Continues
<1>2. /\ \A u \in Threads \ {t} : Aside(th'[u], th[u])
      /\ q.pc = "idle" => Blank(th'[t])
      /\ q.pc = "refind" => th'[t] = [q EXCEPT !.holds = {}]
      /\ q.pc \notin {"idle", "refind"} => th'[t] = q
  BY <1>1, GoAside DEF DaemonInv
<1>3. Unlock(t, freed)
  BY DEF Go
<1>4. /\ locks' = [p \in Paths |-> locks'[p]]
      /\ \A p \in Paths : locks'[p] = IF p \in freed THEN Nobody ELSE locks[p]
  BY <1>3 DEF Unlock
<1>5. fault' = "none" => fault = "none" /\ \A p \in freed : locks[p] = t
  BY <1>3, MountAssumption DEF Unlock
<1>6. ASSUME NEW u \in Threads PROVE LocksSoFar(th[u])' /\ (th'[u].pc # "idle" => th'[u].to \in Paths)
  <2>1. CASE u # t
    BY <1>2, <2>1, LocksAside DEF LockInv, Aside, AlikeCalls
  <2>2. CASE u = t /\ q.pc = "idle"
    BY <1>2, <2>2 DEF LocksSoFar, Blank
  <2>3. CASE u = t /\ q.pc = "refind"
    <3>1. th'[t].pc = "refind" /\ th'[t].to = q.to
      BY <1>1, <1>2, <2>3, FieldNames
    <3>. QED  BY <1>1, <2>3, <3>1 DEF LocksSoFar, LockInv
  <2>4. CASE u = t /\ q.pc \notin {"idle", "refind"}
    <3>1. th'[t] = q /\ LocksSoFar(th[t]) /\ Lawful(fmode, th[t])
      BY <1>2, <2>4 DEF LockInv, DaemonInv
    <3>2. q.path = th[t].path /\ q.holds = th[t].holds
      BY DEF Continues
    <3>3. /\ q.pc \notin {"idle", "find", "look"}
          /\ q.pc = "lock" => q.holds = {}
          /\ q.pc = "put" => q.path \in q.holds
          /\ fmode = FullyWritable /\ q.pc \in {"ask", "heard"} /\ q.then = "renamed" => q.path \in q.holds
      BY <2>4, <3>1, <3>2 DEF LocksSoFar, Continues
    <3>. QED  BY <1>1, <2>4, <3>1, <3>3 DEF LocksSoFar, LockInv
  <2>. QED  BY <2>1, <2>2, <2>3, <2>4
<1>7. LockersAreKnown'
  <2>1. SUFFICES ASSUME NEW p \in Paths, locks'[p] # Nobody
                 PROVE  locks'[p] \in Threads /\ p \in th'[locks'[p]].holds /\ th'[locks'[p]].pc # "unlock"
    BY DEF LockersAreKnown
  <2>2. /\ locks'[p] = locks[p] /\ p \notin freed
        /\ locks[p] \in Threads /\ p \in th[locks[p]].holds /\ th[locks[p]].pc # "unlock"
    BY <1>4, <2>1 DEF LockInv, LockersAreKnown
  <2>3. CASE locks[p] # t
    BY <1>2, <2>2, <2>3 DEF Aside, AlikeCalls
  <2>4. CASE locks[p] = t
    <3>1. q.pc \notin {"idle", "refind", "unlock"} /\ th'[t] = q
      BY <1>1, <1>2, <2>2, <2>4
    <3>. QED  BY <1>1, <2>2, <2>4, <3>1
  <2>. QED  BY <2>3, <2>4
<1>8. fault' = "none" => HeldIsLocked'
  <2>1. SUFFICES ASSUME fault' = "none", NEW u \in Threads, th'[u].pc # "unlock", NEW p \in th'[u].holds
                 PROVE  p \in Paths /\ locks'[p] = u
    BY DEF HeldIsLocked
  <2>2. HeldIsLocked
    BY <1>5, <2>1 DEF LockInv
  <2>3. CASE u # t
    <3>1. p \in Paths /\ locks[p] = u
      BY <1>2, <2>1, <2>2, <2>3 DEF Aside, AlikeCalls, HeldIsLocked
    <3>. QED  BY <1>4, <1>5, <2>1, <2>3, <3>1
  <2>4. CASE u = t
    <3>1. q.pc \notin {"idle", "refind", "unlock"} /\ th'[t] = q
      BY <1>1, <1>2, <2>1, <2>4, FieldNames DEF Blank
    <3>2. th[t].pc # "unlock"
      BY <3>1
    <3>. QED  BY <1>1, <1>4, <2>1, <2>2, <2>4, <3>1, <3>2 DEF HeldIsLocked
  <2>. QED  BY <2>3, <2>4
<1>. QED  BY <1>4, <1>6, <1>7, <1>8 DEF LockInv

LEMMA OneOrTwo ==
  ASSUME NEW x, NEW y
  PROVE  /\ Cardinality({}) = 0 /\ Cardinality({x}) = 1
         /\ x # y => Cardinality({x, y}) = 2
<1>1. IsFiniteSet({x}) /\ Cardinality({x}) = 1
  BY FS_Singleton
<1>2. Cardinality({x} \union {y}) = IF y \in {x} THEN 1 ELSE 2
  BY <1>1, FS_AddElement
<1>3. {x} \union {y} = {x, y}
  OBVIOUS
<1>. QED  BY <1>1, <1>2, <1>3, FS_EmptySet

LEMMA LockTaken ==
  ASSUME DaemonInv, LockInv, NEW t \in Threads, Lock(t)
  PROVE  LockInv'
<1>. DEFINE p == NextWanted(th[t])
            q == [th[t] EXCEPT !.holds = @ \union {p}]
            next == IF Cardinality(q.holds) = Len(Wanted(q)) THEN Locked(q) ELSE q
<1>1. /\ th[t].pc = "lock" /\ DOMAIN th[t] = Fields /\ th[t].path \in Paths /\ th[t].to \in Paths
      /\ LocksSoFar(th[t]) /\ UNCHANGED <<fmode, fault>>
  BY AtHand DEF Lock, At, LockInv, Quiet
<1>2. locks[p] = Nobody /\ locks' = [locks EXCEPT ![p] = t] /\ th' = [th EXCEPT ![t] = next]
  BY DEF Lock
<1>3. /\ DOMAIN q = Fields /\ q.op = th[t].op /\ q.path = th[t].path /\ q.to = th[t].to /\ q.pc = "lock"
      /\ q.holds = th[t].holds \union {p} /\ Wanted(q) = Wanted(th[t])
  <2>1. /\ DOMAIN q = Fields /\ q.op = th[t].op /\ q.path = th[t].path /\ q.to = th[t].to /\ q.pc = "lock"
        /\ q.holds = th[t].holds \union {p}
    BY <1>1, FieldNames
  <2>. HIDE DEF q
  <2>. QED  BY <2>1, WantedAlike
<1>0. p = Wanted(th[t])[Cardinality(th[t].holds) + 1]
  BY DEF NextWanted
<1>. HIDE DEF q, p
\* What is locked now is the first path, the only one or the second one.
<1>4. \/ Len(Wanted(q)) = 1 /\ p = q.path /\ q.holds = {q.path} /\ next = Locked(q)
      \/ Len(Wanted(q)) = 2 /\ p = Wanted(q)[1] /\ q.holds = {Wanted(q)[1]} /\ next = q
      \/ Len(Wanted(q)) = 2 /\ p = Wanted(q)[2] /\ q.holds = {q.path, q.to} /\ next = Locked(q)
  <2>1. CASE th[t].holds = {}
    <3>1. p = Wanted(q)[1] /\ q.holds = {p} /\ Cardinality(q.holds) = 1
      <4>1. Cardinality(th[t].holds) = 0 /\ q.holds = {p}
        BY <1>3, <2>1, OneOrTwo
      <4>2. Cardinality({p}) = 1
        BY OneOrTwo
      <4>. QED  BY <1>0, <1>3, <4>1, <4>2
    <3>. QED  BY <1>1, <1>3, <3>1, WantedIs
  <2>2. CASE th[t].holds # {}
    <3>1. Len(Wanted(q)) = 2 /\ th[t].holds = {Wanted(q)[1]}
      BY <1>1, <1>3, <2>2 DEF LocksSoFar
    <3>2. p = Wanted(q)[2]
      <4>1. Cardinality(th[t].holds) = 1
        BY <3>1, OneOrTwo
      <4>. QED  BY <1>0, <1>3, <4>1
    <3>3. q.holds = {q.path, q.to} /\ Wanted(q)[1] # Wanted(q)[2]
      BY <1>1, <1>3, <3>1, <3>2, WantedIs
    <3>4. Cardinality(q.holds) = 2
      <4>1. q.holds = {Wanted(q)[1], Wanted(q)[2]}
        BY <1>3, <3>1, <3>2
      <4>2. Cardinality({Wanted(q)[1], Wanted(q)[2]}) = 2
        BY <3>3, OneOrTwo
      <4>. QED  BY <4>1, <4>2
    <3>. QED  BY <3>1, <3>2, <3>3, <3>4
  <2>. QED  BY <2>1, <2>2
<1>5. p \in Paths
  BY <1>1, <1>3, <1>4, WantedIs
<1>6. /\ Locked(q).holds = q.holds /\ Locked(q).path = q.path /\ Locked(q).to = q.to
      /\ Locked(q).pc \in {"ask", "look"}
  BY <1>3, FieldNames DEF Locked, Asking
<1>7. /\ next.holds = th[t].holds \union {p} /\ next.path = th[t].path /\ next.to = th[t].to
      /\ next.pc \in {"lock", "ask", "look"}
  BY <1>3, <1>4, <1>6
<1>8. LocksSoFar(next)
  <2>1. CASE next = q
    <3>1. Len(Wanted(q)) = 2 /\ q.holds = {Wanted(q)[1]}
      <4>1. Locked(q).pc # q.pc
        BY <1>3, <1>6
      <4>. QED  BY <1>4, <2>1, <4>1
    <3>. QED  BY <1>3, <2>1, <3>1 DEF LocksSoFar
  <2>2. CASE next = Locked(q)
    <3>1. q.path \in q.holds
      <4>1. Locked(q).pc # q.pc
        BY <1>3, <1>6
      <4>. QED  BY <1>4, <2>2, <4>1
    <3>. QED  BY <1>6, <2>2, <3>1 DEF LocksSoFar
  <2>. QED  BY <1>4, <2>1, <2>2
<1>. HIDE DEF next
<1>9. /\ th'[t] = next
      /\ \A u \in Threads \ {t} : th'[u] = th[u]
      /\ locks' = [x \in Paths |-> locks'[x]]
      /\ \A x \in Paths : locks'[x] = IF x = p THEN t ELSE locks[x]
  <2>1. th = [u \in Threads |-> th[u]] /\ locks = [x \in Paths |-> locks[x]]
    BY DEF DaemonInv, CallsAreRecords, LockInv
  <2>2. th' = [th EXCEPT ![t] = next] /\ locks' = [locks EXCEPT ![p] = t]
    BY <1>2
  <2>. QED  BY <1>5, <2>1, <2>2
<1>10. \A u \in Threads : LocksSoFar(th[u])' /\ (th'[u].pc # "idle" => th'[u].to \in Paths)
  <2>1. ASSUME NEW u \in Threads \ {t} PROVE LocksSoFar(th[u])'
    BY <1>1, <1>9, <2>1 DEF LocksSoFar, LockInv, Wanted
  <2>2. LocksSoFar(th[t])'
    BY <1>1, <1>8, <1>9 DEF LocksSoFar, Wanted
  <2>. QED  BY <1>1, <1>7, <1>9, <2>1, <2>2 DEF LockInv
<1>11. LockersAreKnown'
  <2>1. SUFFICES ASSUME NEW x \in Paths, locks'[x] # Nobody
                 PROVE  locks'[x] \in Threads /\ x \in th'[locks'[x]].holds /\ th'[locks'[x]].pc # "unlock"
    BY DEF LockersAreKnown
  <2>2. CASE x = p
    BY <1>7, <1>9, <2>2
  <2>3. CASE x # p
    <3>1. locks'[x] = locks[x] /\ locks[x] \in Threads /\ x \in th[locks[x]].holds /\ th[locks[x]].pc # "unlock"
      BY <1>9, <2>1, <2>3 DEF LockInv, LockersAreKnown
    <3>. QED  BY <1>7, <1>9, <3>1
  <2>. QED  BY <2>2, <2>3
<1>12. fault' = "none" => HeldIsLocked'
  <2>1. SUFFICES ASSUME HeldIsLocked, NEW u \in Threads, th'[u].pc # "unlock", NEW x \in th'[u].holds
                 PROVE  x \in Paths /\ locks'[x] = u
    BY <1>1 DEF HeldIsLocked, LockInv
  <2>2. CASE u = t
    BY <1>1, <1>5, <1>7, <1>9, <2>1, <2>2 DEF HeldIsLocked
  <2>3. CASE u # t
    <3>1. x \in Paths /\ locks[x] = u /\ u # Nobody
      BY <1>9, <2>1, <2>3, MountAssumption DEF HeldIsLocked
    <3>. QED  BY <1>2, <1>9, <3>1
  <2>. QED  BY <2>2, <2>3
<1>. QED  BY <1>9, <1>10, <1>11, <1>12 DEF LockInv

\* A call that begins has nothing, or is refused and leaves its thread as it was.
Begun(q, c) ==
  /\ q.path = c.path /\ q.to = c.to /\ q.holds = {} /\ q.h = None /\ q.got = {} /\ q.arg \in {<<>>, c.path}
  /\ q.pc \in {"lock", "find", "drop", "list", "ask"} /\ q.then # "renamed"

LEMMA BeginAside ==
  ASSUME DaemonInv, NEW t \in Threads, NEW c \in Menu[fmode], Begin(t, c)
  PROVE  /\ th[t].pc = "idle" /\ UNCHANGED <<fmode, locks, fault>>
         /\ \A u \in Threads \ {t} : Aside(th'[u], th[u])
         /\ Begun(th'[t], c) \/ Aside(th'[t], [th[t] EXCEPT !.good = FALSE])
<1>. DEFINE after == Started(t, c, First(c))
            mkdir == Asking(after[t], "fs.mkdir", c.path, "changed")
            stat == Asking(after[t], "fs.stat", c.path, IF OnlyDirectories THEN "dir" ELSE "old")
<1>1. /\ th[t].pc = "idle" /\ DOMAIN th[t] = Fields /\ UNCHANGED <<fmode, locks, fault>>
      /\ fmode \in {FullyWritable} \union Modes
  BY AtHand DEF Begin, MayCall, Busy
<1>2. \/ th' = [th EXCEPT ![t].good = FALSE, ![t].saw = "none"]
      \/ th' = [th EXCEPT ![t].good = FALSE]
      \/ th' = [after EXCEPT ![t] = mkdir]
      \/ th' = [after EXCEPT ![t] = stat]
      \/ First(c) # Refused /\ th' = after
  <2>1. First(c) = "ask" /\ First(c) # Refused => c.op \in {"mkdir", "rename"}
    BY <1>1, FirstIs
  <2>2. CASE First(c) = Refused
    BY <2>2 DEF Begin, Asks, Refused
  <2>3. CASE First(c) = "ask" /\ c.op = "mkdir"
    BY <2>3, StartedEffect DEF Begin, Asks, Refused, DaemonInv
  <2>4. CASE First(c) = "ask" /\ c.op = "rename"
    BY <2>4, StartedEffect DEF Begin, Asks, Refused, DaemonInv
  <2>5. CASE First(c) \notin {Refused, "ask"}
    BY <2>5 DEF Begin, Asks
  <2>. QED  BY <2>1, <2>2, <2>3, <2>4, <2>5
<1>3. /\ after = [u \in Threads |-> after[u]]
      /\ \A u \in Threads \ {t} : Aside(after[u], th[u])
      /\ DOMAIN after[t] = Fields /\ after[t].pc = First(c) /\ after[t].path = c.path /\ after[t].to = c.to
      /\ after[t].holds = {} /\ after[t].h = None /\ after[t].arg = <<>> /\ after[t].got = {}
      /\ after[t].then = "none"
  BY StartedEffect, StartedAside DEF DaemonInv
<1>4. Begun(mkdir, c) /\ Begun(stat, c)
  BY <1>3, FieldNames DEF Asking, Begun
<1>5. First(c) # Refused => Begun(after[t], c)
  BY <1>1, <1>3, FirstIs DEF Begun
<1>. HIDE DEF after, mkdir, stat
<1>6. CASE th' = [th EXCEPT ![t].good = FALSE, ![t].saw = "none"] \/ th' = [th EXCEPT ![t].good = FALSE]
  <2>1. \/ th' = [th EXCEPT ![t] = [th[t] EXCEPT !.good = FALSE, !.saw = "none"]]
        \/ th' = [th EXCEPT ![t] = [th[t] EXCEPT !.good = FALSE]]
    BY <1>6
  <2>2. th = [u \in Threads |-> th[u]]
    BY DEF DaemonInv, CallsAreRecords
  <2>3. \A u \in Threads \ {t} : Aside(th'[u], th[u])
    BY <2>1, <2>2 DEF Aside, AlikeCalls
  <2>4. Aside(th'[t], [th[t] EXCEPT !.good = FALSE])
    <3>1. th'[t] = [th[t] EXCEPT !.good = FALSE, !.saw = "none"] \/ th'[t] = [th[t] EXCEPT !.good = FALSE]
      BY <2>1, <2>2
    <3>2. Aside([th[t] EXCEPT !.good = FALSE, !.saw = "none"], [th[t] EXCEPT !.good = FALSE])
      BY <1>1, FieldNames DEF Aside, AlikeCalls
    <3>. QED  BY <3>1, <3>2 DEF Aside, AlikeCalls
  <2>. QED  BY <1>1, <2>3, <2>4
<1>7. ASSUME NEW q, Begun(q, c), th' = [after EXCEPT ![t] = q]
      PROVE  Begun(th'[t], c) /\ \A u \in Threads \ {t} : Aside(th'[u], th[u])
  BY <1>3, <1>7
<1>8. CASE th' = [after EXCEPT ![t] = mkdir] \/ th' = [after EXCEPT ![t] = stat]
  BY <1>1, <1>4, <1>7, <1>8
<1>9. CASE First(c) # Refused /\ th' = after
  BY <1>1, <1>3, <1>5, <1>9
<1>. QED  BY <1>2, <1>6, <1>8, <1>9

\* Steps that leave the locks alone and change no call in what it has locked.
LEMMA LocksAlone ==
  ASSUME LockInv, UNCHANGED <<fmode, locks, fault>>,
         \A u \in Threads : \/ Aside(th'[u], th[u])
                            \/ /\ th[u].holds = {} /\ th'[u].holds = {} /\ th'[u].to \in Paths
                               /\ th'[u].pc \notin {"look", "put", "unlock"} /\ th'[u].then # "renamed"
  PROVE  LockInv'
<1>1. ASSUME NEW u \in Threads PROVE LocksSoFar(th[u])' /\ (th'[u].pc # "idle" => th'[u].to \in Paths)
  <2>1. CASE Aside(th'[u], th[u])
    BY <2>1, LocksAside DEF LockInv, Aside, AlikeCalls
  <2>2. CASE /\ th[u].holds = {} /\ th'[u].holds = {} /\ th'[u].to \in Paths
             /\ th'[u].pc \notin {"look", "put", "unlock"} /\ th'[u].then # "renamed"
    BY <2>2 DEF LocksSoFar
  <2>. QED  BY <2>1, <2>2
<1>2. LockersAreKnown'
  <2>1. SUFFICES ASSUME NEW p \in Paths, locks[p] # Nobody
                 PROVE  locks[p] \in Threads /\ p \in th'[locks[p]].holds /\ th'[locks[p]].pc # "unlock"
    BY DEF LockersAreKnown
  <2>2. locks[p] \in Threads /\ p \in th[locks[p]].holds /\ th[locks[p]].pc # "unlock"
    BY <2>1 DEF LockInv, LockersAreKnown
  <2>. QED  BY <2>2 DEF Aside, AlikeCalls
<1>3. fault' = "none" => HeldIsLocked'
  BY DEF LockInv, HeldIsLocked, Aside, AlikeCalls
<1>. QED  BY <1>1, <1>2, <1>3 DEF LockInv

LEMMA LockBegin ==
  ASSUME DaemonInv, LockInv, NEW t \in Threads, NEW c \in Menu[fmode], Begin(t, c)
  PROVE  LockInv'
<1>1. c.to \in Paths
  BY MountAssumption DEF DaemonInv
<1>2. th[t].holds = {} /\ th[t].pc = "idle" /\ UNCHANGED <<fmode, locks, fault>>
  BY BeginAside DEF LockInv, LocksSoFar
<1>3. \A u \in Threads \ {t} : Aside(th'[u], th[u])
  BY BeginAside
<1>4. CASE Begun(th'[t], c)
  BY <1>1, <1>2, <1>3, <1>4, LocksAlone DEF Begun
<1>5. CASE Aside(th'[t], [th[t] EXCEPT !.good = FALSE])
  <2>. DEFINE q == [th[t] EXCEPT !.good = FALSE]
  <2>1. q.pc = "idle" /\ q.holds = {}
    BY <1>2, AtHand, FieldNames
  <2>. HIDE DEF q
  <2>2. th'[t].pc = "idle" /\ th'[t].holds = {}
    BY <1>5, <2>1 DEF Aside, AlikeCalls, q
  <2>3. LocksSoFar(th[t])' /\ th'[t].pc = "idle"
    BY <2>2 DEF LocksSoFar
  <2>4. \A u \in Threads : LocksSoFar(th[u])' /\ (th'[u].pc # "idle" => th'[u].to \in Paths)
    <3>1. ASSUME NEW u \in Threads \ {t} PROVE LocksSoFar(th[u])' /\ (th'[u].pc # "idle" => th'[u].to \in Paths)
      BY <1>2, <1>3, LocksAside DEF LockInv, Aside, AlikeCalls
    <3>. QED  BY <2>3, <3>1
  <2>5. LockersAreKnown'
    BY <1>2, <1>3 DEF LockInv, LockersAreKnown, Aside, AlikeCalls
  <2>6. fault' = "none" => HeldIsLocked'
    BY <1>2, <1>3, <2>2 DEF LockInv, HeldIsLocked, Aside, AlikeCalls
  <2>. QED  BY <1>2, <2>4, <2>5, <2>6 DEF LockInv
<1>. QED  BY <1>4, <1>5, BeginAside

\* What the process is left with when it ends.
LEMMA LockDead ==
  ASSUME LockInv, UNCHANGED <<fmode, th, locks>>, fault' = "dead"
  PROVE  LockInv'
BY DEF LockInv, LocksSoFar, LockersAreKnown, Wanted

LEMMA LockStepOf ==
  ASSUME DaemonInv, LockInv, NEW t \in Threads, Proceed(t)
  PROVE  LockInv'
<1>1. UNCHANGED fmode
  BY DEF Proceed, Ask, Lock, Look, Put, Created, TargetSeen, Find, Enter, Uses, Waited, Marked, Seen, Drop, Close,
         Sent, Changed, Removed, OldSeen, DirectorySeen, IntoSeen, NewSeen, Renamed, FlushDirs, UnlockAgain,
         List, Listed, Reread, Quiet
<1>2. th[t].pc # "idle"
  BY DEF Proceed, Ask, Lock, Look, Put, Created, TargetSeen, Find, Enter, Waited, Marked, Seen, Drop, Close,
         Sent, Changed, Removed, OldSeen, DirectorySeen, IntoSeen, NewSeen, Renamed, FlushDirs, UnlockAgain,
         List, Listed, Reread, At, Heard
<1>3. CASE Lock(t)
  BY <1>3, LockTaken
<1>4. CASE th[t].pc = "unlock"
  <2>1. Go(t, Over(th[t], th[t].good))
    BY <1>4 DEF Proceed, Ask, Lock, Look, Put, Created, TargetSeen, Find, Enter, Waited, Marked, Seen, Drop, Close,
         Sent, Changed, Removed, OldSeen, DirectorySeen, IntoSeen, NewSeen, Renamed, FlushDirs, UnlockAgain,
         List, Listed, Reread, At, Heard
  <2>2. Over(th[t], th[t].good).pc = "idle" /\ Continues(th[t], Over(th[t], th[t].good))
    <3>1. DOMAIN th[t] = Fields
      BY AtHand
    <3>2. \A good : Over(th[t], good).pc = "idle"
      BY <3>1, Onward
    <3>3. \A good : Continues(th[t], Over(th[t], good))
      BY <3>1, Ways
    <3>. QED  BY <3>2, <3>3
  <2>. QED  BY <1>1, <1>2, <2>1, <2>2, UnlockStep
<1>5. CASE th[t].pc # "unlock" /\ GoesOn(t)
  BY <1>1, <1>2, <1>5, UnlockStep DEF GoesOn
<1>6. CASE UNCHANGED <<th, locks>> /\ fault' = "dead"
  BY <1>1, <1>6, LockDead
<1>. QED  BY <1>3, <1>4, <1>5, <1>6, ProceedGoesOn

LEMMA LockNext ==
  ASSUME DaemonInv, LockInv, IPCNext
  PROVE  LockInv'
<1>1. ASSUME NEW t \in Threads, NEW c \in Menu[fmode], Begin(t, c) PROVE LockInv'
  BY <1>1, LockBegin
<1>2. ASSUME NEW t \in Threads, Proceed(t) PROVE LockInv'
  BY <1>2, LockStepOf
<1>3. ASSUME NEW h \in Handles, Download(h) PROVE LockInv'
  <2>1. UNCHANGED <<fmode, th, locks, fault>>
    BY <1>3 DEF Download, DownloadBegins, DownloadEnds, DownloadLost, callVars
  <2>2. \A u \in Threads : Aside(th'[u], th[u])
    BY <2>1 DEF Aside, AlikeCalls
  <2>. QED  BY <2>1, <2>2, LocksAlone
<1>4. ASSUME NEW q \in late, th' = Disturbed(q), UNCHANGED <<fmode, made, dirs>>, UNCHANGED ipcVars PROVE LockInv'
  <2>1. \A u \in Threads : Aside(th'[u], th[u])
    BY <1>4, DisturbedAside DEF DaemonInv
  <2>2. UNCHANGED <<fmode, locks, fault>>
    BY <1>4 DEF ipcVars
  <2>. QED  BY <2>1, <2>2, LocksAlone
<1>. QED  BY <1>1, <1>2, <1>3, <1>4 DEF IPCNext

MountLocks == IPCMountInv /\ (front = "daemon" => LockInv)

LEMMA InitLocks == Init => MountLocks
<1>. SUFFICES ASSUME Init PROVE MountLocks
  OBVIOUS
<1>1. \A t \in Threads : th[t].pc = "idle" /\ th[t].holds = {}
  BY DEF Init, Idle
<1>2. locks = [p \in Paths |-> Nobody]
  BY DEF Init, IPCInit
<1>3. LockInv
  BY <1>1, <1>2 DEF LockInv, LocksSoFar, LockersAreKnown, HeldIsLocked
<1>. QED  BY <1>3, InitDaemon DEF MountLocks

LEMMA NextLocks == MountLocks /\ [Next]_vars => MountLocks'
<1>. SUFFICES ASSUME MountLocks, [Next]_vars PROVE MountLocks'
  OBVIOUS
<1>0. IPCMountInv'
  BY NextDaemon DEF MountLocks
<1>1. CASE front = "daemon" /\ IPCNext /\ UNCHANGED front
  BY <1>0, <1>1, LockNext DEF MountLocks, IPCMountInv
<1>2. CASE front = "direct" /\ UNCHANGED front
  BY <1>0, <1>2 DEF MountLocks
<1>3. CASE UNCHANGED vars
  <2>1. UNCHANGED <<fmode, th, locks, fault, front>>
    BY <1>3 DEF vars, callVars, ipcVars
  <2>2. \A u \in Threads : Aside(th'[u], th[u])
    BY <2>1 DEF Aside, AlikeCalls
  <2>. QED  BY <1>0, <2>1, <2>2, LocksAlone DEF MountLocks
<1>. QED  BY <1>1, <1>2, <1>3 DEF Next

LEMMA MountLocksHold == Spec => []MountLocks
BY InitLocks, NextLocks, PTL DEF Spec

\* Of two threads that have locked the same path, one has been robbed of its lock, or is
\* about to unlock it a second time: as long as neither has happened, what the mount
\* does to the table under a path's lock it does alone (ipcfs.go pathLock and its callers).
PathsAreLockedByOne ==
  front = "daemon" /\ fault = "none" =>
    \A t, u \in Threads :
      /\ th[t].pc # "unlock" /\ th[u].pc # "unlock"
      /\ th[t].holds \intersect th[u].holds # {}
      => t = u

THEOREM LocksExclude == Spec => []PathsAreLockedByOne
<1>1. MountLocks => PathsAreLockedByOne
  BY DEF MountLocks, LockInv, HeldIsLocked, PathsAreLockedByOne
<1>. QED  BY <1>1, MountLocksHold, PTL
-----------------------------------------------------------------------------
\* Steps that give no entry of the table another handle, and no handle another name.
SameFile(new, old) ==
  /\ new.path = old.path /\ new.file = old.file /\ new.staged = old.staged
  /\ new.text = old.text \/ new.text \subseteq old.text \union Threads

TableKept ==
  /\ \A p \in Paths : files'[p] \in {files[p], None}
  /\ \A h \in Handles : SameFile(handle'[h], handle[h])

\* A handle nobody holds is made for t's path.
NewEntry(t) ==
  \E h \in Unused : \E new :
    /\ files' = [files EXCEPT ![th[t].path] = h] /\ handle' = [handle EXCEPT ![h] = new]
    /\ new.path = th[t].path /\ new.text = {}
    /\ new.file \in Paths \union {NoPath} /\ (new.staged \/ new.file \in Paths)

LEMMA HandleFields ==
  DOMAIN NewHandle = {"path", "file", "dl", "again", "dirty", "staged", "committed", "disk", "text"}
BY DEF NewHandle

\* A handle in which something else is changed.
LEMMA HandleTouched ==
  ASSUME DaemonInv, NEW h \in Handles, NEW x, NEW new,
         \/ \E f \in {"dl", "again", "dirty", "committed", "disk"} : new = [handle[h] EXCEPT ![f] = x]
         \/ new = [handle[h] EXCEPT !.text = x] /\ x \subseteq handle[h].text \union Threads,
         handle' = [handle EXCEPT ![h] = new], UNCHANGED files
  PROVE  TableKept
<1>1. DOMAIN handle[h] = DOMAIN NewHandle
  BY AtHand DEF DaemonInv, HandlesAreRecords
<1>2. SameFile(new, handle[h])
  BY <1>1, HandleFields DEF SameFile
<1>3. \A g \in Handles : handle'[g] = IF g = h THEN new ELSE handle[g]
  BY DEF DaemonInv, HandlesAreRecords
<1>. QED  BY <1>2, <1>3 DEF TableKept, SameFile

\* What a step of a call does to the table.
LEMMA HandleStepKeeps ==
  ASSUME DaemonInv, NEW t \in Threads, Look(t) \/ Enter(t) \/ Marked(t) \/ Close(t) \/ Sent(t)
  PROVE  TableKept
<1>1. DOMAIN th[t] = Fields /\ Lawful(fmode, th[t]) /\ \A p \in Paths : files[p] \in Handles \union {None}
  BY AtHand
<1>2. CASE UNCHANGED <<files, handle>>
  BY <1>2 DEF TableKept, SameFile
<1>3. ASSUME NEW h, NEW f \in {"dl", "again", "dirty", "committed", "disk"}, NEW x,
             UNCHANGED files, handle' = [handle EXCEPT ![h][f] = x]
      PROVE  TableKept
  <2>1. CASE h \in Handles
    <3>1. handle' = [handle EXCEPT ![h] = [handle[h] EXCEPT ![f] = x]]
      BY <1>3
    <3>. QED  BY <1>3, <2>1, <3>1, HandleTouched
  <2>2. CASE h \notin Handles
    <3>1. handle' = handle
      BY <1>3, <2>2 DEF DaemonInv, HandlesAreRecords
    <3>. QED  BY <1>2, <1>3, <3>1
  <2>. QED  BY <2>1, <2>2
<1>4. CASE Look(t)
  <2>1. \/ UNCHANGED <<files, handle>>
        \/ UNCHANGED files /\ handle' = [handle EXCEPT ![files[th[t].path]].dirty = TRUE]
    BY <1>4 DEF Look, Leave, Table
  <2>. QED  BY <1>2, <1>3, <2>1
<1>5. CASE Enter(t)
  <2>. DEFINE text(old) == IF th[t].op = "write" THEN old \union {t} ELSE {}
              h == th[t].h
  <2>1. \/ UNCHANGED <<files, handle>>
        \/ UNCHANGED files /\ handle' = [handle EXCEPT ![h].text = text(@)]
        \/ UNCHANGED files /\ handle' = [handle EXCEPT ![h].dirty = TRUE]
    BY <1>5 DEF Enter, Uses, Leave, Table
  <2>2. CASE UNCHANGED files /\ handle' = [handle EXCEPT ![h].text = text(@)]
    <3>1. h \in Handles
      BY <1>5 DEF Enter, At, DaemonInv, InHand
    <3>2. DOMAIN handle[h] = DOMAIN NewHandle
      BY <3>1, AtHand
    <3>3. handle' = [handle EXCEPT ![h] = [handle[h] EXCEPT !.text = text(handle[h].text)]]
      BY <2>2, <3>2, HandleFields
    <3>4. text(handle[h].text) \subseteq handle[h].text \union Threads
      OBVIOUS
    <3>. HIDE DEF text
    <3>. QED  BY <2>2, <3>1, <3>3, <3>4, HandleTouched
  <2>. QED  BY <1>2, <1>3, <2>1, <2>2
<1>6. CASE Marked(t)
  <2>1. \/ UNCHANGED <<files, handle>>
        \/ UNCHANGED files /\ handle' = [handle EXCEPT ![th[t].h].dirty = FALSE]
    BY <1>6 DEF Marked, Table
  <2>. QED  BY <1>2, <1>3, <2>1
<1>7. CASE Close(t)
  <2>1. \/ UNCHANGED <<files, handle>>
        \/ UNCHANGED files /\ handle' = [handle EXCEPT ![th[t].h].committed = TRUE]
    BY <1>7 DEF Close, Leave, Table
  <2>. QED  BY <1>2, <1>3, <2>1
<1>8. CASE Sent(t)
  <2>1. UNCHANGED files /\ handle' = [handle EXCEPT ![th[t].h].disk = FALSE]
    BY <1>8 DEF Sent, Table
  <2>. QED  BY <1>3, <2>1
<1>. QED  BY <1>4, <1>5, <1>6, <1>7, <1>8

\* t's call puts the handle it has into the table, or moves an entry.
Shared(t) ==
  /\ th[t].pc = "put" /\ Writes(th[t])
  /\ files' = [files EXCEPT ![th[t].path] = th[t].h] /\ UNCHANGED handle
Moved(t) ==
  /\ th[t].pc = "heard" /\ th[t].then = "renamed" /\ files[th[t].path] # None
  /\ files' = EntryMoved(th[t]) /\ handle' = [handle EXCEPT ![files[th[t].path]].path = th[t].to]

LEMMA EntriesMade ==
  ASSUME DaemonInv, NEW t \in Threads, Put(t) \/ Created(t) \/ TargetSeen(t) \/ Renamed(t)
  PROVE  TableKept \/ NewEntry(t) \/ Shared(t) \/ Moved(t)
<1>0. UNCHANGED <<files, handle>> => TableKept
  BY DEF TableKept, SameFile
<1>1. CASE Put(t)
  <2>1. th[t].path \in Paths /\ th[t].pc = "put"
    BY <1>1, AtHand DEF Put, At
  <2>2. CASE Writes(th[t])
    BY <1>1, <2>1, <2>2 DEF Put, Table, Shared
  <2>3. CASE ~Writes(th[t])
    <3>. DEFINE new == [NewHandle EXCEPT !.path = th[t].path, !.file = th[t].path, !.dl = "asking"]
    <3>1. PICK h \in Unused : files' = [files EXCEPT ![th[t].path] = h] /\ handle' = [handle EXCEPT ![h] = new]
      BY <1>1, <2>3 DEF Put, Table
    <3>2. new.path = th[t].path /\ new.text = {} /\ new.file \in Paths
      BY <2>1 DEF NewHandle
    <3>. HIDE DEF new
    <3>. QED  BY <3>1, <3>2 DEF NewEntry
  <2>. QED  BY <2>2, <2>3
<1>2. CASE Created(t)
  <2>1. th[t].path \in Paths
    BY <1>2, AtHand DEF Created, Heard, At
  <2>2. CASE ~th[t].good
    BY <1>0, <1>2, <2>2 DEF Created, Leave, Table
  <2>3. CASE th[t].good
    <3>. DEFINE new == [NewHandle EXCEPT !.path = th[t].path, !.file = th[t].path, !.dirty = TRUE]
    <3>1. PICK h \in Unused : files' = [files EXCEPT ![th[t].path] = h] /\ handle' = [handle EXCEPT ![h] = new]
      BY <1>2, <2>3 DEF Created, Table
    <3>2. new.path = th[t].path /\ new.text = {} /\ new.file \in Paths
      BY <2>1 DEF NewHandle
    <3>. HIDE DEF new
    <3>. QED  BY <3>1, <3>2 DEF NewEntry
  <2>. QED  BY <2>2, <2>3
<1>3. CASE TargetSeen(t)
  <2>1. CASE th[t].good /\ ~(th[t].op = "openw" /\ th[t].over)
    BY <1>0, <1>3, <2>1 DEF TargetSeen, Leave, Table
  <2>2. CASE ~(th[t].good /\ ~(th[t].op = "openw" /\ th[t].over))
    <3>. DEFINE new == [NewHandle EXCEPT !.path = th[t].path, !.staged = TRUE, !.disk = TRUE]
    <3>1. PICK h \in Unused : files' = [files EXCEPT ![th[t].path] = h] /\ handle' = [handle EXCEPT ![h] = new]
      BY <1>3, <2>2 DEF TargetSeen, Table
    <3>2. new.path = th[t].path /\ new.text = {} /\ new.file = NoPath /\ new.staged
      BY DEF NewHandle
    <3>. HIDE DEF new
    <3>. QED  BY <3>1, <3>2 DEF NewEntry
  <2>. QED  BY <2>1, <2>2
<1>4. CASE Renamed(t)
  BY <1>0, <1>4 DEF Renamed, Leave, Table, Moved, Heard, At
<1>. QED  BY <1>1, <1>2, <1>3, <1>4

LEMMA TableChanges ==
  ASSUME DaemonInv, NEW t \in Threads, Proceed(t)
  PROVE  TableKept \/ NewEntry(t) \/ Shared(t) \/ Moved(t)
<1>0. UNCHANGED <<files, handle>> => TableKept
  BY DEF TableKept, SameFile
<1>1. CASE Ask(t) \/ Lock(t) \/ Find(t) \/ Waited(t) \/ Seen(t) \/ Changed(t) \/ OldSeen(t) \/ DirectorySeen(t)
             \/ IntoSeen(t) \/ NewSeen(t) \/ FlushDirs(t) \/ UnlockAgain(t) \/ (\E e \in Expired : List(t, e))
             \/ Listed(t) \/ Reread(t)
  BY <1>0, <1>1 DEF Ask, Lock, Find, Waited, Seen, Changed, OldSeen, DirectorySeen, IntoSeen, NewSeen, FlushDirs,
         UnlockAgain, List, Listed, Reread, Leave, Table
<1>2. CASE Drop(t) \/ Removed(t)
  <2>1. UNCHANGED handle /\ (files' = files \/ files' = [files EXCEPT ![th[t].path] = None])
    BY <1>2 DEF Drop, Removed, Table
  <2>. QED  BY <2>1 DEF TableKept, SameFile, DaemonInv, HandlesAreRecords
<1>3. CASE Look(t) \/ Enter(t) \/ Marked(t) \/ Close(t) \/ Sent(t)
  BY <1>3, HandleStepKeeps
<1>4. CASE Put(t) \/ Created(t) \/ TargetSeen(t) \/ Renamed(t)
  BY <1>4, EntriesMade
<1>. QED  BY <1>1, <1>2, <1>3, <1>4 DEF Proceed

\* A writer that is about to put its handle into the table was so already, or has just
\* found it there.
LEMMA WritersBefore ==
  ASSUME DaemonInv, NEW t \in Threads, Proceed(t),
         NEW u \in Threads, th'[u].pc = "put", Writes(th'[u])
  PROVE  \/ Aside(th'[u], th[u])
         \/ /\ u = t /\ th[t].pc = "look"
            /\ th'[u].path \in Paths /\ th'[u].h = files[th'[u].path] /\ th'[u].h # None
<1>1. CASE GoesOn(t)
  <2>1. PICK q : Go(t, q) /\ Continues(th[t], q)
    BY <1>1 DEF GoesOn
  <2>2. CASE u # t
    BY <2>1, <2>2, GoAside DEF Continues, DaemonInv
  <2>3. CASE u = t
    <3>1. q.pc \notin {"idle", "refind"} /\ th'[t] = q
      <4>1. DOMAIN q = Fields
        BY <2>1 DEF Continues
      <4>2. q.pc # "idle"
        BY <2>1, <2>3, <4>1, GoAside DEF Blank, DaemonInv
      <4>3. q.pc # "refind"
        <5>1. [q EXCEPT !.holds = {}].pc = q.pc
          BY <4>1, FieldNames
        <5>2. q.pc = "refind" => th'[t] = [q EXCEPT !.holds = {}]
          BY <2>1, <4>1, GoAside DEF DaemonInv
        <5>. QED  BY <2>3, <5>1, <5>2
      <4>. QED  BY <2>1, <4>1, <4>2, <4>3, GoAside DEF DaemonInv
    <3>2. th[t].pc = "look" /\ Writes(th[t]) /\ q.path = th[t].path
      BY <2>1, <2>3, <3>1 DEF Continues, Writes
    <3>. QED  BY <2>1, <2>3, <3>1, <3>2, AtHand DEF Continues
  <2>. QED  BY <2>2, <2>3
<1>2. CASE Lock(t)
  <2>. DEFINE q == [th[t] EXCEPT !.holds = @ \union {NextWanted(th[t])}]
              next == IF Cardinality(q.holds) = Len(Wanted(q)) THEN Locked(q) ELSE q
  <2>1. th' = [th EXCEPT ![t] = next] /\ th[t].pc = "lock"
    BY <1>2 DEF Lock, At
  <2>2. DOMAIN q = Fields /\ q.pc = "lock"
    BY <2>1, AtHand, FieldNames
  <2>. HIDE DEF q
  <2>3. next.pc # "put"
    BY <2>2, FieldNames DEF Locked, Asking
  <2>. HIDE DEF next
  <2>. QED  BY <2>1, <2>3 DEF DaemonInv, CallsAreRecords, Aside, AlikeCalls
<1>3. CASE UNCHANGED th
  BY <1>3 DEF Aside, AlikeCalls
<1>. QED  BY <1>1, <1>2, <1>3, ProceedGoesOn

LEMMA FaultLasts ==
  ASSUME DaemonInv, NEW t \in Threads, Proceed(t), fault' = "none"
  PROVE  fault = "none"
<1>1. ASSUME NEW q, Go(t, q) PROVE fault = "none"
  BY <1>1 DEF Go, Unlock
<1>. QED  BY <1>1, ProceedGoesOn DEF GoesOn, Lock

\* A handle has the name under which it is in the table; so has one that a writer took
\* from there and is about to put back.
NamesAgree ==
  /\ \A p \in Paths : files[p] # None => handle[files[p]].path = p
  /\ \A t \in Threads : th[t].pc = "put" /\ Writes(th[t]) => handle[th[t].h].path = th[t].path

OnceInv == fault = "none" => NamesAgree

LEMMA OnceKept ==
  ASSUME DaemonInv, NamesAgree, TableKept,
         \A u \in Threads : th'[u].pc = "put" /\ Writes(th'[u]) =>
           \/ Aside(th'[u], th[u])
           \/ th'[u].path \in Paths /\ th'[u].h = files[th'[u].path] /\ th'[u].h # None
  PROVE  NamesAgree'
<1>1. \A p \in Paths : files[p] \in Handles \union {None}
  BY DEF DaemonInv, HandlesAreRecords
<1>2. \A p \in Paths : files'[p] # None => handle'[files'[p]].path = p
  BY <1>1 DEF NamesAgree, TableKept, SameFile
<1>3. ASSUME NEW u \in Threads, th'[u].pc = "put", Writes(th'[u])
      PROVE  handle'[th'[u].h].path = th'[u].path
  <2>1. CASE Aside(th'[u], th[u])
    <3>1. th[u].pc = "put" /\ Writes(th[u]) /\ th'[u].h = th[u].h /\ th'[u].path = th[u].path
      BY <1>3, <2>1 DEF Aside, AlikeCalls, Writes
    <3>2. th[u].h \in Handles
      BY <3>1 DEF DaemonInv, InHand
    <3>. QED  BY <3>1, <3>2 DEF NamesAgree, TableKept, SameFile
  <2>2. CASE th'[u].path \in Paths /\ th'[u].h = files[th'[u].path] /\ th'[u].h # None
    BY <1>1, <2>2 DEF NamesAgree, TableKept, SameFile
  <2>. QED  BY <1>3, <2>1, <2>2
<1>. QED  BY <1>2, <1>3 DEF NamesAgree, Writes

LEMMA OnceChanged ==
  ASSUME DaemonInv, LockInv, NamesAgree, fault = "none", NEW t \in Threads, Proceed(t),
         NewEntry(t) \/ Shared(t) \/ Moved(t), th[t].path \in Paths, th[t].to \in Paths
  PROVE  NamesAgree'
<1>1. \A p \in Paths : files[p] \in Handles \union {None}
  BY DEF DaemonInv, HandlesAreRecords
<1>2. /\ \A h : \A p \in Paths : files' = [files EXCEPT ![p] = h] =>
           files'[p] = h /\ \A x \in Paths \ {p} : files'[x] = files[x]
      /\ \A new : \A g \in Handles : handle' = [handle EXCEPT ![g] = new] =>
           handle'[g] = new /\ \A x \in Handles \ {g} : handle'[x] = handle[x]
  BY DEF DaemonInv, HandlesAreRecords
<1>3. \A u \in Threads : th'[u].pc = "put" /\ Writes(th'[u]) =>
        \/ Aside(th'[u], th[u])
        \/ th'[u].path \in Paths /\ th'[u].h = files[th'[u].path] /\ th'[u].h # None
  BY WritersBefore
<1>4. \A u \in Threads : Aside(th'[u], th[u]) /\ th'[u].pc = "put" /\ Writes(th'[u]) =>
        /\ th[u].pc = "put" /\ Writes(th[u]) /\ th'[u].h = th[u].h /\ th'[u].path = th[u].path
        /\ th[u].h \in Handles /\ handle[th[u].h].path = th[u].path
  <2>1. ASSUME NEW u \in Threads, th[u].pc = "put", Writes(th[u])
        PROVE  th[u].h \in Handles /\ handle[th[u].h].path = th[u].path
    BY <2>1 DEF DaemonInv, InHand, NamesAgree
  <2>2. ASSUME NEW u \in Threads, Aside(th'[u], th[u]), th'[u].pc = "put", Writes(th'[u])
        PROVE  th[u].pc = "put" /\ Writes(th[u]) /\ th'[u].h = th[u].h /\ th'[u].path = th[u].path
    BY <2>2 DEF Aside, AlikeCalls, Writes
  <2>. QED  BY <2>1, <2>2
<1>5. CASE NewEntry(t)
  <2>0. PICK h \in Unused : \E new :
          /\ files' = [files EXCEPT ![th[t].path] = h] /\ handle' = [handle EXCEPT ![h] = new]
          /\ new.path = th[t].path
    BY <1>5 DEF NewEntry
  <2>1. PICK new :
          /\ files' = [files EXCEPT ![th[t].path] = h] /\ handle' = [handle EXCEPT ![h] = new]
          /\ new.path = th[t].path
    BY <2>0
  <2>2. h \in Handles /\ (\A p \in Paths : files[p] # None => h # files[p])
        /\ \A u \in Threads : th[u].h # None => h # th[u].h
    <3>1. h \in Handles /\ h \notin InTable /\ h \notin Held
      BY DEF Unused
    <3>2. \A p \in Paths : files[p] # None => files[p] \in InTable
      BY DEF InTable
    <3>3. \A u \in Threads : th[u].h # None => th[u].h \in Held
      BY DEF Held
    <3>. QED  BY <3>1, <3>2, <3>3
  <2>3. h # None
    BY <2>2, IPCAssumption DEF None
  <2>6. handle'[h] = new /\ \A x \in Handles \ {h} : handle'[x] = handle[x]
    BY <2>1, <2>2 DEF DaemonInv, HandlesAreRecords
  <2>4. ASSUME NEW p \in Paths, files'[p] # None PROVE handle'[files'[p]].path = p
    <3>1. CASE p = th[t].path
      <4>1. files'[p] = h
        BY <2>1, <3>1 DEF DaemonInv, HandlesAreRecords
      <4>. QED  BY <2>1, <2>6, <3>1, <4>1
    <3>2. CASE p # th[t].path
      <4>1. files'[p] = files[p]
        BY <1>2, <2>1, <3>2
      <4>2. files[p] \in Handles \ {h} /\ handle[files[p]].path = p
        BY <1>1, <2>2, <2>4, <4>1 DEF NamesAgree
      <4>. QED  BY <2>6, <4>1, <4>2
    <3>. QED  BY <3>1, <3>2
  <2>5. ASSUME NEW u \in Threads, th'[u].pc = "put", Writes(th'[u])
        PROVE  handle'[th'[u].h].path = th'[u].path
    <3>1. th'[u].h \in Handles /\ handle[th'[u].h].path = th'[u].path /\ th'[u].h # h
      <4>1. CASE Aside(th'[u], th[u])
        <5>1. th[u].h # None
          BY <1>4, <2>5, <4>1, IPCAssumption DEF None
        <5>. QED  BY <1>4, <2>2, <2>5, <4>1, <5>1
      <4>2. CASE th'[u].path \in Paths /\ th'[u].h = files[th'[u].path] /\ th'[u].h # None
        BY <1>1, <2>2, <4>2 DEF NamesAgree
      <4>. QED  BY <1>3, <2>5, <4>1, <4>2
    <3>. QED  BY <1>2, <2>1, <2>2, <3>1
  <2>. QED  BY <2>4, <2>5 DEF NamesAgree, Writes
<1>6. CASE Shared(t)
  <2>1. files' = [files EXCEPT ![th[t].path] = th[t].h] /\ UNCHANGED handle /\ handle[th[t].h].path = th[t].path
    BY <1>6 DEF Shared, NamesAgree
  <2>2. \A p \in Paths : files'[p] # None => handle'[files'[p]].path = p
    BY <1>2, <2>1 DEF NamesAgree
  <2>3. ASSUME NEW u \in Threads, th'[u].pc = "put", Writes(th'[u])
        PROVE  handle'[th'[u].h].path = th'[u].path
    BY <1>3, <1>4, <2>1, <2>3 DEF NamesAgree
  <2>. QED  BY <2>2, <2>3 DEF NamesAgree, Writes
<1>7. CASE Moved(t)
  <2>. DEFINE h == files[th[t].path]
              new == [handle[h] EXCEPT !.path = th[t].to]
  <2>1. /\ th[t].pc = "heard" /\ th[t].then = "renamed" /\ h \in Handles
        /\ files' = EntryMoved(th[t]) /\ handle' = [handle EXCEPT ![h] = new]
    BY <1>1, <1>7 DEF Moved
  <2>2. new.path = th[t].to
    BY <2>1, AtHand, HandleFields
  <2>7. handle'[h] = new /\ \A x \in Handles \ {h} : handle'[x] = handle[x]
    BY <2>1 DEF DaemonInv, HandlesAreRecords
  <2>3. \A p \in Paths : files'[p] = CASE p = th[t].path -> None [] p # th[t].path /\ p = th[t].to -> h [] OTHER -> files[p]
    BY <2>1 DEF EntryMoved, DaemonInv, HandlesAreRecords
  <2>4. handle[h].path = th[t].path /\ h # None
    BY <1>7 DEF NamesAgree, Moved
  <2>. HIDE DEF new
  <2>5. \A p \in Paths : files'[p] # None => handle'[files'[p]].path = p
    <3>1. SUFFICES ASSUME NEW p \in Paths, files'[p] # None PROVE handle'[files'[p]].path = p
      OBVIOUS
    <3>2. p # th[t].path
      BY <2>3, <3>1
    <3>3. CASE p = th[t].to
      <4>1. files'[p] = h
        BY <2>3, <3>2, <3>3
      <4>. QED  BY <2>2, <2>7, <3>3, <4>1
    <3>4. CASE p # th[t].to
      <4>1. files'[p] = files[p] /\ files[p] \in Handles /\ handle[files[p]].path = p
        BY <1>1, <2>3, <3>1, <3>2, <3>4 DEF NamesAgree
      <4>. QED  BY <2>4, <2>7, <3>2, <4>1
    <3>. QED  BY <3>3, <3>4
\* Nobody else is about to put the handle back: who is has the path locked, as t has.
  <2>6. ASSUME NEW u \in Threads, th'[u].pc = "put", Writes(th'[u])
        PROVE  handle'[th'[u].h].path = th'[u].path
    <3>1. Aside(th'[u], th[u])
      BY <2>1, <2>6, WritersBefore
    <3>2. /\ th[u].pc = "put" /\ Writes(th[u]) /\ th'[u].h = th[u].h /\ th'[u].path = th[u].path
          /\ th[u].h \in Handles /\ handle[th[u].h].path = th[u].path
      BY <1>4, <2>6, <3>1
    <3>3. th[u].h # h
      <4>1. SUFFICES ASSUME th[u].h = h PROVE FALSE
        OBVIOUS
      <4>2. th[u].path = th[t].path
        BY <2>4, <3>2, <4>1
      <4>3. fmode = FullyWritable
        BY <3>2, AtHand DEF Lawful, Writes
      <4>4. th[t].path \in th[t].holds /\ th[u].path \in th[u].holds
        BY <2>1, <3>2, <4>3 DEF LockInv, LocksSoFar
      <4>5. locks[th[t].path] = t /\ locks[th[u].path] = u
        BY <2>1, <3>2, <4>4 DEF LockInv, HeldIsLocked
      <4>. QED  BY <2>1, <3>2, <4>2, <4>5
    <3>. QED  BY <1>2, <2>1, <3>2, <3>3
  <2>. QED  BY <2>5, <2>6 DEF NamesAgree, Writes
<1>. QED  BY <1>5, <1>6, <1>7

LEMMA OnceProceed ==
  ASSUME DaemonInv, LockInv, OnceInv, NEW t \in Threads, Proceed(t)
  PROVE  OnceInv'
<1>1. SUFFICES ASSUME fault' = "none" PROVE NamesAgree'
  BY DEF OnceInv
<1>2. fault = "none" /\ NamesAgree
  BY <1>1, FaultLasts DEF OnceInv
<1>3. CASE TableKept
  BY <1>2, <1>3, WritersBefore, OnceKept
<1>4. CASE NewEntry(t) \/ Shared(t) \/ Moved(t)
  <2>1. th[t].pc # "idle"
    BY DEF Proceed, Ask, Lock, Look, Put, Created, TargetSeen, Find, Enter, Waited, Marked, Seen, Drop, Close,
         Sent, Changed, Removed, OldSeen, DirectorySeen, IntoSeen, NewSeen, Renamed, FlushDirs, UnlockAgain,
         List, Listed, Reread, At, Heard
  <2>. QED  BY <1>2, <1>4, <2>1, AtHand, OnceChanged DEF LockInv
<1>. QED  BY <1>3, <1>4, TableChanges

\* Steps that are not a call's: no writer begins, and the table is kept.
LEMMA OnceAside ==
  ASSUME DaemonInv, OnceInv, TableKept, fault' = fault,
         \A u \in Threads : th'[u].pc = "put" => Aside(th'[u], th[u])
  PROVE  OnceInv'
BY OnceKept DEF OnceInv

LEMMA OnceNext ==
  ASSUME DaemonInv, LockInv, OnceInv, IPCNext
  PROVE  OnceInv'
<1>0. UNCHANGED <<files, handle>> => TableKept
  BY DEF TableKept, SameFile
<1>1. ASSUME NEW t \in Threads, NEW c \in Menu[fmode], Begin(t, c) PROVE OnceInv'
  <2>1. UNCHANGED <<files, handle, fault>>
    BY <1>1 DEF Begin, Leave, Table
  <2>2. th[t].pc = "idle" /\ (\A u \in Threads \ {t} : Aside(th'[u], th[u])) /\ th'[t].pc # "put"
    <3>1. /\ th[t].pc = "idle" /\ (\A u \in Threads \ {t} : Aside(th'[u], th[u]))
          /\ Begun(th'[t], c) \/ Aside(th'[t], [th[t] EXCEPT !.good = FALSE])
      BY <1>1, BeginAside
    <3>2. [th[t] EXCEPT !.good = FALSE].pc = "idle"
      BY <3>1, AtHand, FieldNames
    <3>3. th'[t].pc # "put"
      BY <3>1, <3>2 DEF Begun, Aside, AlikeCalls
    <3>. QED  BY <3>1, <3>3
  <2>. QED  BY <1>0, <2>1, <2>2, OnceAside
<1>2. ASSUME NEW t \in Threads, Proceed(t) PROVE OnceInv'
  BY <1>2, OnceProceed
<1>3. ASSUME NEW h \in Handles, Download(h) PROVE OnceInv'
  <2>1. UNCHANGED <<th, files, fault>>
    BY <1>3 DEF Download, DownloadBegins, DownloadEnds, DownloadLost, callVars
  <2>2. TableKept
    <3>1. \/ \E dl : handle' = [handle EXCEPT ![h].dl = dl]
          \/ \E dl : handle' = [handle EXCEPT ![h].dl = dl, ![h].again = TRUE]
      BY <1>3 DEF Download, DownloadBegins, DownloadEnds, DownloadLost
    <3>2. DOMAIN handle[h] = DOMAIN NewHandle
      BY DEF DaemonInv, HandlesAreRecords
    <3>3. \A g \in Handles : SameFile(handle'[g], handle[g])
      <4>1. \A dl : SameFile([handle[h] EXCEPT !.dl = dl], handle[h])
        BY <3>2, HandleFields DEF SameFile
      <4>2. \A dl : SameFile([handle[h] EXCEPT !.dl = dl, !.again = TRUE], handle[h])
        BY <3>2, HandleFields DEF SameFile
      <4>3. \A g \in Handles : SameFile(handle[g], handle[g])
        BY DEF SameFile
      <4>4. \/ \E dl : handle' = [handle EXCEPT ![h] = [handle[h] EXCEPT !.dl = dl]]
            \/ \E dl : handle' = [handle EXCEPT ![h] = [handle[h] EXCEPT !.dl = dl, !.again = TRUE]]
        BY <3>1
      <4>5. PICK new : handle' = [handle EXCEPT ![h] = new] /\ SameFile(new, handle[h])
        BY <4>1, <4>2, <4>4
      <4>. QED  BY <4>3, <4>5 DEF DaemonInv, HandlesAreRecords
    <3>. QED  BY <2>1, <3>3 DEF TableKept
  <2>. QED  BY <2>1, <2>2, OnceAside DEF Aside, AlikeCalls
<1>4. ASSUME NEW q \in late, th' = Disturbed(q), UNCHANGED <<fmode, made, dirs>>, UNCHANGED ipcVars PROVE OnceInv'
  <2>1. \A u \in Threads : Aside(th'[u], th[u])
    BY <1>4, DisturbedAside DEF DaemonInv
  <2>2. UNCHANGED <<files, handle, fault>>
    BY <1>4 DEF ipcVars
  <2>. QED  BY <1>0, <2>1, <2>2, OnceAside
<1>. QED  BY <1>1, <1>2, <1>3, <1>4 DEF IPCNext

MountNames ==
  /\ MountLocks
  /\ front = "daemon" => OnceInv
  /\ front = "direct" => \A p \in Paths : files[p] = None

LEMMA InitNames == Init => MountNames
<1>. SUFFICES ASSUME Init PROVE MountNames
  OBVIOUS
<1>1. th = [t \in Threads |-> Idle] /\ files = [p \in Paths |-> None]
  BY DEF Init, IPCInit
<1>2. OnceInv
  BY <1>1 DEF OnceInv, NamesAgree, Idle
<1>. QED  BY <1>1, <1>2, InitLocks DEF MountNames

LEMMA NextNames == MountNames /\ [Next]_vars => MountNames'
<1>. SUFFICES ASSUME MountNames, [Next]_vars PROVE MountNames'
  OBVIOUS
<1>0. MountLocks'
  BY NextLocks DEF MountNames
<1>1. CASE front = "daemon" /\ IPCNext /\ UNCHANGED front
  BY <1>0, <1>1, OnceNext DEF MountNames, MountLocks, IPCMountInv
<1>2. CASE front = "direct" /\ CloudNext /\ UNCHANGED front /\ UNCHANGED ipcVars
  BY <1>0, <1>2 DEF MountNames, ipcVars
<1>3. CASE UNCHANGED vars
  <2>1. UNCHANGED <<th, files, handle, fault, front>>
    BY <1>3 DEF vars, callVars, ipcVars
  <2>. QED  BY <1>0, <2>1 DEF MountNames, OnceInv, NamesAgree, Writes
<1>. QED  BY <1>1, <1>2, <1>3 DEF Next

LEMMA MountNamesHold == Spec => []MountNames
BY InitNames, NextNames, PTL DEF Spec

\* An open file is in the mount's table under its own name only (ipcfs.go Open,
\* ensureHandleWithOptions, Rename, Unlink, Release and the path locks they take).
THEOREM FilesOpenOnce == Spec => []HandleOnce
<1>1. MountNames => HandleOnce
  <2>1. CASE front = "daemon"
    BY <2>1 DEF MountNames, OnceInv, NamesAgree, HandleOnce
  <2>2. CASE front = "direct"
    BY <2>2 DEF MountNames, HandleOnce
  <2>. QED  BY <2>1, <2>2 DEF MountNames, MountLocks, IPCMountInv
<1>. QED  BY <1>1, MountNamesHold, PTL
-----------------------------------------------------------------------------
(***************************************************************************)
(* The read-only mount: who downloads, and for whom the others wait.       *)
(***************************************************************************)

\* The mount over the daemon is where calls come to these points.
Elsewhere == {"lock", "enter", "close", "look", "flush"}

\* Whoever has put its channel into loading, or has taken the cache's lock, is on the
\* way of a download.
DirectInvMore ==
  /\ \A t \in Threads :
       /\ th[t].pc \notin Elsewhere /\ th[t].got \subseteq Paths
       /\ th[t].pc = "guard" => th[t].op = "open"
  /\ \A p \in Paths : loading[p] # Nobody =>
       /\ loading[p] \in Threads /\ th[loading[p]].path = p /\ th[loading[p]].op = "open"
       /\ th[loading[p]].pc \in {"download", "downloading", "announce"}
  /\ cacheLock # Nobody =>
       /\ cacheLock \in Threads /\ th[cacheLock].op # "open"
       /\ th[cacheLock].pc \in {"download", "downloading", "publish"}

\* How a call goes on here; it loads its path, or keeps the cache's lock, as holds says.
Goes(t, q, loads, keeps) ==
  /\ CloudGo(t, q) /\ DOMAIN q = Fields /\ th[t].pc # "idle"
  /\ q.path = th[t].path /\ q.op = th[t].op /\ q.pc \notin Elsewhere /\ (q.pc = "guard" => q.op = "open")
  /\ q.got = th[t].got \/ q.got \subseteq Paths
  /\ loads => q.op = "open" /\ q.pc \in {"download", "downloading", "announce"}
  /\ keeps => q.op # "open" /\ q.pc \in {"download", "downloading", "publish"}
  /\ \A p \in Paths : IF loading'[p] = t THEN loads /\ p = q.path
                      ELSE loading'[p] = Nobody \/ loading'[p] = loading[p]
  /\ IF cacheLock' = t THEN keeps ELSE cacheLock' = Nobody \/ cacheLock' = cacheLock

LEMMA CloudGoAside ==
  ASSUME CallsAreRecords, NEW t \in Threads, NEW q, DOMAIN q = Fields, CloudGo(t, q)
  PROVE  /\ \A u \in Threads \ {t} : Aside(th'[u], th[u])
         /\ q.pc = "idle" => Blank(th'[t])
         /\ q.pc # "idle" => th'[t] = q
<1>1. CASE q.pc = "idle"
  <2>1. th' = Finished(t, q)
    BY <1>1 DEF CloudGo
  <2>. QED  BY <1>1, <2>1, FinishedAside
<1>2. CASE q.pc # "idle"
  <2>1. th' = [th EXCEPT ![t] = q]
    BY <1>2 DEF CloudGo
  <2>. QED  BY <1>2, <2>1 DEF CallsAreRecords, Aside, AlikeCalls
<1>. QED  BY <1>1, <1>2

LEMMA GoesStep ==
  ASSUME DirectInv, DirectInvMore, NEW t \in Threads, NEW q, NEW loads, NEW keeps, Goes(t, q, loads, keeps)
  PROVE  DirectInvMore'
<1>1. /\ \A u \in Threads \ {t} : Aside(th'[u], th[u])
      /\ q.pc = "idle" => Blank(th'[t])
      /\ q.pc # "idle" => th'[t] = q
  BY CloudGoAside DEF Goes, DirectInv
<1>2. \A u \in Threads : /\ th'[u].pc \notin Elsewhere /\ th'[u].got \subseteq Paths
                         /\ th'[u].pc = "guard" => th'[u].op = "open"
  BY <1>1 DEF Goes, DirectInvMore, Aside, AlikeCalls, Blank, Elsewhere
<1>3. ASSUME NEW p \in Paths, loading'[p] # Nobody
      PROVE  /\ loading'[p] \in Threads /\ th'[loading'[p]].path = p /\ th'[loading'[p]].op = "open"
             /\ th'[loading'[p]].pc \in {"download", "downloading", "announce"}
  <2>1. CASE loading'[p] = t
    BY <1>1, <2>1 DEF Goes
  <2>2. CASE loading'[p] # t
    <3>1. loading'[p] = loading[p]
      BY <1>3, <2>2 DEF Goes
    <3>. QED  BY <1>1, <1>3, <2>2, <3>1 DEF DirectInvMore, Aside, AlikeCalls
  <2>. QED  BY <2>1, <2>2
<1>4. ASSUME cacheLock' # Nobody
      PROVE  /\ cacheLock' \in Threads /\ th'[cacheLock'].op # "open"
             /\ th'[cacheLock'].pc \in {"download", "downloading", "publish"}
  <2>1. CASE cacheLock' = t
    BY <1>1, <2>1 DEF Goes
  <2>2. CASE cacheLock' # t
    <3>1. cacheLock' = cacheLock
      BY <1>4, <2>2 DEF Goes
    <3>. QED  BY <1>1, <1>4, <2>2, <3>1 DEF DirectInvMore, Aside, AlikeCalls
  <2>. QED  BY <2>1, <2>2
<1>. QED  BY <1>2, <1>3, <1>4 DEF DirectInvMore

\* A thread that is not on the way of a download has nothing of one in hand.
LEMMA NoDownload ==
  ASSUME DirectInv, DirectInvMore, NEW t \in Threads, UNCHANGED <<loading, cacheLock>>,
         th[t].pc \notin {"idle", "download", "downloading", "announce", "publish"},
         NEW q, CloudGo(t, q), DOMAIN q = Fields, q.path = th[t].path, q.op = th[t].op,
         q.pc \notin Elsewhere, q.pc = "guard" => q.op = "open", q.got = th[t].got \/ q.got \subseteq Paths
  PROVE  Goes(t, q, FALSE, FALSE)
<1>1. (\A p \in Paths : loading[p] # t) /\ cacheLock # t
  BY MountAssumption DEF DirectInvMore
<1>. QED  BY <1>1 DEF Goes

LEMMA PlainGoes ==
  ASSUME DirectInv, DirectInvMore, NEW t \in Threads,
         \/ Stat(t) \/ LookUp(t) \/ WaitOver(t) \/ Recheck(t) \/ ReadFile(t) \/ CloudRelease(t)
         \/ ListDir(t) \/ StoreListing(t)
  PROVE  \E q, loads, keeps : Goes(t, q, loads, keeps)
<1>0. DOMAIN th[t] = Fields
  BY DEF DirectInv, CallsAreRecords
<1>1. UNCHANGED <<loading, cacheLock>>
  BY DEF Stat, LookUp, WaitOver, Recheck, ReadFile, CloudRelease, ListDir, StoreListing, Still, cloudVars
<1>2. th[t].pc \in {"stat", "lookup", "wait", "recheck", "read", "release", "list", "listed"}
  BY DEF Stat, LookUp, WaitOver, Recheck, ReadFile, CloudRelease, ListDir, StoreListing, CloudAt
<1>. DEFINE Fits(q) == /\ DOMAIN q = Fields /\ q.path = th[t].path /\ q.op = th[t].op
                       /\ q.pc \notin Elsewhere /\ (q.pc = "guard" => q.op = "open")
                       /\ (q.got = th[t].got \/ q.got \subseteq Paths)
<1>3. /\ \A good : Fits(Over(th[t], good))
      /\ \A saw, good : Fits(Over([th[t] EXCEPT !.saw = saw], good))
      /\ \A pc : pc \notin Elsewhere /\ (pc = "guard" => th[t].op = "open") => Fits(To(th[t], pc)) /\ Fits([To(th[t], pc) EXCEPT !.then = "none"])
      /\ \A pc, d : pc \notin Elsewhere \union {"guard"} => Fits([To(th[t], pc) EXCEPT !.got = Entries(d)])
  <2>1. \A good : Fits(Over(th[t], good))
    BY <1>0, FieldNames DEF Over, Elsewhere
  <2>2. \A saw, good : Fits(Over([th[t] EXCEPT !.saw = saw], good))
    BY <1>0, FieldNames DEF Over, Elsewhere
  <2>3. \A pc : pc \notin Elsewhere /\ (pc = "guard" => th[t].op = "open") => Fits(To(th[t], pc)) /\ Fits([To(th[t], pc) EXCEPT !.then = "none"])
    BY <1>0, FieldNames DEF To
  <2>4. ASSUME NEW pc, NEW d, pc \notin Elsewhere \union {"guard"} PROVE Fits([To(th[t], pc) EXCEPT !.got = Entries(d)])
    <3>1. Entries(d) \subseteq Paths
      BY DEF Entries
    <3>. HIDE DEF Entries
    <3>. QED  BY <1>0, <2>4, <3>1, FieldNames DEF To
  <2>. QED  BY <2>1, <2>2, <2>3, <2>4
<1>4. \E q : CloudGo(t, q) /\ Fits(q)
  <2>. HIDE DEF Fits
  <2>1. {"lookup", "list", "fetch", "guard", "read", "stat", "recheck", "listed"} \intersect Elsewhere = {}
    BY DEF Elsewhere
  <2>2. CASE Stat(t)
    <3>1. \/ \E good : CloudGo(t, Over(th[t], good))
          \/ \E pc \in {"lookup", "list", "fetch"} : CloudGo(t, To(th[t], pc))
      BY <2>2 DEF Stat
    <3>. QED  BY <1>3, <2>1, <3>1
  <2>3. CASE LookUp(t)
    <3>1. \/ \E good : CloudGo(t, Over(th[t], good))
          \/ \E pc \in {"guard", "read", "stat"} : CloudGo(t, To(th[t], pc)) /\ (pc = "guard" => th[t].op = "open")
      BY <2>3 DEF LookUp
    <3>. QED  BY <1>3, <2>1, <3>1
  <2>4. CASE WaitOver(t)
    BY <1>3, <2>1, <2>4 DEF WaitOver
  <2>5. CASE Recheck(t) \/ CloudRelease(t)
    BY <1>3, <2>5 DEF Recheck, CloudRelease
  <2>6. CASE ReadFile(t)
    <3>1. \E saw, good : CloudGo(t, Over([th[t] EXCEPT !.saw = saw], good))
      BY <2>6 DEF ReadFile
    <3>. QED  BY <1>3, <3>1
  <2>7. CASE ListDir(t)
    <3>1. \/ \E good : CloudGo(t, Over(th[t], good))
          \/ CloudGo(t, [To(th[t], "listed") EXCEPT !.got = Entries(Listed2(th[t]))])
      BY <2>7 DEF ListDir, AfterList
    <3>. QED  BY <1>3, <2>1, <3>1
  <2>8. CASE StoreListing(t)
    BY <1>3, <2>8 DEF StoreListing, AfterList
  <2>. QED  BY <2>2, <2>3, <2>4, <2>5, <2>6, <2>7, <2>8
<1>5. PICK q : CloudGo(t, q) /\ Fits(q)
  BY <1>4
<1>. QED  BY <1>1, <1>2, <1>5, NoDownload

LEMMA DownloadGoes ==
  ASSUME DirectInv, DirectInvMore, NEW t \in Threads,
         Guard(t) \/ Fetch(t) \/ DownloadStarts(t) \/ DownloadStops(t) \/ Announce(t) \/ Publish(t)
  PROVE  \E q, loads, keeps : Goes(t, q, loads, keeps)
<1>0. DOMAIN th[t] = Fields /\ Nobody # t
  BY MountAssumption DEF DirectInv, CallsAreRecords
\* What is known of t's own download before the step.
<1>1. /\ \A p \in Paths : loading[p] = t =>
           th[t].path = p /\ th[t].op = "open" /\ th[t].pc \in {"download", "downloading", "announce"}
      /\ cacheLock = t => th[t].op # "open" /\ th[t].pc \in {"download", "downloading", "publish"}
  BY <1>0 DEF DirectInvMore
<1>2. \A pc : /\ DOMAIN To(th[t], pc) = Fields /\ To(th[t], pc).pc = pc /\ To(th[t], pc).op = th[t].op
              /\ To(th[t], pc).path = th[t].path /\ To(th[t], pc).got = th[t].got
  BY <1>0, FieldNames DEF To
<1>3. \A good : /\ DOMAIN Over(th[t], good) = Fields /\ Over(th[t], good).pc = "idle" /\ Over(th[t], good).op = th[t].op
                /\ Over(th[t], good).path = th[t].path /\ Over(th[t], good).got = th[t].got
  BY <1>0, FieldNames DEF Over
<1>4. loading = [p \in Paths |-> loading[p]] /\ (th[t].pc # "idle" => th[t].path \in Paths)
  BY DEF DirectInv, CallsAreSound
<1>5. CASE Guard(t)
  <2>1. th[t].pc = "guard" /\ UNCHANGED cacheLock
    BY <1>5 DEF Guard, CloudAt
  <2>2. CASE loading[th[t].path] # Nobody
    <3>. DEFINE q == [To(th[t], "wait") EXCEPT !.then = loading[th[t].path]]
    <3>1. CloudGo(t, q) /\ UNCHANGED loading
      BY <1>5, <2>2 DEF Guard
    <3>2. /\ DOMAIN q = Fields /\ q.pc = "wait" /\ q.op = th[t].op /\ q.path = th[t].path /\ q.got = th[t].got
      BY <1>0, FieldNames DEF To
    <3>. HIDE DEF q
    <3>. QED  BY <2>1, <3>1, <3>2, NoDownload DEF Elsewhere
  <2>3. CASE loading[th[t].path] = Nobody
    <3>1. CloudGo(t, To(th[t], "download")) /\ loading' = [loading EXCEPT ![th[t].path] = t]
      BY <1>5, <2>3 DEF Guard
    <3>2. \A p \in Paths : loading'[p] = IF p = th[t].path THEN t ELSE loading[p]
      BY <1>4, <3>1
    <3>. DEFINE q == To(th[t], "download")
    <3>3. Goes(t, q, th[t].op = "open", FALSE)
      <4>1. th[t].op = "open"
        BY <2>1 DEF DirectInvMore
      <4>. QED  BY <1>1, <1>2, <2>1, <3>1, <3>2, <4>1 DEF Goes, Elsewhere
    <3>. QED  BY <3>3
  <2>. QED  BY <2>2, <2>3
<1>6. CASE Fetch(t)
  <2>1. /\ th[t].pc = "fetch" /\ UNCHANGED loading /\ cacheLock' = t /\ CloudGo(t, To(th[t], "download"))
        /\ th[t].op # "open"
    BY <1>6 DEF Fetch, CloudAt, DirectInv, CallsAreSound
  <2>2. Goes(t, To(th[t], "download"), FALSE, TRUE)
    BY <1>1, <1>2, <2>1 DEF Goes, Elsewhere
  <2>. QED  BY <2>2
<1>7. CASE DownloadStarts(t)
  <2>1. th[t].pc = "download" /\ UNCHANGED <<loading, cacheLock>> /\ CloudGo(t, To(th[t], "downloading"))
    BY <1>7 DEF DownloadStarts, CloudAt, cloudVars
  <2>2. Goes(t, To(th[t], "downloading"), th[t].op = "open", th[t].op # "open")
    BY <1>1, <1>2, <2>1 DEF Goes, Elsewhere
  <2>. QED  BY <2>2
<1>8. CASE DownloadStops(t)
  <2>. DEFINE pc == IF th[t].op = "open" THEN "announce" ELSE "publish"
              q(good) == [To(th[t], pc) EXCEPT !.good = good]
  <2>1. th[t].pc = "downloading" /\ UNCHANGED <<loading, cacheLock>>
    BY <1>8 DEF DownloadStops, CloudAt, cloudVars
  <2>2. \E good : CloudGo(t, q(good))
    BY <1>8 DEF DownloadStops
  <2>3. \A good : /\ DOMAIN q(good) = Fields /\ q(good).pc = pc /\ q(good).op = th[t].op
                  /\ q(good).path = th[t].path /\ q(good).got = th[t].got
    BY <1>0, FieldNames DEF To
  <2>. HIDE DEF q
  <2>4. ASSUME NEW good, CloudGo(t, q(good)) PROVE Goes(t, q(good), th[t].op = "open", th[t].op # "open")
    BY <1>1, <2>1, <2>3, <2>4 DEF Goes, Elsewhere
  <2>. QED  BY <2>2, <2>4
<1>9. CASE Announce(t)
  <2>1. /\ th[t].pc = "announce" /\ UNCHANGED cacheLock /\ loading' = [loading EXCEPT ![th[t].path] = Nobody]
        /\ CloudGo(t, To(th[t], "publish")) \/ CloudGo(t, Over(th[t], FALSE))
    BY <1>9 DEF Announce, CloudAt
  <2>2. \A p \in Paths : loading'[p] = IF p = th[t].path THEN Nobody ELSE loading[p]
    BY <1>4, <2>1
  <2>3. (\A p \in Paths : loading'[p] # t) /\ cacheLock # t
    BY <1>0, <1>1, <2>1, <2>2
  <2>4. CASE CloudGo(t, To(th[t], "publish"))
    <3>1. Goes(t, To(th[t], "publish"), FALSE, FALSE)
      BY <1>2, <2>1, <2>2, <2>3, <2>4 DEF Goes, Elsewhere
    <3>. QED  BY <3>1
  <2>5. CASE CloudGo(t, Over(th[t], FALSE))
    <3>1. Goes(t, Over(th[t], FALSE), FALSE, FALSE)
      BY <1>3, <2>1, <2>2, <2>3, <2>5 DEF Goes, Elsewhere
    <3>. QED  BY <3>1
  <2>. QED  BY <2>1, <2>4, <2>5
<1>10. CASE Publish(t)
  <2>1. /\ th[t].pc = "publish" /\ UNCHANGED loading /\ cacheLock' = IF cacheLock = t THEN Nobody ELSE cacheLock
        /\ CloudGo(t, To(th[t], "read")) \/ \E good : CloudGo(t, Over(th[t], good))
    BY <1>10 DEF Publish, CloudAt
  <2>2. (\A p \in Paths : loading[p] # t) /\ cacheLock' # t
    BY <1>0, <1>1, <2>1
  <2>3. CASE CloudGo(t, To(th[t], "read"))
    <3>1. Goes(t, To(th[t], "read"), FALSE, FALSE)
      BY <1>2, <2>1, <2>2, <2>3 DEF Goes, Elsewhere
    <3>. QED  BY <3>1
  <2>4. ASSUME NEW good, CloudGo(t, Over(th[t], good)) PROVE Goes(t, Over(th[t], good), FALSE, FALSE)
    BY <1>3, <2>1, <2>2, <2>4 DEF Goes, Elsewhere
  <2>. QED  BY <2>1, <2>3, <2>4
<1>. QED  BY <1>5, <1>6, <1>7, <1>8, <1>9, <1>10

LEMMA DirectNext ==
  ASSUME DirectInv, DirectInvMore, CloudNext
  PROVE  DirectInvMore'
<1>1. ASSUME NEW t \in Threads, NEW c \in Menu[fmode], CloudBegin(t, c) PROVE DirectInvMore'
  <2>. DEFINE pc == CASE c.op \in {"open", "getattr"} -> "stat"
                      [] c.op \in {"read", "peek"} -> "lookup"
                      [] c.op = "readdir" -> "list"
                      [] c.op = "release" -> "release"
                      [] OTHER -> "refused"
  <2>1. pc \in {"stat", "lookup", "list", "release", "refused"} /\ th[t].pc = "idle" /\ DOMAIN th[t] = Fields
    BY <1>1 DEF CloudBegin, MayCall, Busy, DirectInv, CallsAreRecords
  <2>2. th' = IF pc = "refused" THEN [th EXCEPT ![t].good = FALSE, ![t].saw = "none"] ELSE Started(t, c, pc)
    BY <1>1 DEF CloudBegin
  <2>3. UNCHANGED <<loading, cacheLock>>
    BY <1>1 DEF CloudBegin, cloudVars
  <2>. HIDE DEF pc
  <2>4. /\ \A u \in Threads \ {t} : Aside(th'[u], th[u])
        /\ th'[t].pc \notin Elsewhere \union {"guard"} /\ (th'[t].got = {} \/ th'[t].got = th[t].got)
    <3>1. CASE pc = "refused"
      <4>. DEFINE q == [th[t] EXCEPT !.good = FALSE, !.saw = "none"]
      <4>1. th' = [th EXCEPT ![t] = q]
        BY <2>2, <3>1
      <4>2. q.pc = "idle" /\ q.got = th[t].got
        BY <2>1, FieldNames
      <4>. HIDE DEF q
      <4>. QED  BY <4>1, <4>2 DEF Elsewhere, Aside, AlikeCalls, DirectInv, CallsAreRecords
    <3>2. CASE pc # "refused"
      <4>1. th' = Started(t, c, pc)
        BY <2>2, <3>2
      <4>. QED  BY <2>1, <4>1, StartedAside DEF DirectInv, Elsewhere
    <3>. QED  BY <3>1, <3>2
  <2>5. (\A p \in Paths : loading[p] # t) /\ cacheLock # t
    BY <2>1, MountAssumption DEF DirectInvMore
  <2>. QED  BY <2>3, <2>4, <2>5 DEF DirectInvMore, Aside, AlikeCalls
<1>2. ASSUME NEW t \in Threads, \E q, loads, keeps : Goes(t, q, loads, keeps) PROVE DirectInvMore'
  BY <1>2, GoesStep
<1>. QED  BY <1>1, <1>2, PlainGoes, DownloadGoes DEF CloudNext
-----------------------------------------------------------------------------
(***************************************************************************)
(* Nobody waits in a circle: the locks a circle of threads waited for      *)
(* would be ever later in the order, and there is a last one.              *)
(***************************************************************************)

\* In a finite set the numbers of its elements do not rise without end.
LEMMA NoEndlessRise ==
  ASSUME NEW S, IsFiniteSet(S), NEW f, \A x \in S : f[x] \in Int,
         \A x \in S : \E y \in S : f[x] < f[y]
  PROVE  S = {}
<1>. DEFINE above(x) == {y \in S : f[x] < f[y]}
            I == {above(x) : x \in S}
            Less == StrictSubsetOrdering(S)
<1>1. SUFFICES ASSUME S # {} PROVE FALSE
  OBVIOUS
<1>2. I \subseteq SUBSET S /\ I # {}
  BY <1>1
<1>3. IsWellFoundedOn(Less, SUBSET S)
  BY FS_StrictSubsetOrderingWellFounded, FS_FiniteSubsetsOfFinite
<1>4. PICK A \in I : \A B \in I : <<B, A>> \notin Less
  <2>. HIDE DEF I, Less
  <2>. QED  BY <1>2, <1>3, WFMin, ZenonT(30)
<1>5. PICK x \in S : A = above(x)
  BY <1>4
<1>6. PICK y \in S : f[x] < f[y]
  OBVIOUS
<1>7. above(y) \subseteq above(x) /\ y \in above(x) /\ y \notin above(y)
  BY <1>6
<1>8. <<above(y), A>> \in Less
  BY <1>5, <1>7 DEF StrictSubsetOrdering
<1>. QED  BY <1>4, <1>8

\* A thread at a lock waits for one that is at a lock later in the order, if at all for
\* one that is at a lock.
LEMMA LocksRise ==
  ASSUME DaemonInv, LockInv, NEW t \in Threads, th[t].pc = "lock", NEW u \in Threads, th[u].pc = "lock",
         u = locks[NextWanted(th[t])]
  PROVE  /\ Rank[NextWanted(th[t])] \in Int /\ Rank[NextWanted(th[u])] \in Int
         /\ Rank[NextWanted(th[t])] < Rank[NextWanted(th[u])]
<1>1. ASSUME NEW v \in Threads, th[v].pc = "lock"
      PROVE  \/ th[v].holds = {} /\ NextWanted(th[v]) = Wanted(th[v])[1] /\ NextWanted(th[v]) \in Paths
             \/ /\ th[v].holds = {Wanted(th[v])[1]} /\ NextWanted(th[v]) = Wanted(th[v])[2]
                /\ NextWanted(th[v]) \in Paths /\ Rank[Wanted(th[v])[1]] < Rank[NextWanted(th[v])]
  <2>1. th[v].path \in Paths /\ th[v].to \in Paths /\ LocksSoFar(th[v])
    BY <1>1, AtHand DEF LockInv
  <2>2. CASE th[v].holds = {}
    <3>1. NextWanted(th[v]) = Wanted(th[v])[1]
      <4>1. Cardinality(th[v].holds) = 0
        BY <2>2, OneOrTwo
      <4>. QED  BY <4>1 DEF NextWanted
    <3>2. Wanted(th[v])[1] \in Paths
      BY <2>1, WantedIs
    <3>. QED  BY <2>2, <3>1, <3>2
  <2>3. CASE th[v].holds # {}
    <3>1. Len(Wanted(th[v])) = 2 /\ th[v].holds = {Wanted(th[v])[1]}
      BY <1>1, <2>1, <2>3 DEF LocksSoFar
    <3>2. NextWanted(th[v]) = Wanted(th[v])[2]
      <4>1. Cardinality(th[v].holds) = 1
        BY <3>1, OneOrTwo
      <4>. QED  BY <4>1 DEF NextWanted
    <3>. QED  BY <2>1, <3>1, <3>2, WantedIs
  <2>. QED  BY <2>2, <2>3
<1>2. NextWanted(th[t]) \in Paths /\ NextWanted(th[u]) \in Paths
  BY <1>1
<1>3. NextWanted(th[t]) \in th[u].holds
  BY <1>2, MountAssumption DEF LockInv, LockersAreKnown
<1>4. NextWanted(th[t]) = Wanted(th[u])[1] /\ Rank[Wanted(th[u])[1]] < Rank[NextWanted(th[u])]
  BY <1>1, <1>3
<1>. QED  BY <1>2, <1>4, IPCAssumption

LEMMA NoCircleOfLocks ==
  ASSUME DaemonInv, LockInv, front = "daemon", cacheLock = Nobody,
         NEW circle \in SUBSET Threads, \A t \in circle : WaitsFor(t) \intersect circle # {}
  PROVE  circle = {}
<1>1. ASSUME NEW t \in circle PROVE th[t].pc # "wait"
  <2>1. th[t].pc = "wait" => WaitsFor(t) = {}
    BY DEF WaitsFor
  <2>. QED  BY <2>1
<1>2. \A h : Waiting(h) \intersect circle = {}
  BY <1>1 DEF Waiting
<1>3. ASSUME NEW t \in circle PROVE th[t].pc = "lock" /\ WaitsFor(t) = {locks[NextWanted(th[t])]} \ {Nobody}
  <2>1. PICK u \in circle : u \in WaitsFor(t)
    OBVIOUS
  <2>2. \A h : u \notin Waiting(h)
    BY <1>2
  <2>3. th[t].pc = "lock"
    <3>1. CASE th[t].pc \in {"enter", "close"}
      BY <2>1, <2>2, <3>1 DEF WaitsFor
    <3>2. CASE th[t].pc = "look"
      BY <2>1, <2>2, <3>2 DEF WaitsFor
    <3>3. CASE th[t].pc \in {"lookup", "recheck", "fetch", "publish"}
      BY <2>1, <3>3 DEF WaitsFor
    <3>4. CASE th[t].pc \notin {"lock", "enter", "close", "look", "lookup", "recheck", "fetch", "publish"}
      BY <2>1, <3>4 DEF WaitsFor
    <3>. QED  BY <3>1, <3>2, <3>3, <3>4
  <2>. QED  BY <2>3 DEF WaitsFor
<1>. DEFINE f == [t \in circle |-> Rank[NextWanted(th[t])]]
<1>4. ASSUME NEW t \in circle PROVE f[t] \in Int /\ \E u \in circle : f[t] < f[u]
  <2>1. PICK u \in circle : u \in WaitsFor(t)
    OBVIOUS
  <2>2. u = locks[NextWanted(th[t])] /\ th[t].pc = "lock" /\ th[u].pc = "lock"
    BY <1>3, <2>1
  <2>. QED  BY <2>2, LocksRise
<1>5. IsFiniteSet(circle)
  BY MountAssumption, FS_Subset
<1>. HIDE DEF f
<1>. QED  BY <1>4, <1>5, NoEndlessRise

\* Here whoever is waited for waits for nobody.
LEMMA NoCircleOfDownloads ==
  ASSUME DirectInv, DirectInvMore, front = "direct",
         NEW t \in Threads, NEW u \in Threads, u \in WaitsFor(t)
  PROVE  WaitsFor(u) = {}
<1>1. th[t].pc \notin Elsewhere
  BY DEF DirectInvMore
<1>2. CASE th[t].pc = "wait"
  <2>1. WaitsFor(t) = {loading[th[t].path]} \intersect {th[t].then}
    BY <1>2 DEF WaitsFor
  <2>2. u = loading[th[t].path] /\ u # Nobody /\ th[t].path \in Paths
    BY <1>2, <2>1, MountAssumption DEF DirectInv, CallsAreSound
  <2>3. th[u].pc \in {"download", "downloading", "announce"}
    BY <2>2 DEF DirectInvMore
  <2>. QED  BY <2>3 DEF WaitsFor
<1>3. CASE th[t].pc \in {"lookup", "recheck", "fetch", "publish"}
  <2>1. u = cacheLock /\ u # Nobody
    BY <1>3 DEF WaitsFor
  <2>2. u \in Threads /\ th[u].pc \in {"download", "downloading", "publish"}
    BY <2>1 DEF DirectInvMore
  <2>3. WaitsFor(u) = {}
    BY <2>1, <2>2 DEF WaitsFor
  <2>. QED  BY <2>2, <2>3
<1>. QED  BY <1>1, <1>2, <1>3 DEF WaitsFor, Elsewhere

MountWaits ==
  /\ MountNames /\ MountInv
  /\ front = "daemon" => cacheLock = Nobody
  /\ front = "direct" => DirectInvMore

LEMMA InitWaits == Init => MountWaits
<1>. SUFFICES ASSUME Init PROVE MountWaits
  OBVIOUS
<1>1. th = [t \in Threads |-> Idle] /\ cacheLock = Nobody /\ loading = [p \in Paths |-> Nobody]
  BY DEF Init, CloudInit
<1>2. DirectInvMore
  BY <1>1 DEF DirectInvMore, Idle, Elsewhere
<1>. QED  BY <1>1, <1>2, InitNames, InitMount DEF MountWaits

LEMMA NextWaits == MountWaits /\ [Next]_vars => MountWaits'
<1>. SUFFICES ASSUME MountWaits, [Next]_vars PROVE MountWaits'
  OBVIOUS
<1>0. MountNames' /\ MountInv'
  BY NextNames, NextMount DEF MountWaits
<1>1. CASE front = "daemon" /\ UNCHANGED front /\ UNCHANGED cloudVars
  BY <1>0, <1>1 DEF MountWaits, cloudVars
<1>2. CASE front = "direct" /\ CloudNext /\ UNCHANGED front
  BY <1>0, <1>2, DirectNext DEF MountWaits, MountInv
<1>3. CASE UNCHANGED vars
  <2>1. UNCHANGED <<th, loading, cacheLock, front>>
    BY <1>3 DEF vars, callVars, cloudVars
  <2>. QED  BY <1>0, <2>1 DEF MountWaits, DirectInvMore
<1>. QED  BY <1>1, <1>2, <1>3 DEF Next

LEMMA MountWaitsHold == Spec => []MountWaits
BY InitWaits, NextWaits, PTL DEF Spec

\* No threads of a mount wait for one another in a circle: a rename takes its two path
\* locks in the order of the paths (ipcfs.go Rename), a Read waits for its download
\* without a path lock (ipcfs.go Read), and whoever downloads for the read-only mount
\* waits for nobody (cloudfs.go Open, Read).
THEOREM NoDeadlock == Spec => []NobodyWaitsInACircle
<1>1. MountWaits => NobodyWaitsInACircle
  <2>1. SUFFICES ASSUME MountWaits, NEW circle \in SUBSET Threads, circle # {},
                        \A t \in circle : WaitsFor(t) \intersect circle # {}
                 PROVE  FALSE
    BY DEF NobodyWaitsInACircle
  <2>2. CASE front = "daemon"
    <3>1. DaemonInv /\ LockInv /\ cacheLock = Nobody
      BY <2>1, <2>2 DEF MountWaits, MountNames, MountLocks, IPCMountInv
    <3>. QED  BY <2>1, <2>2, <3>1, NoCircleOfLocks
  <2>3. CASE front = "direct"
    <3>1. DirectInv /\ DirectInvMore
      BY <2>1, <2>3 DEF MountWaits, MountInv
    <3>2. PICK t \in circle : TRUE
      BY <2>1
    <3>3. PICK u \in circle : u \in WaitsFor(t)
      BY <2>1
    <3>4. WaitsFor(u) = {}
      BY <2>3, <3>1, <3>3, NoCircleOfDownloads
    <3>. QED  BY <2>1, <3>4
  <2>. QED  BY <2>1, <2>2, <2>3 DEF MountWaits, MountInv
<1>. QED  BY <1>1, MountWaitsHold, PTL
=============================================================================
