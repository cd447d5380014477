------------------------------ MODULE MountCalls ------------------------------
(***************************************************************************)
(* What the two mounts have in common: WinFsp calls them from several      *)
(* threads.  A file is opened, read and written, and released: a session   *)
(* of the thread, at a path that follows the renames WinFsp was told have  *)
(* succeeded.  Other calls come on their own.                              *)
(***************************************************************************)
EXTENDS DaemonRequests

CONSTANTS
  Threads,      \* threads of the mount; each is a writer
  Menu,         \* Menu[m]: the calls made on a mount of mode m
  MaxCalls      \* bound: calls made

NoPath == <<"no", "path">>
Nobody == "nobody"

ASSUME MountAssumption ==
  /\ NoPath \notin Paths /\ Nobody \notin Threads /\ IsFiniteSet(Threads) /\ Threads \subseteq Writers
  /\ \A m \in {FullyWritable} \union Modes : \A c \in Menu[m] : {c.path, c.to} \subseteq Paths
  /\ MaxCalls \in Nat

VARIABLES
  fmode,        \* the mount's write policy
  th,           \* th[t]: t's call, and its session
  made,         \* calls made
  dirs          \* cached listings: a function from some directories to their entries

callVars == <<fmode, th, made, dirs>>

\* One flag per mode, and hddfs refuses every two of them together.
MountModes == {PolicyFrom(flags) : flags \in {{}} \union {{m} : m \in Modes}}

Restricted == fmode # FullyWritable
CopyUpload == fmode = 8

Call(op, path, to, over) == [op |-> op, path |-> path, to |-> to, over |-> over]

Idle ==
  [op |-> "none", path |-> <<>>, to |-> <<>>, over |-> FALSE,
   pc |-> "idle", good |-> TRUE,
   req |-> "none", arg |-> <<>>, then |-> "none",  \* what is asked of the daemon, and what follows
   tries |-> 0, isdir |-> FALSE, got |-> {},
   h |-> 0, holds |-> {},                          \* a handle in hand, the paths it has locked
   saw |-> "none",                                 \* what a read returned
   sess |-> NoPath, writes |-> FALSE,              \* the session, and whether it may write
   wrote |-> FALSE,                                \* it has written
   rival |-> FALSE, raced |-> FALSE]               \* history

Busy(t) == th[t].pc # "idle"
Open(t) == th[t].sess # NoPath

\* peek: a Read of a file that was not opened.
Opens == {"open", "openw", "create"}
OpensToWrite == {"openw", "create"}
InSession == {"read", "write", "truncate", "flush", "release"}

\* Calls a thread can make: those on an open file within its session; a file that
\* is open may also be renamed or removed.  Who has not opened it to write does not
\* write, and a directory is not opened to write.
MayCall(t, c) ==
  /\ ~Busy(t) /\ made < MaxCalls
  /\ Open(t) => c.op \in InSession \union {"rename", "unlink"}
  /\ Open(t) \/ c.op \in InSession => c.path = th[t].sess
  /\ c.op \in {"write", "truncate"} => th[t].writes
  /\ c.op \in OpensToWrite => ~IsDir(c.path)

\* The paths of a rename: also the one it leads to if only the last name counts.
Named(path, to) == {path, to} \union (IF to = <<>> THEN {} ELSE {Append(Parent(path), Base(to))})

\* Paths a call has to do with, and a thread: its session's and its call's.
Concerns(c) ==
  CASE c.op \in {"getattr", "readdir"} -> {} [] c.op = "rename" -> Named(c.path, c.to) [] OTHER -> {c.path}
Touches(q) ==
  (IF q.sess = NoPath THEN {} ELSE {q.sess}) \union (IF q.pc = "idle" THEN {} ELSE Concerns(q))
Meet(paths, others) == \E p \in paths, o \in others : Below(p, o) \/ Below(o, p)

\* A request nobody waits for is a rival of every call and session it meets.
Disturbed(q) ==
  LET paths == IF q.req = "fs.rename" THEN Named(q.path, q.to) ELSE {q.path}
  IN [u \in Threads |-> IF Meet(paths, Touches(th[u])) THEN [th[u] EXCEPT !.rival = TRUE] ELSE th[u]]

\* t starts call c at pc: whoever has to do with its paths is a rival from now on.
Started(t, c, pc) ==
  LET others == {u \in Threads \ {t} : Meet(Concerns(c), Touches(th[u]))}
  IN [u \in Threads |->
        CASE u = t -> [Idle EXCEPT !.op = c.op, !.path = c.path, !.to = c.to, !.over = c.over, !.pc = pc,
                         !.sess = th[t].sess, !.writes = th[t].writes, !.wrote = th[t].wrote,
                         !.rival = (Open(t) /\ th[t].rival) \/ others # {}]
          [] u \in others -> [th[u] EXCEPT !.rival = TRUE]
          [] OTHER -> th[u]]

\* q's call is over.  A session begins or ends; a rename that succeeded takes the
\* sessions at the old path along.
Finished(t, q) ==
  LET sess == CASE q.op \in Opens /\ q.good -> q.path
                [] q.op = "release" -> NoPath
                [] OTHER -> q.sess
      gone == q.op = "unlink" /\ q.good
      mine == IF sess = NoPath THEN [Idle EXCEPT !.good = q.good]
              ELSE [Idle EXCEPT !.good = q.good, !.saw = q.saw, !.sess = sess, !.rival = q.rival,
                                !.writes = (q.writes \/ q.op \in OpensToWrite) /\ ~gone,
                                !.wrote = q.wrote /\ ~gone]
      follow(v) == IF q.op = "rename" /\ q.good /\ v.sess # NoPath /\ Below(v.sess, q.path)
                      /\ Rebased(v.sess, q.path, q.to) \in Paths
                   THEN [v EXCEPT !.sess = Rebased(v.sess, q.path, q.to)] ELSE v
  IN [u \in Threads |-> follow(IF u = t THEN mine ELSE th[u])]

Over(q, good) == [q EXCEPT !.pc = "idle", !.good = good]
Asking(q, req, path, then) ==
  [q EXCEPT !.pc = "ask", !.req = req, !.arg = path, !.then = then, !.tries = 0]

\* Mutant: a new directory's own listing is dropped, not its parent's.
FlushedItself(q) == {q.path}

\* The directories whose cached listings a call drops: what flushDirCacheFor is
\* called with - for a release the file's own path - and the root.
Flushed(q) ==
  {<<>>} \union CASE q.op = "release" -> {q.path}
                  [] q.op = "rename" -> {Parent(q.path), Parent(q.to)}
                  [] OTHER -> {Parent(q.path)}

DropListings(which) == [d \in DOMAIN dirs \ which |-> dirs[d]]
Store(d, entries) == [x \in DOMAIN dirs \union {d} |-> IF x = d THEN entries ELSE dirs[x]]
=============================================================================
