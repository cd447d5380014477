---------------------------- MODULE DaemonStartup ----------------------------
(***************************************************************************)
(* hddsyncd run: what the daemon does with the tasks an earlier run left,  *)
(* and the order in which it starts its parts (runDaemon).                 *)
(*                                                                         *)
(* Everything runs on one goroutine, one stage after the other: open the   *)
(* store, fail malformed tasks, reconcile uploads whose finalization was   *)
(* doubtful, then, unless --no-background, start the pool and call the     *)
(* watcher's Start, and after that install the signal handler and serve    *)
(* the pipe.  Start returns only when its context is cancelled.  It is     *)
(* given context.Background(), and Stop, the only other cancellation, is   *)
(* called after the pipe has been served; so the stage "watching" has no   *)
(* next stage, and the initial scan behind it is no step of this module.   *)
(***************************************************************************)
EXTENDS TaskTable

CONSTANT Malformed    \* local paths that stand for a NULL local_path

ASSUME DaemonStartupAssumption ==
  /\ MaxTasks >= 2                \* the rows an earlier run left
  /\ "other" \in ErrorClasses

VARIABLES
  stage,       \* what the daemon does next, or is doing
  background,  \* started without --no-background
  listed,      \* tasks the reconciliation has listed and not yet examined
  counted,     \* tasks counted in reconciled_upload_tasks
  landed,      \* remote paths whose file has the size of the local file
  signalled    \* the user pressed Ctrl+C

vars == <<tasks, stage, background, listed, counted, landed, signalled>>

unchangedTasks == UNCHANGED <<tasks, listed, counted>>

Stages == {"open", "cleanup", "list", "reconcile", "start", "watching", "serving",
           "stopped", "killed"}

StartupTypeOK ==
  /\ TypeOK
  /\ stage \in Stages /\ background \in BOOLEAN /\ signalled \in BOOLEAN
  /\ listed \subseteq Ids /\ counted \subseteq Ids /\ landed \subseteq RemotePaths
  /\ listed # {} => stage \in {"reconcile", "killed"}
-----------------------------------------------------------------------------
\* A row as an earlier run may have left it, for a request t.
RowAsLeft(t, s, n, d, a, e) ==
  [NewRow(t) EXCEPT !.status = s, !.attempts = n, !.due = d, !.stale = a, !.err = e]

LeftBehind(t) ==
  {RowAsLeft(t, s, n, d, a, e) :
     s \in {"pending", "retry_wait", "running", "blocked_auth"}, n \in {0, 1},
     d \in BOOLEAN, a \in BOOLEAN, e \in ErrorClasses \cup {"none"}}

Plausible(r) ==
  /\ r.status = "pending" /\ r.attempts = 0 => r.err = "none"
  /\ r.status = "retry_wait" => r.attempts > 0 /\ r.err # "none"
  /\ r.status \in {"running", "blocked_auth"} => r.attempts > 0
  /\ r.due => r.status = "retry_wait"
  /\ r.stale => r.status = "running"

StartupInit ==
  /\ \E t, u \in Targets : \E r \in LeftBehind(t), q \in LeftBehind(u) :
       /\ ~SameTask(t, u) /\ t.lp # u.lp
       /\ Plausible(r) /\ Plausible(q)
       /\ tasks = <<r, q>>
  /\ stage = "open" /\ background \in BOOLEAN /\ signalled = FALSE
  /\ listed = {} /\ counted = {} /\ landed \in SUBSET RemotePaths

Enter(s) == stage' = s /\ UNCHANGED <<background, landed, signalled>>

OpenStore ==
  /\ stage = "open"
  /\ RecoverStaleTasks
  /\ Enter("cleanup") /\ UNCHANGED <<listed, counted>>

\* UpdateTaskState(id, "failed", ...) for every listed upload without a local path.
\* With the mock provider nothing is reconciled.
CleanupMalformed ==
  /\ stage = "cleanup"
  /\ tasks' = [i \in Ids |->
                 IF i \in ReadyIds("upload") /\ tasks[i].lp \in Malformed
                 THEN [tasks[i] EXCEPT !.status = "failed", !.due = FALSE, !.err = "other"]
                 ELSE tasks[i]]
  /\ Enter("list") \/ Enter("start")
  /\ UNCHANGED <<listed, counted>>

\* ListPendingTasks; the loop below works on this snapshot while time goes on.
ListUploads ==
  /\ stage = "list"
  /\ listed' = ReadyIds("upload")
  /\ Enter("reconcile") /\ UNCHANGED <<tasks, counted>>

\* Mutant: the size of the remote file is not compared.
DoubtfulAny(i) == tasks[i].attempts > 0 /\ tasks[i].err = "upload_finalize"

\* An upload that failed to finalize although its file is on the remote.
Doubtful(i) ==
  /\ tasks[i].attempts > 0 /\ tasks[i].err = "upload_finalize"
  /\ tasks[i].rp \in landed

\* CompleteTask's answer is not looked at: the task is counted either way.
ReconcileUpload(i) ==
  /\ stage = "reconcile" /\ i \in listed /\ Doubtful(i)
  /\ CompleteTask(i) \/ (~CanFinish(i) /\ UNCHANGED tasks)
  /\ listed' = listed \ {i} /\ counted' = counted \cup {i}
  /\ UNCHANGED <<stage, background, landed, signalled>>

\* Not doubtful, or the remote or the local file could not be looked at.
SkipUpload(i) ==
  /\ stage = "reconcile" /\ i \in listed
  /\ listed' = listed \ {i}
  /\ UNCHANGED <<tasks, stage, background, counted, landed, signalled>>

\* Mutant: the first upload that cannot be reconciled ends the loop.
ReconcileDoneEarly == stage = "reconcile" /\ Enter("start") /\ unchangedTasks

ReconcileDone ==
  /\ stage = "reconcile" /\ listed = {}
  /\ Enter("start") /\ unchangedTasks

\* Mutant: the watcher is started whatever the flag says.
AfterStartAlways == "watching"

AfterStart == IF background THEN "watching" ELSE "serving"

\* pool.Start resumes blocked tasks, then the watcher blocks; or neither is started.
StartBackground ==
  /\ stage = "start"
  /\ IF background THEN ResumeBlockedAuth ELSE UNCHANGED tasks
  /\ Enter(AfterStart) /\ UNCHANGED <<listed, counted>>

\* The pool, started before the watcher, works meanwhile.
Work ==
  /\ stage = "watching"
  /\ \E i \in Ids : tasks[i].op = "upload" /\ (ClaimTask(i) \/ CompleteTask(i))
  /\ UNCHANGED <<stage, background, listed, counted, landed, signalled>>

\* Ctrl+C kills a process that has not called signal.Notify yet.
Interrupt ==
  /\ stage \notin {"stopped", "killed"} /\ ~signalled
  /\ signalled' = TRUE
  /\ stage' = IF stage = "serving" THEN "stopped" ELSE "killed"
  /\ unchangedTasks /\ UNCHANGED <<background, landed>>

Startup ==
  \/ OpenStore \/ CleanupMalformed \/ ListUploads \/ ReconcileDone \/ StartBackground
  \/ \E i \in Ids : ReconcileUpload(i) \/ SkipUpload(i)

Tick == Clock /\ UNCHANGED <<stage, background, listed, counted, landed, signalled>>

StartupNext == Startup \/ Work \/ Interrupt \/ Tick

StartupSpec == StartupInit /\ [][StartupNext]_vars /\ WF_vars(Startup) /\ WF_vars(Work)
-----------------------------------------------------------------------------
\* Only uploads whose file really is on the remote are reconciled.
CountedAreOnRemote == \A i \in counted : tasks[i].rp \in landed

\* Started with --no-background and a session it can load, the daemon serves its
\* pipe, whatever tasks an earlier run left, unless the user stops it first.
ServesWithoutBackground == ~background => <>(stage = "serving" \/ signalled)

\* The daemon serves its pipe, with and without background work.
DaemonServes == <>(stage = "serving" \/ signalled)
=============================================================================
