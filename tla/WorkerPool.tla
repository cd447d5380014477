------------------------------ MODULE WorkerPool ------------------------------
(***************************************************************************)
(* The workers that drain the task table (internal/worker), in every       *)
(* process that opens the store (hddsyncd and hddctl).                     *)
(*                                                                         *)
(* A process opens the store, which recovers stale rows, and may start a   *)
(* pool: poll loops, one operation each, that list a batch of ready rows   *)
(* and process the snapshots one after the other.  A snapshot may be out   *)
(* of date by the time its turn comes.  The in-flight set and the path     *)
(* locks are per process and follow from where the workers are: a worker   *)
(* holds its in-flight key from the claim and its path lock from Lock      *)
(* until it is done with the task.                                         *)
(*                                                                         *)
(* A file is its size: the code compares nothing else.  A provider call    *)
(* takes effect atomically, may fail without effect, and an upload or a    *)
(* removal may take effect and lose its answer.  A database call may fail. *)
(***************************************************************************)
EXTENDS TaskTable

CONSTANTS
  Procs,        \* processes that open the store
  Workers,      \* poll loops
  ProcOf,       \* the process of each
  OpOf,         \* the operation each polls for
  MaxRetries,   \* retries before a task fails for good
  ListLimit,    \* rows per poll
  Excluded,     \* local paths the filter excludes
  Sizes,        \* sizes a file may have
  CallErrors,   \* how a provider call may fail: "network", "unauthorized"
  MaxCrashes,   \* bound: crashes
  MaxFaults     \* bound: failing database calls

ASSUME WorkerPoolAssumption ==
  /\ ProcOf \in [Workers -> Procs]
  /\ OpOf \in [Workers -> {"upload", "download", "remove"}]
  /\ MaxRetries \in Nat /\ MaxRetries < MaxAttempts
  /\ ListLimit \in Nat \ {0}
  /\ Sizes \subseteq Nat \ {0}
  /\ CallErrors \subseteq {"network", "unauthorized"}
  /\ MaxCrashes \in Nat /\ MaxFaults \in Nat
  /\ {"upload_finalize", "other"} \subseteq ErrorClasses

VARIABLES
  worker,       \* worker[w]: where poll loop w is, its batch and what it found
  proc,         \* proc[p]: down, opened, up or stopping
  authBlocked,  \* authBlocked[p]: the pool of p saw its session expire
  local,        \* local[lp]: size of the local file, or NoFile
  remote,       \* remote[rp]: size of the remote file, or NoFile
  crashes,      \* crashes so far
  faults        \* database calls that failed so far

vars == <<tasks, worker, proc, authBlocked, local, remote, crashes, faults>>

NoFile == 0

\* A task being processed: claimed, and not yet given up.
Locked == {"filtered", "stat", "preflight", "send", "verify", "transfer",
           "commit", "unsure", "report", "halt"}
Processing == {"lock"} \cup Locked

\* What classifyError tells the outcome step.
Outcomes == {"session_expired", "unsupported_overwrite", "upload_finalize", "task_failed"}

Snapshot == [id : 1..MaxTasks, lp : LocalPaths, rp : RemotePaths, attempts : 0..MaxAttempts]

WorkerState == [pc : {"exited", "idle", "next", "claim"} \cup Processing,
                batch : SUBSET Snapshot,
                seen : Sizes \cup {NoFile},
                err : Outcomes \cup {"none"}]

\* A poll loop that is in the middle of something has a batch in hand.
InHand(r) == r.pc \in {"exited", "idle"} <=> r.batch = {}

PoolTypeOK ==
  /\ TypeOK
  /\ worker \in [Workers -> WorkerState]
  /\ \A w \in Workers : InHand(worker[w])
  /\ proc \in [Procs -> {"down", "opened", "up", "stopping"}]
  /\ authBlocked \in [Procs -> BOOLEAN]
  /\ local \in [LocalPaths -> Sizes \cup {NoFile}]
  /\ remote \in [RemotePaths -> Sizes \cup {NoFile}]
  /\ crashes \in 0..MaxCrashes /\ faults \in 0..MaxFaults
-----------------------------------------------------------------------------
\* Mutant: the listing does not read the attempts column.
SnapshotNoAttempts(i) ==
  [id |-> i, lp |-> tasks[i].lp, rp |-> tasks[i].rp, attempts |-> 0]

SnapshotOf(i) ==
  [id |-> i, lp |-> tasks[i].lp, rp |-> tasks[i].rp, attempts |-> tasks[i].attempts]

\* The snapshot worker w is at: the oldest left in its batch.
Current(w) == CHOOSE s \in worker[w].batch : \A t \in worker[w].batch : s.id <= t.id

At(w, l) == worker[w].pc = l
WorkersOf(p) == {w \in Workers : ProcOf[w] = p}
Rivals(w) == WorkersOf(ProcOf[w]) \ {w}

\* markInFlight fails: a worker of this process has the same operation and path.
InFlight(w) ==
  \E v \in Rivals(w) :
    /\ worker[v].pc \in Processing
    /\ OpOf[v] = OpOf[w] /\ Current(v).lp = Current(w).lp

\* Mutant: the path mutex is keyed by operation as well.
PathLockedByOp(w) ==
  \E v \in Rivals(w) :
    worker[v].pc \in Locked /\ OpOf[v] = OpOf[w] /\ Current(v).lp = Current(w).lp

\* The path mutex is taken by another worker of this process.
PathLocked(w) ==
  \E v \in Rivals(w) : worker[v].pc \in Locked /\ Current(v).lp = Current(w).lp

Idle == [pc |-> "idle", batch |-> {}, seen |-> NoFile, err |-> "none"]

GoTo(w, l) == worker' = [worker EXCEPT ![w].pc = l]

Fail(w, e) == worker' = [worker EXCEPT ![w].pc = "report", ![w].err = e]

\* Mutant: the loop goes on past the end of its batch.
DoneOffByOne(w) ==
  worker' = [worker EXCEPT ![w] =
               [Idle EXCEPT !.pc = "next", !.batch = worker[w].batch \ {Current(w)}]]

\* processTask returns: on to the next snapshot of the batch, if there is one.
Done(w) ==
  LET rest == worker[w].batch \ {Current(w)} IN
  worker' = [worker EXCEPT ![w] =
               IF rest = {} THEN Idle ELSE [Idle EXCEPT !.pc = "next", !.batch = rest]]

Fault == faults < MaxFaults /\ faults' = faults + 1 /\ UNCHANGED tasks

\* A store call whose failure the caller ignores: A, nothing if the row is not
\* there to change, or nothing because the database failed.
Attempt(A, can) ==
  \/ A /\ UNCHANGED faults
  \/ ~can /\ UNCHANGED <<tasks, faults>>
  \/ Fault

\* classifyError of a failed provider call.
Class(e) == IF e = "unauthorized" THEN "session_expired" ELSE "task_failed"
Permanent == {"unsupported_overwrite"}

\* The class a row records: later runs tell only finalize errors from others.
Recorded(e) == IF e = "upload_finalize" THEN e ELSE "other"

outside == <<proc, local, remote, crashes>>
-----------------------------------------------------------------------------
(***************************************************************************)
(* The poll loop.                                                          *)
(***************************************************************************)

\* A tick.  Go's select may still take the tick when the context is cancelled.
Poll(w) ==
  /\ At(w, "idle") /\ proc[ProcOf[w]] \in {"up", "stopping"}
  /\ ~authBlocked[ProcOf[w]]
  /\ LET rows == ListPendingTasks(OpOf[w], ListLimit) IN
       /\ rows # {}
       /\ worker' = [worker EXCEPT ![w].pc = "next", ![w].batch = {SnapshotOf(i) : i \in rows}]
  /\ UNCHANGED <<tasks, authBlocked, faults, outside>>

\* Mutant: the loop does not look at authBlocked between tasks.
NextTaskUnchecked(w) ==
  /\ At(w, "next")
  /\ IF proc[ProcOf[w]] = "stopping"
     THEN worker' = [worker EXCEPT ![w] = [Idle EXCEPT !.pc = "exited"]]
     ELSE GoTo(w, "claim")
  /\ UNCHANGED <<tasks, authBlocked, faults, outside>>

\* Before each snapshot: stop if cancelled, drop the batch if the session expired.
NextTask(w) ==
  /\ At(w, "next")
  /\ CASE proc[ProcOf[w]] = "stopping" -> worker' = [worker EXCEPT ![w] = [Idle EXCEPT !.pc = "exited"]]
       [] authBlocked[ProcOf[w]] -> worker' = [worker EXCEPT ![w] = Idle]
       [] OTHER -> GoTo(w, "claim")
  /\ UNCHANGED <<tasks, authBlocked, faults, outside>>

Exit(w) ==
  /\ At(w, "idle") /\ proc[ProcOf[w]] = "stopping"
  /\ GoTo(w, "exited")
  /\ UNCHANGED <<tasks, authBlocked, faults, outside>>

\* Mutant: ClaimTask's verdict is ignored.
ClaimUnchecked(w) ==
  LET i == Current(w).id IN
  /\ At(w, "claim") /\ GoTo(w, "lock")
  /\ ClaimTask(i) \/ (~CanClaim(i) /\ UNCHANGED tasks)
  /\ UNCHANGED <<authBlocked, faults, outside>>

\* markInFlight and ClaimTask; a task that cannot be had is skipped.
Claim(w) ==
  LET i == Current(w).id IN
  /\ At(w, "claim")
  /\ \/ ~InFlight(w) /\ ClaimTask(i) /\ GoTo(w, "lock") /\ UNCHANGED faults
     \/ (InFlight(w) \/ ~CanClaim(i)) /\ Done(w) /\ UNCHANGED <<tasks, faults>>
     \/ Done(w) /\ Fault
  /\ UNCHANGED <<authBlocked, outside>>

Lock(w) ==
  /\ At(w, "lock") /\ ~PathLocked(w)
  /\ GoTo(w, IF Current(w).lp \in Excluded THEN "filtered"
             ELSE IF OpOf[w] = "upload" THEN "stat" ELSE "transfer")
  /\ UNCHANGED <<tasks, authBlocked, faults, outside>>

CancelFiltered(w) ==
  LET i == Current(w).id IN
  /\ At(w, "filtered")
  /\ Attempt(MarkCancelled(i, "other"), CanCancel(i))
  /\ Done(w)
  /\ UNCHANGED <<authBlocked, outside>>
-----------------------------------------------------------------------------
(***************************************************************************)
(* Uploading.  The local file is measured first and read later; the        *)
(* remote is asked before and, when the upload reports an error, after.    *)
(***************************************************************************)

StatLocal(w) ==
  LET size == local[Current(w).lp] IN
  /\ At(w, "stat")
  /\ IF size = NoFile
     THEN Fail(w, "task_failed")
     ELSE worker' = [worker EXCEPT ![w].pc = "preflight", ![w].seen = size]
  /\ UNCHANGED <<tasks, authBlocked, faults, outside>>

Preflight(w) ==
  LET size == remote[Current(w).rp] IN
  /\ At(w, "preflight")
  /\ \/ \E e \in CallErrors : Fail(w, Class(e))
     \/ size = NoFile /\ GoTo(w, "send")
     \/ size # NoFile /\ size = worker[w].seen /\ GoTo(w, "commit")
     \/ size # NoFile /\ size # worker[w].seen /\ Fail(w, "unsupported_overwrite")
  /\ UNCHANGED <<tasks, authBlocked, faults, outside>>

\* ensureRemoteDir, os.Open and provider.Upload.  An upload never replaces a
\* remote file; one that fails for want of a session is not verified.
Send(w) ==
  LET lp == Current(w).lp  rp == Current(w).rp IN
  /\ At(w, "send")
  /\ \/ \E e \in CallErrors : Fail(w, Class(e)) /\ UNCHANGED remote
     \/ local[lp] = NoFile /\ Fail(w, "task_failed") /\ UNCHANGED remote
     \/ /\ local[lp] # NoFile /\ remote[rp] = NoFile
        /\ remote' = [remote EXCEPT ![rp] = local[lp]]
        /\ GoTo(w, "commit") \/ ("network" \in CallErrors /\ GoTo(w, "verify"))
     \/ /\ local[lp] # NoFile /\ (remote[rp] # NoFile \/ "network" \in CallErrors)
        /\ GoTo(w, "verify") /\ UNCHANGED remote
  /\ UNCHANGED <<tasks, proc, authBlocked, local, crashes, faults>>

\* Mutant: an upload that reported an error is taken for landed.
VerifyBlind(w) ==
  At(w, "verify") /\ GoTo(w, "commit") /\ UNCHANGED <<tasks, authBlocked, faults, outside>>

\* Whatever this second Stat fails with, the class is upload_finalize.
Verify(w) ==
  LET size == remote[Current(w).rp] IN
  /\ At(w, "verify")
  /\ \/ size = worker[w].seen /\ GoTo(w, "commit")
     \/ (size # worker[w].seen \/ CallErrors # {}) /\ Fail(w, "upload_finalize")
  /\ UNCHANGED <<tasks, authBlocked, faults, outside>>
-----------------------------------------------------------------------------
(***************************************************************************)
(* Downloading and removing: one provider call.                            *)
(***************************************************************************)

Download(w) ==
  LET lp == Current(w).lp  size == remote[Current(w).rp] IN
  /\ OpOf[w] = "download"
  /\ \/ \E e \in CallErrors : Fail(w, Class(e)) /\ UNCHANGED local
     \/ size = NoFile /\ Fail(w, "task_failed") /\ UNCHANGED local
     \/ size # NoFile /\ local' = [local EXCEPT ![lp] = size] /\ GoTo(w, "commit")
  /\ UNCHANGED remote

Remove(w) ==
  LET rp == Current(w).rp IN
  /\ OpOf[w] = "remove"
  /\ \/ \E e \in CallErrors : Fail(w, Class(e)) /\ UNCHANGED remote
     \/ remote[rp] = NoFile /\ Fail(w, "task_failed") /\ UNCHANGED remote
     \/ /\ remote[rp] # NoFile
        /\ remote' = [remote EXCEPT ![rp] = NoFile]
        /\ GoTo(w, "commit") \/ ("network" \in CallErrors /\ Fail(w, "task_failed"))
  /\ UNCHANGED local

Transfer(w) ==
  /\ At(w, "transfer")
  /\ Download(w) \/ Remove(w)
  /\ UNCHANGED <<tasks, proc, authBlocked, crashes, faults>>
-----------------------------------------------------------------------------
(***************************************************************************)
(* The outcome.                                                            *)
(***************************************************************************)

Commit(w) ==
  LET i == Current(w).id IN
  /\ At(w, "commit")
  /\ \/ CompleteTask(i) /\ Done(w) /\ UNCHANGED faults
     \/ ~CanFinish(i) /\ GoTo(w, "unsure") /\ UNCHANGED <<tasks, faults>>
     \/ Fault /\ GoTo(w, "unsure")
  /\ UNCHANGED <<authBlocked, outside>>

\* The remote operation succeeded but the commit did not.
Unsure(w) ==
  LET i == Current(w).id IN
  /\ At(w, "unsure")
  /\ Attempt(MarkNeedsReconcile(i, "other"), CanNeedReconcile(i))
  /\ Done(w)
  /\ UNCHANGED <<authBlocked, outside>>

\* The retry count is the snapshot's, not the row's.
Report(w) ==
  LET i == Current(w).id
      e == worker[w].err
      n == Current(w).attempts + 1
  IN
  /\ At(w, "report")
  /\ CASE e = "session_expired" ->
            Attempt(MarkBlockedAuth(i, "other"), CanFinish(i)) /\ GoTo(w, "halt")
       [] e \in Permanent ->
            Attempt(MarkFailed(i, "other"), CanFinish(i)) /\ Done(w)
       [] e # "session_expired" /\ e \notin Permanent /\ n > MaxRetries ->
            Attempt(MarkFailed(i, "other"), CanFinish(i)) /\ Done(w)
       [] OTHER ->
            Attempt(MarkRetry(i, n, Recorded(e)), CanFinish(i)) /\ Done(w)
  /\ UNCHANGED <<authBlocked, outside>>

\* The pool stops polling until it is started anew.
Halt(w) ==
  /\ At(w, "halt")
  /\ authBlocked' = [authBlocked EXCEPT ![ProcOf[w]] = TRUE]
  /\ Done(w)
  /\ UNCHANGED <<tasks, faults, outside>>
-----------------------------------------------------------------------------
(***************************************************************************)
(* Processes.                                                              *)
(***************************************************************************)

SetProc(p, s) == proc' = [proc EXCEPT ![p] = s]

\* sqlite.Open, by the daemon or by any hddctl sync command.
Open(p) ==
  /\ proc[p] = "down"
  /\ RecoverStaleTasks
  /\ SetProc(p, "opened")
  /\ UNCHANGED <<worker, authBlocked, local, remote, crashes, faults>>

\* Mutant: closing the store gives back every running row, fresh or not.
CloseReleasing(p) ==
  /\ proc[p] = "opened" /\ SetProc(p, "down")
  /\ tasks' = [i \in Ids |-> IF tasks[i].status = "running"
                             THEN [tasks[i] EXCEPT !.status = "pending"] ELSE tasks[i]]
  /\ UNCHANGED <<worker, authBlocked, local, remote, crashes, faults>>

\* A command that only reads or edits the store.
Close(p) ==
  /\ proc[p] = "opened"
  /\ SetProc(p, "down")
  /\ UNCHANGED <<tasks, worker, authBlocked, local, remote, crashes, faults>>

\* NewPool and Start.
Start(p) ==
  /\ proc[p] = "opened"
  /\ Attempt(ResumeBlockedAuth, TRUE)
  /\ SetProc(p, "up")
  /\ authBlocked' = [authBlocked EXCEPT ![p] = FALSE]
  /\ worker' = [w \in Workers |-> IF ProcOf[w] = p THEN Idle ELSE worker[w]]
  /\ UNCHANGED <<local, remote, crashes>>

\* Shutdown cancels the context and waits for the poll loops.
Shutdown(p) ==
  /\ proc[p] = "up"
  /\ SetProc(p, "stopping")
  /\ UNCHANGED <<tasks, worker, authBlocked, local, remote, crashes, faults>>

\* Mutant: Shutdown does not wait for the poll loops.
StoppedAtOnce(p) ==
  /\ proc[p] = "stopping" /\ SetProc(p, "down")
  /\ worker' = [w \in Workers |-> IF ProcOf[w] = p THEN [Idle EXCEPT !.pc = "exited"] ELSE worker[w]]
  /\ UNCHANGED <<tasks, authBlocked, local, remote, crashes, faults>>

Stopped(p) ==
  /\ proc[p] = "stopping" /\ \A w \in WorkersOf(p) : At(w, "exited")
  /\ SetProc(p, "down")
  /\ UNCHANGED <<tasks, worker, authBlocked, local, remote, crashes, faults>>

Crash(p) ==
  /\ proc[p] # "down" /\ crashes < MaxCrashes
  /\ crashes' = crashes + 1
  /\ SetProc(p, "down")
  /\ worker' = [w \in Workers |-> IF ProcOf[w] = p THEN [Idle EXCEPT !.pc = "exited"] ELSE worker[w]]
  /\ UNCHANGED <<tasks, authBlocked, local, remote, faults>>
-----------------------------------------------------------------------------
(***************************************************************************)
(* The user's files, and the watcher's and the startup scan's calls.       *)
(***************************************************************************)

LocalChange(lp, size) ==
  /\ local[lp] # size
  /\ local' = [local EXCEPT ![lp] = size]
  /\ UNCHANGED <<tasks, worker, proc, authBlocked, remote, crashes, faults>>

Enqueue(t) ==
  /\ \E p \in Procs : proc[p] = "up"
  /\ t.op = "upload" => local[t.lp] # NoFile
  /\ EnqueueOrMerge(t)
  /\ UNCHANGED <<worker, authBlocked, faults, outside>>

CancelGone(lp) ==
  /\ \E p \in Procs : proc[p] = "up"
  /\ local[lp] = NoFile
  /\ CancelActiveByLocalPath(lp, "other")
  /\ UNCHANGED <<worker, authBlocked, faults, outside>>

Tick == Clock /\ UNCHANGED <<worker, authBlocked, faults, outside>>
-----------------------------------------------------------------------------
PoolInit ==
  /\ TableInit
  /\ worker = [w \in Workers |-> [Idle EXCEPT !.pc = "exited"]]
  /\ proc = [p \in Procs |-> "down"]
  /\ authBlocked = [p \in Procs |-> FALSE]
  /\ local \in [LocalPaths -> Sizes \cup {NoFile}]
  /\ remote = [rp \in RemotePaths |-> NoFile]
  /\ crashes = 0 /\ faults = 0

WorkerStep(w) ==
  \/ Poll(w) \/ NextTask(w) \/ Exit(w) \/ Claim(w) \/ Lock(w) \/ CancelFiltered(w)
  \/ StatLocal(w) \/ Preflight(w) \/ Send(w) \/ Verify(w) \/ Transfer(w)
  \/ Commit(w) \/ Unsure(w) \/ Report(w) \/ Halt(w)

ProcStep(p) == Open(p) \/ Close(p) \/ Start(p) \/ Shutdown(p) \/ Stopped(p) \/ Crash(p)

UserStep ==
  \/ \E lp \in LocalPaths, size \in Sizes \cup {NoFile} : LocalChange(lp, size)
  \/ \E t \in Targets : Enqueue(t)
  \/ \E lp \in LocalPaths : CancelGone(lp)

PoolNext ==
  \/ \E w \in Workers : WorkerStep(w)
  \/ \E p \in Procs : ProcStep(p)
  \/ UserStep
  \/ Tick

PoolSpec == PoolInit /\ [][PoolNext]_vars

\* A poll loop keeps going, and a backoff ends.  Nothing makes a process start,
\* a user act, or a provider call succeed.
Fairness ==
  /\ \A w \in Workers : WF_vars(WorkerStep(w))
  /\ \A i \in 1..MaxTasks : WF_vars(i \in Ids /\ BackoffElapses(i) /\ Tick)

FairPoolSpec == PoolSpec /\ Fairness
-----------------------------------------------------------------------------
(***************************************************************************)
(* Safety.                                                                 *)
(***************************************************************************)

\* The path mutex: two workers of one process never work on the same local path
\* at once, not even after another process reopened the store, took the row of
\* the first for stale and let the second claim a task on the same path.
OneWorkerPerPath ==
  \A v, w \in Workers :
    /\ ProcOf[v] = ProcOf[w] /\ v # w
    /\ worker[v].pc \in Locked /\ worker[w].pc \in Locked
    => Current(v).lp # Current(w).lp

\* While a worker works on a task, the task's row is running and nobody else works
\* on it.  True when one process uses the store: only Open gives a running row
\* back, and a process opens the store before its pool starts.
WorkerOwnsRow ==
  \A w \in Workers : worker[w].pc \in Processing \ {"halt"} =>
    /\ tasks[Current(w).id].status = "running"
    /\ \A v \in Workers \ {w} :
         worker[v].pc \in Processing => Current(v).id # Current(w).id

\* Without a crash or a failing database call, every running row has a worker
\* that will settle it: no return path of processTask, and no shutdown, leaves
\* a claimed row behind.
NothingStranded ==
  crashes = 0 /\ faults = 0 =>
    \A i \in Ids : tasks[i].status = "running" =>
      \E w \in Workers : worker[w].pc \in Processing /\ Current(w).id = i

\* An upload reported as succeeded put a file on the remote (nothing here removes
\* remote files unless a remove task was requested), whatever was lost, repeated
\* or recovered on the way.
SucceededIsOnRemote ==
  \A i \in Ids :
    /\ tasks[i].op = "upload" /\ tasks[i].status = "succeeded"
    /\ \A t \in Targets : t.op # "remove"
    => remote[tasks[i].rp] # NoFile

\* Without a crash or a failing database call no upload ends up needs_reconcile:
\* every commit finds its row still running.  True when one process uses the
\* store; needs_reconcile is a trap (nothing leaves it and it absorbs every later
\* request for the path), so reaching it needlessly loses the path for good.
ReconcileOnlyAfterFault ==
  crashes = 0 /\ faults = 0 => \A i \in Ids : tasks[i].status # "needs_reconcile"

\* With one poll loop per operation, retrying never gives a row its attempts back,
\* although the count written is the snapshot's and not the row's.
AttemptsNeverDrop ==
  [][\A i \in Ids : tasks'[i].attempts >= tasks[i].attempts]_vars

\* A pool that has seen its session expire claims nothing more, not even what is
\* left of a batch it listed before.  True with one poll loop; with more, another
\* loop may be between its check and its claim.
BlockedPoolClaimsNothing ==
  [][\A w \in Workers :
       authBlocked[ProcOf[w]] /\ At(w, "claim") => worker'[w].pc # "lock"]_vars

\* Same-path serialisation as the design states it: a remote path is sent by one
\* worker at a time, whichever process the worker is in.
OneSenderPerRemote ==
  \A v, w \in Workers :
    v # w /\ At(v, "send") /\ At(w, "send") => Current(v).rp # Current(w).rp
-----------------------------------------------------------------------------
(***************************************************************************)
(* Liveness.                                                               *)
(***************************************************************************)

Polled(p, i) == i \in Ids /\ \E w \in WorkersOf(p) : OpOf[w] = tasks[i].op

Settled(i) == tasks[i].status \in Terminal \cup {"blocked_auth", "needs_reconcile"}

\* Once a process keeps its pool up and its session, no process crashed and no
\* database call failed, every task it polls for is settled: retries run out, and
\* no task is starved by older ones or by a path that stays busy, whatever other
\* processes took from it before.  (A process that keeps opening the store may take
\* every slow attempt from its worker, so that none counts.)
EveryTaskSettles ==
  \A p \in Procs, i \in 1..MaxTasks :
    <>[](/\ proc[p] = "up" /\ ~authBlocked[p] /\ crashes = 0 /\ faults = 0
         /\ \A q \in Procs \ {p} : proc[q] = "down")
      => (Polled(p, i) ~> (i \in Ids /\ Settled(i)))

\* Unfinished tasks are recovered when the daemon is started again: a running row
\* without a worker does not stay so while a pool is up.
UnfinishedIsRecovered ==
  \A p \in Procs, i \in 1..MaxTasks :
    <>[](proc[p] = "up" /\ ~authBlocked[p])
      => []<>(i \in Ids => tasks[i].status # "running")
=============================================================================
