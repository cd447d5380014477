------------------------------ MODULE TaskTable ------------------------------
(***************************************************************************)
(* The durable task queue: the "tasks" table of metadata.db and the SQL    *)
(* statements internal/store/sqlite runs against it.                       *)
(*                                                                         *)
(* The store keeps one connection and every operation is one statement or  *)
(* one transaction, so each is one atomic step here.  Several processes    *)
(* (hddsyncd and any hddctl that opens the store) share the table, so this *)
(* module lets any operation be called at any time on any row; WorkerPool  *)
(* restricts the callers to the program's own.                             *)
(*                                                                         *)
(* A task id is its position in the sequence "tasks": ids are              *)
(* AUTOINCREMENT and no caller deletes a row.  Time is abstracted to the   *)
(* two comparisons the statements make: "due" (next_retry_at <= now) and   *)
(* "stale" (claimed_at < now - staleRunningAfter).                         *)
(***************************************************************************)
EXTENDS Naturals, Sequences, FiniteSets

CONSTANTS
  Roots,         \* sync root ids, 0 included (a path under no root)
  LocalPaths,    \* canonical local paths
  RemotePaths,   \* canonical remote paths
  Targets,       \* the (operation, root, local, remote) requests callers make
  ErrorClasses,  \* error classes a retry may record
  MaxTasks,      \* bound: rows ever inserted
  MaxAttempts    \* bound: the attempts column saturates here

Operations == {"upload", "download", "mkdir", "remove", "rename"}

ASSUME TaskTableAssumption ==
  /\ Targets \subseteq [op : Operations, root : Roots, lp : LocalPaths, rp : RemotePaths]
  /\ MaxTasks \in Nat
  /\ MaxAttempts \in Nat \ {0}

VARIABLE tasks   \* the rows, in id order

Active   == {"pending", "running", "retry_wait", "blocked_auth", "needs_reconcile"}
Terminal == {"succeeded", "failed", "cancelled"}
Statuses == Active \cup Terminal

Row == [op : Operations, root : Roots, lp : LocalPaths, rp : RemotePaths,
        status : Statuses, attempts : 0..MaxAttempts, due : BOOLEAN,
        stale : BOOLEAN, dirty : BOOLEAN, err : ErrorClasses \cup {"none"}]

Ids == DOMAIN tasks

TypeOK ==
  /\ tasks \in Seq(Row)
  /\ Len(tasks) <= MaxTasks
-----------------------------------------------------------------------------
(***************************************************************************)
(* What the two partial unique indexes and the statements compare.         *)
(***************************************************************************)

SameTask(r, s)   == r.root = s.root /\ r.op = s.op /\ r.rp = s.rp
SameRemote(r, s) == r.root = s.root /\ r.rp = s.rp
IsActive(r)      == r.status \in Active

\* Mutant: the dedup index forgets every active status but pending.
ActiveForPendingOnly(t) ==
  {i \in Ids : tasks[i].status = "pending" /\ SameTask(tasks[i], t)}

\* The rows ON CONFLICT would merge request t into (at most one, see ActiveDedup).
ActiveFor(t) == {i \in Ids : IsActive(tasks[i]) /\ SameTask(tasks[i], t)}

\* Mutant: due retries are not listed.
ReadyPendingOnly(r) == r.status = "pending"

\* pending, or retry_wait and due: what ListPendingTasks lists and ClaimTask takes.
Ready(r) == r.status = "pending" \/ (r.status = "retry_wait" /\ r.due)

ReadyIds(op) == {i \in Ids : tasks[i].op = op /\ Ready(tasks[i])}

\* ORDER BY created_at, id LIMIT n: the n oldest ready rows of one operation.
ListPendingTasks(op, n) ==
  {i \in ReadyIds(op) : Cardinality({j \in ReadyIds(op) : j < i}) < n}

\* Mutant: NOT EXISTS compares the whole dedup key instead of the paths.
PathBusySameTask(i) ==
  \E j \in Ids \ {i} : tasks[j].status = "running" /\ SameTask(tasks[j], tasks[i])

\* The NOT EXISTS of ClaimTask: another row is running on the same local path
\* or on the same remote path of the same root.
PathBusy(i) ==
  \E j \in Ids \ {i} :
    /\ tasks[j].status = "running"
    /\ tasks[j].lp = tasks[i].lp \/ SameRemote(tasks[j], tasks[i])
-----------------------------------------------------------------------------
(***************************************************************************)
(* The operations.  An operation whose WHERE selects no row changes        *)
(* nothing (the caller gets sql.ErrNoRows or false); the predicate Can...  *)
(* of each is its WHERE clause.                                            *)
(***************************************************************************)

NewRow(t) ==
  [op |-> t.op, root |-> t.root, lp |-> t.lp, rp |-> t.rp,
   status |-> "pending", attempts |-> 0, due |-> FALSE,
   stale |-> FALSE, dirty |-> FALSE, err |-> "none"]

\* INSERT ... ON CONFLICT DO UPDATE: an active row takes the new local path and
\* is marked dirty_after_run if it is running; its status stays.
Merged(r, t) == [r EXCEPT !.lp = t.lp, !.dirty = (r.status = "running" \/ @)]

EnqueueOrMerge(t) ==
  \/ /\ ActiveFor(t) = {}
     /\ Len(tasks) < MaxTasks
     /\ tasks' = Append(tasks, NewRow(t))
  \/ \E i \in ActiveFor(t) : tasks' = [tasks EXCEPT ![i] = Merged(@, t)]

\* Mutant: the count is not bounded.
NextAttemptUnbounded(n) == n + 1

NextAttempt(n) == IF n < MaxAttempts THEN n + 1 ELSE n

CanClaim(i) == Ready(tasks[i]) /\ ~PathBusy(i)

ClaimTask(i) ==
  /\ CanClaim(i)
  /\ tasks' = [tasks EXCEPT ![i].status = "running",
                            ![i].attempts = NextAttempt(@),
                            ![i].due = FALSE, ![i].stale = FALSE]

\* Mutant: the outcome statements lose AND status='running'.
CanFinishAlways(i) == i \in Ids

CanFinish(i) == tasks[i].status = "running"

CompleteTask(i) ==
  /\ CanFinish(i)
  /\ tasks' = [tasks EXCEPT ![i].status = "succeeded", ![i].due = FALSE,
                            ![i].stale = FALSE, ![i].err = "none"]

MarkFailed(i, e) ==
  /\ CanFinish(i)
  /\ tasks' = [tasks EXCEPT ![i].status = "failed", ![i].due = FALSE,
                            ![i].stale = FALSE, ![i].err = e]

MarkRetry(i, n, e) ==
  /\ CanFinish(i)
  /\ tasks' = [tasks EXCEPT ![i].status = "retry_wait", ![i].attempts = n,
                            ![i].due = FALSE, ![i].stale = FALSE, ![i].err = e]

CanCancel(i) == tasks[i].status \in {"pending", "running", "retry_wait"}

MarkCancelled(i, e) ==
  /\ CanCancel(i)
  /\ tasks' = [tasks EXCEPT ![i].status = "cancelled", ![i].due = FALSE,
                            ![i].stale = FALSE, ![i].err = e]

MarkBlockedAuth(i, e) ==
  /\ CanFinish(i)
  /\ tasks' = [tasks EXCEPT ![i].status = "blocked_auth", ![i].due = FALSE,
                            ![i].stale = FALSE, ![i].err = e]

\* No status in its WHERE clause: it also reopens a finished row.  Only the
\* unique index on active rows can reject it.
CanNeedReconcile(i) == IsActive(tasks[i]) \/ ActiveFor(tasks[i]) = {}

MarkNeedsReconcile(i, e) ==
  /\ CanNeedReconcile(i)
  /\ tasks' = [tasks EXCEPT ![i].status = "needs_reconcile", ![i].due = FALSE,
                            ![i].stale = FALSE, ![i].err = e]

\* Mutant: the cancellation also hits a running row.
CancelRunningToo(lp, e) ==
  tasks' = [i \in Ids |->
              IF tasks[i].lp = lp /\ tasks[i].status \in {"pending", "retry_wait", "running"}
              THEN [tasks[i] EXCEPT !.status = "cancelled", !.due = FALSE,
                                    !.stale = FALSE, !.err = e]
              ELSE tasks[i]]

\* The watcher saw the local file disappear: waiting rows only, never a running one.
CancelActiveByLocalPath(lp, e) ==
  LET hit(r) == r.lp = lp /\ r.status \in {"pending", "retry_wait"} IN
  tasks' = [i \in Ids |->
              IF hit(tasks[i])
              THEN [tasks[i] EXCEPT !.status = "cancelled", !.due = FALSE,
                                    !.stale = FALSE, !.err = e]
              ELSE tasks[i]]

ResumeBlockedAuth ==
  tasks' = [i \in Ids |->
              IF tasks[i].status = "blocked_auth"
              THEN [tasks[i] EXCEPT !.status = "pending", !.err = "none"]
              ELSE tasks[i]]

\* Run by Open only.  A row claimed less than staleRunningAfter ago stays running.
RecoverStaleTasks ==
  tasks' = [i \in Ids |->
              IF tasks[i].status = "running" /\ tasks[i].stale
              THEN [tasks[i] EXCEPT !.status = "pending", !.stale = FALSE]
              ELSE tasks[i]]
-----------------------------------------------------------------------------
(***************************************************************************)
(* The clock.                                                              *)
(***************************************************************************)

BackoffElapses(i) ==
  /\ tasks[i].status = "retry_wait" /\ ~tasks[i].due
  /\ tasks' = [tasks EXCEPT ![i].due = TRUE]

ClaimAges(i) ==
  /\ tasks[i].status = "running" /\ ~tasks[i].stale
  /\ tasks' = [tasks EXCEPT ![i].stale = TRUE]

Clock == \E i \in Ids : BackoffElapses(i) \/ ClaimAges(i)
-----------------------------------------------------------------------------
TableInit == tasks = <<>>

Finish(i) ==
  \/ CompleteTask(i)
  \/ \E e \in ErrorClasses :
       \/ MarkFailed(i, e)
       \/ \E n \in 0..MaxAttempts : MarkRetry(i, n, e)
       \/ MarkCancelled(i, e)
       \/ MarkBlockedAuth(i, e)
       \/ MarkNeedsReconcile(i, e)

TableNext ==
  \/ \E t \in Targets : EnqueueOrMerge(t)
  \/ \E i \in Ids : ClaimTask(i) \/ Finish(i)
  \/ \E lp \in LocalPaths, e \in ErrorClasses : CancelActiveByLocalPath(lp, e)
  \/ ResumeBlockedAuth
  \/ RecoverStaleTasks
  \/ Clock

TableSpec == TableInit /\ [][TableNext]_tasks
-----------------------------------------------------------------------------
(***************************************************************************)
(* Safety.                                                                 *)
(***************************************************************************)

\* Task deduplication (idx_tasks_active_dedup): two different rows for the same
\* root, operation and remote path are never both active, although enqueue,
\* claim, retry, resume, recovery and the unconditional MarkNeedsReconcile all
\* move rows into the active statuses.
ActiveDedup ==
  \A i, j \in Ids :
    IsActive(tasks[i]) /\ IsActive(tasks[j]) /\ SameTask(tasks[i], tasks[j]) => i = j

\* Same-path serialisation (idx_tasks_one_running_per_path): at most one row of a
\* root is running on a remote path, whatever its operation.
OneRunningPerRemote ==
  \A i, j \in Ids :
    /\ tasks[i].status = "running" /\ tasks[j].status = "running"
    /\ SameRemote(tasks[i], tasks[j])
    => i = j

\* Same-path serialisation on the local side: at most one running row per
\* canonical local path.  No index enforces it, only ClaimTask's NOT EXISTS, and
\* EnqueueOrMerge may rewrite the local path of a running row.
OneRunningPerLocal ==
  \A i, j \in Ids :
    /\ tasks[i].status = "running" /\ tasks[j].status = "running"
    /\ tasks[i].lp = tasks[j].lp
    => i = j

\* Each remote path of a root belongs to one local path.  It holds of the
\* requests of one watcher root (remotePathFor is injective); the store itself
\* does not require it.
PathsAreFunctional ==
  \A t, u \in Targets : SameRemote(t, u) => t.lp = u.lp

\* What a step may never do to a finished row: it can only be reopened as
\* needs_reconcile (by a worker whose commit found the row already finished),
\* and a row never goes back to being claimable without passing through an
\* explicit resume, recovery or retry.
FinishedRowsStayFinished ==
  [][\A i \in Ids :
       /\ tasks[i].status \in Terminal =>
            tasks'[i].status \in {tasks[i].status, "needs_reconcile"}
       /\ tasks[i].status = "needs_reconcile" =>
            tasks'[i].status = "needs_reconcile"]_tasks
=============================================================================
