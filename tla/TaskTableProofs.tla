--------------------------- MODULE TaskTableProofs ---------------------------
(***************************************************************************)
(* Theorems about TaskTable, for any requests and any bounds.              *)
(***************************************************************************)
EXTENDS TaskTableRefinement, TLAPS

\* Every row was requested: some request has its key and its local path.
RowsRequested ==
  \A i \in Ids : \E t \in Targets : SlotKey(tasks[i]) = SlotKey(t) /\ tasks[i].lp = t.lp

\* The shape of every step but an insertion: rows keep their ids and their keys.
KeepsKeys ==
  /\ Ids' = Ids
  /\ \A i \in Ids : SlotKey(tasks'[i]) = SlotKey(tasks[i])
-----------------------------------------------------------------------------
LEMMA NewRowType ==
  ASSUME NEW t \in Targets
  PROVE  NewRow(t) \in Row
BY TaskTableAssumption DEF NewRow, Row, Statuses, Active, Terminal

LEMMA NextAttemptType ==
  ASSUME NEW n \in 0..MaxAttempts
  PROVE  NextAttempt(n) \in 0..MaxAttempts
BY TaskTableAssumption DEF NextAttempt

\* A function on the ids of the table, with rows for values, is a table.
LEMMA RowwiseType ==
  ASSUME TypeOK, NEW f, f = [i \in Ids |-> f[i]], \A i \in Ids : f[i] \in Row
  PROVE  f \in Seq(Row) /\ Len(f) = Len(tasks) /\ DOMAIN f = Ids
<1>1. Len(tasks) \in Nat /\ Ids = 1..Len(tasks)
  BY DEF TypeOK, Ids
<1>2. f \in [1..Len(tasks) -> Row]
  BY <1>1
<1>. QED  BY <1>1, <1>2

\* Replacing one row by another row gives a table.
LEMMA OneRowType ==
  ASSUME TypeOK, NEW i \in Ids, NEW r \in Row
  PROVE  /\ [tasks EXCEPT ![i] = r] \in Seq(Row)
         /\ Len([tasks EXCEPT ![i] = r]) = Len(tasks)
         /\ DOMAIN [tasks EXCEPT ![i] = r] = Ids
<1>. DEFINE f == [tasks EXCEPT ![i] = r]
<1>1. f = [j \in Ids |-> f[j]]
  BY DEF TypeOK, Ids
<1>2. \A j \in Ids : f[j] \in Row
  BY DEF TypeOK, Ids
<1>. QED  BY <1>1, <1>2, RowwiseType
-----------------------------------------------------------------------------
(***************************************************************************)
(* Type correctness.                                                       *)
(***************************************************************************)

LEMMA MergedType ==
  ASSUME NEW r \in Row, NEW t \in Targets
  PROVE  Merged(r, t) \in Row
BY TaskTableAssumption DEF Merged, Row

LEMMA EnqueueType ==
  ASSUME TypeOK, NEW t \in Targets, EnqueueOrMerge(t)
  PROVE  TypeOK'
<1>1. CASE /\ Len(tasks) < MaxTasks
           /\ tasks' = Append(tasks, NewRow(t))
  BY <1>1, NewRowType, TaskTableAssumption DEF TypeOK
<1>2. ASSUME NEW i \in ActiveFor(t), tasks' = [tasks EXCEPT ![i] = Merged(@, t)]
      PROVE  TypeOK'
  <2>1. i \in Ids /\ tasks[i] \in Row
    BY DEF ActiveFor, TypeOK, Ids
  <2>. QED  BY <1>2, <2>1, MergedType, OneRowType DEF TypeOK
<1>. QED  BY <1>1, <1>2 DEF EnqueueOrMerge

LEMMA ClaimType ==
  ASSUME TypeOK, NEW i \in Ids, ClaimTask(i)
  PROVE  TypeOK'
<1>. DEFINE r == [tasks[i] EXCEPT !.status = "running", !.attempts = NextAttempt(@),
                                  !.due = FALSE, !.stale = FALSE]
<1>1. tasks[i] \in Row
  BY DEF TypeOK, Ids
<1>2. r \in Row
  BY <1>1, NextAttemptType DEF Row, Statuses, Active
<1>3. tasks' = [tasks EXCEPT ![i] = r]
  BY DEF ClaimTask
<1>. QED  BY <1>2, <1>3, OneRowType DEF TypeOK

LEMMA FinishType ==
  ASSUME TypeOK, NEW i \in Ids, Finish(i)
  PROVE  TypeOK'
<1>1. tasks[i] \in Row
  BY DEF TypeOK, Ids
<1>2. PICK r \in Row : tasks' = [tasks EXCEPT ![i] = r]
  <2>1. CASE CompleteTask(i)
    <3>. DEFINE q == [tasks[i] EXCEPT !.status = "succeeded", !.due = FALSE,
                                      !.stale = FALSE, !.err = "none"]
    <3>1. q \in Row
      BY <1>1 DEF Row, Statuses, Terminal
    <3>. QED  BY <2>1, <3>1 DEF CompleteTask
  <2>2. ASSUME NEW e \in ErrorClasses, NEW s \in Statuses,
               tasks' = [tasks EXCEPT ![i].status = s, ![i].due = FALSE,
                                      ![i].stale = FALSE, ![i].err = e]
        PROVE  \E r \in Row : tasks' = [tasks EXCEPT ![i] = r]
    <3>. DEFINE q == [tasks[i] EXCEPT !.status = s, !.due = FALSE,
                                      !.stale = FALSE, !.err = e]
    <3>1. q \in Row
      BY <1>1 DEF Row
    <3>. QED  BY <2>2, <3>1
  <2>3. ASSUME NEW e \in ErrorClasses, NEW n \in 0..MaxAttempts, MarkRetry(i, n, e)
        PROVE  \E r \in Row : tasks' = [tasks EXCEPT ![i] = r]
    <3>. DEFINE q == [tasks[i] EXCEPT !.status = "retry_wait", !.attempts = n,
                                      !.due = FALSE, !.stale = FALSE, !.err = e]
    <3>1. q \in Row
      BY <1>1 DEF Row, Statuses, Active
    <3>. QED  BY <2>3, <3>1 DEF MarkRetry
  <2>. QED
    BY <2>1, <2>2, <2>3
       DEF Finish, MarkFailed, MarkCancelled, MarkBlockedAuth, MarkNeedsReconcile,
           Statuses, Active, Terminal
<1>. QED  BY <1>2, OneRowType DEF TypeOK

LEMMA ClockType ==
  ASSUME TypeOK, Clock
  PROVE  TypeOK'
<1>1. PICK i \in Ids : BackoffElapses(i) \/ ClaimAges(i)
  BY DEF Clock
<1>2. tasks[i] \in Row
  BY DEF TypeOK, Ids
<1>3. CASE BackoffElapses(i)
  <2>. DEFINE r == [tasks[i] EXCEPT !.due = TRUE]
  <2>1. r \in Row
    BY <1>2 DEF Row
  <2>2. tasks' = [tasks EXCEPT ![i] = r]
    BY <1>3 DEF BackoffElapses
  <2>. QED  BY <2>1, <2>2, OneRowType DEF TypeOK
<1>4. CASE ClaimAges(i)
  <2>. DEFINE r == [tasks[i] EXCEPT !.stale = TRUE]
  <2>1. r \in Row
    BY <1>2 DEF Row
  <2>2. tasks' = [tasks EXCEPT ![i] = r]
    BY <1>4 DEF ClaimAges
  <2>. QED  BY <2>1, <2>2, OneRowType DEF TypeOK
<1>. QED  BY <1>1, <1>3, <1>4

LEMMA BulkType ==
  ASSUME TypeOK,
         \/ \E lp \in LocalPaths, e \in ErrorClasses : CancelActiveByLocalPath(lp, e)
         \/ ResumeBlockedAuth
         \/ RecoverStaleTasks
  PROVE  TypeOK'
<1>1. \A i \in Ids : tasks[i] \in Row
  BY DEF TypeOK, Ids
<1>2. ASSUME NEW lp \in LocalPaths, NEW e \in ErrorClasses, CancelActiveByLocalPath(lp, e)
      PROVE  TypeOK'
  <2>1. \A i \in Ids : [tasks[i] EXCEPT !.status = "cancelled", !.due = FALSE,
                                        !.stale = FALSE, !.err = e] \in Row
    BY <1>1 DEF Row, Statuses, Terminal
  <2>2. \A i \in Ids : tasks'[i] \in Row
    BY <1>1, <1>2, <2>1 DEF CancelActiveByLocalPath
  <2>. QED  BY <1>2, <2>2, RowwiseType DEF CancelActiveByLocalPath, TypeOK
<1>3. CASE ResumeBlockedAuth
  <2>1. \A i \in Ids : [tasks[i] EXCEPT !.status = "pending", !.err = "none"] \in Row
    BY <1>1 DEF Row, Statuses, Active
  <2>2. \A i \in Ids : tasks'[i] \in Row
    BY <1>1, <1>3, <2>1 DEF ResumeBlockedAuth
  <2>. QED  BY <1>3, <2>2, RowwiseType DEF ResumeBlockedAuth, TypeOK
<1>4. CASE RecoverStaleTasks
  <2>1. \A i \in Ids : [tasks[i] EXCEPT !.status = "pending", !.stale = FALSE] \in Row
    BY <1>1 DEF Row, Statuses, Active
  <2>2. \A i \in Ids : tasks'[i] \in Row
    BY <1>1, <1>4, <2>1 DEF RecoverStaleTasks
  <2>. QED  BY <1>4, <2>2, RowwiseType DEF RecoverStaleTasks, TypeOK
<1>. QED  BY <1>2, <1>3, <1>4

\* The table is a sequence of at most MaxTasks well-formed rows, whatever the
\* store's callers do: every statement leaves every column in its range.
THEOREM TypeCorrect == TableSpec => []TypeOK
<1>1. TableInit => TypeOK
  BY TaskTableAssumption DEF TableInit, TypeOK
<1>2. TypeOK /\ [TableNext]_tasks => TypeOK'
  <2>1. ASSUME TypeOK, UNCHANGED tasks PROVE TypeOK'
    BY <2>1 DEF TypeOK
  <2>. QED
    BY <2>1, EnqueueType, ClaimType, FinishType, BulkType, ClockType DEF TableNext
<1>. QED  BY <1>1, <1>2, PTL DEF TableSpec
-----------------------------------------------------------------------------
(***************************************************************************)
(* What each step does to keys and statuses.  Only three things can        *)
(* happen: a row is added for a request nobody is working on; one row      *)
(* changes and, if it becomes active or running, the guard of its          *)
(* statement held; or rows change in bulk without becoming active or       *)
(* running.                                                                *)
(***************************************************************************)

\* A row is added and no active row had its key.
Adds ==
  \E t \in Targets : ActiveFor(t) = {} /\ tasks' = Append(tasks, NewRow(t))

\* Only row i changes, and it starts nothing its statement's guard forbids.
Touches(i) ==
  /\ KeepsKeys
  /\ \A j \in Ids \ {i} : tasks'[j] = tasks[j]
  /\ IsActive(tasks'[i]) => IsActive(tasks[i]) \/ ActiveFor(tasks[i]) = {}
  /\ tasks'[i].status = "running" =>
       IsActive(tasks[i]) /\ (tasks[i].status = "running" \/ ~PathBusy(i))

\* No row becomes active or running.
Calms ==
  /\ KeepsKeys
  /\ \A i \in Ids :
       /\ tasks'[i].lp = tasks[i].lp
       /\ IsActive(tasks'[i]) => IsActive(tasks[i])
       /\ tasks'[i].status = "running" => tasks[i].status = "running"

LEMMA EnqueueShape ==
  ASSUME TypeOK, NEW t \in Targets, EnqueueOrMerge(t)
  PROVE  Adds \/ \E i \in Ids : Touches(i)
<1>1. CASE ActiveFor(t) = {} /\ tasks' = Append(tasks, NewRow(t))
  BY <1>1 DEF Adds
<1>2. ASSUME NEW i \in ActiveFor(t), tasks' = [tasks EXCEPT ![i] = Merged(@, t)]
      PROVE  i \in Ids /\ Touches(i)
  <2>1. i \in Ids /\ tasks[i] \in Row
    BY DEF ActiveFor, TypeOK, Ids
  <2>2. Ids' = Ids /\ (\A j \in Ids \ {i} : tasks'[j] = tasks[j]) /\ tasks'[i] = Merged(tasks[i], t)
    BY <1>2, <2>1 DEF Ids, TypeOK
  <2>3. tasks'[i].status = tasks[i].status /\ SlotKey(tasks'[i]) = SlotKey(tasks[i])
    BY <2>1, <2>2 DEF Merged, SlotKey, Row
  <2>. QED  BY <2>1, <2>2, <2>3 DEF Touches, KeepsKeys, IsActive, Active
<1>. QED  BY <1>1, <1>2 DEF EnqueueOrMerge

LEMMA OneRowShape ==
  ASSUME TypeOK, NEW i \in Ids, ClaimTask(i) \/ Finish(i) \/ BackoffElapses(i) \/ ClaimAges(i)
  PROVE  Touches(i) /\ tasks'[i].lp = tasks[i].lp
<1>1. tasks[i] \in Row
  BY DEF TypeOK, Ids
<1>2. CASE ClaimTask(i)
  BY <1>1, <1>2
     DEF ClaimTask, CanClaim, Ready, Touches, KeepsKeys, SlotKey, IsActive, Active, TypeOK, Ids, Row
<1>3. CASE CompleteTask(i)
  BY <1>1, <1>3
     DEF CompleteTask, Touches, KeepsKeys, SlotKey, IsActive, Active, TypeOK, Ids, Row
<1>4. ASSUME NEW e \in ErrorClasses, MarkFailed(i, e)
      PROVE  Touches(i) /\ tasks'[i].lp = tasks[i].lp
  BY <1>1, <1>4
     DEF MarkFailed, Touches, KeepsKeys, SlotKey, IsActive, Active, TypeOK, Ids, Row
<1>10. ASSUME NEW e \in ErrorClasses, MarkCancelled(i, e)
       PROVE  Touches(i) /\ tasks'[i].lp = tasks[i].lp
  BY <1>1, <1>10
     DEF MarkCancelled, Touches, KeepsKeys, SlotKey, IsActive, Active, TypeOK, Ids, Row
<1>5. ASSUME NEW e \in ErrorClasses, MarkBlockedAuth(i, e)
      PROVE  Touches(i) /\ tasks'[i].lp = tasks[i].lp
  BY <1>1, <1>5
     DEF MarkBlockedAuth, CanFinish, Touches, KeepsKeys, SlotKey, IsActive, Active, TypeOK, Ids, Row
<1>6. ASSUME NEW e \in ErrorClasses, MarkNeedsReconcile(i, e)
      PROVE  Touches(i) /\ tasks'[i].lp = tasks[i].lp
  BY <1>1, <1>6
     DEF MarkNeedsReconcile, CanNeedReconcile, Touches, KeepsKeys, SlotKey, IsActive, Active,
         TypeOK, Ids, Row
<1>7. ASSUME NEW e \in ErrorClasses, NEW n \in 0..MaxAttempts, MarkRetry(i, n, e)
      PROVE  Touches(i) /\ tasks'[i].lp = tasks[i].lp
  BY <1>1, <1>7
     DEF MarkRetry, CanFinish, Touches, KeepsKeys, SlotKey, IsActive, Active, TypeOK, Ids, Row
<1>8. CASE BackoffElapses(i)
  BY <1>1, <1>8
     DEF BackoffElapses, Touches, KeepsKeys, SlotKey, IsActive, Active, TypeOK, Ids, Row
<1>9. CASE ClaimAges(i)
  BY <1>1, <1>9
     DEF ClaimAges, Touches, KeepsKeys, SlotKey, IsActive, Active, TypeOK, Ids, Row
<1>. QED  BY <1>2, <1>3, <1>4, <1>5, <1>6, <1>7, <1>8, <1>9, <1>10 DEF Finish

LEMMA BulkShape ==
  ASSUME TypeOK,
         \/ \E lp \in LocalPaths, e \in ErrorClasses : CancelActiveByLocalPath(lp, e)
         \/ ResumeBlockedAuth
         \/ RecoverStaleTasks
  PROVE  Calms
<1>1. \A i \in Ids : tasks[i] \in Row
  BY DEF TypeOK, Ids
<1>2. ASSUME NEW lp \in LocalPaths, NEW e \in ErrorClasses, CancelActiveByLocalPath(lp, e)
      PROVE  Calms
  BY <1>1, <1>2 DEF CancelActiveByLocalPath, Calms, KeepsKeys, SlotKey, IsActive, Active, Ids, Row
<1>3. CASE ResumeBlockedAuth
  BY <1>1, <1>3 DEF ResumeBlockedAuth, Calms, KeepsKeys, SlotKey, IsActive, Active, Ids, Row
<1>4. CASE RecoverStaleTasks
  BY <1>1, <1>4 DEF RecoverStaleTasks, Calms, KeepsKeys, SlotKey, IsActive, Active, Ids, Row
<1>. QED  BY <1>2, <1>3, <1>4

LEMMA StepShape ==
  ASSUME TypeOK, TableNext
  PROVE  Adds \/ Calms \/ \E i \in Ids : Touches(i)
BY EnqueueShape, OneRowShape, BulkShape DEF TableNext, Clock
-----------------------------------------------------------------------------
(***************************************************************************)
(* Deduplication and same-path serialisation.                              *)
(***************************************************************************)

LEMMA SameKey ==
  ASSUME NEW r \in Row, NEW s \in Row
  PROVE  /\ SameTask(r, s) <=> SlotKey(r) = SlotKey(s)
         /\ SameRemote(r, s) <=> SlotKey(r).root = SlotKey(s).root /\ SlotKey(r).rp = SlotKey(s).rp
BY DEF SameTask, SameRemote, SlotKey

\* An added row: the ids grow by one and every older row is as it was.
LEMMA AddedRow ==
  ASSUME TypeOK, NEW t \in Targets, tasks' = Append(tasks, NewRow(t))
  PROVE  /\ Ids = 1..Len(tasks) /\ Ids' = 1..(Len(tasks) + 1) /\ Len(tasks) \in Nat
         /\ \A i \in Ids : tasks'[i] = tasks[i]
         /\ tasks'[Len(tasks) + 1] = NewRow(t)
BY NewRowType DEF TypeOK, Ids

TableInv ==
  /\ TypeOK
  /\ ActiveDedup
  /\ OneRunningPerRemote

LEMMA DedupStep ==
  ASSUME TypeOK, TypeOK', ActiveDedup, TableNext
  PROVE  ActiveDedup'
<1>. SUFFICES ASSUME NEW i \in Ids', NEW j \in Ids', i # j,
                     IsActive(tasks'[i]), IsActive(tasks'[j]), SameTask(tasks'[i], tasks'[j])
              PROVE  FALSE
  BY DEF ActiveDedup
<1>1. CASE Adds
  <2>1. PICK t \in Targets : ActiveFor(t) = {} /\ tasks' = Append(tasks, NewRow(t))
    BY <1>1 DEF Adds
  <2>2. i \in Ids \/ i = Len(tasks) + 1
    BY <2>1, AddedRow
  <2>3. j \in Ids \/ j = Len(tasks) + 1
    BY <2>1, AddedRow
  <2>4. CASE i \in Ids /\ j \in Ids
    BY <2>1, <2>4, AddedRow DEF ActiveDedup
  <2>5. ASSUME NEW k \in Ids, IsActive(tasks[k]), SameTask(tasks[k], NewRow(t)) PROVE FALSE
    BY <2>1, <2>5 DEF ActiveFor, SameTask, NewRow
  <2>6. CASE i \in Ids /\ j = Len(tasks) + 1
    BY <2>1, <2>5, <2>6, AddedRow
  <2>7. CASE j \in Ids /\ i = Len(tasks) + 1
    BY <2>1, <2>5, <2>7, AddedRow DEF SameTask
  <2>. QED  BY <2>2, <2>3, <2>4, <2>6, <2>7
<1>2. CASE Calms
  <2>1. i \in Ids /\ j \in Ids /\ tasks[i] \in Row /\ tasks[j] \in Row
        /\ tasks'[i] \in Row /\ tasks'[j] \in Row
    BY <1>2 DEF Calms, KeepsKeys, TypeOK, Ids
  <2>2. SameTask(tasks[i], tasks[j]) /\ IsActive(tasks[i]) /\ IsActive(tasks[j])
    BY <1>2, <2>1, SameKey DEF Calms, KeepsKeys
  <2>. QED  BY <2>1, <2>2 DEF ActiveDedup
<1>3. ASSUME NEW k \in Ids, Touches(k) PROVE FALSE
  <2>1. i \in Ids /\ j \in Ids /\ tasks[i] \in Row /\ tasks[j] \in Row
        /\ tasks'[i] \in Row /\ tasks'[j] \in Row
    BY <1>3 DEF Touches, KeepsKeys, TypeOK, Ids
  <2>2. SameTask(tasks[i], tasks[j])
    BY <1>3, <2>1, SameKey DEF Touches, KeepsKeys
  <2>3. i \in ActiveFor(tasks[j]) \/ ~IsActive(tasks[i])
    BY <2>1, <2>2 DEF ActiveFor
  <2>4. j \in ActiveFor(tasks[i]) \/ ~IsActive(tasks[j])
    BY <2>1, <2>2 DEF ActiveFor, SameTask
  <2>. QED  BY <1>3, <2>1, <2>2, <2>3, <2>4 DEF Touches, ActiveDedup
<1>. QED  BY <1>1, <1>2, <1>3, StepShape

LEMMA OneRunningStep ==
  ASSUME TypeOK, TypeOK', OneRunningPerRemote, TableNext
  PROVE  OneRunningPerRemote'
<1>. SUFFICES ASSUME NEW i \in Ids', NEW j \in Ids', i # j,
                     tasks'[i].status = "running", tasks'[j].status = "running",
                     SameRemote(tasks'[i], tasks'[j])
              PROVE  FALSE
  BY DEF OneRunningPerRemote
<1>1. CASE Adds
  <2>1. PICK t \in Targets : tasks' = Append(tasks, NewRow(t))
    BY <1>1 DEF Adds
  <2>2. i \in Ids /\ j \in Ids
    BY <2>1, AddedRow DEF NewRow
  <2>. QED  BY <2>1, <2>2, AddedRow DEF OneRunningPerRemote
<1>2. CASE Calms
  <2>1. i \in Ids /\ j \in Ids /\ tasks[i] \in Row /\ tasks[j] \in Row
        /\ tasks'[i] \in Row /\ tasks'[j] \in Row
    BY <1>2 DEF Calms, KeepsKeys, TypeOK, Ids
  <2>2. /\ SameRemote(tasks[i], tasks[j])
        /\ tasks[i].status = "running" /\ tasks[j].status = "running"
    BY <1>2, <2>1, SameKey DEF Calms, KeepsKeys
  <2>. QED  BY <2>1, <2>2 DEF OneRunningPerRemote
<1>3. ASSUME NEW k \in Ids, Touches(k) PROVE FALSE
  <2>1. i \in Ids /\ j \in Ids /\ tasks[i] \in Row /\ tasks[j] \in Row
        /\ tasks'[i] \in Row /\ tasks'[j] \in Row
    BY <1>3 DEF Touches, KeepsKeys, TypeOK, Ids
  <2>2. SameRemote(tasks[i], tasks[j]) /\ SameRemote(tasks[j], tasks[i])
    BY <1>3, <2>1, SameKey DEF Touches, KeepsKeys, SameRemote
  <2>3. ~PathBusy(i) => tasks[j].status # "running"
    BY <2>1, <2>2 DEF PathBusy
  <2>4. ~PathBusy(j) => tasks[i].status # "running"
    BY <2>1, <2>2 DEF PathBusy
  <2>. QED  BY <1>3, <2>1, <2>2, <2>3, <2>4 DEF Touches, OneRunningPerRemote
<1>. QED  BY <1>1, <1>2, <1>3, StepShape

LEMMA TableInvariant == TableSpec => []TableInv
<1>1. TableInit => ActiveDedup /\ OneRunningPerRemote
  BY DEF TableInit, ActiveDedup, OneRunningPerRemote, Ids
<1>2. TypeOK /\ TypeOK' /\ ActiveDedup /\ OneRunningPerRemote /\ [TableNext]_tasks
        => ActiveDedup' /\ OneRunningPerRemote'
  <2>1. ASSUME ActiveDedup, OneRunningPerRemote, UNCHANGED tasks
        PROVE  ActiveDedup' /\ OneRunningPerRemote'
    BY <2>1 DEF ActiveDedup, OneRunningPerRemote, Ids
  <2>. QED  BY <2>1, DedupStep, OneRunningStep
<1>. QED  BY <1>1, <1>2, TypeCorrect, PTL DEF TableSpec, TableInv

\* Whatever interleaving of enqueues, claims, outcomes, resumes and stale-task
\* recoveries the callers produce, one piece of work has at most one active row:
\* no second task is ever queued behind EnqueueOrMerge's back.
THEOREM Deduplication == TableSpec => []ActiveDedup
BY TableInvariant, PTL DEF TableInv

\* At most one task of a root runs on a remote path, for any number of rows,
\* roots and operations: ClaimTask's NOT EXISTS is enough, because no other
\* statement makes a row running.
THEOREM RemoteSerialisation == TableSpec => []OneRunningPerRemote
BY TableInvariant, PTL DEF TableInv
-----------------------------------------------------------------------------
(***************************************************************************)
(* Local paths.  When each remote path of a root belongs to one local      *)
(* path, a merge cannot change a row's local path, and the same argument   *)
(* serialises the local side.                                              *)
(***************************************************************************)

LEMMA RequestedStep ==
  ASSUME TypeOK, RowsRequested, TableNext
  PROVE  RowsRequested'
<1>1. ASSUME NEW t \in Targets, EnqueueOrMerge(t)
      PROVE  RowsRequested'
  <2>1. CASE tasks' = Append(tasks, NewRow(t))
    <3>1. SlotKey(NewRow(t)) = SlotKey(t) /\ NewRow(t).lp = t.lp
      BY DEF NewRow, SlotKey
    <3>. QED  BY <2>1, <3>1, AddedRow DEF RowsRequested
  <2>2. ASSUME NEW i \in ActiveFor(t), tasks' = [tasks EXCEPT ![i] = Merged(@, t)]
        PROVE  RowsRequested'
    <3>1. i \in Ids /\ tasks[i] \in Row /\ SlotKey(tasks[i]) = SlotKey(t)
      BY DEF ActiveFor, TypeOK, Ids, SameTask, SlotKey
    <3>2. Ids' = Ids /\ (\A j \in Ids \ {i} : tasks'[j] = tasks[j]) /\ tasks'[i] = Merged(tasks[i], t)
      BY <2>2, <3>1 DEF Ids, TypeOK
    <3>3. SlotKey(tasks'[i]) = SlotKey(t) /\ tasks'[i].lp = t.lp
      BY <3>1, <3>2 DEF Merged, SlotKey, Row
    <3>. QED  BY <3>2, <3>3 DEF RowsRequested
  <2>. QED  BY <1>1, <2>1, <2>2 DEF EnqueueOrMerge
<1>2. ASSUME NEW i \in Ids,
             ClaimTask(i) \/ Finish(i) \/ BackoffElapses(i) \/ ClaimAges(i)
      PROVE  RowsRequested'
  BY <1>2, OneRowShape DEF Touches, KeepsKeys, RowsRequested
<1>3. CASE Calms
  BY <1>3 DEF Calms, KeepsKeys, RowsRequested
<1>. QED  BY <1>1, <1>2, <1>3, BulkShape DEF TableNext, Clock

LEMMA Requested == TableSpec => []RowsRequested
<1>1. TableInit => RowsRequested
  BY DEF TableInit, RowsRequested, Ids
<1>2. TypeOK /\ RowsRequested /\ [TableNext]_tasks => RowsRequested'
  <2>1. ASSUME RowsRequested, UNCHANGED tasks PROVE RowsRequested'
    BY <2>1 DEF RowsRequested, Ids
  <2>. QED  BY <2>1, RequestedStep
<1>. QED  BY <1>1, <1>2, TypeCorrect, PTL DEF TableSpec

\* Rows that were there keep their local path.
KeepsLocal == \A i \in Ids : i \in Ids' => tasks'[i].lp = tasks[i].lp

LEMMA LocalPathsKept ==
  ASSUME PathsAreFunctional, TypeOK, RowsRequested, TableNext
  PROVE  KeepsLocal
<1>1. ASSUME NEW t \in Targets, EnqueueOrMerge(t)
      PROVE  KeepsLocal
  <2>1. CASE tasks' = Append(tasks, NewRow(t))
    BY <2>1, AddedRow DEF KeepsLocal
  <2>2. ASSUME NEW i \in ActiveFor(t), tasks' = [tasks EXCEPT ![i] = Merged(@, t)]
        PROVE  KeepsLocal
    <3>1. i \in Ids /\ tasks[i] \in Row /\ SlotKey(tasks[i]) = SlotKey(t)
      BY DEF ActiveFor, TypeOK, Ids, SameTask, SlotKey
    <3>2. Ids' = Ids /\ (\A j \in Ids \ {i} : tasks'[j] = tasks[j]) /\ tasks'[i] = Merged(tasks[i], t)
      BY <2>2, <3>1 DEF Ids, TypeOK
    <3>3. PICK u \in Targets : SlotKey(tasks[i]) = SlotKey(u) /\ tasks[i].lp = u.lp
      BY <3>1 DEF RowsRequested
    <3>4. u.lp = t.lp
      BY <3>1, <3>3 DEF PathsAreFunctional, SameRemote, SlotKey
    <3>5. tasks'[i].lp = t.lp
      BY <3>1, <3>2 DEF Merged, Row
    <3>. QED  BY <3>2, <3>3, <3>4, <3>5 DEF KeepsLocal
  <2>. QED  BY <1>1, <2>1, <2>2 DEF EnqueueOrMerge
<1>2. ASSUME NEW i \in Ids,
             ClaimTask(i) \/ Finish(i) \/ BackoffElapses(i) \/ ClaimAges(i)
      PROVE  KeepsLocal
  BY <1>2, OneRowShape DEF Touches, KeepsLocal
<1>3. CASE Calms
  BY <1>3 DEF Calms, KeepsLocal
<1>. QED  BY <1>1, <1>2, <1>3, BulkShape DEF TableNext, Clock

LEMMA OneLocalStep ==
  ASSUME PathsAreFunctional, TypeOK, TypeOK', RowsRequested, OneRunningPerLocal, TableNext
  PROVE  OneRunningPerLocal'
<1>. SUFFICES ASSUME NEW i \in Ids', NEW j \in Ids', i # j,
                     tasks'[i].status = "running", tasks'[j].status = "running",
                     tasks'[i].lp = tasks'[j].lp
              PROVE  FALSE
  BY DEF OneRunningPerLocal
<1>0. KeepsLocal
  BY LocalPathsKept
<1>1. CASE Adds
  <2>1. PICK t \in Targets : tasks' = Append(tasks, NewRow(t))
    BY <1>1 DEF Adds
  <2>2. i \in Ids /\ j \in Ids
    BY <2>1, AddedRow DEF NewRow
  <2>. QED  BY <2>1, <2>2, AddedRow DEF OneRunningPerLocal
<1>2. CASE Calms
  BY <1>2 DEF Calms, KeepsKeys, OneRunningPerLocal
<1>3. ASSUME NEW k \in Ids, Touches(k) PROVE FALSE
  <2>1. i \in Ids /\ j \in Ids /\ tasks[i].lp = tasks[j].lp
    BY <1>0, <1>3 DEF Touches, KeepsKeys, KeepsLocal
  <2>2. ~PathBusy(i) => tasks[j].status # "running"
    BY <2>1 DEF PathBusy
  <2>3. ~PathBusy(j) => tasks[i].status # "running"
    BY <2>1 DEF PathBusy
  <2>. QED  BY <1>3, <2>1, <2>2, <2>3 DEF Touches, OneRunningPerLocal
<1>. QED  BY <1>1, <1>2, <1>3, StepShape

\* At most one task runs per local path, provided the callers never map two
\* local paths of a root to one remote path.  The proviso is needed:
\* EnqueueOrMerge overwrites the local path of a running row.
THEOREM LocalSerialisation ==
  ASSUME PathsAreFunctional
  PROVE  TableSpec => []OneRunningPerLocal
<1>1. TableInit => OneRunningPerLocal
  BY DEF TableInit, OneRunningPerLocal, Ids
<1>2. TypeOK /\ TypeOK' /\ RowsRequested /\ OneRunningPerLocal /\ [TableNext]_tasks
        => OneRunningPerLocal'
  <2>1. ASSUME OneRunningPerLocal, UNCHANGED tasks PROVE OneRunningPerLocal'
    BY <2>1 DEF OneRunningPerLocal, Ids
  <2>. QED  BY <2>1, OneLocalStep
<1>. QED  BY <1>1, <1>2, TypeCorrect, Requested, PTL DEF TableSpec
-----------------------------------------------------------------------------
(***************************************************************************)
(* The table implements TaskSlots.                                         *)
(***************************************************************************)

\* If the slots of S all come to phase p and the others stay, that is a Move.
LEMMA MoveSlots ==
  ASSUME NEW S \in SUBSET Slots, NEW p,
         \A s \in S : SlotOf(s)' = p,
         \A s \in Slots \ S : SlotOf(s)' = SlotOf(s)
  PROVE  Abstract!Move(S, p)
<1>1. SlotMap' = [s \in Slots |-> SlotOf(s)']
  BY DEF SlotMap
<1>2. SlotMap' = [s \in Slots |-> IF s \in S THEN p ELSE SlotMap[s]]
  BY <1>1 DEF SlotMap
<1>. QED  BY <1>2 DEF Abstract!Move

\* If no slot changes phase, the slots stutter.
LEMMA KeepSlots ==
  ASSUME \A s \in Slots : SlotOf(s)' = SlotOf(s)
  PROVE  SlotMap' = SlotMap
BY DEF SlotMap

\* The phase of a slot in terms of its rows.
LEMMA Phase ==
  ASSUME NEW s \in Slots
  PROVE  /\ SlotMap[s] = SlotOf(s)
         /\ SlotOf(s) = "running" <=> HasRow(s, {"running"})
         /\ SlotOf(s) = "idle" <=> ~HasRow(s, Active)
         /\ SlotOf(s) = "waiting" <=> HasRow(s, Active) /\ ~HasRow(s, {"running"})
         /\ SlotOf(s) \in {"idle", "waiting", "running"}
BY DEF SlotMap, SlotOf, HasRow, Active

LEMMA AddsRefines ==
  ASSUME TypeOK, NEW t \in Targets, ActiveFor(t) = {}, tasks' = Append(tasks, NewRow(t))
  PROVE  Abstract!Next
<1>. DEFINE k == SlotKey(t)
<1>1. k \in Slots /\ SlotKey(NewRow(t)) = k /\ NewRow(t).status = "pending"
  BY DEF Slots, SlotKey, NewRow
<1>2. ASSUME NEW i \in Ids PROVE tasks[i].status \in Active => SlotKey(tasks[i]) # k
  BY DEF ActiveFor, IsActive, SameTask, SlotKey
<1>3. SlotOf(k) = "idle"
  BY <1>2 DEF SlotOf, HasRow, Active
<1>4. SlotOf(k)' = "waiting"
  <2>1. HasRow(k, Active)'
    BY <1>1, AddedRow DEF HasRow, Active
  <2>2. ~HasRow(k, {"running"})'
    BY <1>1, <1>2, AddedRow DEF HasRow, Active
  <2>. QED  BY <2>1, <2>2 DEF SlotOf
<1>5. ASSUME NEW s \in Slots \ {k} PROVE SlotOf(s)' = SlotOf(s)
  <2>1. HasRow(s, {"running"})' <=> HasRow(s, {"running"})
    BY <1>1, AddedRow DEF HasRow
  <2>2. HasRow(s, Active)' <=> HasRow(s, Active)
    BY <1>1, AddedRow DEF HasRow
  <2>. QED  BY <2>1, <2>2 DEF SlotOf
<1>6. Abstract!Move({k}, "waiting")
  BY <1>1, <1>4, <1>5, MoveSlots
<1>7. Abstract!Submit(k)
  BY <1>1, <1>3, <1>6, Phase DEF Abstract!Submit
<1>. QED  BY <1>1, <1>7 DEF Abstract!Next

LEMMA TouchesRefines ==
  ASSUME TypeOK, TypeOK', RowsRequested, NEW i \in Ids, Touches(i)
  PROVE  Abstract!Next \/ SlotMap' = SlotMap
<1>1. PICK k \in Slots : k = SlotKey(tasks[i])
  BY DEF RowsRequested, Slots
<1>2. Ids' = Ids /\ (\A j \in Ids : SlotKey(tasks'[j]) = SlotKey(tasks[j]))
      /\ (\A j \in Ids \ {i} : tasks'[j] = tasks[j])
  BY DEF Touches, KeepsKeys
<1>3. ASSUME NEW s \in Slots \ {k} PROVE SlotOf(s)' = SlotOf(s)
  <2>1. HasRow(s, {"running"})' <=> HasRow(s, {"running"})
    BY <1>1, <1>2 DEF HasRow
  <2>2. HasRow(s, Active)' <=> HasRow(s, Active)
    BY <1>1, <1>2 DEF HasRow
  <2>. QED  BY <2>1, <2>2 DEF SlotOf
<1>4. Abstract!Move({k}, SlotOf(k)')
  BY <1>1, <1>3, MoveSlots
<1>5. SlotOf(k)' \in {"idle", "waiting", "running"}
  BY DEF SlotOf
<1>6. CASE SlotOf(k)' = SlotOf(k)
  <2>1. \A s \in Slots : SlotOf(s)' = SlotOf(s)
    BY <1>3, <1>6
  <2>. QED  BY <2>1, KeepSlots
<1>7. CASE SlotOf(k)' = "idle" /\ SlotOf(k) # "idle"
  <2>1. Abstract!Settle({k})
    BY <1>1, <1>4, <1>7, Phase DEF Abstract!Settle
  <2>. QED  BY <1>1, <2>1 DEF Abstract!Next
<1>8. CASE SlotOf(k)' = "waiting" /\ SlotOf(k) = "running"
  <2>1. Abstract!Return({k})
    BY <1>1, <1>4, <1>8, Phase DEF Abstract!Return
  <2>. QED  BY <1>1, <2>1 DEF Abstract!Next
<1>9. CASE SlotOf(k)' = "waiting" /\ SlotOf(k) = "idle"
  <2>1. Abstract!Submit(k)
    BY <1>1, <1>4, <1>9, Phase DEF Abstract!Submit
  <2>. QED  BY <1>1, <2>1 DEF Abstract!Next
<1>10. CASE SlotOf(k)' = "running" /\ SlotOf(k) # "running"
  <2>1. \A j \in Ids : SlotKey(tasks[j]) = k => tasks[j].status # "running"
    BY <1>1, <1>10, Phase DEF HasRow
  <2>2. HasRow(k, {"running"})'
    BY <1>10 DEF SlotOf
  <2>3. PICK j \in Ids : tasks'[j].status = "running" /\ SlotKey(tasks'[j]) = k
    BY <1>2, <2>2 DEF HasRow
  <2>4. tasks'[i].status = "running"
    BY <1>1, <1>2, <2>1, <2>3
  <2>5. IsActive(tasks[i]) /\ ~PathBusy(i)
    BY <1>1, <2>1, <2>4 DEF Touches
  <2>6. SlotOf(k) = "waiting"
    BY <1>1, <1>10, <2>5, Phase DEF HasRow, IsActive
  <2>7. ASSUME NEW u \in Slots, Abstract!Contend(k, u), SlotMap[u] = "running" PROVE FALSE
    <3>1. PICK l \in Ids : tasks[l].status = "running" /\ SlotKey(tasks[l]) = u
      BY <2>7, Phase DEF HasRow
    <3>2. l # i
      BY <1>1, <2>1, <3>1
    <3>3. SameRemote(tasks[l], tasks[i])
      BY <1>1, <2>7, <3>1 DEF Abstract!Contend, SameRemote, SlotKey
    <3>. QED  BY <2>5, <3>1, <3>2, <3>3 DEF PathBusy
  <2>8. Abstract!Start(k)
    BY <1>1, <1>4, <1>10, <2>6, <2>7, Phase DEF Abstract!Start
  <2>. QED  BY <1>1, <2>8 DEF Abstract!Next
<1>. QED  BY <1>1, <1>5, <1>6, <1>7, <1>8, <1>9, <1>10, Phase

\* A bulk change that keeps keys and the running rows settles the slots whose
\* last active rows it finishes.
LEMMA CancelRefines ==
  ASSUME TypeOK, NEW lp \in LocalPaths, NEW e \in ErrorClasses, CancelActiveByLocalPath(lp, e)
  PROVE  Abstract!Next \/ SlotMap' = SlotMap
<1>. DEFINE S == {s \in Slots : SlotOf(s) # "idle" /\ SlotOf(s)' = "idle"}
<1>0. \A i \in Ids : tasks[i] \in Row
  BY DEF TypeOK, Ids
<1>1. Ids' = Ids
  BY DEF CancelActiveByLocalPath, Ids
<1>2. ASSUME NEW i \in Ids
      PROVE  /\ SlotKey(tasks'[i]) = SlotKey(tasks[i])
             /\ tasks'[i].status = "running" <=> tasks[i].status = "running"
             /\ tasks'[i].status \in Active => tasks[i].status \in Active
  BY <1>0 DEF CancelActiveByLocalPath, SlotKey, Active, Row
<1>3. ASSUME NEW s \in Slots PROVE SlotOf(s)' = SlotOf(s) \/ s \in S
  <2>1. HasRow(s, {"running"})' <=> HasRow(s, {"running"})
    BY <1>1, <1>2 DEF HasRow
  <2>2. HasRow(s, Active)' => HasRow(s, Active)
    BY <1>1, <1>2 DEF HasRow
  <2>. QED  BY <2>1, <2>2 DEF SlotOf
<1>4. CASE S = {}
  BY <1>3, <1>4, KeepSlots
<1>5. CASE S # {}
  <2>1. Abstract!Move(S, "idle")
    BY <1>3, MoveSlots
  <2>2. Abstract!Settle(S)
    BY <1>5, <2>1, Phase DEF Abstract!Settle
  <2>. QED  BY <2>2 DEF Abstract!Next
<1>. QED  BY <1>4, <1>5

LEMMA ResumeRefines ==
  ASSUME TypeOK, ResumeBlockedAuth
  PROVE  SlotMap' = SlotMap
<1>0. \A i \in Ids : tasks[i] \in Row
  BY DEF TypeOK, Ids
<1>1. Ids' = Ids
  BY DEF ResumeBlockedAuth, Ids
<1>2. ASSUME NEW i \in Ids
      PROVE  /\ SlotKey(tasks'[i]) = SlotKey(tasks[i])
             /\ tasks'[i].status = "running" <=> tasks[i].status = "running"
             /\ tasks'[i].status \in Active <=> tasks[i].status \in Active
  BY <1>0 DEF ResumeBlockedAuth, SlotKey, Active, Row
<1>3. ASSUME NEW s \in Slots PROVE SlotOf(s)' = SlotOf(s)
  <2>1. HasRow(s, {"running"})' <=> HasRow(s, {"running"})
    BY <1>1, <1>2 DEF HasRow
  <2>2. HasRow(s, Active)' <=> HasRow(s, Active)
    BY <1>1, <1>2 DEF HasRow
  <2>. QED  BY <2>1, <2>2 DEF SlotOf
<1>. QED  BY <1>3, KeepSlots

LEMMA RecoverRefines ==
  ASSUME TypeOK, RecoverStaleTasks
  PROVE  Abstract!Next \/ SlotMap' = SlotMap
<1>. DEFINE S == {s \in Slots : SlotOf(s) = "running" /\ SlotOf(s)' = "waiting"}
<1>0. \A i \in Ids : tasks[i] \in Row
  BY DEF TypeOK, Ids
<1>1. Ids' = Ids
  BY DEF RecoverStaleTasks, Ids
<1>2. ASSUME NEW i \in Ids
      PROVE  /\ SlotKey(tasks'[i]) = SlotKey(tasks[i])
             /\ tasks'[i].status = "running" => tasks[i].status = "running"
             /\ tasks'[i].status \in Active <=> tasks[i].status \in Active
  BY <1>0 DEF RecoverStaleTasks, SlotKey, Active, Row
<1>3. ASSUME NEW s \in Slots PROVE SlotOf(s)' = SlotOf(s) \/ s \in S
  <2>1. HasRow(s, {"running"})' => HasRow(s, {"running"})
    BY <1>1, <1>2 DEF HasRow
  <2>2. HasRow(s, Active)' <=> HasRow(s, Active)
    BY <1>1, <1>2 DEF HasRow
  <2>3. HasRow(s, {"running"}) => HasRow(s, Active)
    BY DEF HasRow, Active
  <2>. QED  BY <2>1, <2>2, <2>3 DEF SlotOf
<1>4. CASE S = {}
  BY <1>3, <1>4, KeepSlots
<1>5. CASE S # {}
  <2>1. Abstract!Move(S, "waiting")
    BY <1>3, MoveSlots
  <2>2. Abstract!Return(S)
    BY <1>5, <2>1, Phase DEF Abstract!Return
  <2>. QED  BY <2>2 DEF Abstract!Next
<1>. QED  BY <1>4, <1>5

\* The task table keeps the promise of TaskSlots for any requests, rows and
\* retries: owed work never disappears unsettled, and contending work never runs
\* at the same time.
THEOREM TableImplementsSlots == TableSpec => ImplementsSlots
<1>1. TableInit => Abstract!Init
  BY DEF TableInit, Abstract!Init, SlotMap, SlotOf, HasRow, Ids
<1>2. TypeOK /\ TypeOK' /\ RowsRequested /\ [TableNext]_tasks => [Abstract!Next]_SlotMap
  <2>. SUFFICES ASSUME TypeOK, TypeOK', RowsRequested, [TableNext]_tasks
                PROVE  Abstract!Next \/ SlotMap' = SlotMap
    OBVIOUS
  <2>1. CASE UNCHANGED tasks
    BY <2>1 DEF SlotMap, SlotOf, HasRow, Ids
  <2>2. ASSUME NEW t \in Targets, EnqueueOrMerge(t)
        PROVE  Abstract!Next \/ SlotMap' = SlotMap
    BY <2>2, EnqueueShape, AddsRefines, TouchesRefines DEF Adds
  <2>3. ASSUME NEW i \in Ids,
               ClaimTask(i) \/ Finish(i) \/ BackoffElapses(i) \/ ClaimAges(i)
        PROVE  Abstract!Next \/ SlotMap' = SlotMap
    BY <2>3, OneRowShape, TouchesRefines
  <2>. QED
    BY <2>1, <2>2, <2>3, CancelRefines, ResumeRefines, RecoverRefines DEF TableNext, Clock
<1>. QED  BY <1>1, <1>2, TypeCorrect, Requested, PTL DEF TableSpec, ImplementsSlots, Abstract!Spec

\* What a step may do to a row that is finished or waits to be reconciled.
Stays ==
  \A i \in Ids :
    /\ tasks[i].status \in Terminal =>
         tasks'[i].status \in {tasks[i].status, "needs_reconcile"}
    /\ tasks[i].status = "needs_reconcile" => tasks'[i].status = "needs_reconcile"

LEMMA EnqueueStays ==
  ASSUME TypeOK, NEW t \in Targets, EnqueueOrMerge(t)
  PROVE  Stays
<1>1. CASE tasks' = Append(tasks, NewRow(t))
  BY <1>1, AddedRow DEF Stays, Terminal
<1>2. ASSUME NEW i \in ActiveFor(t), tasks' = [tasks EXCEPT ![i] = Merged(@, t)]
      PROVE  Stays
  <2>1. i \in Ids /\ tasks[i] \in Row
    BY DEF ActiveFor, TypeOK, Ids
  <2>2. \A j \in Ids : tasks'[j].status = tasks[j].status
    BY <1>2, <2>1 DEF Merged, Row, TypeOK, Ids
  <2>. QED  BY <2>2 DEF Stays, Terminal
<1>. QED  BY <1>1, <1>2 DEF EnqueueOrMerge

LEMMA OneRowStays ==
  ASSUME TypeOK, NEW i \in Ids, ClaimTask(i) \/ Finish(i) \/ BackoffElapses(i) \/ ClaimAges(i)
  PROVE  Stays
<1>1. \A j \in Ids \ {i} : tasks'[j] = tasks[j]
  BY OneRowShape DEF Touches
<1>2. tasks[i] \in Row
  BY DEF TypeOK, Ids
<1>3. tasks[i].status \in Terminal \cup {"needs_reconcile"} =>
        tasks'[i].status \in {tasks[i].status, "needs_reconcile"}
  <2>1. CASE ClaimTask(i)
    BY <2>1 DEF ClaimTask, CanClaim, Ready, Terminal
  <2>2. CASE CompleteTask(i) \/ \E e \in ErrorClasses : MarkFailed(i, e) \/ MarkBlockedAuth(i, e)
    BY <2>2 DEF CompleteTask, MarkFailed, MarkBlockedAuth, CanFinish, Terminal
  <2>3. CASE \E e \in ErrorClasses, n \in 0..MaxAttempts : MarkRetry(i, n, e)
    BY <2>3 DEF MarkRetry, CanFinish, Terminal
  <2>4. CASE \E e \in ErrorClasses : MarkCancelled(i, e)
    BY <2>4 DEF MarkCancelled, CanCancel, Terminal
  <2>5. ASSUME NEW e \in ErrorClasses, MarkNeedsReconcile(i, e)
        PROVE  tasks'[i].status = "needs_reconcile"
    BY <1>2, <2>5 DEF MarkNeedsReconcile, Row, TypeOK, Ids
  <2>6. CASE BackoffElapses(i) \/ ClaimAges(i)
    BY <2>6 DEF BackoffElapses, ClaimAges, Terminal
  <2>. QED  BY <2>1, <2>2, <2>3, <2>4, <2>5, <2>6 DEF Finish
<1>. QED  BY <1>1, <1>3 DEF Stays

LEMMA BulkStays ==
  ASSUME TypeOK,
         \/ \E lp \in LocalPaths, e \in ErrorClasses : CancelActiveByLocalPath(lp, e)
         \/ ResumeBlockedAuth
         \/ RecoverStaleTasks
  PROVE  Stays
BY DEF CancelActiveByLocalPath, ResumeBlockedAuth, RecoverStaleTasks, Stays, Terminal

\* No statement brings finished work back to be done again: a finished row can
\* only become needs_reconcile, and nothing leaves needs_reconcile.
THEOREM FinishedStays == TableSpec => FinishedRowsStayFinished
<1>1. TypeOK /\ [TableNext]_tasks => Stays \/ tasks' = tasks
  BY EnqueueStays, OneRowStays, BulkStays DEF TableNext, Clock
<1>2. TypeOK /\ [TableNext]_tasks => [Stays]_tasks
  BY <1>1
<1>3. TableSpec => [][Stays]_tasks
  BY <1>2, TypeCorrect, PTL DEF TableSpec
<1>. QED  BY <1>3 DEF FinishedRowsStayFinished, Stays
=============================================================================
