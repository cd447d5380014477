-------------------------- MODULE DaemonStartupProofs --------------------------
(***************************************************************************)
(* Theorems about DaemonStartup, for any requests, error classes and       *)
(* malformed paths.                                                        *)
(***************************************************************************)
EXTENDS DaemonStartup, TaskTableProofs

\* No step of the start-up adds a row or sends one to another remote path.
RemotesKept == Ids' = Ids /\ \A i \in Ids : tasks'[i].rp = tasks[i].rp

LEMMA InitRows ==
  ASSUME StartupInit
  PROVE  TypeOK
<1>1. PICK t \in Targets, u \in Targets :
        \E x \in LeftBehind(t), y \in LeftBehind(u) : tasks = <<x, y>>
  BY DEF StartupInit
<1>2. ASSUME NEW v \in Targets, NEW x \in LeftBehind(v) PROVE x \in Row
  <2>1. ASSUME NEW s \in {"pending", "retry_wait", "running", "blocked_auth"}, NEW n \in {0, 1},
               NEW d \in BOOLEAN, NEW a \in BOOLEAN, NEW e \in ErrorClasses \cup {"none"}
        PROVE  RowAsLeft(v, s, n, d, a, e) \in Row
    <3>1. n \in 0..MaxAttempts /\ s \in Statuses
      BY TaskTableAssumption DEF Statuses, Active
    <3>. QED  BY <3>1, NewRowType DEF Row, RowAsLeft
  <2>. QED  BY <2>1 DEF LeftBehind
<1>3. PICK r \in Row, q \in Row : tasks = <<r, q>>
  BY <1>1, <1>2
<1>4. <<r, q>> \in Seq(Row) /\ Len(<<r, q>>) = 2
  OBVIOUS
<1>. QED  BY <1>3, <1>4, DaemonStartupAssumption, TaskTableAssumption DEF TypeOK

LEMMA OneRowKeeps ==
  ASSUME TypeOK, NEW i \in Ids, ClaimTask(i) \/ CompleteTask(i)
  PROVE  TypeOK' /\ RemotesKept
<1>1. TypeOK'
  BY ClaimType, FinishType DEF Finish
<1>2. \A j \in Ids : tasks[j] \in Row
  BY DEF TypeOK, Ids
<1>3. PICK r \in Row : r.rp = tasks[i].rp /\ tasks' = [tasks EXCEPT ![i] = r]
  <2>1. CASE ClaimTask(i)
    <3>. DEFINE r == [tasks[i] EXCEPT !.status = "running", !.attempts = NextAttempt(@),
                                      !.due = FALSE, !.stale = FALSE]
    <3>1. r \in Row /\ r.rp = tasks[i].rp
      BY <1>2, NextAttemptType DEF Row, Statuses, Active
    <3>2. tasks' = [tasks EXCEPT ![i] = r]
      BY <2>1 DEF ClaimTask
    <3>. QED  BY <3>1, <3>2
  <2>2. CASE CompleteTask(i)
    <3>. DEFINE r == [tasks[i] EXCEPT !.status = "succeeded", !.due = FALSE,
                                      !.stale = FALSE, !.err = "none"]
    <3>1. r \in Row /\ r.rp = tasks[i].rp
      BY <1>2 DEF Row, Statuses, Terminal
    <3>2. tasks' = [tasks EXCEPT ![i] = r]
      BY <2>2 DEF CompleteTask
    <3>. QED  BY <3>1, <3>2
  <2>. QED  BY <2>1, <2>2
<1>4. Ids' = Ids
  BY <1>3, OneRowType DEF Ids
<1>. QED  BY <1>1, <1>3, <1>4 DEF RemotesKept, TypeOK, Ids

LEMMA BulkKeeps ==
  ASSUME TypeOK, ResumeBlockedAuth \/ RecoverStaleTasks
  PROVE  TypeOK' /\ RemotesKept
<1>1. TypeOK'
  BY BulkType
<1>2. \A j \in Ids : tasks[j] \in Row
  BY DEF TypeOK, Ids
<1>3. Ids' = Ids
  BY DEF ResumeBlockedAuth, RecoverStaleTasks, Ids
<1>4. \A j \in Ids : tasks'[j].rp = tasks[j].rp
  <2>1. CASE ResumeBlockedAuth
    BY <1>2, <2>1 DEF ResumeBlockedAuth, Row
  <2>2. CASE RecoverStaleTasks
    BY <1>2, <2>2 DEF RecoverStaleTasks, Row
  <2>. QED  BY <2>1, <2>2
<1>. QED  BY <1>1, <1>3, <1>4 DEF RemotesKept

LEMMA CleanupKeeps ==
  ASSUME TypeOK, CleanupMalformed
  PROVE  TypeOK' /\ RemotesKept
<1>1. \A j \in Ids : tasks[j] \in Row
  BY DEF TypeOK, Ids
<1>2. \A j \in Ids : [tasks[j] EXCEPT !.status = "failed", !.due = FALSE, !.err = "other"] \in Row
  BY <1>1, DaemonStartupAssumption DEF Row, Statuses, Terminal
<1>3. tasks' = [j \in Ids |-> tasks'[j]]
  BY DEF CleanupMalformed
<1>4. \A j \in Ids : tasks'[j] \in Row
  BY <1>1, <1>2 DEF CleanupMalformed
<1>5. tasks' \in Seq(Row) /\ Len(tasks') = Len(tasks) /\ DOMAIN tasks' = Ids
  BY <1>3, <1>4, RowwiseType
<1>6. \A j \in Ids : tasks'[j].rp = tasks[j].rp
  BY <1>1 DEF CleanupMalformed, Row
<1>. QED  BY <1>5, <1>6 DEF TypeOK, RemotesKept, Ids

LEMMA ClockKeeps ==
  ASSUME TypeOK, Clock
  PROVE  TypeOK' /\ RemotesKept
<1>1. TypeOK'
  BY ClockType
<1>2. \A j \in Ids : tasks[j] \in Row
  BY DEF TypeOK, Ids
<1>3. PICK i \in Ids : \/ tasks' = [tasks EXCEPT ![i].due = TRUE]
                       \/ tasks' = [tasks EXCEPT ![i].stale = TRUE]
  BY DEF Clock, BackoffElapses, ClaimAges
<1>4. Ids' = Ids
  BY <1>3 DEF Ids
<1>5. \A j \in Ids : tasks'[j].rp = tasks[j].rp
  BY <1>2, <1>3 DEF Row, Ids
<1>. QED  BY <1>1, <1>4, <1>5 DEF RemotesKept

\* Every step's effect on the table.
LEMMA TableKept ==
  ASSUME TypeOK, [StartupNext]_vars
  PROVE  TypeOK' /\ RemotesKept
<1>1. CASE UNCHANGED tasks
  BY <1>1 DEF TypeOK, RemotesKept, Ids
<1>. QED
  BY <1>1, OneRowKeeps, BulkKeeps, CleanupKeeps, ClockKeeps
     DEF StartupNext, Startup, OpenStore, ListUploads, ReconcileUpload, SkipUpload, ReconcileDone,
         StartBackground, Work, Interrupt, Tick, unchangedTasks, vars
-----------------------------------------------------------------------------
LEMMA InitStartup == StartupInit => StartupTypeOK /\ CountedAreOnRemote
BY InitRows DEF StartupInit, StartupTypeOK, CountedAreOnRemote, Stages

LEMMA StartupTypeStep == StartupTypeOK /\ [StartupNext]_vars => StartupTypeOK'
<1>. SUFFICES ASSUME StartupTypeOK, [StartupNext]_vars PROVE StartupTypeOK'
  OBVIOUS
<1>1. TypeOK' /\ Ids' = Ids
  BY TableKept DEF StartupTypeOK, RemotesKept
<1>. USE DEF StartupTypeOK, Stages
<1>2. CASE OpenStore
  BY <1>1, <1>2 DEF OpenStore, Enter
<1>3. CASE CleanupMalformed
  BY <1>1, <1>3 DEF CleanupMalformed, Enter
<1>4. CASE ListUploads
  BY <1>1, <1>4 DEF ListUploads, Enter, ReadyIds
<1>5. ASSUME NEW i \in Ids, ReconcileUpload(i) \/ SkipUpload(i) PROVE StartupTypeOK'
  BY <1>1, <1>5 DEF ReconcileUpload, SkipUpload
<1>6. CASE ReconcileDone
  BY <1>1, <1>6 DEF ReconcileDone, Enter, unchangedTasks
<1>7. CASE StartBackground
  BY <1>1, <1>7 DEF StartBackground, Enter, AfterStart
<1>8. CASE Work \/ Tick
  BY <1>1, <1>8 DEF Work, Tick
<1>9. CASE Interrupt
  BY <1>1, <1>9 DEF Interrupt, unchangedTasks
<1>10. CASE UNCHANGED vars
  BY <1>1, <1>10 DEF vars
<1>. QED
  BY <1>2, <1>3, <1>4, <1>5, <1>6, <1>7, <1>8, <1>9, <1>10 DEF StartupNext, Startup

\* The start-up keeps the table and its own variables well-formed; in particular
\* what is left of the listed snapshot is empty wherever the loop is over.
THEOREM StartupTypeCorrect == StartupSpec => []StartupTypeOK
BY InitStartup, StartupTypeStep, PTL DEF StartupSpec

LEMMA CountedStep ==
  StartupTypeOK /\ CountedAreOnRemote /\ [StartupNext]_vars => CountedAreOnRemote'
<1>. SUFFICES ASSUME StartupTypeOK, CountedAreOnRemote, [StartupNext]_vars
              PROVE  CountedAreOnRemote'
  OBVIOUS
<1>1. \A i \in Ids : tasks'[i].rp = tasks[i].rp
  BY TableKept DEF StartupTypeOK, RemotesKept
<1>2. counted \subseteq Ids
  BY DEF StartupTypeOK
<1>3. CASE counted' = counted /\ landed' = landed
  BY <1>1, <1>2, <1>3 DEF CountedAreOnRemote
<1>4. ASSUME NEW i \in Ids, ReconcileUpload(i) PROVE CountedAreOnRemote'
  BY <1>1, <1>2, <1>4 DEF ReconcileUpload, Doubtful, CountedAreOnRemote
<1>. QED
  BY <1>3, <1>4
     DEF StartupNext, Startup, OpenStore, CleanupMalformed, ListUploads, SkipUpload, ReconcileDone,
         StartBackground, Work, Interrupt, Tick, Enter, unchangedTasks, vars

\* Only uploads whose file has landed are counted as reconciled, although the loop
\* works on a snapshot of the rows and does not look at CompleteTask's answer.
THEOREM CountedLanded == StartupSpec => []CountedAreOnRemote
BY InitStartup, StartupTypeStep, CountedStep, PTL DEF StartupSpec
=============================================================================
