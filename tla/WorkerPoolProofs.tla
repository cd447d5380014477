--------------------------- MODULE WorkerPoolProofs ---------------------------
(***************************************************************************)
(* Theorems about WorkerPool, for any processes, workers and bounds.       *)
(***************************************************************************)
EXTENDS WorkerPool, TaskTableProofs, FiniteSetTheorems

\* A set of task ids has a least element: among the intervals that end in the
\* set one includes no other, because inclusion of finite sets is well founded.
LEMMA LeastId ==
  ASSUME NEW T \in SUBSET (1..MaxTasks), T # {}
  PROVE  \E m \in T : \A n \in T : m <= n
<1>. DEFINE U == 1..MaxTasks
            I == {1..n : n \in T}
            Less == StrictSubsetOrdering(U)
<1>1. I \subseteq SUBSET U /\ I # {}
  <2>1. \A n \in T : 1..n \subseteq U
    BY TaskTableAssumption
  <2>. QED  BY <2>1
<1>2. IsWellFoundedOn(Less, SUBSET U)
  <2>1. IsFiniteSet(U)
    BY TaskTableAssumption, FS_Interval
  <2>. HIDE DEF U
  <2>. QED  BY <2>1, FS_StrictSubsetOrderingWellFounded, FS_FiniteSubsetsOfFinite
<1>3. PICK A \in I : \A B \in I : <<B, A>> \notin Less
  <2>. HIDE DEF I, Less, U
  <2>. QED  BY <1>1, <1>2, WFMin, ZenonT(30)
<1>4. PICK m \in T : A = 1..m
  BY <1>3
<1>5. ASSUME NEW n \in T, n < m PROVE FALSE
  <2>1. 1..n \in I /\ 1..n \subseteq 1..m /\ 1..n # 1..m
    BY <1>5, TaskTableAssumption
  <2>2. <<1..n, A>> \in Less
    BY <1>1, <1>4, <2>1 DEF StrictSubsetOrdering
  <2>. QED  BY <1>3, <2>1, <2>2
<1>. QED  BY <1>5, TaskTableAssumption

LEMMA OldestSnapshot ==
  ASSUME NEW B \in SUBSET Snapshot, B # {}
  PROVE  \E s \in B : \A t \in B : s.id <= t.id
<1>. DEFINE T == {s.id : s \in B}
<1>1. T \subseteq 1..MaxTasks /\ T # {}
  BY DEF Snapshot
<1>2. PICK m \in T : \A n \in T : m <= n
  <2>. HIDE DEF T
  <2>. QED  BY <1>1, LeastId
<1>3. PICK s \in B : s.id = m
  BY <1>2
<1>4. \A t \in B : s.id <= t.id
  BY <1>2, <1>3
<1>. QED  BY <1>4

LEMMA CurrentInBatch ==
  ASSUME NEW w \in Workers, worker[w].batch \subseteq Snapshot, worker[w].batch # {}
  PROVE  Current(w) \in worker[w].batch
BY OldestSnapshot DEF Current
-----------------------------------------------------------------------------
(***************************************************************************)
(* The inductive invariant: every snapshot in a batch is of a row of the   *)
(* table, and agrees with it on what never changes.                        *)
(***************************************************************************)

Listed ==
  \A w \in Workers : \A s \in worker[w].batch :
    s.id \in Ids /\ tasks[s.id].op = OpOf[w] /\ tasks[s.id].rp = s.rp

PoolInv == PoolTypeOK /\ Listed

\* Worker w moves to state r, and its batch does not grow.
Moves(w, r) ==
  /\ worker' = [worker EXCEPT ![w] = r]
  /\ r \in WorkerState /\ InHand(r)
  /\ r.batch \subseteq worker[w].batch

\* What the table operations preserve of a row.
RowsStay ==
  \A i \in Ids : i \in Ids' /\ tasks'[i].op = tasks[i].op /\ tasks'[i].rp = tasks[i].rp

LEMMA InTheHand ==
  ASSUME PoolInv, NEW w \in Workers, worker[w].pc \notin {"exited", "idle"}
  PROVE  /\ worker[w] \in WorkerState /\ InHand(worker[w])
         /\ Current(w) \in worker[w].batch /\ Current(w) \in Snapshot
         /\ Current(w).id \in Ids
         /\ tasks[Current(w).id].op = OpOf[w] /\ tasks[Current(w).id].rp = Current(w).rp
<1>1. worker[w] \in WorkerState /\ InHand(worker[w])
  BY DEF PoolInv, PoolTypeOK
<1>2. worker[w].batch \subseteq Snapshot /\ worker[w].batch # {}
  BY <1>1 DEF WorkerState, InHand
<1>3. Current(w) \in worker[w].batch
  BY <1>2, CurrentInBatch
<1>. QED  BY <1>1, <1>2, <1>3 DEF PoolInv, Listed

LEMMA GoToMoves ==
  ASSUME PoolInv, NEW w \in Workers, worker[w].pc \notin {"exited", "idle"},
         NEW l \in {"next", "claim"} \cup Processing, GoTo(w, l)
  PROVE  Moves(w, [worker[w] EXCEPT !.pc = l])
<1>1. worker[w] \in WorkerState /\ InHand(worker[w])
  BY InTheHand
<1>2. l \notin {"exited", "idle"}
  BY DEF Processing, Locked
<1>. QED  BY <1>1, <1>2 DEF GoTo, Moves, WorkerState, InHand

LEMMA FailMoves ==
  ASSUME PoolInv, NEW w \in Workers, worker[w].pc \notin {"exited", "idle"},
         NEW e \in Outcomes, Fail(w, e)
  PROVE  Moves(w, [worker[w] EXCEPT !.pc = "report", !.err = e])
<1>1. worker[w] \in WorkerState /\ InHand(worker[w])
  BY InTheHand
<1>. QED  BY <1>1 DEF Fail, PoolInv, PoolTypeOK, Moves, WorkerState, InHand, Processing, Locked

\* What is left of the batch of w after the current snapshot.
Rest(w) == worker[w].batch \ {Current(w)}

\* Where Done leaves worker w.
After(w) == IF Rest(w) = {} THEN Idle ELSE [Idle EXCEPT !.pc = "next", !.batch = Rest(w)]

LEMMA DoneMoves ==
  ASSUME PoolInv, NEW w \in Workers, worker[w].pc \notin {"exited", "idle"}, Done(w)
  PROVE  Moves(w, After(w))
<1>1. worker[w] \in WorkerState /\ InHand(worker[w])
  BY InTheHand
<1>2. Rest(w) \subseteq worker[w].batch /\ Rest(w) \subseteq Snapshot
  BY <1>1 DEF Rest, WorkerState
<1>3. After(w) \in WorkerState /\ InHand(After(w)) /\ After(w).batch = Rest(w)
  BY <1>2 DEF After, Idle, WorkerState, InHand
<1>. QED  BY <1>2, <1>3 DEF Done, Moves, After, Rest
-----------------------------------------------------------------------------
(***************************************************************************)
(* What each step of a worker does to the workers and to the table.        *)
(***************************************************************************)

LEMMA PollMoves ==
  ASSUME PoolInv, NEW w \in Workers, Poll(w)
  PROVE  \E S \in SUBSET ReadyIds(OpOf[w]) :
           /\ S # {}
           /\ worker' = [worker EXCEPT ![w] = [worker[w] EXCEPT !.pc = "next",
                                                  !.batch = {SnapshotOf(i) : i \in S}]]
           /\ UNCHANGED tasks
<1>. DEFINE S == ListPendingTasks(OpOf[w], ListLimit)
<1>1. S \subseteq ReadyIds(OpOf[w])
  BY DEF ListPendingTasks
<1>. DEFINE r == [worker[w] EXCEPT !.pc = "next", !.batch = {SnapshotOf(i) : i \in S}]
<1>2. S # {} /\ worker' = [worker EXCEPT ![w] = r] /\ UNCHANGED tasks
  <2>. HIDE DEF S
  <2>. QED  BY DEF S, Poll, PoolInv, PoolTypeOK, WorkerState
<1>. HIDE DEF S
<1>. QED  BY <1>1, <1>2

LEMMA LoopMoves ==
  ASSUME PoolInv, NEW w \in Workers, NextTask(w) \/ Exit(w) \/ Lock(w)
  PROVE  (\E r : Moves(w, r)) /\ UNCHANGED tasks
<1>1. CASE NextTask(w)
  <2>1. worker[w].pc = "next"
    BY <1>1 DEF NextTask, At
  <2>2. CASE GoTo(w, "claim")
    BY <1>1, <2>1, <2>2, GoToMoves DEF NextTask
  <2>3. CASE worker' = [worker EXCEPT ![w] = Idle]
    <3>1. Moves(w, Idle)
      BY <2>3 DEF Moves, Idle, WorkerState, InHand
    <3>. QED  BY <1>1, <3>1 DEF NextTask
  <2>4. CASE worker' = [worker EXCEPT ![w] = [Idle EXCEPT !.pc = "exited"]]
    <3>1. Moves(w, [Idle EXCEPT !.pc = "exited"])
      BY <2>4 DEF Moves, Idle, WorkerState, InHand
    <3>. QED  BY <1>1, <3>1 DEF NextTask
  <2>. QED  BY <1>1, <2>2, <2>3, <2>4 DEF NextTask
<1>2. CASE Exit(w)
  <2>1. worker[w] \in WorkerState /\ InHand(worker[w])
    BY DEF PoolInv, PoolTypeOK
  <2>2. Moves(w, [worker[w] EXCEPT !.pc = "exited"])
    BY <1>2, <2>1 DEF Exit, GoTo, At, Moves, WorkerState, InHand
  <2>. QED  BY <1>2, <2>2 DEF Exit
<1>3. CASE Lock(w)
  BY <1>3, GoToMoves DEF Lock, At, Processing, Locked
<1>. QED  BY <1>1, <1>2, <1>3

LEMMA ClassIsOutcome == \A e : Class(e) \in Outcomes
BY DEF Class, Outcomes

LEMMA UploadMoves ==
  ASSUME PoolInv, NEW w \in Workers, StatLocal(w) \/ Preflight(w) \/ Send(w) \/ Verify(w)
  PROVE  (\E r : Moves(w, r)) /\ UNCHANGED tasks
<1>1. worker[w].pc \notin {"exited", "idle"}
  BY DEF StatLocal, Preflight, Send, Verify, At
<1>2. \A l \in {"preflight", "send", "verify", "commit"} : GoTo(w, l) => \E r : Moves(w, r)
  BY <1>1, GoToMoves DEF Processing, Locked
<1>3. \A e \in Outcomes : Fail(w, e) => \E r : Moves(w, r)
  BY <1>1, FailMoves
<1>4. {"task_failed", "unsupported_overwrite", "upload_finalize"} \subseteq Outcomes
  BY DEF Outcomes
<1>5. CASE StatLocal(w)
  <2>1. local[Current(w).lp] \in Sizes \cup {NoFile} /\ worker[w] \in WorkerState /\ InHand(worker[w])
    BY <1>1, InTheHand DEF PoolInv, PoolTypeOK, Snapshot
  <2>2. CASE Fail(w, "task_failed")
    BY <1>3, <1>4, <1>5, <2>2 DEF StatLocal
  <2>3. ASSUME NEW size \in Sizes \cup {NoFile},
               worker' = [worker EXCEPT ![w].pc = "preflight", ![w].seen = size]
        PROVE  Moves(w, [worker[w] EXCEPT !.pc = "preflight", !.seen = size])
    BY <1>1, <2>1, <2>3 DEF PoolInv, PoolTypeOK, Moves, WorkerState, InHand, Processing, Locked
  <2>. QED  BY <1>5, <2>1, <2>2, <2>3 DEF StatLocal
<1>6. CASE Preflight(w)
  BY <1>2, <1>3, <1>4, <1>6, ClassIsOutcome DEF Preflight
<1>7. CASE Send(w)
  BY <1>2, <1>3, <1>4, <1>7, ClassIsOutcome DEF Send
<1>8. CASE Verify(w)
  BY <1>2, <1>3, <1>4, <1>8 DEF Verify
<1>. QED  BY <1>5, <1>6, <1>7, <1>8

LEMMA TransferMoves ==
  ASSUME PoolInv, NEW w \in Workers, Transfer(w)
  PROVE  (\E r : Moves(w, r)) /\ UNCHANGED tasks
<1>1. worker[w].pc \notin {"exited", "idle"}
  BY DEF Transfer, At
<1>2. GoTo(w, "commit") => \E r : Moves(w, r)
  BY <1>1, GoToMoves DEF Processing, Locked
<1>3. \A e \in Outcomes : Fail(w, e) => \E r : Moves(w, r)
  BY <1>1, FailMoves
<1>4. "task_failed" \in Outcomes
  BY DEF Outcomes
<1>. QED  BY <1>2, <1>3, <1>4, ClassIsOutcome DEF Transfer, Download, Remove

LEMMA ClassesRecorded ==
  "other" \in ErrorClasses /\ \A e : Recorded(e) \in ErrorClasses
BY WorkerPoolAssumption DEF Recorded

\* The claims and outcomes of the row worker w is at.
LEMMA OutcomeTable ==
  ASSUME PoolInv, NEW w \in Workers,
         Claim(w) \/ CancelFiltered(w) \/ Commit(w) \/ Unsure(w) \/ Report(w) \/ Halt(w)
  PROVE  [TableNext]_tasks
<1>. DEFINE i == Current(w).id
<1>0. worker[w].pc \notin {"exited", "idle"}
  BY DEF Claim, CancelFiltered, Commit, Unsure, Report, Halt, At
<1>1. i \in Ids /\ Current(w) \in Snapshot
  BY <1>0, InTheHand
<1>2. ClaimTask(i) \/ Finish(i) => TableNext
  BY <1>1 DEF TableNext
<1>. HIDE DEF i
<1>3. CASE Claim(w)
  BY <1>2, <1>3 DEF Claim, Fault, i
<1>4. CASE CancelFiltered(w)
  BY <1>2, <1>4, ClassesRecorded DEF CancelFiltered, Attempt, Fault, Finish, i
<1>5. CASE Commit(w)
  BY <1>2, <1>5 DEF Commit, Fault, Finish, i
<1>6. CASE Unsure(w)
  BY <1>2, <1>6, ClassesRecorded DEF Unsure, Attempt, Fault, Finish, i
<1>7. CASE Report(w)
  <2>. DEFINE n == Current(w).attempts + 1
  <2>1. n <= MaxRetries => n \in 0..MaxAttempts
    BY <1>1, TaskTableAssumption, WorkerPoolAssumption DEF Snapshot
  <2>2. n \in Nat /\ MaxRetries \in Nat
    BY <1>1, TaskTableAssumption, WorkerPoolAssumption DEF Snapshot
  <2>. HIDE DEF n
  <2>3. \/ MarkBlockedAuth(i, "other") \/ MarkFailed(i, "other")
        \/ n <= MaxRetries /\ MarkRetry(i, n, Recorded(worker[w].err))
        \/ UNCHANGED tasks
    BY <1>7, <2>2 DEF Report, Attempt, Fault, i, n
  <2>. QED  BY <1>2, <2>1, <2>3, ClassesRecorded DEF Finish
<1>8. CASE Halt(w)
  BY <1>8 DEF Halt
<1>. QED  BY <1>3, <1>4, <1>5, <1>6, <1>7, <1>8

LEMMA OutcomeMoves ==
  ASSUME PoolInv, NEW w \in Workers,
         Claim(w) \/ CancelFiltered(w) \/ Commit(w) \/ Unsure(w) \/ Report(w) \/ Halt(w)
  PROVE  \E r : Moves(w, r)
<1>1. worker[w].pc \notin {"exited", "idle"}
  BY DEF Claim, CancelFiltered, Commit, Unsure, Report, Halt, At
<1>2. \A l \in {"lock", "unsure", "halt"} : GoTo(w, l) => \E r : Moves(w, r)
  BY <1>1, GoToMoves DEF Processing, Locked
<1>3. Done(w) => \E r : Moves(w, r)
  BY <1>1, DoneMoves
<1>. QED  BY <1>2, <1>3 DEF Claim, CancelFiltered, Commit, Unsure, Report, Halt
-----------------------------------------------------------------------------
(***************************************************************************)
(* Every step of the pool is a step of the table.                          *)
(***************************************************************************)

LEMMA WorkerTable ==
  ASSUME PoolInv, NEW w \in Workers, WorkerStep(w)
  PROVE  [TableNext]_tasks
BY PollMoves, LoopMoves, UploadMoves, TransferMoves, OutcomeTable DEF WorkerStep

LEMMA ProcTable ==
  ASSUME NEW p \in Procs, ProcStep(p)
  PROVE  [TableNext]_tasks
BY DEF ProcStep, Open, Close, Start, Shutdown, Stopped, Crash, Attempt, Fault, TableNext

LEMMA UserTable ==
  ASSUME UserStep \/ Tick
  PROVE  [TableNext]_tasks
BY ClassesRecorded DEF UserStep, LocalChange, Enqueue, CancelGone, Tick, TableNext

LEMMA PoolTable ==
  ASSUME PoolInv, [PoolNext]_vars
  PROVE  [TableNext]_tasks
<1>1. CASE UNCHANGED vars
  BY <1>1 DEF vars
<1>. QED  BY <1>1, WorkerTable, ProcTable, UserTable DEF PoolNext

LEMMA TableStepType ==
  ASSUME TypeOK, [TableNext]_tasks
  PROVE  TypeOK'
<1>1. ASSUME UNCHANGED tasks PROVE TypeOK'
  BY <1>1 DEF TypeOK
<1>. QED
  BY <1>1, EnqueueType, ClaimType, FinishType, BulkType, ClockType DEF TableNext

LEMMA TableStepRows ==
  ASSUME TypeOK, [TableNext]_tasks
  PROVE  RowsStay
<1>1. CASE UNCHANGED tasks
  BY <1>1 DEF RowsStay, Ids
<1>2. CASE Adds
  <2>1. PICK t \in Targets : tasks' = Append(tasks, NewRow(t))
    BY <1>2 DEF Adds
  <2>. QED  BY <2>1, AddedRow DEF RowsStay
<1>3. CASE KeepsKeys
  BY <1>3 DEF KeepsKeys, SlotKey, RowsStay
<1>. QED  BY <1>1, <1>2, <1>3, StepShape DEF Touches, Calms
-----------------------------------------------------------------------------
(***************************************************************************)
(* The invariant is inductive.                                             *)
(***************************************************************************)

\* The part of the invariant that is about the workers.
WorkersOK ==
  /\ worker \in [Workers -> WorkerState]
  /\ \A w \in Workers : InHand(worker[w])
  /\ Listed

\* The part that is about everything but the table and the workers.
OutsideOK ==
  /\ proc \in [Procs -> {"down", "opened", "up", "stopping"}]
  /\ authBlocked \in [Procs -> BOOLEAN]
  /\ local \in [LocalPaths -> Sizes \cup {NoFile}]
  /\ remote \in [RemotePaths -> Sizes \cup {NoFile}]
  /\ crashes \in 0..MaxCrashes /\ faults \in 0..MaxFaults

LEMMA InvParts == PoolInv <=> TypeOK /\ WorkersOK /\ OutsideOK
BY DEF PoolInv, PoolTypeOK, WorkersOK, OutsideOK

LEMMA MovesKeeps ==
  ASSUME PoolInv, RowsStay, NEW w \in Workers, NEW r, Moves(w, r)
  PROVE  WorkersOK'
<1>1. worker' \in [Workers -> WorkerState] /\ \A v \in Workers : InHand(worker'[v])
  BY DEF Moves, PoolInv, PoolTypeOK
<1>2. \A v \in Workers : worker'[v].batch \subseteq worker[v].batch
  BY DEF Moves, PoolInv, PoolTypeOK
<1>3. Listed'
  BY <1>2 DEF PoolInv, Listed, RowsStay
<1>. QED  BY <1>1, <1>3 DEF WorkersOK

LEMMA PollKeeps ==
  ASSUME PoolInv, RowsStay, NEW w \in Workers, Poll(w)
  PROVE  WorkersOK'
<1>1. PICK S \in SUBSET ReadyIds(OpOf[w]) :
        /\ S # {}
        /\ worker' = [worker EXCEPT ![w] = [worker[w] EXCEPT !.pc = "next",
                                               !.batch = {SnapshotOf(i) : i \in S}]]
        /\ UNCHANGED tasks
  BY PollMoves
<1>. DEFINE B == {SnapshotOf(i) : i \in S}
            r == [worker[w] EXCEPT !.pc = "next", !.batch = B]
<1>2. ASSUME NEW i \in S
      PROVE  /\ SnapshotOf(i) \in Snapshot /\ SnapshotOf(i).id = i /\ i \in Ids
             /\ SnapshotOf(i).rp = tasks[i].rp /\ tasks[i].op = OpOf[w]
  <2>1. i \in Ids /\ tasks[i].op = OpOf[w]
    BY DEF ReadyIds
  <2>2. tasks[i] \in Row /\ i \in 1..MaxTasks
    BY <2>1, TaskTableAssumption DEF PoolInv, PoolTypeOK, TypeOK, Ids
  <2>. QED  BY <2>1, <2>2 DEF SnapshotOf, Snapshot, Row
<1>3. B \subseteq Snapshot /\ B # {}
  BY <1>1, <1>2
<1>4. \A s \in B : s.id \in Ids /\ tasks[s.id].op = OpOf[w] /\ tasks[s.id].rp = s.rp
  BY <1>2
<1>. HIDE DEF B
<1>5. worker[w] \in WorkerState
  BY DEF PoolInv, PoolTypeOK
<1>6. r \in WorkerState /\ InHand(r) /\ r.batch = B
  BY <1>3, <1>5 DEF WorkerState, InHand
<1>. HIDE DEF r
<1>7. worker' = [worker EXCEPT ![w] = r]
  BY <1>1 DEF r, B
<1>8. worker' \in [Workers -> WorkerState] /\ \A v \in Workers : InHand(worker'[v])
  BY <1>6, <1>7 DEF PoolInv, PoolTypeOK
<1>9. Listed'
  BY <1>1, <1>4, <1>6, <1>7 DEF PoolInv, PoolTypeOK, Listed, Ids
<1>. QED  BY <1>8, <1>9 DEF WorkersOK

LEMMA ProcKeeps ==
  ASSUME PoolInv, RowsStay, NEW p \in Procs, ProcStep(p)
  PROVE  WorkersOK'
<1>. DEFINE Reset(r) == worker' = [w \in Workers |-> IF ProcOf[w] = p THEN r ELSE worker[w]]
<1>1. CASE UNCHANGED worker
  BY <1>1 DEF PoolInv, PoolTypeOK, WorkersOK, Listed, RowsStay
<1>2. ASSUME NEW r \in WorkerState, r.pc \in {"exited", "idle"}, r.batch = {}, Reset(r)
      PROVE  WorkersOK'
  <2>1. worker' \in [Workers -> WorkerState] /\ \A v \in Workers : InHand(worker'[v])
    BY <1>2 DEF PoolInv, PoolTypeOK, InHand
  <2>2. \A v \in Workers : worker'[v].batch \subseteq worker[v].batch
    BY <1>2
  <2>3. Listed'
    BY <2>2 DEF PoolInv, Listed, RowsStay
  <2>. QED  BY <2>1, <2>3 DEF WorkersOK
<1>3. /\ Idle \in WorkerState /\ Idle.pc = "idle" /\ Idle.batch = {}
      /\ [Idle EXCEPT !.pc = "exited"] \in WorkerState
      /\ [Idle EXCEPT !.pc = "exited"].pc = "exited" /\ [Idle EXCEPT !.pc = "exited"].batch = {}
  BY DEF Idle, WorkerState
<1>4. \/ UNCHANGED worker \/ Reset(Idle) \/ Reset([Idle EXCEPT !.pc = "exited"])
  BY DEF ProcStep, Open, Close, Start, Shutdown, Stopped, Crash
<1>. HIDE DEF Reset
<1>. QED  BY <1>1, <1>2, <1>3, <1>4

LEMMA WorkersKept ==
  ASSUME PoolInv, RowsStay, [PoolNext]_vars
  PROVE  WorkersOK'
<1>1. CASE UNCHANGED worker
  BY <1>1 DEF PoolInv, PoolTypeOK, WorkersOK, Listed, RowsStay
<1>2. ASSUME NEW w \in Workers, WorkerStep(w) PROVE WorkersOK'
  BY <1>2, PollKeeps, MovesKeeps, LoopMoves, UploadMoves, TransferMoves, OutcomeMoves DEF WorkerStep
<1>3. UserStep \/ Tick => UNCHANGED worker
  BY DEF UserStep, LocalChange, Enqueue, CancelGone, Tick
<1>. QED  BY <1>1, <1>2, <1>3, ProcKeeps DEF PoolNext, vars

\* A step of one worker: a provider call may change the files, Halt blocks the
\* pool, a failing database call is counted.
LEMMA WorkerOutside ==
  ASSUME PoolInv, NEW w \in Workers, WorkerStep(w)
  PROVE  OutsideOK'
<1>0. OutsideOK
  BY InvParts
<1>1. CASE Poll(w) \/ NextTask(w) \/ Exit(w) \/ Lock(w) \/ StatLocal(w) \/ Preflight(w) \/ Verify(w)
  BY <1>0, <1>1 DEF Poll, NextTask, Exit, Lock, StatLocal, Preflight, Verify, outside, OutsideOK
<1>2. faults' \in 0..MaxFaults \/ faults' = faults
         \/ ~(Claim(w) \/ CancelFiltered(w) \/ Commit(w) \/ Unsure(w) \/ Report(w))
  BY <1>0, WorkerPoolAssumption
     DEF Claim, CancelFiltered, Commit, Unsure, Report, Attempt, Fault, OutsideOK
<1>3. CASE Claim(w) \/ CancelFiltered(w) \/ Commit(w) \/ Unsure(w) \/ Report(w)
  <2>1. UNCHANGED <<authBlocked, proc, local, remote, crashes>>
    BY <1>3 DEF Claim, CancelFiltered, Commit, Unsure, Report, outside
  <2>. QED  BY <1>0, <1>2, <1>3, <2>1 DEF OutsideOK
<1>4. CASE Halt(w)
  <2>1. authBlocked' \in [Procs -> BOOLEAN]
    BY <1>0, <1>4 DEF Halt, OutsideOK
  <2>. QED  BY <1>0, <1>4, <2>1 DEF Halt, outside, OutsideOK
<1>5. CASE Send(w) \/ Transfer(w)
  <2>0. worker[w].pc \notin {"exited", "idle"}
    BY <1>5 DEF Send, Transfer, At
  <2>1. Current(w).lp \in LocalPaths /\ Current(w).rp \in RemotePaths
    BY <2>0, InTheHand DEF Snapshot
  <2>2. local' \in [LocalPaths -> Sizes \cup {NoFile}]
    BY <1>0, <1>5, <2>1 DEF Send, Transfer, Download, Remove, OutsideOK
  <2>3. remote' \in [RemotePaths -> Sizes \cup {NoFile}]
    BY <1>0, <1>5, <2>1 DEF Send, Transfer, Download, Remove, OutsideOK
  <2>. QED  BY <1>0, <1>5, <2>2, <2>3 DEF Send, Transfer, OutsideOK
<1>. QED  BY <1>1, <1>3, <1>4, <1>5 DEF WorkerStep

LEMMA OutsideKept ==
  ASSUME PoolInv, [PoolNext]_vars
  PROVE  OutsideOK'
<1>0. OutsideOK
  BY InvParts
<1>1. ASSUME NEW p \in Procs, ProcStep(p) PROVE OutsideOK'
  <2>1. /\ proc' \in [Procs -> {"down", "opened", "up", "stopping"}]
        /\ authBlocked' \in [Procs -> BOOLEAN]
        /\ UNCHANGED <<local, remote>>
    BY <1>0, <1>1
       DEF ProcStep, Open, Close, Start, Shutdown, Stopped, Crash, SetProc, OutsideOK
  <2>2. crashes' \in 0..MaxCrashes
    <3>1. CASE Crash(p)
      BY <1>0, <3>1, WorkerPoolAssumption DEF Crash, OutsideOK
    <3>2. CASE ~Crash(p)
      <4>1. UNCHANGED crashes
        BY <1>1, <3>2 DEF ProcStep, Open, Close, Start, Shutdown, Stopped
      <4>. QED  BY <1>0, <4>1 DEF OutsideOK
    <3>. QED  BY <3>1, <3>2
  <2>3. faults' \in 0..MaxFaults
    BY <1>0, <1>1, WorkerPoolAssumption
       DEF ProcStep, Open, Close, Start, Shutdown, Stopped, Crash, Attempt, Fault, OutsideOK
  <2>. QED  BY <1>0, <2>1, <2>2, <2>3 DEF OutsideOK
<1>2. ASSUME UserStep \/ Tick PROVE OutsideOK'
  <2>1. local' \in [LocalPaths -> Sizes \cup {NoFile}]
    BY <1>0, <1>2 DEF UserStep, LocalChange, Enqueue, CancelGone, Tick, outside, OutsideOK
  <2>2. UNCHANGED <<proc, authBlocked, remote, crashes, faults>>
    BY <1>2 DEF UserStep, LocalChange, Enqueue, CancelGone, Tick, outside
  <2>. QED  BY <1>0, <2>1, <2>2 DEF OutsideOK
<1>3. CASE UNCHANGED vars
  BY <1>0, <1>3 DEF vars, OutsideOK
<1>. QED  BY <1>1, <1>2, <1>3, WorkerOutside DEF PoolNext
-----------------------------------------------------------------------------
LEMMA PoolInvariant == PoolSpec => []PoolInv
<1>1. PoolInit => PoolInv
  <2>. SUFFICES ASSUME PoolInit PROVE PoolInv
    OBVIOUS
  <2>1. TypeOK
    BY TaskTableAssumption DEF PoolInit, TableInit, TypeOK
  <2>2. WorkersOK
    BY DEF PoolInit, WorkersOK, Listed, Idle, WorkerState, InHand
  <2>3. OutsideOK
    BY WorkerPoolAssumption DEF PoolInit, OutsideOK
  <2>. QED  BY <2>1, <2>2, <2>3, InvParts
<1>2. PoolInv /\ [PoolNext]_vars => PoolInv'
  <2>. SUFFICES ASSUME PoolInv, [PoolNext]_vars PROVE PoolInv'
    OBVIOUS
  <2>1. TypeOK' /\ RowsStay
    BY PoolTable, TableStepType, TableStepRows DEF PoolInv, PoolTypeOK
  <2>2. WorkersOK' /\ OutsideOK'
    BY <2>1, WorkersKept, OutsideKept
  <2>. QED  BY <2>1, <2>2 DEF PoolInv, PoolTypeOK, WorkersOK, OutsideOK
<1>. QED  BY <1>1, <1>2, PTL DEF PoolSpec

\* Every worker is somewhere in processTask with the batch that belongs there, and
\* every row and file in its range, for any number of processes, workers and tasks.
THEOREM PoolTypeCorrect == PoolSpec => []PoolTypeOK
<1>1. PoolInv => PoolTypeOK
  BY DEF PoolInv
<1>. QED  BY <1>1, PoolInvariant, PTL

\* Whatever the workers, processes and users do, the table only sees the statements
\* of TaskTable, with arguments it expects: all that is proved of the table holds of
\* the pool.
THEOREM PoolImplementsTable == PoolSpec => TableSpec
<1>1. PoolInit => TableInit
  BY DEF PoolInit
<1>2. PoolInv /\ [PoolNext]_vars => [TableNext]_tasks
  BY PoolTable
<1>. QED  BY <1>1, <1>2, PoolInvariant, PTL DEF PoolSpec, TableSpec

\* However many processes open the store and however many workers each runs, no
\* request is queued twice and no two tasks run on one remote path of a root.
THEOREM PoolSerialises == PoolSpec => [](ActiveDedup /\ OneRunningPerRemote)
BY PoolImplementsTable, Deduplication, RemoteSerialisation, PTL
-----------------------------------------------------------------------------
(***************************************************************************)
(* The path mutex.                                                         *)
(***************************************************************************)

LEMMA CurrentKept ==
  ASSUME NEW w \in Workers, worker'[w].batch = worker[w].batch
  PROVE  Current(w)' = Current(w)
BY DEF Current

\* Each step of a worker moves only that worker: it stays at its task, or leaves it.
LEMMA WorkerSteps ==
  ASSUME PoolInv, NEW w \in Workers, WorkerStep(w)
  PROVE  /\ \A v \in Workers \ {w} : worker'[v] = worker[v]
         /\ \/ worker'[w].batch = worker[w].batch
            \/ worker'[w].pc \in {"idle", "next", "exited"}
<1>0. worker \in [Workers -> WorkerState]
  BY DEF PoolInv, PoolTypeOK
<1>1. CASE \E l : GoTo(w, l)
  BY <1>0, <1>1 DEF GoTo, WorkerState
<1>2. CASE \E e : Fail(w, e)
  BY <1>0, <1>2 DEF Fail, WorkerState
<1>3. CASE Done(w)
  BY <1>0, <1>3 DEF Done, Idle
<1>4. CASE Poll(w) \/ NextTask(w)
  BY <1>0, <1>4 DEF Poll, NextTask, GoTo, Idle, WorkerState
<1>5. CASE StatLocal(w)
  BY <1>0, <1>5 DEF StatLocal, Fail, WorkerState
<1>. QED
  BY <1>1, <1>2, <1>3, <1>4, <1>5
     DEF WorkerStep, Exit, Claim, Lock, CancelFiltered, Preflight, Send, Verify, Transfer,
         Download, Remove, Commit, Unsure, Report, Halt

\* Only Lock takes a path.
LEMMA PathTaken ==
  ASSUME PoolInv, NEW w \in Workers, WorkerStep(w), worker'[w].pc \in Locked
  PROVE  worker[w].pc \in Locked \/ ~PathLocked(w)
<1>0. worker \in [Workers -> WorkerState]
  BY DEF PoolInv, PoolTypeOK
<1>1. CASE Lock(w)
  BY <1>1 DEF Lock
<1>2. CASE Poll(w) \/ NextTask(w) \/ Exit(w) \/ Claim(w)
  <2>1. CASE \E l \in {"claim", "lock", "exited"} : GoTo(w, l)
    BY <1>0, <2>1 DEF GoTo, Locked, WorkerState
  <2>2. CASE Done(w)
    BY <1>0, <2>2 DEF Done, Idle, Locked
  <2>3. CASE Poll(w)
    BY <1>0, <2>3 DEF Poll, Locked, WorkerState
  <2>4. CASE \E r : r.pc \in {"idle", "exited"} /\ worker' = [worker EXCEPT ![w] = r]
    BY <1>0, <2>4 DEF Locked
  <2>5. NextTask(w) => (\E l \in {"claim", "lock", "exited"} : GoTo(w, l))
                       \/ (\E r : r.pc \in {"idle", "exited"} /\ worker' = [worker EXCEPT ![w] = r])
    BY DEF NextTask, Idle
  <2>. QED  BY <1>2, <2>1, <2>2, <2>3, <2>4, <2>5 DEF Exit, Claim
<1>3. CASE ~Lock(w) /\ ~(Poll(w) \/ NextTask(w) \/ Exit(w) \/ Claim(w))
  BY <1>3 DEF WorkerStep, CancelFiltered, StatLocal, Preflight, Send, Verify, Transfer,
              Commit, Unsure, Report, Halt, At, Locked
<1>. QED  BY <1>1, <1>2, <1>3

LEMMA PathMutexStep ==
  ASSUME PoolInv, OneWorkerPerPath, [PoolNext]_vars
  PROVE  OneWorkerPerPath'
<1>1. ASSUME NEW w \in Workers, WorkerStep(w) PROVE OneWorkerPerPath'
  <2>. SUFFICES ASSUME NEW u \in Workers, NEW v \in Workers,
                       ProcOf[u] = ProcOf[v], u # v,
                       worker'[u].pc \in Locked, worker'[v].pc \in Locked
                PROVE  (Current(u).lp # Current(v).lp)'
    BY DEF OneWorkerPerPath
  <2>1. worker'[u].batch = worker[u].batch /\ worker'[v].batch = worker[v].batch
    BY <1>1, WorkerSteps DEF Locked
  <2>2. Current(u)' = Current(u) /\ Current(v)' = Current(v)
    BY <2>1, CurrentKept
  <2>3. \A x \in Workers \ {w} : worker'[x] = worker[x]
    BY <1>1, WorkerSteps
  <2>4. u # w => worker[u].pc \in Locked
    BY <2>3
  <2>5. v # w => worker[v].pc \in Locked
    BY <2>3
  <2>6. ~PathLocked(u) => Current(u).lp # Current(v).lp \/ worker[v].pc \notin Locked
    BY DEF PathLocked, Rivals, WorkersOf
  <2>7. ~PathLocked(v) => Current(u).lp # Current(v).lp \/ worker[u].pc \notin Locked
    BY DEF PathLocked, Rivals, WorkersOf
  <2>8. u = w => worker[u].pc \in Locked \/ ~PathLocked(u)
    BY <1>1, PathTaken
  <2>9. v = w => worker[v].pc \in Locked \/ ~PathLocked(v)
    BY <1>1, PathTaken
  <2>10. worker[u].pc \in Locked /\ worker[v].pc \in Locked => Current(u).lp # Current(v).lp
    BY DEF OneWorkerPerPath
  <2>11. Current(u).lp # Current(v).lp
    BY <2>4, <2>5, <2>6, <2>7, <2>8, <2>9, <2>10
  <2>. QED  BY <2>2, <2>11
<1>2. CASE \A w \in Workers : worker'[w] = worker[w] \/ worker'[w].pc \in {"idle", "exited"}
  <2>1. \A w \in Workers : worker'[w].pc \in Locked =>
          worker[w].pc \in Locked /\ worker'[w].batch = worker[w].batch
    BY <1>2 DEF Locked
  <2>2. \A w \in Workers : worker'[w].pc \in Locked => Current(w)' = Current(w)
    BY <2>1, CurrentKept
  <2>. QED  BY <2>1, <2>2 DEF OneWorkerPerPath
<1>3. ASSUME NEW p \in Procs, ProcStep(p)
      PROVE  \A w \in Workers : worker'[w] = worker[w] \/ worker'[w].pc \in {"idle", "exited"}
  <2>. DEFINE Reset(r) == worker' = [w \in Workers |-> IF ProcOf[w] = p THEN r ELSE worker[w]]
  <2>1. \/ UNCHANGED worker \/ Reset(Idle) \/ Reset([Idle EXCEPT !.pc = "exited"])
    BY <1>3 DEF ProcStep, Open, Close, Start, Shutdown, Stopped, Crash
  <2>2. Idle.pc = "idle" /\ [Idle EXCEPT !.pc = "exited"].pc = "exited"
    BY DEF Idle
  <2>. QED  BY <2>1, <2>2
<1>4. UserStep \/ Tick \/ UNCHANGED vars => UNCHANGED worker
  BY DEF UserStep, LocalChange, Enqueue, CancelGone, Tick, vars
<1>. QED  BY <1>1, <1>2, <1>3, <1>4 DEF PoolNext

\* No two workers of a process work on the same local path, although another process
\* may take a row from a worker that still works on it and the table then lets a
\* second worker claim the path.
THEOREM PathMutex == PoolSpec => []OneWorkerPerPath
<1>1. PoolInit => OneWorkerPerPath
  BY DEF PoolInit, OneWorkerPerPath, Idle, Locked
<1>. QED  BY <1>1, PathMutexStep, PoolInvariant, PTL DEF PoolSpec
-----------------------------------------------------------------------------
(***************************************************************************)
(* No claimed row is left behind.                                          *)
(***************************************************************************)

\* Working on a task and not yet past its outcome.
Attending == Processing \ {"halt"}

Attended ==
  \A i \in Ids : tasks[i].status = "running" =>
    \E w \in Workers : worker[w].pc \in Attending /\ Current(w).id = i

\* The poll loops of a process run only while its pool does.
Quiet == \A w \in Workers : proc[ProcOf[w]] \in {"down", "opened"} => worker[w].pc = "exited"

AttendInv == Quiet /\ (crashes = 0 /\ faults = 0 => Attended)

LEMMA ClaimStatus ==
  ASSUME TypeOK, NEW i \in Ids, ClaimTask(i)
  PROVE  Ids' = Ids /\ (\A j \in Ids \ {i} : tasks'[j] = tasks[j]) /\ tasks'[i].status = "running"
<1>1. tasks[i] \in Row
  BY DEF TypeOK, Ids
<1>. QED  BY <1>1 DEF ClaimTask, TypeOK, Ids, Row

\* Every outcome but success.
GivesUp(i) ==
  \E e \in ErrorClasses :
    \/ MarkFailed(i, e) \/ MarkCancelled(i, e) \/ MarkBlockedAuth(i, e) \/ MarkNeedsReconcile(i, e)
    \/ \E n \in 0..MaxAttempts : MarkRetry(i, n, e)

LEMMA FinishStatus ==
  ASSUME TypeOK, NEW i \in Ids, Finish(i)
  PROVE  /\ Ids' = Ids
         /\ \A j \in Ids \ {i} : tasks'[j] = tasks[j]
         /\ tasks'[i].status # "running"
         /\ GivesUp(i) => tasks'[i].status # "succeeded"
<1>1. Ids' = Ids /\ \A j \in Ids \ {i} : tasks'[j] = tasks[j]
  BY OneRowShape DEF Touches, KeepsKeys
<1>2. tasks[i] \in Row
  BY DEF TypeOK, Ids
<1>3. CompleteTask(i) => tasks'[i].status # "running"
  BY <1>2 DEF CompleteTask, TypeOK, Ids, Row
<1>4. ASSUME NEW e \in ErrorClasses, NEW s \in {"failed", "cancelled", "blocked_auth", "needs_reconcile"},
             tasks' = [tasks EXCEPT ![i].status = s, ![i].due = FALSE, ![i].stale = FALSE, ![i].err = e]
      PROVE  tasks'[i].status \notin {"running", "succeeded"}
  BY <1>2, <1>4 DEF TypeOK, Ids, Row
<1>5. ASSUME NEW e \in ErrorClasses, NEW n \in 0..MaxAttempts, MarkRetry(i, n, e)
      PROVE  tasks'[i].status \notin {"running", "succeeded"}
  BY <1>2, <1>5 DEF MarkRetry, TypeOK, Ids, Row
<1>6. GivesUp(i) => tasks'[i].status \notin {"running", "succeeded"}
  BY <1>4, <1>5 DEF GivesUp, MarkFailed, MarkCancelled, MarkBlockedAuth, MarkNeedsReconcile
<1>7. CompleteTask(i) \/ GivesUp(i)
  BY DEF Finish, GivesUp
<1>. QED  BY <1>1, <1>3, <1>6, <1>7

\* Nothing but a worker makes a row running or succeeded.
LEMMA OtherStatus ==
  ASSUME TypeOK,
         \/ \E t \in Targets : EnqueueOrMerge(t)
         \/ \E lp \in LocalPaths, e \in ErrorClasses : CancelActiveByLocalPath(lp, e)
         \/ ResumeBlockedAuth
         \/ RecoverStaleTasks
         \/ Clock
         \/ UNCHANGED tasks
  PROVE  \A j \in Ids' : tasks'[j].status \in {"running", "succeeded"} =>
           j \in Ids /\ tasks[j].status = tasks'[j].status
<1>0. \A j \in Ids : tasks[j] \in Row
  BY DEF TypeOK, Ids
<1>1. ASSUME NEW t \in Targets, EnqueueOrMerge(t)
      PROVE  \A j \in Ids' : tasks'[j].status \in {"running", "succeeded"} =>
               j \in Ids /\ tasks[j].status = tasks'[j].status
  <2>1. CASE tasks' = Append(tasks, NewRow(t))
    <3>1. ASSUME NEW j \in Ids' PROVE j \in Ids \/ j = Len(tasks) + 1
      BY <2>1, AddedRow
    <3>2. NewRow(t).status = "pending"
      BY DEF NewRow
    <3>. QED  BY <2>1, <3>1, <3>2, AddedRow
  <2>2. ASSUME NEW i \in ActiveFor(t), tasks' = [tasks EXCEPT ![i] = Merged(@, t)]
        PROVE  Ids' = Ids /\ \A j \in Ids : tasks'[j].status = tasks[j].status
    <3>1. i \in Ids
      BY DEF ActiveFor
    <3>. QED  BY <1>0, <2>2, <3>1 DEF Merged, Row, TypeOK, Ids
  <2>. QED  BY <1>1, <2>1, <2>2 DEF EnqueueOrMerge
<1>2. CASE Clock
  <2>1. PICK i \in Ids : BackoffElapses(i) \/ ClaimAges(i)
    BY <1>2 DEF Clock
  <2>2. Ids' = Ids /\ \A j \in Ids : tasks'[j].status = tasks[j].status
    BY <1>0, <2>1 DEF BackoffElapses, ClaimAges, TypeOK, Ids, Row
  <2>. QED  BY <2>2
<1>3. ASSUME NEW lp \in LocalPaths, NEW e \in ErrorClasses, CancelActiveByLocalPath(lp, e)
      PROVE  \A j \in Ids' : tasks'[j].status \in {"running", "succeeded"} =>
               j \in Ids /\ tasks[j].status = tasks'[j].status
  BY ZenonT(40), <1>0, <1>3 DEF CancelActiveByLocalPath, Ids, Row
<1>4. CASE ResumeBlockedAuth
  BY <1>0, <1>4 DEF ResumeBlockedAuth, Ids, Row
<1>5. CASE RecoverStaleTasks
  BY <1>0, <1>5 DEF RecoverStaleTasks, Ids, Row
<1>6. CASE UNCHANGED tasks
  BY <1>6 DEF Ids
<1>. QED  BY <1>1, <1>2, <1>3, <1>4, <1>5, <1>6

\* The row a worker is at: claimed, settled, not running, or still being worked on,
\* unless a database call fails.
LEMMA WorkerRow ==
  ASSUME PoolInv, NEW w \in Workers, WorkerStep(w)
  PROVE  LET i == Current(w).id IN
         \/ faults' = faults + 1
         \/ /\ UNCHANGED tasks
            /\ worker[w].pc \in Attending =>
                 worker'[w].pc \in Attending /\ worker'[w].batch = worker[w].batch
         \/ /\ ClaimTask(i) /\ worker[w].pc = "claim"
            /\ worker'[w].pc = "lock" /\ worker'[w].batch = worker[w].batch
         \/ UNCHANGED tasks /\ tasks[i].status # "running"
         \/ Finish(i) /\ worker[w].pc \notin {"exited", "idle"}
<1>. DEFINE i == Current(w).id
            Goes == worker'[w].pc \in Attending /\ worker'[w].batch = worker[w].batch
<1>0. worker \in [Workers -> WorkerState]
  BY DEF PoolInv, PoolTypeOK
<1>1. \A l : GoTo(w, l) => worker'[w].pc = l /\ worker'[w].batch = worker[w].batch
  BY <1>0 DEF GoTo, WorkerState
<1>2. \A e : Fail(w, e) => worker'[w].pc = "report" /\ worker'[w].batch = worker[w].batch
  BY <1>0 DEF Fail, WorkerState
<1>3. CASE Poll(w) \/ NextTask(w) \/ Exit(w)
  BY <1>3, PollMoves, LoopMoves DEF Poll, NextTask, Exit, At, Attending, Processing, Locked
<1>4. CASE Claim(w)
  BY <1>1, <1>4 DEF Claim, Fault, At, Attending, Processing, Locked
<1>5. CASE Lock(w) \/ Preflight(w) \/ Send(w) \/ Verify(w) \/ Transfer(w)
  <2>1. Goes
    BY <1>1, <1>2, <1>5
       DEF Lock, Preflight, Send, Verify, Transfer, Download, Remove, Attending, Processing, Locked
  <2>. QED  BY <1>5, <2>1, LoopMoves, UploadMoves, TransferMoves
<1>6. CASE StatLocal(w)
  <2>1. Goes
    BY <1>0, <1>2, <1>6 DEF StatLocal, Attending, Processing, Locked, WorkerState
  <2>. QED  BY <1>6, <2>1 DEF StatLocal
<1>7. CASE CancelFiltered(w)
  BY <1>7, ClassesRecorded DEF CancelFiltered, Attempt, Fault, CanCancel, Finish, At
<1>8. CASE Commit(w)
  BY <1>8 DEF Commit, Fault, CanFinish, Finish, At
<1>9. CASE Unsure(w)
  BY <1>9, ClassesRecorded
     DEF Unsure, Attempt, Fault, CanNeedReconcile, IsActive, Active, Finish, At
<1>10. CASE Report(w)
  <2>. DEFINE n == Current(w).attempts + 1
  <2>0. Current(w) \in Snapshot
    BY <1>10, InTheHand DEF Report, At
  <2>1. n <= MaxRetries => n \in 0..MaxAttempts
    BY <2>0, TaskTableAssumption, WorkerPoolAssumption DEF Snapshot
  <2>2. n \in Nat /\ MaxRetries \in Nat
    BY <2>0, TaskTableAssumption, WorkerPoolAssumption DEF Snapshot
  <2>. HIDE DEF n
  <2>3. \/ MarkBlockedAuth(i, "other") \/ MarkFailed(i, "other")
        \/ n <= MaxRetries /\ MarkRetry(i, n, Recorded(worker[w].err))
        \/ UNCHANGED tasks /\ ~CanFinish(i)
        \/ faults' = faults + 1
    BY <1>10, <2>2 DEF Report, Attempt, Fault, n
  <2>. QED  BY <1>10, <2>1, <2>3, ClassesRecorded DEF Finish, CanFinish, Report, At
<1>11. CASE Halt(w)
  BY <1>11 DEF Halt, At, Attending
<1>. QED  BY <1>3, <1>4, <1>5, <1>6, <1>7, <1>8, <1>9, <1>10, <1>11 DEF WorkerStep

LEMMA FaultsGrow ==
  ASSUME PoolInv, [PoolNext]_vars, crashes' = 0, faults' = 0
  PROVE  crashes = 0 /\ faults = 0
<1>0. crashes \in Nat /\ faults \in Nat
  BY WorkerPoolAssumption DEF PoolInv, PoolTypeOK
<1>1. crashes' \in {crashes, crashes + 1} /\ faults' \in {faults, faults + 1}
  <2>1. ASSUME NEW w \in Workers, WorkerStep(w)
        PROVE  crashes' = crashes /\ faults' \in {faults, faults + 1}
    BY <2>1
       DEF WorkerStep, Poll, NextTask, Exit, Claim, Lock, CancelFiltered, StatLocal, Preflight,
           Send, Verify, Transfer, Commit, Unsure, Report, Halt, Attempt, Fault, outside
  <2>2. ASSUME NEW p \in Procs, ProcStep(p)
        PROVE  crashes' \in {crashes, crashes + 1} /\ faults' \in {faults, faults + 1}
    BY <2>2 DEF ProcStep, Open, Close, Start, Shutdown, Stopped, Crash, Attempt, Fault
  <2>3. UserStep \/ Tick \/ UNCHANGED vars => UNCHANGED <<crashes, faults>>
    BY DEF UserStep, LocalChange, Enqueue, CancelGone, Tick, outside, vars
  <2>. QED  BY <2>1, <2>2, <2>3 DEF PoolNext
<1>. QED  BY <1>0, <1>1

LEMMA QuietStep ==
  ASSUME PoolInv, Quiet, [PoolNext]_vars
  PROVE  Quiet'
<1>1. ASSUME NEW w \in Workers, WorkerStep(w) PROVE Quiet'
  <2>1. \A v \in Workers \ {w} : worker'[v] = worker[v]
    BY <1>1, WorkerSteps
  <2>2. worker[w].pc # "exited"
    BY <1>1
       DEF WorkerStep, Poll, NextTask, Exit, Claim, Lock, CancelFiltered, StatLocal, Preflight,
           Send, Verify, Transfer, Commit, Unsure, Report, Halt, At
  <2>3. UNCHANGED proc
    BY <1>1
       DEF WorkerStep, Poll, NextTask, Exit, Claim, Lock, CancelFiltered, StatLocal, Preflight,
           Send, Verify, Transfer, Commit, Unsure, Report, Halt, outside
  <2>. QED  BY <2>1, <2>2, <2>3 DEF Quiet
<1>2. ASSUME NEW p \in Procs, ProcStep(p) PROVE Quiet'
  <2>0. proc \in [Procs -> {"down", "opened", "up", "stopping"}] /\ \A w \in Workers : ProcOf[w] \in Procs
    BY WorkerPoolAssumption DEF PoolInv, PoolTypeOK
  <2>1. CASE Open(p) \/ Close(p) \/ Shutdown(p)
    BY <2>0, <2>1 DEF Open, Close, Shutdown, SetProc, Quiet
  <2>2. CASE Start(p)
    BY <2>0, <2>2 DEF Start, SetProc, Quiet
  <2>3. CASE Stopped(p)
    BY <2>0, <2>3 DEF Stopped, SetProc, WorkersOf, At, Quiet
  <2>4. CASE Crash(p)
    BY <2>0, <2>4 DEF Crash, SetProc, Idle, Quiet
  <2>. QED  BY <1>2, <2>1, <2>2, <2>3, <2>4 DEF ProcStep
<1>3. UserStep \/ Tick \/ UNCHANGED vars => UNCHANGED <<worker, proc>>
  BY DEF UserStep, LocalChange, Enqueue, CancelGone, Tick, outside, vars
<1>4. CASE UNCHANGED <<worker, proc>>
  BY <1>4 DEF Quiet
<1>. QED  BY <1>1, <1>2, <1>3, <1>4 DEF PoolNext

LEMMA WorkerAttends ==
  ASSUME PoolInv, Attended, faults = 0, faults' = 0, NEW w \in Workers, WorkerStep(w)
  PROVE  Attended'
<1>. SUFFICES ASSUME NEW i \in Ids', tasks'[i].status = "running"
              PROVE  \E v \in Workers : worker'[v].pc \in Attending /\ Current(v).id' = i
  BY DEF Attended
<1>. DEFINE j == Current(w).id
<1>0. TypeOK /\ \A v \in Workers \ {w} : worker'[v] = worker[v]
  BY WorkerSteps DEF PoolInv, PoolTypeOK
<1>1. \A v \in Workers \ {w} : Current(v)' = Current(v)
  BY <1>0, CurrentKept
<1>2. ASSUME i \in Ids, tasks[i].status = "running", worker[w].pc \notin Attending \/ i # j
      PROVE  \E v \in Workers : worker'[v].pc \in Attending /\ Current(v).id' = i
  <2>1. PICK v \in Workers : worker[v].pc \in Attending /\ Current(v).id = i
    BY <1>2 DEF Attended
  <2>2. v # w
    BY <1>2, <2>1
  <2>. QED  BY <1>0, <1>1, <2>1, <2>2
<1>3. CASE /\ UNCHANGED tasks
           /\ worker[w].pc \in Attending =>
                worker'[w].pc \in Attending /\ worker'[w].batch = worker[w].batch
  <2>1. i \in Ids /\ tasks[i].status = "running"
    BY <1>3 DEF Ids
  <2>2. CASE worker[w].pc \in Attending /\ i = j
    BY <1>3, <2>2, CurrentKept
  <2>. QED  BY <1>2, <2>1, <2>2
<1>4. CASE /\ ClaimTask(j) /\ worker[w].pc = "claim"
           /\ worker'[w].pc = "lock" /\ worker'[w].batch = worker[w].batch
  <2>1. "lock" \in Attending /\ "claim" \notin Attending
    BY DEF Attending, Processing, Locked
  <2>2. CASE i = j
    BY <1>4, <2>1, <2>2, CurrentKept
  <2>3. j \in Ids
    BY <1>4, InTheHand
  <2>4. CASE i # j
    BY <1>0, <1>2, <1>4, <2>1, <2>3, <2>4, ClaimStatus
  <2>. QED  BY <2>2, <2>4
<1>5. CASE UNCHANGED tasks /\ tasks[j].status # "running"
  BY <1>2, <1>5 DEF Ids
<1>6. CASE Finish(j) /\ worker[w].pc \notin {"exited", "idle"}
  <2>1. j \in Ids
    BY <1>6, InTheHand
  <2>. QED  BY <1>0, <1>2, <1>6, <2>1, FinishStatus
<1>. QED  BY <1>3, <1>4, <1>5, <1>6, WorkerRow

LEMMA OthersAttend ==
  ASSUME PoolInv, Quiet, Attended, crashes' = 0,
         (\E p \in Procs : ProcStep(p)) \/ UserStep \/ Tick \/ UNCHANGED vars
  PROVE  Attended'
<1>0. TypeOK /\ crashes \in Nat
  BY WorkerPoolAssumption DEF PoolInv, PoolTypeOK
<1>1. \A w \in Workers : worker[w].pc \in Attending => worker'[w] = worker[w]
  <2>1. ASSUME NEW p \in Procs, ProcStep(p)
        PROVE  UNCHANGED worker \/ Start(p)
    BY <1>0, <2>1 DEF ProcStep, Open, Close, Shutdown, Stopped, Crash
  <2>2. ASSUME NEW p \in Procs, Start(p), NEW w \in Workers, worker[w].pc \in Attending
        PROVE  worker'[w] = worker[w]
    BY <2>2 DEF Start, Quiet, Attending, Processing, Locked
  <2>3. UserStep \/ Tick \/ UNCHANGED vars => UNCHANGED worker
    BY DEF UserStep, LocalChange, Enqueue, CancelGone, Tick, vars
  <2>. QED  BY <2>1, <2>2, <2>3
<1>2. \A i \in Ids' : tasks'[i].status = "running" => i \in Ids /\ tasks[i].status = "running"
  <2>1. ASSUME NEW p \in Procs, ProcStep(p)
        PROVE  UNCHANGED tasks \/ RecoverStaleTasks \/ ResumeBlockedAuth
    BY <2>1 DEF ProcStep, Open, Close, Start, Shutdown, Stopped, Crash, Attempt, Fault
  <2>2. UserStep \/ Tick \/ UNCHANGED vars =>
          \/ \E t \in Targets : EnqueueOrMerge(t)
          \/ \E lp \in LocalPaths, e \in ErrorClasses : CancelActiveByLocalPath(lp, e)
          \/ Clock \/ UNCHANGED tasks
    BY ClassesRecorded DEF UserStep, LocalChange, Enqueue, CancelGone, Tick, vars
  <2>. QED  BY <1>0, <2>1, <2>2, OtherStatus
<1>3. \A w \in Workers : worker'[w] = worker[w] => Current(w)' = Current(w)
  BY CurrentKept
<1>. QED  BY <1>1, <1>2, <1>3 DEF Attended

LEMMA AttendStep ==
  ASSUME PoolInv, AttendInv, [PoolNext]_vars
  PROVE  AttendInv'
<1>1. Quiet'
  BY QuietStep DEF AttendInv
<1>2. ASSUME crashes' = 0, faults' = 0 PROVE Attended'
  <2>1. crashes = 0 /\ faults = 0 /\ Quiet /\ Attended
    BY <1>2, FaultsGrow DEF AttendInv
  <2>. QED  BY <1>2, <2>1, WorkerAttends, OthersAttend DEF PoolNext
<1>. QED  BY <1>1, <1>2 DEF AttendInv

\* As long as no process crashed and no database call failed, every running row has
\* a worker on it that has not yet reported its outcome: no path through processTask,
\* no shutdown and no other process that opens the store leaves a claimed row behind.
THEOREM NoneStranded == PoolSpec => []NothingStranded
<1>1. PoolInit => AttendInv
  BY DEF PoolInit, TableInit, AttendInv, Quiet, Attended, Idle, Ids
<1>2. AttendInv => NothingStranded
  BY DEF AttendInv, Attended, Attending, NothingStranded
<1>. QED  BY <1>1, <1>2, AttendStep, PoolInvariant, PTL DEF PoolSpec
-----------------------------------------------------------------------------
(***************************************************************************)
(* A succeeded upload is on the remote.                                    *)
(***************************************************************************)

NoRemovals == \A t \in Targets : t.op # "remove"

\* What an upload worker has found out by the time it sends, verifies or commits.
Found ==
  \A w \in Workers :
    /\ worker[w].pc \in {"preflight", "send", "verify"} => worker[w].seen # NoFile
    /\ worker[w].pc = "commit" /\ OpOf[w] = "upload" => remote[Current(w).rp] # NoFile

Landed ==
  \A i \in Ids : tasks[i].op = "upload" /\ tasks[i].status = "succeeded" => remote[tasks[i].rp] # NoFile

DeliveryInv == NoRemovals => Found /\ Landed

\* Without remove requests no remote file goes away.
LEMMA RemoteStays ==
  ASSUME PoolInv, RowsRequested, NoRemovals, [PoolNext]_vars, NEW rp \in RemotePaths,
         remote[rp] # NoFile
  PROVE  remote'[rp] # NoFile
<1>0. /\ remote \in [RemotePaths -> Sizes \cup {NoFile}]
      /\ local \in [LocalPaths -> Sizes \cup {NoFile}]
  BY DEF PoolInv, PoolTypeOK
<1>1. ASSUME NEW w \in Workers, Transfer(w) PROVE UNCHANGED remote
  <2>1. /\ Current(w).id \in Ids /\ tasks[Current(w).id].op = OpOf[w]
    BY <1>1, InTheHand DEF Transfer, At
  <2>2. OpOf[w] # "remove"
    BY <2>1 DEF RowsRequested, SlotKey, NoRemovals
  <2>. QED  BY <1>1, <2>2 DEF Transfer, Download, Remove
<1>2. ASSUME NEW w \in Workers, Send(w) PROVE remote'[rp] # NoFile
  BY <1>0, <1>2 DEF Send
<1>3. ASSUME NEW w \in Workers, WorkerStep(w), ~Send(w), ~Transfer(w) PROVE UNCHANGED remote
  BY <1>3
     DEF WorkerStep, Poll, NextTask, Exit, Claim, Lock, CancelFiltered, StatLocal, Preflight,
         Verify, Commit, Unsure, Report, Halt, outside
<1>4. ASSUME NEW p \in Procs, ProcStep(p) PROVE UNCHANGED remote
  BY <1>4 DEF ProcStep, Open, Close, Start, Shutdown, Stopped, Crash
<1>5. UserStep \/ Tick \/ UNCHANGED vars => UNCHANGED remote
  BY DEF UserStep, LocalChange, Enqueue, CancelGone, Tick, outside, vars
<1>. QED  BY <1>1, <1>2, <1>3, <1>4, <1>5 DEF PoolNext

\* The size a worker saw is kept until it commits or fails.
LEMMA WorkerFinds ==
  ASSUME PoolInv, Found, NEW w \in Workers, WorkerStep(w)
  PROVE  /\ worker'[w].pc \in {"preflight", "send", "verify"} => worker'[w].seen # NoFile
         /\ worker'[w].pc = "commit" /\ OpOf[w] = "upload" => remote'[Current(w).rp] # NoFile
<1>0. worker \in [Workers -> WorkerState] /\ remote \in [RemotePaths -> Sizes \cup {NoFile}]
  BY DEF PoolInv, PoolTypeOK
<1>1. \A l : GoTo(w, l) => worker'[w].pc = l /\ worker'[w].seen = worker[w].seen
  BY <1>0 DEF GoTo, WorkerState
<1>2. \A e : Fail(w, e) => worker'[w].pc = "report"
  BY <1>0 DEF Fail, WorkerState
<1>3. Done(w) => worker'[w].pc \in {"idle", "next"}
  BY <1>0 DEF Done, Idle
<1>4. CASE Poll(w) \/ NextTask(w) \/ Exit(w)
  <2>1. worker'[w].pc \in {"next", "claim", "idle", "exited"}
    BY <1>0, <1>1, <1>4 DEF Poll, NextTask, Exit, Idle, WorkerState
  <2>. QED  BY <2>1
<1>5. CASE Claim(w) \/ Lock(w) \/ CancelFiltered(w) \/ Commit(w) \/ Unsure(w) \/ Report(w) \/ Halt(w)
  <2>1. worker'[w].pc \in {"lock", "idle", "next", "filtered", "stat", "transfer", "unsure", "halt"}
    BY <1>1, <1>3, <1>5 DEF Claim, Lock, CancelFiltered, Commit, Unsure, Report, Halt
  <2>. QED  BY <2>1
<1>6. CASE StatLocal(w)
  BY <1>0, <1>2, <1>6 DEF StatLocal, WorkerState
<1>7. CASE Preflight(w)
  BY <1>0, <1>1, <1>2, <1>7 DEF Preflight, At, Found, outside
<1>8. CASE Send(w)
  <2>1. Current(w).rp \in RemotePaths
    BY <1>8, InTheHand DEF Send, At, Snapshot
  <2>. QED  BY <1>0, <1>1, <1>2, <1>8, <2>1 DEF Send, At, Found
<1>9. CASE Verify(w)
  BY <1>0, <1>1, <1>2, <1>9 DEF Verify, At, Found, outside
<1>10. CASE Transfer(w)
  BY <1>1, <1>2, <1>10 DEF Transfer, Download, Remove, At, Found
<1>. QED  BY <1>4, <1>5, <1>6, <1>7, <1>8, <1>9, <1>10 DEF WorkerStep

\* Batches are kept or given up: a worker at commit is at the task it was at before.
LEMMA FoundStep ==
  ASSUME PoolInv, RowsRequested, NoRemovals, Found, [PoolNext]_vars
  PROVE  Found'
<1>1. ASSUME NEW w \in Workers, worker'[w] = worker[w]
      PROVE  /\ worker'[w].pc \in {"preflight", "send", "verify"} => worker'[w].seen # NoFile
             /\ worker'[w].pc = "commit" /\ OpOf[w] = "upload" => remote'[Current(w)'.rp] # NoFile
  <2>1. Current(w)' = Current(w)
    BY <1>1, CurrentKept
  <2>2. worker[w].pc = "commit" => Current(w).rp \in RemotePaths
    BY InTheHand DEF Snapshot
  <2>. QED  BY <1>1, <2>1, <2>2, RemoteStays DEF Found
<1>2. ASSUME NEW w \in Workers, worker'[w].pc \in {"idle", "exited"}
      PROVE  /\ worker'[w].pc \in {"preflight", "send", "verify"} => worker'[w].seen # NoFile
             /\ worker'[w].pc = "commit" /\ OpOf[w] = "upload" => remote'[Current(w)'.rp] # NoFile
  BY <1>2
<1>3. ASSUME NEW w \in Workers, WorkerStep(w) PROVE Found'
  <2>1. \A v \in Workers \ {w} : worker'[v] = worker[v]
    BY <1>3, WorkerSteps
  <2>2. worker'[w].pc = "commit" => Current(w)' = Current(w)
    BY <1>3, WorkerSteps, CurrentKept
  <2>. QED  BY <1>1, <1>3, <2>1, <2>2, WorkerFinds DEF Found
<1>4. ASSUME NEW p \in Procs, ProcStep(p)
      PROVE  \A w \in Workers : worker'[w] = worker[w] \/ worker'[w].pc \in {"idle", "exited"}
  <2>. DEFINE Reset(r) == worker' = [w \in Workers |-> IF ProcOf[w] = p THEN r ELSE worker[w]]
  <2>1. \/ UNCHANGED worker \/ Reset(Idle) \/ Reset([Idle EXCEPT !.pc = "exited"])
    BY <1>4 DEF ProcStep, Open, Close, Start, Shutdown, Stopped, Crash
  <2>2. Idle.pc = "idle" /\ [Idle EXCEPT !.pc = "exited"].pc = "exited"
    BY DEF Idle
  <2>. QED  BY <2>1, <2>2
<1>5. UserStep \/ Tick \/ UNCHANGED vars => UNCHANGED worker
  BY DEF UserStep, LocalChange, Enqueue, CancelGone, Tick, vars
<1>6. CASE \A w \in Workers : worker'[w] = worker[w] \/ worker'[w].pc \in {"idle", "exited"}
  BY <1>1, <1>2, <1>6 DEF Found
<1>. QED  BY <1>3, <1>4, <1>5, <1>6 DEF PoolNext

LEMMA OnlyCommitCompletes ==
  ASSUME PoolInv, NEW w \in Workers, WorkerStep(w), worker[w].pc # "commit"
  PROVE  LET j == Current(w).id IN
         \/ UNCHANGED tasks
         \/ worker[w].pc \notin {"exited", "idle"} /\ (ClaimTask(j) \/ GivesUp(j))
<1>. DEFINE j == Current(w).id
<1>1. CASE Poll(w) \/ NextTask(w) \/ Exit(w) \/ Lock(w) \/ StatLocal(w) \/ Preflight(w)
           \/ Send(w) \/ Verify(w) \/ Transfer(w)
  BY <1>1, PollMoves, LoopMoves, UploadMoves, TransferMoves
<1>2. CASE Claim(w)
  BY <1>2 DEF Claim, Fault, At
<1>3. CASE CancelFiltered(w)
  BY <1>3, ClassesRecorded DEF CancelFiltered, Attempt, Fault, GivesUp, At
<1>4. CASE Unsure(w)
  BY <1>4, ClassesRecorded DEF Unsure, Attempt, Fault, GivesUp, At
<1>5. CASE Report(w)
  <2>. DEFINE n == Current(w).attempts + 1
  <2>0. Current(w) \in Snapshot
    BY <1>5, InTheHand DEF Report, At
  <2>1. n <= MaxRetries => n \in 0..MaxAttempts
    BY <2>0, TaskTableAssumption, WorkerPoolAssumption DEF Snapshot
  <2>2. n \in Nat /\ MaxRetries \in Nat
    BY <2>0, TaskTableAssumption, WorkerPoolAssumption DEF Snapshot
  <2>. HIDE DEF n
  <2>3. \/ MarkBlockedAuth(j, "other") \/ MarkFailed(j, "other")
        \/ n <= MaxRetries /\ MarkRetry(j, n, Recorded(worker[w].err))
        \/ UNCHANGED tasks
    BY <1>5, <2>2 DEF Report, Attempt, Fault, n
  <2>. QED  BY <1>5, <2>1, <2>3, ClassesRecorded DEF GivesUp, Report, At
<1>6. CASE Halt(w)
  BY <1>6 DEF Halt
<1>7. ~Commit(w)
  BY DEF Commit, At
<1>. QED  BY <1>1, <1>2, <1>3, <1>4, <1>5, <1>6, <1>7 DEF WorkerStep

\* Only Commit makes a row succeeded, and only the row its worker is at.
LEMMA OnlyCommitSucceeds ==
  ASSUME PoolInv, [PoolNext]_vars, NEW i \in Ids', tasks'[i].status = "succeeded"
  PROVE  \/ i \in Ids /\ tasks[i].status = "succeeded"
         \/ \E w \in Workers : worker[w].pc = "commit" /\ i = Current(w).id
<1>0. TypeOK
  BY DEF PoolInv, PoolTypeOK
<1>1. ASSUME NEW w \in Workers, WorkerStep(w)
      PROVE  \/ i \in Ids /\ tasks[i].status = "succeeded"
             \/ worker[w].pc = "commit" /\ i = Current(w).id
  <2>. DEFINE j == Current(w).id
  <2>1. worker[w].pc \notin {"exited", "idle"} => j \in Ids
    BY InTheHand
  <2>2. CASE UNCHANGED tasks
    BY <2>2 DEF Ids
  <2>3. CASE j \in Ids /\ ClaimTask(j)
    BY <1>0, <2>3, ClaimStatus
  <2>4. CASE j \in Ids /\ GivesUp(j)
    <3>1. Finish(j)
      BY <2>4 DEF GivesUp, Finish
    <3>. QED  BY <1>0, <2>4, <3>1, FinishStatus
  <2>5. CASE j \in Ids /\ Finish(j) /\ worker[w].pc = "commit"
    BY <1>0, <2>5, FinishStatus
  <2>6. Commit(w) => UNCHANGED tasks \/ CompleteTask(j)
    BY DEF Commit, Fault
  <2>7. CASE worker[w].pc = "commit"
    <3>1. Commit(w)
      BY <1>1, <2>7
         DEF WorkerStep, Poll, NextTask, Exit, Claim, Lock, CancelFiltered, StatLocal, Preflight,
             Send, Verify, Transfer, Unsure, Report, Halt, At
    <3>. QED  BY <2>1, <2>2, <2>5, <2>6, <2>7, <3>1 DEF Finish
  <2>. QED  BY <1>1, <2>1, <2>2, <2>3, <2>4, <2>7, OnlyCommitCompletes
<1>2. ASSUME NEW p \in Procs, ProcStep(p)
      PROVE  UNCHANGED tasks \/ RecoverStaleTasks \/ ResumeBlockedAuth
  BY <1>2 DEF ProcStep, Open, Close, Start, Shutdown, Stopped, Crash, Attempt, Fault
<1>3. UserStep \/ Tick \/ UNCHANGED vars =>
        \/ \E t \in Targets : EnqueueOrMerge(t)
        \/ \E lp \in LocalPaths, e \in ErrorClasses : CancelActiveByLocalPath(lp, e)
        \/ Clock \/ UNCHANGED tasks
  BY ClassesRecorded DEF UserStep, LocalChange, Enqueue, CancelGone, Tick, vars
<1>. QED  BY <1>0, <1>1, <1>2, <1>3, OtherStatus DEF PoolNext

LEMMA DeliveryStep ==
  ASSUME PoolInv, RowsRequested, DeliveryInv, [PoolNext]_vars
  PROVE  DeliveryInv'
<1>. SUFFICES ASSUME NoRemovals PROVE Found' /\ Landed'
  BY DEF DeliveryInv, NoRemovals
<1>0. Found /\ Landed
  BY DEF DeliveryInv
<1>1. RowsStay
  BY PoolTable, TableStepRows DEF PoolInv, PoolTypeOK
<1>2. ASSUME NEW i \in Ids', tasks'[i].op = "upload", tasks'[i].status = "succeeded"
      PROVE  remote'[tasks'[i].rp] # NoFile
  <2>1. ASSUME i \in Ids, remote[tasks[i].rp] # NoFile
        PROVE  remote'[tasks'[i].rp] # NoFile
    <3>0. tasks[i] \in Row
      BY <2>1 DEF PoolInv, PoolTypeOK, TypeOK, Ids
    <3>1. tasks[i].rp \in RemotePaths /\ tasks'[i].rp = tasks[i].rp
      BY <1>1, <2>1, <3>0 DEF RowsStay, Row
    <3>. QED  BY <2>1, <3>1, RemoteStays
  <2>2. CASE i \in Ids /\ tasks[i].status = "succeeded"
    BY <1>0, <1>1, <1>2, <2>1, <2>2 DEF Landed, RowsStay
  <2>3. ASSUME NEW w \in Workers, worker[w].pc = "commit", i = Current(w).id
        PROVE  i \in Ids /\ remote[tasks[i].rp] # NoFile
    <3>1. i \in Ids /\ tasks[i].op = OpOf[w] /\ tasks[i].rp = Current(w).rp
      BY <2>3, InTheHand
    <3>. QED  BY <1>0, <1>1, <1>2, <2>3, <3>1 DEF Found, RowsStay
  <2>. QED  BY <1>2, <2>1, <2>2, <2>3, OnlyCommitSucceeds
<1>. QED  BY <1>0, <1>2, FoundStep DEF Landed

\* An upload is only ever reported as succeeded when its file is on the remote,
\* whatever answers were lost, rows recovered and batches gone stale on the way:
\* a worker that commits saw the remote file or put it there.
THEOREM DeliveredUploads == PoolSpec => []SucceededIsOnRemote
<1>1. PoolInit => DeliveryInv
  BY DEF PoolInit, TableInit, DeliveryInv, Found, Landed, Idle, Ids
<1>2. DeliveryInv => SucceededIsOnRemote
  BY DEF DeliveryInv, NoRemovals, Landed, SucceededIsOnRemote
<1>. QED
  BY <1>1, <1>2, DeliveryStep, PoolInvariant, PoolImplementsTable, Requested, PTL DEF PoolSpec
-----------------------------------------------------------------------------
(***************************************************************************)
(* One process: a worker owns the row it works on, and no upload is left   *)
(* needs_reconcile without a fault.                                        *)
(***************************************************************************)

OneProcess == \A p, q \in Procs : p = q

\* A worker that has stopped at an expired session may have lost its row to nobody
\* either: only Start gives a blocked row back.
Owns ==
  /\ \A w \in Workers :
       /\ worker[w].pc \in Attending => tasks[Current(w).id].status = "running"
       /\ worker[w].pc = "halt" => tasks[Current(w).id].status \in {"running", "blocked_auth"}
  /\ \A v, w \in Workers :
       v # w /\ worker[v].pc \in Processing /\ worker[w].pc \in Processing =>
         Current(v).id # Current(w).id

OwnInv == Quiet /\ Owns

\* A worker's step leaves the table alone and the worker at its task, or claims a
\* row, or settles the row of the worker, which leaves it unless the session expired.
LEMMA OwnRow ==
  ASSUME PoolInv, NEW w \in Workers, WorkerStep(w)
  PROVE  LET i == Current(w).id
             stays == worker'[w].batch = worker[w].batch
         IN
         \/ /\ UNCHANGED tasks
            /\ worker'[w].pc \in Processing => worker[w].pc \in Attending /\ stays
         \/ ClaimTask(i) /\ worker[w].pc = "claim" /\ worker'[w].pc = "lock" /\ stays
         \/ /\ Finish(i) /\ worker[w].pc \in Attending
            /\ worker'[w].pc \in Processing =>
                 worker'[w].pc = "halt" /\ stays /\ tasks'[i].status = "blocked_auth"
<1>. DEFINE i == Current(w).id
            Out == worker'[w].pc \notin Processing
<1>0. worker \in [Workers -> WorkerState]
  BY DEF PoolInv, PoolTypeOK
<1>1. \A l : GoTo(w, l) => worker'[w].pc = l /\ worker'[w].batch = worker[w].batch
  BY <1>0 DEF GoTo, WorkerState
<1>2. \A e : Fail(w, e) => worker'[w].pc = "report" /\ worker'[w].batch = worker[w].batch
  BY <1>0 DEF Fail, WorkerState
<1>3. Done(w) => Out
  BY <1>0 DEF Done, Idle, Processing, Locked
<1>4. CASE Poll(w) \/ NextTask(w) \/ Exit(w)
  <2>1. Poll(w) => Out
    BY <1>0 DEF Poll, Processing, Locked, WorkerState
  <2>2. NextTask(w) => Out
    BY <1>0, <1>1 DEF NextTask, Idle, Processing, Locked
  <2>3. Exit(w) => Out
    BY <1>1 DEF Exit, Processing, Locked
  <2>. QED  BY <1>4, <2>1, <2>2, <2>3, PollMoves, LoopMoves
<1>5. CASE Claim(w)
  BY <1>1, <1>3, <1>5 DEF Claim, Fault, At
<1>6. CASE Lock(w) \/ Preflight(w) \/ Send(w) \/ Verify(w) \/ Transfer(w)
  <2>1. worker'[w].batch = worker[w].batch /\ worker[w].pc \in Attending
    BY <1>1, <1>2, <1>6
       DEF Lock, Preflight, Send, Verify, Transfer, Download, Remove, At, Attending, Processing, Locked
  <2>. QED  BY <1>6, <2>1, LoopMoves, UploadMoves, TransferMoves
<1>7. CASE StatLocal(w)
  <2>1. worker'[w].batch = worker[w].batch /\ worker[w].pc \in Attending
    BY <1>0, <1>2, <1>7 DEF StatLocal, At, Attending, Processing, Locked, WorkerState
  <2>. QED  BY <1>7, <2>1 DEF StatLocal
<1>8. CASE CancelFiltered(w)
  <2>1. Out /\ worker[w].pc \in Attending /\ (UNCHANGED tasks \/ MarkCancelled(i, "other"))
    BY <1>3, <1>8 DEF CancelFiltered, Attempt, Fault, At, Attending, Processing, Locked
  <2>. QED  BY <2>1, ClassesRecorded DEF Finish
<1>9. CASE Commit(w)
  <2>1. worker[w].pc \in Attending
    BY <1>9 DEF Commit, At, Attending, Processing, Locked
  <2>. QED  BY <1>1, <1>3, <1>9, <2>1 DEF Commit, Fault, Finish
<1>10. CASE Unsure(w)
  <2>1. Out /\ worker[w].pc \in Attending /\ (UNCHANGED tasks \/ MarkNeedsReconcile(i, "other"))
    BY <1>3, <1>10 DEF Unsure, Attempt, Fault, At, Attending, Processing, Locked
  <2>. QED  BY <2>1, ClassesRecorded DEF Finish
<1>11. CASE Report(w)
  <2>. DEFINE n == Current(w).attempts + 1
  <2>0. worker[w].pc \in Attending /\ i \in Ids /\ Current(w) \in Snapshot
    BY <1>11, InTheHand DEF Report, At, Attending, Processing, Locked
  <2>1. tasks[i] \in Row
    BY <2>0 DEF PoolInv, PoolTypeOK, TypeOK, Ids
  <2>2. n \in Nat /\ MaxRetries \in Nat /\ (n <= MaxRetries => n \in 0..MaxAttempts)
    BY <2>0, TaskTableAssumption, WorkerPoolAssumption DEF Snapshot
  <2>. HIDE DEF n
  <2>3. CASE worker[w].err = "session_expired"
    <3>1. GoTo(w, "halt") /\ (UNCHANGED tasks \/ MarkBlockedAuth(i, "other"))
      BY <1>11, <2>3 DEF Report, Attempt, Fault, Permanent
    <3>2. MarkBlockedAuth(i, "other") => tasks'[i].status = "blocked_auth"
      BY <2>0, <2>1 DEF MarkBlockedAuth, PoolInv, PoolTypeOK, TypeOK, Ids, Row
    <3>3. MarkBlockedAuth(i, "other") => Finish(i)
      BY ClassesRecorded DEF Finish
    <3>. QED  BY <1>1, <2>0, <3>1, <3>2, <3>3
  <2>4. CASE worker[w].err # "session_expired"
    <3>1. /\ Done(w)
          /\ \/ UNCHANGED tasks \/ MarkFailed(i, "other")
             \/ n <= MaxRetries /\ MarkRetry(i, n, Recorded(worker[w].err))
      BY <1>11, <2>2, <2>4 DEF Report, Attempt, Fault, n
    <3>2. MarkFailed(i, "other") => Finish(i)
      BY ClassesRecorded DEF Finish
    <3>3. n <= MaxRetries /\ MarkRetry(i, n, Recorded(worker[w].err)) => Finish(i)
      BY <2>2, ClassesRecorded DEF Finish
    <3>. QED  BY <1>3, <2>0, <3>1, <3>2, <3>3
  <2>. QED  BY <2>3, <2>4
<1>12. CASE Halt(w)
  BY <1>3, <1>12 DEF Halt
<1>. QED
  BY <1>4, <1>5, <1>6, <1>7, <1>8, <1>9, <1>10, <1>11, <1>12 DEF WorkerStep

LEMMA WorkerOwns ==
  ASSUME PoolInv, Owns, NEW w \in Workers, WorkerStep(w)
  PROVE  Owns'
<1>. DEFINE i == Current(w).id
<1>0. TypeOK /\ \A v \in Workers \ {w} : worker'[v] = worker[v]
  BY WorkerSteps DEF PoolInv, PoolTypeOK
<1>1. \A v \in Workers \ {w} : Current(v)' = Current(v)
  BY <1>0, CurrentKept
<1>2. "lock" \in Attending /\ Attending \subseteq Processing /\ "claim" \notin Processing
      /\ "halt" \notin Attending /\ "halt" \in Processing /\ Processing = Attending \cup {"halt"}
  BY DEF Attending, Processing, Locked
<1>3. CASE /\ UNCHANGED tasks
           /\ worker'[w].pc \in Processing =>
                worker[w].pc \in Attending /\ worker'[w].batch = worker[w].batch
  <2>1. worker'[w].pc \in Processing => Current(w)' = Current(w) /\ worker[w].pc \in Attending
    BY <1>3, CurrentKept
  <2>. QED  BY <1>0, <1>1, <1>2, <1>3, <2>1 DEF Owns
<1>4. CASE /\ ClaimTask(i) /\ worker[w].pc = "claim"
           /\ worker'[w].pc = "lock" /\ worker'[w].batch = worker[w].batch
  <2>0. i \in Ids /\ Current(w)' = Current(w)
    BY <1>4, InTheHand, CurrentKept
  <2>1. tasks[i].status \in {"pending", "retry_wait"}
    BY <1>4 DEF ClaimTask, CanClaim, Ready
  <2>2. \A v \in Workers \ {w} : worker[v].pc \in Processing => Current(v).id # i
    BY <1>2, <2>1 DEF Owns
  <2>3. \A v \in Workers \ {w} : worker[v].pc \in Processing =>
          Current(v).id \in Ids /\ tasks'[Current(v).id] = tasks[Current(v).id]
    <3>1. \A v \in Workers : worker[v].pc \in Processing => worker[v].pc \notin {"exited", "idle"}
      BY DEF Processing, Locked
    <3>2. \A v \in Workers : worker[v].pc \in Processing => Current(v).id \in Ids
      BY <3>1, InTheHand
    <3>. QED  BY <1>0, <1>4, <2>0, <2>2, <3>2, ClaimStatus
  <2>4. tasks'[i].status = "running"
    BY <1>0, <1>4, <2>0, ClaimStatus
  <2>. QED  BY <1>0, <1>1, <1>2, <1>4, <2>0, <2>2, <2>3, <2>4 DEF Owns
<1>5. CASE /\ Finish(i) /\ worker[w].pc \in Attending
           /\ worker'[w].pc \in Processing =>
                /\ worker'[w].pc = "halt" /\ worker'[w].batch = worker[w].batch
                /\ tasks'[i].status = "blocked_auth"
  <2>1. \A v \in Workers : worker[v].pc \in Processing => worker[v].pc \notin {"exited", "idle"}
    BY DEF Processing, Locked
  <2>2. \A v \in Workers : worker[v].pc \in Processing => Current(v).id \in Ids
    BY <2>1, InTheHand
  <2>3. \A v \in Workers \ {w} : worker[v].pc \in Processing =>
          Current(v).id # i /\ tasks'[Current(v).id] = tasks[Current(v).id]
    BY <1>0, <1>2, <1>5, <2>2, FinishStatus DEF Owns
  <2>4. worker'[w].pc \in Processing => Current(w)' = Current(w)
    BY <1>5, CurrentKept
  <2>. QED  BY <1>0, <1>1, <1>2, <1>5, <2>3, <2>4 DEF Owns
<1>. QED  BY <1>3, <1>4, <1>5, OwnRow

\* Requests, cancellations and the clock leave the status of a running or blocked
\* row as it is.
LEMMA UserRow ==
  ASSUME TypeOK,
         \/ \E t \in Targets : EnqueueOrMerge(t)
         \/ \E lp \in LocalPaths, e \in ErrorClasses : CancelActiveByLocalPath(lp, e)
         \/ Clock
         \/ UNCHANGED tasks
  PROVE  \A j \in Ids : tasks[j].status \in {"running", "blocked_auth"} =>
           tasks'[j].status = tasks[j].status
<1>0. \A j \in Ids : tasks[j] \in Row
  BY DEF TypeOK, Ids
<1>1. ASSUME NEW t \in Targets, EnqueueOrMerge(t), NEW j \in Ids
      PROVE  tasks'[j].status = tasks[j].status
  <2>1. CASE tasks' = Append(tasks, NewRow(t))
    BY <2>1, AddedRow
  <2>2. ASSUME NEW i \in ActiveFor(t), tasks' = [tasks EXCEPT ![i] = Merged(@, t)]
        PROVE  tasks'[j].status = tasks[j].status
    BY <1>0, <2>2 DEF ActiveFor, Merged, Row, TypeOK, Ids
  <2>. QED  BY <1>1, <2>1, <2>2 DEF EnqueueOrMerge
<1>2. ASSUME Clock, NEW j \in Ids PROVE tasks'[j].status = tasks[j].status
  <2>1. PICK i \in Ids : BackoffElapses(i) \/ ClaimAges(i)
    BY <1>2 DEF Clock
  <2>. QED  BY <1>0, <2>1 DEF BackoffElapses, ClaimAges, TypeOK, Ids, Row
<1>3. ASSUME NEW lp \in LocalPaths, NEW e \in ErrorClasses, CancelActiveByLocalPath(lp, e),
             NEW j \in Ids, tasks[j].status \in {"running", "blocked_auth"}
      PROVE  tasks'[j].status = tasks[j].status
  BY <1>3 DEF CancelActiveByLocalPath
<1>. QED  BY <1>1, <1>2, <1>3

LEMMA OthersOwn ==
  ASSUME OneProcess, PoolInv, Quiet, Owns,
         (\E p \in Procs : ProcStep(p)) \/ UserStep \/ Tick \/ UNCHANGED vars
  PROVE  Owns'
<1>0. TypeOK /\ \A w \in Workers : ProcOf[w] \in Procs
  BY WorkerPoolAssumption DEF PoolInv, PoolTypeOK
<1>1. CASE UNCHANGED <<tasks, worker>>
  <2>1. \A w \in Workers : Current(w)' = Current(w)
    BY <1>1, CurrentKept
  <2>. QED  BY <1>1, <2>1 DEF Owns
<1>2. ASSUME \A w \in Workers : worker'[w].pc \in {"exited", "idle"} PROVE Owns'
  <2>1. "exited" \notin Processing /\ "idle" \notin Processing
        /\ Attending \subseteq Processing /\ "halt" \in Processing
    BY DEF Attending, Processing, Locked
  <2>. QED  BY <1>2, <2>1 DEF Owns
<1>3. ASSUME NEW p \in Procs, ProcStep(p) PROVE Owns'
  <2>1. \A w \in Workers : ProcOf[w] = p
    BY <1>0 DEF OneProcess
  <2>2. CASE Open(p)
    BY <1>2, <2>1, <2>2 DEF Open, Quiet
  <2>3. CASE Start(p) \/ Crash(p)
    <3>1. \A w \in Workers : worker'[w] \in {Idle, [Idle EXCEPT !.pc = "exited"]}
      BY <2>1, <2>3 DEF Start, Crash
    <3>2. Idle.pc = "idle" /\ [Idle EXCEPT !.pc = "exited"].pc = "exited"
      BY DEF Idle
    <3>. QED  BY <1>2, <3>1, <3>2
  <2>4. CASE Close(p) \/ Shutdown(p) \/ Stopped(p)
    BY <1>1, <2>4 DEF Close, Shutdown, Stopped
  <2>. QED  BY <1>3, <2>2, <2>3, <2>4 DEF ProcStep
<1>4. CASE UserStep \/ Tick
  <2>1. \/ \E t \in Targets : EnqueueOrMerge(t)
        \/ \E lp \in LocalPaths, e \in ErrorClasses : CancelActiveByLocalPath(lp, e)
        \/ Clock \/ UNCHANGED tasks
    BY <1>4, ClassesRecorded DEF UserStep, LocalChange, Enqueue, CancelGone, Tick
  <2>2. UNCHANGED worker
    BY <1>4 DEF UserStep, LocalChange, Enqueue, CancelGone, Tick
  <2>3. \A w \in Workers : Current(w)' = Current(w)
    BY <2>2, CurrentKept
  <2>4. \A w \in Workers : worker[w].pc \in Processing => Current(w).id \in Ids
    BY InTheHand DEF Processing, Locked
  <2>5. \A w \in Workers :
          worker[w].pc \in Processing /\ tasks[Current(w).id].status \in {"running", "blocked_auth"} =>
            tasks'[Current(w).id].status = tasks[Current(w).id].status
    BY <1>0, <2>1, <2>4, UserRow
  <2>6. Attending \subseteq Processing /\ "halt" \in Processing
    BY DEF Attending, Processing, Locked
  <2>. QED  BY <2>2, <2>3, <2>5, <2>6 DEF Owns
<1>5. CASE UNCHANGED vars
  BY <1>1, <1>5 DEF vars
<1>. QED  BY <1>3, <1>4, <1>5

LEMMA OwnStep ==
  ASSUME OneProcess, PoolInv, OwnInv, [PoolNext]_vars
  PROVE  OwnInv'
BY QuietStep, WorkerOwns, OthersOwn DEF OwnInv, PoolNext

LEMMA InitOwn == PoolInit => OwnInv
BY DEF PoolInit, OwnInv, Quiet, Owns, Idle, Attending, Processing, Locked

LEMMA OwnsTheRow ==
  ASSUME OneProcess
  PROVE  PoolSpec => []OwnInv
BY InitOwn, OwnStep, PoolInvariant, PTL DEF PoolSpec

\* In a single process the row of a task in work stays running until its worker
\* settles it, and no second worker gets it: neither an expired session, nor a
\* failing database call, nor a crash and a new start in between changes that.
THEOREM OneProcessOwns ==
  ASSUME OneProcess
  PROVE  PoolSpec => []WorkerOwnsRow
<1>1. OwnInv => WorkerOwnsRow
  BY DEF OwnInv, Owns, WorkerOwnsRow, Attending
<1>. QED  BY <1>1, OwnsTheRow, PTL

\* No worker is about to give up on a row, and none has.
NoneUnsure ==
  /\ \A w \in Workers : worker[w].pc # "unsure"
  /\ ReconcileOnlyAfterFault

\* Every outcome but needs_reconcile.
Settles(i) ==
  \/ CompleteTask(i)
  \/ \E e \in ErrorClasses :
       \/ MarkFailed(i, e) \/ MarkCancelled(i, e) \/ MarkBlockedAuth(i, e)
       \/ \E n \in 0..MaxAttempts : MarkRetry(i, n, e)

\* Only MarkNeedsReconcile makes a row needs_reconcile.
LEMMA RowsReconciled ==
  ASSUME TypeOK,
         \/ \E i \in Ids : ClaimTask(i) \/ Settles(i)
         \/ \E t \in Targets : EnqueueOrMerge(t)
         \/ \E lp \in LocalPaths, e \in ErrorClasses : CancelActiveByLocalPath(lp, e)
         \/ ResumeBlockedAuth
         \/ RecoverStaleTasks
         \/ Clock
         \/ UNCHANGED tasks
  PROVE  \A j \in Ids' : tasks'[j].status = "needs_reconcile" =>
           j \in Ids /\ tasks[j].status = "needs_reconcile"
<1>0. \A j \in Ids : tasks[j] \in Row
  BY DEF TypeOK, Ids
<1>1. ASSUME NEW t \in Targets, EnqueueOrMerge(t), NEW j \in Ids', tasks'[j].status = "needs_reconcile"
      PROVE  j \in Ids /\ tasks[j].status = "needs_reconcile"
  <2>1. CASE tasks' = Append(tasks, NewRow(t))
    <3>1. j \in Ids \/ j = Len(tasks) + 1
      BY <2>1, AddedRow
    <3>2. NewRow(t).status = "pending"
      BY DEF NewRow
    <3>. QED  BY <1>1, <2>1, <3>1, <3>2, AddedRow
  <2>2. ASSUME NEW i \in ActiveFor(t), tasks' = [tasks EXCEPT ![i] = Merged(@, t)]
        PROVE  j \in Ids /\ tasks[j].status = "needs_reconcile"
    BY <1>0, <1>1, <2>2 DEF ActiveFor, Merged, Row, TypeOK, Ids
  <2>. QED  BY <1>1, <2>1, <2>2 DEF EnqueueOrMerge
<1>2. ASSUME NEW i \in Ids, ClaimTask(i) \/ CompleteTask(i),
             NEW j \in Ids', tasks'[j].status = "needs_reconcile"
      PROVE  j \in Ids /\ tasks[j].status = "needs_reconcile"
  <2>1. ASSUME ClaimTask(i)
        PROVE  j \in Ids /\ (j = i => tasks'[j].status = "running") /\ (j # i => tasks'[j] = tasks[j])
    BY <2>1, ClaimStatus
  <2>2. ASSUME CompleteTask(i)
        PROVE  j \in Ids /\ (j = i => tasks'[j].status = "succeeded") /\ (j # i => tasks'[j] = tasks[j])
    BY <1>0, <2>2 DEF CompleteTask, TypeOK, Ids, Row
  <2>. QED  BY <1>2, <2>1, <2>2
<1>3. ASSUME NEW i \in Ids, NEW e \in ErrorClasses,
             NEW s \in {"failed", "cancelled", "blocked_auth"},
             tasks' = [tasks EXCEPT ![i].status = s, ![i].due = FALSE, ![i].stale = FALSE, ![i].err = e],
             NEW j \in Ids', tasks'[j].status = "needs_reconcile"
      PROVE  j \in Ids /\ tasks[j].status = "needs_reconcile"
  BY <1>0, <1>3 DEF TypeOK, Ids, Row
<1>7. ASSUME NEW i \in Ids, NEW e \in ErrorClasses, NEW n \in 0..MaxAttempts, MarkRetry(i, n, e),
             NEW j \in Ids', tasks'[j].status = "needs_reconcile"
      PROVE  j \in Ids /\ tasks[j].status = "needs_reconcile"
  BY <1>0, <1>7 DEF MarkRetry, TypeOK, Ids, Row
<1>8. ASSUME NEW i \in Ids, Settles(i), NEW j \in Ids', tasks'[j].status = "needs_reconcile"
      PROVE  j \in Ids /\ tasks[j].status = "needs_reconcile"
  BY <1>2, <1>3, <1>7, <1>8 DEF Settles, MarkFailed, MarkCancelled, MarkBlockedAuth
<1>4. ASSUME \/ \E lp \in LocalPaths, e \in ErrorClasses : CancelActiveByLocalPath(lp, e)
             \/ ResumeBlockedAuth \/ RecoverStaleTasks,
             NEW j \in Ids', tasks'[j].status = "needs_reconcile"
      PROVE  j \in Ids /\ tasks[j].status = "needs_reconcile"
  <2>1. ASSUME NEW lp \in LocalPaths, NEW e \in ErrorClasses, CancelActiveByLocalPath(lp, e)
        PROVE  j \in Ids /\ tasks[j].status = "needs_reconcile"
    BY <1>0, <1>4, <2>1 DEF CancelActiveByLocalPath, Ids, Row
  <2>2. ASSUME ResumeBlockedAuth
        PROVE  j \in Ids /\ tasks[j].status = "needs_reconcile"
    BY <1>0, <1>4, <2>2 DEF ResumeBlockedAuth, Ids, Row
  <2>3. ASSUME RecoverStaleTasks
        PROVE  j \in Ids /\ tasks[j].status = "needs_reconcile"
    BY <1>0, <1>4, <2>3 DEF RecoverStaleTasks, Ids, Row
  <2>. QED  BY <1>4, <2>1, <2>2, <2>3
<1>5. ASSUME Clock, NEW j \in Ids', tasks'[j].status = "needs_reconcile"
      PROVE  j \in Ids /\ tasks[j].status = "needs_reconcile"
  <2>1. PICK i \in Ids : BackoffElapses(i) \/ ClaimAges(i)
    BY <1>5 DEF Clock
  <2>. QED  BY <1>0, <1>5, <2>1 DEF BackoffElapses, ClaimAges, TypeOK, Ids, Row
<1>6. CASE UNCHANGED tasks
  BY <1>6 DEF Ids
<1>. QED  BY <1>1, <1>2, <1>4, <1>5, <1>6, <1>8

LEMMA WorkerSettles ==
  ASSUME PoolInv, NEW w \in Workers, WorkerStep(w), worker[w].pc # "unsure"
  PROVE  UNCHANGED tasks \/ \E i \in Ids : ClaimTask(i) \/ Settles(i)
<1>. DEFINE i == Current(w).id
<1>1. CASE Poll(w) \/ NextTask(w) \/ Exit(w) \/ Lock(w) \/ StatLocal(w) \/ Preflight(w)
           \/ Send(w) \/ Verify(w) \/ Transfer(w) \/ Halt(w)
  BY <1>1
     DEF Poll, NextTask, Exit, Lock, StatLocal, Preflight, Send, Verify, Transfer, Halt
<1>2. CASE Unsure(w)
  BY <1>2 DEF Unsure, At
<1>3. ASSUME Claim(w) \/ CancelFiltered(w) \/ Commit(w) \/ Report(w) PROVE i \in Ids
  BY <1>3, InTheHand DEF Claim, CancelFiltered, Commit, Report, At
<1>4. CASE Claim(w) \/ Commit(w)
  BY <1>3, <1>4 DEF Claim, Commit, Fault, Settles
<1>5. CASE CancelFiltered(w)
  <2>1. UNCHANGED tasks \/ MarkCancelled(i, "other")
    BY <1>5 DEF CancelFiltered, Attempt, Fault
  <2>. QED  BY <1>3, <1>5, <2>1, ClassesRecorded DEF Settles
<1>6. CASE Report(w)
  <2>. DEFINE n == Current(w).attempts + 1
  <2>1. n \in Nat /\ MaxRetries \in Nat /\ (n <= MaxRetries => n \in 0..MaxAttempts)
    BY <1>6, InTheHand, TaskTableAssumption, WorkerPoolAssumption DEF Report, At, Snapshot
  <2>. HIDE DEF n
  <2>2. \/ UNCHANGED tasks \/ MarkBlockedAuth(i, "other") \/ MarkFailed(i, "other")
        \/ n <= MaxRetries /\ MarkRetry(i, n, Recorded(worker[w].err))
    BY <1>6, <2>1 DEF Report, Attempt, Fault, n
  <2>. QED  BY <1>3, <1>6, <2>1, <2>2, ClassesRecorded DEF Settles
<1>. QED  BY <1>1, <1>2, <1>4, <1>5, <1>6 DEF WorkerStep

\* A worker gets to "unsure" only from a commit that failed; one that finds its row
\* running does not fail without a database fault.
LEMMA CommitHolds ==
  ASSUME PoolInv, Owns, NEW w \in Workers, WorkerStep(w), worker[w].pc # "unsure",
         faults = 0, faults' = 0
  PROVE  worker'[w].pc # "unsure"
<1>0. worker \in [Workers -> WorkerState]
  BY DEF PoolInv, PoolTypeOK
<1>1. \A l : GoTo(w, l) => worker'[w].pc = l
  BY <1>0 DEF GoTo, WorkerState
<1>2. \A e : Fail(w, e) => worker'[w].pc = "report"
  BY <1>0 DEF Fail, WorkerState
<1>3. Done(w) => worker'[w].pc \in {"idle", "next"}
  BY <1>0 DEF Done, Idle
<1>4. CASE Poll(w) \/ NextTask(w) \/ Exit(w)
  <2>1. Poll(w) => worker'[w].pc = "next"
    BY <1>0 DEF Poll, WorkerState
  <2>2. NextTask(w) => worker'[w].pc \in {"exited", "idle", "claim"}
    BY <1>0, <1>1 DEF NextTask, Idle
  <2>3. Exit(w) => worker'[w].pc = "exited"
    BY <1>1 DEF Exit
  <2>. QED  BY <1>4, <2>1, <2>2, <2>3
<1>5. CASE Claim(w) \/ CancelFiltered(w) \/ Unsure(w) \/ Halt(w)
  BY <1>1, <1>3, <1>5 DEF Claim, CancelFiltered, Unsure, Halt
<1>6. CASE Lock(w) \/ Preflight(w) \/ Send(w) \/ Verify(w) \/ Transfer(w)
  BY <1>1, <1>2, <1>6 DEF Lock, Preflight, Send, Verify, Transfer, Download, Remove
<1>7. CASE StatLocal(w)
  BY <1>0, <1>2, <1>7 DEF StatLocal, WorkerState
<1>8. CASE Report(w)
  <2>1. Done(w) \/ GoTo(w, "halt")
    BY <1>8 DEF Report, Permanent
  <2>. QED  BY <1>1, <1>3, <2>1
<1>9. CASE Commit(w)
  <2>1. CanFinish(Current(w).id)
    BY <1>9 DEF Commit, At, Owns, Attending, Processing, Locked, CanFinish
  <2>. QED  BY <1>1, <1>3, <1>9, <2>1 DEF Commit, Fault
<1>. QED  BY <1>4, <1>5, <1>6, <1>7, <1>8, <1>9 DEF WorkerStep

LEMMA UnsureStep ==
  ASSUME PoolInv, OwnInv, crashes = 0 /\ faults = 0 => NoneUnsure, [PoolNext]_vars,
         crashes' = 0, faults' = 0
  PROVE  NoneUnsure'
<1>0. crashes = 0 /\ faults = 0 /\ NoneUnsure
  BY FaultsGrow
<1>1. \A w \in Workers : worker'[w].pc # "unsure"
  <2>1. ASSUME NEW w \in Workers, WorkerStep(w), NEW v \in Workers PROVE worker'[v].pc # "unsure"
    <3>1. v # w => worker'[v] = worker[v]
      BY <2>1, WorkerSteps
    <3>. QED  BY <1>0, <2>1, <3>1, CommitHolds DEF OwnInv, NoneUnsure
  <2>2. ASSUME NEW p \in Procs, ProcStep(p), NEW v \in Workers PROVE worker'[v].pc # "unsure"
    <3>. DEFINE Reset(r) == worker' = [u \in Workers |-> IF ProcOf[u] = p THEN r ELSE worker[u]]
    <3>1. \/ UNCHANGED worker \/ Reset(Idle) \/ Reset([Idle EXCEPT !.pc = "exited"])
      BY <2>2 DEF ProcStep, Open, Close, Start, Shutdown, Stopped, Crash
    <3>2. Idle.pc = "idle" /\ [Idle EXCEPT !.pc = "exited"].pc = "exited"
      BY DEF Idle
    <3>. QED  BY <1>0, <3>1, <3>2 DEF NoneUnsure
  <2>3. UserStep \/ Tick \/ UNCHANGED vars => UNCHANGED worker
    BY DEF UserStep, LocalChange, Enqueue, CancelGone, Tick, vars
  <2>. QED  BY <1>0, <2>1, <2>2, <2>3 DEF NoneUnsure, PoolNext
<1>2. \/ \E i \in Ids : ClaimTask(i) \/ Settles(i)
      \/ \E t \in Targets : EnqueueOrMerge(t)
      \/ \E lp \in LocalPaths, e \in ErrorClasses : CancelActiveByLocalPath(lp, e)
      \/ ResumeBlockedAuth \/ RecoverStaleTasks \/ Clock \/ UNCHANGED tasks
  <2>1. ASSUME NEW p \in Procs, ProcStep(p)
        PROVE  UNCHANGED tasks \/ RecoverStaleTasks \/ ResumeBlockedAuth
    BY <2>1 DEF ProcStep, Open, Close, Start, Shutdown, Stopped, Crash, Attempt, Fault
  <2>2. UserStep \/ Tick \/ UNCHANGED vars =>
          \/ \E t \in Targets : EnqueueOrMerge(t)
          \/ \E lp \in LocalPaths, e \in ErrorClasses : CancelActiveByLocalPath(lp, e)
          \/ Clock \/ UNCHANGED tasks
    BY ClassesRecorded DEF UserStep, LocalChange, Enqueue, CancelGone, Tick, vars
  <2>3. ASSUME NEW w \in Workers, WorkerStep(w)
        PROVE  UNCHANGED tasks \/ \E i \in Ids : ClaimTask(i) \/ Settles(i)
    BY <1>0, <2>3, WorkerSettles DEF NoneUnsure
  <2>. QED  BY <2>1, <2>2, <2>3 DEF PoolNext
<1>3. \A j \in Ids' : tasks'[j].status = "needs_reconcile" =>
        j \in Ids /\ tasks[j].status = "needs_reconcile"
  BY <1>2, RowsReconciled DEF PoolInv, PoolTypeOK
<1>. QED  BY <1>0, <1>1, <1>3 DEF NoneUnsure, ReconcileOnlyAfterFault

\* In a single process a commit always finds its row running, so that without a
\* crash or a failing database call no row ends in needs_reconcile, which nothing
\* in the code leaves.
THEOREM OneProcessCommits ==
  ASSUME OneProcess
  PROVE  PoolSpec => []ReconcileOnlyAfterFault
<1>. DEFINE Inv == crashes = 0 /\ faults = 0 => NoneUnsure
<1>1. PoolInit => Inv
  BY DEF PoolInit, TableInit, NoneUnsure, ReconcileOnlyAfterFault, Idle, Ids
<1>2. PoolInv /\ OwnInv /\ Inv /\ [PoolNext]_vars => Inv'
  BY UnsureStep
<1>3. Inv => ReconcileOnlyAfterFault
  BY DEF NoneUnsure, ReconcileOnlyAfterFault
<1>. HIDE DEF Inv
<1>. QED  BY <1>1, <1>2, <1>3, OwnsTheRow, PoolInvariant, PTL DEF PoolSpec
-----------------------------------------------------------------------------
(***************************************************************************)
(* One poll loop for each operation: retries only count up.                *)
(***************************************************************************)

OneLoopEach == \A v, w \in Workers : OpOf[v] = OpOf[w] => v = w

\* The attempts a row has while its snapshot s is in the batch of w: the snapshot's,
\* and one more once w has claimed it.
Expected(w, s) ==
  IF worker[w].pc \in Processing /\ s = Current(w) THEN NextAttempt(s.attempts) ELSE s.attempts

CountInv ==
  \A w \in Workers :
    /\ \A s \in worker[w].batch : tasks[s.id].attempts = Expected(w, s)
    /\ \A s, t \in worker[w].batch : s.id = t.id => s = t

\* No row's count changes.
KeepsCounts == \A j \in Ids : j \in Ids' /\ tasks'[j].attempts = tasks[j].attempts

\* What the statements do to the counts.
LEMMA OthersCount ==
  ASSUME TypeOK,
         \/ \E t \in Targets : EnqueueOrMerge(t)
         \/ \E lp \in LocalPaths, e \in ErrorClasses : CancelActiveByLocalPath(lp, e)
         \/ ResumeBlockedAuth
         \/ RecoverStaleTasks
         \/ Clock
         \/ UNCHANGED tasks
  PROVE  KeepsCounts
<1>0. \A j \in Ids : tasks[j] \in Row
  BY DEF TypeOK, Ids
<1>1. ASSUME NEW t \in Targets, EnqueueOrMerge(t) PROVE KeepsCounts
  <2>1. CASE tasks' = Append(tasks, NewRow(t))
    <3>1. /\ Ids = 1..Len(tasks) /\ Ids' = 1..(Len(tasks) + 1) /\ Len(tasks) \in Nat
          /\ \A i \in Ids : tasks'[i] = tasks[i]
      BY <2>1, AddedRow
    <3>. QED  BY <3>1 DEF KeepsCounts
  <2>2. ASSUME NEW i \in ActiveFor(t), tasks' = [tasks EXCEPT ![i] = Merged(@, t)] PROVE KeepsCounts
    <3>1. i \in Ids
      BY DEF ActiveFor
    <3>2. tasks[i] \in Row
      BY <1>0, <3>1
    <3>3. Merged(tasks[i], t).attempts = tasks[i].attempts
      BY <3>2 DEF Merged, Row
    <3>4. Ids' = Ids /\ \A j \in Ids : tasks'[j] = IF j = i THEN Merged(tasks[i], t) ELSE tasks[j]
      BY <2>2, <3>1 DEF TypeOK, Ids
    <3>. QED  BY <3>3, <3>4 DEF KeepsCounts
  <2>. QED  BY <1>1, <2>1, <2>2 DEF EnqueueOrMerge
<1>2. CASE Clock
  <2>1. PICK i \in Ids : BackoffElapses(i) \/ ClaimAges(i)
    BY <1>2 DEF Clock
  <2>2. tasks[i] \in Row
    BY <1>0
  <2>3. CASE BackoffElapses(i)
    <3>1. Ids' = Ids /\ \A j \in Ids : tasks'[j] = IF j = i THEN [tasks[i] EXCEPT !.due = TRUE] ELSE tasks[j]
      BY <2>3 DEF BackoffElapses, TypeOK, Ids
    <3>. QED  BY <2>2, <3>1 DEF KeepsCounts, Row
  <2>4. CASE ClaimAges(i)
    <3>1. Ids' = Ids /\ \A j \in Ids : tasks'[j] = IF j = i THEN [tasks[i] EXCEPT !.stale = TRUE] ELSE tasks[j]
      BY <2>4 DEF ClaimAges, TypeOK, Ids
    <3>. QED  BY <2>2, <3>1 DEF KeepsCounts, Row
  <2>. QED  BY <2>1, <2>3, <2>4
<1>3. ASSUME NEW lp \in LocalPaths, NEW e \in ErrorClasses, CancelActiveByLocalPath(lp, e)
      PROVE  KeepsCounts
  <2>. DEFINE hit(r) == r.lp = lp /\ r.status \in {"pending", "retry_wait"}
              gone(r) == [r EXCEPT !.status = "cancelled", !.due = FALSE, !.stale = FALSE, !.err = e]
  <2>1. tasks' = [i \in Ids |-> IF hit(tasks[i]) THEN gone(tasks[i]) ELSE tasks[i]]
    BY <1>3 DEF CancelActiveByLocalPath
  <2>2. \A r \in Row : gone(r).attempts = r.attempts
    BY DEF Row
  <2>. HIDE DEF hit, gone
  <2>3. Ids' = Ids
    BY <1>3, BulkShape DEF Calms, KeepsKeys
  <2>. QED  BY <1>0, <2>1, <2>2, <2>3 DEF KeepsCounts
<1>4. CASE ResumeBlockedAuth
  <2>1. Ids' = Ids
    BY <1>4, BulkShape DEF Calms, KeepsKeys
  <2>. QED  BY <1>0, <1>4, <2>1 DEF ResumeBlockedAuth, KeepsCounts, Row
<1>5. CASE RecoverStaleTasks
  <2>1. Ids' = Ids
    BY <1>5, BulkShape DEF Calms, KeepsKeys
  <2>. QED  BY <1>0, <1>5, <2>1 DEF RecoverStaleTasks, KeepsCounts, Row
<1>6. CASE UNCHANGED tasks
  BY <1>6 DEF KeepsCounts, Ids
<1>. QED  BY <1>1, <1>2, <1>3, <1>4, <1>5, <1>6

\* A statement on row i that writes a count of n, or leaves it alone.
LEMMA RowCounts ==
  ASSUME TypeOK, NEW i \in Ids
  PROVE  /\ ClaimTask(i) => /\ Ids' = Ids /\ \A j \in Ids \ {i} : tasks'[j] = tasks[j]
                            /\ tasks'[i].attempts = NextAttempt(tasks[i].attempts)
         /\ \A n \in 0..MaxAttempts, e \in ErrorClasses : MarkRetry(i, n, e) =>
              /\ Ids' = Ids /\ \A j \in Ids \ {i} : tasks'[j] = tasks[j]
              /\ tasks'[i].attempts = n
         /\ CompleteTask(i) => KeepsCounts
         /\ \A e \in ErrorClasses :
              MarkFailed(i, e) \/ MarkCancelled(i, e) \/ MarkBlockedAuth(i, e) \/ MarkNeedsReconcile(i, e) =>
                KeepsCounts
<1>0. tasks[i] \in Row /\ \A j \in Ids : tasks[j] \in Row
  BY DEF TypeOK, Ids
<1>1. ASSUME ClaimTask(i)
      PROVE  /\ Ids' = Ids /\ \A j \in Ids \ {i} : tasks'[j] = tasks[j]
             /\ tasks'[i].attempts = NextAttempt(tasks[i].attempts)
  BY <1>0, <1>1 DEF ClaimTask, TypeOK, Ids, Row
<1>2. ASSUME NEW n \in 0..MaxAttempts, NEW e \in ErrorClasses, MarkRetry(i, n, e)
      PROVE  /\ Ids' = Ids /\ \A j \in Ids \ {i} : tasks'[j] = tasks[j]
             /\ tasks'[i].attempts = n
  BY <1>0, <1>2 DEF MarkRetry, TypeOK, Ids, Row
<1>3. ASSUME NEW s, NEW e,
             tasks' = [tasks EXCEPT ![i].status = s, ![i].due = FALSE, ![i].stale = FALSE, ![i].err = e]
      PROVE  KeepsCounts
  BY <1>0, <1>3 DEF KeepsCounts, TypeOK, Ids, Row
<1>4. CompleteTask(i) => KeepsCounts
  BY <1>3 DEF CompleteTask
<1>5. ASSUME NEW e \in ErrorClasses,
             MarkFailed(i, e) \/ MarkCancelled(i, e) \/ MarkBlockedAuth(i, e) \/ MarkNeedsReconcile(i, e)
      PROVE  KeepsCounts
  BY <1>3, <1>5 DEF MarkFailed, MarkCancelled, MarkBlockedAuth, MarkNeedsReconcile
<1>. QED  BY <1>1, <1>2, <1>4, <1>5

\* A worker's step leaves the counts alone and the worker at its task, before or after
\* the claim; or it claims; or leaves the task, with the count unchanged or written anew.
LEMMA WorkerCounts ==
  ASSUME PoolInv, NEW w \in Workers, WorkerStep(w), ~Poll(w)
  PROVE  LET i == Current(w).id
             n == Current(w).attempts + 1
             stays == worker'[w].batch = worker[w].batch
             leaves == worker'[w].pc \notin Processing /\ worker'[w].batch \subseteq Rest(w)
         IN
         \/ KeepsCounts /\ stays /\ (worker'[w].pc \in Processing <=> worker[w].pc \in Processing)
         \/ ClaimTask(i) /\ worker[w].pc = "claim" /\ worker'[w].pc = "lock" /\ stays
         \/ KeepsCounts /\ leaves
         \/ /\ worker[w].pc = "report" /\ leaves /\ n <= MaxRetries
            /\ \E e \in ErrorClasses : MarkRetry(i, n, e)
<1>. DEFINE i == Current(w).id
            n == Current(w).attempts + 1
            stays == worker'[w].batch = worker[w].batch
            Same == stays /\ (worker'[w].pc \in Processing <=> worker[w].pc \in Processing)
            leaves == worker'[w].pc \notin Processing /\ worker'[w].batch \subseteq Rest(w)
<1>0. worker \in [Workers -> WorkerState] /\ TypeOK /\ InHand(worker[w])
  BY DEF PoolInv, PoolTypeOK
<1>1. \A l : GoTo(w, l) => worker'[w].pc = l /\ stays
  BY <1>0 DEF GoTo, WorkerState
<1>2. \A e : Fail(w, e) => worker'[w].pc = "report" /\ stays
  BY <1>0 DEF Fail, WorkerState
<1>3. Done(w) => leaves
  BY <1>0 DEF Done, Idle, Processing, Locked, Rest
<1>4. UNCHANGED tasks => KeepsCounts
  BY DEF KeepsCounts, Ids
<1>5. CASE NextTask(w) \/ Exit(w)
  <2>1. \/ worker' = [worker EXCEPT ![w] = Idle] \/ worker' = [worker EXCEPT ![w] = [Idle EXCEPT !.pc = "exited"]]
        => leaves
    BY <1>0 DEF Idle, Processing, Locked
  <2>2. GoTo(w, "claim") /\ worker[w].pc = "next" => Same
    BY <1>1 DEF Processing, Locked
  <2>3. GoTo(w, "exited") /\ worker[w].pc = "idle" => Same
    BY <1>1 DEF Processing, Locked
  <2>. QED  BY <1>4, <1>5, <2>1, <2>2, <2>3 DEF NextTask, Exit, At
<1>6. CASE Claim(w)
  BY <1>1, <1>3, <1>4, <1>6 DEF Claim, Fault, At
<1>7. CASE Lock(w) \/ Preflight(w) \/ Send(w) \/ Verify(w) \/ Transfer(w)
  <2>1. Same
    BY <1>1, <1>2, <1>7
       DEF Lock, Preflight, Send, Verify, Transfer, Download, Remove, At, Processing, Locked
  <2>. QED  BY <1>4, <1>7, <2>1, LoopMoves, UploadMoves, TransferMoves
<1>8. CASE StatLocal(w)
  <2>1. Same
    BY <1>0, <1>2, <1>8 DEF StatLocal, At, Processing, Locked, WorkerState
  <2>. QED  BY <1>4, <1>8, <2>1 DEF StatLocal
<1>9. CASE CancelFiltered(w) \/ Commit(w) \/ Unsure(w) \/ Halt(w) \/ Report(w)
  <2>0. i \in Ids /\ Current(w) \in Snapshot
    BY <1>9, InTheHand DEF CancelFiltered, Commit, Unsure, Halt, Report, At
  <2>1. CASE CancelFiltered(w)
    BY <1>0, <1>3, <1>4, <2>0, <2>1, RowCounts, ClassesRecorded DEF CancelFiltered, Attempt, Fault
  <2>2. CASE Commit(w)
    <3>1. GoTo(w, "unsure") => Same
      BY <1>1, <2>2 DEF Commit, At, Processing, Locked
    <3>. QED  BY <1>0, <1>3, <1>4, <2>0, <2>2, <3>1, RowCounts DEF Commit, Fault
  <2>3. CASE Unsure(w)
    BY <1>0, <1>3, <1>4, <2>0, <2>3, RowCounts, ClassesRecorded DEF Unsure, Attempt, Fault
  <2>4. CASE Halt(w)
    BY <1>3, <1>4, <2>4 DEF Halt
  <2>5. CASE Report(w)
    <3>1. n \in Nat /\ MaxRetries \in Nat /\ worker[w].pc = "report"
      BY <2>0, <2>5, TaskTableAssumption, WorkerPoolAssumption DEF Snapshot, Report, At
    <3>. HIDE DEF n
    <3>2. CASE worker[w].err = "session_expired"
      <4>1. GoTo(w, "halt") /\ (UNCHANGED tasks \/ MarkBlockedAuth(i, "other"))
        BY <2>5, <3>2 DEF Report, Attempt, Fault, Permanent
      <4>2. Same
        BY <1>1, <3>1, <4>1 DEF Processing, Locked
      <4>. QED  BY <1>0, <1>4, <2>0, <4>1, <4>2, RowCounts, ClassesRecorded
    <3>3. CASE worker[w].err # "session_expired"
      <4>1. /\ Done(w)
            /\ \/ UNCHANGED tasks \/ MarkFailed(i, "other")
               \/ n <= MaxRetries /\ MarkRetry(i, n, Recorded(worker[w].err))
        BY <2>5, <3>1, <3>3 DEF Report, Attempt, Fault, n
      <4>2. MarkFailed(i, "other") => KeepsCounts
        BY <1>0, <2>0, RowCounts, ClassesRecorded
      <4>. QED  BY <1>3, <1>4, <3>1, <4>1, <4>2, ClassesRecorded DEF n
    <3>. QED  BY <3>2, <3>3
  <2>. QED  BY <1>9, <2>1, <2>2, <2>3, <2>4, <2>5
<1>. QED
  BY <1>5, <1>6, <1>7, <1>8, <1>9 DEF WorkerStep

\* What CountInv says of one batch B at program point pc, with the current snapshot c.
Agrees(B, pc, c) ==
  /\ \A s \in B : tasks[s.id].attempts = IF pc \in Processing /\ s = c THEN NextAttempt(s.attempts) ELSE s.attempts
  /\ \A s, t \in B : s.id = t.id => s = t

LEMMA CountParts ==
  CountInv <=> \A w \in Workers : Agrees(worker[w].batch, worker[w].pc, Current(w))
BY DEF CountInv, Agrees, Expected

LEMMA CountPartsNext ==
  ASSUME \A w \in Workers : Agrees(worker[w].batch, worker[w].pc, Current(w))'
  PROVE  CountInv'
BY DEF CountInv, Agrees, Expected

LEMMA CountsAreNumbers ==
  ASSUME TypeOK
  PROVE  \A j \in Ids : tasks[j].attempts \in 0..MaxAttempts /\ tasks[j].attempts \in Nat
<1>1. \A j \in Ids : tasks[j] \in Row
  BY DEF TypeOK, Ids
<1>2. \A r \in Row : r.attempts \in 0..MaxAttempts
  BY DEF Row
<1>3. 0..MaxAttempts \subseteq Nat
  BY TaskTableAssumption
<1>. QED  BY <1>1, <1>2, <1>3

\* A batch whose rows keep their counts.
LEMMA AgreesKept ==
  ASSUME NEW B, NEW C \in SUBSET B, NEW pc, NEW qc, NEW c, Agrees(B, pc, c),
         \A s \in C : s.id \in Ids /\ tasks'[s.id].attempts = tasks[s.id].attempts,
         (pc \in Processing <=> qc \in Processing) \/ c \notin C
  PROVE  Agrees(C, qc, c)'
BY DEF Agrees

\* The workers of other operations have no row of w in their batches.
LEMMA OtherBatches ==
  ASSUME OneLoopEach, PoolInv, CountInv, NEW w \in Workers, NEW v \in Workers \ {w},
         worker'[v] = worker[v],
         \A j \in Ids : tasks[j].op # OpOf[w] => tasks'[j].attempts = tasks[j].attempts
  PROVE  Agrees(worker[v].batch, worker[v].pc, Current(v))'
<1>1. OpOf[v] # OpOf[w]
  BY DEF OneLoopEach
<1>2. \A s \in worker[v].batch : s.id \in Ids /\ tasks'[s.id].attempts = tasks[s.id].attempts
  BY <1>1 DEF PoolInv, Listed
<1>3. Agrees(worker[v].batch, worker[v].pc, Current(v))
  BY CountParts
<1>4. Current(v)' = Current(v)
  BY CurrentKept
<1>5. worker[v].batch \in SUBSET worker[v].batch
  OBVIOUS
<1>. QED  BY <1>2, <1>3, <1>4, AgreesKept DEF Agrees

\* A claim or a retry changes the count of the row of w and no other.
LEMMA OneRowElsewhere ==
  ASSUME PoolInv, NEW w \in Workers, worker[w].pc \notin {"exited", "idle"},
         \A j \in Ids \ {Current(w).id} : tasks'[j] = tasks[j]
  PROVE  \A j \in Ids : tasks[j].op # OpOf[w] => tasks'[j].attempts = tasks[j].attempts
BY InTheHand

LEMMA PollAgrees ==
  ASSUME OneLoopEach, PoolInv, CountInv, NEW w \in Workers, Poll(w)
  PROVE  CountInv' /\ KeepsCounts
<1>1. PICK S \in SUBSET ReadyIds(OpOf[w]) :
        /\ S # {}
        /\ worker' = [worker EXCEPT ![w] = [worker[w] EXCEPT !.pc = "next",
                                               !.batch = {SnapshotOf(i) : i \in S}]]
        /\ UNCHANGED tasks
  BY PollMoves
<1>2. KeepsCounts
  BY <1>1 DEF KeepsCounts, Ids
<1>3. worker \in [Workers -> WorkerState]
  BY DEF PoolInv, PoolTypeOK
<1>4. worker'[w].pc = "next" /\ worker'[w].batch = {SnapshotOf(i) : i \in S}
  BY <1>1, <1>3 DEF WorkerState
<1>5. \A i \in S : SnapshotOf(i).id = i /\ SnapshotOf(i).attempts = tasks'[i].attempts
  BY <1>1 DEF SnapshotOf
<1>6. \A c : Agrees(worker[w].batch, worker[w].pc, c)'
  BY <1>4, <1>5 DEF Agrees, Processing, Locked
<1>7. \A v \in Workers \ {w} : worker'[v] = worker[v]
  BY <1>1
<1>8. \A v \in Workers \ {w} : Agrees(worker[v].batch, worker[v].pc, Current(v))'
  BY <1>1, <1>7, OtherBatches
<1>9. \A v \in Workers : Agrees(worker[v].batch, worker[v].pc, Current(v))'
  BY <1>6, <1>8
<1>. QED  BY <1>2, <1>9, CountPartsNext

LEMMA ClaimAgrees ==
  ASSUME OneLoopEach, PoolInv, CountInv, NEW w \in Workers,
         ClaimTask(Current(w).id), worker[w].pc = "claim", worker'[w].pc = "lock",
         worker'[w].batch = worker[w].batch, \A v \in Workers \ {w} : worker'[v] = worker[v]
  PROVE  CountInv' /\ \A j \in Ids : tasks'[j].attempts >= tasks[j].attempts
<1>. DEFINE c == Current(w)
            i == c.id
            B == worker[w].batch
<1>1. c \in B /\ i \in Ids /\ c \in Snapshot
  BY InTheHand
<1>2. /\ \A j \in Ids \ {i} : tasks'[j] = tasks[j]
      /\ tasks'[i].attempts = NextAttempt(tasks[i].attempts)
  BY <1>1, RowCounts DEF PoolInv, PoolTypeOK
<1>3. Agrees(B, "claim", c)
  BY CountParts
<1>4. \A s \in B : s.id \in Ids /\ (s.id = i => s = c)
  BY <1>1, <1>3 DEF Agrees, PoolInv, Listed
<1>5. tasks[i].attempts = c.attempts /\ \A s \in B : tasks[s.id].attempts = s.attempts
  BY <1>1, <1>3 DEF Agrees, Processing, Locked
<1>6. c' = c
  BY CurrentKept
<1>7. "lock" \in Processing
  BY DEF Processing
<1>8. \A s \in B : tasks'[s.id].attempts = IF s = c THEN NextAttempt(s.attempts) ELSE s.attempts
  BY <1>2, <1>4, <1>5
<1>9. \A s, t \in B : s.id = t.id => s = t
  BY <1>3 DEF Agrees
<1>10. Agrees(worker[w].batch, worker[w].pc, Current(w))'
  BY <1>6, <1>7, <1>8, <1>9 DEF Agrees
<1>11. \A v \in Workers \ {w} : Agrees(worker[v].batch, worker[v].pc, Current(v))'
  BY <1>2, OneRowElsewhere, OtherBatches
<1>12. \A j \in Ids : tasks[j].attempts \in Nat
  BY CountsAreNumbers DEF PoolInv, PoolTypeOK
<1>13. \A n \in Nat : NextAttempt(n) >= n
  BY DEF NextAttempt
<1>14. tasks'[i].attempts >= tasks[i].attempts
  BY <1>1, <1>2, <1>12, <1>13
<1>15. CountInv'
  BY <1>10, <1>11, CountPartsNext
<1>. QED  BY <1>2, <1>12, <1>14, <1>15

\* The worker leaves its task: what is left of its batch is as it was listed.
LEMMA LeaveAgrees ==
  ASSUME OneLoopEach, PoolInv, CountInv, NEW w \in Workers,
         worker'[w].pc \notin Processing, worker'[w].batch \subseteq Rest(w),
         \A v \in Workers \ {w} : worker'[v] = worker[v],
         \/ KeepsCounts
         \/ /\ worker[w].pc \notin {"exited", "idle"}
            /\ \A j \in Ids \ {Current(w).id} : tasks'[j] = tasks[j]
  PROVE  CountInv'
<1>. DEFINE B == worker[w].batch
            C == worker'[w].batch
            c == Current(w)
<1>1. Agrees(B, worker[w].pc, c)
  BY CountParts
<1>2. C \subseteq B /\ c \notin C
  BY DEF Rest
<1>3. \A s \in C : s.id \in Ids /\ tasks'[s.id].attempts = tasks[s.id].attempts
  <2>1. \A s \in C : s.id \in Ids
    BY <1>2 DEF PoolInv, Listed
  <2>2. CASE KeepsCounts
    BY <2>1, <2>2 DEF KeepsCounts
  <2>3. CASE ~KeepsCounts
    <3>1. c \in B
      BY <2>3, InTheHand
    <3>2. \A s \in C : s.id # c.id
      BY <1>1, <1>2, <3>1 DEF Agrees
    <3>. QED  BY <2>1, <2>3, <3>2
  <2>. QED  BY <2>2, <2>3
<1>4. \A s \in C : tasks'[s.id].attempts = s.attempts
  BY <1>1, <1>2, <1>3 DEF Agrees
<1>5. \A s, t \in C : s.id = t.id => s = t
  BY <1>1, <1>2 DEF Agrees
<1>6. Agrees(worker[w].batch, worker[w].pc, Current(w))'
  BY <1>4, <1>5 DEF Agrees
<1>7. \A j \in Ids : tasks[j].op # OpOf[w] => tasks'[j].attempts = tasks[j].attempts
  BY OneRowElsewhere DEF KeepsCounts
<1>8. \A v \in Workers \ {w} : Agrees(worker[v].batch, worker[v].pc, Current(v))'
  BY <1>7, OtherBatches
<1>. QED  BY <1>6, <1>8, CountPartsNext

LEMMA WorkerAgrees ==
  ASSUME OneLoopEach, PoolInv, CountInv, NEW w \in Workers, WorkerStep(w)
  PROVE  CountInv' /\ \A j \in Ids : tasks'[j].attempts >= tasks[j].attempts
<1>. DEFINE c == Current(w)
            n == c.attempts + 1
            stays == worker'[w].batch = worker[w].batch
            leaves == worker'[w].pc \notin Processing /\ worker'[w].batch \subseteq Rest(w)
            Rises == \A j \in Ids : tasks'[j].attempts >= tasks[j].attempts
<1>0. TypeOK /\ \A v \in Workers \ {w} : worker'[v] = worker[v]
  BY WorkerSteps DEF PoolInv, PoolTypeOK
<1>1. \A j \in Ids : tasks[j].attempts \in 0..MaxAttempts /\ tasks[j].attempts \in Nat
  BY <1>0, CountsAreNumbers
<1>2. KeepsCounts => Rises
  BY <1>1 DEF KeepsCounts
<1>3. CASE Poll(w)
  BY <1>2, <1>3, PollAgrees
<1>4. CASE KeepsCounts /\ stays /\ (worker'[w].pc \in Processing <=> worker[w].pc \in Processing)
  <2>1. \A s \in worker[w].batch : s.id \in Ids /\ tasks'[s.id].attempts = tasks[s.id].attempts
    BY <1>4 DEF KeepsCounts, PoolInv, Listed
  <2>2. Agrees(worker[w].batch, worker[w].pc, c) /\ c' = c
    BY <1>4, CountParts, CurrentKept
  <2>3. Agrees(worker[w].batch, worker[w].pc, Current(w))'
    BY <1>4, <2>1, <2>2 DEF Agrees
  <2>4. \A v \in Workers \ {w} : Agrees(worker[v].batch, worker[v].pc, Current(v))'
    BY <1>0, <1>4, OtherBatches DEF KeepsCounts
  <2>. QED  BY <1>2, <1>4, <2>3, <2>4, CountPartsNext
<1>5. CASE ClaimTask(c.id) /\ worker[w].pc = "claim" /\ worker'[w].pc = "lock" /\ stays
  BY <1>0, <1>5, ClaimAgrees
<1>6. CASE KeepsCounts /\ leaves
  BY <1>0, <1>2, <1>6, LeaveAgrees
<1>7. ASSUME worker[w].pc = "report", leaves, n <= MaxRetries,
             NEW e \in ErrorClasses, MarkRetry(c.id, n, e)
      PROVE  CountInv' /\ Rises
  <2>1. c \in worker[w].batch /\ c.id \in Ids /\ c \in Snapshot
    BY <1>7, InTheHand
  <2>2. c.attempts \in 0..MaxAttempts /\ c.attempts \in Nat
    BY <2>1, TaskTableAssumption DEF Snapshot
  <2>3. n \in 0..MaxAttempts /\ n = NextAttempt(c.attempts)
    BY <1>7, <2>2, TaskTableAssumption, WorkerPoolAssumption DEF NextAttempt
  <2>4. tasks[c.id].attempts = NextAttempt(c.attempts)
    BY <1>7, <2>1, CountParts DEF Agrees, Processing, Locked
  <2>. HIDE DEF n
  <2>5. (\A j \in Ids \ {c.id} : tasks'[j] = tasks[j]) /\ tasks'[c.id].attempts = n
    BY <1>0, <1>7, <2>1, <2>3, RowCounts
  <2>6. Rises
    BY <1>1, <2>1, <2>3, <2>4, <2>5
  <2>7. CountInv'
    BY <1>0, <1>7, <2>5, LeaveAgrees
  <2>. QED  BY <2>6, <2>7
<1>. QED  BY <1>3, <1>4, <1>5, <1>6, <1>7, WorkerCounts

LEMMA CountStep ==
  ASSUME OneLoopEach, PoolInv, CountInv, [PoolNext]_vars
  PROVE  CountInv' /\ \A j \in Ids : tasks'[j].attempts >= tasks[j].attempts
<1>. DEFINE Rises == \A j \in Ids : tasks'[j].attempts >= tasks[j].attempts
<1>0. TypeOK
  BY DEF PoolInv, PoolTypeOK
<1>1. \A j \in Ids : tasks[j].attempts \in Nat
  BY <1>0, CountsAreNumbers
<1>2. KeepsCounts => Rises
  BY <1>1 DEF KeepsCounts
<1>3. ASSUME KeepsCounts,
             \A w \in Workers :
               worker'[w] = worker[w] \/ worker'[w].batch = {}
      PROVE  CountInv'
  <2>1. \A w \in Workers : \A s \in worker[w].batch :
          s.id \in Ids /\ tasks'[s.id].attempts = tasks[s.id].attempts
    BY <1>3 DEF KeepsCounts, PoolInv, Listed
  <2>2. ASSUME NEW w \in Workers PROVE Agrees(worker[w].batch, worker[w].pc, Current(w))'
    <3>1. CASE worker'[w].batch = {}
      BY <3>1 DEF Agrees
    <3>2. CASE worker'[w] = worker[w]
      <4>1. Agrees(worker[w].batch, worker[w].pc, Current(w)) /\ Current(w)' = Current(w)
        BY <3>2, CountParts, CurrentKept
      <4>. QED  BY <2>1, <3>2, <4>1 DEF Agrees
    <3>. QED  BY <1>3, <3>1, <3>2
  <2>. QED  BY <2>2, CountPartsNext
<1>4. ASSUME NEW p \in Procs, ProcStep(p) PROVE CountInv' /\ Rises
  <2>1. ResumeBlockedAuth \/ RecoverStaleTasks \/ UNCHANGED tasks
    BY <1>4 DEF ProcStep, Open, Close, Start, Shutdown, Stopped, Crash, Attempt, Fault
  <2>2. KeepsCounts
    BY <1>0, <2>1, OthersCount
  <2>3. Idle.batch = {} /\ [Idle EXCEPT !.pc = "exited"].batch = {}
    BY DEF Idle
  <2>4. \A w \in Workers : worker'[w] = worker[w] \/ worker'[w].batch = {}
    BY <1>4, <2>3 DEF ProcStep, Open, Close, Start, Shutdown, Stopped, Crash
  <2>. QED  BY <1>2, <1>3, <2>2, <2>4
<1>5. ASSUME UserStep \/ Tick \/ UNCHANGED vars PROVE CountInv' /\ Rises
  <2>1. UNCHANGED worker
    BY <1>5 DEF UserStep, LocalChange, Enqueue, CancelGone, Tick, vars
  <2>2. \/ \E t \in Targets : EnqueueOrMerge(t)
        \/ \E lp \in LocalPaths, e \in ErrorClasses : CancelActiveByLocalPath(lp, e)
        \/ Clock \/ UNCHANGED tasks
    BY <1>5, ClassesRecorded DEF UserStep, LocalChange, Enqueue, CancelGone, Tick, vars
  <2>3. KeepsCounts
    BY <1>0, <2>2, OthersCount
  <2>. QED  BY <1>2, <1>3, <2>1, <2>3
<1>. QED  BY <1>4, <1>5, WorkerAgrees DEF PoolNext

\* With one poll loop for each operation, the count a retry writes, though it is taken
\* from a snapshot, is the count its claim has set: no failure, recovery, crash or new
\* request in between gives a row its attempts back (ClaimTask, MarkRetry).
THEOREM OneLoopCountsUp ==
  ASSUME OneLoopEach
  PROVE  PoolSpec => AttemptsNeverDrop
<1>1. PoolInit => CountInv
  BY DEF PoolInit, CountInv, Idle
<1>2. PoolInv /\ CountInv /\ [PoolNext]_vars => CountInv'
  BY CountStep
<1>3. PoolInv /\ CountInv /\ [PoolNext]_vars => [\A i \in Ids : tasks'[i].attempts >= tasks[i].attempts]_vars
  BY CountStep
<1>. QED  BY <1>1, <1>2, <1>3, PoolInvariant, PTL DEF PoolSpec, AttemptsNeverDrop
-----------------------------------------------------------------------------
(***************************************************************************)
(* One poll loop in a process: a blocked pool claims nothing.              *)
(***************************************************************************)

OneLoop == \A v, w \in Workers : ProcOf[v] = ProcOf[w] => v = w

\* Between tasks is the only place a blocked loop can be.
Blocked == \A w \in Workers : authBlocked[ProcOf[w]] => worker[w].pc \in {"exited", "idle", "next"}

LEMMA WorkerBlocked ==
  ASSUME OneLoop, PoolInv, Blocked, NEW w \in Workers, WorkerStep(w)
  PROVE  Blocked'
<1>. DEFINE p == ProcOf[w]
            Between == {"exited", "idle", "next"}
<1>0. worker \in [Workers -> WorkerState] /\ authBlocked \in [Procs -> BOOLEAN] /\ p \in Procs
  BY WorkerPoolAssumption DEF PoolInv, PoolTypeOK
<1>1. \A v \in Workers \ {w} : worker'[v] = worker[v] /\ ProcOf[v] # p /\ ProcOf[v] \in Procs
  BY WorkerSteps, WorkerPoolAssumption DEF OneLoop
<1>2. CASE Halt(w)
  <2>1. worker'[w].pc \in Between
    BY <1>0, <1>2 DEF Halt, Done, Idle
  <2>2. \A v \in Workers \ {w} : authBlocked'[ProcOf[v]] = authBlocked[ProcOf[v]]
    BY <1>0, <1>1, <1>2 DEF Halt
  <2>. QED  BY <1>1, <2>1, <2>2 DEF Blocked
<1>3. CASE ~Halt(w)
  <2>1. UNCHANGED authBlocked
    BY <1>3 DEF WorkerStep, Poll, NextTask, Exit, Claim, Lock, CancelFiltered, StatLocal, Preflight,
         Send, Verify, Transfer, Commit, Unsure, Report
  <2>2. ASSUME authBlocked[p] PROVE worker'[w].pc \in Between
    <3>1. worker[w].pc \in Between
      BY <2>2 DEF Blocked
    <3>2. NextTask(w) \/ Exit(w)
      BY <1>3, <2>2, <3>1
         DEF WorkerStep, Poll, Claim, Lock, CancelFiltered, StatLocal, Preflight,
             Send, Verify, Transfer, Commit, Unsure, Report, At
    <3>3. CASE NextTask(w)
      BY <1>0, <2>2, <3>3 DEF NextTask, Idle
    <3>4. CASE Exit(w)
      BY <1>0, <3>4 DEF Exit, GoTo, WorkerState
    <3>. QED  BY <3>2, <3>3, <3>4
  <2>. QED  BY <1>1, <2>1, <2>2 DEF Blocked
<1>. QED  BY <1>2, <1>3

LEMMA BlockedStep ==
  ASSUME OneLoop, PoolInv, Blocked, [PoolNext]_vars
  PROVE  Blocked'
<1>0. authBlocked \in [Procs -> BOOLEAN] /\ \A w \in Workers : ProcOf[w] \in Procs
  BY WorkerPoolAssumption DEF PoolInv, PoolTypeOK
<1>1. ASSUME NEW p \in Procs, Start(p) PROVE Blocked'
  <2>1. ASSUME NEW w \in Workers, authBlocked'[ProcOf[w]] PROVE worker'[w].pc \in {"exited", "idle", "next"}
    <3>1. ProcOf[w] # p /\ authBlocked[ProcOf[w]]
      BY <1>0, <1>1, <2>1 DEF Start
    <3>2. worker'[w] = worker[w]
      BY <1>1, <3>1 DEF Start
    <3>. QED  BY <3>1, <3>2 DEF Blocked
  <2>. QED  BY <2>1 DEF Blocked
<1>2. ASSUME NEW p \in Procs, Crash(p) PROVE Blocked'
  <2>1. [Idle EXCEPT !.pc = "exited"].pc = "exited"
    BY DEF Idle
  <2>. QED  BY <1>2, <2>1 DEF Crash, Blocked
<1>3. ASSUME NEW p \in Procs, Open(p) \/ Close(p) \/ Shutdown(p) \/ Stopped(p) PROVE Blocked'
  BY <1>3 DEF Open, Close, Shutdown, Stopped, Blocked
<1>4. ASSUME UserStep \/ Tick \/ UNCHANGED vars PROVE Blocked'
  <2>1. UNCHANGED <<worker, authBlocked>>
    BY <1>4 DEF UserStep, LocalChange, Enqueue, CancelGone, Tick, vars
  <2>. QED  BY <2>1 DEF Blocked
<1>. QED  BY <1>1, <1>2, <1>3, <1>4, WorkerBlocked DEF PoolNext, ProcStep

\* The only poll loop of a process stops claiming once a task of its has met an expired
\* session, in the middle of a batch too, until the process starts its pool anew.
THEOREM BlockedLoopStops ==
  ASSUME OneLoop
  PROVE  PoolSpec => BlockedPoolClaimsNothing
<1>. DEFINE Still == \A w \in Workers : authBlocked[ProcOf[w]] /\ At(w, "claim") => worker'[w].pc # "lock"
<1>1. PoolInit => Blocked
  BY DEF PoolInit, Blocked, Idle
<1>2. PoolInv /\ Blocked /\ [PoolNext]_vars => Blocked'
  BY BlockedStep
<1>3. Blocked => [Still]_vars
  BY DEF Blocked, At
<1>. QED  BY <1>1, <1>2, <1>3, PoolInvariant, PTL DEF PoolSpec, BlockedPoolClaimsNothing
=============================================================================
