---------------------------- MODULE WatcherProofs ----------------------------
(***************************************************************************)
(* Theorems about Watcher, for any files, roots and bounds.                *)
(***************************************************************************)
EXTENDS Watcher, TLAPS

\* The type invariant, and what makes it inductive: a walk happens in a turn.
WatcherInv == WatcherTypeOK /\ (walked => turn # 0)

LEMMA RootIsOne ==
  ASSUME WatcherTypeOK, turn # 0
  PROVE  Root \in {RootOf[f] : f \in Files}
<1>1. turn \in 1..Len(Order)
  BY WatcherAssumption DEF WatcherTypeOK
<1>. QED  BY <1>1, WatcherAssumption DEF Root

LEMMA InitWatcherInv == Init => WatcherInv
<1>. SUFFICES ASSUME Init PROVE WatcherInv
  OBVIOUS
<1>1. 0 \in 0..MaxClock /\ 0 \in 0..MaxFaults /\ 0 \in 0..Len(Order)
  BY WatcherAssumption
<1>2. /\ disk \in [Files -> 0..MaxClock] /\ lastSeen \in [Files -> 0..MaxClock]
      /\ sent \in [Files -> 0..MaxClock]
  BY <1>1 DEF Init, Gone
<1>3. /\ pending \in [Files -> {"no", "fresh", "stable"}] /\ walked = FALSE
      /\ clock = 0 /\ faults = 0 /\ turn = 0 /\ found = {} /\ queued = {} /\ mapped = {}
  BY DEF Init
<1>. QED  BY <1>1, <1>2, <1>3 DEF WatcherInv, WatcherTypeOK

LEMMA EmitType ==
  ASSUME WatcherInv, Emit
  PROVE  WatcherInv'
<1>. USE DEF WatcherInv, WatcherTypeOK
<1>1. PICK lost \in SUBSET Stable :
        /\ lost = {} \/ faults < MaxFaults
        /\ faults' = IF lost = {} THEN faults ELSE faults + 1
        /\ sent' = [f \in Files |-> IF f \in Stable \ lost THEN lastSeen[f] ELSE sent[f]]
        /\ mapped' = mapped \cup {<<f, Root>> : f \in Stable \ lost}
        /\ queued' = QueuedAfter(Stable \ lost)
  BY DEF Emit
<1>2. faults' \in 0..MaxFaults
  BY <1>1, WatcherAssumption
<1>3. sent' \in [Files -> 0..MaxClock]
  BY <1>1
<1>4. mapped' \subseteq Files \X {RootOf[f] : f \in Files}
  <2>1. Root \in {RootOf[f] : f \in Files}
    BY RootIsOne DEF Emit
  <2>2. {<<f, Root>> : f \in Stable \ lost} \subseteq Files \X {RootOf[f] : f \in Files}
    BY <2>1 DEF Stable
  <2>. QED  BY <1>1, <2>2
<1>5. queued' \subseteq Files
  BY <1>1 DEF QueuedAfter, Stable
<1>6. /\ lastSeen' \in [Files -> 0..MaxClock]
      /\ pending' \in [Files -> {"no", "fresh", "stable"}]
  BY WatcherAssumption DEF Emit, Forget, Gone
<1>7. turn' \in 0..Len(Order)
  BY WatcherAssumption DEF Emit, NextTurn
<1>. QED  BY <1>2, <1>3, <1>4, <1>5, <1>6, <1>7 DEF Emit

LEMMA WalkType ==
  ASSUME WatcherInv, Walk
  PROVE  WatcherInv'
<1>. USE DEF WatcherInv, WatcherTypeOK
<1>1. PICK missed \in SUBSET {f \in Under(Root) : disk[f] # Gone} :
        LET seen == {f \in Under(Root) : disk[f] # Gone} \ missed IN
        /\ missed = {} \/ faults < MaxFaults
        /\ faults' = IF missed = {} THEN faults ELSE faults + 1
        /\ found' = seen
        /\ lastSeen' = [f \in Files |-> IF f \in seen /\ disk[f] > lastSeen[f]
                                        THEN disk[f] ELSE lastSeen[f]]
        /\ Noted(seen)
  BY DEF Walk
<1>2. faults' \in 0..MaxFaults
  BY SMTT(30), <1>1, WatcherAssumption
<1>3. found' \subseteq Files
  BY <1>1 DEF Under
<1>4. lastSeen' \in [Files -> 0..MaxClock]
  BY <1>1
<1>5. pending' \in [Files -> {"no", "fresh", "stable"}]
  BY <1>1 DEF Noted
<1>. QED  BY <1>2, <1>3, <1>4, <1>5 DEF Walk

LEMMA WatcherInvInductive == WatcherInv /\ [Next]_vars => WatcherInv'
<1>. SUFFICES ASSUME WatcherInv, [Next]_vars PROVE WatcherInv'
  OBVIOUS
<1>. USE DEF WatcherInv, WatcherTypeOK
<1>1. CASE StartScan
  BY <1>1, WatcherAssumption DEF StartScan
<1>2. CASE Walk
  BY <1>2, WalkType
<1>3. CASE Emit
  BY <1>3, EmitType
<1>4. ASSUME NEW f \in Files, Write(f) PROVE WatcherInv'
  <2>1. clock' \in 0..MaxClock
    BY <1>4, WatcherAssumption DEF Write
  <2>2. disk' \in [Files -> 0..MaxClock]
    BY <1>4, <2>1 DEF Write
  <2>. QED  BY <1>4, <2>1, <2>2 DEF Write
<1>5. ASSUME NEW f \in Files, Delete(f) PROVE WatcherInv'
  BY SMTT(30), <1>5, WatcherAssumption DEF Delete, Gone
<1>6. ASSUME NEW f \in Files, WorkDone(f) PROVE WatcherInv'
  BY <1>6 DEF WorkDone
<1>7. CASE UNCHANGED vars
  BY <1>7 DEF vars
<1>. QED  BY <1>1, <1>2, <1>3, <1>4, <1>5, <1>6, <1>7 DEF Next, Scan

\* The watcher's tables keep their types, for any roots and however many of them.
THEOREM WatcherTypeCorrect == Spec => []WatcherTypeOK
<1>1. WatcherInv => WatcherTypeOK
  BY DEF WatcherInv
<1>. QED  BY InitWatcherInv, WatcherInvInductive, <1>1, PTL DEF Spec
-----------------------------------------------------------------------------
\* What is pending has been seen: a deletion clears both.
PendingIsKnown == \A f \in Files : pending[f] # "no" => lastSeen[f] # Gone

QueueInv == PendingIsKnown /\ NothingQueuedForForgotten

LEMMA InitQueueInv == Init => QueueInv
BY DEF Init, QueueInv, PendingIsKnown, NothingQueuedForForgotten

LEMMA WalkQueue ==
  ASSUME WatcherInv, QueueInv, Walk
  PROVE  QueueInv'
<1>. USE DEF WatcherInv, WatcherTypeOK, QueueInv
<1>1. PICK seen \in SUBSET Files :
        /\ \A f \in seen : disk[f] # Gone
        /\ lastSeen' = [f \in Files |-> IF f \in seen /\ disk[f] > lastSeen[f]
                                        THEN disk[f] ELSE lastSeen[f]]
        /\ Noted(seen)
  BY DEF Walk, Under
<1>2. PendingIsKnown'
  BY <1>1 DEF PendingIsKnown, Noted
<1>3. NothingQueuedForForgotten'
  BY <1>1 DEF NothingQueuedForForgotten, Walk, Gone
<1>. QED  BY <1>2, <1>3

LEMMA EmitQueue ==
  ASSUME WatcherInv, QueueInv, Emit
  PROVE  QueueInv'
<1>. USE DEF WatcherInv, WatcherTypeOK, QueueInv
<1>1. PICK lost \in SUBSET Stable : queued' = QueuedAfter(Stable \ lost)
  BY DEF Emit
<1>2. PendingIsKnown'
  BY DEF PendingIsKnown, Emit, Forget, Missing
<1>3. ASSUME NEW f \in Files, lastSeen'[f] = Gone, f \in queued' PROVE FALSE
  <2>1. f \notin Missing /\ f \in queued \cup Stable
    BY <1>1, <1>3 DEF QueuedAfter
  <2>2. lastSeen[f] = Gone
    BY <1>3, <2>1 DEF Emit, Forget
  <2>. QED  BY <2>1, <2>2 DEF PendingIsKnown, NothingQueuedForForgotten, Stable
<1>. QED  BY <1>2, <1>3 DEF NothingQueuedForForgotten

LEMMA QueueInvInductive == WatcherInv /\ QueueInv /\ [Next]_vars => QueueInv'
<1>. SUFFICES ASSUME WatcherInv, QueueInv, [Next]_vars PROVE QueueInv'
  OBVIOUS
<1>. USE DEF WatcherInv, WatcherTypeOK, QueueInv, PendingIsKnown, NothingQueuedForForgotten
<1>1. CASE StartScan
  BY <1>1 DEF StartScan
<1>2. CASE Walk
  BY <1>2, WalkQueue
<1>3. CASE Emit
  BY <1>3, EmitQueue
<1>4. ASSUME NEW f \in Files, Write(f) \/ Delete(f) \/ WorkDone(f) PROVE QueueInv'
  BY <1>4 DEF Write, Delete, WorkDone
<1>5. CASE UNCHANGED vars
  BY <1>5 DEF vars
<1>. QED  BY <1>1, <1>2, <1>3, <1>4, <1>5 DEF Next, Scan

\* No upload stays queued for a file the watcher has found deleted, although roots
\* take turns with one set of pending changes and files come and go between a walk
\* and the emission that follows it.
THEOREM ForgottenAreNotQueued == Spec => []NothingQueuedForForgotten
<1>1. QueueInv => NothingQueuedForForgotten
  BY DEF QueueInv
<1>. QED  BY InitWatcherInv, WatcherInvInductive, InitQueueInv, QueueInvInductive, <1>1, PTL DEF Spec
-----------------------------------------------------------------------------
\* Modification times only grow, and as long as no walk missed a file what is on
\* disk or pending without having been requested is newer than what was requested.
NewerThanSent ==
  /\ \A f \in Files : disk[f] <= clock /\ lastSeen[f] <= clock /\ sent[f] <= clock
  /\ faults = 0 =>
       \A f \in Files :
         /\ pending[f] # "no" => lastSeen[f] > sent[f]
         /\ disk[f] > lastSeen[f] => disk[f] > sent[f]
         /\ walked /\ f \in Under(Root) \ found /\ disk[f] # Gone =>
              disk[f] > lastSeen[f] /\ disk[f] > sent[f]

LEMMA InitNewer == Init => NewerThanSent
BY DEF Init, NewerThanSent, Gone

LEMMA WalkNewer ==
  ASSUME WatcherInv, NewerThanSent, Walk
  PROVE  NewerThanSent'
<1>. USE DEF WatcherInv, WatcherTypeOK
<1>1. PICK missed \in SUBSET {f \in Under(Root) : disk[f] # Gone} :
        LET seen == {f \in Under(Root) : disk[f] # Gone} \ missed IN
        /\ faults' = IF missed = {} THEN faults ELSE faults + 1
        /\ found' = seen
        /\ lastSeen' = [f \in Files |-> IF f \in seen /\ disk[f] > lastSeen[f]
                                        THEN disk[f] ELSE lastSeen[f]]
        /\ Noted(seen)
  BY DEF Walk
<1>2. \A f \in Files : disk'[f] <= clock' /\ lastSeen'[f] <= clock' /\ sent'[f] <= clock'
  BY <1>1, WatcherAssumption DEF Walk, NewerThanSent
<1>3. ASSUME faults' = 0 PROVE faults = 0 /\ missed = {}
  BY <1>1, <1>3, WatcherAssumption
<1>4. ASSUME faults' = 0, NEW f \in Files
      PROVE  /\ pending'[f] # "no" => lastSeen'[f] > sent'[f]
             /\ disk'[f] > lastSeen'[f] => disk'[f] > sent'[f]
  BY <1>1, <1>3, <1>4, WatcherAssumption DEF NewerThanSent, Noted, Walk
<1>5. ASSUME faults' = 0, NEW f \in Files, f \in Under(Root) \ found', disk[f] # Gone
      PROVE  FALSE
  BY <1>1, <1>3, <1>5
<1>6. Under(Root)' = Under(Root) /\ disk' = disk
  BY DEF Walk, Under, Root
<1>. QED  BY <1>2, <1>4, <1>5, <1>6 DEF NewerThanSent

LEMMA EmitNewer ==
  ASSUME WatcherInv, QueueInv, NewerThanSent, Emit
  PROVE  NewerThanSent'
<1>. USE DEF WatcherInv, WatcherTypeOK
<1>1. PICK lost \in SUBSET Stable :
        /\ faults' = IF lost = {} THEN faults ELSE faults + 1
        /\ sent' = [f \in Files |-> IF f \in Stable \ lost THEN lastSeen[f] ELSE sent[f]]
  BY DEF Emit
<1>2. /\ lastSeen' = [f \in Files |-> IF f \in Missing THEN Gone ELSE lastSeen[f]]
      /\ pending' = [f \in Files |-> IF f \in Missing \cup Stable THEN "no" ELSE pending[f]]
      /\ disk' = disk /\ clock' = clock /\ ~walked' /\ walked
  BY DEF Emit, Forget
<1>3. \A f \in Files : disk'[f] <= clock' /\ lastSeen'[f] <= clock' /\ sent'[f] <= clock'
  BY <1>1, <1>2, WatcherAssumption DEF NewerThanSent, Gone
<1>4. ASSUME faults' = 0 PROVE faults = 0 /\ lost = {}
  BY <1>1, <1>4, WatcherAssumption
<1>5. ASSUME faults' = 0, NEW f \in Files, pending'[f] # "no" PROVE lastSeen'[f] > sent'[f]
  BY <1>1, <1>2, <1>4, <1>5 DEF NewerThanSent
<1>6. ASSUME faults' = 0, NEW f \in Files, disk[f] > lastSeen'[f] PROVE disk[f] > sent'[f]
  <2>1. CASE f \in Missing
    <3>1. f \in Under(Root) \ found /\ disk[f] # Gone
      BY <1>2, <1>6, <2>1 DEF Missing, Gone
    <3>. QED  BY <1>1, <1>2, <1>4, <1>6, <3>1 DEF NewerThanSent
  <2>2. CASE f \notin Missing
    BY <1>1, <1>2, <1>4, <1>6, <2>2 DEF NewerThanSent
  <2>. QED  BY <2>1, <2>2
<1>. QED  BY <1>2, <1>3, <1>5, <1>6 DEF NewerThanSent

LEMMA NewerInductive == WatcherInv /\ QueueInv /\ NewerThanSent /\ [Next]_vars => NewerThanSent'
<1>. SUFFICES ASSUME WatcherInv, QueueInv, NewerThanSent, [Next]_vars PROVE NewerThanSent'
  OBVIOUS
<1>. USE DEF WatcherInv, WatcherTypeOK
<1>1. CASE StartScan
  BY <1>1 DEF StartScan, NewerThanSent, Under, Root
<1>2. CASE Walk
  BY <1>2, WalkNewer
<1>3. CASE Emit
  BY <1>3, EmitNewer
<1>4. ASSUME NEW f \in Files, Write(f) PROVE NewerThanSent'
  <2>1. /\ clock' = clock + 1 /\ disk' = [disk EXCEPT ![f] = clock']
        /\ UNCHANGED <<lastSeen, sent, pending, walked, found, faults, turn>>
    BY <1>4 DEF Write
  <2>2. \A g \in Files : disk'[g] = IF g = f THEN clock + 1 ELSE disk[g]
    BY <2>1
  <2>3. \A g \in Files : lastSeen[g] < clock + 1 /\ sent[g] < clock + 1 /\ disk[g] < clock + 1
    <3>. SUFFICES ASSUME NEW g \in Files
                  PROVE  lastSeen[g] < clock + 1 /\ sent[g] < clock + 1 /\ disk[g] < clock + 1
      OBVIOUS
    <3>1. clock \in Nat /\ disk[g] \in Nat /\ lastSeen[g] \in Nat /\ sent[g] \in Nat
      BY WatcherAssumption
    <3>2. disk[g] <= clock /\ lastSeen[g] <= clock /\ sent[g] <= clock
      BY DEF NewerThanSent
    <3>. QED  BY <3>1, <3>2
  <2>4. ASSUME NEW g \in Files
        PROVE  disk'[g] <= clock' /\ lastSeen'[g] <= clock' /\ sent'[g] <= clock'
    <3>1. clock \in Nat /\ disk[g] \in Nat /\ lastSeen[g] \in Nat /\ sent[g] \in Nat
      BY WatcherAssumption
    <3>2. disk[g] <= clock /\ lastSeen[g] <= clock /\ sent[g] <= clock
      BY DEF NewerThanSent
    <3>. QED  BY <2>1, <2>2, <3>1, <3>2
  <2>5. ASSUME faults' = 0, NEW g \in Files PROVE pending'[g] # "no" => lastSeen'[g] > sent'[g]
    BY <2>1, <2>5 DEF NewerThanSent
  <2>6. ASSUME faults' = 0, NEW g \in Files PROVE disk'[g] > lastSeen'[g] => disk'[g] > sent'[g]
    BY <2>1, <2>2, <2>3, <2>6 DEF NewerThanSent
  <2>7. ASSUME faults' = 0, NEW g \in Files, walked, g \in Under(Root) \ found, disk'[g] # Gone
        PROVE  disk'[g] > lastSeen'[g] /\ disk'[g] > sent'[g]
    BY <2>1, <2>2, <2>3, <2>7 DEF NewerThanSent
  <2>8. Under(Root)' = Under(Root)
    BY <2>1 DEF Under, Root
  <2>. QED  BY <2>1, <2>4, <2>5, <2>6, <2>7, <2>8 DEF NewerThanSent
<1>5. ASSUME NEW f \in Files, Delete(f) PROVE NewerThanSent'
  <2>1. /\ disk' = [disk EXCEPT ![f] = Gone]
        /\ UNCHANGED <<clock, lastSeen, sent, pending, walked, found, faults, turn>>
    BY <1>5 DEF Delete
  <2>2. \A g \in Files : disk'[g] = IF g = f THEN 0 ELSE disk[g]
    BY <2>1 DEF Gone
  <2>3. \A g \in Files : ~ (0 > lastSeen[g])
    BY WatcherAssumption
  <2>4. \A g \in Files : disk'[g] <= clock' /\ lastSeen'[g] <= clock' /\ sent'[g] <= clock'
    BY <2>1, <2>2, WatcherAssumption DEF NewerThanSent
  <2>5. ASSUME faults' = 0, NEW g \in Files
        PROVE  /\ pending'[g] # "no" => lastSeen'[g] > sent'[g]
               /\ disk'[g] > lastSeen'[g] => disk'[g] > sent'[g]
    BY <2>1, <2>2, <2>3, <2>5 DEF NewerThanSent
  <2>6. ASSUME faults' = 0, NEW g \in Files, walked, g \in Under(Root) \ found, disk'[g] # Gone
        PROVE  disk'[g] > lastSeen'[g] /\ disk'[g] > sent'[g]
    BY <2>1, <2>2, <2>6 DEF NewerThanSent, Gone
  <2>7. Under(Root)' = Under(Root)
    BY <2>1 DEF Under, Root
  <2>. QED  BY <2>1, <2>4, <2>5, <2>6, <2>7 DEF NewerThanSent
<1>6. ASSUME NEW f \in Files, WorkDone(f) PROVE NewerThanSent'
  BY <1>6 DEF WorkDone, NewerThanSent, Under, Root
<1>7. CASE UNCHANGED vars
  BY <1>7 DEF vars, NewerThanSent, Under, Root
<1>. QED  BY <1>1, <1>2, <1>3, <1>4, <1>5, <1>6, <1>7 DEF Next, Scan

LEMMA NewRequestIsNewer ==
  ASSUME WatcherInv, QueueInv, NewerThanSent, [Next]_vars,
         faults' = 0, NEW f \in Files, f \in queued' \ queued
  PROVE  sent'[f] > sent[f]
<1>. USE DEF WatcherInv, WatcherTypeOK
<1>1. Emit
  BY DEF Next, Scan, StartScan, Walk, Write, Delete, WorkDone, vars
<1>2. PICK lost \in SUBSET Stable :
        /\ faults' = IF lost = {} THEN faults ELSE faults + 1
        /\ sent' = [g \in Files |-> IF g \in Stable \ lost THEN lastSeen[g] ELSE sent[g]]
        /\ queued' = QueuedAfter(Stable \ lost)
  BY <1>1 DEF Emit
<1>3. faults = 0 /\ f \in Stable \ lost
  BY <1>2, WatcherAssumption DEF QueuedAfter
<1>. QED  BY <1>2, <1>3 DEF NewerThanSent, Stable

\* Every request after the first one of a file is for a change made since, whatever
\* is written, deleted and written again while the roots take their turns.
THEOREM OneRequestEach == Spec => OneRequestPerChange
<1>1. WatcherInv /\ QueueInv /\ NewerThanSent /\ [Next]_vars =>
        [faults' = 0 => \A f \in Files : f \in queued' \ queued => sent'[f] > sent[f]]_vars
  BY NewRequestIsNewer
<1>. QED  BY InitWatcherInv, WatcherInvInductive, InitQueueInv, QueueInvInductive,
             InitNewer, NewerInductive, <1>1, PTL DEF Spec, OneRequestPerChange
=============================================================================
