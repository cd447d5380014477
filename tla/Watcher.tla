------------------------------- MODULE Watcher -------------------------------
(***************************************************************************)
(* The directory watcher (internal/watch): scan walks the roots one after  *)
(* the other, notes modification times, and when a change has been stable  *)
(* for the debounce period asks for an upload through taskFn; a file it    *)
(* knew and no longer finds is reported to delFn, which cancels what is    *)
(* queued for it.                                                          *)
(*                                                                         *)
(* A file is its modification time, taken from one clock that every write  *)
(* advances.  A walk is atomic, but files change between the walk of a     *)
(* root and the rest of its turn.  The poll interval (2 s) is longer than  *)
(* the debounce period (500 ms), so a change noted in one scan is stable   *)
(* in the next one, and never earlier.                                     *)
(***************************************************************************)
EXTENDS Naturals, Sequences, FiniteSets

CONSTANTS
  Files,       \* local files
  Order,       \* the roots, in the order they were added
  RootOf,      \* the root each file lies under
  MaxClock,    \* bound: writes
  MaxFaults    \* bound: walks that miss a file, enqueues that fail

ASSUME WatcherAssumption ==
  /\ Order \in Seq({RootOf[f] : f \in Files}) /\ Len(Order) > 0
  /\ MaxClock \in Nat /\ MaxFaults \in Nat

VARIABLES
  disk,      \* disk[f]: modification time, or Gone
  clock,     \* time of the last write
  lastSeen,  \* lastSeen[f]: modification time noted, or Gone if unknown
  pending,   \* pending[f]: no, fresh (noted in this scan) or stable
  turn,      \* the root whose turn it is, 0 between scans
  walked,    \* that root has been walked
  found,     \* files this root's walk found
  sent,      \* sent[f]: modification time noted when f was last requested
  queued,    \* files requested and not cancelled or done since
  mapped,    \* the pairs <<f, r>> such that f was requested with r's remote path
  faults

vars == <<disk, clock, lastSeen, pending, turn, walked, found, sent, queued, mapped, faults>>

Gone == 0
Root == Order[turn]
Under(r) == {f \in Files : RootOf[f] = r}

WatcherTypeOK ==
  /\ clock \in 0..MaxClock /\ faults \in 0..MaxFaults
  /\ disk \in [Files -> 0..MaxClock]
  /\ lastSeen \in [Files -> 0..MaxClock]
  /\ pending \in [Files -> {"no", "fresh", "stable"}]
  /\ turn \in 0..Len(Order) /\ walked \in BOOLEAN
  /\ found \subseteq Files /\ queued \subseteq Files
  /\ sent \in [Files -> 0..MaxClock]
  /\ mapped \subseteq Files \X {RootOf[f] : f \in Files}
-----------------------------------------------------------------------------
Init ==
  /\ disk = [f \in Files |-> Gone] /\ clock = 0
  /\ lastSeen = [f \in Files |-> Gone]
  /\ pending = [f \in Files |-> "no"]
  /\ turn = 0 /\ walked = FALSE /\ found = {}
  /\ sent = [f \in Files |-> Gone] /\ queued = {} /\ mapped = {}
  /\ faults = 0

\* A tick: what was noted in an earlier scan has now been stable long enough.
StartScan ==
  /\ turn = 0
  /\ turn' = 1
  /\ pending' = [f \in Files |-> IF pending[f] = "fresh" THEN "stable" ELSE pending[f]]
  /\ UNCHANGED <<disk, clock, lastSeen, walked, found, sent, queued, mapped, faults>>

\* Mutant: a later change does not restart the debounce.
NotedOnce(seen) ==
  pending' = [f \in Files |-> IF f \in seen /\ lastSeen[f] = Gone THEN "fresh" ELSE pending[f]]

\* A file seen for the first time, or newer than noted, is pending from now on.
Noted(seen) ==
  pending' = [f \in Files |-> IF f \in seen /\ disk[f] > lastSeen[f] THEN "fresh" ELSE pending[f]]

\* WalkDir over one root; a file whose directory or attributes cannot be read is
\* skipped without a word.
Walk ==
  LET there == {f \in Under(Root) : disk[f] # Gone} IN
  /\ turn # 0 /\ ~walked
  /\ walked' = TRUE
  /\ \E missed \in SUBSET there :
       LET seen == there \ missed IN
       /\ missed = {} \/ faults < MaxFaults
       /\ faults' = IF missed = {} THEN faults ELSE faults + 1
       /\ found' = seen
       /\ lastSeen' = [f \in Files |-> IF f \in seen /\ disk[f] > lastSeen[f]
                                       THEN disk[f] ELSE lastSeen[f]]
       /\ Noted(seen)
  /\ UNCHANGED <<disk, clock, turn, sent, queued, mapped>>

\* The stable files: every root's turn emits those of all roots.
Stable == {f \in Files : pending[f] = "stable"}

\* Mutant: deletions are looked for among the pending changes only.
MissingPending == {f \in Under(Root) \ found : lastSeen[f] # Gone /\ pending[f] # "no"}

\* Files of this root that were known and not found.
Missing == {f \in Under(Root) \ found : lastSeen[f] # Gone}

\* Mutant: an emitted change stays pending.
ForgetKeepingEmitted(gone, emitted) ==
  /\ lastSeen' = [f \in Files |-> IF f \in gone THEN Gone ELSE lastSeen[f]]
  /\ pending' = [f \in Files |-> IF f \in gone THEN "no" ELSE pending[f]]

Forget(gone, emitted) ==
  /\ lastSeen' = [f \in Files |-> IF f \in gone THEN Gone ELSE lastSeen[f]]
  /\ pending' = [f \in Files |-> IF f \in gone \cup emitted THEN "no" ELSE pending[f]]

\* Mutant: deletions are detected before the stable files are emitted.
QueuedDeletionsFirst(kept) == (queued \ Missing) \cup kept

\* The queue after a turn that requested the files in kept and cancelled the missing.
QueuedAfter(kept) == (queued \cup kept) \ Missing

\* Mutant: the loop over the roots does not end.
NextTurnEndless == turn + 1

NextTurn == IF turn = Len(Order) THEN 0 ELSE turn + 1

\* The rest of a root's turn, under the mutex: taskFn for the stable files, with
\* this root's remote path, then delFn for the missing ones.  A failing enqueue is
\* only logged.
Emit ==
  /\ turn # 0 /\ walked
  /\ \E lost \in SUBSET Stable :
       LET kept == Stable \ lost IN
       /\ lost = {} \/ faults < MaxFaults
       /\ faults' = IF lost = {} THEN faults ELSE faults + 1
       /\ sent' = [f \in Files |-> IF f \in kept THEN lastSeen[f] ELSE sent[f]]
       /\ mapped' = mapped \cup {<<f, Root>> : f \in kept}
       /\ queued' = QueuedAfter(kept)
  /\ Forget(Missing, Stable)
  /\ turn' = NextTurn
  /\ walked' = FALSE /\ found' = {}
  /\ UNCHANGED <<disk, clock>>
-----------------------------------------------------------------------------
\* The user writes or deletes a file; a worker finishes with one.
Write(f) ==
  /\ clock < MaxClock
  /\ clock' = clock + 1 /\ disk' = [disk EXCEPT ![f] = clock']
  /\ UNCHANGED <<lastSeen, pending, turn, walked, found, sent, queued, mapped, faults>>

Delete(f) ==
  /\ disk[f] # Gone
  /\ disk' = [disk EXCEPT ![f] = Gone]
  /\ UNCHANGED <<clock, lastSeen, pending, turn, walked, found, sent, queued, mapped, faults>>

WorkDone(f) ==
  /\ f \in queued
  /\ queued' = queued \ {f}
  /\ UNCHANGED <<disk, clock, lastSeen, pending, turn, walked, found, sent, mapped, faults>>

Scan == StartScan \/ Walk \/ Emit

Next == Scan \/ \E f \in Files : Write(f) \/ Delete(f) \/ WorkDone(f)

Spec == Init /\ [][Next]_vars

\* The poll loop keeps scanning.
FairSpec == Spec /\ WF_vars(Scan)
-----------------------------------------------------------------------------
\* The watcher never has an upload queued for a file it has found deleted: delFn
\* runs after taskFn in a turn, and a deletion clears the pending change.
NothingQueuedForForgotten ==
  \A f \in Files : lastSeen[f] = Gone => f \notin queued

\* As long as no walk missed a file, a file is requested again only for a change
\* made after the one last requested, although every root's turn looks at the same
\* pending changes.  (A missed file counts as deleted, so it is requested anew.)
OneRequestPerChange ==
  [][faults' = 0 => \A f \in Files : f \in queued' \ queued => sent'[f] > sent[f]]_vars

\* With readable directories and a working store every version of a file that
\* stays on disk is requested, however its changes fall between walks and turns.
EveryVersionRequested ==
  \A f \in Files, t \in 1..MaxClock :
    [](faults = 0) => (disk[f] = t ~> (sent[f] = t \/ disk[f] # t))

\* A file that stays deleted is forgotten, so that it counts as new when it returns.
DeletionNoticed ==
  \A f \in Files : disk[f] = Gone ~> (lastSeen[f] = Gone \/ disk[f] # Gone)

\* Every file is uploaded to the remote path of its own root.
UploadedUnderOwnRoot == \A m \in mapped : m[2] = RootOf[m[1]]
=============================================================================
