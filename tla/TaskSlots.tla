------------------------------ MODULE TaskSlots ------------------------------
(***************************************************************************)
(* What the task queue promises, without rows, attempts or time.           *)
(*                                                                         *)
(* Each (root, operation, remote path) is one slot.  A slot is idle (no    *)
(* work is owed), waiting (work is owed and nobody may be doing it) or     *)
(* running (the work is being done).  Two slots of the same root and       *)
(* remote path are never running together, and work that is owed           *)
(* disappears only by being settled.                                       *)
(***************************************************************************)
CONSTANT Slots    \* a set of [root, op, rp] records

VARIABLE slot

Phases == {"idle", "waiting", "running"}

TypeOK == slot \in [Slots -> Phases]

Contend(s, u) == s.root = u.root /\ s.rp = u.rp

Init == slot = [s \in Slots |-> "idle"]

\* Move every slot of S to phase p.
Move(S, p) == slot' = [s \in Slots |-> IF s \in S THEN p ELSE slot[s]]

\* Work is owed for s: a request, or a finished row found to need reconciling.
Submit(s) == slot[s] = "idle" /\ Move({s}, "waiting")

\* One worker starts on s, alone on its remote path.
Start(s) ==
  /\ slot[s] = "waiting"
  /\ \A u \in Slots : Contend(s, u) => slot[u] # "running"
  /\ Move({s}, "running")

\* The work in S is settled: done, failed or cancelled.
Settle(S) == S # {} /\ (\A s \in S : slot[s] # "idle") /\ Move(S, "idle")

\* The work in S must be done again: retried, blocked or recovered.
Return(S) == S # {} /\ (\A s \in S : slot[s] = "running") /\ Move(S, "waiting")

Next ==
  \/ \E s \in Slots : Submit(s) \/ Start(s)
  \/ \E S \in SUBSET Slots : Settle(S) \/ Return(S)

Spec == Init /\ [][Next]_slot

\* Two slots that share a remote path are never running together.
Exclusive ==
  \A s, u \in Slots :
    slot[s] = "running" /\ slot[u] = "running" /\ Contend(s, u) => s = u
=============================================================================
