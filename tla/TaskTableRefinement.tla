------------------------ MODULE TaskTableRefinement ------------------------
(***************************************************************************)
(* The task table implements TaskSlots: a slot is running when a row of    *)
(* its key is, waiting when a row of its key is active, idle otherwise.    *)
(***************************************************************************)
EXTENDS TaskTable

SlotKey(r) == [root |-> r.root, op |-> r.op, rp |-> r.rp]

Slots == {SlotKey(t) : t \in Targets}

HasRow(s, S) == \E i \in Ids : tasks[i].status \in S /\ SlotKey(tasks[i]) = s

SlotOf(s) ==
  IF HasRow(s, {"running"}) THEN "running"
  ELSE IF HasRow(s, Active) THEN "waiting"
  ELSE "idle"

SlotMap == [s \in Slots |-> SlotOf(s)]

Abstract == INSTANCE TaskSlots WITH slot <- SlotMap

\* Every step of the table is a step of the promise, or none: a request is
\* never dropped by a merge, a claim or a recovery, and no statement starts a
\* second task on a path that is being worked on.
ImplementsSlots == Abstract!Spec
=============================================================================
