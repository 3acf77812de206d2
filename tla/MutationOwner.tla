---------------------------- MODULE MutationOwner ----------------------------
(***************************************************************************)
(* src/state/mutation-owner.js: who may write to the workspace now.  It is *)
(* one in-memory record, so acquire, markUnitState and release are         *)
(* functions from record to record; acquire throws unless CanAcquire.      *)
(***************************************************************************)
CONSTANT NoUnit

Owners == {"none", "chatgpt", "codex"}
UnitStates == {"none", "running", "reconciled", "unknown"}
Free == [who |-> "none", unit |-> NoUnit, st |-> "none"]

\* A second acquire of the running unit is idempotent; another unit of the same owner
\* waits until the current one is reconciled.
CanAcquireMutant(o, who, u) == o.who \in {"none", who}
CanAcquire(o, who, u) ==
    \/ o.who = "none"
    \/ /\ o.who = who
       /\ IF o.unit = u THEN o.st = "running" ELSE o.st = "reconciled"
Acquired(who, u) == [who |-> who, unit |-> u, st |-> "running"]

\* markUnitState, as its callers use it: only while there is an owner.
Marked(o, st) == IF o.who = "none" THEN o ELSE [o EXCEPT !.st = st]

\* markUnitState('reconciled') and release() by the caller whose unit is u
ReleasedBy(o, who, u) == IF o.who = who /\ o.unit = u THEN Free ELSE o
=============================================================================
