-------------------------------- MODULE MCTasks --------------------------------
(* What executes tasks: the Codex executor, with one call at a time, and the  *)
(* two legacy drivers.  They meet none of each other's variables, so that a   *)
(* behaviour is a scene, as in MCHost.                                        *)
EXTENDS MCCodexExecutor, LegacyTask, DirectRun, Sequences

CONSTANTS k1, k2, k3   \* controls of the Direct run

VARIABLE scene   \* the component that moves

\* The step ids that the legacy service makes up without a plan
MCLoose == [n \in 0 .. MaxRounds |-> "step-" \o ToString(n + 1)]

TasksInit == /\ Init /\ LegacyInit /\ DirectInit
             /\ scene \in {"executor", "legacy", "direct"}

ExecutorScene == scene = "executor" /\ Next /\ UNCHANGED <<legacyVars, directVars, scene>>
LegacyScene == scene = "legacy" /\ LegacyNext /\ UNCHANGED <<xvars, directVars, scene>>
DirectScene == scene = "direct" /\ DirectNext /\ UNCHANGED <<xvars, legacyVars, scene>>

TasksNext == ExecutorScene \/ LegacyScene \/ DirectScene
TasksSpec == TasksInit /\ [][TasksNext]_<<xvars, legacyVars, directVars, scene>>

TasksSymmetry == Symmetry \cup Permutations(ControlIds)
=============================================================================
