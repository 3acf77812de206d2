------------------------- MODULE MCDurableGovernance -------------------------
(***************************************************************************)
(* Instances of DurableGovernance.  The calls cover every control and      *)
(* every RESULT with and without the arguments that change its effect; one *)
(* configuration has two tasks of one step, the other one task of two      *)
(* steps.                                                                  *)
(***************************************************************************)
EXTENDS DurableGovernance, TLC

CONSTANTS t1, t2, s1, s2, a1, r1, r2

OneTask == {t1}
TwoTasks == {t1, t2}
OneStep == {s1}
TwoSteps == {s1, s2}
MCAccepts == {a1}
MCRoots == {r1, r2}

Bare(control, task) ==
    [control |-> control, task |-> task, step |-> NoStep, route |-> "none",
     contract |-> FALSE, need |-> {}, drop |-> {}]

With(x, root) == [call |-> x, root |-> root]
PlanTask == {With([Bare("PLAN", t) EXCEPT !.route = "direct"], r1) : t \in Tasks}
IssueStep == {With([Bare("TASK", NoTask) EXCEPT !.step = i, !.contract = TRUE, !.need = Accepts],
                   NoRoot) : i \in Steps}
ReviseStep == {With([Bare("REVISE", NoTask) EXCEPT !.step = i, !.drop = Accepts], NoRoot)
                   : i \in Steps}
Plain(controls) == {With(Bare(k, NoTask), NoRoot) : k \in controls}

\* Sessions that fight for a task: the controls that start, authorize and finish it.
FencingControls == PlanTask \cup IssueStep \cup Plain({"DONE"})
\* One session that drives a task through every control.
LifecycleControls ==
    PlanTask \cup IssueStep \cup ReviseStep \cup Plain({"REPLAN", "DONE", "ASK_USER", "PUBLISH"})
    \cup {With([Bare("TASK", NoTask) EXCEPT !.route = "codex"], NoRoot)}

Success(t, i) == [task |-> t, step |-> i, status |-> "success", proven |-> TRUE,
                  evidence |-> [a \in Accepts |-> "pass"], changed |-> "omitted",
                  publication |-> "none"]
FencingResults == {Success(t, i) : t \in Tasks, i \in Steps}
LifecycleResults ==
    {Success(NoTask, i) : i \in Steps}
    \cup {[Success(NoTask, i) EXCEPT !.status = "failed", !.proven = FALSE, !.changed = "yes",
                                     !.publication = "ready"] : i \in Steps}
    \cup {[Success(NoTask, i) EXCEPT !.status = "unknown", !.proven = FALSE] : i \in Steps}

Symmetry == Permutations(Tasks) \cup Permutations(Steps)
=============================================================================
