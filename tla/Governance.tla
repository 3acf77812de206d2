------------------------------ MODULE Governance ------------------------------
(***************************************************************************)
(* src/governance/index.js: the task lifecycle that Brain controls and     *)
(* executor RESULTs drive.  The service is one synchronous object, so each *)
(* of its operations is a function from its state to its state.  History,  *)
(* hand-off envelopes, plan revisions and the proof ledger are left out:   *)
(* no decision of the service reads them.                                  *)
(***************************************************************************)
CONSTANTS Tasks, Steps, Accepts,   \* task, step and acceptance identifiers
          NoTask, NoStep,          \* null identifiers
          AllowPublish             \* the allowPublish option

ASSUME NullAssumption == NoTask \notin Tasks /\ NoStep \notin Steps
ASSUME PublishAssumption == AllowPublish \in BOOLEAN

Controls == {"PLAN", "REPLAN", "TASK", "REVISE", "ASK_USER", "PUBLISH", "DONE"}
\* A route either executes locally under ChatGPT or is delegated to Codex; HYBRID
\* is one or the other by its localRoute.
Routes == {"none", "direct", "codex"}
\* The control field before the first control of a task.
NoControl == "none"

(***************************************************************************)
(* A step: the executor's status, the machine gate, Brain acceptance, the  *)
(* required acceptance ids, the status of the evidence for each id and     *)
(* whether a RESULT reported changed files.                                *)
(***************************************************************************)
StepRecord == [issued : BOOLEAN,
               status : {"unknown", "success", "failed"},
               gate : {"pending", "pass", "fail"},
               brain : {"pending", "accepted", "revise"},
               need : SUBSET Accepts,
               evidence : [Accepts -> {"none", "fail", "pass"}],
               changed : BOOLEAN]
NewStep(need) == [issued |-> TRUE, status |-> "unknown", gate |-> "pending",
                  brain |-> "pending", need |-> need,
                  evidence |-> [a \in Accepts |-> "none"], changed |-> FALSE]
Unissued == [NewStep({}) EXCEPT !.issued = FALSE]

FreshState == [task |-> NoTask, control |-> NoControl, route |-> "none",
               cur |-> NoStep, steps |-> [i \in Steps |-> Unissued],
               awaiting |-> FALSE, pubRequired |-> FALSE, published |-> FALSE]

State == [task : Tasks \cup {NoTask}, control : Controls \cup {NoControl},
          route : Routes, cur : Steps \cup {NoStep},
          steps : [Steps -> StepRecord],
          awaiting : BOOLEAN, pubRequired : BOOLEAN, published : BOOLEAN]

(***************************************************************************)
(* A Brain control.  contract tells whether it carries an acceptance       *)
(* contract and need is the contract's required ids; drop is what REVISE   *)
(* invalidates and does not preserve.                                      *)
(***************************************************************************)
Control == [control : Controls, task : Tasks \cup {NoTask}, step : Steps \cup {NoStep},
            route : Routes, contract : BOOLEAN, need : SUBSET Accepts, drop : SUBSET Accepts]
NeedOf(c, default) == IF c.contract THEN c.need ELSE default

Terminal(s) == s.control = "DONE"
Issued(s, i) == i # NoStep /\ s.steps[i].issued

\* _stepHardOk: the executor succeeded and the machine gate passed.
StepHardOk(s, i) == Issued(s, i) /\ s.steps[i].status = "success" /\ s.steps[i].gate = "pass"

\* _computeMachineGate: every required acceptance id has passing evidence.
MachineGate(need, evidence) ==
    IF \A a \in need : evidence[a] = "pass" THEN "pass" ELSE "fail"

\* A step that already has a RESULT.
HasResult(st) == \/ st.status # "unknown" \/ st.gate # "pending"
                 \/ \E a \in Accepts : st.evidence[a] # "none"
                 \/ st.changed

----------------------------------------------------------------------------
\* A control that names another task than the bound one.
Switches(s, c) == c.task # NoTask /\ s.task # NoTask /\ c.task # s.task

\* Rejections before anything is assigned: a task switch away from the terminal
\* DONE + PLAN boundary, no task at all, or a control after DONE.
RejectedEarly(s, c) ==
    \/ Switches(s, c) /\ ~(Terminal(s) /\ c.control = "PLAN")
    \/ c.task = NoTask /\ s.task = NoTask
    \/ ~Switches(s, c) /\ Terminal(s) /\ c.control # "DONE"

\* _resetTask or _bindTask, then the route fields.
Bind(s, c) ==
    LET b == IF Switches(s, c) THEN [FreshState EXCEPT !.task = c.task]
             ELSE IF s.task = NoTask THEN [s EXCEPT !.task = c.task] ELSE s
    IN  IF c.route = "none" THEN b ELSE [b EXCEPT !.route = c.route]

Advances(s, c) == s.cur # NoStep /\ c.step # s.cur

\* Rejections after the task is bound and the route is assigned.
RejectedLate(s, c) ==
    \/ c.control \in {"TASK", "REVISE"} /\ c.step = NoStep
    \/ c.control = "TASK" /\ Advances(s, c) /\ ~StepHardOk(s, s.cur)

\* What a late rejection leaves behind in the service.
LeftBehind(s, c) ==
    LET b == Bind(s, c) IN IF c.control = "TASK" THEN [b EXCEPT !.awaiting = FALSE] ELSE b

----------------------------------------------------------------------------
\* PLAN and REPLAN
Plan(b) == [b EXCEPT !.awaiting = FALSE]

\* TASK: accept the prior step by advancing; issue the step, or re-issue it while
\* it has no RESULT.
TaskControlMutant(b, c) ==
    LET steps1 == IF Advances(b, c) THEN [b.steps EXCEPT ![b.cur].brain = "accepted"]
                  ELSE b.steps
    IN  [b EXCEPT !.awaiting = FALSE, !.cur = c.step,
                  !.steps = [steps1 EXCEPT ![c.step] = NewStep(NeedOf(c, {}))]]
TaskControl(b, c) ==
    LET steps1 == IF Advances(b, c) THEN [b.steps EXCEPT ![b.cur].brain = "accepted"]
                  ELSE b.steps
        old == steps1[c.step]
        new == IF ~old.issued THEN NewStep(NeedOf(c, {}))
               ELSE IF HasResult(old) THEN old
               ELSE [old EXCEPT !.need = NeedOf(c, @), !.brain = "pending"]
    IN  [b EXCEPT !.awaiting = FALSE, !.cur = c.step, !.steps = [steps1 EXCEPT ![c.step] = new]]

\* REVISE: the step becomes current and executable again; evidence for the
\* invalidated acceptance ids is dropped.
Revise(b, c) ==
    LET old == IF Issued(b, c.step) THEN b.steps[c.step] ELSE NewStep(NeedOf(c, {}))
        need == NeedOf(c, old.need)
        new == [old EXCEPT !.need = need, !.brain = "revise",
                           !.status = "unknown", !.gate = "pending",
                           !.evidence = [a \in Accepts |->
                                IF a \in c.drop \cap need THEN "none" ELSE @[a]]]
    IN  [b EXCEPT !.cur = c.step, !.steps[c.step] = new]

AskUser(b) == [b EXCEPT !.awaiting = TRUE]

\* PUBLISH is blocked unless the current step is ready and publishing is allowed.
Publish(b) ==
    LET p == [b EXCEPT !.awaiting = FALSE]
    IN  IF StepHardOk(b, b.cur) /\ AllowPublish
        THEN [p EXCEPT !.steps[b.cur].brain = "accepted", !.pubRequired = TRUE]
        ELSE p

\* DONE needs the current step's gates and, once required, the publication.
DoneReady(b) == StepHardOk(b, b.cur) /\ (b.pubRequired => b.published)
Done(b) ==
    LET d == [b EXCEPT !.awaiting = FALSE]
    IN  IF DoneReady(b)
        THEN [d EXCEPT !.steps[b.cur].brain = "accepted", !.control = "DONE"]
        ELSE d

\* transition(), for a control that is not rejected.  A repeated DONE on a terminal
\* task returns at once; a blocked DONE keeps the control.
Transition(s, c) ==
    LET b == Bind(s, c)
        n == CASE c.control \in {"PLAN", "REPLAN"} -> Plan(b)
               [] c.control = "TASK" -> TaskControl(b, c)
               [] c.control = "REVISE" -> Revise(b, c)
               [] c.control = "ASK_USER" -> AskUser(b)
               [] c.control = "PUBLISH" -> Publish(b)
               [] c.control = "DONE" -> Done(b)
    IN  IF Terminal(s) /\ ~Switches(s, c) THEN s
        ELSE IF c.control = "DONE" THEN n ELSE [n EXCEPT !.control = c.control]

----------------------------------------------------------------------------
(***************************************************************************)
(* An executor RESULT.  Evidence and changed files replace the recorded    *)
(* ones when the call reports them; publication is "none", "ready" (a      *)
(* successful readback) or "failed".                                       *)
(***************************************************************************)
Result == [task : Tasks \cup {NoTask}, step : Steps \cup {NoStep},
           status : {"unknown", "success", "failed"},
           proven : BOOLEAN, evidence : [Accepts -> {"none", "fail", "pass"}],
           changed : {"omitted", "yes", "no"}, publication : {"none", "ready", "failed"}]

EvidenceAfter(st, r) == IF r.proven THEN r.evidence ELSE st.evidence

ResultAcceptedMutant(s, r) == /\ r.task = NoTask \/ s.task = NoTask \/ r.task = s.task
                              /\ r.task # NoTask \/ s.task # NoTask
                              /\ r.step # NoStep /\ r.step = s.cur
ResultAccepted(s, r) == /\ ~Terminal(s)
                        /\ r.task = NoTask \/ s.task = NoTask \/ r.task = s.task
                        /\ r.task # NoTask \/ s.task # NoTask
                        /\ r.step # NoStep /\ r.step = s.cur

\* A rejected RESULT may already have bound the task (_bindTask precedes the step check).
LeftByResult(s, r) == IF ~Terminal(s) /\ s.task = NoTask THEN [s EXCEPT !.task = r.task] ELSE s

\* recordResult(): the gate is computed again from the evidence now recorded, and
\* Brain acceptance starts over.
StepResultMutant(st, r) ==
    [st EXCEPT !.status = r.status, !.evidence = EvidenceAfter(st, r),
               !.changed = IF r.changed = "omitted" THEN @ ELSE r.changed = "yes",
               !.gate = MachineGate(st.need, EvidenceAfter(st, r))]
StepResult(st, r) ==
    [st EXCEPT !.status = r.status, !.evidence = EvidenceAfter(st, r),
               !.changed = IF r.changed = "omitted" THEN @ ELSE r.changed = "yes",
               !.gate = MachineGate(st.need, EvidenceAfter(st, r)),
               !.brain = "pending"]

RecordResult(s, r) ==
    [s EXCEPT !.steps[r.step] = StepResult(@, r),
              !.task = IF s.task = NoTask THEN r.task ELSE s.task,
              !.published = IF r.publication = "none" THEN @ ELSE r.publication = "ready"]
=============================================================================
