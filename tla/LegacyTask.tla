------------------------------ MODULE LegacyTask ------------------------------
(* legacy/task-service.js and legacy/task-manager.js over task-state.js: one  *)
(* task that a Brain directs and a Codex executor carries out.  A call of the *)
(* service works on its own copy of the state and persists it; between two    *)
(* awaits (Brain, executor, worker) it is one step.  The lock is held or not: *)
(* TaskLock models its files, and a dead holder's lock counts as free.        *)
EXTENDS Naturals, FiniteSets

CONSTANTS
  Hosts,         \* calls of the service
  MaxHosts,      \* bound: calls in progress at once
  PlanSteps,     \* steps a plan may declare
  Mandatory,     \* steps in a milestone with milestone or final verification
  Unverifiable,  \* mandatory steps for which no command is configured
  LooseStep,     \* round -> STEP_ID_PREFIX + (round + 1), without a plan
  MaxRounds      \* maxRounds, also of a host that advances the task

ASSUME LegacyAssumption ==
  /\ MaxHosts \in Nat /\ MaxRounds \in Nat /\ Unverifiable \subseteq Mandatory
  /\ Mandatory \subseteq PlanSteps /\ DOMAIN LooseStep = 0 .. MaxRounds
  /\ "none" \notin PlanSteps \cup {LooseStep[n] : n \in 0 .. MaxRounds}

VARIABLES
  taskFile,      \* the persisted task, None before it is created
  taskLock,      \* the host that holds the lock, or "free"
  service,       \* per host: [op, pc, task], task being its copy in memory
  ran,           \* ghost, per step: executions since the step was issued
  proof          \* ghost, per acceptance: the last evidence an execution gave

legacyVars == <<taskFile, taskLock, service, ran, proof>>

StepIds == PlanSteps \cup {LooseStep[n] : n \in 0 .. MaxRounds}
None == [status |-> "none"]
NoControl == [kind |-> "none", step |-> "none", gives |-> FALSE, plan |-> {}, asks |-> "nothing"]
\* What parseBrainOutput makes of a reply.  A TASK may leave the step to the plan, and its
\* acceptance, named after the step, may be required, optional or missing; a PLAN or REPLAN
\* gives the steps of a plan, also none, or leaves them.
Replies ==
  {c \in [kind : {"TASK", "REVISE"}, step : PlanSteps \cup {"none"}, gives : {FALSE}, plan : {{}},
          asks : {"nothing", "required", "optional"}]
     \cup [kind : {"PLAN", "REPLAN"}, step : {"none"}, gives : BOOLEAN, plan : SUBSET PlanSteps,
           asks : {"nothing"}]
     \cup [kind : {"DONE", "ASK_USER", "PUBLISH"}, step : {"none"}, gives : {FALSE}, plan : {{}},
           asks : {"nothing"}] :
   c.gives \/ c.plan = {}}

\* newTaskState; an adopted conversation is bound at creation.
NewTask(adopted) ==
  [status |-> "running", conversation |-> adopted, ctrl |-> NoControl, plan |-> {},
   inFlight |-> "none", steps |-> [s \in StepIds |-> "none"],
   evidence |-> [s \in StepIds |-> "none"], completed |-> {},
   registry |-> [s \in StepIds |-> "absent"],
   optional |-> {},                           \* registered as not required
   asked |-> [s \in StepIds |-> "nothing"],   \* the acceptance a step was last issued with
   round |-> 0]

LegacyTypeOK ==
  /\ taskLock \in Hosts \cup {"free"}
  /\ \A t \in {taskFile} \cup {service[h].task : h \in Hosts} : t # None =>
       /\ t.status \in {"running", "awaiting_user", "recovery_required", "completed",
                        "cancelled"}
       /\ t.inFlight \in StepIds \cup {"none"} /\ t.round \in 0 .. MaxRounds
       /\ \A s \in StepIds : t.steps[s] \in
            {"none", "received", "executing", "executed", "result_recorded", "reviewed"}
  /\ \A h \in Hosts : service[h].pc \in {"idle", "loaded", "bound", "engine", "goal",
                                         "execute", "review", "next"}

Unused == [op |-> "none", pc |-> "idle", task |-> None]
LegacyInit ==
  /\ taskFile = None /\ taskLock = "free" /\ service = [h \in Hosts |-> Unused]
  /\ ran = [s \in StepIds |-> 0] /\ proof = [s \in StepIds |-> "none"]

Awaits(h, pc) == service[h].pc = pc
Room(h) == Awaits(h, "idle") /\ Cardinality({g \in Hosts : ~Awaits(g, "idle")}) < MaxHosts
Goes(h, pc, t) == service' = [service EXCEPT ![h].pc = pc, ![h].task = t]
Begins(h, op, pc, t) == service' = [service EXCEPT ![h] = [op |-> op, pc |-> pc, task |-> t]]

\* The unit of work is done and persisted; advanceTask returns after one, the engine of
\* startTask and resumeTask goes on.  Leaving releases the lock, whoever holds it.
Persisted(h, t, stop) ==
  /\ taskFile' = t
  /\ IF stop \/ service[h].op = "advance"
     THEN service' = [service EXCEPT ![h] = Unused] /\ taskLock' = "free"
     ELSE Goes(h, "engine", t) /\ UNCHANGED taskLock

----------------------------------------------------------------------------
NeedsRecovery(t) == t.inFlight # "none" /\ t.steps[t.inFlight] = "executing"
TaskOver(t) == t.status \in {"completed", "cancelled"}

\* createTask and startTask, under a new taskId
CreateTask(h, adopted) ==
  /\ Room(h) /\ taskFile = None /\ taskFile' = NewTask(adopted)
  /\ UNCHANGED <<taskLock, service, ran, proof>>
StartTask(h) ==
  /\ Room(h) /\ taskFile = None /\ taskFile' = NewTask(FALSE)
  /\ taskLock' = h /\ Begins(h, "start", "engine", NewTask(FALSE))
  /\ UNCHANGED <<ran, proof>>
\* resumeTask: the lock, the worker, and then the state.
ResumeTask(h) ==
  /\ Room(h) /\ taskFile # None /\ taskLock = "free"
  /\ taskLock' = h /\ Begins(h, "resume", "bound", None)
  /\ UNCHANGED <<taskFile, ran, proof>>
LoadResumed(h) ==
  /\ Awaits(h, "bound")
  /\ LET t == taskFile IN
     IF TaskOver(t) THEN Persisted(h, t, TRUE)
     ELSE IF NeedsRecovery(t) THEN Persisted(h, [t EXCEPT !.status = "recovery_required"], TRUE)
     ELSE Goes(h, "engine", t) /\ UNCHANGED <<taskFile, taskLock>>
  /\ UNCHANGED <<ran, proof>>
\* advanceTask: the state first, and then the lock.
AdvanceTask(h) ==
  /\ Room(h) /\ taskFile # None /\ ~TaskOver(taskFile) /\ taskFile.round < MaxRounds
  /\ IF NeedsRecovery(taskFile)
     THEN taskFile' = [taskFile EXCEPT !.status = "recovery_required"] /\ UNCHANGED service
     ELSE Begins(h, "advance", "loaded", taskFile) /\ UNCHANGED taskFile
  /\ UNCHANGED <<taskLock, ran, proof>>
LockAdvance(h) ==
  /\ Awaits(h, "loaded") /\ taskLock = "free"
  /\ taskLock' = h /\ Goes(h, "engine", service[h].task)
  /\ UNCHANGED <<taskFile, ran, proof>>
\* cancelTask: no lock is needed, and the one there is is removed.
CancelTask(h) ==
  /\ Room(h) /\ taskFile # None
  /\ taskFile' = [taskFile EXCEPT !.status = "cancelled"] /\ taskLock' = "free"
  /\ UNCHANGED <<service, ran, proof>>
\* An await fails (Brain, executor, a reply that stays invalid, TaskLockedError) or the
\* process dies.
CallEnds(h) ==
  /\ ~Awaits(h, "idle") /\ service' = [service EXCEPT ![h] = Unused]
  /\ taskLock' = IF taskLock = h THEN "free" ELSE taskLock
  /\ UNCHANGED <<taskFile, ran, proof>>

----------------------------------------------------------------------------
(* _nextAction and its handlers, on the copy t of the host *)

\* _resolveStepIdentity: "none" where the code throws a ProtocolError
ResolveStep(t) ==
  IF t.plan = {} THEN LooseStep[t.round]
  ELSE IF t.ctrl.step # "none" THEN (IF t.ctrl.step \in t.plan THEN t.ctrl.step ELSE "none")
  ELSE IF t.inFlight \in t.plan THEN t.inFlight
  ELSE IF t.plan \subseteq t.completed THEN "none"
  ELSE CHOOSE s \in t.plan : s \notin t.completed
Planned(t, s) == s \in t.plan

\* checkAcceptanceGate and _mandatoryVerificationBlocked
Gate(t) == /\ \A a \in StepIds \ t.optional : t.registry[a] \in {"absent", "pass"}
           /\ t.plan \cap Mandatory \subseteq t.completed
HandleDone(t) == [t EXCEPT !.status = IF Gate(t) THEN "completed" ELSE "awaiting_user"]
\* registerAcceptances: what is registered stays as it is, required or not.
Enters(t, s) == t.ctrl.asks # "nothing" /\ t.registry[s] = "absent"
Registered(t, s) == IF Enters(t, s) THEN [t.registry EXCEPT ![s] = "missing"] ELSE t.registry
Optional(t, s) ==
  IF Enters(t, s) /\ t.ctrl.asks = "optional" THEN t.optional \cup {s} ELSE t.optional
\* _startOrReopenStep
Issued(t, s) ==
  [t EXCEPT !.steps[s] = "received", !.inFlight = s, !.registry = Registered(t, s),
            !.optional = Optional(t, s), !.asked[s] = t.ctrl.asks]

EngineStops(t) == TaskOver(t) \/ t.status = "recovery_required" \/ t.round >= MaxRounds
\* The engine of startTask and resumeTask leaves its loop.
EngineEnds(h) ==
  /\ Awaits(h, "engine") /\ service[h].op # "advance" /\ EngineStops(service[h].task)
  /\ service' = [service EXCEPT ![h] = Unused] /\ taskLock' = "free"
  /\ UNCHANGED <<taskFile, ran, proof>>
Engine(h) ==
  Awaits(h, "engine") /\ (service[h].op = "advance" \/ ~EngineStops(service[h].task))

SendGoal(h) ==
  /\ Engine(h) /\ ~service[h].task.conversation /\ Goes(h, "goal", service[h].task)
  /\ UNCHANGED <<taskFile, taskLock, ran, proof>>
\* DONE, ASK_USER, a PUBLISH, which this engine does not know, and a task without a control,
\* such as one just created for an adopted conversation
Concludes(h) ==
  /\ Engine(h) /\ service[h].task.conversation
  /\ LET t == service[h].task
         k == t.ctrl.kind
     IN /\ k \in {"DONE", "ASK_USER", "PUBLISH", "none"}
        /\ Persisted(h, IF k = "DONE" THEN HandleDone(t)
                        ELSE [t EXCEPT !.status = IF k = "ASK_USER" THEN "awaiting_user"
                                                  ELSE "recovery_required"], TRUE)
  /\ UNCHANGED <<ran, proof>>
\* _handlePlan and _handleReplan persist the plan and ask for the next control.
HandlePlan(h) ==
  /\ Engine(h) /\ service[h].task.conversation
  /\ service[h].task.ctrl.kind \in {"PLAN", "REPLAN"}
  /\ LET t == service[h].task
         planned == [t EXCEPT !.plan = IF t.ctrl.gives THEN t.ctrl.plan ELSE @,
                              !.status = IF t.ctrl.kind = "PLAN" THEN "running" ELSE @]
     IN taskFile' = planned /\ Goes(h, "next", planned)
  /\ UNCHANGED <<taskLock, ran, proof>>

Working(h, s) == /\ Engine(h) /\ service[h].task.conversation
                 /\ service[h].task.ctrl.kind \in {"TASK", "REVISE"}
                 /\ s = ResolveStep(service[h].task) /\ s # "none"
ActiveStatus(t) == IF t.inFlight = "none" THEN "reviewed" ELSE t.steps[t.inFlight]
\* A step is issued when none is in flight, or again when the plan's step was reviewed; a
\* mandatory boundary without commands throws.
IssueStep(h) ==
  /\ \E s \in StepIds : LET t == service[h].task IN
       /\ Working(h, s)
       /\ ActiveStatus(t) = "reviewed" \/ (Planned(t, s) /\ t.steps[s] = "reviewed")
       /\ ~(Planned(t, s) /\ s \in Unverifiable)
       /\ Persisted(h, Issued(t, s), FALSE) /\ ran' = [ran EXCEPT ![s] = 0]
  /\ UNCHANGED proof
\* The step in flight, which no longer is to be issued
InFlight(h, st) ==
  LET t == service[h].task IN
  /\ \E s \in StepIds : Working(h, s) /\ ~(Planned(t, s) /\ t.steps[s] = "reviewed")
  /\ ActiveStatus(t) = st /\ t.inFlight # "none"

\* Mutant: the mark is kept in memory until the execution is over.
MarkExecutingMutant(h) ==
  LET t == service[h].task
  IN Goes(h, "execute", [t EXCEPT !.steps[t.inFlight] = "executing"]) /\ UNCHANGED taskFile
\* "executing" is persisted before the executor is called.
MarkExecuting(h) ==
  LET t == service[h].task
      marked == [t EXCEPT !.steps[t.inFlight] = "executing"]
  IN taskFile' = marked /\ Goes(h, "execute", marked)
BeginExecute(h) ==
  /\ InFlight(h, "received") /\ MarkExecuting(h)
  /\ ran' = [ran EXCEPT ![service[h].task.inFlight] = @ + 1]
  /\ UNCHANGED <<taskLock, proof>>
\* The executor answers, with evidence for the step's acceptance or without.
Executed(h, ev) ==
  /\ Awaits(h, "execute")
  /\ LET t == service[h].task
         s == t.inFlight
     IN /\ Persisted(h, [t EXCEPT !.steps[s] = "executed", !.evidence[s] = ev], FALSE)
        /\ proof' = [proof EXCEPT ![s] = IF ev = "none" THEN @ ELSE ev]
  /\ UNCHANGED ran

\* Mutant: a result without evidence counts as passed.
ApplyEvidenceMutant(t, s) ==
  IF t.registry[s] = "absent" THEN t.registry
  ELSE [t.registry EXCEPT ![s] = IF t.evidence[s] = "none" THEN "pass" ELSE t.evidence[s]]
\* applyEvidence: only evidence counts, and it registers what nobody asked for.
ApplyEvidence(t, s) ==
  IF t.evidence[s] = "none" THEN t.registry ELSE [t.registry EXCEPT ![s] = t.evidence[s]]
RecordResult(h) ==
  /\ InFlight(h, "executed")
  /\ LET t == service[h].task
         s == t.inFlight
     IN Persisted(h, [t EXCEPT !.steps[s] = "result_recorded",
                               !.registry = ApplyEvidence(t, s)], FALSE)
  /\ UNCHANGED <<ran, proof>>
\* result_sent is set in memory only, so the RESULT is sent again after a crash.
SendResult(h) ==
  /\ InFlight(h, "result_recorded") /\ Goes(h, "review", service[h].task)
  /\ UNCHANGED <<taskFile, taskLock, ran, proof>>

\* The Brain answers the goal, the RESULT or the request for the next control.
BrainReplies(h, c) ==
  /\ service[h].pc \in {"goal", "review", "next"}
  /\ LET t == service[h].task
         s == t.inFlight
         told == [t EXCEPT !.ctrl = c]
     IN Persisted(h, CASE Awaits(h, "goal") -> [told EXCEPT !.conversation = TRUE]
                       [] Awaits(h, "next") -> told
                       [] OTHER -> [told EXCEPT !.steps[s] = "reviewed", !.inFlight = "none",
                                                !.completed = @ \cup {s}, !.round = @ + 1],
                  FALSE)
  /\ UNCHANGED <<ran, proof>>

LegacyNext ==
  \E h \in Hosts :
    \/ \E adopted \in BOOLEAN : CreateTask(h, adopted)
    \/ StartTask(h) \/ ResumeTask(h) \/ LoadResumed(h) \/ AdvanceTask(h) \/ LockAdvance(h)
    \/ CancelTask(h) \/ CallEnds(h) \/ EngineEnds(h)
    \/ SendGoal(h) \/ Concludes(h) \/ HandlePlan(h) \/ IssueStep(h) \/ BeginExecute(h)
    \/ \E ev \in {"pass", "fail", "none"} : Executed(h, ev)
    \/ RecordResult(h) \/ SendResult(h)
    \/ \E c \in Replies : BrainReplies(h, c)

LegacySpec == LegacyInit /\ [][LegacyNext]_legacyVars

----------------------------------------------------------------------------
\* "never silently re-runs a confirmed side-effect" (task-manager.js:5): however calls end
\* or die and the task is resumed or advanced again, the executor is called at most once
\* for each time the Brain issued the step.
NeverReruns == \A s \in StepIds : ran[s] <= 1

\* The DONE gate: a task is completed only when the last evidence an execution gave for
\* each acceptance the registry holds as required is a pass, and every step at a mandatory
\* boundary of its plan was reviewed after an execution.
CompletedIsEarned ==
  taskFile # None /\ taskFile.status = "completed" =>
    /\ \A a \in StepIds \ taskFile.optional : taskFile.registry[a] # "absent" => proof[a] = "pass"
    /\ \A s \in taskFile.plan \cap Mandatory : taskFile.steps[s] = "reviewed" /\ ran[s] = 1

\* "A task may only be marked completed when every REQUIRED acceptance has evidence = pass"
\* (protocol.js:232-233): also one that the control its step was last issued with requires.
RequiredIsEarned ==
  taskFile # None /\ taskFile.status = "completed" =>
    \A s \in StepIds : taskFile.asked[s] = "required" => proof[s] = "pass"
=============================================================================
