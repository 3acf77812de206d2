------------------------------- MODULE DirectRun -------------------------------
(* legacy/direct-run-controller.js over protocol-integrity.js: the Direct     *)
(* Brain Loop.  The Brain sends controls, the calling agent executes the one  *)
(* outstanding control and sends its RESULT, and the next control carries the *)
(* acknowledgement.  The Brain is a language model: its envelope may have any *)
(* id, sequence and acknowledgement.  The ledger file survives a crash.       *)
(* A RESULT is named 'r' + the sequence of the control it answers, so here it *)
(* is that number; 0 is no RESULT.                                            *)
EXTENDS Naturals, FiniteSets

CONSTANTS
  ControlIds, RunSteps,
  MaxSequence,   \* bound: sequences the Brain uses
  MaxUpsets      \* bound: deaths of the controller, and steps that the calling agent declares

ASSUME DirectAssumption ==
  /\ MaxSequence \in Nat /\ MaxUpsets \in Nat
  /\ "none" \notin ControlIds \cup RunSteps

VARIABLES
  ledger,        \* the persisted DirectRunLedger
  run,           \* the coordinator's state in memory, of the same shape
  controller,    \* the controller: [up, lastStep, acceptance, shared, half]
  declared,      \* ghost: steps whose acceptance the calling agent set itself
  deaths         \* of the controller

directVars == <<ledger, run, controller, declared, deaths>>

Seqs == 1 .. MaxSequence
NoReply == [step |-> "none", executor |-> "unknown", gate |-> "pending"]
\* "advance" stands for TASK, PUBLISH and DONE, "other" for PLAN, REPLAN and ASK_USER; only
\* the reviseDelta of a REVISE is looked at.
Envelopes ==
  {env \in [id : ControlIds, sequence : Seqs, control : {"advance", "REVISE", "other"},
            step : RunSteps, ack : 0 .. MaxSequence, invalidate : SUBSET RunSteps] :
     env.control = "REVISE" \/ env.invalidate = {}}

\* Of a RESULT; a failure whose gate fails as well decides no more.
Outcomes == {o \in [executor : {"success", "failure"}, gate : {"pass", "fail"}] :
               o.executor = "success" \/ o.gate = "pass"}

EmptyLedger ==
  [lastSequence |-> 0, last |-> "none", outstanding |-> "none", sent |-> 0, acked |-> {},
   controls |-> [c \in ControlIds |-> [sequence |-> 0, step |-> "none"]],   \* 0: not processed
   results |-> [r \in Seqs |-> NoReply],
   acceptance |-> [s \in RunSteps |-> "none"]]
\* shared: the controller's acceptance states are the object the ledger holds.  half: the
\* acceptance states that acceptBrainReply still has to record.
NoHalf == [on |-> FALSE, after |-> EmptyLedger.acceptance]
FreshController == [up |-> TRUE, lastStep |-> "none", acceptance |-> EmptyLedger.acceptance,
                    shared |-> FALSE, half |-> NoHalf]

DirectTypeOK ==
  /\ run.lastSequence \in 0 .. MaxSequence /\ run.sent \in 0 .. MaxSequence
  /\ run.outstanding \in ControlIds \cup {"none"} /\ run.acked \subseteq Seqs
  /\ controller.lastStep \in RunSteps \cup {"none"}
  /\ \A s \in RunSteps : run.acceptance[s] \in {"none", "accepted", "pending"}
  /\ declared \subseteq RunSteps /\ deaths \in 0 .. MaxUpsets

\* Room for one more upset
Undisturbed == deaths + Cardinality(declared) < MaxUpsets

DirectInit ==
  /\ ledger = EmptyLedger /\ run = EmptyLedger /\ controller = FreshController
  /\ declared = {} /\ deaths = 0

\* ledger.persist, atomic by rename
Keep(st) == run' = st /\ ledger' = st

\* Mutant: what the machine gate found does not count.
AcceptableMutant(result) == result.executor = "success"
\* evaluateMilestoneAcceptance, for a Brain that advances
Acceptable(result) == result.executor = "success" /\ result.gate = "pass"

\* Mutant: only a control that advances has to acknowledge the last RESULT.
AckedMutant(env) == run.sent # 0 /\ env.control = "advance" => env.ack = run.sent
\* advancementGate, first part: any control acknowledges the last RESULT.
Acked(env) == run.sent # 0 => env.ack = run.sent
AdvancementGate(env) ==
  Acked(env) /\ (env.control = "advance" /\ run.sent # 0 => Acceptable(run.results[run.sent]))
PriorAccepted(env) == env.control = "advance" /\ run.sent # 0

\* acceptControl: sequence, the one outstanding control, no second processing, a known RESULT
MayAccept(env) ==
  /\ env.sequence > run.lastSequence
  /\ run.outstanding \in {"none", env.id}
  /\ run.controls[env.id].sequence = 0
  /\ env.ack # 0 => run.results[env.ack] # NoReply
\* applyBrainAcceptanceTransition and applyReviseDelta
AcceptanceAfter(states, env) ==
  IF PriorAccepted(env) /\ controller.lastStep # "none"
  THEN [states EXCEPT ![controller.lastStep] = "accepted"]
  ELSE IF env.control = "REVISE"
  THEN [s \in RunSteps |-> IF s \in env.invalidate /\ states[s] # "none" THEN "pending"
                           ELSE states[s]]
  ELSE states
\* acceptBrainReply, to the persist of acceptControl.  An invalid reply is answered by one
\* FORMAT_REPAIR, whose reply comes here; one that advancementGate rejects changes nothing.
AcceptBrainReply(env) ==
  /\ controller.up /\ ~controller.half.on /\ AdvancementGate(env) /\ MayAccept(env)
  /\ Keep([run EXCEPT !.lastSequence = env.sequence, !.last = env.id, !.outstanding = env.id,
                      !.acked = @ \cup ({env.ack} \ {0}),
                      !.controls[env.id] = [sequence |-> env.sequence, step |-> env.step]])
  /\ controller' = [controller EXCEPT
       !.half = [on |-> TRUE, after |-> AcceptanceAfter(controller.acceptance, env)]]
  /\ UNCHANGED <<declared, deaths>>
\* The rest of acceptBrainReply: the acceptance of the prior step, and a second persist.
RecordAcceptance ==
  /\ controller.up /\ controller.half.on
  /\ Keep([run EXCEPT !.acceptance = controller.half.after])
  /\ controller' = [controller EXCEPT !.acceptance = controller.half.after, !.shared = TRUE,
                                      !.lastStep = run.controls[run.last].step, !.half = NoHalf]
  /\ UNCHANGED <<declared, deaths>>
\* acceptControl or recordResult rejects what the Brain or the agent sends: counters, and a
\* persist of what is in memory.
RejectCall ==
  /\ controller.up /\ ~controller.half.on
  /\ Keep(run) /\ UNCHANGED <<controller, declared, deaths>>

\* prepareResult with recordResult: the RESULT of the outstanding control is frozen.  Its
\* step is the one the calling agent names or else the control's; nothing compares them.
\* To send it, once or again, changes nothing that later decides: the Brain may acknowledge
\* any RESULT or none.
PrepareResult(step, o) ==
  /\ controller.up /\ ~controller.half.on /\ run.outstanding # "none"
  /\ LET seq == run.controls[run.outstanding].sequence
     IN Keep([run EXCEPT !.results[seq] = [step |-> step, executor |-> o.executor, gate |-> o.gate],
                         !.sent = seq, !.outstanding = "none"])
  /\ UNCHANGED <<controller, declared, deaths>>
\* setBrainAcceptance, by the calling agent: any step, in memory until the next persist
\* ("revise" and "rejected" decide no more than "pending").
SetBrainAcceptance(step, state) ==
  /\ controller.up /\ ~controller.half.on /\ Undisturbed
  /\ declared' = declared \cup {step}
  /\ controller' = [controller EXCEPT !.acceptance[step] = state]
  /\ run' = IF controller.shared THEN [run EXCEPT !.acceptance[step] = state] ELSE run
  /\ UNCHANGED <<ledger, deaths>>

Dies == /\ controller.up /\ Undisturbed /\ deaths' = deaths + 1
        /\ controller' = [FreshController EXCEPT !.up = FALSE] /\ run' = ledger
        /\ UNCHANGED <<ledger, declared>>
\* createDirectRun loads the ledger; resume also restores the acceptance and the cursor and
\* sends an unacknowledged RESULT again.
Resume ==
  /\ ~controller.up
  /\ controller' = [FreshController EXCEPT
                 !.acceptance = run.acceptance, !.shared = TRUE,
                 !.lastStep = IF run.last = "none" THEN "none" ELSE run.controls[run.last].step]
  /\ UNCHANGED <<ledger, run, declared, deaths>>
\* start on a loaded ledger: neither is restored.
StartAgain == /\ ~controller.up /\ controller' = FreshController
              /\ UNCHANGED <<ledger, run, declared, deaths>>

DirectNext == \/ \E env \in Envelopes : AcceptBrainReply(env)
              \/ RejectCall \/ RecordAcceptance
              \/ \E step \in RunSteps, o \in Outcomes : PrepareResult(step, o)
              \/ \E step \in RunSteps, state \in {"accepted", "pending"} :
                   SetBrainAcceptance(step, state)
              \/ Dies \/ Resume \/ StartAgain

DirectSpec == DirectInit /\ [][DirectNext]_directVars

----------------------------------------------------------------------------
\* "Mandatory piggyback ACK" (direct-run-controller.js:72): whatever the Brain sends and
\* whenever the agent dies, every RESULT but the last was acknowledged before the run went
\* on, so none is lost between agent and Brain.
ResultsAreAcknowledged ==
  \A r \in Seqs :
    ledger.results[r] # NoReply /\ (r # ledger.sent \/ ledger.outstanding # "none") =>
      r \in ledger.acked

\* The advancement gate (direct-run-controller.js acceptBrainReply): whatever the Brain
\* sends, whatever step the agent's RESULT names and wherever the agent dies, a step that
\* the agent has not set itself is recorded as accepted only when a control
\* of that step was answered by an acknowledged RESULT that succeeded and passed the gate.
AcceptanceIsBacked ==
  \A s \in RunSteps \ declared : ledger.acceptance[s] = "accepted" =>
    \E c \in ControlIds : LET r == ledger.controls[c].sequence IN
      /\ ledger.controls[c].step = s /\ r \in ledger.acked
      /\ ledger.results[r].executor = "success" /\ ledger.results[r].gate = "pass"

\* "A prior milestone may only become Brain-accepted when: there is a prior RESULT for that
\* step" (direct-run-controller.js:64): the acknowledged RESULT names the step that it gets
\* accepted.
AcceptedStepHasResult ==
  \A s \in RunSteps \ declared : ledger.acceptance[s] = "accepted" =>
    \E r \in ledger.acked : ledger.results[r].step = s
=============================================================================
