------------------------ MODULE DurableGovernanceProofs ------------------------
(***************************************************************************)
(* What the durable Governance runtime promises, for any number of tasks,  *)
(* steps, roots, controls, RESULTs, tokens and faults.                     *)
(***************************************************************************)
EXTENDS DurableGovernance, TLAPS

(***************************************************************************)
(* The lifecycle alone: what transition() and recordResult() keep true of  *)
(* the service state, whatever controls and RESULTs come.                  *)
(***************************************************************************)
\* What is recorded of one step.
StepSound(st) ==
    /\ ~st.issued => st = Unissued
    /\ st.gate = "pass" => \A a \in st.need : st.evidence[a] = "pass"
    /\ st.brain = "accepted" => st.issued /\ st.status = "success" /\ st.gate = "pass"

\* The whole state: the current step was issued, and DONE was reached through its gates.
Sound(s) ==
    /\ \A i \in Steps : StepSound(s.steps[i])
    /\ s.cur # NoStep => s.steps[s.cur].issued
    /\ Terminal(s) => /\ s.task # NoTask /\ s.cur # NoStep
                      /\ s.steps[s.cur].brain = "accepted"
                      /\ s.pubRequired => s.published

\* The steps a control or a RESULT writes are steps.
LEMMA StepValues ==
    /\ \A need \in SUBSET Accepts : NewStep(need) \in StepRecord /\ StepSound(NewStep(need))
    /\ Unissued \in StepRecord /\ StepSound(Unissued)
    /\ FreshState \in State /\ Sound(FreshState) /\ ~Terminal(FreshState)
  BY NullAssumption DEF NewStep, Unissued, StepRecord, StepSound, FreshState, State, Sound, Terminal,
     Controls, NoControl, Routes

\* Binding the task and the route keeps the lifecycle, or starts a fresh one.
LEMMA BindKeeps ==
    ASSUME NEW s \in State, Sound(s), NEW c \in Control, ~RejectedEarly(s, c)
    PROVE  /\ Bind(s, c) \in State /\ Sound(Bind(s, c)) /\ Bind(s, c).task \in Tasks
           /\ ~Switches(s, c) => /\ Bind(s, c).steps = s.steps /\ Bind(s, c).cur = s.cur
                                 /\ Bind(s, c).control = s.control
                                 /\ Bind(s, c).pubRequired = s.pubRequired
                                 /\ Bind(s, c).published = s.published
                                 /\ s.task # NoTask => Bind(s, c).task = s.task
           /\ Switches(s, c) => /\ Bind(s, c).steps = FreshState.steps
                                /\ Bind(s, c).cur = NoStep
                                /\ Bind(s, c).control = NoControl
                                /\ c.control = "PLAN" /\ Terminal(s)
           /\ c.task # NoTask => Bind(s, c).task = c.task
  <1> USE DEF State, Control, Switches
  <1>1. CASE Switches(s, c)
    <2> DEFINE f == [FreshState EXCEPT !.task = c.task]
    <2>1. f \in State /\ Sound(f) /\ f.steps = FreshState.steps /\ f.cur = NoStep
          /\ f.control = NoControl /\ f.task = c.task /\ c.task \in Tasks
      BY <1>1, StepValues DEF Sound, Terminal, FreshState
    <2>2. Bind(s, c) = IF c.route = "none" THEN f ELSE [f EXCEPT !.route = c.route]
      BY <1>1 DEF Bind
    <2> HIDE DEF f
    <2> QED
      BY <1>1, <2>1, <2>2 DEF Sound, Terminal, RejectedEarly
  <1>2. CASE ~Switches(s, c)
    <2> DEFINE f == IF s.task = NoTask THEN [s EXCEPT !.task = c.task] ELSE s
    <2>1. /\ f \in State /\ f.steps = s.steps /\ f.cur = s.cur /\ f.control = s.control
          /\ f.pubRequired = s.pubRequired /\ f.published = s.published
          /\ f.task \in Tasks /\ (s.task # NoTask => f.task = s.task)
          /\ c.task # NoTask => f.task = c.task
      BY <1>2 DEF RejectedEarly
    <2>2. Bind(s, c) = IF c.route = "none" THEN f ELSE [f EXCEPT !.route = c.route]
      BY <1>2 DEF Bind
    <2> HIDE DEF f
    <2> QED
      BY <1>2, <2>1, <2>2 DEF Sound, Terminal
  <1> QED
    BY <1>1, <1>2

\* A gate is lifted only by reopening the step.
Lifts(s, n, i) == s.steps[i].gate # "pending" /\ n.steps[i].gate = "pending"

\* TASK accepts the step it leaves only when that step earned it, and never touches
\* what a RESULT recorded.
LEMMA TaskKeeps ==
    ASSUME NEW b \in State, Sound(b), ~Terminal(b), NEW c \in Control, c.step \in Steps,
           Advances(b, c) => StepHardOk(b, b.cur)
    PROVE  LET n == TaskControl(b, c)
           IN  /\ n \in State /\ Sound([n EXCEPT !.control = "TASK"])
               /\ n.task = b.task /\ \A i \in Steps : ~Lifts(b, n, i)
  <1> DEFINE steps1 == IF Advances(b, c) THEN [b.steps EXCEPT ![b.cur].brain = "accepted"]
                       ELSE b.steps
             old == steps1[c.step]
             new == IF ~old.issued THEN NewStep(NeedOf(c, {}))
                    ELSE IF HasResult(old) THEN old
                    ELSE [old EXCEPT !.need = NeedOf(c, @), !.brain = "pending"]
             n == [b EXCEPT !.awaiting = FALSE, !.cur = c.step,
                            !.steps = [steps1 EXCEPT ![c.step] = new]]
  <1>1. /\ steps1 \in [Steps -> StepRecord]
        /\ \A i \in Steps : /\ StepSound(steps1[i])
                            /\ steps1[i].gate = b.steps[i].gate
    BY DEF State, StepRecord, Sound, StepSound, Advances, StepHardOk, Issued
  <1>2. NeedOf(c, {}) \in SUBSET Accepts /\ NeedOf(c, old.need) \in SUBSET Accepts
    BY <1>1 DEF NeedOf, Control, StepRecord
  <1>3. /\ new \in StepRecord /\ StepSound(new) /\ new.issued
        /\ old.gate # "pending" => new.gate # "pending"
    <2>1. old \in StepRecord /\ StepSound(old)
      BY <1>1
    <2> HIDE DEF old
    <2>2. CASE ~old.issued
      BY <1>2, <2>1, <2>2, StepValues DEF StepSound, NewStep, Unissued
    <2>3. CASE old.issued /\ HasResult(old)
      BY <2>1, <2>3
    <2>4. CASE old.issued /\ ~HasResult(old)
      <3>1. new = [old EXCEPT !.need = NeedOf(c, @), !.brain = "pending"]
        BY <2>4
      <3> QED
        BY <1>2, <2>1, <2>4, <3>1 DEF HasResult, StepRecord, StepSound
    <2> QED
      BY <2>2, <2>3, <2>4
  <1> HIDE DEF steps1, new
  <1>4. /\ n \in State /\ n.task = b.task /\ n.cur = c.step
        /\ n.steps = [steps1 EXCEPT ![c.step] = new]
    BY <1>1, <1>3 DEF State
  <1>5. Sound([n EXCEPT !.control = "TASK"])
    BY <1>1, <1>3, <1>4 DEF Sound, Terminal, State
  <1>6. \A i \in Steps : ~Lifts(b, n, i)
    BY <1>1, <1>3, <1>4 DEF Lifts
  <1>7. TaskControl(b, c) = n
    BY DEF TaskControl, steps1, new
  <1> HIDE DEF n
  <1> QED
    BY <1>4, <1>5, <1>6, <1>7

\* REVISE reopens the step it names and no other.
LEMMA ReviseKeeps ==
    ASSUME NEW b \in State, Sound(b), ~Terminal(b), NEW c \in Control, c.step \in Steps
    PROVE  LET n == Revise(b, c)
           IN  /\ n \in State /\ Sound([n EXCEPT !.control = "REVISE"])
               /\ n.task = b.task /\ n.cur = c.step
               /\ \A i \in Steps : Lifts(b, n, i) => i = c.step
  <1> DEFINE old == IF Issued(b, c.step) THEN b.steps[c.step] ELSE NewStep(NeedOf(c, {}))
             need == NeedOf(c, old.need)
             new == [old EXCEPT !.need = need, !.brain = "revise",
                                !.status = "unknown", !.gate = "pending",
                                !.evidence = [a \in Accepts |->
                                     IF a \in c.drop \cap need THEN "none" ELSE @[a]]]
             n == [b EXCEPT !.cur = c.step, !.steps[c.step] = new]
  <1>1. old \in StepRecord /\ StepSound(old) /\ old.issued
    <2>1. NeedOf(c, {}) \in SUBSET Accepts
      BY DEF NeedOf, Control
    <2> QED
      BY <2>1, StepValues DEF State, Sound, Issued, NewStep
  <1>2. need \in SUBSET Accepts
    BY <1>1 DEF NeedOf, Control, StepRecord
  <1> HIDE DEF old, need
  <1>3. new \in StepRecord /\ StepSound(new) /\ new.issued
    BY <1>1, <1>2 DEF StepRecord, StepSound
  <1> HIDE DEF new
  <1>4. /\ n \in State /\ n.task = b.task /\ n.cur = c.step
        /\ n.steps = [b.steps EXCEPT ![c.step] = new]
    BY <1>3 DEF State
  <1>5. Sound([n EXCEPT !.control = "REVISE"])
    BY <1>3, <1>4 DEF Sound, Terminal, State
  <1>6. \A i \in Steps : Lifts(b, n, i) => i = c.step
    BY <1>4 DEF Lifts, State
  <1>7. Revise(b, c) = n
    BY DEF Revise, old, need, new
  <1> HIDE DEF n
  <1> QED
    BY <1>4, <1>5, <1>6, <1>7

\* PUBLISH and DONE accept the current step only behind its gates.
LEMMA AcceptKeeps ==
    ASSUME NEW b \in State, Sound(b), ~Terminal(b), b.task \in Tasks
    PROVE  /\ LET n == Publish(b)
              IN  /\ n \in State /\ Sound([n EXCEPT !.control = "PUBLISH"])
                  /\ n.task = b.task /\ \A i \in Steps : ~Lifts(b, n, i)
           /\ LET n == Done(b)
              IN  /\ n \in State /\ Sound(n)
                  /\ n.task = b.task /\ \A i \in Steps : ~Lifts(b, n, i)
  <1> DEFINE steps1 == [b.steps EXCEPT ![b.cur].brain = "accepted"]
  <1>1. ASSUME StepHardOk(b, b.cur)
        PROVE  /\ b.cur \in Steps /\ steps1 \in [Steps -> StepRecord]
               /\ \A i \in Steps : /\ StepSound(steps1[i])
                                   /\ steps1[i].gate = b.steps[i].gate
               /\ steps1[b.cur].issued /\ steps1[b.cur].brain = "accepted"
    <2> DEFINE new == [b.steps[b.cur] EXCEPT !.brain = "accepted"]
    <2>1. /\ b.cur \in Steps /\ b.steps[b.cur] \in StepRecord /\ StepSound(b.steps[b.cur])
          /\ b.steps[b.cur].issued /\ b.steps[b.cur].status = "success"
          /\ b.steps[b.cur].gate = "pass"
      BY <1>1 DEF State, Sound, StepHardOk, Issued
    <2>2. /\ new \in StepRecord /\ StepSound(new) /\ new.issued /\ new.brain = "accepted"
          /\ new.gate = b.steps[b.cur].gate
      BY <2>1 DEF StepRecord, StepSound
    <2>3. steps1 = [b.steps EXCEPT ![b.cur] = new]
      OBVIOUS
    <2> HIDE DEF new
    <2> QED
      BY <2>1, <2>2, <2>3 DEF State, Sound
  <1> HIDE DEF steps1
  <1>2. CASE StepHardOk(b, b.cur)
    <2> DEFINE p == [b EXCEPT !.awaiting = FALSE, !.steps = steps1, !.pubRequired = TRUE]
               d == [b EXCEPT !.awaiting = FALSE, !.steps = steps1, !.control = "DONE"]
               w == [b EXCEPT !.awaiting = FALSE]
    <2>1. p \in State /\ d \in State /\ w \in State
      BY <1>1, <1>2 DEF State, Controls
    <2>2. Sound([p EXCEPT !.control = "PUBLISH"])
      BY <1>1, <1>2 DEF Sound, Terminal, State
    <2>3. Sound(w) /\ Sound([w EXCEPT !.control = "PUBLISH"])
      BY <1>2 DEF Sound, Terminal, State
    <2>4. DoneReady(b) => Sound(d)
      BY <1>1, <1>2, NullAssumption DEF Sound, Terminal, State, DoneReady
    <2>5. Publish(b) \in {p, w} /\ (Done(b) = w \/ (DoneReady(b) /\ Done(b) = d))
      BY <1>1, <1>2 DEF Publish, Done, DoneReady, State, steps1
    <2>6. p.task = b.task /\ d.task = b.task /\ w.task = b.task
          /\ \A i \in Steps : ~Lifts(b, p, i) /\ ~Lifts(b, d, i) /\ ~Lifts(b, w, i)
      BY <1>1, <1>2 DEF Lifts, State
    <2> HIDE DEF p, d, w
    <2> QED
      BY <2>1, <2>2, <2>3, <2>4, <2>5, <2>6
  <1>3. CASE ~StepHardOk(b, b.cur)
    <2>1. Publish(b) = [b EXCEPT !.awaiting = FALSE] /\ Done(b) = [b EXCEPT !.awaiting = FALSE]
      BY <1>3 DEF Publish, Done, DoneReady
    <2> QED
      BY <2>1 DEF State, Sound, Terminal, Lifts
  <1> QED
    BY <1>2, <1>3
\* transition(), for a control it does not reject.
LEMMA TransitionKeeps ==
    ASSUME NEW s \in State, Sound(s), NEW c \in Control,
           ~RejectedEarly(s, c), ~RejectedLate(s, c) \/ Terminal(s)
    PROVE  LET n == Transition(s, c)
           IN  /\ n \in State /\ Sound(n) /\ n.task \in Tasks
               /\ c.task # NoTask => n.task = c.task
               /\ ~Switches(s, c) =>
                     /\ s.task # NoTask => n.task = s.task
                     /\ Terminal(s) => n = s
                     /\ \A i \in Steps : Lifts(s, n, i) => n.control = "REVISE" /\ n.cur = i
               /\ Switches(s, c) => Terminal(s) /\ c.control = "PLAN"
  <1>1. CASE Terminal(s) /\ ~Switches(s, c)
    <2>1. Transition(s, c) = s
      BY <1>1 DEF Transition
    <2>2. s.task \in Tasks /\ (c.task # NoTask => s.task = c.task)
      BY <1>1 DEF Sound, State, Switches
    <2> QED
      BY <1>1, <2>1, <2>2 DEF Lifts
  <1>2. CASE ~Terminal(s) \/ Switches(s, c)
    <2> DEFINE b == Bind(s, c)
               n == Transition(s, c)
               Kept(x) == x.task = b.task /\ \A i \in Steps : ~Lifts(b, x, i)
    <2>1. /\ b \in State /\ Sound(b) /\ ~Terminal(b) /\ b.task \in Tasks
          /\ c.task # NoTask => b.task = c.task
          /\ ~Switches(s, c) => b.steps = s.steps /\ (s.task # NoTask => b.task = s.task)
          /\ Switches(s, c) => Terminal(s) /\ c.control = "PLAN"
      BY <1>2, BindKeeps DEF Terminal, NoControl
    <2>2. n \in State /\ Sound(n) /\ n.task = b.task
          /\ \A i \in Steps : Lifts(b, n, i) => n.control = "REVISE" /\ n.cur = i
      <3> HIDE DEF b
      <3>0. c.control \in Controls
        BY DEF Control
      <3>1. CASE c.control \in {"PLAN", "REPLAN"}
        <4>1. n = [[b EXCEPT !.awaiting = FALSE] EXCEPT !.control = c.control]
          BY <1>2, <3>1 DEF Transition, Plan, b
        <4> QED
          BY <2>1, <3>1, <4>1 DEF State, Controls, Sound, Terminal, Lifts
      <3>2. CASE c.control = "TASK"
        <4>1. c.step \in Steps /\ (Advances(b, c) => StepHardOk(b, b.cur))
          <5>1. ~Switches(s, c) /\ ~RejectedLate(s, c)
            BY <1>2, <2>1, <3>2
          <5>2. b.steps = s.steps /\ b.cur = s.cur
            BY <5>1, BindKeeps DEF b
          <5> QED
            BY <3>2, <5>1, <5>2 DEF RejectedLate, Advances, StepHardOk, Issued, Control
        <4>2. n = [TaskControl(b, c) EXCEPT !.control = "TASK"]
          BY <1>2, <3>2 DEF Transition, b
        <4> QED
          BY <2>1, <4>1, <4>2, TaskKeeps DEF State, Controls, Lifts
      <3>3. CASE c.control = "REVISE"
        <4>1. c.step \in Steps
          BY <1>2, <2>1, <3>3 DEF RejectedLate, Control
        <4>2. n = [Revise(b, c) EXCEPT !.control = "REVISE"]
          BY <1>2, <3>3 DEF Transition, b
        <4> QED
          BY <2>1, <4>1, <4>2, ReviseKeeps DEF State, Controls, Lifts
      <3>4. CASE c.control = "ASK_USER"
        <4>1. n = [[b EXCEPT !.awaiting = TRUE] EXCEPT !.control = "ASK_USER"]
          BY <1>2, <3>4 DEF Transition, AskUser, b
        <4> QED
          BY <2>1, <4>1 DEF State, Controls, Sound, Terminal, Lifts
      <3>5. CASE c.control = "PUBLISH"
        <4>1. n = [Publish(b) EXCEPT !.control = "PUBLISH"]
          BY <1>2, <3>5 DEF Transition, b
        <4> QED
          BY <2>1, <4>1, AcceptKeeps DEF State, Controls, Lifts
      <3>6. CASE c.control = "DONE"
        <4>1. n = Done(b)
          BY <1>2, <3>6 DEF Transition, b
        <4> QED
          BY <2>1, <4>1, AcceptKeeps
      <3> QED
        BY <3>0, <3>1, <3>2, <3>3, <3>4, <3>5, <3>6 DEF Controls
    <2>3. ~Switches(s, c) => \A i \in Steps : Lifts(s, n, i) => Lifts(b, n, i)
      BY <2>1 DEF Lifts
    <2> HIDE DEF b, n
    <2> QED
      BY <1>2, <2>1, <2>2, <2>3 DEF n
  <1> QED
    BY <1>1, <1>2

\* A control rejected late leaves the lifecycle as it was.
LEMMA LeftBehindKeeps ==
    ASSUME NEW s \in State, Sound(s), ~Terminal(s), NEW c \in Control,
           ~RejectedEarly(s, c), RejectedLate(s, c)
    PROVE  LET n == LeftBehind(s, c)
           IN  /\ n \in State /\ Sound(n) /\ ~Terminal(n) /\ n.task \in Tasks
               /\ c.task # NoTask => n.task = c.task
               /\ s.task # NoTask => n.task = s.task
               /\ n.steps = s.steps /\ n.cur = s.cur /\ n.control = s.control
               /\ n.pubRequired = s.pubRequired /\ n.published = s.published
  <1> DEFINE b == Bind(s, c)
  <1>1. ~Switches(s, c)
    BY DEF RejectedEarly
  <1>2. /\ b \in State /\ Sound(b) /\ b.task \in Tasks /\ (c.task # NoTask => b.task = c.task)
        /\ s.task # NoTask => b.task = s.task
        /\ b.steps = s.steps /\ b.cur = s.cur /\ b.control = s.control
        /\ b.pubRequired = s.pubRequired /\ b.published = s.published
    BY <1>1, BindKeeps
  <1>3. LeftBehind(s, c) \in {b, [b EXCEPT !.awaiting = FALSE]}
    BY DEF LeftBehind
  <1> HIDE DEF b
  <1> QED
    BY <1>2, <1>3 DEF State, Sound, Terminal

\* recordResult() keeps the lifecycle and leaves a gate on the step.
LEMMA RecordResultKeeps ==
    ASSUME NEW s \in State, Sound(s), NEW r \in Result, ResultAccepted(s, r)
    PROVE  LET n == RecordResult(s, r)
           IN  /\ n \in State /\ Sound(n) /\ n.task \in Tasks
               /\ s.task # NoTask => n.task = s.task
               /\ \A i \in Steps : ~Lifts(s, n, i)
  <1> DEFINE st == s.steps[r.step]
             new == StepResult(st, r)
             n == RecordResult(s, r)
  <1>1. r.step \in Steps /\ st \in StepRecord /\ StepSound(st) /\ st.issued /\ r.step = s.cur
    BY DEF ResultAccepted, State, Result, Sound
  <1>2. EvidenceAfter(st, r) \in [Accepts -> {"none", "fail", "pass"}]
    BY <1>1 DEF EvidenceAfter, StepRecord, Result
  <1>3. new \in StepRecord /\ StepSound(new) /\ new.issued /\ new.gate # "pending"
    <2> HIDE DEF st
    <2> QED
      BY ZenonT(60), <1>1, <1>2 DEF StepResult, StepSound, StepRecord, Result, MachineGate
  <1> HIDE DEF new
  <1>4. n.steps = [s.steps EXCEPT ![r.step] = new]
    BY <1>1 DEF RecordResult, State, new
  <1>5. /\ n \in State /\ n.control = s.control /\ n.cur = s.cur /\ n.task \in Tasks
        /\ s.task # NoTask => n.task = s.task
    BY ZenonT(60), <1>1, <1>3, <1>4, NullAssumption DEF RecordResult, State, Result, ResultAccepted
  <1> HIDE DEF n, st
  <1> QED
    BY <1>1, <1>3, <1>4, <1>5 DEF Sound, Terminal, ResultAccepted, Lifts, State, n

\* A rejected RESULT at most binds the task.
LEMMA LeftByResultKeeps ==
    ASSUME NEW s \in State, Sound(s), NEW r \in Result
    PROVE  LET n == LeftByResult(s, r)
           IN  /\ n \in State /\ Sound(n) /\ n.cur = s.cur
               /\ (s.task # NoTask \/ Terminal(s)) => n = s
               /\ s.task = NoTask => n.task \in {NoTask, r.task}
  <1>1. CASE ~Terminal(s) /\ s.task = NoTask
    BY <1>1 DEF LeftByResult, State, Result, Sound, Terminal
  <1>2. CASE ~(~Terminal(s) /\ s.task = NoTask)
    BY <1>2 DEF LeftByResult, Sound
  <1> QED
    BY <1>1, <1>2

----------------------------------------------------------------------------
(***************************************************************************)
(* The inductive invariant: what a readable file vouches for, and how the  *)
(* memory of a runtime that is not recovery-required relates to the files. *)
(***************************************************************************)
\* What an envelope of task t holds when n tokens have been minted.
Vouched(e, t, n) ==
    /\ e.st.task = t /\ e.meta.task = t
    /\ Sound(e.st)
    /\ e.meta.token \in 1 .. n
    /\ e.meta.claim.token # NoToken =>
           /\ Claimable(e.st, e.meta.claim.step)
           /\ e.meta.claim.parent = e.meta.gen
           /\ e.meta.claim.root = e.meta.root
           /\ e.meta.claim.token # e.meta.token
FilesVouched ==
    \A t \in Tasks : /\ prim[t].kind = "ok" => Vouched(prim[t].env, t, minted)
                     /\ bak[t].kind = "ok" => Vouched(bak[t].env, t, minted)

\* A state without metadata has no file and no step yet; metadata is of its own task.
Bound(s, m) ==
    \/ m = NoMeta /\ s.cur = NoStep /\ (s.task # NoTask => ~HasTask(s.task))
    \/ m.task \in Tasks /\ s.task = m.task /\ m.token \in 1 .. minted

\* The state up to what a late rejection may leave behind.
Loose(s) == [s EXCEPT !.route = "none", !.awaiting = FALSE]
Follows(s, m) ==
    m.task # NoTask /\ ReadableTask(m.task) =>
        LET e == Resolved(m.task) IN
        /\ m = e.meta /\ Loose(s) = Loose(e.st)
        /\ Terminal(s) => s = e.st

\* A state and metadata that a runtime may work on.
Settled(s, m) == /\ s \in State /\ m \in Meta /\ Sound(s) /\ Bound(s, m)
                 /\ MirroredOnly => Follows(s, m)
MemorySettled == /\ ~up => mem = FreshState /\ meta = NoMeta /\ ~recovery
                 /\ up /\ ~recovery => Settled(mem, meta)

IInv == TypeOK /\ FilesVouched /\ MemorySettled

(***************************************************************************)
(* Every step leaves the runtime settled without a write, or commits an    *)
(* envelope that extends the readable one, or stops or starts the runtime, *)
(* or makes a file unreadable.                                             *)
(***************************************************************************)
Extends(e, f) ==
    /\ f.meta.gen > e.meta.gen \/ (f.meta.gen = e.meta.gen /\ f.meta.token = e.meta.token)
    /\ f.meta.claim.gen > e.meta.claim.gen \/ f.meta.claim = e.meta.claim
    /\ e.meta.root # NoRoot => f.meta.root = e.meta.root
    /\ Terminal(e.st) => f.st = e.st
    /\ \A i \in Steps : Lifts(e.st, f.st, i) => f.st.control = "REVISE" /\ f.st.cur = i
Commits(s, m, mints) ==
    /\ s \in State /\ m \in Meta /\ s.task \in Tasks
    /\ mints \in {0, 1} /\ minted + mints <= MaxTokens
    /\ Vouched([st |-> s, meta |-> m], s.task, minted + mints)
    /\ MirroredOnly /\ ReadableTask(s.task) =>
           Extends(Resolved(s.task), [st |-> s, meta |-> m])

Settles == \E s \in State, m \in Meta :
               /\ up /\ Settled(s, m)
               /\ mem' = s /\ meta' = m /\ recovery' = FALSE
               /\ UNCHANGED <<up, prim, bak, minted, faults>>
Saves == \E s \in State, m \in Meta, mints \in {0, 1} :
               up /\ ~recovery /\ Commits(s, m, mints) /\ Persist(s, m, mints)

\* What is committed may be worked on.
LEMMA ReadableIsSettled ==
    ASSUME IInv, NEW t \in Tasks, ReadableTask(t)
    PROVE  /\ Resolved(t) \in Envelope /\ Vouched(Resolved(t), t, minted)
           /\ Settled(Resolved(t).st, Resolved(t).meta)
  <1>1. Resolved(t) \in Envelope /\ Vouched(Resolved(t), t, minted)
    BY DEF IInv, TypeOK, File, FilesVouched, ReadableTask, Resolved
  <1> QED
    BY <1>1 DEF Envelope, Vouched, Settled, Bound, Follows

\* The state an operation starts from may be worked on, and is about another task than
\* the one it names only when that one has no file.
LEMMA BaseIsSettled ==
    ASSUME IInv, up, ~recovery, NEW t \in Tasks \cup {NoTask}, Hydrates(t) => ReadableTask(t)
    PROVE  /\ Settled(BaseMem(t), BaseMeta(t))
           /\ t # NoTask /\ BaseMem(t).task = NoTask => ~HasTask(t)
           /\ BaseMem(t).task \notin {NoTask, t} => BaseMem(t).task = mem.task
  <1>1. CASE Hydrates(t)
    BY <1>1, ReadableIsSettled, NullAssumption DEF Hydrates, BaseMem, BaseMeta, Vouched
  <1>2. CASE ~Hydrates(t)
    BY <1>2 DEF BaseMem, BaseMeta, IInv, MemorySettled, Hydrates
  <1> QED
    BY <1>1, <1>2

\* A control mints a first authority, fences the older claim and keeps the bound root.
LEMMA MetaAfterKeeps ==
    ASSUME IInv, NEW t \in Tasks, NEW m \in Meta, NEW root \in Roots \cup {NoRoot},
           m = NoMeta \/ (m.task \in Tasks /\ m.token \in 1 .. minted)
    PROVE  LET a == MetaAfter(t, m, root)
               mints == IF a.token = minted + 1 THEN 1 ELSE 0
           IN  /\ a \in Meta /\ a.task = t /\ a.token \in 1 .. (minted + mints)
               /\ a.claim.token = NoToken
               /\ m.task = t => /\ a.gen = m.gen /\ a.token = m.token
                                /\ a.claim.gen > m.claim.gen \/ a.claim = m.claim
                                /\ m.root # NoRoot => a.root = m.root
  <1> DEFINE base == IF m.task = t THEN m
                     ELSE IF ReadableTask(t) THEN Resolved(t).meta
                     ELSE [NoMeta EXCEPT !.task = t, !.root = root]
             auth == IF base.token = NoToken
                     THEN [base EXCEPT !.gen = 0, !.token = minted + 1, !.claim = NoClaim]
                     ELSE [base EXCEPT !.claim = Fence(@)]
             a == IF auth.root = NoRoot THEN [auth EXCEPT !.root = root] ELSE auth
  <1>0. minted \in Nat /\ NoClaim \in Claim /\ NoMeta \in Meta /\ NoMeta.task = NoTask
    BY DurableBounds DEF IInv, TypeOK, NoClaim, Claim, NoMeta, Meta, NoToken
  <1>1. /\ base \in Meta /\ base.task = t /\ base.token \in 0 .. minted
        /\ m.task = t => base = m /\ base.token # NoToken
    <2>1. CASE m.task = t
      BY <1>0, <2>1, NullAssumption DEF NoToken
    <2>2. CASE m.task # t /\ ReadableTask(t)
      BY <1>0, <2>2, ReadableIsSettled DEF Vouched, Envelope
    <2>3. CASE m.task # t /\ ~ReadableTask(t)
      <3>1. base = [task |-> t, root |-> root, gen |-> 0, token |-> NoToken, claim |-> NoClaim]
        BY <2>3 DEF NoMeta
      <3> HIDE DEF base
      <3> QED
        BY <1>0, <2>3, <3>1 DEF Meta, NoToken
    <2> QED
      BY <2>1, <2>2, <2>3
  <1> HIDE DEF base
  <1>2. ASSUME NEW cl \in Claim
        PROVE  /\ Fence(cl) \in Claim /\ Fence(cl).token = NoToken
               /\ Fence(cl).gen > cl.gen \/ Fence(cl) = cl
    BY <1>0 DEF Fence, Claim, NoClaim, NoToken
  <1>3. /\ auth \in Meta /\ auth.task = t /\ auth.root = base.root /\ auth.claim.token = NoToken
        /\ auth.token \in 1 .. (minted + 1)
        /\ base.token # NoToken => /\ auth.gen = base.gen /\ auth.token = base.token
                                   /\ auth.claim = Fence(base.claim)
    <2>1. base.claim \in Claim
      BY <1>1 DEF Meta
    <2> QED
      <3>1. CASE base.token = NoToken
        <4>1. auth = [base EXCEPT !.gen = 0, !.token = minted + 1, !.claim = NoClaim]
          BY <3>1 DEF auth
        <4> HIDE DEF auth
        <4>2. auth \in Meta /\ auth.task = t /\ auth.root = base.root /\ auth.token = minted + 1
          <5>1. minted + 1 \in Nat /\ 0 \in Nat
            BY <1>0
          <5>2. auth = [task |-> t, root |-> base.root, gen |-> 0, token |-> minted + 1,
                        claim |-> NoClaim]
            BY <1>1, <4>1 DEF Meta
          <5>3. t \in Tasks \cup {NoTask} /\ base.root \in Roots \cup {NoRoot}
            BY <1>1 DEF Meta
          <5>4. NoClaim \in Claim
            BY <1>0
          <5> QED
            BY <5>1, <5>2, <5>3, <5>4 DEF Meta
        <4>3. auth.claim.token = NoToken
          BY <1>1, <4>1 DEF Meta, NoClaim
        <4> QED
          BY <1>0, <3>1, <4>2, <4>3
      <3>2. CASE base.token # NoToken
        <4>1. auth = [base EXCEPT !.claim = Fence(@)]
          BY <3>2 DEF auth
        <4> QED
          BY <1>0, <1>1, <1>2, <2>1, <3>2, <4>1 DEF Meta, NoToken
      <3> QED
        BY <3>1, <3>2
  <1> HIDE DEF auth
  <1>4. /\ a \in Meta /\ a.task = t /\ a.token = auth.token /\ a.claim = auth.claim
        /\ a.gen = auth.gen
        /\ auth.root # NoRoot => a.root = auth.root
    BY <1>3 DEF Meta
  <1>5. MetaAfter(t, m, root) = a
    BY DEF MetaAfter, base, auth
  <1> HIDE DEF a
  <1>6. base.claim \in Claim
    BY <1>1 DEF Meta
  <1> QED
    BY <1>0, <1>1, <1>2, <1>3, <1>4, <1>5, <1>6

\* An operation that throws leaves the runtime settled when what it assigned is.
LEMMA ThrowSettles ==
    ASSUME IInv, up, ~recovery, NEW s, NEW m, Settled(s, m), Throws(s, m)
    PROVE  Settles
  <1>1. s \in State /\ m \in Meta /\ recovery = FALSE
    BY DEF Settled, IInv, TypeOK
  <1> QED
    BY <1>1 DEF Settles, Throws

\* The lifecycle fields that following the committed state preserves.
LEMMA LooseFields ==
    ASSUME NEW s \in State, NEW u \in State
    PROVE  Loose(s) = Loose(u) <=> /\ s.task = u.task /\ s.control = u.control /\ s.cur = u.cur
                                   /\ s.steps = u.steps /\ s.pubRequired = u.pubRequired
                                   /\ s.published = u.published
  <1> DEFINE Kept(x) == [task |-> x.task, control |-> x.control, route |-> "none", cur |-> x.cur,
                         steps |-> x.steps, awaiting |-> FALSE,
                         pubRequired |-> x.pubRequired, published |-> x.published]
  <1>1. ASSUME NEW x \in State
        PROVE  Loose(x) = Kept(x)
    <2> DEFINE y == [x EXCEPT !.route = "none"]
    <2>1. y = [task |-> x.task, control |-> x.control, route |-> "none", cur |-> x.cur,
               steps |-> x.steps, awaiting |-> x.awaiting,
               pubRequired |-> x.pubRequired, published |-> x.published]
      BY DEF State
    <2>2. Loose(x) = [y EXCEPT !.awaiting = FALSE]
      BY DEF Loose
    <2> HIDE DEF y
    <2> QED
      BY <2>1, <2>2
  <1>2. Kept(s) = Kept(u) <=> /\ s.task = u.task /\ s.control = u.control /\ s.cur = u.cur
                              /\ s.steps = u.steps /\ s.pubRequired = u.pubRequired
                              /\ s.published = u.published
    OBVIOUS
  <1> HIDE DEF Kept
  <1> QED
    BY <1>1, <1>2

\* An operation on the task of the runtime that has a readable file follows that file.
LEMMA BaseFollows ==
    ASSUME IInv, NEW s, NEW m, Settled(s, m), MirroredOnly, NEW t \in Tasks, ReadableTask(t),
           s.task = t
    PROVE  /\ m # NoMeta /\ m.task = t /\ m = Resolved(t).meta
           /\ Loose(s) = Loose(Resolved(t).st)
           /\ Terminal(s) <=> Terminal(Resolved(t).st)
           /\ Terminal(s) => s = Resolved(t).st
           /\ s.steps = Resolved(t).st.steps
  <1>1. HasTask(t)
    BY DEF ReadableTask, HasTask
  <1>2. m # NoMeta /\ m.task = t
    BY <1>1, NullAssumption DEF Settled, Bound, NoMeta
  <1>3. /\ m = Resolved(t).meta /\ Loose(s) = Loose(Resolved(t).st)
        /\ Terminal(s) => s = Resolved(t).st
    BY <1>2, NullAssumption DEF Settled, Follows
  <1>4. Resolved(t).st \in State /\ s \in State
    BY ReadableIsSettled DEF Settled
  <1> QED
    BY <1>2, <1>3, <1>4, LooseFields DEF Terminal

\* transition() settles or commits.
LEMMA ControlShape ==
    ASSUME IInv, NEW c \in Control, NEW root \in Roots \cup {NoRoot}, NEW k \in Tokens,
           BrainControl(c, root, k)
    PROVE  Settles \/ Saves
  <1> DEFINE s == BaseMem(c.task)
             m == BaseMeta(c.task)
             passes == /\ RootCompatible(IF c.task # NoTask THEN c.task ELSE s.task, root)
                       /\ IF FreshStart(s, c) THEN Admitted ELSE AuthorityOk(m, k)
  <1>1. /\ up /\ ~recovery /\ c.task \in Tasks \cup {NoTask}
        /\ Hydrates(c.task) => ReadableTask(c.task)
        /\ ~(mem.task # NoTask /\ c.task \notin {NoTask, mem.task} /\ HasTask(c.task))
    BY DEF BrainControl, Control
  <1>2. Settled(s, m) /\ s \in State /\ m \in Meta /\ Sound(s)
    BY <1>1, BaseIsSettled DEF Settled
  <1>3. c.task # NoTask /\ s.task # c.task => ~HasTask(c.task)
    BY <1>1, BaseIsSettled
  <1>4. CASE Throws(s, m)
    BY <1>1, <1>2, <1>4, ThrowSettles
  <1>5. CASE ~RejectedEarly(s, c) /\ RejectedLate(s, c) /\ ~Terminal(s)
             /\ Throws(LeftBehind(s, c), m)
    <2> DEFINE n == LeftBehind(s, c)
    <2>1. /\ n \in State /\ Sound(n) /\ ~Terminal(n) /\ n.task \in Tasks
          /\ c.task # NoTask => n.task = c.task
          /\ s.task # NoTask => n.task = s.task
          /\ n.steps = s.steps /\ n.cur = s.cur /\ n.control = s.control
          /\ n.pubRequired = s.pubRequired /\ n.published = s.published
      BY <1>2, <1>5, LeftBehindKeeps
    <2> HIDE DEF s, m, n
    <2>2. s.task = NoTask => n.task = c.task /\ c.task # NoTask
      BY <1>5, <2>1 DEF RejectedEarly
    <2>3. Bound(n, m)
      BY <1>2, <1>3, <2>1, <2>2, NullAssumption DEF Settled, Bound
    <2>4. ASSUME MirroredOnly, m.task # NoTask, ReadableTask(m.task)
          PROVE  m = Resolved(m.task).meta /\ Loose(n) = Loose(Resolved(m.task).st)
      <3>1. m = Resolved(m.task).meta /\ Loose(s) = Loose(Resolved(m.task).st)
            /\ m.task \in Tasks /\ s.task = m.task
        BY <1>2, <2>4 DEF Settled, Follows, Bound, NoMeta
      <3>2. Resolved(m.task).st \in State
        BY <2>4, <3>1, ReadableIsSettled DEF Settled
      <3> QED
        BY <1>2, <2>1, <2>4, <3>1, <3>2, LooseFields
    <2>5. Settled(n, m)
      BY <1>2, <2>1, <2>3, <2>4 DEF Settled, Follows
    <2> QED
      BY <1>1, <1>5, <2>5, ThrowSettles DEF n
  <1>6. CASE passes /\ ~RejectedEarly(s, c) /\ (~RejectedLate(s, c) \/ Terminal(s))
             /\ LET n == Transition(s, c)
                    after == MetaAfter(n.task, m, root)
                    mints == IF after.token = minted + 1 THEN 1 ELSE 0
                IN  minted + mints <= MaxTokens /\ Persist(n, after, mints)
    <2> DEFINE n == Transition(s, c)
               after == MetaAfter(n.task, m, root)
               mints == IF after.token = minted + 1 THEN 1 ELSE 0
    <2>1. /\ n \in State /\ Sound(n) /\ n.task \in Tasks
          /\ c.task # NoTask => n.task = c.task
          /\ ~Switches(s, c) =>
                /\ s.task # NoTask => n.task = s.task
                /\ Terminal(s) => n = s
                /\ \A i \in Steps : Lifts(s, n, i) => n.control = "REVISE" /\ n.cur = i
      BY <1>2, <1>6, TransitionKeeps
    <2>2. m = NoMeta \/ (m.task \in Tasks /\ m.token \in 1 .. minted)
      BY <1>2 DEF Settled, Bound
    <2>3. /\ after \in Meta /\ after.task = n.task /\ after.token \in 1 .. (minted + mints)
          /\ after.claim.token = NoToken
          /\ m.task = n.task => /\ after.gen = m.gen /\ after.token = m.token
                                /\ after.claim.gen > m.claim.gen \/ after.claim = m.claim
                                /\ m.root # NoRoot => after.root = m.root
      BY <1>2, <2>1, <2>2, MetaAfterKeeps
    <2>4. /\ mints \in {0, 1} /\ minted + mints <= MaxTokens /\ Persist(n, after, mints)
      BY <1>6
    <2>5. s.task # n.task => ~HasTask(n.task)
      <3>1. CASE c.task # NoTask
        BY <1>3, <2>1, <3>1
      <3>2. CASE c.task = NoTask
        BY <1>6, <2>1, <3>2 DEF RejectedEarly, Switches
      <3> QED
        BY <3>1, <3>2
    <2> HIDE DEF s, m, n, after, mints
    <2>6. ASSUME MirroredOnly, ReadableTask(n.task)
          PROVE  Extends(Resolved(n.task), [st |-> n, meta |-> after])
      <3> DEFINE e == Resolved(n.task)
      <3>1. s.task = n.task
        BY <2>5, <2>6 DEF HasTask, ReadableTask
      <3>2. /\ m.task = n.task /\ m = e.meta /\ s.steps = e.st.steps
            /\ Terminal(e.st) => Terminal(s) /\ s = e.st
        BY <1>2, <2>1, <2>6, <3>1, BaseFollows
      <3>3. ~Switches(s, c)
        BY <2>1, <3>1 DEF Switches
      <3> HIDE DEF e
      <3> QED
        BY <2>1, <2>3, <3>1, <3>2, <3>3, NullAssumption DEF Extends, Lifts, e
    <2>7. Commits(n, after, mints)
      BY <2>1, <2>3, <2>4, <2>6 DEF Commits, Vouched
    <2> QED
      BY <1>1, <2>1, <2>3, <2>4, <2>7 DEF Saves
  <1> QED
    BY <1>4, <1>5, <1>6 DEF BrainControl

\* recordResult() settles or commits.
LEMMA ResultShape ==
    ASSUME IInv, NEW r \in Result, NEW k, NEW cl, ExecutorResult(r, k, cl)
    PROVE  Settles \/ Saves
  <1> DEFINE s == BaseMem(r.task)
             m == BaseMeta(r.task)
  <1>1. up /\ ~recovery /\ r.task \in Tasks \cup {NoTask}
        /\ (Hydrates(r.task) => ReadableTask(r.task))
    BY DEF ExecutorResult, Result
  <1>2. Settled(s, m) /\ s \in State /\ m \in Meta /\ Sound(s)
    BY <1>1, BaseIsSettled DEF Settled
  <1>3. r.task # NoTask /\ s.task = NoTask => ~HasTask(r.task)
    BY <1>1, BaseIsSettled
  <1>4. CASE Throws(s, m)
    BY <1>1, <1>2, <1>4, ThrowSettles
  <1>5. CASE Throws(LeftByResult(s, r), m)
    <2> DEFINE n == LeftByResult(s, r)
    <2>1. /\ n \in State /\ Sound(n) /\ n.cur = s.cur
          /\ s.task # NoTask => n = s
          /\ s.task = NoTask => n.task \in {NoTask, r.task}
      BY <1>2, LeftByResultKeeps
    <2> HIDE DEF s, m, n
    <2>2. CASE s.task # NoTask
      BY <1>1, <1>2, <1>5, <2>1, <2>2, ThrowSettles DEF n
    <2>3. CASE s.task = NoTask
      <3>1. m = NoMeta /\ NoMeta.task = NoTask
        BY <1>2, <2>3, NullAssumption DEF Settled, Bound, NoMeta
      <3>2. Settled(n, m)
        <4>1. s.cur = NoStep
          BY <1>2, <2>3, NullAssumption DEF Settled, Bound
        <4> QED
          BY <1>2, <1>3, <2>1, <2>3, <3>1, <4>1 DEF Settled, Bound, Follows
      <3> QED
        BY <1>1, <1>5, <3>2, ThrowSettles DEF n
    <2> QED
      BY <2>2, <2>3
  <1>6. CASE ResultAccepted(s, r)
             /\ Persist(RecordResult(s, r),
                        IF m = NoMeta THEN [NoMeta EXCEPT !.task = RecordResult(s, r).task]
                        ELSE [m EXCEPT !.claim = Fence(@)], 0)
    <2> DEFINE n == RecordResult(s, r)
               after == [m EXCEPT !.claim = Fence(@)]
    <2>1. /\ n \in State /\ Sound(n) /\ n.task \in Tasks
          /\ s.task # NoTask => n.task = s.task
          /\ \A i \in Steps : ~Lifts(s, n, i)
      BY <1>2, <1>6, RecordResultKeeps
    <2>2. ~Terminal(s) /\ m # NoMeta /\ m.task \in Tasks /\ s.task = m.task
          /\ m.token \in 1 .. minted
      BY <1>2, <1>6, NullAssumption DEF ResultAccepted, Settled, Bound, NoMeta
    <2>3. n.task = m.task /\ Persist(n, after, 0)
      BY <1>6, <2>1, <2>2, NullAssumption
    <2> HIDE DEF s, m, n
    <2>4. m.claim \in Claim /\ NoClaim \in Claim /\ minted \in Nat
      BY <1>2 DEF Meta, NoClaim, Claim, NoToken, IInv, TypeOK
    <2>5. /\ Fence(m.claim) \in Claim /\ Fence(m.claim).token = NoToken
          /\ Fence(m.claim).gen > m.claim.gen \/ Fence(m.claim) = m.claim
      BY <2>4 DEF Fence, Claim, NoClaim, NoToken
    <2>6. /\ after \in Meta /\ after.task = m.task /\ after.token = m.token /\ after.gen = m.gen
          /\ after.root = m.root /\ after.claim = Fence(m.claim)
      BY <1>2, <2>5 DEF Meta
    <2> HIDE DEF after
    <2>7. ASSUME MirroredOnly, ReadableTask(n.task)
          PROVE  Extends(Resolved(n.task), [st |-> n, meta |-> after])
      <3> DEFINE e == Resolved(n.task)
      <3>1. s.task = n.task
        BY <2>2, <2>3
      <3>2. m = e.meta /\ s.steps = e.st.steps /\ ~Terminal(e.st)
        BY <1>2, <2>1, <2>2, <2>7, <3>1, BaseFollows
      <3> HIDE DEF e
      <3> QED
        BY <2>1, <2>5, <2>6, <3>1, <3>2 DEF Extends, Lifts, e
    <2>8. minted + 0 = minted /\ minted <= MaxTokens
      BY <2>4, DurableBounds DEF IInv, TypeOK
    <2>9. Commits(n, after, 0)
      BY <2>1, <2>2, <2>3, <2>5, <2>6, <2>7, <2>8 DEF Commits, Vouched
    <2> QED
      BY <1>1, <2>1, <2>3, <2>6, <2>9 DEF Saves
  <1> QED
    BY <1>4, <1>5, <1>6 DEF ExecutorResult

\* loadTask() settles on what is committed.
LEMMA LoadShape ==
    ASSUME IInv, NEW t \in Tasks, LoadTask(t)
    PROVE  Settles
  <1>1. up /\ ReadableTask(t)
    BY DEF LoadTask
  <1>2. Settled(Resolved(t).st, Resolved(t).meta)
    BY <1>1, ReadableIsSettled
  <1> QED
    BY <1>1, <1>2 DEF LoadTask, Settles, Settled

\* takeover() commits the same lifecycle state under a new authority.
LEMMA TakeoverShape ==
    ASSUME IInv, NEW t \in Tasks, NEW k, NEW root \in Roots \cup {NoRoot}, Takeover(t, k, root)
    PROVE  Saves
  <1> DEFINE e == Resolved(t)
             after == TakeoverMeta(e.meta, root)
  <1>1. up /\ ~recovery /\ minted < MaxTokens /\ ReadableTask(t) /\ RootCompatible(t, root)
        /\ Persist(e.st, after, 1)
    BY DEF Takeover, Present
  <1>2. e.st \in State /\ e.meta \in Meta /\ Vouched(e, t, minted)
    BY <1>1, ReadableIsSettled DEF Settled
  <1>3. root # NoRoot /\ e.meta.root # NoRoot => root = e.meta.root
    BY <1>1, NullAssumption DEF RootCompatible, HasTask, ReadableTask
  <1> HIDE DEF e
  <1>4. minted \in Nat /\ MaxTokens \in Nat /\ e.meta.claim \in Claim /\ NoClaim \in Claim
    BY <1>2, DurableBounds DEF Meta, NoClaim, Claim, NoToken, IInv, TypeOK
  <1>5. /\ Fence(e.meta.claim) \in Claim /\ Fence(e.meta.claim).token = NoToken
        /\ Fence(e.meta.claim).gen > e.meta.claim.gen \/ Fence(e.meta.claim) = e.meta.claim
    BY <1>4 DEF Fence, Claim, NoClaim, NoToken
  <1>6. after = [task |-> e.meta.task, root |-> IF root = NoRoot THEN e.meta.root ELSE root,
                 gen |-> e.meta.gen + 1, token |-> minted + 1, claim |-> Fence(e.meta.claim)]
    <2> DEFINE x == [task |-> e.meta.task, root |-> e.meta.root, gen |-> e.meta.gen,
                     token |-> e.meta.token, claim |-> e.meta.claim]
    <2>1. e.meta = x
      BY <1>2 DEF Meta
    <2>2. after = [x EXCEPT !.gen = @ + 1, !.token = minted + 1, !.claim = Fence(@),
                            !.root = IF root = NoRoot THEN @ ELSE root]
      BY <2>1 DEF TakeoverMeta
    <2> QED
      BY <2>2
  <1> HIDE DEF after
  <1>7. e.meta.gen \in Nat /\ e.meta.root \in Roots \cup {NoRoot}
        /\ e.meta.task \in Tasks \cup {NoTask}
    BY <1>2 DEF Meta
  <1>8. after \in Meta
    BY <1>4, <1>5, <1>6, <1>7 DEF Meta
  <1>9. Extends(e, [st |-> e.st, meta |-> after])
    BY <1>3, <1>5, <1>6, <1>7 DEF Extends, Lifts
  <1>10. Commits(e.st, after, 1)
    BY <1>1, <1>2, <1>4, <1>5, <1>6, <1>8, <1>9 DEF Commits, Vouched, e
  <1> QED
    BY <1>1, <1>2, <1>8, <1>10 DEF Saves, e

\* claimExecution() settles on what is committed, or commits a claim of the step.
LEMMA ClaimShape ==
    ASSUME IInv, NEW t \in Tasks, NEW i \in Steps, NEW root, ClaimExecution(t, i, root)
    PROVE  Settles \/ Saves
  <1> DEFINE e == Resolved(t)
             after == ClaimMeta(e.meta, i)
             grants == e.meta.token # NoToken /\ Claimable(e.st, i)
  <1>1. up /\ ~recovery /\ minted < MaxTokens /\ ReadableTask(t)
    BY DEF ClaimExecution, Active, Present
  <1>2. e.st \in State /\ e.meta \in Meta /\ Vouched(e, t, minted) /\ Settled(e.st, e.meta)
    BY <1>1, ReadableIsSettled DEF Settled
  <1>3. CASE Throws(e.st, e.meta)
    BY <1>1, <1>2, <1>3, ThrowSettles
  <1>4. CASE grants /\ Persist(e.st, after, 1)
    <2> HIDE DEF e
    <2>1. minted \in Nat /\ MaxTokens \in Nat /\ e.meta.claim \in Claim
      BY <1>2, DurableBounds DEF Meta, IInv, TypeOK
    <2>2. e.meta.claim.gen \in Nat /\ e.meta.gen \in Nat /\ e.meta.root \in Roots \cup {NoRoot}
      BY <1>2, <2>1 DEF Meta, Claim
    <2> DEFINE cl == [gen |-> e.meta.claim.gen + 1, token |-> minted + 1, step |-> i,
                      root |-> e.meta.root, parent |-> e.meta.gen]
    <2>3. cl \in Claim
      BY <2>1, <2>2 DEF Claim
    <2>4. after = [e.meta EXCEPT !.claim = cl]
      BY DEF ClaimMeta
    <2>5. /\ cl.gen = e.meta.claim.gen + 1 /\ cl.token = minted + 1 /\ cl.step = i
          /\ cl.root = e.meta.root /\ cl.parent = e.meta.gen
      OBVIOUS
    <2> HIDE DEF after, cl
    <2>6. /\ after \in Meta /\ after.task = e.meta.task /\ after.token = e.meta.token
          /\ after.gen = e.meta.gen /\ after.root = e.meta.root /\ after.claim = cl
      BY <1>2, <2>3, <2>4 DEF Meta
    <2>7. Extends(e, [st |-> e.st, meta |-> after])
      BY <2>2, <2>5, <2>6 DEF Extends, Lifts
    <2>8. Vouched([st |-> e.st, meta |-> after], t, minted + 1)
      BY <1>2, <1>4, <2>1, <2>5, <2>6 DEF Vouched
    <2>9. Commits(e.st, after, 1)
      BY <1>1, <1>2, <2>1, <2>6, <2>7, <2>8 DEF Commits, Vouched, e
    <2> QED
      BY <1>1, <1>2, <1>4, <2>6, <2>9 DEF Saves, e
  <1> QED
    BY <1>3, <1>4 DEF ClaimExecution

(***************************************************************************)
(* What the steps do to the files, and that the invariant survives them.   *)
(***************************************************************************)
\* A write, whatever its outcome, leaves each readable file as it was or makes it the
\* envelope that was to be written.
LEMMA SavedFiles ==
    ASSUME IInv, NEW s \in State, NEW m \in Meta, NEW mints \in {0, 1},
           Commits(s, m, mints), Persist(s, m, mints)
    PROVE  /\ \A t \in Tasks :
                 ReadableTask(t)' =>
                    \/ ReadableTask(t) /\ Resolved(t)' = Resolved(t)
                    \/ t = s.task /\ Resolved(t)' = [st |-> s, meta |-> m]
           /\ prim' \in [Tasks -> File] /\ bak' \in [Tasks -> File]
           /\ minted' \in 0 .. MaxTokens /\ minted' >= minted
           /\ (\A t \in Tasks : Named(prim[t], t)' /\ Named(bak[t], t)') /\ FilesVouched'
  <1> DEFINE env == [st |-> s, meta |-> m]
             file == Saved(env)
  <1>1. /\ s.task \in Tasks /\ env \in Envelope /\ file \in File /\ minted \in Nat
        /\ file.kind = "ok" /\ file.env = env /\ env.st = s /\ env.meta = m
        /\ Vouched(env, s.task, minted + mints) /\ minted + mints <= MaxTokens
    BY DEF Commits, Saved, File, Envelope, IInv, TypeOK
  <1>2. \/ /\ prim' = [prim EXCEPT ![s.task] = file] /\ minted' = minted + mints
           /\ bak' \in {bak, [bak EXCEPT ![s.task] = file]}
        \/ UNCHANGED <<prim, bak, minted>>
    BY DEF Persist
  <1>3. ASSUME NEW e, NEW t, Vouched(e, t, minted)
        PROVE  Vouched(e, t, minted + mints)
    BY <1>1, <1>3 DEF Vouched
  <1>4. CASE /\ prim' = [prim EXCEPT ![s.task] = file] /\ minted' = minted + mints
             /\ bak' \in {bak, [bak EXCEPT ![s.task] = file]}
    <2> HIDE DEF file
    <2>1. /\ prim' \in [Tasks -> File] /\ bak' \in [Tasks -> File]
          /\ minted' \in 0 .. MaxTokens /\ minted' >= minted
      BY <1>1, <1>4, DurableBounds DEF IInv, TypeOK
    <2>2. ASSUME NEW t \in Tasks
          PROVE  /\ prim'[t] = IF t = s.task THEN file ELSE prim[t]
                 /\ bak'[t] = bak[t] \/ (t = s.task /\ bak'[t] = file)
      BY <1>1, <1>4 DEF IInv, TypeOK
    <2>3. ASSUME NEW t \in Tasks, ReadableTask(t)'
          PROVE  \/ ReadableTask(t) /\ Resolved(t)' = Resolved(t)
                 \/ t = s.task /\ Resolved(t)' = env
      BY <1>1, <2>2, <2>3 DEF ReadableTask, Resolved
    <2>4. ASSUME NEW t \in Tasks
          PROVE  Named(prim[t], t)' /\ Named(bak[t], t)'
      <3>1. Named(file, t) \/ t # s.task
        BY <1>1 DEF Named, Vouched
      <3>2. Named(prim[t], t) /\ Named(bak[t], t)
        BY DEF IInv, TypeOK
      <3> QED
        BY <2>2, <3>1, <3>2 DEF Named
    <2>5. ASSUME NEW t \in Tasks
          PROVE  /\ prim'[t].kind = "ok" => Vouched(prim'[t].env, t, minted')
                 /\ bak'[t].kind = "ok" => Vouched(bak'[t].env, t, minted')
      <3>1. /\ prim[t].kind = "ok" => Vouched(prim[t].env, t, minted')
            /\ bak[t].kind = "ok" => Vouched(bak[t].env, t, minted')
        BY <1>3, <1>4 DEF IInv, FilesVouched
      <3>2. t = s.task => Vouched(file.env, t, minted')
        BY <1>1, <1>4
      <3> QED
        BY <2>2, <3>1, <3>2
    <2> QED
      BY <2>1, <2>3, <2>4, <2>5 DEF FilesVouched, Vouched
  <1>5. CASE UNCHANGED <<prim, bak, minted>>
    BY <1>1, <1>5 DEF IInv, TypeOK, FilesVouched, Vouched, Named, ReadableTask, Resolved
  <1> QED
    BY <1>2, <1>4, <1>5

\* The invariant survives an operation without a write.
LEMMA SettlesKeeps ==
    ASSUME IInv, Settles
    PROVE  IInv'
  <1>1. PICK s \in State, m \in Meta :
              /\ up /\ Settled(s, m)
              /\ mem' = s /\ meta' = m /\ recovery' = FALSE
              /\ UNCHANGED <<up, prim, bak, minted, faults>>
    BY DEF Settles
  <1>2. TypeOK'
    BY <1>1 DEF IInv, TypeOK, Named
  <1>3. FilesVouched'
    BY <1>1 DEF IInv, FilesVouched
  <1>4. MemorySettled'
    BY <1>1 DEF MemorySettled, Settled, Bound, Follows, HasTask, ReadableTask, Resolved
  <1> QED
    BY <1>2, <1>3, <1>4 DEF IInv

\* It survives every outcome of a write.
LEMMA SavesKeeps ==
    ASSUME IInv, Saves
    PROVE  IInv'
  <1>1. PICK s \in State, m \in Meta, mints \in {0, 1} :
              up /\ ~recovery /\ Commits(s, m, mints) /\ Persist(s, m, mints)
    BY DEF Saves
  <1> DEFINE file == Saved([st |-> s, meta |-> m])
  <1>2. /\ prim' \in [Tasks -> File] /\ bak' \in [Tasks -> File]
        /\ minted' \in 0 .. MaxTokens /\ minted' >= minted
        /\ (\A t \in Tasks : Named(prim[t], t)' /\ Named(bak[t], t)') /\ FilesVouched'
    BY <1>1, SavedFiles
  <1>3. /\ s.task \in Tasks /\ m.task = s.task /\ Sound(s)
        /\ m.token \in 1 .. (minted + mints) /\ minted \in Nat
    BY <1>1 DEF Commits, Vouched, IInv, TypeOK
  <1>4. CASE /\ prim' = [prim EXCEPT ![s.task] = file]
             /\ mem' = s /\ meta' = m /\ minted' = minted + mints
             /\ UNCHANGED <<up, recovery>>
             /\ faults' = faults \/ (faults < MaxFaults /\ faults' = faults + 1)
    <2>1. prim'[s.task] = file /\ file.kind = "ok" /\ file.env = [st |-> s, meta |-> m]
      BY <1>3, <1>4 DEF IInv, TypeOK, Saved
    <2> HIDE DEF file
    <2>2. Settled(s, m)'
      BY <1>3, <1>4, <2>1 DEF Settled, Bound, Follows, ReadableTask, Resolved
    <2>3. MemorySettled'
      BY <1>1, <1>4, <2>2 DEF MemorySettled, Settled, Bound, Follows, HasTask, ReadableTask, Resolved
    <2>4. TypeOK'
      BY <1>1, <1>2, <1>4, DurableBounds DEF IInv, TypeOK
    <2> QED
      BY <1>2, <2>3, <2>4 DEF IInv
  <1>5. CASE /\ RestoreCommitted(s.task, s, m)
             /\ faults < MaxFaults /\ faults' = faults + 1
             /\ UNCHANGED <<up, prim, bak, minted>>
    <2>1. TypeOK' /\ FilesVouched'
      <3>1. /\ mem' \in State /\ meta' \in Meta /\ recovery' \in BOOLEAN
        BY <1>3, <1>5, ReadableIsSettled DEF RestoreCommitted, Settled
      <3> QED
        BY <1>1, <1>2, <1>5, <3>1, DurableBounds DEF IInv, TypeOK
    <2>2. MemorySettled'
      <3>1. CASE ReadableTask(s.task)
        <4> DEFINE e == Resolved(s.task)
        <4>1. Settled(e.st, e.meta) /\ mem' = e.st /\ meta' = e.meta /\ recovery' = FALSE
          BY <1>3, <1>5, <3>1, ReadableIsSettled DEF RestoreCommitted
        <4> HIDE DEF e
        <4> QED
          BY <1>1, <1>5, <4>1 DEF MemorySettled, Settled, Bound, Follows, HasTask,
             ReadableTask, Resolved
      <3>2. CASE ~ReadableTask(s.task)
        BY <1>1, <1>5, <3>2 DEF RestoreCommitted, MemorySettled
      <3> QED
        BY <3>1, <3>2
    <2> QED
      BY <2>1, <2>2 DEF IInv
  <1>6. CASE /\ up' = FALSE /\ mem' = FreshState /\ meta' = NoMeta /\ recovery' = FALSE
             /\ faults < MaxFaults /\ faults' = faults + 1
    <2>1. mem' \in State /\ meta' \in Meta
      BY <1>6, StepValues DEF Meta, NoMeta, Claim, NoClaim, NoToken
    <2>2. faults' \in 0 .. MaxFaults
      BY <1>6, DurableBounds DEF IInv, TypeOK
    <2>3. TypeOK'
      BY <1>2, <1>6, <2>1, <2>2 DEF TypeOK
    <2> QED
      BY <1>2, <1>6, <2>3 DEF IInv, MemorySettled
  <1> QED
    BY <1>1, <1>4, <1>5, <1>6 DEF Persist

\* A file that goes bad stays a candidate, and in the mirrored case no older file takes
\* the place of a readable one.
LEMMA CorruptFiles ==
    ASSUME IInv, NEW t \in Tasks, CorruptPrimary(t) \/ CorruptBackup(t)
    PROVE  /\ \A u \in Tasks :
                 /\ HasTask(u)' <=> HasTask(u)
                 /\ MirroredOnly /\ ReadableTask(u)' =>
                       ReadableTask(u) /\ Resolved(u)' = Resolved(u)
           /\ prim' \in [Tasks -> File] /\ bak' \in [Tasks -> File]
           /\ (\A u \in Tasks : Named(prim[u], u)' /\ Named(bak[u], u)') /\ FilesVouched'
           /\ faults < MaxFaults /\ faults' = faults + 1
           /\ UNCHANGED <<up, mem, meta, recovery, minted>>
  <1>1. Corrupt \in File /\ Corrupt.kind = "corrupt"
    BY StepValues DEF Corrupt, NoFile, File, Envelope, Meta, NoMeta, Claim, NoClaim, NoToken
  <1>2. \A u \in Tasks : /\ prim[u] \in File /\ bak[u] \in File
                         /\ Named(prim[u], u) /\ Named(bak[u], u)
    BY DEF IInv, TypeOK
  <1>3. CASE CorruptPrimary(t)
    <2>1. /\ prim[t].kind = "ok" /\ bak' = bak
          /\ \A u \in Tasks : prim'[u] = IF u = t THEN Corrupt ELSE prim[u]
          /\ MirroredOnly => bak[t].kind = "corrupt" \/ bak[t] = prim[t]
          /\ prim' \in [Tasks -> File] /\ bak' \in [Tasks -> File]
          /\ faults < MaxFaults /\ faults' = faults + 1
          /\ UNCHANGED <<up, mem, meta, recovery, minted>>
      BY <1>1, <1>3 DEF CorruptPrimary, IInv, TypeOK
    <2>2. FilesVouched' /\ \A u \in Tasks : Named(prim[u], u)' /\ Named(bak[u], u)'
      BY <1>1, <1>2, <2>1 DEF FilesVouched, IInv, Named
    <2> QED
      BY <1>1, <2>1, <2>2 DEF HasTask, ReadableTask, Resolved
  <1>4. CASE CorruptBackup(t)
    <2>1. /\ bak[t].kind = "ok" /\ prim' = prim
          /\ \A u \in Tasks : bak'[u] = IF u = t THEN Corrupt ELSE bak[u]
          /\ prim' \in [Tasks -> File] /\ bak' \in [Tasks -> File]
          /\ faults < MaxFaults /\ faults' = faults + 1
          /\ UNCHANGED <<up, mem, meta, recovery, minted>>
      BY <1>1, <1>4 DEF CorruptBackup, IInv, TypeOK
    <2>2. FilesVouched' /\ \A u \in Tasks : Named(prim[u], u)' /\ Named(bak[u], u)'
      BY <1>1, <1>2, <2>1 DEF FilesVouched, IInv, Named
    <2> QED
      BY <1>1, <2>1, <2>2 DEF HasTask, ReadableTask, Resolved
  <1> QED
    BY <1>3, <1>4

LEMMA CorruptKeeps ==
    ASSUME IInv, NEW t \in Tasks, CorruptPrimary(t) \/ CorruptBackup(t)
    PROVE  IInv'
  <1>1. TypeOK'
    BY CorruptFiles, DurableBounds DEF IInv, TypeOK
  <1>2. ASSUME up, ~recovery
        PROVE  Settled(mem, meta)'
    <2>1. Settled(mem, meta)
      BY <1>2 DEF IInv, MemorySettled
    <2>2. Bound(mem, meta)' /\ (MirroredOnly => Follows(mem, meta)')
      <3>1. meta.task \in Tasks \cup {NoTask} /\ mem.task \in Tasks \cup {NoTask}
        BY <2>1 DEF Settled, Meta, State
      <3>2. meta' = meta /\ mem' = mem /\ minted' = minted
        BY CorruptFiles
      <3>3. mem.task # NoTask => (HasTask(mem.task)' <=> HasTask(mem.task))
        BY <3>1, <3>2, CorruptFiles DEF HasTask
      <3>4. MirroredOnly /\ meta.task # NoTask /\ ReadableTask(meta.task)' =>
                ReadableTask(meta.task) /\ Resolved(meta.task)' = Resolved(meta.task)
        BY <3>1, <3>2, CorruptFiles DEF ReadableTask, Resolved
      <3> QED
        BY <2>1, <3>1, <3>2, <3>3, <3>4 DEF Settled, Bound, Follows
    <2> QED
      BY <2>1, <2>2, CorruptFiles DEF Settled
  <1>3. MemorySettled'
    BY <1>2, CorruptFiles DEF IInv, MemorySettled
  <1> QED
    BY <1>1, <1>3, CorruptFiles DEF IInv

----------------------------------------------------------------------------
(* The invariant holds of every behaviour, and what follows from it. *)
\* The process dies or starts: an empty memory, the same files.
Restarts == /\ mem' = FreshState /\ meta' = NoMeta /\ recovery' = FALSE /\ up' \in BOOLEAN
            /\ UNCHANGED <<prim, bak, minted, faults>>

LEMMA NextShape ==
    ASSUME IInv, Next
    PROVE  Settles \/ Saves \/ Restarts \/ \E t \in Tasks : CorruptPrimary(t) \/ CorruptBackup(t)
  <1>1. ASSUME NEW c \in ControlCalls, NEW k \in Tokens, BrainControl(c.call, c.root, k)
        PROVE  Settles \/ Saves
    BY <1>1, ControlShape, CallsAssumption
  <1>2. ASSUME NEW r \in ResultCalls, NEW k \in Tokens,
               ExecutorResult(r, k, NoToken) \/ ExecutorResult(r, NoToken, k)
        PROVE  Settles \/ Saves
    BY <1>2, ResultShape, CallsAssumption
  <1>3. ASSUME NEW t \in Tasks, LoadTask(t)
        PROVE  Settles
    BY <1>3, LoadShape
  <1>4. ASSUME NEW t \in Tasks, NEW k \in Tokens, NEW root \in Roots \cup {NoRoot},
               Takeover(t, k, root)
        PROVE  Saves
    BY <1>4, TakeoverShape
  <1>5. ASSUME NEW t \in Tasks, NEW i \in Steps, NEW root \in Roots, ClaimExecution(t, i, root)
        PROVE  Settles \/ Saves
    BY <1>5, ClaimShape
  <1>6. ASSUME Stop \/ Start
        PROVE  Restarts
    BY <1>6 DEF Stop, Start, Restarts, IInv, MemorySettled, TypeOK
  <1> QED
    BY <1>1, <1>2, <1>3, <1>4, <1>5, <1>6 DEF Next

\* The invariant is inductive.
LEMMA Inductive == Spec => []IInv
  <1>1. Init => IInv
    <2> SUFFICES ASSUME Init PROVE IInv
      OBVIOUS
    <2>1. NoFile \in File /\ NoFile.kind = "none" /\ NoMeta \in Meta
      BY StepValues DEF NoFile, File, Envelope, Meta, NoMeta, Claim, NoClaim, NoToken
    <2>2. TypeOK
      <3>1. prim \in [Tasks -> File] /\ bak \in [Tasks -> File]
            /\ \A t \in Tasks : Named(prim[t], t) /\ Named(bak[t], t)
        BY <2>1 DEF Init, Named
      <3>2. 0 \in 0 .. MaxTokens /\ 0 \in 0 .. MaxFaults
        BY DurableBounds
      <3> QED
        BY <2>1, <3>1, <3>2, StepValues DEF Init, TypeOK
    <2>3. FilesVouched
      BY <2>1 DEF Init, FilesVouched
    <2>4. MemorySettled
      BY <2>1, StepValues DEF Init, MemorySettled, Settled, Bound, Follows, FreshState, NoMeta
    <2> QED
      BY <2>2, <2>3, <2>4 DEF IInv
  <1>2. IInv /\ [Next]_gvars => IInv'
    <2> SUFFICES ASSUME IInv, [Next]_gvars PROVE IInv'
      OBVIOUS
    <2>1. CASE Settles \/ Saves \/ \E t \in Tasks : CorruptPrimary(t) \/ CorruptBackup(t)
      BY <2>1, SettlesKeeps, SavesKeeps, CorruptKeeps
    <2>2. CASE Restarts
      <3>1. mem' \in State /\ meta' \in Meta
        BY <2>2, StepValues DEF Restarts, Meta, NoMeta, Claim, NoClaim, NoToken
      <3>2. TypeOK' /\ FilesVouched'
        BY <2>2, <3>1 DEF Restarts, IInv, TypeOK, FilesVouched, Named
      <3>3. Settled(mem, meta)'
        BY <2>2, <3>1, StepValues DEF Restarts, Settled, Bound, Follows, FreshState, NoMeta
      <3> QED
        BY <2>2, <3>2, <3>3 DEF Restarts, IInv, MemorySettled
    <2>3. CASE UNCHANGED gvars
      BY <2>3 DEF gvars, IInv, TypeOK, FilesVouched, MemorySettled, Settled, Bound, Follows,
         HasTask, ReadableTask, Resolved, Named
    <2> QED
      BY <2>1, <2>2, <2>3, NextShape
  <1> QED
    BY <1>1, <1>2, PTL DEF Spec

\* The state stays well typed, and every task file holds the envelope of its own task.
THEOREM TypeCorrect == Spec => []TypeOK
  <1>1. IInv => TypeOK
    BY DEF IInv
  <1> QED
    BY <1>1, Inductive, PTL

\* An active execution claim, of any task, is for the step that the current authority
\* issued and whose RESULT is still out.
THEOREM ClaimsAreExecutable == Spec => []ActiveClaimIsExecutable
  <1>1. IInv => ActiveClaimIsExecutable
    BY ReadableIsSettled DEF ActiveClaimIsExecutable, Present, Vouched
  <1> QED
    BY <1>1, Inductive, PTL

\* Acceptance and DONE, in any readable file, stand on executor success, on passing
\* evidence for the whole contract and on the publication that is required.
THEOREM AcceptanceEarned == Spec => []AcceptanceIsEarned
  <1>1. IInv => AcceptanceIsEarned
    <2> SUFFICES ASSUME IInv, NEW t \in Present
                 PROVE  LET s == Resolved(t).st IN
                        /\ \A i \in Steps : s.steps[i].brain = "accepted" =>
                               /\ StepHardOk(s, i)
                               /\ \A a \in s.steps[i].need : s.steps[i].evidence[a] = "pass"
                        /\ Terminal(s) => /\ Issued(s, s.cur)
                                          /\ s.steps[s.cur].brain = "accepted"
                                          /\ s.pubRequired => s.published
      BY DEF AcceptanceIsEarned
    <2> DEFINE s == Resolved(t).st
    <2>1. s \in State /\ Sound(s)
      BY ReadableIsSettled DEF Present, Settled
    <2> HIDE DEF s
    <2>2. ASSUME NEW i \in Steps, s.steps[i].brain = "accepted"
          PROVE  StepHardOk(s, i) /\ \A a \in s.steps[i].need : s.steps[i].evidence[a] = "pass"
      BY <2>1, <2>2, NullAssumption DEF Sound, StepSound, StepHardOk, Issued
    <2>3. Terminal(s) => /\ Issued(s, s.cur) /\ s.steps[s.cur].brain = "accepted"
                         /\ s.pubRequired => s.published
      BY <2>1 DEF Sound, Issued
    <2> QED
      BY <2>2, <2>3 DEF s
  <1> QED
    BY <1>1, Inductive, PTL

(***************************************************************************)
(* What needs MirroredOnly: when a primary goes bad over an older backup,  *)
(* the task goes back to that backup, and none of the following holds.     *)
(***************************************************************************)
\* A runtime that is not recovery-required works on the committed snapshot.
THEOREM MemoryFollows ==
    ASSUME MirroredOnly
    PROVE  Spec => []MemoryFollowsCommit
  <1>1. IInv => MemoryFollowsCommit
    <2> SUFFICES ASSUME IInv, up, ~recovery, meta # NoMeta, ReadableTask(meta.task)
                 PROVE  /\ meta = Resolved(meta.task).meta
                        /\ Loose(mem) = Loose(Resolved(meta.task).st)
      BY DEF MemoryFollowsCommit, Loose
    <2> QED
      BY MirroredOnly, NullAssumption DEF IInv, MemorySettled, Settled, Bound, Follows
  <1> QED
    BY <1>1, Inductive, PTL

\* A new Codex turn opens only under the committed Parent token of an unfinished task,
\* and a claimed execution only under its committed claim.
THEOREM AuthorizationCommitted ==
    ASSUME MirroredOnly
    PROVE  Spec => []AuthorizationIsCommitted
  <1>1. IInv => AuthorizationIsCommitted
    <2> SUFFICES ASSUME IInv, NEW k \in Tokens, NEW root \in Roots \cup {NoRoot},
                        up, ~recovery, meta # NoMeta, ReadableTask(meta.task)
                 PROVE  LET e == Resolved(meta.task) IN
                        /\ MutationAuthorized(k, root) =>
                              e.meta.token = k /\ e.meta.root = root /\ ~Terminal(e.st)
                        /\ ExecutionAuthorized(k, root) =>
                              e.meta.claim.token = k /\ Claimable(e.st, e.meta.claim.step)
      BY DEF AuthorizationIsCommitted, MutationAuthorized, ExecutionAuthorized, ClaimOk
    <2> DEFINE e == Resolved(meta.task)
    <2>1. Settled(mem, meta) /\ meta.task \in Tasks /\ mem.task = meta.task
      BY NullAssumption DEF IInv, MemorySettled, Settled, Bound
    <2>2. /\ meta = e.meta /\ (Terminal(mem) <=> Terminal(e.st)) /\ Vouched(e, meta.task, minted)
      BY <2>1, MirroredOnly, BaseFollows, ReadableIsSettled
    <2> HIDE DEF e
    <2> QED
      BY <2>2 DEF MutationAuthorized, ExecutionAuthorized, ClaimOk, Vouched, e
  <1> QED
    BY <1>1, Inductive, PTL

\* Whatever a step does to a readable file, it extends it.
LEMMA StepExtends ==
    ASSUME MirroredOnly, IInv, [Next]_gvars, NEW t \in Tasks, ReadableTask(t), ReadableTask(t)'
    PROVE  Resolved(t)' = Resolved(t) \/ Extends(Resolved(t), Resolved(t)')
  <1>1. CASE Settles \/ Restarts \/ UNCHANGED gvars
    BY <1>1 DEF Settles, Restarts, gvars, Resolved
  <1>2. CASE Saves
    <2>1. PICK s \in State, m \in Meta, mints \in {0, 1} :
                Commits(s, m, mints) /\ Persist(s, m, mints)
      BY <1>2 DEF Saves
    <2>2. \/ Resolved(t)' = Resolved(t)
          \/ t = s.task /\ Resolved(t)' = [st |-> s, meta |-> m]
      BY <2>1, SavedFiles
    <2> QED
      BY <2>1, <2>2, MirroredOnly DEF Commits
  <1>3. CASE \E u \in Tasks : CorruptPrimary(u) \/ CorruptBackup(u)
    BY <1>3, MirroredOnly, CorruptFiles
  <1> QED
    BY <1>1, <1>2, <1>3, NextShape

\* Authority and claim generations only grow, a token changes only with its generation
\* and the bound root stays, whatever writes fail and processes die.
THEOREM AuthorityMonotone ==
    ASSUME MirroredOnly
    PROVE  Spec => AuthorityNeverReverts
  <1>1. IInv /\ [Next]_gvars =>
            [\A t \in Tasks : ReadableTask(t) /\ ReadableTask(t)' =>
                LET m == Resolved(t).meta
                    n == Resolved(t).meta'
                IN  /\ n.gen > m.gen \/ (n.gen = m.gen /\ n.token = m.token)
                    /\ n.claim.gen > m.claim.gen \/ n.claim = m.claim
                    /\ m.root # NoRoot => n.root = m.root]_gvars
    BY MirroredOnly, StepExtends DEF Extends
  <1> QED
    BY <1>1, Inductive, PTL DEF Spec, AuthorityNeverReverts

\* No step changes the lifecycle state of a finished task.
THEOREM DoneImmutable ==
    ASSUME MirroredOnly
    PROVE  Spec => DoneIsImmutable
  <1>1. IInv /\ [Next]_gvars =>
            [\A t \in Tasks : ReadableTask(t) /\ ReadableTask(t)' /\ Terminal(Resolved(t).st)
                 => Resolved(t).st' = Resolved(t).st]_gvars
    BY MirroredOnly, StepExtends DEF Extends
  <1> QED
    BY <1>1, Inductive, PTL DEF Spec, DoneIsImmutable

\* Only a committed REVISE of the step lifts the gate that its RESULT left.
THEOREM ResultKept ==
    ASSUME MirroredOnly
    PROVE  Spec => ResultIsKept
  <1>1. IInv /\ [Next]_gvars =>
            [\A t \in Tasks, i \in Steps :
                 /\ ReadableTask(t) /\ ReadableTask(t)'
                 /\ Resolved(t).st.steps[i].gate # "pending"
                 /\ Resolved(t).st'.steps[i].gate = "pending"
                 => Resolved(t).st'.control = "REVISE" /\ Resolved(t).st'.cur = i]_gvars
    BY MirroredOnly, StepExtends DEF Extends, Lifts
  <1> QED
    BY <1>1, Inductive, PTL DEF Spec, ResultIsKept
=============================================================================
