-------------------------- MODULE CodexExecutorProofs --------------------------
(***************************************************************************)
(* Who owns the workspace while Codex turns run, for any number of jobs,   *)
(* units, concurrent calls, server exits and runtime deaths.               *)
(*                                                                         *)
(* The owner is released by what was read of a turn, so the invariant says *)
(* what a record and a snapshot of it may be wrong about: a binding names  *)
(* the unit its turn was started for, or one whose turn is over (Dead).    *)
(* Then the unit that is released is never the one whose turn runs.  Most  *)
(* steps dispatch nothing (CalmKeeps); start, the answers of thread/start  *)
(* and of the settings update, and continue mint or dispatch (MovesKeeps). *)
(*                                                                         *)
(* With one call at a time and no runtime death more is so: a binding of a *)
(* writer is never wrong, because a turn that is not bound yet is that of  *)
(* the current unit, which still has the workspace (OwnInv).               *)
(***************************************************************************)
EXTENDS CodexExecutor, TLAPS

\* A unit that a call will still dispatch, and one that continue was asked for.
Pending(u) == \E c \in Callers : call[c].pc \in {"thread", "settings"} /\ call[c].unit = u
Asked(u) == \E c \in Callers : call[c].pc = "settings" /\ call[c].op = "continue"
                               /\ call[c].unit = u

Live(u) == turn[u] \in {"sent", "running"}
Ran(u) == turn[u] \in {"running", "ended"}
\* Bound in this runtime, or told of: a notification of the turn cannot bind it any more.
Seen(u) == cache[u] # NoUnit \/ noted[u] # 0
\* The turn may run, or may still be bound to the job's current unit.
Unsettled(u) == Live(u) \/ (turn[u] = "ended" /\ ~Seen(u))
\* A unit whose turn is over or will never be.
Dead(u) == home[u] # NoJob /\ ~Pending(u) /\ ~Unsettled(u)

Here(r) == r.state # "absent"

\* What holds of a record of job j, stored or taken into a snapshot.  A binding is true or
\* names a dead unit; and if the turn that runs is falsely bound, no ended turn is unbound.
RecordFits(r, j) ==
  /\ Here(r) /\ Here(job[j]) /\ r.writer = job[j].writer
  /\ r.unit # NoUnit /\ home[r.unit] = j /\ ~Asked(r.unit)
  /\ \A b \in Units : r.bound[b] # NoUnit => home[b] = j /\ Ran(b) /\ Seen(b)
  /\ r.writer =>
       /\ \A b \in Units : r.bound[b] \in {NoUnit, b} \/ Dead(r.bound[b])
       /\ \A x, b \in Units :
            Live(x) /\ r.bound[x] \notin {NoUnit, x} /\ home[b] = j /\ turn[b] = "ended"
              => r.bound[b] # NoUnit

JobFits(j) ==
  IF Here(job[j]) THEN RecordFits(job[j], j)
  ELSE job[j] = Absent /\ \A u \in Units : home[u] # j

SnapshotFits(c) == \A j \in Jobs : call[c].snap[j] = Absent \/ RecordFits(call[c].snap[j], j)

UnitFits(u) ==
  /\ turn[u] # "none" \/ cache[u] # NoUnit => home[u] # NoJob
  /\ home[u] # NoJob /\ job[home[u]].writer =>
       /\ Unsettled(u) => owner.unit = u /\ job[home[u]].unit = u
       /\ cache[u] \in {NoUnit, u} \/ Dead(cache[u])

OwnerFits ==
  /\ owner.st # "reconciled"
  /\ owner.unit # NoUnit => home[owner.unit] # NoJob /\ ~Pending(owner.unit)
  /\ local => owner.who = "chatgpt"

\* A job that start is still preparing has no other unit's turn and is not verified.
Preparing(c) ==
  LET j == call[c].job IN
  /\ job[j].unit = call[c].unit /\ ~job[j].verified
  /\ call[c].pc = "thread" => ~job[j].thread
  /\ \A u \in Units : home[u] = j => turn[u] = "none"

\* What was read is still so: nothing was dispatched meanwhile.
ViewFits(c) ==
  \A u \in Units :
    /\ call[c].view[u] # "none" => home[u] = call[c].job /\ Ran(u)
    /\ call[c].view[u] = "ended" => turn[u] = "ended"
    /\ home[u] = call[c].job /\ call[c].view[u] = "none" => turn[u] = "none"

CallFits(c) ==
  /\ call[c].pc \in {"thread", "settings", "forgotten", "turn"} =>
       call[c].unit # NoUnit /\ call[c].job # NoJob /\ home[call[c].unit] = call[c].job
  /\ call[c].pc \in {"thread", "settings"} =>
       /\ turn[call[c].unit] = "none"
       /\ call[c].op = "start" => Preparing(c)
       /\ call[c].op # "start" => call[c].op = "continue" /\ call[c].pc = "settings"
  /\ call[c].pc \in {"get", "observe", "apply", "bounded"} =>
       call[c].job # NoJob /\ call[c].snap[call[c].job] # Absent
  /\ call[c].pc = "interrupt" => call[c].job # NoJob /\ Here(job[call[c].job])
  /\ call[c].pc \in {"observe", "apply"} => call[c].op \in {"reconcile", "preflight"}
  /\ call[c].pc = "apply" => ViewFits(c)

\* Two calls that will dispatch have their own units, and start has its job to itself.
Apart(c, d) ==
  call[c].pc \in {"thread", "settings"} /\ call[d].pc \in {"thread", "settings"} =>
    /\ call[c].unit # call[d].unit
    /\ call[c].op = "start" => call[c].job # call[d].job

\* What most steps are like: no turn is dispatched, no unit minted, and no job gets
\* another unit.
SameUse(r, q) == /\ Here(r) /\ Here(q) /\ q.unit = r.unit /\ q.writer = r.writer
                 /\ q.thread => r.thread
                 /\ q.verified => r.verified
JobsCalm == \A j \in Jobs : job'[j] = job[j] \/ SameUse(job[j], job'[j])
TurnsCalm ==
  /\ home' = home
  /\ \A u \in Units :
       /\ turn[u] = "none" => turn'[u] = "none"
       /\ turn'[u] # "none" => turn[u] # "none"
       /\ turn[u] = "ended" => turn'[u] = "ended"
       /\ turn[u] = "running" => turn'[u] \in {"running", "ended"}
       /\ Ran(u) /\ Seen(u) => Seen(u)'
       /\ turn'[u] = "ended" /\ turn[u] # "ended" =>
            turn[u] = "running" /\ \A x \in Units : Live(x)' => x # u /\ Live(x)
Stays(c) == /\ call'[c].pc = call[c].pc /\ call'[c].op = call[c].op
            /\ call'[c].job = call[c].job /\ call'[c].unit = call[c].unit
            /\ call'[c].snap = call[c].snap /\ call'[c].view = call[c].view
Leaves(c) == call'[c].pc \notin {"thread", "settings"}

ExecutorInv ==
  /\ TypeOK /\ OwnerFits
  /\ \A u \in Units : UnitFits(u)
  /\ \A j \in Jobs : JobFits(j)
  /\ \A c \in Callers : SnapshotFits(c) /\ CallFits(c)
  /\ \A c, d \in Callers : c # d => Apart(c, d)

----------------------------------------------------------------------------
\* A binding, once made, stays true or dead, and so does a unit that is over.
LEMMA CalmMoves ==
  ASSUME ExecutorInv, TypeOK', TurnsCalm, \A c \in Callers : Stays(c) \/ Leaves(c)
  PROVE  /\ \A u \in Units : Pending(u)' => Pending(u)
         /\ \A u \in Units : Asked(u)' => Asked(u)
         /\ \A u \in Units : Ran(u) => Ran(u)'
         /\ \A u \in Units : Unsettled(u)' => Unsettled(u)
         /\ \A u \in Units : Dead(u) => Dead(u)'
  <1>1. \A u \in Units : (Pending(u)' => Pending(u)) /\ (Asked(u)' => Asked(u))
    BY DEF Pending, Asked, Stays, Leaves
  <1>2. \A u \in Units : Ran(u) => Ran(u)'
    BY DEF TurnsCalm, Ran
  <1>3. \A u \in Units : turn[u] \in TurnStates /\ turn'[u] \in TurnStates
    BY DEF ExecutorInv, TypeOK
  <1>4. \A u \in Units : Unsettled(u)' => Unsettled(u)
    BY <1>2, <1>3 DEF TurnsCalm, Ran, Unsettled, Live, TurnStates
  <1> QED
    BY <1>1, <1>2, <1>4 DEF Dead, TurnsCalm

\* What holds of a record goes on holding.
LEMMA RecordKept ==
  ASSUME ExecutorInv, TypeOK', TurnsCalm, JobsCalm,
         \A c \in Callers : Stays(c) \/ Leaves(c),
         NEW j \in Jobs, NEW r \in Job, RecordFits(r, j)
  PROVE  RecordFits(r, j)'
  <1>1. Here(job'[j]) /\ r.writer = job'[j].writer /\ job'[j].writer = job[j].writer
    BY DEF RecordFits, JobsCalm, SameUse
  <1>2. r.unit \in Units /\ ~Asked(r.unit)'
    BY CalmMoves DEF RecordFits, Job
  <1>3. \A b \in Units : r.bound[b] # NoUnit => home'[b] = j /\ Ran(b)' /\ Seen(b)'
    BY CalmMoves DEF RecordFits, TurnsCalm
  <1>4. ASSUME r.writer, NEW b \in Units
        PROVE  r.bound[b] \in {NoUnit, b} \/ Dead(r.bound[b])'
    <2>1. r.bound[b] \in Units \cup {NoUnit}
      BY DEF Job
    <2> QED
      BY <1>4, <2>1, CalmMoves DEF RecordFits
  <1>5. ASSUME r.writer, NEW x \in Units, NEW b \in Units, Live(x)', r.bound[x] \notin {NoUnit, x},
               home'[b] = j, turn'[b] = "ended"
        PROVE  r.bound[b] # NoUnit
    <2>1. home[x] = j /\ Ran(x) /\ home[b] = j
      BY <1>5 DEF RecordFits, TurnsCalm
    <2>2. turn[x] = "running"
      BY <1>5, <2>1 DEF Ran, Live, TurnsCalm
    <2>3. CASE turn[b] = "ended"
      BY <1>5, <2>1, <2>2, <2>3 DEF RecordFits, Live
    <2>4. CASE turn[b] # "ended"
      <3>1. turn[b] = "running" /\ x # b
        BY <1>5, <2>4 DEF TurnsCalm
      <3>2. Unsettled(x) /\ Unsettled(b) /\ UnitFits(x) /\ UnitFits(b)
        BY <2>2, <3>1 DEF Unsettled, Live, ExecutorInv
      <3>3. home[x] # NoJob /\ home[b] # NoJob /\ job[home[x]].writer /\ job[home[b]].writer
        BY <1>1, <1>5, <2>1, UnitAssumption
      <3> QED
        BY <3>1, <3>2, <3>3 DEF UnitFits
    <2> QED
      BY <2>3, <2>4
  <1> QED
    <2>1. r.unit # NoUnit /\ home'[r.unit] = j /\ Here(r)
      BY <1>2 DEF RecordFits, TurnsCalm
    <2> QED
      BY <1>1, <1>2, <1>3, <1>4, <1>5, <2>1 DEF RecordFits, Here, Asked

\* The owner names no unit that is still to be dispatched.
OwnerKept ==
  /\ owner'.st # "reconciled" /\ (local' => owner'.who = "chatgpt")
  /\ owner'.unit # NoUnit => \/ owner'.unit = owner.unit
                             \/ home[owner'.unit] # NoJob /\ ~Pending(owner'.unit)
\* A turn that may run keeps the workspace, and a cached binding is true or dead.
UseKept ==
  \A u \in Units :
    /\ home[u] = NoJob => cache'[u] \in {NoUnit, cache[u]}
    /\ home[u] # NoJob /\ job[home[u]].writer =>
         /\ Unsettled(u)' => owner'.unit = u
         /\ cache'[u] \in {NoUnit, u, cache[u]} \/ Dead(cache'[u])

\* A step that dispatches nothing keeps the invariant, if it keeps the owner, makes only
\* bindings that fit, and leaves its own call as it should be.
LEMMA CalmKeeps ==
  ASSUME ExecutorInv, TypeOK', TurnsCalm, JobsCalm, OwnerKept, UseKept,
         \A c \in Callers : Stays(c) \/ (Leaves(c) /\ CallFits(c)' /\ SnapshotFits(c)'),
         \A j \in Jobs : job'[j].bound = job[j].bound \/ JobFits(j)'
  PROVE  ExecutorInv'
  <1>0. \A c \in Callers : Stays(c) \/ Leaves(c)
    OBVIOUS
  <1>t. TypeOK
    BY DEF ExecutorInv
  <1>1. OwnerFits'
    <2>1. owner'.unit # NoUnit => home'[owner'.unit] # NoJob /\ ~Pending(owner.unit)'
      <3> SUFFICES ASSUME owner'.unit # NoUnit
                   PROVE  home'[owner'.unit] # NoJob /\ ~Pending(owner.unit)'
        OBVIOUS
      <3>1. owner'.unit \in Units
        BY DEF TypeOK
      <3>2. home[owner'.unit] # NoJob /\ ~Pending(owner'.unit)
        BY DEF OwnerKept, ExecutorInv, OwnerFits
      <3>3. PICK w \in Units : w = owner'.unit
        BY <3>1
      <3>4. ~Pending(w)'
        BY <1>0, <3>2, <3>3, CalmMoves
      <3> QED
        BY <3>2, <3>3, <3>4 DEF TurnsCalm, Pending
    <2> QED
      BY <2>1 DEF OwnerKept, OwnerFits, Pending
  <1>2. ASSUME NEW u \in Units PROVE UnitFits(u)'
    <2>1. turn'[u] # "none" \/ cache'[u] # NoUnit => home'[u] # NoJob
      BY DEF TurnsCalm, ExecutorInv, UnitFits, UseKept
    <2> SUFFICES ASSUME home'[u] # NoJob, job'[home'[u]].writer
                 PROVE  /\ Unsettled(u)' => owner'.unit = u /\ job'[home'[u]].unit = u
                        /\ cache'[u] \in {NoUnit, u} \/ Dead(cache[u])'
      BY <2>1 DEF UnitFits
    <2>2. home[u] \in Jobs /\ home'[u] = home[u]
      BY <1>t DEF TurnsCalm, TypeOK
    <2>3. job[home[u]].writer
      BY <2>2 DEF JobsCalm, SameUse
    <2>4. Unsettled(u)' => owner'.unit = u /\ job'[home'[u]].unit = u
      <3> SUFFICES ASSUME Unsettled(u)' PROVE owner'.unit = u /\ job'[home'[u]].unit = u
        OBVIOUS
      <3>1. Unsettled(u)
        BY <1>0, CalmMoves
      <3>2. job[home[u]].unit = u
        BY <2>2, <2>3, <3>1 DEF ExecutorInv, UnitFits
      <3> QED
        BY <2>2, <2>3, <3>2 DEF UseKept, JobsCalm, SameUse
    <2>5. cache'[u] \in {NoUnit, u} \/ (cache'[u] \in Units /\ Dead(cache'[u]))
      BY <2>2, <2>3 DEF UseKept, ExecutorInv, UnitFits, TypeOK
    <2>6. ASSUME cache'[u] \in Units, Dead(cache'[u]) PROVE Dead(cache[u])'
      <3>1. PICK w \in Units : w = cache'[u]
        BY <2>6
      <3>2. Dead(w)'
        BY <1>0, <2>6, <3>1, CalmMoves
      <3> QED
        BY <3>1, <3>2 DEF Dead, Pending, Unsettled, Live, Seen
    <2> QED
      BY <2>4, <2>5, <2>6
  <1>3. ASSUME NEW j \in Jobs PROVE JobFits(j)'
    <2>1. CASE job'[j].bound = job[j].bound /\ Here(job[j])
      <3>1. PICK r \in Job : r = job[j]
        BY <1>t DEF TypeOK
      <3>2. RecordFits(r, j)'
        BY <1>0, <2>1, <3>1, RecordKept DEF ExecutorInv, JobFits
      <3>3. Here(job'[j]) /\ job'[j].unit = r.unit /\ job'[j].writer = r.writer
            /\ job'[j].bound = r.bound
        BY <2>1, <3>1 DEF JobsCalm, SameUse
      <3>4. RecordFits(job[j], j)'
        BY <3>2, <3>3 DEF RecordFits, Dead, Seen, Ran, Live, Unsettled, Pending, Asked
      <3> QED
        BY <3>3, <3>4 DEF JobFits, Here
    <2>2. CASE ~Here(job[j])
      BY <2>2 DEF JobsCalm, SameUse, TurnsCalm, ExecutorInv, JobFits, Here
    <2> QED
      BY <2>1, <2>2
  <1>4. ASSUME NEW c \in Callers PROVE SnapshotFits(c)'
    <2>1. CASE Stays(c)
      <3> SUFFICES ASSUME NEW j \in Jobs, call'[c].snap[j] # Absent
                   PROVE  RecordFits(call[c].snap[j], j)'
        BY DEF SnapshotFits
      <3>1. PICK r \in Job : r = call[c].snap[j]
        BY <1>t DEF TypeOK, Call
      <3>2. r = call'[c].snap[j]
        BY <2>1, <3>1 DEF Stays
      <3>3. RecordFits(r, j)'
        BY <1>0, <3>1, <3>2, RecordKept DEF ExecutorInv, SnapshotFits
      <3> QED
        BY <3>2, <3>3 DEF RecordFits, Dead, Seen, Ran, Live, Unsettled, Pending, Asked
    <2> QED
      BY <2>1
  <1>5. ASSUME NEW c \in Callers PROVE CallFits(c)'
    <2>1. CASE Stays(c)
      <3>1. call[c].job \in Jobs \cup {NoJob} /\ call[c].unit \in Units \cup {NoUnit}
        BY <1>t DEF TypeOK, Call
      <3>2. CallFits(c)
        BY DEF ExecutorInv
      <3>3. ASSUME call[c].pc \in {"thread", "settings"}, call[c].op = "start"
            PROVE  Preparing(c)'
        <4>1. Preparing(c) /\ call[c].job \in Jobs
          BY <3>1, <3>2, <3>3 DEF CallFits
        <4>2. job'[call[c].job].unit = job[call[c].job].unit
              /\ ~job'[call[c].job].verified
              /\ (call[c].pc = "thread" => ~job'[call[c].job].thread)
          BY <1>t, <4>1 DEF Preparing, JobsCalm, SameUse, TypeOK, Job
        <4>3. \A u \in Units : home'[u] = call[c].job => turn'[u] = "none"
          BY <4>1 DEF Preparing, TurnsCalm
        <4> QED
          BY <2>1, <4>1, <4>2, <4>3 DEF Preparing, Stays
      <3>4. ASSUME call[c].pc = "apply" PROVE ViewFits(c)'
        <4>1. ViewFits(c)
          BY <3>2, <3>4 DEF CallFits
        <4>2. \A u \in Units : home'[u] = home[u] /\ (Ran(u) => Ran(u)')
          BY <1>0, CalmMoves DEF TurnsCalm
        <4> QED
          BY <2>1, <4>1, <4>2 DEF ViewFits, Stays, TurnsCalm
      <3>5. \A u \in Units : turn[u] = "none" => turn'[u] = "none"
        BY DEF TurnsCalm
      <3>6. \A j \in Jobs : Here(job[j]) => Here(job'[j])
        BY DEF JobsCalm, SameUse
      <3>7. /\ call'[c].pc \in {"thread", "settings", "forgotten", "turn"} =>
                 call'[c].unit # NoUnit /\ call'[c].job # NoJob
                 /\ home'[call'[c].unit] = call'[c].job
            /\ call'[c].pc \in {"get", "observe", "apply", "bounded"} =>
                 call'[c].job # NoJob /\ call'[c].snap[call'[c].job] # Absent
            /\ call'[c].pc \in {"observe", "apply"} => call'[c].op \in {"reconcile", "preflight"}
        BY <2>1, <3>2 DEF CallFits, Stays, TurnsCalm
      <3>8. call'[c].pc \in {"thread", "settings"} =>
              /\ turn'[call'[c].unit] = "none"
              /\ call'[c].op = "start" => Preparing(c)'
              /\ call'[c].op # "start" => call'[c].op = "continue" /\ call'[c].pc = "settings"
        BY <2>1, <3>1, <3>2, <3>3, <3>5 DEF CallFits, Stays
      <3>9. call'[c].pc = "interrupt" => call'[c].job # NoJob /\ Here(job'[call'[c].job])
        BY <2>1, <3>1, <3>2, <3>6 DEF CallFits, Stays
      <3>10. call'[c].pc = "apply" => ViewFits(c)'
        BY <2>1, <3>4 DEF Stays
      <3> QED
        BY <3>7, <3>8, <3>9, <3>10 DEF CallFits, Here, Preparing, ViewFits
    <2> QED
      BY <2>1
  <1>6. ASSUME NEW c \in Callers, NEW d \in Callers, c # d PROVE Apart(c, d)'
    BY <1>0, <1>6 DEF ExecutorInv, Apart, Stays, Leaves
  <1> QED
    BY <1>1, <1>2, <1>3, <1>4, <1>5, <1>6 DEF ExecutorInv

----------------------------------------------------------------------------
\* What an edit of a record leaves alone.
LEMMA RecordEdits ==
  ASSUME NEW r \in Job, NEW st \in JobStates
  PROVE  /\ [r EXCEPT !.state = st] \in Job
         /\ [r EXCEPT !.state = st].state = st
         /\ [r EXCEPT !.state = st].unit = r.unit
         /\ [r EXCEPT !.state = st].bound = r.bound
         /\ [r EXCEPT !.state = st].writer = r.writer
         /\ [r EXCEPT !.state = st].thread = r.thread
         /\ [r EXCEPT !.state = st].verified = r.verified
  BY DEF Job

\* What a failed settings update makes of a record.
LEMMA RecordFailed ==
  ASSUME NEW r \in Job, NEW q, q = [r EXCEPT !.state = "recovery_required", !.verified = FALSE]
  PROVE  /\ q \in Job /\ q.state = "recovery_required" /\ q.unit = r.unit /\ q.bound = r.bound
         /\ q.writer = r.writer /\ q.thread = r.thread /\ ~q.verified
  BY DEF Job, JobStates, RiskStates

\* One record is written.
LEMMA JobWritten ==
  ASSUME TypeOK, NEW j \in Jobs, NEW q \in Job, job' = [job EXCEPT ![j] = q]
  PROVE  /\ job' \in [Jobs -> Job] /\ job'[j] = q
         /\ \A k \in Jobs : k # j => job'[k] = job[k]
         /\ SameUse(job[j], q) => JobsCalm
  BY DEF TypeOK, JobsCalm

\* The state of a record that is there is written.
LEMMA StateWritten ==
  ASSUME TypeOK, NEW j \in Jobs, Here(job[j]), NEW st \in JobStates \ {"absent"}, SetState(j, st)
  PROVE  /\ job' \in [Jobs -> Job] /\ JobsCalm
         /\ \A k \in Jobs : job'[k].bound = job[k].bound
  <1>1. PICK q : q = [job[j] EXCEPT !.state = st]
    OBVIOUS
  <1>2. /\ q \in Job /\ Here(q) /\ q.bound = job[j].bound /\ SameUse(job[j], q)
    BY <1>1, RecordEdits DEF TypeOK, Here, SameUse
  <1>3. job' = [job EXCEPT ![j] = q]
    BY <1>1 DEF SetState
  <1> QED
    BY <1>2, <1>3, JobWritten

\* One call moves.
LEMMA CallWritten ==
  ASSUME TypeOK, NEW c \in Callers, NEW r \in Call, Begin(c, r)
  PROVE  /\ call' \in [Callers -> Call] /\ call'[c] = r
         /\ \A d \in Callers : d # c => call'[d] = call[d] /\ Stays(d)
  BY DEF TypeOK, Begin, Stays

\* An idle call and an absent record.
LEMMA IdleCall ==
  /\ Idle \in Call /\ Idle.pc = "idle" /\ Idle.snap = [j \in Jobs |-> Absent]
  /\ Absent \in Job /\ Absent.state = "absent" /\ ~Absent.thread
  <1>1. Absent \in Job /\ Absent.state = "absent" /\ ~Absent.thread
    BY DEF Absent, Job, JobStates, Phases, Unbound
  <1> QED
    BY <1>1, ExecutorBounds DEF Idle, Call, Places, NoView, TurnStates

\* A call returns.
LEMMA CallReturns ==
  ASSUME TypeOK, NEW c \in Callers, Return(c)
  PROVE  /\ call' \in [Callers -> Call]
         /\ \A d \in Callers : Stays(d) \/ (Leaves(d) /\ CallFits(d)' /\ SnapshotFits(d)')
         /\ call'[c].pc = "idle"
         /\ \A d \in Callers : d # c => call'[d] = call[d]
  <1>1. /\ call' \in [Callers -> Call] /\ call'[c] = Idle
        /\ \A d \in Callers : d # c => call'[d] = call[d] /\ Stays(d)
    BY IdleCall DEF TypeOK, Return, Stays
  <1>2. Leaves(c) /\ CallFits(c)' /\ SnapshotFits(c)'
    BY <1>1, IdleCall DEF Leaves, CallFits, SnapshotFits
  <1> QED
    BY <1>1, <1>2, IdleCall

\* A well-typed owner.
OwnerRecord == [who : Owners, unit : Units \cup {NoUnit}, st : UnitStates]
OwnerTyped(o) == o \in OwnerRecord /\ (o.who = "codex" <=> o.unit # NoUnit)
\* The owner after a mark, a release and an acquire.
LEMMA OwnerMoves ==
  ASSUME NEW o, OwnerTyped(o)
  PROVE  /\ OwnerTyped(Free) /\ Free.unit = NoUnit /\ Free.who = "none" /\ Free.st = "none"
         /\ \A st \in UnitStates :
              /\ OwnerTyped(Marked(o, st)) /\ Marked(o, st).unit = o.unit
              /\ Marked(o, st).who = o.who /\ Marked(o, st).st \in {o.st, st}
         /\ \A u : ReleasedBy(o, "codex", u) =
                     IF o.who = "codex" /\ o.unit = u THEN Free ELSE o
         /\ \A u \in Units : /\ OwnerTyped(Acquired("codex", u)) /\ Acquired("codex", u).unit = u
                             /\ Acquired("codex", u).who = "codex"
                             /\ Acquired("codex", u).st = "running"
         /\ OwnerTyped(Acquired("chatgpt", NoUnit)) /\ Acquired("chatgpt", NoUnit).unit = NoUnit
         /\ Acquired("chatgpt", NoUnit).who = "chatgpt"
         /\ Acquired("chatgpt", NoUnit).st = "running"
  <1>1. OwnerTyped(Free) /\ Free.unit = NoUnit /\ Free.who = "none" /\ Free.st = "none"
    BY DEF OwnerTyped, OwnerRecord, Free, Owners, UnitStates
  <1>2. ASSUME NEW st \in UnitStates
        PROVE  /\ OwnerTyped(Marked(o, st)) /\ Marked(o, st).unit = o.unit
               /\ Marked(o, st).who = o.who /\ Marked(o, st).st \in {o.st, st}
    BY DEF OwnerTyped, OwnerRecord, Marked
  <1>3. ASSUME NEW u \in Units
        PROVE  /\ OwnerTyped(Acquired("codex", u)) /\ Acquired("codex", u).unit = u
               /\ Acquired("codex", u).who = "codex" /\ Acquired("codex", u).st = "running"
    BY UnitAssumption DEF OwnerTyped, OwnerRecord, Acquired, Owners, UnitStates
  <1>4. /\ OwnerTyped(Acquired("chatgpt", NoUnit)) /\ Acquired("chatgpt", NoUnit).unit = NoUnit
        /\ Acquired("chatgpt", NoUnit).who = "chatgpt" /\ Acquired("chatgpt", NoUnit).st = "running"
    BY DEF OwnerTyped, OwnerRecord, Acquired, Owners, UnitStates
  <1>5. \A u : ReleasedBy(o, "codex", u) = IF o.who = "codex" /\ o.unit = u THEN Free ELSE o
    BY DEF ReleasedBy
  <1> QED
    BY <1>1, <1>2, <1>3, <1>4, <1>5

----------------------------------------------------------------------------
\* The server makes nothing of it.
LEMMA ServerIdle ==
  ASSUME UNCHANGED <<turn, noted, home>>, \A u \in Units : cache[u] # NoUnit => cache'[u] # NoUnit
  PROVE  TurnsCalm
  BY DEF TurnsCalm, Ran, Seen, Live

\* The owner stays, or is marked.
LEMMA OwnerStays ==
  ASSUME ExecutorInv, TypeOK', TurnsCalm, \A c \in Callers : Stays(c) \/ Leaves(c),
         \/ owner' = owner
         \/ \E st \in {"unknown", "running"} : owner' = Marked(owner, st),
         local' = local, cache' = cache
  PROVE  OwnerKept /\ UseKept
  <1>1. OwnerTyped(owner)
    BY DEF ExecutorInv, TypeOK, OwnerTyped, OwnerRecord
  <1>2. owner'.unit = owner.unit /\ owner'.who = owner.who /\ owner'.st # "reconciled"
    BY <1>1, OwnerMoves DEF ExecutorInv, OwnerFits, UnitStates
  <1>3. OwnerKept
    BY <1>2 DEF ExecutorInv, OwnerFits, OwnerKept
  <1>4. \A u \in Units : Unsettled(u)' => Unsettled(u)
    BY CalmMoves
  <1> QED
    BY <1>2, <1>3, <1>4 DEF UseKept, ExecutorInv, UnitFits

\* Only the calls move.
LEMMA CallsOnly ==
  ASSUME ExecutorInv, UNCHANGED <<turn, noted, home, job, owner, cache, local, exits, crashes>>,
         up' \in BOOLEAN, watched' \subseteq Jobs, replayed' \subseteq Jobs,
         call' \in [Callers -> Call],
         \A c \in Callers : Stays(c) \/ (Leaves(c) /\ CallFits(c)' /\ SnapshotFits(c)')
  PROVE  ExecutorInv'
  <1>1. TypeOK'
    BY DEF ExecutorInv, TypeOK
  <1>2. TurnsCalm /\ JobsCalm
    BY ServerIdle DEF JobsCalm
  <1> QED
    BY <1>1, <1>2, OwnerStays, CalmKeeps

\* The job of a call is there.
LEMMA JobOfCall ==
  ASSUME ExecutorInv, NEW c \in Callers,
         call[c].pc \in {"thread", "settings", "forgotten", "turn", "get", "observe", "apply",
                        "interrupt", "bounded"}
  PROVE  /\ call[c].job \in Jobs /\ Here(job[call[c].job])
         /\ RecordFits(job[call[c].job], call[c].job)
         /\ call[c].pc \in {"get", "observe", "apply", "bounded"} =>
              RecordFits(call[c].snap[call[c].job], call[c].job)
  <1>1. call[c].job \in Jobs
    BY DEF ExecutorInv, TypeOK, Call, CallFits
  <1>2. Here(job[call[c].job])
    <2>1. CASE call[c].pc \in {"thread", "settings", "forgotten", "turn"}
      <3>1. call[c].unit \in Units /\ home[call[c].unit] = call[c].job
        BY <2>1 DEF ExecutorInv, TypeOK, Call, CallFits
      <3> QED
        BY <1>1, <3>1 DEF ExecutorInv, JobFits
    <2>2. CASE call[c].pc = "interrupt"
      BY <2>2 DEF ExecutorInv, CallFits
    <2>3. CASE call[c].pc \in {"get", "observe", "apply", "bounded"}
      BY <1>1, <2>3 DEF ExecutorInv, CallFits, SnapshotFits, RecordFits
    <2> QED
      BY <2>1, <2>2, <2>3
  <1> QED
    BY <1>1, <1>2 DEF ExecutorInv, JobFits, CallFits, SnapshotFits

\* A step that writes states of records and the calls, and leaves or marks the owner.
LEMMA StatesOnly ==
  ASSUME ExecutorInv, UNCHANGED <<turn, noted, home, cache, local, exits, crashes>>,
         up' \in BOOLEAN, watched' \subseteq Jobs, replayed' \subseteq Jobs,
         call' \in [Callers -> Call],
         \A c \in Callers : Stays(c) \/ (Leaves(c) /\ CallFits(c)' /\ SnapshotFits(c)'),
         job' \in [Jobs -> Job], JobsCalm, \A j \in Jobs : job'[j].bound = job[j].bound,
         \/ owner' = owner
         \/ \E st \in {"unknown", "running"} : owner' = Marked(owner, st)
  PROVE  ExecutorInv'
  <1>1. OwnerTyped(owner)
    BY DEF ExecutorInv, TypeOK, OwnerTyped, OwnerRecord
  <1>2. OwnerTyped(owner')
    BY <1>1, OwnerMoves DEF UnitStates
  <1>3. TypeOK'
    BY <1>2 DEF ExecutorInv, TypeOK, OwnerTyped, OwnerRecord
  <1>4. TurnsCalm
    BY ServerIdle
  <1> QED
    BY <1>3, <1>4, OwnerStays, CalmKeeps

\* A failed thread/start.
LEMMA ThreadFailsKeeps == ASSUME ExecutorInv, NEW c \in Callers, ThreadFails(c) PROVE ExecutorInv'
  <1>0. TypeOK
    BY DEF ExecutorInv
  <1>1. call[c].job \in Jobs /\ Here(job[call[c].job])
    BY JobOfCall DEF ThreadFails, At
  <1>2. job' \in [Jobs -> Job] /\ JobsCalm /\ \A j \in Jobs : job'[j].bound = job[j].bound
    <2>1. CASE job' = job
      BY <1>0, <2>1 DEF TypeOK, JobsCalm
    <2>2. CASE SetState(call[c].job, "recovery_required")
      BY <1>0, <1>1, <2>2, StateWritten DEF JobStates, RiskStates
    <2> QED
      BY <2>1, <2>2 DEF ThreadFails
  <1> QED
    BY <1>0, <1>2, CallReturns, StatesOnly DEF ThreadFails, TypeOK, server, observation, bounds

\* Settings that were not proved.
LEMMA SettingsFailKeeps == ASSUME ExecutorInv, NEW c \in Callers, SettingsFail(c) PROVE ExecutorInv'
  <1>0. TypeOK
    BY DEF ExecutorInv
  <1>1. call[c].job \in Jobs /\ Here(job[call[c].job])
    BY JobOfCall DEF SettingsFail, At
  <1>2. job' \in [Jobs -> Job] /\ JobsCalm /\ \A j \in Jobs : job'[j].bound = job[j].bound
    <2>1. PICK q : q = [job[call[c].job] EXCEPT !.state = "recovery_required", !.verified = FALSE]
      OBVIOUS
    <2>2. job' = [job EXCEPT ![call[c].job] = q]
      BY <2>1 DEF SettingsFail
    <2>3. job[call[c].job] \in Job /\ "recovery_required" \in JobStates
      BY <1>0, <1>1 DEF TypeOK, JobStates, RiskStates
    <2>4. q \in Job /\ SameUse(job[call[c].job], q) /\ q.bound = job[call[c].job].bound
      <3>1. PICK r \in Job : r = job[call[c].job]
        BY <2>3
      <3>2. q = [r EXCEPT !.state = "recovery_required", !.verified = FALSE]
        BY <2>1, <3>1
      <3>3. /\ q \in Job /\ q.state = "recovery_required" /\ q.unit = r.unit
            /\ q.bound = r.bound /\ q.writer = r.writer /\ q.thread = r.thread /\ ~q.verified
        BY <3>2, RecordFailed
      <3> QED
        BY <1>1, <3>1, <3>3 DEF SameUse, Here
    <2> QED
      BY <1>0, <1>1, <2>2, <2>4, JobWritten
  <1> QED
    BY <1>0, <1>2, CallReturns, StatesOnly DEF SettingsFail, TypeOK, server, observation, bounds

\* A settings waiter that was replaced.
LEMMA WaitsForeverKeeps == ASSUME ExecutorInv, NEW c \in Callers, WaitsForever(c) PROVE ExecutorInv'
  BY CallReturns, CallsOnly DEF WaitsForever, ExecutorInv, TypeOK, server, observation, bounds

\* A failed read.
LEMMA GetFailsKeeps == ASSUME ExecutorInv, NEW c \in Callers, GetFails(c) PROVE ExecutorInv'
  BY CallReturns, CallsOnly DEF GetFails, ExecutorInv, TypeOK, server, observation, bounds

\* A failed interrupt.
LEMMA InterruptFailsKeeps ==
  ASSUME ExecutorInv, NEW c \in Callers, InterruptFails(c) PROVE ExecutorInv'
  BY CallReturns, CallsOnly DEF InterruptFails, ExecutorInv, TypeOK, server, observation, bounds

----------------------------------------------------------------------------
(* The server's own steps, its exit, the death of the runtime, local mutations *)
\* Only the turns of the server move.
LEMMA TurnMovesKeeps ==
  ASSUME ExecutorInv, UNCHANGED <<noted, home, job, cache, local, exits, crashes, up, watched,
                                  replayed>>,
         turn' \in [Units -> TurnStates], TurnsCalm,
         call' \in [Callers -> Call],
         \A c \in Callers : Stays(c) \/ (Leaves(c) /\ CallFits(c)' /\ SnapshotFits(c)'),
         owner' = owner
  PROVE  ExecutorInv'
  <1>1. TypeOK'
    BY DEF ExecutorInv, TypeOK
  <1>2. JobsCalm
    BY DEF JobsCalm
  <1> QED
    BY <1>1, <1>2, OwnerStays, CalmKeeps

\* The server starts a turn.
LEMMA TurnBeginsKeeps == ASSUME ExecutorInv, NEW u \in Units, TurnBegins(u) PROVE ExecutorInv'
  <1>1. TypeOK /\ turn' = [turn EXCEPT ![u] = "running"] /\ turn[u] = "sent"
    BY DEF TurnBegins, ExecutorInv
  <1>2. turn' \in [Units -> TurnStates]
    BY <1>1 DEF TypeOK, TurnStates
  <1>3. TurnsCalm
    BY <1>1 DEF TurnBegins, TurnsCalm, Ran, Seen, Live, TypeOK
  <1>4. \A c \in Callers : Stays(c)
    BY DEF TurnBegins, Stays
  <1> QED
    BY <1>1, <1>2, <1>3, <1>4, TurnMovesKeeps DEF TurnBegins, TypeOK, observation, bounds

\* A turn ends.
LEMMA TurnEndsKeeps == ASSUME ExecutorInv, NEW u \in Units, TurnEnds(u) PROVE ExecutorInv'
  <1>1. TypeOK /\ turn' = [turn EXCEPT ![u] = "ended"] /\ turn[u] = "running"
    BY DEF TurnEnds, ExecutorInv
  <1>2. turn' \in [Units -> TurnStates]
    BY <1>1 DEF TypeOK, TurnStates
  <1>3. TurnsCalm
    BY <1>1 DEF TurnEnds, TurnsCalm, Ran, Seen, Live, TypeOK
  <1>4. \A c \in Callers : Stays(c)
    BY DEF TurnEnds, Stays
  <1> QED
    BY <1>1, <1>2, <1>3, <1>4, TurnMovesKeeps DEF TurnEnds, TypeOK, observation, bounds

\* The turns of a server that is gone are over, and nothing is told of them any more.
LEMMA ServerLost ==
  ASSUME ExecutorInv, turn' = TurnsLost, noted' = NotesLost, home' = home
  PROVE  /\ turn' \in [Units -> TurnStates] /\ noted' \in [Units -> 0 .. 2] /\ TurnsCalm
         /\ \A u \in Units : ~Unsettled(u)'
  <1>1. turn \in [Units -> TurnStates] /\ noted \in [Units -> 0 .. 2]
    BY DEF ExecutorInv, TypeOK
  <1>2. ASSUME NEW u \in Units
        PROVE  /\ turn'[u] \in {"none", "ended"} /\ noted'[u] \in 0 .. 2
               /\ turn[u] = "none" => turn'[u] = "none"
               /\ turn'[u] # "none" => turn[u] \in {"running", "ended"} /\ noted'[u] = 2
               /\ turn[u] \in {"running", "ended"} => turn'[u] = "ended"
    <2>1. turn[u] \in TurnStates /\ turn'[u] = TurnsLost[u] /\ noted'[u] = NotesLost[u]
      BY <1>1
    <2>2. /\ turn[u] = "sent" => turn'[u] = "none"
          /\ turn[u] = "running" => turn'[u] = "ended"
          /\ turn[u] \notin {"sent", "running"} => turn'[u] = turn[u]
      BY <2>1 DEF TurnsLost
    <2>3. noted'[u] = IF turn[u] = "none" THEN noted[u] ELSE 2
      BY <2>1 DEF NotesLost
    <2> QED
      BY <1>1, <2>1, <2>2, <2>3 DEF TurnStates
  <1>3. turn' = [u \in Units |-> turn'[u]] /\ noted' = [u \in Units |-> noted'[u]]
    BY DEF TurnsLost, NotesLost
  <1>4. turn' \in [Units -> TurnStates] /\ noted' \in [Units -> 0 .. 2]
    BY <1>2, <1>3 DEF TurnStates
  <1>5. \A u \in Units : ~Live(u)' /\ ~Unsettled(u)'
    BY <1>2 DEF Unsettled, Live, Seen
  <1>6. TurnsCalm
    BY <1>1, <1>2, <1>5 DEF TurnsCalm, Ran, Seen, Live, TurnStates
  <1> QED
    BY <1>4, <1>5, <1>6

\* The server exits.
LEMMA ServerExitsKeeps == ASSUME ExecutorInv, ServerExits PROVE ExecutorInv'
  <1>0. TypeOK /\ TurnsCalm /\ turn' \in [Units -> TurnStates] /\ noted' \in [Units -> 0 .. 2]
    BY ServerLost DEF ExecutorInv, ServerExits
  <1>1. ASSUME NEW j \in Jobs
        PROVE  /\ job'[j] \in Job /\ job'[j].bound = job[j].bound
               /\ job'[j] = job[j] \/ SameUse(job[j], job'[j])
    <2>1. job[j] \in Job /\ "recovery_required" \in JobStates
      BY <1>0 DEF TypeOK, JobStates, RiskStates
    <2>2. CASE job'[j] = job[j]
      BY <2>1, <2>2
    <2>3. CASE job[j].state \in RecoveryStates
               /\ job'[j] = [job[j] EXCEPT !.state = "recovery_required"]
      BY <2>1, <2>3, RecordEdits DEF SameUse, Here, RecoveryStates
    <2> QED
      BY <2>2, <2>3 DEF ServerExits
  <1>2. job' \in [Jobs -> Job] /\ JobsCalm
    BY <1>1 DEF ServerExits, JobsCalm
  <1>3. ASSUME NEW c \in Callers
        PROVE  call'[c] \in Call /\ Stays(c)
    <2>1. PICK v \in BOOLEAN : v = (call[c].lost \/ call[c].pc \notin {"idle", "bounded"})
      OBVIOUS
    <2>2. call'[c] = [call[c] EXCEPT !.lost = v]
      BY <2>1 DEF ServerExits
    <2>3. call[c] \in Call
      BY <1>0 DEF TypeOK
    <2> QED
      BY <2>2, <2>3 DEF Call, Stays
  <1>4. call' \in [Callers -> Call]
    BY <1>3 DEF ServerExits
  <1>5. OwnerTyped(owner) /\ owner' = Marked(owner, "unknown") /\ local' = local /\ cache' = cache
    BY <1>0 DEF ServerExits, TypeOK, OwnerTyped, OwnerRecord
  <1>6. OwnerTyped(owner')
    BY <1>5, OwnerMoves DEF UnitStates
  <1>7. exits' \in 0 .. MaxExits /\ crashes' \in 0 .. MaxCrashes
    BY <1>0, ExecutorBounds DEF ServerExits, TypeOK
  <1>8. up' \in BOOLEAN /\ home' = home /\ watched' = watched /\ replayed' = replayed
    BY DEF ServerExits, observation
  <1>9. TypeOK'
    BY <1>0, <1>2, <1>4, <1>5, <1>6, <1>7, <1>8 DEF TypeOK, OwnerTyped, OwnerRecord
  <1>10. OwnerKept /\ UseKept
    BY <1>0, <1>3, <1>5, <1>9, OwnerStays
  <1> QED
    BY <1>0, <1>1, <1>2, <1>3, <1>9, <1>10, CalmKeeps

\* The runtime dies.
LEMMA RuntimeDiesKeeps == ASSUME ExecutorInv, RuntimeDies PROVE ExecutorInv'
  <1>0. /\ TypeOK /\ TurnsCalm /\ turn' \in [Units -> TurnStates] /\ noted' \in [Units -> 0 .. 2]
        /\ \A u \in Units : ~Unsettled(u)'
    BY ServerLost DEF ExecutorInv, RuntimeDies
  <1>1. /\ cache' = [u \in Units |-> NoUnit] /\ owner' = Free /\ ~local' /\ home' = home
        /\ job' = job /\ call' = [c \in Callers |-> Idle] /\ watched' = {} /\ replayed' = {}
        /\ up' = FALSE /\ local' = FALSE /\ exits' = exits
    BY DEF RuntimeDies, Unbound
  <1>c. crashes' \in 0 .. MaxCrashes
    BY <1>0, ExecutorBounds DEF RuntimeDies, TypeOK
  <1>2. OwnerTyped(owner') /\ owner'.unit = NoUnit /\ owner'.st = "none"
    <2>1. OwnerTyped(owner)
      BY <1>0 DEF TypeOK, OwnerTyped, OwnerRecord
    <2> QED
      BY <1>1, <2>1, OwnerMoves
  <1>3. TypeOK'
    BY <1>0, <1>1, <1>c, <1>2, IdleCall DEF TypeOK, OwnerTyped, OwnerRecord
  <1>4. \A c \in Callers : Leaves(c) /\ CallFits(c)' /\ SnapshotFits(c)'
    BY <1>1, IdleCall DEF Leaves, CallFits, SnapshotFits
  <1>5. JobsCalm /\ OwnerKept /\ UseKept
    BY <1>0, <1>1, <1>2 DEF JobsCalm, OwnerKept, UseKept
  <1> QED
    BY <1>0, <1>1, <1>3, <1>4, <1>5, CalmKeeps

\* A local mutation begins or ends.
LEMMA LocalKeeps == ASSUME ExecutorInv, LocalBegins \/ LocalEnds PROVE ExecutorInv'
  <1>0. TypeOK /\ OwnerTyped(owner)
    BY DEF ExecutorInv, TypeOK, OwnerTyped, OwnerRecord
  <1>1. /\ UNCHANGED <<up, turn, noted, home, job, cache, watched, replayed, call, exits, crashes>>
        /\ local' \in BOOLEAN
    BY DEF LocalBegins, LocalEnds, server, observation, bounds
  <1>2. owner.unit = NoUnit
    BY <1>0 DEF LocalBegins, LocalEnds, CanAcquire, ExecutorInv, OwnerFits, TypeOK
  <1>3. /\ OwnerTyped(owner') /\ owner'.unit = NoUnit /\ owner'.st # "reconciled"
        /\ local' => owner'.who = "chatgpt"
    <2>1. CASE LocalBegins
      BY <1>0, <2>1, OwnerMoves DEF LocalBegins
    <2>2. CASE LocalEnds
      <3>1. ~local' /\ owner' \in {Free, Marked(owner, "unknown")} /\ owner.st # "reconciled"
        BY <2>2 DEF LocalEnds, ExecutorInv, OwnerFits
      <3>2. "unknown" \in UnitStates
        BY DEF UnitStates
      <3> QED
        BY <1>0, <1>2, <3>1, <3>2, OwnerMoves
    <2> QED
      BY <2>1, <2>2
  <1>4. TypeOK'
    BY <1>0, <1>1, <1>3 DEF TypeOK, OwnerTyped, OwnerRecord
  <1>5. TurnsCalm /\ JobsCalm /\ \A c \in Callers : Stays(c)
    BY <1>1, ServerIdle DEF JobsCalm, Stays
  <1>6. OwnerKept
    BY <1>3 DEF OwnerKept
  <1>7. UseKept
    <2>1. \A u \in Units : Unsettled(u)' => Unsettled(u)
      BY <1>4, <1>5, CalmMoves
    <2> QED
      BY <1>1, <1>2, <2>1, UnitAssumption DEF UseKept, ExecutorInv, UnitFits
  <1> QED
    BY <1>1, <1>4, <1>5, <1>6, <1>7, CalmKeeps

----------------------------------------------------------------------------
(* Snapshots *)
\* The call of c carries only snapshots that fit.
Carries(c) == \E S \in [Jobs -> Job] :
                call'[c].snap = S /\ \A k \in Jobs : S[k] = Absent \/ RecordFits(S[k], k)

\* A call that carries snapshots that fit goes on doing so.
LEMMA SnapshotKept ==
  ASSUME ExecutorInv, TypeOK', TurnsCalm, JobsCalm, \A d \in Callers : Stays(d) \/ Leaves(d),
         NEW c \in Callers, Carries(c)
  PROVE  SnapshotFits(c)'
  <1>1. PICK S \in [Jobs -> Job] :
          call'[c].snap = S /\ \A k \in Jobs : S[k] = Absent \/ RecordFits(S[k], k)
    BY DEF Carries
  <1>2. ASSUME NEW k \in Jobs, S[k] # Absent PROVE RecordFits(call[c].snap[k], k)'
    <2>1. PICK r \in Job : r = S[k]
      OBVIOUS
    <2>2. RecordFits(r, k)'
      BY <1>1, <1>2, <2>1, RecordKept
    <2> QED
      BY <1>1, <2>1, <2>2 DEF RecordFits, Dead, Seen, Ran, Live, Unsettled, Pending, Asked
  <1> QED
    BY <1>1, <1>2 DEF SnapshotFits

\* A record of the job map fits a snapshot.
LEMMA TakeJob ==
  ASSUME ExecutorInv, NEW j \in Jobs, Here(job[j])
  PROVE  /\ OnlyJob(j) \in [Jobs -> Job] /\ OnlyJob(j)[j] = job[j] /\ job[j] # Absent
         /\ \A k \in Jobs : OnlyJob(j)[k] = Absent \/ RecordFits(OnlyJob(j)[k], k)
  BY IdleCall DEF ExecutorInv, TypeOK, JobFits, OnlyJob, Here

\* A call begins or goes on with what it carries.
LEMMA CallCarries ==
  ASSUME ExecutorInv, NEW c \in Callers, NEW pc \in {"get", "observe"},
         NEW op \in {"get", "reconcile", "preflight"},
         pc = "observe" => op \in {"reconcile", "preflight"},
         NEW j \in Jobs, NEW S \in [Jobs -> Job], S[j] # Absent,
         \A k \in Jobs : S[k] = Absent \/ RecordFits(S[k], k),
         NEW l \in BOOLEAN,
         Begin(c, [Idle EXCEPT !.pc = pc, !.op = op, !.job = j, !.snap = S, !.lost = l])
  PROVE  /\ call' \in [Callers -> Call] /\ Carries(c) /\ Leaves(c) /\ CallFits(c)'
         /\ \A d \in Callers : d # c => Stays(d)
  <1>1. PICK q : q = [Idle EXCEPT !.pc = pc, !.op = op, !.job = j, !.snap = S, !.lost = l]
    OBVIOUS
  <1>2. q \in Call /\ q.pc = pc /\ q.op = op /\ q.job = j /\ q.snap = S
    BY <1>1, IdleCall DEF Call, Places
  <1>3. Begin(c, q)
    BY <1>1
  <1>4. call' \in [Callers -> Call] /\ call'[c] = q /\ \A d \in Callers : d # c => Stays(d)
    BY <1>2, <1>3, CallWritten DEF ExecutorInv
  <1>5. Carries(c) /\ Leaves(c)
    BY <1>2, <1>4 DEF Carries, Leaves
  <1>6. CallFits(c)'
    BY <1>2, <1>4, UnitAssumption DEF CallFits
  <1> QED
    BY <1>4, <1>5, <1>6

\* get takes its snapshot.
LEMMA GetKeeps == ASSUME ExecutorInv, NEW c \in Callers, NEW j \in Jobs, Get(c, j)
                  PROVE  ExecutorInv'
  <1>1. TypeOK /\ Here(job[j])
    BY DEF Get, Here, ExecutorInv
  <1>2. PICK l \in BOOLEAN : l = ~up
    BY <1>1 DEF TypeOK
  <1>3. PICK S \in [Jobs -> Job] : /\ S = OnlyJob(j) /\ S[j] # Absent
                                  /\ \A k \in Jobs : S[k] = Absent \/ RecordFits(S[k], k)
    BY <1>1, TakeJob
  <1>4. Begin(c, [Idle EXCEPT !.pc = "get", !.op = "get", !.job = j, !.snap = S, !.lost = l])
    BY <1>2, <1>3 DEF Get
  <1>5. /\ call' \in [Callers -> Call] /\ Carries(c) /\ Leaves(c) /\ CallFits(c)'
        /\ \A d \in Callers : d # c => Stays(d)
    BY <1>3, <1>4, CallCarries
  <1>6. /\ UNCHANGED <<turn, noted, home, job, owner, cache, local, exits, crashes, up, watched,
                       replayed>>
        /\ TurnsCalm /\ JobsCalm /\ TypeOK'
    BY <1>1, <1>5, ServerIdle DEF Get, server, observation, bounds, JobsCalm, TypeOK
  <1>7. SnapshotFits(c)'
    BY <1>5, <1>6, SnapshotKept
  <1> QED
    BY <1>1, <1>5, <1>6, <1>7, CallsOnly DEF TypeOK

\* Observation begins with the record of one job, or of several.
LEMMA ObservingBegins ==
  ASSUME ExecutorInv, NEW c \in Callers,
         NEW op \in {"reconcile", "preflight"}, NEW j \in Jobs, NEW S \in [Jobs -> Job], S[j] # Absent,
         \A k \in Jobs : S[k] = Absent \/ RecordFits(S[k], k),
         NEW running \in BOOLEAN, Begin(c, Observing(c, op, S, j, running))
  PROVE  /\ call' \in [Callers -> Call] /\ Carries(c) /\ Leaves(c) /\ CallFits(c)'
         /\ \A d \in Callers : d # c => Stays(d)
  <1>1. PICK l \in BOOLEAN : l = (~running \/ ~S[j].thread)
    OBVIOUS
  <1>2. Begin(c, [Idle EXCEPT !.pc = "observe", !.op = op, !.job = j, !.snap = S, !.lost = l])
    BY <1>1 DEF Observing
  <1> QED
    BY <1>2, CallCarries

\* A call that begins to observe fits.
LEMMA ObservationBegun ==
  ASSUME ExecutorInv, NEW c \in Callers, NEW op \in {"reconcile", "preflight"},
         NEW j \in Jobs, NEW S \in [Jobs -> Job], S[j] # Absent,
         \A k \in Jobs : S[k] = Absent \/ RecordFits(S[k], k),
         Begin(c, Observing(c, op, S, j, TRUE)),
         up' = TRUE, watched' = watched \cup Watch(job[j], j), replayed' = replayed \ {j},
         UNCHANGED <<server, home, job, owner, cache, local, bounds>>
  PROVE  ExecutorInv'
  <1>1. TypeOK
    BY DEF ExecutorInv
  <1>2. /\ call' \in [Callers -> Call] /\ Carries(c) /\ Leaves(c) /\ CallFits(c)'
        /\ \A d \in Callers : d # c => Stays(d)
    BY ObservingBegins
  <1>3. watched' \subseteq Jobs /\ replayed' \subseteq Jobs
    BY <1>1 DEF TypeOK, Watch
  <1>4. TurnsCalm /\ JobsCalm /\ TypeOK'
    BY <1>1, <1>2, <1>3, ServerIdle DEF server, bounds, JobsCalm, TypeOK
  <1>5. SnapshotFits(c)'
    BY <1>2, <1>4, SnapshotKept
  <1> QED
    BY <1>2, <1>3, <1>5, CallsOnly DEF server, bounds

\* reconcile begins.
LEMMA ReconcileKeeps == ASSUME ExecutorInv, NEW c \in Callers, NEW j \in Jobs, Reconcile(c, j)
                        PROVE  ExecutorInv'
  <1>1. Here(job[j])
    BY DEF Reconcile, Here
  <1>2. PICK S \in [Jobs -> Job] : /\ S = OnlyJob(j) /\ S[j] # Absent
                                  /\ \A k \in Jobs : S[k] = Absent \/ RecordFits(S[k], k)
    BY <1>1, TakeJob
  <1> QED
    BY <1>2, ObservationBegun DEF Reconcile

\* The preflight begins.
LEMMA PreflightKeeps ==
  ASSUME ExecutorInv, NEW c \in Callers, NEW scope \in SUBSET Jobs, Preflight(c, scope)
  PROVE  ExecutorInv'
  <1> DEFINE dangerous == Dangerous(scope)
             snap == [j \in Jobs |-> IF j \in dangerous THEN job[j] ELSE Absent]
  <1>1. PICK j \in dangerous : Begin(c, Observing(c, "preflight", snap, j, TRUE))
                              /\ watched' = watched \cup Watch(job[j], j)
                              /\ replayed' = replayed \ {j}
    BY DEF Preflight
  <1>2. \A k \in dangerous : k \in Jobs /\ Here(job[k]) /\ job[k] \in Job /\ RecordFits(job[k], k)
    BY DEF Dangerous, Here, RiskStates, RecoveryStates, ExecutorInv, JobFits, TypeOK
  <1>3. PICK S \in [Jobs -> Job] : S = snap
    BY <1>2, IdleCall
  <1>4. S[j] # Absent /\ \A k \in Jobs : S[k] = Absent \/ RecordFits(S[k], k)
    BY <1>2, <1>3, IdleCall DEF Here
  <1>5. up' = TRUE /\ UNCHANGED <<server, home, job, owner, cache, local, bounds>>
    BY DEF Preflight
  <1> QED
    BY <1>1, <1>2, <1>3, <1>4, <1>5, ObservationBegun

\* The observation of one job ends.
LEMMA ObservationEnds ==
  ASSUME ExecutorInv, NEW c \in Callers, call[c].pc \in {"observe", "apply"}, EndObservation(c)
  PROVE  /\ call' \in [Callers -> Call] /\ watched' \subseteq Jobs /\ replayed' \subseteq Jobs
         /\ Carries(c) /\ Leaves(c) /\ CallFits(c)'
         /\ \A d \in Callers : d # c => Stays(d)
  <1> DEFINE j == call[c].job
             left == [call[c].snap EXCEPT ![j] = Absent]
             rest == {k \in Jobs : left[k] # Absent}
  <1>0. /\ TypeOK /\ call[c].snap \in [Jobs -> Job] /\ up \in BOOLEAN /\ SnapshotFits(c)
        /\ call[c].op \in {"reconcile", "preflight"}
    BY DEF ExecutorInv, TypeOK, Call, CallFits
  <1>1. left \in [Jobs -> Job] /\ \A k \in Jobs : left[k] \in {Absent, call[c].snap[k]}
    BY <1>0, IdleCall
  <1>2. PICK S \in [Jobs -> Job] :
          S = left /\ \A k \in Jobs : S[k] = Absent \/ RecordFits(S[k], k)
    BY <1>0, <1>1 DEF SnapshotFits
  <1>3. CASE rest = {} /\ Return(c) /\ watched' = watched \ {j} /\ replayed' = replayed \ {j}
    <2>1. /\ call' \in [Callers -> Call] /\ call'[c] = Idle
          /\ \A d \in Callers : d # c => Stays(d)
      BY <1>0, <1>3, IdleCall DEF TypeOK, Return, Stays
    <2>2. Carries(c) /\ Leaves(c) /\ CallFits(c)'
      BY <2>1, IdleCall DEF Carries, Leaves, CallFits
    <2> QED
      BY <1>0, <1>3, <2>1, <2>2 DEF TypeOK
  <1>4. CASE \E k \in rest : /\ Begin(c, Observing(c, call[c].op, left, k, up))
                            /\ watched' = (watched \ {j}) \cup Watch(left[k], k)
                            /\ replayed' = (replayed \ {j}) \ {k}
    <2>1. PICK k \in Jobs : /\ left[k] # Absent /\ Begin(c, Observing(c, call[c].op, left, k, up))
                           /\ watched' = (watched \ {j}) \cup Watch(left[k], k)
                           /\ replayed' = (replayed \ {j}) \ {k}
      BY <1>4
    <2>2. PICK op \in {"reconcile", "preflight"},
               running \in BOOLEAN : op = call[c].op /\ running = up
      BY <1>0
    <2>3. Begin(c, Observing(c, op, S, k, running)) /\ S[k] # Absent
      BY <1>2, <2>1, <2>2
    <2>4. /\ call' \in [Callers -> Call] /\ Carries(c) /\ Leaves(c) /\ CallFits(c)'
          /\ \A d \in Callers : d # c => Stays(d)
      BY <1>2, <2>3, ObservingBegins
    <2> QED
      BY <1>0, <2>1, <2>4 DEF TypeOK, Watch
  <1> QED
    BY <1>3, <1>4 DEF EndObservation

\* A failed observation.
LEMMA ObserveFailsKeeps ==
  ASSUME ExecutorInv, NEW c \in Callers, ObserveFails(c) PROVE ExecutorInv'
  <1>0. TypeOK /\ call[c].pc = "observe"
    BY DEF ExecutorInv, ObserveFails, At
  <1>1. call[c].job \in Jobs /\ Here(job[call[c].job])
    BY <1>0, JobOfCall
  <1>2. job' \in [Jobs -> Job] /\ JobsCalm /\ \A j \in Jobs : job'[j].bound = job[j].bound
    BY <1>0, <1>1, StateWritten DEF ObserveFails, JobStates, RiskStates
  <1>3. /\ call' \in [Callers -> Call] /\ watched' \subseteq Jobs /\ replayed' \subseteq Jobs
        /\ Carries(c) /\ Leaves(c) /\ CallFits(c)' /\ \A d \in Callers : d # c => Stays(d)
    BY <1>0, ObservationEnds DEF ObserveFails
  <1>4. /\ UNCHANGED <<turn, noted, home, cache, local, exits, crashes, owner>>
        /\ up' \in BOOLEAN /\ TurnsCalm
    BY <1>0, ServerIdle DEF ObserveFails, server, bounds, TypeOK
  <1>5. TypeOK'
    BY <1>0, <1>2, <1>3, <1>4 DEF TypeOK
  <1>6. SnapshotFits(c)'
    BY <1>2, <1>3, <1>4, <1>5, SnapshotKept
  <1> QED
    BY <1>2, <1>3, <1>4, <1>6, StatesOnly

----------------------------------------------------------------------------
(* Releasing the workspace *)
\* What View reads of a settled job.
LEMMA ViewRead ==
  ASSUME TypeOK, NEW j \in Jobs
  PROVE  /\ View(j) \in [Units -> TurnStates]
         /\ \A u \in Units :
              /\ View(j)[u] # "none" => home[u] = j /\ Ran(u) /\ View(j)[u] = turn[u]
              /\ Settled(j) /\ home[u] = j /\ View(j)[u] = "none" => turn[u] = "none"
  BY DEF TypeOK, View, Materialized, Settled, Ran, TurnStates

\* An ended turn bound to a unit settles it: the binding is true, or the unit is dead.
LEMMA BoundUnitSettled ==
  ASSUME ExecutorInv, NEW j \in Jobs, NEW r \in Job, RecordFits(r, j), r.writer,
         NEW b \in Units, r.bound[b] = r.unit, turn[b] = "ended"
  PROVE  r.unit \in Units /\ ~Unsettled(r.unit)
  <1>1. r.unit \in Units /\ r.bound[b] # NoUnit /\ Seen(b)
    BY DEF RecordFits, Job
  <1>2. r.unit = b \/ Dead(r.unit)
    BY <1>1 DEF RecordFits
  <1>3. ~Unsettled(b)
    BY <1>1 DEF Unsettled, Live
  <1> QED
    BY <1>1, <1>2, <1>3 DEF Dead

\* What was read of a job, that is still so.
Viewed(view, j) == \A u \in Units :
  /\ view[u] # "none" => home[u] = j /\ Ran(u)
  /\ home[u] = j /\ view[u] = "none" => turn[u] = "none"

\* The unit a record names is not still to be dispatched, once a turn of its job ran.
LEMMA RecordedUnitIsDispatched ==
  ASSUME ExecutorInv, NEW j \in Jobs, NEW r \in Job, RecordFits(r, j),
         NEW b \in Units, home[b] = j, Ran(b)
  PROVE  ~Pending(r.unit)
  <1> SUFFICES ASSUME NEW d \in Callers, call[d].pc \in {"thread", "settings"},
                      call[d].unit = r.unit
               PROVE  FALSE
    BY DEF Pending
  <1>1. CallFits(d) /\ home[r.unit] = j /\ ~Asked(r.unit)
    BY DEF ExecutorInv, RecordFits
  <1>2. call[d].job = j /\ call[d].op = "start"
    BY <1>1 DEF CallFits, Asked
  <1>3. turn[b] = "none"
    BY <1>1, <1>2 DEF CallFits, Preparing
  <1> QED
    BY <1>3 DEF Ran

\* The only unbound turn of a job is its current unit's, or that unit is over.
LEMMA UnboundCandidate ==
  ASSUME ExecutorInv, NEW j \in Jobs, NEW r \in Job, RecordFits(r, j),
         NEW view \in [Units -> TurnStates], Viewed(view, j),
         NEW b \in Candidates(r, view), r.bound[b] # r.unit
  PROVE  /\ b \in Units /\ home[b] = j /\ Ran(b) /\ r.unit \in Units /\ r.bound[b] = NoUnit
         /\ \A x \in Units : home[x] = j /\ x # b => turn[x] = "none" \/ r.bound[x] # NoUnit
         /\ ~Pending(r.unit)
         /\ r.writer => r.unit = b \/ Dead(r.unit)
  <1>1. r.unit \in Units /\ home[r.unit] = j /\ ~Asked(r.unit) /\ r.unit # NoUnit
    BY DEF RecordFits, Job
  <1>2. b \in Units /\ BoundTurns(r, view) = {} /\ UnboundTurns(r, view) = {b}
    BY DEF Candidates, BoundTurns
  <1>3. b \in Units /\ view[b] # "none" /\ r.bound[b] = NoUnit /\ home[b] = j /\ Ran(b)
    BY <1>2 DEF UnboundTurns, Viewed
  <1>4. \A x \in Units : home[x] = j /\ x # b => turn[x] = "none" \/ r.bound[x] # NoUnit
    BY <1>2 DEF UnboundTurns, Viewed
  <1>5. ~Pending(r.unit)
    BY <1>3, RecordedUnitIsDispatched
  <1>6. ASSUME r.writer, r.unit # b PROVE ~Unsettled(r.unit)
    <2>1. job[j].writer
      BY <1>6 DEF RecordFits
    <2>2. CASE view[r.unit] = "none"
      BY <1>1, <2>2 DEF Viewed, Unsettled, Live
    <2>3. CASE view[r.unit] # "none"
      <3>1. r.bound[r.unit] \notin {NoUnit, r.unit}
        BY <1>1, <1>2, <1>6, <2>3 DEF UnboundTurns, BoundTurns
      <3>2. Seen(r.unit)
        BY <1>1, <3>1 DEF RecordFits
      <3>3. ~Live(r.unit)
        <4> SUFFICES ASSUME Live(r.unit) PROVE FALSE
          OBVIOUS
        <4>1. turn[b] # "ended"
          BY <1>1, <1>3, <1>6, <3>1 DEF RecordFits
        <4>2. Live(b)
          BY <1>3, <4>1 DEF Ran, Live
        <4>3. UnitFits(b) /\ UnitFits(r.unit) /\ home[b] # NoJob /\ home[r.unit] # NoJob
          BY <1>1, <1>3, UnitAssumption DEF ExecutorInv
        <4>4. owner.unit = b /\ owner.unit = r.unit
          BY <1>1, <1>3, <2>1, <4>2, <4>3 DEF UnitFits, Unsettled
        <4> QED
          BY <1>6, <4>4
      <3> QED
        BY <3>2, <3>3 DEF Unsettled
    <2> QED
      BY <2>2, <2>3
  <1> QED
    BY <1>1, <1>2, <1>3, <1>4, <1>5, <1>6, UnitAssumption DEF Dead

\* The workspace is released for a unit that is over.
LEMMA OwnerReleased ==
  ASSUME ExecutorInv, TypeOK', TurnsCalm, \A c \in Callers : Stays(c) \/ Leaves(c),
         NEW w \in Units, owner' = ReleasedBy(owner, "codex", w), ~Unsettled(w)', local' = local
  PROVE  /\ OwnerKept
         /\ \A u \in Units : home[u] # NoJob /\ job[home[u]].writer =>
               (Unsettled(u)' => owner'.unit = u)
  <1>1. OwnerTyped(owner)
    BY DEF ExecutorInv, TypeOK, OwnerTyped, OwnerRecord
  <1>2. \/ owner' = owner
        \/ owner.who = "codex" /\ owner.unit = w /\ owner' = Free
    BY DEF ReleasedBy
  <1>3. Free.unit = NoUnit /\ Free.who = "none" /\ Free.st = "none"
    BY <1>1, OwnerMoves
  <1>4. \A u \in Units : Unsettled(u)' => Unsettled(u)
    BY CalmMoves
  <1>5. \A u \in Units : home[u] # NoJob /\ job[home[u]].writer =>
               (Unsettled(u)' => owner.unit = u)
    BY <1>4 DEF ExecutorInv, UnitFits
  <1> QED
    BY <1>2, <1>3, <1>5 DEF OwnerKept, ExecutorInv, OwnerFits

\* get is answered: only a unit that is over is released.
LEMMA GetAnsweredKeeps ==
  ASSUME ExecutorInv, NEW c \in Callers, GetAnswered(c) PROVE ExecutorInv'
  <1> DEFINE j == call[c].job
             s == call[c].snap[j]
  <1>0. TypeOK /\ call[c].pc = "get" /\ Settled(j) /\ call[c].snap \in [Jobs -> Job]
    BY DEF ExecutorInv, GetAnswered, At, TypeOK, Call
  <1>1. j \in Jobs /\ Here(job[j]) /\ RecordFits(s, j)
    BY <1>0, JobOfCall
  <1>2. PICK r \in Job : r = s
    BY <1>0, <1>1
  <1>3. /\ UNCHANGED <<up, turn, noted, home, cache, watched, replayed, local, exits, crashes>>
        /\ TurnsCalm
    BY ServerIdle DEF GetAnswered, server, observation, bounds
  <1>4. /\ call' \in [Callers -> Call]
        /\ \A d \in Callers : Stays(d) \/ (Leaves(d) /\ CallFits(d)' /\ SnapshotFits(d)')
    BY <1>0, CallReturns DEF GetAnswered
  <1>5. CASE UNCHANGED <<job, owner>>
    BY <1>0, <1>3, <1>4, <1>5, StatesOnly DEF JobsCalm, TypeOK
  <1>6. CASE \E b \in BoundTurns(s, View(j)) :
               turn[b] = "ended" /\ SetState(j, "ended") /\ owner' = Released(s)
    <2>1. PICK b \in Units : /\ r.bound[b] = r.unit /\ turn[b] = "ended"
                            /\ SetState(j, "ended") /\ owner' = Released(r)
      BY <1>2, <1>6 DEF BoundTurns
    <2>2. job' \in [Jobs -> Job] /\ JobsCalm /\ \A k \in Jobs : job'[k].bound = job[k].bound
      BY <1>0, <1>1, <2>1, StateWritten DEF JobStates, TerminalStates
    <2>3. CASE ~r.writer
      <3>1. owner' = owner
        BY <2>1, <2>3 DEF Released
      <3> QED
        BY <1>0, <1>3, <1>4, <2>2, <3>1, StatesOnly DEF TypeOK
    <2>4. CASE r.writer
      <3>1. r.unit \in Units /\ ~Unsettled(r.unit) /\ owner' = ReleasedBy(owner, "codex", r.unit)
        BY <1>1, <1>2, <2>1, <2>4, BoundUnitSettled DEF Released
      <3>2. OwnerTyped(owner)
        BY <1>0 DEF TypeOK, OwnerTyped, OwnerRecord
      <3>3. OwnerTyped(owner')
        BY <3>1, <3>2, OwnerMoves
      <3>4. TypeOK'
        BY <1>0, <1>3, <1>4, <2>2, <3>3 DEF TypeOK, OwnerTyped, OwnerRecord
      <3>5. PICK w \in Units : w = r.unit
        BY <3>1
      <3>6. ~Unsettled(w)'
        BY <1>3, <1>4, <3>1, <3>4, <3>5, CalmMoves
      <3>7. OwnerKept /\ UseKept
        BY <1>3, <1>4, <3>1, <3>4, <3>5, <3>6, OwnerReleased DEF UseKept
      <3> QED
        BY <1>3, <1>4, <2>2, <3>4, <3>7, CalmKeeps
    <2> QED
      BY <2>3, <2>4
  <1> QED
    BY <1>5, <1>6 DEF GetAnswered

\* A failed turn/start.
LEMMA TurnFailsKeeps == ASSUME ExecutorInv, NEW c \in Callers, TurnFails(c) PROVE ExecutorInv'
  <1>0. TypeOK /\ call[c].pc = "turn" /\ OwnerTyped(owner)
    BY DEF ExecutorInv, TurnFails, At, TypeOK, OwnerTyped, OwnerRecord
  <1>1. call[c].job \in Jobs /\ Here(job[call[c].job])
    BY <1>0, JobOfCall
  <1>2. job' \in [Jobs -> Job] /\ JobsCalm /\ \A j \in Jobs : job'[j].bound = job[j].bound
    BY <1>0, <1>1, StateWritten DEF TurnFails, JobStates, RiskStates
  <1>3. /\ call' \in [Callers -> Call]
        /\ \A d \in Callers : Stays(d) \/ (Leaves(d) /\ CallFits(d)' /\ SnapshotFits(d)')
    BY <1>0, CallReturns DEF TurnFails
  <1>4. UNCHANGED <<up, noted, home, cache, watched, replayed, local, exits, crashes>>
    BY DEF TurnFails, observation, bounds
  <1>5. turn' \in [Units -> TurnStates] /\ TurnsCalm
    <2>1. CASE turn' = turn
      BY <1>0, <1>4, <2>1, ServerIdle DEF TypeOK
    <2>2. CASE turn[call[c].unit] = "sent" /\ turn' = [turn EXCEPT ![call[c].unit] = "none"]
      BY <1>0, <1>4, <2>2 DEF TypeOK, TurnStates, TurnsCalm, Ran, Seen, Live
    <2> QED
      BY <2>1, <2>2 DEF TurnFails
  <1>6. owner' = owner \/ owner' = Marked(owner, "unknown")
    BY DEF TurnFails
  <1>7. OwnerTyped(owner')
    BY <1>0, <1>6, OwnerMoves DEF UnitStates
  <1>8. TypeOK'
    BY <1>0, <1>2, <1>3, <1>4, <1>5, <1>7 DEF TypeOK, OwnerTyped, OwnerRecord
  <1>9. OwnerKept /\ UseKept
    BY <1>3, <1>4, <1>5, <1>6, <1>8, OwnerStays
  <1> QED
    BY <1>2, <1>3, <1>5, <1>8, <1>9, CalmKeeps

----------------------------------------------------------------------------
(* Binding a turn that was found *)
\* The record with its candidate bound.
LEMMA CandidateRecord ==
  ASSUME NEW r \in Job, NEW rec \in Job, Here(rec), NEW b \in Units
  PROVE  /\ BindCandidate(rec, r, b) \in Job /\ SameUse(rec, BindCandidate(rec, r, b))
         /\ r.bound[b] = r.unit => BindCandidate(rec, r, b) = rec
         /\ r.bound[b] # r.unit =>
              /\ BindCandidate(rec, r, b).bound[b] = r.unit
              /\ \A x \in Units : x # b => BindCandidate(rec, r, b).bound[x] = r.bound[x]
  <1>1. r.unit \in Units \cup {NoUnit} /\ r.bound \in [Units -> Units \cup {NoUnit}]
    BY DEF Job
  <1>2. PICK bd \in [Units -> Units \cup {NoUnit}] : bd = [r.bound EXCEPT ![b] = r.unit]
    BY <1>1
  <1>3. PICK q : q = [rec EXCEPT !.turn = b, !.bound = bd]
    OBVIOUS
  <1>4. /\ q \in Job /\ q.state = rec.state /\ q.unit = rec.unit /\ q.bound = bd
        /\ q.writer = rec.writer /\ q.thread = rec.thread /\ q.verified = rec.verified
    BY <1>3 DEF Job
  <1>5. BindCandidate(rec, r, b) = IF r.bound[b] = r.unit THEN rec ELSE q
    BY <1>2, <1>3 DEF BindCandidate
  <1> QED
    BY <1>2, <1>4, <1>5 DEF SameUse, Here

\* What is written fits the job it is written for.
LEMMA SameRecord ==
  ASSUME NEW j \in Jobs, NEW q, RecordFits(q, j)', job'[j] = q
  PROVE  RecordFits(job[j], j)'
  BY DEF RecordFits, Here, Dead, Seen, Ran, Live, Unsettled, Pending, Asked

\* A bound candidate keeps the record fit.
LEMMA CandidateBound ==
  ASSUME ExecutorInv, TypeOK', TurnsCalm, JobsCalm, turn' = turn,
         \A c \in Callers : Stays(c) \/ Leaves(c),
         NEW j \in Jobs, Here(job[j]), NEW r \in Job, RecordFits(r, j),
         NEW view \in [Units -> TurnStates], Viewed(view, j),
         NEW b \in Candidates(r, view), r.bound[b] # r.unit,
         cache'[b] = r.unit, \A u \in Units : u # b => cache'[u] = cache[u],
         job'[j].bound[b] = r.unit, \A x \in Units : x # b => job'[j].bound[x] = r.bound[x]
  PROVE  /\ JobFits(j)'
         /\ b \in Units /\ home[b] = j /\ Ran(b) /\ Seen(b)'
         /\ r.writer => r.unit = b \/ Dead(r.unit)
  <1>1. /\ b \in Units /\ home[b] = j /\ Ran(b) /\ r.unit \in Units /\ r.bound[b] = NoUnit
        /\ \A x \in Units : home[x] = j /\ x # b => turn[x] = "none" \/ r.bound[x] # NoUnit
        /\ r.writer => r.unit = b \/ Dead(r.unit)
    BY UnboundCandidate
  <1>2. /\ Seen(b)' /\ Ran(b)' /\ home' = home
    BY <1>1, UnitAssumption DEF ExecutorInv, TypeOK, Seen, Ran, TurnsCalm
  <1>3. PICK o \in Job, q \in Job : o = job[j] /\ q = job'[j]
    BY DEF ExecutorInv, TypeOK
  <1>4. RecordFits(r, j)' /\ RecordFits(o, j)'
    <2>1. RecordFits(o, j)
      BY <1>3 DEF ExecutorInv, JobFits
    <2> QED
      BY <2>1, RecordKept
  <1>5. /\ Here(q) /\ q.unit = o.unit /\ q.writer = o.writer /\ r.writer = o.writer
        /\ q.bound[b] = r.unit /\ \A x \in Units : x # b => q.bound[x] = r.bound[x]
    <2>1. Here(q) /\ q.unit = o.unit /\ q.writer = o.writer
      BY <1>3 DEF JobsCalm, SameUse
    <2>2. r.bound \in [Units -> Units \cup {NoUnit}] /\ r.writer = o.writer
      BY <1>3 DEF Job, RecordFits
    <2> QED
      BY <1>1, <1>3, <2>1, <2>2
  <1>6. \A x \in Units : q.bound[x] # NoUnit => home'[x] = j /\ Ran(x)' /\ Seen(x)'
    BY <1>1, <1>2, <1>4, <1>5 DEF RecordFits
  <1>7. ASSUME q.writer, NEW x \in Units
        PROVE  q.bound[x] \in {NoUnit, x} \/ Dead(q.bound[x])'
    <2>1. CASE x # b
      BY <1>4, <1>5, <1>7, <2>1 DEF RecordFits
    <2>2. CASE x = b
      <3>1. r.unit = b \/ Dead(r.unit)'
        BY <1>1, <1>5, <1>7, CalmMoves
      <3> QED
        BY <1>5, <2>2, <3>1
    <2> QED
      BY <2>1, <2>2
  <1>8. ASSUME q.writer, NEW x \in Units, NEW y \in Units, Live(x)', q.bound[x] \notin {NoUnit, x},
               home'[y] = j, turn'[y] = "ended"
        PROVE  q.bound[y] # NoUnit
    <2>1. CASE x # b
      <3>1. r.bound[y] # NoUnit
        BY <1>4, <1>5, <1>8, <2>1 DEF RecordFits
      <3> QED
        BY <1>1, <1>5, <3>1, UnitAssumption
    <2>2. CASE x = b
      BY <1>1, <1>2, <1>5, <1>8, <2>2, UnitAssumption
    <2> QED
      BY <2>1, <2>2
  <1>9. RecordFits(q, j)'
    BY <1>3, <1>4, <1>5, <1>6, <1>7, <1>8 DEF RecordFits, Here, Asked
  <1>10. RecordFits(job[j], j)'
    BY <1>3, <1>9, SameRecord
  <1> QED
    BY <1>1, <1>2, <1>3, <1>5, <1>10 DEF JobFits, Here

\* A candidate is found and recorded: a terminal one releases the workspace, a running one
\* may take it, if nobody else has it.
LEMMA CandidateKeeps ==
  ASSUME ExecutorInv, NEW j \in Jobs, Here(job[j]), NEW r \in Job, RecordFits(r, j),
         NEW view \in [Units -> TurnStates], Viewed(view, j),
         NEW b \in Candidates(r, view),
         UNCHANGED <<turn, noted, home, local, exits, crashes>>,
         up' \in BOOLEAN, watched' \subseteq Jobs, replayed' \subseteq Jobs,
         call' \in [Callers -> Call],
         \A c \in Callers : Stays(c) \/ (Leaves(c) /\ CallFits(c)' /\ Carries(c)),
         cache' = CacheCandidate(r, b),
         NEW q \in Job, job' = [job EXCEPT ![j] = q], SameUse(job[j], q),
         q.bound = BindCandidate(job[j], r, b).bound,
         \/ owner' = owner
         \/ turn[b] = "ended" /\ owner' = Released(r)
         \/ r.writer /\ ~ForeignOwner(r) /\ owner' = Acquired("codex", r.unit)
  PROVE  ExecutorInv'
  <1>0. /\ TypeOK /\ job[j] \in Job /\ OwnerTyped(owner) /\ b \in Units
        /\ r.unit \in Units /\ \A c \in Callers : Stays(c) \/ Leaves(c)
    BY DEF ExecutorInv, TypeOK, OwnerTyped, OwnerRecord, Candidates, BoundTurns, RecordFits, Job
  <1>1. job' \in [Jobs -> Job] /\ JobsCalm /\ job'[j] = q /\ \A k \in Jobs : k # j => job'[k] = job[k]
    BY <1>0, JobWritten
  <1>2. /\ BindCandidate(job[j], r, b) \in Job
        /\ r.bound[b] = r.unit => BindCandidate(job[j], r, b) = job[j]
        /\ r.bound[b] # r.unit =>
              /\ BindCandidate(job[j], r, b).bound[b] = r.unit
              /\ \A x \in Units : x # b => BindCandidate(job[j], r, b).bound[x] = r.bound[x]
    <2>1. PICK o \in Job : o = job[j]
      BY <1>0
    <2>2. Here(o)
      BY <2>1 DEF Here
    <2> QED
      BY <1>0, <2>1, <2>2, CandidateRecord
  <1>3. cache' \in [Units -> Units \cup {NoUnit}]
        /\ (cache' = cache \/ (r.bound[b] # r.unit /\ cache' = [cache EXCEPT ![b] = r.unit]))
        /\ (r.bound[b] = r.unit => cache' = cache)
    BY <1>0 DEF CacheCandidate, TypeOK
  <1>4. TurnsCalm
    <2>1. \A u \in Units : cache[u] # NoUnit => cache'[u] # NoUnit
      BY <1>0, <1>3, UnitAssumption DEF TypeOK
    <2> QED
      BY <2>1, ServerIdle
  <1>5. OwnerTyped(owner')
    BY <1>0, OwnerMoves DEF Released
  <1>6. TypeOK'
    BY <1>0, <1>1, <1>3, <1>5 DEF TypeOK, OwnerTyped, OwnerRecord
  <1>7. \A c \in Callers : Stays(c) \/ (Leaves(c) /\ CallFits(c)' /\ SnapshotFits(c)')
    BY <1>0, <1>1, <1>4, <1>6, SnapshotKept
  <1>8. ASSUME r.bound[b] # r.unit
        PROVE  /\ JobFits(j)' /\ cache'[b] = r.unit /\ Seen(b)'
               /\ \A u \in Units : u # b => cache'[u] = cache[u]
               /\ r.writer => r.unit = b \/ Dead(r.unit)
               /\ home[b] = j /\ Ran(b)
    <2>1. cache'[b] = r.unit /\ \A u \in Units : u # b => cache'[u] = cache[u]
      BY <1>0, <1>8 DEF CacheCandidate, TypeOK
    <2>2. job'[j].bound[b] = r.unit /\ \A x \in Units : x # b => job'[j].bound[x] = r.bound[x]
      BY <1>1, <1>2, <1>8
    <2>3. turn' = turn /\ \A c \in Callers : Stays(c) \/ Leaves(c)
      OBVIOUS
    <2> QED
      BY <1>1, <1>4, <1>6, <1>8, <2>1, <2>2, <2>3, CandidateBound
  <1>9. \A k \in Jobs : job'[k].bound = job[k].bound \/ JobFits(k)'
    BY <1>1, <1>2, <1>8
  <1>10. \A u \in Units : home[u] # NoJob /\ job[home[u]].writer =>
               cache'[u] \in {NoUnit, u, cache[u]} \/ Dead(cache'[u])
    <2>1. r.writer = job[j].writer
      BY DEF RecordFits
    <2> QED
      BY <1>3, <1>8, <2>1
  <1>11. home[b] = j /\ Ran(b)
    <2>1. CASE r.bound[b] = r.unit
      BY <1>0, <2>1 DEF RecordFits
    <2> QED
      BY <1>8, <2>1
  <1>12. OwnerKept /\ \A u \in Units : home[u] # NoJob /\ job[home[u]].writer =>
                                     (Unsettled(u)' => owner'.unit = u)
    <2>1. \A u \in Units : home[u] # NoJob /\ job[home[u]].writer =>
               (Unsettled(u)' => owner.unit = u)
      BY <1>0, <1>4, <1>6, CalmMoves DEF ExecutorInv, UnitFits
    <2>2. CASE owner' = owner
      BY <2>1, <2>2 DEF OwnerKept, ExecutorInv, OwnerFits
    <2>3. CASE turn[b] = "ended" /\ r.writer /\ owner' = ReleasedBy(owner, "codex", r.unit)
      <3>1. PICK w \in Units : w = r.unit
        BY <1>0
      <3>2. CASE r.bound[b] = r.unit \/ r.unit # b
        <4>1. ~Unsettled(w)
          <5>1. CASE r.bound[b] = r.unit
            BY <1>0, <2>3, <3>1, <5>1, BoundUnitSettled
          <5>2. CASE r.bound[b] # r.unit
            BY <1>8, <2>3, <3>1, <3>2, <5>2 DEF Dead
          <5> QED
            BY <5>1, <5>2
        <4>2. ~Unsettled(w)'
          BY <1>0, <1>4, <1>6, <4>1, CalmMoves
        <4> QED
          BY <1>0, <1>4, <1>6, <2>3, <3>1, <4>2, OwnerReleased
      <3>3. CASE r.bound[b] # r.unit /\ r.unit = b
        <4>1. turn'[b] = "ended" /\ Seen(b)'
          BY <1>8, <2>3, <3>3
        <4>2. ~Unsettled(w)'
          BY <3>1, <3>3, <4>1 DEF Unsettled, Live, Seen
        <4> QED
          BY <1>0, <1>4, <1>6, <2>3, <3>1, <4>2, OwnerReleased
      <3> QED
        BY <3>2, <3>3
    <2>4. CASE r.writer /\ ~ForeignOwner(r) /\ owner' = Acquired("codex", r.unit)
      <3>1. owner'.unit = r.unit /\ owner'.who = "codex" /\ owner'.st = "running"
        BY <1>0, <2>4, OwnerMoves
      <3>2. ~Pending(r.unit) /\ home[r.unit] = j
        BY <1>0, <1>11, RecordedUnitIsDispatched DEF RecordFits
      <3>3. owner.who # "chatgpt" /\ (owner.unit # NoUnit => owner.unit = r.unit)
        BY <1>0, <2>4 DEF ForeignOwner, OwnerTyped
      <3>4. ~local
        BY <3>3 DEF ExecutorInv, OwnerFits
      <3>5. OwnerKept
        BY <3>1, <3>2, <3>4, UnitAssumption DEF OwnerKept, Pending
      <3> QED
        BY <2>1, <3>1, <3>3, <3>5, UnitAssumption
    <2> QED
      BY <2>2, <2>3, <2>4 DEF Released
  <1>13. UseKept
    <2>1. \A u \in Units : home[u] = NoJob => cache'[u] = cache[u]
      BY <1>3, <1>8, UnitAssumption
    <2> QED
      BY <1>10, <1>12, <2>1 DEF UseKept
  <1> QED
    BY <1>1, <1>4, <1>6, <1>7, <1>9, <1>12, <1>13, CalmKeeps

\* The reads of an observation are answered.
LEMMA ObserveAnsweredKeeps ==
  ASSUME ExecutorInv, NEW c \in Callers, ObserveAnswered(c) PROVE ExecutorInv'
  <1>0. TypeOK /\ call[c].pc = "observe" /\ Settled(call[c].job) /\ call[c] \in Call
    BY DEF ExecutorInv, ObserveAnswered, At, TypeOK
  <1>1. call[c].job \in Jobs
    BY <1>0, JobOfCall
  <1>2. PICK v \in [Units -> TurnStates] : v = View(call[c].job)
    BY <1>0, <1>1, ViewRead
  <1>3. PICK q : q = [call[c] EXCEPT !.pc = "apply", !.view = v]
    OBVIOUS
  <1>4. /\ q \in Call /\ q.pc = "apply" /\ q.view = v /\ q.job = call[c].job /\ q.snap = call[c].snap
        /\ q.op = call[c].op
    BY <1>0, <1>3 DEF Call, Places
  <1>5. Begin(c, q)
    BY <1>2, <1>3 DEF ObserveAnswered
  <1>6. call' \in [Callers -> Call] /\ call'[c] = q /\ \A d \in Callers : d # c => Stays(d)
    BY <1>0, <1>4, <1>5, CallWritten
  <1>7. UNCHANGED <<turn, noted, home, job, owner, cache, local, exits, crashes, up, watched,
                    replayed>>
    BY DEF ObserveAnswered, server, observation, bounds
  <1>8. CallFits(c) /\ SnapshotFits(c) /\ call[c].snap \in [Jobs -> Job]
    BY <1>0 DEF ExecutorInv, Call
  <1>9. Leaves(c) /\ Carries(c)
    BY <1>4, <1>6, <1>8 DEF Leaves, Carries, SnapshotFits
  <1>10. CallFits(c)'
    <2>1. \A u \in Units : /\ v[u] # "none" => home[u] = call[c].job /\ Ran(u) /\ v[u] = turn[u]
                           /\ home[u] = call[c].job /\ v[u] = "none" => turn[u] = "none"
      BY <1>0, <1>1, <1>2, ViewRead
    <2>2. ViewFits(c)'
      <3>1. call'[c].view = v /\ call'[c].job = call[c].job /\ home' = home /\ turn' = turn
        BY <1>4, <1>6, <1>7
      <3>2. ASSUME NEW u \in Units
            PROVE  /\ v[u] # "none" => home'[u] = call[c].job /\ turn'[u] \in {"running", "ended"}
                   /\ v[u] = "ended" => turn'[u] = "ended"
                   /\ home'[u] = call[c].job /\ v[u] = "none" => turn'[u] = "none"
        BY <2>1, <3>1 DEF Ran
      <3> QED
        BY <3>1, <3>2 DEF ViewFits, Ran
    <2> QED
      BY <1>0, <1>4, <1>6, <1>8, <2>2 DEF CallFits
  <1>11. TypeOK' /\ TurnsCalm /\ JobsCalm
    BY <1>0, <1>6, <1>7, ServerIdle DEF TypeOK, JobsCalm
  <1>12. SnapshotFits(c)'
    BY <1>6, <1>9, <1>11, SnapshotKept
  <1> QED
    BY <1>0, <1>6, <1>7, <1>9, <1>10, <1>12, CallsOnly DEF TypeOK

\* Other ends of an observation write a state and, at most, release the workspace.
LEMMA NothingFoundKeeps ==
  ASSUME ExecutorInv, NEW j \in Jobs, Here(job[j]), NEW w \in Units, ~Unsettled(w),
         NEW st \in JobStates \ {"absent"}, SetState(j, st),
         owner' = owner \/ owner' = ReleasedBy(owner, "codex", w),
         UNCHANGED <<turn, noted, home, local, exits, crashes, cache>>,
         up' \in BOOLEAN, watched' \subseteq Jobs, replayed' \subseteq Jobs,
         call' \in [Callers -> Call],
         \A c \in Callers : Stays(c) \/ (Leaves(c) /\ CallFits(c)' /\ Carries(c))
  PROVE  ExecutorInv'
  <1>0. TypeOK /\ OwnerTyped(owner) /\ \A c \in Callers : Stays(c) \/ Leaves(c)
    BY DEF ExecutorInv, TypeOK, OwnerTyped, OwnerRecord
  <1>1. job' \in [Jobs -> Job] /\ JobsCalm /\ \A k \in Jobs : job'[k].bound = job[k].bound
    BY <1>0, StateWritten
  <1>2. TurnsCalm
    BY ServerIdle
  <1>3. OwnerTyped(owner')
    BY <1>0, OwnerMoves
  <1>4. TypeOK'
    BY <1>0, <1>1, <1>3 DEF TypeOK, OwnerTyped, OwnerRecord
  <1>5. \A c \in Callers : Stays(c) \/ (Leaves(c) /\ CallFits(c)' /\ SnapshotFits(c)')
    BY <1>0, <1>1, <1>2, <1>4, SnapshotKept
  <1>6. OwnerKept /\ UseKept
    <2>1. CASE owner' = owner
      BY <1>0, <1>2, <1>4, <2>1, OwnerStays
    <2>2. CASE owner' = ReleasedBy(owner, "codex", w)
      <3>1. ~Unsettled(w)'
        BY <1>0, <1>2, <1>4, CalmMoves
      <3> QED
        BY <1>0, <1>2, <1>4, <2>2, <3>1, OwnerReleased DEF UseKept
    <2> QED
      BY <2>1, <2>2
  <1> QED
    BY <1>1, <1>2, <1>4, <1>5, <1>6, CalmKeeps

\* What was observed is applied to the record and to the owner.
LEMMA ApplyObservationKeeps ==
  ASSUME ExecutorInv, NEW c \in Callers, ApplyObservation(c) PROVE ExecutorInv'
  <1> DEFINE j == call[c].job
             s == call[c].snap[j]
             view == call[c].view
  <1>0. /\ TypeOK /\ call[c].pc = "apply" /\ call[c].snap \in [Jobs -> Job]
        /\ view \in [Units -> TurnStates] /\ CallFits(c) /\ ViewFits(c)
        /\ call[c].op \in {"reconcile", "preflight"}
    BY DEF ExecutorInv, ApplyObservation, At, TypeOK, Call, CallFits
  <1>1. j \in Jobs /\ Here(job[j]) /\ RecordFits(s, j) /\ s \in Job
    BY <1>0, JobOfCall
  <1>2. PICK r \in Job, v \in [Units -> TurnStates] : r = s /\ v = view
    BY <1>0, <1>1
  <1>3. Viewed(v, j) /\ \A u \in Units : v[u] = "ended" => turn[u] = "ended"
    BY <1>0, <1>2 DEF ViewFits, Viewed
  <1>4. /\ call' \in [Callers -> Call] /\ watched' \subseteq Jobs /\ replayed' \subseteq Jobs
        /\ Carries(c) /\ Leaves(c) /\ CallFits(c)' /\ \A d \in Callers : d # c => Stays(d)
    BY <1>0, ObservationEnds DEF ApplyObservation
  <1>5. UNCHANGED <<turn, noted, home, local, exits, crashes>> /\ up' \in BOOLEAN
    BY <1>0 DEF ApplyObservation, server, bounds, TypeOK
  <1>6. r.unit \in Units /\ home[r.unit] = j /\ RecordFits(r, j)
    BY <1>1, <1>2 DEF RecordFits, Job
  <1>7. "recovery_required" \in JobStates \ {"absent"} /\ "ended" \in JobStates \ {"absent"}
        /\ "pre_turn" \in JobStates \ {"absent"} /\ "running" \in JobStates \ {"absent"}
    BY DEF JobStates, RiskStates, RecoveryStates, TerminalStates
  <1>8. CASE v = NoView /\ PreTurn(r, j) /\ Terminalize(j, r) /\ cache' = cache
    <2>1. turn[r.unit] = "none"
      BY <1>3, <1>6, <1>8 DEF NoView, Viewed
    <2>2. ~Unsettled(r.unit)
      BY <2>1 DEF Unsettled, Live
    <2>3. PICK st \in JobStates \ {"absent"} :
            SetState(j, st) /\ (owner' = owner \/ owner' = ReleasedBy(owner, "codex", r.unit))
      BY <1>7, <1>8 DEF Terminalize
    <2> QED
      BY <1>1, <1>4, <1>5, <1>6, <1>8, <2>2, <2>3, NothingFoundKeeps
  <1>9. CASE SetState(j, "recovery_required") /\ UNCHANGED <<owner, cache>>
    <2>1. job' \in [Jobs -> Job] /\ JobsCalm /\ \A k \in Jobs : job'[k].bound = job[k].bound
      BY <1>0, <1>1, <1>7, <1>9, StateWritten
    <2>2. TurnsCalm /\ TypeOK'
      BY <1>0, <1>4, <1>5, <1>9, <2>1, ServerIdle DEF TypeOK
    <2>3. SnapshotFits(c)'
      BY <1>4, <2>1, <2>2, SnapshotKept
    <2> QED
      BY <1>4, <1>5, <1>9, <2>1, <2>3, StatesOnly
  <1>10. CASE \E b \in Candidates(r, v) : Reconciled(call[c].op, j, r, b, v[b])
    <2>1. PICK b \in Candidates(r, v) : Reconciled(call[c].op, j, r, b, v[b])
      BY <1>10
    <2>2. PICK rec : rec = BindCandidate(job[j], r, b)
      OBVIOUS
    <2>3. b \in Units
      BY DEF Candidates, BoundTurns
    <2>4. rec \in Job /\ SameUse(job[j], rec)
      <3>1. PICK o \in Job : o = job[j]
        BY <1>0, <1>1 DEF TypeOK
      <3>2. Here(o)
        BY <1>1, <3>1 DEF Here
      <3> QED
        BY <2>2, <2>3, <3>1, <3>2, CandidateRecord
    <2>5. /\ cache' = CacheCandidate(r, b)
          /\ \/ owner' = owner
             \/ turn[b] = "ended" /\ owner' = Released(r)
             \/ r.writer /\ ~ForeignOwner(r) /\ owner' = Acquired("codex", r.unit)
      BY <1>0, <1>3, <2>1, <2>3 DEF Reconciled
    <2>6. PICK st \in JobStates \ {"absent"} : job' = [job EXCEPT ![j] = [rec EXCEPT !.state = st]]
      BY <1>7, <2>1, <2>2 DEF Reconciled
    <2>7. PICK q : q = [rec EXCEPT !.state = st]
      OBVIOUS
    <2>8. q \in Job /\ SameUse(job[j], q) /\ q.bound = rec.bound
      <3>1. /\ q \in Job /\ q.state = st /\ q.unit = rec.unit /\ q.bound = rec.bound
            /\ q.writer = rec.writer /\ q.thread = rec.thread /\ q.verified = rec.verified
        BY <2>4, <2>7, RecordEdits
      <3> QED
        BY <2>4, <3>1 DEF SameUse, Here
    <2>9. job' = [job EXCEPT ![j] = q]
      BY <2>6, <2>7
    <2>10. \A d \in Callers : Stays(d) \/ (Leaves(d) /\ CallFits(d)' /\ Carries(d))
      BY <1>4
    <2> HIDE DEF j
    <2> QED
      BY <1>1, <1>3, <1>4, <1>5, <1>6, <2>1, <2>2, <2>5, <2>8, <2>9, <2>10, CandidateKeeps
  <1> QED
    BY <1>2, <1>8, <1>9, <1>10 DEF ApplyObservation

\* interrupt begins.
LEMMA InterruptKeeps == ASSUME ExecutorInv, NEW c \in Callers, NEW j \in Jobs, Interrupt(c, j)
                        PROVE  ExecutorInv'
  <1>0. TypeOK
    BY DEF ExecutorInv
  <1>1. Here(job[j])
    BY IdleCall DEF Interrupt, ExecutorInv, JobFits, Here
  <1>2. PICK l \in BOOLEAN : l = ~up
    BY <1>0 DEF TypeOK
  <1>3. PICK q : q = [Idle EXCEPT !.pc = "interrupt", !.op = "interrupt", !.job = j, !.lost = l]
    OBVIOUS
  <1>4. q \in Call /\ q.pc = "interrupt" /\ q.job = j /\ q.snap = [k \in Jobs |-> Absent]
    BY <1>3, IdleCall DEF Call, Places
  <1>5. Begin(c, q)
    BY <1>2, <1>3 DEF Interrupt
  <1>6. call' \in [Callers -> Call] /\ call'[c] = q /\ \A d \in Callers : d # c => Stays(d)
    BY <1>0, <1>4, <1>5, CallWritten
  <1>7. UNCHANGED <<turn, noted, home, job, owner, cache, local, exits, crashes, up, watched,
                    replayed>>
    BY DEF Interrupt, server, observation, bounds
  <1>8. Leaves(c) /\ SnapshotFits(c)'
    BY <1>4, <1>6 DEF Leaves, SnapshotFits
  <1>9. CallFits(c)'
    BY <1>1, <1>4, <1>6, <1>7, UnitAssumption DEF CallFits, Here
  <1> QED
    BY <1>0, <1>6, <1>7, <1>8, <1>9, CallsOnly DEF TypeOK

\* interrupt is answered and reads again.
LEMMA InterruptAnsweredKeeps ==
  ASSUME ExecutorInv, NEW c \in Callers, InterruptAnswered(c) PROVE ExecutorInv'
  <1> DEFINE j == call[c].job
  <1>0. TypeOK /\ call[c].pc = "interrupt" /\ call[c] \in Call
    BY DEF ExecutorInv, InterruptAnswered, At, TypeOK
  <1>1. j \in Jobs /\ Here(job[j]) /\ RecordFits(job[j], j) /\ job[j] \in Job
    BY <1>0, JobOfCall DEF TypeOK
  <1>2. PICK o \in Job : o = job[j]
    BY <1>1
  <1>3. PICK rec : rec = [o EXCEPT !.state = "recovery_required"]
    OBVIOUS
  <1>4. /\ rec \in Job /\ rec.state = "recovery_required" /\ rec.unit = o.unit /\ rec.bound = o.bound
        /\ rec.writer = o.writer /\ rec.thread = o.thread /\ rec.verified = o.verified
    BY <1>3, RecordEdits DEF JobStates, RiskStates
  <1>5. /\ job' = [job EXCEPT ![j] = rec]
        /\ Begin(c, [call[c] EXCEPT !.pc = "bounded", !.snap = [OnlyJob(j) EXCEPT ![j] = rec]])
    BY <1>2, <1>3 DEF InterruptAnswered
  <1>6. /\ job' \in [Jobs -> Job] /\ JobsCalm /\ \A k \in Jobs : job'[k].bound = job[k].bound
    <2>1. SameUse(job[j], rec)
      BY <1>1, <1>2, <1>4 DEF SameUse, Here
    <2> QED
      BY <1>0, <1>1, <1>2, <1>4, <1>5, <2>1, JobWritten
  <1>7. PICK S \in [Jobs -> Job] : /\ S = [OnlyJob(j) EXCEPT ![j] = rec] /\ S[j] = rec
                                  /\ \A k \in Jobs : k # j => S[k] = Absent
    <2>1. OnlyJob(j) = [k \in Jobs |-> IF k = j THEN o ELSE Absent]
      BY <1>2 DEF OnlyJob
    <2> DEFINE T == [OnlyJob(j) EXCEPT ![j] = rec]
    <2>2. T = [k \in Jobs |-> IF k = j THEN rec ELSE Absent]
      BY <1>1, <2>1
    <2>3. T \in [Jobs -> Job] /\ T[j] = rec /\ \A k \in Jobs : k # j => T[k] = Absent
      BY <1>1, <1>4, <2>2, IdleCall
    <2> QED
      BY <2>3
  <1>8. PICK q : q = [call[c] EXCEPT !.pc = "bounded", !.snap = S]
    OBVIOUS
  <1>9. q \in Call /\ q.pc = "bounded" /\ q.job = j /\ q.snap = S
    BY <1>0, <1>8 DEF Call, Places
  <1>10. Begin(c, q)
    BY <1>5, <1>7, <1>8
  <1>11. call' \in [Callers -> Call] /\ call'[c] = q /\ \A d \in Callers : d # c => Stays(d)
    BY <1>0, <1>9, <1>10, CallWritten
  <1>12. RecordFits(rec, j)
    <2>1. RecordFits(o, j)
      BY <1>1, <1>2
    <2>2. Here(rec)
      BY <1>4 DEF Here
    <2> QED
      BY <1>4, <2>1, <2>2 DEF RecordFits
  <1>13. Leaves(c) /\ Carries(c)
    BY <1>7, <1>9, <1>11, <1>12 DEF Leaves, Carries
  <1>14. CallFits(c)'
    BY <1>1, <1>4, <1>7, <1>9, <1>11, IdleCall, UnitAssumption DEF CallFits
  <1>15. UNCHANGED <<turn, noted, home, owner, cache, local, exits, crashes, up, watched, replayed>>
    BY DEF InterruptAnswered, server, observation, bounds
  <1>16. TypeOK' /\ TurnsCalm
    BY <1>0, <1>6, <1>11, <1>15, ServerIdle DEF TypeOK
  <1>17. SnapshotFits(c)'
    BY <1>6, <1>11, <1>13, <1>16, SnapshotKept
  <1> QED
    BY <1>0, <1>6, <1>11, <1>13, <1>14, <1>15, <1>17, StatesOnly DEF TypeOK

\* A bounded read is tried again or gives up.
LEMMA ReadsAgain ==
  ASSUME ExecutorInv, NEW c \in Callers, call[c].pc = "bounded", NEW rec \in Job,
         SameUse(job[call[c].job], rec), ReadAgain(c, rec)
  PROVE  /\ call' \in [Callers -> Call]
         /\ \A d \in Callers : Stays(d) \/ (Leaves(d) /\ CallFits(d)' /\ SnapshotFits(d)' /\ Carries(d))
         /\ \E q \in Job : /\ job' = [job EXCEPT ![call[c].job] = q]
                           /\ SameUse(job[call[c].job], q) /\ q.bound = rec.bound
  <1>0. TypeOK /\ call[c] \in Call
    BY DEF ExecutorInv, TypeOK
  <1>1. CASE /\ call[c].tries + 1 < MaxReads
             /\ Begin(c, [call[c] EXCEPT !.tries = @ + 1])
             /\ job' = [job EXCEPT ![call[c].job] = rec]
    <2>1. PICK n \in 0 .. (MaxReads - 1) : n = call[c].tries + 1
      BY <1>0, <1>1, ExecutorBounds DEF Call
    <2>2. PICK q : q = [call[c] EXCEPT !.tries = n]
      OBVIOUS
    <2>3. /\ q \in Call /\ q.pc = call[c].pc /\ q.op = call[c].op /\ q.job = call[c].job
          /\ q.unit = call[c].unit /\ q.snap = call[c].snap /\ q.view = call[c].view
      BY <1>0, <2>2 DEF Call
    <2>4. Begin(c, q)
      BY <1>1, <2>1, <2>2
    <2>5. call' \in [Callers -> Call] /\ call'[c] = q /\ \A d \in Callers : d # c => Stays(d)
      BY <1>0, <2>3, <2>4, CallWritten
    <2>6. Stays(c)
      BY <2>3, <2>5 DEF Stays
    <2> QED
      BY <1>1, <2>5, <2>6
  <1>2. CASE Return(c) /\ job' = [job EXCEPT ![call[c].job] = [rec EXCEPT !.state = "recovery_required"]]
    <2>1. PICK q : q = [rec EXCEPT !.state = "recovery_required"]
      OBVIOUS
    <2>2. /\ q \in Job /\ q.state = "recovery_required" /\ q.unit = rec.unit /\ q.bound = rec.bound
          /\ q.writer = rec.writer /\ q.thread = rec.thread /\ q.verified = rec.verified
      BY <2>1, RecordEdits DEF JobStates, RiskStates
    <2>3. SameUse(job[call[c].job], q)
      BY <2>2 DEF SameUse, Here
    <2>4. call'[c] = Idle /\ \A d \in Callers : d # c => Stays(d)
      BY <1>0, <1>2 DEF TypeOK, Return, Stays
    <2>5. Leaves(c) /\ CallFits(c)' /\ SnapshotFits(c)' /\ Carries(c)
      BY <2>4, IdleCall DEF Leaves, CallFits, SnapshotFits, Carries
    <2> QED
      BY <1>0, <1>2, <2>1, <2>2, <2>3, <2>4, <2>5, CallReturns
  <1> QED
    BY <1>1, <1>2 DEF ReadAgain

\* A failed bounded read.
LEMMA BoundedReadFailsKeeps ==
  ASSUME ExecutorInv, NEW c \in Callers, BoundedReadFails(c) PROVE ExecutorInv'
  <1>0. TypeOK /\ call[c].pc = "bounded"
    BY DEF ExecutorInv, BoundedReadFails, At
  <1>1. call[c].job \in Jobs /\ Here(job[call[c].job])
    BY <1>0, JobOfCall
  <1>2. PICK o \in Job : o = job[call[c].job]
    BY <1>0, <1>1 DEF TypeOK
  <1>3. SameUse(job[call[c].job], o) /\ ReadAgain(c, o)
    BY <1>1, <1>2 DEF SameUse, Here, BoundedReadFails
  <1>4. /\ call' \in [Callers -> Call]
        /\ \A d \in Callers : Stays(d) \/ (Leaves(d) /\ CallFits(d)' /\ SnapshotFits(d)' /\ Carries(d))
    BY <1>0, <1>3, ReadsAgain
  <1>5. PICK q \in Job : /\ job' = [job EXCEPT ![call[c].job] = q]
                        /\ SameUse(job[call[c].job], q) /\ q.bound = o.bound
    BY <1>0, <1>3, ReadsAgain
  <1>6. job' \in [Jobs -> Job] /\ JobsCalm /\ \A k \in Jobs : job'[k].bound = job[k].bound
    BY <1>0, <1>1, <1>2, <1>5, JobWritten
  <1> QED
    BY <1>0, <1>4, <1>6, StatesOnly DEF BoundedReadFails, TypeOK, server, observation, bounds

\* A bounded read is answered.
LEMMA BoundedReadKeeps ==
  ASSUME ExecutorInv, NEW c \in Callers, BoundedRead(c) PROVE ExecutorInv'
  <1> DEFINE j == call[c].job
             s == call[c].snap[j]
  <1>0. TypeOK /\ call[c].pc = "bounded" /\ call[c].snap \in [Jobs -> Job] /\ Settled(j)
    BY DEF ExecutorInv, BoundedRead, At, TypeOK, Call
  <1>1. j \in Jobs /\ Here(job[j]) /\ RecordFits(s, j) /\ s \in Job
    BY <1>0, JobOfCall
  <1>2. PICK r \in Job, v \in [Units -> TurnStates], o \in Job : r = s /\ v = View(j) /\ o = job[j]
    BY <1>0, <1>1, ViewRead DEF TypeOK
  <1>3. Viewed(v, j) /\ \A u \in Units : v[u] = "ended" => turn[u] = "ended"
    BY <1>0, <1>1, <1>2, ViewRead DEF Viewed
  <1>4. UNCHANGED <<up, turn, noted, home, watched, replayed, local, exits, crashes>>
    BY DEF BoundedRead, server, observation, bounds
  <1>5. CASE Candidates(r, v) = {} /\ ReadAgain(c, job[j]) /\ UNCHANGED <<owner, cache>>
    BY <1>1, <1>4, <1>5, BoundedReadFailsKeeps DEF BoundedReadFails, BoundedRead, At, server,
       observation, bounds
  <1>6. CASE \E b \in Candidates(r, v) :
               /\ cache' = CacheCandidate(r, b)
               /\ \/ /\ v[b] = "ended"
                     /\ job' = [job EXCEPT ![j] = [BindCandidate(job[j], r, b) EXCEPT !.state = "ended"]]
                     /\ owner' = Released(r) /\ Return(c)
                  \/ ReadAgain(c, BindCandidate(job[j], r, b)) /\ owner' = owner
    <2>1. PICK b \in Candidates(r, v) :
            /\ cache' = CacheCandidate(r, b)
            /\ \/ /\ v[b] = "ended"
                  /\ job' = [job EXCEPT ![j] = [BindCandidate(job[j], r, b) EXCEPT !.state = "ended"]]
                  /\ owner' = Released(r) /\ Return(c)
               \/ ReadAgain(c, BindCandidate(job[j], r, b)) /\ owner' = owner
      BY <1>6
    <2>2. PICK rec : rec = BindCandidate(job[j], r, b)
      OBVIOUS
    <2>3. b \in Units
      BY DEF Candidates, BoundTurns
    <2>4. rec \in Job /\ SameUse(job[j], rec)
      <3>1. Here(o)
        BY <1>1, <1>2 DEF Here
      <3> QED
        BY <1>2, <2>2, <2>3, <3>1, CandidateRecord
    <2>5. /\ call' \in [Callers -> Call]
          /\ \A d \in Callers : Stays(d) \/ (Leaves(d) /\ CallFits(d)' /\ Carries(d))
          /\ \E q \in Job : /\ job' = [job EXCEPT ![j] = q] /\ SameUse(job[j], q)
                            /\ q.bound = rec.bound
          /\ owner' = owner \/ (turn[b] = "ended" /\ owner' = Released(r))
      <3>1. CASE /\ v[b] = "ended" /\ owner' = Released(r) /\ Return(c)
                 /\ job' = [job EXCEPT ![j] = [rec EXCEPT !.state = "ended"]]
        <4>1. PICK q : q = [rec EXCEPT !.state = "ended"]
          OBVIOUS
        <4>2. /\ q \in Job /\ q.state = "ended" /\ q.unit = rec.unit /\ q.bound = rec.bound
              /\ q.writer = rec.writer /\ q.thread = rec.thread /\ q.verified = rec.verified
          BY <2>4, <4>1, RecordEdits DEF JobStates, TerminalStates
        <4>3. SameUse(job[j], q)
          BY <2>4, <4>2 DEF SameUse, Here
        <4>4. call'[c] = Idle /\ call' \in [Callers -> Call] /\ \A d \in Callers : d # c => Stays(d)
          BY <1>0, <3>1, IdleCall DEF TypeOK, Return, Stays
        <4>5. Leaves(c) /\ CallFits(c)' /\ Carries(c)
          BY <4>4, IdleCall DEF Leaves, CallFits, Carries
        <4> QED
          BY <1>3, <2>3, <3>1, <4>1, <4>2, <4>3, <4>4, <4>5
      <3>2. CASE ReadAgain(c, rec) /\ owner' = owner
        BY <1>0, <2>4, <3>2, ReadsAgain
      <3> QED
        BY <2>1, <2>2, <3>1, <3>2
    <2>6. PICK q \in Job : /\ job' = [job EXCEPT ![j] = q] /\ SameUse(job[j], q)
                          /\ q.bound = BindCandidate(job[j], r, b).bound
      BY <2>2, <2>5
    <2>7. RecordFits(r, j)
      BY <1>1, <1>2
    <2>8. up' \in BOOLEAN /\ watched' \subseteq Jobs /\ replayed' \subseteq Jobs
      BY <1>0, <1>4 DEF TypeOK
    <2> HIDE DEF j
    <2> QED
      BY <1>1, <1>3, <1>4, <2>1, <2>5, <2>6, <2>7, <2>8, CandidateKeeps
  <1> QED
    <2>1. \/ Candidates(s, View(j)) = {} /\ ReadAgain(c, job[j]) /\ UNCHANGED <<owner, cache>>
          \/ \E b \in Candidates(s, View(j)) :
               /\ cache' = CacheCandidate(s, b)
               /\ \/ /\ View(j)[b] = "ended"
                     /\ job' = [job EXCEPT ![j] = [BindCandidate(job[j], s, b) EXCEPT !.state = "ended"]]
                     /\ owner' = Released(s) /\ Return(c)
                  \/ ReadAgain(c, BindCandidate(job[j], s, b)) /\ owner' = owner
      BY DEF BoundedRead
    <2> QED
      BY <1>2, <1>5, <1>6, <2>1

----------------------------------------------------------------------------
(* Binding a turn that answered or was notified *)
\* A writer's turn that ran is bound to its own unit.
LEMMA OwnBound ==
  ASSUME ExecutorInv, TypeOK', TurnsCalm, JobsCalm, turn' = turn,
         \A c \in Callers : Stays(c) \/ Leaves(c),
         NEW j \in Jobs, Here(job[j]), NEW u \in Units, home[u] = j, Ran(u), Seen(u)',
         NEW w \in Units, job[j].writer => w = u,
         job'[j].bound[u] = w, \A x \in Units : x # u => job'[j].bound[x] = job[j].bound[x]
  PROVE  JobFits(j)'
  <1>1. PICK o \in Job, q \in Job : o = job[j] /\ q = job'[j]
    BY DEF ExecutorInv, TypeOK
  <1>2. RecordFits(o, j)'
    <2>1. RecordFits(o, j)
      BY <1>1 DEF ExecutorInv, JobFits
    <2> QED
      BY <2>1, RecordKept
  <1>3. /\ Here(q) /\ q.unit = o.unit /\ q.writer = o.writer /\ q.bound[u] = w
        /\ \A x \in Units : x # u => q.bound[x] = o.bound[x]
        /\ home' = home /\ Ran(u)' /\ w # NoUnit
    BY <1>1, UnitAssumption DEF JobsCalm, SameUse, TurnsCalm, Ran
  <1>4. \A x \in Units : q.bound[x] # NoUnit => home'[x] = j /\ Ran(x)' /\ Seen(x)'
    BY <1>2, <1>3 DEF RecordFits
  <1>5. ASSUME q.writer, NEW x \in Units
        PROVE  q.bound[x] \in {NoUnit, x} \/ Dead(q.bound[x])'
    <2>1. CASE x # u
      BY <1>2, <1>3, <1>5, <2>1 DEF RecordFits
    <2>2. CASE x = u
      BY <1>1, <1>3, <1>5, <2>2
    <2> QED
      BY <2>1, <2>2
  <1>6. ASSUME q.writer, NEW x \in Units, NEW y \in Units, Live(x)', q.bound[x] \notin {NoUnit, x},
               home'[y] = j, turn'[y] = "ended"
        PROVE  q.bound[y] # NoUnit
    <2>1. x # u
      BY <1>1, <1>3, <1>6
    <2>2. o.bound[y] # NoUnit
      BY <1>2, <1>3, <1>6, <2>1 DEF RecordFits
    <2> QED
      BY <1>3, <2>2
  <1>7. RecordFits(q, j)'
    BY <1>1, <1>2, <1>3, <1>4, <1>5, <1>6 DEF RecordFits, Here, Asked
  <1>8. RecordFits(job[j], j)'
    BY <1>1, <1>7, SameRecord
  <1> QED
    BY <1>1, <1>3, <1>8 DEF JobFits, Here

\* The record with a turn bound.
WithTurn(f, j, u, w, st) == [f EXCEPT ![j].turn = u, ![j].bound[u] = w, ![j].phase = "turn_bound",
                                      ![j].state = st]
\* What binding a turn makes of a record.
LEMMA TurnRecord ==
  ASSUME NEW f \in [Jobs -> Job], NEW j \in Jobs, NEW u \in Units, NEW w \in Units \cup {NoUnit},
         NEW st \in JobStates \ {"absent"},
         NEW g, g = WithTurn(f, j, u, w, st)
  PROVE  /\ g \in [Jobs -> Job] /\ \A k \in Jobs : k # j => g[k] = f[k]
         /\ g[j].state = st /\ g[j].unit = f[j].unit /\ g[j].writer = f[j].writer
         /\ g[j].thread = f[j].thread /\ g[j].verified = f[j].verified
         /\ g[j].bound[u] = w /\ \A x \in Units : x # u => g[j].bound[x] = f[j].bound[x]
  <1>1. \A k \in Jobs : k # j => g[k] = f[k]
    BY DEF WithTurn
  <1>2. g[j] \in Job
    BY ZenonT(60) DEF WithTurn, Job, Phases
  <1>3. g \in [Jobs -> Job]
    BY <1>1, <1>2 DEF WithTurn
  <1>4. g[j].state = st /\ g[j].unit = f[j].unit /\ g[j].writer = f[j].writer
    BY DEF WithTurn, Job
  <1>5. g[j].thread = f[j].thread /\ g[j].verified = f[j].verified
    BY DEF WithTurn, Job
  <1>6. g[j].bound[u] = w
    BY DEF WithTurn, Job
  <1>7. \A x \in Units : x # u => g[j].bound[x] = f[j].bound[x]
    BY DEF WithTurn, Job
  <1> QED
    BY <1>1, <1>3, <1>4, <1>5, <1>6, <1>7

\* turn/start is answered.
LEMMA TurnBoundKeeps == ASSUME ExecutorInv, NEW c \in Callers, TurnBound(c) PROVE ExecutorInv'
  <1>0. /\ TypeOK /\ call[c].pc = "turn" /\ job \in [Jobs -> Job]
        /\ call[c].job \in Jobs /\ Here(job[call[c].job]) /\ call[c].unit \in Units
        /\ home[call[c].unit] = call[c].job
    BY JobOfCall DEF ExecutorInv, TurnBound, At, TypeOK, Call, CallFits
  <1> PICK j \in Jobs, u \in Units : j = call[c].job /\ u = call[c].unit
    BY <1>0
  <1>1. Here(job[j]) /\ home[u] = j /\ Ran(u)
    BY <1>0 DEF TurnBound, Ran, Here
  <1>2. job' = WithTurn(job, j, u, u, "running")
    BY DEF TurnBound, WithTurn
  <1>3. /\ job' \in [Jobs -> Job] /\ \A k \in Jobs : k # j => job'[k] = job[k]
        /\ job'[j].state = "running" /\ job'[j].unit = job[j].unit
        /\ job'[j].writer = job[j].writer /\ job'[j].thread = job[j].thread
        /\ job'[j].verified = job[j].verified /\ job'[j].bound[u] = u
        /\ \A x \in Units : x # u => job'[j].bound[x] = job[j].bound[x]
    <2>1. "running" \in JobStates \ {"absent"}
      BY DEF JobStates, RiskStates, RecoveryStates
    <2> QED
      BY <1>0, <1>2, <2>1, TurnRecord
  <1>4. JobsCalm
    BY <1>1, <1>3 DEF JobsCalm, SameUse, Here
  <1>5. /\ cache' \in [Units -> Units \cup {NoUnit}] /\ cache'[u] = u
        /\ \A x \in Units : x # u => cache'[x] = cache[x]
    BY <1>0, <1>1 DEF TurnBound, TypeOK
  <1>6. UNCHANGED <<up, turn, noted, home, owner, watched, replayed, local, exits, crashes>>
    BY DEF TurnBound, server, observation, bounds
  <1>7. TurnsCalm /\ Seen(u)'
    <2>1. u # NoUnit /\ \A x \in Units : cache[x] # NoUnit => cache'[x] # NoUnit
      BY <1>1, <1>5, UnitAssumption
    <2> QED
      BY <1>5, <1>6, <2>1, ServerIdle DEF Seen
  <1>8. /\ call' \in [Callers -> Call]
        /\ \A d \in Callers : Stays(d) \/ (Leaves(d) /\ CallFits(d)' /\ SnapshotFits(d)')
    BY <1>0, CallReturns DEF TurnBound
  <1>9. TypeOK'
    BY <1>0, <1>3, <1>5, <1>6, <1>8 DEF TypeOK
  <1>10. JobFits(j)'
    <2>1. turn' = turn /\ \A d \in Callers : Stays(d) \/ Leaves(d)
      BY <1>6, <1>8
    <2> QED
      BY <1>0, <1>1, <1>3, <1>4, <1>7, <1>9, <2>1, OwnBound
  <1>11. OwnerKept /\ UseKept
    <2>1. OwnerKept
      BY <1>6 DEF OwnerKept, ExecutorInv, OwnerFits
    <2>2. \A x \in Units : Unsettled(x)' => Unsettled(x)
      BY <1>7, <1>8, <1>9, CalmMoves
    <2> QED
      <3>1. \A x \in Units : home[x] = NoJob => cache'[x] = cache[x]
        BY <1>1, <1>5, UnitAssumption
      <3> QED
        BY <1>5, <1>6, <2>1, <2>2, <3>1 DEF UseKept, ExecutorInv, UnitFits
  <1> QED
    BY <1>3, <1>4, <1>7, <1>8, <1>9, <1>10, <1>11, CalmKeeps

\* A notification of turn u names u's own unit, or a dead one.
LEMMA NotifiedOwn ==
  ASSUME ExecutorInv, NEW u \in Units, NEW j \in Jobs, j = home[u], Ran(u), job[j].writer,
         NEW started \in BOOLEAN, started => noted[u] = 0,
         NEW w \in Units, w = NotifiedUnit(j, u, started)
  PROVE  /\ w = u \/ Dead(w)
         /\ job[j].bound[u] = NoUnit /\ cache[u] = NoUnit => w = u
         /\ ~Pending(w) /\ home[w] # NoJob
  <1>1. UnitFits(u) /\ home[u] # NoJob
    BY UnitAssumption DEF ExecutorInv
  <1>2. ~Pending(u)
    BY DEF Pending, Ran, ExecutorInv, CallFits
  <1>3. CASE job[j].bound[u] # NoUnit
    <2>1. Here(job[j])
      BY DEF ExecutorInv, JobFits
    <2>2. job[j].bound[u] \in {NoUnit, u} \/ Dead(job[j].bound[u])
      BY <2>1 DEF ExecutorInv, JobFits, RecordFits
    <2> QED
      BY <1>1, <1>2, <1>3, <2>2 DEF NotifiedUnit, Dead
  <1>4. CASE job[j].bound[u] = NoUnit /\ cache[u] # NoUnit
    BY <1>1, <1>2, <1>4 DEF NotifiedUnit, UnitFits, Dead
  <1>5. CASE job[j].bound[u] = NoUnit /\ cache[u] = NoUnit
    <2>1. started /\ w = job[j].unit
      BY <1>5, UnitAssumption DEF NotifiedUnit
    <2>2. Unsettled(u)
      BY <1>5, <2>1 DEF Ran, Unsettled, Live, Seen
    <2>3. job[j].unit = u
      BY <1>1, <2>2 DEF UnitFits
    <2> QED
      BY <1>1, <1>2, <2>1, <2>3
  <1> QED
    BY <1>3, <1>4, <1>5

NotedTurn(f, j, u, w, st) == [f EXCEPT ![j].turn = u, ![j].phase = "turn_bound", ![j].state = st,
                                       ![j].bound[u] = w]
Noted(f, g, j, u, w, st) ==
  /\ g \in [Jobs -> Job]
  /\ \A k \in Jobs : k # j => g[k] = f[k]
  /\ g[j].state = st /\ g[j].unit = f[j].unit /\ g[j].writer = f[j].writer
  /\ g[j].thread = f[j].thread /\ g[j].verified = f[j].verified
  /\ g[j].bound[u] = w
  /\ \A x \in Units : x # u => g[j].bound[x] = f[j].bound[x]
\* What a notification makes of a record.
LEMMA NotedRecord ==
  ASSUME NEW f \in [Jobs -> Job], NEW j \in Jobs, NEW u \in Units, NEW w \in Units \cup {NoUnit},
         NEW st \in JobStates \ {"absent"}, NEW g, g = NotedTurn(f, j, u, w, st)
  PROVE  Noted(f, g, j, u, w, st)
  <1>1. \A k \in Jobs : k # j => g[k] = f[k]
    BY DEF NotedTurn
  <1>2. g[j] \in Job
    BY ZenonT(60) DEF NotedTurn, Job, Phases
  <1>3. g \in [Jobs -> Job]
    BY <1>1, <1>2 DEF NotedTurn
  <1>4. g[j].state = st /\ g[j].unit = f[j].unit /\ g[j].writer = f[j].writer
    BY DEF NotedTurn, Job
  <1>5. g[j].thread = f[j].thread /\ g[j].verified = f[j].verified
    BY DEF NotedTurn, Job
  <1>6. g[j].bound[u] = w
    BY DEF NotedTurn, Job
  <1>7. \A x \in Units : x # u => g[j].bound[x] = f[j].bound[x]
    BY DEF NotedTurn, Job
  <1> QED
    BY <1>1, <1>3, <1>4, <1>5, <1>6, <1>7 DEF Noted

\* A notification is handled.
LEMMA NotifyKeeps ==
  ASSUME ExecutorInv, NEW u \in Units, NEW started \in BOOLEAN, Ran(u),
         started => noted[u] = 0 /\ noted' = [noted EXCEPT ![u] = 1],
         ~started => turn[u] = "ended" /\ noted[u] = 1 /\ noted' = [noted EXCEPT ![u] = 2],
         HandleTurn(u, started), UNCHANGED <<up, turn, home, watched, local, call, bounds>>
  PROVE  ExecutorInv'
  <1>0. /\ TypeOK /\ OwnerTyped(owner) /\ job \in [Jobs -> Job]
        /\ \A c \in Callers : Stays(c)
    BY DEF ExecutorInv, TypeOK, OwnerTyped, OwnerRecord, Stays
  <1>1. PICK j \in Jobs : j = home[u]
    BY <1>0 DEF ExecutorInv, UnitFits, Ran, TypeOK
  <1>2. Here(job[j]) /\ RecordFits(job[j], j) /\ job[j] \in Job
    BY <1>0, <1>1 DEF ExecutorInv, JobFits
  <1>3. /\ noted' \in [Units -> 0 .. 2] /\ \A x \in Units : noted[x] # 0 => noted'[x] # 0
    BY <1>0 DEF TypeOK
  <1>4. UNCHANGED <<up, turn, home, watched, local, call, exits, crashes>>
    BY DEF bounds
  <1>5. CASE UNCHANGED <<job, owner, cache>> /\ replayed' \subseteq Jobs
    <2>1. TurnsCalm /\ JobsCalm
      BY <1>3, <1>4, <1>5 DEF TurnsCalm, Ran, Seen, Live, JobsCalm
    <2>2. TypeOK'
      BY <1>0, <1>3, <1>4, <1>5 DEF TypeOK
    <2> QED
      BY <1>0, <1>4, <1>5, <2>1, <2>2, OwnerStays, CalmKeeps
  <1> DEFINE unit == NotifiedUnit(j, u, started)
             binds == job[j].bound[u] = NoUnit /\ cache[u] = NoUnit /\ started
  <1>6. CASE /\ unit # NoUnit /\ unit = job[j].unit
             /\ job' = [job EXCEPT ![j].turn = u, ![j].phase = "turn_bound",
                                   ![j].state = IF started THEN "inProgress" ELSE "ended",
                                   ![j].bound[u] = IF binds THEN unit ELSE @]
             /\ cache' = [cache EXCEPT ![u] = IF binds THEN unit ELSE @]
             /\ owner' = IF ~job[j].writer THEN owner
                         ELSE IF ~started THEN ReleasedBy(owner, "codex", unit)
                         ELSE IF owner.who = "none" THEN Acquired("codex", unit)
                         ELSE IF owner.who = "codex" THEN Marked(owner, "running")
                         ELSE owner
             /\ replayed' = replayed
    <2>1. PICK w \in Units : w = unit
      BY <1>2, <1>6 DEF Job
    <2>2. job[j].writer =>
            /\ w = u \/ Dead(w)
            /\ job[j].bound[u] = NoUnit /\ cache[u] = NoUnit => w = u
            /\ ~Pending(w) /\ home[w] # NoJob
      BY <1>1, <2>1, NotifiedOwn
    <2> HIDE DEF unit
    <2>3. /\ job' \in [Jobs -> Job] /\ JobsCalm /\ \A k \in Jobs : k # j => job'[k] = job[k]
          /\ ~binds => job'[j].bound = job[j].bound
          /\ binds => job'[j].bound[u] = w
          /\ \A x \in Units : x # u => job'[j].bound[x] = job[j].bound[x]
      <3>1. PICK x \in Units \cup {NoUnit} : x = IF binds THEN w ELSE job[j].bound[u]
        BY <1>2 DEF Job
      <3>2. PICK st \in JobStates \ {"absent"} : st = IF started THEN "inProgress" ELSE "ended"
        BY DEF JobStates, TerminalStates
      <3>3. job' = NotedTurn(job, j, u, x, st)
        <4>1. CASE binds
          BY <1>6, <2>1, <3>1, <3>2, <4>1 DEF NotedTurn
        <4>2. CASE ~binds
          BY <1>6, <3>1, <3>2, <4>2 DEF NotedTurn
        <4> QED
          BY <4>1, <4>2
      <3> HIDE DEF binds
      <3>4. /\ job' \in [Jobs -> Job] /\ \A k \in Jobs : k # j => job'[k] = job[k]
            /\ job'[j].state = st /\ job'[j].unit = job[j].unit /\ job'[j].writer = job[j].writer
            /\ job'[j].thread = job[j].thread /\ job'[j].verified = job[j].verified
            /\ job'[j].bound[u] = x
            /\ \A y \in Units : y # u => job'[j].bound[y] = job[j].bound[y]
        <4>1. Noted(job, job', j, u, x, st)
          BY <1>0, <3>3, NotedRecord
        <4> QED
          BY <4>1 DEF Noted
      <3>6. ASSUME ~binds PROVE job'[j].bound = job[j].bound
        <4>1. /\ job'[j].bound \in [Units -> Units \cup {NoUnit}]
              /\ job[j].bound \in [Units -> Units \cup {NoUnit}]
          BY <1>2, <3>4 DEF Job
        <4>2. \A y \in Units : job'[j].bound[y] = job[j].bound[y]
          BY <3>1, <3>4, <3>6
        <4> QED
          BY <4>1, <4>2
      <3>7. JobsCalm
        BY <1>2, <3>2, <3>4 DEF JobsCalm, SameUse, Here
      <3> QED
        BY <3>1, <3>4, <3>6, <3>7
    <2>4. /\ cache' \in [Units -> Units \cup {NoUnit}]
          /\ binds => cache'[u] = w
          /\ ~binds => cache'[u] = cache[u]
          /\ \A x \in Units : x # u => cache'[x] = cache[x]
      BY <1>0, <1>6, <2>1 DEF TypeOK
    <2>5. w # NoUnit /\ TurnsCalm
      <3>1. w # NoUnit
        BY UnitAssumption
      <3>2. \A x \in Units : cache[x] # NoUnit => cache'[x] # NoUnit
        BY <2>4, <3>1
      <3> QED
        BY <1>3, <1>4, <3>1, <3>2 DEF TurnsCalm, Ran, Seen, Live
    <2>6. OwnerTyped(owner')
      BY <1>0, <1>6, <2>1, OwnerMoves DEF UnitStates
    <2>7. TypeOK'
      BY <1>0, <1>3, <1>4, <1>6, <2>3, <2>4, <2>6 DEF TypeOK, OwnerTyped, OwnerRecord
    <2>8. \A k \in Jobs : job'[k].bound = job[k].bound \/ JobFits(k)'
      <3>1. CASE binds
        <4>1. Seen(u)'
          BY <2>4, <2>5, <3>1 DEF Seen
        <4>2. JobFits(j)'
          BY <1>0, <1>1, <1>2, <1>4, <2>2, <2>3, <2>5, <2>7, <3>1, <4>1, OwnBound
        <4> QED
          BY <2>3, <4>2
      <3> QED
        BY <2>3, <3>1
    <2>9. \A x \in Units : Unsettled(x)' => Unsettled(x)
      BY <1>0, <2>5, <2>7, CalmMoves
    <2>10. OwnerKept /\ \A x \in Units : home[x] # NoJob /\ job[home[x]].writer =>
                                      (Unsettled(x)' => owner'.unit = x)
      <3>0. \A x \in Units : home[x] # NoJob /\ job[home[x]].writer =>
                                      (Unsettled(x)' => owner.unit = x)
        BY <2>9 DEF ExecutorInv, UnitFits
      <3>1. CASE owner' = owner
        BY <1>4, <3>0, <3>1 DEF OwnerKept, ExecutorInv, OwnerFits
      <3>2. CASE owner' = Marked(owner, "running")
        <4>1. owner'.unit = owner.unit /\ owner'.who = owner.who /\ owner'.st # "reconciled"
          BY <1>0, <3>2, OwnerMoves DEF ExecutorInv, OwnerFits, UnitStates
        <4> QED
          BY <1>4, <3>0, <4>1 DEF OwnerKept, ExecutorInv, OwnerFits
      <3>3. CASE job[j].writer /\ ~started /\ owner' = ReleasedBy(owner, "codex", w)
        <4>1. ~Unsettled(u)
          BY <3>3 DEF Unsettled, Live, Seen
        <4>2. ~Unsettled(w)'
          BY <2>2, <2>9, <3>3, <4>1 DEF Dead
        <4> QED
          BY <1>0, <1>4, <2>5, <2>7, <3>3, <4>2, OwnerReleased
      <3>4. CASE job[j].writer /\ owner.who = "none" /\ owner' = Acquired("codex", w)
        <4>1. owner'.unit = w /\ owner'.who = "codex" /\ owner'.st = "running"
          BY <1>0, <3>4, OwnerMoves
        <4>2. owner.unit = NoUnit /\ ~local
          BY <1>0, <3>4 DEF OwnerTyped, ExecutorInv, OwnerFits
        <4>3. OwnerKept
          BY <1>4, <2>2, <3>4, <4>1, <4>2 DEF OwnerKept, Pending
        <4> QED
          BY <3>0, <4>2, <4>3, UnitAssumption
      <3> QED
        BY <1>6, <2>1, <3>1, <3>2, <3>3, <3>4
    <2>11. UseKept
      <3>1. \A x \in Units : home[x] # NoJob /\ job[home[x]].writer =>
                               cache'[x] \in {NoUnit, x, cache[x]} \/ Dead(cache'[x])
        BY <1>1, <2>2, <2>4
      <3> QED
        <4>1. \A x \in Units : home[x] = NoJob => cache'[x] = cache[x]
          BY <1>1, <2>4, UnitAssumption
        <4> QED
          BY <2>10, <3>1, <4>1 DEF UseKept
    <2> QED
      BY <1>0, <2>3, <2>5, <2>7, <2>8, <2>10, <2>11, CalmKeeps
  <1> QED
    <2>1. replayed \cup {j} \subseteq Jobs
      BY <1>0 DEF TypeOK
    <2> QED
      BY <1>1, <1>5, <1>6, <2>1 DEF HandleTurn

\* turn/started is handled.
LEMMA NotifyStartedKeeps ==
  ASSUME ExecutorInv, NEW u \in Units, NotifyStarted(u) PROVE ExecutorInv'
  BY NotifyKeeps DEF NotifyStarted, Ran

\* turn/completed is handled.
LEMMA NotifyCompletedKeeps ==
  ASSUME ExecutorInv, NEW u \in Units, NotifyCompleted(u) PROVE ExecutorInv'
  BY NotifyKeeps DEF NotifyCompleted, Ran

----------------------------------------------------------------------------
(* A unit minted, a thread started, a turn dispatched *)
\* The call of d is left waiting for settings that another one now waits for.
Forgets(d) == /\ call[d].pc = "settings" /\ call'[d].pc = "forgotten"
              /\ call'[d].op = call[d].op /\ call'[d].job = call[d].job
              /\ call'[d].unit = call[d].unit /\ call'[d].snap = call[d].snap

\* The call of c moves towards the turn of unit w for job j, which nobody else prepares.
Moves(c, j, w) ==
  /\ UNCHANGED <<noted, cache, local>>
  /\ \A u \in Units : u # w => home'[u] = home[u] /\ turn'[u] = turn[u]
  /\ home'[w] = j /\ turn[w] = "none" /\ turn'[w] \in {"none", "sent"}
  /\ \/ home[w] = NoJob
     \/ /\ home[w] = j /\ call[c].pc \in {"thread", "settings"} /\ call[c].unit = w
        /\ call'[c].pc = "settings" => call'[c].op = call[c].op
  /\ \A d \in Callers : d # c => Stays(d) \/ Forgets(d)
  /\ \A d \in Callers :
       /\ d # c /\ call'[d].pc \in {"thread", "settings"}
       /\ call'[d].op = "start" \/ (call'[c].pc \in {"thread", "settings"} /\ call'[c].op = "start")
       => call'[d].job # j
  /\ call'[c].pc \in {"thread", "settings"} => call'[c].unit = w /\ call'[c].job = j
  /\ CallFits(c)' /\ call'[c].snap \in {call[c].snap, Idle.snap}

Wrote(c, j, w) ==
  /\ \A k \in Jobs : k # j => job'[k] = job[k]
  /\ Here(job'[j])
  /\ IF Here(job[j]) THEN /\ job'[j].bound = job[j].bound /\ job'[j].writer = job[j].writer
                          /\ job'[j].unit \in {job[j].unit, w}
     ELSE job'[j].bound = Unbound /\ job'[j].unit = w
  /\ job'[j].unit = w => ~(call'[c].pc = "settings" /\ call'[c].op = "continue")

\* A writer's turn is dispatched only by taking a workspace that no unit has.
Took(c, j, w) ==
  \/ /\ owner' = owner /\ (job'[j].writer => turn'[w] = "none")
     /\ Here(job[j]) /\ job[j].writer => job'[j].unit = job[j].unit
  \/ /\ owner' = Acquired("codex", w) /\ owner.unit = NoUnit /\ ~local
     /\ job'[j].unit = w /\ call'[c].pc \notin {"thread", "settings"}

\* Units that are over stay so, and only w may become pending.
LEMMA MovesKept ==
  ASSUME ExecutorInv, NEW c \in Callers, NEW j \in Jobs, NEW w \in Units, Moves(c, j, w)
  PROVE  /\ \A u \in Units : Pending(u)' => Pending(u) \/ (u = w /\ home[w] = NoJob)
         /\ \A u \in Units : Asked(u)' => Asked(u) \/ (u = w /\ home[w] = NoJob)
         /\ \A u \in Units : u # w => (Unsettled(u)' <=> Unsettled(u))
         /\ \A u \in Units : Dead(u) => Dead(u)'
         /\ \A u \in Units : home[u] # NoJob => home'[u] = home[u]
         /\ \A u \in Units : Ran(u) => Ran(u)'
         /\ \A u \in Units : Seen(u)' <=> Seen(u)
  <1>1. \A u \in Units : Pending(u)' => Pending(u) \/ u = w
    BY DEF Pending, Moves, Stays, Forgets
  <1>2. home[w] # NoJob => Pending(w)
    BY DEF Pending, Moves
  <1>3. \A u \in Units : Asked(u)' => Asked(u) \/ (u = w /\ home[w] = NoJob)
    <2> SUFFICES ASSUME NEW u \in Units, Asked(u)', ~(u = w /\ home[w] = NoJob)
                 PROVE  Asked(u)
      OBVIOUS
    <2>1. PICK d \in Callers : /\ call'[d].pc = "settings" /\ call'[d].op = "continue"
                               /\ call'[d].unit = u
      BY DEF Asked
    <2>2. CASE d # c
      BY <2>1, <2>2 DEF Asked, Moves, Stays, Forgets
    <2>3. CASE d = c
      <3>1. u = w /\ call[c].pc \in {"thread", "settings"} /\ call[c].unit = w
            /\ call[c].op = "continue"
        BY <2>1, <2>3 DEF Moves
      <3>2. call[c].pc = "settings"
        BY <3>1 DEF ExecutorInv, CallFits
      <3> QED
        BY <3>1, <3>2 DEF Asked
    <2> QED
      BY <2>2, <2>3
  <1>4. \A u \in Units : Seen(u)' <=> Seen(u)
    BY DEF Seen, Moves
  <1>5. \A u \in Units : u # w => (Unsettled(u)' <=> Unsettled(u)) /\ (Ran(u)' <=> Ran(u))
    BY <1>4 DEF Unsettled, Live, Ran, Moves
  <1>6. \A u \in Units : home[u] # NoJob => home'[u] = home[u]
    BY DEF Moves
  <1>7. ~Ran(w) /\ ~Dead(w)
    BY <1>2 DEF Moves, Ran, Dead
  <1>8. \A u \in Units : Dead(u) => Dead(u)'
    BY <1>1, <1>5, <1>6, <1>7 DEF Dead
  <1> QED
    BY <1>1, <1>2, <1>3, <1>4, <1>5, <1>6, <1>7, <1>8

\* What holds of a record goes on holding.
LEMMA RecordMoves ==
  ASSUME ExecutorInv, NEW c \in Callers, NEW j \in Jobs, NEW w \in Units, Moves(c, j, w),
         Wrote(c, j, w), NEW k \in Jobs, NEW r \in Job, RecordFits(r, k)
  PROVE  RecordFits(r, k)'
  <1>1. Here(job'[k]) /\ r.writer = job'[k].writer
    BY DEF RecordFits, Wrote
  <1>2. r.unit \in Units /\ home'[r.unit] = k /\ r.unit # NoUnit
    BY MovesKept, UnitAssumption DEF RecordFits, Job
  <1>3. ~Asked(r.unit)'
    <2>1. PICK x \in Units : x = r.unit
      BY <1>2
    <2>2. ~Asked(x) /\ home[x] # NoJob
      BY <2>1, UnitAssumption DEF RecordFits
    <2>3. ~Asked(x)'
      BY <2>2, MovesKept
    <2> QED
      BY <2>1, <2>3 DEF Asked
  <1>4. \A b \in Units : r.bound[b] # NoUnit => home'[b] = k /\ Ran(b)' /\ Seen(b)'
    BY MovesKept, UnitAssumption DEF RecordFits
  <1>5. ASSUME r.writer, NEW b \in Units
        PROVE  r.bound[b] \in {NoUnit, b} \/ Dead(r.bound[b])'
    <2>1. PICK x \in Units \cup {NoUnit} : x = r.bound[b]
      BY DEF Job
    <2>2. x \in {NoUnit, b} \/ Dead(x)
      BY <1>5, <2>1 DEF RecordFits
    <2>3. x \in {NoUnit, b} \/ Dead(x)'
      BY <2>1, <2>2, MovesKept
    <2> QED
      BY <2>1, <2>3 DEF Dead, Pending, Unsettled, Live, Seen
  <1>6. ASSUME r.writer, NEW x \in Units, NEW b \in Units, Live(x)', r.bound[x] \notin {NoUnit, x},
               home'[b] = k, turn'[b] = "ended"
        PROVE  r.bound[b] # NoUnit
    <2>1. Ran(x)
      BY <1>6 DEF RecordFits
    <2>2. x # w /\ b # w
      BY <1>6, <2>1 DEF Moves, Ran
    <2>3. Live(x) /\ home[b] = k /\ turn[b] = "ended"
      BY <1>6, <2>2 DEF Moves, Live
    <2> QED
      BY <1>6, <2>3 DEF RecordFits
  <1> QED
    <2>1. Here(r)
      BY DEF RecordFits
    <2> QED
      BY <1>1, <1>2, <1>3, <1>4, <1>5, <1>6, <2>1
      DEF RecordFits, Here, Asked, Ran, Seen, Dead, Pending, Unsettled, Live

\* Such a move keeps the invariant.
LEMMA MovesKeeps ==
  ASSUME ExecutorInv, Quiet, TypeOK', NEW c \in Callers, NEW j \in Jobs, NEW w \in Units,
         Moves(c, j, w), Wrote(c, j, w), Took(c, j, w)
  PROVE  ExecutorInv'
  <1>0. /\ TypeOK /\ OwnerTyped(owner) /\ UnitFits(w)
    BY DEF ExecutorInv, TypeOK, OwnerTyped, OwnerRecord
  <1>p. ASSUME NEW d \in Callers, d # c, call'[d].pc \in {"thread", "settings"}
        PROVE  /\ Stays(d) /\ call'[d].unit # w /\ call[d].pc \in {"thread", "settings"}
               /\ call[d].unit \in Units /\ home[call[d].unit] = call[d].job
               /\ call[d].job \in Jobs
    <2>1. Stays(d) /\ call[d].pc \in {"thread", "settings"}
      BY <1>p DEF Moves, Forgets, Stays
    <2>2. /\ call[d].unit \in Units /\ home[call[d].unit] = call[d].job
          /\ call[d].job \in Jobs
      BY <1>0, <2>1 DEF ExecutorInv, CallFits, TypeOK, Call
    <2>3. call[d].unit # w
      <3>1. CASE home[w] = NoJob
        BY <2>2, <3>1, UnitAssumption
      <3>2. CASE home[w] # NoJob
        BY <1>p, <2>1, <3>2 DEF Moves, ExecutorInv, Apart
      <3> QED
        BY <3>1, <3>2
    <2> QED
      BY <2>1, <2>2, <2>3 DEF Stays
  <1>d. ASSUME NEW u \in Units, Dead(cache[u]), cache[u] # NoUnit PROVE Dead(cache[u])'
    <2>1. PICK x \in Units : x = cache[u]
      BY <1>0, <1>d DEF TypeOK
    <2>2. Dead(x)' /\ cache' = cache
      BY <1>d, <2>1, MovesKept DEF Moves
    <2> QED
      BY <2>1, <2>2 DEF Dead, Pending, Unsettled, Live, Seen
  <1>1. OwnerFits'
    <2>1. owner'.st # "reconciled" /\ (local' => owner'.who = "chatgpt")
      BY <1>0, OwnerMoves DEF Took, Moves, ExecutorInv, OwnerFits
    <2>2. ASSUME owner'.unit # NoUnit
          PROVE  home'[owner'.unit] # NoJob /\ ~Pending(owner.unit)'
      <3>1. CASE owner' = owner
        <4>1. PICK x \in Units : x = owner.unit
          BY <1>0, <2>2, <3>1 DEF TypeOK
        <4>2. home[x] # NoJob /\ ~Pending(x)
          BY <2>2, <3>1, <4>1 DEF ExecutorInv, OwnerFits
        <4>3. home'[x] # NoJob /\ ~Pending(x)'
          BY <4>2, MovesKept
        <4> QED
          BY <3>1, <4>1, <4>3 DEF Pending
      <3>2. CASE owner' = Acquired("codex", w) /\ call'[c].pc \notin {"thread", "settings"}
        <4>1. owner'.unit = w
          BY <1>0, <3>2, OwnerMoves
        <4>2. ~Pending(w)'
          BY <1>p, <3>2 DEF Pending
        <4> QED
          BY <4>1, <4>2, UnitAssumption DEF Pending, Moves
      <3> QED
        BY <3>1, <3>2 DEF Took
    <2> QED
      BY <2>1, <2>2 DEF OwnerFits, Pending
  <1>2. ASSUME NEW u \in Units PROVE UnitFits(u)'
    <2>1. turn'[u] # "none" \/ cache'[u] # NoUnit => home'[u] # NoJob
      BY UnitAssumption DEF Moves, ExecutorInv, UnitFits
    <2> SUFFICES ASSUME home'[u] # NoJob, job'[home'[u]].writer
                 PROVE  /\ Unsettled(u)' => owner'.unit = u /\ job'[home'[u]].unit = u
                        /\ cache'[u] \in {NoUnit, u} \/ Dead(cache[u])'
      BY <2>1 DEF UnitFits
    <2>2. CASE u = w
      <3>1. cache'[w] \in {NoUnit, w} \/ Dead(cache[w])'
        <4>1. cache' = cache /\ (home[w] = NoJob => cache[w] = NoUnit)
          BY <1>0 DEF Moves, UnitFits
        <4>2. CASE home[w] # NoJob
          <5>1. home[w] = j /\ Here(job[j])
            BY <4>2 DEF Moves, ExecutorInv, JobFits
          <5>2. job[j].writer
            BY <2>2, <5>1 DEF Wrote, Moves
          <5> QED
            BY <1>0, <4>1, <5>1, <5>2, <1>d, UnitAssumption DEF UnitFits
        <4> QED
          BY <4>1, <4>2
      <3>2. Unsettled(w)' => owner'.unit = w /\ job'[j].unit = w
        <4>1. turn'[w] = "none" => ~Unsettled(w)'
          BY DEF Unsettled, Live
        <4> QED
          BY <1>0, <2>2, <4>1, OwnerMoves DEF Took, Moves
      <3> QED
        BY <2>2, <3>1, <3>2 DEF Moves
    <2>3. CASE u # w
      <3>1. home'[u] = home[u] /\ home[u] # NoJob /\ home[u] \in Jobs
        BY <1>0, <2>3 DEF Moves, TypeOK
      <3>2. Here(job[home[u]]) /\ job[home[u]].writer
        BY <3>1 DEF Wrote, ExecutorInv, JobFits
      <3>3. UnitFits(u) /\ cache' = cache
        BY DEF ExecutorInv, Moves
      <3>4. cache'[u] \in {NoUnit, u} \/ Dead(cache[u])'
        BY <1>d, <3>1, <3>2, <3>3 DEF UnitFits
      <3>5. ASSUME Unsettled(u)' PROVE owner'.unit = u /\ job'[home'[u]].unit = u
        <4>1. owner.unit = u /\ job[home[u]].unit = u
          BY <2>3, <3>1, <3>2, <3>3, <3>5, MovesKept DEF UnitFits
        <4>2. /\ owner' = owner
              /\ Here(job[j]) /\ job[j].writer => job'[j].unit = job[j].unit
          BY <4>1, UnitAssumption DEF Took
        <4> QED
          BY <3>1, <3>2, <4>1, <4>2 DEF Wrote
      <3> QED
        BY <3>4, <3>5
    <2> QED
      BY <2>2, <2>3
  <1>3. ASSUME NEW k \in Jobs PROVE JobFits(k)'
    <2>1. CASE Here(job[k])
      <3>1. PICK r \in Job : r = job[k]
        BY <1>0 DEF TypeOK
      <3>2. RecordFits(r, k)'
        BY <2>1, <3>1, RecordMoves DEF ExecutorInv, JobFits
      <3>3. Here(job'[k]) /\ job'[k].writer = r.writer /\ job'[k].bound = r.bound
            /\ (job'[k].unit = r.unit \/ (k = j /\ job'[k].unit = w))
        BY <2>1, <3>1 DEF Wrote
      <3>4. job'[k].unit # NoUnit /\ home'[job'[k].unit] = k /\ ~Asked(job[k].unit)'
        <4>1. CASE job'[k].unit = r.unit
          BY <3>2, <4>1 DEF RecordFits, Asked
        <4>2. CASE k = j /\ job'[k].unit = w
          <5>1. ~Asked(w)'
            BY <1>p, <4>2 DEF Asked, Wrote
          <5> QED
            BY <4>2, <5>1, UnitAssumption DEF Asked, Moves
        <4> QED
          BY <3>3, <4>1, <4>2
      <3>5. RecordFits(job[k], k)'
        BY <3>2, <3>3, <3>4 DEF RecordFits, Dead, Seen, Ran, Live, Unsettled, Pending, Asked
      <3> QED
        BY <3>3, <3>5 DEF JobFits, Here
    <2>2. CASE ~Here(job[k]) /\ k # j
      <3>1. job[k] = Absent /\ \A u \in Units : home[u] # k
        BY <2>2 DEF ExecutorInv, JobFits
      <3> QED
        BY <2>2, <3>1 DEF JobFits, Moves, Wrote, Here
    <2>3. CASE ~Here(job[k]) /\ k = j
      <3>1. /\ Here(job'[j]) /\ job'[j].bound = Unbound /\ job'[j].unit = w
            /\ ~(call'[c].pc = "settings" /\ call'[c].op = "continue")
        BY <2>3 DEF Wrote
      <3>2. ~Asked(w)'
        BY <1>p, <3>1 DEF Asked
      <3>3. \A b \in Units : job'[j].bound[b] = NoUnit
        BY <3>1 DEF Unbound
      <3>4. home'[w] = j /\ w # NoUnit
        BY UnitAssumption DEF Moves
      <3> QED
        BY <2>3, <3>1, <3>2, <3>3, <3>4 DEF JobFits, RecordFits, Here, Asked
    <2> QED
      BY <2>1, <2>2, <2>3
  <1>4. ASSUME NEW d \in Callers PROVE SnapshotFits(d)'
    <2> SUFFICES ASSUME NEW k \in Jobs, call'[d].snap[k] # Absent
                 PROVE  RecordFits(call[d].snap[k], k)'
      BY DEF SnapshotFits
    <2>1. call'[d].snap = call[d].snap
      <3>1. Idle.snap[k] = Absent
        BY IdleCall
      <3> QED
        BY <3>1 DEF Moves, Stays, Forgets
    <2>2. PICK r \in Job : r = call[d].snap[k]
      BY <1>0 DEF TypeOK, Call
    <2>3. RecordFits(r, k)'
      BY <2>1, <2>2, RecordMoves DEF ExecutorInv, SnapshotFits
    <2>4. call'[d].snap[k] = r
      BY <2>1, <2>2
    <2> QED
      BY <2>3, <2>4 DEF RecordFits, Dead, Seen, Ran, Live, Unsettled, Pending, Asked
  <1>5. ASSUME NEW d \in Callers PROVE CallFits(d)'
    <2>1. CASE d = c
      BY <2>1 DEF Moves
    <2>2. CASE d # c
      <3>1. CallFits(d) /\ (Stays(d) \/ Forgets(d))
        BY <2>2 DEF ExecutorInv, Moves
      <3>2. /\ call'[d].op = call[d].op /\ call'[d].job = call[d].job
            /\ call'[d].unit = call[d].unit /\ call'[d].snap = call[d].snap
            /\ call'[d].pc = call[d].pc \/ (call'[d].pc = "forgotten" /\ call[d].pc = "settings")
        BY <3>1 DEF Stays, Forgets
      <3>3. call[d].pc # "apply" /\ call[d].job \in Jobs \cup {NoJob}
            /\ call[d].unit \in Units \cup {NoUnit}
        BY <1>0 DEF Quiet, At, TypeOK, Call
      <3>4. call'[d].pc \in {"thread", "settings", "forgotten", "turn"} =>
              call'[d].unit # NoUnit /\ call'[d].job # NoJob
              /\ home'[call'[d].unit] = call'[d].job
        BY <3>1, <3>2, <3>3, MovesKept DEF CallFits
      <3>5. call'[d].pc \in {"thread", "settings"} =>
              /\ turn'[call'[d].unit] = "none"
              /\ call'[d].op = "start" => Preparing(d)'
              /\ call'[d].op # "start" => call'[d].op = "continue" /\ call'[d].pc = "settings"
        <4> SUFFICES ASSUME call'[d].pc \in {"thread", "settings"}
                     PROVE  /\ turn'[call'[d].unit] = "none"
                            /\ call'[d].op = "start" => Preparing(d)'
                            /\ call'[d].op # "start" =>
                                 call'[d].op = "continue" /\ call'[d].pc = "settings"
          OBVIOUS
        <4>1. /\ call[d].unit # w /\ call[d].unit \in Units /\ call[d].job \in Jobs
              /\ call'[d].pc = call[d].pc
          BY <1>p, <2>2, <3>2
        <4>2. turn'[call'[d].unit] = "none"
          BY <3>1, <3>2, <4>1 DEF CallFits, Moves
        <4>3. ASSUME call[d].op = "start" PROVE Preparing(d)'
          <5>1. Preparing(d) /\ call[d].job # j
            BY <2>2, <3>1, <3>2, <4>1, <4>3 DEF CallFits, Moves
          <5>2. job'[call[d].job] = job[call[d].job]
            BY <4>1, <5>1 DEF Wrote
          <5>3. \A u \in Units : home'[u] = call[d].job => turn'[u] = "none"
            BY <5>1 DEF Preparing, Moves
          <5> QED
            BY <3>2, <4>1, <5>1, <5>2, <5>3 DEF Preparing
        <4> QED
          BY <3>1, <3>2, <4>1, <4>2, <4>3 DEF CallFits
      <3>6. call'[d].pc \in {"get", "observe", "apply", "bounded"} =>
              call'[d].job # NoJob /\ call'[d].snap[call'[d].job] # Absent
        BY <3>1, <3>2 DEF CallFits
      <3>7. call'[d].pc = "interrupt" => call'[d].job # NoJob /\ Here(job'[call'[d].job])
        <4>1. \A k \in Jobs : Here(job[k]) => Here(job'[k])
          BY DEF Wrote
        <4> QED
          BY <3>1, <3>2, <3>3, <4>1 DEF CallFits
      <3>8. call'[d].pc # "apply"
            /\ (call'[d].pc = "observe" => call'[d].op \in {"reconcile", "preflight"})
        BY <3>1, <3>2, <3>3 DEF CallFits
      <3> QED
        BY <3>4, <3>5, <3>6, <3>7, <3>8 DEF CallFits, Here, Preparing
    <2> QED
      BY <2>1, <2>2
  <1>6. ASSUME NEW d \in Callers, NEW e \in Callers, d # e PROVE Apart(d, e)'
    <2> SUFFICES ASSUME call'[d].pc \in {"thread", "settings"}, call'[e].pc \in {"thread", "settings"}
                 PROVE  /\ call'[d].unit # call'[e].unit
                        /\ call'[d].op = "start" => call'[d].job # call'[e].job
      BY DEF Apart
    <2>1. CASE d # c /\ e # c
      <3>1. Stays(d) /\ Stays(e) /\ Apart(d, e)
        BY <1>p, <1>6, <2>1 DEF ExecutorInv
      <3> QED
        BY <3>1 DEF Apart, Stays
    <2>2. CASE d = c
      <3>1. call'[c].unit = w /\ call'[c].job = j
        BY <2>2 DEF Moves
      <3>2. Stays(e) /\ call'[e].unit # w /\ call[e].pc \in {"thread", "settings"}
        BY <1>p, <1>6, <2>2
      <3> QED
        BY <1>6, <2>2, <3>1, <3>2 DEF Moves, Stays
    <2>3. CASE e = c
      <3>1. call'[c].unit = w /\ call'[c].job = j
        BY <2>3 DEF Moves
      <3>2. Stays(d) /\ call'[d].unit # w /\ call[d].pc \in {"thread", "settings"}
        BY <1>p, <1>6, <2>3
      <3> QED
        BY <1>6, <2>3, <3>1, <3>2 DEF Moves, Stays
    <2> QED
      BY <2>1, <2>2, <2>3
  <1> QED
    BY <1>1, <1>2, <1>3, <1>4, <1>5, <1>6 DEF ExecutorInv

\* The record of job j after thread/start.
WithThread(f, j) == [f EXCEPT ![j].thread = TRUE, ![j].state = "thread_ready",
                              ![j].phase = "thread_created"]
\* What thread/start makes of a record.
LEMMA ThreadRecord ==
  ASSUME NEW f \in [Jobs -> Job], NEW j \in Jobs, NEW g, g = WithThread(f, j)
  PROVE  /\ g \in [Jobs -> Job] /\ \A k \in Jobs : k # j => g[k] = f[k]
         /\ g[j].state = "thread_ready" /\ g[j].unit = f[j].unit /\ g[j].writer = f[j].writer
         /\ g[j].bound = f[j].bound /\ g[j].verified = f[j].verified
  <1>1. \A k \in Jobs : k # j => g[k] = f[k]
    BY DEF WithThread
  <1>2. g[j] \in Job
    BY DEF WithThread, Job, JobStates, RiskStates, RecoveryStates, Phases
  <1>3. g \in [Jobs -> Job]
    BY <1>1, <1>2 DEF WithThread
  <1>4. g[j].state = "thread_ready" /\ g[j].unit = f[j].unit /\ g[j].writer = f[j].writer
    BY DEF WithThread, Job
  <1>5. g[j].bound = f[j].bound /\ g[j].verified = f[j].verified
    BY DEF WithThread, Job
  <1> QED
    BY <1>1, <1>3, <1>4, <1>5

\* thread/start is answered.
LEMMA ThreadStartedKeeps ==
  ASSUME ExecutorInv, Quiet, NEW c \in Callers, ThreadStarted(c) PROVE ExecutorInv'
  <1>0. TypeOK /\ call[c].pc = "thread" /\ call[c] \in Call /\ CallFits(c)
    BY DEF ExecutorInv, ThreadStarted, At, TypeOK
  <1>1. PICK j \in Jobs, w \in Units : j = call[c].job /\ w = call[c].unit
    BY <1>0 DEF CallFits, Call
  <1>2. /\ Here(job[j]) /\ home[w] = j /\ turn[w] = "none" /\ call[c].op = "start"
        /\ Preparing(c)
    BY <1>0, <1>1, JobOfCall DEF CallFits
  <1>3. /\ job' \in [Jobs -> Job] /\ \A k \in Jobs : k # j => job'[k] = job[k]
        /\ job'[j].state = "thread_ready" /\ job'[j].unit = job[j].unit
        /\ job'[j].writer = job[j].writer
        /\ job'[j].bound = job[j].bound /\ job'[j].verified = job[j].verified
    <2>1. job' = WithThread(job, j) /\ job \in [Jobs -> Job]
      BY <1>0, <1>1 DEF ThreadStarted, TypeOK, WithThread
    <2> QED
      BY <2>1, ThreadRecord
  <1>4. PICK r \in Call : r = [call[c] EXCEPT !.pc = "settings"]
    BY <1>0 DEF Call, Places
  <1>5. /\ r.pc = "settings" /\ r.op = "start" /\ r.job = j /\ r.unit = w
        /\ r.snap = call[c].snap
    BY <1>0, <1>1, <1>2, <1>4 DEF Call
  <1>6. /\ call' \in [Callers -> Call] /\ call'[c] = r
        /\ \A d \in Callers : d # c => Stays(d)
    BY <1>0, <1>4, CallWritten DEF ThreadStarted
  <1>7. UNCHANGED <<up, turn, noted, home, owner, cache, watched, replayed, local, exits, crashes>>
    BY DEF ThreadStarted, server, observation, bounds
  <1>8. TypeOK'
    BY <1>0, <1>3, <1>6, <1>7 DEF TypeOK
  <1>9. CallFits(c)'
    <2>1. Preparing(c)'
      BY <1>1, <1>2, <1>3, <1>5, <1>6, <1>7 DEF Preparing
    <2> QED
      BY <1>1, <1>2, <1>5, <1>6, <1>7, <2>1, UnitAssumption DEF CallFits
  <1>10. Moves(c, j, w)
    <2>1. \A d \in Callers : d # c /\ call'[d].pc \in {"thread", "settings"} =>
                              call'[d].job # j
      BY <1>0, <1>1, <1>2, <1>6 DEF ExecutorInv, Apart, Stays
    <2> QED
      BY <1>0, <1>1, <1>2, <1>5, <1>6, <1>7, <1>9, <2>1 DEF Moves
  <1>11. Wrote(c, j, w)
    BY <1>2, <1>3, <1>5, <1>6 DEF Wrote, Here
  <1>12. Took(c, j, w)
    BY <1>2, <1>3, <1>7 DEF Took
  <1> QED
    BY <1>1, <1>8, <1>10, <1>11, <1>12, MovesKeeps

\* A workspace that a new unit may take belongs to no unit.
LEMMA FreeToTake ==
  ASSUME ExecutorInv, NEW w \in Units, Pending(w) \/ home[w] = NoJob, CanAcquire(owner, "codex", w)
  PROVE  owner.unit = NoUnit /\ ~local
  BY DEF CanAcquire, ExecutorInv, OwnerFits, TypeOK

\* A dispatch keeps the invariant.
LEMMA DispatchKeeps ==
  ASSUME ExecutorInv, Quiet, NEW c \in Callers, NEW j \in Jobs, NEW w \in Units, NEW rec \in Job,
         Dispatch(c, j, w, rec), MayWrite(rec, w), Here(job[j]),
         rec.bound = job[j].bound, rec.writer = job[j].writer, turn[w] = "none",
         \/ home[w] = NoJob /\ home' = [home EXCEPT ![w] = j]
         \/ /\ home[w] = j /\ call[c].pc \in {"thread", "settings"} /\ call[c].unit = w
            /\ home' = home,
         \A d \in Callers : d # c /\ call[d].pc \in {"thread", "settings"} /\ call[d].op = "start"
                            => call[d].job # j,
         UNCHANGED <<up, noted, cache, watched, replayed, local, exits, crashes>>
  PROVE  ExecutorInv'
  <1>0. TypeOK /\ call[c] \in Call /\ up \in BOOLEAN /\ OwnerTyped(owner)
    BY DEF ExecutorInv, TypeOK, OwnerTyped, OwnerRecord
  <1>1. PICK q \in Job : /\ job' = [job EXCEPT ![j] = q] /\ q.unit = w /\ q.state = "starting"
                         /\ q.bound = job[j].bound /\ q.writer = job[j].writer
    <2>1. PICK ph \in Phases :
             ph = IF rec.writer THEN "writer_reserved" ELSE "permission_verified"
      BY DEF Phases
    <2>2. PICK q : q = [rec EXCEPT !.unit = w, !.state = "starting", !.phase = ph]
      OBVIOUS
    <2>3. job' = [job EXCEPT ![j] = q]
      BY <2>1, <2>2 DEF Dispatch
    <2>4. /\ q \in Job /\ q.unit = w /\ q.state = "starting" /\ q.bound = rec.bound
          /\ q.writer = rec.writer
      BY <2>2 DEF Job, JobStates, RiskStates, RecoveryStates
    <2> QED
      BY <2>3, <2>4
  <1>2. /\ job' \in [Jobs -> Job] /\ job'[j] = q /\ \A k \in Jobs : k # j => job'[k] = job[k]
    BY <1>0, <1>1 DEF TypeOK
  <1>3. PICK r \in Call : r = [call[c] EXCEPT !.pc = "turn", !.job = j, !.unit = w, !.lost = ~up]
    <2>1. PICK v \in BOOLEAN : v = ~up
      OBVIOUS
    <2> QED
      BY <1>0, <2>1 DEF Call, Places
  <1>4. r.pc = "turn" /\ r.op = call[c].op /\ r.job = j /\ r.unit = w /\ r.snap = call[c].snap
    <2>1. PICK v \in BOOLEAN : v = ~up
      OBVIOUS
    <2> QED
      BY <1>0, <1>3, <2>1 DEF Call
  <1>5. /\ call' \in [Callers -> Call] /\ call'[c] = r
        /\ \A d \in Callers : d # c => Stays(d)
    BY <1>0, <1>3, CallWritten DEF Dispatch
  <1>6. /\ turn' \in [Units -> TurnStates] /\ turn'[w] \in {"none", "sent"}
        /\ \A u \in Units : u # w => turn'[u] = turn[u]
    BY <1>0 DEF Dispatch, TypeOK, TurnStates
  <1>7. /\ home' \in [Units -> Jobs \cup {NoJob}] /\ home'[w] = j
        /\ \A u \in Units : u # w => home'[u] = home[u]
    BY <1>0 DEF TypeOK
  <1>8. OwnerTyped(owner')
    BY <1>0, OwnerMoves DEF Dispatch
  <1>9. TypeOK'
    BY <1>0, <1>2, <1>5, <1>6, <1>7, <1>8 DEF TypeOK, OwnerTyped, OwnerRecord
  <1>10. CallFits(c)'
    BY <1>4, <1>5, <1>7, UnitAssumption DEF CallFits
  <1>11. Moves(c, j, w)
    BY <1>4, <1>5, <1>6, <1>7, <1>10 DEF Moves, Stays
  <1>12. Wrote(c, j, w)
    BY <1>1, <1>2, <1>4, <1>5 DEF Wrote, Here
  <1>13. Took(c, j, w)
    <2>1. CASE rec.writer
      <3>1. Pending(w) \/ home[w] = NoJob
        BY DEF Pending
      <3> QED
        BY <1>1, <1>2, <1>4, <1>5, <2>1, <3>1, FreeToTake DEF Took, Dispatch, MayWrite
    <2>2. CASE ~rec.writer
      BY <1>1, <1>2, <2>2 DEF Took, Dispatch
    <2> QED
      BY <2>1, <2>2
  <1> QED
    BY <1>9, <1>11, <1>12, <1>13, MovesKeeps

\* The effective permissions are verified: the turn is dispatched, or the job refused.
LEMMA SettingsVerifiedKeeps ==
  ASSUME ExecutorInv, Quiet, NEW c \in Callers, SettingsVerified(c) PROVE ExecutorInv'
  <1>0. TypeOK /\ call[c].pc = "settings" /\ call[c] \in Call /\ CallFits(c)
    BY DEF ExecutorInv, SettingsVerified, At, TypeOK
  <1>1. PICK j \in Jobs, w \in Units : j = call[c].job /\ w = call[c].unit
    BY <1>0 DEF CallFits, Call
  <1>2. Here(job[j]) /\ job[j] \in Job /\ home[w] = j /\ turn[w] = "none"
    BY <1>0, <1>1, JobOfCall DEF CallFits, TypeOK
  <1> DEFINE Rec == [job[j] EXCEPT !.verified = TRUE,
                        !.phase = IF call[c].op = "start" THEN "permission_verified" ELSE @]
  <1>3. PICK rec \in Job : /\ rec = Rec /\ rec.unit = job[j].unit /\ rec.bound = job[j].bound
                           /\ rec.writer = job[j].writer /\ rec.state = job[j].state
    <2>1. PICK ph \in Phases :
             ph = IF call[c].op = "start" THEN "permission_verified" ELSE job[j].phase
      BY <1>2 DEF Job, Phases
    <2>2. PICK q : q = [job[j] EXCEPT !.verified = TRUE, !.phase = ph]
      OBVIOUS
    <2>3. q = Rec
      BY <2>1, <2>2
    <2>4. /\ q \in Job /\ q.unit = job[j].unit /\ q.state = job[j].state
          /\ q.bound = job[j].bound /\ q.writer = job[j].writer
      BY <1>2, <2>2 DEF Job
    <2> QED
      BY <2>3, <2>4
  <1> HIDE DEF Rec
  <1>4. UNCHANGED <<up, noted, home, cache, watched, replayed, local, exits, crashes>>
    BY DEF SettingsVerified, observation, bounds
  <1>5. \A d \in Callers : d # c /\ call[d].pc \in {"thread", "settings"} /\ call[d].op = "start"
                            => call[d].job # j
    BY <1>0, <1>1 DEF ExecutorInv, Apart
  <1>6. CASE MayWrite(rec, w) /\ Dispatch(c, j, w, rec)
    BY <1>0, <1>1, <1>2, <1>3, <1>4, <1>5, <1>6, DispatchKeeps
  <1>7. CASE /\ job' = [job EXCEPT ![j] = IF call[c].op = "start"
                                          THEN [rec EXCEPT !.state = "recovery_required"]
                                          ELSE rec]
             /\ Return(c) /\ UNCHANGED <<turn, owner>>
    <2>1. PICK q \in Job : /\ job' = [job EXCEPT ![j] = q] /\ q.unit = job[j].unit
                           /\ q.bound = job[j].bound /\ q.writer = job[j].writer /\ Here(q)
      <3>1. "recovery_required" \in JobStates
        BY DEF JobStates, RiskStates
      <3>2. CASE call[c].op = "start"
        <4>1. PICK q : q = [rec EXCEPT !.state = "recovery_required"]
          OBVIOUS
        <4>2. /\ q \in Job /\ q.state = "recovery_required" /\ q.unit = rec.unit
              /\ q.bound = rec.bound /\ q.writer = rec.writer
          BY <3>1, <4>1, RecordEdits
        <4>3. job' = [job EXCEPT ![j] = q]
          BY <1>7, <3>2, <4>1
        <4> QED
          BY <1>3, <4>2, <4>3 DEF Here
      <3>3. CASE call[c].op # "start"
        BY <1>2, <1>3, <1>7, <3>3 DEF Here
      <3> QED
        BY <3>2, <3>3
    <2>2. job' \in [Jobs -> Job] /\ job'[j] = q /\ \A k \in Jobs : k # j => job'[k] = job[k]
      BY <1>0, <2>1 DEF TypeOK
    <2>3. /\ call' \in [Callers -> Call] /\ call'[c] = Idle
          /\ \A d \in Callers : d # c => Stays(d)
      BY <1>0, <1>7, IdleCall, CallReturns DEF Return, Stays, TypeOK
    <2>4. TypeOK'
      BY <1>0, <1>4, <1>7, <2>2, <2>3 DEF TypeOK
    <2>5. CallFits(c)'
      BY <2>3, IdleCall DEF CallFits
    <2>6. Moves(c, j, w)
      BY <1>0, <1>1, <1>2, <1>4, <1>5, <1>7, <2>3, <2>5, IdleCall DEF Moves, Stays, Idle
    <2>7. Wrote(c, j, w)
      BY <1>2, <2>1, <2>2, <2>3, IdleCall DEF Wrote
    <2>8. Took(c, j, w)
      BY <1>2, <1>7, <2>1, <2>2 DEF Took
    <2> QED
      BY <2>4, <2>6, <2>7, <2>8, MovesKeeps
  <1> QED
    BY <1>1, <1>3, <1>6, <1>7 DEF SettingsVerified, Rec

\* A unit that nobody minted has no turn, and no call is about it.
LEMMA Unminted ==
  ASSUME ExecutorInv, NEW w \in Units, home[w] = NoJob
  PROVE  turn[w] = "none" /\ cache[w] = NoUnit /\ ~Pending(w) /\ w # NoUnit
  BY UnitAssumption DEF ExecutorInv, UnitFits, Pending, CallFits

\* continue: the turn is dispatched at once, or the settings are asked for again.
LEMMA ContinueKeeps ==
  ASSUME ExecutorInv, Quiet, NEW c \in Callers, NEW j \in Jobs, NEW w \in Units,
         Continue(c, j, w)
  PROVE  ExecutorInv'
  <1>0. TypeOK /\ call[c].pc = "idle" /\ home[w] = NoJob /\ turn[w] = "none" /\ job[j] \in Job
    BY Unminted DEF ExecutorInv, Continue, At, TypeOK
  <1>1. Here(job[j]) /\ job[j].thread
    BY IdleCall DEF Continue, ExecutorInv, JobFits
  <1>2. UNCHANGED <<up, noted, cache, watched, replayed, local, exits, crashes>>
        /\ home' = [home EXCEPT ![w] = j]
    BY DEF Continue, observation, bounds
  <1>3. ASSUME NEW d \in Callers, call[d].pc \in {"thread", "settings"}, call[d].op = "start",
               call[d].job = j
        PROVE  ~job[j].verified /\ call[d].pc = "settings"
    BY <1>1, <1>3 DEF ExecutorInv, CallFits, Preparing
  <1>4. CASE job[j].verified /\ MayWrite(job[j], w) /\ Dispatch(c, j, w, job[j])
    <2>1. \A d \in Callers : d # c /\ call[d].pc \in {"thread", "settings"} /\ call[d].op = "start"
                              => call[d].job # j
      BY <1>3, <1>4
    <2> QED
      BY ZenonT(60), <1>0, <1>1, <1>2, <1>4, <2>1, DispatchKeeps
  <1>5. CASE /\ ~job[j].verified
             /\ AwaitSettings(c, j, [Idle EXCEPT !.pc = "settings", !.op = "continue",
                                                 !.job = j, !.unit = w, !.lost = ~up])
             /\ UNCHANGED <<turn, job, owner>>
    <2>1. PICK r \in Call : /\ AwaitSettings(c, j, r)
                            /\ r.pc = "settings" /\ r.op = "continue" /\ r.job = j
                            /\ r.unit = w /\ r.snap = Idle.snap
      <3>1. PICK v \in BOOLEAN : v = ~up
        OBVIOUS
      <3>2. PICK r : r = [Idle EXCEPT !.pc = "settings", !.op = "continue", !.job = j,
                                      !.unit = w, !.lost = v]
        OBVIOUS
      <3>3. AwaitSettings(c, j, r)
        BY <1>5, <3>1, <3>2
      <3>4. /\ r \in Call /\ r.pc = "settings" /\ r.op = "continue" /\ r.job = j
            /\ r.unit = w /\ r.snap = Idle.snap
        BY <3>2, IdleCall DEF Call, Places
      <3> QED
        BY <3>3, <3>4
    <2>2. call'[c] = r
      BY <2>1 DEF AwaitSettings
    <2>3. ASSUME NEW d \in Callers, d # c
          PROVE  /\ call'[d] \in Call
                 /\ \/ Stays(d) /\ ~(call[d].pc = "settings" /\ call[d].job = j)
                    \/ Forgets(d)
      <3>1. call'[d] = IF At(d, "settings") /\ call[d].job = j
                       THEN [call[d] EXCEPT !.pc = "forgotten"] ELSE call[d]
        BY <2>1, <2>3 DEF AwaitSettings
      <3>2. call[d] \in Call
        BY <1>0 DEF TypeOK
      <3> QED
        BY <3>1, <3>2 DEF Call, Places, Stays, Forgets, At
    <2>4. call' \in [Callers -> Call]
      BY <2>1, <2>2, <2>3 DEF AwaitSettings
    <2>5. home' \in [Units -> Jobs \cup {NoJob}] /\ home'[w] = j
          /\ \A u \in Units : u # w => home'[u] = home[u]
      BY <1>0, <1>2 DEF TypeOK
    <2>6. TypeOK'
      BY <1>0, <1>2, <1>5, <2>4, <2>5 DEF TypeOK
    <2>7. CallFits(c)'
      BY <1>0, <1>5, <2>1, <2>2, <2>5, UnitAssumption DEF CallFits
    <2>8. \A d \in Callers :
             /\ d # c /\ call'[d].pc \in {"thread", "settings"}
             /\ call'[d].op = "start" \/ call'[c].op = "start"
             => call'[d].job # j
      BY <1>3, <2>1, <2>2, <2>3 DEF Stays, Forgets
    <2>9. Moves(c, j, w)
      BY <1>0, <1>2, <1>5, <2>1, <2>2, <2>3, <2>5, <2>7, <2>8 DEF Moves
    <2>10. Wrote(c, j, w)
      <3>1. job[j].unit # w
        BY <1>0, <1>1, UnitAssumption DEF ExecutorInv, JobFits, RecordFits
      <3> QED
        BY <1>1, <1>5, <3>1 DEF Wrote
    <2>11. Took(c, j, w)
      BY <1>0, <1>5 DEF Took
    <2> QED
      BY <2>6, <2>9, <2>10, <2>11, MovesKeeps
  <1> QED
    BY <1>4, <1>5 DEF Continue

\* start: the job and its first unit are recorded.
LEMMA StartKeeps ==
  ASSUME ExecutorInv, Quiet, NEW c \in Callers, NEW j \in Jobs, NEW w \in Units,
         NEW writer \in BOOLEAN, Start(c, j, w, writer)
  PROVE  ExecutorInv'
  <1>0. TypeOK /\ home[w] = NoJob /\ turn[w] = "none" /\ w # NoUnit
    BY Unminted DEF ExecutorInv, Start
  <1>1. ~Here(job[j]) /\ \A u \in Units : home[u] # j
    BY DEF Start, Here, ExecutorInv, JobFits
  <1>2. PICK q \in Job : /\ job' = [job EXCEPT ![j] = q]
                         /\ q.state = "created" /\ q.unit = w /\ q.bound = Unbound
                         /\ ~q.thread /\ ~q.verified
    <2>1. PICK q : q = [Absent EXCEPT !.state = "created", !.unit = w, !.writer = writer]
      OBVIOUS
    <2>2. /\ q \in Job /\ q.state = "created" /\ q.unit = w /\ q.bound = Unbound
          /\ ~q.thread /\ ~q.verified
      BY <2>1 DEF Absent, Job, JobStates, RiskStates, RecoveryStates, Phases, Unbound
    <2> QED
      BY <2>1, <2>2 DEF Start
  <1>3. job' \in [Jobs -> Job] /\ job'[j] = q /\ \A k \in Jobs : k # j => job'[k] = job[k]
    BY <1>0, <1>2 DEF TypeOK
  <1>4. PICK r \in Call : /\ Begin(c, r) /\ r.pc = "thread" /\ r.op = "start" /\ r.job = j
                          /\ r.unit = w /\ r.snap = Idle.snap
    <2>1. PICK r : r = [Idle EXCEPT !.pc = "thread", !.op = "start", !.job = j, !.unit = w]
      OBVIOUS
    <2>2. /\ r \in Call /\ r.pc = "thread" /\ r.op = "start" /\ r.job = j
          /\ r.unit = w /\ r.snap = Idle.snap
      BY <2>1, IdleCall DEF Call, Places
    <2> QED
      BY <2>1, <2>2 DEF Start
  <1>5. /\ call' \in [Callers -> Call] /\ call'[c] = r
        /\ \A d \in Callers : d # c => Stays(d)
    BY <1>0, <1>4, CallWritten
  <1>6. home' \in [Units -> Jobs \cup {NoJob}] /\ home'[w] = j
        /\ \A u \in Units : u # w => home'[u] = home[u]
    BY <1>0 DEF Start, TypeOK
  <1>7. UNCHANGED <<turn, noted, owner, cache, watched, replayed, local, exits, crashes>>
        /\ up' = TRUE
    BY DEF Start, server, observation, bounds
  <1>8. TypeOK'
    BY <1>0, <1>3, <1>5, <1>6, <1>7 DEF TypeOK
  <1>9. CallFits(c)'
    <2>1. Preparing(c)'
      BY <1>0, <1>1, <1>2, <1>3, <1>4, <1>5, <1>6, <1>7 DEF Preparing
    <2> QED
      BY <1>0, <1>4, <1>5, <1>6, <1>7, <2>1, UnitAssumption DEF CallFits
  <1>10. Moves(c, j, w)
    <2>1. \A d \in Callers : d # c /\ call'[d].pc \in {"thread", "settings"} => call'[d].job # j
      BY <1>0, <1>1, <1>5 DEF Stays, ExecutorInv, CallFits, TypeOK, Call
    <2> QED
      BY <1>0, <1>4, <1>5, <1>6, <1>7, <1>9, <2>1 DEF Moves
  <1>11. Wrote(c, j, w)
    BY <1>1, <1>2, <1>3, <1>4, <1>5 DEF Wrote, Here
  <1>12. Took(c, j, w)
    BY <1>0, <1>1, <1>7 DEF Took
  <1> QED
    BY <1>8, <1>10, <1>11, <1>12, MovesKeeps

----------------------------------------------------------------------------
(* The invariant, and what follows from it *)
\* It holds at first.
LEMMA InvInit == Init => ExecutorInv
  <1> SUFFICES ASSUME Init PROVE ExecutorInv
    OBVIOUS
  <1>1. TypeOK
    <2>1. OwnerTyped(Free)
      BY DEF OwnerTyped, OwnerRecord, Free, Owners, UnitStates
    <2>2. owner = Free /\ call \in [Callers -> Call] /\ exits = 0 /\ crashes = 0
      BY IdleCall DEF Init
    <2>3. job \in [Jobs -> Job]
      BY IdleCall DEF Init
    <2>4. exits \in 0 .. MaxExits /\ crashes \in 0 .. MaxCrashes
      BY <2>2, ExecutorBounds
    <2>5. turn \in [Units -> TurnStates] /\ noted \in [Units -> 0 .. 2]
          /\ home \in [Units -> Jobs \cup {NoJob}] /\ cache \in [Units -> Units \cup {NoUnit}]
      BY DEF Init, TurnStates, Unbound
    <2> QED
      BY <2>1, <2>2, <2>3, <2>4, <2>5 DEF Init, TypeOK, OwnerTyped, OwnerRecord
  <1>2. OwnerFits
    BY DEF Init, OwnerFits, Free
  <1>3. \A u \in Units : UnitFits(u)
    BY DEF Init, UnitFits, Unbound
  <1>4. \A j \in Jobs : JobFits(j)
    BY IdleCall, UnitAssumption DEF Init, JobFits, Here
  <1>5. \A c \in Callers : call[c] = Idle /\ SnapshotFits(c) /\ CallFits(c)
    BY IdleCall DEF Init, SnapshotFits, CallFits
  <1>6. \A c, d \in Callers : Apart(c, d)
    BY <1>5, IdleCall DEF Apart
  <1> QED
    BY <1>1, <1>2, <1>3, <1>4, <1>5, <1>6 DEF ExecutorInv

\* A call begins.
LEMMA InvokeKeeps == ASSUME ExecutorInv, Quiet, NEW c \in Callers, Invoke(c) PROVE ExecutorInv'
  <1>1. CASE \E j \in Jobs : Get(c, j) \/ Reconcile(c, j) \/ Interrupt(c, j)
    BY <1>1, GetKeeps, ReconcileKeeps, InterruptKeeps
  <1>2. CASE \E j \in Jobs, u \in Units : Continue(c, j, u)
    BY <1>2, ContinueKeeps
  <1>3. CASE \E a \in Access, u \in Units : Start(c, a[1], u, a[2])
    <2>1. PICK a \in Access, u \in Units : Start(c, a[1], u, a[2])
      BY <1>3
    <2>2. a[1] \in Jobs /\ a[2] \in BOOLEAN
      BY ExecutorBounds
    <2> QED
      BY <2>1, <2>2, StartKeeps
  <1>4. CASE \E scope \in SUBSET Jobs : Preflight(c, scope)
    BY <1>4, PreflightKeeps
  <1> QED
    BY <1>1, <1>2, <1>3, <1>4 DEF Invoke

\* A call is answered.
LEMMA AnsweredKeeps ==
  ASSUME ExecutorInv, Quiet, NEW c \in Callers, Answered(c) PROVE ExecutorInv'
  BY ThreadStartedKeeps, SettingsVerifiedKeeps, TurnBoundKeeps, GetAnsweredKeeps,
     ObserveAnsweredKeeps, InterruptAnsweredKeeps, BoundedReadKeeps DEF Answered

\* A call fails.
LEMMA FailsKeeps == ASSUME ExecutorInv, NEW c \in Callers, Fails(c) PROVE ExecutorInv'
  BY ThreadFailsKeeps, SettingsFailKeeps, WaitsForeverKeeps, TurnFailsKeeps, GetFailsKeeps,
     ObserveFailsKeeps, InterruptFailsKeeps, BoundedReadFailsKeeps DEF Fails

\* Every step keeps the invariant.
LEMMA InvNext == ExecutorInv /\ [Next]_xvars => ExecutorInv'
  <1> SUFFICES ASSUME ExecutorInv, [Next]_xvars PROVE ExecutorInv'
    OBVIOUS
  <1>1. CASE Quiet /\ (LocalBegins \/ LocalEnds \/ ServerExits)
    BY <1>1, LocalKeeps, ServerExitsKeeps
  <1>2. CASE \E c \in Callers : Quiet /\ (Invoke(c) \/ Answered(c) \/ Fails(c))
    BY <1>2, InvokeKeeps, AnsweredKeeps, FailsKeeps
  <1>3. CASE \E c \in Callers : call[c].lost /\ Fails(c)
    BY <1>3, FailsKeeps
  <1>4. CASE \E c \in Callers : ApplyObservation(c)
    BY <1>4, ApplyObservationKeeps
  <1>5. CASE \E u \in Units : TurnBegins(u) \/ TurnEnds(u) \/ NotifyStarted(u) \/ NotifyCompleted(u)
    BY <1>5, TurnBeginsKeeps, TurnEndsKeeps, NotifyStartedKeeps, NotifyCompletedKeeps
  <1>6. CASE RuntimeDies
    BY <1>6, RuntimeDiesKeeps
  <1>7. CASE UNCHANGED xvars
    <2>1. /\ UNCHANGED <<turn, noted, home, job, owner, cache, local, exits, crashes>>
          /\ up' = up /\ watched' = watched /\ replayed' = replayed /\ call' = call
      BY <1>7 DEF xvars
    <2>2. \A c \in Callers : Stays(c)
      BY <2>1 DEF Stays
    <2> QED
      BY <2>1, <2>2, CallsOnly DEF ExecutorInv, TypeOK
  <1> QED
    BY <1>1, <1>2, <1>3, <1>4, <1>5, <1>6, <1>7 DEF Next

\* The invariant holds in every reachable state.
LEMMA Invariant == Spec => []ExecutorInv
  BY InvInit, InvNext, PTL DEF Spec

\* The executor's state is well typed, and an owner names a unit exactly when it is Codex
\* (job-map.js, mutation-owner.js).
THEOREM ExecutorTyped == Spec => []TypeOK
  <1>1. ExecutorInv => TypeOK
    BY DEF ExecutorInv
  <1> QED
    BY <1>1, Invariant, PTL

\* "Only ONE writer may be active": for any number of jobs, units and concurrent calls, and
\* whatever is lost with the server or the runtime, the turn of a writing job runs, or is on
\* its way to the server, only while its unit owns the workspace, and a ChatGPT-side
\* mutation only while ChatGPT does (app-server-executor.js, mutation-owner.js).
THEOREM WriterOwns == Spec => []WriterOwnsWorkspace
  <1>1. ASSUME ExecutorInv PROVE WriterOwnsWorkspace
    <2>1. ASSUME NEW u \in Units, turn[u] \in {"sent", "running"}, job[home[u]].writer
          PROVE  owner.who = "codex" /\ owner.unit = u
      <3>1. home[u] # NoJob /\ Unsettled(u)
        BY <1>1, <2>1 DEF ExecutorInv, UnitFits, Unsettled, Live
      <3>2. owner.unit = u
        BY <1>1, <2>1, <3>1 DEF ExecutorInv, UnitFits
      <3> QED
        BY <1>1, <3>2, UnitAssumption DEF ExecutorInv, TypeOK
    <2> QED
      BY <1>1, <2>1 DEF WriterOwnsWorkspace, ExecutorInv, OwnerFits
  <1> QED
    BY <1>1, Invariant, PTL

----------------------------------------------------------------------------
(* One caller at a time, and a runtime that stays up *)
\* Of a writer's record: its bindings are true, a cached binding is also stored, and a turn
\* that ran and is bound nowhere is that of the current unit, which has the workspace.  So a
\* turn found unbound, and the only one, is the current unit's.
OwnRecord(j) == Here(job[j]) /\ job[j].writer =>
  /\ \A b \in Units : job[j].bound[b] \in {NoUnit, b}
  /\ \A u \in Units : home[u] = j =>
       /\ cache[u] # NoUnit => cache[u] = u /\ job[j].bound[u] = u
       /\ Ran(u) /\ job[j].bound[u] = NoUnit => owner.unit = u /\ job[j].unit = u
  /\ job[j].state = "ended" => turn[job[j].unit] = "ended"
  /\ job[j].state = "pre_turn" => turn[job[j].unit] = "none"

\* A snapshot lacks at most the binding of the current unit's turn.
OwnSnapshot(c) == \A j \in Jobs : call[c].snap[j] # Absent =>
  /\ call[c].pc \in {"get", "observe", "apply", "bounded"}
  /\ call[c].snap[j].writer =>
       /\ call[c].snap[j].unit = job[j].unit
       /\ \A b \in Units : \/ call[c].snap[j].bound[b] = job[j].bound[b]
                           \/ call[c].snap[j].bound[b] = NoUnit /\ b = job[j].unit

OwnInv == (\A j \in Jobs : OwnRecord(j)) /\ (\A c \in Callers : OwnSnapshot(c))

\* What a step may make of a writer's record that dispatches nothing: it may bind the turn of
\* the current unit, and record of that unit only what is so.
OwnStep(j) == Here(job'[j]) /\ job'[j].writer =>
  /\ Here(job[j]) /\ job[j].writer /\ job'[j].unit = job[j].unit
  /\ \A b \in Units : \/ job'[j].bound[b] = job[j].bound[b]
                      \/ b = job[j].unit /\ job'[j].bound[b] = b
  /\ \A b \in Units : home[b] = j => \/ cache'[b] = cache[b]
                                     \/ cache'[b] = b /\ job'[j].bound[b] = b
  /\ job'[j].state = "ended" => job[j].state = "ended" \/ turn'[job[j].unit] = "ended"
  /\ job'[j].state = "pre_turn" => job[j].state = "pre_turn" \/ turn'[job[j].unit] = "none"
  /\ owner.unit = job[j].unit => \/ owner'.unit = owner.unit
                                 \/ turn'[owner.unit] \notin {"running", "ended"}
                                 \/ job'[j].bound[owner.unit] = owner.unit
\* What a call has in its snapshots it had before, or has just taken.
Retakes(c) == \A j \in Jobs : call'[c].snap[j] # Absent =>
  /\ call'[c].pc \in {"get", "observe", "apply", "bounded"}
  /\ call'[c].snap[j] \in {call[c].snap[j], job'[j]}

\* A step that dispatches nothing keeps the records and the snapshots true.
LEMMA OwnCalm ==
  ASSUME ExecutorInv, ExecutorInv', OwnInv, TurnsCalm, \A j \in Jobs : OwnStep(j),
         \A c \in Callers : Stays(c) \/ Retakes(c)
  PROVE  OwnInv'
  <1>t. TypeOK /\ TypeOK'
    BY DEF ExecutorInv
  <1>1. ASSUME NEW j \in Jobs PROVE OwnRecord(j)'
    <2> SUFFICES ASSUME Here(job'[j]), job'[j].writer
                 PROVE  /\ \A b \in Units : job'[j].bound[b] \in {NoUnit, b}
                        /\ \A u \in Units : home'[u] = j =>
                             /\ cache'[u] # NoUnit => cache'[u] = u /\ job'[j].bound[u] = u
                             /\ Ran(u)' /\ job'[j].bound[u] = NoUnit =>
                                  owner'.unit = u /\ job'[j].unit = u
                        /\ job'[j].state = "ended" => turn'[job'[j].unit] = "ended"
                        /\ job'[j].state = "pre_turn" => turn'[job'[j].unit] = "none"
      BY DEF OwnRecord, Ran, Here
    <2>1. OwnStep(j) /\ OwnRecord(j) /\ Here(job[j]) /\ job[j].writer
          /\ job'[j].unit = job[j].unit
      BY DEF OwnInv, OwnStep
    <2>2. job[j].unit \in Units
      BY <1>t, <2>1 DEF ExecutorInv, JobFits, RecordFits, TypeOK, Job
    <2>3. \A b \in Units : job'[j].bound[b] \in {NoUnit, b}
      BY <2>1 DEF OwnStep, OwnRecord
    <2>4. ASSUME NEW u \in Units, home'[u] = j, cache'[u] # NoUnit
          PROVE  cache'[u] = u /\ job'[j].bound[u] = u
      BY <2>1, <2>4 DEF OwnStep, OwnRecord, TurnsCalm
    <2>5. ASSUME NEW u \in Units, home'[u] = j, Ran(u)', job'[j].bound[u] = NoUnit
          PROVE  owner'.unit = u /\ job'[j].unit = u
      <3>1. home[u] = j /\ job[j].bound[u] = NoUnit
        BY <2>1, <2>5, UnitAssumption DEF TurnsCalm, OwnStep
      <3>2. CASE Ran(u)
        <4>1. owner.unit = u /\ job[j].unit = u
          BY <2>1, <3>1, <3>2 DEF OwnRecord
        <4>2. turn'[u] \in {"running", "ended"} /\ job'[j].bound[u] # u
          BY <2>5, UnitAssumption DEF Ran
        <4> QED
          BY <2>1, <4>1, <4>2 DEF OwnStep
      <3>3. CASE ~Ran(u)
        <4>1. turn'[u] = "running"
          BY <2>5, <3>3 DEF Ran, TurnsCalm
        <4>2. Unsettled(u)' /\ UnitFits(u)'
          BY <4>1 DEF Unsettled, Live, ExecutorInv
        <4>3. home'[u] # NoJob /\ job'[home'[u]].writer
          BY <2>5, UnitAssumption
        <4> QED
          BY <2>5, <4>2, <4>3 DEF UnitFits
      <3> QED
        BY <3>2, <3>3
    <2>6. /\ job'[j].state = "ended" => turn'[job'[j].unit] = "ended"
          /\ job'[j].state = "pre_turn" => turn'[job'[j].unit] = "none"
      BY <2>1, <2>2 DEF OwnStep, OwnRecord, TurnsCalm
    <2> QED
      BY <2>3, <2>4, <2>5, <2>6
  <1>2. ASSUME NEW c \in Callers PROVE OwnSnapshot(c)'
    <2> SUFFICES ASSUME NEW j \in Jobs, call'[c].snap[j] # Absent
                 PROVE  /\ call'[c].pc \in {"get", "observe", "apply", "bounded"}
                        /\ call'[c].snap[j].writer =>
                             /\ call'[c].snap[j].unit = job'[j].unit
                             /\ \A b \in Units :
                                  \/ call'[c].snap[j].bound[b] = job'[j].bound[b]
                                  \/ call'[c].snap[j].bound[b] = NoUnit /\ b = job'[j].unit
      BY DEF OwnSnapshot
    <2>1. OwnSnapshot(c) /\ OwnRecord(j) /\ OwnStep(j)
      BY DEF OwnInv
    <2>2. /\ call'[c].pc \in {"get", "observe", "apply", "bounded"}
          /\ call'[c].snap[j] \in {call[c].snap[j], job'[j]}
      BY <2>1 DEF Stays, Retakes, OwnSnapshot
    <2>3. CASE call'[c].snap[j] = job'[j]
      BY <2>2, <2>3
    <2>4. CASE call'[c].snap[j] = call[c].snap[j] /\ call[c].snap[j].writer
      <3>1. RecordFits(call[c].snap[j], j)'
        BY DEF ExecutorInv, SnapshotFits
      <3>2. Here(job'[j]) /\ job'[j].writer
        BY <2>4, <3>1 DEF RecordFits, Here
      <3>3. /\ job'[j].unit = job[j].unit /\ Here(job[j]) /\ job[j].writer
            /\ \A b \in Units : \/ job'[j].bound[b] = job[j].bound[b]
                                \/ b = job[j].unit /\ job'[j].bound[b] = b
        BY <2>1, <3>2 DEF OwnStep
      <3>4. /\ call[c].snap[j].unit = job[j].unit
            /\ \A b \in Units : \/ call[c].snap[j].bound[b] = job[j].bound[b]
                                \/ call[c].snap[j].bound[b] = NoUnit /\ b = job[j].unit
        BY <2>1, <2>4 DEF OwnSnapshot
      <3>5. \A b \in Units : job[j].bound[b] \in {NoUnit, b}
        BY <2>1, <3>3 DEF OwnRecord
      <3> QED
        BY <2>2, <2>4, <3>3, <3>4, <3>5
    <2> QED
      BY <2>2, <2>3, <2>4
  <1> QED
    BY <1>1, <1>2 DEF OwnInv

\* A record that keeps its unit and its bindings, and is not newly recorded as over.
SameBindings(j) ==
  \/ job'[j] = job[j]
  \/ /\ Here(job[j]) /\ job'[j].unit = job[j].unit /\ job'[j].writer = job[j].writer
     /\ job'[j].bound = job[j].bound
     /\ job'[j].state = job[j].state \/ job'[j].state \notin TerminalStates

\* One record is written so.
LEMMA RecordSame ==
  ASSUME TypeOK, NEW j \in Jobs, Here(job[j]), NEW q, job' = [job EXCEPT ![j] = q],
         q.unit = job[j].unit, q.writer = job[j].writer, q.bound = job[j].bound,
         q.state = job[j].state \/ q.state \notin TerminalStates
  PROVE  \A k \in Jobs : SameBindings(k)
  <1>1. job'[j] = q /\ \A k \in Jobs : k # j => job'[k] = job[k]
    BY DEF TypeOK
  <1> QED
    BY <1>1 DEF SameBindings

\* The state of a record is written.
LEMMA StateSame ==
  ASSUME TypeOK, NEW j \in Jobs, Here(job[j]), NEW st \in JobStates \ TerminalStates,
         SetState(j, st)
  PROVE  \A k \in Jobs : SameBindings(k)
  <1>1. PICK o \in Job : o = job[j]
    BY DEF TypeOK
  <1>2. PICK q : q = [o EXCEPT !.state = st]
    OBVIOUS
  <1>3. q.unit = o.unit /\ q.writer = o.writer /\ q.bound = o.bound /\ q.state = st
    BY <1>2, RecordEdits
  <1>4. job' = [job EXCEPT ![j] = q]
    BY <1>1, <1>2 DEF SetState
  <1> QED
    BY <1>1, <1>3, <1>4, RecordSame

\* Such a step keeps the records true, if no unit that has the workspace loses it.
LEMMA OwnSame ==
  ASSUME ExecutorInv, ExecutorInv', OwnInv, TurnsCalm, cache' = cache,
         \A j \in Jobs : SameBindings(j),
         owner'.unit = owner.unit \/ owner.unit = NoUnit,
         \A c \in Callers : Stays(c) \/ Retakes(c)
  PROVE  OwnInv'
  <1>1. ASSUME NEW j \in Jobs PROVE OwnStep(j)
    <2> SUFFICES ASSUME Here(job'[j]), job'[j].writer PROVE OwnStep(j)
      BY DEF OwnStep
    <2>1. Here(job[j]) /\ job[j].writer /\ job'[j].unit = job[j].unit
          /\ job'[j].bound = job[j].bound
          /\ (job'[j].state = job[j].state \/ job'[j].state \notin TerminalStates)
      BY DEF SameBindings
    <2>2. job[j].unit # NoUnit
      BY <2>1 DEF ExecutorInv, JobFits, RecordFits
    <2> QED
      BY <2>1, <2>2 DEF OwnStep, TerminalStates
  <1> QED
    BY <1>1, OwnCalm

\* A call that returns has no snapshot.
LEMMA ReturnsBare ==
  ASSUME TypeOK, NEW c \in Callers, Return(c)
  PROVE  \A d \in Callers : Stays(d) \/ Retakes(d)
  <1>1. call'[c] = Idle /\ \A d \in Callers : d # c => call'[d] = call[d]
    BY DEF TypeOK, Return
  <1>2. Retakes(c)
    BY <1>1, IdleCall DEF Retakes
  <1> QED
    BY <1>1, <1>2 DEF Stays

\* A call moves to what it has just read, and to nothing else.
LEMMA CallTakes ==
  ASSUME TypeOK, NEW c \in Callers, NEW r, Begin(c, r),
         \A j \in Jobs : r.snap[j] # Absent =>
            /\ r.pc \in {"get", "observe", "apply", "bounded"}
            /\ r.snap[j] \in {call[c].snap[j], job'[j]}
  PROVE  \A d \in Callers : Stays(d) \/ Retakes(d)
  <1>1. call'[c] = r /\ \A d \in Callers : d # c => call'[d] = call[d]
    BY DEF TypeOK, Begin
  <1>2. Retakes(c)
    BY <1>1 DEF Retakes
  <1> QED
    BY <1>1, <1>2 DEF Stays

\* A failed thread/start.
LEMMA ThreadFailsOwn ==
  ASSUME ExecutorInv, ExecutorInv', OwnInv, NEW c \in Callers, ThreadFails(c) PROVE OwnInv'
  <1>1. /\ TypeOK /\ call[c].job \in Jobs /\ Here(job[call[c].job])
        /\ "recovery_required" \in JobStates \ TerminalStates
    BY JobOfCall DEF ThreadFails, At, ExecutorInv, JobStates, RiskStates, TerminalStates
  <1>2. \A k \in Jobs : SameBindings(k)
    <2>1. CASE job' = job
      BY <2>1 DEF SameBindings
    <2>2. CASE SetState(call[c].job, "recovery_required")
      BY <1>1, <2>2, StateSame
    <2> QED
      BY <2>1, <2>2 DEF ThreadFails
  <1>3. UNCHANGED <<turn, noted, home, owner, cache>>
    BY DEF ThreadFails, server
  <1> QED
    BY <1>1, <1>2, <1>3, ServerIdle, ReturnsBare, OwnSame DEF ThreadFails

\* Settings that were not proved.
LEMMA SettingsFailOwn ==
  ASSUME ExecutorInv, ExecutorInv', OwnInv, NEW c \in Callers, SettingsFail(c) PROVE OwnInv'
  <1>1. /\ TypeOK /\ call[c].job \in Jobs /\ Here(job[call[c].job])
    BY JobOfCall DEF SettingsFail, At, ExecutorInv
  <1>2. PICK o \in Job : o = job[call[c].job]
    BY <1>1 DEF TypeOK
  <1>3. PICK q : q = [o EXCEPT !.state = "recovery_required", !.verified = FALSE]
    OBVIOUS
  <1>4. /\ q.state = "recovery_required" /\ q.unit = o.unit /\ q.bound = o.bound
        /\ q.writer = o.writer
    BY <1>3, RecordFailed
  <1>5. job' = [job EXCEPT ![call[c].job] = q]
    BY <1>2, <1>3 DEF SettingsFail
  <1>6. \A k \in Jobs : SameBindings(k)
    BY <1>1, <1>2, <1>4, <1>5, RecordSame DEF TerminalStates
  <1>7. UNCHANGED <<turn, noted, home, owner, cache>>
    BY DEF SettingsFail, server
  <1> QED
    BY <1>1, <1>6, <1>7, ServerIdle, ReturnsBare, OwnSame DEF SettingsFail

\* Calls that fail and record nothing.
LEMMA NothingRecordedOwn ==
  ASSUME ExecutorInv, ExecutorInv', OwnInv, NEW c \in Callers,
         WaitsForever(c) \/ GetFails(c) \/ InterruptFails(c)
  PROVE  OwnInv'
  <1>1. Return(c) /\ UNCHANGED <<turn, noted, home, owner, cache, job>>
    BY DEF WaitsForever, GetFails, InterruptFails, server
  <1>2. TypeOK /\ \A k \in Jobs : SameBindings(k)
    BY <1>1 DEF SameBindings, ExecutorInv
  <1> QED
    BY <1>1, <1>2, ServerIdle, ReturnsBare, OwnSame

\* A failed turn/start.
LEMMA TurnFailsOwn ==
  ASSUME ExecutorInv, ExecutorInv', OwnInv, NEW c \in Callers, TurnFails(c) PROVE OwnInv'
  <1>1. /\ TypeOK /\ call[c].job \in Jobs /\ Here(job[call[c].job]) /\ OwnerTyped(owner)
        /\ "recovery_required" \in JobStates \ TerminalStates
    BY JobOfCall DEF TurnFails, At, ExecutorInv, JobStates, RiskStates, TerminalStates, TypeOK,
       OwnerTyped, OwnerRecord
  <1>2. \A k \in Jobs : SameBindings(k)
    BY <1>1, StateSame DEF TurnFails
  <1>3. UNCHANGED <<noted, home, cache>>
    BY DEF TurnFails
  <1>4. TurnsCalm
    <2>1. CASE turn' = turn
      BY <1>3, <2>1, ServerIdle
    <2>2. CASE turn[call[c].unit] = "sent" /\ turn' = [turn EXCEPT ![call[c].unit] = "none"]
      BY <1>1, <1>3, <2>2 DEF TypeOK, TurnStates, TurnsCalm, Ran, Seen, Live
    <2> QED
      BY <2>1, <2>2 DEF TurnFails
  <1>5. owner'.unit = owner.unit
    BY <1>1, OwnerMoves DEF TurnFails, UnitStates
  <1> QED
    BY <1>1, <1>2, <1>3, <1>4, <1>5, ReturnsBare, OwnSame DEF TurnFails

\* The server starts or ends a turn.
LEMMA TurnMovesOwn ==
  ASSUME ExecutorInv, ExecutorInv', OwnInv, NEW u \in Units, TurnBegins(u) \/ TurnEnds(u)
  PROVE  OwnInv'
  <1>1. UNCHANGED <<noted, home, cache, job, owner, call>> /\ TypeOK
    BY DEF TurnBegins, TurnEnds, ExecutorInv
  <1>2. TurnsCalm
    BY <1>1 DEF TurnBegins, TurnEnds, TurnsCalm, Ran, Seen, Live, TypeOK
  <1>3. (\A k \in Jobs : SameBindings(k)) /\ \A c \in Callers : Stays(c)
    BY <1>1 DEF SameBindings, Stays
  <1> QED
    BY <1>1, <1>2, <1>3, OwnSame

\* A local mutation begins or ends: no unit has the workspace.
LEMMA LocalOwn ==
  ASSUME ExecutorInv, ExecutorInv', OwnInv, LocalBegins \/ LocalEnds PROVE OwnInv'
  <1>1. UNCHANGED <<turn, noted, home, cache, job, call>>
    BY DEF LocalBegins, LocalEnds, server
  <1>2. owner.unit = NoUnit
    BY DEF LocalBegins, LocalEnds, CanAcquire, ExecutorInv, OwnerFits, TypeOK
  <1>3. (\A k \in Jobs : SameBindings(k)) /\ \A c \in Callers : Stays(c)
    BY <1>1 DEF SameBindings, Stays
  <1> QED
    BY <1>1, <1>2, <1>3, ServerIdle, OwnSame

\* The server exits.
LEMMA ServerExitsOwn ==
  ASSUME ExecutorInv, ExecutorInv', OwnInv, ServerExits PROVE OwnInv'
  <1>1. TypeOK /\ TurnsCalm /\ cache' = cache /\ OwnerTyped(owner)
    BY ServerLost DEF ExecutorInv, ServerExits, TypeOK, OwnerTyped, OwnerRecord
  <1>2. ASSUME NEW k \in Jobs PROVE SameBindings(k)
    <2>1. PICK o \in Job : o = job[k]
      BY <1>1 DEF TypeOK
    <2>2. PICK q : q = [o EXCEPT !.state = "recovery_required"]
      OBVIOUS
    <2>3. /\ q.state = "recovery_required" /\ q.unit = o.unit /\ q.bound = o.bound
          /\ q.writer = o.writer
      BY <2>2, RecordEdits DEF JobStates, RiskStates
    <2>4. job'[k] = job[k] \/ (o.state \in RecoveryStates /\ job'[k] = q)
      BY <2>1, <2>2 DEF ServerExits
    <2> QED
      BY <2>1, <2>3, <2>4 DEF SameBindings, Here, RecoveryStates, TerminalStates
  <1>3. ASSUME NEW c \in Callers PROVE Stays(c)
    <2>1. PICK v \in BOOLEAN : v = (call[c].lost \/ call[c].pc \notin {"idle", "bounded"})
      OBVIOUS
    <2>2. call'[c] = [call[c] EXCEPT !.lost = v]
      BY <2>1 DEF ServerExits
    <2>3. call[c] \in Call
      BY <1>1 DEF TypeOK
    <2> QED
      BY <2>2, <2>3 DEF Call, Stays
  <1>4. owner'.unit = owner.unit
    BY <1>1, OwnerMoves DEF ServerExits, UnitStates
  <1> QED
    BY <1>1, <1>2, <1>3, <1>4, OwnSame

\* A step that only moves the calls.
LEMMA OwnCalls ==
  ASSUME ExecutorInv, ExecutorInv', OwnInv, UNCHANGED <<turn, noted, home, job, owner, cache>>,
         \A c \in Callers : Stays(c) \/ Retakes(c)
  PROVE  OwnInv'
  <1>1. \A k \in Jobs : SameBindings(k)
    BY DEF SameBindings
  <1> QED
    BY <1>1, ServerIdle, OwnSame

\* get takes its snapshot.
LEMMA GetOwn ==
  ASSUME ExecutorInv, ExecutorInv', OwnInv, NEW c \in Callers, NEW j \in Jobs, Get(c, j)
  PROVE  OwnInv'
  <1>1. TypeOK /\ UNCHANGED <<turn, noted, home, job, owner, cache>>
    BY DEF Get, server, ExecutorInv
  <1>2. PICK r : r = [Idle EXCEPT !.pc = "get", !.op = "get", !.job = j, !.snap = OnlyJob(j),
                                  !.lost = ~up]
    OBVIOUS
  <1>3. r.pc = "get" /\ r.snap = OnlyJob(j) /\ Begin(c, r)
    BY <1>2 DEF Idle, Get
  <1>4. \A k \in Jobs : OnlyJob(j)[k] \in {Absent, job'[k]}
    BY <1>1 DEF OnlyJob
  <1> QED
    BY <1>1, <1>3, <1>4, CallTakes, OwnCalls

\* An observation begins with records just taken.
LEMMA ObservingOwn ==
  ASSUME ExecutorInv, ExecutorInv', OwnInv, NEW c \in Callers, NEW op, NEW j, NEW S, NEW running,
         Begin(c, Observing(c, op, S, j, running)),
         \A k \in Jobs : S[k] \in {Absent, job[k]},
         UNCHANGED <<turn, noted, home, job, owner, cache>>
  PROVE  OwnInv'
  <1>1. PICK r : r = Observing(c, op, S, j, running)
    OBVIOUS
  <1>2. r.pc = "observe" /\ r.snap = S
    BY <1>1 DEF Observing, Idle
  <1>3. \A d \in Callers : Stays(d) \/ Retakes(d)
    BY <1>1, <1>2, CallTakes DEF ExecutorInv
  <1> QED
    BY <1>3, OwnCalls

\* reconcile begins.
LEMMA ReconcileOwn ==
  ASSUME ExecutorInv, ExecutorInv', OwnInv, NEW c \in Callers, NEW j \in Jobs, Reconcile(c, j)
  PROVE  OwnInv'
  <1>1. \A k \in Jobs : OnlyJob(j)[k] \in {Absent, job[k]}
    BY DEF OnlyJob
  <1> QED
    BY <1>1, ObservingOwn DEF Reconcile, server

\* The preflight begins.
LEMMA PreflightOwn ==
  ASSUME ExecutorInv, ExecutorInv', OwnInv, NEW c \in Callers, NEW scope \in SUBSET Jobs,
         Preflight(c, scope)
  PROVE  OwnInv'
  <1> DEFINE dangerous == Dangerous(scope)
             snap == [j \in Jobs |-> IF j \in dangerous THEN job[j] ELSE Absent]
  <1>1. PICK j \in dangerous : Begin(c, Observing(c, "preflight", snap, j, TRUE))
    BY DEF Preflight
  <1>2. UNCHANGED <<turn, noted, home, job, owner, cache>>
    BY DEF Preflight, server
  <1>3. \A k \in Jobs : snap[k] \in {Absent, job[k]}
    OBVIOUS
  <1> HIDE DEF snap
  <1> QED
    BY <1>1, <1>2, <1>3, ObservingOwn

\* The observation of one job ends: the rest of the snapshots are kept.
LEMMA ObservationEndsOwn ==
  ASSUME ExecutorInv, NEW c \in Callers, call[c].pc \in {"observe", "apply"}, EndObservation(c)
  PROVE  \A d \in Callers : Stays(d) \/ Retakes(d)
  <1> DEFINE j == call[c].job
             left == [call[c].snap EXCEPT ![j] = Absent]
             rest == {k \in Jobs : left[k] # Absent}
  <1>0. TypeOK /\ call[c].snap \in [Jobs -> Job]
    BY DEF ExecutorInv, TypeOK, Call
  <1>1. \A k \in Jobs : left[k] \in {Absent, call[c].snap[k]}
    BY <1>0
  <1>2. CASE Return(c)
    BY <1>0, <1>2, ReturnsBare
  <1>3. CASE \E k \in rest : Begin(c, Observing(c, call[c].op, left, k, up))
    <2>1. PICK k \in rest : Begin(c, Observing(c, call[c].op, left, k, up))
      BY <1>3
    <2>2. PICK S : S = left
      OBVIOUS
    <2>3. PICK r : r = Observing(c, call[c].op, S, k, up)
      OBVIOUS
    <2>4. r.pc = "observe" /\ r.snap = S
      BY <2>3 DEF Observing, Idle
    <2>5. Begin(c, r)
      BY <2>1, <2>2, <2>3
    <2>6. \A i \in Jobs : S[i] # Absent => S[i] = call[c].snap[i]
      BY <1>1, <2>2
    <2> QED
      BY <1>0, <2>4, <2>5, <2>6, CallTakes
  <1> QED
    BY <1>2, <1>3 DEF EndObservation

\* A failed observation.
LEMMA ObserveFailsOwn ==
  ASSUME ExecutorInv, ExecutorInv', OwnInv, NEW c \in Callers, ObserveFails(c) PROVE OwnInv'
  <1>1. /\ TypeOK /\ call[c].pc = "observe" /\ call[c].job \in Jobs /\ Here(job[call[c].job])
        /\ "recovery_required" \in JobStates \ TerminalStates
    BY JobOfCall DEF ObserveFails, At, ExecutorInv, JobStates, RiskStates, TerminalStates
  <1>2. \A k \in Jobs : SameBindings(k)
    BY <1>1, StateSame DEF ObserveFails
  <1>3. UNCHANGED <<turn, noted, home, owner, cache>>
    BY DEF ObserveFails, server
  <1>4. \A d \in Callers : Stays(d) \/ Retakes(d)
    BY <1>1, ObservationEndsOwn DEF ObserveFails
  <1> QED
    BY <1>2, <1>3, <1>4, ServerIdle, OwnSame

\* The reads of an observation are answered.
LEMMA ObserveAnsweredOwn ==
  ASSUME ExecutorInv, ExecutorInv', OwnInv, NEW c \in Callers, ObserveAnswered(c) PROVE OwnInv'
  <1>1. TypeOK /\ call[c] \in Call /\ UNCHANGED <<turn, noted, home, job, owner, cache>>
    BY DEF ObserveAnswered, server, ExecutorInv, TypeOK
  <1>2. PICK r : r = [call[c] EXCEPT !.pc = "apply", !.view = View(call[c].job)]
    OBVIOUS
  <1>3. r.pc = "apply" /\ r.snap = call[c].snap /\ Begin(c, r)
    BY <1>1, <1>2 DEF Call, ObserveAnswered
  <1> QED
    BY <1>1, <1>3, CallTakes, OwnCalls

\* interrupt begins.
LEMMA InterruptOwn ==
  ASSUME ExecutorInv, ExecutorInv', OwnInv, NEW c \in Callers, NEW j \in Jobs, Interrupt(c, j)
  PROVE  OwnInv'
  <1>1. TypeOK /\ UNCHANGED <<turn, noted, home, job, owner, cache>>
    BY DEF Interrupt, server, ExecutorInv
  <1>2. PICK r : r = [Idle EXCEPT !.pc = "interrupt", !.op = "interrupt", !.job = j, !.lost = ~up]
    OBVIOUS
  <1>3. Begin(c, r) /\ \A k \in Jobs : r.snap[k] = Absent
    BY <1>2 DEF Idle, Interrupt
  <1> QED
    BY <1>1, <1>3, CallTakes, OwnCalls

\* interrupt is answered and reads again, from a new snapshot.
LEMMA InterruptAnsweredOwn ==
  ASSUME ExecutorInv, ExecutorInv', OwnInv, NEW c \in Callers, InterruptAnswered(c) PROVE OwnInv'
  <1>1. /\ TypeOK /\ call[c].job \in Jobs /\ Here(job[call[c].job]) /\ call[c] \in Call
    BY JobOfCall DEF InterruptAnswered, At, ExecutorInv, TypeOK
  <1>2. PICK j \in Jobs, o \in Job : j = call[c].job /\ o = job[j]
    BY <1>1 DEF TypeOK
  <1>3. PICK q : q = [o EXCEPT !.state = "recovery_required"]
    OBVIOUS
  <1>4. /\ q.state = "recovery_required" /\ q.unit = o.unit /\ q.bound = o.bound
        /\ q.writer = o.writer
    BY <1>3, RecordEdits DEF JobStates, RiskStates
  <1>5. PICK r : r = [call[c] EXCEPT !.pc = "bounded", !.snap = [OnlyJob(j) EXCEPT ![j] = q]]
    OBVIOUS
  <1>6. job' = [job EXCEPT ![j] = q] /\ Begin(c, r)
    BY <1>2, <1>3, <1>5 DEF InterruptAnswered
  <1>7. \A k \in Jobs : SameBindings(k)
    BY <1>1, <1>2, <1>4, <1>6, RecordSame DEF TerminalStates
  <1>8. r.pc = "bounded" /\ r.snap = [OnlyJob(j) EXCEPT ![j] = q]
    BY <1>1, <1>5 DEF Call
  <1>9. \A k \in Jobs : r.snap[k] \in {Absent, job'[k]}
    BY <1>1, <1>6, <1>8 DEF OnlyJob, TypeOK
  <1>10. UNCHANGED <<turn, noted, home, owner, cache>>
    BY DEF InterruptAnswered, server
  <1>11. \A d \in Callers : Stays(d) \/ Retakes(d)
    <2>1. r.pc = "bounded" /\ Begin(c, r)
      BY <1>6, <1>8
    <2> QED
      BY <1>1, <1>9, <2>1, CallTakes
  <1> QED
    BY <1>7, <1>10, <1>11, ServerIdle, OwnSame

\* A bounded read tried again, or given up, records nothing else.
LEMMA ReadsAgainOwn ==
  ASSUME TypeOK, NEW c \in Callers, call[c].pc = "bounded", call[c].job \in Jobs,
         NEW rec \in Job, ReadAgain(c, rec)
  PROVE  /\ \A d \in Callers : Stays(d) \/ Retakes(d)
         /\ \E q \in Job : /\ job' = [job EXCEPT ![call[c].job] = q]
                           /\ q.unit = rec.unit /\ q.writer = rec.writer /\ q.bound = rec.bound
                           /\ q.state = rec.state \/ q.state = "recovery_required"
  <1>1. CASE /\ Begin(c, [call[c] EXCEPT !.tries = @ + 1])
             /\ job' = [job EXCEPT ![call[c].job] = rec]
    <2>1. PICK r : r = [call[c] EXCEPT !.tries = @ + 1]
      OBVIOUS
    <2>2. /\ Begin(c, r) /\ r.pc = call[c].pc /\ r.op = call[c].op /\ r.job = call[c].job
          /\ r.unit = call[c].unit /\ r.snap = call[c].snap /\ r.view = call[c].view
      BY <1>1, <2>1 DEF TypeOK, Call
    <2>3. \A d \in Callers : Stays(d)
      BY <2>2 DEF TypeOK, Begin, Stays
    <2> QED
      BY <1>1, <2>3
  <1>2. CASE Return(c) /\ job' = [job EXCEPT ![call[c].job] = [rec EXCEPT !.state = "recovery_required"]]
    <2>1. PICK q : q = [rec EXCEPT !.state = "recovery_required"]
      OBVIOUS
    <2>2. /\ q \in Job /\ q.state = "recovery_required" /\ q.unit = rec.unit
          /\ q.bound = rec.bound /\ q.writer = rec.writer
      BY <2>1, RecordEdits DEF JobStates, RiskStates
    <2> QED
      BY <1>2, <2>1, <2>2, ReturnsBare
  <1> QED
    BY <1>1, <1>2 DEF ReadAgain

\* A failed bounded read.
LEMMA BoundedReadFailsOwn ==
  ASSUME ExecutorInv, ExecutorInv', OwnInv, NEW c \in Callers, BoundedReadFails(c) PROVE OwnInv'
  <1>1. /\ TypeOK /\ call[c].pc = "bounded" /\ call[c].job \in Jobs /\ Here(job[call[c].job])
    BY JobOfCall DEF BoundedReadFails, At, ExecutorInv
  <1>2. PICK o \in Job : o = job[call[c].job]
    BY <1>1 DEF TypeOK
  <1>3. ReadAgain(c, o) /\ UNCHANGED <<turn, noted, home, owner, cache>>
    BY <1>2 DEF BoundedReadFails, server
  <1>4. /\ \A d \in Callers : Stays(d) \/ Retakes(d)
        /\ \E q \in Job : /\ job' = [job EXCEPT ![call[c].job] = q]
                          /\ q.unit = o.unit /\ q.writer = o.writer /\ q.bound = o.bound
                          /\ q.state = o.state \/ q.state = "recovery_required"
    BY <1>1, <1>3, ReadsAgainOwn
  <1>5. \A k \in Jobs : SameBindings(k)
    BY <1>1, <1>2, <1>4, RecordSame DEF TerminalStates
  <1> QED
    BY <1>3, <1>4, <1>5, ServerIdle, OwnSame

----------------------------------------------------------------------------
(* Turns found, answered or notified are the current unit's *)
\* The candidate a writer's snapshot resolves to is the turn of the job's current unit.
LEMMA CandidateOwn ==
  ASSUME ExecutorInv, OwnInv, NEW c \in Callers, NEW j \in Jobs,
         NEW r \in Job, r = call[c].snap[j], r # Absent, r.writer,
         NEW view \in [Units -> TurnStates], Viewed(view, j), NEW b \in Candidates(r, view)
  PROVE  /\ b \in Units /\ b = r.unit /\ r.unit = job[j].unit /\ home[b] = j
         /\ Here(job[j]) /\ job[j].writer
         /\ r.bound[b] = r.unit => job[j].bound[b] = b
         /\ \A x \in Units : x # b => r.bound[x] = job[j].bound[x]
  <1>0. RecordFits(r, j)
    BY DEF ExecutorInv, SnapshotFits
  <1>1. /\ RecordFits(r, j) /\ Here(job[j]) /\ job[j].writer /\ r.unit # NoUnit
        /\ OwnRecord(j) /\ OwnSnapshot(c)
    BY <1>0 DEF RecordFits, OwnInv
  <1>2. /\ r.unit = job[j].unit
        /\ \A x \in Units : \/ r.bound[x] = job[j].bound[x]
                            \/ r.bound[x] = NoUnit /\ x = job[j].unit
        /\ \A x \in Units : job[j].bound[x] \in {NoUnit, x}
    BY <1>1 DEF OwnSnapshot, OwnRecord
  <1>3. b \in Units
    BY DEF Candidates, BoundTurns
  <1>4. CASE r.bound[b] = r.unit
    <2>1. r.bound[b] = job[j].bound[b] /\ b = r.unit
      BY <1>1, <1>2, <1>3, <1>4
    <2> QED
      BY <1>1, <1>2, <1>3, <1>4, <2>1 DEF RecordFits
  <1>5. CASE r.bound[b] # r.unit
    <2>1. home[b] = j /\ Ran(b) /\ r.bound[b] = NoUnit
      BY <1>1, <1>5, UnboundCandidate
    <2>2. b = job[j].unit
      BY <1>1, <1>2, <1>3, <2>1 DEF OwnRecord
    <2> QED
      BY <1>1, <1>2, <1>3, <1>5, <2>1, <2>2
  <1> QED
    BY <1>4, <1>5

\* A candidate recorded keeps the records true: it is bound to itself, and its end is its own.
LEMMA FoundOwn ==
  ASSUME ExecutorInv, ExecutorInv', OwnInv, NEW c \in Callers, NEW j \in Jobs,
         NEW r \in Job, r = call[c].snap[j], r # Absent,
         NEW view \in [Units -> TurnStates], Viewed(view, j), NEW b \in Candidates(r, view),
         UNCHANGED <<turn, noted, home>>, cache' = CacheCandidate(r, b),
         NEW q \in Job, job' = [job EXCEPT ![j] = q], q.unit = job[j].unit,
         q.writer = job[j].writer, q.bound = BindCandidate(job[j], r, b).bound,
         \/ q.state = job[j].state \/ q.state \notin TerminalStates
         \/ q.state = "ended" /\ turn[b] = "ended",
         owner'.unit = owner.unit \/ owner.unit = NoUnit \/ (r.writer /\ owner.unit = r.unit),
         \A d \in Callers : Stays(d) \/ Retakes(d)
  PROVE  OwnInv'
  <1>1. /\ TypeOK /\ RecordFits(r, j) /\ Here(job[j]) /\ job[j].writer = r.writer
        /\ r.unit \in Units /\ r.unit # NoUnit /\ job[j] \in Job
    <2>1. RecordFits(r, j)
      BY DEF ExecutorInv, SnapshotFits
    <2>2. TypeOK /\ job[j] \in Job
      BY DEF ExecutorInv, TypeOK
    <2>3. Here(job[j]) /\ job[j].writer = r.writer /\ r.unit \in Units /\ r.unit # NoUnit
      BY <2>1 DEF RecordFits, Job
    <2> QED
      BY <2>1, <2>2, <2>3
  <1>2. b \in Units
    BY DEF Candidates, BoundTurns
  <1>3. job'[j] = q /\ \A k \in Jobs : k # j => job'[k] = job[k]
    BY <1>1 DEF TypeOK
  <1>4. /\ r.bound[b] = r.unit => q.bound = job[j].bound
        /\ r.bound[b] # r.unit =>
              q.bound[b] = r.unit /\ \A x \in Units : x # b => q.bound[x] = r.bound[x]
    <2>1. PICK o \in Job : o = job[j]
      BY <1>1
    <2>2. Here(o)
      BY <1>1, <2>1 DEF Here
    <2>3. /\ r.bound[b] = r.unit => BindCandidate(o, r, b) = o
          /\ r.bound[b] # r.unit =>
                /\ BindCandidate(o, r, b).bound[b] = r.unit
                /\ \A x \in Units : x # b => BindCandidate(o, r, b).bound[x] = r.bound[x]
      BY <1>2, <2>2, CandidateRecord
    <2> QED
      BY <2>1, <2>3
  <1>5. /\ \A x \in Units : x # b => cache'[x] = cache[x]
        /\ cache'[b] = IF r.bound[b] = r.unit THEN cache[b] ELSE r.unit
    BY <1>1, <1>2 DEF CacheCandidate, TypeOK
  <1>6. home[b] = j \/ cache' = cache
    BY <1>1, UnboundCandidate DEF CacheCandidate
  <1>7. TurnsCalm
    <2>1. \A x \in Units : cache[x] # NoUnit => cache'[x] # NoUnit
      BY <1>1, <1>5
    <2> QED
      BY <2>1, ServerIdle
  <1>8. ASSUME NEW k \in Jobs, k # j PROVE OwnStep(k)
    <2> SUFFICES ASSUME Here(job'[k]), job'[k].writer PROVE OwnStep(k)
      BY DEF OwnStep
    <2>1. job'[k] = job[k]
      BY <1>3, <1>8
    <2>2. \A x \in Units : home[x] = k => cache'[x] = cache[x]
      BY <1>5, <1>6, <1>8
    <2>3. job[k].unit # NoUnit /\ home[job[k].unit] = k /\ home[r.unit] = j
      BY <1>1, <2>1 DEF ExecutorInv, JobFits, RecordFits
    <2>4. owner.unit = job[k].unit => owner'.unit = owner.unit
      BY <1>8, <2>3
    <2> QED
      BY <2>1, <2>2, <2>4 DEF OwnStep
  <1>9. OwnStep(j)
    <2> SUFFICES ASSUME Here(job'[j]), job'[j].writer PROVE OwnStep(j)
      BY DEF OwnStep
    <2>1. /\ b = r.unit /\ r.unit = job[j].unit /\ job[j].writer
          /\ r.bound[b] = r.unit => job[j].bound[b] = b
          /\ \A x \in Units : x # b => r.bound[x] = job[j].bound[x]
      BY SMTT(60), <1>1, <1>3, CandidateOwn
    <2>2. q.bound[b] = b /\ \A x \in Units : x # b => q.bound[x] = job[j].bound[x]
      BY <1>2, <1>4, <2>1
    <2>3. \A x \in Units : cache'[x] = cache[x] \/ (cache'[x] = x /\ q.bound[x] = x)
      BY <1>5, <2>1, <2>2
    <2>4. /\ q.state = "ended" => job[j].state = "ended" \/ turn'[job[j].unit] = "ended"
          /\ q.state = "pre_turn" => job[j].state = "pre_turn"
      BY <2>1 DEF TerminalStates
    <2> QED
      BY ZenonT(60), <1>1, <1>3, <2>1, <2>2, <2>3, <2>4 DEF OwnStep
  <1> QED
    BY <1>7, <1>8, <1>9, OwnCalm

\* What becomes of the owner when a unit is released.
LEMMA ReleaseOnly ==
  ASSUME NEW o, NEW u, NEW o2, o2 = ReleasedBy(o, "codex", u)
  PROVE  o2 = o \/ o.unit = u
  BY DEF ReleasedBy

\* get is answered.
LEMMA GetAnsweredOwn ==
  ASSUME ExecutorInv, ExecutorInv', OwnInv, NEW c \in Callers, GetAnswered(c) PROVE OwnInv'
  <1>1. /\ TypeOK /\ call[c].pc = "get" /\ Settled(call[c].job) /\ call[c].snap \in [Jobs -> Job]
        /\ UNCHANGED <<turn, noted, home, cache>> /\ Return(c)
    BY DEF ExecutorInv, GetAnswered, At, TypeOK, Call, server
  <1>2. /\ call[c].job \in Jobs /\ Here(job[call[c].job]) /\ call[c].snap[call[c].job] # Absent
    BY <1>1, JobOfCall DEF ExecutorInv, CallFits
  <1>3. PICK j \in Jobs, r \in Job, v \in [Units -> TurnStates], o \in Job :
           j = call[c].job /\ r = call[c].snap[j] /\ v = View(j) /\ o = job[j]
    BY <1>1, <1>2, ViewRead DEF TypeOK
  <1>4. Viewed(v, j) /\ \A d \in Callers : Stays(d) \/ Retakes(d)
    BY <1>1, <1>3, ViewRead, ReturnsBare DEF Viewed
  <1>5. CASE UNCHANGED <<job, owner>>
    BY <1>1, <1>4, <1>5, OwnCalls
  <1>6. CASE \E b \in BoundTurns(r, v) :
               turn[b] = "ended" /\ SetState(j, "ended") /\ owner' = Released(r)
    <2>1. PICK b \in BoundTurns(r, v) :
             turn[b] = "ended" /\ SetState(j, "ended") /\ owner' = Released(r)
      BY <1>6
    <2>2. b \in Candidates(r, v) /\ b \in Units /\ r.bound[b] = r.unit
      BY <2>1 DEF Candidates, BoundTurns
    <2>3. PICK q : q = [o EXCEPT !.state = "ended"]
      OBVIOUS
    <2>4. /\ q \in Job /\ q.state = "ended" /\ q.unit = o.unit /\ q.bound = o.bound
          /\ q.writer = o.writer
      BY <2>3, RecordEdits DEF JobStates, TerminalStates
    <2>5. job' = [job EXCEPT ![j] = q]
      BY <1>3, <2>1, <2>3 DEF SetState
    <2>6. BindCandidate(job[j], r, b) = job[j] /\ CacheCandidate(r, b) = cache
      BY <2>2 DEF BindCandidate, CacheCandidate
    <2>7. owner' = owner \/ (r.writer /\ owner.unit = r.unit)
      BY <2>1, ReleaseOnly DEF Released
    <2>8. UNCHANGED <<turn, noted, home>> /\ cache' = CacheCandidate(r, b)
      BY <1>1, <2>6
    <2>9. /\ q.bound = BindCandidate(job[j], r, b).bound /\ r = call[c].snap[j] /\ r # Absent
          /\ q.unit = job[j].unit /\ q.writer = job[j].writer
          /\ q.state = "ended" /\ turn[b] = "ended" /\ q \in Job
          /\ owner'.unit = owner.unit \/ (r.writer /\ owner.unit = r.unit)
      BY <1>2, <1>3, <2>1, <2>4, <2>6, <2>7
    <2> QED
      BY <1>4, <2>2, <2>5, <2>8, <2>9, FoundOwn
  <1> QED
    BY <1>3, <1>5, <1>6 DEF GetAnswered

\* A bounded read is answered.
LEMMA BoundedReadOwn ==
  ASSUME ExecutorInv, ExecutorInv', OwnInv, NEW c \in Callers, BoundedRead(c) PROVE OwnInv'
  <1>1. /\ TypeOK /\ call[c].pc = "bounded" /\ Settled(call[c].job)
        /\ call[c].snap \in [Jobs -> Job] /\ UNCHANGED <<turn, noted, home>>
    BY DEF ExecutorInv, BoundedRead, At, TypeOK, Call, server
  <1>2. /\ call[c].job \in Jobs /\ Here(job[call[c].job]) /\ call[c].snap[call[c].job] # Absent
    BY <1>1, JobOfCall DEF ExecutorInv, CallFits
  <1>3. PICK j \in Jobs, r \in Job, v \in [Units -> TurnStates], o \in Job :
           j = call[c].job /\ r = call[c].snap[j] /\ v = View(j) /\ o = job[j]
    BY <1>1, <1>2, ViewRead DEF TypeOK
  <1>4. Viewed(v, j) /\ \A u \in Units : v[u] = "ended" => turn[u] = "ended"
    BY <1>1, <1>3, ViewRead DEF Viewed
  <1>5. CASE Candidates(r, v) = {} /\ ReadAgain(c, job[j]) /\ UNCHANGED <<owner, cache>>
    BY <1>1, <1>3, <1>5, BoundedReadFailsOwn DEF BoundedReadFails, BoundedRead, At, server
  <1>6. CASE \E b \in Candidates(r, v) :
               /\ cache' = CacheCandidate(r, b)
               /\ \/ /\ v[b] = "ended"
                     /\ job' = [job EXCEPT ![j] = [BindCandidate(o, r, b) EXCEPT !.state = "ended"]]
                     /\ owner' = Released(r) /\ Return(c)
                  \/ ReadAgain(c, BindCandidate(o, r, b)) /\ owner' = owner
    <2>1. PICK b \in Candidates(r, v) :
             /\ cache' = CacheCandidate(r, b)
             /\ \/ /\ v[b] = "ended"
                   /\ job' = [job EXCEPT ![j] = [BindCandidate(o, r, b) EXCEPT !.state = "ended"]]
                   /\ owner' = Released(r) /\ Return(c)
                \/ ReadAgain(c, BindCandidate(o, r, b)) /\ owner' = owner
      BY <1>6
    <2>2. PICK rec : rec = BindCandidate(o, r, b)
      OBVIOUS
    <2>3. b \in Units /\ Here(o)
      BY <1>2, <1>3 DEF Candidates, BoundTurns, Here
    <2>4. /\ rec \in Job /\ rec.unit = o.unit /\ rec.writer = o.writer /\ rec.state = o.state
      <3>1. rec \in Job /\ SameUse(o, rec)
        BY <2>2, <2>3, CandidateRecord
      <3>2. rec.state = o.state
        BY <2>2 DEF BindCandidate, Job
      <3> QED
        BY <3>1, <3>2 DEF SameUse
    <2>5. CASE /\ v[b] = "ended" /\ job' = [job EXCEPT ![j] = [rec EXCEPT !.state = "ended"]]
               /\ owner' = Released(r) /\ Return(c)
      <3>1. PICK q : q = [rec EXCEPT !.state = "ended"]
        OBVIOUS
      <3>2. /\ q \in Job /\ q.state = "ended" /\ q.unit = rec.unit /\ q.bound = rec.bound
            /\ q.writer = rec.writer
        BY <2>4, <3>1, RecordEdits DEF JobStates, TerminalStates
      <3>3. owner' = owner \/ (r.writer /\ owner.unit = r.unit)
        BY <2>5, ReleaseOnly DEF Released
      <3>4. /\ job' = [job EXCEPT ![j] = q] /\ turn[b] = "ended"
            /\ \A d \in Callers : Stays(d) \/ Retakes(d)
        BY <1>1, <1>4, <2>3, <2>5, <3>1, ReturnsBare
      <3> QED
        BY ZenonT(60), <1>1, <1>2, <1>3, <1>4, <2>1, <2>2, <2>4, <3>2, <3>3, <3>4, FoundOwn
    <2>6. CASE ReadAgain(c, rec) /\ owner' = owner
      <3>1. /\ \A d \in Callers : Stays(d) \/ Retakes(d)
            /\ \E q \in Job : /\ job' = [job EXCEPT ![j] = q]
                              /\ q.unit = rec.unit /\ q.writer = rec.writer /\ q.bound = rec.bound
                              /\ q.state = rec.state \/ q.state = "recovery_required"
        BY <1>1, <1>2, <1>3, <2>4, <2>6, ReadsAgainOwn
      <3>2. PICK q \in Job :
               /\ job' = [job EXCEPT ![j] = q]
               /\ q.unit = o.unit /\ q.writer = o.writer /\ q.bound = rec.bound
               /\ q.state = o.state \/ q.state \notin TerminalStates
        BY <2>4, <3>1 DEF TerminalStates
      <3>3. /\ cache' = CacheCandidate(r, b) /\ q.bound = BindCandidate(job[j], r, b).bound
            /\ q.unit = job[j].unit /\ q.writer = job[j].writer
            /\ r = call[c].snap[j] /\ r # Absent
            /\ q.state = job[j].state \/ q.state \notin TerminalStates
            /\ owner'.unit = owner.unit
        BY <1>2, <1>3, <2>1, <2>2, <2>6, <3>2
      <3>4. UNCHANGED <<turn, noted, home>> /\ job' = [job EXCEPT ![j] = q]
        BY <1>1, <3>2
      <3>5. \A d \in Callers : Stays(d) \/ Retakes(d)
        BY <3>1
      <3> QED
        BY ZenonT(60), <1>4, <3>3, <3>4, <3>5, FoundOwn
    <2> QED
      BY <2>1, <2>2, <2>5, <2>6
  <1> QED
    <2>1. \/ Candidates(r, v) = {} /\ ReadAgain(c, job[j]) /\ UNCHANGED <<owner, cache>>
          \/ \E b \in Candidates(r, v) :
               /\ cache' = CacheCandidate(r, b)
               /\ \/ /\ v[b] = "ended"
                     /\ job' = [job EXCEPT ![j] = [BindCandidate(o, r, b) EXCEPT !.state = "ended"]]
                     /\ owner' = Released(r) /\ Return(c)
                  \/ ReadAgain(c, BindCandidate(o, r, b)) /\ owner' = owner
      BY <1>3 DEF BoundedRead
    <2> QED
      BY <1>5, <1>6, <2>1

\* A writer's record is over before its turn was: only when the turn of its unit never ran.
LEMMA TerminalizeOwn ==
  ASSUME ExecutorInv, ExecutorInv', OwnInv, NEW c \in Callers, NEW j \in Jobs,
         NEW r \in Job, r = call[c].snap[j], r # Absent, r.writer, turn[r.unit] = "none",
         Terminalize(j, r), UNCHANGED <<turn, noted, home, cache>>,
         \A d \in Callers : Stays(d) \/ Retakes(d)
  PROVE  OwnInv'
  <1>0. TypeOK /\ RecordFits(r, j)
    BY DEF ExecutorInv, SnapshotFits
  <1>1. /\ Here(job[j]) /\ job[j].writer /\ r.unit # NoUnit /\ home[r.unit] = j
        /\ r.unit = job[j].unit
    BY <1>0 DEF RecordFits, OwnInv, OwnSnapshot
  <1>2. PICK o \in Job : o = job[j]
    BY <1>0 DEF TypeOK
  <1>3. CASE SetState(j, "recovery_required") /\ owner' = owner
    <2>1. "recovery_required" \in JobStates \ TerminalStates
      BY DEF JobStates, RiskStates, TerminalStates
    <2>2. \A k \in Jobs : SameBindings(k)
      BY <1>0, <1>1, <1>3, <2>1, StateSame
    <2> QED
      BY <1>3, <2>2, ServerIdle, OwnSame
  <1>4. CASE SetState(j, "pre_turn") /\ owner' = ReleasedBy(owner, "codex", r.unit)
    <2>1. PICK q : q = [o EXCEPT !.state = "pre_turn"]
      OBVIOUS
    <2>2. /\ q.state = "pre_turn" /\ q.unit = o.unit /\ q.bound = o.bound
          /\ q.writer = o.writer
      BY <2>1, RecordEdits DEF JobStates, TerminalStates
    <2>3. job' = [job EXCEPT ![j] = q]
      BY <1>2, <1>4, <2>1 DEF SetState
    <2>4. job'[j] = q /\ \A k \in Jobs : k # j => job'[k] = job[k]
      BY <1>0, <2>3 DEF TypeOK
    <2>5. owner' = owner \/ owner.unit = r.unit
      BY <1>4, ReleaseOnly
    <2>6. OwnStep(j)
      BY <1>1, <1>2, <2>2, <2>4, <2>5 DEF OwnStep
    <2>7. ASSUME NEW k \in Jobs, k # j PROVE OwnStep(k)
      <3> SUFFICES ASSUME Here(job'[k]), job'[k].writer PROVE OwnStep(k)
        BY DEF OwnStep
      <3>1. job'[k] = job[k] /\ Here(job[k])
        BY <2>4, <2>7
      <3>2. home[job[k].unit] = k
        BY <3>1 DEF ExecutorInv, JobFits, RecordFits
      <3>3. owner.unit = job[k].unit => owner' = owner
        BY <1>1, <2>5, <2>7, <3>2
      <3> QED
        BY <3>1, <3>3 DEF OwnStep
    <2> QED
      BY <2>6, <2>7, ServerIdle, OwnCalm
  <1> QED
    BY <1>3, <1>4 DEF Terminalize

\* What was observed is applied to the record and to the owner.
LEMMA ApplyObservationOwn ==
  ASSUME ExecutorInv, ExecutorInv', OwnInv, NEW c \in Callers, ApplyObservation(c) PROVE OwnInv'
  <1>1. /\ TypeOK /\ call[c].pc = "apply" /\ call[c].snap \in [Jobs -> Job]
        /\ call[c].view \in [Units -> TurnStates] /\ CallFits(c) /\ ViewFits(c)
        /\ call[c].op \in {"reconcile", "preflight"} /\ UNCHANGED <<turn, noted, home>>
    BY DEF ExecutorInv, ApplyObservation, At, TypeOK, Call, CallFits, server
  <1>2. /\ call[c].job \in Jobs /\ Here(job[call[c].job]) /\ call[c].snap[call[c].job] # Absent
    BY <1>1, JobOfCall DEF CallFits
  <1>3. PICK j \in Jobs, r \in Job, v \in [Units -> TurnStates], o \in Job :
           j = call[c].job /\ r = call[c].snap[j] /\ v = call[c].view /\ o = job[j]
    BY <1>1, <1>2 DEF TypeOK
  <1>4. Viewed(v, j) /\ \A u \in Units : v[u] = "ended" => turn[u] = "ended"
    BY <1>1, <1>3 DEF ViewFits, Viewed
  <1>5. \A d \in Callers : Stays(d) \/ Retakes(d)
    BY <1>1, ObservationEndsOwn DEF ApplyObservation
  <1>6. /\ Here(job[j]) /\ r = call[c].snap[j] /\ r # Absent
    BY <1>2, <1>3
  <1>7. CASE v = NoView /\ PreTurn(r, j) /\ Terminalize(j, r) /\ cache' = cache
    <2>1. RecordFits(r, j)
      BY <1>6 DEF ExecutorInv, SnapshotFits
    <2>2. r.unit \in Units /\ home[r.unit] = j
      BY <2>1 DEF RecordFits, Job
    <2>3. turn[r.unit] = "none" /\ r.writer
      BY <1>4, <1>7, <2>2 DEF NoView, Viewed, PreTurn
    <2> QED
      BY <1>1, <1>5, <1>6, <1>7, <2>3, TerminalizeOwn
  <1>8. CASE SetState(j, "recovery_required") /\ UNCHANGED <<owner, cache>>
    <2>1. "recovery_required" \in JobStates \ TerminalStates
      BY DEF JobStates, RiskStates, TerminalStates
    <2>2. \A k \in Jobs : SameBindings(k)
      BY <1>1, <1>6, <1>8, <2>1, StateSame
    <2> QED
      BY <1>1, <1>5, <1>8, <2>2, ServerIdle, OwnSame
  <1>9. CASE \E b \in Candidates(r, v) : Reconciled(call[c].op, j, r, b, v[b])
    <2>1. PICK b \in Candidates(r, v) : Reconciled(call[c].op, j, r, b, v[b])
      BY <1>9
    <2>2. b \in Units /\ Here(o)
      BY <1>3, <1>6 DEF Candidates, BoundTurns, Here
    <2>3. PICK rec : rec = BindCandidate(o, r, b)
      OBVIOUS
    <2>4. rec \in Job /\ rec.unit = o.unit /\ rec.writer = o.writer
      <3>1. rec \in Job /\ SameUse(o, rec)
        BY <2>2, <2>3, CandidateRecord
      <3> QED
        BY <3>1 DEF SameUse
    <2>5. /\ cache' = CacheCandidate(r, b)
          /\ owner' = owner \/ owner.unit = NoUnit \/ (r.writer /\ owner.unit = r.unit)
      <3>1. \/ owner' = owner
            \/ owner' = Released(r)
            \/ r.writer /\ ~ForeignOwner(r) /\ owner' = Acquired("codex", r.unit)
        BY <1>1, <2>1 DEF Reconciled
      <3>2. Released(r) = owner \/ (r.writer /\ owner.unit = r.unit)
        BY ReleaseOnly DEF Released
      <3>3. ~ForeignOwner(r) => owner.unit = NoUnit \/ owner.unit = r.unit
        BY <1>1 DEF ForeignOwner, TypeOK
      <3>4. cache' = CacheCandidate(r, b)
        BY <2>1 DEF Reconciled
      <3> QED
        BY <3>1, <3>2, <3>3, <3>4
    <2>6. PICK st \in {"recovery_required", "ended", "running"} :
             /\ job' = [job EXCEPT ![j] = [rec EXCEPT !.state = st]]
             /\ st = "ended" => turn[b] = "ended"
      BY <1>3, <1>4, <2>1, <2>2, <2>3 DEF Reconciled
    <2>7. PICK q : q = [rec EXCEPT !.state = st]
      OBVIOUS
    <2>8. /\ q \in Job /\ q.state = st /\ q.unit = rec.unit /\ q.bound = rec.bound
          /\ q.writer = rec.writer
      BY <2>4, <2>7, RecordEdits DEF JobStates, RiskStates, RecoveryStates, TerminalStates
    <2>9. /\ q.bound = BindCandidate(job[j], r, b).bound
          /\ q.unit = job[j].unit /\ q.writer = job[j].writer
          /\ \/ q.state = job[j].state \/ q.state \notin TerminalStates
             \/ q.state = "ended" /\ turn[b] = "ended"
      BY <1>3, <2>3, <2>4, <2>6, <2>8 DEF TerminalStates
    <2>10. UNCHANGED <<turn, noted, home>> /\ job' = [job EXCEPT ![j] = q]
      BY <1>1, <2>6, <2>7
    <2>11. owner'.unit = owner.unit \/ owner.unit = NoUnit \/ (r.writer /\ owner.unit = r.unit)
      BY <2>5
    <2>12. q \in Job /\ cache' = CacheCandidate(r, b)
      BY <2>5, <2>8
    <2>13. Viewed(v, j) /\ r = call[c].snap[j] /\ r # Absent
      BY <1>4, <1>6
    <2> QED
      BY ZenonT(60), <1>5, <2>9, <2>10, <2>11, <2>12, <2>13, FoundOwn
  <1> QED
    <2>1. \/ v = NoView /\ PreTurn(r, j) /\ Terminalize(j, r) /\ cache' = cache
          \/ SetState(j, "recovery_required") /\ UNCHANGED <<owner, cache>>
          \/ \E b \in Candidates(r, v) : Reconciled(call[c].op, j, r, b, v[b])
      BY <1>3 DEF ApplyObservation
    <2> QED
      BY <1>7, <1>8, <1>9, <2>1

\* One turn is bound to its own unit, or stays as it is bound, in the record of its job.
LEMMA BoundOwn ==
  ASSUME ExecutorInv, ExecutorInv', OwnInv, TurnsCalm, NEW u \in Units, NEW j \in Jobs,
         home[u] = j, Ran(u), Here(job[j]),
         \A k \in Jobs : k # j => job'[k] = job[k],
         job'[j].unit = job[j].unit, job'[j].writer = job[j].writer,
         job[j].writer => job'[j].bound[u] = u,
         \A x \in Units : x # u => job'[j].bound[x] = job[j].bound[x] /\ cache'[x] = cache[x],
         job[j].writer => cache'[u] \in {cache[u], u},
         job[j].writer /\ job'[j].state = "ended" => u = job[j].unit /\ turn[u] = "ended",
         job'[j].state # "pre_turn",
         owner'.unit = owner.unit \/ owner.unit = NoUnit \/ (job[j].writer /\ owner.unit = u),
         \A d \in Callers : Stays(d) \/ Retakes(d)
  PROVE  OwnInv'
  <1>1. ASSUME NEW k \in Jobs, k # j PROVE OwnStep(k)
    <2> SUFFICES ASSUME Here(job'[k]), job'[k].writer PROVE OwnStep(k)
      BY DEF OwnStep
    <2>1. job'[k] = job[k] /\ Here(job[k])
      BY <1>1
    <2>2. home[job[k].unit] = k /\ job[k].unit # NoUnit
      BY <2>1 DEF ExecutorInv, JobFits, RecordFits
    <2>3. owner.unit = job[k].unit => owner'.unit = owner.unit
      BY <1>1, <2>2
    <2>4. \A x \in Units : home[x] = k => cache'[x] = cache[x]
      BY <1>1
    <2> QED
      BY <2>1, <2>3, <2>4 DEF OwnStep
  <1>2. OwnStep(j)
    <2> SUFFICES ASSUME Here(job'[j]), job'[j].writer PROVE OwnStep(j)
      BY DEF OwnStep
    <2>1. OwnRecord(j) /\ job[j].writer
      BY DEF OwnInv
    <2>2. job'[j].bound[u] = job[j].bound[u] \/ (u = job[j].unit /\ job'[j].bound[u] = u)
      <3>1. CASE job[j].bound[u] = NoUnit
        BY <2>1, <3>1 DEF OwnRecord
      <3>2. CASE job[j].bound[u] # NoUnit
        BY <2>1, <3>2 DEF OwnRecord
      <3> QED
        BY <3>1, <3>2
    <2>3. /\ job'[j].state = "ended" => turn'[job[j].unit] = "ended"
          /\ job'[j].state # "pre_turn"
      BY <2>1 DEF TurnsCalm
    <2>4. owner.unit = job[j].unit => owner'.unit = owner.unit \/ job'[j].bound[owner.unit] = owner.unit
      <3>1. job[j].unit # NoUnit
        BY DEF ExecutorInv, JobFits, RecordFits
      <3> QED
        BY <2>1, <3>1
    <2>5. \A x \in Units : cache'[x] = cache[x] \/ (cache'[x] = x /\ job'[j].bound[x] = x)
      BY <2>1
    <2> QED
      BY <2>1, <2>2, <2>3, <2>4, <2>5 DEF OwnStep
  <1> QED
    BY <1>1, <1>2, OwnCalm

\* turn/start is answered.
LEMMA TurnBoundOwn ==
  ASSUME ExecutorInv, ExecutorInv', OwnInv, NEW c \in Callers, TurnBound(c) PROVE OwnInv'
  <1>1. /\ TypeOK /\ call[c].pc = "turn" /\ job \in [Jobs -> Job]
        /\ call[c].job \in Jobs /\ Here(job[call[c].job]) /\ call[c].unit \in Units
        /\ home[call[c].unit] = call[c].job
    BY JobOfCall DEF ExecutorInv, TurnBound, At, TypeOK, Call, CallFits
  <1>2. PICK j \in Jobs, u \in Units : j = call[c].job /\ u = call[c].unit
    BY <1>1
  <1>3. Here(job[j]) /\ home[u] = j /\ Ran(u)
    BY <1>1, <1>2 DEF TurnBound, Ran, Here
  <1>4. job' = WithTurn(job, j, u, u, "running")
    BY <1>2 DEF TurnBound, WithTurn
  <1>5. /\ \A k \in Jobs : k # j => job'[k] = job[k]
        /\ job'[j].state = "running" /\ job'[j].unit = job[j].unit
        /\ job'[j].writer = job[j].writer /\ job'[j].bound[u] = u
        /\ \A x \in Units : x # u => job'[j].bound[x] = job[j].bound[x]
    <2>1. "running" \in JobStates \ {"absent"}
      BY DEF JobStates, RiskStates, RecoveryStates
    <2> QED
      BY <1>1, <1>4, <2>1, TurnRecord
  <1>6. cache'[u] = u /\ \A x \in Units : x # u => cache'[x] = cache[x]
    BY <1>1, <1>2 DEF TurnBound, TypeOK
  <1>7. UNCHANGED <<turn, noted, home, owner>> /\ \A d \in Callers : Stays(d) \/ Retakes(d)
    BY <1>1, ReturnsBare DEF TurnBound, server
  <1>8. TurnsCalm
    <2>1. \A x \in Units : cache[x] # NoUnit => cache'[x] # NoUnit
      BY <1>6, UnitAssumption
    <2> QED
      BY <1>7, <2>1, ServerIdle
  <1> QED
    BY <1>3, <1>5, <1>6, <1>7, <1>8, BoundOwn

\* A notification is handled.
LEMMA NotifyOwn ==
  ASSUME ExecutorInv, ExecutorInv', OwnInv, NEW u \in Units, NEW started \in BOOLEAN, Ran(u),
         started => noted[u] = 0 /\ noted' = [noted EXCEPT ![u] = 1],
         ~started => turn[u] = "ended" /\ noted' = [noted EXCEPT ![u] = 2],
         HandleTurn(u, started), UNCHANGED <<turn, home, call>>
  PROVE  OwnInv'
  <1>0. /\ TypeOK /\ OwnerTyped(owner) /\ job \in [Jobs -> Job]
        /\ \A c \in Callers : Stays(c)
    BY DEF ExecutorInv, TypeOK, OwnerTyped, OwnerRecord, Stays
  <1>1. PICK j \in Jobs : j = home[u]
    BY <1>0 DEF ExecutorInv, UnitFits, Ran, TypeOK
  <1>2. Here(job[j]) /\ job[j] \in Job
    BY <1>0, <1>1 DEF ExecutorInv, JobFits
  <1>3. \A x \in Units : noted[x] # 0 => noted'[x] # 0
    BY <1>0 DEF TypeOK
  <1>4. CASE UNCHANGED <<job, owner, cache>>
    <2>1. TurnsCalm /\ \A k \in Jobs : SameBindings(k)
      BY <1>3, <1>4 DEF TurnsCalm, Ran, Seen, Live, SameBindings
    <2> QED
      BY <1>0, <1>4, <2>1, OwnSame
  <1> DEFINE unit == NotifiedUnit(j, u, started)
             binds == job[j].bound[u] = NoUnit /\ cache[u] = NoUnit /\ started
  <1>5. CASE /\ unit # NoUnit /\ unit = job[j].unit
             /\ job' = [job EXCEPT ![j].turn = u, ![j].phase = "turn_bound",
                                   ![j].state = IF started THEN "inProgress" ELSE "ended",
                                   ![j].bound[u] = IF binds THEN unit ELSE @]
             /\ cache' = [cache EXCEPT ![u] = IF binds THEN unit ELSE @]
             /\ owner' = IF ~job[j].writer THEN owner
                         ELSE IF ~started THEN ReleasedBy(owner, "codex", unit)
                         ELSE IF owner.who = "none" THEN Acquired("codex", unit)
                         ELSE IF owner.who = "codex" THEN Marked(owner, "running")
                         ELSE owner
    <2>1. PICK w \in Units : w = unit
      BY <1>2, <1>5 DEF Job
    <2>2. ASSUME job[j].writer PROVE w = u /\ (~binds => job[j].bound[u] = u)
      <3>1. OwnRecord(j) /\ home[u] = j
        BY <1>1 DEF OwnInv
      <3>2. job[j].bound[u] \in {NoUnit, u} /\ (cache[u] # NoUnit => job[j].bound[u] = u)
        BY <1>2, <2>2, <3>1 DEF OwnRecord
      <3>3. CASE job[j].bound[u] = NoUnit
        <4>1. w = u
          BY <1>1, <2>1, <2>2, <3>2, <3>3, NotifiedOwn, UnitAssumption
        <4>2. started
          BY <1>5, <3>2, <3>3, UnitAssumption DEF NotifiedUnit
        <4> QED
          BY <3>2, <3>3, <4>1, <4>2, UnitAssumption
      <3>4. CASE job[j].bound[u] # NoUnit
        BY <2>1, <3>2, <3>4 DEF NotifiedUnit
      <3> QED
        BY <3>3, <3>4
    <2>3. job[j].unit = w
      BY <1>5, <2>1
    <2> HIDE DEF unit
    <2>4. PICK x \in Units \cup {NoUnit} : x = IF binds THEN w ELSE job[j].bound[u]
      BY <1>2 DEF Job
    <2>5. PICK st \in JobStates \ {"absent"} : st = IF started THEN "inProgress" ELSE "ended"
      BY DEF JobStates, TerminalStates
    <2>6. job' = NotedTurn(job, j, u, x, st)
      <3>1. CASE binds
        BY <1>5, <2>1, <2>4, <2>5, <3>1 DEF NotedTurn
      <3>2. CASE ~binds
        BY <1>5, <2>4, <2>5, <3>2 DEF NotedTurn
      <3> QED
        BY <3>1, <3>2
    <2>7. Noted(job, job', j, u, x, st)
      BY <1>0, <2>6, NotedRecord
    <2>8. /\ cache'[u] = IF binds THEN w ELSE cache[u]
          /\ \A y \in Units : y # u => cache'[y] = cache[y]
      BY <1>0, <1>5, <2>1 DEF TypeOK
    <2>9. TurnsCalm
      <3>1. w # NoUnit
        BY UnitAssumption
      <3>2. \A y \in Units : cache[y] # NoUnit => cache'[y] # NoUnit
        BY <2>8, <3>1
      <3> QED
        BY <1>3, <3>2 DEF TurnsCalm, Ran, Seen, Live
    <2>10. owner'.unit = owner.unit \/ owner.unit = NoUnit \/ (job[j].writer /\ owner.unit = u)
      <3>1. CASE owner' = owner
        BY <3>1
      <3>2. CASE job[j].writer /\ owner' = ReleasedBy(owner, "codex", w)
        BY <2>2, <3>2, ReleaseOnly
      <3>3. CASE owner.who = "none"
        BY <1>0, <3>3 DEF OwnerTyped
      <3>4. CASE owner' = Marked(owner, "running")
        BY <1>0, <3>4, OwnerMoves DEF UnitStates
      <3> QED
        BY <1>5, <2>1, <3>1, <3>2, <3>3, <3>4
    <2> HIDE DEF binds
    <2>11. job[j].writer => x = u /\ cache'[u] \in {cache[u], u}
      BY <2>2, <2>4, <2>8
    <2>12. /\ \A k \in Jobs : k # j => job'[k] = job[k]
           /\ job'[j].unit = job[j].unit /\ job'[j].writer = job[j].writer
           /\ job[j].writer => job'[j].bound[u] = u
           /\ \A y \in Units : y # u => job'[j].bound[y] = job[j].bound[y] /\ cache'[y] = cache[y]
      BY <2>7, <2>8, <2>11 DEF Noted
    <2>13. /\ job[j].writer /\ job'[j].state = "ended" => u = job[j].unit /\ turn[u] = "ended"
           /\ job'[j].state # "pre_turn"
      BY <2>2, <2>3, <2>5, <2>7 DEF Noted
    <2> QED
      BY <1>0, <1>1, <1>2, <2>9, <2>10, <2>11, <2>12, <2>13, BoundOwn
  <1> QED
    BY <1>1, <1>4, <1>5 DEF HandleTurn

----------------------------------------------------------------------------
(* A unit minted or dispatched, by the only caller: nobody has a snapshot *)
\* No call has a snapshot while the only caller prepares a turn.
LEMMA SoleCaller ==
  ASSUME \A c, d \in Callers : c = d, OwnInv, NEW c \in Callers,
         call[c].pc \in {"idle", "thread", "settings"}
  PROVE  \A d \in Callers, k \in Jobs : call[d].snap[k] = Absent
  BY DEF OwnInv, OwnSnapshot

\* Job j gets a unit, or a turn: a writer's only when no unit has the workspace, so that
\* every turn of its earlier units that ran is bound.
LEMMA OwnMoves ==
  ASSUME ExecutorInv, OwnInv, NEW j \in Jobs, NEW w \in Units,
         UNCHANGED <<noted, cache>>, turn[w] = "none", turn'[w] \in {"none", "sent"},
         \A u \in Units : u # w => turn'[u] = turn[u] /\ home'[u] = home[u],
         home[w] \in {NoJob, j}, home'[w] = j,
         \A k \in Jobs : k # j => job'[k] = job[k],
         IF Here(job[j]) THEN job'[j].bound = job[j].bound /\ job'[j].writer = job[j].writer
         ELSE job'[j].bound = Unbound,
         \/ /\ Here(job[j]) /\ job'[j].unit = job[j].unit /\ turn' = turn /\ owner' = owner
            /\ job'[j].state = job[j].state \/ job'[j].state \notin TerminalStates
         \/ /\ job'[j].state \notin TerminalStates
            /\ owner' = owner \/ owner.unit = NoUnit
            /\ Here(job[j]) /\ job[j].writer => owner.unit = NoUnit,
         \A d \in Callers, k \in Jobs : call'[d].snap[k] = Absent
  PROVE  OwnInv'
  <1>0. TypeOK
    BY DEF ExecutorInv
  <1>1. \A d \in Callers : OwnSnapshot(d)'
    BY DEF OwnSnapshot
  <1>2. \A u \in Units : Ran(u)' => u # w /\ Ran(u)
    BY DEF Ran
  <1>3. home[w] = NoJob => cache[w] = NoUnit
    BY Unminted
  <1>4. ASSUME NEW k \in Jobs, k # j PROVE OwnRecord(k)'
    <2> SUFFICES ASSUME Here(job'[k]), job'[k].writer PROVE OwnRecord(k)'
      BY DEF OwnRecord, Here
    <2>1. job'[k] = job[k] /\ OwnRecord(k) /\ Here(job[k]) /\ job[k].writer
      BY <1>4 DEF OwnInv
    <2>2. job[k].unit \in Units /\ home[job[k].unit] = k
      BY <1>0, <2>1 DEF ExecutorInv, JobFits, RecordFits, TypeOK, Job
    <2>3. turn'[job[k].unit] = turn[job[k].unit]
      BY <1>4, <2>2, UnitAssumption
    <2>4. ASSUME NEW u \in Units, home'[u] = k
          PROVE  /\ cache'[u] # NoUnit => cache'[u] = u /\ job'[k].bound[u] = u
                 /\ Ran(u)' /\ job'[k].bound[u] = NoUnit => owner'.unit = u /\ job'[k].unit = u
      <3>1. u # w /\ home[u] = k
        BY <1>4, <2>4
      <3>2. cache'[u] # NoUnit => cache'[u] = u /\ job'[k].bound[u] = u
        BY <2>1, <3>1 DEF OwnRecord
      <3>3. ASSUME Ran(u)', job'[k].bound[u] = NoUnit PROVE owner'.unit = u /\ job'[k].unit = u
        <4>1. owner.unit = u /\ job[k].unit = u
          BY <1>2, <2>1, <3>1, <3>3 DEF OwnRecord
        <4> QED
          BY <2>1, <4>1, UnitAssumption
      <3> QED
        BY <3>2, <3>3
    <2> QED
      BY <2>1, <2>3, <2>4 DEF OwnRecord, Ran
  <1>5. OwnRecord(j)'
    <2> SUFFICES ASSUME Here(job'[j]), job'[j].writer PROVE OwnRecord(j)'
      BY DEF OwnRecord, Here
    <2>1. CASE ~Here(job[j])
      <3>1. job'[j].bound = Unbound /\ job'[j].state \notin TerminalStates
            /\ \A u \in Units : home[u] # j
        BY <2>1 DEF ExecutorInv, JobFits
      <3>2. home[w] = NoJob /\ cache'[w] = NoUnit /\ \A u \in Units : home'[u] = j => u = w
        BY <1>3, <3>1
      <3> QED
        BY <1>2, <3>1, <3>2 DEF OwnRecord, Ran, Unbound, TerminalStates
    <2>2. CASE Here(job[j])
      <3>1. OwnRecord(j) /\ job[j].writer /\ job'[j].bound = job[j].bound
        BY <2>2 DEF OwnInv
      <3>2. ASSUME NEW u \in Units, home'[u] = j
            PROVE  /\ cache'[u] # NoUnit => cache'[u] = u /\ job'[j].bound[u] = u
                   /\ Ran(u)' /\ job'[j].bound[u] = NoUnit => owner'.unit = u /\ job'[j].unit = u
        <4>1. cache'[u] # NoUnit => cache'[u] = u /\ job'[j].bound[u] = u
          BY <1>3, <2>2, <3>1, <3>2 DEF OwnRecord
        <4>2. ASSUME Ran(u)', job'[j].bound[u] = NoUnit PROVE owner'.unit = u /\ job'[j].unit = u
          <5>1. owner.unit = u /\ job[j].unit = u
            BY <1>2, <2>2, <3>1, <3>2, <4>2 DEF OwnRecord
          <5> QED
            BY <2>2, <3>1, <5>1, UnitAssumption
        <4> QED
          BY <4>1, <4>2
      <3>3. /\ job'[j].state = "ended" => turn'[job'[j].unit] = "ended"
            /\ job'[j].state = "pre_turn" => turn'[job'[j].unit] = "none"
        BY <2>2, <3>1 DEF OwnRecord, TerminalStates
      <3>4. \A b \in Units : job'[j].bound[b] \in {NoUnit, b}
        BY <2>2, <3>1 DEF OwnRecord
      <3> QED
        BY <3>2, <3>3, <3>4 DEF OwnRecord, Ran
    <2> QED
      BY <2>1, <2>2
  <1> QED
    BY <1>1, <1>4, <1>5 DEF OwnInv

\* A dispatch.
LEMMA DispatchOwn ==
  ASSUME \A c, d \in Callers : c = d, ExecutorInv, OwnInv,
         NEW c \in Callers, NEW j \in Jobs, NEW w \in Units, NEW rec \in Job,
         Dispatch(c, j, w, rec), MayWrite(rec, w), Here(job[j]),
         rec.bound = job[j].bound, rec.writer = job[j].writer, turn[w] = "none",
         call[c].pc \in {"idle", "settings"},
         \/ home[w] = NoJob /\ home' = [home EXCEPT ![w] = j]
         \/ home[w] = j /\ call[c].pc = "settings" /\ call[c].unit = w /\ home' = home,
         UNCHANGED <<noted, cache>>
  PROVE  OwnInv'
  <1>0. TypeOK /\ call[c] \in Call /\ up \in BOOLEAN
    BY DEF ExecutorInv, TypeOK
  <1>1. PICK q : /\ job' = [job EXCEPT ![j] = q] /\ q.unit = w /\ q.state = "starting"
                 /\ q.bound = job[j].bound /\ q.writer = job[j].writer
    <2>1. PICK ph \in Phases :
             ph = IF rec.writer THEN "writer_reserved" ELSE "permission_verified"
      BY DEF Phases
    <2>2. PICK q : q = [rec EXCEPT !.unit = w, !.state = "starting", !.phase = ph]
      OBVIOUS
    <2>3. job' = [job EXCEPT ![j] = q]
      BY <2>1, <2>2 DEF Dispatch
    <2>4. /\ q.unit = w /\ q.state = "starting" /\ q.bound = rec.bound
          /\ q.writer = rec.writer
      BY <2>2 DEF Job
    <2> QED
      BY <2>3, <2>4
  <1>2. job'[j] = q /\ \A k \in Jobs : k # j => job'[k] = job[k]
    BY <1>0, <1>1 DEF TypeOK
  <1>3. call'[c].snap = call[c].snap
    <2>1. PICK v \in BOOLEAN : v = ~up
      OBVIOUS
    <2>2. PICK r : r = [call[c] EXCEPT !.pc = "turn", !.job = j, !.unit = w, !.lost = v]
      OBVIOUS
    <2>3. r.snap = call[c].snap
      BY <1>0, <2>2 DEF Call
    <2>4. call' = [call EXCEPT ![c] = r]
      BY <2>1, <2>2 DEF Dispatch, Begin
    <2> QED
      BY <1>0, <2>3, <2>4 DEF TypeOK
  <1>4. \A d \in Callers, k \in Jobs : call'[d].snap[k] = Absent
    BY <1>3, SoleCaller
  <1>5. /\ turn'[w] \in {"none", "sent"}
        /\ \A u \in Units : u # w => turn'[u] = turn[u] /\ home'[u] = home[u]
        /\ home[w] \in {NoJob, j} /\ home'[w] = j
    BY <1>0 DEF Dispatch, TypeOK
  <1>6. /\ owner' = owner \/ owner.unit = NoUnit
        /\ job[j].writer => owner.unit = NoUnit
    <2>1. CASE rec.writer
      <3>1. Pending(w) \/ home[w] = NoJob
        BY DEF Pending
      <3> QED
        BY <2>1, <3>1, FreeToTake DEF MayWrite
    <2>2. CASE ~rec.writer
      BY <2>2 DEF Dispatch
    <2> QED
      BY <2>1, <2>2
  <1>7. job'[j].bound = job[j].bound /\ job'[j].writer = job[j].writer
        /\ job'[j].state \notin TerminalStates
    BY <1>1, <1>2 DEF TerminalStates
  <1>8. UNCHANGED <<noted, cache>>
    OBVIOUS
  <1> QED
    BY <1>2, <1>4, <1>5, <1>6, <1>7, <1>8, OwnMoves

\* thread/start is answered.
LEMMA ThreadStartedOwn ==
  ASSUME \A c, d \in Callers : c = d, ExecutorInv, OwnInv, NEW c \in Callers, ThreadStarted(c)
  PROVE  OwnInv'
  <1>0. TypeOK /\ call[c].pc = "thread" /\ call[c] \in Call /\ CallFits(c)
    BY DEF ExecutorInv, ThreadStarted, At, TypeOK
  <1>1. PICK j \in Jobs, w \in Units : j = call[c].job /\ w = call[c].unit
    BY <1>0 DEF CallFits, Call
  <1>2. Here(job[j]) /\ home[w] = j /\ turn[w] = "none"
    BY <1>0, <1>1, JobOfCall DEF CallFits
  <1>3. /\ \A k \in Jobs : k # j => job'[k] = job[k]
        /\ job'[j].state = "thread_ready" /\ job'[j].unit = job[j].unit
        /\ job'[j].writer = job[j].writer /\ job'[j].bound = job[j].bound
    <2>1. job' = WithThread(job, j) /\ job \in [Jobs -> Job]
      BY <1>0, <1>1 DEF ThreadStarted, TypeOK, WithThread
    <2> QED
      BY <2>1, ThreadRecord
  <1>4. call'[c].snap = call[c].snap
    <2>1. PICK r : r = [call[c] EXCEPT !.pc = "settings"]
      OBVIOUS
    <2>2. r.snap = call[c].snap
      BY <1>0, <2>1 DEF Call
    <2> QED
      BY <1>0, <2>1, <2>2 DEF ThreadStarted, Begin, TypeOK
  <1>5. \A d \in Callers, k \in Jobs : call'[d].snap[k] = Absent
    BY <1>0, <1>4, SoleCaller
  <1>6. UNCHANGED <<noted, cache>> /\ turn' = turn /\ home' = home /\ owner' = owner
    BY DEF ThreadStarted, server
  <1>7. job'[j].state \notin TerminalStates
    BY <1>3 DEF TerminalStates
  <1> QED
    BY <1>2, <1>3, <1>5, <1>6, <1>7, OwnMoves

\* The effective permissions are verified: the turn is dispatched, or the job refused.
LEMMA SettingsVerifiedOwn ==
  ASSUME \A c, d \in Callers : c = d, ExecutorInv, OwnInv, NEW c \in Callers, SettingsVerified(c)
  PROVE  OwnInv'
  <1>0. TypeOK /\ call[c].pc = "settings" /\ call[c] \in Call /\ CallFits(c)
    BY DEF ExecutorInv, SettingsVerified, At, TypeOK
  <1>1. PICK j \in Jobs, w \in Units : j = call[c].job /\ w = call[c].unit
    BY <1>0 DEF CallFits, Call
  <1>2. Here(job[j]) /\ job[j] \in Job /\ home[w] = j /\ turn[w] = "none"
    BY <1>0, <1>1, JobOfCall DEF CallFits, TypeOK
  <1> DEFINE Rec == [job[j] EXCEPT !.verified = TRUE,
                        !.phase = IF call[c].op = "start" THEN "permission_verified" ELSE @]
  <1>3. PICK rec \in Job : /\ rec = Rec /\ rec.unit = job[j].unit /\ rec.bound = job[j].bound
                           /\ rec.writer = job[j].writer /\ rec.state = job[j].state
    <2>1. PICK ph \in Phases :
             ph = IF call[c].op = "start" THEN "permission_verified" ELSE job[j].phase
      BY <1>2 DEF Job, Phases
    <2>2. PICK q : q = [job[j] EXCEPT !.verified = TRUE, !.phase = ph]
      OBVIOUS
    <2>3. q = Rec
      BY <2>1, <2>2
    <2>4. /\ q \in Job /\ q.unit = job[j].unit /\ q.state = job[j].state
          /\ q.bound = job[j].bound /\ q.writer = job[j].writer
      BY <1>2, <2>2 DEF Job
    <2> QED
      BY <2>3, <2>4
  <1> HIDE DEF Rec
  <1>4. UNCHANGED <<noted, cache>> /\ home' = home
    BY DEF SettingsVerified
  <1>5. CASE MayWrite(rec, w) /\ Dispatch(c, j, w, rec)
    BY <1>0, <1>1, <1>2, <1>3, <1>4, <1>5, DispatchOwn
  <1>6. CASE /\ job' = [job EXCEPT ![j] = IF call[c].op = "start"
                                          THEN [rec EXCEPT !.state = "recovery_required"]
                                          ELSE rec]
             /\ Return(c) /\ UNCHANGED <<turn, owner>>
    <2>1. PICK q : /\ job' = [job EXCEPT ![j] = q] /\ q.unit = job[j].unit
                   /\ q.bound = job[j].bound /\ q.writer = job[j].writer
                   /\ q.state \in {job[j].state, "recovery_required"}
      <3>1. CASE call[c].op = "start"
        <4>1. PICK q : q = [rec EXCEPT !.state = "recovery_required"]
          OBVIOUS
        <4>2. "recovery_required" \in JobStates
          BY DEF JobStates, RiskStates
        <4>3. /\ q.state = "recovery_required" /\ q.unit = rec.unit
              /\ q.bound = rec.bound /\ q.writer = rec.writer
          BY <4>1, <4>2, RecordEdits
        <4>4. job' = [job EXCEPT ![j] = q]
          BY <1>6, <3>1, <4>1
        <4> QED
          BY <1>3, <4>3, <4>4
      <3>2. CASE call[c].op # "start"
        BY <1>3, <1>6, <3>2
      <3> QED
        BY <3>1, <3>2
    <2>2. job'[j] = q /\ \A k \in Jobs : k # j => job'[k] = job[k]
      BY <1>0, <2>1 DEF TypeOK
    <2>3. call'[c] = Idle
      BY <1>0, <1>6 DEF Return, TypeOK
    <2>4. \A d \in Callers, k \in Jobs : call'[d].snap[k] = Absent
      BY <2>3, IdleCall
    <2>5. job'[j].state = job[j].state \/ job'[j].state \notin TerminalStates
      BY <2>1, <2>2 DEF TerminalStates
    <2>6. turn' = turn /\ owner' = owner
      BY <1>6
    <2> QED
      BY <1>2, <1>4, <2>1, <2>2, <2>4, <2>5, <2>6, OwnMoves
  <1> QED
    BY <1>1, <1>3, <1>5, <1>6 DEF SettingsVerified, Rec

\* continue: the turn is dispatched at once, or the settings are asked for again.
LEMMA ContinueOwn ==
  ASSUME \A c, d \in Callers : c = d, ExecutorInv, OwnInv,
         NEW c \in Callers, NEW j \in Jobs, NEW w \in Units, Continue(c, j, w)
  PROVE  OwnInv'
  <1>0. TypeOK /\ call[c].pc = "idle" /\ home[w] = NoJob /\ turn[w] = "none" /\ job[j] \in Job
    BY Unminted DEF ExecutorInv, Continue, At, TypeOK
  <1>1. Here(job[j])
    BY IdleCall DEF Continue, ExecutorInv, JobFits
  <1>2. UNCHANGED <<noted, cache>> /\ home' = [home EXCEPT ![w] = j]
    BY DEF Continue
  <1>3. CASE MayWrite(job[j], w) /\ Dispatch(c, j, w, job[j])
    BY ZenonT(60), <1>0, <1>1, <1>2, <1>3, DispatchOwn
  <1>4. CASE /\ AwaitSettings(c, j, [Idle EXCEPT !.pc = "settings", !.op = "continue",
                                                 !.job = j, !.unit = w, !.lost = ~up])
             /\ UNCHANGED <<turn, job, owner>>
    <2>1. call'[c].snap = Idle.snap
      <3>1. PICK v : v = ~up
        OBVIOUS
      <3>2. PICK r : r = [Idle EXCEPT !.pc = "settings", !.op = "continue", !.job = j,
                                      !.unit = w, !.lost = v]
        OBVIOUS
      <3>3. AwaitSettings(c, j, r)
        BY <1>4, <3>1, <3>2
      <3>4. r.snap = Idle.snap
        BY <3>2, IdleCall DEF Call
      <3> QED
        BY <3>3, <3>4 DEF AwaitSettings
    <2>2. \A d \in Callers, k \in Jobs : call'[d].snap[k] = Absent
      BY <2>1, IdleCall
    <2>3. /\ \A u \in Units : u # w => turn'[u] = turn[u] /\ home'[u] = home[u]
          /\ turn'[w] = "none" /\ home'[w] = j
      BY <1>0, <1>2, <1>4 DEF TypeOK
    <2>4. turn' = turn /\ owner' = owner /\ job' = job
      BY <1>4
    <2> QED
      BY <1>0, <1>1, <1>2, <2>2, <2>3, <2>4, OwnMoves
  <1> QED
    BY <1>3, <1>4 DEF Continue

\* start: the job and its first unit are recorded.
LEMMA StartOwn ==
  ASSUME \A c, d \in Callers : c = d, ExecutorInv, OwnInv, NEW c \in Callers, NEW j \in Jobs,
         NEW w \in Units, NEW writer \in BOOLEAN, Start(c, j, w, writer)
  PROVE  OwnInv'
  <1>0. TypeOK /\ home[w] = NoJob /\ turn[w] = "none"
    BY Unminted DEF ExecutorInv, Start
  <1>1. ~Here(job[j])
    BY DEF Start, Here
  <1>2. PICK q : job' = [job EXCEPT ![j] = q] /\ q.state = "created" /\ q.bound = Unbound
    <2>1. PICK q : q = [Absent EXCEPT !.state = "created", !.unit = w, !.writer = writer]
      OBVIOUS
    <2>2. q.state = "created" /\ q.bound = Unbound
      BY <2>1 DEF Absent
    <2> QED
      BY <2>1, <2>2 DEF Start
  <1>3. job'[j] = q /\ \A k \in Jobs : k # j => job'[k] = job[k]
    BY <1>0, <1>2 DEF TypeOK
  <1>4. call'[c].snap = Idle.snap
    <2>1. PICK r : r = [Idle EXCEPT !.pc = "thread", !.op = "start", !.job = j, !.unit = w]
      OBVIOUS
    <2>2. r.snap = Idle.snap
      BY <2>1, IdleCall DEF Call
    <2> QED
      BY <1>0, <2>1, <2>2 DEF Start, Begin, TypeOK
  <1>5. \A d \in Callers, k \in Jobs : call'[d].snap[k] = Absent
    BY <1>4, IdleCall
  <1>6. home'[w] = j /\ \A u \in Units : u # w => home'[u] = home[u]
    BY <1>0 DEF Start, TypeOK
  <1>7. UNCHANGED <<noted, cache>> /\ turn' = turn /\ owner' = owner
    BY DEF Start, server
  <1>8. job'[j].state \notin TerminalStates
    BY <1>2, <1>3 DEF TerminalStates
  <1> QED
    BY <1>0, <1>1, <1>2, <1>3, <1>5, <1>6, <1>7, <1>8, OwnMoves

----------------------------------------------------------------------------
(* What is recorded of a turn, with one caller and no runtime death *)
\* It holds at first.
LEMMA OwnInit == Init => OwnInv
  BY IdleCall DEF Init, OwnInv, OwnRecord, OwnSnapshot, Here

\* Every step keeps it.
LEMMA OwnNext ==
  ASSUME \A c, d \in Callers : c = d, MaxCrashes = 0
  PROVE  ExecutorInv /\ ExecutorInv' /\ OwnInv /\ [Next]_xvars => OwnInv'
  <1> SUFFICES ASSUME ExecutorInv, ExecutorInv', OwnInv, [Next]_xvars PROVE OwnInv'
    OBVIOUS
  <1>1. CASE LocalBegins \/ LocalEnds \/ ServerExits
    BY <1>1, LocalOwn, ServerExitsOwn
  <1>2. ASSUME NEW c \in Callers, Invoke(c) PROVE OwnInv'
    <2>1. CASE \E j \in Jobs : Get(c, j) \/ Reconcile(c, j) \/ Interrupt(c, j)
      BY <2>1, GetOwn, ReconcileOwn, InterruptOwn
    <2>2. CASE \E j \in Jobs, u \in Units : Continue(c, j, u)
      BY <2>2, ContinueOwn
    <2>3. CASE \E a \in Access, u \in Units : Start(c, a[1], u, a[2])
      <3>1. PICK a \in Access, u \in Units : Start(c, a[1], u, a[2])
        BY <2>3
      <3>2. a[1] \in Jobs /\ a[2] \in BOOLEAN
        BY ExecutorBounds
      <3> QED
        BY <3>1, <3>2, StartOwn
    <2>4. CASE \E scope \in SUBSET Jobs : Preflight(c, scope)
      BY <2>4, PreflightOwn
    <2> QED
      BY <1>2, <2>1, <2>2, <2>3, <2>4 DEF Invoke
  <1>3. ASSUME NEW c \in Callers, Answered(c) PROVE OwnInv'
    BY <1>3, ThreadStartedOwn, SettingsVerifiedOwn, TurnBoundOwn, GetAnsweredOwn,
       ObserveAnsweredOwn, InterruptAnsweredOwn, BoundedReadOwn DEF Answered
  <1>4. ASSUME NEW c \in Callers, Fails(c) PROVE OwnInv'
    BY <1>4, ThreadFailsOwn, SettingsFailOwn, NothingRecordedOwn, TurnFailsOwn,
       ObserveFailsOwn, BoundedReadFailsOwn DEF Fails
  <1>5. ASSUME NEW c \in Callers, ApplyObservation(c) PROVE OwnInv'
    BY <1>5, ApplyObservationOwn
  <1>6. ASSUME NEW u \in Units,
               TurnBegins(u) \/ TurnEnds(u) \/ NotifyStarted(u) \/ NotifyCompleted(u)
        PROVE  OwnInv'
    <2>1. CASE TurnBegins(u) \/ TurnEnds(u)
      BY <2>1, TurnMovesOwn
    <2>2. CASE NotifyStarted(u)
      <3>1. /\ Ran(u) /\ noted[u] = 0 /\ noted' = [noted EXCEPT ![u] = 1]
            /\ HandleTurn(u, TRUE) /\ UNCHANGED <<turn, home, call>>
        BY <2>2 DEF NotifyStarted, Ran
      <3> QED
        BY <3>1, NotifyOwn
    <2>3. CASE NotifyCompleted(u)
      <3>1. /\ Ran(u) /\ turn[u] = "ended" /\ noted' = [noted EXCEPT ![u] = 2]
            /\ HandleTurn(u, FALSE) /\ UNCHANGED <<turn, home, call>>
        BY <2>3 DEF NotifyCompleted, Ran
      <3> QED
        BY <3>1, NotifyOwn
    <2> QED
      BY <1>6, <2>1, <2>2, <2>3
  <1>7. ~RuntimeDies
    BY DEF RuntimeDies, ExecutorInv, TypeOK
  <1>8. CASE UNCHANGED xvars
    <2>1. UNCHANGED <<turn, noted, home, job, owner, cache, call>>
      BY <1>8 DEF xvars
    <2>2. (\A k \in Jobs : SameBindings(k)) /\ \A c \in Callers : Stays(c)
      BY <2>1 DEF SameBindings, Stays
    <2> QED
      BY <2>1, <2>2, ServerIdle, OwnSame
  <1> QED
    BY <1>1, <1>2, <1>3, <1>4, <1>5, <1>6, <1>7, <1>8 DEF Next

\* So it always holds.
LEMMA OwnInvariant ==
  ASSUME \A c, d \in Callers : c = d, MaxCrashes = 0
  PROVE  Spec => []OwnInv
  <1>1. ExecutorInv /\ ExecutorInv' /\ OwnInv /\ [Next]_xvars => OwnInv'
    BY OwnNext
  <1> QED
    BY <1>1, OwnInit, Invariant, PTL DEF Spec

\* "durable-binding an unseen single candidate only when uniquely proven": when one call runs
\* at a time and the runtime does not die, for any number of jobs and units and however the
\* server exits, a writer's durable binding of a turn names the unit the turn was started for
\* (_resolveCurrentUnitTurn, _handleNotification, _bindTurn).  Neither hypothesis can be spared.
THEOREM BindingsAreTrue ==
  ASSUME \A c, d \in Callers : c = d, MaxCrashes = 0
  PROVE  Spec => []BindingIsTrue
  <1>1. ASSUME ExecutorInv, OwnInv PROVE BindingIsTrue
    <2> SUFFICES ASSUME NEW j \in Jobs, NEW b \in Units, job[j].writer
                 PROVE  job[j].bound[b] \in {NoUnit, b}
      BY DEF BindingIsTrue
    <2>1. CASE Here(job[j])
      BY <1>1, <2>1 DEF OwnInv, OwnRecord
    <2>2. CASE ~Here(job[j])
      BY <1>1, <2>2 DEF ExecutorInv, JobFits, Absent
    <2> QED
      BY <2>1, <2>2
  <1>2. ExecutorInv /\ OwnInv => BindingIsTrue
    BY <1>1
  <1> QED
    BY <1>2, Invariant, OwnInvariant, PTL

\* "Never infers current-B terminal from old-A terminal": under the same hypotheses a writer's
\* job is recorded as ended only when the turn of its current unit ended, and as pre-turn only
\* when that unit has no turn (_authoritativeReconcileCore, _terminalizePreTurnNotMaterialized,
\* get, interrupt).
THEOREM TerminalsAreOwn ==
  ASSUME \A c, d \in Callers : c = d, MaxCrashes = 0
  PROVE  Spec => []TerminalIsOwn
  <1>1. ASSUME ExecutorInv, OwnInv PROVE TerminalIsOwn
    <2> SUFFICES ASSUME NEW j \in Jobs, job[j].writer
                 PROVE  /\ job[j].state = "ended" => turn[job[j].unit] = "ended"
                        /\ job[j].state = "pre_turn" => turn[job[j].unit] = "none"
      BY DEF TerminalIsOwn
    <2>1. CASE Here(job[j])
      BY <1>1, <2>1 DEF OwnInv, OwnRecord
    <2>2. CASE ~Here(job[j])
      BY <1>1, <2>2 DEF Here
    <2> QED
      BY <2>1, <2>2
  <1>2. ExecutorInv /\ OwnInv => TerminalIsOwn
    BY <1>1
  <1> QED
    BY <1>2, Invariant, OwnInvariant, PTL
=============================================================================
