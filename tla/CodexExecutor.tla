---------------------------- MODULE CodexExecutor ----------------------------
(***************************************************************************)
(* src/executor/app-server-executor.js with job-map.js: jobs whose turns   *)
(* run in the Codex App Server, a child process the runtime talks to over  *)
(* a pipe.  A call of a client runs between two awaits in one step; what   *)
(* it read before an await is in its snapshot.  A notification is handled  *)
(* in one step.  The id of a turn is the mutation unit it was started for, *)
(* so a turn bound to another unit is visible.                             *)
(***************************************************************************)
EXTENDS MutationOwner, Naturals

CONSTANTS Jobs, NoJob, Units,   \* jobs (one thread each) and mutation units
          Callers,              \* concurrent tool calls
          Access,               \* <<job, writer>>: the access modes a job may ask for
          MaxReads,             \* attempts of _boundedReconcile
          MaxExits, MaxCrashes  \* model bounds: server exits and runtime deaths

ASSUME UnitAssumption == NoUnit \notin Units /\ NoJob \notin Jobs
ASSUME ExecutorBounds == /\ Access \subseteq Jobs \X BOOLEAN /\ MaxReads \in Nat \ {0}
                         /\ MaxExits \in Nat /\ MaxCrashes \in Nat

VARIABLES up,        \* the App Server child runs and is connected
          turn,      \* per unit: what the server has made of its turn/start
          noted,     \* per unit: notifications emitted so far (started, completed)
          home,      \* per unit: the job it was minted for
          job,       \* the persisted job map
          owner,     \* the mutation owner
          cache,     \* _turnUnits
          watched,   \* _recoveryObservationThreads
          replayed,  \* threads with evidence in _recoveryObservedTurns
          local,     \* a ChatGPT-side mutation runs
          call,      \* per caller: the call it is in
          exits, crashes

server == <<turn, noted>>
observation == <<watched, replayed>>
bounds == <<exits, crashes>>
xvars == <<up, turn, noted, home, job, owner, cache, watched, replayed, local, call,
           exits, crashes>>

(***************************************************************************)
(* "ended" is any of completed, failed, interrupted; "pre_turn" is         *)
(* PRE_TURN_NOT_MATERIALIZED.                                              *)
(***************************************************************************)
TurnStates == {"none", "sent", "running", "ended"}
RecoveryStates == {"created", "thread_ready", "starting", "running"}
RiskStates == RecoveryStates \cup {"recovery_required"}
TerminalStates == {"ended", "pre_turn"}
JobStates == {"absent", "inProgress"} \cup RiskStates \cup TerminalStates
Phases == {"none", "thread_created", "permission_verified", "writer_reserved", "turn_bound"}

Unbound == [u \in Units |-> NoUnit]
Job == [state : JobStates, unit : Units \cup {NoUnit}, turn : Units \cup {NoUnit},
        bound : [Units -> Units \cup {NoUnit}],      \* turnUnits
        thread : BOOLEAN, phase : Phases, writer : BOOLEAN, verified : BOOLEAN]
Absent == [state |-> "absent", unit |-> NoUnit, turn |-> NoUnit, bound |-> Unbound,
           thread |-> FALSE, phase |-> "none", writer |-> FALSE, verified |-> FALSE]

Places == {"idle", "thread", "settings", "forgotten", "turn", "get", "observe", "apply",
           "interrupt", "bounded"}
\* lost: the outstanding request has been rejected because the server is gone.
Call == [pc : Places, op : {"none", "start", "continue", "get", "reconcile", "preflight",
                            "interrupt"},
         job : Jobs \cup {NoJob}, unit : Units \cup {NoUnit}, snap : [Jobs -> Job],
         view : [Units -> TurnStates], tries : 0 .. (MaxReads - 1), lost : BOOLEAN]
NoView == [u \in Units |-> "none"]
Idle == [pc |-> "idle", op |-> "none", job |-> NoJob, unit |-> NoUnit,
         snap |-> [j \in Jobs |-> Absent], view |-> NoView, tries |-> 0, lost |-> FALSE]

Init == /\ up = FALSE
        /\ turn = [u \in Units |-> "none"] /\ noted = [u \in Units |-> 0]
        /\ home = [u \in Units |-> NoJob]
        /\ job = [j \in Jobs |-> Absent]
        /\ owner = Free /\ cache = Unbound
        /\ watched = {} /\ replayed = {} /\ local = FALSE
        /\ call = [c \in Callers |-> Idle]
        /\ exits = 0 /\ crashes = 0

Begin(c, r) == call' = [call EXCEPT ![c] = r]
Return(c) == call' = [call EXCEPT ![c] = Idle]
At(c, place) == call[c].pc = place
SetState(j, st) == job' = [job EXCEPT ![j].state = st]

\* Promise continuations run before the next event: an answered or a rejected request
\* is carried on before anything but the rest of the server's output is looked at.
Quiet == \A c \in Callers : ~At(c, "apply") /\ ~call[c].lost
\* The answer to a request of caller c may arrive.
Answers(c) == up /\ ~call[c].lost
\* The server handles the requests for one thread in order (external).
Settled(j) == \A u \in Units : home[u] = j => turn[u] # "sent"

Materialized(j) == {u \in Units : home[u] = j /\ turn[u] \in {"running", "ended"}}
View(j) == [u \in Units |-> IF u \in Materialized(j) THEN turn[u] ELSE "none"]

----------------------------------------------------------------------------
(* start and continue *)
\* start: connect if needed, persist the job with its first unit, ask for a thread.
Start(c, j, u, writer) ==
    /\ At(c, "idle") /\ job[j].state = "absent" /\ home[u] = NoJob
    /\ up' = TRUE
    /\ home' = [home EXCEPT ![u] = j]
    /\ job' = [job EXCEPT ![j] = [Absent EXCEPT !.state = "created", !.unit = u,
                                                !.writer = writer]]
    /\ Begin(c, [Idle EXCEPT !.pc = "thread", !.op = "start", !.job = j, !.unit = u])
    /\ UNCHANGED <<server, owner, cache, observation, local, bounds>>

\* thread/start answered: the thread is recorded and its settings are updated.
ThreadStarted(c) ==
    LET j == call[c].job IN
    /\ At(c, "thread") /\ Answers(c)
    /\ job' = [job EXCEPT ![j].thread = TRUE, ![j].state = "thread_ready",
                          ![j].phase = "thread_created"]
    /\ Begin(c, [call[c] EXCEPT !.pc = "settings"])
    /\ UNCHANGED <<up, server, home, owner, cache, observation, local, bounds>>

\* A failed thread/start leaves the record as it is; one without a thread id does not.
ThreadFails(c) ==
    /\ At(c, "thread")
    /\ job' = job \/ (Answers(c) /\ SetState(call[c].job, "recovery_required"))
    /\ Return(c)
    /\ UNCHANGED <<up, server, home, owner, cache, observation, local, bounds>>

\* The unit becomes the job's current one and turn/start is written to the pipe.
Dispatch(c, j, u, rec) ==
    /\ owner' = IF rec.writer THEN Acquired("codex", u) ELSE owner
    /\ job' = [job EXCEPT ![j] = [rec EXCEPT !.unit = u, !.state = "starting",
                  !.phase = IF rec.writer THEN "writer_reserved" ELSE "permission_verified"]]
    /\ turn' = IF up THEN [turn EXCEPT ![u] = "sent"] ELSE turn
    /\ Begin(c, [call[c] EXCEPT !.pc = "turn", !.job = j, !.unit = u, !.lost = ~up])

MayWrite(rec, u) == rec.writer => CanAcquire(owner, "codex", u)

\* The effective permissions are proved: reserve the writer and dispatch.  A refused
\* reservation throws; start also records that recovery is required.
SettingsVerified(c) ==
    LET j == call[c].job
        u == call[c].unit
        rec == [job[j] EXCEPT !.verified = TRUE,
                  !.phase = IF call[c].op = "start" THEN "permission_verified" ELSE @]
    IN  /\ At(c, "settings") /\ Answers(c)
        /\ \/ MayWrite(rec, u) /\ Dispatch(c, j, u, rec)
           \/ /\ ~MayWrite(rec, u)
              /\ job' = [job EXCEPT ![j] = IF call[c].op = "start"
                                           THEN [rec EXCEPT !.state = "recovery_required"]
                                           ELSE rec]
              /\ Return(c) /\ UNCHANGED <<turn, owner>>
        /\ UNCHANGED <<up, noted, home, cache, observation, local, bounds>>

SettingsFail(c) ==
    LET j == call[c].job IN
    /\ At(c, "settings") \/ At(c, "forgotten")
    /\ job' = [job EXCEPT ![j].state = "recovery_required", ![j].verified = FALSE]
    /\ Return(c)
    /\ UNCHANGED <<up, server, home, owner, cache, observation, local, bounds>>

\* A thread has one settings waiter: whoever registers replaces it, and the call that
\* waited is never told, although its own update may be answered (external: the answer
\* and the notification of one update come together).
AwaitSettings(c, j, r) ==
    call' = [x \in Callers |->
               IF x = c THEN r
               ELSE IF At(x, "settings") /\ call[x].job = j
                    THEN [call[x] EXCEPT !.pc = "forgotten"] ELSE call[x]]
WaitsForever(c) ==
    /\ At(c, "forgotten")
    /\ Return(c)
    /\ UNCHANGED <<up, server, home, job, owner, cache, observation, local, bounds>>

\* continue: a new unit for a job that has a thread.  It does not connect: with the
\* server gone the request is rejected after the unit was recorded.
Continue(c, j, u) ==
    /\ At(c, "idle") /\ home[u] = NoJob
    /\ job[j].thread /\ job[j].state # "pre_turn"
    /\ home' = [home EXCEPT ![u] = j]
    /\ \/ job[j].verified /\ MayWrite(job[j], u) /\ Dispatch(c, j, u, job[j])
       \/ /\ ~job[j].verified
          /\ AwaitSettings(c, j, [Idle EXCEPT !.pc = "settings", !.op = "continue",
                                               !.job = j, !.unit = u, !.lost = ~up])
          /\ UNCHANGED <<turn, job, owner>>
    /\ UNCHANGED <<up, noted, cache, observation, local, bounds>>

\* turn/start answered: bind the turn and record the job as running, whatever the
\* notifications handled meanwhile have recorded.
TurnBound(c) ==
    LET j == call[c].job
        u == call[c].unit
    IN  /\ At(c, "turn") /\ Answers(c) /\ turn[u] \in {"running", "ended"}
        /\ cache' = [cache EXCEPT ![u] = u]
        /\ job' = [job EXCEPT ![j].turn = u, ![j].bound[u] = u, ![j].phase = "turn_bound",
                              ![j].state = "running"]
        /\ Return(c)
        /\ UNCHANGED <<up, server, home, owner, observation, local, bounds>>

\* turn/start rejected, lost with the server, timed out while the server may still start
\* the turn, or answered without a turn id: fail closed with the owner unknown, save that
\* continue leaves the owner alone in the last case.
TurnFailsMutant(c) ==
    /\ At(c, "turn")
    /\ SetState(call[c].job, "recovery_required")
    /\ owner' = Free
    /\ Return(c)
    /\ UNCHANGED <<up, server, home, cache, observation, local, bounds>>
TurnFails(c) ==
    LET u == call[c].unit IN
    /\ At(c, "turn")
    /\ \/ turn' = turn
       \/ ~call[c].lost /\ turn[u] = "sent" /\ turn' = [turn EXCEPT ![u] = "none"]
    /\ SetState(call[c].job, "recovery_required")
    /\ \/ owner' = Marked(owner, "unknown")
       \/ call[c].op # "start" /\ Answers(c) /\ owner' = owner
    /\ Return(c)
    /\ UNCHANGED <<up, noted, home, cache, observation, local, bounds>>

----------------------------------------------------------------------------
(* The App Server (external) and its notifications *)
TurnBegins(u) ==
    /\ up /\ turn[u] = "sent"
    /\ turn' = [turn EXCEPT ![u] = "running"]
    /\ UNCHANGED <<up, noted, home, job, owner, cache, observation, local, call, bounds>>
TurnEnds(u) ==
    /\ up /\ turn[u] = "running"
    /\ turn' = [turn EXCEPT ![u] = "ended"]
    /\ UNCHANGED <<up, noted, home, job, owner, cache, observation, local, call, bounds>>

\* The unit a notified turn belongs to: persisted, cached, or, for a turn that has just
\* started, the current one.
NotifiedUnitMutant(j, u, started) == job[j].unit
NotifiedUnit(j, u, started) ==
    IF job[j].bound[u] # NoUnit THEN job[j].bound[u]
    ELSE IF cache[u] # NoUnit THEN cache[u]
    ELSE IF started THEN job[j].unit ELSE NoUnit

\* _handleNotification for turn/started (status inProgress) and turn/completed.  A
\* thread under observation only collects evidence; a turn of an earlier unit is ignored.
HandleTurn(u, started) ==
    LET j == home[u]
        unit == NotifiedUnit(j, u, started)
        binds == job[j].bound[u] = NoUnit /\ cache[u] = NoUnit /\ started
    IN  \/ /\ j \in watched
           /\ replayed' = replayed \cup {j}
           /\ UNCHANGED <<job, owner, cache>>
        \/ /\ j \notin watched /\ (unit = NoUnit \/ unit # job[j].unit)
           /\ UNCHANGED <<job, owner, cache, replayed>>
        \/ /\ j \notin watched /\ unit # NoUnit /\ unit = job[j].unit
           /\ job' = [job EXCEPT ![j].turn = u, ![j].phase = "turn_bound",
                                 ![j].state = IF started THEN "inProgress" ELSE "ended",
                                 ![j].bound[u] = IF binds THEN unit ELSE @]
           /\ cache' = [cache EXCEPT ![u] = IF binds THEN unit ELSE @]
           /\ owner' = IF ~job[j].writer THEN owner
                       ELSE IF ~started THEN ReleasedBy(owner, "codex", unit)
                       ELSE IF owner.who = "none" THEN Acquired("codex", unit)
                       ELSE IF owner.who = "codex" THEN Marked(owner, "running")
                       ELSE owner
           /\ UNCHANGED replayed

NotifyStarted(u) ==
    /\ up /\ turn[u] \in {"running", "ended"} /\ noted[u] = 0
    /\ noted' = [noted EXCEPT ![u] = 1]
    /\ HandleTurn(u, TRUE)
    /\ UNCHANGED <<up, turn, home, watched, local, call, bounds>>
NotifyCompleted(u) ==
    /\ up /\ turn[u] = "ended" /\ noted[u] = 1
    /\ noted' = [noted EXCEPT ![u] = 2]
    /\ HandleTurn(u, FALSE)
    /\ UNCHANGED <<up, turn, home, watched, local, call, bounds>>

----------------------------------------------------------------------------
(* get *)
OnlyJob(j) == [k \in Jobs |-> IF k = j THEN job[j] ELSE Absent]

\* The turns a snapshot takes for those of its current unit.
BoundTurns(s, view) ==
    {b \in Units : view[b] # "none" /\ s.unit # NoUnit /\ s.bound[b] = s.unit}

\* _releaseUnitOnTerminal: by the unit of the record it is given, onto the stored record.
Released(s) == IF s.writer THEN ReleasedBy(owner, "codex", s.unit) ELSE owner

Get(c, j) ==
    /\ At(c, "idle") /\ job[j].state \notin {"absent", "pre_turn"}
    /\ Begin(c, [Idle EXCEPT !.pc = "get", !.op = "get", !.job = j, !.snap = OnlyJob(j),
                             !.lost = ~up])
    /\ UNCHANGED <<up, server, home, job, owner, cache, observation, local, bounds>>

\* thread/read answered: a terminal turn of the current unit releases it.
GetAnswered(c) ==
    LET j == call[c].job
        s == call[c].snap[j]
    IN  /\ At(c, "get") /\ Answers(c) /\ Settled(j)
        /\ \/ /\ BoundTurns(s, View(j)) = {}
              /\ UNCHANGED <<job, owner>>
           \/ \E b \in BoundTurns(s, View(j)) :
                 IF turn[b] = "ended"
                 THEN SetState(j, "ended") /\ owner' = Released(s)
                 ELSE UNCHANGED <<job, owner>>
        /\ Return(c)
        /\ UNCHANGED <<up, server, home, cache, observation, local, bounds>>
GetFails(c) ==
    /\ At(c, "get")
    /\ Return(c)
    /\ UNCHANGED <<up, server, home, job, owner, cache, observation, local, bounds>>

----------------------------------------------------------------------------
(* reconcile, resume, recover and reconcileRecoveryPreflight *)
\* Observation of job j under snapshots snap begins: its thread is watched.  A job
\* without a thread is unresolved at once.
Observing(c, op, snap, j, running) ==
    [Idle EXCEPT !.pc = "observe", !.op = op, !.job = j, !.snap = snap,
                 !.lost = ~running \/ ~snap[j].thread]
Watch(s, j) == IF s.thread THEN {j} ELSE {}

Reconcile(c, j) ==
    /\ At(c, "idle") /\ job[j].state \notin {"absent", "pre_turn"}
    /\ up' = TRUE
    /\ Begin(c, Observing(c, "reconcile", OnlyJob(j), j, TRUE))
    /\ watched' = watched \cup Watch(job[j], j) /\ replayed' = replayed \ {j}
    /\ UNCHANGED <<server, home, job, owner, cache, local, bounds>>

\* Every dangerous job in scope is snapshot at once, then they are observed one after the
\* other; a job with an unknown lifecycle state refuses the preflight.
Dangerous(scope) == {j \in scope : job[j].state \in RiskStates}
LifecycleKnown(scope) ==
    \A j \in scope : job[j].state \in RiskStates \cup TerminalStates \cup {"absent"}
Preflight(c, scope) ==
    LET dangerous == Dangerous(scope)
        snap == [j \in Jobs |-> IF j \in dangerous THEN job[j] ELSE Absent]
    IN  /\ At(c, "idle")
        /\ LifecycleKnown(scope)
        /\ up' = TRUE
        /\ \E j \in dangerous :
              /\ Begin(c, Observing(c, "preflight", snap, j, TRUE))
              /\ watched' = watched \cup Watch(job[j], j) /\ replayed' = replayed \ {j}
        /\ UNCHANGED <<server, home, job, owner, cache, local, bounds>>

\* The finally clause ends the watch; the preflight goes on with the next job.
EndObservation(c) ==
    LET j == call[c].job
        left == [call[c].snap EXCEPT ![j] = Absent]
        rest == {k \in Jobs : left[k] # Absent}
    IN  \/ /\ rest = {}
           /\ Return(c)
           /\ watched' = watched \ {j} /\ replayed' = replayed \ {j}
        \/ \E k \in rest :
              /\ Begin(c, Observing(c, call[c].op, left, k, up))
              /\ watched' = (watched \ {j}) \cup Watch(left[k], k)
              /\ replayed' = (replayed \ {j}) \ {k}

\* A request of the observation fails: unresolved.
ObserveFails(c) ==
    /\ At(c, "observe")
    /\ SetState(call[c].job, "recovery_required")
    /\ EndObservation(c)
    /\ UNCHANGED <<up, server, home, owner, cache, local, bounds>>

\* thread/resume and thread/read answered.
ObserveAnswered(c) ==
    LET j == call[c].job IN
    /\ At(c, "observe") /\ Answers(c) /\ Settled(j)
    /\ Begin(c, [call[c] EXCEPT !.pc = "apply", !.view = View(j)])
    /\ UNCHANGED <<up, server, home, job, owner, cache, observation, local, bounds>>

\* _resolveCurrentUnitTurn: the turn bound to the current unit, else the only turn that
\* is bound to none.
UnboundTurns(s, view) == {b \in Units : view[b] # "none" /\ s.bound[b] = NoUnit}
CandidatesMutant(s, view) == {b \in Units : view[b] # "none"}
Candidates(s, view) ==
    IF BoundTurns(s, view) # {} THEN BoundTurns(s, view)
    ELSE {b \in Units : UnboundTurns(s, view) = {b}}
\* The job with an unbound candidate bound durably, on top of the snapshot's bindings.
BindCandidate(rec, s, b) ==
    IF s.bound[b] = s.unit THEN rec
    ELSE [rec EXCEPT !.turn = b, !.bound = [s.bound EXCEPT ![b] = s.unit]]
CacheCandidate(s, b) == IF s.bound[b] = s.unit THEN cache ELSE [cache EXCEPT ![b] = s.unit]

ForeignOwner(s) == owner.who = "chatgpt" \/ (owner.who = "codex" /\ owner.unit # s.unit)

\* _classifyPreTurnNotMaterialized, for a thread that has no rollout
PreTurn(s, j) == /\ s.writer /\ s.verified /\ s.turn = NoUnit
                 /\ \A b \in Units : s.bound[b] # s.unit
                 /\ s.phase \in {"permission_verified", "writer_reserved"}
                 /\ j \notin replayed

\* _terminalizePreTurnNotMaterialized
Terminalize(j, s) ==
    IF ForeignOwner(s)
    THEN SetState(j, "recovery_required") /\ owner' = owner
    ELSE SetState(j, "pre_turn") /\ owner' = ReleasedBy(owner, "codex", s.unit)

\* The end of _authoritativeReconcileCore, or of one round of the preflight, on the turn b
\* with the status it was read with.
Reconciled(op, j, s, b, status) ==
    LET rec == BindCandidate(job[j], s, b)
        store(st) == job' = [job EXCEPT ![j] = [rec EXCEPT !.state = st]]
        conflict == op = "reconcile" /\ s.writer /\ ForeignOwner(s)
    IN  /\ cache' = CacheCandidate(s, b)
        /\ \/ conflict /\ store("recovery_required") /\ owner' = owner
           \/ ~conflict /\ status = "ended" /\ store("ended") /\ owner' = Released(s)
           \/ /\ ~conflict /\ status = "running" /\ store("running")
              /\ owner' = IF op = "preflight" \/ ~s.writer THEN owner
                          ELSE Acquired("codex", s.unit)

ApplyObservation(c) ==
    LET j == call[c].job
        s == call[c].snap[j]
        view == call[c].view
    IN  /\ At(c, "apply")
        /\ \/ /\ view = NoView /\ PreTurn(s, j)
              /\ Terminalize(j, s) /\ cache' = cache
           \/ /\ Candidates(s, view) = {}
              /\ SetState(j, "recovery_required") /\ UNCHANGED <<owner, cache>>
           \/ \E b \in Candidates(s, view) : Reconciled(call[c].op, j, s, b, view[b])
        /\ EndObservation(c)
        /\ UNCHANGED <<up, server, home, local, bounds>>

----------------------------------------------------------------------------
(* interrupt *)
Interrupt(c, j) ==
    /\ At(c, "idle") /\ job[j].thread /\ job[j].turn # NoUnit
    /\ Begin(c, [Idle EXCEPT !.pc = "interrupt", !.op = "interrupt", !.job = j, !.lost = ~up])
    /\ UNCHANGED <<up, server, home, job, owner, cache, observation, local, bounds>>
InterruptFails(c) ==
    /\ At(c, "interrupt")
    /\ Return(c)
    /\ UNCHANGED <<up, server, home, job, owner, cache, observation, local, bounds>>
\* turn/interrupt answered: the bounded reconciliation starts from a new snapshot.
InterruptAnswered(c) ==
    LET j == call[c].job
        rec == [job[j] EXCEPT !.state = "recovery_required"]
    IN  /\ At(c, "interrupt") /\ Answers(c)
        /\ job' = [job EXCEPT ![j] = rec]
        /\ Begin(c, [call[c] EXCEPT !.pc = "bounded",
                                    !.snap = [OnlyJob(j) EXCEPT ![j] = rec]])
        /\ UNCHANGED <<up, server, home, owner, cache, observation, local, bounds>>

\* No terminal turn was read: try again after a pause, or give up.
ReadAgain(c, rec) ==
    LET j == call[c].job IN
    \/ /\ call[c].tries + 1 < MaxReads
       /\ Begin(c, [call[c] EXCEPT !.tries = @ + 1])
       /\ job' = [job EXCEPT ![j] = rec]
    \/ /\ call[c].tries + 1 = MaxReads
       /\ Return(c)
       /\ job' = [job EXCEPT ![j] = [rec EXCEPT !.state = "recovery_required"]]

BoundedRead(c) ==
    LET j == call[c].job
        s == call[c].snap[j]
        view == View(j)
    IN  /\ At(c, "bounded") /\ up /\ Settled(j)
        /\ \/ /\ Candidates(s, view) = {}
              /\ ReadAgain(c, job[j]) /\ UNCHANGED <<owner, cache>>
           \/ \E b \in Candidates(s, view) :
                 LET rec == BindCandidate(job[j], s, b) IN
                 /\ cache' = CacheCandidate(s, b)
                 /\ \/ /\ view[b] = "ended"
                       /\ job' = [job EXCEPT ![j] = [rec EXCEPT !.state = "ended"]]
                       /\ owner' = Released(s) /\ Return(c)
                    \/ /\ view[b] = "running"
                       /\ ReadAgain(c, rec) /\ owner' = owner
        /\ UNCHANGED <<up, server, home, observation, local, bounds>>
BoundedReadFails(c) ==
    /\ At(c, "bounded")
    /\ ReadAgain(c, job[call[c].job])
    /\ UNCHANGED <<up, server, home, owner, cache, observation, local, bounds>>

----------------------------------------------------------------------------
(* Local mutations share the owner (local/verify.js and the file tools). *)
LocalBegins ==
    /\ ~local /\ CanAcquire(owner, "chatgpt", NoUnit)
    /\ local' = TRUE /\ owner' = Acquired("chatgpt", NoUnit)
    /\ UNCHANGED <<up, server, home, job, cache, observation, call, bounds>>
\* It ends and releases, or its outcome is uncertain and the unit stays unknown.
LocalEnds ==
    /\ local /\ local' = FALSE
    /\ owner' \in {Free, Marked(owner, "unknown")}
    /\ UNCHANGED <<up, server, home, job, cache, observation, call, bounds>>

----------------------------------------------------------------------------
(* Failures *)
\* What is left of the turns of a server that is gone.
TurnsLost == [u \in Units |-> CASE turn[u] = "sent" -> "none"
                                [] turn[u] = "running" -> "ended"
                                [] OTHER -> turn[u]]
NotesLost == [u \in Units |-> IF turn[u] = "none" THEN noted[u] ELSE 2]

\* _handleClientExit; every outstanding request is rejected.
ServerExits ==
    /\ up /\ exits < MaxExits /\ exits' = exits + 1
    /\ up' = FALSE /\ turn' = TurnsLost /\ noted' = NotesLost
    /\ job' = [j \in Jobs |-> IF job[j].state \in RecoveryStates
                              THEN [job[j] EXCEPT !.state = "recovery_required"] ELSE job[j]]
    /\ owner' = Marked(owner, "unknown")
    /\ call' = [c \in Callers |->
                  [call[c] EXCEPT !.lost = @ \/ call[c].pc \notin {"idle", "bounded"}]]
    /\ UNCHANGED <<home, cache, observation, local, crashes>>

\* The runtime dies and another one starts with the persisted jobs; the server, its
\* child, dies with it.
RuntimeDies ==
    /\ crashes < MaxCrashes /\ crashes' = crashes + 1
    /\ up' = FALSE /\ turn' = TurnsLost /\ noted' = NotesLost
    /\ owner' = Free /\ cache' = Unbound /\ watched' = {} /\ replayed' = {}
    /\ local' = FALSE
    /\ call' = [c \in Callers |-> Idle]
    /\ UNCHANGED <<home, job, exits>>

----------------------------------------------------------------------------
Invoke(c) == \/ \E j \in Jobs : Get(c, j) \/ Reconcile(c, j) \/ Interrupt(c, j)
             \/ \E j \in Jobs, u \in Units : Continue(c, j, u)
             \/ \E a \in Access, u \in Units : Start(c, a[1], u, a[2])
             \/ \E scope \in SUBSET Jobs : Preflight(c, scope)
Answered(c) == \/ ThreadStarted(c) \/ SettingsVerified(c) \/ TurnBound(c) \/ GetAnswered(c)
               \/ ObserveAnswered(c) \/ InterruptAnswered(c) \/ BoundedRead(c)
Fails(c) == \/ ThreadFails(c) \/ SettingsFail(c) \/ WaitsForever(c) \/ TurnFails(c) \/ GetFails(c)
            \/ ObserveFails(c) \/ InterruptFails(c) \/ BoundedReadFails(c)

Next == \/ Quiet /\ (LocalBegins \/ LocalEnds \/ ServerExits)
        \/ \E c \in Callers : Quiet /\ (Invoke(c) \/ Answered(c) \/ Fails(c))
        \/ \E c \in Callers : call[c].lost /\ Fails(c)
        \/ \E c \in Callers : ApplyObservation(c)
        \/ \E u \in Units : TurnBegins(u) \/ TurnEnds(u) \/ NotifyStarted(u) \/ NotifyCompleted(u)
        \/ RuntimeDies

Spec == Init /\ [][Next]_xvars

----------------------------------------------------------------------------
\* The state is well typed; ownership names a unit exactly when a Codex job holds it.
TypeOK == /\ up \in BOOLEAN /\ local \in BOOLEAN
          /\ turn \in [Units -> TurnStates] /\ noted \in [Units -> 0 .. 2]
          /\ home \in [Units -> Jobs \cup {NoJob}]
          /\ job \in [Jobs -> Job]
          /\ owner \in [who : Owners, unit : Units \cup {NoUnit}, st : UnitStates]
          /\ owner.who = "codex" <=> owner.unit # NoUnit
          /\ cache \in [Units -> Units \cup {NoUnit}]
          /\ watched \subseteq Jobs /\ replayed \subseteq Jobs
          /\ call \in [Callers -> Call]
          /\ exits \in 0 .. MaxExits /\ crashes \in 0 .. MaxCrashes

\* "Only ONE writer may be active" and "execution ownership is released only when an
\* authoritative App Server turn status is confirmed": while the turn of a writing job
\* may run, or its turn/start is on the way, its unit owns the workspace; and while a
\* ChatGPT-side mutation runs, ChatGPT does.
WriterOwnsWorkspace ==
    /\ \A u \in Units : turn[u] \in {"sent", "running"} /\ job[home[u]].writer =>
           owner.who = "codex" /\ owner.unit = u
    /\ local => owner.who = "chatgpt"

\* "Never infers current-B terminal from old-A terminal": a job of a writer is recorded
\* as ended only when the turn of its current unit really ran and ended, and as
\* pre-turn only when that unit never ran.
TerminalIsOwn ==
    \A j \in Jobs : job[j].writer =>
        /\ job[j].state = "ended" => turn[job[j].unit] = "ended"
        /\ job[j].state = "pre_turn" => turn[job[j].unit] = "none"

\* "durable-binding an unseen single candidate only when uniquely proven": a writer's
\* durable binding names the unit the turn was started for.
BindingIsTrue ==
    \A j \in Jobs, b \in Units : job[j].writer => job[j].bound[b] \in {NoUnit, b}
=============================================================================
