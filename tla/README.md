# A TLA+ verification of the ChatGPT–Codex orchestrator

The repository is a local runtime that lets a ChatGPT conversation (the "Brain",
also called the Parent) plan and accept work while local tools or the Codex App
Server (the "executors") carry it out on a workspace.  It has no database and no
network consensus; what makes it hard is that several processes of the same user
share files, that one Node.js process interleaves callbacks of a child process
with the calls of its clients, and that any of them may die between two steps.

Paths below are relative to the repository (`src/governance/...`), whose root is
`src/` in `PROJECT.json`.

## 1. Inventory

| Part | State it keeps | Operations | What is hard |
|---|---|---|---|
| Writer guard (`src/governance/writer-guard.js`) | `writer.json`, `writer.json.elect`, `_held` | `acquire`, `assertOwned`, `refresh`, `release` | several processes, check-then-act on files, crashes, recycled pids |
| Governance lifecycle (`src/governance/index.js`) | task, step table, evidence, gates, Brain decision | `transition` (seven controls), `recordResult`, `status` | long sequences of legal controls, partial effects of a rejected call |
| Durable governance (`src/governance/durable.js`, `store.js`) | snapshot per task, its backup, authority and claim tokens, recovery flag | `transition`, `recordResult`, `loadTask`, `takeover`, `claimExecution`, `authorize*` | failed writes, crashes, fencing of stale sessions |
| Capsule and observation (`capsule.js`, `observation.js`) | none: projections of a snapshot | reads | none |
| Codex executor (`src/executor/app-server-executor.js`, `job-map.js`, `approval.js`) | persisted job map, in-memory mutation owner, waiters, approvals | `start`, `continue`, `get`, `interrupt`, `reconcile`, `respondApproval` | notifications that race replies, server exits, unconfirmed submissions, stale snapshots across an await |
| App Server client (`src/executor/app-server-client.js`) | child, pending requests, `_exited`, `_connected` | `connect`, `request`, `notify`, `close` | late events of an old child, requests in flight at an exit, two connects at once |
| Mutation owner (`src/state/mutation-owner.js`) | one owner record in memory | `acquire`, `markUnitState`, `release` | shared by Codex turns, change sets, documents, files and checks |
| Change sets and files (`src/local/change-set.js`, `filesystem-mutation.js`, `src/state/operation-state.js`) | persisted status of each change set | preview, apply, create directory, move | crash between the mark and the rename, a file that changes after its hash was read, a child that acts after the call was given up |
| Document mutations (`docx-mutation.js`, `excel-mutation.js`, `pdf-mutation.js`) | none: staging files | one transaction each | the same |
| Processes (`src/local/process.js`, `desktop-commander-child.js`) | current child, its start, process handles | calls, probes, `recoverAfterTimeout`, handles, `close` | failures that come after the child was replaced, a start in flight at `close` |
| Verify, git, search, worktree (`src/local/*`) | none or git's | reads, checks | checks share the mutation owner |
| Relay (`src/relay/*`) | pairings, devices and handles on disk; sessions, pending requests and queues in memory; the agent's ledger | pair, revoke, connect, poll, dispatch, respond | reconnects, lost and late answers, deadlines, restarts |
| Activation (`src/activation/*`, `host/*`) | record of the active revision, config file, the listener | activate, roll back, recover, bootstrap, install | a crash between stopping the old and starting the new runtime, probes whose answer is stale when used |
| Start at login (`src/operability/windows-*.js`, `scripts/windows-*-autostart.mjs`) | two Scheduled Tasks, a durable bootstrap file | install, uninstall, status, launch | task and file are written in separate steps, other programs and half-done installations |
| Legacy task service (`src/legacy/task-*.js`, `src/task-state.js`, `src/task-lock.js`) | task file, lock file | create, start, resume, advance, cancel | a crash while a step executes, two drivers of one task |
| Direct Brain Loop (`src/legacy/direct-run-controller.js`, `src/protocol-integrity.js`) | ledger file, coordinator in memory | `acceptBrainReply`, `prepareResult`, `setBrainAcceptance`, `resume`, `start` | a Brain that may say anything, a RESULT that names any step, a crash between two persists |
| Operating model and routing (`src/operating-model/*`, `src/router/*`) | none: the callers keep the answers | `decideRoute`, `routeRequiredOperations`, `resolveBootstrap` and its two entries, `assertRepositoryMutationAuthorized` | rules spread over several functions that must agree |
| MCP tools (`src/mcp/*`) | none of its own | dispatches to the parts above, probes, shuts down | admission before each tool |
| Configuration, safety, doctor, text parsing, transports | none, or configuration files | pure functions and process I/O | parsing |

**How they interact.** An MCP call reaches `mcp/tools`, which asks Durable
Governance for authorization (`authorizeMutation`, `authorizeExecution`) and then
calls the executor or a local tool.  The executor and the local tools share one
mutation owner, so at most one of them writes the workspace.  Durable Governance
saves through the store and asserts the writer guard before each save.  The relay
only carries MCP calls; activation replaces the whole runtime.

**What makes each part correct.**

* Writer guard: one live process of a namespace holds it; a live owner is never
  reclaimed; every call returns.
* Governance: acceptance never runs ahead of evidence; a RESULT is never redone
  silently; a finished task is immutable.
* Durable governance: fenced tokens never become valid again; memory is the
  committed snapshot or refuses to work; one unfinished task at a time.
* Executor: at most one Codex writer; a job's recorded state is the state of its
  own unit; a lost server leaves the owner unknown, never free.
* Change sets, documents and files: whoever writes owns the workspace, and what the
  caller is told and what is stored is what happened to the files.
* Desktop Commander child: a child is ended only for its own failure, and none is left
  behind.
* Activation: a rollback goes back to what served, the record that a later recovery trusts is of
  a revision that served under the recorded config, and what serves has the roots and the scope that are on disk.
* Start at login: an installation that reports success starts at the next login.
* Relay: a request is executed at most once, by the runtime its handle belongs to, never for
  a revoked device, and somebody always answers it.
* Task lock and legacy task: one driver per task, no step is executed twice, completion
  rests on evidence.
* Direct Brain Loop: no RESULT is lost between agent and Brain, and the Brain's acceptance rests on RESULTs that passed.
* Operating model: the smallest sufficient route; writes only under a live grant for the active mission.

## 2. Modules

| Module | Models | Notes |
|---|---|---|
| `CanonicalWriter` | what the guard promises | abstract: one owner, gained when free, lost by release or death |
| `WriterGuard` | `writer-guard.js` | a step is one file-system call |
| `MCWriterGuard` | instance | three processes; one or two accounts |
| `WriterGuardProofs` | theorems | see section 5 |
| `Governance` | `index.js` | pure operators: one per control, one for RESULT |
| `DurableGovernance` | `durable.js`, `store.js` | one action per public operation |
| `MCDurableGovernance` | instances | the calls that are enumerated |
| `DurableGovernanceProofs` | theorems | `DurableGovernance` |
| `TaskLock` | `task-lock.js` | a step is one file-system call |
| `MutationOwner` | `state/mutation-owner.js` | functions of the owner record |
| `CodexExecutor` | `executor/app-server-executor.js`, `executor/job-map.js`, the owner's use by `local/verify.js` | a step is what runs between two awaits |
| `MCCodexExecutor` | instances | jobs, units and callers |
| `CodexExecutorProofs` | theorems | `CodexExecutor` |
| `AppServerConnection` | `executor/app-server-client.js` | children, requests, and Node's late events |
| `LocalMutation` | `local/change-set.js`, `filesystem-mutation.js`, the three document mutations, `verify.js`, `state/operation-state.js` | uses `MutationOwner` |
| `LocalMutationProofs` | theorems | `LocalMutation` |
| `CommanderChild` | `local/desktop-commander-child.js`, `local/process.js`, shutdown of `mcp/server.js` | generations of the child |
| `RemoteCall` | what the relay promises about a tool call | abstract: asked once, worked on by one runtime, settled once |
| `Relay` | `relay/core.js`, `agent.js`, `runtime-mode.js`, `mcp-facade.js`, `http-server.js` | relay, agents and the network between them; implements `RemoteCall` |
| `RelayProofs` | theorems | `Relay` |
| `StableRuntime` | `activation/*`, `host/stable-runtime-*.mjs` | operators over one port, config and record |
| `StableRuntimeProofs` | theorems | `StableRuntime` |
| `LoginAutostart` | `operability/windows-login-autostart.js`, `windows-desktop-relay-host.js`, the two autostart scripts | operators, logins and other programs |
| `LegacyTask` | `legacy/task-service.js`, `task-manager.js`, `task-state.js`, `protocol.js` | a step is what runs between two awaits |
| `DirectRun` | `legacy/direct-run-controller.js`, `protocol-integrity.js` | one action per public operation, split at its persists |
| `TaskProofs` | theorems | `LegacyTask` and `DirectRun` |
| `OperatingModel` | `operating-model/*`, `router/decide.js` | operators, and one action per question |
| `HostProofs` | theorems | `CommanderChild`, `LoginAutostart`, `OperatingModel` and `AppServerConnection` |
| `MCTasks` | `CodexExecutor` (as `MCCodexExecutor` instantiates it), `LegacyTask`, `DirectRun` | one scene per component |
| `MCHost` | `Relay`, `LocalMutation`, `StableRuntime`, `AppServerConnection`, `CommanderChild`, `LoginAutostart`, `OperatingModel` | one scene per component |

### WriterGuard

`slot` is `writer.json` and `elect` the election token.  A file is created empty
by `openSync(..., 'wx')` and filled by the next call, so a reader may find a file it
cannot parse; `NoFile`, `Unwritten(w)` and `Payload(w)` are those three cases.
`pc[w]` is where the process stands between two file-system calls of `acquire`,
`_claimStaleSlot`, `refresh` and `release`; `attempt[w]` and `seen[w]` are the locals
of `acquire`.  `Crash` may take any live process at any point, and `ReusePid`
later makes its pid answer again.  A process that restarts has a new `writerId`,
so it is another member of `Writers`.  The heartbeat window is not modelled: every
record this code writes carries a pid, and `_isStale` then looks at the pid only.

### Governance and DurableGovernance

`Governance` has no variables.  A step record keeps the executor status, the
machine gate, the Brain decision, the required acceptance ids, the evidence status of
each and whether files were reported changed; histories, hand-off envelopes, plan
revisions and the proof ledger are left out because no decision reads them.  A
control that the code rejects after it has already assigned something is modelled
with what it leaves behind (`LeftBehind`, `LeftByResult`).

`DurableGovernance` has the memory (`mem`, `meta`, `recovery`) and the disk (`prim`,
`bak`).  The public operations are synchronous, so each is one action, and its
outcome is split by what `saveTask` can do: the write succeeds, the write succeeds
and the copy to `.bak` is lost, the write fails and `_restoreCommitted` runs, or
the process dies after the rename.  Tokens are the numbers of the order they were minted in.
Any session may present any token ever minted, so a stale session is always there.
`ResultIsKept` speaks of the machine gate that a RESULT leaves on its step, not of the executor status: a RESULT
may arrive with the status `unknown`, which equals the status of a step without one.

### TaskLock

The lock of the legacy task service, at the grain of its file-system calls.

### MutationOwner and CodexExecutor

`MutationOwner` has no variables: the owner is one record in memory, and `acquire`,
`markUnitState` and `release` map a record to a record.

`CodexExecutor` has the persisted job map (`job`), the memory of the runtime
(`owner`, `cache` for `_turnUnits`, `watched` and `replayed` for the observation
tables), and the App Server (`up`, `turn`, `noted`), which is external.  A tool call is
a member of `Callers`; `call[c]` says at which await it stands and what it
read before it (`snap`), so a later step works on a stale job exactly where the code
does.  Writes to the job map are patches: they change the fields the code names
and keep the rest as they are on disk by then.

* *Identity of turns.*  The id of a turn is the unit it was started for
  (`home[u]` is the job of unit `u`).  The code never compares the two; the identification makes "bound to the
  wrong unit" a statement about the state.
* *Turns.*  `turn[u]` goes from `none` to `sent` (written to the pipe), `running`,
  `ended`.  Completed, failed and interrupted are one value, the code treats
  them alike.  `noted[u]` counts the notifications delivered; they lag behind the turn
  arbitrarily, so they also cover what is delayed in the pipe.
* *Order of events.*  Promise continuations run before the next event is taken, so a
  rejected or answered request goes on before any other call begins or is answered
  (`Quiet`); notifications of the same chunk may still come first.
* *Assumed of the server (external).*  It handles the requests for one thread
  in order (`Settled`), a thread without turns has no rollout, and a server that dies ends
  its running turns and forgets the ones it has not begun (`TurnsLost`).  `interrupt` asks it to
  end a turn; whether and when it does is left open.
* *Time-outs.*  `TurnFails` may be taken while the turn is still `sent`: the request timed
  out and the server starts the turn later.
* *Not distinguished.*  `reconcile`, `resume` and `recover` differ in what they
  return and in how the job is chosen; their effect on state is `Reconcile`, and the `get`
  that `resume` ends with is a further `Get`.  A permission contract is proved or refused, a
  history is read completely or not at all.  Connecting is part of the call that does it.
* *One waiter.*  `_settingsWaiters` has one entry per thread, so a second call that waits for the settings of the same
  thread replaces the first, which is then `forgotten` and ends only with its timeout, or never (`WaitsForever`).

### AppServerConnection

`kids[k]` goes from alive to told (`kill()` was called), exited or killed, and `closed` when
Node reports the end of its stdio; each step is separate, so an old child may close
long after a new one was spawned.  `waiting` is `_pending` with the child each request was
written to.  The late close breaks `ExitIsOwn`; what holds in spite of it is `OneChildServes` and `EveryCallSettles`.

### LocalMutation

A unit is one operation and the content it installs is the unit itself, so `file` says
whose write it holds.  Every await and every file-system call of `apply` is a step
(`ApplyCheck`, `ApplyWriteTemp`, `ApplyRename`, `ApplyReadback`, `ApplyClassify`); documents have the
steps stage, install, confirm, reconcile, and moves and directories go through the child,
whose effect may land after the call failed (`late`).  Programs that
ask nobody may write at any time.  `landed` remembers the units whose effect reached a file while they ran: an
outside program may write over it, and the answer is still about what the unit did.  Path policy, hunk arithmetic and formats are left out.

### CommanderChild

Pair `g` is the client and transport of the g-th child.  Those who find no ready pair join
the one start in progress and go on in one turn of the event loop.  A probe is a call like any other.
`recoverAfterTimeout` has no identity check: it ends whichever pair is current when the wait is
over, and `OnlyBlamedChildEnds` counts such a pair as given up on.  The uses of a process handle
run in the slot of the call that started the process.

### Relay

The store survives a relay restart, the core's memory does not.  An agent makes one HTTP call
at a time; its reply may be lost after the relay has processed it, and a call it gave up on may
reach the relay later (`stray`).  A handle is named by the request that made it.  A deadline may fire
at any time.  OAuth, HTTP framing and sizes are left out, except that a late envelope is refused.

`RemoteCall` is what a client of the relay may rely on: a call is addressed to one runtime, no other executes it,
and it settles once, as answered or failed only after that runtime has executed it, or as rejected.  `Promises` is the
refinement mapping: a call is open while it is pending, afterwards its outcome is what the client was told;
`executed` forgets how often.  How often is `ExecutedAtMostOnce`, which needs a ledger that is large enough;
`CallsKeepTheirPromise` needs nothing.

### StableRuntime

An operator is one run of `activate`, `recover` or an installer; each probe, stop, spawn, readiness wait and
record write is a step, operators and runtimes may die between them, and every probe may fail.
A config is the set of what the installers have added to it, so an older config is told from a newer one; its fingerprint, as in the code,
leaves the diagnostics entry out.
The smoke installer adds the root of its fixture only when none of the roots in the file covers it (`covered`, which may be
either: paths are not modelled); when one does, only the diagnostics entry is new, and fingerprint and record stay valid.

### LoginAutostart

A bootstrap or a config binding is its version and a hash tells versions apart.  The check of
the source, the writing of the durable file (open, write, verify), the query of the task and
its registration are separate steps; at login the task first compares hashes, then runs.  The
login and the desktop implementation are parallel copies; a definition for both is mapped to one.

### LegacyTask and DirectRun

In both the Brain is a language model and may answer anything that parses.  `LegacyTask` keeps the
copy of the state a call works on apart from the task file (`service[h].task`, `taskFile`), and a host may die at
any await.  A TASK may ask for the acceptance of its step as required, as optional or not at all (`asks`); the registry keeps what
was registered first (`optional`), and the DONE gate looks at the required ones only.  A PLAN or REPLAN may give a plan
without steps, or leave the plan as it is (`gives`).  PUBLISH parses, and this engine ends in `recovery_required` over it.

`DirectRun` keeps the ledger on disk apart from the coordinator's memory; `acceptBrainReply` persists
twice, and the controller may die in between.  What the first half decided waits in `half`.  The RESULT names the step the calling
agent gives to `prepareResult`, and nothing compares it with the control's.  The calling agent may also set an
acceptance itself (`SetBrainAcceptance`; `declared` remembers the step).  Once the ledger holds the same object as the
controller (`shared`, after the first acceptance or a `resume`) such a setting reaches the disk with whatever is persisted next,
also with the persist of a call that is rejected (`RejectCall`).

### OperatingModel

Decisions are functions of their inputs: `DecideRoute`, `RouteRequired`, `Resolve` and
`MutationAuthorized`.  A behaviour asks one kind of question; a session that resolved may then write.
`WritesFollowMission` compares the grant with the control as it was resolved: that the control changes afterwards is outside the model.
A pointer or a locator is reduced to whether it matches, and every refusal is `Throws`.

### MCTasks and MCHost

The components of one of these modules share no variable.  A behaviour is a scene in which one of them
moves while the others keep their initial state: interleaving them would multiply states without adding a
case.  Where components do share state they are composed in one module: the owner and its users in `LocalMutation` and
`CodexExecutor`, relay and agents in `Relay`, operators, runtimes and config in `StableRuntime`.

## 3. Runs

| Run | Shows | Bounds |
|---|---|---|
| `writer_guard` | single live writer, exact reclaim, commits under ownership, live slots untouched, refinement of `CanonicalWriter`, every call returns | 3 processes, 2 attempts, two processes with 2 payloads and one with 1 |
| `writer_two_accounts` | violated: two live writers when processes run under two accounts | the same, two accounts |
| `governance_fencing` | authority never reverts and its root is kept, claims stay executable, memory follows the commit, authorization is committed, DONE is immutable | 2 tasks, 1 step, 3 tokens, 2 faults; REVISE is left to `governance_lifecycle` |
| `governance_lifecycle` | acceptance is earned, a RESULT is kept | 1 task, 2 steps, 2 tokens, no fault |
| `governance_admission` | violated: two unfinished tasks | 2 tasks, 2 tokens |
| `governance_backup` | violated: the backup is not the last good state | 1 fault |
| `task_lock` | violated: two drivers | 2 processes, one of which restarts |
| `tasks` | a turn that may write owns the workspace, a terminal state is the unit's own, bindings are true; the properties of the two legacy drivers | executor: 2 jobs of either access, 2 units, one call at a time, one server exit; the drivers: below |
| `executor_concurrent` | the workspace is never freed under a turn that may still write | 1 job, 2 units, 2 calls at a time, one server exit, one runtime death |
| `executor_restart` | violated: the end of an old unit's turn is taken for the new one's | 1 job, 2 units, one runtime death |
| `host` | the properties of the seven components of `MCHost`, below | below |
| `app_server_exit` | violated: the close of an old child marks the new one as exited | 2 callers, 3 children, 4 requests |

The scenes of `host`, and those of the drivers in `tasks` (`legacy` and `direct`):

| Scene | Properties | Bounds |
|---|---|---|
| relay | `ExecutedAtMostOnce`, `HandleReachesItsRuntime`, `RevokedIsFenced`, `NoStrandedRequest`, the refinement `CallsKeepTheirPromise` | 2 accounts, 1 device with 2 runtimes, at most 3 requests and 4 requests and connections together, limits of 2 pending, a ledger of 3 |
| local | `ActiveHoldsOwner`, `OutcomeIsTrue`, `StatusIsTrue` | one unit of each of the 8 kinds, 3 of them asked for, 2 outside writes, 1 crash |
| runtime | `GuardedRollbackIsProven`, `RecordIsProven`, `ServedProfileIsOnDisk` | 2 operators of any of the 5 tasks one after the other, 2 revisions, 5 processes, 2 deaths |
| connection | `OneChildServes`, `EveryCallSettles` | 2 callers, 3 children, 4 requests |
| commander | `OnlyBlamedChildEnds`, `NoChildIsLost` | 2 calls with the uses of their handles, 4 children |
| legacy | `NeverReruns`, `CompletedIsEarned` | 1 host at a time, 2 mandatory steps, one without a command, 2 rounds |
| direct | `ResultsAreAcknowledged`, `AcceptanceIsBacked` | 3 control ids, 2 steps, sequences up to 3, one upset: a death, or a step that the agent declares itself |
| autostart | `InstalledStarts` | 2 operators, 2 versions, 1 change by another program, 1 death |
| model | `RoutesAreRight`, `WritesFollowMission` | 3 operations, 3 observations, 2 missions, 2 repositories |

`HostTypeOK` is the type invariant of the scene's component.  The type invariants of `WriterGuard`, `DurableGovernance`,
`CodexExecutor`, `LegacyTask` and `DirectRun` are theorems (section 5), and no run repeats them.

**Why the bounds are enough.**  Three processes are the first number at which a
reclaimer, a second reclaimer and the owner both race for differ.  Two attempts
are the first number at which the loop of `acquire` repeats; the code uses three,
and the proofs hold for every value.  Three tokens allow a first Parent, a
takeover and a claim of either.  Two faults let a lost mirror
or a corrupt file meet a failed write or a crash of a later operation.  `MirroredOnly` says that a primary becomes unreadable only when
no older readable backup would take its place: without it an old backup, which
`governance_backup` shows can exist, would be served and `AuthorityNeverReverts` would
fail for that reason alone.

Two units are one job that is
continued or two jobs that compete; two reads (`MaxReads`, three in the code) are the
first number at which `_boundedReconcile` tries again.  `tasks` has one call at a time and no
runtime death because `TerminalIsOwn` holds only then: a `get` that straddles a `continue`
writes the old unit's end onto the job, and `executor_restart` shows the other case.
`WriterOwnsWorkspace` needs neither restriction.  With these bounds on calls and deaths, and no other, both are theorems
(section 5).

Host.  Two accounts and two runtimes of one device are what a handle can be crossed with; two
connections let a lost answer meet a reconnect, three requests let one handle be made and used twice.  The agent's
ledger (128 entries in the code, with 4 requests pending at most) must cover what a device executes
during the life of one request; with a ledger of 2 and one event more a request is executed
again after its entry was evicted, and by `ForgottenRunsAgain` (section 5) only then.  Two operators are an installation and the
activation or recovery that meets what it left, and two deaths may strike both; five processes are the first one, and the target,
its rollback and the runtime that replaces it for the first operator, and one more.  The proofs cover any number.  In the direct scene one bound (`MaxUpsets`) covers deaths and declared steps: the proofs
cover both together.  Three operations are the first number at
which a local route must offer two of them and the native one the third.  Of the four conditions of an availability one
may fail (`Failings`): the code treats them alike.

Four bounds are preconditions of a property, and what happens beyond them is a limit of the code:

* `MaxActive = 1`: operators of activation do not exclude each other; two at once break
  `ServedProfileIsOnDisk` and `GuardedRollbackIsProven`.
* `SlowStarts = FALSE`: a runtime of the same revision that an earlier operator left starting may bind the freed
  port, and the record then names a config it never read, since readiness is by revision (`RecordIsProven`); a rollback
  may likewise start something else than what was stopped (`GuardedRollbackIsProven`).
* `MaxHosts = 1`: `advanceTask` loads the task before it takes the lock; a second host executes
  the step again (`NeverReruns`), and completes the task on a copy that is stale (`CompletedIsEarned`).
* `UnitsApart`, every verify unit has a name of its own: two runs of one check share the unit id, the second acquire is
  idempotent and the first to finish releases for both (`ActiveHoldsOwner`, `OneUnitActive`).

**Deadlock** is checked except where every process may have died
(`WriterGuard`, `TaskLock`) and where the finite units, requests, processes or questions are used up
and no client calls again (`CodexExecutor`, `MCHost`).

**Fairness.**  `WriterGuard!FairSpec` has weak fairness of each process's own
steps (`Work(w)`) and of nothing else.  The guard's calls are synchronous
JavaScript without waits: a process that is alive carries a call it has begun to
its end.  No process must begin a call, crash, or release.  The other modules state no fairness and
claim no liveness; `NoStrandedRequest` says as a state property that somebody who will answer exists.

## 4. Disagreements between the code and what it says

* `writer-guard.js:49` takes every error of `process.kill(pid, 0)` for death, `EPERM`
  too, so a live owner of another account is reclaimed (`writer_two_accounts`).
* `task-lock.js:51` removes a lock it judged stale without looking again
  (`task_lock`).
* `governance/index.js:347` binds the runtime to the task of a RESULT that is then rejected;
  the next PLAN for that task escapes the admission gate (`governance_admission`).
* `governance/store.js:116` may leave an older snapshot in the backup
  (`governance_backup`).
* `executor/app-server-executor.js:561` binds the only unbound turn to the current unit.  The
  runtime dies before a turn is bound, the job is continued while the server
  is down (`continue` does not connect, its unit is recorded before the request is
  rejected), and `reconcile` takes the old turn for the new unit's (`executor_restart`).
* `executor/app-server-client.js:98` takes the late close of a replaced child for the exit of
  the current one, although line 11 promises that a dead child can be replaced on the same instance (`app_server_exit`).

Seen while modelling, without a run of their own:

* `local/verify.js:46` acquires the owner under the name of the check, so a second run of a check is taken for the first
  and the first to finish frees the workspace under the other, while `mutation-owner.js:4` promises that only one unit is
  active at a time.  An instance of `LocalMutation` with two verify units of one `CheckName` violates `OneUnitActive`.
* `legacy/direct-run-controller.js:264` takes the step of a RESULT from the caller and `recordResult` does not compare it, so
  the step of the control is accepted although no RESULT names it, against the comment in line 64 ("there is a prior RESULT for
  that step").  What holds is `AcceptanceIsBacked`: an acknowledged RESULT that passed answered a control of that step.  An
  instance of `DirectRun` with two control ids, two steps, sequences up to 2 and no upset violates `AcceptedStepHasResult`.
* `protocol.js:244` leaves an acceptance as it was first registered.  One that was optional and is required when its
  step is issued again stays optional, and the task completes without it, against the comment in line 232 ("when every REQUIRED
  acceptance has evidence = pass"); `direct-governance.js:90` does update the flag.  What holds is `CompletedIsEarned`, about the
  acceptances that the registry holds as required.  An instance of `LegacyTask` with one host, one plan step, no mandatory
  step and three rounds violates `RequiredIsEarned`.
* `docs/windows-login-autostart.md` says that a task without the marker is never overwritten; query and
  `schtasks /Create /F` are two steps, and a task registered in between is.
  A crash inside `writeFileSync` leaves a durable file without the marker, which every later installation refuses as
  foreign.  An installation that fails after it wrote the file leaves the old task, which then refuses to start at login
  (it fails closed), and two installations at once can leave task and file of different versions.
  The host installers change `filesystemScope` and the workspace roots, which are in the
  binding's fingerprint, so login recovery is refused until autostart is installed again.
* An installation that fails after the cutover restores the config, but its second activation is refused at the
  cutover precheck, so nothing serves until an operator recovers.  A smoke installation whose fixture a root covers is
  different: its record stays valid, the failed activation rolls back to what served, on the new file, the old
  file is restored, and the second activation may fail before it stops anything.  The runtime that is left has the fixture's
  diagnostics entry, which is not on disk.  `ServedProfileIsOnDisk` is about roots and scope and holds there too.
  The installers run the activator without the guard: when an earlier activation died between readiness and record,
  they roll back to the stale record.
* `LegacyTask`: `cancelTask` removes the lock and writes `cancelled`, which a running engine's next persist
  overwrites; a task created for an adopted conversation has no control, so its first advance ends in `recovery_required`.
  After REVISE an execution without evidence keeps the older pass.
* `DirectRun`: `start` on a loaded ledger restores neither the acceptance nor the last step; a crash between
  the two persists of `acceptBrainReply` loses the acceptance of the prior step; failures of `ledger.persist` are swallowed.
  `setBrainAcceptance` needs no control and no RESULT, although `direct-governance.js:184` says that only a valid Brain control may
  change an acceptance: the caller is trusted with it.
* `AppServerConnection`: once a late close has set `exited`, `close()` finds nothing to end and the current child is left
  running.  `_spawn` does not reset `_connected`, so while one caller waits for `initialize` of a new child, a
  second `connect()` returns at once and its requests go to a child that is not initialised.
* `CommanderChild`: `ProcessService.close` may start a child only to terminate processes of a dead one, and a start that
  resolves after it leaves a process nobody terminates.
  A probe that times out ends the current child, also one that was started after the probe was sent.
* `OperatingModel`: a replacement parent that is still a candidate is told `readOnly` in its role, but
  `assertRepositoryMutationAuthorized` looks only at the authority (`docs/cross-project-adoption.md:30`);
  two sessions may both be told `NEW_GENESIS` and both create a control, after which every resolution refuses as ambiguous;
  a bound authority is not compared with anything while there is no control; `read_only` Codex access
  cannot come out of `decideRoute`, since read-only local work goes to ChatGPT.

## 5. Proofs

Eight modules hold theorems.  Each is for every value of the constants that the named assumptions of the component's
module allow (bounds are naturals, the null values are no members), and for the behaviours of the component's own
specification: a scene of `host` or `tasks` is one of them.  Where a theorem needs more, the hypothesis
is in its statement, and a run, or one with the bound raised, shows that the theorem is false without it.

| Theorem | States | Needs |
|---|---|---|
| `WriterGuardProofs!TypeCorrect` | `TypeOK` | |
| `OwnershipCorrect`, `SingleWriter`, `ReclaimIsExact`, `CommitsOwned`, `LiveOwnerNeverReclaimed`, `Refinement` | the invariants, the action property and the refinement of `writer_guard` | `OneUser` |
| `DurableGovernanceProofs!TypeCorrect`, `ClaimsAreExecutable`, `AcceptanceEarned` | `TypeOK`, `ActiveClaimIsExecutable`, `AcceptanceIsEarned` | |
| `MemoryFollows`, `AuthorizationCommitted`, `AuthorityMonotone`, `DoneImmutable`, `ResultKept` | `MemoryFollowsCommit`, `AuthorizationIsCommitted`, `AuthorityNeverReverts`, `DoneIsImmutable`, `ResultIsKept` | `MirroredOnly` |
| `CodexExecutorProofs!ExecutorTyped`, `WriterOwns` | `TypeOK`, `WriterOwnsWorkspace` | |
| `BindingsAreTrue`, `TerminalsAreOwn` | `BindingIsTrue`, `TerminalIsOwn` | at most one caller, `MaxCrashes = 0` |
| `LocalMutationProofs!LocalTyped`, `ActiveUnitHolds`, `OneUnitRuns`, `ToldIsTrue`, `StatusTold` | type correctness, `ActiveHoldsOwner`, `OneUnitActive`, `OutcomeIsTrue`, `StatusIsTrue` | `UnitsApart` |
| `RelayProofs!RelayInvariant`, `RevokedFenced`, `HandlesReach`, `ForgottenRunsAgain` | `RelayInv`, `RevokedIsFenced`, `HandleReachesItsRuntime`, `OnlyForgottenRunsAgain` | |
| `NothingStranded`, `RelayTyped`, `KeepsPromises` | `NoStrandedRequest`, `RelayTypeOK`, the refinement `CallsKeepTheirPromise` | |
| `ExecutedOnce` | `ExecutedAtMostOnce` | `LedgerLimit >= MaxRequests` |
| `StableRuntimeProofs!RuntimeInvariant`, `RecordProven`, `GuardedRollback`, `ServedOnDisk` | `RuntimeInv`, `RecordIsProven`, `GuardedRollbackIsProven`, `ServedProfileIsOnDisk` | `MaxActive = 1`, `~SlowStarts` |
| `TaskProofs!DirectTyped`, `ResultsAcknowledged`, `AcceptanceBacked` | `DirectTypeOK`, `ResultsAreAcknowledged`, `AcceptanceIsBacked` | |
| `LegacyTyped`, `NoRerun`, `CompletionEarned` | `LegacyTypeOK`, `NeverReruns`, `CompletedIsEarned` | `MaxHosts = 1` |
| `HostProofs!OnlyBlamedEnds`, `NoneLost` | `OnlyBlamedChildEnds`, `NoChildIsLost` | |
| `InstallationStarts` | `InstalledStarts` | |
| `MissionFollowed`, `RoutesRight` | `WritesFollowMission`, `RoutesAreRight` | |
| `OneChild`, `CallsSettle` | `OneChildServes`, `EveryCallSettles` | |

The properties are not inductive by themselves in general.  What each proof adds, and why:

**Writer guard.**  `OwnershipInv` adds what each place of the
protocol may rely on: a holder's record is in the slot (`HoldersOwnSlot`), only
holders stand at the places of a holder (`HeldPlaces`), a process about to fill the
slot created it (`FillersOwnSlot`), whoever stands in the election section owns the
token (`ElectedOwnToken`), the record a reclaimer carries is of a dead process
(`InspectedIsDead`), what it is about to remove is still that record
(`RemovedIsInspected`), and a readable slot has an author (`SlotAuthor`).  The key
step is that between revalidation and removal nobody else can replace a dead
process's record, because that needs the token.  `Refinement` maps the owner to the
author of a readable slot.

**Durable governance.**  `IInv` is `TypeOK`, `FilesVouched` (every readable file, primary or backup, holds an
envelope of its own task, a state whose acceptances are earned, a token that was minted, and a claim that its
state can still execute) and `MemorySettled` (a runtime that is not recovery-required works on such a state,
and under `MirroredOnly` on the one that a reader of the disk would find).  The backup must be vouched for by itself,
since a primary may become unreadable at any time.  The action properties come from one more lemma, `StepExtends`: a step
that commits, commits an envelope that extends the readable one (generations, root, terminal states, gates).
The proof attempt of `ResultIsKept` in its first form failed because a RESULT of status `unknown` cannot be told from
none; the property now speaks of the gate.

**Codex executor.**  The owner is released by what was read of a turn, before an await, so the invariant says what a job
record and a call's snapshot of it may be wrong about: a binding names the unit its turn was started for, or a unit whose turn is
over and will never run again (`Dead`).  Then the unit that a call releases is never the one whose turn runs.  `Apart`
says that two calls do not both have the same unit still to dispatch.  This holds for any number of calls, server exits and
deaths of the runtime, also in the behaviours in which `executor_restart` violates `TerminalIsOwn`: a job may be told a wrong end, but never at the
price of a second writer.

`TerminalsAreOwn` and `BindingsAreTrue` are about the opposite case: one call at a time and no death of the runtime.  Then
nothing wrong is recorded, however notifications, replies, time-outs and server exits fall.  `OwnInv` says why
`_resolveCurrentUnitTurn` may take the only unbound turn: a turn that ran and is bound nowhere is that of the unit which has the
workspace, and that unit is the job's current one (`OwnRecord`), because a new unit can take the workspace only from nobody, and
the current one gives it up only to a bound turn or to none.  A snapshot lacks at most the binding of the current
unit (`OwnSnapshot`), since the only caller dispatches nothing while it waits.  Neither hypothesis can be spared:
`executor_restart` violates `TerminalIsOwn` with a death and one caller, the executor scene of `tasks` violates both properties
with a death, and with a second caller.

**Local mutations.**  `LocalInv` says for each place of each kind of unit what the file, the persisted status, the
answer and the ghost `landed` can be there (`UnitFits`), that whoever runs holds the owner record, and that the record
is well formed.  `OneUnitRuns` is the header's promise.

**Relay.**  `RelayInv` ties the three places a request is known: the relay's item names a runtime of its device (`RequestFits`),
the agent of that runtime has it in hand or has answered it (`AgentFits`), a late response is of what its runtime executed (`MessageFits`);
sessions and held polls are of the device row (`SessionFits`).  `LedgerInv` adds that of what a runtime executed only evicted requests are missing in
its ledger, which is full when one is.  `ForgottenRunsAgain` is the exact statement for a ledger of any size: a runtime that executes
a request again has executed `LedgerLimit` others since.  `ExecutedOnce` is the special case in which that cannot happen.

`ReachInv` adds where a pending request is: it is of its device's current session, and in the queue, in the hand of
its runtime's agent, or of an agent that is away and whose next connection queues it again (`PendingFits`, `Placed`).  It needs that a late call is never ahead of the row
(`StrayFits`, `EpochFits`), that a held poll has found its queue empty, and that a poll nobody waits on is of an agent that is away
(`WaiterFits`): a request handed to such a poll is lost on the way, and only that agent's reconnection brings it back.  The queue
is written with `Ordered` and `Without`, functions on index sets, so what they return is a lemma and not an induction.
`KeepsPromises` is proved step by step (`Calls`): each action of the relay, of an agent or of a late message is a step of `RemoteCall`
or none.  A response settles a call only when its runtime has executed the request (`MessageFits`, `AgentFits`), and all rejections of one
action are one `Reject`.

**Stable runtime.**  `RuntimeInv`: at most one process lives and it listens unless it is starting, what is ready has been
proven, and the one operator at work knows what lives (`OperatorFits`, place by place).  `ServedInv` adds, while
nobody was killed, which profile that process has read and which of the two an installer has on disk: while an
installer's profile differs from the one it saved (`Away`) the record is not valid, so the only way back is its own restoration, and
otherwise what lives and what is recorded are of the file's profile (`Settled`), whatever became of the diagnostics entry.

**Direct Brain Loop and legacy task.**  `DirectInv`: the last control and its RESULT fit each other (`SequenceFits`), and what
the controller remembers, or has still to record after its first persist, is already backed or declared (`ControllerFits`).  `LegacyInv`: the
number of executions of a step is what the file says (`RanFits`; `executing` is persisted before the executor is
called), one step is in flight (`FlightFits`), evidence that is not in the registry is that step's (`ProofFits`), which holds of optional acceptances as well,
and a call works on what the file still says (`CallFits`), which is what fails with a second host.

**Commander child.**  `CommanderInv` adds `HeldIsCurrent`: the pair held is the one being started, if any is, and without a start in
flight an open supervisor that has a pair is ready, so it never starts another over it; and children are numbered as they come.

**Start at login.**  `OneWorks`: while nobody has interfered at most one operator is at work, nothing is promised while it is, and what it
carries in memory is what it has read or written (`WorkFits`).  It says nothing of the files of an
operator that died before, so `InstallationStarts` covers any state it left them in.

**App Server client.**  `ConnInv`: children are numbered as they were spawned and the last is the client's own, a
request waits on a child whose end was not reported, each caller inside `connect` has exactly one `initialize` request waiting, and
a client whose own child has closed is marked exited.  The close handler rejects everything, also the requests of
another child; that is the bug of `app_server_exit`, and the reason that nobody waits for ever.

**Operating model.**  `ModelInv` keeps question and answer together.  The weight is in the lemmas about the operators: the greedy
composition of `RouteRequired` never misses a team and never takes a larger one.  The proofs need guards of `CASE` to be disjoint
(TLA+ leaves the choice open where they overlap; TLC takes the first), so the decision tables are written as `IF` or
disjoint cases, which is also what the code's early returns say.

**Only model-checked**, by the runs of section 3:

* `CallsReturn`: liveness under fairness.
* `HostTypeOK`: it joins the type invariants of seven components; what the theorems need of each
  is part of its inductive invariant (`RuntimeTypes`, `CommanderTypes`, `AutoTyped`, `ConnInv`, ...), and `RelayTyped` is a theorem.
  Nothing is proved of `TaskLock`, of which the run shows the violation.

## 6. Not modelled

`PROJECT.json` lists every part with its reason.  In short:

* document formats, structured reads, search, path policy, worktree and git commands, text parsing of envelopes and of tool output,
  configuration, doctor and verification commands: pure functions or command wrappers without protocol state;
* capsule and observation: projections of a governance snapshot;
* MCP dispatch, OAuth and HTTP framing: wiring around the modelled parts;
* approvals of the executor: a request is answered or times out within one turn, whose end is modelled;
* of the legacy engine the worker, `direct-mode.js`, `loop-controller.js`, `atomic-turn.js` and the browser transport, and
  `publication-transaction.js`, which no code in `src/` calls;
* of Windows operability the relay migration, the private doctor and the bootstrap wizard;
* the v1 project profile, session names and rendering of the operating model.

## 7. Plan

Proved are the 47 theorems of section 5; every invariant and action property of a passing run is stated by one, except
`HostTypeOK`.  What is left, in this order:

1. Abstract specifications of further components with the refinement proved step by step, as for the writer
   guard and the relay: one writer at a time for `CodexExecutor` and `LocalMutation`, the last committed snapshot for
   `DurableGovernance`.
2. Liveness of recovery (a reconcile eventually frees the owner, a pending request is eventually
   settled), for TLC: it needs fairness of the agent's reconnect loop and of the App Server, which the models leave open.
3. Approvals and shutdown of the executor.
