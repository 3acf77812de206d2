---------------------------- MODULE StableRuntime ----------------------------
(* Activation, recovery and host installation of the Stable Runtime: one      *)
(* fixed loopback port, one config file, one record of the last active        *)
(* revision (stable-runtime-active.json), one exact checkout per revision and *)
(* the operators' processes that replace what serves:                         *)
(*   activate   scripts/stable-runtime-activate.mjs, the activator with the   *)
(*              rollback guard;                                               *)
(*   recover    host/stable-runtime-recover.mjs, after a reboot or login;     *)
(*   scope, root, smoke   its host installers, which edit the config and run  *)
(*              the plain activator, twice when the first run fails.          *)
(* The host is Windows (_listeningPids): stopping a pid ends the process.     *)
(* Probes, git, npm and the external tunnel may fail at every call.           *)
EXTENDS Naturals, FiniteSets

CONSTANTS
  Operators,       \* numbered in the order they begin
  Tasks,           \* what the operators do
  Revisions,
  FirstRevision,   \* the revision that serves at first
  MaxSpawns,       \* bound: runtime processes
  MaxActive,       \* bound: operators at work at the same time
  MaxFaults,       \* bound: deaths of runtimes and operators
  SlowStarts       \* whether a runtime may still be starting when the next operator begins

OperatorKinds == {"activate", "recover", "scope", "root", "smoke"}
\* A config is what the installers have added to the first one: the whole user's file
\* system, an authorized root, the fixture's root, the fixture's diagnostics entry.
Configs == SUBSET {"user_scope", "root", "fixture", "diagnostics"}
Original == {}

NoRevision == "none"
ASSUME RuntimeAssumption ==
  /\ Operators \subseteq Nat /\ Tasks \subseteq OperatorKinds
  /\ FirstRevision \in Revisions /\ NoRevision \notin Revisions
  /\ MaxSpawns \in Nat /\ MaxActive \in Nat /\ MaxFaults \in Nat /\ SlowStarts \in BOOLEAN

NoRecord == [sha |-> NoRevision, cfg |-> Original]

VARIABLES
  procs,        \* the runtime processes by pid, in the order they were started
  port,         \* the pid that listens, or 0
  configFile,
  active,       \* the last active revision, with the profile fingerprint
  clean,        \* revisions with an exact clean checkout
  acts,         \* acts[o]: what operator o does
  proven,       \* ghost: pairs <<revision, fingerprint>> that served ready
  faults

runtimeVars == <<procs, port, configFile, active, clean, acts, proven, faults>>

Pids == DOMAIN procs
Alive(p) == procs[p].st # "dead"
Listening == IF port = 0 THEN {} ELSE {port}
HealthOk == port # 0
ReadyOk == port # 0 /\ procs[port].st = "ready"
Serving == IF ReadyOk THEN procs[port].sha ELSE NoRevision

Resting == [pc |-> "idle", kind |-> "none", phase |-> "target", sha |-> NoRevision,
            fp |-> Original, seen |-> NoRevision, pid |-> 0, was |-> NoRevision, target |-> 0,
            back |-> NoRecord, before |-> NoRevision, saved |-> Original,
            next |-> Original, changed |-> FALSE]

RuntimeTypeOK ==
  /\ \A p \in Pids : procs[p].sha \in Revisions /\ procs[p].cfg \in Configs
                     /\ procs[p].st \in {"starting", "listening", "ready", "dead"}
  /\ port \in {0} \cup {p \in Pids : Alive(p)}
  /\ configFile \in Configs
  /\ active.sha \in Revisions \cup {NoRevision} /\ active.cfg \in Configs
  /\ clean \subseteq Revisions
  /\ \A o \in Operators : acts[o].pid \in {0} \cup Pids /\ acts[o].target \in {0} \cup Pids

RuntimeInit ==
  /\ procs = [p \in {1} |-> [sha |-> FirstRevision, cfg |-> Original, st |-> "ready"]]
  /\ port = 1
  /\ configFile = Original
  /\ active \in {NoRecord, [sha |-> FirstRevision, cfg |-> Original]}
  /\ clean = {FirstRevision}
  /\ acts = [o \in Operators |-> Resting]
  /\ proven = {<<FirstRevision, Original>>}
  /\ faults = 0

------------------------------------------------------------------------------
(* What the operators do to the host.                                         *)

Kind(o) == acts[o].kind
Installer(o) == Kind(o) \in {"scope", "root", "smoke"}
Forced(o) == Installer(o)
Over(o) == acts[o].pc \in {"idle", "pass", "fail", "crashed"}
MayBegin(o) ==
  /\ \A x \in Operators : x < o => acts[x].pc # "idle"
  /\ Cardinality({x \in Operators : ~Over(x)} \cup {o}) <= MaxActive
  /\ SlowStarts \/ \A p \in Pids : procs[p].st # "starting"
At(o, pc) == acts[o].pc = pc
Step(o, pc) == acts' = [acts EXCEPT ![o].pc = pc]
End(o, outcome) == acts' = [acts EXCEPT ![o] = [Resting EXCEPT !.pc = outcome]]

\* stopPid ends the process; it throws when there is none.
Killed(p) == [procs EXCEPT ![p].st = "dead"]
PortWithout(p) == IF port = p THEN 0 ELSE port

\* spawnRuntime: the process reads the config file when it starts.
SpawnRuntime(sha) ==
  LET p == Cardinality(Pids) + 1 IN
  /\ Cardinality(Pids) < MaxSpawns
  /\ procs' = [q \in Pids \cup {p} |->
                 IF q = p THEN [sha |-> sha, cfg |-> configFile, st |-> "starting"] ELSE procs[q]]
NewPid == Cardinality(Pids) + 1

\* stableProfileSnapshot leaves the diagnostics out.
ProfileFingerprint(cfg) == cfg \ {"diagnostics"}
\* An exact checkout whose worktree is clean.
CleanCheckout(sha) == sha \in clean

\* _validateRollbackState of the plain activator.
ValidState(fp) == active.sha # NoRevision /\ active.cfg = fp /\ CleanCheckout(active.sha)

\* Mutant: the record alone decides, whatever serves.
GuardedCandidateMutant(o) == IF ValidState(acts[o].fp) THEN active ELSE NoRecord
\* _validateRollbackState of the rollback guard: the record must name what the last
\* probe saw; without a valid record, the checkout of what the probe saw.
GuardedCandidate(o) ==
  LET seen == acts[o].seen IN
  CASE seen = NoRevision -> NoRecord
    [] seen # NoRevision /\ ValidState(acts[o].fp) -> IF active.sha = seen THEN active ELSE NoRecord
    [] OTHER -> IF CleanCheckout(seen) THEN [sha |-> seen, cfg |-> acts[o].fp] ELSE NoRecord

RollbackCandidate(o) ==
  IF Kind(o) = "activate" THEN GuardedCandidate(o)
  ELSE IF ValidState(acts[o].fp) THEN active ELSE NoRecord

------------------------------------------------------------------------------
(* host/stable-runtime-first-bootstrap.mjs binds the config it is given, or   *)
(* that of the one listener, materializes the exact checkout and runs the     *)
(* operator from it.                                                          *)
ConfigBound(given) == given \/ Cardinality(Listening) = 1
FirstBootstrap(o, sha, kind, given) ==
  /\ ConfigBound(given)
  /\ At(o, "idle") /\ kind \in Tasks \ {"recover"} /\ MayBegin(o)
  /\ clean' = clean \cup {sha}
  /\ acts' = [acts EXCEPT ![o].pc = "booted", ![o].sha = sha, ![o].kind = kind]
  /\ UNCHANGED <<procs, port, configFile, active, proven, faults>>

\* A command line, given directly or by the bootstrap.
Asked(o, sha, kind) ==
  \/ At(o, "idle") /\ kind \in Tasks
  \/ At(o, "booted") /\ acts[o].sha = sha /\ acts[o].kind = kind

\* activate: the config is loaded, its fingerprint taken, the target validated.
Activate(o, sha) ==
  /\ Asked(o, sha, "activate") /\ MayBegin(o)
  /\ acts' = [acts EXCEPT ![o].pc = "probe", ![o].kind = "activate", ![o].sha = sha,
                          ![o].fp = ProfileFingerprint(configFile)]
  /\ UNCHANGED <<procs, port, configFile, active, clean, proven, faults>>

------------------------------------------------------------------------------
(* The installers: what each writes, and how it begins.                       *)

\* A policy keeps the roots or, for selected roots, may name the ones that stay.
ScopeConfigs(cfg) ==
  {cfg \cup {"user_scope"}, cfg \ {"user_scope"}, cfg \ {"user_scope", "root", "fixture"}}
RootConfig(cfg) == cfg \cup {"root"}
\* The fixture's root is added unless one of the roots covers it; the diagnostics entry
\* names it in either case.
SmokeConfig(cfg, covered) ==
  cfg \cup {"diagnostics"} \cup (IF covered THEN {} ELSE {"fixture"})

\* _probeCurrentServing: one listener that is healthy and ready at one exact revision.
ServingProven == Serving # NoRevision /\ Cardinality(Listening) = 1

\* The config is read before what serves is probed.
ReadConfig(o, sha, kind, cfg) ==
  /\ Asked(o, sha, kind) /\ MayBegin(o)
  /\ acts' = [acts EXCEPT ![o].pc = "bind", ![o].kind = kind, ![o].sha = sha,
                          ![o].saved = configFile, ![o].next = cfg]
  /\ UNCHANGED <<procs, port, configFile, active, clean, proven, faults>>

InstallScope(o, sha, cfg) == ReadConfig(o, sha, "scope", cfg)
InstallRoot(o, sha) == ReadConfig(o, sha, "root", RootConfig(configFile))
\* The fixture's payload is written before the config is read.
InstallSmoke(o, sha, covered) ==
  ReadConfig(o, sha, "smoke", SmokeConfig(configFile, covered))

\* What serves is bound, the config written and the activation of the target forced; an
\* unchanged scope needs none.
WriteConfig(o) ==
  LET a == acts[o]
      cfg == IF a.next # a.saved THEN a.next ELSE configFile
  IN
  /\ At(o, "bind")
  /\ \/ ServingProven /\ Kind(o) = "scope" /\ a.next = a.saved
        /\ End(o, "pass") /\ UNCHANGED configFile
     \/ ServingProven /\ (Kind(o) # "scope" \/ a.next # a.saved)
        /\ configFile' = cfg
        /\ acts' = [acts EXCEPT ![o].pc = "probe", ![o].fp = ProfileFingerprint(cfg),
                      ![o].before = Serving, ![o].changed = a.next # a.saved]
     \/ End(o, "fail") /\ UNCHANGED configFile
  /\ UNCHANGED <<procs, port, active, clean, proven, faults>>

\* The installer's second activation: what served before, under the config given.
Restoring(o, cfg) ==
  [Resting EXCEPT !.pc = "probe", !.kind = Kind(o), !.phase = "restore", !.sha = acts[o].before,
                  !.fp = ProfileFingerprint(cfg), !.before = acts[o].before]
\* Mutant: the config stays as the failed installation left it.
GiveUpMutant(o) ==
  /\ UNCHANGED configFile
  /\ IF Installer(o) /\ acts[o].phase = "target"
     THEN acts' = [acts EXCEPT ![o] = Restoring(o, configFile)]
     ELSE End(o, "fail")
\* An activation that fails ends an activate; an installer restores the config and
\* activates what served before, once.
GiveUp(o) ==
  IF Installer(o) /\ acts[o].phase = "target"
  THEN LET orig == IF acts[o].changed THEN acts[o].saved ELSE configFile IN
       /\ configFile' = orig
       /\ acts' = [acts EXCEPT ![o] = Restoring(o, orig)]
  ELSE End(o, "fail") /\ UNCHANGED configFile

\* The target is active already; or it is not bound to origin/main; or it is prepared:
\* an exact clean worktree, npm ci and an oneshot preflight.
ActProbe(o) ==
  /\ At(o, "probe")
  /\ \/ ~Forced(o) /\ Serving = acts[o].sha /\ End(o, "pass") /\ UNCHANGED <<configFile, clean>>
     \/ (Forced(o) \/ Serving # acts[o].sha)
        /\ Step(o, "precheck") /\ clean' = clean \cup {acts[o].sha} /\ UNCHANGED configFile
     \/ GiveUp(o) /\ UNCHANGED clean
  /\ UNCHANGED <<procs, port, active, proven, faults>>

\* The cutover precheck probes what serves.
ActPrecheck(o) ==
  /\ At(o, "precheck")
  /\ \/ HealthOk /\ ReadyOk
        /\ acts' = [acts EXCEPT ![o].pc = "select", ![o].seen = Serving] /\ UNCHANGED configFile
     \/ GiveUp(o)
  /\ UNCHANGED <<procs, port, active, clean, proven, faults>>

\* Exactly one listener; then the record is read and validated.
ActSelect(o) ==
  /\ At(o, "select")
  /\ IF Cardinality(Listening) = 1
     THEN /\ acts' = [acts EXCEPT ![o].pc = "stop", ![o].pid = port,
                                  ![o].back = RollbackCandidate(o)]
          /\ UNCHANGED configFile
     ELSE GiveUp(o)
  /\ UNCHANGED <<procs, port, active, clean, proven, faults>>

ActStop(o) ==
  LET p == acts[o].pid IN
  /\ At(o, "stop")
  /\ procs' = Killed(p) /\ port' = PortWithout(p)
  /\ acts' = [acts EXCEPT ![o].pc = IF Alive(p) THEN "await_free" ELSE "error",
                          ![o].was = procs[p].sha]
  /\ UNCHANGED <<configFile, active, clean, proven, faults>>

ActStart(o) ==
  /\ At(o, "await_free")
  /\ \/ port = 0 /\ SpawnRuntime(acts[o].sha)
        /\ acts' = [acts EXCEPT ![o].pc = "await_ready", ![o].target = NewPid]
     \/ Step(o, "error") /\ UNCHANGED procs
  /\ UNCHANGED <<port, configFile, active, clean, proven, faults>>

\* Mutant: a listener is enough, its readiness and revision are not.
ExactReadyMutant(sha) == HealthOk
ExactReady(sha) == Serving = sha

\* _waitForExactReady looks at the revision that answers, until its deadline.
ActAwaitReady(o) ==
  /\ At(o, "await_ready")
  /\ \/ ExactReady(acts[o].sha) /\ Step(o, "write")
     \/ Step(o, "error")
  /\ UNCHANGED <<procs, port, configFile, active, clean, proven, faults>>

ActWrite(o) ==
  /\ At(o, "write")
  /\ active' = [sha |-> acts[o].sha, cfg |-> acts[o].fp]
  /\ End(o, IF acts[o].phase = "target" THEN "pass" ELSE "fail")
  /\ UNCHANGED <<procs, port, configFile, clean, proven, faults>>

\* The catch block: the target is stopped, then the rollback candidate started.
ActError(o) ==
  LET t == acts[o].target IN
  /\ At(o, "error")
  /\ IF t = 0 THEN UNCHANGED <<procs, port>> ELSE procs' = Killed(t) /\ port' = PortWithout(t)
  /\ IF acts[o].back.sha \notin {NoRevision, acts[o].sha}
     THEN Step(o, "back_start") /\ UNCHANGED configFile
     ELSE GiveUp(o)
  /\ UNCHANGED <<active, clean, proven, faults>>

BackStart(o) ==
  /\ At(o, "back_start")
  /\ SpawnRuntime(acts[o].back.sha) /\ Step(o, "back_ready")
  /\ UNCHANGED <<port, configFile, active, clean, proven, faults>>

BackReady(o) ==
  /\ At(o, "back_ready")
  /\ \/ ExactReady(acts[o].back.sha) /\ active' = acts[o].back
     \/ UNCHANGED active
  /\ GiveUp(o)
  /\ UNCHANGED <<procs, port, clean, proven, faults>>

------------------------------------------------------------------------------
(* recover: the revision is given, or that of the valid record.               *)

SelectTarget(given, fp) ==
  IF given # NoRevision THEN given
  ELSE IF ValidState(fp) THEN active.sha ELSE NoRevision

Recover(o, given) ==
  LET fp == ProfileFingerprint(configFile) IN
  /\ At(o, "idle") /\ "recover" \in Tasks /\ MayBegin(o)
  /\ SelectTarget(given, fp) # NoRevision
  /\ acts' = [acts EXCEPT ![o].pc = "r_probe", ![o].kind = "recover",
                          ![o].sha = SelectTarget(given, fp), ![o].fp = fp]
  /\ UNCHANGED <<procs, port, configFile, active, clean, proven, faults>>

\* What answers must be the exact revision and is reused; a listener that does not
\* answer is a conflict.
RecoverProbe(o) ==
  /\ At(o, "r_probe")
  /\ \/ Serving = acts[o].sha /\ acts' = [acts EXCEPT ![o].pc = "r_final", ![o].pid = port]
        /\ UNCHANGED clean
     \/ port = 0 /\ Step(o, "r_start") /\ clean' = clean \cup {acts[o].sha}
     \/ End(o, "fail") /\ UNCHANGED clean
  /\ UNCHANGED <<procs, port, configFile, active, proven, faults>>

RecoverStart(o) ==
  /\ At(o, "r_start") /\ SpawnRuntime(acts[o].sha)
  /\ acts' = [acts EXCEPT ![o].pc = "r_ready", ![o].target = NewPid, ![o].pid = NewPid]
  /\ UNCHANGED <<port, configFile, active, clean, proven, faults>>

RecoverReady(o) ==
  /\ At(o, "r_ready")
  /\ \/ ExactReady(acts[o].sha) /\ port = acts[o].pid /\ Step(o, "r_final")
     \/ Step(o, "r_error")
  /\ UNCHANGED <<procs, port, configFile, active, clean, proven, faults>>

RecoverFinal(o) ==
  /\ At(o, "r_final")
  /\ \/ ExactReady(acts[o].sha) /\ port = acts[o].pid /\ End(o, "pass")
        /\ active' = IF acts[o].target = 0 THEN active ELSE [sha |-> acts[o].sha, cfg |-> acts[o].fp]
     \/ Step(o, "r_error") /\ UNCHANGED active
  /\ UNCHANGED <<procs, port, configFile, clean, proven, faults>>

RecoverError(o) ==
  LET t == acts[o].target IN
  /\ At(o, "r_error") /\ End(o, "fail")
  /\ IF t = 0 THEN UNCHANGED <<procs, port>> ELSE procs' = Killed(t) /\ port' = PortWithout(t)
  /\ UNCHANGED <<configFile, active, clean, proven, faults>>

------------------------------------------------------------------------------
(* The runtimes bind the port or exit, become ready, and die; an operator's   *)
(* process may be ended at any step.                                          *)

RuntimeBinds(p) ==
  /\ procs[p].st = "starting"
  /\ procs' = [procs EXCEPT ![p].st = IF port = 0 THEN "listening" ELSE "dead"]
  /\ port' = IF port = 0 THEN p ELSE port
  /\ UNCHANGED <<configFile, active, clean, acts, proven, faults>>

RuntimeReady(p) ==
  /\ procs[p].st = "listening"
  /\ procs' = [procs EXCEPT ![p].st = "ready"]
  /\ proven' = proven \cup {<<procs[p].sha, ProfileFingerprint(procs[p].cfg)>>}
  /\ UNCHANGED <<port, configFile, active, clean, acts, faults>>

RuntimeDies(p) ==
  /\ Alive(p) /\ faults < MaxFaults /\ faults' = faults + 1
  /\ procs' = Killed(p) /\ port' = PortWithout(p)
  /\ UNCHANGED <<configFile, active, clean, acts, proven>>

OperatorDies(o) ==
  /\ ~Over(o) /\ faults < MaxFaults /\ faults' = faults + 1
  /\ End(o, "crashed")
  /\ UNCHANGED <<procs, port, configFile, active, clean, proven>>

RuntimeNext ==
  \/ \E o \in Operators :
       \/ \E sha \in Revisions :
            \/ Activate(o, sha)
            \/ \E kind \in Tasks, given \in BOOLEAN : FirstBootstrap(o, sha, kind, given)
            \/ \E cfg \in ScopeConfigs(configFile) : InstallScope(o, sha, cfg)
            \/ InstallRoot(o, sha)
            \/ \E covered \in BOOLEAN : InstallSmoke(o, sha, covered)
       \/ \E given \in Revisions \cup {NoRevision} : Recover(o, given)
       \/ WriteConfig(o) \/ ActProbe(o) \/ ActPrecheck(o) \/ ActSelect(o) \/ ActStop(o)
       \/ ActStart(o) \/ ActAwaitReady(o) \/ ActWrite(o) \/ ActError(o) \/ BackStart(o) \/ BackReady(o)
       \/ RecoverProbe(o) \/ RecoverStart(o) \/ RecoverReady(o) \/ RecoverFinal(o)
       \/ RecoverError(o) \/ OperatorDies(o)
  \/ \E p \in Pids : RuntimeBinds(p) \/ RuntimeReady(p) \/ RuntimeDies(p)

RuntimeSpec == RuntimeInit /\ [][RuntimeNext]_runtimeVars

------------------------------------------------------------------------------
(* A rollback starts the revision that the operator found serving and         *)
(* stopped, and no other, for activations through the rollback guard          *)
(* (stable-runtime-rollback-guard.js _validateRollbackState): what the probe  *)
(* saw before the awaits is still what is stopped after them, also when an    *)
(* earlier operator died between readiness and the record, or the runtime     *)
(* died.                                                                      *)
GuardedRollbackIsProven ==
  \A o \in Operators :
    Kind(o) = "activate" /\ acts[o].pc \in {"back_start", "back_ready"} =>
      acts[o].back.sha = acts[o].was

(* The record that recovery trusts after a reboot names only a revision that  *)
(* was ready under the very config whose fingerprint it holds                 *)
(* (stable-runtime-activator.js activate, stable-runtime-recover.mjs          *)
(* recover), wherever operators and runtimes died in between.                 *)
RecordIsProven ==
  active.sha # NoRevision => <<active.sha, active.cfg>> \in proven

(* Once every operator has ended, none of them by a crash, no runtime is left *)
(* that loaded another profile than the file holds, that is, other roots or   *)
(* another scope: a failed installation leaves neither its profile on disk    *)
(* nor a runtime that serves it (filesystem-scope-installer.js,               *)
(* authorized-workspace-root-installer.js and read-only-smoke-installer.js    *)
(* install).  The diagnostics entry is no part of the profile, and a runtime  *)
(* may well be left with the entry of a failed installation: a fixture that a *)
(* root covers changes nothing else, so the record stays valid, the rollback  *)
(* starts what served on the new file, and the second activation, after the   *)
(* file is restored, may fail before it replaces it.                          *)
ServedProfileIsOnDisk ==
  (\A o \in Operators : acts[o].pc \in {"idle", "pass", "fail"})
    => \A p \in Pids : Alive(p) =>
         ProfileFingerprint(procs[p].cfg) = ProfileFingerprint(configFile)
==============================================================================
