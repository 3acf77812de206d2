---------------------------- MODULE LoginAutostart ----------------------------
(* Start at Windows login: scripts/windows-login-autostart.mjs registers one  *)
(* of two kinds of action under one task name, and                            *)
(* scripts/windows-desktop-relay-host-autostart.mjs a third under another.    *)
(*   stable-runtime  the action holds the fingerprint of the config binding   *)
(*                   and delegates to recovery (module StableRuntime);        *)
(*   relay-host      the action holds the hash of a durable copy of a         *)
(*   desktop         reviewed bootstrap file, which installing writes first.  *)
(* What a bootstrap file or a config says is its version, and a hash tells    *)
(* versions apart.  Task registration and files are not one transaction:      *)
(* operators, logins, other programs and crashes come between the steps.      *)
EXTENDS Naturals, FiniteSets

CONSTANTS
  Installers,     \* the operators' processes, numbered in the order they begin
  Versions,       \* of a reviewed bootstrap, and of a valid config binding
  MaxForeign,     \* bound: changes by other programs
  MaxAborts       \* bound: operators ended in the middle

ASSUME AutostartAssumption ==
  /\ Installers \subseteq Nat /\ MaxForeign \in Nat /\ MaxAborts \in Nat
  /\ Versions # {}

LoginKinds == {"stable-runtime", "relay-host"}
StartKinds == LoginKinds \cup {"desktop"}
Bootstraps == StartKinds \ {"stable-runtime"}      \* the kinds with a durable file
TaskNames == {"login", "desktop"}
NoVersion == "none"
Unmarked == {"blank", "alien"}                \* contents without the ownership marker
FileContents == {NoVersion, "torn"} \cup Unmarked \cup Versions

NoTask == [owner |-> "absent", kind |-> "none", hash |-> NoVersion]
NotDone == [kind |-> "none", hash |-> NoVersion]
AtRest == [pc |-> "idle", kind |-> "none", want |-> NoVersion, bytes |-> NoVersion,
           found |-> NoTask]

VARIABLES
  binding,     \* the config's binding, or "invalid"
  source,      \* source[k]: what the reviewed file at the given path holds
  durable,     \* durable[k]: what the durable bootstrap holds
  tasks,       \* the Scheduled Tasks
  logins,      \* logins[t]: the instance of a task that a login started
  works,       \* works[i]: what operator i does
  done,        \* ghost: what the last operator installed
  calm,        \* ghost: nobody interfered since the last operator began
  foreign, aborts

autostartVars == <<binding, source, durable, tasks, logins, works, done, calm, foreign, aborts>>

AutostartTypeOK ==
  /\ binding \in Versions \cup {"invalid"}
  /\ source \in [Bootstraps -> Versions \cup {"alien"}]
  /\ durable \in [Bootstraps -> FileContents]
  /\ \A t \in TaskNames : tasks[t].owner \in {"absent", "other", "tainted", "project"}
  /\ logins \in [TaskNames -> {"off", "checked", "running", "refused"}]
  /\ \A i \in Installers : works[i].kind \in StartKinds \cup {"none"}
  /\ done.kind \in StartKinds \cup {"none"} /\ calm \in BOOLEAN
  /\ foreign \in 0..MaxForeign /\ aborts \in 0..MaxAborts

AutostartInit ==
  /\ binding = CHOOSE v \in Versions : TRUE
  /\ source = [k \in Bootstraps |-> binding]
  /\ durable = [k \in Bootstraps |-> NoVersion]
  /\ tasks = [t \in TaskNames |-> NoTask]
  /\ logins = [t \in TaskNames |-> "off"]
  /\ works = [i \in Installers |-> AtRest]
  /\ done = NotDone /\ calm = TRUE /\ foreign = 0 /\ aborts = 0

------------------------------------------------------------------------------
(* What is validated, rendered, compared and decided.                         *)

TaskOf(k) == IF k = "desktop" THEN "desktop" ELSE "login"

\* The binding a valid config has; anything else throws.
StableRuntimeBinding(v) == binding = v /\ v \in Versions
\* The file at the given path has the reviewed hash and passes the review's patterns.
RelayBootstrapValid(v) == source["relay-host"] = v /\ v \in Versions
DesktopBootstrapValid(v) == source["desktop"] = v /\ v \in Versions

SourceValid(k, v) ==
  CASE k = "stable-runtime" -> StableRuntimeBinding(v)
    [] k = "relay-host" -> RelayBootstrapValid(v)
    [] OTHER -> DesktopBootstrapValid(v)

LoginTaskSpec(k, v) == [owner |-> "project", kind |-> k, hash |-> v]
DesktopTaskSpec(v) == [owner |-> "project", kind |-> "desktop", hash |-> v]
DesiredTask(k, v) == IF k = "desktop" THEN DesktopTaskSpec(v) ELSE LoginTaskSpec(k, v)

Fingerprint(task) == <<task.owner, task.kind, task.hash>>

\* A task without the marker, or with sensitive metadata, is neither replaced nor removed.
NotOurs(task) == task.owner \in {"other", "tainted"}
ReconcileInstall(found, wanted) ==
  CASE found.owner = "absent" -> "create"
    [] NotOurs(found) -> "refuse"
    [] OTHER -> IF Fingerprint(found) = Fingerprint(wanted) THEN "unchanged" ELSE "update"
ReconcileUninstall(found) ==
  CASE found.owner = "absent" -> "absent"
    [] NotOurs(found) -> "refuse"
    [] OTHER -> "delete"

TaskStatus(task) ==
  CASE task.owner = "absent" -> "NOT_INSTALLED"
    [] task.owner = "project" -> "INSTALLED"
    [] OTHER -> "UNTRUSTED"

\* The action's own check at login: the config's fingerprint, or the durable file's hash.
LoginAccepts(task) ==
  IF task.kind = "stable-runtime" THEN StableRuntimeBinding(task.hash)
  ELSE durable[task.kind] = task.hash

------------------------------------------------------------------------------
(* install: the source is validated, the task queried and reconciled, the     *)
(* durable bootstrap written and verified, the task registered.               *)

AtStep(i, pc) == works[i].pc = pc
MoveTo(i, pc) == works' = [works EXCEPT ![i].pc = pc]
AtEase(i) == works[i].pc \in {"idle", "ended"}
Stops(i) == works' = [works EXCEPT ![i] = [AtRest EXCEPT !.pc = "ended"]]
Opens(i) ==
  /\ AtStep(i, "idle") /\ \A x \in Installers : x < i => ~AtStep(x, "idle")
  /\ done' = NotDone
  /\ calm' = (\A x \in Installers \ {i} : AtEase(x))

InstallTask(i, k, v) ==
  /\ Opens(i) /\ SourceValid(k, v)
  /\ works' = [works EXCEPT ![i] = [AtRest EXCEPT !.pc = "query", !.kind = k, !.want = v]]
  /\ UNCHANGED <<binding, source, durable, tasks, logins, foreign, aborts>>

\* A query that fails for any other reason than an absent task ends the operation.
QueryTask(i) ==
  LET w == works[i]  found == tasks[TaskOf(w.kind)] IN
  /\ AtStep(i, "query")
  /\ \/ ReconcileInstall(found, DesiredTask(w.kind, w.want)) # "refuse"
        /\ works' = [works EXCEPT ![i].found = found,
                       ![i].pc = IF w.kind \in Bootstraps THEN "materialize" ELSE "apply"]
     \/ Stops(i)
  /\ UNCHANGED <<binding, source, durable, tasks, logins, done, calm, foreign, aborts>>

\* Mutant: the marker alone makes the durable file the wanted one.
MaterializeDecisionMutant(k, v) ==
  CASE durable[k] = NoVersion -> "write"
    [] durable[k] \in Unmarked -> "refuse"
    [] OTHER -> "unchanged"
MaterializeDecision(k, v) ==
  CASE durable[k] \in Unmarked -> "refuse"
    [] durable[k] = v -> "unchanged"
    [] OTHER -> "write"

\* The source is validated again, and a file without the marker is kept.
Materialize(i) ==
  LET k == works[i].kind  v == works[i].want IN
  /\ AtStep(i, "materialize")
  /\ IF ~SourceValid(k, v) THEN Stops(i)
     ELSE CASE MaterializeDecision(k, v) = "refuse" -> Stops(i)
            [] MaterializeDecision(k, v) = "unchanged" -> MoveTo(i, "apply")
            [] OTHER -> MoveTo(i, "open")
  /\ UNCHANGED <<binding, source, durable, tasks, logins, done, calm, foreign, aborts>>

\* The source is read a second time; writeFileSync truncates the file, and may have
\* written part of it.
OpenDurable(i) ==
  LET k == works[i].kind IN
  /\ AtStep(i, "open")
  /\ works' = [works EXCEPT ![i].pc = "write", ![i].bytes = source[k]]
  /\ \E part \in {"blank", "torn"} : durable' = [durable EXCEPT ![k] = part]
  /\ UNCHANGED <<binding, source, tasks, logins, done, calm, foreign, aborts>>

WriteDurable(i) ==
  /\ AtStep(i, "write") /\ MoveTo(i, "verify")
  /\ durable' = [durable EXCEPT ![works[i].kind] = works[i].bytes]
  /\ UNCHANGED <<binding, source, tasks, logins, done, calm, foreign, aborts>>

VerifyDurable(i) ==
  /\ AtStep(i, "verify")
  /\ IF durable[works[i].kind] = works[i].want THEN MoveTo(i, "apply") ELSE Stops(i)
  /\ UNCHANGED <<binding, source, durable, tasks, logins, done, calm, foreign, aborts>>

\* The decision is taken on the task found by the query; schtasks /Create /F replaces
\* whatever is there, or fails.
ApplyTask(i) ==
  LET w == works[i]  wanted == DesiredTask(w.kind, w.want) IN
  /\ AtStep(i, "apply") /\ Stops(i)
  /\ \/ /\ tasks' = IF ReconcileInstall(w.found, wanted) = "unchanged" THEN tasks
                    ELSE [tasks EXCEPT ![TaskOf(w.kind)] = wanted]
        /\ done' = [kind |-> w.kind, hash |-> w.want]
     \/ UNCHANGED <<tasks, done>>
  /\ UNCHANGED <<binding, source, durable, logins, calm, foreign, aborts>>

------------------------------------------------------------------------------
(* uninstall keeps the durable bootstrap.                                     *)

Uninstall(i, k) ==
  /\ Opens(i)
  /\ works' = [works EXCEPT ![i] = IF ReconcileUninstall(tasks[TaskOf(k)]) = "delete"
                                   THEN [AtRest EXCEPT !.pc = "delete", !.kind = k]
                                   ELSE [AtRest EXCEPT !.pc = "ended"]]
  /\ UNCHANGED <<binding, source, durable, tasks, logins, foreign, aborts>>

RemoveTask(i) ==
  /\ AtStep(i, "delete") /\ Stops(i)
  /\ \/ tasks' = [tasks EXCEPT ![TaskOf(works[i].kind)] = NoTask]
     \/ UNCHANGED tasks
  /\ UNCHANGED <<binding, source, durable, logins, done, calm, foreign, aborts>>

------------------------------------------------------------------------------
(* A login, or the restart after a failure, fires a task of which no instance *)
(* runs; the action checks, then runs.                                        *)

LoginFires(t) ==
  /\ tasks[t].owner = "project" /\ logins[t] \in {"off", "refused"}
  /\ logins' = [logins EXCEPT ![t] = IF LoginAccepts(tasks[t]) THEN "checked" ELSE "refused"]
  /\ UNCHANGED <<binding, source, durable, tasks, works, done, calm, foreign, aborts>>

LoginRuns(t) ==
  /\ logins[t] = "checked" /\ logins' = [logins EXCEPT ![t] = "running"]
  /\ UNCHANGED <<binding, source, durable, tasks, works, done, calm, foreign, aborts>>

LoginEnds(t) ==
  /\ logins[t] = "running" /\ logins' = [logins EXCEPT ![t] = "off"]
  /\ UNCHANGED <<binding, source, durable, tasks, works, done, calm, foreign, aborts>>

------------------------------------------------------------------------------
(* Other programs, and an operator's process that ends.                       *)

Interferes == foreign < MaxForeign /\ foreign' = foreign + 1 /\ calm' = FALSE

\* A new reviewed file is put at the path; between operations it disturbs nobody.
SourceChanges(k, c) ==
  /\ source[k] # c /\ source' = [source EXCEPT ![k] = c]
  /\ IF \A i \in Installers : AtEase(i) THEN UNCHANGED <<calm, foreign>> ELSE Interferes
  /\ UNCHANGED <<binding, durable, tasks, logins, works, done, aborts>>

\* The host installers rewrite the config too.
ConfigChanges(b) ==
  /\ binding # b /\ binding' = b /\ Interferes
  /\ UNCHANGED <<source, durable, tasks, logins, works, done, aborts>>

OthersWriteFile(k, c) ==
  /\ durable' = [durable EXCEPT ![k] = c] /\ Interferes
  /\ UNCHANGED <<binding, source, tasks, logins, works, done, aborts>>

OthersRegister(t, owner) ==
  /\ tasks' = [tasks EXCEPT ![t] = IF owner = "absent" THEN NoTask ELSE [@ EXCEPT !.owner = owner]]
  /\ Interferes
  /\ UNCHANGED <<binding, source, durable, logins, works, done, aborts>>

InstallerDies(i) ==
  /\ ~AtEase(i) /\ aborts < MaxAborts /\ aborts' = aborts + 1 /\ Stops(i)
  /\ UNCHANGED <<binding, source, durable, tasks, logins, done, calm, foreign>>

AutostartNext ==
  \/ \E i \in Installers :
       \/ \E k \in StartKinds : Uninstall(i, k) \/ \E v \in Versions : InstallTask(i, k, v)
       \/ QueryTask(i) \/ Materialize(i) \/ OpenDurable(i) \/ WriteDurable(i)
       \/ VerifyDurable(i) \/ ApplyTask(i) \/ RemoveTask(i) \/ InstallerDies(i)
  \/ \E t \in TaskNames :
       \/ LoginFires(t) \/ LoginRuns(t) \/ LoginEnds(t)
       \/ \E owner \in {"absent", "other", "tainted"} : OthersRegister(t, owner)
  \/ \E k \in Bootstraps :
       \/ \E c \in Versions \cup {"alien"} : SourceChanges(k, c)
       \/ \E c \in FileContents \ {"torn", "blank"} : OthersWriteFile(k, c)
  \/ \E b \in Versions \cup {"invalid"} : ConfigChanges(b)

AutostartSpec == AutostartInit /\ [][AutostartNext]_autostartVars

------------------------------------------------------------------------------
(* An installation that reports success starts at the next login, unless      *)
(* another operator or program came between: the task is registered with the  *)
(* action that was asked for, its status is INSTALLED, and the check that the *)
(* action makes at login accepts what is on disk (windows-login-autostart.js  *)
(* materializeRelayHostBootstrap, applyWindowsLoginTask and launchRelayHost,  *)
(* and the same of windows-desktop-relay-host.js), also when an earlier       *)
(* operator died halfway or a file was replaced before.                       *)
InstalledStarts ==
  calm /\ done # NotDone =>
    LET task == tasks[TaskOf(done.kind)] IN
    /\ TaskStatus(task) = "INSTALLED"
    /\ task = DesiredTask(done.kind, done.hash)
    /\ LoginAccepts(task)
===============================================================================
