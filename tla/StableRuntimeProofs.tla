------------------------- MODULE StableRuntimeProofs -------------------------
(* Activation, recovery and installation for any number of operators,         *)
(* revisions, processes and deaths, one operator at a time.                   *)
(*                                                                            *)
(* RuntimeInv: at most one process lives and it listens unless it starts      *)
(* (OneAlive, PortFits); what is ready has been proven (ReadyIsProven); and   *)
(* the operator at work knows what lives (OperatorFits): what it saw, what it *)
(* is about to stop, that nothing lives when it starts a process, or that     *)
(* what lives is what it started.  ServedInv adds which profile that process  *)
(* has read.  Both assumptions are the code's limits: two operators at a      *)
(* time, or one that begins while a runtime still starts, break the theorems. *)
EXTENDS StableRuntime, FiniteSetTheorems, TLAPS

Begun == {"probe", "precheck", "select", "stop", "await_free", "await_ready", "write", "error",
          "back_start", "back_ready"}
Recovering == {"r_probe", "r_start", "r_ready", "r_final", "r_error"}
Places == {"idle", "booted", "bind", "pass", "fail", "crashed"} \cup Begun \cup Recovering
Process == [sha : Revisions, cfg : Configs, st : {"starting", "listening", "ready", "dead"}]
Record == [sha : Revisions \cup {NoRevision}, cfg : Configs]
Act == [pc : Places, kind : OperatorKinds \cup {"none"}, phase : {"target", "restore"},
        sha : Revisions \cup {NoRevision}, fp : Configs, seen : Revisions \cup {NoRevision},
        pid : Nat, was : Revisions \cup {NoRevision}, target : Nat, back : Record,
        before : Revisions \cup {NoRevision}, saved : Configs, next : Configs,
        changed : BOOLEAN]

RuntimeTypes ==
  /\ \E n \in Nat : procs \in [1..n -> Process]
  /\ port \in Nat /\ configFile \in Configs /\ active \in Record
  /\ acts \in [Operators -> Act]

\* One operator works at a time, one process lives at a time, and it listens unless it starts.
Solo == \A x, y \in Operators : ~Over(x) /\ ~Over(y) => x = y
OneAlive == \A p, q \in Pids : Alive(p) /\ Alive(q) => p = q
PortFits == /\ port # 0 => port \in Pids
            /\ \A p \in Pids : p = port <=> procs[p].st \in {"listening", "ready"}
ReadyIsProven ==
  \A p \in Pids : procs[p].st = "ready" =>
                    <<procs[p].sha, ProfileFingerprint(procs[p].cfg)>> \in proven

NoneAlive == \A p \in Pids : ~Alive(p)
Spawning == {"await_ready", "write", "error", "back_start", "back_ready", "r_ready", "r_final",
             "r_error"}
\* What is true of operator o at its place.
OperatorFits(o) ==
  LET a == acts[o] IN
  /\ a.pc \in Begun \cup Recovering => a.sha \in Revisions /\ a.fp = ProfileFingerprint(configFile)
  /\ a.pc \notin Spawning => a.target = 0
  /\ a.target # 0 => /\ a.target \in Pids /\ procs[a.target].sha = a.sha
                     /\ procs[a.target].cfg = configFile
  /\ a.pc \notin Begun => a.phase = "target"
  /\ Installer(o) /\ a.pc \in Begun => a.before \in Revisions
  /\ a.pc = "bind" => a.sha \in Revisions
  /\ a.pc = "select" => a.seen \in Revisions /\ \A p \in Pids : Alive(p) => procs[p].sha = a.seen
  /\ a.pc = "stop" => /\ a.pid \in Pids /\ \A p \in Pids : Alive(p) => p = a.pid
                      /\ Kind(o) = "activate" => a.back.sha \in {NoRevision, procs[a.pid].sha}
  /\ a.pc \in {"stop", "await_free", "await_ready", "error", "back_start", "back_ready"} =>
       a.back.sha = NoRevision \/ a.back.cfg = a.fp
  /\ Kind(o) = "activate"
     /\ a.pc \in {"await_free", "await_ready", "error", "back_start", "back_ready"} =>
       a.back.sha \in {NoRevision, a.was}
  /\ a.pc \in {"await_free", "back_start", "r_start"} => NoneAlive
  /\ a.pc = "r_probe" => \A p \in Pids : procs[p].st # "starting"
  /\ a.pc \in {"await_ready", "write", "error"} => \A p \in Pids : Alive(p) => p = a.target
  /\ a.pc = "await_ready" => a.target # 0
  /\ a.pc = "write" => <<a.sha, a.fp>> \in proven
  /\ a.pc \in {"back_start", "back_ready"} => a.back.sha # NoRevision
  /\ a.pc = "back_ready" => \A p \in Pids : Alive(p) => /\ procs[p].sha = a.back.sha
                                                        /\ procs[p].cfg = configFile
  /\ a.pc \in {"r_ready", "r_final"} /\ a.target # 0 => a.pid = a.target
  /\ a.pc = "r_ready" => a.target # 0

RuntimeInv ==
  /\ RuntimeTypes /\ Solo /\ OneAlive /\ PortFits /\ ReadyIsProven /\ RecordIsProven
  /\ \A o \in Operators : OperatorFits(o)

Only(o) == \A x \in Operators : x # o => Over(x)
\* acts changes at o alone.
Turns(o) == /\ acts' \in [Operators -> Act]
            /\ \A x \in Operators : x # o => acts'[x] = acts[x]
\* What is asked of the rest of the state by itself.
HostFits ==
  /\ \E n \in Nat : procs \in [1..n -> Process]
  /\ port \in Nat /\ configFile \in Configs /\ active \in Record
  /\ OneAlive /\ PortFits /\ ReadyIsProven /\ RecordIsProven

------------------------------------------------------------------------------
\* The fingerprint of a config is a config: the diagnostics left out.
LEMMA FingerprintTyped == \A cfg \in Configs : ProfileFingerprint(cfg) \in Configs
  BY DEF Configs, ProfileFingerprint

\* The missing record is a record.
LEMMA RecordTyped == NoRecord \in Record
  BY DEF NoRecord, Record, Configs, Original

\* With MaxActive = 1, the operator that works or may begin is the only one that does.
LEMMA OthersOver ==
  ASSUME NEW o \in Operators, MaxActive = 1, Solo, ~Over(o) \/ MayBegin(o)
  PROVE  Only(o)
<1>1. CASE ~Over(o)
  BY <1>1 DEF Solo, Only
<1>2. CASE MayBegin(o)
  <2> SUFFICES ASSUME NEW x \in Operators, x # o, ~Over(x) PROVE FALSE
    BY DEF Only
  <2> DEFINE S == {y \in Operators : ~Over(y)} \cup {o}
  <2>1. S = {x} \cup {o}
    BY DEF Solo
  <2>2. IsFiniteSet({x}) /\ Cardinality({x}) = 1
    BY FS_Singleton
  <2>3. Cardinality({x} \cup {o}) = 2
    BY <2>2, FS_AddElement
  <2>4. Cardinality(S) <= 1
    BY <1>2 DEF MayBegin
  <2> HIDE DEF S
  <2> QED BY <2>1, <2>3, <2>4
<1> QED BY <1>1, <1>2

\* Pids are numbered from 1 in the order the processes were started.
LEMMA PidsOf ==
  ASSUME NEW n \in Nat, procs \in [1..n -> Process]
  PROVE  Pids = 1..n /\ Cardinality(Pids) = n /\ NewPid = n + 1
<1>1. Pids = 1..n
  BY DEF Pids
<1>2. Cardinality(1..n) = n
  BY FS_Interval, n - 1 + 1 = n
<1> QED BY <1>1, <1>2 DEF NewPid

\* Nothing is asked of an operator that has not begun or has ended.
LEMMA OverFits ==
  ASSUME NEW o \in Operators, acts[o].pc \in {"idle", "pass", "fail", "crashed"},
         acts[o].target = 0, acts[o].phase = "target"
  PROVE  OperatorFits(o)
  BY DEF OperatorFits, Begun, Recovering, Spawning

\* Step changes the place and leaves the other fields alone.
LEMMA StepFields ==
  ASSUME acts \in [Operators -> Act], NEW o \in Operators, NEW pc \in Places, Step(o, pc)
  PROVE  /\ Turns(o)
         /\ acts'[o].pc = pc
         /\ acts'[o].kind = acts[o].kind /\ acts'[o].phase = acts[o].phase
         /\ acts'[o].sha = acts[o].sha /\ acts'[o].fp = acts[o].fp
         /\ acts'[o].seen = acts[o].seen /\ acts'[o].pid = acts[o].pid
         /\ acts'[o].was = acts[o].was /\ acts'[o].target = acts[o].target
         /\ acts'[o].back = acts[o].back /\ acts'[o].before = acts[o].before
<1>1. PICK g \in Act : g = acts[o]
  OBVIOUS
<1>2. [g EXCEPT !.pc = pc] \in Act
  BY DEF Act
<1>3. acts' = [acts EXCEPT ![o] = [g EXCEPT !.pc = pc]]
  BY <1>1 DEF Step
<1>4. Turns(o) /\ acts'[o] = [g EXCEPT !.pc = pc]
  BY <1>2, <1>3 DEF Turns
<1> QED BY <1>1, <1>4 DEF Act

\* End leaves an operator of which nothing is asked.
LEMMA EndFields ==
  ASSUME acts \in [Operators -> Act], NEW o \in Operators,
         NEW outcome \in {"pass", "fail", "crashed"}, End(o, outcome)
  PROVE  Turns(o) /\ OperatorFits(o)' /\ Over(o)'
<1>1. [Resting EXCEPT !.pc = outcome] \in Act
  BY RecordTyped DEF Resting, Act, Places, Configs, Original
<1>2. Turns(o) /\ acts'[o] = [Resting EXCEPT !.pc = outcome]
  BY <1>1 DEF Turns, End
<1>3. acts'[o].pc = outcome /\ acts'[o].target = 0 /\ acts'[o].phase = "target"
  BY <1>2 DEF Resting
<1>4. OperatorFits(o)'
  BY <1>3 DEF OperatorFits, Begun, Recovering, Spawning
<1> QED BY <1>2, <1>3, <1>4 DEF Over

\* GiveUp ends the operator, or begins the installer's second activation as it must.
LEMMA GiveUpFields ==
  ASSUME acts \in [Operators -> Act], configFile \in Configs, NEW o \in Operators,
         GiveUp(o), acts[o].pc \in Begun, OperatorFits(o)
  PROVE  Turns(o) /\ OperatorFits(o)' /\ configFile' \in Configs
<1>1. CASE Installer(o) /\ acts[o].phase = "target"
  <2> DEFINE orig == IF acts[o].changed THEN acts[o].saved ELSE configFile
  <2>1. PICK g \in Act : g = acts[o]
    OBVIOUS
  <2>2. orig \in Configs /\ configFile' = orig /\ acts' = [acts EXCEPT ![o] = Restoring(o, orig)]
    BY <1>1, <2>1 DEF GiveUp, Act
  <2> HIDE DEF orig
  <2>3. g.before \in Revisions /\ g.kind \in OperatorKinds \cup {"none"}
    BY <1>1, <2>1 DEF OperatorFits, Act
  <2>4. ProfileFingerprint(orig) \in Configs
    BY <2>2, FingerprintTyped
  <2>5. PICK fp \in Configs : fp = ProfileFingerprint(orig)
    BY <2>4
  <2>6. PICK z \in Act : z = Resting
    BY RecordTyped DEF Resting, Act, Places, Configs, Original
  <2>7. PICK r : r = Restoring(o, orig)
    OBVIOUS
  <2>8. r = [z EXCEPT !.pc = "probe", !.kind = g.kind, !.phase = "restore", !.sha = g.before,
                      !.fp = fp, !.before = g.before]
    BY <2>1, <2>5, <2>6, <2>7 DEF Restoring, Kind
  <2>9. /\ r \in Act
        /\ r.pc = "probe" /\ r.target = 0 /\ r.sha \in Revisions /\ r.before \in Revisions
        /\ r.fp = ProfileFingerprint(configFile')
    <3>1. z.target = 0
      BY <2>6 DEF Resting
    <3>2. "probe" \in Places
      BY DEF Places, Begun
    <3> QED BY <2>2, <2>3, <2>5, <2>8, <3>1, <3>2 DEF Act
  <2>10. Turns(o) /\ acts'[o] = r
    BY <2>2, <2>7, <2>9 DEF Turns
  <2>11. OperatorFits(o)'
    BY <2>9, <2>10 DEF OperatorFits, Begun, Recovering, Spawning
  <2> QED BY <2>2, <2>10, <2>11
<1>2. CASE ~(Installer(o) /\ acts[o].phase = "target")
  BY <1>2, EndFields DEF GiveUp
<1> QED BY <1>1, <1>2

\* An operator's step keeps the invariant when the host still fits and its own place does.
LEMMA TurnKeeps ==
  ASSUME NEW o \in Operators, RuntimeInv, Only(o), Turns(o), OperatorFits(o)', HostFits'
  PROVE  RuntimeInv'
<1>1. RuntimeTypes'
  BY DEF HostFits, RuntimeTypes, Turns
<1>2. \A x \in Operators : x # o => Over(x)' /\ acts'[x] = acts[x] /\ OperatorFits(x)
  BY DEF Only, Turns, Over, RuntimeInv
<1>3. Solo'
  BY <1>2 DEF Solo
<1>4. ASSUME NEW x \in Operators PROVE OperatorFits(x)'
  <2>1. CASE x # o
    <3>1. acts'[x].pc \in {"idle", "pass", "fail", "crashed"}
      BY <1>2, <2>1 DEF Over
    <3>2. acts'[x].target = 0 /\ acts'[x].phase = "target"
      BY <1>2, <2>1, <3>1 DEF OperatorFits, Begun, Spawning
    <3> QED BY <3>1, <3>2 DEF OperatorFits, Begun, Recovering, Spawning
  <2> QED BY <2>1
<1> QED BY <1>1, <1>3, <1>4 DEF RuntimeInv, HostFits

------------------------------------------------------------------------------
\* A stopped process frees its port and changes nothing else.
LEMMA KillKeeps ==
  ASSUME HostFits, NEW t \in Pids, procs' = Killed(t), port' = PortWithout(t),
         configFile' \in Configs, active' = active, proven' = proven
  PROVE  /\ HostFits' /\ Pids' = Pids
         /\ \A p \in Pids : /\ procs'[p].sha = procs[p].sha /\ procs'[p].cfg = procs[p].cfg
                            /\ Alive(p)' <=> Alive(p) /\ p # t
<1>1. PICK n \in Nat : procs \in [1..n -> Process]
  BY DEF HostFits
<1>2. PICK g \in Process : g = procs[t]
  BY <1>1 DEF Pids
<1>3. [g EXCEPT !.st = "dead"] \in Process /\ [g EXCEPT !.st = "dead"].sha = g.sha
      /\ [g EXCEPT !.st = "dead"].cfg = g.cfg /\ [g EXCEPT !.st = "dead"].st = "dead"
  BY DEF Process
<1>4. procs' = [procs EXCEPT ![t] = [g EXCEPT !.st = "dead"]]
  BY <1>2 DEF Killed
<1>5. procs' \in [1..n -> Process] /\ Pids' = Pids /\ Pids = 1..n
  BY <1>1, <1>3, <1>4 DEF Pids
<1>6. \A p \in Pids : p # t => procs'[p] = procs[p]
  BY <1>1, <1>4, <1>5
<1>7. procs'[t].sha = procs[t].sha /\ procs'[t].cfg = procs[t].cfg /\ procs'[t].st = "dead"
  BY <1>1, <1>2, <1>3, <1>4, <1>5
<1>8. \A p \in Pids : /\ procs'[p].sha = procs[p].sha /\ procs'[p].cfg = procs[p].cfg
                      /\ Alive(p)' <=> Alive(p) /\ p # t
  BY <1>6, <1>7 DEF Alive
<1>9. OneAlive'
  BY <1>5, <1>8 DEF HostFits, OneAlive
<1>10. PortFits' /\ port' \in Nat
  <2>1. port' \in {0, port} /\ port' # t
    BY <1>5 DEF PortWithout
  <2>2. t \notin {0}
    BY <1>5
  <2>3. ASSUME NEW p \in Pids PROVE p = port' <=> procs'[p].st \in {"listening", "ready"}
    BY <1>5, <1>6, <1>7, <2>1, <2>2 DEF HostFits, PortFits, PortWithout
  <2> QED BY <1>5, <2>1, <2>3 DEF HostFits, PortFits
<1>11. ReadyIsProven'
  <2>1. ASSUME NEW p \in Pids, procs'[p].st = "ready" PROVE p # t /\ procs'[p] = procs[p]
    BY <1>6, <1>7, <2>1
  <2> QED BY <1>5, <2>1 DEF HostFits, ReadyIsProven, ProfileFingerprint
<1>12. RecordIsProven' /\ active' \in Record
  BY DEF HostFits, RecordIsProven
<1> QED BY <1>5, <1>8, <1>9, <1>10, <1>11, <1>12 DEF HostFits

\* A process is started only when none is alive: it is then the only one.
LEMMA SpawnKeeps ==
  ASSUME HostFits, NoneAlive, NEW sha \in Revisions, SpawnRuntime(sha),
         port' = port, configFile' = configFile, active' = active, proven' = proven
  PROVE  /\ HostFits' /\ NewPid \in Pids' /\ Pids \subseteq Pids' /\ NewPid # 0 /\ NewPid \in Nat
         /\ \A p \in Pids : procs'[p] = procs[p]
         /\ procs'[NewPid].sha = sha /\ procs'[NewPid].cfg = configFile
         /\ \A p \in Pids' : Alive(p)' => p = NewPid
<1>1. PICK n \in Nat : procs \in [1..n -> Process]
  BY DEF HostFits
<1>2. Pids = 1..n /\ Cardinality(Pids) = n /\ NewPid = n + 1
  BY <1>1, PidsOf
<1>3. procs' = [q \in Pids \cup {n + 1} |->
                  IF q = n + 1 THEN [sha |-> sha, cfg |-> configFile, st |-> "starting"]
                  ELSE procs[q]]
  BY <1>2 DEF SpawnRuntime
<1>4. PICK g \in Process : g = [sha |-> sha, cfg |-> configFile, st |-> "starting"]
  BY DEF HostFits, Process
<1>5. g.sha = sha /\ g.cfg = configFile /\ g.st = "starting"
  BY <1>4
<1>6. Pids' = 1..(n + 1)
  BY <1>2, <1>3 DEF Pids
<1>7. procs'[n + 1] = g /\ \A p \in Pids : procs'[p] = procs[p]
  BY <1>2, <1>3, <1>4
<1>8. procs' \in [1..(n + 1) -> Process]
  <2>1. procs' = [q \in 1..(n + 1) |-> procs'[q]]
    BY <1>2, <1>3, <1>6 DEF Pids
  <2>2. ASSUME NEW q \in 1..(n + 1) PROVE procs'[q] \in Process
    BY <1>1, <1>2, <1>7
  <2> QED BY <2>1, <2>2
<1>9. \A p \in Pids' : Alive(p)' => p = n + 1
  BY <1>2, <1>6, <1>7 DEF NoneAlive, Alive
<1>10. port = 0
  BY DEF HostFits, PortFits, NoneAlive, Alive
<1>11. \A p \in Pids' : procs'[p].st \notin {"listening", "ready"}
  BY <1>2, <1>5, <1>6, <1>7 DEF NoneAlive, Alive
<1>12. PortFits' /\ OneAlive' /\ ReadyIsProven'
  <2>1. PortFits'
    BY <1>6, <1>10, <1>11 DEF PortFits
  <2>2. OneAlive'
    BY <1>9 DEF OneAlive
  <2>3. ReadyIsProven'
    BY <1>11 DEF ReadyIsProven
  <2> QED BY <2>1, <2>2, <2>3
<1>13. RecordIsProven'
  BY DEF HostFits, RecordIsProven
<1>14. HostFits'
  BY <1>8, <1>12, <1>13 DEF HostFits
<1>15. n + 1 \in Pids' /\ Pids \subseteq Pids' /\ n + 1 # 0 /\ n + 1 \in Nat
  BY <1>2, <1>6
<1> QED BY <1>2, <1>5, <1>7, <1>9, <1>14, <1>15

\* What answers at one exact revision.
LEMMA ServingFacts ==
  ASSUME HostFits, Serving # NoRevision
  PROVE  /\ port \in Pids /\ port # 0 /\ procs[port].st = "ready" /\ Serving = procs[port].sha
         /\ Serving \in Revisions /\ Alive(port) /\ \A p \in Pids : Alive(p) => p = port
         /\ <<Serving, ProfileFingerprint(procs[port].cfg)>> \in proven
<1>1. port # 0 /\ procs[port].st = "ready" /\ Serving = procs[port].sha
  BY DEF Serving, ReadyOk
<1>2. port \in Pids
  BY <1>1 DEF HostFits, PortFits
<1>3. Serving \in Revisions
  <2>1. PICK n \in Nat : procs \in [1..n -> Process]
    BY DEF HostFits
  <2>2. procs[port] \in Process
    BY <1>2, <2>1 DEF Pids
  <2> QED BY <1>1, <2>2 DEF Process
<1>4. Alive(port) /\ \A p \in Pids : Alive(p) => p = port
  BY <1>1, <1>2 DEF HostFits, OneAlive, Alive
<1> QED BY <1>1, <1>2, <1>3, <1>4 DEF HostFits, ReadyIsProven

\* Neither the processes nor the record are touched.
LEMMA HostUnchanged ==
  ASSUME HostFits, procs' = procs, port' = port, configFile' \in Configs, active' = active,
         proven' = proven
  PROVE  HostFits' /\ Pids' = Pids /\ \A p \in Pids : Alive(p)' <=> Alive(p)
<1>1. Pids' = Pids /\ \A p \in Pids : Alive(p)' <=> Alive(p)
  BY DEF Pids, Alive
<1>2. OneAlive' /\ PortFits'
  BY <1>1 DEF HostFits, OneAlive, PortFits
<1>3. ReadyIsProven' /\ RecordIsProven'
  BY <1>1 DEF HostFits, ReadyIsProven, RecordIsProven, ProfileFingerprint
<1> QED BY <1>1, <1>2, <1>3 DEF HostFits

\* The record takes a proven pair; the processes stay.
LEMMA RecordKeeps ==
  ASSUME HostFits, procs' = procs, port' = port, configFile' \in Configs, proven' = proven,
         active' \in Record, active' = active \/ <<active'.sha, active'.cfg>> \in proven
  PROVE  HostFits'
<1>1. Pids' = Pids /\ \A p \in Pids : Alive(p)' <=> Alive(p)
  BY DEF Pids, Alive
<1>2. OneAlive' /\ PortFits'
  BY <1>1 DEF HostFits, OneAlive, PortFits
<1>3. ReadyIsProven' /\ RecordIsProven'
  BY <1>1 DEF HostFits, ReadyIsProven, RecordIsProven, ProfileFingerprint
<1> QED BY <1>1, <1>2, <1>3 DEF HostFits

------------------------------------------------------------------------------
\* The parts of the invariant an operator's step uses.
LEMMA Parts ==
  ASSUME RuntimeInv, NEW o \in Operators
  PROVE  HostFits /\ acts \in [Operators -> Act] /\ OperatorFits(o) /\ Solo
  BY DEF RuntimeInv, HostFits, RuntimeTypes

\* The fields that the beginning of activate and recover sets.
LEMMA ProbeFields ==
  ASSUME acts \in [Operators -> Act], configFile \in Configs, NEW o \in Operators,
         NEW kind \in OperatorKinds, NEW sha \in Revisions, NEW pc \in {"probe", "r_probe"},
         acts' = [acts EXCEPT ![o].pc = pc, ![o].kind = kind, ![o].sha = sha,
                              ![o].fp = ProfileFingerprint(configFile)]
  PROVE  /\ Turns(o) /\ acts'[o].pc = pc /\ acts'[o].kind = kind /\ acts'[o].sha = sha
         /\ acts'[o].fp = ProfileFingerprint(configFile)
         /\ acts'[o].target = acts[o].target /\ acts'[o].phase = acts[o].phase
<1>1. PICK g \in Act : g = acts[o]
  OBVIOUS
<1>2. PICK fp \in Configs : fp = ProfileFingerprint(configFile)
  BY FingerprintTyped
<1>3. PICK h : h = [g EXCEPT !.pc = pc, !.kind = kind, !.sha = sha, !.fp = fp]
  OBVIOUS
<1>4. h \in Act
  BY <1>3 DEF Act, Places, Begun, Recovering
<1>5. /\ h.pc = pc /\ h.kind = kind /\ h.sha = sha /\ h.fp = fp
      /\ h.target = g.target /\ h.phase = g.phase
  BY <1>3 DEF Act
<1>6. acts' = [acts EXCEPT ![o] = h]
  BY <1>1, <1>2, <1>3
<1>7. Turns(o) /\ acts'[o] = h
  BY ZenonT(60), <1>4, <1>6 DEF Turns
<1> QED BY <1>1, <1>2, <1>5, <1>7

\* stable-runtime-first-bootstrap.mjs: a checkout is made, nothing else.
LEMMA FirstBootstrapKeeps ==
  ASSUME RuntimeInv, MaxActive = 1, NEW o \in Operators, NEW sha \in Revisions,
         NEW kind \in Tasks, NEW given \in BOOLEAN, FirstBootstrap(o, sha, kind, given)
  PROVE  RuntimeInv'
<1>1. HostFits /\ acts \in [Operators -> Act] /\ OperatorFits(o) /\ Solo
  BY Parts
<1>2. HostFits'
  BY <1>1, HostUnchanged DEF FirstBootstrap, HostFits
<1>3. Only(o)
  BY <1>1, OthersOver DEF FirstBootstrap
<1>4. PICK g \in Act : g = acts[o]
  BY <1>1
<1>5. PICK h : h = [g EXCEPT !.pc = "booted", !.sha = sha, !.kind = kind]
  OBVIOUS
<1>6. h \in Act /\ h.pc = "booted" /\ h.target = g.target /\ h.phase = g.phase
  BY <1>5, RuntimeAssumption DEF Act, Places
<1>7. acts' = [acts EXCEPT ![o] = h]
  BY <1>4, <1>5 DEF FirstBootstrap
<1>8. Turns(o) /\ acts'[o] = h
  BY <1>1, <1>6, <1>7 DEF Turns
<1>9. g.pc = "idle"
  BY <1>4 DEF FirstBootstrap, At
<1>10. g.target = 0 /\ g.phase = "target"
  BY <1>1, <1>4, <1>9 DEF OperatorFits, Begun, Spawning
<1>11. OperatorFits(o)'
  BY <1>6, <1>8, <1>10 DEF OperatorFits, Begun, Recovering, Spawning
<1> QED BY <1>2, <1>3, <1>8, <1>11, TurnKeeps

\* A command line finds its operator at rest.
LEMMA AskedFacts ==
  ASSUME NEW o \in Operators, OperatorFits(o), NEW sha, NEW kind, Asked(o, sha, kind)
  PROVE  acts[o].target = 0 /\ acts[o].phase = "target"
<1>1. acts[o].pc \in {"idle", "booted"}
  BY DEF Asked, At
<1> QED BY <1>1 DEF OperatorFits, Begun, Spawning

\* activate: the fingerprint is that of the file as it is.
LEMMA ActivateKeeps ==
  ASSUME RuntimeInv, MaxActive = 1, NEW o \in Operators, NEW sha \in Revisions, Activate(o, sha)
  PROVE  RuntimeInv'
<1>1. HostFits /\ acts \in [Operators -> Act] /\ OperatorFits(o) /\ Solo
  BY Parts
<1>2. HostFits' /\ Only(o) /\ configFile' = configFile
  BY <1>1, HostUnchanged, OthersOver DEF Activate, HostFits
<1>3. /\ Turns(o) /\ acts'[o].pc = "probe" /\ acts'[o].kind = "activate" /\ acts'[o].sha = sha
      /\ acts'[o].fp = ProfileFingerprint(configFile) /\ acts'[o].target = acts[o].target
      /\ acts'[o].phase = acts[o].phase
  BY <1>1, ProbeFields DEF Activate, HostFits, OperatorKinds
<1>4. acts[o].target = 0
  BY <1>1, AskedFacts DEF Activate
<1>5. OperatorFits(o)'
  BY <1>2, <1>3, <1>4 DEF OperatorFits, Begun, Recovering, Spawning, Installer, Kind
<1> QED BY <1>2, <1>3, <1>5, TurnKeeps

\* recover: with no process still starting, what listens is all there is.
LEMMA RecoverKeeps ==
  ASSUME RuntimeInv, MaxActive = 1, ~SlowStarts, NEW o \in Operators,
         NEW given \in Revisions \cup {NoRevision}, Recover(o, given)
  PROVE  RuntimeInv'
<1>1. HostFits /\ acts \in [Operators -> Act] /\ OperatorFits(o) /\ Solo
  BY Parts
<1>2. HostFits' /\ Only(o) /\ configFile' = configFile /\ procs' = procs
  BY <1>1, HostUnchanged, OthersOver DEF Recover, HostFits
<1>3. PICK sha \in Revisions : sha = SelectTarget(given, ProfileFingerprint(configFile))
  BY <1>1 DEF SelectTarget, HostFits, Record, Recover
<1>4. /\ Turns(o) /\ acts'[o].pc = "r_probe" /\ acts'[o].kind = "recover" /\ acts'[o].sha = sha
      /\ acts'[o].fp = ProfileFingerprint(configFile) /\ acts'[o].target = acts[o].target
      /\ acts'[o].phase = acts[o].phase
  BY <1>1, <1>3, ProbeFields DEF Recover, HostFits, OperatorKinds
<1>5. acts[o].pc = "idle"
  BY DEF Recover, At
<1>6. acts[o].target = 0 /\ acts[o].phase = "target"
  BY <1>1, <1>5 DEF OperatorFits, Begun, Spawning
<1>7. \A p \in Pids : procs[p].st # "starting"
  BY DEF Recover, MayBegin
<1>8. OperatorFits(o)'
  <2>1. \A p \in Pids' : procs'[p].st # "starting"
    BY <1>2, <1>7 DEF Pids
  <2> QED BY <1>2, <1>4, <1>6, <2>1 DEF OperatorFits, Begun, Recovering, Spawning
<1> QED BY <1>2, <1>4, <1>8, TurnKeeps

\* The installers: the config is read, nothing is written yet.
LEMMA ReadConfigKeeps ==
  ASSUME RuntimeInv, MaxActive = 1, NEW o \in Operators, NEW sha \in Revisions,
         NEW kind \in OperatorKinds, NEW cfg \in Configs, ReadConfig(o, sha, kind, cfg)
  PROVE  RuntimeInv'
<1>1. HostFits /\ acts \in [Operators -> Act] /\ OperatorFits(o) /\ Solo
  BY Parts
<1>2. HostFits' /\ Only(o)
  BY <1>1, HostUnchanged, OthersOver DEF ReadConfig, HostFits
<1>3. PICK g \in Act : g = acts[o]
  BY <1>1
<1>4. PICK h : h = [g EXCEPT !.pc = "bind", !.kind = kind, !.sha = sha, !.saved = configFile,
                             !.next = cfg]
  OBVIOUS
<1>5. configFile \in Configs
  BY <1>1 DEF HostFits
<1>6. /\ h \in Act /\ h.pc = "bind" /\ h.sha = sha /\ h.target = g.target /\ h.phase = g.phase
  BY <1>4, <1>5 DEF Act, Places
<1>7. acts' = [acts EXCEPT ![o] = h]
  BY <1>3, <1>4 DEF ReadConfig
<1>8. Turns(o) /\ acts'[o] = h
  BY <1>1, <1>6, <1>7 DEF Turns
<1>9. g.target = 0 /\ g.phase = "target"
  BY <1>1, <1>3, AskedFacts DEF ReadConfig
<1>10. OperatorFits(o)'
  BY <1>6, <1>8, <1>9 DEF OperatorFits, Begun, Recovering, Spawning
<1> QED BY <1>2, <1>8, <1>10, TurnKeeps

\* What the installers compute are configs.
LEMMA ConfigsTyped ==
  ASSUME configFile \in Configs
  PROVE  /\ ScopeConfigs(configFile) \subseteq Configs /\ RootConfig(configFile) \in Configs
         /\ \A covered \in BOOLEAN : SmokeConfig(configFile, covered) \in Configs
  BY DEF Configs, ScopeConfigs, RootConfig, SmokeConfig

\* The config is written and its fingerprint taken from what was written.
LEMMA WriteConfigKeeps ==
  ASSUME RuntimeInv, NEW o \in Operators, WriteConfig(o), MaxActive = 1
  PROVE  RuntimeInv'
<1>1. HostFits /\ acts \in [Operators -> Act] /\ OperatorFits(o) /\ Solo
  BY Parts
<1>2. acts[o].pc = "bind"
  BY DEF WriteConfig, At
<1>3. Only(o)
  BY <1>1, <1>2, OthersOver DEF Over
<1>4. PICK g \in Act : g = acts[o]
  BY <1>1
<1>5. configFile' \in Configs
  BY <1>1, <1>4 DEF WriteConfig, HostFits, Act
<1>6. HostFits'
  BY <1>1, <1>5, HostUnchanged DEF WriteConfig
<1>7. CASE End(o, "pass") \/ End(o, "fail")
  BY <1>1, <1>3, <1>6, <1>7, EndFields, TurnKeeps
<1>8. CASE /\ ServingProven
           /\ acts' = [acts EXCEPT ![o].pc = "probe", ![o].fp = ProfileFingerprint(configFile'),
                         ![o].before = Serving, ![o].changed = acts[o].next # acts[o].saved]
  <2>1. PICK fp \in Configs : fp = ProfileFingerprint(configFile')
    BY <1>5, FingerprintTyped
  <2>2. PICK before \in Revisions : before = Serving
    BY <1>1, <1>8, ServingFacts DEF ServingProven
  <2>3. PICK ch \in BOOLEAN : ch = (g.next # g.saved)
    OBVIOUS
  <2>4. PICK h : h = [g EXCEPT !.pc = "probe", !.fp = fp, !.before = before, !.changed = ch]
    OBVIOUS
  <2>5. h \in Act /\ h.pc = "probe" /\ h.fp = fp /\ h.before = before /\ h.sha = g.sha
        /\ h.target = g.target /\ h.phase = g.phase
    BY <2>4 DEF Act, Places, Begun
  <2>6. acts' = [acts EXCEPT ![o] = h]
    BY <1>4, <1>8, <2>1, <2>2, <2>3, <2>4, Zenon
  <2>7. Turns(o) /\ acts'[o] = h
    BY <1>1, <2>5, <2>6 DEF Turns
  <2>8. g.target = 0 /\ g.sha \in Revisions
    BY <1>1, <1>2, <1>4 DEF OperatorFits, Spawning
  <2>9. OperatorFits(o)'
    BY <2>1, <2>5, <2>7, <2>8 DEF OperatorFits, Begun, Recovering, Spawning
  <2> QED BY <1>3, <1>6, <2>7, <2>9, TurnKeeps
<1>9. (End(o, "pass") \/ End(o, "fail"))
      \/ (/\ ServingProven
          /\ acts' = [acts EXCEPT ![o].pc = "probe", ![o].fp = ProfileFingerprint(configFile'),
                         ![o].before = Serving, ![o].changed = acts[o].next # acts[o].saved])
  BY Zenon DEF WriteConfig
<1> QED BY <1>7, <1>8, <1>9

------------------------------------------------------------------------------
\* A failed activation, wherever it fails.
LEMMA GiveUpKeeps ==
  ASSUME RuntimeInv, NEW o \in Operators, Only(o), acts[o].pc \in Begun, GiveUp(o), HostFits'
  PROVE  RuntimeInv'
<1>1. HostFits /\ acts \in [Operators -> Act] /\ OperatorFits(o) /\ Solo
  BY Parts
<1>2. configFile \in Configs
  BY <1>1 DEF HostFits
<1> QED BY <1>1, <1>2, GiveUpFields, TurnKeeps

\* What GiveUp leaves on disk is a config.
LEMMA GiveUpTyped ==
  ASSUME RuntimeInv, NEW o \in Operators, acts[o].pc \in Begun, GiveUp(o)
  PROVE  configFile' \in Configs
<1>1. HostFits /\ acts \in [Operators -> Act] /\ OperatorFits(o)
  BY Parts
<1>2. configFile \in Configs
  BY <1>1 DEF HostFits
<1> QED BY <1>1, <1>2, GiveUpFields

\* The target is active already, or is prepared.
LEMMA ActProbeKeeps ==
  ASSUME RuntimeInv, MaxActive = 1, NEW o \in Operators, ActProbe(o)
  PROVE  RuntimeInv'
<1>1. HostFits /\ acts \in [Operators -> Act] /\ OperatorFits(o) /\ Solo
  BY Parts
<1>2. acts[o].pc = "probe"
  BY DEF ActProbe, At
<1>3. Only(o)
  BY <1>1, <1>2, OthersOver DEF Over
<1>4. CASE GiveUp(o)
  <2>1. configFile' \in Configs
    BY <1>2, <1>4, GiveUpTyped DEF Begun
  <2>2. HostFits'
    BY <1>1, <2>1, HostUnchanged DEF ActProbe
  <2> QED BY <1>2, <1>3, <1>4, <2>2, GiveUpKeeps DEF Begun
<1>5. CASE ~GiveUp(o)
  <2>1. configFile' = configFile
    BY <1>5 DEF ActProbe
  <2>2. HostFits'
    BY <1>1, <2>1, HostUnchanged DEF ActProbe, HostFits
  <2>3. CASE End(o, "pass")
    BY <1>1, <1>3, <2>2, <2>3, EndFields, TurnKeeps
  <2>4. CASE Step(o, "precheck")
    <3>1. /\ Turns(o) /\ acts'[o].pc = "precheck" /\ acts'[o].kind = acts[o].kind
          /\ acts'[o].sha = acts[o].sha /\ acts'[o].fp = acts[o].fp
          /\ acts'[o].target = acts[o].target /\ acts'[o].before = acts[o].before
      BY <1>1, <2>4, StepFields DEF Places, Begun
    <3>2. OperatorFits(o)'
      BY <1>1, <1>2, <2>1, <3>1 DEF OperatorFits, Begun, Recovering, Spawning, Installer, Kind
    <3> QED BY <1>3, <2>2, <3>1, <3>2, TurnKeeps
  <2> QED BY <1>5, <2>3, <2>4 DEF ActProbe
<1> QED BY <1>4, <1>5

\* What the precheck saw is what is alive.
LEMMA ActPrecheckKeeps ==
  ASSUME RuntimeInv, MaxActive = 1, NEW o \in Operators, ActPrecheck(o)
  PROVE  RuntimeInv'
<1>1. HostFits /\ acts \in [Operators -> Act] /\ OperatorFits(o) /\ Solo
  BY Parts
<1>2. acts[o].pc = "precheck"
  BY DEF ActPrecheck, At
<1>3. Only(o)
  BY <1>1, <1>2, OthersOver DEF Over
<1>4. CASE GiveUp(o)
  <2>1. configFile' \in Configs
    BY <1>2, <1>4, GiveUpTyped DEF Begun
  <2>2. HostFits'
    BY <1>1, <2>1, HostUnchanged DEF ActPrecheck
  <2> QED BY <1>2, <1>3, <1>4, <2>2, GiveUpKeeps DEF Begun
<1>5. CASE /\ ReadyOk /\ acts' = [acts EXCEPT ![o].pc = "select", ![o].seen = Serving]
           /\ UNCHANGED configFile
  <2>1. HostFits' /\ Pids' = Pids /\ \A p \in Pids : Alive(p)' <=> Alive(p)
    BY <1>1, <1>5, HostUnchanged DEF ActPrecheck, HostFits
  <2>2. port \in Pids
    BY <1>1, <1>5 DEF HostFits, PortFits, ReadyOk
  <2>3. procs[port].sha \in Revisions
    <3>1. PICK n \in Nat : procs \in [1..n -> Process]
      BY <1>1 DEF HostFits
    <3>2. procs[port] \in Process
      BY <2>2, <3>1 DEF Pids
    <3> QED BY <3>2 DEF Process
  <2>4. Serving # NoRevision
    BY <1>5, <2>3, RuntimeAssumption DEF Serving
  <2>5. PICK seen \in Revisions : /\ seen = Serving /\ seen = procs[port].sha
                                   /\ \A p \in Pids : Alive(p) => p = port
    BY <1>1, <2>4, ServingFacts
  <2>6. PICK g \in Act : g = acts[o]
    BY <1>1
  <2>7. PICK h : h = [g EXCEPT !.pc = "select", !.seen = seen]
    OBVIOUS
  <2>8. /\ h \in Act /\ h.pc = "select" /\ h.seen = seen /\ h.kind = g.kind /\ h.sha = g.sha
        /\ h.fp = g.fp /\ h.target = g.target /\ h.before = g.before
    BY <2>7 DEF Act, Places, Begun
  <2>9. acts' = [acts EXCEPT ![o] = h]
    BY <1>5, <2>5, <2>6, <2>7
  <2>10. Turns(o) /\ acts'[o] = h
    BY <1>1, <2>8, <2>9 DEF Turns
  <2>11. \A p \in Pids' : Alive(p)' => procs'[p].sha = seen
    BY <2>1, <2>5 DEF ActPrecheck
  <2>12. OperatorFits(o)'
    BY <1>1, <1>2, <1>5, <2>6, <2>8, <2>10, <2>11 DEF OperatorFits, Begun, Recovering, Spawning, Installer, Kind
  <2> QED BY <1>3, <2>1, <2>10, <2>12, TurnKeeps
<1> QED BY <1>4, <1>5 DEF ActPrecheck

\* A rollback candidate is a record under the activation's own fingerprint; the guard's
\* names what the last probe saw.
LEMMA CandidateFacts ==
  ASSUME RuntimeInv, NEW o \in Operators, acts[o].pc = "select"
  PROVE  /\ RollbackCandidate(o) \in Record
         /\ RollbackCandidate(o).sha = NoRevision \/ RollbackCandidate(o).cfg = acts[o].fp
         /\ Kind(o) = "activate" => RollbackCandidate(o).sha \in {NoRevision, acts[o].seen}
<1>1. active \in Record /\ acts[o].seen \in Revisions /\ acts[o].fp \in Configs
  BY Parts DEF HostFits, OperatorFits, Act
<1>2. PICK b \in Record : b = [sha |-> acts[o].seen, cfg |-> acts[o].fp]
  BY <1>1 DEF Record
<1>3. b.sha = acts[o].seen /\ b.cfg = acts[o].fp
  BY <1>2
<1>4. NoRecord \in Record /\ NoRecord.sha = NoRevision
  BY RecordTyped DEF NoRecord
<1>5. \/ GuardedCandidate(o) = NoRecord
      \/ GuardedCandidate(o) = b
      \/ GuardedCandidate(o) = active /\ ValidState(acts[o].fp) /\ active.sha = acts[o].seen
  <2>1. acts[o].seen # NoRevision
    BY <1>1, RuntimeAssumption
  <2>2. CASE ValidState(acts[o].fp)
    BY <2>1, <2>2, Zenon DEF GuardedCandidate
  <2>3. CASE ~ValidState(acts[o].fp)
    BY <1>2, <2>1, <2>3, Zenon DEF GuardedCandidate
  <2> QED BY <2>2, <2>3
<1>6. ValidState(acts[o].fp) => active.cfg = acts[o].fp
  BY DEF ValidState
<1>7. CASE Kind(o) = "activate"
  <2>1. RollbackCandidate(o) = GuardedCandidate(o)
    BY <1>7 DEF RollbackCandidate
  <2> QED BY <1>1, <1>3, <1>4, <1>5, <1>6, <2>1
<1>8. CASE Kind(o) # "activate"
  <2>1. RollbackCandidate(o) = IF ValidState(acts[o].fp) THEN active ELSE NoRecord
    BY <1>8 DEF RollbackCandidate
  <2> QED BY <1>1, <1>4, <1>6, <1>8, <2>1
<1> QED BY <1>7, <1>8

\* What is to be stopped is what the precheck saw: the candidate is that or none.
LEMMA ActSelectKeeps ==
  ASSUME RuntimeInv, MaxActive = 1, NEW o \in Operators, ActSelect(o)
  PROVE  RuntimeInv'
<1>1. HostFits /\ acts \in [Operators -> Act] /\ OperatorFits(o) /\ Solo
  BY Parts
<1>2. acts[o].pc = "select"
  BY DEF ActSelect, At
<1>3. Only(o)
  BY <1>1, <1>2, OthersOver DEF Over
<1>4. CASE GiveUp(o)
  <2>1. configFile' \in Configs
    BY <1>2, <1>4, GiveUpTyped DEF Begun
  <2>2. HostFits'
    BY <1>1, <2>1, HostUnchanged DEF ActSelect
  <2> QED BY <1>2, <1>3, <1>4, <2>2, GiveUpKeeps DEF Begun
<1>5. CASE /\ Cardinality(Listening) = 1 /\ configFile' = configFile
           /\ acts' = [acts EXCEPT ![o].pc = "stop", ![o].pid = port,
                                   ![o].back = RollbackCandidate(o)]
  <2>1. HostFits' /\ Pids' = Pids /\ \A p \in Pids : Alive(p)' <=> Alive(p)
    BY <1>1, <1>5, HostUnchanged DEF ActSelect, HostFits
  <2>2. port # 0
    BY <1>5, FS_EmptySet DEF Listening
  <2>3. port \in Pids /\ port \in Nat /\ Alive(port) /\ \A p \in Pids : Alive(p) => p = port
    BY <1>1, <2>2 DEF HostFits, PortFits, OneAlive, Alive
  <2>4. PICK b \in Record : b = RollbackCandidate(o)
    BY <1>2, CandidateFacts
  <2>5. PICK g \in Act : g = acts[o]
    BY <1>1
  <2>6. PICK h : h = [g EXCEPT !.pc = "stop", !.pid = port, !.back = b]
    OBVIOUS
  <2>7. /\ h \in Act /\ h.pc = "stop" /\ h.pid = port /\ h.back = b /\ h.kind = g.kind
        /\ h.sha = g.sha /\ h.fp = g.fp /\ h.target = g.target /\ h.before = g.before
    BY <2>3, <2>6 DEF Act, Places, Begun
  <2>8. acts' = [acts EXCEPT ![o] = h]
    BY <1>5, <2>4, <2>5, <2>6
  <2>9. Turns(o) /\ acts'[o] = h
    BY <1>1, <2>7, <2>8 DEF Turns
  <2>10. procs[port].sha = g.seen
    BY <1>1, <1>2, <2>3, <2>5 DEF OperatorFits
  <2>11. /\ b.sha = NoRevision \/ b.cfg = g.fp
         /\ g.kind = "activate" => b.sha \in {NoRevision, procs'[port].sha}
    BY <1>2, <2>4, <2>5, <2>10, CandidateFacts DEF Kind, ActSelect
  <2>12. /\ port \in Pids' /\ \A p \in Pids' : Alive(p)' => p = port
         /\ configFile' = configFile /\ procs' = procs
    BY <1>5, <2>1, <2>3 DEF ActSelect
  <2>13. /\ g.sha \in Revisions /\ g.fp = ProfileFingerprint(configFile) /\ g.target = 0
         /\ g.kind \in {"scope", "root", "smoke"} => g.before \in Revisions
    BY <1>1, <1>2, <2>5 DEF OperatorFits, Begun, Spawning, Installer, Kind
  <2>14. OperatorFits(o)'
    BY <2>7, <2>9, <2>11, <2>12, <2>13
       DEF OperatorFits, Begun, Recovering, Spawning, Installer, Kind
  <2> QED BY <1>3, <2>1, <2>9, <2>14, TurnKeeps
<1> QED BY <1>4, <1>5 DEF ActSelect

------------------------------------------------------------------------------
\* What stop, start and their failures need of the operator that carries them out.
LEMMA BegunFacts ==
  ASSUME NEW o \in Operators, OperatorFits(o), acts[o].pc \in Begun
  PROVE  /\ acts[o].sha \in Revisions /\ acts[o].fp = ProfileFingerprint(configFile)
         /\ Kind(o) \in {"scope", "root", "smoke"} => acts[o].before \in Revisions
  BY DEF OperatorFits, Installer, Kind

\* With the one process stopped nothing is alive, and was is what was seen.
LEMMA ActStopKeeps ==
  ASSUME RuntimeInv, MaxActive = 1, NEW o \in Operators, ActStop(o)
  PROVE  RuntimeInv'
<1>1. HostFits /\ acts \in [Operators -> Act] /\ OperatorFits(o) /\ Solo
  BY Parts
<1>2. acts[o].pc = "stop"
  BY DEF ActStop, At
<1>3. Only(o)
  BY <1>1, <1>2, OthersOver DEF Over
<1>4. PICK g \in Act : g = acts[o]
  BY <1>1
<1>5. /\ g.pid \in Pids /\ \A p \in Pids : Alive(p) => p = g.pid
      /\ g.target = 0 /\ (g.back.sha = NoRevision \/ g.back.cfg = g.fp)
      /\ g.kind = "activate" => g.back.sha \in {NoRevision, procs[g.pid].sha}
      /\ g.sha \in Revisions /\ g.fp = ProfileFingerprint(configFile)
      /\ g.kind \in {"scope", "root", "smoke"} => g.before \in Revisions
  BY <1>1, <1>2, <1>4, BegunFacts DEF OperatorFits, Begun, Spawning, Kind
<1>6. /\ HostFits' /\ Pids' = Pids
      /\ \A p \in Pids : Alive(p)' <=> Alive(p) /\ p # g.pid
  BY <1>1, <1>4, <1>5, KillKeeps DEF ActStop, HostFits
<1>7. \A p \in Pids' : ~Alive(p)'
  BY <1>5, <1>6
<1>8. PICK was \in Revisions : was = procs[g.pid].sha
  <2>1. PICK n \in Nat : procs \in [1..n -> Process]
    BY <1>1 DEF HostFits
  <2>2. procs[g.pid] \in Process
    BY <1>5, <2>1 DEF Pids
  <2> QED BY <2>2 DEF Process
<1>9. PICK pc \in {"await_free", "error"} : pc = IF Alive(g.pid) THEN "await_free" ELSE "error"
  OBVIOUS
<1>10. PICK h : h = [g EXCEPT !.pc = pc, !.was = was]
  OBVIOUS
<1>11. /\ h \in Act /\ h.pc = pc /\ h.was = was /\ h.back = g.back /\ h.kind = g.kind
       /\ h.sha = g.sha /\ h.fp = g.fp /\ h.target = g.target /\ h.before = g.before
  BY <1>10 DEF Act, Places, Begun
<1>12. acts' = [acts EXCEPT ![o] = h]
  BY <1>4, <1>8, <1>9, <1>10 DEF ActStop
<1>13. Turns(o) /\ acts'[o] = h
  BY <1>1, <1>11, <1>12 DEF Turns
<1>14. configFile' = configFile
  BY DEF ActStop
<1>15. NoneAlive'
  BY <1>7 DEF NoneAlive
<1>16. OperatorFits(o)'
  BY <1>5, <1>7, <1>8, <1>9, <1>11, <1>13, <1>14, <1>15 DEF OperatorFits, Begun, Recovering, Spawning, Installer, Kind
<1> QED BY <1>3, <1>6, <1>13, <1>16, TurnKeeps

\* The facts that survive a step which changes only an operator's place.
LEMMA StepFits ==
  ASSUME NEW o \in Operators, NEW pc \in Places, acts \in [Operators -> Act],
         OperatorFits(o), acts[o].pc \in Begun \cup Recovering,
         Step(o, pc), configFile' = configFile
  PROVE  /\ Turns(o) /\ acts'[o].pc = pc
         /\ acts'[o].sha = acts[o].sha /\ acts'[o].fp = acts[o].fp
         /\ acts'[o].pid = acts[o].pid /\ acts'[o].target = acts[o].target
         /\ acts'[o].back = acts[o].back /\ acts'[o].was = acts[o].was
         /\ acts'[o].kind = acts[o].kind /\ acts'[o].phase = acts[o].phase
         /\ acts'[o].sha \in Revisions /\ acts'[o].fp = ProfileFingerprint(configFile')
         /\ acts[o].pc \in Begun /\ acts'[o].kind \in {"scope", "root", "smoke"} =>
              acts'[o].before \in Revisions
<1>1. /\ Turns(o) /\ acts'[o].pc = pc
      /\ acts'[o].sha = acts[o].sha /\ acts'[o].fp = acts[o].fp
      /\ acts'[o].pid = acts[o].pid /\ acts'[o].target = acts[o].target
      /\ acts'[o].back = acts[o].back /\ acts'[o].was = acts[o].was
      /\ acts'[o].kind = acts[o].kind /\ acts'[o].phase = acts[o].phase
      /\ acts'[o].before = acts[o].before
  BY StepFields
<1>2. /\ acts[o].sha \in Revisions /\ acts[o].fp = ProfileFingerprint(configFile)
      /\ acts[o].pc \in Begun /\ acts[o].kind \in {"scope", "root", "smoke"} =>
           acts[o].before \in Revisions
  BY DEF OperatorFits, Installer, Kind
<1> QED BY <1>1, <1>2

\* The target alone is alive, under the config on disk.
LEMMA ActStartKeeps ==
  ASSUME RuntimeInv, MaxActive = 1, NEW o \in Operators, ActStart(o)
  PROVE  RuntimeInv'
<1>1. HostFits /\ acts \in [Operators -> Act] /\ OperatorFits(o) /\ Solo
  BY Parts
<1>2. acts[o].pc = "await_free"
  BY DEF ActStart, At
<1>3. Only(o)
  BY <1>1, <1>2, OthersOver DEF Over
<1>4. PICK g \in Act : g = acts[o]
  BY <1>1
<1>5. /\ NoneAlive /\ g.target = 0 /\ (g.back.sha = NoRevision \/ g.back.cfg = g.fp)
      /\ g.kind = "activate" => g.back.sha \in {NoRevision, g.was}
      /\ g.sha \in Revisions /\ g.fp = ProfileFingerprint(configFile)
      /\ g.kind \in {"scope", "root", "smoke"} => g.before \in Revisions
  BY <1>1, <1>2, <1>4, BegunFacts DEF OperatorFits, Begun, Spawning, Kind
<1>6. configFile' = configFile
  BY DEF ActStart
<1>7. CASE /\ SpawnRuntime(g.sha)
           /\ acts' = [acts EXCEPT ![o].pc = "await_ready", ![o].target = NewPid]
  <2>1. /\ HostFits' /\ NewPid \in Pids' /\ NewPid # 0 /\ NewPid \in Nat
        /\ procs'[NewPid].sha = g.sha /\ procs'[NewPid].cfg = configFile
        /\ \A p \in Pids' : Alive(p)' => p = NewPid
    BY <1>1, <1>5, <1>7, SpawnKeeps DEF ActStart
  <2>2. PICK t \in Nat : t = NewPid
    BY <2>1
  <2>3. PICK h : h = [g EXCEPT !.pc = "await_ready", !.target = t]
    OBVIOUS
  <2>4. /\ h \in Act /\ h.pc = "await_ready" /\ h.target = t /\ h.was = g.was
        /\ h.back = g.back /\ h.kind = g.kind
        /\ h.sha = g.sha /\ h.fp = g.fp /\ h.before = g.before
    BY <2>3 DEF Act, Places, Begun
  <2>5. acts' = [acts EXCEPT ![o] = h]
    BY <1>4, <1>7, <2>2, <2>3
  <2>6. Turns(o) /\ acts'[o] = h
    BY <1>1, <2>4, <2>5 DEF Turns
  <2>7. /\ t \in Pids' /\ t # 0 /\ procs'[t].sha = g.sha /\ procs'[t].cfg = configFile
        /\ \A p \in Pids' : Alive(p)' => p = t
    BY <2>1, <2>2
  <2>8. OperatorFits(o)'
    BY <1>5, <1>6, <2>4, <2>6, <2>7 DEF OperatorFits, Begun, Recovering, Spawning, Installer, Kind
  <2> QED BY <1>3, <2>1, <2>6, <2>8, TurnKeeps
<1>8. CASE Step(o, "error") /\ UNCHANGED procs
  <2>1. HostFits' /\ Pids' = Pids /\ \A p \in Pids : Alive(p)' <=> Alive(p)
    BY <1>1, <1>8, HostUnchanged DEF ActStart, HostFits
  <2>2. /\ Turns(o) /\ acts'[o].pc = "error" /\ acts'[o].target = g.target
        /\ acts'[o].back = g.back /\ acts'[o].was = g.was /\ acts'[o].kind = g.kind
        /\ acts'[o].sha \in Revisions /\ acts'[o].fp = ProfileFingerprint(configFile')
        /\ acts'[o].fp = g.fp
        /\ acts'[o].kind \in {"scope", "root", "smoke"} => acts'[o].before \in Revisions
    BY <1>1, <1>2, <1>4, <1>6, <1>8, StepFits DEF Places, Begun
  <2>3. \A p \in Pids' : ~Alive(p)'
    BY <1>5, <2>1 DEF NoneAlive
  <2>4. OperatorFits(o)'
    BY <1>5, <2>2, <2>3 DEF OperatorFits, Begun, Recovering, Spawning, Installer, Kind
  <2> QED BY <1>3, <2>1, <2>2, <2>4, TurnKeeps
<1> QED BY <1>4, <1>7, <1>8 DEF ActStart

\* The revision that answers is the target, ready under the fingerprint.
LEMMA ActAwaitReadyKeeps ==
  ASSUME RuntimeInv, MaxActive = 1, NEW o \in Operators, ActAwaitReady(o)
  PROVE  RuntimeInv'
<1>1. HostFits /\ acts \in [Operators -> Act] /\ OperatorFits(o) /\ Solo
  BY Parts
<1>2. acts[o].pc = "await_ready"
  BY DEF ActAwaitReady, At
<1>3. Only(o)
  BY <1>1, <1>2, OthersOver DEF Over
<1>4. HostFits' /\ Pids' = Pids /\ \A p \in Pids : Alive(p)' <=> Alive(p)
  BY <1>1, HostUnchanged DEF ActAwaitReady, HostFits
<1>5. configFile' = configFile /\ procs' = procs /\ proven' = proven
  BY DEF ActAwaitReady
<1>6. /\ acts[o].sha \in Revisions /\ acts[o].fp = ProfileFingerprint(configFile)
      /\ acts[o].target \in Pids /\ procs[acts[o].target].sha = acts[o].sha
      /\ procs[acts[o].target].cfg = configFile
      /\ \A p \in Pids : Alive(p) => p = acts[o].target
      /\ acts[o].back.sha = NoRevision \/ acts[o].back.cfg = acts[o].fp
      /\ acts[o].kind = "activate" => acts[o].back.sha \in {NoRevision, acts[o].was}
  BY <1>1, <1>2 DEF OperatorFits, Begun, Kind
<1>7. PICK pc \in {"write", "error"} :
        Step(o, pc) /\ (pc = "write" => ExactReady(acts[o].sha))
  BY DEF ActAwaitReady
<1>8. /\ Turns(o) /\ acts'[o].pc = pc /\ acts'[o].target = acts[o].target
      /\ acts'[o].back = acts[o].back /\ acts'[o].was = acts[o].was
      /\ acts'[o].kind = acts[o].kind /\ acts'[o].sha = acts[o].sha
      /\ acts'[o].fp = acts[o].fp
      /\ acts'[o].kind \in {"scope", "root", "smoke"} => acts'[o].before \in Revisions
  BY <1>1, <1>2, <1>5, <1>7, StepFits DEF Places, Begun
<1>9. pc = "write" => <<acts[o].sha, acts[o].fp>> \in proven
  <2> SUFFICES ASSUME pc = "write" PROVE <<acts[o].sha, acts[o].fp>> \in proven
    OBVIOUS
  <2>1. Serving = acts[o].sha /\ Serving # NoRevision
    BY <1>6, <1>7, RuntimeAssumption DEF ExactReady
  <2>2. port = acts[o].target /\ <<Serving, ProfileFingerprint(procs[port].cfg)>> \in proven
    BY <1>1, <1>6, <2>1, ServingFacts
  <2> QED BY <1>6, <2>1, <2>2
<1>10. \A p \in Pids' : Alive(p)' => p = acts[o].target
  BY <1>4, <1>6
<1>11. OperatorFits(o)'
  BY <1>4, <1>5, <1>6, <1>8, <1>9, <1>10 DEF OperatorFits, Begun, Recovering, Spawning, Installer, Kind
<1> QED BY <1>3, <1>4, <1>8, <1>11, TurnKeeps

\* The record takes the pair that was ready.
LEMMA ActWriteKeeps ==
  ASSUME RuntimeInv, MaxActive = 1, NEW o \in Operators, ActWrite(o)
  PROVE  RuntimeInv'
<1>1. HostFits /\ acts \in [Operators -> Act] /\ OperatorFits(o) /\ Solo
  BY Parts
<1>2. acts[o].pc = "write"
  BY DEF ActWrite, At
<1>3. Only(o)
  BY <1>1, <1>2, OthersOver DEF Over
<1>4. active' \in Record /\ <<active'.sha, active'.cfg>> \in proven
  <2>1. acts[o].sha \in Revisions /\ acts[o].fp \in Configs /\ <<acts[o].sha, acts[o].fp>> \in proven
    BY <1>1, <1>2 DEF OperatorFits, Begun, Act
  <2>2. PICK r \in Record : r = [sha |-> acts[o].sha, cfg |-> acts[o].fp]
    BY <2>1 DEF Record
  <2>3. active' = r /\ r.sha = acts[o].sha /\ r.cfg = acts[o].fp
    BY <2>2 DEF ActWrite
  <2> QED BY <2>1, <2>2, <2>3
<1>5. HostFits'
  BY <1>1, <1>4, RecordKeeps DEF ActWrite, HostFits
<1>6. Turns(o) /\ OperatorFits(o)'
  BY <1>1, EndFields DEF ActWrite
<1> QED BY <1>3, <1>5, <1>6, TurnKeeps

\* The target stopped, nothing is alive when the candidate is started.
LEMMA ActErrorKeeps ==
  ASSUME RuntimeInv, MaxActive = 1, NEW o \in Operators, ActError(o)
  PROVE  RuntimeInv'
<1>1. HostFits /\ acts \in [Operators -> Act] /\ OperatorFits(o) /\ Solo
  BY Parts
<1>2. acts[o].pc = "error"
  BY DEF ActError, At
<1>3. Only(o)
  BY <1>1, <1>2, OthersOver DEF Over
<1>4. configFile' \in Configs
  BY <1>1, <1>2, GiveUpTyped DEF ActError, HostFits, Begun
<1>5. /\ acts[o].target # 0 => acts[o].target \in Pids
      /\ \A p \in Pids : Alive(p) => p = acts[o].target
      /\ acts[o].sha \in Revisions
      /\ acts[o].back.sha = NoRevision \/ acts[o].back.cfg = acts[o].fp
      /\ acts[o].kind = "activate" => acts[o].back.sha \in {NoRevision, acts[o].was}
      /\ acts[o].target # 0 => /\ procs[acts[o].target].sha = acts[o].sha
                               /\ procs[acts[o].target].cfg = configFile
  BY <1>1, <1>2 DEF OperatorFits, Begun, Kind
<1>6. /\ HostFits' /\ Pids' = Pids
      /\ \A p \in Pids : /\ Alive(p)' => Alive(p) /\ p # acts[o].target
                         /\ procs'[p].sha = procs[p].sha /\ procs'[p].cfg = procs[p].cfg
  <2>1. CASE acts[o].target = 0
    <3>1. HostFits' /\ Pids' = Pids /\ \A p \in Pids : Alive(p)' <=> Alive(p)
      BY <1>1, <1>4, <2>1, HostUnchanged DEF ActError
    <3>2. 0 \notin Pids /\ procs' = procs
      BY <1>1, <2>1 DEF HostFits, Pids, ActError
    <3> QED BY <2>1, <3>1, <3>2
  <2>2. CASE acts[o].target # 0
    BY <1>1, <1>4, <1>5, <2>2, KillKeeps DEF ActError
  <2> QED BY <2>1, <2>2
<1>7. \A p \in Pids' : ~Alive(p)'
  BY <1>5, <1>6
<1>8. CASE GiveUp(o)
  BY <1>2, <1>3, <1>6, <1>8, GiveUpKeeps DEF Begun
<1>9. CASE /\ acts[o].back.sha # NoRevision /\ Step(o, "back_start") /\ configFile' = configFile
  <2>1. /\ Turns(o) /\ acts'[o].pc = "back_start" /\ acts'[o].target = acts[o].target
        /\ acts'[o].back = acts[o].back /\ acts'[o].was = acts[o].was
        /\ acts'[o].kind = acts[o].kind /\ acts'[o].sha = acts[o].sha
        /\ acts'[o].fp = acts[o].fp /\ acts'[o].fp = ProfileFingerprint(configFile')
        /\ acts'[o].kind \in {"scope", "root", "smoke"} => acts'[o].before \in Revisions
    BY <1>1, <1>2, <1>9, StepFits DEF Places, Begun
  <2>2. NoneAlive'
    BY <1>7 DEF NoneAlive
  <2>3. OperatorFits(o)'
    BY <1>5, <1>6, <1>9, <2>1, <2>2 DEF OperatorFits, Begun, Recovering, Spawning, Installer, Kind
  <2> QED BY <1>3, <1>6, <2>1, <2>3, TurnKeeps
<1> QED BY <1>8, <1>9 DEF ActError

\* The candidate alone is alive, under the config on disk.
LEMMA BackStartKeeps ==
  ASSUME RuntimeInv, MaxActive = 1, NEW o \in Operators, BackStart(o)
  PROVE  RuntimeInv'
<1>1. HostFits /\ acts \in [Operators -> Act] /\ OperatorFits(o) /\ Solo
  BY Parts
<1>2. acts[o].pc = "back_start"
  BY DEF BackStart, At
<1>3. Only(o)
  BY <1>1, <1>2, OthersOver DEF Over
<1>4. /\ acts[o].target # 0 => acts[o].target \in Pids
      /\ NoneAlive /\ acts[o].sha \in Revisions
      /\ acts[o].back.sha # NoRevision /\ acts[o].back.cfg = acts[o].fp
      /\ acts[o].kind = "activate" => acts[o].back.sha \in {NoRevision, acts[o].was}
      /\ acts[o].target # 0 => /\ procs[acts[o].target].sha = acts[o].sha
                               /\ procs[acts[o].target].cfg = configFile
  BY <1>1, <1>2 DEF OperatorFits, Begun, Kind
<1>5. acts[o].back.sha \in Revisions
  <2>1. acts[o] \in Act
    BY <1>1
  <2>2. acts[o].back \in Record
    BY <2>1 DEF Act
  <2> QED BY <1>4, <2>2 DEF Record
<1>6. /\ HostFits' /\ NewPid \in Pids' /\ Pids \subseteq Pids'
      /\ \A p \in Pids : procs'[p] = procs[p]
      /\ procs'[NewPid].sha = acts[o].back.sha /\ procs'[NewPid].cfg = configFile
      /\ \A p \in Pids' : Alive(p)' => p = NewPid
  BY <1>1, <1>4, <1>5, SpawnKeeps DEF BackStart
<1>7. configFile' = configFile
  BY DEF BackStart
<1>8. /\ Turns(o) /\ acts'[o].pc = "back_ready" /\ acts'[o].target = acts[o].target
      /\ acts'[o].back = acts[o].back /\ acts'[o].was = acts[o].was
      /\ acts'[o].kind = acts[o].kind /\ acts'[o].sha = acts[o].sha
      /\ acts'[o].fp = acts[o].fp /\ acts'[o].fp = ProfileFingerprint(configFile')
      /\ acts'[o].kind \in {"scope", "root", "smoke"} => acts'[o].before \in Revisions
  BY <1>1, <1>2, <1>7, StepFits DEF Places, Begun, BackStart
<1>9. \A p \in Pids' : Alive(p)' => /\ procs'[p].sha = acts[o].back.sha
                                    /\ procs'[p].cfg = configFile
  BY <1>6
<1>10. acts[o].target # 0 => /\ acts[o].target \in Pids'
                            /\ procs'[acts[o].target].sha = acts[o].sha
                            /\ procs'[acts[o].target].cfg = configFile
  BY <1>4, <1>6
<1>11. OperatorFits(o)'
  BY <1>4, <1>7, <1>8, <1>9, <1>10 DEF OperatorFits, Begun, Recovering, Spawning, Installer, Kind
<1> QED BY <1>3, <1>6, <1>8, <1>11, TurnKeeps

\* The record takes the candidate only when it is ready.
LEMMA BackReadyKeeps ==
  ASSUME RuntimeInv, MaxActive = 1, NEW o \in Operators, BackReady(o)
  PROVE  RuntimeInv'
<1>1. HostFits /\ acts \in [Operators -> Act] /\ OperatorFits(o) /\ Solo
  BY Parts
<1>2. acts[o].pc = "back_ready"
  BY DEF BackReady, At
<1>3. Only(o)
  BY <1>1, <1>2, OthersOver DEF Over
<1>4. configFile' \in Configs
  BY <1>1, <1>2, GiveUpTyped DEF BackReady, Begun
<1>5. active' \in Record /\ (active' = active \/ <<active'.sha, active'.cfg>> \in proven)
  <2>1. CASE ExactReady(acts[o].back.sha) /\ active' = acts[o].back
    <3>1. /\ acts[o].back \in Record /\ acts[o].back.sha # NoRevision
          /\ acts[o].back.cfg = ProfileFingerprint(configFile)
          /\ \A p \in Pids : Alive(p) => procs[p].cfg = configFile
      BY <1>1, <1>2 DEF OperatorFits, Begun, Act
    <3>2. Serving = acts[o].back.sha
      BY <2>1 DEF ExactReady
    <3>3. <<Serving, ProfileFingerprint(procs[port].cfg)>> \in proven /\ port \in Pids /\ Alive(port)
      BY <1>1, <3>1, <3>2, ServingFacts
    <3>4. procs[port].cfg = configFile
      BY <3>1, <3>3
    <3> QED BY <2>1, <3>1, <3>2, <3>3, <3>4
  <2>2. CASE UNCHANGED active
    BY <1>1, <2>2 DEF HostFits
  <2> QED BY <2>1, <2>2 DEF BackReady
<1>6. HostFits'
  BY <1>1, <1>4, <1>5, RecordKeeps DEF BackReady
<1> QED BY <1>2, <1>3, <1>6, GiveUpKeeps DEF BackReady, Begun

------------------------------------------------------------------------------
\* A port without a listener means that no process is alive.
LEMMA RecoverProbeKeeps ==
  ASSUME RuntimeInv, MaxActive = 1, NEW o \in Operators, RecoverProbe(o)
  PROVE  RuntimeInv'
<1>1. HostFits /\ acts \in [Operators -> Act] /\ OperatorFits(o) /\ Solo
  BY Parts
<1>2. acts[o].pc = "r_probe"
  BY DEF RecoverProbe, At
<1>3. Only(o)
  BY <1>1, <1>2, OthersOver DEF Over
<1>4. HostFits' /\ Pids' = Pids /\ \A p \in Pids : Alive(p)' <=> Alive(p)
  BY <1>1, HostUnchanged DEF RecoverProbe, HostFits
<1>5. configFile' = configFile
  BY DEF RecoverProbe
<1>6. PICK g \in Act : g = acts[o]
  BY <1>1
<1>7. /\ g.target = 0 /\ g.phase = "target" /\ g.sha \in Revisions
      /\ g.fp = ProfileFingerprint(configFile)
      /\ \A p \in Pids : procs[p].st # "starting"
  BY <1>1, <1>2, <1>6 DEF OperatorFits, Begun, Recovering, Spawning
<1>8. CASE End(o, "fail")
  BY <1>1, <1>3, <1>4, <1>8, EndFields, TurnKeeps
<1>9. CASE acts' = [acts EXCEPT ![o].pc = "r_final", ![o].pid = port]
  <2>1. PICK h : h = [g EXCEPT !.pc = "r_final", !.pid = port]
    OBVIOUS
  <2>2. port \in Nat
    BY <1>1 DEF HostFits
  <2>3. /\ h \in Act /\ h.pc = "r_final" /\ h.target = g.target /\ h.phase = g.phase
        /\ h.sha = g.sha /\ h.fp = g.fp
    BY <2>1, <2>2 DEF Act, Places, Recovering
  <2>4. acts' = [acts EXCEPT ![o] = h]
    BY <1>6, <1>9, <2>1
  <2>5. Turns(o) /\ acts'[o] = h
    BY <1>1, <2>3, <2>4 DEF Turns
  <2>6. OperatorFits(o)'
    BY <1>5, <1>7, <2>3, <2>5 DEF OperatorFits, Begun, Recovering, Spawning
  <2> QED BY <1>3, <1>4, <2>5, <2>6, TurnKeeps
<1>10. CASE port = 0 /\ Step(o, "r_start")
  <2>1. /\ Turns(o) /\ acts'[o].pc = "r_start" /\ acts'[o].target = acts[o].target
        /\ acts'[o].sha \in Revisions /\ acts'[o].fp = ProfileFingerprint(configFile')
        /\ acts'[o].phase = acts[o].phase
    BY <1>1, <1>2, <1>5, <1>10, StepFits DEF Places, Recovering
  <2>2. ASSUME NEW p \in Pids PROVE ~Alive(p)
    <3>1. PICK n \in Nat : procs \in [1..n -> Process]
      BY <1>1 DEF HostFits
    <3>2. p # 0 /\ procs[p] \in Process
      BY <3>1 DEF Pids
    <3>3. procs[p].st \notin {"listening", "ready"}
      BY <1>1, <1>10, <3>2 DEF HostFits, PortFits
    <3> QED BY <1>7, <3>2, <3>3 DEF Alive, Process
  <2>3. NoneAlive'
    BY <1>4, <2>2 DEF NoneAlive
  <2>4. OperatorFits(o)'
    BY <1>6, <1>7, <2>1, <2>3 DEF OperatorFits, Begun, Recovering, Spawning
  <2> QED BY <1>3, <1>4, <2>1, <2>4, TurnKeeps
<1> QED BY <1>8, <1>9, <1>10 DEF RecoverProbe

\* The recovered revision alone is alive.
LEMMA RecoverStartKeeps ==
  ASSUME RuntimeInv, MaxActive = 1, NEW o \in Operators, RecoverStart(o)
  PROVE  RuntimeInv'
<1>1. HostFits /\ acts \in [Operators -> Act] /\ OperatorFits(o) /\ Solo
  BY Parts
<1>2. acts[o].pc = "r_start"
  BY DEF RecoverStart, At
<1>3. Only(o)
  BY <1>1, <1>2, OthersOver DEF Over
<1>4. PICK g \in Act : g = acts[o]
  BY <1>1
<1>5. /\ NoneAlive /\ g.phase = "target" /\ g.sha \in Revisions
      /\ g.fp = ProfileFingerprint(configFile)
  BY <1>1, <1>2, <1>4 DEF OperatorFits, Begun, Recovering, Spawning
<1>6. configFile' = configFile
  BY DEF RecoverStart
<1>7. /\ HostFits' /\ NewPid \in Pids' /\ NewPid # 0 /\ NewPid \in Nat
      /\ procs'[NewPid].sha = g.sha /\ procs'[NewPid].cfg = configFile
  BY <1>1, <1>4, <1>5, SpawnKeeps DEF RecoverStart
<1>8. PICK t \in Nat : t = NewPid
  BY <1>7
<1>9. PICK h : h = [g EXCEPT !.pc = "r_ready", !.target = t, !.pid = t]
  OBVIOUS
<1>10. /\ h \in Act /\ h.pc = "r_ready" /\ h.target = t /\ h.pid = t /\ h.phase = g.phase
       /\ h.sha = g.sha /\ h.fp = g.fp
  BY <1>9 DEF Act, Places, Recovering
<1>11. acts' = [acts EXCEPT ![o] = h]
  BY <1>4, <1>8, <1>9 DEF RecoverStart
<1>12. Turns(o) /\ acts'[o] = h
  BY <1>1, <1>10, <1>11 DEF Turns
<1>13. t \in Pids' /\ t # 0 /\ procs'[t].sha = g.sha /\ procs'[t].cfg = configFile
  BY <1>7, <1>8
<1>14. OperatorFits(o)'
  BY <1>5, <1>6, <1>10, <1>12, <1>13 DEF OperatorFits, Begun, Recovering, Spawning
<1> QED BY <1>3, <1>7, <1>12, <1>14, TurnKeeps

\* What is known of a recovery that may have started a process.
LEMMA RecoveringFacts ==
  ASSUME NEW o \in Operators, OperatorFits(o), acts[o].pc \in {"r_ready", "r_final", "r_error"}
  PROVE  /\ acts[o].phase = "target" /\ acts[o].sha \in Revisions
         /\ acts[o].fp = ProfileFingerprint(configFile)
         /\ acts[o].target # 0 => /\ acts[o].target \in Pids
                                  /\ procs[acts[o].target].sha = acts[o].sha
                                  /\ procs[acts[o].target].cfg = configFile
         /\ acts[o].pc \in {"r_ready", "r_final"} /\ acts[o].target # 0 =>
              acts[o].pid = acts[o].target
  BY DEF OperatorFits, Begun, Recovering

\* A step of recover that only changes its place.
LEMMA RecoverStepKeeps ==
  ASSUME RuntimeInv, NEW o \in Operators, Only(o), NEW pc \in {"r_final", "r_error"}, Step(o, pc),
         acts[o].pc \in {"r_ready", "r_final"},
         procs' = procs, port' = port, configFile' = configFile, active' = active, proven' = proven
  PROVE  RuntimeInv'
<1>1. HostFits /\ acts \in [Operators -> Act] /\ OperatorFits(o) /\ Solo
  BY Parts
<1>2. HostFits' /\ Pids' = Pids
  BY <1>1, HostUnchanged DEF HostFits
<1>3. /\ Turns(o) /\ acts'[o].pc = pc /\ acts'[o].target = acts[o].target
      /\ acts'[o].pid = acts[o].pid /\ acts'[o].sha = acts[o].sha
      /\ acts'[o].sha \in Revisions /\ acts'[o].fp = ProfileFingerprint(configFile')
      /\ acts'[o].phase = acts[o].phase
  BY <1>1, StepFits DEF Places, Recovering
<1>4. OperatorFits(o)'
  BY <1>1, <1>2, <1>3, RecoveringFacts DEF OperatorFits, Begun, Recovering, Spawning
<1> QED BY <1>2, <1>3, <1>4, TurnKeeps

\* The recovered runtime answers, or recovery fails.
LEMMA RecoverReadyKeeps ==
  ASSUME RuntimeInv, MaxActive = 1, NEW o \in Operators, RecoverReady(o)
  PROVE  RuntimeInv'
<1>1. HostFits /\ acts \in [Operators -> Act] /\ OperatorFits(o) /\ Solo
  BY Parts
<1>2. acts[o].pc = "r_ready"
  BY DEF RecoverReady, At
<1>3. Only(o)
  BY <1>1, <1>2, OthersOver DEF Over
<1> QED BY <1>2, <1>3, RecoverStepKeeps DEF RecoverReady

\* The record takes what recovery started and saw ready.
LEMMA RecoverFinalKeeps ==
  ASSUME RuntimeInv, MaxActive = 1, NEW o \in Operators, RecoverFinal(o)
  PROVE  RuntimeInv'
<1>1. HostFits /\ acts \in [Operators -> Act] /\ OperatorFits(o) /\ Solo
  BY Parts
<1>2. acts[o].pc = "r_final"
  BY DEF RecoverFinal, At
<1>3. Only(o)
  BY <1>1, <1>2, OthersOver DEF Over
<1>4. CASE Step(o, "r_error") /\ UNCHANGED active
  BY <1>2, <1>3, <1>4, RecoverStepKeeps DEF RecoverFinal
<1>5. CASE /\ ExactReady(acts[o].sha) /\ port = acts[o].pid /\ End(o, "pass")
           /\ active' = IF acts[o].target = 0 THEN active
                        ELSE [sha |-> acts[o].sha, cfg |-> acts[o].fp]
  <2>1. active' \in Record /\ (active' = active \/ <<active'.sha, active'.cfg>> \in proven)
    <3>1. CASE acts[o].target = 0
      BY <1>1, <1>5, <3>1 DEF HostFits
    <3>2. CASE acts[o].target # 0
      <4>1. /\ acts[o].sha \in Revisions /\ acts[o].fp = ProfileFingerprint(configFile)
            /\ procs[port].cfg = configFile
        BY <1>1, <1>2, <1>5, <3>2, RecoveringFacts
      <4>2. Serving = acts[o].sha /\ Serving # NoRevision
        BY <1>5, <4>1, RuntimeAssumption DEF ExactReady
      <4>3. <<Serving, ProfileFingerprint(procs[port].cfg)>> \in proven
        BY <1>1, <4>2, ServingFacts
      <4>4. acts[o].fp \in Configs
        BY <1>1 DEF Act
      <4>5. PICK r \in Record : r = [sha |-> acts[o].sha, cfg |-> acts[o].fp]
        BY <4>1, <4>4 DEF Record
      <4>6. active' = r /\ r.sha = acts[o].sha /\ r.cfg = acts[o].fp
        BY <1>5, <3>2, <4>5
      <4> QED BY <4>1, <4>2, <4>3, <4>6
    <3> QED BY <3>1, <3>2
  <2>2. HostFits'
    BY <1>1, <2>1, RecordKeeps DEF RecoverFinal, HostFits
  <2>3. Turns(o) /\ OperatorFits(o)'
    BY <1>1, <1>5, EndFields
  <2> QED BY <1>3, <2>2, <2>3, TurnKeeps
<1> QED BY <1>4, <1>5 DEF RecoverFinal

\* What recovery started is stopped.
LEMMA RecoverErrorKeeps ==
  ASSUME RuntimeInv, MaxActive = 1, NEW o \in Operators, RecoverError(o)
  PROVE  RuntimeInv'
<1>1. HostFits /\ acts \in [Operators -> Act] /\ OperatorFits(o) /\ Solo
  BY Parts
<1>2. acts[o].pc = "r_error"
  BY DEF RecoverError, At
<1>3. Only(o)
  BY <1>1, <1>2, OthersOver DEF Over
<1>4. HostFits'
  <2>1. CASE acts[o].target = 0
    BY <1>1, <2>1, HostUnchanged DEF RecoverError, HostFits
  <2>2. CASE acts[o].target # 0
    <3>1. acts[o].target \in Pids
      BY <1>1, <1>2, <2>2, RecoveringFacts
    <3> QED BY <1>1, <2>2, <3>1, KillKeeps DEF RecoverError, HostFits
  <2> QED BY <2>1, <2>2
<1>5. Turns(o) /\ OperatorFits(o)'
  BY <1>1, EndFields DEF RecoverError
<1> QED BY <1>3, <1>4, <1>5, TurnKeeps

\* An operator's process ended at any step leaves the host as it is.
LEMMA OperatorDiesKeeps ==
  ASSUME RuntimeInv, MaxActive = 1, NEW o \in Operators, OperatorDies(o)
  PROVE  RuntimeInv'
<1>1. HostFits /\ acts \in [Operators -> Act] /\ OperatorFits(o) /\ Solo
  BY Parts
<1>2. Only(o)
  BY <1>1, OthersOver DEF OperatorDies
<1>3. HostFits'
  BY <1>1, HostUnchanged DEF OperatorDies, HostFits
<1>4. Turns(o) /\ OperatorFits(o)'
  BY <1>1, EndFields DEF OperatorDies
<1> QED BY <1>2, <1>3, <1>4, TurnKeeps

------------------------------------------------------------------------------
\* The runtimes' own steps bring no process to life and change what none of them is.
LEMMA RuntimeKeeps ==
  ASSUME RuntimeInv, HostFits', Pids' = Pids, acts' = acts, configFile' = configFile,
         proven \subseteq proven',
         \A p \in Pids : /\ procs'[p].sha = procs[p].sha /\ procs'[p].cfg = procs[p].cfg
                         /\ Alive(p)' => Alive(p)
                         /\ procs'[p].st = "starting" => procs[p].st = "starting"
  PROVE  RuntimeInv'
<1>1. RuntimeTypes' /\ Solo'
  BY DEF RuntimeInv, RuntimeTypes, HostFits, Solo, Over
<1>2. ASSUME NEW o \in Operators PROVE OperatorFits(o)'
  <2>1. OperatorFits(o) /\ acts'[o] = acts[o]
    BY DEF RuntimeInv
  <2>2. NoneAlive => NoneAlive'
    BY DEF NoneAlive
  <2>3. acts[o].target # 0 => acts[o].target \in Pids
    BY <2>1 DEF OperatorFits
  <2> QED BY <2>1, <2>2, <2>3 DEF OperatorFits, Installer, Kind
<1> QED BY <1>1, <1>2 DEF RuntimeInv, HostFits

\* A runtime binds the port, becomes ready, or dies.
LEMMA RuntimeStepKeeps ==
  ASSUME RuntimeInv, NEW p \in Pids, RuntimeBinds(p) \/ RuntimeReady(p) \/ RuntimeDies(p)
  PROVE  RuntimeInv'
<1>1. HostFits
  BY DEF RuntimeInv, HostFits, RuntimeTypes
<1>2. CASE RuntimeDies(p)
  <2>1. /\ HostFits' /\ Pids' = Pids
        /\ \A q \in Pids : /\ procs'[q].sha = procs[q].sha /\ procs'[q].cfg = procs[q].cfg
                           /\ Alive(q)' <=> Alive(q) /\ q # p
    BY <1>1, <1>2, KillKeeps DEF RuntimeDies, HostFits
  <2>2. \A q \in Pids : procs'[q].st = "starting" => procs[q].st = "starting"
    BY <1>2, <2>1 DEF RuntimeDies, Killed, Alive
  <2> QED BY <1>2, <2>1, <2>2, RuntimeKeeps DEF RuntimeDies
<1>3. PICK n \in Nat : procs \in [1..n -> Process]
  BY <1>1 DEF HostFits
<1>4. Pids = 1..n
  BY <1>3 DEF Pids
<1>5. PICK g \in Process : g = procs[p]
  BY <1>3, <1>4
<1>6. \A st \in {"listening", "ready", "dead"} :
        /\ [g EXCEPT !.st = st] \in Process /\ [g EXCEPT !.st = st].st = st
        /\ [g EXCEPT !.st = st].sha = g.sha /\ [g EXCEPT !.st = st].cfg = g.cfg
  BY DEF Process
<1>7. CASE RuntimeBinds(p)
  <2>1. PICK st \in {"listening", "dead"} :
          /\ st = IF port = 0 THEN "listening" ELSE "dead"
          /\ procs' = [procs EXCEPT ![p] = [g EXCEPT !.st = st]]
    BY <1>5, <1>7 DEF RuntimeBinds
  <2>2. procs' \in [1..n -> Process] /\ Pids' = Pids
    BY <1>3, <1>4, <1>6, <2>1 DEF Pids
  <2>3. /\ procs'[p].sha = procs[p].sha /\ procs'[p].cfg = procs[p].cfg /\ procs'[p].st = st
        /\ \A q \in Pids : q # p => procs'[q] = procs[q]
    BY <1>3, <1>4, <1>5, <1>6, <2>1
  <2>4. Alive(p) /\ procs[p].st = "starting"
    BY <1>7 DEF RuntimeBinds, Alive
  <2>5. port' = (IF port = 0 THEN p ELSE port) /\ p \in Nat /\ p # 0
    BY <1>4, <1>7 DEF RuntimeBinds
  <2>6. \A q \in Pids : /\ procs'[q].sha = procs[q].sha /\ procs'[q].cfg = procs[q].cfg
                        /\ Alive(q)' => Alive(q)
                        /\ procs'[q].st = "starting" => procs[q].st = "starting"
    BY <2>3, <2>4 DEF Alive
  <2>7. OneAlive'
    BY <1>1, <2>2, <2>6 DEF HostFits, OneAlive
  <2>8. PortFits' /\ port' \in Nat
    <3>1. ASSUME NEW q \in Pids PROVE q = port' <=> procs'[q].st \in {"listening", "ready"}
      <4>1. q = port <=> procs[q].st \in {"listening", "ready"}
        BY <1>1 DEF HostFits, PortFits
      <4>2. CASE q = p
        BY <2>1, <2>3, <2>4, <2>5, <4>1, <4>2
      <4>3. CASE q # p
        BY <1>4, <2>3, <2>5, <4>1, <4>3
      <4> QED BY <4>2, <4>3
    <3> QED BY <1>1, <2>2, <2>5, <3>1 DEF HostFits, PortFits
  <2>9. ReadyIsProven'
    <3>1. \A q \in Pids : procs'[q].st = "ready" => procs'[q] = procs[q]
      BY <2>1, <2>3
    <3> QED BY <1>1, <1>7, <2>2, <3>1 DEF HostFits, ReadyIsProven, ProfileFingerprint, RuntimeBinds
  <2>10. RecordIsProven'
    BY <1>1, <1>7 DEF HostFits, RecordIsProven, RuntimeBinds
  <2>11. HostFits'
    BY <1>1, <1>7, <2>2, <2>7, <2>8, <2>9, <2>10 DEF HostFits, RuntimeBinds
  <2> QED BY <1>7, <2>2, <2>6, <2>11, RuntimeKeeps DEF RuntimeBinds
<1>8. CASE RuntimeReady(p)
  <2>1. procs' = [procs EXCEPT ![p] = [g EXCEPT !.st = "ready"]]
    BY <1>5, <1>8 DEF RuntimeReady
  <2>2. procs' \in [1..n -> Process] /\ Pids' = Pids
    BY <1>3, <1>4, <1>6, <2>1 DEF Pids
  <2>3. /\ procs'[p].sha = procs[p].sha /\ procs'[p].cfg = procs[p].cfg /\ procs'[p].st = "ready"
        /\ \A q \in Pids : q # p => procs'[q] = procs[q]
    BY <1>3, <1>4, <1>5, <1>6, <2>1
  <2>4. procs[p].st = "listening" /\ Alive(p)
    BY <1>8 DEF RuntimeReady, Alive
  <2>5. \A q \in Pids : /\ procs'[q].sha = procs[q].sha /\ procs'[q].cfg = procs[q].cfg
                        /\ Alive(q)' => Alive(q)
                        /\ procs'[q].st = "starting" => procs[q].st = "starting"
    BY <2>3, <2>4 DEF Alive
  <2>6. OneAlive' /\ PortFits'
    <3>1. OneAlive'
      BY <1>1, <2>2, <2>5 DEF HostFits, OneAlive
    <3>2. \A q \in Pids : procs'[q].st \in {"listening", "ready"}
                            <=> procs[q].st \in {"listening", "ready"}
      BY <2>3, <2>4
    <3>3. port' = port
      BY <1>8 DEF RuntimeReady
    <3> QED BY <1>1, <2>2, <3>1, <3>2, <3>3 DEF HostFits, PortFits
  <2>7. ReadyIsProven'
    <3>1. proven' = proven \cup {<<procs[p].sha, ProfileFingerprint(procs[p].cfg)>>}
      BY <1>8 DEF RuntimeReady
    <3>2. ASSUME NEW q \in Pids, procs'[q].st = "ready"
          PROVE  <<procs'[q].sha, ProfileFingerprint(procs'[q].cfg)>> \in proven'
      BY <1>1, <2>3, <3>1, <3>2 DEF HostFits, ReadyIsProven
    <3> QED BY <2>2, <3>2 DEF ReadyIsProven, ProfileFingerprint
  <2>8. RecordIsProven'
    BY <1>1, <1>8 DEF HostFits, RecordIsProven, RuntimeReady
  <2>9. HostFits'
    BY <1>1, <1>8, <2>2, <2>6, <2>7, <2>8 DEF HostFits, RuntimeReady
  <2> QED BY <1>8, <2>2, <2>5, <2>9, RuntimeKeeps DEF RuntimeReady
<1> QED BY <1>2, <1>7, <1>8

------------------------------------------------------------------------------
\* The first runtime serves under the original config.
LEMMA RuntimeInitially == RuntimeInit => RuntimeInv
<1> SUFFICES ASSUME RuntimeInit PROVE RuntimeInv
  OBVIOUS
<1>1. PICK g \in Process : g = [sha |-> FirstRevision, cfg |-> Original, st |-> "ready"]
  BY RuntimeAssumption DEF Process, Configs, Original
<1>2. /\ procs \in [1..1 -> Process] /\ Pids = {1} /\ procs[1].st = "ready" /\ port = 1
      /\ procs[1].sha = FirstRevision /\ procs[1].cfg = Original
  <2>1. procs = [p \in {1} |-> g] /\ 1..1 = {1}
    BY <1>1 DEF RuntimeInit
  <2> QED BY <1>1, <2>1 DEF Pids, RuntimeInit
<1>3. ProfileFingerprint(Original) = Original
  BY DEF ProfileFingerprint, Original
<1>4. PICK r \in Record : r = [sha |-> FirstRevision, cfg |-> Original]
  BY RuntimeAssumption DEF Record, Configs, Original
<1>5. /\ active \in Record
      /\ active.sha # NoRevision => active.sha = FirstRevision /\ active.cfg = Original
  <2>1. active \in {NoRecord, r} /\ r.sha = FirstRevision /\ r.cfg = Original
    BY <1>4 DEF RuntimeInit
  <2>2. NoRecord.sha = NoRevision
    BY DEF NoRecord
  <2> QED BY <2>1, <2>2, RecordTyped
<1>6. HostFits
  <2>1. OneAlive /\ PortFits
    BY <1>2 DEF OneAlive, PortFits
  <2>2. ReadyIsProven /\ RecordIsProven
    BY <1>2, <1>3, <1>5 DEF ReadyIsProven, RecordIsProven, RuntimeInit
  <2> QED BY <1>2, <1>5, <2>1, <2>2 DEF HostFits, RuntimeInit, Configs, Original
<1>7. Resting \in Act
  BY RecordTyped DEF Resting, Act, Places, Configs, Original
<1>8. acts \in [Operators -> Act]
  BY <1>7 DEF RuntimeInit
<1>9. \A o \in Operators : acts[o].pc = "idle" /\ acts[o].target = 0 /\ acts[o].phase = "target"
  BY DEF RuntimeInit, Resting
<1>10. Solo /\ \A o \in Operators : OperatorFits(o)
  BY <1>9, OverFits DEF Solo, Over
<1> QED BY <1>6, <1>8, <1>10 DEF RuntimeInv, RuntimeTypes, HostFits

\* Every step keeps the invariant.
LEMMA RuntimeNextKeeps ==
  ASSUME MaxActive = 1, ~SlowStarts, RuntimeInv, [RuntimeNext]_runtimeVars
  PROVE  RuntimeInv'
<1>1. CASE UNCHANGED runtimeVars
  <2>1. HostFits /\ procs' = procs /\ port' = port /\ configFile' = configFile /\ active' = active
        /\ proven' = proven /\ acts' = acts
    BY <1>1 DEF RuntimeInv, HostFits, RuntimeTypes, runtimeVars
  <2>2. HostFits' /\ Pids' = Pids /\ \A p \in Pids : Alive(p)' <=> Alive(p)
    BY <2>1, HostUnchanged DEF HostFits
  <2> QED BY <2>1, <2>2, RuntimeKeeps
<1>2. ASSUME NEW p \in Pids, RuntimeBinds(p) \/ RuntimeReady(p) \/ RuntimeDies(p)
      PROVE  RuntimeInv'
  BY <1>2, RuntimeStepKeeps
<1>3. ASSUME NEW o \in Operators, NEW sha \in Revisions,
             \/ Activate(o, sha)
             \/ \E kind \in Tasks, given \in BOOLEAN : FirstBootstrap(o, sha, kind, given)
             \/ \E cfg \in ScopeConfigs(configFile) : InstallScope(o, sha, cfg)
             \/ InstallRoot(o, sha) \/ \E covered \in BOOLEAN : InstallSmoke(o, sha, covered)
      PROVE  RuntimeInv'
  <2>1. ScopeConfigs(configFile) \subseteq Configs /\ RootConfig(configFile) \in Configs
        /\ \A covered \in BOOLEAN : SmokeConfig(configFile, covered) \in Configs
    BY ConfigsTyped DEF RuntimeInv, RuntimeTypes
  <2>2. CASE \E cfg \in ScopeConfigs(configFile) : InstallScope(o, sha, cfg)
    <3>1. PICK cfg \in Configs : ReadConfig(o, sha, "scope", cfg)
      BY <2>1, <2>2 DEF InstallScope
    <3> QED BY <3>1, ReadConfigKeeps DEF OperatorKinds
  <2>3. CASE InstallRoot(o, sha)
    BY <2>1, <2>3, ReadConfigKeeps DEF InstallRoot, OperatorKinds
  <2>4. CASE \E covered \in BOOLEAN : InstallSmoke(o, sha, covered)
    BY <2>1, <2>4, ReadConfigKeeps DEF InstallSmoke, OperatorKinds
  <2> QED BY <1>3, <2>2, <2>3, <2>4, ActivateKeeps, FirstBootstrapKeeps
<1>4. ASSUME NEW o \in Operators,
             \/ \E given \in Revisions \cup {NoRevision} : Recover(o, given)
             \/ WriteConfig(o) \/ ActProbe(o) \/ ActPrecheck(o) \/ ActSelect(o) \/ ActStop(o)
             \/ ActStart(o) \/ ActAwaitReady(o) \/ ActWrite(o) \/ ActError(o) \/ BackStart(o)
             \/ BackReady(o) \/ RecoverProbe(o) \/ RecoverStart(o) \/ RecoverReady(o)
             \/ RecoverFinal(o) \/ RecoverError(o) \/ OperatorDies(o)
      PROVE  RuntimeInv'
  BY <1>4, RecoverKeeps, WriteConfigKeeps, ActProbeKeeps, ActPrecheckKeeps, ActSelectKeeps,
     ActStopKeeps, ActStartKeeps, ActAwaitReadyKeeps, ActWriteKeeps, ActErrorKeeps, BackStartKeeps,
     BackReadyKeeps, RecoverProbeKeeps, RecoverStartKeeps, RecoverReadyKeeps, RecoverFinalKeeps,
     RecoverErrorKeeps, OperatorDiesKeeps
<1> QED BY <1>1, <1>2, <1>3, <1>4 DEF RuntimeNext

(* With one operator at work at a time (MaxActive = 1) and no runtime still   *)
(* starting when the next one begins (~SlowStarts), RuntimeInv always holds,  *)
(* wherever operators and runtimes die (stable-runtime-activator.js activate, *)
(* stable-runtime-recover.mjs recover).                                       *)
THEOREM RuntimeInvariant ==
  ASSUME MaxActive = 1, ~SlowStarts
  PROVE  RuntimeSpec => []RuntimeInv
<1>1. RuntimeInit => RuntimeInv
  BY RuntimeInitially
<1>2. RuntimeInv /\ [RuntimeNext]_runtimeVars => RuntimeInv'
  BY RuntimeNextKeeps
<1> QED BY <1>1, <1>2, PTL DEF RuntimeSpec

(* The record that recovery trusts after a reboot names only a revision that  *)
(* was ready under the config whose fingerprint it holds                      *)
(* (stable-runtime-activator.js activate, stable-runtime-recover.mjs recover).*)
THEOREM RecordProven ==
  ASSUME MaxActive = 1, ~SlowStarts
  PROVE  RuntimeSpec => []RecordIsProven
<1>1. RuntimeInv => RecordIsProven
  BY DEF RuntimeInv
<1> QED BY <1>1, RuntimeInvariant, PTL

(* An activation's rollback starts the revision that the operator stopped and *)
(* no other (stable-runtime-rollback-guard.js _validateRollbackState).        *)
THEOREM GuardedRollback ==
  ASSUME MaxActive = 1, ~SlowStarts
  PROVE  RuntimeSpec => []GuardedRollbackIsProven
<1>1. RuntimeInv => GuardedRollbackIsProven
  BY DEF RuntimeInv, OperatorFits, GuardedRollbackIsProven
<1> QED BY <1>1, RuntimeInvariant, PTL

------------------------------------------------------------------------------
(* What the runtimes have loaded, as long as no operator was ended.           *)

NoCrash == \A o \in Operators : acts[o].pc # "crashed"
Settled ==
  /\ active.sha = NoRevision \/ active.cfg = ProfileFingerprint(configFile)
  /\ \A p \in Pids : Alive(p) => ProfileFingerprint(procs[p].cfg) = ProfileFingerprint(configFile)
\* The profile on disk is an installer's and not yet the one that served.
Away(o) == acts[o].changed /\ acts[o].fp # ProfileFingerprint(acts[o].saved)
\* An installer whose profile is on disk still has what served under the saved one or no way
\* back but its own restoration.
ConfigFits(o) ==
  LET a == acts[o] IN
  /\ a.pc = "bind" => Installer(o) /\ a.saved = configFile
  /\ a.changed => a.pc \in Begun /\ Installer(o) /\ a.phase = "target"
  /\ Away(o) =>
       /\ a.pc \notin {"back_start", "back_ready"}
       /\ active.sha = NoRevision \/ active.cfg = ProfileFingerprint(a.saved)
       /\ a.pc \in {"probe", "precheck", "select", "stop"} =>
            \A p \in Pids : Alive(p) => ProfileFingerprint(procs[p].cfg) = ProfileFingerprint(a.saved)
       /\ a.pc \in {"stop", "await_free", "await_ready", "error"} => a.back.sha = NoRevision

ServedInv ==
  NoCrash =>
    /\ \A o \in Operators : ConfigFits(o)
    /\ (\A o \in Operators : ~Away(o)) => Settled

\* A process that lives after a step has read the file as it is, or lived before it.
Kept == \A p \in Pids' : Alive(p)' => \/ procs'[p].cfg = configFile
                                      \/ p \in Pids /\ Alive(p) /\ procs'[p].cfg = procs[p].cfg
\* What an activation leaves alone of its operator.
Frame(o) ==
  /\ acts'[o].changed = acts[o].changed /\ acts'[o].saved = acts[o].saved
  /\ acts'[o].fp = acts[o].fp /\ acts'[o].phase = acts[o].phase /\ acts'[o].kind = acts[o].kind

\* With no operator ended, the others have no profile on disk.
LEMMA ServedParts ==
  ASSUME ServedInv, NEW o \in Operators, Only(o), acts[o].pc # "crashed",
         \A x \in Operators : x # o => acts'[x] = acts[x], NoCrash'
  PROVE  NoCrash /\ ConfigFits(o) /\ (~Away(o) => Settled)
<1>1. NoCrash
  BY DEF NoCrash
<1>2. \A x \in Operators : ConfigFits(x)
  BY <1>1 DEF ServedInv
<1>3. \A x \in Operators : x # o => ~Away(x)
  BY <1>2 DEF ConfigFits, Away, Only, Over, Begun
<1> QED BY <1>1, <1>2, <1>3 DEF ServedInv

\* A step of one operator keeps the invariant when its own part is kept.
LEMMA ServedTurn ==
  ASSUME ServedInv, NoCrash, NEW o \in Operators, Only(o),
         \A x \in Operators : x # o => acts'[x] = acts[x],
         ConfigFits(o)', ~Away(o)' => Settled'
  PROVE  ServedInv'
<1>1. ASSUME NEW x \in Operators, x # o PROVE ConfigFits(x)' /\ ~Away(x)'
  <2>1. acts'[x] = acts[x] /\ acts[x].pc \in {"idle", "pass", "fail", "crashed"}
    BY <1>1 DEF Only, Over
  <2>2. ~acts[x].changed
    BY <2>1 DEF ServedInv, ConfigFits, Begun
  <2>3. ~Away(x)'
    BY <2>1, <2>2 DEF Away
  <2> QED BY <2>1, <2>2, <2>3 DEF ConfigFits
<1>2. \A x \in Operators : ConfigFits(x)'
  BY <1>1
<1>3. (\A x \in Operators : ~Away(x)') => Settled'
  OBVIOUS
<1> QED BY <1>2, <1>3 DEF ServedInv

\* A step after which no config is an installer's.
LEMMA QuietTurn ==
  ASSUME ServedInv, NoCrash, NEW o \in Operators, Only(o),
         \A x \in Operators : x # o => acts'[x] = acts[x],
         ~acts'[o].changed, acts'[o].pc # "bind", Settled'
  PROVE  ServedInv'
<1>1. ConfigFits(o)'
  BY DEF ConfigFits, Away
<1> QED BY <1>1, ServedTurn

\* What lives and what is recorded stay those of the file's profile.
LEMMA SettledKept ==
  ASSUME Settled, ProfileFingerprint(configFile') = ProfileFingerprint(configFile), Kept,
         active' = active \/ active'.cfg = ProfileFingerprint(configFile)
  PROVE  Settled'
<1> DEFINE F(cfg) == ProfileFingerprint(cfg)
<1>1. active'.sha = NoRevision \/ active'.cfg = F(configFile')
  BY DEF Settled
<1>2. \A p \in Pids' : Alive(p)' => F(procs'[p].cfg) = F(configFile')
  <2> SUFFICES ASSUME NEW p \in Pids', Alive(p)' PROVE F(procs'[p].cfg) = F(configFile')
    OBVIOUS
  <2>1. CASE procs'[p].cfg = configFile
    BY <2>1
  <2>2. CASE p \in Pids /\ Alive(p) /\ procs'[p].cfg = procs[p].cfg
    BY <2>2 DEF Settled
  <2> QED BY <2>1, <2>2 DEF Kept
<1> QED BY <1>1, <1>2 DEF Settled, ProfileFingerprint

\* A step of an activation that writes neither the config nor the record.
LEMMA ServedStep ==
  ASSUME ServedInv, NEW o \in Operators, Only(o), acts[o].pc # "crashed",
         \A x \in Operators : x # o => acts'[x] = acts[x], NoCrash',
         Frame(o), Kept, configFile' = configFile, active' = active,
         acts'[o].pc # "bind", acts[o].changed => acts'[o].pc \in Begun,
         Away(o) =>
           /\ acts'[o].pc \notin {"back_start", "back_ready"}
           /\ acts'[o].pc \in {"probe", "precheck", "select", "stop"} =>
                /\ acts[o].pc \in {"probe", "precheck", "select", "stop"}
                /\ procs' = procs
           /\ acts'[o].pc \in {"stop", "await_free", "await_ready", "error"} =>
                acts'[o].back.sha = NoRevision
  PROVE  ServedInv'
<1>1. NoCrash /\ ConfigFits(o) /\ (~Away(o) => Settled)
  BY ServedParts
<1>2. acts'[o].changed => acts'[o].pc \in Begun /\ Installer(o)' /\ acts'[o].phase = "target"
  BY <1>1 DEF ConfigFits, Frame, Installer, Kind
<1>3. Away(o)' <=> Away(o)
  BY DEF Away, Frame, ProfileFingerprint
<1>4. CASE Away(o)
  <2>1. /\ active.sha = NoRevision \/ active.cfg = ProfileFingerprint(acts[o].saved)
        /\ acts[o].pc \in {"probe", "precheck", "select", "stop"} =>
             \A p \in Pids : Alive(p) =>
               ProfileFingerprint(procs[p].cfg) = ProfileFingerprint(acts[o].saved)
    BY <1>1, <1>4 DEF ConfigFits
  <2>2. acts'[o].pc \in {"probe", "precheck", "select", "stop"} =>
          \A p \in Pids' : Alive(p)' =>
            ProfileFingerprint(procs'[p].cfg) = ProfileFingerprint(acts'[o].saved)
    BY <1>4, <2>1 DEF Frame, Pids, Alive
  <2>3. active'.sha = NoRevision \/ active'.cfg = ProfileFingerprint(acts'[o].saved)
    BY <2>1 DEF Frame
  <2>4. ConfigFits(o)'
    BY <1>2, <1>4, <2>2, <2>3 DEF ConfigFits, ProfileFingerprint
  <2> QED BY <1>1, <1>3, <1>4, <2>4, ServedTurn
<1>5. CASE ~Away(o)
  <2>1. Settled'
    BY <1>1, <1>5, SettledKept
  <2>2. ConfigFits(o)'
    BY <1>2, <1>3, <1>5 DEF ConfigFits
  <2> QED BY <1>1, <2>1, <2>2, ServedTurn
<1> QED BY <1>4, <1>5

\* After a failure the saved profile is back, and what lives has read it.
LEMMA ServedGiveUp ==
  ASSUME RuntimeInv, RuntimeInv', ServedInv, NEW o \in Operators, Only(o), NoCrash',
         acts[o].pc \in Begun, GiveUp(o),
         Away(o) => active' = active,
         active' = active \/ active'.cfg = ProfileFingerprint(configFile),
         \/ procs' = procs /\ (Away(o) => acts[o].pc \in {"probe", "precheck", "select"})
         \/ \A p \in Pids' : ~Alive(p)'
  PROVE  ServedInv'
<1> DEFINE F(cfg) == ProfileFingerprint(cfg)
<1>1. acts \in [Operators -> Act] /\ configFile \in Configs /\ OperatorFits(o)
  BY Parts DEF HostFits
<1>2. Turns(o) /\ acts[o].pc # "crashed"
  BY <1>1, GiveUpFields DEF Begun
<1>3. NoCrash /\ ConfigFits(o) /\ (~Away(o) => Settled)
  BY <1>2, ServedParts DEF Turns
<1>4. ~acts'[o].changed /\ acts'[o].pc # "bind"
  <2>1. CASE End(o, "fail")
    BY <1>1, <2>1 DEF End, Resting
  <2>2. CASE \E cfg : acts' = [acts EXCEPT ![o] = Restoring(o, cfg)]
    BY <1>1, <2>2 DEF Restoring, Resting
  <2> QED BY <2>1, <2>2 DEF GiveUp
<1>5. configFile' = IF acts[o].changed THEN acts[o].saved ELSE configFile
  BY <1>3 DEF GiveUp, ConfigFits
<1>6. CASE Away(o)
  <2>1. configFile' = acts[o].saved
    BY <1>5, <1>6 DEF Away
  <2>2. active'.sha = NoRevision \/ active'.cfg = F(configFile')
    BY <1>3, <1>6, <2>1 DEF ConfigFits
  <2>3. \A p \in Pids' : Alive(p)' => F(procs'[p].cfg) = F(configFile')
    BY <1>3, <1>6, <2>1 DEF ConfigFits, Pids, Alive
  <2>4. Settled'
    BY <2>2, <2>3 DEF Settled, ProfileFingerprint
  <2> QED BY <1>2, <1>3, <1>4, <2>4, QuietTurn DEF Turns
<1>7. CASE ~Away(o)
  <2>1. F(configFile') = F(configFile)
    BY <1>1, <1>5, <1>7 DEF Away, OperatorFits
  <2>2. Kept
    BY DEF Kept, Pids, Alive
  <2>3. Settled'
    BY <1>3, <1>7, <2>1, <2>2, SettledKept
  <2> QED BY <1>2, <1>3, <1>4, <2>3, QuietTurn DEF Turns
<1> QED BY <1>6, <1>7

\* An operator that has written nothing ends.
LEMMA EndServes ==
  ASSUME acts \in [Operators -> Act], NEW o \in Operators, NEW outcome \in {"pass", "fail"},
         End(o, outcome), ServedInv, Only(o), acts[o].pc # "crashed", NoCrash', Kept,
         ~acts[o].changed, configFile' = configFile,
         active' = active \/ active'.cfg = ProfileFingerprint(configFile)
  PROVE  ServedInv'
<1>1. /\ \A x \in Operators : x # o => acts'[x] = acts[x]
      /\ ~acts'[o].changed /\ acts'[o].pc # "bind"
  BY DEF End, Resting
<1>2. NoCrash /\ Settled
  BY <1>1, ServedParts DEF Away
<1>3. Settled'
  BY <1>2, SettledKept
<1> QED BY <1>1, <1>2, <1>3, QuietTurn

\* Step leaves the config fields alone.
LEMMA StepFrame ==
  ASSUME acts \in [Operators -> Act], NEW o \in Operators, NEW pc, Step(o, pc)
  PROVE  /\ Frame(o) /\ acts'[o].pc = pc /\ acts'[o].back = acts[o].back
         /\ \A x \in Operators : x # o => acts'[x] = acts[x]
<1>1. PICK g \in Act : g = acts[o]
  OBVIOUS
<1>2. acts' = [acts EXCEPT ![o] = [g EXCEPT !.pc = pc]]
  BY <1>1 DEF Step
<1>3. acts'[o] = [g EXCEPT !.pc = pc]
  BY <1>2
<1>4. /\ [g EXCEPT !.pc = pc].pc = pc /\ [g EXCEPT !.pc = pc].changed = g.changed
      /\ [g EXCEPT !.pc = pc].saved = g.saved /\ [g EXCEPT !.pc = pc].fp = g.fp
      /\ [g EXCEPT !.pc = pc].phase = g.phase /\ [g EXCEPT !.pc = pc].kind = g.kind
      /\ [g EXCEPT !.pc = pc].back = g.back
  BY DEF Act
<1> QED BY <1>1, <1>2, <1>3, <1>4 DEF Frame

\* No process changes.
LEMMA KeptSame ==
  ASSUME procs' = procs
  PROVE  Kept
  BY DEF Kept, Pids, Alive

\* A stopped process leaves the others.
LEMMA KeptKilled ==
  ASSUME HostFits, NEW t \in Pids, procs' = Killed(t)
  PROVE  Kept
<1>1. PICK n \in Nat : procs \in [1..n -> Process]
  BY DEF HostFits
<1>2. PICK g \in Process : g = procs[t]
  BY <1>1 DEF Pids
<1>3. procs' = [procs EXCEPT ![t] = [g EXCEPT !.st = "dead"]]
  BY <1>2 DEF Killed
<1>4. [g EXCEPT !.st = "dead"].st = "dead"
  BY DEF Process
<1>5. Pids' = Pids /\ procs'[t].st = "dead" /\ \A p \in Pids : p # t => procs'[p] = procs[p]
  BY <1>1, <1>3, <1>4 DEF Pids
<1> QED BY <1>5 DEF Kept, Alive

\* A new process has read the file.
LEMMA KeptSpawned ==
  ASSUME HostFits, NEW sha, SpawnRuntime(sha)
  PROVE  Kept
<1>1. PICK n \in Nat : procs \in [1..n -> Process]
  BY DEF HostFits
<1>2. Pids = 1..n /\ Cardinality(Pids) = n
  BY <1>1, PidsOf
<1>3. procs' = [q \in Pids \cup {n + 1} |->
                  IF q = n + 1 THEN [sha |-> sha, cfg |-> configFile, st |-> "starting"]
                  ELSE procs[q]]
  BY <1>2 DEF SpawnRuntime
<1>4. Pids' = Pids \cup {n + 1} /\ procs'[n + 1].cfg = configFile
      /\ \A p \in Pids : procs'[p] = procs[p]
  BY <1>2, <1>3 DEF Pids
<1> QED BY <1>4 DEF Kept, Alive

------------------------------------------------------------------------------
\* An operator begins.
LEMMA BeginServes ==
  ASSUME RuntimeInv, RuntimeInv', ServedInv, NoCrash', MaxActive = 1, NEW o \in Operators,
         MayBegin(o), acts[o].pc \in {"idle", "booted"}, procs' = procs, configFile' = configFile,
         active' = active, acts'[o].pc # "bind", acts'[o].changed = acts[o].changed,
         \A x \in Operators : x # o => acts'[x] = acts[x]
  PROVE  ServedInv'
<1>1. Only(o)
  BY OthersOver DEF RuntimeInv
<1>2. NoCrash /\ ConfigFits(o) /\ (~Away(o) => Settled)
  BY <1>1, ServedParts
<1>3. ~acts[o].changed
  BY <1>2 DEF ConfigFits, Begun
<1>4. Settled'
  BY <1>2, <1>3, KeptSame, SettledKept DEF Away
<1> QED BY <1>1, <1>2, <1>3, <1>4, QuietTurn

\* activate begins.
LEMMA ActivateServes ==
  ASSUME RuntimeInv, RuntimeInv', ServedInv, NoCrash', MaxActive = 1, NEW o \in Operators,
         NEW sha \in Revisions, Activate(o, sha)
  PROVE  ServedInv'
<1>1. acts \in [Operators -> Act]
  BY Parts
<1>2. PICK g \in Act : g = acts[o]
  BY <1>1
<1>3. PICK fp : fp = ProfileFingerprint(configFile)
  OBVIOUS
<1>4. PICK r : r = [g EXCEPT !.pc = "probe", !.kind = "activate", !.sha = sha, !.fp = fp]
  OBVIOUS
<1>5. r.pc = "probe" /\ r.changed = g.changed
  BY <1>4 DEF Act
<1>6. acts' = [acts EXCEPT ![o] = r]
  BY <1>2, <1>3, <1>4 DEF Activate
<1>7. acts'[o] = r /\ \A x \in Operators : x # o => acts'[x] = acts[x]
  BY <1>1, <1>6
<1> QED BY <1>2, <1>5, <1>7, BeginServes DEF Activate, Asked, At

\* The bootstrap runs.
LEMMA FirstBootstrapServes ==
  ASSUME RuntimeInv, RuntimeInv', ServedInv, NoCrash', MaxActive = 1, NEW o \in Operators,
         NEW sha \in Revisions, NEW kind \in Tasks, NEW given \in BOOLEAN,
         FirstBootstrap(o, sha, kind, given)
  PROVE  ServedInv'
<1>1. acts \in [Operators -> Act]
  BY Parts
<1>2. PICK g \in Act : g = acts[o]
  BY <1>1
<1>3. PICK r : r = [g EXCEPT !.pc = "booted", !.sha = sha, !.kind = kind]
  OBVIOUS
<1>4. r.pc = "booted" /\ r.changed = g.changed
  BY <1>3 DEF Act
<1>5. acts' = [acts EXCEPT ![o] = r]
  BY <1>2, <1>3 DEF FirstBootstrap
<1>6. acts'[o] = r /\ \A x \in Operators : x # o => acts'[x] = acts[x]
  BY <1>1, <1>5
<1> QED BY <1>2, <1>4, <1>6, BeginServes DEF FirstBootstrap, At

\* recover begins.
LEMMA RecoverServes ==
  ASSUME RuntimeInv, RuntimeInv', ServedInv, NoCrash', MaxActive = 1, NEW o \in Operators,
         NEW given \in Revisions \cup {NoRevision}, Recover(o, given)
  PROVE  ServedInv'
<1>1. acts \in [Operators -> Act]
  BY Parts
<1>2. PICK g \in Act : g = acts[o]
  BY <1>1
<1>3. PICK fp : fp = ProfileFingerprint(configFile)
  OBVIOUS
<1>4. PICK sha : sha = SelectTarget(given, fp)
  OBVIOUS
<1>5. PICK r : r = [g EXCEPT !.pc = "r_probe", !.kind = "recover", !.sha = sha, !.fp = fp]
  OBVIOUS
<1>6. r.pc = "r_probe" /\ r.changed = g.changed
  BY <1>5 DEF Act
<1>7. acts' = [acts EXCEPT ![o] = r]
  BY <1>2, <1>3, <1>4, <1>5 DEF Recover
<1>8. acts'[o] = r /\ \A x \in Operators : x # o => acts'[x] = acts[x]
  BY <1>1, <1>7
<1> QED BY <1>2, <1>6, <1>8, BeginServes DEF Recover, At

\* An installer has read the config that serves.
LEMMA ReadConfigServes ==
  ASSUME RuntimeInv, RuntimeInv', ServedInv, NoCrash', MaxActive = 1, NEW o \in Operators,
         NEW sha \in Revisions, NEW kind \in {"scope", "root", "smoke"},
         NEW cfg, ReadConfig(o, sha, kind, cfg)
  PROVE  ServedInv'
<1>1. HostFits /\ acts \in [Operators -> Act] /\ Solo
  BY Parts
<1>2. Only(o) /\ acts[o].pc # "crashed"
  BY <1>1, OthersOver DEF ReadConfig, Asked, At
<1>3. PICK g \in Act : g = acts[o]
  BY <1>1
<1>4. PICK r : r = [g EXCEPT !.pc = "bind", !.kind = kind, !.sha = sha, !.saved = configFile,
                             !.next = cfg]
  OBVIOUS
<1>5. /\ r.pc = "bind" /\ r.saved = configFile /\ r.next = cfg /\ r.changed = g.changed
      /\ r.kind = kind
  BY <1>4 DEF Act
<1>6. acts' = [acts EXCEPT ![o] = r]
  BY <1>3, <1>4 DEF ReadConfig
<1>7. acts'[o] = r /\ \A x \in Operators : x # o => acts'[x] = acts[x]
  BY <1>1, <1>6
<1>8. NoCrash /\ ConfigFits(o) /\ (~Away(o) => Settled)
  BY <1>2, <1>7, ServedParts
<1>9. ~acts[o].changed
  BY <1>8 DEF ConfigFits, ReadConfig, Asked, At, Begun
<1>10. configFile' = configFile /\ procs' = procs /\ active' = active
  BY DEF ReadConfig
<1>11. Settled'
  BY <1>8, <1>9, <1>10, KeptSame, SettledKept DEF Away
<1>12. ConfigFits(o)'
  BY <1>3, <1>5, <1>7, <1>9, <1>10 DEF ConfigFits, Away, Installer, Kind
<1> QED BY <1>2, <1>7, <1>8, <1>11, <1>12, ServedTurn

\* A recovery: what is settled stays.
LEMMA PlainServes ==
  ASSUME ServedInv, NoCrash', NEW o \in Operators, Only(o),
         acts[o].pc \in Recovering,
         \A x \in Operators : x # o => acts'[x] = acts[x],
         Kept, configFile' = configFile, acts'[o].pc # "bind",
         acts'[o].changed = acts[o].changed \/ ~acts'[o].changed,
         active' = active \/ active'.cfg = ProfileFingerprint(configFile)
  PROVE  ServedInv'
<1>1. acts[o].pc # "crashed"
  BY DEF Recovering
<1>2. NoCrash /\ ConfigFits(o) /\ (~Away(o) => Settled)
  BY <1>1, ServedParts
<1>3. ~acts[o].changed
  BY <1>2 DEF ConfigFits, Begun, Recovering
<1>4. Settled'
  BY <1>2, <1>3, SettledKept DEF Away
<1> QED BY <1>2, <1>3, <1>4, QuietTurn

\* The profile is on disk; what serves has read the saved one.
LEMMA WriteConfigServes ==
  ASSUME RuntimeInv, RuntimeInv', ServedInv, NoCrash', MaxActive = 1, NEW o \in Operators, WriteConfig(o)
  PROVE  ServedInv'
<1>1. HostFits /\ acts \in [Operators -> Act] /\ OperatorFits(o) /\ Solo
  BY Parts
<1>2. acts[o].pc = "bind"
  BY DEF WriteConfig, At
<1>3. Only(o)
  BY <1>1, <1>2, OthersOver DEF Over
<1>4. PICK g \in Act : g = acts[o]
  BY <1>1
<1>5. CASE End(o, "pass") \/ End(o, "fail")
  <2>1. \A x \in Operators : x # o => acts'[x] = acts[x]
    BY <1>1, <1>5 DEF End
  <2>2. ~acts[o].changed
    BY <1>2, <1>3, <2>1, ServedParts DEF ConfigFits, Begun
  <2>3. configFile' = configFile /\ Kept /\ active' = active
    <3>1. acts'[o].pc # "probe"
      BY <1>1, <1>5 DEF End, Resting
    <3>2. UNCHANGED configFile
      <4>1. CASE UNCHANGED configFile
        BY <4>1
      <4>2. CASE acts' = [acts EXCEPT ![o].pc = "probe", ![o].fp = ProfileFingerprint(configFile'),
                            ![o].before = Serving, ![o].changed = acts[o].next # acts[o].saved]
        <5>1. PICK fp : fp = ProfileFingerprint(configFile')
          OBVIOUS
        <5>2. PICK b : b = Serving
          OBVIOUS
        <5>3. PICK ch \in BOOLEAN : ch = (g.next # g.saved)
          OBVIOUS
        <5>4. acts'[o] = [g EXCEPT !.pc = "probe", !.fp = fp, !.before = b, !.changed = ch]
          BY <1>1, <1>4, <4>2, <5>1, <5>2, <5>3, Zenon
        <5>5. acts'[o].pc = "probe"
          BY <5>4 DEF Act
        <5> QED BY <3>1, <5>5
      <4> QED BY <4>1, <4>2, Zenon DEF WriteConfig
    <3> QED BY <3>2, KeptSame DEF WriteConfig
  <2> QED BY <1>1, <1>2, <1>3, <1>5, <2>2, <2>3, EndServes
<1>6. CASE /\ configFile' = IF acts[o].next # acts[o].saved THEN acts[o].next ELSE configFile
           /\ acts' = [acts EXCEPT ![o].pc = "probe", ![o].fp = ProfileFingerprint(configFile'),
                         ![o].before = Serving, ![o].changed = acts[o].next # acts[o].saved]
  <2>1. PICK fp : fp = ProfileFingerprint(configFile')
    OBVIOUS
  <2>2. PICK b : b = Serving
    OBVIOUS
  <2>3. PICK ch \in BOOLEAN : ch = (g.next # g.saved)
    OBVIOUS
  <2>4. PICK h : h = [g EXCEPT !.pc = "probe", !.fp = fp, !.before = b, !.changed = ch]
    OBVIOUS
  <2>5. /\ h.pc = "probe" /\ h.fp = fp /\ h.changed = ch /\ h.saved = g.saved
        /\ h.kind = g.kind /\ h.phase = g.phase
    BY <2>4 DEF Act
  <2>6. acts' = [acts EXCEPT ![o] = h]
    BY <1>4, <1>6, <2>1, <2>2, <2>3, <2>4, Zenon
  <2>7. acts'[o] = h /\ \A x \in Operators : x # o => acts'[x] = acts[x]
    BY <1>1, <2>6
  <2>8. NoCrash /\ ConfigFits(o) /\ (~Away(o) => Settled)
    BY <1>2, <1>3, <2>7, ServedParts
  <2>9. Settled
    BY <1>2, <2>8 DEF ConfigFits, Away, Begun
  <2>10. g.saved = configFile /\ g.phase = "target" /\ g.kind \in {"scope", "root", "smoke"}
    BY <1>1, <1>2, <1>4, <2>8 DEF ConfigFits, OperatorFits, Begun, Installer, Kind
  <2>11. active' = active /\ procs' = procs /\ Pids' = Pids
    BY DEF WriteConfig, Pids
  <2>12. /\ acts'[o].pc = "probe" /\ acts'[o].phase = "target" /\ acts'[o].saved = configFile
         /\ acts'[o].fp = fp /\ Installer(o)'
    BY <2>5, <2>7, <2>10 DEF Installer, Kind
  <2>13. CASE Away(o)'
    <3>1. \A p \in Pids' : Alive(p)' =>
            ProfileFingerprint(procs'[p].cfg) = ProfileFingerprint(acts'[o].saved)
      BY <2>9, <2>11, <2>12 DEF Settled, Alive
    <3>2. active'.sha = NoRevision \/ active'.cfg = ProfileFingerprint(acts'[o].saved)
      BY <2>9, <2>11, <2>12 DEF Settled
    <3>3. ConfigFits(o)'
      BY <2>12, <3>1, <3>2 DEF ConfigFits, Begun, ProfileFingerprint
    <3> QED BY <1>3, <2>7, <2>8, <2>13, <3>3, ServedTurn
  <2>14. CASE ~Away(o)'
    <3>1. ProfileFingerprint(configFile') = ProfileFingerprint(configFile)
      <4>1. CASE g.next # g.saved
        <5>1. acts'[o].changed
          BY <2>3, <2>5, <2>7, <4>1
        <5>2. acts'[o].fp = ProfileFingerprint(acts'[o].saved)
          BY <2>14, <5>1 DEF Away, ProfileFingerprint
        <5> QED BY <2>1, <2>12, <5>2
      <4>2. CASE g.next = g.saved
        BY <1>4, <1>6, <4>2
      <4> QED BY <4>1, <4>2
    <3>2. Settled'
      BY <2>9, <2>11, <3>1, KeptSame, SettledKept
    <3>3. ConfigFits(o)'
      BY <2>12, <2>14 DEF ConfigFits, Begun
    <3> QED BY <1>3, <2>7, <2>8, <3>2, <3>3, ServedTurn
  <2> QED BY <2>13, <2>14
<1> QED BY <1>5, <1>6, Zenon DEF WriteConfig

\* An activation probes, with or without an installer's config.
LEMMA ActProbeServes ==
  ASSUME RuntimeInv, RuntimeInv', ServedInv, NoCrash', MaxActive = 1, NEW o \in Operators, ActProbe(o)
  PROVE  ServedInv'
<1>1. HostFits /\ acts \in [Operators -> Act] /\ OperatorFits(o) /\ Solo
  BY Parts
<1>2. acts[o].pc = "probe"
  BY DEF ActProbe, At
<1>3. Only(o)
  BY <1>1, <1>2, OthersOver DEF Over
<1>4. procs' = procs /\ active' = active /\ Kept
  BY KeptSame DEF ActProbe
<1>5. CASE GiveUp(o)
  BY <1>2, <1>3, <1>4, <1>5, ServedGiveUp DEF Begun
<1>6. CASE ~Forced(o) /\ End(o, "pass") /\ UNCHANGED configFile
  <2>1. \A x \in Operators : x # o => acts'[x] = acts[x]
    BY <1>6 DEF End
  <2>2. ~acts[o].changed
    BY <1>2, <1>3, <1>6, <2>1, ServedParts DEF ConfigFits, Forced
  <2> QED BY <1>1, <1>2, <1>3, <1>4, <1>6, <2>2, EndServes
<1>7. CASE Step(o, "precheck") /\ UNCHANGED configFile
  <2>1. /\ Frame(o) /\ acts'[o].pc = "precheck" /\ acts'[o].back = acts[o].back
        /\ \A x \in Operators : x # o => acts'[x] = acts[x]
    BY <1>1, <1>7, StepFrame
  <2> QED BY <1>2, <1>3, <1>4, <1>7, <2>1, ServedStep DEF Begun
<1> QED BY <1>5, <1>6, <1>7 DEF ActProbe

\* The precheck writes neither the config nor the record.
LEMMA ActPrecheckServes ==
  ASSUME RuntimeInv, RuntimeInv', ServedInv, NoCrash', MaxActive = 1, NEW o \in Operators, ActPrecheck(o)
  PROVE  ServedInv'
<1>1. HostFits /\ acts \in [Operators -> Act] /\ OperatorFits(o) /\ Solo
  BY Parts
<1>2. acts[o].pc = "precheck"
  BY DEF ActPrecheck, At
<1>3. Only(o)
  BY <1>1, <1>2, OthersOver DEF Over
<1>4. procs' = procs /\ active' = active /\ Kept
  BY KeptSame DEF ActPrecheck
<1>5. CASE GiveUp(o)
  BY <1>2, <1>3, <1>4, <1>5, ServedGiveUp DEF Begun
<1>6. CASE acts' = [acts EXCEPT ![o].pc = "select", ![o].seen = Serving] /\ UNCHANGED configFile
  <2>1. PICK g \in Act : g = acts[o]
    BY <1>1
  <2>2. PICK seen : seen = Serving
    OBVIOUS
  <2>3. PICK h : h = [g EXCEPT !.pc = "select", !.seen = seen]
    OBVIOUS
  <2>4. /\ h.pc = "select" /\ h.changed = g.changed /\ h.saved = g.saved /\ h.fp = g.fp
        /\ h.phase = g.phase /\ h.kind = g.kind
    BY <2>3 DEF Act
  <2>5. acts' = [acts EXCEPT ![o] = h]
    BY <1>6, <2>1, <2>2, <2>3
  <2>6. acts'[o] = h /\ \A x \in Operators : x # o => acts'[x] = acts[x]
    BY <1>1, <2>5
  <2>7. Frame(o)
    BY <2>1, <2>4, <2>6 DEF Frame
  <2>8. acts'[o].pc = "select"
    BY <2>4, <2>6
  <2> QED BY <1>2, <1>3, <1>4, <1>6, <2>6, <2>7, <2>8, ServedStep DEF Begun
<1> QED BY <1>5, <1>6 DEF ActPrecheck

\* Under an installer's profile the record is not valid: there is no candidate.
LEMMA ActSelectServes ==
  ASSUME RuntimeInv, RuntimeInv', ServedInv, NoCrash', MaxActive = 1, NEW o \in Operators, ActSelect(o)
  PROVE  ServedInv'
<1>1. HostFits /\ acts \in [Operators -> Act] /\ OperatorFits(o) /\ Solo
  BY Parts
<1>2. acts[o].pc = "select"
  BY DEF ActSelect, At
<1>3. Only(o)
  BY <1>1, <1>2, OthersOver DEF Over
<1>4. procs' = procs /\ active' = active /\ Kept
  BY KeptSame DEF ActSelect
<1>5. CASE GiveUp(o)
  BY <1>2, <1>3, <1>4, <1>5, ServedGiveUp DEF Begun
<1>6. CASE /\ acts' = [acts EXCEPT ![o].pc = "stop", ![o].pid = port,
                                  ![o].back = RollbackCandidate(o)]
           /\ UNCHANGED configFile
  <2>1. PICK g \in Act : g = acts[o]
    BY <1>1
  <2>2. PICK b : b = RollbackCandidate(o)
    OBVIOUS
  <2>3. PICK h : h = [g EXCEPT !.pc = "stop", !.pid = port, !.back = b]
    OBVIOUS
  <2>4. /\ h.pc = "stop" /\ h.changed = g.changed /\ h.saved = g.saved /\ h.fp = g.fp
        /\ h.phase = g.phase /\ h.kind = g.kind /\ h.back = b
    BY <2>3 DEF Act
  <2>5. acts' = [acts EXCEPT ![o] = h]
    BY <1>6, <2>1, <2>2, <2>3
  <2>6. acts'[o] = h /\ \A x \in Operators : x # o => acts'[x] = acts[x]
    BY <1>1, <2>5
  <2>7. Frame(o)
    BY <2>1, <2>4, <2>6 DEF Frame
  <2>8. acts'[o].pc = "stop" /\ acts'[o].back = RollbackCandidate(o)
    BY <2>2, <2>4, <2>6
  <2>9. Away(o) => RollbackCandidate(o).sha = NoRevision
    <3> SUFFICES ASSUME Away(o) PROVE RollbackCandidate(o).sha = NoRevision
      OBVIOUS
    <3>1. /\ Installer(o) /\ acts[o].fp # ProfileFingerprint(acts[o].saved)
          /\ active.sha = NoRevision \/ active.cfg = ProfileFingerprint(acts[o].saved)
      BY <1>2, <1>3, <2>6, ServedParts DEF ConfigFits, Away
    <3>2. ~ValidState(acts[o].fp)
      BY <3>1 DEF ValidState
    <3>3. RollbackCandidate(o) = NoRecord
      BY <3>1, <3>2 DEF RollbackCandidate, Installer
    <3> QED BY <3>3 DEF NoRecord
  <2> QED BY <1>2, <1>3, <1>4, <1>6, <2>6, <2>7, <2>8, <2>9, ServedStep DEF Begun
<1> QED BY <1>5, <1>6 DEF ActSelect

\* From stop on, an installer whose profile is on disk has no candidate.
LEMMA NoWayBack ==
  ASSUME ServedInv, NEW o \in Operators, Only(o), NoCrash', Away(o),
         acts[o].pc \in {"stop", "await_free", "await_ready", "error"},
         \A x \in Operators : x # o => acts'[x] = acts[x]
  PROVE  acts[o].back.sha = NoRevision
<1>1. ConfigFits(o)
  BY ServedParts
<1> QED BY <1>1 DEF ConfigFits

\* What read the saved config is stopped.
LEMMA ActStopServes ==
  ASSUME RuntimeInv, RuntimeInv', ServedInv, NoCrash', MaxActive = 1, NEW o \in Operators, ActStop(o)
  PROVE  ServedInv'
<1>1. HostFits /\ acts \in [Operators -> Act] /\ OperatorFits(o) /\ Solo
  BY Parts
<1>2. acts[o].pc = "stop"
  BY DEF ActStop, At
<1>3. Only(o)
  BY <1>1, <1>2, OthersOver DEF Over
<1>4. PICK g \in Act : g = acts[o]
  BY <1>1
<1>5. acts[o].pid \in Pids
  BY <1>1, <1>2 DEF OperatorFits
<1>6. active' = active /\ configFile' = configFile /\ Kept
  BY <1>1, <1>5, KeptKilled DEF ActStop
<1>7. PICK pc \in {"await_free", "error"} : pc = IF Alive(acts[o].pid) THEN "await_free" ELSE "error"
  OBVIOUS
<1>8. PICK was : was = procs[acts[o].pid].sha
  OBVIOUS
<1>9. PICK h : h = [g EXCEPT !.pc = pc, !.was = was]
  OBVIOUS
<1>10. /\ h.pc = pc /\ h.changed = g.changed /\ h.saved = g.saved /\ h.fp = g.fp
       /\ h.phase = g.phase /\ h.kind = g.kind /\ h.back = g.back
  BY <1>9 DEF Act
<1>11. acts' = [acts EXCEPT ![o] = h]
  BY <1>4, <1>7, <1>8, <1>9, Zenon DEF ActStop
<1>12. acts'[o] = h /\ \A x \in Operators : x # o => acts'[x] = acts[x]
  BY <1>1, <1>11
<1>13. Frame(o) /\ acts'[o].pc = pc /\ acts'[o].back = acts[o].back
  BY <1>4, <1>10, <1>12 DEF Frame
<1>14. Away(o) => acts[o].back.sha = NoRevision
  BY <1>2, <1>3, <1>12, NoWayBack
<1> QED BY <1>2, <1>3, <1>6, <1>7, <1>12, <1>13, <1>14, ServedStep DEF Begun

\* The target reads the config on disk.
LEMMA ActStartServes ==
  ASSUME RuntimeInv, RuntimeInv', ServedInv, NoCrash', MaxActive = 1, NEW o \in Operators, ActStart(o)
  PROVE  ServedInv'
<1>1. HostFits /\ acts \in [Operators -> Act] /\ OperatorFits(o) /\ Solo
  BY Parts
<1>2. acts[o].pc = "await_free"
  BY DEF ActStart, At
<1>3. Only(o)
  BY <1>1, <1>2, OthersOver DEF Over
<1>4. PICK g \in Act : g = acts[o]
  BY <1>1
<1>5. active' = active /\ configFile' = configFile /\ Kept
  BY <1>1, KeptSpawned, KeptSame DEF ActStart
<1>6. CASE acts' = [acts EXCEPT ![o].pc = "await_ready", ![o].target = NewPid]
  <2>1. PICK t : t = NewPid
    OBVIOUS
  <2>2. PICK h : h = [g EXCEPT !.pc = "await_ready", !.target = t]
    OBVIOUS
  <2>3. /\ h.pc = "await_ready" /\ h.changed = g.changed /\ h.saved = g.saved /\ h.fp = g.fp
        /\ h.phase = g.phase /\ h.kind = g.kind /\ h.back = g.back
    BY <2>2 DEF Act
  <2>4. acts' = [acts EXCEPT ![o] = h]
    BY <1>4, <1>6, <2>1, <2>2
  <2>5. acts'[o] = h /\ \A x \in Operators : x # o => acts'[x] = acts[x]
    BY <1>1, <2>4
  <2>6. Frame(o) /\ acts'[o].pc = "await_ready" /\ acts'[o].back = acts[o].back
    BY <1>4, <2>3, <2>5 DEF Frame
  <2>7. Away(o) => acts[o].back.sha = NoRevision
    BY <1>2, <1>3, <2>5, NoWayBack
  <2> QED BY <1>2, <1>3, <1>5, <2>5, <2>6, <2>7, ServedStep DEF Begun
<1>7. CASE Step(o, "error")
  <2>1. /\ Frame(o) /\ acts'[o].pc = "error" /\ acts'[o].back = acts[o].back
        /\ \A x \in Operators : x # o => acts'[x] = acts[x]
    BY <1>1, <1>7, StepFrame
  <2>2. Away(o) => acts[o].back.sha = NoRevision
    BY <1>2, <1>3, <2>1, NoWayBack
  <2> QED BY <1>2, <1>3, <1>5, <2>1, <2>2, ServedStep DEF Begun
<1> QED BY <1>6, <1>7 DEF ActStart

\* Waiting writes neither the config nor the record.
LEMMA ActAwaitReadyServes ==
  ASSUME RuntimeInv, RuntimeInv', ServedInv, NoCrash', MaxActive = 1, NEW o \in Operators, ActAwaitReady(o)
  PROVE  ServedInv'
<1>1. HostFits /\ acts \in [Operators -> Act] /\ OperatorFits(o) /\ Solo
  BY Parts
<1>2. acts[o].pc = "await_ready"
  BY DEF ActAwaitReady, At
<1>3. Only(o)
  BY <1>1, <1>2, OthersOver DEF Over
<1>4. active' = active /\ configFile' = configFile /\ Kept
  BY KeptSame DEF ActAwaitReady
<1>5. PICK pc \in {"write", "error"} : Step(o, pc)
  BY DEF ActAwaitReady
<1>6. /\ Frame(o) /\ acts'[o].pc = pc /\ acts'[o].back = acts[o].back
      /\ \A x \in Operators : x # o => acts'[x] = acts[x]
  BY <1>1, <1>5, StepFrame
<1>7. Away(o) => acts[o].back.sha = NoRevision
  BY <1>2, <1>3, <1>6, NoWayBack
<1> QED BY <1>2, <1>3, <1>4, <1>6, <1>7, ServedStep DEF Begun

\* The target serves under the config on disk, and the record says so.
LEMMA ActWriteServes ==
  ASSUME RuntimeInv, RuntimeInv', ServedInv, NoCrash', MaxActive = 1, NEW o \in Operators, ActWrite(o)
  PROVE  ServedInv'
<1>1. HostFits /\ acts \in [Operators -> Act] /\ OperatorFits(o) /\ Solo
  BY Parts
<1>2. acts[o].pc = "write"
  BY DEF ActWrite, At
<1>3. Only(o)
  BY <1>1, <1>2, OthersOver DEF Over
<1>4. procs' = procs /\ configFile' = configFile /\ active' = [sha |-> acts[o].sha, cfg |-> acts[o].fp]
  BY DEF ActWrite
<1>5. PICK outcome \in {"pass", "fail"} : End(o, outcome)
  BY DEF ActWrite
<1>6. /\ \A x \in Operators : x # o => acts'[x] = acts[x]
      /\ ~acts'[o].changed /\ acts'[o].pc # "bind"
  BY <1>1, <1>5 DEF End, Resting
<1>7. NoCrash
  BY <1>2, <1>3, <1>6, ServedParts
<1>8. acts[o].fp = ProfileFingerprint(configFile)
  BY <1>1, <1>2 DEF OperatorFits, Begun
<1>9. ASSUME NEW p \in Pids, Alive(p) PROVE procs[p].cfg = configFile
  <2>1. p = acts[o].target /\ p # 0
    <3>1. p # 0
      BY <1>1 DEF HostFits, Pids
    <3> QED BY <1>1, <1>2, <1>9, <3>1 DEF OperatorFits
  <2> QED BY <1>1, <2>1 DEF OperatorFits
<1>10. Settled'
  <2>1. active'.cfg = ProfileFingerprint(configFile')
    BY <1>4, <1>8
  <2>2. \A p \in Pids' : Alive(p)' => procs'[p].cfg = configFile'
    BY <1>4, <1>9 DEF Pids, Alive
  <2> QED BY <2>1, <2>2 DEF Settled, ProfileFingerprint
<1> QED BY <1>3, <1>6, <1>7, <1>10, QuietTurn

\* The target that read the new config is stopped before the saved one is back.
LEMMA ActErrorServes ==
  ASSUME RuntimeInv, RuntimeInv', ServedInv, NoCrash', MaxActive = 1, NEW o \in Operators, ActError(o)
  PROVE  ServedInv'
<1>1. HostFits /\ acts \in [Operators -> Act] /\ OperatorFits(o) /\ Solo
  BY Parts
<1>2. acts[o].pc = "error"
  BY DEF ActError, At
<1>3. Only(o)
  BY <1>1, <1>2, OthersOver DEF Over
<1>4. active' = active
  BY DEF ActError
<1>5. CASE Step(o, "back_start") /\ acts[o].back.sha # NoRevision /\ configFile' = configFile
  <2>1. /\ Frame(o) /\ acts'[o].pc = "back_start" /\ acts'[o].back = acts[o].back
        /\ \A x \in Operators : x # o => acts'[x] = acts[x]
    BY <1>1, <1>5, StepFrame
  <2>2. ~Away(o)
    BY <1>2, <1>3, <1>5, <2>1, NoWayBack
  <2>3. Kept
    <3>1. CASE acts[o].target = 0
      BY <3>1, KeptSame DEF ActError
    <3>2. CASE acts[o].target # 0
      <4>1. acts[o].target \in Pids
        BY <1>1, <3>2 DEF OperatorFits
      <4> QED BY <1>1, <3>2, <4>1, KeptKilled DEF ActError
    <3> QED BY <3>1, <3>2
  <2> QED BY <1>2, <1>3, <1>4, <1>5, <2>1, <2>2, <2>3, ServedStep DEF Begun
<1>6. CASE GiveUp(o)
  <2>1. \A p \in Pids : Alive(p) => p = acts[o].target
    BY <1>1, <1>2 DEF OperatorFits
  <2>2. \A p \in Pids' : ~Alive(p)'
    <3>1. CASE acts[o].target = 0
      <4>1. 0 \notin Pids /\ procs' = procs
        BY <1>1, <3>1 DEF HostFits, Pids, ActError
      <4> QED BY <2>1, <3>1, <4>1 DEF Pids, Alive
    <3>2. CASE acts[o].target # 0
      <4>1. acts[o].target \in Pids
        BY <1>1, <3>2 DEF OperatorFits
      <4>2. configFile' \in Configs /\ proven' = proven
        BY <1>2, <1>6, GiveUpTyped DEF Begun, ActError
      <4>3. Pids' = Pids /\ \A p \in Pids : Alive(p)' <=> Alive(p) /\ p # acts[o].target
        BY <1>1, <1>4, <3>2, <4>1, <4>2, KillKeeps DEF ActError
      <4> QED BY <2>1, <4>3
    <3> QED BY <3>1, <3>2
  <2> QED BY <1>2, <1>3, <1>4, <1>6, <2>2, ServedGiveUp DEF Begun
<1> QED BY <1>5, <1>6 DEF ActError

\* A candidate is started only when the file holds the profile it served under.
LEMMA BackStartServes ==
  ASSUME RuntimeInv, RuntimeInv', ServedInv, NoCrash', MaxActive = 1, NEW o \in Operators, BackStart(o)
  PROVE  ServedInv'
<1>1. HostFits /\ acts \in [Operators -> Act] /\ OperatorFits(o) /\ Solo
  BY Parts
<1>2. acts[o].pc = "back_start"
  BY DEF BackStart, At
<1>3. Only(o)
  BY <1>1, <1>2, OthersOver DEF Over
<1>4. active' = active /\ configFile' = configFile /\ Kept
  BY <1>1, KeptSpawned DEF BackStart
<1>5. /\ Frame(o) /\ acts'[o].pc = "back_ready"
      /\ \A x \in Operators : x # o => acts'[x] = acts[x]
  BY <1>1, StepFrame DEF BackStart
<1>6. ~Away(o)
  BY <1>2, <1>3, <1>5, ServedParts DEF ConfigFits
<1> QED BY <1>2, <1>3, <1>4, <1>5, <1>6, ServedStep DEF Begun

\* The candidate is recorded under the fingerprint of the file.
LEMMA BackReadyServes ==
  ASSUME RuntimeInv, RuntimeInv', ServedInv, NoCrash', MaxActive = 1, NEW o \in Operators, BackReady(o)
  PROVE  ServedInv'
<1>1. HostFits /\ acts \in [Operators -> Act] /\ OperatorFits(o) /\ Solo
  BY Parts
<1>2. acts[o].pc = "back_ready"
  BY DEF BackReady, At
<1>3. Only(o)
  BY <1>1, <1>2, OthersOver DEF Over
<1>4. procs' = procs
  BY DEF BackReady
<1>5. GiveUp(o)
  BY DEF BackReady
<1>6. active' = active \/ active'.cfg = ProfileFingerprint(configFile)
  BY <1>1, <1>2, RuntimeAssumption DEF BackReady, OperatorFits, Begun
<1>7. \A x \in Operators : x # o => acts'[x] = acts[x]
  BY <1>1, <1>2, <1>5, GiveUpFields DEF Turns, Begun, HostFits
<1>8. ~Away(o)
  BY <1>2, <1>3, <1>7, ServedParts DEF ConfigFits
<1> QED BY <1>2, <1>3, <1>4, <1>5, <1>6, <1>8, ServedGiveUp DEF Begun

\* recover probes.
LEMMA RecoverProbeServes ==
  ASSUME RuntimeInv, RuntimeInv', ServedInv, NoCrash', MaxActive = 1, NEW o \in Operators, RecoverProbe(o)
  PROVE  ServedInv'
<1>1. HostFits /\ acts \in [Operators -> Act] /\ OperatorFits(o) /\ Solo
  BY Parts
<1>2. acts[o].pc = "r_probe"
  BY DEF RecoverProbe, At
<1>3. Only(o)
  BY <1>1, <1>2, OthersOver DEF Over
<1>4. active' = active /\ configFile' = configFile /\ Kept
  BY KeptSame DEF RecoverProbe
<1>5. CASE acts' = [acts EXCEPT ![o].pc = "r_final", ![o].pid = port]
  <2>1. PICK g \in Act : g = acts[o]
    BY <1>1
  <2>2. acts'[o] = [g EXCEPT !.pc = "r_final", !.pid = port]
    BY <1>1, <1>5, <2>1
  <2>3. acts'[o].pc = "r_final" /\ acts'[o].changed = g.changed
    BY <2>2 DEF Act
  <2>4. \A x \in Operators : x # o => acts'[x] = acts[x]
    BY <1>1, <1>5
  <2> QED BY <1>2, <1>3, <1>4, <2>1, <2>3, <2>4, PlainServes DEF Recovering
<1>6. CASE Step(o, "r_start")
  <2>1. /\ Frame(o) /\ acts'[o].pc = "r_start"
        /\ \A x \in Operators : x # o => acts'[x] = acts[x]
    BY <1>1, <1>6, StepFrame
  <2> QED BY <1>2, <1>3, <1>4, <2>1, PlainServes DEF Recovering, Frame
<1>7. CASE End(o, "fail")
  <2>1. /\ ~acts'[o].changed /\ acts'[o].pc # "bind"
        /\ \A x \in Operators : x # o => acts'[x] = acts[x]
    BY <1>1, <1>7 DEF End, Resting
  <2> QED BY <1>2, <1>3, <1>4, <2>1, PlainServes DEF Recovering
<1> QED BY <1>5, <1>6, <1>7 DEF RecoverProbe

\* recover starts a process, which reads the file.
LEMMA RecoverStartServes ==
  ASSUME RuntimeInv, RuntimeInv', ServedInv, NoCrash', MaxActive = 1, NEW o \in Operators, RecoverStart(o)
  PROVE  ServedInv'
<1>1. HostFits /\ acts \in [Operators -> Act] /\ OperatorFits(o) /\ Solo
  BY Parts
<1>2. acts[o].pc = "r_start"
  BY DEF RecoverStart, At
<1>3. Only(o)
  BY <1>1, <1>2, OthersOver DEF Over
<1>4. active' = active /\ configFile' = configFile /\ Kept
  BY <1>1, KeptSpawned DEF RecoverStart
<1>5. PICK g \in Act : g = acts[o]
  BY <1>1
<1>6. PICK t : t = NewPid
  OBVIOUS
<1>7. acts'[o] = [g EXCEPT !.pc = "r_ready", !.target = t, !.pid = t]
  BY <1>1, <1>5, <1>6 DEF RecoverStart
<1>8. acts'[o].pc = "r_ready" /\ acts'[o].changed = g.changed
  BY <1>7 DEF Act
<1>9. \A x \in Operators : x # o => acts'[x] = acts[x]
  BY <1>1 DEF RecoverStart
<1> QED BY <1>2, <1>3, <1>4, <1>5, <1>8, <1>9, PlainServes DEF Recovering

\* recover waits.
LEMMA RecoverReadyServes ==
  ASSUME RuntimeInv, RuntimeInv', ServedInv, NoCrash', MaxActive = 1, NEW o \in Operators, RecoverReady(o)
  PROVE  ServedInv'
<1>1. HostFits /\ acts \in [Operators -> Act] /\ OperatorFits(o) /\ Solo
  BY Parts
<1>2. acts[o].pc = "r_ready"
  BY DEF RecoverReady, At
<1>3. Only(o)
  BY <1>1, <1>2, OthersOver DEF Over
<1>4. active' = active /\ configFile' = configFile /\ Kept
  BY KeptSame DEF RecoverReady
<1>5. PICK pc \in {"r_final", "r_error"} : Step(o, pc)
  BY DEF RecoverReady
<1>6. /\ Frame(o) /\ acts'[o].pc = pc
      /\ \A x \in Operators : x # o => acts'[x] = acts[x]
  BY <1>1, <1>5, StepFrame
<1> QED BY <1>2, <1>3, <1>4, <1>6, PlainServes DEF Recovering, Frame

\* recover records the fingerprint of the file.
LEMMA RecoverFinalServes ==
  ASSUME RuntimeInv, RuntimeInv', ServedInv, NoCrash', MaxActive = 1, NEW o \in Operators, RecoverFinal(o)
  PROVE  ServedInv'
<1>1. HostFits /\ acts \in [Operators -> Act] /\ OperatorFits(o) /\ Solo
  BY Parts
<1>2. acts[o].pc = "r_final"
  BY DEF RecoverFinal, At
<1>3. Only(o)
  BY <1>1, <1>2, OthersOver DEF Over
<1>4. configFile' = configFile /\ Kept
  BY KeptSame DEF RecoverFinal
<1>5. acts[o].fp = ProfileFingerprint(configFile)
  BY <1>1, <1>2 DEF OperatorFits, Recovering
<1>6. CASE /\ End(o, "pass")
           /\ active' = IF acts[o].target = 0 THEN active
                        ELSE [sha |-> acts[o].sha, cfg |-> acts[o].fp]
  <2>1. /\ ~acts'[o].changed /\ acts'[o].pc # "bind"
        /\ \A x \in Operators : x # o => acts'[x] = acts[x]
    BY <1>1, <1>6 DEF End, Resting
  <2>2. active' = active \/ active'.cfg = ProfileFingerprint(configFile)
    BY <1>5, <1>6
  <2> QED BY <1>2, <1>3, <1>4, <2>1, <2>2, PlainServes DEF Recovering
<1>7. CASE Step(o, "r_error") /\ UNCHANGED active
  <2>1. /\ Frame(o) /\ acts'[o].pc = "r_error"
        /\ \A x \in Operators : x # o => acts'[x] = acts[x]
    BY <1>1, <1>7, StepFrame
  <2> QED BY <1>2, <1>3, <1>4, <1>7, <2>1, PlainServes DEF Recovering, Frame
<1> QED BY <1>6, <1>7 DEF RecoverFinal

\* recover stops what it started.
LEMMA RecoverErrorServes ==
  ASSUME RuntimeInv, RuntimeInv', ServedInv, NoCrash', MaxActive = 1, NEW o \in Operators, RecoverError(o)
  PROVE  ServedInv'
<1>1. HostFits /\ acts \in [Operators -> Act] /\ OperatorFits(o) /\ Solo
  BY Parts
<1>2. acts[o].pc = "r_error"
  BY DEF RecoverError, At
<1>3. Only(o)
  BY <1>1, <1>2, OthersOver DEF Over
<1>4. active' = active /\ configFile' = configFile
  BY DEF RecoverError
<1>5. Kept
  <2>1. CASE acts[o].target = 0
    BY <2>1, KeptSame DEF RecoverError
  <2>2. CASE acts[o].target # 0
    <3>1. acts[o].target \in Pids
      BY <1>1, <1>2, <2>2, RecoveringFacts
    <3> QED BY <1>1, <2>2, <3>1, KeptKilled DEF RecoverError
  <2> QED BY <2>1, <2>2
<1>6. /\ ~acts'[o].changed /\ acts'[o].pc # "bind"
      /\ \A x \in Operators : x # o => acts'[x] = acts[x]
  BY <1>1 DEF RecoverError, End, Resting
<1> QED BY <1>2, <1>3, <1>4, <1>5, <1>6, PlainServes DEF Recovering

\* An operator that was ended excuses what it leaves.
LEMMA OperatorDiesServes ==
  ASSUME RuntimeInv, NoCrash', NEW o \in Operators, OperatorDies(o)
  PROVE  ServedInv'
<1>1. acts \in [Operators -> Act]
  BY Parts
<1>2. acts'[o].pc = "crashed"
  BY <1>1 DEF OperatorDies, End, Resting
<1> QED BY <1>2 DEF NoCrash

\* A runtime's step changes neither the config nor an operator.
LEMMA RuntimeServes ==
  ASSUME ServedInv, acts' = acts, configFile' = configFile, active' = active,
         \A p \in Pids' : Alive(p)' => p \in Pids /\ Alive(p) /\ procs'[p].cfg = procs[p].cfg
  PROVE  ServedInv'
<1>1. SUFFICES ASSUME NoCrash' PROVE ServedInv'
  BY DEF ServedInv
<1>2. NoCrash
  BY <1>1 DEF NoCrash
<1>3. Kept
  BY DEF Kept
<1>4. ASSUME NEW o \in Operators PROVE ConfigFits(o)'
  <2>1. ConfigFits(o)
    BY <1>2 DEF ServedInv
  <2> QED BY <2>1 DEF ConfigFits, Away, Installer, Kind, ProfileFingerprint
<1>5. (\A o \in Operators : ~Away(o)) => Settled'
  BY <1>2, <1>3, SettledKept DEF ServedInv
<1> QED BY <1>2, <1>4, <1>5 DEF ServedInv, Away, ProfileFingerprint

\* A runtime binds the port, becomes ready, or dies.
LEMMA RuntimeStepServes ==
  ASSUME RuntimeInv, ServedInv, NEW p \in Pids, RuntimeBinds(p) \/ RuntimeReady(p) \/ RuntimeDies(p)
  PROVE  ServedInv'
<1>1. PICK n \in Nat : procs \in [1..n -> Process]
  BY DEF RuntimeInv, RuntimeTypes
<1>2. PICK g \in Process : g = procs[p]
  BY <1>1 DEF Pids
<1>3. PICK st \in {"listening", "ready", "dead"} :
        /\ procs' = [procs EXCEPT ![p] = [g EXCEPT !.st = st]]
        /\ st # "dead" => Alive(p)
  <2>1. CASE RuntimeBinds(p)
    <3>1. PICK st \in {"listening", "dead"} : st = IF port = 0 THEN "listening" ELSE "dead"
      OBVIOUS
    <3>2. procs' = [procs EXCEPT ![p] = [g EXCEPT !.st = st]]
      BY <1>2, <2>1, <3>1 DEF RuntimeBinds
    <3> QED BY <2>1, <3>2 DEF RuntimeBinds, Alive
  <2>2. CASE RuntimeReady(p)
    BY <1>2, <2>2 DEF RuntimeReady, Alive
  <2>3. CASE RuntimeDies(p)
    BY <1>2, <2>3 DEF RuntimeDies, Killed
  <2> QED BY <2>1, <2>2, <2>3
<1>4. [g EXCEPT !.st = st].cfg = g.cfg /\ [g EXCEPT !.st = st].st = st
  BY DEF Process
<1>5. /\ Pids' = Pids /\ procs'[p].cfg = procs[p].cfg /\ procs'[p].st = st
      /\ \A q \in Pids : q # p => procs'[q] = procs[q]
  BY <1>1, <1>2, <1>3, <1>4 DEF Pids
<1>6. \A q \in Pids' : Alive(q)' => q \in Pids /\ Alive(q) /\ procs'[q].cfg = procs[q].cfg
  BY <1>3, <1>5 DEF Alive
<1>7. acts' = acts /\ configFile' = configFile /\ active' = active
  BY DEF RuntimeBinds, RuntimeReady, RuntimeDies
<1> QED BY <1>6, <1>7, RuntimeServes

\* The first runtime has read the original config.
LEMMA ServedInitially == RuntimeInit => ServedInv
<1> SUFFICES ASSUME RuntimeInit PROVE ServedInv
  OBVIOUS
<1>1. configFile = Original /\ ProfileFingerprint(Original) = Original
  BY DEF RuntimeInit, Original, ProfileFingerprint
<1>2. \A o \in Operators : acts[o].pc = "idle" /\ ~acts[o].changed
  BY DEF RuntimeInit, Resting
<1>3. active.cfg = Original
  BY DEF RuntimeInit, NoRecord
<1>4. Pids = {1} /\ procs[1].cfg = Original
  BY DEF RuntimeInit, Pids
<1>5. Settled
  BY <1>1, <1>3, <1>4 DEF Settled
<1> QED BY <1>2, <1>5 DEF ServedInv, ConfigFits, Away

\* Every step keeps the invariant.
LEMMA ServedNextKeeps ==
  ASSUME MaxActive = 1, RuntimeInv, RuntimeInv', ServedInv, [RuntimeNext]_runtimeVars
  PROVE  ServedInv'
<1> SUFFICES ASSUME NoCrash' PROVE ServedInv'
  BY DEF ServedInv
<1>1. CASE UNCHANGED runtimeVars
  <2>1. acts' = acts /\ configFile' = configFile /\ active' = active /\ procs' = procs
    BY <1>1 DEF runtimeVars
  <2> QED BY <2>1, RuntimeServes DEF Pids, Alive
<1>2. ASSUME NEW p \in Pids, RuntimeBinds(p) \/ RuntimeReady(p) \/ RuntimeDies(p)
      PROVE  ServedInv'
  BY <1>2, RuntimeStepServes
<1>3. ASSUME NEW o \in Operators, NEW sha \in Revisions,
             \/ Activate(o, sha)
             \/ \E kind \in Tasks, given \in BOOLEAN : FirstBootstrap(o, sha, kind, given)
             \/ \E cfg \in ScopeConfigs(configFile) : InstallScope(o, sha, cfg)
             \/ InstallRoot(o, sha) \/ \E covered \in BOOLEAN : InstallSmoke(o, sha, covered)
      PROVE  ServedInv'
  <2>1. CASE \E cfg \in ScopeConfigs(configFile) : InstallScope(o, sha, cfg)
    BY <2>1, ReadConfigServes DEF InstallScope
  <2>2. CASE InstallRoot(o, sha)
    BY <2>2, ReadConfigServes DEF InstallRoot
  <2>3. CASE \E covered \in BOOLEAN : InstallSmoke(o, sha, covered)
    BY <2>3, ReadConfigServes DEF InstallSmoke
  <2> QED BY <1>3, <2>1, <2>2, <2>3, ActivateServes, FirstBootstrapServes
<1>4. ASSUME NEW o \in Operators,
             \/ \E given \in Revisions \cup {NoRevision} : Recover(o, given)
             \/ WriteConfig(o) \/ ActProbe(o) \/ ActPrecheck(o) \/ ActSelect(o) \/ ActStop(o)
             \/ ActStart(o) \/ ActAwaitReady(o) \/ ActWrite(o) \/ ActError(o) \/ BackStart(o)
             \/ BackReady(o) \/ RecoverProbe(o) \/ RecoverStart(o) \/ RecoverReady(o)
             \/ RecoverFinal(o) \/ RecoverError(o) \/ OperatorDies(o)
      PROVE  ServedInv'
  BY <1>4, RecoverServes, WriteConfigServes, ActProbeServes, ActPrecheckServes, ActSelectServes,
     ActStopServes, ActStartServes, ActAwaitReadyServes, ActWriteServes, ActErrorServes,
     BackStartServes, BackReadyServes, RecoverProbeServes, RecoverStartServes, RecoverReadyServes,
     RecoverFinalServes, RecoverErrorServes, OperatorDiesServes
<1> QED BY <1>1, <1>2, <1>3, <1>4 DEF RuntimeNext

(* Once every operator has ended and none was killed, what runs has read the  *)
(* profile that is on disk (filesystem-scope-installer.js,                    *)
(* authorized-workspace-root-installer.js, read-only-smoke-installer.js       *)
(* install): a failed installation leaves neither its roots and scope nor a   *)
(* runtime that serves them, whether or not a root covers the smoke fixture.  *)
THEOREM ServedOnDisk ==
  ASSUME MaxActive = 1, ~SlowStarts
  PROVE  RuntimeSpec => []ServedProfileIsOnDisk
<1>1. RuntimeInit => RuntimeInv /\ ServedInv
  BY RuntimeInitially, ServedInitially
<1>2. (RuntimeInv /\ ServedInv) /\ [RuntimeNext]_runtimeVars => (RuntimeInv /\ ServedInv)'
  BY RuntimeNextKeeps, ServedNextKeeps
<1>3. ServedInv => ServedProfileIsOnDisk
  <2> SUFFICES ASSUME ServedInv, \A o \in Operators : acts[o].pc \in {"idle", "pass", "fail"}
               PROVE  \A p \in Pids : Alive(p) =>
                        ProfileFingerprint(procs[p].cfg) = ProfileFingerprint(configFile)
    BY DEF ServedProfileIsOnDisk
  <2>1. NoCrash
    BY DEF NoCrash
  <2>2. \A o \in Operators : ~Away(o)
    BY <2>1 DEF ServedInv, ConfigFits, Away, Begun
  <2> QED BY <2>1, <2>2 DEF ServedInv, Settled
<1> QED BY <1>1, <1>2, <1>3, PTL DEF RuntimeSpec
==============================================================================
