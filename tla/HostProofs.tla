------------------------------- MODULE HostProofs -------------------------------
(***************************************************************************)
(* What four smaller parts of the host promise, whatever comes between     *)
(* their steps: the supervisor of the Desktop Commander child for any      *)
(* number of calls and children, the installers of the start at login for  *)
(* any operators, versions and interference, the operating model for any   *)
(* operations, missions and repositories, and the App Server client for    *)
(* any callers, children and requests.                                     *)
(***************************************************************************)
EXTENDS AppServerConnection, CommanderChild, LoginAutostart, OperatingModel, FiniteSetTheorems, TLAPS

CallRecord == [pc : {"idle", "joined", "sent", "done", "failed"}, pair : Nat,
               gaveUp : BOOLEAN, ending : BOOLEAN]

\* The types that a step relies on: the children are numbered as they come.
Numbered == /\ \E n \in 0 .. MaxPairs : Pairs = 1 .. n
            /\ pairs = [g \in Pairs |-> pairs[g]]
CallsTyped == /\ calls \in [Calls -> CallRecord]
              /\ \A c \in Calls : calls[c].pc = "sent" => calls[c].pair \in Pairs
CommanderTypes == CommanderTypeOK /\ Numbered /\ CallsTyped

\* Who may still be up: the current pair and the one being started, which is the
\* current one unless it was given up; and without a start in flight an open supervisor
\* that has a pair is ready, so it never starts another over it.
HeldIsCurrent ==
  /\ booting # 0 /\ held # 0 => held = booting
  /\ shut = "no" /\ booting = 0 /\ held # 0 => status = "ready"
  /\ shut = "done" => held = 0 /\ booting = 0

CommanderInv == CommanderTypes /\ HeldIsCurrent /\ OnlyBlamedChildEnds /\ NoChildIsLost

\* Zero is no child.
LEMMA PairsAreCounted ==
  ASSUME Numbered
  PROVE  0 \notin Pairs /\ Pairs \subseteq Nat /\ Cardinality(Pairs) \in Nat
         /\ Cardinality(Pairs) + 1 \notin Pairs
         /\ (Cardinality(Pairs) + 1 <= MaxPairs =>
               \E n \in 0 .. MaxPairs : Pairs \cup {Cardinality(Pairs) + 1} = 1 .. n)
  <1>1. PICK n \in 0 .. MaxPairs : Pairs = 1 .. n
    BY DEF Numbered
  <1>2. Cardinality(Pairs) = n
    BY <1>1, FS_Interval, CommanderAssumption
  <1> QED
    BY <1>1, <1>2, CommanderAssumption

\* Telling a child to end changes that child only.
LEMMA ClosedPairs ==
  ASSUME CommanderTypes, NEW h \in {0} \cup Pairs
  PROVE  /\ Closed(h) = [x \in Pairs |-> Closed(h)[x]]
         /\ \A x \in Pairs : Closed(h)[x] = IF x = h /\ pairs[x] = "up" THEN "closing"
                                            ELSE pairs[x]
  BY PairsAreCounted DEF CommanderTypes, Closed, Numbered, Pairs

\* A step that starts no child and moves the calls in their types keeps the types.
LEMMA SamePairs ==
  ASSUME CommanderTypes, DOMAIN pairs' = Pairs, pairs' = [x \in Pairs |-> pairs'[x]],
         \A x \in Pairs : pairs'[x] \in {"up", "closing", "gone"},
         held' \in {0} \cup Pairs, booting' \in {0} \cup Pairs, blamed' \subseteq Pairs,
         status' \in {"idle", "starting", "ready", "dead", "failed", "stopping", "stopped"},
         shut' \in {"no", "closing", "done"},
         handle' \in [Calls -> {"none", "running", "completed", "terminated"}],
         processService' \in {"open", "closing", "closed"},
         calls' \in [Calls -> CallRecord],
         \A c \in Calls : /\ calls'[c].pc = "sent" => calls'[c].pair \in Pairs
                          /\ calls'[c].pair \in {0} \cup Pairs
  PROVE  CommanderTypes'
  BY DEF CommanderTypes, CommanderTypeOK, Numbered, CallsTyped, Pairs

\* What ensureReady does, however it goes.
LEMMA EnsureReadyKeeps ==
  ASSUME CommanderInv, NEW C \in SUBSET Calls, NEW ending \in BOOLEAN, EnsureReady(C, ending),
         shut' = shut, handle' \in [Calls -> {"none", "running", "completed", "terminated"}],
         processService' \in {"open", "closing", "closed"}, blamed' = blamed
  PROVE  CommanderInv'
  <1> DEFINE g == Cardinality(Pairs) + 1
             Goes(pc, pair) ==
               calls' = [c \in Calls |-> IF c \in C
                           THEN [pc |-> pc, pair |-> pair, gaveUp |-> FALSE, ending |-> ending]
                           ELSE calls[c]]
  <1>1. ASSUME NEW pc \in {"idle", "joined", "sent", "done", "failed"},
               NEW pair \in {0} \cup Pairs, pc = "sent" => pair \in Pairs, Goes(pc, pair)
        PROVE  /\ calls' \in [Calls -> CallRecord]
               /\ \A c \in Calls : /\ calls'[c].pc = "sent" => calls'[c].pair \in Pairs
                                   /\ calls'[c].pair \in {0} \cup Pairs
    <2>1. pair \in Nat
      BY PairsAreCounted DEF CommanderInv, CommanderTypes
    <2> DEFINE r == [pc |-> pc, pair |-> pair, gaveUp |-> FALSE, ending |-> ending]
    <2>2. r \in CallRecord /\ r.pc = pc /\ r.pair = pair
      BY <2>1 DEF CallRecord
    <2>3. calls' = [c \in Calls |-> IF c \in C THEN r ELSE calls[c]]
      BY <1>1
    <2> HIDE DEF r
    <2> QED
      BY <1>1, <2>2, <2>3 DEF CommanderInv, CommanderTypes, CallsTyped, CommanderTypeOK
  <1>2. CASE UNCHANGED <<pairs, held, status, booting>>
             /\ (Goes("failed", 0) \/ Goes("joined", 0) \/ (held # 0 /\ Goes("sent", held)))
    <2>1. held \in {0} \cup Pairs
      BY DEF CommanderInv, CommanderTypes, CommanderTypeOK
    <2>2. /\ calls' \in [Calls -> CallRecord]
          /\ \A c \in Calls : /\ calls'[c].pc = "sent" => calls'[c].pair \in Pairs
                              /\ calls'[c].pair \in {0} \cup Pairs
      BY <1>1, <1>2, <2>1
    <2>3. CommanderTypes'
      BY <1>2, <2>2 DEF CommanderInv, CommanderTypes, CommanderTypeOK, Numbered, CallsTyped, Pairs
    <2> QED
      BY <1>2, <2>3 DEF CommanderInv, HeldIsCurrent, OnlyBlamedChildEnds, NoChildIsLost, Pairs
  <1>3. CASE /\ shut = "no" /\ ~(status = "ready" /\ held # 0) /\ booting = 0 /\ g <= MaxPairs
             /\ pairs' = [x \in Pairs \cup {g} |-> IF x = g THEN "up" ELSE pairs[x]]
             /\ held' = g /\ booting' = g /\ status' = "starting" /\ Goes("joined", 0)
    <2>1. /\ g \notin Pairs /\ g # 0 /\ g \in Nat /\ DOMAIN pairs' = Pairs \cup {g}
          /\ \E n \in 0 .. MaxPairs : Pairs \cup {g} = 1 .. n
      BY <1>3, PairsAreCounted DEF CommanderInv, CommanderTypes
    <2>2. /\ calls' \in [Calls -> CallRecord]
          /\ \A c \in Calls : /\ calls'[c].pc = "sent" => calls'[c].pair \in Pairs
                              /\ calls'[c].pair \in {0} \cup Pairs
      BY <1>1, <1>3
    <2> HIDE DEF g
    <2>3. CommanderTypes'
      BY <1>3, <2>1, <2>2 DEF CommanderInv, CommanderTypes, CommanderTypeOK, Numbered,
         CallsTyped, Pairs
    <2>4. held = 0
      BY <1>3 DEF CommanderInv, HeldIsCurrent
    <2> QED
      BY <1>3, <2>1, <2>3, <2>4 DEF CommanderInv, HeldIsCurrent, OnlyBlamedChildEnds,
         NoChildIsLost, Pairs
  <1> QED
    BY <1>2, <1>3 DEF EnsureReady

\* The invariant is inductive: a pair that stops being current is closed and blamed.
LEMMA CommanderInductive == CommanderInv /\ [CommanderNext]_commanderVars => CommanderInv'
  <1> USE DEF CommanderInv, HeldIsCurrent, OnlyBlamedChildEnds, NoChildIsLost
  <1> SUFFICES ASSUME CommanderInv, [CommanderNext]_commanderVars PROVE CommanderInv'
    OBVIOUS
  <1>0. /\ held \in {0} \cup Pairs /\ booting \in {0} \cup Pairs /\ 0 \notin Pairs
        /\ pairs = [x \in Pairs |-> pairs[x]]
        /\ \A x \in Pairs : pairs[x] \in {"up", "closing", "gone"}
        /\ blamed \subseteq Pairs
        /\ status \in {"idle", "starting", "ready", "dead", "failed", "stopping", "stopped"}
        /\ shut \in {"no", "closing", "done"} /\ processService \in {"open", "closing", "closed"}
        /\ handle \in [Calls -> {"none", "running", "completed", "terminated"}]
        /\ calls \in [Calls -> CallRecord]
        /\ \A c \in Calls : /\ calls[c].pc = "sent" => calls[c].pair \in Pairs
                            /\ calls[c].pair \in {0} \cup Pairs
    BY PairsAreCounted DEF CommanderTypes, CommanderTypeOK, Numbered, CallsTyped
  \* An end of call c, and a running start that ends, keep the calls typed.
  <1> DEFINE Typed(cs) == /\ cs \in [Calls -> CallRecord]
                          /\ \A c \in Calls : /\ cs[c].pc = "sent" => cs[c].pair \in Pairs
                                              /\ cs[c].pair \in {0} \cup Pairs
  <1>a. ASSUME NEW c \in Calls, NEW how \in {"done", "failed"}
        PROVE  /\ Typed([calls EXCEPT ![c].pc = how]) /\ Typed([calls EXCEPT ![c].gaveUp = TRUE])
    <2>1. /\ [calls[c] EXCEPT !.pc = how] \in CallRecord
          /\ [calls[c] EXCEPT !.pc = how].pc = how
          /\ [calls[c] EXCEPT !.pc = how].pair = calls[c].pair
          /\ [calls[c] EXCEPT !.gaveUp = TRUE] \in CallRecord
          /\ [calls[c] EXCEPT !.gaveUp = TRUE].pc = calls[c].pc
          /\ [calls[c] EXCEPT !.gaveUp = TRUE].pair = calls[c].pair
      BY <1>0 DEF CallRecord
    <2> QED
      BY <1>0, <2>1
  <1>b. Typed([c \in Calls |-> IF c \in Joined THEN [calls[c] EXCEPT !.pc = "failed"]
                               ELSE calls[c]])
    <2>1. \A c \in Calls : /\ [calls[c] EXCEPT !.pc = "failed"] \in CallRecord
                           /\ [calls[c] EXCEPT !.pc = "failed"].pc = "failed"
                           /\ [calls[c] EXCEPT !.pc = "failed"].pair = calls[c].pair
      BY <1>0 DEF CallRecord
    <2> QED
      BY <1>0, <2>1
  <1>c. ASSUME booting # 0
        PROVE  Typed([c \in Calls |-> IF c \in Joined
                         THEN [calls[c] EXCEPT !.pc = "sent", !.pair = booting] ELSE calls[c]])
    <2>1. booting \in Nat /\ booting \in Pairs
      BY <1>0, <1>c, PairsAreCounted DEF CommanderTypes
    <2>2. \A c \in Calls :
            /\ [calls[c] EXCEPT !.pc = "sent", !.pair = booting] \in CallRecord
            /\ [calls[c] EXCEPT !.pc = "sent", !.pair = booting].pair = booting
      BY <1>0, <2>1 DEF CallRecord
    <2> QED
      BY <1>0, <2>1, <2>2
  <1> HIDE DEF Typed
  <1>d. \A h \in {0} \cup Pairs :
          /\ DOMAIN Closed(h) = Pairs /\ Closed(h) = [x \in Pairs |-> Closed(h)[x]]
          /\ \A x \in Pairs : Closed(h)[x] = IF x = h /\ pairs[x] = "up" THEN "closing"
                                             ELSE pairs[x]
    BY ClosedPairs
  <1>1. CASE UNCHANGED commanderVars
    BY <1>1 DEF commanderVars, CommanderTypes, CommanderTypeOK, Numbered, CallsTyped, Pairs
  <1>2. ASSUME NEW c \in Calls, BeginCall(c) PROVE CommanderInv'
    BY <1>0, <1>2, EnsureReadyKeeps DEF BeginCall
  <1>3. ASSUME NEW c \in Calls, CallReturns(c) PROVE CommanderInv'
    <2>1. Typed(calls') /\ handle' \in [Calls -> {"none", "running", "completed", "terminated"}]
          /\ UNCHANGED <<pairs, held, status, booting, shut, processService, blamed>>
      BY <1>0, <1>3, <1>a DEF CallReturns, EndCall
    <2> QED
      BY <1>0, <2>1, SamePairs DEF Typed, Pairs
  <1>4. ASSUME NEW c \in Calls, CallFails(c) PROVE CommanderInv'
    <2>1. Typed(calls') /\ calls[c].pair \in Pairs
          /\ UNCHANGED <<booting, shut, handle, processService>>
      BY <1>0, <1>4, <1>a DEF CallFails, EndCall
    <2>2. CASE UNCHANGED <<pairs, held, status>> /\ blamed \subseteq blamed' /\ blamed' \subseteq Pairs
      BY <1>0, <2>1, <2>2, SamePairs DEF Typed, Pairs
    <2>3. CASE /\ shut = "no" /\ held = calls[c].pair /\ blamed' = blamed \cup {held}
               /\ pairs' = Closed(held) /\ held' = 0 /\ status' = "dead"
      BY <1>0, <1>d, <2>1, <2>3, SamePairs DEF Typed, Pairs
    <2> QED
      BY <1>0, <1>4, <2>1, <2>2, <2>3 DEF CallFails, MarkDead
  <1>5. ASSUME NEW c \in Calls, RecoverAfterTimeout(c) PROVE CommanderInv'
    <2>1. Typed(calls') /\ UNCHANGED <<booting, shut, handle, processService>>
      BY <1>0, <1>5, <1>a DEF RecoverAfterTimeout
    <2>2. CASE UNCHANGED <<pairs, held, status, blamed>>
      BY <1>0, <2>1, <2>2, SamePairs DEF Typed, Pairs
    <2>3. CASE /\ shut = "no" /\ pairs' = Closed(held) /\ blamed' = blamed \cup ({held} \ {0})
               /\ held' = 0 /\ status' = "dead"
      BY <1>0, <1>d, <2>1, <2>3, SamePairs DEF Typed, Pairs
    <2> QED
      BY <1>5, <2>2, <2>3 DEF RecoverAfterTimeout
  <1>6. ASSUME NEW c \in Calls, NEW ending \in BOOLEAN, UseHandle(c, ending) PROVE CommanderInv'
    BY <1>0, <1>6, EnsureReadyKeeps DEF UseHandle
  <1>7. CASE StartReady
    <2>1. Typed(calls')
      BY <1>7, <1>c DEF StartReady
    <2> QED
      BY <1>0, <1>7, <2>1, SamePairs DEF StartReady, Typed, Pairs
  <1>8. CASE StartFails
    <2>1. Typed(calls') /\ booting \in Pairs
      BY <1>0, <1>8, <1>b DEF StartFails
    <2> QED
      BY <1>0, <1>8, <1>d, <2>1, SamePairs DEF StartFails, Typed, Pairs
  <1>9. CASE CloseService
    <2>1. CASE UNCHANGED <<pairs, held, status, booting, calls>>
      BY <1>0, <1>9, <2>1, SamePairs DEF CloseService, Pairs
    <2>2. CASE EnsureReady({c \in Calls : handle[c] = "running"}, TRUE)
      BY <1>0, <1>9, <2>2, EnsureReadyKeeps DEF CloseService
    <2> QED
      BY <1>9, <2>1, <2>2 DEF CloseService
  <1>10. CASE ServiceClosed
    BY <1>0, <1>10, SamePairs DEF ServiceClosed, Pairs
  <1>11. CASE CloseBegins
    BY <1>0, <1>11, SamePairs DEF CloseBegins, Pairs
  <1>12. CASE CloseEnds
    BY <1>0, <1>12, <1>d, SamePairs DEF CloseEnds, Pairs
  <1>13. ASSUME NEW g \in Pairs, ChildEnds(g) PROVE CommanderInv'
    <2>1. /\ DOMAIN pairs' = Pairs /\ pairs' = [x \in Pairs |-> pairs'[x]]
          /\ \A x \in Pairs : pairs'[x] = IF x = g THEN "gone" ELSE pairs[x]
      BY <1>0, <1>13 DEF ChildEnds
    <2> QED
      BY <1>0, <1>13, <2>1, SamePairs DEF ChildEnds, Pairs
  <1> QED
    BY <1>1, <1>2, <1>3, <1>4, <1>5, <1>6, <1>7, <1>8, <1>9, <1>10, <1>11, <1>12, <1>13
       DEF CommanderNext

LEMMA CommanderInvariant == CommanderSpec => []CommanderInv
  <1>1. CommanderInit => CommanderInv
    <2> SUFFICES ASSUME CommanderInit PROVE CommanderInv
      OBVIOUS
    <2>1. Pairs = {} /\ 1 .. 0 = {} /\ 0 \in 0 .. MaxPairs
      BY CommanderAssumption DEF CommanderInit, Pairs
    <2>2. CommanderTypes
      BY <2>1 DEF CommanderInit, CommanderTypes, CommanderTypeOK, Numbered, CallsTyped,
         CallRecord, Pairs
    <2> QED
      BY <2>1, <2>2 DEF CommanderInit, CommanderInv, HeldIsCurrent, OnlyBlamedChildEnds,
         NoChildIsLost
  <1> QED
    BY <1>1, CommanderInductive, PTL DEF CommanderSpec

\* However late a call fails or gives up, no child is ended for the failure of another.
THEOREM OnlyBlamedEnds == CommanderSpec => []OnlyBlamedChildEnds
  BY CommanderInvariant, PTL DEF CommanderInv

\* No child is forgotten, and none is left when close() returns, also when a start was in
\* flight.
THEOREM NoneLost == CommanderSpec => []NoChildIsLost
  BY CommanderInvariant, PTL DEF CommanderInv

(***************************************************************************)
(* LoginAutostart.  While nobody interferes only the last operator is at   *)
(* work, and what it relies on is what it found.                           *)
(***************************************************************************)
FoundTask == [owner : {"absent", "other", "tainted", "project"}, kind : StartKinds \cup {"none"},
              hash : Versions \cup {NoVersion}]
WorkRecord == [pc : {"idle", "ended", "query", "materialize", "open", "write", "verify", "apply",
                     "delete"},
               kind : StartKinds \cup {"none"}, want : Versions \cup {NoVersion},
               bytes : FileContents, found : FoundTask]
\* An operator at work has a kind, and one that installs a version to install.
WorkNamed(w) ==
  /\ w.pc \notin {"idle", "ended"} => w.kind \in StartKinds
  /\ w.pc \notin {"idle", "ended", "delete"} => w.want \in Versions
  /\ w.pc \in {"materialize", "open", "write", "verify"} => w.kind \in Bootstraps
AutoTyped ==
  /\ works \in [Installers -> WorkRecord] /\ tasks \in [TaskNames -> FoundTask]
  /\ source \in [Bootstraps -> FileContents] /\ durable \in [Bootstraps -> FileContents]
  /\ \A i \in Installers : WorkNamed(works[i])

\* What an operator w on its way to install found, and made of the durable file.
WorkFits(w) ==
  /\ w.pc \in {"query", "materialize", "open", "write", "verify", "apply"} =>
       (w.kind = "stable-runtime" => binding = w.want)
  /\ w.pc \in {"materialize", "open", "write", "verify", "apply"} =>
       w.found = tasks[TaskOf(w.kind)]
  /\ w.pc = "apply" /\ w.kind \in Bootstraps => durable[w.kind] = w.want

\* Without interference one operator works, and nothing is done before it ends.
OneWorks ==
  calm => /\ \A i, j \in Installers : AtEase(i) \/ AtEase(j) \/ i = j
          /\ (\E i \in Installers : ~AtEase(i)) => done = NotDone
          /\ \A i \in Installers : WorkFits(works[i])
AutostartInv == AutoTyped /\ OneWorks /\ InstalledStarts

\* An interference leaves nothing to promise but the types.
LEMMA Disturbed ==
  ASSUME AutoTyped', ~calm'
  PROVE  AutostartInv'
  BY DEF AutostartInv, OneWorks, InstalledStarts

\* The one operator at work goes on or ends: nobody else is at work.
LEMMA WorkMoves ==
  ASSUME AutostartInv, NEW i \in Installers, ~AtEase(i),
         NEW w \in WorkRecord, WorkNamed(w), works' = [works EXCEPT ![i] = w], calm' = calm,
         tasks' \in [TaskNames -> FoundTask], durable' \in [Bootstraps -> FileContents],
         source' = source, calm => WorkFits(w)',
         done' = done \/ (w.pc = "ended" /\ (calm => InstalledStarts'))
  PROVE  AutostartInv'
  <1>1. AutoTyped'
    BY DEF AutostartInv, AutoTyped, WorkNamed
  <1>2. CASE ~calm
    BY <1>1, <1>2, Disturbed
  <1>3. CASE calm
    <2>1. /\ \A j \in Installers \ {i} : works[j].pc \in {"idle", "ended"} /\ works'[j] = works[j]
          /\ works'[i] = w /\ done = NotDone
      BY <1>3 DEF AutostartInv, AutoTyped, OneWorks, AtEase
    <2>2. OneWorks'
      <3>1. \A j \in Installers : WorkFits(works[j])'
        BY <1>3, <2>1 DEF WorkFits
      <3> QED
        BY <2>1, <3>1 DEF OneWorks, AtEase
    <2>3. InstalledStarts'
      BY <1>3, <2>1 DEF InstalledStarts
    <2> QED
      BY <1>1, <2>2, <2>3 DEF AutostartInv
  <1> QED
    BY <1>2, <1>3

\* What an operator writes down of its work.
LEMMA AutoValues ==
  /\ NoTask \in FoundTask /\ AtRest \in WorkRecord
  /\ [AtRest EXCEPT !.pc = "ended"] \in WorkRecord
  /\ [AtRest EXCEPT !.pc = "ended"].pc = "ended"
  /\ \A k \in StartKinds, v \in Versions :
       /\ DesiredTask(k, v) \in FoundTask /\ DesiredTask(k, v).owner = "project"
       /\ DesiredTask(k, v).kind = k /\ DesiredTask(k, v).hash = v
       /\ [AtRest EXCEPT !.pc = "query", !.kind = k, !.want = v] \in WorkRecord
  /\ \A k \in StartKinds : /\ TaskOf(k) \in TaskNames
                           /\ [AtRest EXCEPT !.pc = "delete", !.kind = k] \in WorkRecord
  <1>1. NoTask \in FoundTask /\ AtRest \in WorkRecord
    BY DEF NoTask, FoundTask, AtRest, WorkRecord, FileContents, NoVersion
  <1>2. \A k \in StartKinds, v \in Versions :
          /\ DesiredTask(k, v) \in FoundTask /\ DesiredTask(k, v).owner = "project"
          /\ DesiredTask(k, v).kind = k /\ DesiredTask(k, v).hash = v
    BY DEF DesiredTask, DesktopTaskSpec, LoginTaskSpec, FoundTask
  <1>3. \A k \in StartKinds : TaskOf(k) \in TaskNames
    BY DEF TaskOf, TaskNames
  <1>4. \A k \in StartKinds, v \in Versions :
          [AtRest EXCEPT !.pc = "query", !.kind = k, !.want = v] \in WorkRecord
    BY <1>1 DEF WorkRecord
  <1>5. \A k \in StartKinds : [AtRest EXCEPT !.pc = "delete", !.kind = k] \in WorkRecord
    BY <1>1 DEF WorkRecord
  <1>6. /\ [AtRest EXCEPT !.pc = "ended"] \in WorkRecord
        /\ [AtRest EXCEPT !.pc = "ended"].pc = "ended"
    BY <1>1 DEF WorkRecord
  <1> QED
    BY ZenonT(60), <1>1, <1>2, <1>3, <1>4, <1>5, <1>6

\* An operator begins: whoever is at work besides it, or nobody.
LEMMA OpenKeeps ==
  ASSUME AutostartInv, NEW i \in Installers,
         \/ \E k \in StartKinds : Uninstall(i, k) \/ \E v \in Versions : InstallTask(i, k, v)
  PROVE  AutostartInv'
  <1>1. PICK w \in WorkRecord :
          /\ works' = [works EXCEPT ![i] = w] /\ Opens(i) /\ UNCHANGED <<binding, source, durable, tasks>>
          /\ WorkFits(w)' /\ WorkNamed(w)
    <2>1. CASE \E k \in StartKinds : Uninstall(i, k)
      <3>1. PICK k \in StartKinds : Uninstall(i, k)
        BY <2>1
      <3>2. PICK w : w = IF ReconcileUninstall(tasks[TaskOf(k)]) = "delete"
                         THEN [AtRest EXCEPT !.pc = "delete", !.kind = k]
                         ELSE [AtRest EXCEPT !.pc = "ended"]
        OBVIOUS
      <3>3. w \in WorkRecord /\ (w.pc = "ended" \/ (w.pc = "delete" /\ w.kind = k))
        BY <3>2, AutoValues DEF AtRest
      <3>4. WorkFits(w)' /\ WorkNamed(w)
        BY <3>3 DEF WorkFits, WorkNamed
      <3> QED
        BY <3>1, <3>2, <3>3, <3>4 DEF Uninstall
    <2>2. CASE \E k \in StartKinds, v \in Versions : InstallTask(i, k, v)
      <3>1. PICK k \in StartKinds, v \in Versions : InstallTask(i, k, v)
        BY <2>2
      <3>2. PICK w : w = [AtRest EXCEPT !.pc = "query", !.kind = k, !.want = v]
        OBVIOUS
      <3>3. w \in WorkRecord /\ w.pc = "query" /\ w.kind = k /\ w.want = v
        BY <3>2, AutoValues DEF AtRest
      <3>4. k = "stable-runtime" => binding = v
        BY <3>1 DEF InstallTask, SourceValid, StableRuntimeBinding
      <3>5. works' = [works EXCEPT ![i] = w] /\ UNCHANGED <<binding, source, durable, tasks>>
            /\ Opens(i)
        BY <3>1, <3>2 DEF InstallTask
      <3>6. WorkFits(w)' /\ WorkNamed(w)
        BY <3>3, <3>4, <3>5 DEF WorkFits, WorkNamed
      <3> QED
        BY <3>3, <3>5, <3>6
    <2> QED
      BY <2>1, <2>2
  <1>2. AutoTyped' /\ works'[i] = w /\ done' = NotDone
    BY <1>1 DEF AutostartInv, AutoTyped, Opens, WorkNamed
  <1>3. OneWorks'
    <2> SUFFICES ASSUME calm' PROVE OneWorks'
      BY DEF OneWorks
    <2>1. \A j \in Installers \ {i} : works'[j] = works[j] /\ works[j].pc \in {"idle", "ended"}
      BY <1>1 DEF Opens, AtEase, AutostartInv, AutoTyped
    <2>2. \A j \in Installers : WorkFits(works[j])'
      BY <1>1, <1>2, <2>1 DEF WorkFits
    <2> QED
      BY <1>2, <2>1, <2>2 DEF OneWorks, AtEase
  <1>4. InstalledStarts'
    BY <1>2 DEF InstalledStarts
  <1> QED
    BY <1>2, <1>3, <1>4 DEF AutostartInv

\* An operator goes on: it found the task as it is, the durable file is as it wants it
\* when it registers the task, and so the login accepts it.
LEMMA InstallKeeps ==
  ASSUME AutostartInv, NEW i \in Installers,
         \/ QueryTask(i) \/ Materialize(i) \/ OpenDurable(i) \/ WriteDurable(i)
         \/ VerifyDurable(i) \/ ApplyTask(i) \/ RemoveTask(i) \/ InstallerDies(i)
  PROVE  AutostartInv'
  <1>1. PICK w \in WorkRecord : w = works[i]
    BY DEF AutostartInv, AutoTyped
  <1>2. ~AtEase(i) /\ binding' = binding /\ calm' = calm /\ source' = source
    BY DEF QueryTask, Materialize, OpenDurable, WriteDurable, VerifyDurable, ApplyTask,
       RemoveTask, InstallerDies, AtStep, AtEase
  <1>3. /\ tasks \in [TaskNames -> FoundTask] /\ durable \in [Bootstraps -> FileContents]
        /\ source \in [Bootstraps -> FileContents] /\ WorkNamed(w)
        /\ calm => WorkFits(w) /\ done = NotDone
    BY <1>1, <1>2 DEF AutostartInv, AutoTyped, OneWorks
  <1>4. PICK e \in WorkRecord : e = [AtRest EXCEPT !.pc = "ended"] /\ e.pc = "ended"
    BY AutoValues
  <1>5. WorkFits(e)' /\ WorkNamed(e)
    BY <1>4 DEF WorkFits, WorkNamed
  <1>6. ASSUME Stops(i), UNCHANGED <<tasks, durable, done>> PROVE AutostartInv'
    <2>1. works' = [works EXCEPT ![i] = e]
      BY <1>4, <1>6 DEF Stops
    <2> QED
      BY <1>2, <1>3, <1>4, <1>5, <1>6, <2>1, WorkMoves
  <1>7. ASSUME NEW pc \in {"open", "verify", "apply"}, MoveTo(i, pc),
               UNCHANGED <<tasks, done>>, durable' \in [Bootstraps -> FileContents],
               w.pc \in {"materialize", "write", "verify"},
               pc = "apply" => durable'[w.kind] = w.want
        PROVE  AutostartInv'
    <2>1. PICK m : m = [w EXCEPT !.pc = pc]
      OBVIOUS
    <2>2. /\ m \in WorkRecord /\ works' = [works EXCEPT ![i] = m]
          /\ m.pc = pc /\ m.kind = w.kind /\ m.want = w.want /\ m.found = w.found
      BY <1>1, <1>7, <2>1 DEF WorkRecord, MoveTo
    <2>3. WorkNamed(m) /\ (calm => WorkFits(m)')
      BY <1>2, <1>3, <1>7, <2>2 DEF WorkFits, WorkNamed
    <2> QED
      BY <1>2, <1>3, <1>7, <2>2, <2>3, WorkMoves
  <1>8. CASE QueryTask(i)
    <2>1. PICK found \in FoundTask : found = tasks[TaskOf(w.kind)]
      BY <1>2, <1>3 DEF TaskOf, TaskNames
    <2>2. PICK pc \in {"materialize", "apply"} :
            pc = IF w.kind \in Bootstraps THEN "materialize" ELSE "apply"
      OBVIOUS
    <2>3. PICK m : m = [w EXCEPT !.found = found, !.pc = pc]
      OBVIOUS
    <2>4. /\ m \in WorkRecord /\ m.pc = pc /\ m.kind = w.kind /\ m.want = w.want
          /\ m.found = found
      BY <1>1, <2>3 DEF WorkRecord
    <2>5. w.pc = "query" /\ UNCHANGED <<binding, tasks, durable, done>>
      BY <1>1, <1>8 DEF QueryTask, AtStep
    <2>6. WorkNamed(m) /\ (calm => WorkFits(m)')
      BY <1>3, <2>1, <2>2, <2>4, <2>5 DEF WorkFits, WorkNamed, Bootstraps
    <2>7. Stops(i) \/ works' = [works EXCEPT ![i] = m]
      BY <1>1, <1>8, <2>1, <2>2, <2>3 DEF QueryTask
    <2> QED
      BY <1>2, <1>3, <1>6, <2>4, <2>5, <2>6, <2>7, WorkMoves
  <1>9. CASE Materialize(i)
    <2>1. w.pc = "materialize" /\ UNCHANGED <<tasks, durable, done>>
      BY <1>1, <1>9 DEF Materialize, AtStep
    <2>2. \/ Stops(i) \/ MoveTo(i, "open")
          \/ MoveTo(i, "apply") /\ durable[w.kind] = w.want
      BY <1>1, <1>9 DEF Materialize, MaterializeDecision
    <2> QED
      BY <1>3, <1>6, <1>7, <2>1, <2>2
  <1>10. CASE OpenDurable(i)
    <2>1. w.pc = "open" /\ w.kind \in Bootstraps /\ UNCHANGED <<tasks, done>>
      BY <1>1, <1>3, <1>10 DEF OpenDurable, AtStep, WorkNamed
    <2>2. PICK bytes \in FileContents : bytes = source[w.kind]
      BY <1>3, <2>1
    <2>3. PICK m : m = [w EXCEPT !.pc = "write", !.bytes = bytes]
      OBVIOUS
    <2>4. /\ m \in WorkRecord /\ m.pc = "write" /\ m.kind = w.kind /\ m.want = w.want
          /\ m.found = w.found /\ works' = [works EXCEPT ![i] = m]
      BY <1>1, <1>10, <2>2, <2>3 DEF WorkRecord, OpenDurable
    <2>5. durable' \in [Bootstraps -> FileContents]
      BY <1>3, <1>10 DEF OpenDurable, FileContents, Unmarked
    <2>6. WorkNamed(m) /\ (calm => WorkFits(m)')
      BY <1>2, <1>3, <2>1, <2>4 DEF WorkFits, WorkNamed
    <2> QED
      BY <1>2, <1>3, <2>1, <2>4, <2>5, <2>6, WorkMoves
  <1>11. CASE WriteDurable(i)
    <2>1. /\ w.pc = "write" /\ MoveTo(i, "verify") /\ UNCHANGED <<tasks, done>>
          /\ durable' = [durable EXCEPT ![w.kind] = w.bytes]
      BY <1>1, <1>11 DEF WriteDurable, AtStep
    <2>2. w.bytes \in FileContents
      BY DEF WorkRecord
    <2>3. durable' \in [Bootstraps -> FileContents]
      BY <1>3, <2>1, <2>2
    <2> QED
      BY <1>7, <2>1, <2>3
  <1>12. CASE VerifyDurable(i)
    <2>1. w.pc = "verify" /\ UNCHANGED <<tasks, durable, done>>
      BY <1>1, <1>12 DEF VerifyDurable, AtStep
    <2>2. Stops(i) \/ (MoveTo(i, "apply") /\ durable[w.kind] = w.want)
      BY <1>1, <1>12 DEF VerifyDurable
    <2> QED
      BY <1>3, <1>6, <1>7, <2>1, <2>2
  <1>13. CASE ApplyTask(i)
    <2>1. PICK wanted : wanted = DesiredTask(w.kind, w.want)
      OBVIOUS
    <2>2. /\ w.pc = "apply" /\ durable' = durable /\ works' = [works EXCEPT ![i] = e]
          /\ \/ /\ tasks' = IF ReconcileInstall(w.found, wanted) = "unchanged" THEN tasks
                            ELSE [tasks EXCEPT ![TaskOf(w.kind)] = wanted]
                /\ done' = [kind |-> w.kind, hash |-> w.want]
             \/ UNCHANGED <<tasks, done>>
      BY <1>1, <1>4, <1>13, <2>1 DEF ApplyTask, AtStep, Stops
    <2>3. /\ w.kind \in StartKinds /\ w.want \in Versions /\ TaskOf(w.kind) \in TaskNames
          /\ wanted \in FoundTask /\ wanted.owner = "project" /\ wanted.kind = w.kind
          /\ wanted.hash = w.want
      BY ZenonT(60), <1>3, <2>1, <2>2, AutoValues DEF WorkNamed
    <2>4. tasks' \in [TaskNames -> FoundTask]
      BY <1>3, <2>2, <2>3
    <2>5. CASE UNCHANGED <<tasks, done>>
      BY <1>2, <1>3, <1>4, <1>5, <2>2, <2>5, WorkMoves
    <2>6. CASE ~UNCHANGED <<tasks, done>>
      <3>1. ASSUME calm, ReconcileInstall(w.found, wanted) = "unchanged"
            PROVE  tasks[TaskOf(w.kind)] = wanted
        <4>1. Fingerprint(w.found) = Fingerprint(wanted) /\ w.found = tasks[TaskOf(w.kind)]
          BY <1>3, <2>2, <3>1 DEF ReconcileInstall, WorkFits
        <4>2. w.found \in FoundTask
          BY DEF WorkRecord
        <4> QED
          BY <2>3, <4>1, <4>2 DEF Fingerprint, FoundTask
      <3>2. calm => tasks'[TaskOf(w.kind)] = wanted
        BY <1>3, <2>2, <2>3, <2>6, <3>1
      <3>3. ASSUME calm PROVE LoginAccepts(wanted)'
        <4>1. CASE w.kind = "stable-runtime"
          BY <1>2, <1>3, <2>2, <2>3, <3>3, <4>1 DEF LoginAccepts, StableRuntimeBinding, WorkFits
        <4>2. CASE w.kind # "stable-runtime"
          BY <1>3, <2>2, <2>3, <3>3, <4>2 DEF LoginAccepts, WorkFits, Bootstraps
        <4> QED
          BY <4>1, <4>2
      <3>4. done' = [kind |-> w.kind, hash |-> w.want]
        BY <2>2, <2>6
      <3>5. calm => InstalledStarts'
        BY <2>1, <2>3, <3>2, <3>3, <3>4 DEF InstalledStarts, TaskStatus
      <3> QED
        BY <1>2, <1>3, <1>4, <1>5, <2>2, <2>4, <3>5, WorkMoves
    <2> QED
      BY <2>5, <2>6
  <1>14. CASE RemoveTask(i)
    <2>1. /\ UNCHANGED <<durable, done>> /\ works' = [works EXCEPT ![i] = e]
          /\ tasks' = tasks \/ tasks' = [tasks EXCEPT ![TaskOf(w.kind)] = NoTask]
      BY <1>1, <1>4, <1>14 DEF RemoveTask, Stops
    <2>2. PICK none \in FoundTask : none = NoTask
      BY AutoValues
    <2>3. tasks' \in [TaskNames -> FoundTask]
      BY <1>3, <2>1, <2>2
    <2> QED
      BY <1>2, <1>3, <1>4, <1>5, <2>1, <2>3, WorkMoves
  <1>15. CASE InstallerDies(i)
    BY <1>6, <1>15 DEF InstallerDies
  <1> QED
    BY <1>8, <1>9, <1>10, <1>11, <1>12, <1>13, <1>14, <1>15

\* The invariant of the installers, for any operators, versions, deaths and interference.
LEMMA AutostartInvariant == AutostartSpec => []AutostartInv
  <1>1. AutostartInit => AutostartInv
    <2> SUFFICES ASSUME AutostartInit PROVE AutostartInv
      OBVIOUS
    <2>1. binding \in Versions
      BY AutostartAssumption DEF AutostartInit
    <2>2. AutoTyped
      BY <2>1, AutoValues DEF AutostartInit, AutoTyped, FileContents, NoVersion, WorkNamed, AtRest
    <2> QED
      BY <2>2 DEF AutostartInit, AutostartInv, OneWorks, InstalledStarts, AtEase, AtRest, WorkFits
  <1>2. AutostartInv /\ [AutostartNext]_autostartVars => AutostartInv'
    <2> SUFFICES ASSUME AutostartInv, [AutostartNext]_autostartVars PROVE AutostartInv'
      OBVIOUS
    <2>1. ASSUME UNCHANGED <<binding, source, durable, tasks, works, done, calm>>
          PROVE  AutostartInv'
      BY <2>1 DEF AutostartInv, AutoTyped, OneWorks, InstalledStarts, AtEase, WorkFits,
         LoginAccepts, StableRuntimeBinding
    <2>2. CASE UNCHANGED autostartVars
      BY <2>1, <2>2 DEF autostartVars
    <2>3. ASSUME NEW i \in Installers,
                 \/ \E k \in StartKinds : Uninstall(i, k) \/ \E v \in Versions : InstallTask(i, k, v)
                 \/ QueryTask(i) \/ Materialize(i) \/ OpenDurable(i) \/ WriteDurable(i)
                 \/ VerifyDurable(i) \/ ApplyTask(i) \/ RemoveTask(i) \/ InstallerDies(i)
          PROVE  AutostartInv'
      BY <2>3, OpenKeeps, InstallKeeps
    <2>4. ASSUME NEW t \in TaskNames, LoginFires(t) \/ LoginRuns(t) \/ LoginEnds(t)
          PROVE  AutostartInv'
      BY <2>1, <2>4 DEF LoginFires, LoginRuns, LoginEnds
    <2>5. ASSUME NEW t \in TaskNames, NEW owner \in {"absent", "other", "tainted"},
                 OthersRegister(t, owner)
          PROVE  AutostartInv'
      <3>1. PICK found \in FoundTask : found = IF owner = "absent" THEN NoTask
                                               ELSE [tasks[t] EXCEPT !.owner = owner]
        <4>1. tasks[t] \in FoundTask
          BY DEF AutostartInv, AutoTyped
        <4>2. [tasks[t] EXCEPT !.owner = owner] \in FoundTask
          BY <4>1 DEF FoundTask
        <4> QED
          BY <4>2, AutoValues
      <3>2. tasks' = [tasks EXCEPT ![t] = found]
        BY <2>5, <3>1 DEF OthersRegister
      <3> QED
        BY <2>5, <3>2, Disturbed DEF OthersRegister, Interferes, AutostartInv, AutoTyped
    <2>6. ASSUME NEW k \in Bootstraps, NEW c \in Versions \cup {"alien"}, SourceChanges(k, c)
          PROVE  AutostartInv'
      <3>1. AutoTyped'
        BY <2>6 DEF SourceChanges, AutostartInv, AutoTyped, FileContents, Unmarked
      <3>2. UNCHANGED <<binding, durable, tasks, works, done>> /\ (calm' = calm \/ ~calm')
        BY <2>6 DEF SourceChanges, Interferes
      <3>3. OneWorks' /\ InstalledStarts'
        BY <3>2 DEF AutostartInv, OneWorks, InstalledStarts, AtEase, WorkFits, LoginAccepts,
           StableRuntimeBinding
      <3> QED
        BY <3>1, <3>3 DEF AutostartInv
    <2>7. ASSUME NEW k \in Bootstraps, NEW c \in FileContents, OthersWriteFile(k, c)
          PROVE  AutostartInv'
      BY <2>7, Disturbed DEF OthersWriteFile, Interferes, AutostartInv, AutoTyped
    <2>8. ASSUME NEW b, ConfigChanges(b) PROVE AutostartInv'
      BY <2>8, Disturbed DEF ConfigChanges, Interferes, AutostartInv, AutoTyped
    <2> QED
      BY <2>2, <2>3, <2>4, <2>5, <2>6, <2>7, <2>8 DEF AutostartNext
  <1> QED
    BY <1>1, <1>2, PTL DEF AutostartSpec

\* An installation that reports success starts at the next login, unless somebody came
\* between: whichever operator died before, in whatever state it left the files.
THEOREM InstallationStarts == AutostartSpec => []InstalledStarts
  BY AutostartInvariant, PTL DEF AutostartInv

(***************************************************************************)
(* OperatingModel.  Each answer is the function of its question, on what   *)
(* was observed when it was given.                                         *)
(***************************************************************************)
\* What a session resolved: a bound grant is for the active mission of the one valid head.
ResolvedFits ==
  resolution.state = "resolved" =>
    LET g == resolution.grant  c == resolution.control IN
    /\ resolution.authority = NormalizeMissionAuthority(g) /\ resolution.heads <= 1
    /\ g.status = "bound" /\ c # Uncontrolled =>
         c.valid /\ c.mission \in Missions /\ g.mission = c.mission
WrittenFits ==
  wrote # {} => /\ resolution.state = "resolved"
                /\ \A repo \in wrote : MutationAuthorized(repo, resolution.authority)
AnswersFit ==
  /\ observed \subseteq Observations
  /\ routed.required \subseteq Operations /\ routed.answer = RouteRequired(routed.required)
  /\ decided.facts \subseteq FactKeys /\ decided.answer = DecideRoute(decided.facts)
ModelInv == ResolvedFits /\ WrittenFits /\ AnswersFit

\* Whichever entry resolves, and whatever heads, authorization, grant and role it is given.
LEMMA ResolveFits ==
  ASSUME NEW entry \in {"adoption", "autonomous"}, NEW matching \in Heads,
         NEW others \in BOOLEAN, NEW scoped \in BOOLEAN, NEW authorization \in Authorizations,
         NEW g \in Grants, NEW b \in RoleBindings \cup {NoRole},
         resolution' = Resolve(entry, matching, others, scoped, authorization, g, b)
  PROVE  ResolvedFits' /\ resolution'.state \in {"refused", "resolved"}
  <1>1. PICK control : control = DiscoverControl(matching)
    OBVIOUS
  <1>2. control # Uncontrolled => control \in matching
    BY <1>1 DEF DiscoverControl
  <1>3. CASE resolution' = [state |-> "refused"]
    BY <1>3 DEF ResolvedFits
  <1>4. CASE resolution' # [state |-> "refused"]
    <2>1. ~DiscoveryFails(entry, matching, others) /\ AuthorityMatches(control, g)
      BY <1>1, <1>4 DEF Resolve
    <2>2. /\ resolution'.state = "resolved" /\ resolution'.control = control
          /\ resolution'.heads = Cardinality(matching) /\ resolution'.grant = g
          /\ resolution'.authority = NormalizeMissionAuthority(g)
      BY <1>1, <1>4 DEF Resolve
    <2>3. Cardinality(matching) <= 1
      <3>1. Cardinality(matching) \in Nat
        BY FS_CardinalityType DEF Heads
      <3> QED
        BY <2>1, <3>1 DEF DiscoveryFails
    <2>4. control # Uncontrolled => control.valid /\ control \in Controls
      BY <1>2, <2>1 DEF DiscoveryFails, Heads
    <2>5. control # Uncontrolled /\ g.status = "bound" =>
            control.mission \in Missions /\ g.mission = control.mission
      BY <2>1, <2>4 DEF AuthorityMatches, Controls
    <2> QED
      BY <2>2, <2>3, <2>4, <2>5 DEF ResolvedFits
  <1> QED
    BY <1>3, <1>4

\* The answer depends on what was observed and on nothing else.
LEMMA SameRoutes ==
  ASSUME UNCHANGED observed, NEW required
  PROVE  RouteRequired(required)' = RouteRequired(required)
  <1>1. ASSUME NEW op PROVE AvailableRoutes(op)' = AvailableRoutes(op)
    BY DEF AvailableRoutes
  <1>2. ASSUME NEW route, NEW ops PROVE OfferedBy(route, ops)' <=> OfferedBy(route, ops)
    BY <1>1 DEF OfferedBy
  <1>3. HybridRoute(required)' = HybridRoute(required)
    BY <1>1, <1>2 DEF HybridRoute
  <1> QED
    BY <1>1, <1>2, <1>3 DEF RouteRequired

LEMMA ModelInvariant == ModelSpec => []ModelInv
  <1>1. ModelInit => ModelInv
    BY DEF ModelInit, ModelInv, ResolvedFits, WrittenFits, AnswersFit, NotResolved
  <1>2. ModelInv /\ [ModelNext]_modelVars => ModelInv'
    <2> SUFFICES ASSUME ModelInv, [ModelNext]_modelVars PROVE ModelInv'
      OBVIOUS
    <2>1. CASE UNCHANGED modelVars
      BY <2>1, SameRoutes DEF modelVars, ModelInv, ResolvedFits, WrittenFits, AnswersFit
    <2>2. ASSUME NEW f \in SUBSET FactKeys, AskDecide(f) PROVE ModelInv'
      BY <2>2, SameRoutes DEF AskDecide, ModelInv, ResolvedFits, WrittenFits, AnswersFit
    <2>3. ASSUME NEW o \in Observations, Observe(o) PROVE ModelInv'
      BY <2>3 DEF Observe, ModelInv, ResolvedFits, WrittenFits, AnswersFit, RouteRequired
    <2>4. ASSUME NEW required \in SUBSET Operations, AskRoute(required) PROVE ModelInv'
      BY <2>4, SameRoutes DEF AskRoute, ModelInv, ResolvedFits, WrittenFits, AnswersFit
    <2>5. ASSUME AnswersFit, UNCHANGED <<observed, routed, decided>> PROVE AnswersFit'
      BY <2>5, SameRoutes DEF AnswersFit
    <2>6. ASSUME NEW k \in Kernels, BindKernel(k) PROVE ModelInv'
      BY <2>5, <2>6 DEF BindKernel, Unasked, NothingAsked, NotResolved, ModelInv, ResolvedFits,
         WrittenFits
    <2>7. ASSUME ResolveProjectAdoption \/ ResolveAutonomousBootstrap PROVE ModelInv'
      <3>1. resolution.state = "kernel" /\ UNCHANGED <<observed, routed, decided, wrote>>
        BY <2>7 DEF ResolveProjectAdoption, ResolveAutonomousBootstrap
      <3>2. ResolvedFits'
        BY <2>7, ResolveFits DEF ResolveProjectAdoption, ResolveAutonomousBootstrap
      <3> QED
        BY <2>5, <3>1, <3>2 DEF ModelInv, WrittenFits
    <2>8. ASSUME NEW repo \in Repositories, WriteRepository(repo) PROVE ModelInv'
      BY <2>5, <2>8 DEF WriteRepository, ModelInv, ResolvedFits, WrittenFits
    <2> QED
      BY <2>1, <2>2, <2>3, <2>4, <2>6, <2>7, <2>8 DEF ModelNext
  <1> QED
    BY <1>1, <1>2, PTL DEF ModelSpec

\* A session writes a repository only under a live grant that names it, for the mission
\* that the project's one valid head names as active.
THEOREM MissionFollowed == ModelSpec => []WritesFollowMission
  <1>1. ModelInv => WritesFollowMission
    <2> SUFFICES ASSUME ModelInv, wrote # {}
                 PROVE  LET g == resolution.grant  c == resolution.control IN
                        /\ g.status = "bound" /\ ~g.readOnly /\ wrote \subseteq g.repos
                        /\ resolution.heads <= 1
                        /\ c # Uncontrolled =>
                             c.valid /\ c.mission \in Missions /\ g.mission = c.mission
      BY DEF WritesFollowMission
    <2>1. PICK a : a = resolution.authority
      OBVIOUS
    <2>2. /\ resolution.state = "resolved"
          /\ a.bound /\ ~a.readOnly /\ wrote \subseteq a.repos
      BY <2>1 DEF ModelInv, WrittenFits, MutationAuthorized
    <2>3. PICK g : g = resolution.grant /\ a = NormalizeMissionAuthority(g)
      BY <2>1, <2>2 DEF ModelInv, ResolvedFits
    <2>4. CASE g.status # "bound"
      BY <2>2, <2>3, <2>4 DEF NormalizeMissionAuthority
    <2>5. CASE g.status = "bound"
      <3>1. ~g.readOnly /\ a.repos = g.repos
        BY <2>2, <2>3, <2>5 DEF NormalizeMissionAuthority
      <3> QED
        BY <2>2, <2>3, <2>5, <3>1 DEF ModelInv, ResolvedFits
    <2> QED
      BY <2>4, <2>5
  <1> QED
    BY <1>1, ModelInvariant, PTL

\* decideRoute gives every mutation one owner, who can write.
LEMMA DecisionFits ==
  ASSUME NEW f \in SUBSET FactKeys
  PROVE  LET a == DecideRoute(f) IN
         a.route # Throws =>
           /\ a.owner # Nothing <=> "mutationRequired" \in f
           /\ a.owner = "codex" <=> a.access = "workspace_write"
           /\ a.owner = "chatgpt" =>
                /\ {"boundedChange", "exactChangeKnown"} \subseteq f
                /\ f \cap {"multiFile", "unknownRootCause", "iterative", "longRunning"} = {}
  <1> DEFINE large == f \cap {"multiFile", "unknownRootCause", "iterative", "longRunning"}
             known == {"boundedChange", "exactChangeKnown"} \subseteq f
             leg == IF "requiresLocal" \in f THEN RouteLocalLeg(f) ELSE Nothing
             owner == OwnerForLocalLeg(leg, f)
             access == CodexAccess(leg, f)
  <1> SUFFICES ASSUME ValidateConsistency(f)
               PROVE  /\ owner # Nothing <=> "mutationRequired" \in f
                      /\ owner = "codex" <=> access = "workspace_write"
                      /\ owner = "chatgpt" => known /\ large = {}
    BY DEF DecideRoute
  <1>1. Mutates(f) <=> "mutationRequired" \in f
    BY DEF ValidateConsistency, Mutates
  <1>2. Mutates(f) => leg = IF large = {} /\ known THEN "CHATGPT_DIRECT_LOCAL" ELSE "CODEX_DELEGATE"
    <2>1. Mutates(f) => "requiresLocal" \in f
      BY DEF ValidateConsistency, LocalWorkFacts, Mutates
    <2> QED
      BY <2>1 DEF RouteLocalLeg
  <1> HIDE DEF large, known, leg
  <1>3. CASE ~Mutates(f)
    BY <1>1, <1>3 DEF OwnerForLocalLeg, CodexAccess, Nothing
  <1>4. CASE Mutates(f) /\ large = {} /\ known
    BY <1>1, <1>2, <1>4 DEF OwnerForLocalLeg, CodexAccess, Nothing
  <1>5. CASE Mutates(f) /\ ~(large = {} /\ known)
    BY <1>1, <1>2, <1>5 DEF OwnerForLocalLeg, CodexAccess, Nothing
  <1> QED
    BY <1>3, <1>4, <1>5

\* The first of the offers there are: Codex only when nobody else offers.
LEMMA PreferredOffer ==
  ASSUME NEW offers \in SUBSET RouteFamilies
  PROVE  /\ Preferred(offers) = Nothing <=> offers = {}
         /\ Preferred(offers) # Nothing => Preferred(offers) \in offers
         /\ Preferred(offers) = "CODEX_DELEGATE" => offers = {"CODEX_DELEGATE"}
  BY DEF Preferred, RouteFamilies, Nothing

\* What a team covers, in terms of what each of its routes offers.
LEMMA TeamCovers ==
  /\ \A r, ops : Covers({r}, ops) <=> OfferedBy(r, ops)
  /\ \A r, q, ops : Covers({r, q}, ops) <=>
       \A op \in ops : r \in AvailableRoutes(op) \/ q \in AvailableRoutes(op)
  /\ \A t, ops : Covers(t, ops) => \A op \in ops : AvailableRoutes(op) # {}
  <1>1. \A r, op : r \in AvailableRoutes(op) <=>
                     \E o \in observed : o.operation = op /\ o.lacks = {} /\ o.route = r
    BY DEF AvailableRoutes, Available
  <1>2. \A r, ops : Covers({r}, ops) <=> OfferedBy(r, ops)
    BY ZenonT(60), <1>1 DEF Covers, OfferedBy
  <1>3. \A r, q, ops : Covers({r, q}, ops) <=>
          \A op \in ops : r \in AvailableRoutes(op) \/ q \in AvailableRoutes(op)
    <2> SUFFICES ASSUME NEW r, NEW q, NEW op
                 PROVE  (\E o \in observed : o.operation = op /\ o.lacks = {} /\ o.route \in {r, q})
                          <=> (r \in AvailableRoutes(op) \/ q \in AvailableRoutes(op))
      BY Zenon DEF Covers
    <2> QED
      BY <1>1
  <1>4. \A t, ops : Covers(t, ops) => \A op \in ops : AvailableRoutes(op) # {}
    BY <1>1 DEF Covers
  <1> QED
    BY <1>2, <1>3, <1>4

\* The sizes of the teams.
LEMMA TeamSizes ==
  /\ \A r \in RouteFamilies : Cardinality({r}) = 1
  /\ \A r \in LocalRoutes : Cardinality({"CHATGPT_NATIVE", r}) = 2
  <1>1. \A r \in RouteFamilies : Cardinality({r}) = 1
    BY FS_Singleton
  <1>2. ASSUME NEW r \in LocalRoutes PROVE Cardinality({"CHATGPT_NATIVE", r}) = 2
    <2>1. r # "CHATGPT_NATIVE"
      BY DEF LocalRoutes
    <2>2. IsFiniteSet({r}) /\ Cardinality({r}) = 1
      BY FS_Singleton
    <2>3. Cardinality({r} \cup {"CHATGPT_NATIVE"}) = Cardinality({r}) + 1
      BY <2>1, <2>2, FS_AddElement
    <2>4. {"CHATGPT_NATIVE", r} = {r} \cup {"CHATGPT_NATIVE"}
      OBVIOUS
    <2> QED
      BY <2>2, <2>3, <2>4
  <1> QED
    BY <1>1, <1>2

\* Where no family offers all, the composition finds a local route that offers the rest
\* whenever there is one, and Codex only where the other would not do.
LEMMA HybridFits ==
  ASSUME NEW required, \A r \in RouteFamilies : ~OfferedBy(r, required)
  PROVE  LET local == HybridRoute(required) IN
         /\ local = Nothing <=> \A r \in LocalRoutes : ~Covers({"CHATGPT_NATIVE", r}, required)
         /\ local # Nothing => local \in LocalRoutes /\ Covers({"CHATGPT_NATIVE", local}, required)
         /\ local = "CODEX_DELEGATE" =>
              ~Covers({"CHATGPT_NATIVE", "CHATGPT_DIRECT_LOCAL"}, required)
  <1> DEFINE native == {op \in required : "CHATGPT_NATIVE" \in AvailableRoutes(op)}
             offers == {r \in LocalRoutes : OfferedBy(r, required \ native)}
  <1>1. native # required
    BY DEF OfferedBy, RouteFamilies
  <1>2. \A r \in LocalRoutes : Covers({"CHATGPT_NATIVE", r}, required) <=> r \in offers
    BY TeamCovers DEF OfferedBy
  <1>3. native = {} => offers = {}
    BY DEF OfferedBy, LocalRoutes
  <1>4. HybridRoute(required) = IF native = {} THEN Nothing ELSE Preferred(offers)
    BY <1>1 DEF HybridRoute
  <1>5. offers \in SUBSET RouteFamilies /\ "CHATGPT_DIRECT_LOCAL" \in LocalRoutes
    BY DEF LocalRoutes, RouteFamilies
  <1> HIDE DEF native, offers
  <1>6. /\ HybridRoute(required) = Nothing <=> offers = {}
        /\ HybridRoute(required) # Nothing => HybridRoute(required) \in offers
        /\ HybridRoute(required) = "CODEX_DELEGATE" => offers = {"CODEX_DELEGATE"}
    BY <1>3, <1>4, <1>5, PreferredOffer DEF Nothing
  <1>7. offers \subseteq LocalRoutes
    BY DEF offers
  <1> QED
    BY <1>2, <1>5, <1>6, <1>7

\* routeRequiredOperations answers with a smallest team that covers what is required.
LEMMA RouteFits ==
  ASSUME NEW required, required # {}, NEW a, a = RouteRequired(required),
         NEW covering, covering = {t \in Teams : Covers(t, required)}
  PROVE  /\ a.route = Throws <=> covering = {}
         /\ a.route # Throws =>
              /\ TeamOf(a) \in covering
              /\ \A t \in covering :
                   /\ Cardinality(TeamOf(a)) <= Cardinality(t)
                   /\ "CODEX_DELEGATE" \in TeamOf(a) /\ Cardinality(t) = Cardinality(TeamOf(a))
                        => "CODEX_DELEGATE" \in t
  <1> DEFINE single == {r \in RouteFamilies : OfferedBy(r, required)}
             one == Preferred(single)
             local == HybridRoute(required)
  <1>1. single \subseteq RouteFamilies
    OBVIOUS
  <1>2. \A r \in RouteFamilies : r # Throws /\ r # "HYBRID" /\ r # Nothing
    BY DEF RouteFamilies, Throws, Nothing
  <1>3. \A t \in covering : \/ \E r \in single : t = {r}
                            \/ \E r \in LocalRoutes : t = {"CHATGPT_NATIVE", r}
    BY TeamCovers DEF Teams
  <1>4. \A t \in Teams : Cardinality(t) \in {1, 2}
    BY TeamSizes DEF Teams
  <1>5. /\ one = Nothing <=> single = {}
        /\ one # Nothing => one \in single
        /\ one = "CODEX_DELEGATE" => single = {"CODEX_DELEGATE"}
    BY PreferredOffer
  <1>6. CASE \E op \in required : AvailableRoutes(op) = {}
    <2>1. a.route = Throws
      BY <1>6 DEF RouteRequired
    <2>2. covering = {}
      BY <1>6, TeamCovers
    <2> QED
      BY <2>1, <2>2
  <1>7. CASE (\A op \in required : AvailableRoutes(op) # {}) /\ one # Nothing
    <2>1. a = [route |-> one, leg |-> Nothing]
      BY <1>7 DEF RouteRequired
    <2>2. one \in RouteFamilies /\ OfferedBy(one, required)
      BY <1>5, <1>7
    <2>3. TeamOf(a) = {one} /\ a.route # Throws /\ {one} \in Teams
      <3> HIDE DEF one
      <3>1. a.route = one /\ one # "HYBRID" /\ one # Throws
        BY <1>2, <2>1, <2>2
      <3>2. {one} \in Teams
        BY <2>2 DEF Teams
      <3> QED
        BY <3>1, <3>2 DEF TeamOf
    <2>4. {one} \in covering /\ Cardinality({one}) = 1
      BY <2>2, <2>3, TeamCovers, TeamSizes
    <2>5. ASSUME NEW t \in covering
          PROVE  /\ 1 <= Cardinality(t)
                 /\ one = "CODEX_DELEGATE" /\ Cardinality(t) = 1 => "CODEX_DELEGATE" \in t
      <3>1. t \in Teams
        OBVIOUS
      <3>2. \A r \in LocalRoutes : t = {"CHATGPT_NATIVE", r} => Cardinality(t) = 2
        BY TeamSizes
      <3> QED
        BY <1>3, <1>4, <1>5, <3>1, <3>2
    <2> HIDE DEF one
    <2> QED
      BY <2>3, <2>4, <2>5
  <1>8. CASE (\A op \in required : AvailableRoutes(op) # {}) /\ one = Nothing
    <2>1. single = {} /\ \A r \in RouteFamilies : ~OfferedBy(r, required)
      BY <1>5, <1>8
    <2>2. /\ local = Nothing <=> \A r \in LocalRoutes : ~Covers({"CHATGPT_NATIVE", r}, required)
          /\ local # Nothing => local \in LocalRoutes /\ Covers({"CHATGPT_NATIVE", local}, required)
          /\ local = "CODEX_DELEGATE" =>
               ~Covers({"CHATGPT_NATIVE", "CHATGPT_DIRECT_LOCAL"}, required)
      BY <2>1, HybridFits
    <2>3. \A r \in LocalRoutes : {"CHATGPT_NATIVE", r} \in Teams
      BY DEF Teams
    <2>4. \A t \in covering : \E r \in LocalRoutes : t = {"CHATGPT_NATIVE", r}
                                                     /\ Covers(t, required)
      BY <1>3, <2>1
    <2>5. CASE local = Nothing
      <3>1. a.route = Throws
        BY <1>8, <2>5 DEF RouteRequired
      <3>2. covering = {}
        BY <2>2, <2>4, <2>5
      <3> QED
        BY <3>1, <3>2
    <2>6. CASE local # Nothing
      <3>1. a = [route |-> "HYBRID", leg |-> local]
        BY <1>8, <2>6 DEF RouteRequired
      <3>2. TeamOf(a) = {"CHATGPT_NATIVE", local} /\ a.route # Throws
        BY <3>1 DEF TeamOf, Throws
      <3>3. {"CHATGPT_NATIVE", local} \in covering
        BY <2>2, <2>3, <2>6
      <3>4. ASSUME NEW t \in covering
            PROVE  /\ Cardinality({"CHATGPT_NATIVE", local}) <= Cardinality(t)
                   /\ "CODEX_DELEGATE" \in {"CHATGPT_NATIVE", local} => "CODEX_DELEGATE" \in t
        <4>1. PICK r \in LocalRoutes : t = {"CHATGPT_NATIVE", r} /\ Covers(t, required)
          BY <2>4
        <4>2. Cardinality(t) = 2 /\ Cardinality({"CHATGPT_NATIVE", local}) = 2
          BY <2>2, <2>6, <4>1, TeamSizes
        <4>3. local = "CODEX_DELEGATE" => r = "CODEX_DELEGATE"
          BY <2>2, <4>1 DEF LocalRoutes, RouteFamilies
        <4> QED
          BY <4>1, <4>2, <4>3
      <3> HIDE DEF local
      <3> QED
        BY <3>2, <3>3, <3>4
    <2> QED
      BY <2>5, <2>6
  <1> QED
    BY <1>6, <1>7, <1>8

\* Every mutation has one owner who can write, and a mission gets a smallest team that
\* offers all it needs, or none exactly when no team does.
THEOREM RoutesRight == ModelSpec => []RoutesAreRight
  <1>1. ModelInv => RoutesAreRight
    <2> SUFFICES ASSUME ModelInv PROVE RoutesAreRight
      OBVIOUS
    <2>1. DecisionIsRight
      BY DecisionFits DEF ModelInv, AnswersFit, DecisionIsRight
    <2> QED
      BY <2>1, RouteFits DEF ModelInv, AnswersFit, RoutesAreRight
  <1> QED
    BY <1>1, ModelInvariant, PTL

-----------------------------------------------------------------------------
(* The App Server client: executor/app-server-client.js.                      *)

KidStates == {"alive", "told", "exited", "killed", "closed"}
\* The client's children are numbered as they were spawned, and the last one is its own; a
\* request is of one of them whose end was not reported, and each caller that is in connect()
\* has its one `initialize` request.
ConnInv ==
  /\ \E n \in Nat : child = n /\ kids \in [1..n -> KidStates]
  /\ exited \in BOOLEAN /\ connected \in BOOLEAN /\ ids \in Nat
  /\ connecting \in [Callers -> {"idle", "initialize", "ok", "failed"}]
  /\ \A w \in waiting : /\ w.id \in Nat /\ w.id <= ids /\ w.caller \in Callers
                        /\ w.kid \in Kids /\ kids[w.kid] # "closed"
                        /\ w.init => connecting[w.caller] = "initialize"
  /\ \A w, v \in waiting : w.init /\ v.init /\ w.caller = v.caller => w = v
  /\ \A c \in Callers : connecting[c] = "initialize" => \E w \in waiting : w.init /\ w.caller = c
  /\ child # 0 /\ kids[child] = "closed" => exited
  /\ OneChildServes

\* connect() and request() of a client.
LEMMA ConnCalls ==
  ASSUME ConnInv, NEW c \in Callers, Connect(c) \/ SendRequest(c)
  PROVE  ConnInv'
  <1>1. PICK n \in Nat : child = n /\ kids \in [1..n -> KidStates] /\ Kids = 1..n
    BY DEF ConnInv, Kids
  <1>2. CASE ConnSpawn(c) /\ connecting[c] # "initialize"
    <2>1. PICK k : k = Cardinality(Kids) + 1
      OBVIOUS
    <2>2. k = n + 1 /\ k \notin 1..n /\ (1..n) \cup {k} = 1..k /\ k \in Nat /\ k # 0
      <3>1. Cardinality(1..n) = n
        BY <1>1, FS_Interval
      <3> QED
        BY <1>1, <2>1, <3>1
    <2>3. PICK w : w = Sent(c, k, TRUE)
      OBVIOUS
    <2>4. w.id = ids + 1 /\ w.caller = c /\ w.kid = k /\ w.init = TRUE
      BY <2>3 DEF Sent
    <2>5. /\ kids' = [x \in 1..k |-> IF x = k THEN "alive"
                        ELSE IF x = child /\ kids[x] = "alive" THEN "told" ELSE kids[x]]
          /\ child' = k /\ exited' = FALSE /\ connected' = connected
          /\ waiting' = waiting \cup {w} /\ ids' = ids + 1
          /\ connecting' = [connecting EXCEPT ![c] = "initialize"]
      BY <1>1, <1>2, <2>1, <2>2, <2>3 DEF ConnSpawn
    <2>6. kids' \in [1..k -> KidStates] /\ Kids' = 1..k /\ kids'[k] = "alive"
      BY <1>1, <2>2, <2>5 DEF Kids, KidStates
    <2>7. ASSUME NEW v \in waiting
          PROVE  /\ v.caller \in Callers /\ v.kid \in 1..n /\ v.kid \in 1..k /\ kids'[v.kid] # "closed" /\ v.id \in Nat
                 /\ v.id <= ids + 1 /\ ~(v.init /\ v.caller = c)
                 /\ v.init => connecting[v.caller] = "initialize"
                 /\ v.init => connecting'[v.caller] = "initialize"
      BY <1>1, <1>2, <2>2, <2>5 DEF ConnInv
    <2>8. ASSUME NEW x \in 1..k, kids'[x] = "alive" PROVE x = k
      BY <1>1, <2>2, <2>5, <2>8 DEF ConnInv, OneChildServes
    <2>9. \A v \in waiting' : /\ v.id \in Nat /\ v.id <= ids' /\ v.caller \in Callers /\ v.kid \in Kids' /\ kids'[v.kid] # "closed"
                              /\ v.init => connecting'[v.caller] = "initialize"
      BY <2>2, <2>4, <2>5, <2>6, <2>7 DEF ConnInv
    <2>10. \A u, v \in waiting' : u.init /\ v.init /\ u.caller = v.caller => u = v
      BY <2>4, <2>5, <2>7 DEF ConnInv
    <2>11. \A b \in Callers : connecting'[b] = "initialize" => \E v \in waiting' : v.init /\ v.caller = b
      BY <2>4, <2>5 DEF ConnInv
    <2>12. \E m \in Nat : child' = m /\ kids' \in [1..m -> KidStates]
      BY <2>2, <2>5, <2>6
    <2>13. /\ exited' \in BOOLEAN /\ connected' \in BOOLEAN /\ ids' \in Nat
           /\ connecting' \in [Callers -> {"idle", "initialize", "ok", "failed"}]
           /\ ~(child' # 0 /\ kids'[child'] = "closed")
      <3>1. kids'[child'] = "alive"
        BY <2>5, <2>6
      <3>2. exited' \in BOOLEAN /\ connected' \in BOOLEAN
        BY Zenon, <2>5 DEF ConnInv
      <3>4. ids' \in Nat
        BY <2>5 DEF ConnInv
      <3>3. connecting' \in [Callers -> {"idle", "initialize", "ok", "failed"}]
        BY <2>5 DEF ConnInv
      <3> QED
        BY <3>1, <3>2, <3>3, <3>4
    <2>14. OneChildServes'
      BY <2>5, <2>6, <2>8 DEF OneChildServes
    <2> QED
      BY <2>9, <2>10, <2>11, <2>12, <2>13, <2>14 DEF ConnInv, OneChildServes
  <1>3. CASE /\ connecting[c] # "initialize" /\ connecting' = [connecting EXCEPT ![c] = "ok"]
             /\ UNCHANGED <<kids, child, exited, connected, waiting, ids>>
    <2>1. \A w \in waiting : w.init => w.caller # c
      BY <1>3 DEF ConnInv
    <2> QED
      BY <1>3, <2>1 DEF ConnInv, OneChildServes, Kids
  <1>4. CASE SendRequest(c)
    <2>1. PICK w : w = Sent(c, child, FALSE)
      OBVIOUS
    <2>2. w.id = ids + 1 /\ w.caller = c /\ w.kid = child /\ w.init = FALSE
      BY <2>1 DEF Sent
    <2>3. /\ waiting' = waiting \cup {w} /\ ids' = ids + 1 /\ ~exited /\ child # 0
          /\ UNCHANGED <<kids, child, exited, connected, connecting>>
      BY <1>4, <2>1 DEF SendRequest, IsRunning
    <2>4. child \in 1..n /\ kids[child] # "closed"
      BY <1>1, <2>3 DEF ConnInv
    <2> QED
      BY <1>1, <2>2, <2>3, <2>4 DEF ConnInv, OneChildServes, Kids
  <1> QED
    BY <1>2, <1>3, <1>4 DEF Connect

\* An answer or a timer settles one request, and a connect() with it.
LEMMA ConnSettles ==
  ASSUME ConnInv, NEW w \in waiting, ConnAnswer(w) \/ ConnTimeout(w)
  PROVE  ConnInv'
  <1>1. waiting' = waiting \ {w} /\ UNCHANGED <<kids, child, exited, ids>> /\ connected' \in BOOLEAN
    BY DEF ConnAnswer, ConnTimeout, ConnInv
  <1>2. /\ connecting' \in [Callers -> {"idle", "initialize", "ok", "failed"}]
        /\ \A c \in Callers : connecting'[c] # connecting[c] => w.init /\ w.caller = c
        /\ \A c \in Callers : w.init /\ w.caller = c => connecting'[c] # "initialize"
    <2>1. CASE ConnAnswer(w)
      BY <2>1 DEF ConnAnswer, ConnInv
    <2>2. CASE ConnTimeout(w)
      <3>1. connecting' = [c \in Callers |-> IF w.init /\ w.caller = c THEN "failed" ELSE connecting[c]]
        BY <2>2 DEF ConnTimeout, Rejected
      <3> QED
        BY <3>1 DEF ConnInv
    <2> QED
      BY <2>1, <2>2
  <1>3. \A v \in waiting' : v.init => connecting'[v.caller] = "initialize"
    <2> SUFFICES ASSUME NEW v \in waiting', v.init PROVE connecting'[v.caller] = "initialize"
      OBVIOUS
    <2>1. v \in waiting /\ v # w /\ connecting[v.caller] = "initialize"
      BY <1>1 DEF ConnInv
    <2>2. ~(w.init /\ w.caller = v.caller)
      BY <2>1 DEF ConnInv
    <2>3. v.caller \in Callers
      BY <2>1 DEF ConnInv
    <2> QED
      BY <1>2, <2>1, <2>2, <2>3
  <1> QED
    BY <1>1, <1>2, <1>3 DEF ConnInv, OneChildServes, Kids

\* A child exits, reports its end, or is told to exit.
LEMMA ConnEnds ==
  ASSUME ConnInv, ConnClose \/ \E k \in Kids : KidExits(k) \/ KidCloses(k)
  PROVE  ConnInv'
  <1>1. PICK n \in Nat : child = n /\ kids \in [1..n -> KidStates] /\ Kids = 1..n
    BY DEF ConnInv, Kids
  <1>2. ASSUME NEW k \in 1..n, NEW new \in {"exited", "killed", "told"}, kids[k] # "closed",
               kids' = [kids EXCEPT ![k] = new], UNCHANGED <<child, exited, waiting, connecting, ids>>,
               connected' \in BOOLEAN
        PROVE  ConnInv'
    <2>1. kids' \in [1..n -> KidStates] /\ Kids' = 1..n
      BY <1>1, <1>2 DEF KidStates, Kids
    <2>2. \A x \in 1..n : kids'[x] = kids[x] \/ (x = k /\ kids'[x] \notin {"alive", "closed"})
      BY <1>1, <1>2
    <2>3. \A w \in waiting : w.kid \in 1..n /\ kids'[w.kid] # "closed"
      BY <1>1, <2>2 DEF ConnInv
    <2>4. OneChildServes' /\ (child' # 0 /\ kids'[child'] = "closed" => exited')
      BY <1>1, <1>2, <2>1, <2>2 DEF ConnInv, OneChildServes
    <2>5. \E m \in Nat : child' = m /\ kids' \in [1..m -> KidStates]
      BY <1>1, <1>2, <2>1
    <2> QED
      BY <1>2, <2>1, <2>3, <2>4, <2>5 DEF ConnInv
  <1>3. ASSUME NEW k \in Kids, KidExits(k) PROVE ConnInv'
    BY <1>1, <1>2, <1>3 DEF KidExits, ConnInv
  <1>4. ASSUME NEW k \in Kids, KidCloses(k) PROVE ConnInv'
    <2>1. /\ kids' = [kids EXCEPT ![k] = "closed"] /\ exited' = TRUE /\ waiting' = {}
          /\ connecting' = Rejected(waiting) /\ UNCHANGED <<child, connected, ids>>
      BY <1>4 DEF KidCloses
    <2>2. kids' \in [1..n -> KidStates] /\ Kids' = 1..n
          /\ \A x \in 1..n : kids'[x] = kids[x] \/ kids'[x] = "closed"
      BY <1>1, <2>1 DEF KidStates, Kids
    <2>3. connecting' \in [Callers -> {"idle", "initialize", "ok", "failed"}]
          /\ \A c \in Callers : connecting'[c] # "initialize"
      BY <2>1 DEF ConnInv, Rejected
    <2>4. OneChildServes'
      BY <1>1, <2>1, <2>2 DEF ConnInv, OneChildServes
    <2>5. \E m \in Nat : child' = m /\ kids' \in [1..m -> KidStates]
      BY <1>1, <2>1, <2>2
    <2> QED
      BY <2>1, <2>3, <2>4, <2>5 DEF ConnInv
  <1>5. CASE ConnClose
    <2>1. connected' \in BOOLEAN /\ UNCHANGED <<child, exited, waiting, connecting, ids>>
          /\ child \in 1..n
      <3>1. child # 0 /\ connected' = FALSE /\ UNCHANGED <<child, exited, waiting, connecting, ids>>
        BY <1>5 DEF ConnClose
      <3>2. child \in 1..n
        BY <1>1, <3>1
      <3> QED
        BY <3>1, <3>2
    <2>2. CASE kids' = kids
      BY <2>1, <2>2 DEF ConnInv, OneChildServes, Kids
    <2>3. CASE kids[child] = "alive" /\ kids' = [kids EXCEPT ![child] = "told"]
      BY <1>2, <2>1, <2>3
    <2> QED
      BY <1>5, <2>2, <2>3 DEF ConnClose
  <1> QED
    BY <1>3, <1>4, <1>5

\* The client's own view of its children holds throughout, for any number of callers,
\* children and requests.
LEMMA ConnInvariant == ConnSpec => []ConnInv
  <1>1. ConnInit => ConnInv
    <2> SUFFICES ASSUME ConnInit PROVE ConnInv
      OBVIOUS
    <2>1. kids \in [1..0 -> KidStates] /\ Kids = {} /\ child = 0
      BY DEF ConnInit, Kids
    <2> QED
      BY <2>1 DEF ConnInit, ConnInv, OneChildServes
  <1>2. ConnInv /\ [ConnNext]_connVars => ConnInv'
    <2>1. ConnInv /\ UNCHANGED connVars => ConnInv'
      BY DEF connVars, ConnInv, OneChildServes, Kids
    <2> QED
      BY <2>1, ConnCalls, ConnSettles, ConnEnds DEF ConnNext
  <1> QED
    BY <1>1, <1>2, PTL DEF ConnSpec

(* One child serves (app-server-client.js _spawn, _cleanupOldChild, close):   *)
(* whichever children died, were replaced or report their end late, no child  *)
(* but the current one runs without having been told to exit.                 *)
THEOREM OneChild == ConnSpec => []OneChildServes
  <1>1. ConnInv => OneChildServes
    BY DEF ConnInv
  <1> QED
    BY <1>1, ConnInvariant, PTL

(* Every call settles (app-server-client.js _failAllPending, request,         *)
(* connect): no request waits on a child whose end was reported, even that of *)
(* another child, and each connect() under way has its `initialize` request.  *)
THEOREM CallsSettle == ConnSpec => []EveryCallSettles
  <1>1. ConnInv => EveryCallSettles
    BY DEF ConnInv, EveryCallSettles
  <1> QED
    BY <1>1, ConnInvariant, PTL
=============================================================================
