-------------------------- MODULE LocalMutationProofs --------------------------
(***************************************************************************)
(* What the local mutations promise for every set of units, any number of  *)
(* writes by other programs and any number of crashes, as long as no check *)
(* runs twice at once.                                                     *)
(***************************************************************************)
EXTENDS LocalMutation, TLAPS

(* Units have ids of their own: no check of a workspace runs twice at once.   *)
UnitsApart == \A u, v \in Units : UnitId(u) = UnitId(v) => u = v

Edits == ChangeSets \cup Documents
Steps(u) ==
  CASE u \in ChangeSets -> {"check", "write", "rename", "readback", "classify"}
    [] u \in Documents -> {"prepare", "held", "staged", "confirm", "failed"}
    [] u \in FsUnits -> {"called"}
    [] OTHER -> {"running"}
AllSteps == {"idle", "check", "write", "rename", "readback", "classify", "prepare", "held",
             "staged", "confirm", "failed", "called", "running"}
Jobs == [pc : AllSteps, base : Contents, staged : BOOLEAN, mixed : BOOLEAN]
Answers == {"nothing", "applied", "unchanged", "unknown", "refused"}
OwnerRecords == [who : O!Owners, unit : {NoUnit} \cup {UnitId(u) : u \in Units},
                 st : O!UnitStates]

LocalTypes ==
  /\ file \in [{"p", "q"} -> Contents]
  /\ owner \in OwnerRecords
  /\ op \in [Units -> OpStates]
  /\ job \in [Units -> Jobs]
  /\ landed \subseteq Units /\ late \subseteq FsUnits
  /\ told \in [Units -> Answers]

Running(u) == job[u].pc \notin {"idle", "prepare"}

\* A record without an owner names no unit, and a released unit leaves no record.
OwnerFits ==
  /\ owner.who = "none" <=> owner.unit = NoUnit
  /\ owner.st # "reconciled"

\* A unit that runs was told nothing yet, and only a unit that was asked for has an effect.
Told(u) ==
  /\ job[u].pc \in {"idle"} \cup Steps(u)
  /\ job[u].pc # "idle" => told[u] = "nothing"
  /\ ~Begun(u) => u \notin landed
  /\ u \in late => job[u].pc = "idle" /\ told[u] # "nothing"

\* An edit is based on a file, a creation on the absence of one.
BaseFits(u) ==
  /\ Target(u) = "p" => IsFile(job[u].base)
  /\ Target(u) = "q" => job[u].base = "absent"
  /\ job[u].base # u

\* Steps before the rename
Before == {"check", "write", "rename", "prepare", "held", "staged"}

\* The content of a unit is where it put it; until the rename it is nowhere, and after it
\* the target does not look untouched while the unit runs.
EditFits(u) ==
  /\ op[u] # "none" \/ job[u].pc # "idle" => BaseFits(u)
  /\ file[Target(u)] = u => u \in landed
  /\ Target(u) = "q" => file["p"] # u
  /\ job[u].pc \in Before => u \notin landed
  /\ job[u].pc # "idle" /\ u \in landed => file[Target(u)] # job[u].base

ChangeSetFits(u) ==
  /\ op[u] = "previewed" => u \notin landed
  /\ op[u] = "applied" => u \in landed
  /\ job[u].pc # "idle" => op[u] \in {"applying", "recovery_required"}

\* What has to be there while the child is called: what it made, or what it will move.
FsFits(u) ==
  /\ job[u].pc = "called" /\ u \in landed => file["q"] # "absent"
  /\ UnitKind[u] = "move" /\ job[u].pc = "called" /\ u \notin landed /\ ~MadeByOthers(u)
       => file["p"] # "absent"

TellsTruth(u) ==
  /\ told[u] = "applied" => u \in landed \/ MadeByOthers(u)
  /\ told[u] \in {"unchanged", "refused"} => u \notin landed

UnitFits(u) ==
  /\ Told(u)
  /\ u \in Edits => EditFits(u)
  /\ u \in ChangeSets => ChangeSetFits(u)
  /\ u \notin ChangeSets => op[u] = "none"
  /\ u \in FsUnits => FsFits(u)
  /\ u \in Edits \cup FsUnits => TellsTruth(u)

LocalInv ==
  /\ LocalTypes /\ OwnerFits /\ ActiveHoldsOwner
  /\ \A u \in Units : UnitFits(u)

------------------------------------------------------------------------------
(* The kinds of units.                                                        *)

LEMMA Kinds ==
  ASSUME NEW u \in Units
  PROVE  /\ UnitKind[u] \in UnitKinds
         /\ u \in ChangeSets \/ u \in Documents \/ u \in FsUnits \/ u \in Verifies
              \/ u \in CodexTurns
         /\ u \in ChangeSets => u \notin Documents \cup FsUnits \cup Verifies \cup CodexTurns
         /\ u \in Documents => u \notin ChangeSets \cup FsUnits \cup Verifies \cup CodexTurns
         /\ u \in FsUnits => u \notin ChangeSets \cup Documents \cup Verifies \cup CodexTurns
         /\ Target(u) \in {"p", "q"}
         /\ UnitId(u) # NoUnit
         /\ u \notin {"absent", "dir", "v0", "ext", "mixed"}
         /\ u \in Contents
  BY LocalAssumption, ContentAssumption
  DEF UnitKinds, ChangeSets, Documents, FsUnits, Verifies, CodexTurns, Target, UnitId, Contents

LEMMA OneRuns ==
  ASSUME UnitsApart, ActiveHoldsOwner, NEW u \in Units, NEW v \in Units, Running(u), Running(v)
  PROVE  u = v
  BY DEF UnitsApart, ActiveHoldsOwner, Running

LEMMA LocalStart == LocalInit => LocalInv
  <1> SUFFICES ASSUME LocalInit PROVE LocalInv
    OBVIOUS
  <1> USE DEF LocalInit, Idle, O!Free
  <1>1. LocalTypes
    BY DEF LocalTypes, Contents, OwnerRecords, O!Owners, O!UnitStates, OpStates, Jobs, AllSteps,
           Answers
  <1>2. OwnerFits /\ ActiveHoldsOwner
    BY DEF OwnerFits, ActiveHoldsOwner
  <1>3. ASSUME NEW u \in Units PROVE UnitFits(u)
    BY <1>3, Kinds
    DEF UnitFits, Told, EditFits, ChangeSetFits, FsFits, TellsTruth, Begun, Before
  <1> QED
    BY <1>1, <1>2, <1>3 DEF LocalInv

------------------------------------------------------------------------------
(* A step of one unit that leaves the files alone: only the unit and the      *)
(* owner have to be looked at.                                                *)

OwnerStep(u) ==
  \/ owner' = owner /\ (Running(u)' => Running(u))
  \/ \E who \in {"chatgpt", "codex"} : Take(u, who)
  \/ Running(u) /\ job'[u].pc = "idle" /\ owner' \in {owner, O!Free, O!Marked(owner, "unknown")}

OwnStep(u) ==
  /\ job' = [job EXCEPT ![u] = job'[u]] /\ job'[u] \in Jobs
  /\ op' = [op EXCEPT ![u] = op'[u]] /\ op'[u] \in OpStates
  /\ told' = [told EXCEPT ![u] = told'[u]] /\ told'[u] \in Answers
  /\ file' = file /\ landed' = landed
  /\ late' \in {late, late \cup ({u} \cap FsUnits)}
  /\ OwnerStep(u)

LEMMA OwnerKept ==
  ASSUME LocalInv, UnitsApart, NEW u \in Units, OwnerStep(u),
         job' = [job EXCEPT ![u] = job'[u]]
  PROVE  owner' \in OwnerRecords /\ OwnerFits' /\ ActiveHoldsOwner'
  <1> USE DEF LocalInv, LocalTypes, Running, OwnerFits, OwnerRecords, O!Owners, O!UnitStates
  <1>0. \A v \in Units : UnitId(v) # NoUnit
    BY Kinds
  <1>j. \A v \in Units : v # u => job'[v] = job[v]
    OBVIOUS
  <1>1. CASE owner' = owner /\ (Running(u)' => Running(u))
    BY <1>1, <1>j DEF ActiveHoldsOwner
  <1>2. CASE \E who \in {"chatgpt", "codex"} : Take(u, who)
    <2> PICK who \in {"chatgpt", "codex"} : Take(u, who)
      BY <1>2
    <2>1. owner' \in OwnerRecords /\ OwnerFits'
      BY <1>0 DEF Take, O!Acquired
    <2>2. ASSUME NEW v \in Units, Running(v) PROVE v = u
      BY <2>2, <1>0 DEF Take, O!CanAcquire, ActiveHoldsOwner, UnitsApart
    <2> QED
      BY <2>1, <2>2, <1>j DEF ActiveHoldsOwner, Take, O!Acquired
  <1>3. CASE /\ Running(u) /\ job'[u].pc = "idle"
             /\ owner' \in {owner, O!Free, O!Marked(owner, "unknown")}
    <2>1. owner' \in OwnerRecords /\ OwnerFits'
      BY <1>3 DEF O!Free, O!Marked
    <2>2. \A v \in Units : ~ Running(v)'
      BY <1>3, <1>j, OneRuns
    <2> QED
      BY <2>1, <2>2 DEF ActiveHoldsOwner
  <1> QED
    BY <1>1, <1>2, <1>3 DEF OwnerStep

LEMMA OwnStepKeeps ==
  ASSUME LocalInv, UnitsApart, NEW u \in Units, OwnStep(u), UnitFits(u)'
  PROVE  LocalInv'
  <1>1. owner' \in OwnerRecords /\ OwnerFits' /\ ActiveHoldsOwner'
    BY OwnerKept DEF OwnStep
  <1>2. LocalTypes'
    BY <1>1 DEF LocalTypes, LocalInv, OwnStep
  <1>3. ASSUME NEW v \in Units, v # u PROVE UnitFits(v)'
    <2>1. /\ job'[v] = job[v] /\ op'[v] = op[v] /\ told'[v] = told[v]
          /\ file' = file /\ landed' = landed /\ (v \in late' <=> v \in late)
      BY <1>3 DEF OwnStep, LocalInv, LocalTypes
    <2>2. UnitFits(v)
      BY DEF LocalInv
    <2> QED
      BY <2>1, <2>2
      DEF UnitFits, Told, EditFits, ChangeSetFits, FsFits, TellsTruth, Begun, BaseFits
  <1> QED
    BY <1>1, <1>2, <1>3 DEF LocalInv

------------------------------------------------------------------------------
(* The steps of a change set.                                                 *)

LEMMA PcTellsKind ==
  ASSUME LocalInv, NEW u \in Units
  PROVE  /\ job[u].pc \in {"check", "write", "rename", "readback", "classify"} => u \in ChangeSets
         /\ job[u].pc \in {"prepare", "held", "staged", "confirm", "failed"} => u \in Documents
         /\ job[u].pc = "called" => u \in FsUnits
         /\ job[u].pc = "running" => u \in Verifies \cup CodexTurns
  BY Kinds DEF LocalInv, UnitFits, Told, Steps

LEMMA ReapplyIs ==
  ASSUME NEW u \in Units, job[u] \in Jobs
  PROVE  Reapply(u) = [pc |-> "idle", base |-> job[u].base, staged |-> FALSE, mixed |-> FALSE]
  <1>1. PICK j : j = [job[u] EXCEPT !.pc = "idle", !.staged = FALSE, !.mixed = FALSE]
    OBVIOUS
  <1>2. j = [pc |-> "idle", base |-> job[u].base, staged |-> FALSE, mixed |-> FALSE]
    BY <1>1 DEF Jobs
  <1> QED
    BY <1>1, <1>2, Zenon DEF Reapply

LEMMA CheckingIs ==
  ASSUME job \in [Units -> Jobs], NEW u \in Units, NEW seen \in BOOLEAN,
         job' = [job EXCEPT ![u].pc = "check", ![u].staged = seen]
  PROVE  /\ job' = [job EXCEPT ![u] = job'[u]]
         /\ job'[u] = [pc |-> "check", base |-> job[u].base, staged |-> seen,
                        mixed |-> job[u].mixed]
  BY DEF Jobs

LEMMA ChangeSetStep ==
  ASSUME LocalInv, UnitsApart, NEW u \in Units,
         \/ Preview(u) \/ ApplyBegin(u) \/ ApplyAgain(u) \/ ApplyCheck(u)
         \/ ApplyWriteTemp(u) \/ ApplyReadback(u) \/ ApplyClassify(u)
  PROVE  LocalInv'
  <1>1. /\ u \in ChangeSets /\ u \in Edits /\ u \notin Documents /\ u \notin FsUnits
        /\ UnitKind[u] \in {"edit", "create"}
        /\ Target(u) = (IF UnitKind[u] = "edit" THEN "p" ELSE "q")
        /\ Steps(u) = {"check", "write", "rename", "readback", "classify"}
    BY PcTellsKind, Kinds
    DEF Preview, ApplyBegin, ApplyAgain, ApplyCheck, ApplyWriteTemp, ApplyReadback,
        ApplyClassify, Steps, ChangeSets, Edits, Target
  <1>2. /\ file \in [{"p", "q"} -> Contents] /\ job \in [Units -> Jobs] /\ op \in [Units -> OpStates]
        /\ told \in [Units -> Answers] /\ late \subseteq FsUnits
    BY DEF LocalInv, LocalTypes
  <1>3. UnitFits(u)
    BY DEF LocalInv
  <1>4. u \notin {"absent", "dir"}
    BY Kinds
  <1> USE <1>1, <1>2, <1>4
  <1> USE DEF OwnStep, OwnerStep, Running, Jobs, AllSteps, OpStates, Answers
  <1>5. CASE Preview(u)
    <2>1. OwnStep(u)
      BY <1>5 DEF Preview, Contents
    <2>2. UnitFits(u)'
      BY <1>5, <1>3 DEF Preview, UnitFits, Told, EditFits, ChangeSetFits, TellsTruth, BaseFits,
         New, Begun, Before, IsFile
    <2> QED
      BY <2>1, <2>2, OwnStepKeeps
  <1>6. CASE ApplyBegin(u)
    <2>1. PICK seen \in BOOLEAN :
                 job' = [job EXCEPT ![u].pc = "check", ![u].staged = seen]
      BY <1>6, Zenon DEF ApplyBegin
    <2>2. /\ job' = [job EXCEPT ![u] = job'[u]]
          /\ job'[u] = [pc |-> "check", base |-> job[u].base, staged |-> seen,
                        mixed |-> job[u].mixed]
      BY <2>1, CheckingIs
    <2>3. OwnStep(u)
      BY <1>6, <2>1, <2>2 DEF ApplyBegin, Tell
    <2>4. UnitFits(u)'
      BY <1>6, <1>3, <2>2 DEF ApplyBegin, Tell, UnitFits, Told, EditFits, ChangeSetFits,
         TellsTruth, BaseFits, Begun, Before
    <2> QED
      BY <2>3, <2>4, OwnStepKeeps
  <1>7. CASE ApplyAgain(u)
    <2>1. OwnStep(u)
      BY <1>7 DEF ApplyAgain
    <2>2. UnitFits(u)'
      BY <1>7, <1>3 DEF ApplyAgain, UnitFits, Told, EditFits, ChangeSetFits, TellsTruth,
         BaseFits, Begun, Before
    <2> QED
      BY <2>1, <2>2, OwnStepKeeps
  <1> DEFINE again == [pc |-> "idle", base |-> job[u].base, staged |-> FALSE, mixed |-> FALSE]
  <1>a. again \in Jobs /\ again.pc = "idle" /\ again.base = job[u].base /\ Reapply(u) = again
    BY ReapplyIs
  <1> HIDE DEF again
  <1>8. CASE ApplyCheck(u)
    <2>1. CASE job' = [job EXCEPT ![u] = again] /\ op' = [op EXCEPT ![u] = "previewed"]
               /\ owner' = O!Free /\ told' = [told EXCEPT ![u] = "refused"]
      <3>1. OwnStep(u)
        BY <1>8, <1>a, <2>1 DEF ApplyCheck
      <3>2. job'[u].pc = "idle" /\ job'[u].base = job[u].base /\ op'[u] = "previewed"
            /\ told'[u] = "refused" /\ job[u].pc = "check"
            /\ UNCHANGED <<file, landed, late>>
        BY <1>8, <1>a, <2>1 DEF ApplyCheck
      <3>3. UnitFits(u)'
        BY <1>3, <3>2 DEF UnitFits, Told, EditFits,
           ChangeSetFits, TellsTruth, BaseFits, Begun, Before
      <3> QED
        BY <3>1, <3>3, OwnStepKeeps
    <2>2. CASE job' = [job EXCEPT ![u].pc = "write"] /\ UNCHANGED <<op, owner, told>>
      <3>1. OwnStep(u)
        BY <1>8, <2>2 DEF ApplyCheck
      <3>2. UnitFits(u)'
        BY <1>8, <1>3, <2>2 DEF ApplyCheck, UnitFits, Told, EditFits,
           ChangeSetFits, TellsTruth, BaseFits, Begun, Before
      <3> QED
        BY <3>1, <3>2, OwnStepKeeps
    <2> QED
      BY <1>8, <1>a, <2>1, <2>2 DEF ApplyCheck, ReleaseReconciled, Tell, Goto
  <1>9. CASE ApplyWriteTemp(u)
    <2>1. OwnStep(u)
      BY <1>9 DEF ApplyWriteTemp, Goto
    <2>2. UnitFits(u)'
      BY <1>9, <1>3 DEF ApplyWriteTemp, Goto, UnitFits, Told, EditFits, ChangeSetFits,
         TellsTruth, BaseFits, Begun, Before
    <2> QED
      BY <2>1, <2>2, OwnStepKeeps
  <1>10. CASE ApplyReadback(u)
    <2>1. CASE /\ file[Target(u)] = u
               /\ job' = [job EXCEPT ![u] = again] /\ op' = [op EXCEPT ![u] = "applied"]
               /\ owner' = O!Free /\ told' = [told EXCEPT ![u] = "applied"]
      <3>1. OwnStep(u)
        BY <1>10, <1>a, <2>1 DEF ApplyReadback
      <3>2. job'[u].pc = "idle" /\ job'[u].base = job[u].base /\ op'[u] = "applied"
            /\ told'[u] = "applied" /\ job[u].pc = "readback"
            /\ UNCHANGED <<file, landed, late>>
        BY <1>10, <1>a, <2>1 DEF ApplyReadback
      <3>3. UnitFits(u)'
        BY <1>3, <2>1, <3>2 DEF UnitFits, Told, EditFits,
           ChangeSetFits, TellsTruth, BaseFits, Begun, Before
      <3> QED
        BY <3>1, <3>3, OwnStepKeeps
    <2>2. CASE /\ op' = [op EXCEPT ![u] = "recovery_required"]
               /\ job' = [job EXCEPT ![u].pc = "classify"] /\ UNCHANGED <<owner, told>>
      <3>1. OwnStep(u)
        BY <1>10, <2>2 DEF ApplyReadback
      <3>2. UnitFits(u)'
        BY <1>10, <1>3, <2>2 DEF ApplyReadback, UnitFits, Told, EditFits,
           ChangeSetFits, TellsTruth, BaseFits, Begun, Before
      <3> QED
        BY <3>1, <3>2, OwnStepKeeps
    <2> QED
      BY <1>10, <1>a, <2>1, <2>2 DEF ApplyReadback, ReleaseReconciled, Tell, Goto
  <1>11. CASE ApplyClassify(u)
    <2>1. job' = [job EXCEPT ![u] = again]
      BY <1>11, <1>a DEF ApplyClassify
    <2>2. OwnStep(u)
      BY <1>11, <1>a, <2>1 DEF ApplyClassify, Tell, ReleaseReconciled, MarkUnknown
    <2>3. job'[u].pc = "idle" /\ job'[u].base = job[u].base /\ job[u].pc = "classify"
          /\ UNCHANGED <<file, landed, late>>
      BY <1>11, <1>a, <2>1 DEF ApplyClassify
    <2>4. \/ file[Target(u)] = u /\ op'[u] = "applied" /\ told'[u] = "applied"
          \/ file[Target(u)] = job[u].base /\ op'[u] = "previewed" /\ told'[u] = "unchanged"
          \/ op'[u] = "recovery_required" /\ told'[u] = "unknown"
      BY <1>11 DEF ApplyClassify, LooksDone, Tell
    <2>5. UnitFits(u)'
      BY <1>3, <2>3, <2>4 DEF UnitFits, Told, EditFits,
         ChangeSetFits, TellsTruth, BaseFits, Begun, Before
    <2> QED
      BY <2>2, <2>5, OwnStepKeeps
  <1> QED
    BY <1>5, <1>6, <1>7, <1>8, <1>9, <1>10, <1>11

------------------------------------------------------------------------------
(* The steps of a document edit, a directory or move, a check and a turn.     *)

LEMMA IdleIs == Idle \in Jobs /\ Idle.pc = "idle"
  BY DEF Idle, Jobs, AllSteps, Contents

LEMMA PreparingIs ==
  ASSUME job \in [Units -> Jobs], NEW u \in Units, NEW b \in Contents,
         job' = [job EXCEPT ![u].pc = "prepare", ![u].base = b]
  PROVE  /\ job' = [job EXCEPT ![u] = job'[u]] /\ job'[u] \in Jobs
         /\ job'[u].pc = "prepare" /\ job'[u].base = b
  BY DEF Jobs, AllSteps

LEMMA DocumentStep ==
  ASSUME LocalInv, UnitsApart, NEW u \in Units,
         \/ DocBegin(u) \/ DocAcquire(u) \/ DocStage(u) \/ DocConfirm(u) \/ DocReconcile(u)
  PROVE  LocalInv'
  <1>1. /\ u \in Documents /\ u \in Edits /\ u \notin ChangeSets /\ u \notin FsUnits
        /\ UnitKind[u] \in {"doc", "docnew"}
        /\ Target(u) = (IF UnitKind[u] = "doc" THEN "p" ELSE "q")
        /\ Steps(u) = {"prepare", "held", "staged", "confirm", "failed"}
    BY Kinds
    DEF DocBegin, DocAcquire, DocStage, DocConfirm, DocReconcile, Steps, Documents, Edits, Target
  <1>2. /\ file \in [{"p", "q"} -> Contents] /\ job \in [Units -> Jobs] /\ op \in [Units -> OpStates]
        /\ told \in [Units -> Answers] /\ late \subseteq FsUnits
    BY DEF LocalInv, LocalTypes
  <1>3. UnitFits(u)
    BY DEF LocalInv
  <1>4. u \notin {"absent", "dir"}
    BY Kinds
  <1> USE <1>1, <1>2, <1>4
  <1> USE DEF OwnStep, OwnerStep, Running, Jobs, AllSteps, OpStates, Answers
  <1>5. CASE DocBegin(u)
    <2>1. /\ job' = [job EXCEPT ![u] = job'[u]] /\ job'[u] \in Jobs
          /\ job'[u].pc = "prepare" /\ job'[u].base = file[Target(u)]
      <3>1. file[Target(u)] \in Contents
        OBVIOUS
      <3> QED
        BY <1>5, <3>1, PreparingIs DEF DocBegin
    <2>2. OwnStep(u)
      BY <1>5, <2>1 DEF DocBegin
    <2>3. UnitFits(u)'
      BY <1>5, <1>3, <2>1 DEF DocBegin, UnitFits, Told, EditFits, TellsTruth, BaseFits,
         New, Begun, Before, IsFile
    <2> QED
      BY <2>2, <2>3, OwnStepKeeps
  <1>6. CASE DocAcquire(u)
    <2>1. CASE Finish(u) /\ Tell(u, "refused") /\ UNCHANGED owner
      <3>1. OwnStep(u)
        BY <1>6, <2>1, IdleIs DEF DocAcquire, Finish, Tell
      <3>2. job'[u].pc = "idle" /\ told'[u] = "refused" /\ job[u].pc = "prepare"
            /\ UNCHANGED <<file, landed, late, op>>
        BY <1>6, <2>1, IdleIs DEF DocAcquire, Finish, Tell
      <3>3. UnitFits(u)'
        BY <1>3, <3>2 DEF UnitFits, Told, EditFits, TellsTruth, BaseFits, Begun, Before
      <3> QED
        BY <3>1, <3>3, OwnStepKeeps
    <2>2. CASE /\ Take(u, "chatgpt")
               /\ Goto(u, IF file[Target(u)] = job[u].base THEN "held" ELSE "failed")
               /\ UNCHANGED told
      <3>1. OwnStep(u)
        BY <1>6, <2>2 DEF DocAcquire, Goto
      <3>2. job'[u].pc \in {"held", "failed"} /\ job'[u].base = job[u].base
            /\ job[u].pc = "prepare" /\ UNCHANGED <<file, landed, late, op, told>>
        BY <1>6, <2>2 DEF DocAcquire, Goto
      <3>3. UnitFits(u)'
        BY <1>3, <3>2 DEF UnitFits, Told, EditFits, TellsTruth, BaseFits, Begun, Before
      <3> QED
        BY <3>1, <3>3, OwnStepKeeps
    <2> QED
      BY <1>6, <2>1, <2>2 DEF DocAcquire
  <1>7. CASE DocStage(u)
    <2>1. /\ job' = [job EXCEPT ![u] = job'[u]] /\ job'[u] \in Jobs
          /\ job'[u].pc \in {"staged", "failed"} /\ job'[u].base = job[u].base
      BY <1>7 DEF DocStage, Goto
    <2>2. OwnStep(u)
      BY <1>7, <2>1 DEF DocStage
    <2>3. UnitFits(u)'
      BY <1>7, <1>3, <2>1 DEF DocStage, UnitFits, Told, EditFits, TellsTruth, BaseFits,
         Begun, Before
    <2> QED
      BY <2>2, <2>3, OwnStepKeeps
  <1>8. CASE DocConfirm(u)
    <2>1. CASE file[Target(u)] = u /\ ReleaseReconciled /\ Finish(u) /\ Tell(u, "applied")
      <3>1. OwnStep(u)
        BY <1>8, <2>1, IdleIs DEF DocConfirm, Finish, Tell, ReleaseReconciled
      <3>2. job'[u].pc = "idle" /\ told'[u] = "applied" /\ job[u].pc = "confirm"
            /\ UNCHANGED <<file, landed, late, op>>
        BY <1>8, <2>1, IdleIs DEF DocConfirm, Finish, Tell
      <3>3. UnitFits(u)'
        BY <1>3, <2>1, <3>2 DEF UnitFits, Told, EditFits, TellsTruth, BaseFits, Begun, Before
      <3> QED
        BY <3>1, <3>3, OwnStepKeeps
    <2>2. CASE Goto(u, "failed") /\ UNCHANGED <<owner, told>>
      <3>1. OwnStep(u)
        BY <1>8, <2>2 DEF DocConfirm, Goto
      <3>2. UnitFits(u)'
        BY <1>8, <1>3, <2>2 DEF DocConfirm, Goto, UnitFits, Told, EditFits, TellsTruth, BaseFits,
           Begun, Before
      <3> QED
        BY <3>1, <3>2, OwnStepKeeps
    <2> QED
      BY <1>8, <2>1, <2>2 DEF DocConfirm
  <1>9. CASE DocReconcile(u)
    <2>1. OwnStep(u)
      BY <1>9, IdleIs DEF DocReconcile, Finish, Tell, ReleaseReconciled, MarkUnknown
    <2>2. job'[u].pc = "idle" /\ job[u].pc = "failed" /\ UNCHANGED <<file, landed, late, op>>
      BY <1>9, IdleIs DEF DocReconcile, Finish
    <2>3. \/ file[Target(u)] = u /\ told'[u] = "applied"
          \/ file[Target(u)] = job[u].base /\ told'[u] = "unchanged"
          \/ told'[u] = "unknown"
      BY <1>9 DEF DocReconcile, LooksDone, Tell
    <2>4. UnitFits(u)'
      BY <1>3, <2>2, <2>3 DEF UnitFits, Told, EditFits, TellsTruth, BaseFits, Begun, Before
    <2> QED
      BY <2>1, <2>4, OwnStepKeeps
  <1> QED
    BY <1>5, <1>6, <1>7, <1>8, <1>9

LEMMA FsStep ==
  ASSUME LocalInv, UnitsApart, NEW u \in Units, FsDispatch(u) \/ FsReturn(u) \/ FsFail(u)
  PROVE  LocalInv'
  <1>1. /\ u \in FsUnits /\ u \notin Edits /\ u \notin ChangeSets
        /\ UnitKind[u] \in {"mkdir", "move"} /\ Steps(u) = {"called"}
    BY Kinds DEF FsDispatch, FsReturn, FsFail, Steps, FsUnits, Edits
  <1>2. /\ file \in [{"p", "q"} -> Contents] /\ job \in [Units -> Jobs] /\ op \in [Units -> OpStates]
        /\ told \in [Units -> Answers] /\ late \subseteq FsUnits
    BY DEF LocalInv, LocalTypes
  <1>3. UnitFits(u)
    BY DEF LocalInv
  <1> USE <1>1, <1>2
  <1> USE DEF OwnStep, OwnerStep, Running, Jobs, AllSteps, OpStates, Answers
  <1>4. CASE FsDispatch(u)
    <2>1. /\ job' = [job EXCEPT ![u] = job'[u]] /\ job'[u] \in Jobs /\ job'[u].pc = "called"
      BY ZenonT(60), <1>4 DEF FsDispatch
    <2>2. OwnStep(u)
      BY <1>4, <2>1 DEF FsDispatch
    <2>3. UnitFits(u)'
      BY <1>4, <1>3, <2>1 DEF FsDispatch, FsReady, New, Begun, UnitFits, Told, FsFits, TellsTruth
    <2> QED
      BY <2>2, <2>3, OwnStepKeeps
  <1>5. ASSUME NEW out \in {"applied", "unchanged", "unknown"}, FsSettle(u, out),
               job[u].pc = "called", out = "applied" => u \in landed \/ MadeByOthers(u),
               out = "unchanged" => u \notin landed,
               UNCHANGED <<file, op, landed, outside, crashes>>,
               late' \in {late, late \cup {u}}
        PROVE  LocalInv'
    <2>1. job'[u].pc = "idle" /\ told'[u] = out
      BY <1>5, IdleIs DEF FsSettle, Finish, Tell
    <2>2. OwnStep(u)
      BY <1>5, IdleIs DEF FsSettle, Finish, Tell, ReleaseReconciled, MarkUnknown
    <2>3. UnitFits(u)'
      BY <1>5, <1>3, <2>1 DEF UnitFits, Told, FsFits, TellsTruth, Begun
    <2> QED
      BY <2>2, <2>3, OwnStepKeeps
  <1>6. ASSUME job[u].pc = "called"
        PROVE  /\ FsOutcome(u) \in {"applied", "unchanged", "unknown"}
               /\ FsOutcome(u) = "applied" => u \in landed \/ MadeByOthers(u)
               /\ FsOutcome(u) = "unchanged" => u \notin landed
    BY <1>6, <1>3 DEF FsOutcome, UnitFits, FsFits, MadeByOthers
  <1>7. CASE FsReturn(u)
    <2>1. PICK out \in {"applied", "unchanged", "unknown"} :
            FsSettle(u, out) /\ (out # "applied" => out = FsOutcome(u))
      BY <1>6, <1>7 DEF FsReturn
    <2> QED
      BY <1>5, <1>6, <1>7, <2>1 DEF FsReturn
  <1>8. CASE FsFail(u)
    <2>1. CASE u \notin landed /\ FsSettle(u, "unchanged") /\ UNCHANGED late
      BY <1>5, <1>8, <2>1 DEF FsFail
    <2>2. CASE /\ FsSettle(u, FsOutcome(u))
               /\ late' = IF u \in landed THEN late ELSE late \cup {u}
      BY <1>5, <1>6, <1>8, <2>2 DEF FsFail
    <2> QED
      BY <1>8, <2>1, <2>2 DEF FsFail
  <1> QED
    BY <1>4, <1>7, <1>8

LEMMA RunStep ==
  ASSUME LocalInv, UnitsApart, NEW u \in Units,
         VerifyStart(u) \/ CodexStart(u) \/ VerifyEnd(u) \/ CodexEnd(u)
  PROVE  LocalInv'
  <1>1. /\ u \in Verifies \cup CodexTurns /\ u \notin Edits /\ u \notin ChangeSets
        /\ u \notin FsUnits /\ Steps(u) = {"running"}
    BY Kinds DEF VerifyStart, CodexStart, VerifyEnd, CodexEnd, Steps, Edits
  <1>2. /\ file \in [{"p", "q"} -> Contents] /\ job \in [Units -> Jobs] /\ op \in [Units -> OpStates]
        /\ told \in [Units -> Answers] /\ late \subseteq FsUnits
    BY DEF LocalInv, LocalTypes
  <1>3. UnitFits(u)
    BY DEF LocalInv
  <1> USE <1>1, <1>2
  <1> USE DEF OwnStep, OwnerStep, Running, Jobs, AllSteps, OpStates, Answers
  <1>4. CASE VerifyStart(u) \/ CodexStart(u)
    <2>1. /\ job' = [job EXCEPT ![u] = job'[u]] /\ job'[u] \in Jobs /\ job'[u].pc = "running"
      BY <1>4 DEF VerifyStart, CodexStart, Goto
    <2>2. OwnStep(u)
      BY <1>4, <2>1 DEF VerifyStart, CodexStart
    <2>3. UnitFits(u)'
      BY <1>4, <1>3, <2>1 DEF VerifyStart, CodexStart, New, Begun, UnitFits, Told
    <2> QED
      BY <2>2, <2>3, OwnStepKeeps
  <1>5. CASE VerifyEnd(u) \/ CodexEnd(u)
    <2>1. OwnStep(u)
      BY <1>5, IdleIs DEF VerifyEnd, CodexEnd, Finish, Tell, ReleaseReconciled, MarkUnknown,
         O!ReleasedBy
    <2>2. job'[u].pc = "idle" /\ told'[u] # "nothing" /\ UNCHANGED <<landed, late, op>>
      BY <1>5, IdleIs DEF VerifyEnd, CodexEnd, Finish, Tell
    <2>3. UnitFits(u)'
      BY <1>3, <2>2 DEF UnitFits, Told, Begun
    <2> QED
      BY <2>1, <2>3, OwnStepKeeps
  <1> QED
    BY <1>4, <1>5

------------------------------------------------------------------------------
(* The steps that reach the files.                                            *)

LEMMA Landing ==
  ASSUME LocalInv, UnitsApart, NEW u \in Units,
         ApplyRename(u) \/ DocInstall(u) \/ FsLand(u) \/ RunningWrites(u)
  PROVE  LocalInv'
  <1>1. /\ file \in [{"p", "q"} -> Contents] /\ job \in [Units -> Jobs] /\ op \in [Units -> OpStates]
        /\ told \in [Units -> Answers] /\ late \subseteq FsUnits /\ landed \subseteq Units
        /\ owner \in OwnerRecords
    BY DEF LocalInv, LocalTypes
  <1>2. Running(u)
    BY DEF ApplyRename, DocInstall, FsLand, RunningWrites, Running
  <1>3. /\ job' = [job EXCEPT ![u] = job'[u]] /\ job'[u] \in Jobs /\ Running(u)'
        /\ job'[u].base = job[u].base
        /\ UNCHANGED <<owner, op, told, late>>
    BY <1>1 DEF ApplyRename, DocInstall, FsLand, RunningWrites, Goto, Running, Jobs, AllSteps
  <1>4. landed' \in {landed, landed \cup {u}}
    BY DEF ApplyRename, DocInstall, FsLand, RunningWrites, Install
  <1>5. ASSUME NEW v \in Units, v # u
        PROVE  job'[v] = job[v] /\ job[v].pc \in {"idle", "prepare"}
    BY <1>1, <1>2, <1>3, <1>5, OneRuns DEF LocalInv, Running
  \* Nothing another unit put somewhere comes from this step.
  <1>6. ASSUME file' \in [{"p", "q"} -> Contents],
               \A v \in Edits : v # u =>
                 /\ file'[Target(v)] = v => v \in landed
                 /\ Target(v) = "q" => file'["p"] # v,
               UnitFits(u)'
        PROVE  LocalInv'
    <2>1. LocalTypes'
      BY <1>1, <1>3, <1>4, <1>6 DEF LocalTypes
    <2>2. OwnerFits' /\ ActiveHoldsOwner'
      BY <1>2, <1>3, <1>5 DEF LocalInv, OwnerFits, ActiveHoldsOwner, Running
    <2>3. ASSUME NEW v \in Units, v # u PROVE UnitFits(v)'
      <3>1. UnitFits(v)
        BY DEF LocalInv
      <3>2. /\ job'[v] = job[v] /\ job[v].pc \in {"idle", "prepare"} /\ op'[v] = op[v]
            /\ told'[v] = told[v] /\ late' = late /\ (v \in landed' <=> v \in landed)
        BY <1>3, <1>4, <1>5, <2>3
      <3> QED
        BY <1>6, <2>3, <3>1, <3>2
        DEF UnitFits, Told, EditFits, ChangeSetFits, FsFits, TellsTruth, Begun, BaseFits, Before
    <2> QED
      BY <1>6, <2>1, <2>2, <2>3 DEF LocalInv
  <1>7. UnitFits(u)
    BY DEF LocalInv
  <1>8. \A v \in Edits : /\ v \in Units /\ v \in Contents /\ Target(v) \in {"p", "q"}
                         /\ v \notin {"absent", "dir", "mixed"}
                         /\ file[Target(v)] = v => v \in landed
                         /\ Target(v) = "q" => file["p"] # v
    BY Kinds DEF Edits, ChangeSets, Documents, LocalInv, UnitFits, EditFits
  <1>9. CASE ApplyRename(u) \/ DocInstall(u)
    <2>1. u \in Edits /\ u \notin FsUnits /\ (u \in Documents => u \notin ChangeSets)
      BY <1>9, PcTellsKind, Kinds DEF ApplyRename, DocInstall, Edits
    <2>2. /\ job[u].pc \in {"rename", "staged"} /\ u \notin landed
          /\ job'[u].pc \in Steps(u) \ Before
      <3>1. CASE ApplyRename(u)
        <4>1. u \in ChangeSets /\ job[u].pc = "rename" /\ u \notin landed
          BY <1>7, <2>1, <3>1, PcTellsKind DEF ApplyRename, UnitFits, EditFits, Before
        <4>2. job'[u].pc \in {"readback", "classify"}
          <5>1. Goto(u, "readback") \/ Goto(u, "classify")
            BY <3>1, Zenon DEF ApplyRename
          <5> QED
            BY <1>1, <5>1 DEF Goto, Jobs
        <4> QED
          BY <4>1, <4>2, Kinds DEF Steps, Before
      <3>2. CASE DocInstall(u)
        <4>1. u \in Documents /\ job[u].pc = "staged" /\ u \notin landed
          BY <1>7, <2>1, <3>2 DEF DocInstall, UnitFits, EditFits, Before
        <4>2. job'[u].pc \in {"confirm", "failed"}
          <5>1. Goto(u, "confirm") \/ Goto(u, "failed")
            BY <3>2, Zenon DEF DocInstall
          <5> QED
            BY <1>1, <5>1 DEF Goto, Jobs
        <4> QED
          BY <2>1, <4>1, <4>2 DEF Steps, Before
      <3> QED
        BY <1>9, <3>1, <3>2
    <2>3. CASE UNCHANGED <<file, landed>>
      <3>1. UnitFits(u)'
        BY <1>3, <1>7, <2>1, <2>2, <2>3
        DEF UnitFits, Told, EditFits, ChangeSetFits, TellsTruth, Begun, BaseFits, Before, Steps
      <3> QED
        BY <1>1, <1>6, <1>8, <2>3, <3>1
    <2>4. CASE \E c \in {u, "mixed"} : Install(u, Target(u), c)
      <3> PICK c \in {u, "mixed"} : Install(u, Target(u), c)
        BY <2>4
      <3>1. /\ file' = [file EXCEPT ![Target(u)] = c] /\ c \in Contents
            /\ Target(u) \in {"p", "q"} /\ (u \in landed' <=> c # job[u].base)
        BY <1>4, <2>2, Kinds DEF Install, Contents
      <3>2. UnitFits(u)'
        BY <1>1, <1>3, <1>7, <1>8, <2>1, <2>2, <3>1
        DEF UnitFits, Told, EditFits, ChangeSetFits, TellsTruth, Begun, BaseFits, Before, Steps
      <3> QED
        BY <1>1, <1>6, <1>8, <3>1, <3>2
    <2> QED
      BY <1>9, <2>3, <2>4 DEF ApplyRename, DocInstall
  <1>10. CASE FsLand(u)
    <2>1. u \in FsUnits /\ u \notin Edits /\ u \notin ChangeSets
      BY <1>10, Kinds DEF FsLand, Edits
    <2>2. /\ file' \in [{"p", "q"} -> Contents] /\ file'["q"] # "absent"
          /\ \/ file'["p"] = file["p"] /\ file'["q"] = "dir"
             \/ file'["p"] = "absent" /\ file'["q"] = file["p"]
      BY <1>1, <1>10 DEF FsLand, FsEffect, Contents
    <2>3. UnitFits(u)'
      BY <1>3, <1>7, <1>10, <2>1, <2>2 DEF FsLand, UnitFits, Told, FsFits, TellsTruth, Begun
    <2>4. \A v \in Edits : Target(v) = "p" \/ Target(v) = "q"
      BY <1>8
    <2> QED
      BY <1>6, <1>8, <2>2, <2>3, <2>4
  <1>11. CASE RunningWrites(u)
    <2>1. u \notin Edits /\ u \notin ChangeSets /\ u \notin FsUnits
      BY <1>11, PcTellsKind, Kinds DEF RunningWrites, Edits
    <2>2. file' = [file EXCEPT !["p"] = u] /\ u \in Contents
      BY <1>11, Kinds DEF RunningWrites, Install
    <2>3. UnitFits(u)'
      BY <1>3, <1>7, <1>11, <2>1 DEF RunningWrites, UnitFits, Told, Begun
    <2> QED
      BY <1>1, <1>6, <1>8, <2>2, <2>3
  <1> QED
    BY <1>9, <1>10, <1>11

LEMMA LateStep ==
  ASSUME LocalInv, NEW u \in Units, FsLateEffect(u)
  PROVE  LocalInv'
  <1>1. /\ file \in [{"p", "q"} -> Contents] /\ late' \subseteq late
        /\ UNCHANGED <<owner, op, job, landed, told>>
        /\ u \in FsUnits /\ u \in late
    BY DEF LocalInv, LocalTypes, FsLateEffect
  <1>2. /\ file' \in [{"p", "q"} -> Contents] /\ file'["q"] # "absent"
        /\ \/ file'["p"] = file["p"] /\ file'["q"] = "dir" /\ file["q"] \in {"absent", "dir"}
           \/ /\ file'["p"] = "absent" /\ file'["q"] = file["p"] /\ file["p"] # "absent"
              /\ UnitKind[u] = "move"
    BY <1>1, LocalAssumption DEF FsLateEffect, FsEffect, FsUnits, Contents
  <1>3. LocalTypes' /\ OwnerFits' /\ ActiveHoldsOwner'
    BY <1>1, <1>2 DEF LocalInv, LocalTypes, OwnerFits, ActiveHoldsOwner
  <1>4. ASSUME NEW v \in Units PROVE UnitFits(v)'
    <2>1. /\ Target(v) \in {"p", "q"} /\ v \notin {"absent", "dir"} /\ UnitFits(v)
      BY Kinds DEF LocalInv
    <2>2. job[u].pc = "idle"
      BY <1>1 DEF LocalInv, UnitFits, Told
    <2>3. v \in Edits => EditFits(v)'
      BY <1>1, <1>2, <2>1 DEF UnitFits, EditFits, BaseFits, IsFile
    <2>4. v \in FsUnits => FsFits(v)'
      BY <1>1, <1>2, <2>1, <2>2 DEF UnitFits, FsFits, MadeByOthers
    <2> QED
      BY <1>1, <2>1, <2>3, <2>4
      DEF UnitFits, Told, ChangeSetFits, TellsTruth, Begun
  <1> QED
    BY <1>3, <1>4 DEF LocalInv

LEMMA OutsideStep ==
  ASSUME LocalInv, NEW x \in {"p", "q"}, OutsideWrite(x)
  PROVE  LocalInv'
  <1>1. /\ file \in [{"p", "q"} -> Contents] /\ file' = [file EXCEPT ![x] = "ext"]
        /\ UNCHANGED <<owner, op, job, told, late>>
        /\ landed' = landed \ {u \in Edits : job[u].pc # "idle" /\ Target(u) = x
                                             /\ job[u].base = "ext"}
        /\ landed \subseteq Units
    BY DEF LocalInv, LocalTypes, OutsideWrite, Edits
  <1>2. LocalTypes' /\ OwnerFits' /\ ActiveHoldsOwner'
    BY <1>1 DEF LocalInv, LocalTypes, OwnerFits, ActiveHoldsOwner, Contents
  <1>3. ASSUME NEW v \in Units PROVE UnitFits(v)'
    <2>1. /\ Target(v) \in {"p", "q"} /\ v # "ext" /\ UnitFits(v)
          /\ (v \in FsUnits => v \notin Edits)
      BY Kinds DEF LocalInv, Edits
    <2>2. v \in landed' => v \in landed
      BY <1>1
    <2>3. job[v].pc = "idle" => (v \in landed' <=> v \in landed)
      BY <1>1
    <2>4. v \in Edits => EditFits(v)'
      BY <1>1, <2>1, <2>2, <2>3 DEF UnitFits, EditFits, BaseFits
    <2>5. v \in FsUnits => FsFits(v)'
      BY <1>1, <2>1 DEF UnitFits, FsFits
    <2>6. v \in ChangeSets => ChangeSetFits(v)'
      BY <1>1, <2>1, <2>2, <2>3 DEF UnitFits, ChangeSetFits
    <2>7. v \in Edits \cup FsUnits => TellsTruth(v)'
      BY <1>1, <2>1, <2>2, <2>3 DEF UnitFits, TellsTruth, Told
    <2> QED
      BY <1>1, <2>1, <2>2, <2>4, <2>5, <2>6, <2>7 DEF UnitFits, Told, Begun
  <1> QED
    BY <1>2, <1>3 DEF LocalInv

LEMMA CrashStep ==
  ASSUME LocalInv, Crash
  PROVE  LocalInv'
  <1>1. /\ job \in [Units -> Jobs] /\ told \in [Units -> Answers] /\ UNCHANGED <<file, op, landed, late>>
    BY DEF LocalInv, LocalTypes, Crash
  <1>2. \A u \in Units : /\ job'[u] \in Jobs /\ job'[u].pc = "idle"
                         /\ u \in ChangeSets => job'[u].base = job[u].base
    <2> TAKE u \in Units
    <2>1. job'[u] = IF u \in ChangeSets THEN Reapply(u) ELSE Idle
      BY DEF Crash
    <2>2. job[u] \in Jobs
      BY <1>1
    <2>3. CASE u \in ChangeSets
      <3>1. job'[u] = [pc |-> "idle", base |-> job[u].base, staged |-> FALSE, mixed |-> FALSE]
        BY <2>1, <2>2, <2>3, ReapplyIs
      <3> QED
        BY <2>2, <3>1 DEF Jobs, AllSteps
    <2>4. CASE u \notin ChangeSets
      BY <2>1, <2>4, IdleIs
    <2> QED
      BY <2>3, <2>4
  <1>3. LocalTypes' /\ OwnerFits' /\ ActiveHoldsOwner'
    <2>1. job' \in [Units -> Jobs]
      BY <1>2 DEF Crash
    <2>2. told' \in [Units -> Answers]
      BY <1>1 DEF Crash, Answers
    <2>3. owner' \in OwnerRecords /\ OwnerFits'
      BY DEF Crash, OwnerRecords, OwnerFits, O!Free, O!Owners, O!UnitStates
    <2> QED
      BY <1>1, <1>2, <2>1, <2>2, <2>3 DEF LocalInv, LocalTypes, ActiveHoldsOwner
  <1>4. ASSUME NEW v \in Units PROVE UnitFits(v)'
    <2>1. /\ UnitFits(v) /\ (v \in Documents => v \notin ChangeSets)
      BY Kinds DEF LocalInv
    <2>2. told'[v] = IF job[v].pc = "idle" THEN told[v] ELSE "unknown"
      BY DEF Crash
    <2> QED
      BY <1>1, <1>2, <2>1, <2>2
      DEF UnitFits, Told, EditFits, ChangeSetFits, FsFits, TellsTruth, BaseFits, Begun, Before, Edits
  <1> QED
    BY <1>3, <1>4 DEF LocalInv

------------------------------------------------------------------------------
LEMMA LocalStep == LocalInv /\ UnitsApart /\ [LocalNext]_localVars => LocalInv'
  <1> SUFFICES ASSUME LocalInv, UnitsApart, [LocalNext]_localVars
               PROVE  LocalInv'
    OBVIOUS
  <1>1. CASE UNCHANGED localVars
    BY <1>1
    DEF localVars, LocalInv, LocalTypes, OwnerFits, ActiveHoldsOwner, UnitFits, Told, EditFits,
        ChangeSetFits, FsFits, TellsTruth, Begun, BaseFits
  <1>2. ASSUME NEW u \in Units,
               \/ Preview(u) \/ ApplyBegin(u) \/ ApplyAgain(u) \/ ApplyCheck(u)
               \/ ApplyWriteTemp(u) \/ ApplyRename(u) \/ ApplyReadback(u) \/ ApplyClassify(u)
        PROVE  LocalInv'
    BY <1>2, ChangeSetStep, Landing
  <1>3. ASSUME NEW u \in Units,
               \/ DocBegin(u) \/ DocAcquire(u) \/ DocStage(u) \/ DocInstall(u)
               \/ DocConfirm(u) \/ DocReconcile(u)
        PROVE  LocalInv'
    BY <1>3, DocumentStep, Landing
  <1>4. ASSUME NEW u \in Units,
               FsDispatch(u) \/ FsLand(u) \/ FsReturn(u) \/ FsFail(u) \/ FsLateEffect(u)
        PROVE  LocalInv'
    BY <1>4, FsStep, Landing, LateStep
  <1>5. ASSUME NEW u \in Units,
               \/ VerifyStart(u) \/ CodexStart(u) \/ RunningWrites(u)
               \/ VerifyEnd(u) \/ CodexEnd(u)
        PROVE  LocalInv'
    BY <1>5, RunStep, Landing
  <1> QED
    BY <1>1, <1>2, <1>3, <1>4, <1>5, OutsideStep, CrashStep DEF LocalNext

(* Every state of a host on which no check runs twice at once fits: the       *)
(* induction all the theorems below rest on.                                  *)
LEMMA LocalInvariant ==
  ASSUME UnitsApart
  PROVE  LocalSpec => []LocalInv
  <1>1. LocalInv /\ [LocalNext]_localVars => LocalInv'
    BY LocalStep
  <1> QED
    BY LocalStart, <1>1, PTL DEF LocalSpec

(* The state is well typed, with the content of every file, the owner record  *)
(* and the base of every operation (mutation-owner.js, operation-state.js).   *)
THEOREM LocalTyped ==
  ASSUME UnitsApart
  PROVE  LocalSpec => []LocalTypeOK
  <1>1. LocalInv => LocalTypeOK
    BY DEF LocalInv, LocalTypes, LocalTypeOK, OwnerRecords, Jobs, Answers
  <1> QED
    BY <1>1, LocalInvariant, PTL

(* Whoever may be writing is the owner: a unit between acquire and release    *)
(* finds the record held for itself, whatever other units, programs and       *)
(* crashes do (mutation-owner.js acquire, markUnitState, release).            *)
THEOREM ActiveUnitHolds ==
  ASSUME UnitsApart
  PROVE  LocalSpec => []ActiveHoldsOwner
  <1>1. LocalInv => ActiveHoldsOwner
    BY DEF LocalInv
  <1> QED
    BY <1>1, LocalInvariant, PTL

(* One unit is active at a time (mutation-owner.js:4), when units have ids of *)
(* their own.                                                                 *)
THEOREM OneUnitRuns ==
  ASSUME UnitsApart
  PROVE  LocalSpec => []OneUnitActive
  <1>1. LocalInv => OneUnitActive
    BY OneRuns DEF LocalInv, OneUnitActive, Running
  <1> QED
    BY <1>1, LocalInvariant, PTL

(* What the caller of a change set, a document edit, a directory or a move is *)
(* told is what happened to the files, also after an error (change-set.js     *)
(* apply, docx-mutation.js, filesystem-mutation.js).                          *)
THEOREM ToldIsTrue ==
  ASSUME UnitsApart
  PROVE  LocalSpec => []OutcomeIsTrue
  <1>1. LocalInv => OutcomeIsTrue
    BY Kinds DEF LocalInv, OutcomeIsTrue, UnitFits, TellsTruth, Edits
  <1> QED
    BY <1>1, LocalInvariant, PTL

(* The persisted status of a change set tells whether its content reached the *)
(* file, across crashes, errors and other programs (operation-state.js).      *)
THEOREM StatusTold ==
  ASSUME UnitsApart
  PROVE  LocalSpec => []StatusIsTrue
  <1>1. LocalInv => StatusIsTrue
    BY DEF LocalInv, StatusIsTrue, UnitFits, ChangeSetFits, ChangeSets
  <1> QED
    BY <1>1, LocalInvariant, PTL
==============================================================================
