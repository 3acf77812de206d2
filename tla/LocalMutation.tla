---------------------------- MODULE LocalMutation ----------------------------
(* The direct local mutations that share one mutation owner: change sets      *)
(* (local/change-set.js over state/operation-state.js), document edits        *)
(* (docx-, excel- and pdf-mutation.js), directories and moves                 *)
(* (filesystem-mutation.js over the Desktop Commander child) and verify       *)
(* checks with a workspace effect (verify.js); a Codex turn is the other      *)
(* owner.                                                                     *)
(*                                                                            *)
(* A unit is one operation, named with its content: what it installs is the   *)
(* unit itself.  p is a file that exists at first and q a name that does      *)
(* not.  Programs that never ask for ownership (an editor, a process the user *)
(* started) write "ext".  The operation state and the files survive a crash   *)
(* of the server; the owner and the running operations do not.                *)
EXTENDS Naturals, FiniteSets

CONSTANTS
  Units,
  UnitKind,      \* what each unit does
  CheckName,     \* the unit id of verify units: runs of one check share it
  NoUnit,
  MaxUnits,      \* bound: units that are asked for in one behaviour
  MaxOutside,    \* bound: writes by other programs
  MaxCrashes     \* bound: crashes of the server

UnitKinds == {"edit", "create", "doc", "docnew", "mkdir", "move", "verify", "codex"}

ASSUME LocalAssumption ==
  /\ UnitKind \in [Units -> UnitKinds]
  /\ MaxUnits \in Nat /\ MaxOutside \in Nat /\ MaxCrashes \in Nat
\* A unit is told apart from the other contents, and its id from no unit.
ASSUME ContentAssumption ==
  /\ Units \cap {"absent", "dir", "v0", "ext", "mixed"} = {}
  /\ NoUnit \notin Units /\ \A u \in Units : CheckName[u] # NoUnit

VARIABLES
  file,      \* the two paths of the workspace
  owner,     \* the MutationOwner record
  op,        \* op[u]: the persisted status of a change set
  job,       \* job[u]: the operation as the server runs it
  landed,    \* ghost: units whose effect reached the files while they ran, and was not
             \* undone while they ran by putting back what they were based on
  told,      \* ghost: told[u]: what the caller was told last
  late,      \* failed child calls that may still take effect
  outside, crashes

localVars == <<file, owner, op, job, landed, told, late, outside, crashes>>

O == INSTANCE MutationOwner

Target(u) == IF UnitKind[u] \in {"edit", "doc"} THEN "p" ELSE "q"
ChangeSets == {u \in Units : UnitKind[u] \in {"edit", "create"}}
Documents == {u \in Units : UnitKind[u] \in {"doc", "docnew"}}
FsUnits == {u \in Units : UnitKind[u] \in {"mkdir", "move"}}
Verifies == {u \in Units : UnitKind[u] = "verify"}
CodexTurns == {u \in Units : UnitKind[u] = "codex"}
UnitId(u) == IF u \in Verifies THEN CheckName[u] ELSE u

\* A new operation: a unit that was not asked for before.
Begun(u) == op[u] # "none" \/ job[u].pc # "idle" \/ told[u] # "nothing"
New(u) == ~Begun(u) /\ Cardinality({v \in Units : Begun(v)}) < MaxUnits

IsFile(c) == c \notin {"absent", "dir"}

Idle == [pc |-> "idle", base |-> "absent", staged |-> FALSE, mixed |-> FALSE]
Contents == {"absent", "dir", "v0", "ext", "mixed"} \cup Units
OpStates == {"none", "previewed", "applying", "applied", "recovery_required"}

LocalTypeOK ==
  /\ file \in [{"p", "q"} -> Contents]
  /\ owner \in [who : O!Owners, unit : {NoUnit} \cup {UnitId(u) : u \in Units}, st : O!UnitStates]
  /\ op \in [Units -> OpStates]
  /\ \A u \in Units : job[u].base \in Contents
  /\ landed \subseteq Units /\ late \subseteq FsUnits
  /\ told \in [Units -> {"nothing", "applied", "unchanged", "unknown", "refused"}]

LocalInit ==
  /\ file = [x \in {"p", "q"} |-> IF x = "p" THEN "v0" ELSE "absent"]
  /\ owner = O!Free
  /\ op = [u \in Units |-> "none"]
  /\ job = [u \in Units |-> Idle]
  /\ landed = {} /\ late = {}
  /\ told = [u \in Units |-> "nothing"]
  /\ outside = 0 /\ crashes = 0

------------------------------------------------------------------------------
Take(u, who) == O!CanAcquire(owner, who, UnitId(u)) /\ owner' = O!Acquired(who, UnitId(u))

\* markUnitState and release address the record, whoever holds it.
ReleaseReconciled == owner' = O!Free
MarkUnknown == owner' = O!Marked(owner, "unknown")

Tell(u, what) == told' = [told EXCEPT ![u] = what]
Goto(u, pc) == job' = [job EXCEPT ![u].pc = pc]
Finish(u) == job' = [job EXCEPT ![u] = Idle]
Install(u, path, c) ==
  /\ file' = [file EXCEPT ![path] = c]
  /\ landed' = IF c = job[u].base THEN landed ELSE landed \cup {u}

\* Mutant: only the name of the target is compared.
LooksDoneMutant(u, cur) == cur \notin {"absent", job[u].base}
\* The result of a failed mutation, by what the target holds now.
LooksDone(u, cur) == cur = u

------------------------------------------------------------------------------
(* Change sets.  apply is synchronous: only other programs and a crash come   *)
(* between its file-system calls.                                             *)

Preview(u) ==
  /\ u \in ChangeSets /\ New(u)
  /\ IF UnitKind[u] = "create" THEN file["q"] = "absent" ELSE IsFile(file["p"])
  /\ op' = [op EXCEPT ![u] = "previewed"]
  /\ job' = [job EXCEPT ![u].base = file[Target(u)]]
  /\ UNCHANGED <<file, owner, landed, told, late, outside, crashes>>

\* resolveWritable, the owner, the applying mark.  Whether the target of a
\* creation exists is what resolveWritable saw.
ApplyBegin(u) ==
  /\ u \in ChangeSets /\ op[u] = "previewed" /\ job[u].pc = "idle"
  /\ Take(u, "chatgpt")
  /\ op' = [op EXCEPT ![u] = "applying"]
  /\ job' = [job EXCEPT ![u].pc = "check",
       ![u].staged = UnitKind[u] = "create" /\ file[Target(u)] # "absent"]
  /\ Tell(u, "nothing")
  /\ UNCHANGED <<file, landed, late, outside, crashes>>

\* An applied change set is replayed without a write, if its content is there.
ApplyAgain(u) ==
  /\ u \in ChangeSets /\ op[u] = "applied" /\ file[Target(u)] \notin {u, "dir"}
  /\ op' = [op EXCEPT ![u] = "recovery_required"]
  /\ UNCHANGED <<file, owner, job, landed, told, late, outside, crashes>>

Reapply(u) == [job[u] EXCEPT !.pc = "idle", !.staged = FALSE, !.mixed = FALSE]

ApplyCheck(u) ==
  /\ job[u].pc = "check"
  /\ IF IF UnitKind[u] = "create" THEN job[u].staged ELSE file[Target(u)] # job[u].base
     THEN /\ op' = [op EXCEPT ![u] = "previewed"]
          /\ ReleaseReconciled /\ Tell(u, "refused")
          /\ job' = [job EXCEPT ![u] = Reapply(u)]
     ELSE Goto(u, "write") /\ UNCHANGED <<op, owner, told>>
  /\ UNCHANGED <<file, landed, late, outside, crashes>>

\* The replacements are made in the file as it is read again.
ApplyWriteTemp(u) ==
  /\ job[u].pc = "write"
  /\ \/ job' = [job EXCEPT ![u].pc = "rename", ![u].mixed =
                  UnitKind[u] = "edit" /\ file[Target(u)] # job[u].base]
     \/ Goto(u, "classify")
  /\ UNCHANGED <<file, owner, op, landed, told, late, outside, crashes>>

ApplyRename(u) ==
  /\ job[u].pc = "rename"
  /\ \/ Install(u, Target(u), IF job[u].mixed THEN "mixed" ELSE u) /\ Goto(u, "readback")
     \/ Goto(u, "classify") /\ UNCHANGED <<file, landed>>
  /\ UNCHANGED <<owner, op, told, late, outside, crashes>>

ApplyReadback(u) ==
  /\ job[u].pc = "readback"
  /\ IF file[Target(u)] = u
     THEN /\ op' = [op EXCEPT ![u] = "applied"]
          /\ ReleaseReconciled /\ Tell(u, "applied")
          /\ job' = [job EXCEPT ![u] = Reapply(u)]
     ELSE /\ op' = [op EXCEPT ![u] = "recovery_required"]
          /\ Goto(u, "classify") /\ UNCHANGED <<owner, told>>
  /\ UNCHANGED <<file, landed, late, outside, crashes>>

\* Mutant: an unexpected content counts as untouched.
ApplyClassifyMutant(u) ==
  LET cur == file[Target(u)] IN
  /\ job[u].pc = "classify"
  /\ \/ LooksDone(u, cur) /\ op' = [op EXCEPT ![u] = "applied"]
        /\ ReleaseReconciled /\ Tell(u, "applied")
     \/ ~LooksDone(u, cur)
        /\ op' = [op EXCEPT ![u] = "previewed"] /\ ReleaseReconciled /\ Tell(u, "unchanged")
  /\ job' = [job EXCEPT ![u] = Reapply(u)]
  /\ UNCHANGED <<file, landed, late, outside, crashes>>
\* The catch block after the mutation was prepared.
ApplyClassify(u) ==
  LET cur == file[Target(u)] IN
  /\ job[u].pc = "classify"
  /\ \/ LooksDone(u, cur) /\ op' = [op EXCEPT ![u] = "applied"]
        /\ ReleaseReconciled /\ Tell(u, "applied")
     \/ ~LooksDone(u, cur) /\ cur = job[u].base
        /\ op' = [op EXCEPT ![u] = "previewed"] /\ ReleaseReconciled /\ Tell(u, "unchanged")
     \/ ~LooksDone(u, cur) /\ cur # job[u].base
        /\ op' = [op EXCEPT ![u] = "recovery_required"] /\ MarkUnknown /\ Tell(u, "unknown")
  /\ job' = [job EXCEPT ![u] = Reapply(u)]
  /\ UNCHANGED <<file, landed, late, outside, crashes>>

------------------------------------------------------------------------------
(* Documents: the base hash is compared, the document is read (awaited), the  *)
(* owner is acquired and the base compared again, a copy is edited by the     *)
(* child (awaited) and renamed over the target, which is read back (awaited). *)

DocBegin(u) ==
  /\ u \in Documents /\ New(u)
  /\ IF UnitKind[u] = "docnew" THEN file["q"] = "absent" ELSE IsFile(file["p"])
  /\ job' = [job EXCEPT ![u].pc = "prepare", ![u].base = file[Target(u)]]
  /\ UNCHANGED <<file, owner, op, landed, told, late, outside, crashes>>

DocAcquire(u) ==
  /\ u \in Documents /\ job[u].pc = "prepare"
  /\ \/ Take(u, "chatgpt")
        /\ Goto(u, IF file[Target(u)] = job[u].base THEN "held" ELSE "failed")
        /\ UNCHANGED told
     \/ ~O!CanAcquire(owner, "chatgpt", u) /\ Finish(u) /\ Tell(u, "refused") /\ UNCHANGED owner
  /\ UNCHANGED <<file, op, landed, late, outside, crashes>>

DocStage(u) ==
  /\ u \in Documents /\ job[u].pc = "held"
  /\ \/ job' = [job EXCEPT ![u].pc = "staged", ![u].staged = TRUE]
     \/ Goto(u, "failed")
  /\ UNCHANGED <<file, owner, op, landed, told, late, outside, crashes>>

\* A creation looks for the target once more before the rename.
DocInstall(u) ==
  /\ u \in Documents /\ job[u].pc = "staged"
  /\ \/ (UnitKind[u] = "docnew" => file["q"] = "absent")
        /\ Install(u, Target(u), u) /\ Goto(u, "confirm")
     \/ Goto(u, "failed") /\ UNCHANGED <<file, landed>>
  /\ UNCHANGED <<owner, op, told, late, outside, crashes>>

DocConfirm(u) ==
  /\ u \in Documents /\ job[u].pc = "confirm"
  /\ \/ file[Target(u)] = u /\ ReleaseReconciled /\ Finish(u) /\ Tell(u, "applied")
     \/ Goto(u, "failed") /\ UNCHANGED <<owner, told>>
  /\ UNCHANGED <<file, op, landed, late, outside, crashes>>

DocReconcile(u) ==
  LET cur == file[Target(u)]
      done == job[u].staged /\ LooksDone(u, cur)
  IN /\ u \in Documents /\ job[u].pc = "failed"
     /\ \/ done /\ ReleaseReconciled /\ Tell(u, "applied")
        \/ ~done /\ cur = job[u].base /\ ReleaseReconciled /\ Tell(u, "unchanged")
        \/ ~done /\ cur # job[u].base /\ MarkUnknown /\ Tell(u, "unknown")
     /\ Finish(u)
     /\ UNCHANGED <<file, op, landed, late, outside, crashes>>

------------------------------------------------------------------------------
(* Directories and moves: checked, acquired and dispatched to the child in    *)
(* one turn; the answer is awaited.                                           *)

FsReady(u) ==
  /\ file["q"] = "absent"
  /\ UnitKind[u] = "move" => file["p"] # "absent"

FsDispatch(u) ==
  /\ u \in FsUnits /\ New(u)
  /\ FsReady(u) /\ Take(u, "chatgpt")
  /\ job' = [job EXCEPT ![u].pc = "called", ![u].base = file["p"]]
  /\ UNCHANGED <<file, op, landed, told, late, outside, crashes>>

\* What the child does: mkdir -p, or a rename.
FsEffect(u) ==
  IF UnitKind[u] = "mkdir"
  THEN file["q"] \in {"absent", "dir"} /\ file' = [file EXCEPT !["q"] = "dir"]
  ELSE /\ file["p"] # "absent"
       /\ file' = [file EXCEPT !["p"] = "absent", !["q"] = file["p"]]

FsLand(u) ==
  /\ u \in FsUnits /\ job[u].pc = "called" /\ u \notin landed
  /\ FsEffect(u) /\ landed' = landed \cup {u}
  /\ UNCHANGED <<owner, op, job, told, late, outside, crashes>>

\* _reconcileCreateFailure and _reconcileMoveFailure after a possible dispatch.
FsOutcome(u) ==
  CASE UnitKind[u] = "mkdir" ->
         CASE file["q"] = "absent" -> "unchanged" [] file["q"] = "dir" -> "applied" [] OTHER -> "unknown"
    [] UnitKind[u] = "move" ->
         CASE file["p"] = job[u].base /\ file["q"] = "absent" -> "unchanged"
           [] file["p"] = "absent" /\ file["q"] = job[u].base -> "applied"
           [] OTHER -> "unknown"
\* The answer's own checks: a directory; no source and a destination of its type.
FsConfirmed(u) ==
  IF UnitKind[u] = "mkdir" THEN file["q"] = "dir"
  ELSE file["p"] = "absent" /\ IsFile(file["q"]) = IsFile(job[u].base)

FsSettle(u, out) ==
  /\ IF out = "unknown" THEN MarkUnknown ELSE ReleaseReconciled
  /\ Finish(u) /\ Tell(u, out)

FsReturn(u) ==
  /\ u \in FsUnits /\ job[u].pc = "called" /\ u \in landed
  /\ FsSettle(u, IF FsConfirmed(u) THEN "applied" ELSE FsOutcome(u))
  /\ UNCHANGED <<file, op, landed, late, outside, crashes>>

\* The call fails: before it was dispatched, or with the dispatch in doubt.
FsFail(u) ==
  /\ u \in FsUnits /\ job[u].pc = "called"
  /\ \/ u \notin landed /\ FsSettle(u, "unchanged") /\ UNCHANGED late
     \/ FsSettle(u, FsOutcome(u))
        /\ late' = IF u \in landed THEN late ELSE late \cup {u}
  /\ UNCHANGED <<file, op, landed, outside, crashes>>

\* A child that was given up on may act until it is gone.
FsLateEffect(u) ==
  /\ u \in late /\ late' = late \ {u}
  /\ FsEffect(u)
  /\ UNCHANGED <<owner, op, job, landed, told, outside, crashes>>

------------------------------------------------------------------------------
(* Verify checks with a workspace effect, and Codex turns.                    *)

VerifyStart(u) ==
  /\ u \in Verifies /\ New(u)
  /\ Take(u, "chatgpt") /\ Goto(u, "running")
  /\ UNCHANGED <<file, op, landed, told, late, outside, crashes>>

CodexStart(u) ==
  /\ u \in CodexTurns /\ New(u)
  /\ Take(u, "codex") /\ Goto(u, "running")
  /\ UNCHANGED <<file, op, landed, told, late, outside, crashes>>

\* The process, or the turn, writes to the workspace.
RunningWrites(u) ==
  /\ job[u].pc = "running" /\ u \notin landed
  /\ Install(u, "p", u)
  /\ UNCHANGED <<owner, op, job, told, late, outside, crashes>>

\* The end is known (an exit, a spawn that failed), or in doubt (a timeout).
VerifyEnd(u) ==
  /\ u \in Verifies /\ job[u].pc = "running"
  /\ \/ ReleaseReconciled /\ Tell(u, "applied")
     \/ MarkUnknown /\ Tell(u, "unknown")
  /\ Finish(u)
  /\ UNCHANGED <<file, op, landed, late, outside, crashes>>

CodexEnd(u) ==
  /\ u \in CodexTurns /\ job[u].pc = "running"
  /\ owner' = O!ReleasedBy(owner, "codex", u) /\ Tell(u, "applied") /\ Finish(u)
  /\ UNCHANGED <<file, op, landed, late, outside, crashes>>

------------------------------------------------------------------------------
(* The environment.                                                           *)

OutsideWrite(x) ==
  /\ outside < MaxOutside /\ outside' = outside + 1
  /\ file' = [file EXCEPT ![x] = "ext"]
  /\ landed' = landed \ {u \in ChangeSets \cup Documents :
                          job[u].pc # "idle" /\ Target(u) = x /\ job[u].base = "ext"}
  /\ UNCHANGED <<owner, op, job, told, late, crashes>>

\* The server dies and starts again: the operations end where they are.
Crash ==
  /\ crashes < MaxCrashes /\ crashes' = crashes + 1
  /\ owner' = O!Free
  /\ job' = [u \in Units |-> IF u \in ChangeSets THEN Reapply(u) ELSE Idle]
  /\ told' = [u \in Units |-> IF job[u].pc = "idle" THEN told[u] ELSE "unknown"]
  /\ UNCHANGED <<file, op, landed, late, outside>>

LocalNext ==
  \/ \E u \in Units :
       \/ Preview(u) \/ ApplyBegin(u) \/ ApplyAgain(u) \/ ApplyCheck(u)
       \/ ApplyWriteTemp(u) \/ ApplyRename(u) \/ ApplyReadback(u) \/ ApplyClassify(u)
       \/ DocBegin(u) \/ DocAcquire(u) \/ DocStage(u) \/ DocInstall(u)
       \/ DocConfirm(u) \/ DocReconcile(u)
       \/ FsDispatch(u) \/ FsLand(u) \/ FsReturn(u) \/ FsFail(u) \/ FsLateEffect(u)
       \/ VerifyStart(u) \/ CodexStart(u) \/ RunningWrites(u) \/ VerifyEnd(u) \/ CodexEnd(u)
  \/ \E x \in {"p", "q"} : OutsideWrite(x)
  \/ Crash

LocalSpec == LocalInit /\ [][LocalNext]_localVars

------------------------------------------------------------------------------
(* Whoever may be writing is the owner (mutation-owner.js: only one unit may  *)
(* be active at a time): an operation between its acquire and its release     *)
(* finds the owner record held for its own unit, also after others came and   *)
(* went.                                                                      *)
ActiveHoldsOwner ==
  \A u \in Units : job[u].pc \notin {"idle", "prepare"} => owner.unit = UnitId(u)

MadeByOthers(u) ==
  \/ UnitKind[u] = "mkdir"
  \/ UnitKind[u] = "move" /\ \E v \in Units \ {u} : UnitKind[v] = "move"

(* "Only ONE unit may be active at a time per workspace for a given owner"    *)
(* (mutation-owner.js:4): of the units between acquire and release, whatever  *)
(* the owner, there is one.  Operations that share their unit id, two runs of *)
(* one check, are one unit.                                                   *)
OneUnitActive ==
  \A u, v \in Units : job[u].pc \notin {"idle", "prepare"}
                       /\ job[v].pc \notin {"idle", "prepare"} => UnitId(u) = UnitId(v)

(* What the caller is told is what happened (change-set.js apply,             *)
(* filesystem-mutation.js _reconcile*, docx-mutation.js): "applied" only when *)
(* the unit's own content or move reached the files, also after an error, and *)
(* "unchanged" or "refused" only when it did not.  A directory that someone   *)
(* else made in the meantime counts as made, and so does the move when the    *)
(* late call of another move made it.                                         *)
OutcomeIsTrue ==
  \A u \in Units \ (Verifies \cup CodexTurns) :
    /\ told[u] = "applied" => u \in landed \/ MadeByOthers(u)
    /\ told[u] \in {"unchanged", "refused"} => u \notin landed

(* A change set that can be applied has not been applied (change-set.js apply *)
(* and operation-state.js): across crashes, errors and other programs, status *)
(* previewed means that its content never reached the file, and applied that  *)
(* it did.                                                                    *)
StatusIsTrue ==
  \A u \in ChangeSets :
    /\ op[u] = "previewed" => u \notin landed
    /\ op[u] = "applied" => u \in landed
==============================================================================
