----------------------------- MODULE WriterGuard -----------------------------
(***************************************************************************)
(* src/governance/writer-guard.js: the single canonical Governance writer  *)
(* of a namespace.  Processes share two files, the writer slot             *)
(* (writer.json) and the election token (writer.json.elect).  One step of  *)
(* a process is one file-system call together with the computation that    *)
(* follows it up to the next call; a process may crash between any two.    *)
(* A member of Writers is one guard object: a restarted process has a      *)
(* fresh writerId and is another member.                                   *)
(***************************************************************************)
EXTENDS Naturals

CONSTANTS Writers,      \* guard objects, one per process incarnation
          NoWriter,
          UserOf,       \* operating-system account a process runs under
          MaxAttempts,  \* bound of the retry loop of acquire()
          MaxStamp      \* model bound: payloads, and commits, per writer

ASSUME WritersAssumption == NoWriter \notin Writers
ASSUME BoundsAssumption == MaxAttempts \in Nat \ {0} /\ MaxStamp \in [Writers -> Nat]

VARIABLES slot,     \* writer.json
          elect,    \* writer.json.elect
          live,     \* processes that have not crashed
          reused,   \* crashed processes whose pid was given to a stranger
          held,     \* guard._held
          pc,       \* where the process is between two file-system calls
          attempt,  \* loop counter of acquire()
          seen,     \* the stale record acquire() passes to _claimStaleSlot
          stamp,    \* payloads written, the time stamps of _payload
          commits   \* durable snapshots written under the guard

vars == <<slot, elect, live, reused, held, pc, attempt, seen, stamp, commits>>

(***************************************************************************)
(* Files.  A file is created empty ('wx') and filled by a later write; the *)
(* creator of a file that is still empty cannot be read from it.           *)
(***************************************************************************)
NoFile == [by |-> NoWriter, at |-> 0, written |-> FALSE]
Unwritten(w) == [by |-> w, at |-> 0, written |-> FALSE]
File == [by : Writers \cup {NoWriter}, at : Nat, written : BOOLEAN]

\* _payload: the record a writer puts into the slot.
Payload(w) == [by |-> w, at |-> stamp[w], written |-> TRUE]

\* _read and _readElect return null for a missing or unparsable file.
Readable(f) == f.written

\* realPidAlive: signal 0 reaches a live process of the same account only, and a
\* recycled pid makes a crashed owner look alive.
PidAliveMutant(observer, w) == w \in reused
PidAlive(observer, w) == \/ w \in live /\ UserOf[w] = UserOf[observer]
                         \/ w \in reused

\* _isStale, for a record that carries a pid (every record this code writes does).
IsStale(observer, f) == ~PidAlive(observer, f.by)

\* _sameSlotRecord: the slot is still exactly the record that was inspected.
SameSlotRecordMutant(a, b) == a.written
SameSlotRecord(a, b) == a.written /\ b.written /\ a = b

\* assertOwned: the held slot is on disk and names this writer.
AssertOwned(w) == held[w] /\ Readable(slot) /\ slot.by = w

----------------------------------------------------------------------------
Acquiring == {"create", "write", "read"}
Electing  == {"electWrite", "revalidate", "remove", "recreate", "rewrite",
              "unelectOk", "unelectRetry", "unelectThrow"}
Holding   == {"commit", "refresh", "rename", "release"}
Places    == {"idle", "elect"} \cup Acquiring \cup Electing \cup Holding

At(w, l) == w \in live /\ pc[w] = l
Goto(w, l) == pc' = [pc EXCEPT ![w] = l]
\* The call returns or throws: its local variables are gone.
Return(w) == /\ Goto(w, "idle")
             /\ attempt' = [attempt EXCEPT ![w] = 0]
             /\ seen' = [seen EXCEPT ![w] = NoFile]
KeepLocals == UNCHANGED <<attempt, seen>>
KeepFiles == UNCHANGED <<slot, elect>>
KeepProcesses == UNCHANGED <<live, reused>>

Init == /\ slot = NoFile
        /\ elect = NoFile
        /\ live = Writers
        /\ reused = {}
        /\ held = [w \in Writers |-> FALSE]
        /\ pc = [w \in Writers |-> "idle"]
        /\ attempt = [w \in Writers |-> 0]
        /\ seen = [w \in Writers |-> NoFile]
        /\ stamp = [w \in Writers |-> 0]
        /\ commits = [w \in Writers |-> 0]

\* The next iteration of acquire()'s loop, or writer_conflict after the last one.
RetryMutant(w) == /\ Goto(w, "create")
                  /\ KeepLocals
Retry(w) ==
    \/ /\ attempt[w] + 1 < MaxAttempts
       /\ attempt' = [attempt EXCEPT ![w] = @ + 1]
       /\ seen' = [seen EXCEPT ![w] = NoFile]
       /\ Goto(w, "create")
    \/ attempt[w] + 1 >= MaxAttempts /\ Return(w)

\* acquire(): an already held slot returns at once; otherwise the loop starts.
BeginAcquire(w) ==
    /\ At(w, "idle") /\ ~held[w] /\ stamp[w] < MaxStamp[w]
    /\ Goto(w, "create")
    /\ KeepFiles /\ KeepProcesses /\ KeepLocals /\ UNCHANGED <<held, stamp, commits>>

\* openSync(file, 'wx')
CreateSlot(w) ==
    /\ At(w, "create")
    /\ IF slot = NoFile
       THEN slot' = Unwritten(w) /\ Goto(w, "write")
       ELSE slot' = slot /\ Goto(w, "read")
    /\ KeepProcesses /\ UNCHANGED <<elect, held, attempt, seen, stamp, commits>>

\* writeSync through the descriptor: it reaches the path only while the path
\* still names the file this process created.
FillSlot(w) ==
    /\ slot' = IF slot = Unwritten(w) THEN Payload(w) ELSE slot
    /\ stamp' = [stamp EXCEPT ![w] = @ + 1]

WriteSlot(w) ==
    /\ At(w, "write")
    /\ FillSlot(w)
    /\ held' = [held EXCEPT ![w] = TRUE]
    /\ Return(w)
    /\ KeepProcesses /\ UNCHANGED <<elect, commits>>

\* A write fails.  acquire() throws and the empty slot or token stays; inside
\* _claimStaleSlot's try block the finally clause still runs.  refresh() throws and
\* the slot keeps its older record.
WriteFails(w) ==
    /\ \/ At(w, "write") /\ Return(w)
       \/ At(w, "electWrite") /\ Return(w)
       \/ At(w, "rewrite") /\ Goto(w, "unelectThrow") /\ KeepLocals
       \/ At(w, "rename") /\ Return(w)
    /\ KeepFiles /\ KeepProcesses /\ UNCHANGED <<held, stamp, commits>>

\* The slot exists: read it and retry, give up, or go for a stale record.  The
\* branch for the own record calls _refresh, whose assertOwned throws because
\* acquire() only gets here while the guard is not held.
ReadSlot(w) ==
    /\ At(w, "read")
    /\ \/ /\ ~Readable(slot)
          /\ Retry(w)
       \/ /\ Readable(slot) /\ slot.by = w
          /\ Return(w)
       \/ /\ Readable(slot) /\ slot.by # w /\ ~IsStale(w, slot)
          /\ Return(w)
       \/ /\ Readable(slot) /\ slot.by # w /\ IsStale(w, slot)
          /\ seen' = [seen EXCEPT ![w] = slot]
          /\ Goto(w, "elect") /\ attempt' = attempt
    /\ KeepFiles /\ KeepProcesses /\ UNCHANGED <<held, stamp, commits>>

\* openSync(electPath, 'wx'): a token of another reclaimer is never removed; one
\* this writer left behind and can read elects it again.
CreateElect(w) ==
    /\ At(w, "elect")
    /\ \/ /\ elect = NoFile
          /\ elect' = Unwritten(w)
          /\ Goto(w, "electWrite") /\ KeepLocals
       \/ /\ elect # NoFile /\ Readable(elect) /\ elect.by = w
          /\ Goto(w, "revalidate") /\ KeepLocals /\ elect' = elect
       \/ /\ elect # NoFile /\ ~(Readable(elect) /\ elect.by = w)
          /\ Retry(w) /\ elect' = elect
    /\ KeepProcesses /\ UNCHANGED <<slot, held, stamp, commits>>

WriteElect(w) ==
    /\ At(w, "electWrite")
    /\ elect' = [elect EXCEPT !.written = TRUE]
    /\ Goto(w, "revalidate")
    /\ KeepProcesses /\ UNCHANGED <<slot, held, attempt, seen, stamp, commits>>

\* The elected reclaimer compares the slot with the record it inspected.
Revalidate(w) ==
    /\ At(w, "revalidate")
    /\ Goto(w, IF SameSlotRecord(seen[w], slot) THEN "remove" ELSE "unelectRetry")
    /\ KeepFiles /\ KeepProcesses /\ UNCHANGED <<held, stamp, commits>> /\ KeepLocals

\* rmSync of the stale slot; its failure is swallowed.
RemoveSlot(w) ==
    /\ At(w, "remove")
    /\ slot' \in {NoFile, slot}
    /\ Goto(w, "recreate")
    /\ KeepProcesses /\ UNCHANGED <<elect, held, attempt, seen, stamp, commits>>

\* openSync(file, 'wx') by the elected reclaimer; EEXIST is lost_create.
RecreateSlotMutant(w) ==
    /\ At(w, "recreate")
    /\ slot' = Unwritten(w) /\ Goto(w, "rewrite")
    /\ KeepProcesses /\ KeepLocals /\ UNCHANGED <<elect, held, stamp, commits>>
RecreateSlot(w) ==
    /\ At(w, "recreate")
    /\ IF slot = NoFile
       THEN slot' = Unwritten(w) /\ Goto(w, "rewrite")
       ELSE slot' = slot /\ Goto(w, "unelectRetry")
    /\ KeepProcesses /\ UNCHANGED <<elect, held, attempt, seen, stamp, commits>>

RewriteSlot(w) ==
    /\ At(w, "rewrite")
    /\ FillSlot(w)
    /\ Goto(w, "unelectOk")
    /\ KeepProcesses /\ UNCHANGED <<elect, held, attempt, seen, commits>>

\* The finally clause removes the token (a failure is swallowed) and acquire()
\* returns, retries or throws.
Unelect(w) ==
    /\ elect' \in {NoFile, elect}
    /\ \/ /\ At(w, "unelectOk")
          /\ held' = [held EXCEPT ![w] = TRUE]
          /\ Return(w)
       \/ At(w, "unelectRetry") /\ Retry(w) /\ held' = held
       \/ At(w, "unelectThrow") /\ Return(w) /\ held' = held
    /\ KeepProcesses /\ UNCHANGED <<slot, stamp, commits>>

----------------------------------------------------------------------------
\* DurableGovernanceService._persist: assertOwned, the store write, refresh().
BeginCommitMutant(w) ==
    /\ At(w, "idle") /\ Readable(slot) /\ stamp[w] > 0
    /\ stamp[w] < MaxStamp[w] /\ commits[w] < MaxStamp[w]
    /\ Goto(w, "commit")
    /\ KeepFiles /\ KeepProcesses /\ UNCHANGED <<held, stamp, commits>> /\ KeepLocals
BeginCommit(w) ==
    /\ At(w, "idle") /\ AssertOwned(w)
    /\ stamp[w] < MaxStamp[w] /\ commits[w] < MaxStamp[w]
    /\ Goto(w, "commit")
    /\ KeepFiles /\ KeepProcesses /\ UNCHANGED <<held, stamp, commits>> /\ KeepLocals

\* The store write commits, or fails and the mutation throws.
Commit(w) ==
    /\ At(w, "commit")
    /\ \/ /\ commits' = [commits EXCEPT ![w] = @ + 1]
          /\ Goto(w, "refresh")
       \/ commits' = commits /\ Goto(w, "idle")
    /\ KeepFiles /\ KeepProcesses /\ UNCHANGED <<held, attempt, seen, stamp>>

\* _refresh: assert ownership, then replace the slot by renaming a temporary file.
RefreshCheck(w) ==
    /\ At(w, "refresh")
    /\ Goto(w, IF AssertOwned(w) THEN "rename" ELSE "idle")
    /\ KeepFiles /\ KeepProcesses /\ UNCHANGED <<held, stamp, commits>> /\ KeepLocals

RefreshWrite(w) ==
    /\ At(w, "rename")
    /\ slot' = Payload(w)
    /\ stamp' = [stamp EXCEPT ![w] = @ + 1]
    /\ held' = [held EXCEPT ![w] = TRUE]
    /\ Goto(w, "idle")
    /\ KeepProcesses /\ UNCHANGED <<elect, attempt, seen, commits>>

\* release(): remove the slot only when it is this writer's.
BeginRelease(w) ==
    /\ At(w, "idle") /\ held[w]
    /\ IF Readable(slot) /\ slot.by = w
       THEN Goto(w, "release") /\ held' = held
       ELSE held' = [held EXCEPT ![w] = FALSE] /\ pc' = pc
    /\ KeepFiles /\ KeepProcesses /\ UNCHANGED <<attempt, seen, stamp, commits>>

ReleaseRemove(w) ==
    /\ At(w, "release")
    /\ slot' \in {NoFile, slot}
    /\ held' = [held EXCEPT ![w] = FALSE]
    /\ Goto(w, "idle")
    /\ KeepProcesses /\ UNCHANGED <<elect, attempt, seen, stamp, commits>>

----------------------------------------------------------------------------
\* The process dies: its files stay as they are.
Crash(w) ==
    /\ w \in live
    /\ live' = live \ {w}
    /\ held' = [held EXCEPT ![w] = FALSE]
    /\ Return(w)
    /\ KeepFiles /\ UNCHANGED <<reused, stamp, commits>>

\* The operating system gives the pid of a crashed process to a stranger.
ReusePid(w) ==
    /\ w \notin live
    /\ reused' = reused \cup {w}
    /\ KeepFiles /\ UNCHANGED <<live, held, pc, attempt, seen, stamp, commits>>

\* A call that has begun and runs on, without the choice to begin one.
Work(w) ==
    \/ CreateSlot(w) \/ WriteSlot(w) \/ WriteFails(w) \/ ReadSlot(w)
    \/ CreateElect(w) \/ WriteElect(w) \/ Revalidate(w) \/ RemoveSlot(w)
    \/ RecreateSlot(w) \/ RewriteSlot(w) \/ Unelect(w)
    \/ Commit(w) \/ RefreshCheck(w) \/ RefreshWrite(w) \/ ReleaseRemove(w)

Begin(w) == BeginAcquire(w) \/ BeginCommit(w) \/ BeginRelease(w)

Next == \E w \in Writers : Begin(w) \/ Work(w) \/ Crash(w) \/ ReusePid(w)

Spec == Init /\ [][Next]_vars

\* The calls are synchronous JavaScript: a live process carries one through.
FairSpec == Spec /\ \A w \in Writers : WF_vars(Work(w))

----------------------------------------------------------------------------
TypeOK ==
    /\ slot \in File /\ elect \in File /\ live \subseteq Writers /\ reused \subseteq Writers
    /\ held \in [Writers -> BOOLEAN]
    /\ pc \in [Writers -> Places]
    /\ attempt \in [Writers -> 0 .. (MaxAttempts - 1)]
    /\ seen \in [Writers -> File]
    /\ stamp \in [Writers -> Nat]
    /\ commits \in [Writers -> Nat]

\* Header of writer-guard.js: "one canonical Governance runtime writer per
\* namespace/dataRoot".  No two live processes hold the guard at once, whatever
\* crashed reclaimers, failed writes and leaked tokens came before.
SingleLiveWriter == \A v, w \in live : held[v] /\ held[w] => v = w

\* "the elected reclaimer revalidates the EXACT stale record it inspected and only
\* then removes it": when the slot is about to be removed it is that record, its
\* owner has crashed and the remover has the election token to itself.
RemovesOnlyInspected ==
    \A w \in live : pc[w] = "remove" =>
        /\ slot = seen[w] /\ slot.by \notin live
        /\ elect.by = w
        /\ \A v \in live \ {w} : pc[v] \notin Electing

\* "no durable Governance mutation can be persisted after ownership loss": between
\* assertOwned and the end of refresh the slot stays this writer's.
CommitsUnderOwnership ==
    \A w \in live : pc[w] \in Holding => held[w] /\ slot.written /\ slot.by = w

\* "A LIVE owner is NEVER reclaimed": a slot that names a live process is changed
\* only by a step of that process.
LiveSlotUntouched ==
    [][slot' # slot /\ slot.by \in live => pc'[slot.by] # pc[slot.by]]_vars

\* acquire() gives up "after bounded retries": every call returns or its process
\* crashes, also when the slot was left empty or the token was left behind.
CallsReturn == \A w \in Writers : pc[w] # "idle" ~> (pc[w] = "idle" \/ w \notin live)

\* The protocol implements the abstract single writer: the slot's readable record
\* is the owner.
Abstract == INSTANCE CanonicalWriter WITH
                owner <- IF slot.written THEN slot.by ELSE NoWriter
ImplementsCanonicalWriter == Abstract!CSpec

\* All processes run under one account, as the installation sets them up.
OneUser == \A v, w \in Writers : UserOf[v] = UserOf[w]

----------------------------------------------------------------------------
(* The inductive invariant behind the safety properties. *)
\* A live holder, or a process that has just filled the slot, owns the slot.
HoldersOwnSlot ==
    \A w \in live : held[w] \/ pc[w] = "unelectOk" => slot.written /\ slot.by = w
\* Only an idle or a committing process holds the guard.
HeldPlaces == \A w \in live : /\ held[w] => pc[w] \in Holding \cup {"idle"}
                             /\ pc[w] \in Holding => held[w]
\* A process about to fill the slot is the creator of the empty file there.
FillersOwnSlot == \A w \in live : pc[w] \in {"write", "rewrite"} => slot = Unwritten(w)
\* Every process inside _claimStaleSlot's critical section has the token.
ElectedOwnToken == \A w \in live : pc[w] \in Electing => elect.by = w
\* What a reclaimer inspected is a complete record of a crashed process.
InspectedIsDead ==
    \A w \in live : pc[w] \in {"elect", "electWrite", "revalidate", "remove"} =>
        seen[w].written /\ seen[w].by \in Writers \ live
\* The record about to be removed is still in the slot.
RemovedIsInspected == \A w \in live : pc[w] = "remove" => slot = seen[w]
\* A written slot has an author.
SlotAuthor == slot.written => slot.by \in Writers

OwnershipInv == /\ HoldersOwnSlot /\ HeldPlaces /\ FillersOwnSlot /\ ElectedOwnToken
                /\ InspectedIsDead /\ RemovedIsInspected /\ SlotAuthor
=============================================================================
