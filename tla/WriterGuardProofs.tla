-------------------------- MODULE WriterGuardProofs --------------------------
(***************************************************************************)
(* The writer guard keeps a single live writer for any number of           *)
(* processes, retries and heartbeats.                                      *)
(***************************************************************************)
EXTENDS WriterGuard, TLAPS

USE DEF Readable, At, Goto, KeepLocals, KeepFiles, KeepProcesses

\* The values the actions give to files.
LEMMA FileValues ==
    /\ NoFile \in File /\ NoFile.by = NoWriter /\ NoFile.written = FALSE
    /\ \A w \in Writers : /\ Unwritten(w) \in File
                          /\ Unwritten(w).by = w /\ Unwritten(w).written = FALSE
    /\ TypeOK => \A w \in Writers : /\ Payload(w) \in File
                                    /\ Payload(w).by = w /\ Payload(w).written = TRUE
    /\ \A f \in File : [f EXCEPT !.written = TRUE] \in File
    /\ \A f \in File : [f EXCEPT !.written = TRUE].by = f.by
  BY DEF NoFile, Unwritten, Payload, File, TypeOK

\* The places between two file-system calls.
LEMMA PlaceValues ==
    /\ "idle" \in Places /\ "elect" \in Places /\ "create" \in Places
    /\ "write" \in Places /\ "read" \in Places
    /\ "electWrite" \in Places /\ "revalidate" \in Places /\ "remove" \in Places
    /\ "recreate" \in Places /\ "rewrite" \in Places /\ "unelectOk" \in Places
    /\ "unelectRetry" \in Places /\ "unelectThrow" \in Places
    /\ "commit" \in Places /\ "refresh" \in Places /\ "rename" \in Places
    /\ "release" \in Places
  BY DEF Places, Acquiring, Electing, Holding

\* Leaving a call, or the next round of its loop, keeps the local variables typed.
LEMMA LocalsTyped ==
    ASSUME TypeOK, NEW w \in Writers, Return(w) \/ Retry(w)
    PROVE  /\ pc' \in [Writers -> Places]
           /\ attempt' \in [Writers -> 0 .. (MaxAttempts - 1)]
           /\ seen' \in [Writers -> File]
  <1>1. CASE Return(w)
    BY <1>1, BoundsAssumption, FileValues, PlaceValues DEF TypeOK, Return
  <1>2. CASE Retry(w)
    BY <1>1, <1>2, BoundsAssumption, FileValues, PlaceValues DEF TypeOK, Retry
  <1> QED
    BY <1>1, <1>2

\* Types are kept by every step of the guard: in particular the loop counter of
\* acquire() never passes the retry bound.
LEMMA TypeStep == TypeOK /\ [Next]_vars => TypeOK'
  <1> USE BoundsAssumption, FileValues, PlaceValues DEF TypeOK
  <1> SUFFICES ASSUME TypeOK, [Next]_vars PROVE TypeOK'
    OBVIOUS
  <1>1. CASE UNCHANGED vars
    BY <1>1 DEF vars
  <1>2. ASSUME NEW w \in Writers, Begin(w) PROVE TypeOK'
    BY ZenonT(60), <1>2 DEF Begin, BeginAcquire, BeginCommit, BeginRelease
  <1>3. ASSUME NEW w \in Writers, Work(w) PROVE TypeOK'
    <2>1. CASE CreateSlot(w)  BY <2>1 DEF CreateSlot
    <2>2. CASE WriteSlot(w)  BY <2>2, LocalsTyped DEF WriteSlot, FillSlot
    <2>3. CASE WriteFails(w)  BY <2>3, LocalsTyped DEF WriteFails
    <2>4. CASE ReadSlot(w)  BY <2>4, LocalsTyped DEF ReadSlot
    <2>5. CASE CreateElect(w)  BY <2>5, LocalsTyped DEF CreateElect
    <2>6. CASE WriteElect(w)  BY <2>6 DEF WriteElect
    <2>7. CASE Revalidate(w)  BY <2>7 DEF Revalidate
    <2>8. CASE RemoveSlot(w)  BY <2>8 DEF RemoveSlot
    <2>9. CASE RecreateSlot(w)  BY <2>9 DEF RecreateSlot
    <2>10. CASE RewriteSlot(w)  BY <2>10 DEF RewriteSlot, FillSlot
    <2>11. CASE Unelect(w)  BY <2>11, LocalsTyped DEF Unelect
    <2>12. CASE Commit(w)  BY <2>12 DEF Commit
    <2>13. CASE RefreshCheck(w)  BY <2>13 DEF RefreshCheck
    <2>14. CASE RefreshWrite(w)  BY <2>14 DEF RefreshWrite
    <2>15. CASE ReleaseRemove(w)  BY <2>15 DEF ReleaseRemove
    <2> QED
      BY <1>3, <2>1, <2>2, <2>3, <2>4, <2>5, <2>6, <2>7, <2>8, <2>9, <2>10, <2>11,
         <2>12, <2>13, <2>14, <2>15 DEF Work
  <1>4. ASSUME NEW w \in Writers, Crash(w) \/ ReusePid(w) PROVE TypeOK'
    BY <1>4, LocalsTyped DEF Crash, ReusePid
  <1> QED
    BY <1>1, <1>2, <1>3, <1>4 DEF Next

\* Type correctness of the guard, for every set of processes and every bound.
THEOREM TypeCorrect == Spec => []TypeOK
  <1>1. Init => TypeOK
    BY BoundsAssumption, FileValues, PlaceValues DEF Init, TypeOK
  <1> QED
    BY <1>1, TypeStep, PTL DEF Spec

----------------------------------------------------------------------------
\* A process that leaves a call, or starts the next round, is outside every
\* critical section, and the other processes do not move.
LEMMA LocalsStep ==
    ASSUME TypeOK, NEW w \in Writers, Return(w) \/ Retry(w)
    PROVE  /\ pc'[w] \in {"idle", "create"}
           /\ \A v \in Writers \ {w} : pc'[v] = pc[v] /\ seen'[v] = seen[v]
  BY DEF Return, Retry, TypeOK

\* The step of one process preserves the ownership invariant.
LEMMA OwnershipStep ==
    ASSUME OneUser, TypeOK, OwnershipInv, [Next]_vars
    PROVE  OwnershipInv'
  <1> USE WritersAssumption, FileValues
      DEF TypeOK, OwnershipInv, HoldersOwnSlot, HeldPlaces, FillersOwnSlot,
          ElectedOwnToken, InspectedIsDead, RemovedIsInspected, SlotAuthor,
          Electing, Holding
  <1>1. CASE UNCHANGED vars
    BY <1>1 DEF vars, Unwritten
  <1>2. ASSUME NEW w \in Writers, Begin(w) PROVE OwnershipInv'
    <2>1. CASE BeginAcquire(w)  BY <2>1 DEF BeginAcquire
    <2>2. CASE BeginCommit(w)  BY <2>2 DEF BeginCommit, AssertOwned
    <2>3. CASE BeginRelease(w)  BY <2>3 DEF BeginRelease
    <2> QED
      BY <1>2, <2>1, <2>2, <2>3 DEF Begin
  <1>3. ASSUME NEW w \in Writers, Work(w) PROVE OwnershipInv'
    <2>1. CASE CreateSlot(w)  BY <2>1 DEF CreateSlot
    <2>2. CASE WriteSlot(w)  BY <2>2, LocalsStep DEF WriteSlot, FillSlot
    <2>3. CASE WriteFails(w)  BY <2>3, LocalsStep DEF WriteFails
    <2>4. CASE ReadSlot(w)  BY <2>4, LocalsStep DEF ReadSlot, IsStale, PidAlive, OneUser
    <2>5. CASE CreateElect(w)  BY <2>5, LocalsStep DEF CreateElect
    <2>6. CASE WriteElect(w)  BY <2>6 DEF WriteElect
    <2>7. CASE Revalidate(w)  BY <2>7 DEF Revalidate, SameSlotRecord
    <2>8. CASE RemoveSlot(w)  BY <2>8 DEF RemoveSlot
    <2>9. CASE RecreateSlot(w)  BY <2>9 DEF RecreateSlot
    <2>10. CASE RewriteSlot(w)  BY <2>10 DEF RewriteSlot, FillSlot
    <2>11. CASE Unelect(w)  BY <2>11, LocalsStep DEF Unelect
    <2>12. CASE Commit(w)  BY <2>12 DEF Commit
    <2>13. CASE RefreshCheck(w)  BY <2>13 DEF RefreshCheck, AssertOwned
    <2>14. CASE RefreshWrite(w)  BY <2>14 DEF RefreshWrite
    <2>15. CASE ReleaseRemove(w)  BY <2>15 DEF ReleaseRemove
    <2> QED
      BY <1>3, <2>1, <2>2, <2>3, <2>4, <2>5, <2>6, <2>7, <2>8, <2>9, <2>10, <2>11,
         <2>12, <2>13, <2>14, <2>15 DEF Work
  <1>4. ASSUME NEW w \in Writers, Crash(w) \/ ReusePid(w) PROVE OwnershipInv'
    BY <1>4, LocalsStep DEF Crash, ReusePid
  <1> QED
    BY <1>1, <1>2, <1>3, <1>4 DEF Next

\* The invariant holds throughout every behaviour of one account's processes.
THEOREM OwnershipCorrect ==
    ASSUME OneUser
    PROVE  Spec => [](TypeOK /\ OwnershipInv)
  <1>1. Init => TypeOK /\ OwnershipInv
    BY BoundsAssumption, FileValues, PlaceValues
    DEF Init, TypeOK, OwnershipInv, HoldersOwnSlot, HeldPlaces, FillersOwnSlot,
        ElectedOwnToken, InspectedIsDead, RemovedIsInspected, SlotAuthor,
        Electing, Holding
  <1>2. TypeOK /\ OwnershipInv /\ [Next]_vars => (TypeOK /\ OwnershipInv)'
    BY TypeStep, OwnershipStep
  <1> QED
    BY <1>1, <1>2, PTL DEF Spec

\* At most one live process holds the guard of a namespace: two holders would both
\* own the one slot.
THEOREM SingleWriter ==
    ASSUME OneUser
    PROVE  Spec => []SingleLiveWriter
  <1>1. TypeOK /\ OwnershipInv => SingleLiveWriter
    BY DEF OwnershipInv, HoldersOwnSlot, SingleLiveWriter
  <1> QED
    BY <1>1, OwnershipCorrect, PTL

\* A reclaimer removes only the record of a crashed process that it inspected,
\* and nobody else is inside the election's critical section.
THEOREM ReclaimIsExact ==
    ASSUME OneUser
    PROVE  Spec => []RemovesOnlyInspected
  <1>1. TypeOK /\ OwnershipInv => RemovesOnlyInspected
    BY DEF TypeOK, OwnershipInv, ElectedOwnToken, InspectedIsDead, RemovedIsInspected,
           RemovesOnlyInspected, Electing
  <1> QED
    BY <1>1, OwnershipCorrect, PTL

\* Durable state is written, and the heartbeat refreshed, by the slot's owner only.
THEOREM CommitsOwned ==
    ASSUME OneUser
    PROVE  Spec => []CommitsUnderOwnership
  <1>1. TypeOK /\ OwnershipInv => CommitsUnderOwnership
    BY DEF OwnershipInv, HoldersOwnSlot, HeldPlaces, CommitsUnderOwnership
  <1> QED
    BY <1>1, OwnershipCorrect, PTL

\* A slot that names a live process changes only by that process's own step.
THEOREM LiveOwnerNeverReclaimed ==
    ASSUME OneUser
    PROVE  Spec => LiveSlotUntouched
  <1> DEFINE Own == slot' # slot /\ slot.by \in live => pc'[slot.by] # pc[slot.by]
  <1>1. TypeOK /\ OwnershipInv /\ [Next]_vars => [Own]_vars
    <2> SUFFICES ASSUME TypeOK, OwnershipInv, [Next]_vars, slot' # slot, slot.by \in live
                 PROVE  pc'[slot.by] # pc[slot.by]
      OBVIOUS
    <2> USE WritersAssumption, FileValues DEF TypeOK
    <2>1. PICK w \in Writers : Begin(w) \/ Work(w) \/ Crash(w) \/ ReusePid(w)
      BY DEF Next, vars
    <2>2. CASE CreateSlot(w)  BY <2>2 DEF CreateSlot
    <2>3. CASE WriteSlot(w)
      BY <2>3 DEF WriteSlot, FillSlot, Return
    <2>4. CASE RemoveSlot(w)
      BY <2>4 DEF RemoveSlot, OwnershipInv, InspectedIsDead, RemovedIsInspected
    <2>5. CASE RecreateSlot(w)  BY <2>5 DEF RecreateSlot
    <2>6. CASE RewriteSlot(w)  BY <2>6 DEF RewriteSlot, FillSlot
    <2>7. CASE RefreshWrite(w)
      BY <2>7 DEF RefreshWrite, OwnershipInv, HoldersOwnSlot, HeldPlaces, Holding
    <2>8. CASE ReleaseRemove(w)
      BY <2>8 DEF ReleaseRemove, OwnershipInv, HoldersOwnSlot, HeldPlaces, Holding
    <2>9. \/ CreateSlot(w) \/ WriteSlot(w) \/ RemoveSlot(w) \/ RecreateSlot(w)
          \/ RewriteSlot(w) \/ RefreshWrite(w) \/ ReleaseRemove(w)
      BY <2>1 DEF Begin, BeginAcquire, BeginCommit, BeginRelease, Work, WriteFails,
                  ReadSlot, CreateElect, WriteElect, Revalidate, Unelect, Commit,
                  RefreshCheck, Crash, ReusePid
    <2> QED
      BY <2>2, <2>3, <2>4, <2>5, <2>6, <2>7, <2>8, <2>9
  <1> QED
    BY <1>1, OwnershipCorrect, PTL DEF Spec, LiveSlotUntouched

----------------------------------------------------------------------------
\* The guard implements the abstract single writer: every file-system call is a
\* stutter or one of its steps.
THEOREM Refinement ==
    ASSUME OneUser
    PROVE  Spec => ImplementsCanonicalWriter
  <1>1. Init => Abstract!CInit
    BY FileValues DEF Init, Abstract!CInit
  <1>2. TypeOK /\ OwnershipInv /\ [Next]_vars => [Abstract!CNext]_(Abstract!cvars)
    <2> SUFFICES ASSUME TypeOK, OwnershipInv, [Next]_vars
                 PROVE  [Abstract!CNext]_(Abstract!cvars)
      OBVIOUS
    <2> USE WritersAssumption, FileValues
        DEF TypeOK, Abstract!cvars, Abstract!CNext, Abstract!CAcquire,
            Abstract!CRelease, Abstract!CReclaim, Abstract!CCommit, Abstract!CCrash
    <2>1. CASE UNCHANGED vars
      BY <2>1 DEF vars
    <2>2. ASSUME NEW w \in Writers, Begin(w) \/ Crash(w) \/ ReusePid(w)
          PROVE  [Abstract!CNext]_(Abstract!cvars)
      BY <2>2 DEF Begin, BeginAcquire, BeginCommit, BeginRelease, Crash, ReusePid
    <2>3. ASSUME NEW w \in Writers, Work(w)
          PROVE  [Abstract!CNext]_(Abstract!cvars)
      <3>1. CASE CreateSlot(w)  BY <3>1 DEF CreateSlot
      <3>2. CASE WriteSlot(w)
        BY <3>2 DEF WriteSlot, FillSlot, OwnershipInv, FillersOwnSlot
      <3>3. CASE RemoveSlot(w)
        BY <3>3 DEF RemoveSlot, OwnershipInv, InspectedIsDead, RemovedIsInspected
      <3>4. CASE RecreateSlot(w)  BY <3>4 DEF RecreateSlot
      <3>5. CASE RewriteSlot(w)
        BY <3>5 DEF RewriteSlot, FillSlot, OwnershipInv, FillersOwnSlot
      <3>6. CASE Commit(w)
        BY <3>6 DEF Commit, OwnershipInv, HoldersOwnSlot, HeldPlaces, Holding
      <3>7. CASE RefreshWrite(w)
        BY <3>7 DEF RefreshWrite, OwnershipInv, HoldersOwnSlot, HeldPlaces, Holding
      <3>8. CASE ReleaseRemove(w)
        BY <3>8 DEF ReleaseRemove, OwnershipInv, HoldersOwnSlot, HeldPlaces, Holding
      <3>9. CASE \/ WriteFails(w) \/ ReadSlot(w) \/ CreateElect(w) \/ WriteElect(w)
                 \/ Revalidate(w) \/ Unelect(w) \/ RefreshCheck(w)
        BY <3>9 DEF WriteFails, ReadSlot, CreateElect, WriteElect, Revalidate, Unelect,
                    RefreshCheck
      <3> QED
        BY <2>3, <3>1, <3>2, <3>3, <3>4, <3>5, <3>6, <3>7, <3>8, <3>9 DEF Work
    <2> QED
      BY <2>1, <2>2, <2>3 DEF Next
  <1> QED
    BY <1>1, <1>2, OwnershipCorrect, PTL
    DEF Spec, ImplementsCanonicalWriter, Abstract!CSpec
=============================================================================
