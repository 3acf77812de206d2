--------------------------- MODULE DurableGovernance ---------------------------
(***************************************************************************)
(* src/governance/durable.js over src/governance/store.js: one canonical   *)
(* Governance runtime (the writer guard makes it the only one) that keeps  *)
(* the lifecycle state of a task in memory, persists it after every        *)
(* successful operation, and fences Parent authority and execution claims  *)
(* by opaque tokens.  Every public operation is synchronous, so it is one  *)
(* action; what can interrupt it is the store write, whose four outcomes   *)
(* are explicit, and the death of the process.                             *)
(***************************************************************************)
EXTENDS Governance, Naturals, FiniteSets

CONSTANTS Roots, NoRoot,    \* canonical workspace roots
          ControlCalls,     \* the Brain controls clients send
          ResultCalls,      \* the RESULTs executors send
          MaxTokens,        \* model bound: tokens ever minted
          MaxFaults,        \* model bound: failed writes, lost mirrors and corruptions
          MirroredOnly      \* a primary file goes bad only when no older readable
                            \* backup would take its place

ASSUME RootAssumption == NoRoot \notin Roots
ASSUME CallsAssumption ==
    /\ \A c \in ControlCalls : c.call \in Control /\ c.root \in Roots \cup {NoRoot}
    /\ ResultCalls \subseteq Result
ASSUME DurableBounds == /\ MaxTokens \in Nat /\ MaxFaults \in Nat /\ MirroredOnly \in BOOLEAN

VARIABLES up,        \* the runtime process runs
          mem,       \* svc.state
          meta,      \* _meta: task, workspace root, authority
          recovery,  \* _recoveryRequired
          prim, bak, \* per task: <task>.json and <task>.json.bak
          minted,    \* tokens minted so far; tokens are 1, 2, ...
          faults     \* injected faults so far

gvars == <<up, mem, meta, recovery, prim, bak, minted, faults>>

NoToken == 0
NoClaim == [gen |-> 0, token |-> NoToken, step |-> NoStep, root |-> NoRoot, parent |-> 0]
Claim == [gen : Nat, token : Nat, step : Steps \cup {NoStep},
          root : Roots \cup {NoRoot}, parent : Nat]
NoMeta == [task |-> NoTask, root |-> NoRoot, gen |-> 0, token |-> NoToken, claim |-> NoClaim]
Meta == [task : Tasks \cup {NoTask}, root : Roots \cup {NoRoot}, gen : Nat, token : Nat,
         claim : Claim]
Envelope == [st : State, meta : Meta]
NoFile == [kind |-> "none", env |-> [st |-> FreshState, meta |-> NoMeta]]
Corrupt == [NoFile EXCEPT !.kind = "corrupt"]
Saved(e) == [kind |-> "ok", env |-> e]

----------------------------------------------------------------------------
(* The store. *)
\* hasTask: a primary or a backup exists, readable or not.
HasTask(t) == prim[t].kind # "none" \/ bak[t].kind # "none"
\* _resolveStateFile: the primary, else the backup, else a named failure.
ReadableTask(t) == prim[t].kind = "ok" \/ bak[t].kind = "ok"
Resolved(t) == IF prim[t].kind = "ok" THEN prim[t].env ELSE bak[t].env
\* scanStrict: an unreadable candidate is corruption, never absence.
ScanCorrupt == \E t \in Tasks : HasTask(t) /\ ~ReadableTask(t)
Present == {t \in Tasks : ReadableTask(t)}
Active == {t \in Present : ~Terminal(Resolved(t).st)}

\* fenceExecutionClaimValue.  What a fenced claim was for is kept for display only,
\* so the model forgets it.
FenceMutant(cl) == cl
Fence(cl) == IF cl.token = NoToken THEN cl ELSE [NoClaim EXCEPT !.gen = cl.gen + 1]

\* _restoreCommitted after a failed write: the committed snapshot comes back, or
\* the runtime becomes recovery-required and keeps what it had.
RestoreCommittedMutant(t, s, m) == mem' = s /\ meta' = m /\ recovery' = FALSE
RestoreCommitted(t, s, m) ==
    IF ReadableTask(t)
    THEN mem' = Resolved(t).st /\ meta' = Resolved(t).meta /\ recovery' = FALSE
    ELSE mem' = s /\ meta' = m /\ recovery' = TRUE

\* _persist with saveTask: write a temporary file, rename it over the primary,
\* copy the primary to the backup.  The write may fail before the rename, the copy
\* may fail silently, or the process may die between the two.
Persist(s, m, mints) ==
    LET t == s.task
        file == Saved([st |-> s, meta |-> m])
    IN  \/ /\ prim' = [prim EXCEPT ![t] = file]
           /\ bak' = [bak EXCEPT ![t] = file]
           /\ mem' = s /\ meta' = m /\ minted' = minted + mints
           /\ UNCHANGED <<up, recovery, faults>>
        \/ /\ faults < MaxFaults /\ faults' = faults + 1
           /\ prim' = [prim EXCEPT ![t] = file]
           /\ mem' = s /\ meta' = m /\ minted' = minted + mints
           /\ UNCHANGED <<up, recovery, bak>>
        \/ /\ faults < MaxFaults /\ faults' = faults + 1
           /\ RestoreCommitted(t, s, m)
           /\ UNCHANGED <<up, prim, bak, minted>>
        \/ /\ faults < MaxFaults /\ faults' = faults + 1
           /\ prim' = [prim EXCEPT ![t] = file]
           /\ up' = FALSE /\ mem' = FreshState /\ meta' = NoMeta /\ recovery' = FALSE
           /\ minted' = minted + mints
           /\ UNCHANGED bak

\* The operation throws and only the in-memory fields it already assigned remain.
Throws(s, m) == mem' = s /\ meta' = m /\ UNCHANGED <<up, recovery, prim, bak, minted, faults>>

----------------------------------------------------------------------------
(* Authority. *)
\* _checkAuthority: without metadata there is nothing to check.
AuthorityOk(m, token) == m = NoMeta \/ (m.token # NoToken /\ token = m.token)

\* _assertExecutionClaimable
Claimable(s, i) == /\ s.control \in {"TASK", "REVISE"} /\ ~s.awaiting
                   /\ i # NoStep /\ s.cur = i
                   /\ s.route = "direct"
                   /\ Issued(s, i) /\ s.steps[i].status = "unknown"
                   /\ s.steps[i].gate = "pending"

\* _checkExecutionClaim for a RESULT on step i
ClaimOk(s, m, task, i, token) ==
    /\ m # NoMeta /\ s.task # NoTask
    /\ task \in {NoTask, m.task}
    /\ m.claim.token # NoToken /\ token = m.claim.token
    /\ i = m.claim.step /\ m.claim.step = s.cur
    /\ m.claim.root # NoRoot /\ m.claim.root = m.root
    /\ m.claim.parent = m.gen
    /\ Claimable(s, m.claim.step)

\* authorizeMutation: the gate of every new Codex turn
MutationAuthorized(token, root) ==
    /\ up /\ ~recovery /\ meta # NoMeta /\ mem.task # NoTask /\ ~Terminal(mem)
    /\ meta.token # NoToken /\ token = meta.token
    /\ meta.root # NoRoot /\ root = meta.root

\* authorizeExecution: the same for work under an execution claim
ExecutionAuthorized(token, root) ==
    /\ up /\ ~recovery
    /\ ClaimOk(mem, meta, NoTask, meta.claim.step, token)
    /\ root = meta.root

\* The operation works on the task of this runtime, or first hydrates the persisted
\* task it names (restart continuation).
Hydrates(t) == mem.task = NoTask /\ t # NoTask /\ HasTask(t)
BaseMem(t) == IF Hydrates(t) THEN Resolved(t).st ELSE mem
BaseMeta(t) == IF Hydrates(t) THEN Resolved(t).meta ELSE meta

\* _isFreshTaskStart and _assertNewTaskAdmission
FreshStart(s, c) == /\ c.task # NoTask /\ ~HasTask(c.task)
                    /\ s.task = NoTask \/ (Terminal(s) /\ c.control = "PLAN")
Admitted == ~ScanCorrupt /\ Active = {}

\* _assertRootCompatible: a persisted task keeps its workspace root.
RootCompatible(t, root) ==
    t # NoTask /\ root # NoRoot /\ HasTask(t) =>
        ReadableTask(t) /\ Resolved(t).meta.root \in {NoRoot, root}

\* _metaFor, the minting of a first authority, the fencing of an older claim and
\* the first binding of a workspace root.
MetaAfter(t, m, root) ==
    LET base == IF m.task = t THEN m
                ELSE IF ReadableTask(t) THEN Resolved(t).meta
                ELSE [NoMeta EXCEPT !.task = t, !.root = root]
        auth == IF base.token = NoToken
                THEN [base EXCEPT !.gen = 0, !.token = minted + 1, !.claim = NoClaim]
                ELSE [base EXCEPT !.claim = Fence(@)]
    IN  IF auth.root = NoRoot THEN [auth EXCEPT !.root = root] ELSE auth

----------------------------------------------------------------------------
\* transition(): the checks of the durable layer, then the lifecycle, then persist.
BrainControl(c, root, token) ==
    /\ up /\ ~recovery
    /\ ~(mem.task # NoTask /\ c.task \notin {NoTask, mem.task} /\ HasTask(c.task))
    /\ Hydrates(c.task) => ReadableTask(c.task)
    /\ LET s == BaseMem(c.task)
           m == BaseMeta(c.task)
           fresh == FreshStart(s, c)
           passes == /\ RootCompatible(IF c.task # NoTask THEN c.task ELSE s.task, root)
                     /\ IF fresh THEN Admitted ELSE AuthorityOk(m, token)
       IN  \/ /\ ~passes \/ RejectedEarly(s, c)
              /\ Throws(s, m)
           \/ /\ passes /\ ~RejectedEarly(s, c)
              /\ RejectedLate(s, c) /\ ~Terminal(s)
              /\ Throws(LeftBehind(s, c), m)
           \/ /\ passes /\ ~RejectedEarly(s, c)
              /\ ~RejectedLate(s, c) \/ Terminal(s)
              /\ LET n == Transition(s, c)
                     after == MetaAfter(n.task, m, root)
                     mints == IF after.token = minted + 1 THEN 1 ELSE 0
                 IN  /\ minted + mints <= MaxTokens
                     /\ Persist(n, after, mints)

\* recordResult(): under the Parent token or under an execution claim.
ExecutorResult(r, parentToken, claimToken) ==
    /\ up /\ ~recovery
    /\ parentToken = NoToken \/ claimToken = NoToken
    /\ Hydrates(r.task) => ReadableTask(r.task)
    /\ LET s == BaseMem(r.task)
           m == BaseMeta(r.task)
           passes == IF claimToken # NoToken THEN ClaimOk(s, m, r.task, r.step, claimToken)
                     ELSE AuthorityOk(m, parentToken)
       IN  \/ ~passes /\ Throws(s, m)
           \/ passes /\ ~ResultAccepted(s, r) /\ Throws(LeftByResult(s, r), m)
           \/ /\ passes /\ ResultAccepted(s, r)
              /\ LET n == RecordResult(s, r)
                     after == IF m = NoMeta THEN [NoMeta EXCEPT !.task = n.task]
                              ELSE [m EXCEPT !.claim = Fence(@)]
                 IN  Persist(n, after, 0)

\* loadTask(): restore a persisted task; the way out of recovery-required.
LoadTask(t) ==
    /\ up /\ ReadableTask(t)
    /\ mem' = Resolved(t).st /\ meta' = Resolved(t).meta /\ recovery' = FALSE
    /\ UNCHANGED <<up, prim, bak, minted, faults>>

\* takeover() and claimExecution() take a scope, a task id and/or a project key and/or
\* an identity, that resolves to one persisted task or fails with no effect; so the
\* actions are about the task t it resolves to (resolveSemantic, recoverSemantic).
TakeoverMetaMutant(m, root) == [m EXCEPT !.token = minted + 1, !.claim = Fence(@),
                                         !.root = IF root = NoRoot THEN @ ELSE root]
TakeoverMeta(m, root) == [m EXCEPT !.gen = @ + 1, !.token = minted + 1, !.claim = Fence(@),
                                   !.root = IF root = NoRoot THEN @ ELSE root]
\* takeover(): terminal or not; generation + 1, a new token, the claim fenced.
Takeover(t, token, root) ==
    /\ up /\ ~recovery /\ ~ScanCorrupt
    /\ minted < MaxTokens
    /\ t \in Present
    /\ RootCompatible(t, root)
    /\ Resolved(t).meta.token # NoToken => token \in {NoToken, Resolved(t).meta.token}
    /\ Persist(Resolved(t).st, TakeoverMeta(Resolved(t).meta, root), 1)

\* claimExecution(): an in-progress task; the committed state is loaded even when the
\* step then proves not claimable.
ClaimMeta(m, i) == [m EXCEPT !.claim = [gen |-> @.gen + 1, token |-> minted + 1, step |-> i,
                                        root |-> m.root, parent |-> m.gen]]
ClaimExecution(t, i, root) ==
    /\ up /\ ~recovery /\ ~ScanCorrupt
    /\ minted < MaxTokens
    /\ t \in Active /\ mem.task \in {NoTask, t}
    /\ LET e == Resolved(t)
           grants == e.meta.token # NoToken /\ Claimable(e.st, i)
       IN  /\ e.meta.root # NoRoot /\ root = e.meta.root
           /\ \/ ~grants /\ Throws(e.st, e.meta)
              \/ grants /\ Persist(e.st, ClaimMeta(e.meta, i), 1)

----------------------------------------------------------------------------
\* The process dies or is closed, and another one starts on the same data root.
Stop == /\ up
        /\ up' = FALSE /\ mem' = FreshState /\ meta' = NoMeta /\ recovery' = FALSE
        /\ UNCHANGED <<prim, bak, minted, faults>>
Start == /\ ~up /\ up' = TRUE
         /\ UNCHANGED <<mem, meta, recovery, prim, bak, minted, faults>>

\* A file becomes unparsable.
CorruptPrimary(t) ==
    /\ prim[t].kind = "ok"
    /\ MirroredOnly => bak[t].kind = "corrupt" \/ bak[t] = prim[t]
    /\ faults < MaxFaults /\ faults' = faults + 1
    /\ prim' = [prim EXCEPT ![t] = Corrupt]
    /\ UNCHANGED <<up, mem, meta, recovery, bak, minted>>
CorruptBackup(t) ==
    /\ bak[t].kind = "ok"
    /\ faults < MaxFaults /\ faults' = faults + 1
    /\ bak' = [bak EXCEPT ![t] = Corrupt]
    /\ UNCHANGED <<up, mem, meta, recovery, prim, minted>>

Init == /\ up = TRUE /\ mem = FreshState /\ meta = NoMeta /\ recovery = FALSE
        /\ prim = [t \in Tasks |-> NoFile] /\ bak = [t \in Tasks |-> NoFile]
        /\ minted = 0 /\ faults = 0

Tokens == 0 .. minted

Next == \/ \E c \in ControlCalls, k \in Tokens : BrainControl(c.call, c.root, k)
        \/ \E r \in ResultCalls, k \in Tokens :
              \/ ExecutorResult(r, k, NoToken)
              \/ k # NoToken /\ ExecutorResult(r, NoToken, k)
        \/ \E t \in Tasks : LoadTask(t) \/ CorruptPrimary(t) \/ CorruptBackup(t)
        \/ \E t \in Tasks, k \in Tokens, root \in Roots \cup {NoRoot} : Takeover(t, k, root)
        \/ \E t \in Tasks, i \in Steps, root \in Roots : ClaimExecution(t, i, root)
        \/ Stop \/ Start

Spec == Init /\ [][Next]_gvars

----------------------------------------------------------------------------
File == [kind : {"none", "corrupt", "ok"}, env : Envelope]
Named(f, t) == f.kind = "ok" => f.env.st.task = t /\ f.env.meta.task = t

\* The state is well typed, and a task file holds the envelope, and so the authority,
\* of the task it is named after (what _loadCandidate verifies on every read).
TypeOK == /\ up \in BOOLEAN /\ recovery \in BOOLEAN
          /\ mem \in State /\ meta \in Meta
          /\ prim \in [Tasks -> File] /\ bak \in [Tasks -> File]
          /\ \A t \in Tasks : Named(prim[t], t) /\ Named(bak[t], t)
          /\ minted \in 0 .. MaxTokens /\ faults \in 0 .. MaxFaults

\* What a restarted runtime finds never goes back: the authority generation of a
\* task and its claim generation only grow, and a token changes only with its
\* generation.  A fenced token therefore never becomes current again ("takeover
\* increments the Parent authority generation", "bounded execution claims are
\* independently fenced"), whatever writes fail and processes die in between, and the
\* task keeps the workspace root it was first bound to.
AuthorityNeverReverts ==
    [][\A t \in Tasks : ReadableTask(t) /\ ReadableTask(t)' =>
          LET m == Resolved(t).meta
              n == Resolved(t).meta'
          IN  /\ n.gen > m.gen \/ (n.gen = m.gen /\ n.token = m.token)
              /\ n.claim.gen > m.claim.gen \/ n.claim = m.claim
              /\ m.root # NoRoot => n.root = m.root]_gvars

\* An active execution claim is always for the step now authorized by the current
\* Parent generation, and that step still waits for its RESULT: every later Parent
\* control, RESULT and takeover has fenced it.
ActiveClaimIsExecutable ==
    \A t \in Present :
        LET e == Resolved(t) IN
        e.meta.claim.token # NoToken =>
            /\ Claimable(e.st, e.meta.claim.step)
            /\ e.meta.claim.parent = e.meta.gen
            /\ e.meta.claim.root = e.meta.root
            /\ e.meta.claim.token # e.meta.token

\* "terminal DONE immutability ... survives restart": no control, RESULT, takeover,
\* failed write or restart changes the lifecycle state of a finished task.
DoneIsImmutable ==
    [][\A t \in Tasks : ReadableTask(t) /\ ReadableTask(t)' /\ Terminal(Resolved(t).st)
          => Resolved(t).st' = Resolved(t).st]_gvars

\* "RESULT-bearing step is never silently re-executed": the gate that a RESULT left on
\* a step, without which the step can be claimed and executed again, is lifted only by a
\* committed REVISE of that very step.
ResultIsKept ==
    [][\A t \in Tasks, i \in Steps :
          /\ ReadableTask(t) /\ ReadableTask(t)'
          /\ Resolved(t).st.steps[i].gate # "pending"
          /\ Resolved(t).st'.steps[i].gate = "pending"
          => Resolved(t).st'.control = "REVISE" /\ Resolved(t).st'.cur = i]_gvars

\* Brain acceptance is never ahead of the evidence: an accepted step has executor
\* success and passing evidence for its whole contract, and DONE also has the
\* publication it requires.
AcceptanceIsEarned ==
    \A t \in Present :
        LET s == Resolved(t).st IN
        /\ \A i \in Steps : s.steps[i].brain = "accepted" =>
               /\ StepHardOk(s, i)
               /\ \A a \in s.steps[i].need : s.steps[i].evidence[a] = "pass"
        /\ Terminal(s) => /\ Issued(s, s.cur) /\ s.steps[s.cur].brain = "accepted"
                          /\ s.pubRequired => s.published

\* A runtime that is not recovery-required works on the committed snapshot: failed
\* writes and rejected operations leave authority, control, steps and publication
\* as committed.  A rejected control may leave the routing hint and the awaiting flag
\* ahead of it (RejectedLate), and only those.
MemoryFollowsCommit ==
    up /\ ~recovery /\ meta # NoMeta /\ ReadableTask(meta.task) =>
        /\ meta = Resolved(meta.task).meta
        /\ [mem EXCEPT !.route = "none", !.awaiting = FALSE]
              = [Resolved(meta.task).st EXCEPT !.route = "none", !.awaiting = FALSE]

\* A session is authorized only by what is committed: the token that opens a new
\* Codex turn is the committed Parent token of a task that is not DONE, and the one
\* that opens a claimed execution is the committed claim of a step that waits.
AuthorizationIsCommitted ==
    \A k \in Tokens, root \in Roots :
        LET e == Resolved(meta.task) IN
        /\ MutationAuthorized(k, root) /\ ReadableTask(meta.task) =>
              e.meta.token = k /\ e.meta.root = root /\ ~Terminal(e.st)
        /\ ExecutionAuthorized(k, root) /\ ReadableTask(meta.task) =>
              e.meta.claim.token = k /\ Claimable(e.st, e.meta.claim.step)

\* The admission gate: "0 non-terminal tasks allow a genuinely new task; 1 rejects
\* with bounded recovery-required semantics; >1 fails ambiguous".
SingleActiveTask == Cardinality(Active) <= 1

\* atomicWriteJsonWithBackup: "the backup always equals the last good state".
BackupIsLastGood == \A t \in Tasks : prim[t].kind = "ok" => bak[t] = prim[t]
=============================================================================
