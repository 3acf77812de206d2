-------------------------------- MODULE Relay --------------------------------
(* The relay between an account's MCP client and the runtimes on its paired   *)
(* devices: src/relay/core.js (store and core), agent.js, runtime-mode.js     *)
(* and mcp-facade.js.                                                         *)
(*                                                                            *)
(* The store (pairing, device, affinity) is SQLite and survives a relay       *)
(* restart; session, pending, queue and waiter are the core's memory.  An     *)
(* agent runs in one runtime process and makes one HTTP call at a time: a     *)
(* call it gave up on may still reach the relay later (stray), and the        *)
(* reply of a call the relay processed may be lost.  Requests are numbered    *)
(* in the order they are dispatched, which is the iteration order of the      *)
(* pending Map.  A relay-owned handle is named by the request that made it.   *)
EXTENDS Naturals, Sequences, FiniteSets, SequencesExt, FiniteSetsExt

CONSTANTS
  Accounts, Devices, Runtimes,
  DeviceOf,        \* the device a runtime process runs on
  MaxRequests,     \* bound: requests dispatched in a behaviour
  MaxEvents,       \* bound: connections of a device and requests, together
  DeviceLimit,     \* maxPendingPerDevice
  AccountLimit,    \* maxPendingPerAccount
  LedgerLimit      \* ledgerLimit of an agent

Nil == "none"
ASSUME RelayAssumption ==
  /\ DeviceOf \in [Runtimes -> Devices] /\ Nil \notin Runtimes
  /\ {MaxRequests, MaxEvents, DeviceLimit, AccountLimit, LedgerLimit} \subseteq Nat \ {0}

VARIABLES
  pairing,   \* pairing[d]: the approval whose completion creates device d
  device,    \* device[d]: the devices row, with its one credential
  affinity,  \* affinity[r]: the handle made by request r: none, valid, invalid
  session,   \* activeSessions
  pending, queue, waiter,
  call,      \* call[r]: the pending item of r, and how its promise settled
  agent,     \* agent[rt]: the DeviceRelayAgent of runtime rt
  stray,     \* calls an agent gave up on that may still reach the relay
  runs       \* ghost: runs[r][rt]: executions of request r by runtime rt

relayVars == <<pairing, device, affinity, session, pending, queue, waiter, call,
          agent, stray, runs>>
store == <<pairing, device, affinity>>
core == <<session, pending, queue, waiter, call>>

Requests == 1..MaxRequests
\* The tools by what they do to handles: workspace_open makes one, process_start makes
\* one through another, process_read_output and process_terminate need both, and every
\* other tool is forwarded through its workspace.
Kinds == {"open", "tool", "start", "proc"}
NoCall == [kind |-> Nil]
NoAgent == [pc |-> "off", epoch |-> 0, req |-> 0, ok |-> FALSE, ledger |-> <<>>]
NoSession == [runtime |-> Nil, epoch |-> 0]
NoWaiter == [runtime |-> Nil, epoch |-> 0, live |-> FALSE]
Live(d) == device[d].paired /\ ~device[d].revoked

RelayTypeOK ==
  /\ \A d \in Devices :
       /\ pairing[d].state \in {"none", "open", "expired", "consumed"}
       /\ device[d].epoch \in 0..(MaxEvents + 1)
       /\ device[d].runtime \in Runtimes \cup {Nil}
       /\ queue[d] \in Seq(Requests)
       /\ session[d].epoch \in 0..device[d].epoch
  /\ affinity \in [Requests -> {Nil, "valid", "invalid"}]
  /\ pending \subseteq {r \in Requests : call[r] # NoCall}
  /\ \A rt \in Runtimes : agent[rt].pc \in
       {"off", "connect", "idle", "polling", "handle", "responding", "ended"}

\* A core begins with empty maps.
CoreInit ==
  /\ session = [d \in Devices |-> NoSession]
  /\ pending = {}
  /\ queue = [d \in Devices |-> <<>>]
  /\ waiter = [d \in Devices |-> NoWaiter]

RelayInit ==
  /\ pairing = [d \in Devices |-> [state |-> "none", account |-> Nil]]
  /\ device = [d \in Devices |-> [paired |-> FALSE, account |-> Nil,
                 revoked |-> FALSE, epoch |-> 0, runtime |-> Nil]]
  /\ affinity = [r \in Requests |-> Nil]
  /\ CoreInit
  /\ call = [r \in Requests |-> NoCall]
  /\ agent = [rt \in Runtimes |-> NoAgent]
  /\ stray = {}
  /\ runs = [r \in Requests |-> [rt \in Runtimes |-> 0]]

------------------------------------------------------------------------------
(* Pairing.  The device code and the user code both name the approval row.    *)

BeginPairing(d) ==
  /\ pairing[d].state = "none"
  /\ pairing' = [pairing EXCEPT ![d].state = "open"]
  /\ UNCHANGED <<device, affinity, core, agent, stray, runs>>

ExpirePairing(d) ==
  /\ pairing[d].state = "open"
  /\ pairing' = [pairing EXCEPT ![d].state = "expired"]
  /\ UNCHANGED <<device, affinity, core, agent, stray, runs>>

MayApprove(d, a) ==
  /\ pairing[d].state = "open"
  /\ pairing[d].account \in {Nil, a}
ApprovePairing(d, a) ==
  /\ MayApprove(d, a)
  /\ pairing' = [pairing EXCEPT ![d].account = a]
  /\ UNCHANGED <<device, affinity, core, agent, stray, runs>>

\* One transaction: the device, its credential and the consumed mark.
CompletePairing(d) ==
  /\ pairing[d].state = "open" /\ pairing[d].account # Nil
  /\ pairing' = [pairing EXCEPT ![d].state = "consumed"]
  /\ device' = [device EXCEPT ![d].paired = TRUE, ![d].account = pairing[d].account]
  /\ UNCHANGED <<affinity, core, agent, stray, runs>>

------------------------------------------------------------------------------
(* The core's helpers.                                                        *)

Queued(r) == \E d \in Devices : r \in Range(queue[d])

Dispatched == Cardinality({r \in Requests : call[r] # NoCall})

PendingOf(d) == {r \in pending : call[r].device = d}

\* #rejectPending for a set of requests.
Settle(c, S, out) == [r \in Requests |-> IF r \in S THEN [c[r] EXCEPT !.out = out, !.epoch = 0] ELSE c[r]]

\* The members of a finite set of numbers, in increasing order, and a queue without the
\* requests of S.
Ordered(S) == [k \in 1..Cardinality(S) |->
                 CHOOSE x \in S : Cardinality({y \in S : y <= x}) = k]
Without(q, S) ==
  LET kept == Ordered({i \in DOMAIN q : q[i] \notin S})
  IN [k \in DOMAIN kept |-> q[kept[k]]]

\* #dequeueEnvelope: the index of the first request of this runtime and epoch;
\* everything before it leaves the queue, and all of it when there is none.
\* A request past its deadline is one whose timer (DeadlineTimer) fires first.
MatchIn(q, rt, e) ==
  {i \in DOMAIN q : /\ q[i] \in pending
                    /\ call[q[i]].runtime = rt
                    /\ call[q[i]].epoch = e}

\* An agent back at the top of its loop, and one that has ended.
\* Mutant: the loop stays in its back-off.
ReconnectingMutant(ag) == [ag EXCEPT !.pc = "reconnecting"]
Reconnecting(ag) == [ag EXCEPT !.pc = "connect", !.epoch = 0, !.req = 0, !.ok = FALSE]
Ended(ag) == [NoAgent EXCEPT !.pc = "ended"]

\* Mutant: the requests already handed to the agent are left pending.
FenceDeviceMutant(D) ==
  LET S == UNION {Range(queue[d]) : d \in D} IN
  /\ session' = [d \in Devices |-> IF d \in D THEN NoSession ELSE session[d]]
  /\ waiter' = [d \in Devices |-> IF d \in D THEN NoWaiter ELSE waiter[d]]
  /\ queue' = [d \in Devices |-> IF d \in D THEN <<>> ELSE queue[d]]
  /\ pending' = pending \ S
  /\ call' = Settle(call, S, "rejected")

\* #fenceDevice.
FenceDevice(D) ==
  LET S == {r \in pending : call[r].device \in D} IN
  /\ session' = [d \in Devices |-> IF d \in D THEN NoSession ELSE session[d]]
  /\ waiter' = [d \in Devices |-> IF d \in D THEN NoWaiter ELSE waiter[d]]
  /\ queue' = [d \in Devices |-> IF d \in D THEN <<>> ELSE queue[d]]
  /\ pending' = pending \ S
  /\ call' = Settle(call, S, "rejected")
InvalidateDeviceAffinities(D) ==
  affinity' = [r \in Requests |->
    IF affinity[r] # Nil /\ call[r].device \in D THEN "invalid" ELSE affinity[r]]

\* The agent whose poll is waiting is told of the revocation, which ends it.
EndWaiters(D) ==
  agent' = [rt \in Runtimes |->
    IF \E d \in D : waiter[d].live /\ waiter[d].runtime = rt
    THEN Ended(agent[rt]) ELSE agent[rt]]

------------------------------------------------------------------------------
(* Revocation by the account: one device, or all of them.                     *)

Revoke(a, D) ==
  /\ D # {}
  /\ \A d \in D : Live(d) /\ device[d].account = a
  /\ device' = [d \in Devices |-> IF d \in D
       THEN [device[d] EXCEPT !.revoked = TRUE, !.epoch = @ + 1]
       ELSE device[d]]
  /\ InvalidateDeviceAffinities(D)
  /\ FenceDevice(D)
  /\ EndWaiters(D)
  /\ UNCHANGED <<pairing, stray, runs>>

RevokeDevice(a, d) == Revoke(a, {d})
RevokeAll(a) == Revoke(a, {d \in Devices : Live(d) /\ device[d].account = a})

\* close, or a crash, and the restart over the same database.  The callers lose
\* their connections and the agents the calls they are waiting on.
RelayRestart ==
  /\ \E d \in Devices : session[d] # NoSession
  /\ session' = [d \in Devices |-> NoSession]
  /\ waiter' = [d \in Devices |-> NoWaiter]
  /\ queue' = [d \in Devices |-> <<>>]
  /\ pending' = {}
  /\ call' = Settle(call, pending, "rejected")
  /\ agent' = [rt \in Runtimes |->
       IF agent[rt].pc = "polling" THEN Reconnecting(agent[rt]) ELSE agent[rt]]
  /\ stray' = {}
  /\ UNCHANGED <<store, runs>>

------------------------------------------------------------------------------
(* The facade: handles are resolved and the request registered in one turn of *)
(* the event loop.                                                            *)

Valid(h, kind) == h \in Requests /\ affinity[h] = "valid" /\ call[h].kind = kind

\* Mutant: only the account is compared with the handle's.
ResolveWorkspaceMutant(a, h) ==
  h \in Requests /\ affinity[h] # Nil /\ call[h].kind = "open" /\ call[h].account = a

\* resolveWorkspace.
ResolveWorkspace(a, h) ==
  /\ Valid(h, "open")
  /\ call[h].account = a
  /\ Live(call[h].device)
  /\ device[call[h].device].runtime = call[h].runtime
\* resolveProcess: the process belongs to this workspace, device and runtime.
ResolveProcess(a, h, p) ==
  /\ ResolveWorkspace(a, h)
  /\ Valid(p, "start")
  /\ call[p].account = a
  /\ call[p].workspace = h
  /\ call[p].device = call[h].device /\ call[p].runtime = call[h].runtime

\* summary(...).ready.  Presence within the window, executor_ready and the
\* protocol version can only refuse a dispatch, which changes nothing: a caller
\* that is refused is one that does not dispatch.
Ready(d) == Live(d) /\ session[d] # NoSession

ReadyOf(a) == {d \in Devices : device[d].account = a /\ Ready(d)}

\* selectReadyDevice: the named one, or the only one.
SelectReadyDevice(a, d) == d \in ReadyOf(a)

\* #admitDispatch.
AdmitDispatch(a, d) ==
  /\ Cardinality(PendingOf(d)) < DeviceLimit
  /\ Cardinality({r \in pending : call[r].account = a}) < AccountLimit
\* #queueRequest: a waiter that is there takes the request at once; the reply reaches its
\* agent, or nobody.  A waiter is of the session's epoch, and its poll has emptied the
\* queue.
QueueRequest(d, r) ==
  IF waiter[d] = NoWaiter
  THEN /\ queue' = [queue EXCEPT ![d] = Append(@, r)]
       /\ UNCHANGED <<waiter, agent>>
  ELSE /\ waiter' = [waiter EXCEPT ![d] = NoWaiter]
       /\ UNCHANGED queue
       /\ IF ~waiter[d].live THEN UNCHANGED agent
          ELSE \E got \in BOOLEAN :
            agent' = [agent EXCEPT ![waiter[d].runtime] =
              IF got THEN [@ EXCEPT !.pc = "handle", !.req = r] ELSE Reconnecting(@)]

DispatchForAccount(a, d, kind, h, p) ==
  /\ device[d].account = a /\ Ready(d)
  /\ AdmitDispatch(a, d)
  /\ \E r \in Requests :
       /\ call[r] = NoCall /\ \A q \in 1..(r - 1) : call[q] # NoCall
       /\ r + device[d].epoch <= MaxEvents
       /\ pending' = pending \cup {r}
       /\ call' = [call EXCEPT ![r] =
            [kind |-> kind, workspace |-> h, process |-> p, account |-> a, device |-> d,
             runtime |-> session[d].runtime, epoch |-> session[d].epoch, out |-> Nil]]
       /\ QueueRequest(d, r)
  /\ UNCHANGED <<store, session, stray, runs>>

WorkspaceOpen(a, d) ==
  /\ SelectReadyDevice(a, d)
  /\ DispatchForAccount(a, d, "open", 0, 0)

WorkspaceTool(a, kind, h, p) ==
  /\ ResolveWorkspace(a, h)
  /\ IF kind = "proc" THEN ResolveProcess(a, h, p) ELSE p = 0
  /\ DispatchForAccount(a, call[h].device, kind, h, p)

DeadlineTimer(r) ==
  /\ r \in pending
  /\ pending' = pending \ {r}
  /\ call' = Settle(call, {r}, "rejected")
  /\ queue' = [queue EXCEPT ![call[r].device] = Without(@, {r})]
  /\ UNCHANGED <<store, session, waiter, agent, stray, runs>>
------------------------------------------------------------------------------
(* What the relay does with an agent's call: connectAgent, pollAgent,         *)
(* respondAgent.  reply is TRUE when the answer reaches an agent still        *)
(* waiting for it.  A refused call is a reply as well.                        *)

\* touchSession and openSession: the row's epoch and runtime.
TouchSession(rt, e) ==
  LET row == device[DeviceOf[rt]] IN ~row.revoked /\ row.epoch = e /\ row.runtime = rt
OpenSession(d, rt) ==
  ~device[d].revoked /\ device' = [device EXCEPT ![d].epoch = @ + 1, ![d].runtime = rt]

\* #validateAgent.
ValidateAgent(rt, e) ==
  /\ Live(DeviceOf[rt])
  /\ session[DeviceOf[rt]] = [runtime |-> rt, epoch |-> e]
\* Mutant: what was already handed out is not queued again.
RebindMutant(d, rt, e) ==
  LET mine == {r \in PendingOf(d) : call[r].runtime = rt}
      others == PendingOf(d) \ mine
  IN /\ pending' = pending \ others
     /\ call' = [r \in Requests |->
          IF r \in mine THEN [call[r] EXCEPT !.epoch = e]
          ELSE IF r \in others THEN [call[r] EXCEPT !.out = "rejected", !.epoch = 0]
          ELSE call[r]]
     /\ queue' = [queue EXCEPT ![d] = Without(@, others)]

\* The requests of the device: another runtime's are rejected, this runtime's
\* move to the new epoch and are queued again if they are not in the queue.
Rebind(d, rt, e) ==
  LET mine == {r \in PendingOf(d) : call[r].runtime = rt}
      others == PendingOf(d) \ mine
      again == {r \in mine : r \notin Range(queue[d])}
  IN /\ pending' = pending \ others
     /\ call' = [r \in Requests |->
          IF r \in mine THEN [call[r] EXCEPT !.epoch = e]
          ELSE IF r \in others THEN [call[r] EXCEPT !.out = "rejected", !.epoch = 0]
          ELSE call[r]]
     /\ queue' = [queue EXCEPT ![d] =
          Without(@, others) \o Ordered(again)]

\* The runtime whose poll the relay holds; it is told when the poll is replaced.
Held(d) == IF waiter[d].live THEN {waiter[d].runtime} ELSE {}

ConnectAgent(rt, reply) ==
  LET d == DeviceOf[rt]
      e == device[d].epoch + 1
  IN /\ Live(d) /\ e + Dispatched <= MaxEvents
     /\ OpenSession(d, rt)
     /\ IF device[d].runtime \notin {Nil, rt}
        THEN InvalidateDeviceAffinities({d}) ELSE UNCHANGED affinity
     /\ session' = [session EXCEPT ![d] = [runtime |-> rt, epoch |-> e]]
     /\ waiter' = [waiter EXCEPT ![d] = NoWaiter]
     /\ Rebind(d, rt, e)
     /\ agent' = [x \in Runtimes |->
          IF x = rt /\ reply THEN [agent[x] EXCEPT !.pc = "idle", !.epoch = e]
          ELSE IF x \in Held(d) THEN Reconnecting(agent[x])
          ELSE agent[x]]
     /\ UNCHANGED <<pairing, runs>>

PollAgent(rt, e, reply) ==
  LET d == DeviceOf[rt]
      match == MatchIn(queue[d], rt, e)
  IN /\ ValidateAgent(rt, e) /\ TouchSession(rt, e)
     /\ \/ \E first \in match :
             /\ \A i \in match : first <= i
             /\ queue' = [queue EXCEPT ![d] = SubSeq(@, first + 1, Len(@))]
             /\ agent' = IF reply THEN [agent EXCEPT ![rt].pc = "handle",
                                                     ![rt].req = queue[d][first]]
                         ELSE agent
             /\ UNCHANGED waiter
        \/ /\ match = {}
           /\ queue' = [queue EXCEPT ![d] = <<>>]
           /\ waiter' = [waiter EXCEPT ![d] = [runtime |-> rt, epoch |-> e, live |-> reply]]
           /\ agent' = [x \in Runtimes |->
                IF x = rt /\ reply THEN [agent[x] EXCEPT !.pc = "polling"]
                ELSE IF x \in Held(d) THEN Reconnecting(agent[x]) ELSE agent[x]]
     /\ UNCHANGED <<store, session, pending, call, runs>>

\* respondAgent and the continuation of the facade's call: a successful open
\* or start records its handle, for the runtime the call was resolved to.
RespondAgent(rt, e, r, ok, reply) ==
  /\ ValidateAgent(rt, e)
  /\ r \in pending /\ call[r].device = DeviceOf[rt]
  /\ call[r].runtime = rt /\ call[r].epoch = e
  /\ pending' = pending \ {r}
  /\ call' = Settle(call, {r}, IF ok THEN "answered" ELSE "failed")
  /\ affinity' = IF ok /\ call[r].kind \in {"open", "start"}
                 THEN [affinity EXCEPT ![r] = "valid"] ELSE affinity
  /\ agent' = IF reply THEN [agent EXCEPT ![rt].pc = "idle", ![rt].req = 0, ![rt].ok = FALSE]
              ELSE agent
  /\ UNCHANGED <<pairing, device, session, queue, waiter, runs>>

\* A revoked device ends its agent; every other refusal makes it reconnect.
Refused(rt) ==
  /\ agent' = [agent EXCEPT ![rt] =
       IF device[DeviceOf[rt]].revoked THEN Ended(@) ELSE Reconnecting(@)]
  /\ UNCHANGED <<store, core, runs>>

------------------------------------------------------------------------------
(* The agent: StableRuntimeRelayAgentMode#run, connect, pollOnce,             *)
(* handleEnvelope.                                                            *)

\* The call an agent makes in each state of its loop.
Type(rt) == CASE agent[rt].pc = "connect" -> "connect"
              [] agent[rt].pc \in {"idle", "polling"} -> "poll"
              [] agent[rt].pc = "responding" -> "respond"
              [] OTHER -> Nil
Calling(rt) == agent[rt].pc \in {"connect", "idle", "responding"}
Message(rt) == [runtime |-> rt, type |-> Type(rt), epoch |-> agent[rt].epoch,
                req |-> agent[rt].req, ok |-> agent[rt].ok]

Waits(rt) == waiter[DeviceOf[rt]].live /\ waiter[DeviceOf[rt]].runtime = rt

StartAgent(rt) ==
  /\ agent[rt].pc = "off" /\ device[DeviceOf[rt]].paired
  /\ agent' = [agent EXCEPT ![rt].pc = "connect"]
  /\ UNCHANGED <<store, core, stray, runs>>

\* A call under way whose agent no longer waits for it is lost, or reaches the
\* relay later; a poll the relay is holding keeps its waiter.
Abandon(rt) ==
  IF Waits(rt)
  THEN waiter' = [waiter EXCEPT ![DeviceOf[rt]].live = FALSE] /\ UNCHANGED stray
  ELSE /\ stray' \in IF Calling(rt) THEN {stray, {Message(rt)}} ELSE {stray}
       /\ UNCHANGED waiter

\* The runtime process stops or dies.
StopAgent(rt) ==
  /\ agent[rt].pc \notin {"off", "ended"}
  /\ agent' = [agent EXCEPT ![rt] = Ended(@)]
  /\ Abandon(rt)
  /\ UNCHANGED <<store, session, pending, queue, call, runs>>

\* The transport fails and the agent connects again after its back-off.
GiveUpRequest(rt) ==
  /\ Calling(rt) \/ Waits(rt)
  /\ agent' = [agent EXCEPT ![rt] = Reconnecting(@)]
  /\ Abandon(rt)
  /\ UNCHANGED <<store, session, pending, queue, call, runs>>

\* The relay processes the call an agent waits on, or refuses it.
Accepts(rt) ==
  CASE Type(rt) = "connect" -> Live(DeviceOf[rt])
    [] Type(rt) = "poll" -> ValidateAgent(rt, agent[rt].epoch) /\ TouchSession(rt, agent[rt].epoch)
    [] Type(rt) = "respond" ->
         /\ ValidateAgent(rt, agent[rt].epoch)
         /\ agent[rt].req \in pending
         /\ call[agent[rt].req].epoch = agent[rt].epoch

Serve(rt) ==
  /\ Calling(rt)
  /\ \/ Type(rt) = "connect" /\ ConnectAgent(rt, TRUE)
     \/ Type(rt) = "poll" /\ PollAgent(rt, agent[rt].epoch, TRUE)
     \/ Type(rt) = "respond"
        /\ RespondAgent(rt, agent[rt].epoch, agent[rt].req, agent[rt].ok, TRUE)
     \/ ~Accepts(rt) /\ Refused(rt)
  /\ UNCHANGED stray

\* The relay processes a call nobody waits for any more.
ServeStray(m) ==
  /\ m \in stray
  /\ \/ m.type = "connect" /\ ConnectAgent(m.runtime, FALSE)
     \/ m.type = "poll" /\ PollAgent(m.runtime, m.epoch, FALSE)
     \/ m.type = "respond" /\ RespondAgent(m.runtime, m.epoch, m.req, m.ok, FALSE)
  /\ stray' = stray \ {m}

PollTimeout(d) ==
  /\ waiter[d] # NoWaiter
  /\ waiter' = [waiter EXCEPT ![d] = NoWaiter]
  /\ agent' = IF waiter[d].live THEN [agent EXCEPT ![waiter[d].runtime].pc = "idle"] ELSE agent
  /\ UNCHANGED <<store, session, pending, queue, call, stray, runs>>

\* Mutant: the ledger belongs to one connection.
RememberMutant(ledger, entry) == <<entry>>

\* #remember: the oldest terminals go when the ledger is over its limit.
Remember(ledger, entry) ==
  LET all == Append(ledger, entry) IN
  IF Len(all) > LedgerLimit THEN Tail(all) ELSE all
Terminals(rt, r) == {x \in Range(agent[rt].ledger) : x.req = r}

\* The local tool call: it succeeds or fails, and its terminal is remembered.
Execute(rt, r) ==
  /\ runs' = [runs EXCEPT ![r][rt] = @ + 1]
  /\ \E ok \in BOOLEAN : agent' = [agent EXCEPT ![rt].pc = "responding",
       ![rt].ok = ok, ![rt].ledger = Remember(@, [req |-> r, ok |-> ok])]

\* handleEnvelope up to the answer: the cached terminal, or an execution that
\* succeeds or fails.  Device and runtime of the envelope are the agent's own;
\* the deadline is compared with the agent's clock.
HandleEnvelope(rt) ==
  LET r == agent[rt].req IN
  /\ agent[rt].pc = "handle"
  /\ \/ \E x \in Terminals(rt, r) :
          /\ agent' = [agent EXCEPT ![rt].pc = "responding", ![rt].ok = x.ok]
          /\ UNCHANGED runs
     \/ Terminals(rt, r) = {} /\ Execute(rt, r)
  /\ UNCHANGED <<store, core, stray>>

\* Mutant: an envelope past its deadline is answered as a failure.
EnvelopeTooLateMutant(rt) ==
  /\ agent[rt].pc = "handle"
  /\ agent' = [agent EXCEPT ![rt].pc = "responding", ![rt].ok = FALSE]
  /\ UNCHANGED <<store, core, stray, runs>>

EnvelopeTooLate(rt) ==
  /\ agent[rt].pc = "handle"
  /\ agent' = [agent EXCEPT ![rt] = Reconnecting(@)]
  /\ UNCHANGED <<store, core, stray, runs>>

------------------------------------------------------------------------------
RelayNext ==
  \/ \E d \in Devices : BeginPairing(d) \/ ExpirePairing(d) \/ CompletePairing(d)
  \/ \E d \in Devices, a \in Accounts : ApprovePairing(d, a) \/ RevokeDevice(a, d)
  \/ \E a \in Accounts : RevokeAll(a)
  \/ RelayRestart
  \/ \E a \in Accounts, d \in Devices : WorkspaceOpen(a, d)
  \/ \E a \in Accounts, h \in Requests, p \in 0..MaxRequests, k \in Kinds \ {"open"} :
       WorkspaceTool(a, k, h, p)
  \/ \E r \in Requests : DeadlineTimer(r)
  \/ \E rt \in Runtimes : StartAgent(rt) \/ StopAgent(rt) \/ GiveUpRequest(rt) \/ Serve(rt)
                          \/ HandleEnvelope(rt) \/ EnvelopeTooLate(rt)
  \/ \E m \in stray : ServeStray(m)
  \/ \E d \in Devices : PollTimeout(d)

RelaySpec == RelayInit /\ [][RelayNext]_relayVars

------------------------------------------------------------------------------
(* At most once (agent.js ledger, core.js connectAgent): whatever replies are *)
(* lost and however often a request is queued again, no runtime executes it   *)
(* twice, and no second runtime executes it.                                  *)
ExecutedAtMostOnce ==
  \A r \in Requests : Cardinality({rt \in Runtimes : runs[r][rt] > 0}) <= 1
                      /\ \A rt \in Runtimes : runs[r][rt] <= 1

(* A relay-owned handle reaches only its own runtime (mcp-facade.js           *)
(* resolveWorkspace, resolveProcess): a request made through a handle runs    *)
(* only in the process that executed the request which made the handle, and   *)
(* only for the account that made it.                                         *)
HandleReachesItsRuntime ==
  \A r \in Requests, rt \in Runtimes :
    runs[r][rt] > 0 /\ call[r].kind # "open" =>
      /\ runs[call[r].workspace][rt] > 0
      /\ call[r].account = call[call[r].workspace].account
      /\ call[r].process # 0 => runs[call[r].process][rt] > 0

(* Revocation fences (core.js revokeDevice, revokeAll): from the moment a     *)
(* device is revoked nothing is pending on it, it has no session, and no      *)
(* handle on it resolves.                                                     *)
RevokedIsFenced ==
  \A d \in Devices : device[d].revoked =>
    /\ PendingOf(d) = {} /\ queue[d] = <<>> /\ session[d] = NoSession
    /\ \A r \in Requests : affinity[r] = "valid" => call[r].device # d

(* No stranded request (core.js connectAgent, #queueRequest,                  *)
(* #dequeueEnvelope): a pending request is in the queue, or the agent of its  *)
(* runtime has it in hand, or that agent is about to connect again, which     *)
(* queues it again.  Only a runtime that is gone leaves it to its deadline.   *)
NoStrandedRequest ==
  \A r \in pending :
    LET rt == call[r].runtime IN
    \/ Queued(r)
    \/ agent[rt].pc \in {"handle", "responding"} /\ agent[rt].req = r
    \/ agent[rt].pc \in {"connect", "ended"}

------------------------------------------------------------------------------
\* What the client of a request sees, the runtime its request is addressed to, and which
\* runtimes have executed which requests.
PromiseOf(r) == IF call[r] = NoCall THEN "none" ELSE IF r \in pending THEN "open" ELSE call[r].out
TargetOf(r) == IF call[r] = NoCall THEN Nil ELSE call[r].runtime
Executions == {x \in Requests \X Runtimes : runs[x[1]][x[2]] > 0}

Promises == INSTANCE RemoteCall WITH
  Nobody <- Nil, executed <- Executions,
  promise <- [r \in Requests |-> PromiseOf(r)], target <- [r \in Requests |-> TargetOf(r)]

(* The relay implements the abstract call (core.js dispatchForAccount,        *)
(* respondAgent, #rejectPending; agent.js handleEnvelope): whatever replies   *)
(* are lost, requests queued again, connections replaced or late, a call      *)
(* settles once, and with an answer or a failure only after the runtime it    *)
(* was addressed to has executed it.                                          *)
CallsKeepTheirPromise == Promises!CallSpec
==============================================================================
