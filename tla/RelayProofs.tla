----------------------------- MODULE RelayProofs -----------------------------
(***************************************************************************)
(* What the relay promises for any number of accounts, devices, runtimes,  *)
(* requests and pending limits, whatever calls are lost or arrive late.    *)
(*                                                                         *)
(* RelayInv ties the three places a request is known: the relay's item     *)
(* names a runtime of its device (RequestFits), the agent of that runtime  *)
(* has it in hand or has answered it (AgentFits), a late response is of    *)
(* what its runtime executed (MessageFits); sessions and held polls are of *)
(* the device row (SessionFits).  StepKeeps says what a step owes of that. *)
(* LedgerInv adds the ledger, and what is missing in it was evicted.       *)
(*                                                                         *)
(* ReachInv adds where a pending request is: queued, in hand, or of an     *)
(* agent that is away (Placed).  It needs the epochs (a late call is never *)
(* ahead of the row), that a held poll has emptied its queue, and that a   *)
(* poll nobody waits on is of an agent that is away: a request handed to   *)
(* it is queued again by that agent's connection.                          *)
(*                                                                         *)
(* Calls is the refinement: every step is one of RemoteCall, or none.      *)
(***************************************************************************)
EXTENDS Relay, FiniteSetTheorems, FunctionTheorems, SequenceTheorems, TLAPS

Outs == {Nil, "rejected", "answered", "failed"}
CallRecord == [kind : Kinds, workspace : 0..MaxRequests, process : 0..MaxRequests,
               account : Accounts, device : Devices, runtime : Runtimes, epoch : Nat, out : Outs]
Made(r) == call[r] # NoCall
Places == {"off", "connect", "idle", "polling", "handle", "responding", "ended"}
DeviceRecord == [paired : BOOLEAN, account : Accounts \cup {Nil}, revoked : BOOLEAN,
                 epoch : Nat, runtime : Runtimes \cup {Nil}]
PairingRecord == [state : {"none", "open", "expired", "consumed"},
                  account : Accounts \cup {Nil}]
SessionRecord == [runtime : Runtimes \cup {Nil}, epoch : Nat]
WaiterRecord == [runtime : Runtimes \cup {Nil}, epoch : Nat, live : BOOLEAN]
Entry == [req : Requests, ok : BOOLEAN]
AgentRecord == [pc : Places, epoch : Nat, req : 0..MaxRequests, ok : BOOLEAN,
                ledger : Seq(Entry)]
MessageRecord == [runtime : Runtimes, type : {"connect", "poll", "respond"}, epoch : Nat,
                  req : 0..MaxRequests, ok : BOOLEAN]

RelayTypes ==
  /\ device \in [Devices -> DeviceRecord] /\ pairing \in [Devices -> PairingRecord]
  /\ affinity \in [Requests -> {Nil, "valid", "invalid"}]
  /\ session \in [Devices -> SessionRecord] /\ waiter \in [Devices -> WaiterRecord]
  /\ queue = [d \in Devices |-> queue[d]]
  /\ pending \subseteq {r \in Requests : Made(r)}
  /\ call \in [Requests -> CallRecord \cup {NoCall}]
  /\ agent \in [Runtimes -> AgentRecord]
  /\ stray \subseteq MessageRecord
  /\ runs \in [Requests -> [Runtimes -> Nat]]

\* A session is of the device's row, and a poll that is held of the session.
SessionFits(d) ==
  /\ session[d] # NoSession =>
       /\ Live(d) /\ session[d].runtime \in Runtimes /\ DeviceOf[session[d].runtime] = d
       /\ session[d].runtime = device[d].runtime
  /\ waiter[d] # NoWaiter => session[d] # NoSession /\ waiter[d].runtime = session[d].runtime
  /\ waiter[d].live => agent[waiter[d].runtime].pc = "polling"

\* A request is of a runtime of its device; one through handles was made after the runtime
\* had executed what made them.
RequestFits(r) ==
  /\ Made(r) => DeviceOf[call[r].runtime] = call[r].device
  /\ Made(r) /\ call[r].kind # "open" =>
       /\ call[r].workspace \in Requests /\ Made(call[r].workspace)
       /\ call[call[r].workspace].account = call[r].account
       /\ runs[call[r].workspace][call[r].runtime] > 0
       /\ call[r].process # 0 => runs[call[r].process][call[r].runtime] > 0
  /\ affinity[r] # Nil => Made(r) /\ runs[r][call[r].runtime] > 0
  /\ \A rt \in Runtimes : runs[r][rt] > 0 => Made(r) /\ call[r].runtime = rt

\* An agent has a request of its own in hand, and answers what it has executed.
AgentFits(rt) ==
  /\ agent[rt].pc \in {"handle", "responding"} =>
       /\ agent[rt].req \in Requests /\ Made(agent[rt].req)
       /\ call[agent[rt].req].runtime = rt
  /\ agent[rt].pc = "responding" => runs[agent[rt].req][rt] > 0
  /\ \A i \in DOMAIN agent[rt].ledger : runs[agent[rt].ledger[i].req][rt] > 0
MessageFits(m) == m.type = "respond" => m.req \in Requests /\ runs[m.req][m.runtime] > 0

RelayInv ==
  /\ RelayTypes /\ RevokedIsFenced
  /\ \A d \in Devices : SessionFits(d)
  /\ \A r \in Requests : RequestFits(r)
  /\ \A rt \in Runtimes : AgentFits(rt)
  /\ \A m \in stray : MessageFits(m)

\* What the ledger of an agent that runs has to know: its entries are of different
\* requests, and of what its runtime executed only evicted requests are missing, so the
\* ledger is full when one is.
LedgerFits(rt) ==
  LET l == agent[rt].ledger IN
  /\ Len(l) <= LedgerLimit
  /\ \A i, k \in DOMAIN l : l[i].req = l[k].req => i = k
  /\ agent[rt].pc # "ended" =>
       \A r \in Requests : runs[r][rt] > 0 => \/ \E i \in DOMAIN l : l[i].req = r
                                                \/ Len(l) = LedgerLimit

LedgerInv == RelayInv /\ \A rt \in Runtimes : LedgerFits(rt)

----------------------------------------------------------------------------
\* Requests are only added, and what they are for stays.
Kept(r) == /\ call'[r].kind = call[r].kind /\ call'[r].workspace = call[r].workspace
           /\ call'[r].process = call[r].process /\ call'[r].account = call[r].account
           /\ call'[r].device = call[r].device /\ call'[r].runtime = call[r].runtime
CallsKept == \A r \in Requests : Made(r) => Made(r)' /\ Kept(r)
RunsKept ==
  \A r \in Requests, rt \in Runtimes :
    /\ runs'[r][rt] >= runs[r][rt]
    /\ runs'[r][rt] > 0 => runs[r][rt] > 0 \/ (Made(r) /\ call[r].runtime = rt)
\* The agent takes nothing into its hands, and its ledger loses nothing but as it ends.
AgentCalm(rt) ==
  /\ agent'[rt].pc \in {"handle", "responding"} =>
       agent'[rt].pc = agent[rt].pc /\ agent'[rt].req = agent[rt].req
  /\ agent'[rt].ledger = agent[rt].ledger
     \/ (agent'[rt].ledger = << >> /\ agent'[rt].pc = "ended")

\* A handle is granted only for what was executed.
Granted == \A r \in Requests : affinity'[r] # Nil =>
             affinity[r] # Nil \/ (Made(r) /\ runs[r][call[r].runtime] > 0)

\* A registered item is never the empty one.
LEMMA NoCallKind == \A x \in CallRecord : x # NoCall
  BY DEF CallRecord, NoCall, Kinds, Nil

\* What a step owes the invariant: its types, the fence, the sessions, and a
\* reason for each request, agent and late message it changes; the rest
\* follows from what stays.
LEMMA StepKeeps ==
  ASSUME RelayInv, RelayTypes', RevokedIsFenced', \A d \in Devices : SessionFits(d)',
         CallsKept, RunsKept, Granted,
         \A r \in Requests : Made(r)' => Made(r) \/ RequestFits(r)',
         \A rt \in Runtimes : AgentCalm(rt) \/ AgentFits(rt)',
         \A m \in stray' : m \in stray \/ MessageFits(m)'
  PROVE  RelayInv'
  <1>1. ASSUME NEW r \in Requests PROVE RequestFits(r)'
    <2>1. CASE ~Made(r)'
      BY <2>1 DEF RequestFits, CallsKept, RunsKept, Granted, RelayInv, RelayTypes
    <2>2. CASE Made(r)
      <3>1. RequestFits(r) /\ Made(r)' /\ Kept(r)
        BY <2>2 DEF RelayInv, CallsKept
      <3>2. call[r] \in CallRecord
        BY <2>2 DEF RelayInv, RelayTypes, Made
      <3>3. DeviceOf[call'[r].runtime] = call'[r].device
        BY <2>2, <3>1 DEF RequestFits, Kept
      <3>4. ASSUME call'[r].kind # "open"
            PROVE  /\ call'[r].workspace \in Requests /\ Made(call[r].workspace)'
                   /\ call'[call'[r].workspace].account = call'[r].account
                   /\ runs'[call'[r].workspace][call'[r].runtime] > 0
                   /\ call'[r].process # 0 => runs'[call'[r].process][call'[r].runtime] > 0
        <4>1. PICK h \in Requests, rt \in Runtimes, p \in 0..MaxRequests :
                 h = call[r].workspace /\ rt = call[r].runtime /\ p = call[r].process
          BY <2>2, <3>1, <3>2, <3>4 DEF RequestFits, Kept, CallRecord
        <4>2. /\ Made(h) /\ call[h].account = call[r].account /\ runs[h][rt] > 0
              /\ p # 0 => runs[p][rt] > 0
          BY <2>2, <3>1, <3>4, <4>1 DEF RequestFits, Kept
        <4>3. Made(h)' /\ call'[h].account = call[h].account /\ runs'[h][rt] > 0
          BY <4>2 DEF CallsKept, Kept, RunsKept, RelayInv, RelayTypes
        <4>4. p # 0 => runs'[p][rt] > 0
          <5>1. p # 0 => p \in Requests
            BY DEF Requests
          <5> QED
            BY <4>2, <5>1 DEF RunsKept, RelayInv, RelayTypes
        <4> QED
          BY <3>1, <4>1, <4>2, <4>3, <4>4 DEF Kept, Made
      <3>5. affinity'[r] # Nil => runs'[r][call'[r].runtime] > 0
        <4>1. PICK rt \in Runtimes : rt = call[r].runtime
          BY <3>2 DEF CallRecord
        <4>2. affinity'[r] # Nil => runs[r][rt] > 0
          BY <3>1, <4>1 DEF Granted, RequestFits
        <4> QED
          BY <3>1, <4>1, <4>2 DEF Kept, RunsKept, RelayInv, RelayTypes
      <3>6. \A rt \in Runtimes : runs'[r][rt] > 0 => call'[r].runtime = rt
        BY <3>1 DEF RunsKept, RequestFits, Kept
      <3> QED
        BY <3>1, <3>3, <3>4, <3>5, <3>6 DEF RequestFits, Made
    <2> QED
      BY <2>1, <2>2
  <1>2. ASSUME NEW rt \in Runtimes PROVE AgentFits(rt)'
    <2>1. CASE AgentCalm(rt)
      <3>1. AgentFits(rt) /\ agent[rt] \in AgentRecord
        BY DEF RelayInv, RelayTypes
      <3>2. \A i \in DOMAIN agent'[rt].ledger : runs'[agent'[rt].ledger[i].req][rt] > 0
        <4>1. CASE agent'[rt].ledger = << >>
          BY <4>1
        <4>2. CASE agent'[rt].ledger = agent[rt].ledger
          <5> SUFFICES ASSUME NEW i \in DOMAIN agent[rt].ledger
                       PROVE  runs'[agent[rt].ledger[i].req][rt] > 0
            BY <4>2
          <5>1. agent[rt].ledger \in Seq(Entry)
            BY <3>1 DEF AgentRecord
          <5>2. agent[rt].ledger[i] \in Entry
            BY <5>1
          <5>3. PICK q \in Requests : q = agent[rt].ledger[i].req
            BY <5>2 DEF Entry
          <5> QED
            BY <3>1, <5>3 DEF AgentFits, RunsKept, RelayInv, RelayTypes
        <4> QED
          BY <2>1, <4>1, <4>2 DEF AgentCalm
      <3>3. ASSUME agent'[rt].pc \in {"handle", "responding"}
            PROVE  /\ agent'[rt].req \in Requests /\ Made(agent[rt].req)'
                   /\ call'[agent'[rt].req].runtime = rt
                   /\ agent'[rt].pc = "responding" => runs'[agent'[rt].req][rt] > 0
        <4>1. PICK q \in Requests : q = agent[rt].req
          BY <2>1, <3>1, <3>3 DEF AgentCalm, AgentFits
        <4>2. /\ Made(q) /\ call[q].runtime = rt
              /\ agent[rt].pc = "responding" => runs[q][rt] > 0
          BY <2>1, <3>1, <3>3, <4>1 DEF AgentCalm, AgentFits
        <4>3. /\ Made(q)' /\ call'[q].runtime = rt
              /\ agent[rt].pc = "responding" => runs'[q][rt] > 0
          BY <4>2 DEF CallsKept, Kept, RunsKept, RelayInv, RelayTypes
        <4> QED
          BY <2>1, <3>3, <4>1, <4>3 DEF AgentCalm, Made
      <3> QED
        BY <3>2, <3>3 DEF AgentFits, Made
    <2> QED
      BY <2>1
  <1>3. ASSUME NEW m \in stray' PROVE MessageFits(m)'
    <2>1. CASE m \in stray
      <3>1. m.runtime \in Runtimes /\ MessageFits(m)
        BY <2>1 DEF RelayInv, RelayTypes, MessageRecord
      <3> QED
        BY <3>1 DEF MessageFits, RunsKept, RelayInv, RelayTypes
    <2> QED
      BY <2>1
  <1> QED
    BY <1>1, <1>2, <1>3 DEF RelayInv

----------------------------------------------------------------------------
\* An edit of a request changes its epoch and how it settled, never what it is for.
Edited(r) == call'[r] = call[r]
             \/ (Made(r) /\ \E e \in Nat, o \in Outs :
                               call'[r] = [call[r] EXCEPT !.epoch = e, !.out = o])

\* Requests that are only edited keep their types and what they are for.
LEMMA CallEdits ==
  ASSUME RelayTypes, call' = [r \in Requests |-> call'[r]], \A r \in Requests : Edited(r)
  PROVE  /\ call' \in [Requests -> CallRecord \cup {NoCall}] /\ CallsKept
         /\ \A r \in Requests : Made(r)' = Made(r)
  <1>1. ASSUME NEW r \in Requests
        PROVE  /\ call'[r] \in CallRecord \cup {NoCall} /\ Made(r)' = Made(r)
               /\ Made(r) => Kept(r)
    <2>1. CASE call'[r] = call[r]
      BY <2>1 DEF RelayTypes, Made, Kept
    <2>2. ASSUME Made(r), NEW e \in Nat, NEW o \in Outs,
                 call'[r] = [call[r] EXCEPT !.epoch = e, !.out = o]
          PROVE  call'[r] \in CallRecord /\ Kept(r)
      <3>1. PICK c \in CallRecord : c = call[r]
        BY <2>2 DEF RelayTypes, Made
      <3>2. [c EXCEPT !.epoch = e, !.out = o] \in CallRecord
        BY DEF CallRecord
      <3> QED
        BY <2>2, <3>1, <3>2 DEF Kept, CallRecord
    <2> QED
      BY <2>1, <2>2, NoCallKind DEF Edited, Made
  <1> QED
    BY <1>1 DEF CallsKept

\* #rejectPending and the answer of an agent only edit requests that are
\* pending.
LEMMA Settled ==
  ASSUME RelayTypes, NEW S \in SUBSET pending, NEW o \in Outs, call' = Settle(call, S, o)
  PROVE  /\ call' \in [Requests -> CallRecord \cup {NoCall}] /\ CallsKept
         /\ \A r \in Requests : Made(r)' = Made(r)
  <1>1. \A r \in S : r \in Requests /\ Made(r)
    BY DEF RelayTypes
  <1>2. call' = [r \in Requests |-> call'[r]]
    BY DEF Settle
  <1>3. ASSUME NEW r \in Requests PROVE Edited(r)
    <2>1. CASE r \notin S
      BY <2>1 DEF Settle, Edited
    <2>2. CASE r \in S
      <3>1. call'[r] = [call[r] EXCEPT !.out = o, !.epoch = 0]
        BY <2>2 DEF Settle
      <3>2. call[r] \in CallRecord
        BY <1>1, <2>2 DEF RelayTypes, Made
      <3>3. call'[r] = [call[r] EXCEPT !.epoch = 0, !.out = o]
        BY <3>1, <3>2 DEF CallRecord
      <3> QED
        BY <1>1, <2>2, <3>3 DEF Edited
    <2> QED
      BY <2>1, <2>2
  <1> QED
    BY <1>2, <1>3, CallEdits

\* A step that puts nothing on a revoked device leaves it fenced.
LEMMA FencedKeeps ==
  ASSUME RelayInv, CallsKept, pending' \subseteq Requests,
         \A d \in Devices : device'[d].revoked =>
           device[d].revoked /\ queue'[d] = << >> /\ session'[d] = NoSession,
         \A r \in pending' : r \in pending \/ ~device'[call'[r].device].revoked,
         \A r \in Requests : affinity'[r] = "valid" =>
           affinity[r] = "valid" \/ ~device'[call'[r].device].revoked
  PROVE  RevokedIsFenced'
  <1> SUFFICES ASSUME NEW d \in Devices, device'[d].revoked
               PROVE  /\ PendingOf(d)' = {} /\ queue'[d] = << >> /\ session'[d] = NoSession
                      /\ \A r \in Requests : affinity'[r] = "valid" => call'[r].device # d
    BY DEF RevokedIsFenced
  <1>1. /\ PendingOf(d) = {} /\ queue'[d] = << >> /\ session'[d] = NoSession
        /\ \A r \in Requests : affinity[r] = "valid" => call[r].device # d
    BY DEF RelayInv, RevokedIsFenced
  <1>2. ASSUME NEW r \in pending', call'[r].device = d PROVE FALSE
    <2>1. r \in pending
      BY <1>2
    <2>2. Made(r) /\ r \in Requests
      BY <2>1 DEF RelayInv, RelayTypes
    <2>3. call[r].device = d
      BY <1>2, <2>2 DEF CallsKept, Kept
    <2> QED
      BY <1>1, <2>1, <2>3 DEF PendingOf
  <1>3. ASSUME NEW r \in Requests, affinity'[r] = "valid", call'[r].device = d PROVE FALSE
    <2>1. affinity[r] = "valid"
      BY <1>3
    <2>2. Made(r)
      BY <2>1 DEF RelayInv, RequestFits, Nil
    <2>3. call[r].device = d
      BY <1>3, <2>2 DEF CallsKept, Kept
    <2> QED
      BY <1>1, <2>1, <2>3
  <1> QED
    BY <1>1, <1>2, <1>3 DEF PendingOf

----------------------------------------------------------------------------
\* A step of one agent that does not poll, and that the relay takes no part
\* in.
LEMMA AgentStep ==
  ASSUME RelayInv, NEW rt \in Runtimes, UNCHANGED <<store, core, stray>>,
         agent' = [agent EXCEPT ![rt] = agent'[rt]], agent'[rt] \in AgentRecord,
         agent[rt].pc # "polling", AgentCalm(rt) \/ AgentFits(rt)',
         RunsKept, runs' \in [Requests -> [Runtimes -> Nat]]
  PROVE  RelayInv'
  <1> USE DEF store, core
  <1>1. RelayTypes'
    BY DEF RelayInv, RelayTypes, Made
  <1>2. CallsKept /\ Granted
    BY DEF CallsKept, Granted, Kept, Made
  <1>3. RevokedIsFenced'
    BY DEF RelayInv, RevokedIsFenced, PendingOf
  <1>4. ASSUME NEW d \in Devices PROVE SessionFits(d)'
    <2>1. SessionFits(d)
      BY DEF RelayInv
    <2>2. waiter[d].live => waiter[d].runtime \in Runtimes
      BY <2>1 DEF SessionFits, NoWaiter, NoSession
    <2>3. waiter[d].live => agent'[waiter[d].runtime].pc = "polling"
      BY SMTT(60), <2>1, <2>2 DEF SessionFits, RelayInv, RelayTypes
    <2> QED
      BY <2>1, <2>3 DEF SessionFits, Live
  <1>5. \A x \in Runtimes : AgentCalm(x) \/ AgentFits(x)'
    BY DEF AgentCalm, RelayInv, RelayTypes
  <1>6. /\ \A r \in Requests : Made(r)' => Made(r)
        /\ \A m \in stray' : m \in stray
    BY DEF Made
  <1> QED
    BY <1>1, <1>2, <1>3, <1>4, <1>5, <1>6, StepKeeps

\* An agent that has ended has no ledger; one that connects again keeps it.
LEMMA Endings ==
  ASSUME NEW rt \in Runtimes, agent[rt] \in AgentRecord
  PROVE  /\ Ended(agent[rt]) \in AgentRecord /\ Reconnecting(agent[rt]) \in AgentRecord
         /\ Ended(agent[rt]).pc = "ended" /\ Ended(agent[rt]).ledger = << >>
         /\ Reconnecting(agent[rt]).pc = "connect"
         /\ Reconnecting(agent[rt]).ledger = agent[rt].ledger
  <1>1. << >> \in Seq(Entry)
    OBVIOUS
  <1>2. 0 \in 0..MaxRequests /\ MaxRequests \in Nat
    BY RelayAssumption
  <1>3. NoAgent \in AgentRecord /\ NoAgent.ledger = << >>
    BY <1>1, <1>2 DEF NoAgent, AgentRecord, Places
  <1>4. PICK a \in AgentRecord : a = NoAgent /\ a.ledger = << >>
    BY <1>3
  <1>5. Ended(agent[rt]) = [a EXCEPT !.pc = "ended"]
    BY <1>4 DEF Ended
  <1>6. [a EXCEPT !.pc = "ended"] \in AgentRecord
    BY DEF AgentRecord, Places
  <1>7. [a EXCEPT !.pc = "ended"].pc = "ended" /\ [a EXCEPT !.pc = "ended"].ledger = << >>
    BY <1>4 DEF AgentRecord
  <1>8. PICK g \in AgentRecord : g = agent[rt]
    OBVIOUS
  <1>9. [g EXCEPT !.pc = "connect", !.epoch = 0, !.req = 0, !.ok = FALSE] \in AgentRecord
    BY <1>2 DEF AgentRecord, Places
  <1>10. /\ [g EXCEPT !.pc = "connect", !.epoch = 0, !.req = 0, !.ok = FALSE].pc = "connect"
         /\ [g EXCEPT !.pc = "connect", !.epoch = 0, !.req = 0, !.ok = FALSE].ledger = g.ledger
    BY DEF AgentRecord
  <1> QED
    BY <1>5, <1>6, <1>7, <1>8, <1>9, <1>10 DEF Reconnecting

\* An agent that ends or connects again takes nothing into its hands.
LEMMA LeavesCalmly ==
  ASSUME RelayTypes, NEW rt \in Runtimes,
         agent' = [agent EXCEPT ![rt] = Ended(agent[rt])]
         \/ agent' = [agent EXCEPT ![rt] = Reconnecting(agent[rt])]
  PROVE  /\ agent' = [agent EXCEPT ![rt] = agent'[rt]] /\ agent'[rt] \in AgentRecord
         /\ AgentCalm(rt) /\ agent'[rt].pc \in {"ended", "connect"}
  BY Endings DEF RelayTypes, AgentCalm

\* The first connection of a runtime.
LEMMA StartAgentKeeps ==
  ASSUME RelayInv, NEW rt \in Runtimes, StartAgent(rt)
  PROVE  RelayInv'
  <1>1. agent' = [agent EXCEPT ![rt].pc = "connect"] /\ agent[rt] \in AgentRecord
    BY DEF StartAgent, RelayInv, RelayTypes
  <1>2. agent'[rt] \in AgentRecord /\ agent' = [agent EXCEPT ![rt] = agent'[rt]]
    BY <1>1 DEF AgentRecord, Places, RelayInv, RelayTypes
  <1>3. AgentCalm(rt)
    BY <1>1 DEF AgentCalm, AgentRecord, RelayInv, RelayTypes
  <1>4. RunsKept /\ runs' \in [Requests -> [Runtimes -> Nat]]
    BY DEF StartAgent, RunsKept, RelayInv, RelayTypes
  <1> QED
    BY <1>2, <1>3, <1>4, AgentStep DEF StartAgent

\* A refused call, and an envelope past its deadline.
LEMMA RefusedKeeps ==
  ASSUME RelayInv, NEW rt \in Runtimes, agent[rt].pc # "polling", UNCHANGED stray,
         Refused(rt) \/ EnvelopeTooLate(rt)
  PROVE  RelayInv'
  <1>1. /\ agent' = [agent EXCEPT ![rt] = agent'[rt]] /\ agent'[rt] \in AgentRecord
        /\ AgentCalm(rt)
    BY LeavesCalmly DEF Refused, EnvelopeTooLate, RelayInv
  <1>2. UNCHANGED <<store, core, stray, runs>>
    BY DEF Refused, EnvelopeTooLate
  <1>3. RunsKept /\ runs' \in [Requests -> [Runtimes -> Nat]]
    BY <1>2 DEF RunsKept, RelayInv, RelayTypes
  <1> QED
    BY <1>1, <1>2, <1>3, AgentStep

\* #remember adds the new terminal and keeps or drops old ones; it invents
\* none.
LEMMA Remembers ==
  ASSUME NEW l \in Seq(Entry), NEW e \in Entry
  PROVE  /\ Remember(l, e) \in Seq(Entry)
         /\ \A i \in DOMAIN Remember(l, e) :
              Remember(l, e)[i] = e \/ \E k \in DOMAIN l : Remember(l, e)[i] = l[k]
  <1>1. LedgerLimit \in Nat
    BY RelayAssumption
  <1> DEFINE all == Append(l, e)
  <1>2. all \in Seq(Entry) /\ Len(all) = Len(l) + 1 /\ Len(l) \in Nat
    OBVIOUS
  <1>3. \A i \in 1..Len(all) : all[i] = e \/ \E k \in DOMAIN l : all[i] = l[k]
    OBVIOUS
  <1>4. CASE Len(all) > LedgerLimit
    <2>1. Remember(l, e) = Tail(all)
      BY <1>4 DEF Remember
    <2>2. Tail(all) \in Seq(Entry) /\ Len(Tail(all)) = Len(l)
      BY <1>2
    <2>3. \A i \in 1..Len(l) : Tail(all)[i] = all[i + 1]
      BY <1>2
    <2>4. \A i \in DOMAIN Tail(all) : i + 1 \in 1..Len(all) /\ Tail(all)[i] = all[i + 1]
      BY <1>2, <2>2, <2>3
    <2> HIDE DEF all
    <2> QED
      BY <1>3, <2>1, <2>2, <2>4
  <1>5. CASE ~(Len(all) > LedgerLimit)
    <2>1. Remember(l, e) = all
      BY <1>5 DEF Remember
    <2>2. DOMAIN all = 1..Len(all)
      BY <1>2
    <2> HIDE DEF all
    <2> QED
      BY <1>2, <1>3, <2>1, <2>2
  <1> QED
    BY <1>4, <1>5

\* A request answered from the ledger was executed by this runtime.
LEMMA HitKeeps ==
  ASSUME RelayInv, NEW rt \in Runtimes, agent[rt].pc = "handle",
         NEW x \in Terminals(rt, agent[rt].req),
         agent' = [agent EXCEPT ![rt].pc = "responding", ![rt].ok = x.ok],
         UNCHANGED <<store, core, stray, runs>>
  PROVE  RelayInv'
  <1>1. PICK i \in DOMAIN agent[rt].ledger :
           x = agent[rt].ledger[i] /\ x.req = agent[rt].req
    BY DEF Terminals, Range
  <1>2. PICK g \in AgentRecord : g = agent[rt]
    BY DEF RelayInv, RelayTypes
  <1>3. x \in Entry
    BY <1>1, <1>2 DEF AgentRecord
  <1>4. PICK b \in BOOLEAN : b = x.ok
    BY <1>3 DEF Entry
  <1>5. agent'[rt] = [g EXCEPT !.pc = "responding", !.ok = b]
    BY <1>2, <1>4 DEF RelayInv, RelayTypes
  <1>6. [g EXCEPT !.pc = "responding", !.ok = b] \in AgentRecord
    BY DEF AgentRecord, Places
  <1>7. /\ agent'[rt].req = agent[rt].req /\ agent'[rt].ledger = agent[rt].ledger
        /\ agent'[rt].pc = "responding"
    <2>1. /\ [g EXCEPT !.pc = "responding", !.ok = b].pc = "responding"
          /\ [g EXCEPT !.pc = "responding", !.ok = b].req = g.req
          /\ [g EXCEPT !.pc = "responding", !.ok = b].ledger = g.ledger
      BY DEF AgentRecord
    <2> QED
      BY <1>2, <1>5, <2>1
  <1>8. /\ agent[rt].req \in Requests /\ Made(agent[rt].req)
        /\ call[agent[rt].req].runtime = rt /\ runs[agent[rt].req][rt] > 0
        /\ \A k \in DOMAIN agent[rt].ledger : runs[agent[rt].ledger[k].req][rt] > 0
    BY <1>1 DEF RelayInv, AgentFits
  <1>9. AgentFits(rt)'
    BY <1>7, <1>8 DEF AgentFits, Made, core
  <1>10. agent' = [agent EXCEPT ![rt] = agent'[rt]]
    BY DEF RelayInv, RelayTypes
  <1>11. RunsKept /\ runs' \in [Requests -> [Runtimes -> Nat]]
    BY DEF RunsKept, RelayInv, RelayTypes
  <1> QED
    BY <1>5, <1>6, <1>9, <1>10, <1>11, AgentStep

\* An execution counts once, for one request of one runtime.
LEMMA Ran ==
  ASSUME RelayTypes, NEW rt \in Runtimes, NEW r \in Requests,
         runs' = [runs EXCEPT ![r][rt] = @ + 1]
  PROVE  /\ runs' \in [Requests -> [Runtimes -> Nat]]
         /\ runs'[r][rt] = runs[r][rt] + 1
         /\ \A q \in Requests, x \in Runtimes : q # r \/ x # rt => runs'[q][x] = runs[q][x]
  BY DEF RelayTypes

\* An execution is of a request the agent was handed, so of its own runtime.
LEMMA ExecuteKeeps ==
  ASSUME RelayInv, NEW rt \in Runtimes, agent[rt].pc = "handle",
         NEW r, r = agent[rt].req, Execute(rt, r), UNCHANGED <<store, core, stray>>
  PROVE  RelayInv'
  <1>1. r \in Requests /\ Made(r) /\ call[r].runtime = rt
    BY DEF RelayInv, AgentFits
  <1>2. /\ runs' \in [Requests -> [Runtimes -> Nat]]
        /\ runs'[r][rt] = runs[r][rt] + 1
        /\ \A q \in Requests, x \in Runtimes : q # r \/ x # rt => runs'[q][x] = runs[q][x]
    <2>1. RelayTypes /\ runs' = [runs EXCEPT ![r][rt] = @ + 1]
      BY DEF RelayInv, Execute
    <2> QED
      BY ZenonT(60), <1>1, <2>1, Ran
  <1>3. RunsKept
    BY <1>1, <1>2 DEF RunsKept, RelayInv, RelayTypes
  <1>4. PICK ok \in BOOLEAN : agent' = [agent EXCEPT ![rt].pc = "responding",
           ![rt].ok = ok, ![rt].ledger = Remember(@, [req |-> r, ok |-> ok])]
    BY DEF Execute
  <1>5. PICK g \in AgentRecord : g = agent[rt]
    BY DEF RelayInv, RelayTypes
  <1>6. PICK e \in Entry : e = [req |-> r, ok |-> ok]
    BY <1>1 DEF Entry
  <1>7. PICK l \in Seq(Entry) : l = g.ledger
    BY DEF AgentRecord
  <1>8. PICK m \in Seq(Entry) : m = Remember(l, e)
    BY Remembers
  <1>9. agent'[rt] = [g EXCEPT !.pc = "responding", !.ok = ok, !.ledger = m]
    BY <1>4, <1>5, <1>6, <1>7, <1>8 DEF RelayInv, RelayTypes
  <1>10. [g EXCEPT !.pc = "responding", !.ok = ok, !.ledger = m] \in AgentRecord
    BY DEF AgentRecord, Places
  <1>11. agent'[rt].req = r /\ agent'[rt].ledger = m /\ agent'[rt].pc = "responding"
    BY <1>5, <1>9 DEF AgentRecord
  <1>12. ASSUME NEW i \in DOMAIN m PROVE runs'[m[i].req][rt] > 0
    <2>1. CASE m[i] = e
      BY <1>1, <1>2, <1>6, <2>1 DEF RelayInv, RelayTypes
    <2>2. ASSUME NEW k \in DOMAIN l, m[i] = l[k] PROVE runs'[m[i].req][rt] > 0
      <3>1. l[k] \in Entry /\ runs[l[k].req][rt] > 0
        BY <1>5, <1>7 DEF RelayInv, AgentFits
      <3>2. PICK q \in Requests : q = l[k].req
        BY <3>1 DEF Entry
      <3> QED
        BY <1>2, <1>3, <2>2, <3>1, <3>2 DEF RunsKept, RelayInv, RelayTypes
    <2> QED
      BY <1>8, <2>1, <2>2, Remembers
  <1>13. AgentFits(rt)'
    <2>1. Made(r)' /\ call'[r].runtime = rt /\ runs'[r][rt] > 0
      BY <1>1, <1>2 DEF core, Made, RelayInv, RelayTypes
    <2> QED
      BY <1>1, <1>11, <1>12, <2>1 DEF AgentFits, Made
  <1>14. agent' = [agent EXCEPT ![rt] = agent'[rt]]
    BY <1>4 DEF RelayInv, RelayTypes
  <1> QED
    BY <1>2, <1>3, <1>9, <1>10, <1>13, <1>14, AgentStep

\* handleEnvelope keeps the invariant.
LEMMA HandleEnvelopeKeeps ==
  ASSUME RelayInv, NEW rt \in Runtimes, HandleEnvelope(rt)
  PROVE  RelayInv'
  BY HitKeeps, ExecuteKeeps DEF HandleEnvelope

----------------------------------------------------------------------------
\* A poll that is held is of the runtime of the session of its device.
LEMMA HeldPoll ==
  ASSUME RelayInv, NEW d \in Devices, waiter[d] # NoWaiter
  PROVE  /\ waiter[d].runtime \in Runtimes /\ DeviceOf[waiter[d].runtime] = d
         /\ waiter[d].runtime = session[d].runtime /\ session[d] # NoSession
         /\ waiter[d].live => agent[waiter[d].runtime].pc = "polling"
  BY DEF RelayInv, SessionFits

\* No waiter is not a live one, and no runtime is called none.
LEMMA IdleWaiter == NoWaiter.live = FALSE /\ Nil \notin Runtimes
  BY RelayAssumption DEF NoWaiter

\* An agent that stops or gives up its call: the poll it waited on is no
\* longer live, and a response that arrives late is of a request it executed.
LEMMA AbandonKeeps ==
  ASSUME RelayInv, NEW rt \in Runtimes, Abandon(rt),
         agent' = [agent EXCEPT ![rt] = Ended(agent[rt])]
         \/ agent' = [agent EXCEPT ![rt] = Reconnecting(agent[rt])],
         UNCHANGED <<store, session, pending, queue, call, runs>>
  PROVE  RelayInv'
  <1> USE DEF store
  <1>1. /\ agent' = [agent EXCEPT ![rt] = agent'[rt]] /\ agent'[rt] \in AgentRecord
        /\ AgentCalm(rt)
    BY LeavesCalmly DEF RelayInv
  <1>2. \A x \in Runtimes : AgentCalm(x) /\ agent'[x] \in AgentRecord /\ (x # rt => agent'[x] = agent[x])
    BY <1>1 DEF AgentCalm, RelayInv, RelayTypes
  <1>3. DeviceOf[rt] \in Devices
    BY RelayAssumption
  <1>4. /\ waiter' \in [Devices -> WaiterRecord]
        /\ \A d \in Devices : waiter'[d] = waiter[d] \/ (waiter[d].live /\ waiter'[d].runtime = waiter[d].runtime)
        /\ \A d \in Devices : waiter'[d].live => waiter[d].live
        /\ Waits(rt) => ~waiter'[DeviceOf[rt]].live
    <2>1. CASE Waits(rt)
      <3>1. waiter' = [waiter EXCEPT ![DeviceOf[rt]].live = FALSE]
        BY <2>1 DEF Abandon
      <3>2. waiter[DeviceOf[rt]].live
        BY <2>1 DEF Waits
      <3>3. PICK w \in WaiterRecord : w = waiter[DeviceOf[rt]]
        BY <1>3 DEF RelayInv, RelayTypes
      <3>4. /\ [w EXCEPT !.live = FALSE] \in WaiterRecord
            /\ [w EXCEPT !.live = FALSE].live = FALSE
            /\ [w EXCEPT !.live = FALSE].runtime = w.runtime
        BY DEF WaiterRecord
      <3> QED
        BY <1>3, <3>1, <3>2, <3>3, <3>4 DEF RelayInv, RelayTypes
    <2>2. CASE ~Waits(rt)
      <3>1. waiter' = waiter
        BY <2>2 DEF Abandon
      <3> QED
        BY <2>2, <3>1 DEF RelayInv, RelayTypes
    <2> QED
      BY <2>1, <2>2
  <1>5. stray' \subseteq MessageRecord /\ \A m \in stray' : m \in stray \/ MessageFits(m)'
    <2>1. CASE stray' = stray
      BY <2>1 DEF RelayInv, RelayTypes
    <2>2. CASE Calling(rt) /\ stray' = {Message(rt)}
      <3>1. agent[rt] \in AgentRecord /\ Type(rt) \in {"connect", "poll", "respond"}
        BY <2>2 DEF Calling, Type, RelayInv, RelayTypes
      <3>2. Type(rt) = "respond" => agent[rt].pc = "responding"
        BY <2>2 DEF Calling, Type
      <3>3. agent[rt].pc = "responding" => agent[rt].req \in Requests /\ runs[agent[rt].req][rt] > 0
        BY DEF RelayInv, AgentFits
      <3>4. PICK m \in MessageRecord : m = Message(rt)
        BY <3>1 DEF Message, MessageRecord, AgentRecord
      <3>5. /\ m.type = Type(rt) /\ m.req = agent[rt].req /\ m.runtime = rt
        BY <3>4 DEF Message
      <3> QED
        BY <2>2, <3>2, <3>3, <3>4, <3>5 DEF MessageFits
    <2> QED
      BY <2>1, <2>2 DEF Abandon
  <1>6. RelayTypes'
    BY <1>1, <1>2, <1>4, <1>5 DEF RelayInv, RelayTypes, Made
  <1>7. /\ CallsKept /\ RunsKept /\ Granted
        /\ \A r \in Requests : Made(r)' => Made(r)
    BY DEF CallsKept, RunsKept, Granted, Kept, Made, RelayInv, RelayTypes
  <1>8. RevokedIsFenced'
    BY DEF RelayInv, RevokedIsFenced, PendingOf
  <1>9. ASSUME NEW d \in Devices PROVE SessionFits(d)'
    <2>1. SessionFits(d)
      BY DEF RelayInv
    <2>2. waiter'[d] # NoWaiter => session[d] # NoSession /\ waiter'[d].runtime = session[d].runtime
      BY <1>4, <2>1, IdleWaiter DEF SessionFits
    <2>3. ASSUME waiter'[d].live PROVE agent'[waiter'[d].runtime].pc = "polling"
      <3>1. PICK x \in Runtimes : x = waiter[d].runtime /\ DeviceOf[x] = d /\ agent[x].pc = "polling"
        BY <1>4, <2>3, HeldPoll, IdleWaiter
      <3>2. x # rt
        BY <1>4, <2>3, <3>1 DEF Waits
      <3> QED
        BY <1>2, <1>4, <3>1, <3>2
    <2> QED
      BY <2>1, <2>2, <2>3 DEF SessionFits, Live
  <1> QED
    BY <1>2, <1>5, <1>6, <1>7, <1>8, <1>9, StepKeeps

\* The long poll that times out.
LEMMA PollTimeoutKeeps ==
  ASSUME RelayInv, NEW d \in Devices, PollTimeout(d)
  PROVE  RelayInv'
  <1> USE DEF store
  <1>1. PICK rt \in Runtimes : rt = waiter[d].runtime /\ DeviceOf[rt] = d
    BY HeldPoll DEF PollTimeout
  <1>2. \A x \in Runtimes : agent'[x] = agent[x]
           \/ (x = rt /\ agent'[x] = [agent[x] EXCEPT !.pc = "idle"])
    BY <1>1 DEF PollTimeout, RelayInv, RelayTypes
  <1>3. ASSUME NEW x \in Runtimes PROVE AgentCalm(x) /\ agent'[x] \in AgentRecord
    <2>1. PICK g \in AgentRecord : g = agent[x]
      BY DEF RelayInv, RelayTypes
    <2>2. /\ [g EXCEPT !.pc = "idle"] \in AgentRecord /\ [g EXCEPT !.pc = "idle"].pc = "idle"
          /\ [g EXCEPT !.pc = "idle"].ledger = g.ledger
      BY DEF AgentRecord, Places
    <2> QED
      BY <1>2, <2>1, <2>2 DEF AgentCalm
  <1>4. agent' = [x \in Runtimes |-> agent'[x]]
    BY DEF PollTimeout, RelayInv, RelayTypes
  <1>5. NoWaiter \in WaiterRecord
    BY DEF NoWaiter, WaiterRecord
  <1>6. RelayTypes'
    <2>1. agent' \in [Runtimes -> AgentRecord]
      BY <1>3, <1>4
    <2> QED
      BY <1>5, <2>1 DEF PollTimeout, RelayInv, RelayTypes, Made
  <1>7. /\ CallsKept /\ RunsKept /\ Granted
        /\ \A r \in Requests : Made(r)' => Made(r)
        /\ \A m \in stray' : m \in stray
    BY DEF PollTimeout, CallsKept, RunsKept, Granted, Kept, Made, RelayInv, RelayTypes
  <1>8. RevokedIsFenced'
    BY DEF PollTimeout, RelayInv, RevokedIsFenced, PendingOf
  <1>9. ASSUME NEW c \in Devices PROVE SessionFits(c)'
    <2>1. SessionFits(c)
      BY DEF RelayInv
    <2>2. waiter'[c] = IF c = d THEN NoWaiter ELSE waiter[c]
      BY DEF PollTimeout, RelayInv, RelayTypes
    <2>3. ASSUME waiter'[c].live PROVE agent'[waiter'[c].runtime].pc = "polling"
      <3>1. c # d /\ waiter'[c] = waiter[c]
        BY <2>2, <2>3, IdleWaiter
      <3>2. PICK x \in Runtimes : x = waiter[c].runtime /\ DeviceOf[x] = c /\ agent[x].pc = "polling"
        BY <2>3, <3>1, HeldPoll, IdleWaiter
      <3> QED
        BY <1>1, <1>2, <3>1, <3>2
    <2> QED
      BY <2>1, <2>2, <2>3 DEF PollTimeout, SessionFits, Live
  <1> QED
    BY <1>3, <1>6, <1>7, <1>8, <1>9, StepKeeps

\* Pairing gives a device its account and revokes nothing.
LEMMA PairingKeeps ==
  ASSUME RelayInv, NEW d \in Devices, UNCHANGED <<affinity, core, agent, stray, runs>>,
         \/ BeginPairing(d) \/ ExpirePairing(d) \/ CompletePairing(d)
         \/ \E a \in Accounts : ApprovePairing(d, a)
  PROVE  RelayInv'
  <1> USE DEF core
  <1>1. /\ device' \in [Devices -> DeviceRecord] /\ pairing' \in [Devices -> PairingRecord]
        /\ \A c \in Devices : /\ (device'[c].revoked => device[c].revoked)
                               /\ device'[c].runtime = device[c].runtime
                               /\ (Live(c) => Live(c)')
    <2>1. CASE CompletePairing(d)
      <3>1. PICK g \in DeviceRecord, p \in PairingRecord : g = device[d] /\ p = pairing[d]
        BY DEF RelayInv, RelayTypes
      <3>2. PICK h \in DeviceRecord : h = [g EXCEPT !.paired = TRUE, !.account = p.account]
        BY DEF DeviceRecord, PairingRecord
      <3>3. h.revoked = g.revoked /\ h.runtime = g.runtime /\ h.paired
        BY <3>2 DEF DeviceRecord
      <3>4. device' = [device EXCEPT ![d] = h]
        BY <2>1, <3>1, <3>2 DEF CompletePairing, RelayInv, RelayTypes
      <3>5. pairing' = [pairing EXCEPT ![d].state = "consumed"]
        BY <2>1 DEF CompletePairing
      <3>6. pairing' \in [Devices -> PairingRecord]
        BY <3>5 DEF RelayInv, RelayTypes, PairingRecord
      <3> QED
        BY <3>1, <3>3, <3>4, <3>6 DEF RelayInv, RelayTypes, Live
    <2>2. CASE ~CompletePairing(d)
      <3>1. UNCHANGED device
        BY <2>2 DEF BeginPairing, ExpirePairing, ApprovePairing
      <3>2. pairing' \in [Devices -> PairingRecord]
        <4>1. PICK p \in PairingRecord : p = pairing[d]
          BY DEF RelayInv, RelayTypes
        <4>2. PICK s \in {"open", "expired"}, a \in Accounts \cup {Nil} :
                 pairing' = [pairing EXCEPT ![d].state = s] \/ pairing' = [pairing EXCEPT ![d].account = a]
          BY <2>2 DEF BeginPairing, ExpirePairing, ApprovePairing
        <4>3. [p EXCEPT !.state = s] \in PairingRecord /\ [p EXCEPT !.account = a] \in PairingRecord
          BY DEF PairingRecord
        <4> QED
          BY <4>1, <4>2, <4>3 DEF RelayInv, RelayTypes
      <3> QED
        BY <3>1, <3>2 DEF RelayInv, RelayTypes, Live
    <2> QED
      BY <2>1, <2>2
  <1>2. RelayTypes'
    BY <1>1 DEF RelayInv, RelayTypes, Made
  <1>3. /\ CallsKept /\ RunsKept /\ Granted
        /\ \A r \in Requests : Made(r)' => Made(r)
        /\ \A m \in stray' : m \in stray
    BY DEF CallsKept, RunsKept, Granted, Kept, Made, RelayInv, RelayTypes
  <1>4. RevokedIsFenced'
    BY <1>1 DEF RelayInv, RevokedIsFenced, PendingOf
  <1>5. \A c \in Devices : SessionFits(c)'
    BY <1>1 DEF SessionFits, RelayInv
  <1>6. \A x \in Runtimes : AgentCalm(x)
    BY DEF AgentCalm
  <1> QED
    BY <1>2, <1>3, <1>4, <1>5, <1>6, StepKeeps

----------------------------------------------------------------------------
\* Revocation empties the device: its session, poll, queue, requests and
\* handles.
LEMMA RevokeKeeps ==
  ASSUME RelayInv, NEW a \in Accounts, NEW D \in SUBSET Devices, Revoke(a, D)
  PROVE  RelayInv'
  <1> DEFINE S == {r \in pending : call[r].device \in D}
  <1>1. /\ call' \in [Requests -> CallRecord \cup {NoCall}] /\ CallsKept
        /\ \A r \in Requests : Made(r)' = Made(r)
    <2>1. S \in SUBSET pending /\ call' = Settle(call, S, "rejected") /\ "rejected" \in Outs
      BY DEF Revoke, FenceDevice, Outs
    <2> QED
      BY <2>1, Settled DEF RelayInv
  <1>2. /\ pending' = pending \ S
        /\ \A d \in D : session'[d] = NoSession /\ waiter'[d] = NoWaiter /\ queue'[d] = << >>
        /\ \A d \in Devices \ D : /\ session'[d] = session[d] /\ waiter'[d] = waiter[d]
                                  /\ queue'[d] = queue[d] /\ device'[d] = device[d]
    BY DEF Revoke, FenceDevice
  <1>3. device' \in [Devices -> DeviceRecord]
    <2>1. ASSUME NEW d \in Devices PROVE device'[d] \in DeviceRecord
      <3>1. PICK g \in DeviceRecord : g = device[d]
        BY DEF RelayInv, RelayTypes
      <3>2. g.epoch + 1 \in Nat
        BY DEF DeviceRecord
      <3>3. [g EXCEPT !.revoked = TRUE, !.epoch = g.epoch + 1] \in DeviceRecord
        BY <3>2 DEF DeviceRecord
      <3> QED
        BY <3>1, <3>3 DEF Revoke, DeviceRecord
    <2> QED
      BY <2>1 DEF Revoke
  <1>4. /\ session' \in [Devices -> SessionRecord] /\ waiter' \in [Devices -> WaiterRecord]
        /\ queue' = [d \in Devices |-> queue'[d]]
    <2>1. NoSession \in SessionRecord /\ NoWaiter \in WaiterRecord
      BY DEF NoSession, NoWaiter, SessionRecord, WaiterRecord
    <2> QED
      BY <2>1 DEF Revoke, FenceDevice, RelayInv, RelayTypes
  <1>5. ASSUME NEW x \in Runtimes
        PROVE  /\ agent'[x] \in AgentRecord /\ AgentCalm(x)
               /\ agent'[x] = agent[x] \/ \E d \in D : waiter[d].live /\ waiter[d].runtime = x
    <2>1. agent'[x] = agent[x] \/ agent'[x] = Ended(agent[x])
      BY DEF Revoke, EndWaiters
    <2>2. agent[x] \in AgentRecord
      BY DEF RelayInv, RelayTypes
    <2>3. agent'[x] = agent[x] \/ \E d \in D : waiter[d].live /\ waiter[d].runtime = x
      BY DEF Revoke, EndWaiters
    <2> QED
      BY <2>1, <2>2, <2>3, Endings DEF AgentCalm
  <1>6. affinity' \in [Requests -> {Nil, "valid", "invalid"}]
        /\ \A r \in Requests : affinity'[r] = affinity[r] \/ (affinity[r] # Nil /\ affinity'[r] = "invalid")
    BY DEF Revoke, InvalidateDeviceAffinities, RelayInv, RelayTypes
  <1>7. RelayTypes'
    <2>1. agent' \in [Runtimes -> AgentRecord]
      BY <1>5 DEF Revoke, EndWaiters
    <2>2. pending' \subseteq {r \in Requests : Made(r)'}
      BY <1>1, <1>2 DEF RelayInv, RelayTypes
    <2> QED
      BY <1>1, <1>3, <1>4, <1>6, <2>1, <2>2 DEF Revoke, RelayInv, RelayTypes
  <1>8. /\ RunsKept /\ Granted /\ \A r \in Requests : Made(r)' => Made(r)
        /\ \A m \in stray' : m \in stray
    <2>1. RunsKept
      <3>1. runs' = runs
        BY DEF Revoke
      <3> QED
        BY <3>1 DEF RunsKept, RelayInv, RelayTypes
    <2>2. Granted
      BY <1>6 DEF Granted
    <2> QED
      BY <1>1, <2>1, <2>2 DEF Revoke
  <1>9. RevokedIsFenced'
    <2>1. ASSUME NEW d \in Devices \ D, device'[d].revoked
          PROVE  device[d].revoked /\ queue'[d] = << >> /\ session'[d] = NoSession
                 /\ PendingOf(d) = {}
      BY <1>2, <2>1 DEF RelayInv, RevokedIsFenced
    <2>2. \A d \in Devices : device'[d].revoked =>
             /\ queue'[d] = << >> /\ session'[d] = NoSession
             /\ d \in D \/ PendingOf(d) = {}
      BY <1>2, <2>1
    <2>3. ASSUME NEW d \in Devices, device'[d].revoked PROVE PendingOf(d)' = {}
      <3>1. ASSUME NEW r \in pending', call'[r].device = d PROVE FALSE
        <4>1. r \in pending /\ r \in Requests /\ Made(r) /\ r \notin S
          BY <1>2 DEF RelayInv, RelayTypes
        <4>2. call[r].device = d
          BY <1>1, <3>1, <4>1 DEF CallsKept, Kept
        <4> QED
          BY <2>2, <2>3, <4>1, <4>2 DEF PendingOf
      <3> QED
        BY <3>1 DEF PendingOf
    <2>4. ASSUME NEW d \in Devices, device'[d].revoked,
                 NEW r \in Requests, affinity'[r] = "valid", call'[r].device = d
          PROVE  FALSE
      <3>1. affinity[r] = "valid" /\ Made(r)
        BY <1>6, <2>4 DEF RelayInv, RequestFits, Nil
      <3>2. call[r].device = d
        BY <1>1, <2>4, <3>1 DEF CallsKept, Kept
      <3>3. CASE d \in D
        BY <2>4, <3>1, <3>2, <3>3 DEF Revoke, InvalidateDeviceAffinities, Nil
      <3>4. CASE d \notin D
        BY <2>1, <2>4, <3>1, <3>2, <3>4 DEF RelayInv, RevokedIsFenced
      <3> QED
        BY <3>3, <3>4
    <2> QED
      BY <2>2, <2>3, <2>4 DEF RevokedIsFenced
  <1>10. ASSUME NEW d \in Devices PROVE SessionFits(d)'
    <2>1. CASE d \in D
      BY <1>2, <2>1, IdleWaiter DEF SessionFits
    <2>2. CASE d \notin D
      <3>1. SessionFits(d)
        BY DEF RelayInv
      <3>2. ASSUME waiter'[d].live PROVE agent'[waiter'[d].runtime].pc = "polling"
        <4>1. PICK x \in Runtimes : x = waiter[d].runtime /\ DeviceOf[x] = d /\ agent[x].pc = "polling"
          BY <1>2, <2>2, <3>2, HeldPoll, IdleWaiter
        <4>2. ASSUME NEW c \in D, waiter[c].live, waiter[c].runtime = x PROVE FALSE
          BY <2>2, <4>1, <4>2, HeldPoll, IdleWaiter
        <4> QED
          BY <1>2, <1>5, <2>2, <4>1, <4>2
      <3> QED
        BY <1>2, <2>2, <3>1, <3>2 DEF SessionFits, Live
    <2> QED
      BY <2>1, <2>2
  <1> QED
    BY <1>1, <1>5, <1>7, <1>8, <1>9, <1>10, StepKeeps

\* A restart forgets sessions and rejects every request.
LEMMA RelayRestartKeeps ==
  ASSUME RelayInv, RelayRestart
  PROVE  RelayInv'
  <1> USE DEF store
  <1>1. /\ call' \in [Requests -> CallRecord \cup {NoCall}] /\ CallsKept
        /\ \A r \in Requests : Made(r)' = Made(r)
    <2>1. pending \in SUBSET pending /\ "rejected" \in Outs
      BY DEF Outs
    <2> QED
      BY <2>1, Settled DEF RelayRestart, RelayInv
  <1>2. ASSUME NEW x \in Runtimes PROVE agent'[x] \in AgentRecord /\ AgentCalm(x)
    <2>1. agent'[x] = agent[x] \/ agent'[x] = Reconnecting(agent[x])
      BY DEF RelayRestart
    <2>2. agent[x] \in AgentRecord
      BY DEF RelayInv, RelayTypes
    <2> QED
      BY <2>1, <2>2, Endings DEF AgentCalm
  <1>3. RelayTypes'
    <2>1. agent' \in [Runtimes -> AgentRecord]
      BY <1>2 DEF RelayRestart
    <2>2. /\ session' \in [Devices -> SessionRecord] /\ waiter' \in [Devices -> WaiterRecord]
          /\ queue' = [d \in Devices |-> queue'[d]]
      BY DEF NoSession, NoWaiter, SessionRecord, WaiterRecord, RelayRestart
    <2> QED
      BY <1>1, <2>1, <2>2 DEF RelayRestart, RelayInv, RelayTypes
  <1>4. /\ RunsKept /\ Granted /\ \A r \in Requests : Made(r)' => Made(r)
        /\ \A m \in stray' : m \in stray
    BY <1>1 DEF RelayRestart, RunsKept, Granted, RelayInv, RelayTypes
  <1>5. RevokedIsFenced'
    BY <1>1, FencedKeeps DEF RelayRestart
  <1>6. \A d \in Devices : SessionFits(d)'
    BY IdleWaiter DEF SessionFits, RelayRestart
  <1> QED
    BY <1>1, <1>2, <1>3, <1>4, <1>5, <1>6, StepKeeps

\* A request past its deadline leaves the queue of a device that is not
\* revoked.
LEMMA DeadlineTimerKeeps ==
  ASSUME RelayInv, NEW r \in Requests, DeadlineTimer(r)
  PROVE  RelayInv'
  <1> USE DEF store
  <1>1. /\ call' \in [Requests -> CallRecord \cup {NoCall}] /\ CallsKept
        /\ \A q \in Requests : Made(q)' = Made(q)
    <2>1. {r} \in SUBSET pending /\ "rejected" \in Outs
      BY DEF DeadlineTimer, Outs
    <2> QED
      BY <2>1, Settled DEF DeadlineTimer, RelayInv
  <1>2. queue' = [d \in Devices |-> queue'[d]] /\ pending' = pending \ {r}
    BY DEF DeadlineTimer, RelayInv, RelayTypes
  <1>3. RelayTypes'
    BY <1>1, <1>2 DEF DeadlineTimer, RelayInv, RelayTypes
  <1>4. /\ RunsKept /\ Granted /\ \A q \in Requests : Made(q)' => Made(q)
        /\ \A m \in stray' : m \in stray
        /\ \A x \in Runtimes : AgentCalm(x)
    BY <1>1 DEF DeadlineTimer, RunsKept, Granted, AgentCalm, RelayInv, RelayTypes
  <1>5. RevokedIsFenced'
    <2>1. ASSUME NEW d \in Devices, device'[d].revoked
          PROVE  device[d].revoked /\ queue'[d] = << >> /\ session'[d] = NoSession
      <3>1. /\ device[d].revoked /\ PendingOf(d) = {} /\ queue[d] = << >>
            /\ session[d] = NoSession
        BY <2>1 DEF DeadlineTimer, RelayInv, RevokedIsFenced
      <3>2. call[r].device # d
        BY <3>1 DEF DeadlineTimer, PendingOf
      <3>3. queue'[d] = queue[d]
        BY <3>2 DEF DeadlineTimer, RelayInv, RelayTypes
      <3> QED
        BY <3>1, <3>3 DEF DeadlineTimer
    <2>2. affinity' = affinity
      BY DEF DeadlineTimer
    <2>3. pending' \subseteq Requests
      BY <1>2 DEF RelayInv, RelayTypes
    <2> QED
      BY <1>1, <1>2, <2>1, <2>2, <2>3, FencedKeeps
  <1>6. \A d \in Devices : SessionFits(d)'
    BY DEF SessionFits, DeadlineTimer, RelayInv, Live
  <1> QED
    BY <1>1, <1>3, <1>4, <1>5, <1>6, StepKeeps

----------------------------------------------------------------------------
\* The item a dispatch registers.
NewCall(kind, h, p, a, d) ==
  [kind |-> kind, workspace |-> h, process |-> p, account |-> a, device |-> d,
   runtime |-> session[d].runtime, epoch |-> session[d].epoch, out |-> Nil]

\* A dispatch registers a request for the runtime of the session; the handles
\* it was resolved through are of that runtime and account.
LEMMA DispatchKeeps ==
  ASSUME RelayInv, NEW a \in Accounts, NEW d \in Devices, NEW kind \in Kinds,
         NEW h \in 0..MaxRequests, NEW p \in 0..MaxRequests,
         DispatchForAccount(a, d, kind, h, p),
         kind # "open" =>
           /\ h \in Requests /\ Made(h) /\ call[h].account = a
           /\ runs[h][session[d].runtime] > 0
           /\ p # 0 => runs[p][session[d].runtime] > 0
  PROVE  RelayInv'
  <1> USE DEF store
  <1>1. PICK r \in Requests :
           /\ call[r] = NoCall /\ pending' = pending \cup {r} /\ QueueRequest(d, r)
           /\ call' = [call EXCEPT ![r] = NewCall(kind, h, p, a, d)]
    BY DEF DispatchForAccount, NewCall
  <1>2. PICK s \in Runtimes, e \in Nat :
           s = session[d].runtime /\ e = session[d].epoch /\ DeviceOf[s] = d
    BY DEF DispatchForAccount, Ready, RelayInv, RelayTypes, SessionFits, SessionRecord
  <1>3. Live(d)
    BY DEF DispatchForAccount, Ready
  <1>4. PICK n \in CallRecord :
           /\ n = NewCall(kind, h, p, a, d) /\ n.kind = kind /\ n.workspace = h
           /\ n.process = p /\ n.account = a /\ n.device = d /\ n.runtime = s
    <2>1. NewCall(kind, h, p, a, d) \in CallRecord
      BY <1>2 DEF NewCall, CallRecord, Outs
    <2>2. /\ NewCall(kind, h, p, a, d).kind = kind /\ NewCall(kind, h, p, a, d).workspace = h
          /\ NewCall(kind, h, p, a, d).process = p /\ NewCall(kind, h, p, a, d).account = a
          /\ NewCall(kind, h, p, a, d).device = d
          /\ NewCall(kind, h, p, a, d).runtime = session[d].runtime
      BY DEF NewCall
    <2> QED
      BY <1>2, <2>1, <2>2
  <1>5. /\ call' \in [Requests -> CallRecord \cup {NoCall}] /\ call'[r] = n
        /\ \A q \in Requests : q # r => call'[q] = call[q]
    BY <1>1, <1>4 DEF RelayInv, RelayTypes
  <1>6. Made(r)' /\ ~Made(r) /\ \A q \in Requests : q # r => Made(q)' = Made(q)
    BY <1>1, <1>4, <1>5, NoCallKind DEF Made
  <1>7. CallsKept
    BY <1>5, <1>6 DEF CallsKept, Kept
  <1>8. RunsKept /\ Granted
    BY DEF DispatchForAccount, RunsKept, Granted, RelayInv, RelayTypes
  <1>9. runs' = runs /\ affinity' = affinity /\ session' = session /\ device' = device
        /\ stray' = stray /\ pairing' = pairing
    BY DEF DispatchForAccount
  <1>10. RequestFits(r)'
    <2>1. call'[r].runtime = s /\ call'[r].device = d /\ call'[r].kind = kind
          /\ call'[r].workspace = h /\ call'[r].process = p /\ call'[r].account = a
      BY <1>4, <1>5
    <2>2. affinity[r] = Nil /\ \A rt \in Runtimes : ~(runs[r][rt] > 0)
      BY <1>6 DEF RelayInv, RequestFits
    <2>3. kind # "open" => Made(h)' /\ call'[h].account = a
      BY <1>5, <1>6 DEF Made
    <2> QED
      BY <1>2, <1>9, <2>1, <2>2, <2>3 DEF RequestFits, Made
  <1>11. /\ waiter' \in [Devices -> WaiterRecord] /\ queue' = [c \in Devices |-> queue'[c]]
         /\ \A c \in Devices : waiter'[c] = waiter[c] \/ (c = d /\ waiter'[c] = NoWaiter)
         /\ \A c \in Devices : c # d => queue'[c] = queue[c]
    <2>1. NoWaiter \in WaiterRecord
      BY DEF NoWaiter, WaiterRecord
    <2> QED
      BY <1>1, <2>1 DEF QueueRequest, RelayInv, RelayTypes
  <1>12. ASSUME NEW x \in Runtimes
         PROVE  /\ agent'[x] \in AgentRecord
                /\ agent'[x] = agent[x]
                   \/ (x = s /\ waiter'[d] = NoWaiter /\ (AgentCalm(x) \/ AgentFits(x)'))
    <2>1. PICK g \in AgentRecord : g = agent[x]
      BY DEF RelayInv, RelayTypes
    <2>2. CASE agent'[x] = agent[x]
      BY <2>1, <2>2
    <2>3. CASE agent'[x] # agent[x]
      <3>1. /\ waiter[d] # NoWaiter /\ waiter' = [waiter EXCEPT ![d] = NoWaiter]
            /\ x = waiter[d].runtime
            /\ agent'[x] = [g EXCEPT !.pc = "handle", !.req = r]
               \/ agent'[x] = Reconnecting(g)
        <4>1. waiter[d] # NoWaiter /\ waiter[d].live
          BY <1>1, <2>3 DEF QueueRequest
        <4>2. PICK got \in BOOLEAN : agent' = [agent EXCEPT ![waiter[d].runtime] =
                 IF got THEN [@ EXCEPT !.pc = "handle", !.req = r] ELSE Reconnecting(@)]
          BY <1>1, <4>1 DEF QueueRequest
        <4>3. PICK y \in Runtimes : y = waiter[d].runtime
          BY <4>1, HeldPoll
        <4>4. agent' = [agent EXCEPT ![y] =
                 IF got THEN [agent[y] EXCEPT !.pc = "handle", !.req = r] ELSE Reconnecting(agent[y])]
          BY <4>2, <4>3
        <4>5. x = y
          BY <2>3, <4>4 DEF RelayInv, RelayTypes
        <4>6. agent'[y] = IF got THEN [agent[y] EXCEPT !.pc = "handle", !.req = r]
                          ELSE Reconnecting(agent[y])
          BY <4>4 DEF RelayInv, RelayTypes
        <4>7. waiter' = [waiter EXCEPT ![d] = NoWaiter]
          BY <1>1, <4>1 DEF QueueRequest
        <4> QED
          BY <2>1, <4>1, <4>3, <4>5, <4>6, <4>7
      <3>2. x = s
        BY <1>2, <3>1, HeldPoll
      <3>3. waiter'[d] = NoWaiter
        BY <3>1 DEF RelayInv, RelayTypes
      <3>4. CASE agent'[x] = Reconnecting(g)
        BY <2>1, <3>2, <3>3, <3>4, Endings DEF AgentCalm
      <3>5. CASE agent'[x] = [g EXCEPT !.pc = "handle", !.req = r]
        <4>1. /\ [g EXCEPT !.pc = "handle", !.req = r] \in AgentRecord
              /\ [g EXCEPT !.pc = "handle", !.req = r].pc = "handle"
              /\ [g EXCEPT !.pc = "handle", !.req = r].req = r
              /\ [g EXCEPT !.pc = "handle", !.req = r].ledger = g.ledger
          <5>1. r \in 0..MaxRequests
            BY DEF Requests
          <5> QED
            BY <5>1 DEF AgentRecord, Places
        <4>2. \A i \in DOMAIN g.ledger : runs[g.ledger[i].req][x] > 0
          BY <2>1 DEF RelayInv, AgentFits
        <4>3. AgentFits(x)'
          BY <1>4, <1>5, <1>6, <1>9, <3>2, <3>5, <4>1, <4>2 DEF AgentFits, Made
        <4> QED
          BY <3>2, <3>3, <3>5, <4>1, <4>3
      <3> QED
        BY <3>1, <3>4, <3>5
    <2> QED
      BY <2>2, <2>3
  <1>13. agent' = [x \in Runtimes |-> agent'[x]]
    BY <1>1 DEF QueueRequest, RelayInv, RelayTypes
  <1>14. RelayTypes'
    <2>1. agent' \in [Runtimes -> AgentRecord]
      BY <1>12, <1>13
    <2>2. pending' \subseteq {q \in Requests : Made(q)'}
      BY <1>1, <1>6 DEF RelayInv, RelayTypes
    <2> QED
      BY <1>5, <1>9, <1>11, <2>1, <2>2 DEF RelayInv, RelayTypes
  <1>15. RevokedIsFenced'
    <2>1. \A c \in Devices : device'[c].revoked =>
            device[c].revoked /\ queue'[c] = << >> /\ session'[c] = NoSession
      BY <1>3, <1>9, <1>11 DEF RelayInv, RevokedIsFenced, Live
    <2>2. \A q \in pending' : q \in pending \/ ~device'[call'[q].device].revoked
      BY <1>1, <1>3, <1>4, <1>5, <1>9 DEF Live
    <2>3. pending' \subseteq Requests
      BY <1>1 DEF RelayInv, RelayTypes
    <2> QED
      BY <1>7, <1>9, <2>1, <2>2, <2>3, FencedKeeps
  <1>16. ASSUME NEW c \in Devices PROVE SessionFits(c)'
    <2>1. SessionFits(c)
      BY DEF RelayInv
    <2>2. ASSUME waiter'[c].live PROVE agent'[waiter'[c].runtime].pc = "polling"
      <3>1. waiter'[c] = waiter[c]
        BY <1>11, <2>2, IdleWaiter
      <3>2. PICK x \in Runtimes : x = waiter[c].runtime /\ DeviceOf[x] = c /\ agent[x].pc = "polling"
        BY <2>2, <3>1, HeldPoll, IdleWaiter
      <3>3. agent'[x] = agent[x]
        BY <1>2, <1>12, <2>2, <3>2, IdleWaiter
      <3> QED
        BY <3>1, <3>2, <3>3
    <2> QED
      BY <1>9, <1>11, <2>1, <2>2 DEF SessionFits, Live
  <1>17. \A x \in Runtimes : AgentCalm(x) \/ AgentFits(x)'
    BY <1>12 DEF AgentCalm
  <1> QED
    BY <1>6, <1>7, <1>8, <1>9, <1>10, <1>14, <1>15, <1>16, <1>17, StepKeeps

\* An open needs no handle.
LEMMA WorkspaceOpenKeeps ==
  ASSUME RelayInv, NEW a \in Accounts, NEW d \in Devices, WorkspaceOpen(a, d)
  PROVE  RelayInv'
  <1>1. 0 \in 0..MaxRequests /\ "open" \in Kinds
    BY RelayAssumption DEF Kinds
  <1> QED
    BY <1>1, DispatchKeeps DEF WorkspaceOpen

\* resolveWorkspace and resolveProcess compare the handle with the runtime of
\* the device row, which is the runtime of the session.
LEMMA WorkspaceToolKeeps ==
  ASSUME RelayInv, NEW a \in Accounts, NEW kind \in Kinds \ {"open"}, NEW h \in Requests,
         NEW p \in 0..MaxRequests, WorkspaceTool(a, kind, h, p)
  PROVE  RelayInv'
  <1>1. affinity[h] = "valid" /\ call[h].account = a
        /\ Live(call[h].device) /\ device[call[h].device].runtime = call[h].runtime
    BY DEF WorkspaceTool, ResolveWorkspace, Valid
  <1>2. Made(h) /\ runs[h][call[h].runtime] > 0
    BY <1>1 DEF RelayInv, RequestFits, Nil
  <1>3. PICK d \in Devices : d = call[h].device
    BY <1>2 DEF RelayInv, RelayTypes, Made, CallRecord
  <1>4. DispatchForAccount(a, d, kind, h, p)
    BY <1>3 DEF WorkspaceTool
  <1>5. session[d].runtime = call[h].runtime
    BY <1>1, <1>3, <1>4 DEF DispatchForAccount, Ready, RelayInv, SessionFits
  <1>6. p # 0 => runs[p][session[d].runtime] > 0
    <2> SUFFICES ASSUME p # 0 PROVE runs[p][session[d].runtime] > 0
      OBVIOUS
    <2>1. affinity[p] = "valid" /\ call[p].runtime = call[h].runtime /\ p \in Requests
      BY DEF WorkspaceTool, ResolveProcess, Valid
    <2> QED
      BY <1>5, <2>1 DEF RelayInv, RequestFits, Nil
  <1>7. h \in 0..MaxRequests
    BY DEF Requests
  <1> QED
    BY <1>1, <1>2, <1>4, <1>5, <1>6, <1>7, DispatchKeeps

----------------------------------------------------------------------------
\* connectAgent edits the requests of its device and touches the queue of no
\* other.
LEMMA Rebound ==
  ASSUME RelayInv, NEW rt \in Runtimes, NEW d \in Devices, NEW e \in Nat, Rebind(d, rt, e)
  PROVE  /\ call' \in [Requests -> CallRecord \cup {NoCall}] /\ CallsKept
         /\ \A r \in Requests : Made(r)' = Made(r)
         /\ pending' \subseteq pending /\ queue' = [c \in Devices |-> queue'[c]]
         /\ \A c \in Devices : c # d => queue'[c] = queue[c]
  <1> DEFINE mine == {r \in PendingOf(d) : call[r].runtime = rt}
             others == PendingOf(d) \ mine
  <1>1. call' = [r \in Requests |->
          IF r \in mine THEN [call[r] EXCEPT !.epoch = e]
          ELSE IF r \in others THEN [call[r] EXCEPT !.out = "rejected", !.epoch = 0]
          ELSE call[r]]
    BY DEF Rebind
  <1>2. \A r \in mine \cup others : r \in Requests /\ Made(r)
    BY DEF PendingOf, RelayInv, RelayTypes
  <1>3. ASSUME NEW r \in Requests PROVE Edited(r)
    <2>1. CASE r \notin mine \cup others
      BY <1>1, <2>1 DEF Edited
    <2>2. CASE r \in mine \cup others
      <3>1. PICK c \in CallRecord : c = call[r]
        BY <1>2, <2>2 DEF RelayInv, RelayTypes, Made
      <3>2. c.out \in Outs /\ "rejected" \in Outs
        BY DEF CallRecord, Outs
      <3>3. /\ [c EXCEPT !.epoch = e] = [c EXCEPT !.epoch = e, !.out = c.out]
            /\ [c EXCEPT !.out = "rejected", !.epoch = 0] = [c EXCEPT !.epoch = 0, !.out = "rejected"]
        BY DEF CallRecord
      <3>4. call'[r] = [c EXCEPT !.epoch = e, !.out = c.out]
            \/ call'[r] = [c EXCEPT !.epoch = 0, !.out = "rejected"]
        BY <1>1, <2>2, <3>1, <3>3
      <3> QED
        BY <1>2, <2>2, <3>1, <3>2, <3>4 DEF Edited
    <2> QED
      BY <2>1, <2>2
  <1>4. call' = [r \in Requests |-> call'[r]]
    BY <1>1
  <1>5. /\ pending' \subseteq pending /\ queue' = [c \in Devices |-> queue'[c]]
        /\ \A c \in Devices : c # d => queue'[c] = queue[c]
    BY DEF Rebind, RelayInv, RelayTypes
  <1> QED
    BY <1>3, <1>4, <1>5, CallEdits DEF RelayInv

\* connectAgent, whether or not its reply arrives.
LEMMA ConnectKeeps ==
  ASSUME RelayInv, NEW rt \in Runtimes, NEW reply \in BOOLEAN, ConnectAgent(rt, reply),
         stray' \subseteq stray
  PROVE  RelayInv'
  <1>1. PICK d \in Devices : d = DeviceOf[rt]
    BY RelayAssumption
  <1>2. PICK g \in DeviceRecord : g = device[d]
    BY DEF RelayInv, RelayTypes
  <1>3. PICK e \in Nat : e = device[d].epoch + 1 /\ e = g.epoch + 1
    BY <1>2 DEF DeviceRecord
  <1>4. /\ Live(d) /\ Rebind(d, rt, e) /\ UNCHANGED <<pairing, runs>>
        /\ session' = [session EXCEPT ![d] = [runtime |-> rt, epoch |-> e]]
        /\ waiter' = [waiter EXCEPT ![d] = NoWaiter]
        /\ agent' = [x \in Runtimes |->
              IF x = rt /\ reply THEN [agent[x] EXCEPT !.pc = "idle", !.epoch = e]
              ELSE IF x \in Held(d) THEN Reconnecting(agent[x]) ELSE agent[x]]
    BY <1>1, <1>3 DEF ConnectAgent
  <1>5. PICK n \in DeviceRecord : n = [g EXCEPT !.epoch = e, !.runtime = rt]
    BY DEF DeviceRecord
  <1>6. n.paired = g.paired /\ n.revoked = g.revoked /\ n.runtime = rt
    BY <1>5 DEF DeviceRecord
  <1>7. device' \in [Devices -> DeviceRecord] /\ device'[d] = n
        /\ \A c \in Devices : c # d => device'[c] = device[c]
    <2>1. device' = [device EXCEPT ![d].epoch = @ + 1, ![d].runtime = rt]
      BY <1>1 DEF ConnectAgent, OpenSession
    <2>2. device' = [device EXCEPT ![d] = [g EXCEPT !.epoch = e, !.runtime = rt]]
      BY <1>2, <1>3, <2>1 DEF RelayInv, RelayTypes, DeviceRecord
    <2> QED
      BY <1>5, <2>2 DEF RelayInv, RelayTypes
  <1>8. /\ call' \in [Requests -> CallRecord \cup {NoCall}] /\ CallsKept
        /\ \A r \in Requests : Made(r)' = Made(r)
        /\ pending' \subseteq pending /\ queue' = [c \in Devices |-> queue'[c]]
        /\ \A c \in Devices : c # d => queue'[c] = queue[c]
    BY <1>4, Rebound
  <1>9. affinity' \in [Requests -> {Nil, "valid", "invalid"}]
        /\ \A r \in Requests : affinity'[r] = affinity[r] \/ (affinity[r] # Nil /\ affinity'[r] = "invalid")
    BY DEF ConnectAgent, InvalidateDeviceAffinities, RelayInv, RelayTypes
  <1>10. ASSUME NEW x \in Runtimes
         PROVE  agent'[x] \in AgentRecord /\ AgentCalm(x)
    <2>1. PICK b \in AgentRecord : b = agent[x]
      BY DEF RelayInv, RelayTypes
    <2>2. \/ agent'[x] = [b EXCEPT !.pc = "idle", !.epoch = e]
          \/ agent'[x] = Reconnecting(b) \/ agent'[x] = b
      BY <1>4, <2>1
    <2>3. /\ [b EXCEPT !.pc = "idle", !.epoch = e] \in AgentRecord
          /\ [b EXCEPT !.pc = "idle", !.epoch = e].pc = "idle"
          /\ [b EXCEPT !.pc = "idle", !.epoch = e].ledger = b.ledger
      BY DEF AgentRecord, Places
    <2> QED
      BY <2>1, <2>2, <2>3, Endings DEF AgentCalm
  <1>11. session' \in [Devices -> SessionRecord] /\ waiter' \in [Devices -> WaiterRecord]
    <2>1. [runtime |-> rt, epoch |-> e] \in SessionRecord /\ NoWaiter \in WaiterRecord
      BY DEF NoWaiter, SessionRecord, WaiterRecord
    <2> QED
      BY <1>4, <2>1 DEF RelayInv, RelayTypes
  <1>12. RelayTypes'
    <2>1. agent' \in [Runtimes -> AgentRecord]
      BY <1>4, <1>10
    <2>2. pending' \subseteq {r \in Requests : Made(r)'}
      BY <1>8 DEF RelayInv, RelayTypes
    <2> QED
      BY <1>4, <1>7, <1>8, <1>9, <1>11, <2>1, <2>2 DEF RelayInv, RelayTypes
  <1>13. RunsKept /\ Granted
    <2>1. RunsKept
      <3>1. runs' = runs
        BY <1>4
      <3> QED
        BY <3>1 DEF RunsKept, RelayInv, RelayTypes
    <2> QED
      BY <1>9, <2>1 DEF Granted
  <1>14. RevokedIsFenced'
    <2>1. ASSUME NEW c \in Devices, device'[c].revoked
          PROVE  device[c].revoked /\ queue'[c] = << >> /\ session'[c] = NoSession
      <3>1. c # d
        BY <1>2, <1>4, <1>6, <1>7, <2>1 DEF Live
      <3> QED
        BY <1>4, <1>7, <1>8, <2>1, <3>1 DEF RelayInv, RelayTypes, RevokedIsFenced
    <2>2. pending' \subseteq Requests
      BY <1>8 DEF RelayInv, RelayTypes
    <2>3. \A r \in Requests : affinity'[r] = "valid" => affinity[r] = "valid"
      BY <1>9
    <2> QED
      BY <1>8, <2>1, <2>2, <2>3, FencedKeeps
  <1>15. ASSUME NEW c \in Devices PROVE SessionFits(c)'
    <2>1. CASE c = d
      <3>1. session'[d] = [runtime |-> rt, epoch |-> e] /\ waiter'[d] = NoWaiter
        BY <1>4 DEF RelayInv, RelayTypes
      <3>2. Live(d)'
        BY <1>2, <1>4, <1>6, <1>7 DEF Live
      <3> QED
        BY <1>1, <1>6, <1>7, <2>1, <3>1, <3>2, IdleWaiter DEF SessionFits
    <2>2. CASE c # d
      <3>1. SessionFits(c) /\ session'[c] = session[c] /\ waiter'[c] = waiter[c]
            /\ device'[c] = device[c]
        BY <1>4, <1>7, <2>2 DEF RelayInv, RelayTypes
      <3>2. ASSUME waiter'[c].live PROVE agent'[waiter'[c].runtime].pc = "polling"
        <4>1. PICK x \in Runtimes : x = waiter[c].runtime /\ DeviceOf[x] = c /\ agent[x].pc = "polling"
          BY <3>1, <3>2, HeldPoll, IdleWaiter
        <4>2. x # rt /\ x \notin Held(d)
          BY <1>1, <2>2, <4>1, HeldPoll, IdleWaiter DEF Held
        <4> QED
          BY <1>4, <3>1, <4>1, <4>2
      <3> QED
        BY <3>1, <3>2 DEF SessionFits, Live
    <2> QED
      BY <2>1, <2>2
  <1> QED
    BY <1>8, <1>10, <1>12, <1>13, <1>14, <1>15, StepKeeps

\* pollAgent hands out a pending request of the runtime that asks, or holds
\* its poll.
LEMMA PollKeeps ==
  ASSUME RelayInv, NEW rt \in Runtimes, NEW e \in Nat, NEW reply \in BOOLEAN,
         PollAgent(rt, e, reply), stray' \subseteq stray, reply => agent[rt].pc # "polling"
  PROVE  RelayInv'
  <1> USE DEF store
  <1>1. PICK d \in Devices : d = DeviceOf[rt]
    BY RelayAssumption
  <1>2. Live(d) /\ session[d] # NoSession /\ session[d].runtime = rt
    BY <1>1, IdleWaiter DEF PollAgent, ValidateAgent, NoSession
  <1>3. UNCHANGED <<pairing, device, affinity, session, pending, call, runs>>
    BY DEF PollAgent
  <1>4. /\ queue' = [c \in Devices |-> queue'[c]]
        /\ \A c \in Devices : c # d => queue'[c] = queue[c]
    BY <1>1 DEF PollAgent, RelayInv, RelayTypes
  <1> DEFINE Taken == /\ UNCHANGED waiter
                      /\ \E q \in pending : /\ call[q].runtime = rt
                                            /\ agent' = IF reply
                                                 THEN [agent EXCEPT ![rt].pc = "handle", ![rt].req = q]
                                                 ELSE agent
             Waiting ==
               /\ waiter' = [waiter EXCEPT ![d] = [runtime |-> rt, epoch |-> e, live |-> reply]]
               /\ agent' = [x \in Runtimes |->
                     IF x = rt /\ reply THEN [agent[x] EXCEPT !.pc = "polling"]
                     ELSE IF x \in Held(d) THEN Reconnecting(agent[x]) ELSE agent[x]]
  <1>5. Taken \/ Waiting
    <2>1. CASE \E first \in MatchIn(queue[d], rt, e) :
                 /\ agent' = IF reply THEN [agent EXCEPT ![rt].pc = "handle",
                                                         ![rt].req = queue[d][first]]
                             ELSE agent
                 /\ UNCHANGED waiter
      <3>1. PICK first \in MatchIn(queue[d], rt, e) :
                 /\ agent' = IF reply THEN [agent EXCEPT ![rt].pc = "handle",
                                                         ![rt].req = queue[d][first]]
                             ELSE agent
                 /\ UNCHANGED waiter
        BY <2>1
      <3>2. PICK q \in pending : q = queue[d][first] /\ call[q].runtime = rt
        BY DEF MatchIn
      <3> QED
        BY <3>1, <3>2
    <2> QED
      BY <1>1, <2>1 DEF PollAgent
  <1>6. ASSUME NEW x \in Runtimes
        PROVE  /\ agent'[x] \in AgentRecord /\ (AgentCalm(x) \/ AgentFits(x)')
               /\ (Taken => agent'[x] = agent[x] \/ (x = rt /\ reply))
    <2>1. PICK g \in AgentRecord : g = agent[x]
      BY DEF RelayInv, RelayTypes
    <2>2. CASE agent'[x] = agent[x]
      BY <2>1, <2>2 DEF AgentCalm
    <2>3. CASE Waiting
      <3>1. ~Taken \/ agent'[x] = agent[x] \/ (x = rt /\ reply)
        BY DEF RelayInv, RelayTypes
      <3>2. agent'[x] = [g EXCEPT !.pc = "polling"] \/ agent'[x] = Reconnecting(g) \/ agent'[x] = g
        BY <2>1, <2>3
      <3>3. /\ [g EXCEPT !.pc = "polling"] \in AgentRecord /\ [g EXCEPT !.pc = "polling"].pc = "polling"
            /\ [g EXCEPT !.pc = "polling"].ledger = g.ledger
        BY DEF AgentRecord, Places
      <3>4. agent'[x] \in AgentRecord /\ AgentCalm(x)
        BY <2>1, <3>2, <3>3, Endings DEF AgentCalm
      <3> HIDE DEF Taken
      <3> QED
        BY <3>1, <3>4
    <2>4. CASE Taken /\ agent'[x] # agent[x]
      <3>1. PICK q \in pending : /\ call[q].runtime = rt
                                 /\ agent' = IF reply
                                      THEN [agent EXCEPT ![rt].pc = "handle", ![rt].req = q]
                                      ELSE agent
        BY <2>4
      <3>2. x = rt /\ reply /\ agent'[x] = [g EXCEPT !.pc = "handle", !.req = q]
        BY <2>1, <2>4, <3>1 DEF RelayInv, RelayTypes
      <3>3. q \in Requests /\ Made(q) /\ q \in 0..MaxRequests
        BY DEF RelayInv, RelayTypes, Requests
      <3>4. /\ [g EXCEPT !.pc = "handle", !.req = q] \in AgentRecord
            /\ [g EXCEPT !.pc = "handle", !.req = q].pc = "handle"
            /\ [g EXCEPT !.pc = "handle", !.req = q].req = q
            /\ [g EXCEPT !.pc = "handle", !.req = q].ledger = g.ledger
        BY <3>3 DEF AgentRecord, Places
      <3>5. \A i \in DOMAIN g.ledger : runs[g.ledger[i].req][x] > 0
        BY <2>1 DEF RelayInv, AgentFits
      <3>6. AgentFits(x)'
        BY <1>3, <3>1, <3>2, <3>3, <3>4, <3>5 DEF AgentFits, Made
      <3> QED
        BY <3>2, <3>4, <3>6
    <2> HIDE DEF Taken, Waiting
    <2> QED
      BY <1>5, <2>2, <2>3, <2>4
  <1>7. /\ agent' = [x \in Runtimes |-> agent'[x]]
        /\ waiter' \in [Devices -> WaiterRecord]
    <2>1. [runtime |-> rt, epoch |-> e, live |-> reply] \in WaiterRecord
      BY DEF WaiterRecord
    <2> QED
      BY <1>5, <2>1 DEF RelayInv, RelayTypes
  <1>8. RelayTypes'
    <2>1. agent' \in [Runtimes -> AgentRecord]
      BY <1>6, <1>7
    <2> HIDE DEF Taken, Waiting
    <2> QED
      BY <1>3, <1>4, <1>7, <2>1 DEF RelayInv, RelayTypes, Made
  <1>9. /\ CallsKept /\ RunsKept /\ Granted
        /\ \A r \in Requests : Made(r)' => Made(r)
    <2>1. runs' = runs /\ call' = call /\ affinity' = affinity
      BY <1>3
    <2> QED
      BY <2>1 DEF CallsKept, RunsKept, Granted, Kept, Made, RelayInv, RelayTypes
  <1>10. RevokedIsFenced'
    <2>1. \A c \in Devices : device'[c].revoked =>
             device[c].revoked /\ queue'[c] = << >> /\ session'[c] = NoSession
      BY <1>2, <1>3, <1>4 DEF Live, RelayInv, RevokedIsFenced
    <2>2. pending' = pending /\ affinity' = affinity /\ pending \subseteq Requests
      BY <1>3 DEF RelayInv, RelayTypes
    <2> QED
      BY <1>9, <2>1, <2>2, FencedKeeps
  <1>11. ASSUME NEW c \in Devices PROVE SessionFits(c)'
    <2>1. SessionFits(c) /\ session' = session /\ device' = device
      BY <1>3 DEF RelayInv
    <2>2. CASE Taken
      <3>1. ASSUME waiter[c].live PROVE agent'[waiter[c].runtime].pc = "polling"
        <4>1. PICK x \in Runtimes : x = waiter[c].runtime /\ DeviceOf[x] = c /\ agent[x].pc = "polling"
          BY <3>1, HeldPoll, IdleWaiter
        <4>2. agent'[x] = agent[x]
          BY <1>6, <2>2, <4>1
        <4> QED
          BY <4>1, <4>2
      <3> QED
        BY <2>1, <2>2, <3>1 DEF SessionFits, Live
    <2>3. CASE Waiting
      <3>1. /\ waiter'[d] = [runtime |-> rt, epoch |-> e, live |-> reply]
            /\ c # d => waiter'[c] = waiter[c]
        BY <2>3 DEF RelayInv, RelayTypes
      <3>2. CASE c = d
        <4>1. reply => agent'[rt] = [agent[rt] EXCEPT !.pc = "polling"]
          BY <2>3
        <4>2. reply => agent'[rt].pc = "polling"
          BY <4>1 DEF RelayInv, RelayTypes, AgentRecord
        <4> QED
          BY <1>2, <2>1, <3>1, <3>2, <4>2 DEF SessionFits, Live
      <3>3. CASE c # d
        <4>1. ASSUME waiter[c].live PROVE agent'[waiter[c].runtime].pc = "polling"
          <5>1. PICK x \in Runtimes : x = waiter[c].runtime /\ DeviceOf[x] = c /\ agent[x].pc = "polling"
            BY <4>1, HeldPoll, IdleWaiter
          <5>2. x # rt /\ x \notin Held(d)
            BY <1>1, <3>3, <5>1, HeldPoll, IdleWaiter DEF Held
          <5> QED
            BY <2>3, <5>1, <5>2
        <4> QED
          BY <2>1, <3>1, <3>3, <4>1 DEF SessionFits, Live
      <3> QED
        BY <3>2, <3>3
    <2> QED
      BY <1>5, <2>2, <2>3
  <1> QED
    BY <1>6, <1>8, <1>9, <1>10, <1>11, StepKeeps

\* respondAgent settles a request its runtime has executed, which may grant a
\* handle.
LEMMA RespondKeeps ==
  ASSUME RelayInv, NEW rt \in Runtimes, NEW e \in Nat, NEW r \in Requests,
         NEW ok \in BOOLEAN, NEW reply \in BOOLEAN, runs[r][rt] > 0,
         RespondAgent(rt, e, r, ok, reply), stray' \subseteq stray,
         reply => agent[rt].pc # "polling"
  PROVE  RelayInv'
  <1>1. /\ call' \in [Requests -> CallRecord \cup {NoCall}] /\ CallsKept
        /\ \A q \in Requests : Made(q)' = Made(q)
    <2>1. PICK o \in Outs : call' = Settle(call, {r}, o)
      BY DEF RespondAgent, Outs
    <2>2. {r} \in SUBSET pending
      BY DEF RespondAgent
    <2> QED
      BY <2>1, <2>2, Settled DEF RelayInv
  <1>2. /\ pending' = pending \ {r} /\ r \in pending /\ call[r].runtime = rt
        /\ call[r].device = DeviceOf[rt] /\ Live(DeviceOf[rt])
        /\ UNCHANGED <<pairing, device, session, queue, waiter, runs>>
        /\ affinity' \in {affinity, [affinity EXCEPT ![r] = "valid"]}
        /\ agent' \in {agent, [agent EXCEPT ![rt].pc = "idle", ![rt].req = 0, ![rt].ok = FALSE]}
        /\ reply \/ agent' = agent
    BY DEF RespondAgent, ValidateAgent
  <1>3. ASSUME NEW x \in Runtimes
        PROVE  /\ agent'[x] \in AgentRecord /\ AgentCalm(x)
               /\ agent'[x] = agent[x] \/ (x = rt /\ reply)
    <2>1. PICK g \in AgentRecord : g = agent[x]
      BY DEF RelayInv, RelayTypes
    <2>2. agent'[x] = g
          \/ (x = rt /\ reply /\ agent'[x] = [g EXCEPT !.pc = "idle", !.req = 0, !.ok = FALSE])
      BY ZenonT(60), <1>2, <2>1 DEF RelayInv, RelayTypes
    <2>3. /\ [g EXCEPT !.pc = "idle", !.req = 0, !.ok = FALSE] \in AgentRecord
          /\ [g EXCEPT !.pc = "idle", !.req = 0, !.ok = FALSE].pc = "idle"
          /\ [g EXCEPT !.pc = "idle", !.req = 0, !.ok = FALSE].ledger = g.ledger
      <3>1. 0 \in 0..MaxRequests
        BY RelayAssumption
      <3> QED
        BY <3>1 DEF AgentRecord, Places
    <2> QED
      BY <2>1, <2>2, <2>3 DEF AgentCalm
  <1>4. RelayTypes'
    <2>1. agent' \in [Runtimes -> AgentRecord]
      BY <1>2, <1>3 DEF RelayInv, RelayTypes
    <2>2. affinity' \in [Requests -> {Nil, "valid", "invalid"}]
      BY <1>2 DEF RelayInv, RelayTypes
    <2>3. pending' \subseteq {q \in Requests : Made(q)'}
      BY <1>1, <1>2 DEF RelayInv, RelayTypes
    <2>4. stray' \subseteq MessageRecord
      BY DEF RelayInv, RelayTypes
    <2> QED
      BY <1>1, <1>2, <2>1, <2>2, <2>3, <2>4 DEF RelayInv, RelayTypes
  <1>5. RunsKept /\ Granted
    <2>1. runs' = runs
      BY <1>2
    <2>2. RunsKept
      BY <2>1 DEF RunsKept, RelayInv, RelayTypes
    <2>3. r \in Requests /\ Made(r) /\ runs[r][call[r].runtime] > 0
      BY <1>2 DEF RelayInv, RelayTypes
    <2>4. \A q \in Requests : affinity'[q] = affinity[q] \/ q = r
      BY <1>2 DEF RelayInv, RelayTypes
    <2> QED
      BY <2>2, <2>3, <2>4 DEF Granted
  <1>6. RevokedIsFenced'
    <2>1. \A c \in Devices : device'[c].revoked =>
             device[c].revoked /\ queue'[c] = << >> /\ session'[c] = NoSession
      BY <1>2 DEF RelayInv, RevokedIsFenced
    <2>2. pending' \subseteq pending /\ pending' \subseteq Requests
      BY <1>2 DEF RelayInv, RelayTypes
    <2>3. ~device'[call'[r].device].revoked
      BY <1>1, <1>2 DEF Live, CallsKept, Kept, RelayInv, RelayTypes
    <2>4. \A q \in Requests : affinity'[q] = "valid" => affinity[q] = "valid" \/ q = r
      BY <1>2 DEF RelayInv, RelayTypes
    <2> QED
      BY <1>1, <2>1, <2>2, <2>3, <2>4, FencedKeeps
  <1>7. ASSUME NEW c \in Devices PROVE SessionFits(c)'
    <2>1. SessionFits(c) /\ session' = session /\ device' = device /\ waiter' = waiter
      BY <1>2 DEF RelayInv
    <2>2. ASSUME waiter[c].live PROVE agent'[waiter[c].runtime].pc = "polling"
      <3>1. PICK x \in Runtimes : x = waiter[c].runtime /\ agent[x].pc = "polling"
        BY <2>2, HeldPoll, IdleWaiter
      <3>2. agent'[x] = agent[x]
        BY <1>3, <3>1
      <3> QED
        BY <3>1, <3>2
    <2> QED
      BY <2>1, <2>2 DEF SessionFits, Live
  <1> QED
    BY <1>1, <1>3, <1>4, <1>5, <1>6, <1>7, StepKeeps

----------------------------------------------------------------------------
\* The call an agent waits on.
LEMMA ServeKeeps ==
  ASSUME RelayInv, NEW rt \in Runtimes, Serve(rt)
  PROVE  RelayInv'
  <1>1. agent[rt] \in AgentRecord /\ agent[rt].pc # "polling" /\ stray' \subseteq stray
    BY DEF Serve, Calling, RelayInv, RelayTypes
  <1>2. agent[rt].epoch \in Nat /\ agent[rt].ok \in BOOLEAN /\ TRUE \in BOOLEAN
    BY <1>1 DEF AgentRecord
  <1>3. CASE Type(rt) = "connect" /\ ConnectAgent(rt, TRUE)
    BY <1>1, <1>2, <1>3, ConnectKeeps
  <1>4. CASE Type(rt) = "poll" /\ PollAgent(rt, agent[rt].epoch, TRUE)
    BY <1>1, <1>2, <1>4, PollKeeps
  <1>5. CASE Type(rt) = "respond"
             /\ RespondAgent(rt, agent[rt].epoch, agent[rt].req, agent[rt].ok, TRUE)
    <2>1. agent[rt].pc = "responding"
      BY <1>5 DEF Serve, Calling, Type
    <2>2. agent[rt].req \in Requests /\ runs[agent[rt].req][rt] > 0
      BY <2>1 DEF RelayInv, AgentFits
    <2> QED
      BY <1>1, <1>2, <1>5, <2>2, RespondKeeps
  <1>6. CASE ~Accepts(rt) /\ Refused(rt)
    BY <1>1, <1>6, RefusedKeeps DEF Serve
  <1> QED
    BY <1>3, <1>4, <1>5, <1>6 DEF Serve

\* A call nobody waits for any more.
LEMMA ServeStrayKeeps ==
  ASSUME RelayInv, NEW m \in stray, ServeStray(m)
  PROVE  RelayInv'
  <1>1. m \in MessageRecord /\ stray' \subseteq stray /\ FALSE \in BOOLEAN
    BY DEF ServeStray, RelayInv, RelayTypes
  <1>2. m.runtime \in Runtimes /\ m.epoch \in Nat /\ m.ok \in BOOLEAN
    BY <1>1 DEF MessageRecord
  <1>3. CASE m.type = "connect" /\ ConnectAgent(m.runtime, FALSE)
    BY <1>1, <1>2, <1>3, ConnectKeeps
  <1>4. CASE m.type = "poll" /\ PollAgent(m.runtime, m.epoch, FALSE)
    BY <1>1, <1>2, <1>4, PollKeeps
  <1>5. CASE m.type = "respond" /\ RespondAgent(m.runtime, m.epoch, m.req, m.ok, FALSE)
    <2>1. m.req \in Requests /\ runs[m.req][m.runtime] > 0
      BY <1>5 DEF RelayInv, MessageFits
    <2> QED
      BY <1>1, <1>2, <1>5, <2>1, RespondKeeps
  <1> QED
    BY <1>3, <1>4, <1>5 DEF ServeStray

\* The initial states.
LEMMA RelayInitial == RelayInit => RelayInv
  <1> SUFFICES ASSUME RelayInit PROVE RelayInv
    OBVIOUS
  <1> USE DEF RelayInit, CoreInit
  <1>1. NoAgent \in AgentRecord
    <2>1. << >> \in Seq(Entry) /\ 0 \in 0..MaxRequests
      BY RelayAssumption
    <2> QED
      BY <2>1 DEF NoAgent, AgentRecord, Places
  <1>2. agent \in [Runtimes -> AgentRecord] /\ \A rt \in Runtimes : agent[rt] = NoAgent
    BY <1>1
  <1>3. /\ device \in [Devices -> DeviceRecord] /\ pairing \in [Devices -> PairingRecord]
        /\ \A d \in Devices : ~device[d].revoked
    BY DEF DeviceRecord, PairingRecord
  <1>4. /\ session \in [Devices -> SessionRecord] /\ waiter \in [Devices -> WaiterRecord]
        /\ \A d \in Devices : session[d] = NoSession /\ waiter[d] = NoWaiter
    BY DEF SessionRecord, WaiterRecord, NoSession, NoWaiter
  <1>5. /\ call \in [Requests -> CallRecord \cup {NoCall}] /\ \A r \in Requests : ~Made(r)
        /\ affinity \in [Requests -> {Nil, "valid", "invalid"}]
        /\ \A r \in Requests : affinity[r] = Nil
        /\ runs \in [Requests -> [Runtimes -> Nat]]
        /\ \A r \in Requests, rt \in Runtimes : runs[r][rt] = 0
    BY DEF Made
  <1>6. RelayTypes
    BY <1>2, <1>3, <1>4, <1>5 DEF RelayTypes
  <1>7. RevokedIsFenced
    BY <1>3 DEF RevokedIsFenced
  <1>8. \A d \in Devices : SessionFits(d)
    BY <1>4, IdleWaiter DEF SessionFits
  <1>9. \A r \in Requests : RequestFits(r)
    BY <1>5 DEF RequestFits
  <1>10. \A rt \in Runtimes : AgentFits(rt)
    BY <1>2 DEF AgentFits, NoAgent
  <1> QED
    BY <1>6, <1>7, <1>8, <1>9, <1>10 DEF RelayInv

\* A stuttering step.
LEMMA RelayStutters == ASSUME RelayInv, UNCHANGED relayVars PROVE RelayInv'
  BY DEF relayVars, RelayInv, RelayTypes, RevokedIsFenced, PendingOf, SessionFits, Live,
         RequestFits, AgentFits, MessageFits, Made

\* Every step of the relay and its agents.
LEMMA RelayStep ==
  ASSUME RelayInv, [RelayNext]_relayVars
  PROVE  RelayInv'
  <1>1. CASE \E d \in Devices : BeginPairing(d) \/ ExpirePairing(d) \/ CompletePairing(d)
    BY <1>1, PairingKeeps DEF BeginPairing, ExpirePairing, CompletePairing
  <1>2. CASE \E d \in Devices, a \in Accounts : ApprovePairing(d, a)
    BY <1>2, PairingKeeps DEF ApprovePairing
  <1>3. CASE \E d \in Devices, a \in Accounts : RevokeDevice(a, d)
    BY <1>3, RevokeKeeps DEF RevokeDevice
  <1>4. CASE \E a \in Accounts : RevokeAll(a)
    BY <1>4, RevokeKeeps DEF RevokeAll
  <1>5. CASE RelayRestart
    BY <1>5, RelayRestartKeeps
  <1>6. CASE \E a \in Accounts, d \in Devices : WorkspaceOpen(a, d)
    BY <1>6, WorkspaceOpenKeeps
  <1>7. CASE \E a \in Accounts, h \in Requests, p \in 0..MaxRequests, k \in Kinds \ {"open"} :
               WorkspaceTool(a, k, h, p)
    BY <1>7, WorkspaceToolKeeps
  <1>8. CASE \E r \in Requests : DeadlineTimer(r)
    BY <1>8, DeadlineTimerKeeps
  <1>9. ASSUME NEW rt \in Runtimes, StopAgent(rt) \/ GiveUpRequest(rt) PROVE RelayInv'
    BY <1>9, AbandonKeeps DEF StopAgent, GiveUpRequest
  <1>10. ASSUME NEW rt \in Runtimes,
                StartAgent(rt) \/ Serve(rt) \/ HandleEnvelope(rt) \/ EnvelopeTooLate(rt)
         PROVE  RelayInv'
    BY <1>10, StartAgentKeeps, ServeKeeps, HandleEnvelopeKeeps, RefusedKeeps DEF EnvelopeTooLate
  <1>11. CASE \E m \in stray : ServeStray(m)
    BY <1>11, ServeStrayKeeps
  <1>12. CASE \E d \in Devices : PollTimeout(d)
    BY <1>12, PollTimeoutKeeps
  <1> QED
    BY <1>1, <1>2, <1>3, <1>4, <1>5, <1>6, <1>7, <1>8, <1>9, <1>10, <1>11, <1>12, RelayStutters
       DEF RelayNext

(* The inductive invariant holds throughout, for every number of everything.  *)
THEOREM RelayInvariant == RelaySpec => []RelayInv
  BY RelayInitial, RelayStep, PTL DEF RelaySpec

(* Revocation fences (core.js revokeDevice, revokeAll): a revoked device has  *)
(* nothing pending or queued, no session and no valid handle, from the        *)
(* revocation on.                                                             *)
THEOREM RevokedFenced == RelaySpec => []RevokedIsFenced
  <1>1. RelayInv => RevokedIsFenced
    BY DEF RelayInv
  <1> QED
    BY <1>1, RelayInvariant, PTL

(* Handles (mcp-facade.js resolveWorkspace, resolveProcess): what is asked    *)
(* through a handle runs only in the runtime that made the handle, for the    *)
(* account it was made for.                                                   *)
THEOREM HandlesReach == RelaySpec => []HandleReachesItsRuntime
  <1>1. RelayInv => HandleReachesItsRuntime
    <2> SUFFICES ASSUME RelayInv, NEW r \in Requests, NEW rt \in Runtimes,
                        runs[r][rt] > 0, call[r].kind # "open"
                 PROVE  /\ runs[call[r].workspace][rt] > 0
                        /\ call[r].account = call[call[r].workspace].account
                        /\ call[r].process # 0 => runs[call[r].process][rt] > 0
      BY DEF HandleReachesItsRuntime
    <2>1. RequestFits(r) /\ Made(r) /\ call[r].runtime = rt
      BY DEF RelayInv, RequestFits
    <2> QED
      BY <2>1 DEF RequestFits
  <1> QED
    BY <1>1, RelayInvariant, PTL

----------------------------------------------------------------------------
\* A step that executes nothing leaves every ledger but those of agents that end.
LedgerQuiet(rt) ==
  \/ agent'[rt].ledger = agent[rt].ledger /\ (agent[rt].pc = "ended" => agent'[rt].pc = "ended")
  \/ agent'[rt].ledger = << >> /\ agent'[rt].pc = "ended"
Quiet == runs' = runs /\ \A rt \in Runtimes : LedgerQuiet(rt)

\* A quiet step keeps what the ledgers know.
LEMMA QuietKeepsLedgers ==
  ASSUME LedgerInv, RelayInv', Quiet
  PROVE  LedgerInv'
  <1> SUFFICES ASSUME NEW rt \in Runtimes PROVE LedgerFits(rt)'
    BY DEF LedgerInv
  <1>1. LedgerFits(rt) /\ LedgerQuiet(rt) /\ runs' = runs
    BY DEF LedgerInv, Quiet
  <1>2. CASE agent'[rt].ledger = << >> /\ agent'[rt].pc = "ended"
    <2>1. Len(<< >>) = 0 /\ DOMAIN << >> = {} /\ 0 <= LedgerLimit
      BY RelayAssumption
    <2> QED
      BY <1>2, <2>1 DEF LedgerFits
  <1>3. CASE agent'[rt].ledger = agent[rt].ledger /\ (agent[rt].pc = "ended" => agent'[rt].pc = "ended")
    BY <1>1, <1>3 DEF LedgerFits
  <1> QED
    BY <1>1, <1>2, <1>3 DEF LedgerQuiet

\* An agent that ends loses its ledger and never runs again; one that
\* reconnects keeps it.
LEMMA EndedIsQuiet ==
  ASSUME RelayTypes, NEW rt \in Runtimes,
         \/ agent'[rt] = agent[rt] \/ agent'[rt] = Ended(agent[rt])
         \/ agent'[rt] = Reconnecting(agent[rt]) /\ agent[rt].pc # "ended"
  PROVE  LedgerQuiet(rt)
  BY Endings DEF LedgerQuiet, RelayTypes

\* The loop of an agent changes its place and its hand, not its ledger.
LEMMA AnswerIsQuiet ==
  ASSUME RelayTypes, NEW rt \in Runtimes, agent[rt].pc # "ended", NEW p, NEW e, NEW r, NEW o,
         \/ agent'[rt] = [agent[rt] EXCEPT !.pc = p]
         \/ agent'[rt] = [agent[rt] EXCEPT !.pc = p, !.epoch = e]
         \/ agent'[rt] = [agent[rt] EXCEPT !.pc = p, !.req = r]
         \/ agent'[rt] = [agent[rt] EXCEPT !.pc = p, !.ok = o]
  PROVE  LedgerQuiet(rt)
  <1>1. PICK g \in AgentRecord : g = agent[rt]
    BY DEF RelayTypes
  <1>2. /\ [g EXCEPT !.pc = p].ledger = g.ledger
        /\ [g EXCEPT !.pc = p, !.epoch = e].ledger = g.ledger
        /\ [g EXCEPT !.pc = p, !.req = r].ledger = g.ledger
        /\ [g EXCEPT !.pc = p, !.ok = o].ledger = g.ledger
    BY DEF AgentRecord
  <1> QED
    BY <1>1, <1>2 DEF LedgerQuiet

\* The calls the relay serves are quiet.
LEMMA ServedIsQuiet ==
  ASSUME RelayInv, NEW rt \in Runtimes, NEW e \in Nat, NEW reply \in BOOLEAN,
         reply => agent[rt].pc # "ended",
         \/ ConnectAgent(rt, reply) \/ PollAgent(rt, e, reply)
         \/ \E r \in Requests, ok \in BOOLEAN : RespondAgent(rt, e, r, ok, reply)
  PROVE  Quiet
  <1>1. runs' = runs
    BY DEF ConnectAgent, PollAgent, RespondAgent
  <1>2. PICK d \in Devices : d = DeviceOf[rt]
    BY RelayAssumption
  <1>3. \A x \in Held(d) : x \in Runtimes => agent[x].pc # "ended"
    BY HeldPoll, IdleWaiter DEF Held
  <1>4. ASSUME NEW x \in Runtimes PROVE LedgerQuiet(x)
    <2>1. CASE ConnectAgent(rt, reply)
      <3>1. agent' = [y \in Runtimes |->
              IF y = rt /\ reply THEN [agent[y] EXCEPT !.pc = "idle", !.epoch = device[d].epoch + 1]
              ELSE IF y \in Held(d) THEN Reconnecting(agent[y]) ELSE agent[y]]
        BY <1>2, <2>1 DEF ConnectAgent
      <3>2. \/ reply /\ x = rt /\ agent'[x] = [agent[x] EXCEPT !.pc = "idle", !.epoch = device[d].epoch + 1]
            \/ agent'[x] = Reconnecting(agent[x]) /\ x \in Held(d)
            \/ agent'[x] = agent[x]
        BY <3>1
      <3> QED
        BY <1>3, <3>2, EndedIsQuiet, AnswerIsQuiet DEF RelayInv
    <2>2. CASE PollAgent(rt, e, reply)
      <3>1. \/ \E q : agent' = IF reply THEN [agent EXCEPT ![rt].pc = "handle", ![rt].req = q] ELSE agent
            \/ agent' = [y \in Runtimes |->
                  IF y = rt /\ reply THEN [agent[y] EXCEPT !.pc = "polling"]
                  ELSE IF y \in Held(d) THEN Reconnecting(agent[y]) ELSE agent[y]]
        BY <1>2, <2>2 DEF PollAgent
      <3>2. \/ \E q : reply /\ x = rt /\ agent'[x] = [agent[x] EXCEPT !.pc = "handle", !.req = q]
            \/ reply /\ x = rt /\ agent'[x] = [agent[x] EXCEPT !.pc = "polling"]
            \/ agent'[x] = Reconnecting(agent[x]) /\ x \in Held(d)
            \/ agent'[x] = agent[x]
        <4>1. ASSUME NEW q, agent' = IF reply THEN [agent EXCEPT ![rt].pc = "handle", ![rt].req = q]
                                     ELSE agent
              PROVE  \/ reply /\ x = rt /\ agent'[x] = [agent[x] EXCEPT !.pc = "handle", !.req = q]
                     \/ agent'[x] = agent[x]
          BY <4>1 DEF RelayInv, RelayTypes
        <4> QED
          BY <3>1, <4>1
      <3> QED
        BY <1>3, <3>2, EndedIsQuiet, AnswerIsQuiet DEF RelayInv
    <2>3. CASE \E r \in Requests, ok \in BOOLEAN : RespondAgent(rt, e, r, ok, reply)
      <3>1. PICK no \in BOOLEAN : agent' = IF reply
              THEN [agent EXCEPT ![rt].pc = "idle", ![rt].req = 0, ![rt].ok = no] ELSE agent
        BY <2>3 DEF RespondAgent
      <3>2. \/ reply /\ x = rt /\ agent'[x] = [agent[x] EXCEPT !.pc = "idle", !.req = 0, !.ok = no]
            \/ agent'[x] = agent[x]
        BY <3>1 DEF RelayInv, RelayTypes
      <3>3. PICK g \in AgentRecord : g = agent[x]
        BY DEF RelayInv, RelayTypes
      <3>4. [g EXCEPT !.pc = "idle", !.req = 0, !.ok = no].ledger = g.ledger
        BY DEF AgentRecord
      <3> QED
        BY <3>2, <3>3, <3>4 DEF LedgerQuiet
    <2> QED
      BY <2>1, <2>2, <2>3
  <1> QED
    BY <1>1, <1>4 DEF Quiet

\* An agent that starts, stops, gives up or is refused is quiet.
LEMMA StoppedIsQuiet ==
  ASSUME RelayInv, NEW rt \in Runtimes,
         \/ StopAgent(rt) \/ GiveUpRequest(rt) \/ StartAgent(rt) \/ EnvelopeTooLate(rt)
         \/ Serve(rt) /\ Refused(rt)
  PROVE  Quiet
  <1>1. runs' = runs
    BY DEF StopAgent, GiveUpRequest, StartAgent, EnvelopeTooLate, Refused
  <1>2. ASSUME NEW x \in Runtimes PROVE LedgerQuiet(x)
    <2>1. Waits(rt) => agent[rt].pc = "polling"
      BY RelayAssumption, HeldPoll, IdleWaiter DEF Waits
    <2>2. CASE x # rt
      <3>1. agent'[x] = agent[x]
        BY <2>2 DEF StopAgent, GiveUpRequest, StartAgent, EnvelopeTooLate, Refused, RelayInv, RelayTypes
      <3> QED
        BY <3>1, EndedIsQuiet DEF RelayInv
    <2>3. CASE x = rt /\ StopAgent(rt)
      <3>1. agent'[rt] = Ended(agent[rt])
        BY <2>3 DEF StopAgent, RelayInv, RelayTypes
      <3> QED
        BY <2>3, <3>1, EndedIsQuiet DEF RelayInv
    <2>4. CASE x = rt /\ (GiveUpRequest(rt) \/ EnvelopeTooLate(rt))
      <3>1. agent'[rt] = Reconnecting(agent[rt]) /\ agent[rt].pc # "ended"
        BY <2>1, <2>4 DEF GiveUpRequest, EnvelopeTooLate, Calling, RelayInv, RelayTypes
      <3> QED
        BY <2>4, <3>1, EndedIsQuiet DEF RelayInv
    <2>5. CASE x = rt /\ StartAgent(rt)
      <3>1. agent'[rt] = [agent[rt] EXCEPT !.pc = "connect"] /\ agent[rt].pc # "ended"
        BY <2>5 DEF StartAgent, RelayInv, RelayTypes
      <3> QED
        BY <2>5, <3>1, AnswerIsQuiet DEF RelayInv
    <2>6. CASE x = rt /\ Serve(rt) /\ Refused(rt)
      <3>1. agent[rt].pc # "ended"
        BY <2>6 DEF Serve, Calling
      <3>2. agent'[rt] = Ended(agent[rt]) \/ agent'[rt] = Reconnecting(agent[rt])
        BY <2>6 DEF Refused, RelayInv, RelayTypes
      <3> QED
        BY <2>6, <3>1, <3>2, EndedIsQuiet DEF RelayInv
    <2> QED
      BY <2>2, <2>3, <2>4, <2>5, <2>6
  <1> QED
    BY <1>1, <1>2 DEF Quiet

\* What the relay does by itself is quiet.
LEMMA CoreIsQuiet ==
  ASSUME RelayInv,
         \/ \E a \in Accounts, D \in SUBSET Devices : Revoke(a, D)
         \/ RelayRestart
         \/ \E r \in Requests : DeadlineTimer(r)
         \/ \E d \in Devices : \/ BeginPairing(d) \/ ExpirePairing(d) \/ CompletePairing(d)
                               \/ \E a \in Accounts : ApprovePairing(d, a)
                               \/ PollTimeout(d)
  PROVE  Quiet
  <1>1. runs' = runs
    BY DEF Revoke, RelayRestart, DeadlineTimer, BeginPairing, ExpirePairing, CompletePairing,
           ApprovePairing, PollTimeout
  <1>2. ASSUME NEW x \in Runtimes PROVE LedgerQuiet(x)
    <2>1. CASE \E a \in Accounts, D \in SUBSET Devices : Revoke(a, D)
      <3>1. agent'[x] = agent[x] \/ agent'[x] = Ended(agent[x])
        BY <2>1 DEF Revoke, EndWaiters
      <3> QED
        BY <3>1, EndedIsQuiet DEF RelayInv
    <2>2. CASE RelayRestart
      <3>1. agent'[x] = agent[x] \/ (agent'[x] = Reconnecting(agent[x]) /\ agent[x].pc # "ended")
        BY <2>2 DEF RelayRestart
      <3> QED
        BY <3>1, EndedIsQuiet DEF RelayInv
    <2>3. ASSUME NEW d \in Devices, PollTimeout(d) PROVE LedgerQuiet(x)
      <3>1. agent'[x] = agent[x]
            \/ (agent[x].pc = "polling" /\ agent'[x] = [agent[x] EXCEPT !.pc = "idle"])
        <4>1. PICK y \in Runtimes : /\ y = waiter[d].runtime
                                    /\ (waiter[d].live => agent[y].pc = "polling")
          BY <2>3, HeldPoll DEF PollTimeout
        <4>2. agent' = agent \/ (waiter[d].live /\ agent' = [agent EXCEPT ![y].pc = "idle"])
          BY <2>3, <4>1 DEF PollTimeout
        <4> QED
          BY <4>1, <4>2 DEF RelayInv, RelayTypes
      <3> QED
        BY <3>1, EndedIsQuiet, AnswerIsQuiet DEF RelayInv
    <2>4. CASE UNCHANGED agent
      BY <2>4, EndedIsQuiet DEF RelayInv
    <2> QED
      BY <2>1, <2>2, <2>3, <2>4 DEF DeadlineTimer, BeginPairing, ExpirePairing, CompletePairing,
         ApprovePairing
  <1> QED
    BY <1>1, <1>2 DEF Quiet

\* A dispatch is quiet, even when it answers a poll.
LEMMA DispatchIsQuiet ==
  ASSUME RelayInv, NEW a, NEW d \in Devices, NEW kind, NEW h, NEW p,
         DispatchForAccount(a, d, kind, h, p)
  PROVE  Quiet
  <1>1. PICK r \in Requests : QueueRequest(d, r)
    BY DEF DispatchForAccount
  <1>2. ASSUME NEW x \in Runtimes PROVE LedgerQuiet(x)
    <2>1. CASE waiter[d] # NoWaiter /\ waiter[d].live
      <3>1. PICK y \in Runtimes : y = waiter[d].runtime /\ agent[y].pc = "polling"
        BY <2>1, HeldPoll
      <3>2. PICK got \in BOOLEAN : agent' = [agent EXCEPT ![y] =
               IF got THEN [agent[y] EXCEPT !.pc = "handle", !.req = r] ELSE Reconnecting(agent[y])]
        BY <1>1, <2>1, <3>1 DEF QueueRequest
      <3>3. agent'[x] = agent[x]
            \/ (x = y /\ agent'[x] = [agent[x] EXCEPT !.pc = "handle", !.req = r])
            \/ (x = y /\ agent'[x] = Reconnecting(agent[x]))
        BY <3>2 DEF RelayInv, RelayTypes
      <3> QED
        BY <3>1, <3>3, EndedIsQuiet, AnswerIsQuiet DEF RelayInv
    <2>2. CASE ~(waiter[d] # NoWaiter /\ waiter[d].live)
      <3>1. agent' = agent
        BY <1>1, <2>2 DEF QueueRequest
      <3> QED
        BY <3>1, EndedIsQuiet DEF RelayInv
    <2> QED
      BY <2>1, <2>2
  <1> QED
    BY <1>2 DEF DispatchForAccount, Quiet

----------------------------------------------------------------------------
\* The requests in a ledger.
Remembered(l) == {x.req : x \in Range(l)}

\* A ledger without repetition knows as many requests as it has entries.
LEMMA RememberedCounted ==
  ASSUME NEW l \in Seq(Entry), \A i, k \in DOMAIN l : l[i].req = l[k].req => i = k
  PROVE  /\ IsFiniteSet(Remembered(l)) /\ Cardinality(Remembered(l)) = Len(l)
         /\ Remembered(l) \subseteq Requests
         /\ \A q : q \in Remembered(l) <=> \E i \in DOMAIN l : l[i].req = q
  <1> DEFINE S == 1..Len(l)
             f == [i \in S |-> l[i].req]
  <1>1. Len(l) \in Nat /\ DOMAIN l = S /\ \A i \in S : l[i] \in Entry
    OBVIOUS
  <1>2. \A q : q \in Remembered(l) <=> \E i \in S : l[i].req = q
    BY <1>1 DEF Remembered, Range
  <1>3. IsFiniteSet(S) /\ Cardinality(S) = Len(l)
    <2>1. 1 \in Int /\ Len(l) \in Int
      BY <1>1
    <2>2. IsFiniteSet(1..Len(l))
          /\ Cardinality(1..Len(l)) = IF 1 > Len(l) THEN 0 ELSE Len(l) - 1 + 1
      BY <2>1, FS_Interval
    <2> QED
      BY <1>1, <2>2
  <1>4. f \in Bijection(S, Remembered(l))
    <2>1. f \in [S -> Remembered(l)]
      BY <1>2
    <2>2. \A i, k \in S : f[i] = f[k] => i = k
      BY <1>1
    <2>3. \A q \in Remembered(l) : \E i \in S : f[i] = q
      BY <1>2
    <2> HIDE DEF f, S
    <2>4. f \in Injection(S, Remembered(l)) /\ f \in Surjection(S, Remembered(l))
      BY <2>1, <2>2, <2>3 DEF Injection, Surjection, IsInjective
    <2> QED
      BY <2>4 DEF Bijection
  <1>5. ExistsBijection(S, Remembered(l))
    BY <1>4 DEF ExistsBijection
  <1>6. IsFiniteSet(Remembered(l)) /\ Cardinality(Remembered(l)) = Cardinality(S)
    BY <1>3, <1>5, FS_Bijection
  <1>7. \A x \in Entry : x.req \in Requests
    BY DEF Entry
  <1> QED
    BY <1>1, <1>2, <1>3, <1>6, <1>7

\* #remember: a new entry among entries of other requests, the oldest of which goes when
\* the ledger is full.
LEMMA RememberKeeps ==
  ASSUME NEW l \in Seq(Entry), NEW e \in Entry, Len(l) <= LedgerLimit,
         \A i, k \in DOMAIN l : l[i].req = l[k].req => i = k,
         \A i \in DOMAIN l : l[i].req # e.req
  PROVE  LET n == Remember(l, e)
         IN  /\ n \in Seq(Entry) /\ Len(n) <= LedgerLimit
             /\ \A i, k \in DOMAIN n : n[i].req = n[k].req => i = k
             /\ \E i \in DOMAIN n : n[i].req = e.req
             /\ Len(n) = LedgerLimit \/ \A i \in DOMAIN l : i \in DOMAIN n /\ n[i] = l[i]
             /\ Len(l) = LedgerLimit => Len(n) = LedgerLimit
  <1> DEFINE m == Append(l, e)
             Good(n) == /\ Len(n) <= LedgerLimit
                        /\ \A i, k \in DOMAIN n : n[i].req = n[k].req => i = k
                        /\ \E i \in DOMAIN n : n[i].req = e.req
                        /\ Len(n) = LedgerLimit \/ \A i \in DOMAIN l : i \in DOMAIN n /\ n[i] = l[i]
                        /\ Len(l) = LedgerLimit => Len(n) = LedgerLimit
  <1> SUFFICES \E n \in Seq(Entry) : n = Remember(l, e) /\ Good(n)
    OBVIOUS
  <1>1. LedgerLimit \in Nat \ {0}
    BY RelayAssumption
  <1>2. /\ Len(l) \in Nat /\ DOMAIN l = 1..Len(l)
        /\ m \in Seq(Entry) /\ Len(m) = Len(l) + 1 /\ DOMAIN m = 1..(Len(l) + 1)
        /\ \A i \in 1..Len(l) : m[i] = l[i]
        /\ m[Len(l) + 1] = e
    OBVIOUS
  <1>3. ASSUME NEW i \in DOMAIN m, NEW k \in DOMAIN m, m[i].req = m[k].req PROVE i = k
    <2>1. \A j \in DOMAIN m : j \in DOMAIN l \/ j = Len(l) + 1
      BY <1>2
    <2> QED
      BY <1>2, <1>3, <2>1
  <1> HIDE DEF m
  <1>4. CASE Len(l) = LedgerLimit
    <2>1. Remember(l, e) = Tail(m)
      BY <1>1, <1>2, <1>4 DEF Remember, m
    <2>2. PICK n \in Seq(Entry) : /\ n = Tail(m) /\ Len(n) = Len(l) /\ DOMAIN n = 1..Len(l)
                                 /\ \A i \in 1..Len(l) : n[i] = m[i + 1]
      <3>1. m # << >> /\ m \in Seq(Entry)
        BY <1>2
      <3>2. /\ Tail(m) \in Seq(Entry) /\ Len(Tail(m)) = Len(m) - 1
            /\ \A i \in 1..(Len(m) - 1) : Tail(m)[i] = m[i + 1]
        BY <3>1
      <3>3. Len(m) - 1 = Len(l) /\ DOMAIN Tail(m) = 1..Len(Tail(m))
        BY <1>2, <3>2
      <3> QED
        BY <3>2, <3>3
    <2>3. \A i \in 1..Len(l) : i + 1 \in DOMAIN m
      BY <1>2
    <2>4. ASSUME NEW i \in 1..Len(l), NEW k \in 1..Len(l), n[i].req = n[k].req
          PROVE  i = k
      <3>1. i + 1 = k + 1
        BY <1>3, <2>2, <2>3, <2>4
      <3> QED
        BY <1>2, <3>1
    <2>5. Len(l) \in DOMAIN n /\ n[Len(l)].req = e.req
      BY <1>1, <1>2, <1>4, <2>2
    <2>6. \A i, k \in DOMAIN n : n[i].req = n[k].req => i = k
      BY <2>2, <2>4
    <2>7. Len(n) = LedgerLimit /\ Remember(l, e) = n /\ Len(n) <= LedgerLimit
      BY <1>1, <1>4, <2>1, <2>2
    <2> QED
      BY <2>5, <2>6, <2>7
  <1>5. CASE Len(l) < LedgerLimit
    <2>1. Remember(l, e) = m
      <3>1. ~(Len(m) > LedgerLimit)
        BY <1>1, <1>2, <1>5
      <3> QED
        BY <3>1 DEF Remember, m
    <2>2. Len(l) + 1 \in DOMAIN m /\ m[Len(l) + 1].req = e.req
      BY <1>2
    <2>3. Len(m) <= LedgerLimit /\ Len(l) # LedgerLimit
      <3>1. \A k, n \in Nat : k < n => k + 1 <= n /\ k # n
        OBVIOUS
      <3>2. Len(l) \in Nat /\ LedgerLimit \in Nat /\ Len(m) = Len(l) + 1
        BY <1>1, <1>2
      <3> QED
        BY <1>5, <3>1, <3>2
    <2>4. \A i \in DOMAIN l : i \in DOMAIN m /\ m[i] = l[i]
      BY <1>2
    <2>5. \A i, k \in DOMAIN m : m[i].req = m[k].req => i = k
      BY <1>3
    <2> QED
      BY <1>2, <2>1, <2>2, <2>3, <2>4, <2>5
  <1>6. \A k, n \in Nat : k <= n => k = n \/ k < n
    OBVIOUS
  <1>7. Len(l) \in Nat /\ LedgerLimit \in Nat
    BY <1>1
  <1> QED
    BY <1>4, <1>5, <1>6, <1>7

\* The execution of request r by the agent of rt: what the ledger held, and holds.
LEMMA Execution ==
  ASSUME LedgerInv, NEW rt \in Runtimes, agent[rt].pc = "handle", NEW r, r = agent[rt].req,
         Terminals(rt, r) = {}, Execute(rt, r)
  PROVE  /\ r \in Requests
         /\ \A i \in DOMAIN agent[rt].ledger : agent[rt].ledger[i].req # r
         /\ \E e \in Entry : e.req = r /\ agent'[rt].ledger = Remember(agent[rt].ledger, e)
         /\ \A x \in Runtimes : x # rt => agent'[x] = agent[x]
         /\ runs'[r][rt] = runs[r][rt] + 1 /\ runs[r][rt] \in Nat
         /\ \A q \in Requests, x \in Runtimes : q # r \/ x # rt => runs'[q][x] = runs[q][x]
  <1>1. RelayInv /\ LedgerFits(rt) /\ r \in Requests
    BY DEF LedgerInv, RelayInv, AgentFits
  <1>2. PICK ok \in BOOLEAN : agent' = [agent EXCEPT ![rt].pc = "responding",
           ![rt].ok = ok, ![rt].ledger = Remember(@, [req |-> r, ok |-> ok])]
    BY DEF Execute
  <1>3. PICK g \in AgentRecord : g = agent[rt]
    BY <1>1 DEF RelayInv, RelayTypes
  <1>4. PICK e \in Entry : e = [req |-> r, ok |-> ok] /\ e.req = r
    <2>1. [req |-> r, ok |-> ok] \in Entry
      BY <1>1 DEF Entry
    <2>2. [req |-> r, ok |-> ok].req = r
      OBVIOUS
    <2> QED
      BY <2>1, <2>2
  <1>5. PICK l \in Seq(Entry) : l = g.ledger
    BY DEF AgentRecord
  <1>6. ASSUME NEW i \in DOMAIN l PROVE l[i].req # r
    BY <1>3, <1>5 DEF Terminals, Range
  <1>7. PICK m \in Seq(Entry) : m = Remember(l, e)
    BY <1>1, <1>3, <1>4, <1>5, <1>6, RememberKeeps DEF LedgerFits
  <1>8. /\ agent'[rt].ledger = m
        /\ \A x \in Runtimes : x # rt => agent'[x] = agent[x]
    <2>1. agent'[rt] = [g EXCEPT !.pc = "responding", !.ok = ok, !.ledger = m]
      BY <1>1, <1>2, <1>3, <1>4, <1>5, <1>7 DEF RelayInv, RelayTypes
    <2>2. [g EXCEPT !.pc = "responding", !.ok = ok, !.ledger = m].ledger = m
      BY DEF AgentRecord
    <2> QED
      BY <1>1, <1>2, <2>1, <2>2 DEF RelayInv, RelayTypes
  <1>9. /\ runs'[r][rt] = runs[r][rt] + 1 /\ runs[r][rt] \in Nat
        /\ \A q \in Requests, x \in Runtimes : q # r \/ x # rt => runs'[q][x] = runs[q][x]
    BY <1>1, Ran DEF Execute, RelayInv, RelayTypes
  <1> QED
    BY <1>1, <1>3, <1>4, <1>5, <1>6, <1>7, <1>8, <1>9

\* An execution keeps what the ledgers know: what its entry drops leaves the ledger full.
LEMMA ExecuteKeepsLedger ==
  ASSUME LedgerInv, RelayInv', NEW rt \in Runtimes,
         agent[rt].pc = "handle", NEW r, r = agent[rt].req,
         Terminals(rt, r) = {}, Execute(rt, r)
  PROVE  LedgerInv'
  <1>1. /\ r \in Requests
        /\ \A i \in DOMAIN agent[rt].ledger : agent[rt].ledger[i].req # r
        /\ \A x \in Runtimes : x # rt => agent'[x] = agent[x]
        /\ \A q \in Requests, x \in Runtimes : q # r \/ x # rt => runs'[q][x] = runs[q][x]
    BY Execution
  <1>2. PICK e \in Entry : e.req = r /\ agent'[rt].ledger = Remember(agent[rt].ledger, e)
    BY Execution
  <1>3. PICK l \in Seq(Entry) : l = agent[rt].ledger
    BY DEF LedgerInv, RelayInv, RelayTypes, AgentRecord
  <1>4. LedgerFits(rt)
    BY DEF LedgerInv
  <1>5. PICK n \in Seq(Entry) : n = Remember(l, e)
    BY <1>1, <1>2, <1>3, <1>4, RememberKeeps DEF LedgerFits
  <1>6. /\ Len(n) <= LedgerLimit
        /\ \A i, k \in DOMAIN n : n[i].req = n[k].req => i = k
        /\ \E i \in DOMAIN n : n[i].req = r
        /\ Len(n) = LedgerLimit \/ \A i \in DOMAIN l : i \in DOMAIN n /\ n[i] = l[i]
        /\ Len(l) = LedgerLimit => Len(n) = LedgerLimit
    BY SMTT(60), <1>1, <1>2, <1>3, <1>4, <1>5, RememberKeeps DEF LedgerFits
  <1>7. ASSUME NEW q \in Requests, runs'[q][rt] > 0
        PROVE  (\E i \in DOMAIN n : n[i].req = q) \/ Len(n) = LedgerLimit
    <2>1. CASE q = r
      BY <1>6, <2>1
    <2>2. CASE q # r
      <3>1. (\E i \in DOMAIN l : l[i].req = q) \/ Len(l) = LedgerLimit
        BY <1>1, <1>3, <1>4, <1>7, <2>2 DEF LedgerFits
      <3> QED
        BY <1>6, <3>1
    <2> QED
      BY <2>1, <2>2
  <1>8. ASSUME NEW x \in Runtimes PROVE LedgerFits(x)'
    <2>1. CASE x = rt
      BY <1>2, <1>3, <1>5, <1>6, <1>7, <2>1 DEF LedgerFits
    <2>2. CASE x # rt
      <3>1. LedgerFits(x) /\ agent'[x] = agent[x] /\ \A q \in Requests : runs'[q][x] = runs[q][x]
        BY <1>1, <2>2 DEF LedgerInv
      <3> QED
        BY <3>1 DEF LedgerFits
    <2> QED
      BY <2>1, <2>2
  <1> QED
    BY <1>8 DEF LedgerInv

\* The agent of rt executes what it has in hand.
Executing(rt) == /\ agent[rt].pc = "handle" /\ Terminals(rt, agent[rt].req) = {}
                 /\ Execute(rt, agent[rt].req)

\* Every step executes nothing and keeps the ledgers, or is one execution.
LEMMA QuietOrExecutes ==
  ASSUME LedgerInv, [RelayNext]_relayVars
  PROVE  Quiet \/ UNCHANGED relayVars \/ \E rt \in Runtimes : Executing(rt)
  <1>1. RelayInv
    BY DEF LedgerInv
  <1> SUFFICES ASSUME \A rt \in Runtimes : ~Executing(rt), ~UNCHANGED relayVars
               PROVE  Quiet
    OBVIOUS
  <1>3. CASE \E d \in Devices : BeginPairing(d) \/ ExpirePairing(d) \/ CompletePairing(d)
                                \/ PollTimeout(d)
    BY <1>1, <1>3, CoreIsQuiet
  <1>4. CASE \E d \in Devices, a \in Accounts : ApprovePairing(d, a)
    BY <1>1, <1>4, CoreIsQuiet
  <1>5. CASE \E d \in Devices, a \in Accounts : RevokeDevice(a, d)
    <2>1. PICK d \in Devices, a \in Accounts : Revoke(a, {d})
      BY <1>5 DEF RevokeDevice
    <2> QED
      BY <1>1, <2>1, CoreIsQuiet
  <1>6. CASE \E a \in Accounts : RevokeAll(a)
    <2>1. PICK a \in Accounts : Revoke(a, {d \in Devices : Live(d) /\ device[d].account = a})
      BY <1>6 DEF RevokeAll
    <2>2. {d \in Devices : Live(d) /\ device[d].account = a} \in SUBSET Devices
      OBVIOUS
    <2> QED
      BY <1>1, <2>1, <2>2, CoreIsQuiet
  <1>7. CASE RelayRestart \/ \E r \in Requests : DeadlineTimer(r)
    BY <1>1, <1>7, CoreIsQuiet
  <1>8. CASE \E a \in Accounts, d \in Devices : WorkspaceOpen(a, d)
    BY <1>1, <1>8, DispatchIsQuiet DEF WorkspaceOpen
  <1>9. ASSUME NEW a \in Accounts, NEW h \in Requests, NEW p \in 0..MaxRequests,
               NEW k \in Kinds \ {"open"}, WorkspaceTool(a, k, h, p)
        PROVE  Quiet
    <2>1. Made(h)
      BY <1>1, <1>9 DEF WorkspaceTool, ResolveWorkspace, Valid, RelayInv, RequestFits, Nil
    <2>2. PICK d \in Devices : d = call[h].device
      BY <1>1, <2>1 DEF RelayInv, RelayTypes, Made, CallRecord
    <2> QED
      BY <1>1, <1>9, <2>2, DispatchIsQuiet DEF WorkspaceTool
  <1>10. ASSUME NEW rt \in Runtimes,
                StartAgent(rt) \/ StopAgent(rt) \/ GiveUpRequest(rt) \/ EnvelopeTooLate(rt)
         PROVE  Quiet
    BY <1>1, <1>10, StoppedIsQuiet
  <1>11. ASSUME NEW rt \in Runtimes, Serve(rt) PROVE Quiet
    <2>1. agent[rt] \in AgentRecord /\ agent[rt].pc # "ended" /\ TRUE \in BOOLEAN
      BY <1>1, <1>11 DEF Serve, Calling, RelayInv, RelayTypes
    <2>2. agent[rt].epoch \in Nat /\ agent[rt].ok \in BOOLEAN
      BY <2>1 DEF AgentRecord
    <2>3. Type(rt) = "respond" => agent[rt].req \in Requests
      BY <1>1, <1>11 DEF Serve, Calling, Type, RelayInv, AgentFits
    <2>4. CASE Refused(rt)
      BY <1>1, <1>11, <2>4, StoppedIsQuiet
    <2>5. CASE ConnectAgent(rt, TRUE) \/ PollAgent(rt, agent[rt].epoch, TRUE)
      BY <1>1, <2>1, <2>2, <2>5, ServedIsQuiet
    <2>6. CASE Type(rt) = "respond"
               /\ RespondAgent(rt, agent[rt].epoch, agent[rt].req, agent[rt].ok, TRUE)
      BY <1>1, <2>1, <2>2, <2>3, <2>6, ServedIsQuiet
    <2> QED
      BY <1>11, <2>4, <2>5, <2>6 DEF Serve
  <1>12. ASSUME NEW rt \in Runtimes, HandleEnvelope(rt) PROVE Quiet
    <2>1. CASE Terminals(rt, agent[rt].req) = {} /\ Execute(rt, agent[rt].req)
      BY <1>12, <2>1 DEF HandleEnvelope, Executing
    <2>2. ASSUME NEW x \in Terminals(rt, agent[rt].req), UNCHANGED runs,
                 agent' = [agent EXCEPT ![rt].pc = "responding", ![rt].ok = x.ok]
          PROVE  Quiet
      <3>1. PICK o : o = x.ok
        OBVIOUS
      <3>2. agent[rt].pc # "ended"
        BY <1>12 DEF HandleEnvelope
      <3>3. ASSUME NEW y \in Runtimes PROVE LedgerQuiet(y)
        <4>1. agent'[y] = agent[y]
              \/ (y = rt /\ agent'[y] = [agent[y] EXCEPT !.pc = "responding", !.ok = o])
          BY <1>1, <2>2, <3>1 DEF RelayInv, RelayTypes
        <4> QED
          BY <1>1, <3>2, <4>1, EndedIsQuiet, AnswerIsQuiet DEF RelayInv
      <3> QED
        BY <2>2, <3>3 DEF Quiet
    <2> QED
      BY <1>12, <2>1, <2>2 DEF HandleEnvelope
  <1>13. ASSUME NEW m \in stray, ServeStray(m) PROVE Quiet
    <2>1. m \in MessageRecord /\ FALSE \in BOOLEAN
      BY <1>1 DEF RelayInv, RelayTypes
    <2>2. m.runtime \in Runtimes /\ m.epoch \in Nat /\ m.ok \in BOOLEAN
      BY <2>1 DEF MessageRecord
    <2>3. m.type = "respond" => m.req \in Requests
      BY <1>1 DEF RelayInv, MessageFits
    <2> QED
      BY <1>1, <1>13, <2>1, <2>2, <2>3, ServedIsQuiet DEF ServeStray
  <1> QED
    BY <1>3, <1>4, <1>5, <1>6, <1>7, <1>8, <1>9, <1>10, <1>11, <1>12, <1>13 DEF RelayNext

\* Every step keeps the ledgers.
LEMMA LedgerStep == LedgerInv /\ [RelayNext]_relayVars => LedgerInv'
  <1> SUFFICES ASSUME LedgerInv, [RelayNext]_relayVars PROVE LedgerInv'
    OBVIOUS
  <1>1. RelayInv'
    BY RelayStep DEF LedgerInv
  <1>2. CASE UNCHANGED relayVars
    BY <1>1, <1>2 DEF relayVars, LedgerInv, LedgerFits
  <1> QED
    BY <1>1, <1>2, QuietOrExecutes, QuietKeepsLedgers, ExecuteKeepsLedger DEF Executing

\* What the ledgers know is an invariant, whatever their size.
LEMMA LedgerInvariant == RelaySpec => []LedgerInv
  <1>1. RelayInit => LedgerInv
    <2> SUFFICES ASSUME RelayInit, NEW rt \in Runtimes PROVE LedgerFits(rt)
      BY RelayInitial DEF LedgerInv
    <2>1. agent[rt] = NoAgent /\ \A r \in Requests : runs[r][rt] = 0
      BY DEF RelayInit
    <2> QED
      BY <2>1, RelayAssumption DEF LedgerFits, NoAgent
  <1> QED
    BY <1>1, LedgerStep, PTL DEF RelaySpec

\* A request that is executed again was forgotten: its agent executed as many other
\* requests since as its ledger holds.
LEMMA AgainIsForgotten ==
  ASSUME LedgerInv, [RelayNext]_relayVars, NEW r \in Requests, NEW rt \in Runtimes,
         runs[r][rt] > 0, runs'[r][rt] # runs[r][rt]
  PROVE  /\ runs'[r][rt] = runs[r][rt] + 1 /\ r \notin Remembered(agent[rt].ledger)
         /\ Remembered(agent[rt].ledger) \subseteq Requests
         /\ IsFiniteSet(Remembered(agent[rt].ledger))
         /\ Cardinality(Remembered(agent[rt].ledger)) = LedgerLimit
  <1>1. ~Quiet /\ ~UNCHANGED relayVars
    BY DEF Quiet, relayVars
  <1>2. PICK x \in Runtimes : Executing(x)
    BY <1>1, QuietOrExecutes
  <1>3. PICK q : q = agent[x].req
    OBVIOUS
  <1>4. q = r /\ x = rt /\ runs'[r][rt] = runs[r][rt] + 1
        /\ \A i \in DOMAIN agent[rt].ledger : agent[rt].ledger[i].req # r
    BY <1>2, <1>3, Execution DEF Executing
  <1>5. LedgerFits(rt)
    BY DEF LedgerInv
  <1>6. PICK l \in Seq(Entry) : l = agent[rt].ledger
    BY DEF LedgerInv, RelayInv, RelayTypes, AgentRecord
  <1>7. Len(l) = LedgerLimit /\ \A i, k \in DOMAIN l : l[i].req = l[k].req => i = k
    BY <1>2, <1>4, <1>5, <1>6 DEF LedgerFits, Executing
  <1> QED
    BY <1>4, <1>6, <1>7, RememberedCounted

(* Executed again only when forgotten (agent.js handleEnvelope, #remember): whatever *)
(* replies are lost and however often a request is queued again, the runtime that    *)
(* executes a request again has executed LedgerLimit other requests since, so that   *)
(* its ledger holds none but them.                                                   *)
OnlyForgottenRunsAgain ==
  [][\A r \in Requests, rt \in Runtimes :
       runs[r][rt] > 0 /\ runs'[r][rt] # runs[r][rt] =>
         /\ r \notin Remembered(agent[rt].ledger)
         /\ Cardinality(Remembered(agent[rt].ledger)) = LedgerLimit]_relayVars

\* A request runs again only after its entry was evicted by LedgerLimit others, for a
\* ledger of any size.
THEOREM ForgottenRunsAgain == RelaySpec => OnlyForgottenRunsAgain
  <1>1. LedgerInv /\ [RelayNext]_relayVars =>
          [\A r \in Requests, rt \in Runtimes :
             runs[r][rt] > 0 /\ runs'[r][rt] # runs[r][rt] =>
               /\ r \notin Remembered(agent[rt].ledger)
               /\ Cardinality(Remembered(agent[rt].ledger)) = LedgerLimit]_relayVars
    BY AgainIsForgotten
  <1> QED
    BY <1>1, LedgerInvariant, PTL DEF RelaySpec, OnlyForgottenRunsAgain

(* At most once (agent.js ledger, core.js connectAgent): whatever replies are *)
(* lost and however often a request is queued again, one runtime executes it, *)
(* once, as long as its ledger has room for the requests of the behaviour.    *)
THEOREM ExecutedOnce ==
  ASSUME LedgerLimit >= MaxRequests
  PROVE  RelaySpec => []ExecutedAtMostOnce
  <1> DEFINE Once == \A r \in Requests, rt \in Runtimes : runs[r][rt] <= 1
  <1>1. RelayInit => Once
    BY DEF RelayInit
  <1>2. LedgerInv /\ Once /\ [RelayNext]_relayVars => Once'
    <2> SUFFICES ASSUME LedgerInv, Once, [RelayNext]_relayVars,
                        NEW r \in Requests, NEW rt \in Runtimes
                 PROVE  runs'[r][rt] <= 1
      OBVIOUS
    <2>1. CASE runs'[r][rt] = runs[r][rt]
      BY <2>1
    <2>2. CASE runs'[r][rt] # runs[r][rt] /\ ~(runs[r][rt] > 0)
      <3>1. ~Quiet /\ ~UNCHANGED relayVars
        BY <2>2 DEF Quiet, relayVars
      <3>2. PICK x \in Runtimes : Executing(x)
        BY <3>1, QuietOrExecutes
      <3>3. PICK q : q = agent[x].req
        OBVIOUS
      <3>4. runs'[r][rt] = runs[r][rt] + 1 /\ runs[r][rt] \in Nat
        BY <2>2, <3>2, <3>3, Execution DEF Executing
      <3> QED
        BY <2>2, <3>4
    <2>3. CASE runs'[r][rt] # runs[r][rt] /\ runs[r][rt] > 0
      <3> DEFINE T == Remembered(agent[rt].ledger)
      <3>1. r \notin T /\ T \subseteq Requests /\ IsFiniteSet(T) /\ Cardinality(T) = LedgerLimit
        BY <2>3, AgainIsForgotten
      <3>2. MaxRequests \in Nat /\ LedgerLimit \in Nat
        BY RelayAssumption
      <3>3. IsFiniteSet(Requests) /\ Cardinality(Requests) = MaxRequests
        <4>1. 1 \in Int /\ MaxRequests \in Int
          BY <3>2
        <4>2. IsFiniteSet(1..MaxRequests)
              /\ Cardinality(1..MaxRequests) = IF 1 > MaxRequests THEN 0 ELSE MaxRequests - 1 + 1
          BY <4>1, FS_Interval
        <4> QED
          BY <3>2, <4>2 DEF Requests
      <3> HIDE DEF T
      <3>4. Cardinality(T) < Cardinality(Requests)
        <4>1. T # Requests
          BY <3>1
        <4>2. PICK U : U = Requests
          OBVIOUS
        <4> QED
          BY <3>1, <3>2, <3>3, <4>1, <4>2, FS_Subset
      <3> QED
        BY <3>1, <3>2, <3>3, <3>4
    <2> QED
      BY <2>1, <2>2, <2>3
  <1>3. LedgerInv /\ Once => ExecutedAtMostOnce
    <2> SUFFICES ASSUME LedgerInv, Once, NEW r \in Requests
                 PROVE  Cardinality({rt \in Runtimes : runs[r][rt] > 0}) <= 1
      BY DEF ExecutedAtMostOnce
    <2>1. {rt \in Runtimes : runs[r][rt] > 0} \in SUBSET {call[r].runtime}
      BY DEF LedgerInv, RelayInv, RequestFits
    <2>2. IsFiniteSet({call[r].runtime}) /\ Cardinality({call[r].runtime}) = 1
      BY FS_Singleton
    <2> QED
      BY <2>1, <2>2, FS_Subset
  <1> QED
    BY <1>1, <1>2, <1>3, LedgerInvariant, PTL DEF RelaySpec

----------------------------------------------------------------------------
\* Ordered numbers the members of a finite set, each once.
LEMMA OrderedHolds ==
  ASSUME NEW S \in SUBSET Int, IsFiniteSet(S)
  PROVE  /\ Cardinality(S) \in Nat /\ Ordered(S) \in [1..Cardinality(S) -> S]
         /\ \A x \in S : \E k \in 1..Cardinality(S) : Ordered(S)[k] = x
  <1> DEFINE n == Cardinality(S)
             Below(x) == {y \in S : y <= x}
             rank == [x \in S |-> Cardinality(Below(x))]
  <1>1. n \in Nat
    BY FS_CardinalityType
  <1>2. ASSUME NEW x \in S
        PROVE  IsFiniteSet(Below(x)) /\ rank[x] \in 1..n
    <2>1. Below(x) \in SUBSET S
      OBVIOUS
    <2>2. IsFiniteSet(Below(x)) /\ Cardinality(Below(x)) <= n
      BY <2>1, FS_Subset
    <2>3. Cardinality(Below(x)) \in Nat /\ Cardinality(Below(x)) # 0
      <3>1. x \in Below(x)
        OBVIOUS
      <3> HIDE DEF Below
      <3> QED
        BY <2>2, <3>1, FS_CardinalityType, FS_EmptySet
    <2> HIDE DEF Below, n
    <2> QED
      BY <1>1, <2>2, <2>3
  <1>3. ASSUME NEW x \in S, NEW z \in S, x < z PROVE rank[x] < rank[z]
    <2>1. Below(x) \in SUBSET Below(z) /\ z \notin Below(x) /\ z \in Below(z)
      <3>1. ~(z <= x) /\ z <= z /\ \A y \in S : y <= x => y <= z
        BY <1>3
      <3> QED
        BY <3>1, Zenon
    <2> HIDE DEF Below
    <2>2. Cardinality(Below(x)) <= Cardinality(Below(z)) /\ Cardinality(Below(x)) # Cardinality(Below(z))
      BY <1>2, <2>1, FS_Subset
    <2>3. Cardinality(Below(x)) \in Nat /\ Cardinality(Below(z)) \in Nat
      BY <1>2, FS_CardinalityType
    <2> QED
      BY <2>2, <2>3
  <1> HIDE DEF Below
  <1>4. rank \in [S -> 1..n]
    BY <1>2
  <1>5. \A x, z \in S : rank[x] = rank[z] => x = z
    <2> HIDE DEF rank
    <2>1. \A x \in S : rank[x] \in Int
      BY <1>1, <1>2
    <2> QED
      BY <1>3, <2>1
  <1>6. rank \in Injection(S, 1..n)
    <2> HIDE DEF rank, n
    <2> QED
      BY <1>4, <1>5, Fun_IsInj
  <1>7. IsFiniteSet(1..n) /\ Cardinality(1..n) = n
    <2> HIDE DEF n
    <2>1. 1 \in Int /\ n \in Int
      BY <1>1
    <2>2. IsFiniteSet(1..n) /\ Cardinality(1..n) = IF 1 > n THEN 0 ELSE n - 1 + 1
      BY <2>1, FS_Interval
    <2> QED
      BY <1>1, <2>2
  <1>8. rank \in Surjection(S, 1..n)
    <2> HIDE DEF rank
    <2> QED
      BY <1>6, <1>7, FS_Injection
  <1>9. \A k \in 1..n : \E x \in S : rank[x] = k
    <2> HIDE DEF rank, n
    <2> QED
      BY <1>8, Fun_SurjectionProperties
  <1>10. Ordered(S) = [k \in 1..n |-> Ordered(S)[k]]
    BY DEF Ordered
  <1>11. ASSUME NEW k \in 1..n PROVE Ordered(S)[k] \in S /\ rank[Ordered(S)[k]] = k
    <2>1. Ordered(S)[k] = CHOOSE x \in S : Cardinality({y \in S : y <= x}) = k
      BY DEF Ordered
    <2>2. \E x \in S : Cardinality({y \in S : y <= x}) = k
      BY <1>9 DEF Below
    <2>3. Ordered(S)[k] \in S /\ Cardinality({y \in S : y <= Ordered(S)[k]}) = k
      BY <2>1, <2>2
    <2> QED
      BY <2>3 DEF Below
  <1> HIDE DEF rank, n
  <1>12. \A x \in S : Ordered(S)[rank[x]] = x
    BY <1>4, <1>5, <1>11
  <1> QED
    BY <1>1, <1>4, <1>10, <1>11, <1>12 DEF n

\* A queue keeps what is not taken out of it, and the queue without S is a queue.
LEMMA WithoutKeeps ==
  ASSUME NEW T, NEW q \in Seq(T), NEW S
  PROVE  /\ Without(q, S) \in Seq(T)
         /\ Range(Without(q, S)) = Range(q) \ S
  <1> DEFINE I == {i \in DOMAIN q : q[i] \notin S}
  <1>1. Len(q) \in Nat /\ DOMAIN q = 1..Len(q)
    OBVIOUS
  <1>2. I \in SUBSET Int /\ IsFiniteSet(I)
    <2>1. IsFiniteSet(1..Len(q))
      BY <1>1, FS_Interval
    <2>2. I \in SUBSET (1..Len(q))
      BY <1>1
    <2> HIDE DEF I
    <2>3. I \in SUBSET Int
      BY <1>1, <2>2
    <2> QED
      BY <2>1, <2>2, <2>3, FS_Subset
  <1> DEFINE n == Cardinality(I)
             o == Ordered(I)
  <1>3. n \in Nat /\ o \in [1..n -> I] /\ \A i \in I : \E k \in 1..n : o[k] = i
    <2> HIDE DEF I
    <2> QED
      BY <1>2, OrderedHolds
  <1>4. Without(q, S) = [k \in DOMAIN o |-> q[o[k]]]
    BY DEF Without
  <1> HIDE DEF n, o
  <1>5. Without(q, S) = [k \in 1..n |-> q[o[k]]] /\ \A k \in 1..n : o[k] \in I
    BY <1>3, <1>4
  <1>6. \A i \in I : q[i] \in T /\ q[i] \notin S /\ i \in DOMAIN q
    BY <1>1
  <1>7. Without(q, S) \in Seq(T)
    BY <1>3, <1>5, <1>6
  <1>8. Range(Without(q, S)) \subseteq Range(q) \ S
    BY <1>5, <1>6 DEF Range
  <1>9. ASSUME NEW r \in Range(q), r \notin S PROVE r \in Range(Without(q, S))
    <2>1. PICK i \in I : q[i] = r
      BY <1>9 DEF Range
    <2>2. PICK k \in 1..n : o[k] = i
      BY <1>3, <2>1
    <2> QED
      BY <1>5, <2>1, <2>2 DEF Range
  <1> QED
    BY <1>7, <1>8, <1>9

----------------------------------------------------------------------------
\* An agent that is about to connect again, or has ended.
Away(rt) == agent[rt].pc \in {"connect", "ended"}
InHand(rt) == agent[rt].pc \in {"handle", "responding"}

\* Epochs: the session has the row's, an agent and a late call have it or an older one.
EpochFits(d) ==
  /\ session[d] # NoSession => session[d].epoch = device[d].epoch
  /\ device[d].epoch <= MaxEvents + (IF device[d].revoked THEN 1 ELSE 0)
\* A poll the relay holds has emptied the queue, and one nobody waits on any more was given
\* up by an agent that is away, as is a late poll of the session.
WaiterFits(d) ==
  waiter[d] # NoWaiter => /\ queue[d] = << >> /\ waiter[d].epoch = session[d].epoch
                          /\ ~waiter[d].live => Away(waiter[d].runtime)
StrayFits(m) ==
  LET d == DeviceOf[m.runtime] IN
  /\ m.epoch <= device[d].epoch
  /\ m.type = "poll" /\ session[d] = [runtime |-> m.runtime, epoch |-> m.epoch]
       => Away(m.runtime)
\* A pending request is of the session of its device, and has not been lost.
Placed(r) ==
  LET rt == call[r].runtime IN
  \/ r \in Range(queue[call[r].device])
  \/ InHand(rt) /\ agent[rt].req = r
  \/ Away(rt)
PendingFits(r) ==
  /\ session[call[r].device] = [runtime |-> call[r].runtime, epoch |-> call[r].epoch]
  /\ Placed(r)

ReachInv ==
  /\ RelayInv
  /\ queue \in [Devices -> Seq(Requests)]
  /\ \A d \in Devices : EpochFits(d) /\ WaiterFits(d)
  /\ \A rt \in Runtimes : agent[rt].epoch <= device[DeviceOf[rt]].epoch
  /\ \A m \in stray : StrayFits(m)
  /\ \A r \in pending : PendingFits(r)

\* What a step owes of that: no epoch goes back, a session stays, ends or is of a newer
\* connection, an agent comes back by connecting, and each request, held poll and late call
\* stays as it was or fits again.
Onward(d) ==
  /\ device'[d].epoch >= device[d].epoch
  /\ session'[d] = session[d] \/ session'[d] = NoSession
     \/ session'[d].epoch > device[d].epoch
Reconnected(d) == session'[d].epoch > device[d].epoch
StaysAway(rt) == Away(rt) => Away(rt)' \/ Reconnected(DeviceOf[rt])
KeepsHold(rt) == InHand(rt) => Away(rt)' \/ (InHand(rt)' /\ agent'[rt].req = agent[rt].req)
Undisturbed(r) ==
  LET d == call[r].device IN
  /\ r \in pending /\ call'[r] = call[r] /\ session'[d] = session[d]
  /\ r \in Range(queue[d]) => r \in Range(queue'[d])
  /\ KeepsHold(call[r].runtime)
HeldOn(d) == /\ waiter'[d] = waiter[d] /\ session'[d] = session[d]
             /\ waiter[d] # NoWaiter => queue'[d] = queue[d]

\* A pending request is of a runtime of its device.
LEMMA PendingIs ==
  ASSUME RelayInv, NEW r \in pending
  PROVE  /\ r \in Requests /\ call[r] \in CallRecord /\ Made(r)
         /\ call[r].device \in Devices /\ call[r].runtime \in Runtimes
         /\ DeviceOf[call[r].runtime] = call[r].device /\ call[r].epoch \in Nat
  <1>1. r \in Requests /\ Made(r)
    BY DEF RelayInv, RelayTypes
  <1>2. call[r] \in CallRecord
    BY <1>1 DEF RelayInv, RelayTypes, Made
  <1>3. call[r].device \in Devices /\ call[r].runtime \in Runtimes /\ call[r].epoch \in Nat
    BY <1>2 DEF CallRecord
  <1> QED
    BY <1>1, <1>2, <1>3 DEF RelayInv, RequestFits

\* Epochs are numbers, and a runtime is on a device.
LEMMA Epochs ==
  ASSUME RelayInv
  PROVE  /\ \A d \in Devices : device[d].epoch \in Nat /\ session[d].epoch \in Nat
         /\ \A rt \in Runtimes : agent[rt].epoch \in Nat /\ DeviceOf[rt] \in Devices
         /\ \A m \in stray : m.epoch \in Nat /\ m.runtime \in Runtimes
  BY RelayAssumption DEF RelayInv, RelayTypes, DeviceRecord, SessionRecord, AgentRecord, MessageRecord

\* A step that owes no more than that keeps every request within reach.
LEMMA ReachKeeps ==
  ASSUME ReachInv, RelayInv', queue' \in [Devices -> Seq(Requests)],
         \A d \in Devices : Onward(d) /\ EpochFits(d)',
         \A d \in Devices : HeldOn(d) \/ WaiterFits(d)',
         \A rt \in Runtimes : /\ StaysAway(rt)
                              /\ agent'[rt].epoch <= agent[rt].epoch
                                 \/ agent'[rt].epoch <= device'[DeviceOf[rt]].epoch,
         \A m \in stray' : m \in stray \/ StrayFits(m)',
         \A r \in pending' : Undisturbed(r) \/ PendingFits(r)'
  PROVE  ReachInv'
  <1>1. RelayInv
    BY DEF ReachInv
  <1>2. ASSUME NEW d \in Devices PROVE WaiterFits(d)'
    <2>1. CASE HeldOn(d) /\ waiter'[d] # NoWaiter
      <3>1. /\ waiter[d] # NoWaiter /\ WaiterFits(d) /\ waiter[d].runtime \in Runtimes
            /\ DeviceOf[waiter[d].runtime] = d
        BY <1>1, <2>1, HeldPoll DEF HeldOn, ReachInv
      <3>2. /\ waiter'[d] = waiter[d] /\ session'[d] = session[d] /\ queue'[d] = queue[d]
            /\ session[d].epoch <= device[d].epoch
        <4>1. session[d] # NoSession
          BY <1>1, <3>1, HeldPoll
        <4> QED
          BY <1>1, <2>1, <3>1, <4>1, Epochs DEF HeldOn, ReachInv, EpochFits
      <3>3. ~waiter[d].live => Away(waiter[d].runtime)'
        <4> SUFFICES ASSUME ~waiter[d].live PROVE Away(waiter[d].runtime)'
          OBVIOUS
        <4>1. PICK x \in Runtimes : x = waiter[d].runtime /\ DeviceOf[x] = d
          BY <3>1
        <4>2. Away(x) /\ ~Reconnected(d) /\ StaysAway(x)
          BY <1>1, <3>1, <3>2, <4>1, Epochs DEF WaiterFits, Reconnected
        <4> QED
          BY <3>2, <4>1, <4>2 DEF StaysAway, Away
      <3> QED
        BY <3>1, <3>2, <3>3 DEF WaiterFits, Away
    <2>2. CASE waiter'[d] = NoWaiter
      BY <2>2 DEF WaiterFits
    <2> QED
      BY <2>1, <2>2
  <1>3. ASSUME NEW rt \in Runtimes PROVE agent'[rt].epoch <= device'[DeviceOf[rt]].epoch
    <2>1. PICK d \in Devices : d = DeviceOf[rt]
      BY <1>1, Epochs
    <2>2. agent[rt].epoch <= device[d].epoch /\ device[d].epoch <= device'[d].epoch
          /\ agent[rt].epoch \in Nat /\ device[d].epoch \in Nat
      BY <1>1, <2>1, Epochs DEF ReachInv, Onward
    <2>3. agent'[rt].epoch \in Nat /\ device'[d].epoch \in Nat
      BY <2>1 DEF RelayInv, RelayTypes, AgentRecord, DeviceRecord
    <2> QED
      BY <2>1, <2>2, <2>3
  <1>4. ASSUME NEW m \in stray' PROVE StrayFits(m)'
    <2>1. CASE m \in stray
      <3>1. PICK d \in Devices, x \in Runtimes : x = m.runtime /\ d = DeviceOf[x]
        BY <1>1, <2>1, Epochs
      <3>2. StrayFits(m) /\ m.epoch \in Nat /\ device[d].epoch \in Nat /\ Onward(d) /\ StaysAway(x)
            /\ device'[d].epoch \in Nat /\ session'[d].epoch \in Nat
        <4>1. device'[d].epoch \in Nat /\ session'[d].epoch \in Nat
          BY DEF RelayInv, RelayTypes, DeviceRecord, SessionRecord
        <4> QED
          BY <1>1, <2>1, <4>1, Epochs DEF ReachInv
      <3>3. m.epoch <= device[d].epoch /\ m.epoch <= device'[d].epoch
        BY <3>1, <3>2 DEF StrayFits, Onward
      <3>4. ASSUME m.type = "poll", session'[d] = [runtime |-> x, epoch |-> m.epoch]
            PROVE  Away(x)'
        <4>1. session'[d].epoch = m.epoch /\ session'[d] # NoSession
          BY <3>4, IdleWaiter DEF NoSession
        <4>2. session'[d] = session[d] /\ ~Reconnected(d)
          BY <3>2, <3>3, <4>1 DEF Onward, Reconnected
        <4> QED
          BY <3>1, <3>2, <3>4, <4>2 DEF StrayFits, StaysAway
      <3> QED
        BY <3>1, <3>3, <3>4 DEF StrayFits, Away
    <2> QED
      BY <2>1
  <1>5. ASSUME NEW r \in pending', Undisturbed(r) PROVE PendingFits(r)'
    <2>1. r \in pending /\ PendingFits(r) /\ call'[r] = call[r]
      BY <1>5 DEF Undisturbed, ReachInv
    <2>2. PICK d \in Devices, x \in Runtimes :
             d = call[r].device /\ x = call[r].runtime /\ DeviceOf[x] = d
      BY <1>1, <2>1, PendingIs
    <2>3. session'[d] = session[d] /\ session[d] = [runtime |-> x, epoch |-> call[r].epoch]
      BY <1>5, <2>1, <2>2 DEF Undisturbed, PendingFits
    <2>4. ~Reconnected(d)
      <3>1. session[d] # NoSession
        BY <2>3, IdleWaiter DEF NoSession
      <3> QED
        BY SMTT(60), <1>1, <2>3, <3>1, Epochs DEF Reconnected, ReachInv, EpochFits
    <2>5. \/ r \in Range(queue'[d])
          \/ InHand(x)' /\ agent'[x].req = r
          \/ Away(x)'
      BY <1>5, <2>1, <2>2, <2>4 DEF Undisturbed, PendingFits, Placed, KeepsHold, StaysAway
    <2> QED
      BY <2>1, <2>2, <2>3, <2>5 DEF PendingFits, Placed, InHand, Away
  <1> QED
    BY <1>2, <1>3, <1>4, <1>5 DEF ReachInv

\* An agent that does nothing, ends or starts over.
LEMMA Leaving ==
  ASSUME RelayInv, NEW rt \in Runtimes,
         agent'[rt] \in {agent[rt], Ended(agent[rt]), Reconnecting(agent[rt])}
  PROVE  /\ StaysAway(rt) /\ KeepsHold(rt) /\ agent'[rt].epoch <= agent[rt].epoch
         /\ agent'[rt] = agent[rt] \/ Away(rt)'
  <1>1. PICK g \in AgentRecord : g = agent[rt]
    BY DEF RelayInv, RelayTypes
  <1>2. g.epoch \in Nat /\ g.epoch <= g.epoch
    BY DEF AgentRecord
  <1>3. CASE agent'[rt] = agent[rt]
    BY <1>1, <1>2, <1>3 DEF StaysAway, KeepsHold, Away, InHand
  <1>4. CASE agent'[rt] = Ended(agent[rt]) \/ agent'[rt] = Reconnecting(agent[rt])
    <2>1. agent'[rt].pc \in {"ended", "connect"}
      BY <1>1, <1>4, Endings
    <2>2. Ended(g).epoch = 0 /\ Reconnecting(g).epoch = 0
      BY DEF Ended, NoAgent, Reconnecting, AgentRecord
    <2> QED
      BY <1>1, <1>2, <1>4, <2>1, <2>2 DEF StaysAway, KeepsHold, Away
  <1> QED
    BY <1>3, <1>4

\* A step that opens no session and revokes nothing keeps every epoch.
LEMMA SameEpochs ==
  ASSUME ReachInv, session' = session,
         \A d \in Devices : device'[d].epoch = device[d].epoch /\ device'[d].revoked = device[d].revoked
  PROVE  \A d \in Devices : Onward(d) /\ EpochFits(d)'
  <1> SUFFICES ASSUME NEW d \in Devices PROVE Onward(d) /\ EpochFits(d)'
    OBVIOUS
  <1>1. EpochFits(d) /\ device[d].epoch \in Nat
    BY Epochs DEF ReachInv
  <1> QED
    BY <1>1 DEF EpochFits, Onward

\* Steps of one agent that the relay takes no part in.
LEMMA AgentReaches ==
  ASSUME ReachInv, RelayInv', NEW rt \in Runtimes, UNCHANGED <<store, core, stray>>,
         \A x \in Runtimes : x # rt => agent'[x] = agent[x],
         StaysAway(rt), KeepsHold(rt), agent'[rt].epoch <= agent[rt].epoch
  PROVE  ReachInv'
  <1> USE DEF store, core
  <1>1. RelayInv
    BY DEF ReachInv
  <1>2. \A x \in Runtimes : /\ StaysAway(x) /\ KeepsHold(x)
                            /\ agent'[x].epoch <= agent[x].epoch
    BY <1>1, Leaving
  <1>3. \A d \in Devices : Onward(d) /\ EpochFits(d)'
    BY SameEpochs
  <1>4. \A d \in Devices : HeldOn(d)
    BY DEF HeldOn
  <1>5. \A r \in pending' : Undisturbed(r)
    BY <1>1, <1>2, PendingIs DEF Undisturbed
  <1>6. queue' \in [Devices -> Seq(Requests)]
    BY DEF ReachInv
  <1> QED
    BY <1>2, <1>3, <1>4, <1>5, <1>6, ReachKeeps

\* The steps of one agent that change nothing in the relay.
LEMMA AloneReaches ==
  ASSUME ReachInv, RelayInv', NEW rt \in Runtimes,
         StartAgent(rt) \/ HandleEnvelope(rt) \/ EnvelopeTooLate(rt) \/ (Refused(rt) /\ UNCHANGED stray)
  PROVE  ReachInv'
  <1>1. RelayInv
    BY DEF ReachInv
  <1>2. PICK g \in AgentRecord : g = agent[rt]
    BY <1>1 DEF RelayInv, RelayTypes
  <1>3. g.epoch \in Nat
    BY DEF AgentRecord
  <1>4. CASE StartAgent(rt)
    <2>1. agent' = [agent EXCEPT ![rt].pc = "connect"] /\ agent[rt].pc = "off"
      BY <1>4 DEF StartAgent
    <2>2. agent'[rt] = [g EXCEPT !.pc = "connect"] /\ \A x \in Runtimes : x # rt => agent'[x] = agent[x]
      BY <1>1, <1>2, <2>1 DEF RelayInv, RelayTypes
    <2>3. agent'[rt].pc = "connect" /\ agent'[rt].epoch = g.epoch
      BY <2>2 DEF AgentRecord
    <2>4. StaysAway(rt) /\ KeepsHold(rt) /\ agent'[rt].epoch <= agent[rt].epoch
      BY <1>2, <1>3, <2>1, <2>3 DEF StaysAway, KeepsHold, Away, InHand
    <2> QED
      BY <1>4, <2>2, <2>4, AgentReaches DEF StartAgent
  <1>5. CASE EnvelopeTooLate(rt) \/ (Refused(rt) /\ UNCHANGED stray)
    <2>1. /\ \A x \in Runtimes : x # rt => agent'[x] = agent[x]
          /\ agent'[rt] \in {Ended(agent[rt]), Reconnecting(agent[rt])}
      BY <1>1, <1>5 DEF EnvelopeTooLate, Refused, RelayInv, RelayTypes
    <2> QED
      BY <1>1, <1>5, <2>1, Leaving, AgentReaches DEF EnvelopeTooLate, Refused
  <1>6. CASE HandleEnvelope(rt)
    <2>1. PICK ok, l : agent' = [agent EXCEPT ![rt].pc = "responding", ![rt].ok = ok, ![rt].ledger = l]
      <3>1. CASE Execute(rt, agent[rt].req)
        BY <3>1 DEF Execute
      <3>2. ASSUME NEW x, agent' = [agent EXCEPT ![rt].pc = "responding", ![rt].ok = x.ok]
            PROVE  \E ok, l : agent' = [agent EXCEPT ![rt].pc = "responding", ![rt].ok = ok, ![rt].ledger = l]
        <4>1. agent' = [agent EXCEPT ![rt].pc = "responding", ![rt].ok = x.ok, ![rt].ledger = g.ledger]
          <5>1. PICK ok : ok = x.ok
            OBVIOUS
          <5>2. [g EXCEPT !.pc = "responding", !.ok = ok]
                = [g EXCEPT !.pc = "responding", !.ok = ok, !.ledger = g.ledger]
            BY DEF AgentRecord
          <5> QED
            BY <1>1, <1>2, <3>2, <5>1, <5>2 DEF RelayInv, RelayTypes
        <4> QED
          BY <4>1
      <3> QED
        BY <1>6, <3>1, <3>2 DEF HandleEnvelope
    <2>2. agent'[rt] = [g EXCEPT !.pc = "responding", !.ok = ok, !.ledger = l]
          /\ \A x \in Runtimes : x # rt => agent'[x] = agent[x]
      BY <1>1, <1>2, <2>1 DEF RelayInv, RelayTypes
    <2>3. agent'[rt].pc = "responding" /\ agent'[rt].epoch = g.epoch /\ agent'[rt].req = g.req
      BY <2>2 DEF AgentRecord
    <2>4. StaysAway(rt) /\ KeepsHold(rt) /\ agent'[rt].epoch <= agent[rt].epoch
      BY <1>2, <1>3, <1>6, <2>3 DEF StaysAway, KeepsHold, Away, InHand, HandleEnvelope
    <2> QED
      BY <1>6, <2>2, <2>4, AgentReaches DEF HandleEnvelope
  <1> QED
    BY <1>4, <1>5, <1>6

\* An agent that stops or gives up its call is away, whatever becomes of the call.
LEMMA AbandonReaches ==
  ASSUME ReachInv, RelayInv', NEW rt \in Runtimes, StopAgent(rt) \/ GiveUpRequest(rt)
  PROVE  ReachInv'
  <1> USE DEF store
  <1>1. RelayInv /\ Abandon(rt) /\ UNCHANGED <<store, session, pending, queue, call, runs>>
    BY DEF ReachInv, StopAgent, GiveUpRequest
  <1>2. PICK c \in Devices : c = DeviceOf[rt]
    BY RelayAssumption
  <1>3. /\ \A x \in Runtimes : x # rt => agent'[x] = agent[x]
        /\ agent'[rt] \in {Ended(agent[rt]), Reconnecting(agent[rt])}
    BY <1>1 DEF StopAgent, GiveUpRequest, RelayInv, RelayTypes
  <1>4. Away(rt)'
    BY <1>1, <1>3, Endings DEF Away, RelayInv, RelayTypes
  <1>5. \A x \in Runtimes : StaysAway(x) /\ KeepsHold(x) /\ agent'[x].epoch <= agent[x].epoch
    BY <1>1, <1>3, Leaving
  <1>6. \A d \in Devices : Onward(d) /\ EpochFits(d)'
    BY <1>1, SameEpochs
  <1>7. ASSUME NEW d \in Devices PROVE HeldOn(d) \/ WaiterFits(d)'
    <2>1. CASE Waits(rt) /\ d = c
      <3>1. PICK w \in WaiterRecord : w = waiter[d]
        BY <1>1 DEF RelayInv, RelayTypes
      <3>2. waiter'[d] = [w EXCEPT !.live = FALSE] /\ waiter[d].live /\ waiter[d].runtime = rt
        BY <1>1, <1>2, <2>1, <3>1 DEF Abandon, Waits, RelayInv, RelayTypes
      <3>3. waiter'[d].runtime = rt /\ waiter'[d].epoch = waiter[d].epoch
        BY <3>1, <3>2 DEF WaiterRecord
      <3>4. WaiterFits(d) /\ waiter[d] # NoWaiter
        BY <3>2, IdleWaiter DEF ReachInv
      <3> QED
        BY <1>1, <1>4, <3>3, <3>4 DEF WaiterFits, Away
    <2>2. CASE ~(Waits(rt) /\ d = c)
      <3>1. waiter'[d] = waiter[d]
        BY <1>1, <1>2, <2>2 DEF Abandon, RelayInv, RelayTypes
      <3> QED
        BY <1>1, <3>1 DEF HeldOn
    <2> QED
      BY <2>1, <2>2
  <1>8. ASSUME NEW m \in stray', m \notin stray PROVE StrayFits(m)'
    <2>1. m = Message(rt)
      BY <1>1, <1>8 DEF Abandon
    <2>2. m.runtime = rt /\ m.epoch = agent[rt].epoch
      BY <2>1 DEF Message
    <2>3. agent[rt].epoch <= device[c].epoch
      BY <1>2 DEF ReachInv
    <2> QED
      BY <1>1, <1>2, <1>4, <2>2, <2>3 DEF StrayFits, Away
  <1>9. \A r \in pending' : Undisturbed(r)
    BY <1>1, <1>5, PendingIs DEF Undisturbed
  <1>10. queue' \in [Devices -> Seq(Requests)]
    BY <1>1 DEF ReachInv
  <1> QED
    BY <1>5, <1>6, <1>7, <1>8, <1>9, <1>10, ReachKeeps

\* Pairing and the end of a long poll.
LEMMA PairingReaches ==
  ASSUME ReachInv, RelayInv', NEW d \in Devices,
         \/ BeginPairing(d) \/ ExpirePairing(d) \/ CompletePairing(d)
         \/ \E a \in Accounts : ApprovePairing(d, a)
  PROVE  ReachInv'
  <1> USE DEF core
  <1>1. RelayInv /\ UNCHANGED <<affinity, core, agent, stray, runs>>
    BY DEF ReachInv, BeginPairing, ExpirePairing, CompletePairing, ApprovePairing
  <1>2. \A c \in Devices : device'[c].epoch = device[c].epoch /\ device'[c].revoked = device[c].revoked
    <2>1. CASE UNCHANGED device
      BY <2>1
    <2>2. CASE CompletePairing(d)
      <3>0. PICK g \in DeviceRecord : g = device[d]
        BY <1>1 DEF RelayInv, RelayTypes
      <3>1. PICK p : g = device[d] /\ p = pairing[d].account
        BY <3>0
      <3>2. \A c \in Devices : device'[c] = IF c = d THEN [g EXCEPT !.paired = TRUE, !.account = p]
                                            ELSE device[c]
        BY <1>1, <2>2, <3>1 DEF CompletePairing, RelayInv, RelayTypes
      <3>3. [g EXCEPT !.paired = TRUE, !.account = p].epoch = g.epoch
            /\ [g EXCEPT !.paired = TRUE, !.account = p].revoked = g.revoked
        BY DEF DeviceRecord
      <3> QED
        BY <3>1, <3>2, <3>3
    <2> QED
      BY <2>1, <2>2 DEF BeginPairing, ExpirePairing, ApprovePairing
  <1>3. \A c \in Devices : Onward(c) /\ EpochFits(c)'
    BY <1>1, <1>2, SameEpochs
  <1>4. \A c \in Devices : HeldOn(c)
    BY <1>1 DEF HeldOn
  <1>5. \A x \in Runtimes : /\ StaysAway(x) /\ KeepsHold(x)
                            /\ agent'[x].epoch <= agent[x].epoch
    BY <1>1, Leaving
  <1>6. \A r \in pending' : Undisturbed(r)
    BY <1>1, <1>5, PendingIs DEF Undisturbed
  <1>7. queue' \in [Devices -> Seq(Requests)] /\ \A m \in stray' : m \in stray
    BY <1>1 DEF ReachInv
  <1> QED
    BY <1>3, <1>4, <1>5, <1>6, <1>7, ReachKeeps

\* A poll that times out was of an empty queue.
LEMMA PollTimeoutReaches ==
  ASSUME ReachInv, RelayInv', NEW d \in Devices, PollTimeout(d)
  PROVE  ReachInv'
  <1> USE DEF store
  <1>1. RelayInv
    BY DEF ReachInv
  <1>2. PICK rt \in Runtimes : rt = waiter[d].runtime /\ (waiter[d].live => agent[rt].pc = "polling")
    BY <1>1, HeldPoll DEF PollTimeout
  <1>3. ASSUME NEW x \in Runtimes
        PROVE  StaysAway(x) /\ KeepsHold(x) /\ agent'[x].epoch <= agent[x].epoch
    <2>1. PICK g \in AgentRecord : g = agent[x]
      BY <1>1 DEF RelayInv, RelayTypes
    <2>2. CASE agent'[x] = agent[x]
      BY <1>1, <2>2, Leaving
    <2>3. CASE agent'[x] # agent[x]
      <3>1. agent'[x] = [g EXCEPT !.pc = "idle"] /\ g.pc = "polling"
        BY <1>1, <1>2, <2>1, <2>3 DEF PollTimeout, RelayInv, RelayTypes
      <3>2. [g EXCEPT !.pc = "idle"].epoch = g.epoch /\ g.epoch \in Nat
        BY DEF AgentRecord
      <3> QED
        BY <2>1, <3>1, <3>2 DEF StaysAway, KeepsHold, Away, InHand
    <2> QED
      BY <2>2, <2>3
  <1>4. \A c \in Devices : Onward(c) /\ EpochFits(c)'
    BY SameEpochs DEF PollTimeout
  <1>5. ASSUME NEW c \in Devices PROVE HeldOn(c) \/ WaiterFits(c)'
    <2>1. waiter'[c] = IF c = d THEN NoWaiter ELSE waiter[c]
      BY <1>1 DEF PollTimeout, RelayInv, RelayTypes
    <2> QED
      BY <2>1 DEF PollTimeout, HeldOn, WaiterFits
  <1>6. \A r \in pending' : Undisturbed(r)
    BY <1>1, <1>3, PendingIs DEF Undisturbed, PollTimeout
  <1>7. queue' \in [Devices -> Seq(Requests)] /\ \A m \in stray' : m \in stray
    BY DEF ReachInv, PollTimeout
  <1> QED
    BY <1>3, <1>4, <1>5, <1>6, <1>7, ReachKeeps

\* What is settled leaves the other items as they are.
LEMMA NotSettled ==
  ASSUME NEW S, NEW o, call' = Settle(call, S, o), NEW r \in Requests, r \notin S
  PROVE  call'[r] = call[r]
  BY DEF Settle

\* A revocation leaves nothing pending on its devices.
LEMMA RevokeReaches ==
  ASSUME ReachInv, RelayInv', NEW a \in Accounts, NEW D \in SUBSET Devices, Revoke(a, D)
  PROVE  ReachInv'
  <1> DEFINE S == {r \in pending : call[r].device \in D}
  <1>1. RelayInv
    BY DEF ReachInv
  <1>2. /\ pending' = pending \ S /\ call' = Settle(call, S, "rejected")
        /\ \A d \in D : session'[d] = NoSession /\ waiter'[d] = NoWaiter /\ queue'[d] = << >>
        /\ \A d \in Devices \ D : /\ session'[d] = session[d] /\ waiter'[d] = waiter[d]
                                  /\ queue'[d] = queue[d] /\ device'[d] = device[d]
        /\ stray' = stray
    BY DEF Revoke, FenceDevice
  <1>3. \A x \in Runtimes : StaysAway(x) /\ KeepsHold(x) /\ agent'[x].epoch <= agent[x].epoch
    <2>1. \A x \in Runtimes : agent'[x] \in {agent[x], Ended(agent[x])}
      BY DEF Revoke, EndWaiters
    <2> QED
      BY <1>1, <2>1, Leaving
  <1>4. ASSUME NEW d \in Devices PROVE Onward(d) /\ EpochFits(d)'
    <2>1. EpochFits(d) /\ device[d].epoch \in Nat
      BY <1>1, Epochs DEF ReachInv
    <2>2. CASE d \in D
      <3>1. PICK g \in DeviceRecord : g = device[d] /\ ~g.revoked
        BY <1>1, <2>2 DEF Revoke, Live, RelayInv, RelayTypes
      <3>2. device'[d] = [g EXCEPT !.revoked = TRUE, !.epoch = g.epoch + 1]
        BY <2>2, <3>1 DEF Revoke, DeviceRecord
      <3>3. device'[d].revoked /\ device'[d].epoch = g.epoch + 1
        BY <3>1, <3>2 DEF DeviceRecord
      <3>4. MaxEvents \in Nat
        BY RelayAssumption
      <3> QED
        BY <1>2, <2>1, <2>2, <3>1, <3>3, <3>4 DEF Onward, EpochFits
    <2>3. CASE d \notin D
      BY <1>2, <2>1, <2>3 DEF Onward, EpochFits
    <2> QED
      BY <2>2, <2>3
  <1>5. ASSUME NEW d \in Devices PROVE HeldOn(d) \/ WaiterFits(d)'
    BY <1>2 DEF HeldOn, WaiterFits
  <1>6. ASSUME NEW r \in pending' PROVE Undisturbed(r)
    <2>1. r \in pending /\ r \notin S
      BY <1>2
    <2>2. r \in Requests /\ call[r].device \in Devices \ D /\ call[r].runtime \in Runtimes
      BY <1>1, <2>1, PendingIs
    <2>3. call'[r] = call[r]
      BY <1>2, <2>1, <2>2, NotSettled
    <2> QED
      BY <1>2, <1>3, <2>1, <2>2, <2>3 DEF Undisturbed
  <1>7. queue' \in [Devices -> Seq(Requests)]
    <2>1. queue' = [d \in Devices |-> IF d \in D THEN << >> ELSE queue[d]]
      BY DEF Revoke, FenceDevice
    <2>2. << >> \in Seq(Requests) /\ \A d \in Devices : queue[d] \in Seq(Requests)
      BY DEF ReachInv
    <2> QED
      BY <2>1, <2>2
  <1> QED
    BY <1>2, <1>3, <1>4, <1>5, <1>6, <1>7, ReachKeeps

\* A restart leaves nothing pending at all.
LEMMA RestartReaches ==
  ASSUME ReachInv, RelayInv', RelayRestart
  PROVE  ReachInv'
  <1> USE DEF store
  <1>1. RelayInv
    BY DEF ReachInv
  <1>2. \A x \in Runtimes : StaysAway(x) /\ KeepsHold(x) /\ agent'[x].epoch <= agent[x].epoch
    <2>1. \A x \in Runtimes : agent'[x] \in {agent[x], Reconnecting(agent[x])}
      BY DEF RelayRestart
    <2> QED
      BY <1>1, <2>1, Leaving
  <1>3. ASSUME NEW d \in Devices PROVE Onward(d) /\ EpochFits(d)'
    <2>1. EpochFits(d) /\ device[d].epoch \in Nat /\ session'[d] = NoSession /\ device' = device
      BY <1>1, Epochs DEF ReachInv, RelayRestart
    <2> QED
      BY <2>1 DEF Onward, EpochFits
  <1>4. \A d \in Devices : WaiterFits(d)'
    BY DEF RelayRestart, WaiterFits
  <1>5. queue' \in [Devices -> Seq(Requests)]
    BY DEF RelayRestart
  <1> QED
    BY <1>2, <1>3, <1>4, <1>5, ReachKeeps DEF RelayRestart

\* A queue with nothing in it.
LEMMA NothingQueued ==
  ASSUME NEW T, NEW q \in Seq(T)
  PROVE  q = << >> <=> Range(q) = {}
  <1>1. CASE q = << >>
    BY <1>1 DEF Range
  <1>2. CASE q # << >>
    <2>1. 1 \in DOMAIN q
      BY <1>2
    <2> QED
      BY <1>2, <2>1 DEF Range
  <1> QED
    BY <1>1, <1>2

\* A deadline takes its own request out of the queue, and no other.
LEMMA DeadlineReaches ==
  ASSUME ReachInv, RelayInv', NEW r \in Requests, DeadlineTimer(r)
  PROVE  ReachInv'
  <1> USE DEF store
  <1>1. RelayInv /\ r \in pending /\ UNCHANGED <<store, session, waiter, agent, stray, runs>>
        /\ pending' = pending \ {r} /\ call' = Settle(call, {r}, "rejected")
    BY DEF ReachInv, DeadlineTimer
  <1>2. PICK c \in Devices : c = call[r].device
    BY <1>1, PendingIs
  <1>3. /\ \A d \in Devices : d # c => queue'[d] = queue[d]
        /\ queue'[c] = Without(queue[c], {r}) /\ queue' = [d \in Devices |-> queue'[d]]
    BY <1>2 DEF DeadlineTimer, ReachInv
  <1>4. ASSUME NEW d \in Devices
        PROVE  /\ queue'[d] \in Seq(Requests)
               /\ \A q \in Requests : q # r /\ q \in Range(queue[d]) => q \in Range(queue'[d])
               /\ queue[d] = << >> => queue'[d] = << >>
    <2>1. queue[d] \in Seq(Requests)
      BY DEF ReachInv
    <2>2. CASE d # c
      BY <1>3, <2>1, <2>2
    <2>3. CASE d = c
      <3>1. queue'[d] \in Seq(Requests) /\ Range(queue'[d]) = Range(queue[d]) \ {r}
        BY <1>3, <2>1, <2>3, WithoutKeeps
      <3> QED
        BY <2>1, <3>1, NothingQueued
    <2> QED
      BY <2>2, <2>3
  <1>5. \A x \in Runtimes : StaysAway(x) /\ KeepsHold(x) /\ agent'[x].epoch <= agent[x].epoch
    BY <1>1, Leaving
  <1>6. \A d \in Devices : Onward(d) /\ EpochFits(d)'
    BY <1>1, SameEpochs
  <1>7. ASSUME NEW d \in Devices PROVE HeldOn(d)
    <2>1. waiter[d] # NoWaiter => queue[d] = << >>
      BY DEF ReachInv, WaiterFits
    <2> QED
      BY <1>1, <1>4, <2>1 DEF HeldOn
  <1>8. ASSUME NEW q \in pending' PROVE Undisturbed(q)
    <2>1. q \in pending /\ q # r /\ q \in Requests /\ call[q].device \in Devices
          /\ call[q].runtime \in Runtimes
      BY <1>1, PendingIs
    <2>2. call'[q] = call[q]
      BY <1>1, <2>1, NotSettled
    <2> QED
      BY <1>1, <1>4, <1>5, <2>1, <2>2 DEF Undisturbed
  <1>9. queue' \in [Devices -> Seq(Requests)] /\ \A m \in stray' : m \in stray
    BY <1>1, <1>3, <1>4
  <1> QED
    BY <1>5, <1>6, <1>7, <1>8, <1>9, ReachKeeps

\* A new request is handed to the poll that waits, or queued.
LEMMA DispatchReaches ==
  ASSUME ReachInv, RelayInv', NEW a \in Accounts, NEW d \in Devices, NEW kind, NEW h, NEW p,
         DispatchForAccount(a, d, kind, h, p)
  PROVE  ReachInv'
  <1> USE DEF store
  <1>1. RelayInv /\ UNCHANGED <<store, session, stray, runs>>
    BY DEF ReachInv, DispatchForAccount
  <1>2. PICK r \in Requests :
           /\ call[r] = NoCall /\ pending' = pending \cup {r} /\ QueueRequest(d, r)
           /\ call' = [call EXCEPT ![r] = NewCall(kind, h, p, a, d)]
    BY DEF DispatchForAccount, NewCall
  <1>3. PICK s \in Runtimes, e \in Nat : session[d] = [runtime |-> s, epoch |-> e] /\ DeviceOf[s] = d
    <2>1. session[d] \in SessionRecord /\ session[d].runtime \in Runtimes
          /\ DeviceOf[session[d].runtime] = d
      BY <1>1 DEF DispatchForAccount, Ready, RelayInv, RelayTypes, SessionFits
    <2> QED
      BY <2>1 DEF SessionRecord
  <1>4. /\ call'[r].device = d /\ call'[r].runtime = s /\ call'[r].epoch = e
        /\ \A q \in Requests : q # r => call'[q] = call[q]
    BY <1>1, <1>2, <1>3 DEF NewCall, RelayInv, RelayTypes
  <1>5. r \notin pending
    BY <1>1, <1>2 DEF RelayInv, RelayTypes, Made
  <1>6. \A c \in Devices : Onward(c) /\ EpochFits(c)'
    BY <1>1, SameEpochs
  <1>7. CASE waiter[d] = NoWaiter
    <2>1. queue' = [queue EXCEPT ![d] = Append(@, r)] /\ UNCHANGED <<waiter, agent>>
      BY <1>2, <1>7 DEF QueueRequest
    <2>2. ASSUME NEW c \in Devices
          PROVE  /\ queue'[c] \in Seq(Requests) /\ (c # d => queue'[c] = queue[c])
                 /\ Range(queue[c]) \subseteq Range(queue'[c])
      <3>1. queue[c] \in Seq(Requests)
        BY DEF ReachInv
      <3>2. CASE c = d
        <4>1. PICK q \in Seq(Requests) : q = queue[c] /\ queue'[c] = Append(q, r)
          BY <2>1, <3>1, <3>2 DEF ReachInv
        <4>2. \A i \in DOMAIN q : i \in DOMAIN Append(q, r) /\ Append(q, r)[i] = q[i]
          OBVIOUS
        <4> QED
          BY <3>2, <4>1, <4>2 DEF Range
      <3>3. CASE c # d
        BY <2>1, <3>1, <3>3 DEF ReachInv
      <3> QED
        BY <3>2, <3>3
    <2>3. r \in Range(queue'[d])
      <3>1. PICK q \in Seq(Requests) : q = queue[d] /\ queue'[d] = Append(q, r)
        BY <2>1 DEF ReachInv
      <3>2. Len(q) + 1 \in DOMAIN Append(q, r) /\ Append(q, r)[Len(q) + 1] = r
        OBVIOUS
      <3> QED
        BY <3>1, <3>2 DEF Range
    <2>4. \A x \in Runtimes : StaysAway(x) /\ KeepsHold(x) /\ agent'[x].epoch <= agent[x].epoch
      BY <1>1, <2>1, Leaving
    <2>5. \A c \in Devices : HeldOn(c)
      BY <1>1, <1>7, <2>1, <2>2 DEF HeldOn
    <2>6. ASSUME NEW q \in pending' PROVE Undisturbed(q) \/ PendingFits(q)'
      <3>1. CASE q = r
        BY <1>1, <1>3, <1>4, <2>3, <3>1 DEF PendingFits, Placed
      <3>2. CASE q # r
        <4>1. q \in pending /\ q \in Requests /\ call[q].device \in Devices /\ call[q].runtime \in Runtimes
          BY <1>1, <1>2, <3>2, PendingIs
        <4> QED
          BY <1>1, <1>4, <2>2, <2>4, <3>2, <4>1 DEF Undisturbed
      <3> QED
        BY <3>1, <3>2
    <2>7. queue' \in [Devices -> Seq(Requests)] /\ \A m \in stray' : m \in stray
      BY <1>1, <2>1, <2>2 DEF ReachInv
    <2> QED
      BY <1>6, <2>4, <2>5, <2>6, <2>7, ReachKeeps
  <1>8. CASE waiter[d] # NoWaiter
    <2>1. waiter' = [waiter EXCEPT ![d] = NoWaiter] /\ UNCHANGED queue
      BY <1>2, <1>8 DEF QueueRequest
    <2>2. waiter[d].runtime = s /\ (waiter[d].live => agent[s].pc = "polling")
      BY <1>1, <1>3, <1>8, HeldPoll
    <2>3. ~waiter[d].live => agent' = agent /\ Away(s)
      BY <1>2, <1>8, <2>2 DEF QueueRequest, ReachInv, WaiterFits
    <2>4. ASSUME NEW x \in Runtimes
          PROVE  /\ StaysAway(x) /\ KeepsHold(x) /\ agent'[x].epoch <= agent[x].epoch
                 /\ x = s => Away(x)' \/ (InHand(x)' /\ agent'[x].req = r)
      <3>1. PICK g \in AgentRecord : g = agent[x] /\ g.epoch \in Nat
        BY <1>1 DEF RelayInv, RelayTypes, AgentRecord
      <3>2. CASE agent'[x] = agent[x] /\ ~(x = s /\ waiter[d].live)
        BY <1>1, <2>3, <3>2, Leaving DEF Away
      <3>3. CASE agent'[x] # agent[x] \/ (x = s /\ waiter[d].live)
        <4>1. waiter[d].live
          BY <2>3, <3>3
        <4>2. PICK got \in BOOLEAN : agent' = [agent EXCEPT ![s] =
                 IF got THEN [agent[s] EXCEPT !.pc = "handle", !.req = r] ELSE Reconnecting(agent[s])]
          BY <1>2, <1>8, <2>2, <4>1 DEF QueueRequest
        <4>3. x = s
          BY <1>1, <3>3, <4>2 DEF RelayInv, RelayTypes
        <4>4. agent'[x] = [g EXCEPT !.pc = "handle", !.req = r] \/ agent'[x] = Reconnecting(g)
          BY <1>1, <3>1, <4>2, <4>3 DEF RelayInv, RelayTypes
        <4>5. CASE agent'[x] = Reconnecting(g)
          BY <1>1, <3>1, <4>5, Leaving, Endings DEF Away
        <4>6. CASE agent'[x] = [g EXCEPT !.pc = "handle", !.req = r]
          <5>1. agent'[x].pc = "handle" /\ agent'[x].req = r /\ agent'[x].epoch = g.epoch
            BY <4>6 DEF AgentRecord
          <5>2. agent[x].pc = "polling"
            BY <2>2, <4>1, <4>3
          <5> QED
            BY <3>1, <5>1, <5>2 DEF StaysAway, KeepsHold, Away, InHand
        <4> QED
          BY <4>4, <4>5, <4>6
      <3> QED
        BY <3>2, <3>3
    <2>5. ASSUME NEW c \in Devices PROVE HeldOn(c) \/ WaiterFits(c)'
      <3>1. waiter'[c] = IF c = d THEN NoWaiter ELSE waiter[c]
        BY <1>1, <2>1 DEF RelayInv, RelayTypes
      <3> QED
        BY <1>1, <2>1, <3>1 DEF HeldOn, WaiterFits
    <2>6. ASSUME NEW q \in pending' PROVE Undisturbed(q) \/ PendingFits(q)'
      <3>1. CASE q = r
        BY <1>1, <1>3, <1>4, <2>4, <3>1 DEF PendingFits, Placed, InHand, Away
      <3>2. CASE q # r
        <4>1. q \in pending /\ q \in Requests /\ call[q].runtime \in Runtimes
          BY <1>1, <1>2, <3>2, PendingIs
        <4> QED
          BY <1>1, <1>4, <2>1, <2>4, <3>2, <4>1 DEF Undisturbed
      <3> QED
        BY <3>1, <3>2
    <2>7. queue' \in [Devices -> Seq(Requests)] /\ \A m \in stray' : m \in stray
      BY <1>1, <2>1 DEF ReachInv
    <2> QED
      BY <1>6, <2>4, <2>5, <2>6, <2>7, ReachKeeps
  <1> QED
    BY <1>7, <1>8

\* What connectAgent does with the queue: every request it leaves pending is in it.
LEMMA ReboundQueues ==
  ASSUME ReachInv, NEW rt \in Runtimes, NEW d \in Devices, NEW e \in Nat, Rebind(d, rt, e)
  PROVE  /\ queue' \in [Devices -> Seq(Requests)]
         /\ \A c \in Devices : c # d => queue'[c] = queue[c]
         /\ \A r \in pending' :
              /\ r \in pending
              /\ call[r].device # d => call'[r] = call[r]
              /\ call[r].device = d =>
                   /\ call'[r] = [call[r] EXCEPT !.epoch = e] /\ call[r].runtime = rt
                   /\ r \in Range(queue'[d])
  <1> DEFINE mine == {r \in PendingOf(d) : call[r].runtime = rt}
             others == PendingOf(d) \ mine
             again == {r \in mine : r \notin Range(queue[d])}
             kept == Without(queue[d], others)
             more == Ordered(again)
  <1>1. RelayInv
    BY DEF ReachInv
  <1>2. /\ pending' = pending \ others
        /\ call' = [r \in Requests |->
             IF r \in mine THEN [call[r] EXCEPT !.epoch = e]
             ELSE IF r \in others THEN [call[r] EXCEPT !.out = "rejected", !.epoch = 0]
             ELSE call[r]]
        /\ queue' = [queue EXCEPT ![d] = kept \o more]
    BY DEF Rebind
  <1>3. kept \in Seq(Requests) /\ Range(kept) = Range(queue[d]) \ others
    <2>1. queue[d] \in Seq(Requests)
      BY DEF ReachInv
    <2> QED
      BY <2>1, WithoutKeeps
  <1>4. more \in Seq(Requests) /\ \A r \in again : \E k \in DOMAIN more : more[k] = r
    <2>1. again \in SUBSET Requests
      BY <1>1 DEF PendingOf, RelayInv, RelayTypes
    <2>2. IsFiniteSet(Requests) /\ Requests \subseteq Int
      <3>1. 1 \in Int /\ MaxRequests \in Int
        BY RelayAssumption
      <3>2. IsFiniteSet(1..MaxRequests)
        BY <3>1, FS_Interval
      <3> QED
        BY <3>1, <3>2 DEF Requests
    <2> HIDE DEF again
    <2>3. IsFiniteSet(again) /\ again \in SUBSET Int
      BY <2>1, <2>2, FS_Subset
    <2>4. PICK n \in Nat : more \in [1..n -> again] /\ \A r \in again : \E k \in 1..n : more[k] = r
      BY <2>3, OrderedHolds
    <2> HIDE DEF more
    <2>5. more \in [1..n -> Requests]
      BY <2>1, <2>4
    <2> QED
      BY <2>4, <2>5
  <1> HIDE DEF kept, more
  <1>5. PICK q \in Seq(Requests) : q = kept \o more
    <2>1. kept \in Seq(Requests) /\ more \in Seq(Requests)
      BY <1>3, <1>4
    <2>2. kept \o more \in Seq(Requests)
      BY <2>1, ConcatProperties
    <2> QED
      BY <2>2
  <1>6. \A r : r \in Range(kept) \/ r \in again => r \in Range(q)
    <2>1. ASSUME NEW i \in DOMAIN kept PROVE kept[i] \in Range(q)
      <3>1. i \in DOMAIN q /\ q[i] = kept[i]
        BY <1>3, <1>4, <1>5, <2>1
      <3> QED
        BY <3>1 DEF Range
    <2>2. ASSUME NEW k \in DOMAIN more PROVE more[k] \in Range(q)
      <3>1. Len(kept) + k \in DOMAIN q /\ q[Len(kept) + k] = more[k]
        BY <1>3, <1>4, <1>5, <2>2
      <3> QED
        BY <3>1 DEF Range
    <2>3. \A r \in Range(kept) : \E i \in DOMAIN kept : kept[i] = r
      BY DEF Range
    <2> QED
      BY <1>4, <2>1, <2>2, <2>3
  <1>7. /\ queue' \in [Devices -> Seq(Requests)] /\ queue'[d] = q
        /\ \A c \in Devices : c # d => queue'[c] = queue[c]
    BY <1>2, <1>5 DEF ReachInv
  <1>8. ASSUME NEW r \in pending'
        PROVE  /\ r \in pending
               /\ call[r].device # d => call'[r] = call[r]
               /\ call[r].device = d =>
                    /\ call'[r] = [call[r] EXCEPT !.epoch = e] /\ call[r].runtime = rt
                    /\ r \in Range(queue'[d])
    <2>1. r \in pending /\ r \notin others /\ r \in Requests
      BY <1>1, <1>2 DEF RelayInv, RelayTypes
    <2>2. CASE call[r].device # d
      <3>1. r \notin mine
        BY <2>2 DEF PendingOf
      <3> QED
        BY <1>2, <2>1, <2>2, <3>1
    <2>3. CASE call[r].device = d
      <3>1. r \in mine
        BY <2>1, <2>3 DEF PendingOf
      <3>2. call[r].runtime = rt
        BY <3>1
      <3>3. r \in Range(kept) \/ r \in again
        BY <1>3, <2>1, <3>1
      <3> HIDE DEF mine, others, again
      <3> QED
        BY <1>2, <1>6, <1>7, <2>1, <2>3, <3>1, <3>2, <3>3
    <2> QED
      BY <2>2, <2>3
  <1> QED
    BY <1>7, <1>8

\* connectAgent queues again what its runtime had in hand, or had lost.
LEMMA ConnectReaches ==
  ASSUME ReachInv, RelayInv', NEW rt \in Runtimes, NEW reply \in BOOLEAN, ConnectAgent(rt, reply),
         stray' \subseteq stray
  PROVE  ReachInv'
  <1>1. RelayInv
    BY DEF ReachInv
  <1>2. PICK d \in Devices : d = DeviceOf[rt]
    BY RelayAssumption
  <1>3. PICK g \in DeviceRecord : g = device[d]
    BY <1>1 DEF RelayInv, RelayTypes
  <1>4. PICK e \in Nat : e = device[d].epoch + 1 /\ e = g.epoch + 1
    BY <1>3 DEF DeviceRecord
  <1>5. /\ Live(d) /\ Rebind(d, rt, e) /\ e + Dispatched <= MaxEvents
        /\ session' = [session EXCEPT ![d] = [runtime |-> rt, epoch |-> e]]
        /\ waiter' = [waiter EXCEPT ![d] = NoWaiter]
        /\ agent' = [x \in Runtimes |->
              IF x = rt /\ reply THEN [agent[x] EXCEPT !.pc = "idle", !.epoch = e]
              ELSE IF x \in Held(d) THEN Reconnecting(agent[x]) ELSE agent[x]]
    BY <1>2, <1>4 DEF ConnectAgent
  <1>6. session'[d] = [runtime |-> rt, epoch |-> e] /\ session'[d].epoch = e
        /\ \A c \in Devices : c # d => session'[c] = session[c]
    BY <1>1, <1>5 DEF RelayInv, RelayTypes
  <1>7. /\ device'[d].epoch = e /\ device'[d].revoked = g.revoked
        /\ \A c \in Devices : c # d => device'[c] = device[c]
    <2>1. device' = [device EXCEPT ![d] = [g EXCEPT !.epoch = g.epoch + 1, !.runtime = rt]]
      BY <1>1, <1>2, <1>3 DEF ConnectAgent, OpenSession, RelayInv, RelayTypes, DeviceRecord
    <2>2. device'[d] = [g EXCEPT !.epoch = e, !.runtime = rt]
          /\ \A c \in Devices : c # d => device'[c] = device[c]
      BY <1>1, <1>4, <2>1 DEF RelayInv, RelayTypes
    <2> QED
      BY <2>2 DEF DeviceRecord
  <1>8. /\ queue' \in [Devices -> Seq(Requests)]
        /\ \A c \in Devices : c # d => queue'[c] = queue[c]
        /\ \A r \in pending' :
              /\ r \in pending
              /\ call[r].device # d => call'[r] = call[r]
              /\ call[r].device = d =>
                   /\ call'[r] = [call[r] EXCEPT !.epoch = e] /\ call[r].runtime = rt
                   /\ r \in Range(queue'[d])
    BY <1>5, ReboundQueues
  <1>9. e <= MaxEvents
    <2>1. Dispatched \in Nat
      <3>1. 1 \in Int /\ MaxRequests \in Int
        BY RelayAssumption
      <3>2. IsFiniteSet(1..MaxRequests)
        BY <3>1, FS_Interval
      <3>3. {r \in Requests : call[r] # NoCall} \in SUBSET (1..MaxRequests)
        BY DEF Requests
      <3>4. IsFiniteSet({r \in Requests : call[r] # NoCall})
        BY <3>2, <3>3, FS_Subset
      <3> QED
        BY <3>4, FS_CardinalityType DEF Dispatched
    <2> QED
      <3>1. MaxEvents \in Nat
        BY RelayAssumption
      <3>2. PICK k \in Nat : k = Dispatched /\ e + k <= MaxEvents
        BY <1>5, <2>1
      <3> QED
        BY <3>1, <3>2
  <1>10. ASSUME NEW c \in Devices PROVE Onward(c) /\ EpochFits(c)'
    <2>1. EpochFits(c) /\ device[c].epoch \in Nat
      BY <1>1, Epochs DEF ReachInv
    <2>2. MaxEvents \in Nat /\ ~g.revoked
      BY <1>3, <1>5, RelayAssumption DEF Live
    <2> QED
      BY <1>4, <1>6, <1>7, <1>9, <2>1, <2>2 DEF Onward, EpochFits
  <1>11. ASSUME NEW x \in Runtimes
         PROVE  /\ StaysAway(x) /\ (KeepsHold(x) \/ x = rt)
                /\ agent'[x].epoch <= agent[x].epoch \/ agent'[x].epoch <= device'[DeviceOf[x]].epoch
    <2>1. CASE x = rt /\ reply
      <3>1. PICK b \in AgentRecord : b = agent[x]
        BY <1>1 DEF RelayInv, RelayTypes
      <3>2. agent'[x] = [b EXCEPT !.pc = "idle", !.epoch = e]
        BY <1>5, <2>1, <3>1
      <3>3. agent'[x].epoch = e
        BY <3>2 DEF AgentRecord
      <3> QED
        BY <1>1, <1>2, <1>4, <1>6, <1>7, <2>1, <3>3, Epochs DEF StaysAway, Reconnected
    <2>2. CASE ~(x = rt /\ reply)
      <3>1. agent'[x] \in {agent[x], Reconnecting(agent[x])}
        BY <1>5, <2>2
      <3> QED
        BY <1>1, <3>1, Leaving
    <2> QED
      BY <2>1, <2>2
  <1>12. ASSUME NEW c \in Devices PROVE HeldOn(c) \/ WaiterFits(c)'
    <2>1. waiter'[c] = IF c = d THEN NoWaiter ELSE waiter[c]
      BY <1>1, <1>5 DEF RelayInv, RelayTypes
    <2> QED
      BY <1>6, <1>8, <2>1 DEF HeldOn, WaiterFits
  <1>13. ASSUME NEW r \in pending' PROVE Undisturbed(r) \/ PendingFits(r)'
    <2>1. r \in pending /\ call[r] \in CallRecord /\ call[r].runtime \in Runtimes
          /\ DeviceOf[call[r].runtime] = call[r].device /\ call[r].device \in Devices
      BY <1>1, <1>8, PendingIs
    <2>2. CASE call[r].device = d
      <3>1. PICK c \in CallRecord : c = call[r] /\ c.device = d /\ c.runtime = rt
        BY <1>8, <2>1, <2>2
      <3>2. call'[r] = [c EXCEPT !.epoch = e] /\ r \in Range(queue'[d])
        BY <1>8, <2>2, <3>1
      <3>3. call'[r].device = d /\ call'[r].runtime = rt /\ call'[r].epoch = e
        BY <3>1, <3>2 DEF CallRecord
      <3> QED
        BY <1>6, <3>2, <3>3 DEF PendingFits, Placed
    <2>3. CASE call[r].device # d
      <3>1. call[r].runtime # rt
        BY <1>2, <2>1, <2>3
      <3> QED
        BY <1>6, <1>8, <1>11, <2>1, <2>3, <3>1 DEF Undisturbed
    <2> QED
      BY <2>2, <2>3
  <1> QED
    BY <1>8, <1>10, <1>11, <1>12, <1>13, ReachKeeps

\* pollAgent hands out the first request of the session; what it drops before that is pending
\* no more.  A request it hands to a poll nobody waits on is one of an agent that is away.
LEMMA PollReaches ==
  ASSUME ReachInv, RelayInv', NEW rt \in Runtimes, NEW e \in Nat, NEW reply \in BOOLEAN,
         PollAgent(rt, e, reply), stray' \subseteq stray,
         IF reply THEN agent[rt].pc = "idle" ELSE Away(rt)
  PROVE  ReachInv'
  <1> USE DEF store
  <1>1. RelayInv
    BY DEF ReachInv
  <1>2. PICK d \in Devices : d = DeviceOf[rt]
    BY RelayAssumption
  <1>3. PICK q \in Seq(Requests) : q = queue[d]
    BY DEF ReachInv
  <1> DEFINE match == MatchIn(q, rt, e)
  <1>4. /\ session[d] = [runtime |-> rt, epoch |-> e] /\ session[d] # NoSession
        /\ UNCHANGED <<pairing, device, affinity, session, pending, call, runs>>
    BY <1>2, IdleWaiter DEF PollAgent, ValidateAgent, NoSession
  <1>5. ASSUME NEW r \in pending, call[r].device = d
        PROVE  /\ call[r].runtime = rt /\ call[r].epoch = e
               /\ \A i \in DOMAIN q : q[i] = r => i \in match
    <2>1. PendingFits(r)
      BY DEF ReachInv
    <2>2. call[r].runtime = rt /\ call[r].epoch = e
      BY <1>4, <1>5, <2>1 DEF PendingFits
    <2> QED
      BY <2>2 DEF MatchIn
  <1>6. \A c \in Devices : Onward(c) /\ EpochFits(c)'
    BY <1>4, SameEpochs
  <1>7. ASSUME NEW first \in match, \A i \in match : first <= i, UNCHANGED waiter,
               queue' = [queue EXCEPT ![d] = SubSeq(@, first + 1, Len(@))],
               agent' = IF reply THEN [agent EXCEPT ![rt].pc = "handle", ![rt].req = queue[d][first]]
                        ELSE agent
        PROVE  ReachInv'
    <2>1. PICK s : s = SubSeq(q, first + 1, Len(q))
      OBVIOUS
    <2>2. first \in 1..Len(q) /\ Len(q) \in Nat
      BY DEF MatchIn
    <2>3. s \in Seq(Requests) /\ Range(s) = {q[i] : i \in (first + 1)..Len(q)}
      <3>1. s \in Seq(Requests) /\ Len(s) = Len(q) - first
            /\ \A i \in 1..Len(s) : s[i] = q[first + i]
        BY <2>1, <2>2
      <3>2. ASSUME NEW i \in (first + 1)..Len(q) PROVE q[i] \in Range(s)
        <4>1. i - first \in 1..Len(s) /\ s[i - first] = q[first + (i - first)]
              /\ first + (i - first) = i
          BY <2>2, <3>1
        <4>2. DOMAIN s = 1..Len(s)
          BY <3>1
        <4> QED
          BY <4>1, <4>2 DEF Range
      <3>3. ASSUME NEW k \in DOMAIN s PROVE s[k] \in {q[i] : i \in (first + 1)..Len(q)}
        <4>1. k \in 1..Len(s) /\ first + k \in (first + 1)..Len(q) /\ s[k] = q[first + k]
          BY <2>2, <3>1
        <4> QED
          BY <4>1
      <3> QED
        BY <3>1, <3>2, <3>3 DEF Range
    <2>4. queue' \in [Devices -> Seq(Requests)] /\ queue'[d] = s
          /\ \A c \in Devices : c # d => queue'[c] = queue[c]
      BY <1>3, <1>7, <2>1, <2>3 DEF ReachInv
    <2>5. q[first] \in pending /\ q[first] \in Requests
      BY <1>1 DEF MatchIn, RelayInv, RelayTypes
    <2>6. ASSUME NEW x \in Runtimes
          PROVE  /\ StaysAway(x) /\ KeepsHold(x) /\ agent'[x].epoch <= agent[x].epoch
                 /\ x = rt => Away(x)' \/ (InHand(x)' /\ agent'[x].req = q[first])
      <3>1. PICK g \in AgentRecord : g = agent[x] /\ g.epoch \in Nat
        BY <1>1 DEF RelayInv, RelayTypes, AgentRecord
      <3>2. CASE ~reply \/ x # rt
        <4>1. agent'[x] = agent[x]
          BY <1>1, <1>7, <3>2 DEF RelayInv, RelayTypes
        <4> QED
          BY <1>1, <3>2, <4>1, Leaving DEF Away
      <3>3. CASE reply /\ x = rt
        <4>1. PICK r \in Requests : r = q[first]
          BY <2>5
        <4>2. agent'[x] = [g EXCEPT !.pc = "handle", !.req = r]
          BY <1>1, <1>3, <1>7, <3>1, <3>3, <4>1 DEF RelayInv, RelayTypes
        <4>3. agent'[x].pc = "handle" /\ agent'[x].req = r /\ agent'[x].epoch = g.epoch
          BY <4>2 DEF AgentRecord
        <4> QED
          BY <3>1, <3>3, <4>1, <4>3 DEF StaysAway, KeepsHold, Away, InHand
      <3> QED
        BY <3>2, <3>3
    <2>7. ASSUME NEW c \in Devices PROVE HeldOn(c)
      <3>1. waiter[c] # NoWaiter => c # d
        <4>1. q # << >>
          BY <2>2
        <4>2. waiter[c] # NoWaiter => queue[c] = << >>
          BY DEF ReachInv, WaiterFits
        <4> QED
          BY <1>3, <4>1, <4>2
      <3> QED
        BY <1>4, <1>7, <2>4, <3>1 DEF HeldOn
    <2>8. ASSUME NEW r \in pending' PROVE Undisturbed(r) \/ PendingFits(r)'
      <3>1. /\ r \in pending /\ r \in Requests /\ call[r].device \in Devices
            /\ call[r].runtime \in Runtimes /\ PendingFits(r) /\ call' = call /\ session' = session
        BY <1>1, <1>4, PendingIs DEF ReachInv
      <3>2. CASE call[r].device # d \/ r \notin Range(q)
        <4>1. r \in Range(queue[call[r].device]) => r \in Range(queue'[call[r].device])
          BY <1>3, <2>4, <3>1, <3>2
        <4> QED
          BY <2>6, <3>1, <4>1 DEF Undisturbed
      <3>3. CASE call[r].device = d /\ r \in Range(q)
        <4>1. PICK i \in DOMAIN q : q[i] = r
          BY <3>3 DEF Range
        <4>2. i \in 1..Len(q) /\ first <= i /\ call[r].runtime = rt
          BY <1>5, <1>7, <3>1, <3>3, <4>1
        <4>3. CASE i = first
          BY <2>6, <3>1, <3>3, <4>1, <4>2, <4>3 DEF PendingFits, Placed, InHand, Away
        <4>4. CASE i # first
          <5>1. i \in (first + 1)..Len(q)
            BY <2>2, <4>2, <4>4
          <5> QED
            BY <2>3, <2>4, <3>1, <3>3, <4>1, <5>1 DEF PendingFits, Placed
        <4> QED
          BY <4>3, <4>4
      <3> QED
        BY <3>2, <3>3
    <2> QED
      BY <1>6, <2>4, <2>6, <2>7, <2>8, ReachKeeps
  <1>8. ASSUME match = {}, queue' = [queue EXCEPT ![d] = << >>],
               waiter' = [waiter EXCEPT ![d] = [runtime |-> rt, epoch |-> e, live |-> reply]],
               agent' = [x \in Runtimes |->
                  IF x = rt /\ reply THEN [agent[x] EXCEPT !.pc = "polling"]
                  ELSE IF x \in Held(d) THEN Reconnecting(agent[x]) ELSE agent[x]]
        PROVE  ReachInv'
    <2>1. queue' \in [Devices -> Seq(Requests)] /\ queue'[d] = << >>
          /\ \A c \in Devices : c # d => queue'[c] = queue[c]
      <3>1. << >> \in Seq(Requests)
        OBVIOUS
      <3> QED
        BY <1>8, <3>1 DEF ReachInv
    <2>2. ASSUME NEW x \in Runtimes
          PROVE  StaysAway(x) /\ KeepsHold(x) /\ agent'[x].epoch <= agent[x].epoch
      <3>1. PICK g \in AgentRecord : g = agent[x] /\ g.epoch \in Nat
        BY <1>1 DEF RelayInv, RelayTypes, AgentRecord
      <3>2. CASE x = rt /\ reply
        <4>1. agent'[x] = [g EXCEPT !.pc = "polling"] /\ agent[x].pc = "idle"
          BY <1>8, <3>1, <3>2
        <4>2. agent'[x].epoch = g.epoch
          BY <4>1 DEF AgentRecord
        <4> QED
          BY <3>1, <4>1, <4>2 DEF StaysAway, KeepsHold, Away, InHand
      <3>3. CASE ~(x = rt /\ reply)
        <4>1. agent'[x] \in {agent[x], Reconnecting(agent[x])}
          BY <1>8, <3>3
        <4> QED
          BY <1>1, <4>1, Leaving
      <3> QED
        BY <3>2, <3>3
    <2>3. ASSUME NEW c \in Devices PROVE HeldOn(c) \/ WaiterFits(c)'
      <3>1. CASE c # d
        <4>1. waiter'[c] = waiter[c]
          BY <1>1, <1>8, <3>1 DEF RelayInv, RelayTypes
        <4> QED
          BY <1>4, <2>1, <3>1, <4>1 DEF HeldOn
      <3>2. CASE c = d
        <4>1. waiter'[d] = [runtime |-> rt, epoch |-> e, live |-> reply]
          BY <1>1, <1>8 DEF RelayInv, RelayTypes
        <4>2. ~reply => Away(rt)'
          BY <1>1, <1>8, Endings DEF Away, RelayInv, RelayTypes
        <4> QED
          BY <1>4, <2>1, <3>2, <4>1, <4>2 DEF WaiterFits, Away
      <3> QED
        BY <3>1, <3>2
    <2>4. ASSUME NEW r \in pending' PROVE Undisturbed(r)
      <3>1. /\ r \in pending /\ r \in Requests /\ call[r].device \in Devices
            /\ call[r].runtime \in Runtimes /\ call' = call /\ session' = session
        BY <1>1, <1>4, PendingIs
      <3>2. call[r].device = d => r \notin Range(q)
        BY <1>5, <1>8, <3>1 DEF Range
      <3> QED
        BY <1>3, <2>1, <2>2, <3>1, <3>2 DEF Undisturbed
    <2> QED
      BY <1>6, <2>1, <2>2, <2>3, <2>4, ReachKeeps
  <1> QED
    BY <1>2, <1>3, <1>7, <1>8 DEF PollAgent

\* respondAgent settles what its agent had in hand.
LEMMA RespondReaches ==
  ASSUME ReachInv, RelayInv', NEW rt \in Runtimes, NEW e \in Nat, NEW r \in Requests,
         NEW ok \in BOOLEAN, NEW reply \in BOOLEAN,
         RespondAgent(rt, e, r, ok, reply), stray' \subseteq stray,
         reply => agent[rt].pc = "responding" /\ agent[rt].req = r
  PROVE  ReachInv'
  <1>1. RelayInv
    BY DEF ReachInv
  <1>2. /\ pending' = pending \ {r} /\ r \in pending /\ call[r].device = DeviceOf[rt]
        /\ UNCHANGED <<pairing, device, session, queue, waiter, runs>>
        /\ agent' = IF reply THEN [agent EXCEPT ![rt].pc = "idle", ![rt].req = 0, ![rt].ok = FALSE]
                    ELSE agent
    BY DEF RespondAgent
  <1>3. PICK o : call' = Settle(call, {r}, o)
    BY DEF RespondAgent
  <1>4. ASSUME NEW x \in Runtimes
        PROVE  /\ StaysAway(x) /\ agent'[x].epoch <= agent[x].epoch
               /\ KeepsHold(x) \/ (reply /\ x = rt)
    <2>1. PICK g \in AgentRecord : g = agent[x] /\ g.epoch \in Nat
      BY <1>1 DEF RelayInv, RelayTypes, AgentRecord
    <2>2. CASE reply /\ x = rt
      <3>1. agent'[x] = [g EXCEPT !.pc = "idle", !.req = 0, !.ok = FALSE]
        BY <1>1, <1>2, <2>1, <2>2 DEF RelayInv, RelayTypes
      <3>2. agent'[x].epoch = g.epoch
        BY <3>1 DEF AgentRecord
      <3> QED
        BY <2>1, <2>2, <3>2 DEF StaysAway, Away
    <2>3. CASE ~(reply /\ x = rt)
      <3>1. agent'[x] = agent[x]
        BY <1>1, <1>2, <2>3 DEF RelayInv, RelayTypes
      <3> QED
        BY <1>1, <3>1, Leaving
    <2> QED
      BY <2>2, <2>3
  <1>5. \A c \in Devices : Onward(c) /\ EpochFits(c)'
    BY <1>2, SameEpochs
  <1>6. \A c \in Devices : HeldOn(c)
    BY <1>2 DEF HeldOn
  <1>7. ASSUME NEW q \in pending' PROVE Undisturbed(q) \/ PendingFits(q)'
    <2>1. /\ q \in pending /\ q \in Requests /\ q # r /\ call[q].device \in Devices
          /\ call[q].runtime \in Runtimes /\ PendingFits(q)
      BY <1>1, <1>2, PendingIs DEF ReachInv
    <2>2. call'[q] = call[q]
      BY <1>3, <2>1, NotSettled
    <2>3. CASE ~(reply /\ call[q].runtime = rt)
      BY <1>2, <1>4, <2>1, <2>2, <2>3 DEF Undisturbed
    <2>4. CASE reply /\ call[q].runtime = rt
      <3>1. q \in Range(queue[call[q].device])
        BY <2>1, <2>4 DEF PendingFits, Placed, InHand, Away
      <3> QED
        BY <1>2, <2>1, <2>2, <3>1 DEF PendingFits, Placed
    <2> QED
      BY <2>3, <2>4
  <1>8. queue' \in [Devices -> Seq(Requests)]
    BY <1>2 DEF ReachInv
  <1> QED
    BY <1>4, <1>5, <1>6, <1>7, <1>8, ReachKeeps

\* What the relay does for an agent that waits for it.
LEMMA ServeReaches ==
  ASSUME ReachInv, RelayInv', NEW rt \in Runtimes, Serve(rt)
  PROVE  ReachInv'
  <1>1. RelayInv
    BY DEF ReachInv
  <1>2. agent[rt] \in AgentRecord /\ stray' \subseteq stray
    BY <1>1 DEF Serve, RelayInv, RelayTypes
  <1>3. agent[rt].epoch \in Nat /\ agent[rt].ok \in BOOLEAN /\ TRUE \in BOOLEAN
    BY <1>2 DEF AgentRecord
  <1>4. CASE Type(rt) = "connect" /\ ConnectAgent(rt, TRUE)
    BY <1>2, <1>3, <1>4, ConnectReaches
  <1>5. CASE Type(rt) = "poll" /\ PollAgent(rt, agent[rt].epoch, TRUE)
    <2>1. agent[rt].pc = "idle"
      BY <1>5 DEF Serve, Calling, Type
    <2> QED
      BY <1>2, <1>3, <1>5, <2>1, PollReaches
  <1>6. CASE Type(rt) = "respond"
             /\ RespondAgent(rt, agent[rt].epoch, agent[rt].req, agent[rt].ok, TRUE)
    <2>1. agent[rt].pc = "responding"
      BY <1>6 DEF Serve, Calling, Type
    <2>2. agent[rt].req \in Requests
      BY <1>1, <2>1 DEF RelayInv, AgentFits
    <2> QED
      BY <1>2, <1>3, <1>6, <2>1, <2>2, RespondReaches
  <1>7. CASE ~Accepts(rt) /\ Refused(rt)
    BY <1>7, AloneReaches DEF Serve
  <1> QED
    BY <1>4, <1>5, <1>6, <1>7 DEF Serve

\* What it does for a call nobody waits for any more: its agent is away.
LEMMA StrayReaches ==
  ASSUME ReachInv, RelayInv', NEW m \in stray, ServeStray(m)
  PROVE  ReachInv'
  <1>1. RelayInv
    BY DEF ReachInv
  <1>2. m \in MessageRecord /\ stray' \subseteq stray /\ FALSE \in BOOLEAN
    BY <1>1 DEF ServeStray, RelayInv, RelayTypes
  <1>3. m.runtime \in Runtimes /\ m.epoch \in Nat /\ m.ok \in BOOLEAN
    BY <1>2 DEF MessageRecord
  <1>4. CASE m.type = "connect" /\ ConnectAgent(m.runtime, FALSE)
    BY <1>2, <1>3, <1>4, ConnectReaches
  <1>5. CASE m.type = "poll" /\ PollAgent(m.runtime, m.epoch, FALSE)
    <2>1. Away(m.runtime)
      BY <1>5 DEF PollAgent, ValidateAgent, ReachInv, StrayFits
    <2> QED
      BY <1>2, <1>3, <1>5, <2>1, PollReaches
  <1>6. CASE m.type = "respond" /\ RespondAgent(m.runtime, m.epoch, m.req, m.ok, FALSE)
    <2>1. m.req \in Requests
      BY <1>1, <1>6 DEF RelayInv, MessageFits
    <2> QED
      BY <1>2, <1>3, <1>6, <2>1, RespondReaches
  <1> QED
    BY <1>4, <1>5, <1>6 DEF ServeStray

\* Every step of the relay and its agents.
LEMMA ReachStep ==
  ASSUME ReachInv, [RelayNext]_relayVars
  PROVE  ReachInv'
  <1>1. RelayInv'
    BY RelayStep DEF ReachInv
  <1>2. CASE UNCHANGED relayVars
    <2>1. \A x \in Runtimes : StaysAway(x) /\ KeepsHold(x) /\ agent'[x].epoch <= agent[x].epoch
      BY <1>2, Leaving DEF relayVars, ReachInv
    <2>2. \A d \in Devices : Onward(d) /\ EpochFits(d)' /\ HeldOn(d)
      BY <1>2, SameEpochs DEF relayVars, HeldOn
    <2>3. \A r \in pending' : Undisturbed(r)
      BY <1>2, <2>1, PendingIs DEF relayVars, Undisturbed, ReachInv
    <2>4. queue' \in [Devices -> Seq(Requests)] /\ \A m \in stray' : m \in stray
      BY <1>2 DEF relayVars, ReachInv
    <2> QED
      BY <1>1, <2>1, <2>2, <2>3, <2>4, ReachKeeps
  <1>3. CASE \E d \in Devices : BeginPairing(d) \/ ExpirePairing(d) \/ CompletePairing(d)
    BY <1>1, <1>3, PairingReaches
  <1>4. CASE \E d \in Devices, a \in Accounts : ApprovePairing(d, a)
    BY <1>1, <1>4, PairingReaches
  <1>5. CASE \E d \in Devices, a \in Accounts : RevokeDevice(a, d)
    BY <1>1, <1>5, RevokeReaches DEF RevokeDevice
  <1>6. CASE \E a \in Accounts : RevokeAll(a)
    BY <1>1, <1>6, RevokeReaches DEF RevokeAll
  <1>7. CASE RelayRestart
    BY <1>1, <1>7, RestartReaches
  <1>8. CASE \E a \in Accounts, d \in Devices : WorkspaceOpen(a, d)
    BY <1>1, <1>8, DispatchReaches DEF WorkspaceOpen
  <1>9. ASSUME NEW a \in Accounts, NEW h \in Requests, NEW p, NEW k, WorkspaceTool(a, k, h, p)
        PROVE  ReachInv'
    <2>1. Made(h)
      BY <1>9 DEF WorkspaceTool, ResolveWorkspace, Valid, ReachInv, RelayInv, RequestFits, Nil
    <2>2. PICK d \in Devices : d = call[h].device
      BY <2>1 DEF ReachInv, RelayInv, RelayTypes, Made, CallRecord
    <2> QED
      BY <1>1, <1>9, <2>2, DispatchReaches DEF WorkspaceTool
  <1>10. CASE \E r \in Requests : DeadlineTimer(r)
    BY <1>1, <1>10, DeadlineReaches
  <1>11. ASSUME NEW rt \in Runtimes, StopAgent(rt) \/ GiveUpRequest(rt) PROVE ReachInv'
    BY <1>1, <1>11, AbandonReaches
  <1>12. ASSUME NEW rt \in Runtimes,
                StartAgent(rt) \/ Serve(rt) \/ HandleEnvelope(rt) \/ EnvelopeTooLate(rt)
         PROVE  ReachInv'
    BY <1>1, <1>12, AloneReaches, ServeReaches
  <1>13. CASE \E m \in stray : ServeStray(m)
    BY <1>1, <1>13, StrayReaches
  <1>14. CASE \E d \in Devices : PollTimeout(d)
    BY <1>1, <1>14, PollTimeoutReaches
  <1> QED
    BY <1>2, <1>3, <1>4, <1>5, <1>6, <1>7, <1>8, <1>9, <1>10, <1>11, <1>12, <1>13, <1>14
       DEF RelayNext

\* No request is lost between the queue and its agent, for every number of everything.
LEMMA ReachInvariant == RelaySpec => []ReachInv
  <1>1. RelayInit => ReachInv
    <2> SUFFICES ASSUME RelayInit PROVE ReachInv
      OBVIOUS
    <2>1. RelayInv /\ queue \in [Devices -> Seq(Requests)] /\ pending = {} /\ stray = {}
      <3>1. << >> \in Seq(Requests)
        OBVIOUS
      <3> QED
        BY <3>1, RelayInitial DEF RelayInit, CoreInit
    <2>2. ASSUME NEW d \in Devices PROVE EpochFits(d) /\ WaiterFits(d)
      <3>1. session[d] = NoSession /\ waiter[d] = NoWaiter /\ device[d].epoch = 0 /\ ~device[d].revoked
        BY DEF RelayInit, CoreInit
      <3>2. MaxEvents \in Nat
        BY RelayAssumption
      <3> QED
        BY <3>1, <3>2 DEF EpochFits, WaiterFits
    <2>3. ASSUME NEW rt \in Runtimes PROVE agent[rt].epoch <= device[DeviceOf[rt]].epoch
      <3>1. agent[rt].epoch = 0
        BY DEF RelayInit, NoAgent
      <3> QED
        BY <2>1, <3>1, Epochs
    <2> QED
      BY <2>1, <2>2, <2>3 DEF ReachInv
  <1> QED
    BY <1>1, ReachStep, PTL DEF RelaySpec

(* No stranded request (core.js connectAgent, #queueRequest,                  *)
(* #dequeueEnvelope): however calls are lost, given up or late, a request      *)
(* that is pending is queued, in the hand of the agent of its runtime, or that *)
(* agent is about to connect, which queues it again, or has ended.             *)
THEOREM NothingStranded == RelaySpec => []NoStrandedRequest
  <1>1. ReachInv => NoStrandedRequest
    <2> SUFFICES ASSUME ReachInv, NEW r \in pending
                 PROVE  \/ Queued(r)
                        \/ /\ agent[call[r].runtime].pc \in {"handle", "responding"}
                           /\ agent[call[r].runtime].req = r
                        \/ agent[call[r].runtime].pc \in {"connect", "ended"}
      BY DEF NoStrandedRequest
    <2>1. PendingFits(r) /\ call[r].device \in Devices
      BY PendingIs DEF ReachInv
    <2> QED
      BY <2>1 DEF PendingFits, Placed, Queued, InHand, Away
  <1> QED
    BY <1>1, ReachInvariant, PTL

(* The type invariant of the relay (core.js, agent.js), its bound on epochs   *)
(* and the types of the queues included.                                      *)
THEOREM RelayTyped == RelaySpec => []RelayTypeOK
  <1>1. ReachInv => RelayTypeOK
    <2> SUFFICES ASSUME ReachInv PROVE RelayTypeOK
      OBVIOUS
    <2>1. RelayInv
      BY DEF ReachInv
    <2>2. ASSUME NEW d \in Devices
          PROVE  /\ pairing[d].state \in {"none", "open", "expired", "consumed"}
                 /\ device[d].epoch \in 0..(MaxEvents + 1)
                 /\ device[d].runtime \in Runtimes \cup {Nil}
                 /\ queue[d] \in Seq(Requests)
                 /\ session[d].epoch \in 0..device[d].epoch
      <3>1. /\ pairing[d].state \in {"none", "open", "expired", "consumed"}
            /\ device[d].runtime \in Runtimes \cup {Nil}
        BY <2>1 DEF RelayInv, RelayTypes, PairingRecord, DeviceRecord
      <3>2. /\ device[d].epoch \in Nat /\ session[d].epoch \in Nat /\ EpochFits(d)
            /\ queue[d] \in Seq(Requests) /\ MaxEvents \in Nat
        BY <2>1, Epochs, RelayAssumption DEF ReachInv
      <3>3. NoSession.epoch = 0
        BY DEF NoSession
      <3> QED
        BY <3>1, <3>2, <3>3 DEF EpochFits
    <2>3. \A rt \in Runtimes : agent[rt].pc \in Places
      BY <2>1 DEF RelayInv, RelayTypes, AgentRecord
    <2> QED
      BY <2>1, <2>2, <2>3 DEF RelayTypeOK, RelayInv, RelayTypes, Made, Places
  <1> QED
    BY <1>1, ReachInvariant, PTL

----------------------------------------------------------------------------
\* A request that was made is open or has settled.
Known == \A r \in Requests : Made(r) => PromiseOf(r) # "none"
\* A step of the abstract calls, or none, that keeps that.
Calls == (Promises!CallNext \/ UNCHANGED Promises!callVars) /\ Known'

\* The requests of S settle as out, and nothing else changes for a client.
Settles(S, out) ==
  /\ S \subseteq pending /\ pending' = pending \ S /\ UNCHANGED runs
  /\ \A r \in Requests : /\ Made(r)' = Made(r)
                         /\ Made(r) => call'[r].runtime = call[r].runtime
                         /\ r \in S => call'[r].out = out
                         /\ Made(r) /\ r \notin S => call'[r].out = call[r].out

\* #rejectPending for the requests of S, for a client.
LEMMA SettleSettles ==
  ASSUME RelayInv, NEW S \in SUBSET pending, NEW out \in Outs, call' = Settle(call, S, out),
         pending' = pending \ S, UNCHANGED runs
  PROVE  Settles(S, out)
  <1>1. /\ CallsKept /\ \A r \in Requests : Made(r)' = Made(r)
    BY Settled DEF RelayInv
  <1>2. ASSUME NEW r \in Requests
        PROVE  /\ Made(r) => call'[r].runtime = call[r].runtime
               /\ r \in S => call'[r].out = out
               /\ Made(r) /\ r \notin S => call'[r].out = call[r].out
    <2>1. Made(r) => call'[r].runtime = call[r].runtime
      BY <1>1 DEF CallsKept, Kept
    <2>2. CASE r \in S
      <3>1. PICK c \in CallRecord : c = call[r]
        BY <2>2, PendingIs
      <3>2. call'[r] = [c EXCEPT !.out = out, !.epoch = 0]
        BY <2>2, <3>1 DEF Settle
      <3>3. call'[r].out = out
        BY <3>2 DEF CallRecord
      <3> QED
        BY <2>1, <2>2, <3>3
    <2>3. CASE r \notin S
      BY <2>1, <2>3 DEF Settle
    <2> QED
      BY <2>2, <2>3
  <1> QED
    BY <1>1, <1>2 DEF Settles

\* What that is in the abstract calls.
LEMMA SettlesIs ==
  ASSUME RelayInv, NEW S, NEW out, Settles(S, out)
  PROVE  /\ \A r \in Requests : PromiseOf(r)' = (IF r \in S THEN out ELSE PromiseOf(r))
         /\ \A r \in Requests : TargetOf(r)' = TargetOf(r)
         /\ Executions' = Executions
         /\ \A r \in S : r \in Requests /\ PromiseOf(r) = "open"
  <1>1. ASSUME NEW r \in Requests
        PROVE  /\ PromiseOf(r)' = (IF r \in S THEN out ELSE PromiseOf(r))
               /\ TargetOf(r)' = TargetOf(r)
    <2>1. r \in pending => Made(r)
      BY DEF RelayInv, RelayTypes
    <2> QED
      BY <2>1 DEF Settles, PromiseOf, TargetOf, Made
  <1>2. Executions' = Executions
    BY DEF Executions, Settles
  <1>3. \A r \in S : r \in Requests /\ PromiseOf(r) = "open"
    BY DEF Settles, PromiseOf, RelayInv, RelayTypes, Made
  <1> QED
    BY <1>1, <1>2, <1>3

\* Rejections.
LEMMA RejectsStep ==
  ASSUME RelayInv, Known, NEW S, Settles(S, "rejected")
  PROVE  Calls
  <1>1. /\ \A r \in Requests : PromiseOf(r)' = (IF r \in S THEN "rejected" ELSE PromiseOf(r))
        /\ \A r \in Requests : TargetOf(r)' = TargetOf(r)
        /\ Executions' = Executions
        /\ \A r \in S : r \in Requests /\ PromiseOf(r) = "open"
    BY SettlesIs
  <1>2. S \in SUBSET Requests
    BY <1>1
  <1>3. Promises!Reject(S)
    BY <1>1, <1>2 DEF Promises!Reject
  <1>4. Promises!CallNext
    BY <1>2, <1>3 DEF Promises!CallNext
  <1>5. Known'
    BY <1>1 DEF Known, Settles
  <1> QED
    BY <1>4, <1>5 DEF Calls

\* An answer of the runtime a request is addressed to, which has executed it.
LEMMA RepliesStep ==
  ASSUME RelayInv, Known, NEW r \in Requests, NEW out \in {"answered", "failed"},
         Settles({r}, out), runs[r][call[r].runtime] > 0
  PROVE  Calls
  <1>1. /\ \A q \in Requests : PromiseOf(q)' = (IF q = r THEN out ELSE PromiseOf(q))
        /\ \A q \in Requests : TargetOf(q)' = TargetOf(q)
        /\ Executions' = Executions /\ PromiseOf(r) = "open"
    BY SettlesIs
  <1>2. r \in pending
    BY DEF Settles
  <1>3. <<r, TargetOf(r)>> \in Executions
    BY <1>2, PendingIs DEF Executions, TargetOf, Made
  <1>4. Promises!Reply(r, out)
    BY <1>1, <1>3 DEF Promises!Reply
  <1>5. Promises!CallNext
    BY <1>4 DEF Promises!CallNext
  <1>6. Known'
    BY <1>1 DEF Known, Settles
  <1> QED
    BY <1>5, <1>6 DEF Calls

\* A step that neither registers, settles nor executes a request.
LEMMA NoCallStep ==
  ASSUME Known, UNCHANGED <<pending, call, runs>>
  PROVE  Calls
  <1>1. UNCHANGED Promises!callVars
    BY DEF Promises!callVars, PromiseOf, TargetOf, Executions
  <1>2. Known'
    BY DEF Known, Made, PromiseOf
  <1> QED
    BY <1>1, <1>2 DEF Calls

\* A dispatch addresses a new request to the runtime of the session.
LEMMA AsksStep ==
  ASSUME RelayInv, Known, NEW a \in Accounts, NEW d \in Devices, NEW kind, NEW h, NEW p,
         DispatchForAccount(a, d, kind, h, p)
  PROVE  Calls
  <1>1. PICK r \in Requests :
           /\ call[r] = NoCall /\ pending' = pending \cup {r}
           /\ call' = [call EXCEPT ![r] = NewCall(kind, h, p, a, d)]
    BY DEF DispatchForAccount, NewCall
  <1>2. session[d].runtime \in Runtimes /\ runs' = runs
    BY DEF DispatchForAccount, Ready, RelayInv, SessionFits
  <1>3. /\ call'[r] = NewCall(kind, h, p, a, d) /\ call'[r].runtime = session[d].runtime
        /\ \A q \in Requests : q # r => call'[q] = call[q]
    BY <1>1 DEF NewCall, RelayInv, RelayTypes
  <1>4. call'[r] # NoCall
    BY <1>3 DEF NewCall, NoCall
  <1>5. /\ PromiseOf(r) = "none" /\ PromiseOf(r)' = "open" /\ TargetOf(r)' = session[d].runtime
        /\ \A q \in Requests : q # r => PromiseOf(q)' = PromiseOf(q) /\ TargetOf(q)' = TargetOf(q)
    BY <1>1, <1>3, <1>4 DEF PromiseOf, TargetOf
  <1>6. Executions' = Executions
    BY <1>2 DEF Executions
  <1>7. Promises!Ask(r)
    BY <1>2, <1>5, <1>6 DEF Promises!Ask
  <1>8. Promises!CallNext
    BY <1>7 DEF Promises!CallNext
  <1>9. Known'
    BY <1>3, <1>5 DEF Known, Made
  <1> QED
    BY <1>8, <1>9 DEF Calls

\* Revocation, restart and deadline reject what they take from the pending requests.
LEMMA FenceCalls ==
  ASSUME RelayInv, Known, NEW a, NEW D \in SUBSET Devices, Revoke(a, D)
  PROVE  Calls
  <1>1. PICK S \in SUBSET pending : /\ pending' = pending \ S /\ UNCHANGED runs
                                    /\ call' = Settle(call, S, "rejected")
    BY DEF Revoke, FenceDevice
  <1>2. "rejected" \in Outs
    BY DEF Outs
  <1>3. Settles(S, "rejected")
    BY <1>1, <1>2, SettleSettles
  <1> QED
    BY <1>3, RejectsStep

\* A restart rejects all that is pending, a deadline its own request.
LEMMA EndCalls ==
  ASSUME RelayInv, Known, RelayRestart \/ \E r \in Requests : DeadlineTimer(r)
  PROVE  Calls
  <1>1. "rejected" \in Outs
    BY DEF Outs
  <1>2. PICK S \in SUBSET pending : /\ pending' = pending \ S /\ UNCHANGED runs
                                    /\ call' = Settle(call, S, "rejected")
    <2>1. CASE RelayRestart
      <3>1. pending' = pending \ pending /\ UNCHANGED runs /\ call' = Settle(call, pending, "rejected")
        BY <2>1 DEF RelayRestart
      <3> QED
        BY <3>1
    <2>2. ASSUME NEW r \in Requests, DeadlineTimer(r)
          PROVE  /\ {r} \in SUBSET pending /\ pending' = pending \ {r} /\ UNCHANGED runs
                 /\ call' = Settle(call, {r}, "rejected")
      BY <2>2 DEF DeadlineTimer
    <2> QED
      BY <2>1, <2>2
  <1>3. Settles(S, "rejected")
    BY <1>1, <1>2, SettleSettles
  <1> QED
    BY <1>3, RejectsStep

\* A connection rejects the requests of the runtime it replaces and keeps its own.
LEMMA ConnectCalls ==
  ASSUME RelayInv, Known, NEW rt \in Runtimes, NEW reply, ConnectAgent(rt, reply)
  PROVE  Calls
  <1>1. PICK d \in Devices : d = DeviceOf[rt]
    BY RelayAssumption
  <1>2. PICK e \in Nat : e = device[d].epoch + 1
    BY Epochs
  <1>3. Rebind(d, rt, e) /\ UNCHANGED runs
    BY <1>1, <1>2 DEF ConnectAgent
  <1> DEFINE mine == {r \in PendingOf(d) : call[r].runtime = rt}
             others == PendingOf(d) \ mine
  <1>4. /\ \A r \in Requests : Made(r)' = Made(r)
        /\ \A r \in Requests : Made(r) => call'[r].runtime = call[r].runtime
    BY <1>3, Rebound DEF CallsKept, Kept
  <1>5. PICK M, O : M = mine /\ O = others
    OBVIOUS
  <1>6. /\ O \subseteq pending /\ M \subseteq pending /\ M \cap O = {}
        /\ pending' = pending \ O
        /\ call' = [r \in Requests |->
             IF r \in M THEN [call[r] EXCEPT !.epoch = e]
             ELSE IF r \in O THEN [call[r] EXCEPT !.out = "rejected", !.epoch = 0]
             ELSE call[r]]
    BY <1>3, <1>5 DEF Rebind, PendingOf
  <1>7. ASSUME NEW r \in Requests
        PROVE  /\ r \in O => call'[r].out = "rejected"
               /\ Made(r) /\ r \notin O => call'[r].out = call[r].out
    <2>1. CASE r \in M \cup O
      <3>1. PICK c \in CallRecord : c = call[r]
        BY <1>6, <2>1, PendingIs
      <3>2. CASE r \in O
        <4>1. call'[r] = [c EXCEPT !.out = "rejected", !.epoch = 0]
          BY <1>6, <3>1, <3>2
        <4> QED
          BY <3>2, <4>1 DEF CallRecord
      <3>3. CASE r \in M
        <4>1. call'[r] = [c EXCEPT !.epoch = e]
          BY <1>6, <3>1, <3>3
        <4> QED
          BY <1>6, <3>1, <3>3, <4>1 DEF CallRecord
      <3> QED
        BY <2>1, <3>2, <3>3
    <2>2. CASE r \notin M \cup O
      BY <1>6, <2>2
    <2> QED
      BY <2>1, <2>2
  <1>8. Settles(O, "rejected")
    BY <1>3, <1>4, <1>6, <1>7 DEF Settles
  <1> QED
    BY <1>8, RejectsStep

\* An answer settles a request its runtime has executed.
LEMMA RespondCalls ==
  ASSUME RelayInv, Known, NEW rt \in Runtimes, NEW e, NEW r \in Requests, NEW ok, NEW reply,
         RespondAgent(rt, e, r, ok, reply), runs[r][rt] > 0
  PROVE  Calls
  <1>1. PICK out \in {"answered", "failed"} : call' = Settle(call, {r}, out)
    BY DEF RespondAgent
  <1>2. /\ {r} \in SUBSET pending /\ pending' = pending \ {r} /\ UNCHANGED runs
        /\ call[r].runtime = rt
    BY DEF RespondAgent
  <1>3. out \in Outs
    BY DEF Outs
  <1>4. Settles({r}, out)
    BY <1>1, <1>2, <1>3, SettleSettles
  <1> QED
    BY <1>2, <1>4, RepliesStep

\* What an agent has the relay do, in time or late.
LEMMA ServeCalls ==
  ASSUME RelayInv, Known, NEW rt \in Runtimes, Serve(rt)
  PROVE  Calls
  <1>1. CASE Refused(rt)
    <2>1. UNCHANGED <<pending, call, runs>>
      BY <1>1 DEF Refused, core
    <2> QED
      BY <2>1, NoCallStep
  <1>2. CASE ConnectAgent(rt, TRUE)
    BY <1>2, ConnectCalls
  <1>3. CASE PollAgent(rt, agent[rt].epoch, TRUE)
    <2>1. UNCHANGED <<pending, call, runs>>
      BY <1>3 DEF PollAgent
    <2> QED
      BY <2>1, NoCallStep
  <1>4. CASE /\ Type(rt) = "respond"
             /\ RespondAgent(rt, agent[rt].epoch, agent[rt].req, agent[rt].ok, TRUE)
    <2>1. agent[rt].pc = "responding"
      BY <1>4 DEF Serve, Calling, Type
    <2>2. agent[rt].req \in Requests /\ runs[agent[rt].req][rt] > 0
      BY <2>1 DEF RelayInv, AgentFits
    <2> QED
      BY <1>4, <2>2, RespondCalls
  <1> QED
    BY <1>1, <1>2, <1>3, <1>4 DEF Serve

\* The same of a late call.
LEMMA StrayCalls ==
  ASSUME RelayInv, Known, NEW m \in stray, ServeStray(m)
  PROVE  Calls
  <1>1. m.runtime \in Runtimes /\ MessageFits(m)
    BY DEF RelayInv, RelayTypes, MessageRecord
  <1>2. CASE ConnectAgent(m.runtime, FALSE)
    BY <1>1, <1>2, ConnectCalls
  <1>3. CASE PollAgent(m.runtime, m.epoch, FALSE)
    <2>1. UNCHANGED <<pending, call, runs>>
      BY <1>3 DEF PollAgent
    <2> QED
      BY <2>1, NoCallStep
  <1>4. CASE m.type = "respond" /\ RespondAgent(m.runtime, m.epoch, m.req, m.ok, FALSE)
    BY <1>1, <1>4, RespondCalls DEF MessageFits
  <1> QED
    BY <1>2, <1>3, <1>4 DEF ServeStray

\* An execution is of the runtime the request in hand is addressed to.
LEMMA HandleCalls ==
  ASSUME RelayInv, Known, NEW rt \in Runtimes, HandleEnvelope(rt)
  PROVE  Calls
  <1>1. PICK r \in Requests : r = agent[rt].req /\ Made(r) /\ call[r].runtime = rt
    BY DEF HandleEnvelope, RelayInv, AgentFits
  <1>2. UNCHANGED <<pending, call>>
    BY DEF HandleEnvelope, core
  <1>3. CASE UNCHANGED runs
    BY <1>2, <1>3, NoCallStep
  <1>4. CASE runs' = [runs EXCEPT ![r][rt] = @ + 1]
    <2>1. /\ runs'[r][rt] = runs[r][rt] + 1 /\ runs[r][rt] \in Nat
          /\ \A q \in Requests, x \in Runtimes : q # r \/ x # rt => runs'[q][x] = runs[q][x]
      BY <1>4, Ran DEF RelayInv, RelayTypes
    <2>2. Executions' = Executions \cup {<<r, rt>>}
      <3>1. ASSUME NEW q \in Requests, NEW x \in Runtimes
            PROVE  runs'[q][x] > 0 <=> (runs[q][x] > 0 \/ (q = r /\ x = rt))
        BY <2>1
      <3> QED
        BY <3>1 DEF Executions
    <2>3. TargetOf(r) = rt /\ PromiseOf(r) # "none"
      BY <1>1 DEF TargetOf, Made, Known
    <2>4. \A q \in Requests : /\ PromiseOf(q)' = PromiseOf(q) /\ TargetOf(q)' = TargetOf(q)
                             /\ Made(q)' = Made(q)
      BY <1>2 DEF PromiseOf, TargetOf, Made
    <2>5. Promises!Work(r)
      BY <2>2, <2>3, <2>4 DEF Promises!Work
    <2>6. Promises!CallNext
      BY <2>5 DEF Promises!CallNext
    <2>7. Known'
      BY <2>4 DEF Known
    <2> QED
      BY <2>6, <2>7 DEF Calls
  <1> QED
    BY <1>1, <1>3, <1>4 DEF HandleEnvelope, Execute

\* Every step of the relay and its agents is a step of the abstract calls, or none.
LEMMA CallsStep ==
  ASSUME RelayInv, Known, [RelayNext]_relayVars
  PROVE  Calls
  <1>1. CASE UNCHANGED relayVars
    BY <1>1, NoCallStep DEF relayVars
  <1>2. CASE \/ \E d \in Devices : \/ BeginPairing(d) \/ ExpirePairing(d) \/ CompletePairing(d)
                                  \/ PollTimeout(d)
             \/ \E d \in Devices, a \in Accounts : ApprovePairing(d, a)
    <2>1. UNCHANGED <<pending, call, runs>>
      BY <1>2 DEF BeginPairing, ExpirePairing, CompletePairing, PollTimeout, ApprovePairing, core
    <2> QED
      BY <2>1, NoCallStep
  <1>3. CASE \E d \in Devices, a \in Accounts : RevokeDevice(a, d)
    BY <1>3, FenceCalls DEF RevokeDevice
  <1>4. CASE \E a \in Accounts : RevokeAll(a)
    BY <1>4, FenceCalls DEF RevokeAll
  <1>5. CASE RelayRestart \/ \E r \in Requests : DeadlineTimer(r)
    BY <1>5, EndCalls
  <1>6. CASE \E a \in Accounts, d \in Devices : WorkspaceOpen(a, d)
    BY <1>6, AsksStep DEF WorkspaceOpen
  <1>7. ASSUME NEW a \in Accounts, NEW h \in Requests, NEW p, NEW k, WorkspaceTool(a, k, h, p)
        PROVE  Calls
    <2>1. Made(h)
      BY <1>7 DEF WorkspaceTool, ResolveWorkspace, Valid, RelayInv, RequestFits, Nil
    <2>2. PICK d \in Devices : d = call[h].device
      BY <2>1 DEF RelayInv, RelayTypes, Made, CallRecord
    <2> QED
      BY <1>7, <2>2, AsksStep DEF WorkspaceTool
  <1>8. ASSUME NEW rt \in Runtimes,
               StartAgent(rt) \/ StopAgent(rt) \/ GiveUpRequest(rt) \/ EnvelopeTooLate(rt)
        PROVE  Calls
    <2>1. UNCHANGED <<pending, call, runs>>
      BY <1>8 DEF StartAgent, StopAgent, GiveUpRequest, EnvelopeTooLate, core
    <2> QED
      BY <2>1, NoCallStep
  <1>9. CASE \E rt \in Runtimes : Serve(rt) \/ HandleEnvelope(rt)
    BY <1>9, ServeCalls, HandleCalls
  <1>10. CASE \E m \in stray : ServeStray(m)
    BY <1>10, StrayCalls
  <1> QED
    BY <1>1, <1>2, <1>3, <1>4, <1>5, <1>6, <1>7, <1>8, <1>9, <1>10 DEF RelayNext

(* The relay keeps its promise (core.js dispatchForAccount, respondAgent,      *)
(* connectAgent, #rejectPending; agent.js handleEnvelope): RelaySpec           *)
(* implements RemoteCall, for any number of everything and a ledger of any     *)
(* size.  The initial states map to initial states and every step to a step    *)
(* of the abstract calls, or to none.                                          *)
THEOREM KeepsPromises == RelaySpec => CallsKeepTheirPromise
  <1>1. RelayInit => RelayInv /\ Known /\ Promises!CallInit
    <2> SUFFICES ASSUME RelayInit PROVE RelayInv /\ Known /\ Promises!CallInit
      OBVIOUS
    <2>1. \A r \in Requests : call[r] = NoCall /\ \A rt \in Runtimes : runs[r][rt] = 0
      BY DEF RelayInit
    <2>2. Executions = {} /\ \A r \in Requests : PromiseOf(r) = "none" /\ TargetOf(r) = Nil
      BY <2>1 DEF Executions, PromiseOf, TargetOf
    <2> QED
      BY <2>1, <2>2, RelayInitial DEF Known, Made, Promises!CallInit
  <1>2. RelayInv /\ Known /\ [RelayNext]_relayVars
          => RelayInv' /\ Known' /\ [Promises!CallNext]_(Promises!callVars)
    BY RelayStep, CallsStep DEF Calls
  <1> QED
    BY <1>1, <1>2, PTL DEF RelaySpec, CallsKeepTheirPromise, Promises!CallSpec
==============================================================================
