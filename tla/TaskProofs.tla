------------------------------ MODULE TaskProofs ------------------------------
(***************************************************************************)
(* What the legacy task engine and the Direct Brain Loop promise, whatever *)
(* the Brain says: for any steps, rounds, control ids and sequences, and   *)
(* any number of deaths.                                                   *)
(***************************************************************************)
EXTENDS LegacyTask, DirectRun, FiniteSetTheorems, TLAPS

(***************************************************************************)
(* DirectRun.  The ledger in memory is the one on disk but for acceptance  *)
(* states the agent sets, and its sequence says which RESULT the next      *)
(* control has to acknowledge.                                             *)
(***************************************************************************)
ReplyRecord == [step : RunSteps \cup {"none"}, executor : {"unknown", "success", "failure"},
                gate : {"pending", "pass", "fail"}]
Processed == [sequence : 0 .. MaxSequence, step : RunSteps \cup {"none"}]
Acceptances == [RunSteps -> {"none", "accepted", "pending"}]
LedgerRecord ==
  [lastSequence : 0 .. MaxSequence, last : ControlIds \cup {"none"},
   outstanding : ControlIds \cup {"none"}, sent : 0 .. MaxSequence, acked : SUBSET Seqs,
   controls : [ControlIds -> Processed], results : [Seqs -> ReplyRecord],
   acceptance : Acceptances]
HalfRecord == [on : BOOLEAN, after : Acceptances]
ControllerRecord == [up : BOOLEAN, lastStep : RunSteps \cup {"none"}, acceptance : Acceptances,
                     shared : BOOLEAN, half : HalfRecord]

\* A control of step s was answered by an acknowledged RESULT that succeeded and passed
\* the gate.
Backed(s) == \E c \in ControlIds : /\ run.controls[c].step = s
                                   /\ run.controls[c].sequence \in run.acked
                                   /\ run.results[run.controls[c].sequence].executor = "success"
                                   /\ run.results[run.controls[c].sequence].gate = "pass"

\* What is in memory and what is on disk differ by acceptance states at most.
MemoryIsLedger ==
  /\ ledger.lastSequence = run.lastSequence /\ ledger.last = run.last
  /\ ledger.outstanding = run.outstanding /\ ledger.sent = run.sent /\ ledger.acked = run.acked
  /\ ledger.controls = run.controls /\ ledger.results = run.results

\* The last control and its RESULT: while it is outstanding it has none, then it has the
\* RESULT sent last.
SequenceFits ==
  /\ run.last = "none" => run.lastSequence = 0
  /\ run.last # "none" => /\ run.controls[run.last].sequence = run.lastSequence
                          /\ run.lastSequence # 0 /\ run.controls[run.last].step # "none"
  /\ run.outstanding # "none" => /\ run.outstanding = run.last
                                 /\ run.results[run.lastSequence] = NoReply
  /\ run.outstanding = "none" => run.sent = run.lastSequence
  /\ \A r \in run.acked : run.results[r] # NoReply
  /\ \A r \in Seqs : run.results[r] # NoReply => r <= run.lastSequence

\* Every acceptance that the agent did not set is backed: what the controller remembers, has
\* still to record and what the ledger holds.
ControllerFits ==
  /\ controller.half.on => run.outstanding # "none"
  /\ ~controller.half.on /\ controller.lastStep # "none" =>
       run.last # "none" /\ controller.lastStep = run.controls[run.last].step
  /\ \A s \in RunSteps \ declared :
       "accepted" \in {controller.acceptance[s], run.acceptance[s], ledger.acceptance[s]}
         => Backed(s)
  /\ controller.half.on => \A s \in RunSteps \ declared :
       controller.half.after[s] = "accepted" => Backed(s)

DirectInv == /\ ledger \in LedgerRecord /\ run \in LedgerRecord
             /\ controller \in ControllerRecord /\ MemoryIsLedger
             /\ SequenceFits /\ ControllerFits /\ ResultsAreAcknowledged

\* A RESULT and a state of acceptance that the actions write.
LEMMA DirectValues ==
  /\ NoReply \in ReplyRecord /\ EmptyLedger \in LedgerRecord
  /\ FreshController \in ControllerRecord /\ NoHalf \in HalfRecord
  /\ \A s \in RunSteps, o \in Outcomes :
       [step |-> s, executor |-> o.executor, gate |-> o.gate] \in ReplyRecord \ {NoReply}
  <1>1. NoReply \in ReplyRecord /\ EmptyLedger \in LedgerRecord
    BY DirectAssumption
       DEF NoReply, EmptyLedger, ReplyRecord, LedgerRecord, Processed, Acceptances, Seqs
  <1>2. EmptyLedger.acceptance \in Acceptances
    BY DEF EmptyLedger, Acceptances
  <1>3. NoHalf \in HalfRecord
    BY <1>2 DEF NoHalf, HalfRecord
  <1>4. FreshController \in ControllerRecord
    BY <1>2, <1>3 DEF FreshController, ControllerRecord
  <1>5. \A s \in RunSteps, o \in Outcomes :
          [step |-> s, executor |-> o.executor, gate |-> o.gate] \in ReplyRecord \ {NoReply}
    BY DEF Outcomes, ReplyRecord, NoReply
  <1> QED
    BY <1>1, <1>3, <1>4, <1>5

\* The first control and the first RESULT are still to come.
LEMMA DirectInitial == DirectInit => DirectInv
  <1> SUFFICES ASSUME DirectInit PROVE DirectInv
    OBVIOUS
  <1>1. ledger = EmptyLedger /\ run = EmptyLedger /\ controller = FreshController
    BY DEF DirectInit
  <1>2. SequenceFits /\ MemoryIsLedger
    BY <1>1 DEF SequenceFits, MemoryIsLedger, EmptyLedger
  <1>3. ControllerFits
    BY <1>1 DEF ControllerFits, EmptyLedger, FreshController, NoHalf
  <1>4. ResultsAreAcknowledged
    BY <1>1 DEF ResultsAreAcknowledged, EmptyLedger
  <1> QED
    BY <1>1, <1>2, <1>3, <1>4, DirectValues DEF DirectInv

\* acceptBrainReply: the control acknowledges the last RESULT, and where it accepts the
\* step before, that RESULT answered this step's control.
LEMMA AcceptKeeps ==
  ASSUME DirectInv, NEW env \in Envelopes, AcceptBrainReply(env)
  PROVE  DirectInv'
  <1>1. PICK l \in LedgerRecord : l = run
    BY DEF DirectInv
  <1>2. PICK n : n = [l EXCEPT !.lastSequence = env.sequence, !.last = env.id,
                               !.outstanding = env.id, !.acked = @ \cup ({env.ack} \ {0}),
                               !.controls[env.id] = [sequence |-> env.sequence,
                                                     step |-> env.step]]
    OBVIOUS
  <1>3. run' = n /\ ledger' = n /\ declared' = declared
    BY <1>1, <1>2 DEF AcceptBrainReply, Keep
  <1>4. /\ env.id \in ControlIds /\ env.sequence \in Seqs /\ env.step \in RunSteps
        /\ env.ack \in 0 .. MaxSequence
        /\ env.invalidate \in SUBSET RunSteps /\ env.id # "none" /\ env.step # "none"
        /\ env.sequence \in 0 .. MaxSequence /\ env.sequence # 0
    BY DirectAssumption DEF Envelopes, Seqs
  <1>5. PICK cs \in [ControlIds -> Processed] :
          cs = [l.controls EXCEPT ![env.id] = [sequence |-> env.sequence, step |-> env.step]]
    BY <1>4 DEF LedgerRecord, Processed
  <1>6. /\ n = [l EXCEPT !.lastSequence = env.sequence, !.last = env.id, !.outstanding = env.id,
                         !.acked = l.acked \cup ({env.ack} \ {0}), !.controls = cs]
        /\ l.acked \cup ({env.ack} \ {0}) \in SUBSET Seqs
    BY <1>2, <1>4, <1>5 DEF LedgerRecord, Seqs
  <1>7. PICK ak \in SUBSET Seqs : ak = l.acked \cup ({env.ack} \ {0})
    BY <1>6
  <1>8. /\ n.lastSequence = env.sequence /\ n.last = env.id /\ n.outstanding = env.id
         /\ n.sent = l.sent /\ n.acked = ak /\ n.controls = cs
         /\ n.results = l.results /\ n.acceptance = l.acceptance
         /\ n \in LedgerRecord
    BY <1>4, <1>6, <1>7 DEF LedgerRecord
  <1>9. /\ cs[env.id].sequence = env.sequence /\ cs[env.id].step = env.step
        /\ l.controls[env.id].sequence = 0
        /\ \A c \in ControlIds : c # env.id => cs[c] = l.controls[c]
    BY <1>1, <1>4, <1>5 DEF LedgerRecord, AcceptBrainReply, MayAccept
  <1>10. PICK k \in ControllerRecord : k = controller
    BY DEF DirectInv
  <1>11. PICK after : after = AcceptanceAfter(k.acceptance, env)
    OBVIOUS
  <1>12. /\ after \in Acceptances
         /\ \A s \in RunSteps : after[s] = "accepted" =>
              k.acceptance[s] = "accepted" \/ (PriorAccepted(env) /\ s = k.lastStep)
    <2>1. k.acceptance \in Acceptances /\ k.lastStep \in RunSteps \cup {"none"}
      BY DEF ControllerRecord
    <2>2. CASE PriorAccepted(env) /\ k.lastStep # "none"
      <3>1. after = [k.acceptance EXCEPT ![k.lastStep] = "accepted"]
        BY <1>10, <1>11, <2>2 DEF AcceptanceAfter
      <3> QED
        BY <2>1, <2>2, <3>1 DEF Acceptances
    <2>3. CASE ~(PriorAccepted(env) /\ k.lastStep # "none") /\ env.control = "REVISE"
      <3>1. after = [s \in RunSteps |->
                       IF s \in env.invalidate /\ k.acceptance[s] # "none" THEN "pending"
                       ELSE k.acceptance[s]]
        BY <1>10, <1>11, <2>3 DEF AcceptanceAfter
      <3> QED
        BY <2>1, <3>1 DEF Acceptances
    <2>4. CASE ~(PriorAccepted(env) /\ k.lastStep # "none") /\ env.control # "REVISE"
      <3>1. after = k.acceptance
        BY <1>10, <1>11, <2>4 DEF AcceptanceAfter
      <3> QED
        BY <2>1, <3>1
    <2> QED
      BY <2>2, <2>3, <2>4
  <1>13. /\ controller' \in ControllerRecord
         /\ controller'.half.on /\ controller'.half.after = after
         /\ controller'.lastStep = k.lastStep /\ controller'.acceptance = k.acceptance
    <2>1. PICK h \in HalfRecord : h = [on |-> TRUE, after |-> after]
      BY <1>12 DEF HalfRecord
    <2>2. controller' = [k EXCEPT !.half = h]
      BY <1>10, <1>11, <2>1 DEF AcceptBrainReply
    <2> QED
      BY <2>1, <2>2 DEF ControllerRecord
  <1>14. /\ l.outstanding = "none" /\ l.sent = l.lastSequence
         /\ env.sequence > l.lastSequence /\ ~k.half.on
         /\ env.ack # 0 => l.results[env.ack] # NoReply
         /\ l.sent # 0 => env.ack = l.sent
    <2>1. l.outstanding = "none"
      BY <1>1, <1>4, <1>9 DEF AcceptBrainReply, MayAccept, DirectInv, SequenceFits
    <2> QED
      BY <1>1, <1>10, <2>1
         DEF AcceptBrainReply, MayAccept, AdvancementGate, Acked, DirectInv, SequenceFits
  <1>15. l.results[env.sequence] = NoReply
    <2>1. ~(env.sequence <= l.lastSequence)
      BY <1>4, <1>14 DEF LedgerRecord, Seqs
    <2> QED
      BY <1>1, <1>4, <2>1 DEF DirectInv, SequenceFits
  <1>16. SequenceFits'
    <2>1. \A r \in n.acked : n.results[r] # NoReply
      BY <1>1, <1>14, <1>7, <1>8 DEF DirectInv, SequenceFits
    <2>2. \A r \in Seqs : n.results[r] # NoReply => r <= n.lastSequence
      BY <1>1, <1>4, <1>14, <1>8 DEF DirectInv, SequenceFits, LedgerRecord, Seqs
    <2> QED
      BY <1>3, <1>4, <1>9, <1>15, <1>8, <2>1, <2>2 DEF SequenceFits
  <1>17. ASSUME NEW s \in RunSteps, Backed(s) PROVE Backed(s)'
    <2>1. PICK c \in ControlIds :
            /\ l.controls[c].step = s /\ l.controls[c].sequence \in l.acked
            /\ l.results[l.controls[c].sequence].executor = "success"
            /\ l.results[l.controls[c].sequence].gate = "pass"
      BY <1>1, <1>17 DEF Backed
    <2>2. c # env.id
      BY <1>9, <2>1 DEF LedgerRecord, Seqs
    <2> QED
      BY <1>3, <1>7, <1>8, <1>9, <2>1, <2>2 DEF Backed
  <1>18. PriorAccepted(env) /\ k.lastStep # "none" => Backed(k.lastStep)'
    <2> SUFFICES ASSUME PriorAccepted(env), k.lastStep # "none" PROVE Backed(k.lastStep)'
      OBVIOUS
    <2>1. env.control = "advance" /\ l.sent # 0 /\ Acceptable(l.results[l.sent])
      BY <1>1 DEF PriorAccepted, AcceptBrainReply, AdvancementGate
    <2>2. /\ l.last \in ControlIds /\ k.lastStep = l.controls[l.last].step
          /\ l.controls[l.last].sequence = l.sent
      BY <1>1, <1>10, <1>14 DEF DirectInv, SequenceFits, ControllerFits, LedgerRecord
    <2>3. l.sent \in ak /\ l.last # env.id
      BY <1>7, <1>9, <1>14, <2>1, <2>2
    <2> QED
      BY <1>3, <1>8, <1>9, <2>1, <2>2, <2>3 DEF Backed, Acceptable
  <1>19. ControllerFits'
    <2>1. ASSUME NEW s \in RunSteps \ declared,
                 \/ "accepted" \in {k.acceptance[s], n.acceptance[s]}
                 \/ after[s] = "accepted"
          PROVE  Backed(s)'
      <3>1. CASE "accepted" \in {k.acceptance[s], l.acceptance[s]}
        BY <1>1, <1>10, <1>17, <3>1 DEF DirectInv, ControllerFits
      <3>2. CASE PriorAccepted(env) /\ s = k.lastStep
        BY <1>18, <3>2, DirectAssumption
      <3> QED
        BY <1>8, <1>12, <2>1, <3>1, <3>2
    <2> QED
      BY <1>3, <1>4, <1>8, <1>13, <2>1 DEF ControllerFits
  <1>20. ResultsAreAcknowledged'
    <2> SUFFICES ASSUME NEW r \in Seqs, l.results[r] # NoReply PROVE r \in n.acked
      BY <1>3, <1>8 DEF ResultsAreAcknowledged
    <2>1. r # 0
      BY DEF Seqs
    <2>2. CASE r = l.sent
      BY <1>14, <1>7, <1>8, <2>1, <2>2
    <2>3. CASE r # l.sent
      BY <1>1, <1>7, <1>8, <2>3 DEF DirectInv, MemoryIsLedger, ResultsAreAcknowledged
    <2> QED
      BY <2>2, <2>3
  <1> QED
    BY <1>3, <1>13, <1>8, <1>16, <1>19, <1>20 DEF DirectInv, MemoryIsLedger

\* Whatever leaves controls, RESULTs and acknowledgements as they are keeps what is said of
\* them.
LEMMA LedgerStays ==
  ASSUME DirectInv, NEW n \in LedgerRecord, run' = n, ledger' \in {n, ledger},
         n.lastSequence = run.lastSequence, n.last = run.last,
         n.outstanding = run.outstanding, n.sent = run.sent, n.acked = run.acked,
         n.controls = run.controls, n.results = run.results
  PROVE  /\ SequenceFits' /\ MemoryIsLedger' /\ ResultsAreAcknowledged'
         /\ ledger' \in LedgerRecord /\ run' \in LedgerRecord
         /\ \A s \in RunSteps : Backed(s) => Backed(s)'
  <1>1. SequenceFits'
    BY DEF DirectInv, SequenceFits
  <1>2. MemoryIsLedger' /\ ledger' \in LedgerRecord /\ run' \in LedgerRecord
    BY DEF DirectInv, MemoryIsLedger
  <1>3. ResultsAreAcknowledged'
    <2>1. /\ ledger'.results = ledger.results /\ ledger'.sent = ledger.sent
          /\ ledger'.outstanding = ledger.outstanding /\ ledger'.acked = ledger.acked
      BY DEF DirectInv, MemoryIsLedger
    <2> QED
      BY <2>1 DEF DirectInv, ResultsAreAcknowledged
  <1>4. \A s \in RunSteps : Backed(s) => Backed(s)'
    BY DEF Backed
  <1> QED
    BY <1>1, <1>2, <1>3, <1>4

\* The rest of acceptBrainReply: it records what was backed when the reply was accepted.
LEMMA RecordKeeps ==
  ASSUME DirectInv, RecordAcceptance
  PROVE  DirectInv'
  <1>1. PICK l \in LedgerRecord, k \in ControllerRecord : l = run /\ k = controller
    BY DEF DirectInv
  <1>2. PICK a \in Acceptances : a = k.half.after
    BY DEF ControllerRecord, HalfRecord
  <1>3. PICK n : n = [l EXCEPT !.acceptance = a]
    OBVIOUS
  <1>4. /\ n \in LedgerRecord /\ n.acceptance = a
        /\ n.lastSequence = l.lastSequence /\ n.last = l.last /\ n.outstanding = l.outstanding
        /\ n.sent = l.sent /\ n.acked = l.acked /\ n.controls = l.controls
        /\ n.results = l.results
    BY <1>3 DEF LedgerRecord
  <1>5. run' = n /\ ledger' = n /\ declared' = declared /\ k.half.on
    BY <1>1, <1>2, <1>3 DEF RecordAcceptance, Keep
  <1>6. l.last \in ControlIds /\ l.last # "none"
    BY <1>1, <1>5 DEF DirectInv, ControllerFits, SequenceFits, LedgerRecord
  <1>7. PICK m : m = [k EXCEPT !.acceptance = a, !.shared = TRUE,
                               !.lastStep = l.controls[l.last].step, !.half = NoHalf]
    OBVIOUS
  <1>8. l.controls[l.last].step \in RunSteps \cup {"none"} /\ NoHalf \in HalfRecord
    BY <1>6, DirectValues DEF LedgerRecord, Processed
  <1>9. /\ m \in ControllerRecord
        /\ m.acceptance = a /\ m.lastStep = l.controls[l.last].step /\ m.half = NoHalf
    BY <1>7, <1>8 DEF ControllerRecord
  <1>10. controller' = m
    BY <1>1, <1>2, <1>7 DEF RecordAcceptance
  <1>11. /\ SequenceFits' /\ MemoryIsLedger' /\ ResultsAreAcknowledged'
         /\ ledger' \in LedgerRecord /\ run' \in LedgerRecord
         /\ \A s \in RunSteps : Backed(s) => Backed(s)'
    BY <1>1, <1>4, <1>5, LedgerStays
  <1>12. ControllerFits'
    <2>1. ~m.half.on
      BY <1>9 DEF NoHalf
    <2>2. \A s \in RunSteps \ declared : a[s] = "accepted" => Backed(s)'
      BY <1>1, <1>2, <1>5, <1>11 DEF DirectInv, ControllerFits
    <2> QED
      BY <1>4, <1>5, <1>6, <1>9, <1>10, <2>1, <2>2 DEF ControllerFits
  <1> QED
    BY <1>9, <1>10, <1>11, <1>12 DEF DirectInv

\* A call that is rejected persists what is in memory.
LEMMA RejectKeeps ==
  ASSUME DirectInv, RejectCall
  PROVE  DirectInv'
  <1>1. PICK l \in LedgerRecord : l = run
    BY DEF DirectInv
  <1>2. run' = l /\ ledger' = l /\ controller' = controller /\ declared' = declared
    BY <1>1 DEF RejectCall, Keep
  <1>3. /\ SequenceFits' /\ MemoryIsLedger' /\ ResultsAreAcknowledged'
        /\ ledger' \in LedgerRecord /\ run' \in LedgerRecord
        /\ \A s \in RunSteps : Backed(s) => Backed(s)'
    BY <1>1, <1>2, LedgerStays
  <1>4. ControllerFits'
    BY <1>1, <1>2, <1>3 DEF DirectInv, ControllerFits
  <1> QED
    BY <1>2, <1>3, <1>4 DEF DirectInv

\* prepareResult: the RESULT of the outstanding control, which every earlier one has been
\* acknowledged before.
LEMMA PrepareKeeps ==
  ASSUME DirectInv, NEW step \in RunSteps, NEW o \in Outcomes, PrepareResult(step, o)
  PROVE  DirectInv'
  <1>1. PICK l \in LedgerRecord : l = run
    BY DEF DirectInv
  <1>2. /\ l.outstanding # "none" /\ l.outstanding = l.last /\ l.last \in ControlIds
        /\ l.controls[l.last].sequence = l.lastSequence /\ l.lastSequence # 0
        /\ l.results[l.lastSequence] = NoReply /\ ~controller.half.on
    BY <1>1 DEF DirectInv, SequenceFits, PrepareResult, LedgerRecord, Processed
  <1>3. PICK q \in Seqs : q = l.lastSequence
    BY <1>2 DEF LedgerRecord, Seqs
  <1>4. PICK reply \in ReplyRecord :
          /\ reply = [step |-> step, executor |-> o.executor, gate |-> o.gate]
          /\ reply # NoReply
    <2>1. [step |-> step, executor |-> o.executor, gate |-> o.gate] \in ReplyRecord \ {NoReply}
      BY DirectValues, Zenon
    <2> QED
      BY <2>1, Zenon
  <1>5. PICK rs \in [Seqs -> ReplyRecord] : rs = [l.results EXCEPT ![q] = reply]
    BY DEF LedgerRecord
  <1>6. rs[q] = reply /\ \A r \in Seqs : r # q => rs[r] = l.results[r]
    BY <1>5 DEF LedgerRecord
  <1>7. PICK n : n = [l EXCEPT !.results = rs, !.sent = q, !.outstanding = "none"]
    OBVIOUS
  <1>8. q \in 0 .. MaxSequence
    BY DEF Seqs
  <1>9. /\ n \in LedgerRecord /\ n.results = rs /\ n.sent = q /\ n.outstanding = "none"
        /\ n.lastSequence = l.lastSequence /\ n.last = l.last /\ n.acked = l.acked
        /\ n.controls = l.controls /\ n.acceptance = l.acceptance
    BY <1>7, <1>8 DEF LedgerRecord
  <1>10. run' = n /\ ledger' = n /\ controller' = controller /\ declared' = declared
    <2>1. n = [l EXCEPT !.results[q] = reply, !.sent = q, !.outstanding = "none"]
      BY <1>5, <1>7
    <2> QED
      BY <1>1, <1>2, <1>3, <1>4, <2>1 DEF PrepareResult, Keep
  <1>11. \A r \in l.acked : r # q /\ rs[r] = l.results[r] /\ l.results[r] # NoReply
    BY <1>1, <1>2, <1>3, <1>6 DEF DirectInv, SequenceFits, LedgerRecord
  <1>12. \A s \in RunSteps : Backed(s) => Backed(s)'
    BY <1>1, <1>9, <1>10, <1>11 DEF Backed
  <1>13. SequenceFits'
    <2>1. \A r \in Seqs : n.results[r] # NoReply => r <= n.lastSequence
      BY <1>1, <1>3, <1>6, <1>9 DEF DirectInv, SequenceFits, Seqs
    <2>2. \A r \in n.acked : n.results[r] # NoReply
      BY <1>9, <1>11
    <2>3. n.last # "none" /\ n.controls[n.last].sequence = n.lastSequence /\ n.lastSequence # 0
          /\ n.controls[n.last].step # "none"
      BY <1>1, <1>2, <1>9 DEF DirectInv, SequenceFits
    <2> QED
      BY <1>3, <1>9, <1>10, <2>1, <2>2, <2>3 DEF SequenceFits
  <1>14. ControllerFits'
    BY <1>1, <1>2, <1>9, <1>10, <1>12 DEF DirectInv, ControllerFits
  <1>15. ResultsAreAcknowledged'
    BY <1>1, <1>2, <1>6, <1>9, <1>10 DEF DirectInv, MemoryIsLedger, ResultsAreAcknowledged
  <1> QED
    BY <1>9, <1>10, <1>13, <1>14, <1>15 DEF DirectInv, MemoryIsLedger

\* setBrainAcceptance: it declares the one step it touches.
LEMMA DeclareKeeps ==
  ASSUME DirectInv, NEW step \in RunSteps, NEW state \in {"accepted", "pending"},
         SetBrainAcceptance(step, state)
  PROVE  DirectInv'
  <1>1. PICK l \in LedgerRecord, k \in ControllerRecord : l = run /\ k = controller
    BY DEF DirectInv
  <1>2. PICK a \in Acceptances : a = [k.acceptance EXCEPT ![step] = state]
    BY DEF ControllerRecord, Acceptances
  <1>3. PICK b \in Acceptances : b = [l.acceptance EXCEPT ![step] = state]
    BY DEF LedgerRecord, Acceptances
  <1>4. PICK n \in LedgerRecord : n = IF k.shared THEN [l EXCEPT !.acceptance = b] ELSE l
    BY DEF LedgerRecord
  <1>5. /\ n.lastSequence = l.lastSequence /\ n.last = l.last /\ n.outstanding = l.outstanding
        /\ n.sent = l.sent /\ n.acked = l.acked /\ n.controls = l.controls
        /\ n.results = l.results /\ n.acceptance \in {l.acceptance, b}
    BY <1>4 DEF LedgerRecord
  <1>6. run' = n /\ ledger' = ledger /\ declared' = declared \cup {step} /\ ~k.half.on
    BY <1>1, <1>3, <1>4 DEF SetBrainAcceptance
  <1>7. /\ controller' \in ControllerRecord /\ controller'.acceptance = a
        /\ controller'.half = k.half /\ controller'.lastStep = k.lastStep
    <2>1. controller' = [k EXCEPT !.acceptance = a]
      BY <1>1, <1>2 DEF SetBrainAcceptance
    <2> QED
      BY <2>1 DEF ControllerRecord
  <1>8. /\ SequenceFits' /\ MemoryIsLedger' /\ ResultsAreAcknowledged'
        /\ ledger' \in LedgerRecord /\ run' \in LedgerRecord
        /\ \A s \in RunSteps : Backed(s) => Backed(s)'
    BY <1>1, <1>5, <1>6, LedgerStays
  <1>9. ControllerFits'
    <2>1. \A s \in RunSteps \ declared' :
            /\ s \in RunSteps \ declared /\ a[s] = k.acceptance[s]
            /\ n.acceptance[s] = l.acceptance[s]
      BY <1>2, <1>3, <1>5, <1>6 DEF Acceptances, ControllerRecord, LedgerRecord
    <2>2. \A s \in RunSteps \ declared' :
            "accepted" \in {a[s], n.acceptance[s], ledger.acceptance[s]} => Backed(s)'
      BY <1>1, <1>8, <2>1 DEF DirectInv, ControllerFits
    <2> QED
      BY <1>1, <1>5, <1>6, <1>7, <2>2 DEF DirectInv, ControllerFits
  <1> QED
    BY <1>7, <1>8, <1>9 DEF DirectInv

\* A death, and the start or resumption after it, keep the ledger; what the controller
\* then knows of it is what the ledger says, or nothing.
LEMMA RestartKeeps ==
  ASSUME DirectInv, Dies \/ Resume \/ StartAgain
  PROVE  DirectInv'
  <1>1. PICK l \in LedgerRecord : l = run'
    BY DEF DirectInv, Dies, Resume, StartAgain
  <1>2. /\ ledger' = ledger /\ declared' = declared /\ l \in {run, ledger}
        /\ Resume => l = run
    BY <1>1 DEF Dies, Resume, StartAgain
  <1>3. /\ l.lastSequence = run.lastSequence /\ l.last = run.last
        /\ l.outstanding = run.outstanding /\ l.sent = run.sent /\ l.acked = run.acked
        /\ l.controls = run.controls /\ l.results = run.results
    BY <1>2 DEF DirectInv, MemoryIsLedger
  <1>4. /\ SequenceFits' /\ MemoryIsLedger' /\ ResultsAreAcknowledged'
        /\ ledger' \in LedgerRecord /\ run' \in LedgerRecord
        /\ \A s \in RunSteps : Backed(s) => Backed(s)'
    BY <1>1, <1>2, <1>3, LedgerStays
  <1>5. PICK f \in ControllerRecord : f = FreshController /\ ~f.half.on /\ f.lastStep = "none"
                                      /\ \A s \in RunSteps : f.acceptance[s] = "none"
    <2>1. ~FreshController.half.on /\ FreshController.lastStep = "none"
      BY DEF FreshController, NoHalf
    <2>2. \A s \in RunSteps : FreshController.acceptance[s] = "none"
      BY DEF FreshController, EmptyLedger
    <2> QED
      BY <2>1, <2>2, DirectValues
  <1>6. PICK m \in ControllerRecord :
          /\ controller' = m /\ ~m.half.on
          /\ m.lastStep # "none" => l.last # "none" /\ m.lastStep = l.controls[l.last].step
          /\ \A s \in RunSteps : m.acceptance[s] = "accepted" => l.acceptance[s] = "accepted"
    <2>1. CASE Dies
      <3>1. PICK m : m = [f EXCEPT !.up = FALSE]
        OBVIOUS
      <3>2. m \in ControllerRecord /\ m.half = f.half /\ m.lastStep = f.lastStep
            /\ m.acceptance = f.acceptance
        BY <3>1 DEF ControllerRecord
      <3>3. controller' = m
        BY <1>5, <2>1, <3>1 DEF Dies
      <3> QED
        BY <1>5, <3>2, <3>3
    <2>2. CASE Resume
      <3>1. PICK last \in RunSteps \cup {"none"} :
              /\ last = IF l.last = "none" THEN "none" ELSE l.controls[l.last].step
              /\ last # "none" => l.last # "none" /\ last = l.controls[l.last].step
        BY DEF LedgerRecord, Processed
      <3>2. PICK m : m = [f EXCEPT !.acceptance = l.acceptance, !.shared = TRUE,
                                   !.lastStep = last]
        OBVIOUS
      <3>3. m \in ControllerRecord /\ m.half = f.half /\ m.lastStep = last
            /\ m.acceptance = l.acceptance
        BY <3>2 DEF ControllerRecord, LedgerRecord
      <3>4. controller' = m
        BY <1>2, <1>5, <2>2, <3>1, <3>2 DEF Resume
      <3> QED
        BY <1>5, <3>1, <3>3, <3>4
    <2>3. CASE StartAgain
      BY <1>5, <2>3 DEF StartAgain
    <2> QED
      BY <2>1, <2>2, <2>3
  <1>7. \A s \in RunSteps \ declared :
          "accepted" \in {m.acceptance[s], l.acceptance[s], ledger.acceptance[s]}
            => Backed(s)'
    <2>1. \A s \in RunSteps \ declared :
            "accepted" \in {run.acceptance[s], ledger.acceptance[s]} => Backed(s)
      BY DEF DirectInv, ControllerFits
    <2> QED
      BY <1>2, <1>4, <1>6, <2>1
  <1>8. ControllerFits'
    BY <1>1, <1>2, <1>6, <1>7 DEF ControllerFits
  <1> QED
    BY <1>4, <1>6, <1>8 DEF DirectInv

\* The invariant of the Direct Brain Loop, for any ids and sequences of the Brain.
LEMMA DirectInvariant == DirectSpec => []DirectInv
  <1>1. DirectInv /\ [DirectNext]_directVars => DirectInv'
    <2> SUFFICES ASSUME DirectInv, [DirectNext]_directVars PROVE DirectInv'
      OBVIOUS
    <2>1. CASE UNCHANGED directVars
      BY <2>1
         DEF directVars, DirectInv, MemoryIsLedger, SequenceFits, ControllerFits, Backed,
             ResultsAreAcknowledged
    <2>2. CASE DirectNext
      BY <2>2, AcceptKeeps, RecordKeeps, RejectKeeps, PrepareKeeps, DeclareKeeps, RestartKeeps
         DEF DirectNext
    <2> QED
      BY <2>1, <2>2
  <1> QED
    BY <1>1, DirectInitial, PTL DEF DirectSpec

\* Whatever the Brain sends and whenever the controller dies, every RESULT but the last
\* was acknowledged before the run went on.
THEOREM ResultsAcknowledged == DirectSpec => []ResultsAreAcknowledged
  BY DirectInvariant, PTL DEF DirectInv

\* A step that the agent has not declared counts as accepted only when a control of it was
\* answered by an acknowledged RESULT that succeeded and passed the machine gate.
THEOREM AcceptanceBacked == DirectSpec => []AcceptanceIsBacked
  <1>1. DirectInv => AcceptanceIsBacked
    BY DEF DirectInv, MemoryIsLedger, ControllerFits, AcceptanceIsBacked, Backed
  <1> QED
    BY <1>1, DirectInvariant, PTL

\* The state of a Direct Brain Loop is well typed; deaths and declared steps keep within
\* their common bound.
THEOREM DirectTyped == DirectSpec => []DirectTypeOK
  <1> DEFINE Upsets == IsFiniteSet(declared) /\ declared \subseteq RunSteps
                       /\ deaths \in 0 .. MaxUpsets
  <1>1. DirectInit => Upsets
    BY DirectAssumption, FS_EmptySet DEF DirectInit
  <1>2. Upsets /\ [DirectNext]_directVars => Upsets'
    <2> SUFFICES ASSUME Upsets, [DirectNext]_directVars PROVE Upsets'
      OBVIOUS
    <2>1. CASE declared' = declared /\ deaths' = deaths
      BY <2>1
    <2>2. ASSUME NEW s \in RunSteps, declared' = declared \cup {s}, deaths' = deaths
          PROVE  Upsets'
      BY <2>2, FS_AddElement
    <2>3. CASE Dies
      <3>1. Cardinality(declared) \in Nat
        BY FS_CardinalityType
      <3> QED
        BY <2>3, <3>1, DirectAssumption DEF Dies, Undisturbed
    <2> QED
      BY <2>1, <2>2, <2>3
         DEF DirectNext, directVars, AcceptBrainReply, RejectCall, RecordAcceptance,
             PrepareResult, SetBrainAcceptance, Resume, StartAgain
  <1>3. DirectInv /\ Upsets => DirectTypeOK
    BY DEF DirectInv, LedgerRecord, ControllerRecord, Acceptances, DirectTypeOK
  <1> QED
    BY <1>1, <1>2, <1>3, DirectInvariant, PTL DEF DirectSpec

(***************************************************************************)
(* LegacyTask, with one call of the service at a time.  What a task file   *)
(* says of a step is what happened: ran and proof, the ghosts, are read    *)
(* off it.                                                                 *)
(***************************************************************************)
Controls == [kind : {"TASK", "REVISE", "PLAN", "REPLAN", "DONE", "ASK_USER", "PUBLISH", "none"},
             step : PlanSteps \cup {"none"}, gives : BOOLEAN, plan : SUBSET PlanSteps,
             asks : {"nothing", "required", "optional"}]
StepStates == {"none", "received", "executing", "executed", "result_recorded", "reviewed"}
TaskRecord ==
  [status : {"running", "awaiting_user", "recovery_required", "completed", "cancelled"},
   conversation : BOOLEAN, ctrl : Controls, plan : SUBSET PlanSteps,
   inFlight : StepIds \cup {"none"}, steps : [StepIds -> StepStates],
   evidence : [StepIds -> {"none", "pass", "fail"}], completed : SUBSET StepIds,
   registry : [StepIds -> {"absent", "missing", "pass", "fail"}], optional : SUBSET StepIds,
   asked : [StepIds -> {"nothing", "required", "optional"}], round : 0 .. MaxRounds]
ServiceCalls == [op : {"none", "start", "resume", "advance"},
                 pc : {"idle", "loaded", "bound", "engine", "goal", "execute", "review", "next"},
                 task : TaskRecord \cup {None}]
RanGhosts == [StepIds -> {0, 1}]
ProofGhosts == [StepIds -> {"none", "pass", "fail"}]

\* A step was executed since it was issued exactly when the file says so, before the
\* executor is called as well as after.
RanFits(t, r) == \A s \in StepIds : r[s] = IF t.steps[s] \in {"none", "received"} THEN 0 ELSE 1
\* The one step that is not over is the one the control and the plan say; no other control
\* is asked for meanwhile.
FlightFits(t) ==
  /\ \A s \in StepIds \ {t.inFlight} : t.steps[s] \in {"none", "reviewed"}
  /\ t.inFlight # "none" =>
       /\ t.steps[t.inFlight] \in {"received", "executing", "executed", "result_recorded"}
       /\ ResolveStep(t) = t.inFlight /\ t.conversation /\ t.ctrl.kind \in {"TASK", "REVISE"}
  /\ \A s \in t.completed : t.steps[s] = "reviewed" \/ s = t.inFlight
\* Evidence that is not yet in the registry is of the step in flight.
Unapplied(t, a) == a = t.inFlight /\ t.steps[a] = "executed" /\ t.evidence[a] # "none"
ProofFits(t, p) ==
  \A a \in StepIds : /\ t.registry[a] = "pass" => p[a] = "pass" \/ Unapplied(t, a)
                     /\ Unapplied(t, a) => p[a] = t.evidence[a]
\* A completed task passed the gate, and nothing was in flight.
Earned(t) == t.status = "completed" => t.inFlight = "none" /\ Gate(t)
Fits(t, r, p) ==
  t \in TaskRecord /\ RanFits(t, r) /\ FlightFits(t) /\ ProofFits(t, p) /\ Earned(t)

FileFits == (taskFile = None /\ \A s \in StepIds : ran[s] = 0) \/ Fits(taskFile, ran, proof)

\* A call that has read the file works on what the file still says.
CallFits(k, file) ==
  /\ k.pc # "idle" => file # None
  /\ k.pc = "bound" => k.op = "resume"
  /\ k.pc \notin {"idle", "bound"} =>
       /\ k.task = file /\ ~TaskOver(file)
       /\ k.op = "advance" => file.round < MaxRounds
  /\ k.pc \in {"goal", "next"} => file.inFlight = "none"
  /\ k.pc = "execute" => file.inFlight # "none" /\ file.steps[file.inFlight] = "executing"
  /\ k.pc = "review" => /\ file.inFlight # "none" /\ file.round < MaxRounds
                        /\ file.steps[file.inFlight] = "result_recorded"

LegacyInv ==
  /\ service \in [Hosts -> ServiceCalls] /\ ran \in RanGhosts /\ proof \in ProofGhosts
  /\ FileFits
  /\ \A h \in Hosts : CallFits(service[h], taskFile)
  /\ \A g, h \in Hosts : Awaits(g, "idle") \/ Awaits(h, "idle") \/ g = h

\* A task file is not the absence of one, and a new one has nothing in flight.
LEMMA TaskValues ==
  /\ \A t \in TaskRecord : t # None
  /\ "none" \notin StepIds /\ MaxRounds \in Nat
  /\ Replies \subseteq Controls /\ NoControl \in Controls /\ Unused \in ServiceCalls
  /\ \A b \in BOOLEAN : NewTask(b) \in TaskRecord
  <1>1. \A t \in TaskRecord : t # None
    <2> SUFFICES ASSUME NEW t \in TaskRecord PROVE t.status # None.status
      OBVIOUS
    <2>1. t.status \in {"running", "awaiting_user", "recovery_required", "completed", "cancelled"}
      BY DEF TaskRecord
    <2>2. None.status = "none"
      BY DEF None
    <2> QED
      BY <2>1, <2>2
  <1>2. "none" \notin StepIds /\ MaxRounds \in Nat
    BY LegacyAssumption DEF StepIds
  <1>3. Replies \subseteq Controls /\ NoControl \in Controls
    BY DEF Replies, Controls, NoControl
  <1>4. Unused \in ServiceCalls
    BY DEF Unused, ServiceCalls
  <1>5. \A b \in BOOLEAN : NewTask(b) \in TaskRecord
    BY <1>2, <1>3 DEF NewTask, TaskRecord, StepStates
  <1> QED
    BY <1>1, <1>2, <1>3, <1>4, <1>5

LEMMA NewTaskFits ==
  ASSUME NEW b \in BOOLEAN, NEW r, NEW p, \A s \in StepIds : r[s] = 0
  PROVE  /\ Fits(NewTask(b), r, p) /\ NewTask(b) # None /\ ~TaskOver(NewTask(b))
  <1>1. NewTask(b) \in TaskRecord /\ NewTask(b) # None
    BY TaskValues
  <1>2. /\ NewTask(b).status = "running" /\ NewTask(b).inFlight = "none"
        /\ NewTask(b).completed = {}
        /\ \A s \in StepIds : NewTask(b).steps[s] = "none" /\ NewTask(b).registry[s] = "absent"
    BY DEF NewTask
  <1>3. RanFits(NewTask(b), r) /\ FlightFits(NewTask(b)) /\ ProofFits(NewTask(b), p)
    BY <1>2, TaskValues DEF RanFits, FlightFits, ProofFits, Unapplied
  <1> QED
    BY <1>1, <1>2, <1>3 DEF Fits, Earned, TaskOver

\* _resolveStepIdentity names a step of the task.
LEMMA ResolveTyped ==
  ASSUME NEW t \in TaskRecord
  PROVE  ResolveStep(t) \in StepIds \cup {"none"}
  <1>1. t.plan \subseteq StepIds /\ t.round \in 0 .. MaxRounds
    BY DEF TaskRecord, StepIds
  <1>2. LooseStep[t.round] \in StepIds
    BY <1>1 DEF StepIds
  <1>3. ~(t.plan \subseteq t.completed) =>
          (CHOOSE s \in t.plan : s \notin t.completed) \in t.plan
    OBVIOUS
  <1> QED
    BY <1>1, <1>2, <1>3 DEF ResolveStep

\* _startOrReopenStep: nothing was in flight, and the plan and the control still say the
\* step that now is.
LEMMA IssueFits ==
  ASSUME NEW r \in RanGhosts, NEW p \in ProofGhosts, NEW t, Fits(t, r, p),
         NEW s \in StepIds, s = ResolveStep(t), t.conversation,
         t.ctrl.kind \in {"TASK", "REVISE"}, ~TaskOver(t),
         ActiveStatus(t) = "reviewed" \/ (Planned(t, s) /\ t.steps[s] = "reviewed")
  PROVE  /\ Fits(Issued(t, s), [r EXCEPT ![s] = 0], p)
         /\ ~TaskOver(Issued(t, s)) /\ Issued(t, s).round = t.round
  <1>1. t \in TaskRecord /\ t.inFlight = "none"
    BY DEF Fits, FlightFits, ActiveStatus
  <1>2. PICK st \in [StepIds -> StepStates] : st = [t.steps EXCEPT ![s] = "received"]
    BY <1>1 DEF TaskRecord, StepStates
  <1>3. PICK rg : rg = Registered(t, s)
    OBVIOUS
  <1>4. /\ rg \in [StepIds -> {"absent", "missing", "pass", "fail"}]
        /\ \A a \in StepIds : rg[a] = "pass" => t.registry[a] = "pass"
    BY <1>1, <1>3 DEF TaskRecord, Registered
  <1>5. PICK n : n = Issued(t, s)
    OBVIOUS
  <1>6. PICK op \in SUBSET StepIds,
             as \in [StepIds -> {"nothing", "required", "optional"}] :
          n = [t EXCEPT !.steps = st, !.inFlight = s, !.registry = rg,
                        !.optional = op, !.asked = as]
    <2>1. PICK op : op = Optional(t, s)
      OBVIOUS
    <2>2. PICK as : as = [t.asked EXCEPT ![s] = t.ctrl.asks]
      OBVIOUS
    <2>3. op \in SUBSET StepIds
      BY <1>1, <2>1 DEF TaskRecord, Optional
    <2>4. as \in [StepIds -> {"nothing", "required", "optional"}]
      BY <1>1, <2>2 DEF TaskRecord, Controls
    <2>5. n = [t EXCEPT !.steps = st, !.inFlight = s, !.registry = rg,
                        !.optional = op, !.asked = as]
      BY Zenon, <1>2, <1>3, <1>5, <2>1, <2>2 DEF Issued
    <2> QED
      BY <2>3, <2>4, <2>5
  <1>7. /\ n.steps = st /\ n.inFlight = s /\ n.registry = rg
        /\ n.status = t.status /\ n.conversation = t.conversation /\ n.ctrl = t.ctrl
        /\ n.plan = t.plan /\ n.evidence = t.evidence /\ n.completed = t.completed
        /\ n.round = t.round /\ n \in TaskRecord
    BY <1>1, <1>4, <1>6 DEF TaskRecord
  <1>8. st[s] = "received" /\ \A x \in StepIds : x # s => st[x] = t.steps[x]
    BY <1>1, <1>2 DEF TaskRecord
  <1>9. RanFits(n, [r EXCEPT ![s] = 0])
    BY <1>7, <1>8 DEF RanFits, Fits, RanGhosts
  <1>10. ResolveStep(n) = s
    <2>1. CASE t.plan = {}
      BY <1>7, <2>1 DEF ResolveStep
    <2>2. CASE t.plan # {} /\ t.ctrl.step # "none"
      BY <1>7, <2>2, TaskValues DEF ResolveStep
    <2>3. CASE t.plan # {} /\ t.ctrl.step = "none"
      <3>1. s \in t.plan
        BY <2>3, TaskValues DEF ResolveStep
      <3> QED
        BY <1>7, <2>3, <3>1 DEF ResolveStep
    <2> QED
      BY <2>1, <2>2, <2>3
  <1>11. FlightFits(n)
    BY <1>1, <1>7, <1>8, <1>10, TaskValues DEF FlightFits, Fits, TaskRecord
  <1>12. ProofFits(n, p)
    BY <1>1, <1>4, <1>7, <1>8, TaskValues DEF ProofFits, Fits, Unapplied
  <1>13. ~TaskOver(n) /\ Earned(n)
    BY <1>7 DEF TaskOver, Earned
  <1> QED
    BY <1>5, <1>7, <1>9, <1>11, <1>12, <1>13 DEF Fits

Moved(t, to, ev, rg) ==
  [t EXCEPT !.steps[t.inFlight] = to, !.evidence[t.inFlight] = ev, !.registry = rg]
Once(r, s) == [r EXCEPT ![s] = 1]

\* The step in flight goes on to its next state, with its ghosts: what is executing was
\* received, what was executed was executing, and a recorded result was executed.
LEMMA StepMoves ==
  ASSUME NEW r \in RanGhosts, NEW p \in ProofGhosts, NEW t, Fits(t, r, p), ~TaskOver(t),
         t.inFlight # "none",
         NEW to \in {"executing", "executed", "result_recorded"},
         NEW ev \in {"none", "pass", "fail"},
         NEW rg \in [StepIds -> {"absent", "missing", "pass", "fail"}],
         NEW q \in ProofGhosts, ProofFits(Moved(t, to, ev, rg), q)
  PROVE  LET n == Moved(t, to, ev, rg) IN
         /\ Fits(n, Once(r, t.inFlight), q) /\ ~TaskOver(n)
         /\ n.round = t.round /\ n.inFlight = t.inFlight /\ n.steps[n.inFlight] = to
  <1> DEFINE n == Moved(t, to, ev, rg)
  <1>1. t \in TaskRecord /\ t.inFlight \in StepIds
    BY DEF Fits, TaskRecord
  <1>2. PICK st \in [StepIds -> StepStates] : st = [t.steps EXCEPT ![t.inFlight] = to]
    BY <1>1 DEF TaskRecord, StepStates
  <1>3. PICK es \in ProofGhosts : es = [t.evidence EXCEPT ![t.inFlight] = ev]
    BY <1>1 DEF TaskRecord, ProofGhosts
  <1>4. n = [t EXCEPT !.steps = st, !.evidence = es, !.registry = rg]
    BY <1>2, <1>3 DEF Moved
  <1>5. /\ n.steps = st /\ n.evidence = es /\ n.registry = rg
        /\ n.status = t.status /\ n.conversation = t.conversation /\ n.ctrl = t.ctrl
        /\ n.plan = t.plan /\ n.inFlight = t.inFlight /\ n.completed = t.completed
        /\ n.round = t.round /\ n \in TaskRecord
    <2> HIDE DEF n
    <2>1. es \in [StepIds -> {"none", "pass", "fail"}]
      BY DEF ProofGhosts
    <2> QED
      BY <1>1, <1>4, <2>1 DEF TaskRecord
  <1>6. st[t.inFlight] = to /\ \A x \in StepIds : x # t.inFlight => st[x] = t.steps[x]
    BY <1>1, <1>2 DEF TaskRecord
  <1> HIDE DEF n
  <1>7. RanFits(n, Once(r, t.inFlight))
    BY <1>1, <1>5, <1>6 DEF RanFits, Fits, RanGhosts, Once
  <1>8. FlightFits(n)
    <2>1. ResolveStep(n) = ResolveStep(t)
      BY <1>5 DEF ResolveStep
    <2> QED
      BY <1>1, <1>5, <1>6, <2>1 DEF FlightFits, Fits, TaskRecord
  <1> QED
    BY <1>5, <1>6, <1>7, <1>8 DEF Fits, TaskOver, Earned, n

Marked(t) == [t EXCEPT !.steps[t.inFlight] = "executing"]
Counted(r, s) == [r EXCEPT ![s] = @ + 1]
\* "executing" is in the file before the executor is called.
LEMMA MarkFits ==
  ASSUME NEW r \in RanGhosts, NEW p \in ProofGhosts, NEW t, Fits(t, r, p), ~TaskOver(t),
         t.inFlight # "none", t.steps[t.inFlight] = "received",
         NEW n, n = Marked(t)
  PROVE  /\ Fits(n, Counted(r, t.inFlight), p) /\ ~TaskOver(n)
         /\ n.round = t.round /\ n.inFlight = t.inFlight /\ n.steps[n.inFlight] = "executing"
  <1>1. t \in TaskRecord /\ t.inFlight \in StepIds
    BY DEF Fits, TaskRecord
  <1>2. Counted(r, t.inFlight) = Once(r, t.inFlight)
    <2>1. r[t.inFlight] = 0
      BY <1>1 DEF Fits, RanFits
    <2> QED
      BY <1>1, <2>1 DEF Counted, Once
  <1>3. PICK ev \in {"none", "pass", "fail"} : ev = t.evidence[t.inFlight]
    BY <1>1 DEF TaskRecord
  <1>4. PICK rg \in [StepIds -> {"absent", "missing", "pass", "fail"}] : rg = t.registry
    BY <1>1 DEF TaskRecord
  <1>5. n = Moved(t, "executing", ev, rg)
    BY <1>1, <1>3, <1>4 DEF TaskRecord, Moved, Marked
  <1>6. ProofFits(n, p)
    <2>1. /\ n.inFlight = t.inFlight /\ n.registry = t.registry
          /\ n.steps[t.inFlight] = "executing"
      BY <1>1 DEF TaskRecord, Marked
    <2> QED
      BY <1>1, <2>1 DEF Fits, ProofFits, Unapplied
  <1>7. /\ Fits(n, Once(r, t.inFlight), p) /\ ~TaskOver(n)
        /\ n.round = t.round /\ n.inFlight = t.inFlight /\ n.steps[n.inFlight] = "executing"
    BY <1>3, <1>4, <1>5, <1>6, StepMoves
  <1> QED
    BY <1>2, <1>7

Answered(t, ev) == [t EXCEPT !.steps[t.inFlight] = "executed", !.evidence[t.inFlight] = ev]
Proven(p, s, ev) == [p EXCEPT ![s] = IF ev = "none" THEN @ ELSE ev]
\* The executor's answer is the last evidence there is, or leaves the last one.
LEMMA ExecutedFits ==
  ASSUME NEW r \in RanGhosts, NEW p \in ProofGhosts, NEW t, Fits(t, r, p), ~TaskOver(t),
         t.inFlight # "none", t.steps[t.inFlight] = "executing",
         NEW ev \in {"none", "pass", "fail"},
         NEW n, n = Answered(t, ev), NEW q, q = Proven(p, t.inFlight, ev)
  PROVE  q \in ProofGhosts /\ Fits(n, r, q) /\ ~TaskOver(n) /\ n.round = t.round
  <1>1. t \in TaskRecord /\ t.inFlight \in StepIds
    BY DEF Fits, TaskRecord
  <1>2. Once(r, t.inFlight) = r
    BY <1>1 DEF Fits, RanFits, RanGhosts, Once
  <1>3. /\ q \in ProofGhosts /\ q[t.inFlight] = IF ev = "none" THEN p[t.inFlight] ELSE ev
        /\ \A a \in StepIds : a # t.inFlight => q[a] = p[a]
    BY <1>1 DEF ProofGhosts, Proven
  <1>4. PICK rg \in [StepIds -> {"absent", "missing", "pass", "fail"}] : rg = t.registry
    BY <1>1 DEF TaskRecord
  <1>5. n = Moved(t, "executed", ev, rg)
    BY <1>1, <1>4 DEF TaskRecord, Moved, Answered
  <1>6. ProofFits(n, q)
    <2>1. /\ n.inFlight = t.inFlight /\ n.registry = t.registry
          /\ n.steps[t.inFlight] = "executed" /\ n.evidence[t.inFlight] = ev
      BY <1>1 DEF TaskRecord, Answered
    <2>2. \A a \in StepIds : t.registry[a] = "pass" => p[a] = "pass"
      BY DEF Fits, ProofFits, Unapplied
    <2> QED
      BY <1>1, <1>3, <2>1, <2>2 DEF ProofFits, Unapplied
  <1>7. Fits(n, Once(r, t.inFlight), q) /\ ~TaskOver(n) /\ n.round = t.round
    BY <1>3, <1>4, <1>5, <1>6, StepMoves
  <1> QED
    BY <1>2, <1>3, <1>7

\* applyEvidence: the registry says pass only on the evidence the step gave.
LEMMA RecordFits ==
  ASSUME NEW r \in RanGhosts, NEW p \in ProofGhosts, NEW t, Fits(t, r, p), ~TaskOver(t),
         t.inFlight # "none", t.steps[t.inFlight] = "executed",
         NEW n, n = [t EXCEPT !.steps[t.inFlight] = "result_recorded",
                              !.registry = ApplyEvidence(t, t.inFlight)]
  PROVE  Fits(n, r, p) /\ ~TaskOver(n) /\ n.round = t.round
  <1>1. t \in TaskRecord /\ t.inFlight \in StepIds
    BY DEF Fits, TaskRecord
  <1>2. Once(r, t.inFlight) = r
    BY <1>1 DEF Fits, RanFits, RanGhosts, Once
  <1>3. PICK ev \in {"none", "pass", "fail"} : ev = t.evidence[t.inFlight]
    BY <1>1 DEF TaskRecord
  <1>4. PICK rg : rg = ApplyEvidence(t, t.inFlight)
    OBVIOUS
  <1>5. rg \in [StepIds -> {"absent", "missing", "pass", "fail"}]
    BY <1>1, <1>3, <1>4 DEF TaskRecord, ApplyEvidence
  <1>6. n = Moved(t, "result_recorded", ev, rg)
    BY <1>1, <1>3, <1>4 DEF TaskRecord, Moved
  <1>7. ProofFits(n, p)
    <2>1. /\ n.inFlight = t.inFlight /\ n.registry = rg
          /\ n.steps[t.inFlight] = "result_recorded"
      BY <1>1, <1>4, <1>5 DEF TaskRecord
    <2>2. \A a \in StepIds : rg[a] = "pass" => p[a] = "pass"
      <3>1. ev # "none" => p[t.inFlight] = ev
        BY <1>1, <1>3 DEF Fits, ProofFits, Unapplied
      <3>2. \A a \in StepIds \ {t.inFlight} : rg[a] = "pass" => p[a] = "pass"
        BY <1>1, <1>4 DEF Fits, ProofFits, Unapplied, ApplyEvidence, TaskRecord
      <3>3. rg[t.inFlight] = "pass" => p[t.inFlight] = "pass"
        <4>1. CASE ev = "none"
          BY <1>1, <1>3, <1>4, <4>1 DEF Fits, ProofFits, Unapplied, ApplyEvidence
        <4>2. CASE ev # "none"
          BY <1>1, <1>3, <1>4, <3>1, <4>2 DEF ApplyEvidence, TaskRecord
        <4> QED
          BY <4>1, <4>2
      <3> QED
        BY <3>2, <3>3
    <2> QED
      BY <1>1, <2>1, <2>2 DEF ProofFits, Unapplied
  <1> QED
    BY <1>2, <1>5, <1>6, <1>7, StepMoves

\* The Brain reviews the RESULT of the step in flight and says what is next.
LEMMA ReviewFits ==
  ASSUME NEW r \in RanGhosts, NEW p \in ProofGhosts, NEW t, Fits(t, r, p), ~TaskOver(t),
         t.inFlight # "none", t.steps[t.inFlight] = "result_recorded", t.round < MaxRounds,
         NEW c \in Controls,
         NEW n, n = [t EXCEPT !.ctrl = c, !.steps[t.inFlight] = "reviewed",
                              !.inFlight = "none", !.completed = @ \cup {t.inFlight},
                              !.round = @ + 1]
  PROVE  Fits(n, r, p) /\ ~TaskOver(n)
  <1>1. t \in TaskRecord /\ t.inFlight \in StepIds
    BY DEF Fits, TaskRecord
  <1>2. PICK st \in [StepIds -> StepStates] : st = [t.steps EXCEPT ![t.inFlight] = "reviewed"]
    BY <1>1 DEF TaskRecord, StepStates
  <1>3. PICK done \in SUBSET StepIds : done = t.completed \cup {t.inFlight}
    BY <1>1 DEF TaskRecord
  <1>4. PICK k \in 0 .. MaxRounds : k = t.round + 1
    BY <1>1, TaskValues DEF TaskRecord
  <1>5. n = [t EXCEPT !.ctrl = c, !.steps = st, !.inFlight = "none", !.completed = done,
                      !.round = k]
    BY <1>2, <1>3, <1>4
  <1>6. /\ n.steps = st /\ n.inFlight = "none" /\ n.completed = done
        /\ n.registry = t.registry /\ n.evidence = t.evidence /\ n.status = t.status
        /\ n \in TaskRecord
    <2>1. /\ n.steps = st /\ n.inFlight = "none" /\ n.completed = done
          /\ n.registry = t.registry /\ n.evidence = t.evidence /\ n.status = t.status
      BY <1>1, <1>5 DEF TaskRecord
    <2>2. PICK m \in TaskRecord : m = [t EXCEPT !.steps = st, !.completed = done]
      BY <1>1 DEF TaskRecord
    <2>3. n = [m EXCEPT !.ctrl = c, !.inFlight = "none", !.round = k]
      BY <1>1, <1>5, <2>2 DEF TaskRecord
    <2>4. n \in TaskRecord
      BY <2>3, ZenonT(60) DEF TaskRecord
    <2> QED BY <2>1, <2>4
  <1>7. st[t.inFlight] = "reviewed" /\ \A x \in StepIds : x # t.inFlight => st[x] = t.steps[x]
    BY <1>1, <1>2 DEF TaskRecord
  <1>8. RanFits(n, r)
    BY <1>1, <1>6, <1>7 DEF RanFits, Fits
  <1>9. FlightFits(n)
    BY <1>1, <1>3, <1>6, <1>7 DEF FlightFits, Fits
  <1>10. ProofFits(n, p)
    BY <1>1, <1>6, <1>7, TaskValues DEF ProofFits, Fits, Unapplied
  <1> QED
    BY <1>6, <1>8, <1>9, <1>10 DEF Fits, TaskOver, Earned

\* With nothing in flight the control and the plan may change, and the status to what the
\* gate allows.
LEMMA QuietFits ==
  ASSUME NEW r \in RanGhosts, NEW p \in ProofGhosts, NEW t, Fits(t, r, p),
         NEW n \in TaskRecord, t.inFlight = "none" \/ (n.ctrl = t.ctrl /\ n.plan = t.plan),
         n.inFlight = t.inFlight, n.steps = t.steps, n.evidence = t.evidence,
         n.completed = t.completed, n.registry = t.registry, n.round = t.round,
         t.conversation => n.conversation,
         n.status = "completed" => n.inFlight = "none" /\ Gate(n)
  PROVE  Fits(n, r, p)
  <1>1. RanFits(n, r) /\ ProofFits(n, p)
    BY DEF Fits, RanFits, ProofFits, Unapplied
  <1>2. FlightFits(n)
    BY DEF Fits, FlightFits, ResolveStep
  <1> QED
    BY <1>1, <1>2 DEF Fits, Earned

\* A task whose status alone changes, not to completed, and one that the gate completes.
LEMMA StatusFits ==
  ASSUME NEW r \in RanGhosts, NEW p \in ProofGhosts, NEW t, Fits(t, r, p),
         NEW x \in {"running", "awaiting_user", "recovery_required", "completed", "cancelled"},
         x = "completed" => t.inFlight = "none" /\ Gate(t)
  PROVE  Fits([t EXCEPT !.status = x], r, p)
  <1>1. PICK n : n = [t EXCEPT !.status = x]
    OBVIOUS
  <1>2. t \in TaskRecord
    BY DEF Fits
  <1>3. /\ n \in TaskRecord /\ n.status = x /\ n.ctrl = t.ctrl /\ n.plan = t.plan
        /\ n.inFlight = t.inFlight /\ n.steps = t.steps /\ n.evidence = t.evidence
        /\ n.completed = t.completed /\ n.registry = t.registry /\ n.round = t.round
        /\ n.conversation = t.conversation /\ n.optional = t.optional
    BY <1>1, <1>2 DEF TaskRecord
  <1>4. Gate(n) <=> Gate(t)
    BY <1>3 DEF Gate
  <1> QED
    BY <1>1, <1>3, <1>4, QuietFits

\* What a call leaves: the invariant, when its record and the file it wrote fit.
LEMMA CallKeeps ==
  ASSUME LegacyInv, NEW h \in Hosts, \A g \in Hosts \ {h} : Awaits(g, "idle"),
         NEW k \in ServiceCalls, service' = [service EXCEPT ![h] = k],
         ran' \in RanGhosts, proof' \in ProofGhosts, FileFits', CallFits(k, taskFile')
  PROVE  LegacyInv'
  <1>1. service' \in [Hosts -> ServiceCalls] /\ service'[h] = k
        /\ \A g \in Hosts \ {h} : service'[g] = service[g] /\ service[g].pc = "idle"
    BY DEF LegacyInv, Awaits
  <1>2. \A g \in Hosts : CallFits(service'[g], taskFile')
    BY <1>1 DEF CallFits
  <1> QED
    BY <1>1, <1>2 DEF LegacyInv, Awaits

\* Only one call is in progress: Room leaves none, and a call in progress is alone.
LEMMA OneCall ==
  ASSUME MaxHosts = 1, LegacyInv, NEW h \in Hosts, Room(h) \/ ~Awaits(h, "idle")
  PROVE  /\ \A g \in Hosts \ {h} : Awaits(g, "idle")
         /\ Room(h) => \A g \in Hosts : Awaits(g, "idle")
  <1>1. CASE ~Awaits(h, "idle")
    BY <1>1 DEF LegacyInv, Room
  <1>2. CASE Room(h)
    <2> SUFFICES ASSUME NEW g \in Hosts, ~Awaits(g, "idle") PROVE FALSE
      BY <1>2
    <2>1. {f \in Hosts : ~Awaits(f, "idle")} = {g}
      BY DEF LegacyInv
    <2>2. Cardinality({g}) = 1
      BY FS_Singleton
    <2> QED
      BY <1>2, <2>1, <2>2 DEF Room
  <1> QED
    BY <1>1, <1>2

\* Persisted: the call is over or back in the engine.
LEMMA PersistKeeps ==
  ASSUME MaxHosts = 1, LegacyInv, NEW h \in Hosts, ~Awaits(h, "idle"),
         NEW t, NEW stop \in BOOLEAN, Persisted(h, t, stop),
         ran' \in RanGhosts, proof' \in ProofGhosts, Fits(t, ran', proof'),
         stop \/ ~TaskOver(t)
  PROVE  LegacyInv'
  <1>1. \A g \in Hosts \ {h} : Awaits(g, "idle")
    BY OneCall
  <1>2. t \in TaskRecord /\ t # None
    BY TaskValues DEF Fits
  <1>3. taskFile' = t /\ FileFits'
    BY DEF Persisted, FileFits
  <1>4. CASE stop \/ service[h].op = "advance"
    <2>1. service' = [service EXCEPT ![h] = Unused] /\ CallFits(Unused, t)
      BY <1>4 DEF Persisted, CallFits, Unused
    <2> QED
      BY <1>1, <1>3, <2>1, CallKeeps, TaskValues
  <1>5. CASE ~(stop \/ service[h].op = "advance")
    <2>1. PICK k : k = [service[h] EXCEPT !.pc = "engine", !.task = t]
      OBVIOUS
    <2>2. service[h] \in ServiceCalls
      BY DEF LegacyInv
    <2>3. k \in ServiceCalls /\ k.pc = "engine" /\ k.op = service[h].op /\ k.task = t
      BY <1>2, <2>1, <2>2 DEF ServiceCalls
    <2>4. service' = [service EXCEPT ![h] = k]
      BY <1>5, <2>1 DEF Persisted, Goes
    <2>5. CallFits(k, t)
      BY <1>2, <1>5, <2>3 DEF CallFits
    <2> QED
      BY <1>1, <1>3, <2>3, <2>4, <2>5, CallKeeps
  <1> QED
    BY <1>4, <1>5

\* Goes: the call waits at pc with what is in the file.
LEMMA GoesKeeps ==
  ASSUME MaxHosts = 1, LegacyInv, NEW h \in Hosts, ~Awaits(h, "idle"), NEW t,
         NEW pc \in {"engine", "goal", "execute", "review", "next"}, Goes(h, pc, t),
         taskFile' = t, ran' \in RanGhosts, proof' \in ProofGhosts, Fits(t, ran', proof'),
         ~TaskOver(t), service[h].op = "advance" => t.round < MaxRounds,
         pc \in {"goal", "next"} => t.inFlight = "none",
         pc = "execute" => t.inFlight # "none" /\ t.steps[t.inFlight] = "executing",
         pc = "review" => /\ t.inFlight # "none" /\ t.round < MaxRounds
                          /\ t.steps[t.inFlight] = "result_recorded"
  PROVE  LegacyInv'
  <1>1. \A g \in Hosts \ {h} : Awaits(g, "idle")
    BY OneCall
  <1>2. t \in TaskRecord /\ t # None /\ FileFits'
    BY TaskValues DEF Fits, FileFits
  <1>3. PICK k : k = [service[h] EXCEPT !.pc = pc, !.task = t]
    OBVIOUS
  <1>4. service[h] \in ServiceCalls
    BY DEF LegacyInv
  <1>5. k \in ServiceCalls /\ k.pc = pc /\ k.op = service[h].op /\ k.task = t
    BY <1>2, <1>3, <1>4 DEF ServiceCalls
  <1>6. service' = [service EXCEPT ![h] = k]
    BY <1>3 DEF Goes
  <1>7. CallFits(k, t)
    BY <1>2, <1>5 DEF CallFits
  <1> QED
    BY <1>1, <1>2, <1>5, <1>6, <1>7, CallKeeps

\* The engine and what waits for an answer, seen from a call in progress: the file is
\* there, is what the call has, and is of a task that is not over.
Busy(h) == service[h].pc \in {"loaded", "engine", "goal", "execute", "review", "next"}
LEMMA BusyCall ==
  ASSUME LegacyInv, NEW h \in Hosts, Busy(h)
  PROVE  \E t : /\ t = service[h].task /\ t = taskFile /\ Fits(t, ran, proof) /\ ~TaskOver(t)
                /\ service[h].op = "advance" => t.round < MaxRounds
  BY DEF LegacyInv, Busy, CallFits, FileFits

\* What starts, reads the file, locks or ends a call.
LEMMA EntryKeeps ==
  ASSUME MaxHosts = 1, LegacyInv, NEW h \in Hosts,
         \/ \E adopted \in BOOLEAN : CreateTask(h, adopted)
         \/ StartTask(h) \/ ResumeTask(h) \/ LoadResumed(h) \/ AdvanceTask(h) \/ LockAdvance(h)
         \/ CancelTask(h) \/ CallEnds(h) \/ EngineEnds(h)
  PROVE  LegacyInv'
  <1> DEFINE started(t) == [op |-> "start", pc |-> "engine", task |-> t]
             resumed == [op |-> "resume", pc |-> "bound", task |-> None]
             advancing(t) == [op |-> "advance", pc |-> "loaded", task |-> t]
  <1>1. /\ ran \in RanGhosts /\ proof \in ProofGhosts /\ FileFits
        /\ \A g \in Hosts : service[g] \in ServiceCalls
    BY DEF LegacyInv
  <1>2. ASSUME Room(h), ran' = ran, proof' = proof, service' = service, FileFits'
        PROVE  LegacyInv'
    <2>1. \A g \in Hosts : Awaits(g, "idle") /\ CallFits(service[g], taskFile')
      BY <1>2, OneCall DEF CallFits, Awaits
    <2> QED
      BY <1>2, <2>1 DEF LegacyInv, Awaits
  <1>3. CASE \E adopted \in BOOLEAN : CreateTask(h, adopted)
    <2>1. PICK adopted \in BOOLEAN : CreateTask(h, adopted)
      BY <1>3
    <2>2. Fits(NewTask(adopted), ran', proof')
      BY <1>1, <2>1, NewTaskFits, TaskValues DEF CreateTask, FileFits, Fits
    <2> QED
      BY <1>2, <2>1, <2>2 DEF CreateTask, FileFits
  <1>4. CASE StartTask(h)
    <2>1. PICK t : t = NewTask(FALSE)
      OBVIOUS
    <2>2. t \in TaskRecord /\ t # None /\ ~TaskOver(t) /\ Fits(t, ran, proof)
      BY <1>1, <1>4, <2>1, NewTaskFits, TaskValues DEF StartTask, FileFits, Fits
    <2>3. taskFile' = t /\ ran' = ran /\ proof' = proof /\ FileFits'
      BY <1>4, <2>1, <2>2 DEF StartTask, FileFits
    <2>4. started(t) \in ServiceCalls /\ CallFits(started(t), t)
      BY <2>2 DEF ServiceCalls, CallFits
    <2>5. service' = [service EXCEPT ![h] = started(t)]
      BY <1>4, <2>1 DEF StartTask, Begins
    <2>6. \A g \in Hosts \ {h} : Awaits(g, "idle")
      BY <1>4, OneCall DEF StartTask
    <2> HIDE DEF started
    <2> QED
      BY <1>1, <2>3, <2>4, <2>5, <2>6, CallKeeps
  <1>5. CASE ResumeTask(h)
    <2>1. resumed \in ServiceCalls /\ CallFits(resumed, taskFile)
      BY <1>5 DEF ServiceCalls, CallFits, ResumeTask
    <2>2. service' = [service EXCEPT ![h] = resumed] /\ UNCHANGED <<taskFile, ran, proof>>
      BY <1>5 DEF ResumeTask, Begins
    <2>3. FileFits' /\ \A g \in Hosts \ {h} : Awaits(g, "idle")
      BY <1>1, <1>5, <2>2, OneCall DEF ResumeTask, FileFits
    <2> HIDE DEF resumed
    <2> QED
      BY <1>1, <2>1, <2>2, <2>3, CallKeeps
  <1>6. CASE AdvanceTask(h)
    <2>1. taskFile # None /\ ~TaskOver(taskFile) /\ Fits(taskFile, ran, proof) /\ Room(h)
          /\ ran' = ran /\ proof' = proof
      BY <1>1, <1>6 DEF AdvanceTask, FileFits
    <2>2. CASE NeedsRecovery(taskFile)
      <3>1. taskFile' = [taskFile EXCEPT !.status = "recovery_required"] /\ service' = service
        BY <1>6, <2>2 DEF AdvanceTask
      <3>2. Fits(taskFile', ran, proof)
        BY <1>1, <2>1, <3>1, StatusFits
      <3> QED
        BY <1>2, <2>1, <3>1, <3>2 DEF FileFits
    <2>3. CASE ~NeedsRecovery(taskFile)
      <3>1. service' = [service EXCEPT ![h] = advancing(taskFile)] /\ taskFile' = taskFile
        BY <1>6, <2>3 DEF AdvanceTask, Begins
      <3>2. advancing(taskFile) \in ServiceCalls /\ CallFits(advancing(taskFile), taskFile)
        BY <1>6, <2>1 DEF ServiceCalls, CallFits, Fits, AdvanceTask
      <3>3. FileFits' /\ \A g \in Hosts \ {h} : Awaits(g, "idle")
        BY <1>1, <2>1, <3>1, OneCall DEF FileFits
      <3> HIDE DEF advancing
      <3> QED
        BY <1>1, <2>1, <3>1, <3>2, <3>3, CallKeeps
    <2> QED
      BY <2>2, <2>3
  <1>7. CASE LoadResumed(h)
    <2>1. /\ ~Awaits(h, "idle") /\ ran' = ran /\ proof' = proof
          /\ taskFile # None /\ service[h].op = "resume"
      BY <1>7 DEF LoadResumed, Awaits, LegacyInv, CallFits
    <2>2. PICK t : t = taskFile /\ Fits(t, ran, proof)
      BY <1>1, <2>1 DEF FileFits
    <2>3. CASE TaskOver(t)
      <3>1. Persisted(h, t, TRUE)
        BY <1>7, <2>2, <2>3 DEF LoadResumed
      <3> QED
        BY <1>1, <2>1, <2>2, <3>1, PersistKeeps
    <2>4. CASE ~TaskOver(t) /\ NeedsRecovery(t)
      <3>1. PICK n : n = [t EXCEPT !.status = "recovery_required"]
        OBVIOUS
      <3>2. Fits(n, ran, proof)
        BY <1>1, <2>2, <3>1, StatusFits
      <3>3. Persisted(h, n, TRUE)
        BY <1>7, <2>2, <2>4, <3>1 DEF LoadResumed
      <3> QED
        BY <1>1, <2>1, <3>2, <3>3, PersistKeeps
    <2>5. CASE ~TaskOver(t) /\ ~NeedsRecovery(t)
      <3>1. Goes(h, "engine", t) /\ taskFile' = t
        BY <1>7, <2>2, <2>5 DEF LoadResumed
      <3> QED
        BY <1>1, <2>1, <2>2, <2>5, <3>1, GoesKeeps
    <2> QED
      BY <2>3, <2>4, <2>5
  <1>8. CASE LockAdvance(h)
    <2>1. Busy(h) /\ ~Awaits(h, "idle")
      BY <1>8 DEF LockAdvance, Awaits, Busy
    <2>2. PICK t : /\ t = service[h].task /\ t = taskFile /\ Fits(t, ran, proof)
                   /\ ~TaskOver(t) /\ (service[h].op = "advance" => t.round < MaxRounds)
      BY <2>1, BusyCall
    <2>3. Goes(h, "engine", t) /\ taskFile' = t /\ ran' = ran /\ proof' = proof
      BY <1>8, <2>2 DEF LockAdvance
    <2> QED
      BY <1>1, <2>1, <2>2, <2>3, GoesKeeps
  <1>9. CASE CancelTask(h)
    <2>1. /\ Room(h) /\ service' = service /\ ran' = ran /\ proof' = proof
          /\ taskFile' = [taskFile EXCEPT !.status = "cancelled"]
          /\ Fits(taskFile, ran, proof)
      BY <1>1, <1>9 DEF CancelTask, FileFits
    <2>2. Fits(taskFile', ran, proof)
      BY <1>1, <2>1, StatusFits
    <2> QED
      BY <1>2, <2>1, <2>2 DEF FileFits
  <1>10. CASE CallEnds(h) \/ EngineEnds(h)
    <2>1. /\ ~Awaits(h, "idle") /\ service' = [service EXCEPT ![h] = Unused]
          /\ UNCHANGED <<taskFile, ran, proof>>
      BY <1>10 DEF CallEnds, EngineEnds, Awaits
    <2>2. FileFits' /\ CallFits(Unused, taskFile) /\ \A g \in Hosts \ {h} : Awaits(g, "idle")
      BY <1>1, <2>1, OneCall DEF FileFits, CallFits, Unused
    <2> QED
      BY <1>1, <2>1, <2>2, CallKeeps, TaskValues
  <1> QED
    BY <1>3, <1>4, <1>5, <1>6, <1>7, <1>8, <1>9, <1>10

\* What the engine does with a control, and what comes back: each leaves in the file what
\* happened.
LEMMA WorkKeeps ==
  ASSUME MaxHosts = 1, LegacyInv, NEW h \in Hosts,
         \/ SendGoal(h) \/ Concludes(h) \/ HandlePlan(h) \/ IssueStep(h) \/ BeginExecute(h)
         \/ \E ev \in {"pass", "fail", "none"} : Executed(h, ev)
         \/ RecordResult(h) \/ SendResult(h)
         \/ \E c \in Replies : BrainReplies(h, c)
  PROVE  LegacyInv'
  <1>1. Busy(h) /\ ~Awaits(h, "idle")
    BY DEF SendGoal, Concludes, HandlePlan, IssueStep, BeginExecute, Executed, RecordResult,
       SendResult, BrainReplies, InFlight, Working, Engine, Awaits, Busy
  <1>2. PICK t : /\ t = service[h].task /\ t = taskFile /\ Fits(t, ran, proof)
                 /\ ~TaskOver(t) /\ (service[h].op = "advance" => t.round < MaxRounds)
    BY <1>1, BusyCall
  <1>3. ran \in RanGhosts /\ proof \in ProofGhosts
    BY DEF LegacyInv
  <1>4. t \in TaskRecord /\ (t.inFlight # "none" => t.inFlight \in StepIds)
    BY <1>2 DEF Fits, TaskRecord
  <1>5. Awaits(h, "engine") /\ Engine(h) => t.round < MaxRounds
    BY <1>2, <1>4, TaskValues DEF Engine, EngineStops, TaskRecord
  <1>6. t.inFlight = "none" \/ (t.conversation /\ t.ctrl.kind \in {"TASK", "REVISE"})
    BY <1>2 DEF Fits, FlightFits
  <1>7. CASE SendGoal(h)
    <2>1. Goes(h, "goal", t) /\ taskFile' = t /\ ran' = ran /\ proof' = proof
          /\ t.inFlight = "none"
      BY <1>2, <1>6, <1>7 DEF SendGoal
    <2> QED
      BY <1>1, <1>2, <1>3, <2>1, GoesKeeps
  <1>8. CASE Concludes(h)
    <2>1. PICK x \in {"completed", "awaiting_user", "recovery_required"} :
            /\ x = IF t.ctrl.kind = "DONE" THEN (IF Gate(t) THEN "completed" ELSE "awaiting_user")
                    ELSE IF t.ctrl.kind = "ASK_USER" THEN "awaiting_user" ELSE "recovery_required"
            /\ x = "completed" => t.inFlight = "none" /\ Gate(t)
      BY <1>6
    <2>2. Persisted(h, [t EXCEPT !.status = x], TRUE) /\ ran' = ran /\ proof' = proof
      BY <1>2, <1>8, <2>1 DEF Concludes, HandleDone
    <2>3. Fits([t EXCEPT !.status = x], ran, proof)
      BY <1>2, <1>3, <2>1, StatusFits
    <2> QED
      BY <1>1, <1>3, <2>2, <2>3, PersistKeeps
  <1>9. CASE HandlePlan(h)
    <2>1. PICK plan \in SUBSET PlanSteps :
            plan = IF t.ctrl.gives THEN t.ctrl.plan ELSE t.plan
      BY <1>4 DEF TaskRecord, Controls
    <2>2. PICK x : x = IF t.ctrl.kind = "PLAN" THEN "running" ELSE t.status
      OBVIOUS
    <2>3. PICK n : n = [t EXCEPT !.plan = plan, !.status = x]
      OBVIOUS
    <2>4. /\ Goes(h, "next", n) /\ taskFile' = n /\ ran' = ran /\ proof' = proof
          /\ t.inFlight = "none"
      BY <1>2, <1>6, <1>9, <2>1, <2>2, <2>3 DEF HandlePlan
    <2>5. /\ n \in TaskRecord /\ n.status = x /\ n.plan = plan /\ n.ctrl = t.ctrl
          /\ n.inFlight = t.inFlight /\ n.steps = t.steps /\ n.evidence = t.evidence
          /\ n.completed = t.completed /\ n.registry = t.registry /\ n.round = t.round
          /\ n.conversation = t.conversation
      BY <1>4, <2>2, <2>3 DEF TaskRecord
    <2>6. ~TaskOver(n) /\ n.status # "completed"
      BY <1>2, <2>2, <2>5 DEF TaskOver
    <2>7. Fits(n, ran, proof)
      BY <1>2, <1>3, <2>4, <2>5, <2>6, QuietFits
    <2> QED
      BY <1>1, <1>2, <1>3, <2>4, <2>5, <2>6, <2>7, GoesKeeps
  <1>10. CASE IssueStep(h)
    <2>1. PICK s \in StepIds :
            /\ Engine(h) /\ t.conversation /\ t.ctrl.kind \in {"TASK", "REVISE"}
            /\ s = ResolveStep(t)
            /\ ActiveStatus(t) = "reviewed" \/ (Planned(t, s) /\ t.steps[s] = "reviewed")
            /\ Persisted(h, Issued(t, s), FALSE) /\ ran' = [ran EXCEPT ![s] = 0]
            /\ proof' = proof
      BY <1>2, <1>10 DEF IssueStep, Working
    <2>2. Fits(Issued(t, s), ran', proof') /\ ~TaskOver(Issued(t, s)) /\ ran' \in RanGhosts
      BY <1>2, <1>3, <2>1, IssueFits DEF RanGhosts
    <2> QED
      BY <1>1, <1>3, <2>1, <2>2, PersistKeeps
  <1>11. CASE BeginExecute(h)
    <2>1. PICK n : n = Marked(t)
      OBVIOUS
    <2>2. /\ t.inFlight # "none" /\ t.steps[t.inFlight] = "received"
          /\ Goes(h, "execute", n) /\ taskFile' = n /\ proof' = proof
          /\ ran' = Counted(ran, t.inFlight)
      BY <1>2, <1>11, <2>1 DEF BeginExecute, InFlight, ActiveStatus, MarkExecuting, Marked, Counted
    <2>3. /\ Fits(n, ran', proof') /\ ~TaskOver(n) /\ n.round = t.round
          /\ n.inFlight # "none" /\ n.steps[n.inFlight] = "executing"
      BY <1>2, <1>3, <2>1, <2>2, MarkFits
    <2>4. ran' \in RanGhosts
      BY <1>2, <1>3, <1>4, <2>2 DEF RanGhosts, Fits, RanFits, Counted
    <2> QED
      BY <1>1, <1>2, <1>3, <2>2, <2>3, <2>4, GoesKeeps
  <1>12. CASE \E ev \in {"pass", "fail", "none"} : Executed(h, ev)
    <2>1. PICK ev \in {"pass", "fail", "none"} : Executed(h, ev)
      BY <1>12
    <2>2. PICK n : n = Answered(t, ev)
      OBVIOUS
    <2>3. PICK q : q = Proven(proof, t.inFlight, ev)
      OBVIOUS
    <2>4. Persisted(h, n, FALSE) /\ ran' = ran /\ proof' = q
      BY <1>2, <2>1, <2>2, <2>3 DEF Executed, Answered, Proven
    <2>5. t.inFlight # "none" /\ t.steps[t.inFlight] = "executing"
      BY <1>2, <2>1 DEF Executed, Awaits, LegacyInv, CallFits
    <2>6. q \in ProofGhosts /\ Fits(n, ran, q) /\ ~TaskOver(n)
      BY <1>2, <1>3, <2>1, <2>2, <2>3, <2>5, ExecutedFits
    <2> QED
      BY <1>1, <1>3, <2>4, <2>6, PersistKeeps
  <1>13. CASE RecordResult(h)
    <2>1. PICK n : n = [t EXCEPT !.steps[t.inFlight] = "result_recorded",
                                 !.registry = ApplyEvidence(t, t.inFlight)]
      OBVIOUS
    <2>2. /\ t.inFlight # "none" /\ t.steps[t.inFlight] = "executed"
          /\ Persisted(h, n, FALSE) /\ ran' = ran /\ proof' = proof
      BY <1>2, <1>13, <2>1 DEF RecordResult, InFlight, ActiveStatus
    <2>3. Fits(n, ran, proof) /\ ~TaskOver(n)
      BY <1>2, <1>3, <2>1, <2>2, RecordFits
    <2> QED
      BY <1>1, <1>3, <2>2, <2>3, PersistKeeps
  <1>14. CASE SendResult(h)
    <2>1. /\ t.inFlight # "none" /\ t.steps[t.inFlight] = "result_recorded"
          /\ Goes(h, "review", t) /\ taskFile' = t /\ ran' = ran /\ proof' = proof
      BY <1>2, <1>14 DEF SendResult, InFlight, ActiveStatus
    <2>2. Awaits(h, "engine") /\ Engine(h)
      BY <1>14 DEF SendResult, InFlight, Working, Engine
    <2> QED
      BY <1>1, <1>2, <1>3, <1>5, <2>1, <2>2, GoesKeeps
  <1>15. CASE \E c \in Replies : BrainReplies(h, c)
    <2>1. PICK c \in Controls : BrainReplies(h, c)
      BY <1>15, TaskValues
    <2>2. ran' = ran /\ proof' = proof
      BY <2>1 DEF BrainReplies
    <2>3. CASE Awaits(h, "review")
      <3>1. PICK n : n = [t EXCEPT !.ctrl = c, !.steps[t.inFlight] = "reviewed",
                                   !.inFlight = "none", !.completed = @ \cup {t.inFlight},
                                   !.round = @ + 1]
        OBVIOUS
      <3>2. Persisted(h, n, FALSE)
        BY <1>2, <1>4, <2>1, <2>3, <3>1 DEF BrainReplies, Awaits, TaskRecord
      <3>3. /\ t.inFlight # "none" /\ t.steps[t.inFlight] = "result_recorded"
            /\ t.round < MaxRounds
        BY <1>2, <2>3 DEF Awaits, LegacyInv, CallFits
      <3>4. Fits(n, ran, proof) /\ ~TaskOver(n)
        BY <1>2, <1>3, <3>1, <3>3, ReviewFits
      <3> QED
        BY <1>1, <1>3, <2>2, <3>2, <3>4, PersistKeeps
    <2>4. CASE Awaits(h, "goal") \/ Awaits(h, "next")
      <3>1. PICK n : n = IF Awaits(h, "goal") THEN [t EXCEPT !.ctrl = c, !.conversation = TRUE]
                         ELSE [t EXCEPT !.ctrl = c]
        OBVIOUS
      <3>2. Persisted(h, n, FALSE)
        BY <1>2, <1>4, <2>1, <2>4, <3>1 DEF BrainReplies, Awaits, TaskRecord
      <3>3. t.inFlight = "none"
        BY <1>2, <2>4 DEF Awaits, LegacyInv, CallFits
      <3>4. /\ n \in TaskRecord /\ n.status = t.status
            /\ n.inFlight = t.inFlight /\ n.steps = t.steps /\ n.evidence = t.evidence
            /\ n.completed = t.completed /\ n.registry = t.registry /\ n.round = t.round
            /\ t.conversation => n.conversation
        BY <1>4, <3>1 DEF TaskRecord
      <3>5. ~TaskOver(n) /\ n.status # "completed"
        BY <1>2, <3>4 DEF TaskOver
      <3>6. Fits(n, ran, proof)
        BY <1>2, <1>3, <3>3, <3>4, <3>5, QuietFits
      <3> QED
        BY <1>1, <1>3, <2>2, <3>2, <3>5, <3>6, PersistKeeps
    <2> QED
      BY <2>1, <2>3, <2>4 DEF BrainReplies, Awaits
  <1> QED
    BY <1>7, <1>8, <1>9, <1>10, <1>11, <1>12, <1>13, <1>14, <1>15

\* The invariant of the task file, one call of the service at a time.
LEMMA LegacyInvariant == ASSUME MaxHosts = 1 PROVE LegacySpec => []LegacyInv
  <1>1. LegacyInit => LegacyInv
    BY TaskValues DEF LegacyInit, LegacyInv, FileFits, CallFits, Unused, RanGhosts, ProofGhosts,
       Awaits
  <1>2. LegacyInv /\ [LegacyNext]_legacyVars => LegacyInv'
    <2> SUFFICES ASSUME LegacyInv, [LegacyNext]_legacyVars PROVE LegacyInv'
      OBVIOUS
    <2>1. CASE UNCHANGED legacyVars
      BY <2>1 DEF legacyVars, LegacyInv, FileFits, Awaits
    <2>2. CASE LegacyNext
      <3>1. PICK h \in Hosts :
              \/ \E adopted \in BOOLEAN : CreateTask(h, adopted)
              \/ StartTask(h) \/ ResumeTask(h) \/ LoadResumed(h) \/ AdvanceTask(h)
              \/ LockAdvance(h) \/ CancelTask(h) \/ CallEnds(h) \/ EngineEnds(h)
              \/ SendGoal(h) \/ Concludes(h) \/ HandlePlan(h) \/ IssueStep(h)
              \/ BeginExecute(h)
              \/ \E ev \in {"pass", "fail", "none"} : Executed(h, ev)
              \/ RecordResult(h) \/ SendResult(h)
              \/ \E c \in Replies : BrainReplies(h, c)
        BY <2>2 DEF LegacyNext
      <3> QED
        BY <3>1, EntryKeeps, WorkKeeps
    <2> QED
      BY <2>1, <2>2
  <1> QED
    BY <1>1, <1>2, PTL DEF LegacySpec

\* The state of a legacy task is well typed, its file and the copy of every call.
THEOREM LegacyTyped == ASSUME MaxHosts = 1 PROVE LegacySpec => []LegacyTypeOK
  <1> DEFINE LockTyped == taskLock \in Hosts \cup {"free"}
  <1>1. LegacyInit => LockTyped
    BY DEF LegacyInit
  <1>2. LockTyped /\ [LegacyNext]_legacyVars => LockTyped'
    <2> SUFFICES ASSUME LockTyped, [LegacyNext]_legacyVars
                 PROVE  taskLock' \in Hosts \cup {"free"}
      OBVIOUS
    <2>1. CASE UNCHANGED legacyVars
      BY <2>1 DEF legacyVars
    <2>2. CASE LegacyNext
      BY <2>2
         DEF LegacyNext, CreateTask, StartTask, ResumeTask, LoadResumed, AdvanceTask,
             LockAdvance, CancelTask, CallEnds, EngineEnds, SendGoal, Concludes, HandlePlan,
             IssueStep, BeginExecute, Executed, RecordResult, SendResult, BrainReplies, Persisted
    <2> QED
      BY <2>1, <2>2
  <1>3. LegacyInv /\ LockTyped => LegacyTypeOK
    <2> SUFFICES ASSUME LegacyInv, LockTyped PROVE LegacyTypeOK
      OBVIOUS
    <2>1. \A t \in {taskFile} \cup {service[h].task : h \in Hosts} :
            t # None => t \in TaskRecord
      BY DEF LegacyInv, FileFits, Fits, ServiceCalls
    <2>2. \A h \in Hosts : service[h].pc \in {"idle", "loaded", "bound", "engine", "goal",
                                             "execute", "review", "next"}
      BY DEF LegacyInv, ServiceCalls
    <2> QED
      BY <2>1, <2>2 DEF TaskRecord, StepStates, LegacyTypeOK
  <1> QED
    BY <1>1, <1>2, <1>3, LegacyInvariant, PTL DEF LegacySpec

\* However calls end or die, the executor is called at most once each time the Brain issues
\* a step: "executing" is in the file before the call, and such a task is not resumed.
THEOREM NoRerun == ASSUME MaxHosts = 1 PROVE LegacySpec => []NeverReruns
  <1>1. LegacyInv => NeverReruns
    BY DEF LegacyInv, RanGhosts, NeverReruns
  <1> QED
    BY <1>1, LegacyInvariant, PTL

\* A completed task has a pass as the last evidence of each acceptance its registry holds as
\* required, and its mandatory steps were executed and reviewed.
THEOREM CompletionEarned == ASSUME MaxHosts = 1 PROVE LegacySpec => []CompletedIsEarned
  <1>1. LegacyInv => CompletedIsEarned
    <2> SUFFICES ASSUME LegacyInv, taskFile # None, taskFile.status = "completed"
                 PROVE  /\ \A a \in StepIds \ taskFile.optional :
                             taskFile.registry[a] # "absent" => proof[a] = "pass"
                        /\ \A s \in taskFile.plan \cap Mandatory :
                             taskFile.steps[s] = "reviewed" /\ ran[s] = 1
      BY DEF CompletedIsEarned
    <2>1. Fits(taskFile, ran, proof) /\ taskFile.inFlight = "none" /\ Gate(taskFile)
      BY DEF LegacyInv, FileFits, Fits, Earned
    <2>2. \A a \in StepIds \ taskFile.optional :
                             taskFile.registry[a] # "absent" => proof[a] = "pass"
      BY <2>1, TaskValues DEF Fits, ProofFits, Unapplied, Gate
    <2>3. ASSUME NEW s \in taskFile.plan \cap Mandatory
          PROVE  taskFile.steps[s] = "reviewed" /\ ran[s] = 1
      <3>1. s \in taskFile.completed /\ s \in StepIds
        BY <2>1 DEF Gate, StepIds, Fits, TaskRecord
      <3> QED
        BY <2>1, <3>1, TaskValues DEF Fits, FlightFits, RanFits
    <2> QED
      BY <2>2, <2>3
  <1> QED
    BY <1>1, LegacyInvariant, PTL
=============================================================================
