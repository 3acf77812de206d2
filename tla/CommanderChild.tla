--------------------------- MODULE CommanderChild ----------------------------
(* local/desktop-commander-child.js, the supervisor of the Desktop Commander  *)
(* child, with the processes that local/process.js starts through it and the  *)
(* shutdown of mcp/server.js.  Pair g is the client and transport of the g-th *)
(* child; the supervisor holds one current pair at most, replaces a dead one  *)
(* at the next call and must leave no child behind.  Calls of several         *)
(* requests are in flight together: tools, readiness probes, the start of a   *)
(* process, and, in the slot of the start, the uses of its handle.            *)
EXTENDS Naturals, FiniteSets

CONSTANTS
  Calls,          \* calls of a tool, each made once
  MaxPairs        \* bound: children

ASSUME CommanderAssumption == MaxPairs \in Nat

VARIABLES
  pairs,          \* pairs[g]: the child: up, closing (closePair was called), gone
  held,           \* #client and #transport: the current pair, or 0
  status,         \* #state
  booting,        \* #startPromise: the pair that is being started, or 0
  shut,           \* #closed, and whether close() has returned
  calls,          \* calls[c]: [pc, pair, gaveUp, ending]
  handle,         \* handle[c]: the status of the process that call c started
  processService, \* ProcessService: open, closing (it terminates), closed
  blamed          \* ghost: pairs that failed, exited or were given up on

commanderVars == <<pairs, held, status, booting, shut, calls, handle, processService, blamed>>

Pairs == DOMAIN pairs

CommanderTypeOK ==
  /\ \A g \in Pairs : pairs[g] \in {"up", "closing", "gone"}
  /\ held \in {0} \cup Pairs /\ booting \in {0} \cup Pairs
  /\ status \in {"idle", "starting", "ready", "dead", "failed", "stopping", "stopped"}
  /\ shut \in {"no", "closing", "done"}
  /\ \A c \in Calls : calls[c].pair \in {0} \cup Pairs
  /\ handle \in [Calls -> {"none", "running", "completed", "terminated"}]
  /\ processService \in {"open", "closing", "closed"}
  /\ blamed \subseteq Pairs

CommanderInit ==
  /\ pairs = [g \in {} |-> "gone"] /\ held = 0 /\ booting = 0
  /\ status = "idle" /\ shut = "no"
  /\ calls = [c \in Calls |-> [pc |-> "idle", pair |-> 0, gaveUp |-> FALSE, ending |-> FALSE]]
  /\ handle = [c \in Calls |-> "none"] /\ processService = "open" /\ blamed = {}

\* closePair: the child is told to end, and ends later.
Closed(g) == IF g # 0 /\ pairs[g] = "up" THEN [pairs EXCEPT ![g] = "closing"] ELSE pairs

\* Mutant: a failure always ends the current pair.
MarkDeadMutant(g) ==
  IF shut = "no"
  THEN pairs' = Closed(held) /\ held' = 0 /\ status' = "dead"
  ELSE UNCHANGED <<pairs, held, status>>
\* #markDead, for a failure of pair g: only while it is the current pair.
MarkDead(g) ==
  IF shut = "no" /\ held = g
  THEN pairs' = Closed(held) /\ held' = 0 /\ status' = "dead"
  ELSE UNCHANGED <<pairs, held, status>>

EndCall(c, how) == calls' = [calls EXCEPT ![c].pc = how]

\* ensureReady for the calls C: a ready pair is used at once; else a start is begun, or
\* the one that runs is joined.
EnsureReady(C, ending) ==
  LET g == Cardinality(Pairs) + 1
      Goes(pc, pair) ==
        calls' = [c \in Calls |-> IF c \in C THEN [pc |-> pc, pair |-> pair, gaveUp |-> FALSE, ending |-> ending]
                                            ELSE calls[c]]
      ready == status = "ready" /\ held # 0
  IN \/ /\ shut # "no" /\ Goes("failed", 0)
        /\ UNCHANGED <<pairs, held, status, booting>>
     \/ /\ shut = "no" /\ ready /\ Goes("sent", held)
        /\ UNCHANGED <<pairs, held, status, booting>>
     \/ /\ shut = "no" /\ ~ready /\ booting # 0 /\ Goes("joined", 0)
        /\ UNCHANGED <<pairs, held, status, booting>>
     \/ /\ shut = "no" /\ ~ready /\ booting = 0 /\ g <= MaxPairs
        /\ pairs' = [x \in Pairs \cup {g} |-> IF x = g THEN "up" ELSE pairs[x]]
        /\ held' = g /\ booting' = g /\ status' = "starting" /\ Goes("joined", 0)

\* A tool call, or probeReady.
BeginCall(c) ==
  /\ calls[c].pc = "idle" /\ EnsureReady({c}, FALSE)
  /\ UNCHANGED <<shut, handle, processService, blamed>>

Pending == {c \in Calls : calls[c].pc \in {"joined", "sent"}}
Joined == {c \in Calls : calls[c].pc = "joined"}

\* #start after connect and validation; those who joined it go on, in one turn.
StartReady ==
  /\ booting # 0 /\ pairs[booting] = "up" /\ shut = "no" /\ held = booting
  /\ status' = "ready" /\ booting' = 0
  /\ calls' = [c \in Calls |-> IF c \in Joined THEN [calls[c] EXCEPT !.pc = "sent", !.pair = booting] ELSE calls[c]]
  /\ UNCHANGED <<pairs, held, shut, handle, processService, blamed>>

\* Mutant: the pair of a failed start is forgotten, not closed.
StartFailsMutant ==
  /\ booting # 0 /\ booting' = 0
  /\ held' = IF held = booting THEN 0 ELSE held
  /\ status' = IF shut = "no" THEN "failed" ELSE status
  /\ calls' = [c \in Calls |-> IF c \in Joined THEN [calls[c] EXCEPT !.pc = "failed"] ELSE calls[c]]
  /\ UNCHANGED <<pairs, shut, handle, processService, blamed>>
\* The catch block of #start, also for a start that came too late.  A tool call that
\* joined marks the pair dead as well, a probe does not.
StartFails ==
  /\ booting # 0
  /\ pairs' = Closed(booting) /\ blamed' = blamed \cup {booting}
  /\ held' = IF held = booting THEN 0 ELSE held
  /\ status' \in IF shut # "no" THEN {status} ELSE IF Joined = {} THEN {"failed"} ELSE {"failed", "dead"}
  /\ booting' = 0
  /\ calls' = [c \in Calls |-> IF c \in Joined THEN [calls[c] EXCEPT !.pc = "failed"] ELSE calls[c]]
  /\ UNCHANGED <<shut, handle, processService>>

\* A result.  ProcessService.start keeps a handle, and does not look whether the service
\* was closed meanwhile; readOutput may learn that the process completed.
CallReturns(c) ==
  /\ calls[c].pc = "sent" /\ pairs[calls[c].pair] = "up"
  /\ EndCall(c, "done")
  /\ \/ calls[c].ending /\ handle' = [handle EXCEPT ![c] = "terminated"]
     \/ ~calls[c].ending /\ ~calls[c].gaveUp /\ handle[c] = "none" /\ handle' = [handle EXCEPT ![c] = "running"]
     \/ ~calls[c].ending /\ handle[c] = "running" /\ handle' = [handle EXCEPT ![c] = "completed"]
     \/ ~calls[c].ending /\ UNCHANGED handle
  /\ UNCHANGED <<pairs, held, status, booting, shut, processService, blamed>>

\* The tool reports an error, or the call itself fails, or a probe finds the pair wrong:
\* then the pair is blamed.
CallFails(c) ==
  /\ calls[c].pc = "sent" /\ EndCall(c, "failed")
  /\ \/ pairs[calls[c].pair] = "up" /\ UNCHANGED <<pairs, held, status, blamed>>
     \/ blamed' = blamed \cup {calls[c].pair} /\ MarkDead(calls[c].pair)
  /\ UNCHANGED <<booting, shut, handle, processService>>

\* The child ends; onclose looks whether it was the current one.
ChildEnds(g) ==
  /\ pairs[g] # "gone"
  /\ pairs' = [pairs EXCEPT ![g] = "gone"] /\ blamed' = blamed \cup {g}
  /\ held' = IF held = g THEN 0 ELSE held
  /\ status' = IF held = g /\ shut = "no" THEN "dead" ELSE status
  /\ UNCHANGED <<booting, shut, calls, handle, processService>>

\* A probe or a structured read gives up waiting and calls recoverAfterTimeout, which
\* ends the pair that is current now, whichever the call was sent to.
RecoverAfterTimeout(c) ==
  /\ c \in Pending /\ ~calls[c].gaveUp /\ handle[c] = "none"
  /\ calls' = [calls EXCEPT ![c].gaveUp = TRUE]
  /\ IF shut # "no" THEN UNCHANGED <<pairs, held, status, blamed>>
     ELSE pairs' = Closed(held) /\ blamed' = blamed \cup ({held} \ {0}) /\ held' = 0 /\ status' = "dead"
  /\ UNCHANGED <<booting, shut, handle, processService>>

\* readOutput and terminate of a process: through whatever child is current.
UseHandle(c, ending) ==
  /\ processService = "open" /\ handle[c] = "running" /\ c \notin Pending
  /\ EnsureReady({c}, ending)
  /\ UNCHANGED <<shut, handle, processService, blamed>>

\* ProcessService.close: every running process is terminated through the child, which
\* may be started for it, and counts as terminated however that ends.  Clients that
\* are still using a handle have been waited for.
CloseService ==
  LET running == {c \in Calls : handle[c] = "running"} IN
  /\ processService = "open" /\ running \cap Pending = {}
  /\ processService' = "closing"
  /\ IF running = {} THEN UNCHANGED <<pairs, held, status, booting, calls>> ELSE EnsureReady(running, TRUE)
  /\ UNCHANGED <<shut, handle, blamed>>
ServiceClosed ==
  /\ processService = "closing" /\ {c \in Pending : calls[c].ending} = {}
  /\ processService' = "closed"
  /\ handle' = [c \in Calls |-> IF calls[c].ending THEN "terminated" ELSE handle[c]]
  /\ UNCHANGED <<pairs, held, status, booting, shut, calls, blamed>>

\* The server closes the child after the service.
CloseBegins ==
  /\ processService = "closed" /\ shut = "no" /\ shut' = "closing" /\ status' = "stopping"
  /\ UNCHANGED <<pairs, held, booting, calls, handle, processService, blamed>>

\* close() goes on once the start that ran has settled.
CloseEnds ==
  /\ shut = "closing" /\ booting = 0
  /\ pairs' = Closed(held) /\ blamed' = blamed \cup ({held} \ {0})
  /\ held' = 0 /\ status' = "stopped" /\ shut' = "done"
  /\ UNCHANGED <<booting, calls, handle, processService>>

CommanderNext ==
  \/ \E c \in Calls : BeginCall(c) \/ CallReturns(c) \/ CallFails(c) \/ RecoverAfterTimeout(c)
  \/ \E c \in Calls, ending \in BOOLEAN : UseHandle(c, ending)
  \/ StartReady \/ StartFails \/ CloseService \/ ServiceClosed \/ CloseBegins \/ CloseEnds
  \/ \E g \in Pairs : ChildEnds(g)

CommanderSpec == CommanderInit /\ [][CommanderNext]_commanderVars

------------------------------------------------------------------------------
(* A child is ended only for its own failure (desktop-commander-child.js:     *)
(* a late response from an old child must not kill a new generation): however *)
(* late the failure of a call, the pair that is closed is one that failed.    *)
OnlyBlamedChildEnds == \A g \in Pairs : pairs[g] # "up" => g \in blamed

(* close() leaves no child behind (desktop-commander-child.js close): also    *)
(* when a start was in flight, every child that was ever started has ended or *)
(* was told to, and no later call brings up another.  Before that, a child    *)
(* that was neither the current one nor ended does not exist.                 *)
NoChildIsLost ==
  /\ \A g \in Pairs : pairs[g] = "up" => g \in {held, booting}
  /\ shut = "done" => \A g \in Pairs : pairs[g] # "up"
==============================================================================
