------------------------- MODULE AppServerConnection -------------------------
(* executor/app-server-client.js: one client object over a succession of      *)
(* `codex app-server` children.  Callers of the executor connect and send     *)
(* requests; a child answers, exits, or is told to exit and exits later, and  *)
(* Node reports the end of its stdio ('close') later still.                   *)
EXTENDS Naturals, FiniteSets

CONSTANTS
  Callers,
  MaxKids,      \* bound: children
  MaxCalls      \* bound: requests

ASSUME ConnectionAssumption == MaxKids \in Nat /\ MaxCalls \in Nat

VARIABLES
  kids,         \* kids[k]: alive, told (to exit), exited, killed (by a signal), closed
  child,        \* this.child: the current one, 0 before the first
  exited, connected,
  waiting,      \* this.pending: [id, caller, kid, init]
  connecting,   \* connecting[c]: what connect() came to, for caller c
  ids           \* the id counter

connVars == <<kids, child, exited, connected, waiting, connecting, ids>>

Kids == DOMAIN kids
KidEnded(k) == kids[k] \in {"exited", "killed", "closed"}
\* isRunning; a child that a signal ended has no exit code.
IsRunning == ~exited /\ child # 0 /\ kids[child] # "exited"

ConnTypeOK ==
  /\ \A k \in Kids : kids[k] \in {"alive", "told", "exited", "killed", "closed"}
  /\ child \in {0} \cup Kids
  /\ {exited, connected} \subseteq BOOLEAN
  /\ connecting \in [Callers -> {"idle", "initialize", "ok", "failed"}]
  /\ \A w \in waiting : w.id <= ids /\ w.kid \in Kids

ConnInit ==
  /\ kids = [k \in {} |-> "closed"] /\ child = 0
  /\ exited = FALSE /\ connected = FALSE
  /\ waiting = {} /\ ids = 0
  /\ connecting = [c \in Callers |-> "idle"]

\* request: the entry is set, then sent; a client that does not run rejects at once.
Sent(c, k, init) == [id |-> ids + 1, caller |-> c, kid |-> k, init |-> init]

\* Mutant: a client that is marked exited takes its child for gone.
ConnSpawnMutant(c) ==
  LET k == Cardinality(Kids) + 1 IN
  /\ k <= MaxKids /\ ids < MaxCalls
  /\ kids' = [x \in Kids \cup {k} |->
                IF x = k THEN "alive"
                ELSE IF x = child /\ kids[x] = "alive" /\ ~exited THEN "told" ELSE kids[x]]
  /\ child' = k /\ exited' = FALSE
  /\ waiting' = waiting \cup {Sent(c, k, TRUE)} /\ ids' = ids + 1
  /\ connecting' = [connecting EXCEPT ![c] = "initialize"]
  /\ UNCHANGED connected

\* _spawn, with _cleanupOldChild: a child that runs is told to exit, not awaited.
ConnSpawn(c) ==
  LET k == Cardinality(Kids) + 1 IN
  /\ k <= MaxKids /\ ids < MaxCalls
  /\ kids' = [x \in Kids \cup {k} |->
                IF x = k THEN "alive"
                ELSE IF x = child /\ kids[x] = "alive" THEN "told" ELSE kids[x]]
  /\ child' = k /\ exited' = FALSE
  /\ waiting' = waiting \cup {Sent(c, k, TRUE)} /\ ids' = ids + 1
  /\ connecting' = [connecting EXCEPT ![c] = "initialize"]
  /\ UNCHANGED connected

Connect(c) ==
  /\ connecting[c] # "initialize"
  /\ IF connected /\ IsRunning
     THEN connecting' = [connecting EXCEPT ![c] = "ok"]
          /\ UNCHANGED <<kids, child, exited, connected, waiting, ids>>
     ELSE ConnSpawn(c)

SendRequest(c) ==
  /\ connecting[c] = "ok" /\ ids < MaxCalls
  /\ IsRunning
  /\ waiting' = waiting \cup {Sent(c, child, FALSE)} /\ ids' = ids + 1
  /\ UNCHANGED <<kids, child, exited, connected, connecting>>

\* Rejections reach connect() as a failure; the requests' own callers see theirs.
Rejected(ws) ==
  [c \in Callers |-> IF \E w \in ws : w.init /\ w.caller = c THEN "failed" ELSE connecting[c]]

\* _onLine: only the current child's lines are read, until its output is closed.
ConnAnswer(w) ==
  /\ w \in waiting /\ w.kid = child /\ kids[child] # "closed"
  /\ waiting' = waiting \ {w}
  /\ IF w.init
     THEN connected' = TRUE /\ connecting' = [connecting EXCEPT ![w.caller] = "ok"]
     ELSE UNCHANGED <<connected, connecting>>
  /\ UNCHANGED <<kids, child, exited, ids>>

ConnTimeout(w) ==
  /\ w \in waiting /\ waiting' = waiting \ {w}
  /\ connecting' = Rejected({w})
  /\ UNCHANGED <<kids, child, exited, connected, ids>>

KidExits(k) ==
  /\ kids[k] \in {"alive", "told"}
  /\ \E how \in {"exited", "killed"} : kids' = [kids EXCEPT ![k] = how]
  /\ UNCHANGED <<child, exited, connected, waiting, connecting, ids>>

\* Mutant: the handler looks at whose event it is.
KidClosesMutant(k) ==
  /\ kids[k] \in {"exited", "killed"}
  /\ kids' = [kids EXCEPT ![k] = "closed"]
  /\ IF k = child THEN exited' = TRUE /\ waiting' = {} /\ connecting' = Rejected(waiting)
     ELSE UNCHANGED <<exited, waiting, connecting>>
  /\ UNCHANGED <<child, connected, ids>>

\* The 'close' (or 'error') handler; it does not ask whose event it is.
KidCloses(k) ==
  /\ kids[k] \in {"exited", "killed"}
  /\ kids' = [kids EXCEPT ![k] = "closed"]
  /\ exited' = TRUE
  /\ waiting' = {} /\ connecting' = Rejected(waiting)
  /\ UNCHANGED <<child, connected, ids>>

\* close(): stdin is ended and, after a delay, the child told to exit; a client marked
\* exited has nothing to end.
ConnClose ==
  /\ child # 0
  /\ kids' = IF ~exited /\ kids[child] = "alive" THEN [kids EXCEPT ![child] = "told"] ELSE kids
  /\ connected' = FALSE
  /\ UNCHANGED <<child, exited, waiting, connecting, ids>>

ConnNext ==
  \/ \E c \in Callers : Connect(c) \/ SendRequest(c)
  \/ \E w \in waiting : ConnAnswer(w) \/ ConnTimeout(w)
  \/ \E k \in Kids : KidExits(k) \/ KidCloses(k)
  \/ ConnClose

ConnSpec == ConnInit /\ [][ConnNext]_connVars

------------------------------------------------------------------------------
(* A client is marked exited only when its own, current child has ended       *)
(* (app-server-client.js:11-12: restart-safe, a died or closed child can be   *)
(* replaced by calling connect() again on the same instance).                 *)
ExitIsOwn == exited => child # 0 /\ KidEnded(child)

(* One child serves (_spawn, _cleanupOldChild, close): however children die,  *)
(* are replaced or report their end late, no child but the current one is     *)
(* left running without having been told to exit.                             *)
OneChildServes == \A k \in Kids : kids[k] = "alive" => k = child

(* Every call settles (_failAllPending, request, connect): no request is left *)
(* waiting on a child whose end has been reported, and a connect() that has   *)
(* not come back has an `initialize` request waiting, whose answer, rejection *)
(* or timer ends it.                                                          *)
EveryCallSettles ==
  /\ \A w \in waiting : kids[w.kid] # "closed"
  /\ \A c \in Callers : connecting[c] = "initialize" => \E w \in waiting : w.init /\ w.caller = c
==============================================================================
