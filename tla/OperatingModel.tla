--------------------------- MODULE OperatingModel ---------------------------
(* The decisions a session takes before it acts, as functions of what it      *)
(* observed:                                                                  *)
(*   decide    router/decide.js, the route, mutation owner and Codex access   *)
(*             of a task from its facts;                                      *)
(*   route     operating-model/bootstrap.js routeRequiredOperations, the      *)
(*             route that offers all the operations a mission needs;          *)
(*   resolve   resolveAutonomousBootstrap and resolveProjectAdoption: the     *)
(*             project's one control head, its mission, the authority granted *)
(*             for it and the session's role; and, before it writes,          *)
(*             assertRepositoryMutationAuthorized.                            *)
(* Each answer is kept with its question.  A pointer, a key or a label is     *)
(* reduced to what the code compares; a malformed input throws, like any      *)
(* other refusal.                                                             *)
EXTENDS Naturals, FiniteSets

CONSTANTS
  Operations,     \* that a mission may need
  Missions,
  Repositories,
  Failings,       \* the conditions of an availability that may fail
  MaxObserved     \* bound: capability observations of a session

Conditions == {"exposed", "executable", "resourceAuthorized", "constraintsSufficient"}
ASSUME OperatingAssumption == Failings \subseteq Conditions /\ MaxObserved \in Nat

VARIABLES
  observed,    \* the session's capability observations
  routed,      \* the last question to routeRequiredOperations, with its answer
  decided,     \* the last question to decideRoute, with its answer
  resolution,     \* what the session resolved, and from what
  wrote        \* the repositories it has written since

modelVars == <<observed, routed, decided, resolution, wrote>>

Throws == "throws"
Nothing == "none"

------------------------------------------------------------------------------
(* decideRoute: facts are the keys that are true.                             *)

LocalWorkFacts == {"readOnly", "mutationRequired", "exactChangeKnown", "boundedChange",
                   "multiFile", "unknownRootCause", "iterative", "longRunning"}
FactKeys == LocalWorkFacts \cup {"requiresNative", "requiresLocal"}

ValidateConsistency(f) ==
  /\ "requiresLocal" \notin f => f \cap LocalWorkFacts = {}
  /\ ~({"readOnly", "mutationRequired"} \subseteq f)
  /\ "requiresLocal" \in f => f \cap {"readOnly", "mutationRequired"} # {}

Mutates(f) == "mutationRequired" \in f /\ "readOnly" \notin f

RouteLocalLeg(f) ==
  IF Mutates(f) /\ ~(/\ f \cap {"multiFile", "unknownRootCause", "iterative", "longRunning"} = {}
                     /\ {"boundedChange", "exactChangeKnown"} \subseteq f)
  THEN "CODEX_DELEGATE" ELSE "CHATGPT_DIRECT_LOCAL"

OwnerForLocalLeg(leg, f) ==
  CASE Mutates(f) /\ leg = "CHATGPT_DIRECT_LOCAL" -> "chatgpt"
    [] Mutates(f) /\ leg = "CODEX_DELEGATE" -> "codex"
    [] OTHER -> Nothing

CodexAccess(executor, f) ==
  CASE executor = "CODEX_DELEGATE" /\ Mutates(f) -> "workspace_write"
    [] executor = "CODEX_DELEGATE" /\ ~Mutates(f) -> "read_only"
    [] OTHER -> Nothing

\* The route, and the leg that executes locally; HYBRID owns nothing itself.
DecideRoute(f) ==
  LET leg == IF "requiresLocal" \in f THEN RouteLocalLeg(f) ELSE Nothing
      route == IF leg = Nothing THEN "CHATGPT_NATIVE"
               ELSE IF "requiresNative" \in f THEN "HYBRID" ELSE leg
  IN IF ~ValidateConsistency(f) THEN [route |-> Throws]
     ELSE [route |-> route, leg |-> leg, owner |-> OwnerForLocalLeg(leg, f),
           access |-> CodexAccess(leg, f)]

------------------------------------------------------------------------------
(* routeRequiredOperations: an observation is available when nothing lacks.   *)

RouteFamilies == {"CHATGPT_NATIVE", "CHATGPT_DIRECT_LOCAL", "CODEX_DELEGATE"}
LocalRoutes == RouteFamilies \ {"CHATGPT_NATIVE"}
Observations == [operation : Operations, route : RouteFamilies, lacks : SUBSET Failings]

\* deriveCapabilityEnvelope: availability needs all the conditions.
Available(o) == o.lacks = {}
AvailableRoutes(op) == {o.route : o \in {x \in observed : x.operation = op /\ Available(x)}}

OfferedBy(route, ops) == \A op \in ops : route \in AvailableRoutes(op)
\* The first of the offers in the order of preference.
Preferred(offers) ==
  IF "CHATGPT_NATIVE" \in offers THEN "CHATGPT_NATIVE"
  ELSE IF "CHATGPT_DIRECT_LOCAL" \in offers THEN "CHATGPT_DIRECT_LOCAL"
  ELSE IF "CODEX_DELEGATE" \in offers THEN "CODEX_DELEGATE"
  ELSE Nothing

\* Mutant: one operation the local route offers is enough.
HybridRouteMutant(required) ==
  LET native == {op \in required : "CHATGPT_NATIVE" \in AvailableRoutes(op)} IN
  IF native = {} THEN Nothing
  ELSE Preferred({r \in LocalRoutes : \E op \in required \ native : r \in AvailableRoutes(op)})
\* What is not offered natively must all be offered by one local route.
HybridRoute(required) ==
  LET native == {op \in required : "CHATGPT_NATIVE" \in AvailableRoutes(op)} IN
  IF native \in {{}, required} THEN Nothing
  ELSE Preferred({r \in LocalRoutes : OfferedBy(r, required \ native)})

RouteRequired(required) ==
  LET one == Preferred({r \in RouteFamilies : OfferedBy(r, required)})
      local == HybridRoute(required)
  IN IF required = {} THEN [route |-> "CHATGPT_NATIVE", leg |-> Nothing]
     ELSE IF \E op \in required : AvailableRoutes(op) = {} THEN [route |-> Throws, leg |-> Nothing]
     ELSE IF one # Nothing THEN [route |-> one, leg |-> Nothing]
     ELSE IF local # Nothing THEN [route |-> "HYBRID", leg |-> local]
     ELSE [route |-> Throws, leg |-> Nothing]

------------------------------------------------------------------------------
(* The project's control, and what a session may do under it.                 *)

NextAction == "next_safe_action"
Uncontrolled == [valid |-> FALSE, parent |-> Nothing, mission |-> Nothing]
\* A control head: of this project, current, without a writer conflict and with exactly
\* one of mission and next safe action, or not; ACTIVE or retired.
Controls == [valid : BOOLEAN, parent : {"ACTIVE", "RETIRED"}, mission : Missions \cup {NextAction}]
Grants == [status : {"bound"}, repos : SUBSET Repositories, mission : Missions \cup {Nothing},
           readOnly : BOOLEAN]
          \cup [status : {"missing", "ambiguous"}, repos : {Repositories},
                mission : {Nothing}, readOnly : {FALSE}]

\* Ambiguous heads and an invalid one throw; for the autonomous entry also heads of
\* which none is at the project's root.
DiscoveryFails(entry, matching, others) ==
  \/ Cardinality(matching) > 1
  \/ \E c \in matching : ~c.valid
  \/ entry = "autonomous" /\ matching = {} /\ others
DiscoverControl(matching) == IF matching = {} THEN Uncontrolled ELSE CHOOSE c \in matching : TRUE

\* What the human authorized, for a project without control.  Only a scoped locator, an
\* authorization for this project and locator, and the matching minimal action will do.
Authorizations == {Nothing, "new_genesis", "materialize_control", "unfit"}
AdoptionMode(control, authorization, scoped) ==
  IF control # Uncontrolled THEN "EXISTING_CONTROL"
  ELSE CASE authorization = Nothing -> "UNBOUND_NO_CONTROL"
         [] authorization = "new_genesis" /\ scoped -> "NEW_GENESIS"
         [] authorization = "materialize_control" /\ scoped -> "MATERIALIZE_CONTROL"
         [] OTHER -> Throws
\* Without adoption the same authorization is for genesis, and existing control refuses it.
GenesisMode(control, authorization) ==
  IF control # Uncontrolled THEN IF authorization = Nothing THEN "EXISTING_CONTROL" ELSE Throws
  ELSE CASE authorization = Nothing -> "GENESIS_REQUIRED"
         [] authorization = "new_genesis" -> "NEW_GENESIS"
         [] OTHER -> Throws

DiscoverMission(control, mode) ==
  IF control # Uncontrolled
  THEN IF control.mission = NextAction THEN "NEXT_SAFE_ACTION" ELSE "ACTIVE_MISSION"
  ELSE CASE mode = "NEW_GENESIS" -> "GENESIS_REQUIRED"
         [] mode = "MATERIALIZE_CONTROL" -> "CONTROL_MATERIALIZATION_REQUIRED"
         [] OTHER -> mode

NormalizeMissionAuthority(g) ==
  IF g.status # "bound" THEN [bound |-> FALSE, readOnly |-> TRUE, repos |-> {}]
  ELSE [bound |-> TRUE, readOnly |-> g.readOnly \/ g.repos = {}, repos |-> g.repos]

\* Mutant: a control without an active mission is not compared.
AuthorityMatchesMutant(control, g) ==
  control # Uncontrolled /\ g.status = "bound" /\ control.mission # NextAction => g.mission = control.mission
\* A bound authority is for the control's active mission.
AuthorityMatches(control, g) ==
  control # Uncontrolled /\ g.status = "bound" => control.mission # NextAction /\ g.mission = control.mission

\* bounded_parent is treated like bounded_mission.
RoleBindings == [role : {"replacement_parent", "ongoing_parent", "bounded_mission", "unbound"},
                 status : {"candidate", "bound"}, committed : BOOLEAN]
NoRole == [role |-> Nothing, status |-> "candidate", committed |-> FALSE]
\* Whether the role may be taken, and whether it writes.
RoleFits(b, control, mission, authority) ==
  \/ b.role = Nothing
  \/ b.role = "replacement_parent" /\ (b.status = "candidate" \/ b.committed)
  \/ b.role = "ongoing_parent" /\ b.status = "bound" /\ control.parent = "ACTIVE"
  \/ b.role = "bounded_mission" /\ b.status = "bound" /\ mission = "ACTIVE_MISSION" /\ authority.bound
  \/ b.role = "unbound" /\ b.status = "bound"
RoleWrites(b, authority) ==
  CASE b.role \in {Nothing, "unbound"} -> FALSE
    [] b.role = "bounded_mission" -> ~authority.readOnly
    [] OTHER -> b.status = "bound"

\* The kernel is the canonical repository at the pinned revision, or at main.
Kernels == [canonical : BOOLEAN, onMain : BOOLEAN, pin : {Nothing, "same", "other"}]
KernelFits(k) == k.canonical /\ IF k.pin = Nothing THEN k.onMain ELSE k.pin = "same"

\* What is found at the project's root: no head, one, or more.
Heads == {m \in SUBSET Controls : IsFiniteSet(m) /\ Cardinality(m) <= 2}

NotResolved == [state |-> "fresh"]

\* resolveAutonomousBootstrap, or resolveProjectAdoption with its session role.
Resolve(entry, matching, others, scoped, authorization, g, b) ==
  LET control == DiscoverControl(matching)
      mode == IF entry = "adoption" THEN AdoptionMode(control, authorization, scoped)
              ELSE GenesisMode(control, authorization)
      mission == DiscoverMission(control, mode)
      authority == NormalizeMissionAuthority(g)
  IN IF \/ DiscoveryFails(entry, matching, others) \/ mode = Throws
        \/ ~AuthorityMatches(control, g) \/ ~RoleFits(b, control, mission, authority)
     THEN [state |-> "refused"]
     ELSE [state |-> "resolved", control |-> control, heads |-> Cardinality(matching),
           mission |-> mission, authority |-> authority, grant |-> g, roleWrites |-> RoleWrites(b, authority)]

MutationAuthorized(repo, authority) ==
  authority.bound /\ ~authority.readOnly /\ repo \in authority.repos

------------------------------------------------------------------------------
ModelInit ==
  /\ observed = {} /\ wrote = {} /\ resolution = NotResolved
  /\ routed = [required |-> {}, answer |-> RouteRequired({})]
  /\ decided = [facts |-> {}, answer |-> DecideRoute({})]

\* A behaviour asks one kind of question: they share nothing.
NothingAsked == resolution = NotResolved /\ decided.facts = {}
Unasked == NothingAsked /\ observed = {} /\ routed.required = {}

AskDecide(f) ==
  /\ Unasked
  /\ decided' = [facts |-> f, answer |-> DecideRoute(f)]
  /\ UNCHANGED <<observed, routed, resolution, wrote>>

Observe(o) ==
  /\ NothingAsked /\ Cardinality(observed) < MaxObserved
  /\ observed' = observed \cup {o}
  /\ routed' = [required |-> {}, answer |-> RouteRequired({})]
  /\ UNCHANGED <<decided, resolution, wrote>>

AskRoute(required) ==
  /\ NothingAsked
  /\ routed' = [required |-> required, answer |-> RouteRequired(required)]
  /\ UNCHANGED <<observed, decided, resolution, wrote>>

BindKernel(k) ==
  /\ Unasked
  /\ resolution' = [state |-> IF KernelFits(k) THEN "kernel" ELSE "refused"]
  /\ UNCHANGED <<observed, routed, decided, wrote>>

ResolveProjectAdoption ==
  /\ resolution.state = "kernel"
  /\ \E matching \in Heads, scoped \in BOOLEAN, authorization \in Authorizations,
        g \in Grants, b \in RoleBindings \cup {NoRole} :
       resolution' = Resolve("adoption", matching, FALSE, scoped, authorization, g, b)
  /\ UNCHANGED <<observed, routed, decided, wrote>>

ResolveAutonomousBootstrap ==
  /\ resolution.state = "kernel"
  /\ \E matching \in Heads, others \in BOOLEAN, authorization \in Authorizations, g \in Grants :
       resolution' = Resolve("autonomous", matching, others, TRUE, authorization, g, NoRole)
  /\ UNCHANGED <<observed, routed, decided, wrote>>

WriteRepository(repo) ==
  /\ resolution.state = "resolved" /\ MutationAuthorized(repo, resolution.authority)
  /\ wrote' = wrote \cup {repo}
  /\ UNCHANGED <<observed, routed, decided, resolution>>

ModelNext ==
  \/ \E f \in SUBSET FactKeys : AskDecide(f)
  \/ \E o \in Observations : Observe(o)
  \/ \E required \in SUBSET Operations : AskRoute(required)
  \/ \E k \in Kernels : BindKernel(k)
  \/ ResolveProjectAdoption \/ ResolveAutonomousBootstrap
  \/ \E repo \in Repositories : WriteRepository(repo)

OperatingTypeOK ==
  /\ observed \subseteq Observations /\ Cardinality(observed) <= MaxObserved
  /\ routed.required \subseteq Operations /\ decided.facts \subseteq FactKeys
  /\ resolution.state \in {"fresh", "kernel", "refused", "resolved"}
  /\ wrote \subseteq Repositories

ModelSpec == ModelInit /\ [][ModelNext]_modelVars

------------------------------------------------------------------------------
\* A mutation has exactly one owner, and the owner is able to write: Codex owns it
\* exactly when it is given write access, ChatGPT only when the change is small and
\* known, and nobody owns anything in a task that changes nothing.
DecisionIsRight ==
  LET f == decided.facts  a == decided.answer IN
  a.route # Throws =>
    /\ a.owner # Nothing <=> "mutationRequired" \in f
    /\ a.owner = "codex" <=> a.access = "workspace_write"
    /\ a.owner = "chatgpt" => {"boundedChange", "exactChangeKnown"} \subseteq f
                              /\ f \cap {"multiFile", "unknownRootCause", "iterative", "longRunning"} = {}

\* Reference: the teams that may serve a mission are a family alone, or the native one
\* with one local route.
Teams == {{r} : r \in RouteFamilies} \cup {{"CHATGPT_NATIVE", r} : r \in LocalRoutes}
Covers(team, required) ==
  \A op \in required : \E o \in observed : o.operation = op /\ o.lacks = {} /\ o.route \in team
TeamOf(a) == IF a.route = "HYBRID" THEN {"CHATGPT_NATIVE", a.leg} ELSE {a.route}

(* decideRoute gives every mutation one owner that can write, and             *)
(* routeRequiredOperations (bootstrap.js) answers with a smallest team that   *)
(* offers every required operation, with Codex only where no other team of    *)
(* that size will do, and throws exactly when no team offers them all: its    *)
(* greedy composition misses none.                                            *)
RoutesAreRight ==
  /\ DecisionIsRight
  /\ routed.required # {} =>
       LET a == routed.answer  covering == {t \in Teams : Covers(t, routed.required)} IN
       /\ a.route = Throws <=> covering = {}
       /\ a.route # Throws =>
            /\ TeamOf(a) \in covering
            /\ \A t \in covering :
                 /\ Cardinality(TeamOf(a)) <= Cardinality(t)
                 /\ "CODEX_DELEGATE" \in TeamOf(a) /\ Cardinality(t) = Cardinality(TeamOf(a))
                      => "CODEX_DELEGATE" \in t

(* A session writes a repository (assertRepositoryMutationAuthorized) only    *)
(* under a live grant that names it, and where the project has a control,     *)
(* under the one valid head that there is and for the mission this head names *)
(* as active (bootstrap.js resolveBootstrap, adoption.js discoverControl),    *)
(* whichever entry, role and authorization the session came with.             *)
WritesFollowMission ==
  wrote # {} =>
    LET g == resolution.grant  c == resolution.control IN
    /\ g.status = "bound" /\ ~g.readOnly /\ wrote \subseteq g.repos
    /\ resolution.heads <= 1
    /\ c # Uncontrolled => c.valid /\ c.mission \in Missions /\ g.mission = c.mission
=============================================================================
