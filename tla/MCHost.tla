-------------------------------- MODULE MCHost --------------------------------
(* The components of a host that keep their own state and meet none of the    *)
(* others' variables, each on a small instance.  A behaviour is a scene: one  *)
(* component moves and the others stay in their initial state, since to       *)
(* interleave components that share nothing only multiplies the states.       *)
EXTENDS Relay, LocalMutation, StableRuntime, AppServerConnection, CommanderChild,
        LoginAutostart, OperatingModel, TLC

CONSTANTS a1, a2, d1, rt1, rt2,                                \* relay
          uEdit, uNew, uDoc, uDocNew, uDir, uMove, uCheck, uTurn   \* local mutations

VARIABLE scene   \* the component that moves

hostVars == <<relayVars, localVars, runtimeVars, connVars, commanderVars,
              autostartVars, modelVars, scene>>

\* One device with two runtimes, one after or beside the other
MCDeviceOf == (rt1 :> d1) @@ (rt2 :> d1)
\* One unit of each kind; three of them run
MCKind == (uEdit :> "edit") @@ (uNew :> "create") @@ (uDoc :> "doc") @@ (uDocNew :> "docnew")
          @@ (uDir :> "mkdir") @@ (uMove :> "move") @@ (uCheck :> "verify") @@ (uTurn :> "codex")
MCUnits == DOMAIN MCKind
MCName == [u \in MCUnits |-> u]

HostInit ==
  /\ RelayInit /\ LocalInit /\ RuntimeInit /\ ConnInit /\ CommanderInit
  /\ AutostartInit /\ ModelInit
  /\ scene \in {"relay", "local", "runtime", "connection", "commander", "autostart", "model"}
  /\ scene # "runtime" => active = NoRecord

RelayScene == scene = "relay" /\ RelayNext
              /\ UNCHANGED <<localVars, runtimeVars, connVars, commanderVars,
                             autostartVars, modelVars, scene>>
LocalScene == scene = "local" /\ LocalNext
              /\ UNCHANGED <<relayVars, runtimeVars, connVars, commanderVars,
                             autostartVars, modelVars, scene>>
RuntimeScene == scene = "runtime" /\ RuntimeNext
                /\ UNCHANGED <<relayVars, localVars, connVars, commanderVars,
                               autostartVars, modelVars, scene>>
ConnectionScene == scene = "connection" /\ ConnNext
                   /\ UNCHANGED <<relayVars, localVars, runtimeVars, commanderVars,
                                  autostartVars, modelVars, scene>>
CommanderScene == scene = "commander" /\ CommanderNext
                  /\ UNCHANGED <<relayVars, localVars, runtimeVars, connVars,
                                 autostartVars, modelVars, scene>>
AutostartScene == scene = "autostart" /\ AutostartNext
                  /\ UNCHANGED <<relayVars, localVars, runtimeVars, connVars, commanderVars, modelVars, scene>>
ModelScene == scene = "model" /\ ModelNext
              /\ UNCHANGED <<relayVars, localVars, runtimeVars, connVars, commanderVars,
                             autostartVars, scene>>

HostNext == \/ RelayScene \/ LocalScene \/ RuntimeScene \/ ConnectionScene \/ CommanderScene
            \/ AutostartScene \/ ModelScene
HostSpec == HostInit /\ [][HostNext]_hostVars

\* The state of the component that moves is well typed: counters and limits stay in their
\* range, handles and pids name something that exists.
HostTypeOK ==
  CASE scene = "relay" -> RelayTypeOK
    [] scene = "local" -> LocalTypeOK
    [] scene = "runtime" -> RuntimeTypeOK
    [] scene = "connection" -> ConnTypeOK
    [] scene = "commander" -> CommanderTypeOK
    [] scene = "autostart" -> AutostartTypeOK
    [] scene = "model" -> OperatingTypeOK
=============================================================================
