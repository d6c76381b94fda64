---------------------------- MODULE DeviceRegistry ----------------------------
(***************************************************************************)
(* One entry of the device registry and the updates DeviceRegistryManager  *)
(* makes to it, as functions from the old entry to the new one.  The       *)
(* published snapshot is rewritten by the same call that changes an entry, *)
(* so it has no state of its own here.                                     *)
(*                                                                         *)
(* lastSeen is the number of ticks since lastSeenTime, counted only up to  *)
(* the interrogation threshold (a device never seen counts as that old):   *)
(* no code asks for more.  Of lastDetailsTime and lastStateTime the code   *)
(* only asks whether they are zero, of lastHomieState whether it was       *)
(* "ready".                                                                *)
(***************************************************************************)
EXTENDS Naturals

CONSTANTS
    InterrogateThreshold,  \* interrogateThresholdMs, in ticks
    Topologies,            \* the actuator lists a device may announce
    NoActuators,           \* the empty list every entry starts with
    Undecoded, NoState     \* marks of stateOf, see below

ASSUME RegistryAssumption ==
    /\ InterrogateThreshold \in Nat
    /\ Undecoded # NoState
    /\ (Topologies \cup {NoActuators}) \cap {Undecoded, NoState} = {}

ActuatorLists == Topologies \cup {NoActuators}

\* The actuator list the authoritative state was decoded with: Undecoded for a
\* state that came before any details, NoState when lastStateTime is zero.
StateOf == ActuatorLists \cup {Undecoded, NoState}

\* controllerLinkConnected: null, true, false
Links == {"unknown", "up", "down"}

HomieStates == {"ready", "offline", "diagnostic"}

DeviceState ==
    [known : BOOLEAN, connected : BOOLEAN, bridgeConnected : BOOLEAN, link : Links,
     isHealthy : BOOLEAN, isStale : BOOLEAN, alertSent : BOOLEAN,
     lastSeen : 0 .. InterrogateThreshold, homieReady : BOOLEAN,
     hasDetails : BOOLEAN, actuators : ActuatorLists, stateOf : StateOf]

\* No entry: reads as undefined, and as the defaults a new entry gets.
NoDevice ==
    [known |-> FALSE, connected |-> FALSE, bridgeConnected |-> FALSE, link |-> "unknown",
     isHealthy |-> FALSE, isStale |-> FALSE, alertSent |-> FALSE,
     lastSeen |-> InterrogateThreshold, homieReady |-> FALSE,
     hasDetails |-> FALSE, actuators |-> NoActuators, stateOf |-> NoState]

HasState(dev) == dev.stateOf # NoState

SeenRecently(dev) == dev.lastSeen < InterrogateThreshold

\* One tick of the clock, as the entry's timestamps see it.
Older(dev) == IF SeenRecently(dev) THEN [dev EXCEPT !.lastSeen = @ + 1] ELSE dev

EnsureDeviceExists(dev) == [dev EXCEPT !.known = TRUE]

\* Mistake: a new actuator list keeps the states decoded with the old one.
RegisterDeviceDetailsKeepingState(dev, actuators, live) ==
    [EnsureDeviceExists(dev) EXCEPT
        !.lastSeen = IF live THEN 0 ELSE @,
        !.hasDetails = TRUE,
        !.actuators = actuators]

RegisterDeviceDetails(dev, actuators, live) ==
    [EnsureDeviceExists(dev) EXCEPT
        !.lastSeen = IF live THEN 0 ELSE @,
        !.hasDetails = TRUE,
        !.actuators = actuators,
        !.stateOf = IF dev.actuators = actuators THEN @ ELSE NoState]

\* Mistake: a retained state counts as seen.
RegisterActuatorStatesAlwaysSeen(dev, live) ==
    [EnsureDeviceExists(dev) EXCEPT
        !.lastSeen = 0,
        !.stateOf = IF dev.hasDetails THEN dev.actuators ELSE Undecoded]

RegisterActuatorStates(dev, live) ==
    [EnsureDeviceExists(dev) EXCEPT
        !.lastSeen = IF live THEN 0 ELSE @,
        !.stateOf = IF dev.hasDetails THEN dev.actuators ELSE Undecoded]

\* Only "ready" and the offline states move the bridge flag, and only an
\* actual change of it touches the rest.
UpdateBridgeConnectionState(dev, homieState) ==
    LET isConnected == homieState = "ready" IN
    IF homieState = "diagnostic" \/ dev.bridgeConnected = isConnected
    THEN EnsureDeviceExists(dev)
    ELSE IF isConnected
    THEN [EnsureDeviceExists(dev) EXCEPT !.bridgeConnected = TRUE]
    ELSE [EnsureDeviceExists(dev) EXCEPT
            !.bridgeConnected = FALSE, !.connected = FALSE, !.link = "unknown",
            !.isHealthy = FALSE, !.isStale = FALSE]

RecordHomieLifecycleState(dev, homieState) ==
    [EnsureDeviceExists(dev) EXCEPT !.homieReady = (homieState = "ready")]

BecomesHealthy(dev) == ~dev.isHealthy \/ dev.isStale

RecordControllerActivity(dev) ==
    [EnsureDeviceExists(dev) EXCEPT
        !.lastSeen = 0, !.connected = TRUE, !.bridgeConnected = TRUE, !.link = "up",
        !.isHealthy = TRUE,
        !.isStale = FALSE,
        !.alertSent = @ /\ ~BecomesHealthy(dev)]

\* A bridge that lost the runtime cache makes the stored state unusable.
SnapshotInvalidated(dev, controllerConnected, runtimeSynchronized) ==
    controllerConnected /\ ~runtimeSynchronized /\ HasState(dev)

\* Mistake: a dead controller link leaves the health flags alone.
RecordBridgePingReplyKeepingHealth(dev, controllerConnected, runtimeSynchronized) ==
    [EnsureDeviceExists(dev) EXCEPT
        !.bridgeConnected = TRUE,
        !.link = IF controllerConnected THEN "up" ELSE "down",
        !.connected = @ /\ controllerConnected,
        !.stateOf = IF SnapshotInvalidated(dev, controllerConnected, runtimeSynchronized)
                    THEN NoState ELSE @]

RecordBridgePingReply(dev, controllerConnected, runtimeSynchronized) ==
    [EnsureDeviceExists(dev) EXCEPT
        !.bridgeConnected = TRUE,
        !.link = IF controllerConnected THEN "up" ELSE "down",
        !.connected = @ /\ controllerConnected,
        !.isHealthy = @ /\ controllerConnected,
        !.isStale = @ /\ controllerConnected,
        !.stateOf = IF SnapshotInvalidated(dev, controllerConnected, runtimeSynchronized)
                    THEN NoState ELSE @]

UpdateHealthFromResult(dev, status) ==
    CASE ~dev.known -> dev
      [] dev.known /\ status = "ok" -> [dev EXCEPT !.isHealthy = TRUE, !.isStale = FALSE]
      [] dev.known /\ status = "stale" -> [dev EXCEPT !.isStale = TRUE]
      [] dev.known /\ status = "unhealthy" -> [dev EXCEPT !.isHealthy = FALSE, !.isStale = FALSE]
      [] dev.known /\ status \in {"needs_ping", "retry_queued"} -> dev

RecordAlertSent(dev) ==
    IF dev.alertSent THEN dev
    ELSE [EnsureDeviceExists(dev) EXCEPT !.isHealthy = FALSE, !.alertSent = TRUE]

-----------------------------------------------------------------------------
(* LshLogicService.lifecycle: the recovery path of an entry *)

RecoveryPath(dev) ==
    IF ~dev.known \/ (~dev.connected /\ ~dev.bridgeConnected) THEN "offline"
    ELSE IF dev.bridgeConnected /\ dev.link = "down" THEN "bridge_only"
    ELSE "controller_reachable"

HasSnapshot(dev) == dev.known /\ dev.hasDetails /\ HasState(dev)

\* What every handler relies on: "connected" is the one flag that says the
\* controller can be used, health follows it, and reachability never outlives
\* the bridge it goes through.
Consistent(dev) ==
    /\ dev.isHealthy <=> dev.connected
    /\ dev.connected => dev.bridgeConnected /\ dev.link = "up"
    /\ dev.link # "unknown" => dev.bridgeConnected
    /\ dev.isStale => dev.bridgeConnected /\ dev.link # "down"
    /\ dev.alertSent => ~dev.isHealthy
    /\ ~dev.known => dev = NoDevice

=============================================================================
