-------------------------- MODULE DeviceOutage_proofs --------------------------
(***************************************************************************)
(* What becomes of one device's entry over time, for any number of         *)
(* devices: staleness is latched and reported once, retained messages      *)
(* prove nothing, and a state belongs to the actuator list it is read      *)
(* with.                                                                   *)
(*                                                                         *)
(* Whatever a step does, for one device it is one of the few kinds of      *)
(* change below; each property needs only those.                           *)
(***************************************************************************)
EXTENDS DeviceHealth_proofs

-----------------------------------------------------------------------------
(* The kinds of change of an entry *)

KeepsAlert(d) == d \in alerted' <=> d \in alerted

Untouched(d) == registry'[d] = registry[d] /\ KeepsAlert(d)

Aged(d) == registry'[d] = Older(registry[d]) /\ KeepsAlert(d)

\* A live message, whatever else it carries.
Live(d) ==
    /\ \E seen \in DeviceState :
         /\ registry'[d] = RecordControllerActivity(seen)
         /\ \/ seen = registry[d]
            \/ \E a \in Topologies : seen = RegisterDeviceDetails(registry[d], a, TRUE)
            \/ seen = RegisterActuatorStates(registry[d], TRUE)
    /\ lastPing'[d] = NeverPinged
    /\ d \notin alerted'

Retained(d) ==
    /\ \/ \E a \in Topologies : registry'[d] = RegisterDeviceDetails(registry[d], a, FALSE)
       \/ registry'[d] = RegisterActuatorStates(registry[d], FALSE)
       \/ \E h \in HomieStates : registry'[d] = RecordHomieLifecycleState(registry[d], h)
    /\ KeepsAlert(d)
    /\ UNCHANGED lastPing

BridgeSpoke(d) ==
    /\ \/ \E c, s \in BOOLEAN : registry'[d] = RecordBridgePingReply(registry[d], c, s)
       \/ \E h \in HomieStates :
            registry'[d] = UpdateBridgeConnectionState(RecordHomieLifecycleState(registry[d], h), h)
    /\ Reported(d)

Removed(d) == registry'[d] = NoDevice /\ d \notin alerted' /\ UNCHANGED lastPing

Checked(d) ==
    /\ RunWatchdogCheck
    /\ registry'[d] = AfterCheckup(d)
    /\ d \in alerted' <=> d \in alerted \/ d \in UnhealthyDevicesForAlert

EntryStep(d) ==
    Untouched(d) \/ Aged(d) \/ Live(d) \/ Retained(d) \/ BridgeSpoke(d) \/ Removed(d) \/ Checked(d)

\* A handler changes the entry of the device it is about and no other.
LEMMA HandledEntry ==
    ASSUME HealthTypeOK, NEW e \in Devices, NEW dev, NEW ping, NEW tracking, NEW frames,
           Handle(e, dev, ping, tracking, frames)
    PROVE  /\ registry'[e] = dev
           /\ \A d \in Devices \ {e} : registry'[d] = registry[d]
BY DEF HealthTypeOK, Handle

\* A message about a device is a live one, a retained one, one of its bridge or
\* its removal.
LEMMA MessageToDevice ==
    ASSUME TypedAndConsistent, NEW d \in Devices, Message(d)
    PROVE  Live(d) \/ Retained(d) \/ BridgeSpoke(d) \/ Removed(d)
<1> DEFINE old == registry[d]
<1>1. HealthTypeOK /\ old \in DeviceState
  BY DEF TypedAndConsistent, HealthTypeOK
<1>2. Heard(d) => lastPing'[d] = NeverPinged /\ d \notin alerted'
  BY <1>1 DEF Heard, HealthTypeOK
<1>3. UNCHANGED history => KeepsAlert(d) /\ UNCHANGED lastPing
  BY DEF history, KeepsAlert
<1>4. ASSUME NEW a \in Topologies, HandleLiveConf(d, a) PROVE Live(d)
  <2>1. RegisterDeviceDetails(old, a, TRUE) \in DeviceState
    BY <1>1, EntriesAreTyped
  <2>2. registry'[d] = RecordControllerActivity(RegisterDeviceDetails(old, a, TRUE)) /\ Heard(d)
    BY <1>1, <1>4, HandledEntry DEF HandleLiveConf
  <2> QED
    BY <1>2, <2>1, <2>2 DEF Live
<1>5. ASSUME HandleLiveState(d) PROVE Live(d)
  <2>1. RegisterActuatorStates(old, TRUE) \in DeviceState
    BY <1>1, EntriesAreTyped
  <2>2. registry'[d] = RecordControllerActivity(RegisterActuatorStates(old, TRUE)) /\ Heard(d)
    BY <1>1, <1>5, HandledEntry DEF HandleLiveState
  <2> QED
    BY <1>2, <2>1, <2>2 DEF Live
<1>6. ASSUME HandleClickEvent(d) \/ HandlePingReply(d) PROVE Live(d)
  <2>1. registry'[d] = RecordControllerActivity(old) /\ Heard(d)
    BY <1>1, <1>6, HandledEntry DEF HandleClickEvent, HandlePingReply
  <2> QED
    BY <1>1, <1>2, <2>1 DEF Live
<1>7. ASSUME NEW c \in BOOLEAN, NEW s \in BOOLEAN, HandleBridgeReply(d, c, s) PROVE BridgeSpoke(d)
  <2>1. registry'[d] = RecordBridgePingReply(old, c, s) /\ Reported(d)
    BY <1>1, <1>7, HandledEntry DEF HandleBridgeReply
  <2> QED
    BY <2>1 DEF BridgeSpoke
<1>8. ASSUME NEW h \in HomieStates, HandleLiveHomieState(d, h) PROVE BridgeSpoke(d)
  <2>1. /\ registry'[d] = UpdateBridgeConnectionState(RecordHomieLifecycleState(old, h), h)
        /\ Reported(d)
    BY <1>1, <1>8, HandledEntry DEF HandleLiveHomieState
  <2> QED
    BY <2>1 DEF BridgeSpoke
<1>9. ASSUME HandleRemoval(d) PROVE Removed(d)
  <2>1. registry'[d] = NoDevice /\ Reported(d)
    BY <1>1, <1>9, HandledEntry DEF HandleRemoval
  <2> QED
    BY <2>1 DEF Removed, Reported, NoDevice
<1>10. ASSUME RetainedMessage(d) PROVE Retained(d)
  <2>1. ASSUME NEW a \in Topologies, HandleRetainedConf(d, a) PROVE Retained(d)
    BY <1>1, <1>3, <2>1, HandledEntry DEF HandleRetainedConf, Retained
  <2>2. ASSUME HandleRetainedState(d) PROVE Retained(d)
    BY <1>1, <1>3, <2>2, HandledEntry DEF HandleRetainedState, Retained
  <2>3. ASSUME NEW h \in HomieStates, HandleRetainedHomieState(d, h) PROVE Retained(d)
    BY <1>1, <1>3, <2>3, HandledEntry DEF HandleRetainedHomieState, Retained
  <2> QED
    BY <1>10, <2>1, <2>2, <2>3 DEF RetainedMessage
<1> QED
  BY <1>4, <1>5, <1>6, <1>7, <1>8, <1>9, <1>10 DEF Message

\* A message about another device leaves the entry alone.
LEMMA MessageToAnother ==
    ASSUME TypedAndConsistent, NEW e \in Devices, Message(e), NEW d \in Devices \ {e}
    PROVE  Untouched(d)
<1>1. HealthTypeOK
  BY DEF TypedAndConsistent
<1>2. Heard(e) \/ Reported(e) \/ UNCHANGED history => KeepsAlert(d)
  BY DEF Heard, Reported, history, KeepsAlert
<1>3. registry'[d] = registry[d]
  BY <1>1, HandledEntry
     DEF Message, RetainedMessage, HandleLiveConf, HandleLiveState, HandleClickEvent,
         HandlePingReply, HandleBridgeReply, HandleLiveHomieState, HandleRemoval,
         HandleRetainedConf, HandleRetainedState, HandleRetainedHomieState
<1>4. Heard(e) \/ Reported(e) \/ UNCHANGED history
  BY DEF Message, RetainedMessage, HandleLiveConf, HandleLiveState, HandleClickEvent,
         HandlePingReply, HandleBridgeReply, HandleLiveHomieState, HandleRemoval,
         HandleRetainedConf, HandleRetainedState, HandleRetainedHomieState
<1> QED
  BY <1>2, <1>3, <1>4 DEF Untouched

\* Every step changes an entry in one of these ways.
LEMMA EntrySteps ==
    ASSUME TypedAndConsistent, [Next]_vars, NEW d \in Devices
    PROVE  EntryStep(d)
<1> USE DEF EntryStep
<1>1. HealthTypeOK
  BY DEF TypedAndConsistent
<1>2. CASE UNCHANGED vars
  BY <1>2 DEF vars, history, Untouched, KeepsAlert
<1>3. ASSUME NEW e \in Devices, Message(e) PROVE EntryStep(d)
  BY <1>3, MessageToDevice, MessageToAnother
<1>4. ASSUME NEW next \in Configs, UpdateSystemConfig(next) PROVE EntryStep(d)
  BY <1>4 DEF UpdateSystemConfig, Untouched, KeepsAlert, Removed
<1>5. CASE RefuseSystemConfig
  BY <1>5 DEF RefuseSystemConfig, history, Untouched, KeepsAlert
<1>6. CASE VerifyInitialDeviceStates
  BY <1>6 DEF VerifyInitialDeviceStates, history, Untouched, KeepsAlert
<1>7. CASE RunWatchdogCheck
  <2>1. /\ registry' = [x \in Devices |-> IF x \in configured THEN AfterCheckup(x) ELSE registry[x]]
        /\ alerted' = alerted \cup UnhealthyDevicesForAlert
    BY <1>7 DEF RunWatchdogCheck
  <2>2. d \notin configured => d \notin UnhealthyDevicesForAlert
    BY DEF UnhealthyDevicesForAlert
  <2> QED
    BY <1>7, <2>1, <2>2 DEF Checked, Untouched, KeepsAlert
<1>8. CASE Dispatch \/ DispatchStale \/ WakeDrain
  BY <1>8 DEF Dispatch, DispatchStale, WakeDrain, history, Untouched, KeepsAlert
<1>9. CASE Tick
  BY <1>9 DEF Tick, Aged, KeepsAlert
<1> QED
  BY <1>2, <1>3, <1>4, <1>5, <1>6, <1>7, <1>8, <1>9 DEF Next, Input

-----------------------------------------------------------------------------
(* Outages *)

\* The strengthening: an alert on record is an outage that still lasts.
Outage(d) ==
    /\ registry[d].isStale => ~SeenRecently(registry[d]) /\ d \in alerted
    /\ d \in alerted => registry[d].known /\ (registry[d].isStale \/ ~registry[d].bridgeConnected)

OutagesOnRecord == TypedAndConsistent /\ \A d \in Devices : Outage(d)

\* The watchdog never clears a stale mark that silence still justifies.
LEMMA CheckupKeepsStale ==
    ASSUME TypedAndConsistent, NEW d \in Devices, registry[d].isStale, ~SeenRecently(registry[d])
    PROVE  AfterCheckup(d) = registry[d]
<1>1. registry[d] \in DeviceState /\ Consistent(registry[d]) /\ pingStates[d] \in PingState
  BY DEF TypedAndConsistent, HealthTypeOK, RegistryConsistent
<1>2. registry[d].known /\ registry[d].bridgeConnected /\ registry[d].link # "down"
  BY <1>1 DEF Consistent, NoDevice
<1>3. Checkup(d).status \in {"stale", "needs_ping", "retry_queued"}
  BY <1>1, <1>2 DEF Checkup, CheckDeviceHealth, Answer, PingState
<1>4. UpdateHealthFromResult(registry[d], Checkup(d).status) = registry[d]
  BY <1>1, <1>2, <1>3 DEF UpdateHealthFromResult, DeviceState
<1> QED
  BY <1>3, <1>4 DEF AfterCheckup

\* The watchdog declares a device silent only after a ping of it timed out, and
\* reports it in the same cycle; it reports a device it never knew; it leaves
\* any other one alone, but for its health.
Missing(d) ==
    /\ ~registry[d].known
    /\ AfterCheckup(d) = [registry[d] EXCEPT !.known = TRUE, !.isHealthy = FALSE, !.alertSent = TRUE]
    /\ d \in UnhealthyDevicesForAlert

Silent(d) ==
    /\ registry[d].known /\ ~SeenRecently(registry[d])
    /\ registry[d].bridgeConnected /\ registry[d].link # "down"
    /\ pingStates[d].status = "sent" /\ TimedOut(pingStates[d])
    /\ AfterCheckup(d) = [registry[d] EXCEPT !.isStale = TRUE]
    /\ d \in UnhealthyDevicesForAlert

Fine(d) ==
    /\ registry[d].known
    /\ AfterCheckup(d) \in {registry[d], [registry[d] EXCEPT !.isHealthy = TRUE, !.isStale = FALSE]}
    /\ d \notin UnhealthyDevicesForAlert

LEMMA CheckupEffect ==
    ASSUME TypedAndConsistent, NEW d \in Devices, d \in configured, ~registry[d].isStale
    PROVE  Missing(d) \/ Silent(d) \/ Fine(d)
<1> DEFINE dev == registry[d]
           status == Checkup(d).status
<1>1. dev \in DeviceState /\ Consistent(dev) /\ pingStates[d] \in PingState
  BY DEF TypedAndConsistent, HealthTypeOK, RegistryConsistent
<1>2. status \in Statuses /\ (status = "unhealthy" => ~dev.known)
  BY <1>1, CheckupVerdict DEF Checkup
<1>3. CASE ~dev.known
  <2>1. dev = NoDevice
    BY <1>1, <1>3 DEF Consistent
  <2>2. status = "unhealthy" /\ ~BridgeOnly(d)
    BY <1>1, <1>3 DEF Checkup, CheckDeviceHealth, Answer, BridgeOnly, RecoveryPath
  <2>3. AfterCheckup(d) = RecordAlertSent(dev)
    BY <1>3, <2>2 DEF AfterCheckup, UpdateHealthFromResult
  <2>4. AfterCheckup(d) = [dev EXCEPT !.known = TRUE, !.isHealthy = FALSE, !.alertSent = TRUE]
    BY <2>1, <2>3 DEF RecordAlertSent, EnsureDeviceExists, NoDevice
  <2>5. d \in UnhealthyDevicesForAlert
    BY <2>1, <2>2 DEF UnhealthyDevicesForAlert, NoDevice
  <2> QED
    BY <1>3, <2>4, <2>5 DEF Missing
<1>4. CASE dev.known /\ status = "stale"
  <2>1. /\ ~SeenRecently(dev) /\ pingStates[d].status = "sent" /\ TimedOut(pingStates[d])
        /\ dev.connected \/ (dev.bridgeConnected /\ dev.link # "down")
    BY <1>1, <1>4 DEF Checkup, CheckDeviceHealth, Answer, PingState
  <2>2. dev.bridgeConnected /\ dev.link # "down"
    BY <1>1, <2>1 DEF Consistent
  <2>3. ~BridgeOnly(d)
    BY <1>4, <2>2 DEF BridgeOnly, RecoveryPath
  <2>4. AfterCheckup(d) = [dev EXCEPT !.isStale = TRUE]
    BY <1>4, <2>3 DEF AfterCheckup, UpdateHealthFromResult
  <2>5. d \in UnhealthyDevicesForAlert
    BY <1>4, <2>3 DEF UnhealthyDevicesForAlert
  <2> QED
    BY <1>4, <2>1, <2>2, <2>4, <2>5 DEF Silent
<1>5. CASE dev.known /\ status # "stale"
  <2>1. status # "unhealthy"
    BY <1>2, <1>5
  <2>2. AfterCheckup(d) \in {dev, [dev EXCEPT !.isHealthy = TRUE, !.isStale = FALSE]}
    BY <1>2, <1>5, <2>1 DEF AfterCheckup, UpdateHealthFromResult, Statuses
  <2> QED
    BY <1>5, <2>1, <2>2 DEF Fine, UnhealthyDevicesForAlert
<1> QED
  BY <1>3, <1>4, <1>5

\* Every step keeps the record of outages.
LEMMA OutageStep ==
    ASSUME OutagesOnRecord, [Next]_vars, NEW d \in Devices
    PROVE  Outage(d)'
<1> DEFINE dev == registry[d]
<1>1. TypedAndConsistent /\ HealthTypeOK /\ Outage(d)
  BY DEF OutagesOnRecord, TypedAndConsistent
<1>2. dev \in DeviceState /\ Consistent(dev)
  BY <1>1 DEF HealthTypeOK, TypedAndConsistent, RegistryConsistent
<1>3. EntryStep(d)
  BY <1>1, EntrySteps
<1>4. CASE Untouched(d)
  BY <1>1, <1>4 DEF Outage, Untouched, KeepsAlert
<1>5. CASE Aged(d)
  <2>1. /\ registry'[d].isStale = dev.isStale /\ registry'[d].known = dev.known
        /\ registry'[d].bridgeConnected = dev.bridgeConnected
    BY <1>2, <1>5 DEF Aged, Older, DeviceState
  <2>2. ~SeenRecently(dev) => registry'[d] = dev
    BY <1>5 DEF Aged, Older
  <2> QED
    BY <1>1, <1>5, <2>1, <2>2 DEF Outage, Aged, KeepsAlert
<1>6. CASE Live(d)
  <2>1. PICK seen \in DeviceState : registry'[d] = RecordControllerActivity(seen)
    BY <1>6 DEF Live
  <2>2. registry'[d].isStale = FALSE
    BY <2>1 DEF RecordControllerActivity, EnsureDeviceExists, DeviceState
  <2> QED
    BY <1>6, <2>2 DEF Outage, Live
<1>7. CASE Retained(d)
  <2>1. /\ registry'[d].isStale = dev.isStale /\ registry'[d].known
        /\ registry'[d].bridgeConnected = dev.bridgeConnected
        /\ registry'[d].lastSeen = dev.lastSeen
    BY <1>2, <1>7 DEF Retained, RegisterDeviceDetails, RegisterActuatorStates,
                      RecordHomieLifecycleState, EnsureDeviceExists, DeviceState
  <2> QED
    BY <1>1, <1>7, <2>1 DEF Outage, Retained, KeepsAlert, SeenRecently
<1>8. CASE BridgeSpoke(d)
  <2> DEFINE new == registry'[d]
             Kept == /\ new.known /\ new.lastSeen = dev.lastSeen
                     /\ new.isStale => dev.isStale
                     /\ \/ new.isStale = dev.isStale
                        \/ new.link = "down"
                        \/ new.bridgeConnected # dev.bridgeConnected
                        \/ ~dev.bridgeConnected
                     /\ new.isStale => new.bridgeConnected = dev.bridgeConnected /\ new.link # "down"
  <2>1. Kept
    <3>1. ASSUME NEW c \in BOOLEAN, NEW s \in BOOLEAN,
                 registry'[d] = RecordBridgePingReply(dev, c, s)
          PROVE  Kept
      BY <1>2, <3>1 DEF RecordBridgePingReply, EnsureDeviceExists, DeviceState, Consistent
    <3>2. ASSUME NEW h \in HomieStates,
                 registry'[d] = UpdateBridgeConnectionState(RecordHomieLifecycleState(dev, h), h)
          PROVE  Kept
      BY <1>2, <3>2 DEF UpdateBridgeConnectionState, RecordHomieLifecycleState,
                        EnsureDeviceExists, DeviceState, Consistent
    <3> QED
      BY <1>8, <3>1, <3>2 DEF BridgeSpoke
  <2>2. d \in alerted' => /\ d \in alerted
                          /\ registry'[d].bridgeConnected = dev.bridgeConnected
                          /\ registry'[d].link # "down"
    BY <1>8 DEF BridgeSpoke, Reported
  <2>3. registry'[d].isStale /\ d \in alerted => d \in alerted'
    BY <1>8, <2>1 DEF BridgeSpoke, Reported
  <2> QED
    BY <1>1, <2>1, <2>2, <2>3 DEF Outage, SeenRecently
<1>9. CASE Removed(d)
  BY <1>9 DEF Outage, Removed, NoDevice
<1>10. CASE Checked(d) /\ d \in configured
  <2>1. CASE dev.isStale
    <3>1. registry'[d] = dev
      BY <1>1, <1>10, <2>1, CheckupKeepsStale DEF Checked, Outage
    <3> QED
      BY <1>1, <1>2, <1>10, <2>1, <3>1 DEF Checked, Outage, Consistent, NoDevice
  <2>2. CASE ~dev.isStale
    <3>1. CASE Missing(d)
      BY <1>2, <1>10, <3>1 DEF Checked, Missing, Outage, Consistent, NoDevice, DeviceState
    <3>2. CASE Silent(d)
      BY <1>2, <1>10, <3>2 DEF Checked, Silent, Outage, SeenRecently, DeviceState
    <3>3. CASE Fine(d)
      BY <1>1, <1>2, <1>10, <2>2, <3>3 DEF Checked, Fine, Outage, DeviceState
    <3> QED
      BY <1>1, <1>10, <2>2, <3>1, <3>2, <3>3, CheckupEffect
  <2> QED
    BY <2>1, <2>2
<1>11. CASE Checked(d) /\ d \notin configured
  <2>1. registry'[d] = dev /\ d \notin UnhealthyDevicesForAlert
    BY <1>11 DEF Checked, RunWatchdogCheck, UnhealthyDevicesForAlert
  <2> QED
    BY <1>1, <1>11, <2>1 DEF Checked, Outage
<1> QED
  BY <1>3, <1>4, <1>5, <1>6, <1>7, <1>8, <1>9, <1>10, <1>11 DEF EntryStep

\* The record of outages is an inductive invariant.
LEMMA OutagesStayOnRecord == Spec => []OutagesOnRecord
<1>1. Init => \A d \in Devices : Outage(d)
  BY DEF Init, Outage, NoDevice
<1>2. (\A d \in Devices : Outage(d)) /\ TypedAndConsistent /\ [Next]_vars
        => (\A d \in Devices : Outage(d))'
  BY OutageStep DEF OutagesOnRecord
<1>3. TypedAndConsistent /\ (\A d \in Devices : Outage(d)) => OutagesOnRecord
  BY DEF OutagesOnRecord
<1> QED
  BY <1>1, <1>2, <1>3, InvariantIsInductive, PTL DEF Spec

\* No silent outage: every stale device has been reported, always.
THEOREM OutagesReported == Spec => []StaleReported
<1>1. OutagesOnRecord => StaleReported
  BY DEF OutagesOnRecord, Outage, StaleReported
<1> QED
  BY <1>1, OutagesStayOnRecord, PTL

\* No notification storm: the watchdog reports an outage once.
THEOREM AlertsOnce == Spec => OneAlertPerOutage
<1>1. OutagesOnRecord /\ [Next]_vars
        => [RunWatchdogCheck => UnhealthyDevicesForAlert \cap alerted = {}]_vars
  <2> SUFFICES ASSUME OutagesOnRecord, NEW d \in Devices, d \in alerted,
                      d \in UnhealthyDevicesForAlert
               PROVE  FALSE
    BY DEF OutagesOnRecord, TypedAndConsistent, HealthTypeOK
  <2> DEFINE dev == registry[d]
  <2>1. /\ dev \in DeviceState /\ Consistent(dev) /\ pingStates[d] \in PingState
        /\ Outage(d)
    BY DEF OutagesOnRecord, TypedAndConsistent, HealthTypeOK, RegistryConsistent
  <2>2. dev.known /\ (dev.isStale \/ ~dev.bridgeConnected)
    BY <2>1 DEF Outage
  <2>3. Checkup(d).status # "unhealthy"
    BY <2>1, <2>2, CheckupVerdict DEF Checkup
  <2>4. ~dev.isStale => Checkup(d).status = "ok"
    BY <2>1, <2>2 DEF Checkup, CheckDeviceHealth, Answer, Consistent
  <2> QED
    BY <2>3, <2>4 DEF UnhealthyDevicesForAlert
<1> QED
  BY <1>1, OutagesStayOnRecord, PTL DEF Spec, OneAlertPerOutage

\* A stale mark is only lifted by live controller traffic, by a bridge or a
\* controller link reported down, or with the device.
THEOREM StalenessLatches == Spec => StaleLatched
<1> DEFINE Lifted(d) == \/ lastPing'[d] = NeverPinged
                       \/ ~registry'[d].bridgeConnected
                       \/ registry'[d].link = "down"
<1>1. ASSUME OutagesOnRecord, [Next]_vars, NEW d \in Devices,
             registry[d].isStale, ~registry'[d].isStale
      PROVE  Lifted(d)
  <2> DEFINE dev == registry[d]
  <2>1. /\ TypedAndConsistent /\ dev \in DeviceState /\ Consistent(dev) /\ EntryStep(d)
        /\ ~SeenRecently(dev)
    BY <1>1, EntrySteps DEF OutagesOnRecord, Outage, TypedAndConsistent, HealthTypeOK, RegistryConsistent
  <2>2. ~Untouched(d) /\ ~Checked(d)
    BY <1>1, <2>1, CheckupKeepsStale DEF Untouched, Checked
  <2>3. ~Aged(d)
    BY <1>1, <2>1 DEF Aged, Older
  <2>4. ~Retained(d)
    BY <1>1, <2>1 DEF Retained, RegisterDeviceDetails, RegisterActuatorStates,
                      RecordHomieLifecycleState, EnsureDeviceExists, DeviceState
  <2>5. CASE Live(d)
    BY <2>5 DEF Live
  <2>6. CASE BridgeSpoke(d)
    <3>1. ASSUME NEW c \in BOOLEAN, NEW s \in BOOLEAN,
                 registry'[d] = RecordBridgePingReply(dev, c, s)
          PROVE  Lifted(d)
      BY <1>1, <2>1, <3>1 DEF RecordBridgePingReply, EnsureDeviceExists, DeviceState
    <3>2. ASSUME NEW h \in HomieStates,
                 registry'[d] = UpdateBridgeConnectionState(RecordHomieLifecycleState(dev, h), h)
          PROVE  Lifted(d)
      BY <1>1, <2>1, <3>2 DEF UpdateBridgeConnectionState, RecordHomieLifecycleState,
                              EnsureDeviceExists, DeviceState
    <3> QED
      BY <2>6, <3>1, <3>2 DEF BridgeSpoke
  <2>7. CASE Removed(d)
    BY <2>7 DEF Removed, NoDevice
  <2> QED
    BY <2>1, <2>2, <2>3, <2>4, <2>5, <2>6, <2>7 DEF EntryStep
<1>2. OutagesOnRecord /\ [Next]_vars
        => [\A d \in Devices :
              registry[d].isStale /\ ~registry'[d].isStale =>
                 \/ lastPing'[d] = NeverPinged
                 \/ ~registry'[d].bridgeConnected
                 \/ registry'[d].link = "down"]_vars
  BY <1>1
<1> QED
  BY <1>2, OutagesStayOnRecord, PTL DEF Spec, StaleLatched

-----------------------------------------------------------------------------
(* Retained messages and states *)

\* Retained snapshots and lifecycle states change nothing that says how to
\* reach the device or what is awaited from it.
THEOREM RetainedIsIgnored == Spec => RetainedProvesNothing
<1>1. ASSUME TypedAndConsistent, NEW d \in Devices, RetainedMessage(d)
      PROVE  Reachability(d)' = Reachability(d)
  <2>1. registry[d] \in DeviceState /\ registry \in [Devices -> DeviceState]
        /\ pingStates \in [Devices -> PingState]
    BY <1>1 DEF TypedAndConsistent, HealthTypeOK
  <2>2. \/ \E a \in Topologies : registry'[d] = RegisterDeviceDetails(registry[d], a, FALSE)
        \/ registry'[d] = RegisterActuatorStates(registry[d], FALSE)
        \/ \E h \in HomieStates : registry'[d] = RecordHomieLifecycleState(registry[d], h)
    BY <1>1, <2>1 DEF RetainedMessage, HandleRetainedConf, HandleRetainedState,
                      HandleRetainedHomieState, Handle
  <2>3. pingStates'[d] = pingStates[d]
    BY <1>1, <2>1 DEF RetainedMessage, HandleRetainedConf, HandleRetainedState,
                      HandleRetainedHomieState, Handle
  <2> QED
    BY <2>1, <2>2, <2>3 DEF Reachability, RegisterDeviceDetails, RegisterActuatorStates,
                            RecordHomieLifecycleState, EnsureDeviceExists, DeviceState
<1>2. TypedAndConsistent /\ [Next]_vars
        => [\A d \in Devices : Reachability(d)' # Reachability(d) => ~RetainedMessage(d)]_vars
  BY <1>1
<1> QED
  BY <1>2, InvariantIsInductive, PTL DEF Spec, RetainedProvesNothing

\* An entry without details still has the empty list it started with, so that
\* a first list is always a new one.
Decoded(d) ==
    /\ registry[d].hasDetails /\ HasState(registry[d]) =>
         registry[d].stateOf = registry[d].actuators
    /\ ~registry[d].hasDetails => registry[d].actuators = NoActuators

\* Whatever a message brings, the state stays with its list.
LEMMA DecodedStep ==
    ASSUME NoActuators \notin Topologies, TypedAndConsistent, [Next]_vars,
           NEW d \in Devices, Decoded(d)
    PROVE  Decoded(d)'
<1> DEFINE dev == registry[d]
           OK(e) == /\ e.hasDetails /\ HasState(e) => e.stateOf = e.actuators
                    /\ ~e.hasDetails => e.actuators = NoActuators
<1>1. dev \in DeviceState /\ OK(dev) /\ EntryStep(d)
  BY EntrySteps DEF TypedAndConsistent, HealthTypeOK, Decoded
<1>2. \A a \in Topologies, live \in BOOLEAN : OK(RegisterDeviceDetails(dev, a, live))
  BY <1>1 DEF RegisterDeviceDetails, EnsureDeviceExists, DeviceState, HasState
<1>3. \A live \in BOOLEAN : OK(RegisterActuatorStates(dev, live))
  BY <1>1 DEF RegisterActuatorStates, EnsureDeviceExists, DeviceState, HasState
<1>4. ASSUME NEW seen \in DeviceState, OK(seen) PROVE OK(RecordControllerActivity(seen))
  BY <1>4 DEF RecordControllerActivity, EnsureDeviceExists, DeviceState, HasState
<1>5. \A c, s \in BOOLEAN : OK(RecordBridgePingReply(dev, c, s))
  BY <1>1 DEF RecordBridgePingReply, EnsureDeviceExists, DeviceState, HasState
<1>6. \A h \in HomieStates :
        /\ OK(RecordHomieLifecycleState(dev, h))
        /\ OK(UpdateBridgeConnectionState(RecordHomieLifecycleState(dev, h), h))
  BY <1>1 DEF UpdateBridgeConnectionState, RecordHomieLifecycleState, EnsureDeviceExists,
              DeviceState, HasState
<1>7. OK(Older(dev)) /\ OK(NoDevice)
  BY <1>1 DEF Older, NoDevice, DeviceState, HasState
<1>8. OK(AfterCheckup(d))
  <2>1. Checkup(d).status \in Statuses
    BY <1>1, CheckupVerdict DEF Checkup, TypedAndConsistent, HealthTypeOK
  <2>2. \A status \in Statuses :
          /\ UpdateHealthFromResult(dev, status) \in DeviceState
          /\ OK(UpdateHealthFromResult(dev, status))
    <3>1. ASSUME NEW status \in Statuses
          PROVE  LET new == UpdateHealthFromResult(dev, status) IN
                 /\ new.hasDetails = dev.hasDetails
                 /\ new.actuators = dev.actuators
                 /\ new.stateOf = dev.stateOf
      BY <1>1 DEF UpdateHealthFromResult, Statuses, DeviceState
    <3> QED
      BY <1>1, <3>1, EntriesAreTyped DEF HasState
  <2>3. \A e \in DeviceState : OK(e) => OK(RecordAlertSent(e))
    BY DEF RecordAlertSent, EnsureDeviceExists, DeviceState, HasState
  <2> QED
    BY <1>1, <2>1, <2>2, <2>3 DEF AfterCheckup
<1>9. OK(registry'[d])
  <2> HIDE DEF OK
  <2>1. CASE Live(d)
    BY <1>1, <1>2, <1>3, <1>4, <2>1 DEF Live
  <2>2. CASE Retained(d)
    BY <1>2, <1>3, <1>6, <2>2 DEF Retained
  <2>3. CASE BridgeSpoke(d)
    BY <1>5, <1>6, <2>3 DEF BridgeSpoke
  <2>4. CASE Untouched(d) \/ Aged(d) \/ Removed(d) \/ Checked(d)
    BY <1>1, <1>7, <1>8, <2>4 DEF Untouched, Aged, Removed, Checked
  <2> QED
    BY <1>1, <2>1, <2>2, <2>3, <2>4 DEF EntryStep
<1> QED
  BY <1>9 DEF Decoded

\* Provided no device announces an empty actuator list, a state the click logic
\* may trust was decoded with the list the device has now.
THEOREM StateFollowsTopology ==
    ASSUME NoActuators \notin Topologies
    PROVE  Spec => []StateMatchesTopology
<1>1. Init => \A d \in Devices : Decoded(d)
  BY DEF Init, Decoded, NoDevice
<1>2. (\A d \in Devices : Decoded(d)) /\ TypedAndConsistent /\ [Next]_vars
        => (\A d \in Devices : Decoded(d))'
  BY DecodedStep
<1>3. (\A d \in Devices : Decoded(d)) => StateMatchesTopology
  BY DEF Decoded, StateMatchesTopology
<1> QED
  BY <1>1, <1>2, <1>3, InvariantIsInductive, PTL DEF Spec

-----------------------------------------------------------------------------
(* Pings *)

\* The clock of a ping in flight runs from the moment its frame left.
Clocked(d) == pingStates[d].status = "sent" => lastPing[d] = pingStates[d].elapsed

PingsClocked == TypedAndConsistent /\ \A d \in Devices : Clocked(d)

\* A message ends the ping state of the device that spoke and no other one.
LEMMA MessagePings ==
    ASSUME HealthTypeOK, NEW e \in Devices, Message(e), NEW d \in Devices
    PROVE  \/ pingStates'[d] = NoPing
           \/ pingStates'[d] = pingStates[d] /\ lastPing'[d] = lastPing[d]
<1>1. \/ UNCHANGED lastPing /\ pingStates' = [pingStates EXCEPT ![e] = pingStates[e]]
      \/ Heard(e) /\ pingStates' = [pingStates EXCEPT ![e] = NoPing]
  BY DEF Message, RetainedMessage, HandleLiveConf, HandleLiveState, HandleClickEvent,
         HandlePingReply, HandleBridgeReply, HandleLiveHomieState, HandleRemoval,
         HandleRetainedConf, HandleRetainedState, HandleRetainedHomieState,
         Handle, Reported, history
<1> QED
  BY <1>1 DEF HealthTypeOK, Heard

\* Every step keeps the clocks.
LEMMA ClockStep ==
    ASSUME PingsClocked, [Next]_vars, NEW d \in Devices
    PROVE  Clocked(d)'
<1> DEFINE ping == pingStates[d]
           Same == pingStates'[d] = ping /\ lastPing'[d] = lastPing[d]
<1>1. TypedAndConsistent /\ HealthTypeOK /\ Clocked(d) /\ ping \in PingState /\ registry[d] \in DeviceState
  BY DEF PingsClocked, TypedAndConsistent, HealthTypeOK
<1>2. Same \/ pingStates'[d].status # "sent" => Clocked(d)'
  BY <1>1 DEF Clocked
<1>3. NoPing.status # "sent" /\ Queued.status # "sent" /\ CancelQueued(ping) \in {ping, NoPing}
  BY DEF NoPing, Queued, CancelQueued
<1>4. CASE UNCHANGED vars
  BY <1>2, <1>4 DEF vars, history
<1>5. ASSUME NEW e \in Devices, Message(e) PROVE Clocked(d)'
  BY <1>1, <1>2, <1>3, <1>5, MessagePings
<1>6. ASSUME NEW next \in Configs, UpdateSystemConfig(next) PROVE Clocked(d)'
  BY <1>1, <1>2, <1>3, <1>6 DEF UpdateSystemConfig, PingsWithout
<1>7. CASE RefuseSystemConfig \/ DispatchStale
  BY <1>1, <1>2, <1>3, <1>7 DEF RefuseSystemConfig, DispatchStale, PingsWithout, history
<1>8. CASE VerifyInitialDeviceStates
  <2>1. pingStates'[d] \in {ping, Queued} /\ UNCHANGED lastPing
    BY <1>1, <1>8 DEF VerifyInitialDeviceStates, MarkStaggered, history
  <2> QED
    BY <1>2, <1>3, <2>1
<1>9. CASE RunWatchdogCheck
  <2>1. pingStates'[d] \in {ping, Queued, Checkup(d).ping} /\ UNCHANGED lastPing
    BY <1>1, <1>9 DEF RunWatchdogCheck, MarkStaggered
  <2>2. Checkup(d).ping \in {ping, Queued, NoPing}
    BY <1>1 DEF Checkup, CheckDeviceHealth, Answer, PingState
  <2> QED
    BY <1>2, <1>3, <2>1, <2>2
<1>10. CASE Dispatch
  BY <1>1, <1>2, <1>10 DEF Dispatch, Sent, Clocked
<1>11. CASE WakeDrain
  BY <1>2, <1>11 DEF WakeDrain, history
<1>12. CASE Tick
  <2>1. pingStates'[d] = Waited(ping)
    BY <1>12 DEF Tick
  <2>2. lastPing'[d] = IF lastPing[d] \in 0 .. PingTimeout THEN lastPing[d] + 1 ELSE lastPing[d]
    BY <1>12 DEF Tick
  <2> QED
    BY <1>1, <2>1, <2>2, PingTimeoutAssumption DEF Clocked, Waited, PingState
<1> QED
  BY <1>4, <1>5, <1>6, <1>7, <1>8, <1>9, <1>10, <1>11, <1>12 DEF Next, Input

\* The clocks are an inductive invariant.
LEMMA PingsStayClocked == Spec => []PingsClocked
<1>1. Init => \A d \in Devices : Clocked(d)
  BY DEF Init, Clocked, NoPing
<1>2. (\A d \in Devices : Clocked(d)) /\ TypedAndConsistent /\ [Next]_vars
        => (\A d \in Devices : Clocked(d))'
  BY ClockStep DEF PingsClocked
<1>3. TypedAndConsistent /\ (\A d \in Devices : Clocked(d)) => PingsClocked
  BY DEF PingsClocked
<1> QED
  BY <1>1, <1>2, <1>3, InvariantIsInductive, PTL DEF Spec

\* A device turns stale only when more than pingTimeout has passed since a ping
\* really left for it, with no live controller traffic since.
THEOREM StaleAfterUnansweredPing == Spec => StaleOnlyAfterUnansweredPing
<1>1. ASSUME PingsClocked, [Next]_vars, NEW d \in Devices,
             ~registry[d].isStale, registry'[d].isStale
      PROVE  lastPing[d] = PingTimeout + 1
  <2> DEFINE dev == registry[d]
             ping == pingStates[d]
  <2>1. /\ TypedAndConsistent /\ dev \in DeviceState /\ ping \in PingState
        /\ EntryStep(d) /\ Clocked(d)
    BY <1>1, EntrySteps DEF PingsClocked, TypedAndConsistent, HealthTypeOK
  <2>2. ~Untouched(d) /\ ~Aged(d) /\ ~Removed(d)
    BY <1>1, <2>1 DEF Untouched, Aged, Older, Removed, NoDevice, DeviceState
  <2>3. ~Live(d)
    BY <1>1 DEF Live, RecordControllerActivity, EnsureDeviceExists, DeviceState
  <2>4. ~Retained(d)
    BY <1>1, <2>1 DEF Retained, RegisterDeviceDetails, RegisterActuatorStates,
                      RecordHomieLifecycleState, EnsureDeviceExists, DeviceState
  <2>5. ~BridgeSpoke(d)
    BY <1>1, <2>1 DEF BridgeSpoke, RecordBridgePingReply, UpdateBridgeConnectionState,
                      RecordHomieLifecycleState, EnsureDeviceExists, DeviceState
  <2>6. Checked(d)
    BY <2>1, <2>2, <2>3, <2>4, <2>5 DEF EntryStep
  <2>7. AfterCheckup(d).isStale
    BY <1>1, <2>6 DEF Checked
  <2>8. d \in configured
    BY <1>1, <2>6 DEF Checked, RunWatchdogCheck
  <2>9. Silent(d)
    BY <1>1, <2>1, <2>7, <2>8, CheckupEffect DEF Missing, Fine, DeviceState
  <2> QED
    BY <2>1, <2>9, PingTimeoutAssumption DEF Clocked, Silent, TimedOut, PingState
<1>2. PingsClocked /\ [Next]_vars
        => [\A d \in Devices :
              ~registry[d].isStale /\ registry'[d].isStale => lastPing[d] = PingTimeout + 1]_vars
  BY <1>1
<1> QED
  BY <1>2, PingsStayClocked, PTL DEF Spec, StaleOnlyAfterUnansweredPing

-----------------------------------------------------------------------------
(* Outages as DeviceOutage promises them *)

SameMarks(d) ==
    /\ Way(d)' = Way(d)
    /\ registry'[d].isStale <=> registry[d].isStale
    /\ KeepsAlert(d)

Unmarked(d) == ~registry'[d].isStale /\ d \notin alerted'

\* An entry's news, as far as outages go.
News(d) ==
    \/ SameMarks(d)
    \/ Way(d)' # Way(d) /\ Unmarked(d)
    \/ Silent(d) /\ Way(d)' = "open" /\ registry'[d].isStale /\ d \notin alerted /\ d \in alerted'
    \/ Way(d) = "unknown" /\ Way(d)' = "none" /\ d \notin alerted /\ d \in alerted'
         /\ ~registry'[d].isStale

\* A ping leaves, time passes or the controller is heard; nothing else moves the
\* clock, and only the last of them is news.
LEMMA ClockMoves ==
    ASSUME TypedAndConsistent, [Next]_vars, NEW d \in Devices
    PROVE  \/ lastPing'[d] = lastPing[d]
           \/ lastPing'[d] = 0 /\ Untouched(d)
           \/ lastPing[d] \in 0 .. PingTimeout /\ lastPing'[d] = lastPing[d] + 1 /\ Aged(d)
           \/ Live(d)
<1>1. HealthTypeOK
  BY DEF TypedAndConsistent
<1>2. CASE UNCHANGED vars
  BY <1>2 DEF vars, history
<1>3. CASE Message(d)
  BY <1>3, MessageToDevice DEF Retained, BridgeSpoke, Reported, Removed
<1>4. ASSUME NEW e \in Devices \ {d}, Message(e) PROVE lastPing'[d] = lastPing[d]
  <2>1. UNCHANGED lastPing \/ Heard(e)
    BY <1>4 DEF Message, RetainedMessage, HandleLiveConf, HandleLiveState, HandleClickEvent,
         HandlePingReply, HandleBridgeReply, HandleLiveHomieState, HandleRemoval,
         HandleRetainedConf, HandleRetainedState, HandleRetainedHomieState, Reported, history
  <2> QED
    BY <1>1, <2>1 DEF Heard, HealthTypeOK
<1>5. CASE \/ \E next \in Configs : UpdateSystemConfig(next)
           \/ RefuseSystemConfig \/ VerifyInitialDeviceStates
           \/ RunWatchdogCheck \/ DispatchStale \/ WakeDrain
  BY <1>5 DEF UpdateSystemConfig, RefuseSystemConfig, VerifyInitialDeviceStates,
              RunWatchdogCheck, DispatchStale, WakeDrain, history
<1>6. CASE Dispatch
  BY <1>6 DEF Dispatch, Untouched, KeepsAlert
<1>7. CASE Tick
  BY <1>7 DEF Tick, Aged, KeepsAlert
<1> QED
  BY <1>2, <1>3, <1>4, <1>5, <1>6, <1>7 DEF Next, Input

\* Live traffic opens the way and ends the outage.
LEMMA LiveOpens ==
    ASSUME TypedAndConsistent, NEW d \in Devices, Live(d)
    PROVE  lastPing'[d] = NeverPinged /\ Way(d)' = "open" /\ Unmarked(d)
<1>1. PICK seen \in DeviceState : registry'[d] = RecordControllerActivity(seen)
  BY DEF Live
<1>2. /\ registry'[d].known /\ registry'[d].bridgeConnected /\ registry'[d].link = "up"
      /\ ~registry'[d].isStale
  BY <1>1 DEF RecordControllerActivity, EnsureDeviceExists, DeviceState
<1> QED
  BY <1>2 DEF Live, Way, Unmarked

\* Whatever else a step brings is one of the other kinds of news.
LEMMA NewsOfDevice ==
    ASSUME OutagesOnRecord, [Next]_vars, NEW d \in Devices
    PROVE  Live(d) \/ News(d)
<1> DEFINE dev == registry[d]
           new == registry'[d]
<1>1. TypedAndConsistent /\ Outage(d) /\ EntryStep(d)
  BY EntrySteps DEF OutagesOnRecord
<1>2. dev \in DeviceState /\ Consistent(dev)
  BY <1>1 DEF HealthTypeOK, TypedAndConsistent, RegistryConsistent
<1>3. CASE Untouched(d)
  BY <1>3 DEF Untouched, SameMarks, News, Way
<1>4. CASE Aged(d)
  <2>1. /\ new.known = dev.known /\ new.bridgeConnected = dev.bridgeConnected
        /\ new.link = dev.link /\ new.isStale = dev.isStale
    BY <1>2, <1>4 DEF Aged, Older, DeviceState
  <2> QED
    BY <1>4, <2>1 DEF Aged, SameMarks, News, Way
<1>5. CASE Retained(d)
  <2>1. /\ new.known /\ new.bridgeConnected = dev.bridgeConnected
        /\ new.link = dev.link /\ new.isStale = dev.isStale
    BY <1>2, <1>5 DEF Retained, RegisterDeviceDetails, RegisterActuatorStates,
                      RecordHomieLifecycleState, EnsureDeviceExists, DeviceState
  <2>2. ~dev.known => ~dev.bridgeConnected /\ ~dev.isStale /\ d \notin alerted
    BY <1>1, <1>2 DEF Outage, Consistent, NoDevice
  <2> QED
    BY <1>5, <2>1, <2>2 DEF Retained, KeepsAlert, SameMarks, Unmarked, News, Way
<1>6. CASE BridgeSpoke(d)
  <2> DEFINE Link == /\ new.known /\ new.bridgeConnected \in BOOLEAN
                     /\ new.bridgeConnected = dev.bridgeConnected /\ new.link # "down"
                          => new.isStale = dev.isStale
                     /\ new.bridgeConnected # dev.bridgeConnected \/ new.link = "down"
                          => ~new.isStale
                     /\ dev.link = "down" => ~dev.isStale /\ dev.bridgeConnected
                     /\ new.link = "down" => new.bridgeConnected
                     /\ ~dev.bridgeConnected => ~dev.isStale
  <2>1. Link
    <3>1. ASSUME NEW c \in BOOLEAN, NEW s \in BOOLEAN, new = RecordBridgePingReply(dev, c, s)
          PROVE  Link
      BY <1>2, <3>1 DEF RecordBridgePingReply, EnsureDeviceExists, DeviceState, Consistent
    <3>2. ASSUME NEW h \in HomieStates,
                 new = UpdateBridgeConnectionState(RecordHomieLifecycleState(dev, h), h)
          PROVE  Link
      BY <1>2, <3>2 DEF UpdateBridgeConnectionState, RecordHomieLifecycleState,
                        EnsureDeviceExists, DeviceState, Consistent, Links
    <3> QED
      BY <1>6, <3>1, <3>2 DEF BridgeSpoke
  <2>2. d \in alerted' <=> /\ d \in alerted
                           /\ new.bridgeConnected = dev.bridgeConnected
                           /\ new.link # "down"
    BY <1>6, <2>1 DEF BridgeSpoke, Reported
  <2>3. ~dev.known => ~dev.bridgeConnected /\ ~dev.isStale /\ d \notin alerted
    BY <1>1, <1>2 DEF Outage, Consistent, NoDevice
  <2>4. dev.link = "down" => d \notin alerted
    BY <1>1, <2>1 DEF Outage
  <2>5. new.bridgeConnected = dev.bridgeConnected /\ new.link # "down" => News(d)
    BY <2>1, <2>2, <2>3, <2>4 DEF KeepsAlert, SameMarks, Unmarked, News, Way
  <2>6. CASE new.link = "down"
    <3>1. ~new.isStale /\ d \notin alerted' /\ Way(d)' = "cut"
      BY <2>1, <2>2, <2>6 DEF Way
    <3>2. Way(d) = "cut" => ~dev.isStale /\ d \notin alerted
      BY <2>1, <2>4 DEF Way
    <3> QED
      BY <3>1, <3>2 DEF KeepsAlert, SameMarks, Unmarked, News
  <2>7. CASE new.bridgeConnected # dev.bridgeConnected
    <3>1. new.bridgeConnected \in BOOLEAN /\ dev.bridgeConnected \in BOOLEAN
      BY <1>2, <2>1 DEF DeviceState
    <3>2. Way(d)' # Way(d)
      BY <2>1, <2>3, <2>7, <3>1 DEF Way
    <3> QED
      BY <2>1, <2>2, <2>7, <3>2 DEF Unmarked, News
  <2> QED
    BY <2>5, <2>6, <2>7
<1>7. CASE Removed(d)
  <2>1. ~dev.known => ~dev.isStale /\ d \notin alerted
    BY <1>1, <1>2 DEF Outage, Consistent, NoDevice
  <2> QED
    BY <1>7, <2>1 DEF Removed, NoDevice, KeepsAlert, SameMarks, Unmarked, News, Way
<1>8. CASE Checked(d) /\ (d \notin configured \/ dev.isStale)
  <2>1. new = dev /\ KeepsAlert(d)
    BY <1>1, <1>8, CheckupKeepsStale
       DEF Checked, RunWatchdogCheck, UnhealthyDevicesForAlert, Outage, KeepsAlert
  <2> QED
    BY <2>1 DEF SameMarks, News, Way
<1>9. CASE Checked(d) /\ d \in configured /\ ~dev.isStale
  <2>1. CASE Missing(d)
    <3>1. dev = NoDevice /\ d \notin alerted
      BY <1>1, <1>2, <2>1 DEF Missing, Outage, Consistent
    <3> QED
      BY <1>9, <2>1, <3>1 DEF Missing, Checked, NoDevice, News, Way
  <2>2. CASE Silent(d)
    <3>1. d \notin alerted
      BY <1>1, <1>9, <2>2 DEF Silent, Outage
    <3>2. /\ new.isStale /\ new.known = dev.known
          /\ new.bridgeConnected = dev.bridgeConnected /\ new.link = dev.link
      BY <1>2, <1>9, <2>2 DEF Silent, Checked, DeviceState
    <3> QED
      BY <1>9, <2>2, <3>1, <3>2 DEF Silent, Checked, News, Way
  <2>3. CASE Fine(d)
    <3>1. /\ ~new.isStale /\ new.known = dev.known
          /\ new.bridgeConnected = dev.bridgeConnected /\ new.link = dev.link
      BY <1>2, <1>9, <2>3 DEF Fine, Checked, DeviceState
    <3> QED
      BY <1>9, <2>3, <3>1 DEF Fine, Checked, KeepsAlert, SameMarks, News, Way
  <2> QED
    BY <1>1, <1>9, <2>1, <2>2, <2>3, CheckupEffect
<1> QED
  BY <1>1, <1>3, <1>4, <1>5, <1>6, <1>7, <1>8, <1>9 DEF EntryStep

\* Each device's part in a step is one that DeviceOutage allows it.
LEMMA StepKeepsOutages ==
    ASSUME OutagesOnRecord, PingsClocked, [Next]_vars
    PROVE  Outages!Next
<1> SUFFICES ASSUME NEW d \in Devices
             PROVE  \/ Outages!Ask(d) \/ Outages!Wait(d) \/ Outages!Hear(d)
                    \/ Outages!ChangeWay(d) \/ Outages!Declare(d) \/ Outages!ReportMissing(d)
                    \/ lastPing'[d] = lastPing[d] /\ Outages!KeepsRecord(d)
  BY DEF Outages!Next
<1>1. TypedAndConsistent /\ Clocked(d) /\ pingStates[d] \in PingState
      /\ registry[d] \in DeviceState
  BY DEF PingsClocked, TypedAndConsistent, HealthTypeOK
<1>2. CASE Live(d)
  BY <1>1, <1>2, LiveOpens DEF Unmarked, Outages!Hear, Outages!EndsRecord
<1>3. SameMarks(d) => Outages!KeepsRecord(d)
  BY DEF SameMarks, KeepsAlert, Outages!KeepsRecord
<1>4. Untouched(d) \/ Aged(d) => Outages!KeepsRecord(d)
  <2>1. Untouched(d) => SameMarks(d)
    BY DEF Untouched, SameMarks, Way
  <2>2. Aged(d) => SameMarks(d)
    BY <1>1 DEF Aged, Older, DeviceState, SameMarks, Way
  <2> QED
    BY <1>3, <2>1, <2>2
<1>5. CASE lastPing'[d] = lastPing[d] /\ News(d)
  <2>1. CASE Way(d)' # Way(d) /\ Unmarked(d)
    BY <1>5, <2>1 DEF Unmarked, Outages!ChangeWay, Outages!EndsRecord
  <2>2. CASE Silent(d) /\ Way(d)' = "open" /\ registry'[d].isStale
             /\ d \notin alerted /\ d \in alerted'
    <3>1. lastPing[d] = PingTimeout + 1
      BY <1>1, <2>2, PingTimeoutAssumption DEF Silent, Clocked, TimedOut, PingState
    <3>2. Way(d) = "open"
      BY <2>2 DEF Silent, Way
    <3>3. ~registry[d].isStale
      BY <2>2 DEF OutagesOnRecord, Outage
    <3> QED
      BY <1>5, <2>2, <3>1, <3>2, <3>3 DEF Outages!Declare
  <2>3. CASE Way(d) = "unknown" /\ Way(d)' = "none" /\ d \notin alerted /\ d \in alerted'
             /\ ~registry'[d].isStale
    BY <1>5, <2>3 DEF Outages!ReportMissing
  <2> QED
    BY <1>3, <1>5, <2>1, <2>2, <2>3 DEF News
<1>6. CASE lastPing'[d] = 0 /\ Untouched(d)
  BY <1>4, <1>6 DEF Outages!Ask
<1>7. CASE lastPing[d] \in 0 .. PingTimeout /\ lastPing'[d] = lastPing[d] + 1 /\ Aged(d)
  BY <1>4, <1>7 DEF Outages!Wait
<1> QED
  BY <1>1, <1>2, <1>5, <1>6, <1>7, ClockMoves, NewsOfDevice

\* The service, its watchdog and the two output paths implement DeviceOutage: a
\* device is declared silent only after a ping that left went unanswered, the
\* declaration is its one report, and the outage lasts until there is news.
THEOREM ImplementsOutages == Spec => KeepsOutages
<1>1. Init => Outages!Init
  BY DEF Init, Outages!Init, Way, NoDevice
<1>2. OutagesOnRecord /\ PingsClocked /\ [Next]_vars => [Outages!Next]_(Outages!vars)
  BY StepKeepsOutages
<1> QED
  BY <1>1, <1>2, OutagesStayOnRecord, PingsStayClocked, PTL DEF Spec, KeepsOutages, Outages!Spec

=============================================================================
