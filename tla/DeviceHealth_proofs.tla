------------------------- MODULE DeviceHealth_proofs -------------------------
(***************************************************************************)
(* Type correctness of DeviceHealth and the consistency of the registry    *)
(* entries, for every set of devices, configurations and thresholds.       *)
(***************************************************************************)
EXTENDS DeviceHealth, FiniteSetTheorems, SequenceTheorems, TLAPS

-----------------------------------------------------------------------------
(* Registry entries *)

Statuses == {"ok", "stale", "unhealthy", "needs_ping", "retry_queued"}

\* Every registry update maps entries to entries.
LEMMA EntriesAreTyped ==
    ASSUME NEW dev \in DeviceState
    PROVE  /\ Older(dev) \in DeviceState
           /\ \A live \in BOOLEAN, a \in Topologies :
                RegisterDeviceDetails(dev, a, live) \in DeviceState
           /\ \A live \in BOOLEAN : RegisterActuatorStates(dev, live) \in DeviceState
           /\ \A h \in HomieStates : UpdateBridgeConnectionState(dev, h) \in DeviceState
           /\ \A h \in HomieStates : RecordHomieLifecycleState(dev, h) \in DeviceState
           /\ RecordControllerActivity(dev) \in DeviceState
           /\ \A c, s \in BOOLEAN : RecordBridgePingReply(dev, c, s) \in DeviceState
           /\ \A status \in Statuses : UpdateHealthFromResult(dev, status) \in DeviceState
           /\ RecordAlertSent(dev) \in DeviceState
  <1>0. 0 \in 0 .. InterrogateThreshold /\ NoState \in StateOf /\ {"up", "down"} \subseteq Links
    BY RegistryAssumption DEF StateOf, Links
  <1> USE <1>0 DEF DeviceState, EnsureDeviceExists
  <1>1. Older(dev) \in DeviceState
    <2>1. dev.lastSeen \in 0 .. InterrogateThreshold
      OBVIOUS
    <2>2. CASE SeenRecently(dev)
      <3>1. dev.lastSeen + 1 \in 0 .. InterrogateThreshold
        BY <2>1, <2>2, RegistryAssumption DEF SeenRecently
      <3> QED BY <2>2, <3>1 DEF Older
    <2>3. CASE ~SeenRecently(dev)
      BY <2>3 DEF Older
    <2> QED BY <2>2, <2>3
  <1>2. ASSUME NEW live \in BOOLEAN, NEW a \in Topologies
       PROVE  RegisterDeviceDetails(dev, a, live) \in DeviceState
    <2> DEFINE seen == IF live THEN 0 ELSE dev.lastSeen
               decoded == IF dev.actuators = a THEN dev.stateOf ELSE NoState
    <2>1. seen \in 0 .. InterrogateThreshold
      OBVIOUS
    <2>2. decoded \in StateOf /\ a \in ActuatorLists
      BY DEF ActuatorLists
    <2>3. RegisterDeviceDetails(dev, a, live) =
            [dev EXCEPT !.known = TRUE, !.lastSeen = seen, !.hasDetails = TRUE,
                        !.actuators = a, !.stateOf = decoded]
      BY DEF RegisterDeviceDetails
    <2> HIDE DEF seen, decoded
    <2> QED BY <2>1, <2>2, <2>3
  <1>3. ASSUME NEW live \in BOOLEAN
       PROVE  RegisterActuatorStates(dev, live) \in DeviceState
    <2> DEFINE seen == IF live THEN 0 ELSE dev.lastSeen
               decoded == IF dev.hasDetails THEN dev.actuators ELSE Undecoded
    <2>1. seen \in 0 .. InterrogateThreshold
      OBVIOUS
    <2>2. decoded \in StateOf
      BY DEF StateOf
    <2>3. RegisterActuatorStates(dev, live) =
            [dev EXCEPT !.known = TRUE, !.lastSeen = seen, !.stateOf = decoded]
      BY DEF RegisterActuatorStates
    <2> HIDE DEF seen, decoded
    <2> QED BY <2>1, <2>2, <2>3
  <1>4. ASSUME NEW h \in HomieStates
       PROVE  UpdateBridgeConnectionState(dev, h) \in DeviceState
    BY DEF UpdateBridgeConnectionState, Links
  <1>5. ASSUME NEW h \in HomieStates
       PROVE  RecordHomieLifecycleState(dev, h) \in DeviceState
    <2> DEFINE ready == h = "ready"
    <2>1. ready \in BOOLEAN
      OBVIOUS
    <2>2. RecordHomieLifecycleState(dev, h) = [dev EXCEPT !.known = TRUE, !.homieReady = ready]
      BY DEF RecordHomieLifecycleState
    <2> HIDE DEF ready
    <2> QED BY <2>1, <2>2
  <1>6. RecordControllerActivity(dev) \in DeviceState
    <2> DEFINE alert == dev.alertSent /\ ~BecomesHealthy(dev)
    <2>1. alert \in BOOLEAN
      OBVIOUS
    <2>2. RecordControllerActivity(dev) =
            [dev EXCEPT !.known = TRUE, !.lastSeen = 0, !.connected = TRUE,
                        !.bridgeConnected = TRUE, !.link = "up", !.isHealthy = TRUE,
                        !.isStale = FALSE, !.alertSent = alert]
      BY DEF RecordControllerActivity
    <2> HIDE DEF alert
    <2> QED BY <2>1, <2>2
  <1>7. ASSUME NEW c \in BOOLEAN, NEW s \in BOOLEAN
       PROVE  RecordBridgePingReply(dev, c, s) \in DeviceState
    <2> DEFINE link == IF c THEN "up" ELSE "down"
               decoded == IF SnapshotInvalidated(dev, c, s) THEN NoState ELSE dev.stateOf
               connected == dev.connected /\ c
               healthy == dev.isHealthy /\ c
               stale == dev.isStale /\ c
    <2>1. link \in Links /\ decoded \in StateOf
      OBVIOUS
    <2>2. connected \in BOOLEAN /\ healthy \in BOOLEAN /\ stale \in BOOLEAN
      OBVIOUS
    <2>3. RecordBridgePingReply(dev, c, s) =
            [dev EXCEPT !.known = TRUE, !.bridgeConnected = TRUE, !.link = link,
                        !.connected = connected, !.isHealthy = healthy, !.isStale = stale,
                        !.stateOf = decoded]
      BY DEF RecordBridgePingReply
    <2> HIDE DEF link, decoded, connected, healthy, stale
    <2> QED BY <2>1, <2>2, <2>3
  <1>8. ASSUME NEW status \in Statuses
       PROVE  UpdateHealthFromResult(dev, status) \in DeviceState
    BY DEF UpdateHealthFromResult, Statuses
  <1>9. RecordAlertSent(dev) \in DeviceState
    BY DEF RecordAlertSent
  <1> QED BY <1>1, <1>2, <1>3, <1>4, <1>5, <1>6, <1>7, <1>8, <1>9

\* The missing entry is an entry, and a consistent one.
LEMMA NoDeviceIsConsistent == NoDevice \in DeviceState /\ Consistent(NoDevice)
  BY RegistryAssumption DEF NoDevice, DeviceState, Consistent, Links, ActuatorLists, StateOf

\* Every registry update keeps an entry consistent; the watchdog's "ok" does so
\* because it is only applied to connected devices.
LEMMA EntriesStayConsistent ==
    ASSUME NEW dev \in DeviceState, Consistent(dev)
    PROVE  /\ Consistent(Older(dev))
           /\ \A live \in BOOLEAN, a \in Topologies :
                Consistent(RegisterDeviceDetails(dev, a, live))
           /\ \A live \in BOOLEAN : Consistent(RegisterActuatorStates(dev, live))
           /\ \A h \in HomieStates : Consistent(UpdateBridgeConnectionState(dev, h))
           /\ \A h \in HomieStates : Consistent(RecordHomieLifecycleState(dev, h))
           /\ Consistent(RecordControllerActivity(dev))
           /\ \A c, s \in BOOLEAN : Consistent(RecordBridgePingReply(dev, c, s))
           /\ dev.connected => Consistent(UpdateHealthFromResult(dev, "ok"))
           /\ dev.bridgeConnected /\ dev.link # "down" => Consistent(UpdateHealthFromResult(dev, "stale"))
           /\ ~dev.connected => Consistent(RecordAlertSent(dev))
  <1> USE RegistryAssumption DEF DeviceState, Consistent, EnsureDeviceExists
  <1>1. Consistent(Older(dev))
    <2>1. CASE SeenRecently(dev)
      <3>1. dev.known
        BY <2>1 DEF SeenRecently, NoDevice
      <3>2. Older(dev) = [dev EXCEPT !.lastSeen = dev.lastSeen + 1]
        BY <2>1 DEF Older
      <3> QED BY <3>1, <3>2
    <2>2. CASE ~SeenRecently(dev)
      BY <2>2 DEF Older
    <2> QED BY <2>1, <2>2
  <1>2. ASSUME NEW live \in BOOLEAN, NEW a \in Topologies
       PROVE  Consistent(RegisterDeviceDetails(dev, a, live))
    BY DEF RegisterDeviceDetails
  <1>3. ASSUME NEW live \in BOOLEAN
       PROVE  Consistent(RegisterActuatorStates(dev, live))
    BY DEF RegisterActuatorStates
  <1>4. ASSUME NEW h \in HomieStates
       PROVE  Consistent(UpdateBridgeConnectionState(dev, h))
    BY DEF UpdateBridgeConnectionState, HomieStates
  <1>5. ASSUME NEW h \in HomieStates
       PROVE  Consistent(RecordHomieLifecycleState(dev, h))
    BY DEF RecordHomieLifecycleState
  <1>6. Consistent(RecordControllerActivity(dev))
    BY DEF RecordControllerActivity, BecomesHealthy
  <1>7. ASSUME NEW c \in BOOLEAN, NEW s \in BOOLEAN
       PROVE  Consistent(RecordBridgePingReply(dev, c, s))
    BY DEF RecordBridgePingReply
  <1>8. dev.connected => Consistent(UpdateHealthFromResult(dev, "ok"))
    BY DEF UpdateHealthFromResult
  <1>9. dev.bridgeConnected /\ dev.link # "down" => Consistent(UpdateHealthFromResult(dev, "stale"))
    BY DEF UpdateHealthFromResult
  <1>10. ~dev.connected => Consistent(RecordAlertSent(dev))
    BY DEF RecordAlertSent
  <1> QED BY <1>1, <1>2, <1>3, <1>4, <1>5, <1>6, <1>7, <1>8, <1>9, <1>10

-----------------------------------------------------------------------------
(* Pings, frames and snapshot recovery *)

\* Every ping state operation yields a ping state.
LEMMA PingsAreTyped ==
    /\ NoPing \in PingState /\ Queued \in PingState /\ Sent \in PingState
    /\ \A ping \in PingState : Waited(ping) \in PingState /\ CancelQueued(ping) \in PingState
  <1> USE PingTimeoutAssumption DEF PingState
  <1>1. NoPing \in PingState /\ Queued \in PingState /\ Sent \in PingState
    BY DEF NoPing, Queued, Sent
  <1>2. ASSUME NEW ping \in PingState PROVE CancelQueued(ping) \in PingState
    BY <1>1 DEF CancelQueued
  <1>3. ASSUME NEW ping \in PingState PROVE Waited(ping) \in PingState
    <2>1. CASE ping.elapsed <= PingTimeout
      <3>1. ping.elapsed + 1 \in 0 .. PingTimeout + 1
        BY <2>1
      <3> QED BY <3>1 DEF Waited
    <2>2. CASE ~(ping.elapsed <= PingTimeout)
      BY <2>2 DEF Waited
    <2> QED BY <2>1, <2>2
  <1> QED BY <1>1, <1>2, <1>3

\* What a health check answers, and what its verdict says of the entry.
LEMMA CheckupVerdict ==
    ASSUME NEW dev \in DeviceState, NEW ping \in PingState
    PROVE  LET answer == CheckDeviceHealth(dev, ping) IN
           /\ answer.ping \in PingState
           /\ answer.status \in Statuses
           /\ answer.status = "unhealthy" => ~dev.known
           /\ answer.status = "stale" => dev.connected \/ dev.bridgeConnected
  <1>1. CASE ~dev.known
    BY <1>1 DEF CheckDeviceHealth, Answer, Statuses
  <1>2. CASE dev.known
    <2>1. CASE ~dev.connected /\ ~dev.bridgeConnected
      BY <1>2, <2>1, PingsAreTyped DEF CheckDeviceHealth, Answer, Statuses
    <2>2. CASE dev.connected \/ dev.bridgeConnected
      BY <1>2, <2>2, PingsAreTyped DEF CheckDeviceHealth, Answer, Statuses, PingState
    <2> QED BY <2>1, <2>2
  <1> QED BY <1>1, <1>2

\* There are finitely many frames, so a burst is a finite sequence of them.
LEMMA FramesAreFinite == IsFiniteSet(Frame)
  <1> DEFINE Kinds == {"ping", "details", "state", "probe"}
             Addressees == Devices \cup {AllBridges}
             f == [p \in Kinds \X Addressees |-> [kind |-> p[1], to |-> p[2]]]
  <1>1. IsFiniteSet(Kinds)
    <2>1. IsFiniteSet({"ping"})
      BY FS_Singleton
    <2>2. IsFiniteSet({"ping"} \cup {"details"})
      BY <2>1, FS_AddElement
    <2>3. IsFiniteSet({"ping"} \cup {"details"} \cup {"state"})
      BY <2>2, FS_AddElement
    <2>4. IsFiniteSet({"ping"} \cup {"details"} \cup {"state"} \cup {"probe"})
      BY <2>3, FS_AddElement
    <2>5. Kinds = {"ping"} \cup {"details"} \cup {"state"} \cup {"probe"}
      OBVIOUS
    <2> QED BY <2>4, <2>5
  <1>2. IsFiniteSet(Addressees)
    BY HealthAssumption, FS_AddElement
  <1>3. IsFiniteSet(Kinds \X Addressees)
    BY <1>1, <1>2, FS_Product
  <1>4. f \in Surjection(Kinds \X Addressees, Frame)
    <2>1. f \in [Kinds \X Addressees -> Frame]
      BY DEF Frame
    <2>2. ASSUME NEW frame \in Frame PROVE \E p \in Kinds \X Addressees : f[p] = frame
      <3>1. <<frame.kind, frame.to>> \in Kinds \X Addressees
        BY DEF Frame
      <3>2. f[<<frame.kind, frame.to>>] = frame
        BY <3>1 DEF Frame
      <3> QED BY <3>1, <3>2
    <2> QED BY <2>1, <2>2 DEF Surjection
  <1> QED BY <1>3, <1>4, FS_Surjection

\* Every burst is a sequence of frames.
LEMMA BurstsAreSequences ==
    ASSUME NEW F \in SUBSET Frame, NEW s \in Bursts(F)
    PROVE  s \in Seq(Frame)
  <1>1. Cardinality(F) \in Nat
    BY FramesAreFinite, FS_Subset, FS_CardinalityType
  <1>2. s \in [1 .. Cardinality(F) -> Frame]
    BY DEF Bursts
  <1> QED BY <1>1, <1>2

\* The number of snapshot requests in a list of frames is a natural number.
LEMMA SnapshotFramesIsNat ==
    ASSUME NEW frames \in Seq(Frame), NEW d
    PROVE  SnapshotFrames(frames, d) \in Nat
  <1> DEFINE S == {i \in DOMAIN frames : frames[i] \in SnapshotRequests(d)}
  <1>1. DOMAIN frames = 1 .. Len(frames) /\ Len(frames) \in Nat
    OBVIOUS
  <1>2. IsFiniteSet(DOMAIN frames)
    BY <1>1, FS_Interval
  <1>3. Cardinality(S) \in Nat
    BY <1>2, FS_Subset, FS_CardinalityType
  <1> QED BY <1>3 DEF SnapshotFrames

\* The queues are well formed.
OutputOK == sendQueue \in Seq(Operation) /\ lowPriority \in Seq(Frame) /\ drainAsleep \in BOOLEAN

\* Sending one operation keeps the queues well formed.
LEMMA SendKeepsType ==
    ASSUME OutputOK, NEW frames \in Seq(Frame), Send(frames)
    PROVE  OutputOK'
  <1>1. Immediate(frames) \in Operation
    BY DEF Immediate, Operation
  <1>2. CASE frames = <<>>
    BY <1>2 DEF OutputOK, Send
  <1>3. CASE frames # <<>>
    BY <1>1, <1>3 DEF OutputOK, Send
  <1> QED BY <1>2, <1>3

\* So does handing a burst to the drain.
LEMMA SendStaggeredKeepsType ==
    ASSUME OutputOK, NEW frames \in Seq(Frame), SendStaggered(frames)
    PROVE  OutputOK'
  <1>1. CASE Len(frames) <= 1
    BY <1>1, SendKeepsType DEF SendStaggered
  <1>2. CASE ~(Len(frames) <= 1)
    <2>1. Head(frames) \in Frame /\ Tail(frames) \in Seq(Frame)
      BY <1>2
    <2>2. DrainOne(Head(frames)) \in Operation
      BY <2>1 DEF DrainOne, Operation
    <2>3. drainAsleep' = drainAsleep
      BY <1>2 DEF SendStaggered
    <2>4. CASE DrainActive
      <3>1. lowPriority' = lowPriority \o frames /\ sendQueue' = sendQueue
        BY <1>2, <2>4 DEF SendStaggered
      <3> QED BY <2>3, <3>1 DEF OutputOK
    <2>5. CASE ~DrainActive
      <3>1. lowPriority' = Tail(frames) /\ sendQueue' = Append(sendQueue, DrainOne(Head(frames)))
        BY <1>2, <2>5 DEF SendStaggered
      <3> QED BY <2>1, <2>2, <2>3, <3>1 DEF OutputOK
    <2> QED BY <2>4, <2>5
  <1> QED BY <1>1, <1>2

\* Snapshot recovery yields frames and tracking of the right kind.
LEMMA RecoveryIsTyped ==
    ASSUME NEW d \in Devices, NEW dev \in DeviceState, NEW tracking \in Recovery,
           NEW force \in BOOLEAN, NEW n \in Nat
    PROVE  /\ NoTracking \in Recovery
           /\ MissingFrames(d, dev) \in Seq(Frame)
           /\ RequestedFrames(d, dev, tracking, force) \in Seq(Frame)
           /\ ClearIfSatisfied(dev, tracking) \in Recovery
           /\ AfterRequest(d, dev, tracking, force) \in Recovery
           /\ AfterDispatch(tracking, n) \in Recovery
  <1>1. NoTracking \in Recovery
    BY PingTimeoutAssumption DEF NoTracking, Recovery
  <1>2. RequestDetails(d) \in Frame /\ RequestState(d) \in Frame
    BY DEF RequestDetails, RequestState, Frame
  <1>3. /\ MissingFrames(d, dev) \in Seq(Frame)
        /\ Len(MissingFrames(d, dev)) \in 0 .. 2
    BY <1>2 DEF MissingFrames
  <1>4. RequestedFrames(d, dev, tracking, force) \in Seq(Frame)
    BY <1>3 DEF RequestedFrames
  <1>5. ClearIfSatisfied(dev, tracking) \in Recovery
    BY <1>1 DEF ClearIfSatisfied
  <1>6. AfterRequest(d, dev, tracking, force) \in Recovery
    BY <1>1, <1>3 DEF AfterRequest, Recovery
  <1>7. AfterDispatch(tracking, n) \in Recovery
    BY PingTimeoutAssumption DEF AfterDispatch, Recovery
  <1> QED BY <1>1, <1>3, <1>4, <1>5, <1>6, <1>7

-----------------------------------------------------------------------------
(* The invariant: types, and consistent registry entries *)

TypedAndConsistent == HealthTypeOK /\ RegistryConsistent

\* A step of a handler leaves a typed state and consistent entries behind, once
\* the entry, ping state, tracking and frames it computes are of the right kind.
LEMMA HandleKeepsInvariant ==
    ASSUME TypedAndConsistent,
           NEW d \in Devices, NEW dev \in DeviceState, Consistent(dev),
           NEW ping \in PingState, NEW tracking \in Recovery, NEW frames \in Seq(Frame),
           Handle(d, dev, ping, tracking, frames), Heard(d) \/ Reported(d) \/ UNCHANGED history
    PROVE  TypedAndConsistent'
  <1> USE DEF TypedAndConsistent
  <1>1. OutputOK'
    BY SendKeepsType DEF HealthTypeOK, OutputOK, Handle
  <1>2. /\ registry' \in [Devices -> DeviceState]
        /\ pingStates' \in [Devices -> PingState]
        /\ recovery' \in [Devices -> Recovery]
        /\ configured' \in Configs /\ bridgeProbe' \in PingState
    BY DEF HealthTypeOK, Handle
  <1>3. /\ lastPing' \in [Devices -> Ages \cup {NeverPinged}] /\ lastProbe' \in Ages
        /\ alerted' \in SUBSET Devices
    BY DEF HealthTypeOK, Heard, Reported, history
  <1>4. RegistryConsistent'
    BY DEF HealthTypeOK, RegistryConsistent, Handle
  <1> QED BY <1>1, <1>2, <1>3, <1>4 DEF HealthTypeOK, OutputOK

\* Every inbound message keeps the invariant.
LEMMA MessageKeepsInvariant ==
    ASSUME TypedAndConsistent, NEW d \in Devices, Message(d)
    PROVE  TypedAndConsistent'
  <1> DEFINE old == registry[d]
  <1>1. old \in DeviceState /\ Consistent(old)
    BY DEF TypedAndConsistent, HealthTypeOK, RegistryConsistent
  <1>2. pingStates[d] \in PingState /\ recovery[d] \in Recovery
    BY DEF TypedAndConsistent, HealthTypeOK
  <1>3. NoPing \in PingState /\ NoTracking \in Recovery /\ <<>> \in Seq(Frame)
    BY PingsAreTyped, PingTimeoutAssumption DEF NoTracking, Recovery
  <1>4. FramesForUnknownDetails(d) \in Seq(Frame)
    <2>1. RequestDetails(d) \in Frame
      BY DEF RequestDetails, Frame
    <2> QED BY <2>1 DEF FramesForUnknownDetails
  <1>5. ASSUME NEW x \in DeviceState, Consistent(x)
        PROVE  /\ RecordControllerActivity(x) \in DeviceState
               /\ Consistent(RecordControllerActivity(x))
    BY <1>5, EntriesAreTyped, EntriesStayConsistent
  <1>6. ASSUME NEW x \in DeviceState PROVE ClearIfSatisfied(x, recovery[d]) \in Recovery
    BY <1>2, <1>3 DEF ClearIfSatisfied
  <1>7. ASSUME NEW x \in DeviceState, NEW t \in Recovery, NEW force \in BOOLEAN
        PROVE  /\ RequestedFrames(d, x, t, force) \in Seq(Frame)
               /\ AfterRequest(d, x, t, force) \in Recovery
    BY RecoveryIsTyped, 0 \in Nat
  <1>8. ASSUME NEW a \in Topologies, HandleLiveConf(d, a) PROVE TypedAndConsistent'
    <2> DEFINE seen == RegisterDeviceDetails(old, a, TRUE)
               dev == RecordControllerActivity(seen)
    <2>1. seen \in DeviceState /\ Consistent(seen)
      BY <1>1, EntriesAreTyped, EntriesStayConsistent
    <2>2. dev \in DeviceState /\ Consistent(dev)
      BY <1>5, <2>1
    <2>3. Handle(d, dev, NoPing, ClearIfSatisfied(dev, recovery[d]), <<>>) /\ Heard(d)
      BY <1>8 DEF HandleLiveConf
    <2> HIDE DEF dev
    <2> QED BY <1>3, <1>6, <2>2, <2>3, HandleKeepsInvariant
  <1>9. ASSUME HandleLiveState(d) PROVE TypedAndConsistent'
    <2> DEFINE seen == RegisterActuatorStates(old, TRUE)
               dev == RecordControllerActivity(seen)
    <2>1. seen \in DeviceState /\ Consistent(seen)
      BY <1>1, EntriesAreTyped, EntriesStayConsistent
    <2>2. dev \in DeviceState /\ Consistent(dev)
      BY <1>5, <2>1
    <2>3. /\ Handle(d, dev, NoPing, ClearIfSatisfied(dev, recovery[d]), FramesForUnknownDetails(d))
          /\ Heard(d)
      BY <1>9 DEF HandleLiveState
    <2> HIDE DEF dev
    <2> QED BY <1>3, <1>4, <1>6, <2>2, <2>3, HandleKeepsInvariant
  <1>10. ASSUME HandleClickEvent(d) PROVE TypedAndConsistent'
    <2> DEFINE dev == RecordControllerActivity(old)
    <2>1. dev \in DeviceState /\ Consistent(dev)
      BY <1>1, <1>5
    <2>2. Handle(d, dev, NoPing, ClearIfSatisfied(dev, recovery[d]), <<>>) /\ Heard(d)
      BY <1>10 DEF HandleClickEvent
    <2> HIDE DEF dev
    <2> QED BY <1>3, <1>6, <2>1, <2>2, HandleKeepsInvariant
  <1>11. ASSUME HandlePingReply(d) PROVE TypedAndConsistent'
    <2> DEFINE dev == RecordControllerActivity(old)
               tracking == ClearIfSatisfied(dev, recovery[d])
    <2>1. dev \in DeviceState /\ Consistent(dev)
      BY <1>1, <1>5
    <2>2. tracking \in Recovery
      BY <1>6, <2>1
    <2>3. /\ Handle(d, dev, NoPing, AfterRequest(d, dev, tracking, FALSE),
                    RequestedFrames(d, dev, tracking, FALSE))
          /\ Heard(d)
      BY <1>11 DEF HandlePingReply
    <2> HIDE DEF dev, tracking
    <2>4. /\ AfterRequest(d, dev, tracking, FALSE) \in Recovery
          /\ RequestedFrames(d, dev, tracking, FALSE) \in Seq(Frame)
      BY <1>7, <2>1, <2>2
    <2> QED BY <1>3, <2>1, <2>3, <2>4, HandleKeepsInvariant
  <1>12. ASSUME NEW c \in BOOLEAN, NEW s \in BOOLEAN, HandleBridgeReply(d, c, s)
         PROVE  TypedAndConsistent'
    <2> DEFINE dev == RecordBridgePingReply(old, c, s)
               force == SnapshotInvalidated(old, c, s)
    <2>1. dev \in DeviceState /\ Consistent(dev)
      BY <1>1, EntriesAreTyped, EntriesStayConsistent
    <2>2. force \in BOOLEAN
      BY DEF SnapshotInvalidated, HasState
    <2>3. /\ IF c THEN Handle(d, dev, pingStates[d], AfterRequest(d, dev, recovery[d], force),
                              RequestedFrames(d, dev, recovery[d], force))
                  ELSE Handle(d, dev, pingStates[d], NoTracking, <<>>)
          /\ Reported(d)
      BY <1>12 DEF HandleBridgeReply
    <2> HIDE DEF dev, force
    <2>4. /\ AfterRequest(d, dev, recovery[d], force) \in Recovery
          /\ RequestedFrames(d, dev, recovery[d], force) \in Seq(Frame)
      BY <1>2, <1>7, <2>1, <2>2
    <2> QED BY <1>2, <1>3, <2>1, <2>3, <2>4, HandleKeepsInvariant
  <1>13. ASSUME NEW h \in HomieStates, HandleLiveHomieState(d, h) PROVE TypedAndConsistent'
    <2> DEFINE seen == RecordHomieLifecycleState(old, h)
               dev == UpdateBridgeConnectionState(seen, h)
               came == h = "ready" /\ ~old.bridgeConnected
               kept == IF h = "offline" /\ (old.bridgeConnected \/ old.homieReady)
                       THEN NoTracking ELSE recovery[d]
    <2>1. seen \in DeviceState /\ Consistent(seen)
      BY <1>1, EntriesAreTyped, EntriesStayConsistent
    <2> HIDE DEF seen
    <2>2. dev \in DeviceState /\ Consistent(dev)
      BY <2>1, EntriesAreTyped, EntriesStayConsistent
    <2> USE DEF seen
    <2>3. /\ IF came THEN Handle(d, dev, pingStates[d], AfterRequest(d, dev, recovery[d], TRUE),
                                 RequestedFrames(d, dev, recovery[d], TRUE))
                     ELSE Handle(d, dev, pingStates[d], kept, <<>>)
          /\ Reported(d)
      BY <1>13 DEF HandleLiveHomieState
    <2>4. kept \in Recovery
      BY <1>2, <1>3
    <2> HIDE DEF seen, dev, came, kept
    <2>5. /\ AfterRequest(d, dev, recovery[d], TRUE) \in Recovery
          /\ RequestedFrames(d, dev, recovery[d], TRUE) \in Seq(Frame)
      BY <1>2, <1>7, <2>2
    <2> QED BY <1>2, <1>3, <2>2, <2>3, <2>4, <2>5, HandleKeepsInvariant
  <1>14. ASSUME HandleRemoval(d) PROVE TypedAndConsistent'
    BY <1>2, <1>3, <1>14, NoDeviceIsConsistent, HandleKeepsInvariant DEF HandleRemoval
  <1>15. ASSUME RetainedMessage(d) PROVE TypedAndConsistent'
    <2>1. ASSUME NEW a \in Topologies, HandleRetainedConf(d, a) PROVE TypedAndConsistent'
      <3> DEFINE dev == RegisterDeviceDetails(old, a, FALSE)
      <3>1. dev \in DeviceState /\ Consistent(dev)
        BY <1>1, EntriesAreTyped, EntriesStayConsistent
      <3>2. /\ Handle(d, dev, pingStates[d], ClearIfSatisfied(dev, recovery[d]), <<>>)
            /\ UNCHANGED history
        BY <2>1 DEF HandleRetainedConf
      <3> HIDE DEF dev
      <3> QED BY <1>2, <1>3, <1>6, <3>1, <3>2, HandleKeepsInvariant
    <2>2. ASSUME HandleRetainedState(d) PROVE TypedAndConsistent'
      <3> DEFINE dev == RegisterActuatorStates(old, FALSE)
      <3>1. dev \in DeviceState /\ Consistent(dev)
        BY <1>1, EntriesAreTyped, EntriesStayConsistent
      <3>2. /\ Handle(d, dev, pingStates[d], ClearIfSatisfied(dev, recovery[d]),
                      FramesForUnknownDetails(d))
            /\ UNCHANGED history
        BY <2>2 DEF HandleRetainedState
      <3> HIDE DEF dev
      <3> QED BY <1>2, <1>4, <1>6, <3>1, <3>2, HandleKeepsInvariant
    <2>3. ASSUME NEW h \in HomieStates, HandleRetainedHomieState(d, h) PROVE TypedAndConsistent'
      <3> DEFINE dev == RecordHomieLifecycleState(old, h)
      <3>1. dev \in DeviceState /\ Consistent(dev)
        BY <1>1, EntriesAreTyped, EntriesStayConsistent
      <3>2. Handle(d, dev, pingStates[d], recovery[d], <<>>) /\ UNCHANGED history
        BY <2>3 DEF HandleRetainedHomieState
      <3> HIDE DEF dev
      <3> QED BY <1>2, <1>3, <3>1, <3>2, HandleKeepsInvariant
    <2> QED BY <1>15, <2>1, <2>2, <2>3 DEF RetainedMessage
  <1> QED BY <1>8, <1>9, <1>10, <1>11, <1>12, <1>13, <1>14, <1>15 DEF Message

\* Cancelled tracking stays of the right kind.
LEMMA CancellingKeepsType ==
    ASSUME HealthTypeOK, NEW frames \in Seq(Frame)
    PROVE  /\ PingsWithout(frames) \in [Devices -> PingState]
           /\ ProbeWithout(frames) \in PingState
           /\ RecoveryWithout(frames) \in [Devices -> Recovery]
  <1>1. NoTracking \in Recovery
    BY PingTimeoutAssumption DEF NoTracking, Recovery
  <1>2. PingsWithout(frames) \in [Devices -> PingState]
    BY PingsAreTyped DEF HealthTypeOK, PingsWithout
  <1>3. ProbeWithout(frames) \in PingState
    BY PingsAreTyped DEF HealthTypeOK, ProbeWithout
  <1>4. RecoveryWithout(frames) \in [Devices -> Recovery]
    BY <1>1 DEF HealthTypeOK, RecoveryWithout
  <1> QED BY <1>2, <1>3, <1>4

\* The operation at the head of a queue, and what is left of the queue.
LEMMA HeadIsTyped ==
    ASSUME NEW queue \in Seq(Operation), queue # <<>>
    PROVE  /\ Head(queue).frames \in Seq(Frame)
           /\ Tail(queue) \in Seq(Operation)
  <1>1. Head(queue) \in Operation /\ Tail(queue) \in Seq(Operation)
    OBVIOUS
  <1> QED BY <1>1 DEF Operation

\* The output steps keep the invariant: the registry is not theirs.
LEMMA OutputKeepsInvariant ==
    ASSUME TypedAndConsistent, Dispatch \/ DispatchStale \/ WakeDrain
    PROVE  TypedAndConsistent'
  <1> USE DEF TypedAndConsistent
  <1>1. HealthTypeOK
    OBVIOUS
  <1>2. RegistryConsistent'
    BY DEF RegistryConsistent, Dispatch, DispatchStale, WakeDrain
  <1>3. ASSUME Dispatch PROVE HealthTypeOK'
    <2> DEFINE frames == Head(sendQueue).frames
    <2>1. frames \in Seq(Frame) /\ Tail(sendQueue) \in Seq(Operation)
      BY <1>1, <1>3, HeadIsTyped DEF HealthTypeOK, Dispatch
    <2>2. /\ sendQueue' = Tail(sendQueue)
          /\ pingStates' = [d \in Devices |-> IF Ping(d) \in FramesOf(frames) THEN Sent
                                              ELSE pingStates[d]]
          /\ bridgeProbe' = IF Probe \in FramesOf(frames) THEN Sent ELSE bridgeProbe
          /\ recovery' = [d \in Devices |-> AfterDispatch(recovery[d], SnapshotFrames(frames, d))]
          /\ lastPing' = [d \in Devices |-> IF Ping(d) \in FramesOf(frames) THEN 0 ELSE lastPing[d]]
          /\ lastProbe' = IF Probe \in FramesOf(frames) THEN 0 ELSE lastProbe
          /\ UNCHANGED <<registry, configured, lowPriority, alerted>>
      BY <1>3 DEF Dispatch
    <2>3. drainAsleep' \in BOOLEAN
      BY <1>1, <1>3 DEF HealthTypeOK, Dispatch
    <2> HIDE DEF frames
    <2>4. recovery' \in [Devices -> Recovery]
      <3>1. ASSUME NEW d \in Devices
            PROVE  AfterDispatch(recovery[d], SnapshotFrames(frames, d)) \in Recovery
        <4>1. SnapshotFrames(frames, d) \in Nat /\ recovery[d] \in Recovery
          BY <1>1, <2>1, SnapshotFramesIsNat DEF HealthTypeOK
        <4> QED BY <4>1, PingTimeoutAssumption DEF AfterDispatch, Recovery
      <3> QED BY <2>2, <3>1
    <2>5. pingStates' \in [Devices -> PingState] /\ bridgeProbe' \in PingState
      BY <1>1, <2>2, PingsAreTyped DEF HealthTypeOK
    <2>6. 0 \in Ages
      BY PingTimeoutAssumption DEF Ages
    <2>7. lastPing' \in [Devices -> Ages \cup {NeverPinged}] /\ lastProbe' \in Ages
      BY <1>1, <2>2, <2>6 DEF HealthTypeOK
    <2> QED BY <1>1, <2>1, <2>2, <2>3, <2>4, <2>5, <2>7 DEF HealthTypeOK
  <1>4. ASSUME DispatchStale PROVE HealthTypeOK'
    <2>1. Head(sendQueue).frames \in Seq(Frame) /\ Tail(sendQueue) \in Seq(Operation)
      BY <1>1, <1>4, HeadIsTyped DEF HealthTypeOK, DispatchStale
    <2>2. /\ pingStates' \in [Devices -> PingState] /\ bridgeProbe' \in PingState
          /\ recovery' \in [Devices -> Recovery]
      BY <1>1, <1>4, <2>1, CancellingKeepsType DEF DispatchStale
    <2> QED BY <1>1, <1>4, <2>1, <2>2 DEF HealthTypeOK, DispatchStale, history
  <1>5. ASSUME WakeDrain PROVE HealthTypeOK'
    <2>1. CASE lowPriority = <<>>
      BY <1>1, <1>5, <2>1 DEF HealthTypeOK, WakeDrain, history
    <2>2. CASE lowPriority # <<>>
      <3>1. Head(lowPriority) \in Frame /\ Tail(lowPriority) \in Seq(Frame)
        BY <1>1, <2>2 DEF HealthTypeOK
      <3>2. DrainOne(Head(lowPriority)) \in Operation
        BY <3>1 DEF DrainOne, Operation
      <3>3. sendQueue' = <<DrainOne(Head(lowPriority))>> /\ lowPriority' = Tail(lowPriority)
        BY <1>5, <2>2 DEF WakeDrain
      <3>4. sendQueue' \in Seq(Operation) /\ lowPriority' \in Seq(Frame)
        BY <3>1, <3>2, <3>3
      <3> QED BY <1>1, <1>5, <3>4 DEF HealthTypeOK, WakeDrain, history
    <2> QED BY <2>1, <2>2
  <1> QED BY <1>2, <1>3, <1>4, <1>5

\* The watchdog's update of an entry keeps it typed and consistent.
LEMMA CheckupKeepsEntry ==
    ASSUME TypedAndConsistent, NEW d \in Devices
    PROVE  /\ AfterCheckup(d) \in DeviceState /\ Consistent(AfterCheckup(d))
           /\ Checkup(d).ping \in PingState
  <1> DEFINE dev == registry[d]
             status == Checkup(d).status
  <1>1. dev \in DeviceState /\ Consistent(dev) /\ pingStates[d] \in PingState
    BY DEF TypedAndConsistent, HealthTypeOK, RegistryConsistent
  <1>2. /\ Checkup(d).ping \in PingState /\ status \in Statuses
        /\ status = "unhealthy" => ~dev.known
        /\ status = "stale" => dev.connected \/ dev.bridgeConnected
    BY <1>1, CheckupVerdict DEF Checkup
  <1>3. AfterCheckup(d) =
          IF BridgeOnly(d) \/ (status = "ok" /\ dev.known /\ ~dev.connected) THEN dev
          ELSE IF status = "unhealthy" THEN RecordAlertSent(UpdateHealthFromResult(dev, status))
          ELSE UpdateHealthFromResult(dev, status)
    BY DEF AfterCheckup
  <1>4. BridgeOnly(d) = (RecoveryPath(dev) = "bridge_only")
    BY DEF BridgeOnly
  <1> HIDE DEF dev, status
  <1>5. CASE BridgeOnly(d) \/ (status = "ok" /\ dev.known /\ ~dev.connected)
    BY <1>1, <1>2, <1>3, <1>5
  <1>6. CASE ~BridgeOnly(d) /\ status = "unhealthy"
    <2>1. UpdateHealthFromResult(dev, status) = dev /\ ~dev.connected
      BY <1>1, <1>2, <1>6 DEF UpdateHealthFromResult, Consistent, NoDevice
    <2> QED BY <1>1, <1>2, <1>3, <1>6, <2>1, EntriesAreTyped, EntriesStayConsistent
  <1>7. CASE /\ ~(BridgeOnly(d) \/ (status = "ok" /\ dev.known /\ ~dev.connected))
             /\ status # "unhealthy"
    <2>1. AfterCheckup(d) = UpdateHealthFromResult(dev, status)
      BY <1>3, <1>7
    <2>2. UpdateHealthFromResult(dev, status) \in DeviceState
      BY <1>1, <1>2, EntriesAreTyped
    <2>3. CASE ~dev.known
      BY <1>1, <1>2, <2>1, <2>3 DEF UpdateHealthFromResult
    <2>4. CASE dev.known /\ status = "ok"
      BY <1>1, <1>2, <1>7, <2>1, <2>2, <2>4, EntriesStayConsistent
    <2>5. CASE dev.known /\ status = "stale"
      <3>1. dev.bridgeConnected /\ dev.link # "down"
        BY <1>1, <1>2, <1>4, <1>7, <2>5 DEF RecoveryPath, Consistent
      <3> QED BY <1>1, <1>2, <2>1, <2>2, <2>5, <3>1, EntriesStayConsistent
    <2>6. CASE dev.known /\ status \in {"needs_ping", "retry_queued"}
      BY <1>1, <1>2, <2>1, <2>6 DEF UpdateHealthFromResult
    <2> QED BY <1>2, <1>7, <2>3, <2>4, <2>5, <2>6 DEF Statuses
  <1> QED BY <1>5, <1>6, <1>7

\* The periodic work keeps the invariant.
LEMMA PeriodicWorkKeepsInvariant ==
    ASSUME TypedAndConsistent, RunWatchdogCheck \/ VerifyInitialDeviceStates \/ Tick
    PROVE  TypedAndConsistent'
  <1>1. HealthTypeOK /\ RegistryConsistent /\ OutputOK
    BY DEF TypedAndConsistent, HealthTypeOK, OutputOK
  <1>2. \A d \in Devices : Ping(d) \in Frame /\ RequestDetails(d) \in Frame /\ RequestState(d) \in Frame
    BY DEF Ping, RequestDetails, RequestState, Frame
  <1>3. Probe \in Frame
    BY DEF Probe, Frame
  <1>4. configured \subseteq Devices
    BY <1>1, HealthAssumption DEF HealthTypeOK
  <1>5. ASSUME NEW frames, NEW pings \in [Devices -> PingState]
        PROVE  MarkStaggered(frames, pings) \in [Devices -> PingState]
    BY PingsAreTyped DEF MarkStaggered
  <1>6. ASSUME RunWatchdogCheck PROVE TypedAndConsistent'
    <2> DEFINE pings == {Ping(d) : d \in {x \in configured : NeedsPing(x)}}
               probes == IF ShouldProbeBridge(bridgeProbe) /\ \E d \in configured : WantsProbe(d)
                         THEN {Probe} ELSE {}
               checked == [d \in Devices |-> IF d \in configured /\ ~BridgeOnly(d)
                                             THEN Checkup(d).ping ELSE pingStates[d]]
    <2>1. PICK frames \in Bursts(pings \cup probes) :
            pingStates' = MarkStaggered(frames, checked) /\ SendStaggered(frames)
      BY <1>6 DEF RunWatchdogCheck
    <2>2. /\ registry' = [d \in Devices |-> IF d \in configured THEN AfterCheckup(d) ELSE registry[d]]
          /\ bridgeProbe' = IF probes # {} THEN Queued ELSE bridgeProbe
          /\ alerted' = alerted \cup UnhealthyDevicesForAlert
          /\ UNCHANGED <<configured, recovery, lastPing, lastProbe>>
      BY <1>6 DEF RunWatchdogCheck
    <2>3. pings \cup probes \in SUBSET Frame
      BY <1>2, <1>3, <1>4
    <2>4. checked \in [Devices -> PingState]
      BY <1>1, CheckupKeepsEntry DEF HealthTypeOK
    <2> HIDE DEF pings, probes, checked
    <2>5. OutputOK'
      BY <1>1, <2>1, <2>3, BurstsAreSequences, SendStaggeredKeepsType
    <2>6. pingStates' \in [Devices -> PingState]
      BY <1>5, <2>1, <2>4
    <2>7. bridgeProbe' \in PingState
      BY <1>1, <2>2, PingsAreTyped DEF HealthTypeOK
    <2>8. registry' \in [Devices -> DeviceState] /\ RegistryConsistent'
      BY <1>1, <2>2, CheckupKeepsEntry DEF HealthTypeOK, RegistryConsistent
    <2>9. alerted' \in SUBSET Devices
      BY <1>1, <1>4, <2>2 DEF HealthTypeOK, UnhealthyDevicesForAlert
    <2> QED BY <1>1, <2>2, <2>5, <2>6, <2>7, <2>8, <2>9
            DEF TypedAndConsistent, HealthTypeOK, OutputOK
  <1>7. ASSUME VerifyInitialDeviceStates PROVE TypedAndConsistent'
    <2> DEFINE pings == {Ping(d) : d \in {x \in configured : RecoveryPath(registry[x]) = "offline"}}
               requests == UNION {FramesOf(MissingFrames(d, registry[d])) :
                                    d \in {x \in configured :
                                             RecoveryPath(registry[x]) = "controller_reachable"}}
    <2>1. PICK frames \in Bursts(pings \cup requests) :
            pingStates' = MarkStaggered(frames, pingStates) /\ SendStaggered(frames)
      BY <1>7 DEF VerifyInitialDeviceStates
    <2>2. pings \cup requests \in SUBSET Frame
      <3>1. \A d \in configured : FramesOf(MissingFrames(d, registry[d])) \subseteq Frame
        BY <1>2, <1>4 DEF FramesOf, MissingFrames
      <3> QED BY <1>2, <1>4, <3>1
    <2> HIDE DEF pings, requests
    <2>3. OutputOK'
      BY <1>1, <2>1, <2>2, BurstsAreSequences, SendStaggeredKeepsType
    <2>4. pingStates' \in [Devices -> PingState]
      BY <1>1, <1>5, <2>1 DEF HealthTypeOK
    <2>5. UNCHANGED <<registry, configured, bridgeProbe, recovery, history>>
      BY <1>7 DEF VerifyInitialDeviceStates
    <2> QED BY <1>1, <2>3, <2>4, <2>5
            DEF TypedAndConsistent, HealthTypeOK, OutputOK, RegistryConsistent, history
  <1>8. ASSUME Tick PROVE TypedAndConsistent'
    <2>1. registry' \in [Devices -> DeviceState] /\ RegistryConsistent'
      BY <1>1, <1>8, EntriesAreTyped, EntriesStayConsistent DEF HealthTypeOK, RegistryConsistent, Tick
    <2>2. pingStates' \in [Devices -> PingState] /\ bridgeProbe' \in PingState
      BY <1>1, <1>8, PingsAreTyped DEF HealthTypeOK, Tick
    <2>3. recovery' \in [Devices -> Recovery]
      <3>1. ASSUME NEW d \in Devices, recovery[d].age < PingTimeout
            PROVE  [recovery[d] EXCEPT !.age = @ + 1] \in Recovery
        <4>1. recovery[d] \in Recovery
          BY <1>1 DEF HealthTypeOK
        <4>2. recovery[d].age + 1 \in 0 .. PingTimeout
          BY <3>1, <4>1, PingTimeoutAssumption DEF Recovery
        <4> QED BY <4>1, <4>2 DEF Recovery
      <3> QED BY <1>1, <1>8, <3>1 DEF HealthTypeOK, Tick
    <2>4. lastPing' \in [Devices -> Ages \cup {NeverPinged}] /\ lastProbe' \in Ages
      BY <1>1, <1>8, PingTimeoutAssumption DEF HealthTypeOK, Tick, Ages
    <2>5. UNCHANGED <<configured, sendQueue, lowPriority, drainAsleep, alerted>>
      BY <1>8 DEF Tick, output
    <2> QED BY <1>1, <2>1, <2>2, <2>3, <2>4, <2>5 DEF TypedAndConsistent, HealthTypeOK
  <1> QED BY <1>6, <1>7, <1>8

\* Configuration updates keep the invariant, accepted or refused.
LEMMA ConfigUpdateKeepsInvariant ==
    ASSUME TypedAndConsistent,
           (\E next \in Configs : UpdateSystemConfig(next)) \/ RefuseSystemConfig
    PROVE  TypedAndConsistent'
  <1>1. HealthTypeOK /\ RegistryConsistent
    BY DEF TypedAndConsistent
  <1>2. ASSUME InvalidateLowPriorityDrain PROVE OutputOK'
    <2>1. sendQueue \in Seq(Operation)
      BY <1>1 DEF HealthTypeOK
    <2>2. ASSUME NEW i \in DOMAIN sendQueue
          PROVE  [sendQueue[i] EXCEPT !.current = ~sendQueue[i].drain] \in Operation
      <3>1. sendQueue[i] \in Operation
        BY <2>1, <2>2
      <3> QED BY <3>1 DEF Operation
    <2>3. sendQueue' \in [1 .. Len(sendQueue) -> Operation] /\ Len(sendQueue) \in Nat
      BY <1>2, <2>1, <2>2 DEF InvalidateLowPriorityDrain
    <2>4. lowPriority' \in Seq(Frame) /\ drainAsleep' \in BOOLEAN
      BY <1>1, <1>2 DEF HealthTypeOK, InvalidateLowPriorityDrain
    <2> QED BY <2>3, <2>4 DEF OutputOK
  <1>3. /\ PingsWithout(lowPriority) \in [Devices -> PingState]
        /\ ProbeWithout(lowPriority) \in PingState
        /\ RecoveryWithout(lowPriority) \in [Devices -> Recovery]
    BY <1>1, CancellingKeepsType DEF HealthTypeOK
  <1>4. NoPing \in PingState /\ NoTracking \in Recovery
    BY PingsAreTyped, PingTimeoutAssumption DEF NoTracking, Recovery
  <1>5. ASSUME NEW next \in Configs, UpdateSystemConfig(next) PROVE TypedAndConsistent'
    <2>1. /\ OutputOK' /\ configured' \in Configs
          /\ alerted' = alerted \cap next /\ UNCHANGED <<lastPing, lastProbe>>
      BY <1>2, <1>5 DEF UpdateSystemConfig
    <2>2. /\ pingStates' \in [Devices -> PingState] /\ bridgeProbe' \in PingState
          /\ recovery' \in [Devices -> Recovery]
      BY <1>3, <1>4, <1>5 DEF UpdateSystemConfig
    <2>3. registry' \in [Devices -> DeviceState] /\ RegistryConsistent'
      BY <1>1, <1>5, NoDeviceIsConsistent DEF HealthTypeOK, RegistryConsistent, UpdateSystemConfig
    <2> QED BY <1>1, <2>1, <2>2, <2>3 DEF TypedAndConsistent, HealthTypeOK, OutputOK
  <1>6. ASSUME RefuseSystemConfig PROVE TypedAndConsistent'
    <2>1. OutputOK' /\ UNCHANGED <<registry, configured, history>>
      BY <1>2, <1>6 DEF RefuseSystemConfig
    <2>2. /\ pingStates' \in [Devices -> PingState] /\ bridgeProbe' \in PingState
          /\ recovery' \in [Devices -> Recovery]
      BY <1>3, <1>6 DEF RefuseSystemConfig
    <2> QED BY <1>1, <2>1, <2>2 DEF TypedAndConsistent, HealthTypeOK, OutputOK, RegistryConsistent, history
  <1> QED BY <1>5, <1>6

-----------------------------------------------------------------------------
(* Theorems *)

\* The types and the consistency of the entries form an inductive invariant.
LEMMA InvariantIsInductive == Spec => []TypedAndConsistent
  <1>1. Init => TypedAndConsistent
    <2> SUFFICES ASSUME Init PROVE TypedAndConsistent
      OBVIOUS
    <2>1. PingTimeout + 1 \in Ages /\ NoTracking \in Recovery
      BY PingTimeoutAssumption DEF Ages, NoTracking, Recovery
    <2>2. HealthTypeOK
      <3>1. sendQueue \in Seq(Operation) /\ lowPriority \in Seq(Frame) /\ drainAsleep \in BOOLEAN
        <4>1. sendQueue = <<>> /\ lowPriority = <<>> /\ drainAsleep = FALSE
          BY DEF Init
        <4>2. <<>> \in Seq(Operation) /\ <<>> \in Seq(Frame)
          OBVIOUS
        <4> QED BY <4>1, <4>2, Zenon
      <3>2. registry \in [Devices -> DeviceState] /\ configured \in Configs
        BY NoDeviceIsConsistent DEF Init
      <3>3. /\ pingStates \in [Devices -> PingState] /\ bridgeProbe \in PingState
            /\ recovery \in [Devices -> Recovery]
        BY <2>1, PingsAreTyped DEF Init
      <3>4. /\ lastPing \in [Devices -> Ages \cup {NeverPinged}] /\ lastProbe \in Ages
            /\ alerted \in SUBSET Devices
        BY <2>1 DEF Init
      <3> QED BY <3>1, <3>2, <3>3, <3>4 DEF HealthTypeOK
    <2>3. RegistryConsistent
      BY NoDeviceIsConsistent DEF Init, RegistryConsistent
    <2> QED BY <2>2, <2>3 DEF TypedAndConsistent
  <1>2. TypedAndConsistent /\ [Next]_vars => TypedAndConsistent'
    <2> SUFFICES ASSUME TypedAndConsistent, [Next]_vars PROVE TypedAndConsistent'
      OBVIOUS
    <2>1. CASE UNCHANGED vars
      BY <2>1 DEF TypedAndConsistent, HealthTypeOK, RegistryConsistent, vars, output, history
    <2>2. CASE Input
      BY <2>2, MessageKeepsInvariant, ConfigUpdateKeepsInvariant, PeriodicWorkKeepsInvariant
         DEF Input
    <2>3. CASE RunWatchdogCheck \/ Tick
      BY <2>3, PeriodicWorkKeepsInvariant
    <2>4. CASE Dispatch \/ DispatchStale \/ WakeDrain
      BY <2>4, OutputKeepsInvariant
    <2> QED BY <2>1, <2>2, <2>3, <2>4 DEF Next
  <1> QED BY <1>1, <1>2, PTL DEF Spec

\* Type correctness, for all devices, configurations, thresholds and bounds.
THEOREM TypeCorrect == Spec => []HealthTypeOK
  <1>1. TypedAndConsistent => HealthTypeOK
    BY DEF TypedAndConsistent
  <1> QED BY <1>1, InvariantIsInductive, PTL

\* The flags of every registry entry agree with each other, always.
THEOREM RegistryAlwaysConsistent == Spec => []RegistryConsistent
  <1>1. TypedAndConsistent => RegistryConsistent
    BY DEF TypedAndConsistent
  <1> QED BY <1>1, InvariantIsInductive, PTL

=============================================================================
