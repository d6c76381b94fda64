----------------------------- MODULE DeviceHealth -----------------------------
(***************************************************************************)
(* Device reachability, end to end: the service's inbound handlers, its    *)
(* watchdog cycle and snapshot recovery, and the coordinator's two output  *)
(* paths, the serialized send queue and the low-priority drain.  A ping, a *)
(* bridge probe or a recovery burst counts from the moment its frame       *)
(* leaves, so the bookkeeping spans both.                                  *)
(*                                                                         *)
(* Devices and the broker are the environment: any message may arrive at   *)
(* any moment or never.  Send operations are promise continuations, which  *)
(* run before any timer: the clock and the timers wait for an empty queue, *)
(* while callers of the API may still add messages and configurations.     *)
(***************************************************************************)
EXTENDS Watchdog, Sequences, FiniteSets

CONSTANTS
    Devices,
    Configs,        \* the device sets of the configurations that may be loaded
    Traffic,        \* bound: the kinds of inbound message an instance explores
    MaxInFlight,    \* bound: operations in the send queue
    MaxPending,     \* bound: frames waiting for the low-priority drain
    AllBridges,     \* addressee of the service topic
    NeverPinged     \* value of lastPing

ASSUME HealthAssumption ==
    /\ IsFiniteSet(Devices)
    /\ Configs \subseteq SUBSET Devices
    /\ MaxInFlight \in Nat
    /\ MaxPending \in Nat
    /\ AllBridges \notin Devices
    /\ NeverPinged \notin Nat

Ages == 0 .. PingTimeout + 1

Frame == [kind : {"ping", "details", "state", "probe"}, to : Devices \cup {AllBridges}]

Ping(d) == [kind |-> "ping", to |-> d]
RequestDetails(d) == [kind |-> "details", to |-> d]
RequestState(d) == [kind |-> "state", to |-> d]
Probe == [kind |-> "probe", to |-> AllBridges]

\* An operation of the send queue; only the drain's can lose their generation.
Operation == [frames : Seq(Frame), drain : BOOLEAN, current : BOOLEAN]

Immediate(frames) == [frames |-> frames, drain |-> FALSE, current |-> TRUE]
DrainOne(frame) == [frames |-> <<frame>>, drain |-> TRUE, current |-> TRUE]

\* Snapshot recovery of a device: frames of a requested burst still to leave,
\* and ticks since a burst left, up to the retry interval (no burst on record
\* counts as that old).
Recovery == [queued : 0 .. 2, age : 0 .. PingTimeout]

NoTracking == [queued |-> 0, age |-> PingTimeout]

VARIABLES
    registry,     \* device -> its entry
    configured,   \* the devices of the active configuration
    pingStates,   \* device -> controller ping state
    bridgeProbe,  \* state of the one bridge probe
    recovery,     \* device -> snapshot recovery tracking
    sendQueue,    \* the serialized send operations
    lowPriority,  \* frames waiting for the drain
    drainAsleep,  \* the drain loop is between two frames
    lastPing,     \* device -> ticks since its last unanswered ping left (history)
    lastProbe,    \* ticks since a bridge probe left (history)
    alerted       \* devices whose outage the watchdog has reported (history)

output == <<sendQueue, lowPriority, drainAsleep>>
history == <<lastPing, lastProbe, alerted>>
vars == <<registry, configured, pingStates, bridgeProbe, recovery, output, history>>

HealthTypeOK ==
    /\ registry \in [Devices -> DeviceState]
    /\ configured \in Configs
    /\ pingStates \in [Devices -> PingState]
    /\ bridgeProbe \in PingState
    /\ recovery \in [Devices -> Recovery]
    /\ sendQueue \in Seq(Operation)
    /\ lowPriority \in Seq(Frame)
    /\ drainAsleep \in BOOLEAN
    /\ lastPing \in [Devices -> Ages \cup {NeverPinged}]
    /\ lastProbe \in Ages
    /\ alerted \in SUBSET Devices

Init ==
    /\ registry = [d \in Devices |-> NoDevice]
    /\ configured \in Configs
    /\ pingStates = [d \in Devices |-> NoPing]
    /\ bridgeProbe = NoPing
    /\ recovery = [d \in Devices |-> NoTracking]
    /\ sendQueue = <<>>
    /\ lowPriority = <<>>
    /\ drainAsleep = FALSE
    /\ lastPing = [d \in Devices |-> NeverPinged]
    /\ lastProbe = PingTimeout + 1
    /\ alerted = {}

-----------------------------------------------------------------------------
(* Output: the send queue and the low-priority drain *)

FramesOf(frames) == {frames[i] : i \in DOMAIN frames}

SnapshotRequests(d) == {RequestDetails(d), RequestState(d)}

\* How many snapshot requests to d a list of frames holds.
SnapshotFrames(frames, d) ==
    Cardinality({i \in DOMAIN frames : frames[i] \in SnapshotRequests(d)})

DrainActive == drainAsleep \/ \E i \in DOMAIN sendQueue : sendQueue[i].drain

\* An immediate result: its frames leave in one send operation.
Send(frames) ==
    /\ IF frames = <<>> THEN UNCHANGED sendQueue
       ELSE /\ Len(sendQueue) < MaxInFlight
            /\ sendQueue' = Append(sendQueue, Immediate(frames))
    /\ UNCHANGED <<lowPriority, drainAsleep>>

\* Mistake: every bulk result starts a drain of its own.
SendStaggeredStarting(frames) ==
    IF Len(frames) <= 1 THEN Send(frames)
    ELSE /\ Len(lowPriority) + Len(frames) <= MaxPending
         /\ lowPriority' = lowPriority \o Tail(frames)
         /\ sendQueue' = Append(sendQueue, DrainOne(Head(frames)))
         /\ UNCHANGED drainAsleep

\* A bulk result: several frames go to the drain, whose loop takes the first
\* one at once unless it is already running.
SendStaggered(frames) ==
    IF Len(frames) <= 1 THEN Send(frames)
    ELSE /\ Len(lowPriority) + Len(frames) <= MaxPending
         /\ IF DrainActive
            THEN /\ lowPriority' = lowPriority \o frames
                 /\ UNCHANGED sendQueue
            ELSE /\ lowPriority' = Tail(frames)
                 /\ sendQueue' = Append(sendQueue, DrainOne(Head(frames)))
         /\ UNCHANGED drainAsleep

\* Every staggered controller ping is recorded as queued.
MarkStaggered(frames, pings) ==
    [d \in Devices |->
        IF Len(frames) > 1 /\ Ping(d) \in FramesOf(frames) THEN Queued ELSE pings[d]]

\* cancelQueuedTracking for a list of dropped frames.
PingsWithout(frames) ==
    [d \in Devices |->
        IF Ping(d) \in FramesOf(frames) THEN CancelQueued(pingStates[d]) ELSE pingStates[d]]

ProbeWithout(frames) ==
    IF Probe \in FramesOf(frames) THEN CancelQueued(bridgeProbe) ELSE bridgeProbe

RecoveryWithout(frames) ==
    [d \in Devices |->
        IF FramesOf(frames) \cap SnapshotRequests(d) # {} THEN NoTracking ELSE recovery[d]]

\* Mistake: the frames of a burst are counted down below zero.
AfterDispatchUnguarded(tracking, n) ==
    IF n = 0 THEN tracking ELSE [queued |-> tracking.queued - n, age |-> 0]

\* Mistake: the burst stays queued after it left.
AfterDispatchForgetting(tracking, n) ==
    IF n = 0 THEN tracking ELSE [tracking EXCEPT !.age = 0]

\* recordDispatchedSnapshotRecovery for n frames in a row.
AfterDispatch(tracking, n) ==
    IF n = 0 THEN tracking
    ELSE IF tracking.queued <= n THEN [queued |-> 0, age |-> 0]
    ELSE [tracking EXCEPT !.queued = @ - n]

\* The operation at the head of the send queue runs.
Dispatch ==
    LET op == Head(sendQueue)
        frames == op.frames
    IN  /\ sendQueue # <<>>
        /\ op.current
        /\ sendQueue' = Tail(sendQueue)
        /\ drainAsleep' = IF op.drain THEN lowPriority # <<>> ELSE drainAsleep
        /\ pingStates' = [d \in Devices |-> IF Ping(d) \in FramesOf(frames) THEN Sent ELSE pingStates[d]]
        /\ bridgeProbe' = IF Probe \in FramesOf(frames) THEN Sent ELSE bridgeProbe
        /\ recovery' = [d \in Devices |-> AfterDispatch(recovery[d], SnapshotFrames(frames, d))]
        /\ lastPing' = [d \in Devices |-> IF Ping(d) \in FramesOf(frames) THEN 0 ELSE lastPing[d]]
        /\ lastProbe' = IF Probe \in FramesOf(frames) THEN 0 ELSE lastProbe
        /\ UNCHANGED <<registry, configured, lowPriority, alerted>>

\* Mistake: the dropped frame still counts as queued.
DispatchStaleKeepingTracking ==
    /\ sendQueue # <<>>
    /\ ~Head(sendQueue).current
    /\ sendQueue' = Tail(sendQueue)
    /\ drainAsleep' = (lowPriority # <<>>)
    /\ UNCHANGED <<registry, configured, pingStates, bridgeProbe, recovery, lowPriority, history>>

\* The operation at the head belongs to an older generation: it sends nothing.
DispatchStale ==
    LET frames == Head(sendQueue).frames IN
    /\ sendQueue # <<>>
    /\ ~Head(sendQueue).current
    /\ sendQueue' = Tail(sendQueue)
    /\ drainAsleep' = (lowPriority # <<>>)
    /\ pingStates' = PingsWithout(frames)
    /\ bridgeProbe' = ProbeWithout(frames)
    /\ recovery' = RecoveryWithout(frames)
    /\ UNCHANGED <<registry, configured, lowPriority, history>>

\* The drain's pause ends: it takes the next frame, or stops.
WakeDrain ==
    /\ drainAsleep
    /\ sendQueue = <<>>
    /\ drainAsleep' = FALSE
    /\ IF lowPriority = <<>> THEN UNCHANGED <<sendQueue, lowPriority>>
       ELSE /\ sendQueue' = <<DrainOne(Head(lowPriority))>>
            /\ lowPriority' = Tail(lowPriority)
    /\ UNCHANGED <<registry, configured, pingStates, bridgeProbe, recovery, history>>

-----------------------------------------------------------------------------
(* Snapshot recovery *)

\* _buildSnapshotRecoveryPlan
MissingFrames(d, dev) ==
    IF ~dev.known \/ ~dev.hasDetails THEN <<RequestDetails(d), RequestState(d)>>
    ELSE IF ~HasState(dev) THEN <<RequestState(d)>>
    ELSE <<>>

\* _clearSnapshotRecoveryBackoffIfSatisfied
ClearIfSatisfied(dev, tracking) == IF HasSnapshot(dev) THEN NoTracking ELSE tracking

\* _canRequestSnapshotRecovery
CanRequest(tracking, force) ==
    tracking.queued = 0 /\ (force \/ tracking.age >= PingTimeout)

\* requestSnapshotRecovery: the frames to send and the new tracking.
RequestedFrames(d, dev, tracking, force) ==
    IF CanRequest(tracking, force) THEN MissingFrames(d, dev) ELSE <<>>

AfterRequest(d, dev, tracking, force) ==
    IF HasSnapshot(dev) THEN NoTracking
    ELSE IF CanRequest(tracking, force)
    THEN [tracking EXCEPT !.queued = Len(MissingFrames(d, dev))]
    ELSE tracking

-----------------------------------------------------------------------------
(* Inbound messages *)

\* What a handler leaves behind for the device it is about.
Handle(d, dev, ping, tracking, frames) ==
    /\ registry' = [registry EXCEPT ![d] = dev]
    /\ pingStates' = [pingStates EXCEPT ![d] = ping]
    /\ recovery' = [recovery EXCEPT ![d] = tracking]
    /\ Send(frames)
    /\ UNCHANGED <<configured, bridgeProbe>>

\* History: live controller traffic answers whatever ping was out.
Heard(d) ==
    /\ lastPing' = [lastPing EXCEPT ![d] = NeverPinged]
    /\ alerted' = alerted \ {d}
    /\ UNCHANGED lastProbe

\* History: an outage is also over, or a different one, once the bridge came or
\* went, reports its controller gone, or the device was removed.
Reported(d) ==
    LET old == registry[d]
        new == registry'[d]
    IN  /\ alerted' = IF \/ new.bridgeConnected # old.bridgeConnected
                         \/ new.link = "down"
                         \/ ~new.known
                      THEN alerted \ {d} ELSE alerted
        /\ UNCHANGED <<lastPing, lastProbe>>

\* A valid conf payload.
HandleLiveConf(d, actuators) ==
    LET dev == RecordControllerActivity(RegisterDeviceDetails(registry[d], actuators, TRUE)) IN
    /\ "conf" \in Traffic
    /\ Handle(d, dev, NoPing, ClearIfSatisfied(dev, recovery[d]), <<>>)
    /\ Heard(d)

HandleRetainedConf(d, actuators) ==
    LET dev == RegisterDeviceDetails(registry[d], actuators, FALSE) IN
    /\ "conf" \in Traffic
    /\ Handle(d, dev, pingStates[d], ClearIfSatisfied(dev, recovery[d]), <<>>)
    /\ UNCHANGED history

\* A state payload that fits the known details (any other leaves no trace).
\* Without details it is stored and the details are requested, untracked.
FramesForUnknownDetails(d) == IF registry[d].hasDetails THEN <<>> ELSE <<RequestDetails(d)>>

HandleLiveState(d) ==
    LET dev == RecordControllerActivity(RegisterActuatorStates(registry[d], TRUE)) IN
    /\ "state" \in Traffic
    /\ Handle(d, dev, NoPing, ClearIfSatisfied(dev, recovery[d]), FramesForUnknownDetails(d))
    /\ Heard(d)

HandleRetainedState(d) ==
    LET dev == RegisterActuatorStates(registry[d], FALSE) IN
    /\ "state" \in Traffic
    /\ Handle(d, dev, pingStates[d], ClearIfSatisfied(dev, recovery[d]), FramesForUnknownDetails(d))
    /\ UNCHANGED history

\* A live click event, as far as reachability goes (see ClickTransactions).
HandleClickEvent(d) ==
    LET dev == RecordControllerActivity(registry[d]) IN
    /\ "click" \in Traffic
    /\ Handle(d, dev, NoPing, ClearIfSatisfied(dev, recovery[d]), <<>>)
    /\ Heard(d)

\* A live ping answer.
HandlePingReply(d) ==
    LET dev == RecordControllerActivity(registry[d])
        tracking == ClearIfSatisfied(dev, recovery[d])
    IN  /\ "ping" \in Traffic
        /\ Handle(d, dev, NoPing, AfterRequest(d, dev, tracking, FALSE),
                  RequestedFrames(d, dev, tracking, FALSE))
        /\ Heard(d)

\* A live bridge answer to the service ping.
HandleBridgeReply(d, controllerConnected, runtimeSynchronized) ==
    LET dev == RecordBridgePingReply(registry[d], controllerConnected, runtimeSynchronized)
        force == SnapshotInvalidated(registry[d], controllerConnected, runtimeSynchronized)
    IN  /\ "bridge" \in Traffic
        /\ IF controllerConnected
           THEN Handle(d, dev, pingStates[d], AfterRequest(d, dev, recovery[d], force),
                       RequestedFrames(d, dev, recovery[d], force))
           ELSE Handle(d, dev, pingStates[d], NoTracking, <<>>)
        /\ Reported(d)

HandleRetainedHomieState(d, homieState) ==
    /\ "homie" \in Traffic
    /\ registry[d].known \/ d \in configured
    /\ Handle(d, RecordHomieLifecycleState(registry[d], homieState), pingStates[d], recovery[d], <<>>)
    /\ UNCHANGED history

\* Going offline drops the recovery tracking, coming online forces a request.
HandleLiveHomieState(d, homieState) ==
    LET old == registry[d]
        dev == UpdateBridgeConnectionState(RecordHomieLifecycleState(old, homieState), homieState)
        wentOffline == homieState = "offline" /\ (old.bridgeConnected \/ old.homieReady)
        cameOnline == homieState = "ready" /\ ~old.bridgeConnected
    IN  /\ "homie" \in Traffic
        /\ IF cameOnline
           THEN Handle(d, dev, pingStates[d], AfterRequest(d, dev, recovery[d], TRUE),
                       RequestedFrames(d, dev, recovery[d], TRUE))
           ELSE Handle(d, dev, pingStates[d], IF wentOffline THEN NoTracking ELSE recovery[d], <<>>)
        /\ Reported(d)

\* An empty $state.
HandleRemoval(d) ==
    /\ "removal" \in Traffic
    /\ registry[d].known
    /\ Handle(d, NoDevice, pingStates[d], NoTracking, <<>>)
    /\ Reported(d)

RetainedMessage(d) ==
    \/ \E a \in Topologies : HandleRetainedConf(d, a)
    \/ HandleRetainedState(d)
    \/ \E h \in HomieStates : HandleRetainedHomieState(d, h)

Message(d) ==
    \/ \E a \in Topologies : HandleLiveConf(d, a)
    \/ HandleLiveState(d)
    \/ HandleClickEvent(d)
    \/ HandlePingReply(d)
    \/ \E connected, synchronized \in BOOLEAN : HandleBridgeReply(d, connected, synchronized)
    \/ \E h \in HomieStates : HandleLiveHomieState(d, h)
    \/ HandleRemoval(d)
    \/ RetainedMessage(d)

-----------------------------------------------------------------------------
(* Periodic work *)

\* The frames of one bulk result, in an order the code may send them: a probe
\* comes first, recovery requests before pings, details before state.
MayPrecede(f, g) ==
    /\ g.kind # "probe"
    /\ f.kind = "ping" => g.kind = "ping"
    /\ f.kind = "state" /\ g.kind = "details" => f.to # g.to

Bursts(frames) ==
    {s \in [1 .. Cardinality(frames) -> frames] :
        /\ FramesOf(s) = frames
        /\ \A i, j \in DOMAIN s : i < j => MayPrecede(s[i], s[j])}

Checkup(d) == CheckDeviceHealth(registry[d], pingStates[d])

BridgeOnly(d) == RecoveryPath(registry[d]) = "bridge_only"

NeedsPing(d) == ~BridgeOnly(d) /\ Checkup(d).status \in {"needs_ping", "stale"}

WantsProbe(d) ==
    \/ RecoveryPath(registry[d]) # "controller_reachable"
    \/ Checkup(d).status = "stale"

\* _processWatchdogForDevice, on the entry.
AfterCheckup(d) ==
    LET dev == registry[d]
        status == Checkup(d).status
    IN  IF BridgeOnly(d) \/ (status = "ok" /\ dev.known /\ ~dev.connected) THEN dev
        ELSE IF status = "unhealthy" THEN RecordAlertSent(UpdateHealthFromResult(dev, status))
        ELSE UpdateHealthFromResult(dev, status)

\* Mistake: the latch of a never-seen device also silences its later outage.
UnhealthyDevicesForAlertOnce ==
    {d \in configured : /\ ~BridgeOnly(d) /\ ~registry[d].alertSent
                        /\ \/ Checkup(d).status = "unhealthy"
                           \/ Checkup(d).status = "stale" /\ ~registry[d].isStale}

\* The devices one cycle reports as unreachable: those that turn stale and those
\* that never appeared.
UnhealthyDevicesForAlert ==
    {d \in configured :
        /\ ~BridgeOnly(d)
        /\ \/ Checkup(d).status = "stale" /\ ~registry[d].isStale
           \/ Checkup(d).status = "unhealthy" /\ ~registry[d].alertSent}

\* One watchdog cycle over the configured devices.
RunWatchdogCheck ==
    LET pings == {Ping(d) : d \in {x \in configured : NeedsPing(x)}}
        probes == IF ShouldProbeBridge(bridgeProbe) /\ \E d \in configured : WantsProbe(d)
                  THEN {Probe} ELSE {}
    IN  /\ sendQueue = <<>>
        /\ registry' = [d \in Devices |-> IF d \in configured THEN AfterCheckup(d) ELSE registry[d]]
        /\ bridgeProbe' = IF probes # {} THEN Queued ELSE bridgeProbe
        /\ \E frames \in Bursts(pings \cup probes) :
             /\ pingStates' = MarkStaggered(frames,
                    [d \in Devices |-> IF d \in configured /\ ~BridgeOnly(d)
                                       THEN Checkup(d).ping ELSE pingStates[d]])
             /\ SendStaggered(frames)
        /\ alerted' = alerted \cup UnhealthyDevicesForAlert
        /\ UNCHANGED <<configured, recovery, lastPing, lastProbe>>

\* The verification pass after startup or a configuration update: unreachable
\* devices are pinged, reachable ones asked for what is missing.
VerifyInitialDeviceStates ==
    LET pings == {Ping(d) : d \in {x \in configured : RecoveryPath(registry[x]) = "offline"}}
        requests == UNION {FramesOf(MissingFrames(d, registry[d])) :
                             d \in {x \in configured :
                                      RecoveryPath(registry[x]) = "controller_reachable"}}
    IN  /\ sendQueue = <<>>
        /\ \E frames \in Bursts(pings \cup requests) :
             /\ pingStates' = MarkStaggered(frames, pingStates)
             /\ SendStaggered(frames)
        /\ UNCHANGED <<registry, configured, bridgeProbe, recovery, history>>

\* Time for the timestamps of the service.
Tick ==
    /\ sendQueue = <<>>
    /\ registry' = [d \in Devices |-> Older(registry[d])]
    /\ pingStates' = [d \in Devices |-> Waited(pingStates[d])]
    /\ bridgeProbe' = Waited(bridgeProbe)
    /\ recovery' = [d \in Devices |->
          IF recovery[d].age < PingTimeout THEN [recovery[d] EXCEPT !.age = @ + 1] ELSE recovery[d]]
    /\ lastPing' = [d \in Devices |->
          IF lastPing[d] \in 0 .. PingTimeout THEN lastPing[d] + 1 ELSE lastPing[d]]
    /\ lastProbe' = IF lastProbe <= PingTimeout THEN lastProbe + 1 ELSE lastProbe
    /\ UNCHANGED <<configured, output, alerted>>

-----------------------------------------------------------------------------
(* Configuration updates *)

\* invalidateLowPriorityDrain on the queues: pending frames are dropped, a
\* frame already in the send queue finds its generation gone.
InvalidateLowPriorityDrain ==
    /\ lowPriority' = <<>>
    /\ sendQueue' = [i \in DOMAIN sendQueue |-> [sendQueue[i] EXCEPT !.current = ~sendQueue[i].drain]]
    /\ UNCHANGED drainAsleep

UpdateSystemConfig(next) ==
    /\ InvalidateLowPriorityDrain
    /\ configured' = next
    /\ pingStates' = [d \in Devices |-> IF d \in next THEN PingsWithout(lowPriority)[d] ELSE NoPing]
    /\ bridgeProbe' = ProbeWithout(lowPriority)
    /\ recovery' = [d \in Devices |-> IF d \in next THEN RecoveryWithout(lowPriority)[d] ELSE NoTracking]
    /\ registry' = [d \in Devices |-> IF d \in next THEN registry[d] ELSE NoDevice]
    /\ alerted' = alerted \cap next
    /\ UNCHANGED <<lastPing, lastProbe>>

\* A configuration the schema accepts and the service refuses: the low-priority
\* traffic of the active one is already gone.
RefuseSystemConfig ==
    /\ InvalidateLowPriorityDrain
    /\ pingStates' = PingsWithout(lowPriority)
    /\ bridgeProbe' = ProbeWithout(lowPriority)
    /\ recovery' = RecoveryWithout(lowPriority)
    /\ UNCHANGED <<registry, configured, history>>

-----------------------------------------------------------------------------

\* What starts outside the coordinator's periodic work.
Input ==
    \/ \E d \in Devices : Message(d)
    \/ \E next \in Configs : UpdateSystemConfig(next)
    \/ RefuseSystemConfig
    \/ VerifyInitialDeviceStates

Next ==
    \/ Input
    \/ RunWatchdogCheck
    \/ Dispatch
    \/ DispatchStale
    \/ WakeDrain
    \/ Tick

Spec == Init /\ [][Next]_vars

\* Timers keep firing and promise continuations run; messages are not owed.
FairSpec ==
    /\ Spec
    /\ WF_vars(RunWatchdogCheck)
    /\ WF_vars(Dispatch)
    /\ WF_vars(DispatchStale)
    /\ WF_vars(WakeDrain)
    /\ WF_vars(Tick)

-----------------------------------------------------------------------------
(* Properties *)

\* The flags of every registry entry agree with each other, whatever order
\* live and retained messages, bridge answers, watchdog verdicts and
\* configuration updates came in (see Consistent in DeviceRegistry).
RegistryConsistent == \A d \in Devices : Consistent(registry[d])

\* A state the click logic may trust was decoded with the actuator list the
\* device has now.
StateMatchesTopology ==
    \A d \in Devices :
        registry[d].hasDetails /\ HasState(registry[d]) => registry[d].stateOf = registry[d].actuators

Waiting(frame) ==
    \/ frame \in FramesOf(lowPriority)
    \/ \E i \in DOMAIN sendQueue : frame \in FramesOf(sendQueue[i].frames)

\* The step in which a frame goes to the broker.
Leaves(frame) == Dispatch /\ frame \in FramesOf(Head(sendQueue).frames)

\* No operation holds more than two frames.
QueuedRequests(d) ==
    {p \in (DOMAIN sendQueue) \X (1 .. 2) :
        /\ p[2] \in DOMAIN sendQueue[p[1]].frames
        /\ sendQueue[p[1]].frames[p[2]] \in SnapshotRequests(d)}

\* Whatever is recorded as queued is backed by a frame still to leave.  A latch
\* without its frame would silence pings, probes or snapshot recovery of the
\* device for good: nothing else ever clears it.
LatchesBacked ==
    /\ \A d \in Devices : pingStates[d].status = "queued" => Waiting(Ping(d))
    /\ bridgeProbe.status = "queued" => Waiting(Probe)
    /\ \A d \in Devices :
         recovery[d].queued <= SnapshotFrames(lowPriority, d) + Cardinality(QueuedRequests(d))

\* One drain, neither none nor two: pending frames always have a
\* loop that will take them, and no interleaving of bursts, invalidations and
\* frames of an older generation ever has two loops take frames in turn, which
\* would halve the pause between them.
OneDrain ==
    /\ lowPriority # <<>> => DrainActive
    /\ drainAsleep => \A i \in DOMAIN sendQueue : ~sendQueue[i].drain
    /\ \A i, j \in DOMAIN sendQueue : sendQueue[i].drain /\ sendQueue[j].drain => i = j

\* A device turns stale only when more than pingTimeout has passed since a ping
\* really left for it, with no live controller traffic since: time spent in the
\* queues, cancelled pings and retained messages never count.
StaleOnlyAfterUnansweredPing ==
    [][\A d \in Devices :
         ~registry[d].isStale /\ registry'[d].isStale => lastPing[d] = PingTimeout + 1]_vars

\* Once stale, a device stays stale through retries, drains and configuration
\* updates until live controller traffic, a bridge or controller link reported
\* down, or its removal.
StaleLatched ==
    [][\A d \in Devices :
         registry[d].isStale /\ ~registry'[d].isStale =>
            \/ lastPing'[d] = NeverPinged
            \/ ~registry'[d].bridgeConnected
            \/ registry'[d].link = "down"]_vars

\* No notification storm: the watchdog reports an outage once.  Before it
\* reports the device again, the controller was heard, the bridge came or went,
\* or the device was removed.
OneAlertPerOutage ==
    [][RunWatchdogCheck => UnhealthyDevicesForAlert \cap alerted = {}]_vars

\* No silent outage: a device that clicks are refused for because it is stale
\* has been reported, however it came to be known.
StaleReported == \A d \in Devices : registry[d].isStale => d \in alerted

\* What is known of the way to a device.
Way(d) ==
    IF ~registry[d].known THEN "unknown"
    ELSE IF ~registry[d].bridgeConnected THEN "none"
    ELSE IF registry[d].link = "down" THEN "cut"
    ELSE "open"

Outages == INSTANCE DeviceOutage WITH
    Timeout <- PingTimeout,
    Never <- NeverPinged,
    asked <- lastPing,
    way <- [d \in Devices |-> Way(d)],
    silent <- {d \in Devices : registry[d].isStale},
    reported <- alerted

\* Pings, verdicts, reports and news of a device taken together: every step is
\* one that DeviceOutage allows each device.
KeepsOutages == Outages!Spec

\* The service topic is never asked twice within pingTimeout, whatever mix of
\* offline, bridge-only and stale devices wants a probe, and however often the
\* drain is invalidated.
ProbesSpaced == [][Leaves(Probe) => lastProbe >= PingTimeout]_vars

\* What a device's entry says of reaching it, and what is awaited from it.
Reachability(d) ==
    <<registry[d].connected, registry[d].bridgeConnected, registry[d].link, registry[d].isHealthy,
      registry[d].isStale, registry[d].alertSent, registry[d].lastSeen, pingStates[d]>>

\* Retained snapshots and lifecycle states prove nothing about the present.
RetainedProvesNothing ==
    [][\A d \in Devices : Reachability(d)' # Reachability(d) => ~RetainedMessage(d)]_vars

\* A controller that falls silent is noticed: once inputs stop, every
\* configured device still held to be connected ends up stale for good.
SilenceDetected ==
    <>[][~Input]_vars => <>[](\A d \in configured : registry[d].connected => registry[d].isStale)

\* Recovery is throttled, never given up: a configured device that keeps
\* answering pings without a complete snapshot is asked for one again and
\* again, whatever was cancelled, refused or lost before.
RecoveryPersists ==
    \A d \in Devices :
        /\ <>[](d \in configured /\ ~HasSnapshot(registry[d]))
        /\ []<><<HandlePingReply(d)>>_vars
        => []<>(\E frame \in SnapshotRequests(d) : Waiting(frame))

-----------------------------------------------------------------------------
(* Statements of the documentation the code does not keep *)

\* LIFECYCLE.md: "devices in bridge_only state never receive
\* controller-directed pings".  Said of the moment the drain takes up a ping.
BridgeOnlyNeverPinged ==
    [][\A d \in Devices :
         WakeDrain /\ lowPriority # <<>> /\ Head(lowPriority) = Ping(d) => ~BridgeOnly(d)]_vars

\* LIFECYCLE.md: "Snapshot recovery cooldown starts only after the planned
\* recovery burst has actually been emitted".
CooldownAfterBurst ==
    [][\A d \in Devices :
         recovery[d].age # 0 /\ recovery'[d].age = 0 => SnapshotFrames(lowPriority', d) = 0]_vars

=============================================================================
