# Formal model of labo-smart-home-coordinator

TLA+ modules, TLC instances and TLAPS proofs about the coordinator in `src/`: a Node.js
library that sits between an MQTT broker and a set of LSH devices. Each device is a
*controller* behind an Ethernet/MQTT *bridge*; the coordinator watches whether controllers
can be reached, repairs what it does not know about them, and turns long clicks on one device into
commands to others through a request, ACK, confirm exchange.

Paths such as `Watchdog.ts:110` are relative to the repository's own `src/` directory;
`LIFECYCLE.md` and `docs/` are at the root of the repository. `PROJECT.json` maps every definition that models code to
its lines, and lists runs, mutants, hazards, findings and theorems.

## 1. Inventory

The process is single-threaded. What interleaves are event-loop turns: MQTT messages, timer
callbacks, API calls of the embedder, and the continuations of `await`. Everything hard in this
code comes from state that is written in one turn and relied upon in a later one.

| Component | State | Operations | Must hold |
| --- | --- | --- | --- |
| `ClickTransactionManager` | `pendingClicks` (correlation key to transaction), `activeSlots` (slot to key) | start, consume, cleanup, clear | the two maps agree; one live attempt per slot; nothing executes late or twice; nothing leaks |
| Click handlers of `LshLogicService` | the active configuration | validate and ACK or fail over, confirm and execute | only targets of the active configuration, able to act at the confirmation, are commanded |
| `DeviceRegistryManager` | one entry per device: reachability flags, health, staleness, snapshot with its topology | conf, state, ping reply, bridge reply, Homie lifecycle, verdicts, removal | flags agree with each other; a state is never read with a topology it was not decoded with; retained data proves nothing about the present |
| `Watchdog` | ping state per device, one bridge probe | health check, queued / dispatched / cancelled marks | staleness only after an unanswered ping that left; staleness latched; probes spaced; silence noticed |
| Handlers and snapshot recovery of `LshLogicService` | frames queued per device, cooldown, alert latches | request snapshots, verify devices, watchdog cycle with its alerts, configuration update | recovery throttled, never given up; no frame counted that will not leave; an outage reported once, and never not at all |
| Click execution of `LshLogicService` | the cached actuator states it decides on | smart toggle, command building, packing | a click sets what it decided and nothing else |
| Output of `LaboSmartHomeCoordinator` | `sendQueue`, `pendingLowPriorityMessages`, drain, generation | send at once, drain with pauses, invalidate | a mark is backed by a frame, or undone |
| Life cycle of `LaboSmartHomeCoordinator` | status, `isClosing`, warm-up, one-shot timers, watchdog interval and cycle, deferred recovery flag | start, stop, update, startup and recovery sequences, watchdog cycle | warm-up covers the verification; stop leaves nothing behind; an accepted update is recovered; checks keep coming |
| `mqtt-adapter` | one promise chain for inbound and outbound, the client | start, stop, flush, reload | outputs in order, not lost by stop; subscriptions match the configuration |
| `cli` | reloads in progress | SIGHUP, reload; parsing | the file that was signalled is in effect |
| `config`, `schemas` | none | validate, default | pure |
| `LshCodec`, `topic-helpers`, `subscriptions`, helpers, `utils` | none | conversions | pure |
| types, generated protocol, `vendor`, `scripts`, `tools` | none | - | declarations and build time |

How they interact. A message enters through `processMqttMessage`, whose handler
updates registry, watchdog, recovery tracking and click transactions in one turn and returns
frames. `processServiceResult` either appends them to the serialized `sendQueue` or, for
bulk results, hands them to the low-priority drain, which sends one frame, sleeps, and goes on.
Only when a frame leaves does the coordinator call back into the service (`recordDispatched...`);
if a configuration change invalidates the drain first, it calls `cancelQueued...`. So "a ping is
queued", "a probe is on its way" and "a recovery burst is planned" are promises across two
components and any number of turns. The watchdog interval and the startup and recovery timers
start bulk results of their own. Under the standalone process, the adapter appends every output
to the promise chain that also carries the inbound messages, and a SIGHUP replaces the
coordinator's configuration and then the broker's subscriptions.

Hard behaviours, each a hazard in `PROJECT.json`: duplicated, late and reordered confirmations;
marks whose frame was cancelled; timeouts that run while a frame still waits; retained messages
mixed with live ones; topology changes under a stored state; stop and update between any two
callbacks; deferred recovery; a drain that outlasts warm-up; jobs in the chain when the adapter stops;
reloads that overlap, fail half-way or lose their connection; commands built from states that are not current.

## 2. Modules

| Module | Models | Notes |
| --- | --- | --- |
| `ClickPromise` | the abstract promise of distributed clicks | what is armed, what was sent; no maps, no timeouts |
| `ClickTransactions` | `ClickTransactionManager` and the click handlers | implements `ClickPromise` by the mapping `armed <- activeSlots` |
| `ActuatorCommands` | toggle decision, commanded states, packing, state reports | with the devices as environment |
| `DeviceRegistry` | one registry entry and every update of it | pure functions from the old entry to the new one |
| `Watchdog` | `checkDeviceHealth`, ping and probe states | pure, extends `DeviceRegistry` |
| `DeviceOutage` | the abstract promise of reachability: per device, how long an unanswered ping has been out, whether there is a way to it, whether it is declared silent and reported | no queues, latches or registry |
| `DeviceHealth` | inbound handlers, snapshot recovery, watchdog cycle and its alerts, verification, send queue and drain, configuration updates | the composition: the state machine over `DeviceRegistry` and `Watchdog`; implements `DeviceOutage`, reading the way to a device off its entry (`Way`) |
| `StartupLifecycle` | `start`, `stop`, `updateSystemConfig`, warm-up, boot replay, initial verification, runtime recovery, watchdog interval and single-flight cycle | numbers and flags only |
| `OutputOrder` | the abstract promise of the adapter's output | numbers emitted, pending, published last |
| `MqttAdapter` | the adapter's promise chain, start, stop and flush | implements `OutputOrder` by the mapping `pending <- Pending` |
| `ConfigReload` | the CLI's SIGHUP handler and the adapter's reload | subscriptions as sets of devices |
| `ClickTransactions_proofs`, `DeviceHealth_proofs`, `DeviceOutage_proofs`, `DeviceLatches_proofs`, `StartupLifecycle_proofs`, `MqttAdapter_proofs`, `ConfigReload_proofs`, `ActuatorCommands_proofs` | theorems | see section 5 |
| `MCClickTransactions`, `MCActuatorCommands`, `MCDeviceHealth`, `MCStartup`, `MCMqttAdapter`, `MCConfigReload` | instances for TLC | constants only |

Definitions preceded by `\* Mistake:` are deliberate errors in one operation. Nothing in the
specifications uses them. Each property of a passing run has one that breaks it when it takes the
place of the operation.

### From code to state

*Time.* The code compares `Date.now()` with a stored timestamp against one threshold. A module
keeps the ticks since that timestamp and stops counting just past the threshold; no code can tell
more. Ticks of the different modules need not be the same length.

*ClickTransactions.* A key is a slot and a correlation id. What click validation reads in the
registry is a set of abilities per target (reachable, state authoritative, ids known) that the
environment changes at will; `DeviceHealth` says how they come about. A button without action and
a request refused for any reason answer with the same output kind, so general failover is not
told apart. The smart-toggle vote is reduced to "is there a voter": its absence means no command,
and either value is the same command here. The vote itself is in `ActuatorCommands`.

*ActuatorCommands.* `states` is `actuatorStates`, `Unknown` while `lastStateTime` is 0. A byte is a
function from `ByteSize` bit positions to Booleans, instead of a number of eight bits: the code
masks single bits and the tail of the last byte, and does no other arithmetic on it. Devices apply commands in order and report after every change;
commands and reports wait in queues of their own, so the code decides on states as old as the
queues are long. `expected` is what an observer who saw every click would want the outputs to be. It is
computed from the real outputs whenever the cached states ought to be current, and unknown where
the code cannot know better.

*DeviceHealth.* A handler is one action: the registry update, the activity it
records, the watchdog reset, the recovery plan and its frames. Of `lastDetailsTime` and `lastStateTime`
only zero or not matters, and `stateOf` remembers under which actuator list the state was
accepted. `sendQueue` holds operations; an operation of the drain carries whether its
generation is still current (`current`). Promise continuations run before timers, so the clock,
the watchdog and the drain's wake-up wait for an empty send queue, while messages and
configurations may arrive at any time. `UnhealthyDevicesForAlert` is the list the watchdog
cycle reports. `alerted`, `lastPing` and `lastProbe` are history
variables for the properties. Payloads the handlers reject change nothing and are left out, and so are
recovery and lifecycle alerts, which are outputs of the handlers and change no state.

*StartupLifecycle.* Every one-shot timer is a countdown, and so is the watchdog interval. A callback that awaits its output
leaves its rest behind (`stage`), which runs before any other callback, but the API may be called
in between: that is what a listener of an event emitted by the callback can do. `cycle` is
`watchdogCyclePromise` with `watchdogCycleQueued`. `untracked` holds verification timers whose handle was
overwritten. Whether a boot replay is needed and how many commands verification or a watchdog
check sends are choices here. `drain` is `lowPriorityDrainPromise`: off, the pause its loop sleeps, or `Kept`, the
promise of a loop that is over. A burst scheduled while the coordinator closes ends its loop before line 508
sets the promise, so nothing resets it. `owed`, `inWarmup`, `silence` and `disturbed` are history variables.
`disturbed` is set by a call between a callback and its continuation, and by an update of a stopped
coordinator. The code leaves timers behind in those cases, or the drain's promise, and no document forbids it,
so the safety properties speak of behaviours without them (`DrainReturns`: no such call, no `Kept`). The turn of one
service result, from its log and state events to its burst, is one step: a `stop` from a listener of these
is not modelled (section 6). `DeviceHealth` has no stop: `OneDrain` speaks of a coordinator that is not closing.

*MqttAdapter.* The chain is a sequence of jobs, of which the first runs. A publish job is over when the
broker answers. `ahead` counts the jobs a flush captured. Outputs are numbers in the order the
coordinator emitted them. `phase` says how far `start` and `stop` have come.

*ConfigReload.* Only the devices of a configuration matter for its topics. `reads` are reloads that
still read the file and may end in any order; `requests` are broker requests of reloads that have replaced the
configuration and await subscribe or unsubscribe. `certainty` records whether subscriptions can be known exactly
(every request granted, no overlap), only to be complete, or not at all.

## 3. Runs

All complete their state space; none needs a depth limit.

| Run | Instance | Distinct states | What it shows |
| --- | --- | --- | --- |
| `click_transactions` | 2 slots of one button, 2 targets, 2 correlation ids, 2 configurations that differ in targets, timeout 1 | 16268 | the maps agree; late, duplicate and superseded confirmations do nothing; only able targets of the active configuration are commanded; the refinement of `ClickPromise`; nothing leaks |
| `actuator_commands` | 3 outputs in 2-bit bytes on one device, 1 on another; actions on one, several and all actuators, with and without other actors; 3 commands and reports on their way | 193390 | a click sets what it decided and nothing else; quiet caches are current |
| `device_health` | 1 device, all messages, live and retained, 2 interchangeable topologies | 218509 | flags coherent, state belongs to topology, staleness latched and reported once, retained messages prove nothing; the refinement of `DeviceOutage` |
| `two_devices` | 2 devices, ping replies and clicks, 2 operations in flight, 4 pending frames, symmetric devices | 290480 | marks are backed, one drain and never two, staleness only after a ping that left, probes spaced: all with bursts of two devices sharing the drain and the one probe |
| `silence` | 1 device, ping, bridge, state and removal, 2 in flight, 3 pending, fair timers | 115433 | under overlapping bursts and removals, a silent controller is noticed for good; recovery is retried for as long as it is needed |
| `startup` | delays 1, 2, 3, drain pauses up to 2, watchdog interval 3; API calls at any moment | 330635 | warm-up covers the commands, a stopped coordinator is quiet and its drain able to take the next burst, one verification timer at a time; an owed recovery pass always has something ahead that leads to it, and comes; the watchdog is alive whenever the status says so, and its checks keep coming |
| `mqtt_adapter` | batches of 2, 4 outputs, 4 chained jobs | 7488 | the refinement of `OutputOrder`; stop loses only late outputs, and ends; nothing stays stuck |
| `config_reload` | 3 devices, 3 configurations of two, an invalid file, 2 reloads at once | 7333 | subscriptions match the configuration, exactly or completely as failures allow; the signalled file is in effect |
| `bridge_only_pinged`, `cooldown`, `empty_topology`, `update_forgotten` | smaller | - | each a statement of the documentation the code does not keep, see section 6 |

Why the bounds are enough.

- *Slots, keys.* Slots only meet in `clearAll`; the interesting races are between two ids of
  one slot. The refinement and the safety properties are proved for any number anyway.
- *Devices.* Devices share the drain, the send queue and the bridge probe, and nothing else. One device meets all
  of its own handlers in `device_health`; two meet the shared parts. Every safety property of
  `DeviceHealth` is also proved for any number.
- *`Traffic`* restricts the kinds of message of an instance. Each kind appears in a run together with those it
  interacts with; leaving a kind out removes behaviours and never adds any.
- *`MaxInFlight`, `MaxPending`.* In the code both queues are unbounded. A bound of two operations makes
  an immediate reply overlap with a frame of the drain; 3 or 4 pending frames hold a whole burst and the start of the next. A handler
  whose frames do not fit is not taken in that state, so these are bounds on exploration. For liveness a full
  queue may hold back the watchdog cycle, but only until the drain, which is fair too, has emptied it.
- *Thresholds* of `DeviceHealth` are one tick: the code distinguishes only before and after.
- *Outputs and bytes.* Three outputs in 2-bit bytes have a full byte, a byte that ends in an unused
  bit and actuators of one action on both sides of the boundary, as ten outputs in 8-bit bytes have. Three
  messages let a click be built from states two changes old.
- *Delays of `StartupLifecycle`* are different from each other where their order decides which callback is first.
  `MaxCommands` 3 is one command sent and two that wait. `MaxUntracked` 5 is never reached.
- *Chain.* Four jobs hold two batches, or messages between outputs on both sides of a stop. The refinement and
  the loss at stop are proved for any length.
- *Reloads.* Any two configurations share one device, drop one and add one. Two reloads are the least that overlap; the
  theorems cover more.

`startup` takes `PingTimeout` longer than `DrainDelay`. The defaults are seconds against at most
250 ms. With a shorter `pingTimeout`, which the option check accepts, warm-up can end between two
verification commands and `WarmupCoversCommands` fails.

## 4. Fairness

- `ClickTransactions!FairSpec`: time passes and the cleanup interval fires. `startTimers` sets
  the interval once and only `stop` clears it.
- `DeviceHealth!FairSpec`: weak fairness of the watchdog interval, of the clock, of the drain's wake-up (a
  `setTimeout`) and of the two ways a send operation runs (a promise continuation). Messages are
  never owed. `RecoveryPersists` says as a premise that ping replies keep coming.
- `StartupLifecycle!FairSpec`: weak fairness of the event loop as a whole. Every delay is at
  least one tick and a continuation runs before the next callback, so a loop that keeps
  running reaches every armed timer. Calls of the API are never owed. Calls that never cease within one turn would keep
  the loop from its timers; `UpdateRecovered` says as a premise that updates and manual
  watchdog runs end.
- `MqttAdapter!FairSpec`: weak fairness of the chain and of the continuations of `start` and `stop`. The
  broker answers every publish in the end, with success or failure (the MQTT client rejects what is
  open when its connection ends), and promises that settle run their continuation. Messages and outputs are never owed.
- `ConfigReload` and `ActuatorCommands` have safety properties only.

## 5. Proofs

For all slots, devices, configurations, timeouts, delays, thresholds and bounds, from the named
assumptions on the constants only, except where a row says otherwise:

| Theorem | Statement | Argument |
| --- | --- | --- |
| `ClickTransactions_proofs!TypeCorrect` | `Spec => []TypeOK` | inductive as it stands |
| `...!SlotsAlwaysMatch` | `Spec => []SlotsMatchPending` | inductive with the types: a discard drops a transaction together with the slot that points to it |
| `...!ImplementsPromise` | `Spec => KeepsPromise` | step simulation; needs `SlotsMatchPending`, since "pending" is "armed" only while the maps agree |
| `...!LateConfirmsExecuteNothing`, `...!ExecutionIsCurrent` | `LateConfirmNeverExecutes`, `OnlyCurrentTargetsCommanded` | one lemma says what any step executes (`ExecutionStep`); it needs that pending transactions carry the actors of the active configuration (`PendingMatchesConfig`), because a change of configuration discards them |
| `DeviceHealth_proofs!TypeCorrect` | `Spec => []HealthTypeOK` | from the inductive invariant |
| `...!RegistryAlwaysConsistent` | `Spec => []RegistryConsistent` | from the inductive invariant `TypedAndConsistent`: every registry update maps consistent entries to consistent entries (`EntriesStayConsistent`), with two side conditions, "ok" only on a connected device and "stale" only on a reachable one, which `CheckupVerdict` gives |
| `DeviceOutage_proofs!OutagesReported`, `...!AlertsOnce` | `StaleReported`, `OneAlertPerOutage` | every step leaves an entry in one of a few ways (`EntryStep`); the invariant `Outage(d)` says a stale device is silent and reported, and a reported one is known and still stale, or its bridge is down |
| `...!StalenessLatches`, `...!RetainedIsIgnored` | `StaleLatched`, `RetainedProvesNothing` | from `EntryStep` and consistent entries |
| `...!StateFollowsTopology` | `NoActuators \notin Topologies => (Spec => []StateMatchesTopology)` | a state is dropped with the list it was decoded with (`Decoded(d)`); the assumption excludes the finding `empty_topology` |
| `...!StaleAfterUnansweredPing` | `StaleOnlyAfterUnansweredPing` | a sent ping's `elapsed` is the time since it left (`Clocked(d)`) |
| `...!ImplementsOutages` | `Spec => KeepsOutages` | step simulation under the mapping `asked <- lastPing`, `way <- Way`, `silent <- isStale`, `reported <- alerted`; for each device a step is live traffic, a ping leaving, a tick or news of its entry (`ClockMoves`, `NewsOfDevice`), and a verdict is one the abstraction allows because `Outage(d)` and `Clocked(d)` hold |
| `DeviceLatches_proofs!LatchesAlwaysBacked` | `Spec => []LatchesBacked` | the invariant `QueuesBacked` adds that pending frames have a running drain (`DrainRuns`); a count of snapshot requests over both queues, `Backlog(d)`, bounds what is recorded of d in every step |
| `...!OneDrainAtATime` | `Spec => []OneDrain` | `DrainRuns` with `SingleDrain`: the loop is asleep or in one operation of the send queue, and only its operations go stale, so what an invalidation leaves behind still hands the loop on |
| `...!ProbesAlwaysSpaced` | `ProbesSpaced` | at most one probe waits (`ProbeAlone`), only while recorded as queued (`ProbeRecorded`), and the record tells when the last one left (`ProbeClocked`) |
| `MqttAdapter_proofs!TypeCorrect`, `...!StopDropsOnlyLateOutputs`, `...!ImplementsOrder` | `TypeOK`, `OnlyLateOutputsDropped`, `KeepsOrder` | the outputs in the chain ascend, lie between the last published and the last issued one, and behind the part a stop waits for are younger than the stop (`Ordered`) |
| `ConfigReload_proofs!TypeCorrect`, `...!SubscriptionsFollow`, `...!SignalTakesEffect` | `TypeOK`, `SubscriptionsReconciled`, `SignalledFileActive` | while certainty lasts at most one reload is under way (`AloneWhenCertain`), and the request on its way leads to the active configuration (`Converges`); the last subscribe request always does (`LastSubscribes`), which is how certainty comes back |
| `StartupLifecycle_proofs!TypeCorrect`, `...!StopSilences`, `...!OnePassAtATime` | `TypeOK`, `StoppedIsQuiet`, `VerificationTracked` | boot timer, verification timer and recovery pass exclude each other (`OnePassAhead`), closing has cleared them (`Silenced`), and a cycle under way has its continuation (`CycleStage`) |
| `...!DrainAlwaysReturns` | `Spec => []DrainReturns` | no burst is scheduled while closing (`NotKeptNext`): what could schedule one is cleared by stop or looks at `isClosing`; commands wait only with a drain (`Drained`), which ends early only while closing, when none are left |
| `...!RecoveryStaysAhead` | `Spec => []RecoveryAhead`, also in the `disturbed` cases | what is closed or closing owes nothing (`ClosedOwesNothing`), so no call that clears timers can strand an owed pass |
| `...!WatchdogStaysAlive` | `Spec => []WatchdogAlive`, also in the `disturbed` cases | warm-up and boot timer are only armed with the interval and cleared no later than it (`IntervalArmed`); with `CycleStage` |
| `...!WarmupProtects` | `DrainDelay < PingTimeout => (Spec => []WarmupCoversCommands)` | on top of `DrainInv`, warm-up outlives both the reply timeout and the drain's next pause (`Covered`) |
| `ActuatorCommands_proofs!TypeCorrect`, `...!StatesAreCurrent`, `...!ClicksHaveTheirEffect` | `TypeOK`, `StatesCurrentWhenQuiet`, `ClickHasItsEffect` | packing and unpacking are inverse for any byte size and number of actuators; the last report on its way tells the device's outputs (`LastReportCurrent`), with none on its way a known state is the outputs (`KnownStatesCurrent`), and the commands on their way, applied in order, lead to what the observer expects (`QueueLeadsToExpected`) |

`HealthTypeOK` of `DeviceHealth` is not mere typing in one place: `recovery[d].queued` stays
in `0 .. 2`, which is the guard against counting a burst below zero.

Model-checked only: the liveness properties `NoLeak`, `SilenceDetected`, `RecoveryPersists`, `UpdateRecovered`,
`WatchdogRecurs`, `OutputsSettle` and `StopEnds`: liveness under fairness and `ENABLED` are out of
the prover's reach. What two of them rest on in every single state is proved: `RecoveryAhead` of `UpdateRecovered`
and `WatchdogAlive` of `WatchdogRecurs`; `LatchesBacked` and `OneDrain` do the same for `SilenceDetected` and
`RecoveryPersists`.

## 6. Where code and documentation disagree

- `update_forgotten` (`LaboSmartHomeCoordinator.ts:305`). An update accepted while warm-up still
  lasts, but after the verification pass has run, only sets a flag that nobody reads
  again. The documented recovery pass does not happen; the watchdog repairs the new devices later, one gap at a time.
- `bridge_only_pinged` (`LaboSmartHomeCoordinator.ts:521`). "Never receive controller-directed
  pings" holds when a ping is planned, not when the drain takes it up.
- `cooldown` (`LshLogicService.ts:240`). A verification burst is not counted, so the cooldown
  starts with its first frame, not after the burst.
- `empty_topology` (`DeviceRegistryManager.ts:211`). A state accepted before any details is kept
  as the authoritative one if the details then announce no actuators, because the list did
  not change. `device_health` therefore excludes empty announcements.

Observed while modelling, where no sentence of the documentation decides what is right, or without a run of
their own. Each that a user could meet is a hazard with a note.

- A refused newer click leaves an older acknowledged one of the slot armed.
- A removed device keeps its ping state.
- `stop` from a listener during the boot replay leaves a verification timer behind; an update before
  `start` arms a recovery timer. These are the `disturbed` cases.
- That verification, or a `stop` from a listener of the log and state events of a result
  (`LaboSmartHomeCoordinator.ts:372-384`), puts the low-priority drain out of action for the life of the object. The burst comes
  to a drain whose loop finds `isClosing` set (510) and ends at once; its `finally` (538) resets
  `lowPriorityDrainPromise` before line 508 sets it. Every later burst sees the promise (504) and only joins the queue, after
  a restart too, until updates throw it away. `DrainReturns` holds up to such calls, and without `~disturbed` TLC refutes it.
- A refused update sets the status to `config_error` while the coordinator runs on.
- Stale alerts latch through `isStale`; `alertSent` (`LIFECYCLE.md:153`) latches only the alert of a device never seen.
- The comment at `mqtt-adapter.ts:88` speaks of commands published before the next broker message is handled. A command is
  appended behind the messages already chained, so it is published after they were handled.
- Overlapping reloads take what to unsubscribe from each other's intermediate state, and overlapping SIGHUPs may
  finish reading in either order. A reload whose subscription is refused leaves removed topics subscribed.
- After a reload, `stop` and `start` of the adapter return to the configuration it was constructed with
  (`mqtt-adapter.ts:161` changes the adapter's options, not the coordinator's copy).
- A second `start` while the first still connects opens a second client.
- A click on several actuators sends back the cached states of the others. If the last change of the device has not been
  reported yet, it undoes that change.

## 7. Plan

Done, in this order: `ClickTransactions` (the one exchange with external effects), `DeviceHealth`
(the largest state), `StartupLifecycle`, `MqttAdapter` with `OutputOrder`, `ConfigReload`, `ActuatorCommands`, the watchdog's
alerts in `DeviceHealth`, and the theorems of section 5. Left:

1. Concurrent starts and stops of the adapter, should they ever be supported.
2. The `disturbed` cases of `StartupLifecycle`, should the documentation decide them.

Not modelled, and not planned: option parsing and schema validation (stateless; their outcomes are choices of the
modules), inspection modes of the CLI and process exit, the codec and topic strings (pure conversions; a payload that fails to decode changes nothing), logging and debug events,
the published copy of the registry (rewritten by the call that changes the entry), the filter that drops recovery alerts during
warm-up (it changes no state; when it applies is `WarmupCoversCommands`), `normalizeActors` (the schema, `schemas.ts:216`, already admits an actor once in an action, so it has
nothing to merge), vendored protocol definitions, generators and scripts.
