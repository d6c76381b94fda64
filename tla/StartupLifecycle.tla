--------------------------- MODULE StartupLifecycle ---------------------------
(***************************************************************************)
(* The coordinator's life: start, warm-up, boot replay and initial         *)
(* verification, runtime configuration updates with their recovery pass,   *)
(* the watchdog cycle, and stop, on the timers of                          *)
(* LaboSmartHomeCoordinator.                                               *)
(*                                                                         *)
(* A timer is the number of ticks until it is due, or Off.  A callback     *)
(* that awaits its output leaves a continuation behind (stage); it runs    *)
(* before any other callback, but an event listener or a continuation of   *)
(* the embedder may call the API first.  What the service answers (is a    *)
(* boot replay needed, which commands do verification and a watchdog check *)
(* send) is a free choice here: DeviceHealth says what it depends on.      *)
(***************************************************************************)
EXTENDS Naturals, Sequences

CONSTANTS
    BootDelay,      \* STARTUP_BOOT_DELAY_MS
    StateTimeout,   \* initialStateTimeout
    PingTimeout,    \* pingTimeout
    DrainDelay,     \* the longest pause between two low-priority frames
    WatchdogInterval,
    MaxCommands,    \* bound: commands waiting for the drain
    MaxUntracked    \* bound: verification timers armed but no longer known

ASSUME LifecycleAssumption ==
    /\ {BootDelay, StateTimeout, PingTimeout, DrainDelay, WatchdogInterval} \subseteq Nat \ {0}
    /\ MaxCommands \in Nat
    /\ MaxUntracked \in Nat

WarmupTime == BootDelay + StateTimeout + PingTimeout

Off == WarmupTime + WatchdogInterval + DrainDelay   \* a timer that is not armed

Timer(longest) == 0 .. longest \cup {Off}

Kept == Off + 1   \* the drain's promise, set for ever by a loop that is over

VARIABLES
    status,        \* what getStatus and the status event say
    isClosing,
    flushing,      \* a stop is waiting for its flush
    warmup,        \* warmupTimer; isWarmingUp is "armed"
    bootTimer,     \* startupBootTimer
    verification,  \* initialVerificationTimer
    untracked,     \* verification timers whose handle was overwritten
    recoveryTimer, \* runtimeRecoveryTimer
    watchdog,      \* watchdogInterval
    queued,        \* runtimeRecoveryQueuedAfterStartup
    cycle,         \* watchdogCyclePromise and watchdogCycleQueued
    stage,         \* the continuation still to run
    commands,      \* commands waiting for the drain
    drain,         \* lowPriorityDrainPromise: Off, Kept, or the loop's pause
    owed,          \* recovery pass owed to an accepted update (history)
    inWarmup,      \* the last pass was a verification begun in warm-up (history)
    silence,       \* ticks since such a pass sent a command (history)
    disturbed      \* the API was called where Undisturbed excludes it (history)

timers == <<warmup, bootTimer, verification, untracked, recoveryTimer, watchdog>>
output == <<stage, commands, drain>>
history == <<owed, inWarmup, silence, disturbed>>
vars == <<status, isClosing, flushing, timers, queued, cycle, output, history>>

Statuses == {"stopped", "starting", "warming_up", "ready", "config_error", "closing"}

Stages == {"idle", "booting", "sending", "draining", "verified"}

Cycles == {"none", "running", "again"}

TypeOK ==
    /\ status \in Statuses
    /\ {isClosing, flushing} \subseteq BOOLEAN
    /\ warmup \in Timer(WarmupTime)
    /\ bootTimer \in Timer(BootDelay)
    /\ verification \in Timer(StateTimeout)
    /\ untracked \in Seq(0 .. StateTimeout)
    /\ recoveryTimer \in Timer(BootDelay)
    /\ watchdog \in Timer(WatchdogInterval)
    /\ queued \in BOOLEAN
    /\ cycle \in Cycles
    /\ stage \in Stages
    /\ commands \in 0 .. MaxCommands
    /\ drain \in Timer(DrainDelay) \cup {Kept}
    /\ owed \in {"nothing", "soon", "forgotten"}
    /\ inWarmup \in BOOLEAN
    /\ silence \in 0 .. PingTimeout
    /\ disturbed \in BOOLEAN

Init ==
    /\ status = "stopped"
    /\ isClosing = FALSE
    /\ flushing = FALSE
    /\ warmup = Off /\ bootTimer = Off /\ verification = Off /\ recoveryTimer = Off
    /\ untracked = <<>>
    /\ watchdog = Off
    /\ queued = FALSE
    /\ cycle = "none"
    /\ stage = "idle"
    /\ commands = 0
    /\ drain = Off
    /\ owed = "nothing"
    /\ inWarmup = FALSE
    /\ silence = PingTimeout
    /\ disturbed = FALSE

-----------------------------------------------------------------------------
(* Building blocks *)

IsWarmingUp == warmup # Off

\* isStartupRecoveryStillPending
StartupRecoveryStillPending == IsWarmingUp \/ bootTimer # Off \/ verification # Off

\* invalidateLowPriorityDrain: pending frames are dropped, and a frame the
\* drain has just handed to the send queue finds its generation gone.
InvalidateLowPriorityDrain ==
    /\ commands' = 0
    /\ stage' = IF stage = "draining" THEN "verified" ELSE stage
    /\ drain' = IF stage = "draining" THEN Off ELSE drain

\* The handle of an armed verification timer is overwritten, not cleared.
LoseVerificationTimer ==
    /\ verification # Off => Len(untracked) < MaxUntracked
    /\ untracked' = IF verification = Off THEN untracked ELSE Append(untracked, verification)

\* Mistake: only the first warm-up window counts.
SendCommandWithoutExtending(deadline) ==
    /\ silence' = IF inWarmup THEN 0 ELSE silence
    /\ UNCHANGED <<warmup, status>>

\* A verification command is emitted; extendWarmupForStartupVerificationDispatch
\* makes a running warm-up last for its reply timeout.
SendCommand(deadline) ==
    /\ silence' = IF inWarmup THEN 0 ELSE silence
    /\ IF IsWarmingUp /\ warmup < deadline
       THEN warmup' = deadline /\ status' = "warming_up"
       ELSE UNCHANGED <<warmup, status>>

\* scheduleLowPriorityDrain: the burst joins the queue, and a loop takes its
\* first command unless the promise of one is set.  While closing the loop ends
\* before it waits, and so before its promise is set: nothing resets that.
ScheduleLowPriorityDrain(burst) ==
    \/ /\ drain = Off /\ ~isClosing
       /\ stage' = "draining"
       /\ commands' = commands + burst - 1
       /\ UNCHANGED drain
    \/ /\ drain # Off \/ isClosing
       /\ stage' = "verified"
       /\ commands' = commands + burst
       /\ drain' = IF drain = Off THEN Kept ELSE drain

\* processServiceResult of a pass: no command, one sent at once, or several
\* handed to the drain.
SendCommands ==
    /\ \/ /\ stage' \in {"verified", "sending"}
          /\ UNCHANGED <<commands, drain>>
       \/ \E burst \in 2 .. MaxCommands :
            /\ commands + burst <= MaxCommands
            /\ ScheduleLowPriorityDrain(burst)
    /\ UNCHANGED silence

\* runInitialVerification up to its await.
RunInitialVerification(pendingWarmup) ==
    /\ verification' = Off
    /\ owed' = "nothing"
    /\ inWarmup' = (pendingWarmup # Off)
    /\ SendCommands
    /\ UNCHANGED <<cycle, disturbed>>

\* One turn of the watchdog cycle's loop.
RunWatchdogCheck ==
    /\ cycle' = "running"
    /\ inWarmup' = FALSE
    /\ SendCommands
    /\ UNCHANGED <<status, isClosing, flushing, warmup, bootTimer, verification, untracked,
                   recoveryTimer, queued, owed>>

\* runWatchdogCycle: calls that find a cycle running are answered together, by
\* one more check.
RunWatchdogCycle ==
    IF IsWarmingUp \/ isClosing \/ cycle # "none"
    THEN /\ cycle' = IF IsWarmingUp \/ isClosing THEN cycle ELSE "again"
         /\ UNCHANGED <<status, isClosing, flushing, warmup, bootTimer, verification, untracked,
                        recoveryTimer, queued, output, owed, inWarmup, silence>>
    ELSE RunWatchdogCheck

-----------------------------------------------------------------------------
(* The API *)

Running == status # "stopped" /\ ~isClosing

\* The API is called between two callbacks, or in the turn of a runWatchdogNow.
\* An event listener, or a promise of the embedder, may call it earlier.
Undisturbed == disturbed' = (disturbed \/ (stage # "idle" /\ cycle = "none"))

\* An update is meant for a running coordinator.
UndisturbedUpdate == disturbed' = (disturbed \/ (stage # "idle" /\ cycle = "none") \/ ~Running)

\* start, with a configuration that is accepted.
Start ==
    /\ Undisturbed
    /\ status = "stopped"
    /\ status' = "ready"
    /\ isClosing' = FALSE
    /\ InvalidateLowPriorityDrain
    /\ warmup' = WarmupTime
    /\ bootTimer' = BootDelay
    /\ verification' = Off
    /\ queued' = FALSE
    /\ silence' = PingTimeout
    /\ watchdog' = IF watchdog = Off THEN WatchdogInterval ELSE watchdog
    /\ UNCHANGED <<flushing, untracked, recoveryTimer, cycle, owed, inWarmup>>

\* start, with a configuration the schema or the service refuses.
StartRefused ==
    /\ Undisturbed
    /\ status = "stopped"
    /\ isClosing' = FALSE
    /\ \/ /\ status' = "config_error"
          /\ UNCHANGED <<timers, queued, output>>
       \/ /\ status' = "starting"
          /\ InvalidateLowPriorityDrain
          /\ warmup' = Off /\ bootTimer' = Off /\ verification' = Off
          /\ queued' = FALSE
          /\ UNCHANGED <<untracked, recoveryTimer, watchdog>>
    /\ UNCHANGED <<flushing, cycle, owed, inWarmup, silence>>

\* Mistake: the recovery timer of a runtime update is left armed.
ClearTimersButRecovery ==
    /\ warmup' = Off /\ bootTimer' = Off /\ verification' = Off /\ watchdog' = Off
    /\ queued' = FALSE
    /\ UNCHANGED <<untracked, recoveryTimer>>

\* clearTimers; the cleanup interval is a subject of ClickTransactions.
ClearTimers ==
    /\ warmup' = Off /\ bootTimer' = Off /\ verification' = Off /\ recoveryTimer' = Off
    /\ watchdog' = Off
    /\ queued' = FALSE
    /\ UNCHANGED untracked

\* stop, up to its flush.
Stop ==
    /\ Undisturbed
    /\ status # "stopped"
    /\ status' = "closing"
    /\ isClosing' = TRUE
    /\ flushing' = TRUE
    /\ ClearTimers
    /\ InvalidateLowPriorityDrain
    /\ owed' = "nothing"
    /\ silence' = PingTimeout
    /\ UNCHANGED <<cycle, inWarmup>>

\* Nothing is on its way that would consume a deferred recovery pass.
NoPassAhead ==
    /\ bootTimer = Off /\ verification = Off /\ recoveryTimer = Off /\ untracked = <<>>
    /\ stage = "idle" \/ cycle # "none"

\* Mistake: the recovery pass is scheduled without looking at the startup's.
UpdateSystemConfigAtOnce ==
    /\ UndisturbedUpdate
    /\ InvalidateLowPriorityDrain
    /\ queued' = FALSE
    /\ recoveryTimer' = BootDelay
    /\ owed' = IF Running THEN "soon" ELSE owed
    /\ UNCHANGED <<status, isClosing, flushing, warmup, bootTimer, verification, untracked,
                   watchdog, cycle, inWarmup, silence>>

\* updateSystemConfig, accepted.
UpdateSystemConfig ==
    /\ UndisturbedUpdate
    /\ InvalidateLowPriorityDrain
    /\ IF StartupRecoveryStillPending
       THEN /\ queued' = TRUE
            /\ UNCHANGED recoveryTimer
       ELSE /\ queued' = FALSE
            /\ recoveryTimer' = BootDelay
    /\ owed' = IF ~Running THEN owed
               ELSE IF StartupRecoveryStillPending /\ NoPassAhead THEN "forgotten" ELSE "soon"
    /\ UNCHANGED <<status, isClosing, flushing, warmup, bootTimer, verification, untracked,
                   watchdog, cycle, inWarmup, silence>>

\* updateSystemConfig, refused: by the schema, or later by the service, when
\* the queued low-priority traffic is already gone.
UpdateRefused ==
    /\ UndisturbedUpdate
    /\ \/ /\ status' = "config_error"
          /\ UNCHANGED output
       \/ /\ InvalidateLowPriorityDrain
          /\ UNCHANGED status
    /\ UNCHANGED <<isClosing, flushing, timers, queued, cycle, owed, inWarmup, silence>>

\* runWatchdogNow; a call in the middle of a startup or recovery pass is left
\* out.  Before the first start nothing stops the check.
RunWatchdogNow ==
    /\ stage = "idle" \/ cycle # "none"
    /\ RunWatchdogCycle
    /\ disturbed' = (disturbed \/ (status = "stopped" /\ ~isClosing))
    /\ UNCHANGED watchdog

-----------------------------------------------------------------------------
(* Timer callbacks; none runs before the last one's continuation *)

\* runStartupSequence
StartupBoot ==
    /\ stage = "idle"
    /\ bootTimer = 0
    /\ bootTimer' = Off
    /\ \/ /\ stage' = "booting"
          /\ UNCHANGED <<status, warmup, verification, untracked, cycle, commands, drain, history>>
       \/ /\ warmup' = PingTimeout
          /\ status' = "warming_up"
          /\ LoseVerificationTimer
          /\ RunInitialVerification(PingTimeout)
    /\ UNCHANGED <<isClosing, flushing, recoveryTimer, watchdog, queued>>

\* runRuntimeRecoverySequence
RuntimeRecovery ==
    /\ stage = "idle"
    /\ recoveryTimer = 0
    /\ recoveryTimer' = Off
    /\ \/ /\ isClosing
          /\ UNCHANGED <<verification, untracked, cycle, output, history>>
       \/ /\ ~isClosing
          /\ stage' = "booting"
          /\ UNCHANGED <<verification, untracked, cycle, commands, drain, history>>
       \/ /\ ~isClosing
          /\ LoseVerificationTimer
          /\ RunInitialVerification(warmup)
    /\ UNCHANGED <<status, isClosing, flushing, warmup, bootTimer, watchdog, queued>>

\* The boot replay is out: verification follows after initialStateTimeout.
FinishBooting ==
    /\ stage = "booting"
    /\ stage' = "idle"
    /\ LoseVerificationTimer
    /\ verification' = StateTimeout
    /\ UNCHANGED <<status, isClosing, flushing, warmup, bootTimer, recoveryTimer, watchdog,
                   queued, cycle, commands, drain, history>>

InitialVerification ==
    /\ stage = "idle"
    /\ verification = 0
    /\ RunInitialVerification(warmup)
    /\ UNCHANGED <<status, isClosing, flushing, warmup, bootTimer, untracked, recoveryTimer,
                   watchdog, queued>>

\* A timer nobody knows of any more fires all the same, and makes the
\* coordinator forget the one it does know.
UntrackedVerification ==
    /\ stage = "idle"
    /\ \E i \in DOMAIN untracked :
         /\ untracked[i] = 0
         /\ LET others == SubSeq(untracked, 1, i - 1) \o SubSeq(untracked, i + 1, Len(untracked))
            IN  untracked' = IF verification = Off THEN others ELSE Append(others, verification)
    /\ RunInitialVerification(warmup)
    /\ UNCHANGED <<status, isClosing, flushing, warmup, bootTimer, recoveryTimer, watchdog, queued>>

\* The one command leaves, or the drain's first one with its pause after it.
SendFirstCommand ==
    /\ stage \in {"sending", "draining"}
    /\ stage' = "verified"
    /\ SendCommand(PingTimeout)
    /\ IF stage = "draining" /\ commands > 0
       THEN \E pause \in 1 .. DrainDelay : drain' = pause
       ELSE UNCHANGED drain
    /\ UNCHANGED <<isClosing, flushing, bootTimer, verification, untracked, recoveryTimer,
                   watchdog, queued, cycle, commands, owed, inWarmup, disturbed>>

\* Mistake: the deferred pass is forgotten.
FinishVerificationForgetting ==
    /\ stage = "verified" /\ cycle = "none"
    /\ stage' = "idle"
    /\ UNCHANGED <<status, isClosing, flushing, timers, queued, cycle, commands, drain, history>>

\* The rest of runInitialVerification.
FinishVerification ==
    /\ stage = "verified" /\ cycle = "none"
    /\ stage' = "idle"
    /\ IF queued /\ ~isClosing
       THEN recoveryTimer' = BootDelay /\ queued' = FALSE
       ELSE UNCHANGED <<recoveryTimer, queued>>
    /\ UNCHANGED <<status, isClosing, flushing, warmup, bootTimer, verification, untracked,
                   watchdog, cycle, commands, drain, history>>

\* The interval fires.
WatchdogDue ==
    /\ stage = "idle"
    /\ watchdog = 0
    /\ watchdog' = WatchdogInterval
    /\ RunWatchdogCycle
    /\ UNCHANGED disturbed

\* Mistake: the cycle's promise is kept after its last check.
FinishWatchdogCheckKeepingCycle ==
    /\ stage = "verified" /\ cycle # "none"
    /\ IF cycle = "again" /\ ~isClosing
       THEN RunWatchdogCheck
       ELSE /\ stage' = "idle"
            /\ cycle' = "running"
            /\ UNCHANGED <<status, isClosing, flushing, warmup, bootTimer, verification, untracked,
                           recoveryTimer, queued, commands, drain, owed, inWarmup, silence>>
    /\ UNCHANGED <<watchdog, disturbed>>

\* Mistake: a check asked for in mid-cycle is run although stop has begun.
FinishWatchdogCheckWhileClosing ==
    /\ stage = "verified" /\ cycle # "none"
    /\ IF cycle = "again" /\ ~IsWarmingUp
       THEN RunWatchdogCheck
       ELSE /\ stage' = "idle"
            /\ cycle' = "none"
            /\ UNCHANGED <<status, isClosing, flushing, warmup, bootTimer, verification, untracked,
                           recoveryTimer, queued, commands, drain, owed, inWarmup, silence>>
    /\ UNCHANGED <<watchdog, disturbed>>

\* The check's output is out: the cycle goes on or ends.
FinishWatchdogCheck ==
    /\ stage = "verified" /\ cycle # "none"
    /\ IF cycle = "again" /\ ~isClosing /\ ~IsWarmingUp
       THEN RunWatchdogCheck
       ELSE /\ stage' = "idle"
            /\ cycle' = "none"
            /\ UNCHANGED <<status, isClosing, flushing, warmup, bootTimer, verification, untracked,
                           recoveryTimer, queued, commands, drain, owed, inWarmup, silence>>
    /\ UNCHANGED <<watchdog, disturbed>>

\* Mistake: the drain takes a frame without looking whether one is left.
WakeDrainBlindly ==
    /\ stage = "idle"
    /\ drain = 0
    /\ SendCommand(PingTimeout)
    /\ commands' = commands - 1
    /\ drain' = Off
    /\ UNCHANGED <<isClosing, flushing, bootTimer, verification, untracked, recoveryTimer,
                   watchdog, queued, cycle, stage, owed, inWarmup, disturbed>>

\* The drain wakes up: it sends the next command, or ends if there is none or
\* the coordinator is closing.
WakeDrain ==
    /\ stage = "idle"
    /\ drain = 0
    /\ IF commands = 0 \/ isClosing
       THEN /\ drain' = Off
            /\ UNCHANGED <<status, warmup, commands, silence>>
       ELSE /\ SendCommand(PingTimeout)
            /\ commands' = commands - 1
            /\ IF commands > 1 THEN \E pause \in 1 .. DrainDelay : drain' = pause ELSE drain' = Off
    /\ UNCHANGED <<isClosing, flushing, bootTimer, verification, untracked, recoveryTimer,
                   watchdog, queued, cycle, stage, owed, inWarmup, disturbed>>

EndWarmup ==
    /\ stage = "idle"
    /\ warmup = 0
    /\ warmup' = Off
    /\ status' = IF isClosing THEN status ELSE "ready"
    /\ UNCHANGED <<isClosing, flushing, bootTimer, verification, untracked, recoveryTimer,
                   watchdog, queued, cycle, output, history>>

\* stop, once flush has seen the drain end; a promise kept is a resolved one.
FinishStop ==
    /\ flushing
    /\ stage = "idle"
    /\ drain \in {Off, Kept}
    /\ status' = "stopped"
    /\ flushing' = FALSE
    /\ UNCHANGED <<isClosing, timers, queued, cycle, output, history>>

Due(timer) == timer = 0

Sooner(timer) == IF timer \in {Off, Kept} THEN timer ELSE timer - 1

Tick ==
    /\ stage = "idle"
    /\ \A t \in {warmup, bootTimer, verification, recoveryTimer, watchdog, drain} : ~Due(t)
    /\ \A i \in DOMAIN untracked : ~Due(untracked[i])
    /\ warmup' = Sooner(warmup)
    /\ bootTimer' = Sooner(bootTimer)
    /\ verification' = Sooner(verification)
    /\ untracked' = [i \in DOMAIN untracked |-> untracked[i] - 1]
    /\ recoveryTimer' = Sooner(recoveryTimer)
    /\ watchdog' = Sooner(watchdog)
    /\ drain' = Sooner(drain)
    /\ silence' = IF silence < PingTimeout THEN silence + 1 ELSE silence
    /\ UNCHANGED <<status, isClosing, flushing, queued, cycle, stage, commands, owed, inWarmup,
                   disturbed>>

-----------------------------------------------------------------------------

Call ==
    \/ Start
    \/ StartRefused
    \/ Stop
    \/ UpdateSystemConfig
    \/ UpdateRefused
    \/ RunWatchdogNow

\* What the event loop does by itself.
EventLoop ==
    \/ StartupBoot
    \/ RuntimeRecovery
    \/ FinishBooting
    \/ InitialVerification
    \/ UntrackedVerification
    \/ SendFirstCommand
    \/ FinishVerification
    \/ WatchdogDue
    \/ FinishWatchdogCheck
    \/ WakeDrain
    \/ EndWarmup
    \/ FinishStop
    \/ Tick

Next == Call \/ EventLoop

Spec == Init /\ [][Next]_vars

\* Every delay is at least one tick, so a loop that keeps running reaches every
\* armed timer.
FairSpec == Spec /\ WF_vars(EventLoop)

-----------------------------------------------------------------------------
(* Properties *)

\* Warm-up lasts for pingTimeout after the last command of a verification pass
\* that began in it, however the commands were drained, rescheduled by further
\* passes or cut short by updates: recovery alerts caused by the coordinator's
\* own probes stay suppressed.
WarmupCoversCommands == ~disturbed /\ silence < PingTimeout => IsWarmingUp

\* A stopped coordinator has nothing left that could fire or send, whatever
\* phase of startup, recovery, draining or a watchdog cycle stop interrupted.
StoppedIsQuiet ==
    ~disturbed /\ status = "stopped" =>
        /\ {warmup, bootTimer, verification, recoveryTimer, watchdog, drain} = {Off}
        /\ untracked = <<>>
        /\ stage = "idle" /\ commands = 0

\* Never two verification passes on their way at once.
VerificationTracked == ~disturbed => untracked = <<>>

\* Commands that wait have a loop that will take them, and the promise of a loop
\* that is over never turns the next burst away: no stop between two callbacks,
\* whatever it cuts short, and no restart puts low-priority traffic out of action.
DrainReturns ==
    ~disturbed =>
        /\ drain # Kept
        /\ commands > 0 => drain # Off \/ stage = "draining"

\* What makes UpdateRecovered come true, of every single state: an update that
\* still owes its recovery pass has a timer ahead that begins one, or a pass
\* under way that will arm it, also when the API is called in the middle.
RecoveryAhead ==
    owed = "soon" =>
        \/ {bootTimer, verification, recoveryTimer} # {Off} \/ untracked # <<>>
        \/ stage = "booting"
        \/ stage # "idle" /\ cycle = "none" /\ queued

\* What makes WatchdogRecurs come true: while the status shown is ready or
\* warming up the interval is armed, and a cycle's promise never outlives the
\* continuation that resolves it.
WatchdogAlive ==
    /\ status \in {"ready", "warming_up"} => watchdog # Off
    /\ cycle # "none" => stage # "idle"

\* No more calls but start and stop; runWatchdogNow called for ever within one
\* turn would keep the event loop from its timers.
CallsEnd == <>[][~UpdateSystemConfig /\ ~RunWatchdogNow]_vars

\* An accepted update gets its recovery pass, deferred or not: once updates
\* end, none stays owed.  The one window where the code forgets it (warm-up is
\* still on and no pass is ahead) is the subject of EveryUpdateRecovered.
UpdateRecovered == CallsEnd => <>[](owed # "soon")

\* While the coordinator stays ready, watchdog checks keep coming: neither a
\* cycle cut short by stop nor calls coalesced into it, nor any number of
\* restarts, leave the interval dead or the cycle's promise in the way.
WatchdogRecurs ==
    <>[](status = "ready" /\ ~IsWarmingUp) => []<><<cycle # "running" /\ cycle' = "running">>_vars

-----------------------------------------------------------------------------
(* A statement of the documentation the code does not keep *)

\* EMBEDDING.md, of updateSystemConfig: "a recovery pass is scheduled for the
\* new device set".
EveryUpdateRecovered == CallsEnd => <>[](disturbed \/ owed = "nothing")

=============================================================================
