------------------------- MODULE StartupLifecycle_proofs -------------------------
(***************************************************************************)
(* Stop leaves nothing behind, one recovery pass is on its way at a time,  *)
(* and warm-up covers its own commands, for all delays.                    *)
(***************************************************************************)
EXTENDS StartupLifecycle, SequenceTheorems, TLAPS

-----------------------------------------------------------------------------
(* Delays *)

\* The delays are positive numbers.
LEMMA Delays ==
    /\ BootDelay \in Nat /\ BootDelay > 0
    /\ StateTimeout \in Nat /\ StateTimeout > 0
    /\ PingTimeout \in Nat /\ PingTimeout > 0
    /\ DrainDelay \in Nat /\ DrainDelay > 0
    /\ WatchdogInterval \in Nat /\ WatchdogInterval > 0
    /\ MaxCommands \in Nat /\ MaxUntracked \in Nat
BY LifecycleAssumption

\* Off is no delay of any timer.
LEMMA OffIsOff ==
    /\ WarmupTime \in Nat /\ Off \in Nat
    /\ WarmupTime < Off /\ BootDelay < Off /\ StateTimeout < Off /\ PingTimeout < Off
    /\ DrainDelay < Off /\ WatchdogInterval < Off
    /\ BootDelay < WarmupTime /\ PingTimeout < WarmupTime
BY Delays DEF WarmupTime, Off

\* Nor is it the mark of a promise that was kept.
LEMMA KeptIsKept == Kept \in Nat /\ Kept > Off
BY OffIsOff DEF Kept

\* A timer that is not due comes one tick closer or stays off.
LEMMA SoonerTimer ==
    ASSUME NEW longest \in Nat, longest < Off, NEW timer \in Timer(longest), ~Due(timer)
    PROVE  /\ Sooner(timer) \in Timer(longest)
           /\ timer = Off <=> Sooner(timer) = Off
           /\ timer # Off => Sooner(timer) = timer - 1
BY OffIsOff, KeptIsKept DEF Timer, Sooner, Due

\* So does the drain's pause, and a promise that was kept stays.
LEMMA SoonerDrain ==
    ASSUME drain \in Timer(DrainDelay) \cup {Kept}, ~Due(drain)
    PROVE  /\ Sooner(drain) \in Timer(DrainDelay) \cup {Kept}
           /\ drain = Off <=> Sooner(drain) = Off
           /\ drain = Kept <=> Sooner(drain) = Kept
           /\ drain \notin {Off, Kept} => Sooner(drain) = drain - 1
BY Delays, OffIsOff, KeptIsKept DEF Timer, Sooner, Due

\* The values a timer is set to.
LEMMA TimerValues ==
    /\ WarmupTime \in Timer(WarmupTime) /\ PingTimeout \in Timer(WarmupTime)
    /\ BootDelay \in Timer(BootDelay)
    /\ StateTimeout \in Timer(StateTimeout)
    /\ WatchdogInterval \in Timer(WatchdogInterval)
    /\ PingTimeout \in 0 .. PingTimeout
    /\ \A longest : Off \in Timer(longest)
BY Delays, OffIsOff DEF Timer

-----------------------------------------------------------------------------
(* Types *)

\* The conjuncts of TypeOK that several actions disturb together.
OutputTypeOK ==
    /\ stage \in Stages
    /\ commands \in 0 .. MaxCommands
    /\ drain \in Timer(DrainDelay) \cup {Kept}

\* What a pass hands to the output keeps its types.
LEMMA SendCommandsType ==
    ASSUME TypeOK, SendCommands
    PROVE  OutputTypeOK'
<1>1. CASE stage' \in {"verified", "sending"} /\ UNCHANGED <<commands, drain>>
  BY <1>1 DEF TypeOK, OutputTypeOK, Stages
<1>2. ASSUME NEW burst \in 2 .. MaxCommands,
             commands + burst <= MaxCommands,
             ScheduleLowPriorityDrain(burst)
      PROVE  OutputTypeOK'
  BY <1>2, Delays DEF ScheduleLowPriorityDrain, TypeOK, OutputTypeOK, Stages
<1> QED
  BY <1>1, <1>2 DEF SendCommands

\* Dropping the low-priority queue keeps the types of the output.
LEMMA InvalidateType ==
    ASSUME TypeOK, InvalidateLowPriorityDrain
    PROVE  OutputTypeOK'
BY Delays, OffIsOff DEF TypeOK, OutputTypeOK, InvalidateLowPriorityDrain, Stages, Timer

\* An overwritten verification timer joins the untracked ones.
LEMMA LoseVerificationType ==
    ASSUME TypeOK, LoseVerificationTimer
    PROVE  untracked' \in Seq(0 .. StateTimeout)
<1>1. untracked \in Seq(0 .. StateTimeout) /\ verification \in Timer(StateTimeout)
  BY DEF TypeOK
<1>2. CASE verification = Off
  BY <1>1, <1>2 DEF LoseVerificationTimer
<1>3. CASE verification # Off
  BY <1>1, <1>3 DEF LoseVerificationTimer, Timer
<1> QED
  BY <1>2, <1>3

\* A command keeps the types of the window it may extend.
LEMMA SendCommandType ==
    ASSUME TypeOK, SendCommand(PingTimeout)
    PROVE  /\ warmup' \in Timer(WarmupTime)
           /\ status' \in Statuses
           /\ silence' \in 0 .. PingTimeout
BY Delays, OffIsOff DEF TypeOK, SendCommand, Timer, Statuses

\* Starting a verification pass keeps the types of all it sets.
LEMMA VerificationType ==
    ASSUME TypeOK, NEW pendingWarmup, RunInitialVerification(pendingWarmup)
    PROVE  /\ OutputTypeOK'
           /\ verification' \in Timer(StateTimeout)
           /\ owed' \in {"nothing", "soon", "forgotten"}
           /\ inWarmup' \in BOOLEAN
           /\ silence' \in 0 .. PingTimeout
           /\ cycle' \in Cycles /\ disturbed' \in BOOLEAN
<1>1. OutputTypeOK'
  BY SendCommandsType DEF RunInitialVerification
<1> QED
  BY <1>1 DEF TypeOK, RunInitialVerification, SendCommands, Timer

\* A call of runWatchdogCycle keeps the types.
LEMMA WatchdogCycleType ==
    ASSUME TypeOK, RunWatchdogCycle, watchdog' \in Timer(WatchdogInterval), disturbed' \in BOOLEAN
    PROVE  TypeOK'
<1>1. CASE RunWatchdogCheck
  <2>1. OutputTypeOK'
    BY <1>1, SendCommandsType DEF RunWatchdogCheck
  <2> QED
    BY <1>1, <2>1 DEF RunWatchdogCheck, SendCommands, TypeOK, OutputTypeOK, Cycles
<1>2. CASE ~RunWatchdogCheck
  BY <1>2 DEF RunWatchdogCycle, TypeOK, Cycles, output
<1> QED
  BY <1>1, <1>2

\* Taking one timer out leaves a sequence of timers.
LEMMA UntrackedType ==
    ASSUME TypeOK, NEW i \in DOMAIN untracked
    PROVE  SubSeq(untracked, 1, i - 1) \o SubSeq(untracked, i + 1, Len(untracked))
               \in Seq(0 .. StateTimeout)
<1>1. untracked \in Seq(0 .. StateTimeout) /\ i \in 1 .. Len(untracked)
  BY DEF TypeOK
<1>2. Len(untracked) \in Nat
  BY <1>1
<1>3. i - 1 \in Int /\ i + 1 \in Int
  BY <1>1, <1>2
<1>4. \A k \in 1 .. Len(untracked) : untracked[k] \in 0 .. StateTimeout
  BY <1>1, ElementOfSeq
<1>5. (\A k \in 1 .. i - 1 : untracked[k] \in 0 .. StateTimeout)
      /\ (\A k \in i + 1 .. Len(untracked) : untracked[k] \in 0 .. StateTimeout)
  BY <1>1, <1>2, <1>4
<1>6. SubSeq(untracked, 1, i - 1) \in Seq(0 .. StateTimeout)
  BY <1>3, <1>5, SubSeqProperties
<1>7. SubSeq(untracked, i + 1, Len(untracked)) \in Seq(0 .. StateTimeout)
  BY <1>2, <1>3, <1>5, SubSeqProperties
<1> QED
  BY <1>6, <1>7

\* The history of untimely calls stays a flag.
LEMMA DisturbedType ==
    ASSUME TypeOK, Undisturbed \/ UndisturbedUpdate
    PROVE  disturbed' \in BOOLEAN
BY DEF TypeOK, Undisturbed, UndisturbedUpdate

\* A step of the API keeps the types.
LEMMA CallType ==
    ASSUME TypeOK, Call
    PROVE  TypeOK'
<1>1. CASE Start
  <2>1. OutputTypeOK'
    BY <1>1, InvalidateType DEF Start
  <2>2. warmup' \in Timer(WarmupTime) /\ bootTimer' \in Timer(BootDelay)
    BY <1>1, TimerValues DEF Start
  <2>3. verification' \in Timer(StateTimeout) /\ watchdog' \in Timer(WatchdogInterval)
    BY <1>1, TimerValues DEF Start, TypeOK
  <2> QED
    BY <1>1, <2>1, <2>2, <2>3, TimerValues, DisturbedType
    DEF Start, TypeOK, OutputTypeOK, Statuses
<1>2. CASE StartRefused
  <2>1. CASE status' = "config_error" /\ UNCHANGED <<timers, queued, output>>
    BY <1>2, <2>1, DisturbedType DEF StartRefused, TypeOK, Statuses, timers, output
  <2>2. CASE /\ status' = "starting"
             /\ InvalidateLowPriorityDrain
             /\ warmup' = Off /\ bootTimer' = Off /\ verification' = Off
             /\ queued' = FALSE
             /\ UNCHANGED <<untracked, recoveryTimer, watchdog>>
    <3>1. OutputTypeOK'
      BY <2>2, InvalidateType
    <3> QED
      BY <1>2, <2>2, <3>1, DisturbedType
      DEF StartRefused, TypeOK, OutputTypeOK, Statuses, Timer
  <2> QED
    BY <1>2, <2>1, <2>2 DEF StartRefused
<1>3. CASE Stop
  <2>1. OutputTypeOK'
    BY <1>3, InvalidateType DEF Stop
  <2> QED
    BY <1>3, <2>1, TimerValues, DisturbedType
    DEF Stop, ClearTimers, TypeOK, OutputTypeOK, Statuses
<1>4. CASE UpdateSystemConfig
  <2>1. OutputTypeOK'
    BY <1>4, InvalidateType DEF UpdateSystemConfig
  <2>2. recoveryTimer' \in Timer(BootDelay) /\ queued' \in BOOLEAN
    BY <1>4, TimerValues DEF UpdateSystemConfig, TypeOK
  <2>3. owed' \in {"nothing", "soon", "forgotten"} /\ disturbed' \in BOOLEAN
    BY <1>4, DisturbedType DEF UpdateSystemConfig, TypeOK
  <2> QED
    BY <1>4, <2>1, <2>2, <2>3 DEF UpdateSystemConfig, TypeOK, OutputTypeOK
<1>5. CASE UpdateRefused
  <2>1. CASE status' = "config_error" /\ UNCHANGED output
    BY <1>5, <2>1, DisturbedType DEF UpdateRefused, TypeOK, Statuses, timers, output
  <2>2. CASE InvalidateLowPriorityDrain /\ UNCHANGED status
    <3>1. OutputTypeOK'
      BY <2>2, InvalidateType
    <3> QED
      BY <1>5, <2>2, <3>1, DisturbedType DEF UpdateRefused, TypeOK, OutputTypeOK, timers
  <2> QED
    BY <1>5, <2>1, <2>2 DEF UpdateRefused
<1>6. CASE RunWatchdogNow
  <2>1. watchdog' \in Timer(WatchdogInterval) /\ disturbed' \in BOOLEAN
    BY <1>6 DEF RunWatchdogNow, TypeOK
  <2> QED
    BY <1>6, <2>1, WatchdogCycleType DEF RunWatchdogNow
<1> QED
  BY <1>1, <1>2, <1>3, <1>4, <1>5, <1>6 DEF Call

\* A step of the event loop keeps the types.
LEMMA EventLoopType ==
    ASSUME TypeOK, EventLoop
    PROVE  TypeOK'
<1>1. CASE StartupBoot
  <2>1. CASE stage' = "booting" /\ UNCHANGED <<status, warmup, verification, untracked, cycle,
                                              commands, drain, history>>
    BY <1>1, <2>1, TimerValues DEF StartupBoot, TypeOK, Stages, history
  <2>2. CASE /\ warmup' = PingTimeout
             /\ status' = "warming_up"
             /\ LoseVerificationTimer
             /\ RunInitialVerification(PingTimeout)
    <3>1. untracked' \in Seq(0 .. StateTimeout)
      BY <2>2, LoseVerificationType
    <3> QED
      BY <1>1, <2>2, <3>1, VerificationType, TimerValues
      DEF StartupBoot, TypeOK, OutputTypeOK, Statuses
  <2> QED
    BY <1>1, <2>1, <2>2 DEF StartupBoot
<1>2. CASE RuntimeRecovery
  <2>1. CASE isClosing /\ UNCHANGED <<verification, untracked, cycle, output, history>>
    BY <1>2, <2>1, TimerValues DEF RuntimeRecovery, TypeOK, output, history
  <2>2. CASE stage' = "booting" /\ UNCHANGED <<verification, untracked, cycle, commands, drain,
                                              history>>
    BY <1>2, <2>2, TimerValues DEF RuntimeRecovery, TypeOK, Stages, history
  <2>3. CASE LoseVerificationTimer /\ RunInitialVerification(warmup)
    <3>1. untracked' \in Seq(0 .. StateTimeout)
      BY <2>3, LoseVerificationType
    <3> QED
      BY <1>2, <2>3, <3>1, VerificationType, TimerValues DEF RuntimeRecovery, TypeOK, OutputTypeOK
  <2> QED
    BY <1>2, <2>1, <2>2, <2>3 DEF RuntimeRecovery
<1>3. CASE FinishBooting
  <2>1. untracked' \in Seq(0 .. StateTimeout)
    BY <1>3, LoseVerificationType DEF FinishBooting
  <2> QED
    BY <1>3, <2>1, TimerValues DEF FinishBooting, TypeOK, Stages, history
<1>4. CASE InitialVerification
  BY <1>4, VerificationType DEF InitialVerification, TypeOK, OutputTypeOK
<1>5. CASE UntrackedVerification
  <2> DEFINE Others(i) == SubSeq(untracked, 1, i - 1) \o SubSeq(untracked, i + 1, Len(untracked))
  <2>1. PICK i \in DOMAIN untracked :
          untracked' = IF verification = Off THEN Others(i) ELSE Append(Others(i), verification)
    BY <1>5 DEF UntrackedVerification
  <2>2. verification = Off \/ verification \in 0 .. StateTimeout
    BY DEF TypeOK, Timer
  <2>3. Others(i) \in Seq(0 .. StateTimeout)
    BY UntrackedType
  <2> HIDE DEF Others
  <2>4. untracked' \in Seq(0 .. StateTimeout)
    BY <2>1, <2>2, <2>3, AppendProperties
  <2> QED
    BY <1>5, <2>4, VerificationType DEF UntrackedVerification, TypeOK, OutputTypeOK
<1>6. CASE SendFirstCommand
  <2>1. drain' \in Timer(DrainDelay) \cup {Kept}
    BY <1>6, Delays DEF SendFirstCommand, TypeOK, Timer
  <2> QED
    BY <1>6, <2>1, SendCommandType DEF SendFirstCommand, TypeOK, Stages
<1>7. CASE FinishVerification
  <2>1. recoveryTimer' \in Timer(BootDelay) /\ queued' \in BOOLEAN
    BY <1>7, TimerValues DEF FinishVerification, TypeOK
  <2> QED
    BY <1>7, <2>1 DEF FinishVerification, TypeOK, Stages, history
<1>8. CASE WatchdogDue
  BY <1>8, WatchdogCycleType, TimerValues DEF WatchdogDue, TypeOK
<1>9. CASE FinishWatchdogCheck
  <2>1. CASE RunWatchdogCheck
    <3>1. OutputTypeOK'
      BY <2>1, SendCommandsType DEF RunWatchdogCheck
    <3> QED
      BY <1>9, <2>1, <3>1
      DEF FinishWatchdogCheck, RunWatchdogCheck, SendCommands, TypeOK, OutputTypeOK, Cycles
  <2>2. CASE ~RunWatchdogCheck
    BY <1>9, <2>2 DEF FinishWatchdogCheck, TypeOK, Stages, Cycles
  <2> QED
    BY <2>1, <2>2
<1>10. CASE WakeDrain
  <2>1. drain' \in Timer(DrainDelay) \cup {Kept} /\ commands' \in 0 .. MaxCommands
    BY <1>10, Delays DEF WakeDrain, TypeOK, Timer
  <2>2. /\ warmup' \in Timer(WarmupTime)
        /\ status' \in Statuses
        /\ silence' \in 0 .. PingTimeout
    BY <1>10, SendCommandType DEF WakeDrain, TypeOK
  <2> QED
    BY <1>10, <2>1, <2>2 DEF WakeDrain, TypeOK
<1>11. CASE EndWarmup
  BY <1>11, TimerValues DEF EndWarmup, TypeOK, Statuses, output, history
<1>12. CASE FinishStop
  BY <1>12 DEF FinishStop, TypeOK, Statuses, timers, output, history
<1>13. CASE Tick
  <2>1. /\ warmup' \in Timer(WarmupTime) /\ bootTimer' \in Timer(BootDelay)
        /\ verification' \in Timer(StateTimeout) /\ recoveryTimer' \in Timer(BootDelay)
        /\ watchdog' \in Timer(WatchdogInterval) /\ drain' \in Timer(DrainDelay) \cup {Kept}
    BY <1>13, SoonerTimer, SoonerDrain, OffIsOff, Delays DEF Tick, TypeOK
  <2>2. untracked' \in Seq(0 .. StateTimeout)
    <3>1. untracked \in Seq(0 .. StateTimeout) /\ \A i \in DOMAIN untracked : untracked[i] # 0
      BY <1>13 DEF Tick, TypeOK, Due
    <3>2. \A i \in DOMAIN untracked : untracked[i] - 1 \in 0 .. StateTimeout
      BY <3>1, Delays
    <3>3. DOMAIN untracked = 1 .. Len(untracked) /\ Len(untracked) \in Nat
      BY <3>1
    <3>4. untracked' = [i \in DOMAIN untracked |-> untracked[i] - 1]
      BY <1>13 DEF Tick
    <3>5. untracked' \in [1 .. Len(untracked) -> 0 .. StateTimeout]
      BY <3>2, <3>3, <3>4, Zenon
    <3> QED
      BY <3>3, <3>5, SeqDef
  <2>3. silence' \in 0 .. PingTimeout
    BY <1>13, Delays DEF Tick, TypeOK
  <2> QED
    BY <1>13, <2>1, <2>2, <2>3 DEF Tick, TypeOK
<1> QED
  BY <1>1, <1>2, <1>3, <1>4, <1>5, <1>6, <1>7, <1>8, <1>9, <1>10, <1>11, <1>12, <1>13 DEF EventLoop

\* A coordinator that was never started is well typed.
LEMMA InitType ==
    ASSUME Init
    PROVE  TypeOK
<1>1. untracked \in Seq(0 .. StateTimeout)
  BY DEF Init
<1>2. 0 \in 0 .. MaxCommands
  BY Delays
<1>3. drain \in Timer(DrainDelay) \cup {Kept}
  BY TimerValues DEF Init
<1>4. warmup \in Timer(WarmupTime) /\ bootTimer \in Timer(BootDelay)
      /\ verification \in Timer(StateTimeout) /\ recoveryTimer \in Timer(BootDelay)
      /\ watchdog \in Timer(WatchdogInterval)
  BY TimerValues DEF Init
<1> QED
  BY <1>1, <1>2, <1>3, <1>4, TimerValues DEF Init, TypeOK, Statuses, Stages, Cycles

\* Every step, or none, keeps the types.
LEMMA NextType ==
    ASSUME TypeOK, [Next]_vars
    PROVE  TypeOK'
<1>1. CASE UNCHANGED vars
  BY <1>1 DEF vars, timers, output, history, TypeOK
<1> QED
  BY <1>1, CallType, EventLoopType DEF Next

\* Timers, queue and history stay in their ranges whatever is called when.
THEOREM TypeCorrect == Spec => []TypeOK
<1>1. Init => TypeOK
  BY InitType
<1>2. TypeOK /\ [Next]_vars => TypeOK'
  BY NextType
<1> QED
  BY <1>1, <1>2, PTL DEF Spec

-----------------------------------------------------------------------------
(* Stop and the single pass *)

\* A startup or recovery pass has begun and not yet ended.
UnderWay == stage # "idle" /\ cycle = "none"

\* The continuation a watchdog cycle can leave behind.
CycleStage ==
    cycle # "none" => stage \in {"sending", "draining", "verified"} /\ ~inWarmup

\* At most one of the boot timer, the verification timer, the recovery timer
\* and a running pass exists: each is armed when the others are spent.
OnePassAhead ==
    /\ untracked = <<>>
    /\ bootTimer # Off => verification = Off /\ recoveryTimer = Off /\ ~UnderWay
    /\ verification # Off => recoveryTimer = Off /\ ~UnderWay
    /\ recoveryTimer # Off => ~UnderWay

TimersOff ==
    /\ warmup = Off /\ bootTimer = Off /\ verification = Off
    /\ recoveryTimer = Off /\ watchdog = Off

\* Closing leaves the end of a watchdog cycle and one pause of the drain.
Silenced ==
    /\ flushing => isClosing
    /\ isClosing => TimersOff /\ commands = 0 /\ ~UnderWay
    /\ status = "stopped" =>
         TimersOff /\ drain = Off /\ stage = "idle" /\ commands = 0 /\ ~flushing

IInv ==
    /\ TypeOK
    /\ CycleStage
    /\ ~disturbed => OnePassAhead /\ Silenced /\ drain # Kept

\* A timer that is due, or has just been set, is not off.
LEMMA NotOff ==
    /\ 0 # Off /\ BootDelay # Off /\ StateTimeout # Off /\ PingTimeout # Off
    /\ WarmupTime # Off /\ WatchdogInterval # Off
BY OffIsOff, Delays

\* A call that leaves the history undisturbed came between two passes.
LEMMA Calm ==
    ASSUME Undisturbed \/ UndisturbedUpdate, ~disturbed'
    PROVE  /\ ~disturbed /\ ~UnderWay
           /\ UndisturbedUpdate => Running
BY DEF Undisturbed, UndisturbedUpdate, UnderWay

\* A pass leaves a continuation behind.
LEMMA SendCommandsStage ==
    ASSUME SendCommands
    PROVE  /\ stage' \in {"sending", "draining", "verified"}
           /\ ~isClosing => UNCHANGED drain
BY DEF SendCommands, ScheduleLowPriorityDrain

\* A call out of turn is never forgotten.
LEMMA DisturbedStays ==
    ASSUME [Next]_vars, ~disturbed'
    PROVE  ~disturbed
<1>1. CASE Start \/ StartRefused \/ Stop \/ UpdateSystemConfig \/ UpdateRefused \/ RunWatchdogNow
  BY <1>1 DEF Start, StartRefused, Stop, UpdateSystemConfig, UpdateRefused, RunWatchdogNow,
     Undisturbed, UndisturbedUpdate
<1>2. CASE StartupBoot \/ RuntimeRecovery \/ InitialVerification \/ UntrackedVerification
  BY <1>2 DEF StartupBoot, RuntimeRecovery, InitialVerification, UntrackedVerification,
     RunInitialVerification, history
<1>3. CASE FinishBooting \/ SendFirstCommand \/ FinishVerification \/ WatchdogDue \/ FinishWatchdogCheck
  BY <1>3 DEF FinishBooting, SendFirstCommand, FinishVerification, WatchdogDue, FinishWatchdogCheck,
     history
<1>4. CASE WakeDrain \/ EndWarmup \/ FinishStop \/ Tick \/ UNCHANGED vars
  BY <1>4 DEF WakeDrain, EndWarmup, FinishStop, Tick, vars, history
<1> QED
  BY <1>1, <1>2, <1>3, <1>4 DEF Next, Call, EventLoop

\* Only a watchdog cycle continues a watchdog cycle.
LEMMA CycleStageNext ==
    ASSUME IInv, [Next]_vars
    PROVE  CycleStage'
<1> USE DEF IInv, CycleStage
<1>1. CASE Start \/ StartRefused \/ Stop \/ UpdateSystemConfig \/ UpdateRefused
  BY <1>1 DEF Start, StartRefused, Stop, UpdateSystemConfig, UpdateRefused,
     InvalidateLowPriorityDrain, output
<1>2. CASE RunWatchdogNow \/ WatchdogDue \/ FinishWatchdogCheck
  BY <1>2, SendCommandsStage
  DEF RunWatchdogNow, WatchdogDue, FinishWatchdogCheck, RunWatchdogCycle, RunWatchdogCheck, output
<1>3. CASE StartupBoot
  BY <1>3, SendCommandsStage DEF StartupBoot, RunInitialVerification
<1>4. CASE RuntimeRecovery
  BY <1>4, SendCommandsStage DEF RuntimeRecovery, RunInitialVerification, output, history
<1>5. CASE InitialVerification \/ UntrackedVerification
  BY <1>5, SendCommandsStage DEF InitialVerification, UntrackedVerification, RunInitialVerification
<1>6. CASE FinishBooting \/ SendFirstCommand \/ FinishVerification
  BY <1>6 DEF FinishBooting, SendFirstCommand, FinishVerification, history
<1>7. CASE WakeDrain \/ EndWarmup \/ FinishStop \/ Tick \/ UNCHANGED vars
  BY <1>7 DEF WakeDrain, EndWarmup, FinishStop, Tick, vars, output, history
<1> QED
  BY <1>1, <1>2, <1>3, <1>4, <1>5, <1>6, <1>7 DEF Next, Call, EventLoop

\* Each timer of a pass is armed only when the others are spent.
LEMMA OnePassNext ==
    ASSUME IInv, [Next]_vars, ~disturbed'
    PROVE  OnePassAhead'
<1> USE DEF OnePassAhead, UnderWay
<1>1. CASE Start
  <2>1. OnePassAhead /\ Silenced /\ ~UnderWay
    BY <1>1, Calm DEF Start, IInv
  <2> QED
    BY <1>1, <2>1 DEF Start, Silenced, TimersOff, InvalidateLowPriorityDrain
<1>2. CASE StartRefused
  <2>1. OnePassAhead /\ Silenced /\ ~UnderWay
    BY <1>2, Calm DEF StartRefused, IInv
  <2> QED
    BY <1>2, <2>1 DEF StartRefused, InvalidateLowPriorityDrain, timers, output
<1>3. CASE Stop
  <2>1. OnePassAhead /\ ~UnderWay
    BY <1>3, Calm DEF Stop, IInv
  <2> QED
    BY <1>3, <2>1 DEF Stop, ClearTimers
<1>4. CASE UpdateSystemConfig
  <2>1. OnePassAhead /\ ~UnderWay
    BY <1>4, Calm DEF UpdateSystemConfig, IInv
  <2> QED
    BY <1>4, <2>1
    DEF UpdateSystemConfig, StartupRecoveryStillPending, InvalidateLowPriorityDrain
<1>5. CASE UpdateRefused
  <2>1. OnePassAhead /\ ~UnderWay
    BY <1>5, Calm DEF UpdateRefused, IInv
  <2> QED
    BY <1>5, <2>1 DEF UpdateRefused, InvalidateLowPriorityDrain, timers, output
<1>6. CASE RunWatchdogNow
  <2>1. OnePassAhead
    BY <1>6 DEF RunWatchdogNow, IInv
  <2> QED
    BY <1>6, <2>1, SendCommandsStage
    DEF RunWatchdogNow, RunWatchdogCycle, RunWatchdogCheck, output
<1>7. CASE StartupBoot
  <2>1. OnePassAhead
    BY <1>7 DEF StartupBoot, IInv, RunInitialVerification, history
  <2> QED
    BY <1>7, <2>1, NotOff
    DEF StartupBoot, RunInitialVerification, LoseVerificationTimer
<1>8. CASE RuntimeRecovery
  <2>1. OnePassAhead
    BY <1>8 DEF RuntimeRecovery, IInv, RunInitialVerification, history
  <2> QED
    BY <1>8, <2>1, NotOff
    DEF RuntimeRecovery, RunInitialVerification, LoseVerificationTimer, output
<1>9. CASE FinishBooting
  <2>1. OnePassAhead /\ CycleStage
    BY <1>9 DEF FinishBooting, IInv, history
  <2> QED
    BY <1>9, <2>1, NotOff DEF FinishBooting, CycleStage, LoseVerificationTimer
<1>10. CASE InitialVerification
  <2>1. OnePassAhead
    BY <1>10 DEF InitialVerification, IInv, RunInitialVerification
  <2> QED
    BY <1>10, <2>1, NotOff DEF InitialVerification, RunInitialVerification
<1>11. CASE UntrackedVerification
  <2>1. OnePassAhead
    BY <1>11 DEF UntrackedVerification, IInv, RunInitialVerification
  <2> QED
    BY <1>11, <2>1 DEF UntrackedVerification
<1>12. CASE SendFirstCommand \/ FinishVerification
  <2>1. OnePassAhead
    BY <1>12 DEF SendFirstCommand, FinishVerification, IInv, history
  <2> QED
    BY <1>12, <2>1 DEF SendFirstCommand, FinishVerification
<1>13. CASE WatchdogDue \/ FinishWatchdogCheck
  <2>1. OnePassAhead
    BY <1>13 DEF WatchdogDue, FinishWatchdogCheck, IInv
  <2> QED
    BY <1>13, <2>1, SendCommandsStage
    DEF WatchdogDue, FinishWatchdogCheck, RunWatchdogCycle, RunWatchdogCheck, output
<1>14. CASE WakeDrain \/ EndWarmup \/ FinishStop \/ UNCHANGED vars
  <2>1. OnePassAhead
    BY <1>14 DEF WakeDrain, EndWarmup, FinishStop, vars, IInv, history
  <2> QED
    BY <1>14, <2>1 DEF WakeDrain, EndWarmup, FinishStop, vars, timers, output
<1>15. CASE Tick
  <2>1. OnePassAhead
    BY <1>15 DEF Tick, IInv
  <2>2. untracked' = <<>>
    BY <1>15, <2>1 DEF Tick
  <2>3. /\ bootTimer' # Off => bootTimer # Off
        /\ verification' # Off <=> verification # Off
        /\ recoveryTimer' # Off <=> recoveryTimer # Off
    BY <1>15, SoonerTimer, OffIsOff, Delays DEF Tick, TypeOK, IInv
  <2> QED
    BY <1>15, <2>1, <2>2, <2>3 DEF Tick
<1> QED
  BY <1>1, <1>2, <1>3, <1>4, <1>5, <1>6, <1>7, <1>8, <1>9, <1>10, <1>11, <1>12, <1>13, <1>14, <1>15
  DEF Next, Call, EventLoop

\* What stop has silenced stays so until the next start.
LEMMA SilencedNext ==
    ASSUME IInv, [Next]_vars, ~disturbed'
    PROVE  Silenced'
<1> USE DEF Silenced, TimersOff, UnderWay
<1>1. CASE Start
  BY <1>1, Calm DEF Start, IInv
<1>2. CASE StartRefused
  <2>1. Silenced /\ ~UnderWay
    BY <1>2, Calm DEF StartRefused, IInv
  <2> QED
    BY <1>2, <2>1 DEF StartRefused, InvalidateLowPriorityDrain, timers, output
<1>3. CASE Stop
  <2>1. Silenced /\ ~UnderWay
    BY <1>3, Calm DEF Stop, IInv
  <2> QED
    BY <1>3, <2>1 DEF Stop, ClearTimers, InvalidateLowPriorityDrain
<1>4. CASE UpdateSystemConfig
  <2>1. Silenced /\ ~UnderWay /\ Running
    BY <1>4, Calm DEF UpdateSystemConfig, IInv
  <2> QED
    BY <1>4, <2>1 DEF UpdateSystemConfig, Running
<1>5. CASE UpdateRefused
  <2>1. Silenced /\ ~UnderWay /\ Running
    BY <1>5, Calm DEF UpdateRefused, IInv
  <2> QED
    BY <1>5, <2>1 DEF UpdateRefused, Running
<1>6. CASE RunWatchdogNow
  <2>1. Silenced /\ (isClosing \/ status # "stopped")
    BY <1>6 DEF RunWatchdogNow, IInv
  <2> QED
    BY <1>6, <2>1 DEF RunWatchdogNow, RunWatchdogCycle, RunWatchdogCheck, output
<1>7. CASE StartupBoot
  <2>1. Silenced
    BY <1>7 DEF StartupBoot, IInv, RunInitialVerification, history
  <2> QED
    BY <1>7, <2>1, NotOff DEF StartupBoot
<1>8. CASE RuntimeRecovery
  <2>1. Silenced
    BY <1>8 DEF RuntimeRecovery, IInv, RunInitialVerification, history
  <2> QED
    BY <1>8, <2>1, NotOff DEF RuntimeRecovery
<1>9. CASE FinishBooting
  <2>1. Silenced /\ CycleStage
    BY <1>9 DEF FinishBooting, IInv, history
  <2> QED
    BY <1>9, <2>1 DEF FinishBooting, CycleStage
<1>10. CASE InitialVerification \/ UntrackedVerification
  <2>1. Silenced /\ OnePassAhead
    BY <1>10 DEF InitialVerification, UntrackedVerification, IInv, RunInitialVerification
  <2> QED
    BY <1>10, <2>1, NotOff DEF InitialVerification, UntrackedVerification, OnePassAhead
<1>11. CASE SendFirstCommand
  <2>1. Silenced
    BY <1>11 DEF SendFirstCommand, IInv
  <2> QED
    BY <1>11, <2>1 DEF SendFirstCommand, SendCommand, IsWarmingUp
<1>12. CASE FinishVerification
  <2>1. Silenced
    BY <1>12 DEF FinishVerification, IInv, history
  <2> QED
    BY <1>12, <2>1 DEF FinishVerification
<1>13. CASE WatchdogDue
  <2>1. Silenced
    BY <1>13 DEF WatchdogDue, IInv
  <2> QED
    BY <1>13, <2>1, NotOff DEF WatchdogDue, RunWatchdogCycle, RunWatchdogCheck, output
<1>14. CASE FinishWatchdogCheck
  <2>1. Silenced
    BY <1>14 DEF FinishWatchdogCheck, IInv
  <2> QED
    BY <1>14, <2>1 DEF FinishWatchdogCheck, RunWatchdogCheck
<1>15. CASE WakeDrain
  <2>1. Silenced
    BY <1>15 DEF WakeDrain, IInv
  <2> QED
    BY <1>15, <2>1, NotOff DEF WakeDrain, SendCommand, IsWarmingUp
<1>16. CASE EndWarmup \/ FinishStop \/ UNCHANGED vars
  <2>1. Silenced /\ drain # Kept
    BY <1>16 DEF EndWarmup, FinishStop, vars, IInv, history
  <2> QED
    BY <1>16, <2>1, NotOff DEF EndWarmup, FinishStop, vars, timers, output
<1>17. CASE Tick
  <2>1. Silenced
    BY <1>17 DEF Tick, IInv
  <2> QED
    BY <1>17, <2>1 DEF Tick, Sooner
<1> QED
  BY <1>1, <1>2, <1>3, <1>4, <1>5, <1>6, <1>7, <1>8, <1>9, <1>10, <1>11, <1>12, <1>13, <1>14,
     <1>15, <1>16, <1>17
  DEF Next, Call, EventLoop

\* No burst comes to a drain that is closing.
LEMMA NotKeptNext ==
    ASSUME IInv, [Next]_vars, ~disturbed'
    PROVE  drain' # Kept
<1>1. ~disturbed
  BY DisturbedStays
<1>2. drain # Kept /\ Off # Kept
  BY <1>1, OffIsOff, KeptIsKept DEF IInv
<1>3. isClosing => TimersOff
  BY <1>1 DEF IInv, Silenced
<1>4. CASE Start \/ StartRefused \/ Stop \/ UpdateSystemConfig \/ UpdateRefused
  BY <1>2, <1>4 DEF Start, StartRefused, Stop, UpdateSystemConfig, UpdateRefused,
     InvalidateLowPriorityDrain, output
<1>5. CASE RunWatchdogNow \/ WatchdogDue \/ FinishWatchdogCheck
  BY <1>2, <1>5, SendCommandsStage
  DEF RunWatchdogNow, WatchdogDue, FinishWatchdogCheck, RunWatchdogCycle, RunWatchdogCheck, output
<1>6. CASE StartupBoot
  BY <1>2, <1>3, <1>6, NotOff, SendCommandsStage
  DEF StartupBoot, RunInitialVerification, TimersOff
<1>7. CASE RuntimeRecovery
  BY <1>2, <1>7, SendCommandsStage DEF RuntimeRecovery, RunInitialVerification, output
<1>8. CASE InitialVerification \/ UntrackedVerification
  <2>1. OnePassAhead
    BY <1>1 DEF IInv
  <2> QED
    BY <1>2, <1>3, <1>8, <2>1, NotOff, SendCommandsStage
    DEF InitialVerification, UntrackedVerification, RunInitialVerification, TimersOff, OnePassAhead
<1>9. CASE SendFirstCommand \/ WakeDrain
  <2>1. \A pause \in 1 .. DrainDelay : pause # Kept
    BY Delays, OffIsOff, KeptIsKept
  <2> QED
    BY <1>2, <1>9, <2>1 DEF SendFirstCommand, WakeDrain
<1>10. CASE FinishBooting \/ FinishVerification \/ EndWarmup \/ FinishStop \/ UNCHANGED vars
  BY <1>2, <1>10 DEF FinishBooting, FinishVerification, EndWarmup, FinishStop, vars, output
<1>11. CASE Tick
  BY <1>2, <1>11, SoonerDrain DEF Tick, IInv, TypeOK
<1> QED
  BY <1>4, <1>5, <1>6, <1>7, <1>8, <1>9, <1>10, <1>11 DEF Next, Call, EventLoop

\* A coordinator that was never started is silent.
LEMMA InitIInv ==
    ASSUME Init
    PROVE  IInv
<1>1. drain # Kept
  BY OffIsOff, KeptIsKept DEF Init
<1> QED
  BY <1>1, InitType DEF Init, IInv, CycleStage, OnePassAhead, Silenced, TimersOff, UnderWay

\* The invariant the theorems below rest on.
LEMMA Invariant == Spec => []IInv
<1>1. Init => IInv
  BY InitIInv
<1>2. IInv /\ [Next]_vars => IInv'
  BY NextType, CycleStageNext, OnePassNext, SilencedNext, NotKeptNext DEF IInv
<1> QED
  BY <1>1, <1>2, PTL DEF Spec

\* Whatever phase of startup, recovery, draining or a watchdog cycle stop
\* interrupts, once it is done no timer is armed and no continuation is left
\* that could send (stop, clearTimers and the flush), for all delays.
THEOREM StopSilences == Spec => []StoppedIsQuiet
<1>1. IInv => StoppedIsQuiet
  BY DEF IInv, StoppedIsQuiet, OnePassAhead, Silenced, TimersOff
<1> QED
  BY <1>1, Invariant, PTL

\* No verification timer is ever overwritten while it is armed: boot timer,
\* verification timer, recovery timer and running pass exclude each other,
\* for all delays.
THEOREM OnePassAtATime == Spec => []VerificationTracked
<1>1. IInv => VerificationTracked
  BY DEF IInv, VerificationTracked, OnePassAhead
<1> QED
  BY <1>1, Invariant, PTL

-----------------------------------------------------------------------------
(* The drain *)

\* Waiting commands have a drain to take them.
Drained ==
    /\ commands > 0 => drain # Off \/ stage = "draining"
    /\ stage = "draining" => drain = Off

DrainInv ==
    /\ IInv
    /\ ~disturbed => Drained

\* A pass that queues commands starts the drain or finds it running.
LEMMA SendCommandsDrained ==
    ASSUME TypeOK, Drained, stage = "idle" \/ stage = "verified", SendCommands, drain' # Kept
    PROVE  Drained'
<1>1. commands \in Nat /\ MaxCommands \in Nat
  BY Delays DEF TypeOK
<1> QED
  BY <1>1 DEF SendCommands, ScheduleLowPriorityDrain, Drained

\* No step leaves commands behind without a drain.
LEMMA DrainedNext ==
    ASSUME DrainInv, [Next]_vars, ~disturbed'
    PROVE  Drained'
<1>1. TypeOK /\ IInv /\ commands \in Nat
  BY Delays DEF DrainInv, IInv, TypeOK
<1>2. Drained /\ Silenced
  BY DisturbedStays DEF DrainInv, IInv
<1>3. drain' # Kept
  BY <1>1, NotKeptNext
<1> USE DEF Drained
<1>4. CASE Start \/ StartRefused \/ Stop \/ UpdateSystemConfig \/ UpdateRefused
  BY <1>2, <1>4 DEF Start, StartRefused, Stop, UpdateSystemConfig, UpdateRefused,
     InvalidateLowPriorityDrain, output
<1>5. CASE RunWatchdogNow \/ WatchdogDue \/ FinishWatchdogCheck
  <2>1. CASE stage \in {"idle", "verified"} /\ RunWatchdogCheck
    BY <1>1, <1>2, <1>3, <2>1, SendCommandsDrained DEF RunWatchdogCheck
  <2>2. CASE UNCHANGED output
             \/ (stage = "verified" /\ stage' = "idle" /\ UNCHANGED <<commands, drain>>)
    BY <1>2, <2>2 DEF output
  <2>3. cycle = "none" => stage = "idle" \/ ~RunWatchdogNow
    BY DEF RunWatchdogNow
  <2> QED
    BY <1>5, <2>1, <2>2, <2>3
    DEF RunWatchdogNow, WatchdogDue, FinishWatchdogCheck, RunWatchdogCycle
<1>6. CASE StartupBoot
  BY <1>1, <1>2, <1>3, <1>6, SendCommandsDrained DEF StartupBoot, RunInitialVerification
<1>7. CASE RuntimeRecovery
  BY <1>1, <1>2, <1>3, <1>7, SendCommandsDrained
  DEF RuntimeRecovery, RunInitialVerification, output
<1>8. CASE InitialVerification \/ UntrackedVerification
  BY <1>1, <1>2, <1>3, <1>8, SendCommandsDrained
  DEF InitialVerification, UntrackedVerification, RunInitialVerification
<1>9. CASE SendFirstCommand
  BY <1>1, <1>2, <1>9, OffIsOff, Delays DEF SendFirstCommand
<1>10. CASE FinishBooting \/ FinishVerification
  BY <1>2, <1>10 DEF FinishBooting, FinishVerification
<1>11. CASE WakeDrain
  <2>1. isClosing => commands = 0
    BY <1>2 DEF Silenced
  <2> QED
    BY <1>1, <1>2, <1>11, <2>1, OffIsOff, Delays DEF WakeDrain
<1>12. CASE EndWarmup \/ FinishStop \/ UNCHANGED vars
  BY <1>2, <1>12 DEF EndWarmup, FinishStop, vars, output
<1>13. CASE Tick
  <2>1. drain' = Off <=> drain = Off
    BY <1>1, <1>13, SoonerDrain DEF Tick, TypeOK
  <2> QED
    BY <1>2, <1>13, <2>1 DEF Tick
<1> QED
  BY <1>4, <1>5, <1>6, <1>7, <1>8, <1>9, <1>10, <1>11, <1>12, <1>13 DEF Next, Call, EventLoop

\* A coordinator that was never started has nothing to drain.
LEMMA InitDrainInv ==
    ASSUME Init
    PROVE  DrainInv
<1>1. IInv
  BY InitIInv
<1>2. commands = 0 /\ stage = "idle"
  BY DEF Init
<1>3. ~(0 > 0)
  OBVIOUS
<1> QED
  BY <1>1, <1>2, <1>3 DEF DrainInv, Drained

\* The drain's part of the invariant.
LEMMA DrainInvariant == Spec => []DrainInv
<1>1. Init => DrainInv
  BY InitDrainInv
<1>2. DrainInv /\ [Next]_vars => DrainInv'
  BY NextType, CycleStageNext, OnePassNext, SilencedNext, NotKeptNext, DrainedNext
  DEF DrainInv, IInv
<1> QED
  BY <1>1, <1>2, PTL DEF Spec

\* Whatever stop cuts short between two callbacks, no command waits without a
\* loop to take it, and the promise of a loop that is over is never in the way
\* of the next burst (scheduleLowPriorityDrain and runWatchdogCycle), for all
\* delays.
THEOREM DrainAlwaysReturns == Spec => []DrainReturns
<1>1. DrainInv => DrainReturns
  BY DEF DrainInv, Drained, IInv, DrainReturns
<1> QED
  BY <1>1, DrainInvariant, PTL

-----------------------------------------------------------------------------
(* Warm-up *)

\* The window outlives the reply timeout of the last command and the pause
\* before the next one.
Covered ==
    /\ silence < PingTimeout => warmup # Off /\ warmup + silence >= PingTimeout
    /\ warmup # Off /\ drain # Off => drain < warmup
    /\ inWarmup /\ (commands > 0 \/ stage \in {"sending", "draining"}) => warmup # Off

WarmInv ==
    /\ DrainInv
    /\ ~disturbed => Covered

\* What a command does to the window.
LEMMA SendCommandWarmth ==
    ASSUME TypeOK, SendCommand(PingTimeout)
    PROVE  /\ warmup \in Nat /\ warmup' \in Nat
           /\ warmup' = Off <=> warmup = Off
           /\ warmup' # Off => warmup' >= PingTimeout /\ warmup' >= warmup
           /\ silence' = IF inWarmup THEN 0 ELSE silence
BY OffIsOff, Delays DEF TypeOK, SendCommand, IsWarmingUp, Timer

\* A watchdog check is no verification: it owes the window nothing.
LEMMA WatchdogCheckCovered ==
    ASSUME WarmInv, Covered, RunWatchdogCheck, drain' # Kept
    PROVE  Covered'
BY DEF Covered, RunWatchdogCheck, SendCommands, ScheduleLowPriorityDrain

\* A pass that begins in warm-up finds the window open.
LEMMA VerificationCovered ==
    ASSUME WarmInv, Covered, RunInitialVerification(warmup), UNCHANGED warmup, drain' # Kept
    PROVE  Covered'
BY DEF Covered, RunInitialVerification, SendCommands, ScheduleLowPriorityDrain

\* No undisturbed step cuts the window short.
LEMMA CoveredNext ==
    ASSUME DrainDelay < PingTimeout, WarmInv, [Next]_vars, ~disturbed'
    PROVE  Covered'
<1>0. Covered /\ Drained /\ drain # Kept /\ drain' # Kept
  BY DisturbedStays, NotKeptNext DEF WarmInv, DrainInv, IInv
<1>1. TypeOK /\ commands \in Nat /\ silence \in 0 .. PingTimeout /\ warmup \in Nat /\ drain \in Nat
  BY Delays, OffIsOff, KeptIsKept DEF WarmInv, DrainInv, IInv, TypeOK, Timer
<1>2. drain = Off \/ drain < PingTimeout
  BY <1>0, <1>1, Delays DEF TypeOK, Timer
<1>3. CASE Start
  <2>1. drain' \in Nat /\ (drain' = Off \/ drain' < PingTimeout)
    BY <1>1, <1>2, <1>3, OffIsOff DEF Start, InvalidateLowPriorityDrain
  <2>2. warmup' = WarmupTime /\ silence' = PingTimeout
    BY <1>3 DEF Start
  <2> QED
    BY <2>1, <2>2, NotOff, OffIsOff, Delays DEF Covered
<1>4. CASE StartRefused
  <2>1. Covered /\ warmup = Off /\ stage = "idle" /\ commands = 0
    BY <1>4, Calm DEF StartRefused, WarmInv, DrainInv, IInv, Silenced, TimersOff
  <2> QED
    BY <1>4, <2>1 DEF Covered, StartRefused, InvalidateLowPriorityDrain, timers, output
<1>5. CASE Stop
  <2>1. ~inWarmup \/ stage = "idle"
    BY <1>5, Calm DEF Stop, WarmInv, DrainInv, IInv, CycleStage, UnderWay
  <2> QED
    BY <1>1, <1>5, <2>1, Delays DEF Covered, Stop, ClearTimers, InvalidateLowPriorityDrain
<1>6. CASE UpdateSystemConfig \/ UpdateRefused
  <2>1. Covered
    BY <1>6, Calm DEF UpdateSystemConfig, UpdateRefused, WarmInv
  <2> QED
    BY <1>6, <2>1
    DEF Covered, UpdateSystemConfig, UpdateRefused, InvalidateLowPriorityDrain, timers, output
<1>7. CASE RunWatchdogNow \/ WatchdogDue \/ FinishWatchdogCheck
  <2>1. Covered
    BY <1>7 DEF RunWatchdogNow, WatchdogDue, FinishWatchdogCheck, WarmInv
  <2> QED
    BY <1>0, <1>7, <2>1, WatchdogCheckCovered
    DEF RunWatchdogNow, WatchdogDue, FinishWatchdogCheck, RunWatchdogCycle, Covered, output
<1>8. CASE StartupBoot
  <2>1. Covered
    BY <1>8 DEF StartupBoot, RunInitialVerification, WarmInv, history
  <2>2. CASE stage' = "booting" /\ UNCHANGED <<status, warmup, verification, untracked, cycle,
                                              commands, drain, history>>
    BY <2>1, <2>2 DEF Covered, history
  <2>3. CASE warmup' = PingTimeout /\ RunInitialVerification(PingTimeout)
    BY <1>0, <1>1, <1>2, <2>1, <2>3, NotOff, Delays
    DEF Covered, RunInitialVerification, SendCommands, ScheduleLowPriorityDrain
  <2> QED
    BY <1>8, <2>2, <2>3 DEF StartupBoot
<1>9. CASE RuntimeRecovery
  <2>1. Covered
    BY <1>9 DEF RuntimeRecovery, RunInitialVerification, WarmInv, history
  <2> QED
    BY <1>0, <1>9, <2>1, VerificationCovered DEF RuntimeRecovery, Covered, output, history
<1>10. CASE InitialVerification \/ UntrackedVerification
  <2>1. Covered
    BY <1>10 DEF InitialVerification, UntrackedVerification, RunInitialVerification, WarmInv
  <2> QED
    BY <1>0, <1>10, <2>1, VerificationCovered DEF InitialVerification, UntrackedVerification
<1>11. CASE SendFirstCommand \/ WakeDrain
  <2>1. Covered
    BY <1>11 DEF SendFirstCommand, WakeDrain, WarmInv
  <2>2. CASE SendCommand(PingTimeout) /\ (commands # 0 \/ stage \in {"sending", "draining"})
    <3>1. inWarmup => warmup # Off
      BY <1>1, <2>1, <2>2 DEF Covered
    <3>2. drain' = Off \/ drain' < PingTimeout
      BY <1>2, <1>11, Delays DEF SendFirstCommand, WakeDrain
    <3> QED
      BY <1>1, <1>11, <2>1, <2>2, <3>1, <3>2, SendCommandWarmth, Delays
      DEF Covered, SendFirstCommand, WakeDrain
  <2>3. CASE drain' = Off /\ UNCHANGED <<warmup, commands, silence, stage, inWarmup>>
    BY <2>1, <2>3 DEF Covered
  <2> QED
    BY <1>11, <2>2, <2>3 DEF SendFirstCommand, WakeDrain
<1>12. CASE FinishBooting \/ FinishVerification \/ FinishStop \/ UNCHANGED vars
  <2>1. Covered
    BY <1>12 DEF FinishBooting, FinishVerification, FinishStop, vars, history, WarmInv
  <2> QED
    BY <1>12, <2>1
    DEF Covered, FinishBooting, FinishVerification, FinishStop, vars, timers, output, history
<1>13. CASE EndWarmup
  BY <1>0, <1>1, <1>13, NotOff, Delays DEF Covered, Drained, EndWarmup, output, history
<1>14. CASE Tick
  <2>1. Covered
    BY <1>14 DEF Tick, WarmInv
  <2>2. /\ warmup' = Off <=> warmup = Off
        /\ warmup # Off => warmup' = warmup - 1
        /\ drain' = Off <=> drain = Off
        /\ drain # Off => drain' = drain - 1
    BY <1>0, <1>1, <1>14, SoonerTimer, SoonerDrain, OffIsOff, Delays DEF Tick, TypeOK
  <2> QED
    BY <1>1, <1>14, <2>1, <2>2, OffIsOff, Delays DEF Covered, Tick
<1> QED
  BY <1>3, <1>4, <1>5, <1>6, <1>7, <1>8, <1>9, <1>10, <1>11, <1>12, <1>13, <1>14
  DEF Next, Call, EventLoop

\* Whatever is rescheduled, drained or dropped, the window is still open
\* pingTimeout after the last command of a pass that began in it
\* (extendWarmupForStartupVerificationDispatch), for all delays with the
\* drain's pause shorter than pingTimeout.
THEOREM WarmupProtects ==
    ASSUME DrainDelay < PingTimeout
    PROVE  Spec => []WarmupCoversCommands
<1>1. Init => WarmInv
  <2>1. Init => DrainInv
    BY InitDrainInv
  <2>2. Init => Covered
    BY Delays DEF Init, Covered
  <2> QED
    BY <2>1, <2>2 DEF WarmInv
<1>2. WarmInv /\ [Next]_vars => WarmInv'
  BY NextType, CycleStageNext, OnePassNext, SilencedNext, NotKeptNext, DrainedNext, CoveredNext
  DEF WarmInv, DrainInv, IInv
<1>3. WarmInv => WarmupCoversCommands
  BY DEF WarmInv, Covered, WarmupCoversCommands, IsWarmingUp
<1> QED
  BY <1>1, <1>2, <1>3, PTL DEF Spec

-----------------------------------------------------------------------------
(* Recovery passes *)

\* A coordinator that is closed, or being closed, owes no update its pass.
ClosedOwesNothing ==
    /\ flushing => isClosing
    /\ isClosing => owed # "soon"
    /\ status = "stopped" => ~flushing /\ owed # "soon"

RecoveryInv == TypeOK /\ ClosedOwesNothing /\ RecoveryAhead

\* A command changes the status to warming up or not at all.
LEMMA CommandStatus ==
    ASSUME SendCommand(PingTimeout)
    PROVE  status' \in {status, "warming_up"}
BY DEF SendCommand

\* Only a coordinator that runs is made to owe a pass.
LEMMA ClosedOwesNothingNext ==
    ASSUME RecoveryInv, [Next]_vars
    PROVE  ClosedOwesNothing'
<1> USE DEF RecoveryInv, ClosedOwesNothing
<1>1. CASE Start \/ StartRefused \/ Stop \/ UpdateRefused
  BY <1>1 DEF Start, StartRefused, Stop, UpdateRefused
<1>2. CASE UpdateSystemConfig
  BY <1>2 DEF UpdateSystemConfig, Running
<1>3. CASE RunWatchdogNow \/ WatchdogDue \/ FinishWatchdogCheck
  BY <1>3 DEF RunWatchdogNow, WatchdogDue, FinishWatchdogCheck, RunWatchdogCycle, RunWatchdogCheck
<1>4. CASE StartupBoot \/ RuntimeRecovery
  BY <1>4 DEF StartupBoot, RuntimeRecovery, RunInitialVerification, history
<1>5. CASE InitialVerification \/ UntrackedVerification
  BY <1>5 DEF InitialVerification, UntrackedVerification, RunInitialVerification
<1>6. CASE FinishBooting \/ FinishVerification \/ EndWarmup \/ FinishStop
  BY <1>6 DEF FinishBooting, FinishVerification, EndWarmup, FinishStop, history
<1>7. CASE SendFirstCommand
  BY <1>7, CommandStatus DEF SendFirstCommand
<1>8. CASE WakeDrain
  BY <1>8, CommandStatus DEF WakeDrain
<1>9. CASE Tick \/ UNCHANGED vars
  BY <1>9 DEF Tick, vars, history
<1> QED
  BY <1>1, <1>2, <1>3, <1>4, <1>5, <1>6, <1>7, <1>8, <1>9 DEF Next, Call, EventLoop

\* A pass that is owed is handed on from timer to timer until it begins.
LEMMA RecoveryAheadNext ==
    ASSUME RecoveryInv, [Next]_vars
    PROVE  RecoveryAhead'
<1> USE DEF RecoveryInv, RecoveryAhead
<1>1. CASE Start \/ StartRefused \/ Stop
  BY <1>1 DEF Start, StartRefused, Stop, ClosedOwesNothing
<1>2. CASE UpdateSystemConfig
  BY <1>2, NotOff
  DEF UpdateSystemConfig, InvalidateLowPriorityDrain, NoPassAhead
<1>3. CASE UpdateRefused
  BY <1>3 DEF UpdateRefused, InvalidateLowPriorityDrain, timers, output
<1>4. CASE RunWatchdogNow
  BY <1>4 DEF RunWatchdogNow, RunWatchdogCycle, RunWatchdogCheck, output
<1>5. CASE StartupBoot
  BY <1>5 DEF StartupBoot, RunInitialVerification
<1>6. CASE RuntimeRecovery
  BY <1>6 DEF RuntimeRecovery, RunInitialVerification, ClosedOwesNothing, history
<1>7. CASE FinishBooting
  BY <1>7, NotOff DEF FinishBooting
<1>8. CASE InitialVerification \/ UntrackedVerification
  BY <1>8 DEF InitialVerification, UntrackedVerification, RunInitialVerification
<1>9. CASE SendFirstCommand
  BY <1>9 DEF SendFirstCommand
<1>10. CASE FinishVerification
  BY <1>10, NotOff DEF FinishVerification, ClosedOwesNothing, history
<1>11. CASE WatchdogDue \/ FinishWatchdogCheck
  BY <1>11
  DEF WatchdogDue, FinishWatchdogCheck, RunWatchdogCycle, RunWatchdogCheck, output
<1>12. CASE WakeDrain \/ EndWarmup \/ FinishStop \/ UNCHANGED vars
  BY <1>12 DEF WakeDrain, EndWarmup, FinishStop, vars, timers, output, history
<1>13. CASE Tick
  <2>1. /\ bootTimer' = Off <=> bootTimer = Off
        /\ verification' = Off <=> verification = Off
        /\ recoveryTimer' = Off <=> recoveryTimer = Off
    BY <1>13, SoonerTimer, OffIsOff, Delays DEF Tick, TypeOK
  <2>2. untracked # <<>> => untracked' # <<>>
    BY <1>13 DEF Tick, TypeOK
  <2> QED
    BY <1>13, <2>1, <2>2 DEF Tick
<1> QED
  BY <1>1, <1>2, <1>3, <1>4, <1>5, <1>6, <1>7, <1>8, <1>9, <1>10, <1>11, <1>12, <1>13
  DEF Next, Call, EventLoop

\* An accepted update's recovery pass is never dropped while it is still owed:
\* at any moment, whatever was called when, something is armed or running that
\* leads to it (updateSystemConfig and runtimeRecoveryQueuedAfterStartup), for
\* all delays.
THEOREM RecoveryStaysAhead == Spec => []RecoveryAhead
<1>1. Init => RecoveryInv
  BY InitType DEF Init, RecoveryInv, ClosedOwesNothing, RecoveryAhead
<1>2. RecoveryInv /\ [Next]_vars => RecoveryInv'
  BY NextType, ClosedOwesNothingNext, RecoveryAheadNext DEF RecoveryInv
<1>3. RecoveryInv => RecoveryAhead
  BY DEF RecoveryInv
<1> QED
  BY <1>1, <1>2, <1>3, PTL DEF Spec

-----------------------------------------------------------------------------
(* The watchdog *)

\* Whoever shows a running coordinator, or will, has the interval armed.
IntervalArmed ==
    status \in {"ready", "warming_up"} \/ warmup # Off \/ bootTimer # Off => watchdog # Off

\* A command extends the window only if it is open.
LEMMA CommandKeepsArmed ==
    ASSUME TypeOK, IntervalArmed, SendCommand(PingTimeout), UNCHANGED <<bootTimer, watchdog>>
    PROVE  IntervalArmed'
BY DEF IntervalArmed, SendCommand, IsWarmingUp

\* Only stop disarms the interval, and it shows.
LEMMA IntervalArmedNext ==
    ASSUME TypeOK, IntervalArmed, [Next]_vars
    PROVE  IntervalArmed'
<1> USE DEF IntervalArmed
<1>1. CASE Start \/ Stop
  BY <1>1, NotOff DEF Start, Stop, ClearTimers
<1>2. CASE StartRefused \/ UpdateRefused
  BY <1>2 DEF StartRefused, UpdateRefused, timers
<1>3. CASE UpdateSystemConfig
  BY <1>3 DEF UpdateSystemConfig
<1>4. CASE RunWatchdogNow \/ WatchdogDue \/ FinishWatchdogCheck
  BY <1>4, NotOff
  DEF RunWatchdogNow, WatchdogDue, FinishWatchdogCheck, RunWatchdogCycle, RunWatchdogCheck
<1>5. CASE StartupBoot
  BY <1>5, NotOff DEF StartupBoot
<1>6. CASE RuntimeRecovery \/ FinishBooting \/ InitialVerification \/ UntrackedVerification
  BY <1>6 DEF RuntimeRecovery, FinishBooting, InitialVerification, UntrackedVerification
<1>7. CASE SendFirstCommand
  BY <1>7, CommandKeepsArmed DEF SendFirstCommand
<1>8. CASE WakeDrain
  BY <1>8, CommandKeepsArmed DEF WakeDrain
<1>9. CASE EndWarmup
  BY <1>9, NotOff DEF EndWarmup
<1>10. CASE FinishVerification \/ FinishStop \/ UNCHANGED vars
  BY <1>10 DEF FinishVerification, FinishStop, vars, timers
<1>11. CASE Tick
  <2>1. /\ warmup' = Off <=> warmup = Off
        /\ bootTimer' = Off <=> bootTimer = Off
        /\ watchdog' = Off <=> watchdog = Off
    BY <1>11, SoonerTimer, OffIsOff, Delays DEF Tick, TypeOK
  <2> QED
    BY <1>11, <2>1 DEF Tick
<1> QED
  BY <1>1, <1>2, <1>3, <1>4, <1>5, <1>6, <1>7, <1>8, <1>9, <1>10, <1>11
  DEF Next, Call, EventLoop

\* No restart, refused start or stop in mid-cycle leaves a coordinator that
\* shows itself running without its interval, or a cycle's promise that no
\* continuation resolves (start, clearTimers and runWatchdogCycle), for all
\* delays.
THEOREM WatchdogStaysAlive == Spec => []WatchdogAlive
<1>1. Init => IntervalArmed
  BY DEF Init, IntervalArmed
<1>2. TypeOK /\ IntervalArmed /\ [Next]_vars => IntervalArmed'
  BY IntervalArmedNext
<1>3. IInv /\ IntervalArmed => WatchdogAlive
  BY DEF IInv, CycleStage, IntervalArmed, WatchdogAlive
<1> QED
  BY <1>1, <1>2, <1>3, TypeCorrect, Invariant, PTL DEF Spec

=============================================================================
