---------------------- MODULE ClickTransactions_proofs ----------------------
(***************************************************************************)
(* Proofs about ClickTransactions, for every set of slots, devices,        *)
(* correlation ids and configurations and every timeout.                   *)
(***************************************************************************)
EXTENDS ClickTransactions, TLAPS

USE ConstantsAssumption

OutputType == [kind : {"none", "ack", "failover", "execute"},
               key : Keys \cup {NoKey}, targets : SUBSET Devices, others : BOOLEAN]

\* What a handler sends is well formed when its parts are.
LEMMA OutputIsTyped ==
    ASSUME NEW kind \in {"none", "ack", "failover", "execute"},
           NEW key \in Keys \cup {NoKey},
           NEW targets \in SUBSET Devices, NEW others \in BOOLEAN
    PROVE  Output(kind, key, targets, others) \in OutputType
BY DEF Output, OutputType

\* Discarding transactions keeps the types of both maps.
LEMMA DiscardType ==
    ASSUME TypeOK, NEW K, DiscardTransactions(K)
    PROVE  /\ pendingClicks' \in [Keys -> Transaction \cup {NoTransaction}]
           /\ activeSlots' \in [Slots -> Keys \cup {NoKey}]
BY DEF TypeOK, DiscardTransactions

\* Every variable keeps its type.
THEOREM TypeCorrect == Spec => []TypeOK
<1>1. Init => TypeOK
  BY DEF Init, TypeOK, Silence, Output
<1>2. ASSUME TypeOK, [Next]_vars PROVE TypeOK'
  <2> USE <1>2
  <2>1. ASSUME NEW s \in Slots, NEW c \in CorrelationIds, AcceptRequest(s, c)
        PROVE  TypeOK'
    <3>1. config \in [Slots -> Action] /\ config[s] \in Action
      BY <2>1 DEF AcceptRequest, TypeOK
    <3>2. <<s, c>> \in Keys
      BY DEF Keys
    <3>3. [actors |-> config[s].actors, others |-> config[s].others, elapsed |-> 0] \in Transaction
      BY <3>1 DEF Action, Transaction, Elapsed
    <3>4. pendingClicks' \in [Keys -> Transaction \cup {NoTransaction}]
      BY <2>1, <3>3 DEF AcceptRequest, StartTransaction, TypeOK
    <3>5. activeSlots' \in [Slots -> Keys \cup {NoKey}]
      BY <2>1, <3>2 DEF AcceptRequest, StartTransaction, TypeOK
    <3>6. QED
      BY <2>1, <3>2, <3>4, <3>5 DEF AcceptRequest, TypeOK, Output
  <2>2. ASSUME NEW s \in Slots, NEW c \in CorrelationIds, RefuseRequest(s, c)
        PROVE  TypeOK'
    BY <2>2 DEF RefuseRequest, TypeOK, Output, Keys
  <2>3. ASSUME NEW s \in Slots, NEW c \in CorrelationIds, ConfirmClick(s, c)
        PROVE  TypeOK'
    <3>1. <<s, c>> \in Keys /\ pendingClicks[<<s, c>>] \in Transaction
      BY <2>3 DEF ConfirmClick, Pending, TypeOK, Keys
    <3>2. AbleTargets(s, pendingClicks[<<s, c>>]) \in SUBSET Devices
      BY <3>1 DEF AbleTargets, Transaction, Actor
    <3>3. pendingClicks[<<s, c>>].others \in BOOLEAN
      BY <3>1 DEF Transaction
    <3>4. \/ out' = Output("execute", <<s, c>>, AbleTargets(s, pendingClicks[<<s, c>>]),
                           pendingClicks[<<s, c>>].others)
          \/ out' = Output("none", NoKey, {}, FALSE)
      BY <2>3 DEF ConfirmClick, Silence
    <3>7. out' \in OutputType
      BY <3>1, <3>2, <3>3, <3>4, OutputIsTyped
    <3>5. DiscardTransactions({<<s, c>>}) /\ UNCHANGED <<config, abilities>>
      BY <2>3 DEF ConfirmClick
    <3>6. QED
      BY <3>7, <3>5, DiscardType DEF TypeOK, OutputType
  <2>4. ASSUME NEW s \in Slots, NEW c \in CorrelationIds, LateConfirm(s, c)
        PROVE  TypeOK'
    BY <2>4, DiscardType DEF LateConfirm, TypeOK, Silence, Output
  <2>5. CASE CleanupExpired
    BY <2>5, DiscardType DEF CleanupExpired, TypeOK, Silence, Output
  <2>6. ASSUME NEW next \in Configs \cup {NoConfig}, ChangeConfig(next)
        PROVE  TypeOK'
    BY <2>6, DiscardType DEF ChangeConfig, TypeOK, Silence, Output
  <2>7. CASE RegistryChanges
    BY <2>7 DEF RegistryChanges, TypeOK, Silence, Output
  <2>8. CASE Tick
    <3>1. ASSUME NEW k \in Keys
          PROVE  pendingClicks'[k] \in Transaction \cup {NoTransaction}
      BY <2>8 DEF Tick, TypeOK, Pending, Expired, Transaction, Elapsed
    <3>2. QED
      BY <2>8, <3>1 DEF Tick, TypeOK, Silence, Output
  <2>9. CASE UNCHANGED vars
    BY <2>9 DEF vars, TypeOK
  <2>10. QED
    BY <2>1, <2>2, <2>3, <2>4, <2>5, <2>6, <2>7, <2>8, <2>9 DEF Next, Request, Confirm
<1>3. QED
  BY <1>1, <1>2, PTL DEF Spec

\* Discarding transactions keeps the two maps in step, because it drops a
\* transaction together with the slot that points to it.
LEMMA DiscardKeepsSlots ==
    ASSUME TypeOK, SlotsMatchPending, NEW K, DiscardTransactions(K)
    PROVE  SlotsMatchPending'
BY DEF TypeOK, SlotsMatchPending, DiscardTransactions, Pending, Keys

\* The two maps of ClickTransactionManager mirror each other: at most one
\* transaction is pending per slot, and it is the one the slot points to.
THEOREM SlotsAlwaysMatch == Spec => []SlotsMatchPending
<1>1. Init => SlotsMatchPending
  BY DEF Init, SlotsMatchPending, Pending, Keys
<1>2. ASSUME TypeOK, TypeOK', SlotsMatchPending, [Next]_vars PROVE SlotsMatchPending'
  <2> USE <1>2
  <2>1. ASSUME NEW s \in Slots, NEW c \in CorrelationIds, AcceptRequest(s, c)
        PROVE  SlotsMatchPending'
    <3> DEFINE click == [actors |-> config[s].actors, others |-> config[s].others, elapsed |-> 0]
    <3>1. <<s, c>> \in Keys /\ <<s, c>> # NoKey /\ <<s, c>>[1] = s
      BY DEF Keys
    <3>2. click # NoTransaction
      <4>1. config[s] \in Action
        BY <2>1 DEF AcceptRequest, TypeOK
      <4>2. QED
        BY <4>1 DEF Action, Transaction, Elapsed
    <3>3. /\ \A k \in Keys : pendingClicks'[k] =
               IF k = <<s, c>> THEN click
               ELSE IF k = activeSlots[s] THEN NoTransaction ELSE pendingClicks[k]
          /\ activeSlots' = [activeSlots EXCEPT ![s] = <<s, c>>]
      BY <2>1 DEF AcceptRequest, StartTransaction
    <3>4. ASSUME NEW t \in Slots, activeSlots'[t] # NoKey
          PROVE  activeSlots'[t][1] = t /\ pendingClicks'[activeSlots'[t]] # NoTransaction
      <4>1. CASE t = s
        BY <4>1, <3>1, <3>2, <3>3 DEF TypeOK, Pending
      <4>2. CASE t # s
        <5>1. activeSlots'[t] = activeSlots[t] /\ activeSlots[t] \in Keys
          BY <4>2, <3>3, <3>4 DEF TypeOK
        <5>2. activeSlots[t][1] = t /\ Pending(activeSlots[t])
          BY <3>4, <5>1 DEF SlotsMatchPending
        <5>3. activeSlots[t] # <<s, c>> /\ activeSlots[t] # activeSlots[s]
          BY <4>2, <5>1, <5>2, <3>1 DEF SlotsMatchPending, TypeOK
        <5>4. QED
          BY <3>3, <5>1, <5>2, <5>3 DEF Pending
      <4>3. QED
        BY <4>1, <4>2
    <3>5. ASSUME NEW k \in Keys, pendingClicks'[k] # NoTransaction
          PROVE  activeSlots'[k[1]] = k
      <4>1. CASE k = <<s, c>>
        BY <4>1, <3>1, <3>3 DEF TypeOK
      <4>2. CASE k # <<s, c>>
        <5>1. k # activeSlots[s] /\ pendingClicks'[k] = pendingClicks[k]
          BY <4>2, <3>3, <3>5 DEF Pending
        <5>2. activeSlots[k[1]] = k
          BY <5>1, <3>5 DEF Pending, SlotsMatchPending
        <5>3. k[1] # s /\ k[1] \in Slots
          BY <5>1, <5>2 DEF Keys
        <5>4. QED
          BY <3>3, <5>2, <5>3 DEF TypeOK
      <4>3. QED
        BY <4>1, <4>2
    <3>6. QED
      <4>1. \A t \in Slots : activeSlots'[t] # NoKey =>
                activeSlots'[t][1] = t /\ pendingClicks'[activeSlots'[t]] # NoTransaction
        BY <3>4
      <4>2. \A k \in Keys : pendingClicks'[k] # NoTransaction => activeSlots'[k[1]] = k
        BY <3>5
      <4>3. QED
        BY <4>1, <4>2 DEF SlotsMatchPending, Pending
  <2>2. ASSUME NEW s \in Slots, NEW c \in CorrelationIds, RefuseRequest(s, c)
        PROVE  SlotsMatchPending'
    BY <2>2 DEF RefuseRequest, SlotsMatchPending, Pending
  <2>3. ASSUME NEW s \in Slots, NEW c \in CorrelationIds,
               ConfirmClick(s, c) \/ LateConfirm(s, c)
        PROVE  SlotsMatchPending'
    BY <2>3, DiscardKeepsSlots DEF ConfirmClick, LateConfirm
  <2>4. CASE CleanupExpired
    BY <2>4, DiscardKeepsSlots DEF CleanupExpired
  <2>5. ASSUME NEW next \in Configs \cup {NoConfig}, ChangeConfig(next)
        PROVE  SlotsMatchPending'
    BY <2>5, DiscardKeepsSlots DEF ChangeConfig
  <2>6. CASE RegistryChanges
    BY <2>6 DEF RegistryChanges, SlotsMatchPending, Pending
  <2>7. CASE Tick
    <3>1. ASSUME NEW k \in Keys PROVE Pending(k)' <=> Pending(k)
      <4>1. pendingClicks[k] \in Transaction => [pendingClicks[k] EXCEPT !.elapsed = @ + 1] # NoTransaction
                \/ Expired(k)
        BY DEF Transaction, Elapsed, Expired
      <4>2. QED
        BY <2>7, <4>1 DEF Tick, TypeOK, Pending
    <3>2. activeSlots' = activeSlots
      BY <2>7 DEF Tick
    <3>3. QED
      BY <3>1, <3>2 DEF SlotsMatchPending, TypeOK
  <2>8. CASE UNCHANGED vars
    BY <2>8 DEF vars, SlotsMatchPending, Pending
  <2>9. QED
    BY <2>1, <2>2, <2>3, <2>4, <2>5, <2>6, <2>7, <2>8 DEF Next, Request, Confirm
<1>3. QED
  BY <1>1, <1>2, TypeCorrect, PTL DEF Spec

-----------------------------------------------------------------------------

\* A coordinator without transactions is one with nothing armed.
LEMMA InitKeepsPromise == Init => Promise!Init
BY DEF Init, Promise!Init, Promise!Silence, Promise!Emitted, Silence, Output

\* Discarding a set of transactions disarms exactly the slots that own them.
LEMMA DiscardDisarms ==
    ASSUME TypeOK, NEW K, DiscardTransactions(K), out' = Silence
    PROVE  \E S \in SUBSET Slots : Promise!Disarm(S)
<1> DEFINE S == {s \in Slots : activeSlots[s] \in K}
<1>1. activeSlots' = [s \in Slots |-> IF s \in S THEN NoKey ELSE activeSlots[s]]
  BY DEF DiscardTransactions
<1>2. [kind |-> out'.kind, key |-> out'.key] = Promise!Silence
  BY DEF Silence, Output, Promise!Silence, Promise!Emitted
<1>3. Promise!Disarm(S)
  BY <1>1, <1>2 DEF Promise!Disarm
<1>4. QED
  BY <1>3

\* Every step is a step of the promise or changes neither what is armed nor
\* what was sent.
LEMMA StepKeepsPromise ==
    ASSUME TypeOK, SlotsMatchPending, [Next]_vars
    PROVE  [Promise!Next]_(Promise!vars)
<1>1. ASSUME NEW s \in Slots, NEW c \in CorrelationIds, AcceptRequest(s, c)
      PROVE  Promise!Acknowledge(s, c)
  BY <1>1 DEF AcceptRequest, StartTransaction, Output, Promise!Acknowledge, Promise!Emitted
<1>2. ASSUME NEW s \in Slots, NEW c \in CorrelationIds, RefuseRequest(s, c)
      PROVE  Promise!Refuse(s, c)
  BY <1>2 DEF RefuseRequest, Output, Promise!Refuse, Promise!Emitted
<1>3. ASSUME NEW s \in Slots, NEW c \in CorrelationIds, ConfirmClick(s, c)
      PROVE  Promise!Execute(s) \/ \E S \in SUBSET Slots : Promise!Disarm(S)
  <2>1. /\ DiscardTransactions({<<s, c>>})
        /\ Pending(<<s, c>>)
        /\ \/ out' = Output("execute", <<s, c>>, AbleTargets(s, pendingClicks[<<s, c>>]),
                           pendingClicks[<<s, c>>].others)
           \/ out' = Silence
    BY <1>3 DEF ConfirmClick
  <2>2. CASE out' = Silence
    BY <2>1, <2>2, DiscardDisarms
  <2>3. CASE out' # Silence
    <3>1. <<s, c>> \in Keys /\ <<s, c>>[1] = s /\ <<s, c>> # NoKey
      BY DEF Keys
    <3>2. activeSlots[s] = <<s, c>>
      BY <2>1, <3>1 DEF SlotsMatchPending
    <3>3. \A t \in Slots \ {s} : activeSlots[t] # <<s, c>>
      BY <3>1 DEF SlotsMatchPending
    <3>4. activeSlots' = [activeSlots EXCEPT ![s] = NoKey]
      BY <2>1, <3>2, <3>3 DEF DiscardTransactions, TypeOK
    <3>5. [kind |-> out'.kind, key |-> out'.key] = Promise!Emitted("execute", activeSlots[s])
      BY <2>1, <2>3, <3>2 DEF Output, Promise!Emitted
    <3>6. QED
      BY <3>1, <3>2, <3>4, <3>5 DEF Promise!Execute
  <2>4. QED
    BY <2>2, <2>3
<1>4. ASSUME NEW s \in Slots, NEW c \in CorrelationIds, LateConfirm(s, c)
      PROVE  \E S \in SUBSET Slots : Promise!Disarm(S)
  BY <1>4, DiscardDisarms DEF LateConfirm
<1>5. CASE CleanupExpired
  BY <1>5, DiscardDisarms DEF CleanupExpired, Promise!Next
<1>6. ASSUME NEW next \in Configs \cup {NoConfig}, ChangeConfig(next)
      PROVE  \E S \in SUBSET Slots : Promise!Disarm(S)
  BY <1>6, DiscardDisarms DEF ChangeConfig
<1>7. ASSUME RegistryChanges \/ Tick
      PROVE  Promise!Disarm({})
  <2>1. activeSlots' = activeSlots /\ out' = Silence
    BY <1>7 DEF RegistryChanges, Tick
  <2>2. activeSlots' = [s \in Slots |-> IF s \in {} THEN NoKey ELSE activeSlots[s]]
    BY <2>1 DEF TypeOK
  <2>3. [kind |-> out'.kind, key |-> out'.key] = Promise!Silence
    BY <2>1 DEF Silence, Output, Promise!Silence, Promise!Emitted
  <2>4. QED
    BY <2>2, <2>3 DEF Promise!Disarm
<1>8. CASE UNCHANGED vars
  BY <1>8 DEF vars, Promise!vars
<1>9. QED
  BY <1>1, <1>2, <1>3, <1>4, <1>5, <1>6, <1>7, <1>8 DEF Next, Request, Confirm, Promise!Next

\* ClickTransactionManager and its handlers implement ClickPromise: a click is
\* executed only for the latest acknowledged key of its slot, and once per ACK.
THEOREM ImplementsPromise == Spec => KeepsPromise
<1>1. TypeOK /\ SlotsMatchPending /\ [Next]_vars => [Promise!Next]_(Promise!vars)
  BY StepKeepsPromise
<1>2. QED
  BY <1>1, InitKeepsPromise, TypeCorrect, SlotsAlwaysMatch, PTL DEF Spec, KeepsPromise, Promise!Spec

-----------------------------------------------------------------------------

\* Every pending click was validated against the configuration still active.
PendingMatchesConfig ==
    \A s \in Slots, c \in CorrelationIds : Pending(<<s, c>>) =>
        /\ config # NoConfig
        /\ pendingClicks[<<s, c>>].actors = config[s].actors

\* A pending transaction always carries the actors its slot has in the active
\* configuration: a change of configuration discards them all.
LEMMA PendingAlwaysMatchesConfig == Spec => []PendingMatchesConfig
<1>1. Init => PendingMatchesConfig
  BY DEF Init, PendingMatchesConfig, Pending, Keys
<1>2. ASSUME TypeOK, PendingMatchesConfig, [Next]_vars PROVE PendingMatchesConfig'
  <2> USE <1>2
  <2>1. ASSUME NEW s \in Slots, NEW c \in CorrelationIds, AcceptRequest(s, c)
        PROVE  PendingMatchesConfig'
    BY <2>1 DEF AcceptRequest, StartTransaction, PendingMatchesConfig, Pending, Keys
  <2>2. ASSUME NEW K, DiscardTransactions(K), config' = config
        PROVE  PendingMatchesConfig'
    BY <2>2 DEF DiscardTransactions, PendingMatchesConfig, Pending, Keys
  <2>3. ASSUME NEW next \in Configs \cup {NoConfig}, ChangeConfig(next)
        PROVE  PendingMatchesConfig'
    BY <2>3 DEF ChangeConfig, DiscardTransactions, PendingMatchesConfig, Pending, Keys
  <2>4. CASE Tick
    <3>1. ASSUME NEW s \in Slots, NEW c \in CorrelationIds, pendingClicks'[<<s, c>>] # NoTransaction
          PROVE  /\ Pending(<<s, c>>)
                 /\ pendingClicks'[<<s, c>>].actors = pendingClicks[<<s, c>>].actors
      BY <2>4, <3>1 DEF Tick, TypeOK, Pending, Keys, Transaction
    <3>2. config' = config
      BY <2>4 DEF Tick
    <3>3. QED
      BY <3>1, <3>2 DEF PendingMatchesConfig, Pending
  <2>5. ASSUME UNCHANGED <<pendingClicks, config>>
        PROVE  PendingMatchesConfig'
    BY <2>5 DEF PendingMatchesConfig, Pending
  <2>6. QED
    BY <2>1, <2>2, <2>3, <2>4, <2>5
       DEF Next, Request, Confirm, RefuseRequest, ConfirmClick, LateConfirm, CleanupExpired,
           RegistryChanges, vars
<1>3. QED
  BY <1>1, <1>2, TypeCorrect, PTL DEF Spec

\* No transaction past its timeout executes in this step.
LateStep == \A k \in Keys : Pending(k) /\ Expired(k) => ~Executes(k)

\* What executes in this step commands able actors of the active configuration.
CurrentStep ==
    \A s \in Slots, c \in CorrelationIds : Executes(<<s, c>>) =>
        /\ config # NoConfig
        /\ \A d \in out'.targets :
             \E actor \in config[s].actors : actor.name = d /\ CanHandleClick(s, actor)

\* Of all steps only ConfirmClick executes, and it looks at both.
LEMMA ExecutionStep ==
    ASSUME TypeOK, PendingMatchesConfig, Next
    PROVE  LateStep /\ CurrentStep
<1>1. CASE \E s \in Slots, c \in CorrelationIds : ConfirmClick(s, c)
  <2>1. PICK s \in Slots, c \in CorrelationIds : ConfirmClick(s, c)
    BY <1>1
  <2>2. /\ Pending(<<s, c>>) /\ ~Expired(<<s, c>>)
        /\ \/ out' = Output("execute", <<s, c>>, AbleTargets(s, pendingClicks[<<s, c>>]),
                           pendingClicks[<<s, c>>].others)
           \/ out' = Output("none", NoKey, {}, FALSE)
    BY <2>1 DEF ConfirmClick, Silence
  <2>3. ASSUME NEW k \in Keys, Executes(k)
        PROVE  k = <<s, c>> /\ out'.targets = AbleTargets(s, pendingClicks[<<s, c>>])
    BY <2>2, <2>3 DEF Executes, Output
  <2>4. LateStep
    BY <2>2, <2>3 DEF LateStep
  <2>5. ASSUME NEW t \in Slots, NEW i \in CorrelationIds, Executes(<<t, i>>)
        PROVE  /\ config # NoConfig
               /\ \A d \in out'.targets :
                    \E actor \in config[t].actors : actor.name = d /\ CanHandleClick(t, actor)
    <3>1. t = s /\ i = c /\ out'.targets = AbleTargets(s, pendingClicks[<<s, c>>])
      BY <2>3, <2>5 DEF Keys
    <3>2. config # NoConfig /\ pendingClicks[<<s, c>>].actors = config[s].actors
      BY <2>2 DEF PendingMatchesConfig
    <3>3. QED
      BY <3>1, <3>2 DEF AbleTargets
  <2>6. QED
    BY <2>4, <2>5 DEF CurrentStep
<1>2. CASE out'.kind # "execute"
  BY <1>2 DEF Executes, LateStep, CurrentStep
<1>3. ASSUME NEW s \in Slots, NEW c \in CorrelationIds,
             AcceptRequest(s, c) \/ RefuseRequest(s, c) \/ LateConfirm(s, c)
      PROVE  out'.kind # "execute"
  BY <1>3 DEF AcceptRequest, RefuseRequest, LateConfirm, Silence, Output
<1>4. ASSUME \/ CleanupExpired \/ RegistryChanges \/ Tick
             \/ \E next \in Configs \cup {NoConfig} : ChangeConfig(next)
      PROVE  out'.kind # "execute"
  <2>1. out' = Output("none", NoKey, {}, FALSE)
    BY <1>4 DEF CleanupExpired, ChangeConfig, RegistryChanges, Tick, Silence
  <2>2. QED
    BY <2>1 DEF Output
<1>5. QED
  BY <1>1, <1>2, <1>3, <1>4 DEF Next, Request, Confirm

\* A click confirmed after its timeout commands nothing, swept or not yet swept
\* (_processClickConfirmation and consumeTransaction), for any timeout and any
\* number of slots.
THEOREM LateConfirmsExecuteNothing == Spec => LateConfirmNeverExecutes
<1>1. TypeOK /\ PendingMatchesConfig /\ [Next]_vars => [LateStep]_vars
  BY ExecutionStep
<1>2. QED
  BY <1>1, TypeCorrect, PendingAlwaysMatchesConfig, PTL
     DEF Spec, LateStep, LateConfirmNeverExecutes

\* Only actors of the active configuration, able to act at that moment, are
\* ever commanded, however long the confirmation took and whatever changed
\* meanwhile.
THEOREM ExecutionIsCurrent == Spec => OnlyCurrentTargetsCommanded
<1>1. TypeOK /\ PendingMatchesConfig /\ [Next]_vars => [CurrentStep]_vars
  BY ExecutionStep
<1>2. QED
  BY <1>1, TypeCorrect, PendingAlwaysMatchesConfig, PTL
     DEF Spec, CurrentStep, OnlyCurrentTargetsCommanded

=============================================================================
