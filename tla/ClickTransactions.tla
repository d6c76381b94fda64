-------------------------- MODULE ClickTransactions --------------------------
(***************************************************************************)
(* Distributed clicks: the correlation state of ClickTransactionManager    *)
(* and the service handlers that use it (request -> ACK, confirm ->        *)
(* execution).  Devices and the broker are the environment: any request or *)
(* confirmation may arrive at any moment, so lost, late, duplicated and    *)
(* reordered messages are all behaviours of this module.                   *)
(*                                                                         *)
(* Time is the number of ticks since a transaction's timestamp.  The code  *)
(* only ever asks whether more than clickTimeout has passed, so the count  *)
(* stops one tick past it.                                                 *)
(***************************************************************************)
EXTENDS Naturals

CONSTANTS
    Slots,           \* device + button + click type
    LongSlots,       \* the slots whose click type is Long (the others are SuperLong)
    CorrelationIds,
    Devices,         \* the devices a click may target
    Configs,         \* configurations: functions from Slots to Action
    ClickTimeout,    \* clickTimeoutMs, in ticks
    NoTransaction, NoKey, NoConfig

Keys == Slots \X CorrelationIds

\* An actor of a click action; "all" is allActuators, otherwise it lists ids.
Actor == [name : Devices, all : BOOLEAN]

\* A button's configuration; no actors and no otherActors stands for a button
\* that has no action as well: both are refused the same way.
Action == [actors : SUBSET Actor, others : BOOLEAN]

Elapsed == 0 .. ClickTimeout + 1

Transaction == [actors : SUBSET Actor, others : BOOLEAN, elapsed : Elapsed]

ASSUME ConstantsAssumption ==
    /\ LongSlots \subseteq Slots
    /\ ClickTimeout \in Nat
    /\ Configs \subseteq [Slots -> Action]
    /\ NoTransaction \notin Transaction
    /\ NoKey \notin Keys
    /\ NoConfig \notin Configs

VARIABLES
    pendingClicks,  \* correlation key -> transaction, or NoTransaction
    activeSlots,    \* slot -> its active correlation key, or NoKey
    config,         \* the active configuration, or NoConfig
    abilities,      \* what the registry knows of each target device
    out             \* what the last step sent

vars == <<pendingClicks, activeSlots, config, abilities, out>>

(***************************************************************************)
(* The registry, as click validation reads it.  "reachable": known, bridge *)
(* and controller connected, healthy, not stale, details known and not     *)
(* empty.  "state": the actuator state is authoritative.  "ids": every     *)
(* configured actuator id exists on the device.                            *)
(***************************************************************************)
Ability == {"reachable", "state", "ids"}

Output(kind, key, targets, others) ==
    [kind |-> kind, key |-> key, targets |-> targets, others |-> others]

Silence == Output("none", NoKey, {}, FALSE)

TypeOK ==
    /\ pendingClicks \in [Keys -> Transaction \cup {NoTransaction}]
    /\ activeSlots \in [Slots -> Keys \cup {NoKey}]
    /\ config \in Configs \cup {NoConfig}
    /\ abilities \in [Devices -> SUBSET Ability]
    /\ out \in [kind : {"none", "ack", "failover", "execute"},
                key : Keys \cup {NoKey}, targets : SUBSET Devices, others : BOOLEAN]

Init ==
    /\ pendingClicks = [k \in Keys |-> NoTransaction]
    /\ activeSlots = [s \in Slots |-> NoKey]
    /\ config = NoConfig
    /\ abilities = [d \in Devices |-> {}]
    /\ out = Silence

-----------------------------------------------------------------------------
(* ClickTransactionManager *)

Pending(k) == pendingClicks[k] # NoTransaction

Expired(k) == pendingClicks[k].elapsed > ClickTimeout

\* The registries after every transaction of K has been discarded.
DiscardTransactions(K) ==
    /\ pendingClicks' = [k \in Keys |-> IF k \in K THEN NoTransaction ELSE pendingClicks[k]]
    /\ activeSlots' = [s \in Slots |-> IF activeSlots[s] \in K THEN NoKey ELSE activeSlots[s]]

\* Mistake: the previous attempt of the slot stays confirmable.
StartTransactionKeepingPrevious(s, c, action) ==
    /\ pendingClicks' = [pendingClicks EXCEPT ![<<s, c>>] =
                           [actors |-> action.actors, others |-> action.others, elapsed |-> 0]]
    /\ activeSlots' = [activeSlots EXCEPT ![s] = <<s, c>>]

\* A new transaction replaces the previous attempt on the same slot.
StartTransaction(s, c, action) ==
    /\ pendingClicks' =
         [k \in Keys |->
            IF k = <<s, c>>
            THEN [actors |-> action.actors, others |-> action.others, elapsed |-> 0]
            ELSE IF k = activeSlots[s] THEN NoTransaction ELSE pendingClicks[k]]
    /\ activeSlots' = [activeSlots EXCEPT ![s] = <<s, c>>]

-----------------------------------------------------------------------------
(* The service's click handlers *)

\* _actorRequiresAuthoritativeState
RequiresAuthoritativeState(s, actor) == s \in LongSlots \/ ~actor.all

\* _assertActorCanHandleClick does not throw.
CanHandleClick(s, actor) ==
    LET able == abilities[actor.name] IN
    /\ "reachable" \in able
    /\ RequiresAuthoritativeState(s, actor) => "state" \in able
    /\ actor.all \/ "ids" \in able

\* _validateClickRequest returns; otherwise it throws a ClickValidationError.
ValidRequest(s) ==
    /\ config[s].actors # {} \/ config[s].others
    /\ \A actor \in config[s].actors : CanHandleClick(s, actor)

\* A NETWORK_CLICK_REQUEST that passes validation is recorded and acknowledged.
AcceptRequest(s, c) ==
    /\ config # NoConfig
    /\ ValidRequest(s)
    /\ StartTransaction(s, c, config[s])
    /\ out' = Output("ack", <<s, c>>, {}, FALSE)
    /\ UNCHANGED <<config, abilities>>

\* A request that fails validation is answered with FAILOVER_CLICK; an older
\* transaction of the slot is left as it was.
RefuseRequest(s, c) ==
    /\ config # NoConfig
    /\ ~ValidRequest(s)
    /\ out' = Output("failover", <<s, c>>, {}, FALSE)
    /\ UNCHANGED <<pendingClicks, activeSlots, config, abilities>>

\* The smart toggle of a Long click needs at least one voter: a target still
\* able to act, or an external actor whose state is known right now.
HasDecision(s, targets, others, othersKnown) ==
    s \in LongSlots => targets # {} \/ (others /\ othersKnown)

\* Mistake: commands whole actors where a device is expected.
AbleTargetsAsActors(s, click) == {x \in click.actors : CanHandleClick(s, x)}

\* The actors of a transaction that can still act, rechecked on confirmation.
AbleTargets(s, click) == {a.name : a \in {x \in click.actors : CanHandleClick(s, x)}}

\* Mistake: leave the timeout to the cleanup sweep.
ConfirmClickTrustingCleanup(s, c) ==
    /\ config # NoConfig
    /\ Pending(<<s, c>>)
    /\ DiscardTransactions({<<s, c>>})
    /\ out' = Output("execute", <<s, c>>, AbleTargets(s, pendingClicks[<<s, c>>]),
                     pendingClicks[<<s, c>>].others)
    /\ UNCHANGED <<config, abilities>>

\* Mistake: execute without consuming the transaction.
ConfirmClickWithoutConsuming(s, c) ==
    /\ config # NoConfig
    /\ Pending(<<s, c>>)
    /\ ~Expired(<<s, c>>)
    /\ out' = Output("execute", <<s, c>>, AbleTargets(s, pendingClicks[<<s, c>>]),
                     pendingClicks[<<s, c>>].others)
    /\ UNCHANGED <<pendingClicks, activeSlots, config, abilities>>

\* A NETWORK_CLICK_CONFIRM for a live transaction consumes it, drops the
\* targets that can no longer act, and commands the rest.
ConfirmClick(s, c) ==
    LET key == <<s, c>>
        click == pendingClicks[key]
        targets == AbleTargets(s, click)
    IN  /\ config # NoConfig
        /\ Pending(key)
        /\ ~Expired(key)
        /\ DiscardTransactions({key})
        /\ \/ /\ targets # {} \/ click.others
              /\ \E othersKnown \in BOOLEAN : HasDecision(s, targets, click.others, othersKnown)
              /\ out' = Output("execute", key, targets, click.others)
           \/ /\ \E othersKnown \in BOOLEAN : ~HasDecision(s, targets, click.others, othersKnown)
              /\ out' = Silence
           \/ /\ targets = {} /\ ~click.others
              /\ out' = Silence
        /\ UNCHANGED <<config, abilities>>

\* A late confirmation only discards the transaction.
LateConfirm(s, c) ==
    /\ config # NoConfig
    /\ Pending(<<s, c>>)
    /\ Expired(<<s, c>>)
    /\ DiscardTransactions({<<s, c>>})
    /\ out' = Silence
    /\ UNCHANGED <<config, abilities>>

\* Mistake: the sweep looks one tick too late, which here is never.
CleanupExpiredLate ==
    /\ DiscardTransactions({k \in Keys : Pending(k) /\ pendingClicks[k].elapsed > ClickTimeout + 1})
    /\ out' = Silence
    /\ UNCHANGED <<config, abilities>>

\* The periodic sweep.
CleanupExpired ==
    /\ DiscardTransactions({k \in Keys : Pending(k) /\ Expired(k)})
    /\ out' = Silence
    /\ UNCHANGED <<config, abilities>>

\* Mistake: pending clicks survive a configuration change.
ChangeConfigKeepingClicks(next) ==
    /\ config' = next
    /\ out' = Silence
    /\ UNCHANGED <<pendingClicks, activeSlots, abilities>>

\* updateSystemConfig with a valid configuration, and clearSystemConfig.
ChangeConfig(next) ==
    /\ DiscardTransactions({k \in Keys : Pending(k)})
    /\ config' = next
    /\ out' = Silence
    /\ UNCHANGED abilities

-----------------------------------------------------------------------------
(* The environment *)

\* Registry updates made by every other handler.
RegistryChanges ==
    /\ \E d \in Devices, able \in SUBSET Ability :
         /\ able # abilities[d]
         /\ abilities' = [abilities EXCEPT ![d] = able]
    /\ out' = Silence
    /\ UNCHANGED <<pendingClicks, activeSlots, config>>

Tick ==
    /\ pendingClicks' =
         [k \in Keys |->
            IF Pending(k) /\ ~Expired(k)
            THEN [pendingClicks[k] EXCEPT !.elapsed = @ + 1] ELSE pendingClicks[k]]
    /\ out' = Silence
    /\ UNCHANGED <<activeSlots, config, abilities>>

Request == \E s \in Slots, c \in CorrelationIds : AcceptRequest(s, c) \/ RefuseRequest(s, c)

Confirm == \E s \in Slots, c \in CorrelationIds : ConfirmClick(s, c) \/ LateConfirm(s, c)

Next ==
    \/ Request
    \/ Confirm
    \/ CleanupExpired
    \/ \E next \in Configs \cup {NoConfig} : ChangeConfig(next)
    \/ RegistryChanges
    \/ Tick

Spec == Init /\ [][Next]_vars

\* The cleanup interval keeps firing while the coordinator runs, and time passes.
FairSpec == Spec /\ WF_vars(Tick) /\ WF_vars(CleanupExpired)

-----------------------------------------------------------------------------
(* Properties *)

\* The two maps of ClickTransactionManager stay in step: a slot points to a
\* key of its own that is pending, and every pending key is the one its slot
\* points to.  An orphan on either side is a click that can be executed after
\* a newer one replaced it, or a slot that never frees its memory.
SlotsMatchPending ==
    /\ \A s \in Slots :
         activeSlots[s] # NoKey => activeSlots[s][1] = s /\ Pending(activeSlots[s])
    /\ \A k \in Keys : Pending(k) => activeSlots[k[1]] = k

Executes(k) == out'.kind = "execute" /\ out'.key = k

\* A confirmation that arrives more than clickTimeout after the ACK commands
\* nothing, whether or not the cleanup sweep ran in between.
LateConfirmNeverExecutes ==
    [][\A k \in Keys : Pending(k) /\ Expired(k) => ~Executes(k)]_vars

\* Whatever happened between ACK and confirmation (targets lost, snapshots
\* invalidated, another configuration loaded), only actors of the active
\* configuration that could handle the click right then are commanded.
OnlyCurrentTargetsCommanded ==
    [][\A s \in Slots, c \in CorrelationIds : Executes(<<s, c>>) =>
          /\ config # NoConfig
          /\ \A d \in out'.targets :
               \E actor \in config[s].actors : actor.name = d /\ CanHandleClick(s, actor)]_vars

\* The promise of ClickPromise: only the latest acknowledged key of a slot is
\* ever executed, once, and never after the slot was disarmed.
Promise == INSTANCE ClickPromise WITH
    armed <- activeSlots,
    emitted <- [kind |-> out.kind, key |-> out.key]

KeepsPromise == Promise!Spec

\* Unconfirmed transactions do not pile up: once requests stop, every pending
\* transaction is eventually discarded.
NoLeak ==
    <>[][~Request]_vars => <>[](\A k \in Keys : ~Pending(k))

=============================================================================
