---------------------------- MODULE ActuatorCommands ----------------------------
(***************************************************************************)
(* What a confirmed click does to the outputs of its targets: the toggle   *)
(* decision over the cached actuator states, the commands built from them, *)
(* and the packed states both directions carry.                            *)
(*                                                                         *)
(* Devices are external: they apply commands in order and report their     *)
(* state after every change.  A report may take longer than the next       *)
(* click, so commands are built from states that are not current.          *)
(* Which clicks are confirmed is the subject of ClickTransactions, the     *)
(* reachability of devices that of DeviceHealth; here every device is      *)
(* reachable and described.  Configurations name a device, and an actuator *)
(* of it, once in an action: the schema sees to that.                      *)
(* A packed byte is the function from its bits to whether they are set:    *)
(* the code only ever masks single bits, and the tail of the last byte.    *)
(***************************************************************************)
EXTENDS Naturals, Sequences, FiniteSetsExt

CONSTANTS
    Layout,      \* the actuator ids of each device, in the order of its states
    Actions,     \* button actions: sets of actors, and otherActors
    Unknown,
    ByteSize,    \* bits of a packed byte
    MaxInFlight  \* bound: commands and reports on their way

Devices == DOMAIN Layout

Ids(device) == {Layout[device][i] : i \in DOMAIN Layout[device]}

States(device) == [DOMAIN Layout[device] -> BOOLEAN]

Actor == UNION {[name : {d}, all : BOOLEAN, actuators : SUBSET Ids(d)] : d \in Devices}

Action == [actors : SUBSET Actor, other : BOOLEAN]

ASSUME CommandAssumption ==
    /\ IsFiniteSet(Devices)
    /\ \A d \in Devices :
         /\ Layout[d] \in Seq(Ids(d))
         /\ \A i, j \in DOMAIN Layout[d] : i # j => Layout[d][i] # Layout[d][j]
         /\ Unknown \notin States(d)
    /\ Unknown \notin BOOLEAN
    /\ Actions \subseteq Action
    /\ \A action \in Actions :
         /\ IsFiniteSet(action.actors)
         /\ \A x, y \in action.actors : x # y => x.name # y.name
         /\ \A x \in action.actors : x.all <=> x.actuators = {}
    /\ ByteSize \in Nat \ {0}
    /\ MaxInFlight \in Nat

VARIABLES
    outputs,   \* the outputs of each device
    states,    \* actuatorStates, Unknown while lastStateTime is 0
    commands,  \* to each device, in order
    reports,   \* packed states from each device, in order
    expected   \* what the outputs are to be once commands are applied (history)

vars == <<outputs, states, commands, reports, expected>>

Byte == [0 .. ByteSize - 1 -> BOOLEAN]

\* The bytes that hold n states.
ByteCount(n) == (n + ByteSize - 1) \div ByteSize

Bytes(device) == [1 .. ByteCount(Len(Layout[device])) -> Byte]

Command(device) ==
    [id : Ids(device), value : BOOLEAN] \cup [packed : Bytes(device)]

TypeOK ==
    /\ DOMAIN outputs = Devices /\ DOMAIN states = Devices /\ DOMAIN commands = Devices
    /\ DOMAIN reports = Devices /\ DOMAIN expected = Devices
    /\ \A d \in Devices :
         /\ outputs[d] \in States(d)
         /\ states[d] \in States(d) \cup {Unknown}
         /\ commands[d] \in Seq(Command(d))
         /\ reports[d] \in Seq(Bytes(d))
         /\ expected[d] \in States(d) \cup {Unknown}

Init ==
    /\ outputs = [d \in Devices |-> [i \in DOMAIN Layout[d] |-> FALSE]]
    /\ states = [d \in Devices |-> Unknown]
    /\ commands = [d \in Devices |-> <<>>]
    /\ reports = [d \in Devices |-> <<>>]
    /\ expected = outputs

-----------------------------------------------------------------------------
(* Packed states *)

\* _packBooleanStates
Pack(booleans) ==
    [b \in 1 .. ByteCount(Len(booleans)) |->
        [bit \in 0 .. ByteSize - 1 |->
            LET i == (b - 1) * ByteSize + bit + 1
            IN  i \in DOMAIN booleans /\ booleans[i]]]

\* State i is this bit of this byte, the lowest of a byte first.
Bit(bytes, i) == bytes[(i - 1) \div ByteSize + 1][(i - 1) % ByteSize]

\* Mistake: the last byte is unpacked whole.
UnpackWhole(bytes, n) == [i \in 1 .. Len(bytes) * ByteSize |-> Bit(bytes, i)]

\* The first n bits.
Unpack(bytes, n) == [i \in 1 .. n |-> Bit(bytes, i)]

\* hasZeroUnusedPackedTailBits
HasZeroUnusedPackedTailBits(bytes, n) ==
    n % ByteSize # 0 /\ bytes # <<>> =>
        \A bit \in n % ByteSize .. ByteSize - 1 : ~bytes[Len(bytes)][bit]

-----------------------------------------------------------------------------
(* A click *)

\* The places of an actor's actuators in the states of its device.
Targets(actor) ==
    IF actor.all THEN DOMAIN Layout[actor.name]
    ELSE {i \in DOMAIN Layout[actor.name] : Layout[actor.name][i] \in actor.actuators}

\* _assertActorCanHandleClick of a reachable device.
CanHandleClick(actor, long) == (long \/ ~actor.all) => states[actor.name] # Unknown

\* The places <<device, i>> a click is for.
Places(actors) == UNION {{<<x.name, i>> : i \in Targets(x)} : x \in actors}

\* Mistake: a tie turns everything on.
SmartToggleStateOnTie(actors, other) ==
    LET known == {p \in Places(actors) : states[p[1]] # Unknown}
        active == {p \in known : states[p[1]][p[2]]}
        total == Cardinality(known) + (IF other = Unknown THEN 0 ELSE 1)
        on == Cardinality(active) + (IF other = TRUE THEN 1 ELSE 0)
    IN  IF total = 0 THEN Unknown ELSE 2 * on <= total

\* getSmartToggleState: on if less than half of the targets are; no decision
\* without any known state.
SmartToggleState(actors, other) ==
    LET known == {p \in Places(actors) : states[p[1]] # Unknown}
        active == {p \in known : states[p[1]][p[2]]}
        total == Cardinality(known) + (IF other = Unknown THEN 0 ELSE 1)
        on == Cardinality(active) + (IF other = TRUE THEN 1 ELSE 0)
    IN  IF total = 0 THEN Unknown ELSE 2 * on < total

\* _buildActorBooleanStates
ActorStates(actor, value) ==
    [i \in DOMAIN Layout[actor.name] |->
        IF i \in Targets(actor) THEN value ELSE states[actor.name][i]]

\* A click on all actuators carries no cached state, one on a single actuator
\* neither.
CarriesStates(actor) == ~actor.all /\ Cardinality(actor.actuators) # 1

\* buildStateCommands
StateCommand(actor, value) ==
    IF ~actor.all /\ Cardinality(actor.actuators) = 1
    THEN [id |-> CHOOSE id \in actor.actuators : TRUE, value |-> value]
    ELSE [packed |-> Pack(ActorStates(actor, value))]

InFlight(queues) == MapThenSumSet(LAMBDA d : Len(queues[d]), Devices)

\* Nothing is on its way to or from the device.
Quiet(device) == commands[device] = <<>> /\ reports[device] = <<>>

\* The decision a bystander who sees the outputs expects: on if more are off.
DecisionFromOutputs(actors, other) ==
    LET off == {p \in Places(actors) : ~outputs[p[1]][p[2]]}
    IN  Cardinality(off) + (IF other = FALSE THEN 1 ELSE 0)
            > Cardinality(Places(actors) \ off) + (IF other = TRUE THEN 1 ELSE 0)

\* What a click should make of its target: its actuators at the decided value,
\* the others as they are, or as earlier commands leave them.  Whether states
\* that were not current are sent back decides if that can be said.
Wanted(actor, value) ==
    IF expected[actor.name] = Unknown \/ (CarriesStates(actor) /\ ~Quiet(actor.name))
    THEN Unknown
    ELSE [i \in DOMAIN Layout[actor.name] |->
             IF i \in Targets(actor) THEN value ELSE expected[actor.name][i]]

\* executeClickLogic for the targets able to act at the confirmation.
ExecuteClick(action, long, other) ==
    LET able == {x \in action.actors : CanHandleClick(x, long)}
        value == IF long THEN SmartToggleState(able, other) ELSE FALSE
        wanted == IF long /\ \A x \in able : Quiet(x.name)
                  THEN DecisionFromOutputs(able, other) ELSE value
        actorOf(d) == CHOOSE x \in able : x.name = d
        names == {x.name : x \in able}
    IN  /\ value # Unknown
        /\ InFlight(commands) + InFlight(reports) + Cardinality(able) <= MaxInFlight
        /\ commands' = [d \in Devices |->
                           IF d \in names THEN Append(commands[d], StateCommand(actorOf(d), value))
                           ELSE commands[d]]
        /\ expected' = [d \in Devices |->
                           IF d \in names THEN Wanted(actorOf(d), wanted) ELSE expected[d]]
        /\ UNCHANGED <<outputs, states, reports>>

ConfirmClick ==
    \E action \in Actions, long \in BOOLEAN :
        \E other \in IF action.other THEN BOOLEAN \cup {Unknown} ELSE {Unknown} :
            ExecuteClick(action, long, other)

-----------------------------------------------------------------------------
(* Reports *)

\* Mistake: a report is held against the states known before.
RegisterActuatorStatesOnce(device, booleans) ==
    states' = [states EXCEPT ![device] = IF @ = Unknown THEN booleans ELSE @]

\* registerActuatorStates
RegisterActuatorStates(device, booleans) == states' = [states EXCEPT ![device] = booleans]

\* _handleLshState for a device whose details are known.
HandleLshState(device) ==
    LET bytes == Head(reports[device])
        n == Len(Layout[device])
    IN  /\ reports[device] # <<>>
        /\ reports' = [reports EXCEPT ![device] = Tail(@)]
        /\ IF Len(bytes) = ByteCount(n) /\ HasZeroUnusedPackedTailBits(bytes, n)
           THEN RegisterActuatorStates(device, Unpack(bytes, n))
           ELSE UNCHANGED states
        /\ UNCHANGED <<outputs, commands, expected>>

\* The states lose their authority: the bridge answers without a snapshot.
ForgetStates(device) ==
    /\ states' = [states EXCEPT ![device] = Unknown]
    /\ UNCHANGED <<outputs, commands, reports, expected>>

-----------------------------------------------------------------------------
(* The device *)

\* The state the device has after a change, as it reports it.
Report(device) == reports' = [reports EXCEPT ![device] = Append(@, Pack(outputs'[device]))]

Apply(device) ==
    LET command == Head(commands[device]) IN
    /\ commands[device] # <<>>
    /\ commands' = [commands EXCEPT ![device] = Tail(@)]
    /\ outputs' = [outputs EXCEPT ![device] =
           IF "packed" \in DOMAIN command THEN Unpack(command.packed, Len(Layout[device]))
           ELSE [i \in DOMAIN @ |-> IF Layout[device][i] = command.id THEN command.value ELSE @[i]]]
    /\ Report(device)
    /\ UNCHANGED <<states, expected>>

\* A local button switches an output.
SwitchLocally(device, i) ==
    /\ InFlight(commands) + InFlight(reports) < MaxInFlight
    /\ outputs' = [outputs EXCEPT ![device][i] = ~@]
    /\ Report(device)
    /\ expected' = [expected EXCEPT ![device] =
                       IF commands[device] = <<>> THEN outputs'[device] ELSE Unknown]
    /\ UNCHANGED <<states, commands>>

\* It answers a state request.
Republish(device) ==
    /\ InFlight(commands) + InFlight(reports) < MaxInFlight
    /\ UNCHANGED outputs
    /\ Report(device)
    /\ UNCHANGED <<states, commands, expected>>

Next ==
    \/ ConfirmClick
    \/ \E d \in Devices :
         \/ HandleLshState(d)
         \/ ForgetStates(d)
         \/ Apply(d)
         \/ Republish(d)
         \/ \E i \in DOMAIN Layout[d] : SwitchLocally(d, i)

Spec == Init /\ [][Next]_vars

-----------------------------------------------------------------------------
(* Properties *)

\* A click leaves its actuators at the value its decision says and every other
\* output as it was, whatever clicks, reports and local changes come before or
\* with it.  Two cases are excepted, because the code gives no more: a command
\* that carries the states of other actuators while the cached ones are not
\* current, and a local change racing a command.
ClickHasItsEffect ==
    \A d \in Devices :
        commands[d] = <<>> /\ expected[d] # Unknown => outputs[d] = expected[d]

\* With nothing on its way, known states are the outputs: a click that finds
\* things quiet decides on what is really there.
StatesCurrentWhenQuiet ==
    \A d \in Devices : Quiet(d) /\ states[d] # Unknown => states[d] = outputs[d]

=============================================================================
