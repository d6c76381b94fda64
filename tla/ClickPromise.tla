---------------------------- MODULE ClickPromise ----------------------------
(***************************************************************************)
(* What the coordinator promises about distributed clicks, without saying  *)
(* how it keeps track of them (LIFECYCLE.md, "Distributed Clicks").  A     *)
(* slot is one logical button of one device for one click type.  Sending   *)
(* an ACK arms the slot with the correlation key it answered and disarms   *)
(* whatever was armed before.  Only the armed key may be executed, and     *)
(* executing it disarms the slot.  A slot may be disarmed silently at any  *)
(* time (timeout, configuration change, a confirmation nobody can serve).  *)
(***************************************************************************)
CONSTANTS
    Slots,           \* logical click slots: device + button + click type
    CorrelationIds,  \* the correlation ids a device stamps on its requests
    NoKey            \* marks a slot with nothing armed

VARIABLES
    armed,    \* slot -> the one key that may still execute, or NoKey
    emitted   \* what the last step sent to the outside: kind and key

vars == <<armed, emitted>>

Keys == Slots \X CorrelationIds

Kinds == {"none", "ack", "failover", "execute"}

Emitted(kind, key) == [kind |-> kind, key |-> key]

Silence == Emitted("none", NoKey)

Init ==
    /\ armed = [s \in Slots |-> NoKey]
    /\ emitted = Silence

\* The request was valid: its ACK makes it the slot's only live transaction.
Acknowledge(s, c) ==
    /\ armed' = [armed EXCEPT ![s] = <<s, c>>]
    /\ emitted' = Emitted("ack", <<s, c>>)

\* The request was refused: the device falls back, nothing is armed by it.
Refuse(s, c) ==
    /\ emitted' = Emitted("failover", <<s, c>>)
    /\ UNCHANGED armed

\* The only way actuators are commanded.
Execute(s) ==
    /\ armed[s] # NoKey
    /\ emitted' = Emitted("execute", armed[s])
    /\ armed' = [armed EXCEPT ![s] = NoKey]

\* Any set of slots loses its transaction without any effect.
Disarm(S) ==
    /\ armed' = [s \in Slots |-> IF s \in S THEN NoKey ELSE armed[s]]
    /\ emitted' = Silence

Next ==
    \/ \E s \in Slots, c \in CorrelationIds : Acknowledge(s, c) \/ Refuse(s, c)
    \/ \E s \in Slots : Execute(s)
    \/ \E S \in SUBSET Slots : Disarm(S)

Spec == Init /\ [][Next]_vars

=============================================================================
