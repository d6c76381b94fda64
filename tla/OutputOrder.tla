------------------------------ MODULE OutputOrder ------------------------------
(***************************************************************************)
(* What the MQTT adapter promises of the coordinator's outputs: each one   *)
(* is published at most once, and never before one that was emitted        *)
(* earlier and is still to be published.  An output may be lost.  Outputs  *)
(* are numbered as they are emitted.                                       *)
(***************************************************************************)
EXTENDS Naturals

VARIABLES
    issued,   \* how many outputs were emitted so far
    pending,  \* those neither published nor lost yet
    last      \* the output published most recently

vars == <<issued, pending, last>>

Oldest(n) == n \in pending /\ \A m \in pending : n <= m

Init == issued = 0 /\ pending = {} /\ last = 0

Emit ==
    /\ issued' \in Nat
    /\ issued' > issued
    /\ pending' = pending \cup issued + 1 .. issued'
    /\ UNCHANGED last

Publish(n) ==
    /\ Oldest(n)
    /\ n > last
    /\ last' = n
    /\ pending' = pending \ {n}
    /\ UNCHANGED issued

Lose(n) ==
    /\ pending' = pending \ {n}
    /\ UNCHANGED <<issued, last>>

Next == Emit \/ \E n \in pending : Publish(n) \/ Lose(n)

Spec == Init /\ [][Next]_vars

=============================================================================
