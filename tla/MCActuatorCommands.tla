--------------------------- MODULE MCActuatorCommands ---------------------------
(***************************************************************************)
(* Three outputs in two-bit bytes, so that packed states cross a byte and  *)
(* end in an unused bit, and a second device for decisions over both.      *)
(***************************************************************************)
EXTENDS ActuatorCommands

Hall == "hall"
Porch == "porch"

MCLayout == [d \in {Hall, Porch} |-> IF d = Hall THEN <<1, 2, 5>> ELSE <<4>>]

OneOf(d, id) == [name |-> d, all |-> FALSE, actuators |-> {id}]
SomeOf(d, ids) == [name |-> d, all |-> FALSE, actuators |-> ids]
AllOf(d) == [name |-> d, all |-> TRUE, actuators |-> {}]

MCActions ==
    {[actors |-> {OneOf(Hall, 2)}, other |-> FALSE],
     [actors |-> {SomeOf(Hall, {1, 5}), OneOf(Porch, 4)}, other |-> FALSE],
     [actors |-> {AllOf(Hall)}, other |-> TRUE]}

=============================================================================
