------------------------- MODULE MCClickTransactions -------------------------
(***************************************************************************)
(* Two slots of one button (its long and its super-long click), two target *)
(* devices, two correlation ids and two configurations, the second of      *)
(* which gives the long click other targets.                               *)
(***************************************************************************)
EXTENDS ClickTransactions, TLC

CONSTANTS lc, slc, d1, d2

MCSlots == {lc, slc}
MCLongSlots == {lc}
MCDevices == {d1, d2}

Whole(d) == [name |-> d, all |-> TRUE]
Partial(d) == [name |-> d, all |-> FALSE]

MCConfigs ==
    {(lc :> [actors |-> {Whole(d1), Partial(d2)}, others |-> FALSE]
      @@ slc :> [actors |-> {Whole(d1)}, others |-> TRUE]),
     (lc :> [actors |-> {Whole(d2)}, others |-> TRUE]
      @@ slc :> [actors |-> {}, others |-> FALSE])}

=============================================================================
