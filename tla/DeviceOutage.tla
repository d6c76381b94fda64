----------------------------- MODULE DeviceOutage -----------------------------
(***************************************************************************)
(* What the coordinator promises about outages (LIFECYCLE.md, "Watchdog"), *)
(* without saying how it keeps track of them.  A device is declared silent *)
(* only once a ping that left went unanswered for longer than the timeout, *)
(* and only while nothing speaks against reaching it; the declaration is   *)
(* the one report of the outage.  A device never heard of may be reported  *)
(* missing, once.  An outage lasts until the controller is heard or the    *)
(* way to it changes, and no longer.                                       *)
(*                                                                         *)
(* A step may be one of several devices: time passes for all of them.      *)
(***************************************************************************)
EXTENDS Naturals

CONSTANTS
    Devices,
    Timeout,
    Never       \* no ping is unanswered

VARIABLES
    asked,      \* device -> time since its last unanswered ping left, or Never
    way,        \* device -> the way to it, as far as its bridge tells
    silent,     \* the devices declared silent
    reported    \* the devices whose outage is on record

vars == <<asked, way, silent, reported>>

\* Unknown to the coordinator, behind no bridge, behind a bridge that lost the
\* controller, or open.
Ways == {"unknown", "none", "cut", "open"}

Init ==
    /\ asked = [d \in Devices |-> Never]
    /\ way = [d \in Devices |-> "unknown"]
    /\ silent = {} /\ reported = {}

KeepsRecord(d) ==
    /\ way'[d] = way[d]
    /\ d \in silent' <=> d \in silent
    /\ d \in reported' <=> d \in reported

EndsRecord(d) == d \notin silent' /\ d \notin reported'

Ask(d) == asked'[d] = 0 /\ KeepsRecord(d)

Wait(d) == asked[d] \in 0 .. Timeout /\ asked'[d] = asked[d] + 1 /\ KeepsRecord(d)

\* Live controller traffic.
Hear(d) == asked'[d] = Never /\ way'[d] = "open" /\ EndsRecord(d)

\* The bridge comes, goes or reports on its controller, or the device is removed.
ChangeWay(d) == asked'[d] = asked[d] /\ way'[d] # way[d] /\ EndsRecord(d)

Declare(d) ==
    /\ asked[d] = Timeout + 1 /\ asked'[d] = asked[d]
    /\ way[d] = "open" /\ way'[d] = "open"
    /\ d \notin silent /\ d \notin reported
    /\ d \in silent' /\ d \in reported'

ReportMissing(d) ==
    /\ asked'[d] = asked[d]
    /\ way[d] = "unknown" /\ way'[d] = "none"
    /\ d \notin reported /\ d \in reported' /\ d \notin silent'

Next ==
    \A d \in Devices :
        \/ Ask(d) \/ Wait(d) \/ Hear(d) \/ ChangeWay(d)
        \/ Declare(d) \/ ReportMissing(d)
        \/ asked'[d] = asked[d] /\ KeepsRecord(d)

Spec == Init /\ [][Next]_vars

=============================================================================
