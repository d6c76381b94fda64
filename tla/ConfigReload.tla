------------------------------ MODULE ConfigReload ------------------------------
(***************************************************************************)
(* Runtime reloads of the standalone process: the CLI's SIGHUP handler     *)
(* reads the configuration file, and the adapter replaces the              *)
(* coordinator's configuration and reconciles the broker's subscriptions.  *)
(* Nothing keeps two reloads apart: reads may end in any order, and each   *)
(* reload takes what it must unsubscribe from the configuration it found.  *)
(*                                                                         *)
(* A device's five topics are subscribed and unsubscribed together, so a   *)
(* set of topics is a set of devices, and the topics of a configuration    *)
(* are its devices.  The broker answers requests in order; it may refuse   *)
(* one, or lose it with the connection.                                    *)
(***************************************************************************)
EXTENDS Naturals, Sequences

CONSTANTS
    Devices,
    Configs,    \* the device sets of valid configurations
    Initial,    \* the configuration the adapter was constructed with
    Invalid,    \* a file the validation refuses
    MaxReloads  \* bound: reloads in progress at once

ASSUME ReloadAssumption ==
    /\ Configs \subseteq SUBSET Devices
    /\ Initial \in Configs
    /\ Invalid \notin Configs
    /\ MaxReloads \in Nat

Files == Configs \cup {Invalid}

\* A subscribe request carries the topics its reload unsubscribes next.
Request == [subscribe : BOOLEAN, topics : SUBSET Devices, removed : SUBSET Devices]

Subscribe(topics, removed) == [subscribe |-> TRUE, topics |-> topics, removed |-> removed]
Unsubscribe(topics) == [subscribe |-> FALSE, topics |-> topics, removed |-> {}]

VARIABLES
    client,      \* the adapter has a connection
    active,      \* the coordinator's configuration
    subscribed,  \* the devices whose messages the broker forwards
    requests,    \* subscribe and unsubscribe requests not answered yet
    file,        \* the configuration file
    reads,       \* what the reloads still reading it will have read
    signalled,   \* the file was signalled since it was replaced (history)
    certainty    \* what may be said of the subscriptions (history)

vars == <<client, active, subscribed, requests, file, reads, signalled, certainty>>

TypeOK ==
    /\ client \in BOOLEAN
    /\ active \in Configs
    /\ subscribed \in SUBSET Devices
    /\ requests \in Seq(Request)
    /\ file \in Files
    /\ reads \in Seq(Files)
    /\ signalled \in BOOLEAN
    /\ certainty \in {"exact", "complete", "none"}

Init ==
    /\ client = FALSE
    /\ active = Initial
    /\ subscribed = {}
    /\ requests = <<>>
    /\ file = Initial
    /\ reads = <<>>
    /\ signalled = TRUE
    /\ certainty = "exact"

-----------------------------------------------------------------------------

\* start: connect, start the coordinator with the configuration it was
\* constructed with, and subscribe.
Start ==
    /\ ~client
    /\ client' = TRUE
    /\ active' = Initial
    /\ requests' = <<Subscribe(Initial, {})>>
    /\ signalled' = (file = Initial)
    /\ certainty' = IF reads = <<>> THEN "exact" ELSE "none"
    /\ UNCHANGED <<subscribed, file, reads>>

\* stop: the connection ends; what it has not answered is rejected.
Stop ==
    /\ client
    /\ client' = FALSE
    /\ subscribed' = {}
    /\ requests' = <<>>
    /\ UNCHANGED <<active, file, reads, signalled, certainty>>

\* The operator replaces the file.
ReplaceFile(content) ==
    /\ file' = content
    /\ signalled' = FALSE
    /\ UNCHANGED <<client, active, subscribed, requests, reads, certainty>>

Idle == reads = <<>> /\ requests = <<>>

\* Mistake: the configuration in memory is loaded again.
HangupFromMemory ==
    /\ Len(reads) + Len(requests) < MaxReloads
    /\ reads' = Append(reads, active)
    /\ signalled' = TRUE
    /\ certainty' = IF Idle THEN certainty ELSE "none"
    /\ UNCHANGED <<client, active, subscribed, requests, file>>

\* SIGHUP: a reload begins to read the file.
Hangup ==
    /\ Len(reads) + Len(requests) < MaxReloads
    /\ reads' = Append(reads, file)
    /\ signalled' = TRUE
    /\ certainty' = IF Idle THEN certainty ELSE "none"
    /\ UNCHANGED <<client, active, subscribed, requests, file>>

\* Mistake: what to remove is computed after the update.
ReloadSystemConfigLate(config) ==
    /\ active' = config
    /\ requests' = IF client THEN Append(requests, Subscribe(config, {})) ELSE requests

\* reloadSystemConfig: the topics of the old configuration that the new one
\* does not have are removed once the new ones are there.
ReloadSystemConfig(config) ==
    /\ active' = config
    /\ requests' = IF client THEN Append(requests, Subscribe(config, active \ config)) ELSE requests

\* Mistake: the file is not validated.
FinishReadUnvalidated(i) ==
    /\ reads' = SubSeq(reads, 1, i - 1) \o SubSeq(reads, i + 1, Len(reads))
    /\ IF reads[i] = Invalid THEN active' = Invalid /\ UNCHANGED requests
       ELSE ReloadSystemConfig(reads[i])
    /\ UNCHANGED <<client, subscribed, file, signalled, certainty>>

\* reloadCoordinatorConfig goes on with what it has read; any of several reads
\* may be the first to end.  An invalid file changes nothing.
FinishRead(i) ==
    /\ reads' = SubSeq(reads, 1, i - 1) \o SubSeq(reads, i + 1, Len(reads))
    /\ IF reads[i] = Invalid THEN UNCHANGED <<active, requests>> ELSE ReloadSystemConfig(reads[i])
    /\ UNCHANGED <<client, subscribed, file, signalled, certainty>>

\* The broker grants the oldest request; a reload goes on to unsubscribe.
Grant ==
    LET request == Head(requests) IN
    /\ requests # <<>>
    /\ subscribed' = IF request.subscribe THEN subscribed \cup request.topics
                     ELSE subscribed \ request.topics
    /\ requests' = IF request.removed = {} THEN Tail(requests)
                   ELSE Append(Tail(requests), Unsubscribe(request.removed))
    /\ certainty' = IF certainty = "none" /\ request.subscribe /\ reads = <<>> /\ Len(requests) = 1
                    THEN "complete" ELSE certainty
    /\ UNCHANGED <<client, active, file, reads, signalled>>

\* It refuses it: the error is reported and the reload ends there.
Refuse ==
    /\ requests # <<>>
    /\ requests' = Tail(requests)
    /\ certainty' = IF Head(requests).subscribe \/ certainty = "none" THEN "none" ELSE "complete"
    /\ UNCHANGED <<client, active, subscribed, file, reads, signalled>>

Next ==
    \/ Start
    \/ Stop
    \/ \E content \in Files : ReplaceFile(content)
    \/ Hangup
    \/ \E i \in DOMAIN reads : FinishRead(i)
    \/ Grant
    \/ Refuse

Spec == Init /\ [][Next]_vars

-----------------------------------------------------------------------------
(* Properties *)

\* Subscriptions are reconciled: with no reload under way, the broker forwards
\* exactly the active configuration's topics, if every request so far was
\* granted and no two reloads overlapped.  Whatever failed or overlapped
\* before, one granted reload that runs alone has the topics complete again;
\* what a failure left subscribed stays so.
SubscriptionsReconciled ==
    client /\ Idle =>
        /\ certainty = "exact" => subscribed = active
        /\ certainty = "complete" => active \subseteq subscribed

\* SIGHUP after replacing the file puts the file into effect, and an invalid
\* one leaves the last valid one in effect, through any number of failed
\* attempts of the operator, as long as reloads do not overlap.
SignalledFileActive ==
    Idle /\ certainty = "exact" /\ signalled /\ file # Invalid => active = file

=============================================================================
