------------------------------ MODULE MqttAdapter ------------------------------
(***************************************************************************)
(* The standalone MQTT adapter: its promise chain, start and stop.         *)
(*                                                                         *)
(* One chain serves both directions: every broker message appends a job    *)
(* that hands it to the coordinator, every output of the coordinator       *)
(* appends a job that publishes it, and the jobs run one after the other.  *)
(* A publish job lasts until the broker answers; a message job is over     *)
(* within its event-loop turn, its outputs appended behind what is already *)
(* chained.  Stop waits for the chain as it finds it.  Subscriptions and   *)
(* reloads are the subject of ConfigReload.                                *)
(***************************************************************************)
EXTENDS Naturals, Sequences

CONSTANTS
    MaxBatch,    \* bound: outputs of one service result
    MaxOutputs,  \* bound: outputs ever emitted
    MaxChain     \* bound: chained jobs

ASSUME AdapterAssumption == {MaxBatch, MaxOutputs, MaxChain} \subseteq Nat

VARIABLES
    phase,      \* where start and stop are
    chain,      \* messageQueue: the jobs not over yet
    inFlight,   \* the first job has been handed to the broker
    ahead,      \* jobs the flush of a stop still waits for
    issued,     \* outputs emitted so far (history)
    last,       \* the output published most recently (history)
    beforeStop  \* outputs emitted before the last stop (history)

vars == <<phase, chain, inFlight, ahead, issued, last, beforeStop>>

Job == [kind : {"message", "publish"}, output : 0 .. MaxOutputs]

Message == [kind |-> "message", output |-> 0]
Publish(n) == [kind |-> "publish", output |-> n]

Phases == {"stopped", "connecting", "subscribing", "running", "flushing", "stopping", "ending"}

TypeOK ==
    /\ phase \in Phases
    /\ chain \in Seq(Job)
    /\ inFlight \in BOOLEAN
    /\ ahead \in 0 .. Len(chain)
    /\ issued \in 0 .. MaxOutputs
    /\ last \in 0 .. issued
    /\ beforeStop \in 0 .. issued

Init ==
    /\ phase = "stopped"
    /\ chain = <<>>
    /\ inFlight = FALSE
    /\ ahead = 0
    /\ issued = 0
    /\ last = 0
    /\ beforeStop = 0

-----------------------------------------------------------------------------
(* The chain *)

\* The client field; stop clears it before the connection ends.
HasClient == phase \in {"subscribing", "running", "flushing", "stopping"}

\* isClosing of the coordinator, from its stop to its next start.
IsClosing == phase \in {"stopping", "ending", "stopped", "connecting"}

\* The jobs of the next n outputs.
Publications(n) == [i \in 1 .. n |-> Publish(issued + i)]

\* enqueuePublish for n outputs in a row; an output without a configured topic
\* is only logged and not counted.
Enqueue(rest, n) ==
    /\ issued + n <= MaxOutputs
    /\ Len(rest) + n <= MaxChain
    /\ chain' = rest \o Publications(n)
    /\ issued' = issued + n

\* Mistake: a failed or finished job goes unnoticed.
JobOverUnnoticed == ahead' = ahead /\ inFlight' = FALSE

\* The promise a flush has captured settles with the job that was last then.
JobOver ==
    /\ ahead' = IF ahead > 0 THEN ahead - 1 ELSE 0
    /\ inFlight' = FALSE

\* The "message" listener.
Receive ==
    /\ HasClient
    /\ Len(chain) < MaxChain
    /\ chain' = Append(chain, Message)
    /\ UNCHANGED <<phase, inFlight, ahead, issued, last, beforeStop>>

\* The drain, the watchdog and the startup sequence emit by themselves, until
\* the coordinator's stop has flushed them.
Emit ==
    /\ HasClient
    /\ \E n \in 1 .. MaxBatch : Enqueue(chain, n)
    /\ UNCHANGED <<phase, inFlight, ahead, last, beforeStop>>

\* processMqttMessage of the first job.  A message that fails, or comes while
\* the coordinator is closing, has no output.
HandleMessage ==
    /\ chain # <<>>
    /\ Head(chain).kind = "message"
    /\ \E n \in 0 .. MaxBatch : (IsClosing => n = 0) /\ Enqueue(Tail(chain), n)
    /\ JobOver
    /\ UNCHANGED <<phase, last, beforeStop>>

PublishIsNext == chain # <<>> /\ ~inFlight /\ Head(chain).kind = "publish"

\* publishMqttMessage, publishJson: the client takes the packet.
StartPublish ==
    /\ PublishIsNext
    /\ HasClient
    /\ inFlight' = TRUE
    /\ UNCHANGED <<phase, chain, ahead, issued, last, beforeStop>>

\* Without a client the job returns at once.
DropPublish ==
    /\ PublishIsNext
    /\ ~HasClient
    /\ chain' = Tail(chain)
    /\ JobOver
    /\ UNCHANGED <<phase, issued, last, beforeStop>>

\* Mistake: a refused output is tried again behind the others.
FinishPublishRetrying(acknowledged) ==
    /\ inFlight
    /\ chain' = IF acknowledged THEN Tail(chain) ELSE Append(Tail(chain), Head(chain))
    /\ last' = IF acknowledged THEN Head(chain).output ELSE last
    /\ JobOver
    /\ UNCHANGED <<phase, issued, beforeStop>>

\* Mistake: a refused output is tried again until it is accepted.
FinishPublishInsisting(acknowledged) ==
    /\ inFlight
    /\ chain' = IF acknowledged THEN Tail(chain) ELSE chain
    /\ last' = IF acknowledged THEN Head(chain).output ELSE last
    /\ inFlight' = FALSE
    /\ ahead' = IF acknowledged /\ ahead > 0 THEN ahead - 1 ELSE ahead
    /\ UNCHANGED <<phase, issued, beforeStop>>

\* The broker has acknowledged the output, or the error is logged.
FinishPublish(acknowledged) ==
    /\ inFlight
    /\ chain' = Tail(chain)
    /\ last' = IF acknowledged THEN Head(chain).output ELSE last
    /\ JobOver
    /\ UNCHANGED <<phase, issued, beforeStop>>

-----------------------------------------------------------------------------
(* start and stop *)

\* start returns at once while there is a client.
Start ==
    /\ phase = "stopped"
    /\ phase' = "connecting"
    /\ UNCHANGED <<chain, inFlight, ahead, issued, last, beforeStop>>

\* The client factory answers: start fails, or goes on with the coordinator's
\* start and the subscriptions.
FinishConnecting ==
    /\ phase = "connecting"
    /\ phase' \in {"stopped", "subscribing"}
    /\ UNCHANGED <<chain, inFlight, ahead, issued, last, beforeStop>>

\* Granted or not: a start that fails here leaves the client in place.
FinishSubscribing ==
    /\ phase = "subscribing"
    /\ phase' = "running"
    /\ UNCHANGED <<chain, inFlight, ahead, issued, last, beforeStop>>

\* Mistake: stop does not wait for the chain.
StopAtOnce ==
    /\ phase \in {"subscribing", "running"}
    /\ phase' = "flushing"
    /\ ahead' = 0
    /\ beforeStop' = issued
    /\ UNCHANGED <<chain, inFlight, issued, last>>

\* stop, with the flush of the chain as it is now.
Stop ==
    /\ phase \in {"subscribing", "running"}
    /\ phase' = "flushing"
    /\ ahead' = Len(chain)
    /\ beforeStop' = issued
    /\ UNCHANGED <<chain, inFlight, issued, last>>

\* Mistake: stop waits until the chain is empty.
StopCoordinatorWhenIdle ==
    /\ phase = "flushing"
    /\ chain = <<>>
    /\ phase' = "stopping"
    /\ UNCHANGED <<chain, inFlight, ahead, issued, last, beforeStop>>

\* The flush is over, the coordinator's included, and its stop begins.
StopCoordinator ==
    /\ phase = "flushing"
    /\ ahead = 0
    /\ phase' = "stopping"
    /\ UNCHANGED <<chain, inFlight, ahead, issued, last, beforeStop>>

\* The client field is cleared; a publish that need not wait for another was
\* handed over before.
LeaveClient ==
    /\ phase = "stopping"
    /\ ~PublishIsNext
    /\ phase' = "ending"
    /\ UNCHANGED <<chain, inFlight, ahead, issued, last, beforeStop>>

\* endAsync is over.  Nothing here counts on its having waited for a publish in
\* flight.
EndClient ==
    /\ phase = "ending"
    /\ phase' = "stopped"
    /\ UNCHANGED <<chain, inFlight, ahead, issued, last, beforeStop>>

-----------------------------------------------------------------------------

\* What runs the first job.
RunJob ==
    \/ HandleMessage
    \/ StartPublish
    \/ DropPublish
    \/ \E acknowledged \in BOOLEAN : FinishPublish(acknowledged)

GoOn ==
    \/ FinishConnecting
    \/ FinishSubscribing
    \/ StopCoordinator
    \/ LeaveClient
    \/ EndClient

Next == Receive \/ Emit \/ RunJob \/ Start \/ Stop \/ GoOn

Spec == Init /\ [][Next]_vars

\* Promises settle: the broker answers every publish in the end, with success
\* or failure, and flushing and closing do not hang.
FairSpec == Spec /\ WF_vars(RunJob) /\ WF_vars(GoOn)

-----------------------------------------------------------------------------
(* Properties *)

Outputs == {i \in DOMAIN chain : chain[i].kind = "publish"}

Pending == {chain[i].output : i \in Outputs}

Order == INSTANCE OutputOrder WITH pending <- Pending

\* Outputs reach the broker in the order the coordinator emitted them and at
\* most once, whatever messages are handled, outputs refused and adapters
\* stopped and started again in between.
KeepsOrder == Order!Spec

\* Stop does not lose what was emitted before it was called: an output is
\* dropped for want of a client only if it was emitted while stop was under way.
OnlyLateOutputsDropped == [][DropPublish => Head(chain).output > beforeStop]_vars

\* Every output is published or given up in the end: a refusal, a failing
\* message or a stop never leaves the chain stuck.
OutputsSettle == \A n \in 1 .. MaxOutputs : issued >= n ~> n \notin Pending

\* Stop ends although messages keep coming in.
StopEnds == phase = "flushing" ~> phase = "stopped"

=============================================================================
