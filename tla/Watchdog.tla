------------------------------- MODULE Watchdog -------------------------------
(***************************************************************************)
(* The watchdog's decisions: what one health check answers and does to the *)
(* device's ping state, and when a bridge probe may be sent.  A ping is    *)
(* "queued" from the decision until the frame leaves, "sent" from then on; *)
(* elapsed counts the ticks since then, up to one past the timeout.        *)
(***************************************************************************)
EXTENDS DeviceRegistry

CONSTANT PingTimeout   \* pingTimeoutMs, in ticks

ASSUME PingTimeoutAssumption == PingTimeout \in Nat \ {0}

PingState == [status : {"none", "queued", "sent"}, elapsed : 0 .. PingTimeout + 1]

NoPing == [status |-> "none", elapsed |-> 0]
Queued == [status |-> "queued", elapsed |-> 0]
Sent == [status |-> "sent", elapsed |-> 0]

\* One tick of the clock, as a ping in flight sees it.
Waited(ping) ==
    IF ping.status = "sent" /\ ping.elapsed <= PingTimeout
    THEN [ping EXCEPT !.elapsed = @ + 1] ELSE ping

TimedOut(ping) == ping.elapsed > PingTimeout

\* cancelQueuedPing, cancelQueuedBridgeProbe
CancelQueued(ping) == IF ping.status = "queued" THEN NoPing ELSE ping

Answer(status, ping) == [status |-> status, ping |-> ping]

SilentAndReachable(dev) ==
    dev.known /\ RecoveryPath(dev) = "controller_reachable" /\ ~SeenRecently(dev)

\* Mistake: a ping counts as sent from the moment it is wanted.
CheckDeviceHealthCountingQueued(dev, ping) ==
    IF ~dev.known THEN Answer("unhealthy", ping)
    ELSE IF ~SilentAndReachable(dev) THEN Answer("ok", NoPing)
    ELSE Answer(IF ping = NoPing THEN "needs_ping" ELSE "stale", Queued)

\* Mistake: while a retry is out, a stale device is reported as ok.
CheckDeviceHealthForgettingStale(dev, ping) ==
    IF ~dev.known THEN Answer("unhealthy", ping)
    ELSE IF ~SilentAndReachable(dev) THEN Answer("ok", NoPing)
    ELSE IF ping = NoPing THEN Answer("needs_ping", Queued)
    ELSE IF TimedOut(ping) THEN Answer("stale", Queued)
    ELSE Answer("ok", ping)

\* Mistake: every cycle pings a silent device again.
CheckDeviceHealthRepinging(dev, ping) ==
    IF ~dev.known THEN Answer("unhealthy", ping)
    ELSE IF ~SilentAndReachable(dev) THEN Answer("ok", NoPing)
    ELSE IF TimedOut(ping) THEN Answer("stale", Queued)
    ELSE Answer("needs_ping", Queued)

\* checkDeviceHealth: the answer and the device's next ping state.
CheckDeviceHealth(dev, ping) ==
    CASE ~dev.known ->
           Answer("unhealthy", ping)
      [] dev.known /\ ~dev.connected /\ ~dev.bridgeConnected ->
           Answer("ok", NoPing)
      [] dev.known /\ ~dev.connected /\ dev.bridgeConnected /\ dev.link = "down" ->
           Answer("ok", NoPing)
      [] OTHER ->
           IF SeenRecently(dev) THEN Answer("ok", NoPing)
           ELSE CASE ping.status = "sent" /\ TimedOut(ping) ->
                       Answer("stale", Queued)
                  [] ping.status = "sent" /\ ~TimedOut(ping) ->
                       Answer(IF dev.isStale THEN "stale" ELSE "ok", ping)
                  [] ping.status = "queued" ->
                       Answer(IF dev.isStale THEN "retry_queued" ELSE "ok", ping)
                  [] ping.status = "none" ->
                       Answer("needs_ping", Queued)

\* Mistake: a probe in flight never holds back the next one.
ShouldProbeBridgeAlways(probe) == probe.status # "queued"

\* shouldProbeBridge
ShouldProbeBridge(probe) ==
    /\ probe.status # "queued"
    /\ probe.status = "sent" => probe.elapsed >= PingTimeout

=============================================================================
