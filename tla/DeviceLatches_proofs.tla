-------------------------- MODULE DeviceLatches_proofs --------------------------
(***************************************************************************)
(* The queues against what is recorded of them, for any number of devices  *)
(* and any length of the queues: whatever counts as queued has a frame     *)
(* that is still to leave, and the bridge probe has at most one.           *)
(***************************************************************************)
EXTENDS DeviceHealth_proofs

-----------------------------------------------------------------------------
(* Counting the snapshot requests of a device *)

\* The snapshot requests to d in a queue of operations (see QueuedRequests).
RequestsIn(queue, d) ==
    {p \in (DOMAIN queue) \X (1 .. 2) :
        /\ p[2] \in DOMAIN queue[p[1]].frames
        /\ queue[p[1]].frames[p[2]] \in SnapshotRequests(d)}

\* The snapshot requests to d in a list of frames (see SnapshotFrames).
RequestsOf(frames, d) == {i \in DOMAIN frames : frames[i] \in SnapshotRequests(d)}

\* Two parts of a finite set add up.
LEMMA PartsAddUp ==
    ASSUME NEW A, NEW B, IsFiniteSet(A), IsFiniteSet(B), A \cap B = {}
    PROVE  /\ Cardinality(A) \in Nat /\ Cardinality(B) \in Nat
           /\ Cardinality(A \cup B) = Cardinality(A) + Cardinality(B)
  <1>1. Cardinality(A \cup B) = Cardinality(A) + Cardinality(B) - Cardinality(A \cap B)
    BY FS_Union
  <1>2. Cardinality(A) \in Nat /\ Cardinality(B) \in Nat /\ Cardinality(A \cap B) = 0
    BY FS_CardinalityType, FS_EmptySet
  <1> QED BY <1>1, <1>2

\* Both are finite.
LEMMA RequestsAreFinite ==
    ASSUME NEW queue \in Seq(Operation), NEW frames \in Seq(Frame), NEW d
    PROVE  /\ IsFiniteSet(RequestsIn(queue, d)) /\ Cardinality(RequestsIn(queue, d)) \in Nat
           /\ IsFiniteSet(RequestsOf(frames, d)) /\ SnapshotFrames(frames, d) \in Nat
           /\ SnapshotFrames(frames, d) = Cardinality(RequestsOf(frames, d))
  <1>1. IsFiniteSet(DOMAIN queue) /\ IsFiniteSet(DOMAIN frames) /\ IsFiniteSet(1 .. 2)
    <2>1. \A n \in Nat : IsFiniteSet(1 .. n)
      BY FS_Interval
    <2>2. DOMAIN queue = 1 .. Len(queue) /\ Len(queue) \in Nat
      OBVIOUS
    <2>3. DOMAIN frames = 1 .. Len(frames) /\ Len(frames) \in Nat
      OBVIOUS
    <2> QED BY <2>1, <2>2, <2>3
  <1>2. IsFiniteSet((DOMAIN queue) \X (1 .. 2))
    BY <1>1, FS_Product
  <1>3. RequestsIn(queue, d) \in SUBSET ((DOMAIN queue) \X (1 .. 2))
    BY DEF RequestsIn
  <1>4. RequestsOf(frames, d) \in SUBSET DOMAIN frames
    BY DEF RequestsOf
  <1>5. IsFiniteSet(RequestsIn(queue, d)) /\ IsFiniteSet(RequestsOf(frames, d))
    BY <1>1, <1>2, <1>3, <1>4, FS_Subset
  <1> QED BY <1>5, FS_CardinalityType DEF SnapshotFrames, RequestsOf

\* More of the same operations hold no fewer requests.
LEMMA RequestsGrow ==
    ASSUME NEW old \in Seq(Operation), NEW new \in Seq(Operation), NEW d,
           \A i \in DOMAIN old : i \in DOMAIN new /\ new[i].frames = old[i].frames
    PROVE  Cardinality(RequestsIn(old, d)) <= Cardinality(RequestsIn(new, d))
  <1>1. RequestsIn(old, d) \in SUBSET RequestsIn(new, d)
    BY DEF RequestsIn
  <1>2. IsFiniteSet(RequestsIn(new, d))
    BY <<>> \in Seq(Frame), RequestsAreFinite
  <1> QED BY <1>1, <1>2, FS_Subset

\* Nor does a longer list of frames.
LEMMA FramesGrow ==
    ASSUME NEW old \in Seq(Frame), NEW new \in Seq(Frame), NEW d,
           \A i \in DOMAIN old : i \in DOMAIN new /\ new[i] = old[i]
    PROVE  SnapshotFrames(old, d) <= SnapshotFrames(new, d)
  <1>1. RequestsOf(old, d) \in SUBSET RequestsOf(new, d)
    BY DEF RequestsOf
  <1>2. /\ IsFiniteSet(RequestsOf(new, d))
        /\ SnapshotFrames(old, d) = Cardinality(RequestsOf(old, d))
        /\ SnapshotFrames(new, d) = Cardinality(RequestsOf(new, d))
    BY <<>> \in Seq(Operation), RequestsAreFinite
  <1> QED BY <1>1, <1>2, FS_Subset

\* A burst of n requests appended to the queue counts n.
LEMMA BurstCounts ==
    ASSUME NEW queue \in Seq(Operation), NEW op \in Operation, NEW d,
           Len(op.frames) \in 0 .. 2,
           \A i \in DOMAIN op.frames : op.frames[i] \in SnapshotRequests(d)
    PROVE  Len(op.frames) <= Cardinality(RequestsIn(Append(queue, op), d))
  <1> DEFINE n == Len(op.frames)
             last == Len(queue) + 1
             new == Append(queue, op)
             f == [i \in 1 .. n |-> <<last, i>>]
  <1>1. op.frames \in Seq(Frame)
    BY DEF Operation
  <1>2. new \in Seq(Operation) /\ last \in DOMAIN new /\ new[last] = op
    OBVIOUS
  <1>3. f \in [1 .. n -> RequestsIn(new, d)]
    BY <1>1, <1>2 DEF RequestsIn
  <1>4. f \in Injection(1 .. n, RequestsIn(new, d))
    BY <1>3 DEF Injection, IsInjective
  <1>5. IsFiniteSet(RequestsIn(new, d))
    BY <1>2, <<>> \in Seq(Frame), RequestsAreFinite
  <1>6. Cardinality(1 .. n) = n
    BY FS_Interval
  <1> QED BY <1>4, <1>5, <1>6, FS_Injection

\* What leaves with the head of the queue is at most what its frames hold.
LEMMA HeadCounts ==
    ASSUME NEW queue \in Seq(Operation), queue # <<>>, NEW d
    PROVE  Cardinality(RequestsIn(queue, d))
             <= SnapshotFrames(Head(queue).frames, d) + Cardinality(RequestsIn(Tail(queue), d))
  <1> DEFINE head == Head(queue).frames
             rest == Tail(queue)
             A == {p \in RequestsIn(queue, d) : p[1] = 1}
             B == {p \in RequestsIn(queue, d) : p[1] # 1}
             f == [p \in A |-> p[2]]
             g == [p \in B |-> <<p[1] - 1, p[2]>>]
  <1>1. head \in Seq(Frame) /\ rest \in Seq(Operation) /\ head = queue[1].frames
    BY HeadIsTyped
  <1>2. Len(rest) = Len(queue) - 1 /\ \A i \in 1 .. Len(rest) : rest[i] = queue[i + 1]
    OBVIOUS
  <1>3. /\ IsFiniteSet(RequestsIn(queue, d)) /\ IsFiniteSet(RequestsIn(rest, d))
        /\ IsFiniteSet(RequestsOf(head, d))
        /\ SnapshotFrames(head, d) = Cardinality(RequestsOf(head, d))
    BY <1>1, RequestsAreFinite
  <1>4. Cardinality(A) <= SnapshotFrames(head, d)
    <2>1. f \in [A -> RequestsOf(head, d)]
      BY <1>1 DEF RequestsIn, RequestsOf
    <2>2. f \in Injection(A, RequestsOf(head, d))
      BY <2>1 DEF Injection, IsInjective, RequestsIn
    <2> QED BY <1>3, <2>2, FS_Injection
  <1>5. Cardinality(B) <= Cardinality(RequestsIn(rest, d))
    <2>1. ASSUME NEW p \in B PROVE <<p[1] - 1, p[2]>> \in RequestsIn(rest, d)
      <3>1. p[1] \in 2 .. Len(queue) /\ p[2] \in 1 .. 2
        BY DEF RequestsIn
      <3>2. p[1] - 1 \in 1 .. Len(rest) /\ rest[p[1] - 1] = queue[p[1]]
        BY <1>2, <3>1
      <3> QED BY <1>1, <3>1, <3>2 DEF RequestsIn
    <2>2. g \in Injection(B, RequestsIn(rest, d))
      BY <2>1 DEF Injection, IsInjective, RequestsIn
    <2> QED BY <1>3, <2>2, FS_Injection
  <1>6. /\ RequestsIn(queue, d) = A \cup B /\ A \cap B = {}
        /\ IsFiniteSet(A) /\ IsFiniteSet(B)
    BY <1>3, FS_Subset
  <1>7. /\ Cardinality(A) \in Nat /\ Cardinality(B) \in Nat
        /\ Cardinality(RequestsIn(queue, d)) = Cardinality(A) + Cardinality(B)
    <2> HIDE DEF A, B
    <2> QED BY <1>6, PartsAddUp
  <1>8. SnapshotFrames(head, d) \in Nat /\ Cardinality(RequestsIn(rest, d)) \in Nat
    BY <1>1, RequestsAreFinite
  <1> HIDE DEF A, B, head, rest
  <1>9. Cardinality(RequestsIn(queue, d)) <= SnapshotFrames(head, d) + Cardinality(RequestsIn(rest, d))
    BY <1>4, <1>5, <1>7, <1>8
  <1> QED BY <1>9 DEF head, rest

\* A frame the drain takes up still counts.
LEMMA WakeCounts ==
    ASSUME NEW frames \in Seq(Frame), frames # <<>>, NEW d
    PROVE  SnapshotFrames(frames, d)
             <= SnapshotFrames(Tail(frames), d) + Cardinality(RequestsIn(<<DrainOne(Head(frames))>>, d))
  <1> DEFINE rest == Tail(frames)
             queue == <<DrainOne(Head(frames))>>
             A == {i \in RequestsOf(frames, d) : i = 1}
             B == {i \in RequestsOf(frames, d) : i # 1}
             f == [i \in A |-> <<1, 1>>]
             g == [i \in B |-> i - 1]
  <1>1. Head(frames) = frames[1] /\ Head(frames) \in Frame /\ rest \in Seq(Frame)
    OBVIOUS
  <1>2. DrainOne(Head(frames)) \in Operation /\ DrainOne(Head(frames)).frames = <<frames[1]>>
    BY <1>1 DEF DrainOne, Operation
  <1>3. queue \in Seq(Operation) /\ DOMAIN queue = {1} /\ queue[1].frames = <<frames[1]>>
    BY <1>2
  <1>4. /\ IsFiniteSet(RequestsOf(frames, d)) /\ IsFiniteSet(RequestsOf(rest, d))
        /\ IsFiniteSet(RequestsIn(queue, d))
        /\ SnapshotFrames(frames, d) = Cardinality(RequestsOf(frames, d))
        /\ SnapshotFrames(rest, d) = Cardinality(RequestsOf(rest, d))
        /\ SnapshotFrames(rest, d) \in Nat /\ Cardinality(RequestsIn(queue, d)) \in Nat
    BY <1>1, <1>3, RequestsAreFinite
  <1> HIDE DEF queue
  <1>5. Cardinality(A) <= Cardinality(RequestsIn(queue, d))
    <2>1. ASSUME NEW i \in A PROVE <<1, 1>> \in RequestsIn(queue, d)
      BY <1>3 DEF RequestsIn, RequestsOf
    <2>2. f \in Injection(A, RequestsIn(queue, d))
      BY <2>1 DEF Injection, IsInjective
    <2> QED BY <1>4, <2>2, FS_Injection
  <1>6. Cardinality(B) <= SnapshotFrames(rest, d)
    <2>1. ASSUME NEW i \in B PROVE i - 1 \in RequestsOf(rest, d)
      BY DEF RequestsOf
    <2>2. g \in Injection(B, RequestsOf(rest, d))
      BY <2>1 DEF Injection, IsInjective, RequestsOf
    <2> QED BY <1>4, <2>2, FS_Injection
  <1>7. /\ RequestsOf(frames, d) = A \cup B /\ A \cap B = {}
        /\ IsFiniteSet(A) /\ IsFiniteSet(B)
    BY <1>4, FS_Subset
  <1> HIDE DEF A, B, rest
  <1>8. /\ Cardinality(A) \in Nat /\ Cardinality(B) \in Nat
        /\ Cardinality(RequestsOf(frames, d)) = Cardinality(A) + Cardinality(B)
    BY <1>7, PartsAddUp
  <1>9. SnapshotFrames(frames, d) <= SnapshotFrames(rest, d) + Cardinality(RequestsIn(queue, d))
    BY <1>4, <1>5, <1>6, <1>8
  <1> QED BY <1>9 DEF rest, queue

-----------------------------------------------------------------------------
(* What sending does to the queues *)

Backlog(d) == SnapshotFrames(lowPriority, d) + Cardinality(RequestsIn(sendQueue, d))

\* Pending frames are never forgotten: the drain that takes them is running.
DrainRuns == lowPriority # <<>> => DrainActive

\* Nothing waiting is lost, and the given frames wait from now on.
Enqueued(frames) ==
    /\ \A f \in Frame : Waiting(f) \/ f \in FramesOf(frames) => Waiting(f)'
    /\ \A d \in Devices : Backlog(d) <= Backlog(d)'
    /\ DrainRuns'

\* Appending an operation.
LEMMA AppendEnqueues ==
    ASSUME OutputOK, DrainRuns, NEW op \in Operation,
           sendQueue' = Append(sendQueue, op), UNCHANGED <<lowPriority, drainAsleep>>
    PROVE  Enqueued(op.frames)
  <1>1. /\ sendQueue \in Seq(Operation) /\ sendQueue' \in Seq(Operation)
        /\ lowPriority \in Seq(Frame)
    BY DEF OutputOK
  <1>2. \A i \in DOMAIN sendQueue : i \in DOMAIN sendQueue' /\ sendQueue'[i] = sendQueue[i]
    BY <1>1
  <1>3. Len(sendQueue) + 1 \in DOMAIN sendQueue' /\ sendQueue'[Len(sendQueue) + 1] = op
    BY <1>1
  <1>4. \A f \in Frame : Waiting(f) \/ f \in FramesOf(op.frames) => Waiting(f)'
    BY <1>2, <1>3 DEF Waiting
  <1>5. \A d \in Devices : Backlog(d) <= Backlog(d)'
    <2> SUFFICES ASSUME NEW d \in Devices PROVE Backlog(d) <= Backlog(d)'
      OBVIOUS
    <2>1. Cardinality(RequestsIn(sendQueue, d)) <= Cardinality(RequestsIn(sendQueue', d))
      BY <1>1, <1>2, RequestsGrow
    <2>2. /\ Cardinality(RequestsIn(sendQueue, d)) \in Nat
          /\ Cardinality(RequestsIn(sendQueue', d)) \in Nat
          /\ SnapshotFrames(lowPriority, d) \in Nat
      BY <1>1, RequestsAreFinite
    <2>3. Backlog(d)' = SnapshotFrames(lowPriority, d) + Cardinality(RequestsIn(sendQueue', d))
      BY DEF Backlog, SnapshotFrames, RequestsIn
    <2> QED BY <2>1, <2>2, <2>3 DEF Backlog
  <1>6. DrainRuns'
    BY <1>2 DEF DrainRuns, DrainActive
  <1> QED BY <1>4, <1>5, <1>6 DEF Enqueued

\* An immediate result is enqueued, and a burst of requests counts in full.
LEMMA SendEnqueues ==
    ASSUME OutputOK, DrainRuns, NEW frames \in Seq(Frame), Send(frames)
    PROVE  /\ Enqueued(frames)
           /\ \A d \in Devices :
                /\ Len(frames) \in 0 .. 2
                /\ \A i \in DOMAIN frames : frames[i] \in SnapshotRequests(d)
                => Len(frames) <= Backlog(d)'
  <1>1. Immediate(frames) \in Operation /\ Immediate(frames).frames = frames
    BY DEF Immediate, Operation
  <1>2. sendQueue \in Seq(Operation) /\ lowPriority \in Seq(Frame)
    BY DEF OutputOK
  <1>3. CASE frames = <<>>
    <2>1. UNCHANGED <<sendQueue, lowPriority, drainAsleep>>
      BY <1>3 DEF Send
    <2>2. \A d \in Devices : Backlog(d)' = Backlog(d) /\ Backlog(d) \in Nat
      <3>1. \A d \in Devices : Backlog(d) \in Nat
        BY <1>2, RequestsAreFinite DEF Backlog
      <3>2. \A d \in Devices : Backlog(d)' = Backlog(d)
        BY <2>1 DEF Backlog, SnapshotFrames, RequestsIn
      <3> QED BY <3>1, <3>2
    <2>3. FramesOf(frames) = {} /\ Len(frames) = 0
      BY <1>3 DEF FramesOf
    <2>4. Enqueued(frames)
      BY <2>1, <2>2, <2>3 DEF Enqueued, Waiting, DrainRuns, DrainActive
    <2> QED BY <2>2, <2>3, <2>4
  <1>4. CASE frames # <<>>
    <2>1. sendQueue' = Append(sendQueue, Immediate(frames)) /\ UNCHANGED <<lowPriority, drainAsleep>>
      BY <1>4 DEF Send
    <2>2. Enqueued(frames)
      BY <1>1, <2>1, AppendEnqueues
    <2>3. ASSUME NEW d \in Devices, Len(frames) \in 0 .. 2,
                 \A i \in DOMAIN frames : frames[i] \in SnapshotRequests(d)
          PROVE  Len(frames) <= Backlog(d)'
      <3>1. Len(frames) <= Cardinality(RequestsIn(sendQueue', d))
        BY <1>1, <1>2, <2>1, <2>3, BurstCounts
      <3>2. sendQueue' \in Seq(Operation)
        BY <1>1, <1>2, <2>1
      <3>3. Cardinality(RequestsIn(sendQueue', d)) \in Nat /\ SnapshotFrames(lowPriority, d) \in Nat
        BY <1>2, <3>2, RequestsAreFinite
      <3>4. Backlog(d)' = SnapshotFrames(lowPriority, d) + Cardinality(RequestsIn(sendQueue', d))
        BY <2>1 DEF Backlog, SnapshotFrames, RequestsIn
      <3> QED BY <2>3, <3>1, <3>3, <3>4
    <2> QED BY <2>2, <2>3
  <1> QED BY <1>3, <1>4

\* So is a bulk result.
LEMMA StaggeredEnqueues ==
    ASSUME OutputOK, DrainRuns, NEW frames \in Seq(Frame), SendStaggered(frames)
    PROVE  Enqueued(frames)
  <1>1. sendQueue \in Seq(Operation) /\ lowPriority \in Seq(Frame)
    BY DEF OutputOK
  <1>2. CASE Len(frames) <= 1
    BY <1>2, SendEnqueues DEF SendStaggered
  <1>3. CASE ~(Len(frames) <= 1) /\ DrainActive
    <2>1. lowPriority' = lowPriority \o frames /\ UNCHANGED <<sendQueue, drainAsleep>>
      BY <1>3 DEF SendStaggered
    <2>2. \A i \in DOMAIN lowPriority : i \in DOMAIN lowPriority' /\ lowPriority'[i] = lowPriority[i]
      BY <1>1, <2>1
    <2>3. \A i \in DOMAIN frames :
            /\ Len(lowPriority) + i \in DOMAIN lowPriority'
            /\ lowPriority'[Len(lowPriority) + i] = frames[i]
      BY <1>1, <2>1
    <2>4. ASSUME NEW f \in Frame, Waiting(f) \/ f \in FramesOf(frames) PROVE Waiting(f)'
      <3>1. FramesOf(lowPriority) \cup FramesOf(frames) \subseteq FramesOf(lowPriority')
        BY <2>2, <2>3 DEF FramesOf
      <3>2. UNCHANGED sendQueue
        BY <2>1
      <3> QED BY <2>4, <3>1, <3>2 DEF Waiting
    <2>5. ASSUME NEW d \in Devices PROVE Backlog(d) <= Backlog(d)'
      <3>1. lowPriority' \in Seq(Frame)
        BY <1>1, <2>1
      <3>2. SnapshotFrames(lowPriority, d) <= SnapshotFrames(lowPriority', d)
        BY <1>1, <2>2, <3>1, FramesGrow
      <3>3. /\ SnapshotFrames(lowPriority, d) \in Nat /\ SnapshotFrames(lowPriority', d) \in Nat
            /\ Cardinality(RequestsIn(sendQueue, d)) \in Nat
        BY <1>1, <3>1, RequestsAreFinite
      <3>4. Backlog(d)' = SnapshotFrames(lowPriority', d) + Cardinality(RequestsIn(sendQueue, d))
        BY <2>1 DEF Backlog, SnapshotFrames, RequestsIn
      <3> QED BY <3>2, <3>3, <3>4 DEF Backlog
    <2>6. DrainRuns'
      BY <1>3, <2>1 DEF DrainRuns, DrainActive
    <2> QED BY <2>4, <2>5, <2>6 DEF Enqueued
  <1>4. CASE ~(Len(frames) <= 1) /\ ~DrainActive
    <2> DEFINE op == DrainOne(Head(frames))
    <2>1. /\ lowPriority' = Tail(frames) /\ sendQueue' = Append(sendQueue, op)
          /\ UNCHANGED drainAsleep
      BY <1>4 DEF SendStaggered
    <2>2. lowPriority = <<>>
      BY <1>4 DEF DrainRuns
    <2>3. /\ Head(frames) = frames[1] /\ Head(frames) \in Frame
          /\ \A i \in DOMAIN frames : i # 1 =>
               i - 1 \in DOMAIN Tail(frames) /\ Tail(frames)[i - 1] = frames[i]
      BY <1>4
    <2>4. op \in Operation /\ op.drain /\ op.frames = <<frames[1]>>
      BY <2>3 DEF DrainOne, Operation
    <2> HIDE DEF op
    <2>5. /\ \A i \in DOMAIN sendQueue : i \in DOMAIN sendQueue' /\ sendQueue'[i] = sendQueue[i]
          /\ Len(sendQueue) + 1 \in DOMAIN sendQueue' /\ sendQueue'[Len(sendQueue) + 1] = op
          /\ sendQueue' \in Seq(Operation)
      BY <1>1, <2>1, <2>4
    <2>6. ASSUME NEW f \in Frame, Waiting(f) \/ f \in FramesOf(frames) PROVE Waiting(f)'
      <3>1. CASE Waiting(f)
        BY <2>2, <2>5, <3>1 DEF Waiting, FramesOf
      <3>2. CASE f \in FramesOf(frames)
        <4>1. PICK i \in DOMAIN frames : f = frames[i]
          BY <3>2 DEF FramesOf
        <4>2. CASE i = 1
          <5>1. f \in FramesOf(op.frames)
            BY <2>4, <4>1, <4>2 DEF FramesOf
          <5> QED BY <2>5, <5>1 DEF Waiting
        <4>3. CASE i # 1
          BY <2>1, <2>3, <4>1, <4>3 DEF Waiting, FramesOf
        <4> QED BY <4>2, <4>3
      <3> QED BY <2>6, <3>1, <3>2
    <2>7. ASSUME NEW d \in Devices PROVE Backlog(d) <= Backlog(d)'
      <3>1. Tail(frames) \in Seq(Frame)
        BY <1>4
      <3>2. Cardinality(RequestsIn(sendQueue, d)) <= Cardinality(RequestsIn(sendQueue', d))
        BY <1>1, <2>5, RequestsGrow
      <3>3. /\ SnapshotFrames(Tail(frames), d) \in Nat
            /\ Cardinality(RequestsIn(sendQueue, d)) \in Nat
            /\ Cardinality(RequestsIn(sendQueue', d)) \in Nat
        BY <1>1, <2>5, <3>1, RequestsAreFinite
      <3>4. SnapshotFrames(lowPriority, d) = 0
        <4>1. RequestsOf(lowPriority, d) = {}
          BY <2>2 DEF RequestsOf
        <4> QED BY <4>1, FS_EmptySet DEF SnapshotFrames, RequestsOf
      <3>5. Backlog(d)' = SnapshotFrames(Tail(frames), d) + Cardinality(RequestsIn(sendQueue', d))
        BY <2>1 DEF Backlog, SnapshotFrames, RequestsIn
      <3> QED BY <3>2, <3>3, <3>4, <3>5 DEF Backlog
    <2>8. DrainRuns'
      BY <2>4, <2>5 DEF DrainRuns, DrainActive
    <2> QED BY <2>6, <2>7, <2>8 DEF Enqueued
  <1> QED BY <1>2, <1>3, <1>4

-----------------------------------------------------------------------------
(* The latches *)

PingsBacked == \A d \in Devices : pingStates[d].status = "queued" => Waiting(Ping(d))

ProbeBacked == bridgeProbe.status = "queued" => Waiting(Probe)

RecoveryBacked == \A d \in Devices : recovery[d].queued <= Backlog(d)

QueuesBacked == TypedAndConsistent /\ DrainRuns /\ PingsBacked /\ ProbeBacked /\ RecoveryBacked

\* The three parts are what LatchesBacked says.
LEMMA BackedParts == PingsBacked /\ ProbeBacked /\ RecoveryBacked => LatchesBacked
  BY DEF PingsBacked, ProbeBacked, RecoveryBacked, LatchesBacked, Backlog, QueuedRequests, RequestsIn

\* The backlog is a number, before and after a step.
LEMMA BacklogIsNat ==
    ASSUME HealthTypeOK, HealthTypeOK', NEW d
    PROVE  Backlog(d) \in Nat /\ Backlog(d)' \in Nat
  <1>1. Backlog(d) \in Nat
    BY RequestsAreFinite DEF HealthTypeOK, Backlog
  <1>2. sendQueue' \in Seq(Operation) /\ lowPriority' \in Seq(Frame)
    BY DEF HealthTypeOK
  <1>3. SnapshotFrames(lowPriority', d) \in Nat /\ Cardinality(RequestsIn(sendQueue', d)) \in Nat
    BY <1>2, RequestsAreFinite
  <1>4. Backlog(d)' = SnapshotFrames(lowPriority', d) + Cardinality(RequestsIn(sendQueue', d))
    BY DEF Backlog, SnapshotFrames, RequestsIn
  <1> QED BY <1>1, <1>3, <1>4

\* What is recorded of d is no more than before, or just what the frames hold.
Tracked(d, tracking, frames) ==
    \/ tracking.queued <= recovery[d].queued
    \/ /\ tracking.queued = Len(frames)
       /\ Len(frames) \in 0 .. 2
       /\ \A i \in DOMAIN frames : frames[i] \in SnapshotRequests(d)

\* A request for snapshots records exactly the frames it sends.
LEMMA RequestIsTracked ==
    ASSUME HealthTypeOK, NEW d \in Devices, NEW dev \in DeviceState, NEW tracking \in Recovery,
           NEW force \in BOOLEAN, tracking.queued <= recovery[d].queued
    PROVE  Tracked(d, AfterRequest(d, dev, tracking, force), RequestedFrames(d, dev, tracking, force))
  <1>1. /\ Len(MissingFrames(d, dev)) \in 0 .. 2
        /\ \A i \in DOMAIN MissingFrames(d, dev) : MissingFrames(d, dev)[i] \in SnapshotRequests(d)
    BY DEF MissingFrames, SnapshotRequests
  <1>2. recovery[d] \in Recovery
    BY DEF HealthTypeOK
  <1>3. CASE HasSnapshot(dev)
    BY <1>2, <1>3 DEF AfterRequest, NoTracking, Tracked, Recovery
  <1>4. CASE ~HasSnapshot(dev) /\ CanRequest(tracking, force)
    BY <1>1, <1>4 DEF AfterRequest, RequestedFrames, Tracked, Recovery
  <1>5. CASE ~HasSnapshot(dev) /\ ~CanRequest(tracking, force)
    BY <1>5 DEF AfterRequest, Tracked
  <1> QED BY <1>3, <1>4, <1>5

\* A message sends one result, ends no more pings than the one of the device
\* that spoke, and tracks what it requests.
LEMMA MessageResult ==
    ASSUME TypedAndConsistent, NEW e \in Devices, Message(e)
    PROVE  \E frames \in Seq(Frame) :
             /\ Send(frames) /\ UNCHANGED bridgeProbe
             /\ \A d \in Devices : pingStates'[d] \in {NoPing, pingStates[d]}
             /\ \A d \in Devices : Tracked(d, recovery'[d], frames)
             /\ Probe \notin FramesOf(frames)
  <1> DEFINE old == registry[e]
             Result(tracking, frames) ==
                /\ frames \in Seq(Frame) /\ Probe \notin FramesOf(frames)
                /\ tracking \in Recovery /\ Tracked(e, tracking, frames)
             Goal == \E fs \in Seq(Frame) :
                       /\ Send(fs) /\ UNCHANGED bridgeProbe
                       /\ \A d \in Devices : pingStates'[d] \in {NoPing, pingStates[d]}
                       /\ \A d \in Devices : Tracked(d, recovery'[d], fs)
                       /\ Probe \notin FramesOf(fs)
  <1>1. HealthTypeOK /\ old \in DeviceState /\ recovery[e] \in Recovery /\ recovery \in [Devices -> Recovery]
    BY DEF TypedAndConsistent, HealthTypeOK
  <1>2. ASSUME NEW dev, NEW ping \in {NoPing, pingStates[e]}, NEW tracking, NEW frames,
               Handle(e, dev, ping, tracking, frames), Result(tracking, frames)
        PROVE  Goal
    <2>1. \A d \in Devices : pingStates'[d] \in {NoPing, pingStates[d]}
      BY <1>1, <1>2 DEF Handle, HealthTypeOK
    <2>2. ASSUME NEW d \in Devices PROVE Tracked(d, recovery'[d], frames)
      <3>1. CASE d = e
        BY <1>1, <1>2, <3>1 DEF Handle
      <3>2. CASE d # e
        <4>1. recovery'[d] = recovery[d] /\ recovery[d].queued \in 0 .. 2
          BY <1>1, <1>2, <3>2 DEF Handle, Recovery
        <4> QED BY <4>1 DEF Tracked
      <3> QED BY <3>1, <3>2
    <2> QED BY <1>2, <2>1, <2>2 DEF Handle
  <1>3. ASSUME NEW frames \in {<<>>, FramesForUnknownDetails(e)}
        PROVE  /\ frames \in Seq(Frame) /\ Probe \notin FramesOf(frames)
    <2>1. RequestDetails(e) \in Frame /\ RequestDetails(e) # Probe
      BY DEF RequestDetails, Frame, Probe
    <2>2. frames = <<>> \/ frames = <<RequestDetails(e)>>
      BY DEF FramesForUnknownDetails
    <2>3. DOMAIN <<>> = {} /\ DOMAIN <<RequestDetails(e)>> = {1}
      OBVIOUS
    <2>4. CASE frames = <<>>
      BY <2>3, <2>4 DEF FramesOf
    <2>5. CASE frames = <<RequestDetails(e)>>
      BY <2>1, <2>3, <2>5 DEF FramesOf
    <2> QED BY <2>2, <2>4, <2>5
  <1>4. ASSUME NEW tracking \in {NoTracking, recovery[e]},
               NEW frames \in {<<>>, FramesForUnknownDetails(e)}
        PROVE  Result(tracking, frames) /\ tracking.queued <= recovery[e].queued
    <2>1. tracking \in Recovery /\ tracking.queued <= recovery[e].queued
      BY <1>1, <1>4, PingTimeoutAssumption DEF NoTracking, Recovery
    <2> QED BY <1>3, <2>1 DEF Tracked
  <1>5. ASSUME NEW dev PROVE ClearIfSatisfied(dev, recovery[e]) \in {NoTracking, recovery[e]}
    BY DEF ClearIfSatisfied
  <1>6. ASSUME NEW dev \in DeviceState, NEW tracking \in {NoTracking, recovery[e]},
               NEW force \in BOOLEAN
        PROVE  Result(AfterRequest(e, dev, tracking, force), RequestedFrames(e, dev, tracking, force))
    <2>1. tracking \in Recovery /\ tracking.queued <= recovery[e].queued
      BY <1>4
    <2>2. /\ RequestedFrames(e, dev, tracking, force) \in Seq(Frame)
          /\ AfterRequest(e, dev, tracking, force) \in Recovery
      BY <2>1, RecoveryIsTyped, 0 \in Nat
    <2>3. Probe \notin FramesOf(RequestedFrames(e, dev, tracking, force))
      BY DEF RequestedFrames, MissingFrames, RequestDetails, RequestState, Probe, FramesOf
    <2> QED BY <1>1, <2>1, <2>2, <2>3, RequestIsTracked
  <1> HIDE DEF Result, Goal
  <1>7. ASSUME NEW a \in Topologies, HandleLiveConf(e, a) \/ HandleRetainedConf(e, a) PROVE Goal
    BY <1>2, <1>4, <1>5, <1>7 DEF HandleLiveConf, HandleRetainedConf
  <1>8. ASSUME HandleLiveState(e) \/ HandleRetainedState(e) PROVE Goal
    BY <1>2, <1>4, <1>5, <1>8 DEF HandleLiveState, HandleRetainedState
  <1>9. ASSUME HandleClickEvent(e) PROVE Goal
    BY <1>2, <1>4, <1>5, <1>9 DEF HandleClickEvent
  <1>10. ASSUME HandlePingReply(e) PROVE Goal
    <2> DEFINE dev == RecordControllerActivity(old)
               tracking == ClearIfSatisfied(dev, recovery[e])
    <2>1. dev \in DeviceState /\ tracking \in {NoTracking, recovery[e]}
      BY <1>1, <1>5, EntriesAreTyped
    <2>2. Handle(e, dev, NoPing, AfterRequest(e, dev, tracking, FALSE),
                 RequestedFrames(e, dev, tracking, FALSE))
      BY <1>10 DEF HandlePingReply
    <2> HIDE DEF dev, tracking
    <2> QED BY <1>2, <1>6, <2>1, <2>2
  <1>11. ASSUME NEW c \in BOOLEAN, NEW s \in BOOLEAN, HandleBridgeReply(e, c, s) PROVE Goal
    <2> DEFINE dev == RecordBridgePingReply(old, c, s)
               force == SnapshotInvalidated(old, c, s)
    <2>1. dev \in DeviceState /\ force \in BOOLEAN
      BY <1>1, EntriesAreTyped DEF SnapshotInvalidated, HasState
    <2>2. IF c THEN Handle(e, dev, pingStates[e], AfterRequest(e, dev, recovery[e], force),
                           RequestedFrames(e, dev, recovery[e], force))
               ELSE Handle(e, dev, pingStates[e], NoTracking, <<>>)
      BY <1>11 DEF HandleBridgeReply
    <2> HIDE DEF dev, force
    <2> QED BY <1>2, <1>4, <1>6, <2>1, <2>2
  <1>12. ASSUME NEW h \in HomieStates, HandleLiveHomieState(e, h) PROVE Goal
    <2> DEFINE seen == RecordHomieLifecycleState(old, h)
               dev == UpdateBridgeConnectionState(seen, h)
               kept == IF h = "offline" /\ (old.bridgeConnected \/ old.homieReady)
                       THEN NoTracking ELSE recovery[e]
    <2>1. seen \in DeviceState
      BY <1>1, EntriesAreTyped
    <2> HIDE DEF seen
    <2>2. dev \in DeviceState
      BY <2>1, EntriesAreTyped
    <2>3. \/ Handle(e, dev, pingStates[e], AfterRequest(e, dev, recovery[e], TRUE),
                    RequestedFrames(e, dev, recovery[e], TRUE))
          \/ Handle(e, dev, pingStates[e], kept, <<>>)
      BY <1>12 DEF HandleLiveHomieState, seen
    <2>4. kept \in {NoTracking, recovery[e]}
      OBVIOUS
    <2> HIDE DEF dev, kept
    <2> QED BY <1>2, <1>4, <1>6, <2>2, <2>3, <2>4
  <1>13. ASSUME HandleRemoval(e) PROVE Goal
    BY <1>2, <1>4, <1>13 DEF HandleRemoval
  <1>14. ASSUME NEW h \in HomieStates, HandleRetainedHomieState(e, h) PROVE Goal
    BY <1>2, <1>4, <1>14 DEF HandleRetainedHomieState
  <1>15. Goal
    BY <1>7, <1>8, <1>9, <1>10, <1>11, <1>12, <1>13, <1>14 DEF Message, RetainedMessage
  <1> QED BY <1>15 DEF Goal

\* Messages keep the latches backed.
LEMMA MessageKeepsBacked ==
    ASSUME QueuesBacked, TypedAndConsistent', NEW e \in Devices, Message(e)
    PROVE  QueuesBacked'
  <1>1. HealthTypeOK /\ HealthTypeOK' /\ OutputOK
    BY DEF QueuesBacked, TypedAndConsistent, HealthTypeOK, OutputOK
  <1>2. PICK frames \in Seq(Frame) :
          /\ Send(frames) /\ UNCHANGED bridgeProbe
          /\ \A d \in Devices : pingStates'[d] \in {NoPing, pingStates[d]}
          /\ \A d \in Devices : Tracked(d, recovery'[d], frames)
    BY MessageResult DEF QueuesBacked
  <1>3. /\ Enqueued(frames)
        /\ \A d \in Devices :
             /\ Len(frames) \in 0 .. 2
             /\ \A i \in DOMAIN frames : frames[i] \in SnapshotRequests(d)
             => Len(frames) <= Backlog(d)'
    BY <1>1, <1>2, SendEnqueues DEF QueuesBacked
  <1>4. PingsBacked'
    BY <1>2, <1>3 DEF QueuesBacked, PingsBacked, Enqueued, NoPing, Ping, Frame
  <1>5. ProbeBacked'
    BY <1>2, <1>3 DEF QueuesBacked, ProbeBacked, Enqueued, Probe, Frame
  <1>6. ASSUME NEW d \in Devices PROVE recovery'[d].queued <= Backlog(d)'
    <2>1. recovery[d].queued \in 0 .. 2 /\ recovery'[d].queued \in 0 .. 2
      BY <1>1 DEF HealthTypeOK, Recovery
    <2>2. Backlog(d) \in Nat /\ Backlog(d)' \in Nat
      BY <1>1, BacklogIsNat
    <2>3. Tracked(d, recovery'[d], frames) /\ recovery[d].queued <= Backlog(d)
      BY <1>2 DEF QueuesBacked, RecoveryBacked
    <2> QED BY <1>3, <2>1, <2>2, <2>3 DEF Tracked, Enqueued
  <1> QED BY <1>3, <1>4, <1>5, <1>6 DEF QueuesBacked, RecoveryBacked, Enqueued

\* A bulk result whose pings and probe are marked, and nothing else, keeps them backed.
LEMMA BulkKeepsBacked ==
    ASSUME QueuesBacked, TypedAndConsistent', NEW F \in SUBSET Frame, NEW frames \in Bursts(F),
           SendStaggered(frames), UNCHANGED recovery,
           \A d \in Devices : pingStates'[d].status = "queued" =>
             Ping(d) \in F \/ pingStates[d].status = "queued",
           bridgeProbe'.status = "queued" => Probe \in F \/ bridgeProbe.status = "queued"
    PROVE  QueuesBacked'
  <1>1. HealthTypeOK /\ HealthTypeOK' /\ OutputOK /\ frames \in Seq(Frame) /\ FramesOf(frames) = F
    BY BurstsAreSequences DEF QueuesBacked, TypedAndConsistent, HealthTypeOK, OutputOK, Bursts
  <1>2. Enqueued(frames)
    BY <1>1, StaggeredEnqueues DEF QueuesBacked
  <1>3. PingsBacked'
    BY <1>1, <1>2 DEF QueuesBacked, PingsBacked, Enqueued, Ping, Frame
  <1>4. ProbeBacked'
    BY <1>1, <1>2 DEF QueuesBacked, ProbeBacked, Enqueued, Probe, Frame
  <1>5. ASSUME NEW d \in Devices PROVE recovery'[d].queued <= Backlog(d)'
    <2>1. recovery[d].queued \in 0 .. 2 /\ recovery'[d] = recovery[d]
      BY <1>1 DEF HealthTypeOK, Recovery
    <2>2. Backlog(d) \in Nat /\ Backlog(d)' \in Nat
      BY <1>1, BacklogIsNat
    <2>3. recovery[d].queued <= Backlog(d) /\ Backlog(d) <= Backlog(d)'
      BY <1>2 DEF QueuesBacked, RecoveryBacked, Enqueued
    <2> QED BY <2>1, <2>2, <2>3
  <1> QED BY <1>2, <1>3, <1>4, <1>5 DEF QueuesBacked, RecoveryBacked, Enqueued

\* The watchdog cycle marks what it sends.
LEMMA WatchdogKeepsBacked ==
    ASSUME QueuesBacked, TypedAndConsistent', RunWatchdogCheck
    PROVE  QueuesBacked'
  <1> DEFINE pings == {Ping(d) : d \in {x \in configured : NeedsPing(x)}}
             probes == IF ShouldProbeBridge(bridgeProbe) /\ \E d \in configured : WantsProbe(d)
                       THEN {Probe} ELSE {}
             checked == [d \in Devices |-> IF d \in configured /\ ~BridgeOnly(d)
                                           THEN Checkup(d).ping ELSE pingStates[d]]
  <1>1. /\ HealthTypeOK /\ configured \subseteq Devices
        /\ \A d \in Devices : pingStates[d] \in PingState /\ registry[d] \in DeviceState
    BY HealthAssumption DEF QueuesBacked, TypedAndConsistent, HealthTypeOK
  <1>2. PICK frames \in Bursts(pings \cup probes) :
          pingStates' = MarkStaggered(frames, checked) /\ SendStaggered(frames)
    BY DEF RunWatchdogCheck
  <1>3. UNCHANGED recovery /\ bridgeProbe' = IF probes # {} THEN Queued ELSE bridgeProbe
    BY DEF RunWatchdogCheck
  <1>4. ASSUME NEW d \in Devices, d \in configured, ~BridgeOnly(d), Checkup(d).ping.status = "queued"
        PROVE  Ping(d) \in pings \/ pingStates[d].status = "queued"
    <2>1. \/ Checkup(d).status \in {"needs_ping", "stale"}
          \/ Checkup(d).ping = pingStates[d]
      BY <1>1, <1>4 DEF Checkup, CheckDeviceHealth, Answer, PingState, NoPing
    <2> QED BY <1>4, <2>1 DEF NeedsPing
  <1>5. pings \cup probes \in SUBSET Frame
    BY <1>1 DEF Ping, Probe, Frame
  <1>6. FramesOf(frames) = pings \cup probes
    BY <1>2 DEF Bursts
  <1>7. probes # {} => Probe \in probes
    OBVIOUS
  <1>8. \A d \in Devices : checked[d].status = "queued" =>
          Ping(d) \in pings \/ pingStates[d].status = "queued"
    BY <1>4
  <1> HIDE DEF pings, probes, checked
  <1>9. ASSUME NEW d \in Devices, pingStates'[d].status = "queued"
        PROVE  Ping(d) \in pings \cup probes \/ pingStates[d].status = "queued"
    BY <1>2, <1>6, <1>8, <1>9 DEF MarkStaggered
  <1>10. bridgeProbe'.status = "queued" => Probe \in pings \cup probes \/ bridgeProbe.status = "queued"
    BY <1>3, <1>7
  <1> QED BY <1>2, <1>3, <1>5, <1>9, <1>10, BulkKeepsBacked

\* So does verification.
LEMMA VerificationKeepsBacked ==
    ASSUME QueuesBacked, TypedAndConsistent', VerifyInitialDeviceStates
    PROVE  QueuesBacked'
  <1> DEFINE pings == {Ping(d) : d \in {x \in configured : RecoveryPath(registry[x]) = "offline"}}
             requests == UNION {FramesOf(MissingFrames(d, registry[d])) :
                                  d \in {x \in configured :
                                           RecoveryPath(registry[x]) = "controller_reachable"}}
  <1>1. HealthTypeOK /\ configured \subseteq Devices
    BY HealthAssumption DEF QueuesBacked, TypedAndConsistent, HealthTypeOK
  <1>2. PICK frames \in Bursts(pings \cup requests) :
          pingStates' = MarkStaggered(frames, pingStates) /\ SendStaggered(frames)
    BY DEF VerifyInitialDeviceStates
  <1>3. UNCHANGED <<recovery, bridgeProbe>>
    BY DEF VerifyInitialDeviceStates
  <1>4. pings \cup requests \in SUBSET Frame
    <2>1. \A d \in Devices : Ping(d) \in Frame /\ RequestDetails(d) \in Frame /\ RequestState(d) \in Frame
      BY DEF Ping, RequestDetails, RequestState, Frame
    <2>2. \A d \in configured : FramesOf(MissingFrames(d, registry[d])) \subseteq Frame
      BY <1>1, <2>1 DEF FramesOf, MissingFrames
    <2> QED BY <1>1, <2>1, <2>2
  <1>5. FramesOf(frames) = pings \cup requests
    BY <1>2 DEF Bursts
  <1> HIDE DEF pings, requests
  <1>6. \A d \in Devices : pingStates'[d].status = "queued" =>
          Ping(d) \in pings \cup requests \/ pingStates[d].status = "queued"
    BY <1>2, <1>5 DEF MarkStaggered
  <1> QED BY <1>2, <1>3, <1>4, <1>6, BulkKeepsBacked

\* Only what was in the head of the queue stops waiting when it leaves.
LEMMA TakingTheHead ==
    ASSUME OutputOK, sendQueue # <<>>, sendQueue' = Tail(sendQueue), UNCHANGED lowPriority
    PROVE  /\ \A f \in Frame : Waiting(f) /\ f \notin FramesOf(Head(sendQueue).frames) => Waiting(f)'
           /\ \A d : Backlog(d) <= SnapshotFrames(Head(sendQueue).frames, d) + Backlog(d)'
  <1>1. /\ sendQueue \in Seq(Operation) /\ Tail(sendQueue) \in Seq(Operation)
        /\ Head(sendQueue).frames \in Seq(Frame) /\ lowPriority \in Seq(Frame)
    BY HeadIsTyped DEF OutputOK
  <1>2. \A i \in DOMAIN sendQueue :
          \/ i = 1 /\ sendQueue[i] = Head(sendQueue)
          \/ i - 1 \in DOMAIN sendQueue' /\ sendQueue'[i - 1] = sendQueue[i]
    BY <1>1
  <1>3. ASSUME NEW f \in Frame, Waiting(f), f \notin FramesOf(Head(sendQueue).frames)
        PROVE  Waiting(f)'
    BY <1>2, <1>3 DEF Waiting
  <1>4. ASSUME NEW d
        PROVE  Backlog(d) <= SnapshotFrames(Head(sendQueue).frames, d) + Backlog(d)'
    <2>1. Cardinality(RequestsIn(sendQueue, d))
            <= SnapshotFrames(Head(sendQueue).frames, d) + Cardinality(RequestsIn(Tail(sendQueue), d))
      BY <1>1, HeadCounts
    <2>2. /\ SnapshotFrames(Head(sendQueue).frames, d) \in Nat /\ SnapshotFrames(lowPriority, d) \in Nat
          /\ Cardinality(RequestsIn(sendQueue, d)) \in Nat
          /\ Cardinality(RequestsIn(Tail(sendQueue), d)) \in Nat
      BY <1>1, RequestsAreFinite
    <2>3. Backlog(d)' = SnapshotFrames(lowPriority, d) + Cardinality(RequestsIn(Tail(sendQueue), d))
      BY DEF Backlog, SnapshotFrames, RequestsIn
    <2> QED BY <2>1, <2>2, <2>3 DEF Backlog
  <1> QED BY <1>3, <1>4

\* A frame that leaves takes its mark with it.
LEMMA DispatchKeepsBacked ==
    ASSUME QueuesBacked, TypedAndConsistent', Dispatch
    PROVE  QueuesBacked'
  <1> DEFINE head == Head(sendQueue)
             frames == head.frames
  <1>1. HealthTypeOK /\ HealthTypeOK' /\ OutputOK /\ frames \in Seq(Frame)
    BY HeadIsTyped DEF QueuesBacked, TypedAndConsistent, HealthTypeOK, OutputOK, Dispatch
  <1>2. /\ \A f \in Frame : Waiting(f) /\ f \notin FramesOf(frames) => Waiting(f)'
        /\ \A d : Backlog(d) <= SnapshotFrames(frames, d) + Backlog(d)'
    BY <1>1, TakingTheHead DEF Dispatch
  <1>3. /\ pingStates' = [d \in Devices |-> IF Ping(d) \in FramesOf(frames) THEN Sent ELSE pingStates[d]]
        /\ bridgeProbe' = IF Probe \in FramesOf(frames) THEN Sent ELSE bridgeProbe
        /\ recovery' = [d \in Devices |-> AfterDispatch(recovery[d], SnapshotFrames(frames, d))]
    BY DEF Dispatch
  <1>4. DrainRuns'
    <2>1. CASE head.drain
      BY <2>1 DEF Dispatch, DrainRuns, DrainActive
    <2>2. CASE ~head.drain
      <3>1. /\ drainAsleep' = drainAsleep /\ lowPriority' = lowPriority
            /\ sendQueue' = Tail(sendQueue) /\ sendQueue # <<>>
        BY <2>2 DEF Dispatch
      <3>2. \A i \in DOMAIN sendQueue :
              sendQueue[i].drain => i - 1 \in DOMAIN sendQueue' /\ sendQueue'[i - 1] = sendQueue[i]
        BY <1>1, <2>2, <3>1 DEF OutputOK
      <3> QED BY <3>1, <3>2 DEF QueuesBacked, DrainRuns, DrainActive
    <2> QED BY <2>1, <2>2
  <1> HIDE DEF head, frames
  <1>5. PingsBacked'
    BY <1>2, <1>3 DEF QueuesBacked, PingsBacked, Sent, Ping, Frame
  <1>6. ProbeBacked'
    BY <1>2, <1>3 DEF QueuesBacked, ProbeBacked, Sent, Probe, Frame
  <1>7. ASSUME NEW d \in Devices PROVE recovery'[d].queued <= Backlog(d)'
    <2>1. recovery[d].queued \in 0 .. 2 /\ recovery[d] \in Recovery
      BY <1>1 DEF HealthTypeOK, Recovery
    <2>2. Backlog(d) \in Nat /\ Backlog(d)' \in Nat /\ SnapshotFrames(frames, d) \in Nat
      BY <1>1, BacklogIsNat, SnapshotFramesIsNat
    <2>3. recovery[d].queued <= Backlog(d)
      BY DEF QueuesBacked, RecoveryBacked
    <2>4. recovery'[d] = AfterDispatch(recovery[d], SnapshotFrames(frames, d))
      BY <1>3
    <2> QED BY <1>2, <2>1, <2>2, <2>3, <2>4 DEF AfterDispatch, Recovery
  <1> QED BY <1>4, <1>5, <1>6, <1>7 DEF QueuesBacked, RecoveryBacked

\* Frames that are dropped have their marks undone.
LEMMA CancelledMarks ==
    ASSUME HealthTypeOK, NEW frames \in Seq(Frame), NEW d \in Devices
    PROVE  /\ PingsWithout(frames)[d].status = "queued" =>
                Ping(d) \notin FramesOf(frames) /\ pingStates[d].status = "queued"
           /\ ProbeWithout(frames).status = "queued" =>
                Probe \notin FramesOf(frames) /\ bridgeProbe.status = "queued"
           /\ \/ RecoveryWithout(frames)[d].queued = 0
              \/ /\ RecoveryWithout(frames)[d].queued = recovery[d].queued
                 /\ SnapshotFrames(frames, d) = 0
  <1>1. PingsWithout(frames)[d].status = "queued" =>
          Ping(d) \notin FramesOf(frames) /\ pingStates[d].status = "queued"
    BY DEF PingsWithout, CancelQueued, NoPing
  <1>2. ProbeWithout(frames).status = "queued" =>
          Probe \notin FramesOf(frames) /\ bridgeProbe.status = "queued"
    BY DEF ProbeWithout, CancelQueued, NoPing
  <1>3. CASE FramesOf(frames) \cap SnapshotRequests(d) # {}
    BY <1>1, <1>2, <1>3 DEF RecoveryWithout, NoTracking
  <1>4. CASE FramesOf(frames) \cap SnapshotRequests(d) = {}
    <2>1. RequestsOf(frames, d) = {}
      BY <1>4 DEF RequestsOf, FramesOf
    <2>2. SnapshotFrames(frames, d) = 0
      BY <2>1, FS_EmptySet DEF SnapshotFrames, RequestsOf
    <2> QED BY <1>1, <1>2, <1>4, <2>2 DEF RecoveryWithout
  <1> QED BY <1>3, <1>4

\* An operation of an older generation undoes the marks of its frames.
LEMMA DispatchStaleKeepsBacked ==
    ASSUME QueuesBacked, TypedAndConsistent', DispatchStale
    PROVE  QueuesBacked'
  <1> DEFINE frames == Head(sendQueue).frames
  <1>1. HealthTypeOK /\ HealthTypeOK' /\ OutputOK /\ frames \in Seq(Frame)
    BY HeadIsTyped DEF QueuesBacked, TypedAndConsistent, HealthTypeOK, OutputOK, DispatchStale
  <1>2. /\ \A f \in Frame : Waiting(f) /\ f \notin FramesOf(frames) => Waiting(f)'
        /\ \A d : Backlog(d) <= SnapshotFrames(frames, d) + Backlog(d)'
    BY <1>1, TakingTheHead DEF DispatchStale
  <1>3. /\ pingStates' = PingsWithout(frames) /\ bridgeProbe' = ProbeWithout(frames)
        /\ recovery' = RecoveryWithout(frames)
    BY DEF DispatchStale
  <1>4. DrainRuns'
    BY DEF DispatchStale, DrainRuns, DrainActive
  <1> HIDE DEF frames
  <1>5. PingsBacked'
    BY <1>1, <1>2, <1>3, CancelledMarks DEF QueuesBacked, PingsBacked, Ping, Frame
  <1>6. ASSUME bridgeProbe'.status = "queued" PROVE Waiting(Probe)'
    <2>1. Probe \notin FramesOf(frames) /\ bridgeProbe.status = "queued"
      BY <1>3, <1>6 DEF ProbeWithout, CancelQueued, NoPing
    <2> QED BY <1>2, <2>1 DEF QueuesBacked, ProbeBacked, Probe, Frame
  <1>7. ASSUME NEW d \in Devices PROVE recovery'[d].queued <= Backlog(d)'
    <2>1. recovery[d].queued \in 0 .. 2
      BY <1>1 DEF HealthTypeOK, Recovery
    <2>2. Backlog(d) \in Nat /\ Backlog(d)' \in Nat /\ SnapshotFrames(frames, d) \in Nat
      BY <1>1, BacklogIsNat, SnapshotFramesIsNat
    <2>3. recovery[d].queued <= Backlog(d)
      BY DEF QueuesBacked, RecoveryBacked
    <2>4. \/ recovery'[d].queued = 0
          \/ recovery'[d].queued = recovery[d].queued /\ SnapshotFrames(frames, d) = 0
      BY <1>1, <1>3, CancelledMarks
    <2> QED BY <1>2, <2>1, <2>2, <2>3, <2>4
  <1> QED BY <1>4, <1>5, <1>6, <1>7 DEF QueuesBacked, ProbeBacked, RecoveryBacked

\* A frame the drain takes up goes on waiting, in the send queue.
LEMMA WakeKeepsBacked ==
    ASSUME QueuesBacked, TypedAndConsistent', WakeDrain
    PROVE  QueuesBacked'
  <1>1. /\ HealthTypeOK /\ HealthTypeOK' /\ sendQueue = <<>>
        /\ UNCHANGED <<pingStates, bridgeProbe, recovery>>
    BY DEF QueuesBacked, TypedAndConsistent, WakeDrain
  <1>2. CASE lowPriority = <<>>
    <2>1. UNCHANGED <<sendQueue, lowPriority>>
      BY <1>2 DEF WakeDrain
    <2> QED BY <1>1, <1>2, <2>1
            DEF QueuesBacked, DrainRuns, PingsBacked, ProbeBacked, RecoveryBacked, Waiting, Backlog,
                SnapshotFrames, RequestsIn
  <1>3. CASE lowPriority # <<>>
    <2>1. sendQueue' = <<DrainOne(Head(lowPriority))>> /\ lowPriority' = Tail(lowPriority)
      BY <1>3 DEF WakeDrain
    <2>2. lowPriority \in Seq(Frame) /\ Head(lowPriority) = lowPriority[1]
      BY <1>1, <1>3 DEF HealthTypeOK
    <2>3. /\ DOMAIN sendQueue' = {1} /\ sendQueue'[1].drain
          /\ sendQueue'[1].frames = <<lowPriority[1]>>
      BY <2>1, <2>2 DEF DrainOne
    <2>4. ASSUME NEW f \in Frame, Waiting(f) PROVE Waiting(f)'
      <3>1. PICK i \in DOMAIN lowPriority : f = lowPriority[i]
        BY <1>1, <2>4 DEF Waiting, FramesOf
      <3>2. CASE i = 1
        <4>1. f \in FramesOf(sendQueue'[1].frames)
          BY <2>3, <3>1, <3>2 DEF FramesOf
        <4> QED BY <2>3, <4>1 DEF Waiting
      <3>3. CASE i # 1
        <4>1. i - 1 \in DOMAIN lowPriority' /\ lowPriority'[i - 1] = f
          BY <1>3, <2>1, <2>2, <3>1, <3>3
        <4> QED BY <4>1 DEF Waiting, FramesOf
      <3> QED BY <3>2, <3>3
    <2>5. ASSUME NEW d \in Devices PROVE Backlog(d) <= Backlog(d)'
      <3>1. SnapshotFrames(lowPriority, d)
              <= SnapshotFrames(Tail(lowPriority), d)
                 + Cardinality(RequestsIn(<<DrainOne(Head(lowPriority))>>, d))
        BY <1>3, <2>2, WakeCounts
      <3>2. Backlog(d)' = SnapshotFrames(Tail(lowPriority), d)
                          + Cardinality(RequestsIn(<<DrainOne(Head(lowPriority))>>, d))
        BY <2>1 DEF Backlog, SnapshotFrames, RequestsIn
      <3>3. Cardinality(RequestsIn(sendQueue, d)) = 0
        <4>1. RequestsIn(sendQueue, d) = {}
          BY <1>1 DEF RequestsIn
        <4> QED BY <4>1, FS_EmptySet
      <3>4. SnapshotFrames(lowPriority, d) \in Nat
        BY <2>2, SnapshotFramesIsNat
      <3> QED BY <3>1, <3>2, <3>3, <3>4 DEF Backlog
    <2>6. DrainRuns'
      BY <2>3 DEF DrainRuns, DrainActive
    <2>7. PingsBacked' /\ ProbeBacked'
      BY <1>1, <2>4 DEF QueuesBacked, PingsBacked, ProbeBacked, Ping, Probe, Frame
    <2>8. ASSUME NEW d \in Devices PROVE recovery'[d].queued <= Backlog(d)'
      <3>1. recovery[d].queued \in 0 .. 2 /\ recovery'[d] = recovery[d]
        BY <1>1 DEF HealthTypeOK, Recovery
      <3>2. Backlog(d) \in Nat /\ Backlog(d)' \in Nat
        BY <1>1, BacklogIsNat
      <3>3. recovery[d].queued <= Backlog(d)
        BY DEF QueuesBacked, RecoveryBacked
      <3> QED BY <2>5, <3>1, <3>2, <3>3
    <2> QED BY <2>6, <2>7, <2>8 DEF QueuesBacked, RecoveryBacked
  <1> QED BY <1>2, <1>3

\* Invalidating the drain loses the pending frames and no frame of the send queue.
LEMMA InvalidationKeepsBacked ==
    ASSUME QueuesBacked, TypedAndConsistent', InvalidateLowPriorityDrain,
           bridgeProbe' = ProbeWithout(lowPriority),
           \A d \in Devices : pingStates'[d] \in {NoPing, PingsWithout(lowPriority)[d]},
           \A d \in Devices : recovery'[d] \in {NoTracking, RecoveryWithout(lowPriority)[d]}
    PROVE  QueuesBacked'
  <1>1. /\ HealthTypeOK /\ HealthTypeOK' /\ lowPriority \in Seq(Frame)
        /\ sendQueue \in Seq(Operation) /\ sendQueue' \in Seq(Operation)
    BY DEF QueuesBacked, TypedAndConsistent, HealthTypeOK
  <1>2. /\ lowPriority' = <<>>
        /\ \A i \in DOMAIN sendQueue : i \in DOMAIN sendQueue' /\ sendQueue'[i].frames = sendQueue[i].frames
    <2>1. ASSUME NEW i \in DOMAIN sendQueue
          PROVE  i \in DOMAIN sendQueue' /\ sendQueue'[i].frames = sendQueue[i].frames
      <3>1. sendQueue[i] \in Operation
        BY <1>1, <2>1
      <3>2. i \in DOMAIN sendQueue' /\ sendQueue'[i] = [sendQueue[i] EXCEPT !.current = ~sendQueue[i].drain]
        BY DEF InvalidateLowPriorityDrain
      <3> QED BY <3>1, <3>2 DEF Operation
    <2> QED BY <2>1 DEF InvalidateLowPriorityDrain
  <1>3. \A f \in Frame : Waiting(f) /\ f \notin FramesOf(lowPriority) => Waiting(f)'
    BY <1>2 DEF Waiting
  <1>4. ASSUME NEW d PROVE Backlog(d) <= SnapshotFrames(lowPriority, d) + Backlog(d)'
    <2>1. Cardinality(RequestsIn(sendQueue, d)) <= Cardinality(RequestsIn(sendQueue', d))
      BY <1>1, <1>2, RequestsGrow
    <2>2. /\ Cardinality(RequestsIn(sendQueue, d)) \in Nat
          /\ Cardinality(RequestsIn(sendQueue', d)) \in Nat
          /\ SnapshotFrames(lowPriority, d) \in Nat /\ SnapshotFrames(lowPriority', d) \in Nat
      <3>1. lowPriority' \in Seq(Frame)
        BY <1>2
      <3> QED BY <1>1, <3>1, RequestsAreFinite
    <2>3. Backlog(d)' = SnapshotFrames(lowPriority', d) + Cardinality(RequestsIn(sendQueue', d))
      BY DEF Backlog, SnapshotFrames, RequestsIn
    <2> QED BY <2>1, <2>2, <2>3 DEF Backlog
  <1>5. DrainRuns'
    BY <1>2 DEF DrainRuns
  <1>6. ASSUME NEW d \in Devices, pingStates'[d].status = "queued" PROVE Waiting(Ping(d))'
    <2>1. Ping(d) \notin FramesOf(lowPriority) /\ pingStates[d].status = "queued"
      BY <1>1, <1>6, CancelledMarks DEF NoPing
    <2> QED BY <1>3, <2>1 DEF QueuesBacked, PingsBacked, Ping, Frame
  <1>7. ASSUME bridgeProbe'.status = "queued" PROVE Waiting(Probe)'
    <2>1. Probe \notin FramesOf(lowPriority) /\ bridgeProbe.status = "queued"
      BY <1>7 DEF ProbeWithout, CancelQueued, NoPing
    <2> QED BY <1>3, <2>1 DEF QueuesBacked, ProbeBacked, Probe, Frame
  <1>8. ASSUME NEW d \in Devices PROVE recovery'[d].queued <= Backlog(d)'
    <2>1. recovery[d].queued \in 0 .. 2
      BY <1>1 DEF HealthTypeOK, Recovery
    <2>2. Backlog(d) \in Nat /\ Backlog(d)' \in Nat
      BY <1>1, BacklogIsNat
    <2>3. recovery[d].queued <= Backlog(d)
      BY DEF QueuesBacked, RecoveryBacked
    <2>4. \/ recovery'[d].queued = 0
          \/ recovery'[d].queued = recovery[d].queued /\ SnapshotFrames(lowPriority, d) = 0
      BY <1>1, CancelledMarks DEF NoTracking
    <2> QED BY <1>4, <2>1, <2>2, <2>3, <2>4
  <1> QED BY <1>5, <1>6, <1>7, <1>8 DEF QueuesBacked, PingsBacked, ProbeBacked, RecoveryBacked

\* So an update keeps the latches backed, accepted or refused.
LEMMA ConfigUpdateKeepsBacked ==
    ASSUME QueuesBacked, TypedAndConsistent',
           (\E next \in Configs : UpdateSystemConfig(next)) \/ RefuseSystemConfig
    PROVE  QueuesBacked'
  <1>1. /\ InvalidateLowPriorityDrain
        /\ bridgeProbe' = ProbeWithout(lowPriority)
    BY DEF UpdateSystemConfig, RefuseSystemConfig
  <1>2. /\ \A d \in Devices : pingStates'[d] \in {NoPing, PingsWithout(lowPriority)[d]}
        /\ \A d \in Devices : recovery'[d] \in {NoTracking, RecoveryWithout(lowPriority)[d]}
    BY DEF UpdateSystemConfig, RefuseSystemConfig
  <1> QED BY <1>1, <1>2, InvalidationKeepsBacked

\* Time moves no frame and queues nothing.
LEMMA TimeKeepsBacked ==
    ASSUME QueuesBacked, TypedAndConsistent', Tick
    PROVE  QueuesBacked'
  <1>1. HealthTypeOK /\ UNCHANGED <<sendQueue, lowPriority, drainAsleep>>
    BY DEF QueuesBacked, TypedAndConsistent, Tick, output
  <1>2. \A ping \in PingState : Waited(ping).status = ping.status
    BY DEF Waited, PingState
  <1>3. /\ \A d \in Devices : pingStates'[d].status = pingStates[d].status
        /\ bridgeProbe'.status = bridgeProbe.status
    BY <1>1, <1>2 DEF Tick, HealthTypeOK
  <1>4. \A d \in Devices : recovery'[d].queued = recovery[d].queued
    BY <1>1 DEF Tick, HealthTypeOK, Recovery
  <1>5. /\ \A f : Waiting(f)' <=> Waiting(f)
        /\ \A d : Backlog(d)' = Backlog(d)
        /\ DrainRuns' <=> DrainRuns
    BY <1>1 DEF Waiting, Backlog, SnapshotFrames, RequestsIn, DrainRuns, DrainActive
  <1> QED BY <1>3, <1>4, <1>5 DEF QueuesBacked, PingsBacked, ProbeBacked, RecoveryBacked

\* With the types, the latches form an inductive invariant.
LEMMA QueuesStayBacked == Spec => []QueuesBacked
  <1>1. Init => DrainRuns /\ PingsBacked /\ ProbeBacked /\ RecoveryBacked
    <2> SUFFICES ASSUME Init PROVE DrainRuns /\ PingsBacked /\ ProbeBacked /\ RecoveryBacked
      OBVIOUS
    <2>1. DrainRuns /\ PingsBacked /\ ProbeBacked
      BY DEF Init, DrainRuns, PingsBacked, ProbeBacked, NoPing
    <2>2. ASSUME NEW d \in Devices PROVE recovery[d].queued <= Backlog(d)
      <3>1. recovery[d].queued = 0 /\ sendQueue = <<>> /\ lowPriority = <<>>
        BY DEF Init, NoTracking
      <3>2. sendQueue \in Seq(Operation) /\ lowPriority \in Seq(Frame)
        BY <3>1
      <3>3. Backlog(d) \in Nat
        BY <3>2, RequestsAreFinite DEF Backlog
      <3> QED BY <3>1, <3>3
    <2> QED BY <2>1, <2>2 DEF RecoveryBacked
  <1>2. /\ DrainRuns /\ PingsBacked /\ ProbeBacked /\ RecoveryBacked
        /\ TypedAndConsistent /\ TypedAndConsistent' /\ [Next]_vars
        => (DrainRuns /\ PingsBacked /\ ProbeBacked /\ RecoveryBacked)'
    <2> SUFFICES ASSUME QueuesBacked, TypedAndConsistent', [Next]_vars
                 PROVE  QueuesBacked'
      BY DEF QueuesBacked
    <2>1. CASE UNCHANGED vars
      BY <2>1 DEF vars, output, QueuesBacked, DrainRuns, DrainActive, PingsBacked, ProbeBacked,
                  RecoveryBacked, Waiting, Backlog, SnapshotFrames, RequestsIn
    <2>2. CASE Input
      BY <2>2, MessageKeepsBacked, ConfigUpdateKeepsBacked, VerificationKeepsBacked DEF Input
    <2>3. CASE RunWatchdogCheck \/ Tick
      BY <2>3, WatchdogKeepsBacked, TimeKeepsBacked
    <2>4. CASE Dispatch \/ DispatchStale \/ WakeDrain
      BY <2>4, DispatchKeepsBacked, DispatchStaleKeepsBacked, WakeKeepsBacked
    <2> QED BY <2>1, <2>2, <2>3, <2>4 DEF Next
  <1>3. DrainRuns /\ PingsBacked /\ ProbeBacked /\ RecoveryBacked /\ TypedAndConsistent
          => QueuesBacked
    BY DEF QueuesBacked
  <1> QED BY <1>1, <1>2, <1>3, InvariantIsInductive, PTL DEF Spec

\* No latch without its frame: whatever is recorded as queued is still to leave.
THEOREM LatchesAlwaysBacked == Spec => []LatchesBacked
  <1>1. QueuesBacked => LatchesBacked
    BY BackedParts DEF QueuesBacked
  <1> QED BY <1>1, QueuesStayBacked, PTL

-----------------------------------------------------------------------------
(* The drain *)

\* The drain's loop is in one place, and only its operations go stale.
SingleDrain ==
    /\ \A i \in DOMAIN sendQueue : sendQueue[i].drain \/ sendQueue[i].current
    /\ drainAsleep => \A i \in DOMAIN sendQueue : ~sendQueue[i].drain
    /\ \A i, j \in DOMAIN sendQueue : sendQueue[i].drain /\ sendQueue[j].drain => i = j

\* An immediate result is no operation of the drain.
LEMMA SendKeepsSingle ==
    ASSUME OutputOK, SingleDrain, NEW frames \in Seq(Frame), Send(frames)
    PROVE  SingleDrain'
  <1>1. CASE frames = <<>>
    BY <1>1 DEF Send, SingleDrain
  <1>2. CASE frames # <<>>
    <2> DEFINE op == Immediate(frames)
    <2>1. sendQueue' = Append(sendQueue, op) /\ UNCHANGED drainAsleep
      BY <1>2 DEF Send
    <2>2. op \in Operation /\ ~op.drain /\ op.current
      BY DEF Immediate, Operation
    <2> HIDE DEF op
    <2>3. \A i \in DOMAIN sendQueue' :
            \/ i \in DOMAIN sendQueue /\ sendQueue'[i] = sendQueue[i]
            \/ sendQueue'[i] = op
      BY <2>1, <2>2 DEF OutputOK
    <2> QED BY <2>1, <2>2, <2>3 DEF SingleDrain
  <1> QED BY <1>1, <1>2

\* A bulk result starts the drain only when its loop is nowhere.
LEMMA StaggeredKeepsSingle ==
    ASSUME OutputOK, SingleDrain, NEW frames \in Seq(Frame), SendStaggered(frames)
    PROVE  SingleDrain'
  <1>1. CASE Len(frames) <= 1
    BY <1>1, SendKeepsSingle DEF SendStaggered
  <1>2. CASE ~(Len(frames) <= 1) /\ DrainActive
    BY <1>2 DEF SendStaggered, SingleDrain
  <1>3. CASE ~(Len(frames) <= 1) /\ ~DrainActive
    <2> DEFINE op == DrainOne(Head(frames))
    <2>1. sendQueue' = Append(sendQueue, op) /\ UNCHANGED drainAsleep
      BY <1>3 DEF SendStaggered
    <2>2. ~drainAsleep /\ \A i \in DOMAIN sendQueue : ~sendQueue[i].drain
      BY <1>3 DEF DrainActive
    <2>3. Head(frames) \in Frame
      BY <1>3
    <2>4. op \in Operation /\ op.drain
      BY <2>3 DEF DrainOne, Operation
    <2> HIDE DEF op
    <2>5. \A i \in DOMAIN sendQueue' :
            \/ i \in DOMAIN sendQueue /\ sendQueue'[i] = sendQueue[i]
            \/ i = Len(sendQueue) + 1 /\ sendQueue'[i] = op
      BY <2>1, <2>4 DEF OutputOK
    <2> QED BY <2>1, <2>2, <2>4, <2>5 DEF SingleDrain
  <1> QED BY <1>1, <1>2, <1>3

\* The operation that leaves, current or stale, hands the loop to its pause.
LEMMA HeadKeepsSingle ==
    ASSUME OutputOK, SingleDrain, Dispatch \/ DispatchStale
    PROVE  SingleDrain'
  <1> DEFINE op == Head(sendQueue)
  <1>1. sendQueue \in Seq(Operation) /\ sendQueue # <<>> /\ sendQueue' = Tail(sendQueue)
    BY DEF OutputOK, Dispatch, DispatchStale
  <1>2. 1 \in DOMAIN sendQueue /\ op = sendQueue[1]
    BY <1>1
  <1>3. \A i \in DOMAIN sendQueue' :
          i + 1 \in DOMAIN sendQueue /\ i + 1 # 1 /\ sendQueue'[i] = sendQueue[i + 1]
    BY <1>1
  <1>4. DOMAIN sendQueue' \subseteq Nat
    BY <1>1
  <1>5. CASE op.drain
    <2>1. \A i \in DOMAIN sendQueue' : ~sendQueue'[i].drain
      BY <1>2, <1>3, <1>5 DEF SingleDrain
    <2> QED BY <1>3, <2>1 DEF SingleDrain
  <1>6. CASE ~op.drain
    <2>1. Dispatch
      BY <1>2, <1>6 DEF DispatchStale, SingleDrain
    <2>2. drainAsleep' = drainAsleep
      BY <1>6, <2>1 DEF Dispatch
    <2>3. \A i, j \in Nat : i + 1 = j + 1 => i = j
      OBVIOUS
    <2> HIDE DEF op
    <2> QED BY <1>3, <1>4, <2>2, <2>3 DEF SingleDrain
  <1> QED BY <1>5, <1>6

\* The loop goes from its pause into the send queue, or ends.
LEMMA WakeKeepsSingle ==
    ASSUME WakeDrain
    PROVE  SingleDrain'
  <1>1. drainAsleep' = FALSE
    BY DEF WakeDrain
  <1>2. CASE lowPriority = <<>>
    BY <1>1, <1>2 DEF WakeDrain, SingleDrain
  <1>3. CASE lowPriority # <<>>
    <2>1. sendQueue' = <<DrainOne(Head(lowPriority))>>
      BY <1>3 DEF WakeDrain
    <2> QED BY <1>1, <2>1 DEF SingleDrain, DrainOne
  <1> QED BY <1>2, <1>3

\* An invalidation makes the drain's operation stale and no other.
LEMMA InvalidationKeepsSingle ==
    ASSUME OutputOK, SingleDrain, InvalidateLowPriorityDrain
    PROVE  SingleDrain'
  <1>1. /\ DOMAIN sendQueue' = DOMAIN sendQueue
        /\ \A i \in DOMAIN sendQueue :
             sendQueue'[i] = [sendQueue[i] EXCEPT !.current = ~sendQueue[i].drain]
    BY DEF InvalidateLowPriorityDrain
  <1>2. \A i \in DOMAIN sendQueue : sendQueue[i] \in Operation
    BY DEF OutputOK
  <1>3. \A i \in DOMAIN sendQueue :
          (sendQueue'[i].drain <=> sendQueue[i].drain)
          /\ (sendQueue'[i].current <=> ~sendQueue[i].drain)
    BY <1>1, <1>2 DEF Operation
  <1>4. UNCHANGED drainAsleep
    BY DEF InvalidateLowPriorityDrain
  <1> QED BY <1>1, <1>3, <1>4 DEF SingleDrain

\* Every step keeps the loop in one place.
LEMMA SingleDrainNext ==
    ASSUME QueuesBacked, SingleDrain, [Next]_vars
    PROVE  SingleDrain'
  <1>1. TypedAndConsistent /\ HealthTypeOK /\ OutputOK /\ configured \subseteq Devices
    BY HealthAssumption DEF QueuesBacked, TypedAndConsistent, HealthTypeOK, OutputOK
  <1>2. CASE UNCHANGED vars \/ Tick
    BY <1>2 DEF vars, output, Tick, SingleDrain
  <1>3. ASSUME NEW e \in Devices, Message(e) PROVE SingleDrain'
    BY <1>1, <1>3, MessageResult, SendKeepsSingle
  <1>4. ASSUME NEW F \in SUBSET Frame, NEW frames \in Bursts(F), SendStaggered(frames)
        PROVE  SingleDrain'
    BY <1>1, <1>4, BurstsAreSequences, StaggeredKeepsSingle
  <1>5. CASE VerifyInitialDeviceStates
    <2>1. \A d \in Devices : Ping(d) \in Frame /\ FramesOf(MissingFrames(d, registry[d])) \subseteq Frame
      BY DEF Ping, RequestDetails, RequestState, Frame, FramesOf, MissingFrames
    <2> QED BY <1>1, <1>4, <1>5, <2>1 DEF VerifyInitialDeviceStates
  <1>6. CASE RunWatchdogCheck
    <2>1. Probe \in Frame /\ \A d \in Devices : Ping(d) \in Frame
      BY DEF Ping, Probe, Frame
    <2> QED BY <1>1, <1>4, <1>6, <2>1 DEF RunWatchdogCheck
  <1>7. CASE (\E next \in Configs : UpdateSystemConfig(next)) \/ RefuseSystemConfig
    BY <1>1, <1>7, InvalidationKeepsSingle DEF UpdateSystemConfig, RefuseSystemConfig
  <1>8. CASE Dispatch \/ DispatchStale
    BY <1>1, <1>8, HeadKeepsSingle
  <1>9. CASE WakeDrain
    BY <1>9, WakeKeepsSingle
  <1> QED BY <1>2, <1>3, <1>5, <1>6, <1>7, <1>8, <1>9 DEF Next, Input

\* Pending frames have a loop to take them, and one only, whatever bursts,
\* invalidations and frames of an older generation come in between
\* (lowPriorityDrainPromise and lowPriorityGeneration), for every set of
\* devices.
THEOREM OneDrainAtATime == Spec => []OneDrain
  <1>1. Init => SingleDrain
    BY DEF Init, SingleDrain
  <1>2. QueuesBacked /\ SingleDrain /\ [Next]_vars => SingleDrain'
    BY SingleDrainNext
  <1>3. QueuesBacked /\ SingleDrain => OneDrain
    BY DEF QueuesBacked, DrainRuns, SingleDrain, OneDrain
  <1> QED BY <1>1, <1>2, <1>3, QueuesStayBacked, PTL DEF Spec

-----------------------------------------------------------------------------
(***************************************************************************)
(* The bridge probe: at most one is waiting, and it only waits while it is *)
(* recorded as queued.  With the clock of the last one this spaces the     *)
(* probes.                                                                 *)
(***************************************************************************)


\* At most one operation or pending frame holds the probe.
ProbeAlone ==
    /\ \A i, j \in DOMAIN lowPriority : lowPriority[i] = Probe /\ lowPriority[j] = Probe => i = j
    /\ \A i, j \in DOMAIN sendQueue :
         Probe \in FramesOf(sendQueue[i].frames) /\ Probe \in FramesOf(sendQueue[j].frames) => i = j
    /\ \A i \in DOMAIN sendQueue :
         Probe \in FramesOf(sendQueue[i].frames) => Probe \notin FramesOf(lowPriority)

ProbeRecorded == Waiting(Probe) => bridgeProbe.status = "queued"

\* The bookkeeping of the probe against the time its last frame left.
ProbeClocked ==
    /\ bridgeProbe.status = "sent" => bridgeProbe.elapsed = lastProbe
    /\ bridgeProbe.status # "sent" => lastProbe >= PingTimeout

ProbesInv == ProbeAlone /\ ProbeRecorded /\ ProbeClocked

-----------------------------------------------------------------------------
(* Enqueueing *)

\* A frame nobody waits for yet is alone in the operation it is appended with.
LEMMA AppendKeepsAlone ==
    ASSUME OutputOK, ProbeAlone, NEW op \in Operation,
           Probe \in FramesOf(op.frames) => ~Waiting(Probe),
           sendQueue' = Append(sendQueue, op), UNCHANGED lowPriority
    PROVE  /\ ProbeAlone'
           /\ Waiting(Probe)' => Waiting(Probe) \/ Probe \in FramesOf(op.frames)
  <1>1. sendQueue \in Seq(Operation)
    BY DEF OutputOK
  <1>2. \A i \in DOMAIN sendQueue' :
          \/ i \in DOMAIN sendQueue /\ sendQueue'[i] = sendQueue[i]
          \/ i = Len(sendQueue) + 1 /\ sendQueue'[i] = op
    BY <1>1
  <1>3. CASE Probe \in FramesOf(op.frames)
    <2>1. /\ Probe \notin FramesOf(lowPriority)
          /\ \A i \in DOMAIN sendQueue : Probe \notin FramesOf(sendQueue[i].frames)
      BY <1>3 DEF Waiting
    <2>2. \A i \in DOMAIN sendQueue' :
            Probe \in FramesOf(sendQueue'[i].frames) => i = Len(sendQueue) + 1
      BY <1>2, <2>1
    <2> QED BY <1>3, <2>1, <2>2 DEF ProbeAlone
  <1>4. CASE Probe \notin FramesOf(op.frames)
    <2>1. \A i \in DOMAIN sendQueue' :
            Probe \in FramesOf(sendQueue'[i].frames) =>
              i \in DOMAIN sendQueue /\ sendQueue'[i] = sendQueue[i]
      BY <1>2, <1>4
    <2> QED BY <2>1 DEF ProbeAlone, Waiting
  <1> QED BY <1>3, <1>4

\* So it is with an immediate result.
LEMMA SendKeepsAlone ==
    ASSUME OutputOK, ProbeAlone, NEW frames \in Seq(Frame), Send(frames),
           Probe \in FramesOf(frames) => ~Waiting(Probe)
    PROVE  /\ ProbeAlone'
           /\ Waiting(Probe)' => Waiting(Probe) \/ Probe \in FramesOf(frames)
  <1>1. Immediate(frames) \in Operation /\ Immediate(frames).frames = frames
    BY DEF Immediate, Operation
  <1>2. CASE frames = <<>>
    BY <1>2 DEF Send, ProbeAlone, Waiting
  <1>3. CASE frames # <<>>
    BY <1>1, <1>3, AppendKeepsAlone DEF Send
  <1> QED BY <1>2, <1>3

\* And with a bulk result, which holds the probe at most once and first.
LEMMA StaggeredKeepsAlone ==
    ASSUME OutputOK, DrainRuns, ProbeAlone, NEW F \in SUBSET Frame, NEW frames \in Bursts(F),
           SendStaggered(frames), Probe \in F => ~Waiting(Probe)
    PROVE  /\ ProbeAlone'
           /\ Waiting(Probe)' => Waiting(Probe) \/ Probe \in F
  <1>1. /\ frames \in Seq(Frame) /\ FramesOf(frames) = F
        /\ lowPriority \in Seq(Frame) /\ sendQueue \in Seq(Operation)
    BY BurstsAreSequences DEF OutputOK, Bursts
  <1>2. \A i \in DOMAIN frames : frames[i] = Probe => i = 1
    <2>1. ASSUME NEW i \in DOMAIN frames, frames[i] = Probe, i # 1 PROVE FALSE
      <3>1. i \in Nat /\ 1 \in DOMAIN frames /\ 1 < i
        BY <1>1, <2>1
      <3>2. MayPrecede(frames[1], frames[i])
        BY <3>1 DEF Bursts
      <3> QED BY <2>1, <3>2 DEF MayPrecede, Probe
    <2> QED BY <2>1
  <1>3. CASE Len(frames) <= 1
    BY <1>1, <1>3, SendKeepsAlone DEF SendStaggered
  <1>4. CASE ~(Len(frames) <= 1) /\ DrainActive
    <2>1. lowPriority' = lowPriority \o frames /\ UNCHANGED sendQueue
      BY <1>4 DEF SendStaggered
    <2>2. \A i \in DOMAIN lowPriority' :
            \/ i \in DOMAIN lowPriority /\ lowPriority'[i] = lowPriority[i]
            \/ /\ i - Len(lowPriority) \in DOMAIN frames
               /\ lowPriority'[i] = frames[i - Len(lowPriority)]
      BY <1>1, <2>1
    <2>3. CASE Probe \in F
      <3>1. /\ Probe \notin FramesOf(lowPriority)
            /\ \A i \in DOMAIN sendQueue : Probe \notin FramesOf(sendQueue[i].frames)
        BY <2>3 DEF Waiting
      <3>2. \A i \in DOMAIN lowPriority' : lowPriority'[i] = Probe => i = Len(lowPriority) + 1
        <4>1. ASSUME NEW i \in DOMAIN lowPriority', lowPriority'[i] = Probe
              PROVE  i = Len(lowPriority) + 1
          <5>1. /\ i - Len(lowPriority) \in DOMAIN frames
                /\ frames[i - Len(lowPriority)] = Probe
            BY <2>2, <3>1, <4>1 DEF FramesOf
          <5>2. i - Len(lowPriority) = 1
            BY <1>2, <5>1
          <5>3. Len(lowPriority) \in Nat /\ i \in Nat
            BY <1>1, <2>1
          <5> QED BY <5>2, <5>3
        <4> QED BY <4>1
      <3> QED BY <2>1, <2>3, <3>1, <3>2 DEF ProbeAlone
    <2>4. CASE Probe \notin F
      <3>1. \A i \in DOMAIN lowPriority' : lowPriority'[i] = Probe =>
              i \in DOMAIN lowPriority /\ lowPriority'[i] = lowPriority[i]
        BY <1>1, <2>2, <2>4 DEF FramesOf
      <3>2. Probe \in FramesOf(lowPriority') => Probe \in FramesOf(lowPriority)
        BY <3>1 DEF FramesOf
      <3> QED BY <2>1, <3>1, <3>2 DEF ProbeAlone, Waiting
    <2> QED BY <2>3, <2>4
  <1>5. CASE ~(Len(frames) <= 1) /\ ~DrainActive
    <2> DEFINE op == DrainOne(Head(frames))
    <2>1. lowPriority' = Tail(frames) /\ sendQueue' = Append(sendQueue, op)
      BY <1>5 DEF SendStaggered
    <2>2. lowPriority = <<>>
      BY <1>5 DEF DrainRuns
    <2>3. /\ Head(frames) = frames[1] /\ Head(frames) \in Frame
          /\ \A i \in DOMAIN Tail(frames) :
               i + 1 \in DOMAIN frames /\ Tail(frames)[i] = frames[i + 1] /\ i + 1 # 1
      BY <1>1, <1>5
    <2>4. Probe \notin FramesOf(lowPriority')
      BY <1>2, <2>1, <2>3 DEF FramesOf
    <2>5. op \in Operation /\ FramesOf(op.frames) = {frames[1]} /\ frames[1] \in F
      <3>1. op.frames = <<frames[1]>> /\ op \in Operation
        BY <2>3 DEF DrainOne, Operation
      <3>2. 1 \in DOMAIN frames
        BY <1>1, <1>5
      <3> QED BY <1>1, <3>1, <3>2 DEF FramesOf
    <2> HIDE DEF op
    <2>6. \A i \in DOMAIN sendQueue' :
            \/ i \in DOMAIN sendQueue /\ sendQueue'[i] = sendQueue[i]
            \/ i = Len(sendQueue) + 1 /\ sendQueue'[i] = op
      BY <1>1, <2>1
    <2>7. CASE Probe \in F
      <3>1. \A i \in DOMAIN sendQueue : Probe \notin FramesOf(sendQueue[i].frames)
        BY <2>7 DEF Waiting
      <3>2. \A i \in DOMAIN sendQueue' :
              Probe \in FramesOf(sendQueue'[i].frames) => i = Len(sendQueue) + 1
        BY <2>6, <3>1
      <3> QED BY <2>4, <2>7, <3>2 DEF ProbeAlone, FramesOf
    <2>8. CASE Probe \notin F
      <3>1. \A i \in DOMAIN sendQueue' : Probe \in FramesOf(sendQueue'[i].frames) =>
              i \in DOMAIN sendQueue /\ sendQueue'[i] = sendQueue[i]
        BY <2>5, <2>6, <2>8
      <3> QED BY <2>4, <3>1 DEF ProbeAlone, Waiting, FramesOf
    <2> QED BY <2>7, <2>8
  <1> QED BY <1>3, <1>4, <1>5

-----------------------------------------------------------------------------
(* One lemma per kind of step *)

\* Messages neither probe nor touch what is known of the probe.
LEMMA MessageKeepsProbes ==
    ASSUME QueuesBacked, ProbesInv, NEW e \in Devices, Message(e)
    PROVE  ProbesInv'
  <1>1. OutputOK
    BY DEF QueuesBacked, TypedAndConsistent, HealthTypeOK, OutputOK
  <1>2. PICK frames \in Seq(Frame) :
          Send(frames) /\ UNCHANGED bridgeProbe /\ Probe \notin FramesOf(frames)
    BY MessageResult DEF QueuesBacked
  <1>3. ProbeAlone' /\ (Waiting(Probe)' => Waiting(Probe))
    BY <1>1, <1>2, SendKeepsAlone DEF ProbesInv
  <1>4. UNCHANGED lastProbe
    <2>1. \A d \in Devices : Heard(d) \/ Reported(d) \/ UNCHANGED history => UNCHANGED lastProbe
      BY DEF Heard, Reported, history
    <2>2. ASSUME NEW a \in Topologies, HandleLiveConf(e, a) \/ HandleRetainedConf(e, a)
          PROVE  UNCHANGED lastProbe
      BY <2>1, <2>2 DEF HandleLiveConf, HandleRetainedConf
    <2>3. ASSUME \/ HandleLiveState(e) \/ HandleRetainedState(e) \/ HandleClickEvent(e)
                 \/ HandlePingReply(e) \/ HandleRemoval(e)
          PROVE  UNCHANGED lastProbe
      BY <2>1, <2>3 DEF HandleLiveState, HandleRetainedState, HandleClickEvent, HandlePingReply,
                        HandleRemoval
    <2>4. ASSUME NEW c \in BOOLEAN, NEW s \in BOOLEAN, HandleBridgeReply(e, c, s)
          PROVE  UNCHANGED lastProbe
      BY <2>1, <2>4 DEF HandleBridgeReply
    <2>5. ASSUME NEW h \in HomieStates, HandleLiveHomieState(e, h) \/ HandleRetainedHomieState(e, h)
          PROVE  UNCHANGED lastProbe
      BY <2>1, <2>5 DEF HandleLiveHomieState, HandleRetainedHomieState
    <2> QED BY <2>2, <2>3, <2>4, <2>5 DEF Message, RetainedMessage
  <1> QED BY <1>2, <1>3, <1>4 DEF ProbesInv, ProbeRecorded, ProbeClocked

\* A cycle only probes when no probe is queued and the last one is old enough.
LEMMA WatchdogKeepsProbes ==
    ASSUME QueuesBacked, ProbesInv, RunWatchdogCheck
    PROVE  ProbesInv'
  <1> DEFINE pings == {Ping(d) : d \in {x \in configured : NeedsPing(x)}}
             probes == IF ShouldProbeBridge(bridgeProbe) /\ \E d \in configured : WantsProbe(d)
                       THEN {Probe} ELSE {}
  <1>1. HealthTypeOK /\ OutputOK /\ DrainRuns /\ configured \subseteq Devices
    BY HealthAssumption DEF QueuesBacked, TypedAndConsistent, HealthTypeOK, OutputOK
  <1>2. PICK frames \in Bursts(pings \cup probes) : SendStaggered(frames)
    BY DEF RunWatchdogCheck
  <1>3. UNCHANGED lastProbe /\ bridgeProbe' = IF probes # {} THEN Queued ELSE bridgeProbe
    BY DEF RunWatchdogCheck
  <1>4. pings \cup probes \in SUBSET Frame
    BY <1>1 DEF Ping, Probe, Frame
  <1>5. Probe \in pings \cup probes <=> probes # {}
    BY DEF Ping, Probe
  <1>6. probes # {} => ShouldProbeBridge(bridgeProbe)
    OBVIOUS
  <1> HIDE DEF pings, probes
  <1>7. Probe \in pings \cup probes => ~Waiting(Probe)
    BY <1>5, <1>6 DEF ShouldProbeBridge, ProbesInv, ProbeRecorded
  <1>8. ProbeAlone' /\ (Waiting(Probe)' => Waiting(Probe) \/ Probe \in pings \cup probes)
    BY <1>1, <1>2, <1>4, <1>7, StaggeredKeepsAlone DEF ProbesInv
  <1>9. ProbeRecorded'
    BY <1>3, <1>5, <1>8 DEF ProbesInv, ProbeRecorded, Queued
  <1>10. ProbeClocked'
    <2>1. CASE probes = {}
      BY <1>3, <2>1 DEF ProbesInv, ProbeClocked
    <2>2. CASE probes # {}
      <3>1. lastProbe >= PingTimeout
        BY <1>6, <2>2 DEF ShouldProbeBridge, ProbesInv, ProbeClocked
      <3> QED BY <1>3, <2>2, <3>1 DEF ProbeClocked, Queued
    <2> QED BY <2>1, <2>2
  <1> QED BY <1>8, <1>9, <1>10 DEF ProbesInv

\* Verification sends no probe.
LEMMA VerificationKeepsProbes ==
    ASSUME QueuesBacked, ProbesInv, VerifyInitialDeviceStates
    PROVE  ProbesInv'
  <1> DEFINE pings == {Ping(d) : d \in {x \in configured : RecoveryPath(registry[x]) = "offline"}}
             requests == UNION {FramesOf(MissingFrames(d, registry[d])) :
                                  d \in {x \in configured :
                                           RecoveryPath(registry[x]) = "controller_reachable"}}
  <1>1. HealthTypeOK /\ OutputOK /\ DrainRuns /\ configured \subseteq Devices
    BY HealthAssumption DEF QueuesBacked, TypedAndConsistent, HealthTypeOK, OutputOK
  <1>2. PICK frames \in Bursts(pings \cup requests) : SendStaggered(frames)
    BY DEF VerifyInitialDeviceStates
  <1>3. UNCHANGED <<bridgeProbe, lastProbe>>
    BY DEF VerifyInitialDeviceStates, history
  <1>4. pings \cup requests \in SUBSET Frame /\ Probe \notin pings \cup requests
    <2>1. \A d \in Devices : {Ping(d), RequestDetails(d), RequestState(d)} \subseteq Frame \ {Probe}
      BY DEF Ping, RequestDetails, RequestState, Frame, Probe
    <2>2. \A d \in configured : FramesOf(MissingFrames(d, registry[d])) \subseteq Frame \ {Probe}
      BY <1>1, <2>1 DEF FramesOf, MissingFrames
    <2> QED BY <1>1, <2>1, <2>2
  <1> HIDE DEF pings, requests
  <1>5. ProbeAlone' /\ (Waiting(Probe)' => Waiting(Probe))
    BY <1>1, <1>2, <1>4, StaggeredKeepsAlone DEF ProbesInv
  <1> QED BY <1>3, <1>5 DEF ProbesInv, ProbeRecorded, ProbeClocked

\* Taking the head of the queue leaves no second probe behind.
LEMMA HeadKeepsAlone ==
    ASSUME OutputOK, ProbeAlone, sendQueue # <<>>,
           sendQueue' = Tail(sendQueue), UNCHANGED lowPriority
    PROVE  /\ ProbeAlone'
           /\ Waiting(Probe)' => Waiting(Probe)
           /\ Probe \in FramesOf(Head(sendQueue).frames) => Waiting(Probe) /\ ~Waiting(Probe)'
  <1>1. sendQueue \in Seq(Operation) /\ 1 \in DOMAIN sendQueue /\ sendQueue[1] = Head(sendQueue)
    BY DEF OutputOK
  <1>2. \A i \in DOMAIN sendQueue' :
          i + 1 \in DOMAIN sendQueue /\ sendQueue'[i] = sendQueue[i + 1] /\ i + 1 # 1 /\ i \in Nat
    BY <1>1
  <1>3. ASSUME NEW i \in DOMAIN sendQueue', NEW j \in DOMAIN sendQueue',
               Probe \in FramesOf(sendQueue'[i].frames), Probe \in FramesOf(sendQueue'[j].frames)
        PROVE  i = j
    <2>1. i + 1 = j + 1
      BY <1>2, <1>3 DEF ProbeAlone
    <2> QED BY <1>2, <2>1
  <1>4. \A i \in DOMAIN sendQueue' :
          Probe \in FramesOf(sendQueue'[i].frames) => Probe \notin FramesOf(lowPriority')
    BY <1>2 DEF ProbeAlone
  <1>5. Waiting(Probe)' => Waiting(Probe)
    BY <1>2 DEF Waiting
  <1>6. ASSUME Probe \in FramesOf(Head(sendQueue).frames)
        PROVE  Waiting(Probe) /\ ~Waiting(Probe)'
    <2>1. Probe \notin FramesOf(lowPriority')
      BY <1>1, <1>6 DEF ProbeAlone
    <2>2. \A i \in DOMAIN sendQueue' : Probe \notin FramesOf(sendQueue'[i].frames)
      BY <1>1, <1>2, <1>6 DEF ProbeAlone
    <2> QED BY <1>1, <1>6, <2>1, <2>2 DEF Waiting
  <1> QED BY <1>3, <1>4, <1>5, <1>6 DEF ProbeAlone

\* A probe that leaves, or is dropped, is no longer queued, nor is any other.
LEMMA OutputKeepsProbes ==
    ASSUME QueuesBacked, ProbesInv, Dispatch \/ DispatchStale
    PROVE  ProbesInv'
  <1> DEFINE frames == Head(sendQueue).frames
  <1>1. /\ OutputOK /\ sendQueue # <<>> /\ sendQueue' = Tail(sendQueue) /\ UNCHANGED lowPriority
    BY DEF QueuesBacked, TypedAndConsistent, HealthTypeOK, OutputOK, Dispatch, DispatchStale
  <1>2. /\ ProbeAlone' /\ (Waiting(Probe)' => Waiting(Probe))
        /\ Probe \in FramesOf(frames) => Waiting(Probe) /\ ~Waiting(Probe)'
    BY <1>1, HeadKeepsAlone DEF ProbesInv
  <1>3. CASE Dispatch
    <2>1. /\ bridgeProbe' = IF Probe \in FramesOf(frames) THEN Sent ELSE bridgeProbe
          /\ lastProbe' = IF Probe \in FramesOf(frames) THEN 0 ELSE lastProbe
      BY <1>3 DEF Dispatch
    <2> HIDE DEF frames
    <2>2. ProbeRecorded' /\ ProbeClocked'
      BY <1>2, <2>1 DEF ProbesInv, ProbeRecorded, ProbeClocked, Sent
    <2> QED BY <1>2, <2>2 DEF ProbesInv
  <1>4. CASE DispatchStale
    <2>1. bridgeProbe' = ProbeWithout(frames) /\ UNCHANGED lastProbe
      BY <1>4 DEF DispatchStale, history
    <2> HIDE DEF frames
    <2>2. ProbeRecorded' /\ ProbeClocked'
      BY <1>2, <2>1
      DEF ProbesInv, ProbeRecorded, ProbeClocked, ProbeWithout, CancelQueued, NoPing
    <2> QED BY <1>2, <2>2 DEF ProbesInv
  <1> QED BY <1>3, <1>4

\* The probe moves from the pending frames to the send queue.
LEMMA WakeKeepsProbes ==
    ASSUME QueuesBacked, ProbesInv, WakeDrain
    PROVE  ProbesInv'
  <1>1. sendQueue = <<>> /\ lowPriority \in Seq(Frame) /\ UNCHANGED <<bridgeProbe, lastProbe>>
    BY DEF QueuesBacked, TypedAndConsistent, HealthTypeOK, WakeDrain, history
  <1>2. CASE lowPriority = <<>>
    BY <1>1, <1>2 DEF WakeDrain, ProbesInv, ProbeAlone, ProbeRecorded, ProbeClocked, Waiting
  <1>3. CASE lowPriority # <<>>
    <2>1. sendQueue' = <<DrainOne(Head(lowPriority))>> /\ lowPriority' = Tail(lowPriority)
      BY <1>3 DEF WakeDrain
    <2>2. /\ 1 \in DOMAIN lowPriority /\ lowPriority[1] = Head(lowPriority)
          /\ \A i \in DOMAIN lowPriority' :
               i + 1 \in DOMAIN lowPriority /\ lowPriority'[i] = lowPriority[i + 1]
               /\ i + 1 # 1 /\ i \in Nat
      BY <1>1, <1>3, <2>1
    <2>3. /\ DOMAIN sendQueue' = {1}
          /\ FramesOf(sendQueue'[1].frames) = {lowPriority[1]}
      BY <2>1, <2>2 DEF DrainOne, FramesOf
    <2>4. ASSUME NEW i \in DOMAIN lowPriority', NEW j \in DOMAIN lowPriority',
                 lowPriority'[i] = Probe, lowPriority'[j] = Probe
          PROVE  i = j
      <3>1. i + 1 = j + 1
        BY <2>2, <2>4 DEF ProbesInv, ProbeAlone
      <3> QED BY <2>2, <3>1
    <2>5. lowPriority[1] = Probe => Probe \notin FramesOf(lowPriority')
      BY <2>2 DEF ProbesInv, ProbeAlone, FramesOf
    <2>6. Waiting(Probe)' => Waiting(Probe)
      BY <2>2, <2>3 DEF Waiting, FramesOf
    <2> QED BY <1>1, <2>3, <2>4, <2>5, <2>6 DEF ProbesInv, ProbeAlone, ProbeRecorded, ProbeClocked
  <1> QED BY <1>2, <1>3

\* Invalidating the drain undoes the mark of a probe that is dropped.
LEMMA ConfigUpdateKeepsProbes ==
    ASSUME QueuesBacked, ProbesInv,
           (\E next \in Configs : UpdateSystemConfig(next)) \/ RefuseSystemConfig
    PROVE  ProbesInv'
  <1>1. /\ InvalidateLowPriorityDrain /\ bridgeProbe' = ProbeWithout(lowPriority)
        /\ UNCHANGED lastProbe
    BY DEF UpdateSystemConfig, RefuseSystemConfig, history
  <1>2. sendQueue \in Seq(Operation)
    BY DEF QueuesBacked, TypedAndConsistent, HealthTypeOK
  <1>3. /\ DOMAIN sendQueue' = DOMAIN sendQueue /\ lowPriority' = <<>>
        /\ \A i \in DOMAIN sendQueue : sendQueue'[i].frames = sendQueue[i].frames
    <2>1. \A op \in Operation : [op EXCEPT !.current = ~op.drain].frames = op.frames
      BY DEF Operation
    <2>2. \A i \in DOMAIN sendQueue : sendQueue[i] \in Operation
      BY <1>2
    <2>3. sendQueue' = [i \in DOMAIN sendQueue |-> [sendQueue[i] EXCEPT !.current = ~sendQueue[i].drain]]
      BY <1>1 DEF InvalidateLowPriorityDrain
    <2>4. \A i \in DOMAIN sendQueue :
            sendQueue'[i] = [sendQueue[i] EXCEPT !.current = ~sendQueue[i].drain]
      BY <2>3
    <2>5. DOMAIN sendQueue' = DOMAIN sendQueue
      BY <2>3
    <2> QED BY <1>1, <2>1, <2>2, <2>4, <2>5 DEF InvalidateLowPriorityDrain
  <1>4. FramesOf(lowPriority') = {}
    BY <1>3 DEF FramesOf
  <1>5. ProbeAlone'
    BY <1>3, <1>4 DEF ProbesInv, ProbeAlone
  <1>6. Waiting(Probe)' => Waiting(Probe) /\ Probe \notin FramesOf(lowPriority)
    BY <1>3, <1>4 DEF ProbesInv, ProbeAlone, Waiting
  <1> QED BY <1>1, <1>5, <1>6
          DEF ProbesInv, ProbeRecorded, ProbeClocked, ProbeWithout, CancelQueued, NoPing

\* The record and the clock of the probe advance together.
LEMMA TimeKeepsProbes ==
    ASSUME QueuesBacked, ProbesInv, Tick
    PROVE  ProbesInv'
  <1>1. /\ UNCHANGED <<sendQueue, lowPriority>> /\ bridgeProbe' = Waited(bridgeProbe)
        /\ lastProbe' = IF lastProbe <= PingTimeout THEN lastProbe + 1 ELSE lastProbe
    BY DEF Tick, output
  <1>2. bridgeProbe \in PingState /\ lastProbe \in 0 .. PingTimeout + 1 /\ PingTimeout \in Nat
    BY PingTimeoutAssumption DEF QueuesBacked, TypedAndConsistent, HealthTypeOK, Ages
  <1>3. ProbeAlone' /\ (Waiting(Probe)' => Waiting(Probe))
    BY <1>1 DEF ProbesInv, ProbeAlone, Waiting
  <1>4. bridgeProbe'.status = bridgeProbe.status
    BY <1>1, <1>2 DEF Waited, PingState
  <1>5. ProbeClocked'
    BY <1>1, <1>2, <1>4 DEF ProbesInv, ProbeClocked, Waited, PingState
  <1> QED BY <1>3, <1>4, <1>5 DEF ProbesInv, ProbeRecorded

-----------------------------------------------------------------------------

\* At most one probe waits, and the record of the probe tells when it left.
LEMMA ProbesStayTracked == Spec => []ProbesInv
  <1>1. Init => ProbesInv
    BY PingTimeoutAssumption
    DEF Init, ProbesInv, ProbeAlone, ProbeRecorded, ProbeClocked, Waiting, FramesOf, NoPing
  <1>2. QueuesBacked /\ ProbesInv /\ [Next]_vars => ProbesInv'
    <2> SUFFICES ASSUME QueuesBacked, ProbesInv, [Next]_vars PROVE ProbesInv'
      OBVIOUS
    <2>1. CASE UNCHANGED vars
      BY <2>1 DEF vars, output, history, ProbesInv, ProbeAlone, ProbeRecorded, ProbeClocked, Waiting
    <2>2. CASE Input
      BY <2>2, MessageKeepsProbes, ConfigUpdateKeepsProbes, VerificationKeepsProbes DEF Input
    <2>3. CASE RunWatchdogCheck \/ Tick
      BY <2>3, WatchdogKeepsProbes, TimeKeepsProbes
    <2>4. CASE Dispatch \/ DispatchStale \/ WakeDrain
      BY <2>4, OutputKeepsProbes, WakeKeepsProbes
    <2> QED BY <2>1, <2>2, <2>3, <2>4 DEF Next
  <1> QED BY <1>1, <1>2, QueuesStayBacked, PTL DEF Spec

\* The service topic is never asked twice within pingTimeout: the probe that
\* leaves is the only one, and was queued when the last one had timed out.
THEOREM ProbesAlwaysSpaced == Spec => ProbesSpaced
  <1>1. QueuesBacked /\ ProbesInv => [Leaves(Probe) => lastProbe >= PingTimeout]_vars
    <2> SUFFICES ASSUME QueuesBacked, ProbesInv, Leaves(Probe) PROVE lastProbe >= PingTimeout
      OBVIOUS
    <2>1. OutputOK
      BY DEF QueuesBacked, TypedAndConsistent, HealthTypeOK, OutputOK
    <2>2. Waiting(Probe)
      BY <2>1, HeadKeepsAlone DEF ProbesInv, Leaves, Dispatch
    <2> QED BY <2>2 DEF ProbesInv, ProbeRecorded, ProbeClocked
  <1> QED BY <1>1, QueuesStayBacked, ProbesStayTracked, PTL DEF ProbesSpaced

=============================================================================
