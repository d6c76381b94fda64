--------------------------- MODULE MqttAdapter_proofs ---------------------------
(***************************************************************************)
(* The adapter keeps the coordinator's outputs in order, and stop does not *)
(* drop what was emitted before it, for all bounds.                        *)
(*                                                                         *)
(* Order alone is not inductive.  The invariant says of the whole chain    *)
(* that the outputs in it are ascending, lie between the last published    *)
(* and the last issued one, and, behind the part a stop waits for, were    *)
(* emitted after that stop began.  Taking the first job off and appending  *)
(* outputs each preserve it; the actions are combinations of the two.      *)
(***************************************************************************)
EXTENDS MqttAdapter, TLAPS

OutputsIn(c) == {i \in DOMAIN c : c[i].kind = "publish"}

\* The outputs of the chain c lie in after + 1 .. to, in ascending order, and
\* behind position k none is as old as late.
Ordered(c, after, to, k, late) ==
    /\ \A i, j \in OutputsIn(c) : i < j => c[i].output < c[j].output
    /\ \A i \in OutputsIn(c) : after < c[i].output /\ c[i].output <= to
    /\ \A i \in OutputsIn(c) : k < i => late < c[i].output

InFlightIsPublish == inFlight => chain # <<>> /\ Head(chain).kind = "publish"

AheadOnlyInFlush == phase # "flushing" => ahead = 0

IInv ==
    /\ TypeOK
    /\ InFlightIsPublish
    /\ AheadOnlyInFlush
    /\ Ordered(chain, last, issued, ahead, beforeStop)

-----------------------------------------------------------------------------
(* Chains *)

\* The bounds are naturals.
LEMMA Bounds == MaxBatch \in Nat /\ MaxOutputs \in Nat /\ MaxChain \in Nat
BY AdapterAssumption

\* Messages and publishes of issued outputs are jobs, and outputs are numbers.
LEMMA Jobs ==
    /\ Message \in Job
    /\ \A job \in Job : job.output \in Nat
    /\ \A n \in 0 .. MaxOutputs : Publish(n) \in Job
BY Bounds DEF Message, Publish, Job

\* What is left of a chain without its first job.
LEMMA TailOfChain ==
    ASSUME NEW c \in Seq(Job), c # <<>>
    PROVE  /\ Head(c) = c[1] /\ c[1] \in Job
           /\ Tail(c) \in Seq(Job)
           /\ Len(c) \in Nat /\ Len(c) > 0
           /\ Len(Tail(c)) = Len(c) - 1
           /\ DOMAIN Tail(c) = 1 .. Len(c) - 1
           /\ \A i \in 1 .. Len(c) - 1 : Tail(c)[i] = c[i + 1]
OBVIOUS

\* The outputs behind the first job are those of the rest, one place on.
LEMMA OutputsOfTail ==
    ASSUME NEW c \in Seq(Job), c # <<>>, NEW i \in OutputsIn(Tail(c))
    PROVE  /\ i \in Nat /\ i > 0
           /\ i + 1 \in OutputsIn(c)
           /\ Tail(c)[i] = c[i + 1]
BY TailOfChain DEF OutputsIn

\* The first output is the oldest one of an ordered chain.
LEMMA HeadIsOldest ==
    ASSUME NEW c \in Seq(Job), c # <<>>, NEW after, NEW to, NEW k, NEW late,
           Ordered(c, after, to, k, late),
           Head(c).kind = "publish"
    PROVE  /\ 1 \in OutputsIn(c)
           /\ after < Head(c).output /\ Head(c).output <= to
           /\ \A i \in OutputsIn(Tail(c)) : Head(c).output < Tail(c)[i].output
<1>1. 1 \in OutputsIn(c)
  BY TailOfChain DEF OutputsIn
<1>2. ASSUME NEW i \in OutputsIn(Tail(c))
      PROVE  Head(c).output < Tail(c)[i].output
  <2>1. i \in Nat /\ i > 0 /\ i + 1 \in OutputsIn(c) /\ Tail(c)[i] = c[i + 1]
    BY OutputsOfTail
  <2>2. 1 < i + 1
    BY <2>1
  <2> QED
    BY <1>1, <2>1, <2>2, TailOfChain DEF Ordered
<1> QED
  BY <1>1, <1>2, TailOfChain DEF Ordered

\* An ordered chain without its first job is ordered.
LEMMA TailIsOrdered ==
    ASSUME NEW c \in Seq(Job), c # <<>>, NEW after, NEW to, NEW k \in Nat, NEW late,
           Ordered(c, after, to, k, late)
    PROVE  Ordered(Tail(c), after, to, IF k > 0 THEN k - 1 ELSE 0, late)
<1> DEFINE rest == IF k > 0 THEN k - 1 ELSE 0
<1>1. ASSUME NEW i \in OutputsIn(Tail(c)), NEW j \in OutputsIn(Tail(c)), i < j
      PROVE  Tail(c)[i].output < Tail(c)[j].output
  BY <1>1, OutputsOfTail, i + 1 < j + 1 DEF Ordered
<1>2. ASSUME NEW i \in OutputsIn(Tail(c))
      PROVE  /\ after < Tail(c)[i].output /\ Tail(c)[i].output <= to
             /\ rest < i => late < Tail(c)[i].output
  <2>1. i + 1 \in OutputsIn(c) /\ Tail(c)[i] = c[i + 1] /\ i \in Nat
    BY OutputsOfTail
  <2>2. rest < i => k < i + 1
    BY <2>1
  <2> QED
    BY <2>1, <2>2 DEF Ordered
<1> QED
  BY <1>1, <1>2 DEF Ordered

\* After the first output has been published the rest lies behind it.
LEMMA TailIsOrderedAfterHead ==
    ASSUME NEW c \in Seq(Job), c # <<>>, NEW after, NEW to, NEW k \in Nat, NEW late,
           Ordered(c, after, to, k, late),
           Head(c).kind = "publish"
    PROVE  Ordered(Tail(c), Head(c).output, to, IF k > 0 THEN k - 1 ELSE 0, late)
<1>1. Ordered(Tail(c), after, to, IF k > 0 THEN k - 1 ELSE 0, late)
  BY TailIsOrdered
<1>2. \A i \in OutputsIn(Tail(c)) : Head(c).output < Tail(c)[i].output
  BY HeadIsOldest
<1> QED
  BY <1>1, <1>2 DEF Ordered

\* What enqueuePublish leaves: the rest, then the new outputs in turn.
LEMMA Enqueued ==
    ASSUME TypeOK, NEW rest \in Seq(Job), NEW n \in Nat, Enqueue(rest, n)
    PROVE  /\ chain' \in Seq(Job)
           /\ Len(chain') = Len(rest) + n
           /\ DOMAIN chain' = 1 .. Len(rest) + n
           /\ \A i \in 1 .. Len(rest) : chain'[i] = rest[i]
           /\ \A i \in Len(rest) + 1 .. Len(rest) + n : chain'[i] = Publish(issued + (i - Len(rest)))
           /\ issued' = issued + n
           /\ issued' \in 0 .. MaxOutputs
<1>1. issued \in Nat /\ MaxOutputs \in Nat /\ issued + n <= MaxOutputs
  BY Bounds DEF TypeOK, Enqueue
<1>2. \A i \in 1 .. n : Publish(issued + i) \in Job
  BY <1>1, Jobs
<1>3. Publications(n) \in Seq(Job) /\ Len(Publications(n)) = n
  BY <1>2 DEF Publications
<1>4. \A i \in 1 .. n : Publications(n)[i] = Publish(issued + i)
  BY DEF Publications
<1>5. chain' = rest \o Publications(n) /\ issued' = issued + n
  BY DEF Enqueue
<1>6. chain' \in Seq(Job) /\ Len(chain') = Len(rest) + n /\ Len(rest) \in Nat
  <2>1. PICK new \in Seq(Job) : new = Publications(n) /\ Len(new) = n
    BY <1>3
  <2>2. rest \o new \in Seq(Job) /\ Len(rest \o new) = Len(rest) + Len(new)
    OBVIOUS
  <2>3. Len(rest) \in Nat
    OBVIOUS
  <2> QED
    BY <1>5, <2>1, <2>2, <2>3
<1>7. DOMAIN chain' = 1 .. Len(rest) + n
  BY <1>6
<1>8. \A i \in 1 .. Len(rest) : chain'[i] = rest[i]
  BY <1>3, <1>5
<1>9. \A i \in Len(rest) + 1 .. Len(rest) + n : chain'[i] = Publications(n)[i - Len(rest)]
  BY <1>3, <1>5
<1> QED
  BY <1>1, <1>4, <1>5, <1>6, <1>7, <1>8, <1>9

\* Appending new outputs keeps a chain ordered.
LEMMA EnqueueKeepsOrdered ==
    ASSUME TypeOK, NEW rest \in Seq(Job), NEW n \in Nat, Enqueue(rest, n),
           NEW k \in Nat, k <= Len(rest),
           Ordered(rest, last, issued, k, beforeStop)
    PROVE  Ordered(chain', last, issued', k, beforeStop)
<1> DEFINE Old(i) == i \in OutputsIn(rest) /\ chain'[i] = rest[i]
           New(i) == i > Len(rest) /\ i <= Len(rest) + n
                     /\ chain'[i].output = issued + (i - Len(rest))
<1>1. last \in Nat /\ issued \in Nat /\ beforeStop \in Nat /\ last <= issued /\ beforeStop <= issued
  BY Bounds DEF TypeOK
<1>2. issued' = issued + n /\ Len(rest) \in Nat
  BY Enqueued
<1>3. ASSUME NEW i \in OutputsIn(chain')
      PROVE  i \in Nat /\ (Old(i) \/ New(i))
  <2>1. i \in 1 .. Len(rest) + n /\ chain'[i].kind = "publish"
    BY Enqueued DEF OutputsIn
  <2>2. CASE i \in 1 .. Len(rest)
    <3>1. chain'[i] = rest[i]
      BY <2>2, Enqueued
    <3>2. i \in OutputsIn(rest)
      BY <2>1, <2>2, <3>1 DEF OutputsIn
    <3> QED
      BY <2>2, <3>1, <3>2
  <2>3. CASE i \in Len(rest) + 1 .. Len(rest) + n
    <3>1. chain'[i] = Publish(issued + (i - Len(rest)))
      BY <2>3, Enqueued
    <3> QED
      BY <1>2, <2>3, <3>1 DEF Publish
  <2> QED
    BY <1>2, <2>1, <2>2, <2>3
<1>4. ASSUME NEW i \in OutputsIn(rest)
      PROVE  i \in Nat /\ i <= Len(rest) /\ rest[i].output \in Nat
  <2>1. i \in 1 .. Len(rest) /\ rest[i] \in Job
    BY DEF OutputsIn
  <2> QED
    BY <1>2, <2>1, Jobs
<1>5. \A i \in OutputsIn(rest) : last < rest[i].output /\ rest[i].output <= issued
  BY DEF Ordered
<1>6. ASSUME NEW i \in OutputsIn(chain'), NEW j \in OutputsIn(chain'), i < j
      PROVE  chain'[i].output < chain'[j].output
  <2>1. CASE Old(i) /\ Old(j)
    BY <1>6, <2>1 DEF Ordered
  <2>2. CASE Old(i) /\ New(j)
    BY <1>1, <1>2, <1>3, <1>4, <1>5, <2>2
  <2>3. CASE New(i) /\ New(j)
    BY <1>1, <1>2, <1>3, <1>6, <2>3
  <2>4. ~(New(i) /\ Old(j))
    BY <1>2, <1>3, <1>4, <1>6
  <2> QED
    BY <1>3, <2>1, <2>2, <2>3, <2>4
<1>7. ASSUME NEW i \in OutputsIn(chain')
      PROVE  /\ last < chain'[i].output /\ chain'[i].output <= issued'
             /\ k < i => beforeStop < chain'[i].output
  <2>1. CASE Old(i)
    BY <1>1, <1>2, <1>4, <1>5, <2>1 DEF Ordered
  <2>2. CASE New(i)
    BY <1>1, <1>2, <1>3, <2>2
  <2> QED
    BY <1>3, <2>1, <2>2
<1> QED
  BY <1>6, <1>7 DEF Ordered

-----------------------------------------------------------------------------
(* The invariant *)

\* Taking the first job off, with JobOver, keeps the counted part of a stop
\* within the chain.
LEMMA AheadAfterJob ==
    ASSUME TypeOK, chain # <<>>, JobOver
    PROVE  /\ ahead' \in 0 .. Len(Tail(chain))
           /\ ahead' = IF ahead > 0 THEN ahead - 1 ELSE 0
<1>1. chain \in Seq(Job) /\ ahead \in 0 .. Len(chain)
  BY DEF TypeOK
<1>2. Len(Tail(chain)) = Len(chain) - 1 /\ Len(chain) \in Nat /\ Len(chain) > 0
  BY <1>1, TailOfChain
<1> QED
  BY <1>1, <1>2 DEF JobOver

\* An adapter that was never started satisfies the invariant.
LEMMA InitIInv == Init => IInv
<1> SUFFICES ASSUME Init PROVE IInv
  OBVIOUS
<1>1. TypeOK
  <2>1. chain \in Seq(Job) /\ Len(chain) = 0
    BY DEF Init
  <2>2. /\ ahead \in 0 .. Len(chain) /\ issued \in 0 .. MaxOutputs
        /\ last \in 0 .. issued /\ beforeStop \in 0 .. issued
    BY <2>1, Bounds DEF Init
  <2> QED
    BY <2>1, <2>2 DEF Init, TypeOK, Phases
<1>2. OutputsIn(chain) = {}
  BY DEF Init, OutputsIn
<1> QED
  BY <1>1, <1>2 DEF Init, IInv, InFlightIsPublish, AheadOnlyInFlush, Ordered

\* Jobs that only append, or that only take the first one off, and the actions
\* that leave the chain alone.
LEMMA ReceiveIInv == IInv /\ Receive => IInv'
<1> SUFFICES ASSUME IInv, Receive PROVE IInv'
  OBVIOUS
<1>1. TypeOK /\ chain \in Seq(Job) /\ ahead \in 0 .. Len(chain)
  BY DEF IInv, TypeOK
<1>2. chain' = Append(chain, Message) /\ Message \in Job
  BY Jobs DEF Receive
<1>3. chain' \in Seq(Job) /\ Len(chain') = Len(chain) + 1 /\ Len(chain) \in Nat
  BY <1>1, <1>2
<1>4. \A i \in 1 .. Len(chain) : chain'[i] = chain[i]
  BY <1>1, <1>2
<1>5. chain'[Len(chain) + 1] = Message
  BY <1>1, <1>2
<1>6. TypeOK'
  BY <1>1, <1>3 DEF Receive, TypeOK
<1>7. InFlightIsPublish'
  BY <1>1, <1>2, <1>3, <1>4 DEF Receive, IInv, InFlightIsPublish
<1>8. ASSUME NEW i \in OutputsIn(chain')
      PROVE  i \in OutputsIn(chain) /\ chain'[i] = chain[i]
  <2>1. i \in 1 .. Len(chain) + 1 /\ chain'[i].kind = "publish"
    BY <1>3 DEF OutputsIn
  <2>2. i # Len(chain) + 1
    BY <1>5, <2>1 DEF Message
  <2>3. i \in 1 .. Len(chain)
    BY <1>3, <2>1, <2>2
  <2> QED
    BY <1>1, <1>4, <2>1, <2>3 DEF OutputsIn
<1>9. Ordered(chain', last, issued, ahead, beforeStop)
  BY <1>8 DEF IInv, Ordered
<1> QED
  BY <1>6, <1>7, <1>9 DEF Receive, IInv, AheadOnlyInFlush

\* Appended outputs are newer than all before them.
LEMMA EmitIInv == IInv /\ Emit => IInv'
<1> SUFFICES ASSUME IInv, Emit PROVE IInv'
  OBVIOUS
<1>1. TypeOK /\ chain \in Seq(Job) /\ ahead \in 0 .. Len(chain) /\ ahead \in Nat /\ Len(chain) \in Nat
  BY DEF IInv, TypeOK
<1>2. PICK n \in 1 .. MaxBatch : Enqueue(chain, n)
  BY DEF Emit
<1>3. n \in Nat
  BY Bounds
<1>4. /\ chain' \in Seq(Job) /\ Len(chain') = Len(chain) + n
      /\ issued' = issued + n /\ issued' \in 0 .. MaxOutputs
      /\ \A i \in 1 .. Len(chain) : chain'[i] = chain[i]
  BY <1>1, <1>2, <1>3, Enqueued
<1>5. TypeOK'
  BY <1>1, <1>3, <1>4, Bounds DEF Emit, TypeOK
<1>6. InFlightIsPublish'
  BY <1>1, <1>3, <1>4 DEF Emit, IInv, InFlightIsPublish
<1>7. Ordered(chain', last, issued', ahead, beforeStop)
  BY <1>1, <1>2, <1>3, EnqueueKeepsOrdered DEF IInv
<1> QED
  BY <1>5, <1>6, <1>7 DEF Emit, IInv, AheadOnlyInFlush

\* A handled message leaves the chain, its outputs join it behind.
LEMMA HandleMessageIInv == IInv /\ HandleMessage => IInv'
<1> SUFFICES ASSUME IInv, HandleMessage PROVE IInv'
  OBVIOUS
<1> DEFINE rest == Tail(chain)
<1>1. TypeOK /\ chain \in Seq(Job) /\ chain # <<>> /\ ahead \in Nat
  BY DEF IInv, TypeOK, HandleMessage
<1>2. rest \in Seq(Job) /\ Len(rest) \in Nat
  BY <1>1, TailOfChain
<1>3. JobOver /\ inFlight' = FALSE
  BY DEF HandleMessage, JobOver
<1>4. ahead' \in 0 .. Len(rest) /\ ahead' \in Nat /\ ahead' = IF ahead > 0 THEN ahead - 1 ELSE 0
  BY <1>1, <1>3, AheadAfterJob
<1>5. PICK n \in 0 .. MaxBatch : Enqueue(rest, n)
  BY DEF HandleMessage
<1>6. n \in Nat
  BY Bounds
<1>7. /\ chain' \in Seq(Job) /\ Len(chain') = Len(rest) + n
      /\ issued' = issued + n /\ issued' \in 0 .. MaxOutputs
  BY <1>1, <1>2, <1>5, <1>6, Enqueued
<1>8. TypeOK'
  <2>1. ahead' \in 0 .. Len(chain')
    BY <1>2, <1>4, <1>6, <1>7
  <2>2. last' \in 0 .. issued' /\ beforeStop' \in 0 .. issued'
    BY <1>1, <1>6, <1>7, Bounds DEF HandleMessage, TypeOK
  <2> QED
    BY <1>1, <1>3, <1>7, <2>1, <2>2 DEF HandleMessage, TypeOK
<1>9. Ordered(rest, last, issued, ahead', beforeStop)
  BY <1>1, <1>4, TailIsOrdered DEF IInv
<1>10. Ordered(chain', last, issued', ahead', beforeStop)
  <2>1. ahead' <= Len(rest)
    BY <1>2, <1>4
  <2> HIDE DEF rest
  <2> QED
    BY <1>1, <1>2, <1>4, <1>5, <1>6, <1>9, <2>1, EnqueueKeepsOrdered
<1>11. AheadOnlyInFlush'
  BY <1>1, <1>4 DEF HandleMessage, IInv, AheadOnlyInFlush
<1> QED
  BY <1>3, <1>8, <1>10, <1>11 DEF HandleMessage, IInv, InFlightIsPublish

\* A dropped output leaves the chain, and nothing else changes.
LEMMA DropPublishIInv == IInv /\ DropPublish => IInv'
<1> SUFFICES ASSUME IInv, DropPublish PROVE IInv'
  OBVIOUS
<1>1. TypeOK /\ chain \in Seq(Job) /\ chain # <<>> /\ ahead \in Nat
  BY DEF IInv, TypeOK, DropPublish, PublishIsNext
<1>2. JobOver /\ inFlight' = FALSE /\ chain' = Tail(chain)
  BY DEF DropPublish, JobOver
<1>3. chain' \in Seq(Job) /\ Len(chain') \in Nat
  BY <1>1, <1>2, TailOfChain
<1>4. ahead' \in 0 .. Len(chain') /\ ahead' \in Nat /\ ahead' = IF ahead > 0 THEN ahead - 1 ELSE 0
  BY <1>1, <1>2, AheadAfterJob
<1>5. TypeOK'
  BY <1>1, <1>2, <1>3, <1>4 DEF DropPublish, TypeOK
<1>6. Ordered(chain', last, issued, ahead', beforeStop)
  BY <1>1, <1>2, <1>4, TailIsOrdered DEF IInv
<1>7. AheadOnlyInFlush'
  BY <1>1, <1>4 DEF DropPublish, IInv, AheadOnlyInFlush
<1> QED
  BY <1>2, <1>5, <1>6, <1>7 DEF DropPublish, IInv, InFlightIsPublish

\* A published output becomes the last one and is older than the rest.
LEMMA FinishPublishIInv ==
    ASSUME IInv, NEW acknowledged \in BOOLEAN, FinishPublish(acknowledged)
    PROVE  IInv'
<1>1. TypeOK /\ chain \in Seq(Job) /\ chain # <<>> /\ Head(chain).kind = "publish" /\ ahead \in Nat
  BY DEF IInv, TypeOK, FinishPublish, InFlightIsPublish
<1>2. JobOver /\ inFlight' = FALSE /\ chain' = Tail(chain)
  BY DEF FinishPublish, JobOver
<1>3. chain' \in Seq(Job) /\ Len(chain') \in Nat
  BY <1>1, <1>2, TailOfChain
<1>4. ahead' \in 0 .. Len(chain') /\ ahead' \in Nat /\ ahead' = IF ahead > 0 THEN ahead - 1 ELSE 0
  BY <1>1, <1>2, AheadAfterJob
<1>5. last < Head(chain).output /\ Head(chain).output <= issued /\ Head(chain).output \in Nat
  <2>1. Head(chain) \in Job
    BY <1>1, TailOfChain
  <2>2. Head(chain).output \in Nat
    BY <2>1, Jobs
  <2> QED
    BY <1>1, <2>2, HeadIsOldest DEF IInv
<1>6. last' \in 0 .. issued
  BY <1>1, <1>5, Bounds DEF FinishPublish, TypeOK
<1>7. TypeOK'
  BY <1>1, <1>2, <1>3, <1>4, <1>6 DEF FinishPublish, TypeOK
<1>8. Ordered(chain', last', issued, ahead', beforeStop)
  <2>1. CASE acknowledged
    BY <1>1, <1>2, <1>4, <2>1, TailIsOrderedAfterHead DEF IInv, FinishPublish
  <2>2. CASE ~acknowledged
    BY <1>1, <1>2, <1>4, <2>2, TailIsOrdered DEF IInv, FinishPublish
  <2> QED
    BY <2>1, <2>2
<1>9. AheadOnlyInFlush'
  BY <1>1, <1>4 DEF FinishPublish, IInv, AheadOnlyInFlush
<1> QED
  BY <1>2, <1>7, <1>8, <1>9 DEF FinishPublish, IInv, InFlightIsPublish

\* Stop waits for the whole chain it finds.
LEMMA StopIInv == IInv /\ Stop => IInv'
<1> SUFFICES ASSUME IInv, Stop PROVE IInv'
  OBVIOUS
<1>1. TypeOK /\ chain \in Seq(Job) /\ Len(chain) \in Nat /\ chain' = chain
  BY DEF IInv, TypeOK, Stop
<1>2. TypeOK'
  BY <1>1, Bounds DEF Stop, TypeOK, Phases
<1>3. ASSUME NEW i \in OutputsIn(chain)
      PROVE  ~(Len(chain) < i)
  BY <1>1 DEF OutputsIn
<1>4. Ordered(chain, last, issued, Len(chain), issued)
  BY <1>3 DEF IInv, Ordered
<1> QED
  BY <1>1, <1>2, <1>4 DEF Stop, IInv, InFlightIsPublish, AheadOnlyInFlush

\* Steps that leave the chain, the counters and the history alone.
LEMMA PhaseIInv ==
    ASSUME IInv,
           UNCHANGED <<chain, ahead, issued, last, beforeStop>>,
           phase' \in Phases,
           phase' # "flushing" => ahead = 0,
           \/ inFlight' = inFlight
           \/ inFlight' = TRUE /\ PublishIsNext
    PROVE  IInv'
<1>1. TypeOK'
  BY DEF IInv, TypeOK
<1>2. InFlightIsPublish'
  BY DEF IInv, InFlightIsPublish, PublishIsNext
<1>3. Ordered(chain, last, issued, ahead, beforeStop)'
  BY DEF IInv, Ordered, OutputsIn
<1> QED
  BY <1>1, <1>2, <1>3 DEF IInv, AheadOnlyInFlush

\* Every step preserves the invariant.
LEMMA NextIInv == IInv /\ [Next]_vars => IInv'
<1> SUFFICES ASSUME IInv, [Next]_vars PROVE IInv'
  OBVIOUS
<1>1. AheadOnlyInFlush /\ phase \in Phases
  BY DEF IInv, TypeOK
<1>2. CASE Receive
  BY <1>2, ReceiveIInv
<1>3. CASE Emit
  BY <1>3, EmitIInv
<1>4. CASE HandleMessage
  BY <1>4, HandleMessageIInv
<1>5. CASE StartPublish
  BY <1>1, <1>5, PhaseIInv DEF StartPublish, AheadOnlyInFlush
<1>6. CASE DropPublish
  BY <1>6, DropPublishIInv
<1>7. CASE \E acknowledged \in BOOLEAN : FinishPublish(acknowledged)
  BY <1>7, FinishPublishIInv
<1>8. CASE Start
  BY <1>1, <1>8, PhaseIInv DEF Start, AheadOnlyInFlush, Phases
<1>9. CASE Stop
  BY <1>9, StopIInv
<1>10. CASE FinishConnecting \/ FinishSubscribing \/ LeaveClient \/ EndClient
  BY <1>1, <1>10, PhaseIInv
     DEF FinishConnecting, FinishSubscribing, LeaveClient, EndClient, AheadOnlyInFlush, Phases
<1>11. CASE StopCoordinator
  BY <1>11, PhaseIInv DEF StopCoordinator, Phases
<1>12. CASE UNCHANGED vars
  BY <1>1, <1>12, PhaseIInv DEF vars, AheadOnlyInFlush
<1> QED
  BY <1>2, <1>3, <1>4, <1>5, <1>6, <1>7, <1>8, <1>9, <1>10, <1>11, <1>12 DEF Next, RunJob, GoOn

\* The invariant the theorems below rest on.
LEMMA Invariant == Spec => []IInv
<1>1. Init => IInv
  BY InitIInv
<1>2. IInv /\ [Next]_vars => IInv'
  BY NextIInv
<1> QED
  BY <1>1, <1>2, PTL DEF Spec

\* The adapter's chain, counters and phases keep their types: the part of the
\* chain a stop waits for never exceeds the chain.
THEOREM TypeCorrect == Spec => []TypeOK
<1>1. IInv => TypeOK
  BY DEF IInv
<1> QED
  BY <1>1, Invariant, PTL

-----------------------------------------------------------------------------
(* Stop drops no earlier output *)

\* What stop waits for is published before the client is gone.
LEMMA DropsLate == IInv /\ DropPublish => Head(chain).output > beforeStop
<1> SUFFICES ASSUME IInv, DropPublish PROVE Head(chain).output > beforeStop
  OBVIOUS
<1>1. chain \in Seq(Job) /\ chain # <<>> /\ Head(chain).kind = "publish"
  BY DEF IInv, TypeOK, DropPublish, PublishIsNext
<1>2. ahead = 0
  BY DEF IInv, AheadOnlyInFlush, DropPublish, HasClient
<1>3. 1 \in OutputsIn(chain) /\ Head(chain) = chain[1]
  BY <1>1, TailOfChain DEF OutputsIn
<1>4. beforeStop < chain[1].output
  BY <1>2, <1>3 DEF IInv, Ordered
<1>5. beforeStop \in Nat
  BY Bounds DEF IInv, TypeOK
<1>6. chain[1] \in Job
  BY <1>1, TailOfChain
<1>7. chain[1].output \in Nat
  BY <1>6, Jobs
<1> QED
  BY <1>3, <1>4, <1>5, <1>7

\* An output emitted before stop was called is never dropped for want of a
\* client: the flush of stop outlasts every job that was chained before it.
THEOREM StopDropsOnlyLateOutputs == Spec => OnlyLateOutputsDropped
<1>1. IInv /\ [Next]_vars => [DropPublish => Head(chain).output > beforeStop]_vars
  BY DropsLate
<1> QED
  BY <1>1, Invariant, PTL DEF Spec, OnlyLateOutputsDropped


-----------------------------------------------------------------------------
(* The adapter implements the abstract order *)

PendingIn(c) == {c[i].output : i \in OutputsIn(c)}

\* The pending outputs are a function of the chain.
LEMMA PendingOfChain == Pending = PendingIn(chain) /\ Pending' = PendingIn(chain')
BY DEF Pending, PendingIn, Outputs, OutputsIn

\* The first output goes with its job, a message job takes none along.
LEMMA PendingOfTail ==
    ASSUME NEW c \in Seq(Job), c # <<>>, NEW after, NEW to, NEW k, NEW late,
           Ordered(c, after, to, k, late)
    PROVE  PendingIn(Tail(c)) = IF Head(c).kind = "publish"
                                THEN PendingIn(c) \ {Head(c).output}
                                ELSE PendingIn(c)
<1>1. PendingIn(Tail(c)) \subseteq PendingIn(c)
  BY OutputsOfTail DEF PendingIn
<1>2. ASSUME NEW i \in OutputsIn(c), i # 1
      PROVE  c[i].output \in PendingIn(Tail(c))
  <2>1. i \in 1 .. Len(c) /\ Len(c) \in Nat /\ c[i].kind = "publish"
    BY DEF OutputsIn
  <2>2. i - 1 \in 1 .. Len(c) - 1 /\ (i - 1) + 1 = i
    BY <1>2, <2>1
  <2>3. Tail(c)[i - 1] = c[i] /\ i - 1 \in DOMAIN Tail(c)
    BY <2>2, TailOfChain
  <2> QED
    BY <2>1, <2>3 DEF PendingIn, OutputsIn
<1>3. CASE Head(c).kind = "publish"
  <2>1. Head(c).output \notin PendingIn(Tail(c))
    <3>1. ASSUME NEW i \in OutputsIn(Tail(c))
          PROVE  Tail(c)[i].output # Head(c).output
      <4>1. Head(c).output < Tail(c)[i].output
        BY <1>3, HeadIsOldest
      <4>2. Head(c) \in Job
        BY TailOfChain
      <4>3. Head(c).output \in Nat
        BY <4>2, Jobs
      <4>4. ~(Head(c).output < Head(c).output)
        BY <4>3
      <4> QED
        BY <4>1, <4>4
    <3> QED
      BY <3>1 DEF PendingIn
  <2>2. PendingIn(c) \ {Head(c).output} \subseteq PendingIn(Tail(c))
    BY <1>2, TailOfChain DEF PendingIn
  <2> QED
    BY <1>1, <1>3, <2>1, <2>2
<1>4. CASE Head(c).kind # "publish"
  <2>1. 1 \notin OutputsIn(c)
    BY <1>4, TailOfChain DEF OutputsIn
  <2>2. PendingIn(c) \subseteq PendingIn(Tail(c))
    BY <1>2, <2>1 DEF PendingIn
  <2> QED
    BY <1>1, <1>4, <2>2
<1> QED
  BY <1>3, <1>4

\* Enqueueing adds exactly the outputs issued with it.
LEMMA PendingOfEnqueue ==
    ASSUME TypeOK, NEW rest \in Seq(Job), NEW n \in Nat, Enqueue(rest, n)
    PROVE  PendingIn(chain') = PendingIn(rest) \cup issued + 1 .. issued'
<1>1. issued \in Nat /\ issued' = issued + n /\ Len(rest) \in Nat
  BY Enqueued, Bounds DEF TypeOK
<1>2. ASSUME NEW i \in OutputsIn(chain')
      PROVE  chain'[i].output \in PendingIn(rest) \cup issued + 1 .. issued'
  <2>1. i \in 1 .. Len(rest) + n /\ chain'[i].kind = "publish"
    BY Enqueued DEF OutputsIn
  <2>2. CASE i \in 1 .. Len(rest)
    <3>1. chain'[i] = rest[i]
      BY <2>2, Enqueued
    <3> QED
      BY <2>1, <2>2, <3>1 DEF PendingIn, OutputsIn
  <2>3. CASE i \in Len(rest) + 1 .. Len(rest) + n
    <3>1. chain'[i] = Publish(issued + (i - Len(rest)))
      BY <2>3, Enqueued
    <3>2. issued + (i - Len(rest)) \in issued + 1 .. issued'
      BY <1>1, <2>3
    <3> QED
      BY <3>1, <3>2 DEF Publish
  <2> QED
    BY <1>1, <2>1, <2>2, <2>3
<1>3. ASSUME NEW i \in OutputsIn(rest)
      PROVE  rest[i].output \in PendingIn(chain')
  <2>1. i \in 1 .. Len(rest) /\ rest[i].kind = "publish"
    BY DEF OutputsIn
  <2>2. chain'[i] = rest[i] /\ i \in DOMAIN chain'
    BY <1>1, <2>1, Enqueued
  <2> QED
    BY <2>1, <2>2 DEF PendingIn, OutputsIn
<1>4. ASSUME NEW m \in issued + 1 .. issued'
      PROVE  m \in PendingIn(chain')
  <2> DEFINE i == Len(rest) + (m - issued)
  <2>1. i \in Len(rest) + 1 .. Len(rest) + n /\ issued + (i - Len(rest)) = m
    BY <1>1
  <2>2. chain'[i] = Publish(issued + (i - Len(rest))) /\ i \in DOMAIN chain'
    BY <1>1, <2>1, Enqueued
  <2>3. chain'[i].kind = "publish" /\ chain'[i].output = m
    BY <2>1, <2>2 DEF Publish
  <2> QED
    BY <2>2, <2>3 DEF PendingIn, OutputsIn
<1> QED
  BY <1>2, <1>3, <1>4 DEF PendingIn

\* An empty chain is an empty queue.
LEMMA InitRefines == Init => Order!Init
<1> SUFFICES ASSUME Init PROVE Order!Init
  OBVIOUS
<1>1. Pending = {}
  BY DEF Init, Pending, Outputs
<1> QED
  BY <1>1 DEF Init, Order!Init

\* Enqueueing n outputs is an abstract Emit, or a stutter for none, provided
\* the rest of the chain pends what pended before.
LEMMA EnqueueRefines ==
    ASSUME TypeOK, NEW rest \in Seq(Job), NEW n \in Nat, Enqueue(rest, n),
           PendingIn(rest) = Pending, last' = last
    PROVE  Order!Emit \/ UNCHANGED Order!vars
<1>1. issued \in Nat /\ issued' = issued + n
  BY Enqueued, Bounds DEF TypeOK
<1>2. Pending' = Pending \cup issued + 1 .. issued'
  BY PendingOfChain, PendingOfEnqueue
<1>3. CASE n = 0
  <2>1. issued' = issued /\ issued + 1 .. issued' = {}
    BY <1>1, <1>3
  <2> QED
    BY <1>2, <2>1 DEF Order!vars
<1>4. CASE n # 0
  BY <1>1, <1>2, <1>4 DEF Order!Emit
<1> QED
  BY <1>3, <1>4

\* The oldest output in the chain is the one its first publish job has.
LEMMA HeadIsPending ==
    ASSUME IInv, chain # <<>>, Head(chain).kind = "publish"
    PROVE  /\ Order!Oldest(Head(chain).output)
           /\ last < Head(chain).output
           /\ PendingIn(Tail(chain)) = Pending \ {Head(chain).output}
<1>1. chain \in Seq(Job) /\ Ordered(chain, last, issued, ahead, beforeStop)
  BY DEF IInv, TypeOK
<1>2. Head(chain) \in Job /\ Head(chain) = chain[1]
  BY <1>1, TailOfChain
<1>3. Head(chain).output \in Nat
  BY <1>2, Jobs
<1>4. 1 \in OutputsIn(chain) /\ last < Head(chain).output
  BY <1>1, HeadIsOldest
<1>5. Head(chain).output \in Pending
  BY <1>2, <1>4, PendingOfChain DEF PendingIn
<1>6. PendingIn(Tail(chain)) = Pending \ {Head(chain).output}
  BY <1>1, PendingOfTail, PendingOfChain
<1>7. ASSUME NEW m \in Pending
      PROVE  Head(chain).output <= m
  <2>1. CASE m = Head(chain).output
    BY <1>3, <2>1
  <2>2. CASE m # Head(chain).output
    <3>1. PICK i \in OutputsIn(Tail(chain)) : m = Tail(chain)[i].output
      BY <1>6, <2>2 DEF PendingIn
    <3>2. Head(chain).output < m
      BY <1>1, <3>1, HeadIsOldest
    <3>3. Tail(chain)[i] \in Job
      BY <1>1, TailOfChain DEF OutputsIn
    <3>4. m \in Nat
      BY <3>1, <3>3, Jobs
    <3> QED
      BY <1>3, <3>2, <3>4
  <2> QED
    BY <2>1, <2>2
<1> QED
  BY <1>4, <1>5, <1>6, <1>7 DEF Order!Oldest

\* Every step is a step of the order or leaves it alone.
LEMMA StepRefines == IInv /\ [Next]_vars => [Order!Next]_(Order!vars)
<1> SUFFICES ASSUME IInv, [Next]_vars PROVE Order!Next \/ UNCHANGED Order!vars
  BY DEF Order!vars
<1>1. TypeOK /\ chain \in Seq(Job)
  BY DEF IInv, TypeOK
<1>2. CASE Receive
  <2>1. chain' = Append(chain, Message) /\ Len(chain) \in Nat
    BY <1>1, <1>2 DEF Receive
  <2>2. /\ \A i \in 1 .. Len(chain) : chain'[i] = chain[i]
        /\ chain'[Len(chain) + 1] = Message
        /\ DOMAIN chain' = 1 .. Len(chain) + 1
    BY <1>1, <2>1, Jobs
  <2>3. ASSUME NEW i \in OutputsIn(chain)
        PROVE  i \in OutputsIn(chain') /\ chain'[i] = chain[i]
    BY <1>1, <2>1, <2>2 DEF OutputsIn
  <2>4. ASSUME NEW i \in OutputsIn(chain')
        PROVE  i \in OutputsIn(chain) /\ chain'[i] = chain[i]
    <3>1. i \in 1 .. Len(chain) + 1 /\ chain'[i].kind = "publish"
      BY <2>2 DEF OutputsIn
    <3>2. i # Len(chain) + 1
      BY <2>2, <3>1 DEF Message
    <3>3. i \in 1 .. Len(chain)
      BY <2>1, <3>1, <3>2
    <3> QED
      BY <1>1, <2>2, <3>1, <3>3 DEF OutputsIn
  <2>5. PendingIn(chain') = PendingIn(chain)
    BY <2>3, <2>4 DEF PendingIn
  <2> QED
    BY <1>2, <2>5, PendingOfChain DEF Receive, Order!vars
<1>3. CASE Emit
  <2>1. PICK n \in 1 .. MaxBatch : Enqueue(chain, n)
    BY <1>3 DEF Emit
  <2>2. n \in Nat /\ last' = last
    BY <1>3, Bounds DEF Emit
  <2> QED
    BY <1>1, <2>1, <2>2, EnqueueRefines, PendingOfChain DEF Order!Next
<1>4. CASE HandleMessage
  <2>1. PICK n \in 0 .. MaxBatch : Enqueue(Tail(chain), n)
    BY <1>4 DEF HandleMessage
  <2>2. n \in Nat /\ last' = last /\ Tail(chain) \in Seq(Job)
    BY <1>1, <1>4, Bounds, TailOfChain DEF HandleMessage
  <2>3. PendingIn(Tail(chain)) = Pending
    BY <1>1, <1>4, PendingOfTail, PendingOfChain DEF HandleMessage, IInv
  <2> QED
    BY <1>1, <2>1, <2>2, <2>3, EnqueueRefines DEF Order!Next
<1>5. CASE DropPublish
  <2>1. chain # <<>> /\ Head(chain).kind = "publish"
    BY <1>5 DEF DropPublish, PublishIsNext
  <2>2. Head(chain).output \in Pending /\ Pending' = Pending \ {Head(chain).output}
    BY <1>5, <2>1, HeadIsPending, PendingOfChain DEF DropPublish, Order!Oldest
  <2>3. Order!Lose(Head(chain).output)
    BY <1>5, <2>2 DEF DropPublish, Order!Lose
  <2> QED
    BY <2>2, <2>3 DEF Order!Next
<1>6. CASE \E acknowledged \in BOOLEAN : FinishPublish(acknowledged)
  <2>1. PICK acknowledged \in BOOLEAN : FinishPublish(acknowledged)
    BY <1>6
  <2>2. chain # <<>> /\ Head(chain).kind = "publish"
    BY <2>1 DEF FinishPublish, IInv, InFlightIsPublish
  <2> DEFINE n == Head(chain).output
  <2>3. /\ Order!Oldest(n) /\ last < n /\ n \in Pending
        /\ Pending' = Pending \ {n}
    BY <2>1, <2>2, HeadIsPending, PendingOfChain DEF FinishPublish, Order!Oldest
  <2>4. issued' = issued
    BY <2>1 DEF FinishPublish
  <2>5. CASE acknowledged
    <3>1. last' = n
      BY <2>1, <2>5 DEF FinishPublish
    <3>2. Order!Publish(n)
      BY <2>3, <2>4, <3>1 DEF Order!Publish
    <3> QED
      BY <2>3, <3>2 DEF Order!Next
  <2>6. CASE ~acknowledged
    <3>1. last' = last
      BY <2>1, <2>6 DEF FinishPublish
    <3>2. Order!Lose(n)
      BY <2>3, <2>4, <3>1 DEF Order!Lose
    <3> QED
      BY <2>3, <3>2 DEF Order!Next
  <2> QED
    BY <2>5, <2>6
<1>7. CASE UNCHANGED <<chain, issued, last>>
  BY <1>7, PendingOfChain DEF Order!vars
<1>8. CASE StartPublish \/ Start \/ Stop \/ GoOn \/ UNCHANGED vars
  BY <1>7, <1>8 DEF StartPublish, Start, Stop, GoOn, FinishConnecting, FinishSubscribing,
                    StopCoordinator, LeaveClient, EndClient, vars
<1> QED
  BY <1>2, <1>3, <1>4, <1>5, <1>6, <1>8 DEF Next, RunJob

\* Every behaviour of the adapter is one of the abstract output order: outputs
\* are published at most once and in the order the coordinator emitted them,
\* across refusals, stops and restarts.
THEOREM ImplementsOrder == Spec => KeepsOrder
<1>1. Init => Order!Init
  BY InitRefines
<1>2. IInv /\ [Next]_vars => [Order!Next]_(Order!vars)
  BY StepRefines
<1> QED
  BY <1>1, <1>2, Invariant, PTL DEF Spec, KeepsOrder, Order!Spec

=============================================================================
