-------------------------- MODULE ConfigReload_proofs --------------------------
(***************************************************************************)
(* Subscriptions follow the configuration, for all devices, configurations *)
(* and numbers of reloads.                                                 *)
(*                                                                         *)
(* The invariant says what each request still to be answered will do: the  *)
(* last subscribe request carries the active configuration, what a reload  *)
(* removes is never part of what it subscribed, and, while reloads do not  *)
(* overlap, the one request on its way turns what is subscribed into what  *)
(* should be.                                                              *)
(***************************************************************************)
EXTENDS ConfigReload, SequenceTheorems, TLAPS

InProgress == Len(reads) + Len(requests)

\* Without a connection there is nothing to reconcile.
NothingWithoutClient == ~client => requests = <<>> /\ subscribed = {}

\* Overlapping reloads leave no certainty.
AloneWhenCertain == certainty # "none" => InProgress <= 1

Sound(queue) ==
    \A i \in DOMAIN queue :
        /\ queue[i].subscribe => queue[i].topics \cap queue[i].removed = {}
        /\ ~queue[i].subscribe => queue[i].removed = {}

\* Requests are answered in order, so the last one to subscribe counts.
LastSubscribes(queue, topics) ==
    \A i \in DOMAIN queue :
        queue[i].subscribe /\ (\A j \in DOMAIN queue : i < j => ~queue[j].subscribe)
            => queue[i].topics = topics

\* What is subscribed, or will be by the one request on its way.
Converges ==
    client /\ certainty # "none" =>
        /\ requests = <<>> =>
             /\ certainty = "exact" => subscribed = active
             /\ certainty = "complete" => active \subseteq subscribed
        /\ requests # <<>> /\ requests[1].subscribe /\ certainty = "exact" =>
             (subscribed \cup active) \ requests[1].removed = active
        /\ requests # <<>> /\ ~requests[1].subscribe =>
             /\ requests[1].topics \cap active = {}
             /\ certainty = "exact" => subscribed \ requests[1].topics = active
             /\ certainty = "complete" => active \subseteq subscribed

\* A signalled file is in effect, or about to be read.
FileFollows ==
    certainty = "exact" /\ signalled =>
        /\ reads = <<>> /\ file # Invalid => active = file
        /\ reads # <<>> => reads[1] = file

IInv ==
    /\ TypeOK
    /\ NothingWithoutClient
    /\ AloneWhenCertain
    /\ Sound(requests)
    /\ LastSubscribes(requests, active)
    /\ Converges
    /\ FileFollows

-----------------------------------------------------------------------------
(* Types *)

\* The requests a reload makes, for any sets of devices.
LEMMA RequestTypes ==
    ASSUME NEW topics \in SUBSET Devices, NEW removed \in SUBSET Devices
    PROVE  /\ Subscribe(topics, removed) \in Request
           /\ Unsubscribe(removed) \in Request
BY DEF Subscribe, Unsubscribe, Request

\* Configurations are sets of devices and valid files.
LEMMA ConfigTypes ==
    /\ \A config \in Configs : config \subseteq Devices /\ config \in Files
    /\ Initial \in Configs
    /\ Invalid \notin Configs /\ Invalid \in Files
    /\ \A content \in Files : content # Invalid => content \in Configs
BY ReloadAssumption DEF Files

\* Taking one read out of those under way leaves the others.
LEMMA OtherReads ==
    ASSUME NEW S, NEW s \in Seq(S), NEW i \in DOMAIN s
    PROVE  /\ SubSeq(s, 1, i - 1) \o SubSeq(s, i + 1, Len(s)) \in Seq(S)
           /\ Len(SubSeq(s, 1, i - 1) \o SubSeq(s, i + 1, Len(s))) = Len(s) - 1
<1>1. i \in 1 .. Len(s) /\ Len(s) \in Nat
  OBVIOUS
<1>2. i - 1 \in Int /\ i + 1 \in Int
  BY <1>1
<1>3. \A k \in 1 .. Len(s) : s[k] \in S
  BY ElementOfSeq
<1>4. (\A k \in 1 .. i - 1 : s[k] \in S) /\ (\A k \in i + 1 .. Len(s) : s[k] \in S)
  BY <1>1, <1>2, <1>3
<1>5. /\ SubSeq(s, 1, i - 1) \in Seq(S)
      /\ Len(SubSeq(s, 1, i - 1)) = IF 1 <= i - 1 THEN i - 1 - 1 + 1 ELSE 0
  BY <1>2, <1>4, SubSeqProperties
<1>6. /\ SubSeq(s, i + 1, Len(s)) \in Seq(S)
      /\ Len(SubSeq(s, i + 1, Len(s))) = IF i + 1 <= Len(s) THEN Len(s) - (i + 1) + 1 ELSE 0
  BY <1>1, <1>2, <1>4, SubSeqProperties
<1>7. /\ SubSeq(s, 1, i - 1) \o SubSeq(s, i + 1, Len(s)) \in Seq(S)
      /\ Len(SubSeq(s, 1, i - 1) \o SubSeq(s, i + 1, Len(s)))
           = Len(SubSeq(s, 1, i - 1)) + Len(SubSeq(s, i + 1, Len(s)))
  BY <1>5, <1>6, ConcatProperties
<1> QED
  BY <1>1, <1>5, <1>6, <1>7

\* What Grant leaves of the requests.
LEMMA GrantedRequests ==
    ASSUME TypeOK, requests # <<>>
    PROVE  /\ Head(requests) = requests[1] /\ Head(requests) \in Request
           /\ Tail(requests) \in Seq(Request)
           /\ Len(requests) \in Nat /\ Len(requests) >= 1
           /\ Len(Tail(requests)) = Len(requests) - 1
           /\ \A i \in 1 .. Len(requests) - 1 : Tail(requests)[i] = requests[i + 1]
BY DEF TypeOK

\* A reload sets the configuration and appends a well-typed request.
LEMMA ReloadType ==
    ASSUME TypeOK, NEW config \in Configs, ReloadSystemConfig(config)
    PROVE  active' \in Configs /\ requests' \in Seq(Request)
<1>1. active \in Configs /\ requests \in Seq(Request)
  BY DEF TypeOK
<1>2. config \in SUBSET Devices /\ active \ config \in SUBSET Devices
  BY <1>1, ConfigTypes
<1>3. Append(requests, Subscribe(config, active \ config)) \in Seq(Request)
  BY <1>1, <1>2, RequestTypes, AppendProperties
<1> QED
  BY <1>1, <1>3 DEF ReloadSystemConfig

\* Every step keeps the types.
LEMMA NextType ==
    ASSUME TypeOK, [Next]_vars
    PROVE  TypeOK'
<1>1. CASE Start
  <2>1. <<Subscribe(Initial, {})>> \in Seq(Request)
    BY RequestTypes, ConfigTypes
  <2>2. signalled' \in BOOLEAN
    BY <1>1 DEF Start
  <2> QED
    BY <1>1, <2>1, <2>2, ConfigTypes DEF Start, TypeOK
<1>2. CASE Stop
  <2>1. requests' \in Seq(Request) /\ subscribed' \in SUBSET Devices
    BY <1>2 DEF Stop
  <2> QED
    BY <1>2, <2>1 DEF Stop, TypeOK
<1>3. ASSUME NEW content \in Files, ReplaceFile(content)
      PROVE  TypeOK'
  BY <1>3 DEF ReplaceFile, TypeOK
<1>4. CASE Hangup
  <2>1. reads' \in Seq(Files)
    BY <1>4, AppendProperties DEF Hangup, TypeOK
  <2> QED
    BY <1>4, <2>1 DEF Hangup, TypeOK
<1>5. ASSUME NEW i \in DOMAIN reads, FinishRead(i)
      PROVE  TypeOK'
  <2>1. reads' \in Seq(Files)
    BY <1>5, OtherReads DEF FinishRead, TypeOK
  <2>2. reads[i] \in Files
    BY <1>5, ElementOfSeq DEF TypeOK
  <2>3. active' \in Configs /\ requests' \in Seq(Request)
    BY <1>5, <2>2, ReloadType, ConfigTypes DEF FinishRead, TypeOK
  <2> QED
    BY <1>5, <2>1, <2>3 DEF FinishRead, TypeOK
<1>6. CASE Grant
  <2>1. /\ Head(requests) \in Request /\ Tail(requests) \in Seq(Request)
        /\ Head(requests).topics \in SUBSET Devices /\ Head(requests).removed \in SUBSET Devices
    BY <1>6, GrantedRequests DEF Grant, Request
  <2>2. Append(Tail(requests), Unsubscribe(Head(requests).removed)) \in Seq(Request)
    BY <2>1, RequestTypes, AppendProperties
  <2>3. requests' \in Seq(Request)
    BY <1>6, <2>1, <2>2 DEF Grant
  <2> QED
    BY <1>6, <2>1, <2>3 DEF Grant, TypeOK
<1>7. CASE Refuse
  <2>1. Tail(requests) \in Seq(Request)
    BY <1>7, GrantedRequests DEF Refuse
  <2> QED
    BY <1>7, <2>1 DEF Refuse, TypeOK
<1>8. CASE UNCHANGED vars
  BY <1>8 DEF vars, TypeOK
<1> QED
  BY <1>1, <1>2, <1>3, <1>4, <1>5, <1>6, <1>7, <1>8 DEF Next

-----------------------------------------------------------------------------
(* Queues of requests *)

\* An answered request leaves a sound queue.
LEMMA TailSound ==
    ASSUME NEW queue \in Seq(Request), queue # <<>>, NEW topics,
           Sound(queue), LastSubscribes(queue, topics)
    PROVE  Sound(Tail(queue)) /\ LastSubscribes(Tail(queue), topics)
<1> DEFINE rest == Tail(queue)
<1>1. /\ rest \in Seq(Request) /\ Len(queue) \in Nat /\ Len(queue) >= 1
      /\ DOMAIN rest = 1 .. Len(queue) - 1 /\ DOMAIN queue = 1 .. Len(queue)
      /\ \A i \in 1 .. Len(queue) - 1 : rest[i] = queue[i + 1]
  OBVIOUS
<1> HIDE DEF rest
<1>2. Sound(rest)
  BY <1>1 DEF Sound
<1>3. ASSUME NEW i \in DOMAIN rest, rest[i].subscribe,
             \A j \in DOMAIN rest : i < j => ~rest[j].subscribe
      PROVE  rest[i].topics = topics
  <2>1. i + 1 \in DOMAIN queue /\ queue[i + 1] = rest[i]
    BY <1>1, <1>3
  <2>2. ASSUME NEW j \in DOMAIN queue, i + 1 < j
        PROVE  ~queue[j].subscribe
    <3>1. j - 1 \in DOMAIN rest /\ i < j - 1 /\ rest[j - 1] = queue[j]
      BY <1>1, <1>3, <2>2
    <3> QED
      BY <1>3, <3>1
  <2> QED
    BY <1>3, <2>1, <2>2 DEF LastSubscribes
<1> QED
  BY <1>2, <1>3 DEF LastSubscribes, rest

\* Removing does not change what the last subscription says.
LEMMA AppendUnsubscribe ==
    ASSUME NEW queue \in Seq(Request), NEW topics, NEW removed \in SUBSET Devices,
           Sound(queue), LastSubscribes(queue, topics)
    PROVE  /\ Sound(Append(queue, Unsubscribe(removed)))
           /\ LastSubscribes(Append(queue, Unsubscribe(removed)), topics)
<1> DEFINE longer == Append(queue, Unsubscribe(removed))
<1>1. /\ Len(queue) \in Nat /\ DOMAIN queue = 1 .. Len(queue)
      /\ DOMAIN longer = 1 .. Len(queue) + 1
      /\ \A i \in 1 .. Len(queue) : longer[i] = queue[i]
      /\ longer[Len(queue) + 1] = Unsubscribe(removed)
  OBVIOUS
<1>2. ~Unsubscribe(removed).subscribe /\ Unsubscribe(removed).removed = {}
  BY DEF Unsubscribe
<1> HIDE DEF longer
<1>3. Sound(longer)
  BY <1>1, <1>2 DEF Sound
<1>4. ASSUME NEW i \in DOMAIN longer, longer[i].subscribe,
             \A j \in DOMAIN longer : i < j => ~longer[j].subscribe
      PROVE  longer[i].topics = topics
  <2>1. i \in DOMAIN queue /\ longer[i] = queue[i]
    BY <1>1, <1>2, <1>4
  <2>2. \A j \in DOMAIN queue : i < j => ~queue[j].subscribe
    BY <1>1, <1>4
  <2> QED
    BY <1>4, <2>1, <2>2 DEF LastSubscribes
<1> QED
  BY <1>3, <1>4 DEF LastSubscribes, longer

\* A new subscription is the last one, whatever is still on its way.
LEMMA AppendSubscribe ==
    ASSUME NEW queue \in Seq(Request), NEW topics \in SUBSET Devices,
           NEW removed \in SUBSET Devices, topics \cap removed = {}, Sound(queue)
    PROVE  /\ Sound(Append(queue, Subscribe(topics, removed)))
           /\ LastSubscribes(Append(queue, Subscribe(topics, removed)), topics)
<1> DEFINE longer == Append(queue, Subscribe(topics, removed))
<1>1. /\ Len(queue) \in Nat /\ DOMAIN queue = 1 .. Len(queue)
      /\ DOMAIN longer = 1 .. Len(queue) + 1
      /\ \A i \in 1 .. Len(queue) : longer[i] = queue[i]
      /\ longer[Len(queue) + 1] = Subscribe(topics, removed)
  OBVIOUS
<1>2. /\ Subscribe(topics, removed).subscribe
      /\ Subscribe(topics, removed).topics = topics
      /\ Subscribe(topics, removed).removed = removed
  BY DEF Subscribe
<1> HIDE DEF longer
<1>3. Sound(longer)
  BY <1>1, <1>2 DEF Sound
<1>4. ASSUME NEW i \in DOMAIN longer, longer[i].subscribe,
             \A j \in DOMAIN longer : i < j => ~longer[j].subscribe
      PROVE  longer[i].topics = topics
  <2>1. i = Len(queue) + 1
    BY <1>1, <1>2, <1>4
  <2> QED
    BY <1>1, <1>2, <2>1
<1> QED
  BY <1>3, <1>4 DEF LastSubscribes, longer

\* The empty queue and a first subscription.
LEMMA ShortQueues ==
    /\ Sound(<<>>) /\ \A topics : LastSubscribes(<<>>, topics)
    /\ Sound(<<Subscribe(Initial, {})>>)
    /\ LastSubscribes(<<Subscribe(Initial, {})>>, Initial)
BY DEF Sound, LastSubscribes, Subscribe

-----------------------------------------------------------------------------
(* The invariant *)

Structure ==
    /\ NothingWithoutClient
    /\ AloneWhenCertain
    /\ Sound(requests)
    /\ LastSubscribes(requests, active)

\* What a reload appends when its file is read.
LEMMA ReadRequest ==
    ASSUME IInv, NEW i \in DOMAIN reads, FinishRead(i)
    PROVE  \/ UNCHANGED <<active, requests>>
           \/ ~client /\ reads[i] = active' /\ requests' = requests
           \/ /\ client
              /\ reads[i] \in Configs /\ active' = reads[i] /\ reads[i] # Invalid
              /\ requests' = Append(requests, Subscribe(reads[i], active \ reads[i]))
<1>1. reads[i] \in Files
  BY ElementOfSeq DEF IInv, TypeOK
<1> QED
  BY <1>1, ConfigTypes DEF FinishRead, ReloadSystemConfig

\* Lengths are numbers.
LEMMA Lengths ==
    ASSUME TypeOK
    PROVE  Len(reads) \in Nat /\ Len(requests) \in Nat
BY DEF TypeOK

\* Every step keeps the queue in order.
LEMMA StructureNext ==
    ASSUME IInv, [Next]_vars
    PROVE  Structure'
<1> USE DEF Structure, NothingWithoutClient, AloneWhenCertain, InProgress
<1>1. TypeOK /\ Structure /\ Len(reads) \in Nat /\ Len(requests) \in Nat
  BY Lengths DEF IInv
<1>2. CASE Start
  <2>1. Len(requests') = 1
    BY <1>2 DEF Start
  <2>2. certainty' # "none" => Len(reads') = 0
    BY <1>2 DEF Start
  <2> QED
    BY <1>1, <1>2, <2>1, <2>2, ShortQueues DEF Start
<1>3. CASE Stop
  <2>1. Len(requests') = 0
    BY <1>3 DEF Stop
  <2> QED
    BY <1>1, <1>3, <2>1, ShortQueues DEF Stop
<1>4. ASSUME NEW content \in Files, ReplaceFile(content)
      PROVE  Structure'
  BY <1>1, <1>4 DEF ReplaceFile
<1>5. CASE Hangup
  <2>1. Len(reads') = Len(reads) + 1
    BY <1>1, <1>5, AppendProperties DEF Hangup, TypeOK
  <2>2. Idle => Len(reads) = 0 /\ Len(requests) = 0
    BY DEF Idle
  <2> QED
    BY <1>1, <1>5, <2>1, <2>2 DEF Hangup
<1>6. ASSUME NEW i \in DOMAIN reads, FinishRead(i)
      PROVE  Structure'
  <2>1. Len(reads') = Len(reads) - 1 /\ UNCHANGED <<client, subscribed, certainty>>
    BY <1>1, <1>6, OtherReads DEF FinishRead, TypeOK
  <2>2. CASE UNCHANGED <<active, requests>>
    BY <1>1, <2>1, <2>2
  <2>3. CASE ~client /\ reads[i] = active' /\ requests' = requests
    <3>1. requests = <<>>
      BY <1>1, <2>3
    <3>2. LastSubscribes(requests', active')
      BY <2>3, <3>1, ShortQueues
    <3> QED
      BY <1>1, <2>1, <2>3, <3>2
  <2>4. CASE /\ client
             /\ reads[i] \in Configs /\ active' = reads[i] /\ reads[i] # Invalid
             /\ requests' = Append(requests, Subscribe(reads[i], active \ reads[i]))
    <3>1. requests \in Seq(Request) /\ active \in SUBSET Devices /\ reads[i] \in SUBSET Devices
      BY <1>1, <2>4, ConfigTypes DEF TypeOK
    <3>2. active \ reads[i] \in SUBSET Devices /\ reads[i] \cap (active \ reads[i]) = {}
      BY <3>1
    <3>3. Sound(requests') /\ LastSubscribes(requests', active')
      BY <1>1, <2>4, <3>1, <3>2, AppendSubscribe
    <3>4. Len(requests') = Len(requests) + 1
      BY <2>4, <3>1, <3>2, RequestTypes, AppendProperties
    <3> QED
      BY <1>1, <2>1, <2>4, <3>3, <3>4
  <2> QED
    BY <1>6, <2>2, <2>3, <2>4, ReadRequest
<1>7. CASE Grant
  <2>1. /\ Tail(requests) \in Seq(Request)
        /\ Len(Tail(requests)) = Len(requests) - 1 /\ Len(requests) >= 1
        /\ Head(requests).removed \in SUBSET Devices
    BY <1>1, <1>7, GrantedRequests DEF Grant, Request
  <2>2. Sound(Tail(requests)) /\ LastSubscribes(Tail(requests), active)
    BY <1>1, <1>7, TailSound DEF Grant, TypeOK
  <2>3. Sound(requests') /\ LastSubscribes(requests', active)
    BY <1>7, <2>1, <2>2, AppendUnsubscribe DEF Grant
  <2>4. Unsubscribe(Head(requests).removed) \in Request
    BY <2>1, RequestTypes
  <2>5. Len(requests') <= Len(requests) /\ Len(requests') \in Nat
    BY <1>1, <1>7, <2>1, <2>4, AppendProperties DEF Grant
  <2>6. reads = <<>> => Len(reads) = 0
    OBVIOUS
  <2>7. client
    BY <1>1, <1>7 DEF Grant
  <2> QED
    BY <1>1, <1>7, <2>3, <2>5, <2>6, <2>7 DEF Grant
<1>8. CASE Refuse
  <2>1. Len(Tail(requests)) = Len(requests) - 1 /\ Len(requests) >= 1
    BY <1>1, <1>8, GrantedRequests DEF Refuse
  <2>2. Sound(requests') /\ LastSubscribes(requests', active)
    BY <1>1, <1>8, TailSound DEF Refuse, TypeOK
  <2>3. client
    BY <1>1, <1>8 DEF Refuse
  <2> QED
    BY <1>1, <1>8, <2>1, <2>2, <2>3 DEF Refuse
<1>9. CASE UNCHANGED vars
  BY <1>1, <1>9 DEF vars
<1> QED
  BY <1>2, <1>3, <1>4, <1>5, <1>6, <1>7, <1>8, <1>9 DEF Next

\* The only element leaves nothing behind.
LEMMA OnlyOne ==
    ASSUME NEW S, NEW s \in Seq(S), Len(s) = 1
    PROVE  Tail(s) = <<>>
<1>1. s # <<>>
  OBVIOUS
<1>2. Tail(s) \in Seq(S) /\ Len(Tail(s)) = 0
  BY <1>1, HeadTailProperties
<1> QED
  BY <1>2, EmptySeq

\* While nothing overlaps, a read ends with no request on its way, and there is
\* one request at most.
LEMMA OneAtATime ==
    ASSUME IInv, certainty # "none"
    PROVE  /\ reads # <<>> => requests = <<>> /\ Len(reads) = 1
           /\ requests # <<>> => Len(requests) = 1 /\ Tail(requests) = <<>> /\ reads = <<>>
<1>1. Len(reads) + Len(requests) <= 1 /\ reads \in Seq(Files) /\ requests \in Seq(Request)
  BY DEF IInv, AloneWhenCertain, InProgress, TypeOK
<1>2. (reads = <<>> <=> Len(reads) = 0) /\ (requests = <<>> <=> Len(requests) = 0)
  BY <1>1
<1>3. Len(reads) \in Nat /\ Len(requests) \in Nat
  BY <1>1
<1>4. Len(requests) = 1 => Tail(requests) = <<>>
  BY <1>1, OnlyOne
<1>5. \A m, n \in Nat : m + n <= 1 => (m = 0 \/ (m = 1 /\ n = 0)) /\ (n = 0 \/ (n = 1 /\ m = 0))
  OBVIOUS
<1>6. /\ Len(reads) = 0 \/ (Len(reads) = 1 /\ Len(requests) = 0)
      /\ Len(requests) = 0 \/ (Len(requests) = 1 /\ Len(reads) = 0)
  BY <1>1, <1>3, <1>5
<1> QED
  BY <1>2, <1>4, <1>6

\* Every step keeps the one request on its way converging.
LEMMA ConvergesNext ==
    ASSUME IInv, [Next]_vars
    PROVE  Converges'
<1> USE DEF Converges
<1>1. Converges /\ TypeOK
  BY DEF IInv
<1>2. CASE Start
  <2>1. /\ requests' = <<Subscribe(Initial, {})>> /\ active' = Initial
        /\ subscribed' = {} /\ certainty' # "complete"
    BY <1>2 DEF Start, IInv, NothingWithoutClient
  <2>2. requests' # <<>> /\ requests'[1].subscribe /\ requests'[1].removed = {}
    BY <2>1 DEF Subscribe
  <2> QED
    BY <2>1, <2>2
<1>3. CASE Stop
  BY <1>3 DEF Stop
<1>4. ASSUME NEW content \in Files, ReplaceFile(content)
      PROVE  Converges'
  BY <1>1, <1>4 DEF ReplaceFile
<1>5. CASE Hangup
  BY <1>1, <1>5 DEF Hangup
<1>6. ASSUME NEW i \in DOMAIN reads, FinishRead(i)
      PROVE  Converges'
  <2>1. UNCHANGED <<client, subscribed, certainty>> /\ reads # <<>>
    BY <1>6 DEF FinishRead
  <2>2. CASE UNCHANGED <<active, requests>>
    BY <1>1, <2>1, <2>2
  <2>3. CASE ~client
    BY <2>1, <2>3
  <2>4. CASE /\ client /\ certainty # "none"
             /\ reads[i] \in Configs /\ active' = reads[i]
             /\ requests' = Append(requests, Subscribe(reads[i], active \ reads[i]))
    <3>1. requests = <<>>
      BY <2>1, <2>4, OneAtATime
    <3>2. requests' = <<Subscribe(reads[i], active \ reads[i])>>
      BY <2>4, <3>1
    <3>3. /\ requests' # <<>> /\ requests'[1].subscribe
          /\ requests'[1].removed = active \ reads[i]
      BY <3>2 DEF Subscribe
    <3>4. certainty = "exact" => subscribed = active
      BY <1>1, <2>4, <3>1
    <3> QED
      BY <2>1, <2>4, <3>3, <3>4
  <2>5. CASE certainty = "none"
    BY <2>1, <2>5
  <2> QED
    BY <1>6, <2>2, <2>3, <2>4, <2>5, ReadRequest
<1>7. CASE Grant
  <2> DEFINE request == Head(requests)
  <2>1. requests # <<>> /\ request = requests[1] /\ UNCHANGED <<client, active>>
    BY <1>1, <1>7, GrantedRequests DEF Grant
  <2>2. CASE certainty' = "none"
    BY <2>2
  <2>3. CASE certainty' # "none"
    <3>1. Len(requests) = 1 /\ Tail(requests) = <<>>
      <4>1. CASE certainty # "none"
        BY <2>1, <4>1, OneAtATime
      <4>2. CASE certainty = "none"
        <5>1. Len(requests) = 1
          BY <1>7, <2>3, <4>2 DEF Grant
        <5>2. Tail(requests) = <<>>
          BY <1>1, <5>1, OnlyOne DEF TypeOK
        <5> QED
          BY <5>1, <5>2
      <4> QED
        BY <4>1, <4>2
    <3>2. 1 \in DOMAIN requests /\ \A j \in DOMAIN requests : ~(1 < j)
      BY <1>1, <3>1 DEF TypeOK
    <3>3. /\ request.subscribe => request.topics = active /\ request.topics \cap request.removed = {}
          /\ ~request.subscribe => request.removed = {}
      BY <2>1, <3>2 DEF IInv, Sound, LastSubscribes
    <3>4. requests' = IF request.removed = {} THEN <<>> ELSE <<Unsubscribe(request.removed)>>
      <4>1. Append(<<>>, Unsubscribe(request.removed)) = <<Unsubscribe(request.removed)>>
        OBVIOUS
      <4> QED
        BY <1>7, <3>1, <4>1 DEF Grant
    <3>5. CASE request.subscribe
      <4>1. subscribed' = subscribed \cup active
        BY <1>7, <3>3, <3>5 DEF Grant
      <4>2. client => (certainty' = "exact" => (subscribed \cup active) \ request.removed = active)
        BY <1>1, <1>7, <2>1, <3>5 DEF Grant
      <4>3. CASE request.removed = {}
        <5>1. requests' = <<>>
          BY <3>4, <4>3
        <5> QED
          BY <2>1, <4>1, <4>2, <4>3, <5>1
      <4>4. CASE request.removed # {}
        <5>1. requests' = <<Unsubscribe(request.removed)>>
          BY <3>4, <4>4
        <5>2. /\ requests' # <<>> /\ ~requests'[1].subscribe
              /\ requests'[1].topics = request.removed
          BY <5>1 DEF Unsubscribe
        <5> QED
          BY <2>1, <3>3, <3>5, <4>1, <4>2, <5>2
      <4> QED
        BY <4>3, <4>4
    <3>6. CASE ~request.subscribe
      <4>1. requests' = <<>> /\ subscribed' = subscribed \ request.topics /\ certainty' = certainty
        BY <1>7, <3>3, <3>4, <3>6 DEF Grant
      <4> QED
        BY <1>1, <2>1, <2>3, <3>6, <4>1
    <3> QED
      BY <3>5, <3>6
  <2> QED
    BY <2>2, <2>3
<1>8. CASE Refuse
  <2>1. requests # <<>> /\ Head(requests) = requests[1] /\ UNCHANGED <<client, active, subscribed>>
    BY <1>1, <1>8, GrantedRequests DEF Refuse
  <2>2. CASE certainty' = "none"
    BY <2>2
  <2>3. CASE certainty' # "none"
    <3>1. ~requests[1].subscribe /\ certainty # "none" /\ certainty' = "complete"
      BY <1>8, <2>1, <2>3 DEF Refuse
    <3>2. requests' = <<>>
      BY <1>8, <2>1, <3>1, OneAtATime DEF Refuse
    <3>3. certainty \in {"exact", "complete"}
      BY <1>1, <3>1 DEF TypeOK
    <3> QED
      BY <1>1, <2>1, <3>1, <3>2, <3>3
  <2> QED
    BY <2>2, <2>3
<1>9. CASE UNCHANGED vars
  BY <1>1, <1>9 DEF vars
<1> QED
  BY <1>2, <1>3, <1>4, <1>5, <1>6, <1>7, <1>8, <1>9 DEF Next

\* Every step keeps the signalled file in effect or on its way.
LEMMA FileNext ==
    ASSUME IInv, [Next]_vars
    PROVE  FileFollows'
<1> USE DEF FileFollows
<1>1. FileFollows /\ TypeOK
  BY DEF IInv
<1>2. CASE Start
  BY <1>2 DEF Start
<1>3. CASE Stop
  BY <1>1, <1>3 DEF Stop
<1>4. ASSUME NEW content \in Files, ReplaceFile(content)
      PROVE  FileFollows'
  BY <1>4 DEF ReplaceFile
<1>5. CASE Hangup
  <2>1. CASE Idle
    <3>1. reads' = <<file>> /\ file' = file
      BY <1>5, <2>1 DEF Hangup, Idle
    <3> QED
      BY <3>1
  <2>2. CASE ~Idle
    BY <1>5, <2>2 DEF Hangup
  <2> QED
    BY <2>1, <2>2
<1>6. ASSUME NEW i \in DOMAIN reads, FinishRead(i)
      PROVE  FileFollows'
  <2>1. CASE certainty = "exact" /\ signalled
    <3>1. reads # <<>> /\ Len(reads) = 1 /\ reads \in Seq(Files)
      BY <1>1, <1>6, <2>1, OneAtATime DEF TypeOK
    <3>2. i = 1 /\ reads[i] = file
      BY <1>1, <1>6, <2>1, <3>1
    <3>3. reads' \in Seq(Files) /\ Len(reads') = 0
      BY <1>6, <3>1, OtherReads DEF FinishRead
    <3>4. reads' = <<>>
      BY <3>3
    <3>5. file # Invalid => active' = file
      BY <1>6, <3>2 DEF FinishRead, ReloadSystemConfig
    <3>6. file' = file
      BY <1>6 DEF FinishRead
    <3> QED
      BY <3>4, <3>5, <3>6
  <2>2. CASE ~(certainty = "exact" /\ signalled)
    BY <1>6, <2>2 DEF FinishRead
  <2> QED
    BY <2>1, <2>2
<1>7. CASE Grant \/ Refuse
  BY <1>1, <1>7 DEF Grant, Refuse
<1>8. CASE UNCHANGED vars
  BY <1>1, <1>8 DEF vars
<1> QED
  BY <1>2, <1>3, <1>4, <1>5, <1>6, <1>7, <1>8 DEF Next

\* The adapter starts with nothing subscribed and nothing on its way.
LEMMA InitIInv ==
    ASSUME Init
    PROVE  IInv
<1>1. TypeOK
  <2>1. requests \in Seq(Request) /\ reads \in Seq(Files) /\ subscribed \in SUBSET Devices
    BY DEF Init
  <2> QED
    BY <2>1, ConfigTypes DEF Init, TypeOK
<1>2. Len(reads) = 0 /\ Len(requests) = 0
  BY DEF Init
<1> QED
  BY <1>1, <1>2, ShortQueues
  DEF Init, IInv, NothingWithoutClient, AloneWhenCertain, InProgress, Converges, FileFollows

\* The invariant the theorems below rest on.
LEMMA Invariant == Spec => []IInv
<1>1. Init => IInv
  BY InitIInv
<1>2. IInv /\ [Next]_vars => IInv'
  BY NextType, StructureNext, ConvergesNext, FileNext DEF IInv, Structure
<1> QED
  BY <1>1, <1>2, PTL DEF Spec

\* Requests, reads and configurations stay well-formed: no reload ever makes an
\* unvalidated file the active configuration.
THEOREM TypeCorrect == Spec => []TypeOK
<1>1. IInv => TypeOK
  BY DEF IInv
<1> QED
  BY <1>1, Invariant, PTL

\* With no reload under way the broker forwards exactly the active topics, if
\* every request was granted and none overlapped; one granted reload that runs
\* alone makes them complete again (reloadSystemConfig), for all configurations.
THEOREM SubscriptionsFollow == Spec => []SubscriptionsReconciled
<1>1. IInv => SubscriptionsReconciled
  BY DEF IInv, Converges, SubscriptionsReconciled, Idle
<1> QED
  BY <1>1, Invariant, PTL

\* A file that was signalled after it was replaced is in effect once the
\* reloads are over, if they did not overlap (main, reloadCoordinatorConfig).
THEOREM SignalTakesEffect == Spec => []SignalledFileActive
<1>1. IInv => SignalledFileActive
  BY DEF IInv, FileFollows, SignalledFileActive, Idle
<1> QED
  BY <1>1, Invariant, PTL

=============================================================================
