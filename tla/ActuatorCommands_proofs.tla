------------------------- MODULE ActuatorCommands_proofs -------------------------
(***************************************************************************)
(* ActuatorCommands keeps its type, known states are the outputs whenever  *)
(* no report is on its way, and a click leaves what it decided.            *)
(***************************************************************************)
EXTENDS ActuatorCommands, FiniteSetTheorems, SequenceTheorems, TLAPS

(***************************************************************************)
(* The invariant.  The last report on its way shows the outputs as they    *)
(* are, since the device reports every change.                             *)
(***************************************************************************)
LastReportCurrent ==
    \A d \in Devices : reports[d] # <<>> => reports[d][Len(reports[d])] = Pack(outputs[d])

KnownStatesCurrent ==
    \A d \in Devices : reports[d] = <<>> /\ states[d] # Unknown => states[d] = outputs[d]

\* A packed command sets every output, another one that of its actuator.
Sets(d, command, i) == "packed" \in DOMAIN command \/ Layout[d][i] = command.id

ValueOf(command, i) == IF "packed" \in DOMAIN command THEN Bit(command.packed, i) ELSE command.value

\* An output no queued command sets is as expected; any other will be, since the
\* last command that sets it says so.
QueueLeadsTo(d, queue, out, want) ==
    \A i \in DOMAIN Layout[d] :
        /\ (\A k \in 1 .. Len(queue) : ~Sets(d, queue[k], i)) => want[i] = out[i]
        /\ \A k \in 1 .. Len(queue) :
             Sets(d, queue[k], i) /\ (\A j \in k + 1 .. Len(queue) : ~Sets(d, queue[j], i))
               => want[i] = ValueOf(queue[k], i)

QueueLeadsToExpected ==
    \A d \in Devices :
        expected[d] # Unknown => QueueLeadsTo(d, commands[d], outputs[d], expected[d])

Inv ==
    /\ TypeOK
    /\ LastReportCurrent
    /\ KnownStatesCurrent
    /\ QueueLeadsToExpected

-----------------------------------------------------------------------------
(* Packed states *)

LEMMA ByteSizeType == ByteSize \in Nat \ {0}
  BY CommandAssumption

LEMMA DivMod ==
    ASSUME NEW k \in Nat
    PROVE  /\ k \div ByteSize \in Nat
           /\ k % ByteSize \in 0 .. ByteSize - 1
           /\ k = (k \div ByteSize) * ByteSize + (k % ByteSize)
  BY ByteSizeType, SMT

LEMMA ByteOfState ==
    ASSUME NEW n \in Nat, NEW i \in 1 .. n
    PROVE  /\ ByteCount(n) \in Nat
           /\ (i - 1) \div ByteSize + 1 \in 1 .. ByteCount(n)
           /\ (i - 1) % ByteSize \in 0 .. ByteSize - 1
           /\ ((i - 1) \div ByteSize) * ByteSize + ((i - 1) % ByteSize) + 1 = i
<1>1. i - 1 \in Nat /\ i - 1 < n
  OBVIOUS
<1>2. (i - 1) \div ByteSize + 1 <= (n + ByteSize - 1) \div ByteSize
  BY <1>1, ByteSizeType, SMT
<1>3. (n + ByteSize - 1) \div ByteSize \in Nat
  BY ByteSizeType, SMT
<1>. QED
  BY <1>1, <1>2, <1>3, DivMod DEF ByteCount

\* A byte that is not full holds the states from the last multiple of ByteSize on.
LEMMA LastByte ==
    ASSUME NEW n \in Nat, n % ByteSize # 0
    PROVE  ByteCount(n) = n \div ByteSize + 1
<1>1. /\ n \div ByteSize \in Nat
      /\ n % ByteSize \in 1 .. ByteSize - 1
      /\ n = (n \div ByteSize) * ByteSize + (n % ByteSize)
  <2>1. n % ByteSize \in 0 .. ByteSize - 1
    BY DivMod
  <2>2. n % ByteSize \in 1 .. ByteSize - 1
    BY <2>1, ByteSizeType
  <2>. QED
    BY <2>2, DivMod
<1>2. \A q \in Nat, r \in 0 .. ByteSize - 1 : (q * ByteSize + r) \div ByteSize = q
  BY ByteSizeType, SMT
<1>3. n + ByteSize - 1 = (n \div ByteSize + 1) * ByteSize + ((n % ByteSize) - 1)
  BY <1>1, ByteSizeType, SMT
<1>4. (n % ByteSize) - 1 \in 0 .. ByteSize - 1 /\ n \div ByteSize + 1 \in Nat
  BY <1>1, ByteSizeType
<1>. QED
  BY <1>2, <1>3, <1>4 DEF ByteCount

LEMMA ByteCountType == \A n \in Nat : ByteCount(n) \in Nat
  BY ByteSizeType, SMT DEF ByteCount

LEMMA PackType ==
    ASSUME NEW n \in Nat, NEW s \in [1 .. n -> BOOLEAN]
    PROVE  Pack(s) \in [1 .. ByteCount(n) -> Byte] /\ Len(Pack(s)) = ByteCount(n)
<1>1. Len(s) = n /\ ByteCount(n) \in Nat
  BY ByteCountType
<1>2. Pack(s) \in [1 .. ByteCount(n) -> Byte]
  BY <1>1 DEF Pack, Byte
<1>. QED
  BY <1>1, <1>2

\* What Unpack returns has the type of states.
LEMMA UnpackType ==
    ASSUME NEW n \in Nat, NEW bytes \in [1 .. ByteCount(n) -> Byte]
    PROVE  Unpack(bytes, n) \in [1 .. n -> BOOLEAN]
<1>1. ASSUME NEW i \in 1 .. n
      PROVE  Bit(bytes, i) \in BOOLEAN
  <2>1. (i - 1) \div ByteSize + 1 \in 1 .. ByteCount(n) /\ (i - 1) % ByteSize \in 0 .. ByteSize - 1
    BY ByteOfState
  <2>. QED
    BY <2>1 DEF Bit, Byte
<1>. QED
  BY <1>1 DEF Unpack

LEMMA BitOfPackedByte ==
    ASSUME NEW s, NEW b \in 1 .. ByteCount(Len(s)), NEW bit \in 0 .. ByteSize - 1
    PROVE  Pack(s)[b][bit] = LET i == (b - 1) * ByteSize + bit + 1
                             IN  i \in DOMAIN s /\ s[i]
  BY Zenon DEF Pack

LEMMA BitOfPack ==
    ASSUME NEW n \in Nat, NEW s \in [1 .. n -> BOOLEAN], NEW i \in 1 .. n
    PROVE  Bit(Pack(s), i) = s[i]
<1> DEFINE b == (i - 1) \div ByteSize + 1
           bit == (i - 1) % ByteSize
<1>1. Len(s) = n
  OBVIOUS
<1>2. b \in 1 .. ByteCount(Len(s)) /\ bit \in 0 .. ByteSize - 1
  BY <1>1, ByteOfState
<1>3. (b - 1) * ByteSize + bit + 1 = i
  <2>1. i - 1 \in Nat
    OBVIOUS
  <2>2. (i - 1) \div ByteSize \in Nat
    BY <2>1, DivMod
  <2>. QED
    BY <2>2, ByteOfState
<1>4. Bit(Pack(s), i) = Pack(s)[b][bit]
  BY DEF Bit
<1> HIDE DEF b, bit
<1>5. Pack(s)[b][bit] = (i \in DOMAIN s /\ s[i])
  BY <1>2, <1>3, BitOfPackedByte, Zenon
<1>6. s[i] \in BOOLEAN /\ i \in DOMAIN s
  OBVIOUS
<1>. QED
  BY <1>4, <1>5, <1>6, Zenon

\* Packed states read back are the states.
LEMMA UnpackOfPack ==
    ASSUME NEW n \in Nat, NEW s \in [1 .. n -> BOOLEAN]
    PROVE  Unpack(Pack(s), n) = s
  BY BitOfPack DEF Unpack

\* The bits of the last byte that stand for no state are clear.
LEMMA TailOfPack ==
    ASSUME NEW n \in Nat, NEW s \in [1 .. n -> BOOLEAN]
    PROVE  HasZeroUnusedPackedTailBits(Pack(s), n)
<1> SUFFICES ASSUME n % ByteSize # 0, NEW bit \in n % ByteSize .. ByteSize - 1
             PROVE  ~Pack(s)[Len(Pack(s))][bit]
  BY DEF HasZeroUnusedPackedTailBits
<1> DEFINE b == n \div ByteSize + 1
           i == (b - 1) * ByteSize + bit + 1
<1>1. /\ n \div ByteSize \in Nat /\ n % ByteSize \in 0 .. ByteSize - 1
      /\ n = (n \div ByteSize) * ByteSize + (n % ByteSize)
  BY DivMod
<1>2. bit \in 0 .. ByteSize - 1 /\ i > n
  BY <1>1, ByteSizeType, SMT
<1>3. Len(s) = n /\ Len(Pack(s)) = b /\ b \in 1 .. ByteCount(Len(s))
  BY <1>1, PackType, LastByte
<1> HIDE DEF b
<1>4. Pack(s)[b][bit] = (i \in DOMAIN s /\ s[i])
  BY <1>2, <1>3, BitOfPackedByte, Zenon
<1>5. i \notin DOMAIN s
  BY <1>2
<1>. QED
  BY <1>3, <1>4, <1>5

-----------------------------------------------------------------------------
(* Devices, their places and what a click votes on *)

LEMMA LayoutType ==
    ASSUME NEW d \in Devices
    PROVE  /\ Len(Layout[d]) \in Nat
           /\ DOMAIN Layout[d] = 1 .. Len(Layout[d])
           /\ \A i \in DOMAIN Layout[d] : Layout[d][i] \in Ids(d)
           /\ \A i, j \in DOMAIN Layout[d] : i # j => Layout[d][i] # Layout[d][j]
           /\ States(d) = [1 .. Len(Layout[d]) -> BOOLEAN]
           /\ Unknown \notin States(d)
<1>1. Layout[d] \in Seq(Ids(d))
  BY CommandAssumption
<1>2. Len(Layout[d]) \in Nat /\ DOMAIN Layout[d] = 1 .. Len(Layout[d])
  BY <1>1
<1>. QED
  BY <1>2, CommandAssumption DEF States, Ids

LEMMA ImageFinite ==
    ASSUME NEW S, IsFiniteSet(S), NEW f, DOMAIN f = S, NEW T, T = {f[x] : x \in S},
           f \in [S -> T]
    PROVE  IsFiniteSet(T)
<1>1. f \in Surjection(S, T)
  BY DEF Surjection
<1>. QED
  BY <1>1, FS_Surjection

LEMMA IdsFinite == ASSUME NEW d \in Devices PROVE IsFiniteSet(Ids(d))
<1>1. IsFiniteSet(1 .. Len(Layout[d]))
  BY LayoutType, FS_Interval
<1>2. IsFiniteSet(DOMAIN Layout[d])
  BY <1>1, LayoutType
<1>3. Layout[d] \in [DOMAIN Layout[d] -> Ids(d)]
  <2>1. Layout[d] \in Seq(Ids(d))
    BY CommandAssumption
  <2>. QED
    BY <2>1
<1>. QED
  BY <1>2, <1>3, ImageFinite DEF Ids

LEMMA ActorType ==
    ASSUME NEW action \in Actions, NEW x \in action.actors
    PROVE  /\ x \in Actor /\ x.name \in Devices /\ x.all \in BOOLEAN
           /\ x.actuators \in SUBSET Ids(x.name)
           /\ x.all <=> x.actuators = {}
  BY CommandAssumption DEF Action, Actor

LEMMA PlacesFinite ==
    ASSUME NEW action \in Actions, NEW actors \in SUBSET action.actors
    PROVE  IsFiniteSet(Places(actors))
<1>1. IsFiniteSet(actors)
  BY CommandAssumption, FS_Subset
<1> DEFINE Of(x) == {<<x.name, i>> : i \in Targets(x)}
<1>2. ASSUME NEW x \in actors
      PROVE  IsFiniteSet(Of(x))
  <2> DEFINE f == [i \in Targets(x) |-> <<x.name, i>>]
  <2>1. IsFiniteSet(1 .. Len(Layout[x.name])) /\ DOMAIN Layout[x.name] = 1 .. Len(Layout[x.name])
    BY ActorType, LayoutType, FS_Interval
  <2>2. Targets(x) \in SUBSET (1 .. Len(Layout[x.name]))
    BY <2>1 DEF Targets
  <2>3. IsFiniteSet(Targets(x))
    BY <2>1, <2>2, FS_Subset
  <2>4. Of(x) = {f[i] : i \in Targets(x)} /\ f \in [Targets(x) -> Of(x)]
    OBVIOUS
  <2> HIDE DEF Of
  <2>. QED
    BY <2>3, <2>4, ImageFinite
<1> DEFINE g == [x \in actors |-> Of(x)]
           T == {Of(x) : x \in actors}
<1>3. IsFiniteSet(T)
  <2>1. T = {g[x] : x \in actors} /\ g \in [actors -> T] /\ DOMAIN g = actors
    OBVIOUS
  <2> HIDE DEF T, g
  <2>. QED
    BY <1>1, <2>1, ImageFinite
<1>4. \A t \in T : IsFiniteSet(t)
  BY <1>2
<1>5. Places(actors) = UNION T
  BY DEF Places
<1> HIDE DEF T
<1>. QED
  BY <1>3, <1>4, <1>5, FS_UNION

LEMMA VoteType ==
    ASSUME NEW actors, NEW other
    PROVE  SmartToggleState(actors, other) \in BOOLEAN \cup {Unknown}
<1> DEFINE known == {p \in Places(actors) : states[p[1]] # Unknown}
           active == {p \in known : states[p[1]][p[2]]}
           total == Cardinality(known) + (IF other = Unknown THEN 0 ELSE 1)
           on == Cardinality(active) + (IF other = TRUE THEN 1 ELSE 0)
<1>1. SmartToggleState(actors, other) = IF total = 0 THEN Unknown ELSE 2 * on < total
  BY DEF SmartToggleState
<1> HIDE DEF total, on
<1>2. CASE total = 0
  BY <1>1, <1>2
<1>3. CASE total # 0
  <2>1. SmartToggleState(actors, other) = (2 * on < total)
    BY <1>1, <1>3, Zenon
  <2>. QED
    BY <2>1, SMT
<1>. QED
  BY <1>2, <1>3

\* Where the cached states are the outputs the vote decides as the outputs say.
LEMMA VoteFromOutputs ==
    ASSUME NEW actors, IsFiniteSet(Places(actors)), NEW other \in BOOLEAN \cup {Unknown},
           \A p \in Places(actors) : states[p[1]] # Unknown /\ states[p[1]] = outputs[p[1]],
           SmartToggleState(actors, other) # Unknown
    PROVE  SmartToggleState(actors, other) = DecisionFromOutputs(actors, other)
<1> DEFINE places == Places(actors)
           active == {p \in places : states[p[1]][p[2]]}
           off == {p \in places : ~outputs[p[1]][p[2]]}
           total == Cardinality(places) + (IF other = Unknown THEN 0 ELSE 1)
           on == Cardinality(active) + (IF other = TRUE THEN 1 ELSE 0)
           notOn == Cardinality(off) + (IF other = FALSE THEN 1 ELSE 0)
           onOutputs == Cardinality(places \ off) + (IF other = TRUE THEN 1 ELSE 0)
<1>1. {p \in places : states[p[1]] # Unknown} = places
  OBVIOUS
<1>2. active = places \ off
  OBVIOUS
<1>3. /\ Cardinality(places) \in Nat /\ Cardinality(off) \in Nat
      /\ Cardinality(places \ off) = Cardinality(places) - Cardinality(off)
  <2>1. places \cap off = off /\ off \in SUBSET places
    OBVIOUS
  <2> HIDE DEF off
  <2>2. IsFiniteSet(off)
    BY <2>1, FS_Subset
  <2>. QED
    BY <2>1, <2>2, FS_Difference, FS_CardinalityType
<1>4. SmartToggleState(actors, other) = (2 * on < total)
  BY <1>1, Zenon DEF SmartToggleState
<1>5. DecisionFromOutputs(actors, other) = (notOn > onOutputs)
  BY Zenon DEF DecisionFromOutputs
<1>6. 2 * on < total <=> notOn > onOutputs
  <2>1. TRUE # FALSE /\ Unknown # TRUE /\ Unknown # FALSE
    BY CommandAssumption
  <2> HIDE DEF places, active, off
  <2>2. CASE other = TRUE
    <3>1. /\ total = Cardinality(places) + 1 /\ on = Cardinality(active) + 1
          /\ notOn = Cardinality(off) + 0 /\ onOutputs = Cardinality(places \ off) + 1
      BY <2>1, <2>2, Zenon
    <3>. QED
      BY <1>2, <1>3, <3>1
  <2>3. CASE other = FALSE
    <3>1. /\ total = Cardinality(places) + 1 /\ on = Cardinality(active) + 0
          /\ notOn = Cardinality(off) + 1 /\ onOutputs = Cardinality(places \ off) + 0
      BY <2>1, <2>3, Zenon
    <3>. QED
      BY <1>2, <1>3, <3>1
  <2>4. CASE other = Unknown
    <3>1. /\ total = Cardinality(places) + 0 /\ on = Cardinality(active) + 0
          /\ notOn = Cardinality(off) + 0 /\ onOutputs = Cardinality(places \ off) + 0
      BY <2>1, <2>4, Zenon
    <3>. QED
      BY <1>2, <1>3, <3>1
  <2>. QED
    BY <2>2, <2>3, <2>4
<1> HIDE DEF total, on, notOn, onOutputs
<1>7. SmartToggleState(actors, other) \in BOOLEAN /\ DecisionFromOutputs(actors, other) \in BOOLEAN
  BY <1>4, <1>5, SMT
<1>8. SmartToggleState(actors, other) <=> 2 * on < total
  BY <1>4, Zenon
<1>9. DecisionFromOutputs(actors, other) <=> notOn > onOutputs
  BY <1>5, Zenon
<1>. QED
  BY <1>6, <1>7, <1>8, <1>9

-----------------------------------------------------------------------------
(* Queues of commands *)

LEMMA AppendLeads ==
    ASSUME NEW d \in Devices, NEW S, NEW queue \in Seq(S), NEW c \in S,
           NEW out, NEW want, NEW want2,
           QueueLeadsTo(d, queue, out, want),
           \A i \in DOMAIN Layout[d] :
               want2[i] = IF Sets(d, c, i) THEN ValueOf(c, i) ELSE want[i]
    PROVE  QueueLeadsTo(d, Append(queue, c), out, want2)
<1> DEFINE n == Len(queue)
           longer == Append(queue, c)
<1>1. /\ n \in Nat /\ Len(longer) = n + 1
      /\ \A k \in 1 .. n : longer[k] = queue[k]
      /\ longer[n + 1] = c
  BY LenProperties, AppendProperties
<1> HIDE DEF longer, n
<1> SUFFICES ASSUME NEW i \in DOMAIN Layout[d]
             PROVE  /\ (\A k \in 1 .. n + 1 : ~Sets(d, longer[k], i)) => want2[i] = out[i]
                    /\ \A k \in 1 .. n + 1 :
                         Sets(d, longer[k], i) /\ (\A l \in k + 1 .. n + 1 : ~Sets(d, longer[l], i))
                           => want2[i] = ValueOf(longer[k], i)
  BY <1>1, Zenon DEF QueueLeadsTo, longer
<1>2. /\ (\A k \in 1 .. n : ~Sets(d, queue[k], i)) => want[i] = out[i]
      /\ \A k \in 1 .. n :
           Sets(d, queue[k], i) /\ (\A l \in k + 1 .. n : ~Sets(d, queue[l], i))
             => want[i] = ValueOf(queue[k], i)
  BY DEF QueueLeadsTo, n
<1>3. ASSUME \A k \in 1 .. n + 1 : ~Sets(d, longer[k], i)
      PROVE  want2[i] = out[i]
  <2>1. ~Sets(d, c, i)
    BY <1>1, <1>3
  <2>2. \A k \in 1 .. n : ~Sets(d, queue[k], i)
    BY <1>1, <1>3
  <2>. QED
    BY <1>2, <2>1, <2>2
<1>4. ASSUME NEW k \in 1 .. n + 1, Sets(d, longer[k], i),
             \A l \in k + 1 .. n + 1 : ~Sets(d, longer[l], i)
      PROVE  want2[i] = ValueOf(longer[k], i)
  <2>1. CASE k = n + 1
    BY <1>1, <1>4, <2>1
  <2>2. CASE k \in 1 .. n
    <3>1. ~Sets(d, c, i)
      BY <1>1, <1>4, <2>2
    <3>2. \A l \in k + 1 .. n : ~Sets(d, queue[l], i)
      BY <1>1, <1>4, <2>2
    <3>. QED
      BY <1>1, <1>2, <1>4, <2>2, <3>1, <3>2
  <2>. QED
    BY <1>1, <2>1, <2>2
<1>. QED
  BY <1>3, <1>4

LEMMA TailLeads ==
    ASSUME NEW d \in Devices, NEW S, NEW queue \in Seq(S), queue # <<>>,
           NEW out, NEW want, NEW out2,
           QueueLeadsTo(d, queue, out, want),
           \A i \in DOMAIN Layout[d] :
               out2[i] = IF Sets(d, Head(queue), i) THEN ValueOf(Head(queue), i) ELSE out[i]
    PROVE  QueueLeadsTo(d, Tail(queue), out2, want)
<1> DEFINE n == Len(queue) - 1
           rest == Tail(queue)
           c == Head(queue)
<1>1. /\ n \in Nat /\ Len(queue) = n + 1 /\ Len(rest) = n
      /\ \A k \in 1 .. n : rest[k] = queue[k + 1]
      /\ c = queue[1]
  BY LenProperties, HeadTailProperties, EmptySeq
<1> HIDE DEF rest, n, c
<1> SUFFICES ASSUME NEW i \in DOMAIN Layout[d]
             PROVE  /\ (\A k \in 1 .. n : ~Sets(d, rest[k], i)) => want[i] = out2[i]
                    /\ \A k \in 1 .. n :
                         Sets(d, rest[k], i) /\ (\A l \in k + 1 .. n : ~Sets(d, rest[l], i))
                           => want[i] = ValueOf(rest[k], i)
  BY <1>1, Zenon DEF QueueLeadsTo, rest
<1>2. /\ (\A k \in 1 .. n + 1 : ~Sets(d, queue[k], i)) => want[i] = out[i]
      /\ \A k \in 1 .. n + 1 :
           Sets(d, queue[k], i) /\ (\A l \in k + 1 .. n + 1 : ~Sets(d, queue[l], i))
             => want[i] = ValueOf(queue[k], i)
  BY <1>1 DEF QueueLeadsTo
<1>3. out2[i] = IF Sets(d, c, i) THEN ValueOf(c, i) ELSE out[i]
  BY DEF c
<1>4. ASSUME \A k \in 1 .. n : ~Sets(d, rest[k], i)
      PROVE  want[i] = out2[i]
  <2>1. \A l \in 2 .. n + 1 : l - 1 \in 1 .. n /\ queue[l] = rest[l - 1]
    BY <1>1
  <2>2. \A l \in 2 .. n + 1 : ~Sets(d, queue[l], i)
    BY <1>4, <2>1
  <2>3. CASE Sets(d, c, i)
    BY <1>1, <1>2, <1>3, <2>2, <2>3
  <2>4. CASE ~Sets(d, c, i)
    <3>1. \A k \in 1 .. n + 1 : ~Sets(d, queue[k], i)
      BY <1>1, <2>2, <2>4
    <3>. QED
      BY <1>2, <1>3, <2>4, <3>1
  <2>. QED
    BY <2>3, <2>4
<1>5. ASSUME NEW k \in 1 .. n, Sets(d, rest[k], i),
             \A l \in k + 1 .. n : ~Sets(d, rest[l], i)
      PROVE  want[i] = ValueOf(rest[k], i)
  <2>1. k + 1 \in 1 .. n + 1 /\ Sets(d, queue[k + 1], i)
    BY <1>1, <1>5
  <2>2. \A l \in k + 2 .. n + 1 : l - 1 \in k + 1 .. n /\ queue[l] = rest[l - 1]
    BY <1>1
  <2>3. \A l \in k + 1 + 1 .. n + 1 : ~Sets(d, queue[l], i)
    BY <1>1, <1>5, <2>2
  <2>. QED
    BY <1>1, <1>2, <2>1, <2>3
<1>. QED
  BY <1>4, <1>5

LEMMA EmptyLeads ==
    ASSUME NEW d \in Devices, NEW out \in States(d), NEW want \in States(d)
    PROVE  QueueLeadsTo(d, <<>>, out, want) <=> want = out
<1>1. Len(<<>>) = 0 /\ \A k \in 1 .. 0 : FALSE
  OBVIOUS
<1>. QED
  BY <1>1, LayoutType DEF QueueLeadsTo, States

-----------------------------------------------------------------------------
(* The command of a click *)

\* An actor of a configured action.
IsActor(x) ==
    /\ x.name \in Devices /\ x.all \in BOOLEAN
    /\ x.actuators \in SUBSET Ids(x.name)
    /\ x.all <=> x.actuators = {}

\* A command to a single actuator sets just that one.
LEMMA SingleCommand ==
    ASSUME NEW x, IsActor(x), NEW value \in BOOLEAN,
           ~x.all, Cardinality(x.actuators) = 1
    PROVE  /\ StateCommand(x, value) \in Command(x.name)
           /\ \A i \in DOMAIN Layout[x.name] :
                /\ Sets(x.name, StateCommand(x, value), i) <=> i \in Targets(x)
                /\ ValueOf(StateCommand(x, value), i) = value
<1> DEFINE id == CHOOSE id \in x.actuators : TRUE
           c == [id |-> id, value |-> value]
<1>1. StateCommand(x, value) = c
  BY Zenon DEF StateCommand
<1>2. x.actuators = {id} /\ id \in Ids(x.name)
  <2>1. IsFiniteSet(x.actuators)
    BY IdsFinite, FS_Subset DEF IsActor
  <2>2. PICK e : x.actuators = {e}
    BY <2>1, FS_Singleton
  <2>. QED
    BY <2>2 DEF IsActor
<1> HIDE DEF id
<1>3. c \in [id : Ids(x.name), value : BOOLEAN] /\ "packed" \notin DOMAIN c
      /\ c.id = id /\ c.value = value
  BY <1>2
<1> HIDE DEF c
<1>4. c \in Command(x.name)
  BY <1>3 DEF Command
<1>5. \A i \in DOMAIN Layout[x.name] :
        (Sets(x.name, c, i) <=> i \in Targets(x)) /\ ValueOf(c, i) = value
  BY <1>2, <1>3 DEF Sets, ValueOf, Targets
<1>. QED
  BY <1>1, <1>4, <1>5

\* A packed command sets every output: those of the actor to the value, the
\* others to the cached states.
LEMMA PackedCommand ==
    ASSUME NEW x, IsActor(x), NEW value \in BOOLEAN,
           x.all \/ Cardinality(x.actuators) # 1,
           x.all \/ states[x.name] \in States(x.name)
    PROVE  /\ StateCommand(x, value) \in Command(x.name)
           /\ \A i \in DOMAIN Layout[x.name] :
                /\ Sets(x.name, StateCommand(x, value), i)
                /\ ValueOf(StateCommand(x, value), i) =
                     IF i \in Targets(x) THEN value ELSE states[x.name][i]
<1> DEFINE n == Len(Layout[x.name])
           s == ActorStates(x, value)
           c == [packed |-> Pack(s)]
<1>1. StateCommand(x, value) = c
  BY Zenon DEF StateCommand
<1>2. /\ x.name \in Devices /\ n \in Nat /\ DOMAIN Layout[x.name] = 1 .. n
      /\ States(x.name) = [1 .. n -> BOOLEAN]
  BY LayoutType DEF IsActor
<1>3. /\ s \in [1 .. n -> BOOLEAN]
      /\ \A i \in 1 .. n : s[i] = IF i \in Targets(x) THEN value ELSE states[x.name][i]
  <2>1. CASE x.all
    <3>1. Targets(x) = 1 .. n
      BY <1>2, <2>1 DEF Targets
    <3>. QED
      BY <1>2, <3>1 DEF ActorStates
  <2>2. CASE ~x.all
    BY <1>2, <2>2 DEF ActorStates
  <2>. QED
    BY <2>1, <2>2
<1> HIDE DEF s
<1>4. Pack(s) \in Bytes(x.name)
  BY <1>2, <1>3, PackType DEF Bytes
<1>5. c \in [packed : Bytes(x.name)] /\ "packed" \in DOMAIN c /\ c.packed = Pack(s)
  BY <1>4
<1> HIDE DEF c
<1>6. c \in Command(x.name)
  BY <1>5 DEF Command
<1>7. \A i \in 1 .. n : Sets(x.name, c, i) /\ ValueOf(c, i) = s[i]
  <2>1. \A i \in 1 .. n : Bit(Pack(s), i) = s[i]
    BY <1>2, <1>3, BitOfPack
  <2>. QED
    BY <1>5, <2>1 DEF Sets, ValueOf
<1> HIDE DEF n
<1>. QED
  BY <1>1, <1>2, <1>3, <1>6, <1>7, Zenon

\* What a command makes of the outputs, setting by setting.
LEMMA ApplyEffect ==
    ASSUME TypeOK, NEW d \in Devices, Apply(d)
    PROVE  /\ outputs'[d] \in States(d)
           /\ \A i \in DOMAIN Layout[d] :
                outputs'[d][i] = IF Sets(d, Head(commands[d]), i)
                                 THEN ValueOf(Head(commands[d]), i) ELSE outputs[d][i]
<1> DEFINE c == Head(commands[d])
           n == Len(Layout[d])
<1>1. c \in Command(d)
  BY HeadTailProperties DEF TypeOK, Apply
<1>2. n \in Nat /\ DOMAIN Layout[d] = 1 .. n /\ States(d) = [1 .. n -> BOOLEAN]
  BY LayoutType
<1>3. outputs[d] \in [1 .. n -> BOOLEAN]
  BY <1>2 DEF TypeOK
<1>4. outputs'[d] = IF "packed" \in DOMAIN c THEN Unpack(c.packed, n)
                    ELSE [i \in DOMAIN outputs[d] |->
                             IF Layout[d][i] = c.id THEN c.value ELSE outputs[d][i]]
  BY DEF Apply, TypeOK
<1>5. CASE c \in [packed : Bytes(d)]
  <2>1. "packed" \in DOMAIN c /\ c.packed \in Bytes(d)
    BY <1>5
  <2>2. outputs'[d] = Unpack(c.packed, n)
    BY <1>4, <2>1
  <2>3. outputs'[d] \in States(d)
    BY <1>2, <2>1, <2>2, UnpackType DEF Bytes
  <2>4. \A i \in 1 .. n : outputs'[d][i] = Bit(c.packed, i)
    BY <2>2 DEF Unpack
  <2>. QED
    BY <1>2, <2>1, <2>3, <2>4 DEF Sets, ValueOf
<1>6. CASE c \in [id : Ids(d), value : BOOLEAN]
  <2>1. "packed" \notin DOMAIN c /\ c.value \in BOOLEAN
    BY <1>6
  <2>2. outputs'[d] = [i \in 1 .. n |-> IF Layout[d][i] = c.id THEN c.value ELSE outputs[d][i]]
    BY <1>3, <1>4, <2>1
  <2> HIDE DEF n, c
  <2>. QED
    BY <1>2, <1>3, <2>1, <2>2 DEF Sets, ValueOf, c
<1>. QED
  BY <1>1, <1>5, <1>6 DEF Command

LEMMA ClickFrame ==
    ASSUME ConfirmClick
    PROVE  /\ UNCHANGED <<outputs, states, reports>>
           /\ DOMAIN commands' = Devices /\ DOMAIN expected' = Devices
  BY DEF ConfirmClick, ExecuteClick

\* A click sends its targets one command each, for the value their votes decide
\* as a bystander would, and leaves everything else alone.
LEMMA ClickStep ==
    ASSUME TypeOK, KnownStatesCurrent, ConfirmClick, NEW d \in Devices
    PROVE  \/ commands'[d] = commands[d] /\ expected'[d] = expected[d]
           \/ \E x : \E value \in BOOLEAN :
                /\ IsActor(x) /\ x.name = d
                /\ x.all \/ states[d] \in States(d)
                /\ commands'[d] = Append(commands[d], StateCommand(x, value))
                /\ expected'[d] = Wanted(x, value)
<1>1. PICK action \in Actions, long \in BOOLEAN, other \in BOOLEAN \cup {Unknown} :
        ExecuteClick(action, long, other)
  BY Zenon DEF ConfirmClick
<1> DEFINE able == {x \in action.actors : CanHandleClick(x, long)}
           value == IF long THEN SmartToggleState(able, other) ELSE FALSE
           wanted == IF long /\ \A x \in able : Quiet(x.name)
                     THEN DecisionFromOutputs(able, other) ELSE value
           actorOf(e) == CHOOSE x \in able : x.name = e
           names == {x.name : x \in able}
<1>2. /\ value # Unknown
      /\ commands' = [e \in Devices |->
                         IF e \in names THEN Append(commands[e], StateCommand(actorOf(e), value))
                         ELSE commands[e]]
      /\ expected' = [e \in Devices |->
                         IF e \in names THEN Wanted(actorOf(e), wanted) ELSE expected[e]]
  BY <1>1, Zenon DEF ExecuteClick
<1>3. \A x \in able : /\ IsActor(x)
                      /\ long \/ ~x.all => states[x.name] \in States(x.name)
                      /\ long \/ ~x.all => states[x.name] # Unknown
  BY ActorType DEF IsActor, CanHandleClick, TypeOK
<1>4. value \in BOOLEAN
  <2>1. CASE long
    BY <1>2, <2>1, VoteType
  <2>2. CASE ~long
    BY <2>2
  <2>. QED
    BY <2>1, <2>2
<1>5. wanted = value
  <2>1. CASE long /\ \A x \in able : Quiet(x.name)
    <3>1. IsFiniteSet(Places(able))
      BY PlacesFinite
    <3>2. ASSUME NEW p \in Places(able)
          PROVE  states[p[1]] # Unknown /\ states[p[1]] = outputs[p[1]]
      <4>1. PICK x \in able : p[1] = x.name
        BY DEF Places
      <4>2. states[x.name] # Unknown /\ reports[x.name] = <<>> /\ x.name \in Devices
        BY <1>3, <2>1 DEF Quiet, IsActor
      <4>. QED
        BY <4>1, <4>2 DEF KnownStatesCurrent
    <3>3. SmartToggleState(able, other) = value /\ wanted = DecisionFromOutputs(able, other)
      BY <2>1
    <3> HIDE DEF able, value, wanted
    <3>. QED
      BY <1>2, <3>1, <3>2, <3>3, VoteFromOutputs
  <2>2. CASE ~(long /\ \A x \in able : Quiet(x.name))
    BY <2>2
  <2>. QED
    BY <2>1, <2>2
<1> HIDE DEF value, wanted
<1>7. CASE d \in names
  <2> DEFINE x == actorOf(d)
  <2>1. x \in able /\ x.name = d
    BY <1>7
  <2>2. /\ commands'[d] = Append(commands[d], StateCommand(x, value))
        /\ expected'[d] = Wanted(x, value)
    BY <1>2, <1>5, <1>7
  <2> HIDE DEF x
  <2>3. IsActor(x) /\ (x.all \/ states[d] \in States(d))
    BY <1>3, <2>1 DEF IsActor
  <2>. QED
    BY <1>4, <2>1, <2>2, <2>3
<1>8. CASE d \notin names
  BY <1>2, <1>8
<1>. QED
  BY <1>7, <1>8

LEMMA WantedType ==
    ASSUME TypeOK, NEW x, IsActor(x), NEW value \in BOOLEAN
    PROVE  Wanted(x, value) \in States(x.name) \cup {Unknown}
<1>1. x.name \in Devices
  BY DEF IsActor
<1>2. expected[x.name] # Unknown => expected[x.name] \in States(x.name)
  BY <1>1 DEF TypeOK
<1>. QED
  BY <1>1, <1>2 DEF Wanted, States

\* Every command of a click has its type, whichever form it takes.
LEMMA StateCommandType ==
    ASSUME NEW x, IsActor(x), NEW value \in BOOLEAN,
           x.all \/ states[x.name] \in States(x.name)
    PROVE  StateCommand(x, value) \in Command(x.name)
<1>1. CASE ~x.all /\ Cardinality(x.actuators) = 1
  BY <1>1, SingleCommand
<1>2. CASE x.all \/ Cardinality(x.actuators) # 1
  BY <1>2, PackedCommand
<1>. QED
  BY <1>1, <1>2

\* What reading a report of the current outputs makes of the cached states.
LEMMA ReportRead ==
    ASSUME TypeOK, NEW d \in Devices, HandleLshState(d)
    PROVE  /\ states'[d] \in States(d) \cup {Unknown}
           /\ Head(reports[d]) = Pack(outputs[d]) => states'[d] = outputs[d]
           /\ \A e \in Devices : e # d => states'[e] = states[e]
           /\ DOMAIN states' = Devices
<1> DEFINE bytes == Head(reports[d])
           n == Len(Layout[d])
<1>1. /\ n \in Nat /\ States(d) = [1 .. n -> BOOLEAN]
      /\ outputs[d] \in [1 .. n -> BOOLEAN] /\ DOMAIN states = Devices
      /\ states[d] \in States(d) \cup {Unknown}
  BY LayoutType DEF TypeOK
<1>2. bytes \in [1 .. ByteCount(n) -> Byte]
  BY HeadTailProperties DEF TypeOK, HandleLshState, Bytes
<1>3. IF Len(bytes) = ByteCount(n) /\ HasZeroUnusedPackedTailBits(bytes, n)
      THEN states' = [states EXCEPT ![d] = Unpack(bytes, n)]
      ELSE states' = states
  BY DEF HandleLshState, RegisterActuatorStates
<1>4. Unpack(bytes, n) \in States(d)
  BY <1>1, <1>2, UnpackType
<1>5. ASSUME bytes = Pack(outputs[d])
      PROVE  states'[d] = outputs[d]
  <2> DEFINE s == outputs[d]
  <2>1. n \in Nat /\ s \in [1 .. n -> BOOLEAN]
    BY <1>1
  <2> HIDE DEF n, s
  <2>2. Len(Pack(s)) = ByteCount(n)
    BY <2>1, PackType
  <2>3. HasZeroUnusedPackedTailBits(Pack(s), n)
    BY <2>1, TailOfPack
  <2>4. Unpack(Pack(s), n) = s
    BY <2>1, UnpackOfPack
  <2> HIDE DEF bytes
  <2>5. bytes = Pack(s)
    BY <1>5 DEF s
  <2>6. states' = [states EXCEPT ![d] = s]
    BY <1>3, <2>2, <2>3, <2>4, <2>5
  <2>. QED
    BY <1>1, <2>6 DEF s
<1> HIDE DEF bytes, n
<1>6. states'[d] \in States(d) \cup {Unknown}
  BY <1>1, <1>3, <1>4
<1>7. (\A e \in Devices : e # d => states'[e] = states[e]) /\ DOMAIN states' = Devices
  BY <1>1, <1>3
<1>. QED
  BY <1>5, <1>6, <1>7 DEF bytes

-----------------------------------------------------------------------------
(* The steps *)

LEMMA TypeStep == ASSUME TypeOK, KnownStatesCurrent, [Next]_vars PROVE TypeOK'
<1>1. CASE ConfirmClick
  <2>1. ASSUME NEW d \in Devices
        PROVE  commands'[d] \in Seq(Command(d)) /\ expected'[d] \in States(d) \cup {Unknown}
    <3>1. CASE commands'[d] = commands[d] /\ expected'[d] = expected[d]
      BY <3>1 DEF TypeOK
    <3>2. ASSUME NEW x, NEW value \in BOOLEAN, IsActor(x), x.name = d,
                 x.all \/ states[d] \in States(d),
                 commands'[d] = Append(commands[d], StateCommand(x, value)),
                 expected'[d] = Wanted(x, value)
          PROVE  commands'[d] \in Seq(Command(d)) /\ expected'[d] \in States(d) \cup {Unknown}
      <4>1. StateCommand(x, value) \in Command(d)
        BY <3>2, StateCommandType
      <4>. QED
        BY <3>2, <4>1, WantedType, AppendProperties DEF TypeOK
    <3>. QED
      BY <1>1, <3>1, <3>2, ClickStep
  <2>2. /\ UNCHANGED <<outputs, states, reports>>
        /\ DOMAIN commands' = Devices /\ DOMAIN expected' = Devices
    BY <1>1, ClickFrame
  <2>. QED
    BY <2>1, <2>2 DEF TypeOK
<1>2. CASE UNCHANGED vars
  BY <1>2 DEF TypeOK, vars
<1>3. ASSUME NEW d \in Devices, HandleLshState(d)
      PROVE  TypeOK'
  <2>1. /\ reports' = [reports EXCEPT ![d] = Tail(@)] /\ reports[d] # <<>>
        /\ UNCHANGED <<outputs, commands, expected>>
    BY <1>3 DEF HandleLshState
  <2>2. Tail(reports[d]) \in Seq(Bytes(d))
    BY <2>1, HeadTailProperties DEF TypeOK
  <2>. QED
    BY <1>3, <2>1, <2>2, ReportRead DEF TypeOK
<1>4. ASSUME NEW d \in Devices, ForgetStates(d)
      PROVE  TypeOK'
  BY <1>4 DEF ForgetStates, TypeOK
<1>5. ASSUME NEW d \in Devices, Report(d), outputs'[d] \in States(d)
      PROVE  /\ DOMAIN reports' = Devices
             /\ \A e \in Devices : reports'[e] \in Seq(Bytes(e))
  <2>1. Pack(outputs'[d]) \in Bytes(d)
    BY <1>5, LayoutType, PackType DEF Bytes
  <2>2. Append(reports[d], Pack(outputs'[d])) \in Seq(Bytes(d))
    BY <2>1, AppendProperties DEF TypeOK
  <2>. QED
    BY <1>5, <2>2 DEF TypeOK, Report
<1>6. ASSUME NEW d \in Devices, Apply(d)
      PROVE  TypeOK'
  <2>1. /\ DOMAIN outputs' = Devices /\ DOMAIN commands' = Devices
        /\ \A e \in Devices : e # d => outputs'[e] = outputs[e] /\ commands'[e] = commands[e]
        /\ UNCHANGED <<states, expected>>
    BY <1>6 DEF Apply, TypeOK
  <2>2. outputs'[d] \in States(d)
    BY <1>6, ApplyEffect
  <2>3. commands'[d] \in Seq(Command(d))
    BY <1>6, HeadTailProperties DEF Apply, TypeOK
  <2>4. Report(d)
    BY <1>6 DEF Apply
  <2>. QED
    BY <1>5, <2>1, <2>2, <2>3, <2>4 DEF TypeOK
<1>7. ASSUME NEW d \in Devices, Republish(d)
      PROVE  TypeOK'
  <2>1. UNCHANGED <<outputs, states, commands, expected>> /\ Report(d)
    BY <1>7 DEF Republish
  <2>2. outputs'[d] \in States(d)
    BY <2>1 DEF TypeOK
  <2>. QED
    BY <1>5, <2>1, <2>2 DEF TypeOK
<1>8. ASSUME NEW d \in Devices, NEW i \in DOMAIN Layout[d], SwitchLocally(d, i)
      PROVE  TypeOK'
  <2>1. /\ outputs' = [outputs EXCEPT ![d][i] = ~@]
        /\ UNCHANGED <<states, commands>> /\ Report(d)
        /\ expected' = [expected EXCEPT ![d] =
                           IF commands[d] = <<>> THEN outputs'[d] ELSE Unknown]
    BY <1>8 DEF SwitchLocally
  <2>2. /\ DOMAIN outputs' = Devices /\ outputs'[d] \in States(d)
        /\ \A e \in Devices : e # d => outputs'[e] = outputs[e]
    BY <2>1 DEF TypeOK, States
  <2>. QED
    BY <1>5, <2>1, <2>2 DEF TypeOK
<1>. QED
  BY <1>1, <1>2, <1>3, <1>4, <1>6, <1>7, <1>8 DEF Next

\* The last report on its way shows the outputs; states without one do.
LEMMA ReportStep ==
    ASSUME TypeOK, LastReportCurrent, KnownStatesCurrent, [Next]_vars
    PROVE  LastReportCurrent' /\ KnownStatesCurrent'
<1> DEFINE Fresh(d) ==
        /\ reports[d] # <<>> => reports[d][Len(reports[d])] = Pack(outputs[d])
        /\ reports[d] = <<>> /\ states[d] # Unknown => states[d] = outputs[d]
<1>1. SUFFICES ASSUME NEW e \in Devices PROVE Fresh(e)'
  BY DEF LastReportCurrent, KnownStatesCurrent
<1>2. Fresh(e)
  BY DEF LastReportCurrent, KnownStatesCurrent
<1>3. CASE ConfirmClick
  BY <1>2, <1>3, ClickFrame
<1>4. CASE UNCHANGED vars
  BY <1>2, <1>4 DEF vars
<1>5. ASSUME NEW d \in Devices, HandleLshState(d)
      PROVE  Fresh(e)'
  <2>1. /\ reports' = [reports EXCEPT ![d] = Tail(@)] /\ reports[d] # <<>>
        /\ UNCHANGED outputs
    BY <1>5 DEF HandleLshState
  <2>2. CASE e # d
    BY <1>2, <1>5, <2>1, <2>2, ReportRead DEF TypeOK
  <2>3. CASE e = d
    <3>1. /\ reports'[d] = Tail(reports[d]) /\ reports[d] \in Seq(Bytes(d))
          /\ reports[d][Len(reports[d])] = Pack(outputs[d])
      BY <1>2, <2>1, <2>3 DEF TypeOK
    <3> DEFINE queue == reports[d]
               rest == Tail(queue)
    <3>2. /\ Len(queue) \in Nat \ {0} /\ Len(rest) = Len(queue) - 1
          /\ \A k \in 1 .. Len(rest) : rest[k] = queue[k + 1]
          /\ Head(queue) = queue[1] /\ rest \in Seq(Bytes(d))
      BY <2>1, <3>1, HeadTailProperties, EmptySeq
    <3>3. CASE rest = <<>>
      <4>1. Len(rest) = 0
        <5>1. Len(<<>>) = 0
          OBVIOUS
        <5>. QED
          BY <3>3, <5>1, Zenon
      <4>2. Head(queue) = Pack(outputs[d])
        <5> HIDE DEF rest
        <5>1. Len(queue) = 1
          BY <3>2, <4>1
        <5>. QED
          BY <3>1, <3>2, <5>1
      <4>. QED
        BY <1>5, <2>1, <2>3, <3>1, <3>3, <4>2, ReportRead
    <3>4. CASE rest # <<>>
      <4>1. Len(rest) \in Nat \ {0}
        BY <3>2, <3>4, EmptySeq
      <4> HIDE DEF queue, rest
      <4>2. rest[Len(rest)] = queue[Len(queue)]
        BY <3>2, <4>1
      <4>3. rest[Len(rest)] = Pack(outputs[d])
        BY <3>1, <4>2 DEF queue
      <4>. QED
        BY <2>1, <2>3, <3>1, <3>4, <4>3 DEF queue, rest
    <3>. QED
      BY <3>3, <3>4
  <2>. QED
    BY <2>2, <2>3
<1>6. ASSUME NEW d \in Devices, ForgetStates(d)
      PROVE  Fresh(e)'
  BY <1>2, <1>6 DEF ForgetStates, TypeOK
<1>7. ASSUME NEW d \in Devices, Report(d), UNCHANGED states,
             e # d => outputs'[e] = outputs[e]
      PROVE  Fresh(e)'
  <2>1. CASE e # d
    BY <1>2, <1>7, <2>1 DEF Report, TypeOK
  <2>2. CASE e = d
    <3>1. reports'[d] = Append(reports[d], Pack(outputs'[d])) /\ reports[d] \in Seq(Bytes(d))
      BY <1>7 DEF Report, TypeOK
    <3>2. reports[d] \in Seq(Bytes(d) \cup {Pack(outputs'[d])})
      BY <3>1, SeqMonotonic
    <3>3. /\ reports'[d] # <<>> /\ Len(reports'[d]) = Len(reports[d]) + 1
          /\ reports'[d][Len(reports[d]) + 1] = Pack(outputs'[d])
      BY <3>1, <3>2, AppendProperties
    <3>. QED
      BY <2>2, <3>3
  <2>. QED
    BY <2>1, <2>2
<1>8. ASSUME NEW d \in Devices, Apply(d)
      PROVE  Fresh(e)'
  <2>1. Report(d) /\ UNCHANGED states /\ (e # d => outputs'[e] = outputs[e])
    BY <1>8 DEF Apply, TypeOK
  <2>. QED
    BY <1>7, <2>1
<1>9. ASSUME NEW d \in Devices, Republish(d)
      PROVE  Fresh(e)'
  <2>1. Report(d) /\ UNCHANGED <<states, outputs>>
    BY <1>9 DEF Republish
  <2>. QED
    BY <1>7, <2>1
<1>10. ASSUME NEW d \in Devices, NEW i \in DOMAIN Layout[d], SwitchLocally(d, i)
       PROVE  Fresh(e)'
  <2>1. Report(d) /\ UNCHANGED states /\ (e # d => outputs'[e] = outputs[e])
    BY <1>10 DEF SwitchLocally, TypeOK
  <2>. QED
    BY <1>7, <2>1
<1>. QED
  BY <1>3, <1>4, <1>5, <1>6, <1>8, <1>9, <1>10 DEF Next

\* A click that is expected to have an effect appends a command with that effect.
LEMMA ClickLeads ==
    ASSUME TypeOK, KnownStatesCurrent, QueueLeadsToExpected, NEW x, IsActor(x),
           NEW value \in BOOLEAN, x.all \/ states[x.name] \in States(x.name),
           Wanted(x, value) # Unknown
    PROVE  QueueLeadsTo(x.name, Append(commands[x.name], StateCommand(x, value)),
                        outputs[x.name], Wanted(x, value))
<1> DEFINE d == x.name
           c == StateCommand(x, value)
           want == Wanted(x, value)
<1>1. /\ d \in Devices /\ commands[d] \in Seq(Command(d)) /\ c \in Command(d)
      /\ DOMAIN Layout[d] = 1 .. Len(Layout[d])
  BY StateCommandType, LayoutType DEF TypeOK, IsActor
<1>2. /\ expected[d] # Unknown /\ expected[d] \in States(d)
      /\ ~CarriesStates(x) \/ Quiet(d)
      /\ want = [i \in DOMAIN Layout[d] |-> IF i \in Targets(x) THEN value ELSE expected[d][i]]
  BY <1>1, Zenon DEF Wanted, TypeOK
<1>3. QueueLeadsTo(d, commands[d], outputs[d], expected[d])
  BY <1>1, <1>2 DEF QueueLeadsToExpected
<1>4. ASSUME NEW i \in DOMAIN Layout[d]
      PROVE  want[i] = IF Sets(d, c, i) THEN ValueOf(c, i) ELSE expected[d][i]
  <2>1. want[i] = IF i \in Targets(x) THEN value ELSE expected[d][i]
    BY <1>2
  <2>2. CASE ~x.all /\ Cardinality(x.actuators) = 1
    <3>1. (Sets(d, c, i) <=> i \in Targets(x)) /\ ValueOf(c, i) = value
      BY <2>2, SingleCommand
    <3>. QED
      BY <2>1, <3>1
  <2>3. CASE x.all \/ Cardinality(x.actuators) # 1
    <3>1. /\ Sets(d, c, i)
          /\ ValueOf(c, i) = IF i \in Targets(x) THEN value ELSE states[d][i]
      BY <2>3, PackedCommand
    <3>2. CASE x.all
      <4>1. i \in Targets(x)
        BY <3>2 DEF Targets
      <4>. QED
        BY <2>1, <3>1, <4>1
    <3>3. CASE ~x.all
      <4>1. commands[d] = <<>> /\ reports[d] = <<>>
        BY <1>2, <2>3, <3>3 DEF CarriesStates, Quiet
      <4>2. outputs[d] \in States(d) /\ states[d] \in States(d) /\ states[d] # Unknown
        BY <1>1, <3>3, LayoutType DEF TypeOK
      <4>3. states[d] = outputs[d]
        BY <1>1, <4>1, <4>2 DEF KnownStatesCurrent
      <4>4. expected[d] = outputs[d]
        BY <1>1, <1>2, <1>3, <4>1, <4>2, EmptyLeads
      <4>. QED
        BY <2>1, <3>1, <4>3, <4>4
    <3>. QED
      BY <3>2, <3>3
  <2>. QED
    BY <2>2, <2>3
<1> HIDE DEF d, c, want
<1>5. QueueLeadsTo(d, Append(commands[d], c), outputs[d], want)
  BY <1>1, <1>3, <1>4, AppendLeads
<1>. QED
  BY <1>5 DEF d, c, want

LEMMA QueueStep ==
    ASSUME TypeOK, KnownStatesCurrent, QueueLeadsToExpected, TypeOK', [Next]_vars
    PROVE  QueueLeadsToExpected'
<1>1. SUFFICES ASSUME NEW e \in Devices, expected'[e] # Unknown
               PROVE  QueueLeadsTo(e, commands'[e], outputs'[e], expected'[e])
  BY Zenon DEF QueueLeadsToExpected, QueueLeadsTo, Sets, ValueOf, Bit, Devices
<1>2. /\ outputs[e] \in States(e) /\ commands[e] \in Seq(Command(e))
      /\ expected[e] # Unknown => QueueLeadsTo(e, commands[e], outputs[e], expected[e])
  BY DEF TypeOK, QueueLeadsToExpected
<1>3. CASE ConfirmClick
  <2>1. outputs'[e] = outputs[e]
    BY <1>3, ClickFrame
  <2>2. CASE commands'[e] = commands[e] /\ expected'[e] = expected[e]
    BY <1>1, <1>2, <2>1, <2>2
  <2>3. ASSUME NEW x, NEW value \in BOOLEAN, IsActor(x), x.name = e,
               x.all \/ states[e] \in States(e),
               commands'[e] = Append(commands[e], StateCommand(x, value)),
               expected'[e] = Wanted(x, value)
        PROVE  QueueLeadsTo(e, commands'[e], outputs'[e], expected'[e])
    BY <1>1, <2>1, <2>3, ClickLeads
  <2>. QED
    BY <1>3, <2>2, <2>3, ClickStep
<1>4. CASE UNCHANGED <<outputs, commands, expected>>
  BY <1>1, <1>2, <1>4
<1>5. ASSUME NEW d \in Devices, Apply(d)
      PROVE  QueueLeadsTo(e, commands'[e], outputs'[e], expected'[e])
  <2>1. /\ commands[d] # <<>> /\ UNCHANGED expected
        /\ commands' = [commands EXCEPT ![d] = Tail(@)]
        /\ e # d => commands'[e] = commands[e] /\ outputs'[e] = outputs[e]
    BY <1>5 DEF Apply, TypeOK
  <2>2. CASE e # d
    BY <1>1, <1>2, <2>1, <2>2
  <2>3. CASE e = d
    <3>1. commands'[e] = Tail(commands[e])
      BY <2>1, <2>3 DEF TypeOK
    <3>2. \A i \in DOMAIN Layout[e] :
            outputs'[e][i] = IF Sets(e, Head(commands[e]), i)
                             THEN ValueOf(Head(commands[e]), i) ELSE outputs[e][i]
      BY <1>5, <2>3, ApplyEffect
    <3>3. QueueLeadsTo(e, Tail(commands[e]), outputs'[e], expected[e])
      BY <1>1, <1>2, <2>1, <2>3, <3>2, TailLeads
    <3>. QED
      BY <2>1, <3>1, <3>3
  <2>. QED
    BY <2>2, <2>3
<1>6. ASSUME NEW d \in Devices, NEW i \in DOMAIN Layout[d], SwitchLocally(d, i)
      PROVE  QueueLeadsTo(e, commands'[e], outputs'[e], expected'[e])
  <2>1. /\ UNCHANGED commands
        /\ expected'[d] = IF commands[d] = <<>> THEN outputs'[d] ELSE Unknown
        /\ e # d => expected'[e] = expected[e] /\ outputs'[e] = outputs[e]
    BY <1>6 DEF SwitchLocally, TypeOK
  <2>2. CASE e # d
    BY <1>1, <1>2, <2>1, <2>2
  <2>3. CASE e = d
    <3>1. commands'[e] = <<>> /\ expected'[e] = outputs'[e]
      BY <1>1, <2>1, <2>3
    <3>2. outputs'[e] \in States(e)
      BY DEF TypeOK, States, Devices
    <3>. QED
      BY <3>1, <3>2, EmptyLeads
  <2>. QED
    BY <2>2, <2>3
<1>. QED
  BY <1>3, <1>4, <1>5, <1>6
     DEF Next, HandleLshState, ForgetStates, Republish, vars

-----------------------------------------------------------------------------
(* The theorems *)

LEMMA InvInit == Init => Inv
<1> SUFFICES ASSUME Init PROVE Inv
  OBVIOUS
<1>1. ASSUME NEW d \in Devices
      PROVE  /\ outputs[d] \in States(d) /\ expected[d] = outputs[d] /\ states[d] = Unknown
             /\ commands[d] = <<>> /\ reports[d] = <<>>
  BY DEF Init, States
<1>2. TypeOK
  BY <1>1, EmptySeq DEF TypeOK, Init
<1>3. LastReportCurrent /\ KnownStatesCurrent
  BY <1>1 DEF LastReportCurrent, KnownStatesCurrent
<1>4. QueueLeadsToExpected
  BY <1>1, EmptyLeads DEF QueueLeadsToExpected
<1>. QED
  BY <1>2, <1>3, <1>4 DEF Inv

LEMMA InvStep == Inv /\ [Next]_vars => Inv'
  BY TypeStep, ReportStep, QueueStep DEF Inv

LEMMA Invariant == Spec => []Inv
  BY InvInit, InvStep, PTL DEF Spec

\* Outputs, cached states, commands and reports keep their types: every packed
\* command and report fits its device's layout.
THEOREM TypeCorrect == Spec => []TypeOK
<1>1. Inv => TypeOK
  BY DEF Inv
<1>. QED
  BY <1>1, Invariant, PTL

\* Known states of a device with nothing on its way are its outputs: Pack and
\* Unpack agree, no report is refused, and the last report is the last change.
THEOREM StatesAreCurrent == Spec => []StatesCurrentWhenQuiet
<1>1. Inv => StatesCurrentWhenQuiet
  BY DEF Inv, KnownStatesCurrent, StatesCurrentWhenQuiet, Quiet
<1>. QED
  BY <1>1, Invariant, PTL

\* Once the commands of a device are applied its outputs are what the clicks
\* decided, whatever reports and local changes came in between.
THEOREM ClicksHaveTheirEffect == Spec => []ClickHasItsEffect
<1>1. Inv => ClickHasItsEffect
  <2> SUFFICES ASSUME Inv, NEW d \in Devices, commands[d] = <<>>, expected[d] # Unknown
               PROVE  outputs[d] = expected[d]
    BY DEF ClickHasItsEffect
  <2>1. outputs[d] \in States(d) /\ expected[d] \in States(d)
    BY DEF Inv, TypeOK
  <2>. QED
    BY <2>1, EmptyLeads DEF Inv, QueueLeadsToExpected
<1>. QED
  BY <1>1, Invariant, PTL

=============================================================================
