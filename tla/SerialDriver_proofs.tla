-------------------------- MODULE SerialDriver_proofs --------------------------
(***************************************************************************)
(* The driver for any ring, texts and reads of any length and any number of*)
(* transfers, with interrupts anywhere.                                    *)
(***************************************************************************)
EXTENDS SerialDriver, FiniteSetTheorems, WellFoundedInduction, TLAPS

Slots == 0..(RingSize - 1)
Kept == Letters \union {Enter, Zero}

-----------------------------------------------------------------------------
\* read_from_ring stops: the number of slots it copies is at most the count.
LEMMA CopiedStops == ASSUME NEW len \in Nat PROVE Copied(len) \in 0..len
<1> DEFINE at(n) == (ring.input + n) % RingSize
           ends == {n \in 0..len : \/ n = len \/ ring.slots[at(n)] = Enter
                                  \/ (n > 0 /\ at(n) = ring.start)}
           R == {p \in Nat \X Nat : p[1] < p[2]}
<1>1. len \in ends /\ ends \subseteq 0..len
  OBVIOUS
<1>2. IsWellFoundedOn(R, Nat)
  BY NatLessThanWellFounded DEF OpToRel
<1>3. PICK n \in ends : \A k \in ends : ~(<<k, n>> \in R)
  <2>1. ends \subseteq Nat /\ ends # {}
    BY <1>1
  <2> HIDE DEF ends, R
  <2> QED BY <2>1, <1>2, WFMin
<1>4. \A k \in ends : n <= k
  <2>1. ends \subseteq Nat
    BY <1>1
  <2>2. ASSUME NEW k \in Nat, NEW m \in Nat, k < m PROVE <<k, m>> \in R
    BY <2>2
  <2> HIDE DEF ends, R
  <2>3. ASSUME NEW k \in ends, k < n PROVE FALSE
    BY <1>3, <2>1, <2>2, <2>3
  <2> QED BY <2>1, <2>3
<1>5. Copied(len) = CHOOSE m \in ends : \A k \in ends : m <= k
  BY DEF Copied
<1> HIDE DEF ends
<1> QED BY <1>1, <1>4, <1>5

-----------------------------------------------------------------------------
\* What the invariant needs of the ring, its indices anywhere.
RingOK ==
  /\ ring \in [slots : [Slots -> Kept], input : Int, output : Int, start : Int]
  /\ outputsize \in Nat

\* While a transfer is not over its process waits.
Awaited == status # "IDLE" => asleep = TRUE

DriverInv == SerialTypeOK /\ RingOK /\ Awaited

LEMMA DriverInit == SerialInit => DriverInv
<1> SUFFICES ASSUME SerialInit PROVE DriverInv
  OBVIOUS
<1>1. [i \in Slots |-> Zero] \in [Slots -> Kept]
  BY DEF Kept
<1>2. RingOK
  BY <1>1, SerialAssumption DEF SerialInit, RingOK, Slots
<1>3. ring.slots \in [0..(RingSize - 1) -> Letters \union {Enter, Zero}]
  BY <1>2 DEF RingOK, Slots, Kept
<1>4. SerialTypeOK /\ Awaited
  BY <1>3 DEF SerialInit, SerialTypeOK, Awaited
<1> QED BY <1>2, <1>4 DEF DriverInv

LEMMA EndKeeps == DriverInv /\ EndEvent => DriverInv'
<1> SUFFICES ASSUME DriverInv, EndEvent PROVE DriverInv'
  OBVIOUS
<1>1. RingOK'
  BY DEF DriverInv, RingOK, EndEvent
<1>2. SerialTypeOK'
  BY DEF DriverInv, SerialTypeOK, EndEvent
<1>3. Awaited'
  BY DEF Awaited, EndEvent
<1> QED BY <1>1, <1>2, <1>3 DEF DriverInv

LEMMA WriteKeeps ==
  ASSUME NEW len \in WriteSizes PROVE DriverInv /\ SerialWrite(len) => DriverInv'
BY SerialAssumption DEF DriverInv, SerialTypeOK, RingOK, Awaited, SerialWrite, Start

LEMMA ReadKeeps ==
  ASSUME NEW len \in ReadSizes PROVE DriverInv /\ SerialRead(len) => DriverInv'
<1> SUFFICES ASSUME DriverInv, SerialRead(len) PROVE DriverInv'
  OBVIOUS
<1>1. (ring.input + Copied(len)) % RingSize \in Int
  BY SerialAssumption, CopiedStops DEF DriverInv, RingOK
<1>2. RingOK'
  BY <1>1 DEF DriverInv, RingOK, SerialRead
<1>3. SerialTypeOK' /\ Awaited'
  BY <1>2 DEF DriverInv, SerialTypeOK, Awaited, RingOK, SerialRead, Start, Slots, Kept
<1> QED BY <1>2, <1>3 DEF DriverInv

LEMMA InputKeeps ==
  ASSUME NEW c \in TypedAhead PROVE DriverInv /\ SerialInputInterrupt(c) => DriverInv'
<1> SUFFICES ASSUME DriverInv, SerialInputInterrupt(c) PROVE DriverInv'
  OBVIOUS
<1>1. CASE status # "READ"
  <2>1. c # Erase => c \in Kept
    BY SerialAssumption DEF Kept
  <2>2. ring' \in [slots : [Slots -> Kept], input : Int, output : Int, start : Int]
    <3>1. CASE c = Erase
      BY <1>1, <3>1 DEF SerialInputInterrupt, EraseFromRing, DriverInv, RingOK
    <3>2. CASE c # Erase
      <4>1. \A i \in Int : (i + 1) % RingSize \in Int
        BY SerialAssumption
      <4>2. ring' = AddLetter(c)
        BY <1>1, <3>2 DEF SerialInputInterrupt
      <4>3. ring \in [slots : [Slots -> Kept], input : Int, output : Int, start : Int]
        BY DEF DriverInv, RingOK
      <4>4. [ring.slots EXCEPT ![ring.input] = c] \in [Slots -> Kept]
        BY <2>1, <3>2, <4>3
      <4> HIDE DEF Slots, Kept
      <4> QED BY <4>1, <4>2, <4>3, <4>4 DEF AddLetter
    <3> QED BY <3>1, <3>2
  <2>3. UNCHANGED <<event_flag, status, inputsize, outputsize, buff_index, thre, asleep>>
    BY <1>1 DEF SerialInputInterrupt
  <2> QED BY <2>2, <2>3 DEF DriverInv, SerialTypeOK, RingOK, Awaited, Slots, Kept
<1>2. CASE status = "READ"
  BY <1>2 DEF SerialInputInterrupt, DriverInv, SerialTypeOK, RingOK, Awaited
<1> QED BY <1>1, <1>2

LEMMA OutputKeeps == DriverInv /\ SerialOutputInterrupt => DriverInv'
<1> SUFFICES ASSUME DriverInv, SerialOutputInterrupt PROVE DriverInv'
  OBVIOUS
<1>1. PICK ends \in TextEnds(buff_index') :
        event_flag' = (IF ends THEN 1 ELSE event_flag) /\ thre' = ~ends
  BY DEF SerialOutputInterrupt
<1>2. ends \in BOOLEAN
  BY DEF TextEnds
<1>3. event_flag' \in {0, 1} /\ thre' \in BOOLEAN
  BY <1>1, <1>2 DEF DriverInv, SerialTypeOK
<1>4. buff_index' \in Nat /\ buff_index' > 0
  BY DEF SerialOutputInterrupt, DriverInv, SerialTypeOK
<1> QED BY <1>3, <1>4 DEF SerialOutputInterrupt, DriverInv, SerialTypeOK, RingOK, Awaited

LEMMA DriverNextKeeps == DriverInv /\ [SerialNext]_serial_vars => DriverInv'
<1>1. DriverInv /\ UNCHANGED serial_vars => DriverInv'
  BY DEF DriverInv, SerialTypeOK, RingOK, Awaited, serial_vars, dcb_vars
<1> QED BY <1>1, EndKeeps, WriteKeeps, ReadKeeps, InputKeeps, OutputKeeps DEF SerialNext

LEMMA DriverInvariance == SerialSpec => []DriverInv
BY DriverInit, DriverNextKeeps, PTL DEF SerialSpec

\* The device stays in its states and the ring holds only what was put there,
\* whatever is typed, erasures included.
THEOREM DriverTypeCorrect == SerialSpec => []SerialTypeOK
BY DriverInvariance, PTL DEF DriverInv

-----------------------------------------------------------------------------
LEMMA SendsForSleeper == DriverInv /\ [SerialNext]_serial_vars => [asleep']_wire
<1> SUFFICES ASSUME DriverInv, [SerialNext]_serial_vars, wire' # wire PROVE asleep'
  OBVIOUS
<1>1. CASE EndEvent
  BY <1>1 DEF EndEvent
<1>2. ASSUME NEW len \in WriteSizes, SerialWrite(len) PROVE asleep'
  BY <1>2 DEF SerialWrite, Start
<1>3. ASSUME NEW len \in ReadSizes, SerialRead(len) PROVE asleep'
  BY <1>3 DEF SerialRead, Start
<1>4. ASSUME NEW c \in TypedAhead, SerialInputInterrupt(c) PROVE asleep'
  BY <1>4 DEF SerialInputInterrupt, DriverInv, Awaited
<1>5. CASE SerialOutputInterrupt
  BY <1>5 DEF SerialOutputInterrupt, DriverInv, Awaited
<1>6. CASE UNCHANGED serial_vars
  BY <1>6 DEF serial_vars
<1> QED BY <1>1, <1>2, <1>3, <1>4, <1>5, <1>6 DEF SerialNext

\* Nothing is sent of a text whose writer has been woken, in whatever order the
\* interrupts and the ends of events come (serial.c:558).
THEOREM SentWhileAsleep == SerialSpec => SentForSleeper
BY DriverInvariance, SendsForSleeper, PTL DEF SerialSpec, SentForSleeper

-----------------------------------------------------------------------------
RingInv == DriverInv /\ {ring.input, ring.output, ring.start} \subseteq Slots

LEMMA RingNextKeeps ==
  ASSUME Erase \notin TypedAhead
  PROVE  RingInv /\ [SerialNext]_serial_vars => RingInv'
<1> SUFFICES ASSUME RingInv, [SerialNext]_serial_vars PROVE RingInv'
  OBVIOUS
<1>1. DriverInv'
  BY DriverNextKeeps DEF RingInv
<1>2. \A i \in Int : i % RingSize \in Slots
  BY SerialAssumption DEF Slots
<1>3. ASSUME NEW len \in ReadSizes, SerialRead(len)
      PROVE {ring'.input, ring'.output, ring'.start} \subseteq Slots
  <2>1. (ring.input + Copied(len)) % RingSize \in Slots
    BY <1>2, SerialAssumption, CopiedStops DEF RingInv, DriverInv, RingOK
  <2> QED BY <1>3, <2>1 DEF SerialRead, RingInv, DriverInv, RingOK
<1>4. ASSUME NEW c \in TypedAhead, SerialInputInterrupt(c), ring' # ring
      PROVE {ring'.input, ring'.output, ring'.start} \subseteq Slots
  <2>1. ring' = AddLetter(c)
    BY <1>4 DEF SerialInputInterrupt
  <2>2. \A i \in Slots : (i + 1) % RingSize \in Slots
    BY <1>2 DEF Slots
  <2> QED BY <2>1, <2>2 DEF AddLetter, RingInv, DriverInv, RingOK
<1>5. ring' = ring \/ {ring'.input, ring'.output, ring'.start} \subseteq Slots
  <2>1. ring' = ring \/ (\E len \in ReadSizes : SerialRead(len))
                    \/ (\E c \in TypedAhead : SerialInputInterrupt(c))
    BY DEF SerialNext, EndEvent, SerialWrite, SerialOutputInterrupt, serial_vars, dcb_vars
  <2> QED BY <2>1, <1>3, <1>4
<1> QED BY <1>1, <1>5 DEF RingInv

\* Without an erasure the indices stay in the ring, whatever its size.
THEOREM RingInRange ==
  ASSUME Erase \notin TypedAhead
  PROVE  SerialSpec => []RingIndicesInRange
<1>1. SerialInit => RingInv
  BY DriverInit, SerialAssumption DEF RingInv, SerialInit, Slots
<1>2. RingInv => RingIndicesInRange
  BY DEF RingInv, RingIndicesInRange, Slots
<1> QED BY <1>1, <1>2, RingNextKeeps, PTL DEF SerialSpec

-----------------------------------------------------------------------------
\* The places on a wire w of the characters of a transfer, and SentPrefix of w.
Sent(w, t) == {j \in 1..Len(w) : w[j].transfer = t}
Ordered(w) ==
  \A k \in 1..Len(w) :
    w[k].index = Cardinality({j \in 1..(k - 1) : w[j].transfer = w[k].transfer})
Inside(index, size) == size # 1 => index < size
Counted(w) == \A k \in 1..Len(w) : Inside(w[k].index, w[k].size)
Characters == [transfer : Nat, index : Nat, size : Nat]
Upto(w, bound) == \A j \in 1..Len(w) : w[j].transfer <= bound
Add(w, t, index, size) ==
  Append(w, [transfer |-> t, index |-> index, size |-> size])

LEMMA SentFinite ==
  ASSUME NEW w \in Seq(Characters), NEW t
  PROVE  IsFiniteSet(Sent(w, t)) /\ Cardinality(Sent(w, t)) \in Nat
<1>1. IsFiniteSet(1..Len(w)) /\ Sent(w, t) \subseteq 1..Len(w)
  BY FS_Interval DEF Sent
<1> QED BY <1>1, FS_Subset, FS_CardinalityType

\* Sending the character whose index is what was sent of its transfer before.
LEMMA AppendInOrder ==
  ASSUME NEW w \in Seq(Characters), Ordered(w), NEW t \in Nat, NEW index \in Nat,
         index = Cardinality(Sent(w, t)),
         Counted(w), NEW size \in Nat, Inside(index, size)
  PROVE  /\ Add(w, t, index, size) \in Seq(Characters)
         /\ Ordered(Add(w, t, index, size)) /\ Counted(Add(w, t, index, size))
         /\ Cardinality(Sent(Add(w, t, index, size), t)) = index + 1
         /\ Upto(w, t) => Upto(Add(w, t, index, size), t)
<1> DEFINE v == Add(w, t, index, size)
<1>1. /\ v \in Seq(Characters) /\ Len(w) \in Nat /\ Len(v) = Len(w) + 1
      /\ \A j \in 1..Len(w) : v[j] = w[j]
      /\ v[Len(w) + 1] = [transfer |-> t, index |-> index, size |-> size]
  BY DEF Characters, Add
<1> HIDE DEF v
<1>2. Sent(v, t) = Sent(w, t) \union {Len(w) + 1} /\ Len(w) + 1 \notin Sent(w, t)
  <2>1. \A j \in 1..Len(v) : j \in 1..Len(w) \/ j = Len(w) + 1
    BY <1>1
  <2>2. v[Len(w) + 1].transfer = t /\ Len(w) + 1 \in 1..Len(v) /\ Len(w) + 1 \notin 1..Len(w)
    BY <1>1
  <2>3. 1..Len(w) \subseteq 1..Len(v)
    BY <1>1
  <2> QED BY <1>1, <2>1, <2>2, <2>3 DEF Sent
<1>3. Cardinality(Sent(v, t)) = index + 1
  BY <1>2, SentFinite, FS_AddElement
<1>4. ASSUME NEW k \in 1..Len(v)
      PROVE  v[k].index = Cardinality({j \in 1..(k - 1) : v[j].transfer = v[k].transfer})
  <2>1. CASE k = Len(w) + 1
    <3>1. 1..(k - 1) = 1..Len(w) /\ v[k].transfer = t /\ v[k].index = index
      BY <1>1, <2>1
    <3>2. {j \in 1..(k - 1) : v[j].transfer = v[k].transfer} = Sent(w, t)
      BY <1>1, <3>1 DEF Sent
    <3> QED BY <3>1, <3>2
  <2>2. CASE k \in 1..Len(w)
    <3>1. v[k] = w[k] /\ \A j \in 1..(k - 1) : v[j] = w[j]
      BY <1>1, <2>2
    <3>2. {j \in 1..(k - 1) : v[j].transfer = v[k].transfer}
            = {j \in 1..(k - 1) : w[j].transfer = w[k].transfer}
      BY <3>1
    <3>3. w[k].index = Cardinality({j \in 1..(k - 1) : w[j].transfer = w[k].transfer})
      BY <2>2 DEF Ordered
    <3> QED BY <3>1, <3>2, <3>3, Zenon
  <2> QED BY <1>1, <2>1, <2>2
<1>5. ASSUME Upto(w, t), NEW j \in 1..Len(v) PROVE v[j].transfer <= t
  <2>1. CASE j \in 1..Len(w)
    BY <1>1, <1>5, <2>1 DEF Upto
  <2>2. CASE j = Len(w) + 1
    BY <1>1, <2>2
  <2> QED BY <1>1, <2>1, <2>2
<1>6. ASSUME NEW k \in 1..Len(v) PROVE Inside(v[k].index, v[k].size)
  <2>1. CASE k \in 1..Len(w)
    BY <1>1, <2>1 DEF Counted
  <2>2. CASE k = Len(w) + 1
    BY <1>1, <2>2
  <2> QED BY <1>1, <2>1, <2>2
<1> QED BY <1>1, <1>3, <1>4, <1>5, <1>6 DEF Ordered, Counted, Upto, v

(***************************************************************************)
(* buff_index, which the read and the write share, counts what was sent of *)
(* a write in progress, and lies inside its text as long as the            *)
(* transmitter is enabled; of a read nothing was sent yet, and no transfer *)
(* is on the wire that was not started.                                    *)
(***************************************************************************)
WireInv ==
  /\ DriverInv
  /\ started \in Nat /\ wire \in Seq(Characters) /\ Ordered(wire) /\ Counted(wire)
  /\ Upto(wire, started)
  /\ status = "WRITE" => buff_index = Cardinality(Sent(wire, started))
  /\ status = "WRITE" /\ thre => Inside(buff_index, outputsize)
  /\ status = "READ" => Sent(wire, started) = {}

LEMMA WireUnchanged ==
  ASSUME WireInv, DriverInv', UNCHANGED <<wire, started>>,
         status' = status \/ status' \notin {"READ", "WRITE"},
         status' = "WRITE" => UNCHANGED <<buff_index, outputsize, thre>>
  PROVE  WireInv'
<1>1. wire' = wire /\ started' = started
  OBVIOUS
<1>2. Sent(wire', started') = Sent(wire, started)
  BY <1>1
<1> QED BY <1>1, <1>2 DEF WireInv

LEMMA NothingSentOfNext == ASSUME WireInv PROVE Sent(wire, started + 1) = {}
<1> SUFFICES ASSUME NEW j \in 1..Len(wire), wire[j].transfer = started + 1 PROVE FALSE
  BY DEF Sent
<1>1. wire[j].transfer <= started /\ started \in Nat
  BY DEF WireInv, Upto
<1> QED BY <1>1

LEMMA UptoNext == ASSUME WireInv PROVE Upto(wire, started + 1)
<1> SUFFICES ASSUME NEW j \in 1..Len(wire) PROVE wire[j].transfer <= started + 1
  BY DEF Upto
<1>0. wire[j] \in Characters
  BY DEF WireInv
<1>1. wire[j].transfer \in Nat /\ wire[j].transfer <= started /\ started \in Nat
  BY <1>0 DEF WireInv, Upto, Characters
<1> QED BY <1>1

LEMMA WireNextKeeps == WireInv /\ [SerialNext]_serial_vars => WireInv'
<1> SUFFICES ASSUME WireInv, [SerialNext]_serial_vars PROVE WireInv'
  OBVIOUS
<1>0. DriverInv'
  BY DriverNextKeeps DEF WireInv
<1>i. /\ started \in Nat /\ wire \in Seq(Characters)
      /\ Ordered(wire) /\ Counted(wire) /\ Upto(wire, started)
  BY DEF WireInv
<1>1. CASE EndEvent
  <2>1. UNCHANGED <<wire, started>> /\ status' = "IDLE"
    BY <1>1 DEF EndEvent
  <2> QED BY <1>0, <2>1, WireUnchanged
<1>2. ASSUME NEW len \in WriteSizes, SerialWrite(len) PROVE WireInv'
  <2>1. /\ started' = started + 1 /\ status' = "WRITE" /\ buff_index' = 1
        /\ outputsize' = len /\ wire' = Add(wire, started + 1, 0, len)
    BY <1>2 DEF SerialWrite, Start, Send, Add
  <2>2. started + 1 \in Nat /\ Cardinality(Sent(wire, started + 1)) = 0
    <3>1. Sent(wire, started + 1) = {}
      BY NothingSentOfNext
    <3>2. Cardinality(Sent(wire, started + 1)) = 0
      BY <3>1, FS_EmptySet, Zenon
    <3> QED BY <1>i, <3>2
  <2>4. len \in Nat /\ Inside(0, len) /\ Inside(1, len)
    BY SerialAssumption DEF Inside
  <2>3. /\ wire' \in Seq(Characters) /\ Ordered(wire') /\ Counted(wire')
        /\ Cardinality(Sent(wire', started + 1)) = 0 + 1 /\ Upto(wire', started + 1)
    BY <1>i, <2>1, <2>2, <2>4, AppendInOrder, UptoNext
  <2> QED BY <1>0, <2>1, <2>2, <2>3, <2>4 DEF WireInv
<1>3. ASSUME NEW len \in ReadSizes, SerialRead(len) PROVE WireInv'
  <2>1. started' = started + 1 /\ status' = "READ" /\ wire' = wire
    BY <1>3 DEF SerialRead, Start
  <2>2. Sent(wire', started') = {}
    BY <2>1, NothingSentOfNext
  <2>3. Upto(wire', started')
    BY <2>1, UptoNext
  <2> QED BY <1>0, <1>i, <2>1, <2>2, <2>3 DEF WireInv
<1>4. ASSUME NEW c \in TypedAhead, SerialInputInterrupt(c) PROVE WireInv'
  <2>1. CASE status # "READ"
    <3>1. UNCHANGED <<wire, started, status, buff_index, outputsize, thre>>
      BY <1>4, <2>1 DEF SerialInputInterrupt
    <3> QED BY <1>0, <3>1, WireUnchanged
  <2>2. CASE status = "READ"
    <3>1. /\ status' = "IO_IDLE" /\ started' = started
          /\ wire' = Add(wire, started, 0, 1)
      BY <1>4, <2>2 DEF SerialInputInterrupt, Send, Add
    <3>0. Sent(wire, started) = {}
      BY <2>2 DEF WireInv
    <3>2. Cardinality(Sent(wire, started)) = 0
      BY <3>0, FS_EmptySet
    <3>4. Inside(0, 1)
      BY DEF Inside
    <3>3. /\ wire' \in Seq(Characters) /\ Ordered(wire') /\ Counted(wire')
          /\ Upto(wire', started)
      BY <1>i, <3>1, <3>2, <3>4, AppendInOrder
    <3> QED BY <1>0, <1>i, <3>1, <3>3 DEF WireInv
  <2> QED BY <2>1, <2>2
<1>5. CASE SerialOutputInterrupt
  <2>1. /\ status = "WRITE" /\ status' = status /\ started' = started /\ thre
        /\ buff_index' = buff_index + 1 /\ outputsize' = outputsize
        /\ wire' = Add(wire, started, buff_index, outputsize)
    BY <1>5 DEF SerialOutputInterrupt, Send, Add
  <2>2. /\ buff_index \in Nat /\ buff_index = Cardinality(Sent(wire, started))
        /\ outputsize \in Nat /\ Inside(buff_index, outputsize)
    BY <1>i, <2>1 DEF WireInv, DriverInv, SerialTypeOK, RingOK
  <2>4. thre' => Inside(buff_index', outputsize')
    <3>1. PICK ends \in TextEnds(buff_index') : thre' = ~ends
      BY <1>5 DEF SerialOutputInterrupt
    <3>2. thre' => buff_index' # outputsize
      BY <3>1 DEF TextEnds
    <3> QED BY <2>1, <2>2, <3>2 DEF Inside
  <2>3. /\ wire' \in Seq(Characters) /\ Ordered(wire') /\ Counted(wire')
        /\ Cardinality(Sent(wire', started)) = buff_index + 1
        /\ Upto(wire', started)
    BY <1>i, <2>1, <2>2, AppendInOrder
  <2> QED BY <1>0, <1>i, <2>1, <2>3, <2>4 DEF WireInv
<1>6. CASE UNCHANGED serial_vars
  <2>1. UNCHANGED <<wire, started, status, buff_index, outputsize, thre>>
    BY <1>6 DEF serial_vars, dcb_vars
  <2> QED BY <1>0, <2>1, WireUnchanged
<1> QED BY <1>1, <1>2, <1>3, <1>4, <1>5, <1>6 DEF SerialNext

\* What reaches the terminal of a text is a prefix of it, each character once, in
\* order and none behind its count, for texts of any length but one, and however
\* the interrupts, the reads and the early ends of transfers interleave
\* (serial.c:558, 567); of a text of one character it is what lies behind it too,
\* in order.
THEOREM WirePrefixes == SerialSpec => []SentPrefix
<1>1. SerialInit => WireInv
  <2> SUFFICES ASSUME SerialInit PROVE WireInv
    OBVIOUS
  <2>1. wire = <<>> /\ started = 0 /\ status = "IDLE" /\ DriverInv
    BY DriverInit DEF SerialInit
  <2>2. started \in Nat /\ wire \in Seq(Characters) /\ 1..Len(wire) = {}
    BY <2>1
  <2>3. Ordered(wire) /\ Counted(wire) /\ Upto(wire, started)
    BY <2>2 DEF Ordered, Counted, Upto
  <2> QED BY <2>1, <2>2, <2>3 DEF WireInv
<1>2. WireInv => SentPrefix
  BY DEF WireInv, SentPrefix, Ordered, Counted, Inside
<1> QED BY <1>1, <1>2, WireNextKeeps, PTL DEF SerialSpec
=============================================================================
