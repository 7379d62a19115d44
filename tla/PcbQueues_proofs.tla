--------------------------- MODULE PcbQueues_proofs ---------------------------
(***************************************************************************)
(* What the queue operations preserve, whatever shape the lists are in:    *)
(* they touch links and fronts only, and stay within the record's type.    *)
(***************************************************************************)
EXTENDS PcbQueues, FiniteSetTheorems, WellFoundedInduction, TLAPS

\* A walk delivers a member of the set it looks for, or NULL.
LEMMA FirstOfType ==
  ASSUME NEW q, NEW list, NEW S
  PROVE  FirstOf(q, list, S) \in S \union {NULL}
BY DEF FirstOf

\* Unlinking keeps the type, the states and the priorities.
LEMMA UnlinkKeeps ==
  ASSUME NEW q \in QueueRecords, NEW p \in PCB, NEW list \in Lists
  PROVE  LET r == Unlink(q, p, list)
         IN r \in QueueRecords /\ r.state = q.state /\ r.prio = q.prio
<1>1. FirstOf(q, list, Before(q, p)) \in PCB \union {NULL}
  BY FirstOfType DEF Before
<1> QED BY <1>1 DEF Unlink, Fail, QueueRecords, Lists, Faults, PcbOrNull

\* pcb_remove keeps the type, the states and the priorities.
LEMMA RemoveKeeps ==
  ASSUME NEW q \in QueueRecords, NEW p \in PcbOrNull
  PROVE  LET r == PcbRemove(q, p)
         IN r \in QueueRecords /\ r.state = q.state /\ r.prio = q.prio
<1>1. p # NULL => p \in PCB
  BY DEF PcbOrNull
<1>2. {"ready", "blocked"} \subseteq Lists
  BY DEF Lists
<1> QED BY <1>1, <1>2, UnlinkKeeps DEF PcbRemove

\* Linking keeps the type, the states and the priorities.
LEMMA LinkBehindKeeps ==
  ASSUME NEW q \in QueueRecords, NEW p \in PCB, NEW list \in Lists,
         NEW Stops \in SUBSET PCB
  PROVE  LET r == LinkBehind(q, p, list, Stops)
         IN r \in QueueRecords /\ r.state = q.state /\ r.prio = q.prio
<1>1. FirstOf(q, list, Stops) \in PCB \union {NULL}
  BY FirstOfType
<1> QED BY <1>1 DEF LinkBehind, Fail, QueueRecords, Lists, Faults, PcbOrNull

\* pcb_insert keeps the type, the states and the priorities.
LEMMA InsertKeeps ==
  ASSUME NEW q \in QueueRecords, NEW p \in PCB
  PROVE  LET r == PcbInsert(q, p)
         IN r \in QueueRecords /\ r.state = q.state /\ r.prio = q.prio
<1> DEFINE Stops == {s \in PCB : q.next[s] = NULL \/ q.prio[s] > q.prio[p]}
           Last == {s \in PCB : q.next[s] = NULL}
<1>1. Stops \in SUBSET PCB /\ Last \in SUBSET PCB
  OBVIOUS
<1>2. {"ready", "blocked"} \subseteq Lists
  BY DEF Lists
<1>3. LET r == LinkBehind(q, p, "ready", Stops)
      IN r \in QueueRecords /\ r.state = q.state /\ r.prio = q.prio
  BY <1>1, <1>2, LinkBehindKeeps
<1>4. LET r == LinkBehind(q, p, "blocked", Last)
      IN r \in QueueRecords /\ r.state = q.state /\ r.prio = q.prio
  BY <1>1, <1>2, LinkBehindKeeps
<1> QED BY <1>3, <1>4 DEF PcbInsert

\* Assigning a state keeps the type.
LEMMA StateAssigned ==
  ASSUME NEW q \in QueueRecords, NEW p \in PCB, NEW s \in States
  PROVE  LET r == [q EXCEPT !.state[p] = s]
         IN r \in QueueRecords /\ r.state = [q.state EXCEPT ![p] = s]
BY DEF QueueRecords

-----------------------------------------------------------------------------
\* Induction, with a set in place of a predicate.
LEMMA SetInduction ==
  ASSUME NEW K \in SUBSET Nat, 0 \in K, \A k \in K : k + 1 \in K
  PROVE  K = Nat
<1> DEFINE R == {p \in Nat \X Nat : p[1] < p[2]}
           Missing == Nat \ K
<1>1. SUFFICES ASSUME Missing # {} PROVE FALSE
  OBVIOUS
<1>2. IsWellFoundedOn(R, Nat)
  BY NatLessThanWellFounded DEF OpToRel
<1>3. PICK n \in Missing : \A k \in Missing : ~(<<k, n>> \in R)
  <2> HIDE DEF R
  <2> QED BY <1>1, <1>2, WFMin
<1>4. n # 0 /\ n - 1 \in Nat
  OBVIOUS
<1>5. n - 1 \in K
  <2>1. n - 1 \in Missing => <<n - 1, n>> \in R
    BY <1>4
  <2> QED BY <1>3, <1>4, <2>1
<1> QED BY <1>4, <1>5

-----------------------------------------------------------------------------
Size == Cardinality(PCB)

LEMMA SizeType == Size \in Nat
BY PcbAssumption, FS_CardinalityType DEF Size

\* One step of a walk that stops at S.
Beyond(q, S, p) == IF p \in S \union {NULL} THEN p ELSE q.next[p]

\* The walk that WalkEnd is the end of, of k steps.
IsWalk(at, k, q, list, S) ==
  /\ at \in [0..k -> PcbOrNull]
  /\ at[0] = q.front[list]
  /\ \A j \in 1..k : at[j] = Beyond(q, S, at[j - 1])

LEMMA BeyondType ==
  ASSUME NEW q \in QueueRecords, NEW S, NEW p \in PcbOrNull
  PROVE  Beyond(q, S, p) \in PcbOrNull
BY DEF Beyond, QueueRecords, PcbOrNull

LEMMA WalkOfAnyLength ==
  ASSUME NEW q \in QueueRecords, NEW list \in Lists, NEW S
  PROVE  \A k \in Nat : \E at : IsWalk(at, k, q, list, S)
<1> DEFINE K == {k \in Nat : \E at : IsWalk(at, k, q, list, S)}
<1>1. 0 \in K
  <2> DEFINE g == [j \in 0..0 |-> q.front[list]]
  <2>1. q.front[list] \in PcbOrNull
    BY DEF QueueRecords
  <2>2. IsWalk(g, 0, q, list, S)
    BY <2>1 DEF IsWalk
  <2> QED BY <2>2
<1>2. ASSUME NEW k \in K PROVE k + 1 \in K
  <2>1. PICK at : IsWalk(at, k, q, list, S)
    OBVIOUS
  <2> DEFINE g == [j \in 0..(k + 1) |-> IF j = k + 1 THEN Beyond(q, S, at[k]) ELSE at[j]]
  <2>2. at[k] \in PcbOrNull
    BY <2>1 DEF IsWalk
  <2>3. g \in [0..(k + 1) -> PcbOrNull]
    BY <2>1, <2>2, BeyondType DEF IsWalk
  <2>4. g[0] = q.front[list]
    BY <2>1 DEF IsWalk
  <2>5. ASSUME NEW j \in 1..(k + 1) PROVE g[j] = Beyond(q, S, g[j - 1])
    <3>1. CASE j = k + 1
      BY <3>1
    <3>2. CASE j \in 1..k
      BY <2>1, <3>2 DEF IsWalk
    <3> QED BY <3>1, <3>2
  <2> HIDE DEF g
  <2>6. IsWalk(g, k + 1, q, list, S)
    BY <2>3, <2>4, <2>5 DEF IsWalk
  <2> QED BY <2>6
<1> HIDE DEF K
<1>3. K = Nat
  <2>1. K \in SUBSET Nat
    BY DEF K
  <2> QED BY <1>1, <1>2, <2>1, SetInduction
<1> QED BY <1>3 DEF K

\* The recursive function in WalkEnd is such a walk.
LEMMA WalkEndsThere ==
  ASSUME NEW q \in QueueRecords, NEW list \in Lists, NEW S
  PROVE  \E at : IsWalk(at, Size, q, list, S) /\ WalkEnd(q, list, S) = at[Size]
<1> DEFINE F(at) == at = [k \in 0..Size |->
                            IF k = 0 THEN q.front[list]
                            ELSE LET here == at[k-1]
                                 IN IF here \in S \union {NULL} THEN here ELSE q.next[here]]
           at == CHOOSE a : F(a)
<1>1. \E a : F(a)
  <2>1. PICK g : IsWalk(g, Size, q, list, S)
    BY WalkOfAnyLength, SizeType
  <2>2. g = [k \in 0..Size |-> g[k]]
    BY <2>1 DEF IsWalk
  <2>3. \A k \in 0..Size : g[k] = IF k = 0 THEN q.front[list]
                                 ELSE IF g[k-1] \in S \union {NULL} THEN g[k-1] ELSE q.next[g[k-1]]
    BY <2>1, SizeType DEF IsWalk, Beyond
  <2>4. F(g)
    BY <2>2, <2>3
  <2> QED BY <2>4
<1>2. F(at)
  BY <1>1
<1>3. WalkEnd(q, list, S) = at[Size]
  BY DEF WalkEnd, Size
<1> HIDE DEF at
<1>4. /\ DOMAIN at = 0..Size
      /\ at = [k \in 0..Size |-> at[k]]
      /\ \A k \in 0..Size : at[k] = IF k = 0 THEN q.front[list] ELSE Beyond(q, S, at[k - 1])
  BY <1>2 DEF Beyond
<1> HIDE DEF F
<1> DEFINE K == {k \in Nat : k <= Size => at[k] \in PcbOrNull}
<1>5. K = Nat
  <2>0. q.front[list] \in PcbOrNull
    BY DEF QueueRecords
  <2>1. 0 \in K
    <3>1. 0 \in 0..Size
      BY SizeType
    <3>2. at[0] = q.front[list]
      BY <1>4, <3>1
    <3> QED BY <2>0, <3>2
  <2>2. ASSUME NEW k \in K PROVE k + 1 \in K
    <3>1. CASE k + 1 <= Size
      <4>1. at[k] \in PcbOrNull
        BY <3>1, SizeType
      <4>2. k + 1 \in 0..Size /\ k + 1 # 0 /\ (k + 1) - 1 = k
        BY <3>1, SizeType
      <4>3. at[k + 1] = Beyond(q, S, at[k])
        BY <1>4, <4>2
      <4> QED BY <4>1, <4>3, BeyondType
    <3>2. CASE ~(k + 1 <= Size)
      BY <3>2
    <3> QED BY <3>1, <3>2
  <2>3. K \in SUBSET Nat
    OBVIOUS
  <2> HIDE DEF K
  <2> QED BY <2>1, <2>2, <2>3, SetInduction
<1>6. \A k \in 0..Size : at[k] \in PcbOrNull
  BY <1>5, SizeType
<1>7. at \in [0..Size -> PcbOrNull]
  BY <1>4, <1>6
<1>8. IsWalk(at, Size, q, list, S)
  BY <1>4, <1>7, SizeType DEF IsWalk
<1> QED BY <1>3, <1>8

\* A walk that has met S, or the end of the list, stays there.
LEMMA WalkStays ==
  ASSUME NEW q, NEW list, NEW S, NEW at, IsWalk(at, Size, q, list, S),
         NEW j \in 0..Size, at[j] \in S \union {NULL}
  PROVE  at[Size] = at[j]
<1> DEFINE K == {k \in Nat : j + k <= Size => at[j + k] = at[j]}
<1>1. K = Nat
  <2>1. 0 \in K
    OBVIOUS
  <2>2. ASSUME NEW k \in K PROVE k + 1 \in K
    <3>1. CASE j + k + 1 <= Size
      <4>1. at[j + k] = at[j]
        BY <3>1, SizeType
      <4>2. j + k + 1 \in 1..Size /\ (j + k + 1) - 1 = j + k
        BY <3>1, SizeType
      <4>3. at[j + k + 1] = Beyond(q, S, at[j + k])
        BY <4>2 DEF IsWalk
      <4>4. at[j + k + 1] = at[j]
        BY <4>1, <4>3 DEF Beyond
      <4> QED BY <4>4, <4>2
    <3>2. CASE ~(j + k + 1 <= Size)
      BY <3>2, SizeType
    <3> QED BY <3>1, <3>2
  <2>3. K \in SUBSET Nat
    OBVIOUS
  <2> HIDE DEF K
  <2> QED BY <2>1, <2>2, <2>3, SetInduction
<1>2. Size - j \in Nat /\ j + (Size - j) = Size
  BY SizeType
<1>3. Size - j \in K
  <2> HIDE DEF K
  <2> QED BY <1>1, <1>2
<1> QED BY <1>2, <1>3, SizeType

\* A walk that meets f leads every walk that looks for f, among others, to what
\* it looks for.
LEMMA WalksMeet ==
  ASSUME NEW q \in QueueRecords, NEW list \in Lists, NEW S, NEW T,
         WalkEnd(q, list, S) \in S \ {NULL}, WalkEnd(q, list, S) \in T
  PROVE  WalkEnd(q, list, T) \in T
<1> DEFINE f == WalkEnd(q, list, S)
<1>1. PICK a : IsWalk(a, Size, q, list, S) /\ f = a[Size]
  BY WalkEndsThere
<1>2. PICK b : IsWalk(b, Size, q, list, T) /\ WalkEnd(q, list, T) = b[Size]
  BY WalkEndsThere
<1> HIDE DEF f
<1>3. f \in T /\ f \in S /\ f # NULL
  BY DEF f
<1> DEFINE K == {k \in Nat : k <= Size => b[k] \in T \/ b[k] = a[k]}
<1>4. K = Nat
  <2>1. 0 \in K
    BY <1>1, <1>2 DEF IsWalk
  <2>2. ASSUME NEW k \in K PROVE k + 1 \in K
    <3>1. SUFFICES ASSUME k + 1 <= Size PROVE b[k + 1] \in T \/ b[k + 1] = a[k + 1]
      OBVIOUS
    <3>2. k \in 0..Size /\ k + 1 \in 1..Size /\ (k + 1) - 1 = k
      BY <3>1, SizeType
    <3>3. a[k + 1] = Beyond(q, S, a[k]) /\ b[k + 1] = Beyond(q, T, b[k])
      BY <1>1, <1>2, <3>2 DEF IsWalk
    <3>4. CASE b[k] \in T
      BY <3>3, <3>4 DEF Beyond
    <3>5. CASE b[k] = a[k] /\ b[k] \notin T
      <4>1. a[k] \notin S \union {NULL}
        BY <1>1, <1>3, <3>2, <3>5, WalkStays
      <4> QED BY <3>3, <3>5, <4>1 DEF Beyond
    <3>6. k <= Size
      BY <3>2
    <3> QED BY <3>4, <3>5, <3>6
  <2>3. K \in SUBSET Nat
    OBVIOUS
  <2> HIDE DEF K
  <2> QED BY <2>1, <2>2, <2>3, SetInduction
<1>5. b[Size] \in T \/ b[Size] = a[Size]
  BY <1>4, SizeType
<1> QED BY <1>1, <1>2, <1>3, <1>5

-----------------------------------------------------------------------------
\* What FirstOf and OnList are.
LEMMA FirstOfIsEnd ==
  ASSUME NEW q, NEW list, NEW S
  PROVE  FirstOf(q, list, S) = IF WalkEnd(q, list, S) \in S THEN WalkEnd(q, list, S) ELSE NULL
BY DEF FirstOf

LEMMA OnListIsMet ==
  ASSUME NEW q, NEW list, NEW p \in PCB
  PROVE  p \in OnList(q, list) <=> WalkEnd(q, list, {p}) = p
BY FirstOfIsEnd, NullAssumption DEF OnList

\* FirstOf finds a member of S when there is one on the list, and only then.
LEMMA FirstOfFinds ==
  ASSUME NEW q \in QueueRecords, NEW list \in Lists, NEW S \in SUBSET PCB
  PROVE  /\ FirstOf(q, list, S) \in (S \intersect OnList(q, list)) \union {NULL}
         /\ S \intersect OnList(q, list) # {} =>
              FirstOf(q, list, S) # NULL /\ ~Hangs(q, list, S)
<1>1. ASSUME WalkEnd(q, list, S) \in S PROVE WalkEnd(q, list, S) \in OnList(q, list)
  <2> DEFINE f == WalkEnd(q, list, S)
  <2>1. f \in PCB /\ f # NULL
    BY <1>1, NullAssumption
  <2>2. WalkEnd(q, list, {f}) \in {f}
    BY <1>1, <2>1, WalksMeet
  <2> HIDE DEF f
  <2>3. f \in OnList(q, list)
    BY <2>1, <2>2, OnListIsMet
  <2> QED BY <2>3 DEF f
<1>2. ASSUME NEW p \in S, p \in OnList(q, list) PROVE WalkEnd(q, list, S) \in S
  <2>1. WalkEnd(q, list, {p}) = p /\ p # NULL
    BY <1>2, OnListIsMet, NullAssumption
  <2> QED BY <2>1, WalksMeet
<1>3. NULL \notin S
  BY NullAssumption
<1> QED BY <1>1, <1>2, <1>3, FirstOfIsEnd DEF Hangs

-----------------------------------------------------------------------------
\* A set that the list cannot leave.
Closed(q, list, C) ==
  /\ C \subseteq PCB
  /\ q.front[list] \in C \union {NULL}
  /\ \A p \in C : q.next[p] \in C \union {NULL}

\* The list is within every such set.
LEMMA OnListWithin ==
  ASSUME NEW q \in QueueRecords, NEW list \in Lists, NEW C, Closed(q, list, C)
  PROVE  OnList(q, list) \subseteq C
<1> SUFFICES ASSUME NEW p \in OnList(q, list) PROVE p \in C
  OBVIOUS
<1>1. p \in PCB /\ p # NULL
  BY NullAssumption DEF OnList
<1>2. PICK at : IsWalk(at, Size, q, list, {p}) /\ at[Size] = p
  BY <1>1, OnListIsMet, WalkEndsThere
<1> DEFINE K == {k \in Nat : k <= Size => at[k] \in C \union {NULL}}
<1>3. K = Nat
  <2>1. 0 \in K
    BY <1>2 DEF IsWalk, Closed
  <2>2. ASSUME NEW k \in K PROVE k + 1 \in K
    <3>1. SUFFICES ASSUME k + 1 <= Size PROVE at[k + 1] \in C \union {NULL}
      OBVIOUS
    <3>2. k \in 0..Size /\ k + 1 \in 1..Size /\ (k + 1) - 1 = k
      BY <3>1, SizeType
    <3>3. at[k + 1] = Beyond(q, {p}, at[k])
      BY <1>2, <3>2 DEF IsWalk
    <3>4. at[k] \in C \union {NULL}
      BY <3>2
    <3> QED BY <3>3, <3>4 DEF Beyond, Closed
  <2>3. K \in SUBSET Nat
    OBVIOUS
  <2> HIDE DEF K
  <2> QED BY <2>1, <2>2, <2>3, SetInduction
<1>4. at[Size] \in C \union {NULL}
  BY <1>3, SizeType
<1> QED BY <1>1, <1>2, <1>4

\* The walk that looks for the successor y of x has met y before it stands on x
\* for the last time: there are more steps than PCBs.
LEMMA SuccessorIsMet ==
  ASSUME NEW q \in QueueRecords, NEW list \in Lists, NEW x \in OnList(q, list),
         q.next[x] \in PCB
  PROVE  q.next[x] \in OnList(q, list)
<1> DEFINE y == q.next[x]
<1>0. x \in PCB /\ x # NULL /\ y # NULL
  BY NullAssumption DEF OnList
<1>1. PICK a : IsWalk(a, Size, q, list, {x}) /\ a[Size] = x
  BY <1>0, OnListIsMet, WalkEndsThere
<1>2. PICK b : IsWalk(b, Size, q, list, {y}) /\ WalkEnd(q, list, {y}) = b[Size]
  BY WalkEndsThere
<1>3. SUFFICES ASSUME b[Size] # y PROVE FALSE
  BY <1>2, OnListIsMet
<1>4. \A k \in 0..Size : b[k] # y
  BY <1>2, <1>3, WalkStays
<1> HIDE DEF y
<1>5. ASSUME NEW k \in 0..Size, b[k] = x PROVE k = Size
  <2> SUFFICES ASSUME k # Size PROVE FALSE
    OBVIOUS
  <2>1. k + 1 \in 1..Size /\ (k + 1) - 1 = k /\ k + 1 \in 0..Size
    BY SizeType
  <2>2. b[k + 1] = Beyond(q, {y}, b[k])
    BY <1>2, <2>1 DEF IsWalk
  <2>3. b[k + 1] = y
    BY <1>0, <1>4, <1>5, <2>2 DEF Beyond, y
  <2> QED BY <1>4, <2>1, <2>3
<1>6. b[Size] = x
  <2> DEFINE K == {k \in Nat : k <= Size => b[k] = a[k]}
  <2>1. K = Nat
    <3>1. 0 \in K
      BY <1>1, <1>2 DEF IsWalk
    <3>2. ASSUME NEW k \in K PROVE k + 1 \in K
      <4>1. SUFFICES ASSUME k + 1 <= Size PROVE b[k + 1] = a[k + 1]
        OBVIOUS
      <4>2. k \in 0..Size /\ k + 1 \in 1..Size /\ (k + 1) - 1 = k /\ k # Size
        BY <4>1, SizeType
      <4>3. a[k + 1] = Beyond(q, {x}, a[k]) /\ b[k + 1] = Beyond(q, {y}, b[k])
        BY <1>1, <1>2, <4>2 DEF IsWalk
      <4>4. b[k] = a[k] /\ b[k] # x /\ b[k] # y
        BY <1>4, <1>5, <4>2
      <4> QED BY <4>3, <4>4 DEF Beyond
    <3>3. K \in SUBSET Nat
      OBVIOUS
    <3> HIDE DEF K
    <3> QED BY <3>1, <3>2, <3>3, SetInduction
  <2>2. Size \in K
    <3> HIDE DEF K
    <3> QED BY <2>1, SizeType
  <2> QED BY <2>2, <1>1, SizeType
<1>7. \A k \in 0..Size : b[k] \in PCB
  <2> SUFFICES ASSUME NEW k \in 0..Size, b[k] \notin PCB PROVE FALSE
    OBVIOUS
  <2>1. b[k] = NULL
    BY <1>2 DEF IsWalk, PcbOrNull
  <2>2. b[Size] = NULL
    BY <1>2, <2>1, WalkStays
  <2> QED BY <1>0, <1>6, <2>2
<1>8. \E i, j \in 0..Size : i < j /\ b[i] = b[j]
  <2>1. IsFiniteSet(0..Size) /\ Cardinality(0..Size) = Size + 1
    BY SizeType, FS_Interval
  <2>2. b \in [0..Size -> PCB]
    BY <1>2, <1>7 DEF IsWalk
  <2>3. Cardinality(PCB) < Cardinality(0..Size)
    BY <2>1, SizeType DEF Size
  <2>4. \E i, j \in 0..Size : i # j /\ b[i] = b[j]
    BY <2>1, <2>2, <2>3, PcbAssumption, FS_PigeonHole
  <2> QED BY <2>4, SizeType
<1>9. PICK i \in 0..Size, j \in 0..Size : i < j /\ b[i] = b[j]
  BY <1>8
<1>10. ASSUME NEW m \in 0..(Size - 1) PROVE b[m + 1] = q.next[b[m]]
  <2>1. m + 1 \in 1..Size /\ (m + 1) - 1 = m /\ m \in 0..Size
    BY SizeType
  <2>2. b[m + 1] = Beyond(q, {y}, b[m])
    BY <1>2, <2>1 DEF IsWalk
  <2> QED BY <1>4, <1>7, <2>1, <2>2, NullAssumption DEF Beyond
<1> DEFINE D == {b[m] : m \in 0..(j - 1)}
           K == {k \in Nat : k <= Size => b[k] \in D}
<1>11. K = Nat
  <2>1. 0 \in K
    <3>1. 0 \in 0..(j - 1)
      BY <1>9, SizeType
    <3> QED BY <3>1
  <2>2. ASSUME NEW k \in K PROVE k + 1 \in K
    <3>1. SUFFICES ASSUME k + 1 <= Size PROVE b[k + 1] \in D
      OBVIOUS
    <3>2. k \in 0..(Size - 1) /\ k <= Size
      BY <3>1, SizeType
    <3>3. PICK m \in 0..(j - 1) : b[k] = b[m]
      BY <3>2
    <3>4. m \in 0..(Size - 1) /\ m + 1 \in 0..j
      BY <1>9, SizeType
    <3>5. b[k + 1] = b[m + 1]
      BY <1>10, <3>2, <3>3, <3>4
    <3>6. CASE m + 1 = j
      <4>1. i \in 0..(j - 1)
        BY <1>9, SizeType
      <4> QED BY <1>9, <3>5, <3>6, <4>1
    <3>7. CASE m + 1 # j
      <4>1. m + 1 \in 0..(j - 1)
        BY <3>4, <3>7, <1>9, SizeType
      <4> QED BY <3>5, <4>1
    <3> QED BY <3>6, <3>7
  <2>3. K \in SUBSET Nat
    OBVIOUS
  <2> HIDE DEF K, D
  <2> QED BY <2>1, <2>2, <2>3, SetInduction
<1>12. b[Size] \in D
  <2>1. Size \in K
    <3> HIDE DEF K
    <3> QED BY <1>11, SizeType
  <2> HIDE DEF D
  <2> QED BY <2>1, SizeType
<1>13. PICK m \in 0..(j - 1) : b[m] = x
  BY <1>6, <1>12
<1>14. m \in 0..Size /\ m # Size
  BY <1>9, SizeType
<1> QED BY <1>5, <1>13, <1>14

\* The list is itself such a set, the smallest one: a walk of as many steps as
\* there are PCBs misses nothing.
LEMMA OnListClosed ==
  ASSUME NEW q \in QueueRecords, NEW list \in Lists
  PROVE  Closed(q, list, OnList(q, list))
<1>1. OnList(q, list) \subseteq PCB
  BY DEF OnList
<1>2. q.front[list] \in OnList(q, list) \union {NULL}
  <2> DEFINE f == q.front[list]
  <2>1. SUFFICES ASSUME f # NULL PROVE f \in OnList(q, list)
    OBVIOUS
  <2>2. f \in PCB
    BY <2>1 DEF QueueRecords, PcbOrNull
  <2>3. PICK at : IsWalk(at, Size, q, list, {f}) /\ WalkEnd(q, list, {f}) = at[Size]
    BY WalkEndsThere
  <2>4. 0 \in 0..Size /\ at[0] = f
    BY <2>3, SizeType DEF IsWalk
  <2>5. at[Size] = f
    <3>1. at[0] \in {f} \union {NULL}
      BY <2>4
    <3> HIDE DEF f
    <3> QED BY <2>3, <2>4, <3>1, WalkStays
  <2> QED BY <2>2, <2>3, <2>5, OnListIsMet
<1>3. ASSUME NEW p \in OnList(q, list) PROVE q.next[p] \in OnList(q, list) \union {NULL}
  <2>1. q.next[p] \in PCB \union {NULL}
    BY <1>1 DEF QueueRecords, PcbOrNull
  <2> QED BY <2>1, SuccessorIsMet
<1> QED BY <1>1, <1>2, <1>3 DEF Closed

-----------------------------------------------------------------------------
\* Two records with the same links have the same lists.
LEMMA SameLinksSameList ==
  ASSUME NEW q \in QueueRecords, NEW r \in QueueRecords, NEW list \in Lists,
         r.front[list] = q.front[list], r.next = q.next
  PROVE  OnList(r, list) = OnList(q, list)
<1>1. Closed(q, list, OnList(r, list)) /\ Closed(r, list, OnList(q, list))
  BY OnListClosed DEF Closed
<1> QED BY <1>1, OnListWithin

\* A PCB that is linked behind another one of the list is on the list.
LEMMA LinkedIsOnList ==
  ASSUME NEW q \in QueueRecords, NEW p \in PCB, NEW list \in Lists, NEW Stops \in SUBSET PCB,
         q.fault = "none", LinkBehind(q, p, list, Stops).fault = "none"
  PROVE  p \in OnList(LinkBehind(q, p, list, Stops), list)
<1> DEFINE r == LinkBehind(q, p, list, Stops)
           C == OnList(r, list)
           temp == FirstOf(q, list, Stops)
<1>1. r \in QueueRecords
  BY LinkBehindKeeps
<1>2. Closed(r, list, C)
  BY <1>1, OnListClosed
<1>3. CASE q.front[list] = NULL
  <2>1. r.front[list] = p
    BY <1>3 DEF LinkBehind, QueueRecords
  <2> HIDE DEF r, C
  <2>2. p \in C
    BY <1>2, <2>1, NullAssumption DEF Closed
  <2> QED BY <2>2 DEF C, r
<1>4. CASE q.front[list] # NULL
  <2>1. temp \in OnList(q, list) \union {NULL}
    BY FirstOfFinds
  <2>2. temp # NULL
    BY <1>4 DEF LinkBehind, Fail, QueueRecords
  <2>3. temp \in PCB /\ temp \in OnList(q, list)
    BY <2>1, <2>2 DEF OnList
  <2>4. r = [q EXCEPT !.next = [[@ EXCEPT ![temp] = p] EXCEPT ![p] = q.next[temp]]]
    BY <1>4, <2>2 DEF LinkBehind
  <2> HIDE DEF temp, r, C
  <2>5. r.front = q.front /\ \A x \in PCB : r.next[x] = IF x = p THEN q.next[temp]
                                                       ELSE IF x = temp THEN p ELSE q.next[x]
    BY <2>3, <2>4 DEF QueueRecords
  <2>6. SUFFICES ASSUME p \notin C PROVE FALSE
    BY DEF C, r
  <2>7. temp \notin C
    BY <1>2, <2>3, <2>5, <2>6, NullAssumption DEF Closed
  <2>8. Closed(q, list, C)
    BY <1>2, <2>5, <2>6, <2>7 DEF Closed
  <2> QED BY <2>3, <2>7, <2>8, OnListWithin
<1> QED BY <1>3, <1>4

-----------------------------------------------------------------------------
\* A PCB that is not allocated is on no list, and its own link is empty.
FreeUnlinked(q) ==
  /\ \A list \in Lists : Closed(q, list, PCB \ InState(q, "FREE"))
  /\ \A p \in InState(q, "FREE") : q.next[p] = NULL

LEMMA FreeShrinks ==
  ASSUME NEW q \in QueueRecords, NEW r \in QueueRecords, FreeUnlinked(q),
         r.front = q.front, r.next = q.next, InState(r, "FREE") \subseteq InState(q, "FREE")
  PROVE  FreeUnlinked(r)
BY DEF FreeUnlinked, Closed, InState

LEMMA ListedIsAllocated ==
  ASSUME NEW q \in QueueRecords, FreeUnlinked(q), NEW list \in Lists
  PROVE  OnList(q, list) \subseteq PCB \ InState(q, "FREE")
BY OnListWithin DEF FreeUnlinked

LEMMA UnlinkKeepsFree ==
  ASSUME NEW q \in QueueRecords, FreeUnlinked(q), NEW p \in PCB, NEW list \in Lists
  PROVE  FreeUnlinked(Unlink(q, p, list))
<1> DEFINE r == Unlink(q, p, list)
           prev == FirstOf(q, list, Before(q, p))
           A == PCB \ InState(q, "FREE")
<1>1. r \in QueueRecords /\ r.state = q.state
  BY UnlinkKeeps
<1>2. /\ q.next[p] \in A \union {NULL}
      /\ \A x \in PCB : q.next[x] \in A \union {NULL}
      /\ \A l \in Lists : q.front[l] \in A \union {NULL}
      /\ \A x \in PCB \ A : q.next[x] = NULL
  BY DEF FreeUnlinked, Closed, InState
<1>3. prev \in A \union {NULL}
  <2>1. Before(q, p) \in SUBSET PCB
    BY DEF Before
  <2> QED BY <2>1, FirstOfFinds, ListedIsAllocated
<1> HIDE DEF prev
<1>4. \/ r.front = q.front /\ r.next = q.next
      \/ r.front = [q.front EXCEPT ![list] = q.next[p]] /\ r.next = q.next
      \/ r.front = q.front /\ prev \in A /\ r.next = [q.next EXCEPT ![prev] = q.next[p]]
  BY <1>3 DEF Unlink, Fail, QueueRecords, prev
<1> HIDE DEF r
<1>5. InState(r, "FREE") = PCB \ A
  BY <1>1 DEF InState
<1> HIDE DEF A
<1>6. \A l \in Lists : r.front[l] \in A \union {NULL}
  BY <1>1, <1>2, <1>4 DEF QueueRecords
<1>7. A \subseteq PCB
  BY DEF A
<1>8. \A x \in PCB : r.next[x] \in A \union {NULL} /\ (x \notin A => r.next[x] = NULL)
  BY <1>1, <1>2, <1>4, <1>7 DEF QueueRecords
<1>9. PCB \ (PCB \ A) = A
  BY <1>7
<1>10. FreeUnlinked(r)
  BY <1>5, <1>6, <1>7, <1>8, <1>9 DEF FreeUnlinked, Closed
<1> QED BY <1>10 DEF r

LEMMA RemoveKeepsFree ==
  ASSUME NEW q \in QueueRecords, FreeUnlinked(q), NEW p \in PcbOrNull
  PROVE  FreeUnlinked(PcbRemove(q, p))
<1>1. p # NULL => p \in PCB
  BY DEF PcbOrNull
<1>2. {"ready", "blocked"} \subseteq Lists
  BY DEF Lists
<1> QED BY <1>1, <1>2, UnlinkKeepsFree DEF PcbRemove

LEMMA LinkKeepsFree ==
  ASSUME NEW q \in QueueRecords, FreeUnlinked(q), NEW p \in PCB, q.state[p] # "FREE",
         NEW list \in Lists, NEW Stops \in SUBSET PCB
  PROVE  FreeUnlinked(LinkBehind(q, p, list, Stops))
<1> DEFINE r == LinkBehind(q, p, list, Stops)
           temp == FirstOf(q, list, Stops)
           A == PCB \ InState(q, "FREE")
<1>1. r \in QueueRecords /\ r.state = q.state
  BY LinkBehindKeeps
<1>2. /\ p \in A
      /\ \A x \in PCB : q.next[x] \in A \union {NULL}
      /\ \A l \in Lists : q.front[l] \in A \union {NULL}
      /\ \A x \in PCB \ A : q.next[x] = NULL
  BY DEF FreeUnlinked, Closed, InState
<1>3. temp \in A \union {NULL}
  BY FirstOfFinds, ListedIsAllocated
<1> HIDE DEF temp
<1>4. \/ r.front = q.front /\ r.next = q.next
      \/ r.front = [q.front EXCEPT ![list] = p] /\ r.next = q.next
      \/ /\ r.front = q.front /\ temp \in A
         /\ r.next = [[q.next EXCEPT ![temp] = p] EXCEPT ![p] = q.next[temp]]
  BY <1>3 DEF LinkBehind, Fail, QueueRecords, temp
<1> HIDE DEF r
<1>5. InState(r, "FREE") = PCB \ A
  BY <1>1 DEF InState
<1>6. A \subseteq PCB
  OBVIOUS
<1> HIDE DEF A
<1>7. \A l \in Lists : r.front[l] \in A \union {NULL}
  BY <1>1, <1>2, <1>4 DEF QueueRecords
<1>8. \A x \in PCB : r.next[x] \in A \union {NULL} /\ (x \notin A => r.next[x] = NULL)
  BY <1>1, <1>2, <1>4, <1>6 DEF QueueRecords
<1>9. PCB \ (PCB \ A) = A
  BY <1>6
<1>10. FreeUnlinked(r)
  BY <1>5, <1>6, <1>7, <1>8, <1>9 DEF FreeUnlinked, Closed
<1> QED BY <1>10 DEF r

LEMMA InsertKeepsFree ==
  ASSUME NEW q \in QueueRecords, FreeUnlinked(q), NEW p \in PCB
  PROVE  FreeUnlinked(PcbInsert(q, p))
<1> DEFINE Stops == {s \in PCB : q.next[s] = NULL \/ q.prio[s] > q.prio[p]}
           Last == {s \in PCB : q.next[s] = NULL}
<1>1. Stops \in SUBSET PCB /\ Last \in SUBSET PCB
  OBVIOUS
<1>2. {"ready", "blocked"} \subseteq Lists
  BY DEF Lists
<1>3. q.state[p] # "FREE" => /\ FreeUnlinked(LinkBehind(q, p, "ready", Stops))
                            /\ FreeUnlinked(LinkBehind(q, p, "blocked", Last))
  BY <1>1, <1>2, LinkKeepsFree
<1> QED BY <1>3 DEF PcbInsert, ReadyStates, BlockedStates

-----------------------------------------------------------------------------
\* pcb_remove finds the predecessor of a PCB that is on the list its state says.
LEMMA UnlinkFromList ==
  ASSUME NEW q \in QueueRecords, NEW list \in Lists, NEW p \in OnList(q, list),
         q.fault # "null"
  PROVE  Unlink(q, p, list).fault # "null"
<1>1. p \in PCB /\ p # NULL
  BY NullAssumption DEF OnList
<1>2. SUFFICES ASSUME q.front[list] # p PROVE FirstOf(q, list, Before(q, p)) # NULL
  BY DEF Unlink, Fail, QueueRecords
<1>3. Before(q, p) \intersect OnList(q, list) # {}
  <2> SUFFICES ASSUME Before(q, p) \intersect OnList(q, list) = {} PROVE FALSE
    OBVIOUS
  <2>1. Closed(q, list, OnList(q, list))
    BY OnListClosed
  <2>2. Closed(q, list, OnList(q, list) \ {p})
    BY <1>2, <2>1 DEF Closed, Before
  <2> QED BY <2>2, OnListWithin
<1>4. Before(q, p) \in SUBSET PCB
  BY DEF Before
<1> QED BY <1>3, <1>4, FirstOfFinds

LEMMA RemoveFromList ==
  ASSUME NEW q \in QueueRecords, NEW p \in PcbOrNull, q.fault # "null",
         p # NULL /\ q.state[p] \in ReadyStates => p \in OnList(q, "ready"),
         p # NULL /\ q.state[p] \in BlockedStates => p \in OnList(q, "blocked")
  PROVE  PcbRemove(q, p).fault # "null"
<1>1. {"ready", "blocked"} \subseteq Lists
  BY DEF Lists
<1> QED BY <1>1, UnlinkFromList DEF PcbRemove

\* pcb_insert follows no NULL pointer: at worst it does not come to an end.
LEMMA InsertNeverNull ==
  ASSUME NEW q \in QueueRecords, NEW p \in PCB, q.fault # "null"
  PROVE  PcbInsert(q, p).fault # "null"
BY DEF PcbInsert, LinkBehind, Fail, QueueRecords

\* A process that waits is on the blocked list once it is inserted.
LEMMA InsertedWaits ==
  ASSUME NEW q \in QueueRecords, NEW p \in PCB, q.state[p] = "BLOCKED",
         PcbInsert(q, p).fault = "none"
  PROVE  p \in OnList(PcbInsert(q, p), "blocked")
<1>1. "blocked" \in Lists
  BY DEF Lists
<1>2. q.fault = "none"
  BY DEF PcbInsert
<1> QED BY <1>1, <1>2, LinkedIsOnList DEF PcbInsert, ReadyStates, BlockedStates

\* A new PCB on the ready list takes none off the blocked list, even where the
\* two lists share PCBs.
LEMMA NewKeepsBlockedList ==
  ASSUME NEW q \in QueueRecords, NEW p \in PCB, q.next[p] = NULL, q.state[p] = "READY",
         q.fault = "none"
  PROVE  OnList(q, "blocked") \subseteq OnList(PcbInsert(q, p), "blocked")
<1> DEFINE Stops == {s \in PCB : q.next[s] = NULL \/ q.prio[s] > q.prio[p]}
           temp == FirstOf(q, "ready", Stops)
           r == PcbInsert(q, p)
           C == OnList(r, "blocked")
<1>0. {"ready", "blocked"} \subseteq Lists /\ "ready" # "blocked"
  BY DEF Lists
<1>1. r = LinkBehind(q, p, "ready", Stops)
  BY DEF PcbInsert, ReadyStates
<1>2. r \in QueueRecords
  BY InsertKeeps
<1>3. Closed(r, "blocked", C)
  BY <1>0, <1>2, OnListClosed
<1>4. temp \in PCB \union {NULL}
  BY FirstOfType
<1> HIDE DEF temp
<1>5. /\ r.front["blocked"] = q.front["blocked"]
      /\ \/ r.next = q.next
         \/ temp \in PCB /\ r.next = [[q.next EXCEPT ![temp] = p] EXCEPT ![p] = q.next[temp]]
  BY <1>0, <1>1, <1>4 DEF LinkBehind, Fail, QueueRecords, temp
<1> HIDE DEF r, C, Stops
<1>6. Closed(q, "blocked", C)
  <2>1. CASE r.next = q.next
    BY <1>3, <1>5, <2>1 DEF Closed
  <2>2. CASE temp \in PCB /\ r.next = [[q.next EXCEPT ![temp] = p] EXCEPT ![p] = q.next[temp]]
    <3>1. \A x \in PCB : r.next[x] = IF x = p THEN q.next[temp]
                                    ELSE IF x = temp THEN p ELSE q.next[x]
      BY <2>2 DEF QueueRecords
    <3>2. ASSUME NEW x \in C PROVE q.next[x] \in C \union {NULL}
      <4>1. CASE x = p
        BY <4>1
      <4>2. CASE x = temp /\ x # p
        <5>1. r.next[temp] = p
          BY <2>2, <3>1, <4>2
        <5>2. p \in C
          BY <1>3, <4>2, <5>1, NullAssumption DEF Closed
        <5>3. r.next[p] = q.next[temp]
          BY <3>1
        <5> QED BY <1>3, <4>2, <5>2, <5>3 DEF Closed
      <4>3. CASE x # temp /\ x # p
        BY <1>3, <3>1, <4>3 DEF Closed
      <4> QED BY <4>1, <4>2, <4>3
    <3> QED BY <1>3, <1>5, <3>2 DEF Closed
  <2> QED BY <1>5, <2>1, <2>2
<1> QED BY <1>0, <1>6, OnListWithin DEF C, r

-----------------------------------------------------------------------------
(***************************************************************************)
(* A list as it is meant to be: no PCB of it is linked twice, nor is its   *)
(* front linked from inside it.                                            *)
(***************************************************************************)
Linear(q, list) ==
  /\ \A r \in OnList(q, list) : q.next[r] # q.front[list]
  /\ \A r, s \in OnList(q, list) : q.next[r] = q.next[s] /\ q.next[r] # NULL => r = s

\* What a walk does that has not met S: it goes from one PCB of the list to the next.
LEMMA WalkOnList ==
  ASSUME NEW q \in QueueRecords, NEW list \in Lists, NEW S, Hangs(q, list, S)
  PROVE  \E at : /\ at \in [0..Size -> OnList(q, list)]
                 /\ at[0] = q.front[list]
                 /\ \A k \in 1..Size : at[k] = q.next[at[k - 1]]
<1>1. PICK at : IsWalk(at, Size, q, list, S) /\ WalkEnd(q, list, S) = at[Size]
  BY WalkEndsThere
<1>2. \A k \in 0..Size : at[k] \notin S \union {NULL}
  BY <1>1, WalkStays DEF Hangs
<1>3. ASSUME NEW k \in 1..Size PROVE at[k] = q.next[at[k - 1]]
  <2>1. k - 1 \in 0..Size
    BY SizeType
  <2> QED BY <1>1, <1>2, <2>1 DEF IsWalk, Beyond
<1>4. Closed(q, list, OnList(q, list))
  BY OnListClosed
<1> DEFINE K == {k \in Nat : k <= Size => at[k] \in OnList(q, list)}
<1>5. K = Nat
  <2>1. 0 \in K
    <3>1. 0 \in 0..Size
      BY SizeType
    <3>2. at[0] = q.front[list] /\ at[0] # NULL
      BY <1>1, <1>2, <3>1 DEF IsWalk
    <3> QED BY <1>4, <3>2 DEF Closed
  <2>2. ASSUME NEW k \in K PROVE k + 1 \in K
    <3>1. SUFFICES ASSUME k + 1 <= Size PROVE at[k + 1] \in OnList(q, list)
      OBVIOUS
    <3>2. k + 1 \in 1..Size /\ (k + 1) - 1 = k /\ k + 1 \in 0..Size /\ k <= Size
      BY <3>1, SizeType
    <3>3. at[k + 1] = q.next[at[k]] /\ at[k] \in OnList(q, list) /\ at[k + 1] # NULL
      BY <1>2, <1>3, <3>2
    <3> QED BY <1>4, <3>3 DEF Closed
  <2>3. K \in SUBSET Nat
    OBVIOUS
  <2> HIDE DEF K
  <2> QED BY <2>1, <2>2, <2>3, SetInduction
<1>6. at \in [0..Size -> OnList(q, list)]
  BY <1>1, <1>5, SizeType DEF IsWalk
<1> QED BY <1>1, <1>3, <1>6 DEF IsWalk

\* A walk along such a list comes to an end, whatever it looks for: it meets no
\* PCB twice, and there are more steps than PCBs.
LEMMA LinearEnds ==
  ASSUME NEW q \in QueueRecords, NEW list \in Lists, NEW S, Linear(q, list)
  PROVE  ~Hangs(q, list, S)
<1> SUFFICES ASSUME Hangs(q, list, S) PROVE FALSE
  OBVIOUS
<1> DEFINE L == OnList(q, list)
<1>1. PICK at : /\ at \in [0..Size -> L]
                /\ at[0] = q.front[list]
                /\ \A k \in 1..Size : at[k] = q.next[at[k - 1]]
  BY WalkOnList
<1>2. L \subseteq PCB
  BY DEF OnList
<1>3. /\ \A r \in L : q.next[r] # q.front[list]
      /\ \A r, s \in L : q.next[r] = q.next[s] /\ q.next[r] # NULL => r = s
  BY DEF Linear
<1> HIDE DEF L
<1> DEFINE K == {k \in Nat : k <= Size => \A j \in 0..Size : k < j => at[k] # at[j]}
<1>4. K = Nat
  <2>1. 0 \in K
    <3>1. SUFFICES ASSUME NEW j \in 0..Size, 0 < j PROVE at[0] # at[j]
      OBVIOUS
    <3>2. j \in 1..Size /\ j - 1 \in 0..Size
      BY <3>1, SizeType
    <3>3. at[j] = q.next[at[j - 1]] /\ at[j - 1] \in L
      BY <1>1, <3>2
    <3> QED BY <1>1, <1>3, <3>3
  <2>2. ASSUME NEW k \in K PROVE k + 1 \in K
    <3>1. SUFFICES ASSUME k + 1 <= Size, NEW j \in 0..Size, k + 1 < j, at[k + 1] = at[j]
                   PROVE  FALSE
      OBVIOUS
    <3>2. /\ j \in 1..Size /\ j - 1 \in 0..Size /\ k < j - 1 /\ k \in 0..Size /\ k <= Size
          /\ k + 1 \in 1..Size /\ (k + 1) - 1 = k /\ k + 1 \in 0..Size
      BY <3>1, SizeType
    <3>3. /\ at[j] = q.next[at[j - 1]] /\ at[j - 1] \in L
          /\ at[k + 1] = q.next[at[k]] /\ at[k] \in L /\ at[k + 1] \in L
      BY <1>1, <3>2
    <3>4. at[k + 1] # NULL
      BY <1>2, <3>3, NullAssumption
    <3>5. at[k] = at[j - 1]
      BY <1>3, <3>1, <3>3, <3>4
    <3> QED BY <3>2, <3>5
  <2>3. K \in SUBSET Nat
    OBVIOUS
  <2> HIDE DEF K
  <2> QED BY <2>1, <2>2, <2>3, SetInduction
<1>5. \A i, j \in 0..Size : i < j => at[i] # at[j]
  BY <1>4, SizeType
<1>6. \E i, j \in 0..Size : i # j /\ at[i] = at[j]
  <2>1. IsFiniteSet(0..Size) /\ Cardinality(0..Size) = Size + 1
    BY SizeType, FS_Interval
  <2>2. at \in [0..Size -> PCB]
    BY <1>1, <1>2
  <2>3. Cardinality(PCB) < Cardinality(0..Size)
    BY <2>1, SizeType DEF Size
  <2> QED BY <2>1, <2>2, <2>3, PcbAssumption, FS_PigeonHole
<1> QED BY <1>5, <1>6, SizeType

\* A list that is not empty has a last PCB.
LEMMA LinearHasLast ==
  ASSUME NEW q \in QueueRecords, NEW list \in Lists, Linear(q, list), q.front[list] # NULL
  PROVE  \E p \in OnList(q, list) : q.next[p] = NULL
<1> SUFFICES ASSUME \A p \in OnList(q, list) : q.next[p] # NULL PROVE FALSE
  OBVIOUS
<1> DEFINE L == OnList(q, list)
<1>1. /\ L \subseteq PCB /\ q.front[list] \in L
      /\ \A p \in L : q.next[p] \in L
  BY OnListClosed DEF Closed
<1>2. PICK at : IsWalk(at, Size, q, list, {}) /\ WalkEnd(q, list, {}) = at[Size]
  BY WalkEndsThere
<1>3. at[Size] = NULL
  BY <1>2, LinearEnds DEF Hangs
<1> HIDE DEF L
<1> DEFINE K == {k \in Nat : k <= Size => at[k] \in L}
<1>4. K = Nat
  <2>1. 0 \in K
    BY <1>1, <1>2 DEF IsWalk
  <2>2. ASSUME NEW k \in K PROVE k + 1 \in K
    <3>1. SUFFICES ASSUME k + 1 <= Size PROVE at[k + 1] \in L
      OBVIOUS
    <3>2. k + 1 \in 1..Size /\ (k + 1) - 1 = k /\ k <= Size
      BY <3>1, SizeType
    <3>3. at[k + 1] = Beyond(q, {}, at[k]) /\ at[k] \in L
      BY <1>2, <3>2 DEF IsWalk
    <3> QED BY <1>1, <3>3, NullAssumption DEF Beyond
  <2>3. K \in SUBSET Nat
    OBVIOUS
  <2> HIDE DEF K
  <2> QED BY <2>1, <2>2, <2>3, SetInduction
<1>5. at[Size] \in L
  BY <1>4, SizeType
<1> QED BY <1>1, <1>3, <1>5, NullAssumption

\* A walk that looks for the front goes nowhere.
LEMMA FrontIsFirst ==
  ASSUME NEW q \in QueueRecords, NEW list \in Lists, NEW S, q.front[list] \in S
  PROVE  FirstOf(q, list, S) = q.front[list] /\ ~Hangs(q, list, S)
<1>1. PICK at : IsWalk(at, Size, q, list, S) /\ WalkEnd(q, list, S) = at[Size]
  BY WalkEndsThere
<1>2. 0 \in 0..Size /\ at[0] = q.front[list]
  BY <1>1, SizeType DEF IsWalk
<1>3. at[Size] = at[0]
  BY <1>1, <1>2, WalkStays
<1> QED BY <1>1, <1>2, <1>3, FirstOfIsEnd DEF Hangs

-----------------------------------------------------------------------------
\* The links and the front of a list make it what it is.
LEMMA SameOnList ==
  ASSUME NEW q \in QueueRecords, NEW r \in QueueRecords, NEW list \in Lists,
         r.front[list] = q.front[list],
         \A p \in OnList(q, list) : r.next[p] = q.next[p]
  PROVE  OnList(r, list) = OnList(q, list) /\ (Linear(q, list) => Linear(r, list))
<1>1. Closed(q, list, OnList(q, list)) /\ Closed(r, list, OnList(r, list))
  BY OnListClosed
<1>2. Closed(r, list, OnList(q, list))
  BY <1>1 DEF Closed
<1>3. OnList(r, list) \subseteq OnList(q, list)
  BY <1>2, OnListWithin
<1>4. Closed(q, list, OnList(r, list))
  BY <1>1, <1>3 DEF Closed
<1>5. OnList(r, list) = OnList(q, list)
  BY <1>3, <1>4, OnListWithin
<1> QED BY <1>5 DEF Linear

\* Two lists with one front are one list.
LEMMA OneFrontOneList ==
  ASSUME NEW q \in QueueRecords, NEW k \in Lists, NEW l \in Lists, q.front[k] = q.front[l]
  PROVE  OnList(q, k) = OnList(q, l) /\ (Linear(q, k) => Linear(q, l))
<1>1. Closed(q, k, OnList(q, l)) /\ Closed(q, l, OnList(q, k))
  BY OnListClosed DEF Closed
<1>2. OnList(q, k) = OnList(q, l)
  BY <1>1, OnListWithin
<1> QED BY <1>2 DEF Linear

\* Lists of no PCB, of one and of two.
LEMMA ShortLists ==
  ASSUME NEW q \in QueueRecords, NEW list \in Lists
  PROVE  /\ q.front[list] = NULL => OnList(q, list) = {} /\ Linear(q, list)
         /\ \A p \in PCB : q.front[list] = p /\ q.next[p] = NULL =>
              OnList(q, list) = {p} /\ Linear(q, list)
         /\ \A p, s \in PCB : q.front[list] = p /\ q.next[p] = s /\ q.next[s] = NULL =>
              OnList(q, list) = {p, s} /\ Linear(q, list)
<1>0. Closed(q, list, OnList(q, list))
  BY OnListClosed
<1>1. ASSUME q.front[list] = NULL PROVE OnList(q, list) = {} /\ Linear(q, list)
  <2>1. Closed(q, list, {})
    BY <1>1 DEF Closed
  <2>2. OnList(q, list) = {}
    BY <2>1, OnListWithin
  <2> QED BY <2>2 DEF Linear
<1>2. ASSUME NEW p \in PCB, q.front[list] = p, q.next[p] = NULL
      PROVE  OnList(q, list) = {p} /\ Linear(q, list)
  <2>1. Closed(q, list, {p})
    BY <1>2 DEF Closed
  <2>2. OnList(q, list) \subseteq {p}
    BY <2>1, OnListWithin
  <2>3. p \in OnList(q, list)
    BY <1>0, <1>2, NullAssumption DEF Closed
  <2>4. OnList(q, list) = {p}
    BY <2>2, <2>3
  <2> QED BY <1>2, <2>4, NullAssumption DEF Linear
<1>3. ASSUME NEW p \in PCB, NEW s \in PCB, q.front[list] = p, q.next[p] = s, q.next[s] = NULL
      PROVE  OnList(q, list) = {p, s} /\ Linear(q, list)
  <2>1. Closed(q, list, {p, s})
    BY <1>3 DEF Closed
  <2>2. OnList(q, list) \subseteq {p, s}
    BY <2>1, OnListWithin
  <2>3. p # s /\ p # NULL /\ s # NULL
    BY <1>3, NullAssumption
  <2>4. p \in OnList(q, list)
    BY <1>0, <1>3, <2>3 DEF Closed
  <2>5. s \in OnList(q, list)
    BY <1>0, <1>3, <2>3, <2>4 DEF Closed
  <2>6. OnList(q, list) = {p, s}
    BY <2>2, <2>4, <2>5
  <2> QED BY <1>3, <2>3, <2>6 DEF Linear
<1> QED BY <1>1, <1>2, <1>3

-----------------------------------------------------------------------------
\* What pcb_remove does to a list it finds p on.
Unlinked(q, r, p, list) ==
  /\ r.fault = q.fault
  /\ \/ /\ q.front[list] = p
        /\ r.front = [q.front EXCEPT ![list] = q.next[p]] /\ r.next = q.next
     \/ /\ q.front[list] # p /\ r.front = q.front
        /\ \E prev \in OnList(q, list) \ {p} :
             q.next[prev] = p /\ r.next = [q.next EXCEPT ![prev] = q.next[p]]

LEMMA UnlinkUnlinks ==
  ASSUME NEW q \in QueueRecords, NEW list \in Lists, NEW p \in OnList(q, list), Linear(q, list)
  PROVE  Unlinked(q, Unlink(q, p, list), p, list)
<1> DEFINE r == Unlink(q, p, list)
           prev == FirstOf(q, list, Before(q, p))
<1>1. p \in PCB /\ p # NULL
  BY NullAssumption DEF OnList
<1>2. Closed(q, list, OnList(q, list))
  BY OnListClosed
<1>3. q.front[list] # NULL
  <2> SUFFICES ASSUME q.front[list] = NULL PROVE FALSE
    OBVIOUS
  <2> QED BY ShortLists
<1>4. CASE q.front[list] = p
  <2>1. r = [q EXCEPT !.front[list] = q.next[p]]
    BY <1>3, <1>4 DEF Unlink
  <2> HIDE DEF r
  <2>2. r.fault = q.fault /\ r.front = [q.front EXCEPT ![list] = q.next[p]] /\ r.next = q.next
    BY <2>1 DEF QueueRecords
  <2> QED BY <1>4, <2>2 DEF Unlinked, r
<1>5. CASE q.front[list] # p
  <2>1. Before(q, p) \in SUBSET PCB
    BY DEF Before
  <2>2. Before(q, p) \intersect OnList(q, list) # {}
    <3> SUFFICES ASSUME Before(q, p) \intersect OnList(q, list) = {} PROVE FALSE
      OBVIOUS
    <3>1. Closed(q, list, OnList(q, list) \ {p})
      BY <1>2, <1>5 DEF Closed, Before
    <3> QED BY <3>1, OnListWithin
  <2>3. prev \in OnList(q, list) /\ q.next[prev] = p /\ prev # NULL
    BY <2>1, <2>2, FirstOfFinds DEF Before
  <2>4. ~Hangs(q, list, Before(q, p))
    BY LinearEnds
  <2>5. prev # p
    <3> SUFFICES ASSUME prev = p PROVE FALSE
      OBVIOUS
    <3>1. \A s \in OnList(q, list) : q.next[s] = p => s = p
      BY <1>1, <2>3 DEF Linear
    <3>2. Closed(q, list, OnList(q, list) \ {p})
      BY <1>2, <1>5, <3>1 DEF Closed
    <3> QED BY <3>2, OnListWithin
  <2>6. r = [q EXCEPT !.next[prev] = q.next[p]]
    BY <1>3, <1>5, <2>3, <2>4 DEF Unlink
  <2> HIDE DEF r, prev
  <2>7. r.fault = q.fault /\ r.front = q.front /\ r.next = [q.next EXCEPT ![prev] = q.next[p]]
    BY <2>6 DEF QueueRecords
  <2> QED BY <1>5, <2>3, <2>5, <2>7 DEF Unlinked, r
<1> QED BY <1>4, <1>5

\* The list is the same but for p, and still linear.
LEMMA UnlinkedLeaves ==
  ASSUME NEW q \in QueueRecords, NEW r \in QueueRecords, NEW list \in Lists,
         NEW p \in OnList(q, list), Linear(q, list), Unlinked(q, r, p, list)
  PROVE  OnList(r, list) = OnList(q, list) \ {p} /\ Linear(r, list)
<1> DEFINE L == OnList(q, list)
           M == OnList(r, list)
<1>1. p \in PCB /\ p # NULL /\ L \subseteq PCB /\ NULL \notin L
  BY NullAssumption DEF OnList
<1>2. /\ q.front[list] \in L \union {NULL} /\ \A x \in L : q.next[x] \in L \union {NULL}
      /\ M \subseteq PCB
      /\ r.front[list] \in M \union {NULL} /\ \A x \in M : r.next[x] \in M \union {NULL}
  BY OnListClosed DEF Closed
<1>3. /\ \A x \in L : q.next[x] # q.front[list]
      /\ \A x, y \in L : q.next[x] = q.next[y] /\ q.next[x] # NULL => x = y
  BY DEF Linear
<1>4. \A C : Closed(q, list, C) => L \subseteq C
  BY OnListWithin
<1>5. \A C : Closed(r, list, C) => M \subseteq C
  BY OnListWithin
<1> HIDE DEF L, M
<1>6. SUFFICES M = L \ {p} /\ /\ \A x \in M : r.next[x] # r.front[list]
                              /\ \A x, y \in M : r.next[x] = r.next[y] /\ r.next[x] # NULL => x = y
  BY DEF Linear, L, M
<1>7. CASE q.front[list] = p /\ r.front = [q.front EXCEPT ![list] = q.next[p]] /\ r.next = q.next
  <2>1. r.front[list] = q.next[p]
    BY <1>7 DEF QueueRecords
  <2>2. Closed(r, list, L \ {p})
    BY <1>1, <1>2, <1>3, <1>7, <2>1 DEF Closed, L
  <2>3. Closed(q, list, M \union {p})
    BY <1>1, <1>2, <1>7, <2>1 DEF Closed
  <2>4. M = L \ {p}
    BY <1>4, <1>5, <2>2, <2>3
  <2>5. p \in L
    BY DEF L
  <2>6. q.next[p] = NULL => M = {}
    <3>1. q.next[p] = NULL => Closed(r, list, {})
      BY <2>1 DEF Closed
    <3> QED BY <1>5, <3>1
  <2>7. ASSUME NEW x \in M PROVE r.next[x] # r.front[list]
    BY <1>1, <1>3, <1>7, <2>1, <2>4, <2>5, <2>6
  <2>8. \A x, y \in M : r.next[x] = r.next[y] /\ r.next[x] # NULL => x = y
    BY <1>3, <1>7, <2>4
  <2> QED BY <2>4, <2>7, <2>8
<1>8. ASSUME q.front[list] # p, r.front = q.front, NEW prev \in L \ {p}, q.next[prev] = p,
             r.next = [q.next EXCEPT ![prev] = q.next[p]]
      PROVE  M = L \ {p} /\ /\ \A x \in M : r.next[x] # r.front[list]
                            /\ \A x, y \in M : r.next[x] = r.next[y] /\ r.next[x] # NULL => x = y
  <2>0. p \in L
    BY DEF L
  <2>1. \A x \in PCB : r.next[x] = IF x = prev THEN q.next[p] ELSE q.next[x]
    BY <1>1, <1>8 DEF QueueRecords
  <2>2. Closed(r, list, L \ {p})
    BY <1>1, <1>2, <1>3, <1>8, <2>0, <2>1 DEF Closed
  <2>3. q.next[p] \in M \union {NULL} \union {p} \/ prev \notin M
    BY <1>2, <1>8, <2>1
  <2>4. Closed(q, list, M \union {p})
    <3>1. prev \in M
      <4> SUFFICES ASSUME prev \notin M PROVE FALSE
        OBVIOUS
      <4>1. Closed(q, list, M)
        BY <1>1, <1>2, <1>8, <2>1 DEF Closed
      <4> QED BY <1>4, <1>8, <4>1
    <3> QED BY <1>1, <1>2, <1>8, <2>1, <2>3, <3>1 DEF Closed
  <2>5. M = L \ {p}
    BY <1>4, <1>5, <2>2, <2>4
  <2> QED BY <1>1, <1>2, <1>3, <1>8, <2>0, <2>1, <2>5
<1> QED BY <1>7, <1>8 DEF Unlinked, L

-----------------------------------------------------------------------------
\* What pcb_insert does to a list that is not empty.
Linked(q, r, p, list, Stops) ==
  /\ r.fault = q.fault /\ r.front = q.front
  /\ \E temp \in OnList(q, list) \intersect Stops :
       r.next = [[q.next EXCEPT ![temp] = p] EXCEPT ![p] = q.next[temp]]

LEMMA LinkLinks ==
  ASSUME NEW q \in QueueRecords, NEW list \in Lists, NEW p \in PCB, Linear(q, list),
         q.front[list] # NULL, NEW Stops \in SUBSET PCB,
         \A s \in PCB : q.next[s] = NULL => s \in Stops
  PROVE  Linked(q, LinkBehind(q, p, list, Stops), p, list, Stops)
<1> DEFINE r == LinkBehind(q, p, list, Stops)
           temp == FirstOf(q, list, Stops)
<1>1. Stops \intersect OnList(q, list) # {}
  BY LinearHasLast DEF OnList
<1>2. temp \in OnList(q, list) \intersect Stops /\ temp # NULL
  BY <1>1, FirstOfFinds
<1>3. r = [q EXCEPT !.next = [[@ EXCEPT ![temp] = p] EXCEPT ![p] = q.next[temp]]]
  BY <1>2 DEF LinkBehind
<1> HIDE DEF r, temp
<1>4. /\ r.fault = q.fault /\ r.front = q.front
      /\ r.next = [[q.next EXCEPT ![temp] = p] EXCEPT ![p] = q.next[temp]]
  BY <1>3 DEF QueueRecords
<1> QED BY <1>2, <1>4 DEF Linked, r

\* The list has p in addition, and is still linear.
LEMMA LinkedJoins ==
  ASSUME NEW q \in QueueRecords, NEW r \in QueueRecords, NEW list \in Lists,
         NEW p \in PCB \ OnList(q, list), NEW Stops, Linear(q, list), Linked(q, r, p, list, Stops)
  PROVE  OnList(r, list) = OnList(q, list) \union {p} /\ Linear(r, list)
<1> DEFINE L == OnList(q, list)
           M == OnList(r, list)
<1>1. p # NULL /\ p \notin L /\ L \subseteq PCB /\ NULL \notin L
  BY NullAssumption DEF OnList
<1>2. /\ q.front[list] \in L \union {NULL} /\ \A x \in L : q.next[x] \in L \union {NULL}
      /\ M \subseteq PCB
      /\ r.front[list] \in M \union {NULL} /\ \A x \in M : r.next[x] \in M \union {NULL}
  BY OnListClosed DEF Closed
<1>3. /\ \A x \in L : q.next[x] # q.front[list]
      /\ \A x, y \in L : q.next[x] = q.next[y] /\ q.next[x] # NULL => x = y
  BY DEF Linear
<1>4. \A C : Closed(q, list, C) => L \subseteq C
  BY OnListWithin
<1>5. \A C : Closed(r, list, C) => M \subseteq C
  BY OnListWithin
<1>6. PICK temp \in L :
         r.front = q.front /\ r.next = [[q.next EXCEPT ![temp] = p] EXCEPT ![p] = q.next[temp]]
  BY DEF Linked
<1>7. q.front[list] # NULL
  <2> SUFFICES ASSUME q.front[list] = NULL PROVE FALSE
    OBVIOUS
  <2> QED BY ShortLists
<1> HIDE DEF L, M
<1>8. \A x \in PCB : r.next[x] = IF x = p THEN q.next[temp] ELSE IF x = temp THEN p ELSE q.next[x]
  BY <1>1, <1>6 DEF QueueRecords
<1>9. Closed(r, list, L \union {p})
  BY <1>1, <1>2, <1>6, <1>8 DEF Closed
<1>10. temp \in M
  <2> SUFFICES ASSUME temp \notin M PROVE FALSE
    OBVIOUS
  <2>1. M \subseteq L \union {p}
    BY <1>5, <1>9
  <2>2. q.front[list] \in M \ {p}
    BY <1>1, <1>2, <1>6, <1>7
  <2>3. Closed(q, list, M \ {p})
    BY <1>1, <1>2, <1>6, <1>8, <2>1, <2>2 DEF Closed
  <2> QED BY <1>4, <1>6, <2>3
<1>11. p \in M
  BY <1>1, <1>2, <1>8, <1>10
<1>12. Closed(q, list, M \ {p})
  <2>1. M \ {p} \subseteq L
    BY <1>5, <1>9
  <2> QED BY <1>1, <1>2, <1>6, <1>8, <1>10, <2>1 DEF Closed
<1>13. M = L \union {p}
  BY <1>4, <1>5, <1>9, <1>11, <1>12
<1>14. \A x \in M : r.next[x] # r.front[list]
  BY <1>1, <1>2, <1>3, <1>6, <1>7, <1>8, <1>13
<1>15. ASSUME NEW x \in M, NEW y \in M, r.next[x] = r.next[y], r.next[x] # NULL PROVE x = y
  BY <1>1, <1>2, <1>3, <1>8, <1>13, <1>15
<1> QED BY <1>13, <1>14, <1>15 DEF Linear, L, M
=============================================================================
