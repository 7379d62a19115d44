------------------------------ MODULE Boot_proofs ------------------------------
(***************************************************************************)
(* What vm_init maps, for any sizes of pages, of tables and of physical    *)
(* memory, and wherever the kernel ends. The loops are recursive functions *)
(* of the number of rounds; what each has done after k rounds is proved by *)
(* induction on k. With the invariant of Heap_proofs it follows that the   *)
(* heap lies on memory of its own.                                         *)
(***************************************************************************)
EXTENDS Heap_proofs

-----------------------------------------------------------------------------
\* Arithmetic of pages.
LEMMA DivBounds ==
  ASSUME NEW a \in Nat, NEW b \in Nat \ {0}
  PROVE  a \div b \in Nat /\ b * (a \div b) <= a /\ a < (b * (a \div b)) + b
OBVIOUS

LEMMA LessTimes ==
  ASSUME NEW a \in Int, NEW b \in Int, NEW c \in Nat, a * c < b * c
  PROVE  a < b
OBVIOUS

LEMMA TimesMonotone ==
  ASSUME NEW a \in Int, NEW b \in Int, NEW c \in Nat, a <= b
  PROVE  a * c <= b * c
OBVIOUS

LEMMA OneMoreTimes ==
  ASSUME NEW a \in Int, NEW c \in Nat
  PROVE  (a + 1) * c = (a * c) + c
OBVIOUS

-----------------------------------------------------------------------------
(***************************************************************************)
(* A loop is a function of the number of rounds. That there is one is      *)
(* shown by adding one round at a time.                                    *)
(***************************************************************************)
IsLoop(r, N, V, v0, f) ==
  /\ r \in [0..N -> V]
  /\ r[0] = v0
  /\ \A k \in 1..N : r[k] = f[<<k, r[k-1]>>]

LEMMA LoopExists ==
  ASSUME NEW N \in Nat, NEW V, NEW v0 \in V, NEW f \in [(1..N) \X V -> V]
  PROVE  \E r : IsLoop(r, N, V, v0, f)
<1> DEFINE Some(n) == \E r : IsLoop(r, n, V, v0, f)
           K == {n \in Nat : n <= N => Some(n)}
<1>1. 0 \in K
  <2> DEFINE g == [j \in 0..0 |-> v0]
  <2>1. IsLoop(g, 0, V, v0, f)
    BY DEF IsLoop
  <2> QED BY <2>1
<1>2. ASSUME NEW n \in K PROVE n + 1 \in K
  <2>1. SUFFICES ASSUME n + 1 <= N PROVE Some(n + 1)
    OBVIOUS
  <2>2. PICK r : IsLoop(r, n, V, v0, f)
    BY <2>1
  <2> DEFINE g == [j \in 0..(n + 1) |-> IF j = n + 1 THEN f[<<n + 1, r[n]>>] ELSE r[j]]
  <2>3. r[n] \in V /\ n + 1 \in 1..N
    BY <2>1, <2>2 DEF IsLoop
  <2>4. f[<<n + 1, r[n]>>] \in V
    BY <2>3
  <2>5. g \in [0..(n + 1) -> V]
    BY <2>2, <2>4 DEF IsLoop
  <2>6. g[0] = v0
    BY <2>2 DEF IsLoop
  <2>7. ASSUME NEW j \in 1..(n + 1) PROVE g[j] = f[<<j, g[j-1]>>]
    <3>1. CASE j = n + 1
      <4>1. j - 1 = n /\ n \in 0..(n + 1) /\ n # n + 1
        BY <3>1
      <4>2. g[j] = f[<<n + 1, r[n]>>] /\ g[j-1] = r[n]
        BY <3>1, <4>1
      <4> QED BY <3>1, <4>2
    <3>2. CASE j \in 1..n
      <4>1. g[j] = r[j] /\ g[j-1] = r[j-1] /\ r[j] = f[<<j, r[j-1]>>]
        BY <2>2, <3>2 DEF IsLoop
      <4> QED BY <4>1
    <3> QED BY <3>1, <3>2
  <2> HIDE DEF g
  <2>8. IsLoop(g, n + 1, V, v0, f)
    BY <2>5, <2>6, <2>7 DEF IsLoop
  <2> QED BY <2>8
<1> HIDE DEF K
<1>3. K = Nat
  <2>1. K \in SUBSET Nat
    BY DEF K
  <2> QED BY <1>1, <1>2, <2>1, SetInduction
<1> QED BY <1>3 DEF K

-----------------------------------------------------------------------------
\* The record of virtual memory, and what the steps do to it.
FrameMaps == UNION {[D -> Nat] : D \in SUBSET Nat}

VMs == [phys : Nat, tables : SUBSET Nat, frame : FrameMaps, used : SUBSET Nat,
        heap : Nat, fault : BOOLEAN]

LEMMA Sizes ==
  /\ PageSize \in Nat \ {0} /\ TableSpan \in Nat \ {0} /\ DirSize \in Nat \ {0}
  /\ TableSize \in Nat \ {0} /\ NFrames \in Nat /\ HeapPage \in Nat /\ HeapPages \in Nat
  /\ Margin \in Nat /\ NFrames <= HeapPage
BY PagingAssumption, MemoryAssumption

LEMMA AlignedIs ==
  ASSUME NEW addr \in Nat
  PROVE  Aligned(addr) \in Nat /\ addr <= Aligned(addr) /\ Aligned(addr) <= addr + PageSize
<1> DEFINE d == addr \div PageSize
<1>1. d \in Nat /\ PageSize * d <= addr /\ addr < (PageSize * d) + PageSize /\ PageSize * d \in Nat
  BY DivBounds, Sizes
<1>2. PageSize * (d + 1) = (PageSize * d) + PageSize
  BY <1>1, Sizes
<1> HIDE DEF d
<1>3. Aligned(addr) = IF d = 0 THEN addr ELSE PageSize * (d + 1)
  BY DEF Aligned, d
<1> QED BY <1>1, <1>2, <1>3, Sizes

LEMMA GetPageFields ==
  ASSUME NEW vm1 \in VMs, NEW page \in Nat
  PROVE  LET w == GetPage(vm1, page)
             index == page \div TableSpan
         IN /\ w \in VMs
            /\ w.tables = vm1.tables \union {index}
            /\ w.frame = vm1.frame /\ w.used = vm1.used
            /\ w.heap = vm1.heap /\ w.fault = vm1.fault
            /\ index \in vm1.tables => w = vm1
            /\ vm1.phys <= w.phys
            /\ index \notin vm1.tables => w.phys <= vm1.phys + PageSize + TableSize
<1> DEFINE index == page \div TableSpan
<1>1. index \in Nat
  BY DivBounds, Sizes
<1>2. vm1.phys \in Nat
  BY DEF VMs
<1>3. /\ Aligned(vm1.phys) \in Nat /\ vm1.phys <= Aligned(vm1.phys)
      /\ Aligned(vm1.phys) <= vm1.phys + PageSize
  BY <1>2, AlignedIs
<1> HIDE DEF index
<1>4. CASE index \in vm1.tables
  BY <1>2, <1>4 DEF GetPage, index
<1>5. CASE index \notin vm1.tables
  <2>1. GetPage(vm1, page) = [vm1 EXCEPT !.phys = Aligned(@) + TableSize,
                                         !.tables = @ \union {index}]
    BY <1>5 DEF GetPage, PhysicalAlloc, index, VMs
  <2> DEFINE w == GetPage(vm1, page)
  <2>2. /\ w.phys = Aligned(vm1.phys) + TableSize /\ w.tables = vm1.tables \union {index}
        /\ w.frame = vm1.frame /\ w.used = vm1.used
        /\ w.heap = vm1.heap /\ w.fault = vm1.fault
    BY <2>1 DEF VMs
  <2>3. w \in VMs
    <3>1. Aligned(vm1.phys) + TableSize \in Nat
      BY <1>3, Sizes
    <3>2. vm1.tables \union {index} \in SUBSET Nat
      BY <1>1 DEF VMs
    <3> QED BY <2>1, <3>1, <3>2 DEF VMs
  <2>4. vm1.phys <= w.phys /\ w.phys <= vm1.phys + PageSize + TableSize
    BY <1>2, <1>3, <2>2, Sizes
  <2> HIDE DEF w
  <2> QED BY <1>5, <2>2, <2>3, <2>4 DEF w, index
<1> QED BY <1>4, <1>5

LEMMA NewFrameType ==
  ASSUME NEW vm1 \in VMs, NEW page \in Nat
  PROVE  NewFrame(vm1, page) \in VMs
<1>1. CASE page \in DOMAIN vm1.frame /\ vm1.frame[page] # 0
  BY <1>1 DEF NewFrame
<1>2. CASE ~(page \in DOMAIN vm1.frame /\ vm1.frame[page] # 0) /\ FreeFrames(vm1) = {}
  BY <1>2 DEF NewFrame, VMs
<1>3. CASE ~(page \in DOMAIN vm1.frame /\ vm1.frame[page] # 0) /\ FreeFrames(vm1) # {}
  <2> DEFINE index == Min(FreeFrames(vm1))
             g == [p \in DOMAIN vm1.frame \union {page} |-> IF p = page THEN index ELSE vm1.frame[p]]
  <2>1. index \in Nat
    BY <1>3, MinIsLeast, Sizes DEF FreeFrames
  <2>2. PICK D \in SUBSET Nat : vm1.frame \in [D -> Nat]
    BY DEF VMs, FrameMaps
  <2> HIDE DEF index
  <2>3. g \in [D \union {page} -> Nat] /\ D \union {page} \in SUBSET Nat
    BY <2>1, <2>2
  <2> HIDE DEF g
  <2>4. NewFrame(vm1, page) = [vm1 EXCEPT !.used = @ \union {index}, !.frame = g]
    BY <1>3 DEF NewFrame, WithFrame, index, g, VMs
  <2>5. g \in FrameMaps
    BY <2>3 DEF FrameMaps
  <2> QED BY <2>1, <2>4, <2>5 DEF VMs
<1> QED BY <1>1, <1>2, <1>3

\* A page without a frame takes the first one that is free.
LEMMA NewFrameTakes ==
  ASSUME NEW vm1 \in VMs, NEW page \in Nat, page \notin DOMAIN vm1.frame,
         NEW n \in Nat, n < NFrames, vm1.used = 0..(n - 1)
  PROVE  LET w == NewFrame(vm1, page)
         IN /\ w.phys = vm1.phys /\ w.tables = vm1.tables
            /\ w.heap = vm1.heap /\ w.fault = vm1.fault
            /\ w.used = 0..n
            /\ w.frame = [p \in DOMAIN w.frame |-> w.frame[p]]
            /\ DOMAIN w.frame = DOMAIN vm1.frame \union {page}
            /\ w.frame[page] = n
            /\ \A p \in DOMAIN vm1.frame : w.frame[p] = vm1.frame[p]
<1>1. FreeFrames(vm1) = n..(NFrames - 1)
  BY Sizes DEF FreeFrames
<1>2. n \in FreeFrames(vm1) /\ FreeFrames(vm1) \in SUBSET Nat
  BY <1>1, Sizes
<1>3. Min(FreeFrames(vm1)) \in FreeFrames(vm1) /\ Min(FreeFrames(vm1)) <= n
  BY <1>2, MinIsLeast
<1>4. Min(FreeFrames(vm1)) = n
  BY <1>1, <1>3, Sizes
<1>5. (0..(n - 1)) \union {n} = 0..n
  OBVIOUS
<1>6. NewFrame(vm1, page) =
        [vm1 EXCEPT !.used = @ \union {n},
                    !.frame = [p \in DOMAIN vm1.frame \union {page} |->
                                 IF p = page THEN n ELSE vm1.frame[p]]]
  BY <1>2, <1>4 DEF NewFrame, WithFrame, VMs
<1>7. /\ NewFrame(vm1, page).frame = [p \in DOMAIN vm1.frame \union {page} |->
                                         IF p = page THEN n ELSE vm1.frame[p]]
      /\ NewFrame(vm1, page).used = 0..n
  BY <1>5, <1>6 DEF VMs
<1> QED BY <1>6, <1>7 DEF VMs

-----------------------------------------------------------------------------
\* What the tables may cost: each one that is made takes at most its size and
\* what its alignment skips.
Cost == PageSize + TableSize

Start(end) == end + PageSize + DirSize

Sized(vm1, end) ==
  /\ vm1.tables \subseteq TableIndices
  /\ DirSize <= vm1.phys
  /\ vm1.phys <= Start(end) + (Cardinality(vm1.tables) * Cost)

LEMMA TablesFinite ==
  /\ IsFiniteSet(TableIndices) /\ Cardinality(TableIndices) \in Nat
  /\ \A S \in SUBSET TableIndices :
       /\ IsFiniteSet(S) /\ Cardinality(S) \in Nat
       /\ Cardinality(S) <= Cardinality(TableIndices)
<1> DEFINE top == NFrames + HeapPage + HeapPages
<1>1. \A i \in TableIndices : i \in Nat /\ i <= top
  <2> SUFFICES ASSUME NEW page \in (0..(NFrames - 1)) \union (HeapPage..(HeapPage + HeapPages - 1))
               PROVE  page \div TableSpan \in Nat /\ page \div TableSpan <= top
    BY DEF TableIndices
  <2>1. page \in Nat /\ page <= top
    BY Sizes
  <2> QED BY <2>1, Sizes
<1>2. IsFiniteSet(TableIndices)
  BY <1>1, FS_BoundedSetOfNaturals, Sizes
<1> QED BY <1>2, FS_Subset, FS_CardinalityType

LEMMA GetPageSized ==
  ASSUME NEW vm1 \in VMs, NEW page \in Nat, NEW end \in KernelEnds, Sized(vm1, end),
         page \div TableSpan \in TableIndices
  PROVE  Sized(GetPage(vm1, page), end)
<1> DEFINE w == GetPage(vm1, page)
           index == page \div TableSpan
           n == Cardinality(vm1.tables)
<1>1. /\ w.tables = vm1.tables \union {index}
      /\ index \in vm1.tables => w = vm1
      /\ vm1.phys <= w.phys
      /\ index \notin vm1.tables => w.phys <= vm1.phys + Cost
      /\ vm1.phys \in Nat /\ w.phys \in Nat
  BY GetPageFields, Sizes DEF VMs, Cost
<1>2. end \in Nat /\ Start(end) \in Nat /\ Cost \in Nat
  BY PagingAssumption, Sizes DEF Start, Cost
<1>3. n \in Nat /\ IsFiniteSet(vm1.tables) /\ index \in TableIndices
  BY TablesFinite DEF Sized
<1> HIDE DEF w, index
<1>4. CASE index \in vm1.tables
  BY <1>1, <1>4 DEF w
<1>5. CASE index \notin vm1.tables
  <2>1. Cardinality(w.tables) = n + 1
    BY <1>1, <1>3, <1>5, FS_AddElement
  <2>2. Cardinality(w.tables) * Cost = (n * Cost) + Cost
    BY <1>2, <1>3, <2>1, OneMoreTimes
  <2>3. n * Cost \in Nat
    BY <1>2, <1>3
  <2>4. vm1.phys <= Start(end) + (n * Cost)
    BY DEF Sized
  <2> HIDE DEF n
  <2>5. w.phys <= Start(end) + (Cardinality(w.tables) * Cost)
    BY <1>1, <1>2, <1>5, <2>2, <2>3, <2>4
  <2>6. w.tables \subseteq TableIndices /\ DirSize <= w.phys
    BY <1>1, <1>3, Sizes DEF Sized
  <2> QED BY <2>5, <2>6 DEF Sized, w
<1> QED BY <1>4, <1>5

\* Memory is enough for what is mapped, and for the frames of the heap behind it.
LEMMA MemoryIsEnough ==
  ASSUME NEW vm1 \in VMs, NEW end \in KernelEnds, Sized(vm1, end)
  PROVE  vm1.phys + Margin <= (NFrames - HeapPages) * PageSize
<1> DEFINE n == Cardinality(vm1.tables)
           t == Cardinality(TableIndices)
<1>1. n \in Nat /\ t \in Nat /\ n <= t
  BY TablesFinite DEF Sized
<1>2. end \in Nat /\ Start(end) \in Nat /\ Cost \in Nat /\ vm1.phys \in Nat
  BY PagingAssumption, Sizes DEF Start, Cost, VMs
<1>3. n * Cost <= t * Cost
  BY <1>1, <1>2, TimesMonotone
<1>4. vm1.phys <= Start(end) + (n * Cost)
  BY DEF Sized
<1>5. Start(end) + (t * Cost) + Margin <= (NFrames - HeapPages) * PageSize
  BY MemoryAssumption DEF Start, Cost
<1>6. n * Cost \in Nat /\ t * Cost \in Nat /\ (NFrames - HeapPages) * PageSize \in Int
  BY <1>1, <1>2, Sizes
<1> HIDE DEF n, t
<1> QED BY <1>2, <1>3, <1>4, <1>5, <1>6, Sizes

-----------------------------------------------------------------------------
(***************************************************************************)
(* The loops of vm_init, round by round.                                   *)
(***************************************************************************)
\* One round of the identity mapping.
MapRound(vm1, k) == IF (k - 1) * PageSize < vm1.phys + Margin
                    THEN NewFrame(GetPage(vm1, k - 1), k - 1)
                    ELSE vm1

FrameRound(vm1, k) == NewFrame(GetPage(vm1, HeapPage + k - 1), HeapPage + k - 1)

LEMMA RoundTypes ==
  ASSUME NEW w \in VMs, NEW k \in Nat \ {0}
  PROVE  GetPage(w, HeapPage + k - 1) \in VMs /\ MapRound(w, k) \in VMs /\ FrameRound(w, k) \in VMs
<1>1. HeapPage + k - 1 \in Nat /\ k - 1 \in Nat
  BY Sizes
<1> QED BY <1>1, GetPageFields, NewFrameType DEF MapRound, FrameRound

LEMMA HeapTablesRounds ==
  ASSUME NEW v \in VMs
  PROVE  \E r : /\ r[0] = v /\ HeapTables(v) = r[HeapPages]
               /\ \A k \in 1..HeapPages : r[k] = GetPage(r[k-1], HeapPage + k - 1)
<1> DEFINE f == [x \in (1..HeapPages) \X VMs |-> GetPage(x[2], HeapPage + x[1] - 1)]
           F(r) == r = [k \in 0..HeapPages |->
                          IF k = 0 THEN v ELSE GetPage(r[k-1], HeapPage + k - 1)]
           chosen == CHOOSE r : F(r)
<1>1. \E r : F(r)
  <2>1. ASSUME NEW k \in 1..HeapPages, NEW w \in VMs
        PROVE  f[<<k, w>>] = GetPage(w, HeapPage + k - 1) /\ GetPage(w, HeapPage + k - 1) \in VMs
    <3>1. k \in Nat \ {0}
      BY Sizes
    <3>2. GetPage(w, HeapPage + k - 1) \in VMs
      BY <3>1, RoundTypes
    <3>3. f[<<k, w>>] = GetPage(w, HeapPage + k - 1)
      OBVIOUS
    <3> QED BY <3>2, <3>3
  <2>2. f \in [(1..HeapPages) \X VMs -> VMs]
    BY <2>1
  <2> HIDE DEF f
  <2>3. PICK r : IsLoop(r, HeapPages, VMs, v, f)
    BY <2>2, LoopExists, Sizes
  <2>4. /\ r = [k \in 0..HeapPages |-> r[k]] /\ r[0] = v
        /\ \A k \in 1..HeapPages : r[k] = f[<<k, r[k-1]>>] /\ r[k-1] \in VMs
    BY <2>3, Sizes DEF IsLoop
  <2>5. ASSUME NEW k \in 0..HeapPages
        PROVE  r[k] = IF k = 0 THEN v ELSE GetPage(r[k-1], HeapPage + k - 1)
    <3>1. CASE k = 0
      BY <2>4, <3>1
    <3>2. CASE k # 0
      <4>1. k \in 1..HeapPages
        BY <3>2, Sizes
      <4>2. r[k] = f[<<k, r[k-1]>>] /\ r[k-1] \in VMs
        BY <2>4, <4>1
      <4>3. f[<<k, r[k-1]>>] = GetPage(r[k-1], HeapPage + k - 1)
        BY <2>1, <4>1, <4>2
      <4> QED BY <3>2, <4>2, <4>3
    <3> QED BY <3>1, <3>2
  <2> QED BY <2>4, <2>5
<1>2. F(chosen)
  BY <1>1
<1>3. HeapTables(v) = chosen[HeapPages]
  BY DEF HeapTables
<1> HIDE DEF chosen
<1>4. \A k \in 0..HeapPages :
        chosen[k] = IF k = 0 THEN v ELSE GetPage(chosen[k-1], HeapPage + k - 1)
  BY <1>2
<1> QED BY <1>3, <1>4, Sizes

LEMMA IdentityMappingRounds ==
  ASSUME NEW v \in VMs
  PROVE  \E r : /\ r[0] = v /\ IdentityMapping(v) = r[NFrames]
               /\ \A k \in 1..NFrames : r[k] = MapRound(r[k-1], k)
<1> DEFINE f == [x \in (1..NFrames) \X VMs |-> MapRound(x[2], x[1])]
           F(r) == r = [k \in 0..NFrames |->
                          IF k = 0 THEN v ELSE MapRound(r[k-1], k)]
           chosen == CHOOSE r : F(r)
<1>1. \E r : F(r)
  <2>1. ASSUME NEW k \in 1..NFrames, NEW w \in VMs
        PROVE  f[<<k, w>>] = MapRound(w, k) /\ MapRound(w, k) \in VMs
    <3>1. k \in Nat \ {0}
      BY Sizes
    <3>2. MapRound(w, k) \in VMs
      BY <3>1, RoundTypes
    <3>3. f[<<k, w>>] = MapRound(w, k)
      OBVIOUS
    <3> QED BY <3>2, <3>3
  <2>2. f \in [(1..NFrames) \X VMs -> VMs]
    BY <2>1
  <2> HIDE DEF f
  <2>3. PICK r : IsLoop(r, NFrames, VMs, v, f)
    BY <2>2, LoopExists, Sizes
  <2>4. /\ r = [k \in 0..NFrames |-> r[k]] /\ r[0] = v
        /\ \A k \in 1..NFrames : r[k] = f[<<k, r[k-1]>>] /\ r[k-1] \in VMs
    BY <2>3, Sizes DEF IsLoop
  <2>5. ASSUME NEW k \in 0..NFrames
        PROVE  r[k] = IF k = 0 THEN v ELSE MapRound(r[k-1], k)
    <3>1. CASE k = 0
      BY <2>4, <3>1
    <3>2. CASE k # 0
      <4>1. k \in 1..NFrames
        BY <3>2, Sizes
      <4>2. r[k] = f[<<k, r[k-1]>>] /\ r[k-1] \in VMs
        BY <2>4, <4>1
      <4>3. f[<<k, r[k-1]>>] = MapRound(r[k-1], k)
        BY <2>1, <4>1, <4>2
      <4> QED BY <3>2, <4>2, <4>3
    <3> QED BY <3>1, <3>2
  <2> QED BY <2>4, <2>5
<1>2. F(chosen)
  BY <1>1
<1>3. IdentityMapping(v) = chosen[NFrames]
  BY DEF IdentityMapping, MapRound
<1> HIDE DEF chosen
<1>4. \A k \in 0..NFrames :
        chosen[k] = IF k = 0 THEN v ELSE MapRound(chosen[k-1], k)
  BY <1>2
<1> QED BY <1>3, <1>4, Sizes

LEMMA HeapFramesRounds ==
  ASSUME NEW v \in VMs
  PROVE  \E r : /\ r[0] = v /\ HeapFrames(v) = r[HeapPages]
               /\ \A k \in 1..HeapPages : r[k] = FrameRound(r[k-1], k)
<1> DEFINE f == [x \in (1..HeapPages) \X VMs |-> FrameRound(x[2], x[1])]
           F(r) == r = [k \in 0..HeapPages |->
                          IF k = 0 THEN v ELSE FrameRound(r[k-1], k)]
           chosen == CHOOSE r : F(r)
<1>1. \E r : F(r)
  <2>1. ASSUME NEW k \in 1..HeapPages, NEW w \in VMs
        PROVE  f[<<k, w>>] = FrameRound(w, k) /\ FrameRound(w, k) \in VMs
    <3>1. k \in Nat \ {0}
      BY Sizes
    <3>2. FrameRound(w, k) \in VMs
      BY <3>1, RoundTypes
    <3>3. f[<<k, w>>] = FrameRound(w, k)
      OBVIOUS
    <3> QED BY <3>2, <3>3
  <2>2. f \in [(1..HeapPages) \X VMs -> VMs]
    BY <2>1
  <2> HIDE DEF f
  <2>3. PICK r : IsLoop(r, HeapPages, VMs, v, f)
    BY <2>2, LoopExists, Sizes
  <2>4. /\ r = [k \in 0..HeapPages |-> r[k]] /\ r[0] = v
        /\ \A k \in 1..HeapPages : r[k] = f[<<k, r[k-1]>>] /\ r[k-1] \in VMs
    BY <2>3, Sizes DEF IsLoop
  <2>5. ASSUME NEW k \in 0..HeapPages
        PROVE  r[k] = IF k = 0 THEN v ELSE FrameRound(r[k-1], k)
    <3>1. CASE k = 0
      BY <2>4, <3>1
    <3>2. CASE k # 0
      <4>1. k \in 1..HeapPages
        BY <3>2, Sizes
      <4>2. r[k] = f[<<k, r[k-1]>>] /\ r[k-1] \in VMs
        BY <2>4, <4>1
      <4>3. f[<<k, r[k-1]>>] = FrameRound(r[k-1], k)
        BY <2>1, <4>1, <4>2
      <4> QED BY <3>2, <4>2, <4>3
    <3> QED BY <3>1, <3>2
  <2> QED BY <2>4, <2>5
<1>2. F(chosen)
  BY <1>1
<1>3. HeapFrames(v) = chosen[HeapPages]
  BY DEF HeapFrames, FrameRound
<1> HIDE DEF chosen
<1>4. \A k \in 0..HeapPages :
        chosen[k] = IF k = 0 THEN v ELSE FrameRound(chosen[k-1], k)
  BY <1>2
<1> QED BY <1>3, <1>4, Sizes

-----------------------------------------------------------------------------
(***************************************************************************)
(* What the loops have done in the end.                                    *)
(***************************************************************************)
LEMMA Indices ==
  /\ \A page \in 0..(NFrames - 1) : page \div TableSpan \in TableIndices
  /\ \A k \in 1..HeapPages : (HeapPage + k - 1) \div TableSpan \in TableIndices
<1>1. ASSUME NEW k \in 1..HeapPages
      PROVE  HeapPage + k - 1 \in HeapPage..(HeapPage + HeapPages - 1)
  BY Sizes
<1> QED BY <1>1 DEF TableIndices

HasHeapTables(vm1, n) == \A k \in 1..n : (HeapPage + k - 1) \div TableSpan \in vm1.tables

\* Nothing went wrong, and what was made fits.
Good(vm1, end) == vm1 \in VMs /\ Sized(vm1, end) /\ vm1.heap = 0 /\ ~vm1.fault

LEMMA HeapTablesMade ==
  ASSUME NEW v, NEW end \in KernelEnds, Good(v, end)
  PROVE  LET w == HeapTables(v)
         IN /\ Good(w, end) /\ HasHeapTables(w, HeapPages)
            /\ w.frame = v.frame /\ w.used = v.used
<1>1. v \in VMs
  BY DEF Good
<1>2. PICK r : /\ r[0] = v /\ HeapTables(v) = r[HeapPages]
               /\ \A k \in 1..HeapPages : r[k] = GetPage(r[k-1], HeapPage + k - 1)
  BY <1>1, HeapTablesRounds
<1> DEFINE I(k) == /\ Good(r[k], end) /\ HasHeapTables(r[k], k)
                   /\ r[k].frame = v.frame /\ r[k].used = v.used
           K == {k \in Nat : k <= HeapPages => I(k)}
<1>3. 0 \in K
  BY <1>2 DEF HasHeapTables
<1>4. ASSUME NEW k \in K PROVE k + 1 \in K
  <2>1. SUFFICES ASSUME k + 1 <= HeapPages PROVE I(k + 1)
    OBVIOUS
  <2>2. I(k) /\ k + 1 \in 1..HeapPages /\ (k + 1) - 1 = k
    BY <2>1, Sizes
  <2> DEFINE page == HeapPage + (k + 1) - 1
  <2>3. r[k + 1] = GetPage(r[k], page)
    BY <1>2, <2>2
  <2>4. page \in Nat /\ page \div TableSpan \in TableIndices
    BY <2>2, Indices, Sizes
  <2> HIDE DEF page
  <2>5. Sized(r[k + 1], end)
    BY <2>2, <2>3, <2>4, GetPageSized DEF Good
  <2>6. /\ r[k + 1] \in VMs /\ r[k + 1].heap = 0 /\ ~r[k + 1].fault
        /\ r[k + 1].frame = v.frame /\ r[k + 1].used = v.used
        /\ r[k + 1].tables = r[k].tables \union {page \div TableSpan}
    <3>1. r[k] \in VMs
      BY <2>2 DEF Good
    <3> DEFINE w == GetPage(r[k], page)
    <3>2. /\ w \in VMs /\ w.tables = r[k].tables \union {page \div TableSpan}
          /\ w.frame = r[k].frame /\ w.used = r[k].used
          /\ w.heap = r[k].heap /\ w.fault = r[k].fault
      BY <2>4, <3>1, GetPageFields
    <3> HIDE DEF w
    <3>3. r[k + 1] = w
      BY <2>3 DEF w
    <3> QED BY <2>2, <3>2, <3>3 DEF Good
  <2>7. HasHeapTables(r[k + 1], k + 1)
    <3> SUFFICES ASSUME NEW j \in 1..(k + 1)
                 PROVE  (HeapPage + j - 1) \div TableSpan \in r[k + 1].tables
      BY DEF HasHeapTables
    <3>1. CASE j = k + 1
      BY <2>6, <3>1 DEF page
    <3>2. CASE j \in 1..k
      BY <2>2, <2>6, <3>2 DEF HasHeapTables
    <3> QED BY <3>1, <3>2
  <2> QED BY <2>5, <2>6, <2>7 DEF Good
<1> HIDE DEF K
<1>5. K = Nat
  <2>1. K \in SUBSET Nat
    BY DEF K
  <2> QED BY <1>3, <1>4, <2>1, SetInduction
<1>6. I(HeapPages)
  BY <1>5, Sizes DEF K
<1> QED BY <1>2, <1>6

\* The first m pages are mapped to themselves, and no other.
Mapped(vm1, m) ==
  /\ m \in Nat /\ m <= NFrames - HeapPages
  /\ vm1.used = 0..(m - 1)
  /\ vm1.frame = [p \in 0..(m - 1) |-> p]

\* All that was given away and the margin behind it are on the first m pages.
Covers(m, vm1) == vm1.phys + Margin <= m * PageSize

LEMMA MapRoundMaps ==
  ASSUME NEW v, NEW end \in KernelEnds, Good(v, end), HasHeapTables(v, HeapPages),
         NEW m \in Nat, Mapped(v, m), m < NFrames, m * PageSize < v.phys + Margin
  PROVE  LET w == MapRound(v, m + 1)
         IN Good(w, end) /\ HasHeapTables(w, HeapPages) /\ Mapped(w, m + 1)
<1> DEFINE t == GetPage(v, m)
           w == NewFrame(t, m)
<1>1. v \in VMs /\ Sized(v, end) /\ v.heap = 0 /\ ~v.fault /\ v.phys \in Nat
  BY DEF Good, VMs
<1>2. m \in 0..(NFrames - 1) /\ (m + 1) - 1 = m
  BY Sizes
<1>3. MapRound(v, m + 1) = w
  BY <1>2 DEF MapRound
<1>4. /\ t \in VMs /\ t.tables = v.tables \union {m \div TableSpan} /\ t.frame = v.frame
      /\ t.used = v.used /\ t.heap = v.heap /\ t.fault = v.fault
  BY <1>1, GetPageFields
<1>5. Sized(t, end)
  BY <1>1, <1>2, Indices, GetPageSized
<1> HIDE DEF t
<1>6. m \notin DOMAIN t.frame /\ t.used = 0..(m - 1) /\ DOMAIN t.frame = 0..(m - 1)
  BY <1>4 DEF Mapped
<1>7. /\ w.phys = t.phys /\ w.tables = t.tables /\ w.heap = t.heap /\ w.fault = t.fault
      /\ w.used = 0..m
      /\ w.frame = [p \in DOMAIN w.frame |-> w.frame[p]]
      /\ DOMAIN w.frame = DOMAIN t.frame \union {m}
      /\ w.frame[m] = m /\ \A p \in DOMAIN t.frame : w.frame[p] = t.frame[p]
  <2>1. t \in VMs /\ m \in Nat /\ m < NFrames /\ m \notin DOMAIN t.frame /\ t.used = 0..(m - 1)
    BY <1>4, <1>6
  <2> QED BY <2>1, NewFrameTakes DEF w
<1>8. w \in VMs
  BY <1>4, NewFrameType
<1> HIDE DEF w
<1>9. w.frame = [p \in 0..((m + 1) - 1) |-> p]
  <2>1. (0..(m - 1)) \union {m} = 0..((m + 1) - 1)
    OBVIOUS
  <2>2. \A p \in 0..(m - 1) : t.frame[p] = p
    BY <1>4 DEF Mapped
  <2> QED BY <1>6, <1>7, <2>1, <2>2
<1>10. m + 1 <= NFrames - HeapPages
  <2>1. v.phys + Margin <= (NFrames - HeapPages) * PageSize
    BY <1>1, MemoryIsEnough
  <2>2. m * PageSize < (NFrames - HeapPages) * PageSize
    BY <1>1, <2>1, Sizes
  <2>3. m < NFrames - HeapPages
    BY <2>2, LessTimes, Sizes
  <2> QED BY <2>3, Sizes
<1>11. Mapped(w, m + 1)
  <2>1. (m + 1) - 1 = m /\ m + 1 \in Nat
    OBVIOUS
  <2>2. w.used = 0..((m + 1) - 1)
    BY <1>7, <2>1
  <2> QED BY <1>9, <1>10, <2>1, <2>2 DEF Mapped
<1>12. HasHeapTables(w, HeapPages)
  BY <1>4, <1>7 DEF HasHeapTables
<1>13. Good(w, end)
  BY <1>1, <1>4, <1>5, <1>7, <1>8 DEF Good, Sized
<1> QED BY <1>3, <1>11, <1>12, <1>13

LEMMA IdentityIsMapped ==
  ASSUME NEW v, NEW end \in KernelEnds, Good(v, end), HasHeapTables(v, HeapPages),
         Mapped(v, 0)
  PROVE  LET w == IdentityMapping(v)
         IN /\ Good(w, end) /\ HasHeapTables(w, HeapPages)
            /\ \E m \in Nat : Mapped(w, m) /\ Covers(m, w)
<1>1. v \in VMs
  BY DEF Good
<1>2. PICK r : /\ r[0] = v /\ IdentityMapping(v) = r[NFrames]
               /\ \A k \in 1..NFrames : r[k] = MapRound(r[k-1], k)
  BY <1>1, IdentityMappingRounds
<1> DEFINE I(k) == /\ Good(r[k], end) /\ HasHeapTables(r[k], HeapPages)
                   /\ \E m \in Nat : /\ m <= k /\ Mapped(r[k], m)
                                     /\ m = k \/ Covers(m, r[k])
           K == {k \in Nat : k <= NFrames => I(k)}
<1>3. 0 \in K
  BY <1>2
<1>4. ASSUME NEW k \in K PROVE k + 1 \in K
  <2>1. SUFFICES ASSUME k + 1 <= NFrames PROVE I(k + 1)
    OBVIOUS
  <2>2. I(k) /\ k + 1 \in 1..NFrames /\ (k + 1) - 1 = k /\ k < NFrames
    BY <2>1, Sizes
  <2>3. r[k + 1] = MapRound(r[k], k + 1)
    BY <1>2, <2>2
  <2>4. PICK m \in Nat : m <= k /\ Mapped(r[k], m) /\ (m = k \/ Covers(m, r[k]))
    BY <2>2
  <2>5. r[k].phys \in Nat
    BY <2>2 DEF Good, VMs
  <2>6. CASE Covers(m, r[k])
    <3>1. m * PageSize <= k * PageSize
      BY <2>4, TimesMonotone, Sizes
    <3>2. m * PageSize \in Nat /\ k * PageSize \in Nat
      BY Sizes
    <3>3. ~(k * PageSize < r[k].phys + Margin)
      BY <2>5, <2>6, <3>1, <3>2, Sizes DEF Covers
    <3>4. r[k + 1] = r[k]
      BY <2>2, <2>3, <3>3 DEF MapRound
    <3> QED BY <2>2, <2>4, <2>6, <3>4
  <2>7. CASE ~Covers(m, r[k])
    <3>1. m = k
      BY <2>4, <2>7
    <3>2. k * PageSize < r[k].phys + Margin
      BY <2>5, <2>7, <3>1, Sizes DEF Covers
    <3>3. /\ Good(r[k + 1], end) /\ HasHeapTables(r[k + 1], HeapPages)
          /\ Mapped(r[k + 1], k + 1)
      BY <2>2, <2>3, <2>4, <3>1, <3>2, MapRoundMaps
    <3> QED BY <3>3
  <2> QED BY <2>6, <2>7
<1> HIDE DEF K
<1>5. K = Nat
  <2>1. K \in SUBSET Nat
    BY DEF K
  <2> QED BY <1>3, <1>4, <2>1, SetInduction
<1>6. I(NFrames)
  BY <1>5, Sizes DEF K
<1>7. PICK m \in Nat : Mapped(r[NFrames], m) /\ (m = NFrames \/ Covers(m, r[NFrames]))
  BY <1>6
<1>8. Covers(m, r[NFrames])
  <2>1. SUFFICES ASSUME m = NFrames PROVE Covers(m, r[NFrames])
    BY <1>7
  <2>2. m = NFrames - HeapPages
    BY <1>7, <2>1, Sizes DEF Mapped
  <2>3. r[NFrames].phys + Margin <= (NFrames - HeapPages) * PageSize
    BY <1>6, MemoryIsEnough DEF Good
  <2> QED BY <2>2, <2>3 DEF Covers
<1> QED BY <1>2, <1>6, <1>7, <1>8

\* The first m pages are mapped to themselves, and the first k pages of the heap
\* to the k frames behind those.
Framed(vm1, m, k) ==
  /\ vm1.used = 0..(m + k - 1)
  /\ DOMAIN vm1.frame = (0..(m - 1)) \union (HeapPage..(HeapPage + k - 1))
  /\ \A p \in 0..(m - 1) : vm1.frame[p] = p
  /\ \A p \in HeapPage..(HeapPage + k - 1) : vm1.frame[p] = m + (p - HeapPage)

LEMMA FrameRoundFrames ==
  ASSUME NEW v, NEW end \in KernelEnds, Good(v, end), HasHeapTables(v, HeapPages),
         NEW m \in Nat, m <= NFrames - HeapPages, NEW k \in Nat, k < HeapPages,
         Framed(v, m, k)
  PROVE  LET w == FrameRound(v, k + 1)
         IN /\ Good(w, end) /\ HasHeapTables(w, HeapPages) /\ w.phys = v.phys
            /\ Framed(w, m, k + 1)
<1> DEFINE page == HeapPage + k
           w == NewFrame(v, page)
<1>1. page \in Nat /\ HeapPage + (k + 1) - 1 = page /\ v \in VMs
  BY Sizes DEF Good
<1>2. page \div TableSpan \in v.tables
  <2>1. k + 1 \in 1..HeapPages
    BY Sizes
  <2> QED BY <1>1, <2>1 DEF HasHeapTables
<1>3. FrameRound(v, k + 1) = w
  <2>1. GetPage(v, page) = v
    BY <1>2 DEF GetPage
  <2> QED BY <1>1, <2>1 DEF FrameRound
<1>4. page \notin DOMAIN v.frame
  BY Sizes DEF Framed
<1>5. m + k \in Nat /\ m + k < NFrames /\ v.used = 0..((m + k) - 1)
  BY Sizes DEF Framed
<1> HIDE DEF page
<1>6. /\ w.phys = v.phys /\ w.tables = v.tables /\ w.heap = v.heap /\ w.fault = v.fault
      /\ w.used = 0..(m + k)
      /\ DOMAIN w.frame = DOMAIN v.frame \union {page}
      /\ w.frame[page] = m + k
      /\ \A p \in DOMAIN v.frame : w.frame[p] = v.frame[p]
  <2> DEFINE n == m + k
  <2>1. /\ v \in VMs /\ page \in Nat /\ page \notin DOMAIN v.frame
        /\ n \in Nat /\ n < NFrames /\ v.used = 0..(n - 1)
    BY <1>1, <1>4, <1>5
  <2> HIDE DEF n
  <2>2. /\ w.phys = v.phys /\ w.tables = v.tables /\ w.heap = v.heap /\ w.fault = v.fault
        /\ w.used = 0..n
        /\ w.frame = [p \in DOMAIN w.frame |-> w.frame[p]]
        /\ DOMAIN w.frame = DOMAIN v.frame \union {page}
        /\ w.frame[page] = n
        /\ \A p \in DOMAIN v.frame : w.frame[p] = v.frame[p]
    BY <2>1, NewFrameTakes
  <2> QED BY <2>2 DEF n
<1>7. w \in VMs
  BY <1>1, NewFrameType
<1> HIDE DEF w
<1>8. Framed(w, m, k + 1)
  <2>1. m + (k + 1) - 1 = m + k /\ HeapPage + (k + 1) - 1 = page
    BY Sizes DEF page
  <2>2. HeapPage..(HeapPage + (k + 1) - 1) = (HeapPage..(HeapPage + k - 1)) \union {page}
    BY Sizes DEF page
  <2>3. DOMAIN w.frame = (0..(m - 1)) \union (HeapPage..(HeapPage + (k + 1) - 1))
    BY <1>6, <2>2 DEF Framed
  <2>4. ASSUME NEW p \in HeapPage..(HeapPage + (k + 1) - 1)
        PROVE  w.frame[p] = m + (p - HeapPage)
    <3>1. CASE p = page
      BY <1>6, <3>1, Sizes DEF page
    <3>2. CASE p \in HeapPage..(HeapPage + k - 1)
      BY <1>6, <3>2 DEF Framed
    <3> QED BY <2>2, <3>1, <3>2
  <2>5. \A p \in 0..(m - 1) : w.frame[p] = p
    BY <1>6 DEF Framed
  <2> QED BY <1>6, <2>1, <2>3, <2>4, <2>5 DEF Framed
<1>9. Good(w, end) /\ HasHeapTables(w, HeapPages)
  BY <1>6, <1>7 DEF Good, Sized, HasHeapTables
<1> QED BY <1>3, <1>6, <1>8, <1>9

LEMMA HeapIsFramed ==
  ASSUME NEW v, NEW end \in KernelEnds, Good(v, end), HasHeapTables(v, HeapPages),
         NEW m \in Nat, Mapped(v, m)
  PROVE  LET w == HeapFrames(v)
         IN Good(w, end) /\ w.phys = v.phys /\ Framed(w, m, HeapPages)
<1>1. v \in VMs
  BY DEF Good
<1>2. PICK r : /\ r[0] = v /\ HeapFrames(v) = r[HeapPages]
               /\ \A k \in 1..HeapPages : r[k] = FrameRound(r[k-1], k)
  BY <1>1, HeapFramesRounds
<1> DEFINE I(k) == /\ Good(r[k], end) /\ HasHeapTables(r[k], HeapPages)
                   /\ r[k].phys = v.phys /\ Framed(r[k], m, k)
           K == {k \in Nat : k <= HeapPages => I(k)}
<1>3. 0 \in K
  <2>1. m + 0 - 1 = m - 1 /\ HeapPage..(HeapPage + 0 - 1) = {}
    BY Sizes
  <2>2. Framed(v, m, 0)
    BY <2>1 DEF Framed, Mapped
  <2> QED BY <1>2, <2>2
<1>4. ASSUME NEW k \in K PROVE k + 1 \in K
  <2>1. SUFFICES ASSUME k + 1 <= HeapPages PROVE I(k + 1)
    OBVIOUS
  <2>2. I(k) /\ k + 1 \in 1..HeapPages /\ (k + 1) - 1 = k /\ k < HeapPages /\ k \in Nat
    BY <2>1, Sizes
  <2>3. r[k + 1] = FrameRound(r[k], k + 1)
    BY <1>2, <2>2
  <2>4. m <= NFrames - HeapPages
    BY DEF Mapped
  <2> QED BY <2>2, <2>3, <2>4, FrameRoundFrames
<1> HIDE DEF K
<1>5. K = Nat
  <2>1. K \in SUBSET Nat
    BY DEF K
  <2> QED BY <1>3, <1>4, <2>1, SetInduction
<1>6. I(HeapPages)
  BY <1>5, Sizes DEF K
<1> QED BY <1>2, <1>6

-----------------------------------------------------------------------------
(***************************************************************************)
(* The memory that kmain goes on with.                                     *)
(***************************************************************************)
LaidOut(vm1, m) ==
  /\ vm1 \in VMs /\ m <= NFrames /\ Covers(m, vm1)
  /\ vm1.heap = 0 /\ ~vm1.fault
  /\ DOMAIN vm1.frame = (1..(m - 1)) \union (HeapPage..(HeapPage + HeapPages - 1))
  /\ \A p \in 1..(m - 1) : vm1.frame[p] = p
  /\ \A p \in HeapPage..(HeapPage + HeapPages - 1) : vm1.frame[p] = m + (p - HeapPage)

LEMMA VmInitLaysOut ==
  ASSUME NEW end \in KernelEnds
  PROVE  \E m \in Nat : LaidOut(VmInit(end), m)
<1> DEFINE v0 == PhysicalAlloc(AtBoot(end), DirSize)
           v1 == HeapTables(v0)
           v2 == IdentityMapping(v1)
           v3 == HeapFrames(v2)
<1>1. end \in Nat /\ Aligned(end) \in Nat /\ Aligned(end) <= end + PageSize
  BY PagingAssumption, AlignedIs
<1>2. /\ v0.phys = Aligned(end) + DirSize /\ v0.tables = {} /\ v0.frame = <<>>
      /\ v0.used = {} /\ v0.heap = 0 /\ ~v0.fault
  BY DEF PhysicalAlloc, AtBoot
<1>3. <<>> \in FrameMaps /\ <<>> = [p \in 0..(0 - 1) |-> p] /\ {} = 0..(0 - 1)
  <2>1. <<>> \in [{} -> Nat] /\ {} \in SUBSET Nat
    OBVIOUS
  <2>2. {} = 0..(0 - 1)
    OBVIOUS
  <2> QED BY <2>1, <2>2 DEF FrameMaps
<1>4. Good(v0, end)
  <2>1. v0 \in VMs
    <3>1. AtBoot(end) \in VMs /\ AtBoot(end).phys = end
      BY <1>1, <1>3 DEF AtBoot, VMs
    <3>2. Aligned(end) + DirSize \in Nat
      BY <1>1, Sizes
    <3> QED BY <3>1, <3>2 DEF PhysicalAlloc, VMs
  <2> HIDE DEF v0
  <2>2. Cardinality({}) * Cost = 0
    BY FS_EmptySet, Sizes DEF Cost
  <2>3. Sized(v0, end)
    BY <1>1, <1>2, <2>2, Sizes DEF Sized, Start
  <2> QED BY <1>2, <2>1, <2>3 DEF Good
<1>5. /\ Good(v1, end) /\ HasHeapTables(v1, HeapPages)
      /\ v1.frame = v0.frame /\ v1.used = v0.used
  BY <1>4, HeapTablesMade
<1> HIDE DEF v0
<1> HIDE DEF v1
<1>6. 0 <= NFrames - HeapPages
  <2>1. v1.phys + Margin <= (NFrames - HeapPages) * PageSize
    BY <1>5, MemoryIsEnough DEF Good
  <2>2. v1.phys \in Nat
    BY <1>5 DEF Good, VMs
  <2>3. (0 - 1) * PageSize < (NFrames - HeapPages) * PageSize
    BY <2>1, <2>2, Sizes
  <2>4. 0 - 1 < NFrames - HeapPages
    BY <2>3, LessTimes, Sizes
  <2> QED BY <2>4, Sizes
<1>7. Mapped(v1, 0)
  BY <1>2, <1>3, <1>5, <1>6 DEF Mapped
<1>8. /\ Good(v2, end) /\ HasHeapTables(v2, HeapPages)
      /\ \E m \in Nat : Mapped(v2, m) /\ Covers(m, v2)
  BY <1>5, <1>7, IdentityIsMapped
<1>9. PICK m \in Nat : Mapped(v2, m) /\ Covers(m, v2)
  BY <1>8
<1> HIDE DEF v2
<1>10. Good(v3, end) /\ v3.phys = v2.phys /\ Framed(v3, m, HeapPages)
  BY <1>8, <1>9, HeapIsFramed
<1> HIDE DEF v3
<1>11. m <= NFrames /\ m # 0
  <2>1. m <= NFrames
    BY <1>9, Sizes DEF Mapped
  <2>2. v2.phys \in Nat /\ DirSize <= v2.phys
    BY <1>8 DEF Good, Sized, VMs
  <2>3. m * PageSize # 0
    BY <1>9, <2>2, Sizes DEF Covers
  <2> QED BY <2>1, <2>3, Sizes
<1> DEFINE w == ZeroPageUnmapped(v3)
<1>12. VmInit(end) = w
  BY DEF VmInit, v0, v1, v2, v3
<1>13. v3 \in VMs
  BY <1>10 DEF Good
<1>14. /\ w.phys = v3.phys /\ w.heap = v3.heap /\ w.fault = v3.fault
       /\ DOMAIN w.frame = DOMAIN v3.frame \ {0}
       /\ \A p \in DOMAIN v3.frame \ {0} : w.frame[p] = v3.frame[p]
  BY <1>13 DEF ZeroPageUnmapped, VMs
<1> HIDE DEF w
<1>15. DOMAIN w.frame = (1..(m - 1)) \union (HeapPage..(HeapPage + HeapPages - 1))
  BY <1>10, <1>11, <1>14, Sizes DEF Framed
<1>16. /\ \A p \in 1..(m - 1) : w.frame[p] = p
       /\ \A p \in HeapPage..(HeapPage + HeapPages - 1) : w.frame[p] = m + (p - HeapPage)
  BY <1>10, <1>11, <1>14, Sizes DEF Framed
<1>17. Covers(m, w) /\ w.heap = 0 /\ ~w.fault
  BY <1>9, <1>10, <1>14 DEF Covers, Good
<1>18. w \in VMs
  <2>1. PICK D \in SUBSET Nat : v3.frame \in [D -> Nat]
    BY <1>13 DEF VMs, FrameMaps
  <2> DEFINE g == [p \in DOMAIN v3.frame \ {0} |-> v3.frame[p]]
  <2>2. g \in [D \ {0} -> Nat] /\ D \ {0} \in SUBSET Nat
    BY <2>1
  <2>3. w = [v3 EXCEPT !.frame = g]
    BY <1>13 DEF w, ZeroPageUnmapped, VMs
  <2> HIDE DEF g
  <2>4. g \in FrameMaps
    BY <2>2 DEF FrameMaps
  <2> QED BY <1>13, <2>3, <2>4 DEF VMs
<1> QED BY <1>11, <1>12, <1>15, <1>16, <1>17, <1>18 DEF LaidOut

\* kmain's one kmalloc fits, and the memory is as vm_init left it.
VmInv ==
  /\ ~vm.fault
  /\ \E w : \E m \in Nat : LaidOut(w, m) /\ vm.phys = w.phys /\ vm.frame = w.frame

LEMMA VmStarts == BootInit => VmInv
<1> SUFFICES ASSUME NEW end \in KernelEnds, vm = Kmalloc(VmInit(end), HeapSize + Header)
             PROVE  VmInv
  BY DEF BootInit
<1>1. PICK m \in Nat : LaidOut(VmInit(end), m)
  BY VmInitLaysOut
<1> DEFINE w == VmInit(end)
<1>2. w.heap + (HeapSize + Header) <= HeapPages * PageSize
  BY <1>1, HeapRoomAssumption, HeapAssumption DEF LaidOut
<1>3. w.heap + (HeapSize + Header) \in Nat /\ HeapPages * PageSize \in Nat
  BY <1>1, HeapAssumption, Sizes DEF LaidOut
<1> HIDE DEF w
<1>4. ~vm.fault /\ vm.phys = w.phys /\ vm.frame = w.frame
  <2>1. w \in VMs /\ ~w.fault
    BY <1>1 DEF LaidOut, w
  <2>2. ~(w.heap + (HeapSize + Header) > HeapPages * PageSize)
    BY <1>2, <1>3
  <2>3. vm = Kmalloc(w, HeapSize + Header)
    BY DEF w
  <2> QED BY <2>1, <2>2, <2>3 DEF Kmalloc, VMs
<1> QED BY <1>1, <1>4 DEF VmInv, w

LEMMA VmInvHolds == BootSpec => []VmInv
<1>1. VmInv /\ [AllocatedDisjoint /\ ClientsNext /\ UNCHANGED vm]_boot_vars => VmInv'
  BY DEF VmInv, boot_vars
<1> QED BY <1>1, VmStarts, PTL DEF BootSpec

-----------------------------------------------------------------------------
(***************************************************************************)
(* The properties.                                                         *)
(***************************************************************************)
LEMMA MappedToItself == ASSUME VmInv PROVE IdentityMapped
<1>0. PICK w : \E m \in Nat : LaidOut(w, m) /\ vm.phys = w.phys /\ vm.frame = w.frame
  BY DEF VmInv
<1>1. PICK m \in Nat : LaidOut(w, m) /\ vm.phys = w.phys /\ vm.frame = w.frame
  BY <1>0
<1>2. w.phys \in Nat /\ w.phys + Margin <= m * PageSize
  BY <1>1 DEF LaidOut, Covers, VMs
<1> SUFFICES ASSUME NEW page \in 1..((vm.phys - 1) \div PageSize)
             PROVE  page \in DOMAIN vm.frame /\ vm.frame[page] = page
  BY DEF IdentityMapped
<1>3. vm.phys # 0
  <2>1. SUFFICES ASSUME vm.phys = 0 PROVE FALSE
    OBVIOUS
  <2>2. (vm.phys - 1) \div PageSize < 1
    BY <2>1, Sizes
  <2> QED BY <2>2, <2>1, Sizes
<1> DEFINE last == (vm.phys - 1) \div PageSize
<1>4. last \in Nat /\ PageSize * last <= vm.phys - 1
  BY <1>1, <1>2, <1>3, DivBounds, Sizes
<1>5. last < m
  <2>1. PageSize * last = last * PageSize
    BY <1>4, Sizes
  <2>2. last * PageSize < m * PageSize
    BY <1>1, <1>2, <1>4, <2>1, Sizes
  <2> QED BY <1>4, <2>2, LessTimes, Sizes
<1> HIDE DEF last
<1>6. page \in 1..(m - 1)
  BY <1>4, <1>5 DEF last
<1> QED BY <1>1, <1>6 DEF LaidOut

\* The bytes of the heap are on its own pages.
LEMMA PagesInHeap ==
  ASSUME NEW addr \in Nat, NEW size \in Nat, 0 < addr + size, addr + size <= HeapEnd
  PROVE  PagesOf(addr, size) \subseteq HeapPage..(HeapPage + HeapPages - 1)
<1> DEFINE first == addr \div PageSize
           last == (addr + size - 1) \div PageSize
<1>1. first \in Nat
  BY DivBounds, Sizes
<1>2. last \in Nat /\ PageSize * last <= addr + size - 1
  BY DivBounds, Sizes
<1>3. HeapEnd <= HeapPages * PageSize /\ HeapEnd \in Nat
  BY HeapRoomAssumption, HeapAssumption, Sizes DEF HeapEnd
<1>4. last < HeapPages
  <2>1. PageSize * last = last * PageSize /\ last * PageSize \in Nat /\ HeapPages * PageSize \in Nat
    BY <1>2, Sizes
  <2>2. last * PageSize < HeapPages * PageSize
    BY <1>2, <1>3, <2>1
  <2> QED BY <1>2, <2>2, LessTimes, Sizes
<1>5. PagesOf(addr, size) = (HeapPage + first)..(HeapPage + last)
  BY DEF PagesOf
<1> HIDE DEF first, last
<1> QED BY <1>1, <1>2, <1>4, <1>5, Sizes

LEMMA HeldInHeap ==
  ASSUME HeapInv, NEW h \in held
  PROVE  h.start \in Nat /\ h.size \in Nat /\ 0 < h.start + h.size /\ h.start + h.size <= HeapEnd
<1> DEFINE L == OnHeapList(mcb)
<1>1. Sound(mcb, L) /\ Holds(mcb, L, held)
  BY RightList DEF RightNow, Right
<1>2. IsHeap(mcb) /\ Chain(mcb, L)
  BY <1>1, SoundIn
<1>3. PICK b \in L : h.start = b + Header /\ h.size <= mcb[b].size
  BY <1>1 DEF Holds, Fits
<1>4. b \in Nat /\ mcb[b].size \in Nat /\ h.size \in Nat
  BY <1>1, <1>2, <1>3, Fields DEF Chain, Holds
<1>5. b + Header + mcb[b].size <= HeapEnd
  <2>1. CASE mcb[b].next = NULL
    BY <1>2, <1>3, <1>4, <2>1, HeapAssumption DEF Chain, HeapEnd
  <2>2. CASE mcb[b].next # NULL
    <3>1. b + Header + mcb[b].size = mcb[b].next /\ mcb[b].next \in L
      BY <1>2, <1>3, <2>2, NextIsBehind
    <3>2. mcb[b].next <= HeapSize /\ mcb[b].next \in Nat
      BY <1>2, <3>1, Fields DEF Chain
    <3> QED BY <3>1, <3>2, HeapAssumption DEF HeapEnd
  <2> QED BY <2>1, <2>2
<1> QED BY <1>3, <1>4, <1>5, HeapAssumption DEF HeapEnd

LEMMA BackedByFrames == ASSUME HeapInv, VmInv PROVE HeapBacked
<1> DEFINE InHeap == HeapPage..(HeapPage + HeapPages - 1)
<1>0. PICK w : \E m \in Nat : LaidOut(w, m) /\ vm.phys = w.phys /\ vm.frame = w.frame
  BY DEF VmInv
<1>1. PICK m \in Nat : LaidOut(w, m) /\ vm.phys = w.phys /\ vm.frame = w.frame
  BY <1>0
<1>2. ASSUME NEW b \in DOMAIN mcb PROVE PagesOf(b, Header) \subseteq InHeap
  <2>1. b \in Nat /\ b <= HeapEnd - Header
    BY <1>2, RightType, HeapAssumption DEF HeapTypeOK, HeapEnd
  <2>2. 0 < b + Header /\ b + Header <= HeapEnd
    BY <2>1, HeapAssumption DEF HeapEnd
  <2> QED BY <2>1, <2>2, PagesInHeap, HeapAssumption
<1>3. ASSUME NEW h \in held PROVE PagesOf(h.start, h.size) \subseteq InHeap
  BY HeldInHeap, PagesInHeap
<1>4. ASSUME NEW page \in InHeap
      PROVE  /\ page \in DOMAIN vm.frame
             /\ \A other \in DOMAIN vm.frame \ {page} : vm.frame[other] # vm.frame[page]
  <2>1. /\ DOMAIN vm.frame = (1..(m - 1)) \union InHeap
        /\ \A p \in 1..(m - 1) : vm.frame[p] = p
        /\ \A p \in InHeap : vm.frame[p] = m + (p - HeapPage)
    BY <1>1 DEF LaidOut
  <2> QED BY <2>1, Sizes
<1>5. ~vm.fault
  BY DEF VmInv
<1> HIDE DEF InHeap
<1> QED BY <1>2, <1>3, <1>4, <1>5 DEF HeapBacked

\* Where vm_init turns paging on, all the memory that was given away by then is
\* mapped to itself, the tables made on the way included (core.c:455-471).
THEOREM IdentityAlwaysMapped == BootSpec => []IdentityMapped
BY VmInvHolds, MappedToItself, PTL

\* Whatever the heap's users do, every header and every block lies on pages that
\* are present, and no two pages share a frame with them (core.c:419, 462;
\* heap_manager.c:16).
THEOREM HeapStaysBacked == ASSUME MaxUserBlocks <= 1 PROVE BootSpec => []HeapBacked
BY HeapInvHolds, VmInvHolds, BackedByFrames, PTL
=============================================================================
