------------------------------ MODULE Heap_proofs ------------------------------
(***************************************************************************)
(* The heap and its users, for any sizes of the heap, the header and the   *)
(* blocks, as long as the memory menu has one block at a time.             *)
(***************************************************************************)
EXTENDS Boot, FiniteSetTheorems, WellFoundedInduction, TLAPS

-----------------------------------------------------------------------------
\* Induction, with sets in place of predicates.
LEMMA LeastElement ==
  ASSUME NEW S \in SUBSET Nat, S # {}
  PROVE  \E n \in S : \A k \in S : n <= k
<1> DEFINE R == {p \in Nat \X Nat : p[1] < p[2]}
<1>1. IsWellFoundedOn(R, Nat)
  BY NatLessThanWellFounded DEF OpToRel
<1>2. PICK n \in S : \A k \in S : ~(<<k, n>> \in R)
  <2>1. S \subseteq Nat /\ S # {}
    OBVIOUS
  <2> HIDE DEF R
  <2> QED BY <1>1, <2>1, WFMin
<1>3. ASSUME NEW k \in S PROVE n <= k
  <2>1. k \in Nat /\ n \in Nat /\ ~(<<k, n>> \in R)
    BY <1>2
  <2> QED BY <2>1
<1> QED BY <1>3

LEMMA SetInduction ==
  ASSUME NEW K \in SUBSET Nat, 0 \in K, \A k \in K : k + 1 \in K
  PROVE  K = Nat
<1> DEFINE Missing == Nat \ K
<1>1. SUFFICES ASSUME Missing # {} PROVE FALSE
  OBVIOUS
<1>2. PICK n \in Missing : \A k \in Missing : n <= k
  BY <1>1, LeastElement
<1>3. n # 0 /\ n - 1 \in Nat
  OBVIOUS
<1>4. n - 1 \in K
  BY <1>2, <1>3
<1> QED BY <1>3, <1>4

LEMMA MinIsLeast ==
  ASSUME NEW S \in SUBSET Nat, S # {}
  PROVE  Min(S) \in S /\ \A k \in S : Min(S) <= k
BY LeastElement DEF Min

-----------------------------------------------------------------------------
(***************************************************************************)
(* What the list is: L is the set of the headers on it.                    *)
(***************************************************************************)
HeaderOver(D) == [size : 0..HeapSize, next : D \union {NULL}, prev : D \union {NULL},
                  free : BOOLEAN]

IsHeap(m) == DOMAIN m \subseteq 0..HeapSize /\ m \in [DOMAIN m -> HeaderOver(DOMAIN m)]

Chain(m, L) ==
  /\ L \subseteq DOMAIN m /\ First \in L
  /\ \A b \in L : m[b].next \in L \union {NULL}
  /\ \A b \in L : b + Header + m[b].size = IF m[b].next = NULL THEN HeapEnd ELSE m[b].next
  /\ \A b \in L \ {First} : \E a \in L : m[a].next = b

\* What the proofs use of a header.
LEMMA Fields ==
  ASSUME NEW m, IsHeap(m), NEW b \in DOMAIN m
  PROVE  /\ b \in Nat /\ b <= HeapSize
         /\ m[b].size \in Nat /\ m[b].size <= HeapSize
         /\ m[b].next \in DOMAIN m \union {NULL} /\ m[b].prev \in DOMAIN m \union {NULL}
         /\ m[b].free \in BOOLEAN
BY HeapAssumption DEF IsHeap, HeaderOver

LEMMA NextIsBehind ==
  ASSUME NEW m, IsHeap(m), NEW L, Chain(m, L), NEW b \in L, m[b].next # NULL
  PROVE  m[b].next \in L /\ m[b].next \in Nat /\ b < m[b].next
         /\ b + Header + m[b].size = m[b].next
<1>1. b \in DOMAIN m /\ m[b].next \in L /\ b + Header + m[b].size = m[b].next
  BY DEF Chain
<1>2. b \in Nat /\ m[b].size \in Nat
  BY <1>1, Fields
<1> QED BY <1>1, <1>2, HeapAssumption

\* Blocks follow each other without a gap: what is behind a block is its
\* successor or behind it.
LEMMA ChainOrder ==
  ASSUME NEW m, IsHeap(m), NEW L, Chain(m, L), NEW b \in L, NEW c \in L, b < c
  PROVE  m[b].next # NULL /\ m[b].next <= c
<1> DEFINE After(x, y) == m[x].next # NULL /\ m[x].next <= y
           Wrong == {y \in L : \E x \in L : x < y /\ ~After(x, y)}
<1>0. L \subseteq DOMAIN m /\ L \subseteq Nat
  BY HeapAssumption DEF Chain, IsHeap
<1>1. SUFFICES ASSUME Wrong # {} PROVE FALSE
  OBVIOUS
<1>2. PICK y \in Wrong : \A k \in Wrong : y <= k
  BY <1>0, <1>1, LeastElement
<1>3. PICK x \in L : x < y /\ ~After(x, y)
  OBVIOUS
<1>4. y \in L /\ y \in Nat /\ x \in Nat /\ y # First
  BY <1>0, <1>3 DEF First
<1>5. PICK a \in L : m[a].next = y
  BY <1>4 DEF Chain
<1>6. a < y /\ y # NULL /\ a \in Nat
  BY <1>0, <1>4, <1>5, NextIsBehind, HeapAssumption
<1>7. CASE x < a
  <2>0. a \notin Wrong
    BY <1>2, <1>4, <1>6
  <2>1. After(x, a)
    BY <1>7, <2>0
  <2>2. m[x].next \in Nat
    BY <2>1, NextIsBehind
  <2> QED BY <1>3, <1>4, <1>6, <2>1, <2>2
<1>8. CASE a < x
  <2>1. After(a, x)
    BY <1>2, <1>3, <1>4, <1>8
  <2> QED BY <1>3, <1>4, <1>5, <2>1
<1>9. CASE a = x
  BY <1>3, <1>4, <1>5, <1>6, <1>9
<1> QED BY <1>4, <1>6, <1>7, <1>8, <1>9

LEMMA OnePredecessor ==
  ASSUME NEW m, IsHeap(m), NEW L, Chain(m, L), NEW a \in L, NEW b \in L,
         m[a].next # NULL, m[a].next = m[b].next
  PROVE  a = b
<1>1. a \in Nat /\ b \in Nat
  BY HeapAssumption DEF Chain, IsHeap
<1>2. a < m[a].next /\ b < m[b].next /\ m[a].next \in Nat
  BY NextIsBehind
<1>3. ASSUME a < b PROVE FALSE
  BY <1>1, <1>2, <1>3, ChainOrder
<1>4. ASSUME b < a PROVE FALSE
  BY <1>1, <1>2, <1>4, ChainOrder
<1> QED BY <1>1, <1>3, <1>4

-----------------------------------------------------------------------------
(***************************************************************************)
(* The walk along the list.  It is a recursive function of the number of   *)
(* steps; that there is such a function is shown by adding one step at a   *)
(* time.                                                                   *)
(***************************************************************************)
Follow(m, b) == IF b = NULL THEN NULL ELSE m[b].next

IsWalk(at, k, m, L) ==
  /\ at \in [0..k -> L \union {NULL}]
  /\ at[0] = First
  /\ \A j \in 1..k : at[j] = Follow(m, at[j - 1])

Steps(m) == Cardinality(DOMAIN m)

LEMMA StepsType == ASSUME NEW m, IsHeap(m) PROVE IsFiniteSet(DOMAIN m) /\ Steps(m) \in Nat
<1>1. IsFiniteSet(0..HeapSize)
  BY FS_Interval, HeapAssumption
<1>2. IsFiniteSet(DOMAIN m)
  BY <1>1, FS_Subset DEF IsHeap
<1> QED BY <1>2, FS_CardinalityType DEF Steps

LEMMA FollowType ==
  ASSUME NEW m, NEW L, Chain(m, L), NEW b \in L \union {NULL}
  PROVE  Follow(m, b) \in L \union {NULL}
BY DEF Chain, Follow

LEMMA WalkOfAnyLength ==
  ASSUME NEW m, NEW L, Chain(m, L)
  PROVE  \A k \in Nat : \E at : IsWalk(at, k, m, L)
<1> DEFINE K == {k \in Nat : \E at : IsWalk(at, k, m, L)}
<1>1. 0 \in K
  <2> DEFINE g == [j \in 0..0 |-> First]
  <2>1. IsWalk(g, 0, m, L)
    BY DEF IsWalk, Chain
  <2> QED BY <2>1
<1>2. ASSUME NEW k \in K PROVE k + 1 \in K
  <2>1. PICK at : IsWalk(at, k, m, L)
    OBVIOUS
  <2> DEFINE g == [j \in 0..(k + 1) |-> IF j = k + 1 THEN Follow(m, at[k]) ELSE at[j]]
  <2>2. at[k] \in L \union {NULL}
    BY <2>1 DEF IsWalk
  <2>3. g \in [0..(k + 1) -> L \union {NULL}]
    BY <2>1, <2>2, FollowType DEF IsWalk
  <2>4. g[0] = First
    BY <2>1 DEF IsWalk
  <2>5. ASSUME NEW j \in 1..(k + 1) PROVE g[j] = Follow(m, g[j - 1])
    <3>1. CASE j = k + 1
      BY <3>1
    <3>2. CASE j \in 1..k
      BY <2>1, <3>2 DEF IsWalk
    <3> QED BY <3>1, <3>2
  <2> HIDE DEF g
  <2>6. IsWalk(g, k + 1, m, L)
    BY <2>3, <2>4, <2>5 DEF IsWalk
  <2> QED BY <2>6
<1> HIDE DEF K
<1>3. K = Nat
  <2>1. K \in SUBSET Nat
    BY DEF K
  <2> QED BY <1>1, <1>2, <2>1, SetInduction
<1> QED BY <1>3 DEF K

\* The recursive function of Walk is such a walk.
LEMMA WalkWalks ==
  ASSUME NEW m, IsHeap(m), NEW L, Chain(m, L)
  PROVE  IsWalk(Walk(m), Steps(m), m, L)
<1> DEFINE F(at) == at = [k \in 0..Steps(m) |->
                            IF k = 0 THEN First
                            ELSE LET b == at[k-1] IN IF b = NULL THEN NULL ELSE m[b].next]
           at == CHOOSE a : F(a)
<1>1. \E a : F(a)
  <2>1. PICK g : IsWalk(g, Steps(m), m, L)
    BY WalkOfAnyLength, StepsType
  <2>2. g = [k \in 0..Steps(m) |-> g[k]]
    BY <2>1 DEF IsWalk
  <2>3. \A k \in 0..Steps(m) : g[k] = IF k = 0 THEN First
                                    ELSE IF g[k-1] = NULL THEN NULL ELSE m[g[k-1]].next
    BY <2>1, StepsType DEF IsWalk, Follow
  <2>4. F(g)
    BY <2>2, <2>3
  <2> QED BY <2>4
<1>2. F(at)
  BY <1>1
<1>3. Walk(m) = at
  BY DEF Walk, Steps
<1> HIDE DEF at
<1>4. /\ DOMAIN at = 0..Steps(m)
      /\ at = [k \in 0..Steps(m) |-> at[k]]
      /\ \A k \in 0..Steps(m) : at[k] = IF k = 0 THEN First ELSE Follow(m, at[k - 1])
  BY <1>2 DEF Follow
<1> HIDE DEF F
<1> DEFINE K == {k \in Nat : k <= Steps(m) => at[k] \in L \union {NULL}}
<1>5. K = Nat
  <2>1. 0 \in K
    <3>1. 0 \in 0..Steps(m)
      BY StepsType
    <3>2. at[0] = First
      BY <1>4, <3>1
    <3> QED BY <3>2 DEF Chain
  <2>2. ASSUME NEW k \in K PROVE k + 1 \in K
    <3>1. SUFFICES ASSUME k + 1 <= Steps(m) PROVE at[k + 1] \in L \union {NULL}
      OBVIOUS
    <3>2. at[k] \in L \union {NULL}
      BY <3>1, StepsType
    <3>3. k + 1 \in 0..Steps(m) /\ k + 1 # 0 /\ (k + 1) - 1 = k
      BY <3>1, StepsType
    <3>4. at[k + 1] = Follow(m, at[k])
      BY <1>4, <3>3
    <3> QED BY <3>2, <3>4, FollowType
  <2>3. K \in SUBSET Nat
    OBVIOUS
  <2> HIDE DEF K
  <2> QED BY <2>1, <2>2, <2>3, SetInduction
<1>6. \A k \in 0..Steps(m) : at[k] \in L \union {NULL}
  BY <1>5, StepsType
<1>7. at \in [0..Steps(m) -> L \union {NULL}]
  BY <1>4, <1>6
<1>8. IsWalk(at, Steps(m), m, L)
  BY <1>4, <1>7, StepsType DEF IsWalk
<1> QED BY <1>3, <1>8

\* What the walk finds first: nothing in front of it is in S.
LEMMA FirstInFinds ==
  ASSUME NEW m, IsHeap(m), NEW L, Chain(m, L), NEW S, FirstIn(m, S) # NULL, NULL \notin S
  PROVE  /\ FirstIn(m, S) \in L /\ FirstIn(m, S) \in S
         /\ \A a \in L : m[a].next = FirstIn(m, S) => a \notin S
<1> DEFINE walk == Walk(m)
           hits == {k \in DOMAIN walk : walk[k] \in S}
<1>1. IsWalk(walk, Steps(m), m, L)
  BY WalkWalks
<1>2. DOMAIN walk = 0..Steps(m) /\ Steps(m) \in Nat
  BY <1>1, StepsType DEF IsWalk
<1>3. hits # {} /\ FirstIn(m, S) = walk[Min(hits)]
  BY DEF FirstIn
<1>4. hits \in SUBSET Nat
  BY <1>2
<1>5. Min(hits) \in hits /\ \A k \in hits : Min(hits) <= k
  BY <1>3, <1>4, MinIsLeast
<1> HIDE DEF walk, hits
<1>6. PICK k \in hits : k = Min(hits)
  BY <1>5
<1>7. walk[k] \in S /\ k \in 0..Steps(m) /\ walk[k] \in L \union {NULL}
  BY <1>1, <1>2 DEF hits, IsWalk
<1>8. walk[k] \in L
  BY <1>7
<1>9. ASSUME NEW a \in L, m[a].next = walk[k] PROVE a \notin S
  <2>1. walk[k] # First
    BY <1>8, <1>9, NextIsBehind, HeapAssumption DEF First, Chain, IsHeap
  <2>2. k \in 1..Steps(m) /\ k - 1 \in 0..Steps(m) /\ k - 1 < k
    BY <1>1, <1>2, <1>7, <2>1 DEF IsWalk
  <2>3. walk[k] = Follow(m, walk[k - 1]) /\ walk[k - 1] \in L \union {NULL}
    BY <1>1, <2>2 DEF IsWalk
  <2>4. walk[k - 1] \in L /\ m[walk[k - 1]].next = walk[k] /\ walk[k] # NULL
    BY <1>7, <2>3 DEF Follow
  <2>5. a = walk[k - 1]
    BY <1>9, <2>4, OnePredecessor
  <2>6. k - 1 \notin hits
    BY <1>4, <1>5, <1>6, <2>2
  <2> QED BY <1>2, <2>2, <2>5, <2>6 DEF hits
<1> QED BY <1>3, <1>6, <1>7, <1>8, <1>9

-----------------------------------------------------------------------------
\* The walk ascends until it ends, so that it has met every header by then.
LEMMA WalkAscends ==
  ASSUME NEW m, IsHeap(m), NEW L, Chain(m, L), NEW at, IsWalk(at, Steps(m), m, L),
         NEW k \in 0..Steps(m), at[k] # NULL, NEW j \in 0..Steps(m), j < k
  PROVE  at[j] # NULL /\ at[j] < at[k]
<1> DEFINE N == Steps(m)
           Above(i) == at[i] # NULL => \A h \in 0..N : h < i => at[h] # NULL /\ at[h] < at[i]
           K == {i \in Nat : i <= N => Above(i)}
<1>0. N \in Nat /\ L \subseteq Nat /\ at \in [0..N -> L \union {NULL}]
  BY StepsType, HeapAssumption DEF Chain, IsHeap, IsWalk
<1> HIDE DEF N
<1>1. K = Nat
  <2>1. 0 \in K
    BY <1>0
  <2>2. ASSUME NEW i \in K PROVE i + 1 \in K
    <3>1. SUFFICES ASSUME i + 1 <= N, at[i + 1] # NULL, NEW h \in 0..N, h < i + 1
                   PROVE  at[h] # NULL /\ at[h] < at[i + 1]
      OBVIOUS
    <3>2. i \in 0..N /\ i + 1 \in 1..N /\ (i + 1) - 1 = i
      BY <1>0, <3>1
    <3>3. at[i + 1] = Follow(m, at[i])
      BY <3>2 DEF IsWalk, N
    <3>4. at[i] # NULL /\ at[i] \in L /\ at[i + 1] = m[at[i]].next
      BY <1>0, <3>1, <3>2, <3>3 DEF Follow
    <3>5. at[i] < at[i + 1] /\ at[i + 1] \in Nat /\ at[i] \in Nat
      BY <1>0, <3>1, <3>4, NextIsBehind
    <3>6. CASE h = i
      BY <3>4, <3>5, <3>6
    <3>7. CASE h < i
      <4>1. at[h] # NULL /\ at[h] < at[i]
        BY <3>2, <3>4, <3>7
      <4>2. at[h] \in Nat
        BY <1>0, <4>1
      <4> QED BY <3>5, <4>1, <4>2
    <3> QED BY <1>0, <3>1, <3>6, <3>7
  <2>3. K \in SUBSET Nat
    OBVIOUS
  <2> HIDE DEF K
  <2> QED BY <2>1, <2>2, <2>3, SetInduction
<1>2. k \in K /\ k <= N /\ j \in 0..N
  BY <1>0, <1>1 DEF N
<1> QED BY <1>2

LEMMA WalkEnds ==
  ASSUME NEW m, IsHeap(m), NEW L, Chain(m, L), NEW at, IsWalk(at, Steps(m), m, L)
  PROVE  \E k \in 0..Steps(m) : at[k] = NULL
<1>1. SUFFICES ASSUME \A k \in 0..Steps(m) : at[k] # NULL PROVE FALSE
  OBVIOUS
<1>2. Steps(m) \in Nat /\ IsFiniteSet(DOMAIN m) /\ L \subseteq DOMAIN m /\ L \subseteq Nat
  BY StepsType, HeapAssumption DEF Chain, IsHeap
<1>3. at \in [0..Steps(m) -> DOMAIN m] /\ at \in [0..Steps(m) -> L]
  BY <1>1, <1>2 DEF IsWalk
<1>4. IsFiniteSet(0..Steps(m)) /\ Cardinality(0..Steps(m)) = Steps(m) + 1
  BY <1>2, FS_Interval
<1>5. \E x, y \in 0..Steps(m) : x # y /\ at[x] = at[y]
  <2>1. Cardinality(DOMAIN m) < Cardinality(0..Steps(m))
    BY <1>2, <1>4 DEF Steps
  <2> QED BY <1>2, <1>3, <1>4, <2>1, FS_PigeonHole
<1>6. PICK x, y \in 0..Steps(m) : x # y /\ at[x] = at[y]
  BY <1>5
<1>7. ASSUME NEW a \in 0..Steps(m), NEW b \in 0..Steps(m), a < b PROVE at[a] # at[b]
  <2>1. at[a] < at[b]
    BY <1>1, <1>7, WalkAscends
  <2>2. at[a] \in Nat
    BY <1>2, <1>3
  <2> QED BY <2>1, <2>2
<1>8. x < y \/ y < x
  BY <1>2, <1>6
<1> QED BY <1>6, <1>7, <1>8

LEMMA WalkMeetsAll ==
  ASSUME NEW m, IsHeap(m), NEW L, Chain(m, L), NEW b \in L
  PROVE  \E k \in DOMAIN Walk(m) : Walk(m)[k] = b
<1> DEFINE at == Walk(m)
           Missed == {x \in L : \A k \in 0..Steps(m) : at[k] # x}
<1>1. IsWalk(at, Steps(m), m, L)
  BY WalkWalks
<1> HIDE DEF at
<1>2. Steps(m) \in Nat /\ L \subseteq Nat /\ DOMAIN at = 0..Steps(m)
  BY <1>1, StepsType, HeapAssumption DEF Chain, IsHeap, IsWalk
<1>3. ASSUME Missed # {} PROVE FALSE
  <2>1. PICK x \in Missed : \A y \in Missed : x <= y
    BY <1>2, <1>3, LeastElement
  <2>2. x \in L /\ x # First
    BY <1>1, <1>2 DEF IsWalk
  <2>3. PICK a \in L : m[a].next = x
    BY <2>2 DEF Chain
  <2>4. x # NULL /\ a < x /\ a \in Nat
    BY <1>2, <2>2, <2>3, NextIsBehind, HeapAssumption
  <2>5. PICK k \in 0..Steps(m) : at[k] = a
    BY <1>2, <2>1, <2>4
  <2>6. PICK end \in 0..Steps(m) : at[end] = NULL
    BY <1>1, WalkEnds
  <2>7. a # NULL
    BY <2>4, HeapAssumption
  <2>8. k < end
    <3>1. end # k
      BY <2>5, <2>6, <2>7
    <3>2. ~(end < k)
      BY <1>1, <2>5, <2>6, <2>7, WalkAscends
    <3> QED BY <1>2, <3>1, <3>2
  <2>9. k + 1 \in 1..Steps(m) /\ (k + 1) - 1 = k
    BY <1>2, <2>8
  <2>10. at[k + 1] = x
    BY <1>1, <2>3, <2>5, <2>7, <2>9 DEF IsWalk, Follow
  <2> QED BY <2>1, <2>9, <2>10
<1> QED BY <1>2, <1>3 DEF at

LEMMA OnHeapListIs ==
  ASSUME NEW m, IsHeap(m), NEW L, Chain(m, L)
  PROVE  OnHeapList(m) = L
<1>1. IsWalk(Walk(m), Steps(m), m, L)
  BY WalkWalks
<1>2. \A k \in DOMAIN Walk(m) : Walk(m)[k] \in L \union {NULL}
  BY <1>1 DEF IsWalk
<1>3. NULL \notin L
  BY HeapAssumption DEF Chain, IsHeap
<1> QED BY <1>2, <1>3, WalkMeetsAll DEF OnHeapList, Range

LEMMA FirstInMisses ==
  ASSUME NEW m, IsHeap(m), NEW L, Chain(m, L), NEW S, FirstIn(m, S) = NULL, NULL \notin S
  PROVE  L \intersect S = {}
<1> DEFINE walk == Walk(m)
           hits == {k \in DOMAIN walk : walk[k] \in S}
<1>1. IsWalk(walk, Steps(m), m, L)
  BY WalkWalks
<1>2. hits \in SUBSET Nat
  BY <1>1, StepsType DEF IsWalk
<1>3. hits # {} => walk[Min(hits)] \in S
  BY <1>2, MinIsLeast
<1>4. hits = {}
  BY <1>3 DEF FirstIn
<1> QED BY <1>4, WalkMeetsAll

-----------------------------------------------------------------------------
(***************************************************************************)
(* The list as it should be: it is tiled, every header but the first has a *)
(* prev, and a free block knows the one in front of it, which is not free. *)
(* The prev of a block in use may be stale.                                *)
(***************************************************************************)
Linked(m, L) ==
  /\ IsHeap(m) /\ Chain(m, L)
  /\ m[First].prev = NULL
  /\ \A b \in L \ {First} : m[b].prev # NULL

Sound(m, L) ==
  /\ Linked(m, L)
  /\ \A a, b \in L : m[a].next = b /\ m[b].free => m[b].prev = a /\ ~m[a].free

\* A block whose prev is right and stays right: the block in front of it, which
\* is none of N, is in use.
Firm(m, L, x, N) ==
  \A a \in L : m[a].next = x => m[x].prev = a /\ ~m[a].free /\ a \notin N

LEMMA FirstFitFits ==
  ASSUME NEW m, IsHeap(m), NEW L, Chain(m, L), NEW size, FirstFit(m, size) # NULL
  PROVE  /\ FirstFit(m, size) \in L
         /\ m[FirstFit(m, size)].free /\ m[FirstFit(m, size)].size >= size
<1> DEFINE S == {b \in DOMAIN m : m[b].free /\ m[b].size >= size}
<1>1. NULL \notin S
  BY HeapAssumption DEF IsHeap
<1>2. FirstFit(m, size) = FirstIn(m, S)
  BY DEF FirstFit
<1>3. FirstIn(m, S) \in L /\ FirstIn(m, S) \in S
  <2> HIDE DEF S
  <2> QED BY <1>1, <1>2, FirstInFinds
<1> QED BY <1>2, <1>3

Taken(m, r, size) == [Split(m, r, size) EXCEPT ![r].free = FALSE]

LEMMA TakenFields ==
  ASSUME NEW m, IsHeap(m), NEW r \in DOMAIN m, NEW size, m[r].size < size + Header
  PROVE  LET t == Taken(m, r, size)
         IN /\ DOMAIN t = DOMAIN m /\ IsHeap(t)
            /\ t[r] = [m[r] EXCEPT !.free = FALSE]
            /\ \A a \in DOMAIN m \ {r} : t[a] = m[a]
<1> DEFINE t == Taken(m, r, size)
<1>1. t = [m EXCEPT ![r] = [m[r] EXCEPT !.free = FALSE]]
  BY DEF Taken, Split
<1>2. [m[r] EXCEPT !.free = FALSE] \in HeaderOver(DOMAIN m)
  BY DEF IsHeap, HeaderOver
<1> QED BY <1>1, <1>2 DEF IsHeap

LEMMA SplitFields ==
  ASSUME NEW m, IsHeap(m), NEW r \in DOMAIN m, NEW size \in Nat,
         size + Header <= m[r].size, r + Header + m[r].size <= HeapEnd
  PROVE  LET t == Taken(m, r, size)
             new == r + Header + size
         IN /\ new \in Nat /\ new # r
            /\ DOMAIN t = DOMAIN m \union {new} /\ IsHeap(t)
            /\ t[new] = [size |-> m[r].size - size - Header, next |-> m[r].next, prev |-> r,
                         free |-> TRUE]
            /\ t[r] = [size |-> size, next |-> new, prev |-> m[r].prev, free |-> FALSE]
            /\ \A a \in DOMAIN m \ {r, new} : t[a] = m[a]
<1> DEFINE t == Taken(m, r, size)
           new == r + Header + size
           rest == [size |-> m[r].size - size - Header, next |-> m[r].next, prev |-> r,
                    free |-> TRUE]
           used == [size |-> size, next |-> new, prev |-> m[r].prev, free |-> FALSE]
           D == DOMAIN m \union {new}
<1>1. /\ r \in Nat /\ m[r].size \in Nat /\ m[r].size <= HeapSize
      /\ m[r].next \in DOMAIN m \union {NULL} /\ m[r].prev \in DOMAIN m \union {NULL}
  BY Fields
<1>2. new \in Nat /\ new # r /\ new <= HeapSize
  BY <1>1, HeapAssumption DEF HeapEnd
<1>3. m[r] = [size |-> m[r].size, next |-> m[r].next, prev |-> m[r].prev, free |-> m[r].free]
  BY DEF IsHeap, HeaderOver
<1>4. ~(m[r].size < size + Header)
  BY <1>1, HeapAssumption
<1>5. Split(m, r, size) = WithHeader([m EXCEPT ![r].next = new, ![r].size = size], new, rest)
  BY <1>4 DEF Split
<1>6. /\ DOMAIN t = D /\ t[new] = rest /\ t[r] = used
      /\ \A a \in DOMAIN m \ {r, new} : t[a] = m[a]
      /\ t = [a \in D |-> t[a]]
  BY <1>2, <1>3, <1>5 DEF Taken, WithHeader
<1>7. rest \in HeaderOver(D) /\ used \in HeaderOver(D)
  <2>1. m[r].size - size - Header \in 0..HeapSize /\ size \in 0..HeapSize
    BY <1>1, HeapAssumption
  <2> QED BY <1>1, <2>1 DEF HeaderOver
<1>8. \A a \in DOMAIN m : m[a] \in HeaderOver(D)
  BY DEF IsHeap, HeaderOver
<1> HIDE DEF t, rest, used
<1>9. t \in [D -> HeaderOver(D)]
  BY <1>6, <1>7, <1>8
<1>10. D \subseteq 0..HeapSize
  BY <1>2, HeapAssumption DEF IsHeap
<1>11. IsHeap(t)
  BY <1>6, <1>9, <1>10 DEF IsHeap
<1> QED BY <1>2, <1>6, <1>11 DEF t, rest, used

NewList(m, L, r, size) == IF m[r].size < size + Header THEN L ELSE L \union {r + Header + size}

\* allocate_memory keeps the list right, whatever it takes: the block that is
\* split was free, so that the block behind it, whose prev goes stale, is in use.
TakenRight(m, L, r, size) ==
  LET t == Taken(m, r, size)
      K == NewList(m, L, r, size)
  IN /\ Sound(t, K) /\ L \subseteq K
     /\ ~t[r].free /\ size <= t[r].size
     /\ \A b \in L \ {r} : t[b] = m[b]
     /\ \A x \in L \ {r} : \A N : Firm(m, L, x, N) => Firm(t, K, x, N \union {r})
     /\ Firm(t, K, r, {})

LEMMA TakenWholeKeeps ==
  ASSUME NEW m, NEW L, Sound(m, L), NEW r \in L, m[r].free, NEW size \in Nat, size <= m[r].size,
         m[r].size < size + Header
  PROVE  TakenRight(m, L, r, size)
<1> DEFINE t == Taken(m, r, size)
<1>1. /\ DOMAIN t = DOMAIN m /\ IsHeap(t)
      /\ t[r] = [m[r] EXCEPT !.free = FALSE]
      /\ \A a \in DOMAIN m \ {r} : t[a] = m[a]
  BY TakenFields DEF Sound, Linked, Chain
<1> HIDE DEF t
<1>2. L \subseteq DOMAIN m /\ First \in L /\ IsHeap(m)
  BY DEF Sound, Linked, Chain
<1>3. m[r] \in HeaderOver(DOMAIN m)
  BY <1>2 DEF IsHeap
<1>4. /\ t[r].size = m[r].size /\ t[r].next = m[r].next /\ t[r].prev = m[r].prev
      /\ t[r].free = FALSE
  BY <1>1, <1>3 DEF HeaderOver
<1>5. \A a \in L : t[a].size = m[a].size /\ t[a].next = m[a].next /\ t[a].prev = m[a].prev
  BY <1>1, <1>2, <1>4
<1>6. \A a \in L \ {r} : t[a] = m[a]
  BY <1>1, <1>2
<1>7. Chain(t, L)
  BY <1>1, <1>5 DEF Chain, Sound, Linked
<1>8. Linked(t, L)
  BY <1>1, <1>2, <1>5, <1>7 DEF Sound, Linked
<1>9. Sound(t, L)
  BY <1>4, <1>5, <1>6, <1>8 DEF Sound
<1>10. ASSUME NEW x \in L \ {r}, NEW N, Firm(m, L, x, N) PROVE Firm(t, L, x, N \union {r})
  BY <1>5, <1>6, <1>10 DEF Firm
<1>11. Firm(t, L, r, {})
  <2>1. ASSUME NEW a \in L, t[a].next = r PROVE t[r].prev = a /\ ~t[a].free
    <3>1. m[r].prev = a /\ ~m[a].free
      BY <1>5, <2>1 DEF Sound
    <3> QED BY <1>5, <1>6, <3>1
  <2> QED BY <2>1 DEF Firm
<1> QED BY <1>4, <1>6, <1>9, <1>10, <1>11 DEF TakenRight, NewList, t

LEMMA SplitKeeps ==
  ASSUME NEW m, NEW L, Sound(m, L), NEW r \in L, m[r].free, NEW size \in Nat,
         size + Header <= m[r].size
  PROVE  TakenRight(m, L, r, size)
<1> DEFINE t == Taken(m, r, size)
           new == r + Header + size
           K == L \union {new}
<1>1. IsHeap(m) /\ Chain(m, L) /\ L \subseteq DOMAIN m /\ First \in L /\ r \in DOMAIN m
  BY DEF Sound, Linked, Chain
<1>2. r \in Nat /\ m[r].size \in Nat /\ First <= r
  BY <1>1, Fields DEF First
<1>3. r + Header + m[r].size = IF m[r].next = NULL THEN HeapEnd ELSE m[r].next
  BY <1>1 DEF Chain
<1>4. r + Header + m[r].size <= HeapEnd
  <2>1. CASE m[r].next = NULL
    BY <1>3, <2>1, HeapAssumption DEF HeapEnd
  <2>2. CASE m[r].next # NULL
    <3>1. m[r].next \in DOMAIN m
      BY <1>1, <2>2 DEF Chain
    <3>2. m[r].next <= HeapSize /\ m[r].next \in Nat
      BY <1>1, <3>1, HeapAssumption DEF IsHeap
    <3> QED BY <1>3, <2>2, <3>2, HeapAssumption DEF HeapEnd
  <2> QED BY <2>1, <2>2
<1>5. /\ new \in Nat /\ new # r
      /\ DOMAIN t = DOMAIN m \union {new} /\ IsHeap(t)
      /\ t[new] = [size |-> m[r].size - size - Header, next |-> m[r].next, prev |-> r,
                   free |-> TRUE]
      /\ t[r] = [size |-> size, next |-> new, prev |-> m[r].prev, free |-> FALSE]
      /\ \A a \in DOMAIN m \ {r, new} : t[a] = m[a]
  BY <1>1, <1>4, SplitFields
<1>6. r < new /\ new + Header <= r + Header + m[r].size
  BY <1>2, HeapAssumption
<1>7. new \notin L
  <2>1. SUFFICES ASSUME new \in L PROVE FALSE
    OBVIOUS
  <2>2. m[r].next # NULL /\ m[r].next <= new
    BY <1>1, <1>6, <2>1, ChainOrder
  <2>3. m[r].next = r + Header + m[r].size
    BY <1>3, <2>2
  <2> QED BY <1>2, <1>5, <1>6, <2>2, <2>3, HeapAssumption
<1>8. \A a \in L \ {r} : t[a] = m[a]
  BY <1>1, <1>5, <1>7
<1>9. /\ t[new].next = m[r].next /\ t[new].prev = r /\ t[new].free = TRUE
      /\ t[new].size = m[r].size - size - Header
      /\ t[r].next = new /\ t[r].prev = m[r].prev /\ t[r].free = FALSE /\ t[r].size = size
  BY <1>5
<1>10. new # NULL /\ r # NULL /\ new # First /\ Header \in Nat /\ Header > 0
  BY <1>2, <1>5, <1>6, HeapAssumption DEF First
<1>11. m[r].next # r /\ m[r].next # new
  BY <1>1, <1>2, <1>7, <1>10, NextIsBehind DEF Chain
<1> HIDE DEF t
<1>12. Chain(t, K)
  <2>1. K \subseteq DOMAIN t /\ First \in K
    BY <1>1, <1>5
  <2>2. \A b \in K : t[b].next \in K \union {NULL}
    BY <1>1, <1>8, <1>9 DEF Chain
  <2>3. ASSUME NEW b \in K
        PROVE b + Header + t[b].size = IF t[b].next = NULL THEN HeapEnd ELSE t[b].next
    <3>1. CASE b = new
      <4>1. new + Header + t[new].size = r + Header + m[r].size
        BY <1>2, <1>5, <1>9, <1>10
      <4> QED BY <1>3, <1>9, <3>1, <4>1
    <3>2. CASE b = r
      BY <1>2, <1>9, <1>10, <3>2
    <3>3. CASE b \in L \ {r}
      BY <1>1, <1>8, <3>3 DEF Chain
    <3> QED BY <3>1, <3>2, <3>3
  <2>4. ASSUME NEW b \in K \ {First} PROVE \E a \in K : t[a].next = b
    <3>1. CASE b = new
      BY <1>9, <3>1
    <3>2. CASE b \in L
      <4>1. PICK a \in L : m[a].next = b
        BY <1>1, <3>2 DEF Chain
      <4> QED BY <1>8, <1>9, <4>1
    <3> QED BY <3>1, <3>2
  <2> HIDE DEF K, new
  <2> QED BY <2>1, <2>2, <2>3, <2>4 DEF Chain
<1>13. Linked(t, K)
  <2>1. m[First].prev = NULL /\ \A b \in L \ {First} : m[b].prev # NULL
    BY DEF Sound, Linked
  <2>2. t[First].prev = NULL
    BY <1>1, <1>8, <1>9, <2>1
  <2>3. \A b \in K \ {First} : t[b].prev # NULL
    BY <1>8, <1>9, <1>10, <2>1
  <2> QED BY <1>5, <1>12, <2>2, <2>3 DEF Linked
<1>14. \A a, b \in L : m[a].next = b /\ m[b].free => m[b].prev = a /\ ~m[a].free
  BY DEF Sound
<1>15. ASSUME NEW a \in K, NEW b \in K, t[a].next = b, t[b].free
       PROVE  t[b].prev = a /\ ~t[a].free
  <2>1. b # r
    BY <1>9, <1>15
  <2>2. CASE b = new
    <3>1. a = r
      BY <1>5, <1>9, <1>10, <1>12, <1>15, <2>2, OnePredecessor
    <3> QED BY <1>9, <2>2, <3>1
  <2>3. CASE b # new
    <3>1. b \in L \ {r} /\ m[b].free
      BY <1>8, <1>15, <2>1, <2>3
    <3>2. a # new
      BY <1>9, <1>14, <1>15, <3>1
    <3>3. a # r
      BY <1>9, <1>15, <2>3
    <3> QED BY <1>8, <1>14, <1>15, <3>1, <3>2, <3>3
  <2> QED BY <2>2, <2>3
<1>16. Sound(t, K)
  BY <1>13, <1>15 DEF Sound
<1>17. ASSUME NEW x \in L \ {r}, NEW N, Firm(m, L, x, N) PROVE Firm(t, K, x, N \union {r})
  <2>1. SUFFICES ASSUME NEW a \in K, t[a].next = x
                 PROVE  t[x].prev = a /\ ~t[a].free /\ a \notin N \union {r}
    BY DEF Firm
  <2>2. a # new
    BY <1>9, <1>17, <2>1 DEF Firm
  <2>3. a # r
    BY <1>7, <1>9, <2>1
  <2> QED BY <1>8, <1>17, <2>1, <2>2, <2>3 DEF Firm
<1>18. Firm(t, K, r, {})
  <2>1. SUFFICES ASSUME NEW a \in K, t[a].next = r PROVE t[r].prev = a /\ ~t[a].free
    BY DEF Firm
  <2>2. a # new /\ a # r
    BY <1>5, <1>9, <1>11, <2>1
  <2> QED BY <1>8, <1>9, <1>14, <2>1, <2>2
<1>19. NewList(m, L, r, size) = K
  BY <1>2, HeapAssumption DEF NewList
<1>20. L \subseteq K /\ ~t[r].free /\ size <= t[r].size
  BY <1>9
<1> HIDE DEF K, new
<1> QED BY <1>8, <1>16, <1>17, <1>18, <1>19, <1>20 DEF TakenRight, t

LEMMA TakenKeeps ==
  ASSUME NEW m, NEW L, Sound(m, L), NEW r \in L, m[r].free, NEW size \in Nat, size <= m[r].size
  PROVE  TakenRight(m, L, r, size)
<1>1. m[r].size \in Nat
  BY Fields DEF Sound, Linked, Chain
<1>2. m[r].size < size + Header \/ size + Header <= m[r].size
  BY <1>1, HeapAssumption
<1> QED BY <1>2, TakenWholeKeeps, SplitKeeps

-----------------------------------------------------------------------------
(***************************************************************************)
(* merge: the block a takes in the one behind it, b, that knows a.         *)
(***************************************************************************)
Absorb(m, a, b) == McbRemove([m EXCEPT ![a].size = @ + Header + m[b].size], b)

AbsorbRight(m, L, a, b) ==
  LET k == Absorb(m, a, b)
  IN /\ Linked(k, L \ {b})
     /\ \A x \in L \ {b} : k[x].free = m[x].free
     /\ \A x \in L \ {a, b} : k[x].size = m[x].size /\ k[x].next = m[x].next
     /\ \A x \in L \ {b, m[b].next} : k[x].prev = m[x].prev
     /\ k[a].next = m[b].next
     /\ m[b].next # NULL => k[m[b].next].prev = a

LEMMA AbsorbFields ==
  ASSUME NEW m, IsHeap(m), NEW a \in DOMAIN m, NEW b \in DOMAIN m, a # b,
         m[a].next = b, m[b].prev = a, m[b].next \notin {a, b},
         m[a].size + Header + m[b].size <= HeapSize
  PROVE  LET k == Absorb(m, a, b)
         IN /\ DOMAIN k = DOMAIN m /\ IsHeap(k)
            /\ k[a].size = m[a].size + Header + m[b].size
            /\ k[a].next = m[b].next /\ k[a].prev = m[a].prev /\ k[a].free = m[a].free
            /\ \A x \in DOMAIN m \ {a, b, m[b].next} : k[x] = m[x]
            /\ m[b].next # NULL => k[m[b].next] = [m[m[b].next] EXCEPT !.prev = a]
<1> DEFINE s == m[a].size + Header + m[b].size
           c == m[b].next
           D == DOMAIN m
           k == Absorb(m, a, b)
           ka == [size |-> s, next |-> c, prev |-> m[a].prev, free |-> m[a].free]
           kb == [size |-> m[b].size, next |-> NULL, prev |-> NULL, free |-> m[b].free]
           kc == [m[c] EXCEPT !.prev = a]
<1>1. /\ m \in [D -> HeaderOver(D)] /\ D \subseteq 0..HeapSize
      /\ a # NULL /\ s \in 0..HeapSize /\ c \in D \union {NULL}
  BY Fields, HeapAssumption DEF IsHeap
<1>2. /\ m[a] = [size |-> m[a].size, next |-> b, prev |-> m[a].prev, free |-> m[a].free]
      /\ m[b] = [size |-> m[b].size, next |-> c, prev |-> a, free |-> m[b].free]
  BY <1>1 DEF HeaderOver
<1>3. ka \in HeaderOver(D) /\ kb \in HeaderOver(D) /\ (c # NULL => kc \in HeaderOver(D))
  BY <1>1 DEF HeaderOver
<1> DEFINE grown == [m EXCEPT ![a].size = @ + Header + m[b].size]
<1>4. grown[b] = m[b] /\ grown[b].next = c /\ grown[b].prev = a
  BY <1>1, <1>2
<1>5. k = McbRemove(grown, b)
  BY DEF Absorb
<1> HIDE DEF k
<1>6. CASE c = NULL
  <2>1. k = [grown EXCEPT ![a].next = NULL, ![b].prev = NULL]
    <3> HIDE DEF grown
    <3> QED BY <1>1, <1>4, <1>5, <1>6 DEF McbRemove
  <2>2. grown[a] = [size |-> s, next |-> b, prev |-> m[a].prev, free |-> m[a].free]
    BY <1>1, <1>2
  <2>3. /\ k[a] = ka /\ k[b] = kb /\ DOMAIN k = D
        /\ \A x \in D \ {a, b} : k[x] = m[x]
        /\ k = [x \in D |-> k[x]]
    BY <1>1, <1>2, <1>4, <1>6, <2>1, <2>2
  <2> HIDE DEF ka, kb, grown, s
  <2>4. k \in [D -> HeaderOver(D)]
    BY <1>1, <1>3, <2>3
  <2> QED BY <1>1, <1>6, <2>3, <2>4 DEF IsHeap, ka, s, k
<1>7. CASE c # NULL
  <2>1. k = [grown EXCEPT ![a].next = c, ![c].prev = a, ![b].prev = NULL, ![b].next = NULL]
    <3> HIDE DEF grown
    <3> QED BY <1>1, <1>4, <1>5, <1>7 DEF McbRemove
  <2>2. /\ grown[a] = [size |-> s, next |-> b, prev |-> m[a].prev, free |-> m[a].free]
        /\ grown[c] = m[c]
    BY <1>1, <1>2, <1>7
  <2>3. /\ k[a] = ka /\ k[b] = kb /\ k[c] = kc /\ DOMAIN k = D
        /\ \A x \in D \ {a, b, c} : k[x] = m[x]
        /\ k = [x \in D |-> k[x]]
    BY <1>1, <1>2, <1>4, <1>7, <2>1, <2>2
  <2> HIDE DEF ka, kb, kc, grown, s
  <2>4. k \in [D -> HeaderOver(D)]
    BY <1>1, <1>3, <1>7, <2>3
  <2> QED BY <1>1, <1>7, <2>3, <2>4 DEF IsHeap, ka, kc, s, k
<1> QED BY <1>6, <1>7

LEMMA AbsorbKeeps ==
  ASSUME NEW m, NEW L, Linked(m, L), NEW a \in L, NEW b \in L, m[a].next = b, m[b].prev = a
  PROVE  AbsorbRight(m, L, a, b)
<1> DEFINE c == m[b].next
           k == Absorb(m, a, b)
           K == L \ {b}
<1>1. IsHeap(m) /\ Chain(m, L) /\ L \subseteq DOMAIN m /\ First \in L
  BY DEF Linked, Chain
<1>2. /\ a \in Nat /\ b \in Nat /\ m[a].size \in Nat /\ m[b].size \in Nat
      /\ a # NULL /\ b # NULL /\ NULL \notin L
  BY <1>1, Fields, HeapAssumption
<1>3. a < b /\ a + Header + m[a].size = b
  BY <1>1, <1>2, NextIsBehind
<1>4. b + Header + m[b].size = IF c = NULL THEN HeapEnd ELSE c
  BY <1>1 DEF Chain
<1>5. c \in L \union {NULL} /\ (c # NULL => b < c /\ c \in Nat /\ c <= HeapSize)
  <2>1. c \in L \union {NULL}
    BY <1>1 DEF Chain
  <2>2. c # NULL => b < c /\ c \in Nat
    BY <1>1, NextIsBehind
  <2>3. c # NULL => c <= HeapSize
    BY <1>1, <2>1, Fields
  <2> QED BY <2>1, <2>2, <2>3
<1>6. m[a].size + Header + m[b].size <= HeapSize
  BY <1>2, <1>3, <1>4, <1>5, HeapAssumption DEF HeapEnd
<1>7. c \notin {a, b} /\ a # b
  BY <1>2, <1>3, <1>5, HeapAssumption
<1>8. /\ DOMAIN k = DOMAIN m /\ IsHeap(k)
      /\ k[a].size = m[a].size + Header + m[b].size
      /\ k[a].next = c /\ k[a].prev = m[a].prev /\ k[a].free = m[a].free
      /\ \A x \in DOMAIN m \ {a, b, c} : k[x] = m[x]
      /\ c # NULL => k[c] = [m[c] EXCEPT !.prev = a]
  BY <1>1, <1>6, <1>7, AbsorbFields
<1>9. c # NULL => /\ k[c].size = m[c].size /\ k[c].next = m[c].next /\ k[c].free = m[c].free
                  /\ k[c].prev = a
  <2>1. c # NULL => m[c] \in HeaderOver(DOMAIN m)
    BY <1>1, <1>5 DEF IsHeap
  <2> QED BY <1>8, <2>1 DEF HeaderOver
<1> HIDE DEF k, c
<1>10. \A x \in L \ {a, b, c} : k[x] = m[x]
  BY <1>1, <1>8
<1>11. \A x \in L \ {a, b} : k[x].size = m[x].size /\ k[x].next = m[x].next
  BY <1>2, <1>9, <1>10
<1>12. \A x \in K : k[x].free = m[x].free
  BY <1>2, <1>8, <1>9, <1>10
<1>13. \A x \in L \ {b, c} : k[x].prev = m[x].prev
  BY <1>8, <1>10
<1>14. b # First /\ a \in K
  BY <1>2, <1>3 DEF First
<1>15. Chain(k, K)
  <2>1. K \subseteq DOMAIN k /\ First \in K
    BY <1>1, <1>8, <1>14
  <2>2. ASSUME NEW x \in K PROVE k[x].next \in K \union {NULL}
    <3>1. CASE x = a
      BY <1>5, <1>7, <1>8, <3>1 DEF c
    <3>2. CASE x # a
      <4>1. m[x].next # b
        BY <1>1, <1>2, <3>2, OnePredecessor
      <4> QED BY <1>1, <1>11, <3>2, <4>1 DEF Chain
    <3> QED BY <3>1, <3>2
  <2>3. ASSUME NEW x \in K
        PROVE x + Header + k[x].size = IF k[x].next = NULL THEN HeapEnd ELSE k[x].next
    <3>1. CASE x = a
      <4>1. a + Header + k[a].size = b + Header + m[b].size
        BY <1>2, <1>3, <1>8, HeapAssumption
      <4> QED BY <1>4, <1>8, <3>1, <4>1
    <3>2. CASE x # a
      BY <1>1, <1>11, <3>2 DEF Chain
    <3> QED BY <3>1, <3>2
  <2>4. ASSUME NEW x \in K \ {First} PROVE \E y \in K : k[y].next = x
    <3>1. PICK y \in L : m[y].next = x
      BY <1>1, <2>4 DEF Chain
    <3>2. CASE y = b
      BY <1>8, <1>14, <3>1, <3>2 DEF c
    <3>3. CASE y # b
      <4>1. y # a
        BY <3>1, <2>4
      <4> QED BY <1>11, <3>1, <3>3, <4>1
    <3> QED BY <3>2, <3>3
  <2> HIDE DEF K
  <2> QED BY <2>1, <2>2, <2>3, <2>4 DEF Chain
<1>16. Linked(k, K)
  <2>1. m[First].prev = NULL /\ \A x \in L \ {First} : m[x].prev # NULL
    BY DEF Linked
  <2>2. c # First
    BY <1>2, <1>5, HeapAssumption DEF First
  <2>3. k[First].prev = NULL
    BY <1>1, <1>13, <1>14, <2>1, <2>2
  <2>4. \A x \in K \ {First} : k[x].prev # NULL
    BY <1>2, <1>5, <1>9, <1>13, <2>1
  <2> QED BY <1>8, <1>15, <2>3, <2>4 DEF Linked
<1> QED BY <1>8, <1>9, <1>11, <1>12, <1>13, <1>16 DEF AbsorbRight, k, c

\* The prev of x is right.
Knows(m, L, x) == \A a \in L : m[a].next = x => m[x].prev = a

(***************************************************************************)
(* Freeing r: first it is free and takes in the block behind it, ...       *)
(***************************************************************************)
HalfRight(m, L, r, k, K) ==
  /\ Linked(k, K) /\ K \subseteq L /\ r \in K
  /\ k[r].free /\ k[r].prev = m[r].prev
  /\ \A x \in L \ {r} : ~m[x].free => x \in K
  /\ \A x \in K \ {r} : k[x].free = m[x].free /\ k[x].size = m[x].size /\ k[x].next = m[x].next
  /\ \A a, b \in K : k[a].next = b /\ k[b].free /\ b # r => k[b].prev = a /\ ~k[a].free
  /\ \A x \in K \ {r} : Knows(m, L, x) => Knows(k, K, x)
  /\ \A x \in K \ {r} : \A N : ~m[x].free /\ Firm(m, L, x, N \union {r}) => Firm(k, K, x, N \union {r})

LEMMA FreeNextKeeps ==
  ASSUME NEW m, NEW L, Sound(m, L), NEW r \in L, ~m[r].free, Knows(m, L, r)
  PROVE  \E K : HalfRight(m, L, r, MergeNext([m EXCEPT ![r].free = TRUE], r), K)
<1> DEFINE f == [m EXCEPT ![r].free = TRUE]
           b == m[r].next
           k == MergeNext(f, r)
<1>0. SUFFICES \E K : HalfRight(m, L, r, k, K)
  OBVIOUS
<1>1. /\ Linked(m, L) /\ IsHeap(m) /\ Chain(m, L) /\ L \subseteq DOMAIN m /\ First \in L
      /\ NULL \notin L
  BY HeapAssumption DEF Sound, Linked, Chain, IsHeap
<1>2. \A x, y \in L : m[x].next = y /\ m[y].free => m[y].prev = x /\ ~m[x].free
  BY DEF Sound
<1>3. /\ IsHeap(f) /\ DOMAIN f = DOMAIN m
      /\ f[r].size = m[r].size /\ f[r].next = b /\ f[r].prev = m[r].prev /\ f[r].free = TRUE
      /\ \A x \in DOMAIN m \ {r} : f[x] = m[x]
  <2>1. m[r] \in HeaderOver(DOMAIN m) /\ m \in [DOMAIN m -> HeaderOver(DOMAIN m)] /\ r \in DOMAIN m
    BY <1>1 DEF IsHeap
  <2>2. [m[r] EXCEPT !.free = TRUE] \in HeaderOver(DOMAIN m)
    BY <2>1 DEF HeaderOver
  <2>3. f = [m EXCEPT ![r] = [m[r] EXCEPT !.free = TRUE]]
    OBVIOUS
  <2> QED BY <1>1, <2>1, <2>2, <2>3 DEF IsHeap, HeaderOver
<1> HIDE DEF f
<1>4. \A x \in L : f[x].size = m[x].size /\ f[x].next = m[x].next /\ f[x].prev = m[x].prev
  BY <1>1, <1>3
<1>5. \A x \in L \ {r} : f[x].free = m[x].free
  BY <1>1, <1>3
<1>6. Chain(f, L)
  BY <1>1, <1>3, <1>4 DEF Chain
<1>7. Linked(f, L)
  BY <1>1, <1>3, <1>4, <1>6 DEF Linked
<1>8. b \in L \union {NULL} /\ b # r
  <2>1. b \in L \union {NULL}
    BY <1>1 DEF Chain
  <2>2. b # NULL => r < b /\ b \in Nat
    BY <1>1, NextIsBehind
  <2>3. r \in Nat
    BY <1>1, Fields
  <2> QED BY <1>1, <2>1, <2>2, <2>3
<1> HIDE DEF b
<1>9. CASE b = NULL \/ ~m[b].free
  <2>1. k = f
    BY <1>1, <1>3, <1>5, <1>8, <1>9 DEF MergeNext
  <2>2. ASSUME NEW x \in L, NEW y \in L, f[x].next = y, f[y].free, y # r
        PROVE  f[y].prev = x /\ ~f[x].free
    <3>1. m[x].next = y /\ m[y].free
      BY <1>4, <1>5, <2>2
    <3>2. x # r
      BY <1>1, <1>9, <3>1 DEF b
    <3> QED BY <1>2, <1>4, <1>5, <3>1, <3>2
  <2>3. ASSUME NEW x \in L \ {r}, Knows(m, L, x) PROVE Knows(f, L, x)
    BY <1>4, <2>3 DEF Knows
  <2>4. ASSUME NEW x \in L \ {r}, NEW N, Firm(m, L, x, N \union {r})
        PROVE  Firm(f, L, x, N \union {r})
    <3>1. SUFFICES ASSUME NEW a \in L, f[a].next = x
                   PROVE  f[x].prev = a /\ ~f[a].free /\ a \notin N \union {r}
      BY DEF Firm
    <3>2. m[x].prev = a /\ ~m[a].free /\ a \notin N \union {r}
      BY <1>4, <2>4, <3>1 DEF Firm
    <3> QED BY <1>4, <1>5, <3>2
  <2>5. HalfRight(m, L, r, f, L)
    BY <1>3, <1>4, <1>5, <1>7, <2>2, <2>3, <2>4 DEF HalfRight
  <2> QED BY <2>1, <2>5
<1>10. CASE b # NULL /\ m[b].free
  <2> DEFINE K == L \ {b}
             c == m[b].next
  <2>1. b \in L
    BY <1>8, <1>10
  <2>2. k = Absorb(f, r, b)
    BY <1>3, <1>5, <1>8, <1>10, <2>1 DEF MergeNext, Absorb
  <2>3. f[r].next = b /\ f[b].prev = r /\ f[b].next = c
    BY <1>2, <1>3, <1>4, <1>10, <2>1 DEF b
  <2>4. AbsorbRight(f, L, r, b)
    BY <1>7, <2>1, <2>3, AbsorbKeeps
  <2> HIDE DEF k, c
  <2>5. /\ Linked(k, K)
        /\ \A x \in K : k[x].free = f[x].free
        /\ \A x \in K \ {r} : k[x].size = f[x].size /\ k[x].next = f[x].next
        /\ \A x \in K \ {c} : k[x].prev = f[x].prev
        /\ k[r].next = c
        /\ c # NULL => k[c].prev = r
    BY <2>2, <2>3, <2>4 DEF AbsorbRight
  <2>6. c \in L \union {NULL} /\ (c # NULL => ~m[c].free)
    <3>1. c \in L \union {NULL}
      BY <1>1, <2>1 DEF Chain, c
    <3> QED BY <1>2, <1>10, <2>1, <3>1 DEF c
  <2>7. c # r
    <3>1. c # NULL => b < c /\ r < b /\ c \in Nat /\ b \in Nat
      BY <1>1, <1>10, <2>1, NextIsBehind DEF b, c
    <3>2. r \in Nat
      BY <1>1, Fields
    <3> QED BY <1>1, <3>1, <3>2
  <2>8. r \in K /\ K \subseteq L /\ \A x \in L \ {r} : ~m[x].free => x \in K
    BY <1>8, <1>10
  <2>9. \A x \in K \ {r} : k[x].free = m[x].free /\ k[x].size = m[x].size /\ k[x].next = m[x].next
    BY <1>4, <1>5, <2>5
  <2>10. k[r].free /\ k[r].prev = m[r].prev
    BY <1>3, <2>5, <2>7, <2>8
  <2>11. ASSUME NEW x \in K, NEW y \in K, k[x].next = y, k[y].free, y # r
         PROVE  k[y].prev = x /\ ~k[x].free
    <3>1. m[y].free
      BY <2>9, <2>11
    <3>2. y # c
      BY <1>1, <2>6, <3>1
    <3>3. x # r
      BY <2>5, <2>11, <3>2
    <3> QED BY <1>2, <1>4, <2>5, <2>9, <2>11, <3>1, <3>2, <3>3
  <2>12. ASSUME NEW x \in K \ {r}, Knows(m, L, x) PROVE Knows(k, K, x)
    <3>1. SUFFICES ASSUME NEW a \in K, k[a].next = x PROVE k[x].prev = a
      BY DEF Knows
    <3>2. CASE a = r
      BY <1>1, <2>5, <3>1, <3>2
    <3>3. CASE a # r
      <4>1. m[a].next = x /\ m[x].prev = a
        BY <2>9, <2>12, <3>1, <3>3 DEF Knows
      <4>2. x # c
        BY <1>1, <2>1, <3>1, <4>1, OnePredecessor DEF c
      <4> QED BY <1>4, <2>5, <4>1, <4>2
    <3> QED BY <3>2, <3>3
  <2>13. ASSUME NEW x \in K \ {r}, NEW N, Firm(m, L, x, N \union {r})
         PROVE  Firm(k, K, x, N \union {r})
    <3>1. SUFFICES ASSUME NEW a \in K, k[a].next = x
                   PROVE  k[x].prev = a /\ ~k[a].free /\ a \notin N \union {r}
      BY DEF Firm
    <3>2. x # c
      BY <1>10, <2>1, <2>13 DEF Firm, c
    <3>3. a # r
      BY <2>5, <3>1, <3>2
    <3>4. m[a].next = x /\ m[x].prev = a /\ ~m[a].free /\ a \notin N \union {r}
      BY <2>9, <2>13, <3>1, <3>3 DEF Firm
    <3> QED BY <1>4, <2>5, <2>9, <3>2, <3>3, <3>4
  <2> HIDE DEF K
  <2>14. HalfRight(m, L, r, k, K)
    BY <2>5, <2>8, <2>9, <2>10, <2>11, <2>12, <2>13 DEF HalfRight
  <2> QED BY <2>14
<1> QED BY <1>9, <1>10

(***************************************************************************)
(* ... then the block in front of it, if it is free, takes it in.          *)
(***************************************************************************)
FreedRight(m, L, r, k, K) ==
  /\ Sound(k, K)
  /\ \A x \in L \ {r} : ~m[x].free => x \in K /\ ~k[x].free /\ k[x].size = m[x].size
  /\ \A x \in L \ {r} : ~m[x].free /\ Knows(m, L, x) => Knows(k, K, x)
  /\ \A x \in L \ {r} : \A N : ~m[x].free /\ Firm(m, L, x, N \union {r}) => Firm(k, K, x, N)

LEMMA FreePrevKeeps ==
  ASSUME NEW m, NEW L, Sound(m, L), NEW r \in L, ~m[r].free, Knows(m, L, r),
         NEW f, NEW F, HalfRight(m, L, r, f, F)
  PROVE  \E K : FreedRight(m, L, r, MergePrev(f, r, m[r].prev), K)
<1> DEFINE p == m[r].prev
           k == MergePrev(f, r, p)
<1>0. SUFFICES \E K : FreedRight(m, L, r, k, K)
  OBVIOUS
<1>1. /\ Linked(m, L) /\ IsHeap(m) /\ Chain(m, L) /\ NULL \notin L
      /\ Linked(f, F) /\ IsHeap(f) /\ Chain(f, F) /\ F \subseteq L /\ r \in F /\ First \in F
  BY HeapAssumption DEF Sound, Linked, Chain, IsHeap, HalfRight
<1>2. /\ f[r].free /\ f[r].prev = p
      /\ \A x \in L \ {r} : ~m[x].free => x \in F
      /\ \A x \in F \ {r} : f[x].free = m[x].free /\ f[x].size = m[x].size /\ f[x].next = m[x].next
  BY DEF HalfRight
<1>3. \A a, b \in F : f[a].next = b /\ f[b].free /\ b # r => f[b].prev = a /\ ~f[a].free
  BY DEF HalfRight
<1>4. \A x \in F \ {r} : Knows(m, L, x) => Knows(f, F, x)
  BY DEF HalfRight
<1>5. \A x \in F \ {r} : \A N : ~m[x].free /\ Firm(m, L, x, N \union {r}) => Firm(f, F, x, N \union {r})
  BY DEF HalfRight
<1>6. f[r].next # r
  BY <1>1, NextIsBehind, Fields DEF Chain
\* What is in front of r.
<1>7. ASSUME NEW a \in F, f[a].next = r PROVE p = a
  <2>1. a # r
    BY <1>6, <1>7
  <2>2. m[a].next = r /\ a \in L
    BY <1>1, <1>2, <1>7, <2>1
  <2> QED BY <2>2 DEF Knows
<1>8. p # NULL => p \in F /\ f[p].next = r
  <2>1. p # NULL => r # First
    BY <1>1 DEF Linked
  <2>2. p # NULL => \E a \in F : f[a].next = r
    BY <1>1, <2>1 DEF Chain
  <2> QED BY <1>7, <2>2
<1> HIDE DEF p
<1>9. CASE p = NULL \/ ~f[p].free
  <2>1. k = f
    BY <1>9 DEF MergePrev
  <2>2. Sound(f, F)
    <3>1. ASSUME NEW a \in F, NEW b \in F, f[a].next = b, f[b].free
          PROVE  f[b].prev = a /\ ~f[a].free
      <4>1. CASE b = r
        <5>1. p = a
          BY <1>7, <3>1, <4>1
        <5> QED BY <1>1, <1>2, <1>9, <4>1, <5>1
      <4>2. CASE b # r
        BY <1>3, <3>1, <4>2
      <4> QED BY <4>1, <4>2
    <3> QED BY <1>1, <3>1 DEF Sound
  <2>3. ASSUME NEW x \in F \ {r}, NEW N, Firm(f, F, x, N \union {r}) PROVE Firm(f, F, x, N)
    BY <2>3 DEF Firm
  <2>4. FreedRight(m, L, r, f, F)
    BY <1>2, <1>4, <1>5, <2>2, <2>3 DEF FreedRight
  <2> QED BY <2>1, <2>4
<1>10. CASE p # NULL /\ f[p].free
  <2> DEFINE K == F \ {r}
             c == f[r].next
  <2>1. p \in F /\ f[p].next = r /\ p # r
    BY <1>6, <1>8, <1>10
  <2>2. k = Absorb(f, p, r)
    BY <1>10 DEF MergePrev, Absorb
  <2>3. AbsorbRight(f, F, p, r)
    BY <1>1, <1>2, <2>1, AbsorbKeeps
  <2> HIDE DEF k, c
  <2>4. /\ Linked(k, K)
        /\ \A x \in K : k[x].free = f[x].free
        /\ \A x \in K \ {p} : k[x].size = f[x].size /\ k[x].next = f[x].next
        /\ \A x \in K \ {c} : k[x].prev = f[x].prev
        /\ k[p].next = c
        /\ c # NULL => k[c].prev = p
    BY <2>2, <2>3 DEF AbsorbRight, c
  <2>5. c \in F \union {NULL} /\ c # r /\ (c # NULL => ~f[c].free)
    <3>1. c \in F \union {NULL} /\ c # r
      BY <1>1, <1>6 DEF Chain, c
    <3>2. c # NULL => ~f[c].free
      BY <1>1, <1>2, <1>3, <3>1 DEF c
    <3> QED BY <3>1, <3>2
  <2>6. ASSUME NEW a \in K, f[a].next = c PROVE c = NULL
    BY <1>1, <2>6, OnePredecessor DEF c
  <2>7. Sound(k, K)
    <3>1. ASSUME NEW a \in K, NEW b \in K, k[a].next = b, k[b].free
          PROVE  k[b].prev = a /\ ~k[a].free
      <4>1. b # c /\ f[b].free
        BY <1>1, <2>4, <2>5, <3>1
      <4>2. a # p
        BY <2>4, <3>1, <4>1
      <4>3. f[a].next = b
        BY <2>4, <3>1, <4>2
      <4> QED BY <1>3, <2>4, <3>1, <4>1, <4>3
    <3> QED BY <2>4, <3>1 DEF Sound
  <2>8. ASSUME NEW x \in L \ {r}, ~m[x].free PROVE x \in K /\ ~k[x].free /\ k[x].size = m[x].size
    BY <1>2, <1>10, <2>4, <2>8
  <2>9. ASSUME NEW x \in K, Knows(f, F, x) PROVE Knows(k, K, x)
    <3>1. SUFFICES ASSUME NEW a \in K, k[a].next = x PROVE k[x].prev = a
      BY DEF Knows
    <3>2. CASE a = p
      BY <1>1, <2>4, <3>1, <3>2
    <3>3. CASE a # p
      <4>1. f[a].next = x /\ f[x].prev = a
        BY <2>4, <2>9, <3>1, <3>3 DEF Knows
      <4>2. x # c
        BY <1>1, <2>6, <4>1
      <4> QED BY <2>4, <4>1, <4>2
    <3> QED BY <3>2, <3>3
  <2>10. ASSUME NEW x \in K, NEW N, Firm(f, F, x, N \union {r}) PROVE Firm(k, K, x, N)
    <3>1. SUFFICES ASSUME NEW a \in K, k[a].next = x PROVE k[x].prev = a /\ ~k[a].free /\ a \notin N
      BY DEF Firm
    <3>2. x # c
      BY <1>1, <2>10 DEF Firm, c
    <3>3. a # p
      BY <2>4, <3>1, <3>2
    <3>4. f[a].next = x /\ f[x].prev = a /\ ~f[a].free /\ a \notin N
      BY <2>4, <2>10, <3>1, <3>3 DEF Firm
    <3> QED BY <2>4, <3>2, <3>4
  <2>11. FreedRight(m, L, r, k, K)
    <3>1. K = F \ {r}
      OBVIOUS
    <3> HIDE DEF K
    <3> QED BY <1>2, <1>4, <1>5, <2>7, <2>8, <2>9, <2>10, <3>1 DEF FreedRight
  <2> QED BY <2>11
<1> QED BY <1>9, <1>10

LEMMA MergeKeeps ==
  ASSUME NEW m, NEW L, Sound(m, L), NEW r \in L, ~m[r].free, Knows(m, L, r)
  PROVE  \E K : FreedRight(m, L, r, Merge([m EXCEPT ![r].free = TRUE], r), K)
<1> DEFINE f == [m EXCEPT ![r].free = TRUE]
<1>1. PICK F : HalfRight(m, L, r, MergeNext(f, r), F)
  BY FreeNextKeeps
<1>2. \E K : FreedRight(m, L, r, MergePrev(MergeNext(f, r), r, m[r].prev), K)
  <2> HIDE DEF f
  <2> QED BY <1>1, FreePrevKeeps
<1>3. f[r].prev = m[r].prev
  OBVIOUS
<1> QED BY <1>2, <1>3 DEF Merge


-----------------------------------------------------------------------------
(***************************************************************************)
(* The same for the callers, who know a block by the address of its first  *)
(* byte: it is theirs and has that many bytes; it can be merged with the   *)
(* block in front of it; it will not be, since that one stays in use until *)
(* one of N is freed.                                                      *)
(***************************************************************************)
Fits(m, L, start, size) ==
  \E b \in L : start = b + Header /\ ~m[b].free /\ size <= m[b].size

Mergeable(m, L, start) == \E b \in L : start = b + Header /\ ~m[b].free /\ Knows(m, L, b)

Blocks(N) == {a \in Nat : a + Header \in N}

Steady(m, L, start, N) ==
  \E b \in L : start = b + Header /\ ~m[b].free /\ Firm(m, L, b, Blocks(N))

LEMMA SteadyMergeable ==
  ASSUME NEW m, NEW L, NEW start, NEW N, Steady(m, L, start, N)
  PROVE  Mergeable(m, L, start)
BY DEF Steady, Mergeable, Firm, Knows

LEMMA SteadyFewer ==
  ASSUME NEW m, NEW L, NEW start, NEW N, Steady(m, L, start, N), NEW O, O \subseteq N
  PROVE  Steady(m, L, start, O)
BY DEF Steady, Firm, Blocks

LEMMA SteadyAnd ==
  ASSUME NEW m, NEW L, NEW start, NEW N, Steady(m, L, start, N), NEW O, O \intersect Nat = {}
  PROVE  Steady(m, L, start, N \union O)
<1>1. Blocks(N \union O) = Blocks(N)
  BY HeapAssumption DEF Blocks
<1> QED
  BY <1>1 DEF Steady

LEMMA SoundIn == ASSUME NEW m, NEW L, Sound(m, L) PROVE IsHeap(m) /\ Chain(m, L) /\ L \subseteq Nat
BY HeapAssumption DEF Sound, Linked, Chain, IsHeap

\* allocate_memory, when it finds a block.
AllocatedRight(m, L, size, t, K) ==
  LET start == FirstFit(m, size) + Header
  IN /\ Sound(t, K)
     /\ \A x, n : Fits(m, L, x, n) => Fits(t, K, x, n) /\ x # start
     /\ \A x, N : Steady(m, L, x, N) => Steady(t, K, x, N \union {start})
     /\ start \in Nat /\ Steady(t, K, start, {}) /\ Fits(t, K, start, size)

LEMMA AllocatedKeeps ==
  ASSUME NEW m, NEW L, Sound(m, L), NEW size \in Nat, FirstFit(m, size) # NULL
  PROVE  \E K : AllocatedRight(m, L, size, Allocated(m, size), K)
<1> DEFINE r == FirstFit(m, size)
           t == Taken(m, r, size)
           K == NewList(m, L, r, size)
           start == r + Header
<1>1. Allocated(m, size) = t
  BY DEF Allocated, Taken
<1>2. IsHeap(m) /\ Chain(m, L) /\ L \subseteq Nat
  BY SoundIn
<1>3. r \in L /\ m[r].free /\ m[r].size >= size
  BY <1>2, FirstFitFits
<1>4. m[r].size \in Nat /\ r \in Nat
  BY <1>2, <1>3, Fields DEF Chain
<1>5. size <= m[r].size
  BY <1>3, <1>4
<1>6. TakenRight(m, L, r, size)
  BY <1>3, <1>5, TakenKeeps
<1>7. /\ Sound(t, K) /\ L \subseteq K
      /\ ~t[r].free /\ size <= t[r].size
      /\ \A b \in L \ {r} : t[b] = m[b]
      /\ \A x \in L \ {r} : \A N : Firm(m, L, x, N) => Firm(t, K, x, N \union {r})
      /\ Firm(t, K, r, {})
  BY <1>6 DEF TakenRight
<1>8. start \in Nat
  BY <1>4, HeapAssumption
<1> HIDE DEF t, K, r
<1>9. \A x, n : Fits(m, L, x, n) => Fits(t, K, x, n) /\ x # start
  <2> SUFFICES ASSUME NEW x, NEW n, Fits(m, L, x, n) PROVE Fits(t, K, x, n) /\ x # start
    OBVIOUS
  <2>1. PICK b \in L : x = b + Header /\ ~m[b].free /\ n <= m[b].size
    BY DEF Fits
  <2>2. b # r
    BY <1>3, <2>1
  <2>3. t[b] = m[b] /\ b \in K
    BY <1>7, <2>2
  <2>4. x # start
    BY <1>2, <1>4, <2>1, <2>2, HeapAssumption
  <2> QED
    BY <2>1, <2>3, <2>4 DEF Fits
<1>10. \A x, N : Steady(m, L, x, N) => Steady(t, K, x, N \union {start})
  <2> SUFFICES ASSUME NEW x, NEW N, Steady(m, L, x, N) PROVE Steady(t, K, x, N \union {start})
    OBVIOUS
  <2>1. PICK b \in L : x = b + Header /\ ~m[b].free /\ Firm(m, L, b, Blocks(N))
    BY DEF Steady
  <2>2. b # r
    BY <1>3, <2>1
  <2>3. t[b] = m[b] /\ b \in K /\ Firm(t, K, b, Blocks(N) \union {r})
    BY <1>7, <2>1, <2>2
  <2>4. Blocks(N \union {start}) = Blocks(N) \union {r}
    BY <1>4, HeapAssumption DEF Blocks
  <2> QED
    BY <2>1, <2>3, <2>4 DEF Steady
<1>11. Steady(t, K, start, {})
  <2>1. Blocks({}) = {}
    BY DEF Blocks
  <2> QED
    BY <1>3, <1>7, <2>1 DEF Steady
<1>12. Fits(t, K, start, size)
  BY <1>3, <1>7 DEF Fits
<1> QED
  BY <1>1, <1>7, <1>8, <1>9, <1>10, <1>11, <1>12 DEF AllocatedRight, r

\* free_memory of a block that can be merged.
FreedKept(m, L, start, k, K) ==
  /\ Sound(k, K)
  /\ \A x, n : Fits(m, L, x, n) /\ x # start => Fits(k, K, x, n)
  /\ \A x : Mergeable(m, L, x) /\ x # start => Mergeable(k, K, x)
  /\ \A x, N : Steady(m, L, x, N \union {start}) /\ x # start => Steady(k, K, x, N)

LEMMA FreedKeeps ==
  ASSUME NEW m, NEW L, Sound(m, L), NEW start, Mergeable(m, L, start)
  PROVE  \E K : FreedKept(m, L, start, Freed(m, start), K)
<1> DEFINE S == {a \in DOMAIN m : a + Header = start}
           k == Freed(m, start)
<1>1. IsHeap(m) /\ Chain(m, L) /\ L \subseteq Nat
  BY SoundIn
<1>2. PICK r \in L : start = r + Header /\ ~m[r].free /\ Knows(m, L, r)
  BY DEF Mergeable
<1>3. S = {r}
  BY <1>1, <1>2, HeapAssumption DEF IsHeap, Chain
<1>4. NULL \notin S
  BY <1>1, <1>2, <1>3, HeapAssumption
<1>5. FirstIn(m, S) # NULL
  <2> SUFFICES ASSUME FirstIn(m, S) = NULL PROVE FALSE
    OBVIOUS
  <2>1. L \intersect S = {}
    BY <1>1, <1>4, FirstInMisses
  <2> QED
    BY <1>2, <1>3, <2>1
<1>6. FirstIn(m, S) = r
  BY <1>1, <1>3, <1>4, <1>5, FirstInFinds
<1>7. k = Merge([m EXCEPT ![r].free = TRUE], r)
  BY <1>1, <1>2, <1>6, HeapAssumption DEF Freed
<1>8. PICK K : FreedRight(m, L, r, k, K)
  BY <1>2, <1>7, MergeKeeps
<1>9. \A x \in L : x + Header # start => x # r
  BY <1>2
<1> HIDE DEF k
<1>10. \A x, n : Fits(m, L, x, n) /\ x # start => Fits(k, K, x, n)
  BY <1>8, <1>9 DEF Fits, FreedRight
<1>11. \A x : Mergeable(m, L, x) /\ x # start => Mergeable(k, K, x)
  BY <1>8, <1>9 DEF Mergeable, FreedRight
<1>12. \A x, N : Steady(m, L, x, N \union {start}) /\ x # start => Steady(k, K, x, N)
  <2> SUFFICES ASSUME NEW x, NEW N, Steady(m, L, x, N \union {start}), x # start
               PROVE  Steady(k, K, x, N)
    OBVIOUS
  <2>1. PICK b \in L : x = b + Header /\ ~m[b].free /\ Firm(m, L, b, Blocks(N \union {start}))
    BY DEF Steady
  <2>2. Blocks(N \union {start}) = Blocks(N) \union {r}
    BY <1>1, <1>2, HeapAssumption DEF Blocks
  <2>3. b \in L \ {r} /\ Firm(m, L, b, Blocks(N) \union {r})
    BY <1>9, <2>1, <2>2
  <2> QED
    BY <1>8, <2>1, <2>3 DEF Steady, FreedRight
<1>13. Sound(k, K)
  BY <1>8 DEF FreedRight
<1> QED
  BY <1>10, <1>11, <1>12, <1>13 DEF FreedKept, k


-----------------------------------------------------------------------------
(***************************************************************************)
(* What the clients own.  The block of the menu, the only one that may be  *)
(* freed at any time, is behind a block that stays in use.                 *)
(***************************************************************************)
Holds(m, L, H) ==
  \A h \in H : /\ h.size \in Nat /\ Fits(m, L, h.start, h.size)
               /\ \A g \in H : g.start = h.start => g = h

\* message: the one of setAlarm; U: what the menu has shown; A: what the alarms own.
Owned(m, L, message, U, A) ==
  /\ message # NULL => Steady(m, L, message, {})
  /\ \A u, v \in U : u = v
  /\ \A u \in U : Steady(m, L, u, {message}) /\ u # message
  /\ \A s \in A : Fits(m, L, s, 0) /\ s # message /\ s \notin U

Right(m, L, H, message, U, A) == Sound(m, L) /\ Holds(m, L, H) /\ Owned(m, L, message, U, A)

LEMMA SteadyFits ==
  ASSUME NEW m, NEW L, Sound(m, L), NEW start, NEW N, Steady(m, L, start, N)
  PROVE  Fits(m, L, start, 0) /\ start \in Nat /\ start # NULL
<1>1. IsHeap(m) /\ Chain(m, L) /\ L \subseteq Nat
  BY SoundIn
<1>2. PICK b \in L : start = b + Header /\ ~m[b].free
  BY DEF Steady
<1>3. b \in Nat /\ m[b].size \in Nat
  BY <1>1, Fields DEF Chain
<1> QED
  BY <1>2, <1>3, HeapAssumption DEF Fits

LEMMA HoldsNatural ==
  ASSUME NEW m, NEW L, Sound(m, L), NEW start, NEW n, Fits(m, L, start, n)
  PROVE  start \in Nat /\ start # NULL
BY SoundIn, HeapAssumption DEF Fits

\* Memory that is taken leaves to everybody what they own.
Grown(m, L, t, K) ==
  /\ Sound(t, K)
  /\ \A x, n : Fits(m, L, x, n) => Fits(t, K, x, n)
  /\ \A x, N : Steady(m, L, x, N) => Steady(t, K, x, N)

LEMMA AllocatedGrows ==
  ASSUME NEW m, NEW L, NEW size, NEW t, NEW K, AllocatedRight(m, L, size, t, K)
  PROVE  Grown(m, L, t, K)
<1>1. ASSUME NEW x, NEW N, Steady(m, L, x, N)
      PROVE  Steady(t, K, x, N)
  <2>1. Steady(t, K, x, N \union {FirstFit(m, size) + Header})
    BY <1>1 DEF AllocatedRight
  <2> QED
    BY <2>1, SteadyFewer
<1> QED
  BY <1>1 DEF AllocatedRight, Grown

LEMMA GrownKeeps ==
  ASSUME NEW m, NEW L, NEW t, NEW K, Grown(m, L, t, K), NEW H, NEW message, NEW U, NEW A,
         Right(m, L, H, message, U, A)
  PROVE  Right(t, K, H, message, U, A)
BY DEF Right, Holds, Owned, Grown

LEMMA HandedKeeps ==
  ASSUME NEW m, NEW L, NEW size \in Nat, NEW t, NEW K, AllocatedRight(m, L, size, t, K),
         NEW H, NEW message, NEW U, NEW A, Right(m, L, H, message, U, A)
  PROVE  Right(t, K, H \union {Handed(m, size)}, message, U, A)
<1> DEFINE h0 == Handed(m, size)
<1>1. Right(t, K, H, message, U, A)
  BY AllocatedGrows, GrownKeeps
<1>2. \A h \in H : h.start # FirstFit(m, size) + Header
  BY DEF Right, Holds, AllocatedRight
<1>3. h0.start = FirstFit(m, size) + Header /\ h0.size = size
  BY DEF Handed
<1>4. Fits(t, K, h0.start, h0.size)
  BY <1>3 DEF AllocatedRight
<1> HIDE DEF h0
<1>5. Holds(t, K, H \union {h0})
  BY <1>1, <1>2, <1>3, <1>4 DEF Right, Holds
<1>6. Right(t, K, H \union {h0}, message, U, A)
  BY <1>1, <1>5 DEF Right
<1> QED
  BY <1>6 DEF h0

\* pcb_insert: a block of LeakSize, or none.
LEMMA LeakKeeps ==
  ASSUME NEW m, NEW L, NEW H, NEW message, NEW U, NEW A, Right(m, L, H, message, U, A)
  PROVE  \E K : /\ Right(Allocated(m, LeakSize), K, H \union Leaks(m), message, U, A)
                /\ Grown(m, L, Allocated(m, LeakSize), K)
                /\ \A h \in Leaks(m) : \A n : ~Fits(m, L, h.start, n)
<1> DEFINE t == Allocated(m, LeakSize)
<1>1. CASE FirstFit(m, LeakSize) = NULL
  <2>1. t = m /\ H \union Leaks(m) = H /\ Leaks(m) = {}
    BY <1>1 DEF Allocated, Leaks
  <2>2. Grown(m, L, t, L)
    BY <2>1 DEF Right, Grown
  <2> QED
    BY <2>1, <2>2
<1>2. CASE FirstFit(m, LeakSize) # NULL
  <2>1. LeakSize \in Nat /\ Sound(m, L)
    BY ClientAssumption DEF Right
  <2>2. PICK K : AllocatedRight(m, L, LeakSize, t, K)
    BY <1>2, <2>1, AllocatedKeeps
  <2>3. Leaks(m) = {Handed(m, LeakSize)}
    BY <1>2 DEF Leaks
  <2>4. Right(t, K, H \union Leaks(m), message, U, A)
    BY <2>1, <2>2, <2>3, HandedKeeps
  <2>5. \A n : ~Fits(m, L, Handed(m, LeakSize).start, n)
    BY <2>2 DEF AllocatedRight, Handed
  <2>6. Grown(m, L, t, K)
    BY <2>2, AllocatedGrows
  <2> QED
    BY <2>3, <2>4, <2>5, <2>6
<1> QED
  BY <1>1, <1>2

LEMMA ReturnedHolds ==
  ASSUME NEW m, NEW L, NEW start, NEW k, NEW K, FreedKept(m, L, start, k, K),
         NEW H, Holds(m, L, H)
  PROVE  Holds(k, K, {h \in H : h.start # start})
BY DEF Holds, FreedKept

\* The message is freed: the menu's block is not behind it any more.
LEMMA MessageFreed ==
  ASSUME NEW m, NEW L, NEW H, NEW message, NEW U, NEW A, Right(m, L, H, message, U, A),
         message # NULL
  PROVE  \E K : /\ Right(Freed(m, message), K, {h \in H : h.start # message}, NULL, U, A)
                /\ FreedKept(m, L, message, Freed(m, message), K)
<1> DEFINE k == Freed(m, message)
<1>1. Sound(m, L) /\ Holds(m, L, H) /\ Owned(m, L, message, U, A)
  BY DEF Right
<1>2. Mergeable(m, L, message)
  BY <1>1, SteadyMergeable DEF Owned
<1>3. PICK K : FreedKept(m, L, message, k, K)
  BY <1>1, <1>2, FreedKeeps
<1> HIDE DEF k
<1>4. Sound(k, K) /\ Holds(k, K, {h \in H : h.start # message})
  BY <1>1, <1>3, ReturnedHolds DEF FreedKept
<1>5. ASSUME NEW u \in U
      PROVE  Steady(k, K, u, {NULL}) /\ u # NULL
  <2>1. Steady(m, L, u, {} \union {message}) /\ u # message
    BY <1>1 DEF Owned
  <2>2. Steady(k, K, u, {})
    BY <1>3, <2>1 DEF FreedKept
  <2>3. Steady(k, K, u, {} \union {NULL})
    BY <2>2, SteadyAnd, HeapAssumption
  <2>4. u # NULL
    BY <1>1, <2>1, SteadyFits
  <2> QED
    BY <2>3, <2>4
<1>6. \A s \in A : Fits(k, K, s, 0) /\ s # NULL /\ s \notin U
  <2>1. \A s \in A : Fits(m, L, s, 0) /\ s # message /\ s \notin U
    BY <1>1 DEF Owned
  <2>2. \A s \in A : s # NULL
    BY <1>1, <2>1, HoldsNatural
  <2> QED
    BY <1>3, <2>1, <2>2 DEF FreedKept
<1>7. Owned(k, K, NULL, U, A)
  BY <1>1, <1>5, <1>6 DEF Owned
<1> QED
  BY <1>3, <1>4, <1>7 DEF Right, k


-----------------------------------------------------------------------------
(***************************************************************************)
(* The inductive invariant: the heap is sound on some list, and everybody  *)
(* owns what they should.                                                  *)
(***************************************************************************)
AlarmOwns(alarms) ==
  UNION {{alarms[i].message, alarms[i].block} : i \in {j \in Slots : alarms[j] # NULL}}

ClientsType ==
  /\ asking \in [message : Nat \union {NULL}, queued : BOOLEAN]
  /\ alarms_glob \in [Slots -> [message : Nat, block : Nat] \union {NULL}]

RightNow(L) == Right(mcb, L, held, asking.message, users, AlarmOwns(alarms_glob))

HeapInv == ClientsType /\ \E L : RightNow(L)

LEMMA HeapStarts == BootInit => HeapInv
<1> SUFFICES ASSUME MpxHeapInit PROVE HeapInv
  BY DEF BootInit
<1> DEFINE L == {First}
<1>1. /\ mcb = InitializeHeap /\ held = {} /\ asking = NotAsking /\ users = {}
      /\ alarms_glob = [i \in Slots |-> NULL]
  BY DEF MpxHeapInit, HeapInit
<1>2. DOMAIN mcb = {0} /\ mcb[0] = [size |-> HeapSize, next |-> NULL, prev |-> NULL, free |-> TRUE]
  BY <1>1 DEF InitializeHeap, First
<1>3. IsHeap(mcb)
  <2>1. mcb[0] \in HeaderOver({0})
    BY <1>2, HeapAssumption DEF HeaderOver
  <2>2. mcb \in [{0} -> HeaderOver({0})]
    BY <1>1, <1>2, <2>1 DEF InitializeHeap, First
  <2> QED
    BY <1>2, <2>2, HeapAssumption DEF IsHeap
<1>4. Chain(mcb, L)
  BY <1>2, HeapAssumption DEF Chain, First, HeapEnd
<1>5. Sound(mcb, L)
  BY <1>2, <1>3, <1>4, HeapAssumption DEF Sound, Linked, First
<1>6. AlarmOwns(alarms_glob) = {}
  BY <1>1 DEF AlarmOwns
<1>7. asking.message = NULL /\ ClientsType
  BY <1>1 DEF NotAsking, ClientsType
<1>8. RightNow(L)
  BY <1>1, <1>5, <1>6, <1>7 DEF RightNow, Right, Holds, Owned
<1> QED
  BY <1>7, <1>8 DEF HeapInv

LEMMA PcbSetupKeeps == ASSUME HeapInv, PcbSetup PROVE HeapInv'
<1> DEFINE m1 == Allocated(mcb, PcbSizes[1])
           m2 == Allocated(m1, PcbSizes[2])
           m3 == Allocated(m2, PcbSizes[3])
           h1 == Handed(mcb, PcbSizes[1])
           h2 == Handed(m1, PcbSizes[2])
           h3 == Handed(m2, PcbSizes[3])
           msg == asking.message
           A == AlarmOwns(alarms_glob)
<1>1. /\ FirstFit(mcb, PcbSizes[1]) # NULL /\ FirstFit(m1, PcbSizes[2]) # NULL
      /\ FirstFit(m2, PcbSizes[3]) # NULL
      /\ mcb' = m3 /\ held' = held \union {h1, h2, h3}
      /\ UNCHANGED <<asking, alarms_glob, users>>
  BY DEF PcbSetup
<1>2. PICK L : Right(mcb, L, held, msg, users, A)
  BY DEF HeapInv, RightNow
<1>3. PcbSizes[1] \in Nat /\ PcbSizes[2] \in Nat /\ PcbSizes[3] \in Nat
  BY ClientAssumption
<1>4. PICK K1 : AllocatedRight(mcb, L, PcbSizes[1], m1, K1)
  BY <1>1, <1>2, <1>3, AllocatedKeeps DEF Right
<1>5. Right(m1, K1, held \union {h1}, msg, users, A)
  BY <1>2, <1>3, <1>4, HandedKeeps
<1>6. PICK K2 : AllocatedRight(m1, K1, PcbSizes[2], m2, K2)
  BY <1>1, <1>3, <1>5, AllocatedKeeps DEF Right
<1>7. Right(m2, K2, (held \union {h1}) \union {h2}, msg, users, A)
  BY <1>3, <1>5, <1>6, HandedKeeps
<1>8. PICK K3 : AllocatedRight(m2, K2, PcbSizes[3], m3, K3)
  BY <1>1, <1>3, <1>7, AllocatedKeeps DEF Right
<1>9. Right(m3, K3, ((held \union {h1}) \union {h2}) \union {h3}, msg, users, A)
  BY <1>3, <1>7, <1>8, HandedKeeps
<1> HIDE DEF m1, m2, m3, h1, h2, h3
<1>10. ((held \union {h1}) \union {h2}) \union {h3} = held'
  BY <1>1
<1>11. RightNow(K3)'
  BY <1>1, <1>9, <1>10 DEF RightNow
<1> QED
  BY <1>1, <1>11 DEF HeapInv, ClientsType

LEMMA PcbInsertBlockedKeeps == ASSUME HeapInv, PcbInsertBlocked PROVE HeapInv'
<1>1. PICK L : Right(mcb, L, held, asking.message, users, AlarmOwns(alarms_glob))
  BY DEF HeapInv, RightNow
<1>2. PICK K : Right(Allocated(mcb, LeakSize), K, held \union Leaks(mcb), asking.message, users,
                     AlarmOwns(alarms_glob))
  BY <1>1, LeakKeeps
<1>3. asking'.message = asking.message /\ ClientsType'
  BY DEF PcbInsertBlocked, ClientsType, HeapInv
<1>4. RightNow(K)'
  BY <1>2, <1>3 DEF PcbInsertBlocked, RightNow
<1> QED
  BY <1>3, <1>4 DEF HeapInv

LEMMA MemoryAllocKeeps ==
  ASSUME MaxUserBlocks <= 1, HeapInv, NEW size \in UserSizes, MemoryAlloc(size)
  PROVE  HeapInv'
<1> DEFINE t == Allocated(mcb, size)
           H == held \union {Handed(mcb, size)}
           start == FirstFit(mcb, size) + Header
           A == AlarmOwns(alarms_glob)
<1>1. PICK L : Right(mcb, L, held, asking.message, users, A)
  BY DEF HeapInv, RightNow
<1>2. /\ asking.message = NULL /\ Cardinality(users) < MaxUserBlocks
      /\ FirstFit(mcb, size) # NULL /\ mcb' = t /\ held' = H
      /\ users' = users \union {start} /\ UNCHANGED <<asking, alarms_glob>>
  BY DEF MemoryAlloc, AllocateMemory, Handed
<1>3. users = {}
  <2>1. \A u, v \in users : u = v
    BY <1>1 DEF Right, Owned
  <2>2. IsFiniteSet(users)
    <3>1. ASSUME NEW u \in users PROVE IsFiniteSet(users)
      <4>1. users = {u}
        BY <2>1
      <4> QED
        BY <4>1, FS_Singleton
    <3>2. CASE users = {}
      BY <3>2, FS_EmptySet
    <3> QED
      BY <3>1, <3>2
  <2>3. Cardinality(users) = 0
    BY <1>2, <2>2, FS_CardinalityType, ClientAssumption
  <2> QED
    BY <2>2, <2>3, FS_EmptySet
<1>4. size \in Nat
  BY ClientAssumption
<1>5. PICK K : AllocatedRight(mcb, L, size, t, K)
  BY <1>1, <1>2, <1>4, AllocatedKeeps DEF Right
<1>6. Right(t, K, H, NULL, users, A)
  BY <1>1, <1>2, <1>4, <1>5, HandedKeeps
<1>7. start \in Nat /\ Steady(t, K, start, {}) /\ (\A x, n : Fits(mcb, L, x, n) => x # start)
  BY <1>5 DEF AllocatedRight
<1>8. Steady(t, K, start, {} \union {NULL})
  BY <1>7, SteadyAnd, HeapAssumption
<1> HIDE DEF t, H, start, A
<1>9. \A s \in A : Fits(mcb, L, s, 0)
  BY <1>1 DEF Right, Owned
<1>10. Owned(t, K, NULL, {start}, A)
  BY <1>6, <1>7, <1>8, <1>9, HeapAssumption DEF Owned, Right
<1>11. users' = {start}
  BY <1>2, <1>3
<1>12. RightNow(K)'
  BY <1>2, <1>6, <1>10, <1>11 DEF Right, RightNow, A
<1> QED
  BY <1>2, <1>12 DEF HeapInv, ClientsType

LEMMA MemoryFreeKeeps == ASSUME HeapInv, NEW start \in users, MemoryFree(start) PROVE HeapInv'
<1> DEFINE k == Freed(mcb, start)
           H == {h \in held : h.start # start}
           A == AlarmOwns(alarms_glob)
<1>1. PICK L : Right(mcb, L, held, asking.message, users, A)
  BY DEF HeapInv, RightNow
<1>2. /\ asking.message = NULL /\ mcb' = k /\ held' = H /\ users' = users \ {start}
      /\ UNCHANGED <<asking, alarms_glob>>
  BY DEF MemoryFree
<1>3. Sound(mcb, L) /\ Holds(mcb, L, held) /\ Owned(mcb, L, NULL, users, A)
  BY <1>1, <1>2 DEF Right
<1>4. Mergeable(mcb, L, start)
  BY <1>3, SteadyMergeable DEF Owned
<1>5. PICK K : FreedKept(mcb, L, start, k, K)
  BY <1>3, <1>4, FreedKeeps
<1>6. Holds(k, K, H)
  BY <1>3, <1>5, ReturnedHolds
<1> HIDE DEF k, H, A
<1>7. \A s \in A : Fits(k, K, s, 0) /\ s # NULL
  BY <1>3, <1>5 DEF Owned, FreedKept
<1>8. users' = {}
  BY <1>2, <1>3 DEF Owned
<1>9. Owned(k, K, NULL, {}, A)
  BY <1>7 DEF Owned
<1>10. RightNow(K)'
  BY <1>2, <1>5, <1>6, <1>8, <1>9 DEF RightNow, Right, FreedKept, A
<1> QED
  BY <1>2, <1>10 DEF HeapInv, ClientsType


LEMMA SetAlarmKeeps == ASSUME HeapInv, SetAlarm PROVE HeapInv'
<1> DEFINE t == Allocated(mcb, MessageSize)
           H == held \union {Handed(mcb, MessageSize)}
           start == FirstFit(mcb, MessageSize) + Header
           A == AlarmOwns(alarms_glob)
<1>1. PICK L : Right(mcb, L, held, asking.message, users, A)
  BY DEF HeapInv, RightNow
<1>2. /\ asking.message = NULL /\ FirstFit(mcb, MessageSize) # NULL
      /\ mcb' = t /\ held' = H /\ UNCHANGED <<alarms_glob, users>>
      /\ asking' = [message |-> start, queued |-> FALSE]
  BY DEF SetAlarm, AllocateMemory, NotAsking
<1>3. MessageSize \in Nat
  BY ClientAssumption
<1>4. Sound(mcb, L) /\ Owned(mcb, L, NULL, users, A)
  BY <1>1, <1>2 DEF Right
<1>5. PICK K : AllocatedRight(mcb, L, MessageSize, t, K)
  BY <1>2, <1>3, <1>4, AllocatedKeeps
<1>6. Right(t, K, H, NULL, users, A)
  BY <1>1, <1>2, <1>3, <1>5, HandedKeeps
<1>7. /\ start \in Nat /\ Steady(t, K, start, {})
      /\ \A x, n : Fits(mcb, L, x, n) => x # start
      /\ \A x, N : Steady(mcb, L, x, N) => Steady(t, K, x, N \union {start})
  BY <1>5 DEF AllocatedRight
<1> HIDE DEF t, H, start, A
<1>8. ASSUME NEW u \in users
      PROVE  Steady(t, K, u, {start}) /\ u # start
  <2>1. Steady(mcb, L, u, {NULL})
    BY <1>4 DEF Owned
  <2>2. Steady(t, K, u, {NULL} \union {start})
    BY <1>7, <2>1
  <2>3. Steady(t, K, u, {start})
    BY <2>2, SteadyFewer
  <2>4. Fits(mcb, L, u, 0)
    BY <1>4, <2>1, SteadyFits
  <2> QED
    BY <1>7, <2>3, <2>4
<1>9. \A s \in A : Fits(t, K, s, 0) /\ s # start /\ s \notin users
  BY <1>4, <1>6, <1>7 DEF Owned, Right
<1>10. Owned(t, K, start, users, A)
  BY <1>4, <1>7, <1>8, <1>9 DEF Owned
<1>11. RightNow(K)'
  BY <1>2, <1>6, <1>10 DEF Right, RightNow, A
<1>12. ClientsType'
  BY <1>2, <1>7 DEF HeapInv, ClientsType
<1> QED
  BY <1>11, <1>12 DEF HeapInv

\* A slot that is written: the alarms own the message and the block as well.
LEMMA StoredOwns ==
  ASSUME NEW i \in Slots, NEW alarms, alarms \in [Slots -> [message : Nat, block : Nat] \union {NULL}],
         NEW r \in [message : Nat, block : Nat]
  PROVE  AlarmOwns([alarms EXCEPT ![i] = r]) \subseteq AlarmOwns(alarms) \union {r.message, r.block}
BY DEF AlarmOwns

LEMMA AlarmAcceptedKeeps == ASSUME HeapInv, AlarmAccepted PROVE HeapInv'
<1> DEFINE t == Allocated(mcb, AlarmSize)
           H == held \union {Handed(mcb, AlarmSize)}
           start == FirstFit(mcb, AlarmSize) + Header
           msg == asking.message
           A == AlarmOwns(alarms_glob)
           i == Min(FreeSlots)
           r == [message |-> msg, block |-> start]
<1>1. PICK L : Right(mcb, L, held, msg, users, A)
  BY DEF HeapInv, RightNow
<1>2. /\ msg # NULL /\ FreeSlots # {} /\ FirstFit(mcb, AlarmSize) # NULL
      /\ mcb' = t /\ held' = H /\ UNCHANGED users /\ asking' = [message |-> NULL, queued |-> FALSE]
      /\ alarms_glob' = [alarms_glob EXCEPT ![i] = r]
  BY DEF AlarmAccepted, AllocateMemory, NotAsking, Answered, Stored
<1>3. i \in Slots
  BY <1>2, MinIsLeast, ClientAssumption DEF FreeSlots
<1>4. Sound(mcb, L) /\ Owned(mcb, L, msg, users, A) /\ AlarmSize \in Nat
  BY <1>1, ClientAssumption DEF Right
<1>5. PICK K : AllocatedRight(mcb, L, AlarmSize, t, K)
  BY <1>2, <1>4, AllocatedKeeps
<1>6. Right(t, K, H, msg, users, A)
  BY <1>1, <1>2, <1>4, <1>5, HandedKeeps
<1>7. /\ start \in Nat /\ Steady(t, K, start, {}) /\ Sound(t, K)
      /\ \A x, n : Fits(mcb, L, x, n) => Fits(t, K, x, n) /\ x # start
  BY <1>5 DEF AllocatedRight
<1>8. /\ Fits(mcb, L, msg, 0) /\ msg \in Nat
  BY <1>2, <1>4, SteadyFits DEF Owned
<1>9. AlarmOwns(alarms_glob') \subseteq A \union {msg, start}
  <2>1. r \in [message : Nat, block : Nat] /\ r.message = msg /\ r.block = start
    BY <1>7, <1>8
  <2>2. alarms_glob \in [Slots -> [message : Nat, block : Nat] \union {NULL}]
    BY DEF HeapInv, ClientsType
  <2> HIDE DEF r, i
  <2>3. AlarmOwns([alarms_glob EXCEPT ![i] = r]) \subseteq A \union {r.message, r.block}
    BY <1>3, <2>1, <2>2, StoredOwns
  <2> QED
    BY <1>2, <2>1, <2>3
<1> HIDE DEF t, H, start, msg, A, i
<1>10. ASSUME NEW u \in users
       PROVE  Steady(t, K, u, {NULL}) /\ u # NULL /\ u # start /\ u # msg
  <2>1. Steady(t, K, u, {msg}) /\ Steady(mcb, L, u, {msg}) /\ u # msg
    BY <1>4, <1>6 DEF Owned, Right
  <2>2. Steady(t, K, u, {})
    BY <2>1, SteadyFewer
  <2>3. Steady(t, K, u, {} \union {NULL})
    BY <2>2, SteadyAnd, HeapAssumption
  <2>4. Fits(mcb, L, u, 0) /\ u # NULL
    BY <1>4, <2>1, SteadyFits
  <2> QED
    BY <1>7, <2>1, <2>3, <2>4
<1>11. Fits(t, K, start, 0) /\ Fits(t, K, msg, 0)
  BY <1>7, <1>8, SteadyFits
<1>12. ASSUME NEW s \in AlarmOwns(alarms_glob')
       PROVE  Fits(t, K, s, 0) /\ s # NULL /\ s \notin users
  <2>1. CASE s \in A
    BY <1>6, <1>7, <2>1, HoldsNatural DEF Right, Owned
  <2>2. CASE s \in {msg, start}
    BY <1>7, <1>8, <1>10, <1>11, <2>2, HeapAssumption
  <2> QED
    BY <1>9, <2>1, <2>2
<1>13. Owned(t, K, NULL, users, AlarmOwns(alarms_glob'))
  BY <1>6, <1>10, <1>12 DEF Owned, Right
<1>14. Right(mcb', K, held', NULL, users', AlarmOwns(alarms_glob'))
  BY <1>2, <1>6, <1>13 DEF Right
<1>15. RightNow(K)'
  BY <1>2, <1>14 DEF RightNow
<1>16. ClientsType'
  BY <1>2, <1>3, <1>7, <1>8 DEF HeapInv, ClientsType
<1> QED
  BY <1>15, <1>16 DEF HeapInv

(***************************************************************************)
(* A rejected alarm: the message is freed, and then the alarm, if there is *)
(* one, which may have been behind it.                                     *)
(***************************************************************************)
LEMMA AlarmUnallocatedKeeps == ASSUME HeapInv, AlarmUnallocated PROVE HeapInv'
<1> DEFINE msg == asking.message
           A == AlarmOwns(alarms_glob)
           Rest == {h \in held : h.start # msg}
<1>1. PICK L : Right(mcb, L, held, msg, users, A)
  BY DEF HeapInv, RightNow
<1>2. PICK performed \in BOOLEAN :
        LET m == IF performed THEN Allocated(mcb, LeakSize) ELSE mcb
        IN /\ mcb' = Freed(m, msg)
           /\ MessageReturned(IF performed THEN Leaks(mcb) ELSE {})
  BY DEF AlarmUnallocated
<1>3. msg # NULL /\ asking' = [message |-> NULL, queued |-> FALSE] /\ UNCHANGED <<alarms_glob, users>>
  BY DEF AlarmUnallocated, NotAsking, Answered
<1>4. \E K : Right(mcb', K, held', NULL, users, A)
  <2>1. CASE ~performed
    <3>1. mcb' = Freed(mcb, msg) /\ held' = Rest
      BY <1>2, <2>1 DEF MessageReturned
    <3> QED
      BY <1>1, <1>3, <3>1, MessageFreed
  <2>2. CASE performed
    <3> DEFINE m == Allocated(mcb, LeakSize)
    <3>1. mcb' = Freed(m, msg) /\ held' = Rest \union Leaks(mcb)
      BY <1>2, <2>2 DEF MessageReturned
    <3>2. PICK J : /\ Right(m, J, held \union Leaks(mcb), msg, users, A)
                   /\ \A h \in Leaks(mcb) : \A n : ~Fits(mcb, L, h.start, n)
      BY <1>1, LeakKeeps
    <3>3. Fits(mcb, L, msg, 0)
      BY <1>1, <1>3, SteadyFits DEF Right, Owned
    <3>4. {h \in held \union Leaks(mcb) : h.start # msg} = held'
      BY <3>1, <3>2, <3>3
    <3> QED
      BY <1>3, <3>1, <3>2, <3>4, MessageFreed
  <2> QED
    BY <2>1, <2>2
<1>5. PICK K : Right(mcb', K, held', NULL, users, A)
  BY <1>4
<1>6. RightNow(K)'
  BY <1>3, <1>5 DEF RightNow
<1> QED
  BY <1>3, <1>6 DEF HeapInv, ClientsType


\* delete_alarm of an alarm that is in no slot: block is its own, which only
\* setAlarm knows.
LEMMA DeleteKeeps ==
  ASSUME NEW m, NEW L, NEW H, NEW message, NEW U, NEW A, Right(m, L, H, message, U, A),
         message # NULL, NEW block, block # message, Steady(m, L, block, {}),
         \A h \in H : h.start # block,
         \A u \in U : Steady(m, L, u, {message, block}) /\ u # block,
         block \notin A
  PROVE  \E K : Right(DeleteAlarm(m, message, block), K, {h \in H : h.start # message}, NULL, U, A)
<1> DEFINE m1 == Freed(m, message)
           m2 == Freed(m1, block)
           Rest == {h \in H : h.start # message}
<1>1. PICK J : Right(m1, J, Rest, NULL, U, A) /\ FreedKept(m, L, message, m1, J)
  BY MessageFreed
<1>2. Mergeable(m1, J, block)
  BY <1>1, SteadyMergeable DEF FreedKept
<1>3. ASSUME NEW u \in U PROVE Steady(m1, J, u, {} \union {block}) /\ u # block
  <2>1. {message, block} = {block} \union {message}
    OBVIOUS
  <2>2. Steady(m, L, u, {block} \union {message}) /\ u # message /\ u # block
    BY <2>1 DEF Right, Owned
  <2>3. Steady(m1, J, u, {block})
    BY <1>1, <2>2 DEF FreedKept
  <2> QED
    BY <2>2, <2>3
<1>4. Sound(m1, J) /\ Holds(m1, J, Rest) /\ Owned(m1, J, NULL, U, A)
  BY <1>1 DEF Right
<1>5. PICK K : FreedKept(m1, J, block, m2, K)
  BY <1>2, <1>4, FreedKeeps
<1> HIDE DEF m1, m2
<1>6. Holds(m2, K, {h \in Rest : h.start # block})
  BY <1>4, <1>5, ReturnedHolds
<1>7. {h \in Rest : h.start # block} = Rest
  OBVIOUS
<1>8. ASSUME NEW u \in U PROVE Steady(m2, K, u, {NULL})
  <2>1. Steady(m2, K, u, {})
    BY <1>3, <1>5 DEF FreedKept
  <2>2. Steady(m2, K, u, {} \union {NULL})
    BY <2>1, SteadyAnd, HeapAssumption
  <2> QED
    BY <2>2
<1>9. Owned(m2, K, NULL, U, A)
  BY <1>4, <1>5, <1>8 DEF Owned, FreedKept
<1>10. Sound(m2, K)
  BY <1>5 DEF FreedKept
<1>11. Right(m2, K, Rest, NULL, U, A)
  BY <1>6, <1>7, <1>9, <1>10 DEF Right
<1> QED
  BY <1>11 DEF DeleteAlarm, m1, m2

\* An alarm is allocated, perhaps a block leaks, and the alarm is deleted.
LEMMA RejectedKeeps ==
  ASSUME NEW L, Right(mcb, L, held, asking.message, users, AlarmOwns(alarms_glob)),
         asking.message # NULL, FirstFit(mcb, AlarmSize) # NULL, NEW performed \in BOOLEAN
  PROVE  LET m1 == Allocated(mcb, AlarmSize)
             m2 == IF performed THEN Allocated(m1, LeakSize) ELSE m1
             leaks == IF performed THEN Leaks(m1) ELSE {}
         IN \E K : Right(DeleteAlarm(m2, asking.message, FirstFit(mcb, AlarmSize) + Header), K,
                         {h \in held : h.start # asking.message} \union leaks, NULL, users,
                         AlarmOwns(alarms_glob))
<1> DEFINE m1 == Allocated(mcb, AlarmSize)
           m2 == IF performed THEN Allocated(m1, LeakSize) ELSE m1
           leaks == IF performed THEN Leaks(m1) ELSE {}
           msg == asking.message
           block == FirstFit(mcb, AlarmSize) + Header
           A == AlarmOwns(alarms_glob)
           Rest == {h \in held : h.start # msg} \union leaks
<1> SUFFICES \E K : Right(DeleteAlarm(m2, msg, block), K, Rest, NULL, users, A)
  OBVIOUS
<1>1. Sound(mcb, L) /\ Holds(mcb, L, held) /\ Owned(mcb, L, msg, users, A) /\ AlarmSize \in Nat
  BY ClientAssumption DEF Right
<1>2. PICK J : AllocatedRight(mcb, L, AlarmSize, m1, J)
  BY <1>1, AllocatedKeeps
<1>3. Right(m1, J, held, msg, users, A)
  BY <1>2, AllocatedGrows, GrownKeeps
<1>4. /\ Steady(m1, J, block, {})
      /\ \A x, n : Fits(mcb, L, x, n) => Fits(m1, J, x, n) /\ x # block
      /\ \A x, N : Steady(mcb, L, x, N) => Steady(m1, J, x, N \union {block})
  BY <1>2 DEF AllocatedRight
<1>5. \E K : /\ Right(m2, K, held \union leaks, msg, users, A) /\ Grown(m1, J, m2, K)
             /\ \A h \in leaks : \A n : ~Fits(m1, J, h.start, n)
  <2>1. CASE performed
    BY <1>3, <2>1, LeakKeeps
  <2>2. CASE ~performed
    <3>1. m2 = m1 /\ held \union leaks = held /\ leaks = {}
      BY <2>2
    <3>2. Grown(m1, J, m2, J)
      BY <1>3, <3>1 DEF Right, Grown
    <3> QED
      BY <1>3, <3>1, <3>2
  <2> QED
    BY <2>1, <2>2
<1>6. PICK K : /\ Right(m2, K, held \union leaks, msg, users, A) /\ Grown(m1, J, m2, K)
               /\ \A h \in leaks : \A n : ~Fits(m1, J, h.start, n)
  BY <1>5
<1> HIDE DEF m1, m2, leaks, msg, block, A
<1>7. Fits(mcb, L, msg, 0) /\ Fits(m1, J, block, 0)
  <2>1. msg # NULL
    BY DEF msg
  <2> QED
    BY <1>1, <1>3, <1>4, <2>1, SteadyFits DEF Owned, Right
<1>8. Fits(m1, J, msg, 0) /\ block # msg
  BY <1>4, <1>7
<1>9. \A h \in held \union leaks : h.start # block
  BY <1>1, <1>4, <1>6, <1>7 DEF Holds
<1>10. \A h \in leaks : h.start # msg
  BY <1>6, <1>8
<1>11. ASSUME NEW u \in users PROVE Steady(m2, K, u, {msg, block}) /\ u # block
  <2>1. Steady(mcb, L, u, {msg})
    BY <1>1 DEF Owned
  <2>2. Fits(mcb, L, u, 0)
    BY <1>1, <2>1, SteadyFits
  <2>3. {msg} \union {block} = {msg, block}
    OBVIOUS
  <2>4. Steady(m1, J, u, {msg, block})
    BY <1>4, <2>1, <2>3
  <2> QED
    BY <1>4, <1>6, <2>2, <2>4 DEF Grown
<1>12. block \notin A
  BY <1>1, <1>4 DEF Owned
<1>13. Steady(m2, K, block, {})
  BY <1>4, <1>6 DEF Grown
<1>14. {h \in held \union leaks : h.start # msg} = Rest
  BY <1>10
<1>15. msg # NULL
  BY DEF msg
<1>16. \E J2 : Right(DeleteAlarm(m2, msg, block), J2, {h \in held \union leaks : h.start # msg},
                     NULL, users, A)
  BY <1>6, <1>8, <1>9, <1>11, <1>12, <1>13, <1>15, DeleteKeeps
<1> QED
  BY <1>14, <1>16

LEMMA AlarmOutOfRangeKeeps == ASSUME HeapInv, AlarmOutOfRange PROVE HeapInv'
<1>1. PICK L : Right(mcb, L, held, asking.message, users, AlarmOwns(alarms_glob))
  BY DEF HeapInv, RightNow
<1>2. /\ asking.message # NULL /\ FirstFit(mcb, AlarmSize) # NULL
      /\ mcb' = DeleteAlarm(Allocated(mcb, AlarmSize), asking.message,
                            FirstFit(mcb, AlarmSize) + Header)
      /\ held' = {h \in held : h.start # asking.message} \union {}
      /\ asking' = [message |-> NULL, queued |-> FALSE]
      /\ UNCHANGED <<alarms_glob, users>>
  BY DEF AlarmOutOfRange, Answered, MessageReturned, NotAsking
<1>3. PICK K : Right(mcb', K, held', NULL, users, AlarmOwns(alarms_glob))
  <2> DEFINE performed == FALSE
  <2> QED
    BY <1>1, <1>2, RejectedKeeps
<1>4. RightNow(K)'
  BY <1>2, <1>3 DEF RightNow
<1> QED
  BY <1>2, <1>4 DEF HeapInv, ClientsType

LEMMA AlarmUnslottedKeeps == ASSUME HeapInv, AlarmUnslotted PROVE HeapInv'
<1>1. PICK L : Right(mcb, L, held, asking.message, users, AlarmOwns(alarms_glob))
  BY DEF HeapInv, RightNow
<1>2. /\ asking.message # NULL /\ FirstFit(mcb, AlarmSize) # NULL
      /\ asking' = [message |-> NULL, queued |-> FALSE]
      /\ UNCHANGED <<alarms_glob, users>>
  BY DEF AlarmUnslotted, Answered, NotAsking
<1>3. PICK performed \in BOOLEAN :
        LET m1 == Allocated(mcb, AlarmSize)
            m2 == IF performed THEN Allocated(m1, LeakSize) ELSE m1
        IN /\ mcb' = DeleteAlarm(m2, asking.message, FirstFit(mcb, AlarmSize) + Header)
           /\ held' = {h \in held : h.start # asking.message}
                        \union (IF performed THEN Leaks(m1) ELSE {})
  BY DEF AlarmUnslotted, MessageReturned
<1>4. PICK K : Right(mcb', K, held', NULL, users, AlarmOwns(alarms_glob))
  BY <1>1, <1>2, <1>3, RejectedKeeps
<1>5. RightNow(K)'
  BY <1>2, <1>4 DEF RightNow
<1> QED
  BY <1>2, <1>5 DEF HeapInv, ClientsType

LEMMA HeapInvHolds == ASSUME MaxUserBlocks <= 1 PROVE BootSpec => []HeapInv
<1>1. ASSUME HeapInv, ClientsNext PROVE HeapInv'
  <2>1. CASE PcbSetup
    BY <1>1, <2>1, PcbSetupKeeps
  <2>2. CASE PcbInsertBlocked
    BY <1>1, <2>2, PcbInsertBlockedKeeps
  <2>3. ASSUME NEW size \in UserSizes, MemoryAlloc(size) PROVE HeapInv'
    BY <1>1, <2>3, MemoryAllocKeeps
  <2>4. ASSUME NEW start \in users, MemoryFree(start) PROVE HeapInv'
    BY <1>1, <2>4, MemoryFreeKeeps
  <2>5. CASE SetAlarm
    BY <1>1, <2>5, SetAlarmKeeps
  <2>6. CASE AlarmAccepted
    BY <1>1, <2>6, AlarmAcceptedKeeps
  <2>7. CASE AlarmUnallocated
    BY <1>1, <2>7, AlarmUnallocatedKeeps
  <2>8. CASE AlarmOutOfRange
    BY <1>1, <2>8, AlarmOutOfRangeKeeps
  <2>9. CASE AlarmUnslotted
    BY <1>1, <2>9, AlarmUnslottedKeeps
  <2> QED
    BY <1>1, <2>1, <2>2, <2>3, <2>4, <2>5, <2>6, <2>7, <2>8, <2>9 DEF ClientsNext
<1>2. ASSUME HeapInv, UNCHANGED boot_vars PROVE HeapInv'
  <2>1. /\ mcb' = mcb /\ held' = held /\ asking' = asking /\ alarms_glob' = alarms_glob
        /\ users' = users
    BY <1>2 DEF boot_vars, mpx_heap_vars
  <2>2. PICK L : RightNow(L)
    BY <1>2 DEF HeapInv
  <2>3. RightNow(L)'
    BY <2>1, <2>2 DEF RightNow
  <2> QED
    BY <1>2, <2>1, <2>3 DEF HeapInv, ClientsType
<1> QED
  BY <1>1, <1>2, HeapStarts, PTL DEF BootSpec


-----------------------------------------------------------------------------
\* setAlarm's own blocks among those handed out.
AlarmBlocks(H) == {h.start : h \in {g \in H : g.size \in {MessageSize, AlarmSize}}}

AlarmsOwnSizes ==
  /\ {MessageSize, AlarmSize} \intersect (UserSizes \union {LeakSize}) = {}
  /\ \A i \in 1..3 : PcbSizes[i] \notin {MessageSize, AlarmSize}

LEMMA AlarmBlocksUnion ==
  ASSUME NEW H, NEW G
  PROVE  AlarmBlocks(H \union G) = AlarmBlocks(H) \union AlarmBlocks(G)
BY DEF AlarmBlocks

LEMMA AlarmBlocksOther ==
  ASSUME NEW G, \A g \in G : g.size \notin {MessageSize, AlarmSize}
  PROVE  AlarmBlocks(G) = {}
BY DEF AlarmBlocks

LEMMA AlarmBlocksWithout ==
  ASSUME NEW H, NEW start
  PROVE  AlarmBlocks({h \in H : h.start # start}) = AlarmBlocks(H) \ {start}
BY DEF AlarmBlocks

LEMMA AlarmBlocksOne ==
  ASSUME NEW H, NEW m, NEW size, size \in {MessageSize, AlarmSize}
  PROVE  AlarmBlocks(H \union {Handed(m, size)}) = AlarmBlocks(H) \union {FirstFit(m, size) + Header}
<1> DEFINE h == Handed(m, size)
<1>1. h.start = FirstFit(m, size) + Header /\ h.size = size
  BY DEF Handed
<1> HIDE DEF h
<1>2. {g \in {h} : g.size \in {MessageSize, AlarmSize}} = {h}
  BY <1>1
<1>3. AlarmBlocks({h}) = {h.start}
  BY <1>2 DEF AlarmBlocks
<1>4. AlarmBlocks(H \union {h}) = AlarmBlocks(H) \union AlarmBlocks({h})
  BY AlarmBlocksUnion
<1> QED
  BY <1>1, <1>3, <1>4 DEF h

NoneLost ==
  AlarmBlocks(held) = AlarmOwns(alarms_glob) \union ({asking.message} \ {NULL})

LEMMA NoneLostIs == NoneLost <=> NoAlarmLeaked
<1>1. Slots \ FreeSlots = {j \in Slots : alarms_glob[j] # NULL}
  BY DEF FreeSlots
<1> DEFINE Set == UNION {{alarms_glob[i].message, alarms_glob[i].block} : i \in Slots \ FreeSlots}
<1>2. AlarmOwns(alarms_glob) = Set
  BY <1>1 DEF AlarmOwns
<1>3. NoAlarmLeaked <=> AlarmBlocks(held) = Set \union ({asking.message} \ {NULL})
  BY DEF NoAlarmLeaked, AlarmBlocks
<1> HIDE DEF Set
<1> QED
  BY <1>2, <1>3, Zenon DEF NoneLost

LEMMA LeaksOther == ASSUME AlarmsOwnSizes, NEW m PROVE AlarmBlocks(Leaks(m)) = {}
<1>1. \A g \in Leaks(m) : g.size = LeakSize
  BY DEF Leaks, Handed
<1> QED
  BY <1>1, AlarmBlocksOther DEF AlarmsOwnSizes

\* The message has been given back, and nothing of the alarms'.
LEMMA ReturnedNoneLost ==
  ASSUME HeapInv, NoneLost, asking.message # NULL, NEW leaks, AlarmBlocks(leaks) = {},
         held' = {h \in held : h.start # asking.message} \union leaks,
         asking' = NotAsking, alarms_glob' = alarms_glob
  PROVE  NoneLost'
<1>1. asking.message \notin AlarmOwns(alarms_glob)
  BY DEF HeapInv, RightNow, Right, Owned
<1>2. AlarmBlocks(held') = AlarmBlocks(held) \ {asking.message}
  <2> DEFINE Rest == {h \in held : h.start # asking.message}
  <2>1. AlarmBlocks(Rest) = AlarmBlocks(held) \ {asking.message}
    BY AlarmBlocksWithout
  <2> HIDE DEF Rest
  <2>2. AlarmBlocks(Rest \union leaks) = AlarmBlocks(Rest) \union AlarmBlocks(leaks)
    BY AlarmBlocksUnion
  <2>3. AlarmBlocks(held') = AlarmBlocks(Rest \union leaks)
    BY Zenon DEF Rest
  <2> QED
    BY <2>1, <2>2, <2>3
<1>3. AlarmBlocks(held) = AlarmOwns(alarms_glob) \union {asking.message}
  BY DEF NoneLost
<1>4. AlarmBlocks(held') = AlarmOwns(alarms_glob)
  BY <1>1, <1>2, <1>3
<1>5. asking'.message = NULL
  BY DEF NotAsking
<1>6. AlarmOwns(alarms_glob)' = AlarmOwns(alarms_glob)
  BY DEF AlarmOwns
<1>7. AlarmBlocks(held)' = AlarmBlocks(held')
  BY DEF AlarmBlocks
<1> QED
  BY <1>4, <1>5, <1>6, <1>7 DEF NoneLost

LEMMA AcceptedNoneLost == ASSUME HeapInv, NoneLost, AlarmAccepted PROVE NoneLost'
<1> DEFINE msg == asking.message
           block == FirstFit(mcb, AlarmSize) + Header
           i == Min(FreeSlots)
           r == [message |-> msg, block |-> block]
           A == AlarmOwns(alarms_glob)
<1>1. /\ msg # NULL /\ FreeSlots # {} /\ FirstFit(mcb, AlarmSize) # NULL
      /\ held' = held \union {Handed(mcb, AlarmSize)}
      /\ asking'.message = NULL /\ alarms_glob' = [alarms_glob EXCEPT ![i] = r]
  BY DEF AlarmAccepted, AllocateMemory, NotAsking, Answered, Stored
<1>2. i \in Slots /\ alarms_glob[i] = NULL
  BY <1>1, MinIsLeast, ClientAssumption DEF FreeSlots
<1>3. PICK L : Right(mcb, L, held, msg, users, A)
  BY DEF HeapInv, RightNow
<1>4. AlarmSize \in Nat /\ Sound(mcb, L)
  BY <1>3, ClientAssumption DEF Right
<1>5. block \in Nat
  BY <1>1, <1>4, AllocatedKeeps DEF AllocatedRight
<1>6. msg \in Nat
  BY <1>1, <1>3, SteadyFits DEF Right, Owned
<1>7. r \in [message : Nat, block : Nat] /\ r # NULL /\ r.message = msg /\ r.block = block
  BY <1>5, <1>6, ClientAssumption
<1>8. AlarmBlocks(held') = AlarmBlocks(held) \union {block}
  <2>1. AlarmBlocks(held \union {Handed(mcb, AlarmSize)}) = AlarmBlocks(held) \union {block}
    BY AlarmBlocksOne
  <2> QED
    BY <1>1, <2>1, Zenon
<1>9. AlarmBlocks(held) = A \union {msg}
  BY <1>1 DEF NoneLost
<1>10. alarms_glob \in [Slots -> [message : Nat, block : Nat] \union {NULL}]
  BY DEF HeapInv, ClientsType
<1> HIDE DEF i, r, block, msg
<1>11. AlarmOwns(alarms_glob') = A \union {msg, block}
  <2>1. /\ alarms_glob'[i] = r /\ alarms_glob' \in [Slots -> [message : Nat, block : Nat] \union {NULL}]
        /\ \A j \in Slots \ {i} : alarms_glob'[j] = alarms_glob[j]
    BY <1>1, <1>2, <1>7, <1>10
  <2>2. {j \in Slots : alarms_glob'[j] # NULL} = {j \in Slots : alarms_glob[j] # NULL} \union {i}
    BY <1>2, <1>7, <2>1
  <2>3. \A j \in {k \in Slots : alarms_glob[k] # NULL} : alarms_glob'[j] = alarms_glob[j]
    BY <1>2, <2>1
  <2> QED
    BY <1>7, <2>1, <2>2, <2>3 DEF AlarmOwns
<1>12. AlarmBlocks(held)' = AlarmBlocks(held') /\ AlarmOwns(alarms_glob)' = AlarmOwns(alarms_glob')
  BY DEF AlarmBlocks, AlarmOwns
<1> QED
  BY <1>1, <1>8, <1>9, <1>11, <1>12 DEF NoneLost

LEMMA NoneLostKeeps ==
  ASSUME AlarmsOwnSizes, HeapInv, NoneLost, ClientsNext
  PROVE  NoneLost'
<1>0. AlarmBlocks(held)' = AlarmBlocks(held')
  BY DEF AlarmBlocks
<1>1. ASSUME NEW G, \A g \in G : g.size \notin {MessageSize, AlarmSize}, held' = held \union G,
             asking'.message = asking.message, alarms_glob' = alarms_glob
      PROVE  NoneLost'
  <2>1. AlarmBlocks(held') = AlarmBlocks(held)
    <3>1. AlarmBlocks(held \union G) = AlarmBlocks(held) \union AlarmBlocks(G)
      BY AlarmBlocksUnion
    <3>2. AlarmBlocks(G) = {}
      BY <1>1, AlarmBlocksOther
    <3>3. AlarmBlocks(held') = AlarmBlocks(held \union G)
      BY <1>1, Zenon
    <3> QED
      BY <3>1, <3>2, <3>3
  <2>2. AlarmOwns(alarms_glob)' = AlarmOwns(alarms_glob)
    BY <1>1 DEF AlarmOwns
  <2> QED
    BY <1>0, <1>1, <2>1, <2>2 DEF NoneLost
<1>2. CASE PcbSetup
  <2> DEFINE m1 == Allocated(mcb, PcbSizes[1])
             m2 == Allocated(m1, PcbSizes[2])
             G == {Handed(mcb, PcbSizes[1]), Handed(m1, PcbSizes[2]), Handed(m2, PcbSizes[3])}
  <2>1. \A g \in G : g.size \notin {MessageSize, AlarmSize}
    BY DEF Handed, AlarmsOwnSizes
  <2>2. held' = held \union G /\ UNCHANGED <<asking, alarms_glob>>
    BY <1>2 DEF PcbSetup
  <2> HIDE DEF G
  <2> QED
    BY <1>1, <2>1, <2>2
<1>3. CASE PcbInsertBlocked
  <2>1. \A g \in Leaks(mcb) : g.size \notin {MessageSize, AlarmSize}
    BY DEF Leaks, Handed, AlarmsOwnSizes
  <2>2. asking'.message = asking.message
    BY <1>3 DEF PcbInsertBlocked, HeapInv, ClientsType
  <2> QED
    BY <1>1, <1>3, <2>1, <2>2 DEF PcbInsertBlocked
<1>4. ASSUME NEW size \in UserSizes, MemoryAlloc(size) PROVE NoneLost'
  <2> DEFINE G == {Handed(mcb, size)}
  <2>1. \A g \in G : g.size \notin {MessageSize, AlarmSize}
    BY DEF Handed, AlarmsOwnSizes
  <2>2. held' = held \union G /\ UNCHANGED <<asking, alarms_glob>>
    BY <1>4 DEF MemoryAlloc, AllocateMemory
  <2> HIDE DEF G
  <2> QED
    BY <1>1, <2>1, <2>2
<1>5. ASSUME NEW start \in users, MemoryFree(start) PROVE NoneLost'
  <2>1. start \notin AlarmOwns(alarms_glob)
    BY DEF HeapInv, RightNow, Right, Owned
  <2>2. AlarmBlocks(held') = AlarmBlocks(held) \ {start}
    BY <1>5, AlarmBlocksWithout DEF MemoryFree
  <2>3. asking.message = NULL /\ asking' = asking /\ alarms_glob' = alarms_glob
    BY <1>5 DEF MemoryFree
  <2>4. AlarmBlocks(held) = AlarmOwns(alarms_glob)
    BY <2>3 DEF NoneLost
  <2>5. AlarmOwns(alarms_glob)' = AlarmOwns(alarms_glob)
    BY <2>3 DEF AlarmOwns
  <2> QED
    BY <1>0, <2>1, <2>2, <2>3, <2>4, <2>5 DEF NoneLost
<1>6. CASE SetAlarm
  <2> DEFINE start == FirstFit(mcb, MessageSize) + Header
  <2>1. /\ asking.message = NULL /\ FirstFit(mcb, MessageSize) # NULL
        /\ held' = held \union {Handed(mcb, MessageSize)}
        /\ asking'.message = start /\ alarms_glob' = alarms_glob
    BY <1>6 DEF SetAlarm, AllocateMemory, NotAsking
  <2>2. MessageSize \in Nat
    BY ClientAssumption
  <2>3. start \in Nat
    BY <2>1, <2>2, AllocatedKeeps DEF AllocatedRight, HeapInv, RightNow, Right
  <2>4. AlarmBlocks(held') = AlarmBlocks(held) \union {start}
    <3>1. AlarmBlocks(held \union {Handed(mcb, MessageSize)}) = AlarmBlocks(held) \union {start}
      BY AlarmBlocksOne
    <3> QED
      BY <2>1, <3>1, Zenon
  <2>5. AlarmBlocks(held) = AlarmOwns(alarms_glob)
    BY <2>1 DEF NoneLost
  <2>6. AlarmOwns(alarms_glob)' = AlarmOwns(alarms_glob)
    BY <2>1 DEF AlarmOwns
  <2> HIDE DEF start
  <2> QED
    BY <1>0, <2>1, <2>3, <2>4, <2>5, <2>6, HeapAssumption DEF NoneLost
<1>7. CASE AlarmAccepted
  BY <1>7, AcceptedNoneLost
<1>8. CASE AlarmUnallocated
  <2>1. AlarmBlocks({}) = {}
    BY DEF AlarmBlocks
  <2> QED
    BY <1>8, <2>1, LeaksOther, ReturnedNoneLost DEF AlarmUnallocated, Answered, MessageReturned
<1>9. CASE AlarmOutOfRange
  <2>1. AlarmBlocks({}) = {}
    BY DEF AlarmBlocks
  <2> QED
    BY <1>9, <2>1, ReturnedNoneLost DEF AlarmOutOfRange, Answered, MessageReturned
<1>10. CASE AlarmUnslotted
  <2>1. AlarmBlocks({}) = {}
    BY DEF AlarmBlocks
  <2> QED
    BY <1>10, <2>1, LeaksOther, ReturnedNoneLost DEF AlarmUnslotted, Answered, MessageReturned
<1> QED
  BY <1>2, <1>3, <1>4, <1>5, <1>6, <1>7, <1>8, <1>9, <1>10 DEF ClientsNext


-----------------------------------------------------------------------------
(***************************************************************************)
(* The properties.                                                         *)
(***************************************************************************)
LEMMA RightList == ASSUME HeapInv PROVE RightNow(OnHeapList(mcb))
<1>1. PICK L : RightNow(L)
  BY DEF HeapInv
<1>2. OnHeapList(mcb) = L
  BY <1>1, SoundIn, OnHeapListIs DEF RightNow, Right
<1> QED
  BY <1>1, <1>2

LEMMA RightDisjoint == ASSUME HeapInv PROVE AllocatedDisjoint
<1> DEFINE L == OnHeapList(mcb)
<1>1. Sound(mcb, L) /\ Holds(mcb, L, held)
  BY RightList DEF RightNow, Right
<1>2. IsHeap(mcb) /\ Chain(mcb, L) /\ L \subseteq Nat
  BY <1>1, SoundIn
<1>3. ASSUME NEW b \in L, NEW c \in L, b < c
      PROVE  b + Header + mcb[b].size <= c
  BY <1>2, <1>3, ChainOrder, NextIsBehind
<1>4. \A b \in L : b \in Nat /\ mcb[b].size \in Nat
  BY <1>2, Fields DEF Chain
<1> HIDE DEF L
<1> SUFFICES ASSUME NEW h \in held
             PROVE  /\ \A g \in held \ {h} : ~Overlap(h.start, h.size, g.start, g.size)
                    /\ \A b \in L : ~Overlap(h.start, h.size, b, Header)
  BY DEF AllocatedDisjoint, L
<1>5. PICK b \in L : h.start = b + Header /\ h.size <= mcb[b].size
  BY <1>1 DEF Holds, Fits
<1>6. h.size \in Nat
  BY <1>1 DEF Holds
<1>7. ASSUME NEW g \in held, g # h PROVE ~Overlap(h.start, h.size, g.start, g.size)
  <2>1. PICK c \in L : g.start = c + Header /\ g.size <= mcb[c].size
    BY <1>1 DEF Holds, Fits
  <2>2. c # b /\ g.size \in Nat
    BY <1>1, <1>5, <1>7, <2>1 DEF Holds
  <2>3. CASE b < c
    BY <1>3, <1>4, <1>5, <1>6, <2>1, <2>2, <2>3, HeapAssumption DEF Overlap
  <2>4. CASE c < b
    BY <1>3, <1>4, <1>5, <1>6, <2>1, <2>2, <2>4, HeapAssumption DEF Overlap
  <2> QED
    BY <1>4, <2>2, <2>3, <2>4
<1>8. ASSUME NEW c \in L PROVE ~Overlap(h.start, h.size, c, Header)
  <2>1. CASE b < c
    BY <1>3, <1>4, <1>5, <1>6, <2>1, HeapAssumption DEF Overlap
  <2>2. CASE c <= b
    BY <1>4, <1>5, <1>6, <2>2, HeapAssumption DEF Overlap
  <2> QED
    BY <1>4, <2>1, <2>2
<1> QED
  BY <1>7, <1>8

LEMMA RightType == ASSUME HeapInv PROVE HeapTypeOK
<1> DEFINE L == OnHeapList(mcb)
<1>1. Sound(mcb, L) /\ Holds(mcb, L, held)
  BY RightList DEF RightNow, Right
<1>2. IsHeap(mcb) /\ Chain(mcb, L)
  BY <1>1, SoundIn
<1>3. HeapEnd - Header = HeapSize
  BY HeapAssumption DEF HeapEnd
<1>4. \A b \in DOMAIN mcb :
        /\ mcb[b].size \in 0..HeapSize /\ mcb[b].free \in BOOLEAN
        /\ {mcb[b].next, mcb[b].prev} \subseteq DOMAIN mcb \union {NULL}
  BY <1>2, Fields, HeapAssumption
<1>5. ASSUME NEW h \in held PROVE h.start \in Header..HeapEnd /\ h.size \in 0..HeapSize
  <2>1. PICK b \in L : h.start = b + Header /\ h.size <= mcb[b].size
    BY <1>1 DEF Holds, Fits
  <2>2. b \in Nat /\ b <= HeapSize /\ mcb[b].size \in Nat /\ mcb[b].size <= HeapSize
    BY <1>2, Fields DEF Chain
  <2>3. h.size \in Nat
    BY <1>1 DEF Holds
  <2> QED
    BY <2>1, <2>2, <2>3, HeapAssumption DEF HeapEnd
<1> QED
  BY <1>2, <1>3, <1>4, <1>5 DEF HeapTypeOK, IsHeap

LEMMA RightShape == ASSUME HeapInv PROVE Removable /\ Ascends /\ Tiled
<1> DEFINE L == OnHeapList(mcb)
<1>1. Sound(mcb, L)
  BY RightList DEF RightNow, Right
<1>2. IsHeap(mcb) /\ Chain(mcb, L)
  BY <1>1, SoundIn
<1>3. Removable
  BY <1>1 DEF Removable, Sound, Linked
<1>4. Ascends
  BY <1>2, NextIsBehind DEF Ascends
<1>5. Tiled
  BY <1>2 DEF Tiled, Chain
<1> QED
  BY <1>3, <1>4, <1>5

LEMMA RightAlarms == ASSUME HeapInv PROVE AlarmsAllocated
<1>1. \A s \in AlarmOwns(alarms_glob) :
        \E b \in OnHeapList(mcb) : b + Header = s /\ ~mcb[b].free
  BY RightList DEF RightNow, Right, Owned, Fits
<1> QED
  BY <1>1 DEF AlarmsAllocated, AlarmOwns

\* With one block of the memory menu at a time the pointers of the headers stay
\* in the heap, and what was handed out lies in it (heap_manager.c:40-190).
THEOREM HeapTypeCorrect == ASSUME MaxUserBlocks <= 1 PROVE BootSpec => []HeapTypeOK
BY HeapInvHolds, RightType, PTL

\* allocate_memory hands out memory nobody else has, whatever sizes are asked for
\* and whatever is freed in between (heap_manager.c:104, 137).
THEOREM NoBlockOverlaps == ASSUME MaxUserBlocks <= 1 PROVE BootSpec => []AllocatedDisjoint
BY HeapInvHolds, RightDisjoint, PTL

\* mcb_remove never follows the NULL it has just stored (heap_manager.c:162).
THEOREM AlwaysRemovable == ASSUME MaxUserBlocks <= 1 PROVE BootSpec => []Removable
BY HeapInvHolds, RightShape, PTL

\* Every walk along the list comes to its end (heap_manager.c:40, 69).
THEOREM ListAscends == ASSUME MaxUserBlocks <= 1 PROVE BootSpec => []Ascends
BY HeapInvHolds, RightShape, PTL

\* No byte of the heap is lost by split or merge (heap_manager.c:92-190): this is
\* where a stale prev would show, if a block behind a stale one were ever merged.
THEOREM NoByteLost == ASSUME MaxUserBlocks <= 1 PROVE BootSpec => []Tiled
BY HeapInvHolds, RightShape, PTL

\* No rejected alarm takes the memory of one that is set along
\* (user_commands.c:960-1010, 1047).
THEOREM AlarmsKeepMemory == ASSUME MaxUserBlocks <= 1 PROVE BootSpec => []AlarmsAllocated
BY HeapInvHolds, RightAlarms, PTL

\* setAlarm gives back what it took on each of its ways out (user_commands.c:960,
\* 989, 1009); the blocks of the alarms are told by their sizes.
THEOREM SetAlarmLosesNothing ==
  ASSUME MaxUserBlocks <= 1, AlarmsOwnSizes
  PROVE  BootSpec => []NoAlarmLeaked
<1>1. BootInit => NoneLost
  <2> SUFFICES ASSUME MpxHeapInit PROVE NoneLost
    BY DEF BootInit
  <2>1. held = {} /\ asking.message = NULL /\ alarms_glob = [i \in Slots |-> NULL]
    BY DEF MpxHeapInit, HeapInit, NotAsking
  <2> QED
    BY <2>1 DEF NoneLost, AlarmBlocks, AlarmOwns
<1>2. HeapInv /\ NoneLost /\ [AllocatedDisjoint /\ ClientsNext /\ UNCHANGED vm]_boot_vars
        => NoneLost'
  <2>1. ASSUME NoneLost, UNCHANGED boot_vars PROVE NoneLost'
    BY <2>1 DEF NoneLost, AlarmBlocks, AlarmOwns, boot_vars, mpx_heap_vars
  <2> QED
    BY <2>1, NoneLostKeeps
<1> QED
  BY <1>1, <1>2, HeapInvHolds, NoneLostIs, PTL DEF BootSpec
=============================================================================
