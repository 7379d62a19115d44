------------------------------ MODULE HeapManager ------------------------------
(***************************************************************************)
(* The heap of kernel/heap_manager.c.  A block is a header (struct mcb)    *)
(* followed by its bytes; all blocks, free or not, hang on one doubly      *)
(* linked list that starts at address 0, where initialize_heap puts the    *)
(* first header.  A header that has been merged away stays in memory as it *)
(* was, until a client writes over it, and a stale pointer may still lead  *)
(* to it.  `held` is what the callers of allocate_memory believe is theirs.*)
(***************************************************************************)
EXTENDS Naturals, FiniteSets, FiniteSetsExt, Functions

CONSTANTS
  HeapSize,   \* the bytes behind the first header
  Header,     \* sizeof(mcb)
  NULL

ASSUME HeapAssumption == HeapSize \in Nat /\ Header \in Nat \ {0} /\ NULL \notin Nat

VARIABLES
  mcb,        \* the headers ever written, by address
  held        \* the blocks handed out: [start, size]

heap_vars == <<mcb, held>>

First == 0    \* freeList, which never moves
HeapEnd == Header + HeapSize

InitializeHeap ==
  [b \in {First} |-> [size |-> HeapSize, next |-> NULL, prev |-> NULL, free |-> TRUE]]

HeapInit == mcb = InitializeHeap /\ held = {}

-----------------------------------------------------------------------------
\* The list in the order of a walk along it: k |-> the header reached in k steps.
Walk(m) == LET at[k \in 0..Cardinality(DOMAIN m)] ==
                 IF k = 0 THEN First
                 ELSE LET b == at[k-1] IN IF b = NULL THEN NULL ELSE m[b].next
           IN at

OnHeapList(m) == Range(Walk(m)) \ {NULL}

\* The first header of the walk that is in S, or NULL.
FirstIn(m, S) ==
  LET walk == Walk(m)
      hits == {k \in DOMAIN walk : walk[k] \in S}
  IN IF hits = {} THEN NULL ELSE walk[Min(hits)]

-----------------------------------------------------------------------------
\* A header written at an address that may have held one before.
WithHeader(m, at, header) == [b \in DOMAIN m \union {at} |-> IF b = at THEN header ELSE m[b]]

\* Mutants: the header is not subtracted from the rest; the rest is not linked.
SplitWithoutHeader(m, b, size) ==
  IF m[b].size < size + Header THEN m
  ELSE LET new == b + Header + size
       IN WithHeader([m EXCEPT ![b].next = new, ![b].size = size], new,
                     [size |-> m[b].size - size, next |-> m[b].next, prev |-> b, free |-> TRUE])

SplitUnlinked(m, b, size) ==
  IF m[b].size < size + Header THEN m
  ELSE WithHeader([m EXCEPT ![b].size = size], b + Header + size,
                  [size |-> m[b].size - size - Header, next |-> m[b].next, prev |-> b, free |-> TRUE])

\* split: the new block's successor keeps its old `prev`.
Split(m, b, size) ==
  IF m[b].size < size + Header THEN m
  ELSE LET new == b + Header + size
       IN WithHeader([m EXCEPT ![b].next = new, ![b].size = size], new,
                     [size |-> m[b].size - size - Header, next |-> m[b].next, prev |-> b,
                      free |-> TRUE])

FirstFitTaken(m, size) ==   \* mutant: the indicator is not looked at
  FirstIn(m, {b \in DOMAIN m : m[b].size >= size})

FirstFit(m, size) == FirstIn(m, {b \in DOMAIN m : m[b].free /\ m[b].size >= size})

\* allocate_memory: the block it returns, or NULL, and the heap it leaves.
Allocated(m, size) ==
  LET cur == FirstFit(m, size)
  IN IF cur = NULL THEN m ELSE [Split(m, cur, size) EXCEPT ![cur].free = FALSE]

Handed(m, size) == [start |-> FirstFit(m, size) + Header, size |-> size]

AllocateMemory(size) ==
  /\ FirstFit(mcb, size) # NULL
  /\ mcb' = Allocated(mcb, size)
  /\ held' = held \union {Handed(mcb, size)}

\* Mutant: the predecessor's next is not updated.
McbRemoveOneWay(m, b) ==
  LET next == m[b].next  prev == m[b].prev
  IN IF next = NULL /\ prev = NULL THEN [m EXCEPT ![First].next = NULL]
     ELSE IF next = NULL THEN [m EXCEPT ![prev].next = NULL, ![b].prev = NULL]
     ELSE IF prev = NULL THEN [m EXCEPT ![next].prev = NULL, ![b].next = NULL]
     ELSE [m EXCEPT ![next].prev = prev, ![b].prev = NULL, ![b].next = NULL]

(***************************************************************************)
(* mcb_remove; the neighbours are whatever the pointers of the header say. *)
(* With none, the list is cut behind its first header and the code then    *)
(* writes through the NULL just stored: Removable says it never gets there.*)
(***************************************************************************)
McbRemove(m, b) ==
  LET next == m[b].next  prev == m[b].prev
  IN IF next = NULL /\ prev = NULL THEN [m EXCEPT ![First].next = NULL]
     ELSE IF next = NULL THEN [m EXCEPT ![prev].next = NULL, ![b].prev = NULL]
     ELSE IF prev = NULL THEN [m EXCEPT ![next].prev = NULL, ![b].next = NULL]
     ELSE [m EXCEPT ![prev].next = next, ![next].prev = prev, ![b].prev = NULL, ![b].next = NULL]

\* merge: with the block after it, then into the block before it.
MergeNext(m, b) ==
  LET next == m[b].next
  IN IF next = NULL \/ ~m[next].free THEN m
     ELSE McbRemove([m EXCEPT ![b].size = @ + Header + m[next].size], next)

MergePrev(m, b, prev) ==
  IF prev = NULL \/ ~m[prev].free THEN m
  ELSE McbRemove([m EXCEPT ![prev].size = @ + Header + m[b].size], b)

Merge(m, b) == MergePrev(MergeNext(m, b), b, m[b].prev)

\* free_memory, given the start of a block on the list; given anything else,
\* or once the block has dropped off the list, it changes nothing.
Freed(m, start) ==
  LET b == FirstIn(m, {a \in DOMAIN m : a + Header = start})
  IN IF b = NULL THEN m ELSE Merge([m EXCEPT ![b].free = TRUE], b)

-----------------------------------------------------------------------------
\* The m bytes from a on and the n bytes from b on.
Overlap(a, m, b, n) == a < b + n /\ b < a + m

\* No block handed out shares a byte with another one, or with the header of a
\* block on the list (heap_manager.c:104, 137): include/memory.h:15 promises
\* "the address of the newly allocated memory".
AllocatedDisjoint ==
  \A h \in held :
    /\ \A g \in held \ {h} : ~Overlap(h.start, h.size, g.start, g.size)
    /\ \A b \in OnHeapList(mcb) : ~Overlap(h.start, h.size, b, Header)

HeapTypeOK ==
  /\ DOMAIN mcb \subseteq 0..(HeapEnd - Header)
  /\ \A b \in DOMAIN mcb : /\ mcb[b].size \in 0..HeapSize /\ mcb[b].free \in BOOLEAN
                           /\ {mcb[b].next, mcb[b].prev} \subseteq DOMAIN mcb \union {NULL}
  /\ \A h \in held : h.start \in Header..HeapEnd /\ h.size \in 0..HeapSize

\* A header has a neighbour when it is merged away, so that mcb_remove never
\* takes its first branch, which follows a NULL pointer (heap_manager.c:162).
Removable ==
  \A b \in OnHeapList(mcb) \ {First} : mcb[b].next # NULL \/ mcb[b].prev # NULL

\* The list ascends: a walk along it comes to its end (heap_manager.c:40, 69).
Ascends == \A b \in OnHeapList(mcb) : mcb[b].next # NULL => b < mcb[b].next

\* The blocks on the list cover the heap without a gap or an overlap.
Tiled ==
  \A b \in OnHeapList(mcb) :
    b + Header + mcb[b].size = IF mcb[b].next = NULL THEN HeapEnd ELSE mcb[b].next
=============================================================================
