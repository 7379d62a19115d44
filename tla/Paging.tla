-------------------------------- MODULE Paging ---------------------------------
(***************************************************************************)
(* The virtual memory of kernel/core.c, as vm_init leaves it: the kernel's *)
(* image, its page directory and its page tables mapped to themselves, and *)
(* the kernel heap, far above them, on frames of its own.  All of it is    *)
(* done once, by kmain, before anything else runs, so that vm_init is an   *)
(* operator on the record                                                  *)
(*                                                                         *)
(*   phys     phys_alloc_addr, the first byte not yet given away           *)
(*   tables   the entries of the directory that have a page table          *)
(*   frame    the frame of each page that is present                       *)
(*   used     the frames the bitmap marks as in use                        *)
(*   heap     heap_addr, in bytes from KHEAP_BASE                          *)
(*   fault    whether kpanic was called                                    *)
(*                                                                         *)
(* Memory nobody has written to is 0, as the emulator leaves it: a fresh   *)
(* page table is empty without a memset.                                   *)
(***************************************************************************)
EXTENDS Integers, FiniteSets, FiniteSetsExt

CONSTANTS
  PageSize,    \* PAGE_SIZE, in bytes
  TableSpan,   \* the pages of a page table, 1024
  DirSize,     \* sizeof(page_dir)
  TableSize,   \* sizeof(page_table)
  NFrames,     \* NFRAMES
  HeapPage,    \* the page of KHEAP_BASE
  HeapPages,   \* KHEAP_SIZE, in pages
  Margin,      \* the bytes mapped behind what is in use, 0x10000
  KernelEnds   \* where the linker may put __end

ASSUME PagingAssumption ==
  /\ {PageSize, TableSpan, DirSize, TableSize} \subseteq Nat \ {0}
  /\ {NFrames, HeapPage, HeapPages, Margin} \subseteq Nat /\ KernelEnds \subseteq Nat

\* The page tables that the frames of physical memory and the heap can take.
TableIndices ==
  {page \div TableSpan : page \in (0..(NFrames - 1)) \union (HeapPage..(HeapPage + HeapPages - 1))}

\* The heap lies above physical memory, and that has room for the kernel, its
\* directory, the tables, each with what its alignment skips, and the heap.
ASSUME MemoryAssumption ==
  /\ NFrames <= HeapPage
  /\ \A end \in KernelEnds :
       end + PageSize + DirSize + (Cardinality(TableIndices) * (PageSize + TableSize)) + Margin
         <= (NFrames - HeapPages) * PageSize

-----------------------------------------------------------------------------
\* The alignment of kmalloc: to the next page, from the beginning of one as well.
Aligned(addr) ==
  IF addr \div PageSize = 0 THEN addr ELSE PageSize * ((addr \div PageSize) + 1)

\* kmalloc of an aligned block, before there is a heap.
PhysicalAlloc(vm, size) == [vm EXCEPT !.phys = Aligned(@) + size]

\* get_page, asked to make the table.
GetPage(vm, page) ==
  LET index == page \div TableSpan
  IN  IF index \in vm.tables THEN vm
      ELSE [PhysicalAlloc(vm, TableSize) EXCEPT !.tables = @ \union {index}]

\* find_free.
FreeFrames(vm) == (0..(NFrames - 1)) \ vm.used

\* The entry of a page made present, and its frame saved in it.
WithFrame(vm, page, index) ==
  [vm EXCEPT !.frame = [p \in DOMAIN vm.frame \union {page} |->
                          IF p = page THEN index ELSE vm.frame[p]]]

NewFrameUnmarked(vm, page) ==   \* mutant: set_bit is not called
  IF page \in DOMAIN vm.frame /\ vm.frame[page] # 0 THEN vm
  ELSE IF FreeFrames(vm) = {} THEN [vm EXCEPT !.fault = TRUE]
  ELSE WithFrame(vm, page, Min(FreeFrames(vm)))

\* new_frame: a page that has a frame keeps it; frame 0 passes for none.
NewFrame(vm, page) ==
  IF page \in DOMAIN vm.frame /\ vm.frame[page] # 0 THEN vm
  ELSE IF FreeFrames(vm) = {} THEN [vm EXCEPT !.fault = TRUE]
  ELSE LET index == Min(FreeFrames(vm))
       IN  WithFrame([vm EXCEPT !.used = @ \union {index}], page, index)

-----------------------------------------------------------------------------
\* The loops of vm_init, after k rounds: the tables of the heap, the identity
\* mapping, whose end moves as tables are made, and the frames of the heap.
HeapTables(vm) ==
  LET round[k \in 0..HeapPages] ==
        IF k = 0 THEN vm ELSE GetPage(round[k-1], HeapPage + k - 1)
  IN  round[HeapPages]

IdentityMapping(vm) ==
  LET round[k \in 0..NFrames] ==
        IF k = 0 THEN vm
        ELSE LET before == round[k-1]
             IN  IF (k - 1) * PageSize < before.phys + Margin
                 THEN NewFrame(GetPage(before, k - 1), k - 1)
                 ELSE before
  IN  round[NFrames]

HeapFrames(vm) ==
  LET round[k \in 0..HeapPages] ==
        IF k = 0 THEN vm
        ELSE NewFrame(GetPage(round[k-1], HeapPage + k - 1), HeapPage + k - 1)
  IN  round[HeapPages]

\* Page 0 is taken out again, so that a NULL pointer faults; its frame stays in use.
ZeroPageUnmapped(vm) == [vm EXCEPT !.frame = [p \in DOMAIN @ \ {0} |-> @[p]]]

AtBoot(end) == [phys |-> end, tables |-> {}, frame |-> <<>>, used |-> {},
                heap |-> 0, fault |-> FALSE]

VmInitHeapFirst(end) ==   \* mutant: the frames of the heap are allocated first
  ZeroPageUnmapped(IdentityMapping(HeapFrames(HeapTables(
    PhysicalAlloc(AtBoot(end), DirSize)))))

VmInit(end) ==
  ZeroPageUnmapped(HeapFrames(IdentityMapping(HeapTables(
    PhysicalAlloc(AtBoot(end), DirSize)))))

\* kmalloc, once the heap is there: the block begins where heap_addr was.
Kmalloc(vm, size) ==
  LET heap == vm.heap + size
  IN  [vm EXCEPT !.heap = heap, !.fault = @ \/ heap > HeapPages * PageSize]
=============================================================================
