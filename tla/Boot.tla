---------------------------------- MODULE Boot ----------------------------------
(***************************************************************************)
(* kmain up to the heap and its users: vm_init maps the kernel heap, one   *)
(* kmalloc of initialize_heap takes the memory of the heap manager from it,*)
(* and sys_set_heap_functions then lets nobody else call kmalloc.  Address *)
(* 0 of HeapManager is the block that kmalloc returned.                    *)
(***************************************************************************)
EXTENDS MpxHeap, Paging

\* What initialize_heap asks for fits into the kernel heap.
ASSUME HeapRoomAssumption == HeapSize + Header <= HeapPages * PageSize

VARIABLE vm     \* the page tables and the two allocators of core.c

boot_vars == <<mpx_heap_vars, vm>>

BootInit ==
  /\ \E end \in KernelEnds : vm = Kmalloc(VmInit(end), HeapSize + Header)
  /\ MpxHeapInit

\* The model ends where a block overlaps another: what its owner writes there
\* is no longer the heap's to say.
BootSpec == BootInit /\ [][AllocatedDisjoint /\ ClientsNext /\ UNCHANGED vm]_boot_vars

-----------------------------------------------------------------------------
PagesOf(addr, size) ==
  (HeapPage + (addr \div PageSize))..(HeapPage + ((addr + size - 1) \div PageSize))

\* Where vm_init turns paging on, the code it runs, the stack and the page tables
\* stay where they are (core.c:455-471): every byte that was given away is mapped to
\* itself, tables made on the way included, but for page 0.
IdentityMapped ==
  \A page \in 1..((vm.phys - 1) \div PageSize) :
    page \in DOMAIN vm.frame /\ vm.frame[page] = page

\* Every header and every block of the heap lies in memory: on pages that are
\* present, on frames no other page is mapped to (core.c:419, 462;
\* heap_manager.c:16).
HeapBacked ==
  /\ ~vm.fault
  /\ \A page \in UNION ({PagesOf(b, Header) : b \in DOMAIN mcb}
                         \union {PagesOf(h.start, h.size) : h \in held}) :
       /\ page \in DOMAIN vm.frame
       /\ \A other \in DOMAIN vm.frame \ {page} : vm.frame[other] # vm.frame[page]
=============================================================================
