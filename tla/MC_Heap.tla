-------------------------------- MODULE MC_Heap --------------------------------
(***************************************************************************)
(* A small heap with the code's own sizes, but for the stack (1024 bytes   *)
(* there), which no hole can hold here either.  Pages have 64 bytes, and a *)
(* page table has 8 of them.                                               *)
(***************************************************************************)
EXTENDS Boot

\* sizeof(pcb), a stack, a name.
MCPcbSizes == <<32, 60, 6>>
=============================================================================
