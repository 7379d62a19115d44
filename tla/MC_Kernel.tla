------------------------------- MODULE MC_Kernel -------------------------------
(***************************************************************************)
(* The kernel under every sequence of requests, with the two processes of  *)
(* kmain and two PCBs that createProc may add.                             *)
(***************************************************************************)
EXTENDS Kernel, TLC

CONSTANTS comhand, idle, p1, p2

\* kmain gives comhand priority 9 and idle 0; createProc here a third one.
MCPrioOf == [p \in PCB |-> IF p = comhand THEN 9 ELSE IF p = idle THEN 0 ELSE 7]

\* p2 is created under the name of p1: pcb_find may or may not notice.
MCNameOf == [p \in PCB |-> IF p = p2 THEN p1 ELSE p]

\* p1 and p2 have one name and one priority, and names are only compared.
Twins == Permutations({p1, p2})
=============================================================================
