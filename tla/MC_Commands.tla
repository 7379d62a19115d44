------------------------------ MODULE MC_Commands ------------------------------
(***************************************************************************)
(* The two processes of kmain and one that comhand creates and commands.   *)
(***************************************************************************)
EXTENDS Commands

CONSTANTS comhand, idle, p1

MCPrioOf == [p \in PCB |-> IF p = comhand THEN 9 ELSE 0]

MCNameOf == [p \in PCB |-> p]
=============================================================================
