--------------------------------- MODULE MC_Mpx ---------------------------------
(***************************************************************************)
(* The system as it is built: comhand, idle and the five processes of      *)
(* loadR3, which make 1, 2, 3, 4 and 5 rounds.                             *)
(***************************************************************************)
EXTENDS Mpx

CONSTANTS comhand, idle, proc1, proc2, proc3, proc4, proc5

\* kmain.c:109, 111 and loadR3: comhand 9, all the others 0.
MCPrioOf == [p \in PCB |-> IF p = comhand THEN 9 ELSE 0]

MCNameOf == [p \in PCB |-> p]

MCR3 == <<proc1, proc2, proc3, proc4, proc5>>

MCIterations ==
  [p \in PCB |-> IF \E k \in 1..5 : MCR3[k] = p THEN CHOOSE k \in 1..5 : MCR3[k] = p ELSE 0]
=============================================================================
