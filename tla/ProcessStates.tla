----------------------------- MODULE ProcessStates -----------------------------
(***************************************************************************)
(* What the kernel promises of its processes, whatever its lists look like *)
(* and whatever is asked of it: the stages a process goes through, that one*)
(* process at most runs and one at most waits, and that whoever waits is   *)
(* readied by the very next change of the processor.                       *)
(*                                                                         *)
(*   free      its PCB is not allocated                                    *)
(*   ready     it can be dispatched                                        *)
(*   running   it is the process the kernel serves                         *)
(*   waiting   it waits for the device                                     *)
(*   adrift    it ended, or a call of its met an event: no request of it is*)
(*             performed any more, though its context may still run        *)
(***************************************************************************)
CONSTANTS
  PCB,      \* the processes
  Boot      \* those the system starts with

VARIABLE stage

Stages == {"free", "ready", "running", "waiting", "adrift"}

At(s) == {p \in PCB : stage[p] = s}

Init == stage = [p \in PCB |-> IF p \in Boot THEN "ready" ELSE "free"]

-----------------------------------------------------------------------------
\* A dispatch: one of the candidates, or none.
AtMostOne(candidates) == {{}} \union {{n} : n \in candidates}

Create(p) == /\ stage[p] = "free"
             /\ stage' = [stage EXCEPT ![p] = "ready"]

\* The running process has a request performed: it yields, waits or ends.
Leave(p) ==
  /\ stage[p] = "running" /\ At("waiting") = {}
  /\ \E s \in {"ready", "waiting", "adrift"}, next \in AtMostOne(At("ready")) :
       stage' = [r \in PCB |-> IF r \in next THEN "running"
                              ELSE IF r = p THEN s
                              ELSE stage[r]]

\* The wait of p is over.  The process whose call found that out is cast adrift,
\* and p itself may be dispatched at once.
EndWait(p) ==
  /\ stage[p] = "waiting"
  /\ \E next \in AtMostOne(At("ready") \union {p}) :
       stage' = [r \in PCB |-> IF r \in next THEN "running"
                              ELSE IF r = p THEN "ready"
                              ELSE IF stage[r] = "running" THEN "adrift"
                              ELSE stage[r]]

\* Nobody runs or waits: a process that is ready takes over.
Resume(p) == /\ At("running") = {} /\ At("waiting") = {} /\ stage[p] = "ready"
             /\ stage' = [stage EXCEPT ![p] = "running"]

Next == \E p \in PCB : Create(p) \/ Leave(p) \/ EndWait(p) \/ Resume(p)

Spec == Init /\ [][Next]_stage

-----------------------------------------------------------------------------
StagesOK == stage \in [PCB -> Stages]

\* Two processes never run, and two never wait.
OneEach == \A p, r \in PCB : stage[p] = stage[r] /\ stage[p] \in {"running", "waiting"} => p = r

\* Who has been cast adrift is never dispatched again.
AdriftForGood == [][\A p \in PCB : stage[p] = "adrift" => stage'[p] = "adrift"]_stage
=============================================================================
