------------------------------ MODULE PcbQueues ------------------------------
(***************************************************************************)
(* The two PCB queues of kernel/pcb.c: singly linked lists threaded through*)
(* the `next` field of the PCBs themselves, so that one PCB can sit on both*)
(* lists, or on a list it is no longer meant to be on.  The operators take *)
(* and return a record                                                     *)
(*                                                                         *)
(*   [front, next, state, prio, fault]                                     *)
(*                                                                         *)
(* front["ready"] and front["blocked"] are readyPtr.front and              *)
(* blockedPtr.front; `count` and `rear` are written but never read, and are*)
(* left out, and so is the block that pcb_insert allocates and drops.      *)
(* `fault` says how the C code would have stopped: "null" is a NULL        *)
(* dereference (vm_init unmaps page 0, so it panics), "hang" is a walk     *)
(* round a cycle, "registers" an interrupt that took a register the code   *)
(* was using (Kernel.tla).  After a fault every operation leaves the record*)
(* alone.                                                                  *)
(***************************************************************************)
EXTENDS Naturals, FiniteSets

CONSTANTS
  PCB,      \* the PCBs that can be allocated
  NULL,     \* the null pointer
  Prios,    \* the priorities in use
  NameOf    \* the name each PCB is created with

ASSUME NullAssumption == NULL \notin PCB
ASSUME PcbAssumption == IsFiniteSet(PCB)

PcbOrNull == PCB \union {NULL}

\* The states of include/pcb.h, and "FREE" for a PCB not yet allocated.
ReadyStates == {"READY", "READY_SUSPENDED"}
BlockedStates == {"BLOCKED", "BLOCKED_SUSPENDED"}
States == ReadyStates \union BlockedStates \union {"RUNNING", "FREE"}

Lists == {"ready", "blocked"}
Faults == {"none", "null", "hang", "registers"}

QueueRecords ==
  [front : [Lists -> PcbOrNull], next : [PCB -> PcbOrNull],
   state : [PCB -> States], prio : [PCB -> Prios], fault : Faults]

InState(q, s) == {p \in PCB : q.state[p] = s}

Fail(q, f) == [q EXCEPT !.fault = f]

-----------------------------------------------------------------------------
(***************************************************************************)
(* Where the walk `while (p != NULL && p \notin S) p = p->next` from the   *)
(* front of a list stands after as many steps as there are PCBs: on a      *)
(* member of S, on NULL, or, on a cycle that avoids S, on some other PCB.  *)
(***************************************************************************)
WalkEnd(q, list, S) ==
  LET at[k \in 0..Cardinality(PCB)] ==
        IF k = 0 THEN q.front[list]
        ELSE LET here == at[k-1]
             IN IF here \in S \union {NULL} THEN here ELSE q.next[here]
  IN at[Cardinality(PCB)]

\* The first member of S on the list, NULL when the walk meets none.
FirstOf(q, list, S) ==
  LET met == {p \in S : p = WalkEnd(q, list, S)}
  IN IF met = {} THEN NULL ELSE CHOOSE p \in met : TRUE

Hangs(q, list, S) == WalkEnd(q, list, S) \notin S \union {NULL}

OnList(q, list) == {p \in PCB : FirstOf(q, list, {p}) = p}

Acyclic(q, list) == ~Hangs(q, list, {})

-----------------------------------------------------------------------------
\* The PCBs whose `next` is p: pcb_remove looks for the first on the list.
Before(q, p) == {r \in PCB : q.next[r] = p}

UnlinkToEnd(q, p, list) ==   \* mutant: the list ends where p was
  IF q.front[list] = NULL THEN q
  ELSE IF q.front[list] = p THEN [q EXCEPT !.front[list] = q.next[p]]
  ELSE IF Hangs(q, list, Before(q, p)) THEN Fail(q, "hang")
  ELSE LET prev == FirstOf(q, list, Before(q, p))
       IN IF prev = NULL THEN Fail(q, "null")
          ELSE [q EXCEPT !.next[prev] = NULL]

(***************************************************************************)
(* pcb_remove: p's state picks the list.  The unlinked PCB keeps its       *)
(* `next`.  The search for the predecessor of a PCB that is not on the list*)
(* runs past its end.                                                      *)
(***************************************************************************)
Unlink(q, p, list) ==
  IF q.front[list] = NULL THEN q
  ELSE IF q.front[list] = p THEN [q EXCEPT !.front[list] = q.next[p]]
  ELSE IF Hangs(q, list, Before(q, p)) THEN Fail(q, "hang")
  ELSE LET prev == FirstOf(q, list, Before(q, p))
       IN IF prev = NULL THEN Fail(q, "null")
          ELSE [q EXCEPT !.next[prev] = q.next[p]]

PcbRemove(q, p) ==
  IF q.fault # "none" \/ p = NULL THEN q
  ELSE IF q.state[p] \in ReadyStates THEN Unlink(q, p, "ready")
  ELSE IF q.state[p] \in BlockedStates THEN Unlink(q, p, "blocked")
  ELSE q

LinkBehindOrFirst(q, p, list, Stops) ==   \* mutant: the front can be displaced
  IF q.front[list] = NULL THEN [q EXCEPT !.front[list] = p]
  ELSE IF list = "ready" /\ q.prio[q.front[list]] > q.prio[p]
  THEN [q EXCEPT !.front[list] = p, !.next[p] = q.front[list]]
  ELSE LET temp == FirstOf(q, list, Stops)
       IN IF temp = NULL THEN Fail(q, "hang")
          ELSE [q EXCEPT !.next = [[@ EXCEPT ![temp] = p] EXCEPT ![p] = q.next[temp]]]

(***************************************************************************)
(* pcb_insert.  On an empty list p becomes the front and keeps whatever    *)
(* `next` it had.  Otherwise p goes behind the PCB the walk stops at: on   *)
(* the ready list the first one that is last or has a greater priority     *)
(* number (the front is never displaced), on the blocked list the last one.*)
(***************************************************************************)
LinkBehind(q, p, list, Stops) ==
  IF q.front[list] = NULL THEN [q EXCEPT !.front[list] = p]
  ELSE LET temp == FirstOf(q, list, Stops)
       IN IF temp = NULL THEN Fail(q, "hang")
          ELSE [q EXCEPT !.next = [[@ EXCEPT ![temp] = p] EXCEPT ![p] = q.next[temp]]]

PcbInsert(q, p) ==
  IF q.fault # "none" THEN q
  ELSE IF q.state[p] \in ReadyStates
    THEN LinkBehind(q, p, "ready",
                    {r \in PCB : q.next[r] = NULL \/ q.prio[r] > q.prio[p]})
  ELSE IF q.state[p] \in BlockedStates
    THEN LinkBehind(q, p, "blocked", {r \in PCB : q.next[r] = NULL})
  ELSE q

-----------------------------------------------------------------------------
(***************************************************************************)
(* pcb_find: the first PCB of that name on the ready list; the blocked list*)
(* is searched only when the ready list is empty.                          *)
(***************************************************************************)
Named(name) == {p \in PCB : NameOf[p] = name}

SearchedList(q) == IF q.front["ready"] # NULL THEN "ready" ELSE "blocked"

PcbFind(q, name) == FirstOf(q, SearchedList(q), Named(name))

FindHangs(q, name) == Hangs(q, SearchedList(q), Named(name))
=============================================================================
