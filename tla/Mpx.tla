---------------------------------- MODULE Mpx ----------------------------------
(***************************************************************************)
(* The kernel with the programs this system runs on it: kmain, the idle    *)
(* process, the R3 test processes of user/system.c and the command handler.*)
(* A process is the point of its program it resumes at, and a saved context*)
(* is such a point, kept in memory that belongs to its owner's stack.      *)
(*                                                                         *)
(* An interrupt that takes a register in use (serial_isr saves none) is    *)
(* followed in two places: between the load of the operation code and int  *)
(* 0x60, where the call becomes an invalid one, and in the loop test of    *)
(* r3_proc, which a process leaves for its EXIT because 0x20 exceeds its   *)
(* number of rounds.  `lost` counts these, up to the bound Losses.  Any    *)
(* other such interrupt is RegistersLost, after which nothing is said.     *)
(***************************************************************************)
EXTENDS Kernel

CONSTANTS
  R3,               \* the test processes, in the order loadR3 creates them
  Iterations,       \* the rounds each of them makes before it exits
  Losses            \* bound: the operation codes and loop counters lost to interrupts

ASSUME R3Assumption == /\ R3 \in Seq(PCB \ {Comhand, Idle})
                       /\ Iterations \in [PCB -> Nat]
ASSUME LossesAssumption == Losses \in Nat

VARIABLES
  pc,               \* the point the context on the processor is at
  top,              \* the point in the frame each PCB's `top` refers to
  initial_pc,       \* the point in the frame initial_context refers to
  lost              \* the operation codes and loop counters lost so far

mpx_vars == <<q, cur_process, initial_context, device1, cpu, pc, top, initial_pc, lost>>

R3Set == {R3[k] : k \in 1..Len(R3)}

-----------------------------------------------------------------------------
(***************************************************************************)
(* r3_proc(iterations): WRITE, WRITE, IDLE in each round, EXIT, and for a  *)
(* process that comes back from its EXIT, WRITE, WRITE, EXIT for ever.     *)
(***************************************************************************)
ExitPoint(p) == 3 * Iterations[p] + 1

R3Request(p, at) ==
  IF at \in {ExitPoint(p), ExitPoint(p) + 3} THEN "EXIT"
  ELSE IF at < ExitPoint(p) /\ at % 3 = 0 THEN "IDLE"
  ELSE "WRITE"

R3After(p, at) == IF at = ExitPoint(p) + 3 THEN ExitPoint(p) + 1 ELSE at + 1

(***************************************************************************)
(* The command handler, its menus reduced to what the kernel sees: it      *)
(* writes, asks for a line, acts on it and writes again.                   *)
(***************************************************************************)
Garbage == 0    \* a frame that something else has been stored over
Writes == 1     \* about to write a prompt or an answer
Asks == 2       \* about to read a line
Typed == 3      \* the line is in its buffer
SaysBye == 4    \* in sht_dwn, about to write "Shutting down"
Clears == 5     \* in sht_dwn, about to empty the ready queue
Leaves == 6     \* in sht_dwn, about to exit
Loads(k) == 6 + k   \* in loadR3, at the k-th process

ComhandPoints == {Garbage, Writes, Asks, Typed, SaysBye, Clears, Leaves}
                   \union {Loads(k) : k \in 1..Len(R3)}

EntryPoint == 1     \* of every program

MpxInit == /\ Init
           /\ pc = EntryPoint
           /\ top = [p \in PCB |-> EntryPoint]
           /\ initial_pc = EntryPoint
           /\ lost = 0

-----------------------------------------------------------------------------
(***************************************************************************)
(* What becomes of an older frame when its process calls the kernel anew,  *)
(* to resume at `new`.  Idle and the R3 processes make all their calls from*)
(* one function, hence from one stack address: the new frame replaces the  *)
(* old one.  The command handler calls from functions at various depths:   *)
(* the old frame can also be untouched, or be overwritten by other data.   *)
(***************************************************************************)
OldFrame(old, new) == IF cpu = Comhand THEN {old, new, Garbage} ELSE {new}

(***************************************************************************)
(* System call `op` of the process on the processor, which will resume at  *)
(* `new` whenever the frame of this call is returned to.                   *)
(***************************************************************************)
SavedInTop(op) == Performs /\ op \in {"IDLE", "READ", "WRITE"}

Tops(op, new) ==
  IF cpu \notin PCB THEN {top}
  ELSE IF SavedInTop(op) THEN {[top EXCEPT ![cpu] = new]}
  ELSE {[top EXCEPT ![cpu] = at] : at \in OldFrame(top[cpu], new)}

InitialPcs(new) ==
  IF ~Performs THEN {new}
  ELSE IF initial_context = cpu THEN OldFrame(initial_pc, new)
  ELSE {initial_pc}

Requested(op) ==
  \/ SaveContext
  \/ op = "INVALID" /\ InvalidCall
  \/ op = "IDLE" /\ IdleCall
  \/ op = "EXIT" /\ ExitCall
  \/ op = "WRITE" /\ WriteCall
  \/ op = "READ" /\ ReadCall

Call(op, new) ==
  /\ Requested(op)
  /\ IF q'.fault # "none" THEN UNCHANGED <<pc, top, initial_pc>>
     ELSE /\ top' \in Tops(op, new)
          /\ initial_pc' \in InitialPcs(new)
          /\ pc' = IF Performs /\ op \in {"READ", "INVALID"} THEN new
                   ELSE IF cur_process' # NULL THEN top'[cur_process']
                   ELSE initial_pc'

Loses == lost < Losses /\ lost' = lost + 1

(***************************************************************************)
(* sys_req loads EAX, EBX, ECX and EDX, then traps.  An interrupt after the*)
(* first load leaves 0x20 for the operation code: the call is not performed*)
(* and -1 comes back, so that sys_req itself reads or writes, by polling.  *)
(***************************************************************************)
SysReq(op, new) ==
  \/ Call(op, new) /\ UNCHANGED lost
  \/ Performs /\ Call("INVALID", new) /\ Loses

-----------------------------------------------------------------------------
Kmain == cpu = KMAIN /\ SysReq("IDLE", pc + 1)

IdleProcess == cpu = Idle /\ SysReq("IDLE", EntryPoint)

R3Goes == cpu \in R3Set /\ SysReq(R3Request(cpu, pc), R3After(cpu, pc))

\* EAX is lost in the test of the loop, or in the increment before it.
R3LeavesLoop ==
  /\ cpu \in R3Set
  /\ pc < ExitPoint(cpu) /\ pc % 3 = 1
  /\ Call("EXIT", R3After(cpu, ExitPoint(cpu)))
  /\ Loses

R3Process == R3Goes \/ R3LeavesLoop

ComhandAt(points) == cpu = Comhand /\ pc \in points

ComhandWrites ==
  /\ ComhandAt({Writes, Typed})
  /\ \E new \in {Writes, Asks} : SysReq("WRITE", new)

ComhandReads == ComhandAt({Asks}) /\ SysReq("READ", Typed)

\* User code of the command handler, up to its next system call.
ComhandGoes(from, to) ==
  /\ Running
  /\ ComhandAt({from})
  /\ pc' = to
  /\ UNCHANGED <<top, initial_pc, lost>>

\* "Load R3", here at most once: one createProc after the other.
LoadR3 ==
  /\ Len(R3) > 0 /\ \A p \in R3Set : q.state[p] = "FREE"
  /\ ComhandGoes(Typed, Loads(1))
  /\ UNCHANGED vars

LoadR3PcbOffByOne ==   \* mutant: the end of the list is seen one process late
  \E k \in 1..Len(R3) :
    /\ CreateProc(R3[k])
    /\ ComhandGoes(Loads(k), IF k > Len(R3) THEN Writes ELSE Loads(k + 1))

LoadR3Pcb ==
  \E k \in 1..Len(R3) :
    /\ CreateProc(R3[k])
    /\ ComhandGoes(Loads(k), IF k = Len(R3) THEN Writes ELSE Loads(k + 1))

\* "Shutdown", confirmed.
ShtDwn == ComhandGoes(Typed, SaysBye) /\ UNCHANGED vars
ShtDwnWrites == ComhandAt({SaysBye}) /\ SysReq("WRITE", Clears)
ShtDwnClears == ReadyCleared /\ ComhandGoes(Clears, Leaves)
\* A comhand that comes back from its EXIT returns from its first function,
\* to an address that was never put on its stack.
ShtDwnExits == ComhandAt({Leaves}) /\ SysReq("EXIT", Garbage)

\* An answer that is neither 1 nor 2, or a question that was swallowed: sht_dwn
\* returns 0 and the command handler returns as well, with the same effect.
ShtDwnRefuses == ComhandAt({Typed}) /\ SysReq("WRITE", Garbage)

ComhandProcess == \/ ComhandWrites \/ ComhandReads
                  \/ LoadR3 \/ LoadR3Pcb
                  \/ ShtDwn \/ ShtDwnWrites \/ ShtDwnClears \/ ShtDwnExits
                  \/ ShtDwnRefuses

Interrupt == (OutputInterrupt \/ InputInterrupt) /\ UNCHANGED <<pc, top, initial_pc, lost>>

\* Idle has no register in use but the operation code.
Derails == /\ RegistersLost
           /\ cpu # Idle
           /\ UNCHANGED <<pc, top, initial_pc, lost>>

Processor == Kmain \/ IdleProcess \/ R3Process \/ ComhandProcess

\* The idle process finds nothing ready, time and again.
Idling == /\ cpu = Idle /\ initial_context = Idle /\ cur_process = NULL
          /\ device1.event_flag = 0 /\ NextReady(q) = NULL

(***************************************************************************)
(* The processor does not stop: its context goes on to its next system call*)
(* (a read is answered: somebody types a line), and interrupts arrive.  The*)
(* second conjunct is weak fairness of Processor with its ENABLED, costly  *)
(* to evaluate, written out.  Nothing is assumed of a system that lost a   *)
(* register.                                                               *)
(***************************************************************************)
CanStep == lost = 0 /\ MakesCalls /\ pc # Garbage /\ ~Idling

Fairness == /\ WF_mpx_vars(Interrupt)
            /\ []<>~CanStep \/ []<><<~CanStep \/ Processor>>_mpx_vars

MpxNext == Processor \/ Interrupt \/ Derails

MpxSpec == MpxInit /\ [][MpxNext]_mpx_vars

FairMpxSpec == MpxSpec /\ Fairness

-----------------------------------------------------------------------------
MpxTypeOK == /\ TypeOK
             /\ pc \in Nat /\ (cpu = Comhand => pc \in ComhandPoints)
             /\ top \in [PCB -> Nat]
             /\ initial_pc \in Nat
             /\ lost \in 0..Losses

(***************************************************************************)
(* Where the liveness properties end: an interrupt took a register, the    *)
(* processor got a garbage frame, or kmain came back and shuts the system  *)
(* down.                                                                   *)
(***************************************************************************)
Over == \/ lost > 0
        \/ pc = Garbage
        \/ q.fault = "registers"
        \/ cpu = KMAIN /\ initial_context # NULL

\* With the programs of this system, and no command but "Load R3" and
\* "Shutdown", the kernel neither follows a NULL pointer nor walks round a cycle
\* (pcb.c:198, 244, 272; isr.c:41, 102) until an interrupt takes a register or
\* comhand resumes from garbage.
KernelSurvives == q.fault \in {"null", "hang"} => lost > 0

\* Idle is dispatched before the first event only, and never later, however few
\* processes are ready (isr.c:117, 178), unless an operation code was lost.
IdleRunsAtBoot ==
  [][lost = 0 /\ cur_process' = Idle /\ cur_process # Idle => initial_context = KMAIN]_mpx_vars

\* A test process that waits for its write is not on the processor (isr.c:192):
\* only the reader keeps it, and initial_context never holds a waiting process.
WaitingIsOffCpu == \A p \in R3Set : q.state[p] = "BLOCKED" => p \notin {cpu, initial_context}

\* A process that can be dispatched stays where the dispatcher looks until it is
\* dispatched: sys_call drops one only when it has unlinked it (isr.c:112) and
\* then returns to its caller (READ, isr.c:146, or an operation code an interrupt
\* took, isr.c:164), and sht_dwn drops them all.
DroppedOnlyByReturn ==
  [][lost = 0 =>
       \A p \in InState(q, "READY") \intersect OnList(q, "ready") :
         q'.state[p] = "READY" /\ p \notin OnList(q', "ready") =>
           \/ Performs /\ cpu' = cpu /\ p = NextReady(q)
           \/ ComhandAt({Clears})]_mpx_vars

\* Each process that waits for the device is woken (isr.c:20-42), unless the
\* system is over first.
SleeperWakes ==
  \A p \in PCB : (~Over /\ q.state[p] = "BLOCKED") ~> (Over \/ q.state[p] # "BLOCKED")

\* Nobody starves on the ready list (pcb.c:235, isr.c:99): a process that can be
\* dispatched is dispatched, or dropped from the list.
ReadyRuns ==
  \A p \in PCB :
    (~Over /\ q.state[p] = "READY" /\ p \in OnList(q, "ready"))
      ~> (Over \/ q.state[p] # "READY" \/ p \notin OnList(q, "ready"))

\* user/system.c:27: a process that exited is not supposed to print that it
\* " ran after it was terminated!".
NeverRunsAfterExit == \A p \in R3Set : cpu = p => pc <= ExitPoint(p)

\* user/system.c:18: RC_1 to RC_5 say "How many times each process prints its
\* message": an R3 process has made all its rounds when its EXIT is performed.
RoundsMade ==
  [][\A p \in R3Set :
       Performs /\ cpu = p /\ cur_process' # p /\ q'.state[p] = "RUNNING"
         => pc >= ExitPoint(p)]_mpx_vars

\* kernel/kmain.c:115 expects the processor back "After your command handler
\* returns", to shut the system down.
ShutdownReachesKmain ==
  (~Over /\ ComhandAt({Leaves})) ~> (Over \/ cpu = KMAIN)
=============================================================================
