-------------------------------- MODULE Kernel --------------------------------
(***************************************************************************)
(* The system call handler of kernel/isr.c with the part of the serial     *)
(* driver it drives: io_scheduler, the start of a read or a write, the     *)
(* device's event flag and status, and the completion interrupts.          *)
(*                                                                         *)
(* A step is one system call: sys_call_isr runs with interrupts disabled,  *)
(* so that no interrupt falls inside it.  Which process makes which request*)
(* is left open here: the process on the processor may ask for anything,   *)
(* also for what an interrupt made of its operation code.  Mpx.tla says    *)
(* what the programs of this system ask for.                               *)
(***************************************************************************)
EXTENDS PcbQueues, Sequences

CONSTANTS
  KMAIN,            \* the boot context: kmain itself, which has no PCB
  Comhand, Idle,    \* the two processes kmain creates
  PrioOf            \* the priority each PCB is created with

ASSUME BootAssumption == /\ Comhand \in PCB /\ Idle \in PCB /\ Comhand # Idle
                         /\ KMAIN \notin PCB \union {NULL}
ASSUME PrioAssumption == PrioOf \in [PCB -> Prios]

VARIABLES
  q,                \* the PCBs and their two queues
  cur_process,      \* the process the kernel believes to be running, or NULL
  initial_context,  \* whose context was saved in initial_context
  device1,          \* the device control block of COM1
  cpu               \* whose context is on the processor

vars == <<q, cur_process, initial_context, device1, cpu>>

Statuses == {"IDLE", "READ", "WRITE", "IO_IDLE"}

(***************************************************************************)
(* `sending` says that characters of the current write are still to be     *)
(* transmitted: serial_write sends the first one, the interrupts the rest. *)
(***************************************************************************)
Devices == [event_flag : {0, 1}, status : Statuses, sending : BOOLEAN,
            iocb_queue : Seq(PCB)]

-----------------------------------------------------------------------------
BootQueuesIdleFirst ==   \* mutant: idle is created before comhand
  LET created == [front |-> [l \in Lists |-> NULL], next |-> [p \in PCB |-> NULL],
                  state |-> [p \in PCB |-> IF p \in {Comhand, Idle} THEN "READY" ELSE "FREE"],
                  prio |-> PrioOf, fault |-> "none"]
  IN PcbInsert(PcbInsert(created, Idle), Comhand)

\* kmain: createProc for comhand, then for idle, on empty queues.
BootQueues ==
  LET created == [front |-> [l \in Lists |-> NULL], next |-> [p \in PCB |-> NULL],
                  state |-> [p \in PCB |-> IF p \in {Comhand, Idle} THEN "READY" ELSE "FREE"],
                  prio |-> PrioOf, fault |-> "none"]
  IN PcbInsert(PcbInsert(created, Comhand), Idle)

\* create_dcb, called by serial_open.
CreateDcb == [event_flag |-> 0, status |-> "IDLE", sending |-> FALSE, iocb_queue |-> <<>>]

Init == /\ q = BootQueues
        /\ cur_process = NULL
        /\ initial_context = NULL
        /\ device1 = CreateDcb
        /\ cpu = KMAIN

-----------------------------------------------------------------------------
(***************************************************************************)
(* The first part of sys_call.  A set event flag ends the transfer in      *)
(* progress: the first blocked process becomes ready (with none, the code  *)
(* writes through a NULL pointer) and the next I/O request is started.     *)
(***************************************************************************)
Sleeper == FirstOf(q, "blocked", InState(q, "BLOCKED"))

SleeperStillBlocked ==   \* mutant: the state of the woken process is not assigned
  PcbInsert(PcbRemove(q, Sleeper), Sleeper)

SleeperReadied ==
  LET removed == PcbRemove(q, Sleeper)
  IN PcbInsert([removed EXCEPT !.state[Sleeper] = "READY"], Sleeper)

\* serial_write and serial_read start nothing on a NULL or empty buffer.  A read
\* waits in serial_poll for its line, and leaves the status READ behind.
SerialWrite(dev) == {dev, [dev EXCEPT !.status = "WRITE", !.sending = TRUE]}
SerialRead(dev) == {dev, [dev EXCEPT !.status = "READ"]}

\* next_iocb copies the head of the queue, which stays there, and the copy's
\* operation is the status of the device, IDLE by now: always a write.
StartNextIocb(dev) == IF dev.iocb_queue = <<>> THEN {dev} ELSE SerialWrite(dev)

IocbProcessInserted(qq) ==
  IF device1.iocb_queue = <<>> THEN qq ELSE PcbInsert(qq, Head(device1.iocb_queue))

QueuesAfterEvent ==
  IF device1.event_flag = 0 THEN q
  ELSE IF Hangs(q, "blocked", InState(q, "BLOCKED")) THEN Fail(q, "hang")
  ELSE IF Sleeper = NULL THEN Fail(q, "null")
  ELSE IocbProcessInserted(SleeperReadied)

\* Mutants: the status is not reset; the flag is not reset.
DevicesStillBusy ==
  IF device1.event_flag = 0 THEN {device1}
  ELSE StartNextIocb([device1 EXCEPT !.event_flag = 0, !.sending = FALSE])

DevicesStillFlagged ==
  IF device1.event_flag = 0 THEN {device1}
  ELSE StartNextIocb([device1 EXCEPT !.status = "IDLE", !.sending = FALSE])

DevicesAfterEvent ==
  IF device1.event_flag = 0 THEN {device1}
  ELSE StartNextIocb([device1 EXCEPT !.event_flag = 0, !.status = "IDLE", !.sending = FALSE])

(***************************************************************************)
(* The second part: the first READY process on the ready list is unlinked  *)
(* before the request itself is looked at.                                 *)
(***************************************************************************)
NextReady(qq) == FirstOf(qq, "ready", InState(qq, "READY"))

NextRemoved(qq) ==
  IF qq.fault = "none" /\ Hangs(qq, "ready", InState(qq, "READY"))
  THEN Fail(qq, "hang")
  ELSE PcbRemove(qq, NextReady(qq))

\* A fault stops the machine where it is: nothing but the fault is recorded.
Crash(qq) == /\ q' = Fail(q, qq.fault)
             /\ UNCHANGED <<cur_process, initial_context, device1, cpu>>

DispatchUnchecked(qq, next_pcb, saved) ==   \* mutant: no test for an empty ready list
  /\ initial_context' = saved
  /\ cur_process' = next_pcb
  /\ cpu' = next_pcb
  /\ q' = IF next_pcb = NULL THEN qq ELSE [qq EXCEPT !.state[next_pcb] = "RUNNING"]

(***************************************************************************)
(* The last part of sys_call: the process taken from the ready list runs,  *)
(* or, when there was none, whichever context is in initial_context.       *)
(***************************************************************************)
Dispatch(qq, next_pcb, saved) ==
  /\ initial_context' = saved
  /\ cur_process' = next_pcb
  /\ IF next_pcb = NULL
     THEN q' = qq /\ cpu' = saved
     ELSE q' = [qq EXCEPT !.state[next_pcb] = "RUNNING"] /\ cpu' = next_pcb

-----------------------------------------------------------------------------
Running == q.fault = "none"

\* kmain makes a single system call; once resumed, it shuts the system down.
MakesCalls == Running /\ (cpu = KMAIN => initial_context = NULL)

SaveContextUnsaved ==   \* mutant: initial_context is not assigned
  /\ MakesCalls
  /\ device1.event_flag = 1 \/ cur_process = NULL
  /\ LET next_pcb == NextReady(QueuesAfterEvent)
         qq == NextRemoved(QueuesAfterEvent)
     IN IF qq.fault # "none" THEN Crash(qq)
        ELSE /\ Dispatch(qq, next_pcb, initial_context)
             /\ device1' \in DevicesAfterEvent

(***************************************************************************)
(* A call made while an event is pending, or while cur_process is NULL, is *)
(* not performed: the caller's context goes to initial_context, whatever it*)
(* asked for.                                                              *)
(***************************************************************************)
SaveContext ==
  /\ MakesCalls
  /\ device1.event_flag = 1 \/ cur_process = NULL
  /\ LET next_pcb == NextReady(QueuesAfterEvent)
         qq == NextRemoved(QueuesAfterEvent)
     IN IF qq.fault # "none" THEN Crash(qq)
        ELSE /\ Dispatch(qq, next_pcb, cpu)
             /\ device1' \in DevicesAfterEvent

\* Otherwise the request of cur_process is performed.
Performs == MakesCalls /\ device1.event_flag = 0 /\ cur_process # NULL

\* Mutants: the state is assigned after pcb_insert; pcb_insert is not called.
CurMovedLate(s) == [PcbInsert(NextRemoved(q), cur_process) EXCEPT !.state[cur_process] = s]
CurMovedNowhere(s) == [NextRemoved(q) EXCEPT !.state[cur_process] = s]

\* cur_process goes to state s and, when s has a list, onto it.
CurMovedTo(s) ==
  PcbInsert([NextRemoved(q) EXCEPT !.state[cur_process] = s], cur_process)

IdleCall ==
  /\ Performs
  /\ LET qq == CurMovedTo("READY")
     IN IF qq.fault # "none" THEN Crash(qq)
        ELSE Dispatch(qq, NextReady(q), initial_context) /\ UNCHANGED device1

\* The PCB keeps its state and, if it is linked anywhere, its place.
ExitCall ==
  /\ Performs
  /\ LET qq == PcbRemove(NextRemoved(q), cur_process)
     IN IF qq.fault # "none" THEN Crash(qq)
        ELSE Dispatch(qq, NextReady(q), initial_context) /\ UNCHANGED device1

Started(op) == IF op = "READ" THEN SerialRead(device1) ELSE SerialWrite(device1)

\* iocb_insert, of a copy of the request in progress.
IocbInserted == [device1 EXCEPT !.iocb_queue = Append(@, cur_process)]

\* Mutants: the flag is left to the last interrupt; a request for nothing does
\* not set it.
IoSchedulerUnflagged(op) ==
  IF device1.status # "IDLE" THEN {IocbInserted}
  ELSE {IF d = device1 THEN [d EXCEPT !.event_flag = 1] ELSE d : d \in Started(op)}

IoSchedulerEmptyUnflagged(op) ==
  IF device1.status # "IDLE" THEN {IocbInserted}
  ELSE {IF d = device1 THEN d ELSE [d EXCEPT !.event_flag = 1] : d \in Started(op)}

(***************************************************************************)
(* io_scheduler: a device that is not idle gets a request queued; an idle  *)
(* one starts it, and the event flag is set at once in any case.           *)
(***************************************************************************)
IoScheduler(op) ==
  IF device1.status # "IDLE" THEN {IocbInserted}
  ELSE {[d EXCEPT !.event_flag = 1] : d \in Started(op)}

WriteCallStays ==   \* mutant: the caller's context is returned, as READ does
  /\ Performs
  /\ LET qq == CurMovedTo("BLOCKED")
     IN IF qq.fault # "none" THEN Crash(qq)
        ELSE /\ q' = qq
             /\ cur_process' = NULL
             /\ device1' \in IoScheduler("WRITE")
             /\ UNCHANGED <<initial_context, cpu>>

WriteCall ==
  /\ Performs
  /\ LET qq == CurMovedTo("BLOCKED")
     IN IF qq.fault # "none" THEN Crash(qq)
        ELSE /\ Dispatch(qq, NextReady(q), initial_context)
             /\ device1' \in IoScheduler("WRITE")

ReadCallStillCur ==   \* mutant: cur_process is not reset
  /\ Performs
  /\ LET qq == CurMovedTo("BLOCKED")
     IN IF qq.fault # "none" THEN Crash(qq)
        ELSE /\ q' = qq
             /\ device1' \in IoScheduler("READ")
             /\ UNCHANGED <<cur_process, initial_context, cpu>>

(***************************************************************************)
(* The read has been answered when io_scheduler returns: serial_poll waits *)
(* for the line with interrupts disabled.  The caller is queued as blocked,*)
(* yet its own context is returned: it stays on the processor, and the     *)
(* process that was unlinked from the ready list is forgotten.             *)
(***************************************************************************)
ReadCall ==
  /\ Performs
  /\ LET qq == CurMovedTo("BLOCKED")
     IN IF qq.fault # "none" THEN Crash(qq)
        ELSE /\ q' = qq
             /\ cur_process' = NULL
             /\ device1' \in IoScheduler("READ")
             /\ UNCHANGED <<initial_context, cpu>>

\* Any other operation code: -1 in EAX, and the unlinked process is forgotten.
InvalidCall ==
  /\ Performs
  /\ LET qq == NextRemoved(q)
     IN IF qq.fault # "none" THEN Crash(qq)
        ELSE q' = qq /\ UNCHANGED <<cur_process, initial_context, device1, cpu>>

SysCall == SaveContext \/ IdleCall \/ ExitCall \/ WriteCall \/ ReadCall \/ InvalidCall

-----------------------------------------------------------------------------
(***************************************************************************)
(* createProc, called by code of the running process: nothing happens when *)
(* pcb_find meets a PCB of that name.                                      *)
(***************************************************************************)
CreateProc(p) ==
  /\ Running /\ cpu \in PCB
  /\ q.state[p] = "FREE"
  /\ LET qq == IF FindHangs(q, NameOf[p]) THEN Fail(q, "hang")
               ELSE IF PcbFind(q, NameOf[p]) # NULL THEN q
               ELSE PcbInsert([q EXCEPT !.state[p] = "READY"], p)
     IN IF qq.fault # "none" THEN Crash(qq)
        ELSE q' = qq /\ UNCHANGED <<cur_process, initial_context, device1, cpu>>

\* sht_dwn, before it exits: readyPtr.front = NULL.
ReadyCleared ==
  /\ Running /\ cpu \in PCB
  /\ q' = [q EXCEPT !.front["ready"] = NULL]
  /\ UNCHANGED <<cur_process, initial_context, device1, cpu>>

-----------------------------------------------------------------------------
\* serial_output_interrupt, for the last character (the earlier ones leave
\* these variables alone): the flag is set and the interrupt masked.
OutputInterrupt ==
  /\ Running
  /\ device1.status = "WRITE" /\ device1.sending
  /\ device1' = [device1 EXCEPT !.event_flag = 1, !.sending = FALSE]
  /\ UNCHANGED <<q, cur_process, initial_context, cpu>>

\* serial_input_interrupt while reading, when buff_index (left over from the
\* last write) exceeds 20.
InputInterrupt ==
  /\ Running
  /\ device1.status = "READ"
  /\ device1' = [device1 EXCEPT !.event_flag = 1, !.status = "IO_IDLE"]
  /\ UNCHANGED <<q, cur_process, initial_context, cpu>>

(***************************************************************************)
(* serial_isr saves no registers: the interrupted code goes on with 0x20 in*)
(* EAX and EDX (from the last outb) and with whatever the driver left in   *)
(* ECX.  Any key typed can do that to any code that runs with interrupts   *)
(* enabled, createProc and the walks of pcb_find and pcb_insert included.  *)
(* A lost operation code makes its call an InvalidCall, and a lost length  *)
(* another length.  Anything else, a pointer in flight above all, ends in a*)
(* page fault or in memory overwritten at random: this step, which nothing *)
(* follows.  It can come before and after CreateProc, and so inside it, as *)
(* nothing is said of the queues once it has come.                         *)
(***************************************************************************)
RegistersLost == Running /\ Crash(Fail(q, "registers"))

Next == \/ SysCall
        \/ \E p \in PCB : CreateProc(p)
        \/ ReadyCleared
        \/ OutputInterrupt
        \/ InputInterrupt
        \/ RegistersLost

Spec == Init /\ [][Next]_vars

-----------------------------------------------------------------------------
TypeOK ==
  /\ q \in QueueRecords
  /\ cur_process \in PcbOrNull
  /\ initial_context \in PCB \union {KMAIN, NULL}
  /\ device1 \in Devices
  /\ cpu \in PCB \union {KMAIN}

\* The process the kernel takes for the running one (cur_process, isr.c:190)
\* is the one whose context is on the processor, and is in state RUNNING.
CurIsOnCpu ==
  cur_process # NULL => cpu = cur_process /\ q.state[cur_process] = "RUNNING"

\* A context is in initial_context before the first process is dispatched, so
\* that sys_call never returns NULL (isr.c:186) as the stack to resume on.
ContextSaved ==
  initial_context = NULL => cur_process = NULL /\ cpu = KMAIN

\* A device in the middle of a transfer has its event flag set, so that the
\* next system call, whoever makes it, ends the transfer (isr.c:20, 57).
BusyIsFlagged == device1.status # "IDLE" => device1.event_flag = 1

\* No request ever finds the device busy: the request queue of io_scheduler
\* (serial.c:103) stays empty and sys_call (isr.c:61) never starts from it.
IocbQueueUnused == device1.iocb_queue = <<>>

\* The flag is set exactly while one process, and one only, waits for the
\* device (isr.c:30, 140, 154): no wake-up is lost and none comes twice.
OneSleeper ==
  IF device1.event_flag = 1
  THEN \E p \in PCB : InState(q, "BLOCKED") = {p}
  ELSE InState(q, "BLOCKED") = {}

\* Whatever is asked for, and however the lists got tangled, the waiting process
\* can be reached from blockedPtr.front, where the wake-up looks (isr.c:27).
SleeperOnBlockedList == InState(q, "BLOCKED") \subseteq OnList(q, "blocked")

\* sys_call, createProc and the queue operations they call follow no NULL
\* pointer (isr.c:41, pcb.c:198, 223).
NoNullDereference == q.fault # "null"

\* A process starts running only from READY, or, in the call that ends its own
\* transfer, from BLOCKED (isr.c:41, 191): never one that is not yet created.
RunsOnlyWhenReady ==
  [][\A p \in PCB :
       q.state[p] # "RUNNING" /\ q'.state[p] = "RUNNING" =>
         \/ q.state[p] = "READY"
         \/ q.state[p] = "BLOCKED" /\ device1.event_flag = 1 /\ device1'.event_flag = 0]_vars

(***************************************************************************)
(* The stage of each process, as ProcessStates.tla has it.  A PCB in state *)
(* RUNNING that is not cur_process belongs to a process that has exited or *)
(* whose context was taken for initial_context.                            *)
(***************************************************************************)
StageOf ==
  [p \in PCB |-> CASE q.state[p] = "FREE" -> "free"
                  [] q.state[p] = "READY" -> "ready"
                  [] q.state[p] = "BLOCKED" -> "waiting"
                  [] OTHER -> IF p = cur_process THEN "running" ELSE "adrift"]

Process == INSTANCE ProcessStates WITH stage <- StageOf, Boot <- {Comhand, Idle}

\* sys_call and createProc, faults and tangled lists included, take a process
\* through its stages as ProcessStates says: one runs and one waits at most, who
\* waits is readied by the next call, who is adrift stays so (isr.c:17-196).
ImplementsProcessStates == Process!Spec
=============================================================================
