-------------------------------- MODULE Commands --------------------------------
(***************************************************************************)
(* The process menu of the command handler on top of the kernel:           *)
(* delete_pcb, block_pcb, unblock_pcb, suspend_pcb, resume_pcb and         *)
(* set_pcb_prio, which comhand runs itself, as ordinary code, between two  *)
(* of its system calls. They look a PCB up by name and change it and the   *)
(* queues directly.                                                        *)
(***************************************************************************)
EXTENDS Kernel

CONSTANTS
  SystemClass,   \* the PCBs created with class 0
  Used,          \* the commands the user gives
  NewPrios       \* the priorities the user types

Commands == {"delete", "block", "unblock", "suspend", "resume", "prio"}

ASSUME CommandsAssumption == SystemClass \subseteq PCB /\ Used \subseteq Commands
                              /\ NewPrios \subseteq Prios

VARIABLES
  message,       \* the command that is writing to the terminal, and its PCB
  deleted        \* history: the PCBs delete_pcb has been given

cmd_vars == <<q, cur_process, initial_context, device1, cpu, message, deleted>>

NoMessage == [pcb |-> NULL, at |-> "none"]

CmdInit == Init /\ message = NoMessage /\ deleted = {}

-----------------------------------------------------------------------------
\* p moves from a state to another and is queued again: it stays, if it was
\* linked, where it was as well.
Requeued(p, moves) ==
  IF q.state[p] \in DOMAIN moves
  THEN PcbInsert([q EXCEPT !.state[p] = moves[@]], p)
  ELSE q

\* p moves from a state to another on the list it is on.
Restated(p, moves) ==
  IF q.state[p] \in DOMAIN moves THEN [q EXCEPT !.state[p] = moves[@]] ELSE q

DeletePcb(p) == IF p \in SystemClass THEN q ELSE PcbRemove(q, p)

BlockPcbRunning(p) ==   \* mutant: the running process is blocked, too
  Requeued(p, [READY |-> "BLOCKED", READY_SUSPENDED |-> "BLOCKED_SUSPENDED",
               RUNNING |-> "BLOCKED"])

BlockPcb(p) ==
  Requeued(p, [READY |-> "BLOCKED", READY_SUSPENDED |-> "BLOCKED_SUSPENDED"])

UnblockPcbResumes(p) ==   \* mutant: a suspended process is made READY
  Requeued(p, [BLOCKED |-> "READY", BLOCKED_SUSPENDED |-> "READY"])

UnblockPcb(p) ==
  Requeued(p, [BLOCKED |-> "READY", BLOCKED_SUSPENDED |-> "READY_SUSPENDED"])

SuspendPcb(p) ==
  IF p \in SystemClass THEN q
  ELSE Restated(p, [READY |-> "READY_SUSPENDED", BLOCKED |-> "BLOCKED_SUSPENDED"])

ResumePcb(p) ==
  Restated(p, [READY_SUSPENDED |-> "READY", BLOCKED_SUSPENDED |-> "BLOCKED"])

SetPcbPrio(p, prio) == PcbInsert([q EXCEPT !.prio[p] = prio], p)

-----------------------------------------------------------------------------
ComhandCommands == Running /\ cpu = Comhand /\ message = NoMessage

CommandDone(qq) ==
  IF qq.fault # "none" THEN Crash(qq)
  ELSE q' = qq /\ UNCHANGED <<cur_process, initial_context, device1, cpu>>

Found(name, p) ==
  /\ ComhandCommands
  /\ ~FindHangs(q, name)
  /\ p = PcbFind(q, name) /\ p # NULL
  /\ UNCHANGED message

Delete(name) ==
  /\ "delete" \in Used
  /\ \E p \in PCB : /\ Found(name, p)
                    /\ CommandDone(DeletePcb(p))
                    /\ deleted' = deleted \union ({p} \ SystemClass)

Block(name) ==
  /\ "block" \in Used
  /\ \E p \in PCB : Found(name, p) /\ CommandDone(BlockPcb(p)) /\ UNCHANGED deleted

Unblock(name) ==
  /\ "unblock" \in Used
  /\ \E p \in PCB : Found(name, p) /\ CommandDone(UnblockPcb(p)) /\ UNCHANGED deleted

Suspend(name) ==
  /\ "suspend" \in Used
  /\ \E p \in PCB : Found(name, p) /\ CommandDone(SuspendPcb(p)) /\ UNCHANGED deleted

Resume(name) ==
  /\ "resume" \in Used
  /\ \E p \in PCB : Found(name, p) /\ CommandDone(ResumePcb(p)) /\ UNCHANGED deleted

SearchHangs(name) ==
  /\ ComhandCommands /\ Used # {}
  /\ FindHangs(q, name)
  /\ Crash(Fail(q, "hang"))
  /\ UNCHANGED <<message, deleted>>

(***************************************************************************)
(* Two ways to write a message before going on with the pointer pcb_find   *)
(* returned: set_pcb_prio announces its success, and every command reports *)
(* an unknown name, and then uses the NULL pointer all the same.           *)
(***************************************************************************)
Announce(name) ==
  /\ ComhandCommands /\ Used # {}
  /\ ~FindHangs(q, name)
  /\ "prio" \in Used \/ PcbFind(q, name) = NULL
  /\ message' = [pcb |-> PcbFind(q, name), at |-> "writing"]
  /\ UNCHANGED vars /\ UNCHANGED deleted

MessageWritten ==
  /\ cpu = Comhand /\ message.at = "writing"
  /\ SaveContext \/ WriteCall \/ InvalidCall
  /\ message' = [message EXCEPT !.at = "written"]
  /\ UNCHANGED deleted

GoesOn ==
  /\ Running /\ cpu = Comhand /\ message.at = "written"
  /\ IF message.pcb = NULL THEN CommandDone(Fail(q, "null"))
     ELSE \E prio \in NewPrios : CommandDone(SetPcbPrio(message.pcb, prio))
  /\ message' = NoMessage
  /\ UNCHANGED deleted

ProcessMenu == \/ \E p \in PCB :
                    \/ Delete(NameOf[p]) \/ Block(NameOf[p]) \/ Unblock(NameOf[p])
                    \/ Suspend(NameOf[p]) \/ Resume(NameOf[p])
                    \/ SearchHangs(NameOf[p]) \/ Announce(NameOf[p])
               \/ MessageWritten
               \/ GoesOn

(***************************************************************************)
(* The requests of the programs here: comhand writes and reads (outside of *)
(* a command's own message), a test process writes, idles and exits, kmain *)
(* and idle only idle.  A call whose operation code an interrupt took      *)
(* (Kernel!RegistersLost) is an InvalidCall.                               *)
(***************************************************************************)
Request ==
  \/ SaveContext
  \/ IdleCall /\ cpu # Comhand
  \/ WriteCall /\ cpu # Idle
  \/ ReadCall /\ cpu = Comhand
  \/ ExitCall /\ cpu \notin {Comhand, Idle}
  \/ InvalidCall

KernelStep ==
  /\ \/ (cpu = Comhand => message = NoMessage) /\ Request
     \/ ComhandCommands /\ \E p \in PCB : CreateProc(p)
     \/ OutputInterrupt
     \/ InputInterrupt
     \/ RegistersLost
  /\ UNCHANGED <<message, deleted>>

CmdNext == ProcessMenu \/ KernelStep

CmdSpec == CmdInit /\ [][CmdNext]_cmd_vars

-----------------------------------------------------------------------------
CmdTypeOK ==
  /\ TypeOK
  /\ message \in [pcb : PcbOrNull, at : {"none", "writing", "written"}]
  /\ deleted \subseteq PCB

SuspendedStates == {"READY_SUSPENDED", "BLOCKED_SUSPENDED"}

\* include/mpx/user_commands.h:37, 40: whatever happens, I/O completions and
\* other commands included, a suspended process stays suspended until it is
\* given to resume_pcb (user_commands.c:593).
SuspendedUntilResumed ==
  [][\A p \in PCB :
       /\ q.state[p] \in SuspendedStates
       /\ q'.state[p] \notin SuspendedStates
       => Resume(NameOf[p])]_cmd_vars

\* include/mpx/user_commands.h:27: delete_pcb "Deletes a process control block".
\* The kernel does not dispatch it again.
DeletedNotDispatched == cur_process \notin deleted
=============================================================================
