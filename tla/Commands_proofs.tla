---------------------------- MODULE Commands_proofs ----------------------------
(***************************************************************************)
(* The process commands, for every set of PCBs, of names and of commands in*)
(* use.  They block and unblock processes behind the kernel's back, so that*)
(* OneSleeper does not hold here: CoreInv is what is left of the kernel's  *)
(* invariant.                                                              *)
(***************************************************************************)
EXTENDS Commands, Kernel_proofs

CoreInv == TypeOK /\ CurIsOnCpu /\ ContextSaved /\ BusyIsFlagged /\ IocbQueueUnused

\* What a step leaves alone: a suspended process.
SuspendedKept == \A p \in PCB : q.state[p] \in SuspendedStates => q'.state[p] = q.state[p]

-----------------------------------------------------------------------------
\* The wake-up changes no state but that of a process that waits.
LEMMA WakeUpStates ==
  ASSUME CoreInv
  PROVE  /\ QueuesAfterEvent \in QueueRecords
         /\ \A p \in PCB : q.state[p] # "BLOCKED" => QueuesAfterEvent.state[p] = q.state[p]
<1>0. q \in QueueRecords
  BY DEF CoreInv, TypeOK
<1>1. CASE device1.event_flag = 0
  BY <1>0, <1>1 DEF QueuesAfterEvent
<1>2. CASE device1.event_flag = 1 /\ (Sleeper = NULL \/ Hangs(q, "blocked", InState(q, "BLOCKED")))
  BY <1>0, <1>2 DEF QueuesAfterEvent, Fail, QueueRecords, Faults
<1>3. CASE device1.event_flag = 1 /\ Sleeper # NULL /\ ~Hangs(q, "blocked", InState(q, "BLOCKED"))
  <2> DEFINE removed == PcbRemove(q, Sleeper)
             readied == [removed EXCEPT !.state[Sleeper] = "READY"]
  <2>1. Sleeper \in PCB /\ q.state[Sleeper] = "BLOCKED" /\ "READY" \in States
    BY <1>3, FirstOfType DEF Sleeper, InState, States, ReadyStates
  <2>2. removed \in QueueRecords /\ removed.state = q.state
    BY <1>0, <2>1, RemoveKeeps DEF PcbOrNull
  <2> HIDE DEF removed
  <2>3. readied \in QueueRecords /\ readied.state = [q.state EXCEPT ![Sleeper] = "READY"]
    BY <2>1, <2>2, StateAssigned
  <2> HIDE DEF readied
  <2>4. PcbInsert(readied, Sleeper) \in QueueRecords
        /\ PcbInsert(readied, Sleeper).state = readied.state
    BY <2>1, <2>3, InsertKeeps
  <2>5. QueuesAfterEvent = PcbInsert(readied, Sleeper)
    BY <1>3 DEF QueuesAfterEvent, IocbProcessInserted, SleeperReadied, CoreInv,
                IocbQueueUnused, readied, removed
  <2>6. \A p \in PCB : readied.state[p] = IF p = Sleeper THEN "READY" ELSE q.state[p]
    BY <1>0, <2>3 DEF QueueRecords
  <2> QED BY <2>1, <2>4, <2>5, <2>6
<1> QED BY <1>1, <1>2, <1>3 DEF CoreInv, TypeOK, Devices

\* A dispatch changes no state but that of the process it dispatches.
LEMMA DispatchStates ==
  ASSUME NEW qq \in QueueRecords, NEW n \in PcbOrNull, n # NULL => qq.state[n] = "READY",
         NEW saved \in PCB \union {KMAIN}, Dispatch(qq, n, saved)
  PROVE  /\ q' \in QueueRecords /\ cur_process' \in PcbOrNull
         /\ cpu' \in PCB \union {KMAIN} /\ initial_context' = saved
         /\ CurIsOnCpu' /\ ContextSaved'
         /\ \A p \in PCB : qq.state[p] # "READY" => q'.state[p] = qq.state[p]
<1>1. n # NULL => qq.state[n] # "BLOCKED"
  OBVIOUS
<1>2. CASE n = NULL
  BY <1>1, <1>2, DispatchKeeps DEF Dispatch
<1>3. CASE n # NULL
  <2>1. q' = [qq EXCEPT !.state[n] = "RUNNING"]
    BY <1>3 DEF Dispatch
  <2>2. q'.state = [qq.state EXCEPT ![n] = "RUNNING"]
    BY <1>3, <2>1, StateAssigned DEF PcbOrNull, States
  <2>3. \A p \in PCB : q'.state[p] = IF p = n THEN "RUNNING" ELSE qq.state[p]
    BY <2>2 DEF QueueRecords
  <2> QED BY <1>1, <1>3, <2>3, DispatchKeeps
<1> QED BY <1>2, <1>3

LEMMA CrashStates ==
  ASSUME CoreInv, NEW qq \in QueueRecords, Crash(qq)
  PROVE  CoreInv' /\ q'.state = q.state
<1>1. /\ q' \in QueueRecords /\ q'.state = q.state
      /\ UNCHANGED <<cur_process, initial_context, device1, cpu>>
  BY DEF Crash, Fail, QueueRecords, CoreInv, TypeOK
<1> QED BY <1>1 DEF CoreInv, TypeOK, CurIsOnCpu, ContextSaved, BusyIsFlagged, IocbQueueUnused

\* A call in which cur_process leaves the processor, or reads.
LEMMA LeavesStates ==
  ASSUME CoreInv, Performs, NEW qq \in QueueRecords, NEW Devs,
         \A p \in PCB \ {cur_process} : qq.state[p] = q.state[p],
         \A d \in Devs : /\ d \in Devices /\ d.iocb_queue = <<>>
                         /\ d.status # "IDLE" => d.event_flag = 1,
         IF qq.fault # "none" THEN Crash(qq)
         ELSE /\ \/ Dispatch(qq, NextReady(q), initial_context)
                 \/ q' = qq /\ cur_process' = NULL /\ UNCHANGED <<initial_context, cpu>>
              /\ device1' \in Devs
  PROVE  CoreInv' /\ SuspendedKept
<1>1. q \in QueueRecords /\ cur_process \in PCB /\ q.state[cur_process] = "RUNNING"
      /\ initial_context \in PCB \union {KMAIN}
  BY DEF CoreInv, TypeOK, PcbOrNull, Performs, CurIsOnCpu, ContextSaved
<1>2. NextReady(q) \in PcbOrNull
      /\ (NextReady(q) # NULL => q.state[NextReady(q)] = "READY" /\ NextReady(q) \in PCB \ {cur_process})
  <2>1. NextReady(q) = NULL \/ (NextReady(q) \in PCB /\ q.state[NextReady(q)] = "READY")
    BY <1>1, NextRemovedKeeps
  <2> QED BY <1>1, <2>1 DEF PcbOrNull
<1>3. \A p \in PCB : q.state[p] \in SuspendedStates => p # cur_process
  BY <1>1 DEF SuspendedStates
<1>4. CASE qq.fault # "none"
  BY <1>4, CrashStates DEF SuspendedKept
<1>5. CASE qq.fault = "none" /\ Dispatch(qq, NextReady(q), initial_context)
  <2>1. NextReady(q) # NULL => qq.state[NextReady(q)] = "READY"
    BY <1>2
  <2>2. /\ q' \in QueueRecords /\ cur_process' \in PcbOrNull
        /\ cpu' \in PCB \union {KMAIN} /\ initial_context' = initial_context
        /\ CurIsOnCpu' /\ ContextSaved'
        /\ \A p \in PCB : qq.state[p] # "READY" => q'.state[p] = qq.state[p]
    BY <1>1, <1>2, <1>5, <2>1, DispatchStates
  <2>3. SuspendedKept
    BY <1>3, <2>2 DEF SuspendedKept, SuspendedStates
  <2> QED BY <1>1, <1>5, <2>2, <2>3 DEF CoreInv, TypeOK, BusyIsFlagged, IocbQueueUnused
<1>6. CASE qq.fault = "none" /\ q' = qq /\ cur_process' = NULL /\ UNCHANGED <<initial_context, cpu>>
  <2>1. initial_context # NULL
    BY <1>1, BootAssumption, NullAssumption
  <2>2. SuspendedKept
    BY <1>3, <1>6 DEF SuspendedKept
  <2> QED BY <1>1, <1>6, <2>1, <2>2 DEF CoreInv, TypeOK, PcbOrNull, CurIsOnCpu, ContextSaved,
                                        BusyIsFlagged, IocbQueueUnused
<1> QED BY <1>4, <1>5, <1>6

\* Every system call keeps the invariant and the suspended processes.
LEMMA CallStates ==
  ASSUME CoreInv, SysCall
  PROVE  CoreInv' /\ SuspendedKept
<1>1. CASE SaveContext
  <2> DEFINE woken == QueuesAfterEvent
             qq == NextRemoved(woken)
             n == NextReady(woken)
  <2>1. /\ woken \in QueueRecords
        /\ \A p \in PCB : q.state[p] # "BLOCKED" => woken.state[p] = q.state[p]
    BY WakeUpStates
  <2> HIDE DEF woken
  <2>2. /\ qq \in QueueRecords /\ qq.state = woken.state
        /\ n = NULL \/ (n \in PCB /\ woken.state[n] = "READY")
    BY <2>1, NextRemovedKeeps
  <2> HIDE DEF qq, n
  <2>3. IF qq.fault # "none" THEN Crash(qq)
        ELSE Dispatch(qq, n, cpu) /\ device1' \in DevicesAfterEvent
    BY <1>1 DEF SaveContext, qq, n, woken
  <2>4. CASE qq.fault # "none"
    BY <2>2, <2>3, <2>4, CrashStates DEF SuspendedKept
  <2>5. CASE qq.fault = "none"
    <3>1. /\ q' \in QueueRecords /\ cur_process' \in PcbOrNull
          /\ cpu' \in PCB \union {KMAIN} /\ initial_context' = cpu
          /\ CurIsOnCpu' /\ ContextSaved'
          /\ \A p \in PCB : qq.state[p] # "READY" => q'.state[p] = qq.state[p]
      BY <2>2, <2>3, <2>5, DispatchStates DEF CoreInv, TypeOK, PcbOrNull
    <3>2. SuspendedKept
      BY <2>1, <2>2, <3>1 DEF SuspendedKept, SuspendedStates
    <3>3. /\ device1' \in Devices /\ device1'.event_flag = 0
          /\ device1'.status = "IDLE" /\ device1'.iocb_queue = <<>>
      BY <2>3, <2>5, DeviceAfterEvent DEF CoreInv
    <3> QED BY <3>1, <3>2, <3>3 DEF CoreInv, TypeOK, BusyIsFlagged, IocbQueueUnused
  <2> QED BY <2>4, <2>5
<1>2. ASSUME Performs PROVE cur_process \in PCB /\ device1.event_flag = 0
  BY <1>2 DEF Performs, CoreInv, TypeOK, PcbOrNull
<1>3. ASSUME Performs, NEW s \in {"READY", "BLOCKED"}
      PROVE  /\ CurMovedTo(s) \in QueueRecords
             /\ \A p \in PCB \ {cur_process} : CurMovedTo(s).state[p] = q.state[p]
  <2>1. s \in States /\ q \in QueueRecords
    BY DEF States, ReadyStates, BlockedStates, CoreInv, TypeOK
  <2>2. CurMovedTo(s) \in QueueRecords /\ CurMovedTo(s).state = [q.state EXCEPT ![cur_process] = s]
    BY <1>2, <1>3, <2>1, CurMovedKeeps DEF CoreInv
  <2> QED BY <2>1, <2>2 DEF QueueRecords
<1> DEFINE Same == {device1}
<1>4. \A d \in Same : /\ d \in Devices /\ d.iocb_queue = <<>>
                      /\ d.status # "IDLE" => d.event_flag = 1
  BY DEF CoreInv, TypeOK, BusyIsFlagged, IocbQueueUnused
<1>5. ASSUME Performs, NEW op \in {"READ", "WRITE"}
      PROVE  \A d \in IoScheduler(op) : /\ d \in Devices /\ d.iocb_queue = <<>>
                                        /\ d.status # "IDLE" => d.event_flag = 1
  BY <1>2, <1>5, IoSchedulerStarts DEF CoreInv
<1>6. CASE IdleCall
  <2>1. Performs
    BY <1>6 DEF IdleCall
  <2>2. LET qq == CurMovedTo("READY")
        IN IF qq.fault # "none" THEN Crash(qq)
           ELSE Dispatch(qq, NextReady(q), initial_context) /\ device1' \in Same
    BY <1>6 DEF IdleCall
  <2> HIDE DEF Same
  <2> QED BY <1>3, <1>4, <2>1, <2>2, LeavesStates
<1>7. CASE WriteCall
  <2>1. Performs
    BY <1>7 DEF WriteCall
  <2> QED BY <1>3, <1>5, <1>7, <2>1, LeavesStates DEF WriteCall
<1>8. CASE ReadCall
  <2>1. Performs
    BY <1>8 DEF ReadCall
  <2> QED BY <1>3, <1>5, <1>8, <2>1, LeavesStates DEF ReadCall
<1>9. CASE ExitCall
  <2>1. Performs
    BY <1>9 DEF ExitCall
  <2>2. NextRemoved(q) \in QueueRecords /\ NextRemoved(q).state = q.state
    BY NextRemovedKeeps DEF CoreInv, TypeOK
  <2>3. /\ PcbRemove(NextRemoved(q), cur_process) \in QueueRecords
        /\ PcbRemove(NextRemoved(q), cur_process).state = q.state
    BY <2>2, RemoveKeeps DEF CoreInv, TypeOK
  <2>4. LET qq == PcbRemove(NextRemoved(q), cur_process)
        IN IF qq.fault # "none" THEN Crash(qq)
           ELSE Dispatch(qq, NextReady(q), initial_context) /\ device1' \in Same
    BY <1>9 DEF ExitCall
  <2> HIDE DEF Same
  <2> QED BY <1>4, <2>1, <2>3, <2>4, LeavesStates
<1>10. CASE InvalidCall
  <2>1. NextRemoved(q) \in QueueRecords /\ NextRemoved(q).state = q.state
    BY NextRemovedKeeps DEF CoreInv, TypeOK
  <2>2. \/ Crash(NextRemoved(q))
        \/ q' = NextRemoved(q) /\ UNCHANGED <<cur_process, initial_context, device1, cpu>>
    BY <1>10 DEF InvalidCall
  <2> QED BY <2>1, <2>2, CrashStates
          DEF CoreInv, TypeOK, CurIsOnCpu, ContextSaved, BusyIsFlagged, IocbQueueUnused, SuspendedKept
<1> QED BY <1>1, <1>6, <1>7, <1>8, <1>9, <1>10 DEF SysCall

-----------------------------------------------------------------------------
\* A step that only changes queues and states keeps the invariant, so long as
\* the process that runs goes on running.
LEMMA QueuesChange ==
  ASSUME CoreInv, q' \in QueueRecords, UNCHANGED <<cur_process, initial_context, device1, cpu>>,
         \A p \in PCB : q.state[p] = "RUNNING" => q'.state[p] = "RUNNING"
  PROVE  CoreInv'
BY DEF CoreInv, TypeOK, PcbOrNull, CurIsOnCpu, ContextSaved, BusyIsFlagged, IocbQueueUnused

\* Whichever way a command ends.
LEMMA CommandStates ==
  ASSUME CoreInv, NEW qq \in QueueRecords, CommandDone(qq),
         \A p \in PCB : q.state[p] = "RUNNING" => qq.state[p] = "RUNNING"
  PROVE  /\ CoreInv'
         /\ q'.state = q.state \/ q'.state = qq.state
<1>1. CASE qq.fault # "none"
  BY <1>1, CrashStates DEF CommandDone
<1>2. CASE qq.fault = "none"
  BY <1>2, QueuesChange DEF CommandDone
<1> QED BY <1>1, <1>2

\* The states a command moves a PCB between: never from RUNNING.
Moves == UNION {[D -> States] : D \in SUBSET (States \ {"RUNNING"})}

LEMMA RequeuedStates ==
  ASSUME CoreInv, NEW p \in PCB, NEW moves \in Moves
  PROVE  /\ Requeued(p, moves) \in QueueRecords
         /\ \A x \in PCB : Requeued(p, moves).state[x] =
                             IF x = p /\ q.state[x] \in DOMAIN moves THEN moves[q.state[x]]
                             ELSE q.state[x]
<1>1. q \in QueueRecords
  BY DEF CoreInv, TypeOK
<1>2. CASE q.state[p] \in DOMAIN moves
  <2> DEFINE s == moves[q.state[p]]
             r == [q EXCEPT !.state[p] = s]
  <2>1. s \in States
    BY <1>2 DEF Moves
  <2>2. r \in QueueRecords /\ r.state = [q.state EXCEPT ![p] = s]
    <3> HIDE DEF s
    <3> QED BY <1>1, <2>1, StateAssigned
  <2>3. Requeued(p, moves) = PcbInsert(r, p)
    BY <1>2 DEF Requeued
  <2> HIDE DEF r
  <2>4. Requeued(p, moves) \in QueueRecords /\ Requeued(p, moves).state = r.state
    BY <2>2, <2>3, InsertKeeps
  <2> QED BY <1>1, <1>2, <2>2, <2>4 DEF QueueRecords
<1>3. CASE q.state[p] \notin DOMAIN moves
  BY <1>1, <1>3 DEF Requeued
<1> QED BY <1>2, <1>3

LEMMA RestatedStates ==
  ASSUME CoreInv, NEW p \in PCB, NEW moves \in Moves
  PROVE  /\ Restated(p, moves) \in QueueRecords
         /\ \A x \in PCB : Restated(p, moves).state[x] =
                             IF x = p /\ q.state[x] \in DOMAIN moves THEN moves[q.state[x]]
                             ELSE q.state[x]
<1>1. q \in QueueRecords
  BY DEF CoreInv, TypeOK
<1>2. CASE q.state[p] \in DOMAIN moves
  <2> DEFINE s == moves[q.state[p]]
  <2>1. s \in States
    BY <1>2 DEF Moves
  <2>2. Restated(p, moves) = [q EXCEPT !.state[p] = s]
    BY <1>2 DEF Restated
  <2>3. Restated(p, moves) \in QueueRecords
        /\ Restated(p, moves).state = [q.state EXCEPT ![p] = s]
    <3> HIDE DEF s
    <3> QED BY <1>1, <2>1, <2>2, StateAssigned
  <2> QED BY <1>1, <1>2, <2>3 DEF QueueRecords
<1>3. CASE q.state[p] \notin DOMAIN moves
  BY <1>1, <1>3 DEF Restated
<1> QED BY <1>2, <1>3

\* The moves of the five commands.
LEMMA MovesAreMoves ==
  /\ [READY |-> "BLOCKED", READY_SUSPENDED |-> "BLOCKED_SUSPENDED"] \in Moves
  /\ [BLOCKED |-> "READY", BLOCKED_SUSPENDED |-> "READY_SUSPENDED"] \in Moves
  /\ [READY |-> "READY_SUSPENDED", BLOCKED |-> "BLOCKED_SUSPENDED"] \in Moves
  /\ [READY_SUSPENDED |-> "READY", BLOCKED_SUSPENDED |-> "BLOCKED"] \in Moves
<1>1. /\ [READY |-> "BLOCKED", READY_SUSPENDED |-> "BLOCKED_SUSPENDED"]
           \in [{"READY", "READY_SUSPENDED"} -> States]
      /\ [BLOCKED |-> "READY", BLOCKED_SUSPENDED |-> "READY_SUSPENDED"]
           \in [{"BLOCKED", "BLOCKED_SUSPENDED"} -> States]
      /\ [READY |-> "READY_SUSPENDED", BLOCKED |-> "BLOCKED_SUSPENDED"]
           \in [{"READY", "BLOCKED"} -> States]
      /\ [READY_SUSPENDED |-> "READY", BLOCKED_SUSPENDED |-> "BLOCKED"]
           \in [{"READY_SUSPENDED", "BLOCKED_SUSPENDED"} -> States]
  BY DEF States, ReadyStates, BlockedStates
<1>2. /\ {"READY", "READY_SUSPENDED"} \in SUBSET (States \ {"RUNNING"})
      /\ {"BLOCKED", "BLOCKED_SUSPENDED"} \in SUBSET (States \ {"RUNNING"})
      /\ {"READY", "BLOCKED"} \in SUBSET (States \ {"RUNNING"})
      /\ {"READY_SUSPENDED", "BLOCKED_SUSPENDED"} \in SUBSET (States \ {"RUNNING"})
  BY DEF States, ReadyStates, BlockedStates
<1> QED BY <1>1, <1>2 DEF Moves

\* What each command leaves: the type, who runs, and, resume_pcb apart, who is
\* suspended.
CommandKeeps(qq) ==
  /\ qq \in QueueRecords
  /\ \A x \in PCB : q.state[x] = "RUNNING" => qq.state[x] = "RUNNING"

StaySuspended(qq) ==
  \A x \in PCB : q.state[x] \in SuspendedStates => qq.state[x] \in SuspendedStates

LEMMA CommandsKeep ==
  ASSUME CoreInv, NEW p \in PCB
  PROVE  /\ CommandKeeps(DeletePcb(p)) /\ StaySuspended(DeletePcb(p))
         /\ CommandKeeps(BlockPcb(p)) /\ StaySuspended(BlockPcb(p))
         /\ CommandKeeps(UnblockPcb(p)) /\ StaySuspended(UnblockPcb(p))
         /\ CommandKeeps(SuspendPcb(p)) /\ StaySuspended(SuspendPcb(p))
         /\ CommandKeeps(ResumePcb(p))
         /\ \A prio \in Prios : /\ CommandKeeps(SetPcbPrio(p, prio))
                                /\ StaySuspended(SetPcbPrio(p, prio))
<1> USE DEF CommandKeeps, StaySuspended, SuspendedStates
<1>0. q \in QueueRecords
  BY DEF CoreInv, TypeOK
<1>1. CommandKeeps(DeletePcb(p)) /\ StaySuspended(DeletePcb(p))
  BY <1>0, RemoveKeeps DEF DeletePcb, PcbOrNull
<1>2. CommandKeeps(BlockPcb(p)) /\ StaySuspended(BlockPcb(p))
  BY MovesAreMoves, RequeuedStates DEF BlockPcb
<1>3. CommandKeeps(UnblockPcb(p)) /\ StaySuspended(UnblockPcb(p))
  BY MovesAreMoves, RequeuedStates DEF UnblockPcb
<1>4. CommandKeeps(SuspendPcb(p)) /\ StaySuspended(SuspendPcb(p))
  <2> DEFINE r == Restated(p, [READY |-> "READY_SUSPENDED", BLOCKED |-> "BLOCKED_SUSPENDED"])
  <2>1. CommandKeeps(r) /\ StaySuspended(r)
    BY MovesAreMoves, RestatedStates
  <2> QED BY <1>0, <2>1 DEF SuspendPcb
<1>5. CommandKeeps(ResumePcb(p))
  BY MovesAreMoves, RestatedStates DEF ResumePcb
<1>6. ASSUME NEW prio \in Prios
      PROVE  CommandKeeps(SetPcbPrio(p, prio)) /\ StaySuspended(SetPcbPrio(p, prio))
  <2> DEFINE r == [q EXCEPT !.prio[p] = prio]
  <2>1. r \in QueueRecords /\ r.state = q.state
    BY <1>0 DEF QueueRecords
  <2> HIDE DEF r
  <2>2. PcbInsert(r, p) \in QueueRecords /\ PcbInsert(r, p).state = r.state
    BY <2>1, InsertKeeps
  <2> QED BY <2>1, <2>2 DEF SetPcbPrio, r
<1> QED BY <1>1, <1>2, <1>3, <1>4, <1>5, <1>6

-----------------------------------------------------------------------------
CmdInv == CoreInv /\ CmdTypeOK

\* A suspended process changes into one that is not only by resume_pcb.
StepResumes ==
  \A p \in PCB :
    /\ q.state[p] \in SuspendedStates
    /\ q'.state[p] \notin SuspendedStates
    => Resume(NameOf[p])

LEMMA CommandKeepsInv ==
  ASSUME CoreInv, NEW qq, CommandKeeps(qq), CommandDone(qq)
  PROVE  CoreInv' /\ (StaySuspended(qq) => StepResumes)
<1>1. CoreInv' /\ (q'.state = q.state \/ q'.state = qq.state)
  BY CommandStates DEF CommandKeeps
<1> QED BY <1>1 DEF StaySuspended, StepResumes

\* pcb_find returns a PCB of the name it looks for.
LEMMA FoundIsNamed ==
  ASSUME NEW name, NEW p \in PCB, Found(name, p)
  PROVE  NameOf[p] = name
<1>1. PcbFind(q, name) \in Named(name) \union {NULL}
  BY FirstOfType DEF PcbFind
<1> QED BY <1>1 DEF Found, Named

LEMMA MenuKeeps == CmdInv /\ ProcessMenu => CmdInv' /\ StepResumes
<1> SUFFICES ASSUME CmdInv, ProcessMenu PROVE CmdInv' /\ StepResumes
  OBVIOUS
<1>0. CoreInv /\ q \in QueueRecords
      /\ message \in [pcb : PcbOrNull, at : {"none", "writing", "written"}] /\ deleted \subseteq PCB
  BY DEF CmdInv, CmdTypeOK, CoreInv, TypeOK
<1>1. ASSUME CoreInv', UNCHANGED message, deleted' \subseteq PCB PROVE CmdInv'
  BY <1>0, <1>1 DEF CmdInv, CmdTypeOK, CoreInv
<1>2. ASSUME NEW n \in PCB, Delete(NameOf[n]) PROVE CmdInv' /\ StepResumes
  <2>1. PICK p \in PCB : /\ CommandDone(DeletePcb(p)) /\ UNCHANGED message
                         /\ deleted' = deleted \union ({p} \ SystemClass)
    BY <1>2 DEF Delete, Found
  <2> QED BY <1>0, <1>1, <2>1, CommandsKeep, CommandKeepsInv
<1>3. ASSUME NEW n \in PCB, Block(NameOf[n]) PROVE CmdInv' /\ StepResumes
  <2>1. PICK p \in PCB : CommandDone(BlockPcb(p)) /\ UNCHANGED <<message, deleted>>
    BY <1>3 DEF Block, Found
  <2> QED BY <1>0, <1>1, <2>1, CommandsKeep, CommandKeepsInv
<1>4. ASSUME NEW n \in PCB, Unblock(NameOf[n]) PROVE CmdInv' /\ StepResumes
  <2>1. PICK p \in PCB : CommandDone(UnblockPcb(p)) /\ UNCHANGED <<message, deleted>>
    BY <1>4 DEF Unblock, Found
  <2> QED BY <1>0, <1>1, <2>1, CommandsKeep, CommandKeepsInv
<1>5. ASSUME NEW n \in PCB, Suspend(NameOf[n]) PROVE CmdInv' /\ StepResumes
  <2>1. PICK p \in PCB : CommandDone(SuspendPcb(p)) /\ UNCHANGED <<message, deleted>>
    BY <1>5 DEF Suspend, Found
  <2> QED BY <1>0, <1>1, <2>1, CommandsKeep, CommandKeepsInv
<1>6. ASSUME NEW n \in PCB, Resume(NameOf[n]) PROVE CmdInv' /\ StepResumes
  <2>1. PICK p \in PCB : /\ Found(NameOf[n], p) /\ CommandDone(ResumePcb(p))
                         /\ UNCHANGED <<message, deleted>>
    BY <1>6 DEF Resume, Found
  <2>2. CoreInv' /\ (q'.state = q.state \/ q'.state = ResumePcb(p).state)
    BY <1>0, <2>1, CommandsKeep, CommandStates DEF CommandKeeps
  <2>3. \A x \in PCB \ {p} : ResumePcb(p).state[x] = q.state[x]
    BY <1>0, MovesAreMoves, RestatedStates DEF ResumePcb
  <2>4. NameOf[p] = NameOf[n]
    BY <2>1, FoundIsNamed
  <2>5. StepResumes
    <3> SUFFICES ASSUME NEW x \in PCB, q.state[x] \in SuspendedStates,
                        q'.state[x] \notin SuspendedStates
                 PROVE  Resume(NameOf[x])
      BY DEF StepResumes
    <3>1. x = p
      BY <2>2, <2>3
    <3> QED BY <1>6, <2>4, <3>1
  <2> QED BY <1>0, <1>1, <2>1, <2>2, <2>5
<1>7. ASSUME NEW n \in PCB, SearchHangs(NameOf[n]) PROVE CmdInv' /\ StepResumes
  <2>1. Crash(Fail(q, "hang")) /\ UNCHANGED <<message, deleted>> /\ Fail(q, "hang") \in QueueRecords
    BY <1>0, <1>7 DEF SearchHangs, Fail, QueueRecords, Faults
  <2>2. CoreInv' /\ q'.state = q.state
    BY <1>0, <2>1, CrashStates
  <2> QED BY <1>0, <1>1, <2>1, <2>2 DEF StepResumes
<1>8. ASSUME NEW n \in PCB, Announce(NameOf[n]) PROVE CmdInv' /\ StepResumes
  <2>1. /\ message' = [pcb |-> PcbFind(q, NameOf[n]), at |-> "writing"]
        /\ UNCHANGED vars /\ UNCHANGED deleted
    BY <1>8 DEF Announce
  <2>2. PcbFind(q, NameOf[n]) \in PcbOrNull
    BY FirstOfType DEF PcbFind, Named, PcbOrNull
  <2>3. CoreInv' /\ q' = q
    BY <1>0, <2>1 DEF CoreInv, TypeOK, vars, CurIsOnCpu, ContextSaved, BusyIsFlagged, IocbQueueUnused
  <2> QED BY <1>0, <2>1, <2>2, <2>3 DEF CmdInv, CmdTypeOK, CoreInv, StepResumes
<1>9. CASE MessageWritten
  <2>1. SysCall
    BY <1>9 DEF MessageWritten, SysCall
  <2>2. CoreInv' /\ SuspendedKept
    BY <1>0, <2>1, CallStates
  <2>3. message' = [message EXCEPT !.at = "written"] /\ UNCHANGED deleted
    BY <1>9 DEF MessageWritten
  <2> QED BY <1>0, <2>2, <2>3 DEF CmdInv, CmdTypeOK, CoreInv, SuspendedKept, StepResumes
<1>10. CASE GoesOn
  <2>1. NoMessage \in [pcb : PcbOrNull, at : {"none", "writing", "written"}]
    BY DEF NoMessage, PcbOrNull
  <2>2. message' = NoMessage /\ UNCHANGED deleted
    BY <1>10 DEF GoesOn
  <2>3. CoreInv' /\ StepResumes
    <3>1. CASE message.pcb = NULL
      <4>1. /\ CommandDone(Fail(q, "null"))
            /\ CommandKeeps(Fail(q, "null")) /\ StaySuspended(Fail(q, "null"))
        BY <1>0, <1>10, <3>1 DEF GoesOn, CommandKeeps, StaySuspended, Fail, QueueRecords, Faults
      <4> QED BY <1>0, <4>1, CommandKeepsInv
    <3>2. CASE message.pcb # NULL
      <4>1. message.pcb \in PCB
        BY <1>0, <3>2 DEF PcbOrNull
      <4>2. PICK prio \in Prios : CommandDone(SetPcbPrio(message.pcb, prio))
        BY <1>10, <3>2, CommandsAssumption DEF GoesOn
      <4> QED BY <1>0, <4>1, <4>2, CommandsKeep, CommandKeepsInv
    <3> QED BY <3>1, <3>2
  <2> QED BY <1>0, <2>1, <2>2, <2>3 DEF CmdInv, CmdTypeOK, CoreInv
<1> QED BY <1>2, <1>3, <1>4, <1>5, <1>6, <1>7, <1>8, <1>9, <1>10 DEF ProcessMenu

LEMMA KernelStepKeeps == CmdInv /\ KernelStep => CmdInv' /\ StepResumes
<1> SUFFICES ASSUME CmdInv, KernelStep PROVE CmdInv' /\ StepResumes
  OBVIOUS
<1>0. CoreInv /\ q \in QueueRecords
      /\ message \in [pcb : PcbOrNull, at : {"none", "writing", "written"}] /\ deleted \subseteq PCB
  BY DEF CmdInv, CmdTypeOK, CoreInv, TypeOK
<1>1. ASSUME CoreInv', SuspendedKept PROVE CmdInv' /\ StepResumes
  BY <1>0, <1>1 DEF KernelStep, CmdInv, CmdTypeOK, CoreInv, SuspendedKept, StepResumes
<1>2. CASE Request
  <2>1. SysCall
    BY <1>2 DEF Request, SysCall
  <2> QED BY <1>0, <1>1, <2>1, CallStates
<1>3. ASSUME NEW p \in PCB, CreateProc(p) PROVE CmdInv' /\ StepResumes
  <2> DEFINE readied == [q EXCEPT !.state[p] = "READY"]
             inserted == PcbInsert(readied, p)
  <2>1. readied \in QueueRecords /\ readied.state = [q.state EXCEPT ![p] = "READY"]
    BY <1>0, StateAssigned DEF States, ReadyStates
  <2>2. \A x \in PCB : readied.state[x] = IF x = p THEN "READY" ELSE q.state[x]
    BY <1>0, <2>1 DEF QueueRecords
  <2> HIDE DEF readied
  <2>3. inserted \in QueueRecords /\ inserted.state = readied.state
    BY <2>1, InsertKeeps
  <2>4. q.state[p] = "FREE"
    BY <1>3 DEF CreateProc
  <2> DEFINE qq == IF FindHangs(q, NameOf[p]) THEN Fail(q, "hang")
                   ELSE IF PcbFind(q, NameOf[p]) # NULL THEN q ELSE inserted
  <2>5. CommandDone(qq)
    BY <1>3 DEF CreateProc, CommandDone, inserted, readied
  <2> HIDE DEF inserted
  <2>6. Fail(q, "hang") \in QueueRecords /\ Fail(q, "hang").state = q.state
    BY <1>0 DEF Fail, QueueRecords, Faults
  <2>7. /\ qq \in QueueRecords
        /\ \A x \in PCB : q.state[x] # "FREE" => qq.state[x] = q.state[x]
    BY <1>0, <2>2, <2>3, <2>4, <2>6
  <2> HIDE DEF qq
  <2>8. CoreInv' /\ (q'.state = q.state \/ q'.state = qq.state)
    BY <1>0, <2>5, <2>7, CommandStates
  <2> QED BY <1>1, <2>7, <2>8 DEF SuspendedKept, SuspendedStates
<1>4. CASE OutputInterrupt \/ InputInterrupt
  <2>1. /\ UNCHANGED <<q, cur_process, initial_context, cpu>>
        /\ device1' \in Devices /\ device1'.event_flag = 1 /\ device1'.iocb_queue = <<>>
    BY <1>0, <1>4 DEF OutputInterrupt, InputInterrupt, CoreInv, TypeOK, IocbQueueUnused, Devices, Statuses
  <2> QED BY <1>0, <1>1, <2>1 DEF CoreInv, TypeOK, CurIsOnCpu, ContextSaved, BusyIsFlagged,
                                  IocbQueueUnused, SuspendedKept
<1>5. CASE RegistersLost
  <2>1. Fail(q, "registers") \in QueueRecords /\ Crash(Fail(q, "registers"))
    BY <1>0, <1>5 DEF RegistersLost, Fail, QueueRecords, Faults
  <2> QED BY <1>0, <1>1, <2>1, CrashStates DEF SuspendedKept
<1> QED BY <1>2, <1>3, <1>4, <1>5 DEF KernelStep

LEMMA CmdNextKeeps == CmdInv /\ [CmdNext]_cmd_vars => CmdInv' /\ StepResumes
<1> SUFFICES ASSUME CmdInv, UNCHANGED cmd_vars PROVE CmdInv' /\ StepResumes
  BY MenuKeeps, KernelStepKeeps DEF CmdNext
<1> QED BY DEF cmd_vars, CmdInv, CmdTypeOK, CoreInv, TypeOK, CurIsOnCpu, ContextSaved,
               BusyIsFlagged, IocbQueueUnused, StepResumes

LEMMA CmdInitKeeps == CmdInit => CmdInv
<1> SUFFICES ASSUME CmdInit PROVE CmdInv
  OBVIOUS
<1>1. IInv
  BY InitKeeps DEF CmdInit
<1>2. message = NoMessage /\ NoMessage \in [pcb : PcbOrNull, at : {"none", "writing", "written"}]
      /\ deleted = {}
  BY DEF CmdInit, NoMessage, PcbOrNull
<1> QED BY <1>1, <1>2 DEF CmdInv, CoreInv, CmdTypeOK, IInv

THEOREM CommandInvariance == CmdSpec => []CmdInv
BY CmdInitKeeps, CmdNextKeeps, PTL DEF CmdSpec

\* Deleting, blocking and requeueing PCBs by hand leaves every link a PCB or
\* NULL (user_commands.c:416-700), and a command's pointer as it was found.
THEOREM CommandsTypeCorrect == CmdSpec => []CmdTypeOK
BY CommandInvariance, PTL DEF CmdInv

\* Under the process commands too, the process the kernel takes for the running
\* one is on the processor and RUNNING (isr.c:190): no command blocks it.
THEOREM CommandsKeepRunning == CmdSpec => []CurIsOnCpu
BY CommandInvariance, PTL DEF CmdInv, CoreInv

\* No I/O completion, dispatch or other command releases a suspended process:
\* it takes a resume_pcb of its name (user_commands.c:593).
THEOREM SuspendedStays == CmdSpec => SuspendedUntilResumed
<1>1. CmdInv /\ [CmdNext]_cmd_vars => [StepResumes]_cmd_vars
  BY CmdNextKeeps
<1>2. CmdSpec => [][StepResumes]_cmd_vars
  BY <1>1, CommandInvariance, PTL DEF CmdSpec
<1> QED BY <1>2 DEF StepResumes, SuspendedUntilResumed
=============================================================================
