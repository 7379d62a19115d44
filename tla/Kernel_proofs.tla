----------------------------- MODULE Kernel_proofs -----------------------------
(***************************************************************************)
(* Invariants of Kernel.tla for every set of PCBs, priorities and names and*)
(* every sequence of requests.  They do not depend on the shape of the     *)
(* lists, which the code does tangle: IInv speaks of the process on the    *)
(* processor, of the device and of the states of the PCBs.                 *)
(***************************************************************************)
EXTENDS Kernel, PcbQueues_proofs

IInv == /\ TypeOK
        /\ CurIsOnCpu
        /\ ContextSaved
        /\ BusyIsFlagged
        /\ IocbQueueUnused
        /\ OneSleeper

-----------------------------------------------------------------------------
\* What the first READY process is, and what taking it off its list keeps.
LEMMA NextRemovedKeeps ==
  ASSUME NEW qq \in QueueRecords
  PROVE  /\ NextReady(qq) = NULL \/ (NextReady(qq) \in PCB /\ qq.state[NextReady(qq)] = "READY")
         /\ NextRemoved(qq) \in QueueRecords
         /\ NextRemoved(qq).state = qq.state
<1>1. NextReady(qq) \in InState(qq, "READY") \union {NULL}
  BY FirstOfType DEF NextReady
<1>2. NextReady(qq) = NULL \/ (NextReady(qq) \in PCB /\ qq.state[NextReady(qq)] = "READY")
  BY <1>1 DEF InState
<1>3. LET r == PcbRemove(qq, NextReady(qq)) IN r \in QueueRecords /\ r.state = qq.state
  BY <1>2, RemoveKeeps DEF PcbOrNull
<1>4. LET r == Fail(qq, "hang") IN r \in QueueRecords /\ r.state = qq.state
  BY DEF Fail, QueueRecords, Faults
<1> QED BY <1>2, <1>3, <1>4 DEF NextRemoved

\* Moving cur_process to a state changes that state only.
LEMMA CurMovedKeeps ==
  ASSUME TypeOK, cur_process \in PCB, NEW s \in States
  PROVE  /\ CurMovedTo(s) \in QueueRecords
         /\ CurMovedTo(s).state = [q.state EXCEPT ![cur_process] = s]
<1> DEFINE r == [NextRemoved(q) EXCEPT !.state[cur_process] = s]
<1>1. NextRemoved(q) \in QueueRecords /\ NextRemoved(q).state = q.state
  BY NextRemovedKeeps DEF TypeOK
<1>2. r \in QueueRecords /\ r.state = [q.state EXCEPT ![cur_process] = s]
  BY <1>1, StateAssigned
<1> HIDE DEF r
<1>3. PcbInsert(r, cur_process) \in QueueRecords /\ PcbInsert(r, cur_process).state = r.state
  BY <1>2, InsertKeeps
<1> QED BY <1>2, <1>3 DEF CurMovedTo, r

\* The process the wake-up finds is the one that waits.
LEMMA SleeperIsTheOne ==
  ASSUME OneSleeper, device1.event_flag = 1, Sleeper # NULL
  PROVE  Sleeper \in PCB /\ InState(q, "BLOCKED") = {Sleeper}
<1>1. PICK p \in PCB : InState(q, "BLOCKED") = {p}
  BY DEF OneSleeper
<1>2. Sleeper \in InState(q, "BLOCKED") \union {NULL}
  BY FirstOfType DEF Sleeper
<1> QED BY <1>1, <1>2

\* The wake-up leaves nobody waiting and changes no other state.
LEMMA AfterEventKeeps ==
  ASSUME TypeOK, OneSleeper, IocbQueueUnused
  PROVE  /\ QueuesAfterEvent \in QueueRecords
         /\ QueuesAfterEvent.fault = "none" =>
              \A p \in PCB : QueuesAfterEvent.state[p] =
                               IF q.state[p] = "BLOCKED" THEN "READY" ELSE q.state[p]
<1>1. CASE device1.event_flag = 0
  BY <1>1 DEF QueuesAfterEvent, TypeOK, OneSleeper, InState
<1>2. CASE device1.event_flag = 1 /\ (Sleeper = NULL \/ Hangs(q, "blocked", InState(q, "BLOCKED")))
  BY <1>2 DEF QueuesAfterEvent, TypeOK, Fail, QueueRecords, Faults
<1>3. CASE device1.event_flag = 1 /\ Sleeper # NULL /\ ~Hangs(q, "blocked", InState(q, "BLOCKED"))
  <2> DEFINE removed == PcbRemove(q, Sleeper)
             readied == [removed EXCEPT !.state[Sleeper] = "READY"]
  <2>1. Sleeper \in PCB /\ InState(q, "BLOCKED") = {Sleeper}
    BY <1>3, SleeperIsTheOne
  <2>2. removed \in QueueRecords /\ removed.state = q.state
    BY <2>1, RemoveKeeps DEF TypeOK, PcbOrNull
  <2>3. readied \in QueueRecords /\ readied.state = [q.state EXCEPT ![Sleeper] = "READY"]
    <3> HIDE DEF removed
    <3>1. "READY" \in States
      BY DEF States, ReadyStates
    <3> QED BY <2>1, <2>2, <3>1, StateAssigned
  <2>4. SleeperReadied \in QueueRecords /\ SleeperReadied.state = readied.state
    <3> HIDE DEF readied
    <3>1. PcbInsert(readied, Sleeper) \in QueueRecords /\ PcbInsert(readied, Sleeper).state = readied.state
      BY <2>1, <2>3, InsertKeeps
    <3> QED BY <3>1 DEF SleeperReadied, readied
  <2>5. QueuesAfterEvent = SleeperReadied
    BY <1>3 DEF QueuesAfterEvent, IocbProcessInserted, IocbQueueUnused
  <2> HIDE DEF removed, readied
  <2>6. \A p \in PCB : q.state[p] = "BLOCKED" <=> p = Sleeper
    BY <2>1 DEF InState
  <2>7. \A p \in PCB : SleeperReadied.state[p] = IF p = Sleeper THEN "READY" ELSE q.state[p]
    BY <2>3, <2>4 DEF TypeOK, QueueRecords
  <2> QED BY <2>4, <2>5, <2>6, <2>7
<1> QED BY <1>1, <1>2, <1>3 DEF TypeOK, Devices

\* After the wake-up the device is idle and no event is pending.
LEMMA DeviceAfterEvent ==
  ASSUME TypeOK, BusyIsFlagged, IocbQueueUnused, NEW d \in DevicesAfterEvent
  PROVE  d \in Devices /\ d.event_flag = 0 /\ d.status = "IDLE" /\ d.iocb_queue = <<>>
<1>1. CASE device1.event_flag = 0
  BY <1>1 DEF DevicesAfterEvent, TypeOK, BusyIsFlagged, IocbQueueUnused
<1>2. CASE device1.event_flag = 1
  <2>1. d = [device1 EXCEPT !.event_flag = 0, !.status = "IDLE", !.sending = FALSE]
    BY <1>2 DEF DevicesAfterEvent, StartNextIocb, IocbQueueUnused
  <2> QED BY <2>1 DEF TypeOK, IocbQueueUnused, Devices, Statuses
<1> QED BY <1>1, <1>2 DEF TypeOK, Devices

\* An idle device starts the request; the flag is set at once.
LEMMA IoSchedulerStarts ==
  ASSUME TypeOK, BusyIsFlagged, IocbQueueUnused, device1.event_flag = 0,
         NEW op \in {"READ", "WRITE"}, NEW d \in IoScheduler(op)
  PROVE  d \in Devices /\ d.event_flag = 1 /\ d.iocb_queue = <<>>
<1>1. device1.status = "IDLE"
  BY DEF BusyIsFlagged
<1>2. PICK s \in Started(op) : d = [s EXCEPT !.event_flag = 1]
  BY <1>1 DEF IoScheduler
<1>3. s \in Devices /\ s.iocb_queue = <<>>
  BY DEF Started, SerialRead, SerialWrite, TypeOK, IocbQueueUnused, Devices, Statuses
<1> QED BY <1>2, <1>3 DEF Devices

-----------------------------------------------------------------------------
\* A machine that stops in a fault keeps the invariant.
LEMMA CrashKeeps ==
  ASSUME IInv, NEW qq \in QueueRecords, Crash(qq)
  PROVE  IInv'
<1>1. /\ q' \in QueueRecords /\ q'.state = q.state
      /\ UNCHANGED <<cur_process, initial_context, device1, cpu>>
  BY DEF Crash, Fail, QueueRecords, IInv, TypeOK
<1> QED BY <1>1 DEF IInv, TypeOK, CurIsOnCpu, ContextSaved, BusyIsFlagged, IocbQueueUnused,
                    OneSleeper, InState

\* Dispatching a READY process, or the saved context, leaves the waiting ones.
LEMMA DispatchKeeps ==
  ASSUME NEW qq \in QueueRecords, NEW n \in PcbOrNull, NEW saved \in PCB \union {KMAIN},
         n # NULL => qq.state[n] # "BLOCKED",
         Dispatch(qq, n, saved)
  PROVE  /\ q' \in QueueRecords
         /\ InState(q, "BLOCKED")' = InState(qq, "BLOCKED")
         /\ cur_process' \in PcbOrNull /\ cpu' \in PCB \union {KMAIN}
         /\ initial_context' = saved
         /\ CurIsOnCpu' /\ ContextSaved'
<1>1. saved # NULL
  BY NullAssumption, BootAssumption
<1>2. CASE n = NULL
  BY <1>1, <1>2 DEF Dispatch, CurIsOnCpu, ContextSaved, PcbOrNull, InState
<1>3. CASE n \in PCB
  <2>1. n # NULL
    BY <1>3, NullAssumption
  <2>2. q' = [qq EXCEPT !.state[n] = "RUNNING"] /\ cpu' = n /\ cur_process' = n
        /\ initial_context' = saved
    BY <2>1 DEF Dispatch
  <2>3. q' \in QueueRecords /\ q'.state = [qq.state EXCEPT ![n] = "RUNNING"]
    <3>1. "RUNNING" \in States
      BY DEF States
    <3> QED BY <1>3, <2>2, <3>1, StateAssigned
  <2>4. \A p \in PCB : q'.state[p] = IF p = n THEN "RUNNING" ELSE qq.state[p]
    BY <2>3, <1>3 DEF QueueRecords
  <2>5. InState(q, "BLOCKED")' = InState(qq, "BLOCKED")
    BY <2>1, <2>4, <1>3 DEF InState
  <2> QED BY <1>1, <1>3, <2>2, <2>3, <2>4, <2>5 DEF CurIsOnCpu, ContextSaved, PcbOrNull
<1> QED BY <1>2, <1>3 DEF PcbOrNull

\* What holds whenever a request is performed.
LEMMA PerformsFacts ==
  ASSUME IInv, Performs
  PROVE  /\ cur_process \in PCB /\ q.state[cur_process] = "RUNNING"
         /\ initial_context \in PCB \union {KMAIN}
         /\ InState(q, "BLOCKED") = {}
         /\ device1.event_flag = 0
         /\ NextReady(q) \in PcbOrNull
         /\ NextReady(q) # NULL => q.state[NextReady(q)] = "READY" /\ NextReady(q) # cur_process
<1>1. cur_process \in PCB /\ q.state[cur_process] = "RUNNING" /\ device1.event_flag = 0
  BY DEF Performs, IInv, TypeOK, PcbOrNull, CurIsOnCpu
<1>2. initial_context \in PCB \union {KMAIN}
  BY DEF Performs, IInv, TypeOK, ContextSaved
<1>3. InState(q, "BLOCKED") = {}
  BY <1>1 DEF IInv, OneSleeper
<1>4. NextReady(q) = NULL \/ (NextReady(q) \in PCB /\ q.state[NextReady(q)] = "READY")
  BY NextRemovedKeeps DEF IInv, TypeOK
<1> QED BY <1>1, <1>2, <1>3, <1>4 DEF PcbOrNull

\* The processes waiting once cur_process has been moved to state s.
LEMMA CurMovedWaiting ==
  ASSUME IInv, Performs, NEW s \in States
  PROVE  /\ CurMovedTo(s) \in QueueRecords
         /\ InState(CurMovedTo(s), "BLOCKED") = IF s = "BLOCKED" THEN {cur_process} ELSE {}
         /\ NextReady(q) # NULL => CurMovedTo(s).state[NextReady(q)] = "READY"
<1>1. /\ CurMovedTo(s) \in QueueRecords
      /\ CurMovedTo(s).state = [q.state EXCEPT ![cur_process] = s]
  BY PerformsFacts, CurMovedKeeps DEF IInv
<1>2. \A p \in PCB : CurMovedTo(s).state[p] = IF p = cur_process THEN s ELSE q.state[p]
  BY <1>1, PerformsFacts DEF IInv, TypeOK, QueueRecords
<1> QED BY <1>1, <1>2, PerformsFacts DEF InState, PcbOrNull

-----------------------------------------------------------------------------
\* A call that is not performed: the wake-up, then a dispatch.
LEMMA SaveContextKeeps == IInv /\ SaveContext => IInv'
<1> SUFFICES ASSUME IInv, SaveContext PROVE IInv'
  OBVIOUS
<1> DEFINE woken == QueuesAfterEvent
           qq == NextRemoved(woken)
           n == NextReady(woken)
<1>1. /\ woken \in QueueRecords
      /\ woken.fault = "none" =>
           \A p \in PCB : woken.state[p] = IF q.state[p] = "BLOCKED" THEN "READY" ELSE q.state[p]
  BY AfterEventKeeps DEF IInv
<1> HIDE DEF woken
<1>2. /\ qq \in QueueRecords /\ qq.state = woken.state
      /\ n = NULL \/ (n \in PCB /\ woken.state[n] = "READY")
  BY <1>1, NextRemovedKeeps
<1>3. qq.fault = "none" => woken.fault = "none"
  <2>1. woken.fault # "none" => qq = woken
    BY DEF NextRemoved, PcbRemove
  <2> QED BY <2>1
<1> HIDE DEF qq, n
<1>4. CASE qq.fault # "none"
  <2>1. Crash(qq)
    BY <1>4 DEF SaveContext, qq, woken
  <2> QED BY <1>2, <2>1, CrashKeeps
<1>5. CASE qq.fault = "none"
  <2>1. Dispatch(qq, n, cpu) /\ device1' \in DevicesAfterEvent
    BY <1>5 DEF SaveContext, qq, n, woken
  <2>2. cpu \in PCB \union {KMAIN} /\ n \in PcbOrNull /\ (n # NULL => qq.state[n] # "BLOCKED")
    BY <1>2 DEF IInv, TypeOK, PcbOrNull
  <2>3. InState(qq, "BLOCKED") = {}
    BY <1>1, <1>2, <1>3, <1>5 DEF InState
  <2>4. /\ q' \in QueueRecords /\ InState(q, "BLOCKED")' = {}
        /\ cur_process' \in PcbOrNull /\ cpu' \in PCB \union {KMAIN}
        /\ initial_context' = cpu /\ CurIsOnCpu' /\ ContextSaved'
    BY <1>2, <2>1, <2>2, <2>3, DispatchKeeps
  <2>5. /\ device1' \in Devices /\ device1'.event_flag = 0
        /\ device1'.status = "IDLE" /\ device1'.iocb_queue = <<>>
    BY <2>1, DeviceAfterEvent DEF IInv
  <2> QED BY <2>2, <2>4, <2>5 DEF IInv, TypeOK, BusyIsFlagged, IocbQueueUnused, OneSleeper
<1> QED BY <1>4, <1>5

\* IDLE: the caller goes back to the ready list.
LEMMA IdleCallKeeps == IInv /\ IdleCall => IInv'
<1> SUFFICES ASSUME IInv, IdleCall PROVE IInv'
  OBVIOUS
<1> DEFINE qq == CurMovedTo("READY")
           n == NextReady(q)
<1>1. Performs /\ "READY" \in States
  BY DEF IdleCall, States, ReadyStates
<1>2. qq \in QueueRecords /\ InState(qq, "BLOCKED") = {} /\ (n # NULL => qq.state[n] = "READY")
  BY <1>1, CurMovedWaiting
<1>3. /\ initial_context \in PCB \union {KMAIN} /\ n \in PcbOrNull
      /\ device1.event_flag = 0
  BY <1>1, PerformsFacts
<1> HIDE DEF qq, n
<1>4. CASE qq.fault # "none"
  <2>1. Crash(qq)
    BY <1>4 DEF IdleCall, qq
  <2> QED BY <1>2, <2>1, CrashKeeps
<1>5. CASE qq.fault = "none"
  <2>1. Dispatch(qq, n, initial_context) /\ UNCHANGED device1
    BY <1>5 DEF IdleCall, qq, n
  <2>2. /\ q' \in QueueRecords /\ InState(q, "BLOCKED")' = {}
        /\ cur_process' \in PcbOrNull /\ cpu' \in PCB \union {KMAIN}
        /\ initial_context' = initial_context /\ CurIsOnCpu' /\ ContextSaved'
    BY <1>2, <1>3, <2>1, DispatchKeeps
  <2> QED BY <1>3, <2>1, <2>2 DEF IInv, TypeOK, BusyIsFlagged, IocbQueueUnused, OneSleeper
<1> QED BY <1>4, <1>5

\* EXIT: no PCB changes its state until the next one is dispatched.
LEMMA ExitCallKeeps == IInv /\ ExitCall => IInv'
<1> SUFFICES ASSUME IInv, ExitCall PROVE IInv'
  OBVIOUS
<1> DEFINE qq == PcbRemove(NextRemoved(q), cur_process)
           n == NextReady(q)
<1>1. Performs
  BY DEF ExitCall
<1>2. NextRemoved(q) \in QueueRecords /\ NextRemoved(q).state = q.state
  BY NextRemovedKeeps DEF IInv, TypeOK
<1>3. /\ initial_context \in PCB \union {KMAIN} /\ n \in PcbOrNull
      /\ (n # NULL => q.state[n] = "READY")
      /\ device1.event_flag = 0 /\ InState(q, "BLOCKED") = {}
  BY <1>1, PerformsFacts
<1>4. qq \in QueueRecords /\ qq.state = q.state
  BY <1>2, RemoveKeeps DEF IInv, TypeOK
<1> HIDE DEF qq, n
<1>5. CASE qq.fault # "none"
  <2>1. Crash(qq)
    BY <1>5 DEF ExitCall, qq
  <2> QED BY <1>4, <2>1, CrashKeeps
<1>6. CASE qq.fault = "none"
  <2>1. Dispatch(qq, n, initial_context) /\ UNCHANGED device1
    BY <1>6 DEF ExitCall, qq, n
  <2>2. /\ q' \in QueueRecords /\ InState(q, "BLOCKED")' = {}
        /\ cur_process' \in PcbOrNull /\ cpu' \in PCB \union {KMAIN}
        /\ initial_context' = initial_context /\ CurIsOnCpu' /\ ContextSaved'
    <3>1. InState(qq, "BLOCKED") = {} /\ (n # NULL => qq.state[n] # "BLOCKED")
      BY <1>3, <1>4 DEF InState
    <3> QED BY <1>3, <1>4, <2>1, <3>1, DispatchKeeps
  <2> QED BY <1>3, <2>1, <2>2 DEF IInv, TypeOK, BusyIsFlagged, IocbQueueUnused, OneSleeper
<1> QED BY <1>5, <1>6

\* WRITE: the caller is the one that waits, and the flag is set with it.
LEMMA WriteCallKeeps == IInv /\ WriteCall => IInv'
<1> SUFFICES ASSUME IInv, WriteCall PROVE IInv'
  OBVIOUS
<1> DEFINE qq == CurMovedTo("BLOCKED")
           n == NextReady(q)
<1>1. Performs /\ "BLOCKED" \in States
  BY DEF WriteCall, States, BlockedStates
<1>2. /\ qq \in QueueRecords /\ InState(qq, "BLOCKED") = {cur_process}
      /\ (n # NULL => qq.state[n] = "READY")
  BY <1>1, CurMovedWaiting
<1>3. /\ cur_process \in PCB
      /\ initial_context \in PCB \union {KMAIN} /\ n \in PcbOrNull
      /\ device1.event_flag = 0
  BY <1>1, PerformsFacts
<1> HIDE DEF qq, n
<1>4. CASE qq.fault # "none"
  <2>1. Crash(qq)
    BY <1>4 DEF WriteCall, qq
  <2> QED BY <1>2, <2>1, CrashKeeps
<1>5. CASE qq.fault = "none"
  <2>1. Dispatch(qq, n, initial_context) /\ device1' \in IoScheduler("WRITE")
    BY <1>5 DEF WriteCall, qq, n
  <2>2. /\ q' \in QueueRecords /\ InState(q, "BLOCKED")' = {cur_process}
        /\ cur_process' \in PcbOrNull /\ cpu' \in PCB \union {KMAIN}
        /\ initial_context' = initial_context /\ CurIsOnCpu' /\ ContextSaved'
    BY <1>2, <1>3, <2>1, DispatchKeeps
  <2>3. device1' \in Devices /\ device1'.event_flag = 1 /\ device1'.iocb_queue = <<>>
    BY <1>3, <2>1, IoSchedulerStarts DEF IInv
  <2>4. OneSleeper'
    BY <1>3, <2>2, <2>3 DEF OneSleeper
  <2> QED BY <1>3, <2>2, <2>3, <2>4 DEF IInv, TypeOK, BusyIsFlagged, IocbQueueUnused
<1> QED BY <1>4, <1>5

\* READ: likewise, with no process known to be running.
LEMMA ReadCallKeeps == IInv /\ ReadCall => IInv'
<1> SUFFICES ASSUME IInv, ReadCall PROVE IInv'
  OBVIOUS
<1> DEFINE qq == CurMovedTo("BLOCKED")
<1>1. Performs /\ "BLOCKED" \in States
  BY DEF ReadCall, States, BlockedStates
<1>2. qq \in QueueRecords /\ InState(qq, "BLOCKED") = {cur_process}
  BY <1>1, CurMovedWaiting
<1>3. /\ cur_process \in PCB /\ device1.event_flag = 0
      /\ initial_context \in PCB \union {KMAIN}
  BY <1>1, PerformsFacts
<1> HIDE DEF qq
<1>4. CASE qq.fault # "none"
  <2>1. Crash(qq)
    BY <1>4 DEF ReadCall, qq
  <2> QED BY <1>2, <2>1, CrashKeeps
<1>5. CASE qq.fault = "none"
  <2>1. /\ q' = qq /\ cur_process' = NULL /\ device1' \in IoScheduler("READ")
        /\ UNCHANGED <<initial_context, cpu>>
    BY <1>5 DEF ReadCall, qq
  <2>2. device1' \in Devices /\ device1'.event_flag = 1 /\ device1'.iocb_queue = <<>>
    BY <1>3, <2>1, IoSchedulerStarts DEF IInv
  <2>3. OneSleeper'
    BY <1>2, <1>3, <2>1, <2>2 DEF OneSleeper
  <2>4. initial_context # NULL
    BY <1>3, NullAssumption, BootAssumption
  <2> QED BY <1>2, <2>1, <2>2, <2>3, <2>4
          DEF IInv, TypeOK, PcbOrNull, CurIsOnCpu, ContextSaved, BusyIsFlagged, IocbQueueUnused
<1> QED BY <1>4, <1>5

\* An invalid request: only the ready list changes.
LEMMA InvalidCallKeeps == IInv /\ InvalidCall => IInv'
<1> SUFFICES ASSUME IInv, InvalidCall PROVE IInv'
  OBVIOUS
<1>1. NextRemoved(q) \in QueueRecords /\ NextRemoved(q).state = q.state
  BY NextRemovedKeeps DEF IInv, TypeOK
<1>2. CASE NextRemoved(q).fault # "none"
  BY <1>1, <1>2, CrashKeeps DEF InvalidCall
<1>3. CASE NextRemoved(q).fault = "none"
  <2>1. q' = NextRemoved(q) /\ UNCHANGED <<cur_process, initial_context, device1, cpu>>
    BY <1>3 DEF InvalidCall
  <2> QED BY <1>1, <2>1 DEF IInv, TypeOK, CurIsOnCpu, ContextSaved, BusyIsFlagged,
                            IocbQueueUnused, OneSleeper, InState
<1> QED BY <1>2, <1>3

\* createProc: a PCB that was free becomes READY.
LEMMA CreateProcKeeps == ASSUME NEW p \in PCB PROVE IInv /\ CreateProc(p) => IInv'
<1> SUFFICES ASSUME IInv, CreateProc(p) PROVE IInv'
  OBVIOUS
<1> DEFINE readied == [q EXCEPT !.state[p] = "READY"]
           inserted == PcbInsert(readied, p)
           qq == IF FindHangs(q, NameOf[p]) THEN Fail(q, "hang")
                 ELSE IF PcbFind(q, NameOf[p]) # NULL THEN q ELSE inserted
<1>1. q.state[p] = "FREE" /\ q \in QueueRecords
  BY DEF CreateProc, IInv, TypeOK
<1>2. readied \in QueueRecords /\ readied.state = [q.state EXCEPT ![p] = "READY"]
  <2>1. "READY" \in States
    BY DEF States, ReadyStates
  <2> QED BY <1>1, <2>1, StateAssigned
<1>3. inserted \in QueueRecords /\ inserted.state = readied.state
  <2> HIDE DEF readied
  <2> QED BY <1>2, InsertKeeps
<1>4. Fail(q, "hang") \in QueueRecords /\ Fail(q, "hang").state = q.state
  BY <1>1 DEF Fail, QueueRecords, Faults
<1>5. CASE qq.fault # "none"
  <2>1. Crash(qq)
    BY <1>5 DEF CreateProc
  <2>2. qq \in QueueRecords
    <3> HIDE DEF inserted
    <3> QED BY <1>1, <1>3, <1>4
  <2> HIDE DEF qq
  <2> QED BY <2>1, <2>2, CrashKeeps
<1>6. CASE qq.fault = "none"
  <2>1. q' = qq /\ UNCHANGED <<cur_process, initial_context, device1, cpu>>
    BY <1>6 DEF CreateProc
  <2>2. /\ q' \in QueueRecords
        /\ q'.state = q.state \/ q'.state = [q.state EXCEPT ![p] = "READY"]
    <3> HIDE DEF inserted
    <3> QED BY <1>1, <1>2, <1>3, <1>4, <2>1
  <2>3. \A r \in PCB : q'.state[r] = q.state[r] \/ (r = p /\ q'.state[r] = "READY")
    BY <1>1, <2>2 DEF QueueRecords
  <2>4. InState(q, "BLOCKED")' = InState(q, "BLOCKED")
    BY <1>1, <2>3 DEF InState
  <2>5. cur_process # p
    BY <1>1, NullAssumption DEF IInv, CurIsOnCpu
  <2> QED BY <2>1, <2>2, <2>3, <2>4, <2>5
          DEF IInv, TypeOK, PcbOrNull, CurIsOnCpu, ContextSaved, BusyIsFlagged,
              IocbQueueUnused, OneSleeper
<1> QED BY <1>5, <1>6

\* sht_dwn changes the front of the ready list only.
LEMMA ReadyClearedKeeps == IInv /\ ReadyCleared => IInv'
<1> SUFFICES ASSUME IInv, ReadyCleared PROVE IInv'
  OBVIOUS
<1>1. q' \in QueueRecords /\ q'.state = q.state
  BY DEF ReadyCleared, IInv, TypeOK, QueueRecords, PcbOrNull
<1> QED BY <1>1 DEF ReadyCleared, IInv, TypeOK, CurIsOnCpu, ContextSaved, BusyIsFlagged,
                    IocbQueueUnused, OneSleeper, InState

\* An interrupt finds the flag set already.
LEMMA InterruptKeeps == IInv /\ (OutputInterrupt \/ InputInterrupt) => IInv'
<1> SUFFICES ASSUME IInv, OutputInterrupt \/ InputInterrupt PROVE IInv'
  OBVIOUS
<1>1. UNCHANGED <<q, cur_process, initial_context, cpu>>
  BY DEF OutputInterrupt, InputInterrupt
<1>2. device1.event_flag = 1
  BY DEF OutputInterrupt, InputInterrupt, IInv, BusyIsFlagged
<1>3. device1' \in Devices /\ device1'.event_flag = 1 /\ device1'.iocb_queue = <<>>
  BY DEF OutputInterrupt, InputInterrupt, IInv, TypeOK, IocbQueueUnused, Devices, Statuses
<1> QED BY <1>1, <1>2, <1>3 DEF IInv, TypeOK, CurIsOnCpu, ContextSaved, BusyIsFlagged,
                                IocbQueueUnused, OneSleeper, InState

-----------------------------------------------------------------------------
\* An interrupt that takes a register stops the machine where it is.
LEMMA LossKeeps ==
  ASSUME IInv, RegistersLost
  PROVE  /\ Crash(Fail(q, "registers")) /\ Fail(q, "registers") \in QueueRecords
         /\ Fail(q, "registers").fault = "registers"
         /\ IInv'
<1>1. /\ Fail(q, "registers") \in QueueRecords /\ Fail(q, "registers").fault = "registers"
      /\ Crash(Fail(q, "registers"))
  BY DEF RegistersLost, Fail, QueueRecords, Faults, IInv, TypeOK
<1> QED BY <1>1, CrashKeeps

\* kmain's two createProc leave comhand and idle READY, nobody waiting.
LEMMA InitKeeps == Init => IInv
<1> SUFFICES ASSUME Init PROVE IInv
  OBVIOUS
<1> DEFINE created == [front |-> [l \in Lists |-> NULL], next |-> [p \in PCB |-> NULL],
                       state |-> [p \in PCB |-> IF p \in {Comhand, Idle} THEN "READY" ELSE "FREE"],
                       prio |-> PrioOf, fault |-> "none"]
           first == PcbInsert(created, Comhand)
<1>1. created \in QueueRecords
  BY PrioAssumption DEF QueueRecords, PcbOrNull, States, ReadyStates, Faults
<1>2. \A p \in PCB : created.state[p] # "BLOCKED"
  OBVIOUS
<1> HIDE DEF created
<1>3. first \in QueueRecords /\ first.state = created.state
  BY <1>1, InsertKeeps, BootAssumption
<1> HIDE DEF first
<1>4. PcbInsert(first, Idle) \in QueueRecords /\ PcbInsert(first, Idle).state = first.state
  BY <1>3, InsertKeeps, BootAssumption
<1>5. q = PcbInsert(first, Idle)
  BY DEF Init, BootQueues, first, created
<1>6. q \in QueueRecords /\ InState(q, "BLOCKED") = {}
  BY <1>2, <1>3, <1>4, <1>5 DEF InState
<1>7. device1 \in Devices /\ device1.event_flag = 0 /\ device1.status = "IDLE" /\ device1.iocb_queue = <<>>
  BY DEF Init, CreateDcb, Devices, Statuses
<1> QED BY <1>6, <1>7 DEF Init, IInv, TypeOK, PcbOrNull, CurIsOnCpu, ContextSaved,
                          BusyIsFlagged, IocbQueueUnused, OneSleeper

\* Every step of the kernel keeps the invariant.
LEMMA NextKeeps == IInv /\ [Next]_vars => IInv'
<1> SUFFICES ASSUME IInv, [Next]_vars PROVE IInv'
  OBVIOUS
<1>1. CASE SysCall
  BY <1>1, SaveContextKeeps, IdleCallKeeps, ExitCallKeeps, WriteCallKeeps, ReadCallKeeps,
     InvalidCallKeeps DEF SysCall
<1>2. CASE \E p \in PCB : CreateProc(p)
  BY <1>2, CreateProcKeeps
<1>3. CASE ReadyCleared
  BY <1>3, ReadyClearedKeeps
<1>4. CASE OutputInterrupt \/ InputInterrupt
  BY <1>4, InterruptKeeps
<1>5. CASE UNCHANGED vars
  BY <1>5 DEF vars, IInv, TypeOK, CurIsOnCpu, ContextSaved, BusyIsFlagged, IocbQueueUnused,
              OneSleeper, InState
<1>6. CASE RegistersLost
  BY <1>6, LossKeeps
<1> QED BY <1>1, <1>2, <1>3, <1>4, <1>5, <1>6 DEF Next

\* The strengthened invariant, from which the theorems below follow.
THEOREM Invariance == Spec => []IInv
BY InitKeeps, NextKeeps, PTL DEF Spec

\* The kernel's variables keep their types: whatever the lists have become, a
\* link is a PCB or NULL, and the device's status one of its four (isr.c, pcb.c).
THEOREM TypeCorrect == Spec => []TypeOK
BY Invariance, PTL DEF IInv

\* cur_process, when the kernel has one, is the process on the processor
\* (isr.c:190), for any number of processes and any requests.
THEOREM CurProcessRuns == Spec => []CurIsOnCpu
BY Invariance, PTL DEF IInv

\* sys_call never resumes on a stack it has not saved (isr.c:115, 186).
THEOREM ResumeIsDefined == Spec => []ContextSaved
BY Invariance, PTL DEF IInv

\* No transfer is under way without an event to end it (isr.c:20, 57).
THEOREM TransferIsFlagged == Spec => []BusyIsFlagged
BY Invariance, PTL DEF IInv

\* The queueing of requests to a busy device (serial.c:103) is never reached.
THEOREM NoQueuedRequest == Spec => []IocbQueueUnused
BY Invariance, PTL DEF IInv

\* One process waits while the flag is set and none otherwise: a wake-up is
\* neither lost nor given to a process that does not wait (isr.c:27-42).
THEOREM WakeUpMatchesSleeper == Spec => []OneSleeper
BY Invariance, PTL DEF IInv

-----------------------------------------------------------------------------
RunStep == \A p \in PCB :
             q.state[p] # "RUNNING" /\ q'.state[p] = "RUNNING" =>
               \/ q.state[p] = "READY"
               \/ q.state[p] = "BLOCKED" /\ device1.event_flag = 1 /\ device1'.event_flag = 0

\* A dispatch sets one state to RUNNING, that of the process it dispatches.
LEMMA DispatchRuns ==
  ASSUME NEW qq \in QueueRecords, NEW n \in PcbOrNull, NEW saved, NEW p \in PCB,
         Dispatch(qq, n, saved), q'.state[p] = "RUNNING"
  PROVE  (p = n /\ n # NULL) \/ qq.state[p] = "RUNNING"
BY DEF Dispatch, PcbOrNull, QueueRecords

\* A process comes to the processor's RUNNING state from READY, or from the wait
\* this very call ends (isr.c:41, 191).
LEMMA NextRuns == IInv /\ [Next]_vars => RunStep
<1> SUFFICES ASSUME IInv, [Next]_vars, NEW p \in PCB,
                    q.state[p] # "RUNNING", q'.state[p] = "RUNNING"
             PROVE  \/ q.state[p] = "READY"
                    \/ q.state[p] = "BLOCKED" /\ device1.event_flag = 1 /\ device1'.event_flag = 0
  BY DEF RunStep
<1> USE DEF IInv
<1>0. q \in QueueRecords
  BY DEF TypeOK
<1>1. ASSUME NEW qq \in QueueRecords, Crash(qq) PROVE FALSE
  BY <1>1 DEF Crash, Fail
<1>2. CASE SaveContext
  <2> DEFINE woken == QueuesAfterEvent
             qq == NextRemoved(woken)
             n == NextReady(woken)
  <2>1. /\ woken \in QueueRecords
        /\ woken.fault = "none" =>
             \A r \in PCB : woken.state[r] = IF q.state[r] = "BLOCKED" THEN "READY" ELSE q.state[r]
    BY AfterEventKeeps
  <2> HIDE DEF woken
  <2>2. /\ qq \in QueueRecords /\ qq.state = woken.state
        /\ n = NULL \/ (n \in PCB /\ woken.state[n] = "READY")
    BY <2>1, NextRemovedKeeps
  <2>3. qq.fault = "none" => woken.fault = "none"
    BY DEF NextRemoved, PcbRemove
  <2> HIDE DEF qq, n
  <2>4. qq.fault = "none" /\ Dispatch(qq, n, cpu) /\ device1' \in DevicesAfterEvent
    <3>1. qq.fault = "none"
      BY <1>1, <1>2, <2>2 DEF SaveContext, qq, woken
    <3> QED BY <1>2, <3>1 DEF SaveContext, qq, n, woken
  <2>5. p = n /\ n # NULL
    BY <2>1, <2>2, <2>3, <2>4, DispatchRuns DEF PcbOrNull
  <2>6. q.state[p] \in {"READY", "BLOCKED"}
    BY <2>1, <2>2, <2>3, <2>4, <2>5
  <2>7. device1'.event_flag = 0
    BY <2>4, DeviceAfterEvent
  <2>8. q.state[p] = "BLOCKED" => device1.event_flag = 1
    BY DEF OneSleeper, InState, TypeOK, Devices
  <2> QED BY <2>6, <2>7, <2>8
<1>3. ASSUME NEW s \in States \ {"RUNNING"}, Performs,
             CurMovedTo(s).fault # "none" => Crash(CurMovedTo(s)),
             CurMovedTo(s).fault = "none" => \/ Dispatch(CurMovedTo(s), NextReady(q), initial_context)
                                             \/ q' = CurMovedTo(s)
      PROVE  q.state[p] = "READY"
  <2> DEFINE qq == CurMovedTo(s)
  <2>1. /\ qq \in QueueRecords
        /\ \A r \in PCB : qq.state[r] = IF r = cur_process THEN s ELSE q.state[r]
    <3>1. cur_process \in PCB
      BY <1>3, PerformsFacts
    <3>2. qq \in QueueRecords /\ qq.state = [q.state EXCEPT ![cur_process] = s]
      BY <1>3, <3>1, CurMovedKeeps
    <3> HIDE DEF qq
    <3> QED BY <1>0, <3>1, <3>2 DEF QueueRecords
  <2>2. NextReady(q) \in PcbOrNull /\ (NextReady(q) # NULL => q.state[NextReady(q)] = "READY")
    BY <1>3, PerformsFacts
  <2> HIDE DEF qq
  <2>3. \/ Dispatch(qq, NextReady(q), initial_context)
        \/ q' = qq
    BY <1>1, <1>3, <2>1 DEF qq
  <2>4. qq.state[p] # "RUNNING"
    BY <1>3, <2>1
  <2> QED BY <2>1, <2>2, <2>3, <2>4, DispatchRuns
<1>4. CASE IdleCall
  BY <1>3, <1>4 DEF IdleCall, States, ReadyStates
<1>5. CASE WriteCall
  BY <1>3, <1>5 DEF WriteCall, States, BlockedStates
<1>6. CASE ReadCall
  BY <1>3, <1>6 DEF ReadCall, States, BlockedStates
<1>7. CASE ExitCall
  <2> DEFINE qq == PcbRemove(NextRemoved(q), cur_process)
  <2>1. NextRemoved(q) \in QueueRecords /\ NextRemoved(q).state = q.state
    BY NextRemovedKeeps DEF TypeOK
  <2>2. qq \in QueueRecords /\ qq.state = q.state
    BY <2>1, RemoveKeeps DEF TypeOK
  <2>3. NextReady(q) \in PcbOrNull /\ (NextReady(q) # NULL => q.state[NextReady(q)] = "READY")
    BY <1>7, PerformsFacts DEF ExitCall
  <2> HIDE DEF qq
  <2>4. Dispatch(qq, NextReady(q), initial_context)
    BY <1>1, <1>7, <2>2 DEF ExitCall, qq
  <2> QED BY <2>2, <2>3, <2>4, DispatchRuns
<1>8. CASE InvalidCall
  <2>1. NextRemoved(q) \in QueueRecords /\ NextRemoved(q).state = q.state
    BY NextRemovedKeeps DEF TypeOK
  <2> QED BY <1>1, <1>8, <2>1 DEF InvalidCall
<1>9. ASSUME NEW r \in PCB, CreateProc(r) PROVE FALSE
  <2> DEFINE readied == [q EXCEPT !.state[r] = "READY"]
             inserted == PcbInsert(readied, r)
  <2>1. readied \in QueueRecords /\ readied.state = [q.state EXCEPT ![r] = "READY"]
    BY <1>0, StateAssigned DEF States, ReadyStates
  <2>2. inserted \in QueueRecords /\ inserted.state = readied.state
    <3> HIDE DEF readied
    <3> QED BY <2>1, InsertKeeps
  <2>3. q' = inserted \/ q' = q \/ \E f \in Faults : q' = Fail(q, f)
    <3>1. inserted.fault \in Faults /\ q.fault \in Faults /\ "hang" \in Faults
      BY <1>0, <2>2 DEF QueueRecords, Faults
    <3> HIDE DEF readied
    <3> QED BY <1>9, <3>1 DEF CreateProc, Crash, Fail, readied
  <2> HIDE DEF inserted
  <2>4. q'.state[p] = q.state[p] \/ q'.state[p] = "READY"
    BY <1>0, <2>1, <2>2, <2>3 DEF Fail, QueueRecords
  <2> QED BY <2>4
<1>10. CASE ReadyCleared
  BY <1>0, <1>10 DEF ReadyCleared, QueueRecords
<1>11. CASE OutputInterrupt \/ InputInterrupt
  BY <1>11 DEF OutputInterrupt, InputInterrupt
<1>12. CASE UNCHANGED vars
  BY <1>12 DEF vars
<1>13. CASE RegistersLost
  <2>1. q'.state = q.state
    BY <1>0, <1>13 DEF RegistersLost, Crash, Fail, QueueRecords
  <2> QED BY <2>1
<1> QED BY <1>2, <1>4, <1>5, <1>6, <1>7, <1>8, <1>9, <1>10, <1>11, <1>12, <1>13 DEF Next, SysCall

\* No process is put on the processor from a suspended state, or while it waits
\* for a transfer that has not been ended.
THEOREM RunsFromReady == Spec => RunsOnlyWhenReady
<1>1. IInv /\ [Next]_vars => [RunStep]_vars
  BY NextRuns
<1>2. Spec => [][RunStep]_vars
  BY <1>1, Invariance, PTL DEF Spec
<1> QED BY <1>2 DEF RunStep, RunsOnlyWhenReady

-----------------------------------------------------------------------------
(***************************************************************************)
(* The lists. Requests nobody should make leave them tangled: a process can*)
(* be on both, or twice on one, and a list can be a cycle. What remains is *)
(* this: a PCB that is not allocated is on no list, no walk has met a NULL *)
(* pointer, and the process that waits is on the blocked list.             *)
(***************************************************************************)
LinksOK(qq) == FreeUnlinked(qq) /\ qq.fault # "null"

ListInv == IInv /\ LinksOK(q) /\ SleeperOnBlockedList

LEMMA FailKeepsLinks ==
  ASSUME NEW qq \in QueueRecords, LinksOK(qq), NEW f \in Faults, f # "null"
  PROVE  LinksOK(Fail(qq, f))
<1>1. /\ Fail(qq, f) \in QueueRecords /\ Fail(qq, f).fault = f
      /\ Fail(qq, f).front = qq.front /\ Fail(qq, f).next = qq.next
      /\ Fail(qq, f).state = qq.state
  BY DEF Fail, QueueRecords
<1> QED BY <1>1, FreeShrinks DEF LinksOK, InState

\* The first READY process is taken off a list it is on.
LEMMA NextRemovedKeepsLinks ==
  ASSUME NEW qq \in QueueRecords, LinksOK(qq)
  PROVE  LinksOK(NextRemoved(qq))
<1>1. InState(qq, "READY") \in SUBSET PCB /\ "ready" \in Lists /\ "hang" \in Faults
  BY DEF InState, Lists, Faults
<1>2. NextReady(qq) \in (InState(qq, "READY") \intersect OnList(qq, "ready")) \union {NULL}
  BY <1>1, FirstOfFinds DEF NextReady
<1>3. NextReady(qq) \in PcbOrNull
  BY <1>1, <1>2 DEF PcbOrNull
<1>4. NextReady(qq) # NULL => /\ NextReady(qq) \in OnList(qq, "ready")
                             /\ qq.state[NextReady(qq)] \notin BlockedStates
  BY <1>2 DEF InState, BlockedStates
<1>5. PcbRemove(qq, NextReady(qq)).fault # "null"
  BY <1>3, <1>4, RemoveFromList DEF LinksOK
<1>6. FreeUnlinked(PcbRemove(qq, NextReady(qq)))
  BY <1>3, RemoveKeepsFree DEF LinksOK
<1>7. LinksOK(Fail(qq, "hang"))
  BY <1>1, FailKeepsLinks
<1> QED BY <1>5, <1>6, <1>7 DEF NextRemoved, LinksOK

\* Assigning a state to a PCB that is allocated, and linking it.
LEMMA MovedKeepsLinks ==
  ASSUME NEW qq \in QueueRecords, LinksOK(qq), NEW p \in PCB, qq.state[p] # "FREE",
         NEW s \in States \ {"FREE"}
  PROVE  LinksOK(PcbInsert([qq EXCEPT !.state[p] = s], p))
<1> DEFINE r == [qq EXCEPT !.state[p] = s]
<1>1. r \in QueueRecords /\ r.state = [qq.state EXCEPT ![p] = s]
  BY StateAssigned
<1>2. r.front = qq.front /\ r.next = qq.next /\ r.fault = qq.fault
  BY DEF QueueRecords
<1> HIDE DEF r
<1>3. InState(r, "FREE") \subseteq InState(qq, "FREE")
  BY <1>1 DEF InState, QueueRecords
<1>4. FreeUnlinked(r) /\ r.fault # "null"
  BY <1>1, <1>2, <1>3, FreeShrinks DEF LinksOK
<1>5. FreeUnlinked(PcbInsert(r, p)) /\ PcbInsert(r, p).fault # "null"
  BY <1>1, <1>4, InsertKeepsFree, InsertNeverNull
<1> QED BY <1>5 DEF LinksOK, r

LEMMA CurMovedKeepsLinks ==
  ASSUME ListInv, Performs, NEW s \in {"READY", "BLOCKED"}
  PROVE  LinksOK(CurMovedTo(s))
<1>1. cur_process \in PCB /\ q.state[cur_process] = "RUNNING"
  BY PerformsFacts DEF ListInv
<1>2. NextRemoved(q) \in QueueRecords /\ NextRemoved(q).state = q.state
  BY NextRemovedKeeps DEF ListInv, IInv, TypeOK
<1>3. LinksOK(NextRemoved(q))
  BY NextRemovedKeepsLinks DEF ListInv, IInv, TypeOK
<1>4. s \in States \ {"FREE"}
  BY DEF States, ReadyStates, BlockedStates
<1> QED BY <1>1, <1>2, <1>3, <1>4, MovedKeepsLinks DEF CurMovedTo

\* The wake-up finds the process that waits, and takes it off the blocked list.
LEMMA AfterEventKeepsLinks ==
  ASSUME ListInv
  PROVE  LinksOK(QueuesAfterEvent)
<1>1. CASE device1.event_flag = 0
  BY <1>1 DEF QueuesAfterEvent, ListInv
<1>2. CASE device1.event_flag = 1
  <2>1. PICK p \in PCB : InState(q, "BLOCKED") = {p}
    BY <1>2 DEF ListInv, IInv, OneSleeper
  <2>2. q \in QueueRecords /\ "blocked" \in Lists /\ {p} \in SUBSET PCB /\ p \in OnList(q, "blocked")
    BY <2>1 DEF ListInv, IInv, TypeOK, SleeperOnBlockedList, Lists
  <2>3. {p} \intersect OnList(q, "blocked") = {p}
    BY <2>2
  <2>4. Sleeper = p /\ ~Hangs(q, "blocked", InState(q, "BLOCKED"))
    BY <2>1, <2>2, <2>3, FirstOfFinds DEF Sleeper
  <2>5. p # NULL /\ q.state[p] = "BLOCKED" /\ p \in PcbOrNull
    BY <2>1, NullAssumption DEF InState, PcbOrNull
  <2>6. LinksOK(PcbRemove(q, p))
    <3>1. PcbRemove(q, p).fault # "null"
      BY <2>2, <2>5, RemoveFromList DEF ListInv, LinksOK, ReadyStates
    <3> QED BY <2>2, <2>5, <3>1, RemoveKeepsFree DEF ListInv, LinksOK
  <2>7. PcbRemove(q, p) \in QueueRecords /\ PcbRemove(q, p).state = q.state
    BY <2>2, <2>5, RemoveKeeps
  <2>8. "READY" \in States \ {"FREE"}
    BY DEF States, ReadyStates
  <2>9. LinksOK(PcbInsert([PcbRemove(q, p) EXCEPT !.state[p] = "READY"], p))
    BY <2>5, <2>6, <2>7, <2>8, MovedKeepsLinks
  <2> QED BY <1>2, <2>4, <2>5, <2>9
          DEF QueuesAfterEvent, IocbProcessInserted, ListInv, IInv, IocbQueueUnused, SleeperReadied
<1> QED BY <1>1, <1>2 DEF ListInv, IInv, TypeOK, Devices

-----------------------------------------------------------------------------
\* What a stop in a fault and a dispatch leave of the lists.
LEMMA CrashKeepsLists ==
  ASSUME ListInv, NEW qq \in QueueRecords, qq.fault # "null", Crash(qq)
  PROVE  LinksOK(q)' /\ SleeperOnBlockedList'
<1>1. q \in QueueRecords /\ qq.fault \in Faults /\ q' = Fail(q, qq.fault)
  BY DEF ListInv, IInv, TypeOK, QueueRecords, Crash
<1>2. LinksOK(q')
  BY <1>1, FailKeepsLinks DEF ListInv
<1>3. q' \in QueueRecords /\ q'.front = q.front /\ q'.next = q.next /\ q'.state = q.state
  BY <1>1 DEF Fail, QueueRecords
<1>4. OnList(q', "blocked") = OnList(q, "blocked")
  BY <1>1, <1>3, SameLinksSameList DEF Lists
<1>5. InState(q', "BLOCKED") = InState(q, "BLOCKED")
  BY <1>3 DEF InState
<1> QED BY <1>2, <1>4, <1>5 DEF ListInv, SleeperOnBlockedList

LEMMA DispatchKeepsLists ==
  ASSUME NEW qq \in QueueRecords, LinksOK(qq), NEW n \in PcbOrNull, NEW saved,
         n # NULL => qq.state[n] \notin {"BLOCKED", "FREE"},
         InState(qq, "BLOCKED") \subseteq OnList(qq, "blocked"),
         Dispatch(qq, n, saved)
  PROVE  LinksOK(q)' /\ SleeperOnBlockedList'
<1>1. CASE n = NULL
  BY <1>1 DEF Dispatch, SleeperOnBlockedList
<1>2. CASE n # NULL
  <2>1. n \in PCB /\ "RUNNING" \in States
    BY <1>2 DEF PcbOrNull, States
  <2>2. q' = [qq EXCEPT !.state[n] = "RUNNING"]
    BY <1>2 DEF Dispatch
  <2>3. q' \in QueueRecords /\ q'.state = [qq.state EXCEPT ![n] = "RUNNING"]
    BY <2>1, <2>2, StateAssigned
  <2>4. q'.front = qq.front /\ q'.next = qq.next /\ q'.fault = qq.fault
    BY <2>2 DEF QueueRecords
  <2>5. \A p \in PCB : q'.state[p] = IF p = n THEN "RUNNING" ELSE qq.state[p]
    BY <2>1, <2>3 DEF QueueRecords
  <2>6. InState(q', "FREE") \subseteq InState(qq, "FREE") /\ InState(q', "BLOCKED") = InState(qq, "BLOCKED")
    BY <1>2, <2>5 DEF InState
  <2>7. OnList(q', "blocked") = OnList(qq, "blocked")
    BY <2>3, <2>4, SameLinksSameList DEF Lists
  <2>8. LinksOK(q')
    BY <2>3, <2>4, <2>6, FreeShrinks DEF LinksOK
  <2> QED BY <2>6, <2>7, <2>8 DEF SleeperOnBlockedList
<1> QED BY <1>1, <1>2

-----------------------------------------------------------------------------
\* A call that is not performed leaves nobody waiting.
LEMMA SaveContextKeepsLists == ListInv /\ SaveContext => LinksOK(q)' /\ SleeperOnBlockedList'
<1> SUFFICES ASSUME ListInv, SaveContext PROVE LinksOK(q)' /\ SleeperOnBlockedList'
  OBVIOUS
<1> DEFINE woken == QueuesAfterEvent
           qq == NextRemoved(woken)
           n == NextReady(woken)
<1>1. /\ woken \in QueueRecords
      /\ woken.fault = "none" =>
           \A p \in PCB : woken.state[p] = IF q.state[p] = "BLOCKED" THEN "READY" ELSE q.state[p]
  BY AfterEventKeeps DEF ListInv, IInv
<1>2. LinksOK(woken)
  BY AfterEventKeepsLinks
<1> HIDE DEF woken
<1>3. /\ qq \in QueueRecords /\ qq.state = woken.state
      /\ n = NULL \/ (n \in PCB /\ woken.state[n] = "READY")
  BY <1>1, NextRemovedKeeps
<1>4. LinksOK(qq)
  BY <1>1, <1>2, NextRemovedKeepsLinks
<1>5. qq.fault = "none" => woken.fault = "none"
  BY DEF NextRemoved, PcbRemove
<1> HIDE DEF qq, n
<1>6. CASE qq.fault # "none"
  <2>1. Crash(qq)
    BY <1>6 DEF SaveContext, qq, woken
  <2> QED BY <1>3, <1>4, <2>1, CrashKeepsLists DEF LinksOK
<1>7. CASE qq.fault = "none"
  <2>1. Dispatch(qq, n, cpu)
    BY <1>7 DEF SaveContext, qq, n, woken
  <2>2. InState(qq, "BLOCKED") = {}
    BY <1>1, <1>3, <1>5, <1>7 DEF InState
  <2> QED BY <1>3, <1>4, <2>1, <2>2, DispatchKeepsLists DEF PcbOrNull
<1> QED BY <1>6, <1>7

\* A call that moves cur_process: the one that waits is linked where the
\* wake-up looks.
LEMMA CurMovedKeepsLists ==
  ASSUME ListInv, Performs, NEW s \in {"READY", "BLOCKED"},
         CurMovedTo(s).fault # "none" => Crash(CurMovedTo(s)),
         CurMovedTo(s).fault = "none" => \/ Dispatch(CurMovedTo(s), NextReady(q), initial_context)
                                         \/ q' = CurMovedTo(s)
  PROVE  LinksOK(q)' /\ SleeperOnBlockedList'
<1> DEFINE moved == [NextRemoved(q) EXCEPT !.state[cur_process] = s]
           qq == CurMovedTo(s)
           n == NextReady(q)
<1>1. s \in States /\ cur_process \in PCB
  BY PerformsFacts DEF States, ReadyStates, BlockedStates, ListInv
<1>2. /\ qq \in QueueRecords
      /\ InState(qq, "BLOCKED") = IF s = "BLOCKED" THEN {cur_process} ELSE {}
      /\ n # NULL => qq.state[n] = "READY"
      /\ n \in PcbOrNull
  BY <1>1, CurMovedWaiting, PerformsFacts DEF ListInv
<1>3. LinksOK(qq)
  BY CurMovedKeepsLinks
<1>4. ASSUME qq.fault = "none" PROVE InState(qq, "BLOCKED") \subseteq OnList(qq, "blocked")
  <2>1. CASE s = "READY"
    BY <1>2, <2>1
  <2>2. CASE s = "BLOCKED"
    <3>1. NextRemoved(q) \in QueueRecords
      BY NextRemovedKeeps DEF ListInv, IInv, TypeOK
    <3>2. moved \in QueueRecords /\ moved.state = [NextRemoved(q).state EXCEPT ![cur_process] = s]
      BY <1>1, <3>1, StateAssigned
    <3>3. qq = PcbInsert(moved, cur_process)
      BY DEF CurMovedTo
    <3> HIDE DEF moved
    <3>4. moved.state[cur_process] = "BLOCKED"
      BY <1>1, <2>2, <3>1, <3>2 DEF QueueRecords
    <3>5. cur_process \in OnList(PcbInsert(moved, cur_process), "blocked")
      BY <1>1, <1>4, <3>2, <3>3, <3>4, InsertedWaits
    <3> HIDE DEF qq
    <3> QED BY <1>2, <2>2, <3>3, <3>5
  <2> QED BY <2>1, <2>2
<1> HIDE DEF qq, n
<1>5. CASE qq.fault # "none"
  <2>1. Crash(qq)
    BY <1>5 DEF qq
  <2> QED BY <1>2, <1>3, <2>1, CrashKeepsLists DEF LinksOK
<1>6. CASE qq.fault = "none"
  <2>1. Dispatch(qq, n, initial_context) \/ q' = qq
    BY <1>6 DEF qq, n
  <2>2. InState(qq, "BLOCKED") \subseteq OnList(qq, "blocked")
    BY <1>4, <1>6
  <2>3. CASE Dispatch(qq, n, initial_context)
    BY <1>2, <1>3, <2>2, <2>3, DispatchKeepsLists
  <2>4. CASE q' = qq
    BY <1>3, <2>2, <2>4 DEF SleeperOnBlockedList
  <2> QED BY <2>1, <2>3, <2>4
<1> QED BY <1>5, <1>6

\* EXIT: pcb_remove finds the caller in state RUNNING and unlinks nothing.
LEMMA ExitCallKeepsLists == ListInv /\ ExitCall => LinksOK(q)' /\ SleeperOnBlockedList'
<1> SUFFICES ASSUME ListInv, ExitCall PROVE LinksOK(q)' /\ SleeperOnBlockedList'
  OBVIOUS
<1> DEFINE qq == NextRemoved(q)
           n == NextReady(q)
<1>1. /\ cur_process \in PCB /\ q.state[cur_process] = "RUNNING"
      /\ n \in PcbOrNull /\ (n # NULL => q.state[n] = "READY")
      /\ InState(q, "BLOCKED") = {}
  BY PerformsFacts DEF ExitCall, ListInv
<1>2. qq \in QueueRecords /\ qq.state = q.state /\ LinksOK(qq)
  BY NextRemovedKeeps, NextRemovedKeepsLinks DEF ListInv, IInv, TypeOK
<1> HIDE DEF qq, n
<1>3. PcbRemove(qq, cur_process) = qq
  BY <1>1, <1>2 DEF PcbRemove, ReadyStates, BlockedStates
<1>4. /\ qq.fault # "none" => Crash(qq)
      /\ qq.fault = "none" => Dispatch(qq, n, initial_context)
  BY <1>3 DEF ExitCall, qq, n
<1>5. InState(qq, "BLOCKED") = {}
  BY <1>1, <1>2 DEF InState
<1>6. CASE qq.fault # "none"
  BY <1>2, <1>4, <1>6, CrashKeepsLists DEF LinksOK
<1>7. CASE qq.fault = "none"
  BY <1>1, <1>2, <1>4, <1>5, <1>7, DispatchKeepsLists
<1> QED BY <1>6, <1>7

\* An invalid request comes when nobody waits.
LEMMA InvalidCallKeepsLists == ListInv /\ InvalidCall => LinksOK(q)' /\ SleeperOnBlockedList'
<1> SUFFICES ASSUME ListInv, InvalidCall PROVE LinksOK(q)' /\ SleeperOnBlockedList'
  OBVIOUS
<1> DEFINE qq == NextRemoved(q)
<1>1. InState(q, "BLOCKED") = {}
  BY PerformsFacts DEF InvalidCall, ListInv
<1>2. qq \in QueueRecords /\ qq.state = q.state /\ LinksOK(qq)
  BY NextRemovedKeeps, NextRemovedKeepsLinks DEF ListInv, IInv, TypeOK
<1> HIDE DEF qq
<1>3. CASE qq.fault # "none"
  <2>1. Crash(qq)
    BY <1>3 DEF InvalidCall, qq
  <2> QED BY <1>2, <2>1, CrashKeepsLists DEF LinksOK
<1>4. CASE qq.fault = "none"
  <2>1. q' = qq
    BY <1>4 DEF InvalidCall, qq
  <2>2. InState(q', "BLOCKED") = {}
    BY <1>1, <1>2, <2>1 DEF InState
  <2> QED BY <1>2, <2>1, <2>2 DEF SleeperOnBlockedList
<1> QED BY <1>3, <1>4

\* createProc: the link of a PCB not yet allocated is empty, so that putting it
\* on the ready list cuts nothing off the blocked one.
LEMMA CreateProcKeepsLists ==
  ASSUME ListInv, NEW p \in PCB, CreateProc(p)
  PROVE  LinksOK(q)' /\ SleeperOnBlockedList'
<1> DEFINE readied == [q EXCEPT !.state[p] = "READY"]
           inserted == PcbInsert(readied, p)
           qq == IF FindHangs(q, NameOf[p]) THEN Fail(q, "hang")
                 ELSE IF PcbFind(q, NameOf[p]) # NULL THEN q ELSE inserted
<1>1. q.state[p] = "FREE" /\ q \in QueueRecords /\ q.fault = "none" /\ LinksOK(q)
  BY DEF CreateProc, Running, ListInv, IInv, TypeOK
<1>2. "READY" \in States /\ "blocked" \in Lists /\ "hang" \in Faults
  BY DEF States, ReadyStates, Lists, Faults
<1>3. readied \in QueueRecords /\ readied.state = [q.state EXCEPT ![p] = "READY"]
  BY <1>1, <1>2, StateAssigned
<1>4. readied.front = q.front /\ readied.next = q.next /\ readied.fault = q.fault
  BY <1>1 DEF QueueRecords
<1> HIDE DEF readied
<1>5. \A x \in PCB : readied.state[x] = IF x = p THEN "READY" ELSE q.state[x]
  BY <1>1, <1>3 DEF QueueRecords
<1>6. /\ InState(readied, "FREE") \subseteq InState(q, "FREE")
      /\ InState(readied, "BLOCKED") = InState(q, "BLOCKED")
  BY <1>1, <1>5 DEF InState
<1>7. FreeUnlinked(readied) /\ readied.fault # "null"
  BY <1>1, <1>3, <1>4, <1>6, FreeShrinks DEF LinksOK
<1>8. inserted \in QueueRecords /\ inserted.state = readied.state /\ LinksOK(inserted)
  BY <1>3, <1>7, InsertKeeps, InsertKeepsFree, InsertNeverNull DEF LinksOK
<1>9. readied.next[p] = NULL /\ readied.state[p] = "READY"
  BY <1>1, <1>4, <1>5 DEF LinksOK, FreeUnlinked, InState
<1>10. OnList(readied, "blocked") \subseteq OnList(inserted, "blocked")
  BY <1>1, <1>3, <1>4, <1>9, NewKeepsBlockedList
<1>11. OnList(readied, "blocked") = OnList(q, "blocked")
  BY <1>1, <1>2, <1>3, <1>4, SameLinksSameList
<1>12. InState(inserted, "BLOCKED") = InState(q, "BLOCKED")
  BY <1>6, <1>8 DEF InState
<1> HIDE DEF inserted
<1>13. Fail(q, "hang") \in QueueRecords /\ Fail(q, "hang").fault = "hang"
  BY <1>1, <1>2 DEF Fail, QueueRecords
<1>14. CASE qq.fault # "none"
  <2>1. Crash(qq)
    BY <1>14 DEF CreateProc, inserted, readied
  <2>2. qq \in QueueRecords /\ qq.fault # "null"
    BY <1>1, <1>8, <1>13 DEF LinksOK
  <2> HIDE DEF qq
  <2> QED BY <2>1, <2>2, CrashKeepsLists
<1>15. CASE qq.fault = "none"
  <2>1. q' = qq
    BY <1>15 DEF CreateProc, inserted, readied
  <2>2. q' = q \/ q' = inserted
    BY <1>13, <1>15, <2>1
  <2>3. SleeperOnBlockedList'
    BY <1>10, <1>11, <1>12, <2>2 DEF ListInv, SleeperOnBlockedList
  <2> QED BY <1>1, <1>8, <2>2, <2>3
<1> QED BY <1>14, <1>15

\* sht_dwn drops the ready list; the links of the blocked one stay.
LEMMA ReadyClearedKeepsLists == ListInv /\ ReadyCleared => LinksOK(q)' /\ SleeperOnBlockedList'
<1> SUFFICES ASSUME ListInv, ReadyCleared PROVE LinksOK(q)' /\ SleeperOnBlockedList'
  OBVIOUS
<1>1. q \in QueueRecords /\ q' = [q EXCEPT !.front["ready"] = NULL] /\ "blocked" \in Lists
  BY DEF ReadyCleared, ListInv, IInv, TypeOK, Lists
<1>2. /\ q' \in QueueRecords /\ q'.next = q.next /\ q'.state = q.state /\ q'.fault = q.fault
      /\ q'.front["blocked"] = q.front["blocked"]
      /\ \A l \in Lists : q'.front[l] \in {q.front[l], NULL}
  BY <1>1 DEF QueueRecords, PcbOrNull
<1>3. LinksOK(q')
  BY <1>2 DEF ListInv, LinksOK, FreeUnlinked, Closed, InState
<1>4. OnList(q', "blocked") = OnList(q, "blocked")
  BY <1>1, <1>2, SameLinksSameList
<1>5. InState(q', "BLOCKED") = InState(q, "BLOCKED")
  BY <1>2 DEF InState
<1> QED BY <1>3, <1>4, <1>5 DEF ListInv, SleeperOnBlockedList

-----------------------------------------------------------------------------
\* kmain's two createProc start from empty lists.
LEMMA InitLists == Init => ListInv
<1> SUFFICES ASSUME Init PROVE ListInv
  OBVIOUS
<1> DEFINE created == [front |-> [l \in Lists |-> NULL], next |-> [p \in PCB |-> NULL],
                       state |-> [p \in PCB |-> IF p \in {Comhand, Idle} THEN "READY" ELSE "FREE"],
                       prio |-> PrioOf, fault |-> "none"]
           first == PcbInsert(created, Comhand)
<1>1. created \in QueueRecords
  BY PrioAssumption DEF QueueRecords, PcbOrNull, States, ReadyStates, Faults
<1>2. /\ \A p \in PCB : created.state[p] # "BLOCKED" /\ created.next[p] = NULL
      /\ \A l \in Lists : created.front[l] = NULL
      /\ created.fault = "none"
  OBVIOUS
<1> HIDE DEF created
<1>3. FreeUnlinked(created) /\ created.fault # "null"
  BY <1>2 DEF FreeUnlinked, Closed, InState
<1>4. first \in QueueRecords /\ FreeUnlinked(first) /\ first.fault # "null"
  BY <1>1, <1>3, BootAssumption, InsertKeeps, InsertKeepsFree, InsertNeverNull
<1> HIDE DEF first
<1>5. q = PcbInsert(first, Idle)
  BY DEF Init, BootQueues, first, created
<1>6. LinksOK(q)
  BY <1>4, <1>5, BootAssumption, InsertKeepsFree, InsertNeverNull DEF LinksOK
<1>7. IInv
  BY InitKeeps
<1>8. InState(q, "BLOCKED") = {}
  BY <1>7 DEF IInv, OneSleeper, Init, CreateDcb
<1> QED BY <1>6, <1>7, <1>8 DEF ListInv, SleeperOnBlockedList

LEMMA NextKeepsLists == ListInv /\ [Next]_vars => ListInv'
<1> SUFFICES ASSUME ListInv, [Next]_vars PROVE LinksOK(q)' /\ SleeperOnBlockedList'
  BY NextKeeps DEF ListInv
<1>1. CASE SaveContext
  BY <1>1, SaveContextKeepsLists
<1>2. CASE IdleCall
  BY <1>2, CurMovedKeepsLists DEF IdleCall
<1>3. CASE WriteCall
  BY <1>3, CurMovedKeepsLists DEF WriteCall
<1>4. CASE ReadCall
  BY <1>4, CurMovedKeepsLists DEF ReadCall
<1>5. CASE ExitCall
  BY <1>5, ExitCallKeepsLists
<1>6. CASE InvalidCall
  BY <1>6, InvalidCallKeepsLists
<1>7. CASE \E p \in PCB : CreateProc(p)
  BY <1>7, CreateProcKeepsLists
<1>8. CASE ReadyCleared
  BY <1>8, ReadyClearedKeepsLists
<1>9. CASE OutputInterrupt \/ InputInterrupt \/ UNCHANGED vars
  <2>1. q' = q
    BY <1>9 DEF OutputInterrupt, InputInterrupt, vars
  <2> QED BY <2>1 DEF ListInv, SleeperOnBlockedList
<1>10. CASE RegistersLost
  BY <1>10, LossKeeps, CrashKeepsLists DEF ListInv
<1> QED BY <1>1, <1>2, <1>3, <1>4, <1>5, <1>6, <1>7, <1>8, <1>9, <1>10 DEF Next, SysCall

THEOREM ListInvariance == Spec => []ListInv
BY InitLists, NextKeepsLists, PTL DEF Spec

\* However the two lists came to share PCBs or to run in a circle, the process
\* that waits is reached from blockedPtr.front (isr.c:27), for any requests.
THEOREM SleeperIsReachable == Spec => []SleeperOnBlockedList
BY ListInvariance, PTL DEF ListInv

\* The wake-up, pcb_remove and pcb_insert follow no NULL pointer (isr.c:41,
\* pcb.c:198, 223): the searches end on what they look for, or not at all.
THEOREM NoNullFollowed == Spec => []NoNullDereference
<1>1. ListInv => NoNullDereference
  BY DEF ListInv, LinksOK, NoNullDereference
<1> QED BY <1>1, ListInvariance, PTL

-----------------------------------------------------------------------------
(***************************************************************************)
(* The kernel implements ProcessStates, for every set of PCBs, every       *)
(* priorities and names and every sequence of requests, and so its         *)
(* processes have what ProcessStates promises. IInv says which steps are   *)
(* possible from where: when a request is performed nobody waits, and when *)
(* an event is pending one process does.                                   *)
(***************************************************************************)
\* The stage of a process that is not, or no longer, the running one.
StageIn(state) == CASE state = "FREE" -> "free"
                    [] state = "READY" -> "ready"
                    [] state = "BLOCKED" -> "waiting"
                    [] OTHER -> "adrift"

Chosen(n) == IF n = NULL THEN {} ELSE {n}

-----------------------------------------------------------------------------
\* The stages of the concrete states.
LEMMA StageFacts ==
  ASSUME IInv, NEW p \in PCB
  PROVE  /\ StageOf[p] = "free" <=> q.state[p] = "FREE"
         /\ StageOf[p] = "ready" <=> q.state[p] = "READY"
         /\ StageOf[p] = "waiting" <=> q.state[p] = "BLOCKED"
         /\ StageOf[p] = "running" <=> p = cur_process
         /\ StageOf[p] # "running" => StageOf[p] = StageIn(q.state[p])
<1>1. p = cur_process => q.state[p] = "RUNNING"
  BY NullAssumption DEF IInv, CurIsOnCpu
<1> QED BY <1>1 DEF StageOf, StageIn

\* What does not touch the states or cur_process is a stutter.
LEMMA SameStages ==
  ASSUME UNCHANGED cur_process, q'.state = q.state
  PROVE  StageOf' = StageOf
BY DEF StageOf

LEMMA CrashStutters ==
  ASSUME IInv, NEW qq, Crash(qq)
  PROVE  StageOf' = StageOf
<1>1. q'.state = q.state /\ UNCHANGED cur_process
  BY DEF Crash, Fail, IInv, TypeOK, QueueRecords
<1> QED BY <1>1, SameStages

\* A dispatch makes its process the running one, and the former one is no more.
LEMMA DispatchStages ==
  ASSUME NEW qq \in QueueRecords, NEW n \in PcbOrNull, NEW saved,
         n # NULL => qq.state[n] = "READY",
         Dispatch(qq, n, saved)
  PROVE  \A p \in PCB : StageOf'[p] = IF p \in Chosen(n) THEN "running" ELSE StageIn(qq.state[p])
<1> SUFFICES ASSUME NEW p \in PCB
             PROVE  StageOf'[p] = IF p \in Chosen(n) THEN "running" ELSE StageIn(qq.state[p])
  OBVIOUS
<1>1. CASE n = NULL
  <2>1. q' = qq /\ cur_process' = NULL
    BY <1>1 DEF Dispatch
  <2> QED BY <1>1, <2>1, NullAssumption DEF StageOf, StageIn, Chosen
<1>2. CASE n # NULL
  <2>1. /\ n \in PCB /\ cur_process' = n
        /\ q'.state[p] = IF p = n THEN "RUNNING" ELSE qq.state[p]
    BY <1>2 DEF Dispatch, QueueRecords, PcbOrNull
  <2> QED BY <1>2, <2>1 DEF StageOf, StageIn, Chosen
<1> QED BY <1>1, <1>2

-----------------------------------------------------------------------------
\* A performed request takes its caller out of the running stage.
LEMMA LeaveStep ==
  ASSUME IInv, Performs, NEW s \in {"READY", "BLOCKED", "RUNNING"},
         NEW qq \in QueueRecords,
         \A p \in PCB : qq.state[p] = IF p = cur_process THEN s ELSE q.state[p],
         \/ Dispatch(qq, NextReady(q), initial_context)
         \/ q' = qq /\ cur_process' = NULL
  PROVE  Process!Leave(cur_process)
<1> DEFINE n == NextReady(q)
<1>1. /\ cur_process \in PCB /\ q.state[cur_process] = "RUNNING"
      /\ InState(q, "BLOCKED") = {}
      /\ n \in PcbOrNull /\ (n # NULL => q.state[n] = "READY" /\ n # cur_process)
  BY PerformsFacts
<1> HIDE DEF n
<1>2. StageOf[cur_process] = "running" /\ Process!At("waiting") = {}
  BY <1>1, StageFacts DEF Process!At, InState
<1>3. PICK next \in {{}, Chosen(n)} :
        \A p \in PCB : StageOf'[p] = IF p \in next THEN "running" ELSE StageIn(qq.state[p])
  <2>1. CASE Dispatch(qq, n, initial_context)
    <3>1. n # NULL => qq.state[n] = "READY"
      BY <1>1 DEF PcbOrNull
    <3> QED BY <1>1, <2>1, <3>1, DispatchStages
  <2>2. CASE q' = qq /\ cur_process' = NULL
    BY <2>2, NullAssumption DEF StageOf, StageIn
  <2> QED BY <2>1, <2>2 DEF n
<1>4. next \in Process!AtMostOne(Process!At("ready"))
  BY <1>1, StageFacts DEF Process!AtMostOne, Process!At, Chosen, PcbOrNull
<1>5. \A p \in PCB : StageOf'[p] = IF p \in next THEN "running"
                                   ELSE IF p = cur_process THEN StageIn(s) ELSE StageOf[p]
  BY <1>3, StageFacts
<1>6. StageOf' = [p \in PCB |-> IF p \in next THEN "running"
                                ELSE IF p = cur_process THEN StageIn(s) ELSE StageOf[p]]
  BY <1>5 DEF StageOf
<1>7. StageIn(s) \in {"ready", "waiting", "adrift"}
  BY DEF StageIn
<1> QED BY <1>2, <1>4, <1>6, <1>7 DEF Process!Leave

\* A call that is not performed ends the wait, if there is one, or lets a ready
\* process take over.
LEMMA SaveContextStep ==
  ASSUME IInv, SaveContext
  PROVE  (\E p \in PCB : Process!EndWait(p) \/ Process!Resume(p)) \/ StageOf' = StageOf
<1> DEFINE woken == QueuesAfterEvent
           qq == NextRemoved(woken)
           n == NextReady(woken)
<1>1. /\ woken \in QueueRecords
      /\ woken.fault = "none" =>
           \A p \in PCB : woken.state[p] = IF q.state[p] = "BLOCKED" THEN "READY" ELSE q.state[p]
  BY AfterEventKeeps DEF IInv
<1> HIDE DEF woken
<1>2. /\ qq \in QueueRecords /\ qq.state = woken.state
      /\ n = NULL \/ (n \in PCB /\ woken.state[n] = "READY")
  BY <1>1, NextRemovedKeeps
<1>3. qq.fault = "none" => woken.fault = "none"
  BY DEF NextRemoved, PcbRemove
<1> HIDE DEF qq, n
<1>4. CASE qq.fault # "none"
  <2>1. Crash(qq)
    BY <1>4 DEF SaveContext, qq, woken
  <2> QED BY <2>1, CrashStutters
<1>5. CASE qq.fault = "none"
  <2>1. Dispatch(qq, n, cpu) /\ n \in PcbOrNull
    BY <1>2, <1>5 DEF SaveContext, qq, n, woken, PcbOrNull
  <2>2. \A p \in PCB :
          StageOf'[p] = IF p \in Chosen(n) THEN "running"
                        ELSE StageIn(IF q.state[p] = "BLOCKED" THEN "READY" ELSE q.state[p])
    BY <1>1, <1>2, <1>3, <1>5, <2>1, DispatchStages
  <2>3. n # NULL => n \in PCB /\ q.state[n] \in {"READY", "BLOCKED"}
    BY <1>1, <1>2, <1>3, <1>5
  <2>4. CASE device1.event_flag = 1
    <3>1. PICK w \in PCB : InState(q, "BLOCKED") = {w}
      BY <2>4 DEF IInv, OneSleeper
    <3>2. \A p \in PCB : q.state[p] = "BLOCKED" <=> p = w
      BY <3>1 DEF InState
    <3>3. StageOf[w] = "waiting"
      BY <3>2, StageFacts
    <3>4. Chosen(n) \in Process!AtMostOne(Process!At("ready") \union {w})
      BY <2>3, <3>2, StageFacts DEF Process!AtMostOne, Process!At, Chosen
    <3>5. \A p \in PCB :
            StageOf'[p] = IF p \in Chosen(n) THEN "running"
                          ELSE IF p = w THEN "ready"
                          ELSE IF StageOf[p] = "running" THEN "adrift" ELSE StageOf[p]
      <4>1. ASSUME NEW p \in PCB, p # w
            PROVE  StageIn(q.state[p]) = IF StageOf[p] = "running" THEN "adrift" ELSE StageOf[p]
        <5>1. CASE StageOf[p] = "running"
          BY <5>1, StageFacts DEF StageIn, IInv, CurIsOnCpu
        <5>2. CASE StageOf[p] # "running"
          BY <5>2, StageFacts
        <5> QED BY <5>1, <5>2
      <4>2. StageIn("READY") = "ready"
        BY DEF StageIn
      <4> QED BY <2>2, <3>2, <4>1, <4>2
    <3>6. StageOf' = [p \in PCB |-> IF p \in Chosen(n) THEN "running"
                                    ELSE IF p = w THEN "ready"
                                    ELSE IF StageOf[p] = "running" THEN "adrift" ELSE StageOf[p]]
      BY <3>5 DEF StageOf
    <3> QED BY <3>3, <3>4, <3>6 DEF Process!EndWait
  <2>5. CASE device1.event_flag = 0
    <3>1. cur_process = NULL
      BY <2>5 DEF SaveContext
    <3>2. \A p \in PCB : q.state[p] # "BLOCKED" /\ StageOf[p] # "running" /\ StageOf[p] # "waiting"
      BY <2>5, <3>1, NullAssumption, StageFacts DEF IInv, OneSleeper, InState
    <3>3. \A p \in PCB : StageOf'[p] = IF p \in Chosen(n) THEN "running" ELSE StageOf[p]
      BY <2>2, <3>2, StageFacts
    <3>4. CASE n = NULL
      BY <3>3, <3>4 DEF Chosen, StageOf
    <3>5. CASE n # NULL
      <4>1. n \in PCB /\ StageOf[n] = "ready"
        BY <2>3, <3>2, <3>5, StageFacts
      <4>2. StageOf' = [StageOf EXCEPT ![n] = "running"]
        BY <3>3, <3>5 DEF Chosen, StageOf
      <4>3. Process!At("running") = {} /\ Process!At("waiting") = {}
        BY <3>2 DEF Process!At
      <4> QED BY <4>1, <4>2, <4>3 DEF Process!Resume
    <3> QED BY <3>4, <3>5
  <2> QED BY <2>4, <2>5 DEF IInv, TypeOK, Devices
<1> QED BY <1>4, <1>5

\* IDLE, WRITE and READ move their caller to a state.
LEMMA MovedStep ==
  ASSUME IInv, IdleCall \/ WriteCall \/ ReadCall
  PROVE  Process!Leave(cur_process) \/ StageOf' = StageOf
<1>1. Performs
  BY DEF IdleCall, WriteCall, ReadCall
<1>2. PICK s \in {"READY", "BLOCKED"} :
        /\ CurMovedTo(s).fault # "none" => Crash(CurMovedTo(s))
        /\ CurMovedTo(s).fault = "none" =>
             \/ Dispatch(CurMovedTo(s), NextReady(q), initial_context)
             \/ q' = CurMovedTo(s) /\ cur_process' = NULL
  BY DEF IdleCall, WriteCall, ReadCall
<1> DEFINE qq == CurMovedTo(s)
<1>3. qq \in QueueRecords /\ \A p \in PCB : qq.state[p] = IF p = cur_process THEN s ELSE q.state[p]
  <2>1. s \in States /\ cur_process \in PCB
    BY <1>1, PerformsFacts DEF States, ReadyStates, BlockedStates
  <2>2. qq \in QueueRecords /\ qq.state = [q.state EXCEPT ![cur_process] = s]
    BY <2>1, CurMovedKeeps DEF IInv
  <2> HIDE DEF qq
  <2> QED BY <2>1, <2>2 DEF IInv, TypeOK, QueueRecords
<1> HIDE DEF qq
<1>4. CASE qq.fault # "none"
  BY <1>2, <1>4, CrashStutters DEF qq
<1>5. CASE qq.fault = "none"
  BY <1>1, <1>2, <1>3, <1>5, LeaveStep DEF qq
<1> QED BY <1>4, <1>5

\* EXIT leaves the PCB in its state: its process is adrift.
LEMMA ExitStep ==
  ASSUME IInv, ExitCall
  PROVE  Process!Leave(cur_process) \/ StageOf' = StageOf
<1> DEFINE qq == PcbRemove(NextRemoved(q), cur_process)
<1>1. Performs
  BY DEF ExitCall
<1>2. cur_process \in PCB /\ q.state[cur_process] = "RUNNING"
  BY <1>1, PerformsFacts
<1>3. NextRemoved(q) \in QueueRecords /\ NextRemoved(q).state = q.state
  BY NextRemovedKeeps DEF IInv, TypeOK
<1>4. qq \in QueueRecords /\ qq.state = q.state
  BY <1>3, RemoveKeeps DEF IInv, TypeOK
<1> HIDE DEF qq
<1>5. CASE qq.fault # "none"
  BY <1>5, CrashStutters DEF ExitCall, qq
<1>6. CASE qq.fault = "none"
  <2>1. Dispatch(qq, NextReady(q), initial_context)
    BY <1>6 DEF ExitCall, qq
  <2>2. \A p \in PCB : qq.state[p] = IF p = cur_process THEN "RUNNING" ELSE q.state[p]
    BY <1>2, <1>4
  <2> QED BY <1>1, <1>4, <2>1, <2>2, LeaveStep
<1> QED BY <1>5, <1>6

\* createProc readies a PCB that was free, or does nothing.
LEMMA CreateStep ==
  ASSUME IInv, NEW p \in PCB, CreateProc(p)
  PROVE  Process!Create(p) \/ StageOf' = StageOf
<1> DEFINE readied == [q EXCEPT !.state[p] = "READY"]
           inserted == PcbInsert(readied, p)
           qq == IF FindHangs(q, NameOf[p]) THEN Fail(q, "hang")
                 ELSE IF PcbFind(q, NameOf[p]) # NULL THEN q ELSE inserted
<1>1. q \in QueueRecords /\ q.state[p] = "FREE"
  BY DEF IInv, TypeOK, CreateProc
<1>2. readied \in QueueRecords /\ readied.state = [q.state EXCEPT ![p] = "READY"]
  BY <1>1, StateAssigned DEF States, ReadyStates
<1>3. inserted \in QueueRecords /\ inserted.state = readied.state
  <2> HIDE DEF readied
  <2> QED BY <1>2, InsertKeeps
<1>4. \/ Crash(qq)
      \/ q' = q /\ UNCHANGED cur_process
      \/ q' = inserted /\ UNCHANGED cur_process
  <2> HIDE DEF inserted
  <2>1. qq \in {Fail(q, "hang"), q, inserted}
    OBVIOUS
  <2>2. IF qq.fault # "none" THEN Crash(qq) ELSE q' = qq /\ UNCHANGED cur_process
    BY DEF CreateProc, inserted
  <2>3. Fail(q, "hang").fault = "hang"
    BY <1>1 DEF Fail, QueueRecords
  <2> HIDE DEF qq
  <2> QED BY <2>1, <2>2, <2>3
<1> HIDE DEF inserted, readied, qq
<1>5. CASE Crash(qq)
  BY <1>5, CrashStutters
<1>6. CASE q' = q /\ UNCHANGED cur_process
  BY <1>6, SameStages
<1>7. CASE q' = inserted /\ UNCHANGED cur_process
  <2>1. StageOf[p] = "free" /\ p # cur_process
    BY <1>1, StageFacts
  <2>2. q'.state = [q.state EXCEPT ![p] = "READY"]
    BY <1>2, <1>3, <1>7
  <2>3. \A r \in PCB : q'.state[r] = IF r = p THEN "READY" ELSE q.state[r]
    BY <1>1, <2>2 DEF QueueRecords
  <2>4. StageOf' = [StageOf EXCEPT ![p] = "ready"]
    BY <1>7, <2>1, <2>3 DEF StageOf
  <2> QED BY <2>1, <2>4 DEF Process!Create
<1> QED BY <1>4, <1>5, <1>6, <1>7

-----------------------------------------------------------------------------
\* The system starts with comhand and idle ready.
LEMMA InitImplements == Init => Process!Init
<1> SUFFICES ASSUME Init PROVE Process!Init
  OBVIOUS
<1> DEFINE created == [front |-> [l \in Lists |-> NULL], next |-> [p \in PCB |-> NULL],
                       state |-> [p \in PCB |-> IF p \in {Comhand, Idle} THEN "READY" ELSE "FREE"],
                       prio |-> PrioOf, fault |-> "none"]
           first == PcbInsert(created, Comhand)
<1>1. /\ created \in QueueRecords
      /\ created.state = [p \in PCB |-> IF p \in {Comhand, Idle} THEN "READY" ELSE "FREE"]
  BY PrioAssumption DEF QueueRecords, PcbOrNull, States, ReadyStates, Faults
<1> HIDE DEF created
<1>2. first \in QueueRecords /\ first.state = created.state
  BY <1>1, InsertKeeps, BootAssumption
<1> HIDE DEF first
<1>3. PcbInsert(first, Idle).state = first.state
  BY <1>2, InsertKeeps, BootAssumption
<1>4. q = PcbInsert(first, Idle)
  BY DEF Init, BootQueues, first, created
<1>5. q.state = [p \in PCB |-> IF p \in {Comhand, Idle} THEN "READY" ELSE "FREE"]
  BY <1>1, <1>2, <1>3, <1>4
<1> QED BY <1>5 DEF Process!Init, StageOf

\* Every step of the kernel is a step of ProcessStates, or changes no stage.
LEMMA NextImplements == IInv /\ [Next]_vars => [Process!Next]_StageOf
<1> SUFFICES ASSUME IInv, [Next]_vars PROVE Process!Next \/ StageOf' = StageOf
  OBVIOUS
<1>1. CASE SaveContext
  BY <1>1, SaveContextStep DEF Process!Next
<1>2. CASE IdleCall \/ WriteCall \/ ReadCall \/ ExitCall
  <2>1. cur_process \in PCB
    BY <1>2, PerformsFacts DEF IdleCall, WriteCall, ReadCall, ExitCall
  <2> QED BY <1>2, <2>1, MovedStep, ExitStep DEF Process!Next
<1>3. CASE InvalidCall
  <2>1. NextRemoved(q).state = q.state
    BY NextRemovedKeeps DEF IInv, TypeOK
  <2> QED BY <1>3, <2>1, CrashStutters, SameStages DEF InvalidCall
<1>4. CASE \E p \in PCB : CreateProc(p)
  BY <1>4, CreateStep DEF Process!Next
<1>5. CASE ReadyCleared
  <2>1. q'.state = q.state /\ UNCHANGED cur_process
    BY <1>5 DEF ReadyCleared, IInv, TypeOK, QueueRecords
  <2> QED BY <2>1, SameStages
<1>6. CASE OutputInterrupt \/ InputInterrupt \/ UNCHANGED vars
  <2>1. UNCHANGED <<q, cur_process>>
    BY <1>6 DEF OutputInterrupt, InputInterrupt, vars
  <2> QED BY <2>1, SameStages
<1>7. CASE RegistersLost
  BY <1>7, LossKeeps, CrashStutters
<1> QED BY <1>1, <1>2, <1>3, <1>4, <1>5, <1>6, <1>7 DEF Next, SysCall

\* The kernel implements ProcessStates: whatever is requested and in which order,
\* its processes go through their stages as that specification says (isr.c:17-196).
THEOREM Implementation == Spec => ImplementsProcessStates
<1>1. Init => Process!Init
  BY InitImplements
<1>2. IInv /\ [Next]_vars => [Process!Next]_StageOf
  BY NextImplements
<1>3. Spec => Process!Spec
  BY <1>1, <1>2, Invariance, PTL DEF Spec, Process!Spec
<1> QED BY <1>3 DEF ImplementsProcessStates

-----------------------------------------------------------------------------
(***************************************************************************)
(* What ProcessStates promises follows from it alone: no invariant of the  *)
(* kernel is used from here on.                                            *)
(***************************************************************************)
StagesInv == Process!StagesOK /\ Process!OneEach

LEMMA StagesInit == Process!Init => StagesInv
BY DEF Process!Init, StagesInv, Process!StagesOK, Process!Stages, Process!OneEach

LEMMA StagesNext == StagesInv /\ [Process!Next]_StageOf => StagesInv'
<1> SUFFICES ASSUME StagesInv, [Process!Next]_StageOf PROVE StagesInv'
  OBVIOUS
<1> USE DEF StagesInv, Process!StagesOK, Process!Stages, Process!OneEach
<1>1. ASSUME NEW p \in PCB, Process!Create(p) PROVE StagesInv'
  BY <1>1 DEF Process!Create
<1>2. ASSUME NEW p \in PCB, Process!Leave(p) PROVE StagesInv'
  <2>1. PICK s \in {"ready", "waiting", "adrift"}, next \in Process!AtMostOne(Process!At("ready")) :
          StageOf' = [r \in PCB |-> IF r \in next THEN "running" ELSE IF r = p THEN s ELSE StageOf[r]]
    BY <1>2 DEF Process!Leave
  <2>2. \A a, b \in next : a = b
    BY DEF Process!AtMostOne
  <2>3. \A r \in PCB : StageOf[r] # "waiting" /\ (StageOf[r] = "running" => r = p)
    BY <1>2 DEF Process!Leave, Process!At
  <2> QED BY <2>1, <2>2, <2>3
<1>3. ASSUME NEW p \in PCB, Process!EndWait(p) PROVE StagesInv'
  <2>1. PICK next \in Process!AtMostOne(Process!At("ready") \union {p}) :
          StageOf' = [r \in PCB |-> IF r \in next THEN "running" ELSE IF r = p THEN "ready"
                                    ELSE IF StageOf[r] = "running" THEN "adrift" ELSE StageOf[r]]
    BY <1>3 DEF Process!EndWait
  <2>2. \A a, b \in next : a = b
    BY DEF Process!AtMostOne
  <2>3. \A r \in PCB : StageOf[r] = "waiting" => r = p
    BY <1>3 DEF Process!EndWait
  <2> QED BY <2>1, <2>2, <2>3
<1>4. ASSUME NEW p \in PCB, Process!Resume(p) PROVE StagesInv'
  BY <1>4 DEF Process!Resume, Process!At
<1>5. CASE UNCHANGED StageOf
  BY <1>5
<1> QED BY <1>1, <1>2, <1>3, <1>4, <1>5 DEF Process!Next

\* One process runs at most, and one waits at most, whatever the lists look like
\* (isr.c:17-196).
THEOREM OneRunsOneWaits == Spec => []Process!OneEach
<1>1. StagesInv => Process!OneEach
  BY DEF StagesInv
<1>2. Process!Spec => []Process!OneEach
  BY <1>1, StagesInit, StagesNext, PTL DEF Process!Spec
<1> QED BY <1>2, Implementation DEF ImplementsProcessStates

AdriftStep == \A p \in PCB : StageOf[p] = "adrift" => StageOf'[p] = "adrift"

LEMMA AdriftStays == StagesInv /\ [Process!Next]_StageOf => AdriftStep
<1> SUFFICES ASSUME [Process!Next]_StageOf, StagesInv, NEW a \in PCB, StageOf[a] = "adrift"
             PROVE  StageOf'[a] = "adrift"
  BY DEF AdriftStep
<1> USE DEF StagesInv, Process!StagesOK, Process!At, Process!AtMostOne
<1>1. ASSUME NEW p \in PCB, Process!Create(p) PROVE StageOf'[a] = "adrift"
  BY <1>1 DEF Process!Create
<1>2. ASSUME NEW p \in PCB, Process!Leave(p) PROVE StageOf'[a] = "adrift"
  BY <1>2 DEF Process!Leave
<1>3. ASSUME NEW p \in PCB, Process!EndWait(p) PROVE StageOf'[a] = "adrift"
  BY <1>3 DEF Process!EndWait
<1>4. ASSUME NEW p \in PCB, Process!Resume(p) PROVE StageOf'[a] = "adrift"
  BY <1>4 DEF Process!Resume
<1> QED BY <1>1, <1>2, <1>3, <1>4 DEF Process!Next

\* A process of the kernel that exited, or whose call met an event and took it off
\* the processor, never becomes cur_process again (isr.c:115-133).
THEOREM AdriftInKernel == Spec => Process!AdriftForGood
<1>1. StagesInv /\ [Process!Next]_StageOf => [AdriftStep]_StageOf
  BY AdriftStays
<1>2. Process!Spec => []StagesInv
  BY StagesInit, StagesNext, PTL DEF Process!Spec
<1>3. Process!Spec => [][AdriftStep]_StageOf
  BY <1>1, <1>2, PTL DEF Process!Spec
<1>4. [][AdriftStep]_StageOf => Process!AdriftForGood
  BY DEF AdriftStep, Process!AdriftForGood
<1> QED BY <1>3, <1>4, Implementation DEF ImplementsProcessStates
=============================================================================
