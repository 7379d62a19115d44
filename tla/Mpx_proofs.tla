------------------------------- MODULE Mpx_proofs -------------------------------
(***************************************************************************)
(* The system with its programs, for every number of test processes and of *)
(* rounds. It is a kernel as Kernel.tla describes it, so what is proved    *)
(* there holds here; this module proves what the programs add to it: which *)
(* process waits where, and the shapes the two lists can have, among which *)
(* none is a cycle.                                                        *)
(***************************************************************************)
EXTENDS Mpx, Kernel_proofs

\* Whatever the programs do, the kernel sees system calls, createProc and the
\* emptied ready queue.
LEMMA CallIsSysCall == ASSUME NEW op, Requested(op) PROVE SysCall
BY DEF Requested, SysCall

LEMMA StepIsKernelStep == [MpxNext]_mpx_vars => [Next]_vars
<1> SUFFICES ASSUME [MpxNext]_mpx_vars PROVE [Next]_vars
  OBVIOUS
<1>1. ASSUME NEW op, NEW new, Call(op, new) PROVE Next
  BY <1>1, CallIsSysCall DEF Call, Next
<1>1a. ASSUME NEW op, NEW new, SysReq(op, new) PROVE Next
  BY <1>1, <1>1a DEF SysReq
<1>2. CASE Kmain \/ IdleProcess \/ R3Process
  BY <1>1, <1>1a, <1>2 DEF Kmain, IdleProcess, R3Process, R3Goes, R3LeavesLoop
<1>3. CASE ComhandProcess
  <2>1. CASE LoadR3 \/ ShtDwn
    BY <2>1 DEF LoadR3, ShtDwn
  <2>2. CASE LoadR3Pcb
    <3>1. PICK k \in 1..Len(R3) : CreateProc(R3[k])
      BY <2>2 DEF LoadR3Pcb
    <3>2. R3[k] \in PCB
      BY R3Assumption
    <3> QED BY <3>1, <3>2 DEF Next
  <2>3. CASE ShtDwnClears
    BY <2>3 DEF ShtDwnClears, Next
  <2>4. CASE ComhandWrites \/ ComhandReads \/ ShtDwnWrites \/ ShtDwnExits \/ ShtDwnRefuses
    BY <1>1a, <2>4 DEF ComhandWrites, ComhandReads, ShtDwnWrites, ShtDwnExits, ShtDwnRefuses
  <2> QED BY <1>3, <2>1, <2>2, <2>3, <2>4 DEF ComhandProcess
<1>4. CASE Interrupt \/ Derails
  BY <1>4 DEF Interrupt, Derails, Next
<1>5. CASE UNCHANGED mpx_vars
  BY <1>5 DEF mpx_vars, vars
<1> QED BY <1>2, <1>3, <1>4, <1>5 DEF MpxNext, Processor

\* The system as it is built behaves as Kernel.tla allows (isr.c, kmain.c,
\* system.c): every invariant of the kernel is one of the system.
THEOREM ImplementsKernel == MpxSpec => Spec
<1>1. MpxInit => Init
  BY DEF MpxInit
<1> QED BY <1>1, StepIsKernelStep, PTL DEF MpxSpec, Spec

\* So the processes of the system go through the stages of ProcessStates, whatever
\* their frames hold when they are resumed (isr.c:17-196; system.c).
THEOREM SystemImplements == MpxSpec => ImplementsProcessStates
BY ImplementsKernel, Implementation

\* So the kernel's own invariant, of its lists and of who waits, holds (isr.c:17-196).
THEOREM KernelInvariance == MpxSpec => []ListInv
BY ImplementsKernel, ListInvariance, PTL

-----------------------------------------------------------------------------
(***************************************************************************)
(* What a system call leaves: on a fault, the processor as it was; else the*)
(* caller's context is in initial_context when the request was not         *)
(* performed, and the context that goes on is that of the process          *)
(* dispatched, the caller's own after a READ or an invalid operation code, *)
(* or the one in initial_context.                                          *)
(***************************************************************************)
CallReturns(op) ==
  IF q'.fault # "none"
  THEN UNCHANGED <<cur_process, initial_context, cpu>> /\ q'.state = q.state
  ELSE /\ initial_context' = IF Performs THEN initial_context ELSE cpu
       /\ cpu' = IF Performs /\ op \in {"READ", "INVALID"} THEN cpu
                 ELSE IF cur_process' # NULL THEN cur_process'
                 ELSE initial_context'

LEMMA DispatchReturns ==
  ASSUME NEW qq \in QueueRecords, qq.fault = "none", NEW n, NEW saved, Dispatch(qq, n, saved)
  PROVE  /\ q'.fault = "none" /\ initial_context' = saved
         /\ cpu' = IF cur_process' # NULL THEN cur_process' ELSE initial_context'
BY DEF Dispatch, QueueRecords

LEMMA CrashReturns ==
  ASSUME IInv, NEW qq, qq.fault # "none", Crash(qq)
  PROVE  /\ q'.fault # "none" /\ q'.state = q.state
         /\ UNCHANGED <<cur_process, initial_context, cpu>>
BY DEF Crash, Fail, IInv, TypeOK, QueueRecords

LEMMA RequestReturns ==
  ASSUME IInv, NEW op, Requested(op)
  PROVE  CallReturns(op)
<1>1. CASE SaveContext
  <2> DEFINE qq == NextRemoved(QueuesAfterEvent)
             n == NextReady(QueuesAfterEvent)
  <2>1. qq \in QueueRecords
    BY AfterEventKeeps, NextRemovedKeeps DEF IInv
  <2> HIDE DEF qq, n
  <2>2. ~Performs
    BY <1>1 DEF SaveContext, Performs, IInv, TypeOK, Devices
  <2>3. IF qq.fault # "none" THEN Crash(qq) ELSE Dispatch(qq, n, cpu)
    BY <1>1 DEF SaveContext, qq, n
  <2>4. CASE qq.fault # "none"
    BY <2>3, <2>4, CrashReturns DEF CallReturns
  <2>5. CASE qq.fault = "none"
    BY <2>1, <2>2, <2>3, <2>5, DispatchReturns DEF CallReturns
  <2> QED BY <2>4, <2>5
<1>2. ASSUME Performs, op \notin {"READ", "INVALID"}, NEW qq \in QueueRecords,
             IF qq.fault # "none" THEN Crash(qq)
             ELSE Dispatch(qq, NextReady(q), initial_context)
      PROVE  CallReturns(op)
  <2>1. CASE qq.fault # "none"
    BY <1>2, <2>1, CrashReturns DEF CallReturns
  <2>2. CASE qq.fault = "none"
    BY <1>2, <2>2, DispatchReturns DEF CallReturns
  <2> QED BY <2>1, <2>2
<1>3. CASE op = "IDLE" /\ IdleCall
  <2>1. Performs /\ CurMovedTo("READY") \in QueueRecords
    BY <1>3, CurMovedWaiting DEF IdleCall, States, ReadyStates
  <2> QED BY <1>2, <1>3, <2>1 DEF IdleCall
<1>4. CASE op = "WRITE" /\ WriteCall
  <2>1. Performs /\ CurMovedTo("BLOCKED") \in QueueRecords
    BY <1>4, CurMovedWaiting DEF WriteCall, States, BlockedStates
  <2> QED BY <1>2, <1>4, <2>1 DEF WriteCall
<1>5. CASE op = "EXIT" /\ ExitCall
  <2>1. NextRemoved(q) \in QueueRecords /\ cur_process \in PcbOrNull
    BY NextRemovedKeeps DEF IInv, TypeOK
  <2>2. PcbRemove(NextRemoved(q), cur_process) \in QueueRecords
    BY <2>1, RemoveKeeps
  <2> QED BY <1>2, <1>5, <2>2 DEF ExitCall
<1>6. CASE op = "READ" /\ ReadCall
  <2> DEFINE qq == CurMovedTo("BLOCKED")
  <2>1. Performs /\ (IF qq.fault # "none" THEN Crash(qq)
                     ELSE q' = qq /\ cur_process' = NULL /\ UNCHANGED <<initial_context, cpu>>)
    BY <1>6 DEF ReadCall
  <2> HIDE DEF qq
  <2>2. CASE qq.fault # "none"
    BY <2>1, <2>2, CrashReturns DEF CallReturns
  <2>3. CASE qq.fault = "none"
    BY <1>6, <2>1, <2>3 DEF CallReturns
  <2> QED BY <2>2, <2>3
<1>7. CASE op = "INVALID" /\ InvalidCall
  <2> DEFINE qq == NextRemoved(q)
  <2>1. Performs /\ (IF qq.fault # "none" THEN Crash(qq)
                     ELSE q' = qq /\ UNCHANGED <<cur_process, initial_context, cpu>>)
    BY <1>7 DEF InvalidCall
  <2> HIDE DEF qq
  <2>2. CASE qq.fault # "none"
    BY <2>1, <2>2, CrashReturns DEF CallReturns
  <2>3. CASE qq.fault = "none"
    BY <1>7, <2>1, <2>3 DEF CallReturns
  <2> QED BY <2>2, <2>3
<1> QED BY <1>1, <1>3, <1>4, <1>5, <1>6, <1>7 DEF Requested

-----------------------------------------------------------------------------
(***************************************************************************)
(* Every frame that may be returned to is at a point of its program that a *)
(* system call resumes at, which none in loadR3 is: the command handler's  *)
(* are the frame its PCB refers to, and the one in initial_context while   *)
(* that is comhand's.                                                      *)
(***************************************************************************)
CallPoints == {Garbage, Writes, Asks, Typed, SaysBye, Clears, Leaves}

FramesOK == /\ top[Comhand] \in CallPoints
            /\ initial_context = Comhand => initial_pc \in CallPoints

MpxInv == ListInv /\ MpxTypeOK /\ FramesOK

LEMMA PointsAreNumbers == ComhandPoints \subseteq Nat /\ CallPoints \subseteq ComhandPoints
BY R3Assumption
   DEF CallPoints, ComhandPoints, Garbage, Writes, Asks, Typed, SaysBye, Clears, Leaves, Loads

LEMMA CallKeepsFrames ==
  ASSUME MpxInv, ListInv', NEW op, NEW new \in Nat, cpu = Comhand => new \in CallPoints,
         Call(op, new), lost' \in 0..Losses
  PROVE  /\ MpxTypeOK' /\ FramesOK'
         /\ q'.fault = "none" => (cpu' = Comhand => pc' \in CallPoints)
<1>1. CallReturns(op)
  BY RequestReturns DEF Call, MpxInv, ListInv
<1>2. TypeOK' /\ TypeOK /\ Comhand \in PCB
  BY BootAssumption DEF ListInv, IInv, MpxInv
<1>3. /\ pc \in Nat /\ (cpu = Comhand => pc \in ComhandPoints)
      /\ top \in [PCB -> Nat] /\ initial_pc \in Nat
      /\ top[Comhand] \in CallPoints
      /\ initial_context = Comhand => initial_pc \in CallPoints
  BY DEF MpxInv, MpxTypeOK, FramesOK
<1>4. Garbage \in CallPoints /\ Garbage \in Nat /\ CallPoints \subseteq ComhandPoints
  BY PointsAreNumbers DEF CallPoints, Garbage
<1>5. CASE q'.fault # "none"
  BY <1>1, <1>2, <1>3, <1>5 DEF Call, CallReturns, MpxTypeOK, FramesOK
<1>6. CASE q'.fault = "none"
  <2>1. /\ top' \in Tops(op, new) /\ initial_pc' \in InitialPcs(new)
        /\ pc' = IF Performs /\ op \in {"READ", "INVALID"} THEN new
                 ELSE IF cur_process' # NULL THEN top'[cur_process'] ELSE initial_pc'
    BY <1>6 DEF Call
  <2>2. \A old \in Nat : /\ OldFrame(old, new) \subseteq Nat
                         /\ cpu = Comhand /\ old \in CallPoints
                              => OldFrame(old, new) \subseteq CallPoints
    BY <1>4 DEF OldFrame
  <2>3. top' \in [PCB -> Nat] /\ top'[Comhand] \in CallPoints
    <3>1. CASE cpu \notin PCB
      BY <1>3, <2>1, <3>1 DEF Tops
    <3>2. CASE cpu \in PCB
      <4>1. PICK at \in Nat : /\ top' = [top EXCEPT ![cpu] = at]
                              /\ cpu = Comhand => at \in CallPoints
        <5>1. CASE SavedInTop(op)
          BY <2>1, <3>2, <5>1 DEF Tops
        <5>2. CASE ~SavedInTop(op)
          <6>1. PICK at \in OldFrame(top[cpu], new) : top' = [top EXCEPT ![cpu] = at]
            BY <2>1, <3>2, <5>2 DEF Tops
          <6>2. top[cpu] \in Nat
            BY <1>3, <3>2
          <6> QED BY <1>3, <2>2, <6>1, <6>2
        <5> QED BY <5>1, <5>2
      <4> QED BY <1>2, <1>3, <3>2, <4>1
    <3> QED BY <3>1, <3>2
  <2>4. initial_pc' \in Nat /\ (initial_context' = Comhand => initial_pc' \in CallPoints)
    <3>1. initial_context' = IF Performs THEN initial_context ELSE cpu
      BY <1>1, <1>6 DEF CallReturns
    <3>2. CASE ~Performs
      BY <2>1, <3>1, <3>2 DEF InitialPcs
    <3>3. CASE Performs /\ initial_context = cpu
      BY <1>3, <2>1, <2>2, <3>1, <3>3 DEF InitialPcs
    <3>4. CASE Performs /\ initial_context # cpu
      BY <1>3, <2>1, <3>1, <3>4 DEF InitialPcs
    <3> QED BY <3>2, <3>3, <3>4
  <2>5. pc' \in Nat /\ (cpu' = Comhand => pc' \in CallPoints)
    <3> DEFINE Returns == Performs /\ op \in {"READ", "INVALID"}
    <3>1. cpu' = IF Returns THEN cpu
                 ELSE IF cur_process' # NULL THEN cur_process' ELSE initial_context'
      BY <1>1, <1>6 DEF CallReturns
    <3>2. CASE cur_process' # NULL /\ ~Returns
      BY <1>2, <2>1, <2>3, <3>1, <3>2 DEF TypeOK, PcbOrNull
    <3>3. CASE Returns
      BY <2>1, <3>1, <3>3
    <3>4. CASE cur_process' = NULL /\ ~Returns
      BY <2>1, <2>4, <3>1, <3>4
    <3> QED BY <3>2, <3>3, <3>4
  <2> QED BY <1>2, <1>4, <1>6, <2>3, <2>4, <2>5 DEF MpxTypeOK, FramesOK
<1> QED BY <1>5, <1>6

LEMMA GoesKeepsFrames ==
  ASSUME MpxInv, ListInv', NEW from, NEW to \in ComhandPoints, ComhandGoes(from, to),
         UNCHANGED <<initial_context, cpu>>
  PROVE  MpxTypeOK' /\ FramesOK'
BY PointsAreNumbers DEF ComhandGoes, MpxInv, ListInv, IInv, MpxTypeOK, FramesOK

LEMMA NextKeepsFrames == MpxInv /\ ListInv' /\ [MpxNext]_mpx_vars => MpxInv'
<1> SUFFICES ASSUME MpxInv, ListInv', [MpxNext]_mpx_vars PROVE MpxTypeOK' /\ FramesOK'
  BY DEF MpxInv
<1>1. Comhand # KMAIN /\ Comhand # Idle /\ Comhand \notin R3Set
  BY BootAssumption, R3Assumption DEF R3Set
<1>2. pc \in Nat /\ lost \in 0..Losses /\ Losses \in Nat
  BY LossesAssumption DEF MpxInv, MpxTypeOK
<1>2a. (UNCHANGED lost \/ Loses) => lost' \in 0..Losses
  BY <1>2 DEF Loses
<1>2b. ASSUME NEW op, NEW new \in Nat, cpu = Comhand => new \in CallPoints, SysReq(op, new)
       PROVE  MpxTypeOK' /\ FramesOK'
  BY <1>2a, <1>2b, CallKeepsFrames DEF SysReq
<1>3. CASE Kmain
  BY <1>1, <1>2, <1>2b, <1>3 DEF Kmain
<1>4. CASE IdleProcess
  BY <1>1, <1>2b, <1>4 DEF IdleProcess, EntryPoint
<1>5. CASE R3Process
  <2>1. cpu \in PCB /\ cpu \in R3Set
    BY <1>5, R3Assumption DEF R3Process, R3Goes, R3LeavesLoop, R3Set
  <2>2. R3After(cpu, pc) \in Nat /\ R3After(cpu, ExitPoint(cpu)) \in Nat
    BY <1>2, <2>1, R3Assumption DEF R3After, ExitPoint
  <2>3. CASE R3Goes
    BY <1>1, <1>2b, <2>1, <2>2, <2>3 DEF R3Goes
  <2>4. CASE R3LeavesLoop
    BY <1>1, <1>2a, <2>1, <2>2, <2>4, CallKeepsFrames DEF R3LeavesLoop
  <2> QED BY <1>5, <2>3, <2>4 DEF R3Process
<1>6. CASE ComhandProcess
  <2> USE DEF ComhandPoints
  <2>1. ASSUME NEW op, NEW new \in CallPoints, SysReq(op, new) PROVE MpxTypeOK' /\ FramesOK'
    BY <1>2b, <2>1, PointsAreNumbers
  <2>2. CASE ComhandWrites \/ ComhandReads \/ ShtDwnWrites \/ ShtDwnExits \/ ShtDwnRefuses
    BY <2>1, <2>2
       DEF CallPoints, ComhandWrites, ComhandReads, ShtDwnWrites, ShtDwnExits, ShtDwnRefuses
  <2>3. CASE LoadR3
    BY <2>3, R3Assumption, GoesKeepsFrames DEF LoadR3, vars
  <2>4. CASE LoadR3Pcb
    <3>1. PICK k \in 1..Len(R3) :
             CreateProc(R3[k]) /\ ComhandGoes(Loads(k), IF k = Len(R3) THEN Writes ELSE Loads(k + 1))
      BY <2>4 DEF LoadR3Pcb
    <3>2. k # Len(R3) => k + 1 \in 1..Len(R3)
      BY R3Assumption
    <3>3. UNCHANGED <<initial_context, cpu>>
      BY <3>1 DEF CreateProc, Crash
    <3> QED BY <3>1, <3>2, <3>3, GoesKeepsFrames
  <2>5. CASE ShtDwn
    BY <2>5, GoesKeepsFrames DEF ShtDwn, vars
  <2>6. CASE ShtDwnClears
    BY <2>6, GoesKeepsFrames DEF ShtDwnClears, ReadyCleared
  <2> QED BY <1>6, <2>2, <2>3, <2>4, <2>5, <2>6 DEF ComhandProcess
<1>7. CASE Interrupt \/ Derails \/ UNCHANGED mpx_vars
  <2>1. UNCHANGED <<initial_context, cpu, pc, top, initial_pc, lost>>
    BY <1>7 DEF Interrupt, OutputInterrupt, InputInterrupt, Derails, RegistersLost, Crash, mpx_vars
  <2> QED BY <2>1 DEF MpxInv, ListInv, IInv, MpxTypeOK, FramesOK
<1> QED BY <1>3, <1>4, <1>5, <1>6, <1>7 DEF MpxNext, Processor

LEMMA InitFrames == MpxInit => MpxInv
<1> SUFFICES ASSUME MpxInit PROVE MpxInv
  OBVIOUS
<1>1. ListInv
  BY InitLists DEF MpxInit
<1>2. EntryPoint \in CallPoints /\ EntryPoint \in ComhandPoints /\ EntryPoint \in Nat
  BY DEF EntryPoint, CallPoints, ComhandPoints, Writes
<1>3. /\ pc = EntryPoint /\ top = [p \in PCB |-> EntryPoint] /\ initial_pc = EntryPoint
      /\ lost \in 0..Losses
  BY LossesAssumption DEF MpxInit
<1> QED BY <1>1, <1>2, <1>3, BootAssumption DEF MpxInv, ListInv, IInv, MpxTypeOK, FramesOK

\* Every context a process can be resumed from is at a point of its program
\* (isr.c:115-192).
THEOREM FrameInvariance == MpxSpec => []MpxInv
<1>1. MpxInv /\ ListInv' /\ [MpxNext]_mpx_vars => MpxInv'
  BY NextKeepsFrames
<1> QED BY <1>1, InitFrames, KernelInvariance, PTL DEF MpxSpec

\* Comhand is never resumed at a point its program does not have, through the
\* frame in initial_context included, which any process may have left there
\* (isr.c:115, 192).
THEOREM MpxTypeCorrect == MpxSpec => []MpxTypeOK
BY FrameInvariance, PTL DEF MpxInv

-----------------------------------------------------------------------------
(***************************************************************************)
(* Only comhand reads, so that no other process waits with its context on  *)
(* the processor.  A process whose call was not performed, and whose       *)
(* context went to initial_context, stays in state RUNNING for good: it is *)
(* never again the current one.                                            *)
(***************************************************************************)
RunsOffList ==
  \A p \in PCB \ {Comhand} :
    /\ cpu = p => q.state[p] = "RUNNING"
    /\ initial_context = p => q.state[p] = "RUNNING" /\ cur_process # p

\* What a call does to the states, and to whom it gives the processor.

LEMMA DispatchedRuns ==
  ASSUME NEW qq \in QueueRecords, NEW n \in PcbOrNull, n # NULL => qq.state[n] = "READY",
         NEW saved, Dispatch(qq, n, saved), NEW p \in PCB,
         saved = p => qq.state[p] = "RUNNING"
  PROVE  /\ cpu' = p => q'.state[p] = "RUNNING"
         /\ initial_context' = p => q'.state[p] = "RUNNING" /\ cur_process' # p
<1>1. CASE n = NULL
  BY <1>1, NullAssumption DEF Dispatch
<1>2. CASE n # NULL
  <2>1. n \in PCB /\ "RUNNING" \in States
    BY <1>2 DEF PcbOrNull, States
  <2>2. /\ q' = [qq EXCEPT !.state[n] = "RUNNING"]
        /\ initial_context' = saved /\ cur_process' = n /\ cpu' = n
    BY <1>2 DEF Dispatch
  <2>3. q'.state = [qq.state EXCEPT ![n] = "RUNNING"]
    BY <2>1, <2>2, StateAssigned
  <2>4. \A x \in PCB : q'.state[x] = IF x = n THEN "RUNNING" ELSE qq.state[x]
    BY <2>1, <2>3 DEF QueueRecords
  <2> QED BY <1>2, <2>2, <2>4
<1> QED BY <1>1, <1>2

LEMMA CallKeepsRunning ==
  ASSUME ListInv, RunsOffList, NEW op, Requested(op), op = "READ" => cpu = Comhand,
         NEW p \in PCB \ {Comhand}
  PROVE  /\ cpu' = p => q'.state[p] = "RUNNING"
         /\ initial_context' = p => q'.state[p] = "RUNNING" /\ cur_process' # p
<1> DEFINE Goal == /\ cpu' = p => q'.state[p] = "RUNNING"
                   /\ initial_context' = p => q'.state[p] = "RUNNING" /\ cur_process' # p
<1>0. /\ cpu = p => q.state[p] = "RUNNING"
      /\ initial_context = p => q.state[p] = "RUNNING" /\ cur_process # p
  BY DEF RunsOffList
<1>1. ASSUME NEW qq, qq.fault # "none", Crash(qq) PROVE Goal
  BY <1>0, <1>1, CrashReturns DEF ListInv
<1>2. CASE SaveContext
  <2> DEFINE woken == QueuesAfterEvent
             qq == NextRemoved(woken)
             n == NextReady(woken)
  <2>1. /\ woken \in QueueRecords
        /\ woken.fault = "none" =>
             \A r \in PCB : woken.state[r] = IF q.state[r] = "BLOCKED" THEN "READY" ELSE q.state[r]
    BY AfterEventKeeps DEF ListInv, IInv
  <2> HIDE DEF woken
  <2>2. /\ qq \in QueueRecords /\ qq.state = woken.state
        /\ n = NULL \/ (n \in PCB /\ woken.state[n] = "READY")
    BY <2>1, NextRemovedKeeps
  <2>3. qq.fault = "none" => woken.fault = "none"
    BY DEF NextRemoved, PcbRemove
  <2> HIDE DEF qq, n
  <2>4. IF qq.fault # "none" THEN Crash(qq) ELSE Dispatch(qq, n, cpu)
    BY <1>2 DEF SaveContext, qq, n, woken
  <2>5. CASE qq.fault # "none"
    BY <1>1, <2>4, <2>5
  <2>6. CASE qq.fault = "none"
    <3>1. cpu = p => qq.state[p] = "RUNNING"
      BY <1>0, <2>1, <2>2, <2>3, <2>6
    <3> QED BY <2>2, <2>4, <2>6, <3>1, DispatchedRuns DEF PcbOrNull
  <2> QED BY <2>5, <2>6
<1>3. ASSUME NEW s \in {"READY", "BLOCKED"}, Performs,
             CurMovedTo(s).fault # "none" => Crash(CurMovedTo(s)),
             CurMovedTo(s).fault = "none" =>
               \/ Dispatch(CurMovedTo(s), NextReady(q), initial_context)
               \/ /\ q' = CurMovedTo(s) /\ cur_process' = NULL /\ cpu = Comhand
                  /\ UNCHANGED <<initial_context, cpu>>
      PROVE  Goal
  <2> DEFINE qq == CurMovedTo(s)
             n == NextReady(q)
  <2>1. cur_process \in PCB /\ s \in States /\ n \in PcbOrNull
    BY <1>3, PerformsFacts DEF ListInv, States, ReadyStates, BlockedStates
  <2>2. qq \in QueueRecords /\ qq.state = [q.state EXCEPT ![cur_process] = s]
    BY <2>1, CurMovedKeeps DEF ListInv, IInv
  <2>3. n # NULL => qq.state[n] = "READY"
    BY <1>3, <2>1, CurMovedWaiting DEF ListInv
  <2> HIDE DEF qq, n
  <2>4. \A x \in PCB : x # cur_process => qq.state[x] = q.state[x]
    BY <2>1, <2>2 DEF ListInv, IInv, TypeOK, QueueRecords
  <2>5. initial_context = p => qq.state[p] = "RUNNING"
    BY <1>0, <2>4
  <2>6. CASE qq.fault # "none"
    BY <1>1, <1>3, <2>6 DEF qq
  <2>7. CASE qq.fault = "none" /\ Dispatch(qq, n, initial_context)
    BY <2>1, <2>2, <2>3, <2>5, <2>7, DispatchedRuns
  <2>8. CASE q' = qq /\ cur_process' = NULL /\ cpu = Comhand /\ UNCHANGED <<initial_context, cpu>>
    BY <2>5, <2>8, NullAssumption
  <2> QED BY <1>3, <2>6, <2>7, <2>8 DEF qq, n
<1>4. CASE IdleCall
  BY <1>3, <1>4 DEF IdleCall
<1>5. CASE WriteCall
  BY <1>3, <1>5 DEF WriteCall
<1>6. CASE op = "READ" /\ ReadCall
  BY <1>3, <1>6 DEF ReadCall
<1>7. CASE ExitCall
  <2> DEFINE qq == PcbRemove(NextRemoved(q), cur_process)
             n == NextReady(q)
  <2>1. NextRemoved(q) \in QueueRecords /\ NextRemoved(q).state = q.state
    BY NextRemovedKeeps DEF ListInv, IInv, TypeOK
  <2>2. qq \in QueueRecords /\ qq.state = q.state
    BY <2>1, RemoveKeeps DEF ListInv, IInv, TypeOK
  <2>3. n \in PcbOrNull /\ (n # NULL => q.state[n] = "READY")
    BY <1>7, PerformsFacts DEF ExitCall, ListInv
  <2> HIDE DEF qq, n
  <2>4. IF qq.fault # "none" THEN Crash(qq) ELSE Dispatch(qq, n, initial_context)
    BY <1>7 DEF ExitCall, qq, n
  <2> QED BY <1>0, <1>1, <2>2, <2>3, <2>4, DispatchedRuns
<1>8. CASE InvalidCall
  <2> DEFINE qq == NextRemoved(q)
  <2>1. qq.state = q.state
    BY NextRemovedKeeps DEF ListInv, IInv, TypeOK
  <2> HIDE DEF qq
  <2>2. IF qq.fault # "none" THEN Crash(qq)
        ELSE q' = qq /\ UNCHANGED <<cur_process, initial_context, cpu>>
    BY <1>8 DEF InvalidCall, qq
  <2> QED BY <1>0, <1>1, <2>1, <2>2
<1> QED BY <1>2, <1>4, <1>5, <1>6, <1>7, <1>8 DEF Requested

LEMMA NextKeepsRunning == MpxInv /\ RunsOffList /\ [MpxNext]_mpx_vars => RunsOffList'
<1> SUFFICES ASSUME MpxInv, RunsOffList, [MpxNext]_mpx_vars PROVE RunsOffList'
  OBVIOUS
<1>1. ASSUME NEW op, NEW new, Call(op, new), op = "READ" => cpu = Comhand PROVE RunsOffList'
  BY <1>1, CallKeepsRunning DEF Call, MpxInv, RunsOffList
<1>2. ASSUME UNCHANGED <<cur_process, initial_context, cpu>>,
             \A p \in PCB : q.state[p] = "RUNNING" => q'.state[p] = "RUNNING"
      PROVE  RunsOffList'
  BY <1>2 DEF RunsOffList
<1>1a. ASSUME NEW op, NEW new, SysReq(op, new), op = "READ" => cpu = Comhand PROVE RunsOffList'
  BY <1>1, <1>1a DEF SysReq
<1>3. CASE Kmain \/ IdleProcess
  BY <1>1a, <1>3 DEF Kmain, IdleProcess
<1>4. CASE R3Process
  BY <1>1, <1>1a, <1>4 DEF R3Process, R3Goes, R3LeavesLoop, R3Request
<1>5. CASE ComhandProcess
  <2>1. CASE ComhandWrites \/ ComhandReads \/ ShtDwnWrites \/ ShtDwnExits \/ ShtDwnRefuses
    BY <1>1a, <2>1
       DEF ComhandWrites, ComhandReads, ShtDwnWrites, ShtDwnExits, ShtDwnRefuses, ComhandAt
  <2>2. CASE LoadR3 \/ ShtDwn
    BY <1>2, <2>2 DEF LoadR3, ShtDwn, vars
  <2>3. CASE LoadR3Pcb
    <3>1. PICK k \in 1..Len(R3) : CreateProc(R3[k])
      BY <2>3 DEF LoadR3Pcb
    <3> DEFINE r == R3[k]
               readied == [q EXCEPT !.state[r] = "READY"]
               inserted == PcbInsert(readied, r)
    <3>2. q \in QueueRecords /\ r \in PCB /\ q.state[r] = "FREE"
      BY <3>1, R3Assumption DEF MpxInv, ListInv, IInv, TypeOK, CreateProc
    <3> HIDE DEF r
    <3>3. readied \in QueueRecords /\ readied.state = [q.state EXCEPT ![r] = "READY"]
      BY <3>2, StateAssigned DEF States, ReadyStates
    <3> HIDE DEF readied
    <3>4. inserted \in QueueRecords /\ inserted.state = readied.state
      BY <3>2, <3>3, InsertKeeps
    <3> HIDE DEF inserted
    <3>5. /\ UNCHANGED <<cur_process, initial_context, cpu>>
          /\ q' = inserted \/ q' = q \/ \E f : q' = Fail(q, f)
      BY <3>1 DEF CreateProc, Crash, Fail, inserted, readied, r
    <3>6. \A p \in PCB : q.state[p] = "RUNNING" => q'.state[p] = "RUNNING"
      BY <3>2, <3>3, <3>4, <3>5 DEF Fail, QueueRecords
    <3> QED BY <1>2, <3>5, <3>6
  <2>4. CASE ShtDwnClears
    <3>1. /\ UNCHANGED <<cur_process, initial_context, cpu>>
          /\ q' = [q EXCEPT !.front["ready"] = NULL] /\ q \in QueueRecords
      BY <2>4 DEF ShtDwnClears, ReadyCleared, MpxInv, ListInv, IInv, TypeOK
    <3> QED BY <1>2, <3>1 DEF QueueRecords
  <2> QED BY <1>5, <2>1, <2>2, <2>3, <2>4 DEF ComhandProcess
<1>6. CASE Interrupt \/ UNCHANGED mpx_vars
  BY <1>2, <1>6 DEF Interrupt, OutputInterrupt, InputInterrupt, mpx_vars
<1>7. CASE Derails
  <2>1. q \in QueueRecords /\ RegistersLost
    BY <1>7 DEF Derails, MpxInv, ListInv, IInv, TypeOK
  <2> QED BY <1>2, <2>1 DEF RegistersLost, Crash, Fail, QueueRecords
<1> QED BY <1>3, <1>4, <1>5, <1>6, <1>7 DEF MpxNext, Processor

\* A test process that waits is not on the processor, and no waiting process's
\* context is the one in initial_context (isr.c:115, 192): the wake-up is the
\* only way on for it.
THEOREM WaitsOffProcessor == MpxSpec => []WaitingIsOffCpu
<1>1. MpxInit => RunsOffList
  <2> SUFFICES ASSUME MpxInit PROVE RunsOffList
    OBVIOUS
  <2> QED BY BootAssumption, NullAssumption DEF MpxInit, Init, RunsOffList
<1>2. MpxInv /\ RunsOffList /\ [MpxNext]_mpx_vars => RunsOffList'
  BY NextKeepsRunning
<1>3. RunsOffList => WaitingIsOffCpu
  <2>1. R3Set \subseteq PCB \ {Comhand}
    BY R3Assumption DEF R3Set
  <2> QED BY <2>1 DEF RunsOffList, WaitingIsOffCpu
<1> QED BY <1>1, <1>2, <1>3, FrameInvariance, PTL DEF MpxSpec

-----------------------------------------------------------------------------
(***************************************************************************)
(* The lists of the running system.  At the first wake-up comhand is the   *)
(* whole blocked list, and its `next` still leads to idle, behind which it *)
(* was created: idle becomes the front of the blocked list, and stays on   *)
(* the ready list too, in state RUNNING for good.  From then on the two    *)
(* lists are one list, headed by idle, on which READY and BLOCKED processes*)
(* are mixed.  When sht_dwn empties the ready list they become two lists   *)
(* with nothing in common.                                                 *)
(***************************************************************************)
Ready(qq) == OnList(qq, "ready")
Blocked(qq) == OnList(qq, "blocked")

IdleLost(qq) == /\ qq.state[Idle] = "RUNNING" /\ qq.front["blocked"] = Idle
                /\ Linear(qq, "blocked")

OneList(qq) == /\ IdleLost(qq) /\ qq.front["ready"] = Idle
               /\ \A p \in Ready(qq) \ {Idle} : qq.state[p] \in {"READY", "BLOCKED"}

TwoLists(qq) == /\ IdleLost(qq) /\ Linear(qq, "ready")
                /\ Ready(qq) \intersect Blocked(qq) = {}
                /\ \A p \in Ready(qq) : qq.state[p] \in {"READY", "RUNNING"}

\* What the dispatch of the first READY process leaves behind: either its `next`
\* is the front of the ready list, or a process that is skipped was before it.
LeftOn(qq, p) == qq.next[p] = qq.front["ready"] \/ \E r \in Ready(qq) : qq.state[r] = "RUNNING"

LEMMA ListNames == "ready" \in Lists /\ "blocked" \in Lists /\ "ready" # "blocked"
BY DEF Lists

LEMMA OneListIsReady ==
  ASSUME NEW qq \in QueueRecords, OneList(qq)
  PROVE  Ready(qq) = Blocked(qq) /\ Linear(qq, "ready") /\ Idle \in Ready(qq)
<1>1. Ready(qq) = Blocked(qq) /\ Linear(qq, "ready")
  BY ListNames, OneFrontOneList DEF OneList, IdleLost, Ready, Blocked
<1>2. Closed(qq, "ready", Ready(qq))
  BY ListNames, OnListClosed DEF Ready
<1> QED BY <1>1, <1>2, BootAssumption, NullAssumption DEF Closed, OneList

\* One state changed, of a process that is not on the ready list.
LEMMA StateOff ==
  ASSUME NEW qq \in QueueRecords, NEW p \in PCB \ Ready(qq), p # Idle, NEW s \in States
  PROVE  LET r == [qq EXCEPT !.state[p] = s]
         IN /\ r \in QueueRecords /\ r.fault = qq.fault /\ r.front = qq.front /\ r.next = qq.next
            /\ r.state = [qq.state EXCEPT ![p] = s]
            /\ Ready(r) = Ready(qq) /\ Blocked(r) = Blocked(qq)
            /\ IdleLost(qq) => IdleLost(r)
            /\ OneList(qq) => OneList(r)
            /\ TwoLists(qq) => TwoLists(r)
<1> DEFINE r == [qq EXCEPT !.state[p] = s]
<1>1. r \in QueueRecords /\ r.state = [qq.state EXCEPT ![p] = s]
  BY StateAssigned
<1>2. r.fault = qq.fault /\ r.front = qq.front /\ r.next = qq.next
  BY DEF QueueRecords
<1> HIDE DEF r
<1>3. /\ Ready(r) = Ready(qq) /\ Blocked(r) = Blocked(qq)
      /\ Linear(qq, "ready") => Linear(r, "ready")
      /\ Linear(qq, "blocked") => Linear(r, "blocked")
  BY <1>1, <1>2, ListNames, SameOnList DEF Ready, Blocked
<1>4. \A x \in PCB : x # p => r.state[x] = qq.state[x]
  BY <1>1 DEF QueueRecords
<1>5. IdleLost(qq) => IdleLost(r)
  BY <1>2, <1>3, <1>4, BootAssumption DEF IdleLost
<1>6. Ready(qq) \subseteq PCB /\ p \notin Ready(qq)
  BY DEF Ready, OnList
<1>7. OneList(qq) => OneList(r)
  BY <1>2, <1>3, <1>4, <1>5, <1>6 DEF OneList
<1>8. TwoLists(qq) => TwoLists(r)
  BY <1>3, <1>4, <1>5, <1>6 DEF TwoLists
<1> QED BY <1>1, <1>2, <1>3, <1>5, <1>7, <1>8 DEF r

\* The first READY process off the ready list.
LEMMA NextLeaves ==
  ASSUME NEW qq \in QueueRecords, qq.fault = "none", OneList(qq) \/ TwoLists(qq)
  PROVE  LET n == NextReady(qq)
             r == NextRemoved(qq)
         IN /\ r \in QueueRecords /\ r.fault = "none" /\ r.state = qq.state
            /\ IF n = NULL THEN r = qq ELSE n \in Ready(qq) /\ qq.state[n] = "READY"
            /\ Ready(r) = Ready(qq) \ {n}
            /\ OneList(qq) => OneList(r)
            /\ TwoLists(qq) => TwoLists(r) /\ Blocked(r) = Blocked(qq)
            /\ \A x \in PCB : x \notin Ready(qq) \/ qq.next[x] = NULL => r.next[x] = qq.next[x]
            /\ TwoLists(qq) /\ n # NULL => r.next[n] = qq.next[n] /\ LeftOn(r, n)
            /\ TwoLists(qq) /\ n # NULL /\ r.front["ready"] = NULL => qq.front["ready"] = n
<1> DEFINE n == NextReady(qq)
           r == NextRemoved(qq)
           S == InState(qq, "READY")
<1>0. S \in SUBSET PCB /\ Idle \in PCB
  BY BootAssumption DEF InState
<1>1. Linear(qq, "ready")
  BY OneListIsReady DEF TwoLists
<1>2. ~Hangs(qq, "ready", S)
  BY <1>1, ListNames, LinearEnds
<1>3. r = PcbRemove(qq, n)
  BY <1>2 DEF NextRemoved
<1>4. /\ n = NULL \/ (n \in PCB /\ qq.state[n] = "READY")
      /\ r \in QueueRecords /\ r.state = qq.state
  BY NextRemovedKeeps
<1>5. n \in Ready(qq) \union {NULL}
  BY <1>0, ListNames, FirstOfFinds DEF NextReady, Ready
<1>5a. NULL \notin Ready(qq) /\ NULL \notin PCB /\ Ready(qq) \subseteq PCB
  BY NullAssumption DEF Ready, OnList
<1>6. CASE n = NULL
  <2>1. r = qq
    BY <1>3, <1>6 DEF PcbRemove
  <2> QED BY <1>4, <1>5a, <1>6, <2>1
<1>7. CASE n # NULL
  <2>1. n \in Ready(qq) /\ n \in PCB /\ qq.state[n] = "READY"
    BY <1>4, <1>5, <1>7
  <2>2. r = Unlink(qq, n, "ready")
    BY <1>3, <1>7, <2>1 DEF PcbRemove, ReadyStates
  <2>3. Unlinked(qq, r, n, "ready")
    BY <1>1, <2>1, <2>2, ListNames, UnlinkUnlinks DEF Ready
  <2> HIDE DEF r, n
  <2>4. Ready(r) = Ready(qq) \ {n} /\ Linear(r, "ready")
    BY <1>1, <1>4, <2>1, <2>3, ListNames, UnlinkedLeaves DEF Ready
  <2>5. PICK prev \in PCB :
           /\ prev = n => r.next = qq.next
           /\ prev # n => /\ prev \in Ready(qq) \ {n} /\ qq.next[prev] = n
                          /\ r.front = qq.front
                          /\ r.next = [qq.next EXCEPT ![prev] = qq.next[n]]
    BY <1>5a, <2>1, <2>3 DEF Unlinked, Ready
  <2>6. \A x \in PCB : r.next[x] = IF x = prev /\ prev # n THEN qq.next[n] ELSE qq.next[x]
    BY <2>5 DEF QueueRecords
  <2>7. r.fault = "none"
    BY <2>3 DEF Unlinked
  <2>8. \A x \in PCB : x \notin Ready(qq) \/ qq.next[x] = NULL => r.next[x] = qq.next[x]
    BY <1>7, <2>5, <2>6
  <2>9. r.front["blocked"] = qq.front["blocked"]
    BY <2>3, ListNames DEF Unlinked, QueueRecords
  <2>10. CASE OneList(qq)
    <3>1. qq.front["ready"] = Idle /\ qq.state[Idle] = "RUNNING" /\ qq.front["blocked"] = Idle
      BY <2>10 DEF OneList, IdleLost
    <3>2. r.front = qq.front
      BY <2>1, <2>3, <3>1 DEF Unlinked
    <3>3. Linear(r, "blocked")
      BY <1>4, <2>4, <3>1, <3>2, ListNames, OneFrontOneList
    <3>4. OneList(r)
      BY <1>4, <2>4, <2>10, <3>1, <3>2, <3>3 DEF OneList, IdleLost
    <3>5. ~TwoLists(qq)
      <4>1. Idle \in Ready(qq) /\ Ready(qq) = Blocked(qq)
        BY <2>10, OneListIsReady
      <4> QED BY <4>1 DEF TwoLists
    <3> QED BY <1>4, <1>7, <2>1, <2>4, <2>7, <2>8, <3>4, <3>5 DEF r, n
  <2>11. CASE TwoLists(qq)
    <3>1. Ready(qq) \intersect Blocked(qq) = {} /\ Linear(qq, "blocked")
      BY <2>11 DEF TwoLists, IdleLost
    <3>2. \A x \in Blocked(qq) : r.next[x] = qq.next[x]
      BY <2>1, <2>5, <2>6, <3>1 DEF Blocked, OnList
    <3>3. Blocked(r) = Blocked(qq) /\ Linear(r, "blocked")
      BY <1>4, <2>9, <3>1, <3>2, ListNames, SameOnList DEF Blocked
    <3>4. TwoLists(r)
      BY <1>4, <2>4, <2>9, <2>11, <3>3 DEF TwoLists, IdleLost
    <3>5. r.next[n] = qq.next[n]
      BY <2>1, <2>6
    <3>6. CASE qq.front["ready"] = n
      <4>1. r.front["ready"] = qq.next[n]
        BY <2>3, <3>6, ListNames DEF Unlinked, QueueRecords
      <4>2. LeftOn(r, n)
        BY <3>5, <4>1 DEF LeftOn
      <4> QED BY <1>4, <1>7, <2>1, <2>4, <2>7, <2>8, <2>10, <3>3, <3>4, <3>5, <3>6, <4>2 DEF r, n
    <3>7. CASE qq.front["ready"] # n
      <4>1. qq.front["ready"] # NULL
        BY <2>1, ListNames, ShortLists DEF Ready
      <4>2. qq.front["ready"] \in Ready(qq)
        BY <4>1, ListNames, OnListClosed DEF Closed, Ready
      <4>3. qq.front["ready"] \notin S
        BY <3>7, ListNames, FrontIsFirst DEF n, NextReady
      <4>4. qq.state[qq.front["ready"]] = "RUNNING"
        BY <1>5a, <2>11, <4>2, <4>3 DEF TwoLists, InState
      <4>5. r.front = qq.front
        BY <2>3, <3>7 DEF Unlinked
      <4>6. LeftOn(r, n)
        BY <1>4, <2>4, <3>7, <4>2, <4>4 DEF LeftOn
      <4> QED BY <1>4, <1>7, <2>1, <2>4, <2>7, <2>8, <2>10, <3>3, <3>4, <3>5, <4>1, <4>5, <4>6
                 DEF r, n
    <3> QED BY <3>6, <3>7
  <2> QED BY <2>10, <2>11
<1> QED BY <1>6, <1>7

-----------------------------------------------------------------------------
\* A READY process on the ready list.
LEMMA JoinsReady ==
  ASSUME NEW qq \in QueueRecords, qq.fault = "none", NEW p \in PCB \ Ready(qq),
         qq.state[p] = "READY", OneList(qq) \/ (TwoLists(qq) /\ p \notin Blocked(qq)),
         qq.front["ready"] # NULL \/ qq.next[p] = NULL
  PROVE  LET r == PcbInsert(qq, p)
         IN /\ r \in QueueRecords /\ r.fault = "none" /\ r.state = qq.state
            /\ Ready(r) = Ready(qq) \union {p}
            /\ OneList(qq) => OneList(r)
            /\ TwoLists(qq) => TwoLists(r) /\ Blocked(r) = Blocked(qq)
            /\ \A x \in PCB \ (Ready(qq) \union {p}) : r.next[x] = qq.next[x]
            /\ qq.front["ready"] # NULL => r.front = qq.front
<1> DEFINE Stops == {x \in PCB : qq.next[x] = NULL \/ qq.prio[x] > qq.prio[p]}
           r == LinkBehind(qq, p, "ready", Stops)
<1>0. PcbInsert(qq, p) = r
  BY DEF PcbInsert, ReadyStates
<1>1. Linear(qq, "ready") /\ Idle \in PCB /\ p \notin Ready(qq) /\ Ready(qq) \subseteq PCB
  BY OneListIsReady, BootAssumption DEF TwoLists, Ready, OnList
<1>2. r \in QueueRecords /\ r.state = qq.state
  BY ListNames, LinkBehindKeeps
<1>3. CASE qq.front["ready"] = NULL
  <2>1. r = [qq EXCEPT !.front["ready"] = p]
    BY <1>3 DEF LinkBehind
  <2> HIDE DEF r
  <2>2. /\ r.fault = qq.fault /\ r.next = qq.next /\ r.front["ready"] = p
        /\ r.front["blocked"] = qq.front["blocked"] /\ qq.next[p] = NULL
    BY <1>3, <2>1, ListNames DEF QueueRecords
  <2>3. Ready(qq) = {} /\ Ready(r) = {p} /\ Linear(r, "ready")
    BY <1>2, <1>3, <2>2, ListNames, ShortLists DEF Ready
  <2>4. TwoLists(qq) /\ p \notin Blocked(qq) /\ ~OneList(qq)
    <3>1. Idle # NULL
      BY BootAssumption, NullAssumption
    <3> QED BY <1>3, <3>1 DEF OneList
  <2>5. Blocked(r) = Blocked(qq) /\ Linear(r, "blocked")
    BY <1>2, <2>2, <2>4, ListNames, SameOnList DEF Blocked, TwoLists, IdleLost
  <2>6. TwoLists(r)
    BY <1>2, <2>2, <2>3, <2>4, <2>5 DEF TwoLists, IdleLost
  <2> QED BY <1>0, <1>2, <1>3, <2>2, <2>3, <2>4, <2>5, <2>6
<1>4. CASE qq.front["ready"] # NULL
  <2>1. Linked(qq, r, p, "ready", Stops)
    BY <1>1, <1>4, ListNames, LinkLinks
  <2> HIDE DEF r, Stops
  <2>2. Ready(r) = Ready(qq) \union {p} /\ Linear(r, "ready")
    BY <1>1, <1>2, <2>1, ListNames, LinkedJoins DEF Ready
  <2>3. PICK temp \in Ready(qq) :
           r.next = [[qq.next EXCEPT ![temp] = p] EXCEPT ![p] = qq.next[temp]]
    BY <2>1 DEF Linked, Ready
  <2>4. r.fault = "none" /\ r.front = qq.front
    BY <2>1 DEF Linked
  <2>5. \A x \in PCB \ (Ready(qq) \union {p}) : r.next[x] = qq.next[x]
    BY <2>3 DEF QueueRecords
  <2>6. CASE OneList(qq)
    <3>1. Linear(r, "blocked")
      BY <1>2, <2>2, <2>4, <2>6, ListNames, OneFrontOneList DEF OneList, IdleLost
    <3>2. OneList(r)
      BY <1>2, <2>2, <2>4, <2>6, <3>1 DEF OneList, IdleLost
    <3>3. ~TwoLists(qq)
      <4>1. Idle \in Ready(qq) /\ Ready(qq) = Blocked(qq)
        BY <2>6, OneListIsReady
      <4> QED BY <4>1 DEF TwoLists
    <3> QED BY <1>0, <1>2, <2>2, <2>4, <2>5, <3>2, <3>3
  <2>7. CASE TwoLists(qq) /\ p \notin Blocked(qq) /\ ~OneList(qq)
    <3>1. \A x \in Blocked(qq) : r.next[x] = qq.next[x]
      BY <2>5, <2>7 DEF TwoLists, Blocked, OnList
    <3>2. Blocked(r) = Blocked(qq) /\ Linear(r, "blocked")
      BY <1>2, <2>4, <2>7, <3>1, ListNames, SameOnList DEF Blocked, TwoLists, IdleLost
    <3>3. TwoLists(r)
      BY <1>2, <2>2, <2>4, <2>7, <3>2 DEF TwoLists, IdleLost
    <3> QED BY <1>0, <1>2, <2>2, <2>4, <2>5, <2>7, <3>2, <3>3
  <2> QED BY <2>6, <2>7
<1> QED BY <1>3, <1>4

\* A BLOCKED process on the blocked list.
LEMMA JoinsBlocked ==
  ASSUME NEW qq \in QueueRecords, qq.fault = "none", NEW p \in PCB \ Blocked(qq),
         qq.state[p] = "BLOCKED", IdleLost(qq)
  PROVE  LET r == PcbInsert(qq, p)
         IN /\ r \in QueueRecords /\ r.fault = "none" /\ r.state = qq.state
            /\ r.front = qq.front /\ IdleLost(r)
            /\ Blocked(r) = Blocked(qq) \union {p}
            /\ r.next[p] = NULL
            /\ \A x \in PCB \ (Blocked(qq) \union {p}) : r.next[x] = qq.next[x]
<1> DEFINE Stops == {x \in PCB : qq.next[x] = NULL}
           r == LinkBehind(qq, p, "blocked", Stops)
<1>0. PcbInsert(qq, p) = r
  BY DEF PcbInsert, ReadyStates, BlockedStates
<1>1. /\ Linear(qq, "blocked") /\ qq.front["blocked"] # NULL /\ p \notin Blocked(qq)
      /\ Blocked(qq) \subseteq PCB
  BY BootAssumption, NullAssumption DEF IdleLost, Blocked, OnList
<1>2. r \in QueueRecords /\ r.state = qq.state
  BY ListNames, LinkBehindKeeps
<1>3. Linked(qq, r, p, "blocked", Stops)
  BY <1>1, ListNames, LinkLinks
<1> HIDE DEF r
<1>4. Blocked(r) = Blocked(qq) \union {p} /\ Linear(r, "blocked")
  BY <1>1, <1>2, <1>3, ListNames, LinkedJoins DEF Blocked
<1>5. PICK temp \in Blocked(qq) :
         qq.next[temp] = NULL /\ r.next = [[qq.next EXCEPT ![temp] = p] EXCEPT ![p] = qq.next[temp]]
  BY <1>3 DEF Linked, Blocked
<1>6. r.fault = "none" /\ r.front = qq.front
  BY <1>3 DEF Linked
<1>7. r.next[p] = NULL /\ \A x \in PCB \ (Blocked(qq) \union {p}) : r.next[x] = qq.next[x]
  BY <1>1, <1>5 DEF QueueRecords
<1>8. IdleLost(r)
  BY <1>2, <1>4, <1>6 DEF IdleLost
<1> QED BY <1>0, <1>2, <1>4, <1>6, <1>7, <1>8

\* The same where the ready list is tidy, and p not on it.
LEMMA WaiterJoins ==
  ASSUME NEW qq \in QueueRecords, qq.fault = "none", NEW p \in PCB \ (Ready(qq) \union Blocked(qq)),
         qq.state[p] = "BLOCKED", OneList(qq) \/ TwoLists(qq)
  PROVE  LET r == PcbInsert(qq, p)
         IN /\ Ready(qq) \subseteq Ready(r)
            /\ OneList(qq) => OneList(r)
            /\ TwoLists(qq) => TwoLists(r) /\ Ready(r) = Ready(qq)
<1> DEFINE r == PcbInsert(qq, p)
<1>1. /\ r \in QueueRecords /\ r.fault = "none" /\ r.state = qq.state
      /\ r.front = qq.front /\ IdleLost(r) /\ Blocked(r) = Blocked(qq) \union {p}
      /\ \A x \in PCB \ (Blocked(qq) \union {p}) : r.next[x] = qq.next[x]
  BY JoinsBlocked DEF OneList, TwoLists
<1> HIDE DEF r
<1>2. CASE OneList(qq)
  <2>1. Ready(r) = Blocked(r) /\ Linear(r, "ready") /\ Ready(qq) = Blocked(qq) /\ Idle \in Ready(qq)
    BY <1>1, <1>2, ListNames, OneFrontOneList, OneListIsReady DEF OneList, IdleLost, Ready, Blocked
  <2>2. OneList(r)
    BY <1>1, <1>2, <2>1 DEF OneList
  <2>3. ~TwoLists(qq)
    BY <2>1 DEF TwoLists
  <2> QED BY <1>1, <2>1, <2>2, <2>3 DEF r
<1>3. CASE TwoLists(qq) /\ ~OneList(qq)
  <2>1. \A x \in Ready(qq) : r.next[x] = qq.next[x]
    BY <1>1, <1>3 DEF TwoLists, Ready, OnList
  <2>2. Ready(r) = Ready(qq) /\ Linear(r, "ready")
    BY <1>1, <1>3, <2>1, ListNames, SameOnList DEF Ready, TwoLists
  <2>3. TwoLists(r)
    BY <1>1, <1>3, <2>2 DEF TwoLists
  <2> QED BY <1>3, <2>2, <2>3 DEF r
<1> QED BY <1>2, <1>3

-----------------------------------------------------------------------------
\* The wake-up of sys_call, with the one process that waits.
LEMMA SleeperUnlinked ==
  ASSUME ListInv, q.fault = "none", device1.event_flag = 1,
         NEW s \in PCB, InState(q, "BLOCKED") = {s}, IdleLost(q)
  PROVE  LET r == PcbRemove(q, s)
         IN /\ QueuesAfterEvent = PcbInsert([r EXCEPT !.state[s] = "READY"], s)
            /\ r \in QueueRecords /\ r.fault = "none" /\ r.state = q.state /\ r.front = q.front
            /\ s \in Blocked(q) /\ s # Idle
            /\ Blocked(r) = Blocked(q) \ {s} /\ IdleLost(r)
            /\ r.next[s] = q.next[s]
            /\ \A x \in PCB \ Blocked(q) : r.next[x] = q.next[x]
<1> DEFINE r == PcbRemove(q, s)
           S == InState(q, "BLOCKED")
<1>1. q \in QueueRecords /\ S \subseteq Blocked(q) /\ device1.iocb_queue = <<>>
  BY DEF ListInv, IInv, TypeOK, SleeperOnBlockedList, IocbQueueUnused, Blocked
<1>2. s \in Blocked(q) /\ q.state[s] = "BLOCKED" /\ s # NULL /\ s # Idle
  BY <1>1, NullAssumption DEF InState, IdleLost
<1>3. Sleeper = s /\ ~Hangs(q, "blocked", S)
  <2>1. S \in SUBSET PCB /\ S \intersect OnList(q, "blocked") # {}
    BY <1>1, <1>2 DEF Blocked
  <2>2. /\ FirstOf(q, "blocked", S) \in (S \intersect OnList(q, "blocked")) \union {NULL}
        /\ FirstOf(q, "blocked", S) # NULL /\ ~Hangs(q, "blocked", S)
    BY <1>1, <2>1, ListNames, FirstOfFinds
  <2> QED BY <2>2 DEF Sleeper
<1>4. QueuesAfterEvent = PcbInsert([r EXCEPT !.state[s] = "READY"], s)
  BY <1>1, <1>2, <1>3 DEF QueuesAfterEvent, IocbProcessInserted, SleeperReadied
<1>5. r = Unlink(q, s, "blocked")
  BY <1>2 DEF PcbRemove, ReadyStates, BlockedStates
<1>6. r \in QueueRecords /\ r.state = q.state
  BY <1>1, RemoveKeeps DEF PcbOrNull
<1>7. Unlinked(q, r, s, "blocked")
  BY <1>1, <1>2, <1>5, ListNames, UnlinkUnlinks DEF Blocked, IdleLost
<1> HIDE DEF r
<1>8. Blocked(r) = Blocked(q) \ {s} /\ Linear(r, "blocked")
  BY <1>1, <1>2, <1>6, <1>7, ListNames, UnlinkedLeaves DEF Blocked, IdleLost
<1>9. /\ r.fault = "none" /\ r.front = q.front
      /\ \E prev \in Blocked(q) \ {s} : r.next = [q.next EXCEPT ![prev] = q.next[s]]
  BY <1>2, <1>7 DEF Unlinked, IdleLost, Blocked
<1>10. r.next[s] = q.next[s] /\ \A x \in PCB \ Blocked(q) : r.next[x] = q.next[x]
  BY <1>1, <1>9 DEF QueueRecords
<1>11. IdleLost(r)
  BY <1>6, <1>8, <1>9 DEF IdleLost
<1> QED BY <1>2, <1>4, <1>6, <1>8, <1>9, <1>10, <1>11 DEF r

\* Insertion of a PCB that is all there is on the list.
LEMMA JoinsItself ==
  ASSUME NEW qq \in QueueRecords, qq.fault = "none", NEW p \in PCB,
         qq.state[p] = "READY", qq.front["ready"] = p, qq.next[p] = NULL
  PROVE  LET r == PcbInsert(qq, p)
         IN /\ r \in QueueRecords /\ r.fault = "none" /\ r.state = qq.state
            /\ r.front = qq.front /\ r.next = qq.next
            /\ Ready(r) = {p} /\ Linear(r, "ready") /\ Blocked(r) = Blocked(qq)
            /\ Linear(qq, "blocked") => Linear(r, "blocked")
<1> DEFINE Stops == {x \in PCB : qq.next[x] = NULL \/ qq.prio[x] > qq.prio[p]}
           r == LinkBehind(qq, p, "ready", Stops)
<1>1. PcbInsert(qq, p) = r /\ p # NULL
  BY NullAssumption DEF PcbInsert, ReadyStates
<1>2. r \in QueueRecords /\ r.state = qq.state
  BY ListNames, LinkBehindKeeps
<1>3. FirstOf(qq, "ready", Stops) = p
  BY ListNames, FrontIsFirst
<1>4. r = [qq EXCEPT !.next = [[@ EXCEPT ![p] = p] EXCEPT ![p] = qq.next[p]]]
  BY <1>1, <1>3 DEF LinkBehind
<1> HIDE DEF r
<1>5. r.fault = "none" /\ r.front = qq.front /\ r.next = qq.next
  BY <1>4 DEF QueueRecords
<1>6. Ready(r) = {p} /\ Linear(r, "ready")
  BY <1>2, <1>5, ListNames, ShortLists DEF Ready
<1>7. Blocked(r) = Blocked(qq) /\ (Linear(qq, "blocked") => Linear(r, "blocked"))
  BY <1>2, <1>5, ListNames, SameOnList DEF Blocked
<1> QED BY <1>1, <1>2, <1>5, <1>6, <1>7

\* The process woken is on the ready list afterwards, in whichever shape the
\* lists were before: the last one is that of a waiting process which is alone
\* on the ready list as well.
LEMMA Wakes ==
  ASSUME ListInv, q.fault = "none", device1.event_flag = 1,
         NEW s \in PCB, InState(q, "BLOCKED") = {s}, IdleLost(q),
         OneList(q) \/ (q.next[s] = NULL /\ (TwoLists(q) \/ q.front["ready"] = s))
  PROVE  LET w == QueuesAfterEvent
         IN /\ w \in QueueRecords /\ w.fault = "none" /\ w.state = [q.state EXCEPT ![s] = "READY"]
            /\ Ready(w) = Ready(q) \union {s}
            /\ OneList(w) \/ TwoLists(w)
<1> DEFINE r == PcbRemove(q, s)
           r2 == [r EXCEPT !.state[s] = "READY"]
           w == QueuesAfterEvent
<1>1. /\ w = PcbInsert(r2, s)
      /\ r \in QueueRecords /\ r.fault = "none" /\ r.state = q.state /\ r.front = q.front
      /\ s \in Blocked(q) /\ s # Idle
      /\ Blocked(r) = Blocked(q) \ {s} /\ IdleLost(r)
      /\ r.next[s] = q.next[s]
      /\ \A x \in PCB \ Blocked(q) : r.next[x] = q.next[x]
  BY SleeperUnlinked
<1>2. q \in QueueRecords /\ q.state[s] = "BLOCKED"
  BY DEF ListInv, IInv, TypeOK, InState
<1>3. "READY" \in States /\ Ready(q) \subseteq PCB
  BY DEF States, ReadyStates, Ready, OnList
<1> HIDE DEF r, w
<1>4. ASSUME s \notin Ready(r), s \notin Blocked(r), OneList(r) \/ TwoLists(r),
             r.front["ready"] # NULL \/ r.next[s] = NULL, Ready(r) \union {s} = Ready(q) \union {s}
      PROVE  /\ w \in QueueRecords /\ w.fault = "none" /\ w.state = [q.state EXCEPT ![s] = "READY"]
             /\ Ready(w) = Ready(q) \union {s}
             /\ OneList(w) \/ TwoLists(w)
  <2>1. /\ r2 \in QueueRecords /\ r2.fault = "none" /\ r2.front = r.front /\ r2.next = r.next
        /\ r2.state = [r.state EXCEPT ![s] = "READY"]
        /\ Ready(r2) = Ready(r) /\ Blocked(r2) = Blocked(r)
        /\ OneList(r2) \/ TwoLists(r2)
    BY <1>1, <1>3, <1>4, StateOff
  <2> HIDE DEF r2
  <2>2. r2.state[s] = "READY"
    BY <1>1, <2>1 DEF QueueRecords
  <2>3. w = PcbInsert(r2, s)
    BY <1>1
  <2>4. s \in PCB \ Ready(r2) /\ s \notin Blocked(r2) /\ (r2.front["ready"] # NULL \/ r2.next[s] = NULL)
    BY <1>4, <2>1
  <2>5. /\ w \in QueueRecords /\ w.fault = "none" /\ w.state = r2.state
        /\ Ready(w) = Ready(r2) \union {s}
        /\ OneList(w) \/ TwoLists(w)
    BY <2>1, <2>2, <2>3, <2>4, JoinsReady
  <2> QED BY <1>1, <1>4, <2>1, <2>5
<1>5. CASE OneList(q)
  <2>1. /\ Ready(r) = Blocked(r) /\ Linear(r, "ready") /\ r.front["ready"] = Idle
        /\ Ready(q) = Blocked(q) /\ Idle # NULL
    BY <1>1, <1>2, <1>5, ListNames, OneFrontOneList, OneListIsReady, BootAssumption, NullAssumption
       DEF OneList, IdleLost, Ready, Blocked
  <2>2. OneList(r)
    BY <1>1, <1>5, <2>1 DEF OneList
  <2> QED BY <1>1, <1>4, <2>1, <2>2 DEF w
<1>6. CASE q.next[s] = NULL /\ TwoLists(q)
  <2>1. \A x \in Ready(q) : r.next[x] = q.next[x]
    BY <1>1, <1>3, <1>6 DEF TwoLists
  <2>2. Ready(r) = Ready(q) /\ Linear(r, "ready")
    BY <1>1, <1>2, <1>6, <2>1, ListNames, SameOnList DEF Ready, TwoLists
  <2>3. TwoLists(r) /\ s \notin Ready(r)
    BY <1>1, <1>2, <1>6, <2>2 DEF TwoLists
  <2> QED BY <1>1, <1>4, <1>6, <2>2, <2>3 DEF w
<1>7. CASE q.next[s] = NULL /\ q.front["ready"] = s
  <2>1. r2 \in QueueRecords /\ r2.state = [r.state EXCEPT ![s] = "READY"]
    BY <1>1, <1>3, StateAssigned
  <2>2. r2.fault = "none" /\ r2.front = r.front /\ r2.next = r.next
    BY <1>1 DEF QueueRecords
  <2> HIDE DEF r2
  <2>3. /\ w \in QueueRecords /\ w.fault = "none" /\ w.state = r2.state
        /\ w.front = r2.front /\ w.next = r2.next /\ Ready(w) = {s} /\ Linear(w, "ready")
        /\ Blocked(w) = Blocked(r2) /\ (Linear(r2, "blocked") => Linear(w, "blocked"))
    <3>1. r2.state[s] = "READY"
      BY <1>1, <2>1 DEF QueueRecords
    <3>2. w = PcbInsert(r2, s)
      BY <1>1
    <3>3. r2.front["ready"] = s /\ r2.next[s] = NULL
      BY <1>1, <1>7, <2>2
    <3> QED BY <2>1, <2>2, <3>1, <3>2, <3>3, JoinsItself
  <2>4. Blocked(r2) = Blocked(r) /\ Linear(r2, "blocked")
    BY <1>1, <2>1, <2>2, ListNames, SameOnList DEF Blocked, IdleLost
  <2>5. Ready(q) = {s}
    BY <1>2, <1>7, ListNames, ShortLists DEF Ready
  <2>6. w.state[s] = "READY" /\ w.state[Idle] = "RUNNING"
    BY <1>1, <2>1, <2>3, BootAssumption DEF QueueRecords, IdleLost
  <2>7. TwoLists(w)
    BY <1>1, <2>2, <2>3, <2>4, <2>6 DEF TwoLists, IdleLost
  <2> QED BY <1>1, <2>1, <2>3, <2>5, <2>7 DEF w
<1> QED BY <1>5, <1>6, <1>7 DEF w

-----------------------------------------------------------------------------
(***************************************************************************)
(* The inductive invariant.  Once idle is lost, the lists are              *)
(*                                                                         *)
(*   - one, on which the process that waits is the last, unless comhand,   *)
(*     going on after its read, has put new processes behind itself;       *)
(*   - or two, with the current process on neither: its own `next` leads   *)
(*     to the front of the ready list or over a process that is skipped;   *)
(*   - or, when a test process was put on an empty ready list with a `next`*)
(*     that led to the process taken off it (pcb.c:260 assigns no `next`), *)
(*     two, with the current process linked behind that one;               *)
(*   - or, when that current process then waits, two with the waiting      *)
(*     process on both, alone on the ready list.                           *)
(*                                                                         *)
(* The last two do not outlive one call, and none of it makes a cycle.     *)
(***************************************************************************)
WaitersLast(qq) == \A p \in InState(qq, "BLOCKED") : qq.next[p] = NULL

Apart(qq, c) == /\ TwoLists(qq) /\ c \notin Ready(qq) \union Blocked(qq)
                /\ WaitersLast(qq)
                /\ c \in R3Set => LeftOn(qq, c)

RunnerListed(qq, c) ==
  /\ IdleLost(qq) /\ InState(qq, "BLOCKED") = {}
  /\ c \in PCB \ Blocked(qq) /\ qq.next[c] = NULL
  /\ \E p \in R3Set \ Blocked(qq) :
       qq.front["ready"] = p /\ qq.state[p] = "READY" /\ qq.next[p] = c

WaiterListed(qq, c) ==
  /\ IdleLost(qq) /\ c \notin Blocked(qq)
  /\ \E p \in InState(qq, "BLOCKED") : qq.front["ready"] = p /\ qq.next[p] = NULL
  /\ \E p \in R3Set : qq.state[p] # "FREE"

Settled(qq, c) == c # Idle /\ \/ OneList(qq) /\ WaitersLast(qq)
                              \/ Apart(qq, c)
                              \/ RunnerListed(qq, c)
                              \/ WaiterListed(qq, c)

\* In loadR3, which only a system call of comhand's leads to.
Loading == cpu = Comhand /\ \E k \in 1..Len(R3) : pc = Loads(k)

Booted ==
  /\ cur_process # Idle
  /\ \/ OneList(q) /\ (WaitersLast(q) \/ (cpu = Comhand /\ (pc = Writes \/ Loading)))
     \/ Apart(q, cur_process)
     \/ ~Loading /\ (RunnerListed(q, cur_process) \/ WaiterListed(q, cur_process))

\* A step that drops no process that can be dispatched.
KeepsReady == \A p \in InState(q, "READY") \intersect Ready(q) :
                q'.state[p] = "READY" => p \in Ready(q')

\* One that drops at most the process sys_call has taken off the ready list.
KeepsAllButNext == \A p \in InState(q, "READY") \intersect Ready(q) :
                     q'.state[p] = "READY" => p \in Ready(q') \/ p = NextReady(q)

LEMMA R3AreOthers == R3Set \subseteq PCB \ {Comhand, Idle}
BY R3Assumption DEF R3Set

\* The dispatch of a process that is off the ready list.
LEMMA DispatchedOff ==
  ASSUME NEW qq \in QueueRecords, qq.fault = "none", qq.state[Idle] = "RUNNING", NEW n, NEW saved,
         n = NULL \/ (n \in PCB \ Ready(qq) /\ qq.state[n] = "READY"),
         Dispatch(qq, n, saved)
  PROVE  /\ q' \in QueueRecords /\ q'.fault = "none" /\ cur_process' = n /\ n # Idle
         /\ q'.front = qq.front /\ q'.next = qq.next
         /\ Ready(q') = Ready(qq) /\ Blocked(q') = Blocked(qq)
         /\ \A p \in PCB : q'.state[p] = IF p = n THEN "RUNNING" ELSE qq.state[p]
         /\ InState(q', "BLOCKED") = InState(qq, "BLOCKED")
         /\ WaitersLast(qq) => WaitersLast(q')
         /\ IdleLost(qq) => IdleLost(q')
         /\ OneList(qq) => OneList(q')
         /\ TwoLists(qq) => TwoLists(q')
         /\ n # NULL /\ LeftOn(qq, n) => LeftOn(q', n)
<1>1. Idle \in PCB /\ Idle # NULL /\ NULL \notin PCB
  BY BootAssumption, NullAssumption
<1>2. CASE n = NULL
  <2>1. q' = qq /\ cur_process' = n
    BY <1>2 DEF Dispatch
  <2> QED BY <1>1, <1>2, <2>1
<1>3. CASE n # NULL
  <2>1. n \in PCB \ Ready(qq) /\ n # Idle /\ qq.state[n] = "READY"
    BY <1>3
  <2>2. q' = [qq EXCEPT !.state[n] = "RUNNING"] /\ cur_process' = n
    BY <1>3 DEF Dispatch
  <2>3. /\ q' \in QueueRecords /\ q'.fault = qq.fault /\ q'.front = qq.front /\ q'.next = qq.next
        /\ q'.state = [qq.state EXCEPT ![n] = "RUNNING"]
        /\ Ready(q') = Ready(qq) /\ Blocked(q') = Blocked(qq)
        /\ IdleLost(qq) => IdleLost(q')
        /\ OneList(qq) => OneList(q')
        /\ TwoLists(qq) => TwoLists(q')
    BY <2>1, <2>2, StateOff DEF States
  <2>4. \A p \in PCB : q'.state[p] = IF p = n THEN "RUNNING" ELSE qq.state[p]
    BY <2>1, <2>3 DEF QueueRecords
  <2>5. InState(q', "BLOCKED") = InState(qq, "BLOCKED")
    BY <2>1, <2>4 DEF InState
  <2>6. LeftOn(qq, n) => LeftOn(q', n)
    <3>1. Ready(qq) \subseteq PCB
      BY DEF Ready, OnList
    <3> QED BY <2>1, <2>3, <2>4, <3>1 DEF LeftOn
  <2>7. WaitersLast(qq) => WaitersLast(q')
    BY <2>3, <2>5 DEF WaitersLast
  <2> QED BY <2>1, <2>2, <2>3, <2>4, <2>5, <2>6, <2>7
<1> QED BY <1>2, <1>3

\* What the first part of sys_call leaves for the second.
LEMMA Awake ==
  ASSUME ListInv, q.fault = "none", Booted,
         device1.event_flag = 1 \/ cur_process = NULL
  PROVE  LET w == QueuesAfterEvent
         IN /\ w \in QueueRecords /\ w.fault = "none"
            /\ OneList(w) \/ TwoLists(w)
            /\ InState(w, "BLOCKED") = {}
            /\ Ready(q) \subseteq Ready(w)
            /\ \A p \in InState(q, "READY") : w.state[p] = "READY"
<1> DEFINE w == QueuesAfterEvent
<1>1. q \in QueueRecords /\ OneSleeper /\ device1.event_flag \in {0, 1}
  BY DEF ListInv, IInv, TypeOK, Devices
<1>2. CASE device1.event_flag = 1
  <2>1. PICK s \in PCB : InState(q, "BLOCKED") = {s}
    BY <1>1, <1>2 DEF OneSleeper
  <2>2. IdleLost(q) /\ (OneList(q) \/ (q.next[s] = NULL /\ (TwoLists(q) \/ q.front["ready"] = s)))
    BY <2>1 DEF Booted, OneList, Apart, TwoLists, RunnerListed, WaiterListed, WaitersLast
  <2>3. /\ w \in QueueRecords /\ w.fault = "none" /\ w.state = [q.state EXCEPT ![s] = "READY"]
        /\ Ready(w) = Ready(q) \union {s}
        /\ OneList(w) \/ TwoLists(w)
    BY <1>2, <2>1, <2>2, Wakes
  <2> HIDE DEF w
  <2>4. \A p \in PCB : w.state[p] = IF p = s THEN "READY" ELSE q.state[p]
    BY <1>1, <2>3 DEF QueueRecords
  <2>5. InState(w, "BLOCKED") = {} /\ \A p \in InState(q, "READY") : w.state[p] = "READY"
    BY <2>1, <2>4 DEF InState
  <2> QED BY <2>3, <2>5 DEF w
<1>3. CASE device1.event_flag = 0
  <2>1. w = q /\ cur_process = NULL
    BY <1>3 DEF QueuesAfterEvent
  <2>2. InState(q, "BLOCKED") = {}
    BY <1>1, <1>3 DEF OneSleeper
  <2>3. OneList(q) \/ TwoLists(q)
    BY <2>1, <2>2, NullAssumption DEF Booted, Apart, RunnerListed, WaiterListed
  <2> QED BY <1>1, <2>1, <2>2, <2>3 DEF InState
<1> QED BY <1>1, <1>2, <1>3

\* A call that is not performed.
LEMMA SaveContextSettles ==
  ASSUME ListInv, q.fault = "none", Booted, SaveContext
  PROVE  q'.fault = "none" /\ Settled(q', cur_process') /\ KeepsReady
<1> DEFINE w == QueuesAfterEvent
           n == NextReady(w)
           r == NextRemoved(w)
<1>1. /\ w \in QueueRecords /\ w.fault = "none"
      /\ OneList(w) \/ TwoLists(w)
      /\ InState(w, "BLOCKED") = {}
      /\ Ready(q) \subseteq Ready(w)
      /\ \A p \in InState(q, "READY") : w.state[p] = "READY"
  BY Awake DEF SaveContext
<1> HIDE DEF w
<1>2. /\ r \in QueueRecords /\ r.fault = "none" /\ r.state = w.state
      /\ IF n = NULL THEN r = w ELSE n \in Ready(w) /\ w.state[n] = "READY"
      /\ Ready(r) = Ready(w) \ {n}
      /\ OneList(w) => OneList(r)
      /\ TwoLists(w) => TwoLists(r) /\ Blocked(r) = Blocked(w)
      /\ TwoLists(w) /\ n # NULL => LeftOn(r, n)
  BY <1>1, NextLeaves
<1> HIDE DEF n, r
<1>3. Dispatch(r, n, cpu)
  BY <1>2 DEF SaveContext, r, n, w
<1>4. /\ Ready(w) \subseteq PCB /\ r.state[Idle] = "RUNNING" /\ NULL \notin PCB /\ NULL \notin R3Set
      /\ NULL \notin Ready(w) \union Blocked(w)
  BY <1>1, <1>2, NullAssumption, R3AreOthers DEF Ready, Blocked, OnList, OneList, TwoLists, IdleLost
<1>5. /\ q' \in QueueRecords /\ q'.fault = "none" /\ cur_process' = n /\ n # Idle
      /\ Ready(q') = Ready(r) /\ Blocked(q') = Blocked(r)
      /\ \A p \in PCB : q'.state[p] = IF p = n THEN "RUNNING" ELSE r.state[p]
      /\ InState(q', "BLOCKED") = InState(r, "BLOCKED")
      /\ OneList(r) => OneList(q')
      /\ TwoLists(r) => TwoLists(q')
      /\ n # NULL /\ LeftOn(r, n) => LeftOn(q', n)
  BY <1>2, <1>3, <1>4, DispatchedOff
<1>6. WaitersLast(q')
  BY <1>1, <1>2, <1>5 DEF WaitersLast, InState
<1>7. TwoLists(w) => Apart(q', n)
  BY <1>2, <1>4, <1>5, <1>6 DEF Apart, TwoLists
<1>8. Settled(q', cur_process')
  BY <1>1, <1>2, <1>5, <1>6, <1>7 DEF Settled
<1>9. KeepsReady
  BY <1>1, <1>2, <1>5 DEF KeepsReady, InState
<1> QED BY <1>5, <1>8, <1>9

-----------------------------------------------------------------------------
\* The requests, from the first two shapes.
Tidy == OneList(q) \/ Apart(q, cur_process)

\* cur_process is on neither list, and the process taken off the ready list is
\* another one.
LEMMA TidyCaller ==
  ASSUME ListInv, q.fault = "none", cur_process # Idle, Performs, Tidy,
         NEW s \in States
  PROVE  LET n == NextReady(q)
             r == NextRemoved(q)
             r2 == [r EXCEPT !.state[cur_process] = s]
         IN /\ q \in QueueRecords /\ InState(q, "BLOCKED") = {}
            /\ cur_process \in PCB \ (Ready(q) \union Blocked(q))
            /\ n = NULL \/ (n \in Ready(q) /\ n \in PCB /\ q.state[n] = "READY" /\ n # cur_process)
            /\ n = NULL => r = q
            /\ r \in QueueRecords /\ r.fault = "none" /\ r.state = q.state
            /\ r2 \in QueueRecords /\ r2.fault = "none" /\ r2.front = r.front /\ r2.next = r.next
            /\ \A x \in PCB : r2.state[x] = IF x = cur_process THEN s ELSE q.state[x]
            /\ Ready(r) = Ready(q) \ {n} /\ Ready(r2) = Ready(r) /\ Blocked(r2) = Blocked(r)
            /\ cur_process \notin Ready(r) \union Blocked(r)
            /\ OneList(q) => OneList(r) /\ OneList(r2)
            /\ TwoLists(q) => TwoLists(r) /\ TwoLists(r2) /\ Blocked(r) = Blocked(q)
            /\ TwoLists(q) /\ n # NULL => r.next[n] = q.next[n] /\ LeftOn(r, n)
            /\ TwoLists(q) /\ n # NULL /\ r.front["ready"] = NULL => q.front["ready"] = n
            /\ r.next[cur_process] = q.next[cur_process]
<1> DEFINE n == NextReady(q)
           r == NextRemoved(q)
           r2 == [r EXCEPT !.state[cur_process] = s]
<1>1. /\ q \in QueueRecords /\ InState(q, "BLOCKED") = {}
      /\ cur_process \in PCB /\ q.state[cur_process] = "RUNNING"
  BY PerformsFacts DEF ListInv, IInv, TypeOK
<1>2. cur_process \notin Ready(q) \union Blocked(q)
  <2>1. CASE OneList(q)
    <3>1. Ready(q) = Blocked(q)
      BY <1>1, <2>1, OneListIsReady
    <3> QED BY <1>1, <2>1, <3>1 DEF OneList
  <2>2. CASE Apart(q, cur_process)
    BY <2>2 DEF Apart
  <2> QED BY <2>1, <2>2 DEF Tidy
<1>3. OneList(q) \/ TwoLists(q)
  BY DEF Tidy, Apart
<1>4. /\ r \in QueueRecords /\ r.fault = "none" /\ r.state = q.state
      /\ IF n = NULL THEN r = q ELSE n \in Ready(q) /\ q.state[n] = "READY"
      /\ Ready(r) = Ready(q) \ {n}
      /\ OneList(q) => OneList(r)
      /\ TwoLists(q) => TwoLists(r) /\ Blocked(r) = Blocked(q)
      /\ \A x \in PCB : x \notin Ready(q) \/ q.next[x] = NULL => r.next[x] = q.next[x]
      /\ TwoLists(q) /\ n # NULL => r.next[n] = q.next[n] /\ LeftOn(r, n)
      /\ TwoLists(q) /\ n # NULL /\ r.front["ready"] = NULL => q.front["ready"] = n
  BY <1>1, <1>3, NextLeaves
<1> HIDE DEF n, r
<1>5. n = NULL \/ (n \in Ready(q) /\ n \in PCB /\ q.state[n] = "READY" /\ n # cur_process)
  BY <1>1, <1>4 DEF Ready, OnList
<1>6. cur_process \notin Ready(r) \union Blocked(r)
  <2>1. OneList(q) => Blocked(r) \subseteq Blocked(q)
    <3> SUFFICES ASSUME OneList(q) PROVE Blocked(r) \subseteq Blocked(q)
      OBVIOUS
    <3>1. Ready(r) = Blocked(r) /\ Ready(q) = Blocked(q)
      BY <1>1, <1>4, OneListIsReady
    <3> QED BY <1>4, <3>1
  <2> QED BY <1>2, <1>3, <1>4, <2>1
<1>7. /\ r2 \in QueueRecords /\ r2.fault = r.fault /\ r2.front = r.front /\ r2.next = r.next
      /\ r2.state = [r.state EXCEPT ![cur_process] = s]
      /\ Ready(r2) = Ready(r) /\ Blocked(r2) = Blocked(r)
      /\ OneList(r) => OneList(r2)
      /\ TwoLists(r) => TwoLists(r2)
  BY <1>1, <1>4, <1>6, StateOff
<1> HIDE DEF r2
<1>8. \A x \in PCB : r2.state[x] = IF x = cur_process THEN s ELSE q.state[x]
  BY <1>1, <1>4, <1>7 DEF QueueRecords
<1> QED BY <1>1, <1>2, <1>4, <1>5, <1>6, <1>7, <1>8 DEF n, r, r2

\* EXIT.
LEMMA TidyExitSettles ==
  ASSUME ListInv, q.fault = "none", cur_process # Idle, Tidy, ExitCall
  PROVE  q'.fault = "none" /\ Settled(q', cur_process') /\ KeepsReady
<1> DEFINE n == NextReady(q)
           r == NextRemoved(q)
<1>0. Performs /\ "RUNNING" \in States
  BY DEF ExitCall, States
<1>1. /\ q \in QueueRecords /\ InState(q, "BLOCKED") = {}
      /\ cur_process \in PCB \ (Ready(q) \union Blocked(q))
      /\ n = NULL \/ (n \in Ready(q) /\ n \in PCB /\ q.state[n] = "READY" /\ n # cur_process)
      /\ r \in QueueRecords /\ r.fault = "none" /\ r.state = q.state
      /\ Ready(r) = Ready(q) \ {n}
      /\ OneList(q) => OneList(r)
      /\ TwoLists(q) => TwoLists(r) /\ Blocked(r) = Blocked(q)
      /\ TwoLists(q) /\ n # NULL => LeftOn(r, n)
  BY <1>0, TidyCaller
<1>2. q.state[cur_process] = "RUNNING"
  BY <1>0, PerformsFacts DEF ListInv
<1>3. PcbRemove(r, cur_process) = r
  BY <1>1, <1>2 DEF PcbRemove, ReadyStates, BlockedStates
<1> HIDE DEF n, r
<1>4. Dispatch(r, n, initial_context)
  BY <1>1, <1>3 DEF ExitCall, n, r
<1>5. /\ r.state[Idle] = "RUNNING" /\ (OneList(q) \/ (TwoLists(q) /\ Apart(q, cur_process)))
      /\ NULL \notin PCB /\ NULL \notin R3Set /\ NULL \notin Ready(q) \union Blocked(q)
  BY <1>1, NullAssumption, R3AreOthers
     DEF Tidy, Apart, OneList, TwoLists, IdleLost, Ready, Blocked, OnList
<1>6. /\ q' \in QueueRecords /\ q'.fault = "none" /\ cur_process' = n /\ n # Idle
      /\ Ready(q') = Ready(r) /\ Blocked(q') = Blocked(r)
      /\ \A p \in PCB : q'.state[p] = IF p = n THEN "RUNNING" ELSE r.state[p]
      /\ InState(q', "BLOCKED") = InState(r, "BLOCKED")
      /\ OneList(r) => OneList(q')
      /\ TwoLists(r) => TwoLists(q')
      /\ n # NULL /\ LeftOn(r, n) => LeftOn(q', n)
  BY <1>1, <1>4, <1>5, DispatchedOff
<1>7. WaitersLast(q')
  BY <1>1, <1>6 DEF WaitersLast, InState
<1>8. TwoLists(q) => Apart(q', n)
  BY <1>1, <1>5, <1>6, <1>7 DEF Apart, TwoLists
<1>9. Settled(q', cur_process')
  BY <1>1, <1>5, <1>6, <1>7, <1>8 DEF Settled
<1>10. KeepsReady
  BY <1>1, <1>6 DEF KeepsReady, InState
<1> QED BY <1>6, <1>9, <1>10

\* WRITE and READ: the caller goes behind the blocked list.
LEMMA TidyWaits ==
  ASSUME ListInv, q.fault = "none", cur_process # Idle, Performs, Tidy
  PROVE  LET n == NextReady(q)
             qq == CurMovedTo("BLOCKED")
         IN /\ qq \in QueueRecords /\ qq.fault = "none" /\ qq.state[Idle] = "RUNNING"
            /\ n = NULL \/ (n \in Ready(q) /\ n \in PCB \ Ready(qq) /\ qq.state[n] = "READY")
            /\ Ready(q) \ {n} \subseteq Ready(qq) /\ cur_process \notin Ready(q)
            /\ WaitersLast(qq)
            /\ OneList(qq) \/ (/\ TwoLists(qq) /\ n \notin Blocked(qq)
                               /\ n # NULL => LeftOn(qq, n))
<1> DEFINE n == NextReady(q)
           r == NextRemoved(q)
           r2 == [r EXCEPT !.state[cur_process] = "BLOCKED"]
           qq == PcbInsert(r2, cur_process)
<1>0. "BLOCKED" \in States
  BY DEF States, BlockedStates
<1>1. /\ q \in QueueRecords /\ InState(q, "BLOCKED") = {}
      /\ cur_process \in PCB \ (Ready(q) \union Blocked(q))
      /\ n = NULL \/ (n \in Ready(q) /\ n \in PCB /\ q.state[n] = "READY" /\ n # cur_process)
      /\ r2 \in QueueRecords /\ r2.fault = "none" /\ r2.front = r.front /\ r2.next = r.next
      /\ \A x \in PCB : r2.state[x] = IF x = cur_process THEN "BLOCKED" ELSE q.state[x]
      /\ Ready(r) = Ready(q) \ {n} /\ Ready(r2) = Ready(r) /\ Blocked(r2) = Blocked(r)
      /\ cur_process \notin Ready(r) \union Blocked(r)
      /\ OneList(q) => OneList(r2)
      /\ TwoLists(q) => TwoLists(r2) /\ Blocked(r) = Blocked(q)
      /\ TwoLists(q) /\ n # NULL => LeftOn(r, n)
      /\ r.state = q.state
  BY <1>0, TidyCaller
<1>2. CurMovedTo("BLOCKED") = qq
  BY DEF CurMovedTo
<1> HIDE DEF n, r, r2
<1>3. OneList(q) \/ TwoLists(q)
  BY DEF Tidy, Apart
<1>4. IdleLost(r2) /\ r2.state[cur_process] = "BLOCKED"
  BY <1>1, <1>3 DEF OneList, TwoLists
<1>5. /\ qq \in QueueRecords /\ qq.fault = "none" /\ qq.state = r2.state
      /\ qq.front = r2.front /\ IdleLost(qq)
      /\ Blocked(qq) = Blocked(r2) \union {cur_process}
      /\ qq.next[cur_process] = NULL
      /\ \A x \in PCB \ (Blocked(r2) \union {cur_process}) : qq.next[x] = r2.next[x]
  BY <1>1, <1>4, JoinsBlocked
<1>6. /\ Ready(r2) \subseteq Ready(qq)
      /\ OneList(r2) => OneList(qq)
      /\ TwoLists(r2) => TwoLists(qq) /\ Ready(qq) = Ready(r2)
  BY <1>1, <1>3, <1>4, WaiterJoins
<1> HIDE DEF qq
<1>7. InState(qq, "BLOCKED") = {cur_process} /\ WaitersLast(qq)
  BY <1>1, <1>5 DEF InState, WaitersLast
<1>8. qq.state[Idle] = "RUNNING" /\ NULL \notin Ready(q) /\ NULL \notin PCB /\ NULL \notin Blocked(qq)
  BY <1>5, NullAssumption DEF IdleLost, Ready, Blocked, OnList
<1>9. n # NULL => n \in PCB \ Ready(qq) /\ qq.state[n] = "READY"
  <2> SUFFICES ASSUME n # NULL PROVE n \notin Ready(qq) /\ qq.state[n] = "READY" /\ n \in PCB
    OBVIOUS
  <2>1. qq.state[n] = "READY" /\ n \in PCB
    BY <1>1, <1>5
  <2>2. n \notin Ready(r2) /\ n # cur_process
    BY <1>1
  <2>3. CASE OneList(r2)
    <3>1. Ready(qq) = Blocked(qq) /\ Ready(r2) = Blocked(r2)
      BY <1>1, <1>5, <1>6, <2>3, OneListIsReady
    <3> QED BY <1>5, <2>1, <2>2, <3>1
  <2>4. CASE TwoLists(r2)
    BY <1>6, <2>1, <2>2, <2>4
  <2> QED BY <1>1, <1>3, <2>3, <2>4
<1>10. CASE OneList(q)
  BY <1>1, <1>2, <1>5, <1>6, <1>7, <1>8, <1>9, <1>10 DEF n
<1>11. CASE TwoLists(q)
  <2>1. n # NULL => n \notin Blocked(qq)
    BY <1>1, <1>5, <1>11 DEF TwoLists
  <2>2. n # NULL => LeftOn(qq, n)
    <3> SUFFICES ASSUME n # NULL PROVE LeftOn(qq, n)
      OBVIOUS
    <3>1. qq.next[n] = r.next[n] /\ qq.front = r.front /\ Ready(qq) = Ready(r)
      BY <1>1, <1>5, <1>6, <1>11 DEF TwoLists
    <3>2. \A x \in Ready(r) : qq.state[x] = r.state[x]
      BY <1>1, <1>5 DEF Ready, OnList
    <3> QED BY <1>1, <1>11, <3>1, <3>2 DEF LeftOn
  <2> QED BY <1>1, <1>2, <1>5, <1>6, <1>7, <1>8, <1>9, <1>11, <2>1, <2>2 DEF n
<1> QED BY <1>3, <1>10, <1>11

\* The process taken off the ready list is dispatched, or forgotten.
LEMMA TidyWriteSettles ==
  ASSUME ListInv, q.fault = "none", cur_process # Idle, Tidy, WriteCall
  PROVE  q'.fault = "none" /\ Settled(q', cur_process') /\ KeepsReady
<1> DEFINE n == NextReady(q)
           qq == CurMovedTo("BLOCKED")
<1>1. /\ qq \in QueueRecords /\ qq.fault = "none" /\ qq.state[Idle] = "RUNNING"
      /\ n = NULL \/ (n \in Ready(q) /\ n \in PCB \ Ready(qq) /\ qq.state[n] = "READY")
      /\ Ready(q) \ {n} \subseteq Ready(qq)
      /\ WaitersLast(qq)
      /\ OneList(qq) \/ (/\ TwoLists(qq) /\ n \notin Blocked(qq)
                         /\ n # NULL => LeftOn(qq, n))
  BY TidyWaits DEF WriteCall
<1> HIDE DEF n, qq
<1>2. Dispatch(qq, n, initial_context)
  BY <1>1 DEF WriteCall, n, qq
<1>3. /\ q' \in QueueRecords /\ q'.fault = "none" /\ cur_process' = n /\ n # Idle
      /\ Ready(q') = Ready(qq) /\ Blocked(q') = Blocked(qq)
      /\ \A p \in PCB : q'.state[p] = IF p = n THEN "RUNNING" ELSE qq.state[p]
      /\ WaitersLast(q')
      /\ OneList(qq) => OneList(q')
      /\ TwoLists(qq) => TwoLists(q')
      /\ n # NULL /\ LeftOn(qq, n) => LeftOn(q', n)
  BY <1>1, <1>2, DispatchedOff
<1>4. NULL \notin R3Set /\ NULL \notin Ready(qq)
  BY NullAssumption, R3AreOthers DEF Ready, OnList
<1>5. Settled(q', cur_process')
  BY <1>1, <1>3, <1>4 DEF Settled, Apart
<1>6. KeepsReady
  BY <1>1, <1>3 DEF KeepsReady, InState
<1> QED BY <1>3, <1>5, <1>6

LEMMA TidyReadSettles ==
  ASSUME ListInv, q.fault = "none", cur_process # Idle, Tidy, ReadCall
  PROVE  q'.fault = "none" /\ Settled(q', cur_process') /\ KeepsAllButNext
<1> DEFINE n == NextReady(q)
           qq == CurMovedTo("BLOCKED")
<1>1. /\ qq \in QueueRecords /\ qq.fault = "none"
      /\ Ready(q) \ {n} \subseteq Ready(qq)
      /\ WaitersLast(qq)
      /\ OneList(qq) \/ TwoLists(qq)
  BY TidyWaits DEF ReadCall
<1>1a. Ready(q) \ {NextReady(q)} \subseteq Ready(qq)
  BY <1>1
<1> HIDE DEF n, qq
<1>2. q' = qq /\ cur_process' = NULL
  BY <1>1 DEF ReadCall, n, qq
<1>3. NULL \notin R3Set /\ NULL \notin Ready(qq) \union Blocked(qq) /\ NULL # Idle
  BY NullAssumption, R3AreOthers, BootAssumption DEF Ready, Blocked, OnList
<1>4. KeepsAllButNext
  BY <1>1a, <1>2 DEF KeepsAllButNext
<1> QED BY <1>1, <1>2, <1>3, <1>4 DEF Settled, Apart

-----------------------------------------------------------------------------
\* IDLE, which only the test processes have performed: the caller goes onto the
\* ready list, and when that is empty by now, becomes its front with the `next`
\* it had.
LEMMA TidyIdleSettles ==
  ASSUME ListInv, q.fault = "none", Tidy, cur_process \in R3Set, IdleCall
  PROVE  q'.fault = "none" /\ Settled(q', cur_process') /\ KeepsReady
<1> DEFINE n == NextReady(q)
           r == NextRemoved(q)
           r2 == [r EXCEPT !.state[cur_process] = "READY"]
           qq == PcbInsert(r2, cur_process)
<1>0. "READY" \in States /\ Performs /\ cur_process # Idle /\ NULL \notin R3Set /\ NULL \notin PCB
  BY R3AreOthers, NullAssumption DEF States, ReadyStates, IdleCall
<1>1. /\ q \in QueueRecords /\ InState(q, "BLOCKED") = {}
      /\ cur_process \in PCB \ (Ready(q) \union Blocked(q))
      /\ n = NULL \/ (n \in Ready(q) /\ n \in PCB /\ q.state[n] = "READY" /\ n # cur_process)
      /\ n = NULL => r = q
      /\ r \in QueueRecords /\ r.fault = "none" /\ r.state = q.state
      /\ r2 \in QueueRecords /\ r2.fault = "none" /\ r2.front = r.front /\ r2.next = r.next
      /\ \A x \in PCB : r2.state[x] = IF x = cur_process THEN "READY" ELSE q.state[x]
      /\ Ready(r) = Ready(q) \ {n} /\ Ready(r2) = Ready(r) /\ Blocked(r2) = Blocked(r)
      /\ cur_process \notin Ready(r) \union Blocked(r)
      /\ OneList(q) => OneList(r2)
      /\ TwoLists(q) => TwoLists(r2) /\ Blocked(r) = Blocked(q)
      /\ TwoLists(q) /\ n # NULL => r.next[n] = q.next[n] /\ LeftOn(r, n)
      /\ TwoLists(q) /\ n # NULL /\ r.front["ready"] = NULL => q.front["ready"] = n
      /\ r.next[cur_process] = q.next[cur_process]
  BY <1>0, TidyCaller
<1>2. CurMovedTo("READY") = qq
  BY DEF CurMovedTo
<1>3. qq.fault = "none" => Dispatch(qq, n, initial_context)
  BY <1>2 DEF IdleCall
<1> HIDE DEF n, r, r2
<1>4. OneList(q) \/ (TwoLists(q) /\ LeftOn(q, cur_process))
  BY DEF Tidy, Apart
<1>5. r2.state[cur_process] = "READY" /\ NULL \notin Ready(q)
  BY <1>1, NullAssumption DEF Ready, OnList
<1>6. CASE r2.front["ready"] # NULL \/ r2.next[cur_process] = NULL
  <2>1. /\ qq \in QueueRecords /\ qq.fault = "none" /\ qq.state = r2.state
        /\ Ready(qq) = Ready(r2) \union {cur_process}
        /\ OneList(r2) => OneList(qq)
        /\ TwoLists(r2) => TwoLists(qq) /\ Blocked(qq) = Blocked(r2)
        /\ \A x \in PCB \ (Ready(r2) \union {cur_process}) : qq.next[x] = r2.next[x]
        /\ r2.front["ready"] # NULL => qq.front = r2.front
    BY <1>1, <1>4, <1>5, <1>6, JoinsReady
  <2> HIDE DEF qq
  <2>2. Dispatch(qq, n, initial_context)
    BY <1>3, <2>1
  <2>3. n = NULL \/ (n \in PCB \ Ready(qq) /\ qq.state[n] = "READY")
    BY <1>1, <2>1
  <2>4. qq.state[Idle] = "RUNNING"
    BY <1>1, <1>4, <2>1 DEF OneList, TwoLists, IdleLost
  <2>5. /\ q' \in QueueRecords /\ q'.fault = "none" /\ cur_process' = n /\ n # Idle
        /\ Ready(q') = Ready(qq) /\ Blocked(q') = Blocked(qq)
        /\ \A p \in PCB : q'.state[p] = IF p = n THEN "RUNNING" ELSE qq.state[p]
        /\ InState(q', "BLOCKED") = InState(qq, "BLOCKED")
        /\ OneList(qq) => OneList(q')
        /\ TwoLists(qq) => TwoLists(q')
        /\ n # NULL /\ LeftOn(qq, n) => LeftOn(q', n)
    BY <2>1, <2>2, <2>3, <2>4, DispatchedOff
  <2>6. WaitersLast(q') /\ InState(q', "BLOCKED") = {}
    BY <1>1, <2>1, <2>5 DEF WaitersLast, InState
  <2>7. TwoLists(q) /\ n # NULL => LeftOn(qq, n)
    <3> SUFFICES ASSUME TwoLists(q), n # NULL PROVE LeftOn(qq, n)
      OBVIOUS
    <3>1. qq.next[n] = r.next[n] /\ Ready(r) \subseteq Ready(qq)
      BY <1>1, <2>1
    <3>2. \A x \in Ready(r) : qq.state[x] = r.state[x]
      BY <1>1, <2>1 DEF Ready, OnList
    <3>3. CASE r2.front["ready"] # NULL
      BY <1>1, <2>1, <3>1, <3>2, <3>3 DEF LeftOn
    <3>4. CASE r2.front["ready"] = NULL
      <4>1. Ready(r) = {}
        BY <1>1, <3>4, ListNames, ShortLists DEF Ready
      <4>2. q.front["ready"] = n /\ Ready(q) = {n}
        BY <1>1, <3>4, <4>1
      <4>3. q.next[cur_process] = n
        BY <1>1, <1>4, <4>2, OneListIsReady DEF LeftOn, TwoLists
      <4>4. r2.next[cur_process] # NULL
        BY <1>0, <1>1, <4>3
      <4> QED BY <1>6, <3>4, <4>4
    <3> QED BY <3>3, <3>4
  <2>8. TwoLists(q) => Apart(q', n)
    <3> SUFFICES ASSUME TwoLists(q) PROVE Apart(q', n)
      OBVIOUS
    <3>1. TwoLists(q') /\ Blocked(q') = Blocked(q) /\ Ready(q) \intersect Blocked(q) = {}
      BY <1>1, <2>1, <2>5 DEF TwoLists
    <3>2. n \notin Ready(q') \union Blocked(q')
      BY <1>1, <1>0, <2>3, <2>5, <3>1 DEF Ready, Blocked, OnList
    <3> QED BY <1>0, <2>5, <2>6, <2>7, <3>1, <3>2 DEF Apart
  <2>9. Settled(q', cur_process')
    BY <1>1, <1>4, <2>1, <2>5, <2>6, <2>8 DEF Settled
  <2>10. KeepsReady
    BY <1>1, <2>1, <2>5 DEF KeepsReady, InState
  <2> QED BY <2>5, <2>9, <2>10
<1>7. CASE r2.front["ready"] = NULL /\ r2.next[cur_process] # NULL
  <2>1. TwoLists(q) /\ LeftOn(q, cur_process) /\ Ready(r) = {} /\ Ready(r2) = {}
    <3>1. Ready(r2) = {}
      BY <1>1, <1>7, ListNames, ShortLists DEF Ready
    <3>2. ~OneList(q)
      BY <1>1, <3>1, OneListIsReady
    <3> QED BY <1>1, <1>4, <3>1, <3>2
  <2>2. n # NULL
    <3> SUFFICES ASSUME n = NULL PROVE FALSE
      OBVIOUS
    <3>1. q.front["ready"] = NULL /\ Ready(q) = {} /\ q.next[cur_process] # NULL
      BY <1>1, <1>5, <1>7, <2>1
    <3> QED BY <2>1, <3>1 DEF LeftOn
  <2>3. q.front["ready"] = n /\ Ready(q) = {n} /\ q.state[n] = "READY"
    BY <1>1, <1>7, <2>1, <2>2
  <2>4. q.next[cur_process] = n
    BY <2>1, <2>3 DEF LeftOn
  <2>5. r.next[n] = NULL
    BY <1>1, <1>7, <2>1, <2>2 DEF LeftOn
  <2>6. qq = [r2 EXCEPT !.front["ready"] = cur_process]
    BY <1>1, <1>5, <1>7 DEF PcbInsert, LinkBehind, ReadyStates
  <2>7. qq \in QueueRecords
    BY <1>1, InsertKeeps
  <2> HIDE DEF qq
  <2>8. /\ qq.fault = "none" /\ qq.next = r.next /\ qq.state = r2.state
        /\ qq.front["ready"] = cur_process /\ qq.front["blocked"] = r2.front["blocked"]
    BY <1>1, <2>6, ListNames DEF QueueRecords
  <2>9. Blocked(qq) = Blocked(q) /\ IdleLost(qq)
    <3>1. Blocked(qq) = Blocked(r2) /\ (Linear(r2, "blocked") => Linear(qq, "blocked"))
      BY <1>1, <2>7, <2>8, ListNames, SameOnList DEF Blocked
    <3> QED BY <1>1, <2>1, <2>8, <3>1 DEF IdleLost, TwoLists
  <2>10. n \in PCB \ Blocked(qq) /\ n # cur_process
    BY <1>1, <2>1, <2>2, <2>9 DEF TwoLists
  <2>11. Ready(qq) = {cur_process, n}
    BY <1>1, <2>4, <2>5, <2>7, <2>8, <2>10, ListNames, ShortLists DEF Ready
  <2>12. q' = [qq EXCEPT !.state[n] = "RUNNING"] /\ cur_process' = n
    BY <1>3, <2>2, <2>8 DEF Dispatch
  <2>13. q' \in QueueRecords /\ q'.state = [qq.state EXCEPT ![n] = "RUNNING"]
    BY <2>7, <2>10, <2>12, StateAssigned DEF States
  <2>14. q'.fault = "none" /\ q'.front = qq.front /\ q'.next = qq.next
    BY <2>7, <2>8, <2>12 DEF QueueRecords
  <2>15. \A x \in PCB : q'.state[x] = IF x = n THEN "RUNNING" ELSE r2.state[x]
    BY <2>7, <2>8, <2>10, <2>13 DEF QueueRecords
  <2>16. Blocked(q') = Blocked(q) /\ Linear(q', "blocked")
    BY <2>7, <2>9, <2>13, <2>14, ListNames, SameOnList DEF Blocked, IdleLost
  <2>17. n # Idle /\ Idle \in PCB
    BY <2>1, <2>3, BootAssumption DEF TwoLists, IdleLost
  <2>18. IdleLost(q') /\ InState(q', "BLOCKED") = {}
    BY <1>1, <2>8, <2>9, <2>14, <2>15, <2>16, <2>17 DEF IdleLost, InState
  <2>19. q'.next[n] = NULL /\ q'.next[cur_process] = n /\ q'.front["ready"] = cur_process
    BY <1>1, <2>4, <2>5, <2>8, <2>14
  <2>20. q'.state[cur_process] = "READY"
    BY <1>1, <1>5, <2>10, <2>15
  <2>21. RunnerListed(q', n)
    BY <1>1, <2>9, <2>10, <2>16, <2>18, <2>19, <2>20 DEF RunnerListed
  <2>22. Settled(q', cur_process')
    BY <2>12, <2>17, <2>21 DEF Settled
  <2>23. KeepsReady
    BY <1>1, <2>3, <2>15 DEF KeepsReady
  <2> QED BY <2>14, <2>22, <2>23
<1> QED BY <1>6, <1>7

-----------------------------------------------------------------------------
\* The process taken off the ready list leaves its caller alone on it.
LEMMA ListedCaller ==
  ASSUME ListInv, q.fault = "none", cur_process # Idle, Performs, RunnerListed(q, cur_process),
         NEW s \in States
  PROVE  LET n == NextReady(q)
             r == NextRemoved(q)
             r2 == [r EXCEPT !.state[cur_process] = s]
         IN /\ n \in R3Set \ Blocked(q) /\ n \in PCB /\ n # cur_process /\ n # Idle
            /\ cur_process \in PCB \ Blocked(q) /\ q.state[cur_process] = "RUNNING"
            /\ \A p \in Ready(q) : q.state[p] = "READY" => p = n
            /\ r \in QueueRecords
            /\ r2 \in QueueRecords /\ r2.fault = "none" /\ r2.front["ready"] = cur_process
            /\ s = "RUNNING" => r.fault = "none" /\ PcbRemove(r, cur_process) = r /\ r2 = r
            /\ \A x \in PCB : r2.state[x] = IF x = cur_process THEN s ELSE q.state[x]
            /\ r2.next = q.next /\ q.next[n] = cur_process /\ q.next[cur_process] = NULL
            /\ q.state[n] = "READY" /\ InState(q, "BLOCKED") = {}
            /\ Ready(r2) = {cur_process} /\ Linear(r2, "ready")
            /\ Blocked(r2) = Blocked(q) /\ IdleLost(r2)
<1> DEFINE r == NextRemoved(q)
           r2 == [r EXCEPT !.state[cur_process] = s]
<1>1. /\ q \in QueueRecords /\ InState(q, "BLOCKED") = {}
      /\ cur_process \in PCB /\ q.state[cur_process] = "RUNNING"
  BY PerformsFacts DEF ListInv, IInv, TypeOK
<1>2. PICK n \in R3Set \ Blocked(q) :
         q.front["ready"] = n /\ q.state[n] = "READY" /\ q.next[n] = cur_process
  BY DEF RunnerListed
<1>3. /\ n \in PCB /\ n # NULL /\ n # cur_process /\ n # Idle
      /\ cur_process \in PCB \ Blocked(q) /\ q.next[cur_process] = NULL /\ IdleLost(q)
  BY <1>1, <1>2, R3AreOthers, NullAssumption DEF RunnerListed
<1>4. NextReady(q) = n /\ ~Hangs(q, "ready", InState(q, "READY"))
  <2>1. n \in InState(q, "READY")
    BY <1>2, <1>3 DEF InState
  <2> QED BY <1>1, <1>2, <2>1, ListNames, FrontIsFirst DEF NextReady
<1>5. Ready(q) = {n, cur_process}
  BY <1>1, <1>2, <1>3, ListNames, ShortLists DEF Ready
<1>6. r = [q EXCEPT !.front["ready"] = cur_process]
  BY <1>2, <1>3, <1>4 DEF NextRemoved, PcbRemove, Unlink, ReadyStates
<1>7. r \in QueueRecords /\ r.state = q.state
  BY <1>1, NextRemovedKeeps
<1> HIDE DEF r
<1>8. /\ r.fault = "none" /\ r.next = q.next /\ r.front["ready"] = cur_process
      /\ r.front["blocked"] = q.front["blocked"]
  BY <1>1, <1>6, ListNames DEF QueueRecords
<1>9. r2 \in QueueRecords /\ r2.state = [r.state EXCEPT ![cur_process] = s]
  BY <1>1, <1>7, StateAssigned
<1>10. s = "RUNNING" => PcbRemove(r, cur_process) = r /\ r2 = r
  <2> SUFFICES ASSUME s = "RUNNING" PROVE PcbRemove(r, cur_process) = r /\ r2 = r
    OBVIOUS
  <2>1. r.state[cur_process] = "RUNNING"
    BY <1>1, <1>7
  <2>2. PcbRemove(r, cur_process) = r
    BY <2>1 DEF PcbRemove, ReadyStates, BlockedStates
  <2>3. [r.state EXCEPT ![cur_process] = s] = r.state
    BY <1>1, <1>7, <2>1 DEF QueueRecords
  <2>4. r2 = r
    BY <1>7, <2>3 DEF QueueRecords
  <2> QED BY <2>2, <2>4
<1>11. r2.fault = "none" /\ r2.front = r.front /\ r2.next = q.next
  BY <1>7, <1>8 DEF QueueRecords
<1> HIDE DEF r2
<1>12. \A x \in PCB : r2.state[x] = IF x = cur_process THEN s ELSE q.state[x]
  BY <1>1, <1>7, <1>9 DEF QueueRecords
<1>13. Ready(r2) = {cur_process} /\ Linear(r2, "ready")
  BY <1>1, <1>3, <1>8, <1>9, <1>11, ListNames, ShortLists DEF Ready
<1>14. Blocked(r2) = Blocked(q) /\ Linear(r2, "blocked")
  BY <1>1, <1>3, <1>8, <1>9, <1>11, ListNames, SameOnList DEF Blocked, IdleLost
<1>15. IdleLost(r2)
  BY <1>3, <1>8, <1>11, <1>12, <1>14, BootAssumption DEF IdleLost
<1> QED BY <1>1, <1>2, <1>3, <1>4, <1>5, <1>7, <1>8, <1>9, <1>10, <1>11, <1>12, <1>13, <1>14, <1>15
        DEF r, r2

\* From where the caller is alone on the ready list, in whatever state it
\* cannot be looked for in.
LEMMA ListedDispatch ==
  ASSUME NEW qq \in QueueRecords, qq.fault = "none", IdleLost(qq), InState(qq, "BLOCKED") = {},
         NEW c \in PCB \ Blocked(qq), qq.state[c] \in {"READY", "RUNNING"},
         qq.front["ready"] = c, Ready(qq) = {c}, Linear(qq, "ready"),
         NEW n \in PCB \ Blocked(qq), n # c, qq.state[n] = "READY", qq.next[n] = c,
         NEW saved, Dispatch(qq, n, saved)
  PROVE  q'.fault = "none" /\ q'.state[n] = "RUNNING" /\ Settled(q', cur_process')
<1>1. TwoLists(qq) /\ LeftOn(qq, n) /\ WaitersLast(qq) /\ n # NULL /\ qq.state[Idle] = "RUNNING"
  BY NullAssumption DEF TwoLists, LeftOn, WaitersLast, IdleLost
<1>2. /\ q' \in QueueRecords /\ q'.fault = "none" /\ cur_process' = n /\ n # Idle
      /\ Ready(q') = Ready(qq) /\ Blocked(q') = Blocked(qq)
      /\ \A p \in PCB : q'.state[p] = IF p = n THEN "RUNNING" ELSE qq.state[p]
      /\ WaitersLast(q') /\ TwoLists(q') /\ LeftOn(q', n)
  BY <1>1, DispatchedOff
<1> QED BY <1>2 DEF Settled, Apart

LEMMA ListedCallSettles ==
  ASSUME ListInv, q.fault = "none", cur_process # Idle, RunnerListed(q, cur_process),
         IdleCall \/ ExitCall \/ WriteCall
  PROVE  q'.fault = "none" /\ Settled(q', cur_process') /\ KeepsReady
<1> DEFINE n == NextReady(q)
           r == NextRemoved(q)
           r2(s) == [r EXCEPT !.state[cur_process] = s]
<1>1. Performs
  BY DEF IdleCall, ExitCall, WriteCall
<1>2. ASSUME NEW s \in States
      PROVE  /\ n \in R3Set \ Blocked(q) /\ n \in PCB /\ n # cur_process /\ n # Idle
             /\ cur_process \in PCB \ Blocked(q) /\ q.state[cur_process] = "RUNNING"
             /\ \A p \in Ready(q) : q.state[p] = "READY" => p = n
             /\ r \in QueueRecords
             /\ r2(s) \in QueueRecords /\ r2(s).fault = "none" /\ r2(s).front["ready"] = cur_process
             /\ s = "RUNNING" => r.fault = "none" /\ PcbRemove(r, cur_process) = r /\ r2(s) = r
             /\ \A x \in PCB : r2(s).state[x] = IF x = cur_process THEN s ELSE q.state[x]
             /\ r2(s).next = q.next /\ q.next[n] = cur_process /\ q.next[cur_process] = NULL
             /\ q.state[n] = "READY" /\ InState(q, "BLOCKED") = {}
             /\ Ready(r2(s)) = {cur_process} /\ Linear(r2(s), "ready")
             /\ Blocked(r2(s)) = Blocked(q) /\ IdleLost(r2(s))
  BY <1>1, ListedCaller
<1>3. "READY" \in States /\ "RUNNING" \in States /\ "BLOCKED" \in States
  BY DEF States, ReadyStates, BlockedStates
<1>4. /\ CurMovedTo("READY") = PcbInsert(r2("READY"), cur_process)
      /\ CurMovedTo("BLOCKED") = PcbInsert(r2("BLOCKED"), cur_process)
  BY DEF CurMovedTo
<1>5. ASSUME q'.state[n] = "RUNNING" PROVE KeepsReady
  BY <1>2, <1>3, <1>5 DEF KeepsReady, InState
<1>6. CASE IdleCall
  <2> DEFINE qr == r2("READY")
             qq == PcbInsert(qr, cur_process)
  <2>0. qq.fault = "none" => Dispatch(qq, n, initial_context)
    <3>1. CurMovedTo("READY").fault = "none" => Dispatch(CurMovedTo("READY"), n, initial_context)
      BY <1>6 DEF IdleCall
    <3> QED BY <1>4, <3>1 DEF r2
  <2> HIDE DEF n, r, r2
  <2>1. /\ qr \in QueueRecords /\ qr.fault = "none" /\ qr.front["ready"] = cur_process
        /\ \A x \in PCB : qr.state[x] = IF x = cur_process THEN "READY" ELSE q.state[x]
        /\ qr.next = q.next /\ Blocked(qr) = Blocked(q) /\ IdleLost(qr)
    BY <1>2, <1>3
  <2>2. /\ n \in PCB \ Blocked(q) /\ n # cur_process /\ cur_process \in PCB \ Blocked(q)
        /\ q.next[n] = cur_process /\ q.next[cur_process] = NULL
        /\ q.state[n] = "READY" /\ InState(q, "BLOCKED") = {}
    BY <1>2, <1>3
  <2> HIDE DEF qr
  <2>3. /\ qq \in QueueRecords /\ qq.fault = "none" /\ qq.state = qr.state
        /\ qq.front = qr.front /\ qq.next = qr.next
        /\ Ready(qq) = {cur_process} /\ Linear(qq, "ready") /\ Blocked(qq) = Blocked(qr)
        /\ Linear(qr, "blocked") => Linear(qq, "blocked")
    BY <2>1, <2>2, JoinsItself
  <2> HIDE DEF qq
  <2>4. IdleLost(qq) /\ InState(qq, "BLOCKED") = {}
    BY <2>1, <2>2, <2>3 DEF IdleLost, InState
  <2>5. q'.fault = "none" /\ q'.state[n] = "RUNNING" /\ Settled(q', cur_process')
    BY <2>0, <2>1, <2>2, <2>3, <2>4, ListedDispatch
  <2> QED BY <1>5, <2>5
<1>7. CASE ExitCall
  <2>0. r.fault = "none" /\ PcbRemove(r, cur_process) = r /\ r2("RUNNING") = r
    BY <1>2, <1>3
  <2>1. Dispatch(r, n, initial_context)
    BY <1>7, <2>0 DEF ExitCall
  <2> HIDE DEF n, r, r2
  <2>2. /\ r \in QueueRecords /\ r.front["ready"] = cur_process
        /\ \A x \in PCB : r.state[x] = IF x = cur_process THEN "RUNNING" ELSE q.state[x]
        /\ r.next = q.next /\ Blocked(r) = Blocked(q) /\ IdleLost(r)
        /\ Ready(r) = {cur_process} /\ Linear(r, "ready")
        /\ n \in PCB \ Blocked(q) /\ n # cur_process /\ cur_process \in PCB \ Blocked(q)
        /\ q.next[n] = cur_process
        /\ q.state[n] = "READY" /\ InState(q, "BLOCKED") = {}
    BY <1>2, <1>3, <2>0
  <2>3. InState(r, "BLOCKED") = {}
    BY <2>2 DEF InState
  <2>4. q'.fault = "none" /\ q'.state[n] = "RUNNING" /\ Settled(q', cur_process')
    BY <2>0, <2>1, <2>2, <2>3, ListedDispatch
  <2> QED BY <1>5, <2>4
<1>8. CASE WriteCall
  <2> DEFINE qr == r2("BLOCKED")
             qq == PcbInsert(qr, cur_process)
  <2>0. qq.fault = "none" => Dispatch(qq, n, initial_context)
    <3>1. CurMovedTo("BLOCKED").fault = "none" => Dispatch(CurMovedTo("BLOCKED"), n, initial_context)
      BY <1>8 DEF WriteCall
    <3> QED BY <1>4, <3>1 DEF r2
  <2> HIDE DEF n, r, r2
  <2>1. /\ qr \in QueueRecords /\ qr.fault = "none" /\ qr.front["ready"] = cur_process
        /\ \A x \in PCB : qr.state[x] = IF x = cur_process THEN "BLOCKED" ELSE q.state[x]
        /\ Blocked(qr) = Blocked(q) /\ IdleLost(qr)
        /\ n \in R3Set /\ n \in PCB /\ n # cur_process /\ n # Idle /\ cur_process \in PCB \ Blocked(q) /\ n \notin Blocked(q)
        /\ q.state[n] = "READY"
    BY <1>2, <1>3
  <2> HIDE DEF qr
  <2>2. qr.state[cur_process] = "BLOCKED"
    BY <2>1
  <2>3. /\ qq \in QueueRecords /\ qq.fault = "none" /\ qq.state = qr.state
        /\ qq.front = qr.front /\ IdleLost(qq) /\ Blocked(qq) = Blocked(qr) \union {cur_process}
        /\ qq.next[cur_process] = NULL
    BY <2>1, <2>2, JoinsBlocked
  <2> HIDE DEF qq
  <2>4. Ready(qq) = {cur_process}
    BY <2>1, <2>3, ListNames, ShortLists DEF Ready
  <2>5. /\ q' \in QueueRecords /\ q'.fault = "none" /\ cur_process' = n /\ n # Idle
        /\ q'.front = qq.front /\ q'.next = qq.next /\ Blocked(q') = Blocked(qq)
        /\ \A p \in PCB : q'.state[p] = IF p = n THEN "RUNNING" ELSE qq.state[p]
        /\ IdleLost(q')
    BY <2>0, <2>1, <2>3, <2>4, DispatchedOff DEF IdleLost
  <2>6. WaiterListed(q', n)
    BY <2>1, <2>2, <2>3, <2>5 DEF WaiterListed, InState
  <2>7. Settled(q', cur_process') /\ q'.state[n] = "RUNNING"
    BY <2>1, <2>5, <2>6 DEF Settled
  <2> QED BY <1>5, <2>5, <2>7
<1> QED BY <1>6, <1>7, <1>8

LEMMA ListedReadSettles ==
  ASSUME ListInv, q.fault = "none", cur_process # Idle, RunnerListed(q, cur_process), ReadCall
  PROVE  q'.fault = "none" /\ Settled(q', cur_process') /\ KeepsAllButNext
<1> DEFINE n == NextReady(q)
           qr == [NextRemoved(q) EXCEPT !.state[cur_process] = "BLOCKED"]
           qq == PcbInsert(qr, cur_process)
<1>0. Performs /\ CurMovedTo("BLOCKED") = qq /\ "BLOCKED" \in States
  BY DEF ReadCall, CurMovedTo, States, BlockedStates
<1>1. /\ qr \in QueueRecords /\ qr.fault = "none" /\ qr.front["ready"] = cur_process
      /\ \A x \in PCB : qr.state[x] = IF x = cur_process THEN "BLOCKED" ELSE q.state[x]
      /\ Blocked(qr) = Blocked(q) /\ IdleLost(qr)
      /\ n \in R3Set /\ n \in PCB /\ n # cur_process /\ cur_process \in PCB \ Blocked(q)
      /\ q.state[n] = "READY" /\ \A p \in Ready(q) : q.state[p] = "READY" => p = n
  BY <1>0, ListedCaller
<1>1a. KeepsAllButNext
  BY <1>1 DEF KeepsAllButNext, InState
<1> HIDE DEF qr, n
<1>2. qr.state[cur_process] = "BLOCKED"
  BY <1>1
<1>3. /\ qq \in QueueRecords /\ qq.fault = "none" /\ qq.state = qr.state
      /\ qq.front = qr.front /\ IdleLost(qq)
      /\ qq.next[cur_process] = NULL
  BY <1>1, <1>2, JoinsBlocked
<1> HIDE DEF qq
<1>4. q' = qq /\ cur_process' = NULL
  BY <1>0, <1>3 DEF ReadCall
<1>5. WaiterListed(qq, NULL)
  BY <1>1, NullAssumption, <1>2, <1>3 DEF WaiterListed, InState, Blocked, OnList
<1> QED BY <1>1a, <1>3, <1>4, <1>5, BootAssumption, NullAssumption DEF Settled

-----------------------------------------------------------------------------
(***************************************************************************)
(* The three calls before that: kmain's first one, comhand's first write   *)
(* and idle's first call, the one that wakes comhand and loses idle.       *)
(***************************************************************************)
Unstarted ==
  /\ cpu = KMAIN /\ cur_process = NULL /\ initial_context = NULL
  /\ device1.event_flag = 0 /\ top[Comhand] = EntryPoint
  /\ q.front["ready"] = Comhand /\ q.front["blocked"] = NULL
  /\ q.next[Comhand] = Idle /\ q.next[Idle] = NULL
  /\ q.state[Comhand] = "READY" /\ q.state[Idle] = "READY"

ComhandStarted ==
  /\ cur_process = Comhand /\ initial_context = KMAIN /\ device1.event_flag = 0 /\ pc = EntryPoint
  /\ q.front["ready"] = Idle /\ q.front["blocked"] = NULL
  /\ q.next[Comhand] = Idle /\ q.next[Idle] = NULL
  /\ q.state[Idle] = "READY"

IdleStarted ==
  /\ cur_process = Idle /\ device1.event_flag = 1
  /\ q.front["ready"] = NULL /\ q.front["blocked"] = Comhand
  /\ q.next[Comhand] = Idle /\ q.next[Idle] = NULL
  /\ q.state[Comhand] = "BLOCKED"

\* createProc for comhand, then for idle: comhand first on the ready list.
LEMMA BootedLists ==
  ASSUME Init
  PROVE  /\ q.fault = "none"
         /\ q.front["ready"] = Comhand /\ q.front["blocked"] = NULL
         /\ q.next[Comhand] = Idle /\ q.next[Idle] = NULL
         /\ q.state[Comhand] = "READY" /\ q.state[Idle] = "READY"
<1> DEFINE created == [front |-> [l \in Lists |-> NULL], next |-> [p \in PCB |-> NULL],
                       state |-> [p \in PCB |-> IF p \in {Comhand, Idle} THEN "READY" ELSE "FREE"],
                       prio |-> PrioOf, fault |-> "none"]
           one == PcbInsert(created, Comhand)
           Stops == {r \in PCB : one.next[r] = NULL \/ one.prio[r] > one.prio[Idle]}
<1>0. Comhand \in PCB /\ Idle \in PCB /\ Comhand # Idle /\ Comhand # NULL /\ Idle # NULL
  BY BootAssumption, NullAssumption
<1>1. created \in QueueRecords
  BY PrioAssumption DEF QueueRecords, PcbOrNull, States, ReadyStates, Faults
<1>2. /\ created.fault = "none" /\ created.front["ready"] = NULL /\ created.front["blocked"] = NULL
      /\ \A p \in PCB : created.next[p] = NULL
      /\ created.state[Comhand] = "READY" /\ created.state[Idle] = "READY"
  BY <1>0, ListNames
<1>3. q = PcbInsert(one, Idle)
  BY DEF Init, BootQueues, one, created
<1> HIDE DEF created
<1>4. one = [created EXCEPT !.front["ready"] = Comhand]
  BY <1>2 DEF PcbInsert, LinkBehind, ReadyStates
<1>5. one \in QueueRecords /\ one.state = created.state
  BY <1>0, <1>1, InsertKeeps
<1> HIDE DEF one
<1>6. /\ one.fault = "none" /\ one.front["ready"] = Comhand /\ one.front["blocked"] = NULL
      /\ \A p \in PCB : one.next[p] = NULL
  BY <1>1, <1>2, <1>4, ListNames DEF QueueRecords
<1>7. FirstOf(one, "ready", Stops) = Comhand
  BY <1>0, <1>5, <1>6, ListNames, FrontIsFirst
<1>8. q = [one EXCEPT !.next = [[@ EXCEPT ![Comhand] = Idle] EXCEPT ![Idle] = one.next[Comhand]]]
  BY <1>0, <1>2, <1>3, <1>5, <1>6, <1>7 DEF PcbInsert, LinkBehind, ReadyStates
<1>9. /\ q.fault = one.fault /\ q.front = one.front /\ q.state = one.state
      /\ q.next = [[one.next EXCEPT ![Comhand] = Idle] EXCEPT ![Idle] = one.next[Comhand]]
  BY <1>5, <1>8 DEF QueueRecords
<1>10. q.next[Comhand] = Idle /\ q.next[Idle] = NULL
  BY <1>0, <1>5, <1>6, <1>9 DEF QueueRecords
<1> QED BY <1>2, <1>5, <1>6, <1>9, <1>10

\* The front of the ready list, when it is READY, is the one taken off.
LEMMA FrontLeaves ==
  ASSUME NEW qq \in QueueRecords, qq.fault = "none", NEW p \in PCB,
         qq.front["ready"] = p, qq.state[p] = "READY"
  PROVE  LET r == NextRemoved(qq)
         IN /\ NextReady(qq) = p
            /\ r \in QueueRecords /\ r.fault = "none" /\ r.state = qq.state /\ r.next = qq.next
            /\ r.front["ready"] = qq.next[p] /\ r.front["blocked"] = qq.front["blocked"]
<1> DEFINE r == NextRemoved(qq)
<1>1. p \in InState(qq, "READY") /\ p # NULL
  BY NullAssumption DEF InState
<1>2. NextReady(qq) = p /\ ~Hangs(qq, "ready", InState(qq, "READY"))
  BY <1>1, ListNames, FrontIsFirst DEF NextReady
<1>3. r = [qq EXCEPT !.front["ready"] = qq.next[p]]
  BY <1>1, <1>2 DEF NextRemoved, PcbRemove, Unlink, ReadyStates
<1>4. r \in QueueRecords /\ r.state = qq.state
  BY NextRemovedKeeps
<1> HIDE DEF r
<1>5. /\ r.fault = "none" /\ r.next = qq.next
      /\ r.front["ready"] = qq.next[p] /\ r.front["blocked"] = qq.front["blocked"]
  BY <1>3, ListNames DEF QueueRecords
<1> QED BY <1>2, <1>4, <1>5 DEF r

LEMMA RunningAssigned ==
  ASSUME NEW qq \in QueueRecords, NEW n \in PCB, NEW saved, Dispatch(qq, n, saved)
  PROVE  /\ q' \in QueueRecords /\ q'.fault = qq.fault /\ q'.front = qq.front /\ q'.next = qq.next
         /\ cur_process' = n
         /\ \A p \in PCB : q'.state[p] = IF p = n THEN "RUNNING" ELSE qq.state[p]
<1>1. n # NULL /\ "RUNNING" \in States
  BY NullAssumption DEF States
<1>2. q' = [qq EXCEPT !.state[n] = "RUNNING"] /\ cur_process' = n
  BY <1>1 DEF Dispatch
<1>3. q' \in QueueRecords /\ q'.state = [qq.state EXCEPT ![n] = "RUNNING"]
  BY <1>1, <1>2, StateAssigned
<1> QED BY <1>2, <1>3 DEF QueueRecords

LEMMA ComhandStarts ==
  ASSUME ListInv, q.fault = "none", Unstarted, SaveContext
  PROVE  /\ q'.fault = "none" /\ cur_process' = Comhand /\ initial_context' = KMAIN
         /\ device1'.event_flag = 0
         /\ q'.front["ready"] = Idle /\ q'.front["blocked"] = NULL
         /\ q'.next[Comhand] = Idle /\ q'.next[Idle] = NULL
         /\ q'.state[Idle] = "READY"
         /\ KeepsReady
<1> DEFINE n == NextReady(q)
           r == NextRemoved(q)
<1>0. /\ Comhand \in PCB /\ Idle \in PCB /\ Comhand # Idle /\ q \in QueueRecords
      /\ QueuesAfterEvent = q /\ DevicesAfterEvent = {device1}
  BY BootAssumption DEF ListInv, IInv, TypeOK, Unstarted, QueuesAfterEvent, DevicesAfterEvent
<1>1. /\ n = Comhand
      /\ r \in QueueRecords /\ r.fault = "none" /\ r.state = q.state /\ r.next = q.next
      /\ r.front["ready"] = q.next[Comhand] /\ r.front["blocked"] = q.front["blocked"]
  BY <1>0, FrontLeaves DEF Unstarted
<1> HIDE DEF n, r
<1>2. Dispatch(r, n, cpu) /\ device1' = device1 /\ initial_context' = cpu
  BY <1>0, <1>1 DEF SaveContext, Dispatch, n, r
<1>3. /\ q' \in QueueRecords /\ q'.fault = r.fault /\ q'.front = r.front /\ q'.next = r.next
      /\ cur_process' = n
      /\ \A p \in PCB : q'.state[p] = IF p = n THEN "RUNNING" ELSE r.state[p]
  BY <1>0, <1>1, <1>2, RunningAssigned
<1>4. Ready(q) = {Comhand, Idle} /\ Ready(q') = {Idle}
  BY <1>0, <1>1, <1>3, ListNames, ShortLists DEF Ready, Unstarted
<1>5. KeepsReady
  BY <1>0, <1>1, <1>3, <1>4 DEF KeepsReady
<1> QED BY <1>0, <1>1, <1>2, <1>3, <1>5 DEF Unstarted

LEMMA IdleStarts ==
  ASSUME ListInv, q.fault = "none", ComhandStarted, WriteCall
  PROVE  q'.fault = "none" /\ IdleStarted' /\ KeepsReady
<1> DEFINE n == NextReady(q)
           r == NextRemoved(q)
           r2 == [r EXCEPT !.state[cur_process] = "BLOCKED"]
           qq == PcbInsert(r2, cur_process)
<1>0. /\ Comhand \in PCB /\ Idle \in PCB /\ Comhand # Idle /\ q \in QueueRecords
      /\ cur_process = Comhand /\ "BLOCKED" \in States
  BY BootAssumption DEF ListInv, IInv, TypeOK, ComhandStarted, States, BlockedStates
<1>1. /\ n = Idle
      /\ r \in QueueRecords /\ r.fault = "none" /\ r.state = q.state /\ r.next = q.next
      /\ r.front["ready"] = NULL /\ r.front["blocked"] = NULL
  BY <1>0, FrontLeaves DEF ComhandStarted
<1> HIDE DEF n, r
<1>2. r2 \in QueueRecords /\ r2.state = [r.state EXCEPT ![Comhand] = "BLOCKED"]
  BY <1>0, <1>1, StateAssigned
<1>3. r2.fault = "none" /\ r2.next = q.next /\ r2.front = r.front
  BY <1>1 DEF QueueRecords
<1>4. CurMovedTo("BLOCKED") = qq
  BY DEF CurMovedTo, r
<1> HIDE DEF r2
<1>5. r2.state[Comhand] = "BLOCKED" /\ r2.state[Idle] = "READY"
  BY <1>0, <1>1, <1>2 DEF QueueRecords, ComhandStarted
<1>6. qq = [r2 EXCEPT !.front["blocked"] = Comhand]
  BY <1>0, <1>1, <1>3, <1>5 DEF PcbInsert, LinkBehind, ReadyStates, BlockedStates
<1>7. qq \in QueueRecords /\ qq.state = r2.state
  BY <1>0, <1>2, InsertKeeps
<1> HIDE DEF qq
<1>8. /\ qq.fault = "none" /\ qq.next = q.next
      /\ qq.front["ready"] = NULL /\ qq.front["blocked"] = Comhand
  BY <1>1, <1>2, <1>3, <1>6, ListNames DEF QueueRecords
<1>9. Dispatch(qq, n, initial_context) /\ device1' \in IoScheduler("WRITE")
  BY <1>4, <1>8 DEF WriteCall, n
<1>10. device1'.event_flag = 1
  BY <1>9, IoSchedulerStarts DEF ListInv, IInv, ComhandStarted
<1>11. /\ q' \in QueueRecords /\ q'.fault = qq.fault /\ q'.front = qq.front /\ q'.next = qq.next
       /\ cur_process' = n
       /\ \A p \in PCB : q'.state[p] = IF p = n THEN "RUNNING" ELSE qq.state[p]
  BY <1>0, <1>1, <1>7, <1>9, RunningAssigned
<1>12. Ready(q) = {Idle}
  BY <1>0, ListNames, ShortLists DEF Ready, ComhandStarted
<1>13. KeepsReady
  BY <1>0, <1>1, <1>11, <1>12 DEF KeepsReady
<1>14. IdleStarted'
  BY <1>0, <1>1, <1>5, <1>7, <1>8, <1>10, <1>11 DEF IdleStarted, ComhandStarted
<1> QED BY <1>8, <1>11, <1>13, <1>14

\* Comhand is woken, taken from the front of the blocked list it shares with
\* idle: both lists begin with idle from here on.
LEMMA IdleIsLost ==
  ASSUME ListInv, q.fault = "none", IdleStarted, SaveContext
  PROVE  q'.fault = "none" /\ Settled(q', cur_process') /\ KeepsReady
<1> DEFINE removed == PcbRemove(q, Comhand)
           readied == [removed EXCEPT !.state[Comhand] = "READY"]
           w == QueuesAfterEvent
           n == NextReady(w)
           r == NextRemoved(w)
<1>0. /\ Comhand \in PCB /\ Idle \in PCB /\ Comhand # Idle /\ Comhand # NULL /\ Idle # NULL
      /\ q \in QueueRecords
      /\ device1.event_flag = 1 /\ device1.iocb_queue = <<>> /\ "READY" \in States
      /\ q.state[Idle] = "RUNNING" /\ q.state[Comhand] = "BLOCKED"
  BY BootAssumption, NullAssumption
     DEF ListInv, IInv, TypeOK, IdleStarted, IocbQueueUnused, CurIsOnCpu, States, ReadyStates
<1>1. InState(q, "BLOCKED") = {Comhand}
  BY <1>0 DEF ListInv, IInv, OneSleeper, InState
<1>2. Sleeper = Comhand /\ ~Hangs(q, "blocked", InState(q, "BLOCKED"))
  BY <1>0, <1>1, ListNames, FrontIsFirst DEF Sleeper, IdleStarted
<1>3. w = PcbInsert(readied, Comhand)
  BY <1>0, <1>2 DEF QueuesAfterEvent, IocbProcessInserted, SleeperReadied
<1>4. removed = [q EXCEPT !.front["blocked"] = Idle]
  BY <1>0 DEF PcbRemove, Unlink, IdleStarted, ReadyStates, BlockedStates
<1>5. removed \in QueueRecords /\ removed.state = q.state
  BY <1>0, RemoveKeeps DEF PcbOrNull
<1> HIDE DEF removed
<1>6. /\ removed.fault = "none" /\ removed.next = q.next
      /\ removed.front["ready"] = NULL /\ removed.front["blocked"] = Idle
  BY <1>0, <1>4, ListNames DEF QueueRecords, IdleStarted
<1>7. readied \in QueueRecords /\ readied.state = [removed.state EXCEPT ![Comhand] = "READY"]
  BY <1>0, <1>5, StateAssigned
<1>8. readied.fault = "none" /\ readied.next = q.next /\ readied.front = removed.front
  BY <1>5, <1>6 DEF QueueRecords
<1> HIDE DEF readied
<1>9. \A p \in PCB : readied.state[p] = IF p = Comhand THEN "READY" ELSE q.state[p]
  BY <1>0, <1>5, <1>7 DEF QueueRecords
<1> HIDE DEF w
<1>10. w = [readied EXCEPT !.front["ready"] = Comhand]
  BY <1>0, <1>3, <1>6, <1>8, <1>9 DEF PcbInsert, LinkBehind, ReadyStates
<1>11. w \in QueueRecords /\ w.state = readied.state
  BY <1>0, <1>3, <1>7, InsertKeeps
<1>12. /\ w.fault = "none" /\ w.next = q.next
       /\ w.front["ready"] = Comhand /\ w.front["blocked"] = Idle
  BY <1>6, <1>7, <1>8, <1>10, ListNames DEF QueueRecords
<1>13. /\ n = Comhand
       /\ r \in QueueRecords /\ r.fault = "none" /\ r.state = w.state /\ r.next = w.next
       /\ r.front["ready"] = w.next[Comhand] /\ r.front["blocked"] = w.front["blocked"]
  BY <1>0, <1>9, <1>11, <1>12, FrontLeaves
<1> HIDE DEF n, r
<1>14. Dispatch(r, n, cpu)
  BY <1>13 DEF SaveContext, n, r, w
<1>15. /\ q' \in QueueRecords /\ q'.fault = r.fault /\ q'.front = r.front /\ q'.next = r.next
       /\ cur_process' = n
       /\ \A p \in PCB : q'.state[p] = IF p = n THEN "RUNNING" ELSE r.state[p]
  BY <1>0, <1>13, <1>14, RunningAssigned
<1>16. q'.front["ready"] = Idle /\ q'.front["blocked"] = Idle /\ q'.next[Idle] = NULL
  BY <1>12, <1>13, <1>15 DEF IdleStarted
<1>17. Ready(q') = {Idle} /\ Linear(q', "blocked")
  BY <1>0, <1>15, <1>16, ListNames, ShortLists DEF Ready
<1>18. q'.state[Idle] = "RUNNING" /\ InState(q', "BLOCKED") = {}
  BY <1>0, <1>1, <1>9, <1>11, <1>13, <1>15 DEF InState
<1>19. OneList(q') /\ WaitersLast(q')
  BY <1>16, <1>17, <1>18 DEF OneList, IdleLost, WaitersLast
<1>20. Ready(q) = {}
  BY <1>0, ListNames, ShortLists DEF Ready, IdleStarted
<1> QED BY <1>0, <1>13, <1>15, <1>19, <1>20 DEF Settled, KeepsReady

-----------------------------------------------------------------------------
\* loadR3: a new process joins the ready list, at its only place or at none.
LEMMA CreateProcSettles ==
  ASSUME ListInv, q.fault = "none", Booted, Loading, NEW p \in PCB, CreateProc(p)
  PROVE  /\ q'.fault = "none" /\ KeepsReady
         /\ UNCHANGED <<cur_process, initial_context, device1, cpu>>
         /\ OneList(q') \/ Apart(q', cur_process)
<1> DEFINE readied == [q EXCEPT !.state[p] = "READY"]
           qq == PcbInsert(readied, p)
<1>1. /\ q \in QueueRecords /\ q.state[p] = "FREE" /\ p # NULL /\ "READY" \in States
      /\ FreeUnlinked(q)
  BY NullAssumption DEF ListInv, IInv, TypeOK, CreateProc, LinksOK, States, ReadyStates
<1>2. cur_process = NULL \/ (cur_process = Comhand /\ q.state[Comhand] = "RUNNING")
  BY DEF Loading, ListInv, IInv, CurIsOnCpu
<1>3. /\ p \notin Ready(q) \union Blocked(q) /\ q.next[p] = NULL /\ p # cur_process
      /\ Ready(q) \subseteq PCB
  <2>1. p \notin Ready(q) \union Blocked(q)
    BY <1>1, ListNames, ListedIsAllocated DEF Ready, Blocked, InState
  <2>2. q.next[p] = NULL
    BY <1>1 DEF FreeUnlinked, InState
  <2> QED BY <1>1, <1>2, <2>1, <2>2 DEF Ready, OnList
<1>4. OneList(q) \/ Apart(q, cur_process)
  BY DEF Booted
<1>5. p # Idle
  BY <1>1, <1>4 DEF OneList, Apart, TwoLists, IdleLost
<1>6. ~FindHangs(q, NameOf[p])
  <2>1. \A list \in Lists : Linear(q, list)
    BY <1>1, <1>4, OneListIsReady DEF Lists, OneList, Apart, TwoLists, IdleLost
  <2> QED BY <1>1, <2>1, ListNames, LinearEnds DEF FindHangs, SearchedList
<1>7. CASE PcbFind(q, NameOf[p]) # NULL
  <2>1. q' = q /\ UNCHANGED <<cur_process, initial_context, device1, cpu>>
    BY <1>6, <1>7 DEF CreateProc
  <2> QED BY <1>4, <2>1 DEF KeepsReady
<1>8. CASE PcbFind(q, NameOf[p]) = NULL
  <2>1. /\ readied \in QueueRecords /\ readied.fault = "none" /\ readied.next = q.next
        /\ readied.state = [q.state EXCEPT ![p] = "READY"]
        /\ Ready(readied) = Ready(q) /\ Blocked(readied) = Blocked(q)
        /\ OneList(q) => OneList(readied)
        /\ TwoLists(q) => TwoLists(readied)
    BY <1>1, <1>3, <1>5, StateOff
  <2>2. qq.fault = "none" => q' = qq /\ UNCHANGED <<cur_process, initial_context, device1, cpu>>
    BY <1>6, <1>8 DEF CreateProc
  <2> HIDE DEF readied
  <2>3. \A x \in PCB : readied.state[x] = IF x = p THEN "READY" ELSE q.state[x]
    BY <1>1, <2>1 DEF QueueRecords
  <2>4. OneList(readied) \/ (TwoLists(readied) /\ p \notin Blocked(readied))
    BY <1>3, <1>4, <2>1 DEF Apart
  <2>5. /\ qq \in QueueRecords /\ qq.fault = "none" /\ qq.state = readied.state
        /\ Ready(qq) = Ready(readied) \union {p}
        /\ OneList(readied) => OneList(qq)
        /\ TwoLists(readied) => TwoLists(qq) /\ Blocked(qq) = Blocked(readied)
        /\ \A x \in PCB \ (Ready(readied) \union {p}) : qq.next[x] = readied.next[x]
    BY <1>3, <2>1, <2>3, <2>4, JoinsReady
  <2> HIDE DEF qq
  <2>6. KeepsReady
    BY <2>1, <2>2, <2>5 DEF KeepsReady
  <2>7. Apart(q, cur_process) => Apart(qq, cur_process)
    <3> SUFFICES ASSUME Apart(q, cur_process) PROVE Apart(qq, cur_process)
      OBVIOUS
    <3>1. cur_process \notin R3Set
      BY <1>2, R3AreOthers, NullAssumption
    <3>2. TwoLists(qq) /\ cur_process \notin Ready(qq) \union Blocked(qq)
      BY <1>3, <2>1, <2>5 DEF Apart
    <3>3. ASSUME NEW x \in InState(qq, "BLOCKED") PROVE qq.next[x] = NULL
      <4>1. x \in PCB /\ x # p /\ x \in InState(q, "BLOCKED")
        BY <2>3, <2>5, <3>3 DEF InState
      <4>2. x \notin Ready(q)
        BY <4>1 DEF Apart, TwoLists, InState
      <4> QED BY <2>1, <2>5, <4>1, <4>2 DEF Apart, WaitersLast
    <3> QED BY <3>1, <3>2, <3>3 DEF Apart, WaitersLast
  <2> QED BY <1>4, <2>1, <2>2, <2>5, <2>6, <2>7
<1> QED BY <1>7, <1>8

\* sht_dwn: from here on the two lists have nothing in common.
LEMMA ClearsSettles ==
  ASSUME ListInv, q.fault = "none", Booted, ComhandAt({Clears}), ReadyCleared
  PROVE  q'.fault = "none" /\ Settled(q', cur_process')
<1>1. q \in QueueRecords /\ cpu = Comhand /\ pc = Clears /\ cur_process' = cur_process
  BY DEF ListInv, IInv, TypeOK, ComhandAt, ReadyCleared
<1>2. ~Loading /\ pc # Writes
  BY <1>1, R3Assumption DEF Loading, Clears, Writes, Loads
<1>3. q' = [q EXCEPT !.front["ready"] = NULL]
  BY DEF ReadyCleared
<1>4. /\ q' \in QueueRecords /\ q'.fault = "none" /\ q'.next = q.next /\ q'.state = q.state
      /\ q'.front["ready"] = NULL /\ q'.front["blocked"] = q.front["blocked"]
  BY <1>1, <1>3, ListNames DEF QueueRecords, PcbOrNull
<1>5. cur_process = NULL \/ (cur_process = Comhand /\ q.state[Comhand] = "RUNNING")
  BY <1>1 DEF ListInv, IInv, CurIsOnCpu
<1>6. IdleLost(q) /\ cur_process # Idle
  BY DEF Booted, OneList, Apart, TwoLists, RunnerListed, WaiterListed
<1>7. Ready(q') = {} /\ Linear(q', "ready")
  BY <1>4, ListNames, ShortLists DEF Ready
<1>8. Blocked(q') = Blocked(q) /\ Linear(q', "blocked")
  BY <1>1, <1>4, <1>6, ListNames, SameOnList DEF Blocked, IdleLost
<1>9. TwoLists(q')
  BY <1>4, <1>6, <1>7, <1>8 DEF TwoLists, IdleLost
<1>10. WaitersLast(q) /\ cur_process \notin Blocked(q)
  <2>1. CASE OneList(q) /\ WaitersLast(q)
    <3>1. Ready(q) = Blocked(q)
      BY <1>1, <2>1, OneListIsReady
    <3>2. NULL \notin Blocked(q)
      BY NullAssumption DEF Blocked, OnList
    <3> QED BY <1>5, <1>6, <2>1, <3>1, <3>2 DEF OneList
  <2>2. CASE Apart(q, cur_process)
    BY <2>2 DEF Apart
  <2>3. CASE RunnerListed(q, cur_process)
    BY <2>3 DEF RunnerListed, WaitersLast
  <2>4. CASE WaiterListed(q, cur_process)
    <3>1. PICK p \in InState(q, "BLOCKED") : q.next[p] = NULL
      BY <2>4 DEF WaiterListed
    <3>2. InState(q, "BLOCKED") = {p}
      BY <3>1 DEF ListInv, IInv, OneSleeper
    <3> QED BY <2>4, <3>1, <3>2 DEF WaitersLast, WaiterListed
  <2> QED BY <1>2, <2>1, <2>2, <2>3, <2>4 DEF Booted
<1>11. WaitersLast(q')
  BY <1>4, <1>10 DEF WaitersLast, InState
<1>12. cur_process \notin R3Set
  BY <1>5, R3AreOthers, NullAssumption
<1> QED BY <1>1, <1>4, <1>6, <1>7, <1>8, <1>9, <1>10, <1>11, <1>12 DEF Settled, Apart

-----------------------------------------------------------------------------
\* A READ returns to its caller and forgets the process it took off the ready list.
ReadDrops(op) == op = "READ" /\ Performs /\ cpu' = cpu /\ KeepsAllButNext

\* Every request of a program, from every shape.
LEMMA RequestSettles ==
  ASSUME ListInv, q.fault = "none", Booted, NEW op, op # "INVALID", Requested(op),
         op = "IDLE" /\ Performs => cur_process \in R3Set
  PROVE  /\ q'.fault = "none" /\ Settled(q', cur_process')
         /\ KeepsReady \/ ReadDrops(op)
<1>1. CASE SaveContext
  BY <1>1, SaveContextSettles
<1>2. ASSUME Performs PROVE Tidy \/ RunnerListed(q, cur_process)
  BY <1>2, PerformsFacts DEF ListInv, Booted, Tidy, WaiterListed
<1>3. cur_process # Idle
  BY DEF Booted
<1>4. CASE op = "IDLE" /\ IdleCall
  <2>1. Performs
    BY <1>4 DEF IdleCall
  <2> QED BY <1>2, <1>3, <1>4, <2>1, TidyIdleSettles, ListedCallSettles
<1>5. CASE ExitCall
  <2>1. Performs
    BY <1>5 DEF ExitCall
  <2> QED BY <1>2, <1>3, <1>5, <2>1, TidyExitSettles, ListedCallSettles
<1>6. CASE WriteCall
  <2>1. Performs
    BY <1>6 DEF WriteCall
  <2> QED BY <1>2, <1>3, <1>6, <2>1, TidyWriteSettles, ListedCallSettles
<1>7. CASE op = "READ" /\ ReadCall
  <2>1. Performs
    BY <1>7 DEF ReadCall
  <2>2. q'.fault = "none" /\ Settled(q', cur_process') /\ KeepsAllButNext
    BY <1>2, <1>3, <1>7, <2>1, TidyReadSettles, ListedReadSettles
  <2>3. cpu' = cpu
    BY <1>7 DEF ReadCall, Crash
  <2> QED BY <1>7, <2>1, <2>2, <2>3 DEF ReadDrops
<1> QED BY <1>1, <1>4, <1>5, <1>6, <1>7 DEF Requested

\* So does the call whose operation code an interrupt took.
LEMMA InvalidDrops ==
  ASSUME ListInv, q.fault = "none", Booted \/ ComhandStarted, InvalidCall
  PROVE  cpu' = cpu /\ cur_process' = cur_process /\ KeepsAllButNext
<1> DEFINE n == NextReady(q)
           r == NextRemoved(q)
<1>1. /\ Performs /\ cpu' = cpu /\ cur_process' = cur_process
      /\ q' = r \/ (r.fault # "none" /\ Crash(r))
  BY DEF InvalidCall, Crash
<1>2. q \in QueueRecords /\ "RUNNING" \in States
  BY DEF ListInv, IInv, TypeOK, States
<1>3. CASE Booted
  <2>1. cur_process # Idle /\ (Tidy \/ RunnerListed(q, cur_process))
    BY <1>1, <1>3, PerformsFacts DEF ListInv, Booted, Tidy, WaiterListed
  <2>2. CASE Tidy
    <3>1. r.fault = "none" /\ Ready(r) = Ready(q) \ {n}
      BY <1>1, <1>2, <2>1, <2>2, TidyCaller
    <3> QED BY <1>1, <3>1 DEF KeepsAllButNext
  <2>3. CASE RunnerListed(q, cur_process)
    <3>1. \A p \in Ready(q) : q.state[p] = "READY" => p = n
      BY <1>1, <1>2, <2>1, <2>3, ListedCaller
    <3> QED BY <1>1, <3>1 DEF KeepsAllButNext, InState
  <2> QED BY <2>1, <2>2, <2>3
<1>4. CASE ComhandStarted
  <2>1. n = Idle /\ Ready(q) = {Idle}
    BY <1>2, <1>4, BootAssumption, FrontLeaves, ListNames, ShortLists DEF ComhandStarted, Ready
  <2> QED BY <1>1, <2>1 DEF KeepsAllButNext
<1> QED BY <1>3, <1>4

\* A system call resumes nobody inside loadR3.
LEMMA CallLoadsNothing ==
  ASSUME MpxInv, ListInv', NEW op, NEW new \in Nat, cpu = Comhand => new \in CallPoints,
         Call(op, new), UNCHANGED lost, q'.fault = "none"
  PROVE  ~Loading'
<1>1. cpu' = Comhand => pc' \in CallPoints
  BY CallKeepsFrames DEF MpxInv, MpxTypeOK
<1>2. \A k \in 1..Len(R3) : Loads(k) \notin CallPoints
  BY R3Assumption DEF Loads, CallPoints, Garbage, Writes, Asks, Typed, SaysBye, Clears, Leaves
<1> QED BY <1>1, <1>2 DEF Loading

LEMMA BootedCall ==
  ASSUME MpxInv, ListInv', q.fault = "none", Booted, NEW op, op # "INVALID", NEW new \in Nat,
         cpu = Comhand => new \in CallPoints, Call(op, new), UNCHANGED lost,
         op = "IDLE" /\ Performs => cur_process \in R3Set
  PROVE  q'.fault = "none" /\ Booted' /\ (KeepsReady \/ ReadDrops(op))
<1>1. /\ q'.fault = "none" /\ Settled(q', cur_process')
      /\ KeepsReady \/ ReadDrops(op)
  BY RequestSettles DEF MpxInv, Call
<1>2. ~Loading'
  BY <1>1, CallLoadsNothing
<1>3. Booted'
  BY <1>1, <1>2 DEF Settled, Booted
<1> QED BY <1>1, <1>3

(***************************************************************************)
(* The invariant of the running system until an interrupt costs it an      *)
(* operation code or a loop counter, and what its steps may do, that very  *)
(* interrupt's included.                                                   *)
(***************************************************************************)
Healthy == q.fault = "none" /\ (Unstarted \/ ComhandStarted \/ IdleStarted \/ Booted)

RunInv == lost = 0 => Healthy \/ q.fault = "registers"

DropsReady == KeepsReady \/ (Performs /\ cpu' = cpu /\ KeepsAllButNext) \/ ComhandAt({Clears})

IdleOnlyAtBoot == cur_process' = Idle /\ cur_process # Idle => initial_context = KMAIN

\* A step that takes no register in use, once idle is lost.
LEMMA BootedStep ==
  ASSUME MpxInv, ListInv', q.fault = "none", Booted, Processor \/ Interrupt, UNCHANGED lost
  PROVE  Healthy' /\ Booted' /\ DropsReady
<1>0. /\ Comhand # Idle /\ Comhand # KMAIN /\ Idle # KMAIN /\ KMAIN \notin PCB
      /\ R3Set \subseteq PCB \ {Comhand, Idle} /\ pc \in Nat /\ cur_process # Idle /\ ListInv
      /\ lost \in Nat
  BY BootAssumption, R3AreOthers DEF MpxInv, MpxTypeOK, Booted
<1>1. Performs => cur_process = cpu /\ cpu \in PCB
  BY PerformsFacts, NullAssumption DEF MpxInv, ListInv, IInv, CurIsOnCpu
<1>1a. ~Loses
  BY <1>0 DEF Loses
<1>1b. \A op, new : SysReq(op, new) => Call(op, new)
  BY <1>1a DEF SysReq
<1>2. CASE Kmain
  <2>1. Call("IDLE", pc + 1) /\ pc + 1 \in Nat /\ ~Performs /\ cpu # Comhand
    BY <1>0, <1>1, <1>1b, <1>2 DEF Kmain
  <2> QED BY <2>1, BootedCall DEF Healthy, DropsReady, ReadDrops
<1>3. CASE IdleProcess
  <2>1. Call("IDLE", EntryPoint) /\ EntryPoint \in Nat /\ ~Performs /\ cpu # Comhand
    BY <1>0, <1>1, <1>1b, <1>3 DEF IdleProcess, EntryPoint
  <2> QED BY <2>1, BootedCall DEF Healthy, DropsReady, ReadDrops
<1>4. CASE R3Process
  <2>1. /\ cpu \in R3Set /\ cpu \in PCB /\ cpu # Comhand
        /\ Call(R3Request(cpu, pc), R3After(cpu, pc))
        /\ R3Request(cpu, pc) \notin {"READ", "INVALID"}
    BY <1>0, <1>1a, <1>1b, <1>4 DEF R3Process, R3Goes, R3LeavesLoop, R3Request
  <2>2. R3After(cpu, pc) \in Nat
    BY <1>0, <2>1, R3Assumption DEF R3After, ExitPoint
  <2> QED BY <1>1, <2>1, <2>2, BootedCall DEF Healthy, DropsReady, ReadDrops
<1>5. CASE ComhandProcess
  <2>1. ASSUME NEW op \in {"READ", "WRITE", "EXIT"}, NEW new \in CallPoints, SysReq(op, new)
        PROVE  Healthy' /\ Booted' /\ DropsReady
    <3>1. new \in Nat /\ Call(op, new)
      BY <1>1b, <2>1, PointsAreNumbers
    <3>2. q'.fault = "none" /\ Booted' /\ (KeepsReady \/ ReadDrops(op))
      BY <2>1, <3>1, BootedCall
    <3> QED BY <2>1, <3>2 DEF Healthy, DropsReady, ReadDrops
  <2>2. CASE ComhandWrites \/ ComhandReads \/ ShtDwnWrites \/ ShtDwnExits \/ ShtDwnRefuses
    BY <2>1, <2>2
       DEF CallPoints, ComhandWrites, ComhandReads, ShtDwnWrites, ShtDwnExits, ShtDwnRefuses
  <2>3. CASE LoadR3 \/ ShtDwn
    <3>1. /\ UNCHANGED vars /\ pc = Typed /\ cpu = Comhand
          /\ \/ pc' = SaysBye
             \/ Len(R3) > 0 /\ pc' = Loads(1) /\ \A p \in R3Set : q.state[p] = "FREE"
      BY <2>3 DEF LoadR3, ShtDwn, ComhandGoes, ComhandAt
    <3>2. q' = q /\ cur_process' = cur_process /\ cpu' = cpu
      BY <3>1 DEF vars
    <3>3. ~Loading /\ pc # Writes
      BY <3>1, R3Assumption DEF Loading, Typed, Writes, Loads
    <3>4. CASE OneList(q) /\ WaitersLast(q)
      BY <1>0, <3>2, <3>4 DEF Healthy, Booted, DropsReady, KeepsReady
    <3>5. CASE Apart(q, cur_process)
      BY <1>0, <3>2, <3>5 DEF Healthy, Booted, DropsReady, KeepsReady
    <3>6. CASE RunnerListed(q, cur_process) \/ WaiterListed(q, cur_process)
      <4>1. \E p \in R3Set : q.state[p] # "FREE"
        BY <3>6 DEF RunnerListed, WaiterListed
      <4>2. pc' = SaysBye
        BY <3>1, <4>1
      <4>3. ~Loading'
        BY <4>2, R3Assumption DEF Loading, SaysBye, Loads
      <4> QED BY <1>0, <3>2, <3>6, <4>3 DEF Healthy, Booted, DropsReady, KeepsReady
    <3> QED BY <3>3, <3>4, <3>5, <3>6 DEF Booted
  <2>4. CASE LoadR3Pcb
    <3>1. PICK k \in 1..Len(R3) :
             CreateProc(R3[k]) /\ ComhandGoes(Loads(k), IF k = Len(R3) THEN Writes ELSE Loads(k + 1))
      BY <2>4 DEF LoadR3Pcb
    <3>2. /\ cpu = Comhand /\ pc = Loads(k) /\ R3[k] \in PCB
          /\ pc' = Writes \/ \E j \in 1..Len(R3) : pc' = Loads(j)
      BY <3>1, R3Assumption DEF ComhandGoes, ComhandAt
    <3>3. Loading
      BY <3>2 DEF Loading
    <3>4. /\ q'.fault = "none" /\ KeepsReady
          /\ UNCHANGED <<cur_process, initial_context, device1, cpu>>
          /\ OneList(q') \/ Apart(q', cur_process)
      BY <1>0, <3>1, <3>2, <3>3, CreateProcSettles
    <3>5. cpu' = Comhand /\ (pc' = Writes \/ Loading')
      BY <3>2, <3>4 DEF Loading
    <3> QED BY <1>0, <3>4, <3>5 DEF Healthy, Booted, DropsReady
  <2>5. CASE ShtDwnClears
    <3>1. ComhandAt({Clears}) /\ ReadyCleared /\ pc' = Leaves
      BY <2>5 DEF ShtDwnClears, ComhandGoes
    <3>2. q'.fault = "none" /\ Settled(q', cur_process')
      BY <1>0, <3>1, ClearsSettles
    <3>3. ~Loading'
      BY <3>1, R3Assumption DEF Loading, Leaves, Loads
    <3> QED BY <3>1, <3>2, <3>3 DEF Settled, Booted, Healthy, DropsReady
  <2> QED BY <1>5, <2>2, <2>3, <2>4, <2>5 DEF ComhandProcess
<1>6. CASE Interrupt
  <2>1. UNCHANGED <<q, cur_process, cpu, pc>>
    BY <1>6 DEF Interrupt, OutputInterrupt, InputInterrupt
  <2> QED BY <2>1 DEF Healthy, Booted, Loading, DropsReady, KeepsReady
<1> QED BY <1>2, <1>3, <1>4, <1>5, <1>6 DEF Processor

\* Before idle is lost: kmain's call, comhand's first write, idle's first call.
LEMMA StartStep ==
  ASSUME MpxInv, ListInv', q.fault = "none", Unstarted \/ ComhandStarted \/ IdleStarted,
         Processor \/ Interrupt, UNCHANGED lost
  PROVE  Healthy' /\ DropsReady /\ IdleOnlyAtBoot
<1>0. /\ Comhand \in PCB /\ Idle \in PCB /\ Comhand # Idle /\ Comhand # KMAIN /\ Idle # KMAIN
      /\ KMAIN \notin PCB /\ Comhand # NULL /\ Idle # NULL
      /\ R3Set \subseteq PCB \ {Comhand, Idle} /\ pc \in Nat /\ ListInv /\ lost \in Nat
  BY BootAssumption, NullAssumption, R3AreOthers DEF MpxInv, MpxTypeOK
<1>0a. \A op, new : SysReq(op, new) => Call(op, new)
  BY <1>0 DEF SysReq, Loses
<1>0b. ~R3Process \/ cpu \in R3Set
  BY DEF R3Process, R3Goes, R3LeavesLoop
<1>1. /\ device1.event_flag = 0 => ~Interrupt
      /\ Interrupt => device1'.event_flag = 1 /\ UNCHANGED <<q, cur_process, cpu, pc>>
  <2>1. BusyIsFlagged /\ device1 \in Devices
    BY DEF MpxInv, ListInv, IInv, TypeOK
  <2>2. device1.event_flag = 0 => device1.status = "IDLE"
    BY <2>1 DEF BusyIsFlagged
  <2> QED BY <2>1, <2>2 DEF Interrupt, OutputInterrupt, InputInterrupt, Devices
<1>2. cur_process # NULL => cpu = cur_process
  BY DEF MpxInv, ListInv, IInv, CurIsOnCpu
<1>3. CASE Unstarted
  <2>1. cpu = KMAIN /\ cur_process = NULL /\ device1.event_flag = 0 /\ top[Comhand] = EntryPoint
    BY <1>3 DEF Unstarted
  <2>2. Kmain
    BY <1>0, <1>0b, <1>1, <2>1 DEF Processor, IdleProcess, ComhandProcess, ComhandAt,
       ComhandWrites, ComhandReads, LoadR3, LoadR3Pcb, ShtDwn, ShtDwnWrites, ShtDwnClears, ShtDwnExits,
       ShtDwnRefuses, ComhandGoes
  <2>3. SaveContext /\ Call("IDLE", pc + 1)
    BY <1>0a, <2>1, <2>2 DEF Kmain, Call, Requested, IdleCall, Performs
  <2>4. /\ q'.fault = "none" /\ cur_process' = Comhand /\ initial_context' = KMAIN
        /\ device1'.event_flag = 0
        /\ q'.front["ready"] = Idle /\ q'.front["blocked"] = NULL
        /\ q'.next[Comhand] = Idle /\ q'.next[Idle] = NULL
        /\ q'.state[Idle] = "READY" /\ KeepsReady
    BY <1>0, <1>3, <2>3, ComhandStarts
  <2>5. top' = top /\ pc' = top'[Comhand]
    BY <1>0, <2>1, <2>3, <2>4 DEF Call, Tops, Performs
  <2> QED BY <1>0, <2>1, <2>4, <2>5 DEF Healthy, ComhandStarted, DropsReady, IdleOnlyAtBoot
<1>4. CASE ComhandStarted
  <2>1. /\ cpu = Comhand /\ pc = Writes /\ device1.event_flag = 0 /\ cur_process # NULL
        /\ initial_context = KMAIN
    BY <1>0, <1>2, <1>4 DEF ComhandStarted, EntryPoint, Writes
  <2>2. ComhandWrites
    <3>1. Writes \notin {Asks, Typed, SaysBye, Clears, Leaves} /\ \A k \in 1..Len(R3) : Writes # Loads(k)
      BY R3Assumption DEF Writes, Asks, Typed, SaysBye, Clears, Leaves, Loads
    <3> QED BY <1>0, <1>0b, <1>1, <2>1, <3>1 DEF Processor, Kmain, IdleProcess,
               ComhandProcess, ComhandAt, ComhandReads, LoadR3, LoadR3Pcb, ShtDwn, ShtDwnWrites,
               ShtDwnClears, ShtDwnExits, ShtDwnRefuses, ComhandGoes
  <2>3. Requested("WRITE")
    BY <1>0a, <2>2 DEF ComhandWrites, Call
  <2>4. WriteCall
    BY <2>1, <2>3 DEF Requested, SaveContext
  <2> QED BY <1>0, <1>4, <2>1, <2>4, IdleStarts DEF Healthy, DropsReady, IdleOnlyAtBoot
<1>5. CASE IdleStarted
  <2>1. cpu = Idle /\ device1.event_flag = 1 /\ cur_process = Idle
    BY <1>0, <1>2, <1>5 DEF IdleStarted
  <2>2. CASE Interrupt
    BY <1>1, <1>5, <2>1, <2>2 DEF Healthy, IdleStarted, DropsReady, KeepsReady, IdleOnlyAtBoot
  <2>3. CASE ~Interrupt
    <3>1. IdleProcess
      BY <1>0, <1>0b, <2>1, <2>3 DEF Processor, Kmain, ComhandProcess, ComhandAt,
         ComhandWrites, ComhandReads, LoadR3, LoadR3Pcb, ShtDwn, ShtDwnWrites, ShtDwnClears, ShtDwnExits,
         ShtDwnRefuses, ComhandGoes
    <3>2. Call("IDLE", EntryPoint)
      BY <1>0a, <3>1 DEF IdleProcess
    <3>3. SaveContext
      BY <2>1, <3>2 DEF Call, Requested, IdleCall, Performs
    <3>4. q'.fault = "none" /\ Settled(q', cur_process') /\ KeepsReady
      BY <1>0, <1>5, <3>3, IdleIsLost
    <3>5. ~Loading'
      BY <1>0, <2>1, <3>2, <3>4, CallLoadsNothing DEF EntryPoint
    <3> QED BY <2>1, <3>4, <3>5 DEF Settled, Booted, Healthy, DropsReady, IdleOnlyAtBoot
  <2> QED BY <2>2, <2>3
<1> QED BY <1>3, <1>4, <1>5

\* The step in which an interrupt first takes an operation code or a loop counter.
LEMMA LosingStep ==
  ASSUME MpxInv, Healthy, Processor, lost = 0, lost' # 0
  PROVE  DropsReady /\ IdleOnlyAtBoot
<1>0. ListInv /\ R3Set \subseteq PCB \ {Comhand, Idle} /\ KMAIN \notin PCB /\ Comhand # NULL /\ Idle # NULL
  BY BootAssumption, NullAssumption, R3AreOthers DEF MpxInv
<1>1. ASSUME NEW op, NEW new, SysReq(op, new) PROVE DropsReady /\ IdleOnlyAtBoot
  <2>1. Performs /\ InvalidCall
    BY <1>1 DEF SysReq, Call, Requested, SaveContext, Performs, ListInv, IInv, TypeOK, Devices
  <2>2. Booted \/ ComhandStarted
    BY <2>1 DEF Healthy, Unstarted, IdleStarted, Performs
  <2>3. cpu' = cpu /\ cur_process' = cur_process /\ KeepsAllButNext
    BY <1>0, <2>1, <2>2, InvalidDrops DEF Healthy
  <2> QED BY <2>1, <2>3 DEF DropsReady, IdleOnlyAtBoot
<1>2. CASE R3LeavesLoop
  <2>1. cpu \in R3Set /\ Requested("EXIT")
    BY <1>2 DEF R3LeavesLoop, Call
  <2>2. cur_process # NULL => cpu = cur_process
    BY <1>0 DEF ListInv, IInv, CurIsOnCpu
  <2>3. Booted
    BY <1>0, <2>1, <2>2 DEF Healthy, Unstarted, ComhandStarted, IdleStarted
  <2>4. Settled(q', cur_process') /\ KeepsReady
    BY <1>0, <2>1, <2>3, RequestSettles DEF Healthy, ReadDrops
  <2> QED BY <2>4 DEF DropsReady, IdleOnlyAtBoot, Settled
<1>3. ASSUME NEW from, NEW to, ComhandGoes(from, to) PROVE FALSE
  BY <1>3 DEF ComhandGoes
<1>4. CASE ComhandProcess
  BY <1>1, <1>3, <1>4
     DEF ComhandProcess, ComhandWrites, ComhandReads, LoadR3, LoadR3Pcb, ShtDwn, ShtDwnWrites,
         ShtDwnClears, ShtDwnExits, ShtDwnRefuses
<1> QED BY <1>1, <1>2, <1>4 DEF Processor, Kmain, IdleProcess, R3Process, R3Goes

\* After an interrupt that took a register nothing follows.
LEMMA DerailedStands ==
  ASSUME q.fault = "registers", MpxNext
  PROVE  FALSE
<1>1. ~MakesCalls /\ ~Running /\ ~Performs
  BY DEF Running, MakesCalls, Performs
<1>2. \A op, new : ~SysReq(op, new) /\ ~Call(op, new)
  BY <1>1 DEF SysReq, Call, Requested, SaveContext, InvalidCall, IdleCall, ExitCall, WriteCall, ReadCall
<1>3. \A from, to : ~ComhandGoes(from, to)
  BY <1>1 DEF ComhandGoes
<1>4. ~Processor
  BY <1>2, <1>3
     DEF Processor, Kmain, IdleProcess, R3Process, R3Goes, R3LeavesLoop, ComhandProcess,
         ComhandWrites, ComhandReads, LoadR3, LoadR3Pcb, ShtDwn, ShtDwnWrites, ShtDwnClears,
         ShtDwnExits, ShtDwnRefuses
<1> QED BY <1>1, <1>4
        DEF MpxNext, Interrupt, OutputInterrupt, InputInterrupt, Derails, RegistersLost

LEMMA NextKeepsRun ==
  ASSUME RunInv, MpxInv, ListInv', [MpxNext]_mpx_vars
  PROVE  RunInv' /\ (lost = 0 => DropsReady /\ IdleOnlyAtBoot)
<1>0. lost \in Nat /\ q \in QueueRecords /\ (lost' = 0 => lost = 0)
  <2>1. lost \in Nat /\ q \in QueueRecords
    BY DEF MpxInv, MpxTypeOK, ListInv, IInv, TypeOK
  <2>2. UNCHANGED lost \/ Loses
    BY DEF MpxNext, Processor, Kmain, IdleProcess, R3Process, R3Goes, R3LeavesLoop, SysReq,
           ComhandProcess, ComhandWrites, ComhandReads, LoadR3, LoadR3Pcb, ShtDwn, ShtDwnWrites,
           ShtDwnClears, ShtDwnExits, ShtDwnRefuses, ComhandGoes, Interrupt, Derails, mpx_vars
  <2> QED BY <2>1, <2>2 DEF Loses
<1>1. CASE lost # 0
  BY <1>0, <1>1 DEF RunInv
<1>2. CASE UNCHANGED mpx_vars
  BY <1>2
     DEF mpx_vars, RunInv, Healthy, Unstarted, ComhandStarted, IdleStarted, Booted, Loading,
         DropsReady, KeepsReady, IdleOnlyAtBoot
<1>3. CASE lost = 0 /\ MpxNext
  <2>1. Healthy
    BY <1>3, DerailedStands DEF RunInv
  <2>2. CASE Derails
    <3>1. /\ q'.fault = "registers" /\ q'.front = q.front /\ q'.next = q.next
          /\ cur_process' = cur_process /\ q' \in QueueRecords
      BY <1>0, <2>2 DEF Derails, RegistersLost, Crash, Fail, QueueRecords, Faults
    <3>2. Ready(q') = Ready(q)
      BY <1>0, <3>1, ListNames, SameOnList DEF Ready
    <3> QED BY <3>1, <3>2 DEF RunInv, DropsReady, KeepsReady, IdleOnlyAtBoot
  <2>3. CASE (Processor \/ Interrupt) /\ UNCHANGED lost
    <3>1. CASE Booted
      <4>1. Healthy' /\ Booted' /\ DropsReady
        BY <2>1, <2>3, <3>1, BootedStep DEF Healthy
      <4> QED BY <4>1 DEF Booted, RunInv, IdleOnlyAtBoot
    <3>2. CASE Unstarted \/ ComhandStarted \/ IdleStarted
      BY <2>1, <2>3, <3>2, StartStep DEF Healthy, RunInv
    <3> QED BY <2>1, <3>1, <3>2 DEF Healthy
  <2>4. CASE Processor /\ ~UNCHANGED lost
    BY <1>3, <2>1, <2>4, LosingStep DEF RunInv
  <2>5. Interrupt => UNCHANGED lost
    BY DEF Interrupt
  <2> QED BY <1>3, <2>2, <2>3, <2>4, <2>5 DEF MpxNext
<1> QED BY <1>1, <1>2, <1>3

LEMMA InitRuns == MpxInit => RunInv
<1> SUFFICES ASSUME MpxInit PROVE RunInv
  OBVIOUS
<1> QED BY BootedLists, BootAssumption DEF MpxInit, Init, CreateDcb, RunInv, Healthy, Unstarted

\* From boot on, and whatever the priorities, the names and the number of test
\* processes and of their rounds, the two lists have one of these shapes, until an
\* interrupt takes a register in use.
THEOREM RunInvariance == MpxSpec => []RunInv
<1>1. RunInv /\ MpxInv /\ ListInv' /\ [MpxNext]_mpx_vars => RunInv'
  BY NextKeepsRun
<1> QED BY <1>1, InitRuns, FrameInvariance, KernelInvariance, PTL DEF MpxSpec

\* Until an interrupt takes a register in use (irq.s:45), no walk along a list
\* goes round a cycle and no NULL pointer is followed (pcb.c:198, 244, 272;
\* isr.c:41, 102), whatever the programs call and whenever the interrupts come.
THEOREM SystemSurvives == MpxSpec => []KernelSurvives
<1>1. RunInv /\ MpxInv => KernelSurvives
  BY DEF RunInv, Healthy, KernelSurvives, MpxInv, MpxTypeOK
<1> QED BY <1>1, RunInvariance, FrameInvariance, PTL

\* Idle is dispatched by comhand's first write, before any event, and never again,
\* however few processes are ready (isr.c:117, 178): until an operation code or a
\* loop counter is lost, and by the step that loses it.
THEOREM IdleRunsOnce == MpxSpec => IdleRunsAtBoot
<1>1. RunInv /\ MpxInv /\ ListInv' /\ [MpxNext]_mpx_vars
        => [lost = 0 => IdleOnlyAtBoot]_mpx_vars
  BY NextKeepsRun
<1> QED BY <1>1, RunInvariance, FrameInvariance, KernelInvariance, PTL
           DEF MpxSpec, IdleRunsAtBoot, IdleOnlyAtBoot

DropStep == lost = 0 =>
              \A p \in InState(q, "READY") \intersect OnList(q, "ready") :
                q'.state[p] = "READY" /\ p \notin OnList(q', "ready") =>
                  \/ Performs /\ cpu' = cpu /\ p = NextReady(q)
                  \/ ComhandAt({Clears})

\* Whatever the interleaving, a process that can be dispatched is forgotten only
\* by a call that returns to its caller, and then only the one that call unlinked
\* (isr.c:112, 146, 164), or by sht_dwn: not by a wake-up, nor by an insertion
\* behind a `next` left over from before.
THEOREM DispatchableStays == MpxSpec => DroppedOnlyByReturn
<1>1. RunInv /\ MpxInv /\ ListInv' /\ [MpxNext]_mpx_vars => [DropStep]_mpx_vars
  BY NextKeepsRun DEF DropsReady, KeepsReady, KeepsAllButNext, DropStep, Ready
<1> QED BY <1>1, RunInvariance, FrameInvariance, KernelInvariance, PTL
           DEF MpxSpec, DroppedOnlyByReturn, DropStep
=============================================================================
