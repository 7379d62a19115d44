\* The system as it is built, with one operation code or loop counter lost to an
\* interrupt. It stops when comhand resumes from garbage.
CONSTANTS
  comhand = comhand
  idle = idle
  proc1 = proc1
  proc2 = proc2
  proc3 = proc3
  proc4 = proc4
  proc5 = proc5
  PCB = {comhand, idle, proc1, proc2, proc3, proc4, proc5}
  NULL = NULL
  KMAIN = KMAIN
  Comhand = comhand
  Idle = idle
  PrioOf <- MCPrioOf
  NameOf <- MCNameOf
  Prios = {0, 9}
  R3 <- MCR3
  Iterations <- MCIterations
  Losses = 1

SPECIFICATION FairMpxSpec
CHECK_DEADLOCK FALSE

INVARIANTS
  MpxTypeOK
  KernelSurvives
  WaitingIsOffCpu

PROPERTIES DroppedOnlyByReturn IdleRunsAtBoot SleeperWakes ReadyRuns
