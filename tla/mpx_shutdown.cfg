\* The way back to kmain after comhand's EXIT (kernel/kmain.c:115).
CONSTANTS
  comhand = comhand
  idle = idle
  proc1 = proc1
  proc2 = proc2
  proc3 = proc3
  proc4 = proc4
  proc5 = proc5
  PCB = {comhand, idle, proc1, proc2, proc3, proc4, proc5}
  NULL = NULL
  KMAIN = KMAIN
  Comhand = comhand
  Idle = idle
  PrioOf <- MCPrioOf
  NameOf <- MCNameOf
  Prios = {0, 9}
  R3 <- MCR3
  Iterations <- MCIterations
  Losses = 0

SPECIFICATION FairMpxSpec
CHECK_DEADLOCK FALSE

PROPERTY ShutdownReachesKmain
