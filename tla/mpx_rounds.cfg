\* A process that exits before its rounds are over (user/system.c:18).
CONSTANTS
  comhand = comhand
  idle = idle
  proc1 = proc1
  proc2 = proc2
  proc3 = proc3
  proc4 = proc4
  proc5 = proc5
  PCB = {comhand, idle, proc1, proc2, proc3, proc4, proc5}
  NULL = NULL
  KMAIN = KMAIN
  Comhand = comhand
  Idle = idle
  PrioOf <- MCPrioOf
  NameOf <- MCNameOf
  Prios = {0, 9}
  R3 <- MCR3
  Iterations <- MCIterations
  Losses = 1

SPECIFICATION MpxSpec
CHECK_DEADLOCK FALSE

PROPERTY RoundsMade
