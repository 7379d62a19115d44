\* Every sequence of requests, four PCBs. A machine stopped by a fault deadlocks.
CONSTANTS
  comhand = comhand
  idle = idle
  p1 = p1
  p2 = p2
  PCB = {comhand, idle, p1, p2}
  NULL = NULL
  KMAIN = KMAIN
  Comhand = comhand
  Idle = idle
  PrioOf <- MCPrioOf
  NameOf <- MCNameOf
  Prios = {0, 7, 9}

SYMMETRY Twins
SPECIFICATION Spec
CHECK_DEADLOCK FALSE

INVARIANTS
  TypeOK
  CurIsOnCpu
  ContextSaved
  BusyIsFlagged
  IocbQueueUnused
  OneSleeper
  SleeperOnBlockedList
  NoNullDereference

PROPERTIES RunsOnlyWhenReady ImplementsProcessStates
