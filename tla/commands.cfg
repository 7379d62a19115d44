CHECK_DEADLOCK FALSE

CONSTANTS
  comhand = comhand
  idle = idle
  p1 = p1
  PCB = {comhand, idle, p1}
  NULL = NULL
  KMAIN = KMAIN
  Comhand = comhand
  Idle = idle
  PrioOf <- MCPrioOf
  NameOf <- MCNameOf
  Prios = {0, 9}
  SystemClass = {comhand, idle}
  Used = {"delete", "block", "unblock", "suspend", "resume", "prio"}
  NewPrios = {0}

SPECIFICATION CmdSpec

INVARIANTS CmdTypeOK CurIsOnCpu

PROPERTY SuspendedUntilResumed
