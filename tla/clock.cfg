SPECIFICATION ClockSpec
CHECK_DEADLOCK FALSE
CONSTANTS
  Starts <- MCStarts
  Inputs <- MCInputs
  MaxTicks = 2
  MaxCommands = 2
INVARIANTS ClockTypeOK ReadNotBehind SetNotBehind SetIsExact  ShownWhole
