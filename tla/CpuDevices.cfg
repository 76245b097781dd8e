SPECIFICATION Spec
CONSTANTS
  MaxPeriod = 1
  PollEvery = 2
  Size = 1
  Flags = {0}
  Regs = {0}
  Tables = {0}
  Vector <- MCVector
  Faults = {}
  Masks <- AllSources
  Acks <- AnySources
  Used <- OtherRegisters
PROPERTIES PendingLatched
CHECK_DEADLOCK FALSE
