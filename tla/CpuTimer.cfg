SPECIFICATION Spec
CONSTANTS
  MaxPeriod = 2
  PollEvery = 1
  Size = 2
  Flags = {0, 1}
  Regs = {0}
  Tables = {0}
  Vector <- MCVector
  Faults = {8}
  Masks <- TimerOnly
  Acks <- TimerOnly
  Used <- TimerRegisters
INVARIANTS TypeOK InterruptPrompt ReturnContext HandlerShielded KretExact
PROPERTIES EntryByVector UserConfined
CHECK_DEADLOCK FALSE
