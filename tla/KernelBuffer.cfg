SPECIFICATION Spec
CONSTANTS
  NumTasks = 2
  Length = 13
  MaxVal = 3
  Programs <- MCPrograms
  Step <- MCStep
  MaxPeriod = 6
  PollEvery = 1
  Quantum = 6
  KernelTimes = {1}
  KernelContext <- MCKernelContext
  Assignments <- Intruder
  Interval = 2
  Limit = 2
INVARIANT UserPreemptible
CHECK_DEADLOCK FALSE
