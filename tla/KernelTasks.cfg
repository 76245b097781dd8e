SPECIFICATION FairSpec
CONSTANTS
  NumTasks = 3
  Length = 13
  MaxVal = 3
  Programs <- MCPrograms
  Step <- MCStep
  MaxPeriod = 8
  PollEvery = 1
  Quantum = 8
  KernelTimes = {1, 2}
  KernelContext <- MCKernelContext
  Assignments <- Mixed
  Interval = 2
  Limit = 2
INVARIANT TypeOK
PROPERTIES Isolation EveryTaskRuns
CHECK_DEADLOCK FALSE
