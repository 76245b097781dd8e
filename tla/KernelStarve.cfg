SPECIFICATION FairSpec
CONSTANTS
  NumTasks = 2
  Length = 13
  MaxVal = 3
  Programs <- MCPrograms
  Step <- MCStep
  MaxPeriod = 9
  PollEvery = 1
  Quantum = 9
  KernelTimes = {1}
  KernelContext <- MCKernelContext
  Assignments <- Rivals
  Interval = 2
  Limit = 2
PROPERTY EveryTaskRuns
CHECK_DEADLOCK FALSE
