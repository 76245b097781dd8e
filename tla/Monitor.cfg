SPECIFICATION Spec
CONSTANTS
  Last = 3
  MaxBps = 2
  Programs <- MCPrograms
  Leftovers <- MCLeftovers
INVARIANTS
  TypeOK
  NothingLost
PROPERTIES
  StepExact
  BreakpointsHold
