\* Words of three bits: every pair of instructions with every operand, from
\* any flags, and any branches.
SPECIFICATION Spec
CONSTANTS
  Width = 3
  Top = 4
  MaxSteps = 2
INVARIANTS
  TypeOK
  WideExact
  BranchExact
  ProductExact
  DivisionExact
  RotationUndone
\* The bound on the instructions, and a dead emulator.
CHECK_DEADLOCK FALSE
