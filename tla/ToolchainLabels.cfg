\* Flat builds with several labels before a line.
SPECIFICATION Spec
CONSTANTS
  HalfBits = 4
  BranchBits = 5
  Names = {"a", "b", "k", "x"}
  MaxOutput = 42
  Registers = {"k"}
  Short <- MCShort
  TextBase = 2
  FlatSources <- CrowdedExamples
  ObjectSources = {}
INVARIANT SizesAgree
CHECK_DEADLOCK FALSE
