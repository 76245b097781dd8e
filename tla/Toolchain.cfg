\* Flat builds of three lines and of some longer sources, and linked builds of
\* two, three and more files.
SPECIFICATION Spec
CONSTANTS
  HalfBits = 4
  BranchBits = 5
  Names = {"a", "b", "k", "x"}
  MaxOutput = 42
  Registers = {"k"}
  Short <- MCShort
  TextBase = 2
  FlatSources <- MCFlatSources
  ObjectSources <- MCObjectSources
INVARIANTS
  TypeOK
  PassesAgree
  FlatExact
  PlacedApart
  OverrunExplained
  OneDefinition
  LinkedExact
  CrashExplained
\* A build ends.
CHECK_DEADLOCK FALSE
