SPECIFICATION Spec
CONSTANTS
  N = 2
  TlbSize = 2
  RamPages = 3
  MemPages = 3
  BitOr <- MCOr
  Stored <- MCStored
  Roots = {0, 2}
  Boot <- MCBoot
  MaxEdits = 2
INVARIANT SuperpageExact
CHECK_DEADLOCK FALSE
