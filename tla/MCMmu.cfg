SPECIFICATION Spec
CONSTANTS
  N = 2
  TlbSize = 2
  RamPages = 3
  MemPages = 3
  BitOr <- MCOr
  Stored <- MCStored
  Roots = {0, 2}
  Boot <- MCBoot
  MaxEdits = 2
INVARIANTS TypeOK TlbCoherent TlbInvisible DirtyRecorded
PROPERTY FenceResynchronises
CHECK_DEADLOCK FALSE
