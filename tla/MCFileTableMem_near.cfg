SPECIFICATION Spec
CONSTANTS
  MAXFILES = 5
  Peers = {2, 3}
  Align = 2
  HeapStart = 6
  MemWords = 150
  Counts = {1, 2}
  MaxMsgs = 2
INVARIANTS
  CopiedToBuffer
CHECK_DEADLOCK FALSE
