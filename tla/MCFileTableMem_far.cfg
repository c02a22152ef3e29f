SPECIFICATION Spec
CONSTANTS
  MAXFILES = 5
  Peers = {0, 3}
  Align = 2
  HeapStart = 6
  MemWords = 150
  Counts = {1, 2}
  MaxMsgs = 2
INVARIANTS
  TypeOK
  MessagesApart
  CopyWalks
CHECK_DEADLOCK FALSE
