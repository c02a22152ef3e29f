SPECIFICATION FairSpec
CONSTANTS
  Byte <- MCByte
  Zero = "0"
  Cookie = "c"
  start_seq <- MCStart
  stop_seq <- MCStop
  Progs <- MCProgs
  Leftover = {"S", "T", ":", "D"}
  Memory <- MCMemory
  FrameLen = 7
  buflen = 7
INVARIANTS
  TypeOK
PROPERTIES
  RunsWhole
  KeepsRunning
