SPECIFICATION FairSpec
CONSTANTS
  Threads = {t1, t2, t3}
  NoThread = NoThread
  NUM_QUEUES = 3
  Delays = {2}
  resurfDelay = 4
  SliceTicks = 1
INVARIANTS
  TypeOK
  OnePlace
  NoSleeperAbandoned
  NeverStuck
PROPERTIES
  SleepersWake
  DemotedResurfaces
  EveryThreadRuns
CHECK_DEADLOCK FALSE
