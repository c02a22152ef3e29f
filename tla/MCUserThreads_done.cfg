SPECIFICATION Spec
CONSTANTS
  Threads = {t1, t2}
  NoThread = NoThread
  NUM_QUEUES = 3
  Delays = {1, 2}
  resurfDelay = 3
  SliceTicks = 2
INVARIANTS
  TrulyDone
CHECK_DEADLOCK FALSE
