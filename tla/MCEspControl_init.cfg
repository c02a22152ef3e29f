SPECIFICATION FairSpec
CONSTANTS
  Id = 2
  ServerId = 1
  NONE = 15
  ESP_FAIL = 0
  Attempts = 5
  Halves = 4
INVARIANTS
  TypeOK
  OwnNumberTwice
  LossShows
PROPERTIES
  ClientInitEnds
  ServerInitEnds
CHECK_DEADLOCK FALSE
