SPECIFICATION FairSpec
CONSTANTS
  Clients = {2, 3}
  Others = {}
  NoClient = NoClient
  Sizes = {1, 2}
  MaxMsgs = 3
  MaxDown = 2
  MaxConnects = 2
INVARIANTS
  OnlyShortArrive
  LongCost
  HangsAfterOwnMessage
PROPERTIES
  GetsThrough
CHECK_DEADLOCK FALSE
