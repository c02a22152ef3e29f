SPECIFICATION Spec
CONSTANTS
  MAXFILES = 1
  NONE = 15
  ESP_ACK = 8
  ESP_NOACK = 9
  Statuses <- MCStatuses
  Replies = {}
  Peers = {0}
  DATA_NBYTES = 2
  MsgSpan = 3
  Sizes = {1, 2, 3, 5}
  MaxMsgs = 4
  MaxLoss = 2
INVARIANTS
  TypeOK
  InBounds
  IntactUnderOneLoss
  LossCost
