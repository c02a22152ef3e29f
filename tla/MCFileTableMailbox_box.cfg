SPECIFICATION Spec
CONSTANTS
  MAXFILES = 4
  NONE = 15
  ESP_ACK = 8
  ESP_NOACK = 9
  Statuses <- MCStatuses
  Replies = {3}
  Peers = {0, 3}
  DATA_NBYTES = 2
  Sizes = {3}
  MsgSpan = 3
  MaxMsgs = 2
  MaxLoss = 1
INVARIANTS
  Chronological
  SnapshotValid
PROPERTIES
  IsMailbox
