SPECIFICATION FairSpec
CONSTANTS
  smart = smart wall = wall k1 = k1 k2 = k2
  DevList <- MCDevList
  Kind <- MCKind
  Points <- MCPoints
  Master = {smart}
  OnlineCheck = {smart}
  HB_IGNORE = 1
  SYNC_FIRST = 1
  QueueMax = 2
  HbQueueMax = 1
  MaxCommands = 1
  MaxInputs = 2
  None = None
INVARIANTS AtRestSynced
PROPERTY HeartbeatRepairs
CHECK_DEADLOCK FALSE
