SPECIFICATION FairSpec
CHECK_DEADLOCK FALSE
CONSTANTS
  Values = {0, 1}
  Zero = 0
  MBUS_FORCE_SYNC_NUM = 1
  QueueMax = 2
  MaxCommands = 2
  MaxPresses = 2
  None = None
INVARIANTS AtRestAgree
PROPERTIES Converges
