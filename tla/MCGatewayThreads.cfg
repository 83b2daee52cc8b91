SPECIFICATION FairSpec
CONSTANTS
  PoolSize = 15
  DogMax = 10
  DI = TRUE
  MaxPending = 3
INVARIANTS OneBusMonitor
PROPERTIES BusMonitorReturns
