SPECIFICATION FairSpec
CONSTANTS
  a = a
  b = b
  j1 = j1
  j2 = j2
  j3 = j3
  Workers = {w1, w2}
  Clients = {a, b}
  Jobs = {j1, j2, j3}
  Finite = {j1, j2, j3}
  NoJob = NoJob
  Nobody = Nobody
  Calls <- LiveCalls
ACTION_CONSTRAINT InOrder
INVARIANTS
  NoStrandedJob DestroyedIsQuiet
PROPERTIES
  WaitSound WaitersReturn DestroyReturns ImplementsLivePool
\* a destroyed pool is gone
CHECK_DEADLOCK FALSE
