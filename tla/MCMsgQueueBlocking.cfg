SPECIFICATION FairSpec
CONSTANTS
  p1 = p1
  p2 = p2
  c1 = c1
  c2 = c2
  ctl = ctl
  Threads = {p1, p2, c1, c2, ctl}
  Values = {1, 2}
  MaxEls = 2
  UintxMax = 4
  Sort = "none"
  MallocFails = FALSE
  Calls <- BlockingCalls
INVARIANTS
  CountMatchesList NoLostGetWakeup NoLostPutWakeup ClosedHasNoSleeper FreedCondsUnused
PROPERTIES
  CloseReleases GettersServed ImplementsBuffer
\* after queue_destroy the queue is gone and nothing may be called
CHECK_DEADLOCK FALSE
