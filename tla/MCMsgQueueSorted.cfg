SPECIFICATION Spec
CONSTANTS
  p1 = p1
  p2 = p2
  c1 = c1
  c2 = c2
  ctl = ctl
  Threads = {p1, p2, c1, c2, ctl}
  Values = {1, 2, 3}
  MaxEls = 0
  UintxMax = 4
  Sort = "asc"
  MallocFails = TRUE
  Calls <- AllCalls
INVARIANTS
  Capacity SortedOrder
