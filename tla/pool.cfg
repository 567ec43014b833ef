SPECIFICATION PoolSpec
CONSTANTS
  max_threads = 3
  max_buffers = 2
  Policies = {0}
  sff_bs_value = 2
  Requests <- OneRequest
  Starts <- Unassigned
  Behind <- SomeMemory
  MaxConn = 1
  MaxOpen = 1
  NULL = NULL
  UNSET = UNSET
CHECK_DEADLOCK FALSE
INVARIANTS AddUpUnlessReinit ChildrenMatchWaiters
PROPERTIES CountsKept DispatchEnds
