SPECIFICATION FairSpec
CONSTANTS
  max_threads = 1
  max_buffers = 2
  Policies = {0}
  sff_bs_value = 2
  Requests <- StaticOnly
  Starts <- AnyStart
  MaxConn = 2
  MaxOpen = 1
  NULL = NULL
  UNSET = UNSET
CHECK_DEADLOCK FALSE
PROPERTY EveryRequestServed
