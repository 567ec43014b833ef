SPECIFICATION Spec
CONSTANTS
  max_threads = 2
  max_buffers = 2
  Policies = {0, 2}
  sff_bs_value = 2
  Requests <- AnyKind
  Starts <- EarlyStart
  MaxConn = 2
  MaxOpen = 2
  NULL = NULL
  UNSET = UNSET
CHECK_DEADLOCK FALSE
CONSTRAINT SomeKinds
INVARIANTS TypeOK LinkedWhenComplete HistCountsDispatches
