SPECIFICATION Spec
CONSTANTS
  Policies = {0, 1, 2}
  sff_bs_value = 2
  FileSize = {1, 2}
  Garbage <- GarbageSizes
  MaxReq = 5
  NULL = NULL
CHECK_DEADLOCK FALSE
INVARIANTS TypeOK TailIsLast
PROPERTIES ImplementsScheduler ShortestFirst
