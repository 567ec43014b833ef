SPECIFICATION Spec
CONSTANTS
  Policies = {2}
  sff_bs_value = 2
  FileSize = {1, 2, 3}
  Garbage = {}
  MaxReq = 4
  NULL = NULL
CHECK_DEADLOCK FALSE
INVARIANT EpochOrder
