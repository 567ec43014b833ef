SPECIFICATION FairSpec
CONSTANTS
  Thread = {t1, t2, t3}
  InitValue = 5
  PTH = FALSE
  MaxCalls = 4
CHECK_DEADLOCK FALSE
INVARIANTS TypeOK CountExact MutualExclusion
PROPERTIES IsAtomic LockIsPassedOn
