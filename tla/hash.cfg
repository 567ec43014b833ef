SPECIFICATION Spec
CONSTANTS
  Thread = {t1, t2}
  size = 2
  Key = {0, 1, 2}
  Element = {e1, e2}
  Addr = {a1, a2, a3}
  MaxCalls = 5
  NULL = NULL
SYMMETRY Symmetry
CHECK_DEADLOCK FALSE
INVARIANTS TypeOK NoUseAfterFree NodesAccounted
PROPERTY ImplementsStore
