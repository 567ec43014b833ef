SPECIFICATION FairSpec
CONSTANTS
  Inputs <- AllInputs
  Programs <- TinyPrograms
  Garbage <- MCGarbage
  MAX_LENGTH = 10
  FILE_LENGTH = 13
  PipeCapacity = 2
  MaxFailures = 1
CHECK_DEADLOCK FALSE
INVARIANTS TypeOK NoChildLeft JobsDoNotOverlap EachOnceInOrder
PROPERTY LineEnds
