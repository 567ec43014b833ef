SPECIFICATION FairSpec
CONSTANTS
  Inputs <- RewindingBatch
  Programs <- TinyPrograms
  Garbage <- MCGarbage
  MAX_LENGTH = 10
  FILE_LENGTH = 13
  PipeCapacity = 2
  MaxFailures = 1
CHECK_DEADLOCK FALSE
PROPERTY LinesInOrder
