SPECIFICATION Spec
CONSTANTS
  Args <- PartialBatch
  SECOND = 2
  Entries = 2
  MaxIter = 3
INVARIANT OpCountIsDone
