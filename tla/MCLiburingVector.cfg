SPECIFICATION Spec
CONSTANTS
  Args <- VectorArgs
  BufferSize = 2
  MaxOffset = 13
  Entries = 2
  CqWrap = 8
  MaxRounds = 2
INVARIANT FailuresCountNothing
