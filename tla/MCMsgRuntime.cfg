SPECIFICATION Spec
CONSTANTS
  Args <- LongRun
  SECOND = 2
  Entries = 2
  MaxIter = 3
INVARIANT ServesForRuntime
