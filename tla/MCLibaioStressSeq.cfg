SPECIFICATION Spec
CONSTANTS
  Args <- StressArgs
  BufferSize = 2
  MaxRounds = 2
INVARIANT SequentialMode
