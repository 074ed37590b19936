SPECIFICATION Spec
CONSTANTS
  Args <- PlainArgs
  BufferSize = 2
  MaxRounds = 2
INVARIANT WaitsForRequests
