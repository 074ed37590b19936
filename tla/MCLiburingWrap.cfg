SPECIFICATION FairSpec
CONSTANTS
  Args <- FixedArgs
  BufferSize = 2
  MaxOffset = 13
  Entries = 2
  CqWrap = 8
  MaxRounds = 4
PROPERTY EndsAfterRuntime
