SPECIFICATION FairSpec
CONSTANTS
  Args <- LiburingArgs
  BufferSize = 2
  MaxOffset = 13
  Entries = 2
  CqWrap = 8
  MaxRounds = 4
INVARIANTS
  TypeOK
  RoundsAreSeparate
  BuffersExclusive
  CountsEachOnce
  SequentialWithoutGaps
  CrashOnlyAboveDepth
PROPERTIES
  ImplementsEngine
  ReturnsUnlessStuck
