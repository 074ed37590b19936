SPECIFICATION FairSpec
CONSTANTS
  Args <- MsgArgs
  SECOND = 2
  Entries = 2
  MaxIter = 4
INVARIANTS
  TypeOK
  HandledInOrderOnce
  CountedIsDoneOrPrepared
  ReportWithinBatch
  BuffersExclusive
  CrashOnlyAboveDepth
PROPERTIES
  EndsUnlessCutShort
