SPECIFICATION FairSpec
CONSTANTS
  Numerals <- SomeNumerals
  CommandLines <- CommandLinesUsed
  Files <- FilesUsed
  Threads <- ThreadIds
  KB = 1
  Rands <- RandsUsed
  MaxTransfers = 3
  _100GB = 6
  RingDepth = 1024
INVARIANTS
  TypeOK
  ParsedAsGiven
  TotalIsDone
  SequentialWithoutGaps
  TransfersWhole
  ThreadsApart
  CrashesOnly
PROPERTIES
  ImplementsEngine
  EndsUnlessStuck
