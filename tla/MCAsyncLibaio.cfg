SPECIFICATION FairSpec
CONSTANTS
  Args <- LibaioArgs
  BufferSize = 2
  MaxRounds = 3
INVARIANTS
  TypeOK
  NoUnderflow
  CountsEachSuccessOnce
  SubmittedIsReturnedOrPending
  VectoredCountExact
  BuffersExclusive
  SequentialWithoutGaps
  TransfersWhole
  ResultIsDone
PROPERTIES
  ImplementsEngine
  ReturnsUnlessStuck
