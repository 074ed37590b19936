SPECIFICATION Spec
CONSTANTS
  Args <- SlowProducer
  SECOND = 2
  Entries = 2
  MaxIter = 3
INVARIANT ReportNamesLib
