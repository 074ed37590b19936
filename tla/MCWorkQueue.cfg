SPECIFICATION FairSpec
CONSTANTS
  Request = {r1, r2}
  Sentinel = Sentinel
  SECOND = 2
  MaxWork = 3
INVARIANTS
  TypeOK
  TestsStillHold
  NoLostWakeup
PROPERTIES
  ImplementsFifo
  WokenByNotification
