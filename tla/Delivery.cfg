CONSTANTS
  MaxSeq = 2
  Passes = {p1, p2}
  BatchSize = 2
  MaxAttempts = 2
  Released = {1}
  CatchUps = {}
  PageSize = 1
  MaxPages = 1
  Nobody = Nobody
  MaxFaults = 2
SPECIFICATION FairSpec
CHECK_DEADLOCK FALSE
INVARIANTS
  TypeOK
  DeliveredWasRecorded
  ParkedHadItsChances
  ReleaseIsAccountedFor
PROPERTIES
  RefinesEventChannel
  EveryEventArrives
