CONSTANTS
  MaxSeq = 3
  Passes = {p1}
  BatchSize = 3
  MaxAttempts = 2
  Released = {1, 3}
  CatchUps = {c1}
  PageSize = 1
  MaxPages = 3
  Nobody = Nobody
  MaxFaults = 1
SPECIFICATION Spec
CHECK_DEADLOCK FALSE
INVARIANT CatchUpFoundTheGap
