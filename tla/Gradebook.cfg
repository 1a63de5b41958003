CONSTANTS
  Attempts = {a1, a2}
  WalkIns = {a2}
  Columns = {c1}
  NoColumn = NoColumn
  Workers = {w1, w2}
  MaxVersion = 2
  MaxReleases = 2
  MaxLinks = 2
  MaxByHand = 1
  MaxFaults = 1
SPECIFICATION Spec
SYMMETRY SameWorkers
CHECK_DEADLOCK FALSE
INVARIANTS
  TypeOK
  OnlyReleasedMarks
  LinkedColumnStays
  UndisturbedPullSettles
