CONSTANTS
  ann = ann
  bob = bob
  t1 = t1
  t2 = t2
  Starts = {a1, a2}
  Submits = {s1, s2}
  Marks = {m1, m2, m3}
  Takers = {ann}
  Tickets = {t1, t2}
  Bearer <- BearerOf
  Foreign = {t2}
  Written = {w1, w2}
  Scores = {3, 5}
  MaxAttempts = 1
  NoTicket = NoTicket
  NoScore = NoScore
SPECIFICATION Spec
SYMMETRY SameRequests
CHECK_DEADLOCK FALSE
INVARIANTS
  TypeOK
  GradedIsFullyMarked
  OneSittingPerTicket
  LimitHoldsOneAtATime
PROPERTY RefinesAttemptRecord
