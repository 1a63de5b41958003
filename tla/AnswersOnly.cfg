CONSTANTS
  q1 = q1
  q2 = q2
  v1 = v1
  v2 = v2
  v3 = v3
  Questions = {q1, q2}
  Values = {v1, v2, v3}
  Blank = Blank
  Ids = {1, 2, 3, 4, 5, 6, 7}
  MaxTimingDelta = 3
  Batches <- AnswerBatches
SPECIFICATION Spec
CHECK_DEADLOCK FALSE
PROPERTY RefinesLatestAnswer
