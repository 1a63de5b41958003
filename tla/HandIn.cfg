CONSTANTS
  q1 = q1
  q2 = q2
  v1 = v1
  v2 = v2
  Questions = {q1}
  Values = {v1, v2}
  NoAnswer = NoAnswer
  Accepts <- AnyValue1
  QuestionCount = 1
  AllowNavigation = TRUE
  Events <- OneQuestion
  Blank = Blank
  BatchLimit = 9
  Timed = FALSE
  Tracks = FALSE
  ActsEarly = FALSE
  DiskMayFail = FALSE
  MaxMutations = 2
  MaxReloads = 0
  MaxStrays = 1
SPECIFICATION Spec
SYMMETRY ValueSymmetry
CHECK_DEADLOCK FALSE
INVARIANT EveryAnswerIsMarked
