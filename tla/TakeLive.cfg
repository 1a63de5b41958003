CONSTANTS
  q1 = q1
  q2 = q2
  v1 = v1
  v2 = v2
  Questions = {q1}
  Values = {v1, v2}
  NoAnswer = NoAnswer
  Accepts <- AnyValue1
  QuestionCount = 1
  AllowNavigation = TRUE
  Events <- JustAnswer
  Blank = Blank
  BatchLimit = 9
  Timed = TRUE
  Tracks = FALSE
  ActsEarly = FALSE
  DiskMayFail = TRUE
  MaxMutations = 2
  MaxReloads = 0
  MaxStrays = 0
SPECIFICATION FairSpec
CHECK_DEADLOCK FALSE
PROPERTY EventuallySaved
