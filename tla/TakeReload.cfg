CONSTANTS
  q1 = q1
  q2 = q2
  v1 = v1
  v2 = v2
  Questions = {q1}
  Values = {v1}
  NoAnswer = NoAnswer
  Accepts <- OneValue
  QuestionCount = 2
  AllowNavigation = FALSE
  Events <- AnswerOrMove
  Blank = Blank
  BatchLimit = 1
  Timed = FALSE
  Tracks = TRUE
  ActsEarly = FALSE
  DiskMayFail = FALSE
  MaxMutations = 2
  MaxReloads = 1
  MaxStrays = 0
SPECIFICATION Spec
CHECK_DEADLOCK FALSE
INVARIANTS
  TypedIsDurable
  LoopStopsForAReason
PROPERTY QueueIsKept
