CONSTANTS
  MaxRequests = 3
  Ids = {1, 2, 3, 4, 5, 6}
  Starting <- Draft
  NewIds <- New
  Keys = {k1}
  NoKey = NoKey
  MaxDrafts = 1
  Lists <- SomeLists
  Ops <- Endpoints
SPECIFICATION FairSpec
CHECK_DEADLOCK FALSE
INVARIANTS
  TypeOK
  OrdersNeverMix
  OptionsAreOfTheBody
  KeyMadeOneQuestion
  NoGapsOneAtATime
PROPERTIES
  EveryRequestEnds
  PublishedPaperSettles
