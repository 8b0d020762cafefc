SPECIFICATION MCFairSpec
CONSTANTS
  A = A
  B = B
  a1 = a1
  Slots = {s1, s2, s3}
  Entities <- MCPair
  Modules <- MCModules
  ModuleOf <- MCPairOf
  NoId = NoId
  None = None
  RequestFlags = {TRUE}
  IsrPuts = TRUE
  Outstanding = 2
  MaxPosts = 3
INVARIANTS
  NoAnswerLost
PROPERTIES
  EventsReturn
  RequestsSettle
CHECK_DEADLOCK FALSE
