SPECIFICATION NSpec
CONSTANTS
  A = A
  B = B
  Slots = {s1, s2}
  Entities <- MCPair
  Modules <- MCPair
  ModuleOf <- MCPairOf
  NoId = NoId
  None = None
  RequestFlags = {TRUE, FALSE}
  Notifiers = {A}
  IsrPuts = TRUE
  Outstanding = 2
  MaxPosts = 2
  MaxSubscriptions = 3
INVARIANTS
  SubscriptionsConserved
  BatchFollowsSubscriptions
SYMMETRY SlotSymmetry
CHECK_DEADLOCK FALSE
