SPECIFICATION Spec
CONSTANTS
  A = A
  B = B
  a1 = a1
  Slots = {s1, s2}
  Entities <- MCPair
  Modules <- MCModules
  ModuleOf <- MCPairOf
  NoId = NoId
  None = None
  RequestFlags = {TRUE, FALSE}
  IsrPuts = TRUE
  Outstanding = 2
  MaxPosts = 3
INVARIANTS
  SlotsConserved
  FifoPerContext
  AnswersGoHome
  OneStagePerRequest
PROPERTIES
  ImplementsEventService
SYMMETRY SlotSymmetry
CHECK_DEADLOCK FALSE
