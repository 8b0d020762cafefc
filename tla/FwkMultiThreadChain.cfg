SPECIFICATION Spec
CONSTANTS
  Common = Common
  T1 = T1
  T2 = T2
  c = c
  e1 = e1
  e2 = e2
  Threads <- MCThreads
  Entities <- MCEntities
  Parent <- MCParent
  NewThread <- MCNewThread
  Usages <- MCDelayedChain
  MaxPosts = 4
  None = None
INVARIANTS
  IdleListens
CHECK_DEADLOCK FALSE
