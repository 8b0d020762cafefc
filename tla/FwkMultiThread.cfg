SPECIFICATION FairSpec
CONSTANTS
  Common = Common
  T1 = T1
  T2 = T2
  c = c
  e1 = e1
  e2 = e2
  Threads <- MCThreads
  Entities <- MCEntities
  Parent <- MCParent
  NewThread <- MCNewThread
  Usages <- MCUsages
  MaxPosts = 3
  None = None
INVARIANTS
  PoolConserved
  OneRuns
  ReadyOnce
  ContextRestored
  AnswersTheCall
PROPERTIES
  ResumedImmediately
  ReadyServed
  WaitsEnd
CHECK_DEADLOCK FALSE
