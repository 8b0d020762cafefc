SPECIFICATION PoolSpec
CONSTANTS
  Slots = {s1, s2, s3}
  FreeQ = FreeQ
  EventQ = EventQ
  IsrQ = IsrQ
  Nil = Nil
  Builds <- MCUnmaskedBuild
INVARIANTS
  WithinEventCount
