SPECIFICATION HeapSpec
CONSTANTS
  W = 64
  HeapBounds <- MCHeapBounds
  Counts = {0, 1, 2, 6}
  Sizes = {3, 8, 13}
  Alignments = {0, 2, 6, 8, 16, 32}
INVARIANTS
  RequestsFit
CHECK_DEADLOCK FALSE
