SPECIFICATION ArchSpec
CONSTANTS
  Archs = {"armv6-m", "armv7-m"}
  Modes = {"debug", "release"}
  Lines = {0, 16}
  IrqCount = 32
  Isrs = {isr}
  Params = {p1, p2}
  MaxSettings = 2
  NULL = NULL
INVARIANTS
  CalledAsRegistered
PROPERTIES
  TrapFreezes
SYMMETRY ParamSymmetry
CHECK_DEADLOCK FALSE
