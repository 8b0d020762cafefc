SPECIFICATION LibrarySpec
CONSTANTS
  W = 64
  HeapBounds <- MCHeapBounds
  Counts = {0, 1, 2, 6}
  Sizes = {3, 8, 13}
  Alignments = {0, 4, 6, 8, 32}
  Nodes = {n1, n2, n3, n4}
  Lists = {L1, L2}
  Null = Null
  Kinds <- MCKinds
  ModuleIdx = {0, 1, 255}
  ElementIdx = {0, 1, 16, 4095}
  SubElementIdx = {0, 255}
  ApiIdx = {0, 1, 15}
  EventIdx = {0, 63}
  NotificationIdx = {0, 63}
  IntSize = 64
  LongSize = 4096
  ErrorCount = 3
  Formats <- MCFormats
  Arguments = {0, 10, 32, 2047}
  DeviceConfigs <- MCDeviceConfigs
  DeviceCounts = {0, 1, 2}
  Callers = {c1, c2}
  Endpoints = {p1, p2, p3}
  BmpSize = 2
  IntLimit = 4
  Sources = {1, 2, 5, ANY}
  Dests = {7, ANY}
  ListHead = ListHead
  ANY = ANY
  Nobody = Nobody
  Slots = {s1, s2, s3}
  FreeQ = FreeQ
  EventQ = EventQ
  IsrQ = IsrQ
  Nil = Nil
  Builds <- MCSoundBuilds
  ModuleCount = 3
  ElementCount <- MCElementCount
  HasApi = {1, 2, 3}
  HasPostInit = {1}
  HasBind = {1, 2}
  HasStart = {2, 3}
  None = None
INVARIANTS
  BlocksFit
  BlocksApart
  ListsRepresent
  IdsFaithful
  NumbersReadBack
  FormatsAsDocumented
  BaudRatesKept
  AddressesOwned
  LookupsFind
  PoolPartition
  CallbackOrder
  StateMeans
  TargetReady
CHECK_DEADLOCK FALSE
