SPECIFICATION FairSpec
CONSTANTS
  H0 = H0
  SE0 = SE0
  Channels <- MCChannels
  Irq <- MCIrq
  Send <- MCSend
  Lines <- MCLines
  IrqCount = 32
  Archs = {"armv7-m"}
  Isrs = {OtherIsr, Mhu2_isr}
  Params = {H0, SE0}
  BmpSize = 4
  OtherIsr = OtherIsr
  Mhu2_isr = Mhu2_isr
  NULL = NULL
  Contexts = {Thread, Isr}
  Thread = Thread
  Isr = Isr
  Texts = {Banner, Started, Received}
  Banner = Banner
  Started = Started
  Received = Received
  Size <- MCSize
  FifoSize = 1
  Nothing = Nothing
INVARIANTS
  IsrFindsEverything
PROPERTIES
  LogsWhole
  MessagesServed
CHECK_DEADLOCK FALSE
