SPECIFICATION FairSpec
CONSTANTS
  H0 = H0
  SE0 = SE0
  H1 = H1
  SE1 = SE1
  Hosts = {H0, H1}
  Enclaves = {SE0, SE1}
  EnclaveOf <- MCEnclaveOf
  CmdWidth = 2
  ValueWidth = 2
  Usages = {"exchange", "clear", "never"}
  MaxRequests <- MCMaxRequests
  None = None
INVARIANTS
  HandledOnceAndWhole
  AnswersWhole
PROPERTIES
  IncReturnAnswered
  ChannelsDrain
CHECK_DEADLOCK FALSE
