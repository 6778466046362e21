SPECIFICATION FairSpec
CONSTANTS
  NumClients = 3
  Names = {"5.ll", "a.ll"}
  NoName = ""
  NumChains = 2
  OK = OK
  ERR = ERR
  DeviceCounts = {3}
  Lossy = FALSE
  Duplicates = FALSE
  Old <- MCOldResponses
  MaxLoads = 1
INVARIANT
  RegisteredWasAnnounced
PROPERTIES
  RegisteredOrShadowed
  DevicesLoad
CHECK_DEADLOCK FALSE
