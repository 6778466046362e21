SPECIFICATION Spec
CONSTANTS
  NumClients = 2
  Names = {"5.ll", "a.ll"}
  NoName = ""
  NumChains = 2
  OK = OK
  ERR = ERR
  DeviceCounts = {1, 2}
  Lossy = TRUE
  Duplicates = TRUE
  Old <- MCOldList
  MaxLoads = 2
INVARIANTS
  TypeOK
  EntryKnown
  RegisteredWasAnnounced
  AnnouncedInFull
  StaleOnlyAfterReload
  CrashOnlyWhileLoading
PROPERTY
  ClientsMoveForward
CHECK_DEADLOCK FALSE
