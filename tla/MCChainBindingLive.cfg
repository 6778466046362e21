SPECIFICATION FairSpec
CONSTANTS
  d1 = d1
  d2 = d2
  q1 = q1
  q2 = q2
  OK = OK
  ERR = ERR
  NoDomain = NoDomain
  Domains <- MCDomains
  Queries <- MCQueries
  Crc <- MCCrc
  Statuses = {OK}
  ByteBase = 2
  ChainsMajor = 1
  Lossy = FALSE
  MaxBound = 4
  MaxFlight = 1
INVARIANT
  WaiterHasTraffic
PROPERTY
  AskedIsAnswered
CHECK_DEADLOCK FALSE
