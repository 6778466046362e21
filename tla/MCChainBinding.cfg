SPECIFICATION Spec
CONSTANTS
  d1 = d1
  d2 = d2
  q1 = q1
  q2 = q2
  OK = OK
  ERR = ERR
  NoDomain = NoDomain
  Domains <- MCDomains
  Queries <- MCQueries
  Crc <- MCCrc
  Statuses = {OK, ERR}
  ByteBase = 2
  ChainsMajor = 1
  Lossy = TRUE
  MaxBound = 3
  MaxFlight = 1
INVARIANTS
  TypeOK
  AnswerSound
  AnsweredOnce
  RouteBack
PROPERTIES
  LookupStable
  ImplementsNameBinding
CHECK_DEADLOCK FALSE
