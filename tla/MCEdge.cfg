SPECIFICATION EdgeSpec
CONSTANTS
  q1 = q1
  OK = OK
  ERR = ERR
  NoDomain = NoDomain
  Domains <- MCDomains
  Queries <- MCQueries
  Crc <- MCCrc
  Statuses = {OK}
  ByteBase = 3
  ChainsMajor = 1
  Lossy = FALSE
  MaxBound = 3
  MaxFlight = 1
  Dot = 2
  Datagrams <- MCDatagrams
  FoldAt = 18
  UsersMajor = 1
  UsersMinor = 2
  NumClients = 2
  Recipients = {1}
  Packets <- MCPackets
  Payloads <- MCPayloads
  VersionByte = 2
  DontFragment = 1
  TimeToLive = 2
  MaxRestarts = 1
INVARIANTS
  EdgeTypeOK
  InDatagram
  AsAsked
  SumVerifies
  SentToName
CHECK_DEADLOCK FALSE
