SPECIFICATION FairSpec
CONSTANTS
  e1 = e1
  e2 = e2
  c1 = c1
  c2 = c2
  Devices <- MCDevices
  Relays = {e1, e2}
  Clients <- MCClients
  Domains <- MCDomains
  Home <- MCHome
  DomainOf <- MCDomainOf
  NumChains = 1
  Lossy = FALSE
  Duplicates = FALSE
  Astray = FALSE
  MaxBound = 2
  MaxFlight = 1
INVARIANT
  OnRoute
PROPERTY
  PacketTeaches
CHECK_DEADLOCK FALSE
