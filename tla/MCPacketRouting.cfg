SPECIFICATION Spec
CONSTANTS
  e1 = e1
  e2 = e2
  c1 = c1
  c2 = c2
  Devices <- MCDevices
  Relays = {e1}
  Clients <- MCClients
  Domains <- MCDomains
  Home <- MCHome
  DomainOf <- MCDomainOf
  NumChains = 1
  Lossy = TRUE
  Duplicates = TRUE
  Astray = TRUE
  MaxBound = 2
  MaxFlight = 1
INVARIANTS
  TypeOK
  OnRoute
  DeliveredToAddressee
  ReplyReachesSender
PROPERTY
  ImplementsPipe
CHECK_DEADLOCK FALSE
