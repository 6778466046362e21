SPECIFICATION Spec
CONSTANTS
  Devices = {a, b}
  Server = Server
  NoAddr = NoAddr
INVARIANTS
  TypeOK
  RouteServerOnly
  AstrayOnlyWhenDisturbed
  TrustedFromServer
