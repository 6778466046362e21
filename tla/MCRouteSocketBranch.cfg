SPECIFICATION Spec
CONSTANTS
  Devices = {a, b}
  Server = Server
  NoAddr = NoAddr
INVARIANT
  ElseFromDevices
