\* The same client on a server that keeps its game mode: is a reconnection served?
SPECIFICATION SteadyServerSpec
CONSTANTS
  c1 = c1
  c2 = c2
  s1 = s1
  Clients = {c1}
  Foreign = {}
  Slots = {s1}
  NoClient = NoClient
  NoSlot = NoSlot
  MaxPerSecond = 2
  MaxQueue = 2
PROPERTY ConnectionIsServed
CHECK_DEADLOCK FALSE
