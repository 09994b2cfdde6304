\* Two client processes, one of them of another protocol version, share a slot.
SPECIFICATION Spec
CONSTANTS
  c1 = c1
  c2 = c2
  s1 = s1
  Clients = {c1, c2}
  Foreign = {c2}
  Slots = {s1}
  NoClient = NoClient
  NoSlot = NoSlot
  MaxPerSecond = 1
  MaxQueue = 2
INVARIANTS TypeOK ReadyIsPeers AckBeforeRPC HandshakeInv
CHECK_DEADLOCK FALSE
