\* One client process that restarts and reconnects: refinement and liveness.
SPECIFICATION Spec
CONSTANTS
  c1 = c1
  c2 = c2
  s1 = s1
  Clients = {c1}
  Foreign = {}
  Slots = {s1}
  NoClient = NoClient
  NoSlot = NoSlot
  MaxPerSecond = 2
  MaxQueue = 3
INVARIANT AnnouncedIffReady
PROPERTIES ScriptsSeeSession HandshakeCompletes
CHECK_DEADLOCK FALSE
