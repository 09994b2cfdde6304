\* The same client: does the byte of the game follow the record of the block?
SPECIFICATION Spec
CONSTANTS
  k1 = k1
  a1 = a1
  a2 = a2
  Keys = {k1}
  Actions = {a1}
  Priorities = {0}
  Flags = {{"consume"}, {"consume", "block"}}
  TTLs = {1, 2}
  DefaultTTL = 1
  MaxTTL = 2
  Wrap = 4
PROPERTY GameIsBlocked
