\* One key, leases of two actions with two priorities; the clock wraps.
SPECIFICATION Spec
CONSTANTS
  k1 = k1
  a1 = a1
  a2 = a2
  Keys = {k1}
  Actions = {a1, a2}
  Priorities = {0, 1}
  Flags = {{"consume", "block"}}
  TTLs = {0, 7}
  DefaultTTL = 1
  MaxTTL = 2
  Wrap = 4
INVARIANTS TypeOK LeaseInv LeaseLastsItsTTL HighestPriorityWins ByteInv ByteFollowsRecord
PROPERTIES BlockLifted LeasesAreKept
