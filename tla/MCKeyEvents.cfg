\* One key, which a bind and leases of two actions claim.
SPECIFICATION Spec
CONSTANTS
  k1 = k1
  a1 = a1
  a2 = a2
  Keys = {k1}
  Actions = {a1, a2}
  NoKey = NoKey
INVARIANTS EventsInv ChangeToldOnce
