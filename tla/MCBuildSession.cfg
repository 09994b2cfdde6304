\* Two sessions, two parts for a list of one.
SPECIFICATION Spec
CONSTANTS
  s1 = s1
  s2 = s2
  p1 = p1
  p2 = p2
  Sessions = {s1, s2}
  Parts = {p1, p2}
  NoSession = NoSession
  NoPart = NoPart
  MaxBuildParts = 1
  MaxQueue = 2
INVARIANTS TypeOK BuildModeAgrees PartsAgree SelectedIsListed BuildInv
PROPERTY BuildModeEnds
