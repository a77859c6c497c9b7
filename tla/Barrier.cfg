SPECIFICATION FairSpec
CONSTANTS
  r0 = r0
  r1 = r1
  r2 = r2
  c1 = c1
  c2 = c2
  c3 = c3
  c4 = c4
  None = None
  Rank = {r0, r1, r2}
  Root = r0
  Parent <- MCParent
  Client = {c1, c2, c3, c4}
  Home <- MCHome
  NProcs = 3
  MaxAbort = 1
INVARIANTS NoEarlyExit
PROPERTY AllReleased
CHECK_DEADLOCK FALSE
