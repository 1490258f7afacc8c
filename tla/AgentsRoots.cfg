\* Two requests that replace the roots at the same time.
SPECIFICATION Spec
CONSTANTS
  alice = alice
  bob = bob
  p1 = p1
  None = None
  Admin = {alice, bob}
  Poster = {p1}
  RootList <- MCSingleRoots
  Path <- MCPath
  MaxRequests = 2
  MaxLost = 1
INVARIANT RootsReplaced
CHECK_DEADLOCK FALSE
