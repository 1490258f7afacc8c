\* Two admins replace the roots and rotate the key while a manifest is posted.
SPECIFICATION FairSpec
CONSTANTS
  alice = alice
  bob = bob
  p1 = p1
  None = None
  Admin = {alice, bob}
  Poster = {p1}
  RootList <- MCRootList
  Path <- MCPath
  MaxRequests = 2
  MaxLost = 1
INVARIANTS
  RevokedIsGone
  AdmissionIsCurrent
PROPERTY PatchesEnd
CHECK_DEADLOCK FALSE
