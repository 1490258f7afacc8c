\* Two requests at a time over two accounts, one key and a limit of two.
SPECIFICATION Spec
CONSTANTS
  ann = ann
  bob = bob
  s1 = s1
  s2 = s2
  k1 = k1
  None = None
  User = {ann, bob}
  Founder = ann
  Slot = {s1, s2}
  Key = {k1}
  Intent <- MCIntent
  PerMinute = 2
  IPPerMinute = 2
  Production = TRUE
  MaxRequests = 4
  MaxExpiries = 2
SYMMETRY SlotSymmetry
INVARIANTS
  TypeOK
  OverrunIsBounded
  PrincipalIsCurrent
  ReplaysAgree
CHECK_DEADLOCK FALSE
