\* Two reviewers, and two Go workers that may overlap.
SPECIFICATION FairSpec
CONSTANTS
  alice = alice
  bob = bob
  go1 = go1
  go2 = go2
  Reviewer = {alice, bob}
  Publisher = {go1, go2}
  MaxAttempts = 5
  MaxCrashes = 2
  MaxReviews = 2
INVARIANTS
  DecisionsAreVerdicts
  ReceiptIsBacked
PROPERTIES
  ApprovalsAreInformed
  EventuallyPublished
CHECK_DEADLOCK FALSE
