\* An approval whose request dies after its transition has been committed.
SPECIFICATION FairSpec
CONSTANTS
  alice = alice
  bob = bob
  go1 = go1
  go2 = go2
  Reviewer = {alice, bob}
  Publisher = {go1}
  MaxAttempts = 3
  MaxCrashes = 1
  MaxReviews = 2
PROPERTY ApprovedIsPublished
CHECK_DEADLOCK FALSE
