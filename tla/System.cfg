\* Two manifests in any order, one lost process or statement in all.
SPECIFICATION SystemSpec
CONSTANTS
  go1 = go1
  go2 = go2
  py1 = py1
  alice = alice
  None = None
  Handler = {go1}
  Worker = {py1}
  Reviewer = {alice}
  Publisher = {go2}
  Manifest <- MCManifest
  Body <- MCBody
  Entries <- MCEntries
  Digest <- MCDigest
  Segment <- MCSegment
  RunId = {"run"}
  Damaged = "damaged"
  MaxManifests = 2
  MaxTotalBytes = 3
  MaxFileBytes = 3
  MaxEntries = 3
  MaxAttempts = 2
  MaxCrashes = 1
  MaxIgnored = 1
  Timely = TRUE
INVARIANTS
  AnalysesReadRaw
  ReceiptsAreTraceable
  PublishedIsReviewed
PROPERTIES
  ImplementsIngest
  ImplementsPipelineA
  ImplementsReview
CHECK_DEADLOCK FALSE
