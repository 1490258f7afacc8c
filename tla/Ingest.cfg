\* One Go worker; up to two of nine manifests are posted for the run.
SPECIFICATION Spec
CONSTANTS
  go1 = go1
  None = None
  Handler = {go1}
  Manifest <- MCManifest
  Body <- MCBody
  Entries <- MCEntries
  Digest <- MCDigest
  RunId = {"run"}
  Damaged = "damaged"
  MaxManifests = 2
  MaxTotalBytes = 3
  MaxFileBytes = 3
  MaxEntries = 3
  MaxAttempts = 3
  MaxCrashes = 2
  MaxIgnored = 1
  Timely = TRUE
INVARIANTS
  
  StagingIsBounded
  ManifestsAreSatisfiable
  FilesFirst
  MetadataGate
  OnlyFaultsDiverge
PROPERTY RawImmutable
CHECK_DEADLOCK FALSE
