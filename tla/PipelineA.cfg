\* Two Python workers, and handlers that may outlive their locks.
SPECIFICATION FairSpec
CONSTANTS
  py1 = py1
  py2 = py2
  Family = {"fet_transfer", "notebook", "session"}
  Worker = {py1, py2}
  MaxAttempts = 2
  MaxCrashes = 2
  Timely = FALSE
INVARIANTS
  ReviewIsComplete
  OneAnalyst
PROPERTIES
  VerdictHolds
  ParsingEnds
CHECK_DEADLOCK FALSE
