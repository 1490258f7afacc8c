\* Two Go workers, both reclaimers, and one Python worker; a handler may outlive
\* its lock, as a long pull or notebook does.
SPECIFICATION FairSpec
CONSTANTS
  go1 = go1
  go2 = go2
  py1 = py1
  py2 = py2
  pull = pull
  publish = publish
  parse = parse
  None = None
  Key = {pull, parse}
  Worker = {go1, go2, py1}
  Reclaimer = {go1, go2}
  Handles <- MCHandles
  Priority <- MCPriority
  MaxAttempts = 2
  MaxCrashes = 1
  Timely = FALSE
INVARIANTS
  AttemptsBounded
  DistinctAttempts
PROPERTY EventuallySettled
CHECK_DEADLOCK FALSE
