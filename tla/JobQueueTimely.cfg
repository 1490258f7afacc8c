\* One Go worker (the only reclaimer) and two Python workers; handlers finish
\* within the lock TTL or their process dies.
SPECIFICATION Spec
CONSTANTS
  go1 = go1
  go2 = go2
  py1 = py1
  py2 = py2
  pull = pull
  publish = publish
  parse = parse
  None = None
  Key = {pull, publish, parse}
  Worker = {go1, py1, py2}
  Reclaimer = {go1}
  Handles <- MCHandles
  Priority <- MCPriority
  MaxAttempts = 2
  MaxCrashes = 2
  Timely = TRUE
INVARIANT LockCoversHandler
PROPERTY ImplementsLifecycle
CHECK_DEADLOCK FALSE
