\* Two Go processes (API or worker) and one Python worker on one run.
SPECIFICATION RunsSpec
CONSTANTS
  go1 = go1
  go2 = go2
  py = py
  run = run
  Run = {run}
  GoActor = {go1, go2}
  PyActor = {py}
  GoRequest <- MCGoRequest
  PyRequest <- MCPyRequest
  Unlocked = Unlocked
  MaxAudit = 4
INVARIANTS
  AuditIsPath
  NoTrapState
PROPERTY ImplementsRunLifecycle
CHECK_DEADLOCK FALSE
