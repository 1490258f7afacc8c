\* Two notifications of a run, two Go workers that may overlap, and an admin who turns
\* delivery on and off.
SPECIFICATION FairSpec
CONSTANTS
  review = review
  again = again
  run = run
  go1 = go1
  go2 = go2
  None = None
  Note = {review, again}
  Key = {run}
  KeyOf <- MCKeyOf
  Photos <- MCPhotos
  Missing = {"gone.png"}
  Worker = {go1, go2}
  Config <- MCConfig
  EnvToken = TRUE
  MaxAttempts = 3
  MaxFaults = 2
INVARIANTS
  LogIsTrue
  
PROPERTY EventuallyTold
CHECK_DEADLOCK FALSE
