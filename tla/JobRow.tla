------------------------------- MODULE JobRow -------------------------------
(***************************************************************************)
(* One row of the jobs table as its handler sees it: the state and the     *)
(* attempt_count, and what each queue operation writes to them.  JobQueue  *)
(* models the table and its interleavings, and bounds the attempts; the    *)
(* modules about one job's handler take the row from here.                 *)
(***************************************************************************)
EXTENDS Naturals

NoJob == [state |-> "absent", attempts |-> 0]

JobRecord ==
  [state: {"absent", "queued", "running", "succeeded", "dead"}, attempts: Nat]

\* INSERT ... ON CONFLICT (idempotency_key) DO NOTHING.
Enqueued(job) ==
  IF job.state = "absent" THEN [job EXCEPT !.state = "queued"] ELSE job

\* Mutant: the claim does not count the attempt.
StartedUncounted(job) == [job EXCEPT !.state = "running"]

Started(job) == [state |-> "running", attempts |-> job.attempts + 1]

Succeeded(job) == [job EXCEPT !.state = "succeeded"]

\* Second statement of Fail, the handler's or ReclaimStale's: dead, or queued for
\* another attempt.  It is decided by the attempt_count that the first has read,
\* and changes the row whatever it is by now.
Returned(job, seen, maxAttempts) ==
  [job EXCEPT !.state = IF seen >= maxAttempts THEN "dead" ELSE "queued"]
=============================================================================
