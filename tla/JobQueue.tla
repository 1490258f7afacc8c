------------------------------ MODULE JobQueue ------------------------------
(***************************************************************************)
(* The durable jobs table (migrations/00030_jobs.sql) and the workers that *)
(* poll it: the Go worker loop (internal/jobs) and its Python twin         *)
(* (workers/worker.py, workers/labdata/db.py).                             *)
(*                                                                         *)
(* Every SQL statement that commits on its own is one action.  Complete is *)
(* one UPDATE; Fail is a SELECT followed by an UPDATE, and ReclaimStale is *)
(* a SELECT of ids followed by one Fail per id, so other workers may act   *)
(* between those steps.  No statement after the claim looks at the row's   *)
(* state or at locked_by, and nothing renews a lock.                       *)
(*                                                                         *)
(* Time is abstracted to the two comparisons with now() the code makes:    *)
(* "due" is available_at <= now() and "expired" is locked_until < now().   *)
(***************************************************************************)
EXTENDS Naturals, FiniteSets

CONSTANTS
  Key,          \* idempotency keys; at most one row per key
  Worker,       \* worker processes, Go and Python
  Reclaimer,    \* the workers that run ReclaimStale (the Go ones)
  Handles,      \* worker -> the keys whose job type it has a handler for
  Priority,     \* key -> priority given by the call that enqueues it
  MaxAttempts,  \* max_attempts of a row
  MaxCrashes,   \* bound on worker crashes and unrecorded outcomes
  Timely,       \* TRUE: no lock expires under a live worker that holds its job
  None          \* no worker, no key

ASSUME ConstantsOK ==
  /\ IsFiniteSet(Key)
  /\ IsFiniteSet(Worker)
  /\ Reclaimer \subseteq Worker
  /\ Handles \in [Worker -> SUBSET Key]
  /\ Priority \in [Key -> Nat]
  /\ MaxAttempts \in Nat \ {0}
  /\ MaxCrashes \in Nat
  /\ Timely \in BOOLEAN
  /\ None \notin Worker \cup Key

VARIABLES
  jobs,     \* the table: key -> row
  pc,       \* worker -> where it is in its loop
  cur,      \* worker -> the key it is executing or failing
  seen,     \* worker -> attempt_count it read, at the claim or in Fail
  todo,     \* worker -> ids listed by its ReclaimStale, not yet failed
  crashes   \* number of crashes so far

vars == <<jobs, pc, cur, seen, todo, crashes>>

JobState == {"absent", "queued", "running", "succeeded", "dead"}

Row == [state: JobState, attempts: Nat, lockedBy: Worker \cup {None},
        due: BOOLEAN, expired: BOOLEAN, born: Nat]

NoRow == [state |-> "absent", attempts |-> 0, lockedBy |-> None,
          due |-> FALSE, expired |-> FALSE, born |-> 0]

Busy == {"handling", "failing", "releasing"}

\* The table and the workers' loops are well formed: a row is in a state the
\* code writes, and a worker names a job exactly while it is busy with one.
TypeOK ==
  /\ jobs \in [Key -> Row]
  /\ pc \in [Worker -> {"idle", "handling", "failing", "reclaiming", "releasing"}]
  /\ cur \in [Worker -> Key \cup {None}]
  /\ \A w \in Worker : cur[w] \in Key <=> pc[w] \in Busy
  /\ seen \in [Worker -> Nat]
  /\ todo \in [Worker -> SUBSET Key]
  /\ crashes \in 0 .. MaxCrashes

Init ==
  /\ jobs = [k \in Key |-> NoRow]
  /\ pc = [w \in Worker |-> "idle"]
  /\ cur = [w \in Worker |-> None]
  /\ seen = [w \in Worker |-> 0]
  /\ todo = [w \in Worker |-> {}]
  /\ crashes = 0

-----------------------------------------------------------------------------
(***************************************************************************)
(* The queue operations.                                                   *)
(***************************************************************************)

Stored == {k \in Key : jobs[k].state # "absent"}

\* INSERT ... ON CONFLICT (idempotency_key) DO NOTHING: a key that has a row,
\* in whatever state, is returned unchanged, so only a new key changes state.
Enqueue(k) ==
  /\ jobs[k].state = "absent"
  /\ jobs' = [jobs EXCEPT ![k] = [NoRow EXCEPT !.state = "queued",
                                               !.due = TRUE,
                                               !.born = Cardinality(Stored)]]
  /\ UNCHANGED <<pc, cur, seen, todo, crashes>>

\* Mutant: the pick also wants attempts left, as the table promises.
ClaimableWithinBudget(w) ==
  {k \in Handles[w] : /\ jobs[k].state = "queued"
                      /\ jobs[k].due
                      /\ jobs[k].attempts < MaxAttempts}

\* WHERE state = 'queued' AND available_at <= now() AND job_type = ANY(...).
Claimable(w) ==
  {k \in Handles[w] : jobs[k].state = "queued" /\ jobs[k].due}

\* ORDER BY priority DESC, created_at ASC.
Before(i, j) ==
  \/ Priority[i] > Priority[j]
  \/ Priority[i] = Priority[j] /\ jobs[i].born < jobs[j].born

\* Mutant: the claim leaves attempt_count to a later statement.
ClaimedUncounted(row, w) ==
  [row EXCEPT !.state = "running", !.lockedBy = w, !.expired = FALSE]

Claimed(row, w) ==
  [row EXCEPT !.state = "running", !.attempts = row.attempts + 1, !.lockedBy = w,
              !.expired = FALSE]

\* One transaction under FOR UPDATE SKIP LOCKED: pick, mark running, count.
Claim(w) ==
  /\ pc[w] = "idle"
  /\ \E k \in Claimable(w) :
       /\ \A i \in Claimable(w) \ {k} : ~Before(i, k)
       /\ jobs' = [jobs EXCEPT ![k] = Claimed(@, w)]
       /\ cur' = [cur EXCEPT ![w] = k]
       /\ seen' = [seen EXCEPT ![w] = jobs[k].attempts + 1]
  /\ pc' = [pc EXCEPT ![w] = "handling"]
  /\ UNCHANGED <<todo, crashes>>

Succeeded(row) ==
  [row EXCEPT !.state = "succeeded", !.lockedBy = None, !.expired = FALSE]

\* The handler returned no error: UPDATE ... SET state = 'succeeded' WHERE id.
Complete(w) ==
  /\ pc[w] = "handling"
  /\ jobs' = [jobs EXCEPT ![cur[w]] = Succeeded(@)]
  /\ pc' = [pc EXCEPT ![w] = "idle"]
  /\ cur' = [cur EXCEPT ![w] = None]
  /\ UNCHANGED <<seen, todo, crashes>>

\* First statement of Fail: SELECT attempt_count, max_attempts.
LoadCounts(w, k, next) ==
  /\ cur' = [cur EXCEPT ![w] = k]
  /\ seen' = [seen EXCEPT ![w] = jobs[k].attempts]
  /\ pc' = [pc EXCEPT ![w] = next]
  /\ UNCHANGED <<jobs, crashes>>

\* The handler returned an error (or there is no handler): Fail begins.
HandlerFails(w) ==
  /\ pc[w] = "handling"
  /\ LoadCounts(w, cur[w], "failing")
  /\ UNCHANGED todo

\* Mutant: the condition on locked_until is dropped.
StaleOrNot == {k \in Key : jobs[k].state = "running"}

Stale == {k \in Key : jobs[k].state = "running" /\ jobs[k].expired}

\* ReclaimStale's SELECT: the running rows whose lock has expired.
ReclaimScan(w) ==
  /\ w \in Reclaimer
  /\ pc[w] = "idle"
  /\ Stale # {}
  /\ todo' = [todo EXCEPT ![w] = Stale]
  /\ pc' = [pc EXCEPT ![w] = "reclaiming"]
  /\ UNCHANGED <<jobs, cur, seen, crashes>>

\* ReclaimStale's loop: Fail begins on the next id, whatever its row is by now.
ReclaimNext(w) ==
  /\ pc[w] = "reclaiming"
  /\ \E k \in todo[w] :
       /\ LoadCounts(w, k, "releasing")
       /\ todo' = [todo EXCEPT ![w] = @ \ {k}]

\* Mutant: off by one, the job is dead only after one attempt too many.
FailedLate(row, attempts) ==
  IF attempts > MaxAttempts
  THEN [row EXCEPT !.state = "dead", !.lockedBy = None, !.expired = FALSE]
  ELSE [row EXCEPT !.state = "queued", !.lockedBy = None, !.expired = FALSE,
                   !.due = FALSE]

\* The row Fail's second statement writes: dead, or queued with a backoff.
Failed(row, attempts) ==
  IF attempts >= MaxAttempts
  THEN [row EXCEPT !.state = "dead", !.lockedBy = None, !.expired = FALSE]
  ELSE [row EXCEPT !.state = "queued", !.lockedBy = None, !.expired = FALSE,
                   !.due = FALSE]

\* Second statement of Fail: UPDATE ... WHERE id, decided by the counts read.
FailWrite(w) ==
  /\ pc[w] \in {"failing", "releasing"}
  /\ jobs' = [jobs EXCEPT ![cur[w]] = Failed(@, seen[w])]
  /\ cur' = [cur EXCEPT ![w] = None]
  /\ pc' = [pc EXCEPT ![w] = IF todo[w] = {} THEN "idle" ELSE "reclaiming"]
  /\ UNCHANGED <<seen, todo, crashes>>

-----------------------------------------------------------------------------
(***************************************************************************)
(* The environment.                                                        *)
(***************************************************************************)

\* The process dies and restarts, or a Complete, Fail or ReclaimStale call
\* returns a database error that the loop only logs: the outcome is lost.
Crash(w) ==
  /\ pc[w] # "idle"
  /\ crashes < MaxCrashes
  /\ crashes' = crashes + 1
  /\ pc' = [pc EXCEPT ![w] = "idle"]
  /\ cur' = [cur EXCEPT ![w] = None]
  /\ todo' = [todo EXCEPT ![w] = {}]
  /\ UNCHANGED <<jobs, seen>>

Overdue(row) == [row EXCEPT !.expired = TRUE]

Ready(row) == [row EXCEPT !.due = TRUE]

\* The clock passes locked_until.
LockExpires(k) ==
  /\ jobs[k].state = "running"
  /\ ~jobs[k].expired
  /\ Timely => \A w \in Worker : cur[w] # k
  /\ jobs' = [jobs EXCEPT ![k] = Overdue(@)]
  /\ UNCHANGED <<pc, cur, seen, todo, crashes>>

\* The clock passes available_at.
BackoffElapses(k) ==
  /\ jobs[k].state = "queued"
  /\ ~jobs[k].due
  /\ jobs' = [jobs EXCEPT ![k] = Ready(@)]
  /\ UNCHANGED <<pc, cur, seen, todo, crashes>>

-----------------------------------------------------------------------------

Step(w) ==
  \/ Claim(w)
  \/ Complete(w)
  \/ HandlerFails(w)
  \/ ReclaimScan(w)
  \/ ReclaimNext(w)
  \/ FailWrite(w)

Clock(k) == LockExpires(k) \/ BackoffElapses(k)

Next ==
  \/ \E k \in Key : Enqueue(k)
  \/ \E w \in Worker : Step(w) \/ Crash(w)
  \/ \E k \in Key : Clock(k)

Spec == Init /\ [][Next]_vars

(***************************************************************************)
(* The worker loops never stop polling and the clock advances; a handler   *)
(* returns.  Enqueues and crashes are never forced.                        *)
(***************************************************************************)
FairSpec ==
  /\ Spec
  /\ \A w \in Worker : WF_vars(Step(w))
  /\ \A k \in Key : WF_vars(Clock(k))
-----------------------------------------------------------------------------
(***************************************************************************)
(* Properties.                                                             *)
(***************************************************************************)

\* Fail compares attempt_count with max_attempts before it writes, so a row
\* can be requeued on a count that is no longer current.  Each other worker
\* can do so at most once: the budget is overrun by at most one attempt per
\* other worker, and never with a single worker.
AttemptsBounded ==
  \A k \in Key : jobs[k].attempts <= MaxAttempts + Cardinality(Worker) - 1

\* However often a job is started again, no two workers run the same attempt:
\* the claim's SELECT and its attempt_count + 1 are one transaction.
DistinctAttempts ==
  \A v, w \in Worker :
    /\ v # w
    /\ pc[v] = "handling"
    /\ pc[w] = "handling"
    /\ cur[v] = cur[w]
    => seen[v] # seen[w]

\* A worker that is executing a job holds that job's lock: the row is running
\* and locked_by names it.  This is what keeps two workers off one job.
LockCoversHandler ==
  \A w \in Worker :
    pc[w] = "handling" => /\ jobs[cur[w]].state = "running"
                          /\ jobs[cur[w]].lockedBy = w

\* What ReclaimStale is about to requeue or bury is, at that moment, a running
\* row whose lock has expired; not one that finished or was claimed again.
ReclaimsOnlyStale ==
  \A w \in Worker :
    pc[w] = "releasing" => /\ jobs[cur[w]].state = "running"
                           /\ jobs[cur[w]].expired

\* Every job that is enqueued is, from some moment on, succeeded or dead for
\* good, even when handlers outlive their locks and outcomes are overwritten.
EventuallySettled ==
  \A k \in Key :
    (jobs[k].state # "absent") ~> [](jobs[k].state \in {"succeeded", "dead"})

\* The queue implements the life cycle of a job (JobLifecycle): one owner at a
\* time, succeeded and dead are final, at most MaxAttempts attempts.
Lifecycle == INSTANCE JobLifecycle WITH
  state <- [k \in Key |-> jobs[k].state],
  attempts <- [k \in Key |-> jobs[k].attempts],
  owner <- [k \in Key |-> jobs[k].lockedBy]

ImplementsLifecycle == Lifecycle!Spec

-----------------------------------------------------------------------------
(***************************************************************************)
(* Inductive strengthenings of the properties above (DatabaseProofs).      *)
(***************************************************************************)

\* A key without a row has no attempts and no owner.
AbsentIsBlank ==
  \A k \in Key :
    jobs[k].state = "absent" => jobs[k].attempts = 0 /\ jobs[k].lockedBy = None

\* A running handler belongs to an attempt that was counted.
AttemptsInv ==
  /\ AbsentIsBlank
  /\ DistinctAttempts
  /\ \A w \in Worker :
       pc[w] = "handling" => 1 <= seen[w] /\ seen[w] <= jobs[cur[w]].attempts

\* The workers between the two statements of Fail that will requeue k.
Requeuers(k) ==
  {w \in Worker : /\ pc[w] \in {"failing", "releasing"}
                  /\ cur[w] = k
                  /\ seen[w] < MaxAttempts}

\* Once the budget is used up, every further attempt of k is paid for by a
\* worker that read the count before that, or by the row being queued already.
WithinBudget(k) ==
  jobs[k].attempts >= MaxAttempts =>
    jobs[k].attempts + Cardinality(Requeuers(k))
      + (IF jobs[k].state = "queued" THEN 1 ELSE 0)
    <= MaxAttempts + Cardinality(Worker) - 1

BudgetInv == \A k \in Key : WithinBudget(k)

OneReclaimer == \A v, w \in Reclaimer : v = w

\* With timely handlers and one reclaimer: a worker that executes or fails its
\* own job holds its unexpired lock; the rows a reclaimer has listed stay
\* running and expired until it fails them; counts read are current.
WorkerInv(w) ==
  /\ pc[w] \in {"handling", "failing"} =>
       /\ jobs[cur[w]].state = "running"
       /\ jobs[cur[w]].lockedBy = w
       /\ ~jobs[cur[w]].expired
  /\ pc[w] = "releasing" =>
       /\ jobs[cur[w]].state = "running"
       /\ jobs[cur[w]].expired
       /\ cur[w] \notin todo[w]
  /\ \A k \in todo[w] : jobs[k].state = "running" /\ jobs[k].expired
  /\ pc[w] \in {"failing", "releasing"} => seen[w] = jobs[cur[w]].attempts
  /\ pc[w] \in {"reclaiming", "releasing"} => w \in Reclaimer
  /\ pc[w] \notin {"reclaiming", "releasing"} => todo[w] = {}

RowInv(k) ==
  /\ jobs[k].attempts <= MaxAttempts
  /\ jobs[k].state = "queued" => jobs[k].attempts < MaxAttempts

LockInv ==
  /\ AbsentIsBlank
  /\ \A w \in Worker : WorkerInv(w)
  /\ \A k \in Key : RowInv(k)
=============================================================================
