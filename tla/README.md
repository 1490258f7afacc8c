# Verification of the lab data system

This directory holds TLA+ models of the lab data system (Go services, Python
workers, Postgres), TLC configurations that check them on small instances, and
theorems with TLAPS proofs. Paths below are relative to the repository root.

## 1. The system

A measurement run goes through three pipelines. Each is driven by one row of
the `jobs` table and moves `runs.state` along one transition graph:

    agent POSTs a manifest            declared
    pull_run     (Go worker)          pulling, unpacked, verified, promoted
    parse_run    (Python worker)      parsing, validated, processing, awaiting_review
    reviewer     (API request)        approved | changes_requested | quarantined
    publish_run  (Go worker)          publishing, published

In the deployment the repository describes (`README.md`, Quickstart; `Makefile`)
there is one Go worker, the only process that reclaims stale jobs, one Python
worker and one API server, all on one Postgres database at READ COMMITTED. There
is no other coordination between them.

### Inventory

| Component | State it keeps | Operations | Hard behaviours | Correct if |
|---|---|---|---|---|
| **Run state machine**: `internal/statemachine`, `migrations/00100` | `runs.state`, `run_state_transitions` | `TransitionTx` (Go), `transition_run` (SQL, for Python) | Go and Python writers race; the graph exists twice | every change is a legal edge, atomic with its audit row; no state is a trap |
| **Jobs queue**: `internal/jobs`, `workers/labdata/db.py`, `workers/worker.py` | `jobs` rows: state, attempt_count, locked_by, locked_until, available_at | Enqueue, ClaimTypes, Complete, Fail (two statements), ReclaimStale (a list, then one Fail each) | locks are never renewed; late outcomes overwrite by id; lost outcomes | one worker per job, bounded attempts, every job settles |
| **Ingest**: `internal/ingest`, `internal/transfer`, `internal/run` | `runs`, `manifests`, `run_files`; staging directory; raw store | manifest POST; `HandlePullRun` (fetch, hash, unpack, verify, promote, record, hand off) | death between file and database steps; file system errors that are passed over; manifests that supersede each other during a pull | raw bytes are verified and immutable, and unmixed unless the file system fails; the database follows the files |
| **Pipeline A**: `workers/labdata/pipeline.py`, `process_session.py`, `internal/session` | `parser_results`, `analysis_artifacts`, `review_artifacts`, processed tree | `parse_run` for two families, `process_session`, the session request | autocommit: every statement is a commit; one output directory for all attempts, never cleared | reviewers see every record of one complete attempt; verdicts are not undone |
| **Review and Pipeline B**: `internal/review` | `review_decisions`, `published_results` | the review page, approve, request changes, quarantine; `handlePublish` | requests of three commits; racing reviewers; pages that are out of date; resumed and overlapping publishers | decisions are verdicts; approvals are informed; receipts cite the right approval, list the approved analysis and are not duplicated |
| **Safe unpack**: `internal/transfer/transfer.go` | the unpack directory | entry checks, byte limits, `VerifyAgainstManifest`, `Promote`, `lockDown` | limits at exactly zero remaining; giving up in the middle | nothing unsafe is promoted, limits hold |
| **Manifest contract**: `internal/manifest` | none | validation, canonical hash | sequential | the fields it lets in do not contradict each other |
| **Agents**: `internal/agentauth`, `internal/admin/agents.go` | `agents`, `agent_allowed_roots` | register, rotate the key, PATCH (`SetEnabled`, `SetAllowedRoots`), `Authenticate`, `ValidateMeasPath` | overlapping replacements of the roots; key and roots are read by two queries | revoked roots stay revoked; no manifest below a revoked root |
| **Users and tokens**: `internal/auth`, `internal/admin/users.go`, `platform/auth_middleware.go` | `users`; tokens at the clients | register, login, `VerifyAccessToken`, `handlePatchUser` | claims that are out of date; admins who demote each other while requests run | a principal is an account as it was during the request |
| **Idempotency middleware**: `internal/platform/idempotency*.go` | `idempotency_keys` | look up, run the handler, save | concurrent requests with one key; expired rows; answers that are not saved | all replays of a key agree |
| **Rate limiter**: `internal/platform/ratelimit*.go` | hits in memory or in Postgres | count, then insert | count and insert are two statements | at most the limit per window |
| **Notifications**: `internal/notify`, `insert_notification` in `workers/labdata/db.py` | `notifications`, `notification_config` | Enqueue, delivery job, configuration | delivery is at least once; errors of status writes are ignored | the log is true, every event with a job is delivered, repeats are bounded |
| **Listings, catalog, admin jobs page**: `internal/admin/jobs.go`, `internal/run/api.go`, `internal/catalog` | catalog rows | queries, single inserts, keyset pagination | pages under concurrent inserts | no row is skipped |
| **File serving, Jupyter, web UI** | none | signed URLs, presentation | none | out of scope: I/O |
| **Parsers and notebooks** | files | numerical analysis | none | out of scope: floating point |

The components meet in four places: `runs.state`, which every pipeline moves and
checks; the `jobs` table, through which each pipeline starts the next; the
directories of a run; and the middleware chain (`internal/platform/server.go`:
token, rate limit, idempotency key, handler), which every API request passes.
Nothing drives a run on from `needs_metadata`, `changes_requested`,
`quarantined`, `parser_failed`, `processing_failed` or `review_rejected` except
a job that is still being retried. Notebook runs stop at `validated` by design:
their session run carries on.

## 2. The modules

| Module | What it models |
|---|---|
| `RunStates` | the states and the two copies of the transition graph |
| `RunLifecycle` | abstract: runs move along edges, atomically, and every move is recorded |
| `StateMachine` | `TransitionTx` and `transition_run` as transactions: lock the row, check, update, commit or roll back |
| `JobLifecycle` | abstract: one owner, bounded attempts, final states |
| `JobQueue` | the `jobs` table with concurrent Go and Python workers, statement by statement |
| `DatabaseProofs` | theorems about `StateMachine` (its runs) and `JobQueue` (its jobs) |
| `JobRow` | one row of that table, for the modules about one job's handler |
| `ManifestContract` | `ValidateAt`: the fields of a manifest that have a problem |
| `Archives` | `SafeUnpack`'s checks and limits for one entry, `VerifyAgainstManifest` |
| `Ingest` | manifest POST and `HandlePullRun`, for one run, with the two modules above |
| `PipelineA` | the Python handlers and the session request, for one run |
| `Review` | the review page, the reviewers' requests and `handlePublish`, for one run |
| `Notify` | notifications rows, their jobs, `handleSend` and the configuration |
| `System` | `Ingest`, `PipelineA` and `Review` composed over one run |
| `Agents` | one agent: its key, its roots, and the manifest POSTs it is let in with |
| `Requests` | accounts, tokens and the middleware chain, with `handlePatchUser` as the handler |
| `RequestsProofs` | theorems about `Requests` |
| `IngestProofs`, `PipelineAProofs`, `ReviewProofs`, `SystemProofs`, `AgentsProofs`, `NotifyProofs` | theorems about those modules |
| `MC...` | finite instances for TLC |

**Granularity.** One action is one commit or one file system operation that
another process, or a later attempt, can observe. What a transaction does is one
action: `Commit` in `StateMachine` writes the state and the audit row together,
as the code does. What is spread over statements in autocommit mode is spread
over actions: `Fail` is `LoadCounts` then `FailWrite`, because the count that
decides between `queued` and `dead` is read before the row is written, by id and
whatever its state is by then. `StateMachine` models the transactions themselves;
the theorem that they implement `RunLifecycle` is why `Ingest`, `PipelineA` and
`Review` may take a transition as one atomic `Transition`. They likewise take
the life of their one job from `JobRow`, whose operations are those of
`JobQueue`. In `PipelineA`, `Review` and `Notify`, where a second worker may have
the job by then, `Fail` and `ReclaimStale` are the same statements as in
`JobQueue`; `Ingest` has them as one step, which writes any count that may have
been read (`Seen`) unless `Timely` says that only the current one can have been.
How long a handler keeps its lock is represented by `Timely`:

* `Timely = TRUE`: a lock expires only when its holder is gone. This is the
  assumption the code makes (`workers/labdata/db.py`, "worker must renew or crash
  before then") and that nothing in it enforces.
* `Timely = FALSE`: a handler may outlive its five minutes, its job is reclaimed
  and another worker runs beside it.

**Time** appears only as the comparisons the code makes: `due` is
`available_at <= now()`, `expired` is `locked_until < now()`.

**Files** are names with digests; a directory is a set of them, `{}` one that
does not exist. `staged` is the unpack directory, `raw` the run's directory in
the raw store, and `archive` the one archive file the pull works with: archives
of superseding manifests share a name in staging. `Crash` in `Ingest` stands
for the death of the worker and for a database or file system call that fails:
both end in a job that is attempted again, later, from whatever was left behind.
Two errors of the file system end nothing, because the code ignores them
(`ignored`, at most `MaxIgnored`): when `RemoveAll` of the unpack directory fails
(`internal/ingest/pipeline.go:126`), any part of what was there stays and
`SafeUnpack` goes on beside it, failing only where a file is in the way
(`Obstructed`); when `lockDown` fails (`internal/transfer/transfer.go:329`), the
run is recorded all the same and its tree stays writable.
An archive is a sequence of entries (`Entries`) and is unpacked one entry per
step, so that a death leaves any prefix of it on the disk. `local` is what a
handler keeps in memory across those steps: the manifest it loaded, the archive
it opened, the entry it is at. `Archives` says of each entry whether it is
rejected before anything is written, how many bytes reach the disk, and whether
a limit is found to be overrun only then. `Verify` compares what `SafeUnpack`
returned (`FilesIn` the archive that was opened), not the directory, as the code
does. Only manifests that `ValidateAt` accepts are ever declared.

**Pipeline A** is driven by `Script`, the sequence of inserts and transitions of
each family after its analysis. Rows and files are represented by the attempt
that wrote them, which is what the properties tell apart. Nothing clears the
output directory (`process_session.py:84`): the one plot of a device run replaces
that of the attempt before (`Plotted`), while the notebooks of a session may leave
plots of earlier attempts in place, and `InsertArtifact` lists whatever is there, as
`notebook_runner.py:54` globs it. The Go process that reclaims the job is
`reclaimer`. `Raise` is any
exception the handler does not catch, `GiveUpFails` an error of the statement
that `_handle_parse_failure` swallows.

**Review** follows a request by `post[r].next`, the next statement it has to
execute. `verdicts` are the audit rows of the transitions out of
`awaiting_review` together with the review artifact that was the latest then;
the code stores the former, the latter is a history value. `Reopen`, `Rereview`
and `Resubmit` are Pipeline A as far as reviewers can see it: a parse job that
is retried while its run is quarantined takes the run up again, inserts a review
artifact and, commits later, submits the run with it. `shown` is the review
artifact on the page a reviewer has open; no request carries it, which is why
`ApprovalsAreInformed` has something to say. A receipt copies the artifacts of
every analysis of the run (`analyses`): `publish.go:213` selects them by run
alone. A worker between two jobs may be in `ReclaimStale`; `seen` is the count
that `Fail` has read. `ReclaimLive` lists a job whose lock has expired under a
live publisher; it counts as one of the `MaxCrashes`.

**Agents** has the transactions of `SetAllowedRoots` statement by statement at
READ COMMITTED: `BeginDelete` takes the snapshot of the DELETE, `Delete` and
`Insert` wait (`WaitsFor`) for rows another transaction has deleted or inserted,
a row committed away in the meantime is skipped and one committed in the
meantime is not seen, and of two transactions that wait for each other
PostgreSQL aborts one (`Deadlocked`). `by` tells a row of one request from an
equal row of another. A path is the sequence of its elements, so that
`filepath.Clean`, `..` and the directory boundary of the prefix test mean what
they mean in the code. A path with `..` is refused before it is cleaned; a root
is only cleaned (`Clean`), as `ResolveUnderRoot` does.

**Requests** follows a request through `pc`: each statement of the chain is one
step, so that others may run between the count and the insert of the limiter,
and between the look-up and the save of the idempotency store. The limiter in
memory, which holds a mutex, is one step. `seen` (what the account was while the
request ran), `answered`, `lost` (the keys with an answer that `Save` failed to
keep, whose error `idempotency.go:47` ignores), `again` (sent when its key had
been answered and no `Save` was still to come) and `replayed` are history. In
the deployment the limit for principals is 600 a minute in Postgres
(`cmd/server/main.go:88`) and the limit for addresses is off (`AuthIPPerMinute`
is not set there); the model has both, as the constants `PerMinute` and
`IPPerMinute`. The comments speak of a nightly job that removes old keys
(`platform/idempotency.go:9`, `idempotency_store.go:11`,
`migrations/00002_idempotency.sql`); there is none in the program, and the model
has none.

**Notify** keeps per notification its row and what has arrived in the chat.
`SendFails` covers a photo that cannot be sent (`Missing`), a call that fails and
a call whose answer is lost after Telegram has carried it out. `subject` is the
`notification_id` in the payload of a job: it differs from the notification that
asked for it when the key is taken, as Python's key, which names only the run,
may be. `Items` is the text and then the photos; the loop of `handleSend` passes
over a photo whose path is empty (`NoPath`), so that the step after the last item
with a path (`Left` is empty) is already the row's update. A worker that is idle
may list a stale job and fail it, statement by statement, as in `Review`.

**Environment.** `Driven`/`Downstream` in `Ingest` and `PipelineA` are the later
pipelines, reduced to the edges they use. `System` replaces them by the pipelines
themselves.

**System** is one run from its first manifest to its receipt. It extends
`Ingest` and has two instances, `Analyst` of `PipelineA` and `Gate` of `Review`.
All three work on the one `state`; the hand-off of the first enqueues the parse
job of the second, whose review artifacts are the `versions` of the third. What
each component modelled of the others (`Downstream`, `Driven`, `Reopen`,
`Rereview`, `Resubmit`) is not among the steps of `System`. Of its own it has
what crosses the components and no component can say: `looked`, the manifest an
attempt at parsing has loaded before its first transition; `ParseDir`, the
directory it derives from that manifest, and `PullDir`, the one the pull handler
derived from the runs row; and `cited`, what each receipt takes its columns and
its copied rows from. An analysis succeeds only if its file is there
(`Readable`). `Parsing` is written from `Analyst`'s steps with one conjunct
more, so that every guard and every commit of `PipelineA` is kept.

That the environments of the components were right is itself a property: the
system implements `Ingest` as it stands (`ImplementsIngest`), `PipelineA`
(`ImplementsPipelineA`, where the run counts as promoted and the parse job as
enqueued until they are) and `Review` (`ImplementsReview`, where the run counts
as submitted once until the first verdict, and the states Pipeline A moves
through on the way to another submission count as `parsing`). The two mappings
are the substitutions of `AsPipelineA` and `AsReview`.

## 3. What TLC checks

Constants that bound a model: `MaxAttempts` (the `max_attempts` column; 5 in the
code, 2 to 5 here), `MaxCrashes`/`MaxFaults`/`MaxLost` (deaths, lost calls and
lost outcomes; in `System` those of all components together), `MaxAudit` (audit
rows per run), `MaxManifests`, `MaxReviews` (review artifacts), `MaxRequests`,
`MaxExpiries` (tokens, hits and answers that expire), `MaxIgnored` (file system
errors that are passed over).

| Run | Instance | Shows |
|---|---|---|
| `state_machine` | two Go processes and a Python one, one run, all requests the callers make | `AuditIsPath`: whoever wrote the rows, the log is one path of legal edges ending in the committed state. `NoTrapState`: every state but the documented halts can still reach `published`. `ImplementsRunLifecycle`: transactions with rollback implement atomic moves |
| `queue_timely` | one Go and two Python workers, three job types, `Timely`, two crashes | `LockCoversHandler`, and the table implements `JobLifecycle` |
| `queue_slow` | two Go workers that both reclaim and a Python one, two jobs, not `Timely` | `DistinctAttempts`; `AttemptsBounded`: the budget is overrun by at most one attempt per other worker; `EventuallySettled`: every job ends succeeded or dead for good although late outcomes overwrite newer ones |
| `ingest` | one Go worker; two of nine manifests in any order (an operator's, an instrument's that supersedes it and lacks metadata, one that does not match its archive, one that breaks the contract, five whose archives SafeUnpack stops at: symbolic link, `..`, repeated path, file below a file, byte limits), two crashes, three attempts, one error passed over | `RawIsVerified`, `RawImmutable`, `FilesFirst`, `MetadataGate`, `StagingIsBounded`, `ManifestsAreSatisfiable`; `OnlyFaultsDiverge`: record and hand-off can disagree with the raw store only after a death or a lost statement, and there can be other files or a writable tree only after that or an ignored error |
| `pipeline_a` | two Python workers, all families, not `Timely`, two crashes, `max_attempts` two, which may be overrun | `OneAnalyst`: the missing edge `parsing -> parsing` is what keeps a second attempt out of the analysis; `ReviewIsComplete`: a run under review has all records of one attempt, and only a session's tree has plots of others; `VerdictHolds`, `ParsingEnds` |
| `review` | two reviewers with pages that may be out of date, two Go workers that may overlap, two crashes, two submissions | `DecisionsAreVerdicts`; `ReceiptIsBacked`: every receipt cites the approval that moved the run and lists the analysis it approved, after those that were quarantined and none after it, one receipt per publisher at most, one announcement; `ApprovalsAreInformed`: another analysis than the one shown is approved only after a quarantine in between; `EventuallyPublished` |
| `agents` | two admins, lists of two roots in both orders and none, two PATCHes, one loss, a root to be cleaned, paths below a root and climbing out of one | `RevokedIsGone`: no interleaving, deadlock or rollback brings back a root that was taken away; `AdmissionIsCurrent`; `PatchesEnd` |
| `requests` | two slots (symmetric), an admin and a newcomer who may be promoted, one key, `PerMinute` 2, `IPPerMinute` 2, four requests, two expiries | `OverrunIsBounded`: the window is overrun by at most the other requests in flight; `PrincipalIsCurrent`; `ReplaysAgree`: one answer for all replays, and a second execution only after a lost or expired answer |
| `system` | one worker of each kind and one reviewer; two of three manifests in any order (an operator's; an instrument's with another archive and no device; a correction of the sample, to a name `sanitizeSeg` changes, and of the parameters), two attempts, one lost process, statement or ignored error in all components together | `AnalysesReadRaw`: the parser looks where the bytes are unless the manifests contradict each other; `ReceiptsAreTraceable`: a receipt stays true whatever is posted and decided later; `PublishedIsReviewed`: once there is a receipt nothing is added, the files are those of the approved attempt, and the copied rows are of that attempt and of quarantined ones; and the three refinements |
| `notify` | two notifications of one run under one key (Python's), one with a photo that is gone, two Go workers that may overlap, three attempts, two faults, an admin who turns delivery on and off | `LogIsTrue`, `RepeatsAreRetries`, `EventuallyTold` |

Two more runs show a statement of the repository's comments that the code does not
live up to. Both happen in the deployed configuration.

| Run | Violated | How |
|---|---|---|
| `review_abandoned` | `ApprovedIsPublished` | an approve request dies after its transition; a second approve is refused, so the run stays approved without a publish job |
| `agents_roots` | `RootsReplaced` | two PATCHes replace the roots at the same time: the DELETE of the second was taken before the first committed and does not see the rows it inserted, so the agent ends with the union of both lists. Nothing fails; both requests are answered with 200 |

Other promises that also break have no run of their own, because a passing
property says exactly when they do. After one death or one ignored error
(`OnlyFaultsDiverge`):

* `RecordMatchesRaw`: a death between the rename into the raw store and its
  commit, then a superseding manifest: `run_files` is filled from the new manifest
  for the old bytes, because `ErrAlreadyPromoted` is tolerated whatever the
  directory holds (`internal/ingest/pipeline.go:154`; `migrations/00020_runs.sql:40`
  calls these hashes authoritative for the stored data).
* `HandedOff`: the hand-off after the `promoted` commit is lost, the retry is a
  no-op, and no parse job exists (`internal/ingest/pipeline.go:214`).
* `PromotedIsSealed`: after a death between the rename and `lockDown` the retry
  returns before `lockDown` and the tree stays writable
  (`internal/transfer/transfer.go:317`); and so it does, with no death, when
  `lockDown` fails, because its error is dropped (`:329`).
* `RecordMatchesRaw` again: when the unpack directory of a failed attempt cannot be
  removed (`internal/ingest/pipeline.go:126`), `VerifyAgainstManifest` looks at what
  this attempt has unpacked and `Promote` renames the whole directory, leftovers
  included. They are files of the archives of recorded manifests (`RawIsVerified`),
  but neither verified nor in `run_files`.

Without any failure, by a manifest that is posted after the pull:

* The parser does not find the run. `handle_parse_run` derives the directory from
  the latest manifest and from the names as they are (`pipeline.py:77`), the pull
  handler from the first one and through `sanitizeSeg`; `labdata/store.py:11` says
  that these must match. `AnalysesReadRaw` therefore speaks of manifests that are
  `Consistent`; a correction of the sample, or one name with a slash, is enough for
  every parse of the run to fail.
* A receipt mixes manifests: `manifest_hash` is the first one's, the parameter
  versions are the latest one's (`publish.go:125`, `:162`). `ReceiptsAreTraceable`
  therefore says of the parameters only that some manifest of the run has them, not
  the one whose hash stands beside them.

* A receipt lists more than was approved: it copies the artifacts of every analysis
  of the run, those that were quarantined before the approval included, with paths
  that the approved analysis has since overwritten (`publish.go:213`).
  `ReceiptIsBacked` and `PublishedIsReviewed` say which rows these are.

In `PipelineA`, a parse job that dies after its last transition and is retried
while its run is quarantined takes the run up again and inserts its rows a second
time (`pipeline.py:82`). A session that is processed again may show its reviewers
plots of an earlier attempt beside its own (`notebook_runner.py:54`).

What the passing properties concede is part of what they say. `StagingIsBounded`
allows `MaxTotalBytes + MaxFileBytes`, not `MaxTotalBytes + 1`: a remainder of 0
means no limit to `writeFileWithHash`; and as much again for every removal of
the unpack directory that failed, because the limits count what one attempt
writes. `ManifestsAreSatisfiable` does not cover `archive.name`: the contract
takes `run.zip` (`manifest.go:170`), which `openTarReader` always refuses.
`ReplaysAgree` holds although two requests with one key may both be executed,
although a key is never renewed once its row is 24 hours old, and although a
request that has been answered is executed again at once if its answer could not
be saved, which is less than the replay that `platform/idempotency.go:8` speaks
of. `AdmissionIsCurrent` is about roots: an agent that is disabled between the
two reads of a POST is let in once more. `RepeatsAreRetries` allows one more
text per worker and fault, because every worker may find the same stale lock in
its list. `LogIsTrue` allows a row that stays `pending` when a statement was
lost, and when Python's key already had a job. `EventuallyTold` allows a
notification to be skipped because the configuration could not be read.

**Why the bounds are enough.** Each hazard is an interleaving of at most two
handlers (requests, transactions) and at most two deaths, and the instances
contain that: three attempts allow an attempt that dies, one that resumes and
one that comes late (`PipelineA` gets its third by overrunning two). The runs of
`queue_*` need two jobs for one worker to be busy with while a reclaimer has the
other in its list, and a second reclaimer only where two may list the same row.
`Ingest` takes archives that share a file and differ in another: one shared name
is what lets a mixture of two attempts look plausible, and one removal that
fails is enough to leave one; limits of three with files of one and three bytes
meet every limit from both sides and use the total up exactly. `Review` needs
two submissions for a page to be out of date, `EventuallyPublished` more
attempts than faults. `Agents` needs two roots for transactions to deadlock and
two requests to overlap. `Requests` needs four requests so that one that is
promoted can demote the other while a third is in flight, and one can be
repeated after its answer has expired. `System` needs two manifests for the
first and the latest to differ, two attempts for one to be retried, and one
failure to strike any of its components. The passing runs reach between 10,900
and 2,100,000 distinct states and fire every action. Deadlock is not checked: a
run that is published or halted, a settled job and a spent bound leave nothing
to do.

**Fairness.** `FairSpec` assumes weak fairness of the workers' steps, of the
statements of a request already begun, of the clock and of reclaiming: both
worker loops poll for ever (`internal/jobs/worker.go`, `workers/worker.py`), a
handler has timeouts or a finite script, the HTTP server runs a handler it has
begun to its end, and the Go worker reclaims on a ticker. `Agents` assumes only
that the API goes on with a request it has begun and that PostgreSQL breaks
deadlocks; `Requests` has no liveness property and no fairness. Enqueuing,
manifests, reviews, events, changes of configuration, failures and deaths are
never forced. No strong fairness is used.

Liveness has exact limits worth knowing. `EventuallyPublished` says *once the
job exists* and needs fewer deaths than attempts. `ParsingEnds` allows a run to
stay in `parsing` after its job has ended: after an interruption every retry is
refused, because `parsing` has no edge to itself, until the job is dead; and
`_handle_parse_failure` swallows an error of its own transition.

## 4. What is proved

The proofs hold for every value of the constants that satisfies the named
assumptions of the modules, which TLC evaluates in the runs. `ConstantsOK`,
`RequestsOK`, `ActorsOK`, `MaxAuditOK`, `LimitsOK`, `IngestConstantsOK`,
`PipelineAConstantsOK`, `ReviewConstantsOK`, `AgentsConstantsOK`,
`NotifyConstantsOK` and `RequestsConstantsOK` give the constants their types
(bounds are numbers, lists are sequences), keep the markers `None`, `Text` and
`Unlocked` apart from data, and make finite what is counted (workers, reviewers,
keys, slots); `SystemConstantsOK` makes the workers, reviewers and publishers of
`System` finite sets. Beyond that they ask that the bytes an agent may serve
instead of the declared archive have another digest (`Damaged`), that the photos
of one notification differ, that a PATCH of a user changes something and that a
founder exists. Every safety property of the passing runs is proved. The type
invariants are proved as well, and only `Requests`, whose type invariant also
says what belongs to each position of a request, has its own in a run.

**`DatabaseProofs`**, the runs

* `TablesAgree`: the Go and the SQL table allow the same edges.
* `RunsTypeCorrect`, `TransactionsIsolated`: `TxnInv` is inductive relative to
  `RunsTypeOK`. `AuditIsPath` alone is not inductive: a commit appends what the
  transaction read earlier, so the invariant must say that an open transaction
  owns its row's lock and that what it read is still the committed state.
* `RunsImplementLifecycle`: a `Commit` is a `Move`, every other step stutters.
* `AuditIsAPath`: a `Move` extends a path at its end.
* `NoRunIsTrapped`: `Publishable`, the states from which the graph leads to
  `published`, is a recursive function of the number of steps. The proof unfolds
  it (`Within`: a state is in the set after as many steps as its `Depth`) and
  shows that exactly the documented halts are outside.

**`DatabaseProofs`**, the jobs

* `TypeCorrect`.
* `AttemptsAreDistinct` needs `AttemptsInv`: a handler's attempt was counted, so
  the next claim's number is larger than all those in use.
* `AttemptsAreBounded` needs `BudgetInv`: once the budget is used up, attempts so
  far, plus workers that read the count before that and will requeue the row,
  plus one if it is queued already, are at most
  `MaxAttempts + Cardinality(Worker) - 1`.
* `LockIsHeld`, `StaleAreReclaimed` and `QueueImplementsLifecycle` assume
  `Timely` and `OneReclaimer` (`ASSUME ... PROVE`), that is, the deployment with
  handlers that keep the TTL. `LockInv` says that an executing worker holds its
  unexpired lock, that listed rows stay running and expired until they are
  failed, and that counts read are current. Without either assumption they are
  false: a slow handler loses its row, and of two reclaimers the second fails a
  row already claimed again.

**`RequestsProofs`**

* `TypeCorrect` and `PrincipalsAreCurrent` need `RequestInv`: a request in
  progress carries the token of an account that exists and, until the token is
  verified, has seen that account as it is now; what else it carries belongs to
  its position. The account may change in every other step, by any request, so
  the invariant speaks of what was seen, not of what is.
* `ReplaysOfKeyAgree` needs `KeyInv`: what was replayed is the row's answer, and
  a key that has been answered has a row, a `Save` still to come or a lost one.
  It rests on two facts about steps: a row, once there, keeps its answer and
  does not become fresh again (`RowsAlwaysStay`), which is what ON CONFLICT DO
  NOTHING is for; and a `Save` to come ends in a row or among the lost.
* `OverrunsAreBounded` counts, for each user, the requests between the count and
  the insert of their hit: a request joins them only while the hits are below
  the limit (`CountedWithinLimit`), and each added hit takes one of them away
  (`HitsAreCounted`). It assumes that `Slot` is finite.

**`IngestProofs`**

* `TypeCorrect` and `RawNeverChanges` hold whatever overlaps. `Typed` adds to
  `TypeOK` what the steps rely on: every recorded manifest has passed the
  contract, and a handler past its first step has one of them.
* `RawVerified`, `FilesComeFirst`, `GateHolds`, `FaultsAlone` and
  `StagingStaysBounded` have `Timely` as a hypothesis. It is needed: two pulls
  that overlap share the staging directory (section 5). Their invariant is
  `Undisturbed`: one handler at a time (`Alone`); for each of its positions what
  the run's state, the archive and the two directories are by then (`Reached`);
  what the rows and the raw store have in common (`Recording`, `Stored`); that
  leftovers come from recorded archives (`Sourced`); and that without a death no
  promotion is left half done (`Tidy`). A directory `Keeps` the files it should
  have, and nothing else until an error has been passed over. None of the
  theorems is inductive without `Reached`: what `Verify` checks is the archive,
  what `PromoteFiles` renames is the directory, and that these are the same is
  known only from the entries extracted before.
* The middle of the argument is about `SafeUnpack` and no step of the run: an
  archive none of whose entries was refused is safe as a whole (`PassedIsSafe`),
  and a manifest that agrees with its files declares exactly those
  (`VerifiedIsSound`).
* `StagingStaysBounded` needs sums: that a sum over a finite set does not depend
  on the order of its elements (`AnyOrder`), and that one file more adds at most
  its bytes (`OneMore`). Then the staging directory always holds what a prefix
  of some archive unpacks to besides what failed removals have left (`Weighed`),
  and such a prefix is within the total but for its last entry, which is within
  its own limit.

* `ManifestsSatisfiable` is about the contract and not about the run: two declared
  files that clash, one below the other or under one name, are ruled out field by
  field (`ValidIsSatisfiable`), whatever the order they are packed in.

**`PipelineAProofs`** (whether or not handlers keep their locks)

* `TypeCorrect`, with `Claimed`: every row and file is of an attempt at which the
  job has been started. How often that can be is a matter of `JobQueue`.
* `AnalystsAreAlone`, `ReviewsAreComplete`: for each worker, the invariant says
  which state the run is in at its position (`StateInv`) and which rows and files
  of its own attempt are there (`InPlace`); `Alone`, that no other worker is in the
  analysis, is what keeps another attempt from adding its rows in between. The
  graph gives `Alone` and not the lock: a second attempt is refused its first
  transition.
* `VerdictsHold` is an action property of the handlers' transitions.

**`ReviewProofs`**

* `TypeCorrect`.
* `DecisionsAreBacked` needs that a verdict other than a quarantine is the last
  one and settles the artifact it was given for (`VerdictInv`): `insertDecision`
  looks the artifact up again after the transition's commit, and by then another
  may have come, but only after a quarantine. It also counts (`CountInv`): the
  rows of one reviewer and kind, with the requests still to write one, are no
  more than the verdicts.
* `ReceiptsAreBacked`: there is one approval and it is written once
  (`DecisionInv`), and every analysis before it has been quarantined
  (`VerdictInv`), which is what a receipt lists besides; a publisher about to
  insert found no receipt, so receipts and those publishers together are at most
  the publishers (`PublishInv`).
* `ApprovalsInformed`: an action property from the same invariant.

**`SystemProofs`** (`Timely` is a hypothesis throughout, as in `IngestProofs`)

* `SystemIsIngest`, `SystemIsPipelineA`, `SystemIsReview`: the three
  refinements, one step of the system at a time. They say that the assumptions
  under which the components were verified are met, and by what: `Handed` keeps
  the pull job and the analysts apart (before the parse job exists nobody but
  the pull job has touched the run, afterwards the pull job does not),
  `GateOpens` keeps the gate closed until Pipeline A has submitted the run, and
  `OneUndecided` says that of the review artifacts at most one has come since
  the last verdict, and only by the attempt under way, which is what `Rereview`
  and `Resubmit` assume.
* `ReceiptsTraceable` needs `Citing`. Neither the first manifest nor `run_files`
  changes once there is a receipt: the run has been handed over by then, and a
  pull job that is retried passes its run by. The rest is `Recording` and `Tidy`
  of `IngestProofs`.
* `AnalysesFindRaw` needs `Looking`: what an attempt has loaded is a manifest of
  the run, and what is in the raw store was verified against one.
* `PublishedReviewed` needs `OneAttempt` (one attempt at a time, at most one
  review artifact per attempt), `Outputs` (which attempt wrote the latest row of
  each kind and the files, by the position of the attempt that is under way, or
  once the run is under review), `Paired` (each review artifact comes with the
  one analysis row of its attempt), `Superseded` (all but the latest analysis
  have been quarantined) and `Receipted` (a receipt exists only in `publishing`
  and `published`, and has a copy of every row there is). No component's
  invariant gives it: `PipelineA` does not know which attempt was approved, and
  `Review` does not know who writes the files.
* `SystemTypeCorrect`.
* `SysInv` is the conjunction of these with the invariant of `IngestProofs`. It
  is inductive for any workers, reviewers and publishers, any manifests and any
  number of attempts and failures. The provers cannot cite a theorem about
  `PipelineA` or `Review` for their instances, so that `SysInv` repeats what it
  needs of them for the one family it is about.

**`AgentsProofs`**

* `TypeCorrect`: with the UNIQUE constraint of the committed rows, which needs
  `Exclusive`: transactions under way delete different rows and insert different
  roots.
* `RevokedStaysGone` needs `Accounted`: what a transaction will leave in place was
  committed by others after its snapshot, and so was asked for meanwhile.
* `AdmissionsAreCurrent` needs `Admitted`: a POST in progress has seen every root
  that has been in force since its key was checked.

**`NotifyProofs`**

* `TypeCorrect`.
* `LogNeverLies`: `Delivering` says what a worker has delivered when it is at an
  item, or why it will skip; `Calm`, that before the first fault a job has one
  worker and ends only after its row.
* `RepeatsAreBounded`: a worker that may still deliver the text has been counted
  as an attempt (`Counted`); and texts, workers that will deliver one or give
  the job back, and those that may yet find it stale are at most one more than
  the faults times the workers (`Blamed`).

Inductions over the natural numbers (the entries of an archive, the cardinality
of a set, the depth in the graph) are by least counterexample, from the library's
`WFMin` (`Least`, `SetInduction`), because no prover here instantiates the
library's induction rules.

Model-checked only: all liveness properties, because they need fairness and
ENABLED; and the runs that expect a violation, which are about
single behaviours.

## 5. What is not modelled

Cryptography (hashes, signatures and passwords are perfect), numerical analysis,
presentation, and reads that no step depends on: `handleListAgents`, the user
and run listings, `handleMe`, `handleConfigGet`, `handleLog`, the admin jobs
page, the catalog. `handlePatchMetadata`, one UPDATE of a comment, is left out of
`Review`. Signed file URLs and the Jupyter proxy keep no state. Validation
messages and the canonical JSON of a manifest are left out: equal manifests have
equal hashes.

Within the models: one run and one job of each kind at a time in `Ingest`,
`PipelineA` and `Review` (runs share nothing but the queue, which `JobQueue`
models with several keys), one agent in `Agents`, one run's notifications in
`Notify` with one flag for the event flags of a configuration; what reaches a
handler is either the whole of a statement's effect or none of it. `System` is
about a device run of the family that is parsed on its own (`fet_transfer`);
runs of the notebook families, which end with their session, and overlapping
pulls (`Timely = FALSE`) are in the components only.

Not guaranteed by the code, and therefore not stated as properties: with two Go
workers and a pull that outlives its lock, the two share the staging directory
and a partial tree can be promoted; in the same situation `ReclaimStale` can fail
a row whose handler has just completed it; a pull job retried while its run is in
`parser_failed` fails instead of being a no-op; PATCH of an agent is not atomic,
an agent may be enabled with its old roots; a key whose rotation is answered with
an error may have been replaced all the same; leftovers of an attempt whose removal
failed are promoted with the run; plots of earlier attempts reach a session's
reviewers.

## 6. Status and what could follow

`RunStates`, `StateMachine`, `JobQueue` with their abstract specifications,
`Requests`, `Ingest` with `Archives` and `ManifestContract`, `PipelineA`,
`Review`, `System`, `Agents` and `Notify` are checked, and all their safety
properties are proved. What is left:

1. Keyset pagination of the listings under concurrent inserts.
2. That the one job of `Ingest`, `PipelineA` and `Review` (`JobRow`) implements
   `JobLifecycle` where `Timely` holds, as the table does.
3. What `RawIsVerified` becomes without `Timely`, and `System` with sessions.
