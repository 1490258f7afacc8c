----------------------------- MODULE PipelineA ------------------------------
(***************************************************************************)
(* Pipeline A for one run: handle_parse_run (workers/labdata/pipeline.py)  *)
(* for a device run, handle_process_session (process_session.py) for a     *)
(* session run, with the request that creates the latter                   *)
(* (internal/session).                                                     *)
(*                                                                         *)
(* The Python worker's connection is in autocommit mode: every insert and  *)
(* every transition commits on its own, and an exception or the death of   *)
(* the worker leaves the earlier ones behind.  All attempts of a run write *)
(* their files to one directory, analysis_version_001, which is never      *)
(* cleared.  Rows and files are represented by the attempt that wrote them.*)
(* Fail and ReclaimStale are the statements of JobQueue; as in the         *)
(* deployment one process runs ReclaimStale.                               *)
(***************************************************************************)
EXTENDS RunStates, JobRow, Sequences, SequencesExt

CONSTANTS
  Family,       \* the families of runs considered
  Worker,       \* Python workers that can execute the job
  MaxAttempts,  \* max_attempts of the job
  MaxCrashes,   \* bound on lost processes and failed statements
  Timely        \* TRUE: no lock expires under a live handler

ASSUME PipelineAConstantsOK ==
  /\ Family \subseteq {"fet_transfer", "notebook", "session"}
  /\ IsFiniteSet(Worker)
  /\ MaxAttempts \in Nat \ {0}
  /\ MaxCrashes \in Nat
  /\ Timely \in BOOLEAN

VARIABLES
  family,     \* the family of the run
  state,      \* runs.state, "undeclared" while there is no row
  job,        \* the parse_run or process_session job
  requested,  \* whether a session request is between its two commits
  results,    \* the parser_results rows with status ok, oldest first
  failures,   \* the number of parser_results rows with status failed
  artifacts,  \* the analysis_artifacts rows, oldest first, those of an attempt as
              \* one: the attempt and the files that they list
  reviews,    \* the review_artifacts rows, oldest first
  files,      \* the attempts with output in the processed tree
  notices,    \* the notifications rows
  pc,         \* worker -> its position in the handler
  attempt,    \* worker -> the attempt it claimed; in Fail, the count it has read
  reclaimer,  \* ReclaimStale: its position, and the count its Fail has read
  crashes

vars == <<family, state, job, requested, results, failures, artifacts, reviews,
          files, notices, pc, attempt, reclaimer, crashes>>

records == <<results, failures, artifacts, reviews, files, notices>>
request == <<family, requested>>

\* Mutant: the run is submitted for review before its review artifact exists.
ScriptSubmitFirst ==
  [fet_transfer |-> <<"result", "artifact", "validate", "process", "submit", "review">>,
   notebook     |-> <<"result", "validate">>,
   session      |-> <<"artifact", "validate", "process", "submit", "review", "result",
                      "notice">>]

\* What each family does after its analysis has succeeded, in this order.
Script ==
  [fet_transfer |-> <<"result", "artifact", "review", "validate", "process", "submit">>,
   notebook     |-> <<"result", "validate">>,
   session      |-> <<"artifact", "review", "result", "validate", "process", "submit",
                      "notice">>]

Position ==
  (UNION {ToSet(Script[f]) : f \in DOMAIN Script})
    \cup {"idle", "start", "analyse", "report", "giveup", "done", "failed", "failing"}

Attempts == Nat \ {0}

AnalysisRow == [attempt: Attempts, files: SUBSET Attempts]

\* The rows, the job and the workers' positions are well formed, and a row names
\* an attempt.
TypeOK ==
  /\ family \in Family
  /\ state \in RunState \cup {"undeclared"}
  /\ job \in JobRecord
  /\ requested \in BOOLEAN
  /\ results \in Seq(Attempts)
  /\ artifacts \in Seq(AnalysisRow)
  /\ reviews \in Seq(Attempts)
  /\ files \subseteq Attempts
  /\ failures \in Nat /\ notices \in Nat
  /\ pc \in [Worker -> Position]
  /\ attempt \in [Worker -> Nat]
  /\ reclaimer \in [pc: {"idle", "stale", "releasing"}, seen: Nat]
  /\ crashes \in 0 .. MaxCrashes

NotReclaiming == [pc |-> "idle", seen |-> 0]

\* A device run has been promoted and handed off; a session is yet to be
\* requested.
Init ==
  /\ family \in Family
  /\ state = IF family = "session" THEN "undeclared" ELSE "promoted"
  /\ job = IF family = "session" THEN NoJob ELSE Enqueued(NoJob)
  /\ requested = FALSE
  /\ results = <<>> /\ artifacts = <<>> /\ reviews = <<>>
  /\ failures = 0 /\ files = {} /\ notices = 0
  /\ pc = [w \in Worker |-> "idle"]
  /\ attempt = [w \in Worker |-> 0]
  /\ reclaimer = NotReclaiming
  /\ crashes = 0

-----------------------------------------------------------------------------
(***************************************************************************)
(* POST /v1/sessions/process: EnsureSessionRun and Enqueue, two commits.   *)
(***************************************************************************)

\* INSERT ... ON CONFLICT (id) DO NOTHING, directly in state promoted.
EnsureSessionRun ==
  /\ family = "session"
  /\ state' = IF state = "undeclared" THEN "promoted" ELSE state
  /\ requested' = TRUE
  /\ UNCHANGED <<family, job, pc, attempt, reclaimer, crashes, records>>

EnqueueSession ==
  /\ requested
  /\ requested' = FALSE
  /\ job' = Enqueued(job)
  /\ UNCHANGED <<family, state, pc, attempt, reclaimer, crashes, records>>

\* The API process dies, or the second commit fails.
RequestLost ==
  /\ requested
  /\ crashes < MaxCrashes
  /\ requested' = FALSE
  /\ crashes' = crashes + 1
  /\ UNCHANGED <<family, state, job, pc, attempt, reclaimer, records>>

-----------------------------------------------------------------------------
(***************************************************************************)
(* The job.                                                                *)
(***************************************************************************)

Goto(w, position) == pc' = [pc EXCEPT ![w] = position]

Claim(w) ==
  /\ pc[w] = "idle"
  /\ job.state = "queued"
  /\ job' = Started(job)
  /\ attempt' = [attempt EXCEPT ![w] = job.attempts + 1]
  /\ Goto(w, "start")
  /\ UNCHANGED <<state, reclaimer, crashes, request, records>>

Leave(w) ==
  /\ Goto(w, "idle")
  /\ attempt' = [attempt EXCEPT ![w] = 0]
  /\ UNCHANGED <<state, reclaimer, request, records>>

Complete(w) ==
  /\ pc[w] = "done"
  /\ job' = Succeeded(job)
  /\ Leave(w)
  /\ UNCHANGED crashes

\* Fail reads the counts ...
LoadCounts(w) ==
  /\ pc[w] = "failed"
  /\ attempt' = [attempt EXCEPT ![w] = job.attempts]
  /\ Goto(w, "failing")
  /\ UNCHANGED <<state, job, reclaimer, crashes, request, records>>

\* ... and writes the row by its id.
FailWrite(w) ==
  /\ pc[w] = "failing"
  /\ job' = Returned(job, attempt[w], MaxAttempts)
  /\ Leave(w)
  /\ UNCHANGED crashes

\* The worker dies, or the outcome of its job is not recorded.
Crash(w) ==
  /\ pc[w] # "idle"
  /\ crashes < MaxCrashes
  /\ crashes' = crashes + 1
  /\ Leave(w)
  /\ UNCHANGED job

\* ReclaimStale of the Go worker lists the job, whose lock has expired, ...
ReclaimScan ==
  /\ reclaimer.pc = "idle"
  /\ job.state = "running"
  /\ Timely => \A w \in Worker : pc[w] = "idle"
  /\ reclaimer' = [reclaimer EXCEPT !.pc = "stale"]
  /\ UNCHANGED <<state, job, pc, attempt, crashes, request, records>>

\* ... and fails it, whatever has become of it.
ReclaimLoad ==
  /\ reclaimer.pc = "stale"
  /\ reclaimer' = [pc |-> "releasing", seen |-> job.attempts]
  /\ UNCHANGED <<state, job, pc, attempt, crashes, request, records>>

ReclaimWrite ==
  /\ reclaimer.pc = "releasing"
  /\ job' = Returned(job, reclaimer.seen, MaxAttempts)
  /\ reclaimer' = NotReclaiming
  /\ UNCHANGED <<state, pc, attempt, crashes, request, records>>

Reclaim == ReclaimScan \/ ReclaimLoad \/ ReclaimWrite

\* The Go worker dies on the way, or one of its statements fails.
ReclaimLost ==
  /\ reclaimer.pc # "idle"
  /\ crashes < MaxCrashes
  /\ crashes' = crashes + 1
  /\ reclaimer' = NotReclaiming
  /\ UNCHANGED <<state, job, pc, attempt, request, records>>

-----------------------------------------------------------------------------
(***************************************************************************)
(* The handlers.                                                           *)
(***************************************************************************)

\* The step after this one, or the first one after "analyse".
Following(position) ==
  LET script == Script[family]
      next == IF position \in ToSet(script)
              THEN 1 + CHOOSE i \in DOMAIN script : script[i] = position
              ELSE 1
  IN  IF next <= Len(script) THEN script[next] ELSE "done"

Proceed(w) == Goto(w, Following(pc[w]))

\* transition_run with an expected state, which fails unless the run is in it.
Transition(w, from, to) ==
  IF state = from /\ CanTransition(from, to)
  THEN state' = to /\ Proceed(w)
  ELSE UNCHANGED state /\ Goto(w, "failed")

\* Mutant: the first transition tolerates every state, parsing included.
StartAnywhere(w) ==
  /\ pc[w] = "start"
  /\ state' = "parsing"
  /\ IF family = "notebook" THEN Proceed(w) ELSE Goto(w, "analyse")
  /\ UNCHANGED <<job, attempt, reclaimer, crashes, request, records>>

\* transition_run(run, '', 'parsing'): any state with an edge to parsing.
Start(w) ==
  /\ pc[w] = "start"
  /\ IF CanTransition(state, "parsing")
     THEN /\ state' = "parsing"
          /\ IF family = "notebook" THEN Proceed(w) ELSE Goto(w, "analyse")
     ELSE UNCHANGED state /\ Goto(w, "failed")
  /\ UNCHANGED <<job, attempt, reclaimer, crashes, request, records>>

\* What w's attempt leaves in the processed tree.  The one plot of a device run
\* replaces the one before; the notebooks of a session write what they plot, and
\* earlier files under other names stay.
Plotted(w) ==
  IF family = "session" THEN {kept \cup {attempt[w]} : kept \in SUBSET files}
                        ELSE {{attempt[w]}}

\* Parse, metrics and plot, or the session's notebooks.
Analyse(w) ==
  /\ pc[w] = "analyse"
  /\ files' \in Plotted(w)
  /\ Proceed(w)
  /\ UNCHANGED <<state, job, results, failures, artifacts, reviews, notices, attempt,
                 reclaimer, crashes, request>>

\* The data cannot be parsed, or no notebook succeeds, though one may already
\* have written some of its files.
AnalyseFails(w) ==
  /\ pc[w] = "analyse"
  /\ Goto(w, IF family = "session" THEN "giveup" ELSE "report")
  /\ files' \in {files} \cup (IF family = "session" THEN Plotted(w) ELSE {})
  /\ UNCHANGED <<state, job, results, failures, artifacts, reviews, notices, attempt,
                 reclaimer, crashes, request>>

\* _handle_parse_failure: the row that says so, best effort.
ReportFailure(w) ==
  /\ pc[w] = "report"
  /\ \E n \in {0, 1} : failures' = failures + n
  /\ Goto(w, "giveup")
  /\ UNCHANGED <<state, job, results, artifacts, reviews, files, notices, attempt,
                 reclaimer, crashes, request>>

\* parsing -> parser_failed, and the job counts as done.  A device run's handler
\* swallows the error if this transition fails.
GiveUp(w) ==
  /\ pc[w] = "giveup"
  /\ IF state = "parsing"
     THEN state' = "parser_failed" /\ Goto(w, "done")
     ELSE UNCHANGED state /\ Goto(w, IF family = "session" THEN "failed" ELSE "done")
  /\ UNCHANGED <<job, attempt, reclaimer, crashes, request, records>>

\* The database refuses that last statement.
GiveUpFails(w) ==
  /\ pc[w] = "giveup"
  /\ crashes < MaxCrashes
  /\ crashes' = crashes + 1
  /\ Goto(w, IF family = "session" THEN "failed" ELSE "done")
  /\ UNCHANGED <<state, job, attempt, reclaimer, request, records>>

InsertResult(w) ==
  /\ pc[w] = "result"
  /\ results' = Append(results, attempt[w])
  /\ Proceed(w)
  /\ UNCHANGED <<state, job, failures, artifacts, reviews, files, notices, attempt,
                 reclaimer, crashes, request>>

\* A row per file, with its digest.  A session lists every plot in the tree: it is
\* where run_session looks for the plots of a notebook.
InsertArtifact(w) ==
  /\ pc[w] = "artifact"
  /\ artifacts' = Append(artifacts, [attempt |-> attempt[w], files |-> files])
  /\ Proceed(w)
  /\ UNCHANGED <<state, job, results, failures, reviews, files, notices, attempt,
                 reclaimer, crashes, request>>

InsertReview(w) ==
  /\ pc[w] = "review"
  /\ reviews' = Append(reviews, attempt[w])
  /\ Proceed(w)
  /\ UNCHANGED <<state, job, results, failures, artifacts, files, notices, attempt,
                 reclaimer, crashes, request>>

\* parsing -> validated -> processing -> awaiting_review.
Move(w) ==
  /\ CASE pc[w] = "validate" -> Transition(w, "parsing", "validated")
       [] pc[w] = "process"  -> Transition(w, "validated", "processing")
       [] pc[w] = "submit"   -> Transition(w, "processing", "awaiting_review")
       [] OTHER              -> FALSE
  /\ UNCHANGED <<job, attempt, reclaimer, crashes, request, records>>

\* insert_notification and enqueue_job, whose errors are ignored.
Notify(w) ==
  /\ pc[w] = "notice"
  /\ \E n \in {0, 1} : notices' = notices + n
  /\ Proceed(w)
  /\ UNCHANGED <<state, job, results, failures, artifacts, reviews, files, attempt,
                 reclaimer, crashes, request>>

\* Any other exception: a plot that cannot be written, a statement that fails.
Raise(w) ==
  /\ pc[w] \in {"start", "analyse"} \cup (ToSet(Script[family]) \ {"notice"})
  /\ crashes < MaxCrashes
  /\ crashes' = crashes + 1
  /\ Goto(w, "failed")
  /\ files' \in {files} \cup (IF pc[w] = "analyse" THEN Plotted(w) ELSE {})
  /\ UNCHANGED <<state, job, results, failures, artifacts, reviews, notices, attempt,
                 reclaimer, request>>

-----------------------------------------------------------------------------
(***************************************************************************)
(* The reviewers and the publisher, as far as Pipeline A can see them.     *)
(***************************************************************************)
Driven ==
  {<<"awaiting_review", "approved">>, <<"awaiting_review", "changes_requested">>,
   <<"awaiting_review", "quarantined">>, <<"approved", "publishing">>,
   <<"publishing", "published">>}

Downstream ==
  /\ \E edge \in Driven : state = edge[1] /\ state' = edge[2]
  /\ UNCHANGED <<job, pc, attempt, reclaimer, crashes, request, records>>

Handle(w) ==
  \/ Start(w) \/ Analyse(w) \/ AnalyseFails(w) \/ ReportFailure(w) \/ GiveUp(w)
  \/ InsertResult(w) \/ InsertArtifact(w) \/ InsertReview(w) \/ Move(w) \/ Notify(w)

Step(w) == Claim(w) \/ Handle(w) \/ Complete(w) \/ LoadCounts(w) \/ FailWrite(w)

Next ==
  \/ EnsureSessionRun
  \/ EnqueueSession
  \/ RequestLost
  \/ \E w \in Worker : Step(w) \/ GiveUpFails(w) \/ Raise(w) \/ Crash(w)
  \/ Reclaim
  \/ ReclaimLost
  \/ Downstream

Spec == Init /\ [][Next]_vars

(***************************************************************************)
(* The workers never stop polling and stale locks are reclaimed.           *)
(***************************************************************************)
FairSpec ==
  /\ Spec
  /\ \A w \in Worker : WF_vars(Step(w))
  /\ WF_vars(Reclaim)

-----------------------------------------------------------------------------
(***************************************************************************)
(* Properties.                                                             *)
(***************************************************************************)

Reviewable ==
  {"awaiting_review", "approved", "changes_requested", "quarantined",
   "publishing", "published"}

\* Architecture: a failure must not publish partial outputs.  A run that has
\* reached the reviewers has all its rows: the latest of each kind are of one
\* attempt, and the analysis artifacts among them list what is in the processed
\* tree, that attempt's files included.  A device run's tree has nothing else; a
\* session's, which nothing clears, may still have plots of earlier attempts,
\* and the reviewers are shown those too.
ReviewIsComplete ==
  state \in Reviewable =>
    /\ reviews # <<>> /\ artifacts # <<>> /\ results # <<>>
    /\ Last(results) = Last(reviews)
    /\ Last(artifacts) = [attempt |-> Last(reviews), files |-> files]
    /\ Last(reviews) \in files
    /\ family = "fet_transfer" => files = {Last(reviews)}

\* Even when handlers outlive their locks, at most one attempt at a time is
\* past its first transition and not yet past the one that ends parsing, so no
\* two of them write the processed tree or the rows of a run together.
OneAnalyst ==
  \A v, w \in Worker :
    LET Analysing(u) ==
          pc[u] \in Position \ {"idle", "start", "notice", "done", "failed", "failing"}
    IN  v # w => ~(Analysing(v) /\ Analysing(w))

Accepted == Reviewable \ {"awaiting_review", "quarantined"}

\* A reviewer's approval or request for changes is not undone by a parse job.
VerdictHolds == [][(state \in Accepted) => (state' \in Accepted)]_vars

\* A run is not parsing for ever unless its job has ended, dead or not.
ParsingEnds ==
  state = "parsing" ~> state # "parsing" \/ job.state \in {"succeeded", "dead"}
=============================================================================
