------------------------------- MODULE Review -------------------------------
(***************************************************************************)
(* The review gate and Pipeline B for one run: the reviewers' requests     *)
(* (internal/review/api.go) and the publish job's handler                  *)
(* (internal/review/publish.go).                                           *)
(*                                                                         *)
(* A request commits its transition, its decision row and its publish job  *)
(* separately and is abandoned if one of them fails; the client's retry is *)
(* refused, because the run has left awaiting_review.  Pipeline A appears  *)
(* only as far as the reviewers can see it.  Fail and ReclaimStale are the *)
(* statements of JobQueue; every Go worker runs ReclaimStale between two   *)
(* jobs.                                                                   *)
(***************************************************************************)
EXTENDS RunStates, JobRow, Sequences, SequencesExt

CONSTANTS
  Reviewer,     \* the reviewers; each makes one request at a time
  Publisher,    \* Go workers that can execute the publish job
  MaxAttempts,  \* max_attempts of the publish job
  MaxCrashes,   \* bound on lost requests, processes and statements, and on
                \* the locks that expire under a live publisher
  MaxReviews    \* bound on the review artifacts Pipeline A inserts

ASSUME ReviewConstantsOK ==
  /\ IsFiniteSet(Reviewer) /\ IsFiniteSet(Publisher)
  /\ MaxAttempts \in Nat \ {0}
  /\ MaxCrashes \in Nat
  /\ MaxReviews \in Nat \ {0}

VARIABLES
  state,      \* runs.state
  versions,   \* the review_artifacts rows; the latest is the one reviewed
  verdicts,   \* audit rows of the transitions out of awaiting_review, with the
              \* review artifact that was the latest at that moment
  decisions,  \* the review_decisions rows, oldest first
  receipts,   \* the published_results rows, oldest first
  notices,    \* notifications enqueued, per event
  publish,    \* the publish job
  shown,      \* reviewer -> the review artifact on the page, 0 for none
  post,       \* reviewer -> the request in progress and its next statement
  pc,         \* publisher -> its position in its loop and in handlePublish
  seen,       \* publisher -> the attempt_count its Fail has read
  crashes

vars == <<state, versions, verdicts, decisions, receipts, notices, publish, shown,
          post, pc, seen, crashes>>

records == <<verdicts, decisions, receipts, notices>>

\* What a request makes of the run.
Target == [approve         |-> "approved",
           request_changes |-> "changes_requested",
           quarantine      |-> "quarantined"]

Kind == DOMAIN Target

Event == {"published", "quarantined"}

Entry == [kind: Kind, reviewer: Reviewer, version: Nat]

NoPost == [kind |-> "none", next |-> "none"]

Position == {"idle", "load", "begin", "receipt", "insert", "finish", "notify", "done",
             "failed", "failing", "stale", "releasing"}

\* The rows, the requests in progress and the job are well formed, and the run
\* is only ever in a state of the review gate or of Pipeline B.
TypeOK ==
  /\ state \in {"parsing", "awaiting_review", "approved", "changes_requested",
                "quarantined", "publishing", "published"}
  /\ versions \in 1 .. MaxReviews
  /\ verdicts \in Seq(Entry)
  /\ decisions \in Seq(Entry)
  /\ receipts \in Seq([decision: 0 .. Len(decisions), analyses: SUBSET (1 .. versions)])
  /\ notices \in [Event -> Nat]
  /\ publish \in JobRecord
  /\ shown \in [Reviewer -> 0 .. versions]
  /\ post \in [Reviewer -> {NoPost} \cup
                           [kind: Kind, next: {"decision", "enqueue", "notify"}]]
  /\ pc \in [Publisher -> Position]
  /\ seen \in [Publisher -> Nat]
  /\ crashes \in 0 .. MaxCrashes

\* Pipeline A has submitted the run for the first time.
Init ==
  /\ state = "awaiting_review"
  /\ versions = 1
  /\ verdicts = <<>>
  /\ decisions = <<>>
  /\ receipts = <<>>
  /\ notices = [e \in Event |-> 0]
  /\ publish = NoJob
  /\ shown = [r \in Reviewer |-> 0]
  /\ post = [r \in Reviewer |-> NoPost]
  /\ pc = [h \in Publisher |-> "idle"]
  /\ seen = [h \in Publisher |-> 0]
  /\ crashes = 0

-----------------------------------------------------------------------------
(***************************************************************************)
(* handleApprove, handleRequestChanges and handleQuarantine.               *)
(***************************************************************************)

Answered(r) == post' = [post EXCEPT ![r] = NoPost]

Proceed(r, next) == post' = [post EXCEPT ![r].next = next]

\* What a transition out of awaiting_review leaves in the audit log.
Verdict(r, kind) == [kind |-> kind, reviewer |-> r, version |-> versions]

\* handleGet: the run's page, whatever its state, with the latest review artifact.
View(r) ==
  /\ post[r] = NoPost
  /\ shown[r] # versions
  /\ shown' = [shown EXCEPT ![r] = versions]
  /\ UNCHANGED <<state, versions, publish, post, pc, seen, crashes, records>>

\* Mutant: the error of the transition is not looked at.
DecideUnchecked(r, kind) ==
  /\ post[r] = NoPost
  /\ IF state = "awaiting_review"
     THEN /\ state' = Target[kind]
          /\ verdicts' = Append(verdicts, Verdict(r, kind))
     ELSE UNCHANGED <<state, verdicts>>
  /\ post' = [post EXCEPT ![r] = [kind |-> kind, next |-> "decision"]]
  /\ UNCHANGED <<versions, decisions, receipts, notices, publish, shown, pc, seen,
                 crashes>>

\* The transition out of awaiting_review; a request that finds the run in any
\* other state is refused and changes nothing.
Decide(r, kind) ==
  /\ post[r] = NoPost
  /\ state = "awaiting_review"
  /\ CanTransition(state, Target[kind])
  /\ state' = Target[kind]
  /\ verdicts' = Append(verdicts, Verdict(r, kind))
  /\ post' = [post EXCEPT ![r] = [kind |-> kind, next |-> "decision"]]
  /\ UNCHANGED <<versions, decisions, receipts, notices, publish, shown, pc, seen,
                 crashes>>

\* insertDecision, on the review artifact that is the latest by now.
InsertDecision(r) ==
  /\ post[r].next = "decision"
  /\ decisions' = Append(decisions, [kind |-> post[r].kind, reviewer |-> r,
                                     version |-> versions])
  /\ CASE post[r].kind = "approve"         -> Proceed(r, "enqueue")
       [] post[r].kind = "quarantine"      -> Proceed(r, "notify")
       [] post[r].kind = "request_changes" -> Answered(r)
  /\ UNCHANGED <<state, versions, verdicts, receipts, notices, publish, shown,
                 pc, seen, crashes>>

EnqueuePublish(r) ==
  /\ post[r].next = "enqueue"
  /\ publish' = Enqueued(publish)
  /\ Answered(r)
  /\ UNCHANGED <<state, versions, shown, pc, seen, crashes, records>>

\* notify.Enqueue, whose error is ignored.
NotifyQuarantine(r) ==
  /\ post[r].next = "notify"
  /\ \E n \in {0, 1} : notices' = [notices EXCEPT !["quarantined"] = @ + n]
  /\ Answered(r)
  /\ UNCHANGED <<state, versions, verdicts, decisions, receipts, publish,
                 shown, pc, seen, crashes>>

\* The API process dies or the next statement fails: the rest is not done.
PostLost(r) ==
  /\ post[r] # NoPost
  /\ crashes < MaxCrashes
  /\ crashes' = crashes + 1
  /\ Answered(r)
  /\ UNCHANGED <<state, versions, publish, shown, pc, seen, records>>

-----------------------------------------------------------------------------
(***************************************************************************)
(* The publish job.                                                        *)
(***************************************************************************)

Goto(h, position) == pc' = [pc EXCEPT ![h] = position]

Claim(h) ==
  /\ pc[h] = "idle"
  /\ publish.state = "queued"
  /\ publish' = Started(publish)
  /\ Goto(h, "load")
  /\ UNCHANGED <<state, versions, shown, post, seen, crashes, records>>

Complete(h) ==
  /\ pc[h] = "done"
  /\ publish' = Succeeded(publish)
  /\ Goto(h, "idle")
  /\ UNCHANGED <<state, versions, shown, post, seen, crashes, records>>

\* Fail, of a handler or of ReclaimStale, reads the counts ...
LoadCounts(h) ==
  /\ \/ pc[h] = "failed" /\ Goto(h, "failing")
     \/ pc[h] = "stale" /\ Goto(h, "releasing")
  /\ seen' = [seen EXCEPT ![h] = publish.attempts]
  /\ UNCHANGED <<state, versions, publish, shown, post, crashes, records>>

Leave(h) ==
  /\ Goto(h, "idle")
  /\ seen' = [seen EXCEPT ![h] = 0]
  /\ UNCHANGED <<state, versions, shown, post, records>>

\* ... and writes the row by its id, whatever has become of it.
FailWrite(h) ==
  /\ pc[h] \in {"failing", "releasing"}
  /\ publish' = Returned(publish, seen[h], MaxAttempts)
  /\ Leave(h)
  /\ UNCHANGED crashes

\* A publisher holds the job, or believes that it does.
Live(h) == pc[h] \notin {"idle", "stale", "releasing"}

Scan(h) ==
  /\ pc[h] = "idle"
  /\ publish.state = "running"
  /\ Goto(h, "stale")
  /\ UNCHANGED <<state, versions, publish, shown, post, seen, records>>

\* ReclaimStale lists the job of a publisher that died, its lock having expired.
ReclaimScan(h) ==
  /\ \A g \in Publisher : ~Live(g)
  /\ Scan(h)
  /\ UNCHANGED crashes

\* The same, while a publisher outlives its lock.
ReclaimLive(h) ==
  /\ \E g \in Publisher : Live(g)
  /\ crashes < MaxCrashes
  /\ crashes' = crashes + 1
  /\ Scan(h)

\* The worker dies, a statement fails, or the outcome is not recorded.
Crash(h) ==
  /\ pc[h] # "idle"
  /\ crashes < MaxCrashes
  /\ crashes' = crashes + 1
  /\ Leave(h)
  /\ UNCHANGED publish

\* TransitionTx: one transaction that fails unless the run is in state from.
Transition(h, from, to, next) ==
  IF state = from /\ CanTransition(from, to)
  THEN state' = to /\ Goto(h, next)
  ELSE UNCHANGED state /\ Goto(h, "failed")

\* Mutant: a run left in publishing is not resumed.
LoadStrictly(h) ==
  /\ pc[h] = "load"
  /\ CASE state = "published" -> Goto(h, "done")
       [] state = "approved"  -> Goto(h, "begin")
       [] OTHER               -> Goto(h, "failed")
  /\ UNCHANGED <<state, versions, publish, shown, post, seen, crashes, records>>

\* handlePublish resumes a run that an earlier attempt left in publishing.
Load(h) ==
  /\ pc[h] = "load"
  /\ CASE state = "published"  -> Goto(h, "done")
       [] state = "approved"   -> Goto(h, "begin")
       [] state = "publishing" -> Goto(h, "receipt")
       [] OTHER                -> Goto(h, "failed")
  /\ UNCHANGED <<state, versions, publish, shown, post, seen, crashes, records>>

Begin(h) ==
  /\ pc[h] = "begin"
  /\ Transition(h, "approved", "publishing", "receipt")
  /\ UNCHANGED <<versions, publish, shown, post, seen, crashes, records>>

\* buildAndInsertReceipt: a receipt that exists is reused.  The transaction is
\* READ COMMITTED and nothing is locked, so another publisher may pass here too.
FindReceipt(h) ==
  /\ pc[h] = "receipt"
  /\ Goto(h, IF receipts = <<>> THEN "insert" ELSE "finish")
  /\ UNCHANGED <<state, versions, publish, shown, post, seen, crashes, records>>

\* Mutant: the latest decision of any kind.
LatestDecision == Len(decisions)

\* The latest approve decision, 0 (a null reference) if there is none.
LatestApproval ==
  LET approvals == {i \in DOMAIN decisions : decisions[i].kind = "approve"}
  IN  Max(approvals \cup {0})

\* The receipt and its copies of the analysis artifacts, in one commit: those of
\* every analysis of the run, whatever its verdict.
InsertReceipt(h) ==
  /\ pc[h] = "insert"
  /\ receipts' = Append(receipts, [decision |-> LatestApproval,
                                   analyses |-> 1 .. versions])
  /\ Goto(h, "finish")
  /\ UNCHANGED <<state, versions, verdicts, decisions, notices, publish, shown,
                 post, seen, crashes>>

Finish(h) ==
  /\ pc[h] = "finish"
  /\ Transition(h, "publishing", "published", "notify")
  /\ UNCHANGED <<versions, publish, shown, post, seen, crashes, records>>

\* notify.Enqueue, whose error is ignored.
NotifyPublished(h) ==
  /\ pc[h] = "notify"
  /\ \E n \in {0, 1} : notices' = [notices EXCEPT !["published"] = @ + n]
  /\ Goto(h, "done")
  /\ UNCHANGED <<state, versions, verdicts, decisions, receipts, publish,
                 shown, post, seen, crashes>>

-----------------------------------------------------------------------------
(***************************************************************************)
(* Pipeline A: a parse job that is retried while its run is quarantined    *)
(* takes the run up again, inserts a new review artifact and, commits      *)
(* later, submits the run with it.                                         *)
(***************************************************************************)
\* Mutant: a parse job takes up any run that has been decided against.
ReopenRejected ==
  /\ state \in {"quarantined", "changes_requested"}
  /\ state' = "parsing"
  /\ UNCHANGED <<versions, publish, shown, post, pc, seen, crashes, records>>

Reopen ==
  /\ state = "quarantined"
  /\ state' = "parsing"
  /\ UNCHANGED <<versions, publish, shown, post, pc, seen, crashes, records>>

\* The one review artifact of this attempt.
Rereview ==
  /\ state = "parsing"
  /\ versions = Last(verdicts).version
  /\ versions < MaxReviews
  /\ versions' = versions + 1
  /\ UNCHANGED <<state, publish, shown, post, pc, seen, crashes, records>>

Resubmit ==
  /\ state = "parsing"
  /\ versions > Last(verdicts).version
  /\ state' = "awaiting_review"
  /\ UNCHANGED <<versions, publish, shown, post, pc, seen, crashes, records>>

Publish(h) ==
  \/ Claim(h) \/ Load(h) \/ Begin(h) \/ FindReceipt(h) \/ InsertReceipt(h)
  \/ Finish(h) \/ NotifyPublished(h) \/ Complete(h)
  \/ LoadCounts(h) \/ FailWrite(h) \/ ReclaimScan(h)

Answer(r) == InsertDecision(r) \/ EnqueuePublish(r) \/ NotifyQuarantine(r)

Next ==
  \/ \E r \in Reviewer :
       \/ View(r) \/ (\E kind \in Kind : Decide(r, kind))
       \/ Answer(r) \/ PostLost(r)
  \/ \E h \in Publisher : Publish(h) \/ ReclaimLive(h) \/ Crash(h)
  \/ Reopen
  \/ Rereview
  \/ Resubmit

Spec == Init /\ [][Next]_vars

(***************************************************************************)
(* The API finishes the requests it has begun and the workers never stop   *)
(* polling, for stale locks too.  Requests, crashes and retries of         *)
(* Pipeline A are never forced.                                            *)
(***************************************************************************)
FairSpec ==
  /\ Spec
  /\ \A r \in Reviewer : WF_vars(Answer(r))
  /\ \A h \in Publisher : WF_vars(Publish(h))

-----------------------------------------------------------------------------
(***************************************************************************)
(* Properties.                                                             *)
(***************************************************************************)

\* Whatever reviewers ask for at the same time, only the requests that moved
\* the run leave anything behind: no more decision rows, nor announcements of
\* a quarantine, than there are verdicts.  insertDecision looks the review
\* artifact up again after the transition; it still cites the one the run was
\* moved with, except that the decision on a quarantined run, which a retried
\* parse job may take up, can cite a later one.
DecisionsAreVerdicts ==
  /\ \A r \in Reviewer, kind \in Kind :
       LET Of(log) == {i \in DOMAIN log : log[i].reviewer = r /\ log[i].kind = kind}
       IN  Cardinality(Of(decisions)) <= Cardinality(Of(verdicts))
  /\ notices["quarantined"]
       <= Cardinality({i \in DOMAIN verdicts : verdicts[i].kind = "quarantine"})
  /\ \A i \in DOMAIN decisions :
       \E j \in DOMAIN verdicts :
         /\ verdicts[j].reviewer = decisions[i].reviewer
         /\ verdicts[j].kind = decisions[i].kind
         /\ IF decisions[i].kind = "quarantine"
            THEN verdicts[j].version <= decisions[i].version
            ELSE verdicts[j].version = decisions[i].version

\* README: a reproducibility receipt per published result.  A published run has
\* a receipt, and every receipt cites the decision of the reviewer whose
\* approval moved the run and lists the analysis that reviewer approved.  It also
\* lists the analyses before that one, which have all been quarantined, because
\* the artifacts are copied by run alone; no later analysis gets in.  However often
\* the publish job is retried, there is at most one receipt per publisher (one in
\* the deployment, which has one Go worker), and only the publisher that wins
\* publishing -> published announces it.
ReceiptIsBacked ==
  /\ state = "published" => receipts # <<>>
  /\ \A i \in DOMAIN receipts :
       /\ receipts[i].decision # 0
       /\ decisions[receipts[i].decision] = Last(verdicts)
       /\ receipts[i].analyses = 1 .. Last(verdicts).version
       /\ \A n \in receipts[i].analyses \ {Last(verdicts).version} :
            \E j \in DOMAIN verdicts : /\ verdicts[j].version = n
                                      /\ verdicts[j].kind = "quarantine"
  /\ Len(receipts) <= Cardinality(Publisher)
  /\ notices["published"] <= 1

\* No request says which analysis its reviewer was shown.  A run is still only
\* approved with another one if the one on the page has been quarantined, and
\* the run parsed again, while the reviewer was looking at it.
ApprovalsAreInformed ==
  [][\A r \in Reviewer :
       (/\ verdicts' # verdicts
        /\ Last(verdicts').reviewer = r
        /\ Last(verdicts').kind = "approve"
        /\ shown[r] \notin {0, versions})
       => \E i \in DOMAIN verdicts : /\ verdicts[i].kind = "quarantine"
                                    /\ verdicts[i].version = shown[r]]_vars

\* Once its job is enqueued a run is published, even if publishers die between
\* any two of their steps (fewer times than the job has attempts).
EventuallyPublished == publish.state # "absent" ~> state = "published"

\* api.go: approving a run records the decision and enqueues publish_run.
ApprovedIsPublished == state = "approved" ~> state = "published"
=============================================================================
