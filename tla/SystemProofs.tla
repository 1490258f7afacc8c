---------------------------- MODULE SystemProofs -----------------------------
(***************************************************************************)
(* Theorems about System, for any manifests, archives and limits and any   *)
(* number of workers, reviewers, publishers, attempts and crashes.         *)
(***************************************************************************)
EXTENDS System, IngestProofs

\* Where a run can be before its parse job exists, and after.
Early == {"undeclared", "declared", "pulling", "unpacked", "verified", "promoted",
          "needs_metadata", "transfer_failed", "manifest_mismatch", "unsafe_archive"}

Late == {"promoted", "parsing", "validated", "processing", "parser_failed",
         "awaiting_review", "approved", "changes_requested", "quarantined",
         "publishing", "published"}

\* A device run's handler raises no notification.
AnalystPosition ==
  {"idle", "start", "analyse", "report", "giveup", "result", "artifact", "review",
   "validate", "process", "submit", "done", "failed", "failing"}

ParseJobTyped ==
  /\ parseJob \in JobRecord
  /\ parseJob.state = "absent" => parseJob = NoJob

\* Nobody but the pull job touches the run before the parse job exists, and the
\* pull job does not touch it any more afterwards.
Handed ==
  /\ analyst \in [Worker -> AnalystPosition]
  /\ reclaimer \in [pc: {"idle", "stale", "releasing"}, seen: Nat]
  /\ ParseJobTyped
  /\ parse <=> parseJob.state # "absent"
  /\ reclaimer.pc # "idle" => parse
  /\ parse => state \in Late
  /\ ~parse => state \in Early /\ \A w \in Worker : analyst[w] = "idle"
  /\ \A h \in Handler : pc[h] = "handoff" => state = "promoted" /\ ~parse

-----------------------------------------------------------------------------

\* The positions of an attempt before it has inserted its review artifact, and
\* after.
Before == {"analyse", "result", "artifact", "review", "report", "giveup"}
After == {"validate", "process", "submit"}

\* The parse job is queued only while it has attempts left.  There is one attempt
\* at a time, and nobody touches its job before it ends; ReclaimStale acts when
\* there is none.  Fail therefore decides by the count the row has by then.
\* An attempt inserts at most one review artifact.
OneAttempt ==
  /\ reviews \in Seq(ToSet(reviews)) /\ Len(reviews) <= parseJob.attempts
  /\ parseJob.attempts <= MaxAttempts
  /\ parseJob.state = "queued" => parseJob.attempts < MaxAttempts
  /\ attempt \in [Worker -> Nat]
  /\ reclaimer.pc # "idle" => /\ parseJob.state = "running"
                              /\ \A w \in Worker : analyst[w] = "idle"
  /\ reclaimer.pc = "releasing" => reclaimer.seen = parseJob.attempts
  /\ \A w \in Worker : analyst[w] # "idle" =>
       /\ parseJob.state = "running"
       /\ \A v \in Worker \ {w} : analyst[v] = "idle"
       /\ analyst[w] = "failing" => attempt[w] = parseJob.attempts
       /\ analyst[w] # "failing" => attempt[w] # 0
       /\ analyst[w] \in {"start", "analyse", "result", "artifact", "review"} =>
            Len(reviews) < parseJob.attempts

\* The review artifact that was decided on last.
Decided == IF verdicts = <<>> THEN 0 ELSE Last(verdicts).version

\* At most one review artifact has been inserted since: there is none when an
\* attempt begins, one when the run is submitted.
OneUndecided ==
  /\ Len(reviews) \in {Decided, Decided + 1}
  /\ state \in {"promoted", "parser_failed", "quarantined"} => Len(reviews) = Decided
  /\ state = "awaiting_review" => Len(reviews) = Decided + 1
  /\ ~parse => reviews = <<>>
  /\ \A w \in Worker :
       /\ analyst[w] \in Before => state = "parsing" /\ Len(reviews) = Decided
       /\ analyst[w] \in After => Len(reviews) = Decided + 1
       /\ analyst[w] = "validate" => state = "parsing"
       /\ analyst[w] = "process" => state = "validated"
       /\ analyst[w] = "submit" => state = "processing"

\* Every analysis that was decided on has been quarantined, but for the latest if
\* the run is where another verdict has moved it.
Superseded ==
  \A n \in 1 .. Decided :
    n < Decided \/ state \notin Analyst!Accepted =>
      \E j \in DOMAIN verdicts : verdicts[j].version = n /\ verdicts[j].kind = "quarantine"

\* Before the first decision nobody has anything to do at the review gate but to
\* look at the run.
Undecided ==
  /\ reviews = <<>> => \A r \in Reviewer : shown[r] = 0
  /\ \A r \in Reviewer : post[r] = Gate!NoPost
  /\ publish = NoJob
  /\ \A h \in Publisher : publisher[h] = "idle"
  /\ receipts = <<>>
  /\ state \notin {"approved", "changes_requested", "quarantined", "publishing", "published"}

GateOpens ==
  /\ verdicts \in Seq(Gate!Entry)
  /\ verdicts = <<>> => Undecided
  /\ verdicts # <<>> => parse /\ state # "promoted"

Citing ==
  /\ receipts \in Seq(ToSet(receipts))
  /\ cited \in Seq(Citation) /\ Len(cited) = Len(receipts)
  /\ \A i \in DOMAIN cited : /\ cited[i].hash = Head(manifests)
                             /\ cited[i].params \in Recorded
                             /\ cited[i].files = runFiles

\* A manifest that an attempt has loaded is one of the run.
Looking ==
  /\ looked \in [Worker -> Manifest \cup {None}]
  /\ \A w \in Worker : /\ looked[w] = None <=> analyst[w] \in {"idle", "start"}
                       /\ looked[w] # None => looked[w] \in Recorded

\* An attempt that has got somewhere wrote the latest row and the files, and so
\* did the attempt that submitted a run under review.
Outputs ==
  /\ results \in Seq(ToSet(results))
  /\ \A w \in Worker :
       /\ analyst[w] \in {"result", "artifact", "review"} \cup After => processed = {attempt[w]}
       /\ analyst[w] \in {"artifact", "review"} \cup After => Last(results) = attempt[w]
       /\ analyst[w] \in After => Last(reviews) = attempt[w]
  /\ state \in Analyst!Reviewable =>
       processed = {Last(reviews)} /\ Last(results) = Last(reviews)

RowOf(a) == [attempt |-> a, files |-> {a}]

\* Each review artifact comes with the analysis row of its attempt; there is one
\* more only while the attempt is between the two inserts, or has ended there and
\* left the run in parsing for good.
Paired ==
  /\ artifacts \in Seq(Analyst!AnalysisRow)
  /\ Len(artifacts) \in {Len(reviews), Len(reviews) + 1}
  /\ \A n \in 1 .. Len(reviews) : artifacts[n] = RowOf(reviews[n])
  /\ state # "parsing" => Len(artifacts) = Len(reviews)
  /\ \A w \in Worker :
       /\ analyst[w] \in (Before \ {"review"}) \cup After => Len(artifacts) = Len(reviews)
       /\ analyst[w] = "review" => /\ Len(artifacts) = Len(reviews) + 1
                                   /\ artifacts[Len(reviews) + 1] = RowOf(attempt[w])

Published == {"publishing", "published"}

PublisherPosition ==
  {"idle", "load", "begin", "receipt", "insert", "finish", "notify", "done", "failed",
   "failing", "stale", "releasing"}

\* A receipt is written only in publishing; it covers every analysis there has been
\* and has a copy of each row there is.
Receipted ==
  /\ publisher \in [Publisher -> PublisherPosition]
  /\ \A h \in Publisher :
       /\ publisher[h] \in {"receipt", "insert", "finish"} => state \in Published
       /\ publisher[h] = "finish" => receipts # <<>>
  /\ state = "published" => receipts # <<>>
  /\ receipts # <<>> => state \in Published
  /\ \A i \in DOMAIN receipts : /\ receipts[i].analyses = 1 .. Len(reviews)
                                /\ cited[i].rows = artifacts
  /\ state \in Published \cup {"approved"} => Len(reviews) = Decided

SysInv ==
  /\ Inv /\ Handed /\ OneAttempt /\ OneUndecided /\ GateOpens /\ Superseded
  /\ Citing /\ Looking /\ Outputs /\ Paired /\ Receipted

-----------------------------------------------------------------------------
(***************************************************************************)
(* What the steps of Pipeline A do, as far as the others can see it.       *)
(***************************************************************************)

Script == <<"result", "artifact", "review", "validate", "process", "submit">>

LEMMA AnalystScript ==
  /\ Analyst!Script["fet_transfer"] = Script
  /\ Analyst!ToSet(Script)
       = {"result", "artifact", "review", "validate", "process", "submit"}
BY DEF Analyst!Script, Script, Analyst!ToSet

LEMMA AnalystFollows ==
  /\ Analyst!Following("analyse") = "result"
  /\ Analyst!Following("result") = "artifact"
  /\ Analyst!Following("artifact") = "review"
  /\ Analyst!Following("review") = "validate"
  /\ Analyst!Following("validate") = "process"
  /\ Analyst!Following("process") = "submit"
  /\ Analyst!Following("submit") = "done"
<1> DEFINE s == <<"result", "artifact", "review", "validate", "process", "submit">>
<1>1. \A i \in 1 .. 6 : (CHOOSE j \in DOMAIN s : s[j] = s[i]) = i
  OBVIOUS
<1>2. QED
  BY <1>1, AnalystScript DEF Analyst!Following, Script

Claims(w) ==
  /\ analyst[w] = "idle" /\ analyst'[w] = "start"
  /\ parseJob.state = "queued" /\ parseJob' = Started(parseJob)
  /\ UNCHANGED <<state, reviews>>

Leaves(w) ==
  /\ analyst[w] # "idle" /\ analyst'[w] = "idle"
  /\ \/ parseJob' \in {parseJob, Succeeded(parseJob)}
     \/ analyst[w] = "failing" /\ parseJob' = Returned(parseJob, attempt[w], MaxAttempts)
  /\ UNCHANGED <<state, reviews>>

Begins(w) ==
  /\ analyst[w] = "start" /\ analyst'[w] = "analyse"
  /\ state \in {"promoted", "needs_metadata", "parser_failed", "quarantined"}
  /\ state' = "parsing"
  /\ UNCHANGED <<parseJob, reviews>>

Advances(w) ==
  /\ <<analyst[w], analyst'[w]>> \in
       {<<"analyse", "result">>, <<"analyse", "report">>, <<"report", "giveup">>,
        <<"result", "artifact">>, <<"artifact", "review">>}
  /\ UNCHANGED <<parseJob, state, reviews>>

Submits(w) ==
  /\ analyst[w] = "review" /\ analyst'[w] = "validate"
  /\ reviews' = Append(reviews, attempt[w])
  /\ UNCHANGED <<parseJob, state>>

Moves(w) ==
  /\ <<analyst[w], state, state', analyst'[w]>> \in
       {<<"validate", "parsing", "validated", "process">>,
        <<"process", "validated", "processing", "submit">>,
        <<"submit", "processing", "awaiting_review", "done">>,
        <<"giveup", "parsing", "parser_failed", "done">>}
  /\ UNCHANGED <<parseJob, reviews>>

Stops(w) ==
  /\ analyst[w] \notin {"idle", "failing"} /\ analyst'[w] \in {"done", "failed", "failing"}
  /\ UNCHANGED <<parseJob, state, reviews>>

Parses(w) ==
  \/ Claims(w) \/ Leaves(w) \/ Begins(w) \/ Advances(w) \/ Submits(w) \/ Moves(w)
  \/ Stops(w)

Steady(w) ==
  /\ analyst' \in [Worker -> AnalystPosition]
  /\ \A v \in Worker \ {w} : analyst'[v] = analyst[v]

LEMMA Goes ==
  ASSUME NEW w \in Worker, analyst \in [Worker -> AnalystPosition],
         NEW position \in AnalystPosition, Analyst!Goto(w, position)
  PROVE  Steady(w) /\ analyst'[w] = position
BY DEF Steady, Analyst!Goto

LEMMA StepParses ==
  ASSUME NEW w \in Worker, analyst \in [Worker -> AnalystPosition],
         Analyst!Step(w) \/ Analyst!GiveUpFails(w) \/ Analyst!Raise(w) \/ Analyst!Crash(w)
  PROVE  Steady(w) /\ Parses(w)
<1>1. CASE Analyst!Claim(w)
  BY <1>1, Goes DEF Analyst!Claim, Analyst!records, Parses, Claims, AnalystPosition,
     Started, Analyst!Started
<1>2. CASE Analyst!Complete(w) \/ Analyst!FailWrite(w) \/ Analyst!Crash(w)
  BY <1>2, Goes DEF Analyst!Complete, Analyst!FailWrite, Analyst!Crash, Analyst!Leave,
     Analyst!records, Parses, Leaves, AnalystPosition, Succeeded, Analyst!Succeeded,
     Returned, Analyst!Returned
<1>3. CASE Analyst!Start(w)
  <2>1. CASE Analyst!CanTransition(state, "parsing")
    <3>1. state \in {"promoted", "needs_metadata", "parser_failed", "quarantined"}
      BY <2>1, SMTT(60) DEF Analyst!CanTransition, Analyst!Allowed, Analyst!RunState
    <3>2. QED
      BY <1>3, <2>1, <3>1, Goes DEF Analyst!Start, Analyst!records, Parses, Begins,
         AnalystPosition
  <2>2. CASE ~Analyst!CanTransition(state, "parsing")
    BY <1>3, <2>2, Goes DEF Analyst!Start, Analyst!records, Parses, Stops, AnalystPosition
  <2>3. QED
    BY <2>1, <2>2
<1>4. CASE Analyst!Analyse(w) \/ Analyst!AnalyseFails(w) \/ Analyst!ReportFailure(w)
           \/ Analyst!InsertResult(w) \/ Analyst!InsertArtifact(w)
  BY <1>4, Goes, AnalystFollows
  DEF Analyst!Analyse, Analyst!AnalyseFails, Analyst!ReportFailure, Analyst!InsertResult,
      Analyst!InsertArtifact, Analyst!Proceed, Parses, Advances, AnalystPosition
<1>5. CASE Analyst!InsertReview(w)
  BY <1>5, Goes, AnalystFollows
  DEF Analyst!InsertReview, Analyst!Proceed, Parses, Submits, AnalystPosition
<1>6. CASE Analyst!Move(w)
  <2>1. ASSUME NEW from, NEW to, NEW next \in AnalystPosition,
               Analyst!Transition(w, from, to), Analyst!Following(analyst[w]) = next
        PROVE  /\ Steady(w)
               /\ \/ state = from /\ state' = to /\ analyst'[w] = next
                  \/ state' = state /\ analyst'[w] = "failed"
    BY <2>1, Goes DEF Analyst!Transition, Analyst!Proceed, AnalystPosition
  <2>2. UNCHANGED <<parseJob, reviews>> /\ analyst[w] \in {"validate", "process", "submit"}
    BY <1>6 DEF Analyst!Move, Analyst!records
  <2>3. CASE analyst[w] = "validate"
    BY <1>6, <2>1, <2>2, <2>3, AnalystFollows
    DEF Analyst!Move, Parses, Moves, Stops, AnalystPosition
  <2>4. CASE analyst[w] = "process"
    BY <1>6, <2>1, <2>2, <2>4, AnalystFollows
    DEF Analyst!Move, Parses, Moves, Stops, AnalystPosition
  <2>5. CASE analyst[w] = "submit"
    BY <1>6, <2>1, <2>2, <2>5, AnalystFollows
    DEF Analyst!Move, Parses, Moves, Stops, AnalystPosition
  <2>6. QED
    BY <2>2, <2>3, <2>4, <2>5
<1>7. CASE Analyst!GiveUp(w)
  BY <1>7, Goes DEF Analyst!GiveUp, Analyst!records, Parses, Moves, Stops, AnalystPosition
<1>8. CASE Analyst!GiveUpFails(w)
  BY <1>8, Goes DEF Analyst!GiveUpFails, Analyst!records, Parses, Stops, AnalystPosition
<1>9. CASE Analyst!Raise(w)
  <2>1. analyst[w] \notin {"idle", "failing"}
    BY <1>9, AnalystScript DEF Analyst!Raise
  <2>2. QED
    BY <1>9, <2>1, Goes DEF Analyst!Raise, Parses, Stops, AnalystPosition
<1>10. CASE Analyst!Notify(w)
  BY <1>10 DEF Analyst!Notify, AnalystPosition
<1>11. CASE Analyst!LoadCounts(w)
  BY <1>11, Goes DEF Analyst!LoadCounts, Analyst!records, Parses, Stops, AnalystPosition
<1>12. QED
  BY <1>1, <1>2, <1>3, <1>4, <1>5, <1>6, <1>7, <1>8, <1>9, <1>10, <1>11
  DEF Analyst!Step, Analyst!Handle

\* The workers have no part in ReclaimStale.
LEMMA ReclaimerKept ==
  ASSUME NEW w \in Worker,
         Analyst!Step(w) \/ Analyst!GiveUpFails(w) \/ Analyst!Raise(w) \/ Analyst!Crash(w)
  PROVE  UNCHANGED reclaimer
<1>1. CASE Analyst!Claim(w) \/ Analyst!Complete(w) \/ Analyst!LoadCounts(w)
           \/ Analyst!FailWrite(w) \/ Analyst!Crash(w)
  BY <1>1 DEF Analyst!Claim, Analyst!Complete, Analyst!LoadCounts, Analyst!FailWrite,
     Analyst!Crash, Analyst!Leave
<1>2. CASE Analyst!GiveUpFails(w) \/ Analyst!Raise(w)
  BY <1>2 DEF Analyst!GiveUpFails, Analyst!Raise
<1>3. CASE Analyst!Handle(w)
  BY <1>3 DEF Analyst!Handle, Analyst!Start, Analyst!Analyse, Analyst!AnalyseFails,
     Analyst!ReportFailure, Analyst!GiveUp, Analyst!InsertResult, Analyst!InsertArtifact,
     Analyst!InsertReview, Analyst!Move, Analyst!Notify
<1>4. QED
  BY <1>1, <1>2, <1>3 DEF Analyst!Step

-----------------------------------------------------------------------------
(***************************************************************************)
(* The pull job and the run.                                               *)
(***************************************************************************)

LEMMA ParseJobSteps ==
  ASSUME ParseJobTyped
  PROVE  /\ parseJob' = Enqueued(parseJob) => ParseJobTyped' /\ parseJob'.state # "absent"
         /\ parseJob.state = "queued" /\ parseJob' = Started(parseJob) =>
              /\ ParseJobTyped' /\ parseJob'.state = "running"
              /\ parseJob'.attempts = parseJob.attempts + 1
         /\ /\ parseJob.state # "absent"
            /\ \/ parseJob' \in {parseJob, Succeeded(parseJob)}
               \/ \E seen : parseJob' = Returned(parseJob, seen, MaxAttempts)
            => /\ ParseJobTyped' /\ parseJob'.state # "absent"
               /\ parseJob'.attempts = parseJob.attempts
<1>1. parseJob' = Enqueued(parseJob) => ParseJobTyped' /\ parseJob'.state # "absent"
  BY DEF ParseJobTyped, JobRecord, NoJob, Enqueued
<1>2. parseJob.state = "queued" /\ parseJob' = Started(parseJob) =>
        /\ ParseJobTyped' /\ parseJob'.state = "running"
        /\ parseJob'.attempts = parseJob.attempts + 1
  BY DEF ParseJobTyped, JobRecord, NoJob, Started
<1>3. parseJob' = parseJob => ParseJobTyped' /\ parseJob'.attempts = parseJob.attempts
  BY DEF ParseJobTyped
<1>4. parseJob' = Succeeded(parseJob) =>
        ParseJobTyped' /\ parseJob'.state = "succeeded" /\ parseJob'.attempts = parseJob.attempts
  BY DEF ParseJobTyped, JobRecord, NoJob, Succeeded
<1>5. ASSUME NEW seen, parseJob' = Returned(parseJob, seen, MaxAttempts)
      PROVE  /\ ParseJobTyped' /\ parseJob'.state \in {"queued", "dead"}
             /\ parseJob'.attempts = parseJob.attempts
  BY <1>5 DEF ParseJobTyped, JobRecord, NoJob, Returned
<1>6. QED
  BY <1>1, <1>2, <1>3, <1>4, <1>5

LEMMA EarlyAndLate ==
  /\ \A from : CanTransition(from, "pulling") => from \notin Late
  /\ {"pulling", "unpacked", "verified", "undeclared"} \cap Late = {}
  /\ Late \subseteq Ingested
  /\ Early \cap Ingested = {"promoted", "needs_metadata"}
BY StateFacts DEF Early, Late, Ingested, PastIngest

\* What a step of HandlePullRun does to the run: nothing once it is handed on.
LEMMA WorkHands ==
  ASSUME Inv, Handed, NEW h \in Handler, Work(h)
  PROVE  /\ parse => parse' /\ UNCHANGED <<state, runFiles>>
         /\ ~parse => state' \in Early
         /\ ~parse /\ parse' => state = "promoted" /\ UNCHANGED <<state, runFiles>>
         /\ pc'[h] = "handoff" => state' = "promoted" /\ ~parse'
<1>0. /\ Reached(h) /\ parse \in BOOLEAN /\ pc \in [Handler -> Position]
      /\ parse => Described(Head(manifests))
      /\ parse => state \in Late
      /\ ~parse => state \in Early
      /\ pc[h] = "handoff" => state = "promoted" /\ ~parse
  BY DEF Inv, Typed, RowsTyped, HandlersTyped, Undisturbed, Recording, Handed
<1> DEFINE Goal == /\ parse => parse' /\ UNCHANGED <<state, runFiles>>
                   /\ ~parse => state' \in Early
                   /\ ~parse /\ parse' => state = "promoted" /\ UNCHANGED <<state, runFiles>>
                   /\ pc'[h] = "handoff" => state' = "promoted" /\ ~parse'
<1>1. ASSUME UNCHANGED <<parse, runFiles>>,
             \/ UNCHANGED state
             \/ state \in {"pulling", "unpacked"} /\ state' \in Early
             \/ CanTransition(state, "pulling") /\ state' = "pulling",
             pc'[h] # "handoff"
      PROVE  Goal
  BY <1>0, <1>1, EarlyAndLate DEF Early
<1> DEFINE OnlyPulls == /\ \/ UNCHANGED state
                           \/ state \in {"pulling", "unpacked"} /\ state' \in Early
                        /\ pc'[h] # "handoff"
<1>2. ASSUME NEW from \in {"pulling", "unpacked"},
             NEW to \in {"unpacked", "verified", "transfer_failed", "unsafe_archive",
                         "manifest_mismatch"}
      PROVE  /\ FailTo(h, from, to) => OnlyPulls
             /\ \A next \in Position \ {"handoff"} : Transition(h, from, to, next) => OnlyPulls
             /\ \A next \in Position \ {"handoff"} : Goto(h, next) /\ UNCHANGED state => OnlyPulls
  <2>1. to \in Early
    BY DEF Early
  <2>2. ASSUME NEW next \in Position \ {"handoff"}, Goto(h, next)
        PROVE  pc'[h] # "handoff"
    BY <1>0, <2>2 DEF Goto
  <2>3. FailTo(h, from, to) => OnlyPulls
    <3>1. FailTo(h, from, to) => Goto(h, "failed") /\ (UNCHANGED state \/ (state = from /\ state' = to))
      BY DEF FailTo
    <3>2. QED
      BY <2>1, <2>2, <3>1 DEF Position
  <2>4. ASSUME NEW next \in Position \ {"handoff"}, Transition(h, from, to, next)
        PROVE  OnlyPulls
    <3>1. /\ Goto(h, next) \/ Goto(h, "failed")
          /\ UNCHANGED state \/ (state = from /\ state' = to)
      BY <2>4 DEF Transition
    <3>2. QED
      BY <2>1, <2>2, <3>1 DEF Position
  <2>5. QED
    BY <2>2, <2>3, <2>4
<1> HIDE DEF OnlyPulls
<1>3. CASE Load(h) \/ Fetch(h) \/ ClearUnpackDir(h) \/ ExtractEntry(h) \/ PromoteFiles(h)
           \/ Seal(h) \/ HandOffFails(h)
  BY <1>0, <1>1, <1>3
  DEF Load, Fetch, ClearUnpackDir, ExtractEntry, PromoteFiles, Seal, HandOffFails, Goto,
      tables, Position
<1>4. CASE Begin(h)
  BY <1>0, <1>1, <1>4 DEF Begin, Transition, Goto, tables
<1>5. CASE FetchFails(h) \/ CheckHash(h) \/ ExtractUnsafe(h) \/ ExtractFails(h)
  <2>1. UNCHANGED <<parse, runFiles>>
    BY <1>5 DEF FetchFails, CheckHash, ExtractUnsafe, ExtractFails, tables
  <2>2. OnlyPulls
    BY <1>2, <1>5 DEF FetchFails, CheckHash, ExtractUnsafe, ExtractFails, Position
  <2>3. QED
    BY <1>1, <2>1, <2>2 DEF OnlyPulls
<1>6. CASE Unpacked(h) \/ Verify(h)
  <2>1. UNCHANGED <<parse, runFiles>>
    BY <1>6 DEF Unpacked, Verify, tables
  <2>2. OnlyPulls
    BY <1>2, <1>6 DEF Unpacked, Verify, Position
  <2>3. QED
    BY <1>1, <2>1, <2>2 DEF OnlyPulls
<1>7. CASE Record(h)
  <2>1. UNCHANGED parse /\ (state # "verified" => UNCHANGED <<state, runFiles>>)
    BY <1>7 DEF Record, Transition
  <2>2. pc'[h] = "handoff" => state = "verified" /\ state' = "promoted"
    BY <1>0, <1>7 DEF Record, Transition, Goto
  <2>3. state = "verified" => state' \in Early /\ ~parse
    BY <1>0, <1>7, EarlyAndLate DEF Record, Transition, Early
  <2>4. QED
    BY <1>0, <2>1, <2>2, <2>3, EarlyAndLate
<1>8. CASE HandOff(h)
  <2>1. pc'[h] # "handoff" /\ state = "promoted" /\ ~parse /\ UNCHANGED runFiles
    BY <1>0, <1>8 DEF HandOff, Goto
  <2>2. /\ state' \in {"promoted", "needs_metadata"}
        /\ parse' => UNCHANGED state
    BY <1>8, <2>1 DEF HandOff
  <2>3. QED
    BY <2>1, <2>2 DEF Early
<1>9. QED
  BY <1>3, <1>4, <1>5, <1>6, <1>7, <1>8 DEF Work

\* A step of Ingest is one of Ingesting, and enqueues the parse job when it sets
\* parse.
LEMMA IngestingHands ==
  ASSUME Inv, Handed, Ingesting
  PROVE  /\ Next /\ Handed'
         /\ parse => parse' /\ UNCHANGED <<state, runFiles, parseJob>>
         /\ ~parse /\ parse' => /\ state = "promoted" /\ UNCHANGED <<state, runFiles>>
                                /\ parseJob' = Enqueued(NoJob)
         /\ ~parse' => UNCHANGED parseJob
         /\ manifests # <<>> => Head(manifests') = Head(manifests)
         /\ Recorded \subseteq Recorded'
<1>0. /\ RowsTyped /\ pc \in [Handler -> Position] /\ parse \in BOOLEAN
      /\ Alone /\ Typed
  BY DEF Inv, Typed, RowsTyped, HandlersTyped, Undisturbed
<1>1. Next
  BY DEF Ingesting, Next
<1> DEFINE RunKept ==
             /\ parse => parse' /\ UNCHANGED <<state, runFiles>>
             /\ ~parse => state' \in Early
             /\ ~parse /\ parse' => state = "promoted" /\ UNCHANGED <<state, runFiles>>
             /\ \A g \in Handler : pc'[g] = "handoff" => state' = "promoted" /\ ~parse'
           OldKept ==
             /\ manifests # <<>> => Head(manifests') = Head(manifests)
             /\ Recorded \subseteq Recorded'
<1>2. ASSUME UNCHANGED <<parse, runFiles>>,
             \/ UNCHANGED state
             \/ state = "undeclared" /\ state' = "declared",
             \A g \in Handler : pc'[g] = "handoff" => pc[g] = "handoff"
      PROVE  RunKept
  BY <1>0, <1>2, EarlyAndLate DEF Handed, Early
<1>3. UNCHANGED manifests => OldKept
  BY DEF Recorded
<1> HIDE DEF RunKept, OldKept
<1>4. ASSUME NEW m \in Manifest, Declare(m)
      PROVE  RunKept /\ OldKept
  <2>1. UNCHANGED <<parse, runFiles, pc>>
    BY <1>4 DEF Declare
  <2>2. state' = IF state = "undeclared" THEN "declared" ELSE state
    BY <1>4 DEF Declare
  <2>3. OldKept
    BY <1>0, <1>4, DeclareSteps DEF Recorded, OldKept
  <2>4. QED
    BY <1>2, <2>1, <2>2, <2>3
<1>5. ASSUME EnqueuePull \/ PostLost \/ Reclaim
      PROVE  RunKept /\ OldKept
  <2>1. UNCHANGED <<parse, runFiles, state, manifests, pc>>
    BY <1>5 DEF EnqueuePull, PostLost, Reclaim, tables
  <2>2. OldKept
    BY <1>3, <2>1
  <2>3. RunKept
    BY <1>2, <2>1
  <2>4. QED
    BY <2>2, <2>3
<1>6. ASSUME NEW h \in Handler, Claim(h) \/ Complete(h) \/ Fail(h) \/ Crash(h)
      PROVE  RunKept /\ OldKept
  <2>1. UNCHANGED <<parse, runFiles, state, manifests>>
    BY <1>6 DEF Claim, Complete, Fail, Crash, tables
  <2>2. \A g \in Handler : pc'[g] = "handoff" => pc[g] = "handoff"
    BY <1>0, <1>6 DEF Claim, Complete, Fail, Crash, Leave, Goto
  <2>3. QED
    BY <1>2, <1>3, <2>1, <2>2
<1>7. ASSUME NEW h \in Handler, Work(h)
      PROVE  RunKept /\ OldKept
  <2>1. /\ UNCHANGED manifests /\ pc[h] # "idle"
        /\ \A g \in Handler \ {h} : pc'[g] = pc[g]
    BY <1>0, <1>7, WorkSteps
  <2>2. \A g \in Handler \ {h} : pc'[g] = "idle"
    BY <1>0, <2>1 DEF Alone
  <2>3. RunKept
    <3>1. ASSUME NEW g \in Handler, pc'[g] = "handoff"
          PROVE  state' = "promoted" /\ ~parse'
      <4>1. g = h
        BY <2>2, <3>1
      <4>2. QED
        BY <1>7, <3>1, <4>1, WorkHands
    <3>2. QED
      BY <1>7, <3>1, WorkHands DEF RunKept
  <2>4. QED
    BY <1>3, <2>1, <2>3
<1>8. RunKept /\ OldKept
  <2>1. \/ \E m \in Manifest : Declare(m)
        \/ EnqueuePull \/ PostLost \/ Reclaim
        \/ \E h \in Handler : Claim(h) \/ Work(h) \/ Complete(h) \/ Fail(h) \/ Crash(h)
    BY DEF Ingesting
  <2>2. QED
    BY <1>4, <1>5, <1>6, <1>7, <2>1
<1>9. /\ parseJob' = IF parse' THEN Enqueued(parseJob) ELSE parseJob
      /\ UNCHANGED <<analyst, reclaimer>>
  BY DEF Ingesting
<1>10. parse' \in BOOLEAN
  BY <1>0, <1>1, RowsNext DEF RowsTyped
<1>11. /\ parse => UNCHANGED parseJob
       /\ ~parse /\ parse' => parseJob' = Enqueued(NoJob) /\ parseJob'.state = "queued"
       /\ ~parse' => UNCHANGED parseJob
       /\ ParseJobTyped'
  <2>1. parse => UNCHANGED parseJob
    BY <1>9 DEF Handed, Enqueued
  <2>2. ~parse /\ parse' => parseJob' = Enqueued(NoJob) /\ parseJob'.state = "queued"
    BY <1>9 DEF Handed, ParseJobTyped, Enqueued, NoJob
  <2>3. ~parse' => UNCHANGED parseJob
    BY <1>9
  <2>4. ParseJobTyped'
    BY <1>9, ParseJobSteps DEF Handed, ParseJobTyped
  <2>5. QED
    BY <2>1, <2>2, <2>3, <2>4
<1>12. Handed'
  <2>1. parse' <=> parseJob'.state # "absent"
    BY <1>0, <1>8, <1>10, <1>11 DEF Handed, RunKept
  <2>2. ParseJobTyped'
    BY <1>11
  <2>3. parse' => state' \in Late
    BY <1>0, <1>8 DEF Handed, RunKept, Late
  <2>4. ~parse' => state' \in Early /\ \A w \in Worker : analyst'[w] = "idle"
    BY <1>0, <1>8, <1>9 DEF Handed, RunKept
  <2>5. \A h \in Handler : pc'[h] = "handoff" => state' = "promoted" /\ ~parse'
    BY <1>8 DEF RunKept
  <2>6. QED
    BY <1>9, <2>1, <2>2, <2>3, <2>4, <2>5 DEF Handed
<1>13. QED
  BY <1>1, <1>8, <1>11, <1>12 DEF RunKept, OldKept

-----------------------------------------------------------------------------
(***************************************************************************)
(* The other components are what Ingest takes them for.                    *)
(***************************************************************************)

\* All that Ingest has but runs.state.
Ingests == <<pull, crashes, archive, staged, raw, sealed, ignored, manifests, runFiles,
             parse, posting, pc, local>>

LEMMA RestKept ==
  ASSUME UNCHANGED rest
  PROVE  UNCHANGED Ingests
BY DEF rest, job, disk, tables, Ingests

LEMMA Drives ==
  ASSUME UNCHANGED rest, parse,
         \E edge \in Driven : state = edge[1] /\ state' = edge[2]
  PROVE  Downstream
BY DEF rest, Downstream

LEMMA Stutters ==
  ASSUME UNCHANGED <<rest, state>>
  PROVE  UNCHANGED vars
BY DEF rest, job, disk, tables, vars

LEMMA ParsingDrives ==
  ASSUME Handed, NEW w \in Worker, Parsing(w)
  PROVE  /\ Handed' /\ parse /\ UNCHANGED rest
         /\ UNCHANGED vars \/ Downstream
         /\ Steady(w) /\ Parses(w)
<1>1. /\ UNCHANGED rest /\ UNCHANGED Ingests
      /\ Steady(w) /\ Parses(w)
  BY StepParses, RestKept DEF Parsing, Handed, rest
<1>2. parse /\ parse' /\ UNCHANGED <<pc, reclaimer>>
  BY <1>1, ReclaimerKept DEF Parsing, Handed, Parses, Claims, Leaves, Begins, Advances, Submits, Moves, Stops,
     AnalystPosition, Ingests, NoJob
<1>3. UNCHANGED state \/ \E edge \in Driven : state = edge[1] /\ state' = edge[2]
  <2>1. CASE Begins(w)
    <3>1. <<state, "parsing">> \in Driven
      BY <1>2, <2>1 DEF Handed, Begins, Late, Driven
    <3>2. QED
      BY <2>1, <3>1 DEF Begins
  <2>2. CASE Moves(w)
    <3>1. <<state, state'>> \in Driven
      BY <2>2 DEF Moves, Driven
    <3>2. QED
      BY <3>1
  <2>3. QED
    BY <1>1, <2>1, <2>2 DEF Parses, Claims, Leaves, Advances, Submits, Stops
<1>4. UNCHANGED vars \/ Downstream
  BY <1>1, <1>2, <1>3, Drives, Stutters
<1>5. state' \in Late
  BY <1>2, <1>3 DEF Handed, Driven, Late
<1>6. ParseJobTyped' /\ parseJob'.state # "absent"
  <2>1. /\ ParseJobTyped /\ parseJob.state # "absent"
        /\ \/ parseJob' \in {parseJob, Succeeded(parseJob)}
           \/ \E seen : parseJob' = Returned(parseJob, seen, MaxAttempts)
           \/ parseJob.state = "queued" /\ parseJob' = Started(parseJob)
    BY <1>1, <1>2 DEF Handed, Parses, Claims, Leaves, Begins, Advances, Submits, Moves, Stops
  <2>2. QED
    BY <2>1, ParseJobSteps
<1>7. Handed'
  BY <1>1, <1>2, <1>5, <1>6 DEF Handed, Steady
<1>8. QED
  BY <1>1, <1>2, <1>4, <1>7

\* What ReclaimStale does to the parse job and to itself.
Reclaims ==
  \/ /\ reclaimer.pc = "idle" /\ reclaimer' = [reclaimer EXCEPT !.pc = "stale"]
     /\ parseJob.state = "running" /\ UNCHANGED parseJob
     /\ Timely => \A w \in Worker : analyst[w] = "idle"
  \/ /\ reclaimer.pc # "idle" /\ UNCHANGED parseJob
     /\ reclaimer' \in {[pc |-> "releasing", seen |-> parseJob.attempts],
                         Analyst!NotReclaiming}
  \/ /\ reclaimer.pc = "releasing" /\ reclaimer' = Analyst!NotReclaiming
     /\ parseJob' = Returned(parseJob, reclaimer.seen, MaxAttempts)

LEMMA ReparsingDrives ==
  ASSUME Handed, Reparsing
  PROVE  /\ Handed' /\ parse /\ UNCHANGED rest /\ UNCHANGED vars
         /\ Reclaims
         /\ UNCHANGED <<state, analyst, reviews, attempt>>
<1>1. /\ UNCHANGED rest /\ UNCHANGED <<state, analyst, reviews, attempt>>
      /\ Reclaims
  BY DEF Reparsing, Analyst!Reclaim, Analyst!ReclaimScan, Analyst!ReclaimLoad,
     Analyst!ReclaimWrite, Analyst!ReclaimLost, Analyst!records, Returned,
     Analyst!Returned, Reclaims
<1>2. UNCHANGED vars /\ UNCHANGED Ingests
  BY <1>1, Stutters, RestKept
<1>3. parse /\ parse' /\ ParseJobTyped' /\ parseJob'.state # "absent"
  BY <1>1, <1>2, ParseJobSteps DEF Handed, Reclaims, Ingests, NoJob
<1>4. reclaimer' \in [pc: {"idle", "stale", "releasing"}, seen: Nat]
  BY <1>1 DEF Handed, ParseJobTyped, JobRecord, Reclaims, Analyst!NotReclaiming
<1>5. Handed'
  BY <1>1, <1>2, <1>3, <1>4 DEF Handed, Ingests
<1>6. QED
  BY <1>1, <1>2, <1>3, <1>5

\* What the steps of the review gate do, as far as the others can see it.
Decides(r) ==
  /\ post[r] = Gate!NoPost
  /\ state = "awaiting_review"
  /\ state' \in {"approved", "changes_requested", "quarantined"}
  /\ \E kind \in Gate!Kind :
       /\ verdicts' = Append(verdicts, [kind |-> kind, reviewer |-> r, version |-> Len(reviews)])
       /\ kind # "quarantine" => state' # "quarantined"
  /\ UNCHANGED <<receipts, publish, publisher>>

Requests(r) ==
  \/ Decides(r)
  \/ /\ post[r] = Gate!NoPost /\ UNCHANGED <<state, verdicts, receipts, publish, publisher, post>>
     /\ shown[r] # Len(reviews)
  \/ post[r] # Gate!NoPost /\ UNCHANGED <<state, verdicts, receipts, publisher>>

Publishes(h) ==
  /\ publish.state \in {"queued", "running"} \/ publisher[h] # "idle"
  /\ <<state, state'>> \in {<<state, state>>, <<"approved", "publishing">>,
                            <<"publishing", "published">>}
  /\ \/ UNCHANGED receipts
     \/ \E receipt : receipts' = Append(receipts, receipt) /\ UNCHANGED state
  /\ UNCHANGED <<verdicts, post>>

LEMMA ReviewingSteps ==
  ASSUME NEW r \in Reviewer, Reviewing(r)
  PROVE  UNCHANGED <<rest, analysis, cited>> /\ Requests(r)
<1>1. UNCHANGED <<rest, analysis, cited>>
  BY DEF Reviewing
<1>2. CASE Gate!View(r)
  BY <1>1, <1>2 DEF Gate!View, Gate!records, Requests
<1>3. ASSUME NEW kind \in Gate!Kind, Gate!Decide(r, kind)
      PROVE  Requests(r)
  <2>1. /\ state' \in {"approved", "changes_requested", "quarantined"}
        /\ kind # "quarantine" => state' # "quarantined"
    BY <1>1, <1>3 DEF Gate!Decide, Gate!Target, Gate!Kind
  <2>2. Decides(r)
    BY <1>3, <2>1 DEF Gate!Decide, Gate!Verdict, Decides
  <2>3. QED
    BY <2>2 DEF Requests
<1>4. CASE Gate!Answer(r)
  <2>1. post[r].next \in {"decision", "enqueue", "notify"}
        /\ UNCHANGED <<state, verdicts, receipts, publisher>>
    BY <1>1, <1>4 DEF Gate!Answer, Gate!InsertDecision, Gate!EnqueuePublish, Gate!NotifyQuarantine,
       Gate!records
  <2>2. post[r] # Gate!NoPost
    BY <2>1 DEF Gate!NoPost
  <2>3. QED
    BY <1>1, <2>1, <2>2 DEF Requests
<1>5. CASE Gate!PostLost(r)
  BY <1>1, <1>5 DEF Gate!PostLost, Gate!records, Requests
<1>6. QED
  BY <1>1, <1>2, <1>3, <1>4, <1>5 DEF Reviewing

LEMMA PublishingSteps ==
  ASSUME NEW h \in Publisher, Publishing(h)
  PROVE  UNCHANGED <<rest, analysis>> /\ Publishes(h)
<1>1. UNCHANGED <<rest, analysis>>
  BY DEF Publishing
<1>2. CASE Gate!Claim(h)
  BY <1>1, <1>2 DEF Gate!Claim, Gate!records, Publishes
<1>3. CASE Gate!Load(h) \/ Gate!FindReceipt(h) \/ Gate!Complete(h) \/ Gate!LoadCounts(h)
           \/ Gate!FailWrite(h) \/ Gate!Crash(h) \/ Gate!ReclaimScan(h) \/ Gate!ReclaimLive(h)
  BY <1>1, <1>3 DEF Gate!Load, Gate!FindReceipt, Gate!Complete, Gate!LoadCounts,
     Gate!FailWrite, Gate!Leave, Gate!Crash, Gate!ReclaimScan, Gate!ReclaimLive, Gate!Scan,
     Gate!records, Publishes
<1>4. CASE Gate!Begin(h) \/ Gate!Finish(h)
  BY <1>1, <1>4 DEF Gate!Begin, Gate!Finish, Gate!Transition, Gate!records, Publishes
<1>5. CASE Gate!InsertReceipt(h)
  BY <1>1, <1>5 DEF Gate!InsertReceipt, Publishes
<1>6. CASE Gate!NotifyPublished(h)
  BY <1>1, <1>6 DEF Gate!NotifyPublished, Publishes
<1>7. QED
  BY <1>1, <1>2, <1>3, <1>4, <1>5, <1>6 DEF Publishing, Gate!Publish

LEMMA GateDrives ==
  ASSUME Handed,
         \/ \E r \in Reviewer : Reviewing(r)
         \/ \E h \in Publisher : Publishing(h)
  PROVE  /\ Handed' /\ (UNCHANGED vars \/ Downstream)
         /\ UNCHANGED <<rest, analysis>>
         /\ \/ UNCHANGED state
            \/ parse /\ <<state, state'>> \in AsPipelineA!Driven
<1>1. UNCHANGED <<rest, analysis>>
  BY ReviewingSteps, PublishingSteps
<1>2. UNCHANGED <<Ingests, analyst, parseJob, reclaimer>>
  BY <1>1, RestKept DEF analysis
<1>3. \/ UNCHANGED state
      \/ <<state, state'>> \in Driven /\ state \in {"awaiting_review", "approved", "publishing"}
  <2>1. ASSUME NEW r \in Reviewer, Reviewing(r)
        PROVE  \/ UNCHANGED state
               \/ <<state, state'>> \in Driven /\ state = "awaiting_review"
    BY <2>1, ReviewingSteps DEF Requests, Decides, Driven
  <2>2. ASSUME NEW h \in Publisher, Publishing(h)
        PROVE  \/ UNCHANGED state
               \/ <<state, state'>> \in Driven /\ state \in {"approved", "publishing"}
    BY <2>2, PublishingSteps DEF Publishes, Driven
  <2>3. QED
    BY <2>1, <2>2
<1>4. UNCHANGED state \/ parse
  BY <1>3 DEF Handed, Early
<1>5. state' \in Late \/ UNCHANGED state
  BY <1>3 DEF Driven, Late
<1>6. Handed'
  BY <1>2, <1>4, <1>5 DEF Handed, ParseJobTyped, Ingests
<1>7. UNCHANGED state \/ \E edge \in Driven : state = edge[1] /\ state' = edge[2]
  BY <1>3
<1>8. UNCHANGED state \/ <<state, state'>> \in AsPipelineA!Driven
  BY <1>3 DEF Driven, AsPipelineA!Driven
<1>9. QED
  BY <1>1, <1>4, <1>6, <1>7, <1>8, Drives, Stutters

LEMMA HandedNext ==
  ASSUME Inv, Handed, [SystemNext]_systemVars
  PROVE  Handed' /\ [Next]_vars
<1>1. CASE Ingesting
  BY <1>1, IngestingHands
<1>2. ASSUME NEW w \in Worker, Parsing(w)
      PROVE  Handed' /\ [Next]_vars
  BY <1>2, ParsingDrives DEF Next
<1>3. CASE Reparsing
  BY <1>3, ReparsingDrives
<1>4. CASE \/ \E r \in Reviewer : Reviewing(r)
           \/ \E h \in Publisher : Publishing(h)
  BY <1>4, GateDrives DEF Next
<1>5. CASE UNCHANGED systemVars
  <2>1. UNCHANGED <<vars, analyst, parseJob, reclaimer>>
    BY <1>5 DEF systemVars, analysis
  <2>2. UNCHANGED <<state, parse, pc>>
    BY <2>1 DEF vars
  <2>3. QED
    BY <2>1, <2>2 DEF Handed, ParseJobTyped
<1>6. QED
  BY <1>1, <1>2, <1>3, <1>4, <1>5 DEF SystemNext

LEMMA HandedInit ==
  ASSUME SystemInit
  PROVE  Init /\ Handed
<1>1. ParseJobTyped
  BY IngestConstantsOK DEF SystemInit, ParseJobTyped, NoJob, JobRecord
<1>2. QED
  BY <1>1 DEF SystemInit, Init, Handed, AnalystPosition, NoJob, Early, Analyst!NotReclaiming

LEMMA HandedAlways == Timely /\ SystemSpec => [](Inv /\ Handed)
<1>1. Timely /\ SystemInit => Inv /\ Handed
  BY HandedInit, InvInit
<1>2. Inv /\ Handed /\ [SystemNext]_systemVars => (Inv /\ Handed)'
  BY HandedNext, InvNext
<1>3. QED
  BY <1>1, <1>2, PTL DEF SystemSpec

\* While locks outlive their handlers, the system with its real Pipeline A and its
\* real review gate is an Ingest: all that those two do to a run is Downstream, so
\* every property of Ingest is one of the system.
THEOREM SystemIsIngest == Timely /\ SystemSpec => ImplementsIngest
<1>1. SystemInit => Init
  BY HandedInit
<1>2. Inv /\ Handed /\ [SystemNext]_systemVars => [Next]_vars
  BY HandedNext
<1>3. QED
  BY <1>1, <1>2, HandedAlways, PTL DEF SystemSpec, ImplementsIngest, Spec

-----------------------------------------------------------------------------
(***************************************************************************)
(* Pipeline A after the hand-off.                                          *)
(***************************************************************************)

LEMMA SameFunctions ==
  /\ \A from, to : Analyst!CanTransition(from, to) <=> AsPipelineA!CanTransition(from, to)
  /\ \A position : Analyst!Following(position) = AsPipelineA!Following(position)
  /\ Analyst!ToSet(Analyst!Script["fet_transfer"])
       = AsPipelineA!ToSet(AsPipelineA!Script["fet_transfer"])
  /\ Analyst!Started(parseJob) = AsPipelineA!Started(parseJob)
  /\ Analyst!Succeeded(parseJob) = AsPipelineA!Succeeded(parseJob)
  /\ \A n : Analyst!Returned(parseJob, n, MaxAttempts)
             = AsPipelineA!Returned(parseJob, n, MaxAttempts)
  /\ Enqueued(NoJob) = AsPipelineA!Enqueued(AsPipelineA!NoJob)
<1>1. \A from, to : Analyst!CanTransition(from, to) <=> AsPipelineA!CanTransition(from, to)
  BY DEF Analyst!CanTransition, AsPipelineA!CanTransition, Analyst!Allowed,
     AsPipelineA!Allowed, Analyst!RunState, AsPipelineA!RunState
<1>2. \A position : Analyst!Following(position) = AsPipelineA!Following(position)
  BY DEF Analyst!Following, AsPipelineA!Following, Analyst!Script, AsPipelineA!Script,
     Analyst!ToSet, AsPipelineA!ToSet
<1>3. Analyst!ToSet(Analyst!Script["fet_transfer"])
        = AsPipelineA!ToSet(AsPipelineA!Script["fet_transfer"])
  BY DEF Analyst!Script, AsPipelineA!Script, Analyst!ToSet, AsPipelineA!ToSet
<1>4. /\ Analyst!Started(parseJob) = AsPipelineA!Started(parseJob)
      /\ Analyst!Succeeded(parseJob) = AsPipelineA!Succeeded(parseJob)
      /\ \A n : Analyst!Returned(parseJob, n, MaxAttempts)
                 = AsPipelineA!Returned(parseJob, n, MaxAttempts)
      /\ Enqueued(NoJob) = AsPipelineA!Enqueued(AsPipelineA!NoJob)
  BY DEF Analyst!Started, AsPipelineA!Started, Analyst!Succeeded, AsPipelineA!Succeeded,
     Analyst!Returned, AsPipelineA!Returned, Enqueued, NoJob, AsPipelineA!Enqueued,
     AsPipelineA!NoJob
<1>5. QED
  BY <1>1, <1>2, <1>3, <1>4

\* After the hand-off the two see the same run and the same job.
LEMMA StepIsPipelineA ==
  ASSUME parse, parse', NEW w \in Worker
  PROVE  /\ Analyst!Step(w) => AsPipelineA!Step(w)
         /\ Analyst!GiveUpFails(w) => AsPipelineA!GiveUpFails(w)
         /\ Analyst!Raise(w) => AsPipelineA!Raise(w)
         /\ Analyst!Crash(w) => AsPipelineA!Crash(w)
<1> USE SameFunctions
    DEF Analyst!Goto, AsPipelineA!Goto, Analyst!Leave, AsPipelineA!Leave,
        Analyst!Proceed, AsPipelineA!Proceed, Analyst!request, AsPipelineA!request,
        Analyst!records, AsPipelineA!records
<1>1. Analyst!Claim(w) => AsPipelineA!Claim(w)
  BY DEF Analyst!Claim, AsPipelineA!Claim
<1>2. /\ Analyst!Complete(w) => AsPipelineA!Complete(w)
      /\ Analyst!LoadCounts(w) => AsPipelineA!LoadCounts(w)
      /\ Analyst!FailWrite(w) => AsPipelineA!FailWrite(w)
      /\ Analyst!Crash(w) => AsPipelineA!Crash(w)
  BY DEF Analyst!Complete, AsPipelineA!Complete, Analyst!LoadCounts, AsPipelineA!LoadCounts,
     Analyst!FailWrite, AsPipelineA!FailWrite, Analyst!Crash, AsPipelineA!Crash
<1>3. Analyst!Start(w) => AsPipelineA!Start(w)
  BY DEF Analyst!Start, AsPipelineA!Start
<1>4. /\ Analyst!Analyse(w) => AsPipelineA!Analyse(w)
      /\ Analyst!AnalyseFails(w) => AsPipelineA!AnalyseFails(w)
      /\ Analyst!ReportFailure(w) => AsPipelineA!ReportFailure(w)
  BY DEF Analyst!Analyse, AsPipelineA!Analyse, Analyst!AnalyseFails,
     AsPipelineA!AnalyseFails, Analyst!ReportFailure, AsPipelineA!ReportFailure,
     Analyst!Plotted, AsPipelineA!Plotted
<1>5. /\ Analyst!GiveUp(w) => AsPipelineA!GiveUp(w)
      /\ Analyst!GiveUpFails(w) => AsPipelineA!GiveUpFails(w)
  BY DEF Analyst!GiveUp, AsPipelineA!GiveUp, Analyst!GiveUpFails, AsPipelineA!GiveUpFails
<1>6. /\ Analyst!InsertResult(w) => AsPipelineA!InsertResult(w)
      /\ Analyst!InsertArtifact(w) => AsPipelineA!InsertArtifact(w)
      /\ Analyst!InsertReview(w) => AsPipelineA!InsertReview(w)
  BY DEF Analyst!InsertResult, AsPipelineA!InsertResult, Analyst!InsertArtifact,
     AsPipelineA!InsertArtifact, Analyst!InsertReview, AsPipelineA!InsertReview
<1>7. Analyst!Move(w) => AsPipelineA!Move(w)
  <2>1. ASSUME NEW from, NEW to, Analyst!Transition(w, from, to)
        PROVE  AsPipelineA!Transition(w, from, to)
    BY <2>1 DEF Analyst!Transition, AsPipelineA!Transition
  <2>2. QED
    BY <2>1 DEF Analyst!Move, AsPipelineA!Move
<1>8. Analyst!Notify(w) => AsPipelineA!Notify(w)
  BY DEF Analyst!Notify, AsPipelineA!Notify
<1>9. Analyst!Raise(w) => AsPipelineA!Raise(w)
  BY DEF Analyst!Raise, AsPipelineA!Raise, Analyst!Plotted, AsPipelineA!Plotted
<1>10. Analyst!Handle(w) => AsPipelineA!Handle(w)
  BY <1>3, <1>4, <1>5, <1>6, <1>7, <1>8 DEF Analyst!Handle, AsPipelineA!Handle
<1>11. QED
  BY <1>1, <1>2, <1>5, <1>9, <1>10 DEF Analyst!Step, AsPipelineA!Step

LEMMA StutterPipelineA ==
  ASSUME UNCHANGED <<results, failures, artifacts, reviews, processed, analyst, attempt,
                     reclaimer, parseCrashes>>,
         \/ UNCHANGED <<state, parse, parseJob>>
         \/ ~parse /\ ~parse'
         \/ ~parse /\ parse' /\ state' = "promoted" /\ parseJob' = Enqueued(NoJob)
  PROVE  UNCHANGED AsPipelineA!vars
BY DEF AsPipelineA!vars

LEMMA NextIsPipelineA ==
  ASSUME Inv, Handed, [SystemNext]_systemVars
  PROVE  [AsPipelineA!Next]_(AsPipelineA!vars)
<1>0. parse \in BOOLEAN /\ parse' \in BOOLEAN
  <2>1. Inv'
    BY HandedNext, InvNext
  <2>2. QED
    BY <2>1 DEF Inv, Typed, RowsTyped
<1>1. CASE Ingesting
  <2>1. UNCHANGED <<results, failures, artifacts, reviews, processed, analyst, attempt,
                    reclaimer, parseCrashes>>
    BY <1>1 DEF Ingesting
  <2>2. /\ parse => parse' /\ UNCHANGED <<state, parseJob>>
        /\ ~parse /\ parse' => state' = "promoted" /\ parseJob' = Enqueued(NoJob)
    BY <1>1, IngestingHands
  <2>3. QED
    BY <1>0, <2>1, <2>2, StutterPipelineA
<1>2. ASSUME NEW w \in Worker, Parsing(w)
      PROVE  AsPipelineA!Next
  <2>1. parse /\ parse'
    BY <1>2, ParsingDrives, RestKept DEF Ingests
  <2>2. QED
    BY <1>2, <2>1, StepIsPipelineA DEF Parsing, AsPipelineA!Next
<1>3. CASE Reparsing
  <2>1. parse /\ parse'
    BY <1>3, ReparsingDrives, RestKept DEF Ingests
  <2>2. AsPipelineA!Reclaim \/ AsPipelineA!ReclaimLost
    BY <1>3, <2>1, SameFunctions
    DEF Reparsing, Analyst!Reclaim, AsPipelineA!Reclaim, Analyst!ReclaimScan,
        AsPipelineA!ReclaimScan, Analyst!ReclaimLoad, AsPipelineA!ReclaimLoad,
        Analyst!ReclaimWrite, AsPipelineA!ReclaimWrite, Analyst!ReclaimLost,
        AsPipelineA!ReclaimLost, Analyst!NotReclaiming, AsPipelineA!NotReclaiming,
        Analyst!request, AsPipelineA!request, Analyst!records, AsPipelineA!records
  <2>3. QED
    BY <2>2 DEF AsPipelineA!Next
<1>4. CASE \/ \E r \in Reviewer : Reviewing(r)
           \/ \E h \in Publisher : Publishing(h)
  <2>1. /\ UNCHANGED <<rest, analysis>>
        /\ UNCHANGED state \/ (parse /\ <<state, state'>> \in AsPipelineA!Driven)
    BY <1>4, GateDrives
  <2>2. UNCHANGED <<parse, parseJob, results, failures, artifacts, reviews, processed,
                    analyst, attempt, reclaimer, parseCrashes>>
    BY <2>1 DEF rest, tables, analysis
  <2>3. CASE UNCHANGED state
    BY <2>2, <2>3, StutterPipelineA
  <2>4. CASE parse /\ <<state, state'>> \in AsPipelineA!Driven
    <3>1. AsPipelineA!Downstream
      BY <2>2, <2>4 DEF AsPipelineA!Downstream, AsPipelineA!request, AsPipelineA!records
    <3>2. QED
      BY <3>1 DEF AsPipelineA!Next
  <2>5. QED
    BY <2>1, <2>3, <2>4
<1>5. CASE UNCHANGED systemVars
  BY <1>5, StutterPipelineA DEF systemVars, vars, analysis
<1>6. QED
  BY <1>1, <1>2, <1>3, <1>4, <1>5 DEF SystemNext

\* Under the same condition it is a Pipeline A that starts from the run the pull job
\* has promoted, so that every property of Pipeline A is one of the system.
THEOREM SystemIsPipelineA == Timely /\ SystemSpec => ImplementsPipelineA
<1>1. SystemInit => AsPipelineA!Init
  BY SameFunctions
  DEF SystemInit, Init, AsPipelineA!Init, Analyst!NotReclaiming, AsPipelineA!NotReclaiming
<1>2. Inv /\ Handed /\ [SystemNext]_systemVars => [AsPipelineA!Next]_(AsPipelineA!vars)
  BY NextIsPipelineA
<1>3. QED
  BY <1>1, <1>2, HandedAlways, PTL DEF SystemSpec, ImplementsPipelineA, AsPipelineA!Spec

-----------------------------------------------------------------------------
(***************************************************************************)
(* One attempt at a time, one review artifact at a time.                   *)
(***************************************************************************)

LEMMA Appending ==
  ASSUME NEW log, log \in Seq(ToSet(log)), NEW e
  PROVE  /\ Append(log, e) \in Seq(ToSet(Append(log, e)))
         /\ Len(Append(log, e)) = Len(log) + 1
         /\ Append(log, e) # log /\ Append(log, e) # <<>>
         /\ Last(Append(log, e)) = e
<1> DEFINE S == ToSet(log) \cup {e}
<1>1. log \in Seq(S) /\ e \in S
  BY SeqMonotonic
<1>2. /\ Append(log, e) \in Seq(S)
      /\ Len(Append(log, e)) = Len(log) + 1
      /\ \A i \in 1 .. Len(log) : Append(log, e)[i] = log[i]
      /\ Append(log, e)[Len(log) + 1] = e
  BY <1>1, AppendProperties
<1>3. Len(log) \in Nat
  BY <1>1
<1>4. Append(log, e) \in Seq(ToSet(Append(log, e)))
  <2>1. \A t \in Seq(S) : t \in Seq(ToSet(t))
    <3>1. TAKE t \in Seq(S)
    <3>2. \A i \in 1 .. Len(t) : t[i] \in ToSet(t)
      BY DEF ToSet
    <3>3. QED
      BY <3>2, SeqDef
  <2>2. QED
    BY <1>2, <2>1
<1>5. QED
  BY <1>2, <1>3, <1>4 DEF Last

\* What a step of Pipeline A writes, and where its attempt is then.
Writes(w) ==
  /\ attempt' \in [Worker -> Nat] /\ UNCHANGED reclaimer
  /\ analyst'[w] \notin {"idle", "start", "failing"} => attempt'[w] = attempt[w]
  /\ analyst'[w] = "start" => attempt'[w] # 0
  /\ analyst'[w] = "failing" => attempt'[w] = parseJob.attempts /\ UNCHANGED parseJob
  /\ analyst[w] # "analyse" => UNCHANGED processed
  /\ analyst[w] # "result" => UNCHANGED results
  /\ analyst[w] # "artifact" => UNCHANGED artifacts
  /\ analyst[w] # "review" => UNCHANGED reviews
  /\ UNCHANGED results \/ results' = Append(results, attempt[w])
  /\ \/ UNCHANGED artifacts
     \/ /\ artifacts' = Append(artifacts, [attempt |-> attempt[w], files |-> processed])
        /\ analyst'[w] = "review"
  /\ analyst'[w] = "result" => analyst[w] = "analyse" /\ processed' = {attempt[w]}
  /\ analyst'[w] = "artifact" =>
       analyst[w] = "result" /\ results' = Append(results, attempt[w])
  /\ analyst'[w] = "review" =>
       /\ analyst[w] = "artifact"
       /\ artifacts' = Append(artifacts, [attempt |-> attempt[w], files |-> processed])
  /\ analyst'[w] = "validate" =>
       analyst[w] = "review" /\ reviews' = Append(reviews, attempt[w])
  /\ analyst'[w] = "process" => analyst[w] = "validate"
  /\ analyst'[w] = "submit" => analyst[w] = "process"

LEMMA StepWrites ==
  ASSUME NEW w \in Worker, analyst \in [Worker -> AnalystPosition],
         attempt \in [Worker -> Nat], parseJob.attempts \in Nat,
         Analyst!Step(w) \/ Analyst!GiveUpFails(w) \/ Analyst!Raise(w) \/ Analyst!Crash(w)
  PROVE  Writes(w)
<1>1. CASE Analyst!Claim(w)
  BY <1>1, Goes DEF Analyst!Claim, Analyst!records, Writes, AnalystPosition
<1>2. CASE Analyst!Complete(w) \/ Analyst!FailWrite(w) \/ Analyst!Crash(w)
  BY <1>2, Goes DEF Analyst!Complete, Analyst!FailWrite, Analyst!Crash, Analyst!Leave,
     Analyst!records, Writes, AnalystPosition
<1>3. CASE Analyst!Start(w)
  BY <1>3, Goes DEF Analyst!Start, Analyst!records, Writes, AnalystPosition
<1>4. CASE Analyst!Analyse(w)
  BY <1>4, Goes, AnalystFollows
  DEF Analyst!Analyse, Analyst!Plotted, Analyst!Proceed, Writes, AnalystPosition
<1>5. CASE Analyst!AnalyseFails(w) \/ Analyst!ReportFailure(w)
  BY <1>5, Goes DEF Analyst!AnalyseFails, Analyst!ReportFailure, Writes, AnalystPosition
<1>6. CASE Analyst!InsertResult(w) \/ Analyst!InsertArtifact(w) \/ Analyst!InsertReview(w)
  BY <1>6, Goes, AnalystFollows
  DEF Analyst!InsertResult, Analyst!InsertArtifact, Analyst!InsertReview, Analyst!Proceed,
      Writes, AnalystPosition
<1>7. CASE Analyst!Move(w)
  <2>1. /\ UNCHANGED <<attempt, reclaimer, processed, results, artifacts, reviews>>
        /\ analyst[w] \in {"validate", "process", "submit"}
    BY <1>7 DEF Analyst!Move, Analyst!records
  <2>2. analyst'[w] \in {Analyst!Following(analyst[w]), "failed"}
    <3>1. ASSUME NEW from, NEW to, Analyst!Transition(w, from, to),
                 Analyst!Following(analyst[w]) \in AnalystPosition
          PROVE  analyst'[w] \in {Analyst!Following(analyst[w]), "failed"}
      BY <3>1, Goes DEF Analyst!Transition, Analyst!Proceed, AnalystPosition
    <3>2. Analyst!Following(analyst[w]) \in AnalystPosition
      BY <2>1, AnalystFollows DEF AnalystPosition
    <3>3. QED
      BY <1>7, <3>1, <3>2 DEF Analyst!Move
  <2>3. QED
    BY <2>1, <2>2, AnalystFollows DEF Writes
<1>8. CASE Analyst!GiveUp(w) \/ Analyst!GiveUpFails(w)
  BY <1>8, Goes DEF Analyst!GiveUp, Analyst!GiveUpFails, Analyst!records, Writes,
     AnalystPosition
<1>9. CASE Analyst!Raise(w)
  <2>1. analyst[w] # "idle"
    BY <1>9, AnalystScript DEF Analyst!Raise
  <2>2. analyst[w] # "analyse" => UNCHANGED processed
    BY <1>9 DEF Analyst!Raise
  <2>3. QED
    BY <1>9, <2>1, <2>2, Goes DEF Analyst!Raise, Writes, AnalystPosition
<1>10. CASE Analyst!Notify(w)
  BY <1>10 DEF Analyst!Notify, AnalystPosition
<1>11. CASE Analyst!LoadCounts(w)
  BY <1>11, Goes DEF Analyst!LoadCounts, Analyst!records, Writes, AnalystPosition
<1>12. QED
  BY <1>1, <1>2, <1>3, <1>4, <1>5, <1>6, <1>7, <1>8, <1>9, <1>10, <1>11
  DEF Analyst!Step, Analyst!Handle

LEMMA OneAttemptNext ==
  ASSUME Inv, Handed, OneAttempt, [SystemNext]_systemVars
  PROVE  OneAttempt'
<1>0. /\ Timely /\ parse \in BOOLEAN /\ MaxAttempts \in Nat \ {0}
      /\ parseJob.attempts \in Nat /\ Len(reviews) \in Nat
      /\ ParseJobTyped /\ analyst \in [Worker -> AnalystPosition]
  BY IngestConstantsOK
  DEF Inv, Typed, RowsTyped, Undisturbed, Handed, ParseJobTyped, OneAttempt, JobRecord
<1>1. ASSUME UNCHANGED <<parseJob, reviews, analyst, attempt, reclaimer>>
      PROVE  OneAttempt'
  BY <1>1 DEF OneAttempt
<1>2. CASE Ingesting
  <2>1. UNCHANGED <<reviews, analyst, attempt, reclaimer>>
    BY <1>2 DEF Ingesting
  <2>2. CASE parse \/ ~parse'
    BY <1>1, <1>2, <2>1, <2>2, IngestingHands
  <2>3. CASE ~parse /\ parse'
    <3>1. /\ parseJob = NoJob /\ parseJob' = Enqueued(NoJob) /\ reclaimer.pc = "idle"
          /\ \A w \in Worker : analyst[w] = "idle"
      BY <1>2, <2>3, IngestingHands DEF Handed, ParseJobTyped
    <3>2. parseJob.attempts = 0 /\ parseJob'.attempts = 0
      BY <3>1 DEF NoJob, Enqueued
    <3>3. QED
      BY <1>0, <2>1, <3>1, <3>2 DEF OneAttempt
  <2>4. QED
    BY <2>2, <2>3, <1>0
<1>3. ASSUME NEW w \in Worker, Parsing(w)
      PROVE  OneAttempt'
  <2>1. /\ Steady(w) /\ Parses(w) /\ parse /\ Writes(w)
        /\ attempt' \in [Worker -> Nat] /\ UNCHANGED reclaimer
    BY <1>0, <1>3, ParsingDrives, StepWrites DEF Parsing, OneAttempt, Writes
  <2>2. CASE Claims(w)
    <3>1. /\ parseJob'.state = "running" /\ parseJob'.attempts = parseJob.attempts + 1
          /\ UNCHANGED reviews
      BY <1>0, <2>2, ParseJobSteps DEF Claims
    <3>2. \A v \in Worker \ {w} : analyst'[v] = "idle"
      BY <2>1, <2>2 DEF Claims, OneAttempt, Steady
    <3>3. parseJob.attempts < MaxAttempts /\ reclaimer.pc = "idle"
      BY <2>2 DEF Claims, OneAttempt
    <3>4. /\ parseJob'.attempts <= MaxAttempts /\ Len(reviews) < parseJob'.attempts
          /\ reviews \in Seq(ToSet(reviews))
      BY <1>0, <3>1, <3>3 DEF OneAttempt
    <3>5. analyst'[w] = "start" /\ attempt'[w] # 0
      BY <2>1, <2>2 DEF Claims, Writes
    <3>6. QED
      BY <1>0, <2>1, <3>1, <3>2, <3>3, <3>4, <3>5 DEF OneAttempt
  <2>3. CASE Leaves(w)
    <3>1. /\ parseJob'.attempts = parseJob.attempts /\ UNCHANGED reviews
          /\ parseJob.state = "running" /\ reclaimer.pc = "idle"
      BY <1>0, <2>1, <2>3, ParseJobSteps DEF Leaves, Handed, OneAttempt
    <3>2. \A v \in Worker : analyst'[v] = "idle"
      BY <2>1, <2>3 DEF Leaves, OneAttempt, Steady
    <3>3. parseJob'.state = "queued" => parseJob.attempts < MaxAttempts
      <4>1. CASE parseJob' \in {parseJob, Succeeded(parseJob)}
        BY <3>1, <4>1 DEF Succeeded, ParseJobTyped, JobRecord, Handed
      <4>2. CASE analyst[w] = "failing" /\ parseJob' = Returned(parseJob, attempt[w], MaxAttempts)
        <5>1. parseJob' = Returned(parseJob, parseJob.attempts, MaxAttempts)
          BY <4>2 DEF OneAttempt
        <5>2. QED
          BY <1>0, <5>1 DEF Returned, ParseJobTyped, JobRecord
      <4>3. QED
        BY <2>3, <4>1, <4>2 DEF Leaves
    <3>4. QED
      BY <1>0, <2>1, <3>1, <3>2, <3>3 DEF OneAttempt
  <2>4. ASSUME analyst[w] # "idle", UNCHANGED parseJob,
               reviews' \in Seq(ToSet(reviews')), Len(reviews') <= parseJob.attempts,
               analyst'[w] \notin {"idle", "start"},
               analyst'[w] \in {"analyse", "result", "artifact", "review"} =>
                 Len(reviews') < parseJob.attempts
        PROVE  OneAttempt'
    <3>1. \A v \in Worker \ {w} : analyst'[v] = "idle"
      BY <2>1, <2>4 DEF OneAttempt, Steady
    <3>2. /\ analyst'[w] = "failing" => attempt'[w] = parseJob'.attempts
          /\ analyst'[w] # "failing" => attempt'[w] # 0
      <4>1. CASE analyst'[w] = "failing"
        BY <2>1, <2>4, <4>1 DEF Writes
      <4>2. CASE analyst'[w] # "failing"
        <5>1. analyst[w] # "failing"
          BY <2>1, <2>4, <4>2
          DEF Parses, Claims, Leaves, Begins, Advances, Submits, Moves, Stops
        <5>2. attempt'[w] = attempt[w] /\ attempt[w] # 0
          BY <2>1, <2>4, <4>2, <5>1 DEF Writes, OneAttempt
        <5>3. QED
          BY <4>2, <5>2
      <4>3. QED
        BY <4>1, <4>2
    <3>3. parseJob.state = "running" /\ reclaimer.pc = "idle" /\ parseJob.attempts <= MaxAttempts
      BY <2>4 DEF OneAttempt
    <3>4. QED
      BY <2>1, <2>4, <3>1, <3>2, <3>3 DEF OneAttempt
  <2>5. CASE Begins(w) \/ Advances(w) \/ Moves(w) \/ Stops(w)
    <3>1. analyst[w] # "idle" /\ UNCHANGED <<parseJob, reviews>>
      BY <2>5 DEF Begins, Advances, Moves, Stops
    <3>2. /\ analyst'[w] \in {"analyse", "result", "artifact", "review"} =>
               analyst[w] \in {"start", "analyse", "result", "artifact", "review"}
          /\ analyst'[w] \notin {"idle", "start"}
      BY <2>5 DEF Begins, Advances, Moves, Stops
    <3>3. QED
      BY <2>4, <3>1, <3>2 DEF OneAttempt
  <2>6. CASE Submits(w)
    <3>1. /\ reviews' \in Seq(ToSet(reviews')) /\ Len(reviews') = Len(reviews) + 1
          /\ UNCHANGED parseJob /\ analyst[w] = "review" /\ analyst'[w] = "validate"
      BY <2>6, Appending DEF Submits, OneAttempt
    <3>2. Len(reviews) < parseJob.attempts
      BY <3>1 DEF OneAttempt
    <3>3. QED
      BY <1>0, <2>4, <3>1, <3>2
  <2>7. QED
    BY <2>1, <2>2, <2>3, <2>5, <2>6 DEF Parses
<1>4. CASE Reparsing
  <2>1. UNCHANGED <<reviews, analyst, attempt>> /\ Reclaims
    BY <1>4, ReparsingDrives
  <2>2. CASE /\ reclaimer.pc = "idle" /\ reclaimer' = [reclaimer EXCEPT !.pc = "stale"]
             /\ parseJob.state = "running" /\ UNCHANGED parseJob
             /\ Timely => \A w \in Worker : analyst[w] = "idle"
    BY <1>0, <2>1, <2>2 DEF OneAttempt, Handed
  <2>3. CASE /\ reclaimer.pc # "idle" /\ UNCHANGED parseJob
             /\ reclaimer' \in {[pc |-> "releasing", seen |-> parseJob.attempts],
                                 Analyst!NotReclaiming}
    BY <2>1, <2>3 DEF OneAttempt, Analyst!NotReclaiming
  <2>4. CASE /\ reclaimer.pc = "releasing" /\ reclaimer' = Analyst!NotReclaiming
             /\ parseJob' = Returned(parseJob, reclaimer.seen, MaxAttempts)
    <3>1. /\ parseJob' = Returned(parseJob, parseJob.attempts, MaxAttempts)
          /\ \A w \in Worker : analyst[w] = "idle"
          /\ reclaimer'.pc = "idle"
      BY <2>4 DEF OneAttempt, Analyst!NotReclaiming
    <3>2. /\ parseJob'.attempts = parseJob.attempts
          /\ parseJob'.state = "queued" => parseJob.attempts < MaxAttempts
      BY <1>0, <3>1 DEF Returned, ParseJobTyped, JobRecord
    <3>3. QED
      BY <2>1, <3>1, <3>2 DEF OneAttempt
  <2>5. QED
    BY <2>1, <2>2, <2>3, <2>4 DEF Reclaims
<1>5. CASE \/ \E r \in Reviewer : Reviewing(r)
           \/ \E h \in Publisher : Publishing(h)
  BY <1>1, <1>5, GateDrives DEF analysis
<1>6. CASE UNCHANGED systemVars
  BY <1>1, <1>6 DEF systemVars, analysis
<1>7. QED
  BY <1>2, <1>3, <1>4, <1>5, <1>6 DEF SystemNext

\* What a step of the review gate does to the things its lemmas are about.
LEMMA GateSteps ==
  ASSUME \/ \E r \in Reviewer : Reviewing(r)
         \/ \E h \in Publisher : Publishing(h)
  PROVE  /\ UNCHANGED <<rest, analysis>>
         /\ \/ \E r \in Reviewer : Decides(r)
            \/ /\ UNCHANGED verdicts
               /\ <<state, state'>> \in {<<state, state>>, <<"approved", "publishing">>,
                                         <<"publishing", "published">>}
<1>1. ASSUME NEW r \in Reviewer, Reviewing(r)
      PROVE  \/ Decides(r)
             \/ UNCHANGED <<verdicts, state>>
  BY <1>1, ReviewingSteps DEF Requests
<1>2. ASSUME NEW h \in Publisher, Publishing(h)
      PROVE  /\ UNCHANGED verdicts
             /\ <<state, state'>> \in {<<state, state>>, <<"approved", "publishing">>,
                                       <<"publishing", "published">>}
  BY <1>2, PublishingSteps DEF Publishes
<1>3. UNCHANGED <<rest, analysis>>
  BY ReviewingSteps, PublishingSteps
<1>4. QED
  BY <1>1, <1>2, <1>3

LEMMA DecidedTyped ==
  ASSUME GateOpens, OneAttempt
  PROVE  /\ Decided \in Nat /\ Len(reviews) \in Nat
         /\ \A r \in Reviewer : Decides(r) =>
              /\ verdicts' \in Seq(Gate!Entry) /\ verdicts' # <<>>
              /\ Len(verdicts') = Len(verdicts) + 1
              /\ Decided' = Len(reviews)
<1>1. Len(reviews) \in Nat
  BY DEF OneAttempt
<1>2. Decided \in Nat
  <2>1. CASE verdicts = <<>>
    BY <2>1 DEF Decided
  <2>2. CASE verdicts # <<>>
    <3>1. verdicts[Len(verdicts)] \in Gate!Entry
      BY <2>2 DEF GateOpens
    <3>2. QED
      BY <2>2, <3>1 DEF Decided, Last, Gate!Entry
  <2>3. QED
    BY <2>1, <2>2
<1>3. ASSUME NEW r \in Reviewer, Decides(r)
      PROVE  /\ verdicts' \in Seq(Gate!Entry) /\ verdicts' # <<>>
             /\ Len(verdicts') = Len(verdicts) + 1
             /\ Decided' = Len(reviews)
  <2>1. PICK kind \in Gate!Kind :
          verdicts' = Append(verdicts, [kind |-> kind, reviewer |-> r, version |-> Len(reviews)])
    BY <1>3 DEF Decides
  <2>2. [kind |-> kind, reviewer |-> r, version |-> Len(reviews)] \in Gate!Entry
    BY <1>1 DEF Gate!Entry
  <2>3. /\ verdicts' \in Seq(Gate!Entry) /\ Len(verdicts') = Len(verdicts) + 1
        /\ verdicts'[Len(verdicts) + 1]
             = [kind |-> kind, reviewer |-> r, version |-> Len(reviews)]
    BY <2>1, <2>2, AppendProperties DEF GateOpens
  <2>4. verdicts' # <<>> /\ Last(verdicts').version = Len(reviews)
    BY <2>3 DEF Last, GateOpens
  <2>5. QED
    BY <2>3, <2>4 DEF Decided
<1>4. QED
  BY <1>1, <1>2, <1>3

\* Only the attempt that takes a step of Pipeline A is at work.
LEMMA OnlyAnalyst ==
  ASSUME Handed, OneAttempt, NEW w \in Worker, Parsing(w)
  PROVE  \A v \in Worker \ {w} : analyst[v] = "idle" /\ analyst'[v] = "idle"
<1>1. Steady(w) /\ Parses(w)
  BY ParsingDrives
<1>2. \A v \in Worker \ {w} : analyst[v] = "idle"
  BY <1>1 DEF OneAttempt, Parses, Claims, Leaves, Begins, Advances, Submits, Moves, Stops
<1>3. QED
  BY <1>1, <1>2 DEF Steady

LEMMA OneUndecidedNext ==
  ASSUME Inv, Handed, OneAttempt, OneUndecided, GateOpens, [SystemNext]_systemVars
  PROVE  OneUndecided'
<1>0. /\ parse \in BOOLEAN /\ Decided \in Nat /\ Len(reviews) \in Nat
  BY DecidedTyped DEF Inv, Typed, RowsTyped
<1>1. ASSUME UNCHANGED <<verdicts, reviews, analyst, parse, state>>
      PROVE  OneUndecided'
  BY <1>1 DEF OneUndecided, Decided
<1>2. CASE Ingesting
  <2>1. UNCHANGED <<verdicts, reviews, analyst>>
    BY <1>2 DEF Ingesting, gate
  <2>2. CASE parse
    <3>1. UNCHANGED state /\ parse'
      BY <1>2, <2>2, IngestingHands
    <3>2. Decided' = Decided
      BY <2>1 DEF Decided
    <3>3. QED
      BY <2>1, <2>2, <3>1, <3>2 DEF OneUndecided
  <2>3. CASE ~parse
    <3>1. /\ reviews = <<>> /\ verdicts = <<>> /\ \A w \in Worker : analyst[w] = "idle"
      BY <2>3 DEF OneUndecided, GateOpens, Handed
    <3>2. state' # "awaiting_review"
      BY <1>2, <2>3, IngestingHands DEF Handed, Early
    <3>3. Decided' = 0 /\ Len(reviews') = 0
      BY <2>1, <3>1 DEF Decided
    <3>4. QED
      BY <2>1, <3>1, <3>2, <3>3 DEF OneUndecided, Before, After
  <2>4. QED
    BY <2>2, <2>3
<1>3. ASSUME NEW w \in Worker, Parsing(w)
      PROVE  OneUndecided'
  <2>1. /\ Steady(w) /\ Parses(w) /\ parse /\ UNCHANGED rest
        /\ \A v \in Worker \ {w} : analyst'[v] = "idle"
        /\ state \in Late
    BY <1>3, ParsingDrives, OnlyAnalyst DEF Handed
  <2>2. parse' /\ UNCHANGED verdicts /\ Decided' = Decided
    BY <1>3, <2>1 DEF Parsing, gate, rest, tables, Decided
  <2>3. ASSUME /\ Len(reviews') \in {Decided, Decided + 1}
               /\ state' \in {"promoted", "parser_failed", "quarantined"} =>
                    Len(reviews') = Decided
               /\ state' = "awaiting_review" => Len(reviews') = Decided + 1
               /\ analyst'[w] \in Before => state' = "parsing" /\ Len(reviews') = Decided
               /\ analyst'[w] \in After => Len(reviews') = Decided + 1
               /\ analyst'[w] = "validate" => state' = "parsing"
               /\ analyst'[w] = "process" => state' = "validated"
               /\ analyst'[w] = "submit" => state' = "processing"
        PROVE  OneUndecided'
    BY <2>1, <2>2, <2>3 DEF OneUndecided, Before, After
  <2>4. CASE Claims(w) \/ Leaves(w) \/ Stops(w)
    BY <2>3, <2>4 DEF Claims, Leaves, Stops, OneUndecided, Before, After
  <2>5. CASE Begins(w)
    <3>1. state \in {"promoted", "parser_failed", "quarantined"}
      BY <2>1, <2>5 DEF Begins, Late
    <3>2. QED
      BY <2>3, <2>5, <3>1 DEF Begins, OneUndecided, Before, After
  <2>6. CASE Advances(w)
    BY <2>3, <2>6 DEF Advances, OneUndecided, Before, After
  <2>7. CASE Submits(w)
    <3>1. Len(reviews') = Len(reviews) + 1
      BY <2>7, Appending DEF Submits, OneAttempt
    <3>2. state = "parsing" /\ Len(reviews) = Decided
      BY <2>7 DEF Submits, OneUndecided, Before
    <3>3. QED
      BY <2>3, <2>7, <3>1, <3>2 DEF Submits, Before, After
  <2>8. CASE Moves(w)
    BY <1>0, <2>3, <2>8 DEF Moves, OneUndecided, Before, After
  <2>9. QED
    BY <2>1, <2>4, <2>5, <2>6, <2>7, <2>8 DEF Parses
<1>4. CASE Reparsing
  <2>1. UNCHANGED <<verdicts, reviews, analyst, parse, state>>
    BY <1>4, ReparsingDrives DEF Reparsing, gate, rest, tables
  <2>2. QED
    BY <1>1, <2>1
<1>5. CASE \/ \E r \in Reviewer : Reviewing(r)
           \/ \E h \in Publisher : Publishing(h)
  <2>1. UNCHANGED <<reviews, analyst, parse>>
    BY <1>5, GateSteps DEF rest, tables, analysis
  <2>2. ASSUME NEW r \in Reviewer, Decides(r)
        PROVE  OneUndecided'
    <3>1. /\ state = "awaiting_review" /\ Len(reviews) = Decided + 1
          /\ state' \in {"approved", "changes_requested", "quarantined"}
          /\ Decided' = Len(reviews)
      BY <2>2, DecidedTyped DEF Decides, OneUndecided
    <3>2. \A w \in Worker : analyst[w] \notin Before \cup After
      BY <3>1 DEF OneUndecided, Before, After
    <3>3. QED
      BY <1>0, <2>1, <3>1, <3>2 DEF OneUndecided, Before, After
  <2>3. ASSUME UNCHANGED verdicts,
               \/ state = "approved" /\ state' = "publishing"
               \/ state = "publishing" /\ state' = "published"
        PROVE  OneUndecided'
    <3>1. \A w \in Worker : analyst[w] \notin Before \cup After
      BY <2>3 DEF OneUndecided, Before, After
    <3>2. Decided' = Decided
      BY <2>3 DEF Decided
    <3>3. QED
      BY <1>0, <2>1, <2>3, <3>1, <3>2 DEF OneUndecided, Before, After
  <2>4. CASE UNCHANGED <<verdicts, state>>
    BY <1>1, <2>1, <2>4
  <2>5. QED
    BY <1>5, <2>2, <2>3, <2>4, GateSteps
<1>6. CASE UNCHANGED systemVars
  BY <1>1, <1>6 DEF systemVars, vars, analysis, gate
<1>7. QED
  BY <1>2, <1>3, <1>4, <1>5, <1>6 DEF SystemNext

LEMMA GateOpensNext ==
  ASSUME Inv, Handed, OneAttempt, GateOpens, [SystemNext]_systemVars
  PROVE  GateOpens'
<1>1. ASSUME UNCHANGED <<gate, state, reviews>>, parse => parse'
      PROVE  GateOpens'
  BY <1>1 DEF GateOpens, Undecided, gate
<1>2. CASE Ingesting
  <2>1. UNCHANGED <<gate, reviews>>
    BY <1>2 DEF Ingesting
  <2>2. CASE parse
    BY <1>1, <1>2, <2>1, <2>2, IngestingHands
  <2>3. CASE ~parse
    <3>1. verdicts = <<>>
      BY <2>3 DEF GateOpens
    <3>2. state' \in Early
      BY <1>2, <2>3, IngestingHands DEF Handed, Early
    <3>3. QED
      BY <2>1, <3>1, <3>2 DEF GateOpens, Undecided, Early, gate
  <2>4. QED
    BY <2>2, <2>3
<1>3. ASSUME NEW w \in Worker, Parsing(w)
      PROVE  GateOpens'
  <2>1. /\ Parses(w) /\ parse /\ parse' /\ UNCHANGED gate
    BY <1>3, ParsingDrives DEF Parsing, rest, tables
  <2>2. UNCHANGED state \/ state' \in {"parsing", "validated", "processing",
                                       "awaiting_review", "parser_failed"}
    BY <2>1 DEF Parses, Claims, Leaves, Begins, Advances, Submits, Moves, Stops
  <2>3. reviews' = <<>> => reviews = <<>>
    BY <2>1, Appending
    DEF Parses, Claims, Leaves, Begins, Advances, Submits, Moves, Stops, OneAttempt
  <2>4. QED
    BY <2>1, <2>2, <2>3 DEF GateOpens, Undecided, gate
<1>4. CASE Reparsing
  BY <1>1, <1>4, ReparsingDrives DEF Reparsing, rest, tables
<1>5. CASE \/ \E r \in Reviewer : Reviewing(r)
           \/ \E h \in Publisher : Publishing(h)
  <2>1. UNCHANGED <<parse, reviews>>
    BY <1>5, GateSteps DEF rest, tables, analysis
  <2>2. ASSUME NEW r \in Reviewer, Decides(r)
        PROVE  GateOpens'
    <3>1. parse /\ state' # "promoted"
      BY <2>2 DEF Decides, Handed, Early
    <3>2. QED
      BY <2>1, <2>2, <3>1, DecidedTyped DEF GateOpens
  <2>3. CASE verdicts # <<>>
    BY <1>5, <2>1, <2>2, <2>3, GateSteps DEF GateOpens
  <2>4. ASSUME verdicts = <<>>, ~\E r \in Reviewer : Decides(r)
        PROVE  /\ UNCHANGED <<state, verdicts, receipts, publish, publisher, post>>
               /\ reviews # <<>>
    <3>1. /\ \A r \in Reviewer : post[r] = Gate!NoPost
          /\ publish.state = "absent" /\ \A h \in Publisher : publisher[h] = "idle"
      BY <2>4 DEF GateOpens, Undecided, NoJob
    <3>2. PICK r \in Reviewer : Reviewing(r)
      BY <1>5, <3>1, PublishingSteps DEF Publishes
    <3>3. /\ UNCHANGED <<state, verdicts, receipts, publish, publisher, post>>
          /\ shown[r] # Len(reviews)
      BY <2>4, <3>1, <3>2, ReviewingSteps DEF Requests
    <3>4. reviews # <<>>
      <4>1. reviews = <<>> => shown[r] = 0
        BY <2>4 DEF GateOpens, Undecided
      <4>2. QED
        BY <3>3, <4>1
    <3>5. QED
      BY <3>3, <3>4
  <2>5. QED
    BY <2>1, <2>2, <2>3, <2>4 DEF GateOpens, Undecided
<1>6. CASE UNCHANGED systemVars
  BY <1>1, <1>6 DEF systemVars, vars, analysis
<1>7. QED
  BY <1>2, <1>3, <1>4, <1>5, <1>6 DEF SystemNext

LEMMA SupersededNext ==
  ASSUME Inv, Handed, OneAttempt, OneUndecided, GateOpens, Superseded,
         [SystemNext]_systemVars
  PROVE  Superseded'
<1>0. Decided \in Nat /\ Len(reviews) \in Nat
  BY DecidedTyped
<1>1. ASSUME UNCHANGED verdicts,
             verdicts = <<>> \/ (state \in Analyst!Accepted => state' \in Analyst!Accepted)
      PROVE  Superseded'
  <2>1. Decided' = Decided /\ (verdicts = <<>> => Decided = 0)
    BY <1>1 DEF Decided
  <2>2. QED
    BY <1>0, <1>1, <2>1 DEF Superseded
<1>2. CASE Ingesting
  BY <1>1, <1>2, IngestingHands DEF Ingesting, gate, GateOpens
<1>3. ASSUME NEW w \in Worker, Parsing(w)
      PROVE  Superseded'
  <2>1. Parses(w) /\ UNCHANGED verdicts
    BY <1>3, ParsingDrives DEF Parsing, gate
  <2>2. state \in Analyst!Accepted => state' = state
    BY <2>1 DEF Parses, Claims, Leaves, Begins, Advances, Submits, Moves, Stops,
       Analyst!Accepted, Analyst!Reviewable
  <2>3. QED
    BY <1>1, <2>1, <2>2
<1>4. CASE Reparsing
  BY <1>1, <1>4, ReparsingDrives DEF Reparsing, gate
<1>5. CASE \/ \E r \in Reviewer : Reviewing(r)
           \/ \E h \in Publisher : Publishing(h)
  <2>1. UNCHANGED reviews
    BY <1>5, GateSteps DEF analysis
  <2>2. ASSUME NEW r \in Reviewer, Decides(r)
        PROVE  Superseded'
    <3>1. /\ state = "awaiting_review" /\ Len(reviews) = Decided + 1
          /\ state' \in {"approved", "changes_requested", "quarantined"}
          /\ Decided' = Decided + 1
      BY <2>2, DecidedTyped DEF Decides, OneUndecided
    <3>2. PICK kind \in Gate!Kind :
            /\ verdicts' = Append(verdicts, [kind |-> kind, reviewer |-> r,
                                             version |-> Len(reviews)])
            /\ kind # "quarantine" => state' # "quarantined"
      BY <2>2 DEF Decides
    <3> DEFINE e == [kind |-> kind, reviewer |-> r, version |-> Len(reviews)]
    <3>3. /\ Len(verdicts) \in Nat /\ Len(verdicts') = Len(verdicts) + 1
          /\ \A j \in 1 .. Len(verdicts) : verdicts'[j] = verdicts[j]
          /\ verdicts'[Len(verdicts) + 1] = e
          /\ DOMAIN verdicts = 1 .. Len(verdicts) /\ DOMAIN verdicts' = 1 .. Len(verdicts')
      <4>1. e \in Gate!Entry
        BY <1>0 DEF Gate!Entry
      <4>2. verdicts \in Seq(Gate!Entry)
        BY DEF GateOpens
      <4>3. QED
        BY <3>2, <4>1, <4>2, AppendProperties
    <3>4. ASSUME NEW n \in 1 .. Decided
          PROVE  \E j \in DOMAIN verdicts' : /\ verdicts'[j].version = n
                                              /\ verdicts'[j].kind = "quarantine"
      <4>1. PICK j \in DOMAIN verdicts : /\ verdicts[j].version = n
                                         /\ verdicts[j].kind = "quarantine"
        BY <3>1 DEF Superseded, Analyst!Accepted, Analyst!Reviewable
      <4>2. j \in DOMAIN verdicts' /\ verdicts'[j] = verdicts[j]
        BY <3>3, <4>1
      <4>3. QED
        BY <4>1, <4>2
    <3>5. state' \notin Analyst!Accepted =>
            \E j \in DOMAIN verdicts' : /\ verdicts'[j].version = Decided'
                                         /\ verdicts'[j].kind = "quarantine"
      <4>1. state' \notin Analyst!Accepted => kind = "quarantine"
        BY <3>1, <3>2 DEF Analyst!Accepted, Analyst!Reviewable
      <4>2. Len(verdicts) + 1 \in DOMAIN verdicts'
        BY <3>3
      <4>3. verdicts'[Len(verdicts) + 1].version = Decided'
            /\ verdicts'[Len(verdicts) + 1].kind = kind
        BY <3>1, <3>3
      <4>4. QED
        BY <4>1, <4>2, <4>3
    <3>6. \A n \in 1 .. Decided' : n \in 1 .. Decided \/ (n = Decided' /\ ~(n < Decided'))
      BY <1>0, <3>1
    <3>7. QED
      BY <3>4, <3>5, <3>6 DEF Superseded
  <2>3. ASSUME UNCHANGED verdicts,
               <<state, state'>> \in {<<state, state>>, <<"approved", "publishing">>,
                                      <<"publishing", "published">>}
        PROVE  Superseded'
    BY <1>1, <2>3 DEF Analyst!Accepted, Analyst!Reviewable
  <2>4. QED
    BY <1>5, <2>2, <2>3, GateSteps
<1>6. CASE UNCHANGED systemVars
  BY <1>1, <1>6 DEF systemVars, vars, gate
<1>7. QED
  BY <1>2, <1>3, <1>4, <1>5, <1>6 DEF SystemNext

-----------------------------------------------------------------------------
(***************************************************************************)
(* What crosses the components.                                            *)
(***************************************************************************)

\* Once the run is handed on, it has a manifest, files and raw bytes.
LEMMA HandedOn ==
  ASSUME Inv, Handed, parse
  PROVE  /\ manifests \in Seq(Manifest) /\ Len(manifests) \in Nat \ {0}
         /\ Head(manifests) \in Manifest
         /\ Last(manifests) \in Manifest /\ Last(manifests) \in Recorded
         /\ runFiles # {} /\ runFiles \subseteq File
         /\ Described(Head(manifests))
<1>1. /\ manifests \in Seq(Manifest) /\ manifests # <<>>
      /\ runFiles # {} /\ runFiles \subseteq File
      /\ Described(Head(manifests))
  BY DEF Inv, Typed, RowsTyped, FilesTyped, Undisturbed, Recording, Handed, Late
<1>2. Len(manifests) \in Nat \ {0} /\ \A i \in 1 .. Len(manifests) : manifests[i] \in Manifest
  BY <1>1
<1>3. Head(manifests) = manifests[1] /\ Last(manifests) = manifests[Len(manifests)]
  BY <1>1 DEF Last
<1>4. QED
  BY <1>1, <1>2, <1>3 DEF Recorded, ToSet

LEMMA CitingNext ==
  ASSUME Inv, Handed, GateOpens, Citing, Paired, [SystemNext]_systemVars
  PROVE  Citing'
<1>1. ASSUME UNCHANGED <<receipts, cited>>,
             cited # <<>> => /\ Head(manifests') = Head(manifests)
                             /\ Recorded \subseteq Recorded'
                             /\ runFiles' = runFiles
      PROVE  Citing'
  <2>1. ASSUME NEW i \in DOMAIN cited
        PROVE  cited # <<>>
    BY <2>1
  <2>2. QED
    BY <1>1, <2>1 DEF Citing
<1>2. cited # <<>> => parse
  <2>1. cited # <<>> => receipts # <<>>
    BY DEF Citing
  <2>2. QED
    BY <2>1 DEF GateOpens, Undecided
<1>3. CASE Ingesting
  <2>1. UNCHANGED <<receipts, cited>>
    BY <1>3 DEF Ingesting, gate
  <2>2. ASSUME cited # <<>>
        PROVE  /\ Head(manifests') = Head(manifests)
               /\ Recorded \subseteq Recorded'
               /\ runFiles' = runFiles
    <3>1. manifests # <<>>
      BY <1>2, <2>2, HandedOn
    <3>2. QED
      BY <1>2, <1>3, <2>2, <3>1, IngestingHands
  <2>3. QED
    BY <1>1, <2>1, <2>2
<1>4. ASSUME NEW w \in Worker, Parsing(w)
      PROVE  Citing'
  BY <1>1, <1>4 DEF Parsing, gate, rest, tables, Recorded
<1>5. CASE Reparsing
  BY <1>1, <1>5 DEF Reparsing, gate, rest, tables, Recorded
<1>6. ASSUME NEW r \in Reviewer, Reviewing(r)
      PROVE  Citing'
  BY <1>1, <1>6, ReviewingSteps DEF Requests, Decides, rest, tables, Recorded
<1>7. ASSUME NEW h \in Publisher, Publishing(h)
      PROVE  Citing'
  <2>1. /\ UNCHANGED <<manifests, runFiles, Recorded>>
        /\ cited' = IF receipts' = receipts THEN cited ELSE Append(cited, Cite)
        /\ Publishes(h)
    BY <1>7, PublishingSteps DEF Publishing, rest, tables, Recorded
  <2>2. CASE UNCHANGED receipts
    BY <1>1, <2>1, <2>2
  <2>3. ASSUME NEW receipt, receipts' = Append(receipts, receipt)
        PROVE  Citing'
    <3>1. parse
      BY <2>1 DEF Publishes, GateOpens, Undecided, NoJob
    <3>2. /\ Cite \in Citation
          /\ Cite.hash = Head(manifests) /\ Cite.params \in Recorded /\ Cite.files = runFiles
      BY <3>1, HandedOn DEF Cite, Citation, Paired
    <3>3. /\ receipts' \in Seq(ToSet(receipts')) /\ Len(receipts') = Len(receipts) + 1
          /\ receipts' # receipts
      BY <2>3, Appending DEF Citing
    <3>4. cited \in Seq(Citation) /\ cited' = Append(cited, Cite)
      BY <2>1, <3>3 DEF Citing
    <3>5. /\ cited' \in Seq(Citation) /\ Len(cited') = Len(cited) + 1
          /\ \A i \in 1 .. Len(cited) : cited'[i] = cited[i]
          /\ cited'[Len(cited) + 1] = Cite
      BY <3>2, <3>4, AppendProperties
    <3>6. \A i \in DOMAIN cited' : i \in 1 .. Len(cited) \/ i = Len(cited) + 1
      BY <3>4, <3>5
    <3>7. \A i \in DOMAIN cited' : /\ cited'[i].hash = Head(manifests)
                                   /\ cited'[i].params \in Recorded
                                   /\ cited'[i].files = runFiles
      BY <3>2, <3>4, <3>5, <3>6 DEF Citing
    <3>8. QED
      BY <2>1, <3>3, <3>5, <3>7 DEF Citing
  <2>4. QED
    BY <2>1, <2>2, <2>3 DEF Publishes
<1>8. CASE UNCHANGED systemVars
  BY <1>1, <1>8 DEF systemVars, vars, gate, Recorded
<1>9. QED
  BY <1>3, <1>4, <1>5, <1>6, <1>7, <1>8 DEF SystemNext

LEMMA LookingNext ==
  ASSUME Inv, Handed, Looking, [SystemNext]_systemVars
  PROVE  Looking'
<1>1. ASSUME UNCHANGED <<looked, analyst>>, Recorded \subseteq Recorded'
      PROVE  Looking'
  BY <1>1 DEF Looking
<1>2. CASE Ingesting
  BY <1>1, <1>2, IngestingHands DEF Ingesting
<1>3. ASSUME NEW w \in Worker, Parsing(w)
      PROVE  Looking'
  <2>1. /\ Steady(w) /\ parse /\ UNCHANGED manifests
        /\ looked' = [looked EXCEPT ![w] = IF analyst'[w] \in {"idle", "start"} THEN None
                                           ELSE IF @ = None THEN Last(manifests) ELSE @]
    BY <1>3, ParsingDrives DEF Parsing, rest, tables
  <2>2. Last(manifests) \in Manifest /\ Last(manifests) \in Recorded /\ None \notin Manifest
    BY <2>1, HandedOn, IngestConstantsOK
  <2>3. UNCHANGED Recorded
    BY <2>1 DEF Recorded
  <2>4. looked' \in [Worker -> Manifest \cup {None}]
        /\ \A v \in Worker \ {w} : looked'[v] = looked[v]
    BY <2>1, <2>2 DEF Looking
  <2>5. /\ looked'[w] = None <=> analyst'[w] \in {"idle", "start"}
        /\ looked'[w] # None => looked'[w] \in Recorded
    BY <2>1, <2>2 DEF Looking
  <2>6. QED
    BY <2>1, <2>3, <2>4, <2>5 DEF Looking, Steady
<1>4. CASE Reparsing
  BY <1>1, <1>4, ReparsingDrives DEF Reparsing, rest, tables, Recorded
<1>5. CASE \/ \E r \in Reviewer : Reviewing(r)
           \/ \E h \in Publisher : Publishing(h)
  BY <1>1, <1>5, GateSteps DEF rest, tables, analysis, Recorded
<1>6. CASE UNCHANGED systemVars
  BY <1>1, <1>6 DEF systemVars, vars, analysis, Recorded
<1>7. QED
  BY <1>2, <1>3, <1>4, <1>5, <1>6 DEF SystemNext

-----------------------------------------------------------------------------
(***************************************************************************)
(* What is under review, and what is published.                            *)
(***************************************************************************)

\* While a run is with the reviewers or the publisher no attempt is at work.
LEMMA UnderReview ==
  ASSUME OneUndecided, state \in Analyst!Reviewable
  PROVE  \A w \in Worker : analyst[w] \notin Before \cup After
BY DEF OneUndecided, Before, After, Analyst!Reviewable

LEMMA ReparsingKeeps ==
  ASSUME Reparsing
  PROVE  UNCHANGED <<results, artifacts, reviews, processed, gate>>
BY DEF Reparsing, Analyst!Reclaim, Analyst!ReclaimScan, Analyst!ReclaimLoad,
   Analyst!ReclaimWrite, Analyst!ReclaimLost, Analyst!records

LEMMA OutputsNext ==
  ASSUME Inv, Handed, OneAttempt, OneUndecided, GateOpens, Outputs, [SystemNext]_systemVars
  PROVE  Outputs'
<1>1. ASSUME UNCHANGED <<results, reviews, processed, analyst, attempt>>,
             state' \in Analyst!Reviewable => state \in Analyst!Reviewable
      PROVE  Outputs'
  BY <1>1 DEF Outputs, Analyst!Reviewable
<1>2. CASE Ingesting
  <2>1. UNCHANGED state \/ state' \in Early
    BY <1>2, IngestingHands DEF Handed, Early
  <2>2. QED
    BY <1>1, <1>2, <2>1 DEF Ingesting, Early, Analyst!Reviewable
<1>3. ASSUME NEW w \in Worker, Parsing(w)
      PROVE  Outputs'
  <2>1. /\ Steady(w) /\ Parses(w)
        /\ \A v \in Worker \ {w} : analyst'[v] = "idle"
    BY <1>3, ParsingDrives, OnlyAnalyst
  <2>2. Writes(w)
    <3>1. parseJob.attempts \in Nat
      BY DEF Handed, ParseJobTyped, JobRecord
    <3>2. QED
      BY <1>3, <3>1, StepWrites DEF Parsing, Handed, OneAttempt
  <2>3. \A log \in {results, reviews} :
          /\ log \in Seq(ToSet(log))
          /\ LET more == Append(log, attempt[w])
             IN  more \in Seq(ToSet(more)) /\ Last(more) = attempt[w]
    BY Appending DEF Outputs, OneAttempt
  <2>4. results' \in Seq(ToSet(results'))
    BY <2>2, <2>3 DEF Writes
  <2>5. /\ analyst'[w] \in {"result", "artifact", "review"} \cup After => processed' = {attempt'[w]}
        /\ analyst'[w] \in {"artifact", "review"} \cup After => Last(results') = attempt'[w]
        /\ analyst'[w] \in After => Last(reviews') = attempt'[w]
    BY <2>2, <2>3 DEF Writes, Outputs, After
  <2>6. state' \in Analyst!Reviewable =>
          processed' = {Last(reviews')} /\ Last(results') = Last(reviews')
    <3>1. CASE UNCHANGED state
      <4>1. state \in Analyst!Reviewable =>
              UNCHANGED <<processed, results, reviews>>
        BY <2>2, UnderReview DEF Writes, Before
      <4>2. QED
        BY <3>1, <4>1 DEF Outputs, Analyst!Reviewable
    <3>2. CASE Moves(w)
      BY <2>2, <3>2 DEF Moves, Writes, Outputs, After, Analyst!Reviewable
    <3>3. CASE Begins(w)
      BY <3>3 DEF Begins, Analyst!Reviewable
    <3>4. QED
      BY <2>1, <3>1, <3>2, <3>3 DEF Parses, Claims, Leaves, Advances, Submits, Stops
  <2>7. QED
    BY <2>1, <2>2, <2>4, <2>5, <2>6 DEF Outputs, Writes, After, Analyst!Reviewable
<1>4. CASE Reparsing
  BY <1>1, <1>4, ReparsingDrives, ReparsingKeeps
<1>5. CASE \/ \E r \in Reviewer : Reviewing(r)
           \/ \E h \in Publisher : Publishing(h)
  <2>1. /\ UNCHANGED <<results, reviews, processed, analyst, attempt>>
        /\ UNCHANGED state \/ state \in Analyst!Reviewable
    BY <1>5, GateSteps DEF analysis, Decides, Analyst!Reviewable
  <2>2. QED
    BY <1>1, <2>1
<1>6. CASE UNCHANGED systemVars
  BY <1>1, <1>6 DEF systemVars, vars, analysis
<1>7. QED
  BY <1>2, <1>3, <1>4, <1>5, <1>6 DEF SystemNext

LEMMA PairedNext ==
  ASSUME Inv, Handed, OneAttempt, OneUndecided, GateOpens, Outputs, Paired,
         [SystemNext]_systemVars
  PROVE  Paired'
<1>0. Len(reviews) \in Nat /\ Len(artifacts) \in Nat
  BY DEF OneAttempt, Paired
<1>1. ASSUME UNCHANGED <<artifacts, reviews, analyst, attempt>>,
             state' # "parsing" => state # "parsing" \/ Len(artifacts) = Len(reviews)
      PROVE  Paired'
  BY <1>1 DEF Paired
<1>2. CASE Ingesting
  <2>1. UNCHANGED <<artifacts, reviews, analyst, attempt>>
    BY <1>2 DEF Ingesting
  <2>2. UNCHANGED state \/ state # "parsing"
    BY <1>2, IngestingHands DEF Handed, Early
  <2>3. QED
    BY <1>1, <2>1, <2>2
<1>3. ASSUME NEW w \in Worker, Parsing(w)
      PROVE  Paired'
  <2>1. /\ Steady(w) /\ Parses(w)
        /\ \A v \in Worker \ {w} : analyst'[v] = "idle"
    BY <1>3, ParsingDrives, OnlyAnalyst
  <2>2. Writes(w)
    <3>1. parseJob.attempts \in Nat
      BY DEF Handed, ParseJobTyped, JobRecord
    <3>2. QED
      BY <1>3, <3>1, StepWrites DEF Parsing, Handed, OneAttempt
  <2> DEFINE Even == Len(artifacts) = Len(reviews)
  <2>3. ASSUME UNCHANGED <<artifacts, reviews>>,
               state' # "parsing" => Even,
               analyst'[w] \in Before \cup After => Even /\ analyst'[w] # "review"
        PROVE  Paired'
    BY <2>1, <2>3 DEF Paired, Before, After
  <2>4. CASE Claims(w) \/ Leaves(w) \/ Stops(w)
    <3>1. /\ analyst'[w] \notin Before \cup After /\ UNCHANGED state
      BY <2>4 DEF Claims, Leaves, Stops, Before, After
    <3>2. UNCHANGED <<artifacts, reviews>>
      BY <2>2, <2>4, <3>1 DEF Writes, Claims, Leaves, Stops, Before
    <3>3. state # "parsing" => Even
      BY DEF Paired
    <3>4. QED
      BY <2>3, <3>1, <3>2, <3>3
  <2>5. CASE Begins(w)
    <3>1. state # "parsing" /\ state' = "parsing" /\ analyst'[w] = "analyse"
          /\ analyst[w] = "start"
      BY <2>5 DEF Begins
    <3>2. Even
      BY <3>1 DEF Paired
    <3>3. UNCHANGED <<artifacts, reviews>>
      BY <2>2, <3>1 DEF Writes
    <3>4. QED
      BY <2>3, <3>1, <3>2, <3>3
  <2>6. CASE Advances(w) /\ analyst[w] # "artifact"
    <3>1. /\ analyst[w] \in Before \ {"review"} /\ analyst'[w] \in Before \ {"review"}
          /\ UNCHANGED reviews
      BY <2>6 DEF Advances, Before
    <3>2. Even
      BY <3>1 DEF Paired
    <3>3. UNCHANGED artifacts
      BY <2>2, <2>6 DEF Writes
    <3>4. QED
      BY <2>3, <3>1, <3>2, <3>3
  <2>7. CASE Advances(w) /\ analyst[w] = "artifact"
    <3> DEFINE e == [attempt |-> attempt[w], files |-> processed]
    <3>1. /\ analyst'[w] = "review" /\ UNCHANGED <<reviews, state>>
          /\ state = "parsing" /\ Even
      BY <2>7 DEF Advances, OneUndecided, Paired, Before
    <3>2. artifacts' = Append(artifacts, e) /\ attempt'[w] = attempt[w]
      BY <2>2, <3>1 DEF Writes
    <3>3. e = RowOf(attempt[w]) /\ e \in Analyst!AnalysisRow
      <4>1. processed = {attempt[w]}
        BY <2>7 DEF Outputs
      <4>2. attempt[w] \in Nat /\ attempt[w] # 0
        BY <2>7 DEF OneAttempt
      <4>3. QED
        BY <4>1, <4>2 DEF RowOf, Analyst!AnalysisRow, Analyst!Attempts
    <3>4. /\ artifacts' \in Seq(Analyst!AnalysisRow)
          /\ Len(artifacts') = Len(artifacts) + 1
          /\ \A n \in 1 .. Len(artifacts) : artifacts'[n] = artifacts[n]
          /\ artifacts'[Len(artifacts) + 1] = e
      BY <3>2, <3>3, AppendProperties DEF Paired
    <3>5. \A n \in 1 .. Len(reviews') : artifacts'[n] = RowOf(reviews'[n])
      BY <3>1, <3>4 DEF Paired
    <3>6. /\ Len(artifacts') = Len(reviews') + 1
          /\ artifacts'[Len(reviews') + 1] = RowOf(attempt'[w])
      BY <3>1, <3>2, <3>3, <3>4
    <3>7. QED
      BY <2>1, <3>1, <3>4, <3>5, <3>6 DEF Paired, Before, After
  <2>8. CASE Submits(w)
    <3>1. /\ analyst[w] = "review" /\ analyst'[w] = "validate" /\ UNCHANGED <<artifacts, state>>
          /\ reviews' = Append(reviews, attempt[w])
      BY <2>2, <2>8 DEF Submits, Writes
    <3>2. /\ Len(reviews') = Len(reviews) + 1
          /\ \A n \in 1 .. Len(reviews) : reviews'[n] = reviews[n]
          /\ reviews'[Len(reviews) + 1] = attempt[w]
      <4> DEFINE S == ToSet(reviews) \cup {attempt[w]}
      <4>1. reviews \in Seq(S) /\ attempt[w] \in S
        BY SeqMonotonic DEF OneAttempt
      <4>2. QED
        BY <3>1, <4>1, AppendProperties
    <3>3. /\ Len(artifacts) = Len(reviews) + 1
          /\ artifacts[Len(reviews) + 1] = RowOf(attempt[w])
      BY <3>1 DEF Paired
    <3>4. \A n \in 1 .. Len(reviews') : artifacts'[n] = RowOf(reviews'[n])
      <4>1. TAKE n \in 1 .. Len(reviews')
      <4>2. CASE n \in 1 .. Len(reviews)
        BY <3>1, <3>2, <4>2 DEF Paired
      <4>3. CASE n = Len(reviews) + 1
        BY <3>1, <3>2, <3>3, <4>3
      <4>4. QED
        BY <1>0, <3>2, <4>2, <4>3
    <3>5. Len(artifacts') = Len(reviews') /\ artifacts' \in Seq(Analyst!AnalysisRow)
      BY <3>1, <3>2, <3>3 DEF Paired
    <3>6. QED
      BY <2>1, <3>1, <3>4, <3>5 DEF Paired, Before, After
  <2>9. CASE Moves(w)
    <3>1. /\ analyst[w] \in {"validate", "process", "submit", "giveup"}
          /\ analyst'[w] \in {"process", "submit", "done"} /\ UNCHANGED reviews
      BY <2>9 DEF Moves
    <3>2. Even
      BY <3>1 DEF Paired, Before, After
    <3>3. UNCHANGED artifacts
      BY <2>2, <3>1 DEF Writes
    <3>4. QED
      BY <2>3, <3>1, <3>2, <3>3
  <2>10. QED
    BY <2>1, <2>4, <2>5, <2>6, <2>7, <2>8, <2>9 DEF Parses
<1>4. CASE Reparsing
  BY <1>1, <1>4, ReparsingDrives, ReparsingKeeps
<1>5. CASE \/ \E r \in Reviewer : Reviewing(r)
           \/ \E h \in Publisher : Publishing(h)
  <2>1. /\ UNCHANGED <<artifacts, reviews, analyst, attempt>>
        /\ UNCHANGED state \/ state # "parsing"
    BY <1>5, GateSteps DEF analysis, Decides
  <2>2. QED
    BY <1>1, <2>1
<1>6. CASE UNCHANGED systemVars
  BY <1>1, <1>6 DEF systemVars, vars, analysis
<1>7. QED
  BY <1>2, <1>3, <1>4, <1>5, <1>6 DEF SystemNext

\* What a publisher does on its way to a receipt.
Receipts(h) ==
  /\ publisher' \in [Publisher -> PublisherPosition]
  /\ \A g \in Publisher \ {h} : publisher'[g] = publisher[g]
  /\ publisher'[h] = "receipt" => state' = "publishing"
  /\ publisher'[h] = "insert" => publisher[h] = "receipt"
  /\ publisher'[h] = "finish" =>
       publisher[h] \in {"receipt", "insert"} /\ receipts' # <<>>
  /\ \/ UNCHANGED <<receipts, cited>>
     \/ /\ publisher[h] = "insert"
        /\ receipts' = Append(receipts, [decision |-> Gate!LatestApproval,
                                         analyses |-> 1 .. Len(reviews)])
        /\ cited' = Append(cited, Cite)
  /\ state' = state \/ state' # "published" \/ publisher[h] = "finish"

LEMMA PublishingWrites ==
  ASSUME NEW h \in Publisher, Publishing(h), Receipted, Citing
  PROVE  Receipts(h)
<1>1. /\ UNCHANGED <<rest, analysis>>
      /\ UNCHANGED receipts => UNCHANGED <<receipts, cited>>
      /\ receipts' # receipts => cited' = Append(cited, Cite)
  BY DEF Publishing
<1>2. ASSUME NEW position \in PublisherPosition, Gate!Goto(h, position)
      PROVE  /\ publisher' \in [Publisher -> PublisherPosition]
             /\ \A g \in Publisher \ {h} : publisher'[g] = publisher[g]
             /\ publisher'[h] = position
  BY <1>2 DEF Gate!Goto, Receipted
<1>3. CASE Gate!Claim(h)
  BY <1>1, <1>2, <1>3 DEF Gate!Claim, Gate!records, Receipts, PublisherPosition
<1>4. CASE Gate!Complete(h) \/ Gate!LoadCounts(h) \/ Gate!FailWrite(h) \/ Gate!Crash(h)
           \/ Gate!ReclaimScan(h) \/ Gate!ReclaimLive(h)
  BY <1>1, <1>2, <1>4 DEF Gate!Complete, Gate!LoadCounts, Gate!FailWrite, Gate!Leave,
     Gate!Crash, Gate!ReclaimScan, Gate!ReclaimLive, Gate!Scan, Gate!records, Receipts,
     PublisherPosition
<1>5. CASE Gate!Load(h)
  BY <1>1, <1>2, <1>5 DEF Gate!Load, Gate!records, Receipts, PublisherPosition
<1>6. CASE Gate!Begin(h)
  BY <1>1, <1>2, <1>6 DEF Gate!Begin, Gate!Transition, Gate!records, Receipts, PublisherPosition
<1>7. CASE Gate!FindReceipt(h)
  BY <1>1, <1>2, <1>7 DEF Gate!FindReceipt, Gate!records, Receipts, PublisherPosition
<1>8. CASE Gate!InsertReceipt(h)
  <2>1. receipts' # <<>> /\ receipts' # receipts
    BY <1>8, Appending DEF Gate!InsertReceipt, Citing
  <2>2. QED
    BY <1>1, <1>2, <1>8, <2>1 DEF Gate!InsertReceipt, Receipts, PublisherPosition
<1>9. CASE Gate!Finish(h)
  BY <1>1, <1>2, <1>9 DEF Gate!Finish, Gate!Transition, Gate!records, Receipts, PublisherPosition
<1>10. CASE Gate!NotifyPublished(h)
  BY <1>1, <1>2, <1>10 DEF Gate!NotifyPublished, Receipts, PublisherPosition
<1>11. QED
  BY <1>3, <1>4, <1>5, <1>6, <1>7, <1>8, <1>9, <1>10 DEF Publishing, Gate!Publish

LEMMA ReceiptedNext ==
  ASSUME Inv, Handed, OneAttempt, OneUndecided, GateOpens, Citing, Receipted,
         [SystemNext]_systemVars
  PROVE  Receipted'
<1>1. ASSUME UNCHANGED <<verdicts, receipts, cited, publisher>>,
             \/ UNCHANGED <<state, reviews, artifacts>>
             \/ {state, state'} \cap (Published \cup {"approved"}) = {}
      PROVE  Receipted'
  <2>1. Decided' = Decided
    BY <1>1 DEF Decided
  <2>2. CASE UNCHANGED <<state, reviews, artifacts>>
    BY <1>1, <2>1, <2>2 DEF Receipted, Published
  <2>3. CASE {state, state'} \cap (Published \cup {"approved"}) = {}
    <3>1. state \notin Published /\ state' \notin Published \cup {"approved"}
      BY <2>3
    <3>2. receipts = <<>>
      BY <3>1 DEF Receipted
    <3>3. QED
      BY <1>1, <3>1, <3>2 DEF Receipted, Published
  <2>4. QED
    BY <1>1, <2>2, <2>3
<1>2. CASE Ingesting
  <2>1. UNCHANGED <<verdicts, receipts, cited, publisher, reviews, artifacts>>
    BY <1>2 DEF Ingesting, gate
  <2>2. UNCHANGED state \/ {state, state'} \cap (Published \cup {"approved"}) = {}
    BY <1>2, IngestingHands DEF Handed, Early, Published
  <2>3. QED
    BY <1>1, <2>1, <2>2
<1>3. ASSUME NEW w \in Worker, Parsing(w)
      PROVE  Receipted'
  <2>1. /\ Parses(w) /\ UNCHANGED <<verdicts, receipts, cited, publisher>>
        /\ analyst[w] # "artifact" => UNCHANGED artifacts
    <3>1. parseJob.attempts \in Nat
      BY DEF Handed, ParseJobTyped, JobRecord
    <3>2. Writes(w)
      BY <1>3, <3>1, StepWrites DEF Parsing, Handed, OneAttempt
    <3>3. QED
      BY <1>3, <3>2, ParsingDrives DEF Parsing, gate, Writes
  <2>2. state \in Published \cup {"approved"} =>
          analyst[w] \notin Before \cup After
    BY UnderReview DEF Published, Analyst!Reviewable
  <2>3. state \in Published \cup {"approved"} => UNCHANGED <<state, reviews, artifacts>>
    BY <2>1, <2>2
    DEF Parses, Claims, Leaves, Begins, Advances, Submits, Moves, Stops, Before, After,
        Published
  <2>4. UNCHANGED state \/ state' \notin Published \cup {"approved"}
    BY <2>1
    DEF Parses, Claims, Leaves, Begins, Advances, Submits, Moves, Stops, Published
  <2>5. QED
    BY <1>1, <2>1, <2>3, <2>4
<1>4. CASE Reparsing
  BY <1>1, <1>4, ReparsingDrives, ReparsingKeeps DEF gate
<1>5. ASSUME NEW r \in Reviewer, Reviewing(r)
      PROVE  Receipted'
  <2>1. UNCHANGED <<reviews, artifacts, cited>>
    BY <1>5, ReviewingSteps DEF analysis
  <2>2. CASE Decides(r)
    <3>1. /\ state = "awaiting_review" /\ UNCHANGED <<receipts, publisher>>
          /\ state' \notin Published
          /\ Decided' = Len(reviews)
      BY <2>2, DecidedTyped DEF Decides, Published
    <3>2. /\ receipts = <<>>
          /\ \A h \in Publisher : publisher[h] \notin {"receipt", "insert", "finish"}
      BY <3>1 DEF Receipted, Published
    <3>3. QED
      BY <2>1, <3>1, <3>2 DEF Receipted, Published
  <2>3. CASE UNCHANGED <<state, verdicts, receipts, publisher>>
    BY <1>1, <2>1, <2>3
  <2>4. QED
    BY <1>5, <2>2, <2>3, ReviewingSteps DEF Requests
<1>6. ASSUME NEW h \in Publisher, Publishing(h)
      PROVE  Receipted'
  <2>1. /\ UNCHANGED <<reviews, artifacts, verdicts>> /\ Receipts(h)
        /\ <<state, state'>> \in {<<state, state>>, <<"approved", "publishing">>,
                                  <<"publishing", "published">>}
    BY <1>6, PublishingSteps, PublishingWrites DEF analysis, Publishes
  <2>2. /\ state \in Published => state' \in Published
        /\ state' \in Published \cup {"approved"} => state \in Published \cup {"approved"}
    BY <2>1 DEF Published
  <2>3. /\ Len(receipts) \in Nat /\ receipts' \in Seq(ToSet(receipts'))
        /\ receipts # <<>> => receipts' # <<>>
        /\ \A i \in DOMAIN receipts' : /\ receipts'[i].analyses = 1 .. Len(reviews)
                                       /\ cited'[i].rows = artifacts
    <3>1. CASE UNCHANGED <<receipts, cited>>
      BY <3>1 DEF Receipted, Citing
    <3>2. CASE /\ receipts' = Append(receipts, [decision |-> Gate!LatestApproval,
                                                analyses |-> 1 .. Len(reviews)])
               /\ cited' = Append(cited, Cite)
      <4> DEFINE e == [decision |-> Gate!LatestApproval, analyses |-> 1 .. Len(reviews)]
                 S == ToSet(receipts) \cup {e}
      <4>1. receipts \in Seq(S) /\ e \in S /\ Len(receipts) \in Nat
        BY SeqMonotonic DEF Citing
      <4>2. /\ receipts' \in Seq(S) /\ Len(receipts') = Len(receipts) + 1
            /\ \A i \in 1 .. Len(receipts) : receipts'[i] = receipts[i]
            /\ receipts'[Len(receipts) + 1] = e
        BY <3>2, <4>1, AppendProperties
      <4>3. \A i \in DOMAIN receipts' : \/ i \in 1 .. Len(receipts)
                                        \/ i = Len(receipts) + 1
        BY <4>1, <4>2
      <4>7. /\ \A i \in 1 .. Len(receipts) : cited'[i] = cited[i]
            /\ cited'[Len(receipts) + 1] = Cite
        <5> DEFINE C == Citation \cup {Cite}
        <5>1. cited \in Seq(C) /\ Cite \in C /\ Len(cited) = Len(receipts)
          BY SeqMonotonic DEF Citing
        <5> HIDE DEF C
        <5>2. QED
          BY <3>2, <5>1, AppendProperties
      <4>4. \A i \in DOMAIN receipts' : /\ receipts'[i].analyses = 1 .. Len(reviews)
                                         /\ cited'[i].rows = artifacts
        <5>1. TAKE i \in DOMAIN receipts'
        <5>2. CASE i \in 1 .. Len(receipts)
          BY <4>1, <4>2, <4>7, <5>2 DEF Receipted
        <5>3. CASE i = Len(receipts) + 1
          BY <4>2, <4>7, <5>3 DEF Cite
        <5>4. QED
          BY <4>3, <5>2, <5>3
      <4>5. receipts' \in Seq(ToSet(receipts')) /\ receipts' # <<>>
        BY <3>2, Appending DEF Citing
      <4>6. QED
        BY <4>1, <4>4, <4>5
    <3>3. QED
      BY <2>1, <3>1, <3>2 DEF Receipts
  <2>4. /\ \A g \in Publisher : publisher'[g] \in {"receipt", "insert", "finish"} =>
                                  state' \in Published
        /\ \A g \in Publisher : publisher'[g] = "finish" => receipts' # <<>>
    <3>1. ASSUME NEW g \in Publisher \ {h}
          PROVE  /\ publisher'[g] \in {"receipt", "insert", "finish"} => state' \in Published
                 /\ publisher'[g] = "finish" => receipts' # <<>>
      BY <2>1, <2>2, <2>3 DEF Receipts, Receipted
    <3>2. /\ publisher'[h] \in {"receipt", "insert", "finish"} => state' \in Published
          /\ publisher'[h] = "finish" => receipts' # <<>>
      BY <2>1, <2>2 DEF Receipts, Receipted, Published
    <3>3. QED
      BY <3>1, <3>2
  <2>5. state' = "published" => receipts' # <<>>
    BY <2>1, <2>3 DEF Receipts, Receipted
  <2>6. receipts' # <<>> => state' \in Published
    BY <2>1, <2>2 DEF Receipts, Receipted
  <2>7. Decided' = Decided
    BY <2>1 DEF Decided
  <2>8. QED
    BY <2>1, <2>2, <2>3, <2>4, <2>5, <2>6, <2>7 DEF Receipted, Receipts
<1>7. CASE UNCHANGED systemVars
  BY <1>1, <1>7 DEF systemVars, vars, analysis, gate
<1>8. QED
  BY <1>2, <1>3, <1>4, <1>5, <1>6, <1>7 DEF SystemNext

LEMMA SysInvInit ==
  ASSUME SystemInit, Timely
  PROVE  SysInv
<1>1. Inv /\ Handed
  BY HandedInit, InvInit
<1>2. /\ parseJob = NoJob /\ reviews = <<>> /\ verdicts = <<>> /\ receipts = <<>>
      /\ cited = <<>> /\ publish = NoJob /\ ~parse /\ artifacts = <<>>
      /\ attempt = [w \in Worker |-> 0] /\ reclaimer.pc = "idle"
      /\ shown = [r \in Reviewer |-> 0]
      /\ analyst = [w \in Worker |-> "idle"] /\ looked = [w \in Worker |-> None]
      /\ post = [r \in Reviewer |-> Gate!NoPost]
      /\ publisher = [h \in Publisher |-> "idle"]
      /\ state = "undeclared"
  BY DEF SystemInit, Init, Analyst!NotReclaiming
<1>3. OneAttempt
  BY <1>2, IngestConstantsOK DEF OneAttempt, NoJob
<1>4. OneUndecided
  BY <1>2 DEF OneUndecided, Decided, Before, After
<1>5. GateOpens
  BY <1>2 DEF GateOpens, Undecided
<1>6. Citing
  BY <1>2 DEF Citing
<1>7. Looking
  BY <1>2 DEF Looking
<1>8. Outputs
  <2>1. results = <<>>
    BY DEF SystemInit
  <2>2. QED
    BY <1>2, <2>1 DEF Outputs, After, Analyst!Reviewable
<1>9. Receipted
  BY <1>2 DEF Receipted, PublisherPosition, Published
<1>10. Superseded /\ Paired
  BY <1>2 DEF Superseded, Decided, Paired, Before, After
<1>11. QED
  BY <1>1, <1>3, <1>4, <1>5, <1>6, <1>7, <1>8, <1>9, <1>10 DEF SysInv

LEMMA SysInvAlways == Timely /\ SystemSpec => []SysInv
<1>1. Timely /\ SystemInit => SysInv
  BY SysInvInit
<1>2. ASSUME SysInv, [SystemNext]_systemVars
      PROVE  SysInv'
  <2>1. Inv' /\ Handed'
    BY <1>2, HandedNext, InvNext DEF SysInv
  <2>2. OneAttempt' /\ OneUndecided' /\ GateOpens' /\ Superseded' /\ Citing' /\ Looking'
        /\ Outputs' /\ Paired' /\ Receipted'
    BY <1>2, OneAttemptNext, OneUndecidedNext, GateOpensNext, SupersededNext, CitingNext,
       LookingNext, OutputsNext, PairedNext, ReceiptedNext
    DEF SysInv
  <2>3. QED
    BY <2>1, <2>2 DEF SysInv
<1>3. QED
  BY <1>1, <1>2, PTL DEF SystemSpec

\* What crosses the components is well formed: a citation per receipt, a loaded
\* manifest exactly while an attempt is past its start, no parse job before the
\* hand-off.
THEOREM SystemTypeCorrect == Timely /\ SystemSpec => []SystemTypeOK
<1>1. SysInv => SystemTypeOK
  BY DEF SysInv, Handed, ParseJobTyped, Citing, Looking, SystemTypeOK
<1>2. QED
  BY <1>1, SysInvAlways, PTL

\* Whatever is posted, parsed, decided and published again, buildAndInsertReceipt's
\* citation stays true.
THEOREM ReceiptsTraceable == Timely /\ SystemSpec => []ReceiptsAreTraceable
<1>1. SysInv => ReceiptsAreTraceable
  <2>1. SUFFICES ASSUME SysInv, NEW i \in DOMAIN cited
                 PROVE  /\ cited[i].hash = Head(manifests)
                        /\ cited[i].params \in Recorded
                        /\ cited[i].files = runFiles
                        /\ \E m \in Recorded : cited[i].files = DeclaredFiles(m)
                                               /\ cited[i].files = FilesIn(Body[m].archive)
                        /\ crashes = 0 => /\ cited[i].files \subseteq raw
                                          /\ ignored = 0 => cited[i].files = raw
    BY SMT DEF ReceiptsAreTraceable
  <2>2. /\ cited[i].hash = Head(manifests)
        /\ cited[i].params \in Recorded
        /\ cited[i].files = runFiles
    BY <2>1 DEF SysInv, Citing
  <2>3. parse
    <3>1. receipts # <<>>
      BY <2>1 DEF SysInv, Citing
    <3>2. QED
      BY <2>1, <3>1 DEF SysInv, GateOpens, Undecided
  <2>4. runFiles # {} /\ \E m \in Recorded : runFiles = DeclaredFiles(m) /\ Sound(m)
    BY <2>1, <2>3 DEF SysInv, Inv, Undisturbed, Recording
  <2>5. crashes = 0 => runFiles \subseteq raw /\ (ignored = 0 => raw = runFiles)
    BY <2>1, <2>4 DEF SysInv, Inv, Undisturbed, Tidy, Keeps
  <2>6. QED
    BY <2>2, <2>4, <2>5 DEF Sound
<1>2. QED
  BY <1>1, SysInvAlways, PTL

\* As long as the manifests do not contradict each other, handle_parse_run looks
\* where HandlePullRun has put the bytes, and there are some.
THEOREM AnalysesFindRaw == Timely /\ SystemSpec => []AnalysesReadRaw
<1>1. SysInv => AnalysesReadRaw
  <2>1. SUFFICES ASSUME SysInv, NEW w \in Worker, analyst[w] = "analyse",
                        Consistent(looked[w])
                 PROVE  /\ ParseDir(looked[w]) = PullDir
                        /\ raw # {}
                        /\ Len(manifests) = 1 => Readable(looked[w])
    BY DEF AnalysesReadRaw
  <2>2. parse /\ looked[w] \in Recorded
    BY <2>1 DEF SysInv, Handed, Looking
  <2>3. Row.sample # "" /\ Row.device # ""
    BY <2>1, <2>2, HandedOn DEF SysInv, Described, Row
  <2>4. ParseDir(looked[w]) = PullDir
    BY <2>1, <2>3 DEF Consistent, ParseDir, PullDir
  <2>5. raw # {}
    BY <2>1, <2>2 DEF SysInv, Inv, Undisturbed, Recording
  <2>6. PICK m \in Recorded : DeclaredFiles(m) \subseteq raw /\ Sound(m)
    BY <2>1, <2>5 DEF SysInv, Inv, Undisturbed, Stored, Keeps
  <2>7. ASSUME Len(manifests) = 1
        PROVE  Readable(looked[w])
    <3>1. m = looked[w]
      BY <2>2, <2>6, <2>7 DEF Recorded, ToSet
    <3>2. \E file \in raw, declared \in ToSet(Body[looked[w]].files) :
            file.path = declared.name
      <4>1. runFiles # {} /\ \E n \in Recorded : runFiles = DeclaredFiles(n)
        BY <2>1, <2>2 DEF SysInv, Inv, Undisturbed, Recording
      <4>2. DeclaredFiles(m) # {}
        BY <2>6, <2>7, <4>1 DEF Recorded, ToSet
      <4>3. QED
        BY <2>6, <3>1, <4>2 DEF DeclaredFiles
    <3>3. QED
      BY <2>4, <3>2 DEF Readable
  <2>8. QED
    BY <2>4, <2>5, <2>7
<1>2. QED
  BY <1>1, SysInvAlways, PTL

\* What a reviewer approved is what a receipt stands for and is still on disk: no
\* retried parse job has written to the run since.  The receipt's copy of the rows
\* is complete, and those that are not of the approved analysis are of analyses that
\* were submitted and quarantined before it.
THEOREM PublishedReviewed == Timely /\ SystemSpec => []PublishedIsReviewed
<1>1. SysInv => PublishedIsReviewed
  <2>1. SUFFICES ASSUME SysInv, NEW i \in DOMAIN receipts
                 PROVE  /\ processed = {Last(reviews)} /\ Last(results) = Last(reviews)
                        /\ Last(verdicts).version = Len(reviews)
                        /\ cited[i].rows = artifacts
                        /\ receipts[i].analyses = 1 .. Len(reviews)
                        /\ Len(artifacts) = Len(reviews)
                        /\ \A n \in DOMAIN reviews :
                             /\ artifacts[n] = [attempt |-> reviews[n], files |-> {reviews[n]}]
                             /\ n < Len(reviews) =>
                                  \E j \in DOMAIN verdicts : /\ verdicts[j].version = n
                                                            /\ verdicts[j].kind = "quarantine"
    BY DEF PublishedIsReviewed, SysInv, Receipted
  <2>2. receipts # <<>>
    BY <2>1 DEF SysInv, Citing
  <2>3. state \in Published /\ verdicts # <<>>
    BY <2>1, <2>2 DEF SysInv, Receipted, GateOpens, Undecided
  <2>4. /\ receipts[i].analyses = 1 .. Len(reviews) /\ cited[i].rows = artifacts
        /\ Len(reviews) = Last(verdicts).version /\ Len(reviews) = Decided
    BY <2>1, <2>3 DEF SysInv, Receipted, Decided
  <2>5. processed = {Last(reviews)} /\ Last(results) = Last(reviews)
    BY <2>1, <2>3 DEF SysInv, Outputs, Published, Analyst!Reviewable
  <2>6. /\ DOMAIN reviews = 1 .. Len(reviews) /\ Len(artifacts) = Len(reviews)
        /\ \A n \in 1 .. Len(reviews) : artifacts[n] = RowOf(reviews[n])
    BY <2>1, <2>3 DEF SysInv, OneAttempt, Paired, Published
  <2>7. \A n \in 1 .. Len(reviews) : n < Len(reviews) =>
          \E j \in DOMAIN verdicts : verdicts[j].version = n /\ verdicts[j].kind = "quarantine"
    BY <2>1, <2>4 DEF SysInv, Superseded
  <2>8. QED
    BY <2>4, <2>5, <2>6, <2>7 DEF RowOf
<1>2. QED
  BY <1>1, SysInvAlways, PTL

-----------------------------------------------------------------------------
(***************************************************************************)
(* The review gate from the first review artifact on.                      *)
(***************************************************************************)

LEMMA SameGate ==
  /\ \A from, to : Gate!CanTransition(from, to) <=> AsReview!CanTransition(from, to)
  /\ Gate!Target = AsReview!Target /\ Gate!Kind = AsReview!Kind
  /\ Gate!Event = AsReview!Event /\ Gate!NoPost = AsReview!NoPost
  /\ Gate!LatestApproval = AsReview!LatestApproval
  /\ Gate!Started(publish) = AsReview!Started(publish)
  /\ Gate!Succeeded(publish) = AsReview!Succeeded(publish)
  /\ \A n : Gate!Returned(publish, n, MaxAttempts) = AsReview!Returned(publish, n, MaxAttempts)
  /\ Gate!Enqueued(publish) = AsReview!Enqueued(publish)
  /\ NoJob = AsReview!NoJob
<1>1. \A from, to : Gate!CanTransition(from, to) <=> AsReview!CanTransition(from, to)
  BY DEF Gate!CanTransition, AsReview!CanTransition, Gate!Allowed, AsReview!Allowed,
     Gate!RunState, AsReview!RunState
<1>2. /\ Gate!Target = AsReview!Target /\ Gate!Kind = AsReview!Kind
      /\ Gate!Event = AsReview!Event /\ Gate!NoPost = AsReview!NoPost
  BY DEF Gate!Target, AsReview!Target, Gate!Kind, AsReview!Kind, Gate!Event, AsReview!Event,
     Gate!NoPost, AsReview!NoPost
<1>3. Gate!LatestApproval = AsReview!LatestApproval
  BY DEF Gate!LatestApproval, AsReview!LatestApproval, Gate!Max, AsReview!Max
<1>4. /\ Gate!Started(publish) = AsReview!Started(publish)
      /\ Gate!Succeeded(publish) = AsReview!Succeeded(publish)
      /\ \A n : Gate!Returned(publish, n, MaxAttempts) = AsReview!Returned(publish, n, MaxAttempts)
      /\ Gate!Enqueued(publish) = AsReview!Enqueued(publish)
      /\ NoJob = AsReview!NoJob
  BY DEF Gate!Started, AsReview!Started, Gate!Succeeded, AsReview!Succeeded,
     Gate!Returned, AsReview!Returned, Gate!Enqueued, AsReview!Enqueued, NoJob, AsReview!NoJob
<1>5. QED
  BY <1>1, <1>2, <1>3, <1>4

\* A page or a decision: both see the same artifact, and a run that awaits review if
\* there is a decision.
LEMMA AwaitingIsReview ==
  ASSUME verdicts = <<>> => Len(reviews) = 1, UNCHANGED reviews, NEW r \in Reviewer
  PROVE  /\ Gate!View(r) => AsReview!View(r)
         /\ state = "awaiting_review" /\ verdicts' # <<>> =>
              \A kind \in Gate!Kind : Gate!Decide(r, kind) => AsReview!Decide(r, kind)
<1> USE SameGate DEF Gate!records, AsReview!records
<1>1. Gate!View(r) => AsReview!View(r)
  BY DEF Gate!View, AsReview!View
<1>2. ASSUME state = "awaiting_review", NEW kind \in Gate!Kind, Gate!Decide(r, kind), verdicts' # <<>>
      PROVE  AsReview!Decide(r, kind)
  <2>1. state' \in {"approved", "changes_requested", "quarantined"}
    BY <1>2 DEF Gate!Decide, Gate!Target, Gate!Kind
  <2>2. QED
    BY <1>2, <2>1 DEF Gate!Decide, AsReview!Decide, Gate!Verdict, AsReview!Verdict
<1>3. QED
  BY <1>1, <1>2

\* Once there is a verdict the requests and the publish job see the same run, but
\* for the states that Pipeline A takes it through.
LEMMA DecidedIsReview ==
  ASSUME verdicts # <<>>, verdicts' # <<>>, UNCHANGED reviews
  PROVE  /\ \A r \in Reviewer : /\ Gate!Answer(r) => AsReview!Answer(r)
                                /\ Gate!PostLost(r) => AsReview!PostLost(r)
         /\ \A h \in Publisher : /\ Gate!Publish(h) => AsReview!Publish(h)
                                 /\ Gate!Crash(h) => AsReview!Crash(h)
                                 /\ Gate!ReclaimLive(h) => AsReview!ReclaimLive(h)
<1> USE SameGate
    DEF Gate!records, AsReview!records, Gate!Goto, AsReview!Goto, Gate!Answered,
        AsReview!Answered, Gate!Proceed, AsReview!Proceed, Gate!Leave, AsReview!Leave
<1>1. ASSUME NEW r \in Reviewer
      PROVE  /\ Gate!InsertDecision(r) => AsReview!InsertDecision(r)
             /\ Gate!EnqueuePublish(r) => AsReview!EnqueuePublish(r)
             /\ Gate!NotifyQuarantine(r) => AsReview!NotifyQuarantine(r)
             /\ Gate!PostLost(r) => AsReview!PostLost(r)
  BY DEF Gate!InsertDecision, AsReview!InsertDecision, Gate!EnqueuePublish,
     AsReview!EnqueuePublish, Gate!NotifyQuarantine, AsReview!NotifyQuarantine,
     Gate!PostLost, AsReview!PostLost
<1>2. ASSUME NEW h \in Publisher
      PROVE  /\ Gate!Claim(h) => AsReview!Claim(h)
             /\ Gate!Complete(h) => AsReview!Complete(h)
             /\ Gate!LoadCounts(h) => AsReview!LoadCounts(h)
             /\ Gate!FailWrite(h) => AsReview!FailWrite(h)
             /\ Gate!Crash(h) => AsReview!Crash(h)
  BY DEF Gate!Claim, AsReview!Claim, Gate!Complete, AsReview!Complete, Gate!LoadCounts,
     AsReview!LoadCounts, Gate!FailWrite, AsReview!FailWrite, Gate!Crash, AsReview!Crash
<1>3. ASSUME NEW h \in Publisher
      PROVE  Gate!Load(h) => AsReview!Load(h)
  BY DEF Gate!Load, AsReview!Load
<1>4. ASSUME NEW h \in Publisher
      PROVE  /\ Gate!Begin(h) => AsReview!Begin(h)
             /\ Gate!Finish(h) => AsReview!Finish(h)
  BY DEF Gate!Begin, AsReview!Begin, Gate!Finish, AsReview!Finish, Gate!Transition,
     AsReview!Transition
<1>5. ASSUME NEW h \in Publisher
      PROVE  /\ Gate!FindReceipt(h) => AsReview!FindReceipt(h)
             /\ Gate!InsertReceipt(h) => AsReview!InsertReceipt(h)
             /\ Gate!NotifyPublished(h) => AsReview!NotifyPublished(h)
  BY DEF Gate!FindReceipt, AsReview!FindReceipt, Gate!InsertReceipt, AsReview!InsertReceipt,
     Gate!NotifyPublished, AsReview!NotifyPublished
<1>6. ASSUME NEW h \in Publisher
      PROVE  /\ Gate!ReclaimScan(h) => AsReview!ReclaimScan(h)
             /\ Gate!ReclaimLive(h) => AsReview!ReclaimLive(h)
  BY DEF Gate!ReclaimScan, AsReview!ReclaimScan, Gate!ReclaimLive, AsReview!ReclaimLive,
     Gate!Scan, AsReview!Scan, Gate!Live, AsReview!Live
<1>7. QED
  BY <1>1, <1>2, <1>3, <1>4, <1>5, <1>6
  DEF Gate!Answer, AsReview!Answer, Gate!Publish, AsReview!Publish

LEMMA StutterReview ==
  ASSUME UNCHANGED <<verdicts, decisions, receipts, announced, publish, shown, post,
                     publisher, counted, reviewCrashes>>,
         \/ verdicts = <<>>
         \/ /\ UNCHANGED reviews
            /\ \/ UNCHANGED state
               \/ {state, state'} \subseteq {"parsing", "validated", "processing",
                                             "parser_failed"}
  PROVE  UNCHANGED AsReview!vars
BY DEF AsReview!vars

LEMMA NextIsReview ==
  ASSUME SysInv, [SystemNext]_systemVars
  PROVE  [AsReview!Next]_(AsReview!vars)
<1>0. /\ Inv /\ Handed /\ OneAttempt /\ OneUndecided /\ GateOpens
      /\ Decided \in Nat /\ Len(reviews) \in Nat
  BY DecidedTyped DEF SysInv
<1>1. CASE Ingesting
  <2>1. UNCHANGED gate /\ UNCHANGED reviews
    BY <1>1 DEF Ingesting
  <2>2. verdicts # <<>> => UNCHANGED state
    BY <1>0, <1>1, IngestingHands DEF GateOpens
  <2>3. QED
    BY <2>1, <2>2, StutterReview DEF gate
<1>2. ASSUME NEW w \in Worker, Parsing(w)
      PROVE  [AsReview!Next]_(AsReview!vars)
  <2>1. /\ Parses(w) /\ parse /\ UNCHANGED gate /\ state \in Late
    BY <1>0, <1>2, ParsingDrives DEF Parsing, Handed
  <2>2. UNCHANGED <<verdicts, decisions, receipts, announced, publish, shown, post,
                    publisher, counted, reviewCrashes>>
    BY <2>1 DEF gate
  <2>3. CASE verdicts = <<>>
    BY <2>2, <2>3, StutterReview
  <2>4. CASE verdicts # <<>> /\ (Claims(w) \/ Leaves(w) \/ Advances(w) \/ Stops(w))
    BY <2>2, <2>4, StutterReview DEF Claims, Leaves, Advances, Stops
  <2>5. CASE verdicts # <<>> /\ Begins(w)
    <3>1. state \in {"parser_failed", "quarantined"}
      BY <1>0, <2>1, <2>5 DEF Begins, Late, GateOpens
    <3>2. CASE state = "parser_failed"
      BY <2>2, <2>5, <3>2, StutterReview DEF Begins
    <3>3. CASE state = "quarantined"
      <4>1. AsReview!Reopen
        BY <2>2, <2>5, <3>3 DEF Begins, AsReview!Reopen, AsReview!records
      <4>2. QED
        BY <4>1 DEF AsReview!Next
    <3>4. QED
      BY <3>1, <3>2, <3>3
  <2>6. CASE verdicts # <<>> /\ Submits(w)
    <3>1. /\ state = "parsing" /\ UNCHANGED state
          /\ Len(reviews) = Last(verdicts).version
      BY <1>0, <2>6 DEF Submits, OneUndecided, Before, Decided
    <3>2. Len(reviews') = Len(reviews) + 1
      BY <1>0, <2>6, Appending DEF Submits, OneAttempt
    <3>3. Len(reviews) < MaxAttempts
      <4>1. analyst[w] = "review"
        BY <2>6 DEF Submits
      <4>2. Len(reviews) < parseJob.attempts
        BY <1>0, <4>1 DEF OneAttempt
      <4>3. parseJob.attempts \in 0 .. MaxAttempts
        BY <1>0, IngestConstantsOK DEF Handed, OneAttempt, ParseJobTyped, JobRecord
      <4>4. QED
        BY <1>0, <4>2, <4>3, IngestConstantsOK
    <3>4. AsReview!Last(verdicts) = Last(verdicts)
      BY DEF AsReview!Last, Last
    <3>5. AsReview!Rereview
      BY <2>2, <2>6, <3>1, <3>2, <3>3, <3>4 DEF AsReview!Rereview, AsReview!records
    <3>6. QED
      BY <3>5 DEF AsReview!Next
  <2>7. CASE verdicts # <<>> /\ Moves(w) /\ analyst[w] # "submit"
    BY <2>2, <2>7, StutterReview DEF Moves
  <2>8. CASE verdicts # <<>> /\ Moves(w) /\ analyst[w] = "submit"
    <3>1. /\ state = "processing" /\ state' = "awaiting_review" /\ UNCHANGED reviews
          /\ Len(reviews) = Last(verdicts).version + 1
      BY <1>0, <2>8 DEF Moves, OneUndecided, After, Decided
    <3>2. Last(verdicts).version \in Nat
      BY <1>0, <2>8 DEF Decided
    <3>3. AsReview!Last(verdicts) = Last(verdicts)
      BY DEF AsReview!Last, Last
    <3>4. AsReview!Resubmit
      BY <2>2, <2>8, <3>1, <3>2, <3>3 DEF AsReview!Resubmit, AsReview!records
    <3>5. QED
      BY <3>4 DEF AsReview!Next
  <2>9. QED
    BY <2>1, <2>3, <2>4, <2>5, <2>6, <2>7, <2>8 DEF Parses
<1>3. CASE Reparsing
  <2>1. UNCHANGED gate /\ UNCHANGED <<reviews, state>>
    BY <1>0, <1>3, ReparsingDrives DEF Reparsing
  <2>2. QED
    BY <2>1, StutterReview DEF gate
<1>4. ASSUME \/ \E r \in Reviewer : Reviewing(r)
             \/ \E h \in Publisher : Publishing(h)
      PROVE  AsReview!Next
  <2>1. UNCHANGED reviews
    BY <1>4, GateSteps DEF analysis
  <2>2. verdicts # <<>> => verdicts' # <<>>
    BY <1>0, <1>4, GateSteps, DecidedTyped
  <2>3. state = "awaiting_review" => (verdicts = <<>> => Len(reviews) = 1)
    BY <1>0 DEF OneUndecided, Decided
  <2>4. ASSUME NEW r \in Reviewer, Gate!View(r)
        PROVE  AsReview!Next
    <3>1. shown[r] # Len(reviews)
      BY <2>4 DEF Gate!View
    <3>2. verdicts = <<>> => Len(reviews) = 1
      <4>1. verdicts = <<>> /\ reviews = <<>> => shown[r] = 0
        BY <1>0 DEF GateOpens, Undecided
      <4>2. verdicts = <<>> => reviews # <<>>
        BY <3>1, <4>1
      <4>3. reviews # <<>> => Len(reviews) # 0
        BY <1>0 DEF OneAttempt
      <4>4. QED
        BY <4>2, <4>3, <1>0 DEF OneUndecided, Decided
    <3>3. AsReview!View(r)
      BY <2>1, <2>4, <3>2, AwaitingIsReview
    <3>4. QED
      BY <3>3 DEF AsReview!Next
  <2>5. ASSUME NEW r \in Reviewer, NEW kind \in Gate!Kind, Gate!Decide(r, kind)
        PROVE  AsReview!Next
    <3>1. state = "awaiting_review"
      BY <2>5 DEF Gate!Decide
    <3>2. verdicts' # <<>>
      <4>1. Gate!Verdict(r, kind) \in Gate!Entry
        BY <1>0, <2>5 DEF Gate!Verdict, Gate!Entry
      <4>2. verdicts' = Append(verdicts, Gate!Verdict(r, kind)) /\ verdicts \in Seq(Gate!Entry)
        BY <1>0, <2>5 DEF Gate!Decide, GateOpens
      <4>3. QED
        BY <4>1, <4>2, AppendProperties
    <3>3. AsReview!Decide(r, kind) /\ kind \in AsReview!Kind
      BY <2>1, <2>3, <2>5, <3>1, <3>2, AwaitingIsReview, SameGate
    <3>4. QED
      BY <3>3 DEF AsReview!Next
  <2>6. ASSUME NEW r \in Reviewer, Gate!Answer(r) \/ Gate!PostLost(r)
        PROVE  AsReview!Next
    <3>1. post[r] # Gate!NoPost
      <4>1. CASE Gate!PostLost(r)
        BY <4>1 DEF Gate!PostLost
      <4>2. CASE Gate!Answer(r)
        <5>1. post[r].next \in {"decision", "enqueue", "notify"}
          BY <4>2 DEF Gate!Answer, Gate!InsertDecision, Gate!EnqueuePublish,
             Gate!NotifyQuarantine
        <5>2. QED
          BY <5>1 DEF Gate!NoPost
      <4>3. QED
        BY <2>6, <4>1, <4>2
    <3>2. verdicts # <<>>
      BY <1>0, <3>1 DEF GateOpens, Undecided
    <3>3. AsReview!Answer(r) \/ AsReview!PostLost(r)
      BY <2>1, <2>2, <2>6, <3>2, DecidedIsReview
    <3>4. QED
      BY <3>3 DEF AsReview!Next
  <2>7. ASSUME NEW h \in Publisher, Publishing(h)
        PROVE  AsReview!Next
    <3>1. verdicts # <<>>
      BY <1>0, <2>7, PublishingSteps DEF Publishes, GateOpens, Undecided, NoJob
    <3>2. AsReview!Publish(h) \/ AsReview!ReclaimLive(h) \/ AsReview!Crash(h)
      BY <2>1, <2>2, <2>7, <3>1, DecidedIsReview DEF Publishing
    <3>3. QED
      BY <3>2 DEF AsReview!Next
  <2>8. QED
    BY <1>4, <2>4, <2>5, <2>6, <2>7 DEF Reviewing
<1>5. CASE UNCHANGED systemVars
  BY <1>5, StutterReview DEF systemVars, vars, analysis, gate
<1>6. QED
  BY <1>1, <1>2, <1>3, <1>4, <1>5 DEF SystemNext

\* Of Pipeline A the reviewers and the publisher see what Review says they do: a
\* quarantined run can come back, with exactly one new review artifact.  Every
\* property of Review is therefore one of the system.
THEOREM SystemIsReview == Timely /\ SystemSpec => ImplementsReview
<1>1. SystemInit => AsReview!Init
  BY DEF SystemInit, AsReview!Init, Gate!Event, AsReview!Event, Gate!NoPost, AsReview!NoPost,
     NoJob, AsReview!NoJob
<1>2. SysInv /\ [SystemNext]_systemVars => [AsReview!Next]_(AsReview!vars)
  BY NextIsReview
<1>3. QED
  BY <1>1, <1>2, SysInvAlways, PTL DEF SystemSpec, ImplementsReview, AsReview!Spec

=============================================================================
