------------------------------- MODULE System -------------------------------
(***************************************************************************)
(* One device run from its first manifest to its receipt: Ingest, Pipeline *)
(* A and the review gate over one runs row.  What each component modelled  *)
(* of its neighbours (Downstream, the hand-off, Reopen, Rereview and       *)
(* Resubmit) are here the steps of those neighbours.                       *)
(*                                                                         *)
(* Added is what crosses the components: the manifest an attempt at        *)
(* parsing has loaded, the directory it derives from it, and the manifests *)
(* and files a receipt cites.                                              *)
(***************************************************************************)
EXTENDS Ingest

CONSTANTS
  Segment,       \* sanitizeSeg of the names of samples and devices
  Worker,        \* Python workers
  Reviewer,
  Publisher      \* Go workers that can execute the publish job

ASSUME SystemConstantsOK ==
  IsFiniteSet(Worker) /\ IsFiniteSet(Reviewer) /\ IsFiniteSet(Publisher)

VARIABLES
  parseJob, results, failures, artifacts, reviews, processed, analyst, attempt,
  reclaimer,
  parseCrashes,  \* Pipeline A, see PipelineA
  looked,        \* analyst -> the manifest its attempt has loaded
  verdicts, decisions, receipts, announced, publish, shown, post, publisher, counted,
  reviewCrashes, \* the review gate and Pipeline B, see Review
  cited          \* receipt -> what its columns and its copied rows are from

analysis == <<parseJob, results, failures, artifacts, reviews, processed, analyst,
              attempt, reclaimer, parseCrashes, looked>>
gate == <<verdicts, decisions, receipts, announced, publish, shown, post, publisher,
          counted, reviewCrashes, cited>>
rest == <<job, disk, tables, pc, local>>
systemVars == <<vars, analysis, gate>>

\* Pipeline A and the review gate at work on this run, for which no session is
\* ever requested.
Analyst == INSTANCE PipelineA WITH
       Family <- {"fet_transfer"},
       family <- "fet_transfer", job <- parseJob, requested <- ~TRUE,
       files <- processed, notices <- 0, pc <- analyst, crashes <- parseCrashes

Gate == INSTANCE Review WITH
       MaxReviews <- MaxAttempts,
       versions <- Len(reviews), notices <- announced, pc <- publisher,
       seen <- counted, crashes <- reviewCrashes

Citation == [hash: Manifest, params: Manifest, files: SUBSET File,
             rows: Seq(Analyst!AnalysisRow)]

SystemInit ==
  /\ Init
  /\ parseJob = NoJob
  /\ results = <<>> /\ artifacts = <<>> /\ reviews = <<>>
  /\ failures = 0 /\ processed = {}
  /\ analyst = [w \in Worker |-> "idle"]
  /\ attempt = [w \in Worker |-> 0]
  /\ reclaimer = Analyst!NotReclaiming
  /\ parseCrashes = 0
  /\ looked = [w \in Worker |-> None]
  /\ verdicts = <<>> /\ decisions = <<>> /\ receipts = <<>>
  /\ announced = [e \in Gate!Event |-> 0]
  /\ publish = NoJob
  /\ shown = [r \in Reviewer |-> 0]
  /\ post = [r \in Reviewer |-> Gate!NoPost]
  /\ publisher = [h \in Publisher |-> "idle"]
  /\ counted = [h \in Publisher |-> 0]
  /\ reviewCrashes = 0
  /\ cited = <<>>

-----------------------------------------------------------------------------
(***************************************************************************)
(* Where the files are.                                                    *)
(***************************************************************************)

\* The runs row has the fields of the first manifest.
Row == Body[Head(manifests)]

\* rawRunDir, below raw/: from the runs row, made safe segment by segment.
PullDir ==
  LET segment(name) == IF name = "" THEN "_unknown" ELSE Segment[name]
  IN  <<segment(Row.sample), segment(Row.device)>>

\* Mutant: a device that only the runs row names is not looked for there.
ParseDirUnknown(m) ==
  LET Or(name, other) == IF name = "" THEN other ELSE name
  IN  <<Or(Body[m].sample, Or(Row.sample, Row.run)), Or(Body[m].device, "unknown")>>

\* handle_parse_run's raw_dir: from the latest manifest, else from the row.
ParseDir(m) ==
  LET Or(name, other) == IF name = "" THEN other ELSE name
  IN  <<Or(Body[m].sample, Or(Row.sample, Row.run)),
        Or(Body[m].device, Or(Row.device, "unknown"))>>

\* There is a file for _pick_primary_file, which picks one that m lists.
Readable(m) ==
  /\ ParseDir(m) = PullDir
  /\ \E file \in raw, declared \in ToSet(Body[m].files) : file.path = declared.name

\* Mutant: the files the latest manifest declares.
CiteLatest ==
  [hash |-> Head(manifests), params |-> Last(manifests),
   files |-> DeclaredFiles(Last(manifests)), rows |-> artifacts]

\* Mutant: no analysis is copied but the latest.
CiteLastAnalysis ==
  [hash |-> Head(manifests), params |-> Last(manifests), files |-> runFiles,
   rows |-> <<Last(artifacts)>>]

\* buildAndInsertReceipt: manifest_hash of the runs row, the parameter versions
\* of the latest manifest, the run_files rows, and a copy of every
\* analysis_artifacts row of the run.
Cite == [hash |-> Head(manifests), params |-> Last(manifests), files |-> runFiles,
         rows |-> artifacts]

-----------------------------------------------------------------------------
(***************************************************************************)
(* Steps.                                                                  *)
(***************************************************************************)

\* The hand-off enqueues the parse job under one key per run.
Ingesting ==
  /\ \/ \E m \in Manifest : Declare(m)
     \/ EnqueuePull
     \/ PostLost
     \/ \E h \in Handler : Claim(h) \/ Work(h) \/ Complete(h) \/ Fail(h) \/ Crash(h)
     \/ Reclaim
  /\ parseJob' = IF parse' THEN Enqueued(parseJob) ELSE parseJob
  /\ UNCHANGED <<results, failures, artifacts, reviews, processed, analyst, attempt,
                 reclaimer, parseCrashes, looked, gate>>

\* The run and its latest manifest are loaded before the first transition; the
\* analysis fails unless it finds its file.
Parsing(w) ==
  /\ Analyst!Step(w) \/ Analyst!GiveUpFails(w) \/ Analyst!Raise(w) \/ Analyst!Crash(w)
  /\ analyst[w] = "analyse" /\ analyst'[w] = "result" => Readable(looked[w])
  /\ looked' = [looked EXCEPT ![w] = IF analyst'[w] \in {"idle", "start"} THEN None
                                     ELSE IF @ = None THEN Last(manifests) ELSE @]
  /\ UNCHANGED <<rest, gate>>

Reparsing ==
  /\ Analyst!Reclaim \/ Analyst!ReclaimLost
  /\ UNCHANGED <<rest, looked, gate>>

Reviewing(r) ==
  /\ UNCHANGED <<rest, analysis, cited>>
  /\ \/ Gate!View(r)
     \/ \E kind \in Gate!Kind : Gate!Decide(r, kind)
     \/ Gate!Answer(r)
     \/ Gate!PostLost(r)

Publishing(h) ==
  /\ UNCHANGED <<rest, analysis>>
  /\ Gate!Publish(h) \/ Gate!ReclaimLive(h) \/ Gate!Crash(h)
  /\ cited' = IF receipts' = receipts THEN cited ELSE Append(cited, Cite)

\* MaxCrashes bounds the failures of all components together.
SystemNext ==
  /\ \/ Ingesting
     \/ \E w \in Worker : Parsing(w)
     \/ Reparsing
     \/ \E r \in Reviewer : Reviewing(r)
     \/ \E h \in Publisher : Publishing(h)
  /\ crashes' + ignored' + parseCrashes' + reviewCrashes' <= MaxCrashes

SystemSpec == SystemInit /\ [][SystemNext]_systemVars

-----------------------------------------------------------------------------
(***************************************************************************)
(* Properties.                                                             *)
(***************************************************************************)

\* Together the components do what each of them assumes of the others: the
\* system is an Ingest whose Downstream is Pipeline A and the review gate,
ImplementsIngest == Spec

\* a Pipeline A to which the pull job has handed a promoted run,
AsPipelineA == INSTANCE PipelineA WITH
       Family <- {"fet_transfer"},
       family <- "fet_transfer", requested <- ~TRUE,
       state <- IF parse THEN state ELSE "promoted",
       job <- IF parse THEN parseJob ELSE Enqueued(NoJob),
       files <- processed, notices <- 0, pc <- analyst, crashes <- parseCrashes

ImplementsPipelineA == AsPipelineA!Spec

\* and a review gate that sees of Pipeline A only what it submits.
AsReview == INSTANCE Review WITH
       MaxReviews <- MaxAttempts,
       state <- IF verdicts = <<>> THEN "awaiting_review"
                ELSE IF state \in {"validated", "processing", "parser_failed"} THEN "parsing"
                ELSE state,
       versions <- IF verdicts = <<>> THEN 1 ELSE Len(reviews),
       notices <- announced, pc <- publisher, seen <- counted,
       crashes <- reviewCrashes

ImplementsReview == AsReview!Spec

\* The variables the components do not have are well formed; a receipt has one
\* citation, and a manifest is loaded exactly while an attempt is past its start.
SystemTypeOK ==
  /\ parseJob \in JobRecord
  /\ parse <=> parseJob.state # "absent"
  /\ looked \in [Worker -> Manifest \cup {None}]
  /\ \A w \in Worker : looked[w] = None <=> analyst[w] \in {"idle", "start"}
  /\ cited \in Seq(Citation) /\ Len(cited) = Len(receipts)

\* Manifest m says nothing of the sample and the device that the runs row does
\* not say, and their names are safe as they are.
Consistent(m) ==
  /\ Body[m].sample \in {"", Row.sample} /\ Body[m].device \in {"", Row.device}
  /\ Segment[Row.sample] = Row.sample /\ Segment[Row.device] = Row.device

\* The pull job and the parse job derive the run's directory from different
\* manifests and fill gaps in different ways.  As long as the manifests do not
\* contradict each other the parser still looks where the bytes are, and if
\* there is only one manifest it finds a file of the run there.
AnalysesReadRaw ==
  \A w \in Worker :
    analyst[w] = "analyse" /\ Consistent(looked[w]) =>
      /\ ParseDir(looked[w]) = PullDir
      /\ raw # {}
      /\ Len(manifests) = 1 => Readable(looked[w])

\* Architecture 5, "Reproducibility receipt".  Whatever is posted, parsed,
\* decided and published again afterwards, a receipt stays true: it cites the
\* manifest the run was declared with, the parameters of one of its manifests
\* (not necessarily that one) and the files on record, which are the verified
\* files of a manifest.  Unless a process died or a statement was lost while the
\* run was pulled, they are in the raw store, and they are all that is there if
\* no error of the file system was ignored either.
ReceiptsAreTraceable ==
  \A i \in DOMAIN cited :
    /\ cited[i].hash = Head(manifests)
    /\ cited[i].params \in Recorded
    /\ cited[i].files = runFiles
    /\ \E m \in Recorded : cited[i].files = DeclaredFiles(m)
                           /\ cited[i].files = FilesIn(Body[m].archive)
    /\ crashes = 0 =>
         /\ cited[i].files \subseteq raw
         /\ ignored = 0 => cited[i].files = raw

\* However often the parse job and the publish job are retried, a published run
\* has a receipt, and no attempt writes to the processed tree or adds a row once
\* there is one: the tree has the files of the attempt whose review artifact was
\* approved, and the rows the receipt has copied are still all the rows.  They are
\* not only that attempt's: those of the earlier attempts, whose files are gone
\* and each of which has been submitted and quarantined, are copied too.
PublishedIsReviewed ==
  /\ state = "published" => receipts # <<>>
  /\ \A i \in DOMAIN receipts :
       /\ processed = {Last(reviews)} /\ Last(results) = Last(reviews)
       /\ Last(verdicts).version = Len(reviews)
       /\ cited[i].rows = artifacts
       /\ receipts[i].analyses = 1 .. Len(reviews)
       /\ Len(artifacts) = Len(reviews)
       /\ \A n \in DOMAIN reviews :
            /\ artifacts[n] = [attempt |-> reviews[n], files |-> {reviews[n]}]
            /\ n < Len(reviews) =>
                 \E j \in DOMAIN verdicts : /\ verdicts[j].version = n
                                           /\ verdicts[j].kind = "quarantine"
=============================================================================
