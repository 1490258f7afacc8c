-------------------------- MODULE PipelineAProofs ---------------------------
(***************************************************************************)
(* Theorems about PipelineA, for any number of workers, attempts and       *)
(* crashes, whether handlers keep their locks or not.                      *)
(***************************************************************************)
EXTENDS PipelineA, FiniteSetTheorems, SequenceTheorems, TLAPS

Families == {"fet_transfer", "notebook", "session"}

\* The scripts as tables: what comes after each position.
Successor ==
  [fet_transfer |->
     [analyse |-> "result", result |-> "artifact", artifact |-> "review",
      review |-> "validate", validate |-> "process", process |-> "submit",
      submit |-> "done"],
   notebook |->
     [start |-> "result", result |-> "validate", validate |-> "done"],
   session |->
     [analyse |-> "artifact", artifact |-> "review", review |-> "result",
      result |-> "validate", validate |-> "process", process |-> "submit",
      submit |-> "notice", notice |-> "done"]]

LEMMA Scripts ==
  /\ Script["fet_transfer"]
       = <<"result", "artifact", "review", "validate", "process", "submit">>
  /\ Script["notebook"] = <<"result", "validate">>
  /\ Script["session"]
       = <<"artifact", "review", "result", "validate", "process", "submit", "notice">>
  /\ ToSet(Script["fet_transfer"])
       = {"result", "artifact", "review", "validate", "process", "submit"}
  /\ ToSet(Script["notebook"]) = {"result", "validate"}
  /\ ToSet(Script["session"])
       = {"artifact", "review", "result", "validate", "process", "submit", "notice"}
BY DEF Script, ToSet

LEMMA ScriptSteps ==
  ASSUME NEW f \in Families, family = f, NEW position \in DOMAIN Successor[f]
  PROVE  Following(position) = Successor[f][position]
<1>1. CASE f = "fet_transfer"
  <2> DEFINE s == <<"result", "artifact", "review", "validate", "process", "submit">>
  <2>1. \A i \in 1 .. 6 : (CHOOSE j \in DOMAIN s : s[j] = s[i]) = i
    OBVIOUS
  <2>2. QED
    BY <1>1, <2>1, Scripts DEF Following, Successor
<1>2. CASE f = "notebook"
  <2> DEFINE s == <<"result", "validate">>
  <2>1. \A i \in 1 .. 2 : (CHOOSE j \in DOMAIN s : s[j] = s[i]) = i
    OBVIOUS
  <2>2. QED
    BY <1>2, <2>1, Scripts DEF Following, Successor
<1>3. CASE f = "session"
  <2> DEFINE s == <<"artifact", "review", "result", "validate", "process", "submit",
                    "notice">>
  <2>1. \A i \in 1 .. 7 : (CHOOSE j \in DOMAIN s : s[j] = s[i]) = i
    OBVIOUS
  <2>2. \A i \in 1 .. 7 : Following(s[i]) = IF i < 7 THEN s[i + 1] ELSE "done"
    BY <1>3, <2>1, Scripts DEF Following
  <2>3. Following("analyse") = "artifact"
    BY <1>3, Scripts DEF Following
  <2>4. QED
    BY <1>3, <2>2, <2>3 DEF Successor
<1>4. QED
  BY <1>1, <1>2, <1>3 DEF Families

LEMMA Positions ==
  Position = {"idle", "start", "analyse", "report", "giveup", "result", "artifact",
              "review", "validate", "process", "submit", "notice", "done", "failed",
              "failing"}
<1>1. DOMAIN Script = Families
  BY DEF Script, Families
<1>2. UNION {ToSet(Script[f]) : f \in DOMAIN Script}
        = {"result", "artifact", "review", "validate", "process", "submit", "notice"}
  <2>1. UNION {ToSet(Script[f]) : f \in DOMAIN Script}
          = ToSet(Script["fet_transfer"]) \cup ToSet(Script["notebook"])
              \cup ToSet(Script["session"])
    BY <1>1 DEF Families
  <2> HIDE DEF Script
  <2>2. QED
    BY <2>1, Scripts
<1> DEFINE S == UNION {ToSet(Script[f]) : f \in DOMAIN Script}
<1>3. Position = S \cup {"idle", "start", "analyse", "report", "giveup", "done", "failed",
                         "failing"}
  BY DEF Position
<1> HIDE DEF S
<1>4. S = {"result", "artifact", "review", "validate", "process", "submit", "notice"}
  BY <1>2 DEF S
<1>5. QED
  BY <1>3, <1>4

\* Positions at which a run is parsing, and those of the moves after that.
Parsing == {"analyse", "report", "giveup", "result", "artifact", "review", "validate"}
Analysis == Parsing \cup {"process", "submit"}

-----------------------------------------------------------------------------
(***************************************************************************)
(* The job.  However often it is started (JobQueue bounds that), it exists *)
(* from its first attempt on.                                              *)
(***************************************************************************)

JobInv ==
  /\ job \in JobRecord
  /\ job.state = "absent" => job = NoJob

\* The values that no step changes the kind of, and what each worker is at.
Typed ==
  /\ family \in Family
  /\ state \in RunState \cup {"undeclared"}
  /\ requested \in BOOLEAN
  /\ results \in Seq(Attempts) /\ artifacts \in Seq(AnalysisRow) /\ reviews \in Seq(Attempts)
  /\ files \subseteq Attempts
  /\ failures \in Nat /\ notices \in Nat
  /\ pc \in [Worker -> Position]
  /\ attempt \in [Worker -> Nat]
  /\ \A w \in Worker : pc[w] \notin {"idle", "failing"} => attempt[w] # 0
  /\ reclaimer \in [pc: {"idle", "stale", "releasing"}, seen: Nat]
  /\ crashes \in 0 .. MaxCrashes

\* A position is one of its family's script.
InScript(w) ==
  /\ pc[w] \in {"analyse", "report"} => family # "notebook"
  /\ pc[w] \in {"artifact", "review", "process", "submit"} => family # "notebook"
  /\ pc[w] = "notice" => family = "session"

Wrote(w, log) == log # <<>> /\ Last(log) = attempt[w]

Listed(w) ==
  artifacts # <<>> /\ Last(artifacts) = [attempt |-> attempt[w], files |-> files]

\* What the worker's attempt has left behind on the way to its position.
InPlace(w) ==
  family # "notebook" =>
    /\ pc[w] \in {"result", "artifact", "review", "validate", "process", "submit"} =>
         attempt[w] \in files /\ (family = "fet_transfer" => files = {attempt[w]})
    /\ pc[w] \in {"validate", "process", "submit"} =>
         Wrote(w, results) /\ Listed(w) /\ Wrote(w, reviews)
    /\ pc[w] \in {"artifact", "review"} /\ family = "fet_transfer" => Wrote(w, results)
    /\ pc[w] = "review" => Listed(w)
    /\ pc[w] = "result" /\ family = "session" => Listed(w) /\ Wrote(w, reviews)

\* While a worker is in its analysis, the run is in the state it has moved it to.
StateInv(w) ==
  /\ pc[w] \in Parsing => state = "parsing"
  /\ pc[w] = "process" => state = "validated"
  /\ pc[w] = "submit" => state = "processing"

Alone == \A v, w \in Worker : pc[v] \in Analysis /\ pc[w] \in Analysis => v = w

Inv ==
  /\ Typed
  /\ JobInv
  /\ \A w \in Worker : InScript(w) /\ InPlace(w) /\ StateInv(w)
  /\ Alone
  /\ ReviewIsComplete

-----------------------------------------------------------------------------
LEMMA JobSteps ==
  ASSUME JobInv
  PROVE  /\ job' = Enqueued(job) => JobInv'
         /\ job' = Succeeded(job) => JobInv'
         /\ \A seen \in Nat : job' = Returned(job, seen, MaxAttempts) => JobInv'
         /\ job' = Started(job) => JobInv'
         /\ job.attempts \in Nat /\ job.attempts + 1 \in Attempts
<1>1. job' = Enqueued(job) => JobInv'
  BY DEF JobInv, JobRecord, NoJob, Enqueued
<1>2. job' = Succeeded(job) => JobInv'
  BY DEF JobInv, JobRecord, NoJob, Succeeded
<1>3. ASSUME NEW seen \in Nat, job' = Returned(job, seen, MaxAttempts) PROVE JobInv'
  BY <1>3 DEF JobInv, JobRecord, NoJob, Returned
<1>4. job' = Started(job) => JobInv'
  BY DEF JobInv, JobRecord, NoJob, Started
<1>5. job.attempts \in Nat /\ job.attempts + 1 \in Attempts
  BY DEF JobInv, JobRecord, Attempts
<1>6. QED
  BY <1>1, <1>2, <1>3, <1>4, <1>5

\* Parsing begins only in these states; no decision of a reviewer but a
\* quarantine is among them.
LEMMA ParsingBegins ==
  CanTransition(state, "parsing") =>
    state \in {"promoted", "needs_metadata", "parser_failed", "quarantined"}
BY SMTT(60) DEF CanTransition, Allowed, RunState

LEMMA AnalysisStates ==
  ASSUME Inv, NEW w \in Worker, pc[w] \in Analysis
  PROVE  state \in {"parsing", "validated", "processing"}
BY DEF Inv, StateInv, Analysis

-----------------------------------------------------------------------------
(***************************************************************************)
(* One worker's step, as the others see it.                                *)
(***************************************************************************)

WorkersInv == (\A w \in Worker : InScript(w) /\ InPlace(w) /\ StateInv(w)) /\ Alone

\* It may change the run and its rows only during its analysis, or when it begins
\* one, which it cannot while another worker is in its own.
LEMMA OthersKeep ==
  ASSUME Inv, NEW v \in Worker, NEW position \in Position,
         pc' = [pc EXCEPT ![v] = position], UNCHANGED family,
         \A w \in Worker \ {v} : attempt'[w] = attempt[w],
         \/ pc[v] \in Analysis
         \/ UNCHANGED <<state, results, artifacts, reviews, files>> /\ position \notin Analysis
         \/ /\ CanTransition(state, "parsing")
            /\ UNCHANGED <<results, artifacts, reviews, files>>,
         InScript(v)', InPlace(v)', StateInv(v)'
  PROVE  WorkersInv'
<1>1. \A w \in Worker : pc[w] \in Analysis =>
        /\ state \in {"parsing", "validated", "processing"}
        /\ ~CanTransition(state, "parsing")
  BY AnalysisStates, ParsingBegins
<1>2. pc \in [Worker -> Position] /\ pc'[v] = position
  BY DEF Inv, Typed
<1>3. ASSUME NEW w \in Worker, w # v
      PROVE  /\ pc'[w] = pc[w] /\ attempt'[w] = attempt[w]
             /\ pc[w] \in Analysis =>
                  /\ UNCHANGED <<state, results, artifacts, reviews, files>>
                  /\ position \notin Analysis
             /\ InScript(w)' /\ InPlace(w)' /\ StateInv(w)'
  <2>1. pc'[w] = pc[w] /\ attempt'[w] = attempt[w]
    BY <1>2, <1>3
  <2>2. pc[w] \in Analysis =>
          /\ UNCHANGED <<state, results, artifacts, reviews, files>>
          /\ position \notin Analysis
    BY <1>1, <1>3 DEF Inv, Alone
  <2>3. InScript(w) /\ InPlace(w) /\ StateInv(w)
    BY DEF Inv
  <2>4. InScript(w)' /\ StateInv(w)'
    BY <2>1, <2>2, <2>3 DEF InScript, StateInv, Analysis, Parsing
  <2>5. InPlace(w)'
    BY <2>1, <2>2, <2>3 DEF InPlace, Wrote, Listed, Analysis, Parsing
  <2>6. QED
    BY <2>1, <2>2, <2>4, <2>5
<1>4. Alone'
  BY <1>2, <1>3 DEF Inv, Alone
<1>5. QED
  BY <1>3, <1>4 DEF WorkersInv

\* A worker that is not in its analysis has nothing to keep.
LEMMA NothingToKeep ==
  ASSUME NEW v \in Worker,
         \/ pc[v] \in {"idle", "start", "done", "failed", "failing"}
         \/ pc[v] = "giveup" /\ state = "parsing"
         \/ pc[v] = "report" /\ state = "parsing" /\ family # "notebook"
         \/ pc[v] = "analyse" /\ state = "parsing" /\ family # "notebook"
         \/ pc[v] = "notice" /\ family = "session"
  PROVE  InScript(v) /\ InPlace(v) /\ StateInv(v)
BY DEF InScript, InPlace, StateInv, Parsing

\* Rows and files change only while the run is being parsed, and a run is only
\* submitted by a worker that has everything in place.
LEMMA ReviewKeeps ==
  ASSUME Inv, UNCHANGED family,
         \/ UNCHANGED <<state, results, artifacts, reviews, files>>
         \/ state' \notin Reviewable
         \/ state \in Reviewable /\ UNCHANGED <<results, artifacts, reviews, files>>
         \/ /\ UNCHANGED <<results, artifacts, reviews, files>>
            /\ \E w \in Worker : pc[w] = "submit"
  PROVE  ReviewIsComplete'
<1>1. ASSUME NEW w \in Worker, pc[w] = "submit",
             UNCHANGED <<results, artifacts, reviews, files>>
      PROVE  ReviewIsComplete'
  BY <1>1 DEF Inv, InScript, InPlace, Wrote, Listed, ReviewIsComplete
<1>2. QED
  BY <1>1 DEF Inv, ReviewIsComplete

LEMMA FamilyFact == Inv => family \in Families
BY PipelineAConstantsOK DEF Inv, Typed, Families

LEMMA Appended ==
  ASSUME NEW S, NEW log \in Seq(S), NEW e \in S
  PROVE  Append(log, e) \in Seq(S) /\ Append(log, e) # <<>> /\ Last(Append(log, e)) = e
BY AppendProperties DEF Last

-----------------------------------------------------------------------------
(***************************************************************************)
(* Every step keeps the invariant.                                         *)
(***************************************************************************)

\* The steps that no worker makes leave what the workers rely on as it is, or
\* find the run in a state in which none is at its analysis.
LEMMA EnvironmentKeeps ==
  ASSUME Inv, \/ EnsureSessionRun \/ EnqueueSession \/ RequestLost
              \/ Reclaim \/ ReclaimLost \/ Downstream
  PROVE  Inv'
<1> USE DEF Reclaim
<1>1. UNCHANGED <<family, pc, attempt, results, artifacts, reviews, files>>
  BY DEF EnsureSessionRun, EnqueueSession, RequestLost, ReclaimScan, ReclaimLoad, ReclaimWrite,
         ReclaimLost, Downstream, records, request
<1>2. /\ state' \in RunState \cup {"undeclared"}
      /\ \/ UNCHANGED state
         \/ state \in {"undeclared", "awaiting_review", "approved", "publishing"}
      /\ state \in Reviewable \/ UNCHANGED state \/ state' \notin Reviewable
  BY DEF EnsureSessionRun, EnqueueSession, RequestLost, ReclaimScan, ReclaimLoad, ReclaimWrite,
         ReclaimLost, Downstream, Driven, RunState, Reviewable, Inv, Typed
<1>3. Typed'
  <2>1. UNCHANGED <<failures, notices>> /\ requested' \in BOOLEAN
    BY DEF EnsureSessionRun, EnqueueSession, RequestLost, ReclaimScan, ReclaimLoad, ReclaimWrite,
           ReclaimLost, Downstream, records, request, Inv, Typed
  <2>2. crashes' \in 0 .. MaxCrashes
    BY PipelineAConstantsOK
    DEF EnsureSessionRun, EnqueueSession, RequestLost, ReclaimScan, ReclaimLoad, ReclaimWrite,
        ReclaimLost, Downstream, Inv, Typed
  <2>3. reclaimer' \in [pc: {"idle", "stale", "releasing"}, seen: Nat]
    BY JobSteps
    DEF EnsureSessionRun, EnqueueSession, RequestLost, ReclaimScan, ReclaimLoad, ReclaimWrite,
        ReclaimLost, Downstream, NotReclaiming, Inv, Typed
  <2>4. QED
    BY <1>1, <1>2, <2>1, <2>2, <2>3 DEF Inv, Typed
<1>4. JobInv'
  <2>1. JobInv
    BY DEF Inv
  <2>2. CASE EnqueueSession
    BY <2>1, <2>2, JobSteps DEF EnqueueSession
  <2>3. CASE ReclaimWrite
    BY <2>1, <2>3, JobSteps DEF ReclaimWrite, Inv, Typed
  <2>4. CASE UNCHANGED job
    BY <2>1, <2>4 DEF JobInv
  <2>5. QED
    BY <2>2, <2>3, <2>4
    DEF EnsureSessionRun, RequestLost, ReclaimScan, ReclaimLoad, ReclaimLost, Downstream
<1>5. WorkersInv'
  BY <1>1, <1>2, AnalysisStates
  DEF Inv, WorkersInv, InScript, InPlace, Wrote, Listed, StateInv, Alone, Analysis, Parsing
<1>6. ReviewIsComplete'
  BY <1>1, <1>2, ReviewKeeps
<1>7. QED
  BY <1>3, <1>4, <1>5, <1>6 DEF Inv, WorkersInv

\* Between a handler and its queue.
LEMMA JobStepsKeep ==
  ASSUME Inv, NEW w \in Worker,
         Claim(w) \/ Complete(w) \/ LoadCounts(w) \/ FailWrite(w) \/ Crash(w)
  PROVE  Inv'
<1> DEFINE position == IF Claim(w) THEN "start" ELSE IF LoadCounts(w) THEN "failing"
                       ELSE "idle"
<1>1. /\ UNCHANGED <<family, state, requested, results, failures, artifacts, reviews, files,
                      notices, reclaimer>>
      /\ pc' = [pc EXCEPT ![w] = position]
  BY DEF Claim, Complete, LoadCounts, FailWrite, Crash, Leave, Goto, request, records
<1>2. position \in {"start", "failing", "idle"} /\ position \in Position
  BY Positions
<1>3. /\ JobInv'
      /\ job.attempts \in Nat /\ job.attempts + 1 \in Attempts
  BY JobSteps DEF Inv, Typed, Claim, Complete, LoadCounts, FailWrite, Crash, JobInv
<1>4. /\ attempt' \in [Worker -> Nat]
      /\ \A v \in Worker \ {w} : attempt'[v] = attempt[v]
      /\ position = "start" => attempt'[w] # 0
  <2>1. attempt \in [Worker -> Nat]
    BY DEF Inv, Typed
  <2>2. CASE Claim(w)
    BY <1>3, <2>1, <2>2 DEF Claim, Attempts
  <2>3. CASE LoadCounts(w) /\ ~Claim(w)
    BY <1>3, <2>1, <2>3 DEF LoadCounts
  <2>4. CASE (Complete(w) \/ FailWrite(w) \/ Crash(w)) /\ ~Claim(w)
    BY <2>1, <2>4 DEF Complete, FailWrite, Crash, Leave
  <2>5. QED
    BY <2>2, <2>3, <2>4
<1>5. Typed'
  <2>1. crashes' \in 0 .. MaxCrashes
    BY PipelineAConstantsOK DEF Inv, Typed, Claim, Complete, LoadCounts, FailWrite, Crash, Leave
  <2>2. QED
    BY <1>1, <1>2, <1>4, <2>1 DEF Inv, Typed
<1>6. WorkersInv'
  <2>1. pc'[w] \in {"start", "failing", "idle"}
    BY <1>1, <1>2 DEF Inv, Typed
  <2>2. InScript(w)' /\ InPlace(w)' /\ StateInv(w)'
    BY <2>1 DEF InScript, InPlace, StateInv, Parsing
  <2>3. QED
    BY <1>1, <1>2, <1>4, <2>2, OthersKeep DEF Analysis, Parsing
<1>7. ReviewIsComplete'
  BY <1>1, ReviewKeeps
<1>8. QED
  BY <1>3, <1>5, <1>6, <1>7 DEF Inv, WorkersInv

\* A step of a handler to a position, with what it has to establish there.
LEMMA HandlerKeeps ==
  ASSUME Inv, NEW w \in Worker, pc[w] \notin {"idle", "failing"},
         NEW position \in Position, pc' = [pc EXCEPT ![w] = position],
         UNCHANGED <<family, requested, job, attempt, reclaimer>>,
         state' \in RunState \cup {"undeclared"},
         results' \in Seq(Attempts), artifacts' \in Seq(AnalysisRow),
         reviews' \in Seq(Attempts), files' \in SUBSET Attempts,
         failures' \in Nat, notices' \in Nat, crashes' \in 0 .. MaxCrashes,
         \/ pc[w] \in Analysis
         \/ UNCHANGED <<state, results, artifacts, reviews, files>> /\ position \notin Analysis
         \/ /\ CanTransition(state, "parsing")
            /\ UNCHANGED <<results, artifacts, reviews, files>>,
         InScript(w)', InPlace(w)', StateInv(w)',
         ReviewIsComplete'
  PROVE  Inv'
<1>1. JobInv'
  BY DEF Inv, JobInv
<1>2. WorkersInv'
  BY OthersKeep
<1>3. Typed'
  BY DEF Inv, Typed
<1>4. QED
  BY <1>1, <1>2, <1>3 DEF Inv, WorkersInv

LEMMA StartKeeps ==
  ASSUME Inv, NEW w \in Worker, Start(w)
  PROVE  Inv'
<1> DEFINE position == IF ~CanTransition(state, "parsing") THEN "failed"
                       ELSE IF family = "notebook" THEN "result" ELSE "analyse"
<1>1. position \in Position
  BY Positions
<1>2. family = "notebook" => Following("start") = "result"
  BY FamilyFact, ScriptSteps DEF Successor
<1>3. /\ pc' = [pc EXCEPT ![w] = position]
      /\ UNCHANGED <<family, requested, job, attempt, reclaimer, crashes, records>>
      /\ pc[w] = "start"
      /\ CanTransition(state, "parsing") => state' = "parsing"
      /\ ~CanTransition(state, "parsing") => UNCHANGED state
  BY <1>2 DEF Start, Goto, Proceed, request
<1>4. pc'[w] = position
  BY <1>3 DEF Inv, Typed
<1>5. state' \in RunState \cup {"undeclared"}
  BY <1>3 DEF Inv, Typed, RunState
<1>6. InScript(w)' /\ InPlace(w)' /\ StateInv(w)'
  BY <1>3, <1>4 DEF InScript, InPlace, StateInv, Parsing
<1>7. ReviewIsComplete'
  BY <1>3, ReviewKeeps DEF records, Reviewable
<1>8. QED
  BY <1>1, <1>3, <1>5, <1>6, <1>7, HandlerKeeps DEF Inv, Typed, records, Analysis, Parsing

\* An analysis adds files of its own and, of a device run, leaves no others.
LEMMA PlottedFact ==
  ASSUME Inv, NEW w \in Worker, attempt[w] \in Attempts, NEW plotted \in Plotted(w)
  PROVE  /\ plotted \in SUBSET Attempts /\ attempt[w] \in plotted
         /\ family = "fet_transfer" => plotted = {attempt[w]}
BY DEF Plotted, Inv, Typed

LEMMA AnalyseKeeps ==
  ASSUME Inv, NEW w \in Worker, Analyse(w) \/ AnalyseFails(w)
  PROVE  Inv'
<1> DEFINE position == pc'[w]
<1>1. /\ pc[w] = "analyse" /\ state = "parsing" /\ family \in {"fet_transfer", "session"}
      /\ attempt[w] \in Attempts
  BY FamilyFact
  DEF Analyse, AnalyseFails, Inv, InScript, StateInv, Parsing, Families, Typed, Attempts
<1>2. Following("analyse") = IF family = "session" THEN "artifact" ELSE "result"
  BY <1>1, ScriptSteps DEF Successor, Families
<1>3. /\ pc' = [pc EXCEPT ![w] = position]
      /\ position \in {"report", "giveup", "artifact", "result"}
      /\ position = "artifact" => family = "session"
      /\ position = "result" => family # "session"
      /\ position = "report" => family # "session"
      /\ position \in {"artifact", "result"} =>
           attempt[w] \in files' /\ (family = "fet_transfer" => files' = {attempt[w]})
      /\ files' \in SUBSET Attempts
      /\ UNCHANGED <<family, state, requested, job, attempt, reclaimer, crashes, results,
                     failures, artifacts, reviews, notices>>
  BY <1>1, <1>2, PlottedFact DEF Analyse, AnalyseFails, Goto, Proceed, request, Inv, Typed
<1>4. InScript(w)' /\ InPlace(w)' /\ StateInv(w)'
  BY <1>1, <1>3 DEF InScript, InPlace, StateInv, Parsing
<1>5. ReviewIsComplete'
  BY <1>1, <1>3, ReviewKeeps DEF Reviewable
<1>6. position \in Position
  BY <1>3, Positions
<1> HIDE DEF position
<1>7. QED
  BY <1>1, <1>3, <1>4, <1>5, <1>6, HandlerKeeps DEF Inv, Typed, Analysis, Parsing

\* The handler's way out of a failed analysis.
LEMMA GivingUpKeeps ==
  ASSUME Inv, NEW w \in Worker, ReportFailure(w) \/ GiveUp(w) \/ GiveUpFails(w)
  PROVE  Inv'
<1> DEFINE position == pc'[w]
<1>1. pc[w] \in {"report", "giveup"} /\ state = "parsing"
  BY DEF ReportFailure, GiveUp, GiveUpFails, Inv, StateInv, Parsing
<1>2. /\ pc' = [pc EXCEPT ![w] = position]
      /\ position \in {"giveup", "done", "failed"}
      /\ UNCHANGED <<family, requested, job, attempt, reclaimer, results, artifacts, reviews,
                     files, notices>>
      /\ state' \in {"parsing", "parser_failed"}
      /\ position = "giveup" => UNCHANGED state
  BY <1>1 DEF ReportFailure, GiveUp, GiveUpFails, Goto, request, records, Inv, Typed
<1>3. failures' \in Nat /\ crashes' \in 0 .. MaxCrashes
  BY PipelineAConstantsOK DEF ReportFailure, GiveUp, GiveUpFails, records, Inv, Typed
<1>4. InScript(w)' /\ InPlace(w)' /\ StateInv(w)'
  BY <1>1, <1>2 DEF InScript, InPlace, StateInv, Parsing
<1>5. ReviewIsComplete'
  BY <1>2, ReviewKeeps DEF Reviewable
<1>6. position \in Position /\ state' \in RunState
  BY <1>2, Positions DEF RunState
<1> HIDE DEF position
<1>7. QED
  BY <1>1, <1>2, <1>3, <1>4, <1>5, <1>6, HandlerKeeps DEF Inv, Typed, Analysis, Parsing

\* A row is added to one of the three tables.
LEMMA InsertKeeps ==
  ASSUME Inv, NEW w \in Worker, InsertResult(w) \/ InsertArtifact(w) \/ InsertReview(w)
  PROVE  Inv'
<1> DEFINE position == pc'[w]
<1>1. /\ pc[w] \in {"result", "artifact", "review"} /\ state = "parsing"
      /\ family \in Families
      /\ pc[w] \in {"artifact", "review"} => family # "notebook"
      /\ attempt[w] \in Attempts
      /\ InPlace(w)
      /\ results \in Seq(Attempts) /\ artifacts \in Seq(AnalysisRow)
      /\ reviews \in Seq(Attempts)
      /\ [attempt |-> attempt[w], files |-> files] \in AnalysisRow
  BY FamilyFact
  DEF InsertResult, InsertArtifact, InsertReview, Inv, StateInv, Parsing, InScript, Typed,
      Attempts, AnalysisRow
<1>2. Following(pc[w]) = Successor[family][pc[w]]
  BY <1>1, ScriptSteps DEF Successor, Families
<1>3. /\ pc' = [pc EXCEPT ![w] = Successor[family][pc[w]]]
      /\ position = Successor[family][pc[w]]
  BY <1>2 DEF InsertResult, InsertArtifact, InsertReview, Goto, Proceed, Inv, Typed
<1>4. /\ pc[w] = "result" =>
           /\ results' = Append(results, attempt[w])
           /\ UNCHANGED <<artifacts, reviews>>
      /\ pc[w] = "artifact" =>
           /\ artifacts' = Append(artifacts, [attempt |-> attempt[w], files |-> files])
           /\ UNCHANGED <<results, reviews>>
      /\ pc[w] = "review" =>
           /\ reviews' = Append(reviews, attempt[w])
           /\ UNCHANGED <<results, artifacts>>
      /\ UNCHANGED <<family, state, requested, job, attempt, reclaimer, crashes, failures,
                     files, notices>>
  BY DEF InsertResult, InsertArtifact, InsertReview, request
<1>5. /\ results' \in Seq(Attempts) /\ artifacts' \in Seq(AnalysisRow)
      /\ reviews' \in Seq(Attempts)
      /\ pc[w] = "result" => Wrote(w, results)'
      /\ pc[w] = "artifact" => Listed(w)'
      /\ pc[w] = "review" => Wrote(w, reviews)'
  <2>1. CASE pc[w] = "result"
    <3>0. /\ Append(results, attempt[w]) \in Seq(Attempts)
          /\ Append(results, attempt[w]) # <<>>
          /\ Last(Append(results, attempt[w])) = attempt[w]
      BY <1>1, Appended
    <3>1. /\ results' \in Seq(Attempts) /\ results' # <<>>
          /\ Last(results') = attempt[w]
      BY <1>4, <2>1, <3>0
    <3>2. QED
      BY <1>1, <1>4, <2>1, <3>1 DEF Wrote
  <2>2. CASE pc[w] = "artifact"
    <3> DEFINE row == [attempt |-> attempt[w], files |-> files]
    <3>0. /\ Append(artifacts, row) \in Seq(AnalysisRow)
          /\ Append(artifacts, row) # <<>>
          /\ Last(Append(artifacts, row)) = row
      <4>1. artifacts \in Seq(AnalysisRow) /\ row \in AnalysisRow
        BY <1>1
      <4> HIDE DEF row
      <4>2. QED
        BY <4>1, Appended
    <3>1. /\ artifacts' \in Seq(AnalysisRow) /\ artifacts' # <<>>
          /\ Last(artifacts') = row
      BY <1>4, <2>2, <3>0
    <3>2. QED
      BY <1>1, <1>4, <2>2, <3>1 DEF Listed
  <2>3. CASE pc[w] = "review"
    <3>0. /\ Append(reviews, attempt[w]) \in Seq(Attempts)
          /\ Append(reviews, attempt[w]) # <<>>
          /\ Last(Append(reviews, attempt[w])) = attempt[w]
      BY <1>1, Appended
    <3>1. /\ reviews' \in Seq(Attempts) /\ reviews' # <<>>
          /\ Last(reviews') = attempt[w]
      BY <1>4, <2>3, <3>0
    <3>2. QED
      BY <1>1, <1>4, <2>3, <3>1 DEF Wrote
  <2>4. QED
    BY <1>1, <2>1, <2>2, <2>3
<1>6. /\ position \in {"result", "artifact", "review", "validate"}
      /\ position \in {"artifact", "review"} => family # "notebook"
  BY <1>1, <1>3 DEF Successor, Families
<1>7. InPlace(w)'
  <2>1. CASE family = "fet_transfer"
    BY <1>1, <1>3, <1>4, <1>5, <2>1 DEF InPlace, Wrote, Listed, Successor
  <2>2. CASE family = "session"
    BY <1>1, <1>3, <1>4, <1>5, <2>2 DEF InPlace, Wrote, Listed, Successor
  <2>3. CASE family = "notebook"
    BY <1>4, <2>3 DEF InPlace
  <2>4. QED
    BY <1>1, <2>1, <2>2, <2>3 DEF Families
<1>8. InScript(w)' /\ StateInv(w)'
  BY <1>1, <1>4, <1>6 DEF InScript, StateInv, Parsing
<1>9. ReviewIsComplete'
  BY <1>1, <1>4, ReviewKeeps DEF Reviewable
<1>10. position \in Position
  BY <1>6, Positions
<1>11. pc' = [pc EXCEPT ![w] = position]
  BY <1>3
<1> HIDE DEF position
<1>12. QED
  BY <1>1, <1>4, <1>5, <1>7, <1>8, <1>9, <1>10, <1>11, HandlerKeeps
  DEF Inv, Typed, Analysis, Parsing

\* The transitions find the state they expect.
LEMMA MoveKeeps ==
  ASSUME Inv, NEW w \in Worker, Move(w)
  PROVE  Inv'
<1> DEFINE position == pc'[w]
<1>1. /\ pc[w] \in {"validate", "process", "submit"}
      /\ family \in Families
      /\ pc[w] \in {"process", "submit"} => family # "notebook"
      /\ InPlace(w)
  BY FamilyFact DEF Move, Inv, InScript
<1>2. /\ pc[w] = "validate" => state = "parsing"
      /\ pc[w] = "process" => state = "validated"
      /\ pc[w] = "submit" => state = "processing"
  BY DEF Inv, StateInv, Parsing
<1>3. Following(pc[w]) = Successor[family][pc[w]]
  BY <1>1, ScriptSteps DEF Successor, Families
<1>4. /\ CanTransition("parsing", "validated")
      /\ CanTransition("validated", "processing")
      /\ CanTransition("processing", "awaiting_review")
  BY SMTT(60) DEF CanTransition, Allowed, RunState
<1>5. /\ pc' = [pc EXCEPT ![w] = Successor[family][pc[w]]]
      /\ pc[w] = "validate" => state' = "validated"
      /\ pc[w] = "process" => state' = "processing"
      /\ pc[w] = "submit" => state' = "awaiting_review"
      /\ UNCHANGED <<family, requested, job, attempt, reclaimer, crashes, results, failures,
                     artifacts, reviews, files, notices>>
  BY <1>1, <1>2, <1>3, <1>4 DEF Move, Transition, Proceed, Goto, request, records
<1>6. position = Successor[family][pc[w]]
  BY <1>5 DEF Inv, Typed
<1>7. /\ position \in {"process", "submit", "notice", "done"}
      /\ position = "process" => pc[w] = "validate" /\ family # "notebook"
      /\ position = "submit" => pc[w] = "process"
      /\ position = "notice" => pc[w] = "submit" /\ family = "session"
  BY <1>1, <1>6 DEF Successor, Families
<1>8. InScript(w)' /\ StateInv(w)'
  BY <1>1, <1>5, <1>7 DEF InScript, StateInv, Parsing
<1>9. InPlace(w)'
  BY <1>1, <1>5, <1>7 DEF InPlace, Wrote, Listed
<1>10. ReviewIsComplete'
  BY <1>1, <1>5, ReviewKeeps DEF Reviewable
<1>11. position \in Position /\ state' \in RunState
  BY <1>1, <1>5, <1>7, Positions DEF RunState
<1>12. pc' = [pc EXCEPT ![w] = position]
  BY <1>5, <1>6
<1> HIDE DEF position
<1>13. QED
  BY <1>1, <1>5, <1>8, <1>9, <1>10, <1>11, <1>12, HandlerKeeps DEF Inv, Typed, Analysis, Parsing

LEMMA NotifyKeeps ==
  ASSUME Inv, NEW w \in Worker, Notify(w)
  PROVE  Inv'
<1>1. pc[w] = "notice" /\ family = "session"
  BY DEF Notify, Inv, InScript
<1>2. Following("notice") = "done"
  BY <1>1, ScriptSteps DEF Successor, Families
<1>3. /\ pc' = [pc EXCEPT ![w] = "done"]
      /\ UNCHANGED <<family, state, requested, job, attempt, reclaimer, crashes, results,
                     failures, artifacts, reviews, files>>
      /\ notices' \in Nat
  <2>1. notices' \in Nat
    BY DEF Notify, Inv, Typed
  <2>2. QED
    BY <1>1, <1>2, <2>1 DEF Notify, Goto, Proceed, request
<1>4. pc'[w] = "done"
  BY <1>3 DEF Inv, Typed
<1>5. InScript(w)' /\ InPlace(w)' /\ StateInv(w)'
  BY <1>4 DEF InScript, InPlace, StateInv, Parsing
<1>6. ReviewIsComplete'
  BY <1>3, ReviewKeeps
<1>7. QED
  BY <1>1, <1>3, <1>5, <1>6, Positions, HandlerKeeps DEF Inv, Typed, Analysis, Parsing

LEMMA RaiseKeeps ==
  ASSUME Inv, NEW w \in Worker, Raise(w)
  PROVE  Inv'
<1>1. /\ pc[w] = "start" \/ pc[w] \in Analysis
      /\ pc[w] # "analyse" => UNCHANGED files
      /\ pc[w] = "analyse" => state = "parsing"
      /\ attempt[w] \in Attempts
  <2>1. family \in Families
    BY FamilyFact
  <2>2. ToSet(Script[family]) \ {"notice"} \subseteq Analysis
    <3> HIDE DEF Script
    <3>1. QED
      BY <2>1, Scripts DEF Families, Analysis, Parsing
  <2>3. QED
    BY <2>2 DEF Raise, Analysis, Parsing, Inv, StateInv, Typed, Attempts
<1>2. /\ pc' = [pc EXCEPT ![w] = "failed"]
      /\ UNCHANGED <<family, state, requested, job, attempt, reclaimer, results, failures,
                     artifacts, reviews, notices>>
      /\ files' \in SUBSET Attempts
  BY <1>1, PlottedFact DEF Raise, Goto, request, Inv, Typed
<1>3. crashes' \in 0 .. MaxCrashes
  BY PipelineAConstantsOK DEF Raise, Inv, Typed
<1>4. pc'[w] = "failed"
  BY <1>2 DEF Inv, Typed
<1>5. InScript(w)' /\ InPlace(w)' /\ StateInv(w)'
  BY <1>4 DEF InScript, InPlace, StateInv, Parsing
<1>6. ReviewIsComplete'
  BY <1>1, <1>2, ReviewKeeps DEF Reviewable
<1>7. QED
  BY <1>1, <1>2, <1>3, <1>5, <1>6, Positions, HandlerKeeps DEF Inv, Typed, Analysis, Parsing

LEMMA InvNext == Inv /\ [Next]_vars => Inv'
<1>1. ASSUME Inv, UNCHANGED vars PROVE Inv'
  BY <1>1
  DEF Inv, Typed, JobInv, InScript, InPlace, Wrote, Listed, StateInv, Alone, ReviewIsComplete,
      vars
<1>2. ASSUME Inv, NEW w \in Worker, Handle(w)
      PROVE  Inv'
  BY <1>2, StartKeeps, AnalyseKeeps, GivingUpKeeps, InsertKeeps, MoveKeeps, NotifyKeeps
  DEF Handle
<1>3. ASSUME Inv, NEW w \in Worker, Step(w) \/ GiveUpFails(w) \/ Raise(w) \/ Crash(w)
      PROVE  Inv'
  BY <1>2, <1>3, JobStepsKeep, GivingUpKeeps, RaiseKeeps DEF Step
<1>4. QED
  BY <1>1, <1>3, EnvironmentKeeps DEF Next

LEMMA InvInit == Init => Inv
<1> SUFFICES ASSUME Init PROVE Inv
  OBVIOUS
<1>1. \A w \in Worker : pc[w] = "idle"
  BY DEF Init
<1>2. Typed
  <2>1. /\ pc \in [Worker -> Position] /\ attempt \in [Worker -> Nat]
        /\ reclaimer \in [pc: {"idle", "stale", "releasing"}, seen: Nat]
    BY Positions DEF Init, NotReclaiming
  <2>2. state \in RunState \cup {"undeclared"}
    BY DEF Init, RunState
  <2>3. crashes \in 0 .. MaxCrashes
    BY PipelineAConstantsOK DEF Init
  <2>4. /\ results \in Seq(Attempts) /\ artifacts \in Seq(AnalysisRow)
        /\ reviews \in Seq(Attempts)
    BY DEF Init
  <2>5. QED
    BY <1>1, <2>1, <2>2, <2>3, <2>4 DEF Init, Typed
<1>3. JobInv
  BY PipelineAConstantsOK DEF Init, JobInv, JobRecord, NoJob, Enqueued
<1>4. \A w \in Worker : InScript(w) /\ InPlace(w) /\ StateInv(w)
  BY <1>1 DEF InScript, InPlace, StateInv, Parsing
<1>5. Alone /\ ReviewIsComplete
  BY <1>1 DEF Init, Alone, Analysis, Parsing, ReviewIsComplete, Reviewable
<1>6. QED
  BY <1>2, <1>3, <1>4, <1>5 DEF Inv

LEMMA Invariance == Spec => []Inv
BY InvInit, InvNext, PTL DEF Spec

\* What a worker, a row or a file says of its attempt: the job has been started that
\* often.
Claimed ==
  /\ \A w \in Worker : attempt[w] \in 0 .. job.attempts
  /\ reclaimer.seen \in 0 .. job.attempts
  /\ results \in Seq(1 .. job.attempts) /\ reviews \in Seq(1 .. job.attempts)
  /\ artifacts \in Seq([attempt: 1 .. job.attempts, files: SUBSET (1 .. job.attempts)])
  /\ files \subseteq 1 .. job.attempts

LEMMA ClaimedMonotone ==
  ASSUME Inv, Claimed, job.attempts <= job'.attempts, job'.attempts \in Nat,
         UNCHANGED <<results, reviews, artifacts, files>>,
         \A w \in Worker : attempt'[w] \in 0 .. job'.attempts,
         reclaimer'.seen \in 0 .. job'.attempts
  PROVE  Claimed'
<1> DEFINE old == 1 .. job.attempts
           new == 1 .. job'.attempts
<1>1. job.attempts \in Nat
  BY DEF Inv, JobInv, JobRecord
<1>2. old \subseteq new
  BY <1>1
<1>3. [attempt: old, files: SUBSET old] \subseteq [attempt: new, files: SUBSET new]
  BY <1>2
<1>4. \A S, T : S \subseteq T => Seq(S) \subseteq Seq(T)
  OBVIOUS
<1>5. /\ results' \in Seq(new) /\ reviews' \in Seq(new)
      /\ artifacts' \in Seq([attempt: new, files: SUBSET new])
  <2>1. /\ results \in Seq(old) /\ reviews \in Seq(old)
        /\ artifacts \in Seq([attempt: old, files: SUBSET old])
    BY DEF Claimed
  <2> HIDE DEF old, new
  <2>2. QED
    BY <1>2, <1>3, <1>4, <2>1
<1>6. files' \subseteq new
  BY <1>2 DEF Claimed
<1>7. QED
  BY <1>5, <1>6 DEF Claimed

LEMMA ClaimedKeeps ==
  ASSUME Inv, Claimed, [Next]_vars
  PROVE  Claimed'
<1>1. job \in JobRecord /\ job.attempts \in Nat
  BY DEF Inv, JobInv, JobRecord
<1>2. /\ attempt \in [Worker -> Nat]
      /\ reclaimer \in [pc: {"idle", "stale", "releasing"}, seen: Nat]
      /\ \A w \in Worker : pc[w] \notin {"idle", "failing"} => attempt[w] # 0
  BY DEF Inv, Typed
<1>3. ASSUME NEW w \in Worker, Claim(w)
      PROVE  Claimed'
  <2>1. job'.attempts = job.attempts + 1
    BY <1>1, <1>3 DEF Claim, Started, JobRecord
  <2>2. attempt' = [attempt EXCEPT ![w] = job.attempts + 1]
        /\ UNCHANGED <<results, reviews, artifacts, files, reclaimer>>
    BY <1>3 DEF Claim, records
  <2>3. QED
    BY <1>1, <1>2, <2>1, <2>2, ClaimedMonotone DEF Claimed
<1>4. ASSUME NEW w \in Worker, Complete(w) \/ LoadCounts(w) \/ FailWrite(w) \/ Crash(w)
      PROVE  Claimed'
  <2>1. job'.attempts = job.attempts
    BY <1>1, <1>4 DEF Complete, LoadCounts, FailWrite, Crash, Succeeded, Returned, JobRecord
  <2>2. \/ attempt' = [attempt EXCEPT ![w] = 0]
        \/ attempt' = [attempt EXCEPT ![w] = job.attempts]
    BY <1>4 DEF Complete, LoadCounts, FailWrite, Crash, Leave
  <2>3. UNCHANGED <<results, reviews, artifacts, files, reclaimer>>
    BY <1>4 DEF Complete, LoadCounts, FailWrite, Crash, Leave, records
  <2>4. \A v \in Worker : attempt'[v] \in 0 .. job'.attempts
    <3>1. /\ attempt \in [Worker -> Nat]
          /\ \A v \in Worker : attempt[v] \in 0 .. job.attempts
      BY <1>2 DEF Claimed
    <3>2. CASE attempt' = [attempt EXCEPT ![w] = 0]
      BY <1>1, <2>1, <3>1, <3>2
    <3>3. CASE attempt' = [attempt EXCEPT ![w] = job.attempts]
      BY <1>1, <2>1, <3>1, <3>3
    <3>4. QED
      BY <2>2, <3>2, <3>3
  <2>5. reclaimer'.seen \in 0 .. job'.attempts
    BY <2>1, <2>3 DEF Claimed
  <2>6. job.attempts <= job'.attempts /\ job'.attempts \in Nat
    BY <1>1, <2>1
  <2>7. QED
    BY <2>3, <2>4, <2>5, <2>6, ClaimedMonotone
<1>5. CASE EnsureSessionRun \/ EnqueueSession \/ RequestLost \/ Reclaim \/ ReclaimLost \/ Downstream
  <2>1. job'.attempts = job.attempts
    BY <1>1, <1>5
    DEF EnsureSessionRun, EnqueueSession, RequestLost, Reclaim, ReclaimScan, ReclaimLoad,
        ReclaimWrite, ReclaimLost, Downstream, Enqueued, NoJob, Returned, JobRecord, JobInv, Inv
  <2>2. UNCHANGED <<attempt, results, reviews, artifacts, files>>
    BY <1>5
    DEF EnsureSessionRun, EnqueueSession, RequestLost, Reclaim, ReclaimScan, ReclaimLoad,
        ReclaimWrite, ReclaimLost, Downstream, records
  <2>3. reclaimer'.seen \in {reclaimer.seen, job.attempts, 0}
    BY <1>2, <1>5
    DEF EnsureSessionRun, EnqueueSession, RequestLost, Reclaim, ReclaimScan, ReclaimLoad,
        ReclaimWrite, ReclaimLost, Downstream, NotReclaiming
  <2>4. QED
    BY <1>1, <2>1, <2>2, <2>3, ClaimedMonotone DEF Claimed
<1>6. ASSUME NEW w \in Worker, Handle(w) \/ GiveUpFails(w) \/ Raise(w)
      PROVE  Claimed'
  <2>1. pc[w] \notin {"idle", "failing"} /\ UNCHANGED <<job, attempt, reclaimer>>
    <3>1. CASE Handle(w)
      BY <1>6, <3>1, Scripts
      DEF Handle, Start, Analyse, AnalyseFails, ReportFailure, GiveUp, InsertResult,
          InsertArtifact, InsertReview, Move, Transition, Notify, request, records
    <3>2. CASE GiveUpFails(w) \/ Raise(w)
      <4>1. ToSet(Script[family]) \cap {"idle", "failing"} = {}
        BY FamilyFact, Scripts DEF Families
      <4> HIDE DEF Script
      <4>2. QED
        BY <3>2, <4>1 DEF GiveUpFails, Raise, request, records
    <3>3. QED
      BY <1>6, <3>1, <3>2
  <2>2. attempt[w] \in 1 .. job.attempts
    BY <1>1, <1>2, <2>1 DEF Claimed
  <2>3. files' \subseteq 1 .. job.attempts
    <3>1. files' = files \/ files' \in Plotted(w)
      BY <1>6
      DEF Handle, Start, Analyse, AnalyseFails, ReportFailure, GiveUp, InsertResult,
          InsertArtifact, InsertReview, Move, Notify, GiveUpFails, Raise, records
    <3>2. QED
      BY <2>2, <3>1 DEF Plotted, Claimed
  <2>4. results' \in Seq(1 .. job.attempts) /\ reviews' \in Seq(1 .. job.attempts)
    <3>1. /\ results' = results \/ results' = Append(results, attempt[w])
          /\ reviews' = reviews \/ reviews' = Append(reviews, attempt[w])
      BY <1>6
      DEF Handle, Start, Analyse, AnalyseFails, ReportFailure, GiveUp, InsertResult,
          InsertArtifact, InsertReview, Move, Notify, GiveUpFails, Raise, records
    <3>2. results \in Seq(1 .. job.attempts) /\ reviews \in Seq(1 .. job.attempts)
      BY DEF Claimed
    <3> DEFINE S == 1 .. job.attempts
    <3>3. /\ \A s \in Seq(S) : Append(s, attempt[w]) \in Seq(S)
      BY <2>2
    <3> HIDE DEF S
    <3>4. QED
      BY <3>1, <3>2, <3>3 DEF S
  <2>5. artifacts' \in Seq([attempt: 1 .. job.attempts, files: SUBSET (1 .. job.attempts)])
    <3>1. \/ artifacts' = artifacts
          \/ artifacts' = Append(artifacts, [attempt |-> attempt[w], files |-> files])
      BY <1>6
      DEF Handle, Start, Analyse, AnalyseFails, ReportFailure, GiveUp, InsertResult,
          InsertArtifact, InsertReview, Move, Notify, GiveUpFails, Raise, records
    <3>2. [attempt |-> attempt[w], files |-> files]
            \in [attempt: 1 .. job.attempts, files: SUBSET (1 .. job.attempts)]
      BY <2>2 DEF Claimed
    <3> DEFINE S == [attempt: 1 .. job.attempts, files: SUBSET (1 .. job.attempts)]
    <3>3. artifacts \in Seq(S)
      BY DEF Claimed
    <3> HIDE DEF S
    <3>4. \A row \in S : \A s \in Seq(S) : Append(s, row) \in Seq(S)
      OBVIOUS
    <3>5. QED
      BY <3>1, <3>2, <3>3, <3>4 DEF S
  <2>6. QED
    BY <2>1, <2>3, <2>4, <2>5 DEF Claimed
<1>7. CASE UNCHANGED vars
  BY <1>7 DEF vars, Claimed
<1>8. QED
  BY <1>3, <1>4, <1>5, <1>6, <1>7 DEF Next, Step

\* The rows, the job and the workers' positions stay well formed, and whatever is
\* in the tables or the processed tree of a run is of an attempt at which its job
\* has been started, however late the worker of that attempt is.
THEOREM TypeCorrect == Spec => [](TypeOK /\ Claimed)
<1>1. Inv => TypeOK
  BY DEF Inv, Typed, JobInv, TypeOK
<1>2. Init => Claimed
  BY DEF Init, Claimed, NoJob, Enqueued, NotReclaiming
<1>3. Inv /\ Claimed /\ [Next]_vars => Claimed'
  BY ClaimedKeeps
<1>4. QED
  BY <1>1, <1>2, <1>3, Invariance, PTL DEF Spec

\* A run that has reached the reviewers has its review artifact, its analysis
\* artifacts and its parser result; the latest of each are of one attempt, whose
\* files are in the processed tree, and the analysis artifacts list that tree: no
\* failure, loss or late worker of Pipeline A (parse_run, process_session) can put
\* a partial output before a reviewer.  (A session's tree may have plots of
\* earlier attempts besides; a device run's has not.)
THEOREM ReviewsAreComplete == Spec => []ReviewIsComplete
<1>1. Inv => ReviewIsComplete
  BY DEF Inv
<1>2. QED
  BY <1>1, Invariance, PTL

\* The run's state admits at most one attempt to the processed tree and the rows
\* at a time, though the lock of the job may have been lost to another worker.
THEOREM AnalystsAreAlone == Spec => []OneAnalyst
<1>1. Inv => OneAnalyst
  BY Positions DEF Inv, Typed, Alone, OneAnalyst, Analysis, Parsing
<1>2. QED
  BY <1>1, Invariance, PTL

\* What a reviewer has approved or sent back is not taken back by a parse job,
\* not even by one of another attempt that comes late: none of the handlers'
\* transitions starts from those states.
THEOREM VerdictsHold == Spec => VerdictHolds
<1>1. Inv /\ [Next]_vars => [(state \in Accepted) => (state' \in Accepted)]_vars
  <2> SUFFICES ASSUME Inv, [Next]_vars, state \in Accepted
               PROVE  state' \in Accepted
    OBVIOUS
  <2>1. ~CanTransition(state, "parsing")
    BY ParsingBegins DEF Accepted, Reviewable
  <2>2. state \in {"approved", "changes_requested", "publishing", "published"}
    BY DEF Accepted, Reviewable
  <2>3. ASSUME NEW w \in Worker, Move(w)
        PROVE  UNCHANGED state
    BY <2>2, <2>3 DEF Move, Transition
  <2>4. ASSUME NEW w \in Worker, Step(w) \/ GiveUpFails(w) \/ Raise(w) \/ Crash(w)
        PROVE  UNCHANGED state
    BY <2>1, <2>2, <2>3, <2>4
    DEF Step, Handle, Claim, Complete, LoadCounts, FailWrite, Leave, Crash, Start, Analyse, AnalyseFails,
        ReportFailure, GiveUp, GiveUpFails, InsertResult, InsertArtifact, InsertReview, Notify,
        Raise
  <2>5. CASE Downstream
    BY <2>2, <2>5 DEF Downstream, Driven, Accepted, Reviewable
  <2>6. CASE EnsureSessionRun \/ EnqueueSession \/ RequestLost \/ Reclaim \/ ReclaimLost
    BY <2>2, <2>6
    DEF EnsureSessionRun, EnqueueSession, RequestLost, Reclaim, ReclaimScan, ReclaimLoad,
        ReclaimWrite, ReclaimLost, Accepted, Reviewable
  <2>7. QED
    BY <2>2, <2>4, <2>5, <2>6 DEF Next, vars, Accepted, Reviewable
<1>2. QED
  BY <1>1, Invariance, PTL DEF Spec, VerdictHolds
=============================================================================
