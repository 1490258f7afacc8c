---------------------------- MODULE ReviewProofs -----------------------------
(***************************************************************************)
(* Theorems about Review, for any finite sets of reviewers and of Go       *)
(* workers, and any number of attempts, crashes and reviews.               *)
(***************************************************************************)
EXTENDS Review, FiniteSetTheorems, SequenceTheorems, TLAPS

Approved == {"approved", "publishing", "published"}

Post == {NoPost} \cup [kind: Kind, next: {"decision", "enqueue", "notify"}]

Receipt == [decision: Nat, analyses: SUBSET Nat]

Citing(i) == [decision |-> i, analyses |-> 1 .. versions]

JobTyped ==
  /\ publish \in JobRecord
  /\ publish.state = "absent" => publish = NoJob

Typed ==
  /\ state \in {"parsing", "awaiting_review", "approved", "changes_requested",
                "quarantined", "publishing", "published"}
  /\ versions \in 1 .. MaxReviews
  /\ verdicts \in Seq(Entry) /\ decisions \in Seq(Entry)
  /\ receipts \in Seq(Receipt)
  /\ notices \in [Event -> Nat]
  /\ JobTyped
  /\ shown \in [Reviewer -> 0 .. versions]
  /\ post \in [Reviewer -> Post]
  /\ pc \in [Publisher -> Position]
  /\ seen \in [Publisher -> Nat]
  /\ crashes \in 0 .. MaxCrashes

\* A verdict that is not a quarantine is the last one and settles the run and
\* its review artifact; every earlier artifact has been quarantined.
VerdictInv ==
  /\ \A i \in DOMAIN verdicts :
       /\ verdicts[i].version <= versions
       /\ verdicts[i].kind # "quarantine" =>
            i = Len(verdicts) /\ verdicts[i].version = versions
       /\ verdicts[i].kind = "approve" => state \in Approved
       /\ verdicts[i].kind = "request_changes" => state = "changes_requested"
  /\ state \in Approved => verdicts # <<>> /\ Last(verdicts).kind = "approve"
  /\ \A v \in 1 .. versions :
       v < versions \/ state = "quarantined" =>
         \E i \in DOMAIN verdicts : verdicts[i].kind = "quarantine" /\ verdicts[i].version = v
  /\ state = "quarantined" => verdicts # <<>> /\ versions = Last(verdicts).version
  /\ state = "parsing" => /\ verdicts # <<>>
                          /\ versions \in {Last(verdicts).version, Last(verdicts).version + 1}

\* The row that InsertDecision adds.
Row(r) == [kind |-> post[r].kind, reviewer |-> r, version |-> versions]

\* What DecisionsAreVerdicts asks for one decision row.
Backed(log, d) ==
  \E j \in DOMAIN log :
    /\ log[j].reviewer = d.reviewer
    /\ log[j].kind = d.kind
    /\ IF d.kind = "quarantine" THEN log[j].version <= d.version
                                ELSE log[j].version = d.version

ApprovedBy(i) == i \in DOMAIN decisions /\ decisions[i].kind = "approve"

\* There is one approval, in one request, and its row is written at most once.
DecisionInv ==
  /\ \A i \in DOMAIN decisions : Backed(verdicts, decisions[i])
  /\ \A i, j \in DOMAIN decisions : ApprovedBy(i) /\ ApprovedBy(j) => i = j
  /\ \A r \in Reviewer :
       /\ post[r].next = "decision" =>
            Backed(verdicts, Row(r))
       /\ post[r].next = "enqueue" =>
            post[r].kind = "approve" /\ \E i \in DOMAIN decisions : ApprovedBy(i)
       /\ post[r].next = "notify" => post[r].kind = "quarantine"
       /\ post[r].kind = "approve" =>
            /\ state \in Approved
            /\ \A s \in Reviewer : post[s].kind = "approve" => r = s
            /\ post[r].next = "decision" => \A i \in DOMAIN decisions : ~ApprovedBy(i)

\* The positions of a log that hold one of these entries.
Indices(log, S) == {i \in DOMAIN log : log[i] \in S}

By(r, kind) == {e \in Entry : e.reviewer = r /\ e.kind = kind}
Quarantining == {e \in Entry : e.kind = "quarantine"}

Undecided(r, kind) == IF post[r] = [kind |-> kind, next |-> "decision"] THEN 1 ELSE 0

\* A request that has moved the run and not yet left its row, or its
\* announcement, still has a verdict to leave it for.
CountInv ==
  /\ \A r \in Reviewer, kind \in Kind :
       Cardinality(Indices(decisions, By(r, kind))) + Undecided(r, kind)
         <= Cardinality(Indices(verdicts, By(r, kind)))
  /\ notices["quarantined"] + Cardinality({r \in Reviewer : post[r].kind = "quarantine"})
       <= Cardinality(Indices(verdicts, Quarantining))

\* The publish job is enqueued behind the decision, and only it has handlers.
JobInv ==
  /\ publish.state # "absent" => \E i \in DOMAIN decisions : ApprovedBy(i)
  /\ \A h \in Publisher : pc[h] # "idle" => publish.state # "absent"

\* A publisher that is about to insert a receipt found none, and one that has
\* published the run is the only one to have done so.
PublishInv ==
  /\ receipts # <<>> => state \in {"publishing", "published"}
  /\ \A i \in DOMAIN receipts :
       /\ ApprovedBy(receipts[i].decision)
       /\ receipts[i].analyses = 1 .. versions
  /\ Len(receipts) + Cardinality({h \in Publisher : pc[h] = "insert"})
       <= Cardinality(Publisher)
  /\ state = "published" => receipts # <<>>
  /\ \A h \in Publisher :
       /\ pc[h] \in {"receipt", "insert", "finish"} => state \in {"publishing", "published"}
       /\ pc[h] = "finish" => receipts # <<>>
       /\ pc[h] = "notify" =>
            /\ state = "published" /\ notices["published"] = 0
            /\ \A g \in Publisher : pc[g] = "notify" => g = h
  /\ notices["published"] <= 1
  /\ notices["published"] = 1 => state = "published"

Inv == Typed /\ VerdictInv /\ DecisionInv /\ CountInv /\ JobInv /\ PublishInv

-----------------------------------------------------------------------------
(***************************************************************************)
(* Logs.                                                                   *)
(***************************************************************************)

LEMMA Appended ==
  ASSUME NEW S, NEW log \in Seq(S), NEW e \in S
  PROVE  /\ Append(log, e) \in Seq(S) /\ Append(log, e) # <<>>
         /\ Last(Append(log, e)) = e
         /\ DOMAIN log = 1 .. Len(log) /\ Len(log) \in Nat
         /\ DOMAIN Append(log, e) = 1 .. Len(log) + 1
         /\ Len(Append(log, e)) = Len(log) + 1
         /\ \A i \in 1 .. Len(log) : Append(log, e)[i] = log[i]
         /\ Append(log, e)[Len(log) + 1] = e
BY AppendProperties DEF Last

LEMMA Retyped ==
  ASSUME NEW S, NEW T, NEW log \in Seq(S), \A i \in 1 .. Len(log) : log[i] \in T
  PROVE  log \in Seq(T)
<1>1. Len(log) \in Nat /\ log \in [1 .. Len(log) -> S]
  BY LenProperties
<1>2. log \in [1 .. Len(log) -> T]
  BY <1>1
<1>3. QED
  BY <1>1, <1>2

LEMMA Entries ==
  ASSUME NEW log \in Seq(Entry)
  PROVE  /\ DOMAIN log = 1 .. Len(log) /\ Len(log) \in Nat
         /\ \A i \in DOMAIN log :
              /\ log[i] \in Entry /\ log[i].version \in Nat /\ log[i].reviewer \in Reviewer
              /\ log[i].kind \in {"approve", "request_changes", "quarantine"}
<1>1. \A i \in DOMAIN log : log[i] \in Entry
  BY ElementOfSeq
<1>2. QED
  BY <1>1 DEF Entry, Kind, Target

LEMMA IndicesAreFinite ==
  ASSUME NEW log \in Seq(Entry), NEW S
  PROVE  IsFiniteSet(Indices(log, S)) /\ Cardinality(Indices(log, S)) \in Nat
<1>1. IsFiniteSet(1 .. Len(log))
  BY FS_Interval
<1>2. Indices(log, S) \subseteq 1 .. Len(log)
  BY DEF Indices
<1>3. QED
  BY <1>1, <1>2, FS_Subset, FS_CardinalityType

LEMMA IndicesOfAppend ==
  ASSUME NEW log \in Seq(Entry), NEW e \in Entry, NEW S
  PROVE  Cardinality(Indices(Append(log, e), S))
           = Cardinality(Indices(log, S)) + IF e \in S THEN 1 ELSE 0
<1> DEFINE n == Len(log) + 1
<1>1. /\ Append(log, e) \in Seq(Entry) /\ Len(log) \in Nat
      /\ DOMAIN log = 1 .. Len(log) /\ DOMAIN Append(log, e) = 1 .. n
      /\ \A i \in 1 .. Len(log) : Append(log, e)[i] = log[i]
      /\ Append(log, e)[n] = e
  BY Appended
<1>2. n \notin Indices(log, S)
  BY <1>1 DEF Indices
<1>3. CASE e \in S
  <2>1. Indices(Append(log, e), S) = Indices(log, S) \cup {n}
    BY <1>1, <1>3 DEF Indices
  <2>2. QED
    BY <1>2, <1>3, <2>1, IndicesAreFinite, FS_AddElement
<1>4. CASE e \notin S
  <2>1. Indices(Append(log, e), S) = Indices(log, S)
    BY <1>1, <1>4 DEF Indices
  <2>2. QED
    BY <1>4, <2>1, IndicesAreFinite
<1>5. QED
  BY <1>3, <1>4

\* Removing one worker, or one reviewer, from those that are at a position.
LEMMA Counting ==
  ASSUME NEW S, IsFiniteSet(S), NEW T \in SUBSET S, NEW e \in S
  PROVE  /\ Cardinality(T) \in Nat /\ Cardinality(T) <= Cardinality(S)
         /\ e \in T => Cardinality(T \ {e}) = Cardinality(T) - 1
         /\ e \notin T => Cardinality(T \cup {e}) = Cardinality(T) + 1
<1>1. IsFiniteSet(T)
  BY FS_Subset
<1>2. QED
  BY <1>1, FS_Subset, FS_CardinalityType, FS_AddElement, FS_RemoveElement

-----------------------------------------------------------------------------
(***************************************************************************)
(* What the steps do, one lemma per kind.                                  *)
(***************************************************************************)

ReviewStep(r) == View(r) \/ (\E kind \in Kind : Decide(r, kind)) \/ Answer(r) \/ PostLost(r)
PublishStep(h) == Publish(h) \/ ReclaimLive(h) \/ Crash(h)

LEMMA Kinds == Kind = {"approve", "request_changes", "quarantine"}
BY DEF Kind, Target

LEMMA Targets ==
  /\ Target["approve"] = "approved"
  /\ Target["request_changes"] = "changes_requested"
  /\ Target["quarantine"] = "quarantined"
BY DEF Target

LEMMA JobSteps ==
  ASSUME JobTyped
  PROVE  /\ publish' = Enqueued(publish) => JobTyped' /\ publish'.state # "absent"
         /\ publish' = Succeeded(publish) => JobTyped' /\ publish'.state # "absent"
         /\ \A count \in Nat :
              publish' = Returned(publish, count, MaxAttempts) =>
                JobTyped' /\ publish'.state # "absent"
         /\ publish' = Started(publish) => JobTyped' /\ publish'.state # "absent"
<1> USE ReviewConstantsOK
<1>1. publish' = Enqueued(publish) => JobTyped' /\ publish'.state # "absent"
  BY DEF JobTyped, JobRecord, NoJob, Enqueued
<1>2. publish' = Succeeded(publish) => JobTyped' /\ publish'.state # "absent"
  BY DEF JobTyped, JobRecord, NoJob, Succeeded
<1>3. ASSUME NEW count \in Nat, publish' = Returned(publish, count, MaxAttempts)
      PROVE  JobTyped' /\ publish'.state # "absent"
  BY <1>3 DEF JobTyped, JobRecord, NoJob, Returned
<1>4. publish' = Started(publish) => JobTyped' /\ publish'.state # "absent"
  BY DEF JobTyped, JobRecord, NoJob, Started
<1>5. QED
  BY <1>1, <1>2, <1>3, <1>4

\* A verdict is an entry of the log, and moves the run where its kind says.
LEMMA DecideSteps ==
  ASSUME Typed, NEW r \in Reviewer, NEW kind \in Kind, Decide(r, kind)
  PROVE  /\ post[r] = NoPost /\ state = "awaiting_review"
         /\ Verdict(r, kind) \in Entry
         /\ verdicts' = Append(verdicts, Verdict(r, kind))
         /\ kind = "approve" => state' = "approved"
         /\ kind = "request_changes" => state' = "changes_requested"
         /\ kind = "quarantine" => state' = "quarantined"
         /\ post' = [post EXCEPT ![r] = [kind |-> kind, next |-> "decision"]]
         /\ post' \in [Reviewer -> Post]
         /\ UNCHANGED <<versions, decisions, receipts, notices, publish, shown, pc, seen, crashes>>
<1>1. Verdict(r, kind) \in Entry
  BY DEF Verdict, Entry, Typed
<1>2. post' \in [Reviewer -> Post]
  BY DEF Decide, Typed, Post
<1>3. QED
  BY <1>1, <1>2, Kinds, Targets DEF Decide

LEMMA InsertSteps ==
  ASSUME Typed, NEW r \in Reviewer, InsertDecision(r)
  PROVE  /\ post[r].next = "decision"
         /\ post[r].kind \in Kind
         /\ Row(r) \in Entry
         /\ decisions' = Append(decisions, Row(r))
         /\ post' \in [Reviewer -> Post]
         /\ \A s \in Reviewer \ {r} : post'[s] = post[s]
         /\ post[r].kind = "approve" => post'[r] = [kind |-> "approve", next |-> "enqueue"]
         /\ post[r].kind = "quarantine" => post'[r] = [kind |-> "quarantine", next |-> "notify"]
         /\ post[r].kind = "request_changes" => post'[r] = NoPost
         /\ UNCHANGED <<state, versions, verdicts, receipts, notices, publish, shown, pc, seen, crashes>>
<1>1. post[r].next = "decision" /\ post[r] \in Post /\ post[r].kind \in Kind
  BY DEF InsertDecision, Typed, Post, NoPost
<1>2. Row(r) \in Entry
  BY <1>1 DEF Row, Entry, Typed
<1>3. CASE post[r].kind = "approve"
  <2>1. post' = [post EXCEPT ![r] = [kind |-> "approve", next |-> "enqueue"]]
    BY <1>1, <1>3 DEF InsertDecision, Proceed, Typed, Post, NoPost
  <2>2. QED
    BY <1>1, <1>2, <1>3, <2>1 DEF InsertDecision, Typed, Post, Row
<1>4. CASE post[r].kind = "quarantine"
  <2>1. post' = [post EXCEPT ![r] = [kind |-> "quarantine", next |-> "notify"]]
    BY <1>1, <1>4 DEF InsertDecision, Proceed, Typed, Post, NoPost
  <2>2. QED
    BY <1>1, <1>2, <1>4, <2>1 DEF InsertDecision, Typed, Post, Row
<1>5. CASE post[r].kind = "request_changes"
  <2>1. post' = [post EXCEPT ![r] = NoPost]
    BY <1>1, <1>5 DEF InsertDecision, Answered
  <2>2. QED
    BY <1>1, <1>2, <1>5, <2>1 DEF InsertDecision, Typed, Post, Row, NoPost
<1>6. QED
  BY <1>1, <1>3, <1>4, <1>5, Kinds

\* The steps that end a request.
LEMMA EndSteps ==
  ASSUME Typed, NEW r \in Reviewer, EnqueuePublish(r) \/ NotifyQuarantine(r) \/ PostLost(r)
  PROVE  /\ post' \in [Reviewer -> Post]
         /\ post'[r] = NoPost
         /\ \A s \in Reviewer \ {r} : post'[s] = post[s]
         /\ UNCHANGED <<state, versions, verdicts, decisions, receipts, shown, pc, seen>>
BY DEF EnqueuePublish, NotifyQuarantine, PostLost, Answered, Typed, Post, NoPost, records

\* What a publisher, or its recovery of a stale lock, never touches.
LEMMA PublishSteps ==
  ASSUME Typed, \E h \in Publisher : PublishStep(h)
  PROVE  /\ UNCHANGED <<versions, verdicts, decisions, post, shown>>
         /\ notices'["quarantined"] = notices["quarantined"]
         /\ \/ UNCHANGED state
            \/ state = "approved" /\ state' = "publishing"
            \/ state = "publishing" /\ state' = "published"
<1>1. ASSUME NEW h \in Publisher, NotifyPublished(h)
      PROVE  notices'["quarantined"] = notices["quarantined"]
  BY <1>1 DEF NotifyPublished, Typed, Event
<1>2. ASSUME NEW h \in Publisher, PublishStep(h)
      PROVE  notices'["quarantined"] = notices["quarantined"]
  BY <1>1, <1>2
  DEF PublishStep, Publish, Claim, Load, Begin, FindReceipt, InsertReceipt, Finish, Complete,
      LoadCounts, FailWrite, ReclaimScan, ReclaimLive, Scan, Leave, Crash, records
<1>3. QED
  BY <1>2
  DEF PublishStep, Publish, Claim, Load, Begin, FindReceipt, InsertReceipt, Finish,
      NotifyPublished, Complete, LoadCounts, FailWrite, ReclaimScan, ReclaimLive, Scan,
      Leave, Crash, Transition, records

-----------------------------------------------------------------------------
(***************************************************************************)
(* Every step keeps the types.                                             *)
(***************************************************************************)

\* A receipt cites the one approval there is.
LEMMA ReceiptSteps ==
  ASSUME Typed, DecisionInv, JobInv, NEW h \in Publisher, InsertReceipt(h)
  PROVE  \E i \in DOMAIN decisions :
           /\ ApprovedBy(i)
           /\ Citing(i) \in Receipt
           /\ receipts' = Append(receipts, Citing(i))
<1>1. PICK i \in DOMAIN decisions : ApprovedBy(i)
  BY DEF InsertReceipt, JobInv
<1>2. i \in Nat \ {0}
  BY DEF Typed
<1>3. {j \in DOMAIN decisions : decisions[j].kind = "approve"} = {i}
  BY <1>1 DEF DecisionInv, ApprovedBy
<1>4. Max({i} \cup {0}) = i
  BY <1>2 DEF Max
<1>5. LatestApproval = i
  BY <1>3, <1>4 DEF LatestApproval
<1>6. Citing(i) \in Receipt
  <2>1. versions \in Nat
    BY DEF Typed
  <2>2. QED
    BY <1>2, <2>1 DEF Citing, Receipt
<1>7. receipts' = Append(receipts, Citing(i))
  BY <1>5 DEF InsertReceipt, Citing
<1>8. QED
  BY <1>1, <1>6, <1>7

LEMMA TypedNext ==
  ASSUME Inv, Next
  PROVE  Typed'
<1> USE ReviewConstantsOK
<1>0. Typed
  BY DEF Inv
<1>1. ASSUME NEW r \in Reviewer, View(r)
      PROVE  Typed'
  <2>1. shown' \in [Reviewer -> 0 .. versions']
    BY <1>0, <1>1 DEF View, Typed
  <2>2. QED
    BY <1>0, <1>1, <2>1 DEF View, Typed, JobTyped, records
<1>2. ASSUME NEW r \in Reviewer, NEW kind \in Kind, Decide(r, kind)
      PROVE  Typed'
  <2>1. verdicts' \in Seq(Entry)
    <3>1. Append(verdicts, Verdict(r, kind)) \in Seq(Entry)
      BY <1>0, <1>2, DecideSteps DEF Typed
    <3>2. QED
      BY <1>0, <1>2, <3>1, DecideSteps
  <2>2. QED
    BY <1>0, <1>2, <2>1, DecideSteps, Kinds DEF Typed, JobTyped
<1>3. ASSUME NEW r \in Reviewer, InsertDecision(r)
      PROVE  Typed'
  <2>1. decisions' \in Seq(Entry)
    <3>1. Append(decisions, Row(r)) \in Seq(Entry)
      BY <1>0, <1>3, InsertSteps DEF Typed
    <3>2. QED
      BY <1>0, <1>3, <3>1, InsertSteps
  <2>2. QED
    BY <1>0, <1>3, <2>1, InsertSteps DEF Typed, JobTyped
<1>4. ASSUME NEW r \in Reviewer, EnqueuePublish(r) \/ NotifyQuarantine(r) \/ PostLost(r)
      PROVE  Typed'
  <2>1. JobTyped'
    BY <1>0, <1>4, JobSteps DEF EnqueuePublish, NotifyQuarantine, PostLost, Typed, JobTyped
  <2>2. notices' \in [Event -> Nat]
    BY <1>0, <1>4 DEF EnqueuePublish, NotifyQuarantine, PostLost, Typed, Event, records
  <2>3. crashes' \in 0 .. MaxCrashes
    BY <1>0, <1>4 DEF EnqueuePublish, NotifyQuarantine, PostLost, Typed
  <2>4. QED
    BY <1>0, <1>4, <2>1, <2>2, <2>3, EndSteps DEF Typed
<1>5. ASSUME \E h \in Publisher : PublishStep(h)
      PROVE  Typed'
  <2>1. JobTyped'
    BY <1>0, <1>5, JobSteps
    DEF PublishStep, Publish, Claim, Load, Begin, FindReceipt, InsertReceipt, Finish,
        NotifyPublished, Complete, LoadCounts, FailWrite, ReclaimScan, ReclaimLive, Scan,
        Leave, Crash, Typed, JobTyped
  <2>2. receipts' \in Seq(Receipt)
    <3>1. ASSUME NEW h \in Publisher, InsertReceipt(h)
          PROVE  receipts' \in Seq(Receipt)
      <4>1. DecisionInv /\ JobInv
        BY DEF Inv
      <4>2. PICK i \in DOMAIN decisions :
              /\ Citing(i) \in Receipt
              /\ receipts' = Append(receipts, Citing(i))
        BY <1>0, <3>1, <4>1, ReceiptSteps
      <4>3. Append(receipts, Citing(i))
              \in Seq(Receipt)
        BY <1>0, <4>2 DEF Typed
      <4>4. QED
        BY <4>2, <4>3
    <3>2. ASSUME UNCHANGED receipts
          PROVE  receipts' \in Seq(Receipt)
      BY <1>0, <3>2 DEF Typed
    <3>3. QED
      BY <1>5, <3>1, <3>2
      DEF PublishStep, Publish, Claim, Load, Begin, FindReceipt, Finish, NotifyPublished,
          Complete, LoadCounts, FailWrite, ReclaimScan, ReclaimLive, Scan, Leave, Crash,
          records
  <2>3. notices' \in [Event -> Nat]
    BY <1>0, <1>5
    DEF PublishStep, Publish, Claim, Load, Begin, FindReceipt, InsertReceipt, Finish,
        NotifyPublished, Complete, LoadCounts, FailWrite, ReclaimScan, ReclaimLive, Scan,
        Leave, Crash, Typed, Event, records
  <2>4. pc' \in [Publisher -> Position]
    BY <1>0, <1>5
    DEF PublishStep, Publish, Claim, Load, Begin, FindReceipt, InsertReceipt, Finish,
        NotifyPublished, Complete, LoadCounts, FailWrite, ReclaimScan, ReclaimLive, Scan,
        Leave, Crash, Transition, Goto, Typed, Position
  <2>5. crashes' \in 0 .. MaxCrashes
    BY <1>0, <1>5
    DEF PublishStep, Publish, Claim, Load, Begin, FindReceipt, InsertReceipt, Finish,
        NotifyPublished, Complete, LoadCounts, FailWrite, ReclaimScan, ReclaimLive, Scan,
        Leave, Crash, Typed
  <2>6. seen' \in [Publisher -> Nat]
    BY <1>0, <1>5
    DEF PublishStep, Publish, Claim, Load, Begin, FindReceipt, InsertReceipt, Finish,
        NotifyPublished, Complete, LoadCounts, FailWrite, ReclaimScan, ReclaimLive, Scan,
        Leave, Crash, Typed, JobTyped, JobRecord
  <2>7. QED
    BY <1>0, <1>5, <2>1, <2>2, <2>3, <2>4, <2>5, <2>6, PublishSteps DEF Typed
<1>6. CASE Reopen \/ Rereview \/ Resubmit
  <2>1. versions' \in 1 .. MaxReviews /\ versions <= versions'
    BY <1>0, <1>6, ReviewConstantsOK DEF Reopen, Rereview, Resubmit, Typed
  <2>2. UNCHANGED <<publish, shown, post, pc, seen, crashes, verdicts, decisions, receipts, notices>>
    BY <1>6 DEF Reopen, Rereview, Resubmit, records
  <2>4. state' \in {"parsing", "awaiting_review"}
    BY <1>6 DEF Reopen, Rereview, Resubmit
  <2>5. shown' \in [Reviewer -> 0 .. versions']
    BY <1>0, <2>1, <2>2 DEF Typed
  <2>6. JobTyped'
    BY <1>0, <2>2 DEF Typed, JobTyped
  <2>7. QED
    BY <1>0, <2>1, <2>2, <2>4, <2>5, <2>6 DEF Typed
<1>7. QED
  BY <1>1, <1>2, <1>3, <1>4, <1>5, <1>6 DEF Next, Answer, PublishStep

-----------------------------------------------------------------------------
(***************************************************************************)
(* Every step keeps the verdicts in order.                                 *)
(***************************************************************************)

LEMMA VerdictNext ==
  ASSUME Inv, Next
  PROVE  VerdictInv'
<1>0. Typed /\ VerdictInv
  BY DEF Inv
<1>1. ASSUME NEW r \in Reviewer, NEW kind \in Kind, Decide(r, kind)
      PROVE  VerdictInv'
  <2> DEFINE n == Len(verdicts) + 1
             e == Verdict(r, kind)
  <2>1. /\ e \in Entry /\ e.kind = kind /\ e.version = versions
        /\ state = "awaiting_review" /\ UNCHANGED versions
        /\ kind \in {"approve", "request_changes", "quarantine"}
        /\ kind = "approve" => state' = "approved"
        /\ kind = "request_changes" => state' = "changes_requested"
        /\ kind = "quarantine" => state' = "quarantined"
    BY <1>0, <1>1, DecideSteps, Kinds DEF Verdict
  <2>2. /\ verdicts' # <<>> /\ Last(verdicts') = e
        /\ Len(verdicts) \in Nat /\ Len(verdicts') = n
        /\ DOMAIN verdicts = 1 .. Len(verdicts) /\ DOMAIN verdicts' = 1 .. n
        /\ \A i \in 1 .. Len(verdicts) : verdicts'[i] = verdicts[i]
        /\ verdicts'[n] = e
    <3>1. verdicts' = Append(verdicts, e) /\ verdicts \in Seq(Entry)
      BY <1>0, <1>1, DecideSteps DEF Typed
    <3>2. QED
      BY <2>1, <3>1, Appended
  <2> HIDE DEF e
  <2>3. \A i \in DOMAIN verdicts : verdicts[i].kind = "quarantine"
    BY <1>0, <2>1, Entries DEF VerdictInv, Approved, Typed
  <2>4. versions \in Nat
    BY <1>0 DEF Typed
  <2>5. ASSUME NEW i \in DOMAIN verdicts'
        PROVE  /\ verdicts'[i].version <= versions'
               /\ verdicts'[i].kind # "quarantine" =>
                    i = Len(verdicts') /\ verdicts'[i].version = versions'
               /\ verdicts'[i].kind = "approve" => state' \in Approved
               /\ verdicts'[i].kind = "request_changes" => state' = "changes_requested"
    BY <1>0, <2>1, <2>2, <2>3, <2>4 DEF VerdictInv, Approved
  <2>6. state' \in Approved => verdicts' # <<>> /\ Last(verdicts').kind = "approve"
    BY <2>1, <2>2 DEF Approved
  <2>7. ASSUME NEW v \in 1 .. versions',
               v < versions' \/ state' = "quarantined"
        PROVE  \E i \in DOMAIN verdicts' :
                 verdicts'[i].kind = "quarantine" /\ verdicts'[i].version = v
    <3>1. CASE v < versions
      <4>1. PICK i \in DOMAIN verdicts :
              verdicts[i].kind = "quarantine" /\ verdicts[i].version = v
        BY <1>0, <2>1, <2>7, <3>1 DEF VerdictInv
      <4>2. QED
        BY <2>2, <4>1
    <3>2. CASE v = versions
      BY <2>1, <2>2, <2>4, <2>7, <3>2
    <3>3. QED
      BY <2>1, <2>4, <2>7, <3>1, <3>2
  <2>8. /\ state' = "quarantined" => verdicts' # <<>> /\ versions' = Last(verdicts').version
        /\ state' # "parsing"
    BY <2>1, <2>2
  <2>9. QED
    BY <2>5, <2>6, <2>7, <2>8 DEF VerdictInv
<1>2. CASE /\ UNCHANGED <<versions, verdicts>>
           /\ \/ UNCHANGED state
              \/ state = "approved" /\ state' = "publishing"
              \/ state = "publishing" /\ state' = "published"
              \/ state = "quarantined" /\ state' = "parsing"
  BY <1>0, <1>2 DEF VerdictInv, Approved
<1>3. CASE Rereview \/ Resubmit
  <2>1. /\ state = "parsing" /\ state' \in {"parsing", "awaiting_review"}
        /\ state' = "parsing" => versions = Last(verdicts).version /\ versions' = versions + 1
        /\ state' = "awaiting_review" => UNCHANGED versions
        /\ UNCHANGED verdicts /\ versions \in Nat /\ verdicts # <<>>
    BY <1>0, <1>3 DEF Rereview, Resubmit, records, Typed, VerdictInv
  <2>2. \A i \in DOMAIN verdicts : verdicts[i].version \in Nat /\ verdicts[i].kind = "quarantine"
    BY <1>0, <2>1, Entries DEF VerdictInv, Approved, Typed
  <2>3. Last(verdicts) = verdicts[Len(verdicts)] /\ Len(verdicts) \in DOMAIN verdicts
    BY <1>0, <2>1 DEF Last, Typed
  <2>4. ASSUME NEW v \in 1 .. versions', v < versions'
        PROVE  \E i \in DOMAIN verdicts : verdicts[i].kind = "quarantine" /\ verdicts[i].version = v
    <3>1. CASE v < versions
      BY <1>0, <2>1, <2>4, <3>1 DEF VerdictInv
    <3>2. CASE v = versions
      BY <2>1, <2>2, <2>3, <2>4, <3>2
    <3>3. QED
      BY <2>1, <2>4, <3>1, <3>2
  <2>5. /\ \A i \in DOMAIN verdicts : verdicts[i].version <= versions'
        /\ state' = "parsing" => versions' = Last(verdicts).version + 1
    BY <1>0, <2>1, <2>2 DEF VerdictInv
  <2>6. QED
    BY <1>0, <2>1, <2>2, <2>4, <2>5 DEF VerdictInv, Approved
<1>4. ASSUME NEW r \in Reviewer, ReviewStep(r), ~ \E kind \in Kind : Decide(r, kind)
      PROVE  UNCHANGED <<state, versions, verdicts>>
  BY <1>0, <1>4, InsertSteps, EndSteps DEF ReviewStep, Answer, View, records
<1>5. CASE \E h \in Publisher : PublishStep(h)
  BY <1>0, <1>2, <1>5, PublishSteps
<1>6. CASE Reopen
  BY <1>2, <1>6 DEF Reopen, records
<1>7. QED
  BY <1>1, <1>2, <1>3, <1>4, <1>5, <1>6 DEF Next, ReviewStep, PublishStep

-----------------------------------------------------------------------------
(***************************************************************************)
(* Every step keeps the decisions backed by the verdicts.                  *)
(***************************************************************************)

LEMMA StaysBacked ==
  ASSUME NEW log \in Seq(Entry), NEW e \in Entry, NEW d, Backed(log, d)
  PROVE  Backed(Append(log, e), d)
<1>1. PICK j \in DOMAIN log :
        /\ log[j].reviewer = d.reviewer /\ log[j].kind = d.kind
        /\ IF d.kind = "quarantine" THEN log[j].version <= d.version
                                    ELSE log[j].version = d.version
  BY DEF Backed
<1>2. j \in DOMAIN Append(log, e) /\ Append(log, e)[j] = log[j]
  BY Appended
<1>3. QED
  BY <1>1, <1>2 DEF Backed

\* Only a quarantine is behind the decisions on a run that is not settled.
LEMMA Unsettled ==
  ASSUME Inv, state \in {"awaiting_review", "parsing", "quarantined"}
  PROVE  /\ \A i \in DOMAIN verdicts : verdicts[i].kind = "quarantine"
         /\ \A d : Backed(verdicts, d) => d.kind = "quarantine"
         /\ \A i \in DOMAIN decisions : ~ApprovedBy(i)
         /\ \A r \in Reviewer : post[r].kind # "approve"
<1>1. \A i \in DOMAIN verdicts : verdicts[i].kind = "quarantine"
  BY Entries DEF Inv, Typed, VerdictInv, Approved
<1>2. \A d : Backed(verdicts, d) => d.kind = "quarantine"
  BY <1>1 DEF Backed
<1>3. QED
  BY <1>1, <1>2 DEF Inv, DecisionInv, ApprovedBy, Approved

LEMMA DecisionNext ==
  ASSUME Inv, Next
  PROVE  DecisionInv'
<1>0. Typed /\ VerdictInv /\ DecisionInv
  BY DEF Inv
<1>1. ASSUME NEW r \in Reviewer, NEW kind \in Kind, Decide(r, kind)
      PROVE  DecisionInv'
  <2>1. /\ Verdict(r, kind) \in Entry /\ verdicts \in Seq(Entry)
        /\ verdicts' = Append(verdicts, Verdict(r, kind))
        /\ UNCHANGED <<versions, decisions>>
        /\ post'[r] = [kind |-> kind, next |-> "decision"]
        /\ \A s \in Reviewer \ {r} : post'[s] = post[s]
        /\ state = "awaiting_review"
        /\ kind = "approve" => state' = "approved"
        /\ versions \in Nat
    BY <1>0, <1>1, DecideSteps DEF Typed
  <2>2. /\ \A i \in DOMAIN decisions : ~ApprovedBy(i)
        /\ \A s \in Reviewer : post[s].kind # "approve"
    BY <2>1, Unsettled
  <2>3. \A i \in DOMAIN decisions' : Backed(verdicts, decisions[i])'
    BY <1>0, <2>1, StaysBacked DEF DecisionInv
  <2>4. \A i \in DOMAIN decisions' : ~ApprovedBy(i)'
    BY <2>1, <2>2 DEF ApprovedBy
  <2>5. Backed(verdicts, Row(r))'
    <3>1. /\ Len(verdicts) + 1 \in DOMAIN verdicts'
          /\ verdicts'[Len(verdicts) + 1] = Verdict(r, kind)
      BY <2>1, Appended
    <3>2. /\ Verdict(r, kind).reviewer = r /\ Verdict(r, kind).kind = kind
          /\ Verdict(r, kind).version = versions
      BY DEF Verdict
    <3>3. Row(r)' = [kind |-> kind, reviewer |-> r, version |-> versions]
      BY <2>1 DEF Row
    <3>4. QED
      BY <2>1, <3>1, <3>2, <3>3 DEF Backed
  <2>6. ASSUME NEW s \in Reviewer \ {r}, post'[s].next = "decision"
        PROVE  Backed(verdicts, Row(s))'
    <3>1. Row(s)' = Row(s) /\ Backed(verdicts, Row(s))
      BY <1>0, <2>1, <2>6 DEF Row, DecisionInv
    <3>2. QED
      BY <2>1, <3>1, StaysBacked
  <2>7. ASSUME NEW s \in Reviewer
        PROVE  /\ post'[s].next = "decision" => Backed(verdicts, Row(s))'
               /\ post'[s].next = "enqueue" =>
                    post'[s].kind = "approve" /\ \E i \in DOMAIN decisions' : ApprovedBy(i)'
               /\ post'[s].next = "notify" => post'[s].kind = "quarantine"
               /\ post'[s].kind = "approve" =>
                    /\ state' \in Approved
                    /\ \A t \in Reviewer : post'[t].kind = "approve" => s = t
                    /\ post'[s].next = "decision" => \A i \in DOMAIN decisions' : ~ApprovedBy(i)'
    <3>1. CASE s = r
      BY <2>1, <2>2, <2>4, <2>5, <3>1 DEF Approved
    <3>2. CASE s # r
      BY <1>0, <2>1, <2>2, <2>6, <3>2 DEF DecisionInv
    <3>3. QED
      BY <3>1, <3>2
  <2>8. QED
    BY <2>3, <2>4, <2>7 DEF DecisionInv
<1>2. ASSUME NEW r \in Reviewer, InsertDecision(r)
      PROVE  DecisionInv'
  <2> DEFINE n == Len(decisions) + 1
  <2>1. /\ post[r].next = "decision" /\ Row(r) \in Entry
        /\ UNCHANGED <<state, versions, verdicts>>
        /\ \A s \in Reviewer \ {r} : post'[s] = post[s]
        /\ post[r].kind = "approve" => post'[r] = [kind |-> "approve", next |-> "enqueue"]
        /\ post[r].kind = "quarantine" =>
             post'[r] = [kind |-> "quarantine", next |-> "notify"]
        /\ post[r].kind = "request_changes" => post'[r] = NoPost
        /\ post[r].kind \in {"approve", "quarantine", "request_changes"}
    BY <1>0, <1>2, InsertSteps, Kinds
  <2>2. /\ DOMAIN decisions = 1 .. Len(decisions) /\ Len(decisions) \in Nat
        /\ DOMAIN decisions' = 1 .. n
        /\ \A i \in 1 .. Len(decisions) : decisions'[i] = decisions[i]
        /\ decisions'[n] = Row(r)
    <3>1. decisions \in Seq(Entry) /\ decisions' = Append(decisions, Row(r))
      BY <1>0, <1>2, InsertSteps DEF Typed
    <3>2. QED
      BY <2>1, <3>1, Appended
  <2>3. /\ Row(r).kind = post[r].kind
        /\ Backed(verdicts, Row(r))
    BY <1>0, <2>1 DEF Row, DecisionInv
  <2>4. \A i \in DOMAIN decisions' : Backed(verdicts, decisions[i])'
    BY <1>0, <2>1, <2>2, <2>3 DEF DecisionInv
  <2>5. \A i \in DOMAIN decisions' :
          ApprovedBy(i)' <=> ApprovedBy(i) \/ (i = n /\ post[r].kind = "approve")
    BY <2>2, <2>3 DEF ApprovedBy
  <2>6. post[r].kind = "approve" => \A i \in DOMAIN decisions : ~ApprovedBy(i)
    BY <1>0, <2>1 DEF DecisionInv
  <2>7. \A i, j \in DOMAIN decisions' : ApprovedBy(i)' /\ ApprovedBy(j)' => i = j
    BY <1>0, <2>2, <2>5, <2>6 DEF DecisionInv, ApprovedBy
  <2>8. ASSUME NEW s \in Reviewer
        PROVE  /\ post'[s].next = "decision" => Backed(verdicts, Row(s))'
               /\ post'[s].next = "enqueue" =>
                    post'[s].kind = "approve" /\ \E i \in DOMAIN decisions' : ApprovedBy(i)'
               /\ post'[s].next = "notify" => post'[s].kind = "quarantine"
               /\ post'[s].kind = "approve" =>
                    /\ state' \in Approved
                    /\ \A t \in Reviewer : post'[t].kind = "approve" => s = t
                    /\ post'[s].next = "decision" => \A i \in DOMAIN decisions' : ~ApprovedBy(i)'
    <3>1. /\ post'[s].kind = "approve" => post[s].kind = "approve"
          /\ \A t \in Reviewer : post'[t].kind = "approve" => post[t].kind = "approve"
      BY <2>1 DEF NoPost
    <3>2. CASE s = r
      <4>1. post'[s].next # "decision"
        BY <2>1, <3>2 DEF NoPost
      <4>2. post[r].kind = "approve" => \E i \in DOMAIN decisions' : ApprovedBy(i)'
        BY <2>2, <2>5
      <4>3. QED
        BY <1>0, <2>1, <3>1, <3>2, <4>1, <4>2 DEF DecisionInv, NoPost
    <3>3. CASE s # r
      <4>1. Row(s)' = Row(s)
        BY <2>1, <3>3 DEF Row
      <4>2. post[s].kind = "approve" => post[r].kind # "approve"
        BY <1>0, <3>3 DEF DecisionInv
      <4>3. post[s].kind = "approve" /\ post[s].next = "decision" =>
              \A i \in DOMAIN decisions' : ~ApprovedBy(i)'
        BY <1>0, <2>2, <2>5, <4>2 DEF DecisionInv, ApprovedBy
      <4>4. (\E i \in DOMAIN decisions : ApprovedBy(i)) =>
              \E i \in DOMAIN decisions' : ApprovedBy(i)'
        BY <2>2, <2>5
      <4>5. QED
        BY <1>0, <2>1, <3>1, <3>3, <4>1, <4>3, <4>4 DEF DecisionInv
    <3>4. QED
      BY <3>2, <3>3
  <2>9. QED
    BY <2>4, <2>7, <2>8 DEF DecisionInv
<1>3. ASSUME NEW r \in Reviewer, EnqueuePublish(r) \/ NotifyQuarantine(r) \/ PostLost(r)
      PROVE  DecisionInv'
  <2>1. /\ post'[r] = NoPost
        /\ \A s \in Reviewer \ {r} : post'[s] = post[s]
        /\ UNCHANGED <<state, versions, verdicts, decisions>>
    BY <1>0, <1>3, EndSteps
  <2>2. \A s \in Reviewer : post'[s] = post[s] \/ post'[s] = [kind |-> "none", next |-> "none"]
    BY <2>1 DEF NoPost
  <2>3. QED
    BY <1>0, <2>1, <2>2 DEF DecisionInv, ApprovedBy, Row
<1>4. CASE /\ UNCHANGED <<versions, verdicts, decisions, post>>
           /\ state \in Approved => state' \in Approved
  BY <1>0, <1>4 DEF DecisionInv, ApprovedBy, Row
<1>5. CASE Rereview \/ Resubmit
  <2>1. /\ state = "parsing" /\ UNCHANGED <<verdicts, decisions, post>>
        /\ versions \in Nat /\ versions' \in {versions, versions + 1}
    BY <1>0, <1>5 DEF Rereview, Resubmit, records, Typed
  <2>2. /\ \A r \in Reviewer : post[r].kind # "approve"
        /\ \A d : Backed(verdicts, d) => d.kind = "quarantine"
    BY <2>1, Unsettled
  <2>3. ASSUME NEW r \in Reviewer, post[r].next = "decision"
        PROVE  Backed(verdicts, Row(r))'
    <3>1. Backed(verdicts, Row(r)) /\ post[r].kind = "quarantine"
      BY <1>0, <2>2, <2>3 DEF DecisionInv, Row
    <3>2. PICK j \in DOMAIN verdicts :
            /\ verdicts[j].reviewer = r /\ verdicts[j].kind = "quarantine"
            /\ verdicts[j].version <= versions
      BY <3>1 DEF Backed, Row
    <3>3. verdicts[j].version \in Nat
      BY <1>0, Entries DEF Typed
    <3>4. verdicts[j].version <= versions'
      BY <2>1, <3>2, <3>3
    <3>5. QED
      BY <2>1, <3>1, <3>2, <3>4 DEF Backed, Row
  <2>4. QED
    BY <1>0, <2>1, <2>2, <2>3 DEF DecisionInv, ApprovedBy
<1>6. CASE (\E r \in Reviewer : View(r)) \/ Reopen
  BY <1>4, <1>6 DEF View, Reopen, records, Approved
<1>7. CASE \E h \in Publisher : PublishStep(h)
  BY <1>0, <1>4, <1>7, PublishSteps DEF Approved
<1>8. QED
  BY <1>1, <1>2, <1>3, <1>5, <1>6, <1>7 DEF Next, Answer, PublishStep

-----------------------------------------------------------------------------
(***************************************************************************)
(* Every step keeps the counts.                                            *)
(***************************************************************************)

Announcing == {r \in Reviewer : post[r].kind = "quarantine"}

LEMMA CountNext ==
  ASSUME Inv, Next
  PROVE  CountInv'
<1>0. /\ Typed /\ CountInv /\ DecisionInv
      /\ verdicts \in Seq(Entry) /\ decisions \in Seq(Entry)
      /\ notices["quarantined"] \in Nat
      /\ IsFiniteSet(Announcing) /\ Cardinality(Announcing) \in Nat
  <2>1. IsFiniteSet(Announcing)
    BY ReviewConstantsOK, FS_Subset DEF Announcing
  <2>2. QED
    BY <2>1, FS_CardinalityType DEF Inv, Typed, Event
<1>1. ASSUME NEW r \in Reviewer, NEW kind \in Kind, Decide(r, kind)
      PROVE  CountInv'
  <2>1. /\ post[r] = NoPost /\ Verdict(r, kind) \in Entry
        /\ verdicts' = Append(verdicts, Verdict(r, kind))
        /\ UNCHANGED <<decisions, notices>>
        /\ post'[r] = [kind |-> kind, next |-> "decision"]
        /\ \A s \in Reviewer \ {r} : post'[s] = post[s]
    BY <1>0, <1>1, DecideSteps DEF Typed
  <2>2. /\ Verdict(r, kind).kind = kind
        /\ Verdict(r, kind).reviewer = r
    BY DEF Verdict
  <2>3. ASSUME NEW s \in Reviewer, NEW k \in Kind
        PROVE  Cardinality(Indices(decisions', By(s, k))) + Undecided(s, k)'
                 <= Cardinality(Indices(verdicts', By(s, k)))
    <3>1. /\ Cardinality(Indices(decisions, By(s, k))) \in Nat
          /\ Cardinality(Indices(verdicts, By(s, k))) \in Nat
          /\ Cardinality(Indices(decisions, By(s, k))) + Undecided(s, k)
               <= Cardinality(Indices(verdicts, By(s, k)))
      BY <1>0, IndicesAreFinite DEF CountInv
    <3>2. Cardinality(Indices(verdicts', By(s, k)))
            = Cardinality(Indices(verdicts, By(s, k)))
                + IF Verdict(r, kind) \in By(s, k) THEN 1 ELSE 0
      BY <1>0, <2>1, IndicesOfAppend
    <3>3. Verdict(r, kind) \in By(s, k) <=> s = r /\ k = kind
      BY <2>1, <2>2 DEF By
    <3>4. Undecided(r, k) = 0
      BY <2>1 DEF Undecided, NoPost
    <3>5. Undecided(s, k)' = IF s = r /\ k = kind THEN 1
                             ELSE IF s = r THEN 0 ELSE Undecided(s, k)
      BY <2>1 DEF Undecided
    <3>6. Undecided(s, k) \in {0, 1}
      BY DEF Undecided
    <3>7. QED
      BY <2>1, <3>1, <3>2, <3>3, <3>4, <3>5, <3>6
  <2>4. notices'["quarantined"] + Cardinality(Announcing')
          <= Cardinality(Indices(verdicts', Quarantining))
    <3>1. Cardinality(Indices(verdicts', Quarantining))
            = Cardinality(Indices(verdicts, Quarantining))
                + IF kind = "quarantine" THEN 1 ELSE 0
      BY <1>0, <2>1, <2>2, IndicesOfAppend DEF Quarantining
    <3>2. Cardinality(Indices(verdicts, Quarantining)) \in Nat
      BY <1>0, IndicesAreFinite
    <3>3. r \notin Announcing
      BY <2>1 DEF Announcing, NoPost
    <3>4. Announcing' = IF kind = "quarantine" THEN Announcing \cup {r} ELSE Announcing
      BY <2>1, <3>3 DEF Announcing
    <3>5. Cardinality(Announcing')
            = Cardinality(Announcing) + IF kind = "quarantine" THEN 1 ELSE 0
      <4>1. Cardinality(Announcing \cup {r}) = Cardinality(Announcing) + 1
        BY <1>0, <3>3, FS_AddElement
      <4>2. QED
        BY <1>0, <3>4, <4>1
    <3>6. QED
      BY <1>0, <2>1, <3>1, <3>2, <3>5 DEF CountInv, Announcing
  <2>5. QED
    BY <2>3, <2>4 DEF CountInv, Announcing
<1>2. ASSUME NEW r \in Reviewer, InsertDecision(r)
      PROVE  CountInv'
  <2>1. /\ post[r].next = "decision" /\ post[r].kind \in Kind /\ Row(r) \in Entry
        /\ post[r] \in Post
        /\ decisions' = Append(decisions, Row(r))
        /\ UNCHANGED <<verdicts, notices>>
        /\ \A s \in Reviewer \ {r} : post'[s] = post[s]
        /\ post'[r].next # "decision"
        /\ post'[r].kind = "quarantine" => post[r].kind = "quarantine"
    BY <1>0, <1>2, InsertSteps, Kinds DEF NoPost, Typed
  <2>2. post[r] = [kind |-> post[r].kind, next |-> "decision"]
    BY <2>1 DEF Post, NoPost
  <2>3. ASSUME NEW s \in Reviewer, NEW k \in Kind
        PROVE  Cardinality(Indices(decisions', By(s, k))) + Undecided(s, k)'
                 <= Cardinality(Indices(verdicts', By(s, k)))
    <3>1. /\ Cardinality(Indices(decisions, By(s, k))) \in Nat
          /\ Cardinality(Indices(verdicts, By(s, k))) \in Nat
          /\ Cardinality(Indices(decisions, By(s, k))) + Undecided(s, k)
               <= Cardinality(Indices(verdicts, By(s, k)))
      BY <1>0, IndicesAreFinite DEF CountInv
    <3>2. Cardinality(Indices(decisions', By(s, k)))
            = Cardinality(Indices(decisions, By(s, k)))
                + IF Row(r) \in By(s, k) THEN 1 ELSE 0
      BY <1>0, <2>1, IndicesOfAppend
    <3>3. Row(r) \in By(s, k) <=> s = r /\ k = post[r].kind
      BY <2>1 DEF By, Row
    <3>4. Undecided(r, post[r].kind) = 1
      BY <2>2 DEF Undecided
    <3>5. Undecided(s, k)' = IF s = r THEN 0 ELSE Undecided(s, k)
      BY <2>1 DEF Undecided
    <3>6. Undecided(s, k) \in {0, 1}
      BY DEF Undecided
    <3>7. QED
      BY <2>1, <3>1, <3>2, <3>3, <3>4, <3>5, <3>6
  <2>4. Cardinality(Announcing') <= Cardinality(Announcing) /\ Cardinality(Announcing') \in Nat
    <3>1. Announcing' \subseteq Announcing
      BY <2>1 DEF Announcing
    <3>2. QED
      BY <1>0, <3>1, FS_Subset, FS_CardinalityType
  <2>5. Cardinality(Indices(verdicts, Quarantining)) \in Nat
    BY <1>0, IndicesAreFinite
  <2>6. QED
    BY <1>0, <2>1, <2>3, <2>4, <2>5 DEF CountInv, Announcing
<1>3. ASSUME NEW r \in Reviewer, EnqueuePublish(r) \/ NotifyQuarantine(r) \/ PostLost(r)
      PROVE  CountInv'
  <2>1. /\ post'[r] = NoPost
        /\ \A s \in Reviewer \ {r} : post'[s] = post[s]
        /\ UNCHANGED <<verdicts, decisions>>
    BY <1>0, <1>3, EndSteps
  <2>2. ASSUME NEW s \in Reviewer, NEW k \in Kind
        PROVE  Cardinality(Indices(decisions', By(s, k))) + Undecided(s, k)'
                 <= Cardinality(Indices(verdicts', By(s, k)))
    <3>1. /\ Cardinality(Indices(decisions, By(s, k))) \in Nat
          /\ Cardinality(Indices(verdicts, By(s, k))) \in Nat
          /\ Cardinality(Indices(decisions, By(s, k))) + Undecided(s, k)
               <= Cardinality(Indices(verdicts, By(s, k)))
      BY <1>0, IndicesAreFinite DEF CountInv
    <3>2. Undecided(s, k)' = IF s = r THEN 0 ELSE Undecided(s, k)
      BY <2>1 DEF Undecided, NoPost
    <3>3. Undecided(s, k) \in {0, 1}
      BY DEF Undecided
    <3>4. QED
      BY <2>1, <3>1, <3>2, <3>3
  <2>3. Announcing' = Announcing \ {r}
    BY <2>1 DEF Announcing, NoPost
  <2>4. /\ Cardinality(Announcing') \in Nat
        /\ Cardinality(Announcing') <= Cardinality(Announcing)
        /\ r \in Announcing => Cardinality(Announcing') = Cardinality(Announcing) - 1
    <3>1. /\ Cardinality(Announcing \ {r}) \in Nat
          /\ Cardinality(Announcing \ {r}) <= Cardinality(Announcing)
      BY <1>0, FS_Subset, FS_CardinalityType
    <3>2. r \in Announcing => Cardinality(Announcing \ {r}) = Cardinality(Announcing) - 1
      BY <1>0, FS_RemoveElement
    <3>3. QED
      BY <2>3, <3>1, <3>2
  <2>5. /\ notices'["quarantined"] \in {notices["quarantined"], notices["quarantined"] + 1}
        /\ notices'["quarantined"] # notices["quarantined"] => r \in Announcing
    <3>1. CASE NotifyQuarantine(r)
      <4>1. r \in Announcing
        BY <1>0, <3>1 DEF NotifyQuarantine, DecisionInv, Announcing
      <4>2. QED
        BY <1>0, <3>1, <4>1 DEF NotifyQuarantine, Typed, Event
    <3>2. CASE EnqueuePublish(r) \/ PostLost(r)
      BY <3>2 DEF EnqueuePublish, PostLost, records
    <3>3. QED
      BY <1>3, <3>1, <3>2
  <2>6. Cardinality(Indices(verdicts, Quarantining)) \in Nat
    BY <1>0, IndicesAreFinite
  <2>7. QED
    BY <1>0, <2>1, <2>2, <2>4, <2>5, <2>6, SMTT(40) DEF CountInv, Announcing
<1>4. CASE /\ UNCHANGED <<verdicts, decisions, post>>
           /\ notices'["quarantined"] = notices["quarantined"]
  BY <1>0, <1>4 DEF CountInv, Undecided
<1>5. CASE (\E r \in Reviewer : View(r)) \/ Reopen \/ Rereview \/ Resubmit
  BY <1>4, <1>5 DEF View, Reopen, Rereview, Resubmit, records
<1>6. CASE \E h \in Publisher : PublishStep(h)
  BY <1>0, <1>4, <1>6, PublishSteps
<1>7. QED
  BY <1>1, <1>2, <1>3, <1>5, <1>6 DEF Next, Answer, PublishStep

-----------------------------------------------------------------------------
(***************************************************************************)
(* Every step keeps the job behind a decision.                             *)
(***************************************************************************)

LEMMA JobNext ==
  ASSUME Inv, Next
  PROVE  JobInv'
<1>0. Typed /\ JobInv /\ DecisionInv /\ JobTyped
  BY DEF Inv, Typed
<1>1. (\E i \in DOMAIN decisions : ApprovedBy(i)) =>
        \E i \in DOMAIN decisions' : ApprovedBy(i)'
  <2>1. ASSUME NEW r \in Reviewer, InsertDecision(r)
        PROVE  \A i \in DOMAIN decisions : i \in DOMAIN decisions' /\ decisions'[i] = decisions[i]
    <3>1. /\ decisions \in Seq(Entry) /\ Row(r) \in Entry
          /\ decisions' = Append(decisions, Row(r))
      BY <1>0, <2>1, InsertSteps DEF Typed
    <3>2. QED
      BY <3>1, Appended
  <2>2. ASSUME NEW r \in Reviewer, ReviewStep(r), ~InsertDecision(r)
        PROVE  UNCHANGED decisions
    BY <2>2 DEF ReviewStep, Answer, View, Decide, EnqueuePublish, NotifyQuarantine, PostLost,
                records
  <2>3. UNCHANGED decisions \/ \E r \in Reviewer : InsertDecision(r)
    BY <1>0, <2>2, PublishSteps DEF Next, ReviewStep, PublishStep, Reopen, Rereview, Resubmit,
      records
  <2>4. QED
    BY <2>1, <2>3 DEF ApprovedBy
<1>2. CASE UNCHANGED <<publish, pc>>
  BY <1>0, <1>1, <1>2 DEF JobInv
<1>3. ASSUME NEW r \in Reviewer, EnqueuePublish(r)
      PROVE  JobInv'
  <2>1. \E i \in DOMAIN decisions : ApprovedBy(i)
    BY <1>0, <1>3 DEF EnqueuePublish, DecisionInv
  <2>2. publish'.state # "absent" /\ UNCHANGED pc
    BY <1>0, <1>3, JobSteps DEF EnqueuePublish
  <2>3. QED
    BY <1>1, <2>1, <2>2 DEF JobInv
<1>4. ASSUME NEW h \in Publisher, PublishStep(h)
      PROVE  JobInv'
  <2>1. publish.state # "absent"
    BY <1>0, <1>4
    DEF PublishStep, Publish, Claim, Load, Begin, FindReceipt, InsertReceipt, Finish,
        NotifyPublished, Complete, LoadCounts, FailWrite, ReclaimScan, ReclaimLive, Scan,
        Leave, Crash, JobInv
  <2>2. seen[h] \in Nat
    BY <1>0 DEF Typed
  <2>3. publish'.state # "absent"
    BY <1>0, <1>4, <2>1, <2>2, JobSteps
    DEF PublishStep, Publish, Claim, Load, Begin, FindReceipt, InsertReceipt, Finish,
        NotifyPublished, Complete, LoadCounts, FailWrite, ReclaimScan, ReclaimLive, Scan,
        Leave, Crash
  <2>4. QED
    BY <1>0, <1>1, <2>1, <2>3 DEF JobInv
<1>6. ASSUME NEW r \in Reviewer, ReviewStep(r), ~EnqueuePublish(r)
      PROVE  UNCHANGED <<publish, pc>>
  BY <1>6 DEF ReviewStep, Answer, View, Decide, InsertDecision, NotifyQuarantine, PostLost
<1>7. CASE Reopen \/ Rereview \/ Resubmit
  BY <1>2, <1>7 DEF Reopen, Rereview, Resubmit
<1>8. QED
  BY <1>2, <1>3, <1>4, <1>6, <1>7 DEF Next, ReviewStep, PublishStep

-----------------------------------------------------------------------------
(***************************************************************************)
(* Every step keeps the receipts in order.                                 *)
(***************************************************************************)

Inserting == {h \in Publisher : pc[h] = "insert"}

LEMMA InsertingIsFinite ==
  /\ IsFiniteSet(Publisher) /\ Cardinality(Publisher) \in Nat
  /\ IsFiniteSet(Inserting) /\ Cardinality(Inserting) \in Nat
  /\ Cardinality(Inserting) <= Cardinality(Publisher)
<1>1. IsFiniteSet(Publisher) /\ Cardinality(Publisher) \in Nat
  BY ReviewConstantsOK, FS_CardinalityType
<1>2. Inserting \subseteq Publisher
  BY DEF Inserting
<1>3. QED
  BY <1>1, <1>2, FS_Subset, FS_CardinalityType

\* The parts of PublishInv about the receipts and about the publishers.
ReceiptPart ==
  /\ receipts # <<>> => state \in {"publishing", "published"}
  /\ \A i \in DOMAIN receipts :
       /\ ApprovedBy(receipts[i].decision)
       /\ receipts[i].analyses = 1 .. versions
  /\ state = "published" => receipts # <<>>

PlacePart ==
  \A h \in Publisher :
    /\ pc[h] \in {"receipt", "insert", "finish"} => state \in {"publishing", "published"}
    /\ pc[h] = "finish" => receipts # <<>>

WinnerPart ==
  /\ \A h \in Publisher :
       pc[h] = "notify" =>
         /\ state = "published" /\ notices["published"] = 0
         /\ \A g \in Publisher : pc[g] = "notify" => g = h
  /\ notices["published"] <= 1
  /\ notices["published"] = 1 => state = "published"

\* A request changes the state only of a run that no publisher has, and may add
\* a decision.
LEMMA RequestsKeepReceipts ==
  ASSUME Inv, (\E r \in Reviewer : ReviewStep(r)) \/ Reopen \/ Rereview \/ Resubmit
  PROVE  PublishInv'
<1>0. Typed /\ PublishInv /\ notices \in [Event -> Nat]
  BY DEF Inv, Typed
<1>1. /\ UNCHANGED <<receipts, pc>>
      /\ notices'["published"] = notices["published"]
  <2>1. ASSUME NEW r \in Reviewer, NotifyQuarantine(r)
        PROVE  notices'["published"] = notices["published"]
    BY <1>0, <2>1 DEF NotifyQuarantine, Event
  <2>2. QED
    BY <2>1 DEF ReviewStep, Answer, View, Decide, InsertDecision, EnqueuePublish, NotifyQuarantine,
                PostLost, Reopen, Rereview, Resubmit, records
<1>2. \/ UNCHANGED state
      \/ /\ state \in {"awaiting_review", "quarantined", "parsing"}
         /\ state' # "published"
  <2>1. ASSUME NEW r \in Reviewer, NEW kind \in Kind, Decide(r, kind)
        PROVE  state = "awaiting_review" /\ state' # "published"
    BY <1>0, <2>1, DecideSteps, Kinds
  <2>2. QED
    BY <2>1 DEF ReviewStep, Answer, View, InsertDecision, EnqueuePublish, NotifyQuarantine,
                PostLost, Reopen, Rereview, Resubmit
<1>3. \A i \in DOMAIN decisions : i \in DOMAIN decisions' /\ decisions'[i] = decisions[i]
  <2>1. ASSUME NEW r \in Reviewer, InsertDecision(r)
        PROVE  \A i \in DOMAIN decisions : i \in DOMAIN decisions' /\ decisions'[i] = decisions[i]
    <3>1. /\ decisions \in Seq(Entry) /\ Row(r) \in Entry
          /\ decisions' = Append(decisions, Row(r))
      BY <1>0, <2>1, InsertSteps DEF Typed
    <3>2. QED
      BY <3>1, Appended
  <2>2. QED
    BY <2>1 DEF ReviewStep, Answer, View, Decide, EnqueuePublish, NotifyQuarantine, PostLost,
                Reopen, Rereview, Resubmit, records
<1>4. receipts # <<>> => UNCHANGED versions
  BY <1>0 DEF ReviewStep, Answer, View, Decide, InsertDecision, EnqueuePublish, NotifyQuarantine,
              PostLost, Reopen, Rereview, Resubmit, PublishInv
<1>5. ReceiptPart'
  <2>1. receipts # <<>> => UNCHANGED state
    BY <1>0, <1>2 DEF PublishInv
  <2>2. ASSUME NEW i \in DOMAIN receipts
        PROVE  ApprovedBy(receipts[i].decision)' /\ receipts[i].analyses = 1 .. versions'
    <3>1. receipts # <<>>
      BY <1>0, <2>2 DEF Typed
    <3>2. ApprovedBy(receipts[i].decision) /\ receipts[i].analyses = 1 .. versions
      BY <1>0, <2>2 DEF PublishInv
    <3>3. QED
      BY <1>1, <1>3, <1>4, <3>1, <3>2 DEF ApprovedBy
  <2>3. QED
    BY <1>0, <1>1, <1>2, <2>1, <2>2 DEF PublishInv, ReceiptPart
<1>6. PlacePart' /\ WinnerPart'
  BY <1>0, <1>1, <1>2 DEF PublishInv, PlacePart, WinnerPart
<1>7. (Len(receipts) + Cardinality(Inserting) <= Cardinality(Publisher))'
  BY <1>0, <1>1 DEF PublishInv, Inserting
<1>8. QED
  BY <1>5, <1>6, <1>7 DEF PublishInv, ReceiptPart, PlacePart, WinnerPart, Inserting

\* Publishers that come to the insert find no receipt; the insert takes one away.
LEMMA ReceiptsStayBounded ==
  ASSUME Inv, \E h \in Publisher : PublishStep(h)
  PROVE  (Len(receipts) + Cardinality(Inserting) <= Cardinality(Publisher))'
<1>0. /\ Typed /\ PublishInv /\ pc \in [Publisher -> Position]
      /\ receipts \in Seq(Receipt) /\ Len(receipts) \in Nat
      /\ Len(receipts) + Cardinality(Inserting) <= Cardinality(Publisher)
  BY DEF Inv, Typed, PublishInv, Inserting
<1>1. ASSUME NEW h \in Publisher, InsertReceipt(h)
      PROVE  (Len(receipts) + Cardinality(Inserting) <= Cardinality(Publisher))'
  <2>1. Len(receipts') = Len(receipts) + 1
    BY <1>0, <1>1, AppendProperties DEF InsertReceipt
  <2>2. h \in Inserting /\ Inserting' = Inserting \ {h}
    BY <1>0, <1>1 DEF InsertReceipt, Inserting, Goto
  <2>3. Cardinality(Inserting \ {h}) = Cardinality(Inserting) - 1
    BY <2>2, InsertingIsFinite, FS_RemoveElement
  <2>4. QED
    BY <1>0, <2>1, <2>2, <2>3, InsertingIsFinite
<1>2. ASSUME NEW h \in Publisher, FindReceipt(h), receipts = <<>>
      PROVE  (Len(receipts) + Cardinality(Inserting) <= Cardinality(Publisher))'
  <2>1. receipts' = <<>>
    BY <1>2 DEF FindReceipt, records
  <2>2. Inserting' \subseteq Publisher
    BY DEF Inserting
  <2>3. Cardinality(Inserting') \in Nat /\ Cardinality(Inserting') <= Cardinality(Publisher)
    BY <2>2, InsertingIsFinite, FS_Subset, FS_CardinalityType
  <2>4. QED
    BY <2>1, <2>3, InsertingIsFinite
<1>3. CASE UNCHANGED receipts /\ Inserting' \subseteq Inserting
  <2>1. Cardinality(Inserting') \in Nat /\ Cardinality(Inserting') <= Cardinality(Inserting)
    BY <1>3, InsertingIsFinite, FS_Subset, FS_CardinalityType
  <2>2. QED
    BY <1>0, <1>3, <2>1, InsertingIsFinite
<1>4. ASSUME NEW h \in Publisher, PublishStep(h), ~InsertReceipt(h),
             ~(FindReceipt(h) /\ receipts = <<>>)
      PROVE  UNCHANGED receipts /\ Inserting' \subseteq Inserting
  <2>1. UNCHANGED receipts
    BY <1>4 DEF PublishStep, Publish, Claim, Load, Begin, FindReceipt, Finish,
                NotifyPublished, Complete, LoadCounts, FailWrite, ReclaimScan,
                ReclaimLive, Scan, Leave, Crash, records
  <2>2. \E position \in Position \ {"insert"} : pc' = [pc EXCEPT ![h] = position]
    BY <1>4 DEF PublishStep, Publish, Claim, Load, Begin, FindReceipt, Finish,
                NotifyPublished, Complete, LoadCounts, FailWrite, ReclaimScan,
                ReclaimLive, Scan, Leave, Crash, Transition, Goto, Position
  <2>3. QED
    BY <1>0, <2>1, <2>2 DEF Inserting
<1>5. QED
  BY <1>1, <1>2, <1>3, <1>4

LEMMA PublishersKeepReceipts ==
  ASSUME Inv, \E h \in Publisher : PublishStep(h)
  PROVE  PublishInv'
<1>0. /\ Typed /\ PublishInv /\ DecisionInv /\ JobInv
      /\ notices \in [Event -> Nat] /\ pc \in [Publisher -> Position]
  BY DEF Inv, Typed
<1>1. /\ UNCHANGED <<versions, verdicts, decisions, post, shown>>
      /\ \/ UNCHANGED state
         \/ state = "approved" /\ state' = "publishing"
         \/ state = "publishing" /\ state' = "published"
  BY <1>0, PublishSteps
<1>2. /\ receipts # <<>> => receipts' # <<>>
      /\ UNCHANGED receipts \/ \E h \in Publisher : InsertReceipt(h)
  <2>1. ASSUME NEW h \in Publisher, InsertReceipt(h)
        PROVE  receipts' # <<>>
    <3>1. PICK e \in Receipt : receipts' = Append(receipts, e)
      BY <1>0, <2>1, ReceiptSteps
    <3>2. receipts \in Seq(Receipt)
      BY <1>0 DEF Typed
    <3>3. QED
      BY <3>1, <3>2, Appended
  <2>2. QED
    BY <2>1 DEF PublishStep, Publish, Claim, Load, Begin, FindReceipt, Finish,
                NotifyPublished, Complete, LoadCounts, FailWrite, ReclaimScan,
                ReclaimLive, Scan, Leave, Crash, records
<1>3. state' = "published" /\ state # "published" => \E h \in Publisher : Finish(h)
  BY <1>1
  DEF PublishStep, Publish, Claim, Load, Begin, FindReceipt, InsertReceipt,
      NotifyPublished, Complete, LoadCounts, FailWrite, ReclaimScan, ReclaimLive, Scan,
      Leave, Crash, Transition
<1>4. ReceiptPart'
  <2>1. ASSUME NEW h \in Publisher, InsertReceipt(h)
        PROVE  ReceiptPart'
    <3>1. PICK d \in DOMAIN decisions :
            /\ ApprovedBy(d)
            /\ Citing(d) \in Receipt
            /\ receipts' = Append(receipts, Citing(d))
      BY <1>0, <2>1, ReceiptSteps
    <3>2. receipts \in Seq(Receipt)
      BY <1>0 DEF Typed
    <3>3. /\ DOMAIN receipts = 1 .. Len(receipts) /\ Len(receipts) \in Nat
          /\ DOMAIN receipts' = 1 .. Len(receipts) + 1
          /\ \A i \in 1 .. Len(receipts) : receipts'[i] = receipts[i]
          /\ receipts'[Len(receipts) + 1] = Citing(d)
          /\ receipts' # <<>>
      BY <3>1, <3>2, Appended
    <3>4. UNCHANGED state /\ state \in {"publishing", "published"}
      BY <1>0, <2>1 DEF InsertReceipt, PublishInv
    <3>5. ASSUME NEW i \in DOMAIN receipts'
          PROVE  ApprovedBy(receipts[i].decision)' /\ receipts'[i].analyses = 1 .. versions'
      <4>1. CASE i \in DOMAIN receipts
        BY <1>0, <1>1, <3>3, <4>1 DEF PublishInv, ApprovedBy
      <4>2. CASE i = Len(receipts) + 1
        BY <1>1, <3>1, <3>3, <4>2 DEF ApprovedBy, Citing
      <4>3. QED
        BY <3>3, <4>1, <4>2
    <3>6. QED
      BY <3>3, <3>4, <3>5 DEF ReceiptPart
  <2>2. CASE UNCHANGED receipts
    <3>1. state' = "published" => receipts # <<>>
      BY <1>0, <1>3 DEF PublishInv, Finish
    <3>2. QED
      BY <1>0, <1>1, <2>2, <3>1 DEF PublishInv, ReceiptPart, ApprovedBy
  <2>3. QED
    BY <1>2, <2>1, <2>2
<1>5. PlacePart'
  <2>1. state \in {"publishing", "published"} => state' \in {"publishing", "published"}
    BY <1>1
  <2>2. ASSUME NEW h \in Publisher, PublishStep(h)
        PROVE  /\ \A g \in Publisher \ {h} : pc'[g] = pc[g]
               /\ pc'[h] \in {"receipt", "insert", "finish"} =>
                    state' \in {"publishing", "published"}
               /\ pc'[h] = "finish" => receipts' # <<>>
    <3>1. InsertReceipt(h) => receipts' # <<>>
      <4>1. ReceiptPart' /\ (InsertReceipt(h) => Len(receipts') = Len(receipts) + 1)
        BY <1>0, <1>4, AppendProperties DEF InsertReceipt, Typed
      <4>2. QED
        BY <1>0, <4>1 DEF Typed
    <3>2. QED
      BY <1>0, <1>2, <2>1, <2>2, <3>1
      DEF PublishStep, Publish, Claim, Load, Begin, FindReceipt, InsertReceipt, Finish,
          NotifyPublished, Complete, LoadCounts, FailWrite, ReclaimScan, ReclaimLive,
          Scan, Leave, Crash, Transition, Goto, PublishInv, Position, records
  <2>3. ASSUME NEW h \in Publisher, PublishStep(h)
        PROVE  PlacePart'
    BY <1>0, <1>2, <2>1, <2>2, <2>3 DEF PublishInv, PlacePart
  <2>4. QED
    BY <2>3
<1>6. WinnerPart'
  <2>1. ASSUME NEW h \in Publisher, Finish(h)
        PROVE  WinnerPart'
    <3>1. UNCHANGED notices
      BY <2>1 DEF Finish, records
    <3>2. CASE state = "publishing"
      <4>1. \A g \in Publisher : pc[g] # "notify"
        BY <1>0, <3>2 DEF PublishInv
      <4>2. notices["published"] = 0
        BY <1>0, <3>2 DEF PublishInv, Event
      <4>3. /\ \A g \in Publisher \ {h} : pc'[g] = pc[g]
            /\ state' = "published" \/ (UNCHANGED state /\ pc'[h] = "failed")
        BY <1>0, <2>1 DEF Finish, Transition, Goto
      <4>4. QED
        BY <1>0, <3>1, <4>1, <4>2, <4>3 DEF WinnerPart
    <3>3. CASE state # "publishing"
      <4>1. UNCHANGED state /\ pc' = [pc EXCEPT ![h] = "failed"]
        BY <2>1, <3>3 DEF Finish, Transition, Goto
      <4>2. QED
        BY <1>0, <3>1, <4>1 DEF PublishInv, WinnerPart
    <3>4. QED
      BY <3>2, <3>3
  <2>2. ASSUME NEW h \in Publisher, NotifyPublished(h)
        PROVE  WinnerPart'
    <3>1. /\ state = "published" /\ notices["published"] = 0
          /\ \A g \in Publisher \ {h} : pc[g] # "notify"
      BY <1>0, <2>2 DEF NotifyPublished, PublishInv
    <3>2. UNCHANGED state /\ pc' = [pc EXCEPT ![h] = "done"]
      BY <2>2 DEF NotifyPublished, Goto
    <3>3. notices'["published"] \in {0, 1}
      BY <1>0, <2>2, <3>1 DEF NotifyPublished, Event
    <3>4. QED
      BY <1>0, <3>1, <3>2, <3>3 DEF WinnerPart
  <2>3. ASSUME NEW h \in Publisher, PublishStep(h), ~Finish(h), ~NotifyPublished(h)
        PROVE  WinnerPart'
    <3>1. /\ UNCHANGED notices
          /\ \E position \in Position \ {"notify"} : pc' = [pc EXCEPT ![h] = position]
      BY <2>3
      DEF PublishStep, Publish, Claim, Load, Begin, FindReceipt, InsertReceipt, Complete,
          LoadCounts, FailWrite, ReclaimScan, ReclaimLive, Scan, Leave, Crash, Transition,
          Goto, Position, records
    <3>2. QED
      BY <1>0, <1>1, <3>1 DEF PublishInv, WinnerPart
  <2>4. QED
    BY <2>1, <2>2, <2>3
<1>7. QED
  BY <1>4, <1>5, <1>6, ReceiptsStayBounded
  DEF PublishInv, ReceiptPart, PlacePart, WinnerPart, Inserting

-----------------------------------------------------------------------------
(***************************************************************************)
(* The theorems.                                                           *)
(***************************************************************************)

LEMMA InvInit == Init => Inv
<1> SUFFICES ASSUME Init PROVE Inv
  OBVIOUS
<1> USE ReviewConstantsOK
<1>1. /\ verdicts = <<>> /\ decisions = <<>> /\ receipts = <<>>
      /\ state = "awaiting_review" /\ versions = 1
      /\ \A r \in Reviewer : post[r] = [kind |-> "none", next |-> "none"]
      /\ \A h \in Publisher : pc[h] = "idle"
      /\ notices["quarantined"] = 0 /\ notices["published"] = 0
      /\ publish.state = "absent"
  BY DEF Init, NoPost, NoJob, Event
<1>2. Typed
  <2>1. JobTyped
    BY DEF Init, JobTyped, JobRecord, NoJob
  <2>2. pc \in [Publisher -> Position] /\ post \in [Reviewer -> Post]
    BY DEF Init, Position, Post
  <2>3. notices \in [Event -> Nat] /\ shown \in [Reviewer -> 0 .. versions]
    BY <1>1 DEF Init
  <2>4. crashes \in 0 .. MaxCrashes /\ seen \in [Publisher -> Nat] /\ versions \in 1 .. MaxReviews
    BY DEF Init
  <2>5. QED
    BY <1>1, <2>1, <2>2, <2>3, <2>4 DEF Typed
<1>3. VerdictInv /\ DecisionInv /\ JobInv
  BY <1>1 DEF VerdictInv, DecisionInv, JobInv, Approved
<1>4. CountInv
  <2>1. /\ \A S : Indices(verdicts, S) = {} /\ Indices(decisions, S) = {}
        /\ Announcing = {}
    BY <1>1 DEF Indices, Announcing
  <2>2. \A r \in Reviewer, kind \in Kind : Undecided(r, kind) = 0
    BY <1>1 DEF Undecided
  <2>3. /\ \A S : /\ Cardinality(Indices(verdicts, S)) = 0
                   /\ Cardinality(Indices(decisions, S)) = 0
        /\ Cardinality(Announcing) = 0
    BY <2>1, FS_EmptySet
  <2>4. notices["quarantined"] + Cardinality(Announcing)
          <= Cardinality(Indices(verdicts, Quarantining))
    BY <1>1, <2>3
  <2>5. QED
    BY <2>2, <2>3, <2>4 DEF CountInv, Announcing
<1>5. PublishInv
  <2>1. Inserting = {} /\ Len(receipts) = 0
    BY <1>1 DEF Inserting
  <2>2. Len(receipts) + Cardinality(Inserting) <= Cardinality(Publisher)
    BY <2>1, InsertingIsFinite, FS_EmptySet
  <2>3. QED
    BY <1>1, <2>2 DEF PublishInv, Inserting
<1>6. QED
  BY <1>2, <1>3, <1>4, <1>5 DEF Inv

LEMMA InvNext == Inv /\ [Next]_vars => Inv'
<1>1. ASSUME Inv, Next
      PROVE  Inv'
  <2>1. PublishInv'
    BY <1>1, RequestsKeepReceipts, PublishersKeepReceipts DEF Next, ReviewStep, PublishStep
  <2>2. QED
    BY <1>1, <2>1, TypedNext, VerdictNext, DecisionNext, CountNext, JobNext DEF Inv
<1>2. ASSUME Inv, UNCHANGED vars
      PROVE  Inv'
  <2>1. Typed' /\ VerdictInv'
    BY <1>2 DEF Inv, Typed, JobTyped, VerdictInv, vars, records
  <2>2. DecisionInv' /\ JobInv'
    BY <1>2 DEF Inv, DecisionInv, ApprovedBy, Row, JobInv, vars, records
  <2>3. CountInv' /\ PublishInv'
    BY <1>2 DEF Inv, CountInv, Undecided, PublishInv, ApprovedBy, vars, records
  <2>4. QED
    BY <2>1, <2>2, <2>3 DEF Inv
<1>3. QED
  BY <1>1, <1>2

LEMMA Invariance == Spec => []Inv
BY InvInit, InvNext, PTL DEF Spec

\* The rows of the review gate, the requests in progress and the publish job stay
\* well formed, and no receipt cites a decision or a review artifact that is not
\* there.
THEOREM TypeCorrect == Spec => []TypeOK
<1>1. ASSUME Inv
      PROVE  TypeOK
  <2>1. Typed /\ JobTyped /\ versions \in Nat \ {0} /\ Cardinality(Publisher) \in Nat
    BY <1>1, ReviewConstantsOK, InsertingIsFinite DEF Inv, Typed
  <2>2. publish \in JobRecord
    BY <2>1 DEF JobTyped
  <2>3. receipts \in Seq([decision: 0 .. Len(decisions), analyses: SUBSET (1 .. versions)])
    <3>1. \A i \in 1 .. Len(receipts) :
            receipts[i] \in [decision: 0 .. Len(decisions), analyses: SUBSET (1 .. versions)]
      <4>1. \A i \in 1 .. Len(receipts) : receipts[i] \in Receipt
        BY <2>1, ElementOfSeq DEF Typed
      <4>2. DOMAIN decisions = 1 .. Len(decisions) /\ DOMAIN receipts = 1 .. Len(receipts)
        BY <2>1 DEF Typed
      <4>3. \A i \in 1 .. Len(receipts) :
              /\ receipts[i].decision \in 0 .. Len(decisions)
              /\ receipts[i].analyses \in SUBSET (1 .. versions)
        BY <1>1, <2>1, <4>1, <4>2 DEF Inv, PublishInv, ApprovedBy
      <4>4. QED
        BY <4>1, <4>3 DEF Receipt
    <3>2. QED
      <4> DEFINE S == Receipt
                 T == [decision: 0 .. Len(decisions), analyses: SUBSET (1 .. versions)]
      <4>1. receipts \in Seq(S) /\ \A i \in 1 .. Len(receipts) : receipts[i] \in T
        BY <2>1, <3>1 DEF Typed
      <4> HIDE DEF S, T
      <4>2. receipts \in Seq(T)
        BY <4>1, Retyped
      <4>3. QED
        BY <4>2 DEF T
  <2>4. QED
    BY <2>1, <2>2, <2>3 DEF Typed, TypeOK, Post, Position
<1>2. QED
  BY <1>1, Invariance, PTL

\* Whatever the reviewers ask for at the same time, and whichever of their requests
\* are lost half-way, a decision row is written only by a request that moved the
\* run, once, and with the review artifact the run was moved with: insertDecision
\* looks the artifact up again, after the transition's commit.
THEOREM DecisionsAreBacked == Spec => []DecisionsAreVerdicts
<1>1. ASSUME Inv
      PROVE  DecisionsAreVerdicts
  <2>1. /\ Typed /\ CountInv /\ DecisionInv
        /\ verdicts \in Seq(Entry) /\ decisions \in Seq(Entry)
        /\ notices["quarantined"] \in Nat
    BY <1>1 DEF Inv, Typed, Event
  <2>2. ASSUME NEW r \in Reviewer, NEW kind \in Kind
        PROVE  Cardinality({i \in DOMAIN decisions :
                              decisions[i].reviewer = r /\ decisions[i].kind = kind})
                 <= Cardinality({i \in DOMAIN verdicts :
                                   verdicts[i].reviewer = r /\ verdicts[i].kind = kind})
    <3>1. /\ Indices(decisions, By(r, kind))
               = {i \in DOMAIN decisions :
                    decisions[i].reviewer = r /\ decisions[i].kind = kind}
          /\ Indices(verdicts, By(r, kind))
               = {i \in DOMAIN verdicts :
                    verdicts[i].reviewer = r /\ verdicts[i].kind = kind}
      BY <2>1, Entries DEF Indices, By
    <3>2. Undecided(r, kind) \in {0, 1}
      BY DEF Undecided
    <3>3. Cardinality(Indices(decisions, By(r, kind)))
            <= Cardinality(Indices(verdicts, By(r, kind)))
      BY <2>1, <3>2, IndicesAreFinite DEF CountInv
    <3>4. QED
      BY <3>1, <3>3
  <2>3. notices["quarantined"]
          <= Cardinality({i \in DOMAIN verdicts : verdicts[i].kind = "quarantine"})
    <3>1. Indices(verdicts, Quarantining)
            = {i \in DOMAIN verdicts : verdicts[i].kind = "quarantine"}
      BY <2>1, Entries DEF Indices, Quarantining
    <3>2. IsFiniteSet(Announcing)
      BY ReviewConstantsOK, FS_Subset DEF Announcing
    <3>3. Cardinality(Announcing) \in Nat /\ Cardinality(Indices(verdicts, Quarantining)) \in Nat
      BY <2>1, <3>2, FS_CardinalityType, IndicesAreFinite
    <3>4. QED
      BY <2>1, <3>1, <3>3 DEF CountInv, Announcing
  <2>4. QED
    BY <2>1, <2>2, <2>3 DEF DecisionsAreVerdicts, DecisionInv, Backed
<1>2. QED
  BY <1>1, Invariance, PTL

\* A published run has a receipt, and however often handlePublish is retried and
\* however many workers run it at once, each receipt cites the one approval and
\* lists the analysis it was given for, besides earlier ones that have all been
\* quarantined; there are no more receipts than workers, and the publication is
\* announced at most once.
THEOREM ReceiptsAreBacked == Spec => []ReceiptIsBacked
<1>1. ASSUME Inv
      PROVE  ReceiptIsBacked
  <2>1. /\ Typed /\ VerdictInv /\ DecisionInv /\ PublishInv
        /\ verdicts \in Seq(Entry) /\ decisions \in Seq(Entry)
        /\ receipts \in Seq(Receipt) /\ Len(receipts) \in Nat
    BY <1>1 DEF Inv, Typed
  <2>2. ASSUME NEW i \in DOMAIN receipts
        PROVE  /\ receipts[i].decision # 0
               /\ decisions[receipts[i].decision] = Last(verdicts)
               /\ receipts[i].analyses = 1 .. Last(verdicts).version
               /\ \A n \in receipts[i].analyses \ {Last(verdicts).version} :
                    \E j \in DOMAIN verdicts : /\ verdicts[j].version = n
                                              /\ verdicts[j].kind = "quarantine"
    <3> DEFINE d == receipts[i].decision
    <3>1. /\ d \in DOMAIN decisions /\ decisions[d].kind = "approve"
          /\ receipts[i].analyses = 1 .. versions
      BY <2>1 DEF PublishInv, ApprovedBy
    <3> HIDE DEF d
    <3>2. PICK j \in DOMAIN verdicts :
            /\ verdicts[j].reviewer = decisions[d].reviewer
            /\ verdicts[j].kind = "approve"
            /\ verdicts[j].version = decisions[d].version
      <4>1. Backed(verdicts, decisions[d])
        BY <2>1, <3>1 DEF DecisionInv
      <4>2. QED
        BY <3>1, <4>1 DEF Backed
    <3>3. j = Len(verdicts) /\ verdicts[j].version = versions
      BY <2>1, <3>2 DEF VerdictInv
    <3>4. verdicts[j] = decisions[d]
      <4>1. verdicts[j] \in Entry /\ decisions[d] \in Entry
        BY <2>1, <3>1, <3>2, Entries
      <4>2. QED
        BY <3>1, <3>2, <4>1 DEF Entry
    <3>5. d # 0
      BY <2>1, <3>1
    <3>6. Last(verdicts) = verdicts[j]
      BY <3>3 DEF Last
    <3>7. ASSUME NEW n \in receipts[i].analyses \ {versions}
          PROVE  \E k \in DOMAIN verdicts : /\ verdicts[k].version = n
                                            /\ verdicts[k].kind = "quarantine"
      BY <2>1, <3>1, <3>7 DEF VerdictInv, Typed
    <3>8. QED
      BY <3>1, <3>3, <3>4, <3>5, <3>6, <3>7 DEF d
  <2>3. Len(receipts) <= Cardinality(Publisher)
    BY <2>1, InsertingIsFinite DEF PublishInv, Inserting
  <2>4. QED
    BY <2>1, <2>2, <2>3 DEF PublishInv, ReceiptIsBacked
<1>2. QED
  BY <1>1, Invariance, PTL

\* No request says which analysis its reviewer has seen; still, if a run is
\* approved with another one than was on the page, the one on the page has been
\* quarantined in the meantime.
THEOREM ApprovalsInformed == Spec => ApprovalsAreInformed
<1> DEFINE Informed ==
      \A r \in Reviewer :
        (/\ verdicts' # verdicts
         /\ Last(verdicts').reviewer = r
         /\ Last(verdicts').kind = "approve"
         /\ shown[r] \notin {0, versions})
        => \E i \in DOMAIN verdicts : /\ verdicts[i].kind = "quarantine"
                                     /\ verdicts[i].version = shown[r]
<1>1. Inv /\ [Next]_vars => [Informed]_vars
  <2> SUFFICES ASSUME Inv, NEW r \in Reviewer, shown[r] \notin {0, versions}
               PROVE  \E i \in DOMAIN verdicts : /\ verdicts[i].kind = "quarantine"
                                                /\ verdicts[i].version = shown[r]
    OBVIOUS
  <2>1. shown[r] \in 1 .. versions /\ shown[r] < versions
    BY DEF Inv, Typed
  <2>2. QED
    BY <2>1 DEF Inv, VerdictInv
<1>2. QED
  BY <1>1, Invariance, PTL DEF Spec, ApprovalsAreInformed
=============================================================================
