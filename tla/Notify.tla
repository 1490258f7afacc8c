------------------------------- MODULE Notify -------------------------------
(***************************************************************************)
(* Notifications of one run (internal/notify, and the callers of           *)
(* insert_notification in workers/labdata): a notifications row and a      *)
(* send_notification job are inserted by two commits, whose errors are     *)
(* ignored, and a Go worker delivers the text and then each photo over     *)
(* HTTP.  The outcome is written to the row by a statement whose error is  *)
(* ignored too; the job is settled after that, by the worker loop.  Fail   *)
(* and ReclaimStale are the statements of JobQueue; every Go worker runs   *)
(* ReclaimStale between two jobs.                                          *)
(***************************************************************************)
EXTENDS JobRow, FiniteSets, Sequences, SequencesExt

CONSTANTS
  Note,         \* the notifications that may be asked for
  Key,          \* idempotency keys of their jobs
  KeyOf,        \* note -> its key: its own, or in Python that of its run
  Photos,       \* note -> its photo_paths, "" among them or not
  Missing,      \* paths with no file that Telegram would take
  Worker,       \* Go workers
  Config,       \* what admins may put into notification_config
  EnvToken,     \* whether the environment provides a bot token
  MaxAttempts,  \* max_attempts of the jobs
  MaxFaults,    \* bound on requests, statements and processes lost, and on the
                \* locks that expire under a live worker
  None

Text == "text"

\* A path that the loop over photo_paths passes over.
NoPath == ""

ASSUME NotifyConstantsOK ==
  /\ KeyOf \in [Note -> Key]
  /\ None \notin Note \cup Key \cup Config
  /\ \A n \in Note : /\ Photos[n] \in Seq(STRING) /\ IsInjective(Photos[n])
                    /\ Text \notin ToSet(Photos[n])
  /\ Text \notin Missing
  /\ Config \subseteq [token: BOOLEAN, chat: BOOLEAN, on: BOOLEAN]
  /\ EnvToken \in BOOLEAN
  /\ IsFiniteSet(Worker)
  /\ MaxAttempts \in Nat \ {0}
  /\ MaxFaults \in Nat

VARIABLES
  config,    \* the singleton row of notification_config, or None
  rows,      \* note -> the status of its notifications row
  asking,    \* the notes whose row is inserted and whose job is not yet
  jobs,      \* key -> the jobs row
  subject,   \* key -> the notification_id in the payload of the job
  handler,   \* worker -> its job, its position in the worker loop and handleSend,
             \* the next item to deliver and the attempt_count its Fail has read
  chat,      \* note -> what has been delivered, oldest first
  excused,   \* history: the notes that could have been skipped: delivery was
             \* off, or config could not be read, since they were asked for
  faults

queue == <<jobs, subject>>
told == <<config, chat, excused>>
vars == <<config, rows, asking, jobs, subject, handler, chat, excused, faults>>

Idle == [pc |-> "idle", key |-> None, next |-> 0, seen |-> 0]

Position == {"idle", "load", "send", "skip", "mark", "fail", "done", "failed", "failing",
             "stale", "releasing"}

\* What there is to deliver: the text, then the photos.
Items(n) == <<Text>> \o Photos[n]

\* Where the loop finds something to deliver after the first i: the photos that
\* have a path.
Left(n, i) == {j \in i + 1 .. Len(Items(n)) : Items(n)[j] # NoPath}

\* The rows, jobs and workers are well formed; a job has a subject and a worker
\* a job; what was delivered was asked for.
TypeOK ==
  /\ config \in Config \cup {None}
  /\ rows \in [Note -> {"absent", "pending", "skipped", "failed", "sent"}]
  /\ asking \subseteq {n \in Note : rows[n] = "pending"}
  /\ jobs \in [Key -> JobRecord]
  /\ subject \in [Key -> Note \cup {None}]
  /\ \A k \in Key : subject[k] = None <=> jobs[k].state = "absent"
  /\ \A w \in Worker :
       /\ handler[w].pc \in Position /\ handler[w].seen \in Nat
       /\ handler[w].pc = "idle" <=> handler[w] = Idle
       /\ handler[w].pc = "send" =>
            handler[w].next \in 1 .. Len(Items(subject[handler[w].key]))
  /\ \A n \in Note : ToSet(chat[n]) \subseteq ToSet(Items(n))
  /\ excused \subseteq Note
  /\ faults \in 0 .. MaxFaults

Init ==
  /\ config = None
  /\ rows = [n \in Note |-> "absent"]
  /\ asking = {}
  /\ jobs = [k \in Key |-> NoJob]
  /\ subject = [k \in Key |-> None]
  /\ handler = [w \in Worker |-> Idle]
  /\ chat = [n \in Note |-> <<>>]
  /\ excused = {}
  /\ faults = 0

Fault == faults < MaxFaults /\ faults' = faults + 1

-----------------------------------------------------------------------------
(***************************************************************************)
(* The configuration.                                                      *)
(***************************************************************************)

\* handleSend, 3 and 4: without a row there is no chat; the flag of the event
\* may be off; a row without a token leaves the one of the environment.
Deliverable(c) == c # None /\ c.on /\ (c.token \/ EnvToken) /\ c.chat

Excuse(notes) == excused' = excused \cup notes

\* handleConfigPut: an upsert of the one row.
PutConfig(c) ==
  /\ c # config
  /\ config' = c
  /\ Excuse(IF Deliverable(c) THEN {} ELSE {n \in Note : rows[n] # "absent"})
  /\ UNCHANGED <<rows, asking, queue, handler, chat, faults>>

-----------------------------------------------------------------------------
(***************************************************************************)
(* Enqueue, and its counterpart in Python.                                 *)
(***************************************************************************)

InsertRow(n) ==
  /\ rows[n] = "absent"
  /\ rows' = [rows EXCEPT ![n] = "pending"]
  /\ asking' = asking \cup {n}
  /\ Excuse(IF Deliverable(config) THEN {} ELSE {n})
  /\ UNCHANGED <<config, queue, handler, chat, faults>>

\* The job, unless one has the key already: then this row has no job.
EnqueueJob(n) ==
  LET k == KeyOf[n] IN
  /\ n \in asking
  /\ asking' = asking \ {n}
  /\ jobs' = [jobs EXCEPT ![k] = Enqueued(@)]
  /\ subject' = IF jobs[k].state = "absent" THEN [subject EXCEPT ![k] = n] ELSE subject
  /\ UNCHANGED <<rows, handler, faults, told>>

\* Its insert fails, or the process dies before it; the caller ignores that.
EnqueueLost(n) ==
  /\ n \in asking
  /\ Fault
  /\ asking' = asking \ {n}
  /\ UNCHANGED <<rows, handler, queue, told>>

-----------------------------------------------------------------------------
(***************************************************************************)
(* handleSend, and the worker loop around it.                              *)
(***************************************************************************)

Goto(w, position) == handler' = [handler EXCEPT ![w].pc = position]

\* The note that a worker is about.
Subject(w) == subject[handler[w].key]

Claim(w, k) ==
  /\ handler[w] = Idle
  /\ jobs[k].state = "queued"
  /\ jobs' = [jobs EXCEPT ![k] = Started(@)]
  /\ handler' = [handler EXCEPT ![w] = [pc |-> "load", key |-> k, next |-> 1, seen |-> 0]]
  /\ UNCHANGED <<rows, asking, subject, faults, told>>

LoadConfig(w) ==
  /\ handler[w].pc = "load"
  /\ Goto(w, IF Deliverable(config) THEN "send" ELSE "skip")
  /\ UNCHANGED <<rows, asking, queue, faults, told>>

\* Any error of the query passes for an empty table.
LoadConfigFails(w) ==
  /\ handler[w].pc = "load"
  /\ Fault
  /\ Goto(w, "skip")
  /\ Excuse({Subject(w)})
  /\ UNCHANGED <<config, rows, asking, queue, chat>>

\* sendMessage, or sendPhoto, and the response says ok.
Send(w) ==
  LET item == Items(Subject(w))[handler[w].next]
      left == Left(Subject(w), handler[w].next)
  IN
  /\ handler[w].pc = "send"
  /\ item \notin Missing
  /\ chat' = [chat EXCEPT ![Subject(w)] = Append(@, item)]
  /\ handler' = [handler EXCEPT ![w] =
                   IF left = {} THEN [@ EXCEPT !.pc = "mark"]
                   ELSE [@ EXCEPT !.next = Min(left)]]
  /\ UNCHANGED <<config, rows, asking, queue, excused, faults>>

\* Mutant: a photo that cannot be opened is passed over.
SendFailsSilently(w) ==
  /\ handler[w].pc = "send"
  /\ Items(Subject(w))[handler[w].next] \in Missing
  /\ Goto(w, "mark")
  /\ UNCHANGED <<rows, asking, queue, faults, told>>

\* The photo cannot be opened or is not accepted; or the call fails, and may
\* have been carried out all the same.  What follows is not sent.
SendFails(w) ==
  LET item == Items(Subject(w))[handler[w].next] IN
  /\ handler[w].pc = "send"
  /\ \/ item \in Missing /\ UNCHANGED <<chat, faults>>
     \/ item \notin Missing /\ Fault /\ UNCHANGED chat
     \/ item \notin Missing /\ Fault /\ chat' = [chat EXCEPT ![Subject(w)] = Append(@, item)]
  /\ Goto(w, "fail")
  /\ UNCHANGED <<config, rows, asking, queue, excused>>

\* setStatus, setStatusSent: errors are ignored.
SetStatus(w, status) ==
  \/ rows' = [rows EXCEPT ![Subject(w)] = status] /\ UNCHANGED faults
  \/ Fault /\ UNCHANGED rows

MarkSkipped(w) ==
  /\ handler[w].pc = "skip"
  /\ SetStatus(w, "skipped")
  /\ Goto(w, "done")
  /\ UNCHANGED <<asking, queue, told>>

MarkSent(w) ==
  /\ handler[w].pc = "mark"
  /\ SetStatus(w, "sent")
  /\ Goto(w, "done")
  /\ UNCHANGED <<asking, queue, told>>

MarkFailed(w) ==
  /\ handler[w].pc = "fail"
  /\ SetStatus(w, "failed")
  /\ Goto(w, "failed")
  /\ UNCHANGED <<asking, queue, told>>

Leave(w) == handler' = [handler EXCEPT ![w] = Idle]

Complete(w) ==
  /\ handler[w].pc = "done"
  /\ jobs' = [jobs EXCEPT ![handler[w].key] = Succeeded(@)]
  /\ Leave(w)
  /\ UNCHANGED <<rows, asking, subject, faults, told>>

\* Fail, of a handler or of ReclaimStale, reads the counts ...
LoadCounts(w) ==
  LET task == handler[w]
      position == IF task.pc = "failed" THEN "failing" ELSE "releasing"
  IN
  /\ task.pc \in {"failed", "stale"}
  /\ handler' = [handler EXCEPT ![w] =
                   [task EXCEPT !.pc = position, !.seen = jobs[task.key].attempts]]
  /\ UNCHANGED <<rows, asking, queue, faults, told>>

Failing(w) == handler[w].pc \in {"failing", "releasing"}

\* Mutant: an error of the handler settles the job.
FailForGood(w) ==
  /\ Failing(w)
  /\ jobs' = [jobs EXCEPT ![handler[w].key] = Succeeded(@)]
  /\ Leave(w)
  /\ UNCHANGED <<rows, asking, subject, faults, told>>

\* ... and returns the job to the queue, or buries it, whatever has become of it.
FailWrite(w) ==
  /\ Failing(w)
  /\ jobs' = [jobs EXCEPT ![handler[w].key] = Returned(@, handler[w].seen, MaxAttempts)]
  /\ Leave(w)
  /\ UNCHANGED <<rows, asking, subject, faults, told>>

\* The process dies, or the outcome of the job is not written.
Crash(w) ==
  /\ handler[w] # Idle
  /\ Fault
  /\ Leave(w)
  /\ UNCHANGED <<rows, asking, queue, told>>

\* A worker has the job, or believes that it does.
Live(k) == \E w \in Worker : handler[w].key = k /\ handler[w].pc \notin {"stale", "releasing"}

Scan(w, k) ==
  /\ handler[w] = Idle
  /\ jobs[k].state = "running"
  /\ handler' = [handler EXCEPT ![w] = [Idle EXCEPT !.pc = "stale", !.key = k]]
  /\ UNCHANGED <<rows, asking, queue, told>>

\* ReclaimStale lists the job of a worker that is gone, its lock having expired ...
ReclaimScan(w, k) == ~Live(k) /\ Scan(w, k) /\ UNCHANGED faults

\* ... or of one whose calls take longer than the lock lasts.
ReclaimLive(w, k) == Live(k) /\ Scan(w, k) /\ Fault

Deliver(w) ==
  \/ \E k \in Key : Claim(w, k) \/ ReclaimScan(w, k)
  \/ LoadConfig(w) \/ Send(w) \/ SendFails(w)
  \/ MarkSkipped(w) \/ MarkSent(w) \/ MarkFailed(w)
  \/ Complete(w) \/ LoadCounts(w) \/ FailWrite(w)

Next ==
  \/ \E c \in Config : PutConfig(c)
  \/ \E n \in Note : InsertRow(n) \/ EnqueueJob(n) \/ EnqueueLost(n)
  \/ \E w \in Worker :
       \/ Deliver(w) \/ LoadConfigFails(w) \/ Crash(w)
       \/ \E k \in Key : ReclaimLive(w, k)

Spec == Init /\ [][Next]_vars

\* Workers go on, and look for stale locks; events, changes of the configuration
\* and faults are never forced.
FairSpec ==
  /\ Spec
  /\ \A w \in Worker : WF_vars(Deliver(w))

-----------------------------------------------------------------------------
(***************************************************************************)
(* Properties.                                                             *)
(***************************************************************************)

Delivered(n) == ToSet(Items(n)) \ {NoPath} \subseteq ToSet(chat[n])

Settled(n) ==
  /\ n \notin asking
  /\ jobs[KeyOf[n]].state \in {"succeeded", "dead"}
  /\ ~Live(KeyOf[n])

\* The log that admins read does not lie: what it says was sent has been
\* delivered as a whole, what it says was skipped could not be delivered at some
\* moment since it was asked for, and what it says is pending is on its way,
\* unless something was lost or the job belongs to an earlier notification of
\* the run (Python's key does not name the notification).
LogIsTrue ==
  \A n \in Note :
    /\ rows[n] = "sent" => Delivered(n)
    /\ rows[n] = "skipped" => n \in excused
    /\ rows[n] = "pending" /\ Settled(n) => faults > 0 \/ subject[KeyOf[n]] # n

Texts(n) == Cardinality({i \in DOMAIN chat[n] : chat[n][i] = Text})

\* A retry starts from the text.  Yet no text is delivered more often than the
\* job was attempted, nor, unless a photo can never be sent, more often than
\* faults account for: each may give rise to one attempt more, or to one per
\* worker when all find the same stale lock.  And nothing arrives before what is
\* to precede it.
RepeatsAreRetries ==
  \A n \in Note :
    /\ chat[n] # <<>> => Texts(n) <= jobs[KeyOf[n]].attempts
    /\ ToSet(Photos[n]) \cap Missing = {} =>
         Texts(n) <= 1 + faults * Cardinality(Worker)
    /\ \A i, j \in DOMAIN Items(n), p \in DOMAIN chat[n] :
         j < i /\ Items(n)[j] # NoPath /\ chat[n][p] = Items(n)[i] =>
           \E q \in 1 .. p - 1 : chat[n][q] = Items(n)[j]

\* A notification that has a job is eventually delivered as a whole, even if
\* calls fail and workers die on the way (fewer times than the job has
\* attempts), unless there was a reason to skip it or a photo cannot be sent.
EventuallyTold ==
  \A n \in Note :
    subject[KeyOf[n]] = n /\ ToSet(Photos[n]) \cap Missing = {}
      ~> Delivered(n) \/ n \in excused
=============================================================================
