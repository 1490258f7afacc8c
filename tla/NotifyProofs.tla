---------------------------- MODULE NotifyProofs ----------------------------
(***************************************************************************)
(* Theorems about Notify, for any notifications, keys, photos, faults and  *)
(* number of workers.                                                      *)
(***************************************************************************)
EXTENDS Integers, Notify, FiniteSetTheorems, SequenceTheorems, WellFoundedInduction, TLAPS

Task == [pc: Position, key: Key \cup {None}, next: Nat, seen: Nat]

Reclaiming == {"stale", "releasing"}

\* All that can be delivered.
Item == {Text} \cup UNION {ToSet(Photos[n]) : n \in Note}

Typed ==
  /\ config \in Config \cup {None}
  /\ rows \in [Note -> {"absent", "pending", "skipped", "failed", "sent"}]
  /\ asking \subseteq {n \in Note : rows[n] = "pending"}
  /\ jobs \in [Key -> JobRecord]
  /\ subject \in [Key -> Note \cup {None}]
  /\ handler \in [Worker -> Task]
  /\ chat \in [Note -> Seq(Item)]
  /\ excused \subseteq Note
  /\ faults \in 0 .. MaxFaults

\* A job is about a notification that has a row and its key.
Subjects ==
  \A k \in Key :
    /\ subject[k] = None <=> jobs[k].state = "absent"
    /\ subject[k] # None => /\ KeyOf[subject[k]] = k
                            /\ rows[subject[k]] # "absent" /\ subject[k] \notin asking

\* What a worker at each position has delivered, or why it will not.
Progress(w) ==
  /\ handler[w].pc = "idle" <=> handler[w] = Idle
  /\ handler[w] # Idle => handler[w].key \in Key /\ jobs[handler[w].key].state # "absent"
  /\ handler[w].pc = "load" => handler[w].next = 1
  /\ handler[w].pc = "send" =>
       /\ handler[w].next \in 1 .. Len(Items(Subject(w)))
       /\ Items(Subject(w))[handler[w].next] # NoPath
       /\ \A j \in 1 .. handler[w].next - 1 :
            Items(Subject(w))[j] # NoPath => Items(Subject(w))[j] \in ToSet(chat[Subject(w)])
  /\ handler[w].pc = "mark" => Delivered(Subject(w))
  /\ handler[w].pc = "skip" => Subject(w) \in excused

Delivering == \A w \in Worker : Progress(w)

\* The first two parts of LogIsTrue, and why skipping is excused.
Logged ==
  \A n \in Note :
    /\ rows[n] = "sent" => Delivered(n)
    /\ rows[n] = "skipped" => n \in excused
    /\ rows[n] # "absent" /\ ~Deliverable(config) => n \in excused

\* Only what was asked for arrives, and only after what precedes it.
Ordered ==
  \A n \in Note :
    /\ ToSet(chat[n]) \subseteq ToSet(Items(n))
    /\ chat[n] # <<>> => subject[KeyOf[n]] = n
    /\ \A i, j \in DOMAIN Items(n), p \in DOMAIN chat[n] :
         j < i /\ Items(n)[j] # NoPath /\ chat[n][p] = Items(n)[i] =>
           \E q \in 1 .. p - 1 : chat[n][q] = Items(n)[j]

\* As long as nothing has gone wrong one worker has a job that is running, nobody
\* reclaims it, and a job is over only when its row says how it ended.
Uneventful(k) ==
  /\ jobs[k].state = "running" <=> Live(k)
  /\ \A v, w \in Worker : handler[v].key = k /\ handler[w].key = k => v = w
  /\ jobs[k].state \in {"succeeded", "dead"} => rows[subject[k]] # "pending"
  /\ \A w \in Worker : handler[w].key = k =>
       /\ handler[w].pc \notin Reclaiming
       /\ handler[w].pc \in {"done", "failed", "failing"} => rows[subject[k]] # "pending"

Calm == faults = 0 => \A k \in Key : Uneventful(k)

AtText(w) ==
  handler[w].pc = "load" \/ (handler[w].pc = "send" /\ handler[w].next = 1)

Owes(w) == AtText(w) \/ handler[w].pc \in {"fail", "failed", "failing"} \cup Reclaiming

\* The workers that may still deliver the text of the job with key k, and those
\* that will do that or return the job.
Early(k) == {w \in Worker : handler[w].key = k /\ AtText(w)}

Due(k) == {w \in Worker : handler[w].key = k /\ Owes(w)}

Workers == Cardinality(Worker)

\* How many more workers may still come to the job: one if it is queued, and every
\* worker that is not yet reclaiming it if its lock is stale.
Open(k) ==
  IF jobs[k].state \in {"absent", "queued"} THEN 1
  ELSE IF jobs[k].state = "running" /\ ~Live(k) THEN Workers - Cardinality(Due(k))
  ELSE 0

\* A fault pays for one text per worker.
Allowance == 1 + faults * Workers

Counted ==
  \A n \in Note :
    subject[KeyOf[n]] = n =>
      Texts(n) + Cardinality(Early(KeyOf[n])) <= jobs[KeyOf[n]].attempts

Blamed ==
  \A n \in Note :
    subject[KeyOf[n]] = n /\ ToSet(Photos[n]) \cap Missing = {} =>
      Texts(n) + Cardinality(Due(KeyOf[n])) + Open(KeyOf[n]) <= Allowance

Inv ==
  /\ Typed /\ Subjects /\ Delivering /\ Logged /\ Ordered
  /\ Calm /\ Counted /\ Blamed

-----------------------------------------------------------------------------
(***************************************************************************)
(* What there is to deliver, and how the loop goes through it.             *)
(***************************************************************************)

\* A nonempty set of numbers has a least element, by WFMin.
LEMMA Least ==
  ASSUME NEW T \in SUBSET Nat, T # {}
  PROVE  \E n \in T : \A m \in T : n <= m
<1> DEFINE R == {p \in Nat \X Nat : p[1] < p[2]}
<1>1. IsWellFoundedOn(R, Nat)
  BY NatLessThanWellFounded DEF OpToRel
<1>2. \E n \in T : \A m \in T : <<m, n>> \notin R
  BY <1>1, WFMin
<1>3. \A m, n \in Nat : m < n => <<m, n>> \in R
  <2>1. TAKE m, n \in Nat
  <2>2. HAVE m < n
  <2>3. <<m, n>> \in Nat \X Nat /\ <<m, n>>[1] < <<m, n>>[2]
    BY <2>2
  <2>4. QED
    BY <2>3
<1> HIDE DEF R
<1>4. PICK n \in T : \A m \in T : <<m, n>> \notin R
  BY <1>2
<1>5. ASSUME NEW m \in T PROVE n <= m
  <2>1. m \in Nat /\ n \in Nat /\ <<m, n>> \notin R
    BY <1>4
  <2>2. QED
    BY <1>3, <2>1
<1>6. QED
  BY <1>4, <1>5

\* The text comes first, nothing comes twice.
LEMMA ItemFacts ==
  ASSUME NEW n \in Note
  PROVE  /\ Items(n) \in Seq(Item) /\ Len(Items(n)) \in Nat /\ Len(Items(n)) >= 1
         /\ Items(n)[1] = Text
         /\ \A i \in 2 .. Len(Items(n)) :
              Items(n)[i] # Text /\ Items(n)[i] \in ToSet(Photos[n])
         /\ \A i, j \in 1 .. Len(Items(n)) : Items(n)[i] = Items(n)[j] => i = j
<1> DEFINE s == Photos[n]
<1>1. s \in Seq(Item) /\ IsInjective(s) /\ Text \notin ToSet(s)
  <2>1. s \in Seq(STRING) /\ IsInjective(s) /\ Text \notin ToSet(s)
    BY NotifyConstantsOK
  <2>2. \A i \in 1 .. Len(s) : s[i] \in Item
    BY <2>1 DEF Item, ToSet
  <2>3. Len(s) \in Nat /\ s \in [1 .. Len(s) -> Item]
    BY <2>1, <2>2, LenProperties
  <2>4. QED
    BY <2>1, <2>3, SeqDef
<1>2. /\ Items(n) \in Seq(Item) /\ Len(Items(n)) = Len(s) + 1 /\ Len(s) \in Nat
      /\ Items(n)[1] = Text
      /\ \A i \in 2 .. Len(s) + 1 : Items(n)[i] = s[i - 1]
  <2> DEFINE t == <<Text>>
  <2>1. Len(t) = 1 /\ t[1] = Text
    OBVIOUS
  <2>5. t \in Seq(Item)
    BY DEF Item
  <2>0. Items(n) = t \o s
    BY DEF Items
  <2> HIDE DEF t, s
  <2>2. /\ t \o s \in Seq(Item) /\ Len(t \o s) = Len(t) + Len(s)
        /\ \A i \in 1 .. Len(t) + Len(s) :
             (t \o s)[i] = IF i <= Len(t) THEN t[i] ELSE s[i - Len(t)]
    BY <1>1, <2>5, ConcatProperties
  <2>3. Len(s) \in Nat
    BY <1>1
  <2>4. QED
    BY <2>0, <2>1, <2>2, <2>3, <2>5
<1>3. \A i \in 2 .. Len(s) + 1 : i - 1 \in 1 .. Len(s) /\ s[i - 1] \in ToSet(s)
  BY <1>1, <1>2 DEF ToSet
<1>4. \A i, j \in 1 .. Len(s) : s[i] = s[j] => i = j
  BY <1>1 DEF IsInjective
<1> HIDE DEF s
<1>5. \A i \in 2 .. Len(s) + 1 : Items(n)[i] # Text /\ Items(n)[i] \in ToSet(s)
  BY <1>1, <1>2, <1>3
<1>6. ASSUME NEW i \in 1 .. Len(Items(n)), NEW j \in 1 .. Len(Items(n)),
             Items(n)[i] = Items(n)[j]
      PROVE  i = j
  <2>1. CASE i = 1 \/ j = 1
    BY <1>2, <1>5, <1>6, <2>1
  <2>2. CASE i # 1 /\ j # 1
    <3>1. i \in 2 .. Len(s) + 1 /\ j \in 2 .. Len(s) + 1
      BY <1>2, <2>2
    <3>2. s[i - 1] = s[j - 1] /\ i - 1 \in 1 .. Len(s) /\ j - 1 \in 1 .. Len(s)
      BY <1>2, <1>3, <1>6, <3>1
    <3>3. i - 1 = j - 1
      BY <1>4, <3>2
    <3>4. QED
      BY <1>2, <3>3
  <2>3. QED
    BY <2>1, <2>2
<1>7. QED
  BY <1>2, <1>5, <1>6 DEF s

\* The loop passes over nothing that has to be delivered.
LEMMA LeftFacts ==
  ASSUME NEW n \in Note, NEW i \in Nat
  PROVE  /\ Left(n, i) = {} =>
              \A j \in i + 1 .. Len(Items(n)) : Items(n)[j] = NoPath
         /\ Left(n, i) # {} =>
              /\ Min(Left(n, i)) \in i + 1 .. Len(Items(n))
              /\ Items(n)[Min(Left(n, i))] # NoPath
              /\ \A j \in i + 1 .. Min(Left(n, i)) - 1 : Items(n)[j] = NoPath
<1>1. Len(Items(n)) \in Nat
  BY ItemFacts
<1>2. ASSUME Left(n, i) # {}
      PROVE  Min(Left(n, i)) \in Left(n, i) /\ \A j \in Left(n, i) : Min(Left(n, i)) <= j
  <2>1. Left(n, i) \in SUBSET Nat
    <3>1. \A j \in i + 1 .. Len(Items(n)) : j \in Nat
      BY <1>1
    <3>2. QED
      BY <3>1 DEF Left
  <2>2. \E m \in Left(n, i) : \A j \in Left(n, i) : m <= j
    BY <1>2, <2>1, Least
  <2>3. QED
    BY <2>2 DEF Min
<1>3. ASSUME Left(n, i) # {}
      PROVE  /\ Min(Left(n, i)) \in i + 1 .. Len(Items(n))
             /\ Items(n)[Min(Left(n, i))] # NoPath
             /\ \A j \in i + 1 .. Min(Left(n, i)) - 1 : Items(n)[j] = NoPath
  <2>1. PICK m \in Left(n, i) : m = Min(Left(n, i)) /\ \A j \in Left(n, i) : m <= j
    BY <1>2, <1>3
  <2>2. m \in Int /\ i + 1 <= m /\ m <= Len(Items(n)) /\ Items(n)[m] # NoPath
    BY <1>1, <2>1 DEF Left
  <2>3. ASSUME NEW j \in i + 1 .. m - 1
        PROVE  Items(n)[j] = NoPath
    <3>1. j \in i + 1 .. Len(Items(n))
      BY <1>1, <2>2
    <3>2. ~(m <= j)
      BY <2>2
    <3>3. j \notin Left(n, i)
      BY <2>1, <3>2
    <3>4. QED
      BY <3>1, <3>3 DEF Left
  <2>4. m \in i + 1 .. Len(Items(n))
    BY <1>1, <2>2
  <2>5. QED
    BY <2>1, <2>2, <2>3, <2>4
<1>4. QED
  BY <1>3 DEF Left

-----------------------------------------------------------------------------
(***************************************************************************)
(* What the steps change.                                                  *)
(***************************************************************************)

\* The rows of the jobs table.
LEMMA JobSteps ==
  ASSUME Typed, NEW k \in Key, NEW count \in Nat
  PROVE  /\ /\ Started(jobs[k]) \in JobRecord
            /\ Started(jobs[k]).state = "running"
            /\ Started(jobs[k]).attempts = jobs[k].attempts + 1
         /\ /\ Enqueued(jobs[k]) \in JobRecord
            /\ jobs[k].state # "absent" => Enqueued(jobs[k]) = jobs[k]
            /\ jobs[k].state = "absent" => Enqueued(jobs[k]).state = "queued"
            /\ Enqueued(jobs[k]).attempts = jobs[k].attempts
         /\ /\ Succeeded(jobs[k]) \in JobRecord
            /\ Succeeded(jobs[k]).state = "succeeded"
            /\ Succeeded(jobs[k]).attempts = jobs[k].attempts
         /\ /\ Returned(jobs[k], count, MaxAttempts) \in JobRecord
            /\ Returned(jobs[k], count, MaxAttempts).state \in {"queued", "dead"}
            /\ Returned(jobs[k], count, MaxAttempts).attempts = jobs[k].attempts
<1>1. jobs[k] \in JobRecord
  BY DEF Typed
<1>2. /\ Started(jobs[k]) \in JobRecord
      /\ Started(jobs[k]).state = "running"
      /\ Started(jobs[k]).attempts = jobs[k].attempts + 1
  BY <1>1 DEF Started, JobRecord
<1>3. /\ Enqueued(jobs[k]) \in JobRecord
      /\ jobs[k].state # "absent" => Enqueued(jobs[k]) = jobs[k]
      /\ jobs[k].state = "absent" => Enqueued(jobs[k]).state = "queued"
      /\ Enqueued(jobs[k]).attempts = jobs[k].attempts
  BY <1>1 DEF Enqueued, JobRecord
<1>4. /\ Succeeded(jobs[k]) \in JobRecord
      /\ Succeeded(jobs[k]).state = "succeeded"
      /\ Succeeded(jobs[k]).attempts = jobs[k].attempts
  BY <1>1 DEF Succeeded, JobRecord
<1>5. /\ Returned(jobs[k], count, MaxAttempts) \in JobRecord
      /\ Returned(jobs[k], count, MaxAttempts).state \in {"queued", "dead"}
      /\ Returned(jobs[k], count, MaxAttempts).attempts = jobs[k].attempts
  BY <1>1 DEF Returned, JobRecord
<1>6. QED
  BY <1>2, <1>3, <1>4, <1>5

\* Where a worker is has a job, and the job a subject.
LEMMA Busy ==
  ASSUME Typed, Subjects, Delivering, NEW w \in Worker, handler[w].pc # "idle"
  PROVE  /\ handler[w] # Idle /\ handler[w].key \in Key /\ handler[w].key # None
         /\ Subject(w) \in Note /\ KeyOf[Subject(w)] = handler[w].key
         /\ subject[handler[w].key] = Subject(w)
         /\ rows[Subject(w)] # "absent" /\ Subject(w) \notin asking
         /\ jobs[handler[w].key].state # "absent"
<1>1. /\ handler[w] # Idle /\ handler[w].key \in Key
      /\ jobs[handler[w].key].state # "absent"
  BY DEF Delivering, Progress
<1>2. subject[handler[w].key] # None
  BY <1>1 DEF Subjects
<1>3. subject[handler[w].key] \in Note
  BY <1>1, <1>2 DEF Typed
<1>4. handler[w].key # None
  BY <1>1, NotifyConstantsOK
<1>5. QED
  BY <1>1, <1>2, <1>3, <1>4 DEF Subjects, Subject

\* The steps of handleSend, and the first statement of Fail.
Inside(w) ==
  \/ LoadConfig(w) \/ LoadConfigFails(w) \/ Send(w) \/ SendFails(w)
  \/ MarkSkipped(w) \/ MarkSent(w) \/ MarkFailed(w) \/ LoadCounts(w)

\* The item that a worker is to deliver next.
Upcoming(w) == Items(Subject(w))[handler[w].next]

Delivers(w) ==
  /\ handler[w].pc = "send"
  /\ chat' = [chat EXCEPT ![Subject(w)] = Append(@, Upcoming(w))]

LEMMA HandlerSteps ==
  ASSUME Typed, Subjects, Delivering, NEW w \in Worker, Inside(w)
  PROVE  /\ handler[w].pc \in {"load", "send", "skip", "mark", "fail", "failed", "stale"}
         /\ handler' \in [Worker -> Task]
         /\ handler'[w].key = handler[w].key
         /\ handler'[w].pc \in {"send", "skip", "mark", "fail", "done", "failed", "failing",
                                "releasing"}
         /\ handler[w].pc \in Reclaiming <=> handler'[w].pc \in Reclaiming
         /\ \A v \in Worker \ {w} : handler'[v] = handler[v]
<1> DEFINE h == handler[w]
<1>0. handler \in [Worker -> Task] /\ h \in Task
  BY DEF Typed
<1>1. ASSUME NEW t \in Task, handler' = [handler EXCEPT ![w] = t]
      PROVE  /\ handler' \in [Worker -> Task] /\ handler'[w] = t
             /\ \A v \in Worker \ {w} : handler'[v] = handler[v]
  BY <1>0, <1>1
<1>2. ASSUME NEW p \in Position, Goto(w, p)
      PROVE  handler' = [handler EXCEPT ![w] = [h EXCEPT !.pc = p]]
  BY <1>0, <1>2 DEF Goto
<1>3. \A p \in Position : /\ [h EXCEPT !.pc = p] \in Task
                          /\ [h EXCEPT !.pc = p].pc = p
                          /\ [h EXCEPT !.pc = p].key = h.key
  BY <1>0 DEF Task
<1>4. ASSUME NEW p \in {"send", "skip", "mark", "fail", "done", "failed"}, Goto(w, p)
      PROVE  /\ handler' \in [Worker -> Task]
             /\ handler'[w].key = handler[w].key
             /\ handler'[w].pc \in {"send", "skip", "mark", "fail", "done", "failed"}
             /\ \A v \in Worker \ {w} : handler'[v] = handler[v]
  <2>1. p \in Position
    BY <1>4 DEF Position
  <2>2. handler' = [handler EXCEPT ![w] = [h EXCEPT !.pc = p]]
    BY <1>2, <1>4, <2>1
  <2>3. QED
    BY <1>1, <1>3, <1>4, <2>1, <2>2
<1>5. CASE LoadConfig(w) \/ LoadConfigFails(w)
  <2>1. h.pc = "load" /\ \E p \in {"send", "skip"} : Goto(w, p)
    BY <1>5 DEF LoadConfig, LoadConfigFails
  <2>2. QED
    BY <1>4, <2>1 DEF Reclaiming
<1>6. CASE Send(w)
  <2>1. h.pc = "send"
    BY <1>6 DEF Send
  <2>2. Subject(w) \in Note /\ h.next \in Nat
    BY <1>0, <2>1, Busy DEF Task
  <2>3. CASE Left(Subject(w), h.next) = {}
    <3>1. handler' = [handler EXCEPT ![w] = [h EXCEPT !.pc = "mark"]]
      BY <1>0, <1>6, <2>3 DEF Send
    <3>2. QED
      BY <1>1, <1>3, <2>1, <3>1 DEF Position, Reclaiming
  <2>4. CASE Left(Subject(w), h.next) # {}
    <3> DEFINE j == Min(Left(Subject(w), h.next))
    <3>1. handler' = [handler EXCEPT ![w] = [h EXCEPT !.next = j]]
      BY <1>0, <1>6, <2>4 DEF Send
    <3>2. j \in Nat
      BY <2>2, <2>4, LeftFacts, ItemFacts
    <3> HIDE DEF j
    <3>3. [h EXCEPT !.next = j] \in Task /\ [h EXCEPT !.next = j].pc = h.pc
          /\ [h EXCEPT !.next = j].key = h.key
      BY <1>0, <3>2 DEF Task
    <3>4. QED
      BY <1>1, <2>1, <3>1, <3>3
  <2>5. QED
    BY <2>3, <2>4
<1>7. CASE SendFails(w)
  BY <1>4, <1>7 DEF SendFails, Reclaiming
<1>8. CASE MarkSkipped(w) \/ MarkSent(w) \/ MarkFailed(w)
  <2>1. h.pc \in {"skip", "mark", "fail"} /\ \E p \in {"done", "failed"} : Goto(w, p)
    BY <1>8 DEF MarkSkipped, MarkSent, MarkFailed
  <2>2. QED
    BY <1>4, <2>1 DEF Reclaiming
<1>9. CASE LoadCounts(w)
  <2> DEFINE p == IF h.pc = "failed" THEN "failing" ELSE "releasing"
             t == [h EXCEPT !.pc = p, !.seen = jobs[h.key].attempts]
  <2>1. h.pc \in {"failed", "stale"} /\ handler' = [handler EXCEPT ![w] = t]
    BY <1>9 DEF LoadCounts
  <2>2. jobs[h.key].attempts \in Nat
    BY <2>1, Busy DEF Typed, JobRecord
  <2>3. t \in Task /\ t.pc = p /\ t.key = h.key
    BY <1>0, <2>2 DEF Task, Position
  <2>4. handler' \in [Worker -> Task] /\ handler'[w] = t
        /\ \A v \in Worker \ {w} : handler'[v] = handler[v]
    BY <1>1, <2>1, <2>3
  <2>5. QED
    BY <2>1, <2>3, <2>4 DEF Reclaiming
<1>10. ~LoadCounts(w) => h.pc \notin Reclaiming /\ handler'[w].pc \notin Reclaiming
  BY <1>4, <1>5, <1>6, <1>7, <1>8
  DEF Inside, LoadConfig, LoadConfigFails, Send, SendFails, MarkSkipped, MarkSent, MarkFailed,
      Reclaiming
<1>11. QED
  BY <1>5, <1>6, <1>7, <1>8, <1>9, <1>10 DEF Inside

LEMMA InsideSteps ==
  ASSUME Typed, Subjects, Delivering, NEW w \in Worker, Inside(w)
  PROVE  /\ UNCHANGED <<jobs, subject, asking, config>>
         /\ faults' \in {faults, faults + 1} /\ faults' \in 0 .. MaxFaults
         /\ excused' \in {excused, excused \cup {Subject(w)}}
         /\ rows' \in [Note -> {"absent", "pending", "skipped", "failed", "sent"}]
         /\ \A n \in Note \ {Subject(w)} : rows'[n] = rows[n]
         /\ rows'[Subject(w)] # "absent"
         /\ rows'[Subject(w)] = "pending" => rows[Subject(w)] = "pending"
         /\ chat' = chat \/ Delivers(w)
<1>0. /\ rows \in [Note -> {"absent", "pending", "skipped", "failed", "sent"}]
      /\ faults \in 0 .. MaxFaults /\ MaxFaults \in Nat
  BY NotifyConstantsOK DEF Typed
<1>1. Subject(w) \in Note /\ rows[Subject(w)] # "absent"
  BY HandlerSteps, Busy
<1>2. UNCHANGED <<jobs, subject, asking, config>>
  BY DEF Inside, LoadConfig, LoadConfigFails, Send, SendFails, MarkSkipped, MarkSent, MarkFailed,
         LoadCounts, queue, told
<1>3. faults' \in {faults, faults + 1} /\ faults' \in 0 .. MaxFaults
  <2>1. UNCHANGED faults \/ Fault
    BY DEF Inside, LoadConfig, LoadConfigFails, Send, SendFails, MarkSkipped, MarkSent,
           MarkFailed, LoadCounts, SetStatus
  <2>2. QED
    BY <1>0, <2>1 DEF Fault
<1>4. excused' \in {excused, excused \cup {Subject(w)}}
  BY DEF Inside, LoadConfig, LoadConfigFails, Send, SendFails, MarkSkipped, MarkSent, MarkFailed,
         LoadCounts, Excuse, told
<1>5. \/ rows' = rows
      \/ \E status \in {"skipped", "failed", "sent"} :
           rows' = [rows EXCEPT ![Subject(w)] = status]
  BY DEF Inside, LoadConfig, LoadConfigFails, Send, SendFails, MarkSkipped, MarkSent, MarkFailed,
         LoadCounts, SetStatus
<1>6. chat' = chat \/ Delivers(w)
  BY DEF Inside, LoadConfig, LoadConfigFails, Send, SendFails, MarkSkipped, MarkSent, MarkFailed,
         LoadCounts, Delivers, Upcoming, told
<1>7. QED
  BY <1>0, <1>1, <1>2, <1>3, <1>4, <1>5, <1>6

\* What is delivered goes to the end of the chat.
LEMMA ChatSteps ==
  ASSUME Typed, Subjects, Delivering, NEW w \in Worker, Delivers(w)
  PROVE  /\ chat' \in [Note -> Seq(Item)]
         /\ \A n \in Note \ {Subject(w)} : chat'[n] = chat[n]
         /\ Len(chat[Subject(w)]) \in Nat
         /\ Len(chat'[Subject(w)]) = Len(chat[Subject(w)]) + 1
         /\ \A p \in 1 .. Len(chat[Subject(w)]) : chat'[Subject(w)][p] = chat[Subject(w)][p]
         /\ chat'[Subject(w)][Len(chat[Subject(w)]) + 1] = Upcoming(w)
         /\ ToSet(chat'[Subject(w)]) = ToSet(chat[Subject(w)]) \cup {Upcoming(w)}
         /\ Upcoming(w) \in ToSet(Items(Subject(w)))
<1> DEFINE n == Subject(w)
           item == Upcoming(w)
           s == chat[n]
<1>1. n \in Note /\ handler[w].next \in 1 .. Len(Items(n))
  BY Busy DEF Delivers, Delivering, Progress
<1>2. chat \in [Note -> Seq(Item)] /\ s \in Seq(Item) /\ Items(n) \in Seq(Item)
  BY <1>1, ItemFacts DEF Typed
<1>3. item \in Item /\ item \in ToSet(Items(n))
  BY <1>1, <1>2 DEF Upcoming, ToSet
<1>4. chat' = [chat EXCEPT ![n] = Append(s, item)]
  BY DEF Delivers
<1> HIDE DEF n, item, s
<1>5. /\ Append(s, item) \in Seq(Item) /\ Len(s) \in Nat
      /\ Len(Append(s, item)) = Len(s) + 1
      /\ \A p \in 1 .. Len(s) : Append(s, item)[p] = s[p]
      /\ Append(s, item)[Len(s) + 1] = item
  BY <1>2, <1>3
<1>6. ToSet(Append(s, item)) = ToSet(s) \cup {item}
  BY <1>2, <1>5 DEF ToSet
<1>7. chat' \in [Note -> Seq(Item)] /\ chat'[n] = Append(s, item)
      /\ \A m \in Note \ {n} : chat'[m] = chat[m]
  BY <1>1, <1>2, <1>4, <1>5
<1>8. QED
  BY <1>3, <1>5, <1>6, <1>7 DEF n, item, s

\* A job is settled, or returned to the queue.
LEMMA SettleSteps ==
  ASSUME Typed, NEW k \in Key, NEW count \in Nat,
         \/ jobs' = [jobs EXCEPT ![k] = Succeeded(@)]
         \/ jobs' = [jobs EXCEPT ![k] = Returned(@, count, MaxAttempts)]
  PROVE  /\ jobs' \in [Key -> JobRecord]
         /\ \A c \in Key \ {k} : jobs'[c] = jobs[c]
         /\ jobs'[k].attempts = jobs[k].attempts
         /\ jobs'[k].state \in {"queued", "dead", "succeeded"}
<1>1. jobs \in [Key -> JobRecord]
  BY DEF Typed
<1>2. \/ jobs' = [jobs EXCEPT ![k] = Succeeded(jobs[k])]
      \/ jobs' = [jobs EXCEPT ![k] = Returned(jobs[k], count, MaxAttempts)]
  BY <1>1
<1>3. QED
  BY <1>1, <1>2, JobSteps

\* The worker loop gives up a handler.
Leaving(w) == Complete(w) \/ FailWrite(w) \/ Crash(w)

LEMMA LeavingSteps ==
  ASSUME Typed, Subjects, Delivering, NEW w \in Worker, Leaving(w)
  PROVE  /\ handler[w].pc # "idle" /\ handler' = [handler EXCEPT ![w] = Idle]
         /\ handler' \in [Worker -> Task] /\ handler'[w] = Idle
         /\ \A v \in Worker \ {w} : handler'[v] = handler[v]
         /\ UNCHANGED <<rows, asking, subject, config, chat, excused>>
         /\ faults' \in {faults, faults + 1} /\ faults' \in 0 .. MaxFaults
         /\ jobs' \in [Key -> JobRecord]
         /\ \A c \in Key \ {handler[w].key} : jobs'[c] = jobs[c]
         /\ jobs'[handler[w].key].attempts = jobs[handler[w].key].attempts
         /\ \/ jobs' = jobs /\ faults' = faults + 1
            \/ /\ jobs'[handler[w].key].state \in {"queued", "dead", "succeeded"}
               /\ UNCHANGED faults
               /\ handler[w].pc \in {"done", "failing", "releasing"}
               /\ handler[w].pc = "done" => jobs'[handler[w].key].state = "succeeded"
<1>0. /\ handler \in [Worker -> Task] /\ faults \in 0 .. MaxFaults /\ MaxFaults \in Nat
      /\ jobs \in [Key -> JobRecord]
  BY NotifyConstantsOK DEF Typed
<1>1. Idle \in Task
  BY DEF Idle, Task, Position
<1>2. handler[w].pc # "idle" /\ handler' = [handler EXCEPT ![w] = Idle]
  BY DEF Leaving, Complete, FailWrite, Failing, Crash, Leave, Delivering, Progress
<1>3. /\ handler' \in [Worker -> Task] /\ handler'[w] = Idle
      /\ \A v \in Worker \ {w} : handler'[v] = handler[v]
  BY <1>0, <1>1, <1>2
<1>4. UNCHANGED <<rows, asking, subject, config, chat, excused>>
  BY DEF Leaving, Complete, FailWrite, Crash, queue, told
<1>5. handler[w].key \in Key /\ jobs[handler[w].key].state # "absent"
  BY <1>2, Busy
<1>6. CASE Crash(w)
  <2>1. jobs' = jobs /\ faults' = faults + 1 /\ faults' \in 0 .. MaxFaults
    BY <1>0, <1>6 DEF Crash, Fault, queue
  <2>2. QED
    BY <1>0, <1>2, <1>3, <1>4, <1>5, <2>1
<1>7. CASE Complete(w) \/ FailWrite(w)
  <2>0. handler[w].seen \in Nat
    BY <1>0 DEF Task
  <2>1. /\ handler[w].pc \in {"done", "failing", "releasing"} /\ UNCHANGED faults
        /\ \/ jobs' = [jobs EXCEPT ![handler[w].key] = Succeeded(@)]
           \/ jobs' = [jobs EXCEPT ![handler[w].key] = Returned(@, handler[w].seen, MaxAttempts)]
        /\ handler[w].pc = "done" =>
             jobs' = [jobs EXCEPT ![handler[w].key] = Succeeded(@)]
    BY <1>7 DEF Complete, FailWrite, Failing
  <2>2. handler[w].pc = "done" => jobs'[handler[w].key].state = "succeeded"
    BY <1>0, <1>5, <2>0, <2>1, JobSteps
  <2>3. QED
    BY <1>0, <1>2, <1>3, <1>4, <1>5, <2>0, <2>1, <2>2, SettleSteps
<1>8. QED
  BY <1>6, <1>7 DEF Leaving

\* A reclaimer lists the job.
Scans(w, k) == ReclaimScan(w, k) \/ ReclaimLive(w, k)

LEMMA ScanSteps ==
  ASSUME Typed, NEW w \in Worker, NEW k \in Key, Scans(w, k)
  PROVE  /\ handler[w] = Idle /\ jobs[k].state = "running"
         /\ handler' \in [Worker -> Task]
         /\ handler'[w] = [pc |-> "stale", key |-> k, next |-> 0, seen |-> 0]
         /\ \A v \in Worker \ {w} : handler'[v] = handler[v]
         /\ UNCHANGED <<rows, asking, jobs, subject, config, chat, excused>>
         /\ \/ UNCHANGED faults /\ ~Live(k)
            \/ faults' = faults + 1 /\ faults' \in 0 .. MaxFaults /\ Live(k)
<1>0. handler \in [Worker -> Task] /\ faults \in 0 .. MaxFaults /\ MaxFaults \in Nat
  BY NotifyConstantsOK DEF Typed
<1> DEFINE t == [pc |-> "stale", key |-> k, next |-> 0, seen |-> 0]
<1>1. /\ handler[w] = Idle /\ jobs[k].state = "running"
      /\ handler' = [handler EXCEPT ![w] = t]
      /\ UNCHANGED <<rows, asking, jobs, subject, config, chat, excused>>
  BY DEF Scans, ReclaimScan, ReclaimLive, Scan, Idle, queue, told
<1>2. t \in Task
  BY DEF Task, Position
<1>3. \/ UNCHANGED faults /\ ~Live(k)
      \/ faults' = faults + 1 /\ faults' \in 0 .. MaxFaults /\ Live(k)
  BY <1>0 DEF Scans, ReclaimScan, ReclaimLive, Fault
<1> HIDE DEF t
<1>4. /\ handler' \in [Worker -> Task] /\ handler'[w] = t
      /\ \A v \in Worker \ {w} : handler'[v] = handler[v]
  BY <1>0, <1>1, <1>2
<1>5. QED
  BY <1>1, <1>3, <1>4 DEF t

LEMMA ClaimSteps ==
  ASSUME Typed, Subjects, NEW w \in Worker, NEW k \in Key, Claim(w, k)
  PROVE  /\ handler[w] = Idle /\ jobs[k].state = "queued"
         /\ handler' \in [Worker -> Task]
         /\ handler'[w] = [pc |-> "load", key |-> k, next |-> 1, seen |-> 0]
         /\ \A v \in Worker \ {w} : handler'[v] = handler[v]
         /\ jobs' \in [Key -> JobRecord]
         /\ \A c \in Key \ {k} : jobs'[c] = jobs[c]
         /\ jobs'[k].state = "running" /\ jobs'[k].attempts = jobs[k].attempts + 1
         /\ UNCHANGED <<rows, asking, subject, faults, config, chat, excused>>
<1>0. handler \in [Worker -> Task] /\ jobs \in [Key -> JobRecord]
  BY DEF Typed
<1>1. /\ handler[w] = Idle /\ jobs[k].state = "queued"
      /\ jobs' = [jobs EXCEPT ![k] = Started(jobs[k])]
      /\ handler' = [handler EXCEPT ![w] = [pc |-> "load", key |-> k, next |-> 1, seen |-> 0]]
      /\ UNCHANGED <<rows, asking, subject, faults, config, chat, excused>>
  BY <1>0 DEF Claim, told
<1>2. [pc |-> "load", key |-> k, next |-> 1, seen |-> 0] \in Task
  BY DEF Task, Position
<1>3. /\ handler' \in [Worker -> Task]
      /\ handler'[w] = [pc |-> "load", key |-> k, next |-> 1, seen |-> 0]
      /\ \A v \in Worker \ {w} : handler'[v] = handler[v]
  BY <1>0, <1>1, <1>2
<1>4. QED
  BY <1>0, <1>1, <1>3, JobSteps

LEMMA EnqueueSteps ==
  ASSUME Typed, Subjects, NEW n \in Note, EnqueueJob(n)
  PROVE  /\ n \in asking /\ rows[n] = "pending" /\ asking' = asking \ {n}
         /\ UNCHANGED <<rows, handler, faults, config, chat, excused>>
         /\ KeyOf[n] \in Key
         /\ jobs' \in [Key -> JobRecord]
         /\ subject' \in [Key -> Note \cup {None}]
         /\ \A c \in Key \ {KeyOf[n]} : jobs'[c] = jobs[c] /\ subject'[c] = subject[c]
         /\ \/ /\ jobs[KeyOf[n]].state # "absent"
               /\ jobs' = jobs /\ subject' = subject
            \/ /\ jobs[KeyOf[n]].state = "absent" /\ subject[KeyOf[n]] = None
               /\ jobs'[KeyOf[n]].state = "queued"
               /\ jobs'[KeyOf[n]].attempts = jobs[KeyOf[n]].attempts
               /\ subject'[KeyOf[n]] = n
<1> DEFINE k == KeyOf[n]
<1>0. /\ jobs \in [Key -> JobRecord] /\ subject \in [Key -> Note \cup {None}]
      /\ k \in Key
  BY NotifyConstantsOK DEF Typed
<1>1. /\ n \in asking /\ rows[n] = "pending" /\ asking' = asking \ {n}
      /\ UNCHANGED <<rows, handler, faults, config, chat, excused>>
      /\ jobs' = [jobs EXCEPT ![k] = Enqueued(jobs[k])]
      /\ subject' = IF jobs[k].state = "absent" THEN [subject EXCEPT ![k] = n] ELSE subject
  BY <1>0 DEF EnqueueJob, Typed, told
<1> HIDE DEF k
<1>2. CASE jobs[k].state = "absent"
  <2>1. subject[k] = None
    BY <1>0, <1>2 DEF Subjects
  <2>2. QED
    BY <1>0, <1>1, <1>2, <2>1, JobSteps DEF k
<1>3. CASE jobs[k].state # "absent"
  <2>1. Enqueued(jobs[k]) = jobs[k]
    BY <1>0, <1>3, JobSteps
  <2>2. jobs' = jobs /\ subject' = subject
    BY <1>0, <1>1, <1>3, <2>1
  <2>3. QED
    BY <1>0, <1>1, <1>3, <2>2 DEF k
<1>4. QED
  BY <1>2, <1>3

LEMMA Kinds ==
  ASSUME Next
  PROVE  \/ \E c \in Config : PutConfig(c)
         \/ \E n \in Note : InsertRow(n) \/ EnqueueJob(n) \/ EnqueueLost(n)
         \/ \E w \in Worker, k \in Key : Claim(w, k)
         \/ \E w \in Worker : Inside(w) \/ Leaving(w)
         \/ \E w \in Worker, k \in Key : Scans(w, k)
BY DEF Next, Deliver, Inside, Leaving, Scans

LEMMA TypedNext ==
  ASSUME Typed, Subjects, Delivering, Next
  PROVE  Typed'
<1>0. Typed
  OBVIOUS
<1>1. ASSUME NEW c \in Config, PutConfig(c)
      PROVE  Typed'
  <2>1. excused' \subseteq Note
    BY <1>0, <1>1 DEF PutConfig, Excuse, Typed
  <2>2. QED
    BY <1>0, <1>1, <2>1 DEF PutConfig, queue, Typed
<1>2. ASSUME NEW n \in Note, InsertRow(n)
      PROVE  Typed'
  <2>1. /\ rows' = [rows EXCEPT ![n] = "pending"] /\ asking' = asking \cup {n}
        /\ excused' \subseteq Note
        /\ UNCHANGED <<config, jobs, subject, handler, chat, faults>>
    BY <1>0, <1>2 DEF InsertRow, Excuse, queue, Typed
  <2>2. rows' \in [Note -> {"absent", "pending", "skipped", "failed", "sent"}]
    BY <1>0, <2>1 DEF Typed
  <2>3. asking' \subseteq {m \in Note : rows'[m] = "pending"}
    BY <1>0, <2>1 DEF Typed
  <2>4. QED
    BY <1>0, <2>1, <2>2, <2>3 DEF Typed
<1>3. ASSUME NEW n \in Note, EnqueueJob(n)
      PROVE  Typed'
  BY <1>0, <1>3, EnqueueSteps DEF Typed
<1>4. ASSUME NEW n \in Note, EnqueueLost(n)
      PROVE  Typed'
  BY <1>0, <1>4, NotifyConstantsOK DEF EnqueueLost, Fault, queue, told, Typed
<1>5. ASSUME NEW w \in Worker, NEW k \in Key, Claim(w, k)
      PROVE  Typed'
  BY <1>0, <1>5, ClaimSteps DEF Typed
<1>6. ASSUME NEW w \in Worker, Inside(w)
      PROVE  Typed'
  <2>1. Subject(w) \in Note /\ Subject(w) \notin asking
    BY <1>6, HandlerSteps, Busy
  <2>2. chat' \in [Note -> Seq(Item)]
    BY <1>0, <1>6, InsideSteps, ChatSteps DEF Typed
  <2>3. handler' \in [Worker -> Task]
    BY <1>6, HandlerSteps
  <2>4. /\ UNCHANGED <<jobs, subject, asking, config>> /\ faults' \in 0 .. MaxFaults
        /\ excused' \in {excused, excused \cup {Subject(w)}}
        /\ rows' \in [Note -> {"absent", "pending", "skipped", "failed", "sent"}]
        /\ \A n \in Note \ {Subject(w)} : rows'[n] = rows[n]
    BY <1>6, InsideSteps
  <2>5. asking' \subseteq {n \in Note : rows'[n] = "pending"}
    BY <1>0, <2>1, <2>4 DEF Typed
  <2>6. excused' \subseteq Note
    BY <1>0, <2>1, <2>4 DEF Typed
  <2>7. QED
    BY <1>0, <2>2, <2>3, <2>4, <2>5, <2>6 DEF Typed
<1>7. ASSUME NEW w \in Worker, Leaving(w)
      PROVE  Typed'
  BY <1>0, <1>7, LeavingSteps DEF Typed
<1>8. ASSUME NEW w \in Worker, NEW k \in Key, Scans(w, k)
      PROVE  Typed'
  BY <1>0, <1>8, ScanSteps DEF Typed
<1>9. QED
  BY <1>1, <1>2, <1>3, <1>4, <1>5, <1>6, <1>7, <1>8, Kinds

LEMMA SubjectsNext ==
  ASSUME Typed, Subjects, Delivering, Next
  PROVE  Subjects'
<1>0. Typed /\ Subjects
  OBVIOUS
<1>1. ASSUME NEW c \in Config, PutConfig(c)
      PROVE  Subjects'
  BY <1>0, <1>1 DEF PutConfig, queue, Subjects
<1>2. ASSUME NEW n \in Note, InsertRow(n)
      PROVE  Subjects'
  <2>1. /\ rows[n] = "absent" /\ rows' = [rows EXCEPT ![n] = "pending"]
        /\ asking' = asking \cup {n} /\ UNCHANGED <<jobs, subject>>
    BY <1>2 DEF InsertRow, queue
  <2>2. \A k \in Key : subject[k] # n
    BY <1>0, <2>1, NotifyConstantsOK DEF Subjects
  <2>3. \A m \in Note \ {n} : rows'[m] = rows[m]
    BY <1>0, <2>1 DEF Typed
  <2>4. QED
    BY <1>0, <2>1, <2>2, <2>3 DEF Typed, Subjects
<1>3. ASSUME NEW n \in Note, EnqueueJob(n)
      PROVE  Subjects'
  <2>1. /\ asking' = asking \ {n} /\ rows' = rows /\ rows[n] = "pending" /\ KeyOf[n] \in Key
        /\ \A c \in Key \ {KeyOf[n]} : jobs'[c] = jobs[c] /\ subject'[c] = subject[c]
        /\ \/ jobs' = jobs /\ subject' = subject
           \/ /\ jobs[KeyOf[n]].state = "absent" /\ jobs'[KeyOf[n]].state = "queued"
              /\ jobs'[KeyOf[n]].attempts = jobs[KeyOf[n]].attempts
              /\ subject'[KeyOf[n]] = n
    BY <1>3, EnqueueSteps
  <2>2. n # None
    BY NotifyConstantsOK
  <2>3. ASSUME NEW k \in Key
        PROVE  /\ subject'[k] = None <=> jobs'[k].state = "absent"
               /\ subject'[k] # None => /\ KeyOf[subject'[k]] = k
                                        /\ rows'[subject'[k]] # "absent"
                                        /\ subject'[k] \notin asking'
    <3>1. /\ subject[k] = None <=> jobs[k].state = "absent"
          /\ subject[k] # None => /\ KeyOf[subject[k]] = k
                                  /\ rows[subject[k]] # "absent" /\ subject[k] \notin asking
      BY <1>0 DEF Subjects
    <3>2. QED
      BY <2>1, <2>2, <3>1
  <2>4. QED
    BY <2>3 DEF Subjects
<1>4. ASSUME NEW n \in Note, EnqueueLost(n)
      PROVE  Subjects'
  BY <1>0, <1>4 DEF EnqueueLost, queue, Subjects
<1>5. ASSUME NEW w \in Worker, NEW k \in Key, Claim(w, k)
      PROVE  Subjects'
  <2>1. /\ jobs[k].state = "queued" /\ jobs'[k].state = "running"
        /\ \A c \in Key \ {k} : jobs'[c] = jobs[c]
        /\ UNCHANGED <<rows, asking, subject>>
    BY <1>5, ClaimSteps
  <2>2. \A c \in Key : jobs'[c].state = "absent" <=> jobs[c].state = "absent"
    BY <2>1
  <2>3. QED
    BY <1>0, <2>1, <2>2 DEF Subjects
<1>6. ASSUME NEW w \in Worker, Inside(w)
      PROVE  Subjects'
  <2>1. /\ UNCHANGED <<jobs, subject, asking>>
        /\ \A n \in Note : rows[n] # "absent" => rows'[n] # "absent"
    BY <1>6, InsideSteps
  <2>2. \A k \in Key : subject[k] # None => subject[k] \in Note
    BY <1>0 DEF Typed
  <2>3. QED
    BY <1>0, <2>1, <2>2 DEF Subjects
<1>7. ASSUME NEW w \in Worker, Leaving(w)
      PROVE  Subjects'
  <2>1. handler[w].key \in Key /\ jobs[handler[w].key].state # "absent"
    BY <1>7, LeavingSteps, Busy
  <2>2. UNCHANGED <<rows, asking, subject>>
    BY <1>7, LeavingSteps
  <2>3. \A k \in Key : jobs'[k].state = "absent" <=> jobs[k].state = "absent"
    BY <1>7, <2>1, LeavingSteps
  <2>4. QED
    BY <1>0, <2>2, <2>3 DEF Subjects
<1>8. ASSUME NEW w \in Worker, NEW c \in Key, Scans(w, c)
      PROVE  Subjects'
  BY <1>0, <1>8, ScanSteps DEF Subjects
<1>9. QED
  BY <1>1, <1>2, <1>3, <1>4, <1>5, <1>6, <1>7, <1>8, Kinds

\* A worker that does not move keeps its place while chats grow.
LEMMA ProgressKept ==
  ASSUME Typed, Subjects, Delivering, NEW w \in Worker, handler'[w] = handler[w],
         handler[w].pc # "idle" =>
           /\ subject'[handler[w].key] = subject[handler[w].key]
           /\ jobs'[handler[w].key].state # "absent"
           /\ ToSet(chat[Subject(w)]) \subseteq ToSet(chat'[Subject(w)]),
         excused \subseteq excused'
  PROVE  Progress(w)'
<1>1. Progress(w)
  BY DEF Delivering
<1>2. CASE handler[w].pc = "idle"
  BY <1>1, <1>2 DEF Progress, Idle
<1>3. CASE handler[w].pc # "idle"
  <2>1. /\ Subject(w)' = Subject(w)
        /\ jobs'[handler[w].key].state # "absent"
        /\ ToSet(chat[Subject(w)]) \subseteq ToSet(chat'[Subject(w)])
    BY <1>3 DEF Subject
  <2>2. Delivered(Subject(w)) => Delivered(Subject(w))'
    BY <2>1 DEF Delivered
  <2>3. QED
    BY <1>1, <1>3, <2>1, <2>2 DEF Progress
<1>4. QED
  BY <1>2, <1>3

\* The worker of a step of handleSend gets on.
LEMMA ProgressMade ==
  ASSUME Typed, Subjects, Delivering, Logged, NEW w \in Worker, Inside(w)
  PROVE  Progress(w)'
<1> DEFINE h == handler[w]
           n == Subject(w)
<1>0. /\ h \in Task /\ h.pc # "idle" /\ Progress(w)
      /\ handler \in [Worker -> Task] /\ Len(Items(n)) \in Nat
      /\ n \in Note /\ rows[n] # "absent" /\ h.key \in Key /\ jobs[h.key].state # "absent"
  BY HandlerSteps, Busy, ItemFacts DEF Typed, Delivering
<1>1. /\ UNCHANGED <<jobs, subject>> /\ handler'[w].key = h.key
      /\ handler'[w].pc \in {"send", "skip", "mark", "fail", "done", "failed", "failing",
                             "releasing"}
  BY HandlerSteps, InsideSteps
<1>2. n' = n
  BY <1>1 DEF Subject
<1>3. handler'[w] # Idle
  BY <1>1 DEF Idle
<1>4. ASSUME handler'[w].pc \in {"fail", "done", "failed", "failing", "releasing"}
      PROVE  Progress(w)'
  BY <1>0, <1>1, <1>3, <1>4 DEF Progress
<1>5. ASSUME handler'[w].pc = "skip", n \in excused'
      PROVE  Progress(w)'
  BY <1>0, <1>1, <1>2, <1>3, <1>5 DEF Progress
<1>6. CASE LoadConfig(w)
  <2>1. /\ h.pc = "load" /\ h.next = 1 /\ UNCHANGED <<excused, chat>>
        /\ handler' = [handler EXCEPT ![w].pc = IF Deliverable(config) THEN "send" ELSE "skip"]
    BY <1>0, <1>6 DEF LoadConfig, Goto, Progress, told
  <2>2. /\ handler'[w].next = 1
        /\ handler'[w].pc = IF Deliverable(config) THEN "send" ELSE "skip"
    BY <1>0, <2>1 DEF Task
  <2>3. CASE Deliverable(config)
    <3>1. 1 \in 1 .. Len(Items(n)) /\ Items(n)[1] # NoPath
      <4>1. Text # NoPath
        BY DEF Text, NoPath
      <4>2. QED
        BY <1>0, <4>1, ItemFacts
    <3>2. QED
      BY <1>0, <1>1, <1>2, <1>3, <2>2, <2>3, <3>1 DEF Progress
  <2>4. CASE ~Deliverable(config)
    <3>1. n \in excused'
      BY <1>0, <2>1, <2>4 DEF Logged
    <3>2. QED
      BY <1>5, <2>2, <2>4, <3>1
  <2>5. QED
    BY <2>3, <2>4
<1>7. CASE LoadConfigFails(w)
  <2>1. handler' = [handler EXCEPT ![w].pc = "skip"] /\ n \in excused'
    BY <1>7 DEF LoadConfigFails, Goto, Excuse
  <2>2. handler'[w].pc = "skip"
    BY <1>0, <2>1 DEF Task
  <2>3. QED
    BY <1>5, <2>1, <2>2
<1>8. CASE Send(w)
  <2> DEFINE left == Left(n, h.next)
  <2>1. /\ h.pc = "send" /\ Delivers(w)
        /\ handler' = [handler EXCEPT ![w] = IF left = {} THEN [@ EXCEPT !.pc = "mark"]
                                             ELSE [@ EXCEPT !.next = Min(left)]]
    BY <1>8 DEF Send, Delivers, Upcoming
  <2>2. /\ h.next \in 1 .. Len(Items(n)) /\ h.next \in Nat
        /\ \A j \in 1 .. h.next - 1 : Items(n)[j] # NoPath => Items(n)[j] \in ToSet(chat[n])
    BY <1>0, <2>1 DEF Progress, Task
  <2>3. ToSet(chat'[n]) = ToSet(chat[n]) \cup {Items(n)[h.next]}
    BY <2>1, ChatSteps DEF Upcoming
  <2>4. \A j \in 1 .. h.next : Items(n)[j] # NoPath => Items(n)[j] \in ToSet(chat'[n])
    BY <2>2, <2>3
  <2>5. CASE left = {}
    <3>1. handler'[w].pc = "mark"
      BY <1>0, <2>1, <2>5 DEF Task
    <3>2. \A j \in h.next + 1 .. Len(Items(n)) : Items(n)[j] = NoPath
      BY <1>0, <2>2, <2>5, LeftFacts
    <3>3. \A j \in 1 .. Len(Items(n)) : Items(n)[j] # NoPath => Items(n)[j] \in ToSet(chat'[n])
      BY <1>0, <2>2, <2>4, <3>2
    <3>4. \A item \in ToSet(Items(n)) : \E j \in 1 .. Len(Items(n)) : item = Items(n)[j]
      BY <1>0, ItemFacts DEF ToSet
    <3>5. Delivered(n)'
      BY <1>2, <3>3, <3>4 DEF Delivered
    <3>6. QED
      BY <1>0, <1>1, <1>2, <1>3, <3>1, <3>5 DEF Progress
  <2>6. CASE left # {}
    <3> DEFINE next == Min(left)
    <3>1. /\ next \in h.next + 1 .. Len(Items(n)) /\ Items(n)[next] # NoPath
          /\ \A j \in h.next + 1 .. next - 1 : Items(n)[j] = NoPath
      BY <1>0, <2>2, <2>6, LeftFacts
    <3>2. handler'[w].next = next /\ handler'[w].pc = "send"
      BY <1>0, <2>1, <2>6 DEF Task
    <3> HIDE DEF next, left
    <3>3. \A j \in 1 .. next - 1 : Items(n)[j] # NoPath => Items(n)[j] \in ToSet(chat'[n])
      BY <1>0, <2>2, <2>4, <3>1
    <3>4. next \in 1 .. Len(Items(n))
      BY <1>0, <2>2, <3>1
    <3>5. QED
      BY <1>0, <1>1, <1>2, <1>3, <3>1, <3>2, <3>3, <3>4 DEF Progress
  <2>7. QED
    BY <2>5, <2>6
<1>9. CASE SendFails(w) \/ MarkSkipped(w) \/ MarkSent(w) \/ MarkFailed(w)
  <2>1. \E p \in {"fail", "done", "failed"} : handler' = [handler EXCEPT ![w].pc = p]
    BY <1>9 DEF SendFails, MarkSkipped, MarkSent, MarkFailed, Goto
  <2>2. handler'[w].pc \in {"fail", "done", "failed"}
    BY <1>0, <2>1 DEF Task
  <2>3. QED
    BY <1>4, <2>2
<1>10. CASE LoadCounts(w)
  <2>1. handler'[w].pc \in {"failing", "releasing"}
    BY <1>0, <1>10 DEF LoadCounts, Task
  <2>2. QED
    BY <1>4, <2>1
<1>11. QED
  BY <1>6, <1>7, <1>8, <1>9, <1>10 DEF Inside

LEMMA DeliveringNext ==
  ASSUME Typed, Subjects, Delivering, Logged, Next
  PROVE  Delivering'
<1>0. \A v \in Worker : handler[v].pc # "idle" =>
        /\ handler[v].key \in Key /\ jobs[handler[v].key].state # "absent"
        /\ Subject(v) \in Note
  BY Busy
<1>1. ASSUME NEW c \in Config, PutConfig(c)
      PROVE  Delivering'
  BY <1>0, <1>1, ProgressKept DEF PutConfig, Excuse, queue, Delivering
<1>2. ASSUME NEW n \in Note, InsertRow(n) \/ EnqueueLost(n)
      PROVE  Delivering'
  BY <1>0, <1>2, ProgressKept DEF InsertRow, EnqueueLost, Excuse, queue, told, Delivering
<1>3. ASSUME NEW n \in Note, EnqueueJob(n)
      PROVE  Delivering'
  BY <1>0, <1>3, EnqueueSteps, ProgressKept DEF Delivering
<1>4. ASSUME NEW w \in Worker, NEW k \in Key, Claim(w, k)
      PROVE  Delivering'
  <2>1. /\ handler'[w] = [pc |-> "load", key |-> k, next |-> 1, seen |-> 0]
        /\ \A v \in Worker \ {w} : handler'[v] = handler[v]
        /\ \A c \in Key \ {k} : jobs'[c] = jobs[c]
        /\ jobs'[k].state = "running" /\ UNCHANGED <<subject, chat, excused>>
    BY <1>4, ClaimSteps
  <2>2. Progress(w)'
    BY <2>1 DEF Progress, Idle
  <2>3. \A v \in Worker \ {w} : Progress(v)'
    BY <1>0, <2>1, ProgressKept
  <2>4. QED
    BY <2>2, <2>3 DEF Delivering
<1>5. ASSUME NEW w \in Worker, Inside(w)
      PROVE  Delivering'
  <2>1. Progress(w)'
    BY <1>5, ProgressMade
  <2>2. /\ \A v \in Worker \ {w} : handler'[v] = handler[v]
        /\ UNCHANGED <<jobs, subject>> /\ excused \subseteq excused'
        /\ chat' = chat \/ Delivers(w)
    BY <1>5, HandlerSteps, InsideSteps
  <2>3. \A n \in Note : ToSet(chat[n]) \subseteq ToSet(chat'[n])
    BY <2>2, ChatSteps
  <2>4. \A v \in Worker \ {w} : Progress(v)'
    BY <1>0, <2>2, <2>3, ProgressKept
  <2>5. QED
    BY <2>1, <2>4 DEF Delivering
<1>6. ASSUME NEW w \in Worker, Leaving(w)
      PROVE  Delivering'
  <2>1. /\ handler'[w] = Idle /\ \A v \in Worker \ {w} : handler'[v] = handler[v]
        /\ UNCHANGED <<subject, chat, excused>>
        /\ \A c \in Key : jobs[c].state # "absent" => jobs'[c].state # "absent"
    BY <1>6, LeavingSteps
  <2>2. Progress(w)'
    BY <2>1 DEF Progress, Idle
  <2>3. \A v \in Worker \ {w} : Progress(v)'
    BY <1>0, <2>1, ProgressKept
  <2>4. QED
    BY <2>2, <2>3 DEF Delivering
<1>7. ASSUME NEW w \in Worker, NEW k \in Key, Scans(w, k)
      PROVE  Delivering'
  <2>1. /\ handler'[w] = [pc |-> "stale", key |-> k, next |-> 0, seen |-> 0]
        /\ \A v \in Worker \ {w} : handler'[v] = handler[v]
        /\ jobs[k].state = "running" /\ UNCHANGED <<jobs, subject, chat, excused>>
    BY <1>7, ScanSteps
  <2>2. Progress(w)'
    BY <2>1 DEF Progress, Idle
  <2>3. \A v \in Worker \ {w} : Progress(v)'
    BY <1>0, <2>1, ProgressKept
  <2>4. QED
    BY <2>2, <2>3 DEF Delivering
<1>8. QED
  BY <1>1, <1>2, <1>3, <1>4, <1>5, <1>6, <1>7, Kinds

\* What a finished notification says stays true.
LEMMA LoggedNext ==
  ASSUME Typed, Subjects, Delivering, Logged, Next
  PROVE  Logged'
<1>0. Typed /\ Logged
  OBVIOUS
<1>1. ASSUME UNCHANGED <<config, rows>>, excused \subseteq excused',
             \A n \in Note : ToSet(chat[n]) \subseteq ToSet(chat'[n])
      PROVE  Logged'
  <2>1. \A n \in Note : Delivered(n) => Delivered(n)'
    BY <1>1 DEF Delivered
  <2>2. QED
    BY <1>0, <1>1, <2>1 DEF Logged
<1>2. ASSUME NEW c \in Config, PutConfig(c)
      PROVE  Logged'
  <2>1. /\ config' = c /\ UNCHANGED <<rows, chat>>
        /\ excused' = excused \cup IF Deliverable(c) THEN {} ELSE {n \in Note : rows[n] # "absent"}
    BY <1>2 DEF PutConfig, Excuse
  <2>2. \A n \in Note : Delivered(n)' = Delivered(n)
    BY <2>1 DEF Delivered
  <2>3. \A n \in Note : rows[n] # "absent" /\ ~Deliverable(config') => n \in excused'
    BY <2>1
  <2>4. Deliverable(config)' = Deliverable(config')
    BY DEF Deliverable
  <2>5. QED
    BY <1>0, <2>1, <2>2, <2>3, <2>4 DEF Logged
<1>3. ASSUME NEW n \in Note, InsertRow(n)
      PROVE  Logged'
  <2>1. /\ rows' = [rows EXCEPT ![n] = "pending"] /\ UNCHANGED <<config, chat>>
        /\ excused' = excused \cup IF Deliverable(config) THEN {} ELSE {n}
    BY <1>3 DEF InsertRow, Excuse
  <2>2. \A m \in Note : Delivered(m)' = Delivered(m)
    BY <2>1 DEF Delivered
  <2>3. rows'[n] = "pending" /\ \A m \in Note \ {n} : rows'[m] = rows[m]
    BY <1>0, <2>1 DEF Typed
  <2>4. QED
    BY <1>0, <2>1, <2>2, <2>3 DEF Logged, Deliverable
<1>4. ASSUME NEW n \in Note, EnqueueJob(n) \/ EnqueueLost(n)
      PROVE  Logged'
  <2>1. UNCHANGED <<config, rows, excused, chat>>
    BY <1>4 DEF EnqueueJob, EnqueueLost, told
  <2>2. QED
    BY <1>1, <2>1
<1>5. ASSUME NEW w \in Worker, NEW k \in Key, Claim(w, k)
      PROVE  Logged'
  BY <1>1, <1>5, ClaimSteps
<1>6. ASSUME NEW w \in Worker, NEW k \in Key, Scans(w, k)
      PROVE  Logged'
  BY <1>1, <1>6, ScanSteps
<1>7. ASSUME NEW w \in Worker, Inside(w)
      PROVE  Logged'
  <2> DEFINE n == Subject(w)
  <2>1. /\ n \in Note /\ rows[n] # "absent" /\ UNCHANGED config /\ excused \subseteq excused'
        /\ \A m \in Note \ {n} : rows'[m] = rows[m]
        /\ \A m \in Note : ToSet(chat[m]) \subseteq ToSet(chat'[m])
    <3>1. handler[w].pc # "idle"
      BY <1>7, HandlerSteps
    <3>2. n \in Note /\ rows[n] # "absent"
      BY <3>1, Busy
    <3>3. /\ UNCHANGED config /\ excused \subseteq excused'
          /\ \A m \in Note \ {n} : rows'[m] = rows[m]
          /\ chat' = chat \/ Delivers(w)
      BY <1>7, InsideSteps
    <3>4. CASE Delivers(w)
      <4>1. /\ \A m \in Note \ {n} : chat'[m] = chat[m]
            /\ ToSet(chat[n]) \subseteq ToSet(chat'[n])
        BY <3>4, ChatSteps
      <4>2. QED
        BY <3>2, <3>3, <4>1
    <3>5. QED
      BY <3>2, <3>3, <3>4
  <2>2. \A m \in Note : Delivered(m) => Delivered(m)'
    BY <2>1 DEF Delivered
  <2>3. \/ rows' = rows
        \/ handler[w].pc = "skip" /\ rows' = [rows EXCEPT ![n] = "skipped"]
        \/ handler[w].pc = "mark" /\ rows' = [rows EXCEPT ![n] = "sent"]
        \/ rows' = [rows EXCEPT ![n] = "failed"]
    BY <1>7 DEF Inside, LoadConfig, LoadConfigFails, Send, SendFails, MarkSkipped, MarkSent,
                MarkFailed, LoadCounts, SetStatus
  <2>4. /\ handler[w].pc = "skip" => n \in excused
        /\ handler[w].pc = "mark" => Delivered(n)
    BY DEF Delivering, Progress
  <2>5. /\ rows'[n] = "sent" => Delivered(n)
        /\ rows'[n] = "skipped" => n \in excused
    BY <1>0, <2>1, <2>3, <2>4 DEF Typed, Logged
  <2>6. QED
    BY <1>0, <2>1, <2>2, <2>5 DEF Logged, Deliverable
<1>8. ASSUME NEW w \in Worker, Leaving(w)
      PROVE  Logged'
  BY <1>1, <1>8, LeavingSteps
<1>9. QED
  BY <1>2, <1>3, <1>4, <1>5, <1>6, <1>7, <1>8, Kinds

\* A delivery comes after what has to precede it.
LEMMA OrderedNext ==
  ASSUME Typed, Subjects, Delivering, Ordered, Next
  PROVE  Ordered'
<1>0. Typed /\ Ordered /\ Subjects
  OBVIOUS
<1>1. ASSUME UNCHANGED <<chat, subject>>
      PROVE  Ordered'
  BY <1>0, <1>1 DEF Ordered
<1>2. ASSUME NEW n \in Note, EnqueueJob(n)
      PROVE  Ordered'
  <2>1. /\ chat' = chat
        /\ \A c \in Key : subject[c] # None => subject'[c] = subject[c]
    BY <1>2, EnqueueSteps
  <2>2. \A m \in Note : subject[KeyOf[m]] = m => subject'[KeyOf[m]] = m
    BY <2>1, NotifyConstantsOK
  <2>3. QED
    BY <1>0, <2>1, <2>2 DEF Ordered
<1>3. ASSUME NEW w \in Worker, Delivers(w), UNCHANGED subject
      PROVE  Ordered'
  <2> DEFINE n == Subject(w)
             last == Len(chat[n]) + 1
  <2>1. /\ n \in Note /\ subject[KeyOf[n]] = n /\ handler[w].pc = "send"
    BY <1>3, Busy DEF Delivers
  <2>2. /\ \A m \in Note \ {n} : chat'[m] = chat[m]
        /\ Len(chat[n]) \in Nat /\ Len(chat'[n]) = last
        /\ \A p \in 1 .. Len(chat[n]) : chat'[n][p] = chat[n][p]
        /\ chat'[n][last] = Upcoming(w)
        /\ ToSet(chat'[n]) \subseteq ToSet(chat[n]) \cup {Upcoming(w)}
        /\ Upcoming(w) \in ToSet(Items(n))
        /\ chat' \in [Note -> Seq(Item)]
    BY <1>3, ChatSteps
  <2>3. /\ handler[w].next \in 1 .. Len(Items(n))
        /\ \A j \in 1 .. handler[w].next - 1 :
             Items(n)[j] # NoPath => Items(n)[j] \in ToSet(chat[n])
    BY <2>1 DEF Delivering, Progress
  <2>4. /\ DOMAIN Items(n) = 1 .. Len(Items(n)) /\ Len(Items(n)) \in Nat
        /\ DOMAIN chat[n] = 1 .. Len(chat[n]) /\ DOMAIN chat'[n] = 1 .. last
    BY <1>0, <2>1, <2>2, ItemFacts DEF Typed
  <2>5. ASSUME NEW i \in DOMAIN Items(n), NEW j \in DOMAIN Items(n), NEW p \in DOMAIN chat'[n],
               j < i, Items(n)[j] # NoPath, chat'[n][p] = Items(n)[i]
        PROVE  \E q \in 1 .. p - 1 : chat'[n][q] = Items(n)[j]
    <3>1. CASE p = last
      <4>1. Items(n)[handler[w].next] = Items(n)[i]
        BY <2>2, <2>5, <3>1 DEF Upcoming
      <4>2. handler[w].next = i
        BY <2>1, <2>3, <2>4, <4>1, ItemFacts
      <4>3. j \in 1 .. i - 1
        BY <2>4, <2>5
      <4>4. Items(n)[j] \in ToSet(chat[n])
        BY <2>3, <2>5, <4>2, <4>3
      <4>5. PICK q \in 1 .. Len(chat[n]) : chat[n][q] = Items(n)[j]
        BY <2>4, <4>4 DEF ToSet
      <4>6. q \in 1 .. p - 1
        BY <2>2, <3>1
      <4>7. QED
        BY <2>2, <4>5, <4>6
    <3>2. CASE p # last
      <4>1. p \in 1 .. Len(chat[n])
        BY <2>2, <2>4, <3>2
      <4>2. chat[n][p] = Items(n)[i] /\ p \in DOMAIN chat[n]
        BY <2>2, <2>4, <2>5, <4>1
      <4>3. PICK q \in 1 .. p - 1 : chat[n][q] = Items(n)[j]
        BY <1>0, <2>1, <2>5, <4>2 DEF Ordered
      <4>4. q \in 1 .. Len(chat[n])
        BY <2>2, <4>1
      <4>5. QED
        BY <2>2, <4>3, <4>4
    <3>3. QED
      BY <3>1, <3>2
  <2>6. /\ ToSet(chat'[n]) \subseteq ToSet(Items(n))
        /\ subject'[KeyOf[n]] = n
    BY <1>0, <1>3, <2>1, <2>2 DEF Ordered
  <2> HIDE DEF n, last
  <2>7. ASSUME NEW m \in Note
        PROVE  /\ ToSet(chat'[m]) \subseteq ToSet(Items(m))
               /\ chat'[m] # <<>> => subject'[KeyOf[m]] = m
               /\ \A i, j \in DOMAIN Items(m), p \in DOMAIN chat'[m] :
                    j < i /\ Items(m)[j] # NoPath /\ chat'[m][p] = Items(m)[i] =>
                      \E q \in 1 .. p - 1 : chat'[m][q] = Items(m)[j]
    <3>1. CASE m = n
      BY <2>5, <2>6, <3>1
    <3>2. CASE m # n
      <4>1. chat'[m] = chat[m]
        BY <2>2, <3>2
      <4>2. QED
        BY <1>0, <1>3, <4>1 DEF Ordered
    <3>3. QED
      BY <3>1, <3>2
  <2>8. QED
    BY <2>7 DEF Ordered
<1>4. ASSUME NEW w \in Worker, Inside(w)
      PROVE  Ordered'
  BY <1>1, <1>3, <1>4, InsideSteps
<1>5. ASSUME NEW n \in Note, InsertRow(n) \/ EnqueueLost(n)
      PROVE  Ordered'
  BY <1>1, <1>5 DEF InsertRow, EnqueueLost, queue, told
<1>6. ASSUME NEW c \in Config, PutConfig(c)
      PROVE  Ordered'
  BY <1>1, <1>6 DEF PutConfig, queue
<1>7. ASSUME NEW w \in Worker, NEW k \in Key, Claim(w, k) \/ Leaving(w)
      PROVE  Ordered'
  BY <1>1, <1>7, ClaimSteps, LeavingSteps
<1>8. ASSUME NEW w \in Worker, NEW k \in Key, Scans(w, k)
      PROVE  Ordered'
  BY <1>1, <1>8, ScanSteps
<1>9. QED
  <2>1. ASSUME NEW w \in Worker, Leaving(w)
        PROVE  Ordered'
    BY <1>1, <2>1, LeavingSteps
  <2>2. QED
    BY <1>2, <1>4, <1>5, <1>6, <1>7, <1>8, <2>1, Kinds

-----------------------------------------------------------------------------
(***************************************************************************)
(* As long as nothing has gone wrong.                                      *)
(***************************************************************************)

\* A worker that has a key has a job with a subject.
LEMMA Holder ==
  ASSUME Typed, Subjects, Delivering, NEW w \in Worker, NEW k \in Key, handler[w].key = k
  PROVE  /\ handler[w].pc # "idle" /\ handler[w] # Idle
         /\ jobs[k].state # "absent" /\ subject[k] \in Note /\ Subject(w) = subject[k]
         /\ rows[subject[k]] # "absent" /\ KeyOf[subject[k]] = k
<1>1. None \notin Key
  BY NotifyConstantsOK
<1>2. handler[w] # Idle
  BY <1>1 DEF Idle
<1>3. handler[w].pc # "idle"
  BY <1>2 DEF Delivering, Progress
<1>4. QED
  BY <1>2, <1>3, Busy

\* Another key is no concern of the worker.
LEMMA Elsewhere ==
  ASSUME NEW w \in Worker, NEW k \in Key,
         handler[w].key # k, handler'[w].key # k,
         \A v \in Worker \ {w} : handler'[v] = handler[v]
  PROVE  /\ Live(k)' = Live(k) /\ Early(k)' = Early(k) /\ Due(k)' = Due(k)
         /\ \A v \in Worker : handler'[v].key = k => handler[v].key = k /\ handler'[v] = handler[v]
<1>1. \A v \in Worker : handler'[v].key = k <=> handler[v].key = k
  OBVIOUS
<1>2. \A v \in Worker : handler[v].key = k => handler'[v] = handler[v]
  OBVIOUS
<1>3. Live(k)' = Live(k)
  BY <1>1, <1>2 DEF Live
<1>4. Early(k)' = Early(k) /\ Due(k)' = Due(k)
  BY <1>1, <1>2 DEF Early, Due, AtText, Owes
<1>5. QED
  BY <1>1, <1>2, <1>3, <1>4

LEMMA CalmNext ==
  ASSUME Typed, Subjects, Delivering, Calm, Next
  PROVE  Calm'
<1>0. Typed /\ Subjects /\ Calm /\ None \notin Key
  BY NotifyConstantsOK
<1>a. faults \in 0 .. MaxFaults /\ MaxFaults \in Nat
  BY NotifyConstantsOK DEF Typed
<1>1. ASSUME faults' = faults => \A k \in Key : Uneventful(k) => Uneventful(k)',
             faults' = faults \/ faults' = faults + 1
      PROVE  Calm'
  <2>1. ASSUME faults' = 0
        PROVE  \A k \in Key : Uneventful(k)'
    <3>1. faults' = faults
      BY <1>1, <1>a, <2>1
    <3>2. QED
      BY <1>0, <1>1, <2>1, <3>1 DEF Calm
  <2>2. QED
    BY <2>1 DEF Calm
<1>2. ASSUME NEW c \in Config, PutConfig(c)
      PROVE  Calm'
  BY <1>0, <1>2 DEF PutConfig, queue, Calm, Uneventful, Live
<1>3. ASSUME NEW n \in Note, InsertRow(n)
      PROVE  Calm'
  <2>1. /\ rows[n] = "absent" /\ UNCHANGED <<jobs, subject, handler, faults>>
        /\ rows' = [rows EXCEPT ![n] = "pending"]
    BY <1>3 DEF InsertRow, queue
  <2>2. ASSUME NEW k \in Key, jobs[k].state # "absent"
        PROVE  rows'[subject[k]] = rows[subject[k]]
    BY <1>0, <2>1, <2>2 DEF Typed, Subjects
  <2>3. \A k \in Key : Uneventful(k) => Uneventful(k)'
    BY <2>1, <2>2, Holder DEF Uneventful, Live
  <2>4. QED
    BY <1>1, <2>1, <2>3
<1>4. ASSUME NEW n \in Note, EnqueueJob(n)
      PROVE  Calm'
  <2>1. ASSUME NEW k \in Key, Uneventful(k)
        PROVE  Uneventful(k)'
    <3>0. UNCHANGED <<rows, handler>>
      BY <1>4, EnqueueSteps
    <3>1. CASE jobs'[k] = jobs[k] /\ subject'[k] = subject[k]
      BY <2>1, <3>0, <3>1 DEF Uneventful, Live
    <3>2. CASE ~(jobs'[k] = jobs[k] /\ subject'[k] = subject[k])
      <4>1. jobs[k].state = "absent" /\ jobs'[k].state = "queued"
        BY <1>4, <3>2, EnqueueSteps
      <4>2. \A w \in Worker : handler'[w].key # k
        BY <3>0, <4>1, Holder
      <4>3. QED
        BY <4>1, <4>2 DEF Uneventful, Live
    <3>3. QED
      BY <3>1, <3>2
  <2>2. faults' = faults
    BY <1>4, EnqueueSteps
  <2>3. QED
    BY <1>1, <2>1, <2>2
<1>5. ASSUME NEW n \in Note, EnqueueLost(n)
      PROVE  Calm'
  <2>1. faults' = faults + 1
    BY <1>5 DEF EnqueueLost, Fault
  <2>2. QED
    BY <1>1, <1>a, <2>1
<1>6. ASSUME NEW w \in Worker, NEW k \in Key, Claim(w, k)
      PROVE  Calm'
  <2>1. /\ handler[w] = Idle /\ jobs[k].state = "queued"
        /\ handler'[w] = [pc |-> "load", key |-> k, next |-> 1, seen |-> 0]
        /\ \A v \in Worker \ {w} : handler'[v] = handler[v]
        /\ \A c \in Key \ {k} : jobs'[c] = jobs[c]
        /\ jobs'[k].state = "running" /\ UNCHANGED <<rows, subject, faults>>
    BY <1>6, ClaimSteps
  <2>a. handler'[w].key = k /\ handler'[w].pc = "load"
    BY <2>1
  <2>2. handler[w].key = None
    BY <2>1 DEF Idle
  <2>3. ASSUME NEW c \in Key, Uneventful(c)
        PROVE  Uneventful(c)'
    <3>1. CASE c = k
      <4>1. \A v \in Worker \ {w} : handler'[v].key # k
        BY <2>1, <2>a, <2>3, <3>1 DEF Uneventful, Live, Reclaiming
      <4>2. Live(k)'
        BY <2>a DEF Live
      <4>3. QED
        BY <2>1, <2>a, <3>1, <4>1, <4>2 DEF Uneventful, Reclaiming
    <3>2. CASE c # k
      <4>1. handler[w].key # c /\ handler'[w].key # c
        BY <1>0, <2>1, <2>a, <2>2, <3>2
      <4>2. /\ Live(c)' = Live(c)
            /\ \A v \in Worker : handler'[v].key = c =>
                 handler[v].key = c /\ handler'[v] = handler[v]
        BY <2>1, <4>1, Elsewhere
      <4>3. jobs'[c] = jobs[c]
        BY <2>1, <3>2
      <4>4. QED
        BY <2>1, <2>3, <4>2, <4>3 DEF Uneventful
    <3>3. QED
      BY <3>1, <3>2
  <2>4. QED
    BY <1>1, <2>1, <2>3
<1>7. ASSUME NEW w \in Worker, Inside(w)
      PROVE  Calm'
  <2> DEFINE n == Subject(w)
  <2>1. /\ n \in Note /\ handler[w].key \in Key /\ subject[handler[w].key] = n
        /\ UNCHANGED <<jobs, subject>> /\ faults' \in {faults, faults + 1}
        /\ handler'[w].key = handler[w].key
        /\ \A v \in Worker \ {w} : handler'[v] = handler[v]
        /\ \A m \in Note \ {n} : rows'[m] = rows[m]
        /\ rows'[n] = "pending" => rows[n] = "pending"
        /\ handler[w].pc \in Reclaiming <=> handler'[w].pc \in Reclaiming
    BY <1>7, HandlerSteps, InsideSteps, Busy
  <2>2. ASSUME faults' = faults, ~LoadCounts(w),
               handler'[w].pc \in {"done", "failed", "failing"}
        PROVE  rows'[n] # "pending"
    <3>1. \/ MarkSkipped(w) \/ MarkSent(w) \/ MarkFailed(w)
          \/ LoadConfig(w) \/ LoadConfigFails(w) \/ Send(w) \/ SendFails(w)
      BY <1>7, <2>2 DEF Inside
    <3>2. CASE MarkSkipped(w) \/ MarkSent(w) \/ MarkFailed(w)
      <4>1. \E status \in {"skipped", "sent", "failed"} : SetStatus(w, status)
        BY <3>2 DEF MarkSkipped, MarkSent, MarkFailed
      <4>2. ~Fault
        BY <1>a, <2>2 DEF Fault
      <4>3. \E status \in {"skipped", "sent", "failed"} : rows' = [rows EXCEPT ![n] = status]
        BY <4>1, <4>2 DEF SetStatus
      <4>4. QED
        BY <1>0, <2>1, <4>3 DEF Typed
    <3>3. CASE LoadConfig(w) \/ LoadConfigFails(w) \/ Send(w) \/ SendFails(w)
      <4>1. handler'[w].pc \in {"send", "skip", "mark", "fail"}
        BY <1>0, <3>3 DEF LoadConfig, LoadConfigFails, Send, SendFails, Goto, Typed, Task
      <4>2. QED
        BY <2>2, <4>1
    <3>4. QED
      BY <3>1, <3>2, <3>3
  <2> HIDE DEF n
  <2>3. ASSUME NEW c \in Key, Uneventful(c), faults' = faults
        PROVE  Uneventful(c)'
    <3>1. \A v \in Worker : handler'[v].key = handler[v].key
      BY <2>1
    <3>2. Live(c)' = Live(c)
      <4>1. \A v \in Worker : handler'[v].pc \in Reclaiming <=> handler[v].pc \in Reclaiming
        BY <2>1
      <4>2. QED
        BY <3>1, <4>1 DEF Live, Reclaiming
    <3>3. jobs[c].state # "absent" =>
            /\ subject[c] \in Note
            /\ rows'[subject[c]] = "pending" => rows[subject[c]] = "pending"
      BY <1>0, <2>1 DEF Typed, Subjects
    <3>4. ASSUME NEW v \in Worker, handler'[v].key = c,
                 handler'[v].pc \in {"done", "failed", "failing"}
          PROVE  rows'[subject[c]] # "pending"
      <4>0. CASE v = w /\ LoadCounts(w)
        <5>1. handler[w].pc \in {"failed", "stale"} /\ UNCHANGED rows /\ handler[w].key = c
          BY <2>1, <3>4, <4>0 DEF LoadCounts
        <5>2. handler[w].pc = "failed"
          BY <2>3, <5>1 DEF Uneventful, Reclaiming
        <5>3. QED
          BY <2>3, <5>1, <5>2 DEF Uneventful
      <4>1. CASE v = w /\ ~LoadCounts(w)
        BY <2>1, <2>2, <2>3, <3>4, <4>1
      <4>2. CASE v # w
        <5>1. handler'[v] = handler[v] /\ jobs[c].state # "absent"
          BY <2>1, <3>4, <4>2, Holder
        <5>2. rows[subject[c]] # "pending"
          BY <2>3, <3>4, <5>1 DEF Uneventful
        <5>3. QED
          BY <3>3, <5>1, <5>2
      <4>3. QED
        BY <4>0, <4>1, <4>2
    <3>5. \A v \in Worker : handler'[v].key = c => handler'[v].pc \notin Reclaiming
      BY <2>1, <2>3, <3>1 DEF Uneventful
    <3>6. QED
      BY <2>1, <2>3, <3>1, <3>2, <3>3, <3>4, <3>5 DEF Uneventful
  <2>4. QED
    BY <1>1, <2>1, <2>3
<1>8. ASSUME NEW w \in Worker, Leaving(w)
      PROVE  Calm'
  <2> DEFINE k == handler[w].key
  <2>1. /\ k \in Key /\ handler'[w] = Idle
        /\ \A v \in Worker \ {w} : handler'[v] = handler[v]
        /\ UNCHANGED <<rows, subject>>
        /\ faults' \in {faults, faults + 1}
        /\ \A c \in Key \ {k} : jobs'[c] = jobs[c]
        /\ faults' = faults => /\ jobs'[k].state \in {"queued", "dead", "succeeded"}
                              /\ handler[w].pc \in {"done", "failing", "releasing"}
    BY <1>8, <1>a, LeavingSteps, Busy
  <2>2. handler'[w].key = None
    BY <2>1 DEF Idle
  <2>3. ASSUME NEW c \in Key, Uneventful(c), faults' = faults
        PROVE  Uneventful(c)'
    <3>1. CASE c = k
      <4>1. \A v \in Worker : handler'[v].key # k
        BY <1>0, <2>1, <2>2, <2>3, <3>1 DEF Uneventful
      <4>2. rows[subject[k]] # "pending"
        BY <2>1, <2>3, <3>1 DEF Uneventful, Reclaiming
      <4>3. QED
        BY <2>1, <2>3, <3>1, <4>1, <4>2 DEF Uneventful, Live
    <3>2. CASE c # k
      <4>1. handler[w].key # c /\ handler'[w].key # c
        BY <1>0, <2>1, <2>2, <3>2
      <4>2. /\ Live(c)' = Live(c)
            /\ \A v \in Worker : handler'[v].key = c =>
                 handler[v].key = c /\ handler'[v] = handler[v]
        BY <2>1, <4>1, Elsewhere
      <4>3. jobs'[c] = jobs[c]
        BY <2>1, <3>2
      <4>4. QED
        BY <2>1, <2>3, <4>2, <4>3 DEF Uneventful
    <3>3. QED
      BY <3>1, <3>2
  <2>4. QED
    BY <1>1, <2>1, <2>3
<1>9. ASSUME NEW w \in Worker, NEW k \in Key, Scans(w, k)
      PROVE  Calm'
  <2>1. /\ jobs[k].state = "running" /\ UNCHANGED <<rows, jobs, subject>>
        /\ handler[w] = Idle
        /\ handler'[w] = [pc |-> "stale", key |-> k, next |-> 0, seen |-> 0]
        /\ \A v \in Worker \ {w} : handler'[v] = handler[v]
        /\ (faults' = faults /\ ~Live(k)) \/ faults' = faults + 1
    BY <1>9, ScanSteps
  <2>a. handler'[w].key = k /\ handler[w].key = None
    BY <2>1 DEF Idle
  <2>2. ASSUME NEW c \in Key, Uneventful(c), faults' = faults
        PROVE  Uneventful(c)'
    <3>1. ~Live(k)
      BY <1>a, <2>1, <2>2
    <3>2. c # k
      BY <2>1, <2>2, <3>1 DEF Uneventful
    <3>3. /\ Live(c)' = Live(c)
          /\ \A v \in Worker : handler'[v].key = c =>
               handler[v].key = c /\ handler'[v] = handler[v]
      BY <1>0, <2>1, <2>a, <3>2, Elsewhere
    <3>4. QED
      BY <2>1, <2>2, <3>3 DEF Uneventful
  <2>3. QED
    BY <1>1, <2>1, <2>2
<1>10. QED
  BY <1>2, <1>3, <1>4, <1>5, <1>6, <1>7, <1>8, <1>9, Kinds

-----------------------------------------------------------------------------
(***************************************************************************)
(* How often the text is delivered.                                        *)
(***************************************************************************)

\* Sets that differ in one element at most.
LEMMA Shift ==
  ASSUME NEW S, NEW T, NEW x, IsFiniteSet(S), S \ {x} = T \ {x}
  PROVE  /\ IsFiniteSet(T) /\ Cardinality(S) \in Nat /\ Cardinality(T) \in Nat
         /\ (x \in S <=> x \in T) => Cardinality(T) = Cardinality(S)
         /\ x \in S /\ x \notin T => Cardinality(T) = Cardinality(S) - 1
         /\ x \notin S /\ x \in T => Cardinality(T) = Cardinality(S) + 1
<1>1. IsFiniteSet(S \ {x})
  BY FS_RemoveElement
<1>2. IsFiniteSet((S \ {x}) \cup {x})
  BY <1>1, FS_AddElement
<1>3. T \subseteq (S \ {x}) \cup {x}
  OBVIOUS
<1>4. IsFiniteSet(T)
  BY <1>2, <1>3, FS_Subset
<1>5. Cardinality(S) \in Nat /\ Cardinality(T) \in Nat
  BY <1>4, FS_CardinalityType
<1>6. /\ Cardinality(S \ {x}) = IF x \in S THEN Cardinality(S) - 1 ELSE Cardinality(S)
      /\ Cardinality(T \ {x}) = IF x \in T THEN Cardinality(T) - 1 ELSE Cardinality(T)
  BY <1>4, FS_RemoveElement
<1>7. Cardinality(S \ {x}) = Cardinality(T \ {x})
  OBVIOUS
<1>8. QED
  BY <1>4, <1>5, <1>6, <1>7

TextAt(s) == {i \in DOMAIN s : s[i] = Text}

LEMMA TextFacts ==
  ASSUME Typed, NEW n \in Note
  PROVE  /\ Texts(n) \in Nat /\ Texts(n) = Cardinality(TextAt(chat[n]))
         /\ IsFiniteSet(TextAt(chat[n]))
         /\ chat[n] = <<>> => Texts(n) = 0
<1>1. chat[n] \in Seq(Item)
  BY DEF Typed
<1>2. Len(chat[n]) \in Nat /\ DOMAIN chat[n] = 1 .. Len(chat[n])
  BY <1>1
<1>3. IsFiniteSet(1 .. Len(chat[n]))
  BY <1>2, FS_Interval
<1>4. TextAt(chat[n]) \subseteq 1 .. Len(chat[n])
  BY <1>2 DEF TextAt
<1>5. IsFiniteSet(TextAt(chat[n])) /\ Cardinality(TextAt(chat[n])) \in Nat
  BY <1>3, <1>4, FS_Subset, FS_CardinalityType
<1>6. Texts(n) = Cardinality(TextAt(chat[n]))
  BY DEF Texts, TextAt
<1>7. chat[n] = <<>> => TextAt(chat[n]) = {}
  BY DEF TextAt
<1>8. QED
  BY <1>5, <1>6, <1>7, FS_EmptySet

\* A delivery adds one text, if it is the text.
LEMMA TextSteps ==
  ASSUME Typed, Subjects, Delivering, NEW w \in Worker, NEW n \in Note, Delivers(w)
  PROVE  Texts(n)' = IF n = Subject(w) /\ Upcoming(w) = Text THEN Texts(n) + 1 ELSE Texts(n)
<1>1. CASE n # Subject(w)
  <2>1. chat'[n] = chat[n]
    BY <1>1, ChatSteps
  <2>2. QED
    BY <1>1, <2>1 DEF Texts
<1>2. CASE n = Subject(w)
  <2> DEFINE s == chat[n]
             t == chat'[n]
             last == Len(s) + 1
  <2>1. /\ chat' \in [Note -> Seq(Item)]
        /\ Len(s) \in Nat /\ Len(t) = last
        /\ \A p \in 1 .. Len(s) : t[p] = s[p]
        /\ t[last] = Upcoming(w)
    BY <1>2, ChatSteps
  <2>2. DOMAIN s = 1 .. Len(s) /\ DOMAIN t = 1 .. last
    BY <2>1 DEF Typed
  <2>3. /\ IsFiniteSet(TextAt(s)) /\ Texts(n) = Cardinality(TextAt(s))
        /\ Texts(n)' = Cardinality(TextAt(t)) /\ Texts(n) \in Nat
    BY TextFacts DEF Texts, TextAt
  <2> HIDE DEF s, t
  <2>4. last \notin TextAt(s) /\ TextAt(s) \ {last} = TextAt(t) \ {last}
    BY <2>1, <2>2 DEF TextAt
  <2>5. last \in TextAt(t) <=> Upcoming(w) = Text
    BY <2>1, <2>2 DEF TextAt
  <2> HIDE DEF last
  <2>6. /\ Upcoming(w) = Text => Cardinality(TextAt(t)) = Cardinality(TextAt(s)) + 1
        /\ Upcoming(w) # Text => Cardinality(TextAt(t)) = Cardinality(TextAt(s))
    BY <2>3, <2>4, <2>5, Shift
  <2>7. QED
    BY <1>2, <2>3, <2>6
<1>3. QED
  BY <1>1, <1>2

\* Where a step of handleSend takes a worker, and whether it delivers the text.
LEMMA Steps ==
  ASSUME Typed, Subjects, Delivering, NEW w \in Worker, Inside(w)
  PROVE  /\ AtText(w)' => AtText(w)
         /\ Delivers(w) /\ Upcoming(w) = Text => AtText(w) /\ ~AtText(w)'
         /\ ToSet(Photos[Subject(w)]) \cap Missing = {} =>
              \/ /\ faults' = faults + 1
                 /\ Owes(w)' /\ ~Owes(w) => chat' = chat \/ Upcoming(w) # Text
              \/ /\ faults' = faults /\ (Owes(w)' => Owes(w))
                 /\ Delivers(w) /\ Upcoming(w) = Text => ~Owes(w)'
<1> DEFINE h == handler[w]
           n == Subject(w)
<1>0. /\ handler \in [Worker -> Task] /\ h \in Task /\ n \in Note
      /\ Len(Items(n)) \in Nat /\ Items(n)[1] = Text
      /\ h.pc = "load" => h.next = 1
      /\ h.pc = "send" => h.next \in 1 .. Len(Items(n))
  BY HandlerSteps, Busy, ItemFacts DEF Typed, Delivering, Progress
<1>1. ASSUME NEW p \in Position, Goto(w, p)
      PROVE  handler'[w].pc = p /\ handler'[w].next = h.next
  BY <1>0, <1>1 DEF Goto, Task
<1>2. h.pc = "send" => (Upcoming(w) = Text <=> h.next = 1)
  BY <1>0, ItemFacts DEF Upcoming
<1>3. CASE LoadConfig(w)
  <2>1. /\ h.pc = "load" /\ faults' = faults /\ ~Delivers(w)
        /\ \E p \in {"send", "skip"} : Goto(w, p)
    BY <1>3 DEF LoadConfig, Delivers
  <2>2. QED
    BY <1>0, <1>1, <2>1 DEF AtText, Owes, Reclaiming, Position
<1>4. CASE LoadConfigFails(w)
  <2>1. /\ h.pc = "load" /\ faults' = faults + 1 /\ ~Delivers(w) /\ Goto(w, "skip")
    BY <1>4 DEF LoadConfigFails, Fault, Delivers
  <2>2. QED
    BY <1>0, <1>1, <2>1 DEF AtText, Owes, Reclaiming, Position
<1>5. CASE Send(w)
  <2>1. h.pc = "send" /\ faults' = faults
    BY <1>5 DEF Send
  <2>2. handler'[w].pc = "mark" \/ (handler'[w].pc = "send" /\ handler'[w].next > 1)
    <3>1. CASE Left(n, h.next) = {}
      <4>1. handler' = [handler EXCEPT ![w] = [h EXCEPT !.pc = "mark"]]
        BY <1>0, <1>5, <3>1 DEF Send
      <4>2. QED
        BY <1>0, <4>1 DEF Task
    <3>2. CASE Left(n, h.next) # {}
      <4> DEFINE j == Min(Left(n, h.next))
      <4>1. handler' = [handler EXCEPT ![w] = [h EXCEPT !.next = j]]
        BY <1>0, <1>5, <3>2 DEF Send
      <4>2. j \in Nat /\ j > 1
        <5>1. h.next \in Nat /\ h.next >= 1
          BY <1>0, <2>1
        <5>2. j \in h.next + 1 .. Len(Items(n))
          BY <1>0, <3>2, <5>1, LeftFacts
        <5>3. QED
          BY <1>0, <5>1, <5>2
      <4> HIDE DEF j
      <4>3. handler'[w].pc = "send" /\ handler'[w].next = j
        BY <1>0, <2>1, <4>1 DEF Task
      <4>4. QED
        BY <4>2, <4>3
    <3>3. QED
      BY <3>1, <3>2
  <2>3. ~AtText(w)' /\ ~Owes(w)'
    BY <2>2 DEF AtText, Owes, Reclaiming
  <2>4. Delivers(w) /\ Upcoming(w) = Text => AtText(w)
    BY <1>2, <2>1 DEF AtText
  <2>5. QED
    BY <2>1, <2>3, <2>4
<1>6. CASE SendFails(w)
  <2>1. /\ h.pc = "send" /\ Goto(w, "fail")
        /\ Upcoming(w) \in Missing \/ (faults' = faults + 1)
    BY <1>6 DEF SendFails, Fault, Upcoming
  <2>2. handler'[w].pc = "fail"
    BY <1>1, <2>1 DEF Position
  <2>3. ~AtText(w)' /\ Owes(w)'
    BY <2>2 DEF AtText, Owes, Reclaiming
  <2>4. Upcoming(w) = Text => AtText(w) /\ Owes(w)
    BY <1>2, <2>1 DEF AtText, Owes, Reclaiming
  <2>5. ASSUME ToSet(Photos[n]) \cap Missing = {}
        PROVE  Upcoming(w) \notin Missing
    <3>1. Upcoming(w) = Text \/ Upcoming(w) \in ToSet(Photos[n])
      <4>1. h.next = 1 \/ h.next \in 2 .. Len(Items(n))
        BY <1>0, <2>1
      <4>2. QED
        BY <1>0, <4>1, ItemFacts DEF Upcoming
    <3>2. QED
      BY <2>5, <3>1, NotifyConstantsOK
  <2>6. QED
    BY <2>1, <2>3, <2>4, <2>5
<1>7. CASE MarkSkipped(w) \/ MarkSent(w)
  <2>1. /\ h.pc \in {"skip", "mark"} /\ (faults' = faults \/ faults' = faults + 1)
        /\ ~Delivers(w) /\ Goto(w, "done")
    BY <1>7 DEF MarkSkipped, MarkSent, SetStatus, Fault, Delivers
  <2>2. QED
    BY <1>0, <1>1, <2>1 DEF AtText, Owes, Reclaiming, Position
<1>8. CASE MarkFailed(w)
  <2>1. /\ h.pc = "fail" /\ (faults' = faults \/ faults' = faults + 1)
        /\ ~Delivers(w) /\ Goto(w, "failed")
    BY <1>8 DEF MarkFailed, SetStatus, Fault, Delivers
  <2>2. QED
    BY <1>0, <1>1, <2>1 DEF AtText, Owes, Reclaiming, Position
<1>9. CASE LoadCounts(w)
  <2>1. /\ h.pc \in {"failed", "stale"} /\ faults' = faults /\ ~Delivers(w)
        /\ handler'[w].pc \in {"failing", "releasing"}
    BY <1>0, <1>9, HandlerSteps DEF LoadCounts, Delivers, Inside, Task
  <2>2. ~AtText(w)' /\ Owes(w)
    BY <2>1 DEF AtText, Owes, Reclaiming
  <2>3. QED
    BY <2>1, <2>2
<1>10. QED
  BY <1>3, <1>4, <1>5, <1>6, <1>7, <1>8, <1>9 DEF Inside

LEMMA Here ==
  ASSUME NEW w \in Worker, NEW k \in Key, \A v \in Worker \ {w} : handler'[v] = handler[v]
  PROVE  /\ Early(k)' \ {w} = Early(k) \ {w} /\ Due(k)' \ {w} = Due(k) \ {w}
         /\ w \in Early(k) <=> handler[w].key = k /\ AtText(w)
         /\ w \in Early(k)' <=> handler'[w].key = k /\ AtText(w)'
         /\ w \in Due(k) <=> handler[w].key = k /\ Owes(w)
         /\ w \in Due(k)' <=> handler'[w].key = k /\ Owes(w)'
<1>1. ASSUME NEW v \in Worker \ {w}
      PROVE  AtText(v)' = AtText(v) /\ Owes(v)' = Owes(v)
  BY DEF AtText, Owes
<1>2. /\ w \in Early(k) <=> handler[w].key = k /\ AtText(w)
      /\ w \in Due(k) <=> handler[w].key = k /\ Owes(w)
  BY DEF Early, Due
<1>3. /\ w \in Early(k)' <=> handler'[w].key = k /\ AtText(w)'
      /\ w \in Due(k)' <=> handler'[w].key = k /\ Owes(w)'
  BY DEF Early, Due
<1>4. Early(k)' \ {w} = Early(k) \ {w} /\ Due(k)' \ {w} = Due(k) \ {w}
  BY <1>1 DEF Early, Due
<1>5. QED
  BY <1>2, <1>3, <1>4

\* There are finitely many workers.
LEMMA Few ==
  ASSUME NEW S \in SUBSET Worker
  PROVE  IsFiniteSet(S) /\ Cardinality(S) \in Nat /\ Workers \in Nat /\ Cardinality(S) <= Workers
<1>1. IsFiniteSet(Worker)
  BY NotifyConstantsOK
<1>2. QED
  BY <1>1, FS_Subset, FS_CardinalityType DEF Workers

LEMMA EarlyFinite ==
  ASSUME NEW k \in Key
  PROVE  /\ IsFiniteSet(Early(k)) /\ IsFiniteSet(Due(k))
         /\ Cardinality(Early(k)) \in Nat /\ Cardinality(Due(k)) \in Nat
<1>1. Early(k) \subseteq Worker /\ Due(k) \subseteq Worker
  BY DEF Early, Due
<1>2. QED
  BY <1>1, Few

LEMMA Paid ==
  ASSUME Typed, faults' \in {faults, faults + 1}
  PROVE  /\ Allowance \in Nat /\ Allowance' \in Nat /\ Workers \in Nat
         /\ Allowance' = IF faults' = faults THEN Allowance ELSE Allowance + Workers
         /\ \A w \in Worker : Workers >= 1
<1>1. faults \in Nat /\ IsFiniteSet(Worker)
  BY NotifyConstantsOK DEF Typed
<1>2. Workers \in Nat
  BY <1>1, FS_CardinalityType DEF Workers
<1>3. \A w \in Worker : Workers >= 1
  <2>1. Worker # {} => Workers # 0
    BY <1>1, FS_EmptySet DEF Workers
  <2>2. QED
    BY <1>2, <2>1
<1> HIDE DEF Workers
<1>4. \A f, n \in Nat : f * n \in Nat /\ (f + 1) * n = f * n + n
  OBVIOUS
<1>5. faults * Workers \in Nat /\ (faults + 1) * Workers = faults * Workers + Workers
  BY <1>1, <1>2, <1>4
<1>6. Workers' = Workers
  BY DEF Workers
<1>7. Allowance' = 1 + faults' * Workers
  BY <1>6 DEF Allowance
<1>8. CASE faults' = faults
  BY <1>1, <1>2, <1>3, <1>5, <1>7, <1>8 DEF Allowance
<1>9. CASE faults' = faults + 1
  BY <1>1, <1>2, <1>3, <1>5, <1>7, <1>9 DEF Allowance
<1>10. QED
  BY <1>8, <1>9

\* Before it has a job, a notification has neither a delivery nor a worker.
LEMMA Fresh ==
  ASSUME Typed, Subjects, Delivering, Ordered, NEW n \in Note, subject[KeyOf[n]] = None
  PROVE  /\ Texts(n) = 0 /\ Early(KeyOf[n]) = {} /\ Due(KeyOf[n]) = {}
         /\ ~Live(KeyOf[n])
<1> DEFINE k == KeyOf[n]
<1>1. k \in Key /\ n # None
  BY NotifyConstantsOK
<1>2. chat[n] = <<>>
  BY <1>1 DEF Ordered
<1>3. \A w \in Worker : handler[w].key # k
  <2>1. jobs[k].state = "absent"
    BY <1>1 DEF Subjects
  <2>2. QED
    BY <1>1, <2>1, Holder
<1>4. QED
  BY <1>2, <1>3, TextFacts DEF Early, Due, Live

LEMMA CountedNext ==
  ASSUME Typed, Subjects, Delivering, Ordered, Counted, Next
  PROVE  Counted'
<1>0. Typed /\ Subjects /\ Delivering /\ Ordered /\ Counted
  OBVIOUS
<1>a. \A n \in Note : KeyOf[n] \in Key /\ n # None
  BY NotifyConstantsOK
<1>b. \A k \in Key : jobs[k].attempts \in Nat
  BY DEF Typed, JobRecord
<1>1. ASSUME UNCHANGED <<chat, subject, handler>>,
             \A k \in Key : jobs'[k].attempts = jobs[k].attempts
      PROVE  Counted'
  <2>1. \A n \in Note : Texts(n)' = Texts(n)
    BY <1>1 DEF Texts
  <2>2. \A k \in Key : Early(k)' = Early(k)
    BY <1>1 DEF Early, AtText
  <2>3. QED
    BY <1>0, <1>1, <1>a, <2>1, <2>2 DEF Counted
<1>2. ASSUME NEW c \in Config, PutConfig(c)
      PROVE  Counted'
  BY <1>1, <1>2 DEF PutConfig, queue
<1>3. ASSUME NEW n \in Note, InsertRow(n) \/ EnqueueLost(n)
      PROVE  Counted'
  BY <1>1, <1>3 DEF InsertRow, EnqueueLost, queue, told
<1>4. ASSUME NEW n \in Note, EnqueueJob(n)
      PROVE  Counted'
  <2>1. CASE jobs' = jobs /\ subject' = subject
    BY <1>1, <1>4, <2>1, EnqueueSteps
  <2>2. CASE ~(jobs' = jobs /\ subject' = subject)
    <3>1. /\ subject[KeyOf[n]] = None /\ subject'[KeyOf[n]] = n
          /\ \A c \in Key \ {KeyOf[n]} : jobs'[c] = jobs[c] /\ subject'[c] = subject[c]
          /\ jobs'[KeyOf[n]].attempts = jobs[KeyOf[n]].attempts
          /\ UNCHANGED <<chat, handler>>
      BY <1>4, <2>2, EnqueueSteps
    <3>2. ASSUME NEW m \in Note, subject'[KeyOf[m]] = m
          PROVE  Texts(m)' + Cardinality(Early(KeyOf[m])') <= jobs'[KeyOf[m]].attempts
      <4>0. Texts(m)' = Texts(m) /\ Early(KeyOf[m])' = Early(KeyOf[m])
        BY <3>1 DEF Texts, Early, AtText
      <4>1. CASE m = n
        <5>1. Texts(m) = 0 /\ Cardinality(Early(KeyOf[m])) = 0
          BY <3>1, <4>1, Fresh, FS_EmptySet
        <5>2. QED
          BY <1>a, <1>b, <3>1, <4>0, <4>1, <5>1
      <4>2. CASE m # n
        <5>1. KeyOf[m] # KeyOf[n] /\ KeyOf[m] \in Key
          BY <1>a, <3>1, <3>2, <4>2
        <5>2. QED
          BY <1>0, <3>1, <3>2, <4>0, <5>1 DEF Counted
      <4>3. QED
        BY <4>1, <4>2
    <3>3. QED
      BY <3>2 DEF Counted
  <2>3. QED
    BY <2>1, <2>2
<1>5. ASSUME NEW w \in Worker, NEW k \in Key, Claim(w, k)
      PROVE  Counted'
  <2>1. /\ handler[w] = Idle
        /\ handler'[w] = [pc |-> "load", key |-> k, next |-> 1, seen |-> 0]
        /\ \A v \in Worker \ {w} : handler'[v] = handler[v]
        /\ \A c \in Key \ {k} : jobs'[c] = jobs[c]
        /\ jobs'[k].attempts = jobs[k].attempts + 1 /\ UNCHANGED <<chat, subject>>
    BY <1>5, ClaimSteps
  <2>2. handler'[w].key = k /\ handler[w].key = None /\ None \notin Key
    BY <2>1, NotifyConstantsOK DEF Idle
  <2>3. ASSUME NEW n \in Note, subject'[KeyOf[n]] = n
        PROVE  Texts(n)' + Cardinality(Early(KeyOf[n])') <= jobs'[KeyOf[n]].attempts
    <3>0. Texts(n)' = Texts(n) /\ Texts(n) \in Nat
          /\ Texts(n) + Cardinality(Early(KeyOf[n])) <= jobs[KeyOf[n]].attempts
      BY <1>0, <2>1, <2>3, TextFacts DEF Texts, Counted
    <3>1. CASE KeyOf[n] = k
      <4>1. Early(k)' \ {w} = Early(k) \ {w} /\ w \notin Early(k)
        BY <2>1, <2>2, Here
      <4>2. Cardinality(Early(k)') <= Cardinality(Early(k)) + 1
            /\ Cardinality(Early(k)') \in Nat /\ Cardinality(Early(k)) \in Nat
        BY <4>1, Shift, EarlyFinite
      <4>3. QED
        BY <1>b, <2>1, <3>0, <3>1, <4>2
    <3>2. CASE KeyOf[n] # k
      <4>1. Early(KeyOf[n])' = Early(KeyOf[n]) /\ jobs'[KeyOf[n]] = jobs[KeyOf[n]]
        BY <1>a, <2>1, <2>2, <3>2, Elsewhere
      <4>2. QED
        BY <3>0, <4>1
    <3>3. QED
      BY <3>1, <3>2
  <2>4. QED
    BY <2>3 DEF Counted
<1>6. ASSUME NEW w \in Worker, Inside(w)
      PROVE  Counted'
  <2>0. PICK k \in Key : handler[w].key = k
    BY <1>6, HandlerSteps, Busy
  <2>1. /\ handler'[w].key = k /\ UNCHANGED <<jobs, subject>>
        /\ \A v \in Worker \ {w} : handler'[v] = handler[v]
        /\ Subject(w) \in Note /\ KeyOf[Subject(w)] = k
        /\ subject[k] = Subject(w)
    BY <1>6, <2>0, HandlerSteps, InsideSteps, Busy
  <2>2. ASSUME NEW n \in Note
        PROVE  /\ Texts(n) \in Nat
               /\ \/ Texts(n)' = Texts(n)
                  \/ /\ n = Subject(w) /\ Delivers(w) /\ Upcoming(w) = Text
                     /\ Texts(n)' = Texts(n) + 1
    <3>1. CASE chat' = chat
      BY <3>1, TextFacts DEF Texts
    <3>2. CASE Delivers(w)
      BY <3>2, TextFacts, TextSteps
    <3>3. QED
      BY <1>6, <3>1, <3>2, InsideSteps
  <2>3. /\ AtText(w)' => AtText(w)
        /\ Delivers(w) /\ Upcoming(w) = Text => AtText(w) /\ ~AtText(w)'
    BY <1>6, Steps
  <2>4. ASSUME NEW n \in Note, subject'[KeyOf[n]] = n
        PROVE  Texts(n)' + Cardinality(Early(KeyOf[n])') <= jobs'[KeyOf[n]].attempts
    <3>0. Texts(n) + Cardinality(Early(KeyOf[n])) <= jobs[KeyOf[n]].attempts
      BY <1>0, <2>1, <2>4 DEF Counted
    <3>1. CASE KeyOf[n] = k
      <4>1. /\ Early(k)' \ {w} = Early(k) \ {w}
            /\ w \in Early(k) <=> AtText(w)
            /\ w \in Early(k)' <=> AtText(w)'
        BY <2>0, <2>1, Here
      <4>2. /\ Cardinality(Early(k)') \in Nat /\ Cardinality(Early(k)) \in Nat
            /\ Cardinality(Early(k)') <= Cardinality(Early(k))
            /\ Delivers(w) /\ Upcoming(w) = Text =>
                 Cardinality(Early(k)') = Cardinality(Early(k)) - 1
        BY <2>1, <2>3, <4>1, Shift, EarlyFinite
      <4>3. QED
        BY <1>b, <2>1, <2>2, <3>0, <3>1, <4>2
    <3>2. CASE KeyOf[n] # k
      <4>1. Early(KeyOf[n])' = Early(KeyOf[n]) /\ Texts(n)' = Texts(n)
        BY <1>a, <2>0, <2>1, <2>2, <3>2, Elsewhere
      <4>2. QED
        BY <2>1, <3>0, <4>1
    <3>3. QED
      BY <3>1, <3>2
  <2>5. QED
    BY <2>4 DEF Counted
<1>7. ASSUME NEW w \in Worker, Leaving(w)
      PROVE  Counted'
  <2>1. /\ handler'[w] = Idle /\ UNCHANGED <<chat, subject>>
        /\ \A v \in Worker \ {w} : handler'[v] = handler[v]
        /\ \A c \in Key : jobs'[c].attempts = jobs[c].attempts
    BY <1>7, LeavingSteps, Busy
  <2>2. handler'[w].key = None /\ None \notin Key
    BY <2>1, NotifyConstantsOK DEF Idle
  <2>3. ASSUME NEW n \in Note, subject'[KeyOf[n]] = n
        PROVE  Texts(n)' + Cardinality(Early(KeyOf[n])') <= jobs'[KeyOf[n]].attempts
    <3>0. Texts(n)' = Texts(n) /\ Texts(n) \in Nat
          /\ Texts(n) + Cardinality(Early(KeyOf[n])) <= jobs[KeyOf[n]].attempts
      BY <1>0, <2>1, <2>3, TextFacts DEF Texts, Counted
    <3>1. /\ Early(KeyOf[n])' \ {w} = Early(KeyOf[n]) \ {w}
          /\ w \notin Early(KeyOf[n])'
      BY <1>a, <2>1, <2>2, Here
    <3>2. /\ Cardinality(Early(KeyOf[n])') <= Cardinality(Early(KeyOf[n]))
          /\ Cardinality(Early(KeyOf[n])') \in Nat /\ Cardinality(Early(KeyOf[n])) \in Nat
      BY <1>a, <3>1, Shift, EarlyFinite
    <3>3. QED
      BY <1>a, <1>b, <2>1, <3>0, <3>2
  <2>4. QED
    BY <2>3 DEF Counted
<1>8. ASSUME NEW w \in Worker, NEW k \in Key, Scans(w, k)
      PROVE  Counted'
  <2>1. /\ handler[w] = Idle
        /\ handler'[w] = [pc |-> "stale", key |-> k, next |-> 0, seen |-> 0]
        /\ \A v \in Worker \ {w} : handler'[v] = handler[v]
        /\ UNCHANGED <<chat, jobs, subject>>
    BY <1>8, ScanSteps
  <2>2. ~AtText(w) /\ ~AtText(w)'
    BY <2>1 DEF AtText, Idle
  <2>3. ASSUME NEW c \in Key
        PROVE  Early(c)' = Early(c)
    <3>1. Early(c)' \ {w} = Early(c) \ {w} /\ w \notin Early(c) /\ w \notin Early(c)'
      BY <2>1, <2>2, Here
    <3>2. QED
      BY <3>1
  <2>4. \A n \in Note : Texts(n)' = Texts(n)
    BY <2>1 DEF Texts
  <2>5. QED
    BY <1>0, <1>a, <2>1, <2>3, <2>4 DEF Counted
<1>9. QED
  BY <1>2, <1>3, <1>4, <1>5, <1>6, <1>7, <1>8, Kinds

LEMMA BlamedNext ==
  ASSUME Typed, Subjects, Delivering, Ordered, Blamed, Next
  PROVE  Blamed'
<1>0. Typed /\ Subjects /\ Delivering /\ Ordered /\ Blamed
  OBVIOUS
<1>a. /\ \A n \in Note : KeyOf[n] \in Key /\ n # None
      /\ None \notin Key /\ faults \in Nat
  BY NotifyConstantsOK DEF Typed
<1>c. \A k \in Key : /\ Cardinality(Due(k)) \in Nat /\ Cardinality(Due(k)) <= Workers
                    /\ Cardinality(Due(k)') \in Nat /\ Cardinality(Due(k)') <= Workers
  <2>1. \A k \in Key : Due(k) \subseteq Worker /\ Due(k)' \subseteq Worker
    BY DEF Due
  <2>2. QED
    BY <2>1, Few
<1>b. \A k \in Key : Open(k) \in Nat /\ Open(k)' \in Nat
  <2>1. Workers \in Nat /\ Workers' = Workers
    BY Few DEF Workers
  <2>2. QED
    BY <1>c, <2>1 DEF Open
<1>p. faults' \in {faults, faults + 1} =>
        /\ Allowance \in Nat /\ Allowance' \in Nat /\ Workers \in Nat /\ Workers' = Workers
        /\ Allowance' = IF faults' = faults THEN Allowance ELSE Allowance + Workers
        /\ \A w \in Worker : Workers >= 1
  BY Paid DEF Workers
<1>d. \A n \in Note : Texts(n) \in Nat
  BY TextFacts
<1>e. ASSUME NEW n \in Note, subject[KeyOf[n]] = n, ToSet(Photos[n]) \cap Missing = {}
      PROVE  Texts(n) + Cardinality(Due(KeyOf[n])) + Open(KeyOf[n]) <= Allowance
  BY <1>0, <1>e DEF Blamed
<1>f. ASSUME \A n \in Note :
               subject'[KeyOf[n]] = n /\ ToSet(Photos[n]) \cap Missing = {} =>
                 Texts(n)' + Cardinality(Due(KeyOf[n])') + Open(KeyOf[n])' <= Allowance'
      PROVE  Blamed'
  BY <1>f DEF Blamed
<1>1. ASSUME UNCHANGED <<chat, subject, handler, jobs>>, faults' \in {faults, faults + 1}
      PROVE  Blamed'
  <2>1. \A n \in Note : Texts(n)' = Texts(n)
    BY <1>1 DEF Texts
  <2>2. \A k \in Key : Due(k)' = Due(k) /\ Open(k)' = Open(k)
    BY <1>1 DEF Due, Owes, AtText, Open, Live
  <2>3. ASSUME NEW n \in Note, subject'[KeyOf[n]] = n, ToSet(Photos[n]) \cap Missing = {}
        PROVE  Texts(n)' + Cardinality(Due(KeyOf[n])') + Open(KeyOf[n])' <= Allowance'
    <3>1. Texts(n) + Cardinality(Due(KeyOf[n])) + Open(KeyOf[n]) <= Allowance
      BY <1>1, <1>e, <2>3
    <3>2. Texts(n) + Cardinality(Due(KeyOf[n])) + Open(KeyOf[n]) <= Allowance'
      BY <1>1, <1>a, <1>b, <1>c, <1>d, <1>p, <3>1
    <3>3. QED
      BY <1>a, <2>1, <2>2, <3>2
  <2>4. QED
    BY <1>f, <2>3
<1>2. ASSUME NEW c \in Config, PutConfig(c)
      PROVE  Blamed'
  BY <1>1, <1>2 DEF PutConfig, queue
<1>3. ASSUME NEW n \in Note, InsertRow(n) \/ EnqueueLost(n)
      PROVE  Blamed'
  BY <1>1, <1>3 DEF InsertRow, EnqueueLost, Fault, queue, told
<1>4. ASSUME NEW n \in Note, EnqueueJob(n)
      PROVE  Blamed'
  <2>0. faults' = faults
    BY <1>4, EnqueueSteps
  <2>1. CASE jobs' = jobs /\ subject' = subject
    BY <1>1, <1>4, <2>1, EnqueueSteps
  <2>2. CASE ~(jobs' = jobs /\ subject' = subject)
    <3>1. /\ subject[KeyOf[n]] = None /\ subject'[KeyOf[n]] = n
          /\ jobs'[KeyOf[n]].state = "queued"
          /\ \A c \in Key \ {KeyOf[n]} : jobs'[c] = jobs[c] /\ subject'[c] = subject[c]
          /\ UNCHANGED <<chat, handler, faults>>
      BY <1>4, <2>2, EnqueueSteps
    <3>a. Allowance' = Allowance /\ Allowance \in Nat /\ Allowance >= 1
      <4>1. faults * Workers \in Nat
        <5>1. Workers \in Nat
          BY <1>p, <2>0
        <5> HIDE DEF Workers
        <5>2. \A f, m \in Nat : f * m \in Nat
          OBVIOUS
        <5>3. QED
          BY <1>a, <5>1, <5>2
      <4>2. QED
        BY <1>p, <2>0, <4>1 DEF Allowance
    <3>2. ASSUME NEW m \in Note, subject'[KeyOf[m]] = m, ToSet(Photos[m]) \cap Missing = {}
          PROVE  Texts(m)' + Cardinality(Due(KeyOf[m])') + Open(KeyOf[m])' <= Allowance'
      <4>0. Texts(m)' = Texts(m) /\ Due(KeyOf[m])' = Due(KeyOf[m])
        BY <3>1 DEF Texts, Due, Owes, AtText
      <4>1. CASE m = n
        <5>1. Texts(m) = 0 /\ Cardinality(Due(KeyOf[m])) = 0
          BY <3>1, <4>1, Fresh, FS_EmptySet
        <5>2. Open(KeyOf[m])' = 1
          BY <3>1, <4>1 DEF Open
        <5>3. QED
          BY <3>a, <4>0, <5>1, <5>2
      <4>2. CASE m # n
        <5>1. KeyOf[m] # KeyOf[n] /\ KeyOf[m] \in Key
          BY <1>a, <3>1, <3>2, <4>2
        <5>2. Open(KeyOf[m])' = Open(KeyOf[m])
          <6>1. Live(KeyOf[m])' = Live(KeyOf[m]) /\ Workers' = Workers
            BY <3>1 DEF Live, Workers
          <6>2. QED
            BY <3>1, <4>0, <5>1, <6>1 DEF Open
        <5>3. subject[KeyOf[m]] = m
          BY <3>1, <3>2, <5>1
        <5>4. Texts(m) + Cardinality(Due(KeyOf[m])) + Open(KeyOf[m]) <= Allowance
          BY <1>e, <3>2, <5>3
        <5>5. QED
          BY <3>a, <4>0, <5>2, <5>4
      <4>3. QED
        BY <4>1, <4>2
    <3>3. QED
      BY <1>f, <3>2
  <2>3. QED
    BY <2>1, <2>2
<1>5. ASSUME NEW w \in Worker, NEW k \in Key, Claim(w, k)
      PROVE  Blamed'
  <2>1. /\ handler[w] = Idle /\ jobs[k].state = "queued"
        /\ handler'[w] = [pc |-> "load", key |-> k, next |-> 1, seen |-> 0]
        /\ \A v \in Worker \ {w} : handler'[v] = handler[v]
        /\ \A c \in Key \ {k} : jobs'[c] = jobs[c]
        /\ jobs'[k].state = "running" /\ UNCHANGED <<chat, subject, faults>>
    BY <1>5, ClaimSteps
  <2>2. /\ handler'[w].key = k /\ handler'[w].pc = "load"
        /\ handler[w].key = None /\ None \notin Key
    BY <2>1, NotifyConstantsOK DEF Idle
  <2>a. Allowance' = Allowance /\ Allowance \in Nat /\ Workers' = Workers
    BY <1>p, <2>1
  <2>3. ASSUME NEW n \in Note, subject'[KeyOf[n]] = n, ToSet(Photos[n]) \cap Missing = {}
        PROVE  Texts(n)' + Cardinality(Due(KeyOf[n])') + Open(KeyOf[n])' <= Allowance'
    <3>0. Texts(n)' = Texts(n)
      BY <2>1 DEF Texts
    <3>a. Texts(n) + Cardinality(Due(KeyOf[n])) + Open(KeyOf[n]) <= Allowance
      BY <1>e, <2>1, <2>3
    <3>1. CASE KeyOf[n] = k
      <4>1. Due(k)' \ {w} = Due(k) \ {w} /\ w \notin Due(k)
        BY <2>1, <2>2, Here
      <4>2. Cardinality(Due(k)') <= Cardinality(Due(k)) + 1
            /\ Cardinality(Due(k)') \in Nat /\ Cardinality(Due(k)) \in Nat
        <5>1. IsFiniteSet(Due(k)) /\ Due(k) \ {w} = Due(k)' \ {w}
          BY <4>1, EarlyFinite
        <5>2. QED
          BY <4>1, <5>1, Shift
      <4>3. Open(k) = 1
        BY <2>1 DEF Open
      <4>4. Live(k)'
        BY <2>2 DEF Live
      <4>5. Open(k)' = 0
        BY <2>1, <4>4 DEF Open
      <4>6. QED
        BY <1>a, <1>d, <2>a, <3>0, <3>a, <3>1, <4>2, <4>3, <4>5
    <3>2. CASE KeyOf[n] # k
      <4>1. /\ Due(KeyOf[n])' = Due(KeyOf[n]) /\ jobs'[KeyOf[n]] = jobs[KeyOf[n]]
            /\ Live(KeyOf[n])' = Live(KeyOf[n])
        BY <1>a, <2>1, <2>2, <3>2, Elsewhere
      <4>2. Open(KeyOf[n])' = Open(KeyOf[n])
        BY <2>a, <4>1 DEF Open
      <4>3. QED
        BY <2>a, <3>0, <3>a, <4>1, <4>2
    <3>3. QED
      BY <3>1, <3>2
  <2>4. QED
    BY <1>f, <2>3
<1>6. ASSUME NEW w \in Worker, Inside(w)
      PROVE  Blamed'
  <2>0. PICK k \in Key : handler[w].key = k
    BY <1>6, HandlerSteps, Busy
  <2>1. /\ handler'[w].key = k /\ UNCHANGED <<jobs, subject>>
        /\ \A v \in Worker \ {w} : handler'[v] = handler[v]
        /\ Subject(w) \in Note /\ KeyOf[Subject(w)] = k
        /\ subject[k] = Subject(w) /\ faults' \in {faults, faults + 1}
        /\ handler[w].pc \in Reclaiming <=> handler'[w].pc \in Reclaiming
    BY <1>6, <2>0, HandlerSteps, InsideSteps, Busy
  <2>p. /\ Allowance \in Nat /\ Allowance' \in Nat /\ Workers \in Nat /\ Workers' = Workers
        /\ Allowance' = IF faults' = faults THEN Allowance ELSE Allowance + Workers
        /\ Workers >= 1
    BY <1>p, <2>1
  <2>2. ASSUME NEW n \in Note
        PROVE  \/ Texts(n)' = Texts(n)
               \/ /\ n = Subject(w) /\ Delivers(w) /\ chat' # chat /\ Upcoming(w) = Text
                  /\ Texts(n)' = Texts(n) + 1
    <3>1. CASE chat' = chat
      BY <3>1 DEF Texts
    <3>2. CASE Delivers(w) /\ chat' # chat
      BY <3>2, TextSteps
    <3>3. QED
      BY <1>6, <3>1, <3>2, InsideSteps
  <2>a. \A v \in Worker : handler'[v].key = handler[v].key
    BY <2>0, <2>1
  <2>b. ASSUME NEW c \in Key PROVE Open(c)' = Open(c)
    <3>1. Live(c)' = Live(c)
      <4>1. \A v \in Worker : handler'[v].pc \in Reclaiming <=> handler[v].pc \in Reclaiming
        BY <2>1
      <4>2. QED
        BY <2>a, <4>1 DEF Live, Reclaiming
    <3>2. CASE c # k
      <4>1. Due(c)' = Due(c)
        BY <2>0, <2>1, <3>2, Elsewhere
      <4>2. QED
        BY <2>1, <2>p, <3>1, <4>1 DEF Open
    <3>3. CASE Live(c)
      BY <2>1, <3>1, <3>3 DEF Open
    <3>4. CASE c = k /\ ~Live(c)
      <4>1. handler[w].pc \in Reclaiming /\ handler'[w].pc \in Reclaiming
        BY <2>0, <2>1, <3>4 DEF Live, Reclaiming
      <4>2. Owes(w) /\ Owes(w)'
        BY <4>1 DEF Owes
      <4>3. Due(k)' \ {w} = Due(k) \ {w} /\ w \in Due(k) /\ w \in Due(k)'
        BY <2>0, <2>1, <4>2, Here
      <4>4. Due(k)' = Due(k)
        BY <4>3
      <4>5. QED
        BY <2>1, <2>p, <3>1, <3>4, <4>4 DEF Open
    <3>5. QED
      BY <3>2, <3>3, <3>4
  <2>4. ASSUME NEW n \in Note, subject'[KeyOf[n]] = n, ToSet(Photos[n]) \cap Missing = {}
        PROVE  Texts(n)' + Cardinality(Due(KeyOf[n])') + Open(KeyOf[n])' <= Allowance'
    <3>0. Texts(n) + Cardinality(Due(KeyOf[n])) + Open(KeyOf[n]) <= Allowance
      BY <1>e, <2>1, <2>4
    <3>1. CASE KeyOf[n] = k
      <4>0. n = Subject(w)
        BY <2>1, <2>4, <3>1
      <4>1. \/ /\ faults' = faults + 1
               /\ Owes(w)' /\ ~Owes(w) => chat' = chat \/ Upcoming(w) # Text
            \/ /\ faults' = faults /\ (Owes(w)' => Owes(w))
               /\ Delivers(w) /\ Upcoming(w) = Text => Owes(w) /\ ~Owes(w)'
        BY <1>6, <2>4, <4>0, Steps DEF Owes
      <4>2. /\ Due(k)' \ {w} = Due(k) \ {w}
            /\ w \in Due(k) <=> Owes(w)
            /\ w \in Due(k)' <=> Owes(w)'
        BY <2>0, <2>1, Here
      <4>3. /\ Cardinality(Due(k)') \in Nat /\ Cardinality(Due(k)) \in Nat
            /\ Cardinality(Due(k)') <= Cardinality(Due(k)) + 1
            /\ (Owes(w)' => Owes(w)) => Cardinality(Due(k)') <= Cardinality(Due(k))
            /\ Owes(w) /\ ~Owes(w)' => Cardinality(Due(k)') = Cardinality(Due(k)) - 1
        BY <4>2, Shift, EarlyFinite
      <4>4. Texts(n)' + Cardinality(Due(k)') + faults
              <= Texts(n) + Cardinality(Due(k)) + faults'
        <5>1. Texts(n) \in Nat /\ faults \in Nat
          BY <1>a, <1>d
        <5>2. CASE Texts(n)' = Texts(n)
          BY <4>1, <4>3, <5>1, <5>2
        <5>3. CASE /\ Delivers(w) /\ chat' # chat /\ Upcoming(w) = Text
                   /\ Texts(n)' = Texts(n) + 1
          BY <4>1, <4>3, <5>1, <5>3
        <5>4. QED
          BY <2>2, <5>2, <5>3
      <4>5. Open(k)' = Open(k) /\ Open(k) \in Nat
        BY <1>b, <2>b
      <4>6. Texts(n)' \in Nat /\ Texts(n) \in Nat /\ faults' \in Nat /\ faults \in Nat
        BY <1>a, <1>d, <2>1, <2>2
      <4>7. CASE faults' = faults
        BY <2>p, <3>0, <3>1, <4>3, <4>4, <4>5, <4>6, <4>7
      <4>8. CASE faults' = faults + 1
        <5>1. Allowance' = Allowance + Workers
          BY <2>p, <4>6, <4>8
        <5>2. QED
          BY <2>p, <3>0, <3>1, <4>3, <4>4, <4>5, <4>6, <4>8, <5>1
      <4>9. QED
        BY <2>1, <4>7, <4>8
    <3>2. CASE KeyOf[n] # k
      <4>1. /\ Due(KeyOf[n])' = Due(KeyOf[n]) /\ Texts(n)' = Texts(n)
            /\ Open(KeyOf[n])' = Open(KeyOf[n])
        BY <1>a, <2>0, <2>1, <2>2, <2>b, <3>2, Elsewhere
      <4>2. Texts(n) + Cardinality(Due(KeyOf[n])) + Open(KeyOf[n]) <= Allowance'
        BY <1>a, <1>b, <1>c, <1>d, <2>1, <2>p, <3>0
      <4>3. QED
        BY <4>1, <4>2
    <3>3. QED
      BY <3>1, <3>2
  <2>5. QED
    BY <1>f, <2>4
<1>7. ASSUME NEW w \in Worker, Leaving(w)
      PROVE  Blamed'
  <2>0. PICK k \in Key : handler[w].key = k
    BY <1>7, LeavingSteps, Busy
  <2>1. /\ handler'[w] = Idle /\ UNCHANGED <<chat, subject>>
        /\ \A v \in Worker \ {w} : handler'[v] = handler[v]
        /\ \A c \in Key \ {k} : jobs'[c] = jobs[c]
        /\ \/ faults' = faults + 1 /\ jobs' = jobs
           \/ /\ faults' = faults /\ handler[w].pc \in {"done", "failing", "releasing"}
              /\ jobs'[k].state \in {"queued", "dead", "succeeded"}
              /\ handler[w].pc = "done" => jobs'[k].state = "succeeded"
    BY <1>7, <2>0, LeavingSteps
  <2>p. /\ Allowance \in Nat /\ Allowance' \in Nat /\ Workers \in Nat /\ Workers' = Workers
        /\ Allowance' = IF faults' = faults THEN Allowance ELSE Allowance + Workers
        /\ Workers >= 1
    BY <1>p, <2>1
  <2>2. handler'[w].key = None /\ handler'[w].pc = "idle"
    BY <2>1 DEF Idle
  <2>3. ASSUME NEW n \in Note, subject'[KeyOf[n]] = n, ToSet(Photos[n]) \cap Missing = {}
        PROVE  Texts(n)' + Cardinality(Due(KeyOf[n])') + Open(KeyOf[n])' <= Allowance'
    <3>0. Texts(n)' = Texts(n)
      BY <2>1 DEF Texts
    <3>a. Texts(n) + Cardinality(Due(KeyOf[n])) + Open(KeyOf[n]) <= Allowance
      BY <1>e, <2>1, <2>3
    <3>1. CASE KeyOf[n] = k
      <4>1. /\ Due(k)' \ {w} = Due(k) \ {w} /\ w \notin Due(k)'
            /\ w \in Due(k) <=> Owes(w)
        BY <1>a, <2>0, <2>1, <2>2, Here
      <4>2. /\ Cardinality(Due(k)') \in Nat /\ Cardinality(Due(k)) \in Nat
            /\ Cardinality(Due(k)') <= Cardinality(Due(k))
            /\ Owes(w) => Cardinality(Due(k)') = Cardinality(Due(k)) - 1
        BY <4>1, Shift, EarlyFinite
      <4>3. CASE faults' = faults + 1 /\ jobs' = jobs
        <5>1. Allowance' = Allowance + Workers
          BY <1>a, <2>p, <4>3
        <5>2. Open(k)' <= Open(k) \/ Open(k)' + Cardinality(Due(k)') = Workers
          <6>1. CASE jobs[k].state \in {"absent", "queued"}
            BY <4>3, <6>1 DEF Open
          <6>2. CASE jobs[k].state = "running" /\ ~Live(k)'
            BY <2>p, <4>2, <4>3, <6>2 DEF Open
          <6>3. CASE jobs[k].state \notin {"absent", "queued"} /\ ~(jobs[k].state = "running" /\ ~Live(k)')
            <7>1. Open(k)' = 0
              BY <4>3, <6>3 DEF Open
            <7>2. QED
              BY <1>b, <7>1
          <6>4. QED
            BY <6>1, <6>2, <6>3
        <5>3. Open(k)' + Cardinality(Due(k)') <= Open(k) + Cardinality(Due(k)) + Workers
          BY <1>b, <2>p, <4>2, <5>2
        <5>4. QED
          BY <1>a, <1>b, <1>d, <2>p, <3>0, <3>a, <3>1, <4>2, <5>1, <5>3
      <4>4. CASE /\ faults' = faults /\ handler[w].pc \in {"failing", "releasing"}
                 /\ jobs'[k].state \in {"queued", "dead", "succeeded"}
        <5>1. Owes(w)
          BY <4>4 DEF Owes, Reclaiming
        <5>2. Open(k)' \in {0, 1}
          BY <4>4 DEF Open
        <5>3. QED
          BY <1>a, <1>b, <1>d, <2>p, <3>0, <3>a, <3>1, <4>2, <4>4, <5>1, <5>2
      <4>5. CASE faults' = faults /\ handler[w].pc = "done"
        <5>1. Open(k)' = 0
          BY <1>a, <2>1, <4>5 DEF Open
        <5>2. QED
          BY <1>a, <1>b, <1>d, <2>p, <3>0, <3>a, <3>1, <4>2, <4>5, <5>1
      <4>6. QED
        BY <2>1, <4>3, <4>4, <4>5
    <3>2. CASE KeyOf[n] # k
      <4>1. /\ Due(KeyOf[n])' = Due(KeyOf[n]) /\ jobs'[KeyOf[n]] = jobs[KeyOf[n]]
            /\ Live(KeyOf[n])' = Live(KeyOf[n])
        BY <1>a, <2>0, <2>1, <2>2, <3>2, Elsewhere
      <4>2. Open(KeyOf[n])' = Open(KeyOf[n])
        BY <2>p, <4>1 DEF Open
      <4>3. Texts(n) + Cardinality(Due(KeyOf[n])) + Open(KeyOf[n]) <= Allowance'
        BY <1>a, <1>b, <1>c, <1>d, <2>1, <2>p, <3>a
      <4>4. QED
        BY <3>0, <4>1, <4>2, <4>3
    <3>3. QED
      BY <3>1, <3>2
  <2>4. QED
    BY <1>f, <2>3
<1>8. ASSUME NEW w \in Worker, NEW k \in Key, Scans(w, k)
      PROVE  Blamed'
  <2>1. /\ handler[w] = Idle /\ jobs[k].state = "running"
        /\ handler'[w] = [pc |-> "stale", key |-> k, next |-> 0, seen |-> 0]
        /\ \A v \in Worker \ {w} : handler'[v] = handler[v]
        /\ UNCHANGED <<chat, jobs, subject>>
        /\ (faults' = faults /\ ~Live(k)) \/ (faults' = faults + 1 /\ Live(k))
    BY <1>8, ScanSteps
  <2>2. /\ handler'[w].key = k /\ handler'[w].pc = "stale"
        /\ handler[w].key = None /\ None \notin Key
    BY <2>1, NotifyConstantsOK DEF Idle
  <2>p. /\ Allowance \in Nat /\ Allowance' \in Nat /\ Workers \in Nat /\ Workers' = Workers
        /\ Allowance' = IF faults' = faults THEN Allowance ELSE Allowance + Workers
        /\ Workers >= 1
    BY <1>p, <2>1
  <2>3. ASSUME NEW n \in Note, subject'[KeyOf[n]] = n, ToSet(Photos[n]) \cap Missing = {}
        PROVE  Texts(n)' + Cardinality(Due(KeyOf[n])') + Open(KeyOf[n])' <= Allowance'
    <3>0. Texts(n)' = Texts(n)
      BY <2>1 DEF Texts
    <3>a. Texts(n) + Cardinality(Due(KeyOf[n])) + Open(KeyOf[n]) <= Allowance
      BY <1>e, <2>1, <2>3
    <3>1. CASE KeyOf[n] = k
      <4>1. Owes(w)'
        BY <2>2 DEF Owes, Reclaiming
      <4>2. Due(k)' \ {w} = Due(k) \ {w} /\ w \notin Due(k) /\ w \in Due(k)'
        BY <2>1, <2>2, <4>1, Here
      <4>3. /\ Cardinality(Due(k)') = Cardinality(Due(k)) + 1
            /\ Cardinality(Due(k)') \in Nat /\ Cardinality(Due(k)) \in Nat
        <5>1. IsFiniteSet(Due(k)) /\ Due(k) \ {w} = Due(k)' \ {w}
          BY <4>2, EarlyFinite
        <5>2. QED
          BY <4>2, <5>1, Shift
      <4>4. Live(k)' <=> Live(k)
        <5>1. \A v \in Worker : handler'[v].key = k /\ handler'[v].pc \notin Reclaiming
                            <=> handler[v].key = k /\ handler[v].pc \notin Reclaiming
          BY <2>1, <2>2 DEF Reclaiming
        <5>2. QED
          BY <5>1 DEF Live, Reclaiming
      <4>5. CASE ~Live(k) /\ faults' = faults
        <5>1. /\ Open(k) = Workers - Cardinality(Due(k))
              /\ Open(k)' = Workers - Cardinality(Due(k)')
          BY <2>1, <2>p, <4>4, <4>5 DEF Open
        <5>2. QED
          BY <1>d, <2>p, <3>0, <3>a, <3>1, <4>3, <4>5, <5>1
      <4>6. CASE Live(k) /\ faults' = faults + 1
        <5>1. Open(k) = 0 /\ Open(k)' = 0
          BY <2>1, <4>4, <4>6 DEF Open
        <5>2. Allowance' = Allowance + Workers
          BY <1>a, <2>p, <4>6
        <5>3. QED
          BY <1>d, <2>p, <3>0, <3>a, <3>1, <4>3, <5>1, <5>2
      <4>7. QED
        BY <2>1, <4>5, <4>6
    <3>2. CASE KeyOf[n] # k
      <4>1. /\ Due(KeyOf[n])' = Due(KeyOf[n]) /\ jobs'[KeyOf[n]] = jobs[KeyOf[n]]
            /\ Live(KeyOf[n])' = Live(KeyOf[n])
        BY <1>a, <2>1, <2>2, <3>2, Elsewhere
      <4>2. Open(KeyOf[n])' = Open(KeyOf[n])
        BY <2>p, <4>1 DEF Open
      <4>3. Texts(n) + Cardinality(Due(KeyOf[n])) + Open(KeyOf[n]) <= Allowance'
        BY <1>a, <1>b, <1>c, <1>d, <2>1, <2>p, <3>a
      <4>4. QED
        BY <3>0, <4>1, <4>2, <4>3
    <3>3. QED
      BY <3>1, <3>2
  <2>4. QED
    BY <1>f, <2>3
<1>9. QED
  BY <1>2, <1>3, <1>4, <1>5, <1>6, <1>7, <1>8, Kinds

-----------------------------------------------------------------------------
(***************************************************************************)
(* The theorems.                                                           *)
(***************************************************************************)

LEMMA InvInit == Init => Inv
<1> SUFFICES ASSUME Init PROVE Inv
  OBVIOUS
<1>1. /\ config = None /\ rows = [n \in Note |-> "absent"] /\ asking = {}
      /\ jobs = [k \in Key |-> NoJob] /\ subject = [k \in Key |-> None]
      /\ handler = [w \in Worker |-> Idle] /\ chat = [n \in Note |-> <<>>]
      /\ excused = {} /\ faults = 0
  BY DEF Init
<1>2. MaxAttempts \in Nat \ {0} /\ MaxFaults \in Nat /\ None \notin Key /\ None \notin Note
      /\ \A n \in Note : KeyOf[n] \in Key
  BY NotifyConstantsOK
<1>3. NoJob \in JobRecord /\ NoJob.state = "absent" /\ NoJob.attempts = 0
  BY <1>2 DEF NoJob, JobRecord
<1>4. Idle \in Task /\ Idle.pc = "idle" /\ Idle.key = None
  BY DEF Idle, Task, Position
<1>5. Typed
  <2>1. chat \in [Note -> Seq(Item)]
    BY <1>1
  <2>2. QED
    BY <1>1, <1>2, <1>3, <1>4, <2>1 DEF Typed
<1>6. Subjects
  BY <1>1, <1>2, <1>3 DEF Subjects
<1>7. Delivering
  BY <1>1, <1>4 DEF Delivering, Progress
<1>8. Logged
  BY <1>1 DEF Logged
<1>9. Ordered
  <2>1. \A n \in Note : chat[n] = <<>> /\ ToSet(chat[n]) = {} /\ DOMAIN chat[n] = {}
    BY <1>1 DEF ToSet
  <2>2. QED
    BY <2>1 DEF Ordered
<1>10. \A k \in Key : ~Live(k) /\ Due(k) = {} /\ Early(k) = {}
  BY <1>1, <1>2, <1>4 DEF Live, Due, Early
<1>11. Calm
  BY <1>1, <1>2, <1>3, <1>4, <1>10 DEF Calm, Uneventful, Live
<1>13. Counted /\ Blamed
  <2>1. \A n \in Note : subject[KeyOf[n]] # n
    BY <1>1, <1>2
  <2>2. QED
    BY <2>1 DEF Counted, Blamed
<1>14. QED
  BY <1>5, <1>6, <1>7, <1>8, <1>9, <1>11, <1>13 DEF Inv

LEMMA InvNext == Inv /\ [Next]_vars => Inv'
<1> SUFFICES ASSUME Inv, [Next]_vars PROVE Inv'
  OBVIOUS
<1>1. /\ Typed /\ Subjects /\ Delivering /\ Logged /\ Ordered
      /\ Calm /\ Counted /\ Blamed
  BY DEF Inv
<1>2. CASE Next
  BY <1>1, <1>2, TypedNext, SubjectsNext, DeliveringNext, LoggedNext, OrderedNext, CalmNext,
     CountedNext, BlamedNext DEF Inv
<1>3. CASE UNCHANGED vars
  <2>1. UNCHANGED <<config, rows, asking, jobs, subject, handler, chat, excused, faults>>
    BY <1>3 DEF vars
  <2>2. Typed' /\ Subjects'
    BY <1>1, <2>1 DEF Typed, Subjects
  <2>3. Delivering'
    BY <1>1, <2>1 DEF Delivering, Progress, Subject, Delivered
  <2>4. Logged' /\ Ordered'
    BY <1>1, <2>1 DEF Logged, Ordered, Delivered, Deliverable
  <2>5. Calm'
    BY <1>1, <2>1 DEF Calm, Uneventful, Live
  <2>6. \A k \in Key : Due(k)' = Due(k) /\ Early(k)' = Early(k) /\ Open(k)' = Open(k)
    BY <2>1 DEF Due, Early, Owes, AtText, Open, Live, Workers
  <2>7. \A n \in Note : Texts(n)' = Texts(n) /\ KeyOf[n] \in Key
    BY <2>1, NotifyConstantsOK DEF Texts
  <2>8. Counted' /\ Blamed'
    BY <1>1, <2>1, <2>6, <2>7 DEF Counted, Blamed, Allowance, Workers
  <2>9. QED
    BY <2>2, <2>3, <2>4, <2>5, <2>8 DEF Inv
<1>4. QED
  BY <1>2, <1>3

LEMMA Invariance == Spec => []Inv
BY InvInit, InvNext, PTL DEF Spec

\* The rows of the tables, the workers and the chat are well formed (TypeOK): only
\* a job that exists has a subject, no worker is about to send something past the
\* end of the photos, and nothing arrives that was not asked for.
THEOREM TypeCorrect == Spec => []TypeOK
<1>1. ASSUME Inv PROVE TypeOK
  <2>1. Typed /\ Subjects /\ Delivering /\ Ordered
    BY <1>1 DEF Inv
  <2>2. \A w \in Worker : handler[w] \in Task
    BY <2>1 DEF Typed
  <2>3. ASSUME NEW w \in Worker
        PROVE  /\ handler[w].pc \in Position /\ handler[w].seen \in Nat
               /\ handler[w].pc = "idle" <=> handler[w] = Idle
               /\ handler[w].pc = "send" =>
                    handler[w].next \in 1 .. Len(Items(subject[handler[w].key]))
    BY <2>1, <2>2 DEF Task, Delivering, Progress, Subject
  <2>4. /\ \A k \in Key : subject[k] = None <=> jobs[k].state = "absent"
        /\ \A n \in Note : ToSet(chat[n]) \subseteq ToSet(Items(n))
    BY <2>1 DEF Subjects, Ordered
  <2>5. QED
    BY <2>1, <2>3, <2>4 DEF TypeOK, Typed, Position
<1>2. QED
  BY <1>1, Invariance, PTL

\* The log of notifications does not lie (LogIsTrue), whatever is lost and
\* however workers overlap: a row says sent only when the text and every photo
\* have arrived, skipped only when delivery was off or the configuration could
\* not be read, and pending for good only after a fault or when the job belongs
\* to another notification.
THEOREM LogNeverLies == Spec => []LogIsTrue
<1>1. ASSUME Inv PROVE LogIsTrue
  <2>1. Typed /\ Subjects /\ Logged /\ Calm
    BY <1>1 DEF Inv
  <2>2. ASSUME NEW n \in Note, rows[n] = "pending", Settled(n)
        PROVE  faults > 0 \/ subject[KeyOf[n]] # n
    <3>1. CASE faults = 0 /\ subject[KeyOf[n]] = n
      <4>1. KeyOf[n] \in Key /\ jobs[KeyOf[n]].state \in {"succeeded", "dead"}
        BY <2>2, NotifyConstantsOK DEF Settled
      <4>2. rows[n] # "pending"
        BY <2>1, <3>1, <4>1 DEF Calm, Uneventful
      <4>3. QED
        BY <2>2, <4>2
    <3>2. QED
      BY <2>1, <3>1, NotifyConstantsOK DEF Typed
  <2>3. QED
    BY <2>1, <2>2 DEF LogIsTrue, Logged
<1>2. QED
  BY <1>1, Invariance, PTL

\* Retries repeat deliveries and nothing else does (RepeatsAreRetries): the text
\* arrives at most once per attempt of the job, and at most once more than once per
\* fault and worker if every photo can be sent; no photo comes before what precedes
\* it.
THEOREM RepeatsAreBounded == Spec => []RepeatsAreRetries
<1>1. ASSUME Inv PROVE RepeatsAreRetries
  <2>1. Typed /\ Ordered /\ Counted /\ Blamed
    BY <1>1 DEF Inv
  <2>2. ASSUME NEW n \in Note
        PROVE  /\ chat[n] # <<>> => Texts(n) <= jobs[KeyOf[n]].attempts
               /\ ToSet(Photos[n]) \cap Missing = {} => Texts(n) <= Allowance
    <3>1. /\ KeyOf[n] \in Key /\ faults \in Nat /\ Texts(n) \in Nat
          /\ Cardinality(Early(KeyOf[n])) \in Nat /\ Cardinality(Due(KeyOf[n])) \in Nat
      BY <2>1, NotifyConstantsOK, TextFacts, EarlyFinite DEF Typed
    <3>2. /\ Open(KeyOf[n]) \in Nat /\ jobs[KeyOf[n]].attempts \in Nat
          /\ Allowance \in Nat
      <4>1. Due(KeyOf[n]) \subseteq Worker
        BY DEF Due
      <4>2. Workers \in Nat /\ Cardinality(Due(KeyOf[n])) <= Workers
        BY <4>1, Few
      <4>3. Open(KeyOf[n]) \in Nat
        BY <3>1, <4>2 DEF Open
      <4> HIDE DEF Workers
      <4>4. \A f, m \in Nat : 1 + f * m \in Nat
        OBVIOUS
      <4>5. QED
        BY <2>1, <3>1, <4>2, <4>3, <4>4 DEF Typed, JobRecord, Allowance
    <3>3. CASE chat[n] = <<>>
      <4>1. Texts(n) = 0
        BY <2>1, <3>3, TextFacts
      <4>2. QED
        BY <3>1, <3>2, <3>3, <4>1
    <3>4. CASE chat[n] # <<>>
      <4>1. subject[KeyOf[n]] = n
        BY <2>1, <3>4 DEF Ordered
      <4>2. Texts(n) + Cardinality(Early(KeyOf[n])) <= jobs[KeyOf[n]].attempts
        BY <2>1, <4>1 DEF Counted
      <4>3. ToSet(Photos[n]) \cap Missing = {} =>
              Texts(n) + Cardinality(Due(KeyOf[n])) + Open(KeyOf[n]) <= Allowance
        BY <2>1, <4>1 DEF Blamed
      <4>4. QED
        BY <3>1, <3>2, <4>2, <4>3
    <3>5. QED
      BY <3>3, <3>4
  <2>3. QED
    BY <2>1, <2>2 DEF RepeatsAreRetries, Ordered, Allowance, Workers
<1>2. QED
  BY <1>1, Invariance, PTL
=============================================================================
