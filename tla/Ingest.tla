------------------------------- MODULE Ingest -------------------------------
(***************************************************************************)
(* One measurement run from the agent's manifest POST to the hand-off to   *)
(* Pipeline A: handleManifest (internal/ingest/ingest.go) declares it and  *)
(* enqueues its pull job, HandlePullRun (internal/ingest/pipeline.go)      *)
(* pulls, unpacks, verifies and promotes it.                               *)
(*                                                                         *)
(* Every database transaction and every file system operation that another *)
(* process or a later attempt can observe is a step of its own; a handler  *)
(* may stop between any two of them.  The pull job follows the life cycle  *)
(* of JobQueue.  A directory is the set of the files below it, {} one that  *)
(* does not exist; what a file is, and what SafeUnpack writes, is in       *)
(* Archives.                                                               *)
(***************************************************************************)
EXTENDS RunStates, JobRow, Archives, ManifestContract

CONSTANTS
  Handler,      \* Go workers that can execute the pull job
  Manifest,     \* the manifests that may be posted for the run
  Body,         \* manifest -> its fields, see ManifestContract
  Entries,      \* digest of an archive -> its entries, see Archives
  Damaged,      \* the digest of anything else the agent may serve
  MaxManifests, \* bound on the manifests recorded for the run
  MaxAttempts,  \* max_attempts of the pull job
  MaxCrashes,   \* bound on lost processes and unrecorded outcomes
  MaxIgnored,   \* bound on the file system errors that the code passes over
  Timely,       \* TRUE: no lock expires under a live handler, and one worker
                \* reclaims
  None          \* no manifest, no archive

ASSUME IngestConstantsOK ==
  /\ DOMAIN Body = Manifest
  /\ \A m \in Manifest :
       /\ Body[m].archive \in DOMAIN Entries
       /\ Body[m].files \in Seq([name: Seq(STRING), bytes: Int, sha: STRING])
  /\ \A a \in DOMAIN Entries :
       Entries[a] \in Seq([abs: BOOLEAN, path: Seq(STRING), type: STRING,
                           size: Nat, sha: STRING])
  /\ Damaged \in DOMAIN Entries \ Digest
  /\ MaxManifests \in Nat \ {0}
  /\ MaxAttempts \in Nat \ {0}
  /\ MaxCrashes \in Nat
  /\ MaxIgnored \in Nat
  /\ Timely \in BOOLEAN
  /\ None \notin Manifest \cup DOMAIN Entries

VARIABLES
  state,      \* runs.state, "undeclared" while there is no row
  manifests,  \* the manifests rows, oldest first
  runFiles,   \* the run_files rows
  pull,       \* the pull job: its state and attempt_count
  parse,      \* whether the parse job has been enqueued
  posting,    \* whether a manifest POST is between its two commits
  archive,    \* the archive file in the run's staging directory
  staged,     \* the unpacked tree in the staging directory
  raw,        \* the run's directory in the raw store
  sealed,     \* whether that directory has been made read-only
  pc,         \* handler -> its position in HandlePullRun
  local,      \* handler -> what it has loaded: run state, manifest,
              \* archive, next entry
  crashes,
  ignored     \* how many errors of RemoveAll and lockDown were passed over

job == <<pull, crashes>>
disk == <<archive, staged, raw, sealed, ignored>>
tables == <<manifests, runFiles, parse, posting>>
vars == <<state, manifests, runFiles, pull, parse, posting, archive, staged, raw,
          sealed, pc, local, crashes, ignored>>

Archive == DOMAIN Entries

\* The run_files rows of a manifest.
DeclaredFiles(m) ==
  {[path |-> f.name, bytes |-> f.bytes, sha |-> f.sha] : f \in ToSet(Body[m].files)}

\* What the first n entries of an archive unpack to.
FilesUpTo(a, n) == UNION {FileOf(Entries[a], i) : i \in 1 .. n}

FilesIn(a) == FilesUpTo(a, Len(Entries[a]))

File == UNION ({FilesIn(a) : a \in Archive} \cup {DeclaredFiles(m) : m \in Manifest})

\* The manifest names a sample and a device.
Described(m) == Body[m].sample # "" /\ Body[m].device # ""

NothingLoaded ==
  [loaded |-> "undeclared", manifest |-> None, opened |-> None, entry |-> 0]

Position ==
  {"idle", "load", "begin", "fetch", "hash", "clear", "extract", "verify",
   "promote", "seal", "record", "handoff", "done", "failed"}

\* The tables, the directories and what each handler has loaded are well formed;
\* in particular a manifest is recorded once, however often it is posted.
TypeOK ==
  /\ state \in RunState \cup {"undeclared"}
  /\ manifests \in Seq(Manifest) /\ IsInjective(manifests)
  /\ runFiles \subseteq File
  /\ pull \in JobRecord
  /\ parse \in BOOLEAN /\ posting \in BOOLEAN /\ sealed \in BOOLEAN
  /\ archive \in Archive \cup {None}
  /\ staged \subseteq File /\ raw \subseteq File
  /\ pc \in [Handler -> Position]
  /\ local \in [Handler -> [loaded: RunState \cup {"undeclared"},
                            manifest: Manifest \cup {None},
                            opened: Archive \cup {None},
                            entry: Nat]]
  /\ crashes \in 0 .. MaxCrashes /\ ignored \in 0 .. MaxIgnored

Init ==
  /\ state = "undeclared"
  /\ manifests = <<>>
  /\ runFiles = {}
  /\ pull = NoJob
  /\ parse = FALSE
  /\ posting = FALSE
  /\ archive = None
  /\ staged = {}
  /\ raw = {}
  /\ sealed = FALSE
  /\ pc = [h \in Handler |-> "idle"]
  /\ local = [h \in Handler |-> NothingLoaded]
  /\ crashes = 0
  /\ ignored = 0

-----------------------------------------------------------------------------
(***************************************************************************)
(* The manifest POST: two commits, Create and Enqueue.  Both are           *)
(* idempotent, so POSTs in flight at the same time need no identity.       *)
(***************************************************************************)

\* A manifest that breaks the contract is refused.  INSERT the run and the
\* manifest, each ON CONFLICT DO NOTHING.
Declare(m) ==
  /\ ValidateAt(Body[m])
  /\ m \in ToSet(manifests) \/ Len(manifests) < MaxManifests
  /\ state' = IF state = "undeclared" THEN "declared" ELSE state
  /\ manifests' = IF m \in ToSet(manifests) THEN manifests
                                            ELSE Append(manifests, m)
  /\ posting' = TRUE
  /\ UNCHANGED <<runFiles, parse, pc, local, job, disk>>

EnqueuePull ==
  /\ posting
  /\ posting' = FALSE
  /\ pull' = Enqueued(pull)
  /\ UNCHANGED <<state, manifests, runFiles, parse, pc, local, crashes, disk>>

\* The API process dies, or the second commit fails.
PostLost ==
  /\ posting
  /\ crashes < MaxCrashes
  /\ posting' = FALSE
  /\ crashes' = crashes + 1
  /\ UNCHANGED <<state, manifests, runFiles, parse, pull, pc, local, disk>>

-----------------------------------------------------------------------------
(***************************************************************************)
(* The pull job.                                                           *)
(***************************************************************************)

Goto(h, position) == pc' = [pc EXCEPT ![h] = position]

Leave(h) ==
  /\ Goto(h, "idle")
  /\ local' = [local EXCEPT ![h] = NothingLoaded]

Claim(h) ==
  /\ pc[h] = "idle"
  /\ pull.state = "queued"
  /\ pull' = Started(pull)
  /\ Goto(h, "load")
  /\ UNCHANGED <<state, local, crashes, tables, disk>>

Complete(h) ==
  /\ pc[h] = "done"
  /\ pull' = Succeeded(pull)
  /\ Leave(h)
  /\ UNCHANGED <<state, crashes, tables, disk>>

\* What a Fail can have read as the attempt_count before it writes the row: the
\* count of now, unless another worker has started the job in between.
Seen == IF Timely THEN {pull.attempts} ELSE 0 .. pull.attempts

Fail(h) ==
  /\ pc[h] = "failed"
  /\ \E seen \in Seen : pull' = Returned(pull, seen, MaxAttempts)
  /\ Leave(h)
  /\ UNCHANGED <<state, crashes, tables, disk>>

\* ReclaimStale, after the lock has expired; a second reclaimer, or one that is
\* slow, writes whatever has become of the row.
Reclaim ==
  /\ IF Timely THEN pull.state = "running" /\ \A h \in Handler : pc[h] = "idle"
               ELSE pull.state # "absent"
  /\ \E seen \in Seen : pull' = Returned(pull, seen, MaxAttempts)
  /\ UNCHANGED <<state, pc, local, crashes, tables, disk>>

\* The worker dies, or a database or file system call of the handler fails.
Crash(h) ==
  /\ pc[h] # "idle"
  /\ crashes < MaxCrashes
  /\ crashes' = crashes + 1
  /\ Leave(h)
  /\ UNCHANGED <<state, pull, tables, disk>>

-----------------------------------------------------------------------------
(***************************************************************************)
(* HandlePullRun.                                                          *)
(***************************************************************************)

PastIngest ==
  {"promoted", "needs_metadata", "parsing", "validated", "processing",
   "awaiting_review", "approved", "publishing", "published",
   "changes_requested"}

\* TransitionTx: one transaction that fails unless the run is in state from.
Transition(h, from, to, next) ==
  IF state = from /\ CanTransition(from, to)
  THEN state' = to /\ Goto(h, next)
  ELSE UNCHANGED state /\ Goto(h, "failed")

\* failTo: the same transaction, but its error is only logged; the handler
\* returns its own error either way.
FailTo(h, from, to) ==
  /\ state' = IF state = from /\ CanTransition(from, to) THEN to ELSE state
  /\ Goto(h, "failed")

\* Load the run and the manifest recorded last.
Load(h) ==
  /\ pc[h] = "load"
  /\ CASE state \in PastIngest       -> Goto(h, "done")
       [] state = "unsafe_archive"   -> Goto(h, "failed")
       [] OTHER                      -> Goto(h, "begin")
  /\ local' = [local EXCEPT ![h].loaded = state,
                            ![h].manifest = Last(manifests)]
  /\ UNCHANGED <<state, tables, disk, job>>

Begin(h) ==
  /\ pc[h] = "begin"
  /\ IF local[h].loaded = "pulling"
     THEN Goto(h, "fetch") /\ UNCHANGED state
     ELSE Transition(h, local[h].loaded, "pulling", "fetch")
  /\ UNCHANGED <<local, tables, disk, job>>

\* FetchArchive replaces the archive file only once it is complete.  Whatever
\* the agent serves instead of the archive declared is Damaged.
Fetch(h) ==
  /\ pc[h] = "fetch"
  /\ \E a \in {Body[local[h].manifest].archive, Damaged} : archive' = a
  /\ Goto(h, "hash")
  /\ UNCHANGED <<state, local, staged, raw, sealed, ignored, tables, job>>

\* The agent does not answer, or the archive is too large.
FetchFails(h) ==
  /\ pc[h] = "fetch"
  /\ FailTo(h, "pulling", "transfer_failed")
  /\ UNCHANGED <<local, tables, disk, job>>

CheckHash(h) ==
  /\ pc[h] = "hash"
  /\ IF archive = Body[local[h].manifest].archive
     THEN Goto(h, "clear") /\ UNCHANGED state
     ELSE FailTo(h, "pulling", "transfer_failed")
  /\ UNCHANGED <<local, tables, disk, job>>

\* Mutant: the directory of an earlier attempt is not removed.
KeepUnpackDir(h) ==
  /\ pc[h] = "clear"
  /\ local' = [local EXCEPT ![h].opened = archive, ![h].entry = 1]
  /\ Goto(h, "extract")
  /\ UNCHANGED <<state, disk, tables, job>>

\* An error that the code passes over.
Ignored == ignored < MaxIgnored /\ ignored' = ignored + 1

\* RemoveAll of the unpack directory, whose error is ignored: anything may be
\* left of an earlier attempt.  SafeUnpack opens the archive.
ClearUnpackDir(h) ==
  /\ pc[h] = "clear"
  /\ \/ staged' = {} /\ UNCHANGED ignored
     \/ Ignored /\ staged' \in SUBSET staged \ {{}}
  /\ local' = [local EXCEPT ![h].opened = archive, ![h].entry = 1]
  /\ Goto(h, "extract")
  /\ UNCHANGED <<state, archive, raw, sealed, tables, job>>

\* SafeUnpack takes the next entry; a file is opened exclusively.
ExtractEntry(h) ==
  LET entries == Entries[local[h].opened]
      i       == local[h].entry
  IN  /\ pc[h] = "extract"
      /\ i <= Len(entries)
      /\ ~Rejected(entries, i) /\ ~Clashes(entries, i) /\ ~Overruns(entries, i)
      /\ ~Obstructed(entries, i, staged)
      /\ staged' = staged \cup FileOf(entries, i)
      /\ local' = [local EXCEPT ![h].entry = i + 1]
      /\ UNCHANGED <<state, archive, raw, sealed, ignored, pc, tables, job>>

\* ErrUnsafeArchive; the file that overruns a limit stays behind.
ExtractUnsafe(h) ==
  LET entries == Entries[local[h].opened]
      i       == local[h].entry
  IN  /\ pc[h] = "extract"
      /\ i <= Len(entries)
      /\ \/ Rejected(entries, i) /\ UNCHANGED staged
         \/ /\ ~Rejected(entries, i) /\ ~Clashes(entries, i) /\ Overruns(entries, i)
            /\ ~Obstructed(entries, i, staged)
            /\ staged' = staged \cup FileOf(entries, i)
      /\ FailTo(h, "pulling", "unsafe_archive")
      /\ UNCHANGED <<local, archive, raw, sealed, ignored, tables, job>>

\* An archive that cannot be read on, or a file that cannot be written: there is
\* no space, or something is in the way.
ExtractFails(h) ==
  /\ pc[h] = "extract"
  /\ FailTo(h, "pulling", "transfer_failed")
  /\ UNCHANGED <<local, tables, disk, job>>

Unpacked(h) ==
  /\ pc[h] = "extract"
  /\ local[h].entry > Len(Entries[local[h].opened])
  /\ Transition(h, "pulling", "unpacked", "verify")
  /\ UNCHANGED <<local, tables, disk, job>>

Verify(h) ==
  /\ pc[h] = "verify"
  /\ IF VerifyAgainstManifest(FilesIn(local[h].opened), Body[local[h].manifest])
     THEN Transition(h, "unpacked", "verified", "promote")
     ELSE FailTo(h, "unpacked", "manifest_mismatch")
  /\ UNCHANGED <<local, tables, disk, job>>

\* Mutant: a directory that is already there is replaced.
PromoteOver(h) ==
  /\ pc[h] = "promote"
  /\ IF staged # {}
     THEN Goto(h, "seal") /\ raw' = staged /\ staged' = {}
     ELSE Goto(h, "failed") /\ UNCHANGED <<staged, raw>>
  /\ UNCHANGED <<state, archive, sealed, ignored, local, tables, job>>

\* Promote: rename into the raw store; ErrAlreadyPromoted is tolerated.
PromoteFiles(h) ==
  /\ pc[h] = "promote"
  /\ IF raw = {} /\ staged # {}
     THEN Goto(h, "seal") /\ raw' = staged /\ staged' = {}
     ELSE /\ Goto(h, IF raw # {} THEN "record" ELSE "failed")
          /\ UNCHANGED <<staged, raw>>
  /\ UNCHANGED <<state, archive, sealed, ignored, local, tables, job>>

\* Mutant: lockDown is missing.
SealForgotten(h) ==
  /\ pc[h] = "seal"
  /\ Goto(h, "record")
  /\ UNCHANGED <<state, disk, local, tables, job>>

\* Promote, after the rename: lockDown, whose error is ignored.
Seal(h) ==
  /\ pc[h] = "seal"
  /\ \/ sealed' = TRUE /\ UNCHANGED ignored
     \/ Ignored /\ UNCHANGED sealed
  /\ Goto(h, "record")
  /\ UNCHANGED <<state, archive, staged, raw, local, tables, job>>

\* Mutant: "DB last" is forgotten.
RecordEarly(h) ==
  /\ pc[h] \in {"promote", "record"}
  /\ Transition(h, "verified", "promoted",
                IF pc[h] = "promote" THEN "promote" ELSE "handoff")
  /\ runFiles' = IF state = "verified" THEN DeclaredFiles(local[h].manifest) ELSE runFiles
  /\ UNCHANGED <<manifests, parse, posting, local, disk, job>>

\* One transaction: the run_files rows and verified -> promoted.
Record(h) ==
  /\ pc[h] = "record"
  /\ Transition(h, "verified", "promoted", "handoff")
  /\ runFiles' = IF state = "verified" THEN DeclaredFiles(local[h].manifest) ELSE runFiles
  /\ UNCHANGED <<manifests, parse, posting, local, disk, job>>

\* Mutant: the gate trusts the manifest just processed.
HandOffLatest(h) ==
  /\ pc[h] = "handoff"
  /\ Goto(h, "done")
  /\ IF Described(local[h].manifest)
     THEN parse' = TRUE /\ UNCHANGED state
     ELSE /\ state' = IF state = "promoted" THEN "needs_metadata" ELSE state
          /\ UNCHANGED parse
  /\ UNCHANGED <<manifests, runFiles, posting, local, disk, job>>

\* Mutant: the gate does not return, and the job is enqueued all the same.
HandOffAnyway(h) ==
  /\ pc[h] = "handoff"
  /\ Goto(h, "done")
  /\ parse' = TRUE
  /\ state' = IF state = "promoted" /\ ~Described(Head(manifests))
              THEN "needs_metadata" ELSE state
  /\ UNCHANGED <<manifests, runFiles, posting, local, disk, job>>

\* The metadata gate, after that commit.  The runs row has the sample and the
\* device of the first manifest.  A failure here is only logged.
HandOff(h) ==
  /\ pc[h] = "handoff"
  /\ Goto(h, "done")
  /\ IF Described(Head(manifests))
     THEN parse' = TRUE /\ UNCHANGED state
     ELSE /\ state' = IF state = "promoted" THEN "needs_metadata" ELSE state
          /\ UNCHANGED parse
  /\ UNCHANGED <<manifests, runFiles, posting, local, disk, job>>

HandOffFails(h) ==
  /\ pc[h] = "handoff"
  /\ crashes < MaxCrashes
  /\ crashes' = crashes + 1
  /\ Goto(h, "done")
  /\ UNCHANGED <<state, pull, local, tables, disk>>

-----------------------------------------------------------------------------
(***************************************************************************)
(* The rest of the system, as far as the pull job can see it: once the     *)
(* parse job exists, Pipeline A, the reviewers and the publisher move the  *)
(* run on along the edges they use.                                        *)
(***************************************************************************)
Driven ==
  {<<"promoted", "parsing">>, <<"parsing", "validated">>,
   <<"parsing", "parser_failed">>, <<"parser_failed", "parsing">>,
   <<"validated", "processing">>, <<"processing", "awaiting_review">>,
   <<"awaiting_review", "approved">>, <<"awaiting_review", "changes_requested">>,
   <<"awaiting_review", "quarantined">>, <<"quarantined", "parsing">>,
   <<"approved", "publishing">>, <<"publishing", "published">>}

Downstream ==
  /\ parse
  /\ \E edge \in Driven : state = edge[1] /\ state' = edge[2]
  /\ UNCHANGED <<pc, local, tables, disk, job>>

Work(h) ==
  \/ Load(h) \/ Begin(h)
  \/ Fetch(h) \/ FetchFails(h) \/ CheckHash(h)
  \/ ClearUnpackDir(h) \/ ExtractEntry(h) \/ ExtractUnsafe(h) \/ ExtractFails(h)
  \/ Unpacked(h)
  \/ Verify(h) \/ PromoteFiles(h) \/ Seal(h) \/ Record(h)
  \/ HandOff(h) \/ HandOffFails(h)

Next ==
  \/ \E m \in Manifest : Declare(m)
  \/ EnqueuePull
  \/ PostLost
  \/ \E h \in Handler : Claim(h) \/ Work(h) \/ Complete(h) \/ Fail(h) \/ Crash(h)
  \/ Reclaim
  \/ Downstream

Spec == Init /\ [][Next]_vars

-----------------------------------------------------------------------------
(***************************************************************************)
(* Properties.                                                             *)
(***************************************************************************)

Recorded == ToSet(manifests)

\* What SafeUnpack promises of an archive as a whole: only directories and
\* regular files, under distinct relative paths that do not climb, each file
\* and all of them within the limits.
Safe(a) ==
  LET entries == Entries[a]
      paths   == [i \in DOMAIN entries |-> Clean(entries[i].path)]
      within(bytes, limit) == limit = 0 \/ bytes <= limit
  IN  /\ \A entry \in ToSet(entries) :
           /\ entry.type \in {"dir", "file"}
           /\ ~entry.abs /\ ".." \notin ToSet(entry.path)
           /\ entry.type = "file" => within(entry.size, MaxFileBytes)
      /\ IsInjective(paths)
      /\ within(Len(entries), MaxEntries)
      /\ within(BytesOf(entries, Len(entries)), MaxTotalBytes)

\* Whatever attempts crashed and whichever manifests arrived meanwhile, the
\* raw directory holds the files that one recorded manifest declares, all of them
\* and complete, out of an archive that is safe.  It holds nothing else, unless
\* the directory of an earlier attempt could not be removed: then what is too much
\* comes from the archives of recorded manifests, but nothing has verified it.
RawIsVerified ==
  raw # {} =>
    /\ \E m \in Recorded :
         /\ DeclaredFiles(m) = FilesIn(Body[m].archive)
         /\ Safe(Body[m].archive)
         /\ DeclaredFiles(m) \subseteq raw
         /\ ignored = 0 => raw = DeclaredFiles(m)
    /\ raw \subseteq UNION {FilesIn(Body[m].archive) : m \in Recorded}

\* Limits of SafeUnpack: however its attempt ends, an archive leaves no more
\* than the total limit and one file beyond it in the staging directory, and
\* every removal of that directory that fails lets as much again pile up.
\* (Not one byte beyond it, as the comment of writeFileWithHash suggests: when
\* the total is used up exactly, the next file is only capped by its own limit.)
StagingIsBounded ==
  MaxTotalBytes > 0 /\ MaxFileBytes > 0 =>
    MapThenSumSet(LAMBDA file : file.bytes, staged) <=
      (1 + ignored) * (MaxTotalBytes + MaxFileBytes)

\* The contract lets no manifest in whose own fields contradict each other: the
\* files it declares, packed as they are declared, pass SafeUnpack's path checks
\* and VerifyAgainstManifest.  (A manifest can still be beyond ingestion: the
\* contract takes any archive.name that is not empty, and openTarReader only
\* those of tar files.)
ManifestsAreSatisfiable ==
  \A m \in Recorded :
    LET packed == [i \in DOMAIN Body[m].files |->
                    [abs  |-> FALSE, path |-> Body[m].files[i].name,
                     type |-> "file", size |-> 0, sha |-> Body[m].files[i].sha]]
    IN  /\ VerifyAgainstManifest(DeclaredFiles(m), Body[m])
        /\ \A i \in DOMAIN packed :
             ~Escapes(packed[i]) /\ ~Repeated(packed, i) /\ ~Clashes(packed, i)

\* README: raw files are immutable after promotion.
RawImmutable == [][raw # {} => raw' = raw]_vars

\* Architecture, "Files first, DB last": the rows that say a run is promoted
\* appear only when its bytes are in the raw store, and they describe files
\* that were verified.  A pull job that has succeeded, on whichever attempt,
\* has left both behind.
FilesFirst ==
  /\ pull.state = "succeeded" => runFiles # {}
  /\ state \in PastIngest => runFiles # {}
  /\ runFiles # {} =>
       /\ raw # {}
       /\ \E m \in Recorded :
            runFiles = DeclaredFiles(m) /\ runFiles = FilesIn(Body[m].archive)

\* Only a run with verified bytes that its first manifest puts under a sample
\* and a device is ever parsed, whatever later manifests say.
MetadataGate == parse => runFiles # {} /\ Described(Head(manifests))

\* migrations/00020_runs.sql: the sha256 of run_files is authoritative for the
\* stored raw data.
RecordMatchesRaw == runFiles # {} => raw = runFiles

\* README: the promoted tree is 0444/0555.
PromotedIsSealed == state \in PastIngest => sealed

\* A run whose pull job has succeeded is handed on: its parse job exists or it
\* waits for metadata.
HandedOff ==
  pull.state = "succeeded" => parse \/ ~Described(Head(manifests))

\* Whatever the agent serves and however attempts fail and are retried, as
\* long as no process dies and no statement is lost after promotion, the files
\* recorded are in the raw store and the run is handed on; and as long as no
\* file system error is passed over either, they are all there is and the tree is
\* read-only.  (With one such fault each of these may break, see the README.)
OnlyFaultsDiverge ==
  crashes = 0 =>
    /\ runFiles \subseteq raw
    /\ HandedOff
    /\ ignored = 0 => RecordMatchesRaw /\ PromotedIsSealed
=============================================================================
