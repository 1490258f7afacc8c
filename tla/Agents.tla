------------------------------- MODULE Agents -------------------------------
(***************************************************************************)
(* One measurement-PC agent: what admins do to its key, its enabled flag   *)
(* and its allowed roots (internal/admin/agents.go over                    *)
(* internal/agentauth/admin.go), and how its manifest POSTs are let in     *)
(* (Authenticate and ValidateMeasPath, internal/agentauth).                *)
(*                                                                         *)
(* The rows of agent_allowed_roots are replaced by a READ COMMITTED        *)
(* transaction: DELETE sees the rows committed when it starts and waits    *)
(* for other transactions that are deleting them, INSERT waits for a       *)
(* transaction that has inserted or deleted the same root.  A row is its   *)
(* root and the request that inserted it.                                  *)
(***************************************************************************)
EXTENDS Naturals, Sequences, SequencesExt, FiniteSets

CONSTANTS
  Admin,         \* admins, each with one request at a time
  Poster,        \* manifest POSTs in flight
  RootList,      \* the lists of allowed roots that may be asked for
  Path,          \* the meas_paths that manifests may name
  MaxRequests,   \* bound on PATCH requests
  MaxLost,       \* bound on lost requests and statements
  None

ASSUME AgentsConstantsOK ==
  /\ {MaxRequests, MaxLost} \subseteq Nat
  /\ RootList \subseteq Seq(Seq(STRING))
  /\ None \notin RootList

VARIABLES
  key,       \* whether somebody has been shown the key that agents.key_hash is
             \* the hash of; "none" while there is no row
  enabled,   \* agents.enabled
  rows,      \* the committed agent_allowed_roots rows
  request,   \* admin -> the PATCH in progress
  deleted,   \* admin -> the rows its transaction has deleted
  inserted,  \* admin -> the rows its transaction has inserted
  post,      \* poster -> the POST in progress
  serial,    \* the number of PATCH requests so far
  lost,
  asked      \* history: the roots of the request that has committed last and
             \* of those that committed while it was under way

agent == <<key, enabled>>
tables == <<rows, deleted, inserted, serial, asked>>
vars == <<key, enabled, rows, request, deleted, inserted, post, serial,
          lost, asked>>

Row == [root: UNION {ToSet(list) : list \in RootList}, by: 0 .. MaxRequests]

Roots(rowset) == {row.root : row \in rowset}

NoRequest ==
  [pc |-> "idle", enable |-> None, list |-> None, wants |-> {}, saw |-> {},
   during |-> {}, by |-> 0]

NoPost == [pc |-> "idle", path |-> <<>>, since |-> {}]

\* The rows, requests and transactions are well formed, and the roots of one
\* agent are distinct, as their UNIQUE constraint says.
TypeOK ==
  /\ key \in {"none", "shown", "unknown"}
  /\ enabled \in BOOLEAN
  /\ rows \subseteq Row
  /\ \A r1, r2 \in rows : r1.root = r2.root => r1 = r2
  /\ \A a \in Admin :
       /\ request[a].pc \in {"idle", "enable", "begin", "delete", "insert"}
       /\ request[a].enable \in BOOLEAN \cup {None}
       /\ request[a].saw \subseteq Row
       /\ request[a].by \in 0 .. serial
       /\ deleted[a] \subseteq rows
       /\ inserted[a] \subseteq Row
  /\ post \in [Poster -> [pc: {"idle", "path", "declare"}, path: Path \cup {<<>>},
                          since: SUBSET Roots(Row)]]
  /\ serial \in 0 .. MaxRequests
  /\ lost \in 0 .. MaxLost
  /\ asked \subseteq Roots(Row)

Init ==
  /\ key = "none" /\ enabled = FALSE /\ rows = {}
  /\ request = [a \in Admin |-> NoRequest]
  /\ deleted = [a \in Admin |-> {}]
  /\ inserted = [a \in Admin |-> {}]
  /\ post = [p \in Poster |-> NoPost]
  /\ serial = 0 /\ lost = 0
  /\ asked = {}

-----------------------------------------------------------------------------
(***************************************************************************)
(* handleRegisterAgent and handleRotateKey.  The raw key is in the         *)
(* response and nowhere else; the response may be lost.                    *)
(***************************************************************************)

Answer ==
  \/ key' = "shown" /\ UNCHANGED lost
  \/ key' = "unknown" /\ lost < MaxLost /\ lost' = lost + 1

\* One transaction for the agent and its roots; a second one is refused.
Register(a, list) ==
  /\ request[a] = NoRequest
  /\ key = "none"
  /\ Answer
  /\ enabled' = TRUE
  /\ rows' = {[root |-> root, by |-> 0] : root \in ToSet(list)}
  /\ asked' = ToSet(list)
  /\ UNCHANGED <<request, deleted, inserted, post, serial>>

RotateKey(a) ==
  /\ request[a] = NoRequest
  /\ key # "none"
  /\ Answer
  /\ UNCHANGED <<enabled, request, post, tables>>

-----------------------------------------------------------------------------
(***************************************************************************)
(* handlePatchAgent: SetEnabled, then SetAllowedRoots, each of them        *)
(* optional and each a commit of its own.                                  *)
(***************************************************************************)

Goto(a, position) == request' = [request EXCEPT ![a].pc = position]

PatchAgent(a, enable, list) ==
  /\ request[a] = NoRequest
  /\ key # "none"
  /\ enable # None \/ list # None
  /\ serial < MaxRequests
  /\ serial' = serial + 1
  /\ request' = [request EXCEPT ![a] =
                   [NoRequest EXCEPT !.pc = IF enable # None THEN "enable" ELSE "begin",
                                     !.enable = enable, !.list = list,
                                     !.wants = IF list = None THEN {} ELSE ToSet(list),
                                     !.by = serial + 1]]
  /\ UNCHANGED <<rows, deleted, inserted, post, lost, asked, agent>>

SetEnabled(a) ==
  /\ request[a].pc = "enable"
  /\ enabled' = request[a].enable
  /\ request' = [request EXCEPT ![a] = IF @.list = None
                                       THEN NoRequest ELSE [@ EXCEPT !.pc = "begin"]]
  /\ UNCHANGED <<key, post, lost, tables>>

\* SetAllowedRoots: the DELETE takes its snapshot.
BeginDelete(a) ==
  /\ request[a].pc = "begin"
  /\ request' = [request EXCEPT ![a].pc = "delete", ![a].saw = rows]
  /\ UNCHANGED <<post, lost, agent, tables>>

\* The root to be inserted next is the head of what is left of the list.
NextRoot(a) == Head(request[a].list)

\* The transaction of b holds what the statement of a needs.
WaitsFor(a, b) ==
  /\ a # b
  /\ \/ request[a].pc = "delete" /\ request[a].saw \cap deleted[b] # {}
     \/ /\ request[a].pc = "insert" /\ request[a].list # <<>>
        /\ NextRoot(a) \in Roots(inserted[b] \cup deleted[b])

Free(a) == \A b \in Admin : ~WaitsFor(a, b)

\* Rows that another transaction has deleted meanwhile are skipped, rows it
\* has inserted are not seen.
Delete(a) ==
  /\ request[a].pc = "delete"
  /\ Free(a)
  /\ deleted' = [deleted EXCEPT ![a] = request[a].saw \cap rows]
  /\ Goto(a, "insert")
  /\ UNCHANGED <<rows, inserted, serial, asked, post, lost, agent>>

\* INSERT ... ON CONFLICT DO NOTHING.
Insert(a) ==
  /\ request[a].pc = "insert"
  /\ request[a].list # <<>>
  /\ Free(a)
  /\ request' = [request EXCEPT ![a].list = Tail(@)]
  /\ inserted' = IF NextRoot(a) \in Roots((rows \ deleted[a]) \cup inserted[a])
                 THEN inserted
                 ELSE [inserted EXCEPT ![a] =
                         @ \cup {[root |-> NextRoot(a), by |-> request[a].by]}]
  /\ UNCHANGED <<rows, deleted, serial, asked, post, lost, agent>>

Rollback(a) ==
  /\ deleted' = [deleted EXCEPT ![a] = {}]
  /\ inserted' = [inserted EXCEPT ![a] = {}]
  /\ request' = [request EXCEPT ![a] = NoRequest]

\* Mutant: an error path returns without the rollback.
FailsOpen(a) ==
  /\ request[a].pc # "idle"
  /\ lost < MaxLost
  /\ lost' = lost + 1
  /\ request' = [request EXCEPT ![a] = NoRequest]
  /\ UNCHANGED <<post, agent, tables>>

\* A statement fails, or the process dies and its connection with it.
Fails(a) ==
  /\ request[a].pc # "idle"
  /\ lost < MaxLost
  /\ lost' = lost + 1
  /\ Rollback(a)
  /\ UNCHANGED <<rows, serial, asked, post, agent>>

\* PostgreSQL aborts one of two transactions that wait for each other.
Deadlocked(a) ==
  /\ \E b \in Admin : WaitsFor(a, b) /\ WaitsFor(b, a)
  /\ Rollback(a)
  /\ UNCHANGED <<rows, serial, asked, post, lost, agent>>

\* A POST in flight, and a replacement that has begun, see a request commit.
Noticed(roots) ==
  post' = [p \in Poster |-> IF post[p] = NoPost THEN NoPost
                            ELSE [post[p] EXCEPT !.since = @ \cup roots]]

\* Mutant: the rows of earlier requests are left alone.
CommitOnTop(a) ==
  /\ request[a].pc = "insert"
  /\ request[a].list = <<>>
  /\ rows' = rows \cup inserted[a]
  /\ asked' = request[a].wants \cup request[a].during
  /\ deleted' = [deleted EXCEPT ![a] = {}]
  /\ inserted' = [inserted EXCEPT ![a] = {}]
  /\ request' = [b \in Admin |->
                   IF b = a THEN NoRequest
                   ELSE IF request[b].pc \in {"delete", "insert"}
                        THEN [request[b] EXCEPT !.during = @ \cup request[a].wants]
                        ELSE request[b]]
  /\ Noticed(request[a].wants)
  /\ UNCHANGED <<serial, lost, agent>>

Commit(a) ==
  /\ request[a].pc = "insert"
  /\ request[a].list = <<>>
  /\ rows' = (rows \ deleted[a]) \cup inserted[a]
  /\ asked' = request[a].wants \cup request[a].during
  /\ deleted' = [deleted EXCEPT ![a] = {}]
  /\ inserted' = [inserted EXCEPT ![a] = {}]
  /\ request' = [b \in Admin |->
                   IF b = a THEN NoRequest
                   ELSE IF request[b].pc \in {"delete", "insert"}
                        THEN [request[b] EXCEPT !.during = @ \cup request[a].wants]
                        ELSE request[b]]
  /\ Noticed(request[a].wants)
  /\ UNCHANGED <<serial, lost, agent>>

-----------------------------------------------------------------------------
(***************************************************************************)
(* A manifest POST, as far as the agent is concerned (handleManifest in    *)
(* internal/ingest/ingest.go): the key and the roots are read by two       *)
(* queries.  What it declares is in Ingest.                                *)
(***************************************************************************)

\* filepath.Clean of an absolute path: "." and "" go, ".." takes the element
\* before it along and has no effect at the top.
Clean(path) ==
  FoldLeft(LAMBDA cleaned, element :
             CASE element \in {".", ""} -> cleaned
               [] element = ".." -> IF cleaned = <<>> THEN <<>> ELSE Front(cleaned)
               [] OTHER -> Append(cleaned, element),
           <<>>, path)

\* ResolveUnderRoot, for one root.  A path that climbs is refused before it is
\* cleaned, a root that does is cleaned.  The root directory itself has no separator
\* to add, so that it allows nothing below it.
ResolveUnderRoot(path, root) ==
  /\ ".." \notin ToSet(path)
  /\ \/ Clean(path) = Clean(root)
     \/ Clean(root) # <<>> /\ IsStrictPrefix(Clean(root), Clean(path))

\* Authenticate: the row exists, is enabled and holds the key presented.  Every
\* other request is refused.  (Its update of last_seen_at may fail, and is read
\* by nothing here.)
Authenticate(p, path) ==
  /\ post[p] = NoPost
  /\ key = "shown" /\ enabled
  /\ post' = [post EXCEPT ![p] = [pc |-> "path", path |-> path, since |-> asked]]
  /\ UNCHANGED <<request, lost, agent, tables>>

Refused(p) == post' = [post EXCEPT ![p] = NoPost]

\* No roots, no access.
ValidateMeasPath(p) ==
  /\ post[p].pc = "path"
  /\ IF \E root \in Roots(rows) : ResolveUnderRoot(post[p].path, root)
     THEN post' = [post EXCEPT ![p].pc = "declare"]
     ELSE Refused(p)
  /\ UNCHANGED <<request, lost, agent, tables>>

\* Create and Enqueue, or an error before them.
Declare(p) ==
  /\ post[p].pc = "declare"
  /\ Refused(p)
  /\ UNCHANGED <<request, lost, agent, tables>>

Step(a) ==
  \/ SetEnabled(a) \/ BeginDelete(a) \/ Delete(a) \/ Insert(a) \/ Commit(a)
  \/ Deadlocked(a)

Next ==
  \/ \E a \in Admin :
       \/ \E list \in RootList : Register(a, list)
       \/ RotateKey(a)
       \/ \E enable \in BOOLEAN \cup {None}, list \in RootList \cup {None} :
            PatchAgent(a, enable, list)
       \/ Step(a)
       \/ Fails(a)
  \/ \E p \in Poster :
       (\E path \in Path : Authenticate(p, path))
       \/ ValidateMeasPath(p) \/ Declare(p)

Spec == Init /\ [][Next]_vars

\* The API goes on with the requests it has begun.
FairSpec == Spec /\ \A a \in Admin : WF_vars(Step(a))

-----------------------------------------------------------------------------
(***************************************************************************)
(* Properties.                                                             *)
(***************************************************************************)

\* A root that is taken away stays away: however requests overlap, wait, fail
\* or deadlock, an agent has no root but those of the request that committed
\* last and of requests that committed while that one was under way.
RevokedIsGone == Roots(rows) \subseteq asked

\* agentauth/admin.go: SetAllowedRoots replaces the full set of allowed roots.
\* Whatever the order of the requests, the roots are a list somebody asked for.
RootsReplaced == key # "none" => Roots(rows) \in {ToSet(list) : list \in RootList}

Below(path, root) ==
  /\ ".." \notin ToSet(path)
  /\ Clean(path) = Clean(root) \/ IsStrictPrefix(Clean(root), Clean(path))

\* Although the agent and its roots are read at different moments, a manifest is
\* declared only for a path below a root that was in force when the agent was
\* let in, or came into force after that: never below one revoked before.
AdmissionIsCurrent ==
  \A p \in Poster :
    post[p].pc = "declare" =>
      \E root \in post[p].since : Below(post[p].path, root)

\* Requests that replace the roots at the same time do not wait for each other
\* for ever.
PatchesEnd == \A a \in Admin : request[a].pc # "idle" ~> request[a].pc = "idle"
=============================================================================
