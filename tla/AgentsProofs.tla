---------------------------- MODULE AgentsProofs -----------------------------
(***************************************************************************)
(* Theorems about Agents, for any number of admins, of manifest POSTs, of  *)
(* requests and of failures.                                               *)
(***************************************************************************)
EXTENDS Agents, SequenceTheorems, TLAPS

Root == UNION {ToSet(list) : list \in RootList}

\* A request on its way, and the POSTs.
Request ==
  [pc: {"idle", "enable", "begin", "delete", "insert"}, enable: BOOLEAN \cup {None},
   list: Seq(Seq(STRING)) \cup {None}, wants: SUBSET Root, saw: SUBSET Row,
   during: SUBSET Root, by: 0 .. MaxRequests]

Posted == [pc: {"idle", "path", "declare"}, path: Path \cup {<<>>}, since: SUBSET Root]

\* A request in progress, and what its transaction has done: only between its
\* DELETE and its commit is there anything to undo.
Fit(r, gone, new, last) ==
  /\ r.by \in 0 .. last
  /\ r.pc = "enable" => r.enable \in BOOLEAN /\ r.list \in RootList \cup {None}
  /\ r.pc = "enable" /\ r.list # None => ToSet(r.list) \subseteq r.wants
  /\ r.pc \in {"begin", "delete", "insert"} =>
       r.list \in Seq(Seq(STRING)) /\ ToSet(r.list) \subseteq r.wants
  /\ r.pc # "insert" => gone = {} /\ new = {}

Typed ==
  /\ key \in {"none", "shown", "unknown"}
  /\ enabled \in BOOLEAN
  /\ rows \subseteq Row
  /\ request \in [Admin -> Request]
  /\ deleted \in [Admin -> SUBSET Row]
  /\ inserted \in [Admin -> SUBSET Row]
  /\ post \in [Poster -> Posted]
  /\ serial \in 0 .. MaxRequests
  /\ lost \in 0 .. MaxLost
  /\ asked \subseteq Root
  /\ \A a \in Admin : Fit(request[a], deleted[a], inserted[a], serial)

\* Before the agent is registered nothing is asked of it.
Unregistered ==
  key = "none" => /\ \A a \in Admin : request[a].pc = "idle"
                  /\ \A p \in Poster : post[p].pc = "idle"

Distinct(set) == \A r1, r2 \in set : r1.root = r2.root => r1 = r2

\* Transactions under way delete different rows and insert different roots, none
\* of which is among the rows that the transaction leaves.
Exclusive ==
  /\ Distinct(rows)
  /\ \A a \in Admin :
       /\ deleted[a] \subseteq rows
       /\ Distinct(inserted[a])
       /\ Roots(inserted[a]) \cap Roots(rows \ deleted[a]) = {}
  /\ \A a, b \in Admin :
       a # b => /\ deleted[a] \cap deleted[b] = {}
                /\ Roots(inserted[a]) \cap Roots(inserted[b]) = {}

\* A transaction leaves no rows but those that others have committed since its
\* DELETE took its snapshot, and inserts what was asked of it.
Accounted ==
  /\ Roots(rows) \subseteq asked
  /\ \A a \in Admin :
       /\ Roots(inserted[a]) \subseteq request[a].wants
       /\ request[a].pc = "delete" => Roots(rows \ request[a].saw) \subseteq request[a].during
       /\ request[a].pc = "insert" => Roots(rows \ deleted[a]) \subseteq request[a].during

\* A POST has seen every root that has been in force since it was let in.
Admitted ==
  \A p \in Poster :
    /\ post[p].pc # "idle" => Roots(rows) \subseteq post[p].since
    /\ post[p].pc = "declare" =>
         \E root \in post[p].since : Below(post[p].path, root)

Inv == Typed /\ Unregistered /\ Exclusive /\ Accounted /\ Admitted

-----------------------------------------------------------------------------
LEMMA RootFacts ==
  /\ \A list \in RootList : list \in Seq(Seq(STRING)) /\ ToSet(list) \subseteq Root
  /\ Row = [root: Root, by: 0 .. MaxRequests]
  /\ Roots(Row) = Root
  /\ 0 \in 0 .. MaxRequests
<1>1. \A list \in RootList : list \in Seq(Seq(STRING)) /\ ToSet(list) \subseteq Root
  BY AgentsConstantsOK DEF Root
<1>2. Row = [root: Root, by: 0 .. MaxRequests] /\ 0 \in 0 .. MaxRequests
  BY AgentsConstantsOK DEF Row, Root
<1>3. Roots(Row) \subseteq Root
  BY <1>2 DEF Roots
<1>4. ASSUME NEW root \in Root
      PROVE  root \in Roots(Row)
  <2>1. [root |-> root, by |-> 0] \in Row
    BY <1>2
  <2>2. QED
    BY <2>1 DEF Roots
<1>5. QED
  BY <1>1, <1>2, <1>3, <1>4

LEMMA Lists ==
  ASSUME NEW list \in Seq(Seq(STRING)), list # <<>>
  PROVE  /\ Head(list) \in ToSet(list)
         /\ Tail(list) \in Seq(Seq(STRING))
         /\ ToSet(Tail(list)) \subseteq ToSet(list)
BY DEF ToSet

\* The end of a request without effect.
LEMMA RollbackSteps ==
  ASSUME Typed, NEW a \in Admin, Fails(a) \/ Deadlocked(a)
  PROVE  /\ request' = [request EXCEPT ![a] = NoRequest]
         /\ deleted' = [deleted EXCEPT ![a] = {}]
         /\ inserted' = [inserted EXCEPT ![a] = {}]
         /\ lost' \in 0 .. MaxLost
         /\ UNCHANGED <<rows, serial, asked, post, key, enabled>>
BY AgentsConstantsOK DEF Fails, Deadlocked, Rollback, agent, Typed

LEMMA NoRequestTyped == NoRequest \in Request /\ NoRequest.pc = "idle"
BY RootFacts DEF NoRequest, Request

LEMMA NoPostTyped == NoPost \in Posted /\ NoPost.pc = "idle"
BY DEF NoPost, Posted

\* The row that Insert adds, unless its root is there.
Added(a) == [root |-> NextRoot(a), by |-> request[a].by]

LEMMA InsertSteps ==
  ASSUME Typed, NEW a \in Admin, Insert(a)
  PROVE  /\ request[a].pc = "insert" /\ request[a].list # <<>>
         /\ NextRoot(a) \in request[a].wants
         /\ Added(a) \in Row /\ Added(a).root = NextRoot(a)
         /\ request' = [request EXCEPT ![a].list = Tail(request[a].list)]
         /\ Tail(request[a].list) \in Seq(Seq(STRING))
         /\ ToSet(Tail(request[a].list)) \subseteq request[a].wants
         /\ \/ UNCHANGED inserted
            \/ /\ NextRoot(a) \notin Roots((rows \ deleted[a]) \cup inserted[a])
               /\ inserted' = [inserted EXCEPT ![a] = inserted[a] \cup {Added(a)}]
         /\ UNCHANGED <<rows, deleted, serial, asked, post, lost, key, enabled>>
<1>1. /\ request[a].pc = "insert" /\ request[a].list # <<>>
      /\ request[a].list \in Seq(Seq(STRING)) /\ ToSet(request[a].list) \subseteq request[a].wants
      /\ request[a] \in Request
  BY DEF Insert, Typed, Fit
<1>2. /\ NextRoot(a) \in request[a].wants
      /\ Tail(request[a].list) \in Seq(Seq(STRING))
      /\ ToSet(Tail(request[a].list)) \subseteq request[a].wants
  BY <1>1, Lists DEF NextRoot
<1>3. Added(a) \in Row /\ Added(a).root = NextRoot(a)
  BY <1>1, <1>2, RootFacts DEF Added, Request
<1>4. QED
  BY <1>1, <1>2, <1>3 DEF Insert, agent, Added

\* What a commit does to the other requests and to the POSTs.
LEMMA CommitSteps ==
  ASSUME Typed, NEW a \in Admin, Commit(a)
  PROVE  /\ request[a].pc = "insert"
         /\ rows' = (rows \ deleted[a]) \cup inserted[a]
         /\ asked' = request[a].wants \cup request[a].during
         /\ deleted' = [deleted EXCEPT ![a] = {}]
         /\ inserted' = [inserted EXCEPT ![a] = {}]
         /\ request' \in [Admin -> Request] /\ request'[a] = NoRequest
         /\ \A c \in Admin \ {a} :
              /\ request'[c].pc = request[c].pc /\ request'[c].enable = request[c].enable
              /\ request'[c].list = request[c].list /\ request'[c].wants = request[c].wants
              /\ request'[c].saw = request[c].saw /\ request'[c].by = request[c].by
              /\ request[c].pc \in {"delete", "insert"} =>
                   request'[c].during = request[c].during \cup request[a].wants
         /\ post' \in [Poster -> Posted]
         /\ \A p \in Poster :
              /\ post'[p].pc = post[p].pc /\ post'[p].path = post[p].path
              /\ post[p].pc # "idle" => post'[p].since = post[p].since \cup request[a].wants
         /\ UNCHANGED <<serial, lost, key, enabled>>
<1>1. /\ request \in [Admin -> Request] /\ post \in [Poster -> Posted]
      /\ request[a].wants \in SUBSET Root
  BY DEF Typed, Request
<1>2. request' = [b \in Admin |->
                   IF b = a THEN NoRequest
                   ELSE IF request[b].pc \in {"delete", "insert"}
                        THEN [request[b] EXCEPT !.during = @ \cup request[a].wants]
                        ELSE request[b]]
  BY DEF Commit
<1>3. request'[a] = NoRequest
  BY <1>2
<1>4. ASSUME NEW c \in Admin \ {a}
      PROVE  /\ request'[c] \in Request
             /\ request'[c].pc = request[c].pc /\ request'[c].enable = request[c].enable
             /\ request'[c].list = request[c].list /\ request'[c].wants = request[c].wants
             /\ request'[c].saw = request[c].saw /\ request'[c].by = request[c].by
             /\ request[c].pc \in {"delete", "insert"} =>
                  request'[c].during = request[c].during \cup request[a].wants
  <2>1. request[c] \in Request
    BY <1>1
  <2>2. CASE request[c].pc \in {"delete", "insert"}
    <3>1. request'[c] = [request[c] EXCEPT !.during = request[c].during \cup request[a].wants]
      BY <1>2, <2>2
    <3>2. QED
      BY <1>1, <2>1, <3>1 DEF Request
  <2>3. CASE request[c].pc \notin {"delete", "insert"}
    <3>1. request'[c] = request[c]
      BY <1>2, <2>3
    <3>2. QED
      BY <2>1, <2>3, <3>1
  <2>4. QED
    BY <2>2, <2>3
<1>5. request' \in [Admin -> Request]
  BY <1>2, <1>3, <1>4, NoRequestTyped
<1>6. post' = [p \in Poster |-> IF post[p] = NoPost THEN NoPost
                                ELSE [post[p] EXCEPT !.since = @ \cup request[a].wants]]
  BY DEF Commit, Noticed
<1>7. ASSUME NEW p \in Poster
      PROVE  /\ post'[p] \in Posted
             /\ post'[p].pc = post[p].pc /\ post'[p].path = post[p].path
             /\ post[p].pc # "idle" => post'[p].since = post[p].since \cup request[a].wants
  <2>1. post[p] \in Posted
    BY <1>1
  <2>2. CASE post[p] = NoPost
    BY <1>6, <2>2, NoPostTyped
  <2>3. CASE post[p] # NoPost
    <3>1. post'[p] = [post[p] EXCEPT !.since = post[p].since \cup request[a].wants]
      BY <1>6, <2>3
    <3>2. QED
      BY <1>1, <2>1, <3>1 DEF Posted
  <2>4. QED
    BY <2>2, <2>3
<1>8. post' \in [Poster -> Posted]
  BY <1>6, <1>7
<1>9. QED
  BY <1>3, <1>4, <1>5, <1>7, <1>8 DEF Commit, agent

\* A POST is let in, passes or is refused.
LEMMA PostSteps ==
  ASSUME Typed, NEW p \in Poster,
         (\E path \in Path : Authenticate(p, path)) \/ ValidateMeasPath(p) \/ Declare(p)
  PROVE  /\ post' \in [Poster -> Posted]
         /\ \A q \in Poster \ {p} : post'[q] = post[q]
         /\ post'[p].pc # "idle" => post'[p].since = IF post[p].pc = "path" THEN post[p].since
                                                     ELSE asked
         /\ UNCHANGED <<key, enabled, rows, request, deleted, inserted, serial, lost, asked>>
<1>1. post \in [Poster -> Posted] /\ asked \in SUBSET Root
  BY DEF Typed
<1>2. ASSUME NEW path \in Path, Authenticate(p, path)
      PROVE  /\ post' = [post EXCEPT ![p] = [pc |-> "path", path |-> path, since |-> asked]]
             /\ [pc |-> "path", path |-> path, since |-> asked] \in Posted
             /\ post[p].pc = "idle"
  BY <1>1, <1>2, NoPostTyped DEF Authenticate, Posted
<1>3. ASSUME post' = [post EXCEPT ![p].pc = "declare"], post[p].pc = "path"
      PROVE  /\ post' \in [Poster -> Posted]
             /\ \A q \in Poster \ {p} : post'[q] = post[q]
             /\ post'[p].since = post[p].since
  <2>1. post[p] \in Posted
    BY <1>1
  <2>2. post' = [post EXCEPT ![p] = [post[p] EXCEPT !.pc = "declare"]]
    BY <1>3
  <2>3. QED
    BY <1>1, <2>1, <2>2 DEF Posted
<1>4. ASSUME Refused(p)
      PROVE  /\ post' \in [Poster -> Posted]
             /\ \A q \in Poster \ {p} : post'[q] = post[q]
             /\ post'[p].pc = "idle"
  BY <1>1, <1>4, NoPostTyped DEF Refused
<1>5. UNCHANGED <<key, enabled, rows, request, deleted, inserted, serial, lost, asked>>
  BY DEF Authenticate, ValidateMeasPath, Declare, agent, tables
<1>6. CASE \E path \in Path : Authenticate(p, path)
  <2>1. PICK path \in Path : Authenticate(p, path)
    BY <1>6
  <2>2. post'[p] = [pc |-> "path", path |-> path, since |-> asked]
    BY <1>1, <1>2, <2>1
  <2>3. QED
    BY <1>1, <1>2, <1>5, <2>1, <2>2
<1>7. CASE ValidateMeasPath(p) \/ Declare(p)
  BY <1>3, <1>4, <1>5, <1>7 DEF ValidateMeasPath, Declare
<1>8. QED
  BY <1>6, <1>7

-----------------------------------------------------------------------------
(***************************************************************************)
(* Every step keeps the invariant, one conjunct at a time.                 *)
(***************************************************************************)

LEMMA TypedNext ==
  ASSUME Typed, Unregistered, Next
  PROVE  Typed'
<1> USE AgentsConstantsOK
<1>0. /\ request \in [Admin -> Request] /\ deleted \in [Admin -> SUBSET Row]
      /\ inserted \in [Admin -> SUBSET Row] /\ rows \subseteq Row
      /\ \A c \in Admin : Fit(request[c], deleted[c], inserted[c], serial)
  BY DEF Typed
<1>1. ASSUME NEW a \in Admin, NEW list \in RootList, Register(a, list)
      PROVE  Typed'
  <2>1. rows' \subseteq Row /\ asked' \subseteq Root
    BY <1>1, RootFacts DEF Register
  <2>2. key' \in {"none", "shown", "unknown"} /\ lost' \in 0 .. MaxLost
    BY <1>1 DEF Register, Answer, Typed
  <2>3. QED
    BY <1>1, <2>1, <2>2 DEF Register, Typed
<1>2. ASSUME NEW a \in Admin, RotateKey(a)
      PROVE  Typed'
  <2>1. key' \in {"none", "shown", "unknown"} /\ lost' \in 0 .. MaxLost
    BY <1>2 DEF RotateKey, Answer, Typed
  <2>2. QED
    BY <1>2, <2>1 DEF RotateKey, Typed, tables
<1>3. ASSUME NEW a \in Admin, NEW enable \in BOOLEAN \cup {None},
             NEW list \in RootList \cup {None}, PatchAgent(a, enable, list)
      PROVE  Typed'
  <2> DEFINE new == [NoRequest EXCEPT !.pc = IF enable # None THEN "enable" ELSE "begin",
                                      !.enable = enable, !.list = list,
                                      !.wants = IF list = None THEN {} ELSE ToSet(list),
                                      !.by = serial + 1]
  <2>1. /\ new.pc = IF enable # None THEN "enable" ELSE "begin"
        /\ new.enable = enable /\ new.list = list
        /\ new.wants = IF list = None THEN {} ELSE ToSet(list)
        /\ new.by = serial + 1
    BY DEF NoRequest
  <2>2. request' = [request EXCEPT ![a] = new]
    BY <1>3 DEF PatchAgent
  <2>3. serial + 1 \in 0 .. MaxRequests /\ serial' = serial + 1 /\ serial \in Nat
    BY <1>3 DEF PatchAgent, Typed
  <2>4. list # None => list \in Seq(Seq(STRING)) /\ ToSet(list) \subseteq Root
    BY RootFacts
  <2>5. new \in Request
    <3> DEFINE wants == IF list = None THEN {} ELSE ToSet(list)
    <3>1. wants \in SUBSET Root /\ list \in Seq(Seq(STRING)) \cup {None}
          /\ enable \in BOOLEAN \cup {None}
      BY <2>4
    <3>2. new = [NoRequest EXCEPT !.pc = IF enable # None THEN "enable" ELSE "begin",
                                  !.enable = enable, !.list = list, !.wants = wants,
                                  !.by = serial + 1]
      OBVIOUS
    <3> HIDE DEF new, wants
    <3>3. QED
      BY <2>3, <3>1, <3>2, NoRequestTyped DEF Request
  <2>6. enable = None => list # None
    BY <1>3 DEF PatchAgent
  <2>7. deleted[a] = {} /\ inserted[a] = {}
    BY <1>0, <1>3, NoRequestTyped DEF PatchAgent, Fit
  <2>8. Fit(new, deleted[a], inserted[a], serial + 1)
    BY <2>1, <2>3, <2>4, <2>6, <2>7 DEF Fit
  <2> HIDE DEF new
  <2>9. request' \in [Admin -> Request] /\ request'[a] = new
    BY <1>0, <2>2, <2>5
  <2>10. ASSUME NEW c \in Admin \ {a}
         PROVE  Fit(request'[c], deleted[c], inserted[c], serial + 1)
    <3>1. request'[c] = request[c]
      BY <1>0, <2>2
    <3>2. request[c].by \in 0 .. serial => request[c].by \in 0 .. (serial + 1)
      BY <2>3
    <3>3. QED
      BY <1>0, <3>1, <3>2 DEF Fit
  <2>11. QED
    BY <1>3, <2>3, <2>8, <2>9, <2>10 DEF PatchAgent, Typed, agent
<1>4. ASSUME NEW a \in Admin, SetEnabled(a)
      PROVE  Typed'
  <2>1. /\ request[a] \in Request /\ request[a].pc = "enable"
        /\ Fit(request[a], deleted[a], inserted[a], serial)
    BY <1>0, <1>4 DEF SetEnabled
  <2>2. /\ request[a].enable \in BOOLEAN /\ deleted[a] = {} /\ inserted[a] = {}
        /\ request[a].by \in 0 .. serial
    BY <2>1 DEF Fit
  <2>3. /\ enabled' = request[a].enable
        /\ UNCHANGED <<key, post, lost, rows, deleted, inserted, serial, asked>>
    BY <1>4 DEF SetEnabled, tables
  <2>4. PICK r \in Request : /\ request' = [request EXCEPT ![a] = r]
                             /\ Fit(r, deleted[a], inserted[a], serial)
    <3>1. CASE request[a].list = None
      <4>1. request' = [request EXCEPT ![a] = NoRequest]
        BY <1>4, <3>1 DEF SetEnabled
      <4>2. Fit(NoRequest, deleted[a], inserted[a], serial)
        BY <2>2 DEF Fit, NoRequest, Typed
      <4>3. QED
        BY <4>1, <4>2, NoRequestTyped
    <3>2. CASE request[a].list # None
      <4>1. request' = [request EXCEPT ![a] = [request[a] EXCEPT !.pc = "begin"]]
        BY <1>4, <3>2 DEF SetEnabled
      <4>2. request[a].list \in Seq(Seq(STRING)) /\ ToSet(request[a].list) \subseteq request[a].wants
        BY <2>1, <3>2, RootFacts DEF Fit
      <4>3. /\ [request[a] EXCEPT !.pc = "begin"] \in Request
            /\ Fit([request[a] EXCEPT !.pc = "begin"], deleted[a], inserted[a], serial)
        BY <2>1, <2>2, <4>2 DEF Fit, Request
      <4>4. QED
        BY <4>1, <4>3
    <3>3. QED
      BY <3>1, <3>2
  <2>5. QED
    BY <1>0, <2>2, <2>3, <2>4 DEF Typed
<1>5. ASSUME NEW a \in Admin, BeginDelete(a)
      PROVE  Typed'
  <2>1. /\ request[a] \in Request /\ request[a].pc = "begin"
        /\ Fit(request[a], deleted[a], inserted[a], serial)
    BY <1>0, <1>5 DEF BeginDelete
  <2> DEFINE new == [request[a] EXCEPT !.pc = "delete", !.saw = rows]
  <2>2. request' = [request EXCEPT ![a] = new]
    BY <1>0, <1>5 DEF BeginDelete, Request
  <2>3. new \in Request /\ Fit(new, deleted[a], inserted[a], serial)
    BY <1>0, <2>1 DEF Request, Fit
  <2> HIDE DEF new
  <2>4. QED
    BY <1>0, <1>5, <2>2, <2>3, ZenonT(40) DEF BeginDelete, Typed, agent, tables
<1>6. ASSUME NEW a \in Admin, Delete(a)
      PROVE  Typed'
  <2>1. /\ request[a] \in Request /\ request[a].pc = "delete"
        /\ Fit(request[a], deleted[a], inserted[a], serial)
    BY <1>0, <1>6 DEF Delete
  <2> DEFINE new == [request[a] EXCEPT !.pc = "insert"]
  <2>2. request' = [request EXCEPT ![a] = new]
    BY <1>0, <1>6 DEF Delete, Goto
  <2>3. new \in Request /\ Fit(new, deleted'[a], inserted[a], serial)
    BY <2>1 DEF Request, Fit
  <2> HIDE DEF new
  <2>4. deleted' \in [Admin -> SUBSET Row] /\ \A c \in Admin \ {a} : deleted'[c] = deleted[c]
    BY <1>0, <1>6 DEF Delete
  <2>5. request' \in [Admin -> Request]
        /\ \A c \in Admin : Fit(request'[c], deleted'[c], inserted[c], serial)
    BY <1>0, <2>2, <2>3, <2>4
  <2>6. UNCHANGED <<rows, inserted, serial, asked, post, lost, key, enabled>>
    BY <1>6 DEF Delete, agent
  <2>7. QED
    BY <2>4, <2>5, <2>6 DEF Typed
<1>7. ASSUME NEW a \in Admin, Insert(a)
      PROVE  Typed'
  <2>1. request[a] \in Request /\ Fit(request[a], deleted[a], inserted[a], serial)
    BY <1>0
  <2>2. /\ request[a].pc = "insert"
        /\ request' = [request EXCEPT ![a] = [request[a] EXCEPT !.list = Tail(request[a].list)]]
        /\ Tail(request[a].list) \in Seq(Seq(STRING))
        /\ ToSet(Tail(request[a].list)) \subseteq request[a].wants
        /\ UNCHANGED <<rows, deleted, serial, asked, post, lost, key, enabled>>
    BY <1>7, InsertSteps
  <2> DEFINE new == [request[a] EXCEPT !.list = Tail(request[a].list)]
  <2>3. new \in Request /\ Fit(new, deleted[a], inserted'[a], serial)
    BY <2>1, <2>2 DEF Request, Fit
  <2>4. request' = [request EXCEPT ![a] = new]
    BY <2>2
  <2> HIDE DEF new
  <2>5. inserted' \in [Admin -> SUBSET Row] /\ \A c \in Admin \ {a} : inserted'[c] = inserted[c]
    <3>1. Added(a) \in Row
      BY <1>7, InsertSteps
    <3>2. \/ inserted' = inserted
          \/ inserted' = [inserted EXCEPT ![a] = inserted[a] \cup {Added(a)}]
      BY <1>7, InsertSteps
    <3>3. QED
      BY <1>0, <3>1, <3>2
  <2>6. request' \in [Admin -> Request]
        /\ \A c \in Admin : Fit(request'[c], deleted[c], inserted'[c], serial)
    BY <1>0, <2>3, <2>4, <2>5
  <2>7. QED
    BY <2>2, <2>5, <2>6 DEF Typed
<1>8. ASSUME NEW a \in Admin, Fails(a) \/ Deadlocked(a)
      PROVE  Typed'
  <2>1. /\ request' = [request EXCEPT ![a] = NoRequest]
        /\ deleted' = [deleted EXCEPT ![a] = {}]
        /\ inserted' = [inserted EXCEPT ![a] = {}]
        /\ lost' \in 0 .. MaxLost
        /\ UNCHANGED <<rows, serial, asked, post, key, enabled>>
    BY <1>8, RollbackSteps
  <2>2. Fit(NoRequest, {}, {}, serial)
    BY DEF Fit, NoRequest, Typed
  <2>3. QED
    BY <1>0, <2>1, <2>2, NoRequestTyped DEF Typed
<1>9. ASSUME NEW a \in Admin, Commit(a)
      PROVE  Typed'
  <2>1. request[a] \in Request
    BY <1>0
  <2>2. request[a].wants \subseteq Root /\ request[a].during \subseteq Root
    BY <2>1 DEF Request
  <2>3. deleted[a] \subseteq Row /\ inserted[a] \subseteq Row
    BY <1>0
  <2>4. asked' = request[a].wants \cup request[a].during
        /\ rows' = (rows \ deleted[a]) \cup inserted[a]
    BY <1>9, CommitSteps
  <2>5. asked' \subseteq Root /\ rows' \subseteq Row
    BY <1>0, <2>2, <2>3, <2>4
  <2>6. deleted' \in [Admin -> SUBSET Row] /\ inserted' \in [Admin -> SUBSET Row]
    BY <1>0, <1>9, CommitSteps
  <2>7. /\ request' \in [Admin -> Request] /\ post' \in [Poster -> Posted]
        /\ UNCHANGED <<serial, lost, key, enabled>>
    BY <1>9, CommitSteps
  <2>8. ASSUME NEW c \in Admin
        PROVE  Fit(request'[c], deleted'[c], inserted'[c], serial)
    <3>1. CASE c = a
      <4>1. request'[c] = NoRequest /\ deleted'[c] = {} /\ inserted'[c] = {}
        BY <1>0, <1>9, <3>1, CommitSteps
      <4>2. QED
        BY <4>1 DEF Fit, NoRequest, Typed
    <3>2. CASE c # a
      <4>1. /\ request'[c].pc = request[c].pc /\ request'[c].enable = request[c].enable
            /\ request'[c].list = request[c].list /\ request'[c].wants = request[c].wants
            /\ request'[c].by = request[c].by
            /\ deleted'[c] = deleted[c] /\ inserted'[c] = inserted[c]
        BY <1>0, <1>9, <3>2, CommitSteps
      <4>2. QED
        BY <1>0, <4>1 DEF Fit
    <3>3. QED
      BY <3>1, <3>2
  <2>9. QED
    BY <2>5, <2>6, <2>7, <2>8 DEF Typed
<1>10. ASSUME NEW p \in Poster,
              (\E path \in Path : Authenticate(p, path)) \/ ValidateMeasPath(p) \/ Declare(p)
       PROVE  Typed'
  <2>1. /\ post' \in [Poster -> Posted]
        /\ UNCHANGED <<key, enabled, rows, request, deleted, inserted, serial, lost, asked>>
    BY <1>10, PostSteps
  <2>2. QED
    BY <2>1 DEF Typed
<1>11. QED
  BY <1>1, <1>2, <1>3, <1>4, <1>5, <1>6, <1>7, <1>8, <1>9, <1>10 DEF Next, Step

LEMMA UnregisteredNext ==
  ASSUME Typed, Unregistered, Next
  PROVE  Unregistered'
<1>1. key' = "none" => key = "none" /\ UNCHANGED <<request, post>>
  <2>1. ASSUME NEW a \in Admin
        PROVE  /\ request[a].pc = "idle" =>
                    ~(Step(a) /\ ~Deadlocked(a)) /\ ~Fails(a)
               /\ (\A c \in Admin : request[c].pc = "idle") => ~Deadlocked(a)
    BY DEF Step, SetEnabled, BeginDelete, Delete, Insert, Commit, Fails, Deadlocked, WaitsFor
  <2>2. ASSUME NEW a \in Admin, Step(a) \/ Fails(a)
        PROVE  UNCHANGED key
    BY <2>2 DEF Step, SetEnabled, BeginDelete, Delete, Insert, Commit, Fails, Deadlocked, agent
  <2>3. ASSUME NEW p \in Poster,
               (\E path \in Path : Authenticate(p, path)) \/ ValidateMeasPath(p) \/ Declare(p)
        PROVE  UNCHANGED key /\ (key # "none" \/ post[p].pc # "idle")
    BY <2>3 DEF Authenticate, ValidateMeasPath, Declare, agent
  <2>4. ASSUME NEW a \in Admin,
               \/ \E list \in RootList : Register(a, list)
               \/ RotateKey(a)
               \/ \E enable \in BOOLEAN \cup {None}, list \in RootList \cup {None} :
                    PatchAgent(a, enable, list)
        PROVE  key' # "none"
    BY <2>4 DEF Register, RotateKey, PatchAgent, Answer, agent
  <2>5. QED
    BY <2>1, <2>2, <2>3, <2>4 DEF Next, Unregistered
<1>2. QED
  BY <1>1 DEF Unregistered

LEMMA RootsOf ==
  /\ \A set1, set2 : Roots(set1 \cup set2) = Roots(set1) \cup Roots(set2)
  /\ \A set1, set2 : set1 \subseteq set2 => Roots(set1) \subseteq Roots(set2)
  /\ \A set : \A row \in set : row.root \in Roots(set)
  /\ Roots({}) = {}
BY DEF Roots

\* The roots in force are those of the list, and nobody is changing them.
LEMMA RegisterSteps ==
  ASSUME Typed, Unregistered, NEW a \in Admin, NEW list \in RootList, Register(a, list)
  PROVE  /\ Distinct(rows') /\ Roots(rows') = asked'
         /\ \A c \in Admin : request[c].pc = "idle" /\ deleted[c] = {} /\ inserted[c] = {}
         /\ \A p \in Poster : post[p].pc = "idle"
         /\ UNCHANGED <<request, deleted, inserted, post>>
<1>1. rows' = {[root |-> root, by |-> 0] : root \in ToSet(list)} /\ asked' = ToSet(list)
  BY DEF Register
<1>2. Distinct(rows')
  BY <1>1 DEF Distinct
<1>3. Roots(rows') = asked'
  <2>1. ASSUME NEW root \in ToSet(list)
        PROVE  root \in Roots(rows')
    <3>1. [root |-> root, by |-> 0] \in rows'
      BY <1>1
    <3>2. QED
      BY <3>1 DEF Roots
  <2>2. Roots(rows') \subseteq ToSet(list)
    BY <1>1 DEF Roots
  <2>3. QED
    BY <1>1, <2>1, <2>2
<1>4. /\ \A c \in Admin : request[c].pc = "idle"
      /\ \A p \in Poster : post[p].pc = "idle"
  BY DEF Register, Unregistered
<1>5. QED
  BY <1>2, <1>3, <1>4 DEF Register, Typed, Fit

\* Until its DELETE a request changes no rows.
LEMMA QuietSteps ==
  ASSUME Typed, NEW a \in Admin,
         \/ RotateKey(a)
         \/ \E enable \in BOOLEAN \cup {None}, list \in RootList \cup {None} :
              PatchAgent(a, enable, list)
         \/ SetEnabled(a)
         \/ BeginDelete(a)
  PROVE  /\ UNCHANGED <<rows, deleted, inserted, post, asked>>
         /\ \A c \in Admin \ {a} : request'[c] = request[c]
         /\ \/ request'[a] = request[a]
            \/ inserted[a] = {} /\ request'[a].pc \in {"idle", "enable", "begin"}
            \/ inserted[a] = {} /\ request'[a].pc = "delete" /\ request'[a].saw = rows
<1>1. request \in [Admin -> Request] /\ Fit(request[a], deleted[a], inserted[a], serial)
  BY DEF Typed
<1>2. CASE RotateKey(a)
  BY <1>2 DEF RotateKey, tables
<1>3. ASSUME NEW enable \in BOOLEAN \cup {None}, NEW list \in RootList \cup {None},
             PatchAgent(a, enable, list)
      PROVE  /\ UNCHANGED <<rows, deleted, inserted, post, asked>>
             /\ \A c \in Admin \ {a} : request'[c] = request[c]
             /\ inserted[a] = {} /\ request'[a].pc \in {"idle", "enable", "begin"}
  <2>1. inserted[a] = {}
    BY <1>1, <1>3, NoRequestTyped DEF PatchAgent, Fit
  <2>2. request'[a].pc = IF enable # None THEN "enable" ELSE "begin"
    BY <1>1, <1>3 DEF PatchAgent, NoRequest
  <2>3. QED
    BY <1>1, <1>3, <2>1, <2>2 DEF PatchAgent
<1>4. CASE SetEnabled(a)
  <2>1. request[a] \in Request /\ inserted[a] = {}
    BY <1>1, <1>4 DEF SetEnabled, Fit
  <2>2. \/ request' = [request EXCEPT ![a] = NoRequest]
        \/ request' = [request EXCEPT ![a] = [request[a] EXCEPT !.pc = "begin"]]
    BY <1>4 DEF SetEnabled
  <2>3. request'[a].pc \in {"idle", "begin"} /\ \A c \in Admin \ {a} : request'[c] = request[c]
    BY <1>1, <2>1, <2>2, NoRequestTyped DEF Request
  <2>4. QED
    BY <1>4, <2>1, <2>3 DEF SetEnabled, tables
<1>5. CASE BeginDelete(a)
  <2>1. request[a] \in Request /\ inserted[a] = {}
    BY <1>1, <1>5 DEF BeginDelete, Fit
  <2>2. request' = [request EXCEPT ![a] = [request[a] EXCEPT !.pc = "delete", !.saw = rows]]
    BY <1>1, <1>5 DEF BeginDelete
  <2>3. request'[a].pc = "delete" /\ request'[a].saw = rows
    BY <1>1, <2>1, <2>2 DEF Request
  <2>4. QED
    BY <1>1, <1>5, <2>1, <2>2, <2>3 DEF BeginDelete, tables
<1>6. QED
  BY <1>2, <1>3, <1>4, <1>5

LEMMA DeleteSteps ==
  ASSUME Typed, NEW a \in Admin, Delete(a)
  PROVE  /\ request[a].pc = "delete" /\ inserted[a] = {}
         /\ request' = [request EXCEPT ![a] = [request[a] EXCEPT !.pc = "insert"]]
         /\ deleted' = [deleted EXCEPT ![a] = request[a].saw \cap rows]
         /\ \A b \in Admin \ {a} : request[a].saw \cap deleted[b] = {}
         /\ UNCHANGED <<rows, inserted, serial, asked, post, lost, key, enabled>>
BY DEF Delete, Goto, agent, Typed, Fit, Free, WaitsFor

LEMMA ExclusiveNext ==
  ASSUME Typed, Unregistered, Exclusive, Next
  PROVE  Exclusive'
<1>0. /\ deleted \in [Admin -> SUBSET Row] /\ inserted \in [Admin -> SUBSET Row]
      /\ request \in [Admin -> Request]
  BY DEF Typed
<1>1. ASSUME NEW a \in Admin, NEW list \in RootList, Register(a, list)
      PROVE  Exclusive'
  BY <1>1, RegisterSteps, RootsOf DEF Exclusive, Distinct
<1>2. ASSUME UNCHANGED <<rows, deleted, inserted>>
      PROVE  Exclusive'
  BY <1>2 DEF Exclusive
<1>3. ASSUME NEW a \in Admin, Delete(a)
      PROVE  Exclusive'
  <2>1. /\ inserted[a] = {} /\ deleted'[a] = request[a].saw \cap rows
        /\ \A c \in Admin \ {a} : deleted'[c] = deleted[c]
        /\ \A c \in Admin \ {a} : request[a].saw \cap deleted[c] = {}
        /\ UNCHANGED <<rows, inserted>>
    BY <1>0, <1>3, DeleteSteps
  <2>2. \A c \in Admin : deleted'[c] \subseteq rows
    BY <2>1 DEF Exclusive
  <2>3. \A c \in Admin : Roots(inserted[c]) \cap Roots(rows \ deleted'[c]) = {}
    BY <2>1, RootsOf DEF Exclusive
  <2>4. \A c, d \in Admin : c # d => deleted'[c] \cap deleted'[d] = {}
    BY <2>1 DEF Exclusive
  <2>5. QED
    BY <2>1, <2>2, <2>3, <2>4 DEF Exclusive
<1>4. ASSUME NEW a \in Admin, Insert(a)
      PROVE  Exclusive'
  <2>1. CASE UNCHANGED inserted
    BY <1>2, <1>4, <2>1, InsertSteps
  <2>2. CASE /\ NextRoot(a) \notin Roots((rows \ deleted[a]) \cup inserted[a])
             /\ inserted' = [inserted EXCEPT ![a] = inserted[a] \cup {Added(a)}]
    <3>1. /\ Added(a).root = NextRoot(a) /\ UNCHANGED <<rows, deleted>>
          /\ request[a].pc = "insert" /\ request[a].list # <<>>
      BY <1>4, InsertSteps
    <3>2. /\ inserted'[a] = inserted[a] \cup {Added(a)}
          /\ \A c \in Admin \ {a} : inserted'[c] = inserted[c]
      BY <1>0, <2>2
    <3>3. /\ NextRoot(a) \notin Roots(rows \ deleted[a])
          /\ NextRoot(a) \notin Roots(inserted[a])
      BY <2>2, RootsOf
    <3>4. \A c \in Admin \ {a} : NextRoot(a) \notin Roots(inserted[c])
      BY <1>4, <3>1, RootsOf DEF Insert, Free, WaitsFor
    <3>5. Roots({Added(a)}) = {NextRoot(a)}
      BY <3>1 DEF Roots
    <3>6. Roots(inserted'[a]) = Roots(inserted[a]) \cup {NextRoot(a)}
      BY <3>2, <3>5, RootsOf
    <3>7. Distinct(inserted'[a])
      BY <3>1, <3>2, <3>3, RootsOf DEF Exclusive, Distinct
    <3>8. Roots(inserted'[a]) \cap Roots(rows \ deleted[a]) = {}
      BY <3>3, <3>6 DEF Exclusive
    <3>9. \A c, d \in Admin : c # d => Roots(inserted'[c]) \cap Roots(inserted'[d]) = {}
      <4>1. \A c, d \in Admin : c # d => Roots(inserted[c]) \cap Roots(inserted[d]) = {}
        BY DEF Exclusive
      <4>2. \A c \in Admin \ {a} : Roots(inserted'[c]) = Roots(inserted[c])
        BY <3>2
      <4>3. \A c \in Admin \ {a} : Roots(inserted[c]) \cap Roots(inserted'[a]) = {}
        BY <3>4, <3>6, <4>1
      <4>4. QED
        BY <4>1, <4>2, <4>3
    <3>10. \A c \in Admin : /\ Distinct(inserted'[c])
                            /\ Roots(inserted'[c]) \cap Roots(rows \ deleted[c]) = {}
      BY <3>2, <3>7, <3>8 DEF Exclusive
    <3>11. QED
      BY <3>1, <3>9, <3>10 DEF Exclusive
  <2>3. QED
    BY <1>4, <2>1, <2>2, InsertSteps
<1>5. ASSUME NEW a \in Admin, Fails(a) \/ Deadlocked(a)
      PROVE  Exclusive'
  <2>1. /\ deleted'[a] = {} /\ inserted'[a] = {} /\ UNCHANGED rows
        /\ \A c \in Admin \ {a} : deleted'[c] = deleted[c] /\ inserted'[c] = inserted[c]
    BY <1>0, <1>5, RollbackSteps
  <2>2. \A c \in Admin : /\ deleted'[c] \subseteq rows /\ Distinct(inserted'[c])
                         /\ Roots(inserted'[c]) \cap Roots(rows \ deleted'[c]) = {}
    <3>1. Distinct({}) /\ Roots({}) = {}
      BY RootsOf DEF Distinct
    <3>2. QED
      BY <2>1, <3>1 DEF Exclusive
  <2>3. \A c, d \in Admin : c # d => /\ deleted'[c] \cap deleted'[d] = {}
                                    /\ Roots(inserted'[c]) \cap Roots(inserted'[d]) = {}
    BY <2>1, RootsOf DEF Exclusive
  <2>4. QED
    BY <2>1, <2>2, <2>3 DEF Exclusive
<1>6. ASSUME NEW a \in Admin, Commit(a)
      PROVE  Exclusive'
  <2>1. /\ deleted'[a] = {} /\ inserted'[a] = {}
        /\ rows' = (rows \ deleted[a]) \cup inserted[a]
        /\ \A c \in Admin \ {a} : deleted'[c] = deleted[c] /\ inserted'[c] = inserted[c]
    BY <1>0, <1>6, CommitSteps
  <2>2. Distinct(rows')
    <3>1. ASSUME NEW r1 \in rows', NEW r2 \in rows', r1.root = r2.root
          PROVE  r1 = r2
      <4>1. CASE r1 \in rows \ deleted[a] /\ r2 \in rows \ deleted[a]
        BY <3>1, <4>1 DEF Exclusive, Distinct
      <4>2. CASE r1 \in inserted[a] /\ r2 \in inserted[a]
        BY <3>1, <4>2 DEF Exclusive, Distinct
      <4>3. CASE \/ r1 \in rows \ deleted[a] /\ r2 \in inserted[a]
                 \/ r1 \in inserted[a] /\ r2 \in rows \ deleted[a]
        <5>1. r1.root \in Roots(inserted[a]) /\ r1.root \in Roots(rows \ deleted[a])
          BY <3>1, <4>3, RootsOf
        <5>2. QED
          BY <5>1 DEF Exclusive
      <4>4. QED
        BY <2>1, <4>1, <4>2, <4>3
    <3>2. QED
      BY <3>1 DEF Distinct
  <2>3. ASSUME NEW c \in Admin \ {a}
        PROVE  /\ deleted[c] \subseteq rows'
               /\ Roots(inserted[c]) \cap Roots(rows' \ deleted[c]) = {}
    <3>1. deleted[c] \subseteq rows /\ deleted[c] \cap deleted[a] = {}
      BY DEF Exclusive
    <3>2. rows' \ deleted[c] \subseteq (rows \ deleted[c]) \cup inserted[a]
      BY <2>1
    <3>3. Roots(rows' \ deleted[c]) \subseteq Roots(rows \ deleted[c]) \cup Roots(inserted[a])
      BY <3>2 DEF Roots
    <3>4. deleted[c] \subseteq rows'
      BY <2>1, <3>1
    <3>5. /\ Roots(inserted[c]) \cap Roots(rows \ deleted[c]) = {}
          /\ Roots(inserted[c]) \cap Roots(inserted[a]) = {}
      BY DEF Exclusive
    <3>6. QED
      BY <3>3, <3>4, <3>5
  <2>4. \A c \in Admin : /\ deleted'[c] \subseteq rows' /\ Distinct(inserted'[c])
                         /\ Roots(inserted'[c]) \cap Roots(rows' \ deleted'[c]) = {}
    <3>1. Distinct({}) /\ Roots({}) = {}
      BY RootsOf DEF Distinct
    <3>2. \A c \in Admin : Distinct(inserted[c])
      BY DEF Exclusive
    <3>3. QED
      BY <2>1, <2>3, <3>1, <3>2
  <2>5. \A c, d \in Admin : c # d => /\ deleted'[c] \cap deleted'[d] = {}
                                    /\ Roots(inserted'[c]) \cap Roots(inserted'[d]) = {}
    BY <2>1, RootsOf DEF Exclusive
  <2>6. QED
    BY <2>2, <2>4, <2>5 DEF Exclusive
<1>7. ASSUME NEW p \in Poster,
             (\E path \in Path : Authenticate(p, path)) \/ ValidateMeasPath(p) \/ Declare(p)
      PROVE  Exclusive'
  BY <1>2, <1>7, PostSteps
<1>8. QED
  BY <1>1, <1>2, <1>3, <1>4, <1>5, <1>6, <1>7, QuietSteps DEF Next, Step

LEMMA AccountedNext ==
  ASSUME Typed, Unregistered, Exclusive, Accounted, Next
  PROVE  Accounted'
<1>0. /\ deleted \in [Admin -> SUBSET Row] /\ inserted \in [Admin -> SUBSET Row]
      /\ request \in [Admin -> Request]
      /\ \A c \in Admin : Fit(request[c], deleted[c], inserted[c], serial)
  BY DEF Typed
<1> DEFINE Holds(r, gone, new, present) ==
             /\ Roots(new) \subseteq r.wants
             /\ r.pc = "delete" => Roots(present \ r.saw) \subseteq r.during
             /\ r.pc = "insert" => Roots(present \ gone) \subseteq r.during
<1>1. \A c \in Admin : Holds(request[c], deleted[c], inserted[c], rows)
  BY DEF Accounted
<1>2. ASSUME Roots(rows') \subseteq asked',
             \A c \in Admin : Holds(request'[c], deleted'[c], inserted'[c], rows')
      PROVE  Accounted'
  BY <1>2 DEF Accounted
<1> HIDE DEF Holds
<1>3. ASSUME NEW a \in Admin, NEW list \in RootList, Register(a, list)
      PROVE  Accounted'
  <2>1. ASSUME NEW c \in Admin
        PROVE  Holds(request'[c], deleted'[c], inserted'[c], rows')
    <3>1. request'[c].pc = "idle" /\ inserted'[c] = {}
      BY <1>3, RegisterSteps
    <3>2. QED
      BY <3>1, RootsOf DEF Holds
  <2>2. QED
    BY <1>2, <1>3, <2>1, RegisterSteps
<1>4. ASSUME NEW a \in Admin,
             \/ RotateKey(a)
             \/ \E enable \in BOOLEAN \cup {None}, list \in RootList \cup {None} :
                  PatchAgent(a, enable, list)
             \/ SetEnabled(a)
             \/ BeginDelete(a)
      PROVE  Accounted'
  <2>1. /\ UNCHANGED <<rows, deleted, inserted, asked>>
        /\ \A c \in Admin \ {a} : request'[c] = request[c]
    BY <1>4, QuietSteps
  <2>2. Holds(request'[a], deleted[a], inserted[a], rows)
    <3>1. CASE request'[a] = request[a]
      BY <1>1, <3>1
    <3>2. CASE inserted[a] = {} /\ request'[a].pc \in {"idle", "enable", "begin"}
      BY <3>2, RootsOf DEF Holds
    <3>3. CASE inserted[a] = {} /\ request'[a].pc = "delete" /\ request'[a].saw = rows
      <4>1. rows \ rows = {}
        OBVIOUS
      <4>2. QED
        BY <3>3, <4>1, RootsOf DEF Holds
    <3>4. QED
      BY <1>4, <3>1, <3>2, <3>3, QuietSteps
  <2>3. QED
    BY <1>1, <1>2, <2>1, <2>2 DEF Accounted
<1>5. ASSUME NEW a \in Admin, Delete(a)
      PROVE  Accounted'
  <2>1. /\ request[a].pc = "delete" /\ inserted[a] = {}
        /\ request' = [request EXCEPT ![a] = [request[a] EXCEPT !.pc = "insert"]]
        /\ deleted'[a] = request[a].saw \cap rows
        /\ \A c \in Admin \ {a} : deleted'[c] = deleted[c]
        /\ UNCHANGED <<rows, inserted, asked>>
    BY <1>0, <1>5, DeleteSteps
  <2>2. /\ request'[a].pc = "insert" /\ request'[a].during = request[a].during
        /\ \A c \in Admin \ {a} : request'[c] = request[c]
    BY <1>0, <2>1 DEF Request
  <2>3. rows \ (request[a].saw \cap rows) = rows \ request[a].saw
    OBVIOUS
  <2>4. Roots(rows \ deleted'[a]) \subseteq request'[a].during
    BY <1>1, <2>1, <2>2, <2>3 DEF Holds
  <2>5. Holds(request'[a], deleted'[a], inserted'[a], rows)
    BY <2>1, <2>2, <2>4, RootsOf DEF Holds
  <2>6. QED
    BY <1>1, <1>2, <2>1, <2>2, <2>5, ZenonT(40) DEF Accounted
<1>6. ASSUME NEW a \in Admin, Insert(a)
      PROVE  Accounted'
  <2>1. /\ request[a].pc = "insert" /\ NextRoot(a) \in request[a].wants
        /\ Added(a).root = NextRoot(a)
        /\ request' = [request EXCEPT ![a] = [request[a] EXCEPT !.list = Tail(request[a].list)]]
        /\ UNCHANGED <<rows, deleted, asked>>
    BY <1>6, InsertSteps
  <2>2. /\ request'[a].pc = "insert" /\ request'[a].during = request[a].during
        /\ request'[a].wants = request[a].wants
        /\ \A c \in Admin \ {a} : request'[c] = request[c]
    BY <1>0, <2>1 DEF Request
  <2>3. \/ inserted' = inserted
        \/ inserted' = [inserted EXCEPT ![a] = inserted[a] \cup {Added(a)}]
    BY <1>6, InsertSteps
  <2>4. /\ inserted'[a] \subseteq inserted[a] \cup {Added(a)}
        /\ \A c \in Admin \ {a} : inserted'[c] = inserted[c]
    BY <1>0, <2>3
  <2>5. Roots(inserted'[a]) \subseteq request[a].wants
    <3>1. Roots(inserted[a]) \subseteq request[a].wants
      BY <1>1 DEF Holds
    <3>2. QED
      BY <2>1, <2>4, <3>1 DEF Roots
  <2>6. Holds(request'[a], deleted[a], inserted'[a], rows)
    BY <1>1, <2>1, <2>2, <2>5 DEF Holds
  <2>7. QED
    BY <1>1, <1>2, <2>1, <2>2, <2>4, <2>6, ZenonT(40) DEF Accounted
<1>7. ASSUME NEW a \in Admin, Fails(a) \/ Deadlocked(a)
      PROVE  Accounted'
  <2>1. /\ request'[a] = NoRequest /\ inserted'[a] = {} /\ UNCHANGED <<rows, asked>>
        /\ \A c \in Admin \ {a} : /\ request'[c] = request[c] /\ deleted'[c] = deleted[c]
                                  /\ inserted'[c] = inserted[c]
    BY <1>0, <1>7, RollbackSteps
  <2>2. Holds(request'[a], deleted'[a], inserted'[a], rows)
    BY <2>1, RootsOf, NoRequestTyped DEF Holds
  <2>3. QED
    BY <1>1, <1>2, <2>1, <2>2 DEF Accounted
<1>8. ASSUME NEW a \in Admin, Commit(a)
      PROVE  Accounted'
  <2>1. /\ request[a].pc = "insert" /\ request'[a] = NoRequest
        /\ rows' = (rows \ deleted[a]) \cup inserted[a]
        /\ asked' = request[a].wants \cup request[a].during
        /\ deleted'[a] = {} /\ inserted'[a] = {}
        /\ \A c \in Admin \ {a} : deleted'[c] = deleted[c] /\ inserted'[c] = inserted[c]
    BY <1>0, <1>8, CommitSteps
  <2>2. Roots(inserted[a]) \subseteq request[a].wants
        /\ Roots(rows \ deleted[a]) \subseteq request[a].during
    BY <1>1, <2>1 DEF Holds
  <2>3. Roots(rows') \subseteq asked'
    BY <2>1, <2>2, RootsOf
  <2>4. Holds(request'[a], deleted'[a], inserted'[a], rows')
    BY <2>1, RootsOf, NoRequestTyped DEF Holds
  <2>5. ASSUME NEW c \in Admin \ {a}
        PROVE  Holds(request'[c], deleted[c], inserted[c], rows')
    <3>1. /\ request'[c].pc = request[c].pc /\ request'[c].wants = request[c].wants
          /\ request'[c].saw = request[c].saw
          /\ request[c].pc \in {"delete", "insert"} =>
               request'[c].during = request[c].during \cup request[a].wants
      BY <1>8, CommitSteps
    <3>2. \A set : Roots(rows' \ set) \subseteq Roots(rows \ set) \cup Roots(inserted[a])
      BY <2>1 DEF Roots
    <3>3. \A set : Roots(rows \ set) \subseteq request[c].during =>
                   Roots(rows' \ set) \subseteq request[c].during \cup request[a].wants
      BY <2>2, <3>2
    <3>4. QED
      BY <1>1, <3>1, <3>3 DEF Holds
  <2>6. QED
    BY <1>2, <2>1, <2>3, <2>4, <2>5
<1>9. ASSUME NEW p \in Poster,
             (\E path \in Path : Authenticate(p, path)) \/ ValidateMeasPath(p) \/ Declare(p)
      PROVE  Accounted'
  BY <1>9, PostSteps DEF Accounted
<1>10. QED
  BY <1>3, <1>4, <1>5, <1>6, <1>7, <1>8, <1>9 DEF Next, Step

LEMMA AdmittedNext ==
  ASSUME Typed, Unregistered, Accounted, Admitted, Next
  PROVE  Admitted'
<1>0. post \in [Poster -> Posted]
  BY DEF Typed
<1>1. ASSUME NEW a \in Admin, NEW list \in RootList, Register(a, list)
      PROVE  Admitted'
  BY <1>1, RegisterSteps DEF Admitted
<1>2. ASSUME UNCHANGED <<rows, post>>
      PROVE  Admitted'
  BY <1>2 DEF Admitted
<1>3. ASSUME NEW a \in Admin, Commit(a)
      PROVE  Admitted'
  <2>1. rows' = (rows \ deleted[a]) \cup inserted[a]
    BY <1>3, CommitSteps
  <2>2. Roots(inserted[a]) \subseteq request[a].wants
    BY DEF Accounted
  <2>3. Roots(rows') \subseteq Roots(rows) \cup request[a].wants
    BY <2>1, <2>2 DEF Roots
  <2>4. ASSUME NEW q \in Poster
        PROVE  /\ post'[q].pc = post[q].pc /\ post'[q].path = post[q].path
               /\ post[q].pc # "idle" => post'[q].since = post[q].since \cup request[a].wants
    BY <1>3, CommitSteps
  <2>5. QED
    BY <2>3, <2>4 DEF Admitted
<1>4. ASSUME NEW p \in Poster,
             (\E path \in Path : Authenticate(p, path)) \/ ValidateMeasPath(p) \/ Declare(p)
      PROVE  Admitted'
  <2>1. /\ UNCHANGED <<rows, asked>>
        /\ \A q \in Poster \ {p} : post'[q] = post[q]
        /\ post'[p].pc # "idle" => post'[p].since = IF post[p].pc = "path" THEN post[p].since
                                                    ELSE asked
    BY <1>4, PostSteps
  <2>2. post'[p].pc # "idle" => Roots(rows) \subseteq post'[p].since
    BY <2>1 DEF Accounted, Admitted
  <2>3. ASSUME post'[p].pc = "declare"
        PROVE  \E root \in post'[p].since : Below(post'[p].path, root)
    <3>1. post[p].pc = "path" /\ \E root \in Roots(rows) : ResolveUnderRoot(post[p].path, root)
          /\ post' = [post EXCEPT ![p].pc = "declare"]
      BY <1>0, <1>4, <2>3, NoPostTyped DEF Authenticate, ValidateMeasPath, Declare, Refused
    <3>2. PICK root \in Roots(rows) : ResolveUnderRoot(post[p].path, root)
      BY <3>1
    <3>3. Below(post[p].path, root)
      BY <3>2 DEF ResolveUnderRoot, Below
    <3>4. post'[p].path = post[p].path /\ post'[p].since = post[p].since
      BY <1>0, <3>1 DEF Posted
    <3>5. root \in post'[p].since
      BY <2>1, <2>2, <2>3
    <3>6. QED
      BY <3>3, <3>4, <3>5
  <2>4. QED
    BY <2>1, <2>2, <2>3 DEF Admitted
<1>5. ASSUME NEW a \in Admin, Delete(a) \/ Insert(a) \/ Fails(a) \/ Deadlocked(a)
      PROVE  Admitted'
  BY <1>2, <1>5, DeleteSteps, InsertSteps, RollbackSteps
<1>6. QED
  BY <1>1, <1>2, <1>3, <1>4, <1>5, QuietSteps DEF Next, Step

-----------------------------------------------------------------------------
LEMMA InvInit ==
  ASSUME Init
  PROVE  Inv
<1> USE AgentsConstantsOK DEF Init
<1>1. \A a \in Admin : request[a] = NoRequest /\ deleted[a] = {} /\ inserted[a] = {}
  OBVIOUS
<1>2. Fit(NoRequest, {}, {}, 0)
  BY DEF Fit, NoRequest
<1>3. Typed
  <2>1. /\ request \in [Admin -> Request] /\ post \in [Poster -> Posted]
        /\ deleted \in [Admin -> SUBSET Row] /\ inserted \in [Admin -> SUBSET Row]
    BY NoRequestTyped, NoPostTyped
  <2>2. \A a \in Admin : Fit(request[a], deleted[a], inserted[a], serial)
    BY <1>1, <1>2
  <2>3. serial \in 0 .. MaxRequests /\ lost \in 0 .. MaxLost
    OBVIOUS
  <2>4. QED
    BY <2>1, <2>2, <2>3 DEF Typed
<1>4. Unregistered
  BY <1>1, NoRequestTyped, NoPostTyped DEF Unregistered
<1>5. Exclusive
  BY <1>1, RootsOf DEF Exclusive, Distinct
<1>6. Accounted
  BY <1>1, NoRequestTyped, RootsOf DEF Accounted
<1>7. Admitted
  BY NoPostTyped DEF Admitted
<1>8. QED
  BY <1>3, <1>4, <1>5, <1>6, <1>7 DEF Inv

LEMMA InvNext ==
  ASSUME Inv, [Next]_vars
  PROVE  Inv'
<1>1. CASE Next
  BY <1>1, TypedNext, UnregisteredNext, ExclusiveNext, AccountedNext, AdmittedNext DEF Inv
<1>2. CASE UNCHANGED vars
  <2>1. Typed' /\ Unregistered'
    BY <1>2 DEF Inv, Typed, Unregistered, vars
  <2>2. Exclusive' /\ Accounted' /\ Admitted'
    BY <1>2 DEF Inv, Exclusive, Accounted, Admitted, vars
  <2>3. QED
    BY <2>1, <2>2 DEF Inv
<1>3. QED
  BY <1>1, <1>2

LEMMA Invariance == Spec => []Inv
BY InvInit, InvNext, PTL DEF Spec

\* The rows, requests and transactions are well formed; a transaction deletes only
\* rows that are there, and the UNIQUE constraint of agent_allowed_roots holds of
\* what is committed, however the replacements overlap (SetAllowedRoots).
THEOREM TypeCorrect == Spec => []TypeOK
<1>1. Inv => TypeOK
  <2>1. SUFFICES ASSUME Inv PROVE TypeOK
    OBVIOUS
  <2>2. ASSUME NEW a \in Admin
        PROVE  /\ request[a].pc \in {"idle", "enable", "begin", "delete", "insert"}
               /\ request[a].enable \in BOOLEAN \cup {None}
               /\ request[a].saw \subseteq Row
               /\ request[a].by \in 0 .. serial
               /\ deleted[a] \subseteq rows
               /\ inserted[a] \subseteq Row
    <3>1. request[a] \in Request /\ request[a].by \in 0 .. serial /\ inserted[a] \subseteq Row
      BY <2>1 DEF Inv, Typed, Fit
    <3>2. deleted[a] \subseteq rows
      BY <2>1 DEF Inv, Exclusive
    <3>3. QED
      BY <3>1, <3>2 DEF Request
  <2>3. \A r1, r2 \in rows : r1.root = r2.root => r1 = r2
    BY <2>1 DEF Inv, Exclusive, Distinct
  <2>4. QED
    BY <2>1, <2>2, <2>3, RootFacts DEF Inv, Typed, Posted, TypeOK
<1>2. QED
  BY <1>1, Invariance, PTL

\* However many PATCH requests replace the roots at the same time, and wherever
\* they wait, fail or deadlock, a root that none of the last of them asked for is
\* gone: DELETE takes every row committed before its snapshot, and INSERT adds
\* nothing but the list of its own request (SetAllowedRoots).
THEOREM RevokedStaysGone == Spec => []RevokedIsGone
<1>1. Inv => RevokedIsGone
  BY DEF Inv, Accounted, RevokedIsGone
<1>2. QED
  BY <1>1, Invariance, PTL

\* The key and the roots of an agent are read by two queries (Authenticate, then
\* ValidateMeasPath): what is declared in the end lies below a root that was in
\* force when the key was checked or came into force later.
THEOREM AdmissionsAreCurrent == Spec => []AdmissionIsCurrent
<1>1. Inv => AdmissionIsCurrent
  BY DEF Inv, Admitted, AdmissionIsCurrent
<1>2. QED
  BY <1>1, Invariance, PTL
=============================================================================
