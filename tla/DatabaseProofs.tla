--------------------------- MODULE DatabaseProofs ---------------------------
(***************************************************************************)
(* Theorems about the two protocols that the other components rely on and  *)
(* that processes follow on rows of the database: StateMachine, for every  *)
(* set of runs and actors, and JobQueue, for every set of keys and workers.*)
(***************************************************************************)
EXTENDS Integers, StateMachine, JobQueue, SequenceTheorems, FiniteSetTheorems,
        WellFoundedInduction, TLAPS

(***************************************************************************)
(* The Go map and the SQL table have the same edges (the repository checks *)
(* this at run time in internal/statemachine/parity_test.go).              *)
(***************************************************************************)
THEOREM TablesAgree ==
  \A from, to \in RunState :
    CanTransition(from, to) <=> <<from, to>> \in AllowedTransitions
<1> SUFFICES ASSUME NEW from \in RunState, NEW to \in RunState
             PROVE  to \in Allowed[from] <=> <<from, to>> \in AllowedTransitions
  BY DEF CanTransition
<1>1. QED
  BY SMTT(60) DEF RunState, Allowed, AllowedTransitions

LEMMA LegalIsAllowed ==
  ASSUME NEW a, NEW from \in RunState, NEW to \in RunState, Legal(a, from, to)
  PROVE  CanTransition(from, to)
BY TablesAgree DEF Legal


Open(t) ==
  /\ t.step \in {"read", "written"}
  /\ t.run \in Run
  /\ t.request \in Request
  /\ t.current \in RunState

LEMMA TxnFields ==
  ASSUME NEW t \in Txn
  PROVE  /\ t # NoTxn => Open(t)
         /\ t.step = "none" <=> t = NoTxn
         /\ t # NoTxn => [t EXCEPT !.step = "written"] \in Txn
BY DEF Txn, NoTxn, Open

(***************************************************************************)
(* Type correctness.                                                       *)
(***************************************************************************)
THEOREM RunsTypeCorrect == RunsSpec => []RunsTypeOK
<1>1. RunsInit => RunsTypeOK
  BY DEF RunsInit, RunsTypeOK, Txn
<1>2. RunsTypeOK /\ [RunsNext]_runsVars => RunsTypeOK'
  <2> SUFFICES ASSUME RunsTypeOK, [RunsNext]_runsVars
               PROVE  RunsTypeOK'
    OBVIOUS
  <2> USE DEF RunsTypeOK
  <2>1. ASSUME NEW r \in Run, NEW a \in Actor, NEW q \in Request, LockRow(a, r, q)
        PROVE  RunsTypeOK'
    <3>1. [step |-> "read", run |-> r, request |-> q, current |-> state[r]] \in Txn
      BY DEF Txn
    <3>2. QED
      BY <2>1, <3>1 DEF LockRow
  <2>2. ASSUME NEW a \in Actor, Apply(a)
        PROVE  RunsTypeOK'
    <3>1. [txn[a] EXCEPT !.step = "written"] \in Txn
      BY <2>2, TxnFields DEF Apply, NoTxn
    <3>2. txn' = [txn EXCEPT ![a] = [txn[a] EXCEPT !.step = "written"]]
      BY <2>2 DEF Apply
    <3>3. QED
      BY <2>2, <3>1, <3>2 DEF Apply
  <2>3. ASSUME NEW a \in Actor, Commit(a)
        PROVE  RunsTypeOK'
    <3>1. Open(txn[a])
      BY <2>3, TxnFields DEF Commit, NoTxn
    <3>2. /\ txn[a].run \in Run
          /\ txn[a].request[2] \in RunState
          /\ <<txn[a].current, txn[a].request[2]>> \in RunState \X RunState
      BY <3>1 DEF Open, Request
    <3>3. Append(audit[txn[a].run], <<txn[a].current, txn[a].request[2]>>)
            \in Seq(RunState \X RunState)
      BY <3>2
    <3>4. QED
      BY <2>3, <3>2, <3>3 DEF Commit, Txn
  <2>4. ASSUME NEW a \in Actor, Rollback(a)
        PROVE  RunsTypeOK'
    BY <2>4 DEF Rollback, Txn
  <2>5. CASE UNCHANGED runsVars
    BY <2>5 DEF runsVars
  <2>6. QED
    BY <2>1, <2>2, <2>3, <2>4, <2>5, RequestsOK DEF RunsNext, Actor
<1>3. QED
  BY <1>1, <1>2, PTL DEF RunsSpec

(***************************************************************************)
(* The row lock makes what a transaction read still true when it commits.  *)
(***************************************************************************)
THEOREM TransactionsIsolated == RunsSpec => []TxnInv
<1>1. RunsInit => TxnInv
  BY DEF RunsInit, TxnInv
<1>2. RunsTypeOK /\ TxnInv /\ [RunsNext]_runsVars => TxnInv'
  <2> SUFFICES ASSUME RunsTypeOK, TxnInv, [RunsNext]_runsVars
               PROVE  TxnInv'
    OBVIOUS
  <2> USE DEF RunsTypeOK, TxnInv
  <2>0. \A a \in Actor : /\ txn[a] # NoTxn => Open(txn[a])
                         /\ txn[a].step = "none" <=> txn[a] = NoTxn
    BY TxnFields
  <2>1. ASSUME NEW r \in Run, NEW a \in Actor, NEW q \in Request, LockRow(a, r, q)
        PROVE  TxnInv'
    <3>1. \A b \in Actor : txn[b] # NoTxn => txn[b].run # r
      BY <2>1, ActorsOK DEF LockRow, Actor
    <3>2. QED
      BY <2>0, <2>1, <3>1 DEF LockRow, Open
  <2>2. ASSUME NEW a \in Actor, Apply(a)
        PROVE  TxnInv'
    <3>1. Open(txn[a])
      BY <2>0, <2>2 DEF Apply
    <3>2. CanTransition(txn[a].current, txn[a].request[2])
      BY <2>2, <3>1, LegalIsAllowed DEF Apply, Open, Request
    <3>3. /\ txn'[a].run = txn[a].run
          /\ txn'[a].current = txn[a].current
          /\ txn'[a].request = txn[a].request
          /\ \A b \in Actor \ {a} : txn'[b] = txn[b]
      BY <2>2, <3>1 DEF Apply, Open
    <3>4. QED
      BY <2>0, <2>2, <3>2, <3>3 DEF Apply
  <2>3. ASSUME NEW a \in Actor, Commit(a) \/ Rollback(a)
        PROVE  TxnInv'
    <3>1. txn[a] # NoTxn /\ Open(txn[a])
      BY <2>0, <2>3 DEF Commit, Rollback
    <3>2. \A b \in Actor \ {a} : txn[b] # NoTxn => txn[b].run # txn[a].run
      BY <3>1
    <3>3. /\ txn'[a] = NoTxn
          /\ \A b \in Actor \ {a} : txn'[b] = txn[b]
          /\ \A r \in Run \ {txn[a].run} :
               state'[r] = state[r] /\ rowLock'[r] = rowLock[r]
      BY <2>3 DEF Commit, Rollback
    <3>4. QED
      BY <2>0, <3>2, <3>3 DEF Open
  <2>4. CASE UNCHANGED runsVars
    BY <2>4 DEF runsVars
  <2>5. QED
    BY <2>1, <2>2, <2>3, <2>4, RequestsOK DEF RunsNext, Actor
<1>3. QED
  BY <1>1, <1>2, RunsTypeCorrect, PTL DEF RunsSpec

(***************************************************************************)
(* Concurrent transactions implement atomic transitions.                   *)
(***************************************************************************)
LEMMA SameGraph ==
  /\ RunsLifecycle!RunState = RunState
  /\ \A from, to : RunsLifecycle!CanTransition(from, to) <=> CanTransition(from, to)
<1>1. RunsLifecycle!RunState = RunState
  BY DEF RunsLifecycle!RunState, RunState
<1>2. RunsLifecycle!Allowed = Allowed
  BY <1>1 DEF RunsLifecycle!Allowed, Allowed
<1>3. QED
  BY <1>1, <1>2 DEF RunsLifecycle!CanTransition, CanTransition

LEMMA RunStepRefines ==
  ASSUME RunsTypeOK, TxnInv, [RunsNext]_runsVars
  PROVE  [RunsLifecycle!Next]_<<state, audit>>
<1>1. ASSUME NEW a \in Actor, Commit(a)
      PROVE  RunsLifecycle!Next
  <2>1. Open(txn[a]) /\ txn[a] # NoTxn
    BY <1>1, TxnFields DEF Commit, RunsTypeOK, NoTxn
  <2>2. /\ txn[a].run \in Run
        /\ txn[a].request[2] \in RunState
        /\ txn[a].current = state[txn[a].run]
        /\ CanTransition(txn[a].current, txn[a].request[2])
    BY <1>1, <2>1 DEF Open, Request, TxnInv, Commit
  <2>3. RunsLifecycle!Move(txn[a].run, txn[a].request[2])
    BY <1>1, <2>2, SameGraph DEF Commit, RunsLifecycle!Move
  <2>4. QED
    BY <2>2, <2>3, SameGraph DEF RunsLifecycle!Next
<1>2. /\ \A a, r, q : LockRow(a, r, q) => UNCHANGED <<state, audit>>
      /\ \A a : Apply(a) \/ Rollback(a) => UNCHANGED <<state, audit>>
  BY DEF LockRow, Apply, Rollback
<1>3. CASE UNCHANGED runsVars
  BY <1>3 DEF runsVars
<1>4. QED
  BY <1>1, <1>2, <1>3 DEF RunsNext

THEOREM RunsImplementLifecycle == RunsSpec => ImplementsRunLifecycle
<1>1. RunsInit => RunsLifecycle!Init
  BY SameGraph DEF RunsInit, RunsLifecycle!Init
<1>2. RunsTypeOK /\ TxnInv /\ [RunsNext]_runsVars => [RunsLifecycle!Next]_(RunsLifecycle!vars)
  BY RunStepRefines DEF RunsLifecycle!vars
<1>3. QED
  BY <1>1, <1>2, RunsTypeCorrect, TransactionsIsolated, PTL
     DEF RunsSpec, ImplementsRunLifecycle, RunsLifecycle!Spec

(***************************************************************************)
(* The audit log is a path of legal edges that ends in the current state.  *)
(***************************************************************************)
LEMMA PathExtends ==
  ASSUME NEW log \in Seq(RunState \X RunState),
         NEW from \in RunState, NEW to \in RunState,
         PathToState(log, from), CanTransition(from, to)
  PROVE  PathToState(Append(log, <<from, to>>), to)
<1> DEFINE n == Len(log)
           edge == <<from, to>>
           new == Append(log, edge)
<1>1. n \in Nat /\ edge[1] = from /\ edge[2] = to /\ edge \in RunState \X RunState
  OBVIOUS
<1>2. /\ Len(new) = n + 1
      /\ new[n + 1] = edge
      /\ \A i \in 1 .. n : new[i] = log[i]
  BY <1>1, AppendProperties
<1>3. /\ \A i \in 1 .. n : CanTransition(log[i][1], log[i][2])
      /\ \A i \in 1 .. n - 1 : log[i + 1][1] = log[i][2]
      /\ n > 0 => log[n][2] = from
  BY DEF PathToState
<1> HIDE DEF n, edge, new
<1>4. \A i \in 1 .. n + 1 : CanTransition(new[i][1], new[i][2])
  <2>1. \A i \in 1 .. n + 1 : i \in 1 .. n \/ i = n + 1
    BY <1>1
  <2>2. QED
    BY <1>1, <1>2, <1>3, <2>1
<1>5. \A i \in 1 .. n : new[i + 1][1] = new[i][2]
  <2>1. \A i \in 1 .. n : (i \in 1 .. n - 1 /\ i + 1 \in 1 .. n) \/ (i = n /\ n > 0)
    BY <1>1
  <2>2. QED
    BY <1>1, <1>2, <1>3, <2>1
<1>6. (n + 1) - 1 = n
  BY <1>1
<1>7. PathToState(new, to)
  BY <1>1, <1>2, <1>4, <1>5, <1>6 DEF PathToState
<1>8. QED
  BY <1>7 DEF new, edge

THEOREM AuditIsAPath == RunsSpec => []AuditIsPath
<1>1. RunsInit => AuditIsPath
  BY DEF RunsInit, AuditIsPath, PathToState
<1>2. RunsTypeOK /\ TxnInv /\ AuditIsPath /\ [RunsNext]_runsVars => AuditIsPath'
  <2> SUFFICES ASSUME RunsTypeOK, TxnInv, AuditIsPath, [RunsNext]_runsVars
               PROVE  AuditIsPath'
    OBVIOUS
  <2>1. CASE RunsLifecycle!Next
    <3>1. PICK r \in Run, to \in RunState : RunsLifecycle!Move(r, to)
      BY <2>1, SameGraph DEF RunsLifecycle!Next
    <3>2. /\ audit'[r] = Append(audit[r], <<state[r], to>>)
          /\ state'[r] = to
          /\ CanTransition(state[r], to)
          /\ \A q \in Run \ {r} : audit'[q] = audit[q] /\ state'[q] = state[q]
      BY <3>1, SameGraph DEF RunsLifecycle!Move, RunsTypeOK
    <3>3. /\ audit[r] \in Seq(RunState \X RunState)
          /\ state[r] \in RunState
          /\ PathToState(audit[r], state[r])
      BY DEF RunsTypeOK, AuditIsPath
    <3>4. PathToState(audit'[r], state'[r])
      BY <3>2, <3>3, PathExtends
    <3>5. QED
      BY <3>2, <3>4 DEF AuditIsPath
  <2>2. CASE UNCHANGED <<state, audit>>
    BY <2>2 DEF AuditIsPath
  <2>3. QED
    BY <2>1, <2>2, RunStepRefines
<1>3. QED
  BY <1>1, <1>2, RunsTypeCorrect, TransactionsIsolated, PTL DEF RunsSpec

(***************************************************************************)
(* No run is trapped.                                                      *)
(***************************************************************************)

\* The number of steps from a state to published.
Depth == [s \in RunState \ Halt |->
  CASE s = "published"                                               -> 0
    [] s = "publishing"                                              -> 1
    [] s = "approved"                                                -> 2
    [] s = "awaiting_review"                                         -> 3
    [] s \in {"processing", "changes_requested"}                     -> 4
    [] s \in {"validated", "processing_failed", "quarantined"}       -> 5
    [] s = "parsing"                                                 -> 6
    [] s \in {"promoted", "needs_metadata", "parser_failed"}         -> 7
    [] s = "verified"                                                -> 8
    [] s = "unpacked"                                                -> 9
    [] s = "pulling"                                                 -> 10
    [] OTHER                                                         -> 11]

\* The first of those steps.
Onward == [s \in RunState \ Halt |->
  CASE s \in {"declared", "transfer_failed", "manifest_mismatch"}    -> "pulling"
    [] s = "pulling"                                                 -> "unpacked"
    [] s = "unpacked"                                                -> "verified"
    [] s = "verified"                                                -> "promoted"
    [] s \in {"promoted", "needs_metadata", "parser_failed"}         -> "parsing"
    [] s = "parsing"                                                 -> "validated"
    [] s \in {"validated", "processing_failed", "quarantined"}       -> "processing"
    [] s \in {"processing", "changes_requested"}                     -> "awaiting_review"
    [] s = "awaiting_review"                                         -> "approved"
    [] s = "approved"                                                -> "publishing"
    [] OTHER                                                         -> "published"]

Within(n) == {s \in RunState \ Halt : Depth[s] <= n}

LEMMA DepthRange ==
  /\ Depth \in [RunState \ Halt -> 0 .. 11]
  /\ \A s \in RunState \ Halt : Depth[s] = 0 <=> s = "published"
  /\ "published" \in RunState \ Halt
<1>1. ASSUME NEW s \in RunState \ Halt
      PROVE  Depth[s] \in 0 .. 11 /\ (Depth[s] = 0 <=> s = "published")
  BY DEF Depth, RunState, Halt
<1>2. Depth \in [RunState \ Halt -> 0 .. 11]
  BY <1>1 DEF Depth
<1>3. QED
  BY <1>1, <1>2 DEF RunState, Halt

LEMMA DepthValues ==
  /\ Depth["declared"] = 11 /\ Depth["transfer_failed"] = 11
  /\ Depth["manifest_mismatch"] = 11 /\ Depth["pulling"] = 10
  /\ Depth["unpacked"] = 9 /\ Depth["verified"] = 8 /\ Depth["promoted"] = 7
  /\ Depth["needs_metadata"] = 7 /\ Depth["parser_failed"] = 7
  /\ Depth["parsing"] = 6 /\ Depth["validated"] = 5
  /\ Depth["processing_failed"] = 5 /\ Depth["quarantined"] = 5
  /\ Depth["processing"] = 4 /\ Depth["changes_requested"] = 4
  /\ Depth["awaiting_review"] = 3 /\ Depth["approved"] = 2
  /\ Depth["publishing"] = 1 /\ Depth["published"] = 0
BY SMTT(60) DEF Depth, RunState, Halt

\* An edge brings a run at most one step nearer, and one edge of every state does.
LEMMA DepthSteps ==
  /\ \A s, to \in RunState :
       CanTransition(s, to) /\ to \notin Halt => s \notin Halt /\ Depth[s] <= Depth[to] + 1
  /\ \A s \in RunState \ Halt :
       s # "published" => \E to \in RunState \ Halt :
                            CanTransition(s, to) /\ Depth[s] = Depth[to] + 1
<1>1. ASSUME NEW s \in RunState, NEW to \in RunState, CanTransition(s, to), to \notin Halt
      PROVE  s \notin Halt /\ Depth[s] <= Depth[to] + 1
  BY <1>1, SMTT(60) DEF CanTransition, Allowed, Depth, RunState, Halt
<1>2. ASSUME NEW s \in RunState \ Halt, s # "published"
      PROVE  \E to \in RunState \ Halt : CanTransition(s, to) /\ Depth[s] = Depth[to] + 1
  <2>1. Onward[s] \in RunState \ Halt
    BY <1>2 DEF Onward, RunState, Halt
  <2>2. CanTransition(s, Onward[s])
    BY <1>2, SMTT(60) DEF CanTransition, Allowed, Onward, RunState, Halt
  <2>3. Depth[s] = Depth[Onward[s]] + 1
    <3>1. \/ s \in {"declared", "transfer_failed", "manifest_mismatch"} /\ Onward[s] = "pulling"
          \/ s = "pulling" /\ Onward[s] = "unpacked"
          \/ s = "unpacked" /\ Onward[s] = "verified"
          \/ s = "verified" /\ Onward[s] = "promoted"
          \/ s \in {"promoted", "needs_metadata", "parser_failed"} /\ Onward[s] = "parsing"
          \/ s = "parsing" /\ Onward[s] = "validated"
          \/ /\ s \in {"validated", "processing_failed", "quarantined"}
             /\ Onward[s] = "processing"
          \/ s \in {"processing", "changes_requested"} /\ Onward[s] = "awaiting_review"
          \/ s = "awaiting_review" /\ Onward[s] = "approved"
          \/ s = "approved" /\ Onward[s] = "publishing"
          \/ s = "publishing" /\ Onward[s] = "published"
      BY <1>2, SMTT(60) DEF Onward, RunState, Halt
    <3>2. QED
      BY <3>1, DepthValues
  <2>4. QED
    BY <2>1, <2>2, <2>3
<1>3. QED
  BY <1>1, <1>2

\* There are more states than the longest way to published has steps.
LEMMA EnoughSteps ==
  IsFiniteSet(RunState) /\ Cardinality(RunState) \in Nat /\ Cardinality(RunState) >= 11
<1> DEFINE last == 21
           far == 11
           names ==
      <<"declared", "pulling", "unpacked", "verified", "promoted",
        "needs_metadata", "parsing", "validated", "processing", "awaiting_review",
        "approved", "publishing", "published", "changes_requested",
        "transfer_failed", "manifest_mismatch", "unsafe_archive", "parser_failed",
        "quarantined", "processing_failed", "review_rejected">>
<1>0. last \in Nat /\ far \in Nat
  OBVIOUS
<1>1. IsFiniteSet(RunState)
  <2>1. names \in [1 .. last -> RunState]
    BY DEF RunState
  <2>2. \A s \in RunState : \E i \in 1 .. last : names[i] = s
    BY DEF RunState
  <2>3. names \in Surjection(1 .. last, RunState)
    BY <2>1, <2>2 DEF Surjection
  <2> HIDE DEF names, last
  <2>4. IsFiniteSet(1 .. last)
    BY <1>0, FS_Interval
  <2>5. QED
    BY <2>3, <2>4, FS_Surjection
<1>2. Cardinality(RunState \ Halt) >= 12 /\ Cardinality(RunState) >= Cardinality(RunState \ Halt)
  <2>1. \A d \in 0 .. far : \E s \in RunState \ Halt : Depth[s] = d
    <3>1. {"published", "publishing", "approved", "awaiting_review", "processing",
           "validated", "parsing", "promoted", "verified", "unpacked", "pulling",
           "declared"} \subseteq RunState \ Halt
      BY DEF RunState, Halt
    <3>2. \A d \in 0 .. far :
            \/ d = 0 \/ d = 1 \/ d = 2 \/ d = 3 \/ d = 4 \/ d = 5
            \/ d = 6 \/ d = 7 \/ d = 8 \/ d = 9 \/ d = 10 \/ d = 11
      OBVIOUS
    <3> HIDE DEF far
    <3>3. QED
      BY <3>1, <3>2, DepthValues
  <2>2. Depth \in Surjection(RunState \ Halt, 0 .. far)
    BY <2>1, DepthRange DEF Surjection
  <2>3. /\ IsFiniteSet(RunState \ Halt) /\ Cardinality(RunState \ Halt) <= Cardinality(RunState)
        /\ Cardinality(RunState \ Halt) \in Nat /\ Cardinality(RunState) \in Nat
    BY <1>1, FS_Subset, FS_CardinalityType
  <2>4. far = 11
    OBVIOUS
  <2> HIDE DEF far
  <2>5. Cardinality(0 .. far) <= Cardinality(RunState \ Halt)
    BY <2>2, <2>3, FS_Surjection
  <2>6. Cardinality(0 .. far) = far + 1
    BY <1>0, FS_Interval
  <2>7. QED
    BY <2>3, <2>4, <2>5, <2>6
<1>3. Cardinality(RunState) \in Nat /\ Cardinality(RunState \ Halt) \in Nat
  BY <1>1, FS_Subset, FS_CardinalityType
<1>4. QED
  BY <1>1, <1>2, <1>3

Nearer(S) == S \cup {s \in RunState : \E to \in S : CanTransition(s, to)}

LEMMA WithinSteps ==
  /\ Within(0) = {"published"}
  /\ \A n \in Nat : Within(n + 1) = Nearer(Within(n))
  /\ Within(Cardinality(RunState)) = RunState \ Halt
<1>1. Within(0) = {"published"}
  BY DepthRange DEF Within
<1>2. ASSUME NEW n \in Nat
      PROVE  Within(n + 1) = Nearer(Within(n))
  <2>1. ASSUME NEW s \in Within(n + 1)
        PROVE  s \in Nearer(Within(n))
    <3>1. s \in RunState \ Halt /\ Depth[s] \in Nat /\ Depth[s] <= n + 1
      BY DepthRange DEF Within
    <3>2. CASE Depth[s] <= n
      BY <3>1, <3>2 DEF Within, Nearer
    <3>3. CASE ~(Depth[s] <= n)
      <4>1. s # "published"
        BY <3>1, <3>3, DepthRange
      <4>2. PICK to \in RunState \ Halt : CanTransition(s, to) /\ Depth[s] = Depth[to] + 1
        BY <3>1, <4>1, DepthSteps
      <4>3. Depth[to] <= n
        BY <3>1, <4>2, DepthRange
      <4>4. QED
        BY <3>1, <4>2, <4>3 DEF Within, Nearer
    <3>4. QED
      BY <3>2, <3>3
  <2>2. ASSUME NEW s \in Nearer(Within(n))
        PROVE  s \in Within(n + 1)
    <3>1. CASE s \in Within(n)
      BY <3>1, DepthRange DEF Within
    <3>2. CASE s \in RunState /\ \E to \in Within(n) : CanTransition(s, to)
      <4>1. PICK to \in Within(n) : CanTransition(s, to)
        BY <3>2
      <4>2. to \in RunState \ Halt /\ Depth[to] <= n /\ Depth[to] \in Nat
        BY DepthRange DEF Within
      <4>3. s \in RunState \ Halt /\ Depth[s] <= Depth[to] + 1
        BY <3>2, <4>1, <4>2, DepthSteps
      <4>4. Depth[s] <= n + 1
        BY <4>2, <4>3, DepthRange
      <4>5. QED
        BY <4>3, <4>4 DEF Within
    <3>3. QED
      BY <2>2, <3>1, <3>2 DEF Nearer
  <2>3. QED
    BY <2>1, <2>2
<1>3. Within(Cardinality(RunState)) = RunState \ Halt
  BY EnoughSteps, DepthRange DEF Within
<1>4. QED
  BY <1>1, <1>2, <1>3

\* The recursive definition comes to the same sets: a least number of steps at
\* which it did not, by WFMin, would follow one at which it does.
LEMMA PublishableIsWithin ==
  \A n \in 0 .. Cardinality(RunState) : Publishable[n] = Within(n)
<1> DEFINE N == Cardinality(RunState)
<1>0. N \in Nat
  BY EnoughSteps
<1>2. Publishable =
        CHOOSE f : f = [n \in 0 .. N |->
                         IF n = 0 THEN {"published"}
                         ELSE LET nearer == f[n - 1]
                              IN  nearer \cup {s \in RunState :
                                                \E to \in nearer : CanTransition(s, to)}]
  BY DEF Publishable
<1> DEFINE W == [n \in 0 .. N |-> Within(n)]
<1> HIDE DEF N
<1>3. W = [n \in 0 .. N |-> IF n = 0 THEN {"published"} ELSE Nearer(W[n - 1])]
  <2>1. ASSUME NEW n \in 0 .. N
        PROVE  Within(n) = IF n = 0 THEN {"published"} ELSE Nearer(W[n - 1])
    <3>1. CASE n = 0
      BY <3>1, WithinSteps
    <3>2. CASE n # 0
      <4>1. n - 1 \in Nat /\ n - 1 \in 0 .. N /\ (n - 1) + 1 = n
        BY <1>0, <3>2
      <4>2. W[n - 1] = Within(n - 1)
        BY <4>1
      <4>3. Within((n - 1) + 1) = Nearer(Within(n - 1))
        BY <4>1, WithinSteps
      <4>4. QED
        BY <3>2, <4>1, <4>2, <4>3
    <3>3. QED
      BY <3>1, <3>2
  <2>2. QED
    BY <2>1
<1>4. Publishable =
        [n \in 0 .. N |-> IF n = 0 THEN {"published"} ELSE Nearer(Publishable[n - 1])]
  <2>1. W = [n \in 0 .. N |->
              IF n = 0 THEN {"published"}
              ELSE LET nearer == W[n - 1]
                   IN  nearer \cup {s \in RunState : \E to \in nearer : CanTransition(s, to)}]
    BY <1>3 DEF Nearer
  <2>2. Publishable =
          [n \in 0 .. N |->
            IF n = 0 THEN {"published"}
            ELSE LET nearer == Publishable[n - 1]
                 IN  nearer \cup {s \in RunState : \E to \in nearer : CanTransition(s, to)}]
    <3> HIDE DEF W
    <3>1. QED
      BY <1>2, <2>1
  <2>3. QED
    BY <2>2 DEF Nearer
<1> DEFINE T == {n \in 0 .. N : Publishable[n] # Within(n)}
           R == {p \in Nat \X Nat : p[1] < p[2]}
<1>5. ASSUME T # {}
      PROVE  FALSE
  <2>1. IsWellFoundedOn(R, Nat)
    BY NatLessThanWellFounded DEF OpToRel
  <2>2. T \subseteq Nat
    BY <1>0
  <2>3. PICK n \in T : \A m \in T : <<m, n>> \notin R
    <3> HIDE DEF T, R
    <3>1. QED
      BY <1>5, <2>1, <2>2, WFMin
  <2>4. n # 0 /\ n \in 0 .. N /\ Publishable[n] # Within(n)
    BY <1>0, <1>4, WithinSteps
  <2>5. n - 1 \in Nat /\ n - 1 \in 0 .. N /\ (n - 1) + 1 = n /\ n - 1 < n /\ n \in Nat
    BY <1>0, <2>4
  <2>6. <<n - 1, n>> \in R
    <3>1. <<n - 1, n>> \in Nat \X Nat /\ <<n - 1, n>>[1] = n - 1 /\ <<n - 1, n>>[2] = n
      BY <2>5
    <3>2. QED
      BY <2>5, <3>1
  <2>7. n - 1 \notin T
    BY <2>3, <2>6
  <2>8. Publishable[n - 1] = Within(n - 1)
    BY <2>5, <2>7
  <2>9. Within(n) = Nearer(Within(n - 1))
    BY <2>5, WithinSteps
  <2>10. Publishable[n] = Nearer(Publishable[n - 1])
    BY <1>4, <2>4
  <2>11. QED
    BY <2>4, <2>8, <2>9, <2>10
<1>6. QED
  BY <1>5 DEF N

\* From every state but the two documented halts legal edges lead to published,
\* and from the halts none does (transitions.go, "Terminal states").
THEOREM NoRunIsTrapped == RunsSpec => []NoTrapState
<1>1. ASSUME RunsTypeOK PROVE NoTrapState
  <2>1. Publishable[Cardinality(RunState)] = RunState \ Halt
    BY EnoughSteps, PublishableIsWithin, WithinSteps
  <2>2. \A r \in Run : state[r] \in RunState
    BY <1>1 DEF RunsTypeOK
  <2>3. QED
    BY <2>1, <2>2 DEF NoTrapState
<1>2. QED
  BY <1>1, RunsTypeCorrect, PTL

-----------------------------------------------------------------------------
(***************************************************************************)
(* The jobs queue.                                                         *)
(***************************************************************************)

LEMMA RowUpdates ==
  ASSUME NEW row \in Row, NEW w \in Worker, NEW n \in Nat
  PROVE  /\ Claimed(row, w) \in Row
         /\ Succeeded(row) \in Row
         /\ Failed(row, n) \in Row
<1>1. Claimed(row, w) \in Row
  <2>1. row.attempts + 1 \in Nat
    BY DEF Row
  <2>2. QED
    BY <2>1 DEF Claimed, Row, JobState
<1>2. Succeeded(row) \in Row
  BY DEF Succeeded, Row, JobState
<1>3. Failed(row, n) \in Row
  BY DEF Failed, Row, JobState
<1>4. QED
  BY <1>1, <1>2, <1>3

LEMMA RowTimers ==
  ASSUME NEW row \in Row
  PROVE  Overdue(row) \in Row /\ Ready(row) \in Row
BY DEF Overdue, Ready, Row

(***************************************************************************)
(* Type correctness of the table and of every worker's local state.        *)
(***************************************************************************)
THEOREM TypeCorrect == Spec => []TypeOK
<1>1. Init => TypeOK
  BY ConstantsOK DEF Init, TypeOK, Busy, NoRow, Row, JobState
<1>2. TypeOK /\ [Next]_vars => TypeOK'
  <2> SUFFICES ASSUME TypeOK, [Next]_vars
               PROVE  TypeOK'
    OBVIOUS
  <2> USE ConstantsOK DEF TypeOK, Busy
  <2>1. ASSUME NEW k \in Key, Enqueue(k)
        PROVE  TypeOK'
    <3>1. Cardinality(Stored) \in Nat
      BY FS_Subset, FS_CardinalityType DEF Stored
    <3>2. QED
      BY <2>1, <3>1 DEF Enqueue, Row, NoRow, JobState
  <2>2. ASSUME NEW w \in Worker, Claim(w)
        PROVE  TypeOK'
    <3>1. PICK k \in Claimable(w) :
             /\ jobs' = [jobs EXCEPT ![k] = Claimed(@, w)]
             /\ cur' = [cur EXCEPT ![w] = k]
             /\ seen' = [seen EXCEPT ![w] = jobs[k].attempts + 1]
      BY <2>2 DEF Claim
    <3>2. k \in Key /\ jobs[k] \in Row /\ jobs[k].attempts + 1 \in Nat
      BY DEF Claimable, Row
    <3>3. Claimed(jobs[k], w) \in Row
      BY <3>2, RowUpdates
    <3>4. QED
      BY <2>2, <3>1, <3>2, <3>3 DEF Claim
  <2>3. ASSUME NEW w \in Worker, Complete(w)
        PROVE  TypeOK'
    <3>1. cur[w] \in Key => Succeeded(jobs[cur[w]]) \in Row
      BY RowUpdates
    <3>2. QED
      BY <2>3, <3>1 DEF Complete
  <2>4. ASSUME NEW w \in Worker, HandlerFails(w)
        PROVE  TypeOK'
    BY <2>4 DEF HandlerFails, LoadCounts, Row
  <2>5. ASSUME NEW w \in Worker, ReclaimScan(w)
        PROVE  TypeOK'
    BY <2>5 DEF ReclaimScan, Stale
  <2>6. ASSUME NEW w \in Worker, ReclaimNext(w)
        PROVE  TypeOK'
    BY <2>6 DEF ReclaimNext, LoadCounts, Row
  <2>7. ASSUME NEW w \in Worker, FailWrite(w)
        PROVE  TypeOK'
    <3>1. cur[w] \in Key => Failed(jobs[cur[w]], seen[w]) \in Row
      BY RowUpdates
    <3>2. QED
      BY <2>7, <3>1 DEF FailWrite
  <2>8. ASSUME NEW w \in Worker, Crash(w)
        PROVE  TypeOK'
    BY <2>8 DEF Crash
  <2>9. ASSUME NEW k \in Key, Clock(k)
        PROVE  TypeOK'
    <3>1. Overdue(jobs[k]) \in Row /\ Ready(jobs[k]) \in Row
      BY RowTimers
    <3>2. QED
      BY <2>9, <3>1 DEF Clock, LockExpires, BackoffElapses
  <2>10. CASE UNCHANGED vars
    BY <2>10 DEF vars
  <2> QED
    BY <2>1, <2>2, <2>3, <2>4, <2>5, <2>6, <2>7, <2>8, <2>9, <2>10
       DEF Next, Step
<1>3. QED
  BY <1>1, <1>2, PTL DEF Spec

(***************************************************************************)
(* What each row update does to the fields the invariants speak of.        *)
(***************************************************************************)
LEMMA RowFields ==
  ASSUME NEW row \in Row, NEW w \in Worker, NEW n \in Nat
  PROVE  /\ Claimed(row, w).state = "running"
         /\ Claimed(row, w).attempts = row.attempts + 1
         /\ Claimed(row, w).lockedBy = w
         /\ ~Claimed(row, w).expired
         /\ Succeeded(row).state = "succeeded"
         /\ Succeeded(row).attempts = row.attempts
         /\ Succeeded(row).lockedBy = None
         /\ Failed(row, n).state = IF n >= MaxAttempts THEN "dead" ELSE "queued"
         /\ Failed(row, n).attempts = row.attempts
         /\ Failed(row, n).lockedBy = None
BY ConstantsOK DEF Claimed, Succeeded, Failed, Row

LEMMA TimerFields ==
  ASSUME NEW row \in Row
  PROVE  /\ Overdue(row).state = row.state
         /\ Overdue(row).attempts = row.attempts
         /\ Overdue(row).lockedBy = row.lockedBy
         /\ Overdue(row).expired
         /\ Ready(row).state = row.state
         /\ Ready(row).attempts = row.attempts
         /\ Ready(row).lockedBy = row.lockedBy
         /\ Ready(row).expired = row.expired
BY DEF Overdue, Ready, Row

NewRow == [NoRow EXCEPT !.state = "queued", !.due = TRUE,
                        !.born = Cardinality(Stored)]

LEMMA NewRowFields ==
  NewRow.state = "queued" /\ NewRow.attempts = 0 /\ NewRow.lockedBy = None
BY DEF NewRow, NoRow

(***************************************************************************)
(* Attempts are numbered: two live handlers of one job never carry the     *)
(* same attempt.                                                           *)
(***************************************************************************)
THEOREM AttemptsAreDistinct == Spec => []DistinctAttempts
<1>1. Init => AttemptsInv
  BY DEF Init, AttemptsInv, AbsentIsBlank, DistinctAttempts, NoRow
<1>2. TypeOK /\ AttemptsInv /\ [Next]_vars => AttemptsInv'
  <2> SUFFICES ASSUME TypeOK, AttemptsInv, [Next]_vars
               PROVE  AttemptsInv'
    OBVIOUS
  <2> USE ConstantsOK DEF TypeOK, Busy, AttemptsInv, AbsentIsBlank, DistinctAttempts
  <2>0. \A k \in Key : jobs[k].attempts \in Nat
    BY DEF Row
  <2>1. ASSUME NEW k \in Key, Enqueue(k)
        PROVE  AttemptsInv'
    BY <2>0, <2>1, NewRowFields DEF Enqueue, NewRow
  <2>2. ASSUME NEW w \in Worker, Claim(w)
        PROVE  AttemptsInv'
    <3>1. PICK k \in Claimable(w) :
             /\ jobs' = [jobs EXCEPT ![k] = Claimed(@, w)]
             /\ cur' = [cur EXCEPT ![w] = k]
             /\ seen' = [seen EXCEPT ![w] = jobs[k].attempts + 1]
      BY <2>2 DEF Claim
    <3>2. k \in Key
      BY DEF Claimable
    <3>3. /\ jobs'[k].state = "running"
          /\ jobs'[k].attempts = jobs[k].attempts + 1
          /\ \A j \in Key \ {k} : jobs'[j] = jobs[j]
      BY <3>1, <3>2, RowFields
    <3>4. QED
      BY <2>0, <2>2, <3>1, <3>2, <3>3 DEF Claim
  <2>3. ASSUME NEW w \in Worker, Complete(w)
        PROVE  AttemptsInv'
    <3>1. /\ cur[w] \in Key
          /\ jobs'[cur[w]].state = "succeeded"
          /\ jobs'[cur[w]].attempts = jobs[cur[w]].attempts
          /\ \A j \in Key \ {cur[w]} : jobs'[j] = jobs[j]
      BY <2>3, RowFields DEF Complete
    <3>2. QED
      BY <2>0, <2>3, <3>1 DEF Complete
  <2>4. ASSUME NEW w \in Worker, HandlerFails(w)
        PROVE  AttemptsInv'
    BY <2>0, <2>4 DEF HandlerFails, LoadCounts
  <2>5. ASSUME NEW w \in Worker, ReclaimScan(w)
        PROVE  AttemptsInv'
    BY <2>5 DEF ReclaimScan, Stale
  <2>6. ASSUME NEW w \in Worker, ReclaimNext(w)
        PROVE  AttemptsInv'
    BY <2>0, <2>6 DEF ReclaimNext, LoadCounts
  <2>7. ASSUME NEW w \in Worker, FailWrite(w)
        PROVE  AttemptsInv'
    <3>1. /\ cur[w] \in Key
          /\ jobs'[cur[w]].state # "absent"
          /\ jobs'[cur[w]].attempts = jobs[cur[w]].attempts
          /\ \A j \in Key \ {cur[w]} : jobs'[j] = jobs[j]
      <4>1. cur[w] \in Key /\ jobs[cur[w]] \in Row /\ seen[w] \in Nat
        BY <2>7 DEF FailWrite
      <4>2. jobs'[cur[w]] = Failed(jobs[cur[w]], seen[w])
        BY <2>7, <4>1 DEF FailWrite
      <4>3. Failed(jobs[cur[w]], seen[w]).state # "absent"
        BY <4>1, RowFields
      <4>4. QED
        BY <2>7, <4>1, <4>2, <4>3, RowFields DEF FailWrite
    <3>2. QED
      BY <2>0, <2>7, <3>1 DEF FailWrite
  <2>8. ASSUME NEW w \in Worker, Crash(w)
        PROVE  AttemptsInv'
    BY <2>8 DEF Crash
  <2>9. ASSUME NEW k \in Key, Clock(k)
        PROVE  AttemptsInv'
    <3>1. /\ \A j \in Key : /\ jobs'[j].state = jobs[j].state
                            /\ jobs'[j].attempts = jobs[j].attempts
                            /\ jobs'[j].lockedBy = jobs[j].lockedBy
          /\ UNCHANGED <<pc, cur, seen>>
      BY <2>9, TimerFields DEF Clock, LockExpires, BackoffElapses
    <3>2. QED
      BY <3>1
  <2>10. CASE UNCHANGED vars
    BY <2>10 DEF vars
  <2> QED
    BY <2>1, <2>2, <2>3, <2>4, <2>5, <2>6, <2>7, <2>8, <2>9, <2>10
       DEF Next, Step
<1>3. AttemptsInv => DistinctAttempts
  BY DEF AttemptsInv
<1>4. QED
  BY <1>1, <1>2, <1>3, TypeCorrect, PTL DEF Spec

(***************************************************************************)
(* The retry budget.  The pending requeues of a job are counted against    *)
(* the workers: a claim beyond the budget uses up the queued row that one  *)
(* of them wrote, and a worker that claims is not pending itself.          *)
(***************************************************************************)
LEMMA RequeuersFinite ==
  ASSUME NEW k
  PROVE  /\ IsFiniteSet(Requeuers(k))
         /\ Cardinality(Requeuers(k)) \in Nat
         /\ Cardinality(Worker) \in Nat
         /\ Cardinality(Requeuers(k)) <= Cardinality(Worker)
         /\ \A w \in Worker : w \notin Requeuers(k) =>
              Cardinality(Requeuers(k)) <= Cardinality(Worker) - 1
<1>1. IsFiniteSet(Worker) /\ Requeuers(k) \subseteq Worker
  BY ConstantsOK DEF Requeuers
<1>2. /\ IsFiniteSet(Requeuers(k))
      /\ Cardinality(Requeuers(k)) \in Nat
      /\ Cardinality(Worker) \in Nat
      /\ Cardinality(Requeuers(k)) <= Cardinality(Worker)
  BY <1>1, FS_Subset, FS_CardinalityType
<1>3. ASSUME NEW w \in Worker, w \notin Requeuers(k)
      PROVE  Cardinality(Requeuers(k)) <= Cardinality(Worker) - 1
  <2>1. Requeuers(k) \subseteq Worker \ {w}
    BY <1>1, <1>3
  <2>2. IsFiniteSet(Worker \ {w})
        /\ Cardinality(Worker \ {w}) = Cardinality(Worker) - 1
    BY <1>1, FS_RemoveElement
  <2>3. QED
    BY <2>1, <2>2, FS_Subset
<1>4. QED
  BY <1>2, <1>3

\* A step that starts no attempt of k, adds no pending requeue of it and does
\* not queue it keeps k within its budget.
LEMMA BudgetKept ==
  ASSUME TypeOK, TypeOK', NEW k \in Key, WithinBudget(k),
         jobs'[k].attempts = jobs[k].attempts,
         jobs'[k].state = "queued" => jobs[k].state = "queued",
         jobs[k].attempts >= MaxAttempts =>
           Requeuers(k)' \subseteq Requeuers(k)
  PROVE  WithinBudget(k)'
<1>1. jobs[k].attempts \in Nat
  BY DEF TypeOK, Row
<1>2. CASE jobs[k].attempts >= MaxAttempts
  <2>1. /\ Cardinality(Requeuers(k)) \in Nat
        /\ Cardinality(Requeuers(k)') \in Nat
        /\ Cardinality(Requeuers(k)') <= Cardinality(Requeuers(k))
        /\ Cardinality(Worker) \in Nat
    BY <1>2, RequeuersFinite, FS_Subset, FS_CardinalityType
  <2>2. Cardinality(Requeuers(k))' = Cardinality(Requeuers(k)')
    OBVIOUS
  <2>3. QED
    BY <1>1, <1>2, <2>1, <2>2, ConstantsOK DEF WithinBudget
<1>3. CASE ~(jobs[k].attempts >= MaxAttempts)
  BY <1>3 DEF WithinBudget
<1>4. QED
  BY <1>2, <1>3

\* A row that a step leaves alone keeps its budget unless a worker becomes
\* pending for it on a count below the budget.
LEMMA BudgetOfOthers ==
  ASSUME TypeOK, TypeOK', BudgetInv,
         NEW k \in Key, jobs'[k] = jobs[k],
         jobs[k].attempts >= MaxAttempts =>
           \A v \in Worker : v \in Requeuers(k)' => v \in Requeuers(k)
  PROVE  WithinBudget(k)'
<1>1. WithinBudget(k)
  BY DEF BudgetInv
<1>2. Requeuers(k)' \subseteq Worker
  BY DEF Requeuers
<1>3. QED
  BY <1>1, <1>2, BudgetKept

THEOREM AttemptsAreBounded == Spec => []AttemptsBounded
<1>1. Init => BudgetInv
  BY ConstantsOK DEF Init, BudgetInv, WithinBudget, NoRow
<1>2. TypeOK /\ TypeOK' /\ BudgetInv /\ [Next]_vars => BudgetInv'
  <2> SUFFICES ASSUME TypeOK, TypeOK', BudgetInv, [Next]_vars
               PROVE  BudgetInv'
    OBVIOUS
  <2>0. /\ jobs \in [Key -> Row]
        /\ \A k \in Key : jobs[k].attempts \in Nat
        /\ MaxAttempts \in Nat \ {0}
    BY ConstantsOK DEF TypeOK, Row
  <2>1. ASSUME NEW k \in Key, Enqueue(k)
        PROVE  BudgetInv'
    <3>1. /\ jobs'[k] = NewRow
          /\ \A j \in Key \ {k} : jobs'[j] = jobs[j]
          /\ UNCHANGED <<pc, cur, seen>>
      BY <2>0, <2>1 DEF Enqueue, NewRow
    <3>2. WithinBudget(k)'
      BY <2>0, <3>1, NewRowFields DEF WithinBudget
    <3>3. \A j \in Key \ {k} : WithinBudget(j)'
      BY <3>1, BudgetOfOthers DEF Requeuers
    <3>4. QED
      BY <3>2, <3>3 DEF BudgetInv
  <2>2. ASSUME NEW w \in Worker, Claim(w)
        PROVE  BudgetInv'
    <3>1. PICK k \in Claimable(w) :
             /\ jobs' = [jobs EXCEPT ![k] = Claimed(@, w)]
             /\ cur' = [cur EXCEPT ![w] = k]
             /\ seen' = [seen EXCEPT ![w] = jobs[k].attempts + 1]
      BY <2>2 DEF Claim
    <3>2. k \in Key /\ jobs[k].state = "queued"
      BY ConstantsOK DEF Claimable
    <3>3. /\ jobs'[k].state = "running"
          /\ jobs'[k].attempts = jobs[k].attempts + 1
          /\ \A j \in Key \ {k} : jobs'[j] = jobs[j]
      BY <2>0, <3>1, <3>2, RowFields
    <3>4. pc[w] = "idle" /\ pc' = [pc EXCEPT ![w] = "handling"]
      BY <2>2 DEF Claim
    <3>5. \A j \in Key : /\ w \notin Requeuers(j)
                         /\ w \notin Requeuers(j)'
                         /\ Requeuers(j)' \subseteq Requeuers(j)
      BY <3>1, <3>4 DEF Requeuers, TypeOK
    <3>6. WithinBudget(k)'
      <4>1. /\ Cardinality(Requeuers(k)) \in Nat
            /\ Cardinality(Worker) \in Nat
            /\ Cardinality(Requeuers(k)') \in Nat
            /\ Cardinality(Requeuers(k)') <= Cardinality(Requeuers(k))
            /\ Cardinality(Requeuers(k)) <= Cardinality(Worker) - 1
        BY <3>2, <3>5, RequeuersFinite, FS_Subset, FS_CardinalityType
      <4>2. WithinBudget(k)
        BY <3>2 DEF BudgetInv
      <4>3. QED
        BY <2>0, <3>2, <3>3, <4>1, <4>2 DEF WithinBudget
    <3>7. \A j \in Key \ {k} : WithinBudget(j)'
      BY <3>3, <3>5, BudgetOfOthers
    <3>8. QED
      BY <3>2, <3>6, <3>7 DEF BudgetInv
  <2>3. ASSUME NEW w \in Worker, Complete(w)
        PROVE  BudgetInv'
    <3>1. PICK k \in Key : k = cur[w]
      BY <2>3 DEF Complete, TypeOK, Busy
    <3>2. /\ jobs'[k].state = "succeeded"
          /\ jobs'[k].attempts = jobs[k].attempts
          /\ \A j \in Key \ {k} : jobs'[j] = jobs[j]
      BY <2>0, <2>3, <3>1, RowFields DEF Complete
    <3>3. \A j \in Key : Requeuers(j)' \subseteq Requeuers(j)
      BY <2>3 DEF Complete, Requeuers, TypeOK
    <3>4. WithinBudget(k)'
      BY <3>2, <3>3, BudgetKept DEF BudgetInv
    <3>5. \A j \in Key \ {k} : WithinBudget(j)'
      BY <3>2, <3>3, BudgetOfOthers
    <3>6. QED
      BY <3>4, <3>5 DEF BudgetInv
  <2>4. ASSUME NEW w \in Worker, NEW k \in Key, NEW next, LoadCounts(w, k, next)
        PROVE  BudgetInv'
    <3>1. \A j \in Key : jobs'[j] = jobs[j]
      BY <2>4 DEF LoadCounts
    <3>2. \A j \in Key : jobs[j].attempts >= MaxAttempts =>
            Requeuers(j)' \subseteq Requeuers(j)
      BY <2>0, <2>4 DEF LoadCounts, Requeuers, TypeOK
    <3>3. QED
      BY <3>1, <3>2, BudgetOfOthers DEF BudgetInv
  <2>5. ASSUME NEW w \in Worker, HandlerFails(w)
        PROVE  BudgetInv'
    BY <2>4, <2>5 DEF HandlerFails, TypeOK, Busy
  <2>6. ASSUME NEW w \in Worker, ReclaimNext(w)
        PROVE  BudgetInv'
    BY <2>4, <2>6 DEF ReclaimNext, TypeOK
  <2>7. ASSUME NEW w \in Worker, FailWrite(w)
        PROVE  BudgetInv'
    <3>0. PICK k \in Key : k = cur[w]
      BY <2>7 DEF FailWrite, TypeOK, Busy
    <3>1. seen[w] \in Nat
      BY DEF TypeOK
    <3>2. jobs'[k] = Failed(jobs[k], seen[w])
          /\ \A j \in Key \ {k} : jobs'[j] = jobs[j]
      BY <2>0, <2>7, <3>0 DEF FailWrite
    <3>3. /\ jobs'[k].state = IF seen[w] >= MaxAttempts THEN "dead" ELSE "queued"
          /\ jobs'[k].attempts = jobs[k].attempts
      BY <2>0, <2>7, <3>1, <3>2, RowFields
    <3>4. \A j \in Key : /\ Requeuers(j)' \subseteq Requeuers(j)
                         /\ w \notin Requeuers(j)'
      BY <2>7 DEF FailWrite, Requeuers, TypeOK
    <3>5. WithinBudget(k)'
      <4>1. CASE seen[w] >= MaxAttempts
        BY <3>3, <3>4, <4>1, BudgetKept DEF BudgetInv
      <4>2. CASE ~(seen[w] >= MaxAttempts)
        <5>1. w \in Requeuers(k)
          BY <2>0, <2>7, <3>0, <3>1, <4>2 DEF FailWrite, Requeuers
        <5>2. Requeuers(k)' \subseteq Requeuers(k) \ {w}
          BY <3>4
        <5>3. /\ Cardinality(Requeuers(k)) \in Nat
              /\ Cardinality(Worker) \in Nat
              /\ Cardinality(Requeuers(k)') \in Nat
              /\ Cardinality(Requeuers(k)') <= Cardinality(Requeuers(k)) - 1
          BY <5>1, <5>2, RequeuersFinite, FS_Subset, FS_RemoveElement,
             FS_CardinalityType
        <5>4. WithinBudget(k)
          BY DEF BudgetInv
        <5>5. QED
          BY <2>0, <3>1, <3>3, <4>2, <5>3, <5>4 DEF WithinBudget
      <4>3. QED
        BY <4>1, <4>2
    <3>6. \A j \in Key \ {k} : WithinBudget(j)'
      BY <3>2, <3>4, BudgetOfOthers
    <3>7. QED
      BY <3>5, <3>6 DEF BudgetInv
  <2>8. ASSUME NEW w \in Worker, ReclaimScan(w) \/ Crash(w)
        PROVE  BudgetInv'
    <3>1. \A j \in Key : jobs'[j] = jobs[j] /\ Requeuers(j)' \subseteq Requeuers(j)
      BY <2>8 DEF ReclaimScan, Crash, Requeuers, TypeOK
    <3>2. QED
      BY <3>1, BudgetOfOthers DEF BudgetInv
  <2>9. ASSUME NEW k \in Key, Clock(k)
        PROVE  BudgetInv'
    <3>1. /\ \A j \in Key : /\ jobs'[j].state = jobs[j].state
                            /\ jobs'[j].attempts = jobs[j].attempts
          /\ UNCHANGED <<pc, cur, seen>>
      BY <2>0, <2>9, TimerFields DEF Clock, LockExpires, BackoffElapses
    <3>2. \A j \in Key : Requeuers(j)' \subseteq Requeuers(j)
      BY <3>1 DEF Requeuers
    <3>3. QED
      BY <3>1, <3>2, BudgetKept DEF BudgetInv
  <2>10. CASE UNCHANGED vars
    <3>1. \A j \in Key : jobs'[j] = jobs[j] /\ Requeuers(j)' \subseteq Requeuers(j)
      BY <2>10 DEF vars, Requeuers
    <3>2. QED
      BY <3>1, BudgetOfOthers DEF BudgetInv
  <2> QED
    BY <2>1, <2>2, <2>3, <2>5, <2>6, <2>7, <2>8, <2>9, <2>10 DEF Next, Step
<1>3. TypeOK /\ BudgetInv => AttemptsBounded
  <2> SUFFICES ASSUME TypeOK, BudgetInv, NEW k \in Key
               PROVE  jobs[k].attempts <= MaxAttempts + Cardinality(Worker) - 1
    BY DEF AttemptsBounded
  <2>1. /\ jobs[k].attempts \in Nat
        /\ MaxAttempts \in Nat
        /\ Cardinality(Requeuers(k)) \in Nat
        /\ Cardinality(Worker) \in Nat
    BY ConstantsOK, RequeuersFinite DEF TypeOK, Row
  <2>2. WithinBudget(k)
    BY DEF BudgetInv
  <2>3. QED
    BY <2>1, <2>2 DEF WithinBudget
<1>4. QED
  BY <1>1, <1>2, <1>3, TypeCorrect, PTL DEF Spec

(***************************************************************************)
(* The lock.  As deployed (one reclaimer), and as long as no handler       *)
(* outlives its lock, a job has one owner.                                 *)
(***************************************************************************)

\* The keys whose row the worker relies on.
Touches(w, k) == (pc[w] \in Busy /\ cur[w] = k) \/ k \in todo[w]

\* A worker that a step leaves alone, together with the rows it relies on,
\* keeps its invariant.
LEMMA WorkerFrame ==
  ASSUME TypeOK, NEW w \in Worker, WorkerInv(w),
         pc'[w] = pc[w], cur'[w] = cur[w], seen'[w] = seen[w], todo'[w] = todo[w],
         \A k \in Key : Touches(w, k) =>
           /\ jobs'[k].state = jobs[k].state
           /\ jobs'[k].attempts = jobs[k].attempts
           /\ jobs'[k].lockedBy = jobs[k].lockedBy
           /\ jobs'[k].expired = jobs[k].expired
  PROVE  WorkerInv(w)'
BY DEF TypeOK, WorkerInv, Touches, Busy

\* Nobody else relies on the row of an unexpired lock's owner, on a row that
\* is not running, or on a row the only reclaimer is about to release.
LEMMA Exclusive ==
  ASSUME TypeOK, LockInv, OneReclaimer, NEW v \in Worker, NEW k \in Key,
         \/ jobs[k].state # "running"
         \/ \E w \in Worker \ {v} :
              /\ pc[w] \in {"handling", "failing", "releasing"}
              /\ cur[w] = k
  PROVE  ~Touches(v, k)
<1>1. WorkerInv(v) /\ \A w \in Worker : WorkerInv(w)
  BY DEF LockInv
<1>2. CASE jobs[k].state # "running"
  BY <1>1, <1>2 DEF WorkerInv, Touches, Busy
<1>3. ASSUME NEW w \in Worker \ {v},
             pc[w] \in {"handling", "failing", "releasing"}, cur[w] = k
      PROVE  ~Touches(v, k)
  BY <1>1, <1>3 DEF WorkerInv, Touches, Busy, OneReclaimer
<1>4. QED
  BY <1>2, <1>3

LEMMA ExpiredFields ==
  ASSUME NEW row \in Row, NEW n \in Nat
  PROVE  ~Succeeded(row).expired /\ ~Failed(row, n).expired
BY DEF Succeeded, Failed, Row

THEOREM LockInvariant ==
  ASSUME Timely, OneReclaimer
  PROVE  Spec => []LockInv
<1>1. Init => LockInv
  BY ConstantsOK DEF Init, LockInv, AbsentIsBlank, WorkerInv, RowInv, NoRow
<1>2. TypeOK /\ TypeOK' /\ LockInv /\ [Next]_vars => LockInv'
  <2> SUFFICES ASSUME TypeOK, TypeOK', LockInv, [Next]_vars
               PROVE  LockInv'
    OBVIOUS
  <2>0. /\ jobs \in [Key -> Row]
        /\ \A k \in Key : jobs[k].attempts \in Nat
        /\ MaxAttempts \in Nat \ {0}
        /\ None \notin Worker \cup Key
        /\ \A w \in Worker : WorkerInv(w)
        /\ \A k \in Key : RowInv(k)
        /\ AbsentIsBlank
    BY ConstantsOK DEF TypeOK, Row, LockInv
  <2>1. ASSUME NEW k \in Key, Enqueue(k)
        PROVE  LockInv'
    <3>1. /\ jobs'[k] = NewRow
          /\ jobs[k].state = "absent"
          /\ \A j \in Key \ {k} : jobs'[j] = jobs[j]
          /\ UNCHANGED <<pc, cur, seen, todo>>
      BY <2>0, <2>1 DEF Enqueue, NewRow
    <3>2. \A v \in Worker : WorkerInv(v)'
      BY <2>0, <3>1, Exclusive, WorkerFrame
    <3>3. \A j \in Key : RowInv(j)'
      BY <2>0, <3>1, NewRowFields DEF RowInv
    <3>4. AbsentIsBlank'
      BY <2>0, <3>1, NewRowFields DEF AbsentIsBlank
    <3>5. QED
      BY <3>2, <3>3, <3>4 DEF LockInv
  <2>2. ASSUME NEW w \in Worker, Claim(w)
        PROVE  LockInv'
    <3>1. PICK k \in Claimable(w) :
             /\ jobs' = [jobs EXCEPT ![k] = Claimed(@, w)]
             /\ cur' = [cur EXCEPT ![w] = k]
             /\ seen' = [seen EXCEPT ![w] = jobs[k].attempts + 1]
      BY <2>2 DEF Claim
    <3>2. k \in Key /\ jobs[k].state = "queued"
      BY ConstantsOK DEF Claimable
    <3>3. /\ jobs'[k].state = "running"
          /\ jobs'[k].attempts = jobs[k].attempts + 1
          /\ jobs'[k].lockedBy = w
          /\ ~jobs'[k].expired
          /\ \A j \in Key \ {k} : jobs'[j] = jobs[j]
      BY <2>0, <3>1, <3>2, RowFields
    <3>4. \A v \in Worker \ {w} : WorkerInv(v)'
      BY <2>0, <2>2, <3>1, <3>2, <3>3, Exclusive, WorkerFrame
         DEF Claim, TypeOK
    <3>5. WorkerInv(w)'
      BY <2>0, <2>2, <3>1, <3>2, <3>3 DEF Claim, TypeOK, WorkerInv
    <3>6. \A j \in Key : RowInv(j)'
      BY <2>0, <3>2, <3>3 DEF RowInv
    <3>7. AbsentIsBlank'
      BY <2>0, <3>2, <3>3 DEF AbsentIsBlank
    <3>8. QED
      BY <3>4, <3>5, <3>6, <3>7 DEF LockInv
  <2>3. ASSUME NEW w \in Worker, Complete(w)
        PROVE  LockInv'
    <3>1. PICK k \in Key : k = cur[w]
      BY <2>3 DEF Complete, TypeOK, Busy
    <3>2. /\ jobs'[k].state = "succeeded"
          /\ jobs'[k].attempts = jobs[k].attempts
          /\ \A j \in Key \ {k} : jobs'[j] = jobs[j]
      BY <2>0, <2>3, <3>1, RowFields DEF Complete
    <3>3. \A v \in Worker \ {w} : WorkerInv(v)'
      BY <2>0, <2>3, <3>1, <3>2, Exclusive, WorkerFrame DEF Complete, TypeOK
    <3>4. WorkerInv(w)'
      BY <2>0, <2>3 DEF Complete, TypeOK, WorkerInv
    <3>5. \A j \in Key : RowInv(j)'
      BY <2>0, <3>2 DEF RowInv
    <3>6. AbsentIsBlank'
      BY <2>0, <3>2 DEF AbsentIsBlank
    <3>7. QED
      BY <3>3, <3>4, <3>5, <3>6 DEF LockInv
  <2>4. ASSUME NEW w \in Worker,
               HandlerFails(w) \/ ReclaimScan(w) \/ ReclaimNext(w) \/ Crash(w)
        PROVE  LockInv'
    <3>1. jobs' = jobs
      BY <2>4 DEF HandlerFails, ReclaimScan, ReclaimNext, Crash, LoadCounts
    <3>2. \A v \in Worker \ {w} : WorkerInv(v)'
      BY <2>0, <2>4, <3>1, WorkerFrame
         DEF HandlerFails, ReclaimScan, ReclaimNext, Crash, LoadCounts, TypeOK
    <3>3. WorkerInv(w)'
      <4>1. CASE HandlerFails(w)
        BY <2>0, <3>1, <4>1 DEF HandlerFails, LoadCounts, TypeOK, WorkerInv
      <4>2. CASE ReclaimScan(w)
        BY <2>0, <3>1, <4>2 DEF ReclaimScan, Stale, TypeOK, WorkerInv
      <4>3. CASE ReclaimNext(w)
        BY <2>0, <3>1, <4>3 DEF ReclaimNext, LoadCounts, TypeOK, WorkerInv
      <4>4. CASE Crash(w)
        BY <2>0, <3>1, <4>4 DEF Crash, TypeOK, WorkerInv
      <4>5. QED
        BY <2>4, <4>1, <4>2, <4>3, <4>4
    <3>4. (\A k \in Key : RowInv(k)') /\ AbsentIsBlank'
      BY <2>0, <3>1 DEF RowInv, AbsentIsBlank
    <3>5. QED
      BY <3>2, <3>3, <3>4 DEF LockInv
  <2>5. ASSUME NEW w \in Worker, FailWrite(w)
        PROVE  LockInv'
    <3>1. PICK k \in Key : k = cur[w]
      BY <2>5 DEF FailWrite, TypeOK, Busy
    <3>2. seen[w] \in Nat /\ seen[w] = jobs[k].attempts
      BY <2>0, <2>5, <3>1 DEF FailWrite, TypeOK, WorkerInv
    <3>3. /\ jobs'[k] = Failed(jobs[k], seen[w])
          /\ \A j \in Key \ {k} : jobs'[j] = jobs[j]
      BY <2>0, <2>5, <3>1 DEF FailWrite
    <3>4. /\ jobs'[k].state = IF seen[w] >= MaxAttempts THEN "dead" ELSE "queued"
          /\ jobs'[k].attempts = jobs[k].attempts
      BY <2>0, <3>1, <3>2, <3>3, RowFields
    <3>5. \A v \in Worker \ {w} : WorkerInv(v)'
      <4>1. pc[w] \in {"handling", "failing", "releasing"}
        BY <2>5 DEF FailWrite
      <4>2. \A v \in Worker \ {w} : ~Touches(v, k)
        BY <3>1, <4>1, Exclusive
      <4>3. QED
        BY <2>0, <2>5, <3>3, <4>2, WorkerFrame DEF FailWrite, TypeOK
    <3>6. WorkerInv(w)'
      BY <2>0, <2>5, <3>1, <3>3 DEF FailWrite, TypeOK, WorkerInv
    <3>7. \A j \in Key : RowInv(j)'
      BY <2>0, <3>2, <3>3, <3>4 DEF RowInv
    <3>8. AbsentIsBlank'
      BY <2>0, <3>3, <3>4 DEF AbsentIsBlank
    <3>9. QED
      BY <3>5, <3>6, <3>7, <3>8 DEF LockInv
  <2>6. ASSUME NEW k \in Key, Clock(k)
        PROVE  LockInv'
    <3>1. /\ \A j \in Key : /\ jobs'[j].state = jobs[j].state
                            /\ jobs'[j].attempts = jobs[j].attempts
                            /\ jobs'[j].lockedBy = jobs[j].lockedBy
                            /\ jobs[j].expired => jobs'[j].expired
          /\ UNCHANGED <<pc, cur, seen, todo>>
      BY <2>0, <2>6, TimerFields DEF Clock, LockExpires, BackoffElapses
    <3>2. \A v \in Worker : pc[v] \in Busy =>
            cur[v] \in Key /\ jobs'[cur[v]].expired = jobs[cur[v]].expired
      BY <2>0, <2>6, TimerFields
         DEF Clock, LockExpires, BackoffElapses, TypeOK
    <3>3. \A v \in Worker : WorkerInv(v)'
      BY <2>0, <3>1, <3>2 DEF WorkerInv, TypeOK, Busy
    <3>4. (\A j \in Key : RowInv(j)') /\ AbsentIsBlank'
      BY <2>0, <3>1 DEF RowInv, AbsentIsBlank
    <3>5. QED
      BY <3>3, <3>4 DEF LockInv
  <2>7. CASE UNCHANGED vars
    BY <2>7 DEF vars, LockInv, AbsentIsBlank, WorkerInv, RowInv
  <2> QED
    BY <2>1, <2>2, <2>3, <2>4, <2>5, <2>6, <2>7 DEF Next, Step
<1>3. QED
  BY <1>1, <1>2, TypeCorrect, PTL DEF Spec

(***************************************************************************)
(* A worker that executes a job holds its lock.                            *)
(***************************************************************************)
THEOREM LockIsHeld ==
  ASSUME Timely, OneReclaimer
  PROVE  Spec => []LockCoversHandler
<1>1. LockInv => LockCoversHandler
  BY DEF LockInv, WorkerInv, LockCoversHandler
<1>2. QED
  BY <1>1, LockInvariant, PTL

(***************************************************************************)
(* What the reclaimer releases is a running row whose lock has expired: it *)
(* never takes a job from a worker that has claimed it since the listing.  *)
(***************************************************************************)
THEOREM StaleAreReclaimed ==
  ASSUME Timely, OneReclaimer
  PROVE  Spec => []ReclaimsOnlyStale
<1>1. LockInv => ReclaimsOnlyStale
  BY DEF LockInv, WorkerInv, ReclaimsOnlyStale
<1>2. QED
  BY <1>1, LockInvariant, PTL

(***************************************************************************)
(* Under the same assumptions the queue is the life cycle of JobLifecycle. *)
(***************************************************************************)
States == [k \in Key |-> jobs[k].state]
Attempts == [k \in Key |-> jobs[k].attempts]
Owners == [k \in Key |-> jobs[k].lockedBy]

LEMMA StepRefines ==
  ASSUME TypeOK, LockInv, [Next]_vars
  PROVE  [Lifecycle!Next]_<<States, Attempts, Owners>>
<1> USE DEF States, Attempts, Owners
<1>0. /\ jobs \in [Key -> Row]
      /\ \A w \in Worker : WorkerInv(w)
      /\ \A k \in Key : RowInv(k)
      /\ AbsentIsBlank
      /\ MaxAttempts \in Nat \ {0}
      /\ \A k \in Key : jobs[k].attempts \in Nat
  BY ConstantsOK DEF TypeOK, LockInv, Row
<1>1. ASSUME NEW k \in Key, Enqueue(k)
      PROVE  Lifecycle!Submit(k)
  <2>1. jobs[k].state = "absent" /\ jobs' = [jobs EXCEPT ![k] = NewRow]
    BY <1>1 DEF Enqueue, NewRow
  <2>2. jobs[k].attempts = 0 /\ jobs[k].lockedBy = None
    BY <1>0, <2>1 DEF AbsentIsBlank
  <2>3. QED
    BY <1>0, <2>1, <2>2, NewRowFields DEF Lifecycle!Submit, Lifecycle!Move
<1>2. ASSUME NEW w \in Worker, Claim(w)
      PROVE  \E k \in Key : Lifecycle!Start(k, w)
  <2>1. PICK k \in Claimable(w) : jobs' = [jobs EXCEPT ![k] = Claimed(@, w)]
    BY <1>2 DEF Claim
  <2>2. k \in Key /\ jobs[k].state = "queued" /\ jobs[k] \in Row
    BY <1>0, ConstantsOK DEF Claimable
  <2>3. jobs[k].attempts < MaxAttempts
    BY <1>0, <2>2 DEF RowInv
  <2>4. /\ jobs'[k].state = "running"
        /\ jobs'[k].attempts = jobs[k].attempts + 1
        /\ jobs'[k].lockedBy = w
        /\ \A j \in Key \ {k} : jobs'[j] = jobs[j]
    BY <1>0, <2>1, <2>2, RowFields
  <2>5. Lifecycle!Start(k, w)
    BY <1>0, <2>2, <2>3, <2>4 DEF Lifecycle!Start, Lifecycle!Move
  <2>6. QED
    BY <2>2, <2>5
<1>3. ASSUME NEW w \in Worker, Complete(w)
      PROVE  \E k \in Key : Lifecycle!Finish(k)
  <2>1. PICK k \in Key : k = cur[w]
    BY <1>3 DEF Complete, TypeOK, Busy
  <2>2. jobs[k].state = "running"
    BY <1>0, <1>3, <2>1 DEF Complete, WorkerInv
  <2>3. /\ jobs'[k].state = "succeeded"
        /\ jobs'[k].attempts = jobs[k].attempts
        /\ jobs'[k].lockedBy = None
        /\ \A j \in Key \ {k} : jobs'[j] = jobs[j]
    BY <1>0, <1>3, <2>1, RowFields DEF Complete
  <2>4. Lifecycle!Finish(k)
    BY <1>0, <2>2, <2>3 DEF Lifecycle!Finish, Lifecycle!Move, Lifecycle!Release
  <2>5. QED
    BY <2>4
<1>4. ASSUME NEW w \in Worker, FailWrite(w)
      PROVE  \E k \in Key : Lifecycle!Retry(k) \/ Lifecycle!GiveUp(k)
  <2>1. PICK k \in Key : k = cur[w]
    BY <1>4 DEF FailWrite, TypeOK, Busy
  <2>2. /\ jobs[k].state = "running"
        /\ seen[w] = jobs[k].attempts
        /\ seen[w] \in Nat
        /\ jobs[k].attempts <= MaxAttempts
    BY <1>0, <1>4, <2>1 DEF FailWrite, WorkerInv, RowInv, TypeOK
  <2>3. /\ jobs'[k] = Failed(jobs[k], seen[w])
        /\ \A j \in Key \ {k} : jobs'[j] = jobs[j]
    BY <1>0, <1>4, <2>1 DEF FailWrite
  <2>4. /\ jobs'[k].state = IF seen[w] >= MaxAttempts THEN "dead" ELSE "queued"
        /\ jobs'[k].attempts = jobs[k].attempts
        /\ jobs'[k].lockedBy = None
    BY <1>0, <1>4, <2>2, <2>3, RowFields
  <2>5. Lifecycle!Release(k)
    BY <1>0, <2>3, <2>4 DEF Lifecycle!Release
  <2>6. CASE seen[w] >= MaxAttempts
    <3>1. Lifecycle!Move(k, "running", "dead")
      BY <1>0, <2>2, <2>3, <2>4, <2>6 DEF Lifecycle!Move
    <3>2. jobs[k].attempts = MaxAttempts
      BY <1>0, <2>2, <2>6
    <3>3. QED
      BY <2>5, <3>1, <3>2 DEF Lifecycle!GiveUp
  <2>7. CASE ~(seen[w] >= MaxAttempts)
    <3>1. Lifecycle!Move(k, "running", "queued")
      BY <1>0, <2>2, <2>3, <2>4, <2>7 DEF Lifecycle!Move
    <3>2. jobs[k].attempts < MaxAttempts
      BY <1>0, <2>2, <2>7
    <3>3. QED
      BY <2>5, <3>1, <3>2 DEF Lifecycle!Retry
  <2>8. QED
    BY <2>6, <2>7
<1>5. ASSUME NEW w \in Worker,
             HandlerFails(w) \/ ReclaimScan(w) \/ ReclaimNext(w) \/ Crash(w)
      PROVE  UNCHANGED <<States, Attempts, Owners>>
  BY <1>5 DEF HandlerFails, ReclaimScan, ReclaimNext, Crash, LoadCounts
<1>6. ASSUME NEW k \in Key, Clock(k)
      PROVE  UNCHANGED <<States, Attempts, Owners>>
  <2>1. \A j \in Key : /\ jobs'[j].state = jobs[j].state
                       /\ jobs'[j].attempts = jobs[j].attempts
                       /\ jobs'[j].lockedBy = jobs[j].lockedBy
    BY <1>0, <1>6, TimerFields DEF Clock, LockExpires, BackoffElapses
  <2>2. QED
    BY <2>1
<1>7. CASE UNCHANGED vars
  BY <1>7 DEF vars
<1>8. QED
  <2>1. CASE Next
    BY <1>1, <1>2, <1>3, <1>4, <1>5, <1>6, <2>1
       DEF Next, Step, Lifecycle!Next
  <2>2. QED
    BY <1>7, <2>1

THEOREM QueueImplementsLifecycle ==
  ASSUME Timely, OneReclaimer
  PROVE  Spec => ImplementsLifecycle
<1>1. Init => Lifecycle!Init
  BY DEF Init, NoRow, Lifecycle!Init
<1>2. TypeOK /\ LockInv /\ [Next]_vars => [Lifecycle!Next]_(Lifecycle!vars)
  BY StepRefines DEF States, Attempts, Owners, Lifecycle!vars
<1>3. QED
  BY <1>1, <1>2, TypeCorrect, LockInvariant, PTL
     DEF Spec, ImplementsLifecycle, Lifecycle!Spec
=============================================================================
