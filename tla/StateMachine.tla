---------------------------- MODULE StateMachine ----------------------------
(***************************************************************************)
(* The writers of runs.state: TransitionTx (internal/statemachine), called *)
(* by the Go processes, and transition_run (migrations/00100), called by   *)
(* the Python ones.  Each is one transaction that locks the run's row,     *)
(* checks the expected state and the edge, updates the row and appends an  *)
(* audit row.  Actors run such transactions concurrently, and a database   *)
(* error or a crash before the commit rolls one back.                      *)
(*                                                                         *)
(* A run is observed from any point of its life on, with the audit rows    *)
(* written since then.                                                     *)
(***************************************************************************)
EXTENDS RunStates, Sequences

CONSTANTS
  Run,
  GoActor, PyActor,  \* processes that change runs through Go and through SQL
  GoRequest,         \* <<expected, to>> pairs the Go callers pass
  PyRequest,         \* <<expected, to>> pairs the Python callers pass
  Unlocked,          \* not an actor
  MaxAudit           \* bound on the audit rows written to one run

Unchecked == ""      \* ExpectedFrom not given

Request == (RunState \cup {Unchecked}) \X RunState

ASSUME RequestsOK == GoRequest \subseteq Request /\ PyRequest \subseteq Request
ASSUME ActorsOK ==
  GoActor \cap PyActor = {} /\ Unlocked \notin GoActor \cup PyActor
ASSUME MaxAuditOK == MaxAudit \in Nat

Actor == GoActor \cup PyActor

VARIABLES
  state,    \* committed runs.state
  audit,    \* committed run_state_transitions rows, oldest first
  rowLock,  \* run -> the actor whose transaction holds its row lock
  txn       \* actor -> its transaction in progress

runsVars == <<state, audit, rowLock, txn>>

\* Transactions: not begun; row locked and read; statements executed.
NoTxn == [step |-> "none"]
Txn == {NoTxn} \cup
       [step: {"read", "written"}, run: Run, request: Request, current: RunState]

\* Runs, audit rows, row locks and transactions are well formed.
RunsTypeOK ==
  /\ state \in [Run -> RunState]
  /\ audit \in [Run -> Seq(RunState \X RunState)]
  /\ rowLock \in [Run -> Actor \cup {Unlocked}]
  /\ txn \in [Actor -> Txn]

RunsInit ==
  /\ state \in [Run -> RunState]
  /\ audit = [r \in Run |-> <<>>]
  /\ rowLock = [r \in Run |-> Unlocked]
  /\ txn = [a \in Actor |-> NoTxn]

\* Mutant: SELECT without FOR UPDATE.
ReadRow(a, r, request) ==
  /\ txn[a] = NoTxn
  /\ rowLock' = [rowLock EXCEPT ![r] = a]
  /\ txn' = [txn EXCEPT ![a] = [step |-> "read", run |-> r,
                                request |-> request, current |-> state[r]]]
  /\ UNCHANGED <<state, audit>>

\* BEGIN; SELECT state FROM runs WHERE id = ... FOR UPDATE.
LockRow(a, r, request) ==
  /\ txn[a] = NoTxn
  /\ rowLock[r] = Unlocked
  /\ rowLock' = [rowLock EXCEPT ![r] = a]
  /\ txn' = [txn EXCEPT ![a] = [step |-> "read", run |-> r,
                                request |-> request, current |-> state[r]]]
  /\ UNCHANGED <<state, audit>>

Expected(request, current) == request[1] \in {Unchecked, current}

Legal(a, from, to) ==
  IF a \in GoActor THEN CanTransition(from, to)
                   ELSE <<from, to>> \in AllowedTransitions

\* The checks pass; UPDATE runs and INSERT INTO run_state_transitions run
\* inside the transaction.
Apply(a) ==
  LET t == txn[a]
  IN  /\ t.step = "read"
      /\ Expected(t.request, t.current)
      /\ Legal(a, t.current, t.request[2])
      /\ Len(audit[t.run]) < MaxAudit
      /\ txn' = [txn EXCEPT ![a].step = "written"]
      /\ UNCHANGED <<state, audit, rowLock>>

\* Mutant: the audit row is left to a later transaction.
CommitSilently(a) ==
  LET t == txn[a]
  IN  /\ t.step = "written"
      /\ state' = [state EXCEPT ![t.run] = t.request[2]]
      /\ rowLock' = [rowLock EXCEPT ![t.run] = Unlocked]
      /\ txn' = [txn EXCEPT ![a] = NoTxn]
      /\ UNCHANGED audit

\* COMMIT: the new state and the audit row become visible together.
Commit(a) ==
  LET t == txn[a]
  IN  /\ t.step = "written"
      /\ state' = [state EXCEPT ![t.run] = t.request[2]]
      /\ audit' = [audit EXCEPT ![t.run] =
                     Append(@, <<t.current, t.request[2]>>)]
      /\ rowLock' = [rowLock EXCEPT ![t.run] = Unlocked]
      /\ txn' = [txn EXCEPT ![a] = NoTxn]

\* ErrStateMismatch or ErrIllegalTransition, a database error or a crash.
Rollback(a) ==
  /\ txn[a] # NoTxn
  /\ rowLock' = [rowLock EXCEPT ![txn[a].run] = Unlocked]
  /\ txn' = [txn EXCEPT ![a] = NoTxn]
  /\ UNCHANGED <<state, audit>>

RunsNext ==
  \/ \E r \in Run :
       \/ \E a \in GoActor, q \in GoRequest : LockRow(a, r, q)
       \/ \E a \in PyActor, q \in PyRequest : LockRow(a, r, q)
  \/ \E a \in Actor : Apply(a) \/ Commit(a) \/ Rollback(a)

RunsSpec == RunsInit /\ [][RunsNext]_runsVars

-----------------------------------------------------------------------------
(***************************************************************************)
(* Properties.                                                             *)
(***************************************************************************)

PathToState(log, s) ==
  LET n == Len(log)
  IN  /\ \A i \in 1 .. n : CanTransition(log[i][1], log[i][2])
      /\ \A i \in 1 .. n - 1 : log[i + 1][1] = log[i][2]
      /\ n > 0 => log[n][2] = s

\* The audit log of a run is one unbroken path of edges of the Go table that
\* ends in the run's committed state, whoever wrote the rows (architecture,
\* "Postgres enforces transition legality, idempotency, and audit history").
AuditIsPath == \A r \in Run : PathToState(audit[r], state[r])

\* No run is trapped: from wherever it is, unless in one of the two documented
\* halts (transitions.go, "Terminal states"), legal edges lead to published.
NoTrapState ==
  \A r \in Run :
    state[r] \in Halt <=> state[r] \notin Publishable[Cardinality(RunState)]

\* Transactions implement atomic transitions: each step of a run's committed
\* state is one legal edge, and terminal states are final.
RunsLifecycle == INSTANCE RunLifecycle

ImplementsRunLifecycle == RunsLifecycle!Spec

-----------------------------------------------------------------------------
(***************************************************************************)
(* Inductive strengthening (DatabaseProofs): a transaction in progress     *)
(* owns the row lock, what it read is still the committed state, and what  *)
(* it has written is legal.                                                *)
(***************************************************************************)
TxnInv ==
  \A a \in Actor :
    LET t == txn[a]
    IN  t # NoTxn =>
          /\ rowLock[t.run] = a
          /\ t.current = state[t.run]
          /\ t.step = "written" => CanTransition(t.current, t.request[2])
=============================================================================
