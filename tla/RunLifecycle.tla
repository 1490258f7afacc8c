---------------------------- MODULE RunLifecycle ----------------------------
(***************************************************************************)
(* What the state machine promises the rest of the system: a run moves     *)
(* along the edges of the transition graph, one at a time and atomically,  *)
(* and every move is recorded.                                             *)
(***************************************************************************)
EXTENDS RunStates, Sequences

CONSTANT Run

VARIABLES state, audit

vars == <<state, audit>>

Init ==
  /\ state \in [Run -> RunState]
  /\ audit = [r \in Run |-> <<>>]

Move(r, to) ==
  /\ CanTransition(state[r], to)
  /\ state' = [state EXCEPT ![r] = to]
  /\ audit' = [audit EXCEPT ![r] = Append(@, <<state[r], to>>)]

Next == \E r \in Run, to \in RunState : Move(r, to)

Spec == Init /\ [][Next]_vars
=============================================================================
