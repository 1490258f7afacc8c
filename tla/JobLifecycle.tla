---------------------------- MODULE JobLifecycle ----------------------------
(***************************************************************************)
(* What the jobs table promises its users: a job is enqueued once, has at  *)
(* most one owner, is attempted at most MaxAttempts times, and once it has *)
(* succeeded or is dead nothing changes it any more.                       *)
(***************************************************************************)
EXTENDS Naturals

CONSTANTS Key, Worker, MaxAttempts, None

VARIABLES state, attempts, owner

vars == <<state, attempts, owner>>

Init ==
  /\ state = [k \in Key |-> "absent"]
  /\ attempts = [k \in Key |-> 0]
  /\ owner = [k \in Key |-> None]

Move(k, from, to) ==
  /\ state[k] = from
  /\ state' = [state EXCEPT ![k] = to]

Submit(k) ==
  /\ Move(k, "absent", "queued")
  /\ UNCHANGED <<attempts, owner>>

Start(k, w) ==
  /\ Move(k, "queued", "running")
  /\ attempts[k] < MaxAttempts
  /\ attempts' = [attempts EXCEPT ![k] = @ + 1]
  /\ owner' = [owner EXCEPT ![k] = w]

Release(k) ==
  /\ owner' = [owner EXCEPT ![k] = None]
  /\ UNCHANGED attempts

Finish(k) == Move(k, "running", "succeeded") /\ Release(k)

Retry(k) ==
  /\ attempts[k] < MaxAttempts
  /\ Move(k, "running", "queued")
  /\ Release(k)

GiveUp(k) ==
  /\ attempts[k] = MaxAttempts
  /\ Move(k, "running", "dead")
  /\ Release(k)

Next ==
  \E k \in Key :
    \/ Submit(k)
    \/ \E w \in Worker : Start(k, w)
    \/ Finish(k)
    \/ Retry(k)
    \/ GiveUp(k)

Spec == Init /\ [][Next]_vars
=============================================================================
