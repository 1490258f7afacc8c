----------------------------- MODULE MCRequests -----------------------------
(***************************************************************************)
(* A finite instance of Requests: an admin and a newcomer, who may be      *)
(* promoted, and may then take the admin's role away.                      *)
(***************************************************************************)
EXTENDS Requests, TLC

CONSTANTS ann, bob, s1, s2, k1

Change(user, status, role) == [user |-> user, status |-> status, role |-> role]

MCIntent ==
  {[patch |-> None,                          key |-> None],
   [patch |-> Change(bob, "active", "admin"), key |-> k1],
   [patch |-> Change(ann, None, "member"),    key |-> None],
   [patch |-> Change(ann, "disabled", None),  key |-> None]}

SlotSymmetry == Permutations(Slot)
=============================================================================
