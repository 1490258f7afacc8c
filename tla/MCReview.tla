------------------------------ MODULE MCReview ------------------------------
(***************************************************************************)
(* Finite instances of Review: two reviewers, and one or two Go workers.   *)
(***************************************************************************)
EXTENDS Review

CONSTANTS alice, bob, go1, go2
=============================================================================
