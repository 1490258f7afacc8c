------------------------------ MODULE MCAgents ------------------------------
(***************************************************************************)
(* Finite instances of Agents: two admins ask for two roots in either      *)
(* order and for none, or for single roots; paths lie below a root and     *)
(* climb out of it.                                                        *)
(***************************************************************************)
EXTENDS Agents

CONSTANTS alice, bob, p1

Runs == <<"data", "runs">>
Cold == <<"data", "..", "cold">>

MCRootList == {<<Runs, Cold>>, <<Cold, Runs>>, <<>>}

MCSingleRoots == {<<Runs>>, <<Cold>>}

MCPath == {<<"data", "runs", "r1">>, <<"cold", ".", "r2">>, <<"cold", "..", "etc">>}
=============================================================================
