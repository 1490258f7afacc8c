---------------------------- MODULE MCPipelineA -----------------------------
(***************************************************************************)
(* Finite instances of PipelineA: the one Python worker of the deployment, *)
(* or two where no liveness is checked and they are interchangeable.       *)
(***************************************************************************)
EXTENDS PipelineA, TLC

CONSTANTS py1, py2

WorkerSymmetry == Permutations(Worker)
=============================================================================
