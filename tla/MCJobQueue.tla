----------------------------- MODULE MCJobQueue -----------------------------
(***************************************************************************)
(* Finite instances of JobQueue.  Three job types are represented: a pull  *)
(* (Go, priority 0), a publish (Go, priority 5) and a parse (Python).      *)
(***************************************************************************)
EXTENDS JobQueue

CONSTANTS go1, go2, py1, py2, pull, publish, parse

GoKeys == Key \cap {pull, publish}
PyKeys == Key \cap {parse}

MCHandles ==
  [w \in Worker |-> IF w \in {go1, go2} THEN GoKeys ELSE PyKeys]

MCPriority == [k \in Key |-> IF k = publish THEN 5 ELSE 0]

=============================================================================
