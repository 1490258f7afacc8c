----------------------------- MODULE RunStates -----------------------------
(***************************************************************************)
(* The life cycle of a measurement run as a graph: the states of           *)
(* internal/domain/state.go and the two copies of the transition table,    *)
(* the Go map `allowed' (internal/statemachine/transitions.go) and the SQL *)
(* table allowed_transitions (migrations/00100) that Python uses.          *)
(***************************************************************************)
EXTENDS Naturals, FiniteSets

RunState ==
  {"declared", "pulling", "unpacked", "verified", "promoted",
   "needs_metadata", "parsing", "validated", "processing", "awaiting_review",
   "approved", "publishing", "published", "changes_requested",
   "transfer_failed", "manifest_mismatch", "unsafe_archive", "parser_failed",
   "quarantined", "processing_failed", "review_rejected"}

\* The Go table: a state without an entry has no outgoing edges.
Allowed == [s \in RunState |->
  CASE s = "declared"          -> {"pulling", "transfer_failed"}
    [] s = "pulling"           -> {"unpacked", "transfer_failed", "unsafe_archive"}
    [] s = "unpacked"          -> {"verified", "unsafe_archive", "manifest_mismatch", "pulling"}
    [] s = "verified"          -> {"promoted", "manifest_mismatch", "pulling"}
    [] s = "promoted"          -> {"needs_metadata", "parsing"}
    [] s = "needs_metadata"    -> {"parsing"}
    [] s = "parsing"           -> {"validated", "parser_failed", "quarantined"}
    [] s = "validated"         -> {"processing"}
    [] s = "processing"        -> {"awaiting_review", "processing_failed"}
    [] s = "awaiting_review"   -> {"approved", "changes_requested", "quarantined", "review_rejected"}
    [] s = "changes_requested" -> {"processing", "awaiting_review"}
    [] s = "approved"          -> {"publishing"}
    [] s = "publishing"        -> {"published", "processing_failed"}
    [] s = "transfer_failed"   -> {"pulling"}
    [] s = "manifest_mismatch" -> {"pulling"}
    [] s = "parser_failed"     -> {"parsing"}
    [] s = "processing_failed" -> {"processing"}
    [] s = "quarantined"       -> {"parsing", "processing"}
    [] OTHER                   -> {}]

\* The SQL table: one row per edge.
AllowedTransitions ==
  {<<"declared", "pulling">>, <<"declared", "transfer_failed">>,
   <<"pulling", "unpacked">>, <<"pulling", "transfer_failed">>,
   <<"pulling", "unsafe_archive">>,
   <<"unpacked", "verified">>, <<"unpacked", "unsafe_archive">>,
   <<"unpacked", "manifest_mismatch">>, <<"unpacked", "pulling">>,
   <<"verified", "promoted">>, <<"verified", "manifest_mismatch">>,
   <<"verified", "pulling">>,
   <<"promoted", "needs_metadata">>, <<"promoted", "parsing">>,
   <<"needs_metadata", "parsing">>,
   <<"parsing", "validated">>, <<"parsing", "parser_failed">>,
   <<"parsing", "quarantined">>,
   <<"validated", "processing">>,
   <<"processing", "awaiting_review">>, <<"processing", "processing_failed">>,
   <<"awaiting_review", "approved">>, <<"awaiting_review", "changes_requested">>,
   <<"awaiting_review", "quarantined">>, <<"awaiting_review", "review_rejected">>,
   <<"changes_requested", "processing">>, <<"changes_requested", "awaiting_review">>,
   <<"approved", "publishing">>,
   <<"publishing", "published">>, <<"publishing", "processing_failed">>,
   <<"transfer_failed", "pulling">>,
   <<"manifest_mismatch", "pulling">>,
   <<"parser_failed", "parsing">>,
   <<"processing_failed", "processing">>,
   <<"quarantined", "parsing">>, <<"quarantined", "processing">>}

\* Mutant: a failed parse has no re-drive edge.
CanTransitionNoRedrive(from, to) ==
  from \in RunState \ {"parser_failed"} /\ to \in Allowed[from]

CanTransition(from, to) == from \in RunState /\ to \in Allowed[from]

\* The terminal states the code documents besides published.
Halt == {"unsafe_archive", "review_rejected"}

\* The states from which a run can still be published in at most n steps.
Publishable[n \in 0 .. Cardinality(RunState)] ==
  IF n = 0
  THEN {"published"}
  ELSE LET nearer == Publishable[n - 1]
       IN  nearer \cup {s \in RunState : \E to \in nearer : CanTransition(s, to)}
=============================================================================
