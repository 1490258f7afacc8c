--------------------------- MODULE MCStateMachine ---------------------------
(***************************************************************************)
(* StateMachine with the requests the callers in the code make.            *)
(***************************************************************************)
EXTENDS StateMachine, TLC

CONSTANTS go1, go2, py, run

\* HandlePullRun, failTo, handleApprove, handleRequestChanges,
\* handleQuarantine and handlePublish.
MCGoRequest ==
  ({"declared", "transfer_failed", "manifest_mismatch", "unpacked",
    "verified", "parser_failed"} \X {"pulling"})
  \cup ({"pulling"} \X {"unpacked", "transfer_failed", "unsafe_archive"})
  \cup ({"unpacked"} \X {"verified", "manifest_mismatch"})
  \cup {<<"verified", "promoted">>, <<"promoted", "needs_metadata">>}
  \cup ({"awaiting_review"} \X {"approved", "changes_requested", "quarantined"})
  \cup {<<"approved", "publishing">>, <<"publishing", "published">>}

\* handle_parse_run, handle_process_session and _handle_parse_failure.
MCPyRequest ==
  {<<Unchecked, "parsing">>, <<"parsing", "parser_failed">>,
   <<"parsing", "validated">>, <<"validated", "processing">>,
   <<"processing", "awaiting_review">>}

=============================================================================
