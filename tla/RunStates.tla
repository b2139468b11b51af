------------------------------ MODULE RunStates ------------------------------
(***************************************************************************)
(* The states of a ProcessingRun and the transition table that every       *)
(* writer of processing_runs.state consults                                *)
(* (src/api/src/modules/processing/processing-results.service.ts).         *)
(***************************************************************************)

RunState == {"QUEUED", "ACTIVE", "COMPLETED", "RETRY_SCHEDULED", "FAILED",
             "DEAD_LETTERED", "CANCELLED"}

\* PROCESSING_RUN_TRANSITIONS: the pairs <<current, next>> the table allows.
RunTransition ==
  ({"QUEUED"} \X {"ACTIVE", "CANCELLED", "FAILED"})
    \cup ({"ACTIVE"} \X {"COMPLETED", "RETRY_SCHEDULED", "FAILED", "CANCELLED"})
    \cup ({"RETRY_SCHEDULED"} \X {"ACTIVE", "DEAD_LETTERED", "CANCELLED"})

CanMove(from, to) == <<from, to>> \in RunTransition

\* Mutant: list_reconcilable_runs as it was before migration 006.
ReconcilableBefore006 == {"QUEUED", "RETRY_SCHEDULED"}

\* The states list_reconcilable_runs selects.
ReconcilableState == {"QUEUED", "RETRY_SCHEDULED", "ACTIVE"}
==============================================================================
