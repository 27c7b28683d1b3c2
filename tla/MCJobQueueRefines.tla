-------------------------- MODULE MCJobQueueRefines --------------------------
(* Small instance of the refinement of TaskLifecycle by JobQueue. *)
EXTENDS JobQueueRefines
CONSTANTS w1, w2, w3
MCJobId    == {1, 2}
MCKind     == {"snapshot", "other", "unknown"}
MCHandled  == {"snapshot", "other"}
MCSnapshotKind == "snapshot"
=============================================================================
