----------------------------- MODULE MCJobQueue -----------------------------
(* Small instances of JobQueue for TLC. *)
EXTENDS JobQueue
CONSTANTS w1, w2, w3
MCJobId    == {1, 2}
MCKind     == {"snapshot", "other", "unknown"}
MCHandled  == {"snapshot", "other"}
MCSnapshotKind == "snapshot"
=============================================================================
