-------------------------- MODULE JobQueueRefines --------------------------
(***************************************************************************)
(* The job queue implements TaskLifecycle: a task's fate is its row's       *)
(* status, and its verdict is what the one worker that still owns the row   *)
(* knows.  What a worker with a stale token knows is nobody's verdict.      *)
(***************************************************************************)
EXTENDS JobQueue

Fates == [absent |-> "unknown", pending |-> "waiting", running |-> "trying",
          complete |-> "done", failed |-> "given up"]

\* The opinion of worker w about the job it owns.
Opinion(w) ==
  CASE worker[w].phase = "unhandled"                     -> "no handler"
    [] worker[w].phase = "returned" /\ worker[w].ok      -> "success"
    [] worker[w].phase = "returned" /\ ~worker[w].ok     -> "error"
    [] worker[w].phase \in {"idle", "handling"}          -> "none"

OwnerOf(w, j) == Owns(w) /\ worker[w].job = j /\ ~worker[w].cancelled

VerdictOn(j) ==
  IF \E w \in Worker : OwnerOf(w, j)
  THEN Opinion(CHOOSE w \in Worker : OwnerOf(w, j))
  ELSE "none"

Tasks == INSTANCE TaskLifecycle WITH
  Task    <- JobId,
  Limit   <- MaxAttempts,
  fate    <- [j \in JobId |-> Fates[row[j].status]],
  tries   <- [j \in JobId |-> row[j].attempts],
  verdict <- [j \in JobId |-> VerdictOn(j)]

\* Every behaviour of the queue and its workers, lost leases, stalls and
\* stops included, is a behaviour of TaskLifecycle.
KeepsItsPromise == Tasks!Spec
=============================================================================
