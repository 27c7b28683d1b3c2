------------------------------ MODULE JobQueue ------------------------------
(***************************************************************************)
(* The background job queue: the table linkding_job (internal/jobs/queue.go)*)
(* and the workers that poll it (internal/jobs/worker.go), as started by    *)
(* cmd/linkding/main.go.                                                    *)
(*                                                                          *)
(* A worker claims a ready row, which stamps it with a fresh lease token    *)
(* and a deadline; while the handler runs a second goroutine renews the     *)
(* deadline; afterwards the worker completes or fails the row.  Every write *)
(* after the claim is conditional on the row still carrying the worker's    *)
(* token, because an expired lease lets another worker claim the row while  *)
(* the first one is still busy.                                             *)
(*                                                                          *)
(* Deadlines are stored relative to the clock: "due" is available_at - now, *)
(* "lease" is leased_until - now while positive and 0 from then on, and     *)
(* Tick moves the clock by one unit (one minute: the lease is 3, the first  *)
(* retry delay 1).  Overdue jobs are told apart for Window units; two jobs  *)
(* overdue for longer are claimed in either order.                          *)
(***************************************************************************)
EXTENDS Integers

CONSTANTS
  JobId,         \* ids the table hands out (autoincrement: a set of naturals)
  Kind,          \* job kinds
  SnapshotKind,  \* "process_snapshot", the kind with a lane of its own
  Handled,       \* kinds that have an entry in Worker.Handlers
  Worker,        \* worker goroutines, of one or of several server processes
  SnapshotLane,  \* the workers configured with Kind and not ExcludeKind
  MaxAttempts,   \* Worker.MaxAttempts
  Lease,         \* Worker.Lease
  Window,        \* bound: how long overdue jobs keep their order
  MaxFaults      \* bound: stalls, stops and database errors in one behaviour

ASSUME QueueAssumption ==
  /\ JobId \subseteq Nat \ {0}
  /\ SnapshotKind \in Kind
  /\ Handled \subseteq Kind
  /\ SnapshotLane \subseteq Worker
  /\ MaxAttempts \in Nat \ {0}
  /\ Lease \in Nat \ {0}
  /\ Window \in Nat
  /\ MaxFaults \in Nat

VARIABLES
  row,      \* linkding_job, one record per id
  worker,   \* the local variables of ProcessOne, per worker
  claims,   \* claims made so far: the supply of fresh lease tokens
  faults    \* stalls, stops and database errors so far (bounded by MaxFaults)

vars == <<row, worker, claims, faults>>

-----------------------------------------------------------------------------
NoToken == 0
NoJob   == 0

Status == {"absent", "pending", "running", "complete", "failed"}
Phase  == {"idle", "handling", "unhandled", "returned"}

Row == [status : Status, kind : Kind, attempts : Nat, token : Nat,
        due : Int, lease : 0..Lease]

\* What a worker holds of its claimed job: the copies of attempts and token it
\* took at the claim, the handler's result, and whether a failed renewal has
\* cancelled the handler's context.
WorkerState == [phase : Phase, job : JobId \cup {NoJob}, token : Nat,
                attempts : Nat, ok : BOOLEAN, cancelled : BOOLEAN]

Idle == [phase |-> "idle", job |-> NoJob, token |-> NoToken, attempts |-> 0,
         ok |-> FALSE, cancelled |-> FALSE]

\* The row carries this worker's lease token: the WHERE clause shared by
\* Complete, Renew and Fail.
Owns(w) ==
  /\ worker[w].phase # "idle"
  /\ row[worker[w].job].status = "running"
  /\ row[worker[w].job].token = worker[w].token

\* Retries wait 1, 4, 16, 64 and then always 256 minutes.
Backoff == <<1, 4, 16, 64, 256>>
RetryDelay(attempt) == Backoff[IF attempt < 5 THEN attempt ELSE 5]

-----------------------------------------------------------------------------
Init ==
  /\ row = [j \in JobId |-> [status |-> "absent", kind |-> SnapshotKind,
                             attempts |-> 0, token |-> NoToken, due |-> 0,
                             lease |-> 0]]
  /\ worker = [w \in Worker |-> Idle]
  /\ claims = 0
  /\ faults = 0

\* A committed insert by EnqueueTx or Enqueue.
Enqueue(j, k) ==
  /\ row[j].status = "absent"
  /\ \A i \in JobId : i < j => row[i].status # "absent"
  /\ row' = [row EXCEPT ![j] = [status |-> "pending", kind |-> k,
                                attempts |-> 0, token |-> NoToken, due |-> 0,
                                lease |-> 0]]
  /\ UNCHANGED <<worker, claims, faults>>

\* Broken on purpose (mutant): a running row is up for grabs at any time.
ReadyIgnoringLease(j) ==
  \/ row[j].status = "pending" /\ row[j].due <= 0
  \/ row[j].status = "running"

\* Broken on purpose (mutant): expired leases are not claimed again.
ReadyPendingOnly(j) == row[j].status = "pending" /\ row[j].due <= 0

Ready(j) ==
  \/ row[j].status = "pending" /\ row[j].due <= 0
  \/ row[j].status = "running" /\ row[j].lease = 0

Takes(w, k) == (w \in SnapshotLane) <=> (k = SnapshotKind)

\* ORDER BY available_at, id.
Before(i, j) ==
  \/ row[i].due < row[j].due
  \/ row[i].due = row[j].due /\ row[i].due > -Window /\ i < j

\* Broken on purpose (mutant): claiming an expired row keeps its old token.
ClaimKeepingToken(w, j) ==
  /\ worker[w].phase = "idle"
  /\ Ready(j) /\ Takes(w, row[j].kind)
  /\ \A i \in JobId : Ready(i) /\ Takes(w, row[i].kind) => ~Before(i, j)
  /\ claims' = claims + 1
  /\ LET token == IF row[j].status = "running" THEN row[j].token ELSE claims + 1 IN
     /\ row' = [row EXCEPT ![j].status = "running",
                           ![j].attempts = row[j].attempts + 1,
                           ![j].token = token, ![j].lease = Lease]
     /\ worker' = [worker EXCEPT ![w] =
          [phase |-> IF row[j].kind \in Handled THEN "handling" ELSE "unhandled",
           job |-> j, token |-> token, attempts |-> row[j].attempts + 1,
           ok |-> FALSE, cancelled |-> FALSE]]
  /\ UNCHANGED faults

\* Broken on purpose (mutant): the deadline is not set by the claim.
ClaimWithoutDeadline(w, j) ==
  /\ worker[w].phase = "idle"
  /\ Ready(j) /\ Takes(w, row[j].kind)
  /\ claims' = claims + 1
  /\ row' = [row EXCEPT ![j].status = "running",
                        ![j].attempts = row[j].attempts + 1,
                        ![j].token = claims + 1]
  /\ worker' = [worker EXCEPT ![w] =
       [phase |-> IF row[j].kind \in Handled THEN "handling" ELSE "unhandled",
        job |-> j, token |-> claims + 1, attempts |-> row[j].attempts + 1,
        ok |-> FALSE, cancelled |-> FALSE]]
  /\ UNCHANGED faults

\* ClaimByKind and the dispatch that follows it.  Nothing compares attempts
\* with a limit here.
Claim(w, j) ==
  /\ worker[w].phase = "idle"
  /\ Ready(j) /\ Takes(w, row[j].kind)
  /\ \A i \in JobId : Ready(i) /\ Takes(w, row[i].kind) => ~Before(i, j)
  /\ claims' = claims + 1
  /\ row' = [row EXCEPT ![j].status = "running",
                        ![j].attempts = row[j].attempts + 1,
                        ![j].token = claims + 1,
                        ![j].lease = Lease]
  /\ worker' = [worker EXCEPT ![w] =
       [phase |-> IF row[j].kind \in Handled THEN "handling" ELSE "unhandled",
        job |-> j, token |-> claims + 1, attempts |-> row[j].attempts + 1,
        ok |-> FALSE, cancelled |-> FALSE]]
  /\ UNCHANGED faults

\* The renewal goroutine: it may still renew between the handler's return and
\* the moment it notices the closed channel.
Renews(w) == worker[w].phase \in {"handling", "returned"} /\ ~worker[w].cancelled

\* Broken on purpose (mutant): a renewal adds to the deadline.
RenewAdding(w) ==
  /\ Renews(w)
  /\ Owns(w)
  /\ row' = [row EXCEPT ![worker[w].job].lease = @ + Lease]
  /\ UNCHANGED <<worker, claims, faults>>

Renew(w) ==
  /\ Renews(w)
  /\ Owns(w)
  /\ row' = [row EXCEPT ![worker[w].job].lease = Lease]
  /\ UNCHANGED <<worker, claims, faults>>

\* ErrLeaseLost: the handler's context is cancelled.
RenewLost(w) ==
  /\ Renews(w)
  /\ ~Owns(w)
  /\ worker' = [worker EXCEPT ![w].cancelled = TRUE]
  /\ UNCHANGED <<row, claims, faults>>

\* A database error during a renewal cancels the handler as well.
RenewError(w) ==
  /\ faults < MaxFaults
  /\ Renews(w)
  /\ worker' = [worker EXCEPT ![w].cancelled = TRUE]
  /\ faults' = faults + 1
  /\ UNCHANGED <<row, claims>>

HandlerReturns(w, result) ==
  /\ worker[w].phase = "handling"
  /\ worker' = [worker EXCEPT ![w].phase = "returned", ![w].ok = result]
  /\ UNCHANGED <<row, claims, faults>>

-----------------------------------------------------------------------------
\* ProcessOne after the handler returned.
Leave(w) == worker' = [worker EXCEPT ![w] = Idle]

\* A renewal failed: the row is left to whoever holds it now.
Abandon(w) ==
  /\ worker[w].phase = "returned" /\ worker[w].cancelled
  /\ Leave(w)
  /\ UNCHANGED <<row, claims, faults>>

\* Broken on purpose (mutant): the update does not ask for the lease token.
CompleteUnguarded(w) ==
  /\ worker[w].phase = "returned" /\ ~worker[w].cancelled /\ worker[w].ok
  /\ row' = [row EXCEPT ![worker[w].job].status = "complete",
                        ![worker[w].job].token = NoToken,
                        ![worker[w].job].lease = 0]
  /\ Leave(w)
  /\ UNCHANGED <<claims, faults>>

Complete(w) ==
  /\ worker[w].phase = "returned" /\ ~worker[w].cancelled /\ worker[w].ok
  /\ row' = IF Owns(w)
            THEN [row EXCEPT ![worker[w].job].status = "complete",
                             ![worker[w].job].token = NoToken,
                             ![worker[w].job].lease = 0]
            ELSE row
  /\ Leave(w)
  /\ UNCHANGED <<claims, faults>>

\* The update of Fail, with the status it decides on.
FailWrites(w, status, delay) ==
  row' = IF Owns(w)
         THEN [row EXCEPT ![worker[w].job].status = status,
                          ![worker[w].job].token = NoToken,
                          ![worker[w].job].lease = 0,
                          ![worker[w].job].due = delay]
         ELSE row

\* Broken on purpose (mutants): one attempt too many, one too few.
FailRowLate(w, limit, delay) ==
  FailWrites(w, IF worker[w].attempts > limit THEN "failed" ELSE "pending", delay)
FailRowEarly(w, limit, delay) ==
  FailWrites(w, IF worker[w].attempts + 1 >= limit THEN "failed" ELSE "pending", delay)

\* Queue.Fail(job, maxAttempts, delay).
FailRow(w, limit, delay) ==
  FailWrites(w, IF worker[w].attempts >= limit THEN "failed" ELSE "pending", delay)

Fail(w) ==
  /\ worker[w].phase = "returned" /\ ~worker[w].cancelled /\ ~worker[w].ok
  /\ FailRow(w, MaxAttempts, RetryDelay(worker[w].attempts))
  /\ Leave(w)
  /\ UNCHANGED <<claims, faults>>

\* No handler for the kind: failed at once, whatever the attempt.
FailUnhandled(w) ==
  /\ worker[w].phase = "unhandled"
  /\ FailRow(w, worker[w].attempts, 0)
  /\ Leave(w)
  /\ UNCHANGED <<claims, faults>>

\* The final update runs into a database error or its 5 second limit.
FinalizeError(w) ==
  /\ faults < MaxFaults
  /\ worker[w].phase \in {"returned", "unhandled"} /\ ~worker[w].cancelled
  /\ Leave(w)
  /\ faults' = faults + 1
  /\ UNCHANGED <<row, claims>>

\* The process is killed, or shuts down: a handler whose context is cancelled
\* by the shutdown leaves its lease for recovery.  The worker starts again
\* with the next process.
Stop(w) ==
  /\ faults < MaxFaults
  /\ worker[w].phase # "idle"
  /\ Leave(w)
  /\ faults' = faults + 1
  /\ UNCHANGED <<row, claims>>

-----------------------------------------------------------------------------
\* A worker that still keeps the row's lease alive.
Kept(j) == \E w \in Worker : worker[w].job = j /\ Owns(w) /\ ~worker[w].cancelled

\* Renewals run every third of the lease and the final update within seconds,
\* so time does not outrun a lease that is kept: when it does, the process or
\* the database stalled, and that is a fault.
Overrun == {j \in JobId : row[j].status = "running" /\ row[j].lease = 1 /\ Kept(j)}

Live == {"pending", "running"}

Tick ==
  /\ \/ Overrun = {} /\ UNCHANGED faults
     \/ Overrun # {} /\ faults < MaxFaults /\ faults' = faults + 1
  /\ row' = [j \in JobId |->
       IF row[j].status \in Live
       THEN [row[j] EXCEPT
               !.due = IF row[j].due > -Window THEN row[j].due - 1 ELSE row[j].due,
               !.lease = IF row[j].lease > 0 THEN row[j].lease - 1 ELSE 0]
       ELSE row[j]]
  /\ UNCHANGED <<worker, claims>>

Finalize(w) ==
  Abandon(w) \/ Complete(w) \/ Fail(w) \/ FailUnhandled(w)

Next ==
  \/ \E j \in JobId, k \in Kind : Enqueue(j, k)
  \/ \E w \in Worker, j \in JobId : Claim(w, j)
  \/ \E w \in Worker : Renew(w)
  \/ \E w \in Worker : RenewLost(w)
  \/ \E w \in Worker : RenewError(w)
  \/ \E w \in Worker, result \in BOOLEAN : HandlerReturns(w, result)
  \/ \E w \in Worker : Abandon(w)
  \/ \E w \in Worker : Complete(w)
  \/ \E w \in Worker : Fail(w)
  \/ \E w \in Worker : FailUnhandled(w)
  \/ \E w \in Worker : FinalizeError(w)
  \/ \E w \in Worker : Stop(w)
  \/ Tick

Spec == Init /\ [][Next]_vars

\* Handlers end (every one has timeouts), workers poll and finalise without
\* pause, and the clock moves.  Renewals need no fairness of their own.
Fairness ==
  /\ WF_vars(Tick)
  /\ \A w \in Worker :
       /\ WF_vars(\E j \in JobId : Claim(w, j))
       /\ WF_vars(\E result \in BOOLEAN : HandlerReturns(w, result))
       /\ WF_vars(Finalize(w))

FairSpec == Spec /\ Fairness

-----------------------------------------------------------------------------
\* Types of the table and of the workers' locals, after queue.go's columns.
TypeOK ==
  /\ row \in [JobId -> Row]
  /\ worker \in [Worker -> WorkerState]
  /\ claims \in Nat
  /\ faults \in 0..MaxFaults

\* Two workers may be busy with one job after a lease ran out, but never do
\* two of them pass the token check of Complete, Fail and Renew: the effects
\* of the older claim can no longer reach the row.
OneOwner ==
  \A v, w \in Worker :
    Owns(v) /\ Owns(w) /\ worker[v].job = worker[w].job => v = w

\* Nobody runs a job twice at a time while no process stalled or stopped and
\* the database did not fail: renewals keep every lease until the handler is
\* done with it.
NoDoubleRunUnlessFault ==
  \A v, w \in Worker :
    /\ worker[v].phase # "idle" /\ worker[w].phase # "idle"
    /\ worker[v].job = worker[w].job
    => v = w \/ faults > 0

\* Fail ends a job at MaxAttempts claims, and Claim has no limit of its own:
\* each claim beyond the limit is paid for by a fault that lost an earlier one.
AttemptsPaidFor ==
  \A j \in JobId : row[j].attempts <= MaxAttempts + faults

\* A job is given up only after MaxAttempts claims, or without any handler.
FailedOnlyWhenExhausted ==
  \A j \in JobId : row[j].status = "failed" =>
    \/ row[j].attempts >= MaxAttempts
    \/ row[j].kind \notin Handled

\* Complete and Fail settle a row only with the verdict of the handler that
\* was dispatched by the row's latest claim, and a settled row stays settled.
SettledByLatestClaim ==
  [][\A j \in JobId : row'[j].status # row[j].status =>
       \/ row[j].status = "absent" /\ row'[j].status = "pending"
       \/ row[j].status = "pending" /\ row'[j].status = "running"
       \/ /\ row[j].status = "running"
          /\ \E w \in Worker :
               /\ worker[w].job = j /\ worker[w].token = row[j].token
               /\ worker[w].attempts = row[j].attempts
               /\ worker[w].phase \in {"returned", "unhandled"}
               /\ (row'[j].status = "complete") <=> worker[w].ok]_vars

\* Every enqueued job is completed or failed in the end, through any number of
\* crashes, stalls and retries as long as they stop.
EveryJobSettles ==
  \A j \in JobId :
    row[j].status \in Live ~> row[j].status \in {"complete", "failed"}
-----------------------------------------------------------------------------
\* The strengthening under which the invariants above are inductive.

\* Lease tokens are never shared by two busy workers, nor guessed ahead.
TokensDistinct ==
  /\ \A w \in Worker : worker[w].phase # "idle" =>
       worker[w].job \in JobId /\ worker[w].token \in 1..claims
  /\ \A v, w \in Worker :
       /\ worker[v].phase # "idle" /\ worker[w].phase # "idle"
       /\ worker[v].token = worker[w].token
       => v = w
  /\ \A j \in JobId : row[j].token <= claims

\* What an owner copied at its claim is still what the row says.
CopiesAgree ==
  \A w \in Worker : worker[w].phase # "idle" =>
    /\ worker[w].attempts > 0 /\ row[worker[w].job].status # "absent"
    /\ Owns(w) => worker[w].attempts = row[worker[w].job].attempts
    /\ worker[w].phase = "unhandled" =>
         row[worker[w].job].kind \notin Handled /\ ~worker[w].ok

\* Attempts left: a row that can be claimed again without a further fault has
\* some.
AttemptsLeft ==
  \A j \in JobId :
    /\ row[j].status = "pending" => row[j].attempts < MaxAttempts
    /\ row[j].status = "running" /\ (row[j].lease = 0 \/ ~Kept(j)) =>
         row[j].attempts < MaxAttempts + faults

\* Without faults every busy worker owns its job under a running lease.
OwnedUnlessFault ==
  faults = 0 => \A w \in Worker : worker[w].phase # "idle" =>
    Owns(w) /\ row[worker[w].job].lease > 0 /\ ~worker[w].cancelled

\* The inductive invariant of the queue: the conditions it is proved from.
QueueInv ==
  /\ TypeOK /\ TokensDistinct /\ CopiesAgree
  /\ AttemptsLeft /\ AttemptsPaidFor /\ FailedOnlyWhenExhausted
  /\ OwnedUnlessFault
=============================================================================
