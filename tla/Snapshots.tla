----------------------------- MODULE Snapshots -----------------------------
(***************************************************************************)
(* Snapshots and uploaded assets: the rows of bookmarks_bookmarkasset, the  *)
(* files below data/assets they name, the latest_snapshot_id of bookmarks,  *)
(* the global snapshot lock, and everyone who writes them: the snapshot     *)
(* worker of each server process (internal/media/snapshot.go, lock.go), the *)
(* requests that upload and delete assets (internal/httpserver), and the    *)
(* requeueing of pending snapshots when a process starts (recover.go).      *)
(*                                                                          *)
(* Of the job queue this module keeps what TaskLifecycle promises: a claim  *)
(* counts an attempt and silences the holder of an earlier one, and only    *)
(* the latest claim settles the job.  When a worker is lost its lease ends  *)
(* at some point, here at once.                                             *)
(*                                                                          *)
(* The number of an asset is its place in the order of (date_created, id);  *)
(* rows may be inserted in another order than their dates.                  *)
(***************************************************************************)
EXTENDS Integers, FiniteSets

CONSTANTS
  Asset,         \* assets that can ever exist
  Bookmark,
  BookmarkOf,    \* the bookmark an asset belongs to
  NameOf,        \* the file name snapshotFilename and generatedAssetName give
  Server,        \* server processes, each with one snapshot worker
  Request,       \* concurrent upload and delete requests
  MaxAttempts,   \* Worker.MaxAttempts
  RetryDelay,    \* the delays of defaultRetryDelay
  LockLease,     \* acquireSnapshotLock: at least 10 minutes, and at least the
                 \* SingleFile timeout and a minute
  CaptureLimit,  \* content type detection and capture end within this time:
                 \* two requests of 10 seconds and the SingleFile timeout
  Copies,        \* bound: jobs queued for one asset at a time
  MaxCrashes,    \* bound: process stops
  MaxStalls,     \* bound: leases that ran out under a live worker
  MaxErrors      \* bound: database errors

None == 0

ASSUME SnapshotAssumption ==
  /\ Asset \subseteq Nat \ {0} /\ None \notin Server
  /\ BookmarkOf \in [Asset -> Bookmark]
  /\ DOMAIN NameOf = Asset
  /\ MaxAttempts \in Nat \ {0}
  /\ \A n \in 1..MaxAttempts : RetryDelay[n] \in Nat
  /\ LockLease \in Nat /\ CaptureLimit \in Nat /\ CaptureLimit < LockLease
  /\ Copies \in Nat \ {0}
  /\ MaxCrashes \in Nat /\ MaxStalls \in Nat /\ MaxErrors \in Nat

VARIABLES
  asset,     \* bookmarks_bookmarkasset
  latest,    \* latest_snapshot_id of each bookmark
  deleted,   \* deleted bookmarks
  files,     \* the files in data/assets
  lock,      \* the row "html-snapshots-lock" of linkding_lock
  job,       \* queued process_snapshot jobs
  server,    \* each process: its mode, and its EnableSnapshots
  run,       \* the local variables of each worker's ProcessSnapshot
  request,   \* the local variables of upload and delete requests
  happened   \* crashes, stalls and database errors so far

vars == <<asset, latest, deleted, files, lock, job, server, run, request, happened>>

-----------------------------------------------------------------------------
Free(j) == job[j].state = "free"
Job == Asset \X (1..Copies)

AssetRow == [status : {"unborn", "pending", "complete", "failure", "deleted"},
             type : {"snapshot", "upload"}, named : BOOLEAN]

NoJob == [state |-> "free", attempts |-> 0, due |-> 0, by |-> None]

Stage == {"idle", "claimed", "loaded", "locked", "capturing", "captured",
          "renamed", "failing", "releasing", "returned"}

NoRun == [at |-> "idle", job |-> <<None, None>>, attempts |-> 0, age |-> 0,
          ok |-> FALSE, cancelled |-> FALSE]

NoRequest == [at |-> "idle", asset |-> None, doomed |-> {}]

Exists(a) == asset[a].status \in {"pending", "complete", "failure"}
Pending == {a \in Asset : asset[a].status = "pending"}

\* The asset the run of server s works on (the payload of its job).
AssetOf(s) == run[s].job[1]

Init ==
  /\ asset = [a \in Asset |-> [status |-> "unborn", type |-> "snapshot", named |-> FALSE]]
  /\ latest = [b \in Bookmark |-> None]
  /\ deleted = {}
  /\ files = {}
  /\ lock = [holder |-> None, ttl |-> 0]
  /\ job = [j \in Job |-> NoJob]
  /\ server \in [Server -> [mode : {"up"}, enabled : BOOLEAN]]
  /\ run = [s \in Server |-> NoRun]
  /\ request = [r \in Request |-> NoRequest]
  /\ happened = [crashes |-> 0, stalls |-> 0, errors |-> 0]

-----------------------------------------------------------------------------
(* The queue, seen from the snapshot lane.                                  *)

Queued == [state |-> "pending", attempts |-> 0, due |-> 0, by |-> None]

\* EnqueueSnapshot, or the automatic snapshot of a new bookmark: the pending
\* asset and its job in one transaction.
EnqueueSnapshot(a) ==
  /\ asset[a].status = "unborn" /\ BookmarkOf[a] \notin deleted
  /\ \E s \in Server : server[s].mode # "down" /\ server[s].enabled
  /\ \A r \in Request : request[r].asset # a
  /\ Free(<<a, 1>>)
  /\ asset' = [asset EXCEPT ![a] = [status |-> "pending", type |-> "snapshot",
                                    named |-> FALSE]]
  /\ job' = [job EXCEPT ![<<a, 1>>] = Queued]
  /\ UNCHANGED <<latest, deleted, files, lock, server, run, request, happened>>

\* The job's latest claim is the one server s works for.
Holds(s) == run[s].at # "idle" /\ job[run[s].job].by = s

Claim(s, j) ==
  /\ server[s].mode = "up" /\ run[s].at = "idle"
  /\ \/ job[j].state = "pending" /\ job[j].due = 0 /\ UNCHANGED happened
     \/ job[j].state = "running" /\ job[j].by = None /\ UNCHANGED happened
     \/ /\ job[j].state = "running" /\ job[j].by # None
        /\ happened.stalls < MaxStalls
        /\ happened' = [happened EXCEPT !.stalls = @ + 1]
  /\ job' = [job EXCEPT ![j].state = "running", ![j].by = s, ![j].due = 0,
                        ![j].attempts = @ + 1]
  /\ run' = [run EXCEPT ![s] = [NoRun EXCEPT !.at = "claimed", !.job = j,
                                             !.attempts = job[j].attempts + 1]]
  /\ UNCHANGED <<asset, latest, deleted, files, lock, server, request>>

\* A renewal finds the lease lost and cancels the handler's context.
LoseLease(s) ==
  /\ run[s].at # "idle" /\ ~Holds(s) /\ ~run[s].cancelled
  /\ run' = [run EXCEPT ![s].cancelled = TRUE]
  /\ UNCHANGED <<asset, latest, deleted, files, lock, job, server, request, happened>>

\* The worker after ProcessSnapshot: nothing when the context was cancelled,
\* else Complete or Fail, which only the latest claim can do.
Settle(s) ==
  /\ run[s].at = "returned"
  /\ run' = [run EXCEPT ![s] = NoRun]
  /\ LET j == run[s].job IN
     job' = IF ~Holds(s) THEN job
            ELSE IF run[s].cancelled THEN [job EXCEPT ![j].by = None]
            ELSE IF run[s].ok \/ run[s].attempts >= MaxAttempts
                 THEN [job EXCEPT ![j] = NoJob]
                 ELSE [job EXCEPT ![j].state = "pending", ![j].by = None,
                                  ![j].due = RetryDelay[run[s].attempts]]
  /\ UNCHANGED <<asset, latest, deleted, files, lock, server, request, happened>>

-----------------------------------------------------------------------------
(* ProcessSnapshot.  Every step that uses the context fails once it is      *)
(* cancelled: see Interrupt.                                                *)

Step(s, from) == run[s].at = from /\ ~run[s].cancelled
Return(s, ok) == run' = [run EXCEPT ![s].at = "returned", ![s].ok = ok]
Release(s, ok) == run' = [run EXCEPT ![s].at = "releasing", ![s].ok = ok]

\* Snapshots disabled, the asset gone or done: nothing to do.
Load(s) ==
  /\ Step(s, "claimed")
  /\ IF server[s].enabled /\ AssetOf(s) \in Pending
     THEN run' = [run EXCEPT ![s].at = "loaded"]
     ELSE Return(s, TRUE)
  /\ UNCHANGED <<asset, latest, deleted, files, lock, job, server, request, happened>>

\* Broken on purpose (mutant): the lease adds the limit to its minimum.
AcquireLockLonger(s) ==
  /\ Step(s, "loaded")
  /\ IF lock.holder = None \/ lock.ttl = 0
     THEN /\ lock' = [holder |-> s, ttl |-> LockLease + CaptureLimit]
          /\ run' = [run EXCEPT ![s].at = "locked", ![s].age = 0]
     ELSE Return(s, FALSE) /\ UNCHANGED lock
  /\ UNCHANGED <<asset, latest, deleted, files, job, server, request, happened>>

\* acquireSnapshotLock: a held lock is taken over once its lease has run out;
\* otherwise ErrSnapshotBusy.  A server holds the lock for one run at a time,
\* so its name stands for the random token.
AcquireLock(s) ==
  /\ Step(s, "loaded")
  /\ IF lock.holder = None \/ lock.ttl = 0
     THEN /\ lock' = [holder |-> s, ttl |-> LockLease]
          /\ run' = [run EXCEPT ![s].at = "locked", ![s].age = 0]
     ELSE Return(s, FALSE) /\ UNCHANGED lock
  /\ UNCHANGED <<asset, latest, deleted, files, job, server, request, happened>>

Reload(s) ==
  /\ Step(s, "locked")
  /\ IF AssetOf(s) \in Pending
     THEN run' = [run EXCEPT ![s].at = "capturing"]
     ELSE Release(s, TRUE)
  /\ UNCHANGED <<asset, latest, deleted, files, lock, job, server, request, happened>>

\* detectContentType with captureHTML or downloadPDF, into a temporary file.
Capture(s, ok) ==
  /\ Step(s, "capturing")
  /\ run' = [run EXCEPT ![s].at = IF ok THEN "captured" ELSE "failing"]
  /\ UNCHANGED <<asset, latest, deleted, files, lock, job, server, request, happened>>

\* gzipSnapshot ends in a rename to the final name; it ignores the context.
Rename(s) ==
  /\ run[s].at = "captured"
  /\ files' = files \cup {NameOf[AssetOf(s)]}
  /\ run' = [run EXCEPT ![s].at = "renamed"]
  /\ UNCHANGED <<asset, latest, deleted, lock, job, server, request, happened>>

\* The closing transaction; an asset no longer pending is an error.
Commit(s) ==
  /\ Step(s, "renamed")
  /\ LET a == AssetOf(s) IN
     IF a \in Pending
     THEN /\ asset' = [asset EXCEPT ![a].status = "complete", ![a].named = TRUE]
          /\ latest' = [latest EXCEPT ![BookmarkOf[a]] = a]
          /\ Release(s, TRUE)
     ELSE /\ run' = [run EXCEPT ![s].at = "failing"]
          /\ UNCHANGED <<asset, latest>>
  /\ UNCHANGED <<deleted, files, lock, job, server, request, happened>>

\* Broken on purpose (mutants): a mark that does not ask for a pending asset,
\* and one that comes an attempt too late.
MarkFailureBlindly(s) ==
  /\ Step(s, "failing")
  /\ asset' = IF run[s].attempts >= MaxAttempts /\ Exists(AssetOf(s))
              THEN [asset EXCEPT ![AssetOf(s)].status = "failure"] ELSE asset
  /\ Release(s, FALSE)
  /\ UNCHANGED <<latest, deleted, files, lock, job, server, request, happened>>
MarkFailureLate(s) ==
  /\ Step(s, "failing")
  /\ asset' = IF run[s].attempts > MaxAttempts /\ AssetOf(s) \in Pending
              THEN [asset EXCEPT ![AssetOf(s)].status = "failure"] ELSE asset
  /\ Release(s, FALSE)
  /\ UNCHANGED <<latest, deleted, files, lock, job, server, request, happened>>

\* The deferred markSnapshotFailure, on the last attempt only.
MarkFailure(s) ==
  /\ Step(s, "failing")
  /\ asset' = IF run[s].attempts >= MaxAttempts /\ AssetOf(s) \in Pending
              THEN [asset EXCEPT ![AssetOf(s)].status = "failure"] ELSE asset
  /\ Release(s, FALSE)
  /\ UNCHANGED <<latest, deleted, files, lock, job, server, request, happened>>

\* Broken on purpose (mutant): the release forgets the token.
ReleaseAnyLock(s) ==
  /\ run[s].at = "releasing"
  /\ lock' = [holder |-> None, ttl |-> 0]
  /\ run' = [run EXCEPT ![s].at = "returned"]
  /\ UNCHANGED <<asset, latest, deleted, files, job, server, request, happened>>

\* The deferred release deletes the lock row only while it has our token.
ReleaseLock(s) ==
  /\ run[s].at = "releasing"
  /\ lock' = IF lock.holder = s THEN [holder |-> None, ttl |-> 0] ELSE lock
  /\ run' = [run EXCEPT ![s].at = "returned"]
  /\ UNCHANGED <<asset, latest, deleted, files, job, server, request, happened>>

\* The cancelled context makes the next step that uses it fail; the asset is
\* not marked then.
Interrupt(s) ==
  /\ run[s].cancelled
  /\ \/ run[s].at \in {"claimed", "loaded"} /\ Return(s, FALSE)
     \/ run[s].at \in {"locked", "capturing", "renamed", "failing"} /\ Release(s, FALSE)
  /\ UNCHANGED <<asset, latest, deleted, files, lock, job, server, request, happened>>

\* Where a database error leads from each stage.
AfterError == [claimed |-> "returned", loaded |-> "returned", locked |-> "releasing",
               renamed |-> "failing", failing |-> "releasing",
               releasing |-> "returned"]

DatabaseError(s) ==
  /\ happened.errors < MaxErrors
  /\ \/ /\ run[s].at \in DOMAIN AfterError
        /\ run' = [run EXCEPT ![s].at = AfterError[run[s].at], ![s].ok = FALSE]
        /\ UNCHANGED job
     \/ /\ run[s].at = "returned"
        /\ run' = [run EXCEPT ![s] = NoRun]
        /\ job' = IF Holds(s) THEN [job EXCEPT ![run[s].job].by = None] ELSE job
  /\ happened' = [happened EXCEPT !.errors = @ + 1]
  /\ UNCHANGED <<asset, latest, deleted, files, lock, server, request>>

-----------------------------------------------------------------------------
(* Server processes and the clock.                                          *)

\* SIGTERM: the worker claims no more, the context of its handler is
\* cancelled, and the process lives on until the web server has shut down.
Shutdown(s) ==
  /\ server[s].mode = "up"
  /\ happened.crashes < MaxCrashes
  /\ happened' = [happened EXCEPT !.crashes = @ + 1]
  /\ server' = [server EXCEPT ![s].mode = "stopping"]
  /\ run' = [run EXCEPT ![s].cancelled = (run[s].at # "idle")]
  /\ UNCHANGED <<asset, latest, deleted, files, lock, job, request>>

\* The process ends, whatever its worker was doing.
End(s) ==
  /\ server' = [server EXCEPT ![s].mode = "down"]
  /\ run' = [run EXCEPT ![s] = NoRun]
  /\ job' = [j \in Job |-> IF job[j].by = s THEN [job[j] EXCEPT !.by = None] ELSE job[j]]
  /\ UNCHANGED <<asset, latest, deleted, files, lock, request>>

Exit(s) == server[s].mode = "stopping" /\ End(s) /\ UNCHANGED happened

Crash(s) ==
  /\ server[s].mode = "up"
  /\ happened.crashes < MaxCrashes
  /\ happened' = [happened EXCEPT !.crashes = @ + 1]
  /\ End(s)

FreeCopies(a) == {n \in 1..Copies : Free(<<a, n>>)}
NewJobs(as) == {<<a, CHOOSE n \in FreeCopies(a) : \A m \in FreeCopies(a) : n <= m>> : a \in as}

\* Broken on purpose (mutant): a process starts without requeueing.
StartOnly(s, enabled) ==
  /\ server[s].mode = "down"
  /\ server' = [server EXCEPT ![s] = [mode |-> "up", enabled |-> enabled]]
  /\ UNCHANGED <<asset, latest, deleted, files, lock, job, run, request, happened>>

\* A process starts, perhaps with another configuration.  With snapshots
\* enabled RequeuePendingSnapshots adds a job for every pending asset.
Start(s, enabled) ==
  /\ server[s].mode = "down"
  /\ server' = [server EXCEPT ![s] = [mode |-> "up", enabled |-> enabled]]
  /\ IF enabled
     THEN /\ \A a \in Pending : FreeCopies(a) # {}
          /\ job' = [j \in Job |-> IF j \in NewJobs(Pending) THEN Queued ELSE job[j]]
     ELSE UNCHANGED job
  /\ UNCHANGED <<asset, latest, deleted, files, lock, run, request, happened>>

Down(n) == IF n > 0 THEN n - 1 ELSE 0

\* The capture is over within its limit, unless the process stalls.
Overrun == {s \in Server : run[s].at \in {"locked", "capturing"} /\ run[s].age >= CaptureLimit}

Timing == \/ lock.ttl > 0
          \/ \E j \in Job : job[j].due > 0

Tick ==
  /\ Timing
  /\ \/ Overrun = {} /\ UNCHANGED happened
     \/ /\ Overrun # {} /\ happened.stalls < MaxStalls
        /\ happened' = [happened EXCEPT !.stalls = @ + 1]
  /\ lock' = [lock EXCEPT !.ttl = Down(@)]
  /\ job' = [j \in Job |-> [job[j] EXCEPT !.due = Down(@)]]
  /\ run' = [s \in Server |->
       IF run[s].at \in {"locked", "capturing"} /\ run[s].age < CaptureLimit
       THEN [run[s] EXCEPT !.age = @ + 1] ELSE run[s]]
  /\ UNCHANGED <<asset, latest, deleted, files, server, request>>

-----------------------------------------------------------------------------
(* Requests.                                                                *)

\* The newest complete snapshot of a bookmark other than a, as deleteAsset
\* looks it up.
NewestOther(a) ==
  LET others == {c \in Asset \ {a} : /\ BookmarkOf[c] = BookmarkOf[a]
                                     /\ asset[c].type = "snapshot"
                                     /\ asset[c].status = "complete"}
  IN IF others = {} THEN None ELSE CHOOSE c \in others : \A d \in others : d <= c

FileOf(a) == IF asset[a].named THEN {NameOf[a]} ELSE {}

\* The row, with its file name, is read before the deleting transaction.
ReadForDelete(r, a) ==
  /\ request[r].at = "idle"
  /\ Exists(a)
  /\ request' = [request EXCEPT ![r] = [at |-> "deleting", asset |-> a, doomed |-> FileOf(a)]]
  /\ UNCHANGED <<asset, latest, deleted, files, lock, job, server, run, happened>>

\* Broken on purpose (mutant): latest_snapshot_id is not looked after.
DropAssetOnly(r, next) ==
  /\ request[r].at = "deleting"
  /\ asset' = [asset EXCEPT ![request[r].asset].status = "deleted"]
  /\ request' = [request EXCEPT ![r].at = "removing"]
  /\ UNCHANGED <<latest, deleted, files, lock, job, server, run, happened>>

\* The transaction of a deletion: latest_snapshot_id moves on to next if it
\* was this asset, and the row goes.
DropAsset(r, next) ==
  LET a == request[r].asset
      b == BookmarkOf[a] IN
  /\ request[r].at = "deleting"
  /\ latest' = IF latest[b] = a THEN [latest EXCEPT ![b] = next] ELSE latest
  /\ asset' = [asset EXCEPT ![a].status = "deleted"]
  /\ request' = [request EXCEPT ![r].at = "removing"]
  /\ UNCHANGED <<deleted, files, lock, job, server, run, happened>>

\* deleteAsset points latest_snapshot_id to the newest snapshot left; the
\* admin page's deleteAdminBookmarkAsset clears it.
DeleteAsset(r) == DropAsset(r, NewestOther(request[r].asset))
DeleteAdminAsset(r) == DropAsset(r, None)

\* DeleteData: the bookmark with its assets, whose file names it reads in the
\* same transaction.
DeleteBookmark(r, b) ==
  /\ request[r].at = "idle" /\ b \notin deleted
  /\ LET gone == {a \in Asset : BookmarkOf[a] = b /\ Exists(a)} IN
     /\ asset' = [a \in Asset |-> IF a \in gone THEN [asset[a] EXCEPT !.status = "deleted"]
                                  ELSE asset[a]]
     /\ request' = [request EXCEPT ![r] = [at |-> "removing", asset |-> None,
                                           doomed |-> UNION {FileOf(a) : a \in gone}]]
  /\ latest' = [latest EXCEPT ![b] = None]
  /\ deleted' = deleted \cup {b}
  /\ UNCHANGED <<files, lock, job, server, run, happened>>

\* removeStoredFile, after the commit.
RemoveFile(r) ==
  /\ request[r].at = "removing"
  /\ IF request[r].doomed = {}
     THEN request' = [request EXCEPT ![r] = NoRequest] /\ UNCHANGED files
     ELSE \E f \in request[r].doomed :
            /\ files' = files \ {f}
            /\ request' = [request EXCEPT ![r].doomed = @ \ {f}]
  /\ UNCHANGED <<asset, latest, deleted, lock, job, server, run, happened>>

\* storeUploadedAsset and storeSnapshotUpload: the file gets its final name
\* first.
UploadFile(r, a) ==
  /\ request[r].at = "idle"
  /\ asset[a].status = "unborn" /\ BookmarkOf[a] \notin deleted
  /\ \A q \in Request : request[q].asset # a
  /\ files' = files \cup {NameOf[a]}
  /\ request' = [request EXCEPT ![r] = [at |-> "uploading", asset |-> a, doomed |-> {NameOf[a]}]]
  /\ UNCHANGED <<asset, latest, deleted, lock, job, server, run, happened>>

\* Broken on purpose (mutant): the deferred removal runs after a success too.
InsertAndRemove(r, type) ==
  /\ request[r].at = "uploading"
  /\ BookmarkOf[request[r].asset] \notin deleted
  /\ asset' = [asset EXCEPT ![request[r].asset] =
                 [status |-> "complete", type |-> type, named |-> TRUE]]
  /\ latest' = IF type = "snapshot"
               THEN [latest EXCEPT ![BookmarkOf[request[r].asset]] = request[r].asset]
               ELSE latest
  /\ request' = [request EXCEPT ![r].at = "removing"]
  /\ UNCHANGED <<deleted, files, lock, job, server, run, happened>>

\* Then the row is inserted, by storeSnapshotUpload with latest_snapshot_id.
InsertUpload(r, type) ==
  LET a == request[r].asset IN
  /\ request[r].at = "uploading"
  /\ BookmarkOf[a] \notin deleted
  /\ asset' = [asset EXCEPT ![a] = [status |-> "complete", type |-> type, named |-> TRUE]]
  /\ latest' = IF type = "snapshot" THEN [latest EXCEPT ![BookmarkOf[a]] = a] ELSE latest
  /\ request' = [request EXCEPT ![r] = NoRequest]
  /\ UNCHANGED <<deleted, files, lock, job, server, run, happened>>

\* A failed insert, which a deleted bookmark makes certain, removes the file.
\* The place of the asset that did not come to be stays empty.
InsertFails(r) ==
  /\ request[r].at = "uploading"
  /\ \/ BookmarkOf[request[r].asset] \in deleted /\ UNCHANGED happened
     \/ /\ happened.errors < MaxErrors
        /\ happened' = [happened EXCEPT !.errors = @ + 1]
  /\ asset' = [asset EXCEPT ![request[r].asset].status = "deleted"]
  /\ request' = [request EXCEPT ![r].at = "removing"]
  /\ UNCHANGED <<latest, deleted, files, lock, job, server, run>>

\* The process that serves the request ends.
RequestDies(r) ==
  /\ request[r].at # "idle"
  /\ happened.crashes < MaxCrashes
  /\ happened' = [happened EXCEPT !.crashes = @ + 1]
  /\ request' = [request EXCEPT ![r] = NoRequest]
  /\ asset' = IF request[r].at = "uploading"
              THEN [asset EXCEPT ![request[r].asset].status = "deleted"] ELSE asset
  /\ UNCHANGED <<latest, deleted, files, lock, job, server, run>>

-----------------------------------------------------------------------------
ProcessStep(s) ==
  \/ Load(s) \/ AcquireLock(s) \/ Reload(s)
  \/ \E ok \in BOOLEAN : Capture(s, ok)
  \/ Rename(s) \/ Commit(s) \/ MarkFailure(s) \/ ReleaseLock(s)
  \/ Interrupt(s) \/ Settle(s)

RequestStep(r) ==
  \/ DeleteAsset(r) \/ DeleteAdminAsset(r) \/ RemoveFile(r)
  \/ \E type \in {"snapshot", "upload"} : InsertUpload(r, type)
  \/ InsertFails(r)

Next ==
  \/ \E a \in Asset : EnqueueSnapshot(a)
  \/ \E s \in Server :
       \/ \E j \in Job : Claim(s, j)
       \/ LoseLease(s)
       \/ ProcessStep(s)
       \/ DatabaseError(s)
       \/ Shutdown(s)
       \/ Exit(s)
       \/ Crash(s)
       \/ \E enabled \in BOOLEAN : Start(s, enabled)
  \/ Tick
  \/ \E r \in Request :
       \/ \E a \in Asset : ReadForDelete(r, a) \/ UploadFile(r, a)
       \/ \E b \in Bookmark : DeleteBookmark(r, b)
       \/ RequestStep(r)
       \/ RequestDies(r)

Spec == Init /\ [][Next]_vars

\* Workers poll, handlers have timeouts, a stopping process ends and is
\* started again, the clock moves.
Fairness ==
  /\ WF_vars(Tick)
  /\ \A s \in Server :
       /\ WF_vars(\E j \in Job : Claim(s, j))
       /\ WF_vars(ProcessStep(s))
       /\ WF_vars(Exit(s))
       /\ WF_vars(\E enabled \in BOOLEAN : Start(s, enabled))

FairSpec == Spec /\ Fairness

-----------------------------------------------------------------------------
\* Types of the rows, the files and everyone's locals.
TypeOK ==
  /\ asset \in [Asset -> AssetRow]
  /\ latest \in [Bookmark -> Asset \cup {None}]
  /\ deleted \subseteq Bookmark
  /\ files \subseteq {NameOf[a] : a \in Asset}
  /\ lock \in [holder : Server \cup {None}, ttl : 0..LockLease]
  /\ job \in [Job -> [state : {"free", "pending", "running"}, attempts : Nat,
                      due : Nat, by : Server \cup {None}]]
  /\ server \in [Server -> [mode : {"up", "stopping", "down"}, enabled : BOOLEAN]]
  /\ run \in [Server -> [at : Stage, job : Job \cup {<<None, None>>}, attempts : Nat,
                         age : 0..CaptureLimit, ok : BOOLEAN, cancelled : BOOLEAN]]
  /\ request \in [Request -> [at : {"idle", "deleting", "removing", "uploading"},
                              asset : Asset \cup {None}, doomed : SUBSET {NameOf[a] : a \in Asset}]]
  /\ happened \in [crashes : Nat, stalls : Nat, errors : Nat]

\* R5 of docs/specs/linkding-parity.md: a completed asset record does not
\* point to a missing file, whatever uploads, deletions, duplicate snapshot
\* jobs, crashes and database errors come together.
CompleteHasFile ==
  \A a \in Asset : asset[a].status = "complete" => NameOf[a] \in files

\* R5: SingleFile runs serially, in all server processes together.  The lock
\* is not renewed: a capture must end before the lease of its lock does.
SerialCapture ==
  \A s, t \in Server :
    run[s].at = "capturing" /\ run[t].at = "capturing" =>
      s = t \/ happened.stalls > 0

\* latest_snapshot_id is a complete snapshot of that bookmark, or NULL.
LatestValid ==
  \A b \in Bookmark : latest[b] # None =>
    /\ b \notin deleted
    /\ BookmarkOf[latest[b]] = b
    /\ asset[latest[b]].type = "snapshot" /\ asset[latest[b]].status = "complete"

\* recover.go: duplicate jobs are safe.  Two runs for one asset, even at the
\* same time after a lease or the lock ran out, settle it once: a failure
\* mark never hides a completed snapshot, nor is a failed one completed.
SettledOnce ==
  [][\A a \in Asset : asset[a].status \in {"complete", "failure"} =>
       asset'[a].status \in {asset[a].status, "deleted"}]_vars

\* With one server and a healthy database no pending snapshot is forgotten:
\* as long as snapshots are enabled it has a job that will try it again, or
\* is at it.  ErrSnapshotBusy on a last attempt would lose it, so this rests
\* on the retry delays, which outlast the lock of a stopped process, and on
\* requeueing at the start.
PendingHasJob ==
  (\A s \in Server : server[s].mode = "up" /\ server[s].enabled) /\ happened.errors = 0 =>
    \A a \in Pending : \E j \in Job : j[1] = a /\ ~Free(j)

\* A pending snapshot is settled in the end, once snapshots stay enabled.
EverySnapshotSettles ==
  (<>[](\A s \in Server : server[s].enabled)) =>
    \A a \in Asset : asset[a].status = "pending" ~> asset[a].status # "pending"
=============================================================================
