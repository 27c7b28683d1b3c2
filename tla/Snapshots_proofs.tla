-------------------------- MODULE Snapshots_proofs --------------------------
(***************************************************************************)
(* Proofs about Snapshots, for any assets, bookmarks, servers, requests,    *)
(* delays and bounds.                                                       *)
(***************************************************************************)
EXTENDS Snapshots, FiniteSetTheorems, WellFoundedInduction, TLAPS

\* A busy worker has a job and has counted an attempt; a request on an asset
\* names it; only a running job has a worker.
LocalsOK ==
  /\ \A s \in Server : run[s].at # "idle" => run[s].job \in Job /\ run[s].attempts > 0
  /\ \A r \in Request :
       request[r].at \in {"deleting", "uploading"} => request[r].asset \in Asset
  /\ \A j \in Job : job[j].by # None => job[j].state = "running"

TypeInv == TypeOK /\ LocalsOK

\* The types of a queued job and of a worker's and a request's locals.
JobRow == [state : {"free", "pending", "running"}, attempts : Nat, due : Nat,
           by : Server \cup {None}]
Run == [at : Stage, job : Job \cup {<<None, None>>}, attempts : Nat,
        age : 0..CaptureLimit, ok : BOOLEAN, cancelled : BOOLEAN]
RequestRow == [at : {"idle", "deleting", "removing", "uploading"},
               asset : Asset \cup {None}, doomed : SUBSET {NameOf[a] : a \in Asset}]

\* The type invariant, variable by variable.
LEMMA Types ==
  ASSUME TypeInv
  PROVE  /\ asset \in [Asset -> AssetRow] /\ latest \in [Bookmark -> Asset \cup {None}]
         /\ job \in [Job -> JobRow] /\ run \in [Server -> Run]
         /\ request \in [Request -> RequestRow]
         /\ lock \in [holder : Server \cup {None}, ttl : 0..LockLease]
         /\ server \in [Server -> [mode : {"up", "stopping", "down"}, enabled : BOOLEAN]]
         /\ happened \in [crashes : Nat, stalls : Nat, errors : Nat]
         /\ deleted \subseteq Bookmark /\ files \subseteq {NameOf[a] : a \in Asset}
  BY DEF TypeInv, TypeOK, JobRow, Run, RequestRow

\* None is no asset and no server.
LEMMA NoneApart == None \notin Asset /\ None \notin Server
  BY SnapshotAssumption DEF None

\* A job is of an asset.
LEMMA JobParts == ASSUME NEW j \in Job PROVE j[1] \in Asset
  BY DEF Job

\* The first state has the types.
LEMMA TypeInit == Init => TypeInv
  <1> SUFFICES ASSUME Init PROVE TypeInv
    OBVIOUS
  <1>1. asset \in [Asset -> AssetRow]
    BY DEF Init, AssetRow
  <1>2. lock \in [holder : Server \cup {None}, ttl : 0..LockLease]
    BY SnapshotAssumption DEF Init
  <1>3. job \in [Job -> [state : {"free", "pending", "running"}, attempts : Nat,
                         due : Nat, by : Server \cup {None}]]
    BY DEF Init, NoJob
  <1>4. run \in [Server -> [at : Stage, job : Job \cup {<<None, None>>}, attempts : Nat,
                            age : 0..CaptureLimit, ok : BOOLEAN, cancelled : BOOLEAN]]
    BY SnapshotAssumption DEF Init, NoRun, Stage
  <1>5. request \in [Request -> [at : {"idle", "deleting", "removing", "uploading"},
                       asset : Asset \cup {None}, doomed : SUBSET {NameOf[a] : a \in Asset}]]
    BY DEF Init, NoRequest
  <1>6. server \in [Server -> [mode : {"up", "stopping", "down"}, enabled : BOOLEAN]]
    <2>1. [mode : {"up"}, enabled : BOOLEAN] \subseteq [mode : {"up", "stopping", "down"}, enabled : BOOLEAN]
      OBVIOUS
    <2> QED BY <2>1 DEF Init
  <1>7. /\ latest \in [Bookmark -> Asset \cup {None}] /\ deleted \subseteq Bookmark
        /\ files \subseteq {NameOf[a] : a \in Asset}
        /\ happened \in [crashes : Nat, stalls : Nat, errors : Nat]
    BY DEF Init
  <1>8. LocalsOK
    BY DEF Init, LocalsOK, NoRun, NoRequest, NoJob
  <1> QED BY <1>1, <1>2, <1>3, <1>4, <1>5, <1>6, <1>7, <1>8 DEF TypeInv, TypeOK

-----------------------------------------------------------------------------
(* The steps in three groups: those that leave rows, files and requests     *)
(* alone, those of a worker that write them, and those of requests.         *)

Tables == <<asset, latest, deleted, files, request>>

WorkerWrites(s) == Rename(s) \/ Commit(s) \/ MarkFailure(s)

RequestWrites(r) ==
  \/ \E a \in Asset : ReadForDelete(r, a) \/ UploadFile(r, a)
  \/ \E b \in Bookmark : DeleteBookmark(r, b)
  \/ DeleteAsset(r) \/ DeleteAdminAsset(r) \/ RemoveFile(r)
  \/ \E type \in {"snapshot", "upload"} : InsertUpload(r, type)
  \/ InsertFails(r) \/ RequestDies(r)

JobsOK ==
  /\ job \in [Job -> JobRow]
  /\ \A j \in Job : job[j].by # None => job[j].state = "running"
RunsOK ==
  /\ run \in [Server -> Run]
  /\ \A s \in Server : run[s].at # "idle" => run[s].job \in Job /\ run[s].attempts > 0

\* What the steps of a worker do to its locals.
LEMMA NoRunType == NoRun \in Run /\ NoRun.at = "idle" /\ NoRun.age = 0 /\ ~NoRun.ok /\ ~NoRun.cancelled
  BY SnapshotAssumption DEF NoRun, Run, Stage

Claimed(j, n) == [NoRun EXCEPT !.at = "claimed", !.job = j, !.attempts = n]

\* The locals of a worker that has just claimed a job.
LEMMA ClaimedRun ==
  ASSUME NEW j \in Job, NEW n \in Nat
  PROVE  /\ Claimed(j, n) \in Run /\ Claimed(j, n).at = "claimed"
         /\ Claimed(j, n).job = j /\ Claimed(j, n).attempts = n
         /\ Claimed(j, n).age = 0 /\ ~Claimed(j, n).ok /\ ~Claimed(j, n).cancelled
  <1> DEFINE r1 == [NoRun EXCEPT !.at = "claimed"]  r2 == [r1 EXCEPT !.job = j]
  <1>1. r1 \in Run /\ r1.at = "claimed" /\ r1.age = 0 /\ ~r1.ok /\ ~r1.cancelled
    BY NoRunType DEF Run, Stage
  <1>2. r2 \in Run /\ r2.at = "claimed" /\ r2.job = j /\ r2.age = 0 /\ ~r2.ok /\ ~r2.cancelled
    <2> HIDE DEF r1
    <2> QED BY <1>1 DEF Run
  <1>3. Claimed(j, n) = [r2 EXCEPT !.attempts = n]
    BY Zenon DEF Claimed
  <1> HIDE DEF r2
  <1> QED BY <1>2, <1>3 DEF Run

\* A step of ProcessSnapshot moves its worker on.
Moves(s, at) ==
  /\ run' \in [Server -> Run]
  /\ run'[s].at = at /\ run'[s].job = run[s].job /\ run'[s].attempts = run[s].attempts
  /\ run'[s].cancelled = run[s].cancelled
  /\ \A t \in Server \ {s} : run'[t] = run[t]

\* The ways in which the actions say that a worker moves on.
LEMMA RunMoves ==
  ASSUME run \in [Server -> Run], NEW s \in Server, NEW at \in Stage,
         \/ run' = [run EXCEPT ![s].at = at]
         \/ \E ok \in BOOLEAN : run' = [run EXCEPT ![s].at = at, ![s].ok = ok]
         \/ run' = [run EXCEPT ![s].at = at, ![s].age = 0]
  PROVE  Moves(s, at)
  <1>1. CASE run' = [run EXCEPT ![s].at = at]
    BY <1>1 DEF Run, Moves
  <1>2. ASSUME NEW ok \in BOOLEAN, run' = [run EXCEPT ![s].at = at, ![s].ok = ok]
        PROVE  Moves(s, at)
    <2>2. run'[s] = [run[s] EXCEPT !.at = at, !.ok = ok] /\ run[s] \in Run
      BY <1>2
    <2>0. run'[s] \in Run
      BY <2>2 DEF Run
    <2>1. run' \in [Server -> Run]
      BY <1>2, <2>0
    <2>3. run'[s].cancelled = run[s].cancelled
      BY <2>2 DEF Run
    <2>4. run'[s].at = at /\ run'[s].job = run[s].job /\ run'[s].attempts = run[s].attempts
      BY <2>2 DEF Run
    <2> QED BY <1>2, <2>1, <2>3, <2>4 DEF Moves
  <1>3. CASE run' = [run EXCEPT ![s].at = at, ![s].age = 0]
    <2>2. run'[s] = [run[s] EXCEPT !.at = at, !.age = 0] /\ run[s] \in Run
      BY <1>3
    <2>0. run'[s] \in Run
      BY <2>2, SnapshotAssumption DEF Run
    <2>1. run' \in [Server -> Run]
      BY <1>3, <2>0
    <2>3. run'[s].cancelled = run[s].cancelled
      BY <2>2 DEF Run
    <2>4. run'[s].at = at /\ run'[s].job = run[s].job /\ run'[s].attempts = run[s].attempts
      BY <2>2 DEF Run
    <2> QED BY <1>3, <2>1, <2>3, <2>4 DEF Moves
  <1> QED BY <1>1, <1>2, <1>3

\* Where each step of ProcessSnapshot leads.
LEMMA ProcessMoves ==
  ASSUME run \in [Server -> Run], NEW s \in Server
  PROVE  /\ Load(s) => /\ run[s].at = "claimed"
                       /\ \E at \in {"loaded", "returned"} : Moves(s, at)
         /\ AcquireLock(s) => /\ run[s].at = "loaded"
                              /\ \E at \in {"locked", "returned"} : Moves(s, at)
         /\ Reload(s) => /\ run[s].at = "locked"
                         /\ \E at \in {"capturing", "releasing"} : Moves(s, at)
         /\ \A ok \in BOOLEAN : Capture(s, ok) =>
              /\ run[s].at = "capturing"
              /\ \E at \in {"captured", "failing"} : Moves(s, at)
         /\ Rename(s) => run[s].at = "captured" /\ Moves(s, "renamed")
         /\ Commit(s) => /\ run[s].at = "renamed"
                         /\ \E at \in {"failing", "releasing"} : Moves(s, at)
         /\ MarkFailure(s) => run[s].at = "failing" /\ Moves(s, "releasing")
         /\ ReleaseLock(s) => run[s].at = "releasing" /\ Moves(s, "returned")
         /\ Interrupt(s) =>
              \/ run[s].at \in {"claimed", "loaded"} /\ Moves(s, "returned")
              \/ run[s].at \in {"locked", "capturing", "renamed", "failing"} /\ Moves(s, "releasing")
  <1> USE RunMoves DEF Step, Return, Release, Stage
  <1>1. Load(s) => run[s].at = "claimed"
                   /\ \E at \in {"loaded", "returned"} : Moves(s, at)
    BY DEF Load
  <1>2. AcquireLock(s) => run[s].at = "loaded"
                          /\ \E at \in {"locked", "returned"} : Moves(s, at)
    BY DEF AcquireLock
  <1>3. Reload(s) => run[s].at = "locked"
                     /\ \E at \in {"capturing", "releasing"} : Moves(s, at)
    BY DEF Reload
  <1>4. \A ok \in BOOLEAN : Capture(s, ok) =>
          /\ run[s].at = "capturing"
          /\ \E at \in {"captured", "failing"} : Moves(s, at)
    BY DEF Capture
  <1>5. Rename(s) => run[s].at = "captured" /\ Moves(s, "renamed")
    BY DEF Rename
  <1>6. Commit(s) => run[s].at = "renamed"
                     /\ \E at \in {"failing", "releasing"} : Moves(s, at)
    BY DEF Commit
  <1>7. MarkFailure(s) => run[s].at = "failing" /\ Moves(s, "releasing")
    BY DEF MarkFailure
  <1>8. ReleaseLock(s) => run[s].at = "releasing" /\ Moves(s, "returned")
    BY DEF ReleaseLock
  <1>9. Interrupt(s) =>
          \/ run[s].at \in {"claimed", "loaded"} /\ Moves(s, "returned")
          \/ run[s].at \in {"locked", "capturing", "renamed", "failing"} /\ Moves(s, "releasing")
    BY DEF Interrupt
  <1> QED BY <1>1, <1>2, <1>3, <1>4, <1>5, <1>6, <1>7, <1>8, <1>9, Zenon

\* A run starts with a queued job and gets to its closing transaction only by
\* Rename; a job is queued for a pending asset.
QuietRun(s) ==
  /\ run'[s].at = "renamed" => run[s].at = "renamed"
  /\ run'[s].at # "idle" =>
       \/ run[s].at # "idle" /\ run'[s].job = run[s].job
       \/ run'[s].at = "claimed" /\ run'[s].job \in Job /\ ~Free(run'[s].job)
QuietJob(j) == job'[j].state # "free" => ~Free(j) \/ j[1] \in Pending
Quiet ==
  /\ UNCHANGED Tables
  /\ \A s \in Server : QuietRun(s)
  /\ \A j \in Job : QuietJob(j)

\* The steps of a server that leave the rows alone.
LEMMA QuietSteps ==
  ASSUME TypeInv, NEW s \in Server,
         \/ \E j \in Job : Claim(s, j)
         \/ LoseLease(s) \/ Load(s) \/ AcquireLock(s) \/ Reload(s)
         \/ \E ok \in BOOLEAN : Capture(s, ok)
         \/ ReleaseLock(s) \/ Interrupt(s) \/ Settle(s) \/ DatabaseError(s)
         \/ Shutdown(s) \/ Exit(s) \/ Crash(s)
         \/ \E enabled \in BOOLEAN : Start(s, enabled)
  PROVE  Quiet
  <1>0. run \in [Server -> Run] /\ job \in [Job -> JobRow]
    BY Types
  <1>00. \A t \in Server : run'[t] = run[t] => QuietRun(t)
    BY DEF QuietRun
  <1>01. ASSUME UNCHANGED job PROVE \A j \in Job : QuietJob(j)
    BY <1>01 DEF QuietJob, Free
  <1>02. ASSUME run' = [run EXCEPT ![s] = NoRun] PROVE \A t \in Server : QuietRun(t)
    BY <1>0, <1>02, NoRunType DEF QuietRun
  <1>1. ASSUME NEW j \in Job, Claim(s, j) PROVE Quiet
    <2>1. run' = [run EXCEPT ![s] = Claimed(j, job[j].attempts + 1)]
      BY <1>1, Zenon DEF Claim, Claimed
    <2>2. job[j].state # "free" /\ \A i \in Job \ {j} : job'[i] = job[i]
      BY <1>0, <1>1 DEF Claim
    <2>3. \A i \in Job : QuietJob(i)
      BY <2>2 DEF QuietJob, Free
    <2>4. job[j].attempts + 1 \in Nat
      BY <1>0 DEF JobRow
    <2>5. QuietRun(s)
      BY <1>0, <2>1, <2>2, <2>4, ClaimedRun DEF QuietRun, Free
    <2>6. \A t \in Server : QuietRun(t)
      BY <1>0, <1>00, <2>1, <2>5
    <2> QED BY <1>1, <2>3, <2>6 DEF Claim, Quiet, Tables
  <1>2. CASE LoseLease(s) \/ Shutdown(s)
    <2>1. PICK c : run' = [run EXCEPT ![s].cancelled = c]
      BY <1>2 DEF LoseLease, Shutdown
    <2>2. \A t \in Server : run'[t].at = run[t].at /\ run'[t].job = run[t].job
      BY <1>0, <2>1 DEF Run
    <2>3. \A t \in Server : QuietRun(t)
      BY <2>2 DEF QuietRun
    <2> QED BY <1>01, <1>2, <2>3 DEF LoseLease, Shutdown, Quiet, Tables
  <1>3. ASSUME run[s].at # "idle", NEW at \in Stage \ {"renamed"}, Moves(s, at)
        PROVE  \A t \in Server : QuietRun(t)
    BY <1>00, <1>3 DEF Moves, QuietRun
  <1>4. CASE \/ Load(s) \/ AcquireLock(s) \/ Reload(s) \/ ReleaseLock(s) \/ Interrupt(s)
             \/ \E ok \in BOOLEAN : Capture(s, ok)
    <2>1. run[s].at # "idle" /\ \E at \in Stage \ {"renamed"} : Moves(s, at)
      BY <1>0, <1>4, ProcessMoves DEF Stage
    <2>2. UNCHANGED job /\ UNCHANGED Tables
      BY <1>4 DEF Load, AcquireLock, Reload, ReleaseLock, Interrupt, Capture, Tables
    <2> QED BY <1>01, <1>3, <2>1, <2>2 DEF Quiet
  <1>5. CASE Settle(s)
    <2>1. \A j \in Job : job'[j].state # "free" => ~Free(j)
      <3>1. Holds(s) => job[run[s].job].state = "running" /\ run[s].job \in Job
        BY <1>5, SnapshotAssumption DEF Holds, TypeInv, LocalsOK
      <3>2. \A j \in Job : j # run[s].job \/ ~Holds(s) => job'[j] = job[j]
        BY <1>0, <1>5, <3>1 DEF Settle
      <3> QED BY <3>1, <3>2 DEF Free
    <2> QED BY <1>02, <1>5, <2>1 DEF Settle, Quiet, QuietJob, Tables
  <1>6. CASE DatabaseError(s)
    <2>1. CASE /\ run[s].at = "returned" /\ run' = [run EXCEPT ![s] = NoRun]
               /\ job' = IF Holds(s) THEN [job EXCEPT ![run[s].job].by = None] ELSE job
      <3>1. \A j \in Job : job'[j].state = job[j].state
        BY <1>0, <2>1 DEF JobRow
      <3> QED BY <1>02, <1>6, <2>1, <3>1 DEF DatabaseError, Quiet, QuietJob, Free, Tables
    <2>2. CASE /\ run[s].at \in DOMAIN AfterError /\ UNCHANGED job
               /\ run' = [run EXCEPT ![s].at = AfterError[run[s].at], ![s].ok = FALSE]
      <3>1. run[s].at # "idle" /\ AfterError[run[s].at] \in Stage \ {"renamed"}
        BY <2>2 DEF AfterError, Stage
      <3>2. Moves(s, AfterError[run[s].at])
        BY <1>0, <2>2, <3>1, RunMoves
      <3> QED BY <1>01, <1>3, <1>6, <2>2, <3>1, <3>2 DEF DatabaseError, Quiet, Tables
    <2> QED BY <1>6, <2>1, <2>2 DEF DatabaseError
  <1>7. CASE Exit(s) \/ Crash(s)
    <2>1. End(s)
      BY <1>7 DEF Exit, Crash
    <2>2. \A j \in Job : job'[j].state = job[j].state
      BY <1>0, <2>1 DEF End, JobRow
    <2> QED BY <1>02, <2>1, <2>2 DEF End, Quiet, QuietJob, Free, Tables
  <1>8. ASSUME NEW enabled \in BOOLEAN, Start(s, enabled) PROVE Quiet
    <2>1. \A j \in NewJobs(Pending) : j[1] \in Pending
      BY DEF NewJobs
    <2>2. \A j \in Job : QuietJob(j)
      BY <1>8, <2>1 DEF Start, QuietJob, Free
    <2> QED BY <1>00, <1>8, <2>2 DEF Start, Quiet, Tables
  <1> QED BY <1>1, <1>2, <1>4, <1>5, <1>6, <1>7, <1>8

\* Time leaves the rows alone.
LEMMA QuietTick == ASSUME TypeInv, Tick PROVE Quiet
  <1>1. \A s \in Server : run'[s].at = run[s].at /\ run'[s].job = run[s].job
    <2> DEFINE new(s) == IF run[s].at \in {"locked", "capturing"} /\ run[s].age < CaptureLimit
                         THEN [run[s] EXCEPT !.age = @ + 1] ELSE run[s]
    <2>1. run' = [s \in Server |-> new(s)]
      BY DEF Tick
    <2>2. \A s \in Server : new(s).at = run[s].at /\ new(s).job = run[s].job
      BY Types DEF Run
    <2> HIDE DEF new
    <2> QED BY <2>1, <2>2
  <1>2. \A j \in Job : job'[j].state = job[j].state
    BY Types DEF Tick, JobRow
  <1> QED BY <1>1, <1>2 DEF Tick, Quiet, QuietRun, QuietJob, Free, Tables

\* Every step is one that leaves the rows alone, or one of the writes below.
LEMMA StepCases ==
  ASSUME TypeInv, [Next]_vars
  PROVE  \/ Quiet
         \/ \E a \in Asset : EnqueueSnapshot(a)
         \/ \E s \in Server : WorkerWrites(s)
         \/ \E r \in Request : RequestWrites(r)
  <1>1. CASE UNCHANGED vars
    BY <1>1 DEF vars, Tables, Quiet, QuietRun, QuietJob, Free
  <1>2. CASE Tick
    BY <1>2, QuietTick
  <1>3. CASE Next
    BY <1>2, <1>3, QuietSteps DEF Next, ProcessStep, RequestStep, WorkerWrites, RequestWrites
  <1> QED BY <1>1, <1>3

-----------------------------------------------------------------------------
(* Types.                                                                   *)

\* The steps that leave rows, files and requests alone keep the types of the rest.
LEMMA QuietTypes ==
  ASSUME TypeInv, UNCHANGED Tables, JobsOK', RunsOK',
         lock' \in [holder : Server \cup {None}, ttl : 0..LockLease],
         server' \in [Server -> [mode : {"up", "stopping", "down"}, enabled : BOOLEAN]],
         happened' \in [crashes : Nat, stalls : Nat, errors : Nat]
  PROVE  TypeInv'
  BY DEF TypeInv, TypeOK, LocalsOK, Tables, JobsOK, RunsOK, JobRow, Run

\* The steps that leave the rows alone keep the types.
LEMMA QuietTypeNext ==
  ASSUME TypeInv, NEW s \in Server,
         \/ \E j \in Job : Claim(s, j)
         \/ LoseLease(s) \/ Load(s) \/ AcquireLock(s) \/ Reload(s)
         \/ \E ok \in BOOLEAN : Capture(s, ok)
         \/ ReleaseLock(s) \/ Interrupt(s) \/ Settle(s) \/ DatabaseError(s)
         \/ Shutdown(s) \/ Exit(s) \/ Crash(s)
         \/ \E enabled \in BOOLEAN : Start(s, enabled)
  PROVE  TypeInv'
  <1>0. /\ JobsOK /\ RunsOK
        /\ lock \in [holder : Server \cup {None}, ttl : 0..LockLease]
        /\ server \in [Server -> [mode : {"up", "stopping", "down"}, enabled : BOOLEAN]]
        /\ happened \in [crashes : Nat, stalls : Nat, errors : Nat]
    BY Types DEF JobsOK, RunsOK, TypeInv, LocalsOK
  <1>00. UNCHANGED Tables
    BY QuietSteps DEF Quiet
  <1>1. ASSUME NEW j \in Job, Claim(s, j) PROVE TypeInv'
    <2>1. job[j] \in JobRow /\ job[j].attempts + 1 \in Nat /\ job[j].attempts + 1 > 0
      BY <1>0 DEF JobsOK, JobRow
    <2>2. JobsOK'
      BY <1>0, <1>1, <2>1 DEF Claim, JobsOK, JobRow
    <2>3. RunsOK'
      <3>1. run' = [run EXCEPT ![s] = Claimed(j, job[j].attempts + 1)]
        BY <1>1, Zenon DEF Claim, Claimed
      <3> QED BY <1>0, <2>1, <3>1, ClaimedRun DEF RunsOK
    <2>4. happened' \in [crashes : Nat, stalls : Nat, errors : Nat]
      <3>1. happened' = happened \/ happened' = [happened EXCEPT !.stalls = @ + 1]
        BY <1>1 DEF Claim
      <3> QED BY <1>0, <3>1
    <2> QED BY <1>0, <1>00, <1>1, <2>2, <2>3, <2>4, QuietTypes DEF Claim
  <1>2. CASE LoseLease(s) \/ Shutdown(s)
    <2>1. PICK c \in BOOLEAN : run' = [run EXCEPT ![s].cancelled = c]
      BY <1>2 DEF LoseLease, Shutdown
    <2>2. RunsOK'
      BY <1>0, <2>1 DEF RunsOK, Run
    <2>3. CASE LoseLease(s)
      BY <1>0, <1>00, <2>2, <2>3, QuietTypes DEF LoseLease, JobsOK
    <2>4. CASE Shutdown(s)
      BY <1>0, <1>00, <2>2, <2>4, QuietTypes DEF Shutdown, JobsOK
    <2> QED BY <1>2, <2>3, <2>4
  <1>3. CASE \/ Load(s) \/ AcquireLock(s) \/ Reload(s) \/ ReleaseLock(s) \/ Interrupt(s)
             \/ \E ok \in BOOLEAN : Capture(s, ok)
    <2>0. RunsOK'
      <3>1. /\ run' \in [Server -> Run] /\ run[s].at # "idle"
            /\ run'[s].job = run[s].job /\ run'[s].attempts = run[s].attempts
            /\ \A t \in Server \ {s} : run'[t] = run[t]
        <4>1. run[s].at # "idle" /\ \E at \in Stage : Moves(s, at)
          BY <1>0, <1>3, ProcessMoves DEF RunsOK, Stage
        <4> QED BY <4>1 DEF Moves
      <3> QED BY <1>0, <3>1 DEF RunsOK
    <2>2. lock' \in [holder : Server \cup {None}, ttl : 0..LockLease]
      <3>1. lock' \in {lock, [holder |-> s, ttl |-> LockLease], [holder |-> None, ttl |-> 0]}
        BY <1>3, Zenon DEF Load, AcquireLock, Reload, ReleaseLock, Interrupt, Capture
      <3> QED BY <1>0, <3>1, SnapshotAssumption
    <2>3. UNCHANGED <<job, server, happened>>
      BY <1>3 DEF Load, AcquireLock, Reload, ReleaseLock, Interrupt, Capture
    <2> QED BY <1>0, <1>00, <2>0, <2>2, <2>3, QuietTypes DEF JobsOK
  <1>4. ASSUME run' = [run EXCEPT ![s] = NoRun] PROVE RunsOK'
    BY <1>0, <1>4, NoRunType DEF RunsOK
  <1>5. CASE Settle(s)
    <2>1. JobsOK'
      <3>1. run[s].job \in Job /\ run[s].attempts \in Nat \ {0} /\ job[run[s].job] \in JobRow
        BY <1>0, <1>5 DEF Settle, RunsOK, JobsOK, Run
      <3>2. run[s].attempts < MaxAttempts => RetryDelay[run[s].attempts] \in Nat
        BY <3>1, SnapshotAssumption
      <3>3. NoJob \in JobRow /\ NoJob.by = None
        BY DEF NoJob, JobRow
      <3> DEFINE j == run[s].job
                 again == [job EXCEPT ![j].state = "pending", ![j].by = None,
                                      ![j].due = RetryDelay[run[s].attempts]]
      <3>4. \/ job' = job \/ job' = [job EXCEPT ![j].by = None] \/ job' = [job EXCEPT ![j] = NoJob]
            \/ run[s].attempts < MaxAttempts /\ job' = again
        <4>1. \/ job' = job \/ job' = [job EXCEPT ![j].by = None] \/ job' = [job EXCEPT ![j] = NoJob]
              \/ ~(run[s].attempts >= MaxAttempts) /\ job' = again
          BY <1>5, Zenon DEF Settle
        <4>2. ~(run[s].attempts >= MaxAttempts) => run[s].attempts < MaxAttempts
          BY <3>1, SnapshotAssumption
        <4> HIDE DEF again, j
        <4> QED BY <4>1, <4>2
      <3>5. CASE job' = job
        BY <1>0, <3>5 DEF JobsOK
      <3>6. CASE job' = [job EXCEPT ![j].by = None] \/ job' = [job EXCEPT ![j] = NoJob]
        <4>1. job'[j] \in JobRow /\ job'[j].by = None /\ \A i \in Job \ {j} : job'[i] = job[i]
          BY <1>0, <3>1, <3>3, <3>6 DEF JobsOK, JobRow
        <4> QED BY <1>0, <3>1, <3>6, <4>1 DEF JobsOK
      <3>7. CASE run[s].attempts < MaxAttempts /\ job' = again
        <4>1. job'[j] \in JobRow /\ job'[j].by = None /\ \A i \in Job \ {j} : job'[i] = job[i]
          <5> DEFINE r1 == [job[j] EXCEPT !.state = "pending", !.by = None]
          <5>1. r1 \in JobRow /\ r1.by = None
            BY <3>1 DEF JobRow
          <5>2. job'[j] = [r1 EXCEPT !.due = RetryDelay[run[s].attempts]]
            BY <1>0, <3>1, <3>7, Zenon DEF JobsOK
          <5>3. \A i \in Job \ {j} : job'[i] = job[i]
            BY <1>0, <3>1, <3>7 DEF JobsOK
          <5> HIDE DEF r1, again
          <5> QED BY <3>2, <3>7, <5>1, <5>2, <5>3 DEF JobRow
        <4> QED BY <1>0, <3>1, <3>7, <4>1 DEF JobsOK
      <3> QED BY <3>4, <3>5, <3>6, <3>7
    <2> QED BY <1>0, <1>00, <1>4, <1>5, <2>1, QuietTypes DEF Settle
  <1>6. CASE DatabaseError(s)
    <2>1. happened' \in [crashes : Nat, stalls : Nat, errors : Nat]
      BY <1>0, <1>6 DEF DatabaseError
    <2>2. CASE run[s].at = "returned" /\ run' = [run EXCEPT ![s] = NoRun]
               /\ job' = IF Holds(s) THEN [job EXCEPT ![run[s].job].by = None] ELSE job
      <3>1. JobsOK'
        <4>1. CASE Holds(s)
          <5>1. run[s].job \in Job /\ job[run[s].job] \in JobRow
            BY <1>0, <2>2 DEF RunsOK, JobsOK
          <5> QED BY <1>0, <2>2, <4>1, <5>1 DEF JobsOK, JobRow
        <4>2. CASE ~Holds(s)
          BY <1>0, <2>2, <4>2 DEF JobsOK
        <4> QED BY <4>1, <4>2
      <3> QED BY <1>0, <1>00, <1>4, <1>6, <2>1, <2>2, <3>1, QuietTypes DEF DatabaseError
    <2>3. CASE /\ run[s].at \in DOMAIN AfterError /\ UNCHANGED job
               /\ run' = [run EXCEPT ![s].at = AfterError[run[s].at], ![s].ok = FALSE]
      <3>1. run[s].at # "idle" /\ AfterError[run[s].at] \in Stage
        BY <2>3 DEF AfterError, Stage
      <3>2. RunsOK'
        <4>1. Moves(s, AfterError[run[s].at])
          BY <1>0, <2>3, <3>1, RunMoves DEF RunsOK
        <4> QED BY <1>0, <3>1, <4>1 DEF RunsOK, Moves
      <3> QED BY <1>0, <1>00, <1>6, <2>1, <2>3, <3>2, QuietTypes DEF DatabaseError, JobsOK
    <2> QED BY <1>6, <2>2, <2>3 DEF DatabaseError
  <1>7. CASE Exit(s) \/ Crash(s)
    <2>1. End(s) /\ happened' \in [crashes : Nat, stalls : Nat, errors : Nat]
      BY <1>0, <1>7 DEF Exit, Crash
    <2>2. JobsOK'
      <3> DEFINE new(j) == IF job[j].by = s THEN [job[j] EXCEPT !.by = None] ELSE job[j]
      <3>1. job' = [j \in Job |-> new(j)]
        BY <2>1 DEF End
      <3>2. \A j \in Job : new(j) \in JobRow /\ new(j).state = job[j].state
                           /\ new(j).by \in {None, job[j].by}
        BY <1>0 DEF JobsOK, JobRow
      <3> HIDE DEF new
      <3> QED BY <1>0, <3>1, <3>2 DEF JobsOK
    <2> QED BY <1>0, <1>00, <1>4, <2>1, <2>2, QuietTypes DEF End
  <1>8. ASSUME NEW enabled \in BOOLEAN, Start(s, enabled) PROVE TypeInv'
    <2>1. JobsOK'
      <3>1. Queued \in JobRow /\ Queued.by = None
        BY DEF Queued, JobRow
      <3>2. UNCHANGED job \/ job' = [j \in Job |-> IF j \in NewJobs(Pending) THEN Queued ELSE job[j]]
        BY <1>8 DEF Start
      <3> QED BY <1>0, <3>1, <3>2 DEF JobsOK
    <2> QED BY <1>0, <1>00, <1>8, <2>1, QuietTypes DEF Start, RunsOK
  <1> QED BY <1>1, <1>2, <1>3, <1>5, <1>6, <1>7, <1>8

\* Time keeps the types.
LEMMA TickTypes == ASSUME TypeInv, Tick PROVE TypeInv'
  <1>0. /\ JobsOK /\ RunsOK
        /\ lock \in [holder : Server \cup {None}, ttl : 0..LockLease]
        /\ server \in [Server -> [mode : {"up", "stopping", "down"}, enabled : BOOLEAN]]
        /\ happened \in [crashes : Nat, stalls : Nat, errors : Nat]
    BY Types DEF JobsOK, RunsOK, TypeInv, LocalsOK
  <1>1. JobsOK'
    <2>1. job' = [j \in Job |-> [job[j] EXCEPT !.due = Down(job[j].due)]]
      BY DEF Tick
    <2>2. \A n \in Nat : Down(n) \in Nat
      BY DEF Down
    <2> DEFINE new(j) == [job[j] EXCEPT !.due = Down(job[j].due)]
    <2>3. \A j \in Job : new(j) \in JobRow /\ new(j).state = job[j].state /\ new(j).by = job[j].by
      BY <1>0, <2>2 DEF JobsOK, JobRow
    <2>4. job' = [j \in Job |-> new(j)]
      BY <2>1
    <2> HIDE DEF new
    <2> QED BY <1>0, <2>3, <2>4 DEF JobsOK
  <1>2. RunsOK'
    <2> DEFINE new(s) == IF run[s].at \in {"locked", "capturing"} /\ run[s].age < CaptureLimit
                         THEN [run[s] EXCEPT !.age = @ + 1] ELSE run[s]
    <2>1. run' = [s \in Server |-> new(s)]
      BY DEF Tick
    <2>2. \A s \in Server : new(s) \in Run /\ new(s).at = run[s].at /\ new(s).job = run[s].job
                             /\ new(s).attempts = run[s].attempts
      BY <1>0, SnapshotAssumption DEF RunsOK, Run
    <2> HIDE DEF new
    <2> QED BY <1>0, <2>1, <2>2 DEF RunsOK
  <1>3. lock' \in [holder : Server \cup {None}, ttl : 0..LockLease]
    BY <1>0, SnapshotAssumption DEF Tick, Down
  <1>4. happened' \in [crashes : Nat, stalls : Nat, errors : Nat]
    BY <1>0 DEF Tick
  <1>5. UNCHANGED Tables /\ UNCHANGED server
    BY DEF Tick, Tables
  <1> QED BY <1>0, <1>1, <1>2, <1>3, <1>4, <1>5, QuietTypes
-----------------------------------------------------------------------------
(* What the steps that write rows, files and requests do, row by row.       *)

RequestsOK ==
  /\ request \in [Request -> RequestRow]
  /\ \A r \in Request : request[r].at \in {"deleting", "uploading"} => request[r].asset \in Asset

\* The row of a gets a status and keeps its type; no other row changes.
Marked(a, status) ==
  /\ asset' \in [Asset -> AssetRow]
  /\ asset'[a].status = status /\ asset'[a].type = asset[a].type
  /\ \A b \in Asset \ {a} : asset'[b] = asset[b]

\* An update of the status changes nothing else.
LEMMA StatusWrite ==
  ASSUME asset \in [Asset -> AssetRow], NEW a \in Asset,
         NEW status \in {"unborn", "pending", "complete", "failure", "deleted"},
         asset' = [asset EXCEPT ![a].status = status]
  PROVE  Marked(a, status)
  BY DEF Marked, AssetRow

\* A request gets to a stage and keeps the rest.
Turns(r, at) ==
  /\ request' \in [Request -> RequestRow]
  /\ request'[r].at = at /\ request'[r].asset = request[r].asset
  /\ request'[r].doomed = request[r].doomed
  /\ \A q \in Request \ {r} : request'[q] = request[q]

\* A request that goes on to the removal of files keeps what it has read.
LEMMA RequestTurns ==
  ASSUME request \in [Request -> RequestRow], NEW r \in Request,
         request' = [request EXCEPT ![r].at = "removing"]
  PROVE  Turns(r, "removing")
  BY DEF Turns, RequestRow

\* The locals of an idle request.
LEMMA NoRequestType ==
  NoRequest \in RequestRow /\ NoRequest.at = "idle" /\ NoRequest.asset = None /\ NoRequest.doomed = {}
  BY DEF NoRequest, RequestRow

\* The row of a request that begins.
Begun(at, a, doomed) == [at |-> at, asset |-> a, doomed |-> doomed]

\* The fields of a request's locals.
LEMMA BegunType ==
  ASSUME NEW at \in {"deleting", "removing", "uploading"}, NEW a \in Asset \cup {None},
         NEW doomed \in SUBSET {NameOf[c] : c \in Asset}
  PROVE  /\ Begun(at, a, doomed) \in RequestRow /\ Begun(at, a, doomed).at = at
         /\ Begun(at, a, doomed).asset = a /\ Begun(at, a, doomed).doomed = doomed
  BY DEF Begun, RequestRow

\* What a deletion removes has a name of an asset.
LEMMA FileOfType ==
  ASSUME NEW a \in Asset PROVE FileOf(a) \in SUBSET {NameOf[c] : c \in Asset}
  BY DEF FileOf

\* EnqueueSnapshot: a row and its job.
LEMMA EnqueueSteps ==
  ASSUME TypeInv, NEW a \in Asset, EnqueueSnapshot(a)
  PROVE  /\ TypeInv'
         /\ asset[a].status = "unborn" /\ BookmarkOf[a] \notin deleted
         /\ \A r \in Request : request[r].asset # a
         /\ asset'[a].status = "pending" /\ asset'[a].type = "snapshot"
         /\ \A b \in Asset \ {a} : asset'[b] = asset[b]
         /\ <<a, 1>> \in Job /\ job'[<<a, 1>>].state = "pending" /\ job'[<<a, 1>>].attempts = 0
         /\ job'[<<a, 1>>].due = 0 /\ job'[<<a, 1>>].by = None
         /\ \A j \in Job \ {<<a, 1>>} : job'[j] = job[j]
         /\ UNCHANGED <<latest, deleted, files, lock, server, run, request, happened>>
  <1>0. asset \in [Asset -> AssetRow] /\ JobsOK
    BY Types DEF TypeInv, LocalsOK, JobsOK
  <1>1. <<a, 1>> \in Job
    BY SnapshotAssumption DEF Job
  <1>2. Queued \in JobRow /\ Queued.state = "pending" /\ Queued.by = None /\ Queued.attempts = 0 /\ Queued.due = 0
    BY DEF Queued, JobRow
  <1>3. JobsOK' /\ job'[<<a, 1>>] = Queued /\ \A j \in Job \ {<<a, 1>>} : job'[j] = job[j]
    BY <1>0, <1>1, <1>2 DEF EnqueueSnapshot, JobsOK
  <1>4. /\ asset' \in [Asset -> AssetRow] /\ asset'[a].status = "pending" /\ asset'[a].type = "snapshot"
        /\ \A b \in Asset \ {a} : asset'[b] = asset[b]
    BY <1>0 DEF EnqueueSnapshot, AssetRow
  <1>5. UNCHANGED <<latest, deleted, files, lock, server, run, request, happened>>
    BY DEF EnqueueSnapshot
  <1>6. TypeInv'
    BY <1>3, <1>4, <1>5 DEF TypeInv, TypeOK, LocalsOK, JobsOK, JobRow
  <1> QED BY <1>1, <1>2, <1>3, <1>4, <1>5, <1>6 DEF EnqueueSnapshot

\* Rename, Commit and MarkFailure.
LEMMA WorkerWriteSteps ==
  ASSUME TypeInv, NEW s \in Server, WorkerWrites(s)
  PROVE  /\ TypeInv' /\ run[s].at # "idle" /\ AssetOf(s) \in Asset
         /\ UNCHANGED <<deleted, lock, job, server, request, happened>>
         /\ \/ Rename(s) /\ UNCHANGED <<asset, latest>> /\ Moves(s, "renamed")
               /\ files' = files \cup {NameOf[AssetOf(s)]}
            \/ UNCHANGED <<asset, latest, files>> /\ \E at \in {"failing", "releasing"} : Moves(s, at)
            \/ /\ run[s].at = "renamed" /\ Moves(s, "releasing")
               /\ AssetOf(s) \in Pending /\ Marked(AssetOf(s), "complete") /\ UNCHANGED files
               /\ latest' = [latest EXCEPT ![BookmarkOf[AssetOf(s)]] = AssetOf(s)]
            \/ /\ run[s].at = "failing" /\ Moves(s, "releasing")
               /\ AssetOf(s) \in Pending /\ Marked(AssetOf(s), "failure") /\ UNCHANGED <<latest, files>>
  <1>0. asset \in [Asset -> AssetRow] /\ run \in [Server -> Run] /\ RunsOK
    BY Types DEF TypeInv, LocalsOK, RunsOK
  <1>1. run[s].at # "idle" /\ run[s].job \in Job /\ AssetOf(s) \in Asset
    BY <1>0, ProcessMoves, JobParts DEF WorkerWrites, RunsOK, AssetOf
  <1>2. UNCHANGED <<deleted, lock, job, server, request, happened>>
    BY DEF WorkerWrites, Rename, Commit, MarkFailure
  <1>3. ASSUME NEW at \in Stage, Moves(s, at) PROVE RunsOK'
    BY <1>0, <1>1, <1>3 DEF RunsOK, Moves
  <1>4. ASSUME /\ UNCHANGED latest \/ latest' = [latest EXCEPT ![BookmarkOf[AssetOf(s)]] = AssetOf(s)]
               /\ UNCHANGED files \/ files' = files \cup {NameOf[AssetOf(s)]},
               asset' \in [Asset -> AssetRow], RunsOK'
        PROVE  TypeInv'
    <2>0. latest \in [Bookmark -> Asset \cup {None}] /\ files \subseteq {NameOf[a] : a \in Asset}
      BY Types
    <2>1. latest' \in [Bookmark -> Asset \cup {None}]
      BY <1>1, <1>4, <2>0
    <2>2. files' \subseteq {NameOf[a] : a \in Asset}
      BY <1>1, <1>4, <2>0
    <2> QED BY <1>2, <1>4, <2>1, <2>2 DEF TypeInv, TypeOK, LocalsOK, RunsOK, Run
  <1>5. CASE Rename(s)
    <2>1. /\ UNCHANGED <<asset, latest>> /\ Moves(s, "renamed") /\ files' = files \cup {NameOf[AssetOf(s)]}
      BY <1>0, <1>5, ProcessMoves DEF Rename
    <2> QED BY <1>0, <1>1, <1>2, <1>3, <1>4, <1>5, <2>1 DEF Stage
  <1>6. CASE Commit(s) \/ MarkFailure(s)
    <2>1. \E at \in {"failing", "releasing"} : Moves(s, at)
      BY <1>0, <1>6, ProcessMoves
    <2>2. RunsOK'
      BY <1>3, <2>1 DEF Stage
    <2>3. CASE UNCHANGED <<asset, latest, files>>
      BY <1>0, <1>1, <1>2, <1>4, <2>1, <2>2, <2>3
    <2>4. CASE Commit(s) /\ ~UNCHANGED <<asset, latest, files>>
      <3>1. /\ AssetOf(s) \in Pending /\ UNCHANGED files
            /\ run[s].at = "renamed" /\ run' = [run EXCEPT ![s].at = "releasing", ![s].ok = TRUE]
            /\ latest' = [latest EXCEPT ![BookmarkOf[AssetOf(s)]] = AssetOf(s)]
            /\ asset' = [asset EXCEPT ![AssetOf(s)].status = "complete", ![AssetOf(s)].named = TRUE]
        BY <2>4, Zenon DEF Commit, Step, Release
      <3>2. Marked(AssetOf(s), "complete")
        BY <1>0, <1>1, <3>1 DEF Marked, AssetRow
      <3>3. asset' \in [Asset -> AssetRow]
        BY <3>2 DEF Marked
      <3>4. Moves(s, "releasing")
        <4>1. run'[s].at = "releasing"
          BY <1>0, <3>1 DEF Run
        <4> QED BY <2>1, <4>1 DEF Moves
      <3> QED BY <1>1, <1>2, <1>4, <2>2, <3>1, <3>2, <3>3, <3>4
    <2>5. CASE MarkFailure(s) /\ ~UNCHANGED <<asset, latest, files>>
      <3>1. /\ AssetOf(s) \in Pending /\ UNCHANGED <<latest, files>>
            /\ run[s].at = "failing" /\ run' = [run EXCEPT ![s].at = "releasing", ![s].ok = FALSE]
            /\ asset' = [asset EXCEPT ![AssetOf(s)].status = "failure"]
        BY <2>5, Zenon DEF MarkFailure, Step, Release
      <3>2. Marked(AssetOf(s), "failure")
        BY <1>0, <1>1, <3>1, StatusWrite
      <3>3. asset' \in [Asset -> AssetRow]
        BY <3>2 DEF Marked
      <3>4. Moves(s, "releasing")
        <4>1. run'[s].at = "releasing"
          BY <1>0, <3>1 DEF Run
        <4> QED BY <2>1, <4>1 DEF Moves
      <3> QED BY <1>1, <1>2, <1>4, <2>2, <3>1, <3>2, <3>3, <3>4
    <2> QED BY <1>6, <2>3, <2>4, <2>5
  <1> QED BY <1>5, <1>6 DEF WorkerWrites

\* The assets that exist or have existed are finitely many, so that a deletion
\* finds the newest snapshot left.
Born == {a \in Asset : asset[a].status # "unborn"}
BornFinite == IsFiniteSet(Born)

\* A finite set of numbers has a greatest element: one with the fewest others
\* above it.
LEMMA GreatestExists ==
  ASSUME NEW S \in SUBSET Nat, IsFiniteSet(S), S # {}
  PROVE  \E x \in S : \A y \in S : y <= x
  <1> DEFINE Above(x) == {y \in S : y > x}
             T == {Cardinality(Above(x)) : x \in S}
  <1>1. \A x \in S : IsFiniteSet(Above(x)) /\ Cardinality(Above(x)) \in Nat
    BY FS_Subset, FS_CardinalityType
  <1>2. T \subseteq Nat /\ T # {}
    BY <1>1
  <1>3. PICK n \in T : \A m \in T : ~(<<m, n>> \in OpToRel(<, Nat))
    <2> HIDE DEF T
    <2> QED BY <1>2, NatLessThanWellFounded, WFMin
  <1>4. \A m \in T : ~(m < n)
    BY <1>2, <1>3 DEF OpToRel
  <1>5. PICK x \in S : n = Cardinality(Above(x))
    BY <1>3
  <1>6. ASSUME NEW y \in S, y > x PROVE FALSE
    <2>0. \A z \in Above(y) : z \in Above(x)
      BY <1>6
    <2>1. y \in Above(x) /\ y \notin Above(y)
      BY <1>6
    <2>2. Above(y) \in SUBSET Above(x)
      BY <2>0
    <2>3. Cardinality(Above(y)) < Cardinality(Above(x))
      <3> HIDE DEF Above
      <3> QED BY <1>1, <2>1, <2>2, FS_Subset
    <2> QED BY <1>4, <1>5, <2>3
  <1> QED BY <1>6

\* The newest other snapshot of a bookmark is complete, and not the deleted one.
LEMMA NewestIsOther ==
  ASSUME BornFinite, NEW a \in Asset
  PROVE  \/ NewestOther(a) = None
         \/ /\ NewestOther(a) \in Asset \ {a} /\ BookmarkOf[NewestOther(a)] = BookmarkOf[a]
            /\ asset[NewestOther(a)].type = "snapshot" /\ asset[NewestOther(a)].status = "complete"
  <1> DEFINE others == {c \in Asset \ {a} : /\ BookmarkOf[c] = BookmarkOf[a]
                                            /\ asset[c].type = "snapshot"
                                            /\ asset[c].status = "complete"}
  <1>1. CASE others = {}
    BY <1>1 DEF NewestOther
  <1>2. CASE others # {}
    <2>1. others \in SUBSET Nat /\ others \in SUBSET Born
      BY SnapshotAssumption DEF Born
    <2>2. NewestOther(a) = CHOOSE c \in others : \A d \in others : d <= c
      BY <1>2 DEF NewestOther
    <2>3. NewestOther(a) \in others
      <3> HIDE DEF others
      <3>1. IsFiniteSet(others)
        BY <2>1, FS_Subset DEF BornFinite
      <3>2. \E c \in others : \A d \in others : d <= c
        BY <1>2, <2>1, <3>1, GreatestExists
      <3> QED BY <2>2, <3>2
    <2> QED BY <2>3
  <1> QED BY <1>1, <1>2

-----------------------------------------------------------------------------
(* Requests, action by action.                                              *)

Begins(r, at, a, doomed) ==
  /\ request' \in [Request -> RequestRow]
  /\ request'[r].at = at /\ request'[r].asset = a /\ request'[r].doomed = doomed
  /\ \A q \in Request \ {r} : request'[q] = request[q]

\* A request that begins has the locals it is given.
LEMMA RequestBegins ==
  ASSUME request \in [Request -> RequestRow], NEW r \in Request,
         NEW at \in {"deleting", "removing", "uploading"}, NEW a \in Asset \cup {None},
         NEW doomed \in SUBSET {NameOf[c] : c \in Asset},
         request' = [request EXCEPT ![r] = [at |-> at, asset |-> a, doomed |-> doomed]]
  PROVE  Begins(r, at, a, doomed)
  <1>1. request' = [request EXCEPT ![r] = Begun(at, a, doomed)]
    BY DEF Begun
  <1> QED BY <1>1, BegunType DEF Begins

\* A request that ends is idle and holds nothing.
LEMMA RequestEnds ==
  ASSUME request \in [Request -> RequestRow], NEW r \in Request,
         request' = [request EXCEPT ![r] = NoRequest]
  PROVE  Begins(r, "idle", None, {})
  BY NoRequestType DEF Begins

\* Requests leave jobs, workers and the lock alone, so types carry over from
\* the rows, files and requests.
LEMMA RequestTypes ==
  ASSUME TypeInv, UNCHANGED <<lock, job, server, run>>,
         asset' \in [Asset -> AssetRow], latest' \in [Bookmark -> Asset \cup {None}],
         deleted' \subseteq Bookmark, files' \subseteq {NameOf[a] : a \in Asset}, RequestsOK',
         happened' \in [crashes : Nat, stalls : Nat, errors : Nat]
  PROVE  TypeInv'
  BY DEF TypeInv, TypeOK, LocalsOK, RequestsOK, RequestRow

\* A deletion begins with the read of an asset that is there.
LEMMA ReadSteps ==
  ASSUME TypeInv, NEW r \in Request, NEW a \in Asset, ReadForDelete(r, a)
  PROVE  /\ TypeInv' /\ Exists(a) /\ Begins(r, "deleting", a, FileOf(a))
         /\ UNCHANGED <<asset, latest, deleted, files, lock, job, server, run>>
  <1>1. Begins(r, "deleting", a, FileOf(a))
    BY Types, FileOfType, RequestBegins DEF ReadForDelete
  <1>2. RequestsOK'
    BY <1>1, Types DEF Begins, RequestsOK, TypeInv, LocalsOK
  <1> QED BY <1>1, <1>2, Types, RequestTypes DEF ReadForDelete

\* writeUpload: the file is there before the row, under an id that nobody uses.
LEMMA UploadSteps ==
  ASSUME TypeInv, NEW r \in Request, NEW a \in Asset, UploadFile(r, a)
  PROVE  /\ TypeInv' /\ asset[a].status = "unborn" /\ \A q \in Request : request[q].asset # a
         /\ Begins(r, "uploading", a, {NameOf[a]}) /\ files' = files \cup {NameOf[a]}
         /\ UNCHANGED <<asset, latest, deleted, lock, job, server, run>>
  <1>0. {NameOf[a]} \in SUBSET {NameOf[c] : c \in Asset}
    OBVIOUS
  <1>1. Begins(r, "uploading", a, {NameOf[a]})
    BY <1>0, Types, RequestBegins DEF UploadFile
  <1>2. RequestsOK'
    BY <1>1, Types DEF Begins, RequestsOK, TypeInv, LocalsOK
  <1> QED BY <1>1, <1>2, Types, RequestTypes DEF UploadFile

\* The deletion of a bookmark takes the rows of its assets along.
LEMMA DeleteBookmarkSteps ==
  ASSUME TypeInv, NEW r \in Request, NEW b \in Bookmark, DeleteBookmark(r, b)
  PROVE  /\ TypeInv' /\ deleted' = deleted \cup {b} /\ latest' = [latest EXCEPT ![b] = None]
         /\ UNCHANGED <<files, lock, job, server, run>>
         /\ \A a \in Asset :
              /\ BookmarkOf[a] = b /\ Exists(a) => asset'[a].status = "deleted"
              /\ ~(BookmarkOf[a] = b /\ Exists(a)) => asset'[a] = asset[a]
         /\ \E doomed : /\ Begins(r, "removing", None, doomed)
                        /\ doomed \subseteq {NameOf[a] : a \in {c \in Asset : BookmarkOf[c] = b /\ Exists(c)}}
  <1> DEFINE gone == {a \in Asset : BookmarkOf[a] = b /\ Exists(a)}
             doomed == UNION {FileOf(a) : a \in gone}
             new(a) == IF a \in gone THEN [asset[a] EXCEPT !.status = "deleted"] ELSE asset[a]
  <1>0. asset \in [Asset -> AssetRow]
    BY Types
  <1>1. \A a \in Asset : new(a) \in AssetRow /\ (a \in gone => new(a).status = "deleted")
                         /\ (a \notin gone => new(a) = asset[a])
    <2> HIDE DEF gone
    <2> QED BY <1>0 DEF AssetRow
  <1>2. asset' = [a \in Asset |-> new(a)]
    BY DEF DeleteBookmark
  <1>3. /\ asset' \in [Asset -> AssetRow]
        /\ \A a \in Asset : /\ a \in gone => asset'[a].status = "deleted"
                            /\ a \notin gone => asset'[a] = asset[a]
    <2> HIDE DEF gone, new
    <2> QED BY <1>1, <1>2
  <1>4. doomed \subseteq {NameOf[a] : a \in gone} /\ doomed \in SUBSET {NameOf[c] : c \in Asset}
    BY DEF FileOf
  <1>5. Begins(r, "removing", None, doomed)
    <2>1. request' = [request EXCEPT ![r] = [at |-> "removing", asset |-> None, doomed |-> doomed]]
      BY DEF DeleteBookmark
    <2> HIDE DEF doomed
    <2> QED BY <1>4, <2>1, Types, RequestBegins
  <1>6. RequestsOK'
    <2> HIDE DEF doomed
    <2> QED BY <1>5, Types DEF Begins, RequestsOK, TypeInv, LocalsOK
  <1>7. /\ deleted' = deleted \cup {b} /\ latest' = [latest EXCEPT ![b] = None]
        /\ UNCHANGED <<files, lock, job, server, run, happened>>
    BY DEF DeleteBookmark
  <1>8. latest' \in [Bookmark -> Asset \cup {None}]
    BY <1>7, Types
  <1>9. TypeInv'
    BY <1>3, <1>6, <1>7, <1>8, Types, RequestTypes
  <1> QED BY <1>3, <1>4, <1>5, <1>7, <1>9

\* The deletion of an asset: its row, and the latest snapshot if it was that one.
LEMMA DropSteps ==
  ASSUME TypeInv, BornFinite, NEW r \in Request, DeleteAsset(r) \/ DeleteAdminAsset(r)
  PROVE  \E next \in Asset \cup {None}, a \in Asset :
           /\ TypeInv' /\ a = request[r].asset /\ request[r].at = "deleting"
           /\ Marked(a, "deleted") /\ Turns(r, "removing")
           /\ latest' = IF latest[BookmarkOf[a]] = a THEN [latest EXCEPT ![BookmarkOf[a]] = next] ELSE latest
           /\ UNCHANGED <<deleted, files, lock, job, server, run>>
           /\ \/ next = None
              \/ /\ next # a /\ BookmarkOf[next] = BookmarkOf[a]
                 /\ asset[next].type = "snapshot" /\ asset[next].status = "complete"
  <1> DEFINE a == request[r].asset
  <1>1. request[r].at = "deleting" /\ a \in Asset
    BY DEF DeleteAsset, DeleteAdminAsset, DropAsset, TypeInv, LocalsOK
  <1>2. PICK next : DropAsset(r, next) /\ (next = NewestOther(a) \/ next = None)
    BY DEF DeleteAsset, DeleteAdminAsset
  <1>3. /\ next \in Asset \cup {None}
        /\ \/ next = None
           \/ /\ next # a /\ BookmarkOf[next] = BookmarkOf[a]
              /\ asset[next].type = "snapshot" /\ asset[next].status = "complete"
    <2> HIDE DEF a
    <2> QED BY <1>1, <1>2, NewestIsOther
  <1>4. /\ asset' = [asset EXCEPT ![a].status = "deleted"]
        /\ request' = [request EXCEPT ![r].at = "removing"]
        /\ latest' = IF latest[BookmarkOf[a]] = a THEN [latest EXCEPT ![BookmarkOf[a]] = next] ELSE latest
        /\ UNCHANGED <<deleted, files, lock, job, server, run, happened>>
    BY <1>2 DEF DropAsset
  <1>5. Marked(a, "deleted") /\ Turns(r, "removing")
    BY <1>1, <1>4, Types, StatusWrite, RequestTurns
  <1>6. RequestsOK'
    BY <1>5, Types DEF Turns, RequestsOK, TypeInv, LocalsOK
  <1>7. latest' \in [Bookmark -> Asset \cup {None}]
    BY <1>1, <1>3, <1>4, Types, SnapshotAssumption
  <1>8. TypeInv'
    BY <1>4, <1>5, <1>6, <1>7, Types, RequestTypes DEF Marked
  <1> QED BY <1>1, <1>3, <1>4, <1>5, <1>8

\* The removal of files touches nothing but them.
LEMMA RemoveSteps ==
  ASSUME TypeInv, NEW r \in Request, RemoveFile(r)
  PROVE  /\ TypeInv' /\ request[r].at = "removing"
         /\ UNCHANGED <<asset, latest, deleted, lock, job, server, run>>
         /\ \/ Begins(r, "idle", None, {}) /\ UNCHANGED files
            \/ \E f \in request[r].doomed :
                 /\ files' = files \ {f}
                 /\ Begins(r, "removing", request[r].asset, request[r].doomed \ {f})
  <1>0. request \in [Request -> RequestRow]
    BY Types
  <1>1. /\ request[r].at = "removing"
        /\ UNCHANGED <<asset, latest, deleted, lock, job, server, run, happened>>
    BY DEF RemoveFile
  <1>2. CASE request' = [request EXCEPT ![r] = NoRequest] /\ UNCHANGED files
    <2>1. Begins(r, "idle", None, {})
      BY <1>0, <1>2, RequestEnds
    <2>2. RequestsOK'
      BY <2>1, Types DEF Begins, RequestsOK, TypeInv, LocalsOK
    <2> QED BY <1>1, <1>2, <2>1, <2>2, Types, RequestTypes
  <1>3. ASSUME NEW f \in request[r].doomed, files' = files \ {f},
               request' = [request EXCEPT ![r].doomed = @ \ {f}]
        PROVE  TypeInv' /\ Begins(r, "removing", request[r].asset, request[r].doomed \ {f})
    <2>1. Begins(r, "removing", request[r].asset, request[r].doomed \ {f})
      BY <1>0, <1>1, <1>3 DEF Begins, RequestRow
    <2>2. RequestsOK'
      BY <2>1, Types DEF Begins, RequestsOK, TypeInv, LocalsOK
    <2>3. files' \subseteq {NameOf[a] : a \in Asset}
      BY <1>3, Types
    <2> QED BY <1>1, <1>3, <2>1, <2>2, <2>3, Types, RequestTypes
  <1> QED BY <1>1, <1>2, <1>3 DEF RemoveFile

\* finishUpload: the row of the written file, and with it the latest snapshot.
LEMMA InsertSteps ==
  ASSUME TypeInv, NEW r \in Request, NEW type \in {"snapshot", "upload"}, InsertUpload(r, type)
  PROVE  /\ TypeInv' /\ request[r].at = "uploading" /\ request[r].asset \in Asset
         /\ BookmarkOf[request[r].asset] \notin deleted
         /\ UNCHANGED <<deleted, files, lock, job, server, run>>
         /\ Begins(r, "idle", None, {})
         /\ asset'[request[r].asset].status = "complete" /\ asset'[request[r].asset].type = type
         /\ \A b \in Asset \ {request[r].asset} : asset'[b] = asset[b]
         /\ latest' = IF type = "snapshot"
                      THEN [latest EXCEPT ![BookmarkOf[request[r].asset]] = request[r].asset]
                      ELSE latest
  <1> DEFINE a == request[r].asset
  <1>0. /\ request \in [Request -> RequestRow] /\ asset \in [Asset -> AssetRow]
        /\ latest \in [Bookmark -> Asset \cup {None}]
    BY Types
  <1>1. request[r].at = "uploading" /\ a \in Asset /\ BookmarkOf[a] \in Bookmark
    BY SnapshotAssumption DEF InsertUpload, TypeInv, LocalsOK
  <1>2. /\ BookmarkOf[a] \notin deleted
        /\ asset' = [asset EXCEPT ![a] = [status |-> "complete", type |-> type, named |-> TRUE]]
        /\ latest' = IF type = "snapshot" THEN [latest EXCEPT ![BookmarkOf[a]] = a] ELSE latest
        /\ request' = [request EXCEPT ![r] = NoRequest]
        /\ UNCHANGED <<deleted, files, lock, job, server, run, happened>>
    BY DEF InsertUpload
  <1>3. Begins(r, "idle", None, {})
    BY <1>0, <1>2, RequestEnds
  <1> HIDE DEF a
  <1>4. /\ asset' \in [Asset -> AssetRow] /\ asset'[a].status = "complete" /\ asset'[a].type = type
        /\ \A b \in Asset \ {a} : asset'[b] = asset[b]
    BY <1>0, <1>1, <1>2 DEF AssetRow
  <1>5. latest' \in [Bookmark -> Asset \cup {None}]
    BY <1>0, <1>1, <1>2
  <1>6. RequestsOK'
    BY <1>3, Types DEF Begins, RequestsOK, TypeInv, LocalsOK
  <1>7. TypeInv'
    BY <1>2, <1>4, <1>5, <1>6, Types, RequestTypes
  <1> QED BY <1>1, <1>2, <1>3, <1>4, <1>7 DEF a

\* An upload that fails or dies leaves an asset that never comes to be.
LEMMA FailSteps ==
  ASSUME TypeInv, NEW r \in Request, InsertFails(r) \/ RequestDies(r)
  PROVE  /\ TypeInv' /\ UNCHANGED <<latest, deleted, files, lock, job, server, run>>
         /\ \/ /\ request[r].at = "uploading" /\ request[r].asset \in Asset
               /\ Marked(request[r].asset, "deleted")
               /\ Turns(r, "removing") \/ Begins(r, "idle", None, {})
            \/ UNCHANGED asset /\ Begins(r, "idle", None, {})
  <1>0. /\ request \in [Request -> RequestRow] /\ asset \in [Asset -> AssetRow]
        /\ happened \in [crashes : Nat, stalls : Nat, errors : Nat]
    BY Types
  <1>1. request[r].at = "uploading" => request[r].asset \in Asset
    BY DEF TypeInv, LocalsOK
  <1>2. happened' \in [crashes : Nat, stalls : Nat, errors : Nat]
    <2>1. \/ happened' = happened \/ happened' = [happened EXCEPT !.errors = @ + 1]
          \/ happened' = [happened EXCEPT !.crashes = @ + 1]
      BY DEF InsertFails, RequestDies
    <2> QED BY <1>0, <2>1
  <1>3. UNCHANGED <<latest, deleted, files, lock, job, server, run>>
    BY DEF InsertFails, RequestDies
  <1>4. /\ \/ Turns(r, "removing") \/ Begins(r, "idle", None, {})
        /\ RequestsOK'
    <2>1. Turns(r, "removing") \/ Begins(r, "idle", None, {})
      BY <1>0, RequestTurns, RequestEnds DEF InsertFails, RequestDies
    <2> QED BY <2>1, Types DEF Turns, Begins, RequestsOK, TypeInv, LocalsOK
  <1>5. CASE request[r].at = "uploading"
    <2>1. Marked(request[r].asset, "deleted")
      BY <1>0, <1>1, <1>5, StatusWrite DEF InsertFails, RequestDies
    <2>2. TypeInv'
      BY <1>2, <1>3, <1>4, <2>1, Types, RequestTypes DEF Marked
    <2> QED BY <1>1, <1>3, <1>4, <1>5, <2>1, <2>2
  <1>6. CASE request[r].at # "uploading"
    <2>1. UNCHANGED asset /\ request' = [request EXCEPT ![r] = NoRequest]
      BY <1>6 DEF InsertFails, RequestDies
    <2>2. TypeInv'
      BY <1>0, <1>2, <1>3, <1>4, <2>1, Types, RequestTypes
    <2> QED BY <1>0, <1>3, <2>1, <2>2, RequestEnds
  <1> QED BY <1>5, <1>6

-----------------------------------------------------------------------------
(* Rows.                                                                    *)

\* An existing asset has its bookmark, and a pending one is a snapshot; jobs
\* and runs are for assets that came to be; an asset being uploaded has not,
\* and it is one request's own.
RowsOK ==
  /\ \A a \in Asset : Exists(a) => BookmarkOf[a] \notin deleted
  /\ \A a \in Pending : asset[a].type = "snapshot"
  /\ \A j \in Job : ~Free(j) => asset[j[1]].status # "unborn"
  /\ \A s \in Server : run[s].at # "idle" => asset[AssetOf(s)].status # "unborn"
  /\ \A r \in Request : request[r].at = "uploading" =>
       /\ asset[request[r].asset].status = "unborn"
       /\ \A q \in Request \ {r} : request[q].asset # request[r].asset

RowsInv == TypeInv /\ BornFinite /\ RowsOK

\* Every step keeps the types.
LEMMA TypeNext == ASSUME TypeInv, BornFinite, [Next]_vars PROVE TypeInv'
  <1>1. CASE UNCHANGED vars
    BY <1>1 DEF vars, TypeInv, TypeOK, LocalsOK
  <1>2. CASE Next
    <2>1. CASE \E a \in Asset : EnqueueSnapshot(a)
      BY <2>1, EnqueueSteps
    <2>2. CASE Tick
      BY <2>2, TickTypes
    <2>3. ASSUME NEW s \in Server, WorkerWrites(s) PROVE TypeInv'
      BY <2>3, WorkerWriteSteps
    <2>4. ASSUME NEW r \in Request, RequestWrites(r) PROVE TypeInv'
      BY <2>4, ReadSteps, UploadSteps, DeleteBookmarkSteps,
         DropSteps, RemoveSteps, InsertSteps, FailSteps DEF RequestWrites
    <2> QED BY <1>2, <2>1, <2>2, <2>3, <2>4, QuietTypeNext
         DEF Next, ProcessStep, RequestStep, WorkerWrites, RequestWrites
  <1> QED BY <1>1, <1>2

\* At most one asset comes to be in a step.
BornStep == \E a \in Asset : Born' \subseteq Born \cup {a}

\* One more asset leaves finitely many.
LEMMA BornNext == ASSUME BornFinite, BornStep PROVE BornFinite'
  <1>1. PICK a \in Asset : Born' \subseteq Born \cup {a}
    BY DEF BornStep
  <1>2. IsFiniteSet(Born \cup {a})
    BY FS_AddElement DEF BornFinite
  <1> QED BY <1>1, <1>2, FS_Subset DEF BornFinite

\* The life of a row: it comes to be while its bookmark exists, is settled
\* while it is pending, or is deleted, as it is with its bookmark.
StatusStep(a) ==
  \/ asset'[a] = asset[a]
  \/ asset'[a].status = "deleted"
  \/ /\ asset[a].status = "unborn" /\ BookmarkOf[a] \notin deleted
     /\ \/ asset'[a].status = "complete"
        \/ asset'[a].status = "pending" /\ asset'[a].type = "snapshot"
  \/ /\ a \in Pending /\ asset'[a].status \in {"complete", "failure"}
     /\ asset'[a].type = asset[a].type

DeletedStep ==
  \/ UNCHANGED deleted
  \/ \E b \in Bookmark : /\ deleted' = deleted \cup {b}
                         /\ \A a \in Asset : BookmarkOf[a] = b => asset'[a].status \in {"unborn", "deleted"}
                         /\ \A a \in Asset : asset'[a] = asset[a] \/ asset'[a].status = "deleted"

StatusSteps == (\A a \in Asset : StatusStep(a)) /\ DeletedStep /\ (UNCHANGED Born \/ BornStep)

\* What requests write moves each asset's status forward.
LEMMA RequestStatus ==
  ASSUME RowsInv, NEW r \in Request, RequestWrites(r)
  PROVE  StatusSteps
  <1> USE DEF StatusSteps
  <1>0. TypeInv /\ BornFinite /\ asset \in [Asset -> AssetRow]
    BY Types DEF RowsInv
  <1>1. ASSUME UNCHANGED <<asset, deleted>> PROVE StatusSteps
    BY <1>1 DEF StatusStep, DeletedStep, Born
  <1>2. ASSUME NEW a \in Asset, Marked(a, "deleted"), UNCHANGED deleted PROVE StatusSteps
    BY <1>2 DEF StatusStep, DeletedStep, Born, BornStep, Marked
  <1>3. ASSUME NEW b \in Bookmark, DeleteBookmark(r, b) PROVE StatusSteps
    <2>1. /\ deleted' = deleted \cup {b}
          /\ \A a \in Asset :
               /\ BookmarkOf[a] = b /\ Exists(a) => asset'[a].status = "deleted"
               /\ ~(BookmarkOf[a] = b /\ Exists(a)) => asset'[a] = asset[a]
      BY <1>0, <1>3, DeleteBookmarkSteps
    <2>2. \A a \in Asset : StatusStep(a)
      BY <2>1 DEF StatusStep
    <2>3. \A a \in Asset : BookmarkOf[a] = b => asset'[a].status \in {"unborn", "deleted"}
      <3> SUFFICES ASSUME NEW a \in Asset, BookmarkOf[a] = b
                   PROVE  asset'[a].status \in {"unborn", "deleted"}
        OBVIOUS
      <3>1. asset[a].status \in {"unborn", "pending", "complete", "failure", "deleted"}
        BY <1>0 DEF AssetRow
      <3> QED BY <2>1, <3>1 DEF Exists
    <2>4. DeletedStep
      BY <2>1, <2>3 DEF DeletedStep
    <2>5. \A a \in Asset : asset'[a].status = "unborn" <=> asset[a].status = "unborn"
      BY <2>1 DEF Exists
    <2>6. UNCHANGED Born
      BY <2>5 DEF Born
    <2> QED BY <2>2, <2>4, <2>6
  <1>4. ASSUME NEW type \in {"snapshot", "upload"}, InsertUpload(r, type) PROVE StatusSteps
    <2>1. /\ request[r].asset \in Asset /\ BookmarkOf[request[r].asset] \notin deleted
          /\ asset[request[r].asset].status = "unborn" /\ UNCHANGED deleted
          /\ asset'[request[r].asset].status = "complete"
          /\ \A b \in Asset \ {request[r].asset} : asset'[b] = asset[b]
      BY <1>0, <1>4, InsertSteps DEF RowsInv, RowsOK
    <2> QED BY <2>1 DEF StatusStep, DeletedStep, Born, BornStep
  <1> QED BY <1>0, <1>1, <1>2, <1>3, <1>4, ReadSteps, UploadSteps, DropSteps, RemoveSteps, FailSteps
        DEF RequestWrites

\* Every step moves each asset's status forward, and deletes bookmarks with their assets.
LEMMA StatusNext == ASSUME RowsInv, [Next]_vars PROVE StatusSteps
  <1> USE DEF StatusSteps
  <1>0. TypeInv /\ BornFinite
    BY DEF RowsInv
  <1>1. CASE UNCHANGED <<asset, deleted>>
    BY <1>1 DEF StatusStep, DeletedStep, Born
  <1>2. ASSUME NEW a \in Asset, EnqueueSnapshot(a) PROVE StatusSteps
    <2>1. /\ asset[a].status = "unborn" /\ BookmarkOf[a] \notin deleted /\ deleted' = deleted
          /\ asset'[a].status = "pending" /\ asset'[a].type = "snapshot"
          /\ \A b \in Asset \ {a} : asset'[b] = asset[b]
      BY <1>0, <1>2, EnqueueSteps
    <2> QED BY <2>1 DEF StatusStep, DeletedStep, Born, BornStep
  <1>3. ASSUME NEW s \in Server, WorkerWrites(s) PROVE StatusSteps
    <2>1. CASE UNCHANGED asset
      BY <1>0, <1>1, <1>3, <2>1, WorkerWriteSteps
    <2>2. ASSUME AssetOf(s) \in Pending, NEW status \in {"complete", "failure"}, Marked(AssetOf(s), status)
          PROVE  StatusSteps
      <3>1. UNCHANGED deleted /\ AssetOf(s) \in Asset
        BY <1>0, <1>3, WorkerWriteSteps
      <3>2. \A a \in Asset : StatusStep(a)
        BY <2>2, <3>1 DEF Marked, StatusStep
      <3> QED BY <2>2, <3>1, <3>2 DEF Marked, DeletedStep, Born, BornStep
    <2> QED BY <1>0, <1>3, <2>1, <2>2, WorkerWriteSteps
  <1> QED BY <1>0, <1>1, <1>2, <1>3, StepCases, RequestStatus DEF Quiet, Tables

\* Runs and jobs are for the assets they were for, or for a queued or pending one.
WorkStep ==
  /\ \A s \in Server : run'[s].at # "idle" =>
       \/ run[s].at # "idle" /\ run'[s].job = run[s].job
       \/ run'[s].job \in Job /\ ~Free(run'[s].job)
  /\ \A j \in Job : job'[j].state # "free" => ~Free(j) \/ asset'[j[1]].status = "pending"

\* Every step leaves runs and jobs to the assets that a job is queued for.
LEMMA WorkNext == ASSUME RowsInv, [Next]_vars PROVE WorkStep
  <1>0. TypeInv /\ BornFinite
    BY DEF RowsInv
  <1>1. CASE Quiet
    BY <1>1 DEF Quiet, QuietRun, QuietJob, WorkStep, Tables, Pending
  <1>2. CASE UNCHANGED <<job, run>>
    BY <1>2 DEF WorkStep, Free
  <1>3. ASSUME NEW a \in Asset, EnqueueSnapshot(a) PROVE WorkStep
    <2>1. UNCHANGED run /\ asset'[a].status = "pending"
      BY <1>0, <1>3, EnqueueSteps
    <2>2. \A j \in Job : j = <<a, 1>> \/ job'[j] = job[j]
      BY <1>0, <1>3, EnqueueSteps, ZenonT(30)
    <2>3. \A j \in Job : j = <<a, 1>> => j[1] = a
      OBVIOUS
    <2> QED BY <2>1, <2>2, <2>3 DEF WorkStep, Free
  <1>4. ASSUME NEW s \in Server, WorkerWrites(s) PROVE WorkStep
    <2>1. run[s].at # "idle" /\ UNCHANGED job /\ \E at \in Stage : Moves(s, at)
      BY <1>0, <1>4, WorkerWriteSteps DEF Stage
    <2> QED BY <2>1 DEF WorkStep, Moves, Free
  <1>5. ASSUME NEW r \in Request, RequestWrites(r) PROVE WorkStep
    BY <1>0, <1>2, <1>5, ReadSteps, UploadSteps, DeleteBookmarkSteps, DropSteps, RemoveSteps,
       InsertSteps, FailSteps DEF RequestWrites
  <1> QED BY <1>0, <1>1, <1>3, <1>4, <1>5, StepCases

\* Requests on the rows they upload.
UploadsOwn ==
  \A r \in Request : request[r].at = "uploading" =>
    /\ asset[request[r].asset].status = "unborn"
    /\ \A q \in Request \ {r} : request[q].asset # request[r].asset

\* A request that does not begin an upload leaves the uploads in order.
LEMMA UploadsKeep ==
  ASSUME TypeInv, UploadsOwn, NEW r \in Request, request'[r].at # "uploading",
         request'[r].asset \in {request[r].asset, None},
         \A q \in Request \ {r} : request'[q] = request[q],
         \A a \in Asset : asset[a].status = "unborn" => asset'[a] = asset[a] \/ a = request[r].asset
  PROVE  UploadsOwn'
  <1>1. ASSUME NEW q \in Request, request'[q].at = "uploading"
        PROVE  /\ asset'[request'[q].asset].status = "unborn"
               /\ \A p \in Request \ {q} : request'[p].asset # request'[q].asset
    <2>1. q # r /\ request'[q] = request[q] /\ request[q].asset \in Asset
      BY <1>1 DEF TypeInv, LocalsOK
    <2>2. asset'[request[q].asset] = asset[request[q].asset]
      BY <1>1, <2>1 DEF UploadsOwn
    <2>3. ASSUME NEW p \in Request \ {q} PROVE request'[p].asset # request[q].asset
      BY <1>1, <2>1, NoneApart DEF UploadsOwn
    <2> QED BY <1>1, <2>1, <2>2, <2>3 DEF UploadsOwn
  <1> QED BY <1>1 DEF UploadsOwn

\* No two uploads write one asset's file.
LEMMA UploadsNext == ASSUME RowsInv, [Next]_vars PROVE UploadsOwn'
  <1>0. TypeInv /\ BornFinite /\ UploadsOwn
    BY DEF RowsInv, RowsOK, UploadsOwn
  <1>00. \A r \in Request : request[r].at = "uploading" => request[r].asset \in Asset
    BY <1>0 DEF TypeInv, LocalsOK
  <1>1. CASE Quiet
    BY <1>0, <1>1 DEF UploadsOwn, Quiet, Tables
  <1>2. ASSUME NEW a \in Asset, EnqueueSnapshot(a) PROVE UploadsOwn'
    <2>1. UNCHANGED request /\ \A b \in Asset \ {a} : asset'[b] = asset[b]
      BY <1>0, <1>2, EnqueueSteps
    <2>2. \A r \in Request : request[r].asset # a
      BY <1>2 DEF EnqueueSnapshot
    <2> QED BY <1>0, <1>00, <2>1, <2>2 DEF UploadsOwn
  <1>3. ASSUME NEW s \in Server, WorkerWrites(s) PROVE UploadsOwn'
    <2>1. UNCHANGED request /\ \A a \in Asset : asset[a].status = "unborn" => asset'[a] = asset[a]
      BY <1>0, <1>3, WorkerWriteSteps DEF Marked, Pending
    <2> QED BY <1>0, <1>00, <2>1 DEF UploadsOwn
  <1>4. ASSUME NEW r \in Request, RequestWrites(r) PROVE UploadsOwn'
    <2>1. ASSUME NEW a \in Asset, ReadForDelete(r, a) PROVE UploadsOwn'
      BY <1>0, <2>1, ReadSteps DEF UploadsOwn, Begins, Exists
    <2>2. ASSUME NEW a \in Asset, UploadFile(r, a) PROVE UploadsOwn'
      BY <1>0, <2>2, UploadSteps DEF UploadsOwn, Begins
    <2>3. ASSUME NEW b \in Bookmark, DeleteBookmark(r, b) PROVE UploadsOwn'
      <3>1. \A a \in Asset : asset[a].status = "unborn" => asset'[a] = asset[a]
        BY <1>0, <2>3, DeleteBookmarkSteps DEF Exists
      <3>2. \E doomed : Begins(r, "removing", None, doomed)
        BY <1>0, <2>3, DeleteBookmarkSteps
      <3> QED BY <1>0, <3>1, <3>2, UploadsKeep DEF Begins
    <2>4. ASSUME NEW a \in Asset, a = request[r].asset, Marked(a, "deleted"),
                 Turns(r, "removing") \/ Begins(r, "idle", None, {})
          PROVE  UploadsOwn'
      BY <1>0, <2>4, UploadsKeep DEF Marked, Turns, Begins
    <2>5. ASSUME UNCHANGED asset, NEW doomed,
                 Begins(r, "removing", request[r].asset, doomed) \/ Begins(r, "idle", None, doomed)
          PROVE  UploadsOwn'
      BY <1>0, <2>5, UploadsKeep DEF Begins
    <2>6. CASE DeleteAsset(r) \/ DeleteAdminAsset(r)
      BY <1>0, <2>4, <2>6, DropSteps
    <2>7. CASE RemoveFile(r)
      BY <1>0, <2>5, <2>7, RemoveSteps
    <2>8. ASSUME NEW type \in {"snapshot", "upload"}, InsertUpload(r, type) PROVE UploadsOwn'
      BY <1>0, <2>8, InsertSteps, UploadsKeep DEF Begins
    <2>9. CASE InsertFails(r) \/ RequestDies(r)
      BY <1>0, <2>4, <2>5, <2>9, FailSteps
    <2> QED BY <1>4, <2>1, <2>2, <2>3, <2>6, <2>7, <2>8, <2>9 DEF RequestWrites
  <1> QED BY <1>0, <1>1, <1>2, <1>3, <1>4, StepCases

\* Every step keeps the rows in order.
LEMMA RowsNext == ASSUME RowsInv, [Next]_vars PROVE RowsInv'
  <1>1. StatusSteps /\ WorkStep /\ UploadsOwn' /\ TypeInv' /\ TypeInv
    BY StatusNext, WorkNext, UploadsNext, TypeNext DEF RowsInv
  <1>2. BornFinite'
    BY <1>1, BornNext DEF StatusSteps, RowsInv, BornFinite
  <1>3. \A a \in Asset : Exists(a)' => BookmarkOf[a] \notin deleted'
    BY <1>1, SnapshotAssumption DEF StatusSteps, StatusStep, DeletedStep, Exists, RowsInv, RowsOK, Pending
  <1>4. \A a \in Asset : asset'[a].status = "pending" => asset'[a].type = "snapshot"
    BY <1>1 DEF StatusSteps, StatusStep, RowsInv, RowsOK, Pending
  <1>5. \A a \in Asset : asset'[a].status = "unborn" => asset[a].status = "unborn"
    BY <1>1 DEF StatusSteps, StatusStep
  <1>6. \A j \in Job : job'[j].state # "free" => asset'[j[1]].status # "unborn"
    BY <1>1, <1>5, JobParts DEF WorkStep, RowsInv, RowsOK
  <1>7. \A s \in Server : run'[s].at # "idle" => asset'[run'[s].job[1]].status # "unborn"
    <2> SUFFICES ASSUME NEW s \in Server, run'[s].at # "idle"
                 PROVE  asset'[run'[s].job[1]].status # "unborn"
      OBVIOUS
    <2>1. run'[s].job \in Job
      BY <1>1 DEF TypeInv, LocalsOK
    <2>2. asset[run'[s].job[1]].status # "unborn"
      BY <1>1 DEF WorkStep, RowsInv, RowsOK, AssetOf
    <2> QED BY <1>5, <2>1, <2>2, JobParts
  <1>8. RowsOK'
    BY <1>1, <1>3, <1>4, <1>6, <1>7 DEF RowsOK, UploadsOwn, Pending, Free, AssetOf
  <1> QED BY <1>1, <1>2, <1>8 DEF RowsInv

\* The first state's rows are in order.
LEMMA RowsInit == Init => RowsInv
  <1> SUFFICES ASSUME Init PROVE RowsInv
    OBVIOUS
  <1>1. TypeInv
    BY TypeInit
  <1>2. Born = {}
    BY DEF Init, Born
  <1>3. BornFinite
    BY <1>2, FS_EmptySet DEF BornFinite
  <1>4. RowsOK
    BY DEF Init, RowsOK, Exists, Pending, Free, NoJob, NoRun, NoRequest
  <1> QED BY <1>1, <1>3, <1>4 DEF RowsInv

\* The rows are always in order.
LEMMA RowsAlways == Spec => []RowsInv
  BY RowsInit, RowsNext, PTL DEF Spec

\* All rows, files, jobs and locals keep their types.
THEOREM TypesHold == Spec => []TypeOK
  <1>1. RowsInv => TypeOK
    BY DEF RowsInv, TypeInv
  <1> QED BY <1>1, RowsAlways, PTL

\* A settled asset stays as it was settled until it is deleted, however many
\* workers, jobs and servers are at it (recover.go: duplicate jobs are safe).
THEOREM SettledForGood == Spec => SettledOnce
  <1> DEFINE Once == \A a \in Asset : asset[a].status \in {"complete", "failure"} =>
                       asset'[a].status \in {asset[a].status, "deleted"}
  <1>1. ASSUME RowsInv, [Next]_vars PROVE Once
    BY <1>1, StatusNext DEF StatusSteps, StatusStep, Pending
  <1>2. RowsInv /\ [Next]_vars => [Once]_vars
    BY <1>1
  <1> HIDE DEF Once
  <1>3. Spec => [][Once]_vars
    BY <1>2, RowsAlways, PTL DEF Spec
  <1> QED BY <1>3 DEF SettledOnce, Once

-----------------------------------------------------------------------------
(* latest_snapshot_id.                                                      *)

\* Every step keeps latest_snapshot_id valid.
LEMMA LatestNext == ASSUME RowsInv, LatestValid, [Next]_vars PROVE LatestValid'
  <1> DEFINE Valid(b) == latest[b] # None =>
               /\ b \notin deleted /\ BookmarkOf[latest[b]] = b
               /\ asset[latest[b]].type = "snapshot" /\ asset[latest[b]].status = "complete"
  <1>0. /\ TypeInv /\ BornFinite /\ RowsOK
        /\ latest \in [Bookmark -> Asset \cup {None}] /\ BookmarkOf \in [Asset -> Bookmark]
        /\ \A b \in Bookmark : Valid(b)
    BY Types, SnapshotAssumption DEF RowsInv, LatestValid
  <1>1. ASSUME UNCHANGED <<latest, deleted>>,
               \A a \in Asset : asset[a].status = "complete" => asset'[a] = asset[a]
        PROVE  LatestValid'
    BY <1>0, <1>1 DEF LatestValid
  <1>2. CASE Quiet
    BY <1>1, <1>2 DEF Quiet, Tables
  <1>3. ASSUME NEW a \in Asset, EnqueueSnapshot(a) PROVE LatestValid'
    <2>1. /\ asset[a].status = "unborn" /\ UNCHANGED <<latest, deleted>>
          /\ \A b \in Asset \ {a} : asset'[b] = asset[b]
      BY <1>0, <1>3, EnqueueSteps
    <2> QED BY <1>1, <2>1
  <1>4. ASSUME NEW a \in Asset, BookmarkOf[a] \notin deleted, UNCHANGED deleted,
               asset'[a].type = "snapshot", asset'[a].status = "complete",
               \A b \in Asset \ {a} : asset'[b] = asset[b],
               latest' = [latest EXCEPT ![BookmarkOf[a]] = a]
        PROVE  LatestValid'
    BY <1>0, <1>4 DEF LatestValid
  <1>5. ASSUME NEW s \in Server, WorkerWrites(s) PROVE LatestValid'
    <2>1. CASE UNCHANGED <<asset, latest>>
      <3>1. UNCHANGED deleted
        BY <1>0, <1>5, WorkerWriteSteps
      <3> QED BY <1>1, <2>1, <3>1
    <2>2. CASE /\ AssetOf(s) \in Pending /\ Marked(AssetOf(s), "complete")
               /\ latest' = [latest EXCEPT ![BookmarkOf[AssetOf(s)]] = AssetOf(s)]
      <3>1. UNCHANGED deleted /\ AssetOf(s) \in Asset
        BY <1>0, <1>5, WorkerWriteSteps
      <3>2. asset[AssetOf(s)].type = "snapshot" /\ BookmarkOf[AssetOf(s)] \notin deleted
        BY <1>0, <2>2, <3>1 DEF Pending, Exists, RowsOK
      <3> QED BY <1>4, <2>2, <3>1, <3>2 DEF Marked
    <2>3. CASE AssetOf(s) \in Pending /\ Marked(AssetOf(s), "failure") /\ UNCHANGED latest
      <3>1. UNCHANGED deleted
        BY <1>0, <1>5, WorkerWriteSteps
      <3> QED BY <1>1, <2>3, <3>1 DEF Marked, Pending
    <2> QED BY <1>0, <1>5, <2>1, <2>2, <2>3, WorkerWriteSteps
  <1>6. ASSUME NEW r \in Request, RequestWrites(r) PROVE LatestValid'
    <2>1. CASE UNCHANGED <<asset, latest, deleted>>
      BY <1>1, <2>1
    <2>2. ASSUME NEW b \in Bookmark, DeleteBookmark(r, b) PROVE LatestValid'
      <3>1. /\ deleted' = deleted \cup {b} /\ latest' = [latest EXCEPT ![b] = None]
            /\ \A a \in Asset : BookmarkOf[a] # b => asset'[a] = asset[a]
        BY <1>0, <2>2, DeleteBookmarkSteps
      <3> QED BY <1>0, <3>1 DEF LatestValid
    <2>3. CASE DeleteAsset(r) \/ DeleteAdminAsset(r)
      <3>1. PICK next \in Asset \cup {None}, a \in Asset :
              /\ Marked(a, "deleted") /\ UNCHANGED deleted
              /\ latest' = IF latest[BookmarkOf[a]] = a THEN [latest EXCEPT ![BookmarkOf[a]] = next] ELSE latest
              /\ \/ next = None
                 \/ /\ next # a /\ BookmarkOf[next] = BookmarkOf[a]
                    /\ asset[next].type = "snapshot" /\ asset[next].status = "complete"
        BY <1>0, <2>3, DropSteps
      <3>2. next # None => next \in Asset /\ BookmarkOf[next] \notin deleted
        BY <1>0, <3>1 DEF RowsOK, Exists
      <3>3. ASSUME NEW b \in Bookmark PROVE Valid(b)'
        <4>1. CASE b = BookmarkOf[a] /\ latest[b] = a
          BY <1>0, <3>1, <3>2, <4>1 DEF Marked
        <4>2. CASE latest[b] # a
          BY <1>0, <3>1, <4>2 DEF Marked
        <4>3. latest[b] = a => b = BookmarkOf[a]
          BY <1>0, NoneApart
        <4> QED BY <4>1, <4>2, <4>3
      <3> QED BY <3>3 DEF LatestValid
    <2>4. ASSUME NEW type \in {"snapshot", "upload"}, InsertUpload(r, type) PROVE LatestValid'
      <3> DEFINE a == request[r].asset
      <3>1. /\ a \in Asset /\ BookmarkOf[a] \notin deleted /\ UNCHANGED deleted
            /\ asset[a].status = "unborn" /\ asset'[a].status = "complete" /\ asset'[a].type = type
            /\ \A b \in Asset \ {a} : asset'[b] = asset[b]
            /\ latest' = IF type = "snapshot" THEN [latest EXCEPT ![BookmarkOf[a]] = a] ELSE latest
        BY <1>0, <2>4, InsertSteps DEF RowsOK
      <3> HIDE DEF a
      <3>2. CASE type = "snapshot"
        BY <1>4, <3>1, <3>2
      <3>3. CASE type # "snapshot"
        BY <1>1, <3>1, <3>3
      <3> QED BY <3>2, <3>3
    <2>5. CASE InsertFails(r) \/ RequestDies(r)
      <3>1. UNCHANGED <<latest, deleted>>
        BY <1>0, <2>5, FailSteps
      <3>2. \A a \in Asset : asset[a].status = "complete" => asset'[a] = asset[a]
        BY <1>0, <2>5, FailSteps DEF RowsOK, Marked
      <3> QED BY <1>1, <3>1, <3>2
    <2> QED BY <1>0, <1>6, <2>1, <2>2, <2>3, <2>4, <2>5, ReadSteps, UploadSteps, RemoveSteps
          DEF RequestWrites
  <1> QED BY <1>0, <1>2, <1>3, <1>5, <1>6, StepCases

\* latest_snapshot_id is NULL or a complete snapshot of that bookmark, whatever
\* captures, uploads and the three kinds of deletion are in progress.
THEOREM LatestSnapshotValid == Spec => []LatestValid
  <1>1. Init => LatestValid
    BY DEF Init, LatestValid
  <1>2. RowsInv /\ LatestValid /\ [Next]_vars => LatestValid'
    BY LatestNext
  <1> QED BY <1>1, <1>2, RowsAlways, PTL DEF Spec

-----------------------------------------------------------------------------
(* Files.                                                                   *)

\* Different assets have different file names: two snapshots or uploads of a
\* bookmark in the same second with the same name do not happen.
NamesDiffer == \A a, b \in Asset : NameOf[a] = NameOf[b] => a = b

\* A file is there before a row names it, and only files of deleted assets are
\* about to be removed.
FilesFor(r) ==
  /\ request[r].at = "uploading" =>
       /\ NameOf[request[r].asset] \in files
       /\ request[r].doomed = {NameOf[request[r].asset]}
  /\ request[r].at = "deleting" => request[r].doomed \subseteq {NameOf[request[r].asset]}
  /\ request[r].at = "removing" =>
       \A a \in Asset : NameOf[a] \in request[r].doomed => asset[a].status = "deleted"

RenamedHasFile ==
  \A s \in Server :
    run[s].at = "renamed" /\ AssetOf(s) \in Pending => NameOf[AssetOf(s)] \in files

FilesInv == RowsInv /\ (\A r \in Request : FilesFor(r)) /\ RenamedHasFile /\ CompleteHasFile

\* Only files of deleted assets go.
FilesStep == \A a \in Asset : NameOf[a] \in files => NameOf[a] \in files' \/ asset[a].status = "deleted"

\* Only files of deleted assets are removed.
LEMMA FilesKept == ASSUME FilesInv, [Next]_vars PROVE FilesStep
  <1>0. TypeInv /\ BornFinite
    BY DEF FilesInv, RowsInv
  <1>1. CASE files \subseteq files'
    BY <1>1 DEF FilesStep
  <1>2. ASSUME NEW r \in Request, RemoveFile(r) PROVE FilesStep
    <2>1. \/ UNCHANGED files
          \/ request[r].at = "removing" /\ \E f \in request[r].doomed : files' = files \ {f}
      BY <1>0, <1>2, RemoveSteps
    <2> QED BY <2>1 DEF FilesInv, FilesFor, FilesStep
  <1>3. ASSUME NEW s \in Server, WorkerWrites(s) PROVE files \subseteq files'
    BY <1>0, <1>3, WorkerWriteSteps
  <1>4. ASSUME NEW a \in Asset, EnqueueSnapshot(a) PROVE files \subseteq files'
    BY <1>0, <1>4, EnqueueSteps
  <1>5. ASSUME NEW r \in Request, RequestWrites(r) PROVE files \subseteq files' \/ RemoveFile(r)
    BY <1>0, <1>5, ReadSteps, UploadSteps, DeleteBookmarkSteps, DropSteps, InsertSteps, FailSteps
       DEF RequestWrites
  <1>6. CASE Quiet
    BY <1>1, <1>6 DEF Quiet, Tables
  <1> QED BY <1>0, <1>1, <1>2, <1>3, <1>4, <1>5, <1>6, StepCases

\* A deleted asset does not come back.
LEMMA DeletedStays ==
  ASSUME RowsInv, [Next]_vars
  PROVE  \A a \in Asset : asset[a].status = "deleted" => asset'[a].status = "deleted"
  BY StatusNext DEF StatusSteps, StatusStep, Pending

\* A step keeps what it does not touch of a request in order.
LEMMA RequestKept ==
  ASSUME FilesInv, [Next]_vars, NEW r \in Request, request'[r] = request[r]
  PROVE  FilesFor(r)'
  <1>1. FilesStep /\ TypeInv /\ UploadsOwn /\ FilesFor(r)
    BY FilesKept DEF FilesInv, RowsInv, RowsOK, UploadsOwn
  <1>2. \A a \in Asset : asset[a].status = "deleted" => asset'[a].status = "deleted"
    BY DeletedStays DEF FilesInv
  <1>3. request[r].at = "uploading" => request[r].asset \in Asset /\ asset[request[r].asset].status = "unborn"
    BY <1>1 DEF TypeInv, LocalsOK, UploadsOwn
  <1> QED BY <1>1, <1>2, <1>3 DEF FilesFor, FilesStep

\* Every step keeps the files that requests have written or are to remove.
LEMMA RequestFilesNext ==
  ASSUME NamesDiffer, FilesInv, [Next]_vars
  PROVE  \A r \in Request : FilesFor(r)'
  <1>0. TypeInv /\ BornFinite /\ FilesStep
    BY FilesKept DEF FilesInv, RowsInv
  <1>1. CASE UNCHANGED request
    BY <1>1, RequestKept
  <1>2. ASSUME NEW r \in Request, \A q \in Request \ {r} : request'[q] = request[q], FilesFor(r)'
        PROVE  \A q \in Request : FilesFor(q)'
    BY <1>2, RequestKept
  <1>3. ASSUME NEW r \in Request, Begins(r, "idle", None, {}) PROVE \A q \in Request : FilesFor(q)'
    <2>1. FilesFor(r)'
      BY <1>3 DEF Begins, FilesFor
    <2> QED BY <1>2, <1>3, <2>1 DEF Begins
  <1>4. ASSUME NEW r \in Request, RequestWrites(r) PROVE \A q \in Request : FilesFor(q)'
    <2>1. ASSUME NEW a \in Asset, ReadForDelete(r, a) PROVE \A q \in Request : FilesFor(q)'
      <3>1. Begins(r, "deleting", a, FileOf(a))
        BY <1>0, <2>1, ReadSteps
      <3>2. FileOf(a) \subseteq {NameOf[a]}
        BY DEF FileOf
      <3>3. FilesFor(r)'
        BY <3>1, <3>2 DEF Begins, FilesFor
      <3> QED BY <1>2, <3>1, <3>3 DEF Begins
    <2>2. ASSUME NEW a \in Asset, UploadFile(r, a) PROVE \A q \in Request : FilesFor(q)'
      <3>1. Begins(r, "uploading", a, {NameOf[a]}) /\ files' = files \cup {NameOf[a]}
        BY <1>0, <2>2, UploadSteps
      <3>3. FilesFor(r)'
        BY <3>1 DEF Begins, FilesFor
      <3> QED BY <1>2, <3>1, <3>3 DEF Begins
    <2>3. ASSUME NEW b \in Bookmark, DeleteBookmark(r, b) PROVE \A q \in Request : FilesFor(q)'
      <3>1. PICK doomed :
              /\ Begins(r, "removing", None, doomed)
              /\ doomed \subseteq {NameOf[a] : a \in {c \in Asset : BookmarkOf[c] = b /\ Exists(c)}}
        BY <1>0, <2>3, DeleteBookmarkSteps
      <3>2. \A a \in Asset : BookmarkOf[a] = b /\ Exists(a) => asset'[a].status = "deleted"
        BY <1>0, <2>3, DeleteBookmarkSteps
      <3>3. \A a \in Asset : NameOf[a] \in doomed => asset'[a].status = "deleted"
        BY <3>1, <3>2 DEF NamesDiffer
      <3>4. FilesFor(r)'
        BY <3>1, <3>3 DEF Begins, FilesFor
      <3> QED BY <1>2, <3>1, <3>4 DEF Begins
    <2>4. ASSUME NEW a \in Asset, Marked(a, "deleted"), Turns(r, "removing"),
                 request[r].doomed \subseteq {NameOf[a]}
          PROVE  \A q \in Request : FilesFor(q)'
      <3>1. FilesFor(r)'
        BY <2>4 DEF Marked, Turns, FilesFor, NamesDiffer
      <3> QED BY <1>2, <2>4, <3>1 DEF Turns
    <2>5. CASE DeleteAsset(r) \/ DeleteAdminAsset(r)
      <3>1. request[r].at = "deleting" => request[r].doomed \subseteq {NameOf[request[r].asset]}
        BY DEF FilesInv, FilesFor
      <3> QED BY <1>0, <2>4, <2>5, <3>1, DropSteps
    <2>6. CASE RemoveFile(r)
      <3>1. ASSUME NEW f \in request[r].doomed,
                   Begins(r, "removing", request[r].asset, request[r].doomed \ {f})
            PROVE  \A q \in Request : FilesFor(q)'
        <4>1. request[r].at = "removing"
          BY <1>0, <2>6, RemoveSteps
        <4>2. \A a \in Asset : NameOf[a] \in request[r].doomed => asset'[a].status = "deleted"
          BY <4>1, DeletedStays DEF FilesInv, FilesFor
        <4>3. FilesFor(r)'
          BY <3>1, <4>2 DEF Begins, FilesFor
        <4> QED BY <1>2, <3>1, <4>3 DEF Begins
      <3> QED BY <1>0, <1>3, <2>6, <3>1, RemoveSteps
    <2>7. ASSUME NEW type \in {"snapshot", "upload"}, InsertUpload(r, type)
          PROVE  \A q \in Request : FilesFor(q)'
      BY <1>0, <1>3, <2>7, InsertSteps
    <2>8. CASE InsertFails(r) \/ RequestDies(r)
      <3>1. request[r].at = "uploading" => request[r].doomed = {NameOf[request[r].asset]}
        BY DEF FilesInv, FilesFor
      <3>2. \/ Begins(r, "idle", None, {})
            \/ /\ request[r].at = "uploading" /\ request[r].asset \in Asset
               /\ Marked(request[r].asset, "deleted") /\ Turns(r, "removing")
        BY <1>0, <2>8, FailSteps
      <3> QED BY <1>3, <2>4, <3>1, <3>2
    <2> QED BY <1>4, <2>1, <2>2, <2>3, <2>5, <2>6, <2>7, <2>8 DEF RequestWrites
  <1>5. ASSUME NEW s \in Server, WorkerWrites(s) PROVE UNCHANGED request
    BY <1>0, <1>5, WorkerWriteSteps
  <1>6. ASSUME NEW a \in Asset, EnqueueSnapshot(a) PROVE UNCHANGED request
    BY <1>0, <1>6, EnqueueSteps
  <1>7. Quiet => UNCHANGED request
    BY DEF Quiet, Tables
  <1> QED BY <1>0, <1>1, <1>4, <1>5, <1>6, <1>7, StepCases

\* Whoever completes an asset has its file in place.
CompletedStep ==
  \A a \in Asset : asset'[a].status = "complete" /\ asset'[a] # asset[a] =>
    \/ \E s \in Server : run[s].at = "renamed" /\ AssetOf(s) = a /\ a \in Pending
    \/ \E r \in Request : request[r].at = "uploading" /\ request[r].asset = a

\* Every asset that a step completes was renamed or uploaded before.
LEMMA CompletedNext == ASSUME RowsInv, [Next]_vars PROVE CompletedStep
  <1>0. TypeInv /\ BornFinite
    BY DEF RowsInv
  <1>1. CASE UNCHANGED asset
    BY <1>1 DEF CompletedStep
  <1>2. ASSUME NEW a \in Asset, EnqueueSnapshot(a) PROVE CompletedStep
    <2>1. asset'[a].status = "pending" /\ \A b \in Asset \ {a} : asset'[b] = asset[b]
      BY <1>0, <1>2, EnqueueSteps
    <2> QED BY <2>1 DEF CompletedStep
  <1>3. ASSUME NEW s \in Server, WorkerWrites(s) PROVE CompletedStep
    BY <1>0, <1>1, <1>3, WorkerWriteSteps DEF CompletedStep, Marked
  <1>4. ASSUME NEW r \in Request, RequestWrites(r) PROVE CompletedStep
    <2>1. ASSUME NEW b \in Bookmark, DeleteBookmark(r, b) PROVE CompletedStep
      <3>1. \A a \in Asset : asset'[a] = asset[a] \/ asset'[a].status = "deleted"
        BY <1>0, <2>1, DeleteBookmarkSteps
      <3> QED BY <3>1 DEF CompletedStep
    <2>2. ASSUME NEW a \in Asset, Marked(a, "deleted") PROVE CompletedStep
      BY <2>2 DEF CompletedStep, Marked
    <2>3. ASSUME NEW type \in {"snapshot", "upload"}, InsertUpload(r, type) PROVE CompletedStep
      BY <1>0, <2>3, InsertSteps DEF CompletedStep
    <2> QED BY <1>0, <1>1, <1>4, <2>1, <2>2, <2>3, ReadSteps, UploadSteps, DropSteps, RemoveSteps, FailSteps
          DEF RequestWrites
  <1> QED BY <1>0, <1>1, <1>2, <1>3, <1>4, StepCases DEF Quiet, Tables

\* A run gets to its closing transaction once its file is in place.
RenamedStep ==
  \A s \in Server : run'[s].at = "renamed" =>
    \/ run[s].at = "renamed" /\ run'[s].job = run[s].job
    \/ NameOf[run'[s].job[1]] \in files'

\* Every step leaves the file of a renamed capture in place.
LEMMA RenamedNext == ASSUME RowsInv, [Next]_vars PROVE RenamedStep
  <1>0. TypeInv /\ BornFinite
    BY DEF RowsInv
  <1>1. CASE UNCHANGED run
    BY <1>1 DEF RenamedStep
  <1>2. CASE Quiet
    BY <1>2 DEF RenamedStep, Quiet, QuietRun
  <1>3. ASSUME NEW s \in Server, WorkerWrites(s) PROVE RenamedStep
    <2>1. \/ Moves(s, "renamed") /\ files' = files \cup {NameOf[AssetOf(s)]}
          \/ \E at \in {"failing", "releasing"} : Moves(s, at)
      BY <1>0, <1>3, WorkerWriteSteps
    <2> QED BY <2>1 DEF RenamedStep, Moves, AssetOf
  <1>4. ASSUME NEW a \in Asset, EnqueueSnapshot(a) PROVE UNCHANGED run
    BY <1>0, <1>4, EnqueueSteps
  <1>5. ASSUME NEW r \in Request, RequestWrites(r) PROVE UNCHANGED run
    BY <1>0, <1>5, ReadSteps, UploadSteps, DeleteBookmarkSteps, DropSteps, RemoveSteps,
       InsertSteps, FailSteps DEF RequestWrites
  <1> QED BY <1>0, <1>1, <1>2, <1>3, <1>4, <1>5, StepCases

\* With distinct names every step keeps the files in order.
LEMMA FilesNext == ASSUME NamesDiffer, FilesInv, [Next]_vars PROVE FilesInv'
  <1>1. /\ RowsInv' /\ \A r \in Request : FilesFor(r)'
        /\ FilesStep /\ StatusSteps /\ CompletedStep /\ RenamedStep
    BY RowsNext, RequestFilesNext, FilesKept, StatusNext, CompletedNext, RenamedNext DEF FilesInv
  <1>2. CompleteHasFile'
    <2> SUFFICES ASSUME NEW a \in Asset, asset'[a].status = "complete" PROVE NameOf[a] \in files'
      BY DEF CompleteHasFile
    <2>1. CASE asset'[a] = asset[a]
      BY <1>1, <2>1 DEF FilesInv, CompleteHasFile, FilesStep
    <2>2. ASSUME NEW s \in Server, run[s].at = "renamed", AssetOf(s) = a, a \in Pending
          PROVE  NameOf[a] \in files'
      BY <1>1, <2>2 DEF FilesInv, RenamedHasFile, FilesStep, Pending
    <2>3. ASSUME NEW r \in Request, request[r].at = "uploading", request[r].asset = a
          PROVE  NameOf[a] \in files'
      BY <1>1, <2>3 DEF FilesInv, FilesFor, FilesStep, RowsInv, RowsOK
    <2> QED BY <1>1, <2>1, <2>2, <2>3 DEF CompletedStep
  <1>3. RenamedHasFile'
    <2> SUFFICES ASSUME NEW s \in Server, run'[s].at = "renamed", AssetOf(s)' \in Pending'
                 PROVE  NameOf[AssetOf(s)'] \in files'
      BY DEF RenamedHasFile
    <2>1. CASE run[s].at = "renamed" /\ run'[s].job = run[s].job
      <3> DEFINE a == AssetOf(s)
      <3>1. a \in Asset /\ asset'[a].status = "pending" /\ a = AssetOf(s)'
        BY <2>1 DEF AssetOf, Pending
      <3>2. asset[a].status # "unborn"
        BY <2>1 DEF FilesInv, RowsInv, RowsOK
      <3> HIDE DEF a
      <3>3. asset[a].status = "pending"
        BY <1>1, <3>1, <3>2 DEF StatusSteps, StatusStep
      <3>4. NameOf[a] \in files
        BY <2>1, <3>1, <3>3 DEF FilesInv, RenamedHasFile, Pending, a
      <3> QED BY <1>1, <3>1, <3>3, <3>4 DEF FilesStep
    <2>2. CASE NameOf[run'[s].job[1]] \in files'
      BY <2>2 DEF AssetOf
    <2> QED BY <1>1, <2>1, <2>2 DEF RenamedStep
  <1> QED BY <1>1, <1>2, <1>3 DEF FilesInv

\* R5 of docs/specs/linkding-parity.md: the file of a completed asset is there,
\* while uploads, deletions, captures, crashes and failing transactions go on.
\* The file names must differ: see NamesDiffer.
THEOREM CompleteAssetsHaveFiles == ASSUME NamesDiffer PROVE Spec => []CompleteHasFile
  <1>1. Init => FilesInv
    <2> SUFFICES ASSUME Init PROVE FilesInv
      OBVIOUS
    <2>1. RowsInv
      BY RowsInit
    <2>2. /\ \A a \in Asset : asset[a].status = "unborn"
          /\ \A s \in Server : run[s].at = "idle"
          /\ \A r \in Request : request[r].at = "idle"
      BY DEF Init, NoRun, NoRequest
    <2> QED BY <2>1, <2>2 DEF FilesInv, FilesFor, RenamedHasFile, CompleteHasFile
  <1>2. FilesInv /\ [Next]_vars => FilesInv'
    BY FilesNext
  <1>3. FilesInv => CompleteHasFile
    BY DEF FilesInv
  <1> QED BY <1>1, <1>2, <1>3, PTL DEF Spec

-----------------------------------------------------------------------------
(* The snapshot lock.                                                       *)

\* While no process stalls, a capture and the lease of its lock started
\* together, and the capture ends first.
LockOK ==
  happened.stalls = 0 =>
    \A s \in Server : run[s].at \in {"locked", "capturing"} =>
      lock.holder = s /\ lock.ttl + run[s].age = LockLease

Guarded == {"locked", "capturing"}

\* What a step other than the clock's does to the lock, and to the runs that
\* count on it.
LockKept ==
  /\ UNCHANGED lock
  /\ \A t \in Server : run'[t].at \in Guarded => run[t].at \in Guarded /\ run'[t].age = run[t].age
LockTaken ==
  \E s \in Server : /\ lock.holder = None \/ lock.ttl = 0
                    /\ lock' = [holder |-> s, ttl |-> LockLease] /\ run'[s].age = 0
                    /\ \A t \in Server \ {s} : run'[t] = run[t]
LockFreed ==
  \E s \in Server : /\ lock.holder = s /\ run[s].at = "releasing" /\ run'[s].at = "returned"
                    /\ \A t \in Server \ {s} : run'[t] = run[t]
LockStep == LockKept \/ LockTaken \/ LockFreed

\* A server's step keeps, takes or frees the lock.
LEMMA LockOfWorker ==
  ASSUME TypeInv, NEW s \in Server,
         \/ \E j \in Job : Claim(s, j)
         \/ LoseLease(s) \/ ProcessStep(s) \/ DatabaseError(s)
         \/ Shutdown(s) \/ Exit(s) \/ Crash(s)
         \/ \E enabled \in BOOLEAN : Start(s, enabled)
  PROVE  LockStep
  <1> USE DEF LockStep
  <1>0. run \in [Server -> Run] /\ job \in [Job -> JobRow]
    BY Types
  <1>1. ASSUME UNCHANGED lock, run'[s].at \notin Guarded,
               \A t \in Server \ {s} : run'[t] = run[t]
        PROVE  LockKept
    BY <1>1 DEF LockKept
  <1>2. ASSUME UNCHANGED lock, run' = [run EXCEPT ![s] = NoRun] PROVE LockKept
    BY <1>0, <1>1, <1>2, NoRunType DEF Guarded
  <1>3. ASSUME NEW j \in Job, Claim(s, j) PROVE LockKept
    <2>1. run' = [run EXCEPT ![s] = Claimed(j, job[j].attempts + 1)] /\ UNCHANGED lock
      BY <1>3, Zenon DEF Claim, Claimed
    <2>2. job[j].attempts + 1 \in Nat
      BY <1>0 DEF JobRow
    <2>3. run'[s].at = "claimed" /\ \A t \in Server \ {s} : run'[t] = run[t]
      BY <1>0, <2>1, <2>2, ClaimedRun
    <2> QED BY <1>1, <2>1, <2>3 DEF Guarded
  <1>4. CASE LoseLease(s) \/ Shutdown(s)
    <2>1. PICK c : run' = [run EXCEPT ![s].cancelled = c]
      BY <1>4 DEF LoseLease, Shutdown
    <2>2. \A t \in Server : run'[t].at = run[t].at /\ run'[t].age = run[t].age
      BY <1>0, <2>1 DEF Run
    <2> QED BY <1>4, <2>2 DEF LoseLease, Shutdown, LockKept
  <1>5. ASSUME UNCHANGED lock, NEW at \in Stage \ Guarded, Moves(s, at) PROVE LockKept
    BY <1>1, <1>5 DEF Moves
  <1>6. CASE Load(s) \/ Rename(s) \/ Commit(s) \/ MarkFailure(s) \/ Interrupt(s)
    <2>1. \E at \in Stage \ Guarded : Moves(s, at)
      BY <1>0, <1>6, ProcessMoves DEF Stage, Guarded
    <2>2. UNCHANGED lock
      BY <1>6 DEF Load, Rename, Commit, MarkFailure, Interrupt
    <2> QED BY <1>5, <2>1, <2>2
  <1>7. CASE AcquireLock(s)
    <2>1. CASE lock.holder = None \/ lock.ttl = 0
      <3>1. lock' = [holder |-> s, ttl |-> LockLease] /\ run' = [run EXCEPT ![s].at = "locked", ![s].age = 0]
        BY <1>7, <2>1 DEF AcquireLock
      <3>2. run'[s].age = 0 /\ \A t \in Server \ {s} : run'[t] = run[t]
        BY <1>0, <3>1 DEF Run
      <3> QED BY <2>1, <3>1, <3>2 DEF LockTaken
    <2>2. CASE ~(lock.holder = None \/ lock.ttl = 0)
      <3>1. UNCHANGED lock /\ Return(s, FALSE)
        BY <1>7, <2>2 DEF AcquireLock
      <3>2. run'[s].at = "returned" /\ \A t \in Server \ {s} : run'[t] = run[t]
        BY <1>0, <3>1 DEF Return, Run
      <3> QED BY <1>1, <3>1, <3>2 DEF Guarded
    <2> QED BY <2>1, <2>2
  <1>8. CASE Reload(s)
    <2>1. CASE run' = [run EXCEPT ![s].at = "capturing"]
      <3>1. run[s].at = "locked" /\ UNCHANGED lock
        BY <1>8 DEF Reload, Step
      <3>2. run'[s].age = run[s].age /\ \A t \in Server \ {s} : run'[t] = run[t]
        BY <1>0, <2>1 DEF Run
      <3> QED BY <3>1, <3>2 DEF LockKept, Guarded
    <2>2. CASE Release(s, TRUE)
      <3>1. run'[s].at = "releasing" /\ \A t \in Server \ {s} : run'[t] = run[t]
        BY <1>0, <2>2 DEF Release, Run
      <3> QED BY <1>1, <1>8, <3>1 DEF Reload, Guarded
    <2> QED BY <1>8, <2>1, <2>2 DEF Reload
  <1>9. ASSUME NEW ok \in BOOLEAN, Capture(s, ok) PROVE LockKept
    <2>1. \E at \in Stage \ Guarded : Moves(s, at)
      BY <1>0, <1>9, ProcessMoves DEF Stage, Guarded
    <2> QED BY <1>5, <1>9, <2>1 DEF Capture
  <1>10. CASE ReleaseLock(s)
    <2>1. run[s].at = "releasing" /\ Moves(s, "returned")
      BY <1>0, <1>10, ProcessMoves
    <2>2. CASE lock.holder = s
      BY <2>1, <2>2 DEF LockFreed, Moves
    <2>3. CASE lock.holder # s
      BY <1>5, <1>10, <2>1, <2>3 DEF ReleaseLock, Stage, Guarded
    <2> QED BY <2>2, <2>3
  <1>11. CASE Settle(s)
    BY <1>2, <1>11 DEF Settle
  <1>12. CASE DatabaseError(s)
    <2>1. UNCHANGED lock
      BY <1>12 DEF DatabaseError
    <2>2. CASE run' = [run EXCEPT ![s] = NoRun]
      BY <1>2, <2>1, <2>2
    <2>3. CASE run[s].at \in DOMAIN AfterError /\ run' = [run EXCEPT ![s].at = AfterError[run[s].at], ![s].ok = FALSE]
      <3>1. AfterError[run[s].at] \in Stage \ Guarded
        BY <2>3 DEF AfterError, Stage, Guarded
      <3>2. run'[s].at = AfterError[run[s].at] /\ \A t \in Server \ {s} : run'[t] = run[t]
        BY <1>0, <2>3 DEF Run
      <3> QED BY <1>1, <2>1, <3>1, <3>2
    <2> QED BY <1>12, <2>2, <2>3 DEF DatabaseError
  <1>13. CASE Exit(s) \/ Crash(s)
    BY <1>2, <1>13 DEF Exit, Crash, End
  <1>14. ASSUME NEW enabled \in BOOLEAN, Start(s, enabled) PROVE LockKept
    BY <1>14 DEF Start, LockKept
  <1> QED BY <1>3, <1>4, <1>6, <1>7, <1>8, <1>9, <1>10, <1>11, <1>12, <1>13, <1>14 DEF ProcessStep

\* Every step but time keeps, takes or frees the lock.
LEMMA LockSteps == ASSUME TypeInv, [Next]_vars PROVE Tick \/ LockStep
  <1>1. ASSUME lock' = lock, run' = run PROVE LockStep
    BY <1>1 DEF LockStep, LockKept
  <1>2. ASSUME NEW a \in Asset, EnqueueSnapshot(a) PROVE LockStep
    <2>1. lock' = lock /\ run' = run
      BY <1>2 DEF EnqueueSnapshot
    <2> QED BY <1>1, <2>1
  <1>3. ASSUME NEW r \in Request, RequestWrites(r) PROVE LockStep
    <2>1. lock' = lock /\ run' = run
      BY <1>3 DEF RequestWrites, ReadForDelete, UploadFile, DeleteBookmark, DeleteAsset,
         DeleteAdminAsset, DropAsset, RemoveFile, InsertUpload, InsertFails, RequestDies
    <2> QED BY <1>1, <2>1
  <1>4. CASE Next
    BY <1>2, <1>3, <1>4, LockOfWorker DEF Next, RequestStep, RequestWrites
  <1> QED BY <1>1, <1>4 DEF vars

\* Stalls and errors are never forgotten.
LEMMA CountsOnlyGrow ==
  ASSUME TypeInv, [Next]_vars
  PROVE  /\ happened'.stalls = 0 => happened.stalls = 0
         /\ happened'.errors = 0 => happened.errors = 0
  <1>0. happened \in [crashes : Nat, stalls : Nat, errors : Nat]
    BY Types
  <1> DEFINE Grows == \/ happened' = happened
                      \/ happened' = [happened EXCEPT !.stalls = @ + 1]
                      \/ happened' = [happened EXCEPT !.errors = @ + 1]
                      \/ happened' = [happened EXCEPT !.crashes = @ + 1]
  <1>1. ASSUME UNCHANGED vars PROVE Grows
    BY <1>1 DEF vars
  <1>2. ASSUME NEW s \in Server, ProcessStep(s) PROVE Grows
    BY <1>2, Zenon DEF ProcessStep, Load, AcquireLock, Reload, Capture, Rename, Commit, MarkFailure,
       ReleaseLock, Interrupt, Settle
  <1>3. ASSUME NEW s \in Server,
               \/ \E j \in Job : Claim(s, j)
               \/ LoseLease(s) \/ DatabaseError(s) \/ Shutdown(s) \/ Exit(s) \/ Crash(s)
               \/ \E enabled \in BOOLEAN : Start(s, enabled)
        PROVE  Grows
    BY <1>3, Zenon DEF Claim, LoseLease, DatabaseError, Shutdown, Exit, Crash, Start
  <1>4. ASSUME NEW r \in Request, RequestWrites(r) PROVE Grows
    BY <1>4, Zenon DEF RequestWrites, ReadForDelete, UploadFile, DeleteBookmark, DeleteAsset,
       DeleteAdminAsset, DropAsset, RemoveFile, InsertUpload, InsertFails, RequestDies
  <1>5. ASSUME NEW a \in Asset, EnqueueSnapshot(a) PROVE Grows
    BY <1>5 DEF EnqueueSnapshot
  <1>6. ASSUME Tick PROVE Grows
    BY <1>6, Zenon DEF Tick
  <1> HIDE DEF Grows
  <1>7. ASSUME Next PROVE Grows
    BY <1>2, <1>3, <1>4, <1>5, <1>6, <1>7 DEF Next, RequestStep, RequestWrites
  <1>8. Grows
    BY <1>1, <1>7
  <1> QED BY <1>0, <1>8 DEF Grows

\* Time keeps the lock in order: its lease outlasts the capture of its holder.
LEMMA LockTick == ASSUME TypeInv, LockOK, Tick PROVE LockOK'
  <1>0. /\ run \in [Server -> Run] /\ lock \in [holder : Server \cup {None}, ttl : 0..LockLease]
        /\ happened \in [crashes : Nat, stalls : Nat, errors : Nat]
    BY Types
  <1> SUFFICES ASSUME happened'.stalls = 0, NEW s \in Server, run'[s].at \in {"locked", "capturing"}
               PROVE  lock'.holder = s /\ lock'.ttl + run'[s].age = LockLease
    BY DEF LockOK
  <1>1. Overrun = {} /\ happened.stalls = 0
    <2>1. Overrun # {} => happened' = [happened EXCEPT !.stalls = @ + 1]
      BY DEF Tick
    <2>2. UNCHANGED happened \/ happened' = [happened EXCEPT !.stalls = @ + 1]
      BY DEF Tick
    <2> QED BY <1>0, <2>1, <2>2
  <1> DEFINE new(t) == IF run[t].at \in {"locked", "capturing"} /\ run[t].age < CaptureLimit
                       THEN [run[t] EXCEPT !.age = @ + 1] ELSE run[t]
  <1>2. run'[s] = new(s)
    BY DEF Tick
  <1>3. run[s].at \in {"locked", "capturing"}
    BY <1>0, <1>2 DEF Run
  <1>4. run[s].age < CaptureLimit /\ run[s].age \in Nat
    BY <1>0, <1>1, <1>3, SnapshotAssumption DEF Overrun, Run
  <1>5. run'[s].age = run[s].age + 1
    BY <1>0, <1>2, <1>3, <1>4 DEF Run
  <1>6. lock.holder = s /\ lock.ttl + run[s].age = LockLease
    BY <1>1, <1>3 DEF LockOK
  <1>7. lock' = [lock EXCEPT !.ttl = Down(lock.ttl)]
    BY DEF Tick
  <1>8. lock'.holder = s /\ lock'.ttl = lock.ttl - 1
    BY <1>0, <1>4, <1>6, <1>7, SnapshotAssumption DEF Down
  <1> QED BY <1>0, <1>4, <1>5, <1>6, <1>8, SnapshotAssumption

\* Every step keeps the lock in order.
LEMMA LockNext == ASSUME TypeInv, LockOK, [Next]_vars PROVE LockOK'
  <1>0. run \in [Server -> Run] /\ lock \in [holder : Server \cup {None}, ttl : 0..LockLease]
    BY Types
  <1>1. CASE Tick
    BY <1>1, LockTick
  <1>2. CASE LockStep
    <2> SUFFICES ASSUME happened'.stalls = 0, NEW t \in Server, run'[t].at \in {"locked", "capturing"}
                 PROVE  lock'.holder = t /\ lock'.ttl + run'[t].age = LockLease
      BY DEF LockOK
    <2>1. happened.stalls = 0
      BY CountsOnlyGrow
    <2>2. ASSUME run[t].at \in Guarded
          PROVE  lock.holder = t /\ lock.holder # None /\ lock.ttl > 0 /\ lock.ttl + run[t].age = LockLease
      BY <1>0, <2>1, <2>2, NoneApart, SnapshotAssumption DEF LockOK, Guarded, Run
    <2>3. CASE LockKept
      BY <2>2, <2>3 DEF LockKept, Guarded
    <2>4. CASE LockTaken
      <3>1. PICK s \in Server : /\ lock.holder = None \/ lock.ttl = 0
                                /\ lock' = [holder |-> s, ttl |-> LockLease] /\ run'[s].age = 0
                                /\ \A u \in Server \ {s} : run'[u] = run[u]
        BY <2>4 DEF LockTaken
      <3>2. t = s
        BY <2>2, <3>1 DEF Guarded
      <3> QED BY <3>1, <3>2, SnapshotAssumption
    <2>5. CASE LockFreed
      BY <2>2, <2>5 DEF LockFreed, Guarded
    <2> QED BY <1>2, <2>3, <2>4, <2>5 DEF LockStep
  <1> QED BY <1>1, <1>2, LockSteps

\* R5: SingleFile runs one capture at a time in all server processes together,
\* as long as none of them stalls beyond its lease.
THEOREM CapturesAreSerial == Spec => []SerialCapture
  <1>1. Init => LockOK
    BY DEF Init, LockOK, NoRun
  <1>2. TypeInv /\ LockOK /\ [Next]_vars => LockOK'
    BY LockNext
  <1>3. RowsInv => TypeInv
    BY DEF RowsInv
  <1>4. TypeInv /\ LockOK => SerialCapture
    <2> SUFFICES ASSUME TypeInv, LockOK PROVE SerialCapture
      OBVIOUS
    <2>1. happened.stalls = 0 \/ happened.stalls > 0
      BY Types
    <2> QED BY <2>1 DEF LockOK, SerialCapture
  <1> QED BY <1>1, <1>2, <1>3, <1>4, RowsAlways, PTL DEF Spec

-----------------------------------------------------------------------------
(* Pending snapshots of one server.                                         *)

\* The stages in which a run has the snapshot lock.
LockStage == {"locked", "capturing", "captured", "renamed", "failing", "releasing"}

OneServer == \A s, t \in Server : s = t

\* The worker and its job go together, it holds the lock while it works under
\* it, and only a shutdown cancels it.
WorkerOf(s) ==
  /\ run[s].at # "idle" => job[run[s].job].by = s /\ job[run[s].job].attempts = run[s].attempts
  /\ run[s].at = "idle" => ~run[s].cancelled
  /\ \A j \in Job : job[j].by = s => run[s].at # "idle" /\ run[s].job = j
  /\ run[s].at \in LockStage => lock.holder = s
  /\ run[s].cancelled => server[s].mode # "up"
  /\ server[s].mode = "down" => run[s].at = "idle"
WorkerOK == \A s \in Server : WorkerOf(s)

\* A worker that moves on to a stage under the lock keeps the lock.
LEMMA WorkerMoved ==
  ASSUME NEW s \in Server, WorkerOf(s), run[s].at # "idle", NEW at \in Stage \ {"idle"}, Moves(s, at),
         UNCHANGED <<job, server>>, at \in LockStage => lock'.holder = s
  PROVE  WorkerOf(s)'
  BY DEF WorkerOf, Moves

\* A step of ProcessSnapshot keeps its worker in order and leaves jobs and servers alone.
LEMMA WorkerProcess ==
  ASSUME TypeInv, NEW s \in Server, WorkerOf(s), ProcessStep(s), ~Settle(s)
  PROVE  WorkerOf(s)' /\ UNCHANGED <<job, server, happened>>
  <1>0. run \in [Server -> Run] /\ (run[s].at \in LockStage => lock.holder = s)
    BY Types DEF WorkerOf
  <1>1. CASE Load(s)
    <2>1. UNCHANGED <<lock, job, server, happened>>
      BY <1>1 DEF Load
    <2>2. run[s].at # "idle" /\ \E at \in Stage \ ({"idle"} \cup LockStage) : Moves(s, at)
      BY <1>0, <1>1, ProcessMoves DEF Stage, LockStage
    <2> QED BY <2>1, <2>2, WorkerMoved
  <1>2. CASE AcquireLock(s)
    <2>1. UNCHANGED <<job, server, happened>>
      BY <1>2 DEF AcquireLock
    <2>2. run[s].at # "idle" /\ \E at \in {"locked", "returned"} : Moves(s, at)
      BY <1>0, <1>2, ProcessMoves
    <2>3. run'[s].at = "locked" => lock'.holder = s
      <3>1. CASE lock.holder = None \/ lock.ttl = 0
        <4>1. lock' = [holder |-> s, ttl |-> LockLease]
          BY <1>2, <3>1 DEF AcquireLock
        <4> QED BY <4>1
      <3>2. CASE ~(lock.holder = None \/ lock.ttl = 0)
        <4>1. Return(s, FALSE)
          BY <1>2, <3>2 DEF AcquireLock
        <4>2. run'[s].at = "returned"
          BY <1>0, <4>1 DEF Return, Run
        <4> QED BY <4>2
      <3> QED BY <3>1, <3>2
    <2> QED BY <2>1, <2>2, <2>3, WorkerMoved DEF Stage, LockStage, Moves
  <1>3. CASE Reload(s) \/ Rename(s) \/ Commit(s) \/ MarkFailure(s) \/ \E ok \in BOOLEAN : Capture(s, ok)
    <2>1. UNCHANGED <<lock, job, server, happened>>
      BY <1>3 DEF Reload, Rename, Commit, MarkFailure, Capture
    <2>2. run[s].at \in LockStage /\ \E at \in LockStage : Moves(s, at)
      BY <1>0, <1>3, ProcessMoves DEF LockStage
    <2> QED BY <1>0, <2>1, <2>2, WorkerMoved DEF Stage, LockStage
  <1>4. CASE ReleaseLock(s)
    <2>1. UNCHANGED <<job, server, happened>>
      BY <1>4 DEF ReleaseLock
    <2>2. run[s].at = "releasing" /\ Moves(s, "returned")
      BY <1>0, <1>4, ProcessMoves
    <2> QED BY <2>1, <2>2, WorkerMoved DEF Stage, LockStage
  <1>5. CASE Interrupt(s)
    <2>1. UNCHANGED <<lock, job, server, happened>>
      BY <1>5 DEF Interrupt
    <2>2. \/ run[s].at \in {"claimed", "loaded"} /\ Moves(s, "returned")
          \/ run[s].at \in {"locked", "capturing", "renamed", "failing"} /\ Moves(s, "releasing")
      BY <1>0, <1>5, ProcessMoves
    <2>3. CASE run[s].at \in {"claimed", "loaded"} /\ Moves(s, "returned")
      BY <2>1, <2>3, WorkerMoved DEF Stage, LockStage
    <2>4. CASE run[s].at \in {"locked", "capturing", "renamed", "failing"} /\ Moves(s, "releasing")
      BY <1>0, <2>1, <2>4, WorkerMoved DEF Stage, LockStage
    <2> QED BY <2>2, <2>3, <2>4
  <1> QED BY <1>1, <1>2, <1>3, <1>4, <1>5 DEF ProcessStep

\* The worker gives its job back and is idle.
LEMMA WorkerIdle ==
  ASSUME TypeInv, NEW s \in Server, WorkerOf(s), run' = [run EXCEPT ![s] = NoRun],
         \A j \in Job : job'[j].by = s => job[j].by = s /\ j # run[s].job
  PROVE  WorkerOf(s)'
  <1>1. run'[s] = NoRun
    BY Types
  <1> QED BY <1>1, NoRunType DEF WorkerOf, LockStage

\* A step of a server keeps its worker, job and lock in order.
LEMMA WorkerServer ==
  ASSUME TypeInv, OneServer, NEW s \in Server, WorkerOf(s),
         \/ \E j \in Job : Claim(s, j)
         \/ LoseLease(s) \/ ProcessStep(s) \/ DatabaseError(s)
         \/ Shutdown(s) \/ Exit(s) \/ Crash(s)
         \/ \E enabled \in BOOLEAN : Start(s, enabled)
  PROVE  WorkerOf(s)'
  <1>0. /\ run \in [Server -> Run] /\ job \in [Job -> JobRow]
        /\ server \in [Server -> [mode : {"up", "stopping", "down"}, enabled : BOOLEAN]]
    BY Types
  <1>00. run[s].at # "idle" => Holds(s) /\ run[s].job \in Job
    BY DEF WorkerOf, Holds, TypeInv, LocalsOK
  <1>1. ASSUME NEW j \in Job, Claim(s, j) PROVE WorkerOf(s)'
    <2>1. run' = [run EXCEPT ![s] = Claimed(j, job[j].attempts + 1)] /\ run[s].at = "idle" /\ server[s].mode = "up"
      BY <1>1, Zenon DEF Claim, Claimed
    <2>2. job[j].attempts + 1 \in Nat
      BY <1>0 DEF JobRow
    <2>3. run'[s].at = "claimed" /\ run'[s].job = j /\ run'[s].attempts = job[j].attempts + 1 /\ ~run'[s].cancelled
      BY <1>0, <2>1, <2>2, ClaimedRun
    <2>4. job'[j].by = s /\ job'[j].attempts = job[j].attempts + 1 /\ \A i \in Job \ {j} : job'[i] = job[i]
      <3>1. job' = [job EXCEPT ![j].state = "running", ![j].by = s, ![j].due = 0, ![j].attempts = @ + 1]
        BY <1>1 DEF Claim
      <3>2. \A i \in Job \ {j} : job'[i] = job[i]
        BY <1>0, <3>1
      <3>3. job'[j].by = s
        BY <1>0, <3>1 DEF JobRow
      <3>4. job'[j].attempts = job[j].attempts + 1
        BY <1>0, <3>1 DEF JobRow
      <3> QED BY <3>2, <3>3, <3>4
    <2>5. UNCHANGED server
      BY <1>1 DEF Claim
    <2> QED BY <2>1, <2>3, <2>4, <2>5 DEF WorkerOf, LockStage
  <1>2. CASE LoseLease(s)
    BY <1>00, <1>2 DEF LoseLease
  <1>3. CASE Shutdown(s)
    <2>1. run' = [run EXCEPT ![s].cancelled = (run[s].at # "idle")]
      BY <1>3 DEF Shutdown
    <2>2. /\ run'[s].at = run[s].at /\ run'[s].job = run[s].job /\ run'[s].attempts = run[s].attempts
          /\ run'[s].cancelled = (run[s].at # "idle")
      BY <1>0, <2>1 DEF Run
    <2>3. server'[s].mode = "stopping" /\ UNCHANGED <<job, lock>>
      BY <1>0, <1>3 DEF Shutdown
    <2> QED BY <2>2, <2>3 DEF WorkerOf
  <1>4. CASE Settle(s)
    <2>1. Holds(s) /\ run[s].job \in Job /\ run' = [run EXCEPT ![s] = NoRun]
      BY <1>00, <1>4 DEF Settle
    <2>2. job'[run[s].job].by = None /\ \A i \in Job \ {run[s].job} : job'[i] = job[i]
      <3> DEFINE j == run[s].job
      <3>1. \/ job' = [job EXCEPT ![j].by = None] \/ job' = [job EXCEPT ![j] = NoJob]
            \/ job' = [job EXCEPT ![j].state = "pending", ![j].by = None, ![j].due = RetryDelay[run[s].attempts]]
        BY <1>4, <2>1, Zenon DEF Settle
      <3> HIDE DEF j
      <3>2. j \in Job
        BY <2>1 DEF j
      <3>3. CASE job' = [job EXCEPT ![j].by = None]
        BY <1>0, <3>2, <3>3 DEF JobRow, j
      <3>4. CASE job' = [job EXCEPT ![j] = NoJob]
        BY <1>0, <3>2, <3>4 DEF NoJob, j
      <3>5. CASE job' = [job EXCEPT ![j].state = "pending", ![j].by = None, ![j].due = RetryDelay[run[s].attempts]]
        BY <1>0, <3>2, <3>5 DEF JobRow, j
      <3> QED BY <3>1, <3>3, <3>4, <3>5
    <2>3. \A i \in Job : job'[i].by = s => job[i].by = s /\ i # run[s].job
      BY <2>1, <2>2, NoneApart
    <2> QED BY <2>1, <2>3, WorkerIdle
  <1>5. CASE ProcessStep(s) /\ ~Settle(s)
    BY <1>5, WorkerProcess
  <1>6. CASE DatabaseError(s)
    <2>1. UNCHANGED <<lock, server>>
      BY <1>6 DEF DatabaseError
    <2>2. CASE /\ run[s].at = "returned" /\ run' = [run EXCEPT ![s] = NoRun]
               /\ job' = IF Holds(s) THEN [job EXCEPT ![run[s].job].by = None] ELSE job
      <3>1. job' = [job EXCEPT ![run[s].job].by = None] /\ run[s].job \in Job
        BY <1>00, <2>2
      <3>2. \A i \in Job : job'[i].by = s => job[i].by = s /\ i # run[s].job
        BY <1>0, <3>1, NoneApart DEF JobRow
      <3> QED BY <2>2, <3>2, WorkerIdle
    <2>3. CASE /\ run[s].at \in DOMAIN AfterError /\ UNCHANGED job
               /\ run' = [run EXCEPT ![s].at = AfterError[run[s].at], ![s].ok = FALSE]
      <3> DEFINE at == AfterError[run[s].at]
      <3>1. /\ run[s].at # "idle" /\ at \in Stage \ {"idle"}
            /\ at \in LockStage => run[s].at \in LockStage
        BY <2>3 DEF AfterError, Stage, LockStage
      <3>2. Moves(s, at)
        BY <1>0, <2>3, <3>1, RunMoves
      <3>3. run[s].at \in LockStage => lock.holder = s
        BY DEF WorkerOf
      <3> HIDE DEF at
      <3> QED BY <2>1, <2>3, <3>1, <3>2, <3>3, WorkerMoved
    <2> QED BY <1>6, <2>2, <2>3 DEF DatabaseError
  <1>7. CASE Exit(s) \/ Crash(s)
    <2>1. run' = [run EXCEPT ![s] = NoRun]
      BY <1>7 DEF Exit, Crash, End
    <2>2. \A i \in Job : job'[i].by # s
      <3>1. \A i \in Job : job'[i] = IF job[i].by = s THEN [job[i] EXCEPT !.by = None] ELSE job[i]
        BY <1>7 DEF Exit, Crash, End
      <3> QED BY <1>0, <3>1, NoneApart DEF JobRow
    <2> QED BY <2>1, <2>2, WorkerIdle
  <1>8. ASSUME NEW enabled \in BOOLEAN, Start(s, enabled) PROVE WorkerOf(s)'
    <2>1. run[s].at = "idle" /\ UNCHANGED <<run, lock>>
      BY <1>8 DEF Start, WorkerOf
    <2>2. \A i \in Job : job'[i].by = s => job[i].by = s
      BY <1>8, NoneApart DEF Start, Queued
    <2> QED BY <2>1, <2>2 DEF WorkerOf, LockStage
  <1> QED BY <1>1, <1>2, <1>3, <1>4, <1>5, <1>6, <1>7, <1>8

\* With one server, workers, jobs and the lock stay in order.
LEMMA WorkerNext == ASSUME TypeInv, OneServer, WorkerOK, [Next]_vars PROVE WorkerOK'
  <1> SUFFICES ASSUME NEW s \in Server PROVE WorkerOf(s)'
    BY DEF WorkerOK
  <1>0. WorkerOf(s) /\ job \in [Job -> JobRow] /\ run \in [Server -> Run]
    BY Types DEF WorkerOK
  <1>1. ASSUME UNCHANGED <<job, run, lock, server>> PROVE WorkerOf(s)'
    BY <1>0, <1>1 DEF WorkerOf
  <1>2. ASSUME NEW a \in Asset, EnqueueSnapshot(a) PROVE WorkerOf(s)'
    <2>1. /\ UNCHANGED <<lock, server, run>> /\ <<a, 1>> \in Job /\ job'[<<a, 1>>].by = None
          /\ \A j \in Job \ {<<a, 1>>} : job'[j] = job[j]
      BY <1>2, EnqueueSteps
    <2>2. job[<<a, 1>>].by = None
      BY <1>2, <2>1 DEF EnqueueSnapshot, Free, TypeInv, LocalsOK
    <2>3. run[s].at # "idle" => run[s].job \in Job
      BY DEF TypeInv, LocalsOK
    <2> QED BY <1>0, <2>1, <2>2, <2>3, NoneApart DEF WorkerOf
  <1>3. ASSUME NEW r \in Request, RequestWrites(r) PROVE WorkerOf(s)'
    BY <1>1, <1>3 DEF RequestWrites, ReadForDelete, UploadFile, DeleteBookmark, DeleteAsset,
       DeleteAdminAsset, DropAsset, RemoveFile, InsertUpload, InsertFails, RequestDies
  <1>4. CASE Tick
    <2>1. \A j \in Job : job'[j].by = job[j].by /\ job'[j].attempts = job[j].attempts
      BY <1>0, <1>4 DEF Tick, JobRow
    <2>2. /\ run'[s].at = run[s].at /\ run'[s].job = run[s].job /\ run'[s].attempts = run[s].attempts
          /\ run'[s].cancelled = run[s].cancelled
      BY <1>0, <1>4 DEF Tick, Run
    <2>3. UNCHANGED server /\ lock'.holder = lock.holder
      BY <1>4, Types DEF Tick
    <2>4. run[s].at # "idle" => run[s].job \in Job
      BY DEF TypeInv, LocalsOK
    <2> QED BY <1>0, <2>1, <2>2, <2>3, <2>4 DEF WorkerOf
  <1>5. CASE UNCHANGED vars
    BY <1>1, <1>5 DEF vars
  <1>6. CASE Next
    <2>1. ASSUME NEW q \in Server,
                 \/ \E j \in Job : Claim(q, j)
                 \/ LoseLease(q) \/ ProcessStep(q) \/ DatabaseError(q)
                 \/ Shutdown(q) \/ Exit(q) \/ Crash(q)
                 \/ \E enabled \in BOOLEAN : Start(q, enabled)
          PROVE  WorkerOf(s)'
      <3>1. q = s
        BY DEF OneServer
      <3> QED BY <1>0, <2>1, <3>1, WorkerServer
    <2> QED BY <1>2, <1>3, <1>4, <1>6, <2>1 DEF Next, RequestStep, RequestWrites
  <1> QED BY <1>5, <1>6

\* A lock that a stopped process left behind.
Orphan == lock.holder # None /\ \A s \in Server : run[s].at \notin LockStage

\* A queued job that will not lose its asset to ErrSnapshotBusy: its last
\* attempt comes after the lease of a lock that was left behind.
Waits(j) ==
  /\ job[j].state = "pending"
  /\ \/ job[j].attempts + 2 <= MaxAttempts
     \/ job[j].attempts + 1 = MaxAttempts /\ (Orphan => lock.ttl <= job[j].due)

\* The job that server s works on, on its way to settle its pending asset or
\* to be queued again.
WorkedOn(s, j) ==
  /\ run[s].at # "idle" /\ run[s].job = j /\ job[j].state = "running"
  /\ run[s].attempts <= MaxAttempts
  /\ run[s].at \in {"claimed", "loaded"} /\ run[s].attempts = MaxAttempts /\ Orphan => lock.ttl = 0
  /\ run[s].at \in {"releasing", "returned"} => ~run[s].ok /\ run[s].attempts < MaxAttempts

Cared(a) == \E j \in Job : j[1] = a /\ (Waits(j) \/ \E s \in Server : WorkedOn(s, j))

Healthy == (\A s \in Server : server[s].mode = "up" /\ server[s].enabled) /\ happened.errors = 0

PendingOK == Healthy => \A a \in Pending : Cared(a)

\* The delays outlast the lock: a job whose last attempt is next waits for as
\* long as a lock that was left behind can be held.
DelaysOutlast == MaxAttempts >= 2 /\ RetryDelay[MaxAttempts - 1] >= LockLease

\* A job stays as good as it is in a step that leaves it, and the lock to
\* whoever has it.
LEMMA WaitsKept ==
  ASSUME NEW j \in Job, Waits(j), job'[j] = job[j], Orphan' => Orphan /\ lock' = lock
  PROVE  Waits(j)'
  BY DEF Waits

\* Under OneServer the worker of s is everyone's.
LEMMA OrphanOne ==
  ASSUME OneServer, NEW s \in Server
  PROVE  /\ Orphan <=> lock.holder # None /\ run[s].at \notin LockStage
         /\ Orphan' <=> lock'.holder # None /\ run'[s].at \notin LockStage
  BY DEF Orphan, OneServer

\* A step of ProcessSnapshot, for the job of a pending asset.
LEMMA ProcessCares ==
  ASSUME TypeInv, OneServer, WorkerOK, Healthy, NEW s \in Server, ProcessStep(s), ~Settle(s),
         NEW j \in Job
  PROVE  /\ Waits(j) => Waits(j)'
         /\ WorkedOn(s, j) /\ j[1] \in Pending /\ j[1] \in Pending' => WorkedOn(s, j)'
  <1>0. /\ run \in [Server -> Run] /\ lock \in [holder : Server \cup {None}, ttl : 0..LockLease]
        /\ WorkerOf(s) /\ MaxAttempts \in Nat
    BY Types, SnapshotAssumption DEF WorkerOK
  <1>1. UNCHANGED <<job, server, happened>>
    BY <1>0, WorkerProcess
  <1>2. ~run[s].cancelled /\ server[s].enabled /\ run[s].attempts \in Nat
    BY <1>0 DEF Healthy, WorkerOf, Run
  \* What is left to show for each step: the lock, and the worker's own job.
  <1>3. ASSUME Orphan' => Orphan /\ lock' = lock
        PROVE  Waits(j) => Waits(j)'
    BY <1>1, <1>3, WaitsKept
  <1>4. ASSUME NEW at \in Stage \ {"idle", "claimed", "loaded", "releasing", "returned"}, Moves(s, at)
        PROVE  WorkedOn(s, j) => WorkedOn(s, j)'
    BY <1>1, <1>4 DEF WorkedOn, Moves
  <1>5. CASE Load(s)
    <2>1. UNCHANGED lock /\ run[s].at = "claimed" /\ \E at \in {"loaded", "returned"} : Moves(s, at)
      BY <1>0, <1>5, ProcessMoves DEF Load
    <2>2. Orphan <=> Orphan'
      BY <2>1, OrphanOne DEF LockStage, Moves
    <2>3. AssetOf(s) \in Pending => run'[s].at = "loaded"
      <3> SUFFICES ASSUME AssetOf(s) \in Pending PROVE run'[s].at = "loaded"
        OBVIOUS
      <3>1. run' = [run EXCEPT ![s].at = "loaded"]
        BY <1>2, <1>5 DEF Load
      <3> QED BY <1>0, <3>1 DEF Run
    <2>4. WorkedOn(s, j) /\ j[1] \in Pending => WorkedOn(s, j)'
      BY <1>1, <2>1, <2>2, <2>3 DEF WorkedOn, Moves, AssetOf
    <2> QED BY <1>3, <2>1, <2>2, <2>4
  <1>6. CASE AcquireLock(s)
    <2>1. run[s].at = "loaded" /\ \E at \in {"locked", "returned"} : Moves(s, at)
      BY <1>0, <1>6, ProcessMoves
    <2>2. CASE lock.holder = None \/ lock.ttl = 0
      <3>1. run' = [run EXCEPT ![s].at = "locked", ![s].age = 0]
        BY <1>6, <2>2 DEF AcquireLock
      <3>2. Moves(s, "locked")
        <4>1. run'[s].at = "locked"
          BY <1>0, <3>1 DEF Run
        <4> QED BY <2>1, <4>1 DEF Moves
      <3>3. ~Orphan'
        BY <3>2, OrphanOne DEF Moves, LockStage
      <3> QED BY <1>3, <1>4, <3>2, <3>3 DEF Stage
    <2>3. CASE ~(lock.holder = None \/ lock.ttl = 0)
      <3>1. UNCHANGED lock /\ run' = [run EXCEPT ![s].at = "returned", ![s].ok = FALSE]
        BY <1>6, <2>3 DEF AcquireLock, Return
      <3>2. Orphan /\ lock.ttl # 0
        BY <2>1, <2>3, OrphanOne DEF LockStage
      <3>3. run'[s].at = "returned" /\ ~run'[s].ok /\ Moves(s, "returned")
        <4>1. run'[s].at = "returned" /\ ~run'[s].ok
          BY <1>0, <3>1 DEF Run
        <4> QED BY <2>1, <4>1 DEF Moves
      <3>4. WorkedOn(s, j) => WorkedOn(s, j)'
        BY <1>0, <1>1, <1>2, <2>1, <3>2, <3>3 DEF WorkedOn, Moves
      <3> QED BY <1>3, <3>1, <3>2, <3>4
    <2> QED BY <2>2, <2>3
  <1>7. CASE Reload(s)
    <2>1. UNCHANGED lock /\ run[s].at = "locked" /\ \E at \in {"capturing", "releasing"} : Moves(s, at)
      BY <1>0, <1>7, ProcessMoves DEF Reload
    <2>2. ~Orphan'
      BY <2>1, OrphanOne DEF LockStage, Moves
    <2>3. AssetOf(s) \in Pending => Moves(s, "capturing")
      <3> SUFFICES ASSUME AssetOf(s) \in Pending PROVE Moves(s, "capturing")
        OBVIOUS
      <3>1. run' = [run EXCEPT ![s].at = "capturing"]
        BY <1>7 DEF Reload
      <3>2. run'[s].at = "capturing"
        BY <1>0, <3>1 DEF Run
      <3> QED BY <2>1, <3>2 DEF Moves
    <2>4. WorkedOn(s, j) /\ j[1] \in Pending => WorkedOn(s, j)'
      BY <1>4, <2>3 DEF WorkedOn, AssetOf, Stage
    <2> QED BY <1>3, <2>2, <2>4
  <1>8. CASE Rename(s) \/ \E ok \in BOOLEAN : Capture(s, ok)
    <2>1. \E at \in {"captured", "failing", "renamed"} : Moves(s, at)
      BY <1>0, <1>8, ProcessMoves
    <2>2. ~Orphan'
      BY <2>1, OrphanOne DEF LockStage, Moves
    <2> QED BY <1>3, <1>4, <2>1, <2>2 DEF Stage
  <1>9. CASE Commit(s)
    <2>1. \E at \in {"failing", "releasing"} : Moves(s, at)
      BY <1>0, <1>9, ProcessMoves
    <2>2. ~Orphan'
      BY <2>1, OrphanOne DEF LockStage, Moves
    <2>3. WorkedOn(s, j) /\ j[1] \in Pending => j[1] \notin Pending'
      <3> SUFFICES ASSUME AssetOf(s) \in Pending PROVE asset'[AssetOf(s)].status = "complete"
        BY DEF WorkedOn, AssetOf, Pending
      <3>1. asset' = [asset EXCEPT ![AssetOf(s)].status = "complete", ![AssetOf(s)].named = TRUE]
        BY <1>9 DEF Commit
      <3>2. asset \in [Asset -> AssetRow] /\ AssetOf(s) \in Asset
        BY Types DEF Pending
      <3> QED BY <3>1, <3>2 DEF AssetRow
    <2> QED BY <1>3, <2>2, <2>3
  <1>10. CASE MarkFailure(s)
    <2>1. run[s].at = "failing" /\ Moves(s, "releasing")
      BY <1>0, <1>10, ProcessMoves
    <2>2. ~Orphan'
      BY <2>1, OrphanOne DEF LockStage, Moves
    <2>3. ~run'[s].ok
      <3>1. run' = [run EXCEPT ![s].at = "releasing", ![s].ok = FALSE]
        BY <1>10 DEF MarkFailure, Release
      <3> QED BY <1>0, <3>1 DEF Run
    <2>4. AssetOf(s) \in Pending /\ run[s].attempts >= MaxAttempts => AssetOf(s) \notin Pending'
      <3> SUFFICES ASSUME AssetOf(s) \in Pending, run[s].attempts >= MaxAttempts
                   PROVE  asset'[AssetOf(s)].status = "failure"
        BY DEF Pending
      <3>1. asset' = [asset EXCEPT ![AssetOf(s)].status = "failure"]
        BY <1>10 DEF MarkFailure
      <3>2. asset \in [Asset -> AssetRow] /\ AssetOf(s) \in Asset
        BY Types DEF Pending
      <3> QED BY <3>1, <3>2 DEF AssetRow
    <2>5. WorkedOn(s, j) /\ j[1] \in Pending /\ j[1] \in Pending' => WorkedOn(s, j)'
      BY <1>0, <1>1, <1>2, <2>1, <2>3, <2>4 DEF WorkedOn, Moves, AssetOf
    <2> QED BY <1>3, <2>2, <2>5
  <1>11. CASE ReleaseLock(s)
    <2>1. run[s].at = "releasing" /\ Moves(s, "returned") /\ lock.holder = s
      BY <1>0, <1>11, ProcessMoves DEF WorkerOf, LockStage
    <2>2. lock' = [holder |-> None, ttl |-> 0] /\ run' = [run EXCEPT ![s].at = "returned"]
      BY <1>11, <2>1 DEF ReleaseLock
    <2>3. ~Orphan'
      BY <2>2, OrphanOne
    <2>4. run'[s].ok = run[s].ok
      BY <1>0, <2>2 DEF Run
    <2>5. WorkedOn(s, j) => WorkedOn(s, j)'
      BY <1>1, <2>1, <2>4 DEF WorkedOn, Moves
    <2> QED BY <1>3, <2>3, <2>5
  <1>12. ~Interrupt(s)
    BY <1>2 DEF Interrupt
  <1> QED BY <1>5, <1>6, <1>7, <1>8, <1>9, <1>10, <1>11, <1>12 DEF ProcessStep

\* A set of numbers has a least element.
LEMMA LeastExists ==
  ASSUME NEW S \in SUBSET Nat, S # {}
  PROVE  \E n \in S : \A m \in S : n <= m
  <1>1. PICK n \in S : \A m \in S : ~(<<m, n>> \in OpToRel(<, Nat))
    BY NatLessThanWellFounded, WFMin
  <1>2. \A m \in S : ~(m < n)
    BY <1>1 DEF OpToRel
  <1>3. n \in Nat /\ \A m \in S : m \in Nat
    BY <1>1
  <1>4. \A m \in S : n <= m
    BY <1>2, <1>3
  <1> QED BY <1>1, <1>4

\* RequeuePendingSnapshots queues a job for every pending asset.
LEMMA StartCares ==
  ASSUME TypeInv, DelaysOutlast, NEW s \in Server, Start(s, TRUE), NEW a \in Pending
  PROVE  Cared(a)'
  <1>1. FreeCopies(a) \in SUBSET Nat /\ FreeCopies(a) # {} /\ a \in Asset
    BY SnapshotAssumption DEF Start, FreeCopies, Pending
  <1>2. PICK n \in FreeCopies(a) : n = CHOOSE k \in FreeCopies(a) : \A m \in FreeCopies(a) : k <= m
    BY <1>1, LeastExists
  <1>3. <<a, n>> \in Job
    <2>1. n \in 1..Copies
      BY <1>2 DEF FreeCopies
    <2> QED BY <1>1, <2>1 DEF Job
  <1>4. <<a, n>> \in NewJobs(Pending) /\ <<a, n>>[1] = a
    BY <1>2 DEF NewJobs
  <1>5. job' = [j \in Job |-> IF j \in NewJobs(Pending) THEN Queued ELSE job[j]]
    BY DEF Start
  <1>6. job'[<<a, n>>] = Queued
    BY <1>3, <1>4, <1>5
  <1>7. job'[<<a, n>>].state = "pending" /\ job'[<<a, n>>].attempts = 0
    BY <1>6 DEF Queued
  <1>8. Waits(<<a, n>>)'
    BY <1>7, SnapshotAssumption DEF Waits, DelaysOutlast
  <1> QED BY <1>3, <1>4, <1>8 DEF Cared

\* A worker that claims a job will come to it with the lock free or in time.
LEMMA ClaimCares ==
  ASSUME TypeInv, OneServer, WorkerOK, NEW s \in Server, NEW i \in Job, Claim(s, i),
         NEW a \in Asset, Cared(a)
  PROVE  Cared(a)'
  <1>0. /\ run \in [Server -> Run] /\ job \in [Job -> JobRow] /\ MaxAttempts \in Nat
        /\ lock \in [holder : Server \cup {None}, ttl : 0..LockLease]
    BY Types, SnapshotAssumption
  <1>1. run' = [run EXCEPT ![s] = Claimed(i, job[i].attempts + 1)] /\ run[s].at = "idle" /\ UNCHANGED lock
    BY Zenon DEF Claim, Claimed
  <1>2. job[i].attempts \in Nat /\ job[i].attempts + 1 \in Nat
    BY <1>0 DEF JobRow
  <1>3. run'[s].at = "claimed" /\ run'[s].job = i /\ run'[s].attempts = job[i].attempts + 1
    BY <1>0, <1>1, <1>2, ClaimedRun
  <1>4. PICK j \in Job : j[1] = a /\ Waits(j)
    BY <1>1 DEF Cared, WorkedOn, OneServer
  <1>5. Orphan <=> Orphan'
    BY <1>1, <1>3, OrphanOne DEF LockStage
  <1>6. job' = [job EXCEPT ![i].state = "running", ![i].by = s, ![i].due = 0, ![i].attempts = @ + 1]
    BY DEF Claim
  <1>7. CASE j # i
    <2>1. job'[j] = job[j]
      BY <1>0, <1>6, <1>7
    <2> QED BY <1>1, <1>4, <1>5, <2>1, WaitsKept DEF Cared
  <1>8. CASE j = i
    <2>1. job'[i].state = "running"
      BY <1>0, <1>6 DEF JobRow
    <2>2. job[i].due = 0
      <3>1. job[i].state = "pending"
        BY <1>4, <1>8 DEF Waits
      <3> QED BY <3>1 DEF Claim
    <2>3. job[i].attempts + 1 <= MaxAttempts
      BY <1>0, <1>2, <1>4, <1>8 DEF Waits
    <2>4. job[i].attempts + 1 = MaxAttempts /\ Orphan => lock.ttl = 0
      BY <1>0, <1>2, <1>4, <1>8, <2>2, SnapshotAssumption DEF Waits
    <2>5. WorkedOn(s, i)'
      BY <1>1, <1>3, <1>5, <2>1, <2>3, <2>4 DEF WorkedOn
    <2> QED BY <1>4, <1>8, <2>5 DEF Cared
  <1> QED BY <1>7, <1>8

\* A failed attempt waits for longer than a lock left behind lasts.
LEMMA SettleCares ==
  ASSUME TypeInv, OneServer, DelaysOutlast, WorkerOK, Healthy, NEW s \in Server, Settle(s),
         NEW a \in Asset, Cared(a)
  PROVE  Cared(a)'
  <1>0. /\ run \in [Server -> Run] /\ job \in [Job -> JobRow] /\ MaxAttempts \in Nat
        /\ lock \in [holder : Server \cup {None}, ttl : 0..LockLease] /\ LockLease \in Nat
    BY Types, SnapshotAssumption
  <1>1. run[s].at = "returned" /\ run' = [run EXCEPT ![s] = NoRun] /\ UNCHANGED lock
    BY DEF Settle
  <1>2. /\ Holds(s) /\ ~run[s].cancelled /\ run[s].attempts \in Nat \ {0} /\ run[s].job \in Job
        /\ job[run[s].job].by = s /\ job[run[s].job].attempts = run[s].attempts
    BY <1>0, <1>1 DEF Holds, Healthy, WorkerOK, WorkerOf, TypeInv, LocalsOK, Run
  <1>3. run'[s].at = "idle"
    BY <1>0, <1>1, NoRunType
  <1>4. Orphan <=> Orphan'
    BY <1>1, <1>3, OrphanOne DEF LockStage
  <1>5. PICK j \in Job : j[1] = a /\ (Waits(j) \/ WorkedOn(s, j))
    BY DEF Cared, OneServer
  <1>6. CASE Waits(j)
    <2>1. j # run[s].job
      BY <1>2, <1>6, NoneApart DEF Waits, TypeInv, LocalsOK
    <2>2. job'[j] = job[j]
      BY <1>0, <1>2, <2>1 DEF Settle
    <2> QED BY <1>1, <1>4, <1>5, <1>6, <2>2, WaitsKept DEF Cared
  <1>7. CASE WorkedOn(s, j)
    <2>1. run[s].job = j /\ ~run[s].ok /\ run[s].attempts < MaxAttempts
      BY <1>1, <1>7 DEF WorkedOn
    <2>2. ~(run[s].ok \/ run[s].attempts >= MaxAttempts)
      BY <1>0, <1>2, <2>1
    <2>3. job' = [job EXCEPT ![j].state = "pending", ![j].by = None, ![j].due = RetryDelay[run[s].attempts]]
      BY <1>2, <2>1, <2>2, Zenon DEF Settle
    <2>4. job'[j].state = "pending"
      BY <1>0, <2>3 DEF JobRow
    <2>5. job'[j].attempts = run[s].attempts
      BY <1>0, <1>2, <2>1, <2>3 DEF JobRow
    <2>6. job'[j].due = RetryDelay[run[s].attempts]
      BY <1>0, <2>3 DEF JobRow
    <2>7. run[s].attempts + 1 = MaxAttempts => lock.ttl <= RetryDelay[run[s].attempts]
      <3> SUFFICES ASSUME run[s].attempts + 1 = MaxAttempts PROVE lock.ttl <= RetryDelay[run[s].attempts]
        OBVIOUS
      <3>1. run[s].attempts = MaxAttempts - 1 /\ RetryDelay[run[s].attempts] \in Nat
        BY <1>0, <1>2, SnapshotAssumption
      <3> QED BY <1>0, <3>1 DEF DelaysOutlast
    <2>8. Waits(j)'
      BY <1>0, <1>1, <1>2, <2>1, <2>4, <2>5, <2>6, <2>7 DEF Waits
    <2> QED BY <1>5, <2>8 DEF Cared
  <1> QED BY <1>5, <1>6, <1>7

\* The clock: the lease of the lock and the delays go down together.
LEMMA TickCares ==
  ASSUME TypeInv, Tick, NEW a \in Asset, Cared(a)
  PROVE  Cared(a)'
  <1>0. /\ run \in [Server -> Run] /\ job \in [Job -> JobRow]
        /\ lock \in [holder : Server \cup {None}, ttl : 0..LockLease] /\ LockLease \in Nat
    BY Types, SnapshotAssumption
  <1>1. \A s \in Server : /\ run'[s].at = run[s].at /\ run'[s].job = run[s].job
                          /\ run'[s].attempts = run[s].attempts /\ run'[s].ok = run[s].ok
    <2> DEFINE new(s) == IF run[s].at \in {"locked", "capturing"} /\ run[s].age < CaptureLimit
                         THEN [run[s] EXCEPT !.age = @ + 1] ELSE run[s]
    <2>1. run' = [s \in Server |-> new(s)]
      BY DEF Tick
    <2>2. \A s \in Server : /\ new(s).at = run[s].at /\ new(s).job = run[s].job
                            /\ new(s).attempts = run[s].attempts /\ new(s).ok = run[s].ok
      BY <1>0 DEF Run
    <2> HIDE DEF new
    <2> QED BY <2>1, <2>2
  <1>2. \A j \in Job : /\ job'[j].state = job[j].state /\ job'[j].attempts = job[j].attempts
                       /\ job'[j].due = Down(job[j].due) /\ job[j].due \in Nat
    <2> DEFINE new(j) == [job[j] EXCEPT !.due = Down(job[j].due)]
    <2>1. job' = [j \in Job |-> new(j)]
      BY DEF Tick
    <2>2. \A j \in Job : /\ new(j).state = job[j].state /\ new(j).attempts = job[j].attempts
                         /\ new(j).due = Down(job[j].due) /\ job[j].due \in Nat
      BY <1>0 DEF JobRow
    <2> HIDE DEF new
    <2> QED BY <2>1, <2>2
  <1>3. lock'.holder = lock.holder /\ lock'.ttl = Down(lock.ttl)
    BY <1>0 DEF Tick
  <1>4. Orphan <=> Orphan'
    BY <1>1, <1>3 DEF Orphan
  <1>5. \A j \in Job : Waits(j) => Waits(j)'
    BY <1>0, <1>2, <1>3, <1>4 DEF Waits, Down
  <1>6. \A s \in Server, j \in Job : WorkedOn(s, j) => WorkedOn(s, j)'
    BY <1>1, <1>2, <1>3, <1>4 DEF WorkedOn, Down
  <1> QED BY <1>5, <1>6 DEF Cared

\* Every step leaves each pending asset its job.
LEMMA PendingNext ==
  ASSUME RowsInv, OneServer, DelaysOutlast, WorkerOK, PendingOK, [Next]_vars
  PROVE  PendingOK'
  <1> SUFFICES ASSUME Healthy', NEW a \in Asset, asset'[a].status = "pending"
               PROVE  Cared(a)'
    BY DEF PendingOK, Pending
  <1>0. /\ TypeInv /\ BornFinite /\ happened.errors = 0
        /\ server \in [Server -> [mode : {"up", "stopping", "down"}, enabled : BOOLEAN]]
        /\ happened \in [crashes : Nat, stalls : Nat, errors : Nat]
    BY CountsOnlyGrow, Types DEF RowsInv, Healthy
  <1>1. UNCHANGED server => Healthy
    BY <1>0 DEF Healthy
  <1>2. Healthy /\ a \in Pending => Cared(a)
    BY DEF PendingOK
  <1>3. ASSUME Healthy, a \in Pending, UNCHANGED <<job, run, lock>> PROVE Cared(a)'
    BY <1>2, <1>3 DEF Cared, Waits, WorkedOn, Orphan
  <1>4. CASE UNCHANGED vars
    BY <1>1, <1>3, <1>4 DEF vars, Pending
  <1>5. CASE Tick
    <2>1. UNCHANGED <<server, asset>>
      BY <1>5 DEF Tick
    <2> QED BY <1>0, <1>1, <1>2, <1>5, <2>1, TickCares DEF Pending
  <1>6. ASSUME NEW c \in Asset, EnqueueSnapshot(c) PROVE Cared(a)'
    <2>1. /\ UNCHANGED <<lock, server, run>> /\ <<c, 1>> \in Job /\ job'[<<c, 1>>].state = "pending"
          /\ job'[<<c, 1>>].attempts = 0 /\ \A j \in Job \ {<<c, 1>>} : job'[j] = job[j]
          /\ \A b \in Asset \ {c} : asset'[b] = asset[b]
      BY <1>0, <1>6, EnqueueSteps
    <2>2. <<c, 1>>[1] = c
      OBVIOUS
    <2>3. CASE a = c
      <3>1. Waits(<<c, 1>>)'
        BY <2>1, SnapshotAssumption DEF Waits, DelaysOutlast
      <3> QED BY <2>1, <2>2, <2>3, <3>1 DEF Cared
    <2>4. CASE a # c
      <3>1. a \in Pending
        BY <2>1, <2>4 DEF Pending
      <3>2. PICK j \in Job : j[1] = a /\ (Waits(j) \/ \E s \in Server : WorkedOn(s, j))
        BY <1>1, <1>2, <2>1, <3>1 DEF Cared
      <3>3. job'[j] = job[j]
        BY <2>1, <2>2, <2>4, <3>2
      <3>4. (Orphan <=> Orphan') /\ UNCHANGED lock
        BY <2>1 DEF Orphan
      <3>5. \A s \in Server : WorkedOn(s, j) => WorkedOn(s, j)'
        BY <2>1, <3>3, <3>4 DEF WorkedOn
      <3> QED BY <3>2, <3>3, <3>4, <3>5, WaitsKept DEF Cared
    <2> QED BY <2>3, <2>4
  <1>7. ASSUME NEW r \in Request, RequestWrites(r) PROVE Cared(a)'
    <2>1. UNCHANGED <<job, run, lock, server>>
      BY <1>0, <1>7, ReadSteps, UploadSteps, DeleteBookmarkSteps, DropSteps, RemoveSteps,
         InsertSteps, FailSteps DEF RequestWrites
    <2>2. a \in Pending
      <3>1. ASSUME NEW b \in Bookmark, DeleteBookmark(r, b) PROVE asset'[a] = asset[a]
        BY <1>0, <3>1, DeleteBookmarkSteps
      <3>2. ASSUME NEW c \in Asset, Marked(c, "deleted") PROVE asset'[a] = asset[a]
        BY <3>2 DEF Marked
      <3>3. ASSUME NEW type \in {"snapshot", "upload"}, InsertUpload(r, type) PROVE asset'[a] = asset[a]
        BY <1>0, <3>3, InsertSteps
      <3>4. asset'[a] = asset[a]
        BY <1>0, <1>7, <3>1, <3>2, <3>3, ReadSteps, UploadSteps, DropSteps, RemoveSteps, FailSteps
           DEF RequestWrites
      <3> QED BY <3>4 DEF Pending
    <2> QED BY <1>1, <1>3, <2>1, <2>2
  <1>8. ASSUME NEW s \in Server, ProcessStep(s) PROVE Cared(a)'
    <2>1. UNCHANGED server
      BY <1>8 DEF ProcessStep, Load, AcquireLock, Reload, Capture, Rename, Commit, MarkFailure,
         ReleaseLock, Interrupt, Settle
    <2>2. a \in Pending
      <3>1. CASE WorkerWrites(s)
        BY <1>0, <3>1, WorkerWriteSteps DEF Pending, Marked
      <3>2. CASE ~WorkerWrites(s)
        <4>1. UNCHANGED asset
          BY <1>8, <3>2 DEF ProcessStep, WorkerWrites, Load, AcquireLock, Reload, Capture,
             ReleaseLock, Interrupt, Settle
        <4> QED BY <4>1 DEF Pending
      <3> QED BY <3>1, <3>2
    <2>3. CASE Settle(s)
      BY <1>0, <1>1, <1>2, <2>1, <2>2, <2>3, SettleCares
    <2>4. CASE ~Settle(s)
      <3>1. PICK j \in Job : j[1] = a /\ (Waits(j) \/ WorkedOn(s, j))
        BY <1>1, <1>2, <2>1, <2>2 DEF Cared, OneServer
      <3>2. Waits(j)' \/ WorkedOn(s, j)'
        BY <1>0, <1>1, <1>8, <2>1, <2>2, <2>4, <3>1, ProcessCares DEF Pending
      <3> QED BY <3>1, <3>2 DEF Cared
    <2> QED BY <2>3, <2>4
  <1>9. ASSUME NEW s \in Server,
               \/ \E j \in Job : Claim(s, j)
               \/ LoseLease(s) \/ DatabaseError(s) \/ Shutdown(s) \/ Exit(s) \/ Crash(s)
               \/ \E enabled \in BOOLEAN : Start(s, enabled)
        PROVE  Cared(a)'
    <2>1. a \in Pending
      BY <1>9 DEF Claim, LoseLease, DatabaseError, Shutdown, Exit, Crash, End, Start, Pending
    <2>2. ASSUME NEW j \in Job, Claim(s, j) PROVE Cared(a)'
      <3>1. UNCHANGED server
        BY <2>2 DEF Claim
      <3> QED BY <1>0, <1>1, <1>2, <2>1, <2>2, <3>1, ClaimCares DEF Pending
    <2>3. ~LoseLease(s)
      BY DEF LoseLease, Holds, WorkerOK, WorkerOf
    <2>4. ~DatabaseError(s)
      BY <1>0 DEF DatabaseError, Healthy
    <2>5. ~Shutdown(s) /\ ~Exit(s) /\ ~Crash(s)
      <3>1. server'[s].mode = "up"
        BY DEF Healthy
      <3> QED BY <1>0, <3>1 DEF Shutdown, Exit, Crash, End
    <2>6. ASSUME NEW enabled \in BOOLEAN, Start(s, enabled) PROVE Cared(a)'
      <3>1. server'[s].enabled
        BY DEF Healthy
      <3>2. server' = [server EXCEPT ![s] = [mode |-> "up", enabled |-> enabled]]
        BY <2>6 DEF Start
      <3>3. enabled = TRUE
        BY <1>0, <3>1, <3>2
      <3> QED BY <1>0, <2>1, <2>6, <3>3, StartCares
    <2> QED BY <1>9, <2>2, <2>3, <2>4, <2>5, <2>6
  <1>10. CASE Next
    BY <1>5, <1>6, <1>7, <1>8, <1>9, <1>10 DEF Next, RequestStep, RequestWrites
  <1> QED BY <1>4, <1>10

\* With one server, no database error and delays that outlast the lock, every
\* pending snapshot has a job while snapshots are enabled: neither a crash that
\* leaves the lock behind nor a busy lock on the last attempt forgets it.
THEOREM NoSnapshotForgotten ==
  ASSUME OneServer, DelaysOutlast
  PROVE  Spec => []PendingHasJob
  <1>1. Init => WorkerOK /\ PendingOK
    <2> SUFFICES ASSUME Init PROVE WorkerOK /\ PendingOK
      OBVIOUS
    <2>1. /\ \A s \in Server : run[s].at = "idle" /\ ~run[s].cancelled
          /\ \A j \in Job : job[j].by = None
          /\ Pending = {}
      BY DEF Init, NoRun, NoJob, Pending
    <2> QED BY <2>1, NoneApart DEF WorkerOK, WorkerOf, PendingOK, LockStage
  <1>2. RowsInv /\ WorkerOK /\ PendingOK /\ [Next]_vars => (WorkerOK /\ PendingOK)'
    BY WorkerNext, PendingNext DEF RowsInv
  <1>3. PendingOK => PendingHasJob
    <2> SUFFICES ASSUME PendingOK, Healthy, NEW a \in Pending
                 PROVE  \E j \in Job : j[1] = a /\ ~Free(j)
      BY DEF PendingHasJob, Healthy
    <2> QED BY DEF PendingOK, Cared, Waits, WorkedOn, Free
  <1> QED BY <1>1, <1>2, <1>3, RowsAlways, PTL DEF Spec
=============================================================================
