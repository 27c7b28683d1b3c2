-------------------------- MODULE JobQueue_proofs --------------------------
(***************************************************************************)
(* Proofs about JobQueue, for every set of jobs, kinds and workers, every   *)
(* lane assignment, lease, attempt limit and number of faults: its          *)
(* invariants and that it implements TaskLifecycle.                         *)
(***************************************************************************)
EXTENDS JobQueueRefines, TLAPS

\* The empty table and idle workers are well typed.
LEMMA TypeInit == Init => TypeOK
  BY QueueAssumption DEF Init, TypeOK, Row, Status, WorkerState, Idle, Phase, NoJob, NoToken

\* A claim keeps the types: the row gets a token and the full lease, the
\* worker copies of them.
LEMMA ClaimType ==
  ASSUME TypeOK, NEW w \in Worker, NEW j \in JobId, Claim(w, j)
  PROVE  TypeOK'
  <1>1. row[j] \in Row /\ row[j].attempts + 1 \in Nat /\ claims + 1 \in Nat
    BY DEF TypeOK, Row
  <1>2. row' \in [JobId -> Row]
    BY <1>1, QueueAssumption DEF Claim, TypeOK, Row, Status
  <1>3. worker' \in [Worker -> WorkerState]
    BY <1>1 DEF Claim, TypeOK, WorkerState, Phase
  <1> QED BY <1>1, <1>2, <1>3 DEF Claim, TypeOK

\* The worker's job is a row while it is busy; an idle worker owns nothing.
LEMMA OwnedJob ==
  ASSUME TypeOK, TokensDistinct, NEW w \in Worker, worker[w].phase # "idle"
  PROVE  worker[w].job \in JobId /\ row[worker[w].job] \in Row
  BY DEF TypeOK, TokensDistinct

\* Every delay Fail can set is a natural number.
LEMMA DelayNat ==
  ASSUME NEW n \in Nat, n >= 1 PROVE RetryDelay(n) \in Nat
  <1>1. CASE n < 5
    <2>1. n \in 1..4 BY <1>1
    <2>2. n = 1 \/ n = 2 \/ n = 3 \/ n = 4 BY <2>1
    <2> QED BY <1>1, <2>2 DEF RetryDelay, Backoff
  <1>2. CASE ~(n < 5)
    BY <1>2 DEF RetryDelay, Backoff
  <1> QED BY <1>1, <1>2

\* Every step keeps the types.  The tokens are needed because a busy worker
\* writes to the row of its job.
LEMMA TypeNext ==
  ASSUME TypeOK, TokensDistinct, CopiesAgree, [Next]_vars
  PROVE  TypeOK'
  <1> USE QueueAssumption DEF QueueAssumption
  <1>1. ASSUME NEW j \in JobId, NEW k \in Kind, Enqueue(j, k) PROVE TypeOK'
    BY <1>1 DEF Enqueue, TypeOK, Row, Status, NoToken
  <1>2. ASSUME NEW w \in Worker, NEW j \in JobId, Claim(w, j) PROVE TypeOK'
    BY <1>2, ClaimType
  <1>3. ASSUME NEW w \in Worker, Renew(w) PROVE TypeOK'
    BY <1>3, OwnedJob DEF Renew, Owns, TypeOK, Row
  <1>4. ASSUME NEW w \in Worker, RenewLost(w) PROVE TypeOK'
    BY <1>4 DEF RenewLost, TypeOK, WorkerState
  <1>5. ASSUME NEW w \in Worker, RenewError(w) PROVE TypeOK'
    <2>1. worker' \in [Worker -> WorkerState]
      BY <1>5 DEF RenewError, TypeOK, WorkerState
    <2>2. faults' \in 0..MaxFaults
      BY <1>5 DEF RenewError, TypeOK
    <2> QED BY <1>5, <2>1, <2>2 DEF RenewError, TypeOK
  <1>6. ASSUME NEW w \in Worker, NEW result \in BOOLEAN, HandlerReturns(w, result)
        PROVE TypeOK'
    <2>1. worker[w] \in WorkerState
      BY DEF TypeOK
    <2>2. [worker[w] EXCEPT !.phase = "returned", !.ok = result] \in WorkerState
      BY <2>1, Zenon DEF WorkerState, Phase
    <2>3. worker' = [worker EXCEPT ![w] = [worker[w] EXCEPT !.phase = "returned", !.ok = result]]
      BY <1>6 DEF HandlerReturns
    <2> QED BY <1>6, <2>2, <2>3 DEF HandlerReturns, TypeOK
  <1>7. ASSUME NEW w \in Worker, Leave(w) PROVE worker' \in [Worker -> WorkerState]
    BY <1>7 DEF Leave, TypeOK, WorkerState, Idle, Phase, NoJob, NoToken
  <1>8. ASSUME NEW w \in Worker, Abandon(w) PROVE TypeOK'
    BY <1>7, <1>8 DEF Abandon, TypeOK
  <1>9. ASSUME NEW w \in Worker, Complete(w) PROVE TypeOK'
    <2>1. row' \in [JobId -> Row]
      BY <1>9, OwnedJob DEF Complete, Owns, TypeOK, Row, Status, NoToken
    <2> QED BY <1>7, <1>9, <2>1 DEF Complete, TypeOK
  <1>10. ASSUME NEW w \in Worker, NEW n \in Nat, NEW d \in Nat, FailRow(w, n, d)
         PROVE  row' \in [JobId -> Row]
    <2>1. CASE Owns(w)
      <3>1. worker[w].job \in JobId /\ row[worker[w].job] \in Row
        BY <2>1, OwnedJob DEF Owns
      <3>2. PICK s \in {"failed", "pending"} :
              row' = [row EXCEPT ![worker[w].job].status = s,
                                 ![worker[w].job].token = NoToken,
                                 ![worker[w].job].lease = 0,
                                 ![worker[w].job].due = d]
        BY <1>10, <2>1 DEF FailRow, FailWrites
      <3> QED BY <3>1, <3>2 DEF TypeOK, Row, Status, NoToken
    <2>2. CASE ~Owns(w)
      BY <1>10, <2>2 DEF FailRow, FailWrites, TypeOK
    <2> QED BY <2>1, <2>2
  <1>11. ASSUME NEW w \in Worker, Fail(w) PROVE TypeOK'
    <2>1. CASE Owns(w)
      <3>1. worker[w].attempts \in Nat /\ worker[w].attempts >= 1
        BY <1>11, <2>1 DEF Owns, CopiesAgree, TypeOK, WorkerState
      <3> QED BY <1>7, <1>10, <1>11, <3>1, DelayNat DEF Fail, TypeOK
    <2>2. CASE ~Owns(w)
      BY <1>7, <1>11, <2>2 DEF Fail, FailRow, FailWrites, TypeOK
    <2> QED BY <2>1, <2>2
  <1>12. ASSUME NEW w \in Worker, FailUnhandled(w) PROVE TypeOK'
    <2>1. worker[w].attempts \in Nat BY DEF TypeOK, WorkerState
    <2> QED BY <1>7, <1>10, <1>12, <2>1 DEF FailUnhandled, TypeOK
  <1>13. ASSUME NEW w \in Worker, FinalizeError(w) PROVE TypeOK'
    BY <1>7, <1>13 DEF FinalizeError, TypeOK
  <1>14. ASSUME NEW w \in Worker, Stop(w) PROVE TypeOK'
    BY <1>7, <1>14 DEF Stop, TypeOK
  <1>15. ASSUME Tick PROVE TypeOK'
    <2>1. ASSUME NEW j \in JobId PROVE row'[j] \in Row
      <3>1. row[j] \in Row /\ row[j].due \in Int /\ row[j].lease \in 0..Lease
        BY DEF TypeOK, Row
      <3>2. CASE row[j].status \in Live
        <4>1. PICK d \in Int, l \in 0..Lease :
                row'[j] = [row[j] EXCEPT !.due = d, !.lease = l]
          <5> DEFINE d == IF row[j].due > -Window THEN row[j].due - 1 ELSE row[j].due
                     l == IF row[j].lease > 0 THEN row[j].lease - 1 ELSE 0
          <5>1. d \in Int /\ l \in 0..Lease
            BY <3>1
          <5>2. row'[j] = [row[j] EXCEPT !.due = d, !.lease = l]
            BY <1>15, <3>2, Zenon DEF Tick
          <5> QED BY <5>1, <5>2
        <4> QED BY <3>1, <4>1 DEF Row
      <3>3. CASE row[j].status \notin Live
        BY <1>15, <3>1, <3>3, Zenon DEF Tick
      <3> QED BY <3>2, <3>3
    <2>2. row' \in [JobId -> Row]
      BY <1>15, <2>1 DEF Tick
    <2>3. faults' \in 0..MaxFaults
      <3>1. faults' = faults \/ (faults < MaxFaults /\ faults' = faults + 1)
        BY <1>15, Zenon DEF Tick
      <3> QED BY <3>1 DEF TypeOK
    <2> QED BY <1>15, <2>2, <2>3 DEF Tick, TypeOK
  <1>16. ASSUME UNCHANGED vars PROVE TypeOK'
    BY <1>16 DEF vars, TypeOK
  <1> QED BY <1>1, <1>2, <1>3, <1>4, <1>5, <1>6, <1>8, <1>9, <1>11, <1>12,
             <1>13, <1>14, <1>15, <1>16 DEF Next

\* What a step of the clock does to one row: only its deadlines move, and a
\* lease that runs out in this step had one unit left.
LEMMA TickRow ==
  ASSUME TypeOK, Tick, NEW j \in JobId
  PROVE  /\ row'[j].status = row[j].status /\ row'[j].kind = row[j].kind
         /\ row'[j].attempts = row[j].attempts /\ row'[j].token = row[j].token
         /\ row'[j].lease = 0 => row[j].lease = 0 \/ row[j].lease = 1
  <1>1. row[j] \in Row /\ row[j].lease \in Nat
    BY QueueAssumption DEF TypeOK, Row
  <1>2. CASE row[j].status \in Live
    <2> DEFINE d == IF row[j].due > -Window THEN row[j].due - 1 ELSE row[j].due
               l == IF row[j].lease > 0 THEN row[j].lease - 1 ELSE 0
    <2>1. row'[j] = [row[j] EXCEPT !.due = d, !.lease = l]
      BY <1>2, Zenon DEF Tick
    <2>2. l = 0 => row[j].lease = 0 \/ row[j].lease = 1
      BY <1>1
    <2> HIDE DEF d, l
    <2> QED BY <1>1, <2>1, <2>2 DEF Row
  <1>3. CASE row[j].status \notin Live
    <2>1. row'[j] = row[j]
      BY <1>3, Zenon DEF Tick
    <2> QED BY <2>1
  <1> QED BY <1>2, <1>3

\* A worker that leaves its job becomes idle and nobody else is touched.
LEMMA LeaveEffect ==
  ASSUME TypeOK, NEW w \in Worker, Leave(w)
  PROVE  /\ worker'[w].phase = "idle"
         /\ \A v \in Worker \ {w} : worker'[v] = worker[v]
  BY DEF Leave, Idle, TypeOK

\* Complete and FailRow write to the row of a job the worker owns, or to none.
LEMMA CompleteEffect ==
  ASSUME TypeOK, TokensDistinct, NEW w \in Worker, Complete(w)
  PROVE  /\ ~Owns(w) => row' = row
         /\ Owns(w) =>
              /\ row'[worker[w].job].status = "complete"
              /\ \A i \in JobId \ {worker[w].job} : row'[i] = row[i]
         /\ \A i \in JobId : row'[i].token \in {row[i].token, 0}
                            /\ row'[i].kind = row[i].kind
                            /\ row'[i].attempts = row[i].attempts
  BY OwnedJob DEF Complete, TypeOK, Row, NoToken, Owns

\* Fail changes a row only for its owner, and gives it up at the limit.
LEMMA FailRowEffect ==
  ASSUME TypeOK, TokensDistinct, NEW w \in Worker, NEW n, NEW d, FailRow(w, n, d)
  PROVE  /\ ~Owns(w) => row' = row
         /\ Owns(w) =>
              /\ row'[worker[w].job].status =
                   IF worker[w].attempts >= n THEN "failed" ELSE "pending"
              /\ \A i \in JobId \ {worker[w].job} : row'[i] = row[i]
         /\ \A i \in JobId : row'[i].token \in {row[i].token, 0}
                            /\ row'[i].kind = row[i].kind
                            /\ row'[i].attempts = row[i].attempts
  <1>1. CASE Owns(w)
    <2>1. worker[w].job \in JobId /\ row[worker[w].job] \in Row
      BY <1>1, OwnedJob DEF Owns
    <2> DEFINE s == IF worker[w].attempts >= n THEN "failed" ELSE "pending"
    <2>2. row' = [row EXCEPT ![worker[w].job].status = s,
                             ![worker[w].job].token = NoToken,
                             ![worker[w].job].lease = 0,
                             ![worker[w].job].due = d]
      BY <1>1 DEF FailRow, FailWrites
    <2> HIDE DEF s
    <2>3. row'[worker[w].job].status = s
      BY <2>1, <2>2 DEF TypeOK, Row
    <2>4. \A i \in JobId \ {worker[w].job} : row'[i] = row[i]
      BY <2>1, <2>2 DEF TypeOK
    <2>5. /\ row'[worker[w].job].token = 0
          /\ row'[worker[w].job].kind = row[worker[w].job].kind
          /\ row'[worker[w].job].attempts = row[worker[w].job].attempts
      BY <2>1, <2>2 DEF TypeOK, Row, NoToken
    <2> QED BY <1>1, <2>1, <2>3, <2>4, <2>5 DEF s
  <1>2. CASE ~Owns(w)
    BY <1>2 DEF FailRow, FailWrites
  <1> QED BY <1>1, <1>2

\* Lease tokens stay distinct: each claim takes one nobody has seen, and no
\* other step hands one out.
LEMMA TokensNext ==
  ASSUME TypeOK, TokensDistinct, [Next]_vars
  PROVE  TokensDistinct'
  <1>1. ASSUME NEW j \in JobId, NEW k \in Kind, Enqueue(j, k) PROVE TokensDistinct'
    BY <1>1 DEF Enqueue, TypeOK, TokensDistinct, NoToken
  <1>2. ASSUME NEW w \in Worker, NEW j \in JobId, Claim(w, j) PROVE TokensDistinct'
    <2>1. /\ worker'[w].job = j /\ worker'[w].token = claims + 1
          /\ \A v \in Worker \ {w} : worker'[v] = worker[v]
      BY <1>2 DEF Claim, TypeOK
    <2>2. claims \in Nat /\ claims' = claims + 1
      BY <1>2 DEF Claim, TypeOK
    <2>3. \A i \in JobId : row'[i].token <= claims'
      <3>1. \A i \in JobId : row[i].token \in Nat /\ row[i].token <= claims
        BY DEF TypeOK, Row, TokensDistinct
      <3>2. row'[j].token = claims + 1 /\ \A i \in JobId \ {j} : row'[i] = row[i]
        BY <1>2 DEF Claim, TypeOK, Row
      <3> QED BY <2>2, <3>1, <3>2
    <2> QED BY <2>1, <2>2, <2>3 DEF TokensDistinct
  <1>3. ASSUME NEW w \in Worker, Renew(w) PROVE TokensDistinct'
    BY <1>3 DEF Renew, TypeOK, TokensDistinct
  <1>4. ASSUME NEW w \in Worker, RenewLost(w) \/ RenewError(w) PROVE TokensDistinct'
    BY <1>4 DEF RenewLost, RenewError, TypeOK, TokensDistinct, WorkerState
  <1>5. ASSUME NEW w \in Worker, NEW result \in BOOLEAN, HandlerReturns(w, result)
        PROVE TokensDistinct'
    BY <1>5 DEF HandlerReturns, TypeOK, TokensDistinct, WorkerState
  <1>6. ASSUME NEW w \in Worker, Leave(w), claims' = claims,
               \A j \in JobId : row'[j].token <= claims
        PROVE  TokensDistinct'
    BY <1>6, LeaveEffect DEF TokensDistinct
  <1>7. ASSUME NEW w \in Worker, Abandon(w) \/ FinalizeError(w) \/ Stop(w)
        PROVE TokensDistinct'
    BY <1>6, <1>7 DEF Abandon, FinalizeError, Stop, TokensDistinct
  <1>8. ASSUME NEW w \in Worker, Complete(w) PROVE TokensDistinct'
    BY <1>6, <1>8 DEF Complete, TypeOK, TokensDistinct, NoToken
  <1>9. ASSUME NEW w \in Worker, Fail(w) \/ FailUnhandled(w) PROVE TokensDistinct'
    <2>1. PICK n, d : FailRow(w, n, d)
      BY <1>9 DEF Fail, FailUnhandled
    <2>2. \A j \in JobId : row'[j].token \in {row[j].token, 0}
      BY <2>1, FailRowEffect
    <2> QED BY <1>6, <1>9, <2>2 DEF Fail, FailUnhandled, TypeOK, TokensDistinct
  <1>10. ASSUME Tick PROVE TokensDistinct'
    BY <1>10, TickRow DEF Tick, TokensDistinct
  <1>11. ASSUME UNCHANGED vars PROVE TokensDistinct'
    BY <1>11 DEF vars, TokensDistinct
  <1> QED BY <1>1, <1>2, <1>3, <1>4, <1>5, <1>7, <1>8, <1>9, <1>10, <1>11 DEF Next

\* A claim stamps the row it takes and no other.
LEMMA ClaimRow ==
  ASSUME TypeOK, NEW w \in Worker, NEW j \in JobId, Claim(w, j)
  PROVE  /\ row[j].status \in Live /\ row'[j].status = "running"
         /\ row'[j].kind = row[j].kind /\ row'[j].lease = Lease
         /\ row'[j].attempts = row[j].attempts + 1 /\ row'[j].token = claims + 1
         /\ \A i \in JobId \ {j} : row'[i] = row[i]
  <1>1. row[j].status \in Live
    BY DEF Claim, Ready, Live
  <1> QED BY <1>1 DEF Claim, TypeOK, Row

\* The claimant gets its copies; everyone else busy with the job falls behind
\* because the new token is not theirs.
LEMMA ClaimWorker ==
  ASSUME TypeOK, TokensDistinct, NEW w \in Worker, NEW j \in JobId, Claim(w, j)
  PROVE  /\ worker[w].phase = "idle"
         /\ worker'[w].job = j /\ worker'[w].token = claims + 1
         /\ worker'[w].attempts = row[j].attempts + 1
         /\ worker'[w].phase \in {"handling", "unhandled"}
         /\ worker'[w].phase = "unhandled" => row[j].kind \notin Handled
         /\ ~worker'[w].ok /\ ~worker'[w].cancelled
         /\ \A v \in Worker \ {w} :
              /\ worker'[v] = worker[v]
              /\ worker[v].phase # "idle" => worker[v].token # claims + 1
  <1>1. /\ worker[w].phase = "idle"
        /\ worker'[w].job = j /\ worker'[w].token = claims + 1
        /\ worker'[w].attempts = row[j].attempts + 1
        /\ worker'[w].phase = IF row[j].kind \in Handled THEN "handling" ELSE "unhandled"
        /\ worker'[w].ok = FALSE /\ worker'[w].cancelled = FALSE
    BY DEF Claim, TypeOK
  <1>2. \A v \in Worker \ {w} :
          /\ worker'[v] = worker[v]
          /\ worker[v].phase # "idle" => worker[v].token # claims + 1
    BY DEF Claim, TypeOK, TokensDistinct
  <1> QED BY <1>1, <1>2

\* Who owns a row after a claim of j owned it before, or is the claimant.
LEMMA ClaimOwners ==
  ASSUME TypeOK, TokensDistinct, NEW w \in Worker, NEW j \in JobId, Claim(w, j),
         NEW v \in Worker, v # w
  PROVE  Owns(v)' <=> Owns(v) /\ worker[v].job # j
  <1>1. worker'[v] = worker[v] /\ (worker[v].phase # "idle" => worker[v].token # claims + 1)
    BY ClaimWorker
  <1>2. CASE worker[v].phase = "idle"
    BY <1>1, <1>2 DEF Owns
  <1>3. CASE worker[v].phase # "idle"
    <2>1. worker[v].job \in JobId
      BY <1>3, OwnedJob
    <2>2. CASE worker[v].job = j
      BY <1>1, <1>3, <2>2, ClaimRow DEF Owns
    <2>3. CASE worker[v].job # j
      <3>1. row'[worker[v].job] = row[worker[v].job]
        BY <2>1, <2>3, ClaimRow
      <3> QED BY <1>1, <2>3, <3>1 DEF Owns
    <2> QED BY <2>2, <2>3
  <1> QED BY <1>2, <1>3

\* The renewal goroutine and the handler's return touch no more than the
\* phase, the verdict and the cancellation flag of their worker.
LEMMA QuietEffect ==
  ASSUME TypeOK, NEW w \in Worker,
         RenewLost(w) \/ RenewError(w) \/ \E r \in BOOLEAN : HandlerReturns(w, r)
  PROVE  /\ row' = row /\ claims' = claims
         /\ worker[w].phase \in {"handling", "returned"}
         /\ worker'[w].phase \in {"handling", "returned"}
         /\ worker'[w].job = worker[w].job /\ worker'[w].token = worker[w].token
         /\ worker'[w].attempts = worker[w].attempts
         /\ \A v \in Worker \ {w} : worker'[v] = worker[v]
  <1>1. CASE RenewLost(w) \/ RenewError(w)
    BY <1>1 DEF RenewLost, RenewError, Renews, TypeOK, WorkerState
  <1>2. ASSUME NEW r \in BOOLEAN, HandlerReturns(w, r)
        PROVE  /\ row' = row /\ claims' = claims
               /\ worker[w].phase = "handling" /\ worker'[w].phase = "returned"
               /\ worker'[w].job = worker[w].job /\ worker'[w].token = worker[w].token
               /\ worker'[w].attempts = worker[w].attempts
               /\ \A v \in Worker \ {w} : worker'[v] = worker[v]
    <2>1. worker'[w] = [worker[w] EXCEPT !.phase = "returned", !.ok = r]
      BY <1>2, Zenon DEF HandlerReturns, TypeOK
    <2>2. worker[w] \in WorkerState /\ worker[w].phase = "handling"
      BY <1>2 DEF HandlerReturns, TypeOK
    <2>3. /\ worker'[w].phase = "returned" /\ worker'[w].job = worker[w].job
          /\ worker'[w].token = worker[w].token
          /\ worker'[w].attempts = worker[w].attempts
      BY <2>1, <2>2, Zenon DEF WorkerState
    <2> QED BY <1>2, <2>2, <2>3 DEF HandlerReturns, TypeOK
  <1> QED BY <1>1, <1>2

\* Owners' copies agree with their rows after every step.
LEMMA CopiesNext ==
  ASSUME TypeOK, TokensDistinct, CopiesAgree, [Next]_vars
  PROVE  CopiesAgree'
  <1>1. ASSUME NEW j \in JobId, NEW k \in Kind, Enqueue(j, k) PROVE CopiesAgree'
    BY <1>1 DEF Enqueue, TypeOK, TokensDistinct, CopiesAgree, Owns
  <1>2. ASSUME NEW w \in Worker, NEW j \in JobId, Claim(w, j) PROVE CopiesAgree'
    <2>1. row[j].attempts \in Nat
      BY DEF TypeOK, Row
    <2>2. \A i \in JobId : /\ row'[i].status # "absent" \/ row[i].status = "absent"
                           /\ row'[i].kind = row[i].kind
      BY <1>2, ClaimRow DEF Live
    <2> SUFFICES ASSUME NEW v \in Worker, worker'[v].phase # "idle"
                 PROVE  /\ worker'[v].attempts > 0 /\ row'[worker'[v].job].status # "absent"
                        /\ Owns(v)' => worker'[v].attempts = row'[worker'[v].job].attempts
                        /\ worker'[v].phase = "unhandled" =>
                             row'[worker'[v].job].kind \notin Handled /\ ~worker'[v].ok
      BY DEF CopiesAgree
    <2>3. CASE v = w
      <3>1. /\ row'[j].status = "running" /\ row'[j].kind = row[j].kind
            /\ row'[j].attempts = row[j].attempts + 1
        BY <1>2, ClaimRow
      <3>2. /\ worker'[v].job = j /\ worker'[v].attempts = row[j].attempts + 1
            /\ worker'[v].phase = "unhandled" => row[j].kind \notin Handled
            /\ ~worker'[v].ok
        BY <1>2, <2>3, ClaimWorker
      <3> QED BY <2>1, <3>1, <3>2
    <2>4. CASE v # w
      <3>1. worker'[v] = worker[v]
        BY <1>2, <2>4, ClaimWorker
      <3>2. worker[v].job \in JobId
        BY <3>1, OwnedJob
      <3>3. Owns(v)' => row'[worker[v].job] = row[worker[v].job] /\ Owns(v)
        BY <1>2, <2>4, <3>2, ClaimOwners, ClaimRow
      <3> QED BY <2>2, <3>1, <3>2, <3>3 DEF CopiesAgree
    <2> QED BY <2>3, <2>4
  <1>3. ASSUME NEW w \in Worker, Renew(w) PROVE CopiesAgree'
    BY <1>3, OwnedJob DEF Renew, TypeOK, Row, TokensDistinct, CopiesAgree, Owns
  <1>4. ASSUME NEW w \in Worker,
               RenewLost(w) \/ RenewError(w) \/ \E r \in BOOLEAN : HandlerReturns(w, r)
        PROVE CopiesAgree'
    BY <1>4, QuietEffect DEF TokensDistinct, CopiesAgree, Owns
  <1>5. ASSUME NEW w \in Worker, Leave(w),
               \A i \in JobId : /\ row'[i].attempts = row[i].attempts
                                /\ row'[i].kind = row[i].kind
                                /\ row'[i].token \in {row[i].token, 0}
                                /\ row'[i] # row[i] =>
                                     row'[i].status \in {"complete", "failed", "pending"}
        PROVE  CopiesAgree'
    <2> SUFFICES ASSUME NEW v \in Worker, worker'[v].phase # "idle"
                 PROVE  /\ worker'[v].attempts > 0 /\ row'[worker'[v].job].status # "absent"
                        /\ Owns(v)' => worker'[v].attempts = row'[worker'[v].job].attempts
                        /\ worker'[v].phase = "unhandled" =>
                             row'[worker'[v].job].kind \notin Handled /\ ~worker'[v].ok
      BY DEF CopiesAgree
    <2>1. v # w /\ worker'[v] = worker[v] /\ worker[v].job \in JobId
      BY <1>5, LeaveEffect DEF TokensDistinct
    <2>2. row'[worker[v].job].status # "absent"
      BY <1>5, <2>1 DEF CopiesAgree
    <2>3. Owns(v)' => Owns(v)
      BY <1>5, <2>1 DEF Owns, TokensDistinct
    <2> QED BY <1>5, <2>1, <2>2, <2>3 DEF CopiesAgree
  <1>6. ASSUME NEW w \in Worker, Abandon(w) \/ FinalizeError(w) \/ Stop(w)
        PROVE CopiesAgree'
    BY <1>5, <1>6 DEF Abandon, FinalizeError, Stop
  <1>7. ASSUME NEW w \in Worker, Complete(w) PROVE CopiesAgree'
    <2>1. \A i \in JobId : row'[i] # row[i] => row'[i].status = "complete"
      BY <1>7, CompleteEffect
    <2> QED BY <1>5, <1>7, <2>1, CompleteEffect DEF Complete
  <1>8. ASSUME NEW w \in Worker, Fail(w) \/ FailUnhandled(w) PROVE CopiesAgree'
    <2>1. PICK n, d : FailRow(w, n, d)
      BY <1>8 DEF Fail, FailUnhandled
    <2>2. \A i \in JobId : row'[i] # row[i] => row'[i].status \in {"failed", "pending"}
      BY <2>1, FailRowEffect
    <2>3. \A i \in JobId : /\ row'[i].attempts = row[i].attempts
                           /\ row'[i].kind = row[i].kind
                           /\ row'[i].token \in {row[i].token, 0}
      BY <2>1, FailRowEffect
    <2>4. Leave(w)
      BY <1>8 DEF Fail, FailUnhandled
    <2> QED BY <1>5, <2>2, <2>3, <2>4
  <1>9. ASSUME Tick PROVE CopiesAgree'
    <2>1. worker' = worker BY <1>9 DEF Tick
    <2> QED BY <1>9, <2>1, TickRow DEF TokensDistinct, CopiesAgree, Owns
  <1>10. ASSUME UNCHANGED vars PROVE CopiesAgree'
    BY <1>10 DEF vars, CopiesAgree, Owns
  <1> QED BY <1>1, <1>2, <1>3, <1>4, <1>6, <1>7, <1>8, <1>9, <1>10 DEF Next

\* Settling its own row costs a leaving worker no other row's ownership: no
\* second worker passes the token check of that row.
LEMMA LeaveOwners ==
  ASSUME TypeOK, TokensDistinct, NEW w \in Worker, Leave(w),
         \/ row' = row
         \/ /\ Owns(w)
            /\ row'[worker[w].job].token = 0
            /\ \A i \in JobId \ {worker[w].job} : row'[i] = row[i],
         NEW v \in Worker, v # w
  PROVE  worker'[v] = worker[v] /\ (Owns(v)' <=> Owns(v))
  <1>1. worker'[v] = worker[v]
    BY LeaveEffect
  <1>2. CASE row' = row
    BY <1>1, <1>2 DEF Owns
  <1>3. CASE Owns(w) /\ worker[v].phase # "idle" /\ row' # row
    <2>1. worker[v].job \in JobId /\ worker[v].token \in Nat \ {0}
      BY <1>3 DEF TokensDistinct, TypeOK
    <2>2. CASE worker[v].job = worker[w].job
      <3>1. ~Owns(v)
        BY <1>3, <2>2 DEF Owns, TokensDistinct
      <3>2. row'[worker[v].job].token = 0
        BY <1>3, <2>2
      <3> QED BY <1>1, <2>1, <3>1, <3>2 DEF Owns
    <2>3. CASE worker[v].job # worker[w].job
      <3>1. row'[worker[v].job] = row[worker[v].job]
        BY <1>3, <2>1, <2>3
      <3> QED BY <1>1, <3>1 DEF Owns
    <2> QED BY <2>2, <2>3
  <1>4. CASE worker[v].phase = "idle"
    BY <1>1, <1>4 DEF Owns
  <1> QED BY <1>2, <1>3, <1>4

\* The three ways a worker ends a job, seen from the table: the row is left
\* alone, or the owner settles it.
LEMMA FinalizeRow ==
  ASSUME TypeOK, TokensDistinct, CopiesAgree, NEW w \in Worker,
         Complete(w) \/ Fail(w) \/ FailUnhandled(w)
  PROVE  /\ Leave(w) /\ faults' = faults /\ claims' = claims
         /\ \A i \in JobId : /\ row'[i].kind = row[i].kind
                             /\ row'[i].attempts = row[i].attempts
         /\ \/ row' = row /\ ~Owns(w)
            \/ /\ Owns(w) /\ worker[w].job \in JobId
               /\ row'[worker[w].job].token = 0
               /\ \A i \in JobId \ {worker[w].job} : row'[i] = row[i]
               /\ \/ row'[worker[w].job].status = "complete"
                  \/ /\ row'[worker[w].job].status = "failed"
                     /\ \/ row[worker[w].job].attempts >= MaxAttempts
                        \/ row[worker[w].job].kind \notin Handled
                  \/ /\ row'[worker[w].job].status = "pending"
                     /\ row[worker[w].job].attempts < MaxAttempts
  <1> USE QueueAssumption DEF QueueAssumption
  <1>1. Leave(w) /\ faults' = faults /\ claims' = claims
    BY DEF Complete, Fail, FailUnhandled
  <1>2. CASE Complete(w) /\ ~Owns(w)
    BY <1>1, <1>2, CompleteEffect
  <1>3. CASE Complete(w) /\ Owns(w)
    <2>1. worker[w].job \in JobId /\ row[worker[w].job] \in Row
      BY <1>3, OwnedJob DEF Owns
    <2>2. row'[worker[w].job].token = 0
      BY <1>3, <2>1 DEF Complete, TypeOK, Row, NoToken
    <2> QED BY <1>1, <1>3, <2>1, <2>2, CompleteEffect
  <1>4. ASSUME NEW n, NEW d, FailRow(w, n, d), ~Owns(w)
        PROVE  /\ row' = row
               /\ \A i \in JobId : /\ row'[i].kind = row[i].kind
                                   /\ row'[i].attempts = row[i].attempts
    BY <1>4 DEF FailRow, FailWrites
  <1>5. ASSUME NEW n \in Nat, NEW d, FailRow(w, n, d), Owns(w)
        PROVE  /\ worker[w].job \in JobId
               /\ row'[worker[w].job].token = 0
               /\ \A i \in JobId \ {worker[w].job} : row'[i] = row[i]
               /\ \A i \in JobId : /\ row'[i].kind = row[i].kind
                                   /\ row'[i].attempts = row[i].attempts
               /\ \/ /\ row'[worker[w].job].status = "failed"
                     /\ row[worker[w].job].attempts >= n
                  \/ /\ row'[worker[w].job].status = "pending"
                     /\ row[worker[w].job].attempts < n
    <2>1. worker[w].job \in JobId /\ row[worker[w].job] \in Row
      BY <1>5, OwnedJob DEF Owns
    <2>2. row'[worker[w].job].token = 0
      <3> DEFINE s == IF worker[w].attempts >= n THEN "failed" ELSE "pending"
      <3>1. row' = [row EXCEPT ![worker[w].job].status = s,
                               ![worker[w].job].token = NoToken,
                               ![worker[w].job].lease = 0,
                               ![worker[w].job].due = d]
        BY <1>5 DEF FailRow, FailWrites
      <3> HIDE DEF s
      <3> QED BY <2>1, <3>1 DEF TypeOK, Row, NoToken
    <2>3. worker[w].attempts = row[worker[w].job].attempts
      BY <1>5 DEF CopiesAgree, Owns
    <2>4. row[worker[w].job].attempts \in Nat
      BY <2>1 DEF Row
    <2>5. /\ row'[worker[w].job].status =
               IF worker[w].attempts >= n THEN "failed" ELSE "pending"
          /\ \A i \in JobId \ {worker[w].job} : row'[i] = row[i]
          /\ \A i \in JobId : row'[i].kind = row[i].kind
                             /\ row'[i].attempts = row[i].attempts
      BY <1>5, FailRowEffect
    <2> QED BY <2>1, <2>2, <2>3, <2>4, <2>5
  <1>6. CASE Fail(w)
    <2>1. FailRow(w, MaxAttempts, RetryDelay(worker[w].attempts))
      BY <1>6 DEF Fail
    <2> QED BY <1>1, <1>4, <1>5, <2>1
  <1>7. CASE FailUnhandled(w)
    <2>1. FailRow(w, worker[w].attempts, 0) /\ worker[w].attempts \in Nat
      BY <1>7 DEF FailUnhandled, TypeOK, WorkerState
    <2>2. Owns(w) => /\ worker[w].attempts = row[worker[w].job].attempts
                     /\ row[worker[w].job].kind \notin Handled
      BY <1>7 DEF FailUnhandled, CopiesAgree
    <2>3. CASE Owns(w)
      <3>1. row[worker[w].job].attempts \in Nat
        BY <2>1, <2>2, <2>3
      <3> QED BY <1>1, <1>5, <2>1, <2>2, <2>3, <3>1
    <2>4. CASE ~Owns(w)
      BY <1>1, <1>4, <2>1, <2>4
    <2> QED BY <2>3, <2>4
  <1> QED BY <1>2, <1>3, <1>6, <1>7

\* The attempts part of the invariant, to be shown job by job.
Attempts == AttemptsLeft /\ AttemptsPaidFor /\ FailedOnlyWhenExhausted

\* A step that leaves a job's row alone keeps its attempts accounted for, if
\* it keeps the row's keeper or is charged as a fault.
LEMMA SameRow ==
  ASSUME TypeOK, Attempts, NEW j \in JobId, row'[j] = row[j],
         \/ faults' = faults /\ (Kept(j) => Kept(j)')
         \/ faults' = faults + 1
  PROVE  /\ row'[j].status = "pending" => row'[j].attempts < MaxAttempts
         /\ row'[j].status = "running" /\ (row'[j].lease = 0 \/ ~Kept(j)') =>
              row'[j].attempts < MaxAttempts + faults'
         /\ row'[j].attempts <= MaxAttempts + faults'
         /\ row'[j].status = "failed" =>
              row'[j].attempts >= MaxAttempts \/ row'[j].kind \notin Handled
  <1>1. row[j].attempts \in Nat /\ faults \in Nat /\ MaxAttempts \in Nat
    BY QueueAssumption DEF QueueAssumption, TypeOK, Row
  <1>2. /\ row[j].status = "pending" => row[j].attempts < MaxAttempts
        /\ row[j].status = "running" /\ (row[j].lease = 0 \/ ~Kept(j)) =>
             row[j].attempts < MaxAttempts + faults
        /\ row[j].attempts <= MaxAttempts + faults
        /\ row[j].status = "failed" =>
             row[j].attempts >= MaxAttempts \/ row[j].kind \notin Handled
    BY DEF Attempts, AttemptsLeft, AttemptsPaidFor, FailedOnlyWhenExhausted
  <1> QED BY <1>1, <1>2

\* Every step keeps the attempts accounted for.
LEMMA AttemptsNext ==
  ASSUME TypeOK, TokensDistinct, CopiesAgree, Attempts, [Next]_vars
  PROVE  Attempts'
  <1> SUFFICES ASSUME NEW j \in JobId
        PROVE  /\ row'[j].status = "pending" => row'[j].attempts < MaxAttempts
               /\ row'[j].status = "running" /\ (row'[j].lease = 0 \/ ~Kept(j)') =>
                    row'[j].attempts < MaxAttempts + faults'
               /\ row'[j].attempts <= MaxAttempts + faults'
               /\ row'[j].status = "failed" =>
                    row'[j].attempts >= MaxAttempts \/ row'[j].kind \notin Handled
    BY DEF Attempts, AttemptsLeft, AttemptsPaidFor, FailedOnlyWhenExhausted
  <1> DEFINE Goal == /\ row'[j].status = "pending" => row'[j].attempts < MaxAttempts
                     /\ row'[j].status = "running" /\ (row'[j].lease = 0 \/ ~Kept(j)') =>
                          row'[j].attempts < MaxAttempts + faults'
                     /\ row'[j].attempts <= MaxAttempts + faults'
                     /\ row'[j].status = "failed" =>
                          row'[j].attempts >= MaxAttempts \/ row'[j].kind \notin Handled
  <1>a. row[j].attempts \in Nat /\ faults \in Nat
    BY DEF TypeOK, Row
  <1>b. MaxAttempts \in Nat \ {0} /\ Lease \in Nat \ {0}
    BY QueueAssumption DEF QueueAssumption
  <1>1. ASSUME NEW i \in JobId, NEW k \in Kind, Enqueue(i, k) PROVE Goal
    <2>1. CASE i = j
      BY <1>1, <1>a, <1>b, <2>1 DEF Enqueue, TypeOK
    <2>2. CASE i # j
      <3>1. row'[j] = row[j] /\ faults' = faults /\ worker' = worker
        BY <1>1, <2>2 DEF Enqueue, TypeOK
      <3>2. Kept(j) => Kept(j)'
        BY <3>1 DEF Kept, Owns
      <3> HIDE DEF Goal
      <3> QED BY <3>1, <3>2, SameRow DEF Goal
    <2> QED BY <2>1, <2>2
  <1>2. ASSUME NEW w \in Worker, NEW i \in JobId, Claim(w, i) PROVE Goal
    <2>f. faults' = faults
      BY <1>2 DEF Claim
    <2>1. CASE i = j
      <3>1. row[j].attempts < MaxAttempts + faults
        <4>1. \/ row[j].status = "pending"
              \/ row[j].status = "running" /\ row[j].lease = 0
          BY <1>2, <2>1 DEF Claim, Ready
        <4> QED BY <1>a, <1>b, <4>1 DEF Attempts, AttemptsLeft
      <3>2. /\ row'[j].status = "running" /\ row'[j].lease = Lease
            /\ row'[j].attempts = row[j].attempts + 1 /\ row'[j].token = claims + 1
        BY <1>2, <2>1, ClaimRow
      <3>3. Kept(j)'
        <4>1. /\ worker'[w].job = j /\ worker'[w].token = claims + 1
              /\ worker'[w].phase # "idle" /\ ~worker'[w].cancelled
          BY <1>2, <2>1, ClaimWorker
        <4> QED BY <3>2, <4>1 DEF Kept, Owns
      <3> QED BY <1>a, <1>b, <2>f, <3>1, <3>2, <3>3
    <2>2. CASE i # j
      <3>1. row'[j] = row[j]
        BY <1>2, <2>2, ClaimRow
      <3>2. ASSUME NEW v \in Worker, worker[v].job = j, Owns(v), ~worker[v].cancelled
            PROVE Kept(j)'
        <4>1. v # w
          BY <1>2, <3>2, ClaimWorker DEF Owns
        <4>2. worker'[v] = worker[v] /\ Owns(v)'
          BY <1>2, <2>2, <3>2, <4>1, ClaimWorker, ClaimOwners
        <4> QED BY <3>2, <4>2 DEF Kept
      <3>3. Kept(j) => Kept(j)'
        BY <3>2 DEF Kept
      <3> HIDE DEF Goal
      <3> QED BY <2>f, <3>1, <3>3, SameRow DEF Goal
    <2> QED BY <2>1, <2>2
  <1>3. ASSUME NEW w \in Worker, Renew(w) PROVE Goal
    <2>0. Owns(w) /\ ~worker[w].cancelled /\ worker' = worker /\ faults' = faults
      BY <1>3 DEF Renew, Renews
    <2>w. worker[w].job \in JobId
      BY <2>0, OwnedJob DEF Owns
    <2>1. CASE worker[w].job = j
      <3>1. /\ row'[j].status = row[j].status /\ row'[j].token = row[j].token
            /\ row'[j].attempts = row[j].attempts /\ row'[j].lease = Lease
        BY <1>3, <2>1, <2>w DEF Renew, TypeOK, Row
      <3>2. row[j].status = "running"
        BY <2>0, <2>1 DEF Owns
      <3>3. Kept(j)'
        BY <2>0, <2>1, <3>1 DEF Kept, Owns
      <3>4. row[j].attempts <= MaxAttempts + faults
        BY DEF Attempts, AttemptsPaidFor
      <3> QED BY <1>b, <2>0, <3>1, <3>2, <3>3, <3>4
    <2>2. CASE worker[w].job # j
      <3>1. row'[j] = row[j]
        BY <1>3, <2>2, <2>w DEF Renew, TypeOK
      <3>2. Kept(j) => Kept(j)'
        BY <2>0, <3>1 DEF Kept, Owns
      <3> HIDE DEF Goal
      <3> QED BY <2>0, <3>1, <3>2, SameRow DEF Goal
    <2> QED BY <2>1, <2>2
  <1>4. ASSUME NEW w \in Worker, RenewLost(w) PROVE Goal
    <2>1. row' = row /\ faults' = faults /\ \A v \in Worker \ {w} : worker'[v] = worker[v]
      BY <1>4, QuietEffect DEF RenewLost
    <2>2. ~Owns(w)
      BY <1>4 DEF RenewLost
    <2>3. Kept(j) => Kept(j)'
      BY <2>1, <2>2 DEF Kept, Owns
    <2> HIDE DEF Goal
    <2> QED BY <2>1, <2>3, SameRow DEF Goal
  <1>5. ASSUME NEW w \in Worker, RenewError(w) \/ FinalizeError(w) \/ Stop(w) PROVE Goal
    <2>1. row' = row /\ faults' = faults + 1
      BY <1>5 DEF RenewError, FinalizeError, Stop
    <2> HIDE DEF Goal
    <2> QED BY <2>1, SameRow DEF Goal
  <1>6. ASSUME NEW w \in Worker, NEW r \in BOOLEAN, HandlerReturns(w, r) PROVE Goal
    <2>1. row' = row /\ faults' = faults
      BY <1>6 DEF HandlerReturns
    <2>2. \A v \in Worker : /\ worker'[v].job = worker[v].job
                            /\ worker'[v].token = worker[v].token
                            /\ worker'[v].cancelled = worker[v].cancelled
                            /\ worker[v].phase # "idle" => worker'[v].phase # "idle"
      <3>1. \A v \in Worker : worker[v] \in WorkerState
        BY DEF TypeOK
      <3>2. worker' = [worker EXCEPT ![w] = [worker[w] EXCEPT !.phase = "returned", !.ok = r]]
        BY <1>6 DEF HandlerReturns
      <3>3. DOMAIN worker = Worker
        BY DEF TypeOK
      <3> QED BY <3>1, <3>2, <3>3, Zenon DEF WorkerState
    <2>3. Kept(j) => Kept(j)'
      BY <2>1, <2>2 DEF Kept, Owns
    <2> HIDE DEF Goal
    <2> QED BY <2>1, <2>3, SameRow DEF Goal
  <1>7. ASSUME NEW w \in Worker, Abandon(w) PROVE Goal
    <2>1. row' = row /\ faults' = faults /\ worker[w].cancelled /\ Leave(w)
      BY <1>7 DEF Abandon
    <2>2. Kept(j) => Kept(j)'
      BY <2>1, LeaveOwners DEF Kept
    <2> HIDE DEF Goal
    <2> QED BY <2>1, <2>2, SameRow DEF Goal
  <1>8. ASSUME NEW w \in Worker, Complete(w) \/ Fail(w) \/ FailUnhandled(w) PROVE Goal
    <2>1. CASE Owns(w) /\ worker[w].job = j /\ row' # row
      BY <1>8, <1>a, <1>b, <2>1, FinalizeRow DEF Attempts, AttemptsPaidFor
    <2>2. CASE ~(Owns(w) /\ worker[w].job = j) \/ row' = row
      <3>1. row'[j] = row[j] /\ faults' = faults /\ Leave(w)
        BY <1>8, <2>2, FinalizeRow
      <3>2. ASSUME NEW v \in Worker, v # w
            PROVE worker'[v] = worker[v] /\ (Owns(v)' <=> Owns(v))
        BY <1>8, <3>2, FinalizeRow, LeaveOwners
      <3>3. row' = row => ~Owns(w)
        BY <1>8, FinalizeRow, OwnedJob DEF Owns, TypeOK, Row
      <3>4. Kept(j) => Kept(j)'
        BY <2>2, <3>2, <3>3 DEF Kept
      <3> HIDE DEF Goal
      <3> QED BY <3>1, <3>4, SameRow DEF Goal
    <2> QED BY <2>1, <2>2
  <1>9. ASSUME Tick PROVE Goal
    <2>1. worker' = worker
      BY <1>9 DEF Tick
    <2>2. /\ row'[j].status = row[j].status /\ row'[j].kind = row[j].kind
          /\ row'[j].attempts = row[j].attempts
          /\ row'[j].lease = 0 => row[j].lease = 0 \/ row[j].lease = 1
      BY <1>9, TickRow
    <2>3. \A i \in JobId : row'[i].status = row[i].status /\ row'[i].token = row[i].token
      BY <1>9, TickRow
    <2>4. Kept(j) <=> Kept(j)'
      BY <2>1, <2>3, OwnedJob DEF Kept, Owns
    <2>5. \/ faults' = faults /\ j \notin Overrun
          \/ faults' = faults + 1
      BY <1>9, Zenon DEF Tick
    <2>6. /\ row[j].status = "pending" => row[j].attempts < MaxAttempts
          /\ row[j].status = "running" /\ (row[j].lease = 0 \/ ~Kept(j)) =>
               row[j].attempts < MaxAttempts + faults
          /\ row[j].attempts <= MaxAttempts + faults
          /\ row[j].status = "failed" =>
               row[j].attempts >= MaxAttempts \/ row[j].kind \notin Handled
      BY DEF Attempts, AttemptsLeft, AttemptsPaidFor, FailedOnlyWhenExhausted
    <2> QED BY <1>a, <1>b, <2>2, <2>4, <2>5, <2>6 DEF Overrun
  <1>10. ASSUME UNCHANGED vars PROVE Goal
    <2>1. row'[j] = row[j] /\ faults' = faults /\ (Kept(j) => Kept(j)')
      BY <1>10 DEF vars, Kept, Owns
    <2> HIDE DEF Goal
    <2> QED BY <2>1, SameRow DEF Goal
  <1> QED BY <1>1, <1>2, <1>3, <1>4, <1>5, <1>6, <1>7, <1>8, <1>9, <1>10 DEF Next

\* While nothing stalls, stops or fails, no lease is lost: whoever is busy
\* owns its job, and the clock waits for the renewal.
LEMMA FaultFreeNext ==
  ASSUME TypeOK, TokensDistinct, CopiesAgree, OwnedUnlessFault, [Next]_vars
  PROVE  OwnedUnlessFault'
  <1> SUFFICES ASSUME faults' = 0, NEW v \in Worker, worker'[v].phase # "idle"
               PROVE  Owns(v)' /\ row'[worker'[v].job].lease > 0 /\ ~worker'[v].cancelled
    BY DEF OwnedUnlessFault
  <1> DEFINE Goal == Owns(v)' /\ row'[worker'[v].job].lease > 0 /\ ~worker'[v].cancelled
  <1>a. faults \in Nat /\ Lease \in Nat \ {0}
    BY QueueAssumption DEF QueueAssumption, TypeOK
  <1>b. ASSUME faults = 0, NEW u \in Worker, worker[u].phase # "idle"
        PROVE  /\ Owns(u) /\ row[worker[u].job].lease > 0 /\ ~worker[u].cancelled
               /\ worker[u].job \in JobId
    BY <1>b DEF OwnedUnlessFault, TokensDistinct
  <1>1. ASSUME NEW j \in JobId, NEW k \in Kind, Enqueue(j, k) PROVE Goal
    <2>1. worker' = worker /\ faults = 0 /\ row[j].status = "absent"
      BY <1>1 DEF Enqueue
    <2>2. worker[v].job # j
      BY <2>1 DEF CopiesAgree
    <2>3. row'[worker[v].job] = row[worker[v].job]
      BY <1>1, <1>b, <2>1, <2>2 DEF Enqueue, TypeOK
    <2> QED BY <1>b, <2>1, <2>3 DEF Owns
  <1>2. ASSUME NEW w \in Worker, NEW j \in JobId, Claim(w, j) PROVE Goal
    <2>1. faults = 0
      BY <1>2 DEF Claim
    <2>2. CASE v = w
      BY <1>2, <1>a, <2>2, ClaimRow, ClaimWorker DEF Owns
    <2>3. CASE v # w
      <3>1. worker'[v] = worker[v]
        BY <1>2, <2>3, ClaimWorker
      <3>2. /\ Owns(v) /\ row[worker[v].job].lease > 0 /\ ~worker[v].cancelled
            /\ worker[v].job \in JobId
        BY <1>b, <2>1, <3>1
      <3>3. worker[v].job # j
        BY <1>2, <3>2 DEF Claim, Ready, Owns
      <3> QED BY <1>2, <2>3, <3>1, <3>2, <3>3, ClaimOwners, ClaimRow
    <2> QED BY <2>2, <2>3
  <1>3. ASSUME NEW w \in Worker, Renew(w) PROVE Goal
    <2>1. worker' = worker /\ faults = 0
      BY <1>3 DEF Renew
    <2>2. \A i \in JobId : /\ row'[i].status = row[i].status
                           /\ row'[i].token = row[i].token
                           /\ row'[i].lease \in {row[i].lease, Lease}
      BY <1>3 DEF Renew, TypeOK, Row
    <2> QED BY <1>a, <1>b, <2>1, <2>2 DEF Owns
  <1>4. ASSUME NEW w \in Worker, RenewLost(w) PROVE Goal
    <2>1. faults = 0 /\ ~Owns(w) /\ worker[w].phase # "idle"
      BY <1>4 DEF RenewLost, Renews
    <2> QED BY <1>b, <2>1
  <1>5. ASSUME NEW w \in Worker, RenewError(w) \/ FinalizeError(w) \/ Stop(w) PROVE Goal
    BY <1>5, <1>a DEF RenewError, FinalizeError, Stop
  <1>6. ASSUME NEW w \in Worker, NEW r \in BOOLEAN, HandlerReturns(w, r) PROVE Goal
    <2>1. row' = row /\ faults = 0 /\ worker[w].phase = "handling"
      BY <1>6 DEF HandlerReturns
    <2>2. /\ worker'[v].job = worker[v].job /\ worker'[v].token = worker[v].token
          /\ worker'[v].cancelled = worker[v].cancelled
          /\ worker[v].phase # "idle"
      <3>1. worker[w] \in WorkerState /\ DOMAIN worker = Worker
        BY DEF TypeOK
      <3>2. worker' = [worker EXCEPT ![w] = [worker[w] EXCEPT !.phase = "returned", !.ok = r]]
        BY <1>6 DEF HandlerReturns
      <3>3. CASE v = w
        BY <2>1, <3>1, <3>2, <3>3, Zenon DEF WorkerState
      <3>4. CASE v # w
        BY <3>1, <3>2, <3>4
      <3> QED BY <3>3, <3>4
    <2> QED BY <1>b, <2>1, <2>2 DEF Owns
  <1>7. ASSUME NEW w \in Worker, Abandon(w) PROVE Goal
    <2>1. faults = 0 /\ worker[w].cancelled /\ worker[w].phase # "idle"
      BY <1>7 DEF Abandon
    <2> QED BY <1>b, <2>1
  <1>8. ASSUME NEW w \in Worker, Complete(w) \/ Fail(w) \/ FailUnhandled(w) PROVE Goal
    <2>1. Leave(w) /\ faults = 0
      BY <1>8, FinalizeRow
    <2>2. v # w
      BY <2>1, LeaveEffect
    <2>3. worker'[v] = worker[v] /\ (Owns(v)' <=> Owns(v))
      BY <1>8, <2>2, FinalizeRow, LeaveOwners
    <2>4. /\ Owns(v) /\ row[worker[v].job].lease > 0 /\ ~worker[v].cancelled
          /\ worker[v].job \in JobId
      BY <1>b, <2>1, <2>3
    <2>5. Owns(w) => worker[v].job # worker[w].job
      BY <2>2, <2>4 DEF Owns, TokensDistinct
    <2>6. row'[worker[v].job] = row[worker[v].job]
      BY <1>8, <2>4, <2>5, FinalizeRow
    <2> QED BY <2>3, <2>4, <2>6
  <1>9. ASSUME Tick PROVE Goal
    <2>1. worker' = worker /\ faults = 0 /\ Overrun = {}
      <3>1. worker' = worker
        BY <1>9 DEF Tick
      <3>2. (Overrun = {} /\ faults' = faults) \/ faults' = faults + 1
        BY <1>9, Zenon DEF Tick
      <3> QED BY <1>a, <3>1, <3>2
    <2>2. /\ Owns(v) /\ row[worker[v].job].lease > 0 /\ ~worker[v].cancelled
          /\ worker[v].job \in JobId
      BY <1>b, <2>1
    <2>3. row[worker[v].job].lease # 1
      BY <2>1, <2>2 DEF Overrun, Kept, Owns
    <2>4. row'[worker[v].job].lease \in Nat /\ row'[worker[v].job].lease # 0
      <3>1. row' \in [JobId -> Row]
        BY TypeNext DEF TypeOK
      <3> QED BY <1>9, <1>a, <2>2, <2>3, <3>1, TickRow DEF Row
    <2> QED BY <1>9, <2>1, <2>2, <2>4, TickRow DEF Owns
  <1>10. ASSUME UNCHANGED vars PROVE Goal
    BY <1>10, <1>b DEF vars, Owns
  <1> QED BY <1>1, <1>2, <1>3, <1>4, <1>5, <1>6, <1>7, <1>8, <1>9, <1>10 DEF Next

-----------------------------------------------------------------------------
\* QueueInv is inductive: the conditions the queue's guarantees follow from
\* hold at the start and every step of every worker keeps them.
THEOREM QueueInvHolds == Spec => []QueueInv
  <1>1. Init => QueueInv
    <2> SUFFICES ASSUME Init PROVE QueueInv
      OBVIOUS
    <2>1. TypeOK
      BY TypeInit
    <2>2. \A w \in Worker : worker[w].phase = "idle"
      BY DEF Init, Idle
    <2>3. \A j \in JobId : row[j].status = "absent" /\ row[j].attempts = 0 /\ row[j].token = 0
      BY DEF Init, NoToken
    <2>4. claims = 0 /\ faults = 0 /\ MaxAttempts \in Nat
      BY QueueAssumption DEF Init, QueueAssumption
    <2>5. TokensDistinct /\ CopiesAgree /\ OwnedUnlessFault
      BY <2>2, <2>3, <2>4 DEF TokensDistinct, CopiesAgree, OwnedUnlessFault
    <2>6. AttemptsLeft /\ AttemptsPaidFor /\ FailedOnlyWhenExhausted
      BY <2>3, <2>4 DEF AttemptsLeft, AttemptsPaidFor, FailedOnlyWhenExhausted
    <2> QED BY <2>1, <2>5, <2>6 DEF QueueInv
  <1>2. QueueInv /\ [Next]_vars => QueueInv'
    BY TypeNext, TokensNext, CopiesNext, AttemptsNext, FaultFreeNext
       DEF QueueInv, Attempts
  <1> QED BY <1>1, <1>2, PTL DEF Spec

\* The table and the workers' locals keep their types.
THEOREM TypesHold == Spec => []TypeOK
  <1>1. QueueInv => TypeOK
    BY DEF QueueInv
  <1> QED BY <1>1, QueueInvHolds, PTL

\* At most one worker passes the token check of a row, however many leases
\* ran out under busy workers.
THEOREM OneOwnerHolds == Spec => []OneOwner
  <1>1. QueueInv => OneOwner
    BY DEF QueueInv, TokensDistinct, OneOwner, Owns
  <1> QED BY <1>1, QueueInvHolds, PTL

\* Without stalls, stops and database errors a job is never run twice at a
\* time.
THEOREM NoDoubleRunHolds == Spec => []NoDoubleRunUnlessFault
  <1>1. QueueInv => NoDoubleRunUnlessFault
    BY DEF QueueInv, TypeOK, TokensDistinct, OwnedUnlessFault, NoDoubleRunUnlessFault, Owns
  <1> QED BY <1>1, QueueInvHolds, PTL

\* Claims beyond MaxAttempts are all paid for by faults.
THEOREM AttemptsPaidForHolds == Spec => []AttemptsPaidFor
  <1>1. QueueInv => AttemptsPaidFor
    BY DEF QueueInv
  <1> QED BY <1>1, QueueInvHolds, PTL

\* No job with a handler is given up before MaxAttempts claims.
THEOREM FailedOnlyWhenExhaustedHolds == Spec => []FailedOnlyWhenExhausted
  <1>1. QueueInv => FailedOnlyWhenExhausted
    BY DEF QueueInv
  <1> QED BY <1>1, QueueInvHolds, PTL

\* Whatever a step does to a row's status, it is a submission, a claim, or the
\* verdict of the worker of the latest claim.
LEMMA StatusStep ==
  ASSUME QueueInv, Next, NEW j \in JobId, row'[j].status # row[j].status
  PROVE  \/ row[j].status = "absent" /\ row'[j].status = "pending"
         \/ row[j].status = "pending" /\ row'[j].status = "running"
         \/ /\ row[j].status = "running"
            /\ \E w \in Worker :
                 /\ worker[w].job = j /\ worker[w].token = row[j].token
                 /\ worker[w].attempts = row[j].attempts
                 /\ worker[w].phase \in {"returned", "unhandled"}
                 /\ (row'[j].status = "complete") <=> worker[w].ok
  <1> DEFINE Goal ==
        \/ row[j].status = "absent" /\ row'[j].status = "pending"
        \/ row[j].status = "pending" /\ row'[j].status = "running"
        \/ /\ row[j].status = "running"
           /\ \E w \in Worker :
                /\ worker[w].job = j /\ worker[w].token = row[j].token
                /\ worker[w].attempts = row[j].attempts
                /\ worker[w].phase \in {"returned", "unhandled"}
                /\ (row'[j].status = "complete") <=> worker[w].ok
  <1>0. TypeOK /\ TokensDistinct /\ CopiesAgree
    BY DEF QueueInv
  <1>1. ASSUME NEW i \in JobId, NEW k \in Kind, Enqueue(i, k) PROVE Goal
    BY <1>0, <1>1 DEF Enqueue, TypeOK
  <1>2. ASSUME NEW w \in Worker, NEW i \in JobId, Claim(w, i) PROVE Goal
    BY <1>0, <1>2, ClaimRow DEF Live
  <1>3. ASSUME NEW w \in Worker, Renew(w) PROVE Goal
    BY <1>0, <1>3 DEF Renew, TypeOK, Row
  <1>4. ASSUME row' = row PROVE Goal
    BY <1>4
  <1>5. ASSUME NEW w \in Worker, Owns(w), worker[w].job = j,
               worker[w].phase \in {"returned", "unhandled"},
               (row'[j].status = "complete") <=> worker[w].ok
        PROVE  Goal
    <2>1. /\ row[j].status = "running" /\ worker[w].token = row[j].token
          /\ worker[w].attempts = row[j].attempts
      BY <1>0, <1>5 DEF Owns, CopiesAgree
    <2> QED BY <1>5, <2>1
  <1>6. ASSUME NEW w \in Worker, Complete(w) PROVE Goal
    <2>1. Owns(w) /\ worker[w].job = j /\ row'[j].status = "complete"
      BY <1>0, <1>6, CompleteEffect
    <2>2. worker[w].ok /\ worker[w].phase = "returned"
      BY <1>6 DEF Complete
    <2>3. (row'[j].status = "complete") <=> worker[w].ok
      BY <2>1, <2>2
    <2> QED BY <1>5, <2>1, <2>2, <2>3
  <1>7. ASSUME NEW w \in Worker, Fail(w) \/ FailUnhandled(w) PROVE Goal
    <2>1. PICK n, d : FailRow(w, n, d)
      BY <1>7 DEF Fail, FailUnhandled
    <2>2. Owns(w) /\ worker[w].job = j /\ row'[j].status \in {"failed", "pending"}
      BY <1>0, <2>1, FailRowEffect
    <2>3. ~worker[w].ok /\ worker[w].phase \in {"returned", "unhandled"}
      BY <1>0, <1>7 DEF Fail, FailUnhandled, CopiesAgree
    <2>4. (row'[j].status = "complete") <=> worker[w].ok
      BY <2>2, <2>3
    <2> QED BY <1>5, <2>2, <2>3, <2>4
  <1>8. ASSUME Tick PROVE Goal
    BY <1>0, <1>8, TickRow
  <1>9. ASSUME NEW w \in Worker,
               \/ RenewLost(w) \/ RenewError(w) \/ Abandon(w)
               \/ FinalizeError(w) \/ Stop(w)
               \/ \E r \in BOOLEAN : HandlerReturns(w, r)
        PROVE  row' = row
    BY <1>9 DEF RenewLost, RenewError, Abandon, FinalizeError, Stop, HandlerReturns
  <1> HIDE DEF Goal
  <1>10. Goal
    BY <1>1, <1>2, <1>3, <1>4, <1>6, <1>7, <1>8, <1>9 DEF Next
  <1> QED BY <1>10 DEF Goal

\* Complete and Fail never let the verdict of a superseded claim through, and
\* no step touches a settled row's status.
THEOREM SettledByLatestClaimHolds == Spec => SettledByLatestClaim
  <1> DEFINE A == \A j \in JobId : row'[j].status # row[j].status =>
        \/ row[j].status = "absent" /\ row'[j].status = "pending"
        \/ row[j].status = "pending" /\ row'[j].status = "running"
        \/ /\ row[j].status = "running"
           /\ \E w \in Worker :
                /\ worker[w].job = j /\ worker[w].token = row[j].token
                /\ worker[w].attempts = row[j].attempts
                /\ worker[w].phase \in {"returned", "unhandled"}
                /\ (row'[j].status = "complete") <=> worker[w].ok
  <1>1. QueueInv /\ [Next]_vars => [A]_vars
    BY StatusStep
  <1>2. SettledByLatestClaim <=> [][A]_vars
    BY DEF SettledByLatestClaim
  <1> QED BY <1>1, <1>2, QueueInvHolds, PTL DEF Spec

-----------------------------------------------------------------------------
(* The queue and its workers implement TaskLifecycle: every step of theirs is *)
(* a step of one task or none.  It rests on the lease tokens being distinct   *)
(* (QueueInv), which makes the worker whose verdict counts unique.            *)

\* A worker without a handler to run has no renewal that could cancel it.
NeverCancelled == \A w \in Worker :
  worker[w].phase = "unhandled" => ~worker[w].cancelled

\* Renewals run for handlers only, and a claim starts uncancelled.
LEMMA NeverCancelledNext ==
  ASSUME TypeOK, TokensDistinct, CopiesAgree, NeverCancelled, [Next]_vars
  PROVE  NeverCancelled'
  <1> SUFFICES ASSUME NEW v \in Worker, worker'[v].phase = "unhandled"
               PROVE  ~worker'[v].cancelled
    BY DEF NeverCancelled
  <1>1. ASSUME worker'[v] = worker[v] PROVE ~worker'[v].cancelled
    BY <1>1 DEF NeverCancelled
  <1>2. ASSUME NEW w \in Worker, NEW j \in JobId, Claim(w, j)
        PROVE  ~worker'[v].cancelled
    <2>1. CASE v = w
      BY <1>2, <2>1, ClaimWorker
    <2>2. CASE v # w
      BY <1>1, <1>2, <2>2, ClaimWorker
    <2> QED BY <2>1, <2>2
  <1>3. ASSUME NEW w \in Worker, Leave(w) PROVE ~worker'[v].cancelled
    BY <1>1, <1>3, LeaveEffect
  <1>4. ASSUME NEW w \in Worker,
               RenewLost(w) \/ RenewError(w) \/ \E r \in BOOLEAN : HandlerReturns(w, r)
        PROVE  ~worker'[v].cancelled
    BY <1>1, <1>4, QuietEffect
  <1>5. ASSUME NEW w \in Worker,
               \/ Abandon(w) \/ Complete(w) \/ Fail(w) \/ FailUnhandled(w)
               \/ FinalizeError(w) \/ Stop(w)
        PROVE  Leave(w)
    BY <1>5 DEF Abandon, Complete, Fail, FailUnhandled, FinalizeError, Stop
  <1>6. ASSUME worker' = worker PROVE ~worker'[v].cancelled
    BY <1>1, <1>6
  <1>7. CASE worker' # worker
    <2>1. \/ \E w \in Worker, j \in JobId : Claim(w, j)
          \/ \E w \in Worker :
               \/ RenewLost(w) \/ RenewError(w)
               \/ \E r \in BOOLEAN : HandlerReturns(w, r)
          \/ \E w \in Worker :
               \/ Abandon(w) \/ Complete(w) \/ Fail(w) \/ FailUnhandled(w)
               \/ FinalizeError(w) \/ Stop(w)
      BY <1>7 DEF Next, vars, Enqueue, Renew, Tick
    <2> QED BY <1>2, <1>3, <1>4, <1>5, <2>1
  <1> QED BY <1>6, <1>7

\* A job that is yet to be inserted has not been tried.
Untried == \A j \in JobId : row[j].status = "absent" => row[j].attempts = 0

\* Only the insert makes a row of an id, and with no attempts.
LEMMA UntriedNext ==
  ASSUME TypeOK, TokensDistinct, CopiesAgree, Untried, [Next]_vars
  PROVE  Untried'
  <1> SUFFICES ASSUME NEW j \in JobId, row'[j].status = "absent"
               PROVE  row'[j].attempts = 0
    BY DEF Untried
  <1>1. ASSUME row'[j] = row[j] PROVE row'[j].attempts = 0
    BY <1>1 DEF Untried
  <1>2. ASSUME NEW i \in JobId, NEW k \in Kind, Enqueue(i, k) PROVE row'[j].attempts = 0
    BY <1>1, <1>2 DEF Enqueue, TypeOK
  <1>3. ASSUME NEW w \in Worker, NEW i \in JobId, Claim(w, i) PROVE row'[j].attempts = 0
    BY <1>1, <1>3, ClaimRow
  <1>4. ASSUME NEW w \in Worker, Renew(w) PROVE row'[j].attempts = 0
    BY <1>4 DEF Renew, TypeOK, Row, Untried
  <1>5. ASSUME NEW w \in Worker, Complete(w) \/ Fail(w) \/ FailUnhandled(w)
        PROVE  row'[j].attempts = 0
    BY <1>1, <1>5, FinalizeRow
  <1>6. ASSUME Tick PROVE row'[j].attempts = 0
    BY <1>6, TickRow DEF Untried
  <1>7. CASE row' = row
    BY <1>1, <1>7
  <1>8. CASE row' # row
    <2>1. \/ \E i \in JobId, k \in Kind : Enqueue(i, k)
          \/ \E w \in Worker, i \in JobId : Claim(w, i)
          \/ \E w \in Worker : Renew(w)
          \/ \E w \in Worker : Complete(w) \/ Fail(w) \/ FailUnhandled(w)
          \/ Tick
      BY <1>8 DEF Next, vars, RenewLost, RenewError, HandlerReturns, Abandon,
                  FinalizeError, Stop
    <2> QED BY <1>2, <1>3, <1>4, <1>5, <1>6, <2>1
  <1> QED BY <1>7, <1>8

-----------------------------------------------------------------------------
\* Verdicts.

\* Tokens being distinct, the verdict on a job is the opinion of its owner...
LEMMA OwnersVerdict ==
  ASSUME TokensDistinct, NEW w \in Worker, NEW j \in JobId, OwnerOf(w, j)
  PROVE  VerdictOn(j) = Opinion(w)
  <1>1. \A v \in Worker : OwnerOf(v, j) => v = w
    BY DEF OwnerOf, Owns, TokensDistinct
  <1>2. (CHOOSE v \in Worker : OwnerOf(v, j)) = w
    BY <1>1, Zenon
  <1> QED BY <1>2 DEF VerdictOn

\* ... in the next state, too, ...
LEMMA OwnersNextVerdict ==
  ASSUME TokensDistinct', NEW w \in Worker, NEW j \in JobId, OwnerOf(w, j)'
  PROVE  VerdictOn(j)' = Opinion(w)'
  <1>1. \A v \in Worker : OwnerOf(v, j)' => v = w
    BY DEF OwnerOf, Owns, TokensDistinct
  <1>2. (CHOOSE v \in Worker : OwnerOf(v, j)') = w
    BY <1>1, Zenon
  <1> QED BY <1>2 DEF VerdictOn

\* ... and without an owner there is none.
LEMMA NoVerdict ==
  ASSUME NEW j \in JobId
  PROVE  /\ (\A w \in Worker : ~OwnerOf(w, j)) => VerdictOn(j) = "none"
         /\ (\A w \in Worker : ~OwnerOf(w, j)') => VerdictOn(j)' = "none"
  BY DEF VerdictOn

\* A job's verdict stays if its owners and their opinions do.
LEMMA SameVerdict ==
  ASSUME TokensDistinct, TokensDistinct', NEW j \in JobId,
         \A v \in Worker : OwnerOf(v, j)' <=> OwnerOf(v, j),
         \A v \in Worker : OwnerOf(v, j) => Opinion(v)' = Opinion(v)
  PROVE  VerdictOn(j)' = VerdictOn(j)
  <1>1. CASE \A v \in Worker : ~OwnerOf(v, j)
    BY <1>1, NoVerdict
  <1>2. CASE \E v \in Worker : OwnerOf(v, j)
    <2>1. PICK v \in Worker : OwnerOf(v, j)
      BY <1>2
    <2> QED BY <2>1, OwnersVerdict, OwnersNextVerdict
  <1> QED BY <1>1, <1>2

\* What a worker knows of a job is undisturbed by a step that changes neither
\* the worker nor the row's status and token.
LEMMA Undisturbed ==
  ASSUME NEW v \in Worker, NEW i \in JobId, worker'[v] = worker[v],
         row'[i].status = row[i].status, row'[i].token = row[i].token
  PROVE  (OwnerOf(v, i)' <=> OwnerOf(v, i)) /\ Opinion(v)' = Opinion(v)
  BY DEF OwnerOf, Owns, Opinion

-----------------------------------------------------------------------------
\* The steps of the task lifecycle, in terms of rows and verdicts.

SameTask(i) ==
  /\ row'[i].status = row[i].status /\ row'[i].attempts = row[i].attempts
  /\ VerdictOn(i)' = VerdictOn(i)

FateNow    == [j \in JobId |-> Fates[row[j].status]]
TriesNow   == [j \in JobId |-> row[j].attempts]
VerdictNow == [j \in JobId |-> VerdictOn(j)]

\* An update of the three functions at one task.
OneUpdate(j) ==
  /\ FateNow' = [FateNow EXCEPT ![j] = Fates[row'[j].status]]
  /\ TriesNow' = [TriesNow EXCEPT ![j] = row'[j].attempts]
  /\ VerdictNow' = [VerdictNow EXCEPT ![j] = VerdictOn(j)']
  /\ FateNow[j] = Fates[row[j].status]
  /\ TriesNow[j] = row[j].attempts /\ VerdictNow[j] = VerdictOn(j)
  /\ row'[j].status = row[j].status => FateNow' = FateNow
  /\ row'[j].attempts = row[j].attempts => TriesNow' = TriesNow
  /\ VerdictOn(j)' = VerdictOn(j) => VerdictNow' = VerdictNow

\* That is what a step does that leaves all other tasks alone.
LEMMA OneTask ==
  ASSUME NEW j \in JobId, \A i \in JobId \ {j} : SameTask(i)
  PROVE  OneUpdate(j)
  <1>1. FateNow' = [FateNow EXCEPT ![j] = Fates[row'[j].status]]
    BY DEF SameTask, FateNow
  <1>2. TriesNow' = [TriesNow EXCEPT ![j] = row'[j].attempts]
    BY DEF SameTask, TriesNow
  <1>3. VerdictNow' = [VerdictNow EXCEPT ![j] = VerdictOn(j)']
    <2>1. VerdictNow' = [i \in JobId |-> VerdictOn(i)']
      BY DEF VerdictNow
    <2>2. \A i \in JobId \ {j} : VerdictOn(i)' = VerdictOn(i)
      BY DEF SameTask
    <2> QED BY <2>1, <2>2, Zenon DEF VerdictNow
  <1>4. row'[j].status = row[j].status => FateNow' = FateNow
    BY DEF SameTask, FateNow
  <1>5. row'[j].attempts = row[j].attempts => TriesNow' = TriesNow
    BY DEF SameTask, TriesNow
  <1>6. VerdictOn(j)' = VerdictOn(j) => VerdictNow' = VerdictNow
    BY DEF SameTask, VerdictNow
  <1>7. /\ FateNow[j] = Fates[row[j].status] /\ TriesNow[j] = row[j].attempts
        /\ VerdictNow[j] = VerdictOn(j)
    BY DEF FateNow, TriesNow, VerdictNow
  <1> QED BY <1>1, <1>2, <1>3, <1>4, <1>5, <1>6, <1>7 DEF OneUpdate

\* The fate of each status.
LEMMA FateOf ==
  /\ Fates["absent"] = "unknown" /\ Fates["pending"] = "waiting"
  /\ Fates["running"] = "trying" /\ Fates["complete"] = "done"
  /\ Fates["failed"] = "given up"
  BY DEF Fates

\* A step that changes nothing about any task is none of TaskLifecycle's.
LEMMA StutterMaps ==
  ASSUME \A i \in JobId : SameTask(i)
  PROVE  UNCHANGED Tasks!vars
  BY DEF SameTask, Tasks!vars

\* The inserted row is a submitted task.
LEMMA SubmitMaps ==
  ASSUME NEW j \in JobId, \A i \in JobId \ {j} : SameTask(i),
         row[j].status = "absent", row'[j].status = "pending",
         row'[j].attempts = row[j].attempts, VerdictOn(j)' = VerdictOn(j)
  PROVE  Tasks!Submit(j)
  <1>0. OneUpdate(j)
    BY OneTask, Zenon
  <1>1. /\ FateNow[j] = "unknown" /\ FateNow' = [FateNow EXCEPT ![j] = "waiting"]
        /\ TriesNow' = TriesNow /\ VerdictNow' = VerdictNow
    BY <1>0, FateOf DEF OneUpdate
  <1> QED BY <1>1, Zenon DEF FateNow, TriesNow, VerdictNow, Tasks!Submit

\* A claim is a try of the task.
LEMMA TryMaps ==
  ASSUME NEW j \in JobId, \A i \in JobId \ {j} : SameTask(i),
         row[j].status \in Live, row'[j].status = "running",
         row'[j].attempts = row[j].attempts + 1,
         VerdictOn(j)' \in {"none", "no handler"}
  PROVE  Tasks!Try(j)
  <1>0. OneUpdate(j)
    BY OneTask, Zenon
  <1>1. /\ FateNow[j] \in {"waiting", "trying"}
        /\ FateNow' = [FateNow EXCEPT ![j] = "trying"]
        /\ TriesNow' = [TriesNow EXCEPT ![j] = @ + 1]
    BY <1>0, FateOf, ZenonT(30) DEF OneUpdate, Live
  <1>2. \E v \in {"none", "no handler"} : VerdictNow' = [VerdictNow EXCEPT ![j] = v]
    BY <1>0 DEF OneUpdate
  <1> QED BY <1>1, <1>2, Zenon DEF FateNow, TriesNow, VerdictNow, Tasks!Try

\* The result of the owner's handler is the try's answer.
LEMMA AnswerMaps ==
  ASSUME NEW j \in JobId, \A i \in JobId \ {j} : SameTask(i),
         row[j].status = "running", row'[j].status = "running",
         row'[j].attempts = row[j].attempts,
         VerdictOn(j) = "none", VerdictOn(j)' \in {"success", "error"}
  PROVE  Tasks!Answer(j)
  <1>0. OneUpdate(j)
    BY OneTask, Zenon
  <1>1. /\ FateNow[j] = "trying" /\ VerdictNow[j] = "none"
        /\ FateNow' = FateNow /\ TriesNow' = TriesNow
    BY <1>0, FateOf, ZenonT(30) DEF OneUpdate
  <1>2. \E v \in {"success", "error"} : VerdictNow' = [VerdictNow EXCEPT ![j] = v]
    BY <1>0 DEF OneUpdate
  <1> QED BY <1>1, <1>2, Zenon DEF FateNow, TriesNow, VerdictNow, Tasks!Answer

\* An owner that is stopped or cancelled loses the try.
LEMMA LoseMaps ==
  ASSUME NEW j \in JobId, \A i \in JobId \ {j} : SameTask(i),
         row[j].status = "running", row'[j].status = "running",
         row'[j].attempts = row[j].attempts, VerdictOn(j)' = "none"
  PROVE  Tasks!Lose(j)
  <1>0. OneUpdate(j)
    BY OneTask, Zenon
  <1>1. /\ FateNow[j] = "trying" /\ FateNow' = FateNow /\ TriesNow' = TriesNow
        /\ VerdictNow' = [VerdictNow EXCEPT ![j] = "none"]
    BY <1>0, FateOf, ZenonT(30) DEF OneUpdate
  <1> QED BY <1>1, Zenon DEF FateNow, TriesNow, VerdictNow, Tasks!Lose

\* The owner's final update settles the task as its verdict says.
LEMMA SettleMaps ==
  ASSUME NEW j \in JobId, \A i \in JobId \ {j} : SameTask(i),
         row[j].status = "running",
         row'[j].attempts = row[j].attempts, VerdictOn(j)' = "none",
         \/ VerdictOn(j) = "success" /\ row'[j].status = "complete"
         \/ VerdictOn(j) = "no handler" /\ row'[j].status = "failed"
         \/ /\ VerdictOn(j) = "error"
            /\ row'[j].status = IF row[j].attempts >= MaxAttempts THEN "failed" ELSE "pending"
  PROVE  Tasks!Settle(j)
  <1>0. OneUpdate(j)
    BY OneTask, Zenon
  <1> DEFINE Settled ==
        CASE VerdictNow[j] = "success"    -> "done"
          [] VerdictNow[j] = "no handler" -> "given up"
          [] VerdictNow[j] = "error" ->
               IF TriesNow[j] >= MaxAttempts THEN "given up" ELSE "waiting"
  <1>1. /\ FateNow[j] = "trying" /\ VerdictNow[j] # "none" /\ TriesNow' = TriesNow
        /\ VerdictNow' = [VerdictNow EXCEPT ![j] = "none"]
    BY <1>0, FateOf, ZenonT(30) DEF OneUpdate
  <1>2. Settled = Fates[row'[j].status]
    BY <1>0, FateOf DEF OneUpdate
  <1>3. FateNow' = [FateNow EXCEPT ![j] = Settled]
    BY <1>0, <1>2, Zenon DEF OneUpdate
  <1> QED BY <1>1, <1>3, Zenon
          DEF FateNow, TriesNow, VerdictNow, Tasks!Settle, Tasks!Settled

-----------------------------------------------------------------------------
\* Every step of the queue and its workers is a step of TaskLifecycle or none.

\* A worker that loses its job, or has lost it before, without touching the
\* row: the try is lost if the worker was the owner, and nothing happens else.
LEMMA SilencedMaps ==
  ASSUME TypeOK, TokensDistinct, TokensDistinct', NEW w \in Worker, row' = row,
         \A v \in Worker \ {w} : worker'[v] = worker[v],
         \A i \in JobId : ~OwnerOf(w, i)'
  PROVE  [Tasks!Next]_Tasks!vars
  <1>1. ASSUME NEW i \in JobId, ~OwnerOf(w, i) PROVE SameTask(i)
    <2>1. \A v \in Worker : /\ OwnerOf(v, i)' <=> OwnerOf(v, i)
                            /\ OwnerOf(v, i) => Opinion(v)' = Opinion(v)
      BY <1>1, Undisturbed
    <2> QED BY <2>1, SameVerdict DEF SameTask
  <1>2. CASE \A i \in JobId : ~OwnerOf(w, i)
    BY <1>1, <1>2, StutterMaps
  <1>3. ASSUME NEW j \in JobId, OwnerOf(w, j) PROVE Tasks!Lose(j)
    <2>1. \A i \in JobId \ {j} : SameTask(i)
      BY <1>1, <1>3 DEF OwnerOf
    <2>2. row[j].status = "running"
      BY <1>3 DEF OwnerOf, Owns
    <2>3. \A v \in Worker : ~OwnerOf(v, j)'
      <3>1. \A v \in Worker \ {w} : ~OwnerOf(v, j)
        BY <1>3 DEF OwnerOf, Owns, TokensDistinct
      <3> QED BY <3>1, Undisturbed
    <2>4. VerdictOn(j)' = "none"
      BY <2>3, NoVerdict
    <2> QED BY <2>1, <2>2, <2>4, LoseMaps
  <1> QED BY <1>2, <1>3 DEF Tasks!Next

\* A worker that leaves its job untouched is silenced.
LEMMA LeaveMaps ==
  ASSUME TypeOK, TokensDistinct, TokensDistinct', NEW w \in Worker, row' = row, Leave(w)
  PROVE  [Tasks!Next]_Tasks!vars
  <1>1. \A i \in JobId : ~OwnerOf(w, i)'
    BY LeaveEffect DEF OwnerOf, Owns
  <1> QED BY <1>1, LeaveEffect, SilencedMaps

\* EnqueueTx submits the task.
LEMMA EnqueueMaps ==
  ASSUME TypeOK, TokensDistinct, TokensDistinct', CopiesAgree, Untried,
         NEW j \in JobId, NEW k \in Kind, Enqueue(j, k)
  PROVE  Tasks!Submit(j)
  <1>1. /\ worker' = worker /\ row[j].status = "absent" /\ row'[j].status = "pending"
        /\ row'[j].attempts = 0
        /\ \A i \in JobId \ {j} : row'[i] = row[i]
    BY DEF Enqueue, TypeOK
  <1>2. \A i \in JobId \ {j} : SameTask(i)
    <2> SUFFICES ASSUME NEW i \in JobId \ {j} PROVE SameTask(i)
      OBVIOUS
    <2>1. \A v \in Worker : /\ OwnerOf(v, i)' <=> OwnerOf(v, i)
                            /\ Opinion(v)' = Opinion(v)
      BY <1>1, Undisturbed
    <2> QED BY <1>1, <2>1, SameVerdict DEF SameTask
  <1>3. VerdictOn(j)' = VerdictOn(j)
    <2>1. \A v \in Worker : ~OwnerOf(v, j) /\ ~OwnerOf(v, j)'
      BY <1>1 DEF OwnerOf, Owns
    <2> QED BY <2>1, NoVerdict
  <1>4. row[j].attempts = 0
    BY <1>1 DEF Untried
  <1> QED BY <1>1, <1>2, <1>3, <1>4, SubmitMaps

\* ClaimByKind is a try; it silences whoever owned the row before.
LEMMA ClaimMaps ==
  ASSUME TypeOK, TokensDistinct, TokensDistinct',
         NEW w \in Worker, NEW j \in JobId, Claim(w, j)
  PROVE  Tasks!Try(j)
  <1>1. /\ row[j].status \in Live /\ row'[j].status = "running"
        /\ row'[j].attempts = row[j].attempts + 1 /\ row'[j].token = claims + 1
        /\ \A i \in JobId \ {j} : row'[i] = row[i]
    BY ClaimRow
  <1>2. /\ worker[w].phase = "idle" /\ worker'[w].job = j
        /\ worker'[w].token = claims + 1
        /\ worker'[w].phase \in {"handling", "unhandled"} /\ ~worker'[w].cancelled
        /\ \A v \in Worker \ {w} : worker'[v] = worker[v]
    BY ClaimWorker
  <1>3. \A i \in JobId \ {j} : SameTask(i)
    <2> SUFFICES ASSUME NEW i \in JobId \ {j} PROVE SameTask(i)
      OBVIOUS
    <2>1. ~OwnerOf(w, i) /\ ~OwnerOf(w, i)'
      BY <1>2 DEF OwnerOf, Owns
    <2>2. \A v \in Worker : /\ OwnerOf(v, i)' <=> OwnerOf(v, i)
                            /\ OwnerOf(v, i) => Opinion(v)' = Opinion(v)
      BY <1>1, <1>2, <2>1, Undisturbed
    <2> QED BY <1>1, <2>2, SameVerdict DEF SameTask
  <1>4. OwnerOf(w, j)'
    BY <1>1, <1>2 DEF OwnerOf, Owns
  <1>5. Opinion(w)' \in {"none", "no handler"}
    BY <1>2 DEF Opinion
  <1>6. VerdictOn(j)' \in {"none", "no handler"}
    BY <1>4, <1>5, OwnersNextVerdict
  <1> QED BY <1>1, <1>3, <1>6, TryMaps

\* Renewals and the clock are invisible to tasks.
LEMMA InvisibleMaps ==
  ASSUME TokensDistinct, TokensDistinct', worker' = worker,
         \A i \in JobId : /\ row'[i].status = row[i].status
                          /\ row'[i].token = row[i].token
                          /\ row'[i].attempts = row[i].attempts
  PROVE  UNCHANGED Tasks!vars
  <1>1. ASSUME NEW i \in JobId PROVE SameTask(i)
    <2>1. \A v \in Worker : /\ OwnerOf(v, i)' <=> OwnerOf(v, i)
                            /\ Opinion(v)' = Opinion(v)
      BY Undisturbed
    <2> QED BY <2>1, SameVerdict DEF SameTask
  <1> QED BY <1>1, StutterMaps

\* The return of the owner's handler is the answer to the latest try; what
\* the handler of a displaced try returns is nobody's answer.
LEMMA ReturnMaps ==
  ASSUME TypeOK, TokensDistinct, TokensDistinct',
         NEW w \in Worker, NEW r \in BOOLEAN, HandlerReturns(w, r)
  PROVE  [Tasks!Next]_Tasks!vars
  <1>1. /\ row' = row /\ worker[w].phase = "handling"
        /\ \A v \in Worker \ {w} : worker'[v] = worker[v]
    BY QuietEffect DEF HandlerReturns
  <1>2. /\ worker'[w].phase = "returned" /\ worker'[w].ok = r
        /\ worker'[w].job = worker[w].job /\ worker'[w].token = worker[w].token
        /\ worker'[w].cancelled = worker[w].cancelled
    <2>1. worker'[w] = [worker[w] EXCEPT !.phase = "returned", !.ok = r]
      BY Zenon DEF HandlerReturns, TypeOK
    <2>2. worker[w] \in WorkerState
      BY DEF TypeOK
    <2> QED BY <2>1, <2>2, Zenon DEF WorkerState
  <1>3. \A i \in JobId : OwnerOf(w, i)' <=> OwnerOf(w, i)
    BY <1>1, <1>2 DEF OwnerOf, Owns
  <1>4. ASSUME NEW i \in JobId, ~OwnerOf(w, i) PROVE SameTask(i)
    <2>1. \A v \in Worker : /\ OwnerOf(v, i)' <=> OwnerOf(v, i)
                            /\ OwnerOf(v, i) => Opinion(v)' = Opinion(v)
      BY <1>1, <1>3, <1>4, Undisturbed
    <2> QED BY <1>1, <2>1, SameVerdict DEF SameTask
  <1>5. CASE \A i \in JobId : ~OwnerOf(w, i)
    BY <1>4, <1>5, StutterMaps
  <1>6. ASSUME NEW j \in JobId, OwnerOf(w, j) PROVE Tasks!Answer(j)
    <2>1. \A i \in JobId \ {j} : SameTask(i)
      BY <1>4, <1>6 DEF OwnerOf
    <2>2. row[j].status = "running"
      BY <1>6 DEF OwnerOf, Owns
    <2>3. VerdictOn(j) = "none"
      BY <1>1, <1>6, OwnersVerdict DEF Opinion
    <2>4. Opinion(w)' \in {"success", "error"}
      BY <1>2 DEF Opinion
    <2>5. VerdictOn(j)' \in {"success", "error"}
      BY <1>3, <1>6, <2>4, OwnersNextVerdict
    <2> QED BY <1>1, <2>1, <2>2, <2>3, <2>5, AnswerMaps
  <1> QED BY <1>5, <1>6 DEF Tasks!Next

\* The final update of the owner settles the task as its verdict says; that of
\* a worker with a stale token touches nothing.
LEMMA FinalizeMaps ==
  ASSUME TypeOK, TokensDistinct, TokensDistinct', CopiesAgree, NeverCancelled,
         NEW w \in Worker, Complete(w) \/ Fail(w) \/ FailUnhandled(w)
  PROVE  [Tasks!Next]_Tasks!vars
  <1>1. Leave(w) /\ \A i \in JobId : row'[i].attempts = row[i].attempts
    BY FinalizeRow
  <1>2. CASE ~Owns(w)
    <2>1. row' = row
      BY <1>2, FinalizeRow
    <2> QED BY <1>1, <2>1, LeaveMaps
  <1>3. CASE Owns(w)
    <2>1. PICK j \in JobId : j = worker[w].job
      BY <1>3, FinalizeRow
    <2>2. row'[j].token = 0 /\ \A i \in JobId \ {j} : row'[i] = row[i]
      BY <1>3, <2>1, FinalizeRow
    <2>3. \A v \in Worker \ {w} : worker'[v] = worker[v] /\ (Owns(v)' <=> Owns(v))
      BY <1>1, <1>3, <2>1, <2>2, LeaveOwners
    <2>4. ~worker[w].cancelled
      BY DEF Complete, Fail, FailUnhandled, NeverCancelled
    <2>5. OwnerOf(w, j) /\ row[j].status = "running"
      BY <1>3, <2>1, <2>4 DEF OwnerOf, Owns
    <2>6. \A i \in JobId : ~OwnerOf(w, i)'
      BY <1>1, LeaveEffect DEF OwnerOf, Owns
    <2>7. \A i \in JobId \ {j} : SameTask(i)
      <3> SUFFICES ASSUME NEW i \in JobId \ {j} PROVE SameTask(i)
        OBVIOUS
      <3>1. ~OwnerOf(w, i)
        BY <2>1 DEF OwnerOf
      <3>2. \A v \in Worker : /\ OwnerOf(v, i)' <=> OwnerOf(v, i)
                              /\ OwnerOf(v, i) => Opinion(v)' = Opinion(v)
        BY <2>2, <2>3, <2>6, <3>1, Undisturbed
      <3> QED BY <2>2, <3>2, SameVerdict DEF SameTask
    <2>8. VerdictOn(j)' = "none"
      <3>1. \A v \in Worker \ {w} : ~OwnerOf(v, j)
        BY <2>5 DEF OwnerOf, Owns, TokensDistinct
      <3>2. \A v \in Worker \ {w} : ~OwnerOf(v, j)'
        BY <2>3, <3>1 DEF OwnerOf
      <3> QED BY <2>6, <3>2, NoVerdict
    <2>9. VerdictOn(j) = Opinion(w)
      BY <2>5, OwnersVerdict
    <2>10. worker[w].attempts = row[j].attempts /\ row[j].attempts \in Nat
      BY <1>3, <2>1 DEF CopiesAgree, Owns, TypeOK, Row
    <2>11. \/ VerdictOn(j) = "success" /\ row'[j].status = "complete"
           \/ VerdictOn(j) = "no handler" /\ row'[j].status = "failed"
           \/ /\ VerdictOn(j) = "error"
              /\ row'[j].status =
                   IF row[j].attempts >= MaxAttempts THEN "failed" ELSE "pending"
      <3>1. CASE Complete(w)
        <4>1. Opinion(w) = "success"
          BY <3>1 DEF Complete, Opinion
        <4>2. row'[j].status = "complete"
          BY <1>3, <2>1, <3>1, CompleteEffect
        <4> QED BY <2>9, <4>1, <4>2
      <3>2. CASE Fail(w)
        <4>1. Opinion(w) = "error"
          BY <3>2 DEF Fail, Opinion
        <4>2. FailRow(w, MaxAttempts, RetryDelay(worker[w].attempts))
          BY <3>2 DEF Fail
        <4>3. row'[j].status =
                IF worker[w].attempts >= MaxAttempts THEN "failed" ELSE "pending"
          BY <1>3, <2>1, <4>2, FailRowEffect
        <4> QED BY <2>9, <2>10, <4>1, <4>3
      <3>3. CASE FailUnhandled(w)
        <4>1. Opinion(w) = "no handler"
          BY <3>3 DEF FailUnhandled, Opinion
        <4>2. FailRow(w, worker[w].attempts, 0)
          BY <3>3 DEF FailUnhandled
        <4>3. row'[j].status =
                IF worker[w].attempts >= worker[w].attempts THEN "failed" ELSE "pending"
          BY <1>3, <2>1, <4>2, FailRowEffect
        <4>4. row'[j].status = "failed"
          BY <2>10, <4>3
        <4> QED BY <2>9, <4>1, <4>4
      <3> QED BY <3>1, <3>2, <3>3
    <2>12. Tasks!Settle(j)
      BY <1>1, <2>5, <2>7, <2>8, <2>11, SettleMaps
    <2> QED BY <2>12 DEF Tasks!Next
  <1> QED BY <1>2, <1>3

\* Step by step.
LEMMA NextMaps ==
  ASSUME TypeOK, TokensDistinct, TokensDistinct', CopiesAgree, NeverCancelled, Untried,
         [Next]_vars
  PROVE  [Tasks!Next]_Tasks!vars
  <1>1. ASSUME NEW j \in JobId, NEW k \in Kind, Enqueue(j, k) PROVE [Tasks!Next]_Tasks!vars
    BY <1>1, EnqueueMaps DEF Tasks!Next
  <1>2. ASSUME NEW w \in Worker, NEW j \in JobId, Claim(w, j) PROVE [Tasks!Next]_Tasks!vars
    BY <1>2, ClaimMaps DEF Tasks!Next
  <1>3. ASSUME NEW w \in Worker, Renew(w) PROVE UNCHANGED Tasks!vars
    <2>1. worker' = worker
      BY <1>3 DEF Renew
    <2>2. \A i \in JobId : /\ row'[i].status = row[i].status
                           /\ row'[i].token = row[i].token
                           /\ row'[i].attempts = row[i].attempts
      BY <1>3 DEF Renew, TypeOK, Row
    <2> QED BY <2>1, <2>2, InvisibleMaps
  <1>4. ASSUME NEW w \in Worker, RenewLost(w) PROVE [Tasks!Next]_Tasks!vars
    <2>1. row' = row /\ \A v \in Worker \ {w} : worker'[v] = worker[v]
      BY <1>4 DEF RenewLost
    <2>2. worker'[w].cancelled
      BY <1>4 DEF RenewLost, TypeOK, WorkerState
    <2> QED BY <2>1, <2>2, SilencedMaps DEF OwnerOf
  <1>5. ASSUME NEW w \in Worker, RenewError(w) PROVE [Tasks!Next]_Tasks!vars
    <2>1. row' = row /\ \A v \in Worker \ {w} : worker'[v] = worker[v]
      BY <1>5 DEF RenewError
    <2>2. worker'[w].cancelled
      BY <1>5 DEF RenewError, TypeOK, WorkerState
    <2> QED BY <2>1, <2>2, SilencedMaps DEF OwnerOf
  <1>6. ASSUME NEW w \in Worker, Abandon(w) \/ FinalizeError(w) \/ Stop(w)
        PROVE  [Tasks!Next]_Tasks!vars
    BY <1>6, LeaveMaps DEF Abandon, FinalizeError, Stop
  <1>7. ASSUME Tick PROVE UNCHANGED Tasks!vars
    <2>1. worker' = worker
      BY <1>7 DEF Tick
    <2> QED BY <1>7, <2>1, TickRow, InvisibleMaps
  <1>8. ASSUME UNCHANGED vars PROVE UNCHANGED Tasks!vars
    BY <1>8, InvisibleMaps DEF vars
  <1> QED BY <1>1, <1>2, <1>3, <1>4, <1>5, <1>6, <1>7, <1>8, ReturnMaps, FinalizeMaps DEF Next

\* The empty table is the lifecycle's initial state.
LEMMA InitMaps == Init => Tasks!Init
  <1> SUFFICES ASSUME Init PROVE Tasks!Init
    OBVIOUS
  <1>1. \A j \in JobId : row[j].status = "absent" /\ row[j].attempts = 0
    BY DEF Init
  <1>2. \A j \in JobId : VerdictOn(j) = "none"
    <2>1. \A j \in JobId, w \in Worker : ~OwnerOf(w, j)
      BY DEF Init, Idle, OwnerOf, Owns
    <2> QED BY <2>1, NoVerdict
  <1> QED BY <1>1, <1>2, FateOf DEF Tasks!Init

\* Every behaviour of the queue and its workers, with any number of workers,
\* lost leases, stalls and stops, is a behaviour of the task lifecycle: a
\* task is settled by the verdict of its latest try alone, given up only when
\* its tries are used up or nobody can run it, and never touched again.
THEOREM QueueKeepsItsPromise == Spec => KeepsItsPromise
  <1>1. Init => NeverCancelled /\ Untried
    BY DEF Init, Idle, NeverCancelled, Untried
  <1>2. QueueInv /\ NeverCancelled /\ Untried /\ [Next]_vars => NeverCancelled' /\ Untried'
    BY NeverCancelledNext, UntriedNext DEF QueueInv
  <1>3. QueueInv /\ QueueInv' /\ NeverCancelled /\ Untried /\ [Next]_vars
        => [Tasks!Next]_Tasks!vars
    BY NextMaps DEF QueueInv
  <1> QED BY <1>1, <1>2, <1>3, InitMaps, QueueInvHolds, PTL
          DEF Spec, KeepsItsPromise, Tasks!Spec
=============================================================================
