--------------------------- MODULE TaskLifecycle ---------------------------
(***************************************************************************)
(* What the job queue promises its users, without leases, tokens, clocks or *)
(* workers: a submitted task is tried any number of times; while it is      *)
(* being tried only the latest try has a verdict, and only that verdict     *)
(* settles the task.  A success completes it; an error gives it up once     *)
(* Limit tries were made and lets it wait otherwise; a task nobody can run  *)
(* is given up at once.  Settled tasks stay settled.                        *)
(***************************************************************************)
EXTENDS Integers

CONSTANTS Task, Limit

VARIABLES
  fate,      \* what became of each task
  tries,     \* how often each task was tried
  verdict    \* what the latest try had to say so far

vars == <<fate, tries, verdict>>

Fate    == {"unknown", "waiting", "trying", "done", "given up"}
Verdict == {"none", "success", "error", "no handler"}

Init ==
  /\ fate = [t \in Task |-> "unknown"]
  /\ tries = [t \in Task |-> 0]
  /\ verdict = [t \in Task |-> "none"]

Submit(t) ==
  /\ fate[t] = "unknown"
  /\ fate' = [fate EXCEPT ![t] = "waiting"]
  /\ UNCHANGED <<tries, verdict>>

\* A first try, a retry, or a try that displaces an earlier one which is
\* thereby silenced.
Try(t) ==
  /\ fate[t] \in {"waiting", "trying"}
  /\ fate' = [fate EXCEPT ![t] = "trying"]
  /\ tries' = [tries EXCEPT ![t] = @ + 1]
  /\ \E v \in {"none", "no handler"} : verdict' = [verdict EXCEPT ![t] = v]

Answer(t) ==
  /\ fate[t] = "trying" /\ verdict[t] = "none"
  /\ \E v \in {"success", "error"} : verdict' = [verdict EXCEPT ![t] = v]
  /\ UNCHANGED <<fate, tries>>

\* The try is lost with its verdict; the task goes on being tried.
Lose(t) ==
  /\ fate[t] = "trying"
  /\ verdict' = [verdict EXCEPT ![t] = "none"]
  /\ UNCHANGED <<fate, tries>>

Settled(t) ==
  CASE verdict[t] = "success"    -> "done"
    [] verdict[t] = "no handler" -> "given up"
    [] verdict[t] = "error"      -> IF tries[t] >= Limit THEN "given up" ELSE "waiting"

Settle(t) ==
  /\ fate[t] = "trying" /\ verdict[t] # "none"
  /\ fate' = [fate EXCEPT ![t] = Settled(t)]
  /\ verdict' = [verdict EXCEPT ![t] = "none"]
  /\ UNCHANGED tries

Next == \E t \in Task : Submit(t) \/ Try(t) \/ Answer(t) \/ Lose(t) \/ Settle(t)

Spec == Init /\ [][Next]_vars
=============================================================================
