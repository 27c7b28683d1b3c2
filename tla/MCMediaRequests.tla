--------------------------- MODULE MCMediaRequests ---------------------------
(***************************************************************************)
(* Two bookmarks of one host and requests of several steps.  A behaviour   *)
(* has either a worker at its jobs, each of which waits once; or such a    *)
(* worker, deletions and an administrator's form of a bookmark, and no     *)
(* faults; or an import whose jobs wait.                                   *)
(***************************************************************************)
EXTENDS MediaFiles, TLC
CONSTANTS b1, b2, u1, u2, h1
VARIABLE part

SameNorm == [u \in {u1, u2} |-> u]
OneHost == [u \in {u1, u2} |-> h1]
\* Nothing tells one bookmark with its URL from the other.
URLOf(b) == IF b = b1 THEN u1 ELSE u2
Swap == {p @@ (u1 :> URLOf(p[b1])) @@ (u2 :> URLOf(p[b2])) : p \in Permutations({b1, b2})}
TwoURLsOf == [b \in {b1, b2} |-> {URLOf(b)}]
Images == {{}, {"favicon", "preview"}}

Waiting == \A j \in DOMAIN queued :
  queued'[j] > queued[j] => queued'[j] + Cardinality(Held(j)') < Copies
\* What administrators' forms leave without jobs is in the import's part.
OwnersOnly ==
  /\ request' = request => enabled' = enabled
  /\ \A b \in Bookmark, k \in enabled : row[b] = Unborn /\ row'[b] # Unborn => queued'[b, k] = 1
Working ==
  /\ \A r \in Importer \cup Admin : request'[r] = Idle
  /\ OwnersOnly /\ Waiting
Showing ==
  /\ \A r \in Request \cup Importer : request'[r].at \in {"idle", "removing"}
  /\ faults' = 0
  /\ OwnersOnly /\ Waiting
\* Requests of one step leave room for a job of each loop; favicons are refreshed
\* beside workers only.
Importing ==
  /\ \A w \in Worker : run'[w] = Idle
  /\ \A a \in Admin : request'[a] = Idle
  /\ \A r \in Request : request'[r].at = "queueing" => request'[r].kinds # {}
  /\ \A j \in DOMAIN queued : queued'[j] >= queued[j]
  /\ request' = request => \A j \in DOMAIN queued : queued'[j] > queued[j] => queued[j] = 0

PartInit == Init /\ part \in {"worker", "page", "import"}
PartNext ==
  /\ Next /\ UNCHANGED part
  /\ \/ part = "worker" /\ Working
     \/ part = "page" /\ Showing
     \/ part = "import" /\ Importing
PartSpec == PartInit /\ [][PartNext]_<<part, vars>>

\* No guard and neither property of this run tells what is excused.
View == <<part, row, enabled, files, queued, run, request, asked, missed, faults, excused = {}>>
==============================================================================
