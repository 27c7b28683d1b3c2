---------------------------- MODULE MCMediaFiles ----------------------------
(***************************************************************************)
(* One bookmark with URLs of two hosts.  A behaviour has either two         *)
(* workers at its jobs, and a fault, or one worker, jobs that wait once,    *)
(* and an import and an administrator's form that rewrite the bookmark.     *)
(* The profile stays as it is, no import queues jobs, and nothing is        *)
(* missed.                                                                  *)
(***************************************************************************)
EXTENDS MediaFiles
CONSTANTS b1, u1, u2, h1, h2, w2, i1
VARIABLE part

MCHostOf == [u \in {u1, u2} |-> IF u = u2 THEN h2 ELSE h1]
\* As of a page with and without a slash at the end: an import takes one for
\* the other.
MCNormOf == [u \in {u1, u2} |-> u1]
OneURLsOf == [b \in {b1} |-> {u1, u2}]
OneAtATime == {{}, {"favicon"}, {"preview"}, {"archive"}}

Working == request' = request
Rewriting ==
  /\ run'[w2] = Idle /\ request'[i1].at \in {"idle", "importing"} /\ faults' = 0
  /\ \A j \in DOMAIN queued :
       queued'[j] > queued[j] => queued'[j] + Cardinality(Held(j)') < Copies

PartInit == Init /\ part \in {"workers", "rewrites"}
PartNext ==
  /\ Next /\ enabled' = enabled /\ missed' = missed /\ part' = part
  /\ \/ part = "workers" /\ Working
     \/ part = "rewrites" /\ Rewriting
PartSpec == PartInit /\ [][PartNext]_<<part, vars>>

\* No guard and not the property of this run tells what was asked or is on disk.
View == <<part, row, enabled, queued, run, request, excused, faults, asked = {}, files = {}>>
=============================================================================
