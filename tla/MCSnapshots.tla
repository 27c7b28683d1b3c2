---------------------------- MODULE MCSnapshots ----------------------------
(* Small instances of Snapshots for TLC. *)
EXTENDS Snapshots
CONSTANTS s1, s2, r1, r2, b1, b2
MCAsset        == {1, 2}
OneBookmark    == [a \in MCAsset |-> b1]
DistinctNames  == [a \in MCAsset |-> a]
\* Two assets of one page, created in the same second.
SameNames      == [a \in MCAsset |-> 1]
MCRetryDelay   == <<1, 2, 2>>
=============================================================================
