------------------------------ MODULE Bundles ------------------------------
(***************************************************************************)
(* Bundles: saved searches that each owner keeps in an order of his own      *)
(* (internal/httpserver/bundles_api.go, bundles_ui.go, admin_bundle.go).     *)
(*                                                                           *)
(* Creations, moves and deletions are transactions, which SQLite runs one    *)
(* at a time, so each is one step.  Edits are not: a request reads the row,  *)
(* and later writes all of it back, its order included.  Names, searches     *)
(* and filters are left out; what is kept of a row is its owner and order.   *)
(***************************************************************************)
EXTENDS Integers, FiniteSets, FiniteSetsExt

CONSTANTS
  Owner,
  Request,      \* concurrent edits and deletions
  Orders,       \* the orders that a request may name
  Positions,    \* the positions a bundle may be moved to, in or out of range
  MaxBundles    \* bound: bundles ever created

BundlesAssumption ==
  /\ IsFiniteSet(Owner) /\ Orders \subseteq Int /\ Positions \subseteq Int
  /\ MaxBundles \in Nat

VARIABLES
  bundle,   \* bookmarks_bookmarkbundle, a function of the ids in use
  last,     \* the last id given out
  call,     \* what each request has read
  given     \* history: bundles whose order is a request's, not a renumbering's

vars == <<bundle, last, call, given>>

NoCall == [id |-> 0]
Read == [id : 1..MaxBundles, order : Int, owner : Owner]

Init ==
  /\ bundle = <<>> /\ last = 0
  /\ call = [r \in Request |-> NoCall]
  /\ given = {}

-----------------------------------------------------------------------------
Of(o) == {b \in DOMAIN bundle : bundle[b].owner = o}

\* ORDER BY "order", id
Before(a, b) ==
  \/ bundle[a].order < bundle[b].order
  \/ bundle[a].order = bundle[b].order /\ a < b

\* The index of b in the list of the bundles bs.
Rank(bs, b) == Cardinality({a \in bs : Before(a, b)})

\* The bundles that place numbers get those orders, the others keep theirs.
Renumbered(kept, place) ==
  [b \in kept |-> IF b \in DOMAIN place THEN [bundle[b] EXCEPT !.order = place[b]]
                                         ELSE bundle[b]]

NextOrder(o) == IF Of(o) = {} THEN 0 ELSE Max({bundle[b].order : b \in Of(o)}) + 1

Add(o, order, isGiven) ==
  /\ last < MaxBundles
  /\ last' = last + 1
  /\ bundle' = [b \in DOMAIN bundle \cup {last + 1} |->
                  IF b = last + 1 THEN [owner |-> o, order |-> order] ELSE bundle[b]]
  /\ given' = IF isGiven THEN given \cup {last + 1} ELSE given
  /\ UNCHANGED call

\* createBundle, from the API or the form: last, or where the input says.
\* Mutant: the number of bundles for the last order plus one.
CreateByCount(o) == Add(o, Cardinality(Of(o)), FALSE)
Create(o) == Add(o, NextOrder(o), FALSE)
CreateAt(o) == \E order \in Orders : Add(o, order, TRUE)

\* moveBundleUI: b is taken out of the list, the position is brought into its
\* range, and b is put back there.
Moves(b, position, limit) ==
  LET o == bundle[b].owner
      others == Of(o) \ {b}
      at == IF position < 0 THEN 0 ELSE IF position > limit THEN limit ELSE position
  IN
  /\ bundle' = Renumbered(DOMAIN bundle,
                 [c \in Of(o) |-> IF c = b THEN at
                                  ELSE IF Rank(others, c) < at THEN Rank(others, c)
                                  ELSE Rank(others, c) + 1])
  /\ given' = given \ Of(o)
  /\ UNCHANGED <<last, call>>
\* Mutant: the range of the list that still has b in it.
MovePastEnd(b, position) == Moves(b, position, Cardinality(Of(bundle[b].owner)))
Move(b, position) == Moves(b, position, Cardinality(Of(bundle[b].owner)) - 1)

-----------------------------------------------------------------------------
\* getBundle at the start of an edit or a deletion; the admin form reads any owner's.
ReadBundle(r, b) ==
  /\ call[r] = NoCall
  /\ call' = [call EXCEPT ![r] = [id |-> b, order |-> bundle[b].order, owner |-> bundle[b].owner]]
  /\ UNCHANGED <<bundle, last, given>>

\* Mutant: the row is written back whether it is there or not (an upsert).
WriteBackAnyway(r, o, order, isGiven, finds) ==
  LET b == call[r].id IN
  /\ call[r] # NoCall
  /\ call' = [call EXCEPT ![r] = NoCall]
  /\ bundle' = IF b \in DOMAIN bundle THEN [bundle EXCEPT ![b] = [owner |-> o, order |-> order]]
                                      ELSE bundle
  /\ given' = IF isGiven THEN given \cup {b} ELSE given
  /\ UNCHANGED last
\* A whole row is written back; nothing happens if it is gone, or if it is
\* another owner's by then.
WriteBack(r, o, order, isGiven, finds) ==
  LET b == call[r].id
      found == b \in DOMAIN bundle /\ finds
  IN
  /\ call[r] # NoCall
  /\ call' = [call EXCEPT ![r] = NoCall]
  /\ bundle' = IF found THEN [bundle EXCEPT ![b] = [owner |-> o, order |-> order]] ELSE bundle
  /\ given' = IF found /\ isGiven THEN given \cup {b} ELSE given
  /\ UNCHANGED last

\* The order that was read may be stale: then it is as if the request named it.
Stale(r) == call[r].id \in DOMAIN bundle /\ bundle[call[r].id].order # call[r].order
StillHis(r) == call[r].id \in DOMAIN bundle /\ bundle[call[r].id].owner = call[r].owner

\* updateBundle, with or without an order in the input.
Update(r) == call[r] # NoCall /\ WriteBack(r, call[r].owner, call[r].order, Stale(r), StillHis(r))
UpdateOrder(r) ==
  \E order \in Orders :
    call[r] # NoCall /\ WriteBack(r, call[r].owner, order, TRUE, StillHis(r))

\* deleteBundle: the rest of the list is numbered from 0, even if the bundle is
\* gone or another owner's by then.
Delete(r) ==
  LET o == call[r].owner
      doomed == IF StillHis(r) THEN {call[r].id} ELSE {}
  IN
  /\ call[r] # NoCall
  /\ call' = [call EXCEPT ![r] = NoCall]
  /\ bundle' = Renumbered(DOMAIN bundle \ doomed,
                          [c \in Of(o) \ doomed |-> Rank(Of(o) \ doomed, c)])
  /\ given' = given \ Of(o)
  /\ UNCHANGED last

\* serveAdminBundle: any owner and any order; a deletion leaves a gap.
AdminChange(r) ==
  \E o \in Owner, order \in Orders : call[r] # NoCall /\ WriteBack(r, o, order, TRUE, TRUE)
AdminDelete(b) ==
  /\ bundle' = [c \in DOMAIN bundle \ {b} |-> bundle[c]]
  /\ given' = given \ {b}
  /\ UNCHANGED <<last, call>>

Next ==
  \/ \E o \in Owner : Create(o) \/ CreateAt(o)
  \/ \E b \in DOMAIN bundle : AdminDelete(b)
  \/ \E b \in DOMAIN bundle, p \in Positions : Move(b, p)
  \/ \E r \in Request, b \in DOMAIN bundle : ReadBundle(r, b)
  \/ \E r \in Request : Update(r) \/ UpdateOrder(r) \/ Delete(r) \/ AdminChange(r)

Spec == Init /\ [][Next]_vars

-----------------------------------------------------------------------------
\* The rows, what the requests have read of them, and the history.
TypeOK ==
  /\ last \in 0..MaxBundles
  /\ DOMAIN bundle \subseteq 1..last
  /\ \A b \in DOMAIN bundle : bundle[b] \in [owner : Owner, order : Int]
  /\ call \in [Request -> Read \cup {NoCall}]
  /\ given \subseteq DOMAIN bundle

\* Two bundles of an owner share a place only if a request put one of them
\* there by number, or wrote back the order it had read before a move; what
\* creation, moves and deletions number never collides, not even behind the
\* gaps that a deletion in the admin leaves (bundles_api.go createBundle,
\* MAX + 1; deleteBundle; bundles_ui.go moveBundleUI).
PlacesDistinct ==
  \A a, b \in DOMAIN bundle :
    a # b /\ bundle[a].owner = bundle[b].owner /\ bundle[a].order = bundle[b].order
      => a \in given \/ b \in given

\* A move numbers the owner's whole list from 0, without a gap, whatever
\* position it names; the others keep their order among themselves, and no
\* other owner's list changes (moveBundleUI).
MoveStep ==
  \A b \in DOMAIN bundle, p \in Positions :
    Move(b, p) =>
      LET o == bundle[b].owner
          others == Of(o) \ {b}
      IN
      /\ {bundle'[c].order : c \in Of(o)} = 0..(Cardinality(Of(o)) - 1)
      /\ \A c, d \in others : Before(c, d) => bundle'[c].order < bundle'[d].order
      /\ \A c \in DOMAIN bundle \ Of(o) : bundle'[c] = bundle[c]
MovePlaces == [][MoveStep]_vars
=============================================================================
