----------------------------- MODULE Parts_proofs -----------------------------
(***************************************************************************)
(* Proofs about five of the parts of Server, for all values of their        *)
(* constants: Bundles, for all owners, orders, positions and numbers of     *)
(* bundles; Lists, for all users, rows, profiles and readers, any size of a *)
(* page and any number of changes under the reader; Import, for all files,  *)
(* any number of imports next to each other and all changes by other        *)
(* requests; Backup, for all items and folders; and MetadataCache, for any  *)
(* number of pages and callers and every limit.                             *)
(***************************************************************************)
EXTENDS Server, Sequences, FiniteSetTheorems, FunctionTheorems, WellFoundedInduction, TLAPS

-----------------------------------------------------------------------------
(* Bundles. *)

\* Bundles means the sizes of sets that this module means.
LEMMA SizesOfBundles ==
  /\ \A S : B!Cardinality(S) = Cardinality(S)
  /\ \A S : B!IsFiniteSet(S) <=> IsFiniteSet(S)
BY DEF B!Cardinality, Cardinality, B!IsFiniteSet, IsFiniteSet

\* A finite set of integers has a greatest element, and Max is one: an element
\* with the fewest others above it has none above it.
LEMMA MaxOfBundles ==
  ASSUME NEW S \in SUBSET Int, IsFiniteSet(S), S # {}
  PROVE  B!Max(S) \in S /\ \A y \in S : B!Max(S) >= y
  <1> DEFINE Above(x) == {y \in S : y > x}
             T == {Cardinality(Above(x)) : x \in S}
  <1>1. \A x \in S : IsFiniteSet(Above(x)) /\ Cardinality(Above(x)) \in Nat
    BY FS_Subset, FS_CardinalityType
  <1>2. T \subseteq Nat /\ T # {}
    BY <1>1
  <1>3. PICK n \in T : \A m \in T : ~(<<m, n>> \in OpToRel(<, Nat))
    <2> HIDE DEF T
    <2> QED BY <1>2, NatLessThanWellFounded, WFMin
  <1>4. \A m \in T : ~(m < n)
    BY <1>2, <1>3 DEF OpToRel
  <1>5. PICK x \in S : n = Cardinality(Above(x))
    BY <1>3
  <1>6. \A y \in S : x >= y
    <2> SUFFICES ASSUME NEW y \in S, y > x PROVE FALSE
      OBVIOUS
    <2>1. \A z \in Above(y) : z \in S /\ z > y /\ z > x
      OBVIOUS
    <2>2. y \in Above(x) /\ y \notin Above(y)
      OBVIOUS
    <2>3. Above(y) \in SUBSET Above(x)
      BY <2>1
    <2>4. Cardinality(Above(y)) < Cardinality(Above(x))
      <3> HIDE DEF Above
      <3> QED BY <1>1, <2>2, <2>3, FS_Subset
    <2> QED BY <1>4, <1>5, <2>4
  <1> QED BY <1>6 DEF B!Max

\* An owner's bundles, and any part of them, are finitely many.
LEMMA FinitelyMany ==
  ASSUME B!BundlesAssumption, B!TypeOK, NEW bs \in SUBSET DOMAIN bundle
  PROVE  IsFiniteSet(bs) /\ Cardinality(bs) \in Nat
  <1>1. lastBundle \in Int /\ 1..lastBundle \subseteq Int
    BY DEF B!TypeOK, B!BundlesAssumption
  <1>2. IsFiniteSet(1..lastBundle)
    BY <1>1, FS_Interval
  <1>3. bs \in SUBSET (1..lastBundle)
    BY DEF B!TypeOK
  <1> QED BY <1>2, <1>3, FS_Subset, FS_CardinalityType

\* The order of the rows, ties broken by id, is strict and total.
LEMMA BeforeIsTotal ==
  ASSUME B!TypeOK, B!BundlesAssumption, NEW a \in DOMAIN bundle, NEW b \in DOMAIN bundle
  PROVE  /\ ~B!Before(a, a)
         /\ a # b => B!Before(a, b) \/ B!Before(b, a)
         /\ \A c \in DOMAIN bundle : B!Before(a, b) /\ B!Before(b, c) => B!Before(a, c)
  <1>1. \A c \in DOMAIN bundle : c \in Int /\ bundle[c].order \in Int
    BY DEF B!TypeOK, B!BundlesAssumption
  <1> QED BY <1>1 DEF B!Before

\* A rank counts the bundles before, so it is below their number, and ranks
\* rise strictly along the order.
LEMMA RanksRise ==
  ASSUME B!BundlesAssumption, B!TypeOK, NEW bs \in SUBSET DOMAIN bundle, NEW c \in bs
  PROVE  /\ B!Rank(bs, c) \in 0..(Cardinality(bs) - 1)
         /\ \A d \in bs : B!Before(c, d) => B!Rank(bs, c) < B!Rank(bs, d)
  <1> DEFINE Earlier(x) == {a \in bs : B!Before(a, x)}
  <1>1. \A x \in bs : /\ Earlier(x) \in SUBSET bs
                      /\ IsFiniteSet(Earlier(x)) /\ Cardinality(Earlier(x)) \in Nat
    <2>1. \A x \in bs : Earlier(x) \in SUBSET DOMAIN bundle /\ Earlier(x) \in SUBSET bs
      OBVIOUS
    <2> QED BY <2>1, FinitelyMany
  <1>2. \A x \in bs : x \notin Earlier(x)
    BY BeforeIsTotal
  <1>3. \A x \in bs : B!Rank(bs, x) = Cardinality(Earlier(x))
    BY SizesOfBundles DEF B!Rank
  <1>4. IsFiniteSet(bs) /\ Cardinality(bs) \in Nat
    BY FinitelyMany
  <1>5. Cardinality(Earlier(c)) < Cardinality(bs)
    <2> HIDE DEF Earlier
    <2> QED BY <1>1, <1>2, <1>4, FS_Subset
  <1>6. ASSUME NEW d \in bs, B!Before(c, d) PROVE Cardinality(Earlier(c)) < Cardinality(Earlier(d))
    <2>1. \A x \in Earlier(c) : x \in bs /\ B!Before(x, d)
      BY <1>6, BeforeIsTotal
    <2>2. c \in Earlier(d) /\ c \notin Earlier(c) /\ Earlier(c) \in SUBSET Earlier(d)
      BY <1>2, <1>6, <2>1
    <2> HIDE DEF Earlier
    <2> QED BY <1>1, <2>2, FS_Subset
  <1> HIDE DEF Earlier
  <1> QED BY <1>1, <1>3, <1>4, <1>5, <1>6

\* Two bundles of a list never have one rank.
LEMMA RanksDiffer ==
  ASSUME B!BundlesAssumption, B!TypeOK, NEW bs \in SUBSET DOMAIN bundle,
         NEW c \in bs, NEW d \in bs, c # d
  PROVE  B!Rank(bs, c) # B!Rank(bs, d)
  <1>1. B!Rank(bs, c) \in Int /\ B!Rank(bs, d) \in Int
    BY RanksRise, FinitelyMany
  <1>2. B!Before(c, d) \/ B!Before(d, c)
    BY BeforeIsTotal
  <1> QED BY <1>1, <1>2, RanksRise

\* The order that a creation appends with is above all that the owner has.
LEMMA NextOrderIsLast ==
  ASSUME B!BundlesAssumption, B!TypeOK, NEW o \in Owner
  PROVE  /\ B!NextOrder(o) \in Int
         /\ \A b \in B!Of(o) : bundle[b].order < B!NextOrder(o)
  <1> DEFINE orders == {bundle[b].order : b \in B!Of(o)}
             f == [b \in B!Of(o) |-> bundle[b].order]
  <1>1. B!Of(o) \in SUBSET DOMAIN bundle
    BY DEF B!Of
  <1>2. IsFiniteSet(B!Of(o))
    BY <1>1, FinitelyMany
  <1>3. f \in Surjection(B!Of(o), orders)
    BY Fun_IsSurj
  <1>4. IsFiniteSet(orders)
    <2> HIDE DEF orders, f
    <2> QED BY <1>2, <1>3, FS_Surjection
  <1>5. orders \in SUBSET Int
    BY <1>1 DEF B!TypeOK
  <1>6. CASE B!Of(o) = {}
    BY <1>6 DEF B!NextOrder
  <1>7. CASE B!Of(o) # {}
    <2>1. orders # {}
      BY <1>7
    <2>2. B!Max(orders) \in Int /\ \A n \in orders : B!Max(orders) >= n
      <3> HIDE DEF orders
      <3> QED BY <1>4, <1>5, <2>1, MaxOfBundles
    <2>3. B!NextOrder(o) = B!Max(orders) + 1
      BY <1>7 DEF B!NextOrder
    <2>4. \A b \in B!Of(o) : bundle[b].order \in Int /\ B!Max(orders) >= bundle[b].order
      <3>1. \A b \in B!Of(o) : bundle[b].order \in orders
        OBVIOUS
      <3> HIDE DEF orders
      <3> QED BY <1>5, <2>2, <3>1
    <2> HIDE DEF orders
    <2> QED BY <2>2, <2>3, <2>4
  <1> QED BY <1>6, <1>7

-----------------------------------------------------------------------------
\* The place that a move gives to each bundle of the list.
Placed(b, at, c) ==
  LET others == B!Of(bundle[b].owner) \ {b} IN
  IF c = b THEN at ELSE IF B!Rank(others, c) < at THEN B!Rank(others, c) ELSE B!Rank(others, c) + 1

\* The position that a move brings into range.
Brought(b, position) ==
  LET limit == Cardinality(B!Of(bundle[b].owner)) - 1 IN
  IF position < 0 THEN 0 ELSE IF position > limit THEN limit ELSE position

\* A move gives each bundle of the list a place of its own within the list,
\* and the others keep their order among themselves.
LEMMA MovePlacesEach ==
  ASSUME B!BundlesAssumption, B!TypeOK, NEW b \in DOMAIN bundle, NEW p \in Positions
  PROVE  LET list == B!Of(bundle[b].owner)  at == Brought(b, p) IN
         /\ \A c \in list : Placed(b, at, c) \in 0..(Cardinality(list) - 1)
         /\ \A c, d \in list : c # d => Placed(b, at, c) # Placed(b, at, d)
         /\ \A c, d \in list \ {b} : B!Before(c, d) => Placed(b, at, c) < Placed(b, at, d)
  <1> DEFINE list == B!Of(bundle[b].owner)  others == list \ {b}  n == Cardinality(list)
             at == Brought(b, p)
  <1>1. b \in list /\ list \in SUBSET DOMAIN bundle /\ others \in SUBSET DOMAIN bundle
    BY DEF B!Of
  <1>2. IsFiniteSet(list) /\ n \in Nat
    BY <1>1, FinitelyMany
  <1>3. Cardinality(others) = n - 1 /\ Cardinality(others) \in Nat
    BY <1>1, <1>2, FS_RemoveElement, FinitelyMany
  <1>4. at \in 0..(n - 1)
    <2>1. p \in Int
      BY DEF B!BundlesAssumption
    <2> QED BY <1>2, <1>3, <2>1 DEF Brought
  <1>5. \A c \in others : B!Rank(others, c) \in 0..(n - 2)
    <2> HIDE DEF others, n
    <2> QED BY <1>1, <1>2, <1>3, RanksRise
  <1>6. \A c, d \in others : c # d => B!Rank(others, c) # B!Rank(others, d)
    <2> HIDE DEF others
    <2> QED BY <1>1, RanksDiffer
  <1>7. \A c, d \in others : B!Before(c, d) => B!Rank(others, c) < B!Rank(others, d)
    <2> HIDE DEF others
    <2> QED BY <1>1, RanksRise
  <1>8. /\ Placed(b, at, b) = at
        /\ \A c \in others : Placed(b, at, c) = IF B!Rank(others, c) < at THEN B!Rank(others, c)
                                                ELSE B!Rank(others, c) + 1
    BY DEF Placed
  <1>9. list = others \cup {b} /\ b \notin others
    BY <1>1
  <1> HIDE DEF others, n, at
  <1>10. \A c \in list : Placed(b, at, c) \in 0..(n - 1)
    BY <1>2, <1>3, <1>4, <1>5, <1>8, <1>9
  <1>11. \A c, d \in list : c # d => Placed(b, at, c) # Placed(b, at, d)
    BY <1>2, <1>4, <1>5, <1>6, <1>8, <1>9
  <1>12. \A c, d \in others : B!Before(c, d) => Placed(b, at, c) < Placed(b, at, d)
    BY <1>2, <1>4, <1>5, <1>7, <1>8
  <1> QED BY <1>10, <1>11, <1>12 DEF others, n, at

\* What a move writes: the places, to the rows of one list.
LEMMA MoveWrites ==
  ASSUME B!TypeOK, NEW b \in DOMAIN bundle, NEW p, B!Move(b, p)
  PROVE  LET list == B!Of(bundle[b].owner) IN
         /\ DOMAIN bundle' = DOMAIN bundle
         /\ \A c \in list : bundle'[c] = [owner |-> bundle[c].owner,
                                          order |-> Placed(b, Brought(b, p), c)]
         /\ \A c \in list : /\ bundle'[c].owner = bundle[c].owner
                            /\ bundle'[c].order = Placed(b, Brought(b, p), c)
         /\ \A c \in DOMAIN bundle \ list : bundle'[c] = bundle[c]
         /\ given' = given \ list /\ lastBundle' = lastBundle /\ bundleCall' = bundleCall
  <1> DEFINE list == B!Of(bundle[b].owner)
  <1>1. /\ DOMAIN bundle' = DOMAIN bundle
        /\ \A c \in DOMAIN bundle \ list : bundle'[c] = bundle[c]
        /\ given' = given \ list /\ lastBundle' = lastBundle /\ bundleCall' = bundleCall
    BY DEF B!Move, B!Moves, B!Renumbered, B!Of
  <1>2. \A c \in list : bundle'[c] = [bundle[c] EXCEPT !.order = Placed(b, Brought(b, p), c)]
    BY SizesOfBundles DEF B!Move, B!Moves, B!Renumbered, Placed, Brought, B!Of
  <1>3. \A c \in list : bundle[c] \in [owner : Owner, order : Int]
    BY DEF B!TypeOK, B!Of
  <1>4. \A x \in [owner : Owner, order : Int] : \A n : [x EXCEPT !.order = n] = [owner |-> x.owner, order |-> n]
    OBVIOUS
  <1> HIDE DEF list
  <1>5. \A c \in list : bundle'[c] = [owner |-> bundle[c].owner, order |-> Placed(b, Brought(b, p), c)]
    BY <1>2, <1>3, <1>4
  <1>6. ASSUME NEW c \in list
        PROVE  bundle'[c].owner = bundle[c].owner /\ bundle'[c].order = Placed(b, Brought(b, p), c)
    <2> DEFINE n == Placed(b, Brought(b, p), c)
    <2>1. bundle'[c] = [owner |-> bundle[c].owner, order |-> n]
      BY <1>5, Zenon
    <2> HIDE DEF n
    <2>2. bundle'[c].owner = bundle[c].owner /\ bundle'[c].order = n
      BY <2>1
    <2> QED BY <2>2 DEF n
  <1> QED BY <1>1, <1>5, <1>6 DEF list

\* What a deletion of the bundles doomed, at most one, makes of o's list: the
\* rest are numbered by rank, and the other rows stay.
Deletes(r, o, doomed) ==
  /\ doomed \subseteq B!Of(o)
  /\ DOMAIN bundle' = DOMAIN bundle \ doomed
  /\ \A c \in B!Of(o) \ doomed :
       /\ bundle'[c] = [owner |-> bundle[c].owner, order |-> B!Rank(B!Of(o) \ doomed, c)]
       /\ bundle'[c].owner = bundle[c].owner
       /\ bundle'[c].order = B!Rank(B!Of(o) \ doomed, c)
  /\ \A c \in DOMAIN bundle \ B!Of(o) : bundle'[c] = bundle[c]
  /\ given' = given \ B!Of(o) /\ lastBundle' = lastBundle
  /\ bundleCall' = [bundleCall EXCEPT ![r] = B!NoCall]

\* A deletion takes a set of bundles and numbers the rest of the list.
LEMMA DeleteWrites ==
  ASSUME B!BundlesAssumption, B!TypeOK, NEW r \in Editor, B!Delete(r)
  PROVE  \E o \in Owner, doomed \in SUBSET DOMAIN bundle : Deletes(r, o, doomed)
  <1> DEFINE o == bundleCall[r].owner
             doomed == IF B!StillHis(r) THEN {bundleCall[r].id} ELSE {}
  <1>1. bundleCall[r] \in B!Read
    BY DEF B!Delete, B!TypeOK
  <1>2. o \in Owner
    BY <1>1 DEF B!Read
  <1>3. doomed \subseteq B!Of(o) /\ doomed \in SUBSET DOMAIN bundle
    BY DEF B!StillHis, B!Of
  <1>4. DOMAIN bundle' = DOMAIN bundle \ doomed
    BY DEF B!Delete, B!Renumbered
  <1>5. \A c \in B!Of(o) \ doomed :
          bundle'[c] = [owner |-> bundle[c].owner, order |-> B!Rank(B!Of(o) \ doomed, c)]
    <2>1. \A c \in B!Of(o) \ doomed :
            bundle'[c] = [bundle[c] EXCEPT !.order = B!Rank(B!Of(o) \ doomed, c)]
      BY DEF B!Delete, B!Renumbered, B!Of
    <2>2. \A c \in B!Of(o) \ doomed : bundle[c] \in [owner : Owner, order : Int]
      BY DEF B!TypeOK, B!Of
    <2>3. \A x \in [owner : Owner, order : Int] : \A n :
            [x EXCEPT !.order = n] = [owner |-> x.owner, order |-> n]
      OBVIOUS
    <2> HIDE DEF o, doomed
    <2> QED BY <2>1, <2>2, <2>3
  <1>6. \A c \in DOMAIN bundle \ B!Of(o) : bundle'[c] = bundle[c]
    BY <1>3 DEF B!Delete, B!Renumbered
  <1>7. given' = given \ B!Of(o) /\ lastBundle' = lastBundle /\ bundleCall' = [bundleCall EXCEPT ![r] = B!NoCall]
    BY DEF B!Delete
  <1> HIDE DEF o, doomed
  <1>8. ASSUME NEW c \in B!Of(o) \ doomed
        PROVE  bundle'[c].owner = bundle[c].owner /\ bundle'[c].order = B!Rank(B!Of(o) \ doomed, c)
    <2> DEFINE n == B!Rank(B!Of(o) \ doomed, c)
    <2>1. bundle'[c] = [owner |-> bundle[c].owner, order |-> n]
      BY <1>5, Zenon
    <2> HIDE DEF n
    <2>2. bundle'[c].owner = bundle[c].owner /\ bundle'[c].order = n
      BY <2>1
    <2> QED BY <2>2 DEF n
  <1> QED BY <1>2, <1>3, <1>4, <1>5, <1>6, <1>7, <1>8 DEF Deletes

-----------------------------------------------------------------------------
\* A row is its owner and its order, and so is one with another order.
LEMMA RowType ==
  ASSUME B!TypeOK, NEW c \in DOMAIN bundle
  PROVE  /\ bundle[c] \in [owner : Owner, order : Int]
         /\ \A n \in Int : [owner |-> bundle[c].owner, order |-> n] \in [owner : Owner, order : Int]
  BY DEF B!TypeOK

\* Nothing is stored at first.
LEMMA BundleTypeInit == B!BundlesAssumption /\ B!Init => B!TypeOK
  BY DEF B!BundlesAssumption, B!Init, B!TypeOK

\* Every step keeps the types.
LEMMA BundleTypeNext ==
  ASSUME B!BundlesAssumption, B!TypeOK, [B!Next]_B!vars PROVE B!TypeOK'
  <1>1. \A r \in Editor : bundleCall[r] # B!NoCall => bundleCall[r] \in B!Read
    BY DEF B!TypeOK
  <1>2. ASSUME NEW o \in Owner, NEW order \in Int, NEW isGiven, B!Add(o, order, isGiven)
        PROVE  B!TypeOK'
    <2>1. lastBundle' \in 0..MaxBundles /\ lastBundle' = lastBundle + 1 /\ lastBundle \in Int
      BY <1>2 DEF B!Add, B!TypeOK, B!BundlesAssumption
    <2>2. DOMAIN bundle' \subseteq 1..lastBundle'
      BY <1>2, <2>1 DEF B!Add, B!TypeOK
    <2>3. \A b \in DOMAIN bundle' : bundle'[b] \in [owner : Owner, order : Int]
      BY <1>2 DEF B!Add, B!TypeOK
    <2> QED BY <1>2, <2>1, <2>2, <2>3 DEF B!Add, B!TypeOK
  <1>3. ASSUME NEW o \in Owner, B!Create(o) \/ B!CreateAt(o) PROVE B!TypeOK'
    BY <1>2, <1>3, NextOrderIsLast DEF B!Create, B!CreateAt, B!BundlesAssumption
  <1>4. ASSUME NEW b \in DOMAIN bundle, B!AdminDelete(b) PROVE B!TypeOK'
    BY <1>4 DEF B!AdminDelete, B!TypeOK
  <1>5. ASSUME NEW b \in DOMAIN bundle, NEW p \in Positions, B!Move(b, p) PROVE B!TypeOK'
    <2> DEFINE list == B!Of(bundle[b].owner)
    <2>1. \A c \in list : Placed(b, Brought(b, p), c) \in Int
      BY MovePlacesEach
    <2>2. /\ DOMAIN bundle' = DOMAIN bundle
          /\ \A c \in list : bundle'[c] = [owner |-> bundle[c].owner,
                                           order |-> Placed(b, Brought(b, p), c)]
          /\ \A c \in DOMAIN bundle \ list : bundle'[c] = bundle[c]
          /\ given' = given \ list /\ lastBundle' = lastBundle /\ bundleCall' = bundleCall
      BY <1>5, MoveWrites
    <2> HIDE DEF list
    <2>3. \A c \in DOMAIN bundle' : bundle'[c] \in [owner : Owner, order : Int]
      <3>1. ASSUME NEW c \in DOMAIN bundle, c \in list PROVE bundle'[c] \in [owner : Owner, order : Int]
        BY <2>1, <2>2, <3>1, RowType
      <3>2. ASSUME NEW c \in DOMAIN bundle, c \notin list PROVE bundle'[c] \in [owner : Owner, order : Int]
        BY <2>2, <3>2, RowType
      <3> QED BY <2>2, <3>1, <3>2
    <2> QED BY <2>2, <2>3 DEF B!TypeOK
  <1>6. ASSUME NEW r \in Editor, NEW b \in DOMAIN bundle, B!ReadBundle(r, b) PROVE B!TypeOK'
    <2>1. [id |-> b, order |-> bundle[b].order, owner |-> bundle[b].owner] \in B!Read
      BY DEF B!TypeOK, B!Read, B!BundlesAssumption
    <2> QED BY <1>6, <2>1 DEF B!ReadBundle, B!TypeOK
  <1>7. ASSUME NEW r \in Editor, NEW o \in Owner, NEW order \in Int,
               NEW isGiven, NEW finds, B!WriteBack(r, o, order, isGiven, finds)
        PROVE  B!TypeOK'
    BY <1>7 DEF B!WriteBack, B!TypeOK
  <1>8. ASSUME NEW r \in Editor, B!Update(r) \/ B!UpdateOrder(r) \/ B!AdminChange(r) PROVE B!TypeOK'
    <2>1. bundleCall[r] # B!NoCall
      BY <1>8 DEF B!Update, B!UpdateOrder, B!AdminChange
    <2>2. bundleCall[r].owner \in Owner /\ bundleCall[r].order \in Int
      BY <1>1, <2>1 DEF B!Read
    <2> QED BY <1>7, <1>8, <2>2 DEF B!Update, B!UpdateOrder, B!AdminChange, B!BundlesAssumption
  <1>9. ASSUME NEW r \in Editor, B!Delete(r) PROVE B!TypeOK'
    <2>1. PICK o \in Owner, doomed \in SUBSET DOMAIN bundle : Deletes(r, o, doomed)
      BY <1>9, DeleteWrites
    <2>2. B!Of(o) \ doomed \in SUBSET DOMAIN bundle
      BY DEF B!Of
    <2>3. \A c \in B!Of(o) \ doomed : B!Rank(B!Of(o) \ doomed, c) \in Int
      <3> DEFINE rest == B!Of(o) \ doomed
      <3> HIDE DEF rest
      <3>1. rest \in SUBSET DOMAIN bundle
        BY <2>2 DEF rest
      <3>2. \A c \in rest : B!Rank(rest, c) \in 0..(Cardinality(rest) - 1)
        BY <3>1, RanksRise
      <3> QED BY <3>2 DEF rest
    <2>4. \A c \in DOMAIN bundle' : bundle'[c] \in [owner : Owner, order : Int]
      <3>1. DOMAIN bundle' = DOMAIN bundle \ doomed
        BY <2>1 DEF Deletes
      <3>2. ASSUME NEW c \in DOMAIN bundle \ doomed, c \in B!Of(o)
            PROVE  bundle'[c] \in [owner : Owner, order : Int]
        <4>1. bundle'[c] = [owner |-> bundle[c].owner, order |-> B!Rank(B!Of(o) \ doomed, c)]
          BY <2>1, <3>2 DEF Deletes
        <4>2. B!Rank(B!Of(o) \ doomed, c) \in Int
          BY <2>3, <3>2
        <4> QED BY <4>1, <4>2, RowType
      <3>3. ASSUME NEW c \in DOMAIN bundle \ doomed, c \notin B!Of(o)
            PROVE  bundle'[c] \in [owner : Owner, order : Int]
        <4>1. bundle'[c] = bundle[c]
          BY <2>1, <3>3 DEF Deletes
        <4> QED BY <4>1, RowType
      <3> QED BY <3>1, <3>2, <3>3
    <2>5. given' \subseteq DOMAIN bundle'
      BY <2>1 DEF B!TypeOK, Deletes
    <2> QED BY <2>1, <2>4, <2>5 DEF B!TypeOK, Deletes
  <1>10. CASE UNCHANGED B!vars
    BY <1>10 DEF B!vars, B!TypeOK
  <1> QED BY <1>3, <1>4, <1>5, <1>6, <1>8, <1>9, <1>10 DEF B!Next

-----------------------------------------------------------------------------
\* A step that renumbers one whole list without repeating a place, takes that
\* list out of the history, and leaves the other lists alone, keeps places
\* distinct.
LEMMA RenumberingKeepsPlaces ==
  ASSUME B!TypeOK, B!PlacesDistinct, NEW o,
         DOMAIN bundle' \subseteq DOMAIN bundle, given' = given \ B!Of(o),
         \A c \in DOMAIN bundle' : bundle'[c].owner = bundle[c].owner,
         \A c \in DOMAIN bundle' \ B!Of(o) : bundle'[c].order = bundle[c].order,
         \A c, d \in DOMAIN bundle' \cap B!Of(o) : c # d => bundle'[c].order # bundle'[d].order
  PROVE  B!PlacesDistinct'
  <1> SUFFICES ASSUME NEW a \in DOMAIN bundle', NEW b \in DOMAIN bundle', a # b,
                      bundle'[a].owner = bundle'[b].owner, bundle'[a].order = bundle'[b].order
               PROVE  a \in given' \/ b \in given'
    BY DEF B!PlacesDistinct
  <1>1. a \in DOMAIN bundle /\ b \in DOMAIN bundle /\ bundle[a].owner = bundle[b].owner
    OBVIOUS
  <1>2. a \in B!Of(o) <=> b \in B!Of(o)
    BY <1>1 DEF B!Of
  <1>3. a \notin B!Of(o) /\ b \notin B!Of(o)
    BY <1>2
  <1>4. bundle[a].order = bundle[b].order
    BY <1>3
  <1> QED BY <1>1, <1>3, <1>4 DEF B!PlacesDistinct

\* A write back of one row keeps them, if the row is in the history afterwards
\* or keeps its place.
LEMMA WriteBackKeepsPlaces ==
  ASSUME B!TypeOK, B!PlacesDistinct, NEW r \in Editor, NEW o, NEW order, NEW isGiven, NEW finds,
         B!WriteBack(r, o, order, isGiven, finds),
         isGiven \/ ~finds \/ bundleCall[r].id \notin DOMAIN bundle
                 \/ (bundle[bundleCall[r].id].owner = o /\ bundle[bundleCall[r].id].order = order)
  PROVE  B!PlacesDistinct'
  <1> DEFINE b == bundleCall[r].id
  <1>1. CASE b \in DOMAIN bundle /\ finds
    <2>1. /\ DOMAIN bundle' = DOMAIN bundle
          /\ bundle'[b] = [owner |-> o, order |-> order]
          /\ \A c \in DOMAIN bundle \ {b} : bundle'[c] = bundle[c]
          /\ given' = IF isGiven THEN given \cup {b} ELSE given
      BY <1>1 DEF B!WriteBack
    <2>2. CASE isGiven
      BY <2>1, <2>2 DEF B!PlacesDistinct
    <2>3. CASE ~isGiven
      <3>1. \A c \in DOMAIN bundle :
              bundle'[c].owner = bundle[c].owner /\ bundle'[c].order = bundle[c].order
        BY <1>1, <2>1, <2>3
      <3> QED BY <2>1, <2>3, <3>1 DEF B!PlacesDistinct
    <2> QED BY <2>2, <2>3
  <1>2. CASE ~(b \in DOMAIN bundle /\ finds)
    <2>1. bundle' = bundle /\ given' = given
      BY <1>2 DEF B!WriteBack
    <2> QED BY <2>1 DEF B!PlacesDistinct
  <1> QED BY <1>1, <1>2

\* Every step keeps places distinct, but for those that requests gave.
LEMMA PlacesNext ==
  ASSUME B!BundlesAssumption, B!TypeOK, B!PlacesDistinct, [B!Next]_B!vars PROVE B!PlacesDistinct'
  <1>1. ASSUME NEW o \in Owner, NEW order, NEW isGiven, B!Add(o, order, isGiven),
               isGiven \/ \A b \in B!Of(o) : bundle[b].order # order
        PROVE  B!PlacesDistinct'
    <2>1. /\ DOMAIN bundle' = DOMAIN bundle \cup {lastBundle + 1}
          /\ bundle'[lastBundle + 1] = [owner |-> o, order |-> order]
          /\ given' = IF isGiven THEN given \cup {lastBundle + 1} ELSE given
      BY <1>1 DEF B!Add
    <2>2. lastBundle + 1 \notin DOMAIN bundle
      BY DEF B!TypeOK, B!BundlesAssumption
    <2>3. \A b \in DOMAIN bundle : bundle'[b] = bundle[b]
      BY <1>1, <2>2 DEF B!Add
    <2>4. isGiven \/ \A b \in DOMAIN bundle : bundle[b].owner = o => bundle[b].order # order
      BY <1>1 DEF B!Of
    <2> QED BY <2>1, <2>2, <2>3, <2>4 DEF B!PlacesDistinct
  <1>2. ASSUME NEW o \in Owner, B!Create(o) PROVE B!PlacesDistinct'
    <2>1. \A b \in B!Of(o) : bundle[b].order \in Int /\ bundle[b].order < B!NextOrder(o)
      BY NextOrderIsLast DEF B!TypeOK, B!Of
    <2>2. B!NextOrder(o) \in Int
      BY NextOrderIsLast
    <2>3. \A b \in B!Of(o) : bundle[b].order # B!NextOrder(o)
      BY <2>1, <2>2
    <2> QED BY <1>1, <1>2, <2>3 DEF B!Create
  <1>3. ASSUME NEW o \in Owner, B!CreateAt(o) PROVE B!PlacesDistinct'
    BY <1>1, <1>3 DEF B!CreateAt
  <1>4. ASSUME NEW b \in DOMAIN bundle, B!AdminDelete(b) PROVE B!PlacesDistinct'
    BY <1>4 DEF B!AdminDelete, B!PlacesDistinct
  <1>5. ASSUME NEW b \in DOMAIN bundle, NEW p \in Positions, B!Move(b, p) PROVE B!PlacesDistinct'
    <2> DEFINE o == bundle[b].owner  at == Brought(b, p)
    <2>1. /\ DOMAIN bundle' = DOMAIN bundle
          /\ \A c \in B!Of(o) : bundle'[c].owner = bundle[c].owner /\ bundle'[c].order = Placed(b, at, c)
          /\ \A c \in DOMAIN bundle \ B!Of(o) : bundle'[c] = bundle[c]
          /\ given' = given \ B!Of(o)
      BY <1>5, MoveWrites
    <2>2. \A c, d \in B!Of(o) : c # d => Placed(b, at, c) # Placed(b, at, d)
      BY MovePlacesEach
    <2> HIDE DEF o, at
    <2>3. \A c \in DOMAIN bundle' : bundle'[c].owner = bundle[c].owner
      BY <2>1
    <2>4. \A c, d \in DOMAIN bundle' \cap B!Of(o) : c # d => bundle'[c].order # bundle'[d].order
      BY <2>1, <2>2
    <2>5. \A c \in DOMAIN bundle' \ B!Of(o) : bundle'[c].order = bundle[c].order
      BY <2>1
    <2> QED BY <2>1, <2>3, <2>4, <2>5, RenumberingKeepsPlaces
  <1>6. ASSUME NEW r \in Editor, NEW b \in DOMAIN bundle, B!ReadBundle(r, b) PROVE B!PlacesDistinct'
    BY <1>6 DEF B!ReadBundle, B!PlacesDistinct
  <1>7. ASSUME NEW r \in Editor, B!Update(r) PROVE B!PlacesDistinct'
    <2>1. \/ B!Stale(r) \/ ~B!StillHis(r) \/ bundleCall[r].id \notin DOMAIN bundle
          \/ bundle[bundleCall[r].id].owner = bundleCall[r].owner /\ bundle[bundleCall[r].id].order = bundleCall[r].order
      BY DEF B!Stale, B!StillHis
    <2> QED BY <1>7, <2>1, WriteBackKeepsPlaces DEF B!Update
  <1>8. ASSUME NEW r \in Editor, B!UpdateOrder(r) \/ B!AdminChange(r) PROVE B!PlacesDistinct'
    BY <1>8, WriteBackKeepsPlaces DEF B!UpdateOrder, B!AdminChange
  <1>9. ASSUME NEW r \in Editor, B!Delete(r) PROVE B!PlacesDistinct'
    <2>1. PICK o \in Owner, doomed \in SUBSET DOMAIN bundle : Deletes(r, o, doomed)
      BY <1>9, DeleteWrites
    <2> DEFINE rest == B!Of(o) \ doomed
    <2>2. /\ DOMAIN bundle' \subseteq DOMAIN bundle /\ given' = given \ B!Of(o)
          /\ DOMAIN bundle' \cap B!Of(o) = rest /\ rest \in SUBSET DOMAIN bundle
          /\ \A c \in rest : bundle'[c].owner = bundle[c].owner /\ bundle'[c].order = B!Rank(rest, c)
          /\ \A c \in DOMAIN bundle \ B!Of(o) : bundle'[c] = bundle[c]
      BY <2>1 DEF Deletes, B!Of
    <2> HIDE DEF rest
    <2>3. \A c, d \in rest : c # d => B!Rank(rest, c) # B!Rank(rest, d)
      BY <2>2, RanksDiffer
    <2>4. \A c \in DOMAIN bundle' : bundle'[c].owner = bundle[c].owner
      BY <2>2
    <2>5. \A c, d \in DOMAIN bundle' \cap B!Of(o) : c # d => bundle'[c].order # bundle'[d].order
      BY <2>2, <2>3
    <2>6. \A c \in DOMAIN bundle' \ B!Of(o) : bundle'[c].order = bundle[c].order
      BY <2>2
    <2> QED BY <2>2, <2>4, <2>5, <2>6, RenumberingKeepsPlaces
  <1>10. CASE UNCHANGED B!vars
    BY <1>10 DEF B!vars, B!PlacesDistinct
  <1> QED BY <1>2, <1>3, <1>4, <1>5, <1>6, <1>7, <1>8, <1>9, <1>10 DEF B!Next

-----------------------------------------------------------------------------
\* A move numbers the list from 0 without a gap: its places are as many as the
\* bundles, all different, and below their number.
LEMMA MoveFillsTheList ==
  ASSUME B!BundlesAssumption, B!TypeOK, NEW b \in DOMAIN bundle, NEW p \in Positions, B!Move(b, p)
  PROVE  LET list == B!Of(bundle[b].owner) IN
         {bundle'[c].order : c \in list} = 0..(Cardinality(list) - 1)
  <1> DEFINE list == B!Of(bundle[b].owner)  n == Cardinality(list)  at == Brought(b, p)
             f == [c \in list |-> Placed(b, at, c)]
  <1>1. list \in SUBSET DOMAIN bundle
    BY DEF B!Of
  <1>2. IsFiniteSet(list) /\ n \in Nat
    BY <1>1, FinitelyMany
  <1>3. /\ \A c \in list : Placed(b, at, c) \in 0..(n - 1)
        /\ \A c, d \in list : c # d => Placed(b, at, c) # Placed(b, at, d)
    BY MovePlacesEach
  <1>4. \A c \in list : bundle'[c].order = Placed(b, at, c)
    BY MoveWrites
  <1> HIDE DEF list, at, n
  <1>5. f \in Injection(list, 0..(n - 1))
    <2>1. f \in [list -> 0..(n - 1)]
      BY <1>3
    <2>2. \A c, d \in list : f[c] = f[d] => c = d
      BY <1>3
    <2> HIDE DEF f
    <2> QED BY <2>1, <2>2, Fun_IsInj
  <1>6. IsFiniteSet(0..(n - 1)) /\ Cardinality(0..(n - 1)) = n
    BY <1>2, FS_Interval
  <1>7. f \in Surjection(list, 0..(n - 1))
    <2> HIDE DEF f
    <2> QED BY <1>2, <1>5, <1>6, FS_Injection DEF n
  <1>8. \A t \in 0..(n - 1) : \E c \in list : f[c] = t
    <2> HIDE DEF f
    <2> DEFINE S == 0..(n - 1)
    <2>1. f \in Surjection(list, S)
      BY <1>7
    <2> HIDE DEF S
    <2>2. \A t \in S : \E c \in list : f[c] = t
      BY <2>1, Fun_SurjectionProperties
    <2> QED BY <2>2 DEF S
  <1>9. {Placed(b, at, c) : c \in list} = 0..(n - 1)
    BY <1>3, <1>8
  <1>10. {bundle'[c].order : c \in list} = 0..(n - 1)
    BY <1>4, <1>9
  <1> QED BY <1>10 DEF list, n

\* What a move does to the lists.
LEMMA MoveStepNext ==
  ASSUME B!BundlesAssumption, B!TypeOK PROVE B!MoveStep
  <1> SUFFICES ASSUME NEW b \in DOMAIN bundle, NEW p \in Positions, B!Move(b, p)
               PROVE  LET o == bundle[b].owner  others == B!Of(o) \ {b} IN
                      /\ {bundle'[c].order : c \in B!Of(o)} = 0..(Cardinality(B!Of(o)) - 1)
                      /\ \A c, d \in others : B!Before(c, d) => bundle'[c].order < bundle'[d].order
                      /\ \A c \in DOMAIN bundle \ B!Of(o) : bundle'[c] = bundle[c]
    BY SizesOfBundles DEF B!MoveStep
  <1> DEFINE o == bundle[b].owner  at == Brought(b, p)
  <1>1. {bundle'[c].order : c \in B!Of(o)} = 0..(Cardinality(B!Of(o)) - 1)
    BY MoveFillsTheList
  <1>2. /\ \A c \in B!Of(o) : bundle'[c].order = Placed(b, at, c)
        /\ \A c \in DOMAIN bundle \ B!Of(o) : bundle'[c] = bundle[c]
    BY MoveWrites
  <1>3. \A c, d \in B!Of(o) \ {b} : B!Before(c, d) => Placed(b, at, c) < Placed(b, at, d)
    BY MovePlacesEach
  <1>4. \A c, d \in B!Of(o) \ {b} : B!Before(c, d) => bundle'[c].order < bundle'[d].order
    <2> HIDE DEF o, at
    <2> QED BY <1>2, <1>3
  <1> QED BY <1>1, <1>2, <1>4

-----------------------------------------------------------------------------
\* The types hold in every reachable state.
THEOREM BundleTypesHold ==
  ASSUME B!BundlesAssumption PROVE B!Spec => []B!TypeOK
  <1>1. B!Init => B!TypeOK
    BY BundleTypeInit
  <1>2. B!TypeOK /\ [B!Next]_B!vars => B!TypeOK'
    BY BundleTypeNext
  <1> QED BY <1>1, <1>2, PTL DEF B!Spec

\* For any owners, requests and orders: two bundles of an owner share a place
\* only if a request gave one of them its place by number or wrote back a place
\* that a move had changed meanwhile (createBundle, moveBundleUI, deleteBundle).
THEOREM PlacesDistinctHolds ==
  ASSUME B!BundlesAssumption PROVE B!Spec => []B!PlacesDistinct
  <1>1. B!Init => B!PlacesDistinct
    BY DEF B!Init, B!PlacesDistinct
  <1>2. B!TypeOK /\ B!PlacesDistinct /\ [B!Next]_B!vars => B!PlacesDistinct'
    BY PlacesNext
  <1> QED BY <1>1, <1>2, BundleTypesHold, PTL DEF B!Spec

\* For any list and any position: a move numbers the owner's list from 0
\* without a gap, keeps the others in their order, and touches no other list
\* (moveBundleUI).
THEOREM MovePlacesHolds ==
  ASSUME B!BundlesAssumption PROVE B!Spec => B!MovePlaces
  <1>1. B!TypeOK => B!MoveStep
    BY MoveStepNext
  <1> QED BY <1>1, BundleTypesHold, PTL DEF B!Spec, B!MovePlaces

-----------------------------------------------------------------------------
(* Lists: what a walk from page to page has shown. *)

\* The rows of S that are not older than all of T.
From(S, T) == {j \in S : \E k \in T : Date[k] <= Date[j]}
Newer(S, i) == {j \in S : Date[j] > Date[i]}

\* The walk along the list S has shown T: none of it has left, what has stayed on the
\* list and was not shown is older than all of it, and at least n rows come before that.
Deep(S, C, n, T) ==
  /\ T \subseteq S
  /\ \A c \in C \ T : /\ \A k \in T : Date[c] < Date[k]
                      /\ Cardinality(From(S, T)) >= n
\* What has stayed and is not in T is older than as many rows as a feed has.
Full(C, T) == \A c \in C \ T : Cardinality(Newer(T, c)) >= FeedLimit

Listed == L!Selected(filter)
Unopened == pc = "form" \/ (pc = "open" /\ page = 1)

Types ==
  /\ DOMAIN row \subseteq L!Bookmark
  /\ stored \in [User -> L!Values \cup {""}] /\ guest \in Guests /\ reader \in Readers
  /\ pc \in {"form", "open", "count", "select", "load", "shown", "failed", "done"}
  /\ filter \in L!Values /\ param \in L!Values \cup {""} /\ submitted \in L!Values \cup {Null}
  /\ page \in Nat \ {0} /\ pages \in Nat /\ total \in Nat /\ pages * Limit >= total
  /\ ids \subseteq L!Bookmark /\ seen \subseteq L!Bookmark
  /\ pc \notin {"form", "open", "count"} => pages # 0
\* Before the first page nothing is seen, and no count is there yet.
Began == Unopened => page = 1 /\ seen = {} /\ ids = {}
\* What a page shows, or is about to, its reader may have seen.
Entitled ==
  /\ seen \subseteq readable /\ ids \subseteq readable
  /\ ~Unopened => L!MayRead \subseteq readable
\* Where the walk is, if the list did not move under it.
Walk ==
  ~Unopened /\ ~slipped =>
    /\ pc \notin {"failed", "done"} => constant \subseteq Listed
    /\ pc \in {"open", "count", "select"} \/ (pc = "load" /\ L!Beyond) =>
         Deep(Listed, constant, (page - 1) * Limit, seen)
    /\ pc = "select" \/ (pc = "load" /\ L!Beyond) => Cardinality(Listed) <= total
    /\ pc = "load" /\ ~L!Beyond =>
         IF L!ReadsFeed THEN Full(constant, seen \cup ids)
         ELSE /\ Deep(Listed, constant, page * Limit, seen \cup ids)
              /\ constant \ (seen \cup ids) # {} => total > page * Limit
    /\ pc = "shown" => Deep(Listed, constant, page * Limit, seen)
    /\ pc = "done" => IF L!ReadsFeed THEN Full(constant, seen) ELSE constant \subseteq seen
\* The form's value is what the page will take, or has taken.
Excepted == replaced \/ (L!Anonymous /\ guest # Null /\ submitted = L!Off)
Applies ==
  reader.kind = "page" /\ page = 1 =>
    /\ pc = "open" => L!Effective(param) = submitted \/ Excepted
    /\ pc = "count" => filter = submitted \/ Excepted
ListsInv == Types /\ Began /\ Entitled /\ Walk /\ Applies

-----------------------------------------------------------------------------
(* Parts of a list. *)

\* An instance has a Cardinality of its own, which is the same.
LEMMA SameCardinality ==
  ASSUME NEW S
  PROVE  L!Cardinality(S) = Cardinality(S)
  BY DEF L!Cardinality, Cardinality

LEMMA PartsFinite ==
  ASSUME L!ListsAssumption, NEW S \in SUBSET L!Bookmark
  PROVE  /\ IsFiniteSet(S) /\ Cardinality(S) \in Nat
         /\ \A i \in S : Date[i] \in Nat
  <1>1. IsFiniteSet(L!Bookmark)
    BY FS_Interval DEF L!Bookmark, L!ListsAssumption
  <1>2. IsFiniteSet(S)
    BY <1>1, FS_Subset
  <1>3. \A i \in S : Date[i] \in Nat
    BY DEF L!ListsAssumption
  <1> QED BY <1>2, <1>3, FS_CardinalityType

LEMMA LargerPart ==
  ASSUME L!ListsAssumption, NEW S \in SUBSET L!Bookmark, NEW R \in SUBSET S
  PROVE  /\ R \in SUBSET L!Bookmark /\ Cardinality(R) <= Cardinality(S)
         /\ R # S => Cardinality(R) < Cardinality(S)
  BY PartsFinite, FS_Subset

\* A page that tears no date: a row that comes after n others and is not on the page
\* of limit rows behind those is older than all of the page, which is full and not
\* the end of the list.
LEMMA PageIsNext ==
  ASSUME L!ListsAssumption, NEW S \in SUBSET L!Bookmark, NEW n \in Nat, NEW limit \in Nat \ {0},
         NEW P \in L!Slices(S, n, limit), ~L!Tears(S, P),
         NEW c \in S \ P, Cardinality(Newer(S, c)) >= n
  PROVE  /\ \A k \in P : Date[c] < Date[k]
         /\ Cardinality(P) = limit /\ Cardinality(S) > n + limit
         /\ \E skipped \in SUBSET (S \ P) :
              Cardinality(skipped) = n /\ \A i \in skipped, j \in P : Date[i] >= Date[j]
  <1>1. P \in SUBSET S
    BY DEF L!Slices
  <1>2. PICK skipped \in SUBSET (S \ P) :
          /\ Cardinality(skipped) = L!Smaller(n, Cardinality(S))
          /\ Cardinality(P) = L!Smaller(limit, Cardinality(S) - Cardinality(skipped))
          /\ \A i \in skipped, j \in S \ skipped : Date[i] >= Date[j]
          /\ \A i \in P, j \in S \ (skipped \cup P) : Date[i] >= Date[j]
    BY SameCardinality DEF L!Slices
  <1>3. /\ IsFiniteSet(skipped) /\ IsFiniteSet(P) /\ IsFiniteSet(S)
        /\ Cardinality(skipped) \in Nat /\ Cardinality(P) \in Nat /\ Cardinality(S) \in Nat
        /\ Cardinality(skipped \cup P) = Cardinality(skipped) + Cardinality(P)
    <2>1. skipped \in SUBSET L!Bookmark /\ P \in SUBSET L!Bookmark
      BY <1>1
    <2>2. /\ IsFiniteSet(skipped) /\ IsFiniteSet(P) /\ IsFiniteSet(S)
          /\ Cardinality(skipped) \in Nat /\ Cardinality(P) \in Nat /\ Cardinality(S) \in Nat
      BY <2>1, PartsFinite
    <2>3. skipped \cap P = {} /\ Cardinality({}) = 0
      BY FS_EmptySet
    <2>4. Cardinality(skipped \cup P) = Cardinality(skipped) + Cardinality(P) - Cardinality(skipped \cap P)
      BY <2>2, FS_Union
    <2> QED BY <2>2, <2>3, <2>4
  <1>4. \A i \in S : Date[i] \in Nat
    BY PartsFinite
  <1>5. Cardinality(skipped) <= n
    BY <1>2, <1>3 DEF L!Smaller
  <1>6. c \notin skipped
    <2> SUFFICES ASSUME c \in skipped PROVE FALSE
      OBVIOUS
    <2>1. Newer(S, c) \in SUBSET skipped /\ c \notin Newer(S, c)
      BY <1>2, <1>4 DEF Newer
    <2>2. skipped \in SUBSET L!Bookmark
      OBVIOUS
    <2>3. Cardinality(Newer(S, c)) < Cardinality(skipped)
      BY <2>1, <2>2, LargerPart
    <2>4. Newer(S, c) \in SUBSET L!Bookmark
      BY DEF Newer
    <2>5. Cardinality(Newer(S, c)) \in Nat
      BY <2>4, PartsFinite
    <2> QED BY <1>3, <1>5, <2>3, <2>5
  <1>7. Cardinality(skipped \cup P) < Cardinality(S)
    <2>1. skipped \cup P \in SUBSET S /\ skipped \cup P # S
      BY <1>1, <1>6
    <2> QED BY <2>1, LargerPart
  <1>8. Cardinality(skipped) = n /\ Cardinality(P) = limit /\ Cardinality(S) > n + limit
    <2> DEFINE s == Cardinality(S)
               k == Cardinality(skipped)
               p == Cardinality(P)
    <2>1. s \in Nat /\ k \in Nat /\ p \in Nat /\ k + p < s /\ limit \in Nat /\ limit # 0
      BY <1>3, <1>7
    <2>2. k = L!Smaller(n, s) /\ p = L!Smaller(limit, s - k)
      BY <1>2
    <2> HIDE DEF s, k, p
    <2>3. k = n /\ p = limit /\ s > n + limit
      BY <2>1, <2>2 DEF L!Smaller
    <2> QED BY <2>3 DEF s, k, p
  <1>9. \A k \in P : Date[c] < Date[k]
    <2> SUFFICES ASSUME NEW k \in P PROVE Date[c] < Date[k]
      OBVIOUS
    <2>1. Date[k] >= Date[c] /\ Date[k] # Date[c]
      BY <1>2, <1>6 DEF L!Tears
    <2> QED BY <1>1, <1>4, <2>1
  <1>10. \A i \in skipped, j \in P : Date[i] >= Date[j]
    BY <1>1, <1>2
  <1> QED BY <1>8, <1>9, <1>10

\* The next page: Deep goes on.
LEMMA PageDeepens ==
  ASSUME L!ListsAssumption, NEW S \in SUBSET L!Bookmark, NEW C \in SUBSET S, NEW n \in Nat, NEW T, Deep(S, C, n, T),
         NEW limit \in Nat \ {0}, NEW P \in L!Slices(S, n, limit), ~L!Tears(S, P)
  PROVE  /\ Deep(S, C, n + limit, T \cup P)
         /\ C \ (T \cup P) # {} => Cardinality(S) > n + limit
         /\ \A c \in C \ (T \cup P) : Cardinality(Newer(T \cup P, c)) >= limit
  <1>1. T \cup P \subseteq S /\ \A i \in S : Date[i] \in Nat
    BY PartsFinite DEF Deep, L!Slices
  <1>2. ASSUME NEW c \in C, c \notin T \cup P
        PROVE  /\ \A k \in T \cup P : Date[c] < Date[k]
               /\ Cardinality(From(S, T \cup P)) >= n + limit
               /\ Cardinality(S) > n + limit
               /\ Cardinality(Newer(T \cup P, c)) >= limit
    <2>1. c \in S \ P /\ (\A k \in T : Date[c] < Date[k]) /\ Cardinality(From(S, T)) >= n
      BY <1>2 DEF Deep
    <2>2. Cardinality(Newer(S, c)) >= n
      <3>1. From(S, T) \in SUBSET Newer(S, c)
        BY <1>1, <2>1 DEF From, Newer
      <3>2. Newer(S, c) \in SUBSET L!Bookmark /\ From(S, T) \in SUBSET L!Bookmark
        BY DEF Newer, From
      <3>3. Cardinality(From(S, T)) \in Nat /\ Cardinality(Newer(S, c)) \in Nat
        BY <3>2, PartsFinite
      <3>4. Cardinality(From(S, T)) <= Cardinality(Newer(S, c))
        BY <3>1, <3>2, LargerPart
      <3> QED BY <2>1, <3>3, <3>4
    <2>3. /\ \A k \in P : Date[c] < Date[k]
          /\ Cardinality(P) = limit /\ Cardinality(S) > n + limit
          /\ \E skipped \in SUBSET (S \ P) :
               Cardinality(skipped) = n /\ \A i \in skipped, j \in P : Date[i] >= Date[j]
      BY <2>1, <2>2, PageIsNext
    <2>4. PICK skipped \in SUBSET (S \ P) :
            Cardinality(skipped) = n /\ \A i \in skipped, j \in P : Date[i] >= Date[j]
      BY <2>3
    <2>5. skipped \in SUBSET L!Bookmark /\ P \in SUBSET L!Bookmark /\ T \cup P \in SUBSET L!Bookmark
      BY <1>1
    <2>6. P # {}
      BY <2>3, FS_EmptySet
    <2>7. Cardinality(From(S, T \cup P)) >= n + limit
      <3>1. skipped \cup P \in SUBSET From(S, T \cup P)
        <4>1. \A i \in P : i \in From(S, T \cup P)
          BY <1>1 DEF From
        <4>2. PICK k \in P : TRUE
          BY <2>6
        <4>3. \A i \in skipped : i \in S /\ Date[k] <= Date[i]
          BY <1>1, <2>4
        <4> QED BY <4>1, <4>3 DEF From
      <3>2. skipped \cap P = {} /\ Cardinality({}) = 0 /\ IsFiniteSet(skipped) /\ IsFiniteSet(P)
        BY <2>5, PartsFinite, FS_EmptySet
      <3>3. Cardinality(skipped \cup P) = Cardinality(skipped) + Cardinality(P) - Cardinality(skipped \cap P)
        BY <3>2, FS_Union
      <3>4. From(S, T \cup P) \in SUBSET L!Bookmark
        BY DEF From
      <3>5. Cardinality(From(S, T \cup P)) \in Nat /\ Cardinality(skipped \cup P) <= Cardinality(From(S, T \cup P))
        BY <3>1, <3>4, LargerPart, PartsFinite
      <3> QED BY <2>3, <2>4, <3>2, <3>3, <3>5
    <2>8. Cardinality(Newer(T \cup P, c)) >= limit
      <3>1. P \in SUBSET Newer(T \cup P, c)
        BY <1>1, <2>1, <2>3 DEF Newer
      <3>2. Newer(T \cup P, c) \in SUBSET L!Bookmark
        BY <2>5 DEF Newer
      <3>3. Cardinality(P) <= Cardinality(Newer(T \cup P, c)) /\ Cardinality(Newer(T \cup P, c)) \in Nat
        BY <3>1, <3>2, LargerPart, PartsFinite
      <3> QED BY <2>3, <3>3
    <2> QED BY <2>1, <2>3, <2>7, <2>8
  <1>3. Deep(S, C, n + limit, T \cup P)
    BY <1>1, <1>2 DEF Deep
  <1> QED BY <1>2, <1>3

\* A list that does not slip keeps the walk where it is.
LEMMA MovesKeepDeep ==
  ASSUME L!ListsAssumption, NEW S \in SUBSET L!Bookmark, NEW S2 \in SUBSET L!Bookmark, NEW C, NEW n \in Nat, NEW T,
         Deep(S, C, n, T), ~\E i \in S \ S2, j \in T : Date[j] <= Date[i]
  PROVE  Deep(S2, C \cap S2, n, T)
  <1>1. \A i \in S : Date[i] \in Nat
    BY PartsFinite
  <1>2. T \subseteq S2
    BY <1>1 DEF Deep
  <1>3. ASSUME NEW c \in C \ T, c \in S2
        PROVE  (\A k \in T : Date[c] < Date[k]) /\ Cardinality(From(S2, T)) >= n
    <2>1. From(S, T) \in SUBSET From(S2, T) /\ From(S2, T) \in SUBSET L!Bookmark
      BY DEF From
    <2>2. Cardinality(From(S, T)) <= Cardinality(From(S2, T))
      BY <2>1, LargerPart
    <2>3. From(S, T) \in SUBSET L!Bookmark
      BY <2>1
    <2>4. Cardinality(From(S, T)) \in Nat /\ Cardinality(From(S2, T)) \in Nat
      BY <2>1, <2>3, PartsFinite
    <2> QED BY <1>3, <2>2, <2>4 DEF Deep
  <1> QED BY <1>2, <1>3 DEF Deep

LEMMA LessIsDeep ==
  ASSUME L!ListsAssumption, NEW S \in SUBSET L!Bookmark, NEW C, NEW n \in Nat, NEW m \in Nat, m <= n,
         NEW T, Deep(S, C, n, T)
  PROVE  Deep(S, C, m, T)
  <1>1. From(S, T) \in SUBSET L!Bookmark
    BY DEF From
  <1>2. Cardinality(From(S, T)) \in Nat
    BY <1>1, PartsFinite
  <1> QED BY <1>2 DEF Deep

LEMMA PagesCover ==
  ASSUME NEW t \in Nat, NEW size \in Nat \ {0}
  PROVE  LET p == IF t = 0 THEN 1 ELSE (t + size - 1) \div size IN p \in Nat \ {0} /\ p * size >= t
  <1>1. CASE t = 0
    BY <1>1
  <1>2. CASE t # 0
    <2> DEFINE a == t + size - 1
    <2>1. a \in Nat /\ a >= size
      BY <1>2
    <2>2. (a \div size) * size + (a % size) = a /\ a \div size \in Nat /\ a % size \in 0..(size - 1)
      <3> HIDE DEF a
      <3> QED BY <2>1, SMTT(30)
    <2>3. (a \div size) * size >= t
      BY <2>2
    <2>4. a \div size # 0
      BY <2>1, <2>2
    <2> QED BY <1>2, <2>2, <2>3, <2>4
  <1> QED BY <1>1, <1>2

-----------------------------------------------------------------------------
(* The reader's steps. *)

LEMMA ListedIsPart ==
  ASSUME Types, NEW f
  PROVE  L!Selected(f) \in SUBSET L!Bookmark
  BY DEF Types, L!Selected

\* A list has nothing that its reader may not see.
LEMMA ListedIsReadable ==
  ASSUME L!ListsAssumption, Types, NEW f
  PROVE  L!Selected(f) \subseteq L!MayRead
  <1>1. reader.who \in User \cup {Guest} /\ reader.who # Null
    BY DEF Types, L!ListsAssumption
  <1>2. CASE L!Shared
    BY <1>2 DEF L!Selected, L!ListFilter, L!Shares, L!MayRead, L!Anonymous
  <1>3. CASE ~L!Shared
    BY <1>1, <1>3 DEF L!Selected, L!ListFilter, L!OwnerOf, L!MayRead
  <1> QED BY <1>2, <1>3

LEMMA SameList ==
  ASSUME UNCHANGED <<row, policy, reader, guest>>
  PROVE  /\ L!MayRead' = L!MayRead /\ L!Anonymous' = L!Anonymous /\ L!ReadsFeed' = L!ReadsFeed
         /\ L!ProfileOf' = L!ProfileOf
         /\ filter' = filter => Listed' = Listed
  BY DEF L!MayRead, L!Anonymous, L!ReadsFeed, L!ProfileOf, Listed, L!Selected, L!ListFilter, L!OwnerOf, L!Shared, L!Shares

LEMMA ProfileIsUser ==
  ASSUME L!ListsAssumption, Types
  PROVE  /\ L!ProfileOf \in User \cup {Null} /\ (~L!Anonymous => reader.who \in User /\ L!ProfileOf = reader.who)
         /\ (L!Anonymous => L!ProfileOf = guest)
         /\ L!Preferred \in L!Values \cup {""}
         /\ \A p \in L!Values \cup {""} : L!FilterOf(p) \in L!Values
  <1>1. L!ProfileOf \in User \cup {Null} /\ (~L!Anonymous => reader.who \in User /\ L!ProfileOf = reader.who)
        /\ (L!Anonymous => L!ProfileOf = guest)
    BY DEF L!ListsAssumption, Types, L!ProfileOf, L!Anonymous
  <1>2. L!Preferred \in L!Values \cup {""}
    BY <1>1 DEF L!Preferred, Types, L!Values
  <1>3. \A p \in L!Values \cup {""} : L!Effective(p) \in L!Values
    BY <1>2 DEF L!Effective, L!Values, L!Off
  <1> QED BY <1>1, <1>2, <1>3 DEF L!FilterOf, L!Values, L!Off

LEMMA Numbers ==
  ASSUME L!ListsAssumption, Types
  PROVE  /\ page \in Nat \ {0} /\ page - 1 \in Nat /\ Limit \in Nat \ {0} /\ total \in Nat
         /\ (page - 1) * Limit \in Nat /\ page * Limit \in Nat
         /\ (page - 1) * Limit + Limit = page * Limit /\ ((page + 1) - 1) * Limit = page * Limit
  <1>1. page \in Nat \ {0} /\ Limit \in Nat \ {0} /\ total \in Nat
    BY DEF Types, L!ListsAssumption
  <1> QED BY <1>1

LEMMA ListsInit ==
  ASSUME L!ListsAssumption, L!Init
  PROVE  ListsInv
  <1>1. Types
    <2>1. DOMAIN row \subseteq L!Bookmark
      <3>1. row \in [First -> RowKinds] /\ First \subseteq L!Bookmark
        BY DEF L!Init, L!ListsAssumption
      <3> QED BY <3>1
    <2>2. stored \in [User -> L!Values \cup {""}]
      BY DEF L!Init, L!Values
    <2>3. page \in Nat \ {0} /\ pages \in Nat /\ total \in Nat /\ pages * Limit >= total
      <3>1. page = 1 /\ pages = 0 /\ total = 0
        BY DEF L!Init
      <3>2. Limit \in Nat
        BY DEF L!ListsAssumption
      <3> QED BY <3>1, <3>2
    <2>4. /\ guest \in Guests /\ reader \in Readers /\ filter \in L!Values /\ param = "" /\ submitted = Null
          /\ pc = "form" /\ ids = {} /\ seen = {}
      BY DEF L!Init, L!Values
    <2> QED BY <2>1, <2>2, <2>3, <2>4, Zenon DEF Types
  <1> QED BY <1>1 DEF L!Init, ListsInv, Began, Entitled, Walk, Applies, Unopened

LEMMA SubmitKeeps ==
  ASSUME L!ListsAssumption, ListsInv, NEW v \in L!Values, NEW save \in BOOLEAN, L!Submit(v, save)
  PROVE  ListsInv'
  <1> USE DEF ListsInv
  <1>1. /\ pc = "form" /\ pc' = "open"
        /\ UNCHANGED <<row, policy, guest, reader, page, pages, total, ids, seen, readable, filter>>
    BY DEF L!Submit
  <1>2. page' = 1 /\ seen' = {} /\ ids' = {}
    BY <1>1 DEF Began, Unopened
  <1>3. reader.who \in User \/ L!Anonymous
    BY ProfileIsUser
  <1>4. stored' \in [User -> L!Values \cup {""}]
    BY <1>3 DEF L!Submit, Types
  <1>5. Types'
    BY <1>1, <1>4 DEF L!Submit, Types, L!Values, L!Off
  <1>6. Applies'
    <2>1. L!Anonymous' = L!Anonymous /\ L!ProfileOf' = L!ProfileOf
      BY <1>1, SameList
    <2>2. L!Effective(param)' = submitted' \/ (L!Anonymous /\ guest # Null /\ v = L!Off)
      <3>1. v # "" /\ submitted' = v
        BY DEF L!Submit, L!Values, L!Off
      <3>2. CASE param' # ""
        <4>1. param' = v
          BY <3>2 DEF L!Submit
        <4> QED BY <3>1, <4>1 DEF L!Effective
      <3>3. CASE param' = "" /\ save
        <4>1. ~L!Anonymous /\ stored' = [stored EXCEPT ![reader.who] = v]
          BY <3>3 DEF L!Submit
        <4>2. stored'[reader.who] = v /\ L!ProfileOf = reader.who /\ L!ProfileOf # Null
          BY <4>1, ProfileIsUser DEF Types, L!ListsAssumption
        <4>3. L!Preferred' = v
          BY <2>1, <4>2 DEF L!Preferred
        <4> QED BY <3>1, <3>3, <4>3 DEF L!Effective
      <3>4. CASE param' = "" /\ ~save /\ ~L!Anonymous
        <4>1. stored' = stored /\ v = (IF stored[reader.who] # "" THEN stored[reader.who] ELSE L!Off)
          BY <3>1, <3>4 DEF L!Submit
        <4>2. L!ProfileOf = reader.who /\ L!ProfileOf # Null
          BY <3>4, ProfileIsUser DEF L!ListsAssumption
        <4>3. L!Preferred' = stored[reader.who]
          BY <2>1, <4>1, <4>2 DEF L!Preferred
        <4> QED BY <3>1, <3>4, <4>1, <4>3 DEF L!Effective
      <3>5. CASE param' = "" /\ ~save /\ L!Anonymous
        <4>1. v = L!Off
          BY <3>1, <3>5 DEF L!Submit
        <4>2. guest = Null => L!Preferred' = ""
          BY <2>1, <3>5, ProfileIsUser DEF L!Preferred
        <4> QED BY <3>1, <3>5, <4>1, <4>2 DEF L!Effective
      <3> QED BY <3>2, <3>3, <3>4, <3>5
    <2> QED BY <1>1, <2>1, <2>2 DEF Applies, Excepted, L!Submit
  <1> QED BY <1>1, <1>2, <1>5, <1>6 DEF Began, Entitled, Walk, Unopened

LEMMA BeginKeeps ==
  ASSUME L!ListsAssumption, ListsInv, L!Begin
  PROVE  ListsInv'
  <1> USE DEF ListsInv
  <1>1. pc = "form" /\ pc' = "open" /\ UNCHANGED <<page, ids, seen, readable, reader>> /\ reader.kind # "page"
    BY DEF L!Begin, L!history
  <1>2. page' = 1 /\ seen' = {} /\ ids' = {}
    BY <1>1 DEF Began, Unopened
  <1>3. Types'
    BY <1>1 DEF L!Begin, Types, L!Values, L!data, L!history
  <1> QED BY <1>1, <1>2, <1>3 DEF Began, Entitled, Walk, Unopened, Applies

LEMMA OpenKeeps ==
  ASSUME L!ListsAssumption, ListsInv, L!Open
  PROVE  ListsInv'
  <1> USE DEF ListsInv
  <1>1. /\ pc = "open" /\ pc' = "count" /\ filter' = L!FilterOf(param)
        /\ UNCHANGED <<row, policy, stored, guest, reader, submitted, param, page, pages, total, ids, seen, replaced>>
    BY DEF L!Open, L!data
  <1>2. Types'
    BY <1>1, ProfileIsUser DEF Types, L!Open
  <1>3. L!MayRead' = L!MayRead /\ L!Anonymous' = L!Anonymous
    BY <1>1, SameList
  <1>4. Listed' = L!Selected(filter)'
    BY DEF Listed
  <1>5. Applies'
    BY <1>1, <1>3 DEF Applies, Excepted, L!FilterOf
  <1>6. Listed' = L!Selected(filter')
    BY <1>1 DEF Listed, L!Selected, L!ListFilter, L!OwnerOf, L!Shared, L!Shares, L!Anonymous
  <1>7. CASE page = 1
    <2>1. constant' = L!Selected(filter') /\ readable' = L!MayRead /\ seen = {} /\ ids = {}
      BY <1>1, <1>7 DEF L!Open, Began, Unopened
    <2>2. Entitled' /\ Began'
      BY <1>1, <1>3, <2>1 DEF Entitled, Began, Unopened
    <2>3. Walk'
      <3>1. (page - 1) * Limit = 0
        BY <1>7 DEF L!ListsAssumption
      <3>2. From(Listed', {}) = {} /\ Cardinality({}) = 0
        BY FS_EmptySet DEF From
      <3>3. constant' = Listed'
        BY <1>6, <2>1
      <3>4. Deep(Listed', constant', 0, {})
        BY <3>2 DEF Deep
      <3> QED BY <1>1, <2>1, <3>1, <3>3, <3>4 DEF Walk
    <2> QED BY <1>2, <1>5, <2>2, <2>3
  <1>8. CASE page # 1
    <2>1. ~Unopened /\ slipped' = (slipped \/ filter' # filter) /\ UNCHANGED <<constant, readable>>
      BY <1>1, <1>8 DEF L!Open, Unopened
    <2>2. Entitled' /\ Began'
      BY <1>1, <1>3, <2>1 DEF Entitled, Began, Unopened
    <2>3. Walk'
      <3> SUFFICES ASSUME ~slipped' PROVE Walk'
        BY DEF Walk
      <3>1. ~slipped /\ Listed' = Listed
        BY <1>1, <2>1, SameList
      <3>2. constant \subseteq Listed /\ Deep(Listed, constant, (page - 1) * Limit, seen)
        BY <1>1, <2>1, <3>1 DEF Walk
      <3> QED BY <1>1, <2>1, <3>1, <3>2 DEF Walk
    <2> QED BY <1>2, <1>5, <2>2, <2>3
  <1> QED BY <1>7, <1>8

LEMMA CountKeeps ==
  ASSUME L!ListsAssumption, ListsInv, L!Count
  PROVE  ListsInv'
  <1> USE DEF ListsInv
  <1>1. /\ pc = "count" /\ pc' = "select" /\ total' = Cardinality(Listed)
        /\ UNCHANGED <<row, policy, stored, guest, reader, submitted, param, filter, page, ids, seen, replaced,
                       constant, readable, slipped>>
    <2>1. total' = L!Cardinality(Listed)
      BY DEF L!Count, Listed
    <2> QED BY <2>1, SameCardinality DEF L!Count, L!data, L!history
  <1>2. total' \in Nat
    BY <1>1, ListedIsPart, PartsFinite DEF Listed
  <1>3. pages' \in Nat \ {0} /\ pages' * Limit >= total'
    <2>1. pages' = IF total' = 0 THEN 1 ELSE (total' + Limit - 1) \div Limit
      BY DEF L!Count
    <2> QED BY <1>2, <2>1, PagesCover DEF L!ListsAssumption
  <1>4. Types'
    BY <1>1, <1>2, <1>3 DEF Types
  <1>5. L!MayRead' = L!MayRead /\ Listed' = Listed
    BY <1>1, SameList
  <1>6. Walk'
    <2>1. total' \in Int /\ total' <= total'
      BY <1>2
    <2> QED BY <1>1, <1>5, <2>1 DEF Walk, Unopened
  <1> QED BY <1>1, <1>4, <1>5, <1>6 DEF Began, Entitled, Unopened, Applies

LEMMA SelectPageKeeps ==
  ASSUME L!ListsAssumption, ListsInv, L!SelectPage
  PROVE  ListsInv'
  <1> USE DEF ListsInv
  <1>1. /\ pc = "select" /\ pc' = "load"
        /\ IF L!ReadsFeed THEN ids' \in L!Slices(Listed, 0, FeedLimit)
           ELSE ids' \in L!Slices(Listed, (page - 1) * Limit, Limit)
        /\ slipped' = (slipped \/ L!Tears(Listed, ids'))
        /\ UNCHANGED <<row, policy, stored, guest, reader, submitted, param, filter, page, pages, total, seen,
                       replaced, constant, readable>>
    BY DEF L!SelectPage, L!data, Listed, L!Rows
  <1>2. ids' \subseteq Listed /\ Listed \in SUBSET L!Bookmark
    BY <1>1, ListedIsPart DEF L!Slices, Listed
  <1>3. Types'
    BY <1>1, <1>2 DEF Types
  <1>4. L!MayRead' = L!MayRead /\ Listed' = Listed /\ L!Beyond' = L!Beyond /\ L!ReadsFeed' = L!ReadsFeed
    BY <1>1, SameList DEF L!Beyond
  <1>5. Entitled'
    BY <1>1, <1>2, <1>4, ListedIsReadable DEF Entitled, Unopened, Listed
  <1>6. Walk'
    <2> SUFFICES ASSUME ~slipped, ~L!Tears(Listed, ids') PROVE Walk'
      BY <1>1 DEF Walk
    <2> DEFINE n == (page - 1) * Limit
    <2>1. constant \subseteq Listed /\ Deep(Listed, constant, n, seen) /\ Cardinality(Listed) <= total
      BY <1>1 DEF Walk, Unopened
    <2>2. n \in Nat /\ n + Limit = page * Limit
      BY Numbers
    <2>3. Limit \in Nat \ {0} /\ FeedLimit \in Nat \ {0}
      BY DEF L!ListsAssumption
    <2>4. PICK P : P = ids'
      OBVIOUS
    <2> HIDE DEF n
    <2>5. /\ Deep(Listed', constant', (page' - 1) * Limit, seen') /\ Cardinality(Listed') <= total'
          /\ constant' \subseteq Listed' /\ pc' = "load"
      BY <1>1, <1>4, <2>1 DEF n
    <2>6. CASE L!ReadsFeed
      <3>1. P \in L!Slices(Listed, 0, FeedLimit) /\ ~L!Tears(Listed, P)
        BY <1>1, <2>4, <2>6
      <3>2. Deep(Listed, constant, 0, seen)
        BY <1>2, <2>1, <2>2, LessIsDeep
      <3>3. \A c \in constant \ (seen \cup P) : Cardinality(Newer(seen \cup P, c)) >= FeedLimit
        BY <1>2, <2>1, <2>3, <3>1, <3>2, PageDeepens
      <3>4. Full(constant', seen' \cup ids')
        BY <1>1, <2>4, <3>3 DEF Full
      <3>5. L!ReadsFeed'
        BY <1>4, <2>6
      <3> QED BY <2>5, <3>4, <3>5 DEF Walk
    <2>7. CASE ~L!ReadsFeed
      <3>1. P \in L!Slices(Listed, n, Limit) /\ ~L!Tears(Listed, P)
        BY <1>1, <2>4, <2>7 DEF n
      <3>2. /\ Deep(Listed, constant, n + Limit, seen \cup P)
            /\ constant \ (seen \cup P) # {} => Cardinality(Listed) > n + Limit
        BY <1>2, <2>1, <2>2, <2>3, <3>1, PageDeepens
      <3>3. Cardinality(Listed) \in Nat
        BY <1>2, PartsFinite
      <3>4. constant \ (seen \cup P) # {} => total > page * Limit
        BY <2>1, <2>2, <3>2, <3>3, Numbers
      <3>5. Deep(Listed', constant', page' * Limit, seen' \cup ids')
        BY <1>1, <1>4, <2>2, <2>4, <3>2
      <3>6. constant' \ (seen' \cup ids') # {} => total' > page' * Limit
        BY <1>1, <2>4, <3>4
      <3>7. ~L!ReadsFeed'
        BY <1>4, <2>7
      <3> QED BY <2>5, <3>5, <3>6, <3>7 DEF Walk
    <2> QED BY <2>6, <2>7
  <1> QED BY <1>1, <1>3, <1>5, <1>6 DEF Began, Unopened, Applies

LEMMA LoadKeeps ==
  ASSUME L!ListsAssumption, ListsInv, L!Load
  PROVE  ListsInv'
  <1> USE DEF ListsInv
  <1>1. /\ pc = "load"
        /\ UNCHANGED <<row, policy, stored, guest, reader, submitted, param, filter, pages, total, ids, replaced,
                       constant, readable, slipped>>
    BY DEF L!Load, L!data
  <1>2. L!MayRead' = L!MayRead /\ Listed' = Listed /\ L!ReadsFeed' = L!ReadsFeed /\ ~Unopened
    BY <1>1, SameList DEF Unopened
  <1>3. /\ pages # 0 /\ pages \in Nat /\ page \in Nat \ {0} /\ Limit \in Nat \ {0}
        /\ total \in Nat /\ pages * Limit >= total
    BY <1>1 DEF Types, L!ListsAssumption
  <1>4. CASE pc' = "failed" /\ UNCHANGED <<page, seen>>
    <2>1. Types'
      BY <1>1, <1>4 DEF Types
    <2> QED BY <1>1, <1>2, <1>4, <2>1 DEF Began, Entitled, Unopened, Applies, Walk
  <1>5. CASE L!Beyond /\ page' = pages /\ pc' = "select" /\ UNCHANGED seen
    <2>1. Types'
      BY <1>1, <1>3, <1>5 DEF Types
    <2>2. Walk'
      <3> SUFFICES ASSUME ~slipped PROVE Walk'
        BY <1>1 DEF Walk
      <3>1. /\ constant \subseteq Listed /\ Deep(Listed, constant, (page - 1) * Limit, seen)
            /\ Cardinality(Listed) <= total
        BY <1>1, <1>2, <1>5 DEF Walk
      <3>2. (page - 1) * Limit \in Nat /\ (pages - 1) * Limit \in Nat /\ (pages - 1) * Limit <= (page - 1) * Limit
        BY <1>3, <1>5 DEF L!Beyond
      <3>3. Listed \in SUBSET L!Bookmark
        BY ListedIsPart DEF Listed
      <3>4. Deep(Listed, constant, (pages - 1) * Limit, seen)
        BY <3>1, <3>2, <3>3, LessIsDeep
      <3> QED BY <1>1, <1>2, <1>5, <3>1, <3>4 DEF Walk
    <2> QED BY <1>1, <1>2, <1>5, <2>1, <2>2 DEF Began, Entitled, Unopened, Applies
  <1>6. CASE ~L!Beyond /\ seen' = seen \cup ids /\ pc' = (IF L!HasNext THEN "shown" ELSE "done") /\ UNCHANGED page
    <2>1. Types'
      BY <1>1, <1>3, <1>6 DEF Types
    <2>2. Entitled'
      BY <1>1, <1>2, <1>6 DEF Entitled
    <2>3. Walk'
      <3> SUFFICES ASSUME ~slipped PROVE Walk'
        BY <1>1 DEF Walk
      <3>1. /\ constant \subseteq Listed
            /\ IF L!ReadsFeed THEN Full(constant, seen')
               ELSE /\ Deep(Listed, constant, page * Limit, seen')
                    /\ constant \ seen' # {} => total > page * Limit
        BY <1>1, <1>2, <1>6 DEF Walk
      <3>2. L!ReadsFeed => ~L!HasNext
        BY DEF L!ReadsFeed, L!HasNext
      <3>3. ASSUME ~L!HasNext, ~L!ReadsFeed PROVE constant \subseteq seen'
        <4>1. CASE reader.kind = "page"
          <5>1. page = pages
            BY <1>3, <1>6, <3>3, <4>1 DEF L!HasNext, L!Beyond
          <5> QED BY <1>3, <3>1, <3>3, <5>1
        <4>2. CASE reader.kind = "api"
          <5>1. ~(page * Limit < total)
            BY <3>3, <4>2 DEF L!HasNext
          <5>2. page * Limit \in Nat
            BY <1>3
          <5> QED BY <1>3, <3>1, <3>3, <5>1, <5>2
        <4>3. reader.kind \in {"page", "api", "feed", "unread"}
          BY DEF Types, L!ListsAssumption
        <4> QED BY <3>3, <4>1, <4>2, <4>3 DEF L!ReadsFeed
      <3> QED BY <1>1, <1>2, <1>6, <3>1, <3>2, <3>3 DEF Walk
    <2> QED BY <1>1, <1>6, <2>1, <2>2, <2>3 DEF Began, Unopened, Applies
  <1> QED BY <1>4, <1>5, <1>6 DEF L!Load

LEMMA FollowNextKeeps ==
  ASSUME L!ListsAssumption, ListsInv, L!FollowNext
  PROVE  ListsInv'
  <1> USE DEF ListsInv
  <1>1. /\ pc = "shown" /\ pc' = "open" /\ page' = page + 1
        /\ UNCHANGED <<row, policy, stored, guest, reader, submitted, param, filter, pages, total, ids, seen,
                       replaced, constant, readable, slipped>>
    BY DEF L!FollowNext, L!data, L!history
  <1>2. L!MayRead' = L!MayRead /\ Listed' = Listed
    BY <1>1, SameList
  <1>3. page' \in Nat \ {0} /\ page' # 1 /\ (page' - 1) * Limit = page * Limit
    BY <1>1, Numbers
  <1>4. Types'
    BY <1>1, <1>3 DEF Types
  <1>5. ~Unopened /\ ~Unopened'
    BY <1>1, <1>3 DEF Unopened
  <1> QED BY <1>1, <1>2, <1>3, <1>4, <1>5 DEF Began, Entitled, Walk, Applies

-----------------------------------------------------------------------------
(* The steps of others. *)

LEMMA ListChangeKeeps ==
  ASSUME L!ListsAssumption, ListsInv, L!Change
  PROVE  ListsInv'
  <1> USE DEF ListsInv
  <1>1. /\ pc \notin {"failed", "done"}
        /\ UNCHANGED <<guest, reader, submitted, param, pc, filter, page, pages, total, ids, seen>>
        /\ constant' = constant \cap Listed' /\ readable' = readable \cup L!MayRead'
        /\ slipped' = (slipped \/ L!Slips(Listed, Listed'))
        /\ replaced' = (replaced \/ (stored' # stored /\ pc = "open"))
    BY DEF L!Change, L!request, Listed
  <1>2. DOMAIN row' \subseteq L!Bookmark /\ stored' \in [User -> L!Values \cup {""}]
    BY DEF L!Change, Types, L!Values
  <1>3. Types'
    BY <1>1, <1>2 DEF Types
  <1>4. /\ L!Anonymous' = L!Anonymous /\ L!ProfileOf' = L!ProfileOf /\ L!Beyond' = L!Beyond
        /\ L!ReadsFeed' = L!ReadsFeed /\ Unopened' = Unopened
    BY <1>1 DEF L!Anonymous, L!ProfileOf, L!ReadsFeed, Unopened, L!Beyond
  <1>5. Entitled' /\ Began'
    BY <1>1, <1>4 DEF Entitled, Began
  <1>6. Applies'
    <2>1. stored' = stored => L!Effective(param)' = L!Effective(param)
      BY <1>1, <1>4 DEF L!Effective, L!Preferred
    <2> QED BY <1>1, <1>4, <2>1 DEF Applies, Excepted
  <1>7. Walk'
    <2> SUFFICES ASSUME ~Unopened, ~slipped, ~L!Slips(Listed, Listed') PROVE Walk'
      BY <1>1, <1>4 DEF Walk
    <2>1. Listed \in SUBSET L!Bookmark /\ Listed' \in SUBSET L!Bookmark
      BY <1>2 DEF Listed, L!Selected, Types
    <2>2. PICK S2 : S2 = Listed'
      OBVIOUS
    <2>3. /\ ~\E i \in Listed \ S2, j \in seen \cup ids : Date[j] <= Date[i]
          /\ (pc = "select" \/ (pc = "load" /\ L!Beyond)) => S2 \subseteq Listed
      BY <2>2 DEF L!Slips
    <2>4. constant' = constant \cap S2
      BY <1>1, <2>2
    <2>5. ASSUME NEW n \in Nat, NEW T \in SUBSET (seen \cup ids), Deep(Listed, constant, n, T)
          PROVE  Deep(S2, constant', n, T)
      BY <2>1, <2>2, <2>3, <2>4, <2>5, MovesKeepDeep
    <2>6. (page - 1) * Limit \in Nat /\ page * Limit \in Nat
      BY Numbers
    <2>7. ASSUME pc = "select" \/ (pc = "load" /\ L!Beyond) PROVE Cardinality(S2) <= total
      <3>1. Cardinality(Listed) <= total /\ S2 \in SUBSET Listed
        BY <2>3, <2>7 DEF Walk
      <3>2. Cardinality(S2) <= Cardinality(Listed) /\ Cardinality(S2) \in Nat /\ Cardinality(Listed) \in Nat
        BY <2>1, <3>1, LargerPart, PartsFinite
      <3> QED BY <3>1, <3>2, Numbers
    <2>8. pc \in {"open", "count", "select"} \/ (pc = "load" /\ L!Beyond) =>
            Deep(S2, constant', (page - 1) * Limit, seen)
      BY <2>5, <2>6 DEF Walk
    <2>9. pc = "load" /\ ~L!Beyond /\ ~L!ReadsFeed => Deep(S2, constant', page * Limit, seen \cup ids)
      BY <2>5, <2>6 DEF Walk
    <2>10. pc = "shown" => Deep(S2, constant', page * Limit, seen)
      BY <2>5, <2>6 DEF Walk
    <2>11. pc = "load" /\ ~L!Beyond =>
             IF L!ReadsFeed THEN Full(constant', seen \cup ids)
             ELSE constant' \ (seen \cup ids) # {} => total > page * Limit
      BY <2>4 DEF Walk, Full
    <2> QED BY <1>1, <1>4, <2>2, <2>4, <2>7, <2>8, <2>9, <2>10, <2>11 DEF Walk
  <1> QED BY <1>3, <1>5, <1>6, <1>7

LEMMA ListStutterKeeps ==
  ASSUME ListsInv, UNCHANGED L!vars
  PROVE  ListsInv'
  <1>1. UNCHANGED <<row, policy, stored, guest, reader, submitted, param, pc, filter, page, pages, total, ids, seen,
                    constant, readable, slipped, replaced>>
    BY DEF L!vars, L!data, L!request, L!history
  <1>2. /\ L!MayRead' = L!MayRead /\ L!Anonymous' = L!Anonymous /\ L!ProfileOf' = L!ProfileOf
        /\ L!ReadsFeed' = L!ReadsFeed /\ Listed' = Listed
    BY <1>1, SameList
  <1>3. Types' /\ Began' /\ Entitled'
    BY <1>1, <1>2 DEF ListsInv, Types, Began, Entitled, Unopened
  <1>4. Walk'
    BY <1>1, <1>2 DEF ListsInv, Walk, Unopened, L!Beyond
  <1>5. Applies'
    BY <1>1, <1>2 DEF ListsInv, Applies, Excepted, L!Effective, L!Preferred
  <1> QED BY <1>3, <1>4, <1>5 DEF ListsInv

\* What every state has: types, the place of a walk among the rows that stayed (Deep),
\* nothing shown that was not readable, and the value that the first page will take.
THEOREM ListsInvHolds == ASSUME L!ListsAssumption PROVE L!Spec => []ListsInv
  <1>1. L!Init => ListsInv
    BY ListsInit
  <1>2. ListsInv /\ [L!Next]_L!vars => ListsInv'
    <2> SUFFICES ASSUME ListsInv, [L!Next]_L!vars PROVE ListsInv'
      OBVIOUS
    <2>1. CASE \E v \in L!Values, save \in BOOLEAN : L!Submit(v, save)
      BY <2>1, SubmitKeeps
    <2>2. CASE L!Begin \/ L!Open \/ L!Count \/ L!SelectPage \/ L!Load \/ L!FollowNext
      BY <2>2, BeginKeeps, OpenKeeps, CountKeeps, SelectPageKeeps, LoadKeeps, FollowNextKeeps
    <2>3. CASE L!Change
      BY <2>3, ListChangeKeeps
    <2>4. CASE UNCHANGED L!vars
      BY <2>4, ListStutterKeeps
    <2> QED BY <2>1, <2>2, <2>3, <2>4 DEF L!Next
  <1> QED BY <1>1, <1>2, PTL DEF L!Spec

\* A walk from page to page shows every bookmark that was on the list all the time,
\* and a feed the newest of them, unless the list moved under it or a page tore a
\* date, and nothing that its reader was never entitled to see, though each page
\* counts, selects and loads in statements of its own, and the order of bookmarks
\* of one date is open (bookmarks/search.go, bookmark_list_page.go, feeds.go).
THEOREM WalksShowAll == ASSUME L!ListsAssumption PROVE L!Spec => []L!WalkShowsAll
  <1>1. ListsInv => L!WalkShowsAll
    <2> SUFFICES ASSUME ListsInv PROVE L!WalkShowsAll
      OBVIOUS
    <2>1. seen \subseteq readable
      BY DEF ListsInv, Entitled
    <2>2. ASSUME pc = "done", ~slipped, NEW i \in constant \ seen
          PROVE  L!ReadsFeed /\ Cardinality({j \in seen : Date[j] > Date[i]}) >= FeedLimit
      BY <2>2 DEF ListsInv, Walk, Unopened, Full, Newer
    <2>3. \A S : L!Cardinality(S) = Cardinality(S)
      BY SameCardinality
    <2> QED BY <2>1, <2>2, <2>3 DEF L!WalkShowsAll
  <1> QED BY <1>1, ListsInvHolds, PTL

\* The first page after the search form applies what was submitted, whether it came
\* in the query, was stored with it or is the stored or the standard value, but for the
\* two exceptions that the property names (bookmark_search_post.go).
THEOREM SubmittedApplies == ASSUME L!ListsAssumption PROVE L!Spec => []L!SubmittedIsApplied
  <1>1. ListsInv => L!SubmittedIsApplied
    BY DEF ListsInv, Applies, Excepted, L!SubmittedIsApplied
  <1> QED BY <1>1, ListsInvHolds, PTL

\* What a page reads and holds has its type.
THEOREM ListTypesHold == ASSUME L!ListsAssumption PROVE L!Spec => []L!TypeOK
  <1>1. L!ListsAssumption /\ ListsInv => L!TypeOK
    <2> SUFFICES ASSUME Types PROVE L!TypeOK
      BY DEF ListsInv
    <2>1. page \in Nat \ {0} => page >= 1
      OBVIOUS
    <2> QED BY <2>1 DEF Types, L!TypeOK
  <1> QED BY <1>1, ListsInvHolds, PTL

-----------------------------------------------------------------------------
(* Import. *)

Norms == {Norm[u] : u \in URL}
Ids == UNION {[S -> Nat] : S \in SUBSET TagName}
Importing ==
  [pc : {"idle", "tags", "items", "done"}, file : Seq(I!Item), items : Seq(I!Item),
   ids : Ids, seen : SUBSET Norms, disturbed : SUBSET Norms]

\* The rows: every link is one of a bookmark to a tag, and no two bookmarks have
\* one URL.
RowsOK ==
  /\ bookmark \in [DOMAIN bookmark -> URL] /\ tag \in [DOMAIN tag -> TagName]
  /\ lastId \in [bookmark : Nat, tag : Nat]
  /\ DOMAIN bookmark \subseteq 1..lastId.bookmark /\ DOMAIN tag \subseteq 1..lastId.tag
  /\ link \subseteq (DOMAIN bookmark) \X (DOMAIN tag)
  /\ \A b, c \in DOMAIN bookmark : Norm[bookmark[b]] = Norm[bookmark[c]] => b = c
CallsOK == import \in [Request -> Importing]

\* How many items of the file an import has behind it.
Handled(c) == Len(c.file) - Len(c.items)
\* The items it has left are the last ones of the file.
Suffix(c) ==
  /\ Len(c.items) <= Len(c.file)
  /\ \A i \in 1..Len(c.items) : c.items[i] = c.file[Handled(c) + i]

\* The bookmark of a URL has the names, unless it was disturbed.
Whole(r, n, names) ==
  \/ n \in import[r].disturbed
  \/ \E b \in DOMAIN bookmark :
       /\ Norm[bookmark[b]] = n
       /\ \A m \in names : \E t \in DOMAIN tag : tag[t] = m /\ <<b, t>> \in link
\* The first valid item of its URL.
Earliest(f, i) ==
  /\ f[i].valid
  /\ \A j \in 1..i - 1 : f[j].valid => Norm[f[j].url] # Norm[f[i].url]

\* What an import has merged is whole, ...
Merged(r) ==
  LET f == import[r].file IN
  \A i \in 1..Handled(import[r]) : Earliest(f, i) => Whole(r, Norm[f[i].url], f[i].names)
\* ... it has seen the URLs of the valid items before, ...
Remembers(c) ==
  /\ c.seen = {Norm[c.file[j].url] : j \in {k \in 1..Handled(c) : c.file[k].valid}}
  /\ \A i \in 1..Len(c.items) : c.items[i].names \subseteq DOMAIN c.ids
\* ... and a tag that it has the id of is still the one of that name, or is gone
\* and will not be there again, or the items that are to get it were disturbed.
Knows(r) ==
  LET c == import[r] IN
  /\ \A m \in DOMAIN c.ids : c.ids[m] \in 1..lastId.tag
  /\ \A i \in 1..Len(c.items), m \in DOMAIN c.ids :
       m \in c.items[i].names =>
         \/ Norm[c.items[i].url] \in c.disturbed
         \/ c.ids[m] \in DOMAIN tag => tag[c.ids[m]] = m

Progress(r) ==
  LET c == import[r] IN
  /\ c.pc # "idle" => Suffix(c)
  /\ c.pc = "tags" => Len(c.items) = Len(c.file) /\ c.seen = {}
  /\ c.pc = "done" => Len(c.items) = 0
  /\ c.pc \in {"items", "done"} => Merged(r)
  /\ c.pc = "items" => Remembers(c)
  /\ c.pc \in {"tags", "items"} => Knows(r)

ImportInv == RowsOK /\ CallsOK /\ \A r \in Request : Progress(r)

-----------------------------------------------------------------------------
(* Operators of the model. *)

LEMMA WithIs ==
  ASSUME NEW f, NEW x, NEW v
  PROVE  /\ DOMAIN I!With(f, x, v) = DOMAIN f \cup {x} /\ I!With(f, x, v)[x] = v
         /\ \A y \in DOMAIN f \ {x} : I!With(f, x, v)[y] = f[y]
  BY DEF I!With
LEMMA WithType ==
  ASSUME NEW S, NEW f, f \in [DOMAIN f -> S], NEW x, NEW v \in S
  PROVE  I!With(f, x, v) \in [DOMAIN I!With(f, x, v) -> S]
  BY DEF I!With

LEMMA WithoutIs ==
  ASSUME NEW f, NEW x
  PROVE  /\ DOMAIN I!Without(f, x) = DOMAIN f \ {x}
         /\ \A y \in DOMAIN f \ {x} : I!Without(f, x)[y] = f[y]
  BY DEF I!Without
LEMMA WithoutType ==
  ASSUME NEW S, NEW f, f \in [DOMAIN f -> S], NEW x
  PROVE  I!Without(f, x) \in [DOMAIN I!Without(f, x) -> S]
  BY DEF I!Without

\* The least and the greatest of ids.
LEMMA MinIsLeast ==
  ASSUME NEW S \in SUBSET Nat, S # {}
  PROVE  I!Min(S) \in S
  <1>1. PICK x \in S : \A y \in S : ~(<<y, x>> \in OpToRel(<, Nat))
    BY NatLessThanWellFounded, WFMin
  <1>2. \A y \in S : ~(y < x)
    BY <1>1 DEF OpToRel
  <1>3. \A y \in S : x =< y
    BY <1>2
  <1> QED BY <1>3 DEF I!Min

LEMMA MaxOfIds ==
  ASSUME NEW n \in Nat, NEW S \in SUBSET (1..n), S # {}
  PROVE  I!Max(S) \in S
  <1> DEFINE T == {n - x : x \in S}
  <1>1. T \in SUBSET Nat /\ T # {}
    <2>1. \A x \in S : x \in 1..n /\ n - x \in Nat
      OBVIOUS
    <2>2. PICK x \in S : TRUE
      OBVIOUS
    <2>3. n - x \in T
      BY <2>2
    <2> QED BY <2>1, <2>3
  <1>2. PICK d \in T : \A y \in T : ~(<<y, d>> \in OpToRel(<, Nat))
    <2> HIDE DEF T
    <2> QED BY <1>1, NatLessThanWellFounded, WFMin
  <1>3. \A y \in T : ~(y < d)
    BY <1>1, <1>2 DEF OpToRel
  <1>4. PICK x \in S : d = n - x
    BY <1>2
  <1>5. \A y \in S : n - y \in T
    OBVIOUS
  <1> HIDE DEF T
  <1>6. \A y \in S : x >= y
    BY <1>1, <1>3, <1>4, <1>5
  <1> QED BY <1>6 DEF I!Max

\* The tags of a name, and of them the first and the last.
LEMMA NamedIds ==
  ASSUME RowsOK, NEW n, I!Named(n) # {}
  PROVE  I!Min(I!Named(n)) \in I!Named(n) /\ I!Max(I!Named(n)) \in I!Named(n)
  <1>1. I!Named(n) \in SUBSET (1..lastId.tag) /\ lastId.tag \in Nat
    BY DEF RowsOK, I!Named
  <1>2. I!Named(n) \in SUBSET Nat
    BY <1>1
  <1> QED BY <1>1, <1>2, MinIsLeast, MaxOfIds

\* The bookmark of a URL is one.
LEMMA SameId ==
  ASSUME RowsOK, NEW n, I!Same(n) # {}
  PROVE  /\ I!Min(I!Same(n)) \in DOMAIN bookmark /\ Norm[bookmark[I!Min(I!Same(n))]] = n
         /\ \A b \in DOMAIN bookmark : Norm[bookmark[b]] = n => b = I!Min(I!Same(n))
  <1>1. I!Same(n) \in SUBSET Nat
    BY DEF RowsOK, I!Same
  <1>2. I!Min(I!Same(n)) \in I!Same(n)
    BY <1>1, MinIsLeast
  <1> QED BY <1>2 DEF RowsOK, I!Same

LEMMA LocalIs ==
  ASSUME CallsOK, NEW r \in Request
  PROVE  /\ import[r] \in Importing
         /\ import[r].file \in Seq(I!Item) /\ import[r].items \in Seq(I!Item)
         /\ Len(import[r].file) \in Nat /\ Len(import[r].items) \in Nat
         /\ 1..Handled(import[r]) \subseteq 1..Len(import[r].file)
         /\ DOMAIN import[r].file = 1..Len(import[r].file)
         /\ DOMAIN import[r].items = 1..Len(import[r].items)
         /\ \A i \in 1..Len(import[r].file) :
              import[r].file[i] \in I!Item /\ Norm[import[r].file[i].url] \in Norms
         /\ \A i \in 1..Len(import[r].items) :
              import[r].items[i] \in I!Item /\ Norm[import[r].items[i].url] \in Norms
         /\ DOMAIN import[r].ids \subseteq TagName
  <1>1. import[r] \in Importing
    BY DEF CallsOK
  <1>2. /\ import[r].file \in Seq(I!Item) /\ import[r].items \in Seq(I!Item) /\ import[r].ids \in Ids
    BY <1>1 DEF Importing
  <1>3. \A x \in I!Item : Norm[x.url] \in Norms
    BY DEF I!Item, Norms
  <1>4. DOMAIN import[r].ids \subseteq TagName
    BY <1>2 DEF Ids
  <1>5. 1..Handled(import[r]) \subseteq 1..Len(import[r].file)
    <2>1. Len(import[r].file) \in Nat /\ Len(import[r].items) \in Nat
      BY <1>2
    <2>2. \A a, b \in Nat : 1..(a - b) \subseteq 1..a
      OBVIOUS
    <2> QED BY <2>1, <2>2, Zenon DEF Handled
  <1> QED BY <1>1, <1>2, <1>3, <1>4, <1>5

-----------------------------------------------------------------------------
(* Steps that are not the import's own. *)

\* The bookmark of a URL, its tags and their names stay.
Intact(n) ==
  \A b \in DOMAIN bookmark : Norm[bookmark[b]] = n =>
    /\ b \in DOMAIN bookmark' /\ Norm[bookmark'[b]] = n
    /\ \A t \in DOMAIN tag : <<b, t>> \in link =>
         t \in DOMAIN tag' /\ tag'[t] = tag[t] /\ <<b, t>> \in link'
\* An id is not given out again, and its tag keeps its name.
Keeps(t) == t \in DOMAIN tag' => t \in DOMAIN tag /\ tag'[t] = tag[t]

\* What imports do to the rows.
Grows ==
  /\ lastId'.tag \in Nat /\ lastId.tag <= lastId'.tag
  /\ \A n \in Norms : Intact(n)
  /\ \A t \in 1..lastId.tag : Keeps(t)

\* A step that an import sees: of what it needs only what it calls disturbed
\* changes.
Sees(r) ==
  /\ import'[r].pc = import[r].pc /\ import'[r].file = import[r].file
  /\ import'[r].items = import[r].items /\ import'[r].ids = import[r].ids
  /\ import'[r].seen = import[r].seen /\ import[r].disturbed \subseteq import'[r].disturbed
  /\ lastId'.tag \in Nat /\ lastId.tag <= lastId'.tag
  /\ \A n \in Norms : n \in import'[r].disturbed \/ Intact(n)
  /\ \A t \in 1..lastId.tag :
       \/ Keeps(t)
       \/ \A i \in 1..Len(import[r].items), m \in DOMAIN import[r].ids :
            m \in import[r].items[i].names /\ import[r].ids[m] = t =>
              Norm[import[r].items[i].url] \in import'[r].disturbed

LEMMA WholeStays ==
  ASSUME NEW r \in Request, NEW n, NEW names, Whole(r, n, names),
         import[r].disturbed \subseteq import'[r].disturbed,
         n \in import'[r].disturbed \/ Intact(n)
  PROVE  Whole(r, n, names)'
  <1>1. CASE n \in import'[r].disturbed
    BY <1>1 DEF Whole
  <1>2. CASE n \notin import'[r].disturbed
    <2>1. PICK b \in DOMAIN bookmark :
            /\ Norm[bookmark[b]] = n
            /\ \A m \in names : \E t \in DOMAIN tag : tag[t] = m /\ <<b, t>> \in link
      BY <1>2 DEF Whole
    <2>2. /\ b \in DOMAIN bookmark' /\ Norm[bookmark'[b]] = n
          /\ \A t \in DOMAIN tag : <<b, t>> \in link =>
               t \in DOMAIN tag' /\ tag'[t] = tag[t] /\ <<b, t>> \in link'
      BY <1>2, <2>1 DEF Intact
    <2>3. \A m \in names : \E t \in DOMAIN tag' : tag'[t] = m /\ <<b, t>> \in link'
      BY <2>1, <2>2
    <2> QED BY <2>2, <2>3 DEF Whole
  <1> QED BY <1>1, <1>2

LEMMA SeesKeeps ==
  ASSUME RowsOK, CallsOK, NEW r \in Request, Progress(r), Sees(r)
  PROVE  Progress(r)'
  <1> DEFINE c == import[r]
             d == import'[r]
  <1>1. /\ d.pc = c.pc /\ d.file = c.file /\ d.items = c.items /\ d.ids = c.ids
        /\ d.seen = c.seen /\ c.disturbed \subseteq d.disturbed
    BY DEF Sees
  <1>2. /\ \A i \in 1..Len(c.file) : c.file[i] \in I!Item /\ Norm[c.file[i].url] \in Norms
        /\ 1..Handled(c) \subseteq 1..Len(c.file)
    BY LocalIs
  <1>3. Suffix(c) => Suffix(d)
    BY <1>1 DEF Suffix, Handled
  <1>4. Merged(r) => Merged(r)'
    <2> SUFFICES ASSUME Merged(r), NEW i \in 1..Handled(c), Earliest(c.file, i)
                 PROVE  Whole(r, Norm[c.file[i].url], c.file[i].names)'
      BY <1>1 DEF Merged, Handled, Earliest
    <2>1. Whole(r, Norm[c.file[i].url], c.file[i].names)
      BY DEF Merged
    <2>2. Norm[c.file[i].url] \in Norms
      BY <1>2
    <2>0. c.file[i] \in I!Item
      BY <1>2
    <2>3. PICK n \in Norms, names \in SUBSET TagName :
            n = Norm[c.file[i].url] /\ names = c.file[i].names
      BY <2>0, <2>2 DEF I!Item
    <2>4. Whole(r, n, names) /\ (n \in import'[r].disturbed \/ Intact(n))
      BY <2>1, <2>3 DEF Sees
    <2>5. Whole(r, n, names)'
      BY <1>1, <2>4, WholeStays
    <2> QED BY <1>1, <2>3, <2>5 DEF Whole
  <1>5. Remembers(c) => Remembers(d)
    BY <1>1 DEF Remembers, Handled
  <1>6. Knows(r) => Knows(r)'
    <2> SUFFICES ASSUME Knows(r) PROVE Knows(r)'
      OBVIOUS
    <2>1. \A m \in DOMAIN c.ids : c.ids[m] \in 1..lastId.tag /\ c.ids[m] \in 1..lastId'.tag
      BY DEF Knows, Sees, RowsOK
    <2>2. ASSUME NEW i \in 1..Len(c.items), NEW m \in DOMAIN c.ids, m \in c.items[i].names,
                 Norm[c.items[i].url] \notin d.disturbed, c.ids[m] \in DOMAIN tag'
          PROVE  tag'[c.ids[m]] = m
      <3>1. Keeps(c.ids[m])
        BY <2>1, <2>2 DEF Sees
      <3>2. c.ids[m] \in DOMAIN tag => tag[c.ids[m]] = m
        BY <1>1, <2>2 DEF Knows
      <3> QED BY <2>2, <3>1, <3>2 DEF Keeps
    <2> QED BY <1>1, <2>1, <2>2 DEF Knows
  <1> QED BY <1>1, <1>3, <1>4, <1>5, <1>6 DEF Progress

\* So does what another import does.
LEMMA GrowsIsSeen ==
  ASSUME NEW r \in Request, Grows, import'[r] = import[r]
  PROVE  Sees(r)
  BY DEF Grows, Sees

LEMMA SameRows ==
  ASSUME RowsOK, UNCHANGED <<bookmark, tag, link, lastId>>
  PROVE  RowsOK' /\ Grows
  <1>1. RowsOK'
    BY DEF RowsOK
  <1>2. lastId'.tag \in Nat /\ lastId.tag <= lastId'.tag
    BY DEF RowsOK
  <1> QED BY <1>1, <1>2 DEF Grows, Intact, Keeps

-----------------------------------------------------------------------------
(* The rows under the steps of an import. *)

\* A new tag has an id that no link and no import knows.
LEMMA TagRows ==
  ASSUME RowsOK, NEW n \in TagName, tag' = I!With(tag, lastId.tag + 1, n),
         lastId' = [lastId EXCEPT !.tag = @ + 1], UNCHANGED <<bookmark, link>>
  PROVE  RowsOK' /\ Grows
  <1> DEFINE new == lastId.tag + 1
  <1>1. /\ lastId \in [bookmark : Nat, tag : Nat] /\ lastId.tag \in Nat /\ lastId.bookmark \in Nat
        /\ DOMAIN bookmark \subseteq 1..lastId.bookmark /\ DOMAIN tag \subseteq 1..lastId.tag
        /\ tag \in [DOMAIN tag -> TagName]
        /\ link \subseteq (DOMAIN bookmark) \X (DOMAIN tag)
    BY DEF RowsOK
  <1>2. lastId' \in [bookmark : Nat, tag : Nat] /\ lastId'.tag = new /\ lastId'.bookmark = lastId.bookmark
    BY <1>1
  <1>3. new \notin 1..lastId.tag /\ 1..lastId.tag \subseteq 1..new /\ new \in 1..new
    BY <1>1
  <1>4. /\ DOMAIN tag' = DOMAIN tag \cup {new} /\ tag'[new] = n
        /\ \A y \in DOMAIN tag \ {new} : tag'[y] = tag[y]
    BY DEF I!With
  <1> HIDE DEF new
  <1>5. tag' \in [DOMAIN tag' -> TagName]
    BY <1>1, WithType
  <1>6. DOMAIN tag' \subseteq 1..lastId'.tag
    BY <1>1, <1>2, <1>3, <1>4
  <1>7. link \subseteq (DOMAIN bookmark) \X (DOMAIN tag')
    BY <1>1, <1>4
  <1>8. RowsOK'
    BY <1>2, <1>5, <1>6, <1>7 DEF RowsOK
  <1>9. \A t \in DOMAIN tag : t \in DOMAIN tag' /\ tag'[t] = tag[t]
    BY <1>1, <1>3, <1>4
  <1>10. \A t \in 1..lastId.tag : Keeps(t)
    BY <1>3, <1>4, <1>9 DEF Keeps
  <1>11. \A m : Intact(m)
    BY <1>9 DEF Intact
  <1>12. lastId'.tag \in Nat /\ lastId.tag <= lastId'.tag
    BY <1>1, <1>2 DEF new
  <1> QED BY <1>8, <1>10, <1>11, <1>12 DEF Grows

\* The bookmark of the URL is written, or one with a new id, and linked to tags.
Merges(url, tagIds) ==
  LET n == Norm[url]
      fresh == I!Same(n) = {}
      b == IF fresh THEN lastId.bookmark + 1 ELSE I!Min(I!Same(n)) IN
  /\ bookmark' = I!With(bookmark, b, url)
  /\ link' = link \cup {b} \X tagIds
  /\ lastId' = IF fresh THEN [lastId EXCEPT !.bookmark = b] ELSE lastId
LEMMA MergeRows ==
  ASSUME RowsOK, NEW url \in URL, NEW tagIds \in SUBSET DOMAIN tag, Merges(url, tagIds), tag' = tag
  PROVE  /\ RowsOK' /\ Grows
         /\ \E b \in DOMAIN bookmark' : /\ Norm[bookmark'[b]] = Norm[url]
                                      /\ \A t \in tagIds : <<b, t>> \in link'
  <1> DEFINE n == Norm[url]
             b == IF I!Same(n) = {} THEN lastId.bookmark + 1 ELSE I!Min(I!Same(n))
  <1>1. /\ lastId \in [bookmark : Nat, tag : Nat] /\ lastId.tag \in Nat /\ lastId.bookmark \in Nat
        /\ DOMAIN bookmark \subseteq 1..lastId.bookmark /\ DOMAIN tag \subseteq 1..lastId.tag
        /\ bookmark \in [DOMAIN bookmark -> URL]
        /\ link \subseteq (DOMAIN bookmark) \X (DOMAIN tag)
        /\ \A c, d \in DOMAIN bookmark : Norm[bookmark[c]] = Norm[bookmark[d]] => c = d
    BY DEF RowsOK
  <1>2. /\ \A c \in DOMAIN bookmark : Norm[bookmark[c]] = n <=> c = b
        /\ lastId' \in [bookmark : Nat, tag : Nat] /\ lastId'.tag = lastId.tag
        /\ lastId.bookmark <= lastId'.bookmark /\ b \in 1..lastId'.bookmark
    <2>1. CASE I!Same(n) = {}
      <3>1. b = lastId.bookmark + 1 /\ lastId' = [lastId EXCEPT !.bookmark = b]
        BY <2>1 DEF Merges
      <3>2. \A c \in DOMAIN bookmark : Norm[bookmark[c]] # n
        BY <2>1 DEF I!Same
      <3> HIDE DEF b
      <3> QED BY <1>1, <3>1, <3>2
    <2>2. CASE I!Same(n) # {}
      <3>1. b = I!Min(I!Same(n)) /\ lastId' = lastId
        BY <2>2 DEF Merges
      <3> HIDE DEF b
      <3>2. /\ b \in DOMAIN bookmark /\ Norm[bookmark[b]] = n
            /\ \A c \in DOMAIN bookmark : Norm[bookmark[c]] = n => c = b
        <4> HIDE DEF n
        <4> QED BY <2>2, <3>1, SameId
      <3> QED BY <1>1, <3>1, <3>2
    <2> QED BY <2>1, <2>2
  <1>3. bookmark' = I!With(bookmark, b, url) /\ link' = link \cup {b} \X tagIds
    BY DEF Merges
  <1> HIDE DEF b
  <1>4. /\ DOMAIN bookmark' = DOMAIN bookmark \cup {b} /\ bookmark'[b] = url
        /\ \A y \in DOMAIN bookmark \ {b} : bookmark'[y] = bookmark[y]
    BY <1>3 DEF I!With
  <1>5. bookmark' \in [DOMAIN bookmark' -> URL]
    BY <1>1, <1>3, WithType
  <1>6. DOMAIN bookmark' \subseteq 1..lastId'.bookmark
    <2>1. lastId'.bookmark \in Nat
      BY <1>2
    <2> QED BY <1>1, <1>2, <1>4, <2>1
  <1>7. link' \subseteq (DOMAIN bookmark') \X (DOMAIN tag')
    BY <1>1, <1>3, <1>4
  <1>8. \A c \in DOMAIN bookmark' : Norm[bookmark'[c]] = n <=> c = b
    BY <1>2, <1>4
  <1>9. \A c, d \in DOMAIN bookmark' : Norm[bookmark'[c]] = Norm[bookmark'[d]] => c = d
    <2> HIDE DEF n
    <2>1. \A c \in DOMAIN bookmark' \ {b} : c \in DOMAIN bookmark /\ bookmark'[c] = bookmark[c]
      BY <1>4
    <2> SUFFICES ASSUME NEW c \in DOMAIN bookmark', NEW d \in DOMAIN bookmark',
                        Norm[bookmark'[c]] = Norm[bookmark'[d]]
                 PROVE  c = d
      OBVIOUS
    <2>2. CASE c = b \/ d = b
      BY <1>8, <2>2
    <2>3. CASE c # b /\ d # b
      BY <1>1, <2>1, <2>3
    <2> QED BY <2>2, <2>3
  <1>10. RowsOK'
    BY <1>1, <1>2, <1>5, <1>6, <1>7, <1>9 DEF RowsOK
  <1>11. \A m : Intact(m)
    <2> SUFFICES ASSUME NEW m, NEW c \in DOMAIN bookmark, Norm[bookmark[c]] = m
                 PROVE  c \in DOMAIN bookmark' /\ Norm[bookmark'[c]] = m
      BY <1>3 DEF Intact
    <2>1. CASE c = b
      BY <1>2, <1>4, <2>1
    <2>2. CASE c # b
      BY <1>4, <2>2
    <2> QED BY <2>1, <2>2
  <1>12. Grows
    BY <1>1, <1>2, <1>11 DEF Grows, Keeps
  <1>13. \A t \in tagIds : <<b, t>> \in link'
    BY <1>3
  <1> QED BY <1>4, <1>8, <1>10, <1>12, <1>13

-----------------------------------------------------------------------------
(* Other requests. *)

\* What other requests do to an import's variables.
LEMMA DisturbsIs ==
  ASSUME CallsOK, NEW norms \in [Request -> SUBSET Norms], I!Disturbs(norms)
  PROVE  /\ CallsOK'
         /\ \A r \in Request :
              /\ import'[r].pc = import[r].pc /\ import'[r].file = import[r].file
              /\ import'[r].items = import[r].items /\ import'[r].ids = import[r].ids
              /\ import'[r].seen = import[r].seen
              /\ import'[r].disturbed = import[r].disturbed \cup norms[r]
  <1>1. ASSUME NEW r \in Request
        PROVE  /\ import'[r] \in Importing
               /\ import'[r].pc = import[r].pc /\ import'[r].file = import[r].file
               /\ import'[r].items = import[r].items /\ import'[r].ids = import[r].ids
               /\ import'[r].seen = import[r].seen
               /\ import'[r].disturbed = import[r].disturbed \cup norms[r]
    <2>1. import[r] \in Importing
      BY DEF CallsOK
    <2>2. import'[r] = [import[r] EXCEPT !.disturbed = @ \cup norms[r]]
      BY DEF I!Disturbs
    <2> QED BY <2>1, <2>2 DEF Importing
  <1>2. import' \in [Request -> Importing]
    BY <1>1 DEF I!Disturbs
  <1> QED BY <1>1, <1>2 DEF CallsOK

\* What an import sees of that, if tags keep their names.
LEMMA DisturbsSees ==
  ASSUME CallsOK, NEW norms \in [Request -> SUBSET Norms], I!Disturbs(norms),
         lastId'.tag \in Nat, lastId.tag <= lastId'.tag,
         \A r \in Request : \A n \in Norms : n \in norms[r] \/ Intact(n),
         \A r \in Request : \A t \in 1..lastId.tag :
           \/ Keeps(t)
           \/ \A i \in 1..Len(import[r].items), m \in DOMAIN import[r].ids :
                m \in import[r].items[i].names /\ import[r].ids[m] = t =>
                  Norm[import[r].items[i].url] \in norms[r]
  PROVE  CallsOK' /\ \A r \in Request : Sees(r)
  BY DisturbsIs DEF Sees

\* The URLs of a tag's bookmarks, and of the items that are to get it.
Bearers(t) == {Norm[bookmark[l[1]]] : l \in {k \in link : k[2] = t}}
Takers(r, t) ==
  {Norm[import[r].items[i].url] : i \in {j \in DOMAIN import[r].items :
     \E n \in import[r].items[j].names \cap DOMAIN import[r].ids : import[r].ids[n] = t}}
LEMMA TouchedIs ==
  ASSUME RowsOK, CallsOK, NEW t, I!Touched(t)
  PROVE  \E norms \in [Request -> SUBSET Norms] :
           /\ I!Disturbs(norms)
           /\ \A r \in Request :
                /\ \A b \in DOMAIN bookmark : <<b, t>> \in link => Norm[bookmark[b]] \in norms[r]
                /\ \A i \in 1..Len(import[r].items), m \in DOMAIN import[r].ids :
                     m \in import[r].items[i].names /\ import[r].ids[m] = t =>
                       Norm[import[r].items[i].url] \in norms[r]
  <1> DEFINE norms == [r \in Request |-> Bearers(t) \cup Takers(r, t)]
  <1>1. I!Disturbs(norms)
    BY DEF I!Touched, Bearers, Takers
  <1>2. Bearers(t) \subseteq Norms
    <2>1. \A l \in link : l[1] \in DOMAIN bookmark /\ bookmark[l[1]] \in URL
      BY DEF RowsOK
    <2> QED BY <2>1 DEF Bearers, Norms
  <1>3. \A r \in Request : Takers(r, t) \subseteq Norms
    <2> TAKE r \in Request
    <2>1. \A i \in DOMAIN import[r].items : Norm[import[r].items[i].url] \in Norms
      BY LocalIs
    <2> QED BY <2>1 DEF Takers
  <1>4. norms \in [Request -> SUBSET Norms]
    BY <1>2, <1>3
  <1>5. \A b \in DOMAIN bookmark : <<b, t>> \in link => Norm[bookmark[b]] \in Bearers(t)
    <2> SUFFICES ASSUME NEW b \in DOMAIN bookmark, <<b, t>> \in link
                 PROVE  Norm[bookmark[b]] \in Bearers(t)
      OBVIOUS
    <2>1. <<b, t>>[1] = b /\ <<b, t>>[2] = t
      OBVIOUS
    <2> QED BY <2>1 DEF Bearers
  <1>6. ASSUME NEW r \in Request, NEW i \in 1..Len(import[r].items), NEW m \in DOMAIN import[r].ids,
               m \in import[r].items[i].names, import[r].ids[m] = t
        PROVE  Norm[import[r].items[i].url] \in Takers(r, t)
    <2>1. i \in DOMAIN import[r].items
      BY LocalIs
    <2> QED BY <1>6, <2>1 DEF Takers
  <1> HIDE DEF norms
  <1>7. \A r \in Request : norms[r] = Bearers(t) \cup Takers(r, t)
    BY DEF norms
  <1> QED BY <1>1, <1>4, <1>5, <1>6, <1>7

\* The rows that a step does not remove or change but for one bookmark.
LEMMA DeleteBookmarkKeeps ==
  ASSUME RowsOK, CallsOK, NEW b \in DOMAIN bookmark, I!DeleteBookmark(b)
  PROVE  RowsOK' /\ CallsOK' /\ \A r \in Request : Sees(r)
  <1>1. /\ tag' = tag /\ lastId' = lastId /\ lastId.tag \in Nat
        /\ bookmark' = I!Without(bookmark, b) /\ link' = {l \in link : l[1] # b}
    BY DEF I!DeleteBookmark, RowsOK
  <1>2. /\ DOMAIN bookmark' = DOMAIN bookmark \ {b}
        /\ \A y \in DOMAIN bookmark \ {b} : bookmark'[y] = bookmark[y]
    BY <1>1 DEF I!Without
  <1>3. bookmark' \in [DOMAIN bookmark' -> URL]
    BY <1>1, WithoutType DEF RowsOK
  <1>4. link' \subseteq (DOMAIN bookmark') \X (DOMAIN tag')
    BY <1>1, <1>2 DEF RowsOK
  <1>5. RowsOK'
    BY <1>1, <1>2, <1>3, <1>4 DEF RowsOK
  <1>6. PICK norms \in [Request -> SUBSET Norms] :
          I!Disturbs(norms) /\ \A r \in Request : norms[r] = {Norm[bookmark[b]]}
    <2>1. [r \in Request |-> {Norm[bookmark[b]]}] \in [Request -> SUBSET Norms]
      BY DEF RowsOK, Norms
    <2> QED BY <2>1 DEF I!DeleteBookmark
  <1>7. ASSUME NEW n \in Norms, n # Norm[bookmark[b]] PROVE Intact(n)
    <2> SUFFICES ASSUME NEW c \in DOMAIN bookmark, Norm[bookmark[c]] = n
                 PROVE  /\ c \in DOMAIN bookmark' /\ Norm[bookmark'[c]] = n
                        /\ \A t \in DOMAIN tag : <<c, t>> \in link => <<c, t>> \in link'
      BY <1>1 DEF Intact
    <2>1. c # b
      BY <1>7
    <2>2. \A t : <<c, t>> \in link => <<c, t>> \in link'
      <3>1. \A t : <<c, t>>[1] = c
        OBVIOUS
      <3> QED BY <1>1, <2>1, <3>1
    <2> QED BY <1>2, <2>1, <2>2
  <1>8. \A t \in 1..lastId.tag : Keeps(t)
    BY <1>1 DEF Keeps
  <1> QED BY <1>1, <1>5, <1>6, <1>7, <1>8, DisturbsSees

\* A tag that is renamed, removed or merged into another: its bookmarks and takers
\* are disturbed, the other tags and what is linked to them stay.
Spares(t) ==
  /\ bookmark' = bookmark /\ lastId' = lastId
  /\ \A u \in DOMAIN tag \ {t} : u \in DOMAIN tag' /\ tag'[u] = tag[u]
  /\ DOMAIN tag' \subseteq DOMAIN tag
  /\ \A l \in link : l[2] # t => l \in link'
LEMMA SparesSees ==
  ASSUME RowsOK, CallsOK, NEW t \in DOMAIN tag, Spares(t), I!Touched(t)
  PROVE  CallsOK' /\ \A r \in Request : Sees(r)
  <1>1. PICK norms \in [Request -> SUBSET Norms] :
          /\ I!Disturbs(norms)
          /\ \A r \in Request :
               /\ \A b \in DOMAIN bookmark : <<b, t>> \in link => Norm[bookmark[b]] \in norms[r]
               /\ \A i \in 1..Len(import[r].items), m \in DOMAIN import[r].ids :
                    m \in import[r].items[i].names /\ import[r].ids[m] = t =>
                      Norm[import[r].items[i].url] \in norms[r]
    BY TouchedIs
  <1>2. ASSUME NEW r \in Request, NEW n \in Norms, n \notin norms[r] PROVE Intact(n)
    <2> SUFFICES ASSUME NEW b \in DOMAIN bookmark, Norm[bookmark[b]] = n,
                        NEW u \in DOMAIN tag, <<b, u>> \in link
                 PROVE  u \in DOMAIN tag' /\ tag'[u] = tag[u] /\ <<b, u>> \in link'
      BY DEF Intact, Spares
    <2>1. u # t
      BY <1>1, <1>2
    <2>2. <<b, u>>[2] = u
      OBVIOUS
    <2> QED BY <2>1, <2>2 DEF Spares
  <1>3. \A u \in 1..lastId.tag : u # t => Keeps(u)
    BY DEF Keeps, Spares
  <1>4. lastId'.tag \in Nat /\ lastId.tag <= lastId'.tag
    BY DEF RowsOK, Spares
  <1> QED BY <1>1, <1>2, <1>3, <1>4, DisturbsSees

LEMMA RenameTagKeeps ==
  ASSUME RowsOK, CallsOK, NEW t \in DOMAIN tag, NEW n \in TagName, I!RenameTag(t, n)
  PROVE  RowsOK' /\ CallsOK' /\ \A r \in Request : Sees(r)
  <1>1. /\ tag' = [tag EXCEPT ![t] = n] /\ I!Touched(t)
        /\ bookmark' = bookmark /\ link' = link /\ lastId' = lastId
    BY DEF I!RenameTag
  <1>2. tag' \in [DOMAIN tag -> TagName] /\ DOMAIN tag' = DOMAIN tag
    BY <1>1 DEF RowsOK
  <1>3. RowsOK'
    BY <1>1, <1>2 DEF RowsOK
  <1>4. Spares(t)
    BY <1>1, <1>2 DEF Spares, RowsOK
  <1> QED BY <1>1, <1>3, <1>4, SparesSees

LEMMA DeleteTagKeeps ==
  ASSUME RowsOK, CallsOK, NEW t \in DOMAIN tag, I!DeleteTag(t)
  PROVE  RowsOK' /\ CallsOK' /\ \A r \in Request : Sees(r)
  <1>1. /\ tag' = I!Without(tag, t) /\ I!Touched(t) /\ link' = {l \in link : l[2] # t}
        /\ bookmark' = bookmark /\ lastId' = lastId
    BY DEF I!DeleteTag
  <1>2. /\ DOMAIN tag' = DOMAIN tag \ {t}
        /\ \A y \in DOMAIN tag \ {t} : tag'[y] = tag[y]
    BY <1>1 DEF I!Without
  <1>3. tag' \in [DOMAIN tag' -> TagName]
    BY <1>1, WithoutType DEF RowsOK
  <1>4. link' \subseteq (DOMAIN bookmark) \X (DOMAIN tag')
    BY <1>1, <1>2 DEF RowsOK
  <1>5. RowsOK'
    BY <1>1, <1>2, <1>3, <1>4 DEF RowsOK
  <1>6. Spares(t)
    BY <1>1, <1>2 DEF Spares
  <1> QED BY <1>1, <1>5, <1>6, SparesSees

LEMMA MergeTagKeeps ==
  ASSUME RowsOK, CallsOK, NEW t \in DOMAIN tag, NEW u \in DOMAIN tag, I!MergeTag(t, u)
  PROVE  RowsOK' /\ CallsOK' /\ \A r \in Request : Sees(r)
  <1>1. /\ tag' = I!Without(tag, t) /\ I!Touched(t) /\ t # u
        /\ link' = {<<l[1], IF l[2] = t THEN u ELSE l[2]>> : l \in link}
        /\ bookmark' = bookmark /\ lastId' = lastId
    BY DEF I!MergeTag
  <1>2. /\ DOMAIN tag' = DOMAIN tag \ {t}
        /\ \A y \in DOMAIN tag \ {t} : tag'[y] = tag[y]
    BY <1>1 DEF I!Without
  <1>3. tag' \in [DOMAIN tag' -> TagName]
    BY <1>1, WithoutType DEF RowsOK
  <1>4. \A l \in link : /\ l = <<l[1], l[2]>> /\ l[1] \in DOMAIN bookmark /\ l[2] \in DOMAIN tag
    BY DEF RowsOK
  <1>5. link' \subseteq (DOMAIN bookmark) \X (DOMAIN tag')
    BY <1>1, <1>2, <1>4
  <1>6. RowsOK'
    BY <1>1, <1>2, <1>3, <1>5 DEF RowsOK
  <1>7. Spares(t)
    <2>1. \A l \in link : l[2] # t => l \in link'
      BY <1>1, <1>4
    <2> QED BY <1>1, <1>2, <2>1 DEF Spares
  <1> QED BY <1>1, <1>6, <1>7, SparesSees

\* A save changes the tags of one bookmark, which is new or the URL's, and may make
\* a tag.
LEMMA SaveBookmarkKeeps ==
  ASSUME RowsOK, CallsOK, NEW url \in URL,
         NEW names \in {{}} \cup {{n} : n \in TagName}, I!Save(url, names)
  PROVE  RowsOK' /\ CallsOK' /\ \A r \in Request : Sees(r)
  <1> DEFINE n == Norm[url]
             b == IF I!Same(n) = {} THEN lastId.bookmark + 1 ELSE I!Min(I!Same(n))
             known == \A m \in names : I!Named(m) # {}
             t == IF known THEN {I!Min(I!Named(m)) : m \in names} ELSE {lastId.tag + 1}
  <1>1. /\ lastId \in [bookmark : Nat, tag : Nat] /\ lastId.tag \in Nat /\ lastId.bookmark \in Nat
        /\ DOMAIN bookmark \subseteq 1..lastId.bookmark /\ DOMAIN tag \subseteq 1..lastId.tag
        /\ bookmark \in [DOMAIN bookmark -> URL] /\ tag \in [DOMAIN tag -> TagName]
        /\ link \subseteq (DOMAIN bookmark) \X (DOMAIN tag)
        /\ \A c, d \in DOMAIN bookmark : Norm[bookmark[c]] = Norm[bookmark[d]] => c = d
    BY DEF RowsOK
  <1>2. /\ bookmark' = IF I!Same(n) = {} THEN I!With(bookmark, b, url) ELSE bookmark
        /\ tag' = IF known THEN tag ELSE I!With(tag, lastId.tag + 1, CHOOSE m \in names : TRUE)
        /\ link' = {l \in link : l[1] # b} \cup {b} \X t
        /\ lastId' = [bookmark |-> IF I!Same(n) = {} THEN b ELSE lastId.bookmark,
                    tag |-> IF known THEN lastId.tag ELSE lastId.tag + 1]
        /\ I!Disturbs([r \in Request |-> {Norm[url]}])
    BY DEF I!Save
  <1>3. /\ \A c \in DOMAIN bookmark : Norm[bookmark[c]] = n <=> c = b
        /\ lastId'.bookmark \in Nat /\ lastId.bookmark <= lastId'.bookmark
        /\ DOMAIN bookmark' = DOMAIN bookmark \cup {b} /\ b \in 1..lastId'.bookmark
        /\ \A c \in DOMAIN bookmark : bookmark'[c] = bookmark[c]
        /\ bookmark' \in [DOMAIN bookmark' -> URL] /\ Norm[bookmark'[b]] = n
    <2>1. CASE I!Same(n) = {}
      <3>1. /\ b = lastId.bookmark + 1 /\ lastId'.bookmark = b /\ bookmark' = I!With(bookmark, b, url)
        BY <1>2, <2>1
      <3>2. \A c \in DOMAIN bookmark : Norm[bookmark[c]] # n
        BY <2>1 DEF I!Same
      <3> HIDE DEF b
      <3>3. b \notin DOMAIN bookmark
        BY <1>1, <3>1
      <3>4. /\ DOMAIN bookmark' = DOMAIN bookmark \cup {b} /\ bookmark'[b] = url
            /\ \A y \in DOMAIN bookmark \ {b} : bookmark'[y] = bookmark[y]
        BY <3>1 DEF I!With
      <3>5. bookmark' \in [DOMAIN bookmark' -> URL]
        BY <1>1, <3>1, WithType
      <3> QED BY <1>1, <3>1, <3>2, <3>3, <3>4, <3>5
    <2>2. CASE I!Same(n) # {}
      <3>1. b = I!Min(I!Same(n)) /\ lastId'.bookmark = lastId.bookmark /\ bookmark' = bookmark
        BY <1>2, <2>2
      <3> HIDE DEF b
      <3>2. /\ b \in DOMAIN bookmark /\ Norm[bookmark[b]] = n
            /\ \A c \in DOMAIN bookmark : Norm[bookmark[c]] = n => c = b
        <4> HIDE DEF n
        <4> QED BY <2>2, <3>1, SameId
      <3> HIDE DEF n, known, t
      <3>3. DOMAIN bookmark \cup {b} = DOMAIN bookmark /\ b \in 1..lastId.bookmark
        BY <1>1, <3>2
      <3> QED BY <1>1, <3>1, <3>2, <3>3
    <2> QED BY <2>1, <2>2
  <1>4. /\ lastId'.tag \in Nat /\ lastId.tag <= lastId'.tag
        /\ DOMAIN tag \subseteq DOMAIN tag' /\ DOMAIN tag' \subseteq 1..lastId'.tag
        /\ \A u \in DOMAIN tag : tag'[u] = tag[u]
        /\ tag' \in [DOMAIN tag' -> TagName] /\ t \subseteq DOMAIN tag'
        /\ \A u \in 1..lastId.tag : u \in DOMAIN tag' => u \in DOMAIN tag
    <2>1. CASE known
      <3>1. tag' = tag /\ lastId'.tag = lastId.tag /\ t = {I!Min(I!Named(m)) : m \in names}
        BY <1>2, <2>1
      <3>2. \A m \in names : I!Min(I!Named(m)) \in DOMAIN tag
        <4> SUFFICES ASSUME NEW m \in names PROVE I!Min(I!Named(m)) \in DOMAIN tag
          OBVIOUS
        <4>1. I!Min(I!Named(m)) \in I!Named(m)
          BY <2>1, NamedIds
        <4> QED BY <4>1 DEF I!Named
      <3> HIDE DEF t, known, n
      <3>3. t \subseteq DOMAIN tag
        BY <3>1, <3>2
      <3> QED BY <1>1, <3>1, <3>3
    <2>2. CASE ~known
      <3> DEFINE new == lastId.tag + 1
                 m == CHOOSE k \in names : TRUE
      <3>1. tag' = I!With(tag, new, m) /\ lastId'.tag = new /\ t = {new}
        BY <1>2, <2>2
      <3>2. m \in TagName
        <4>1. names # {}
          BY <2>2
        <4>2. m \in names
          BY <4>1
        <4> QED BY <4>2
      <3>3. new \in Nat /\ lastId.tag <= new /\ new \notin 1..lastId.tag /\ new \in 1..new
            /\ 1..lastId.tag \subseteq 1..new
        BY <1>1
      <3> HIDE DEF new, m, t
      <3>4. /\ DOMAIN tag' = DOMAIN tag \cup {new} /\ tag'[new] = m
            /\ \A y \in DOMAIN tag \ {new} : tag'[y] = tag[y]
        BY <3>1 DEF I!With
      <3>5. tag' \in [DOMAIN tag' -> TagName]
        BY <1>1, <3>1, <3>2, WithType
      <3> QED BY <1>1, <3>1, <3>3, <3>4, <3>5
    <2> QED BY <2>1, <2>2
  <1>5. lastId' \in [bookmark : Nat, tag : Nat]
    BY <1>2, <1>3, <1>4
  <1> HIDE DEF b, t, known
  <1>6. link' \subseteq (DOMAIN bookmark') \X (DOMAIN tag')
    BY <1>1, <1>2, <1>3, <1>4
  <1>7. \A c, d \in DOMAIN bookmark' : Norm[bookmark'[c]] = Norm[bookmark'[d]] => c = d
    <2> HIDE DEF n
    <2>1. \A c \in DOMAIN bookmark' \ {b} : c \in DOMAIN bookmark /\ bookmark'[c] = bookmark[c]
      BY <1>3
    <2> SUFFICES ASSUME NEW c \in DOMAIN bookmark', NEW d \in DOMAIN bookmark',
                        Norm[bookmark'[c]] = Norm[bookmark'[d]]
                 PROVE  c = d
      OBVIOUS
    <2>2. CASE c = b \/ d = b
      BY <1>3, <2>1, <2>2
    <2>3. CASE c # b /\ d # b
      BY <1>1, <2>1, <2>3
    <2> QED BY <2>2, <2>3
  <1>8. DOMAIN bookmark' \subseteq 1..lastId'.bookmark
    BY <1>1, <1>3
  <1>9. RowsOK'
    BY <1>3, <1>4, <1>5, <1>6, <1>7, <1>8 DEF RowsOK
  <1>10. ASSUME NEW k \in Norms, k # n PROVE Intact(k)
    <2> SUFFICES ASSUME NEW c \in DOMAIN bookmark, Norm[bookmark[c]] = k
                 PROVE  /\ c \in DOMAIN bookmark' /\ Norm[bookmark'[c]] = k
                        /\ \A u \in DOMAIN tag : <<c, u>> \in link =>
                             u \in DOMAIN tag' /\ tag'[u] = tag[u] /\ <<c, u>> \in link'
      BY DEF Intact
    <2>1. c # b
      BY <1>3, <1>10
    <2>2. \A u : <<c, u>> \in link => <<c, u>> \in link'
      <3>1. \A u : <<c, u>>[1] = c
        OBVIOUS
      <3> QED BY <1>2, <2>1, <3>1
    <2> QED BY <1>3, <1>4, <2>2
  <1>11. PICK norms \in [Request -> SUBSET Norms] :
           I!Disturbs(norms) /\ \A r \in Request : norms[r] = {n}
    <2>1. [r \in Request |-> {n}] \in [Request -> SUBSET Norms]
      BY DEF Norms
    <2> QED BY <1>2, <2>1
  <1>12. \A u \in 1..lastId.tag : Keeps(u)
    BY <1>4 DEF Keeps
  <1> QED BY <1>4, <1>9, <1>10, <1>11, <1>12, DisturbsSees

-----------------------------------------------------------------------------
(* The import's own steps. *)

\* A step of one import that keeps the rows of the others keeps their progress.
LEMMA OthersKeep ==
  ASSUME RowsOK, CallsOK, \A q \in Request : Progress(q), Grows,
         NEW r \in Request, NEW d \in Importing, I!Goto(r, d), Progress(r)'
  PROVE  CallsOK' /\ \A q \in Request : Progress(q)'
  <1>1. CallsOK'
    BY DEF I!Goto, CallsOK
  <1>2. ASSUME NEW q \in Request, q # r PROVE Progress(q)'
    <2>1. import'[q] = import[q]
      BY <1>2 DEF I!Goto
    <2> QED BY <2>1, GrowsIsSeen, SeesKeeps
  <1> QED BY <1>1, <1>2

LEMMA GotoIs ==
  ASSUME CallsOK, NEW r \in Request, NEW d, I!Goto(r, d)
  PROVE  import'[r] = d
  BY DEF I!Goto, CallsOK

LEMMA IdleIs == I!Idle \in Importing /\ I!Idle.pc = "idle" /\ I!Idle.seen = {}
  <1>1. <<>> \in Seq(I!Item) /\ <<>> \in [{} -> Nat]
    OBVIOUS
  <1>2. <<>> \in Ids
    BY <1>1 DEF Ids
  <1> QED BY <1>1, <1>2 DEF I!Idle, Importing

\* An import that has stopped promises nothing.
LEMMA IdleKeeps ==
  ASSUME ImportInv, NEW r \in Request, I!Goto(r, I!Idle), UNCHANGED <<bookmark, tag, link, lastId>>
  PROVE  ImportInv'
  <1>1. RowsOK' /\ Grows
    BY SameRows DEF ImportInv
  <1>2. import'[r] = I!Idle
    BY GotoIs DEF ImportInv
  <1>3. Progress(r)'
    BY <1>2, IdleIs DEF Progress
  <1> QED BY <1>1, <1>3, IdleIs, OthersKeep DEF ImportInv

\* The sequence of the items that are left after one more.
LEMMA TailIs ==
  ASSUME NEW S, NEW f \in Seq(S), NEW s \in Seq(S), s # <<>>, Len(s) <= Len(f),
         \A i \in 1..Len(s) : s[i] = f[(Len(f) - Len(s)) + i]
  PROVE  /\ Tail(s) \in Seq(S) /\ Len(Tail(s)) = Len(s) - 1 /\ Len(Tail(s)) <= Len(f)
         /\ Len(f) - Len(Tail(s)) = (Len(f) - Len(s)) + 1 /\ Len(f) - Len(s) \in Nat
         /\ \A i \in 1..Len(Tail(s)) : i + 1 \in 1..Len(s) /\ Tail(s)[i] = s[i + 1]
         /\ \A i \in 1..Len(Tail(s)) : Tail(s)[i] = f[(Len(f) - Len(Tail(s))) + i]
         /\ 1 \in 1..Len(s) /\ Head(s) = s[1] /\ s[1] = f[(Len(f) - Len(s)) + 1]
  <1>1. /\ Len(s) \in Nat /\ Len(f) \in Nat /\ Len(s) > 0
        /\ Tail(s) \in Seq(S) /\ Len(Tail(s)) = Len(s) - 1 /\ Head(s) = s[1]
    OBVIOUS
  <1>2. \A i \in 1..Len(Tail(s)) : i + 1 \in 1..Len(s) /\ Tail(s)[i] = s[i + 1]
    BY <1>1
  <1>3. Len(f) - Len(Tail(s)) = (Len(f) - Len(s)) + 1 /\ Len(f) - Len(s) \in Nat
    BY <1>1
  <1>4. \A i \in 1..Len(Tail(s)) : Tail(s)[i] = f[(Len(f) - Len(Tail(s))) + i]
    <2> SUFFICES ASSUME NEW i \in 1..Len(Tail(s))
                 PROVE  Tail(s)[i] = f[(Len(f) - Len(Tail(s))) + i]
      OBVIOUS
    <2>1. s[i + 1] = f[(Len(f) - Len(s)) + (i + 1)]
      BY <1>2
    <2>2. (Len(f) - Len(s)) + (i + 1) = (Len(f) - Len(Tail(s))) + i
      BY <1>1
    <2> QED BY <1>2, <2>1, <2>2
  <1>5. 1 \in 1..Len(s) /\ Len(Tail(s)) <= Len(f)
    BY <1>1
  <1>6. s[1] = f[(Len(f) - Len(s)) + 1]
    BY <1>5
  <1> QED BY <1>1, <1>2, <1>3, <1>4, <1>5, <1>6, Zenon

\* What that is for an import.
NextItem(c, d) ==
  /\ Suffix(d) /\ Handled(c) \in Nat /\ Handled(d) = Handled(c) + 1
  /\ d.items \in Seq(I!Item)
  /\ \A i \in 1..Len(d.items) : i + 1 \in 1..Len(c.items) /\ d.items[i] = c.items[i + 1]
  /\ 1 \in 1..Len(c.items) /\ Head(c.items) = c.items[1] /\ Head(c.items) \in I!Item
  /\ c.items[1] = c.file[Handled(c) + 1]
  /\ 1..Handled(d) = 1..Handled(c) \cup {Handled(c) + 1}
LEMMA NextItemIs ==
  ASSUME NEW c, NEW d, c.file \in Seq(I!Item), c.items \in Seq(I!Item), c.items # <<>>, Suffix(c),
         d.file = c.file, d.items = Tail(c.items)
  PROVE  NextItem(c, d)
  <1>1. PICK f \in Seq(I!Item), s \in Seq(I!Item) :
          f = c.file /\ s = c.items /\ d.file = f /\ d.items = Tail(s)
    OBVIOUS
  <1>2. Handled(c) = Len(f) - Len(s) /\ Handled(d) = Len(f) - Len(Tail(s))
    BY <1>1 DEF Handled
  <1>3. s # <<>> /\ Len(s) <= Len(f) /\ \A i \in 1..Len(s) : s[i] = f[(Len(f) - Len(s)) + i]
    BY <1>1, <1>2 DEF Suffix
  <1>4. /\ Tail(s) \in Seq(I!Item) /\ Len(Tail(s)) = Len(s) - 1 /\ Len(Tail(s)) <= Len(f)
        /\ Len(f) - Len(Tail(s)) = (Len(f) - Len(s)) + 1 /\ Len(f) - Len(s) \in Nat
        /\ \A i \in 1..Len(Tail(s)) : i + 1 \in 1..Len(s) /\ Tail(s)[i] = s[i + 1]
        /\ \A i \in 1..Len(Tail(s)) : Tail(s)[i] = f[(Len(f) - Len(Tail(s))) + i]
        /\ 1 \in 1..Len(s) /\ Head(s) = s[1] /\ s[1] = f[(Len(f) - Len(s)) + 1]
    BY <1>3, TailIs
  <1>5. \A n \in Nat : 1..(n + 1) = 1..n \cup {n + 1}
    OBVIOUS
  <1>6. Suffix(d)
    BY <1>1, <1>2, <1>4 DEF Suffix
  <1>7. s[1] \in I!Item
    BY <1>4
  <1>8. 1..Handled(d) = 1..Handled(c) \cup {Handled(c) + 1}
    BY <1>2, <1>4, <1>5
  <1> QED BY <1>1, <1>2, <1>4, <1>6, <1>7, <1>8 DEF NextItem

LEMMA PreloadKeeps ==
  ASSUME I!ImportAssumption, ImportInv, NEW r \in Request, I!Preload(r)
  PROVE  ImportInv'
  <1>1. PICK f \in ImportFiles :
          /\ I!Goto(r, [I!Idle EXCEPT !.pc = "tags", !.file = f, !.items = f,
                        !.ids = [n \in {m \in TagName : I!Named(m) # {}} |-> I!Max(I!Named(n))]])
          /\ UNCHANGED <<bookmark, tag, link, lastId>>
    BY DEF I!Preload
  <1> DEFINE found == {m \in TagName : I!Named(m) # {}}
             tagIds == [n \in found |-> I!Max(I!Named(n))]
             e == [I!Idle EXCEPT !.pc = "tags", !.file = f, !.items = f, !.ids = tagIds]
  <1>2. RowsOK' /\ Grows /\ RowsOK /\ CallsOK /\ tag' = tag /\ lastId' = lastId
    BY <1>1, SameRows DEF ImportInv
  <1>3. DOMAIN tagIds = found /\ \A n \in found : tagIds[n] = I!Max(I!Named(n))
    OBVIOUS
  <1>4. \A n \in found : tagIds[n] \in DOMAIN tag /\ tag[tagIds[n]] = n
    <2> SUFFICES ASSUME NEW n \in found PROVE tagIds[n] \in DOMAIN tag /\ tag[tagIds[n]] = n
      OBVIOUS
    <2>1. I!Max(I!Named(n)) \in I!Named(n)
      BY <1>2, NamedIds
    <2> QED BY <1>3, <2>1 DEF I!Named
  <1>5. \A n \in found : tagIds[n] \in Nat /\ tagIds[n] \in 1..lastId.tag
    <2> HIDE DEF tagIds, found
    <2>1. lastId.tag \in Nat /\ DOMAIN tag \subseteq 1..lastId.tag
      BY <1>2 DEF RowsOK
    <2> QED BY <1>4, <2>1
  <1>6. f \in Seq(I!Item) /\ tagIds \in Ids
    <2>1. tagIds \in [found -> Nat] /\ found \in SUBSET TagName
      BY <1>5
    <2>2. f \in Seq(I!Item)
      BY DEF I!ImportAssumption
    <2> HIDE DEF found, tagIds
    <2> QED BY <2>1, <2>2 DEF Ids
  <1>7. I!Goto(r, e)
    BY <1>1
  <1> HIDE DEF tagIds
  <1>8. e \in Importing
    BY <1>6, IdleIs DEF Importing
  <1>9. PICK d \in Importing : /\ d = e /\ I!Goto(r, d)
    BY <1>7, <1>8
  <1>10. import'[r] = d
    BY <1>2, <1>9, GotoIs
  <1>11. /\ d.pc = "tags" /\ d.file = f /\ d.items = f /\ d.ids = tagIds /\ d.seen = {}
    BY <1>9, IdleIs DEF Importing
  <1>12. Suffix(d)
    <2>1. Len(f) \in Nat
      BY <1>6
    <2>2. Len(f) - Len(f) = 0 /\ \A i \in 1..Len(f) : 0 + i = i
      BY <2>1
    <2>3. Handled(d) = 0
      BY <1>11, <2>2 DEF Handled
    <2> QED BY <1>11, <2>1, <2>2, <2>3 DEF Suffix
  <1>13. Knows(r)'
    BY <1>2, <1>3, <1>4, <1>5, <1>10, <1>11 DEF Knows
  <1>14. Progress(r)'
    BY <1>10, <1>11, <1>12, <1>13 DEF Progress
  <1> QED BY <1>2, <1>9, <1>14, OthersKeep DEF ImportInv

LEMMA InsertTagKeeps ==
  ASSUME ImportInv, NEW r \in Request, I!InsertTag(r)
  PROVE  ImportInv'
  <1> DEFINE c == import[r]
             new == lastId.tag + 1
  <1>0. RowsOK /\ CallsOK /\ Progress(r) /\ lastId.tag \in Nat
    BY DEF ImportInv, RowsOK
  <1>1. PICK n \in I!Missing(r) :
          /\ c.pc = "tags"
          /\ lastId' = [lastId EXCEPT !.tag = @ + 1] /\ tag' = I!With(tag, new, n)
          /\ I!Goto(r, [c EXCEPT !.ids = I!With(@, n, new)])
          /\ UNCHANGED <<bookmark, link>>
    BY DEF I!InsertTag, I!At
  <1>2. n \in TagName
    <2>1. PICK i \in DOMAIN c.items : n \in c.items[i].names
      BY DEF I!Missing
    <2>2. c.items[i] \in I!Item
      BY <1>0, LocalIs
    <2> QED BY <2>1, <2>2 DEF I!Item
  <1>3. RowsOK' /\ Grows
    BY <1>0, <1>1, <1>2, TagRows
  <1> DEFINE tagIds == I!With(c.ids, n, new)
             e == [c EXCEPT !.ids = tagIds]
  <1>4. /\ DOMAIN tagIds = DOMAIN c.ids \cup {n} /\ tagIds[n] = new
        /\ \A m \in DOMAIN c.ids \ {n} : tagIds[m] = c.ids[m]
    BY DEF I!With
  <1>5. c \in Importing /\ c.ids \in Ids
    BY <1>0, LocalIs DEF Importing
  <1>6. tagIds \in Ids
    <2>1. PICK S \in SUBSET TagName : c.ids \in [S -> Nat]
      BY <1>5 DEF Ids
    <2>2. c.ids \in [DOMAIN c.ids -> Nat] /\ DOMAIN c.ids = S /\ new \in Nat
      BY <1>0, <2>1
    <2> HIDE DEF new
    <2>3. tagIds \in [DOMAIN tagIds -> Nat]
      BY <2>2, WithType
    <2>4. DOMAIN tagIds \in SUBSET TagName
      BY <1>2, <1>4, <2>2
    <2> HIDE DEF tagIds
    <2> QED BY <2>3, <2>4 DEF Ids
  <1> HIDE DEF tagIds
  <1>7. e \in Importing
    BY <1>5, <1>6 DEF Importing
  <1>8. PICK d \in Importing : d = e /\ I!Goto(r, d)
    BY <1>1, <1>7 DEF tagIds
  <1>9. import'[r] = d
    BY <1>0, <1>8, GotoIs
  <1>10. /\ d.pc = c.pc /\ d.file = c.file /\ d.items = c.items /\ d.ids = tagIds /\ d.seen = c.seen
         /\ d.disturbed = c.disturbed
    BY <1>5, <1>8 DEF Importing
  <1>11. Suffix(d) /\ Len(d.items) = Len(d.file) /\ d.seen = {}
    BY <1>0, <1>1, <1>10 DEF Progress, Suffix, Handled
  <1>12. lastId'.tag = new /\ new \in 1..new /\ 1..lastId.tag \subseteq 1..new
    BY <1>0, <1>1 DEF RowsOK
  <1>13. Knows(r)
    BY <1>0, <1>1 DEF Progress
  <1>14. tag'[new] = n
    BY <1>1 DEF I!With
  <1> HIDE DEF new
  <1>15. ASSUME NEW i \in 1..Len(d.items), NEW m \in DOMAIN d.ids, m \in d.items[i].names,
                Norm[d.items[i].url] \notin d.disturbed, d.ids[m] \in DOMAIN tag'
         PROVE  tag'[d.ids[m]] = m
    <2>1. CASE m = n
      BY <1>4, <1>10, <1>14, <2>1
    <2>2. CASE m # n
      <3>1. m \in DOMAIN c.ids /\ d.ids[m] = c.ids[m] /\ c.ids[m] \in 1..lastId.tag
        BY <1>4, <1>10, <1>13, <2>2 DEF Knows
      <3>2. Keeps(c.ids[m])
        BY <1>3, <3>1 DEF Grows
      <3>3. c.ids[m] \in DOMAIN tag /\ tag'[c.ids[m]] = tag[c.ids[m]]
        BY <1>15, <3>1, <3>2 DEF Keeps
      <3> QED BY <1>10, <1>13, <1>15, <3>1, <3>3 DEF Knows
    <2> QED BY <2>1, <2>2
  <1>16. \A m \in DOMAIN d.ids : d.ids[m] \in 1..lastId'.tag
    BY <1>4, <1>10, <1>12, <1>13 DEF Knows
  <1>17. Knows(r)'
    BY <1>9, <1>15, <1>16 DEF Knows
  <1>18. Progress(r)'
    BY <1>1, <1>9, <1>10, <1>11, <1>17 DEF Progress
  <1> QED BY <1>3, <1>8, <1>18, OthersKeep DEF ImportInv

LEMMA PreloadedKeeps ==
  ASSUME ImportInv, NEW r \in Request, I!Preloaded(r)
  PROVE  ImportInv'
  <1> DEFINE c == import[r]
             e == [c EXCEPT !.pc = "items"]
  <1>0. /\ RowsOK /\ CallsOK /\ Progress(r) /\ RowsOK' /\ Grows
        /\ tag' = tag /\ lastId' = lastId
    BY SameRows DEF ImportInv, I!Preloaded
  <1>1. c.pc = "tags" /\ I!Missing(r) = {} /\ I!Goto(r, e)
    BY DEF I!Preloaded, I!At
  <1>2. c \in Importing
    BY <1>0, LocalIs
  <1>3. PICK d \in Importing : d = e /\ I!Goto(r, d)
    BY <1>1, <1>2 DEF Importing
  <1>4. import'[r] = d
    BY <1>0, <1>3, GotoIs
  <1>5. /\ d.pc = "items" /\ d.file = c.file /\ d.items = c.items /\ d.ids = c.ids
        /\ d.seen = c.seen /\ d.disturbed = c.disturbed
    BY <1>2, <1>3 DEF Importing
  <1>6. /\ Suffix(c) /\ Len(c.items) = Len(c.file) /\ c.seen = {} /\ Knows(r)
    BY <1>0, <1>1 DEF Progress
  <1>7. Handled(d) = 0 /\ Suffix(d)
    <2>1. Len(c.file) \in Nat
      BY <1>0, LocalIs
    <2>2. \A n \in Nat : n - n = 0
      OBVIOUS
    <2> QED BY <1>5, <1>6, <2>1, <2>2 DEF Handled, Suffix
  <1>8. Merged(r)'
    BY <1>4, <1>7 DEF Merged
  <1>9. Remembers(d)
    <2>1. \A i \in 1..Len(c.items) : c.items[i].names \subseteq DOMAIN c.ids
      <3>1. DOMAIN c.items = 1..Len(c.items)
        BY <1>0, LocalIs
      <3> SUFFICES ASSUME NEW i \in 1..Len(c.items), NEW m \in c.items[i].names
                   PROVE  m \in DOMAIN c.ids
        OBVIOUS
      <3>2. m \in UNION {c.items[k].names : k \in DOMAIN c.items}
        BY <3>1
      <3>3. I!Missing(r) = (UNION {c.items[k].names : k \in DOMAIN c.items}) \ DOMAIN c.ids
        BY Zenon DEF I!Missing
      <3> QED BY <1>1, <3>2, <3>3, Zenon
    <2>2. d.seen = {Norm[d.file[j].url] : j \in {k \in 1..Handled(d) : d.file[k].valid}}
      BY <1>5, <1>6, <1>7
    <2> QED BY <1>5, <2>1, <2>2 DEF Remembers
  <1>10. Knows(r)'
    BY <1>0, <1>4, <1>5, <1>6 DEF Knows
  <1>11. Progress(r)'
    BY <1>4, <1>5, <1>7, <1>8, <1>9, <1>10 DEF Progress
  <1> QED BY <1>0, <1>3, <1>11, OthersKeep DEF ImportInv

\* The rows do not change, and the next item is dealt with if it is not the first
\* valid one of its URL.
LEMMA SkipKeeps ==
  ASSUME ImportInv, NEW r \in Request, I!Skip(r)
  PROVE  ImportInv'
  <1> DEFINE c == import[r]
             item == Head(c.items)
             e == [c EXCEPT !.items = Tail(@), !.seen = @ \cup {}]
  <1>0. /\ RowsOK /\ CallsOK /\ Progress(r) /\ RowsOK' /\ Grows
        /\ tag' = tag /\ lastId' = lastId
    BY SameRows DEF ImportInv, I!Skip, I!Skips
  <1>1. /\ c.pc = "items" /\ c.items # <<>> /\ I!Goto(r, e)
        /\ ~item.valid \/ Norm[item.url] \in c.seen
    BY DEF I!Skip, I!Skips, I!At
  <1>2. c \in Importing /\ c.file \in Seq(I!Item) /\ c.items \in Seq(I!Item)
    BY <1>0, LocalIs
  <1>3. PICK d \in Importing : d = e /\ I!Goto(r, d)
    <2>1. Tail(c.items) \in Seq(I!Item)
      BY <1>1, <1>2
    <2>2. e \in Importing
      BY <1>2, <2>1 DEF Importing
    <2> QED BY <1>1, <2>2
  <1>4. import'[r] = d
    BY <1>0, <1>3, GotoIs
  <1>5. /\ d.pc = "items" /\ d.file = c.file /\ d.items = Tail(c.items) /\ d.ids = c.ids
        /\ d.seen = c.seen /\ d.disturbed = c.disturbed
    BY <1>1, <1>2, <1>3 DEF Importing
  <1>6. Suffix(c) /\ Merged(r) /\ Remembers(c) /\ Knows(r)
    BY <1>0, <1>1 DEF Progress
  <1>7. NextItem(c, d)
    BY <1>1, <1>2, <1>5, <1>6, NextItemIs
  <1> DEFINE k == Handled(c) + 1
  <1>8. /\ item = c.file[k] /\ item \in I!Item /\ k \in 1..Handled(d)
        /\ 1..Handled(d) = 1..Handled(c) \cup {k} /\ Handled(c) \in Nat
    BY <1>7 DEF NextItem
  <1>9. c.seen = {Norm[c.file[j].url] : j \in {m \in 1..Handled(c) : c.file[m].valid}}
    BY <1>6 DEF Remembers
  <1> HIDE DEF k, item
  <1>10. ASSUME item.valid
         PROVE  \E j \in 1..Handled(c) : c.file[j].valid /\ Norm[c.file[j].url] = Norm[c.file[k].url]
    BY <1>1, <1>8, <1>9, <1>10
  <1>11. ~Earliest(c.file, k)
    <2>1. 1..k - 1 = 1..Handled(c)
      BY <1>8 DEF k
    <2> QED BY <1>8, <1>10, <2>1 DEF Earliest
  <1>12. Merged(r)'
    <2> SUFFICES ASSUME NEW i \in 1..Handled(d), Earliest(c.file, i)
                 PROVE  Whole(r, Norm[c.file[i].url], c.file[i].names)'
      BY <1>4, <1>5 DEF Merged
    <2>1. i \in 1..Handled(c)
      BY <1>8, <1>11
    <2>2. c.file[i] \in I!Item /\ Norm[c.file[i].url] \in Norms
      BY <1>0, <2>1, LocalIs
    <2>3. PICK n \in Norms, names \in SUBSET TagName :
            n = Norm[c.file[i].url] /\ names = c.file[i].names
      BY <2>2 DEF I!Item
    <2>4. Whole(r, n, names) /\ Intact(n)
      BY <1>0, <1>6, <2>1, <2>3 DEF Merged, Grows
    <2>5. Whole(r, n, names)'
      BY <1>4, <1>5, <2>4, WholeStays
    <2> QED BY <1>4, <1>5, <2>3, <2>5 DEF Whole
  <1>13. Remembers(d)
    <2> DEFINE urls(h) == {Norm[c.file[j].url] : j \in {m \in 1..h : c.file[m].valid}}
    <2>1. urls(Handled(d)) = urls(Handled(c))
      <3>1. ASSUME NEW x \in urls(Handled(d)) PROVE x \in urls(Handled(c))
        <4>1. PICK j \in 1..Handled(d) : c.file[j].valid /\ x = Norm[c.file[j].url]
          BY <3>1
        <4>2. CASE j = k
          BY <1>8, <1>10, <4>1, <4>2
        <4>3. CASE j # k
          BY <1>8, <4>1, <4>3
        <4> QED BY <4>2, <4>3
      <3>2. ASSUME NEW x \in urls(Handled(c)) PROVE x \in urls(Handled(d))
        BY <1>8, <3>2
      <3> QED BY <3>1, <3>2
    <2>2. \A i \in 1..Len(d.items) : d.items[i].names \subseteq DOMAIN d.ids
      BY <1>5, <1>6, <1>7 DEF Remembers, NextItem
    <2>3. d.seen = urls(Handled(d))
      BY <1>5, <1>9, <2>1
    <2>4. urls(Handled(d)) = {Norm[d.file[j].url] : j \in {m \in 1..Handled(d) : d.file[m].valid}}
      BY <1>5
    <2> HIDE DEF urls
    <2> QED BY <2>2, <2>3, <2>4 DEF Remembers
  <1>14. Knows(r)'
    <2>1. \A i \in 1..Len(d.items) : i + 1 \in 1..Len(c.items) /\ d.items[i] = c.items[i + 1]
      BY <1>7 DEF NextItem
    <2> QED BY <1>0, <1>4, <1>5, <1>6, <2>1 DEF Knows
  <1>15. Progress(r)'
    BY <1>4, <1>5, <1>7, <1>12, <1>13, <1>14 DEF Progress, NextItem
  <1> QED BY <1>0, <1>3, <1>15, OthersKeep DEF ImportInv

\* A valid item of a URL that was not seen becomes a bookmark, or is one, with its
\* tags; or the import stops since one of them is gone.
LEMMA ImportItemKeeps ==
  ASSUME ImportInv, NEW r \in Request, I!ImportItem(r)
  PROVE  ImportInv'
  <1> DEFINE c == import[r]
             item == Head(c.items)
             tagIds == {c.ids[m] : m \in item.names}
             e == [c EXCEPT !.items = Tail(@), !.seen = @ \cup {Norm[item.url]}]
  <1>0. RowsOK /\ CallsOK /\ Progress(r)
    BY DEF ImportInv
  <1>1. /\ c.pc = "items" /\ c.items # <<>> /\ item.valid /\ Norm[item.url] \notin c.seen
        /\ tag' = tag
        /\ \/ tagIds \subseteq DOMAIN tag /\ Merges(item.url, tagIds) /\ I!Goto(r, e)
           \/ I!Goto(r, I!Idle) /\ UNCHANGED <<bookmark, link, lastId>>
    BY DEF I!ImportItem, I!At, Merges
  <1>2. c \in Importing /\ c.file \in Seq(I!Item) /\ c.items \in Seq(I!Item)
    BY <1>0, LocalIs
  <1>3. CASE I!Goto(r, I!Idle) /\ UNCHANGED <<bookmark, link, lastId>>
    BY <1>1, <1>3, IdleKeeps
  <1>4. CASE tagIds \subseteq DOMAIN tag /\ Merges(item.url, tagIds) /\ I!Goto(r, e)
    <2>0. item \in I!Item
      BY <1>1, <1>2
    <2>1. PICK url \in URL, names \in SUBSET TagName, set \in SUBSET DOMAIN tag :
            url = item.url /\ names = item.names /\ set = tagIds
      BY <1>4, <2>0 DEF I!Item
    <2>2. Merges(url, set)
      BY <1>4, <2>1 DEF Merges
    <2>3. /\ RowsOK' /\ Grows
          /\ \E b \in DOMAIN bookmark' : /\ Norm[bookmark'[b]] = Norm[url]
                                       /\ \A t \in set : <<b, t>> \in link'
      BY <1>0, <1>1, <2>2, MergeRows
    <2>4. PICK d \in Importing : d = e /\ I!Goto(r, d)
      <3>1. Tail(c.items) \in Seq(I!Item) /\ Norm[item.url] \in Norms
        BY <1>1, <1>2, <2>1, SMTT(30) DEF Norms
      <3> HIDE DEF item
      <3>2. e \in Importing
        BY <1>2, <3>1 DEF Importing
      <3> QED BY <1>4, <3>2
    <2>5. import'[r] = d
      BY <1>0, <2>4, GotoIs
    <2>6. /\ d.pc = "items" /\ d.file = c.file /\ d.items = Tail(c.items) /\ d.ids = c.ids
          /\ d.seen = c.seen \cup {Norm[url]} /\ d.disturbed = c.disturbed
      <3> HIDE DEF item
      <3> QED BY <1>1, <1>2, <2>1, <2>4 DEF Importing
    <2>7. Suffix(c) /\ Merged(r) /\ Remembers(c) /\ Knows(r)
      BY <1>0, <1>1 DEF Progress
    <2>8. NextItem(c, d)
      BY <1>1, <1>2, <2>6, <2>7, NextItemIs
    <2> DEFINE k == Handled(c) + 1
    <2>9. /\ item = c.file[k] /\ item = c.items[1] /\ 1 \in 1..Len(c.items)
          /\ k \in 1..Handled(d) /\ 1..Handled(d) = 1..Handled(c) \cup {k} /\ Handled(c) \in Nat
      BY <2>8 DEF NextItem
    <2>10. c.seen = {Norm[c.file[j].url] : j \in {m \in 1..Handled(c) : c.file[m].valid}}
      BY <2>7 DEF Remembers
    <2> HIDE DEF k, item
    <2>11. Whole(r, Norm[url], names)'
      <3>1. CASE Norm[url] \in c.disturbed
        BY <2>5, <2>6, <3>1 DEF Whole
      <3>2. CASE Norm[url] \notin c.disturbed
        <4>1. PICK b \in DOMAIN bookmark' : /\ Norm[bookmark'[b]] = Norm[url]
                                          /\ \A t \in set : <<b, t>> \in link'
          BY <2>3
        <4>2. ASSUME NEW m \in names
              PROVE  \E t \in DOMAIN tag' : tag'[t] = m /\ <<b, t>> \in link'
          <5>1. m \in DOMAIN c.ids
            BY <2>1, <2>7, <2>9 DEF Remembers
          <5>2. c.ids[m] \in DOMAIN tag /\ c.ids[m] \in set
            BY <1>4, <2>1
          <5>3. tag[c.ids[m]] = m
            BY <2>1, <2>7, <2>9, <3>2, <5>1, <5>2 DEF Knows
          <5> QED BY <1>1, <4>1, <5>2, <5>3
        <4> QED BY <4>1, <4>2 DEF Whole
      <3> QED BY <3>1, <3>2
    <2>12. Merged(r)'
      <3> SUFFICES ASSUME NEW i \in 1..Handled(d), Earliest(c.file, i)
                   PROVE  Whole(r, Norm[c.file[i].url], c.file[i].names)'
        BY <2>5, <2>6 DEF Merged
      <3>1. CASE i = k
        <4>1. Norm[c.file[i].url] = Norm[url] /\ c.file[i].names = names
          BY <2>1, <2>9, <3>1
        <4> QED BY <2>5, <2>6, <2>11, <4>1 DEF Whole
      <3>2. CASE i # k
        <4>1. i \in 1..Handled(c)
          BY <2>9, <3>2
        <4>2. c.file[i] \in I!Item /\ Norm[c.file[i].url] \in Norms
          BY <1>0, <4>1, LocalIs
        <4>3. PICK n \in Norms, before \in SUBSET TagName :
                n = Norm[c.file[i].url] /\ before = c.file[i].names
          BY <4>2 DEF I!Item
        <4>4. Whole(r, n, before) /\ Intact(n)
          BY <2>3, <2>7, <4>1, <4>3 DEF Merged, Grows
        <4>5. Whole(r, n, before)'
          BY <2>5, <2>6, <4>4, WholeStays
        <4> QED BY <2>5, <2>6, <4>3, <4>5 DEF Whole
      <3> QED BY <3>1, <3>2
    <2>13. Remembers(d)
      <3> DEFINE urls(h) == {Norm[c.file[j].url] : j \in {m \in 1..h : c.file[m].valid}}
      <3>1. urls(Handled(d)) = urls(Handled(c)) \cup {Norm[url]}
        <4>1. ASSUME NEW x \in urls(Handled(d)) PROVE x \in urls(Handled(c)) \cup {Norm[url]}
          <5>1. PICK j \in 1..Handled(d) : c.file[j].valid /\ x = Norm[c.file[j].url]
            BY <4>1
          <5>2. CASE j = k
            BY <2>1, <2>9, <5>1, <5>2
          <5>3. CASE j # k
            BY <2>9, <5>1, <5>3
          <5> QED BY <5>2, <5>3
        <4>2. ASSUME NEW x \in urls(Handled(c)) PROVE x \in urls(Handled(d))
          BY <2>9, <4>2
        <4>3. Norm[url] \in urls(Handled(d))
          BY <1>1, <2>1, <2>9
        <4> HIDE DEF urls
        <4> QED BY <4>1, <4>2, <4>3
      <3>2. \A i \in 1..Len(d.items) : d.items[i].names \subseteq DOMAIN d.ids
        BY <2>6, <2>7, <2>8 DEF Remembers, NextItem
      <3>3. d.seen = urls(Handled(d))
        BY <2>6, <2>10, <3>1
      <3>4. urls(Handled(d)) = {Norm[d.file[j].url] : j \in {m \in 1..Handled(d) : d.file[m].valid}}
        BY <2>6
      <3> HIDE DEF urls
      <3> QED BY <3>2, <3>3, <3>4 DEF Remembers
    <2>14. Knows(r)'
      <3>1. \A i \in 1..Len(d.items) : i + 1 \in 1..Len(c.items) /\ d.items[i] = c.items[i + 1]
        BY <2>8 DEF NextItem
      <3>2. lastId.tag \in Nat /\ lastId'.tag \in Nat /\ lastId.tag <= lastId'.tag
        BY <1>0, <2>3 DEF RowsOK, Grows
      <3>3. \A m \in DOMAIN c.ids : c.ids[m] \in 1..lastId'.tag
        BY <2>7, <3>2 DEF Knows
      <3> QED BY <1>1, <2>5, <2>6, <2>7, <3>1, <3>3, SMTT(30) DEF Knows
    <2>15. Progress(r)'
      BY <2>5, <2>6, <2>8, <2>12, <2>13, <2>14 DEF Progress, NextItem
    <2> QED BY <2>3, <2>4, <2>15, OthersKeep DEF ImportInv
  <1> QED BY <1>1, <1>3, <1>4

LEMMA FinishKeeps ==
  ASSUME ImportInv, NEW r \in Request, I!Finish(r)
  PROVE  ImportInv'
  <1> DEFINE c == import[r]
             e == [c EXCEPT !.pc = "done", !.ids = <<>>, !.seen = {}]
  <1>0. RowsOK /\ CallsOK /\ Progress(r) /\ RowsOK' /\ Grows
    BY SameRows DEF ImportInv, I!Finish
  <1>1. c.pc = "items" /\ c.items = <<>> /\ I!Goto(r, e)
    BY DEF I!Finish, I!At
  <1>2. c \in Importing /\ <<>> \in Ids
    BY <1>0, LocalIs, IdleIs DEF Importing, I!Idle
  <1>3. PICK d \in Importing : d = e /\ I!Goto(r, d)
    BY <1>1, <1>2 DEF Importing
  <1>4. import'[r] = d
    BY <1>0, <1>3, GotoIs
  <1>5. /\ d.pc = "done" /\ d.file = c.file /\ d.items = c.items /\ d.disturbed = c.disturbed
    BY <1>2, <1>3 DEF Importing
  <1>6. Suffix(c) /\ Merged(r)
    BY <1>0, <1>1 DEF Progress
  <1>7. Suffix(d) /\ Handled(d) = Handled(c) /\ Len(d.items) = 0
    BY <1>1, <1>5, <1>6 DEF Suffix, Handled
  <1>8. Merged(r)'
    <2> SUFFICES ASSUME NEW i \in 1..Handled(c), Earliest(c.file, i)
                 PROVE  Whole(r, Norm[c.file[i].url], c.file[i].names)'
      BY <1>4, <1>5, <1>7 DEF Merged
    <2>2. c.file[i] \in I!Item /\ Norm[c.file[i].url] \in Norms
      BY <1>0, LocalIs
    <2>3. PICK n \in Norms, names \in SUBSET TagName :
            n = Norm[c.file[i].url] /\ names = c.file[i].names
      BY <2>2 DEF I!Item
    <2>4. Whole(r, n, names) /\ Intact(n)
      BY <1>0, <1>6, <2>3 DEF Merged, Grows
    <2>5. Whole(r, n, names)'
      BY <1>4, <1>5, <2>4, WholeStays
    <2> QED BY <1>4, <1>5, <2>3, <2>5 DEF Whole
  <1>9. Progress(r)'
    BY <1>4, <1>5, <1>7, <1>8 DEF Progress
  <1> QED BY <1>0, <1>3, <1>9, OthersKeep DEF ImportInv

\* Every step keeps the invariant.
LEMMA ImportNext == ASSUME I!ImportAssumption, ImportInv, [I!Next]_I!vars PROVE ImportInv'
  <1>0. RowsOK /\ CallsOK /\ \A r \in Request : Progress(r)
    BY DEF ImportInv
  <1>1. ASSUME RowsOK' /\ CallsOK' /\ \A r \in Request : Sees(r) PROVE ImportInv'
    BY <1>0, <1>1, SeesKeeps DEF ImportInv
  <1>2. ASSUME NEW r \in Request, I!Fail(r) \/ I!Leave(r) PROVE ImportInv'
    BY <1>2, IdleKeeps DEF I!Fail, I!Leave
  <1>3. ASSUME NEW url \in URL, NEW names \in {{}} \cup {{n} : n \in TagName}, I!Save(url, names)
        PROVE  ImportInv'
    BY <1>0, <1>1, <1>3, SaveBookmarkKeeps
  <1>4. ASSUME NEW b \in DOMAIN bookmark, I!DeleteBookmark(b) PROVE ImportInv'
    BY <1>0, <1>1, <1>4, DeleteBookmarkKeeps
  <1>5. ASSUME NEW t \in DOMAIN tag, I!DeleteTag(t) PROVE ImportInv'
    BY <1>0, <1>1, <1>5, DeleteTagKeeps
  <1>6. ASSUME NEW t \in DOMAIN tag, NEW n \in TagName, I!RenameTag(t, n) PROVE ImportInv'
    BY <1>0, <1>1, <1>6, RenameTagKeeps
  <1>7. ASSUME NEW t \in DOMAIN tag, NEW u \in DOMAIN tag, I!MergeTag(t, u) PROVE ImportInv'
    BY <1>0, <1>1, <1>7, MergeTagKeeps
  <1>8. CASE UNCHANGED I!vars
    <2>1. RowsOK' /\ Grows /\ import' = import
      BY <1>0, <1>8, SameRows DEF I!vars
    <2> QED BY <1>0, <1>1, <2>1, GrowsIsSeen DEF CallsOK
  <1> QED BY <1>2, <1>3, <1>4, <1>5, <1>6, <1>7, <1>8, PreloadKeeps, InsertTagKeeps,
             PreloadedKeeps, SkipKeeps, ImportItemKeeps, FinishKeeps DEF I!Next

\* No owner's URL has two bookmarks and no link is to a missing row, and each
\* import is as far as its progress says.
THEOREM ImportInvHolds == ASSUME I!ImportAssumption PROVE I!Spec => []ImportInv
  <1>1. I!Init => ImportInv
    <2> SUFFICES ASSUME I!Init PROVE ImportInv
      OBVIOUS
    <2>1. RowsOK
      BY DEF I!Init, RowsOK
    <2>2. CallsOK /\ \A r \in Request : Progress(r)
      BY IdleIs DEF I!Init, CallsOK, Progress
    <2> QED BY <2>1, <2>2 DEF ImportInv
  <1>2. ImportInv /\ [I!Next]_I!vars => ImportInv'
    BY ImportNext
  <1> QED BY <1>1, <1>2, PTL DEF I!Spec

\* An import that reports no error is whole: of every file, next to any number of
\* other imports and whatever other requests do.
THEOREM ImportIsWholeHolds == ASSUME I!ImportAssumption PROVE I!Spec => []I!ImportIsWhole
  <1>1. ImportInv => I!ImportIsWhole
    <2> SUFFICES ASSUME ImportInv, NEW r \in Request, I!At(r, "done"),
                        NEW i \in DOMAIN import[r].file, Earliest(import[r].file, i),
                        Norm[import[r].file[i].url] \notin import[r].disturbed
                 PROVE  \E b \in DOMAIN bookmark :
                          /\ I!Same(Norm[import[r].file[i].url]) = {b}
                          /\ import[r].file[i].names \subseteq I!NamesOf(b)
      BY Zenon DEF I!ImportIsWhole, Earliest
    <2>1. RowsOK /\ CallsOK /\ Progress(r)
      BY DEF ImportInv
    <2>2. Merged(r) /\ Len(import[r].items) = 0
      BY <2>1 DEF Progress, I!At
    <2>3. i \in 1..Handled(import[r])
      <3>1. i \in 1..Len(import[r].file) /\ Len(import[r].file) \in Nat
        BY <2>1, LocalIs
      <3>2. \A n \in Nat : n - 0 = n
        OBVIOUS
      <3> QED BY <2>2, <3>1, <3>2 DEF Handled
    <2>4. Whole(r, Norm[import[r].file[i].url], import[r].file[i].names)
      BY <2>2, <2>3 DEF Merged
    <2>5. PICK b \in DOMAIN bookmark :
            /\ Norm[bookmark[b]] = Norm[import[r].file[i].url]
            /\ \A m \in import[r].file[i].names : \E t \in DOMAIN tag : tag[t] = m /\ <<b, t>> \in link
      BY <2>4 DEF Whole
    <2>6. I!Same(Norm[import[r].file[i].url]) = {b}
      BY <2>1, <2>5 DEF RowsOK, I!Same
    <2>7. ASSUME NEW m \in import[r].file[i].names PROVE m \in I!NamesOf(b)
      <3>1. PICK t \in DOMAIN tag : tag[t] = m /\ <<b, t>> \in link
        BY <2>5
      <3>2. <<b, t>>[1] = b /\ <<b, t>>[2] = t
        OBVIOUS
      <3> QED BY <3>1, <3>2 DEF I!NamesOf
    <2> QED BY <2>6, <2>7
  <1> QED BY <1>1, ImportInvHolds, PTL

-----------------------------------------------------------------------------
(* Backup. *)

\* The item's folder is still to be listed.
ToCome(i) == \E k \in DOMAIN backup.folders : backup.folders[k] = FolderOf[i]

\* Where the file of an archived row is, unless the row was deleted since: in the
\* folders to come or in the list of the current one, and on disk, or in the
\* archive.
FileOfRow(i) ==
  /\ backup.pc # "published" => stage[i] = "complete"
  /\ \/ <<i, TRUE>> \in backup.archive
     \/ backup.pc = "adding" /\ <<i, TRUE>> \in backup.entries
     \/ backup.pc # "published" /\ ToCome(i)
RowsHaveFiles ==
  backup.pc # "idle" => \A i \in backup.rows : i \in deleted \/ FileOfRow(i)

\* What the steps of the server leave alone.
LEMMA ServerSteps ==
  ASSUME K!TypeOK, NEW i \in Stored,
         \/ K!CreateTemp(i) \/ K!NameFile(i) \/ K!CommitRow(i) \/ K!CleanUp(i)
         \/ K!DeleteRow(i) \/ K!RemoveFile(i)
  PROVE  /\ stage' \in [Stored -> K!Stage] /\ backup' = backup
         /\ deleted \subseteq deleted' /\ deleted' \subseteq Stored
         /\ \A j \in Stored : stage[j] = "complete" =>
              \/ stage'[j] = "complete"
              \/ j \in deleted' \/ backup.pc \in {"idle", "published"}
  <1>1. stage \in [Stored -> K!Stage] /\ deleted \subseteq Stored
    BY DEF K!TypeOK
  <1>2. CASE K!CreateTemp(i)
    BY <1>1, <1>2 DEF K!CreateTemp, K!Moves, K!Stage
  <1>3. CASE K!NameFile(i)
    BY <1>1, <1>3 DEF K!NameFile, K!Moves, K!Stage
  <1>4. CASE K!CommitRow(i)
    BY <1>1, <1>4 DEF K!CommitRow, K!Moves, K!Stage
  <1>5. CASE K!CleanUp(i)
    BY <1>1, <1>5 DEF K!CleanUp, K!Moves, K!Stage
  <1>6. CASE K!DeleteRow(i)
    <2>1. backup.pc \in {"idle", "walking", "adding", "published"}
      BY DEF K!TypeOK, K!Local
    <2> QED BY <1>1, <1>6, <2>1 DEF K!DeleteRow, K!Moves, K!Stage
  <1>7. CASE K!RemoveFile(i)
    BY <1>1, <1>7 DEF K!RemoveFile, K!Moves, K!Stage
  <1> QED BY <1>2, <1>3, <1>4, <1>5, <1>6, <1>7

\* Items in the first folder have names in the archive as the others have.
LEMMA FilesAreNames == ASSUME K!TypeOK PROVE K!Files \in SUBSET (Stored \X BOOLEAN)
  <1>1. \A i \in Stored : <<i, TRUE>> \in Stored \X BOOLEAN /\ <<i, FALSE>> \in Stored \X BOOLEAN
    OBVIOUS
  <1>2. \A f \in K!Files : \E i \in Stored : f = <<i, TRUE>> \/ f = <<i, FALSE>>
    BY DEF K!Files
  <1>3. \A f \in K!Files : f \in Stored \X BOOLEAN
    <2> SUFFICES ASSUME NEW f \in K!Files PROVE f \in Stored \X BOOLEAN
      OBVIOUS
    <2>1. PICK i \in Stored : f = <<i, TRUE>> \/ f = <<i, FALSE>>
      BY <1>2
    <2> QED BY <1>1, <2>1, Zenon
  <1> HIDE DEF K!Files
  <1> QED BY <1>3

\* Every step keeps the types.
LEMMA BackupTypeNext == ASSUME K!BackupAssumption, K!TypeOK, [K!Next]_K!vars PROVE K!TypeOK'
  <1>1. stage \in [Stored -> K!Stage] /\ backup \in K!Local /\ deleted \subseteq Stored
    BY DEF K!TypeOK
  <1>2. CASE K!TakeDatabase
    <2>1. K!Rows \subseteq Stored
      BY DEF K!Rows
    <2>0. K!Folders \in Seq(K!Range(K!Folders))
      BY DEF K!Folders, K!Range
    <2>2. backup' = [pc |-> "walking", rows |-> K!Rows, folders |-> K!Folders, entries |-> {}, archive |-> {}]
      BY <1>2 DEF K!TakeDatabase, K!Idle
    <2>3. backup' \in K!Local
      BY <2>0, <2>1, <2>2 DEF K!Local
    <2> QED BY <1>1, <1>2, <2>3 DEF K!TakeDatabase, K!TypeOK
  <1>3. CASE K!ListFolder
    <2>1. Tail(backup.folders) \in Seq(K!Range(K!Folders))
      BY <1>1, <1>3 DEF K!ListFolder, K!Local
    <2>2. {f \in K!Files : FolderOf[f[1]] = Head(backup.folders)} \in SUBSET (Stored \X BOOLEAN)
      BY FilesAreNames
    <2>3. backup' \in K!Local
      <3> HIDE DEF K!Files
      <3> QED BY <1>1, <1>3, <2>1, <2>2 DEF K!ListFolder, K!Local
    <2> QED BY <1>1, <1>3, <2>3 DEF K!ListFolder, K!TypeOK
  <1>4. CASE K!AddFile
    <2>1. K!Idle \in K!Local
      BY DEF K!Idle, K!Local
    <2>2. backup' \in K!Local
      <3>1. PICK f \in backup.entries :
              backup' = IF f \in K!Files
                        THEN [backup EXCEPT !.entries = @ \ {f}, !.archive = @ \cup {f}] ELSE K!Idle
        BY <1>4 DEF K!AddFile
      <3>2. /\ backup.entries \ {f} \in SUBSET (Stored \X BOOLEAN)
            /\ backup.archive \cup {f} \in SUBSET (Stored \X BOOLEAN)
        BY <1>1 DEF K!Local
      <3>3. CASE f \in K!Files
        <4> HIDE DEF K!Files
        <4> QED BY <1>1, <3>1, <3>2, <3>3 DEF K!Local
      <3> QED BY <2>1, <3>1, <3>3, Zenon
    <2> QED BY <1>1, <1>4, <2>2 DEF K!AddFile, K!TypeOK
  <1>5. CASE K!FolderDone
    BY <1>1, <1>5 DEF K!FolderDone, K!TypeOK, K!Local
  <1>6. CASE K!Publish
    BY <1>1, <1>6 DEF K!Publish, K!Publishes, K!TypeOK, K!Local
  <1>7. CASE K!Abort
    BY <1>1, <1>7 DEF K!Abort, K!TypeOK, K!Local, K!Idle
  <1>8. ASSUME NEW i \in Stored,
               \/ K!CreateTemp(i) \/ K!NameFile(i) \/ K!CommitRow(i) \/ K!CleanUp(i)
               \/ K!DeleteRow(i) \/ K!RemoveFile(i)
        PROVE  K!TypeOK'
    BY <1>1, <1>8, ServerSteps DEF K!TypeOK
  <1>9. CASE UNCHANGED K!vars
    BY <1>1, <1>9 DEF K!vars, K!TypeOK
  <1> QED BY <1>2, <1>3, <1>4, <1>5, <1>6, <1>7, <1>8, <1>9 DEF K!Next

\* Every step leaves the file of each copied row where RowsHaveFiles has it.
LEMMA RowsNext ==
  ASSUME K!BackupAssumption, K!TypeOK, RowsHaveFiles, [K!Next]_K!vars
  PROVE  RowsHaveFiles'
  <1>1. stage \in [Stored -> K!Stage] /\ backup \in K!Local /\ deleted \subseteq Stored
    BY DEF K!TypeOK
  <1>2. CASE K!TakeDatabase
    <2>1. backup' = [pc |-> "walking", rows |-> K!Rows, folders |-> K!Folders, entries |-> {}, archive |-> {}]
      BY <1>2 DEF K!TakeDatabase, K!Idle
    <2>2. \A i \in Stored : \E k \in DOMAIN K!Folders : K!Folders[k] = FolderOf[i]
      BY DEF K!BackupAssumption, K!Range
    <2>3. \A i \in K!Rows : i \in Stored /\ stage'[i] = "complete"
      BY <1>2 DEF K!TakeDatabase, K!Rows
    <2> HIDE DEF K!Folders
    <2> QED BY <2>1, <2>2, <2>3 DEF RowsHaveFiles, FileOfRow, ToCome
  <1>3. CASE K!ListFolder
    <2>1. /\ backup.pc = "walking" /\ backup'.pc = "adding"
          /\ backup'.rows = backup.rows /\ backup'.archive = backup.archive
          /\ backup'.folders = Tail(backup.folders)
          /\ backup'.entries = {f \in K!Files : FolderOf[f[1]] = Head(backup.folders)}
      BY <1>1, <1>3 DEF K!ListFolder, K!Local
    <2>2. \A i \in Stored : stage[i] = "complete" /\ FolderOf[i] = Head(backup.folders)
                            => <<i, TRUE>> \in backup'.entries
      <3> SUFFICES ASSUME NEW i \in Stored, stage[i] = "complete", FolderOf[i] = Head(backup.folders)
                   PROVE  <<i, TRUE>> \in backup'.entries
        OBVIOUS
      <3>1. <<i, TRUE>> \in K!Files
        BY DEF K!Files
      <3> QED BY <2>1, <3>1
    <2>3. \A i \in Stored : ToCome(i) => FolderOf[i] = Head(backup.folders) \/ ToCome(i)'
      <3>1. backup.folders \in Seq(K!Range(K!Folders)) /\ backup.folders # <<>>
        BY <1>1, <1>3 DEF K!ListFolder, K!Local
      <3> SUFFICES ASSUME NEW i \in Stored, NEW k \in DOMAIN backup.folders, k # 1,
                          backup.folders[k] = FolderOf[i]
                   PROVE  \E n \in DOMAIN Tail(backup.folders) : Tail(backup.folders)[n] = FolderOf[i]
        BY <2>1, <3>1 DEF ToCome
      <3>2. k - 1 \in DOMAIN Tail(backup.folders) /\ Tail(backup.folders)[k - 1] = backup.folders[k]
        BY <3>1
      <3> QED BY <3>2
    <2>4. stage' = stage /\ deleted' = deleted /\ backup.rows \subseteq Stored
      BY <1>1, <1>3 DEF K!ListFolder, K!Local
    <2> QED BY <2>1, <2>2, <2>3, <2>4 DEF RowsHaveFiles, FileOfRow
  <1>4. CASE K!AddFile
    <2>1. stage' = stage /\ deleted' = deleted /\ backup.pc = "adding"
      BY <1>4 DEF K!AddFile
    <2>2. PICK f \in backup.entries :
            backup' = IF f \in K!Files
                      THEN [backup EXCEPT !.entries = @ \ {f}, !.archive = @ \cup {f}] ELSE K!Idle
      BY <1>4 DEF K!AddFile
    <2>3. CASE f \in K!Files
      <3>1. /\ backup'.pc = backup.pc /\ backup'.rows = backup.rows
            /\ backup'.folders = backup.folders
            /\ backup'.entries = backup.entries \ {f}
            /\ backup'.archive = backup.archive \cup {f}
        BY <1>1, <2>2, <2>3 DEF K!Local
      <3> QED BY <2>1, <3>1 DEF RowsHaveFiles, FileOfRow, ToCome
    <2>4. CASE f \notin K!Files
      BY <2>2, <2>4 DEF RowsHaveFiles, K!Idle
    <2> QED BY <2>3, <2>4
  <1>5. CASE K!FolderDone
    <2>1. /\ stage' = stage /\ deleted' = deleted
          /\ backup.pc = "adding" /\ backup.entries = {} /\ backup'.pc = "walking"
          /\ backup'.rows = backup.rows /\ backup'.folders = backup.folders
          /\ backup'.archive = backup.archive
      BY <1>1, <1>5 DEF K!FolderDone, K!Local
    <2> QED BY <2>1, ZenonT(30) DEF RowsHaveFiles, FileOfRow, ToCome
  <1>6. CASE K!Publish
    <2>1. /\ stage' = stage /\ deleted' = deleted
          /\ backup.pc = "walking" /\ backup.folders = <<>> /\ backup'.pc = "published"
          /\ backup'.rows = backup.rows /\ backup'.archive = backup.archive
      BY <1>1, <1>6 DEF K!Publish, K!Publishes, K!Local
    <2>2. \A i : ~ToCome(i)
      BY <2>1 DEF ToCome
    <2> QED BY <2>1, <2>2 DEF RowsHaveFiles, FileOfRow
  <1>7. CASE K!Abort
    BY <1>7 DEF K!Abort, RowsHaveFiles, K!Idle
  <1>8. ASSUME NEW i \in Stored,
               \/ K!CreateTemp(i) \/ K!NameFile(i) \/ K!CommitRow(i) \/ K!CleanUp(i)
               \/ K!DeleteRow(i) \/ K!RemoveFile(i)
        PROVE  RowsHaveFiles'
    <2>1. backup.rows \subseteq Stored
      BY <1>1 DEF K!Local
    <2> QED BY <1>8, <2>1, ServerSteps DEF RowsHaveFiles, FileOfRow, ToCome
  <1>9. CASE UNCHANGED K!vars
    BY <1>9 DEF K!vars, RowsHaveFiles, FileOfRow, ToCome
  <1> QED BY <1>2, <1>3, <1>4, <1>5, <1>6, <1>7, <1>8, <1>9 DEF K!Next

\* Nothing has been backed up at first, and every present item is complete.
LEMMA BackupInit == K!Init => K!TypeOK /\ RowsHaveFiles
  <1>1. ASSUME K!Init PROVE K!Idle \in K!Local /\ stage \in [Stored -> K!Stage]
    BY <1>1 DEF K!Init, K!Idle, K!Local, K!Stage
  <1> QED BY <1>1 DEF K!Init, K!TypeOK, RowsHaveFiles, K!Idle

\* A published backup has the file of each of its rows that was not deleted
\* while it was made: of any items, in any stages, in any of the three folders.
THEOREM BackupIsWholeHolds == ASSUME K!BackupAssumption PROVE K!Spec => []K!BackupIsWhole
  <1>1. K!Init => K!TypeOK /\ RowsHaveFiles
    BY BackupInit
  <1>2. K!TypeOK /\ RowsHaveFiles /\ [K!Next]_K!vars => (K!TypeOK /\ RowsHaveFiles)'
    BY BackupTypeNext, RowsNext
  <1>3. K!TypeOK /\ RowsHaveFiles => K!BackupIsWhole
    BY DEF RowsHaveFiles, FileOfRow, K!BackupIsWhole
  <1> QED BY <1>1, <1>2, <1>3, PTL DEF K!Spec

\* The stages, what the backup has in hand and the history have their types.
THEOREM BackupTypesHold == ASSUME K!BackupAssumption PROVE K!Spec => []K!TypeOK
  <1>1. K!Init => K!TypeOK
    BY BackupInit
  <1>2. K!TypeOK /\ [K!Next]_K!vars => K!TypeOK'
    BY BackupTypeNext
  <1> QED BY <1>1, <1>2, PTL DEF K!Spec

-----------------------------------------------------------------------------
(* MetadataCache. *)

CacheEntry == [url : Page, value : Nat]
Loaded == [pc : {"loaded"}, url : Page, value : Nat, ignore : BOOLEAN]
CacheTypeOK ==
  /\ entries \in Seq(CacheEntry) /\ loads \in Nat
  /\ loading \in [Request -> {M!Idle} \cup Loaded]
  /\ answers \in [Page -> SUBSET Nat]

\* What is not cached has not been given to anybody since.
NothingStale == \A u \in Page : ~M!Kept(entries, u) => answers[u] = {}
CacheInv == CacheTypeOK /\ NothingStale /\ M!OneValueWhileCached

\* A sequence with another first element.
LEMMA WithFirst ==
  ASSUME NEW S, NEW e \in S, NEW rest \in Seq(S)
  PROVE  /\ <<e>> \o rest \in Seq(S) /\ Len(<<e>> \o rest) = Len(rest) + 1
         /\ (<<e>> \o rest)[1] = e
         /\ \A k \in 1..Len(rest) : (<<e>> \o rest)[k + 1] = rest[k]
  OBVIOUS

\* The entries with the i-th one first.
Fronted(i, es) ==
  /\ es \in Seq(CacheEntry) /\ Len(es) = Len(entries)
  /\ \A k \in 1..Len(es) :
       es[k] = IF k = 1 THEN entries[i] ELSE IF k <= i THEN entries[k - 1] ELSE entries[k]
LEMMA FrontedEntries ==
  ASSUME entries \in Seq(CacheEntry), NEW i \in DOMAIN entries
  PROVE  Fronted(i, M!ToFront(i))
  <1>1. i \in 1..Len(entries) /\ Len(entries) \in Nat /\ entries[i] \in CacheEntry
    OBVIOUS
  <1> DEFINE one == <<entries[i]>>
             before == SubSeq(entries, 1, i - 1)
             after == SubSeq(entries, i + 1, Len(entries))
             rest == before \o after
  <1>2. one \in Seq(CacheEntry) /\ Len(one) = 1 /\ one[1] = entries[i]
    BY <1>1
  <1>3. /\ before \in Seq(CacheEntry) /\ Len(before) = i - 1
        /\ \A k \in 1..i - 1 : before[k] = entries[k]
    BY <1>1
  <1>4. /\ after \in Seq(CacheEntry) /\ Len(after) = Len(entries) - i
        /\ \A k \in 1..Len(entries) - i : after[k] = entries[i + k]
    BY <1>1
  <1>5. /\ rest \in Seq(CacheEntry) /\ Len(rest) = Len(entries) - 1
        /\ \A k \in 1..Len(entries) - 1 :
             rest[k] = IF k < i THEN entries[k] ELSE entries[k + 1]
    <2> HIDE DEF before, after
    <2>1. rest \in Seq(CacheEntry) /\ Len(rest) = Len(entries) - 1
      BY <1>1, <1>3, <1>4
    <2>2. ASSUME NEW k \in 1..Len(entries) - 1, k < i PROVE rest[k] = entries[k]
      BY <1>1, <1>3, <1>4, <2>2
    <2>3. ASSUME NEW k \in 1..Len(entries) - 1, ~(k < i) PROVE rest[k] = entries[k + 1]
      <3>1. k - (i - 1) \in 1..Len(entries) - i /\ rest[k] = after[k - (i - 1)]
        BY <1>1, <1>3, <1>4, <2>3, SMTT(30)
      <3>2. after[k - (i - 1)] = entries[i + (k - (i - 1))]
        BY <1>4, <3>1
      <3>3. i + (k - (i - 1)) = k + 1
        BY <1>1, <2>3
      <3> HIDE DEF rest
      <3> QED BY <3>1, <3>2, <3>3
    <2> QED BY <2>1, <2>2, <2>3
  <1>6. M!ToFront(i) = one \o rest
    BY DEF M!ToFront, M!RemoveAt
  <1>7. /\ one \o rest \in Seq(CacheEntry) /\ Len(one \o rest) = Len(entries)
        /\ (one \o rest)[1] = entries[i]
        /\ \A k \in 1..Len(entries) - 1 : (one \o rest)[k + 1] = rest[k]
    <2> HIDE DEF rest
    <2> QED BY <1>1, <1>5, WithFirst
  <1>8. ASSUME NEW k \in 1..Len(entries), k # 1
        PROVE  (one \o rest)[k] = IF k <= i THEN entries[k - 1] ELSE entries[k]
    <2> DEFINE m == k - 1
    <2>1. m \in 1..Len(entries) - 1 /\ k = m + 1
      BY <1>1, <1>8
    <2>2. (one \o rest)[k] = rest[m]
      <3> HIDE DEF one, rest, m
      <3> QED BY <1>7, <2>1
    <2>3. rest[m] = IF m < i THEN entries[m] ELSE entries[m + 1]
      <3> HIDE DEF rest, m
      <3> QED BY <1>5, <2>1
    <2>4. m < i <=> k <= i
      BY <1>1, <1>8
    <2> HIDE DEF one, rest
    <2> QED BY <2>1, <2>2, <2>3, <2>4
  <1> HIDE DEF one, rest
  <1> QED BY <1>1, <1>6, <1>7, <1>8 DEF Fronted

\* A call that gives a page's value keeps the invariant if the page it gives is
\* the only one that may be new in the cache, and had no other value there.
Answers(url, value) ==
  /\ entries' \in Seq(CacheEntry) /\ Len(entries') <= Capacity
  /\ \A k, m \in DOMAIN entries' : entries'[k].url = entries'[m].url => k = m
  /\ \A k \in DOMAIN entries' :
       IF entries'[k].url = url THEN entries'[k].value = value
       ELSE \E m \in DOMAIN entries : entries'[k] = entries[m]
  /\ answers[url] \subseteq {value}
  /\ M!Gives(url, value)
LEMMA AnswersKeep ==
  ASSUME CacheInv, NEW url \in Page, NEW value \in Nat, Answers(url, value)
  PROVE  answers' \in [Page -> SUBSET Nat] /\ NothingStale' /\ M!OneValueWhileCached'
  <1>1. answers \in [Page -> SUBSET Nat]
    BY DEF CacheInv, CacheTypeOK
  <1>2. \A u \in Page : answers'[u] = IF ~M!Kept(entries', u) THEN {}
                                   ELSE answers[u] \cup (IF u = url THEN {value} ELSE {})
    BY DEF Answers, M!Gives
  <1>3. answers' \in [Page -> SUBSET Nat]
    BY <1>1 DEF Answers, M!Gives
  <1>4. NothingStale'
    BY <1>2 DEF NothingStale
  <1>5. ASSUME NEW k \in DOMAIN entries' PROVE answers'[entries'[k].url] = {entries'[k].value}
    <2>1. entries'[k].url \in Page /\ M!Kept(entries', entries'[k].url)
      <3>1. entries'[k] \in CacheEntry
        BY <1>5 DEF Answers
      <3> QED BY <1>5, <3>1 DEF CacheEntry, M!Kept
    <2>2. CASE entries'[k].url = url
      BY <1>2, <2>1, <2>2 DEF Answers
    <2>3. CASE entries'[k].url # url
      <3>1. PICK m \in DOMAIN entries : entries'[k] = entries[m]
        BY <2>3 DEF Answers
      <3>2. answers[entries[m].url] = {entries[m].value}
        BY DEF CacheInv, M!OneValueWhileCached
      <3> QED BY <1>2, <2>1, <2>3, <3>1, <3>2
    <2> QED BY <2>2, <2>3
  <1>6. Len(entries') <= Capacity
        /\ \A k, m \in DOMAIN entries' : entries'[k].url = entries'[m].url => k = m
    BY DEF Answers
  <1> QED BY <1>3, <1>4, <1>5, <1>6 DEF M!OneValueWhileCached

\* So does the call that finds the page.
LEMMA FoundKeeps ==
  ASSUME CacheInv, NEW url \in Page, NEW i \in M!Cached(url),
         entries' = M!ToFront(i), M!Gives(url, entries[i].value)
  PROVE  /\ entries' \in Seq(CacheEntry)
         /\ answers' \in [Page -> SUBSET Nat] /\ NothingStale' /\ M!OneValueWhileCached'
  <1>1. i \in DOMAIN entries /\ entries[i].url = url
    BY DEF M!Cached
  <1>2. entries \in Seq(CacheEntry) /\ entries[i] \in CacheEntry
    BY <1>1 DEF CacheInv, CacheTypeOK
  <1>3. Fronted(i, entries')
    BY <1>1, <1>2, FrontedEntries
  <1>4. /\ Len(entries) <= Capacity /\ answers[url] = {entries[i].value}
        /\ \A k, m \in 1..Len(entries) : entries[k].url = entries[m].url => k = m
    <2>1. DOMAIN entries = 1..Len(entries)
      BY <1>2
    <2> QED BY <1>1, <2>1 DEF CacheInv, M!OneValueWhileCached
  <1>5. /\ entries' \in Seq(CacheEntry) /\ Len(entries') = Len(entries) /\ i \in 1..Len(entries)
        /\ Len(entries) \in Nat
        /\ \A k \in 1..Len(entries) : entries'[k] =
             IF k = 1 THEN entries[i] ELSE IF k <= i THEN entries[k - 1] ELSE entries[k]
    BY <1>1, <1>2, <1>3 DEF Fronted
  <1>6. ASSUME NEW k \in 1..Len(entries), NEW m \in 1..Len(entries),
               entries'[k].url = entries'[m].url
        PROVE  k = m
    <2> DEFINE was(n) == IF n = 1 THEN i ELSE IF n <= i THEN n - 1 ELSE n
    <2>1. was(k) \in 1..Len(entries) /\ was(m) \in 1..Len(entries)
      BY <1>5
    <2>2. entries'[k] = entries[was(k)] /\ entries'[m] = entries[was(m)]
      BY <1>5
    <2>3. was(k) = was(m)
      <3> HIDE DEF was
      <3> QED BY <1>4, <1>6, <2>1, <2>2
    <2> QED BY <1>5, <2>3
  <1>7. ASSUME NEW k \in 1..Len(entries)
        PROVE  IF entries'[k].url = url THEN entries'[k].value = entries[i].value
               ELSE \E m \in DOMAIN entries : entries'[k] = entries[m]
    <2>1. CASE k = 1
      BY <1>1, <1>5, <2>1
    <2>2. CASE k # 1
      <3>1. PICK m \in 1..Len(entries) : entries'[k] = entries[m]
        <4>1. CASE k <= i
          <5>1. k - 1 \in 1..Len(entries)
            BY <1>5, <2>2
          <5> QED BY <1>5, <2>2, <4>1, <5>1
        <4>2. CASE ~(k <= i)
          BY <1>5, <2>2, <4>2
        <4> QED BY <4>1, <4>2
      <3>2. entries[m].url = url => m = i
        BY <1>1, <1>4, <1>5
      <3> QED BY <1>2, <3>1, <3>2
    <2> QED BY <2>1, <2>2
  <1>8. Answers(url, entries[i].value)
    <2>1. DOMAIN entries' = 1..Len(entries)
      BY <1>5
    <2> QED BY <1>4, <1>5, <1>6, <1>7, <2>1 DEF Answers
  <1>9. entries[i].value \in Nat
    BY <1>2 DEF CacheEntry
  <1> QED BY <1>5, <1>8, <1>9, AnswersKeep

\* And the call that inserts what it has loaded.
AddedEntry(url, value) ==
  LET more == <<[url |-> url, value |-> value]>> \o entries IN
  entries' = SubSeq(more, 1, IF Len(more) > Capacity THEN Capacity ELSE Len(more))
LEMMA AddedKeeps ==
  ASSUME CacheInv, Capacity \in Nat \ {0}, NEW url \in Page, NEW value \in Nat,
         M!Cached(url) = {}, AddedEntry(url, value), M!Gives(url, value)
  PROVE  /\ entries' \in Seq(CacheEntry)
         /\ answers' \in [Page -> SUBSET Nat] /\ NothingStale' /\ M!OneValueWhileCached'
  <1> DEFINE new == [url |-> url, value |-> value]
             more == <<new>> \o entries
             n == IF Len(more) > Capacity THEN Capacity ELSE Len(more)
  <1>1. /\ entries \in Seq(CacheEntry) /\ Len(entries) \in Nat /\ Len(entries) <= Capacity
        /\ \A k, m \in 1..Len(entries) : entries[k].url = entries[m].url => k = m
        /\ \A k \in 1..Len(entries) : entries[k].url # url
    BY DEF CacheInv, CacheTypeOK, M!OneValueWhileCached, M!Cached
  <1>2. new \in CacheEntry /\ new.url = url /\ new.value = value
    BY DEF CacheEntry
  <1>3. /\ more \in Seq(CacheEntry) /\ Len(more) = Len(entries) + 1 /\ more[1] = new
        /\ \A k \in 1..Len(entries) : more[k + 1] = entries[k]
    <2> HIDE DEF new
    <2> QED BY <1>1, <1>2, WithFirst
  <1>4. entries' = SubSeq(more, 1, n)
    BY DEF AddedEntry
  <1>5. n \in 1..Len(entries) + 1 /\ n <= Capacity
    <2> HIDE DEF more
    <2> QED BY <1>1, <1>3
  <1>6. /\ entries' \in Seq(CacheEntry) /\ Len(entries') = n
        /\ \A k \in 1..n : entries'[k] = more[k]
    <2> HIDE DEF more, n
    <2> QED BY <1>1, <1>3, <1>4, <1>5
  <1>7. entries'[1] = new /\ \A k \in 1..n \ {1} : entries'[k] = entries[k - 1]
    <2> HIDE DEF more, n, new
    <2>1. \A k \in 1..n \ {1} : k - 1 \in 1..Len(entries) /\ k = (k - 1) + 1
      BY <1>1, <1>5
    <2>2. \A k \in 1..n \ {1} : more[(k - 1) + 1] = entries[k - 1]
      BY <1>3, <2>1
    <2>3. \A k \in 1..n \ {1} : entries'[k] = more[k]
      BY <1>6
    <2>4. 1 \in 1..n
      BY <1>1, <1>5
    <2> QED BY <1>3, <1>6, <2>1, <2>2, <2>3, <2>4
  <1>8. \A k \in 1..n \ {1} : k - 1 \in 1..Len(entries)
    BY <1>1, <1>5
  <1>9. DOMAIN entries' = 1..n
    BY <1>6
  <1>10. answers[url] = {}
    BY <1>1 DEF CacheInv, NothingStale, M!Kept
  <1> HIDE DEF new, more, n
  <1>11. ASSUME NEW k \in 1..n, NEW m \in 1..n, entries'[k].url = entries'[m].url
         PROVE  k = m
    <2>1. CASE k = 1 /\ m = 1
      BY <2>1
    <2>2. CASE k # 1 /\ m = 1
      BY <1>1, <1>2, <1>7, <1>8, <1>11, <2>2
    <2>3. CASE k = 1 /\ m # 1
      BY <1>1, <1>2, <1>7, <1>8, <1>11, <2>3
    <2>4. CASE k # 1 /\ m # 1
      <3>1. k - 1 = m - 1
        BY <1>1, <1>7, <1>8, <1>11, <2>4
      <3> QED BY <1>5, <3>1
    <2> QED BY <2>1, <2>2, <2>3, <2>4
  <1>12. ASSUME NEW k \in 1..n
         PROVE  IF entries'[k].url = url THEN entries'[k].value = value
                ELSE \E m \in DOMAIN entries : entries'[k] = entries[m]
    <2>1. CASE k = 1
      BY <1>2, <1>7, <2>1
    <2>2. CASE k # 1
      <3>1. k - 1 \in 1..Len(entries) /\ entries'[k] = entries[k - 1]
        BY <1>7, <1>8, <2>2
      <3> QED BY <1>1, <3>1
    <2> QED BY <2>1, <2>2
  <1>13. Answers(url, value)
    BY <1>5, <1>6, <1>9, <1>10, <1>11, <1>12 DEF Answers
  <1> QED BY <1>6, <1>13, AnswersKeep

\* Every step of a call keeps the invariant.
LEMMA CacheNext == ASSUME M!CacheAssumption, CacheInv, [M!Next]_M!vars PROVE CacheInv'
  <1>1. /\ entries \in Seq(CacheEntry) /\ loads \in Nat /\ answers \in [Page -> SUBSET Nat]
        /\ loading \in [Request -> {M!Idle} \cup Loaded]
    BY DEF CacheInv, CacheTypeOK
  <1>2. ASSUME NEW r \in Request, loading[r].pc = "loaded" PROVE loading[r] \in Loaded
    BY <1>1, <1>2 DEF M!Idle
  <1>3. ASSUME entries' = entries, answers' = answers
        PROVE  NothingStale' /\ M!OneValueWhileCached'
    BY <1>3 DEF CacheInv, NothingStale, M!OneValueWhileCached, M!Kept
  <1>4. ASSUME NEW r \in Request, NEW url \in Page, M!Hit(r, url) PROVE CacheInv'
    <2>1. PICK i \in M!Cached(url) : entries' = M!ToFront(i) /\ M!Gives(url, entries[i].value)
      BY <1>4 DEF M!Hit
    <2> QED BY <1>1, <1>4, <2>1, FoundKeeps DEF M!Hit, CacheInv, CacheTypeOK
  <1>5. ASSUME NEW r \in Request, NEW url \in Page, NEW ignore \in BOOLEAN,
               M!Transfer(r, url, ignore)
        PROVE  CacheInv'
    <2>1. loads' \in Nat /\ entries' = entries /\ answers' = answers
      BY <1>1, <1>5 DEF M!Transfer
    <2>2. loading' \in [Request -> {M!Idle} \cup Loaded]
      BY <1>1, <1>5, <2>1 DEF M!Transfer, Loaded
    <2> QED BY <1>1, <1>3, <2>1, <2>2 DEF CacheInv, CacheTypeOK
  <1>6. ASSUME NEW r \in Request, M!Bypass(r) PROVE CacheInv'
    <2>1. loading' \in [Request -> {M!Idle} \cup Loaded]
      BY <1>1, <1>6 DEF M!Bypass
    <2> QED BY <1>1, <1>3, <1>6, <2>1 DEF M!Bypass, CacheInv, CacheTypeOK
  <1>7. ASSUME NEW r \in Request, M!Insert(r) PROVE CacheInv'
    <2> DEFINE url == loading[r].url
    <2>1. /\ loading[r] \in Loaded /\ Capacity \in Nat \ {0}
          /\ loads' = loads /\ loading' = [loading EXCEPT ![r] = M!Idle]
      BY <1>2, <1>7 DEF M!Insert, M!Inserts, M!CacheAssumption
    <2>2. url \in Page /\ loading[r].value \in Nat /\ loading' \in [Request -> {M!Idle} \cup Loaded]
      BY <1>1, <2>1 DEF Loaded
    <2>3. CASE M!Cached(url) # {}
      <3>1. PICK i \in M!Cached(url) :
              entries' = M!ToFront(i) /\ M!Gives(url, entries[i].value)
        BY <1>7, <2>3 DEF M!Insert, M!Inserts
      <3> QED BY <1>1, <2>1, <2>2, <3>1, FoundKeeps DEF CacheInv, CacheTypeOK
    <2>4. CASE M!Cached(url) = {}
      <3>1. AddedEntry(url, loading[r].value) /\ M!Gives(url, loading[r].value)
        BY <1>7, <2>4 DEF M!Insert, M!Inserts, AddedEntry
      <3> QED BY <1>1, <2>1, <2>2, <2>4, <3>1, AddedKeeps DEF CacheInv, CacheTypeOK
    <2> QED BY <2>3, <2>4
  <1>8. CASE UNCHANGED M!vars
    BY <1>1, <1>3, <1>8 DEF M!vars, CacheInv, CacheTypeOK
  <1> QED BY <1>4, <1>5, <1>6, <1>7, <1>8 DEF M!Next

\* While a page is cached, all calls that may use the cache returned the same,
\* and the cache has each page once and keeps to its limit: for any number of
\* concurrent calls, also those that load one page at once, and every limit, 0
\* included, with which nothing is kept.
THEOREM OneValueWhileCachedHolds ==
  ASSUME M!CacheAssumption PROVE M!Spec => []M!OneValueWhileCached
  <1>1. M!Init => CacheInv
    <2> SUFFICES ASSUME M!Init PROVE CacheInv
      OBVIOUS
    <2>1. entries = <<>> /\ Len(entries) = 0 /\ Capacity \in Nat
      BY DEF M!Init, M!CacheAssumption
    <2>2. CacheTypeOK /\ NothingStale
      BY DEF M!Init, CacheTypeOK, NothingStale
    <2>3. M!OneValueWhileCached
      BY <2>1 DEF M!OneValueWhileCached
    <2> QED BY <2>2, <2>3 DEF CacheInv
  <1>2. CacheInv /\ [M!Next]_M!vars => CacheInv'
    BY CacheNext
  <1>3. CacheInv => M!OneValueWhileCached
    BY DEF CacheInv
  <1> QED BY <1>1, <1>2, <1>3, PTL DEF M!Spec
=============================================================================
