----------------------------- MODULE Admin_proofs -----------------------------
(***************************************************************************)
(* Proofs about Admin, for all rows of the five kinds, any staff,          *)
(* permissions, requests and bounds.                                       *)
(***************************************************************************)
EXTENDS Server, FiniteSetTheorems, WellFoundedInduction, TLAPS

\* The tables as one record.
Db(rows, links, visitor, log, unused) ==
  [rows |-> rows, links |-> links, guest |-> visitor, log |-> log, unused |-> unused]
\* A row of its kind belongs to a row of the kind it is to.
Parented(i, p) ==
  /\ i \in User => p = Null
  /\ i \in Asset => p \in AdminBookmark
  /\ i \in AdminBookmark \cup Tag \cup AdminItem => p \in User
TablesOK(d) ==
  /\ d = Db(d.rows, d.links, d.guest, d.log, d.unused)
  /\ D!Ids(d) \subseteq D!Row /\ d.rows \in [D!Ids(d) -> D!Fields]
  /\ \A i \in D!Ids(d) : Parented(i, d.rows[i].of)
  /\ d.links \subseteq AdminBookmark \X Tag
  /\ d.guest \in User \cup {Null}
  /\ d.unused \subseteq Fresh

\* The tables without the rows X and all that names them.
Cleared(d, X) ==
  Db([i \in D!Ids(d) \ X |-> [d.rows[i] EXCEPT !.latest = IF @ \in X THEN Null ELSE @]],
     {l \in d.links : l[1] \notin X /\ l[2] \notin X}, d.guest, d.log, d.unused)

\* What goes with the users s: what belongs to them, and what belongs to that.
Gone(d, s) ==
  s \cup {i \in D!Ids(d) : d.rows[i].of \in s}
    \cup {i \in D!Ids(d) \cap Asset : d.rows[i].of \in D!Ids(d) /\ d.rows[d.rows[i].of].of \in s}
After(d, s) ==
  LET e == Cleared(d, Gone(d, s)) IN
  Db(e.rows, e.links, IF d.guest \in s THEN Null ELSE d.guest, {f \in d.log : f.by \notin s}, d.unused)

\* Admin means the sizes of sets that this module means.
LEMMA SizesOfAdmin ==
  /\ \A S : D!Cardinality(S) = Cardinality(S)
  /\ \A S : D!IsFiniteSet(S) <=> IsFiniteSet(S)
BY DEF D!Cardinality, Cardinality, D!IsFiniteSet, IsFiniteSet

-----------------------------------------------------------------------------
(* The statements. *)

LEMMA Statements ==
  ASSUME NEW d, TablesOK(d), NEW S
  PROVE  /\ D!Deleted(d, S) = Db([i \in D!Ids(d) \ S |-> d.rows[i]], d.links, d.guest, d.log, d.unused)
         /\ D!NoLatest(d, S) =
              Db([i \in D!Ids(d) |-> IF d.rows[i].latest \in S THEN [d.rows[i] EXCEPT !.latest = Null] ELSE d.rows[i]],
                 d.links, d.guest, d.log, d.unused)
  <1> d = Db(d.rows, d.links, d.guest, d.log, d.unused)
    BY DEF TablesOK
  <1>1. D!Deleted(d, S) = Db([i \in D!Ids(d) \ S |-> d.rows[i]], d.links, d.guest, d.log, d.unused)
    BY DEF D!Deleted, Db
  <1>2. D!NoLatest(d, S) =
              Db([i \in D!Ids(d) |-> IF d.rows[i].latest \in S THEN [d.rows[i] EXCEPT !.latest = Null] ELSE d.rows[i]],
                 d.links, d.guest, d.log, d.unused)
    BY DEF D!NoLatest, Db
  <1> QED BY <1>1, <1>2

LEMMA UnlinkedIs ==
  ASSUME NEW d, TablesOK(d), NEW bs, NEW T
  PROVE  LET e == D!Unlinked(d, bs, T) IN
         /\ e.rows = d.rows /\ e.guest = d.guest /\ e.log = d.log /\ e.unused = d.unused
         /\ e.links = {l \in d.links : l[1] \notin bs /\ l[2] \notin T}
         /\ e = Db(e.rows, e.links, e.guest, e.log, e.unused)
  <1> DEFINE ls == {l \in d.links : l[1] \notin bs /\ l[2] \notin T}
  <1>1. D!Unlinked(d, bs, T) = [d EXCEPT !.links = ls]
    BY DEF D!Unlinked
  <1>2. d = Db(d.rows, d.links, d.guest, d.log, d.unused)
    BY DEF TablesOK
  <1> HIDE DEF ls
  <1>3. D!Unlinked(d, bs, T) = Db(d.rows, ls, d.guest, d.log, d.unused)
    BY <1>1, <1>2 DEF Db
  <1> QED BY <1>3 DEF Db, ls

\* Rows that differ in their kind are different rows.
LEMMA KindsDiffer ==
  ASSUME D!AdminAssumption
  PROVE  /\ User \cap (AdminBookmark \cup Tag \cup Asset \cup AdminItem) = {}
         /\ AdminBookmark \cap (Tag \cup Asset \cup AdminItem) = {}
         /\ Tag \cap (Asset \cup AdminItem) = {} /\ Asset \cap AdminItem = {}
         /\ Null \notin D!Row
         /\ D!Row = User \cup AdminBookmark \cup Tag \cup Asset \cup AdminItem
  BY DEF D!AdminAssumption, D!Row

LEMMA StatementsKeepTables ==
  ASSUME D!AdminAssumption, NEW d, TablesOK(d), NEW S, NEW bs, NEW T
  PROVE  TablesOK(D!Deleted(d, S)) /\ TablesOK(D!Unlinked(d, bs, T)) /\ TablesOK(D!NoLatest(d, S))
  <1>1. TablesOK(D!Deleted(d, S))
    <2> DEFINE e == Db([i \in D!Ids(d) \ S |-> d.rows[i]], d.links, d.guest, d.log, d.unused)
    <2>1. D!Deleted(d, S) = e
      BY Statements
    <2>2. /\ e.rows = [i \in D!Ids(d) \ S |-> d.rows[i]] /\ e.links = d.links /\ e.guest = d.guest
          /\ e.log = d.log /\ e.unused = d.unused
      BY DEF Db
    <2>3. e = Db(e.rows, e.links, e.guest, e.log, e.unused)
      BY DEF Db
    <2> HIDE DEF e
    <2>4. TablesOK(e)
      BY <2>2, <2>3 DEF TablesOK, D!Ids
    <2> QED BY <2>1, <2>4
  <1>2. TablesOK(D!Unlinked(d, bs, T))
    <2> DEFINE e == D!Unlinked(d, bs, T)
    <2>1. /\ e.rows = d.rows /\ e.guest = d.guest /\ e.log = d.log /\ e.unused = d.unused
          /\ e.links = {l \in d.links : l[1] \notin bs /\ l[2] \notin T}
          /\ e = Db(e.rows, e.links, e.guest, e.log, e.unused)
      BY UnlinkedIs
    <2>2. e.links \subseteq d.links
      BY <2>1
    <2> HIDE DEF e
    <2>3. TablesOK(e)
      BY <2>1, <2>2 DEF TablesOK, D!Ids
    <2> QED BY <2>3 DEF e
  <1>3. TablesOK(D!NoLatest(d, S))
    <2> DEFINE rs == [i \in D!Ids(d) |-> IF d.rows[i].latest \in S THEN [d.rows[i] EXCEPT !.latest = Null] ELSE d.rows[i]]
               e == Db(rs, d.links, d.guest, d.log, d.unused)
    <2>0. d = Db(d.rows, d.links, d.guest, d.log, d.unused)
      BY DEF TablesOK
    <2>1. D!NoLatest(d, S) = e
      BY <2>0 DEF D!NoLatest, Db
    <2>2. /\ e.rows = rs /\ e.links = d.links /\ e.guest = d.guest
          /\ e.log = d.log /\ e.unused = d.unused
      BY DEF Db
    <2>3. e = Db(e.rows, e.links, e.guest, e.log, e.unused)
      BY DEF Db
    <2>4. \A i \in D!Ids(d) : rs[i] \in D!Fields /\ rs[i].of = d.rows[i].of
      <3> SUFFICES ASSUME NEW i \in D!Ids(d) PROVE rs[i] \in D!Fields /\ rs[i].of = d.rows[i].of
        OBVIOUS
      <3>1. d.rows[i] \in D!Fields
        BY DEF TablesOK
      <3> QED BY <3>1 DEF D!Fields
    <2>5. DOMAIN rs = D!Ids(d) /\ rs \in [D!Ids(d) -> D!Fields]
      BY <2>4
    <2> HIDE DEF e, rs
    <2>6. TablesOK(e)
      BY <2>2, <2>3, <2>4, <2>5 DEF TablesOK, D!Ids
    <2> QED BY <2>1, <2>6
  <1> QED BY <1>1, <1>2, <1>3

LEMMA ClearedIs ==
  ASSUME D!AdminAssumption, NEW d, TablesOK(d), NEW X
  PROVE  LET e == Cleared(d, X) IN
         /\ TablesOK(e) /\ D!Ids(e) = D!Ids(d) \ X
         /\ \A i \in D!Ids(e) : /\ e.rows[i].of = d.rows[i].of
                              /\ e.rows[i].mark = d.rows[i].mark
                              /\ e.rows[i].latest = IF d.rows[i].latest \in X THEN Null ELSE d.rows[i].latest
         /\ e.links = {l \in d.links : l[1] \notin X /\ l[2] \notin X}
         /\ e.guest = d.guest /\ e.log = d.log /\ e.unused = d.unused
  <1> DEFINE rs == [i \in D!Ids(d) \ X |-> [d.rows[i] EXCEPT !.latest = IF @ \in X THEN Null ELSE @]]
             ls == {l \in d.links : l[1] \notin X /\ l[2] \notin X}
             e == Db(rs, ls, d.guest, d.log, d.unused)
  <1>1. Cleared(d, X) = e
    BY DEF Cleared
  <1>2. /\ e.rows = rs /\ e.links = ls /\ e.guest = d.guest
        /\ e.log = d.log /\ e.unused = d.unused
    BY DEF Db
  <1>3. e = Db(e.rows, e.links, e.guest, e.log, e.unused)
    BY DEF Db
  <1>4. \A i \in D!Ids(d) \ X :
          /\ rs[i] \in D!Fields /\ rs[i].of = d.rows[i].of /\ rs[i].mark = d.rows[i].mark
          /\ rs[i].latest = IF d.rows[i].latest \in X THEN Null ELSE d.rows[i].latest
    <2> SUFFICES ASSUME NEW i \in D!Ids(d) \ X
                 PROVE  /\ rs[i] \in D!Fields /\ rs[i].of = d.rows[i].of /\ rs[i].mark = d.rows[i].mark
                        /\ rs[i].latest = IF d.rows[i].latest \in X THEN Null ELSE d.rows[i].latest
      OBVIOUS
    <2>1. d.rows[i] \in D!Fields
      BY DEF TablesOK
    <2> QED BY <2>1 DEF D!Fields
  <1>5. DOMAIN rs = D!Ids(d) \ X /\ rs \in [D!Ids(d) \ X -> D!Fields] /\ ls \subseteq d.links
    BY <1>4
  <1> HIDE DEF e, rs
  <1>6. D!Ids(e) = D!Ids(d) \ X
    BY <1>2, <1>5 DEF D!Ids
  <1>7. TablesOK(e)
    <2>1. e.rows \in [D!Ids(e) -> D!Fields] /\ D!Ids(e) \subseteq D!Row
      BY <1>2, <1>5, <1>6 DEF TablesOK
    <2>2. \A i \in D!Ids(e) : Parented(i, e.rows[i].of)
      BY <1>2, <1>4, <1>6 DEF TablesOK
    <2>3. e.links \subseteq AdminBookmark \X Tag /\ e.guest \in User \cup {Null} /\ e.unused \subseteq Fresh
      BY <1>2, <1>5 DEF TablesOK
    <2> QED BY <1>3, <2>1, <2>2, <2>3 DEF TablesOK
  <1> QED BY <1>1, <1>2, <1>4, <1>6, <1>7

\* Two databases with the same tables are one.
LEMMA SameTables ==
  ASSUME NEW d, NEW e, TablesOK(d), TablesOK(e), D!Ids(d) = D!Ids(e),
         \A i \in D!Ids(d) : /\ d.rows[i].of = e.rows[i].of /\ d.rows[i].mark = e.rows[i].mark
                           /\ d.rows[i].latest = e.rows[i].latest,
         d.links = e.links, d.guest = e.guest, d.log = e.log, d.unused = e.unused
  PROVE  d = e
  <1>1. \A i \in D!Ids(d) : d.rows[i] = e.rows[i]
    <2> SUFFICES ASSUME NEW i \in D!Ids(d) PROVE d.rows[i] = e.rows[i]
      OBVIOUS
    <2>1. d.rows[i] \in D!Fields /\ e.rows[i] \in D!Fields
      BY DEF TablesOK
    <2> QED BY <2>1 DEF D!Fields
  <1>2. d.rows = e.rows
    BY <1>1 DEF TablesOK, D!Ids
  <1> QED BY <1>2 DEF TablesOK

LEMMA AssetsDeletedIs ==
  ASSUME D!AdminAssumption, NEW d, TablesOK(d), NEW S \in SUBSET Asset
  PROVE  D!AssetsDeleted(d, S) = Cleared(d, S)
  <1> DEFINE a == D!NoLatest(d, S)
             e == D!Deleted(a, S)
             w == Cleared(d, S)
  <1>1. TablesOK(a) /\ TablesOK(e)
    BY StatementsKeepTables
  <1>2. /\ a.rows = [i \in D!Ids(d) |-> IF d.rows[i].latest \in S THEN [d.rows[i] EXCEPT !.latest = Null] ELSE d.rows[i]]
        /\ a.links = d.links /\ a.guest = d.guest /\ a.log = d.log /\ a.unused = d.unused
    <2>1. d = Db(d.rows, d.links, d.guest, d.log, d.unused)
      BY DEF TablesOK
    <2> QED BY <2>1 DEF D!NoLatest, Db
  <1>3. /\ e.rows = [i \in D!Ids(a) \ S |-> a.rows[i]]
        /\ e.links = a.links /\ e.guest = a.guest /\ e.log = a.log /\ e.unused = a.unused
    <2>1. a = Db(a.rows, a.links, a.guest, a.log, a.unused)
      BY <1>1 DEF TablesOK
    <2> HIDE DEF a
    <2> QED BY <2>1 DEF D!Deleted, Db
  <1>4. D!Ids(a) = D!Ids(d) /\ D!Ids(e) = D!Ids(d) \ S
    BY <1>2, <1>3 DEF D!Ids
  <1>5. ASSUME NEW i \in D!Ids(e)
        PROVE  /\ e.rows[i].of = d.rows[i].of /\ e.rows[i].mark = d.rows[i].mark
               /\ e.rows[i].latest = IF d.rows[i].latest \in S THEN Null ELSE d.rows[i].latest
    <2>1. d.rows[i] \in D!Fields /\ i \in D!Ids(d)
      BY <1>4 DEF TablesOK
    <2>2. e.rows[i] = IF d.rows[i].latest \in S THEN [d.rows[i] EXCEPT !.latest = Null] ELSE d.rows[i]
      BY <1>2, <1>3, <1>4, <2>1
    <2> QED BY <2>1, <2>2 DEF D!Fields
  <1>6. {l \in d.links : l[1] \notin S /\ l[2] \notin S} = d.links
    BY KindsDiffer DEF TablesOK
  <1>7. /\ TablesOK(w) /\ D!Ids(w) = D!Ids(d) \ S
        /\ \A i \in D!Ids(w) : /\ w.rows[i].of = d.rows[i].of /\ w.rows[i].mark = d.rows[i].mark
                             /\ w.rows[i].latest = IF d.rows[i].latest \in S THEN Null ELSE d.rows[i].latest
        /\ w.links = d.links /\ w.guest = d.guest /\ w.log = d.log /\ w.unused = d.unused
    <2>1. /\ TablesOK(w) /\ D!Ids(w) = D!Ids(d) \ S
          /\ \A i \in D!Ids(w) : /\ w.rows[i].of = d.rows[i].of /\ w.rows[i].mark = d.rows[i].mark
                               /\ w.rows[i].latest = IF d.rows[i].latest \in S THEN Null ELSE d.rows[i].latest
          /\ w.links = {l \in d.links : l[1] \notin S /\ l[2] \notin S}
          /\ w.guest = d.guest /\ w.log = d.log /\ w.unused = d.unused
      BY ClearedIs
    <2> QED BY <2>1, <1>6
  <1> HIDE DEF a, e, w
  <1>8. \A i \in D!Ids(e) : /\ e.rows[i].of = w.rows[i].of /\ e.rows[i].mark = w.rows[i].mark
                          /\ e.rows[i].latest = w.rows[i].latest
    BY <1>4, <1>5, <1>7
  <1>9. e = w
    BY <1>1, <1>2, <1>3, <1>4, <1>7, <1>8, SameTables
  <1> QED BY <1>9 DEF D!AssetsDeleted, a, e, w

LEMMA DeletedIs ==
  ASSUME D!AdminAssumption, NEW d, TablesOK(d), NEW S \in SUBSET (D!Row \ Asset),
         \A l \in d.links : l[1] \notin S /\ l[2] \notin S
  PROVE  D!Deleted(d, S) = Cleared(d, S)
  <1> DEFINE e == D!Deleted(d, S)
             w == Cleared(d, S)
  <1>1. TablesOK(e)
    BY StatementsKeepTables
  <1>2. /\ e.rows = [i \in D!Ids(d) \ S |-> d.rows[i]]
        /\ e.links = d.links /\ e.guest = d.guest /\ e.log = d.log /\ e.unused = d.unused
    <2>1. d = Db(d.rows, d.links, d.guest, d.log, d.unused)
      BY DEF TablesOK
    <2> QED BY <2>1 DEF D!Deleted, Db
  <1>3. D!Ids(e) = D!Ids(d) \ S
    BY <1>2 DEF D!Ids
  <1>4. {l \in d.links : l[1] \notin S /\ l[2] \notin S} = d.links
    OBVIOUS
  <1>5. /\ TablesOK(w) /\ D!Ids(w) = D!Ids(d) \ S
        /\ \A i \in D!Ids(w) : /\ w.rows[i].of = d.rows[i].of /\ w.rows[i].mark = d.rows[i].mark
                             /\ w.rows[i].latest = IF d.rows[i].latest \in S THEN Null ELSE d.rows[i].latest
        /\ w.links = d.links /\ w.guest = d.guest /\ w.log = d.log /\ w.unused = d.unused
    <2>1. /\ TablesOK(w) /\ D!Ids(w) = D!Ids(d) \ S
          /\ \A i \in D!Ids(w) : /\ w.rows[i].of = d.rows[i].of /\ w.rows[i].mark = d.rows[i].mark
                               /\ w.rows[i].latest = IF d.rows[i].latest \in S THEN Null ELSE d.rows[i].latest
          /\ w.links = {l \in d.links : l[1] \notin S /\ l[2] \notin S}
          /\ w.guest = d.guest /\ w.log = d.log /\ w.unused = d.unused
      BY ClearedIs
    <2> QED BY <2>1, <1>4
  <1>6. \A i \in D!Ids(d) : d.rows[i].latest \notin S
    <2> SUFFICES ASSUME NEW i \in D!Ids(d) PROVE d.rows[i].latest \notin S
      OBVIOUS
    <2>1. d.rows[i] \in D!Fields
      BY DEF TablesOK
    <2> QED BY <2>1, KindsDiffer DEF D!Fields
  <1> HIDE DEF e, w
  <1>7. \A i \in D!Ids(e) : /\ e.rows[i].of = w.rows[i].of /\ e.rows[i].mark = w.rows[i].mark
                          /\ e.rows[i].latest = w.rows[i].latest
    BY <1>2, <1>3, <1>5, <1>6
  <1>8. e = w
    BY <1>1, <1>2, <1>3, <1>5, <1>7, SameTables
  <1> QED BY <1>8 DEF e, w

LEMMA ClearedTwice ==
  ASSUME D!AdminAssumption, NEW d, TablesOK(d), NEW X, NEW Y
  PROVE  Cleared(Cleared(d, X), Y) = Cleared(d, X \cup Y)
  <1> DEFINE a == Cleared(d, X)
             e == Cleared(a, Y)
             w == Cleared(d, X \cup Y)
  <1>1. /\ TablesOK(a) /\ D!Ids(a) = D!Ids(d) \ X
        /\ \A i \in D!Ids(a) : /\ a.rows[i].of = d.rows[i].of /\ a.rows[i].mark = d.rows[i].mark
                             /\ a.rows[i].latest = IF d.rows[i].latest \in X THEN Null ELSE d.rows[i].latest
        /\ a.links = {l \in d.links : l[1] \notin X /\ l[2] \notin X}
        /\ a.guest = d.guest /\ a.log = d.log /\ a.unused = d.unused
    BY ClearedIs
  <1>2. /\ TablesOK(w) /\ D!Ids(w) = D!Ids(d) \ (X \cup Y)
        /\ \A i \in D!Ids(w) : /\ w.rows[i].of = d.rows[i].of /\ w.rows[i].mark = d.rows[i].mark
                             /\ w.rows[i].latest = IF d.rows[i].latest \in X \cup Y THEN Null ELSE d.rows[i].latest
        /\ w.links = {l \in d.links : l[1] \notin X \cup Y /\ l[2] \notin X \cup Y}
        /\ w.guest = d.guest /\ w.log = d.log /\ w.unused = d.unused
    <2> DEFINE Z == X \cup Y
    <2> HIDE DEF Z
    <2>1. /\ TablesOK(Cleared(d, Z)) /\ D!Ids(Cleared(d, Z)) = D!Ids(d) \ Z
          /\ \A i \in D!Ids(Cleared(d, Z)) :
               /\ Cleared(d, Z).rows[i].of = d.rows[i].of /\ Cleared(d, Z).rows[i].mark = d.rows[i].mark
               /\ Cleared(d, Z).rows[i].latest = IF d.rows[i].latest \in Z THEN Null ELSE d.rows[i].latest
          /\ Cleared(d, Z).links = {l \in d.links : l[1] \notin Z /\ l[2] \notin Z}
          /\ Cleared(d, Z).guest = d.guest /\ Cleared(d, Z).log = d.log /\ Cleared(d, Z).unused = d.unused
      BY ClearedIs
    <2> QED BY <2>1, Zenon DEF Z
  <1> HIDE DEF a
  <1>3. /\ TablesOK(e) /\ D!Ids(e) = D!Ids(a) \ Y
        /\ \A i \in D!Ids(e) : /\ e.rows[i].of = a.rows[i].of /\ e.rows[i].mark = a.rows[i].mark
                             /\ e.rows[i].latest = IF a.rows[i].latest \in Y THEN Null ELSE a.rows[i].latest
        /\ e.links = {l \in a.links : l[1] \notin Y /\ l[2] \notin Y}
        /\ e.guest = a.guest /\ e.log = a.log /\ e.unused = a.unused
    BY <1>1, ClearedIs
  <1> HIDE DEF e, w
  <1>4. D!Ids(e) = D!Ids(w)
    BY <1>1, <1>2, <1>3
  <1>5. \A i \in D!Ids(e) : /\ e.rows[i].of = w.rows[i].of /\ e.rows[i].mark = w.rows[i].mark
                          /\ e.rows[i].latest = w.rows[i].latest
    BY <1>1, <1>2, <1>3
  <1>6. e.links = w.links
    BY <1>1, <1>2, <1>3
  <1>7. TablesOK(e) /\ TablesOK(w) /\ e.guest = w.guest /\ e.log = w.log /\ e.unused = w.unused
    BY <1>1, <1>2, <1>3
  <1>8. e = w
    BY <1>4, <1>5, <1>6, <1>7, SameTables
  <1> QED BY <1>8 DEF a, e, w

LEMMA UnlinkedFirst ==
  ASSUME D!AdminAssumption, NEW d, TablesOK(d), NEW X, NEW bs \in SUBSET X, NEW T \in SUBSET X
  PROVE  Cleared(D!Unlinked(d, bs, T), X) = Cleared(d, X)
  <1> DEFINE a == D!Unlinked(d, bs, T)
             e == Cleared(a, X)
             w == Cleared(d, X)
  <1>1. /\ TablesOK(a)
        /\ a.rows = d.rows /\ a.guest = d.guest /\ a.log = d.log /\ a.unused = d.unused
        /\ a.links = {l \in d.links : l[1] \notin bs /\ l[2] \notin T}
    BY UnlinkedIs, StatementsKeepTables
  <1>2. /\ TablesOK(w) /\ D!Ids(w) = D!Ids(d) \ X
        /\ \A i \in D!Ids(w) : /\ w.rows[i].of = d.rows[i].of /\ w.rows[i].mark = d.rows[i].mark
                             /\ w.rows[i].latest = IF d.rows[i].latest \in X THEN Null ELSE d.rows[i].latest
        /\ w.links = {l \in d.links : l[1] \notin X /\ l[2] \notin X}
        /\ w.guest = d.guest /\ w.log = d.log /\ w.unused = d.unused
    BY ClearedIs
  <1> HIDE DEF a
  <1>3. /\ TablesOK(e) /\ D!Ids(e) = D!Ids(a) \ X
        /\ \A i \in D!Ids(e) : /\ e.rows[i].of = a.rows[i].of /\ e.rows[i].mark = a.rows[i].mark
                             /\ e.rows[i].latest = IF a.rows[i].latest \in X THEN Null ELSE a.rows[i].latest
        /\ e.links = {l \in a.links : l[1] \notin X /\ l[2] \notin X}
        /\ e.guest = a.guest /\ e.log = a.log /\ e.unused = a.unused
    BY <1>1, ClearedIs
  <1> HIDE DEF e, w
  <1>4. D!Ids(e) = D!Ids(w)
    BY <1>1, <1>2, <1>3 DEF D!Ids
  <1>5. \A i \in D!Ids(e) : /\ e.rows[i].of = w.rows[i].of /\ e.rows[i].mark = w.rows[i].mark
                          /\ e.rows[i].latest = w.rows[i].latest
    BY <1>1, <1>2, <1>3, <1>4
  <1>6. e.links = w.links
    BY <1>1, <1>2, <1>3
  <1>7. TablesOK(e) /\ TablesOK(w) /\ e.guest = w.guest /\ e.log = w.log /\ e.unused = w.unused
    BY <1>1, <1>2, <1>3
  <1>8. e = w
    BY <1>4, <1>5, <1>6, <1>7, SameTables
  <1> QED BY <1>8 DEF a, e, w

LEMMA TagsDeletedIs ==
  ASSUME D!AdminAssumption, NEW d, TablesOK(d), NEW S \in SUBSET Tag
  PROVE  D!TagsDeleted(d, S) = Cleared(d, S)
  <1> DEFINE a == D!Unlinked(d, {}, S)
  <1>1. TablesOK(a) /\ a.links = {l \in d.links : l[1] \notin {} /\ l[2] \notin S}
    BY UnlinkedIs, StatementsKeepTables
  <1>2. a.links \subseteq AdminBookmark \X Tag
    BY <1>1 DEF TablesOK
  <1> HIDE DEF a
  <1>3. S \in SUBSET (D!Row \ Asset) /\ \A l \in a.links : l[1] \notin S /\ l[2] \notin S
    BY <1>1, <1>2, KindsDiffer
  <1>4. D!Deleted(a, S) = Cleared(a, S)
    BY <1>1, <1>3, DeletedIs
  <1>5. Cleared(D!Unlinked(d, {}, S), S) = Cleared(d, S)
    BY UnlinkedFirst
  <1> QED BY <1>4, <1>5 DEF D!TagsDeleted, a

LEMMA BookmarkDeletedIs ==
  ASSUME D!AdminAssumption, NEW d, TablesOK(d), NEW b \in AdminBookmark
  PROVE  D!BookmarkDeleted(d, b) = Cleared(d, {b} \cup D!Of(d, Asset, b))
  <1> DEFINE S == D!Of(d, Asset, b)
             a == D!Unlinked(d, {b}, {})
             c == Cleared(a, S)
  <1>1. TablesOK(a) /\ a.links = {l \in d.links : l[1] \notin {b} /\ l[2] \notin {}}
    BY UnlinkedIs, StatementsKeepTables
  <1>2. S \in SUBSET Asset
    BY DEF D!Of
  <1> HIDE DEF a, S
  <1>3. D!AssetsDeleted(a, S) = c
    BY <1>1, <1>2, AssetsDeletedIs
  <1>4. TablesOK(c) /\ c.links = {l \in a.links : l[1] \notin S /\ l[2] \notin S}
    BY <1>1, ClearedIs
  <1> HIDE DEF c
  <1>5. {b} \in SUBSET (D!Row \ Asset) /\ \A l \in c.links : l[1] \notin {b} /\ l[2] \notin {b}
    <2>1. c.links \subseteq AdminBookmark \X Tag
      BY <1>4 DEF TablesOK
    <2> QED BY <1>1, <1>4, <2>1, KindsDiffer
  <1>6. D!Deleted(c, {b}) = Cleared(c, {b})
    BY <1>4, <1>5, DeletedIs
  <1>7. Cleared(c, {b}) = Cleared(a, S \cup {b})
    BY <1>1, ClearedTwice DEF c
  <1>8. Cleared(a, S \cup {b}) = Cleared(d, S \cup {b})
    <2>1. {b} \in SUBSET (S \cup {b}) /\ {} \in SUBSET (S \cup {b})
      OBVIOUS
    <2> QED BY <2>1, UnlinkedFirst DEF a
  <1>9. S \cup {b} = {b} \cup S
    OBVIOUS
  <1> QED BY <1>3, <1>6, <1>7, <1>8, <1>9 DEF D!BookmarkDeleted, S, a

LEMMA AfterIs ==
  ASSUME D!AdminAssumption, NEW d, TablesOK(d), NEW s
  PROVE  LET e == After(d, s) IN
         /\ TablesOK(e) /\ D!Ids(e) = D!Ids(d) \ Gone(d, s)
         /\ \A i \in D!Ids(e) : /\ e.rows[i].of = d.rows[i].of /\ e.rows[i].mark = d.rows[i].mark
                              /\ e.rows[i].latest = IF d.rows[i].latest \in Gone(d, s) THEN Null
                                                    ELSE d.rows[i].latest
         /\ e.links = {l \in d.links : l[1] \notin Gone(d, s) /\ l[2] \notin Gone(d, s)}
         /\ e.guest = IF d.guest \in s THEN Null ELSE d.guest
         /\ e.log = {f \in d.log : f.by \notin s} /\ e.unused = d.unused
  <1> DEFINE X == Gone(d, s)
             w == Cleared(d, X)
             e == After(d, s)
             log == {f \in d.log : f.by \notin s}
             visitor == IF d.guest \in s THEN Null ELSE d.guest
  <1>1. /\ TablesOK(w) /\ D!Ids(w) = D!Ids(d) \ X
        /\ \A i \in D!Ids(w) : /\ w.rows[i].of = d.rows[i].of /\ w.rows[i].mark = d.rows[i].mark
                             /\ w.rows[i].latest = IF d.rows[i].latest \in X THEN Null ELSE d.rows[i].latest
        /\ w.links = {l \in d.links : l[1] \notin X /\ l[2] \notin X}
    <2> HIDE DEF X
    <2> QED BY ClearedIs
  <1>2. e = Db(w.rows, w.links, visitor, log, d.unused)
    BY DEF After
  <1>3. visitor \in User \cup {Null} /\ d.unused \subseteq Fresh
    BY DEF TablesOK
  <1> HIDE DEF X, w, e, log, visitor
  <1>4. /\ e.rows = w.rows /\ e.links = w.links /\ e.guest = visitor /\ e.log = log
        /\ e.unused = d.unused /\ e = Db(e.rows, e.links, e.guest, e.log, e.unused)
    BY <1>2 DEF Db
  <1>5. TablesOK(e) /\ D!Ids(e) = D!Ids(w)
    BY <1>1, <1>3, <1>4 DEF TablesOK, D!Ids
  <1>6. \A i \in D!Ids(e) : /\ e.rows[i].of = d.rows[i].of /\ e.rows[i].mark = d.rows[i].mark
                          /\ e.rows[i].latest = IF d.rows[i].latest \in X THEN Null ELSE d.rows[i].latest
    BY <1>1, <1>4, <1>5
  <1>7. TablesOK(e) /\ D!Ids(e) = D!Ids(d) \ X
    BY <1>1, <1>5
  <1>8. e.links = {l \in d.links : l[1] \notin X /\ l[2] \notin X}
    BY <1>1, <1>4
  <1> QED BY <1>4, <1>6, <1>7, <1>8, Zenon DEF e, X, log, visitor

LEMMA UserDeletedIs ==
  ASSUME D!AdminAssumption, NEW d, TablesOK(d), NEW u \in User
  PROVE  D!UserDeleted(d, u) = After(d, {u})
  <1> DEFINE g == [d EXCEPT !.guest = IF @ = u THEN Null ELSE @]
             Bk == D!Of(d, AdminBookmark, u)
             Tg == D!Of(d, Tag, u)
             UA == D!UserAssets(d, u)
             Y == Bk \cup Tg \cup D!Of(d, AdminItem, u) \cup {u}
             a == D!Unlinked(g, Bk, Tg)
             c == Cleared(a, UA)
             X == Gone(d, {u})
             w == Cleared(g, X)
  <1>1. /\ TablesOK(g) /\ g.rows = d.rows /\ g.links = d.links /\ g.log = d.log /\ g.unused = d.unused
        /\ g.guest = IF d.guest = u THEN Null ELSE d.guest
        /\ D!Ids(g) = D!Ids(d)
    <2>1. d = Db(d.rows, d.links, d.guest, d.log, d.unused)
      BY DEF TablesOK
    <2>2. /\ g.rows = d.rows /\ g.links = d.links /\ g.log = d.log /\ g.unused = d.unused
          /\ g.guest = IF d.guest = u THEN Null ELSE d.guest
          /\ g = Db(g.rows, g.links, g.guest, g.log, g.unused)
      BY <2>1 DEF Db
    <2> HIDE DEF g
    <2> QED BY <2>2 DEF TablesOK, D!Ids
  <1>2. UA \in SUBSET Asset /\ UA \cup Y = X /\ Y \in SUBSET (D!Row \ Asset)
    <2>1. \A i \in D!Ids(d) : i \in D!Row /\ Parented(i, d.rows[i].of)
      BY DEF TablesOK
    <2>2. \A i : i \in UA <=> /\ i \in Asset /\ i \in D!Ids(d) /\ d.rows[i].of \in AdminBookmark
                              /\ d.rows[i].of \in D!Ids(d) /\ d.rows[d.rows[i].of].of = u
      BY DEF D!UserAssets, D!Of
    <2>3. \A i : i \in Y <=> \/ i = u
                             \/ i \in AdminBookmark \cup Tag \cup AdminItem /\ i \in D!Ids(d) /\ d.rows[i].of = u
      BY DEF D!Of
    <2>4. \A i \in D!Ids(d) : d.rows[i].of = u => i \in AdminBookmark \cup Tag \cup AdminItem
      BY <2>1, KindsDiffer DEF Parented
    <2>5. \A i \in D!Ids(d) \cap Asset : d.rows[i].of \in AdminBookmark
      BY <2>1 DEF Parented
    <2>6. \A i : i \in X <=> \/ i = u
                             \/ i \in D!Ids(d) /\ d.rows[i].of = u
                             \/ /\ i \in D!Ids(d) /\ i \in Asset /\ d.rows[i].of \in D!Ids(d)
                                /\ d.rows[d.rows[i].of].of = u
      BY DEF Gone
    <2> HIDE DEF UA, Y, X
    <2>7. UA \in SUBSET Asset
      BY <2>2
    <2>8. UA \cup Y = X
      BY <2>2, <2>3, <2>4, <2>5, <2>6
    <2>9. Y \in SUBSET (D!Row \ Asset)
      BY <2>3, KindsDiffer
    <2> QED BY <2>7, <2>8, <2>9
  <1>3. /\ TablesOK(a) /\ a.links = {l \in g.links : l[1] \notin Bk /\ l[2] \notin Tg}
    <2> HIDE DEF g, Bk, Tg
    <2> QED BY <1>1, UnlinkedIs, StatementsKeepTables
  <1>4. D!AssetsDeleted(a, UA) = c /\ TablesOK(c) /\ c.links = {l \in a.links : l[1] \notin UA /\ l[2] \notin UA}
    <2> HIDE DEF a, UA
    <2> QED BY <1>2, <1>3, AssetsDeletedIs, ClearedIs
  <1>5. \A l \in c.links : l[1] \notin Y /\ l[2] \notin Y
    <2>1. c.links \subseteq AdminBookmark \X Tag
      BY <1>4 DEF TablesOK
    <2>2. \A l \in c.links : l[1] \notin Bk /\ l[2] \notin Tg
      BY <1>3, <1>4
    <2>3. Bk \subseteq AdminBookmark /\ Tg \subseteq Tag /\ D!Of(d, AdminItem, u) \subseteq AdminItem
      BY DEF D!Of
    <2> HIDE DEF c, Bk, Tg
    <2> QED BY <2>1, <2>2, <2>3, KindsDiffer
  <1>6. D!Deleted(c, Y) = Cleared(c, Y)
    <2> HIDE DEF c, Y
    <2> QED BY <1>2, <1>4, <1>5, DeletedIs
  <1>7. Cleared(c, Y) = Cleared(a, X)
    <2>1. Cleared(c, Y) = Cleared(a, UA \cup Y)
      <3> HIDE DEF a, UA, Y
      <3> QED BY <1>3, ClearedTwice
    <2> QED BY <2>1, <1>2
  <1>8. Cleared(a, X) = w
    <2>1. Bk \in SUBSET X /\ Tg \in SUBSET X
      BY <1>2
    <2> HIDE DEF g, Bk, Tg, X
    <2> QED BY <1>1, <2>1, UnlinkedFirst
  <1>9. w.rows = Cleared(d, X).rows /\ w.links = Cleared(d, X).links
    <2> HIDE DEF X, g
    <2> QED BY <1>1 DEF Cleared, Db
  <1>10. /\ TablesOK(w) /\ w.guest = g.guest /\ w.log = d.log /\ w.unused = d.unused
    <2> HIDE DEF X, g
    <2> QED BY <1>1, ClearedIs
  <1>11. D!UserDeleted(d, u) = [w EXCEPT !.log = {e \in @ : e.by # u}]
    <2>1. D!UserDeleted(d, u) =
            [D!Deleted(D!AssetsDeleted(a, UA), Y) EXCEPT !.log = {e \in @ : e.by # u}]
      BY DEF D!UserDeleted
    <2>2. D!Deleted(D!AssetsDeleted(a, UA), Y) = w
      <3> HIDE DEF a, UA, Y, w, c
      <3> QED BY <1>4, <1>6, <1>7, <1>8
    <2> HIDE DEF a, UA, Y, w
    <2> QED BY <2>1, <2>2
  <1>12. {e \in w.log : e.by # u} = {f \in d.log : f.by \notin {u}}
    BY <1>10
  <1>13. g.guest = IF d.guest \in {u} THEN Null ELSE d.guest
    BY <1>1
  <1> DEFINE log == {e \in w.log : e.by # u}
  <1>14. [w EXCEPT !.log = log] = Db(w.rows, w.links, g.guest, log, d.unused)
    <2>1. w = Db(w.rows, w.links, w.guest, w.log, w.unused)
      BY <1>10 DEF TablesOK
    <2> HIDE DEF w, g, log
    <2> QED BY <2>1, <1>10 DEF Db
  <1>15. After(d, {u}) = Db(w.rows, w.links, g.guest, log, d.unused)
    <2> HIDE DEF w, g
    <2>1. log = {f \in d.log : f.by \notin {u}}
      BY <1>12
    <2> HIDE DEF log
    <2> QED BY <1>9, <1>13, <2>1, Zenon DEF After, X
  <1> HIDE DEF w, g
  <1> QED BY <1>11, <1>14, <1>15, Zenon

LEMMA GoneTwice ==
  ASSUME D!AdminAssumption, NEW d, TablesOK(d), NEW s \in SUBSET User, NEW u \in User
  PROVE  Gone(d, s) \cup Gone(After(d, s), {u}) = Gone(d, s \cup {u})
  <1> DEFINE e == After(d, s)
  <1>1. /\ D!Ids(e) = D!Ids(d) \ Gone(d, s)
        /\ \A i \in D!Ids(e) : e.rows[i].of = d.rows[i].of
    BY AfterIs
  <1>2. \A i \in D!Ids(d) : i \in D!Row /\ Parented(i, d.rows[i].of)
    BY DEF TablesOK
  <1>3. \A i : i \in Gone(d, s) <=>
          \/ i \in s
          \/ i \in D!Ids(d) /\ d.rows[i].of \in s
          \/ i \in D!Ids(d) /\ i \in Asset /\ d.rows[i].of \in D!Ids(d) /\ d.rows[d.rows[i].of].of \in s
    BY DEF Gone
  <1>4. \A i : i \in Gone(d, s \cup {u}) <=>
          \/ i \in s \cup {u}
          \/ i \in D!Ids(d) /\ d.rows[i].of \in s \cup {u}
          \/ i \in D!Ids(d) /\ i \in Asset /\ d.rows[i].of \in D!Ids(d) /\ d.rows[d.rows[i].of].of \in s \cup {u}
    BY DEF Gone
  <1>5. \A i : i \in Gone(e, {u}) <=>
          \/ i = u
          \/ i \in D!Ids(e) /\ e.rows[i].of = u
          \/ i \in D!Ids(e) /\ i \in Asset /\ e.rows[i].of \in D!Ids(e) /\ e.rows[e.rows[i].of].of = u
    BY DEF Gone
  <1> HIDE DEF e
  <1>6. ASSUME NEW i, i \in Gone(e, {u}) PROVE i \in Gone(d, s \cup {u})
    BY <1>1, <1>4, <1>5, <1>6
  <1>7. ASSUME NEW i, i \in Gone(d, s \cup {u}), i \notin Gone(d, s) PROVE i \in Gone(e, {u})
    <2>1. CASE i = u
      BY <1>5, <2>1
    <2>2. CASE i \in D!Ids(d) /\ d.rows[i].of = u
      BY <1>1, <1>5, <1>7, <2>2
    <2>3. CASE i \in D!Ids(d) /\ i \in Asset /\ d.rows[i].of \in D!Ids(d) /\ d.rows[d.rows[i].of].of = u
      <3> DEFINE b == d.rows[i].of
      <3>1. i \in D!Ids(e) /\ e.rows[i].of = b
        BY <1>1, <1>7, <2>3
      <3>2. b \in AdminBookmark /\ b \in D!Ids(d) /\ d.rows[b].of = u
        BY <1>2, <2>3 DEF Parented
      <3>3. b \notin s /\ b \notin Asset
        BY <3>2, KindsDiffer
      <3>4. u \notin s
        BY <1>3, <1>7, <2>3
      <3> HIDE DEF b
      <3>5. b \in D!Ids(e) /\ e.rows[b].of = u
        BY <1>1, <1>3, <3>2, <3>3, <3>4
      <3> QED BY <1>5, <2>3, <3>1, <3>5
    <2> QED BY <1>3, <1>4, <1>7, <2>1, <2>2, <2>3
  <1>8. Gone(d, s) \subseteq Gone(d, s \cup {u})
    BY <1>3, <1>4
  <1> HIDE DEF Gone
  <1> QED BY <1>6, <1>7, <1>8 DEF e

LEMMA AfterTwice ==
  ASSUME D!AdminAssumption, NEW d, TablesOK(d), NEW s \in SUBSET User, NEW u \in User
  PROVE  After(After(d, s), {u}) = After(d, s \cup {u})
  <1>0. Gone(d, s) \cup Gone(After(d, s), {u}) = Gone(d, s \cup {u})
    BY GoneTwice, SMTT(60)
  <1> DEFINE t == s \cup {u}
             a == After(d, s)
             e == After(a, {u})
             w == After(d, t)
             X == Gone(d, s)
             Y == Gone(a, {u})
             Z == Gone(d, t)
  <1>1. X \cup Y = Z
    BY <1>0
  <1>2. /\ TablesOK(a) /\ D!Ids(a) = D!Ids(d) \ X
        /\ \A i \in D!Ids(a) : /\ a.rows[i].of = d.rows[i].of /\ a.rows[i].mark = d.rows[i].mark
                             /\ a.rows[i].latest = IF d.rows[i].latest \in X THEN Null ELSE d.rows[i].latest
        /\ a.links = {l \in d.links : l[1] \notin X /\ l[2] \notin X}
        /\ a.guest = IF d.guest \in s THEN Null ELSE d.guest
        /\ a.log = {f \in d.log : f.by \notin s} /\ a.unused = d.unused
    BY AfterIs
  <1>3. /\ TablesOK(w) /\ D!Ids(w) = D!Ids(d) \ Z
        /\ \A i \in D!Ids(w) : /\ w.rows[i].of = d.rows[i].of /\ w.rows[i].mark = d.rows[i].mark
                             /\ w.rows[i].latest = IF d.rows[i].latest \in Z THEN Null ELSE d.rows[i].latest
        /\ w.links = {l \in d.links : l[1] \notin Z /\ l[2] \notin Z}
        /\ w.guest = IF d.guest \in t THEN Null ELSE d.guest
        /\ w.log = {f \in d.log : f.by \notin t} /\ w.unused = d.unused
    <2> HIDE DEF t
    <2> QED BY AfterIs
  <1> HIDE DEF a, X, Z
  <1>4. /\ TablesOK(e) /\ D!Ids(e) = D!Ids(a) \ Y
        /\ \A i \in D!Ids(e) : /\ e.rows[i].of = a.rows[i].of /\ e.rows[i].mark = a.rows[i].mark
                             /\ e.rows[i].latest = IF a.rows[i].latest \in Y THEN Null ELSE a.rows[i].latest
        /\ e.links = {l \in a.links : l[1] \notin Y /\ l[2] \notin Y}
        /\ e.guest = IF a.guest \in {u} THEN Null ELSE a.guest
        /\ e.log = {f \in a.log : f.by \notin {u}} /\ e.unused = a.unused
    BY <1>2, AfterIs
  <1> HIDE DEF e, w, Y
  <1>5. D!Ids(e) = D!Ids(w)
    BY <1>1, <1>2, <1>3, <1>4
  <1>6. \A i \in D!Ids(e) : /\ e.rows[i].of = w.rows[i].of /\ e.rows[i].mark = w.rows[i].mark
                          /\ e.rows[i].latest = w.rows[i].latest
    BY <1>1, <1>2, <1>3, <1>4
  <1>7. e.links = w.links
    BY <1>1, <1>2, <1>3, <1>4
  <1>8. e.log = w.log
    BY <1>2, <1>3, <1>4
  <1>9. TablesOK(e) /\ TablesOK(w) /\ e.guest = w.guest /\ e.unused = w.unused
    BY <1>2, <1>3, <1>4
  <1>10. e = w
    BY <1>5, <1>6, <1>7, <1>8, <1>9, SameTables
  <1> QED BY <1>10 DEF a, e, w

\* Two functions on the subsets of a set have one value for the empty set, and
\* for any other if they agree on some smaller one: as folds of one operator do.
FoldAlike(S, g, h) ==
  /\ g[{}] = h[{}]
  /\ \A s \in SUBSET S : s # {} => \E x \in s : g[s \ {x}] = h[s \ {x}] => g[s] = h[s]

LEMMA FoldsAgree ==
  ASSUME NEW S, IsFiniteSet(S), NEW g, NEW h, FoldAlike(S, g, h)
  PROVE  g[S] = h[S]
  <1> DEFINE Bad == {s \in SUBSET S : g[s] # h[s]}
  <1> SUFFICES ASSUME Bad # {} PROVE FALSE
    OBVIOUS
  <1>1. IsWellFoundedOn(StrictSubsetOrdering(S), SUBSET S)
    BY FS_StrictSubsetOrderingWellFounded, FS_FiniteSubsetsOfFinite
  <1>2. PICK s \in Bad : \A t \in Bad : <<t, s>> \notin StrictSubsetOrdering(S)
    <2> Bad \subseteq SUBSET S
      OBVIOUS
    <2> HIDE DEF Bad
    <2> QED BY <1>1, WFMin
  <1>3. PICK x \in s : g[s \ {x}] = h[s \ {x}] => g[s] = h[s]
    BY DEF FoldAlike
  <1>4. s \ {x} \in Bad
    BY <1>3
  <1>5. <<s \ {x}, s>> \in StrictSubsetOrdering(S)
    BY DEF StrictSubsetOrdering
  <1> QED BY <1>2, <1>4, <1>5

\* Users that go one by one leave what their going at once would.
LEMMA UsersDeletedIs ==
  ASSUME D!AdminAssumption, NEW d, NEW a, NEW S \in SUBSET User, TablesOK(D!Logged(d, a, S, "deleted"))
  PROVE  D!UsersDeleted(d, a, S) = After(D!Logged(d, a, S, "deleted"), S)
  <1> DEFINE b == D!Logged(d, a, S, "deleted")
             Eq(g) == g = [s \in SUBSET S |->
                             IF s = {} THEN b
                             ELSE D!UserDeleted(g[s \ {CHOOSE x \in s : TRUE}], CHOOSE x \in s : TRUE)]
             h == [s \in SUBSET S |-> After(b, s)]
             g == CHOOSE g : Eq(g)
  <1>1. IsFiniteSet(S)
    BY SizesOfAdmin, FS_Subset, KindsDiffer DEF D!AdminAssumption
  <1>2. TablesOK(b)
    OBVIOUS
  <1> HIDE DEF b
  <1>3. After(b, {}) = b
    <2> DEFINE e == After(b, {})
    <2>1. Gone(b, {}) = {}
      BY DEF Gone
    <2>2. /\ TablesOK(e) /\ D!Ids(e) = D!Ids(b) \ Gone(b, {})
          /\ \A i \in D!Ids(e) : /\ e.rows[i].of = b.rows[i].of /\ e.rows[i].mark = b.rows[i].mark
                               /\ e.rows[i].latest = IF b.rows[i].latest \in Gone(b, {}) THEN Null
                                                     ELSE b.rows[i].latest
          /\ e.links = {l \in b.links : l[1] \notin Gone(b, {}) /\ l[2] \notin Gone(b, {})}
          /\ e.guest = IF b.guest \in {} THEN Null ELSE b.guest
          /\ e.log = {f \in b.log : f.by \notin {}} /\ e.unused = b.unused
      BY <1>2, AfterIs
    <2> HIDE DEF e
    <2>3. D!Ids(e) = D!Ids(b) /\ e.links = b.links /\ e.guest = b.guest /\ e.log = b.log /\ e.unused = b.unused
      BY <2>1, <2>2
    <2>4. \A i \in D!Ids(e) : /\ e.rows[i].of = b.rows[i].of /\ e.rows[i].mark = b.rows[i].mark
                            /\ e.rows[i].latest = b.rows[i].latest
      BY <2>1, <2>2
    <2>5. e = b
      BY <1>2, <2>2, <2>3, <2>4, SameTables
    <2> QED BY <2>5 DEF e
  <1>4. ASSUME NEW s \in SUBSET S, NEW x \in s
        PROVE  D!UserDeleted(h[s \ {x}], x) = h[s]
    <2> DEFINE t == s \ {x}
    <2>1. t \in SUBSET S /\ t \in SUBSET User /\ x \in User /\ t \cup {x} = s
      OBVIOUS
    <2> HIDE DEF t
    <2>2. h[t] = After(b, t) /\ h[s] = After(b, s)
      BY <2>1
    <2>3. TablesOK(After(b, t))
      BY <1>2, AfterIs
    <2>4. D!UserDeleted(After(b, t), x) = After(After(b, t), {x})
      BY <2>1, <2>3, UserDeletedIs
    <2>5. After(After(b, t), {x}) = After(b, t \cup {x})
      BY <1>2, <2>1, AfterTwice
    <2> QED BY <2>1, <2>2, <2>4, <2>5 DEF t
  <1>5. Eq(h)
    <2>1. ASSUME NEW s \in SUBSET S
          PROVE  h[s] = IF s = {} THEN b
                        ELSE D!UserDeleted(h[s \ {CHOOSE x \in s : TRUE}], CHOOSE x \in s : TRUE)
      <3>1. CASE s = {}
        BY <1>3, <3>1
      <3>2. CASE s # {}
        <4>1. (CHOOSE x \in s : TRUE) \in s
          BY <3>2
        <4> HIDE DEF h
        <4> QED BY <1>4, <3>2, <4>1
      <3> QED BY <3>1, <3>2
    <2> QED BY <2>1
  <1>6. Eq(g)
    BY <1>5
  <1>7. D!UsersDeleted(d, a, S) = g[S]
    BY DEF D!UsersDeleted, D!FoldSet, D!MapThenFoldSet, b
  <1>8. g[{}] = h[{}]
    BY <1>3, <1>6
  <1>9. ASSUME NEW s \in SUBSET S, s # {}
        PROVE  \E x \in s : g[s \ {x}] = h[s \ {x}] => g[s] = h[s]
    <2>1. (CHOOSE x \in s : TRUE) \in s
      BY <1>9
    <2>2. g[s] = D!UserDeleted(g[s \ {CHOOSE x \in s : TRUE}], CHOOSE x \in s : TRUE)
      BY <1>6, <1>9
    <2> HIDE DEF g, h
    <2> QED BY <1>4, <2>1, <2>2
  <1>10. g[S] = h[S]
    <2> HIDE DEF g, h
    <2>1. \A s \in SUBSET S : s # {} => \E x \in s : g[s \ {x}] = h[s \ {x}] => g[s] = h[s]
      BY <1>9
    <2>2. FoldAlike(S, g, h)
      BY <1>8, <2>1 DEF FoldAlike
    <2> QED BY <1>1, <2>2, FoldsAgree
  <1> HIDE DEF g
  <1> QED BY <1>7, <1>10 DEF b

-----------------------------------------------------------------------------
(* The invariant. *)

\* What a request has read and will write.  Rows it is to delete it has read: their
\* identifiers are not unused ones.
SaveOK(c) ==
  /\ c = [op |-> "save", by |-> c.by, id |-> c.id, kind |-> c.kind, tags |-> c.tags, row |-> c.row]
  /\ c.by \in User /\ c.kind \in D!Kinds /\ c.id \in c.kind \cup {Null}
  /\ c.tags \subseteq Tag /\ c.row \in D!Fields
  /\ \A i \in c.kind : Parented(i, c.row.of) /\ (i \notin AdminBookmark => c.tags = {})
DeleteOK(c) ==
  /\ c = [op |-> "delete", by |-> c.by, id |-> c.id, of |-> c.of]
  /\ c.by \in User /\ c.id \in (D!Row \ User) \ db.unused
SelectedOK(c) ==
  /\ c = [op |-> "selected", by |-> c.by, ids |-> c.ids]
  /\ c.by \in User /\ c.ids \cap db.unused = {}
  /\ c.ids # {}
  /\ c.ids \subseteq Tag \/ c.ids \subseteq Asset \/ c.ids \subseteq AdminItem
UsersOK(c) ==
  /\ c = [op |-> "users", by |-> c.by, ids |-> c.ids]
  /\ c.by \in User /\ c.ids \subseteq User /\ c.ids \cap db.unused = {}
BookmarksOK(c) ==
  /\ c = [op |-> "bookmarks", what |-> c.what, todo |-> c.todo]
  /\ c.what \in {"delete", "mark", "unmark"}
  /\ \A t \in c.todo : t.id \in AdminBookmark
\* Files to remove are those of assets that are gone for good.
RemoveOK(c) ==
  /\ c = [op |-> "remove", files |-> c.files]
  /\ c.files \subseteq Asset /\ c.files \cap (D!Ids(db) \cup db.unused) = {}
CallOK(c) ==
  \/ c = D!Idle
  \/ c.op = "save" /\ SaveOK(c)
  \/ c.op = "delete" /\ DeleteOK(c)
  \/ c.op = "selected" /\ SelectedOK(c)
  \/ c.op = "users" /\ UsersOK(c)
  \/ c.op = "bookmarks" /\ BookmarksOK(c)
  \/ c.op = "remove" /\ RemoveOK(c)

LogEntry == [by : User, id : D!Row, did : {"added", "changed", "deleted"}]
LogOK == db.log \subseteq LogEntry /\ \A e \in db.log : e.did = "deleted" => e.id \notin D!Ids(db) \cup db.unused

ToRemove == UNION {adminCall[r].files : r \in {k \in Request : adminCall[k].op = "remove"}}
FilesOK ==
  /\ files \subseteq Asset
  /\ (Asset \cap D!Ids(db)) \ Fresh \subseteq files
  /\ files \subseteq D!Ids(db) \cup ToRemove

AdminInv ==
  /\ TablesOK(db) /\ D!Sound(db) /\ D!Ids(db) \cap db.unused = {}
  /\ LogOK /\ FilesOK
  /\ adminCall = [r \in Request |-> adminCall[r]] /\ \A r \in Request : CallOK(adminCall[r])
  /\ left \in 0..MaxRequests

-----------------------------------------------------------------------------
(* What steps have in common. *)

LEMMA LoggedIs ==
  ASSUME NEW d, TablesOK(d), NEW a, NEW S, NEW did
  PROVE  LET e == D!Logged(d, a, S, did) IN
         /\ TablesOK(e) /\ D!Ids(e) = D!Ids(d)
         /\ e.rows = d.rows /\ e.links = d.links /\ e.guest = d.guest /\ e.unused = d.unused
         /\ e.log = d.log \cup {[by |-> a, id |-> i, did |-> did] : i \in S}
  <1> DEFINE new == d.log \cup {[by |-> a, id |-> i, did |-> did] : i \in S}
             e == D!Logged(d, a, S, did)
  <1>1. e = [d EXCEPT !.log = new]
    BY DEF D!Logged
  <1>2. d = Db(d.rows, d.links, d.guest, d.log, d.unused)
    BY DEF TablesOK
  <1> HIDE DEF new, e
  <1>3. /\ e.rows = d.rows /\ e.links = d.links /\ e.guest = d.guest /\ e.unused = d.unused
        /\ e.log = new /\ e = Db(e.rows, e.links, e.guest, e.log, e.unused)
    BY <1>1, <1>2 DEF Db
  <1>4. TablesOK(e) /\ D!Ids(e) = D!Ids(d)
    BY <1>3 DEF TablesOK, D!Ids
  <1> QED BY <1>3, <1>4 DEF e, new

\* The log stays sound when whoever acts is there.
LEMMA LoggedSound ==
  ASSUME NEW d, TablesOK(d), D!Sound(d), NEW a \in D!Ids(d), NEW S, NEW did
  PROVE  D!Sound(D!Logged(d, a, S, did))
  <1> DEFINE e == D!Logged(d, a, S, did)
             more == {[by |-> a, id |-> i, did |-> did] : i \in S}
  <1>1. /\ D!Ids(e) = D!Ids(d) /\ e.rows = d.rows /\ e.links = d.links /\ e.guest = d.guest
        /\ e.log = d.log \cup more
    BY LoggedIs
  <1>2. \A f \in more : f.by = a
    OBVIOUS
  <1> HIDE DEF e, more
  <1>3. D!Sound(e)
    BY <1>1, <1>2 DEF D!Sound
  <1> QED BY <1>3 DEF e

\* Rows may go when what refers to them goes with them.
LEMMA ClearedSound ==
  ASSUME D!AdminAssumption, NEW d, TablesOK(d), D!Sound(d), NEW X,
         \A i \in D!Ids(d) \ X : d.rows[i].of \notin X,
         d.guest \notin X, \A e \in d.log : e.by \notin X
  PROVE  D!Sound(Cleared(d, X))
  <1> DEFINE e == Cleared(d, X)
  <1>1. /\ TablesOK(e) /\ D!Ids(e) = D!Ids(d) \ X
        /\ \A i \in D!Ids(e) : /\ e.rows[i].of = d.rows[i].of
                             /\ e.rows[i].latest = IF d.rows[i].latest \in X THEN Null ELSE d.rows[i].latest
        /\ e.links = {l \in d.links : l[1] \notin X /\ l[2] \notin X}
        /\ e.guest = d.guest /\ e.log = d.log
    BY ClearedIs
  <1> HIDE DEF e
  <1>2. \A i \in D!Ids(e) : /\ e.rows[i].of \in D!Ids(e) \cup {Null}
                          /\ e.rows[i].latest \in D!Ids(e) \cup {Null}
    BY <1>1 DEF D!Sound
  <1>3. e.links \subseteq D!Ids(e) \X D!Ids(e)
    <2>1. d.links \subseteq D!Ids(d) \X D!Ids(d)
      BY DEF D!Sound
    <2> QED BY <1>1, <2>1
  <1>4. e.guest \in D!Ids(e) \cup {Null} /\ \A f \in e.log : f.by \in D!Ids(e)
    BY <1>1 DEF D!Sound
  <1>5. D!Sound(e)
    BY <1>2, <1>3, <1>4 DEF D!Sound
  <1> QED BY <1>5 DEF e

\* What a request has read it has read, as identifiers are not given out again.
LEMMA AdminCallStays ==
  ASSUME NEW c, CallOK(c), db'.unused \subseteq db.unused,
         D!Ids(db') \cup db'.unused \subseteq D!Ids(db) \cup db.unused
  PROVE  CallOK(c)'
  <1>1. CASE c.op = "save" /\ SaveOK(c)
    BY <1>1 DEF CallOK, SaveOK
  <1>2. CASE c.op = "delete" /\ DeleteOK(c)
    BY <1>2 DEF CallOK, DeleteOK
  <1>3. CASE c.op = "selected" /\ SelectedOK(c)
    BY <1>3 DEF CallOK, SelectedOK
  <1>4. CASE c.op = "users" /\ UsersOK(c)
    BY <1>4 DEF CallOK, UsersOK
  <1>5. CASE c.op = "bookmarks" /\ BookmarksOK(c)
    BY <1>5 DEF CallOK, BookmarksOK
  <1>6. CASE c.op = "remove" /\ RemoveOK(c)
    <2>1. RemoveOK(c)'
      BY <1>6 DEF RemoveOK
    <2> QED BY <1>6, <2>1 DEF CallOK
  <1>7. CASE c = D!Idle
    BY <1>7 DEF CallOK
  <1> QED BY <1>1, <1>2, <1>3, <1>4, <1>5, <1>6, <1>7 DEF CallOK

LEMMA CallsStay ==
  ASSUME AdminInv, NEW r \in Request, NEW c, adminCall' = [adminCall EXCEPT ![r] = c], CallOK(c)',
         db'.unused \subseteq db.unused, D!Ids(db') \cup db'.unused \subseteq D!Ids(db) \cup db.unused
  PROVE  adminCall' = [k \in Request |-> adminCall'[k]] /\ \A k \in Request : CallOK(adminCall[k])'
  <1>1. adminCall = [k \in Request |-> adminCall[k]] /\ \A k \in Request : CallOK(adminCall[k])
    BY DEF AdminInv
  <1>2. DOMAIN adminCall = Request /\ adminCall'[r] = c /\ \A k \in Request : k # r => adminCall'[k] = adminCall[k]
    BY <1>1
  <1>3. adminCall' = [k \in Request |-> adminCall'[k]]
    BY <1>1
  <1>4. ASSUME NEW k \in Request PROVE CallOK(adminCall[k])'
    <2>1. CASE k = r
      BY <1>2, <2>1
    <2>2. CASE k # r
      <3>1. PICK d : d = adminCall[k]
        OBVIOUS
      <3>2. CallOK(d)
        BY <1>1, <3>1
      <3>3. CallOK(d)'
        BY <3>2, AdminCallStays
      <3> QED BY <1>2, <2>2, <3>1, <3>3
    <2> QED BY <2>1, <2>2
  <1> QED BY <1>3, <1>4

\* A transaction leaves the files of what it removes to be removed.
LEMMA FilesStay ==
  ASSUME AdminInv, NEW r \in Request, NEW c, adminCall' = [adminCall EXCEPT ![r] = c],
         adminCall[r].op # "remove", files' = files, D!Ids(db') \ Fresh \subseteq D!Ids(db),
         Asset \cap (D!Ids(db) \ D!Ids(db')) \subseteq IF c.op = "remove" THEN c.files ELSE {}
  PROVE  FilesOK'
  <1>1. adminCall = [k \in Request |-> adminCall[k]] /\ FilesOK
    BY DEF AdminInv
  <1>2. DOMAIN adminCall = Request /\ adminCall'[r] = c /\ \A k \in Request : k # r => adminCall'[k] = adminCall[k]
    BY <1>1
  <1>3. \A f : f \in ToRemove <=> \E k \in Request : adminCall[k].op = "remove" /\ f \in adminCall[k].files
    BY DEF ToRemove
  <1>4. \A f : f \in ToRemove' <=> \E k \in Request : adminCall'[k].op = "remove" /\ f \in adminCall'[k].files
    BY DEF ToRemove
  <1>5. ToRemove \subseteq ToRemove'
    BY <1>2, <1>3, <1>4
  <1>6. ASSUME NEW f \in files, f \in D!Ids(db), f \notin D!Ids(db') PROVE f \in ToRemove'
    <2>1. f \in Asset
      BY <1>1 DEF FilesOK
    <2>2. c.op = "remove" /\ f \in c.files
      BY <1>6, <2>1
    <2> QED BY <1>2, <1>4, <2>2
  <1>7. files' \subseteq D!Ids(db') \cup ToRemove'
    BY <1>1, <1>5, <1>6 DEF FilesOK
  <1>8. files' \subseteq Asset /\ (Asset \cap D!Ids(db')) \ Fresh \subseteq files'
    BY <1>1 DEF FilesOK
  <1> QED BY <1>7, <1>8 DEF FilesOK

\* A transaction that removes the rows X, and then the files F.
LEMMA RemovalKeeps ==
  ASSUME AdminInv, NEW r \in Request, adminCall[r].op # "remove", NEW X, NEW F \in SUBSET Asset, D!Ends(r, F),
         TablesOK(db'), D!Sound(db'), D!Ids(db') = D!Ids(db) \ X, db'.unused = db.unused, LogOK',
         F \cap (D!Ids(db') \cup db.unused) = {}, Asset \cap D!Ids(db) \cap X \subseteq F,
         UNCHANGED <<files, left>>
  PROVE  AdminInv'
  <1>1. PICK c : c = IF F = {} THEN D!Idle ELSE [op |-> "remove", files |-> F]
    OBVIOUS
  <1>2. adminCall' = [adminCall EXCEPT ![r] = c]
    BY <1>1 DEF D!Ends
  <1>3. CallOK(c)'
    <2>1. CASE F = {}
      BY <1>1, <2>1 DEF CallOK
    <2>2. CASE F # {}
      BY <1>1, <2>2 DEF CallOK, RemoveOK
    <2> QED BY <2>1, <2>2
  <1>4. adminCall' = [k \in Request |-> adminCall'[k]] /\ \A k \in Request : CallOK(adminCall[k])'
    BY <1>2, <1>3, CallsStay
  <1>5. FilesOK'
    <2>1. Asset \cap (D!Ids(db) \ D!Ids(db')) \subseteq IF c.op = "remove" THEN c.files ELSE {}
      BY <1>1
    <2> QED BY <1>2, <2>1, FilesStay
  <1>6. D!Ids(db') \cap db'.unused = {} /\ left' \in 0..MaxRequests
    BY DEF AdminInv
  <1> QED BY <1>4, <1>5, <1>6 DEF AdminInv

-----------------------------------------------------------------------------
(* Requests that read. *)

LEMMA ReadKeeps ==
  ASSUME D!AdminAssumption, AdminInv, NEW r \in Request, adminCall[r] = D!Idle,
         left > 0, left' = left - 1, UNCHANGED <<db, files>>,
         NEW c, adminCall' = [adminCall EXCEPT ![r] = c], CallOK(c)
  PROVE  AdminInv'
  <1>1. db' = db
    OBVIOUS
  <1>2. CallOK(c)'
    BY <1>1, AdminCallStays
  <1>3. adminCall' = [k \in Request |-> adminCall'[k]] /\ \A k \in Request : CallOK(adminCall[k])'
    BY <1>1, <1>2, CallsStay
  <1>4. FilesOK'
    <2>1. Asset \cap (D!Ids(db) \ D!Ids(db')) \subseteq IF c.op = "remove" THEN c.files ELSE {}
      BY <1>1
    <2>2. adminCall[r].op # "remove"
      BY DEF D!Idle
    <2>3. files' = files /\ D!Ids(db') \ Fresh \subseteq D!Ids(db)
      BY <1>1
    <2> QED BY <2>1, <2>2, <2>3, FilesStay
  <1>5. left' \in 0..MaxRequests
    BY DEF AdminInv, D!AdminAssumption
  <1>6. TablesOK(db') /\ D!Sound(db') /\ D!Ids(db') \cap db'.unused = {} /\ LogOK'
    BY <1>1 DEF AdminInv, LogOK
  <1> QED BY <1>3, <1>4, <1>5, <1>6 DEF AdminInv

LEMMA FormsFit ==
  ASSUME D!AdminAssumption, TablesOK(db), NEW kind \in D!Kinds, NEW f \in D!FormOf(kind)
  PROVE  /\ f.tags \subseteq Tag
         /\ [of |-> f.of, latest |-> f.latest, mark |-> FALSE] \in D!Fields
         /\ \A i \in kind : Parented(i, f.of) /\ (i \notin AdminBookmark => f.tags = {})
  <1>1. \A g \in D!UserForm : g.of = Null /\ g.latest = Null /\ g.tags = {}
    BY DEF D!UserForm, D!Form
  <1>2. \A g \in D!BookmarkForm : /\ g.of \in User /\ g.latest \in Asset \cup {Null}
                                /\ g.tags \subseteq Tag
    BY DEF D!BookmarkForm, D!Form
  <1>3. \A g \in D!TagForm : g.of \in User /\ g.latest = Null /\ g.tags = {}
    BY DEF D!TagForm, D!Form
  <1>4. \A g \in D!AssetForm : g.of \in AdminBookmark /\ g.latest = Null /\ g.tags = {}
    BY DEF D!AssetForm, D!Form
  <1>5. \A g \in D!ItemForm : g.of \in User /\ g.latest = Null /\ g.tags = {}
    BY DEF D!ItemForm, D!Form
  <1>6. \/ kind = User /\ f \in D!UserForm
        \/ kind = AdminBookmark /\ f \in D!BookmarkForm
        \/ kind = Tag /\ f \in D!TagForm
        \/ kind = Asset /\ f \in D!AssetForm
        \/ kind = AdminItem /\ f \in D!ItemForm
    BY DEF D!FormOf, D!Kinds
  <1>7. /\ f.tags \subseteq Tag /\ f.of \in D!Row \cup {Null} /\ f.latest \in Asset \cup {Null}
    BY <1>1, <1>2, <1>3, <1>4, <1>5, <1>6, KindsDiffer
  <1>8. \A i \in kind : Parented(i, f.of) /\ (i \notin AdminBookmark => f.tags = {})
    BY <1>1, <1>2, <1>3, <1>4, <1>5, <1>6, KindsDiffer DEF Parented
  <1> QED BY <1>7, <1>8 DEF D!Fields

LEMMA OpenFormKeeps ==
  ASSUME D!AdminAssumption, AdminInv, NEW r \in Request, NEW a \in Staff, NEW kind \in D!Kinds, NEW i,
         D!OpenForm(r, a, kind, i)
  PROVE  AdminInv'
  <1>1. PICK f \in D!FormOf(kind) :
          adminCall' = [adminCall EXCEPT ![r] =
            [op |-> "save", by |-> a, id |-> i, kind |-> kind, tags |-> f.tags,
             row |-> [of |-> f.of, latest |-> f.latest, mark |-> FALSE]]]
    BY DEF D!OpenForm
  <1>2. PICK c : c = [op |-> "save", by |-> a, id |-> i, kind |-> kind, tags |-> f.tags,
                      row |-> [of |-> f.of, latest |-> f.latest, mark |-> FALSE]]
    OBVIOUS
  <1>3. a \in User /\ i \in kind \cup {Null}
    BY DEF D!OpenForm, D!AdminAssumption
  <1>4. CallOK(c)
    <2>1. /\ f.tags \subseteq Tag
          /\ [of |-> f.of, latest |-> f.latest, mark |-> FALSE] \in D!Fields
          /\ \A k \in kind : Parented(k, f.of) /\ (k \notin AdminBookmark => f.tags = {})
      BY FormsFit DEF AdminInv
    <2>2. c.op = "save" /\ SaveOK(c)
      BY <1>2, <1>3, <2>1 DEF SaveOK
    <2> QED BY <2>2 DEF CallOK
  <1>5. adminCall[r] = D!Idle /\ left > 0 /\ left' = left - 1 /\ UNCHANGED <<db, files>>
    BY DEF D!OpenForm, D!Arrives
  <1> QED BY <1>1, <1>2, <1>4, <1>5, ReadKeeps

LEMMA ReadRowsKeep ==
  ASSUME D!AdminAssumption, AdminInv, NEW r \in Request, NEW a \in Staff,
         \/ \E i \in D!Row : D!OpenDeletion(r, a, i)
         \/ \E S : D!SelectRows(r, a, S) \/ D!SelectBookmarks(r, a, S)
  PROVE  AdminInv'
  <1>1. /\ a \in User /\ D!Ids(db) \subseteq D!Row /\ D!Ids(db) \cap db.unused = {}
    BY DEF D!AdminAssumption, AdminInv, TablesOK
  <1>2. ASSUME NEW i \in D!Row, D!OpenDeletion(r, a, i)
        PROVE  AdminInv'
    <2>1. PICK c : c = IF i \in User THEN [op |-> "users", by |-> a, ids |-> {i}]
                       ELSE [op |-> "delete", by |-> a, id |-> i, of |-> db.rows[i].of]
      OBVIOUS
    <2>2. i \in D!Ids(db) /\ adminCall' = [adminCall EXCEPT ![r] = c]
      BY <1>2, <2>1 DEF D!OpenDeletion
    <2>3. CallOK(c)
      <3>1. CASE i \in User
        BY <1>1, <2>1, <2>2, <3>1 DEF CallOK, UsersOK
      <3>2. CASE i \notin User
        BY <1>1, <2>1, <2>2, <3>2 DEF CallOK, DeleteOK
      <3> QED BY <3>1, <3>2
    <2>4. adminCall[r] = D!Idle /\ left > 0 /\ left' = left - 1 /\ UNCHANGED <<db, files>>
      BY <1>2 DEF D!OpenDeletion, D!Arrives
    <2> QED BY <2>2, <2>3, <2>4, ReadKeeps
  <1>3. ASSUME NEW S, D!SelectRows(r, a, S)
        PROVE  AdminInv'
    <2>1. PICK kind \in {User, Tag, Asset, AdminItem} :
            /\ S \subseteq kind
            /\ adminCall' = [adminCall EXCEPT ![r] =
                 [op |-> IF kind = User THEN "users" ELSE "selected", by |-> a, ids |-> S]]
      BY <1>3 DEF D!SelectRows
    <2>2. PICK c : c = [op |-> IF kind = User THEN "users" ELSE "selected", by |-> a, ids |-> S]
      OBVIOUS
    <2>3. S # {} /\ S \subseteq D!Ids(db)
      BY <1>3 DEF D!SelectRows
    <2>4. CallOK(c)
      <3>1. CASE kind = User
        BY <1>1, <2>1, <2>2, <2>3, <3>1 DEF CallOK, UsersOK
      <3>2. CASE kind # User
        BY <1>1, <2>1, <2>2, <2>3, <3>2 DEF CallOK, SelectedOK
      <3> QED BY <3>1, <3>2
    <2>5. adminCall[r] = D!Idle /\ left > 0 /\ left' = left - 1 /\ UNCHANGED <<db, files>>
      BY <1>3 DEF D!SelectRows, D!Arrives
    <2> QED BY <2>1, <2>2, <2>4, <2>5, ReadKeeps
  <1>4. ASSUME NEW S, D!SelectBookmarks(r, a, S)
        PROVE  AdminInv'
    <2>1. PICK what \in {"delete", "mark", "unmark"} :
            adminCall' = [adminCall EXCEPT ![r] =
              [op |-> "bookmarks", what |-> what,
               todo |-> {[id |-> b, of |-> db.rows[b].of] : b \in S}]]
      BY <1>4 DEF D!SelectBookmarks
    <2>2. PICK c : c = [op |-> "bookmarks", what |-> what,
                        todo |-> {[id |-> b, of |-> db.rows[b].of] : b \in S}]
      OBVIOUS
    <2>3. S \subseteq AdminBookmark
      BY <1>4 DEF D!SelectBookmarks
    <2>4. CallOK(c)
      <3>1. c.op = "bookmarks" /\ c.what = what /\ c = [op |-> "bookmarks", what |-> c.what, todo |-> c.todo]
        BY <2>2
      <3>2. \A t \in c.todo : t.id \in AdminBookmark
        BY <2>2, <2>3
      <3> QED BY <3>1, <3>2 DEF CallOK, BookmarksOK
    <2>5. adminCall[r] = D!Idle /\ left > 0 /\ left' = left - 1 /\ UNCHANGED <<db, files>>
      BY <1>4 DEF D!SelectBookmarks, D!Arrives
    <2> QED BY <2>1, <2>2, <2>4, <2>5, ReadKeeps
  <1> QED BY <1>2, <1>3, <1>4

-----------------------------------------------------------------------------
(* Requests that write. *)

\* A step that no request's locals change in.
LEMMA OtherCallsStay ==
  ASSUME AdminInv, UNCHANGED <<adminCall, files>>, db'.unused = db.unused,
         D!Ids(db') \subseteq D!Ids(db), Asset \cap D!Ids(db) \subseteq D!Ids(db')
  PROVE  /\ adminCall' = [k \in Request |-> adminCall'[k]] /\ \A k \in Request : CallOK(adminCall[k])'
         /\ FilesOK' /\ D!Ids(db') \cap db'.unused = {}
  <1>1. ASSUME NEW k \in Request PROVE CallOK(adminCall[k])'
    <2>1. PICK c : c = adminCall[k]
      OBVIOUS
    <2>2. CallOK(c)
      BY <2>1 DEF AdminInv
    <2>3. CallOK(c)'
      BY <2>2, AdminCallStays
    <2> QED BY <2>1, <2>3
  <1>2. adminCall' = [k \in Request |-> adminCall'[k]]
    BY DEF AdminInv
  <1>3. FilesOK'
    <2>1. ToRemove' = ToRemove
      BY DEF ToRemove
    <2> QED BY <2>1 DEF AdminInv, FilesOK
  <1> QED BY <1>1, <1>2, <1>3 DEF AdminInv

\* Only users and bookmarks are referred to by what rows belong to, and only users
\* by the guest and the log.
LEMMA NobodyIsOf ==
  ASSUME D!AdminAssumption, NEW d, TablesOK(d), d.log \subseteq LogEntry, NEW X \in SUBSET (Tag \cup Asset \cup AdminItem)
  PROVE  /\ \A i \in D!Ids(d) \ X : d.rows[i].of \notin X
         /\ d.guest \notin X /\ \A e \in d.log : e.by \notin X
  <1>1. \A i \in D!Ids(d) : d.rows[i].of \in User \cup AdminBookmark \cup {Null}
    BY KindsDiffer DEF TablesOK, Parented
  <1>2. d.guest \in User \cup {Null} /\ \A e \in d.log : e.by \in User
    BY DEF TablesOK, LogEntry
  <1> QED BY <1>1, <1>2, KindsDiffer

LEMMA NameGuestKeeps ==
  ASSUME D!AdminAssumption, AdminInv, NEW a \in User, NEW u \in User, D!NameGuest(a, u)
  PROVE  AdminInv'
  <1>1. db' = [db EXCEPT !.guest = u] /\ u \in D!Ids(db) /\ UNCHANGED <<files, adminCall>>
        /\ left > 0 /\ left' = left - 1
    BY DEF D!NameGuest
  <1>2. db = Db(db.rows, db.links, db.guest, db.log, db.unused)
    BY DEF AdminInv, TablesOK
  <1>3. /\ db'.rows = db.rows /\ db'.links = db.links /\ db'.guest = u /\ db'.log = db.log
        /\ db'.unused = db.unused /\ db' = Db(db'.rows, db'.links, db'.guest, db'.log, db'.unused)
    BY <1>1, <1>2 DEF Db
  <1>4. D!Ids(db') = D!Ids(db)
    BY <1>3 DEF D!Ids
  <1>5. TablesOK(db')
    BY <1>3, <1>4 DEF AdminInv, TablesOK
  <1>6. D!Sound(db')
    BY <1>1, <1>3, <1>4 DEF AdminInv, D!Sound
  <1>7. LogOK'
    BY <1>3, <1>4 DEF AdminInv, LogOK
  <1>8. left' \in 0..MaxRequests
    BY <1>1 DEF AdminInv, D!AdminAssumption
  <1>9. /\ adminCall' = [k \in Request |-> adminCall'[k]] /\ \A k \in Request : CallOK(adminCall[k])'
        /\ FilesOK' /\ D!Ids(db') \cap db'.unused = {}
    BY <1>1, <1>3, <1>4, OtherCallsStay
  <1> QED BY <1>5, <1>6, <1>7, <1>8, <1>9 DEF AdminInv

LEMMA DeleteUnusedKeeps ==
  ASSUME D!AdminAssumption, AdminInv, NEW r \in Request, NEW a \in Staff, NEW S \in SUBSET Tag,
         D!DeleteUnused(r, a, S)
  PROVE  AdminInv'
  <1>1. PICK X : X = {t \in S \cap Tag \cap D!Ids(db) : \A l \in db.links : l[2] # t}
    OBVIOUS
  <1>2. db' = D!Deleted(db, X) /\ left > 0 /\ left' = left - 1 /\ UNCHANGED <<files, adminCall>>
    BY <1>1 DEF D!DeleteUnused
  <1>3. /\ TablesOK(db) /\ D!Sound(db) /\ db.log \subseteq LogEntry /\ db.links \subseteq AdminBookmark \X Tag
    BY DEF AdminInv, LogOK, TablesOK
  <1>4. X \in SUBSET (D!Row \ Asset) /\ X \in SUBSET (Tag \cup Asset \cup AdminItem)
        /\ \A l \in db.links : l[1] \notin X /\ l[2] \notin X
    BY <1>1, <1>3, KindsDiffer
  <1>5. PICK d : d = db
    OBVIOUS
  <1>6. db' = Cleared(d, X)
    <2>1. D!Deleted(d, X) = Cleared(d, X)
      BY <1>3, <1>4, <1>5, DeletedIs
    <2> QED BY <1>2, <1>5, <2>1
  <1>7. TablesOK(Cleared(d, X)) /\ D!Ids(Cleared(d, X)) = D!Ids(d) \ X
        /\ Cleared(d, X).log = d.log /\ Cleared(d, X).unused = d.unused
    BY <1>3, <1>5, ClearedIs
  <1>8. D!Sound(Cleared(d, X))
    BY <1>3, <1>4, <1>5, NobodyIsOf, ClearedSound
  <1>9. /\ TablesOK(db') /\ D!Sound(db') /\ D!Ids(db') = D!Ids(db) \ X /\ db'.log = db.log /\ db'.unused = db.unused
    BY <1>5, <1>6, <1>7, <1>8
  <1>10. LogOK'
    BY <1>9 DEF AdminInv, LogOK
  <1>11. Asset \cap D!Ids(db) \subseteq D!Ids(db')
    BY <1>1, <1>9, KindsDiffer
  <1>12. /\ adminCall' = [k \in Request |-> adminCall'[k]] /\ \A k \in Request : CallOK(adminCall[k])'
         /\ FilesOK' /\ D!Ids(db') \cap db'.unused = {}
    BY <1>2, <1>9, <1>11, OtherCallsStay
  <1>13. left' \in 0..MaxRequests
    BY <1>2 DEF AdminInv, D!AdminAssumption
  <1> QED BY <1>9, <1>10, <1>12, <1>13 DEF AdminInv

LEMMA RemoveFilesKeeps ==
  ASSUME AdminInv, NEW r \in Request, D!RemoveFiles(r)
  PROVE  AdminInv'
  <1>1. /\ adminCall[r].op = "remove" /\ files' = files \ adminCall[r].files
        /\ adminCall' = [adminCall EXCEPT ![r] = D!Idle] /\ UNCHANGED <<db, left>>
    BY DEF D!RemoveFiles
  <1>2. adminCall = [k \in Request |-> adminCall[k]] /\ CallOK(adminCall[r])
    BY DEF AdminInv
  <1>3. adminCall[r].files \cap D!Ids(db) = {}
    BY <1>1, <1>2 DEF CallOK, RemoveOK, D!Idle
  <1>4. CallOK(D!Idle)'
    BY DEF CallOK
  <1>5. adminCall' = [k \in Request |-> adminCall'[k]] /\ \A k \in Request : CallOK(adminCall[k])'
    BY <1>1, <1>4, CallsStay
  <1>6. FilesOK'
    <2>1. \A f : f \in ToRemove <=> \E k \in Request : adminCall[k].op = "remove" /\ f \in adminCall[k].files
      BY DEF ToRemove
    <2>2. \A f : f \in ToRemove' <=> \E k \in Request : adminCall'[k].op = "remove" /\ f \in adminCall'[k].files
      BY DEF ToRemove
    <2>3. \A k \in Request : k # r => adminCall'[k] = adminCall[k]
      BY <1>1, <1>2
    <2>4. ToRemove \ adminCall[r].files \subseteq ToRemove'
      BY <2>1, <2>2, <2>3
    <2> QED BY <1>1, <1>3, <2>4 DEF AdminInv, FilesOK
  <1> QED BY <1>1, <1>5, <1>6 DEF AdminInv, LogOK

\* A request that ends without writing.
LEMMA FailsKeep ==
  ASSUME AdminInv, NEW r \in Request, adminCall[r].op # "remove", D!Fails(r), UNCHANGED <<files, left>>
  PROVE  AdminInv'
  <1>1. adminCall' = [adminCall EXCEPT ![r] = D!Idle] /\ db' = db
    BY DEF D!Fails
  <1>2. CallOK(D!Idle)'
    BY DEF CallOK
  <1>3. adminCall' = [k \in Request |-> adminCall'[k]] /\ \A k \in Request : CallOK(adminCall[k])'
    BY <1>1, <1>2, CallsStay
  <1>4. FilesOK'
    <2>1. PICK c : c = D!Idle
      OBVIOUS
    <2>2. /\ adminCall' = [adminCall EXCEPT ![r] = c] /\ D!Ids(db') \ Fresh \subseteq D!Ids(db)
          /\ Asset \cap (D!Ids(db) \ D!Ids(db')) \subseteq IF c.op = "remove" THEN c.files ELSE {}
      BY <1>1, <2>1
    <2> QED BY <2>2, FilesStay
  <1> QED BY <1>1, <1>3, <1>4 DEF AdminInv, LogOK

\* A transaction that enters the log, making d of the tables, and removes X.
LEMMA ClearedKeeps ==
  ASSUME D!AdminAssumption, AdminInv, NEW r \in Request, adminCall[r].op # "remove",
         NEW d, TablesOK(d), D!Sound(d), D!Ids(d) = D!Ids(db), d.unused = db.unused, d.log \subseteq LogEntry,
         NEW X, \A i \in D!Ids(d) \ X : d.rows[i].of \notin X,
         d.guest \notin X, \A e \in d.log : e.by \notin X,
         \A e \in d.log : e.did = "deleted" => e.id \notin (D!Ids(db) \ X) \cup db.unused,
         NEW F \in SUBSET Asset, F \cap ((D!Ids(db) \ X) \cup db.unused) = {}, Asset \cap D!Ids(db) \cap X \subseteq F,
         db' = Cleared(d, X), D!Ends(r, F), UNCHANGED <<files, left>>
  PROVE  AdminInv'
  <1>1. /\ TablesOK(Cleared(d, X)) /\ D!Ids(Cleared(d, X)) = D!Ids(d) \ X
        /\ Cleared(d, X).log = d.log /\ Cleared(d, X).unused = d.unused
    BY ClearedIs
  <1>2. D!Sound(Cleared(d, X))
    BY ClearedSound
  <1>3. /\ TablesOK(db') /\ D!Sound(db') /\ D!Ids(db') = D!Ids(db) \ X /\ db'.log = d.log
        /\ db'.unused = db.unused
    BY <1>1, <1>2
  <1>4. LogOK'
    BY <1>3 DEF LogOK
  <1>5. F \cap (D!Ids(db') \cup db.unused) = {}
    BY <1>3
  <1> QED BY <1>3, <1>4, <1>5, RemovalKeeps

\* The log with the entries of a deletion.
LEMMA EnteredIs ==
  ASSUME D!AdminAssumption, AdminInv, NEW a \in User \cap D!Ids(db), NEW S \in SUBSET D!Row, S \cap db.unused = {},
         NEW d, d = D!Logged(db, a, S, "deleted")
  PROVE  /\ TablesOK(d) /\ D!Sound(d) /\ D!Ids(d) = D!Ids(db) /\ d.rows = db.rows /\ d.unused = db.unused
         /\ d.log \subseteq LogEntry
         /\ \A e \in d.log : e.did = "deleted" => e.id \in S \/ e.id \notin D!Ids(db) \cup db.unused
         /\ \A e \in d.log : e.did = "deleted" => e.id \notin db.unused
  <1>1. PICK b : b = db
    OBVIOUS
  <1>2. TablesOK(b) /\ D!Sound(b) /\ a \in D!Ids(b)
    BY <1>1 DEF AdminInv
  <1>3. /\ TablesOK(D!Logged(b, a, S, "deleted")) /\ D!Ids(D!Logged(b, a, S, "deleted")) = D!Ids(b)
        /\ D!Logged(b, a, S, "deleted").rows = b.rows /\ D!Logged(b, a, S, "deleted").unused = b.unused
        /\ D!Logged(b, a, S, "deleted").log = b.log \cup {[by |-> a, id |-> i, did |-> "deleted"] : i \in S}
    BY <1>2, LoggedIs
  <1>4. D!Sound(D!Logged(b, a, S, "deleted"))
    BY <1>2, LoggedSound
  <1>5. /\ TablesOK(d) /\ D!Sound(d) /\ D!Ids(d) = D!Ids(db) /\ d.rows = db.rows /\ d.unused = db.unused
        /\ d.log = db.log \cup {[by |-> a, id |-> i, did |-> "deleted"] : i \in S}
    BY <1>1, <1>3, <1>4
  <1>6. \A e \in {[by |-> a, id |-> i, did |-> "deleted"] : i \in S} : e \in LogEntry /\ e.id \in S
    BY DEF LogEntry
  <1>7. db.log \subseteq LogEntry /\ \A e \in db.log : e.did = "deleted" => e.id \notin D!Ids(db) \cup db.unused
    BY DEF AdminInv, LogOK
  <1> QED BY <1>5, <1>6, <1>7

LEMMA BookmarkIsWhole ==
  ASSUME D!AdminAssumption, NEW d, TablesOK(d), d.log \subseteq LogEntry, NEW b \in AdminBookmark,
         NEW X, X = {b} \cup D!Of(d, Asset, b)
  PROVE  /\ \A i \in D!Ids(d) \ X : d.rows[i].of \notin X
         /\ d.guest \notin X /\ \A e \in d.log : e.by \notin X
         /\ Asset \cap X = D!Of(d, Asset, b)
  <1>1. \A i \in D!Ids(d) : i \in D!Row /\ Parented(i, d.rows[i].of)
    BY DEF TablesOK
  <1>2. \A i : i \in D!Of(d, Asset, b) <=> i \in Asset /\ i \in D!Ids(d) /\ d.rows[i].of = b
    BY DEF D!Of
  <1>3. ASSUME NEW i \in D!Ids(d) \ X PROVE d.rows[i].of \notin X
    <2>1. d.rows[i].of \in User \cup AdminBookmark \cup {Null}
      BY <1>1, KindsDiffer DEF Parented
    <2>2. d.rows[i].of = b => i \in Asset
      BY <1>1, KindsDiffer DEF Parented
    <2>3. d.rows[i].of # b
      BY <1>2, <2>2
    <2> QED BY <1>2, <2>1, <2>3, KindsDiffer
  <1>4. d.guest \in User \cup {Null} /\ \A e \in d.log : e.by \in User
    BY DEF TablesOK, LogEntry
  <1> QED BY <1>2, <1>3, <1>4, KindsDiffer

LEMMA DeleteKeeps ==
  ASSUME D!AdminAssumption, AdminInv, NEW r \in Request, D!Delete(r)
  PROVE  AdminInv'
  <1>1. PICK c : c = adminCall[r]
    OBVIOUS
  <1>2. c.op = "delete" /\ DeleteOK(c)
    BY <1>1 DEF AdminInv, CallOK, D!Delete, D!Idle
  <1>3. UNCHANGED <<files, left>> /\ adminCall[r].op # "remove"
    BY <1>1, <1>2 DEF D!Delete
  <1>4. CASE D!Fails(r)
    BY <1>3, <1>4, FailsKeep
  <1>5. ASSUME NEW d, d = D!Logged(db, c.by, {c.id}, "deleted"), c.by \in D!Ids(db),
               db' = D!RowDeleted(d, c.id), D!Ends(r, D!FilesOf(c.id))
        PROVE  AdminInv'
    <2>1. c.by \in User \cap D!Ids(db) /\ {c.id} \in SUBSET D!Row /\ {c.id} \cap db.unused = {}
      BY <1>2, <1>5 DEF DeleteOK
    <2>2. /\ TablesOK(d) /\ D!Sound(d) /\ D!Ids(d) = D!Ids(db) /\ d.rows = db.rows /\ d.unused = db.unused
          /\ d.log \subseteq LogEntry
          /\ \A e \in d.log : e.did = "deleted" => e.id \in {c.id} \/ e.id \notin D!Ids(db) \cup db.unused
          /\ \A e \in d.log : e.did = "deleted" => e.id \notin db.unused
      BY <1>5, <2>1, EnteredIs
    <2>3. c.id \in AdminBookmark \/ c.id \in Asset \/ c.id \in Tag \/ c.id \in AdminItem
      BY <1>2, KindsDiffer DEF DeleteOK
    <2>4. \A e \in d.log : e.did = "deleted" => e.id = c.id \/ e.id \notin D!Ids(db) \cup db.unused
      BY <2>2
    <2>5. CASE c.id \in AdminBookmark
      <3>1. PICK X : X = {c.id} \cup D!Of(d, Asset, c.id)
        OBVIOUS
      <3>2. PICK F : F = D!Of(d, Asset, c.id)
        OBVIOUS
      <3>3. db' = Cleared(d, X)
        <4>1. D!BookmarkDeleted(d, c.id) = Cleared(d, {c.id} \cup D!Of(d, Asset, c.id))
          BY <2>2, <2>5, BookmarkDeletedIs
        <4>2. D!RowDeleted(d, c.id) = D!BookmarkDeleted(d, c.id)
          BY <2>5, KindsDiffer, Zenon DEF D!RowDeleted
        <4> QED BY <1>5, <3>1, <4>1, <4>2, Zenon
      <3>4. /\ \A i \in D!Ids(d) \ X : d.rows[i].of \notin X
            /\ d.guest \notin X /\ \A e \in d.log : e.by \notin X
            /\ Asset \cap X = F
        BY <2>2, <2>5, <3>1, <3>2, BookmarkIsWhole, SMTT(30)
      <3>5. D!Ends(r, F) /\ F \subseteq D!Ids(db)
        <4>1. D!FilesOf(c.id) = F
          BY <2>2, <2>5, <3>2 DEF D!FilesOf, D!Of, D!Ids
        <4> QED BY <1>5, <2>2, <3>2, <4>1 DEF D!Of
      <3>6. F \cap ((D!Ids(db) \ X) \cup db.unused) = {}
        BY <3>4, <3>5 DEF AdminInv
      <3>7. \A e \in d.log : e.did = "deleted" => e.id \notin (D!Ids(db) \ X) \cup db.unused
        BY <2>2, <2>4, <3>1
      <3>8. F \in SUBSET Asset /\ Asset \cap D!Ids(db) \cap X \subseteq F
        BY <3>4
      <3> QED BY <1>3, <2>2, <3>3, <3>4, <3>5, <3>6, <3>7, <3>8, ClearedKeeps
    <2>6. CASE c.id \notin AdminBookmark
      <3>1. PICK X : X = {c.id}
        OBVIOUS
      <3>2. PICK F : F = {c.id} \cap Asset
        OBVIOUS
      <3>3. X \in SUBSET (Tag \cup Asset \cup AdminItem)
        BY <2>3, <2>6, <3>1
      <3>4. /\ \A i \in D!Ids(d) \ X : d.rows[i].of \notin X
            /\ d.guest \notin X /\ \A e \in d.log : e.by \notin X
        BY <2>2, <3>3, NobodyIsOf
      <3>5. db' = Cleared(d, X)
        <4>1. CASE c.id \in Asset
          <5>1. X \in SUBSET Asset
            BY <3>1, <4>1
          <5>2. D!AssetsDeleted(d, X) = Cleared(d, X)
            BY <2>2, <5>1, AssetsDeletedIs
          <5>3. c.id \notin Tag
            BY <4>1, KindsDiffer
          <5> QED BY <1>5, <2>6, <3>1, <4>1, <5>2, <5>3 DEF D!RowDeleted
        <4>2. CASE c.id \in Tag
          <5>1. c.id \notin Asset
            BY <4>2, KindsDiffer
          <5> QED BY <1>5, <2>2, <2>6, <3>1, <4>2, <5>1, TagsDeletedIs DEF D!RowDeleted
        <4>3. CASE c.id \in AdminItem
          <5>1. c.id \notin Asset /\ c.id \notin Tag
            BY <4>3, KindsDiffer
          <5>2. X \in SUBSET (D!Row \ Asset) /\ \A l \in d.links : l[1] \notin X /\ l[2] \notin X
            <6>1. d.links \subseteq AdminBookmark \X Tag
              BY <2>2 DEF TablesOK
            <6> QED BY <2>6, <3>1, <4>3, <5>1, <6>1, KindsDiffer
          <5>3. D!Deleted(d, X) = Cleared(d, X)
            BY <2>2, <5>2, DeletedIs
          <5> QED BY <1>5, <2>6, <3>1, <5>1, <5>3 DEF D!RowDeleted
        <4> QED BY <2>3, <2>6, <4>1, <4>2, <4>3
      <3>6. D!Ends(r, F)
        BY <1>5, <2>6, <3>2 DEF D!FilesOf
      <3>7. F \cap ((D!Ids(db) \ X) \cup db.unused) = {}
        BY <2>1, <3>1, <3>2
      <3>8. \A e \in d.log : e.did = "deleted" => e.id \notin (D!Ids(db) \ X) \cup db.unused
        BY <2>2, <2>4, <3>1
      <3>9. F \in SUBSET Asset /\ Asset \cap D!Ids(db) \cap X \subseteq F
        BY <3>1, <3>2
      <3> QED BY <1>3, <2>2, <3>4, <3>5, <3>6, <3>7, <3>8, <3>9, ClearedKeeps
    <2> QED BY <2>5, <2>6
  <1> QED BY <1>1, <1>4, <1>5 DEF D!Delete

\* A transaction that writes a row and enters it in the log, if it is not rolled back.
LEMMA CommitKeeps ==
  ASSUME AdminInv, NEW r \in Request, adminCall[r].op # "remove", UNCHANGED <<files, left>>,
         NEW d, TablesOK(d), d.log = db.log, D!Ids(d) \cap d.unused = {}, d.unused \subseteq db.unused,
         D!Ids(d) \cup d.unused \subseteq D!Ids(db) \cup db.unused, D!Ids(db) \subseteq D!Ids(d),
         NEW a \in User, NEW i \in D!Row, NEW did \in {"added", "changed"},
         D!Commit(r, D!Logged(d, a, {i}, did))
  PROVE  AdminInv'
  <1>1. PICK e : e = D!Logged(d, a, {i}, did)
    OBVIOUS
  <1>2. CASE D!Fails(r)
    BY <1>2, FailsKeep
  <1>3. CASE D!Sound(e) /\ db' = e /\ D!Ends(r, {})
    <2>1. /\ TablesOK(D!Logged(d, a, {i}, did)) /\ D!Ids(D!Logged(d, a, {i}, did)) = D!Ids(d)
          /\ D!Logged(d, a, {i}, did).unused = d.unused
          /\ D!Logged(d, a, {i}, did).log = d.log \cup {[by |-> a, id |-> j, did |-> did] : j \in {i}}
      BY LoggedIs
    <2>2. /\ TablesOK(e) /\ D!Ids(e) = D!Ids(d) /\ e.unused = d.unused
          /\ e.log = db.log \cup {[by |-> a, id |-> j, did |-> did] : j \in {i}}
      BY <1>1, <2>1
    <2>3. \A f \in {[by |-> a, id |-> j, did |-> did] : j \in {i}} : f \in LogEntry /\ f.did # "deleted"
      BY DEF LogEntry
    <2>4. e.log \subseteq LogEntry /\ \A f \in e.log : f.did = "deleted" => f.id \notin D!Ids(e) \cup e.unused
      BY <2>2, <2>3 DEF AdminInv, LogOK
    <2>5. LogOK'
      BY <1>3, <2>4 DEF LogOK
    <2>6. adminCall' = [adminCall EXCEPT ![r] = D!Idle]
      BY <1>3 DEF D!Ends
    <2>7. CallOK(D!Idle)'
      BY DEF CallOK
    <2>8. adminCall' = [k \in Request |-> adminCall'[k]] /\ \A k \in Request : CallOK(adminCall[k])'
      BY <1>3, <2>2, <2>6, <2>7, CallsStay
    <2>9. FilesOK'
      <3>1. PICK c : c = D!Idle
        OBVIOUS
      <3>2. db.unused \subseteq Fresh
        BY DEF AdminInv, TablesOK
      <3>3. /\ adminCall' = [adminCall EXCEPT ![r] = c] /\ D!Ids(db') \ Fresh \subseteq D!Ids(db)
            /\ Asset \cap (D!Ids(db) \ D!Ids(db')) \subseteq IF c.op = "remove" THEN c.files ELSE {}
        BY <1>3, <2>2, <2>6, <3>1, <3>2
      <3> QED BY <3>3, FilesStay
    <2>10. TablesOK(db') /\ D!Sound(db') /\ D!Ids(db') \cap db'.unused = {} /\ left' \in 0..MaxRequests
      BY <1>3, <2>2 DEF AdminInv
    <2> QED BY <2>5, <2>8, <2>9, <2>10 DEF AdminInv
  <1> QED BY <1>1, <1>2, <1>3 DEF D!Commit

Written(d, i, fields) == [k \in D!Ids(d) \cup {i} |-> IF k = i THEN fields ELSE d.rows[k]]
\* e is d with this row, these relations and these unused identifiers.
Writes(e, d, i, fields, links, unused) ==
  /\ e = Db(Written(d, i, fields), links, d.guest, d.log, unused)
  /\ i \in D!Row /\ fields \in D!Fields /\ Parented(i, fields.of)
  /\ links \subseteq AdminBookmark \X Tag /\ unused \subseteq Fresh

LEMMA RowIsWritten ==
  ASSUME NEW d, TablesOK(d), NEW e, NEW i, NEW fields, NEW links, NEW unused, Writes(e, d, i, fields, links, unused)
  PROVE  TablesOK(e) /\ D!Ids(e) = D!Ids(d) \cup {i} /\ e.log = d.log /\ e.unused = unused
  <1>1. /\ e.rows = Written(d, i, fields) /\ e.links = links /\ e.guest = d.guest /\ e.log = d.log
        /\ e.unused = unused /\ e = Db(e.rows, e.links, e.guest, e.log, e.unused)
    BY DEF Writes, Db
  <1>2. D!Ids(e) = D!Ids(d) \cup {i}
    BY <1>1 DEF D!Ids, Written
  <1>3. e.rows \in [D!Ids(e) -> D!Fields] /\ \A k \in D!Ids(e) : Parented(k, e.rows[k].of)
    BY <1>1, <1>2 DEF TablesOK, Writes, Written
  <1>4. TablesOK(e)
    BY <1>1, <1>2, <1>3 DEF TablesOK, Writes
  <1> QED BY <1>1, <1>2, <1>4

LEMMA SaveFormKeeps ==
  ASSUME D!AdminAssumption, AdminInv, NEW r \in Request, D!Save(r)
  PROVE  AdminInv'
  <1>1. PICK c : c = adminCall[r]
    OBVIOUS
  <1>2. c.op = "save" /\ SaveOK(c)
    <2>1. c.op = "save" /\ CallOK(c)
      BY <1>1 DEF AdminInv, D!Save
    <2> QED BY <2>1 DEF CallOK, D!Idle
  <1>3. UNCHANGED <<files, left>> /\ adminCall[r].op # "remove"
    BY <1>1, <1>2 DEF D!Save
  <1>4. PICK d : d = db
    OBVIOUS
  <1>5. TablesOK(d) /\ D!Ids(d) \cap d.unused = {} /\ d = Db(d.rows, d.links, d.guest, d.log, d.unused)
    BY <1>4 DEF AdminInv, TablesOK
  <1>6. /\ c.by \in User /\ c.kind \subseteq D!Row /\ c.id \in c.kind \cup {Null} /\ c.row \in D!Fields
        /\ c.tags \subseteq Tag
        /\ \A i \in c.kind : Parented(i, c.row.of) /\ (i \notin AdminBookmark => c.tags = {})
    BY <1>2, KindsDiffer DEF SaveOK, D!Kinds
  <1>7. ASSUME c.id = Null, NEW i \in d.unused \cap c.kind,
               NEW rows, rows = [k \in D!Ids(d) \cup {i} |-> IF k = i THEN c.row ELSE d.rows[k]],
               NEW more, more = {i} \X c.tags,
               NEW e, e = [d EXCEPT !.rows = rows, !.unused = @ \ {i}, !.links = @ \cup more],
               D!Commit(r, D!Logged(e, c.by, {i}, "added"))
        PROVE  AdminInv'
    <2>1. e = Db(rows, d.links \cup more, d.guest, d.log, d.unused \ {i})
      BY <1>5, <1>7 DEF Db
    <2>2. more \in SUBSET (AdminBookmark \X Tag)
      BY <1>6, <1>7
    <2>3. d.links \cup more \subseteq AdminBookmark \X Tag /\ d.unused \ {i} \subseteq Fresh /\ i \in D!Row
      BY <1>5, <1>6, <1>7, <2>2 DEF TablesOK
    <2>4. rows = Written(d, i, c.row)
      BY <1>7 DEF Written
    <2>5. Writes(e, d, i, c.row, d.links \cup more, d.unused \ {i})
      BY <1>6, <1>7, <2>1, <2>3, <2>4 DEF Writes
    <2>6. TablesOK(e) /\ D!Ids(e) = D!Ids(d) \cup {i} /\ e.log = d.log /\ e.unused = d.unused \ {i}
      BY <1>5, <2>5, RowIsWritten
    <2>7. /\ D!Ids(e) \cap e.unused = {} /\ e.unused \subseteq db.unused /\ D!Ids(db) \subseteq D!Ids(e)
          /\ D!Ids(e) \cup e.unused \subseteq D!Ids(db) \cup db.unused /\ e.log = db.log
      BY <1>4, <1>5, <1>7, <2>6
    <2> QED BY <1>3, <1>6, <1>7, <2>3, <2>6, <2>7, CommitKeeps
  <1>8. ASSUME c.id # Null, NEW w, w = IF c.id \in D!Ids(d) THEN [d EXCEPT !.rows[c.id] = c.row] ELSE d,
               NEW more, more = {c.id} \X c.tags,
               NEW e, e = IF c.kind # AdminBookmark THEN w
                          ELSE [D!Unlinked(w, {c.id}, {}) EXCEPT !.links = @ \cup more],
               D!Commit(r, D!Logged(e, c.by, {c.id}, "changed"))
        PROVE  AdminInv'
    <2>1. c.id \in c.kind /\ c.id \in D!Row /\ Parented(c.id, c.row.of)
      BY <1>6, <1>8
    <2>2. TablesOK(w) /\ D!Ids(w) = D!Ids(d) /\ w.log = d.log /\ w.unused = d.unused
      <3>1. CASE c.id \notin D!Ids(d)
        BY <1>5, <1>8, <3>1
      <3>2. CASE c.id \in D!Ids(d)
        <4>1. [d.rows EXCEPT ![c.id] = c.row] = Written(d, c.id, c.row)
          BY <1>5, <3>2 DEF TablesOK, Written
        <4>2. w = Db(Written(d, c.id, c.row), d.links, d.guest, d.log, d.unused)
          BY <1>5, <1>8, <3>2, <4>1 DEF Db
        <4>3. Writes(w, d, c.id, c.row, d.links, d.unused)
          BY <1>5, <1>6, <2>1, <4>2 DEF Writes, TablesOK
        <4>4. TablesOK(w) /\ D!Ids(w) = D!Ids(d) \cup {c.id} /\ w.log = d.log /\ w.unused = d.unused
          BY <1>5, <4>3, RowIsWritten
        <4> QED BY <3>2, <4>4
      <3> QED BY <3>1, <3>2
    <2>3. TablesOK(e) /\ D!Ids(e) = D!Ids(d) /\ e.log = d.log /\ e.unused = d.unused
      <3>1. CASE c.kind # AdminBookmark
        BY <1>8, <2>2, <3>1
      <3>2. CASE c.kind = AdminBookmark
        <4>1. PICK l : l = D!Unlinked(w, {c.id}, {})
          OBVIOUS
        <4>2. TablesOK(l) /\ l.rows = w.rows /\ l.log = w.log /\ l.unused = w.unused
          BY <2>2, <4>1, UnlinkedIs, StatementsKeepTables
        <4>3. l = Db(l.rows, l.links, l.guest, l.log, l.unused)
          BY <4>2 DEF TablesOK
        <4>4. e = Db(l.rows, l.links \cup more, l.guest, l.log, l.unused)
          BY <1>8, <3>2, <4>1, <4>3 DEF Db
        <4>5. more \subseteq AdminBookmark \X Tag
          BY <1>6, <1>8, <2>1, <3>2
        <4>6. /\ e.rows = l.rows /\ e.links = l.links \cup more /\ e.guest = l.guest /\ e.log = l.log
              /\ e.unused = l.unused /\ e = Db(e.rows, e.links, e.guest, e.log, e.unused)
          BY <4>4 DEF Db
        <4>7. D!Ids(e) = D!Ids(l) /\ D!Ids(l) = D!Ids(w)
          BY <4>2, <4>6 DEF D!Ids
        <4>8. TablesOK(e)
          BY <4>2, <4>5, <4>6, <4>7 DEF TablesOK
        <4>9. D!Ids(e) = D!Ids(d)
          BY <2>2, <4>7
        <4>10. e.log = d.log /\ e.unused = d.unused
          BY <2>2, <4>2, <4>6
        <4> QED BY <4>8, <4>9, <4>10
      <3> QED BY <3>1, <3>2
    <2>4. /\ D!Ids(e) \cap e.unused = {} /\ e.unused \subseteq db.unused /\ D!Ids(db) \subseteq D!Ids(e)
          /\ D!Ids(e) \cup e.unused \subseteq D!Ids(db) \cup db.unused /\ e.log = db.log
      BY <1>4, <1>5, <2>3
    <2>5. c.by \in User
      BY <1>6
    <2> QED BY <1>3, <1>8, <2>1, <2>3, <2>4, <2>5, CommitKeeps
  <1>9. CASE c.id = Null
    <2>1. PICK i \in d.unused \cap c.kind :
            D!Commit(r, D!Logged([d EXCEPT !.rows = [k \in D!Ids(d) \cup {i} |-> IF k = i THEN c.row ELSE d.rows[k]],
                                       !.unused = @ \ {i}, !.links = @ \cup ({i} \X c.tags)], c.by, {i}, "added"))
      BY <1>1, <1>4, <1>9, Zenon DEF D!Save
    <2>2. PICK rows : rows = [k \in D!Ids(d) \cup {i} |-> IF k = i THEN c.row ELSE d.rows[k]]
      OBVIOUS
    <2>3. PICK more : more = {i} \X c.tags
      OBVIOUS
    <2>4. PICK e : e = [d EXCEPT !.rows = rows, !.unused = @ \ {i}, !.links = @ \cup more]
      OBVIOUS
    <2>5. D!Commit(r, D!Logged(e, c.by, {i}, "added"))
      BY <2>1, <2>2, <2>3, <2>4, Zenon
    <2> QED BY <1>7, <1>9, <2>2, <2>3, <2>4, <2>5
  <1>10. CASE c.id # Null
    <2>1. PICK w : w = IF c.id \in D!Ids(d) THEN [d EXCEPT !.rows[c.id] = c.row] ELSE d
      OBVIOUS
    <2>2. PICK more : more = {c.id} \X c.tags
      OBVIOUS
    <2>3. PICK e : e = IF c.kind # AdminBookmark THEN w
                       ELSE [D!Unlinked(w, {c.id}, {}) EXCEPT !.links = @ \cup more]
      OBVIOUS
    <2>4. D!Commit(r, D!Logged(e, c.by, {c.id}, "changed"))
      BY <1>1, <1>4, <1>10, <2>1, <2>2, <2>3, Zenon DEF D!Save
    <2> QED BY <1>8, <1>10, <2>1, <2>2, <2>3, <2>4
  <1> QED BY <1>9, <1>10

LEMMA DeleteSelectedKeeps ==
  ASSUME D!AdminAssumption, AdminInv, NEW r \in Request, D!DeleteSelected(r)
  PROVE  AdminInv'
  <1>1. PICK c : c = adminCall[r]
    OBVIOUS
  <1>2. c.op = "selected" /\ SelectedOK(c)
    <2>1. c.op = "selected" /\ CallOK(c)
      BY <1>1 DEF AdminInv, D!DeleteSelected
    <2> QED BY <2>1 DEF CallOK, D!Idle
  <1>3. UNCHANGED <<files, left>> /\ adminCall[r].op # "remove"
    BY <1>1, <1>2 DEF D!DeleteSelected
  <1>4. CASE D!Fails(r)
    BY <1>3, <1>4, FailsKeep
  <1>5. ASSUME c.by \in D!Ids(db), NEW d, d = D!Logged(db, c.by, c.ids, "deleted"), NEW X, X = c.ids,
               NEW F \in SUBSET Asset, D!Ends(r, F),
               \/ X \subseteq Asset /\ db' = D!AssetsDeleted(d, X) /\ F = X
               \/ X \subseteq Tag /\ db' = D!TagsDeleted(d, X) /\ F = {}
               \/ X \subseteq AdminItem /\ db' = D!Deleted(d, X) /\ F = {}
        PROVE  AdminInv'
    <2>1. c.by \in User \cap D!Ids(db) /\ X \in SUBSET D!Row /\ X \cap db.unused = {}
      BY <1>2, <1>5, KindsDiffer DEF SelectedOK
    <2>2. /\ TablesOK(d) /\ D!Sound(d) /\ D!Ids(d) = D!Ids(db) /\ d.rows = db.rows /\ d.unused = db.unused
          /\ d.log \subseteq LogEntry
          /\ \A e \in d.log : e.did = "deleted" => e.id \in X \/ e.id \notin D!Ids(db) \cup db.unused
          /\ \A e \in d.log : e.did = "deleted" => e.id \notin db.unused
      BY <1>5, <2>1, EnteredIs
    <2>3. X \in SUBSET (Tag \cup Asset \cup AdminItem)
      BY <1>5
    <2>4. /\ \A i \in D!Ids(d) \ X : d.rows[i].of \notin X
          /\ d.guest \notin X /\ \A e \in d.log : e.by \notin X
      BY <2>2, <2>3, NobodyIsOf
    <2>5. db' = Cleared(d, X)
      <3>1. CASE X \subseteq Asset /\ db' = D!AssetsDeleted(d, X)
        <4>1. D!AssetsDeleted(d, X) = Cleared(d, X)
          BY <2>2, <3>1, AssetsDeletedIs
        <4> QED BY <3>1, <4>1
      <3>2. CASE X \subseteq Tag /\ db' = D!TagsDeleted(d, X)
        <4>1. D!TagsDeleted(d, X) = Cleared(d, X)
          BY <2>2, <3>2, TagsDeletedIs
        <4> QED BY <3>2, <4>1
      <3>3. CASE X \subseteq AdminItem /\ db' = D!Deleted(d, X)
        <4>1. X \in SUBSET (D!Row \ Asset) /\ \A l \in d.links : l[1] \notin X /\ l[2] \notin X
          BY <2>1, <2>2, <3>3, KindsDiffer DEF TablesOK
        <4>2. D!Deleted(d, X) = Cleared(d, X)
          BY <2>2, <4>1, DeletedIs
        <4> QED BY <3>3, <4>2
      <3> QED BY <1>5, <3>1, <3>2, <3>3
    <2>6. F \cap ((D!Ids(db) \ X) \cup db.unused) = {} /\ Asset \cap D!Ids(db) \cap X \subseteq F
      BY <1>5, <2>1, KindsDiffer
    <2>7. \A e \in d.log : e.did = "deleted" => e.id \notin (D!Ids(db) \ X) \cup db.unused
      BY <2>2
    <2> QED BY <1>3, <1>5, <2>2, <2>4, <2>5, <2>6, <2>7, ClearedKeeps
  <1>6. CASE c.by \in D!Ids(db)
    <2>1. PICK d : d = D!Logged(db, c.by, c.ids, "deleted")
      OBVIOUS
    <2>2. CASE c.ids \subseteq Asset
      <3>1. ~(c.ids \subseteq Tag)
        BY <1>2, <2>2, KindsDiffer DEF SelectedOK
      <3>2. db' = D!AssetsDeleted(d, c.ids) /\ D!Ends(r, c.ids)
        BY <1>1, <1>6, <2>1, <2>2, <3>1 DEF D!DeleteSelected
      <3> QED BY <1>5, <1>6, <2>1, <2>2, <3>2
    <2>3. CASE c.ids \subseteq Tag
      <3>1. ~(c.ids \subseteq Asset)
        BY <1>2, <2>3, KindsDiffer DEF SelectedOK
      <3>2. db' = D!TagsDeleted(d, c.ids) /\ D!Ends(r, {})
        BY <1>1, <1>6, <2>1, <2>3, <3>1 DEF D!DeleteSelected
      <3> QED BY <1>5, <1>6, <2>1, <2>3, <3>2
    <2>4. CASE c.ids \subseteq AdminItem
      <3>1. ~(c.ids \subseteq Asset) /\ ~(c.ids \subseteq Tag)
        BY <1>2, <2>4, KindsDiffer DEF SelectedOK
      <3>2. db' = D!Deleted(d, c.ids) /\ D!Ends(r, {})
        BY <1>1, <1>6, <2>1, <3>1 DEF D!DeleteSelected
      <3> QED BY <1>5, <1>6, <2>1, <2>4, <3>2
    <2> QED BY <1>2, <2>2, <2>3, <2>4 DEF SelectedOK
  <1> QED BY <1>1, <1>4, <1>6 DEF D!DeleteSelected

\* With users goes all that belongs to them: what stays refers to what stays.
LEMMA AfterSound ==
  ASSUME D!AdminAssumption, NEW d, TablesOK(d), D!Sound(d), d.log \subseteq LogEntry, NEW s \in SUBSET User
  PROVE  D!Sound(After(d, s))
  <1> DEFINE e == After(d, s)
             X == Gone(d, s)
  <1>1. /\ D!Ids(e) = D!Ids(d) \ X
        /\ \A i \in D!Ids(e) : /\ e.rows[i].of = d.rows[i].of
                             /\ e.rows[i].latest = IF d.rows[i].latest \in X THEN Null ELSE d.rows[i].latest
        /\ e.links = {l \in d.links : l[1] \notin X /\ l[2] \notin X}
        /\ e.guest = IF d.guest \in s THEN Null ELSE d.guest
        /\ e.log = {f \in d.log : f.by \notin s}
    BY AfterIs
  <1>2. \A i : i \in X <=>
          \/ i \in s
          \/ i \in D!Ids(d) /\ d.rows[i].of \in s
          \/ i \in D!Ids(d) /\ i \in Asset /\ d.rows[i].of \in D!Ids(d) /\ d.rows[d.rows[i].of].of \in s
    BY DEF Gone
  <1>3. \A i \in D!Ids(d) : i \in D!Row /\ Parented(i, d.rows[i].of)
    BY DEF TablesOK
  <1> HIDE DEF e, X
  <1>4. \A u \in User \cap D!Ids(d) : u \in X => u \in s
    BY <1>2, <1>3, KindsDiffer DEF Parented
  <1>5. ASSUME NEW i \in D!Ids(e) PROVE e.rows[i].of \in D!Ids(e) \cup {Null}
    <2> DEFINE p == d.rows[i].of
    <2>1. i \in D!Ids(d) /\ i \notin X /\ e.rows[i].of = p /\ p \in D!Ids(d) \cup {Null} /\ p \notin s
      BY <1>1, <1>2 DEF D!Sound
    <2>2. CASE i \in Asset
      <3>1. p \in AdminBookmark /\ p \notin Asset /\ p \notin User
        BY <1>3, <2>1, <2>2, KindsDiffer DEF Parented
      <3>2. p \in D!Ids(d) => d.rows[p].of \notin s
        BY <1>2, <2>1, <2>2
      <3> HIDE DEF p
      <3> QED BY <1>1, <1>2, <2>1, <3>1, <3>2
    <2>3. CASE i \notin Asset
      <3>1. p \in User \cup {Null}
        BY <1>3, <2>1, <2>3, KindsDiffer DEF Parented
      <3> HIDE DEF p
      <3> QED BY <1>1, <1>4, <2>1, <3>1
    <2> QED BY <2>2, <2>3
  <1>6. \A i \in D!Ids(e) : e.rows[i].latest \in D!Ids(e) \cup {Null}
    BY <1>1 DEF D!Sound
  <1>7. e.links \subseteq D!Ids(e) \X D!Ids(e)
    <2>1. d.links \subseteq D!Ids(d) \X D!Ids(d)
      BY DEF D!Sound
    <2> QED BY <1>1, <2>1
  <1>8. e.guest \in D!Ids(e) \cup {Null}
    <2>1. d.guest \in (User \cap D!Ids(d)) \cup {Null}
      BY DEF D!Sound, TablesOK
    <2> QED BY <1>1, <1>4, <2>1
  <1>9. \A f \in e.log : f.by \in D!Ids(e)
    <2>1. \A f \in d.log : f.by \in User \cap D!Ids(d)
      BY DEF D!Sound, LogEntry
    <2> QED BY <1>1, <1>4, <2>1
  <1>10. D!Sound(e)
    BY <1>5, <1>6, <1>7, <1>8, <1>9 DEF D!Sound
  <1> QED BY <1>10 DEF e

\* The files that go with users are those of the assets that go with them.
LEMMA UsersAssetsAreGone ==
  ASSUME D!AdminAssumption, TablesOK(db), NEW d, d.rows = db.rows, NEW S \in SUBSET User,
         NEW F, F = UNION {D!UserAssets(db, u) : u \in S}
  PROVE  F = Asset \cap D!Ids(db) \cap Gone(d, S)
  <1>1. \A i : i \in F <=> \E u \in S : i \in D!UserAssets(db, u)
    OBVIOUS
  <1>2. \A u : \A i : i \in D!UserAssets(db, u) <=>
          /\ i \in Asset /\ i \in D!Ids(db)
          /\ \E b : b \in AdminBookmark /\ b \in D!Ids(db) /\ db.rows[b].of = u /\ db.rows[i].of = b
    BY DEF D!UserAssets, D!Of
  <1>3. D!Ids(d) = D!Ids(db)
    BY DEF D!Ids
  <1>4. \A i : i \in Gone(d, S) <=>
          \/ i \in S
          \/ i \in D!Ids(db) /\ db.rows[i].of \in S
          \/ i \in D!Ids(db) /\ i \in Asset /\ db.rows[i].of \in D!Ids(db) /\ db.rows[db.rows[i].of].of \in S
    BY <1>3 DEF Gone
  <1>5. \A i \in D!Ids(db) : i \in D!Row /\ Parented(i, db.rows[i].of)
    BY DEF TablesOK
  <1>6. ASSUME NEW i \in F PROVE i \in Asset /\ i \in D!Ids(db) /\ i \in Gone(d, S)
    BY <1>1, <1>2, <1>4
  <1>7. ASSUME NEW i \in Asset, i \in D!Ids(db), i \in Gone(d, S) PROVE i \in F
    <2>1. db.rows[i].of \in AdminBookmark /\ i \notin User /\ db.rows[i].of \notin User
      BY <1>5, <1>7, KindsDiffer DEF Parented
    <2>2. db.rows[i].of \in D!Ids(db) /\ db.rows[db.rows[i].of].of \in S
      BY <1>4, <1>7, <2>1
    <2> QED BY <1>1, <1>2, <1>7, <2>1, <2>2
  <1> QED BY <1>6, <1>7

LEMMA DeleteUsersKeeps ==
  ASSUME D!AdminAssumption, AdminInv, NEW r \in Request, D!DeleteUsers(r)
  PROVE  AdminInv'
  <1>1. PICK c : c = adminCall[r]
    OBVIOUS
  <1>2. c.op = "users" /\ UsersOK(c)
    <2>1. c.op = "users" /\ CallOK(c)
      BY <1>1 DEF AdminInv, D!DeleteUsers
    <2> QED BY <2>1 DEF CallOK, D!Idle
  <1>3. UNCHANGED <<files, left>> /\ adminCall[r].op # "remove"
    BY <1>1, <1>2 DEF D!DeleteUsers
  <1>4. CASE D!Fails(r)
    BY <1>3, <1>4, FailsKeep
  <1>5. CASE /\ c.by \in D!Ids(db) /\ c.ids \subseteq D!Ids(db)
             /\ db' = D!UsersDeleted(db, c.by, c.ids)
             /\ D!Ends(r, UNION {D!UserAssets(db, u) : u \in c.ids})
    <2>1. PICK d : d = D!Logged(db, c.by, c.ids, "deleted")
      OBVIOUS
    <2>2. PICK S : S = c.ids
      OBVIOUS
    <2>3. PICK F : F = UNION {D!UserAssets(db, u) : u \in S}
      OBVIOUS
    <2>4. PICK X : X = Gone(d, S)
      OBVIOUS
    <2>5. /\ c.by \in User \cap D!Ids(db) /\ S \in SUBSET User /\ S \in SUBSET D!Row /\ S \cap db.unused = {}
      BY <1>2, <1>5, <2>2, KindsDiffer DEF UsersOK
    <2>6. /\ TablesOK(d) /\ D!Sound(d) /\ D!Ids(d) = D!Ids(db) /\ d.rows = db.rows /\ d.unused = db.unused
          /\ d.log \subseteq LogEntry
          /\ \A e \in d.log : e.did = "deleted" => e.id \in S \/ e.id \notin D!Ids(db) \cup db.unused
          /\ \A e \in d.log : e.did = "deleted" => e.id \notin db.unused
      BY <2>1, <2>2, <2>5, EnteredIs
    <2>7. db' = After(d, S)
      <3>1. PICK b : b = db
        OBVIOUS
      <3>2. TablesOK(D!Logged(b, c.by, S, "deleted"))
        BY <2>1, <2>2, <2>6, <3>1
      <3>3. D!UsersDeleted(b, c.by, S) = After(D!Logged(b, c.by, S, "deleted"), S)
        BY <2>5, <3>2, UsersDeletedIs
      <3> QED BY <1>5, <2>1, <2>2, <3>1, <3>3
    <2>8. /\ TablesOK(After(d, S)) /\ D!Ids(After(d, S)) = D!Ids(d) \ Gone(d, S)
          /\ After(d, S).log = {f \in d.log : f.by \notin S} /\ After(d, S).unused = d.unused
      BY <2>5, <2>6, AfterIs
    <2>9. D!Sound(After(d, S))
      BY <2>5, <2>6, AfterSound
    <2>10. /\ TablesOK(db') /\ D!Sound(db') /\ D!Ids(db') = D!Ids(db) \ X /\ db'.unused = db.unused
           /\ db'.log \subseteq d.log
      BY <2>4, <2>6, <2>7, <2>8, <2>9
    <2>11. S \subseteq X
      BY <2>4 DEF Gone
    <2>12. LogOK'
      BY <2>6, <2>10, <2>11 DEF LogOK
    <2>13. F = Asset \cap D!Ids(db) \cap X
      <3>1. TablesOK(db)
        BY DEF AdminInv
      <3> QED BY <2>3, <2>4, <2>5, <2>6, <3>1, UsersAssetsAreGone
    <2>14. F \in SUBSET Asset /\ F \cap (D!Ids(db') \cup db.unused) = {} /\ Asset \cap D!Ids(db) \cap X \subseteq F
      BY <2>10, <2>13 DEF AdminInv
    <2>15. D!Ends(r, F)
      BY <1>5, <2>2, <2>3
    <2> QED BY <1>3, <2>10, <2>12, <2>14, <2>15, RemovalKeeps
  <1> QED BY <1>1, <1>4, <1>5 DEF D!DeleteUsers

\* A bookmark that a page marks stays what it is.
LEMMA MarkedIs ==
  ASSUME TablesOK(db), D!Sound(db), NEW i \in D!Ids(db), NEW m \in BOOLEAN,
         db' = [db EXCEPT !.rows[i].mark = m]
  PROVE  /\ TablesOK(db') /\ D!Sound(db') /\ D!Ids(db') = D!Ids(db) /\ db'.log = db.log
         /\ db'.unused = db.unused
  <1>1. PICK d : d = db
    OBVIOUS
  <1>2. PICK fields : fields = [d.rows[i] EXCEPT !.mark = m]
    OBVIOUS
  <1>3. PICK e : e = db'
    OBVIOUS
  <1>4. TablesOK(d) /\ d = Db(d.rows, d.links, d.guest, d.log, d.unused) /\ d.rows[i] \in D!Fields /\ i \in D!Ids(d)
    BY <1>1 DEF TablesOK
  <1>5. fields \in D!Fields /\ fields.of = d.rows[i].of /\ fields.latest = d.rows[i].latest
    BY <1>2, <1>4 DEF D!Fields
  <1>6. [d.rows EXCEPT ![i].mark = m] = Written(d, i, fields)
    BY <1>2, <1>4 DEF TablesOK, Written
  <1>7. e = Db(Written(d, i, fields), d.links, d.guest, d.log, d.unused)
    BY <1>1, <1>3, <1>4, <1>6 DEF Db
  <1>8. Writes(e, d, i, fields, d.links, d.unused)
    BY <1>4, <1>5, <1>7 DEF Writes, TablesOK
  <1>9. TablesOK(e) /\ D!Ids(e) = D!Ids(d) /\ e.log = d.log /\ e.unused = d.unused
    BY <1>4, <1>8, RowIsWritten
  <1>10. e.rows = Written(d, i, fields) /\ e.links = d.links /\ e.guest = d.guest
    BY <1>7 DEF Db
  <1>11. \A k \in D!Ids(d) : e.rows[k].of = d.rows[k].of /\ e.rows[k].latest = d.rows[k].latest
    BY <1>5, <1>10 DEF Written
  <1>12. D!Sound(e)
    BY <1>1, <1>9, <1>10, <1>11 DEF D!Sound
  <1> QED BY <1>1, <1>3, <1>9, <1>12

LEMMA NextBookmarkKeeps ==
  ASSUME D!AdminAssumption, AdminInv, NEW r \in Request, D!NextBookmark(r)
  PROVE  AdminInv'
  <1>1. PICK c : c = adminCall[r]
    OBVIOUS
  <1>2. c.op = "bookmarks" /\ BookmarksOK(c)
    <2>1. c.op = "bookmarks" /\ CallOK(c)
      BY <1>1 DEF AdminInv, D!NextBookmark
    <2> QED BY <2>1 DEF CallOK, D!Idle
  <1>3. PICK t \in c.todo :
          /\ \/ adminCall' = [adminCall EXCEPT ![r] = D!Idle]
             \/ adminCall' = [adminCall EXCEPT ![r] = [c EXCEPT !.todo = @ \ {t}]]
          /\ \/ /\ t.id \in D!Ids(db)
                /\ db' = D!BookmarkDeleted(db, t.id) /\ files' = files \ D!Of(db, Asset, t.id)
             \/ /\ t.id \in D!Ids(db)
                /\ db' = [db EXCEPT !.rows[t.id].mark = (c.what = "mark")] /\ files' = files
             \/ db' = db /\ files' = files
    BY <1>1 DEF D!NextBookmark
  <1>4. t.id \in AdminBookmark /\ left' = left
    BY <1>2, <1>3 DEF BookmarksOK, D!NextBookmark
  <1>5. PICK n : /\ adminCall' = [adminCall EXCEPT ![r] = n]
                 /\ n = D!Idle \/ n = [c EXCEPT !.todo = @ \ {t}]
    BY <1>3
  <1>6. CallOK(n)' /\ n.op # "remove"
    <2>1. CASE n = D!Idle
      BY <2>1 DEF CallOK, D!Idle
    <2>2. CASE n = [c EXCEPT !.todo = @ \ {t}]
      <3>1. c = [op |-> "bookmarks", what |-> c.what, todo |-> c.todo]
        BY <1>2 DEF BookmarksOK
      <3>2. n = [op |-> "bookmarks", what |-> c.what, todo |-> c.todo \ {t}]
        BY <2>2, <3>1
      <3> QED BY <1>2, <3>2 DEF CallOK, BookmarksOK
    <2> QED BY <1>5, <2>1, <2>2
  <1>7. adminCall = [k \in Request |-> adminCall[k]]
    BY DEF AdminInv
  <1>8. ToRemove \subseteq ToRemove'
    <2>1. \A f : f \in ToRemove <=> \E k \in Request : adminCall[k].op = "remove" /\ f \in adminCall[k].files
      BY DEF ToRemove
    <2>2. \A f : f \in ToRemove' <=> \E k \in Request : adminCall'[k].op = "remove" /\ f \in adminCall'[k].files
      BY DEF ToRemove
    <2>3. adminCall[r].op # "remove" /\ \A k \in Request : k # r => adminCall'[k] = adminCall[k]
      BY <1>1, <1>2, <1>5, <1>7
    <2> QED BY <2>1, <2>2, <2>3
  <1>9. ASSUME TablesOK(db'), D!Sound(db'), NEW X, D!Ids(db') = D!Ids(db) \ X, db'.log = db.log, db'.unused = db.unused,
               files' = files \ (Asset \cap X)
        PROVE  AdminInv'
    <2>1. adminCall' = [k \in Request |-> adminCall'[k]] /\ \A k \in Request : CallOK(adminCall[k])'
      BY <1>5, <1>6, <1>9, CallsStay
    <2>2. FilesOK'
      BY <1>8, <1>9 DEF AdminInv, FilesOK
    <2>3. LogOK'
      BY <1>9 DEF AdminInv, LogOK
    <2> QED BY <1>4, <1>9, <2>1, <2>2, <2>3 DEF AdminInv
  <1>10. CASE db' = D!BookmarkDeleted(db, t.id) /\ files' = files \ D!Of(db, Asset, t.id)
    <2>1. PICK d : d = db
      OBVIOUS
    <2>2. PICK b : b = t.id
      OBVIOUS
    <2>3. PICK X : X = {b} \cup D!Of(d, Asset, b)
      OBVIOUS
    <2>4. TablesOK(d) /\ D!Sound(d) /\ d.log \subseteq LogEntry /\ b \in AdminBookmark
      BY <1>4, <2>1, <2>2 DEF AdminInv, LogOK
    <2>5. db' = Cleared(d, X)
      <3>1. D!BookmarkDeleted(d, b) = Cleared(d, {b} \cup D!Of(d, Asset, b))
        BY <2>4, BookmarkDeletedIs
      <3> QED BY <1>10, <2>1, <2>2, <2>3, <3>1
    <2>6. /\ \A i \in D!Ids(d) \ X : d.rows[i].of \notin X
          /\ d.guest \notin X /\ \A e \in d.log : e.by \notin X
          /\ Asset \cap X = D!Of(d, Asset, b)
      BY <2>3, <2>4, BookmarkIsWhole
    <2>7. /\ TablesOK(Cleared(d, X)) /\ D!Ids(Cleared(d, X)) = D!Ids(d) \ X
          /\ Cleared(d, X).log = d.log /\ Cleared(d, X).unused = d.unused
      BY <2>4, ClearedIs
    <2>8. D!Sound(Cleared(d, X))
      BY <2>4, <2>6, ClearedSound
    <2> QED BY <1>9, <1>10, <2>1, <2>2, <2>5, <2>6, <2>7, <2>8
  <1>11. CASE t.id \in D!Ids(db) /\ db' = [db EXCEPT !.rows[t.id].mark = (c.what = "mark")] /\ files' = files
    <2>1. PICK m \in BOOLEAN : m = (c.what = "mark")
      OBVIOUS
    <2>2. PICK i : i = t.id
      OBVIOUS
    <2>3. TablesOK(db) /\ D!Sound(db) /\ i \in D!Ids(db) /\ db' = [db EXCEPT !.rows[i].mark = m]
      BY <1>11, <2>1, <2>2, Zenon DEF AdminInv
    <2>4. /\ TablesOK(db') /\ D!Sound(db') /\ D!Ids(db') = D!Ids(db) /\ db'.log = db.log
          /\ db'.unused = db.unused
      BY <2>3, MarkedIs
    <2>5. D!Ids(db') = D!Ids(db) \ {} /\ files' = files \ (Asset \cap {})
      BY <1>11, <2>4
    <2> QED BY <1>9, <2>4, <2>5
  <1>12. CASE db' = db /\ files' = files
    <2>1. /\ TablesOK(db') /\ D!Sound(db') /\ D!Ids(db') = D!Ids(db) \ {} /\ db'.log = db.log
          /\ db'.unused = db.unused /\ files' = files \ (Asset \cap {})
      BY <1>12 DEF AdminInv
    <2> QED BY <1>9, <2>1
  <1> QED BY <1>3, <1>10, <1>11, <1>12

-----------------------------------------------------------------------------
(* The theorems. *)

LEMMA AdminInit ==
  ASSUME D!AdminAssumption, D!Init
  PROVE  AdminInv
  <1>1. PICK of \in Owned, links \in SUBSET ((AdminBookmark \ Fresh) \X (Tag \ Fresh)),
             latest \in [AdminBookmark \ Fresh -> (Asset \ Fresh) \cup {Null}] :
          db = [rows |-> [i \in D!Row \ Fresh |->
                           [of |-> of[i], mark |-> FALSE,
                            latest |-> IF i \in AdminBookmark THEN latest[i] ELSE Null]],
                links |-> links, guest |-> Null, log |-> {}, unused |-> Fresh]
    BY DEF D!Init
  <1>2. PICK rows : rows = [i \in D!Row \ Fresh |->
                             [of |-> of[i], mark |-> FALSE,
                              latest |-> IF i \in AdminBookmark THEN latest[i] ELSE Null]]
    OBVIOUS
  <1>3. /\ db.rows = rows /\ db.links = links /\ db.guest = Null /\ db.log = {} /\ db.unused = Fresh
        /\ db = Db(rows, links, Null, {}, Fresh) /\ D!Ids(db) = D!Row \ Fresh
    BY <1>1, <1>2 DEF Db, D!Ids
  <1>4. ASSUME NEW i \in D!Row \ Fresh
        PROVE  /\ Parented(i, of[i]) /\ of[i] \in (D!Row \ Fresh) \cup {Null}
    <2>1. of[i] \in D!Parents(D!KindOf(i)) \ Fresh
      BY <1>4 DEF D!AdminAssumption
    <2>2. D!KindOf(i) \in D!Kinds /\ i \in D!KindOf(i)
      BY <1>4 DEF D!KindOf, D!Kinds, D!Row
    <2>3. CASE D!KindOf(i) = User
      <3>1. i \in User /\ D!KindOf(i) # AdminBookmark /\ D!KindOf(i) # Tag /\ D!KindOf(i) # AdminItem /\ D!KindOf(i) # Asset
        BY <2>2, <2>3, KindsDiffer
      <3>2. of[i] = Null
        BY <2>1, <3>1 DEF D!Parents
      <3> QED BY <3>1, <3>2, KindsDiffer DEF Parented
    <2>4. CASE D!KindOf(i) = Asset
      <3>1. i \in Asset /\ D!KindOf(i) # AdminBookmark /\ D!KindOf(i) # Tag /\ D!KindOf(i) # AdminItem
        BY <2>2, <2>4, KindsDiffer
      <3>2. of[i] \in AdminBookmark \ Fresh
        BY <2>1, <2>4, <3>1 DEF D!Parents
      <3> QED BY <3>1, <3>2, KindsDiffer DEF Parented
    <2>5. CASE D!KindOf(i) \in {AdminBookmark, Tag, AdminItem}
      <3>1. i \in AdminBookmark \cup Tag \cup AdminItem /\ D!KindOf(i) # Asset
        BY <2>2, <2>5, KindsDiffer
      <3>2. of[i] \in User \ Fresh
        BY <2>1, <2>5, <3>1 DEF D!Parents
      <3> QED BY <3>1, <3>2, KindsDiffer DEF Parented
    <2> QED BY <2>2, <2>3, <2>4, <2>5 DEF D!Kinds
  <1>5. ASSUME NEW i \in D!Row \ Fresh
        PROVE  /\ rows[i] \in D!Fields /\ rows[i].of = of[i] /\ rows[i].latest \in (D!Row \ Fresh) \cup {Null}
    <2>1. (IF i \in AdminBookmark THEN latest[i] ELSE Null) \in (Asset \ Fresh) \cup {Null}
      OBVIOUS
    <2>2. of[i] \in D!Row \cup {Null}
      BY <1>4
    <2> QED BY <1>2, <2>1, <2>2, KindsDiffer DEF D!Fields
  <1>6. TablesOK(db)
    <2>1. db.rows \in [D!Ids(db) -> D!Fields]
      BY <1>2, <1>3, <1>5
    <2>2. \A i \in D!Ids(db) : Parented(i, db.rows[i].of)
      BY <1>3, <1>4, <1>5
    <2> QED BY <1>3, <2>1, <2>2 DEF TablesOK
  <1>7. D!Sound(db)
    <2>1. links \subseteq D!Ids(db) \X D!Ids(db)
      BY <1>3, KindsDiffer
    <2> QED BY <1>3, <1>4, <1>5, <2>1 DEF D!Sound
  <1>8. FilesOK /\ LogOK
    BY <1>3, KindsDiffer DEF FilesOK, LogOK, D!Init
  <1>9. adminCall = [r \in Request |-> adminCall[r]] /\ \A r \in Request : CallOK(adminCall[r])
    BY DEF D!Init, CallOK
  <1>10. left \in 0..MaxRequests
    BY DEF D!Init, D!AdminAssumption
  <1> QED BY <1>3, <1>6, <1>7, <1>8, <1>9, <1>10 DEF AdminInv

LEMMA AdminNext ==
  ASSUME D!AdminAssumption, AdminInv, [D!Next]_D!vars
  PROVE  AdminInv'
  <1>1. CASE UNCHANGED D!vars
    <2>1. /\ UNCHANGED <<adminCall, files>> /\ db' = db /\ left' = left
      BY <1>1 DEF D!vars
    <2>2. /\ adminCall' = [k \in Request |-> adminCall'[k]] /\ \A k \in Request : CallOK(adminCall[k])'
          /\ FilesOK' /\ D!Ids(db') \cap db'.unused = {}
      BY <2>1, OtherCallsStay
    <2> QED BY <2>1, <2>2 DEF AdminInv, LogOK
  <1>2. CASE \E r \in Request, a \in Staff, kind \in D!Kinds, i \in D!Row \cup {Null} : D!OpenForm(r, a, kind, i)
    BY <1>2, OpenFormKeeps
  <1>3. CASE \E r \in Request, a \in Staff :
               \/ \E i \in D!Row : D!OpenDeletion(r, a, i)
               \/ \E S : D!SelectRows(r, a, S) \/ D!SelectBookmarks(r, a, S)
    BY <1>3, ReadRowsKeep
  <1>4. CASE \E r \in Request, a \in Staff, S \in SUBSET Tag : D!DeleteUnused(r, a, S)
    BY <1>4, DeleteUnusedKeeps
  <1>5. CASE \E r \in Request : D!Save(r)
    BY <1>5, SaveFormKeeps
  <1>6. CASE \E r \in Request : D!Delete(r)
    BY <1>6, DeleteKeeps
  <1>7. CASE \E r \in Request : D!DeleteSelected(r)
    BY <1>7, DeleteSelectedKeeps
  <1>8. CASE \E r \in Request : D!DeleteUsers(r)
    BY <1>8, DeleteUsersKeeps
  <1>9. CASE \E r \in Request : D!NextBookmark(r)
    BY <1>9, NextBookmarkKeeps
  <1>10. CASE \E r \in Request : D!RemoveFiles(r)
    BY <1>10, RemoveFilesKeeps
  <1>11. CASE \E a, u \in User : D!NameGuest(a, u)
    BY <1>11, NameGuestKeeps
  <1> QED BY <1>1, <1>2, <1>3, <1>4, <1>5, <1>6, <1>7, <1>8, <1>9, <1>10, <1>11, Zenon DEF D!Next

\* What every state has: sound tables, a log that is true, files of every asset and
\* of assets whose removal is under way, and requests that fit what they read.
THEOREM AdminInvHolds == ASSUME D!AdminAssumption PROVE D!Spec => []AdminInv
  <1>1. D!Init => AdminInv
    BY AdminInit
  <1>2. AdminInv /\ [D!Next]_D!vars => AdminInv'
    BY AdminNext
  <1> QED BY <1>1, <1>2, PTL DEF D!Spec

\* Every deletion takes along all that refers to the rows it removes, also what a
\* form borrowed from another user: no reference ever dangles (admin_user_delete.go,
\* bookmarks/delete.go), though no deletion is guarded by the foreign keys here.
THEOREM ReferencesHold == ASSUME D!AdminAssumption PROVE D!Spec => []D!References
  <1>1. AdminInv => D!References
    BY DEF AdminInv, D!References
  <1> QED BY <1>1, AdminInvHolds, PTL

\* What the log says was deleted is gone, and stays gone (admin_log.go).
THEOREM LogIsTrue == ASSUME D!AdminAssumption PROVE D!Spec => []D!LoggedDeletionIsReal
  <1>1. AdminInv => D!LoggedDeletionIsReal
    BY DEF AdminInv, LogOK, D!LoggedDeletionIsReal
  <1> QED BY <1>1, AdminInvHolds, PTL

\* Files stay while their asset does; when no request is in progress the files of
\* assets that are gone are gone too (admin_user_delete.go, admin_default_actions.go).
THEOREM FilesAreFollowed == ASSUME D!AdminAssumption PROVE D!Spec => []D!FilesFollowRows
  <1>1. AdminInv => D!FilesFollowRows
    <2>1. ASSUME \A r \in Request : adminCall[r] = D!Idle PROVE ToRemove = {}
      BY <2>1 DEF ToRemove, D!Idle
    <2> QED BY <2>1 DEF AdminInv, FilesOK, D!FilesFollowRows
  <1> QED BY <1>1, AdminInvHolds, PTL

LEMMA FitIsParent ==
  ASSUME D!AdminAssumption, NEW i \in D!Row, NEW p, Parented(i, p)
  PROVE  p \in D!Parents(D!KindOf(i))
  <1>1. D!KindOf(i) \in D!Kinds /\ i \in D!KindOf(i)
    BY DEF D!KindOf, D!Kinds, D!Row
  <1>2. CASE D!KindOf(i) = User
    <2>1. i \in User /\ D!KindOf(i) # AdminBookmark /\ D!KindOf(i) # Tag /\ D!KindOf(i) # AdminItem /\ D!KindOf(i) # Asset
      BY <1>1, <1>2, KindsDiffer
    <2> QED BY <2>1 DEF D!Parents, Parented
  <1>3. CASE D!KindOf(i) = Asset
    <2>1. i \in Asset /\ D!KindOf(i) # AdminBookmark /\ D!KindOf(i) # Tag /\ D!KindOf(i) # AdminItem
      BY <1>1, <1>3, KindsDiffer
    <2> QED BY <1>3, <2>1 DEF D!Parents, Parented
  <1>4. CASE D!KindOf(i) \in {AdminBookmark, Tag, AdminItem}
    <2>1. i \in AdminBookmark \cup Tag \cup AdminItem /\ D!KindOf(i) # Asset
      BY <1>1, <1>4, KindsDiffer
    <2> QED BY <1>4, <2>1 DEF D!Parents, Parented
  <1> QED BY <1>1, <1>2, <1>3, <1>4 DEF D!Kinds

\* The tables, the log and what requests hold have their types; each row belongs to
\* a row of the kind it is to.
THEOREM AdminTypesHold == ASSUME D!AdminAssumption PROVE D!Spec => []D!TypeOK
  <1>1. AdminInv => D!TypeOK
    <2> SUFFICES ASSUME AdminInv PROVE D!TypeOK
      OBVIOUS
    <2>1. D!Ids(db) \subseteq D!Row /\ \A i \in D!Ids(db) : db.rows[i] \in D!Fields /\ Parented(i, db.rows[i].of)
      BY DEF AdminInv, TablesOK
    <2>2. \A i \in D!Ids(db) : db.rows[i].of \in D!Parents(D!KindOf(i))
      BY <2>1, FitIsParent
    <2>3. /\ db.links \subseteq AdminBookmark \X Tag /\ db.guest \in User \cup {Null}
          /\ db.unused \subseteq Fresh
      BY DEF AdminInv, TablesOK
    <2>4. \A e \in db.log : e.by \in User /\ e.id \in D!Row /\ e.did \in {"added", "changed", "deleted"}
      BY DEF AdminInv, LogOK, LogEntry
    <2>5. \A r \in Request : adminCall[r].op \in
            {"idle", "save", "delete", "selected", "users", "bookmarks", "remove"}
      BY DEF AdminInv, CallOK, D!Idle
    <2> QED BY <2>1, <2>2, <2>3, <2>4, <2>5 DEF AdminInv, FilesOK, D!TypeOK
  <1> QED BY <1>1, AdminInvHolds, PTL

-----------------------------------------------------------------------------
(* The confirmation page of a deletion of users.                           *)

Counted(Ls) == [seen |-> Ls, count |-> Cardinality(Ls)]
TagLinks(d, T) == {l \in d.links : l[2] \in T}
BookmarkLinks(d, bs) == {l \in d.links : l[1] \in bs}

LEMMA RelatedAdds ==
  ASSUME NEW A, IsFiniteSet(A), NEW Ls, IsFiniteSet(Ls)
  PROVE  D!Related(Counted(A), Ls) = Counted(A \cup Ls) /\ IsFiniteSet(A \cup Ls)
  <1>1. IsFiniteSet(Ls \ A)
    BY FS_Difference
  <1>2. /\ Cardinality(A \cup (Ls \ A)) = Cardinality(A) + Cardinality(Ls \ A) - Cardinality(A \cap (Ls \ A))
        /\ IsFiniteSet(A \cup (Ls \ A))
    BY <1>1, FS_Union
  <1>3. A \cup (Ls \ A) = A \cup Ls /\ A \cap (Ls \ A) = {}
    OBVIOUS
  <1>4. Cardinality(A) \in Nat /\ Cardinality(Ls \ A) \in Nat /\ Cardinality({}) = 0
    BY <1>1, FS_CardinalityType, FS_EmptySet
  <1>5. Cardinality(A \cup Ls) = Cardinality(A) + Cardinality(Ls \ A)
    <2>1. Cardinality(A \cup Ls) = Cardinality(A) + Cardinality(Ls \ A) - 0
      BY <1>2, <1>3, <1>4, Zenon
    <2> QED BY <1>4, <2>1
  <1> QED BY <1>2, <1>3, <1>5, SizesOfAdmin DEF D!Related, Counted

\* Tag by tag, each relation is counted once.
LEMMA TagsAreCounted ==
  ASSUME NEW d, IsFiniteSet(d.links), NEW A, IsFiniteSet(A), NEW T, IsFiniteSet(T)
  PROVE  D!FoldSet(LAMBDA t, s : D!Related(s, {l \in d.links : l[2] = t}), Counted(A), T)
           = Counted(A \cup TagLinks(d, T))
  <1> DEFINE Chosen(s) == CHOOSE x \in s : TRUE
             Step(v, t) == D!Related(v, {l \in d.links : l[2] = t})
             Eq(g) == g = [s \in SUBSET T |->
                             IF s = {} THEN Counted(A) ELSE Step(g[s \ {Chosen(s)}], Chosen(s))]
             h == [s \in SUBSET T |-> Counted(A \cup TagLinks(d, s))]
             g == CHOOSE g : Eq(g)
  <1>1. TagLinks(d, {}) = {}
    BY DEF TagLinks
  <1>2. ASSUME NEW s \in SUBSET T, NEW x \in s
        PROVE  Step(h[s \ {x}], x) = h[s]
    <2> DEFINE t == s \ {x}
               Ls == {l \in d.links : l[2] = x}
    <2>1. t \in SUBSET T /\ Ls \subseteq d.links /\ TagLinks(d, t) \subseteq d.links
      BY DEF TagLinks
    <2>2. TagLinks(d, t) \cup Ls = TagLinks(d, s)
      BY DEF TagLinks
    <2> HIDE DEF t, Ls
    <2>3. IsFiniteSet(Ls) /\ IsFiniteSet(A \cup TagLinks(d, t))
      BY <2>1, FS_Subset, FS_Union
    <2>4. D!Related(Counted(A \cup TagLinks(d, t)), Ls) = Counted((A \cup TagLinks(d, t)) \cup Ls)
      BY <2>3, RelatedAdds
    <2>5. (A \cup TagLinks(d, t)) \cup Ls = A \cup TagLinks(d, s)
      BY <2>2
    <2>6. h[t] = Counted(A \cup TagLinks(d, t)) /\ h[s] = Counted(A \cup TagLinks(d, s))
      BY <2>1
    <2> HIDE DEF h
    <2>7. D!Related(h[t], Ls) = h[s]
      BY <2>4, <2>5, <2>6
    <2> QED BY <2>7 DEF t, Ls
  <1>3. ASSUME NEW s \in SUBSET T, s # {} PROVE Chosen(s) \in s
    BY <1>3
  <1>4. h[{}] = Counted(A)
    BY <1>1
  <1>5. Eq(h)
    <2>1. ASSUME NEW s \in SUBSET T
          PROVE  h[s] = IF s = {} THEN Counted(A) ELSE Step(h[s \ {Chosen(s)}], Chosen(s))
      <3> HIDE DEF h, Chosen, Step
      <3> QED BY <1>2, <1>3, <1>4
    <2> HIDE DEF Chosen, Step
    <2> QED BY <2>1
  <1>6. Eq(g)
    BY <1>5
  <1>7. D!FoldSet(LAMBDA t, s : D!Related(s, {l \in d.links : l[2] = t}), Counted(A), T) = g[T]
    BY DEF D!FoldSet, D!MapThenFoldSet
  <1>8. FoldAlike(T, g, h)
    <2> HIDE DEF h
    <2>1. g[{}] = h[{}]
      <3> HIDE DEF g, Chosen, Step
      <3> QED BY <1>4, <1>6
    <2>2. ASSUME NEW s \in SUBSET T, s # {}
          PROVE  \E x \in s : g[s \ {x}] = h[s \ {x}] => g[s] = h[s]
      <3>1. Chosen(s) \in s
        BY <1>3, <2>2
      <3> HIDE DEF g, Chosen, Step
      <3>2. g[s] = Step(g[s \ {Chosen(s)}], Chosen(s))
        BY <1>6, <2>2
      <3> QED BY <1>2, <3>1, <3>2
    <2> HIDE DEF g
    <2> QED BY <2>1, <2>2 DEF FoldAlike
  <1>9. g[T] = h[T]
    <2> HIDE DEF g, h
    <2> QED BY <1>8, FoldsAgree
  <1>10. h[T] = Counted(A \cup TagLinks(d, T))
    OBVIOUS
  <1> HIDE DEF g, h
  <1> QED BY <1>7, <1>9, <1>10

\* So it is bookmark by bookmark, after the tags.
LEMMA BookmarksAreCounted ==
  ASSUME NEW d, IsFiniteSet(d.links), NEW A, IsFiniteSet(A), NEW bs, IsFiniteSet(bs)
  PROVE  D!FoldSet(LAMBDA b, s : D!Related(s, {l \in d.links : l[1] = b}), Counted(A), bs)
           = Counted(A \cup BookmarkLinks(d, bs))
  <1> DEFINE Chosen(s) == CHOOSE x \in s : TRUE
             Step(v, b) == D!Related(v, {l \in d.links : l[1] = b})
             Eq(g) == g = [s \in SUBSET bs |->
                             IF s = {} THEN Counted(A) ELSE Step(g[s \ {Chosen(s)}], Chosen(s))]
             h == [s \in SUBSET bs |-> Counted(A \cup BookmarkLinks(d, s))]
             g == CHOOSE g : Eq(g)
  <1>1. BookmarkLinks(d, {}) = {}
    BY DEF BookmarkLinks
  <1>2. ASSUME NEW s \in SUBSET bs, NEW x \in s
        PROVE  Step(h[s \ {x}], x) = h[s]
    <2> DEFINE t == s \ {x}
               Ls == {l \in d.links : l[1] = x}
    <2>1. t \in SUBSET bs /\ Ls \subseteq d.links /\ BookmarkLinks(d, t) \subseteq d.links
      BY DEF BookmarkLinks
    <2>2. BookmarkLinks(d, t) \cup Ls = BookmarkLinks(d, s)
      BY DEF BookmarkLinks
    <2> HIDE DEF t, Ls
    <2>3. IsFiniteSet(Ls) /\ IsFiniteSet(A \cup BookmarkLinks(d, t))
      BY <2>1, FS_Subset, FS_Union
    <2>4. D!Related(Counted(A \cup BookmarkLinks(d, t)), Ls) = Counted((A \cup BookmarkLinks(d, t)) \cup Ls)
      BY <2>3, RelatedAdds
    <2>5. (A \cup BookmarkLinks(d, t)) \cup Ls = A \cup BookmarkLinks(d, s)
      BY <2>2
    <2>6. h[t] = Counted(A \cup BookmarkLinks(d, t)) /\ h[s] = Counted(A \cup BookmarkLinks(d, s))
      BY <2>1
    <2> HIDE DEF h
    <2>7. D!Related(h[t], Ls) = h[s]
      BY <2>4, <2>5, <2>6
    <2> QED BY <2>7 DEF t, Ls
  <1>3. ASSUME NEW s \in SUBSET bs, s # {} PROVE Chosen(s) \in s
    BY <1>3
  <1>4. h[{}] = Counted(A)
    BY <1>1
  <1>5. Eq(h)
    <2>1. ASSUME NEW s \in SUBSET bs
          PROVE  h[s] = IF s = {} THEN Counted(A) ELSE Step(h[s \ {Chosen(s)}], Chosen(s))
      <3> HIDE DEF h, Chosen, Step
      <3> QED BY <1>2, <1>3, <1>4
    <2> HIDE DEF Chosen, Step
    <2> QED BY <2>1
  <1>6. Eq(g)
    BY <1>5
  <1>7. D!FoldSet(LAMBDA b, s : D!Related(s, {l \in d.links : l[1] = b}), Counted(A), bs) = g[bs]
    BY DEF D!FoldSet, D!MapThenFoldSet
  <1>8. FoldAlike(bs, g, h)
    <2> HIDE DEF h
    <2>1. g[{}] = h[{}]
      <3> HIDE DEF g, Chosen, Step
      <3> QED BY <1>4, <1>6
    <2>2. ASSUME NEW s \in SUBSET bs, s # {}
          PROVE  \E x \in s : g[s \ {x}] = h[s \ {x}] => g[s] = h[s]
      <3>1. Chosen(s) \in s
        BY <1>3, <2>2
      <3> HIDE DEF g, Chosen, Step
      <3>2. g[s] = Step(g[s \ {Chosen(s)}], Chosen(s))
        BY <1>6, <2>2
      <3> QED BY <1>2, <3>1, <3>2
    <2> HIDE DEF g
    <2> QED BY <2>1, <2>2 DEF FoldAlike
  <1>9. g[bs] = h[bs]
    <2> HIDE DEF g, h
    <2> QED BY <1>8, FoldsAgree
  <1>10. h[bs] = Counted(A \cup BookmarkLinks(d, bs))
    OBVIOUS
  <1> HIDE DEF g, h
  <1> QED BY <1>7, <1>9, <1>10

\* The relations of users: those of their tags and those of their bookmarks.
LinksOf(d, S) == {l \in d.links : \E u \in S : l[2] \in D!Of(d, Tag, u) \/ l[1] \in D!Of(d, AdminBookmark, u)}

LEMMA RelationsAreCounted ==
  ASSUME D!AdminAssumption, NEW d, TablesOK(d), IsFiniteSet(d.links), NEW A, IsFiniteSet(A), NEW u
  PROVE  /\ D!RelationsOf(d, u, Counted(A)) = Counted(A \cup LinksOf(d, {u}))
         /\ IsFiniteSet(A \cup LinksOf(d, {u}))
  <1> DEFINE T == D!Of(d, Tag, u)
             bs == D!Of(d, AdminBookmark, u)
             tags == A \cup TagLinks(d, T)
  <1>1. T \subseteq D!Row /\ bs \subseteq D!Row /\ IsFiniteSet(D!Row)
    BY SizesOfAdmin DEF D!Of, D!Row, D!AdminAssumption
  <1>2. TagLinks(d, T) \subseteq d.links /\ BookmarkLinks(d, bs) \subseteq d.links
    BY DEF TagLinks, BookmarkLinks
  <1> HIDE DEF T, bs
  <1>3. IsFiniteSet(T) /\ IsFiniteSet(bs) /\ IsFiniteSet(TagLinks(d, T)) /\ IsFiniteSet(BookmarkLinks(d, bs))
    BY <1>1, <1>2, FS_Subset
  <1>4. D!FoldSet(LAMBDA t, s : D!Related(s, {l \in d.links : l[2] = t}), Counted(A), T) = Counted(tags)
    BY <1>3, TagsAreCounted
  <1>5. IsFiniteSet(tags)
    BY <1>3, FS_Union
  <1> HIDE DEF tags
  <1>6. D!FoldSet(LAMBDA b, s : D!Related(s, {l \in d.links : l[1] = b}), Counted(tags), bs)
          = Counted(tags \cup BookmarkLinks(d, bs))
    BY <1>3, <1>5, BookmarksAreCounted
  <1>7. D!RelationsOf(d, u, Counted(A)) = Counted(tags \cup BookmarkLinks(d, bs))
    BY <1>4, <1>6, Zenon DEF D!RelationsOf, T, bs
  <1>8. tags \cup BookmarkLinks(d, bs) = A \cup LinksOf(d, {u})
    <2>1. TagLinks(d, T) \cup BookmarkLinks(d, bs) = LinksOf(d, {u})
      BY DEF TagLinks, BookmarkLinks, LinksOf, T, bs
    <2> QED BY <2>1 DEF tags
  <1>9. IsFiniteSet(tags \cup BookmarkLinks(d, bs))
    BY <1>3, <1>5, FS_Union
  <1> QED BY <1>7, <1>8, <1>9

LEMMA UsersAreCounted ==
  ASSUME D!AdminAssumption, NEW d, TablesOK(d), IsFiniteSet(d.links), NEW S, IsFiniteSet(S)
  PROVE  D!FoldSet(LAMBDA u, s : D!RelationsOf(d, u, s), [seen |-> {}, count |-> 0], S)
           = Counted(LinksOf(d, S))
  <1> DEFINE Chosen(s) == CHOOSE x \in s : TRUE
             None == [seen |-> {}, count |-> 0]
             Eq(g) == g = [s \in SUBSET S |->
                             IF s = {} THEN None ELSE D!RelationsOf(d, Chosen(s), g[s \ {Chosen(s)}])]
             h == [s \in SUBSET S |-> Counted(LinksOf(d, s))]
             g == CHOOSE g : Eq(g)
  <1>1. LinksOf(d, {}) = {} /\ Counted({}) = None
    BY FS_EmptySet DEF LinksOf, Counted
  <1>2. ASSUME NEW s \in SUBSET S, NEW x \in s
        PROVE  D!RelationsOf(d, x, h[s \ {x}]) = h[s]
    <2> DEFINE t == s \ {x}
    <2>1. t \in SUBSET S /\ LinksOf(d, t) \subseteq d.links
      BY DEF LinksOf
    <2>2. LinksOf(d, t) \cup LinksOf(d, {x}) = LinksOf(d, s)
      BY DEF LinksOf
    <2> HIDE DEF t
    <2>3. IsFiniteSet(LinksOf(d, t))
      BY <2>1, FS_Subset
    <2>4. D!RelationsOf(d, x, Counted(LinksOf(d, t))) = Counted(LinksOf(d, t) \cup LinksOf(d, {x}))
      BY <2>3, RelationsAreCounted
    <2>5. h[t] = Counted(LinksOf(d, t)) /\ h[s] = Counted(LinksOf(d, s))
      BY <2>1
    <2> HIDE DEF h
    <2>6. D!RelationsOf(d, x, h[t]) = h[s]
      BY <2>2, <2>4, <2>5
    <2> QED BY <2>6 DEF t
  <1>3. ASSUME NEW s \in SUBSET S, s # {} PROVE Chosen(s) \in s
    BY <1>3
  <1>4. h[{}] = None
    BY <1>1
  <1>5. Eq(h)
    <2>1. ASSUME NEW s \in SUBSET S
          PROVE  h[s] = IF s = {} THEN None ELSE D!RelationsOf(d, Chosen(s), h[s \ {Chosen(s)}])
      <3> HIDE DEF h, Chosen, None
      <3> QED BY <1>2, <1>3, <1>4
    <2> HIDE DEF Chosen, None
    <2> QED BY <2>1
  <1>6. Eq(g)
    BY <1>5
  <1>7. D!FoldSet(LAMBDA u, s : D!RelationsOf(d, u, s), [seen |-> {}, count |-> 0], S) = g[S]
    BY DEF D!FoldSet, D!MapThenFoldSet
  <1>8. FoldAlike(S, g, h)
    <2> HIDE DEF h
    <2>1. g[{}] = h[{}]
      <3> HIDE DEF g, Chosen, None
      <3> QED BY <1>4, <1>6
    <2>2. ASSUME NEW s \in SUBSET S, s # {}
          PROVE  \E x \in s : g[s \ {x}] = h[s \ {x}] => g[s] = h[s]
      <3>1. Chosen(s) \in s
        BY <1>3, <2>2
      <3> HIDE DEF g, Chosen, None
      <3>2. g[s] = D!RelationsOf(d, Chosen(s), g[s \ {Chosen(s)}])
        BY <1>6, <2>2
      <3> QED BY <1>2, <3>1, <3>2
    <2> HIDE DEF g
    <2> QED BY <2>1, <2>2 DEF FoldAlike
  <1>9. g[S] = h[S]
    <2> HIDE DEF g, h
    <2> QED BY <1>8, FoldsAgree
  <1>10. h[S] = Counted(LinksOf(d, S))
    OBVIOUS
  <1> HIDE DEF g, h
  <1> QED BY <1>7, <1>9, <1>10

LEMMA LostAre ==
  ASSUME NEW P, IsFiniteSet(P), NEW Q, Q \subseteq P
  PROVE  Cardinality(P) - Cardinality(Q) = Cardinality(P \ Q)
  <1>1. Cardinality(P \ Q) = Cardinality(P) - Cardinality(P \cap Q)
    BY FS_Difference
  <1>2. P \cap Q = Q
    OBVIOUS
  <1> QED BY <1>1, <1>2, Zenon

LEMMA LogIsFinite ==
  ASSUME D!AdminAssumption
  PROVE  IsFiniteSet(LogEntry)
  <1> DEFINE dids == {"added", "changed", "deleted"}
             T == (User \X D!Row) \X dids
             f == [x \in T |-> [by |-> x[1][1], id |-> x[1][2], did |-> x[2]]]
  <1>1. IsFiniteSet(D!Row) /\ User \subseteq D!Row
    BY SizesOfAdmin DEF D!AdminAssumption, D!Row
  <1>2. IsFiniteSet({"added"} \cup {"changed"} \cup {"deleted"})
    BY FS_Singleton, FS_Union
  <1>3. dids = {"added"} \cup {"changed"} \cup {"deleted"}
    OBVIOUS
  <1>4. IsFiniteSet(dids)
    BY <1>2, <1>3
  <1>5. IsFiniteSet(User)
    BY <1>1, FS_Subset
  <1> HIDE DEF dids
  <1>6. IsFiniteSet(T)
    <2>1. IsFiniteSet(User \X D!Row)
      BY <1>1, <1>5, FS_Product
    <2> QED BY <1>4, <2>1, FS_Product
  <1>7. LogEntry = [by : User, id : D!Row, did : dids]
    BY DEF LogEntry, dids
  <1>8. f \in [T -> LogEntry]
    BY <1>7
  <1>9. ASSUME NEW e \in LogEntry PROVE \E x \in T : f[x] = e
    <2>1. e = [by |-> e.by, id |-> e.id, did |-> e.did] /\ e.by \in User /\ e.id \in D!Row /\ e.did \in dids
      BY <1>7
    <2>2. <<<<e.by, e.id>>, e.did>> \in T
      BY <2>1
    <2>3. f[<<<<e.by, e.id>>, e.did>>] = e
      BY <2>1, <2>2
    <2> QED BY <2>2, <2>3
  <1> HIDE DEF f, T
  <1>10. f \in Surjection(T, LogEntry)
    BY <1>8, <1>9 DEF Surjection
  <1> QED BY <1>6, <1>10, FS_Surjection

\* What the deletion of users leaves, and so removes, of each table.
Leaves(e, S) ==
  /\ D!Ids(e) = D!Ids(db) \ Gone(db, S)
  /\ e.links = {l \in db.links : l[1] \notin Gone(db, S) /\ l[2] \notin Gone(db, S)}
Removes(e, S) ==
  /\ (User \cap D!Ids(db)) \ (User \cap D!Ids(e)) = S
  /\ (Tag \cap D!Ids(db)) \ (Tag \cap D!Ids(e)) = UNION {D!Of(db, Tag, u) : u \in S}
  /\ (AdminBookmark \cap D!Ids(db)) \ (AdminBookmark \cap D!Ids(e)) = UNION {D!Of(db, AdminBookmark, u) : u \in S}
  /\ (AdminItem \cap D!Ids(db)) \ (AdminItem \cap D!Ids(e)) = UNION {D!Of(db, AdminItem, u) : u \in S}
  /\ (Asset \cap D!Ids(db)) \ (Asset \cap D!Ids(e)) = UNION {D!UserAssets(db, u) : u \in S}
  /\ db.links \ e.links = LinksOf(db, S)

LEMMA RemovedAre ==
  ASSUME D!AdminAssumption, TablesOK(db), D!Sound(db), NEW S \in SUBSET (User \cap D!Ids(db)),
         NEW e, Leaves(e, S)
  PROVE  Removes(e, S)
  <1>0. /\ D!Ids(e) = D!Ids(db) \ Gone(db, S)
        /\ e.links = {l \in db.links : l[1] \notin Gone(db, S) /\ l[2] \notin Gone(db, S)}
    BY DEF Leaves
  <1>1. \A i : i \in Gone(db, S) <=>
          \/ i \in S
          \/ i \in D!Ids(db) /\ db.rows[i].of \in S
          \/ i \in D!Ids(db) /\ i \in Asset /\ db.rows[i].of \in D!Ids(db) /\ db.rows[db.rows[i].of].of \in S
    BY DEF Gone
  <1>2. \A i \in D!Ids(db) : i \in D!Row /\ Parented(i, db.rows[i].of)
    BY DEF TablesOK
  <1>3. \A i \in User \cap D!Ids(db) : i \in Gone(db, S) <=> i \in S
    BY <1>1, <1>2, KindsDiffer DEF Parented
  <1>4. \A i \in D!Ids(db) : i \in AdminBookmark \cup Tag \cup AdminItem => (i \in Gone(db, S) <=> db.rows[i].of \in S)
    BY <1>1, <1>2, KindsDiffer DEF Parented
  <1>5. \A k : \A i : i \in UNION {D!Of(db, k, u) : u \in S} <=> i \in k /\ i \in D!Ids(db) /\ db.rows[i].of \in S
    BY DEF D!Of
  <1>6. UNION {D!UserAssets(db, u) : u \in S} = Asset \cap D!Ids(db) \cap Gone(db, S)
    <2>1. PICK d : d = db
      OBVIOUS
    <2>2. PICK F : F = UNION {D!UserAssets(db, u) : u \in S}
      OBVIOUS
    <2>3. d.rows = db.rows /\ S \in SUBSET User
      BY <2>1
    <2>4. F = Asset \cap D!Ids(db) \cap Gone(d, S)
      BY <2>2, <2>3, UsersAssetsAreGone
    <2> QED BY <2>1, <2>2, <2>4
  <1>7. \A k \in {Tag, AdminBookmark, AdminItem} :
          (k \cap D!Ids(db)) \ (k \cap D!Ids(e)) = UNION {D!Of(db, k, u) : u \in S}
    <2> SUFFICES ASSUME NEW k \in {Tag, AdminBookmark, AdminItem}
                 PROVE  (k \cap D!Ids(db)) \ (k \cap D!Ids(e)) = UNION {D!Of(db, k, u) : u \in S}
      OBVIOUS
    <2>1. PICK U : U = UNION {D!Of(db, k, u) : u \in S}
      OBVIOUS
    <2>2. \A i : i \in U <=> i \in k /\ i \in D!Ids(db) /\ db.rows[i].of \in S
      BY <1>5, <2>1
    <2>3. \A i \in D!Ids(db) : i \in k => (i \in Gone(db, S) <=> db.rows[i].of \in S)
      BY <1>4
    <2>4. (k \cap D!Ids(db)) \ (k \cap D!Ids(e)) = U
      BY <1>0, <2>2, <2>3
    <2> QED BY <2>1, <2>4
  <1>8. (User \cap D!Ids(db)) \ (User \cap D!Ids(e)) = S
    BY <1>0, <1>3
  <1>9. (Asset \cap D!Ids(db)) \ (Asset \cap D!Ids(e)) = UNION {D!UserAssets(db, u) : u \in S}
    <2>1. (Asset \cap D!Ids(db)) \ (Asset \cap D!Ids(e)) = Asset \cap D!Ids(db) \cap Gone(db, S)
      BY <1>0
    <2> QED BY <1>6, <2>1
  <1>10. db.links \ e.links = LinksOf(db, S)
    <2>1. \A l \in db.links : l[1] \in AdminBookmark \cap D!Ids(db) /\ l[2] \in Tag \cap D!Ids(db)
      BY DEF TablesOK, D!Sound
    <2>2. \A l : l \in LinksOf(db, S) <=>
            l \in db.links /\ \E u \in S : l[2] \in D!Of(db, Tag, u) \/ l[1] \in D!Of(db, AdminBookmark, u)
      BY DEF LinksOf
    <2>3. \A l \in db.links : /\ l[1] \in Gone(db, S) <=> \E u \in S : l[1] \in D!Of(db, AdminBookmark, u)
                              /\ l[2] \in Gone(db, S) <=> \E u \in S : l[2] \in D!Of(db, Tag, u)
      BY <1>4, <2>1 DEF D!Of
    <2> QED BY <1>0, <2>2, <2>3
  <1> QED BY <1>7, <1>8, <1>9, <1>10 DEF Removes

LEMMA GraphIs ==
  ASSUME D!AdminAssumption, AdminInv, NEW S \in SUBSET (User \cap D!Ids(db)),
         NEW e, e = D!UsersDeleted([db EXCEPT !.log = {}], Null, S)
  PROVE  D!DeletionGraph(db, S) =
           [users |-> D!Cardinality(User \cap D!Ids(db)) - D!Cardinality(User \cap D!Ids(e)),
            tags |-> D!Cardinality(Tag \cap D!Ids(db)) - D!Cardinality(Tag \cap D!Ids(e)),
            bookmarks |-> D!Cardinality(AdminBookmark \cap D!Ids(db)) - D!Cardinality(AdminBookmark \cap D!Ids(e)),
            assets |-> D!Cardinality(Asset \cap D!Ids(db)) - D!Cardinality(Asset \cap D!Ids(e)),
            items |-> D!Cardinality(AdminItem \cap D!Ids(db)) - D!Cardinality(AdminItem \cap D!Ids(e)),
            entries |-> D!Cardinality(db.log) - D!Cardinality({f \in db.log : f.by \notin S}),
            relations |-> D!Cardinality(db.links) - D!Cardinality(e.links)]
  <1>1. TablesOK(db) /\ D!Sound(db) /\ db.log \subseteq LogEntry /\ db.links \subseteq AdminBookmark \X Tag
        /\ db = Db(db.rows, db.links, db.guest, db.log, db.unused) /\ D!Ids(db) \subseteq D!Row
    BY DEF AdminInv, LogOK, TablesOK
  <1>2. PICK d : d = [db EXCEPT !.log = {}]
    OBVIOUS
  <1>3. TablesOK(d) /\ D!Ids(d) = D!Ids(db) /\ d.rows = db.rows /\ d.links = db.links
    <2>1. /\ d.rows = db.rows /\ d.links = db.links /\ d.guest = db.guest /\ d.unused = db.unused
          /\ d = Db(d.rows, d.links, d.guest, d.log, d.unused)
      BY <1>1, <1>2 DEF Db
    <2>2. D!Ids(d) = D!Ids(db)
      BY <2>1 DEF D!Ids
    <2>3. TablesOK(d)
      BY <1>1, <2>1, <2>2 DEF TablesOK
    <2> QED BY <2>1, <2>2, <2>3
  <1>4. D!Ids(e) = D!Ids(db) \ Gone(db, S)
        /\ e.links = {l \in db.links : l[1] \notin Gone(db, S) /\ l[2] \notin Gone(db, S)}
    <2>1. PICK b : b = D!Logged(d, Null, S, "deleted")
      OBVIOUS
    <2>2. /\ TablesOK(D!Logged(d, Null, S, "deleted")) /\ D!Ids(D!Logged(d, Null, S, "deleted")) = D!Ids(d)
          /\ D!Logged(d, Null, S, "deleted").rows = d.rows /\ D!Logged(d, Null, S, "deleted").links = d.links
      BY <1>3, LoggedIs
    <2>3. S \in SUBSET User
      OBVIOUS
    <2>4. D!UsersDeleted(d, Null, S) = After(D!Logged(d, Null, S, "deleted"), S)
      BY <2>2, <2>3, UsersDeletedIs
    <2>5. TablesOK(b) /\ D!Ids(b) = D!Ids(db) /\ b.rows = db.rows /\ b.links = db.links /\ e = After(b, S)
      BY <1>2, <1>3, <2>1, <2>2, <2>4
    <2>6. Gone(b, S) = Gone(db, S)
      BY <2>5 DEF Gone
    <2>7. D!Ids(After(b, S)) = D!Ids(b) \ Gone(b, S)
          /\ After(b, S).links = {l \in b.links : l[1] \notin Gone(b, S) /\ l[2] \notin Gone(b, S)}
      BY <2>5, AfterIs
    <2> QED BY <2>5, <2>6, <2>7
  <1>5. /\ (User \cap D!Ids(db)) \ (User \cap D!Ids(e)) = S
        /\ (Tag \cap D!Ids(db)) \ (Tag \cap D!Ids(e)) = UNION {D!Of(db, Tag, u) : u \in S}
        /\ (AdminBookmark \cap D!Ids(db)) \ (AdminBookmark \cap D!Ids(e)) = UNION {D!Of(db, AdminBookmark, u) : u \in S}
        /\ (AdminItem \cap D!Ids(db)) \ (AdminItem \cap D!Ids(e)) = UNION {D!Of(db, AdminItem, u) : u \in S}
        /\ (Asset \cap D!Ids(db)) \ (Asset \cap D!Ids(e)) = UNION {D!UserAssets(db, u) : u \in S}
        /\ db.links \ e.links = LinksOf(db, S)
    <2>1. Leaves(e, S)
      BY <1>4 DEF Leaves
    <2>2. Removes(e, S)
      BY <1>1, <2>1, RemovedAre
    <2> QED BY <2>2 DEF Removes
  <1>6. IsFiniteSet(D!Row)
    BY SizesOfAdmin DEF D!AdminAssumption
  <1>7. \A k : /\ IsFiniteSet(k \cap D!Ids(db))
               /\ D!Cardinality(k \cap D!Ids(db)) - D!Cardinality(k \cap D!Ids(e))
                    = D!Cardinality((k \cap D!Ids(db)) \ (k \cap D!Ids(e)))
    <2> SUFFICES ASSUME NEW k
                 PROVE  /\ IsFiniteSet(k \cap D!Ids(db))
                        /\ D!Cardinality(k \cap D!Ids(db)) - D!Cardinality(k \cap D!Ids(e))
                             = D!Cardinality((k \cap D!Ids(db)) \ (k \cap D!Ids(e)))
      OBVIOUS
    <2>1. k \cap D!Ids(db) \subseteq D!Row /\ k \cap D!Ids(e) \subseteq k \cap D!Ids(db)
      BY <1>1, <1>4
    <2>2. IsFiniteSet(k \cap D!Ids(db))
      BY <1>6, <2>1, FS_Subset
    <2> QED BY <2>1, <2>2, LostAre, SizesOfAdmin
  <1>8. IsFiniteSet(db.links) /\ D!Cardinality(db.links) - D!Cardinality(e.links) = D!Cardinality(LinksOf(db, S))
    <2>1. AdminBookmark \subseteq D!Row /\ Tag \subseteq D!Row
      BY DEF D!Row
    <2>2. IsFiniteSet(AdminBookmark) /\ IsFiniteSet(Tag)
      BY <1>6, <2>1, FS_Subset
    <2>3. IsFiniteSet(AdminBookmark \X Tag)
      BY <2>2, FS_Product
    <2>4. IsFiniteSet(db.links)
      BY <1>1, <2>3, FS_Subset
    <2>5. e.links \subseteq db.links
      BY <1>4
    <2>6. D!Cardinality(db.links) - D!Cardinality(e.links) = D!Cardinality(db.links \ e.links)
      BY <2>4, <2>5, LostAre, SizesOfAdmin
    <2> QED BY <1>5, <2>4, <2>6
  <1>9. D!Cardinality(db.log) - D!Cardinality({f \in db.log : f.by \notin S})
          = D!Cardinality({f \in db.log : f.by \in S})
    <2>1. IsFiniteSet(db.log)
      BY <1>1, LogIsFinite, FS_Subset
    <2>2. PICK stay : stay = {f \in db.log : f.by \notin S}
      OBVIOUS
    <2>3. stay \subseteq db.log /\ db.log \ stay = {f \in db.log : f.by \in S}
      BY <2>2
    <2>4. D!Cardinality(db.log) - D!Cardinality(stay) = D!Cardinality(db.log \ stay)
      BY <2>1, <2>3, LostAre, SizesOfAdmin
    <2> QED BY <2>2, <2>3, <2>4
  <1>10. D!FoldSet(LAMBDA u, s : D!RelationsOf(db, u, s), [seen |-> {}, count |-> 0], S) = Counted(LinksOf(db, S))
    <2>1. S \subseteq D!Row
      BY DEF D!Row
    <2>2. IsFiniteSet(S)
      BY <1>6, <2>1, FS_Subset
    <2> QED BY <1>1, <1>8, <2>2, UsersAreCounted
  <1>11. D!DeletionGraph(db, S) =
           [users |-> D!Cardinality(S),
            tags |-> D!Cardinality(UNION {D!Of(db, Tag, u) : u \in S}),
            relations |-> D!Cardinality(LinksOf(db, S)),
            bookmarks |-> D!Cardinality(UNION {D!Of(db, AdminBookmark, u) : u \in S}),
            assets |-> D!Cardinality(UNION {D!UserAssets(db, u) : u \in S}),
            items |-> D!Cardinality(UNION {D!Of(db, AdminItem, u) : u \in S}),
            entries |-> D!Cardinality({f \in db.log : f.by \in S})]
    <2>1. Counted(LinksOf(db, S)).count = D!Cardinality(LinksOf(db, S))
      BY SizesOfAdmin DEF Counted
    <2> QED BY <1>10, <2>1, Zenon DEF D!DeletionGraph
  <1>12. /\ D!Cardinality(User \cap D!Ids(db)) - D!Cardinality(User \cap D!Ids(e)) = D!Cardinality(S)
         /\ D!Cardinality(Tag \cap D!Ids(db)) - D!Cardinality(Tag \cap D!Ids(e)) = D!Cardinality(UNION {D!Of(db, Tag, u) : u \in S})
         /\ D!Cardinality(AdminBookmark \cap D!Ids(db)) - D!Cardinality(AdminBookmark \cap D!Ids(e))
              = D!Cardinality(UNION {D!Of(db, AdminBookmark, u) : u \in S})
         /\ D!Cardinality(AdminItem \cap D!Ids(db)) - D!Cardinality(AdminItem \cap D!Ids(e))
              = D!Cardinality(UNION {D!Of(db, AdminItem, u) : u \in S})
         /\ D!Cardinality(Asset \cap D!Ids(db)) - D!Cardinality(Asset \cap D!Ids(e))
              = D!Cardinality(UNION {D!UserAssets(db, u) : u \in S})
    BY <1>5, <1>7, Zenon
  <1> QED BY <1>8, <1>9, <1>11, <1>12, Zenon

\* What the page shows to be confirmed is what the deletion removes, each relation
\* counted once (admin_user_deletion_graph.go).
THEOREM GraphIsTheDeletion == ASSUME D!AdminAssumption PROVE D!Spec => []D!GraphIsDeletion
  <1>1. AdminInv => D!GraphIsDeletion
    <2> SUFFICES ASSUME AdminInv, NEW S \in SUBSET (User \cap D!Ids(db)),
                        NEW e, e = D!UsersDeleted([db EXCEPT !.log = {}], Null, S)
                 PROVE  D!DeletionGraph(db, S) =
           [users |-> D!Cardinality(User \cap D!Ids(db)) - D!Cardinality(User \cap D!Ids(e)),
            tags |-> D!Cardinality(Tag \cap D!Ids(db)) - D!Cardinality(Tag \cap D!Ids(e)),
            bookmarks |-> D!Cardinality(AdminBookmark \cap D!Ids(db)) - D!Cardinality(AdminBookmark \cap D!Ids(e)),
            assets |-> D!Cardinality(Asset \cap D!Ids(db)) - D!Cardinality(Asset \cap D!Ids(e)),
            items |-> D!Cardinality(AdminItem \cap D!Ids(db)) - D!Cardinality(AdminItem \cap D!Ids(e)),
            entries |-> D!Cardinality(db.log) - D!Cardinality({f \in db.log : f.by \notin S}),
            relations |-> D!Cardinality(db.links) - D!Cardinality(e.links)]
      BY Zenon DEF D!GraphIsDeletion
    <2> QED BY GraphIs
  <1> QED BY <1>1, AdminInvHolds, PTL
===============================================================================
