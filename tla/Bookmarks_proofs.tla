-------------------------- MODULE Bookmarks_proofs --------------------------
(***************************************************************************)
(* Proofs about Bookmarks, for every number of bookmarks, tags, URLs and    *)
(* concurrent requests.  What row and link locks alone guarantee holds on   *)
(* both engines; what needs the write lock of a transaction is proved under *)
(* Sqlite.                                                                  *)
(***************************************************************************)
EXTENDS BookmarksRefines, WellFoundedInduction, NaturalsInduction, TLAPS

-----------------------------------------------------------------------------
(***************************************************************************)
(* The inductive invariant of both engines.                                 *)
(***************************************************************************)
Savers == {"create", "form", "rest"}

Places == {"idle", "save", "edit", "tags", "clear", "clearing", "attach", "each",
           "touch", "drop", "insert", "rename", "resolve", "begin", "copy", "commit"}

Call == [kind : Kinds \cup {"none"}, at : Places, b : Nat, t : Nat,
         url : URL \cup {""}, row : Row \cup {None},
         given : SUBSET (Fields \cup {"new"}), names : SUBSET Name,
         ids : SUBSET Nat, seen : SUBSET Link]

Partial(S, T) == UNION {[D -> T] : D \in SUBSET S}

Change == [bookmark : Partial(Bookmark, Row \cup {None}),
           tag : Partial(Tag, Name \cup {NoTag}),
           add : SUBSET Link, del : SUBSET Link,
           job : SUBSET (Bookmark \X JobKind), locks : SUBSET Bookmark]

Types ==
  /\ bookmark \in [Bookmark -> Row \cup {None}]
  /\ tag \in [Tag -> Name \cup {NoTag}]
  /\ link \subseteq Link /\ job \subseteq Bookmark \X JobKind
  /\ serial \in [bookmark : Nat, tag : Nat]
  /\ call \in [Request -> Call] /\ patch \in [Request -> Change]

\* Where a call of each kind can be, and what its locals stand for.
Where(c) ==
  /\ c.kind = "none" => c.at = "idle"
  /\ c.kind = "create" => c.at \in {"save", "clear", "clearing", "attach", "commit"}
  /\ c.kind \in {"form", "rest"} =>
       c.at \in {"edit", "tags", "clear", "clearing", "attach", "commit"}
  /\ c.kind \in {"delete", "droptag"} => c.at \in {"clear", "clearing", "drop", "commit"}
  /\ c.kind = "merge" =>
       c.at \in {"resolve", "begin", "copy", "clear", "clearing", "drop", "commit"}
  /\ c.kind \in {"tag", "untag"} => c.at \in {"each", "touch", "commit"}
  /\ c.kind = "newtag" => c.at = "insert"
  /\ c.kind = "rename" => c.at = "rename"
  /\ c.kind \notin {"state", "enhance"}

Locals(c) ==
  /\ c.kind \in Savers => c.url \in URL /\ (c.b \in Bookmark \/ (c.at = "save" /\ c.b = 0))
  /\ c.kind \in {"form", "rest"} => c.row \in Row /\ c.given \subseteq Fields
  /\ c.kind = "delete" => c.b \in Bookmark
  /\ c.kind = "droptag" => c.t \in Tag
  /\ c.kind \in {"delete", "droptag"} => c.ids = {}
  /\ c.kind = "merge" =>
       /\ c.b \in Tag /\ c.ids \subseteq Tag
       /\ c.at \in {"clear", "clearing", "drop"} => c.t \in Tag
       /\ c.at \in {"begin", "copy"} => c.ids # {}
  /\ c.kind \in {"tag", "untag"} =>
       c.t \in Tag /\ c.ids \subseteq Bookmark /\ (c.at = "touch" => c.b \in Bookmark)
  /\ c.kind = "rename" => c.t \in Tag

\* Nothing is uncommitted outside a transaction, nor before its first write; an
\* edit changes no tag before its row is written.
Clean(r) ==
  /\ call[r].at \in Outside \cup {"save"} => patch[r] = Patch
  /\ call[r].at \in {"edit", "tags"} =>
       patch[r].add = {} /\ patch[r].del = {} /\ DOMAIN patch[r].tag = {}

\* New ids are ahead of all that are in use.
Fresh ==
  /\ \A b \in Bookmark : b >= serial.bookmark => bookmark[b] = None
  /\ serial.bookmark > 0
  /\ \A r \in Request :
       /\ \A b \in patch[r].locks : b < serial.bookmark
       /\ call[r].kind # "merge" => call[r].b < serial.bookmark

\* A row is written under its lock, and no two requests hold one.
RowLocks ==
  /\ \A r \in Request :
       /\ DOMAIN patch[r].bookmark \subseteq patch[r].locks
       /\ call[r].kind \in {"form", "rest", "delete"} => call[r].b \in patch[r].locks
  /\ \A q, r \in Request : q # r => patch[q].locks \cap patch[r].locks = {}

\* Links that a request adds or deletes are nobody else's business, and links
\* lead from bookmarks to tags.
Links4(r) == patch[r].add \cup patch[r].del
LinkLocks ==
  /\ \A r \in Request : patch[r].del \subseteq link
  /\ \A q, r \in Request : q # r => Links4(q) \cap Links4(r) = {}
  /\ \A l \in link : bookmark[l[1]] # None /\ tag[l[2]] # NoTag

\* The fields that a request leaves out are as they were committed last: at the
\* read because the row is locked with it, and from then on because of the lock.
Keeps(r) ==
  LET c == call[r] IN
  /\ c.kind \in Savers /\ c.b \in Bookmark /\ bookmark[c.b] # None =>
       /\ "archived" \notin c.given => Rows(r)[c.b].archived = bookmark[c.b].archived
       /\ c.kind = "rest" /\ "title" \notin c.given => Rows(r)[c.b].title = bookmark[c.b].title
  /\ c.at = "edit" => c.row = bookmark[c.b]

BaseInv ==
  /\ Types /\ Fresh /\ RowLocks /\ LinkLocks
  /\ \A r \in Request : Where(call[r]) /\ Locals(call[r]) /\ Clean(r) /\ Keeps(r)

-----------------------------------------------------------------------------
(***************************************************************************)
(* The inductive invariant on SQLite.                                       *)
(***************************************************************************)
Sqlite == Engine = "sqlite"

\* Edits of the API compare the exact URL when they give one.
FormURLsOnly == \A given \in RestFields : "url" \notin given

Alone == \A q, r \in Request : InTx(q) /\ InTx(r) => q = r

Unique(rows) == \A b, c \in Bookmark :
  rows[b] # None /\ rows[c] # None /\ Norm[rows[b].url] = Norm[rows[c].url] => b = c

\* The URL a request is about to write is no other bookmark's.
URLOnce(r) ==
  LET c == call[r] IN
  /\ Unique(Rows(r))
  /\ c.at = "save" /\ c.b = 0 => Same(r, c.url) = {}
  /\ c.at = "edit" /\ "url" \notin c.given => c.url = Rows(r)[c.b].url
  /\ c.kind = "rest" => "url" \notin c.given

\* The row that a request saves is there, and a new one gets its jobs.
JobsOnce(r) ==
  LET c == call[r] IN
  /\ c.kind \in Savers /\ c.b # 0 => Rows(r)[c.b] # None
  /\ patch[r].job \subseteq {c.b} \X JobKind
  /\ patch[r].job # {} => c.kind \in Savers
  /\ \A b \in Bookmark : bookmark[b] = None /\ Rows(r)[b] # None =>
       /\ b = c.b /\ c.kind = "create" /\ "new" \in c.given
       /\ c.at = "commit" => {b} \X JobKind \subseteq patch[r].job

\* A tag that a request creates is the only one of its name.
TagOnce(r) ==
  /\ \A t \in Tag : t >= serial.tag => Tags(r)[t] = NoTag
  /\ \A s, t \in Tag : tag[t] = NoTag /\ Tags(r)[t] # NoTag /\ Tags(r)[s] = Tags(r)[t] => s = t

\* An edit without tags has the parts of the old ones among those it has attached and those
\* it is yet to attach.
OldNames(b) == {tag[l[2]] : l \in {k \in link : k[1] = b}}
TagsKept(r) ==
  LET c == call[r] IN
  c.kind = "rest" =>
    /\ \A t \in Tag : tag[t] # NoTag => Tags(r)[t] = tag[t]
    /\ c.at \in {"edit", "tags"} => Links(r) = link
    /\ "names" \notin c.given =>
         /\ c.at \in {"clear", "clearing"} => Parsed(OldNames(c.b)) \subseteq c.names
         /\ c.at \in {"attach", "commit"} =>
              Parsed(OldNames(c.b)) \subseteq c.names \cup NamesOf(r, c.b)
         /\ c.at = "commit" => c.names = {}

\* A merge has taken no bookmark out of the target tag, and those that it takes
\* out of another tag have the target already.
Merged(r) ==
  LET c == call[r] IN
  c.kind = "merge" =>
    /\ \A l \in link : l \in Links(r) \/ <<l[1], c.b>> \in Links(r)
    /\ c.at \in {"clear", "clearing", "drop"} => c.t # c.b
    /\ c.at \in {"clear", "clearing"} =>
         \A l \in Links(r) : l[2] = c.t => <<l[1], c.b>> \in Links(r)
    /\ c.at = "clearing" => \A l \in c.seen : l[2] = c.t

MergeTarget(c) == c.kind = "merge" => c.b \notin c.ids

Mine(r) ==
  /\ JobsOnce(r) /\ TagOnce(r) /\ TagsKept(r) /\ Merged(r)
  /\ FormURLsOnly => URLOnce(r)

SqliteInv ==
  /\ Alone
  /\ FormURLsOnly => Unique(bookmark)
  /\ \A t \in Tag : t >= serial.tag => tag[t] = NoTag
  /\ \A r \in Request : MergeTarget(call[r]) /\ (InTx(r) => Mine(r))

-----------------------------------------------------------------------------
(***************************************************************************)
(* Lemmas about the operators.                                              *)
(***************************************************************************)
\* Joining names and parsing them again gives names, and more names give more.
LEMMA ParsedNames ==
  ASSUME NEW names \in SUBSET Name
  PROVE  /\ Parsed(names) \in SUBSET Name
         /\ \A less \in SUBSET names : Parsed(less) \subseteq Parsed(names)
         /\ \A url \in URL : names \cup AutoTags[url] \in SUBSET Name
  <1>1. \A n \in names : Parts[n] \in SUBSET Name
    BY BookmarksAssumption DEF BookmarksAssumption
  <1>2. Parsed(names) \in SUBSET Name
    BY <1>1 DEF Parsed
  <1>3. \A less \in SUBSET names : Parsed(less) \subseteq Parsed(names)
    BY DEF Parsed
  <1>4. \A url \in URL : names \cup AutoTags[url] \in SUBSET Name
    BY BookmarksAssumption DEF BookmarksAssumption
  <1> QED BY <1>2, <1>3, <1>4

\* Put adds or replaces one value of a partial function.
LEMMA PutType ==
  ASSUME NEW S, NEW T, NEW f \in Partial(S, T), NEW x \in S, NEW y \in T
  PROVE  Put(f, x, y) \in Partial(S, T) /\ DOMAIN Put(f, x, y) = DOMAIN f \cup {x}
  <1>1. PICK D \in SUBSET S : f \in [D -> T]
    BY DEF Partial
  <1>2. Put(f, x, y) \in [D \cup {x} -> T]
    BY <1>1 DEF Put
  <1> QED BY <1>1, <1>2 DEF Partial

\* A table with uncommitted changes is a table.
LEMMA OverType ==
  ASSUME NEW S, NEW T, NEW f \in [S -> T], NEW g \in Partial(S, T)
  PROVE  Over(g, f) \in [S -> T]
  <1>1. PICK D \in SUBSET S : g \in [D -> T]
    BY DEF Partial
  <1> QED BY <1>1 DEF Over

\* A further change is seen over the earlier ones, and nothing else changes.
LEMMA OverPut ==
  ASSUME NEW S, NEW T, NEW f \in [S -> T], NEW g \in Partial(S, T), NEW x \in S, NEW y
  PROVE  /\ Over(Put(g, x, y), f)[x] = y
         /\ \A z \in S \ {x} : Over(Put(g, x, y), f)[z] = Over(g, f)[z]
  BY DEF Over, Put

\* Without changes a table is as it was committed.
LEMMA OverNothing ==
  ASSUME NEW S, NEW T, NEW f \in [S -> T], NEW g, DOMAIN g = {}
  PROVE  Over(g, f) = f
  BY DEF Over

\* A row has a URL.
LEMMA NoneNoRow == None \notin Row
  BY BookmarksAssumption DEF None, Row, BookmarksAssumption

\* A set of ids that is not empty has a least one.
LEMMA LeastIn ==
  ASSUME NEW S \in SUBSET Nat, S # {}
  PROVE  Least(S) \in S /\ \A m \in S : Least(S) <= m
  <1>1. PICK n \in S : \A m \in S : ~(<<m, n>> \in OpToRel(<, Nat))
    BY NatLessThanWellFounded, WFMin
  <1>2. \A m \in S : ~(m < n)
    BY <1>1 DEF OpToRel
  <1>3. n \in Nat /\ \A m \in S : m \in Nat
    BY <1>1
  <1>4. \A m \in S : n <= m
    BY <1>2, <1>3
  <1> QED BY <1>1, <1>4 DEF Least

-----------------------------------------------------------------------------
(***************************************************************************)
(* What a request sees.                                                     *)
(***************************************************************************)
\* The tables with a request's own changes are well typed.
LEMMA SeenType ==
  ASSUME BaseInv, NEW r \in Request
  PROVE  /\ Rows(r) \in [Bookmark -> Row \cup {None}]
         /\ Tags(r) \in [Tag -> Name \cup {NoTag}]
         /\ Links(r) \subseteq Link
         /\ Found(r) \subseteq Bookmark
         /\ \A b \in Found(r) : Rows(r)[b] \in Row
         /\ patch[r] \in Change /\ call[r] \in Call
  <1>1. patch[r] \in Change /\ call[r] \in Call
    BY DEF BaseInv, Types
  <1>2. Rows(r) \in [Bookmark -> Row \cup {None}]
    BY <1>1, OverType DEF BaseInv, Types, Change, Rows
  <1>3. Tags(r) \in [Tag -> Name \cup {NoTag}]
    BY <1>1, OverType DEF BaseInv, Types, Change, Tags
  <1>4. Links(r) \subseteq Link
    BY <1>1 DEF BaseInv, Types, Change, Links
  <1> QED BY <1>1, <1>2, <1>3, <1>4 DEF Found

\* A request that has written nothing sees what is committed.
LEMMA SeenClean ==
  ASSUME BaseInv, NEW r \in Request, patch[r] = Patch
  PROVE  Rows(r) = bookmark /\ Tags(r) = tag /\ Links(r) = link
  <1>1. /\ bookmark \in [Bookmark -> Row \cup {None}]
        /\ tag \in [Tag -> Name \cup {NoTag}]
    BY DEF BaseInv, Types
  <1>2. /\ DOMAIN patch[r].bookmark = {} /\ DOMAIN patch[r].tag = {}
        /\ patch[r].add = {} /\ patch[r].del = {}
    BY DEF Patch
  <1>3. Rows(r) = bookmark
    BY <1>1, <1>2, OverNothing DEF Rows
  <1>4. Tags(r) = tag
    BY <1>1, <1>2, OverNothing DEF Tags
  <1> QED BY <1>2, <1>3, <1>4 DEF Links

\* A row that exists is known by an id handed out before, also to a request
\* that has not committed it.
LEMMA FoundOld ==
  ASSUME BaseInv, NEW r \in Request, NEW b \in Found(r)
  PROVE  b \in Bookmark /\ b < serial.bookmark
  <1>1. b \in Bookmark /\ Rows(r)[b] # None
    BY DEF Found
  <1>2. CASE b \in DOMAIN patch[r].bookmark
    BY <1>1, <1>2 DEF BaseInv, Fresh, RowLocks
  <1>3. CASE b \notin DOMAIN patch[r].bookmark
    <2>1. bookmark[b] # None
      <3>1. bookmark \in [Bookmark -> Row \cup {None}]
        BY DEF BaseInv, Types
      <3>2. Over(patch[r].bookmark, bookmark)[b] = bookmark[b]
        BY <1>1, <1>3, <3>1 DEF Over
      <3> QED BY <1>1, <3>2 DEF Rows
    <2>2. b \in Nat /\ serial.bookmark \in Nat
      BY <1>1, BookmarksAssumption DEF BaseInv, Types, BookmarksAssumption
    <2> QED BY <1>1, <2>1, <2>2 DEF BaseInv, Fresh
  <1> QED BY <1>2, <1>3

-----------------------------------------------------------------------------
(***************************************************************************)
(* Steps that commit nothing.                                               *)
(***************************************************************************)
\* Only request r moves, and the tables stay.
Moves(r) ==
  /\ UNCHANGED db
  /\ call' \in [Request -> Call] /\ patch' \in [Request -> Change]
  /\ serial' \in [bookmark : Nat, tag : Nat] /\ serial'.bookmark >= serial.bookmark
  /\ \A q \in Request \ {r} : call'[q] = call[q] /\ patch'[q] = patch[q]

\* What such a step has to see to.
Behaves(r) ==
  LET c == call'[r]  p == patch'[r] IN
  /\ Where(c) /\ Locals(c) /\ Clean(r)' /\ Keeps(r)'
  /\ \A b \in p.locks : b < serial'.bookmark
  /\ c.kind # "merge" => c.b < serial'.bookmark
  /\ DOMAIN p.bookmark \subseteq p.locks
  /\ c.kind \in {"form", "rest", "delete"} => c.b \in p.locks
  /\ p.del \subseteq link
  /\ \A q \in Request \ {r} :
       p.locks \cap patch[q].locks = {} /\ (p.add \cup p.del) \cap Links4(q) = {}

\* Keeping to that keeps the invariant: the others see no difference.
LEMMA MoveKeeps ==
  ASSUME BaseInv, NEW r \in Request, Moves(r), Behaves(r)
  PROVE  BaseInv'
  <1>1. Types'
    BY DEF BaseInv, Types, Moves, db
  <1>2. Fresh'
    <2>1. \A b \in Bookmark : b \in Nat
      BY BookmarksAssumption DEF BookmarksAssumption
    <2>2. serial.bookmark \in Nat /\ serial'.bookmark \in Nat /\ bookmark' = bookmark
      BY DEF BaseInv, Types, Moves, db
    <2>3. ASSUME NEW q \in Request
          PROVE  /\ \A b \in patch'[q].locks : b < serial'.bookmark
                 /\ call'[q].kind # "merge" => call'[q].b < serial'.bookmark
      <3>1. CASE q = r
        BY <3>1 DEF Behaves
      <3>2. CASE q # r
        <4>1. patch[q].locks \subseteq Nat /\ call[q].b \in Nat
          BY <2>1 DEF BaseInv, Types, Change, Call
        <4>2. /\ \A b \in patch[q].locks : b < serial.bookmark
              /\ call[q].kind # "merge" => call[q].b < serial.bookmark
          BY DEF BaseInv, Fresh
        <4> QED BY <2>2, <3>2, <4>1, <4>2 DEF Moves
      <3> QED BY <3>1, <3>2
    <2> QED BY <2>1, <2>2, <2>3 DEF BaseInv, Fresh, Moves
  <1>3. RowLocks'
    BY DEF BaseInv, RowLocks, Moves, Behaves
  <1>4. LinkLocks'
    <2>1. link' = link /\ bookmark' = bookmark /\ tag' = tag
      BY DEF Moves, db
    <2>2. \A q \in Request : patch'[q].del \subseteq link
      BY DEF BaseInv, LinkLocks, Moves, Behaves
    <2>3. \A q \in Request \ {r} : Links4(q)' = Links4(q)
      BY DEF Links4, Moves
    <2>4. \A q \in Request \ {r} : Links4(r)' \cap Links4(q) = {}
      BY DEF Behaves, Links4
    <2>5. \A p, q \in Request : p # q => Links4(p)' \cap Links4(q)' = {}
      BY <2>3, <2>4 DEF BaseInv, LinkLocks
    <2> QED BY <2>1, <2>2, <2>5 DEF BaseInv, LinkLocks
  <1>5. ASSUME NEW q \in Request
        PROVE  Where(call[q])' /\ Locals(call[q])' /\ Clean(q)' /\ Keeps(q)'
    <2>1. CASE q = r
      BY <2>1 DEF Behaves
    <2>2. CASE q # r
      <3>1. call'[q] = call[q] /\ patch'[q] = patch[q] /\ bookmark' = bookmark
        BY <2>2 DEF Moves, db
      <3>2. Rows(q)' = Rows(q)
        BY <3>1 DEF Rows
      <3> QED BY <3>1, <3>2 DEF BaseInv, Clean, Keeps
    <2> QED BY <2>1, <2>2
  <1> QED BY <1>1, <1>2, <1>3, <1>4, <1>5 DEF BaseInv

\* The two updates that such a step consists of.
LEMMA RequestMoves ==
  ASSUME BaseInv, NEW r \in Request, NEW c \in Call, NEW p \in Change,
         Goto(r, c), Writes(r, p), UNCHANGED db,
         serial' \in [bookmark : Nat, tag : Nat], serial'.bookmark >= serial.bookmark
  PROVE  Moves(r) /\ call'[r] = c /\ patch'[r] = p
  BY DEF BaseInv, Types, Moves, Goto, Writes

\* A step that only moves on within the code.
LEMMA CallMoves ==
  ASSUME BaseInv, NEW r \in Request, NEW c \in Call,
         Goto(r, c), UNCHANGED <<db, serial, patch>>
  PROVE  Moves(r) /\ call'[r] = c /\ patch' = patch /\ serial' = serial
  <1>1. serial' = serial /\ patch' = patch /\ UNCHANGED db /\ serial.bookmark \in Nat
    BY DEF BaseInv, Types
  <1> QED BY <1>1 DEF BaseInv, Types, Moves, Goto

\* The locals with which a call starts.
Local(kind, at, b, t, url, row, given, names, ids) ==
  [kind |-> kind, at |-> at, b |-> b, t |-> t, url |-> url, row |-> row,
   given |-> given, names |-> names, ids |-> ids, seen |-> {}]

\* Local makes locals.
LEMMA LocalType ==
  ASSUME NEW kind \in Kinds, NEW at \in Places, NEW b \in Nat, NEW t \in Nat,
         NEW url \in URL \cup {""}, NEW row \in Row \cup {None},
         NEW given \in SUBSET (Fields \cup {"new"}), NEW names \in SUBSET Name,
         NEW ids \in SUBSET Nat
  PROVE  Local(kind, at, b, t, url, row, given, names, ids) \in Call
  BY DEF Local, Call

\* The place tells the kind.
LEMMA KindOf ==
  ASSUME BaseInv, NEW r \in Request
  PROVE  LET c == call[r] IN
         /\ c.at = "idle" => c.kind = "none"
         /\ c.at = "save" => c.kind = "create"
         /\ c.at \in {"edit", "tags"} => c.kind \in {"form", "rest"}
         /\ c.at \in {"clear", "clearing"} => c.kind \in Savers \cup {"delete", "droptag", "merge"}
         /\ c.at = "attach" => c.kind \in Savers
         /\ c.at \in {"each", "touch"} => c.kind \in {"tag", "untag"}
         /\ c.at = "drop" => c.kind \in {"delete", "droptag", "merge"}
         /\ c.at \in {"resolve", "begin", "copy"} => c.kind = "merge"
         /\ c.at = "insert" => c.kind = "newtag"
         /\ c.at = "rename" => c.kind = "rename"
         /\ c.at = "commit" => c.kind \in Savers \cup {"delete", "droptag", "merge", "tag", "untag"}
  <1>1. call[r].kind \in {"none", "create", "form", "rest", "tag", "untag", "state",
                          "enhance", "delete", "newtag", "rename", "droptag", "merge"}
    BY BookmarksAssumption DEF BookmarksAssumption, BaseInv, Types, Call
  <1>2. Where(call[r])
    BY DEF BaseInv
  <1> QED BY <1>1, <1>2 DEF Where, Savers

\* A request's change with one more row written under its lock.
WithRow(p, b, row) == [p EXCEPT !.bookmark = Put(@, b, row), !.locks = @ \cup {b}]

\* The fields of a change that has written a row.
LEMMA WithRowType ==
  ASSUME NEW p \in Change, NEW b \in Bookmark, NEW row \in Row \cup {None}
  PROVE  /\ WithRow(p, b, row) \in Change
         /\ WithRow(p, b, row).bookmark = Put(p.bookmark, b, row)
         /\ DOMAIN WithRow(p, b, row).bookmark = DOMAIN p.bookmark \cup {b}
         /\ WithRow(p, b, row).locks = p.locks \cup {b}
         /\ WithRow(p, b, row).tag = p.tag /\ WithRow(p, b, row).job = p.job
         /\ WithRow(p, b, row).add = p.add /\ WithRow(p, b, row).del = p.del
  <1>1. /\ Put(p.bookmark, b, row) \in Partial(Bookmark, Row \cup {None})
        /\ DOMAIN Put(p.bookmark, b, row) = DOMAIN p.bookmark \cup {b}
    BY PutType DEF Change
  <1> QED BY <1>1 DEF WithRow, Change

\* What is seen of the rows then.
LEMMA RowSeen ==
  ASSUME BaseInv, NEW r \in Request, NEW b \in Bookmark, NEW row
  PROVE  LET seen == Over(Put(patch[r].bookmark, b, row), bookmark) IN
         seen[b] = row /\ \A c \in Bookmark \ {b} : seen[c] = Rows(r)[c]
  <1>1. /\ bookmark \in [Bookmark -> Row \cup {None}]
        /\ patch[r].bookmark \in Partial(Bookmark, Row \cup {None})
    BY DEF BaseInv, Types, Change
  <1> QED BY <1>1, OverPut DEF Rows

\* The locals move on to another place.
LEMMA MovedOn ==
  ASSUME NEW c \in Call, NEW at \in Places, NEW names \in SUBSET Name
  PROVE  [c EXCEPT !.at = at, !.names = names] \in Call
  BY DEF Call

\* existingURLLookup: the locals are a new URL, or a row that exists.
LEMMA LookupStep ==
  ASSUME BaseInv, NEW r \in Request, Lookup(r)
  PROVE  /\ Moves(r) /\ patch' = patch /\ serial' = serial
         /\ call[r].at = "idle" /\ Turn(r) /\ patch[r] = Patch
         /\ call'[r].kind = "create" /\ call'[r].at = "save" /\ call'[r].given = {}
         /\ call'[r].url \in URL
         /\ \/ call'[r].b = 0 /\ Same(r, call'[r].url) = {}
            \/ call'[r].b \in Found(r)
  <1>1. PICK url \in URL, names \in SUBSET Name :
          /\ Begins(r, "create")
          /\ LET same == Same(r, url)
                 b == IF same = {} THEN 0 ELSE Least(same)
             IN Goto(r, [Idle EXCEPT !.kind = "create", !.at = "save", !.b = b, !.names = names,
                                     !.url = IF b = 0 THEN url ELSE Rows(r)[b].url])
          /\ UNCHANGED <<db, serial, patch>>
    BY DEF Lookup, Plain
  <1>2. PICK b \in Nat : /\ b = IF Same(r, url) = {} THEN 0 ELSE Least(Same(r, url))
                         /\ b = 0 => Same(r, url) = {}
                         /\ b # 0 => b \in Found(r)
    <2>1. Same(r, url) \subseteq Found(r) /\ Found(r) \subseteq Nat \ {0}
      BY SeenType, BookmarksAssumption DEF Same, BookmarksAssumption
    <2>2. Same(r, url) # {} => Least(Same(r, url)) \in Same(r, url)
      BY <2>1, LeastIn
    <2> QED BY <2>1, <2>2
  <1>3. PICK u \in URL : u = IF b = 0 THEN url ELSE Rows(r)[b].url
    BY <1>2, SeenType DEF Row
  <1>4. PICK c : c = [Idle EXCEPT !.kind = "create", !.at = "save", !.b = b,
                                  !.names = names, !.url = u]
    OBVIOUS
  <1>5. c = Local("create", "save", b, 0, u, None, {}, names, {})
    BY <1>4 DEF Idle, Local
  <1>6. c \in Call
    <2>1. "create" \in Kinds /\ "save" \in Places
      BY <1>1 DEF Begins, Places
    <2>2. Local("create", "save", b, 0, u, None, {}, names, {}) \in Call
      BY <2>1, LocalType
    <2> QED BY <1>5, <2>2
  <1>7. c.kind = "create" /\ c.at = "save" /\ c.given = {} /\ c.url = u /\ c.b = b
    BY <1>4 DEF Idle
  <1>8. Goto(r, c) /\ UNCHANGED <<db, serial, patch>>
    BY <1>1, <1>2, <1>3, <1>4, Zenon
  <1>9. Moves(r) /\ call'[r] = c /\ patch' = patch /\ serial' = serial
    BY <1>6, <1>8, CallMoves
  <1>10. call[r].at = "idle" /\ Turn(r)
    BY <1>1 DEF Begins
  <1>11. patch[r] = Patch
    BY <1>10 DEF BaseInv, Clean, Outside
  <1>12. b = 0 => u = url /\ Same(r, u) = {}
    BY <1>2, <1>3
  <1> QED BY <1>2, <1>7, <1>9, <1>10, <1>11, <1>12

\* Lookup keeps the base invariant.
LEMMA LookupKeeps ==
  ASSUME BaseInv, NEW r \in Request, Lookup(r)
  PROVE  BaseInv'
  <1>1. /\ Moves(r) /\ patch' = patch /\ serial' = serial /\ patch[r] = Patch
        /\ call'[r].kind = "create" /\ call'[r].at = "save" /\ call'[r].given = {}
        /\ call'[r].url \in URL /\ (call'[r].b = 0 \/ call'[r].b \in Found(r))
    BY LookupStep
  <1>2. Rows(r)' = bookmark /\ bookmark' = bookmark
    BY <1>1, SeenClean DEF Rows, Moves, db
  <1>3. Where(call'[r]) /\ Locals(call'[r]) /\ Clean(r)' /\ Keeps(r)'
    BY <1>1, <1>2, FoundOld DEF Where, Locals, Clean, Keeps, Savers
  <1>4. call'[r].b < serial.bookmark
    BY <1>1, FoundOld DEF BaseInv, Fresh
  <1>5. patch[r].locks = {} /\ DOMAIN patch[r].bookmark = {} /\ patch[r].add = {}
        /\ patch[r].del = {}
    BY <1>1 DEF Patch
  <1>6. Behaves(r)
    BY <1>1, <1>3, <1>4, <1>5 DEF Behaves
  <1> QED BY <1>1, <1>6, MoveKeeps

\* insert: a new id, ahead of all rows and locks.
LEMMA InsertRowStep ==
  ASSUME BaseInv, NEW r \in Request, InsertRow(r)
  PROVE  /\ Moves(r) /\ serial'.bookmark = serial.bookmark + 1 /\ serial'.tag = serial.tag
         /\ serial.bookmark \in Bookmark
         /\ call[r].at = "save" /\ call[r].kind = "create" /\ call[r].b = 0
         /\ patch[r] = Patch
         /\ call'[r].at = "clear" /\ call'[r].kind = "create"
         /\ call'[r].b = serial.bookmark /\ call'[r].given = {"new"}
         /\ call'[r].url = call[r].url /\ call[r].url \in URL
         /\ \E row \in Row : /\ row.url = call[r].url
                             /\ patch'[r] = WithRow(patch[r], serial.bookmark, row)
  <1>1. /\ call[r].at = "save" /\ call[r].b = 0 /\ serial.bookmark \in Bookmark
        /\ patch[r] \in Change /\ call[r] \in Call
    BY SeenType DEF InsertRow, At
  <1>2. call[r].kind = "create" /\ patch[r] = Patch /\ call[r].url \in URL
    BY <1>1, KindOf DEF BaseInv, Clean, Locals, Savers
  <1>3. PICK row : row = [url |-> call[r].url, title |-> "given", archived |-> FALSE]
    OBVIOUS
  <1>13. row \in Row /\ row.url = call[r].url
    BY <1>2, <1>3 DEF Row
  <1>4. Parsed(call[r].names \cup AutoTags[call[r].url]) \in SUBSET Name
    <2>1. call[r].names \in SUBSET Name
      BY <1>1 DEF Call
    <2> QED BY <1>2, <2>1, ParsedNames
  <1>5. PICK c : c = [call[r] EXCEPT !.at = "clear", !.b = serial.bookmark, !.given = {"new"},
                                     !.names = Parsed(@ \cup AutoTags[call[r].url])]
    OBVIOUS
  <1>6. c \in Call
    <2>1. PICK d : d = [call[r] EXCEPT !.at = "clear", !.b = serial.bookmark]
      OBVIOUS
    <2>2. d \in Call /\ d.names = call[r].names
      BY <1>1, <2>1, BookmarksAssumption DEF Call, Places, BookmarksAssumption
    <2>3. PICK e : e = [d EXCEPT !.given = {"new"}, !.names = Parsed(@ \cup AutoTags[call[r].url])]
      OBVIOUS
    <2>4. e \in Call
      BY <1>4, <2>2, <2>3 DEF Call
    <2>5. c = e
      BY <1>1, <1>5, <2>1, <2>3 DEF Call
    <2> QED BY <2>4, <2>5
  <1>7. /\ c.at = "clear" /\ c.kind = "create" /\ c.b = serial.bookmark /\ c.given = {"new"}
        /\ c.url = call[r].url
    BY <1>1, <1>2, <1>5 DEF Call
  <1>8. Goto(r, c) /\ Writes(r, WithRow(patch[r], serial.bookmark, row)) /\ UNCHANGED db
    BY <1>3, <1>5 DEF InsertRow, WithRow
  <1>9. /\ serial' \in [bookmark : Nat, tag : Nat]
        /\ serial'.bookmark = serial.bookmark + 1 /\ serial'.tag = serial.tag
        /\ serial'.bookmark >= serial.bookmark
    BY DEF InsertRow, BaseInv, Types
  <1>10. WithRow(patch[r], serial.bookmark, row) \in Change
    BY <1>1, <1>13, WithRowType
  <1>11. Moves(r) /\ call'[r] = c /\ patch'[r] = WithRow(patch[r], serial.bookmark, row)
    BY <1>6, <1>8, <1>9, <1>10, RequestMoves
  <1> QED BY <1>1, <1>2, <1>7, <1>9, <1>11, <1>13

\* InsertRow keeps the base invariant.
LEMMA InsertRowKeeps ==
  ASSUME BaseInv, NEW r \in Request, InsertRow(r)
  PROVE  BaseInv'
  <1> DEFINE b == serial.bookmark
  <1>1. PICK row \in Row : patch'[r] = WithRow(patch[r], b, row)
    BY InsertRowStep
  <1>2. /\ Moves(r) /\ serial'.bookmark = b + 1 /\ b \in Bookmark /\ patch[r] = Patch
        /\ call'[r].at = "clear" /\ call'[r].kind = "create"
        /\ call'[r].b = b /\ call'[r].url \in URL
    BY InsertRowStep
  <1>3. /\ patch'[r].locks = {b} /\ DOMAIN patch'[r].bookmark = {b}
        /\ patch'[r].add = {} /\ patch'[r].del = {}
    <2>1. patch[r] \in Change
      BY SeenType
    <2> QED BY <1>1, <1>2, <2>1, WithRowType DEF Patch
  <1>4. b \in Nat /\ b < serial'.bookmark
    BY <1>2 DEF BaseInv, Types
  <1>5. bookmark'[b] = None
    BY <1>2, <1>4 DEF BaseInv, Fresh, Moves, db
  <1>6. Where(call'[r]) /\ Locals(call'[r]) /\ Clean(r)' /\ Keeps(r)'
    BY <1>2, <1>5 DEF Where, Locals, Clean, Keeps, Savers, Outside
  <1>7. ASSUME NEW q \in Request PROVE b \notin patch[q].locks
    BY <1>4 DEF BaseInv, Fresh
  <1>8. Behaves(r)
    BY <1>2, <1>3, <1>4, <1>6, <1>7 DEF Behaves
  <1> QED BY <1>2, <1>8, MoveKeeps

\* updateExisting: the row keeps what the call does not give.
LEMMA MergeRowStep ==
  ASSUME BaseInv, NEW r \in Request, MergeIntoRow(r)
  PROVE  /\ Moves(r) /\ serial' = serial
         /\ call[r].at = "save" /\ call[r].kind = "create" /\ patch[r] = Patch
         /\ call[r].b \in Bookmark /\ call[r].url \in URL /\ FreeRow(r, call[r].b)
         /\ call'[r].at = "clear" /\ call'[r].kind = "create" /\ call'[r].b = call[r].b
         /\ call'[r].given = call[r].given /\ call'[r].url = call[r].url
         /\ call[r].b \in Found(r) =>
              \E row \in Row :
                /\ row.url = Rows(r)[call[r].b].url
                /\ row.archived = Rows(r)[call[r].b].archived
                /\ patch'[r] = WithRow(patch[r], call[r].b, row)
         /\ call[r].b \notin Found(r) => patch'[r] = patch[r]
  <1>1. /\ call[r].at = "save" /\ call[r].b # 0 /\ FreeRow(r, call[r].b)
        /\ patch[r] \in Change /\ call[r] \in Call
    BY SeenType DEF MergeIntoRow, At
  <1>2. /\ call[r].kind = "create" /\ patch[r] = Patch /\ call[r].url \in URL
        /\ call[r].b \in Bookmark
    BY <1>1, KindOf DEF BaseInv, Clean, Locals, Savers
  <1>3. Parsed(call[r].names \cup AutoTags[call[r].url]) \in SUBSET Name
    <2>1. call[r].names \in SUBSET Name
      BY <1>1 DEF Call
    <2> QED BY <1>2, <2>1, ParsedNames
  <1>4. PICK c : c = [call[r] EXCEPT !.at = "clear", !.names = Parsed(@ \cup AutoTags[call[r].url])]
    OBVIOUS
  <1>5. c \in Call
    BY <1>1, <1>3, <1>4 DEF Call, Places
  <1>6. /\ c.at = "clear" /\ c.kind = "create" /\ c.b = call[r].b /\ c.given = call[r].given
        /\ c.url = call[r].url
    BY <1>1, <1>2, <1>4 DEF Call
  <1>7. Goto(r, c) /\ UNCHANGED <<db, serial>>
    BY <1>4 DEF MergeIntoRow
  <1>8. CASE call[r].b \notin Found(r)
    <2>1. UNCHANGED patch
      BY <1>8 DEF MergeIntoRow
    <2>2. Moves(r) /\ call'[r] = c /\ patch' = patch /\ serial' = serial
      BY <1>5, <1>7, <2>1, CallMoves
    <2> QED BY <1>1, <1>2, <1>6, <1>8, <2>2
  <1>9. CASE call[r].b \in Found(r)
    <2>1. PICK row : row = [Rows(r)[call[r].b] EXCEPT !.title = "given"]
      OBVIOUS
    <2>2. /\ row \in Row /\ row.url = Rows(r)[call[r].b].url
          /\ row.archived = Rows(r)[call[r].b].archived
      <3>1. Rows(r)[call[r].b] \in Row
        BY <1>9, SeenType
      <3> QED BY <2>1, <3>1 DEF Row
    <2>3. Writes(r, WithRow(patch[r], call[r].b, row))
      BY <1>9, <2>1 DEF MergeIntoRow, WithRow
    <2>4. WithRow(patch[r], call[r].b, row) \in Change
      BY <1>1, <1>2, <2>2, WithRowType
    <2>5. UNCHANGED db /\ serial' = serial /\ serial \in [bookmark : Nat, tag : Nat]
      BY <1>7 DEF BaseInv, Types
    <2>6. /\ Moves(r) /\ call'[r] = c
          /\ patch'[r] = WithRow(patch[r], call[r].b, row)
      <3>1. serial' \in [bookmark : Nat, tag : Nat] /\ serial'.bookmark >= serial.bookmark
        BY <2>5
      <3> QED BY <1>5, <1>7, <2>3, <2>4, <2>5, <3>1, RequestMoves
    <2> QED BY <1>1, <1>2, <1>6, <1>9, <2>2, <2>5, <2>6
  <1> QED BY <1>8, <1>9

\* MergeIntoRow keeps the base invariant.
LEMMA MergeRowKeeps ==
  ASSUME BaseInv, NEW r \in Request, MergeIntoRow(r)
  PROVE  BaseInv'
  <1> DEFINE b == call[r].b
  <1>1. /\ Moves(r) /\ serial' = serial /\ b \in Bookmark /\ patch[r] = Patch /\ FreeRow(r, b)
        /\ call'[r].at = "clear" /\ call'[r].kind = "create"
        /\ call'[r].b = b /\ call'[r].url \in URL /\ call[r].kind = "create"
    BY MergeRowStep
  <1>2. bookmark' = bookmark /\ Rows(r) = bookmark
    BY <1>1, SeenClean DEF Moves, db
  <1>3. /\ patch[r].locks = {} /\ DOMAIN patch[r].bookmark = {}
        /\ patch[r].add = {} /\ patch[r].del = {} /\ patch[r] \in Change
    BY <1>1, SeenType DEF Patch
  <1>4. /\ patch'[r].locks \subseteq {b} /\ DOMAIN patch'[r].bookmark \subseteq patch'[r].locks
        /\ patch'[r].add = {} /\ patch'[r].del = {}
        /\ bookmark[b] # None => Rows(r)'[b].archived = bookmark[b].archived
    <2>1. CASE b \in Found(r)
      <3>1. PICK row \in Row : /\ row.archived = Rows(r)[b].archived
                               /\ patch'[r] = WithRow(patch[r], b, row)
        BY <2>1, MergeRowStep
      <3>2. /\ patch'[r].bookmark = Put(patch[r].bookmark, b, row)
            /\ DOMAIN patch'[r].bookmark = {b} /\ patch'[r].locks = {b}
            /\ patch'[r].add = {} /\ patch'[r].del = {}
        BY <1>1, <1>3, <3>1, WithRowType
      <3>3. Rows(r)'[b] = row
        BY <1>1, <1>2, <3>2, RowSeen DEF Rows
      <3> QED BY <1>2, <3>1, <3>2, <3>3
    <2>2. CASE b \notin Found(r)
      <3>1. patch'[r] = patch[r]
        BY <2>2, MergeRowStep
      <3>2. Rows(r)' = bookmark
        BY <1>2, <3>1 DEF Rows
      <3> QED BY <1>3, <3>1, <3>2
    <2> QED BY <2>1, <2>2
  <1>5. b < serial'.bookmark
    BY <1>1 DEF BaseInv, Fresh
  <1>6. Where(call'[r]) /\ Locals(call'[r]) /\ Clean(r)' /\ Keeps(r)'
    BY <1>1, <1>2, <1>4 DEF Where, Locals, Clean, Keeps, Savers, Outside
  <1>7. \A q \in Request \ {r} : b \notin patch[q].locks
    BY <1>1 DEF FreeRow, Others
  <1>8. Behaves(r)
    BY <1>1, <1>4, <1>5, <1>6, <1>7 DEF Behaves
  <1> QED BY <1>1, <1>8, MoveKeeps

\* A step that writes no row and keeps the row that its call is about.
LEMMA RowsKept ==
  ASSUME BaseInv, NEW r \in Request, Moves(r),
         patch'[r].bookmark = patch[r].bookmark, patch'[r].locks = patch[r].locks,
         call'[r].kind = call[r].kind, call'[r].b = call[r].b,
         call'[r].given = call[r].given, call'[r].at \notin {"edit", "tags"},
         Where(call'[r]), Locals(call'[r]),
         call'[r].at \in Outside \cup {"save"} => patch'[r] = Patch,
         patch'[r].del \subseteq link,
         \A q \in Request \ {r} : (patch'[r].add \cup patch'[r].del) \cap Links4(q) = {}
  PROVE  BaseInv'
  <1>1. bookmark' = bookmark /\ Rows(r)' = Rows(r)
    BY DEF Moves, db, Rows
  <1>2. Keeps(r)'
    BY <1>1 DEF BaseInv, Keeps
  <1>3. /\ \A b \in patch'[r].locks : b < serial'.bookmark
        /\ call'[r].kind # "merge" => call'[r].b < serial'.bookmark
    <2>1. patch[r].locks \subseteq Nat /\ call[r].b \in Nat
          /\ serial.bookmark \in Nat /\ serial'.bookmark \in Nat
      BY SeenType, BookmarksAssumption
         DEF Change, Call, BaseInv, Types, Moves, BookmarksAssumption
    <2>2. /\ \A b \in patch[r].locks : b < serial.bookmark
          /\ call[r].kind # "merge" => call[r].b < serial.bookmark
      BY DEF BaseInv, Fresh
    <2> QED BY <2>1, <2>2 DEF Moves
  <1>4. Behaves(r)
    BY <1>2, <1>3 DEF BaseInv, RowLocks, Behaves, Clean
  <1> QED BY <1>4, MoveKeeps

-----------------------------------------------------------------------------
(***************************************************************************)
(* replaceTags and its get-or-create.                                       *)
(***************************************************************************)
\* What most steps leave alone in the locals.
Stays(c, d) ==
  d.kind = c.kind /\ d.b = c.b /\ d.url = c.url /\ d.row = c.row /\ d.given = c.given

\* DELETE starts: it takes what is committed.
LEMMA StartClearStep ==
  ASSUME BaseInv, NEW r \in Request, StartClear(r)
  PROVE  /\ Moves(r) /\ patch' = patch /\ serial' = serial
         /\ call[r].at = "clear" /\ call'[r].at = "clearing"
         /\ Stays(call[r], call'[r]) /\ call'[r].t = call[r].t
         /\ call'[r].names = call[r].names /\ call'[r].ids = call[r].ids
         /\ call'[r].seen = Doomed(r)
  <1>1. PICK c : c = [call[r] EXCEPT !.at = "clearing", !.seen = Doomed(r)]
    OBVIOUS
  <1>2. call[r] \in Call /\ Doomed(r) \subseteq Link
    BY SeenType DEF Doomed
  <1>3. c \in Call
    BY <1>1, <1>2 DEF Call, Places
  <1>4. /\ c.at = "clearing" /\ Stays(call[r], c) /\ c.t = call[r].t
        /\ c.names = call[r].names /\ c.ids = call[r].ids /\ c.seen = Doomed(r)
    BY <1>1, <1>2 DEF Call, Stays
  <1>5. Goto(r, c) /\ UNCHANGED <<db, serial, patch>> /\ call[r].at = "clear"
    BY <1>1 DEF StartClear, At
  <1>6. Moves(r) /\ call'[r] = c /\ patch' = patch /\ serial' = serial
    BY <1>3, <1>5, CallMoves
  <1> QED BY <1>4, <1>5, <1>6

\* StartClear keeps the base invariant.
LEMMA StartClearKeeps ==
  ASSUME BaseInv, NEW r \in Request, StartClear(r)
  PROVE  BaseInv'
  <1>1. /\ Moves(r) /\ patch' = patch /\ call[r].at = "clear" /\ call'[r].at = "clearing"
        /\ Stays(call[r], call'[r]) /\ call'[r].t = call[r].t /\ call'[r].ids = call[r].ids
    BY StartClearStep
  <1>2. Where(call[r]) /\ Locals(call[r])
    BY DEF BaseInv
  <1>3. Where(call'[r]) /\ Locals(call'[r])
    BY <1>1, <1>2 DEF Where, Locals, Stays
  <1>4. /\ patch[r].del \subseteq link
        /\ \A q \in Request \ {r} : (patch[r].add \cup patch[r].del) \cap Links4(q) = {}
    BY DEF BaseInv, LinkLocks, Links4
  <1> QED BY <1>1, <1>3, <1>4, RowsKept DEF Stays, Outside

\* DELETE ends: what it took is gone.
LEMMA ClearStep ==
  ASSUME BaseInv, NEW r \in Request, Clear(r)
  PROVE  /\ Moves(r) /\ serial' = serial
         /\ call[r].at = "clearing" /\ Stays(call[r], call'[r]) /\ call'[r].t = call[r].t
         /\ call'[r].names = call[r].names /\ call'[r].ids = call[r].ids
         /\ call'[r].at = IF call[r].kind \in Savers THEN "attach" ELSE "drop"
         /\ \A l \in call[r].seen : FreeLink(r, l)
         /\ patch'[r].bookmark = patch[r].bookmark /\ patch'[r].tag = patch[r].tag
         /\ patch'[r].job = patch[r].job /\ patch'[r].locks = patch[r].locks
         /\ patch'[r].add = patch[r].add \ call[r].seen
         /\ patch'[r].del = patch[r].del \cup (call[r].seen \cap link)
  <1> DEFINE seen == call[r].seen
             place == IF call[r].kind \in Savers THEN "attach" ELSE "drop"
  <1>1. call[r] \in Call /\ patch[r] \in Change /\ seen \subseteq Link
    BY SeenType DEF Call
  <1>2. PICK c : c = [call[r] EXCEPT !.seen = {}, !.at = place]
    OBVIOUS
  <1>3. c \in Call
    BY <1>1, <1>2 DEF Call, Places
  <1>4. /\ c.at = place /\ Stays(call[r], c) /\ c.t = call[r].t
        /\ c.names = call[r].names /\ c.ids = call[r].ids
    BY <1>1, <1>2 DEF Call, Stays
  <1>5. PICK p : p = [patch[r] EXCEPT !.add = @ \ seen, !.del = @ \cup (seen \cap link)]
    OBVIOUS
  <1>6. p \in Change
    BY <1>1, <1>5 DEF Change
  <1>7. /\ p.bookmark = patch[r].bookmark /\ p.tag = patch[r].tag
        /\ p.job = patch[r].job /\ p.locks = patch[r].locks
        /\ p.add = patch[r].add \ seen /\ p.del = patch[r].del \cup (seen \cap link)
    BY <1>1, <1>5 DEF Change
  <1>8. /\ Goto(r, c) /\ Writes(r, p) /\ UNCHANGED <<db, serial>> /\ call[r].at = "clearing"
        /\ \A l \in seen : FreeLink(r, l)
    BY <1>2, <1>5 DEF Clear, At, Savers
  <1>9. serial' \in [bookmark : Nat, tag : Nat] /\ serial'.bookmark >= serial.bookmark
    BY <1>8 DEF BaseInv, Types
  <1>10. Moves(r) /\ call'[r] = c /\ patch'[r] = p
    BY <1>3, <1>6, <1>8, <1>9, RequestMoves
  <1> QED BY <1>4, <1>7, <1>8, <1>10

\* Clear keeps the base invariant.
LEMMA ClearKeeps ==
  ASSUME BaseInv, NEW r \in Request, Clear(r)
  PROVE  BaseInv'
  <1>1. /\ Moves(r) /\ call[r].at = "clearing" /\ Stays(call[r], call'[r])
        /\ call'[r].t = call[r].t /\ call'[r].ids = call[r].ids
        /\ call'[r].at = IF call[r].kind \in Savers THEN "attach" ELSE "drop"
    BY ClearStep
  <1>2. /\ patch'[r].bookmark = patch[r].bookmark /\ patch'[r].locks = patch[r].locks
        /\ patch'[r].add = patch[r].add \ call[r].seen
        /\ patch'[r].del = patch[r].del \cup (call[r].seen \cap link)
        /\ \A l \in call[r].seen : FreeLink(r, l)
    BY ClearStep
  <1>3. /\ Where(call[r]) /\ Locals(call[r])
        /\ call[r].kind \in Savers \cup {"delete", "droptag", "merge"}
    BY <1>1, KindOf DEF BaseInv
  <1>4. Where(call'[r]) /\ Locals(call'[r])
    BY <1>1, <1>3 DEF Where, Locals, Stays, Savers
  <1>5. patch'[r].del \subseteq link
    BY <1>2 DEF BaseInv, LinkLocks
  <1>6. \A q \in Request \ {r} : (patch'[r].add \cup patch'[r].del) \cap Links4(q) = {}
    BY <1>2 DEF BaseInv, LinkLocks, Links4, FreeLink, Others
  <1> QED BY <1>1, <1>2, <1>4, <1>5, <1>6, RowsKept DEF Stays, Outside

\* Get or create.
LEMMA GetTag ==
  ASSUME BaseInv, NEW r \in Request, NEW n \in Name, TagFor(r, n) \in Tag, CountsTag(r, n)
  PROVE  /\ WithTag(r, n) \in Change
         /\ WithTag(r, n).bookmark = patch[r].bookmark /\ WithTag(r, n).locks = patch[r].locks
         /\ WithTag(r, n).add = patch[r].add /\ WithTag(r, n).del = patch[r].del
         /\ WithTag(r, n).job = patch[r].job
         /\ serial' \in [bookmark : Nat, tag : Nat] /\ serial'.bookmark = serial.bookmark
         /\ \/ /\ Named(r, n) = {} /\ TagFor(r, n) = serial.tag
               /\ WithTag(r, n).tag = Put(patch[r].tag, serial.tag, n)
               /\ serial'.tag = serial.tag + 1
            \/ /\ Named(r, n) # {} /\ TagFor(r, n) = Least(Named(r, n))
               /\ WithTag(r, n).tag = patch[r].tag /\ serial' = serial
  <1>1. patch[r] \in Change /\ serial \in [bookmark : Nat, tag : Nat]
    BY SeenType DEF BaseInv, Types
  <1>2. CASE Named(r, n) = {}
    <2>1. TagFor(r, n) = serial.tag /\ serial.tag \in Tag
      BY <1>2 DEF TagFor
    <2>2. Put(patch[r].tag, serial.tag, n) \in Partial(Tag, Name \cup {NoTag})
      BY <1>1, <2>1, PutType DEF Change
    <2>3. PICK p : p = [patch[r] EXCEPT !.tag = Put(@, serial.tag, n)]
      OBVIOUS
    <2>4. WithTag(r, n) = p
      BY <1>2, <2>3 DEF WithTag
    <2>5. p \in Change /\ p.bookmark = patch[r].bookmark /\ p.locks = patch[r].locks
          /\ p.add = patch[r].add /\ p.del = patch[r].del /\ p.job = patch[r].job
          /\ p.tag = Put(patch[r].tag, serial.tag, n)
      BY <1>1, <2>2, <2>3 DEF Change
    <2>6. serial' = [serial EXCEPT !.tag = @ + 1]
      BY <1>2 DEF CountsTag
    <2> QED BY <1>1, <1>2, <2>1, <2>4, <2>5, <2>6
  <1>3. CASE Named(r, n) # {}
    BY <1>1, <1>3 DEF TagFor, WithTag, CountsTag
  <1> QED BY <1>2, <1>3

\* One round of the loop.
LEMMA AttachStep ==
  ASSUME BaseInv, NEW r \in Request, Attach(r)
  PROVE  \E n \in call[r].names :
           LET l == <<call[r].b, TagFor(r, n)>> IN
           /\ n \in Name /\ TagFor(r, n) \in Tag /\ CountsTag(r, n)
           /\ Moves(r)
           /\ call[r].at = "attach" /\ call'[r].at = "attach" /\ Stays(call[r], call'[r])
           /\ call'[r].t = call[r].t /\ call'[r].ids = call[r].ids
           /\ call'[r].names = call[r].names \ {n}
           /\ l \in Link /\ l \notin Links(r) /\ FreeLink(r, l)
           /\ patch'[r].bookmark = patch[r].bookmark /\ patch'[r].locks = patch[r].locks
           /\ patch'[r].tag = WithTag(r, n).tag /\ patch'[r].job = patch[r].job
           /\ patch'[r].add = patch[r].add \cup {l} /\ patch'[r].del = patch[r].del
  <1>1. PICK n : n = CHOOSE m \in call[r].names : TRUE
    OBVIOUS
  <1>2. PICK l : l = <<call[r].b, TagFor(r, n)>>
    OBVIOUS
  <1>3. call[r].at = "attach" /\ call[r].names # {} /\ call[r] \in Call
    BY SeenType DEF Attach, At
  <1>4. n \in call[r].names /\ n \in Name
    BY <1>1, <1>3 DEF Call
  <1>5. /\ TagFor(r, n) \in Tag /\ CountsTag(r, n) /\ l \notin Links(r) /\ FreeLink(r, l)
        /\ Writes(r, [WithTag(r, n) EXCEPT !.add = @ \cup {l}])
        /\ Goto(r, [call[r] EXCEPT !.names = @ \ {n}]) /\ UNCHANGED db
    BY <1>1, <1>2 DEF Attach
  <1>6. call[r].b \in Bookmark
    BY <1>3, KindOf DEF BaseInv, Locals
  <1>7. l \in Link
    BY <1>2, <1>5, <1>6 DEF Link
  <1>8. PICK c : c = [call[r] EXCEPT !.names = @ \ {n}]
    OBVIOUS
  <1>9. c \in Call /\ c.at = "attach" /\ Stays(call[r], c) /\ c.t = call[r].t
        /\ c.ids = call[r].ids /\ c.names = call[r].names \ {n}
    BY <1>3, <1>8 DEF Call, Stays
  <1>10. PICK p : p = [WithTag(r, n) EXCEPT !.add = @ \cup {l}]
    OBVIOUS
  <1>11. /\ WithTag(r, n) \in Change
         /\ WithTag(r, n).bookmark = patch[r].bookmark /\ WithTag(r, n).locks = patch[r].locks
         /\ WithTag(r, n).add = patch[r].add /\ WithTag(r, n).del = patch[r].del
         /\ WithTag(r, n).job = patch[r].job
         /\ serial' \in [bookmark : Nat, tag : Nat] /\ serial'.bookmark = serial.bookmark
    BY <1>4, <1>5, GetTag
  <1>12. p \in Change
    BY <1>7, <1>10, <1>11 DEF Change
  <1>13. /\ p.bookmark = patch[r].bookmark /\ p.locks = patch[r].locks
         /\ p.tag = WithTag(r, n).tag /\ p.job = patch[r].job
         /\ p.add = patch[r].add \cup {l} /\ p.del = patch[r].del
    BY <1>10, <1>11 DEF Change
  <1>14. serial'.bookmark >= serial.bookmark
    BY <1>11 DEF BaseInv, Types
  <1>15. Moves(r) /\ call'[r] = c /\ patch'[r] = p
    BY <1>5, <1>8, <1>9, <1>10, <1>11, <1>12, <1>14, RequestMoves
  <1> QED BY <1>2, <1>3, <1>4, <1>5, <1>7, <1>9, <1>13, <1>15

\* Attach keeps the base invariant.
LEMMA AttachKeeps ==
  ASSUME BaseInv, NEW r \in Request, Attach(r)
  PROVE  BaseInv'
  <1>1. PICK l : /\ Moves(r) /\ call[r].at = "attach" /\ call'[r].at = "attach"
                 /\ Stays(call[r], call'[r])
                 /\ call'[r].t = call[r].t /\ call'[r].ids = call[r].ids
                 /\ FreeLink(r, l)
                 /\ patch'[r].bookmark = patch[r].bookmark /\ patch'[r].locks = patch[r].locks
                 /\ patch'[r].add = patch[r].add \cup {l} /\ patch'[r].del = patch[r].del
    BY AttachStep
  <1>2. Where(call[r]) /\ Locals(call[r])
    BY DEF BaseInv
  <1>3. Where(call'[r]) /\ Locals(call'[r])
    BY <1>1, <1>2 DEF Where, Locals, Stays
  <1>4. patch'[r].del \subseteq link
    BY <1>1 DEF BaseInv, LinkLocks
  <1>5. \A q \in Request \ {r} : (patch'[r].add \cup patch'[r].del) \cap Links4(q) = {}
    BY <1>1 DEF BaseInv, LinkLocks, Links4, FreeLink, Others
  <1> QED BY <1>1, <1>3, <1>4, <1>5, RowsKept DEF Stays, Outside

\* enqueueTaskEffects.
LEMMA EffectsStep ==
  ASSUME BaseInv, NEW r \in Request, Effects(r)
  PROVE  /\ Moves(r) /\ serial' = serial
         /\ call[r].at = "attach" /\ call[r].names = {} /\ call'[r].at = "commit"
         /\ Stays(call[r], call'[r])
         /\ call'[r].t = call[r].t /\ call'[r].ids = call[r].ids
         /\ call'[r].names = call[r].names
         /\ patch'[r].bookmark = patch[r].bookmark /\ patch'[r].locks = patch[r].locks
         /\ patch'[r].tag = patch[r].tag
         /\ patch'[r].add = patch[r].add /\ patch'[r].del = patch[r].del
         /\ patch'[r].job \subseteq {call[r].b} \X JobKind
         /\ "new" \in call[r].given => patch'[r].job = {call[r].b} \X JobKind
  <1>1. PICK kinds : kinds = {"load"} \cup (IF "new" \in call[r].given THEN JobKind ELSE {})
                 \cup (IF call[r].row # None /\ call[r].row.url # call[r].url THEN {"archive"} ELSE {})
    OBVIOUS
  <1>2. kinds \subseteq JobKind /\ ("new" \in call[r].given => kinds = JobKind)
    BY <1>1 DEF JobKind
  <1>3. /\ call[r].at = "attach" /\ call[r].names = {}
        /\ Writes(r, [patch[r] EXCEPT !.job = {call[r].b} \X kinds])
        /\ Goto(r, [call[r] EXCEPT !.at = "commit"])
        /\ UNCHANGED <<db, serial>>
    BY <1>1 DEF Effects, At
  <1>4. call[r] \in Call /\ patch[r] \in Change /\ call[r].b \in Bookmark
    BY <1>3, SeenType, KindOf DEF BaseInv, Locals
  <1>5. PICK c : c = [call[r] EXCEPT !.at = "commit"]
    OBVIOUS
  <1>6. c \in Call /\ c.at = "commit" /\ Stays(call[r], c) /\ c.t = call[r].t
        /\ c.ids = call[r].ids /\ c.names = call[r].names
    BY <1>4, <1>5 DEF Call, Stays, Places
  <1>7. PICK job1 : job1 = {call[r].b} \X kinds
    OBVIOUS
  <1>8. /\ job1 \subseteq {call[r].b} \X JobKind /\ job1 \subseteq Bookmark \X JobKind
        /\ "new" \in call[r].given => job1 = {call[r].b} \X JobKind
    BY <1>2, <1>4, <1>7
  <1>9. PICK p : p = [patch[r] EXCEPT !.job = job1]
    OBVIOUS
  <1>10. /\ p \in Change /\ p.job = job1
         /\ p.bookmark = patch[r].bookmark /\ p.locks = patch[r].locks
         /\ p.tag = patch[r].tag /\ p.add = patch[r].add /\ p.del = patch[r].del
    BY <1>4, <1>8, <1>9 DEF Change
  <1>11. serial' \in [bookmark : Nat, tag : Nat] /\ serial'.bookmark >= serial.bookmark
         /\ serial' = serial /\ UNCHANGED db
    BY <1>3 DEF BaseInv, Types
  <1>12. Goto(r, c) /\ Writes(r, p)
    BY <1>3, <1>5, <1>7, <1>9
  <1>13. Moves(r) /\ call'[r] = c /\ patch'[r] = p
    BY <1>6, <1>10, <1>11, <1>12, RequestMoves
  <1> QED BY <1>3, <1>6, <1>8, <1>10, <1>11, <1>13

\* Effects keeps the base invariant.
LEMMA EffectsKeeps ==
  ASSUME BaseInv, NEW r \in Request, Effects(r)
  PROVE  BaseInv'
  <1>1. /\ Moves(r) /\ call[r].at = "attach" /\ call'[r].at = "commit"
        /\ Stays(call[r], call'[r])
        /\ call'[r].t = call[r].t /\ call'[r].ids = call[r].ids
        /\ patch'[r].bookmark = patch[r].bookmark /\ patch'[r].locks = patch[r].locks
        /\ patch'[r].add = patch[r].add /\ patch'[r].del = patch[r].del
    BY EffectsStep
  <1>2. Where(call[r]) /\ Locals(call[r]) /\ call[r].kind \in Savers
    BY <1>1, KindOf DEF BaseInv
  <1>3. Where(call'[r]) /\ Locals(call'[r])
    BY <1>1, <1>2 DEF Where, Locals, Stays, Savers
  <1>4. /\ patch'[r].del \subseteq link
        /\ \A q \in Request \ {r} : (patch'[r].add \cup patch'[r].del) \cap Links4(q) = {}
    BY <1>1 DEF BaseInv, LinkLocks, Links4
  <1> QED BY <1>1, <1>3, <1>4, RowsKept DEF Stays, Outside

\* A rollback.
LEMMA PatchType == Patch \in Change
  <1>1. \A T : [z \in {} |-> None] \in [{} -> T] /\ [z \in {} |-> NoTag] \in [{} -> T]
    OBVIOUS
  <1>2. /\ [b \in {} |-> None] \in Partial(Bookmark, Row \cup {None})
        /\ [t \in {} |-> NoTag] \in Partial(Tag, Name \cup {NoTag})
    BY <1>1 DEF Partial
  <1> QED BY <1>2 DEF Patch, Change

\* An idle request's locals are locals.
LEMMA IdleType == Idle \in Call
  BY DEF Idle, Call, Places

\* A rollback keeps the base invariant.
LEMMA AbortKeeps ==
  ASSUME BaseInv, NEW r \in Request, Abort(r)
  PROVE  BaseInv' /\ Moves(r) /\ call'[r] = Idle /\ patch'[r] = Patch
  <1>1. Goto(r, Idle) /\ Writes(r, Patch) /\ UNCHANGED <<db, serial>>
    BY DEF Abort, Ends, Goto
  <1>2. serial' \in [bookmark : Nat, tag : Nat] /\ serial'.bookmark >= serial.bookmark
        /\ UNCHANGED db /\ serial' = serial
    BY <1>1 DEF BaseInv, Types
  <1>3. Moves(r) /\ call'[r] = Idle /\ patch'[r] = Patch
    BY <1>1, <1>2, RequestMoves, PatchType, IdleType
  <1>4. Where(Idle) /\ Locals(Idle) /\ Clean(r)' /\ Keeps(r)'
    <2>1. Idle.kind = "none" /\ Idle.at = "idle"
      BY DEF Idle
    <2>2. Where(Idle) /\ Locals(Idle)
      BY <2>1 DEF Where, Locals, Savers
    <2>3. call'[r].kind = "none" /\ call'[r].at = "idle"
      BY <1>3, <2>1
    <2> QED BY <1>3, <2>2, <2>3 DEF Clean, Keeps, Savers
  <1>5. /\ Patch.locks = {} /\ DOMAIN Patch.bookmark = {} /\ Patch.add = {} /\ Patch.del = {}
        /\ Idle.kind = "none" /\ Idle.b = 0
    BY DEF Patch, Idle
  <1>6. 0 < serial'.bookmark
    BY <1>2 DEF BaseInv, Fresh, Types
  <1>7. Behaves(r)
    BY <1>3, <1>4, <1>5, <1>6 DEF Behaves
  <1> QED BY <1>3, <1>7, MoveKeeps

-----------------------------------------------------------------------------
(***************************************************************************)
(* UpdateData.                                                              *)
(***************************************************************************)
\* loadForUpdate: the row is locked and read.
LEMMA ReadRowStep ==
  ASSUME BaseInv, NEW r \in Request, ReadRow(r)
  PROVE  LET c == call'[r] IN
         /\ Moves(r) /\ serial' = serial /\ Turn(r)
         /\ call[r].at = "idle" /\ patch[r] = Patch
         /\ c.kind \in {"form", "rest"} /\ c.at = "edit"
         /\ c.b \in Found(r) /\ FreeRow(r, c.b)
         /\ c.url \in URL /\ c.given \in Edits(c.kind) /\ c.given \subseteq Fields
         /\ c.row = Rows(r)[c.b] /\ ("url" \notin c.given => c.url = Rows(r)[c.b].url)
         /\ patch'[r].locks = {c.b} /\ patch'[r].bookmark = patch[r].bookmark
         /\ patch'[r].tag = patch[r].tag /\ patch'[r].job = patch[r].job
         /\ patch'[r].add = patch[r].add /\ patch'[r].del = patch[r].del
  <1>1. PICK kind, b, given, names, url :
          /\ kind \in {"form", "rest"} /\ b \in Found(r) /\ given \in Edits(kind)
          /\ names \in SUBSET Name /\ url \in URL
          /\ Begins(r, kind) /\ FreeRow(r, b)
          /\ "url" \notin given => url = Rows(r)[b].url
          /\ Writes(r, [patch[r] EXCEPT !.locks = {b}])
          /\ Goto(r, [Idle EXCEPT !.kind = kind, !.at = "edit", !.b = b, !.given = given,
                                  !.names = names, !.url = url, !.row = Rows(r)[b]])
          /\ UNCHANGED <<db, serial>>
    BY ZenonT(60) DEF ReadRow, Plain
  <1>2. given \subseteq Fields
    BY <1>1, BookmarksAssumption, ZenonT(30) DEF Edits, Fields, BookmarksAssumption
  <1>3. /\ call[r].at = "idle" /\ Turn(r) /\ patch[r] = Patch /\ patch[r] \in Change
        /\ kind \in Kinds
    BY <1>1, SeenType DEF Begins, BaseInv, Clean, Outside
  <1>4. PICK row : row = Rows(r)[b]
    OBVIOUS
  <1>5. row \in Row /\ b \in Bookmark /\ b \in Nat
    BY <1>1, <1>4, SeenType, BookmarksAssumption DEF BookmarksAssumption
  <1>6. PICK c : c = [Idle EXCEPT !.kind = kind, !.at = "edit", !.b = b, !.given = given,
                                  !.names = names, !.url = url, !.row = row]
    OBVIOUS
  <1>7. c = Local(kind, "edit", b, 0, url, row, given, names, {})
    BY <1>6 DEF Idle, Local
  <1>8. c \in Call
    <2>1. "edit" \in Places /\ row \in Row \cup {None} /\ given \in SUBSET (Fields \cup {"new"})
          /\ url \in URL \cup {""}
      BY <1>1, <1>2, <1>5 DEF Places
    <2>2. Local(kind, "edit", b, 0, url, row, given, names, {}) \in Call
      BY <1>1, <1>3, <1>5, <2>1, LocalType
    <2> QED BY <1>7, <2>2
  <1>9. /\ c.kind = kind /\ c.at = "edit" /\ c.b = b /\ c.given = given
        /\ c.url = url /\ c.row = row
    BY <1>7 DEF Local
  <1>10. PICK p : p = [patch[r] EXCEPT !.locks = {b}]
    OBVIOUS
  <1>11. /\ p \in Change /\ p.locks = {b} /\ p.bookmark = patch[r].bookmark
         /\ p.tag = patch[r].tag /\ p.job = patch[r].job
         /\ p.add = patch[r].add /\ p.del = patch[r].del
    BY <1>3, <1>5, <1>10 DEF Change
  <1>12. serial' \in [bookmark : Nat, tag : Nat] /\ serial'.bookmark >= serial.bookmark
         /\ serial' = serial /\ UNCHANGED db
    BY <1>1 DEF BaseInv, Types
  <1>13. Goto(r, c) /\ Writes(r, p)
    BY <1>1, <1>4, <1>6, <1>10
  <1>14. Moves(r) /\ call'[r] = c /\ patch'[r] = p
    BY <1>8, <1>11, <1>12, <1>13, RequestMoves
  <1> QED BY <1>1, <1>2, <1>3, <1>4, <1>9, <1>11, <1>12, <1>14

\* ReadRow keeps the base invariant.
LEMMA ReadRowKeeps ==
  ASSUME BaseInv, NEW r \in Request, ReadRow(r)
  PROVE  BaseInv'
  <1> DEFINE b == call'[r].b
  <1>1. /\ Moves(r) /\ serial' = serial /\ patch[r] = Patch
        /\ call'[r].kind \in {"form", "rest"} /\ call'[r].at = "edit"
        /\ b \in Found(r) /\ FreeRow(r, b) /\ call'[r].url \in URL
        /\ call'[r].given \subseteq Fields /\ call'[r].row = Rows(r)[b]
    BY ReadRowStep
  <1>2. /\ patch'[r].locks = {b} /\ DOMAIN patch'[r].bookmark = {}
        /\ DOMAIN patch'[r].tag = {} /\ patch'[r].add = {} /\ patch'[r].del = {}
        /\ patch'[r].bookmark = patch[r].bookmark
    BY <1>1, ReadRowStep DEF Patch
  <1>3. bookmark' = bookmark /\ Rows(r) = bookmark /\ Rows(r)' = bookmark
    BY <1>1, <1>2, SeenClean DEF Moves, db, Rows
  <1>4. b \in Bookmark /\ b < serial.bookmark /\ Rows(r)[b] \in Row
    BY <1>1, FoundOld, SeenType
  <1>5. Where(call'[r]) /\ Locals(call'[r])
    BY <1>1, <1>4 DEF Where, Locals, Savers
  <1>6. Clean(r)' /\ Keeps(r)'
    BY <1>1, <1>2, <1>3 DEF Clean, Keeps, Outside
  <1>7. \A q \in Request \ {r} : b \notin patch[q].locks
    BY <1>1 DEF FreeRow, Others
  <1>8. Behaves(r)
    BY <1>1, <1>2, <1>4, <1>5, <1>6, <1>7 DEF Behaves
  <1> QED BY <1>1, <1>8, MoveKeeps

\* updateBookmarkRow: what the request leaves out is written as it was read.
LEMMA WriteRowStep ==
  ASSUME BaseInv, NEW r \in Request, WriteRow(r)
  PROVE  LET b == call[r].b IN
         /\ Moves(r) /\ serial' = serial /\ b \in Bookmark /\ call[r].row \in Row
         /\ call[r].at = "edit" /\ call[r].kind \in {"form", "rest"} /\ call'[r].at = "tags"
         /\ Stays(call[r], call'[r]) /\ call[r].url \in URL
         /\ call'[r].t = call[r].t /\ call'[r].ids = call[r].ids
         /\ call'[r].names = call[r].names
         /\ ~("url" \in call[r].given /\ Duplicate(r))
         /\ patch'[r].locks = patch[r].locks /\ patch'[r].tag = patch[r].tag
         /\ patch'[r].job = patch[r].job
         /\ patch'[r].add = patch[r].add /\ patch'[r].del = patch[r].del
         /\ DOMAIN patch'[r].bookmark = DOMAIN patch[r].bookmark \cup {b}
         /\ \E row \in Row :
              /\ row.url = call[r].url
              /\ "archived" \notin call[r].given => row.archived = call[r].row.archived
              /\ "title" \notin call[r].given => row.title = call[r].row.title
              /\ patch'[r].bookmark = Put(patch[r].bookmark, b, row)
  <1> DEFINE b == call[r].b
             title == IF "title" \in call[r].given THEN "given" ELSE call[r].row.title
  <1>1. /\ call[r].at = "edit" /\ call[r] \in Call /\ patch[r] \in Change
        /\ ~("url" \in call[r].given /\ Duplicate(r))
    BY SeenType DEF WriteRow, At
  <1>2. PICK archived \in BOOLEAN :
          /\ "archived" \notin call[r].given => archived = call[r].row.archived
          /\ Writes(r, [patch[r] EXCEPT !.bookmark =
               Put(@, b, [url |-> call[r].url, archived |-> archived,
                          title |-> IF "title" \in call[r].given THEN "given"
                                                                 ELSE call[r].row.title])])
    BY DEF WriteRow
  <1>3. call[r].kind \in {"form", "rest"}
    BY <1>1, KindOf
  <1>4. call[r].row \in Row /\ call[r].url \in URL /\ b \in Bookmark
    BY <1>1, <1>3 DEF BaseInv, Locals, Savers
  <1>5. PICK row : row = [url |-> call[r].url, archived |-> archived,
                          title |-> IF "title" \in call[r].given THEN "given"
                                                                 ELSE call[r].row.title]
    OBVIOUS
  <1>6. /\ row \in Row /\ row.url = call[r].url /\ row.archived = archived
        /\ "title" \notin call[r].given => row.title = call[r].row.title
    BY <1>4, <1>5 DEF Row
  <1>7. /\ Put(patch[r].bookmark, b, row) \in Partial(Bookmark, Row \cup {None})
        /\ DOMAIN Put(patch[r].bookmark, b, row) = DOMAIN patch[r].bookmark \cup {b}
    <2>1. PICK f, d : f = patch[r].bookmark /\ d = b
      OBVIOUS
    <2>2. f \in Partial(Bookmark, Row \cup {None}) /\ d \in Bookmark /\ row \in Row \cup {None}
      BY <1>1, <1>4, <1>6, <2>1 DEF Change
    <2>3. /\ Put(f, d, row) \in Partial(Bookmark, Row \cup {None})
          /\ DOMAIN Put(f, d, row) = DOMAIN f \cup {d}
      BY <2>2, PutType
    <2> QED BY <2>1, <2>3
  <1>8. PICK p : p = [patch[r] EXCEPT !.bookmark = Put(@, b, row)]
    OBVIOUS
  <1>9. /\ p \in Change /\ p.bookmark = Put(patch[r].bookmark, b, row)
        /\ p.locks = patch[r].locks /\ p.tag = patch[r].tag /\ p.job = patch[r].job
        /\ p.add = patch[r].add /\ p.del = patch[r].del
    BY <1>1, <1>7, <1>8 DEF Change
  <1>10. PICK c : c = [call[r] EXCEPT !.at = "tags"]
    OBVIOUS
  <1>11. c \in Call /\ c.at = "tags" /\ Stays(call[r], c) /\ c.t = call[r].t
         /\ c.ids = call[r].ids /\ c.names = call[r].names
    BY <1>1, <1>10 DEF Call, Stays, Places
  <1>12. Goto(r, c) /\ Writes(r, p)
    BY <1>2, <1>5, <1>8, <1>10 DEF WriteRow
  <1>13. serial' \in [bookmark : Nat, tag : Nat] /\ serial'.bookmark >= serial.bookmark
         /\ serial' = serial /\ UNCHANGED db
    BY DEF WriteRow, BaseInv, Types
  <1>14. Moves(r) /\ call'[r] = c /\ patch'[r] = p
    BY <1>9, <1>11, <1>12, <1>13, RequestMoves
  <1> QED BY <1>1, <1>2, <1>3, <1>4, <1>6, <1>7, <1>9, <1>11, <1>13, <1>14

\* WriteRow keeps the base invariant.
LEMMA WriteRowKeeps ==
  ASSUME BaseInv, NEW r \in Request, WriteRow(r)
  PROVE  BaseInv'
  <1> DEFINE b == call[r].b
  <1>1. /\ Moves(r) /\ serial' = serial /\ b \in Bookmark
        /\ call[r].at = "edit" /\ call[r].kind \in {"form", "rest"} /\ call'[r].at = "tags"
        /\ Stays(call[r], call'[r])
        /\ call'[r].t = call[r].t /\ call'[r].ids = call[r].ids
    BY WriteRowStep
  <1>2. /\ patch'[r].locks = patch[r].locks /\ patch'[r].tag = patch[r].tag
        /\ patch'[r].add = patch[r].add /\ patch'[r].del = patch[r].del
        /\ DOMAIN patch'[r].bookmark = DOMAIN patch[r].bookmark \cup {b}
    BY WriteRowStep
  <1>3. PICK row \in Row :
          /\ "archived" \notin call[r].given => row.archived = call[r].row.archived
          /\ "title" \notin call[r].given => row.title = call[r].row.title
          /\ patch'[r].bookmark = Put(patch[r].bookmark, b, row)
    BY WriteRowStep
  <1>4. bookmark' = bookmark /\ call[r].row = bookmark[b]
    BY <1>1 DEF BaseInv, Keeps, Moves, db
  <1>5. Rows(r)'[b] = row
    <2>1. Over(Put(patch[r].bookmark, b, row), bookmark)[b] = row
      BY <1>1, RowSeen
    <2> QED BY <1>3, <1>4, <2>1 DEF Rows
  <1>6. Where(call[r]) /\ Locals(call[r]) /\ Clean(r)
    BY DEF BaseInv
  <1>7. Where(call'[r]) /\ Locals(call'[r]) /\ Clean(r)'
    BY <1>1, <1>2, <1>6 DEF Where, Locals, Clean, Stays, Savers, Outside
  <1>8. Keeps(r)'
    BY <1>1, <1>3, <1>4, <1>5 DEF Keeps, Stays
  <1>9. /\ b \in patch[r].locks /\ DOMAIN patch[r].bookmark \subseteq patch[r].locks
        /\ b < serial.bookmark /\ (\A d \in patch[r].locks : d < serial.bookmark)
        /\ patch[r].del \subseteq link
    BY <1>1 DEF BaseInv, RowLocks, LinkLocks, Fresh
  <1>10. \A q \in Request \ {r} : /\ patch[r].locks \cap patch[q].locks = {}
                                  /\ (patch[r].add \cup patch[r].del) \cap Links4(q) = {}
    BY DEF BaseInv, RowLocks, LinkLocks, Links4
  <1>11. Behaves(r)
    BY <1>1, <1>2, <1>7, <1>8, <1>9, <1>10 DEF Behaves, Stays
  <1> QED BY <1>1, <1>11, MoveKeeps

\* Without tag names the bookmark keeps the parts of those it has.
LEMMA KeepTagsStep ==
  ASSUME BaseInv, NEW r \in Request, KeepTags(r)
  PROVE  /\ Moves(r) /\ patch' = patch /\ serial' = serial
         /\ call[r].at = "tags" /\ call'[r].at = "clear" /\ Stays(call[r], call'[r])
         /\ call'[r].t = call[r].t /\ call'[r].ids = call[r].ids
         /\ "names" \notin call[r].given =>
              /\ NamesOf(r, call[r].b) \in SUBSET Name
              /\ Parsed(NamesOf(r, call[r].b)) \subseteq call'[r].names
  <1>1. PICK kept : kept = IF "names" \in call[r].given THEN call[r].names
                                                        ELSE NamesOf(r, call[r].b)
    OBVIOUS
  <1>2. /\ call[r].at = "tags" /\ UNCHANGED <<db, serial, patch>>
        /\ Goto(r, [call[r] EXCEPT !.at = "clear", !.names = Parsed(kept \cup AutoTags[call[r].url])])
    BY <1>1 DEF KeepTags, At
  <1>3. call[r] \in Call /\ patch[r] \in Change /\ call[r].url \in URL
    BY <1>2, SeenType, KindOf DEF BaseInv, Locals, Savers
  <1>4. Links(r) = link /\ Tags(r) = tag
    <2>1. patch[r].add = {} /\ patch[r].del = {} /\ DOMAIN patch[r].tag = {}
      BY <1>2 DEF BaseInv, Clean
    <2>2. tag \in [Tag -> Name \cup {NoTag}]
      BY DEF BaseInv, Types
    <2> QED BY <2>1, <2>2, OverNothing DEF Links, Tags
  <1>5. NamesOf(r, call[r].b) \subseteq Name
    <2>1. ASSUME NEW l \in link PROVE tag[l[2]] \in Name
      BY DEF BaseInv, Types, LinkLocks, Link
    <2> QED BY <1>4, <2>1 DEF NamesOf
  <1>7. kept \in SUBSET Name
    BY <1>1, <1>3, <1>5 DEF Call
  <1>6. /\ Parsed(kept \cup AutoTags[call[r].url]) \in SUBSET Name
        /\ Parsed(kept) \subseteq Parsed(kept \cup AutoTags[call[r].url])
    <2>1. PICK all \in SUBSET Name : all = kept \cup AutoTags[call[r].url]
      BY <1>3, <1>7, ParsedNames
    <2> QED BY <2>1, ParsedNames
  <1>8. PICK c : c = [call[r] EXCEPT !.at = "clear", !.names = Parsed(kept \cup AutoTags[call[r].url])]
    OBVIOUS
  <1>9. c \in Call /\ c.at = "clear" /\ Stays(call[r], c) /\ c.t = call[r].t
        /\ c.ids = call[r].ids /\ c.names = Parsed(kept \cup AutoTags[call[r].url])
    BY <1>3, <1>6, <1>7, <1>8 DEF Call, Stays, Places
  <1>10. Goto(r, c) /\ UNCHANGED <<db, serial, patch>>
    BY <1>2, <1>8
  <1>11. Moves(r) /\ call'[r] = c /\ patch' = patch /\ serial' = serial
    BY <1>9, <1>10, CallMoves
  <1> QED BY <1>1, <1>2, <1>5, <1>6, <1>9, <1>11

\* KeepTags keeps the base invariant.
LEMMA KeepTagsKeeps ==
  ASSUME BaseInv, NEW r \in Request, KeepTags(r)
  PROVE  BaseInv'
  <1>1. /\ Moves(r) /\ patch' = patch /\ call[r].at = "tags" /\ call'[r].at = "clear"
        /\ Stays(call[r], call'[r]) /\ call'[r].t = call[r].t /\ call'[r].ids = call[r].ids
    BY KeepTagsStep
  <1>2. Where(call[r]) /\ Locals(call[r]) /\ call[r].kind \in {"form", "rest"}
    BY <1>1, KindOf DEF BaseInv
  <1>3. Where(call'[r]) /\ Locals(call'[r])
    BY <1>1, <1>2 DEF Where, Locals, Stays, Savers
  <1>4. /\ patch[r].del \subseteq link
        /\ \A q \in Request \ {r} : (patch[r].add \cup patch[r].del) \cap Links4(q) = {}
    BY DEF BaseInv, LinkLocks, Links4
  <1> QED BY <1>1, <1>3, <1>4, RowsKept DEF Stays, Outside

-----------------------------------------------------------------------------
(***************************************************************************)
(* Deletions.                                                               *)
(***************************************************************************)
\* A call that starts without a write.
LEMMA StartKeeps ==
  ASSUME BaseInv, NEW r \in Request, Moves(r), patch' = patch, serial' = serial,
         call[r].at = "idle", call'[r].kind \notin Savers \cup {"delete"},
         call'[r].at \notin {"edit", "tags"},
         Where(call'[r]), Locals(call'[r]),
         call'[r].kind # "merge" => call'[r].b = 0
  PROVE  BaseInv'
  <1>1. patch[r] = Patch /\ 0 < serial.bookmark
    BY DEF BaseInv, Clean, Outside, Fresh, Types
  <1>2. Patch.locks = {} /\ DOMAIN Patch.bookmark = {} /\ Patch.add = {} /\ Patch.del = {}
    BY DEF Patch
  <1>3. Clean(r)' /\ Keeps(r)'
    BY <1>1 DEF Clean, Keeps
  <1>4. Behaves(r)
    BY <1>1, <1>2, <1>3 DEF Behaves, Savers
  <1> QED BY <1>4, MoveKeeps

\* What the begin of a bookmark's deletion changes.
LEMMA DeleteRowStep ==
  ASSUME BaseInv, NEW r \in Request, DeleteRow(r)
  PROVE  LET c == call'[r] IN
         /\ Moves(r) /\ serial' = serial /\ Turn(r)
         /\ call[r].at = "idle" /\ patch[r] = Patch
         /\ c.kind = "delete" /\ c.at = "clear" /\ c.ids = {}
         /\ c.b \in Found(r) /\ FreeRow(r, c.b)
         /\ patch'[r].locks = {c.b} /\ patch'[r].bookmark = patch[r].bookmark
         /\ patch'[r].tag = patch[r].tag /\ patch'[r].job = patch[r].job
         /\ patch'[r].add = patch[r].add /\ patch'[r].del = patch[r].del
  <1>1. PICK b \in Found(r) :
          /\ Begins(r, "delete") /\ FreeRow(r, b)
          /\ Writes(r, [patch[r] EXCEPT !.locks = {b}])
          /\ Goto(r, [Idle EXCEPT !.kind = "delete", !.at = "clear", !.b = b])
          /\ UNCHANGED <<db, serial>>
    BY DEF DeleteRow
  <1>2. /\ call[r].at = "idle" /\ Turn(r) /\ patch[r] = Patch /\ patch[r] \in Change
        /\ "delete" \in Kinds
    BY <1>1, SeenType DEF Begins, BaseInv, Clean, Outside
  <1>3. b \in Bookmark /\ b \in Nat
    BY <1>1, SeenType, BookmarksAssumption DEF BookmarksAssumption
  <1>4. PICK c : c = [Idle EXCEPT !.kind = "delete", !.at = "clear", !.b = b]
    OBVIOUS
  <1>5. c = Local("delete", "clear", b, 0, "", None, {}, {}, {})
    BY <1>4 DEF Idle, Local
  <1>6. c \in Call
    <2>1. "clear" \in Places
      BY DEF Places
    <2>2. Local("delete", "clear", b, 0, "", None, {}, {}, {}) \in Call
      BY <1>2, <1>3, <2>1, LocalType
    <2> QED BY <1>5, <2>2
  <1>7. c.kind = "delete" /\ c.at = "clear" /\ c.ids = {} /\ c.b = b
    BY <1>5 DEF Local
  <1>8. PICK p : p = [patch[r] EXCEPT !.locks = {b}]
    OBVIOUS
  <1>9. /\ p \in Change /\ p.locks = {b} /\ p.bookmark = patch[r].bookmark
        /\ p.tag = patch[r].tag /\ p.job = patch[r].job
        /\ p.add = patch[r].add /\ p.del = patch[r].del
    BY <1>2, <1>3, <1>8 DEF Change
  <1>10. serial' \in [bookmark : Nat, tag : Nat] /\ serial'.bookmark >= serial.bookmark
         /\ serial' = serial /\ UNCHANGED db
    BY <1>1 DEF BaseInv, Types
  <1>11. Goto(r, c) /\ Writes(r, p)
    BY <1>1, <1>4, <1>8
  <1>12. Moves(r) /\ call'[r] = c /\ patch'[r] = p
    BY <1>6, <1>9, <1>10, <1>11, RequestMoves
  <1> QED BY <1>1, <1>2, <1>7, <1>9, <1>10, <1>12

\* DeleteRow keeps the base invariant.
LEMMA DeleteRowKeeps ==
  ASSUME BaseInv, NEW r \in Request, DeleteRow(r)
  PROVE  BaseInv'
  <1> DEFINE b == call'[r].b
  <1>1. /\ Moves(r) /\ serial' = serial /\ patch[r] = Patch
        /\ call'[r].kind = "delete" /\ call'[r].at = "clear" /\ call'[r].ids = {}
        /\ b \in Found(r) /\ FreeRow(r, b)
    BY DeleteRowStep
  <1>2. /\ patch'[r].locks = {b} /\ DOMAIN patch'[r].bookmark = {}
        /\ patch'[r].add = {} /\ patch'[r].del = {}
    BY <1>1, DeleteRowStep DEF Patch
  <1>3. b \in Bookmark /\ b < serial.bookmark
    BY <1>1, FoundOld
  <1>4. Where(call'[r]) /\ Locals(call'[r])
    BY <1>1, <1>3 DEF Where, Locals, Savers
  <1>5. Clean(r)' /\ Keeps(r)'
    BY <1>1 DEF Clean, Keeps, Outside, Savers
  <1>6. \A q \in Request \ {r} : b \notin patch[q].locks
    BY <1>1 DEF FreeRow, Others
  <1>7. Behaves(r)
    BY <1>1, <1>2, <1>3, <1>4, <1>5, <1>6 DEF Behaves
  <1> QED BY <1>1, <1>7, MoveKeeps

\* What the begin of a tag's deletion changes.
LEMMA DeleteTagStep ==
  ASSUME BaseInv, NEW r \in Request, DeleteTag(r)
  PROVE  LET c == call'[r] IN
         /\ Moves(r) /\ patch' = patch /\ serial' = serial /\ Turn(r)
         /\ call[r].at = "idle" /\ patch[r] = Patch
         /\ c.kind = "droptag" /\ c.at = "clear" /\ c.b = 0 /\ c.ids = {} /\ c.t \in Tag
  <1>1. PICK t \in Tag :
          /\ Begins(r, "droptag")
          /\ Goto(r, [Idle EXCEPT !.kind = "droptag", !.at = "clear", !.t = t])
          /\ UNCHANGED <<db, serial, patch>>
    BY DEF DeleteTag
  <1>2. /\ call[r].at = "idle" /\ Turn(r) /\ patch[r] = Patch /\ "droptag" \in Kinds
        /\ t \in Nat
    BY <1>1, BookmarksAssumption DEF Begins, BaseInv, Clean, Outside, BookmarksAssumption
  <1>3. PICK c : c = [Idle EXCEPT !.kind = "droptag", !.at = "clear", !.t = t]
    OBVIOUS
  <1>4. c = Local("droptag", "clear", 0, t, "", None, {}, {}, {})
    BY <1>3 DEF Idle, Local
  <1>5. c \in Call
    <2>1. "clear" \in Places
      BY DEF Places
    <2>2. Local("droptag", "clear", 0, t, "", None, {}, {}, {}) \in Call
      BY <1>2, <2>1, LocalType
    <2> QED BY <1>4, <2>2
  <1>6. c.kind = "droptag" /\ c.at = "clear" /\ c.b = 0 /\ c.ids = {} /\ c.t = t
    BY <1>4 DEF Local
  <1>7. Goto(r, c) /\ UNCHANGED <<db, serial, patch>>
    BY <1>1, <1>3
  <1>8. Moves(r) /\ call'[r] = c /\ patch' = patch /\ serial' = serial
    BY <1>5, <1>7, CallMoves
  <1> QED BY <1>1, <1>2, <1>6, <1>8

\* DeleteTag keeps the base invariant.
LEMMA DeleteTagKeeps ==
  ASSUME BaseInv, NEW r \in Request, DeleteTag(r)
  PROVE  BaseInv'
  <1>1. /\ Moves(r) /\ patch' = patch /\ serial' = serial /\ call[r].at = "idle"
        /\ call'[r].kind = "droptag" /\ call'[r].at = "clear" /\ call'[r].b = 0
        /\ call'[r].ids = {} /\ call'[r].t \in Tag
    BY DeleteTagStep
  <1>2. Where(call'[r]) /\ Locals(call'[r])
    BY <1>1 DEF Where, Locals, Savers
  <1> QED BY <1>1, <1>2, StartKeeps DEF Savers

\* The row goes after its links.
LEMMA DropStep ==
  ASSUME BaseInv, NEW r \in Request, Drop(r)
  PROVE  LET ids == call[r].ids \ {call[r].t} IN
         /\ Moves(r) /\ serial' = serial
         /\ call[r].at = "drop" /\ call[r].kind \in {"delete", "droptag", "merge"}
         /\ call'[r].at = (IF ids = {} THEN "commit" ELSE "copy")
         /\ Stays(call[r], call'[r]) /\ call'[r].t = call[r].t /\ call'[r].ids = ids
         /\ patch'[r].add = patch[r].add /\ patch'[r].del = patch[r].del
         /\ patch'[r].job = patch[r].job /\ patch'[r].locks = patch[r].locks
         /\ call[r].kind = "delete" =>
              /\ call[r].b \in Bookmark /\ patch'[r].tag = patch[r].tag
              /\ DOMAIN patch'[r].bookmark = DOMAIN patch[r].bookmark \cup {call[r].b}
              /\ patch'[r].bookmark = Put(patch[r].bookmark, call[r].b, None)
         /\ call[r].kind # "delete" =>
              /\ call[r].t \in Tag /\ FreeTag(r, call[r].t)
              /\ patch'[r].bookmark = patch[r].bookmark
              /\ patch'[r].tag = Put(patch[r].tag, call[r].t, NoTag)
  <1> DEFINE ids == call[r].ids \ {call[r].t}
  <1>1. /\ call[r].at = "drop" /\ call[r] \in Call /\ patch[r] \in Change
        /\ Goto(r, [call[r] EXCEPT !.ids = ids, !.at = IF ids = {} THEN "commit" ELSE "copy"])
        /\ UNCHANGED db /\ serial' = serial
    BY SeenType DEF Drop, At
  <1>2. call[r].kind \in {"delete", "droptag", "merge"}
    BY <1>1, KindOf
  <1>3. PICK c : c = [call[r] EXCEPT !.ids = ids, !.at = IF ids = {} THEN "commit" ELSE "copy"]
    OBVIOUS
  <1>4. c \in Call
    BY <1>1, <1>3 DEF Call, Places
  <1>5. /\ c.at = (IF ids = {} THEN "commit" ELSE "copy")
        /\ Stays(call[r], c) /\ c.t = call[r].t /\ c.ids = ids
    BY <1>1, <1>3 DEF Call, Stays
  <1>6. Goto(r, c)
    BY <1>1, <1>3
  <1>7. serial' \in [bookmark : Nat, tag : Nat] /\ serial'.bookmark >= serial.bookmark
    BY <1>1 DEF BaseInv, Types
  <1>8. CASE call[r].kind = "delete"
    <2>1. PICK f, b : f = patch[r].bookmark /\ b = call[r].b
      OBVIOUS
    <2>2. f \in Partial(Bookmark, Row \cup {None}) /\ b \in Bookmark
      BY <1>1, <1>8, <2>1 DEF Change, BaseInv, Locals
    <2>3. /\ Put(f, b, None) \in Partial(Bookmark, Row \cup {None})
          /\ DOMAIN Put(f, b, None) = DOMAIN f \cup {b}
      <3>1. DOMAIN Put(f, b, None) = DOMAIN f \cup {b}
        BY DEF Put
      <3>2. PICK T : T = Row \cup {None}
        OBVIOUS
      <3>3. f \in Partial(Bookmark, T) /\ None \in T
        BY <2>2, <3>2
      <3>4. Put(f, b, None) \in Partial(Bookmark, T)
        BY <2>2, <3>3, PutType
      <3> QED BY <3>1, <3>2, <3>4
    <2>4. PICK p : p = [patch[r] EXCEPT !.bookmark = Put(@, b, None)]
      OBVIOUS
    <2>5. /\ p \in Change /\ p.bookmark = Put(f, b, None) /\ p.tag = patch[r].tag
          /\ p.add = patch[r].add /\ p.del = patch[r].del
          /\ p.job = patch[r].job /\ p.locks = patch[r].locks
      BY <1>1, <2>1, <2>3, <2>4 DEF Change
    <2>6. Writes(r, p)
      BY <1>8, <2>1, <2>4 DEF Drop
    <2>7. Moves(r) /\ call'[r] = c /\ patch'[r] = p
      BY <1>1, <1>4, <1>6, <1>7, <2>5, <2>6, RequestMoves
    <2> QED BY <1>1, <1>2, <1>5, <1>8, <2>1, <2>2, <2>3, <2>5, <2>7
  <1>9. CASE call[r].kind # "delete"
    <2>1. PICK f, t : f = patch[r].tag /\ t = call[r].t
      OBVIOUS
    <2>2. f \in Partial(Tag, Name \cup {NoTag}) /\ t \in Tag
      BY <1>1, <1>2, <1>9, <2>1 DEF Change, BaseInv, Locals
    <2>3. Put(f, t, NoTag) \in Partial(Tag, Name \cup {NoTag})
      BY <2>2, PutType
    <2>4. PICK p : p = [patch[r] EXCEPT !.tag = Put(@, t, NoTag)]
      OBVIOUS
    <2>5. /\ p \in Change /\ p.bookmark = patch[r].bookmark /\ p.tag = Put(f, t, NoTag)
          /\ p.add = patch[r].add /\ p.del = patch[r].del
          /\ p.job = patch[r].job /\ p.locks = patch[r].locks
      BY <1>1, <2>1, <2>3, <2>4 DEF Change
    <2>6. Writes(r, p) /\ FreeTag(r, t)
      BY <1>9, <2>1, <2>4 DEF Drop
    <2>7. Moves(r) /\ call'[r] = c /\ patch'[r] = p
      BY <1>1, <1>4, <1>6, <1>7, <2>5, <2>6, RequestMoves
    <2> QED BY <1>1, <1>2, <1>5, <1>9, <2>1, <2>2, <2>5, <2>6, <2>7
  <1> QED BY <1>8, <1>9

\* Drop keeps the base invariant.
LEMMA DropKeeps ==
  ASSUME BaseInv, NEW r \in Request, Drop(r)
  PROVE  BaseInv'
  <1> DEFINE ids == call[r].ids \ {call[r].t}
  <1>1. /\ Moves(r) /\ serial' = serial
        /\ call[r].at = "drop" /\ call[r].kind \in {"delete", "droptag", "merge"}
        /\ call'[r].at = (IF ids = {} THEN "commit" ELSE "copy")
        /\ Stays(call[r], call'[r]) /\ call'[r].t = call[r].t /\ call'[r].ids = ids
    BY DropStep
  <1>2. /\ patch'[r].add = patch[r].add /\ patch'[r].del = patch[r].del
        /\ patch'[r].locks = patch[r].locks
        /\ call[r].kind = "delete" =>
             DOMAIN patch'[r].bookmark = DOMAIN patch[r].bookmark \cup {call[r].b}
        /\ call[r].kind # "delete" => patch'[r].bookmark = patch[r].bookmark
    BY DropStep
  <1>3. Where(call[r]) /\ Locals(call[r])
    BY DEF BaseInv
  <1>4. Where(call'[r]) /\ Locals(call'[r])
    BY <1>1, <1>3 DEF Where, Locals, Stays, Savers
  <1>5. Clean(r)' /\ Keeps(r)'
    BY <1>1 DEF Clean, Keeps, Outside, Savers, Stays
  <1>6. /\ DOMAIN patch[r].bookmark \subseteq patch[r].locks
        /\ call[r].kind = "delete" => call[r].b \in patch[r].locks
        /\ \A d \in patch[r].locks : d < serial.bookmark
        /\ call[r].kind # "merge" => call[r].b < serial.bookmark
        /\ patch[r].del \subseteq link
    BY DEF BaseInv, RowLocks, LinkLocks, Fresh
  <1>7. \A q \in Request \ {r} : /\ patch[r].locks \cap patch[q].locks = {}
                                 /\ (patch[r].add \cup patch[r].del) \cap Links4(q) = {}
    BY DEF BaseInv, RowLocks, LinkLocks, Links4
  <1>8. Behaves(r)
    BY <1>1, <1>2, <1>4, <1>5, <1>6, <1>7 DEF Behaves, Stays
  <1> QED BY <1>1, <1>8, MoveKeeps

-----------------------------------------------------------------------------
(***************************************************************************)
(* The tag pages.                                                           *)
(***************************************************************************)
\* getOrCreateTag and saveTagUI look before they write.
LEMMA CheckNewTagStep ==
  ASSUME BaseInv, NEW r \in Request, CheckNewTag(r)
  PROVE  LET c == call'[r] IN
         /\ Moves(r) /\ patch' = patch /\ serial' = serial /\ call[r].at = "idle"
         /\ c.kind = "newtag" /\ c.at = "insert" /\ c.b = 0
  <1>1. PICK n \in Name :
          /\ "newtag" \in Kinds /\ At(r, "idle")
          /\ Goto(r, [Idle EXCEPT !.kind = "newtag", !.at = "insert", !.names = {n}])
          /\ UNCHANGED <<db, serial, patch>>
    BY DEF CheckNewTag
  <1>2. PICK c : c = [Idle EXCEPT !.kind = "newtag", !.at = "insert", !.names = {n}]
    OBVIOUS
  <1>3. c = Local("newtag", "insert", 0, 0, "", None, {}, {n}, {})
    BY <1>2 DEF Idle, Local
  <1>4. c \in Call
    <2>1. "insert" \in Places
      BY DEF Places
    <2>2. Local("newtag", "insert", 0, 0, "", None, {}, {n}, {}) \in Call
      BY <1>1, <2>1, LocalType
    <2> QED BY <1>3, <2>2
  <1>5. c.kind = "newtag" /\ c.at = "insert" /\ c.b = 0
    BY <1>3 DEF Local
  <1>6. Goto(r, c) /\ UNCHANGED <<db, serial, patch>> /\ call[r].at = "idle"
    BY <1>1, <1>2 DEF At
  <1>7. Moves(r) /\ call'[r] = c /\ patch' = patch /\ serial' = serial
    BY <1>4, <1>6, CallMoves
  <1> QED BY <1>5, <1>6, <1>7

\* What the check of a new tag name changes.
LEMMA CheckRenameStep ==
  ASSUME BaseInv, NEW r \in Request, CheckRename(r)
  PROVE  LET c == call'[r] IN
         /\ Moves(r) /\ patch' = patch /\ serial' = serial /\ call[r].at = "idle"
         /\ c.kind = "rename" /\ c.at = "rename" /\ c.b = 0 /\ c.t \in Tag
         /\ tag[c.t] # NoTag
  <1>1. PICK t \in Tag, n \in Name :
          /\ "rename" \in Kinds /\ At(r, "idle") /\ Tags(r)[t] # NoTag
          /\ Goto(r, [Idle EXCEPT !.kind = "rename", !.at = "rename", !.t = t, !.names = {n}])
          /\ UNCHANGED <<db, serial, patch>>
    BY DEF CheckRename
  <1>2. PICK c : c = [Idle EXCEPT !.kind = "rename", !.at = "rename", !.t = t, !.names = {n}]
    OBVIOUS
  <1>3. c = Local("rename", "rename", 0, t, "", None, {}, {n}, {})
    BY <1>2 DEF Idle, Local
  <1>4. c \in Call
    <2>1. "rename" \in Places /\ t \in Nat
      BY BookmarksAssumption DEF Places, BookmarksAssumption
    <2>2. Local("rename", "rename", 0, t, "", None, {}, {n}, {}) \in Call
      BY <1>1, <2>1, LocalType
    <2> QED BY <1>3, <2>2
  <1>5. c.kind = "rename" /\ c.at = "rename" /\ c.b = 0 /\ c.t = t
    BY <1>3 DEF Local
  <1>6. Goto(r, c) /\ UNCHANGED <<db, serial, patch>> /\ call[r].at = "idle"
    BY <1>1, <1>2 DEF At
  <1>7. Moves(r) /\ call'[r] = c /\ patch' = patch /\ serial' = serial
    BY <1>4, <1>6, CallMoves
  <1>8. Tags(r) = tag
    BY <1>6, SeenClean DEF BaseInv, Clean, Outside
  <1> QED BY <1>1, <1>5, <1>6, <1>7, <1>8

\* The checks of a tag's name keep the base invariant.
LEMMA ChecksKeep ==
  ASSUME BaseInv, NEW r \in Request, CheckNewTag(r) \/ CheckRename(r)
  PROVE  BaseInv'
  <1>1. /\ Moves(r) /\ patch' = patch /\ serial' = serial /\ call[r].at = "idle"
        /\ call'[r].b = 0
        /\ \/ call'[r].kind = "newtag" /\ call'[r].at = "insert"
           \/ call'[r].kind = "rename" /\ call'[r].at = "rename" /\ call'[r].t \in Tag
    BY CheckNewTagStep, CheckRenameStep
  <1>2. Where(call'[r]) /\ Locals(call'[r])
    BY <1>1 DEF Where, Locals, Savers
  <1> QED BY <1>1, <1>2, StartKeeps DEF Savers

\* mergeTagsUI resolves the names one by one.
LEMMA MergeTagsStep ==
  ASSUME BaseInv, NEW r \in Request, MergeTags(r)
  PROVE  LET c == call'[r] IN
         /\ Moves(r) /\ patch' = patch /\ serial' = serial /\ call[r].at = "idle"
         /\ c.kind = "merge" /\ c.at = "resolve" /\ c.b \in Tag /\ c.ids = {}
  <1>1. PICK t \in Tag, names \in SUBSET Name :
          /\ "merge" \in Kinds /\ At(r, "idle")
          /\ Goto(r, [Idle EXCEPT !.kind = "merge", !.at = "resolve", !.b = t, !.names = names])
          /\ UNCHANGED <<db, serial, patch>>
    BY DEF MergeTags
  <1>2. PICK c : c = [Idle EXCEPT !.kind = "merge", !.at = "resolve", !.b = t, !.names = names]
    OBVIOUS
  <1>3. c = Local("merge", "resolve", t, 0, "", None, {}, names, {})
    BY <1>2 DEF Idle, Local
  <1>4. c \in Call
    <2>1. "resolve" \in Places /\ t \in Nat
      BY BookmarksAssumption DEF Places, BookmarksAssumption
    <2>2. Local("merge", "resolve", t, 0, "", None, {}, names, {}) \in Call
      BY <1>1, <2>1, LocalType
    <2> QED BY <1>3, <2>2
  <1>5. c.kind = "merge" /\ c.at = "resolve" /\ c.b = t /\ c.ids = {}
    BY <1>3 DEF Local
  <1>6. Goto(r, c) /\ UNCHANGED <<db, serial, patch>> /\ call[r].at = "idle"
    BY <1>1, <1>2 DEF At
  <1>7. Moves(r) /\ call'[r] = c /\ patch' = patch /\ serial' = serial
    BY <1>4, <1>6, CallMoves
  <1> QED BY <1>1, <1>5, <1>6, <1>7

\* MergeTags keeps the base invariant.
LEMMA MergeTagsKeeps ==
  ASSUME BaseInv, NEW r \in Request, MergeTags(r)
  PROVE  BaseInv'
  <1>1. /\ Moves(r) /\ patch' = patch /\ serial' = serial /\ call[r].at = "idle"
        /\ call'[r].kind = "merge" /\ call'[r].at = "resolve" /\ call'[r].b \in Tag
        /\ call'[r].ids = {}
    BY MergeTagsStep
  <1>2. Where(call'[r]) /\ Locals(call'[r])
    BY <1>1 DEF Where, Locals, Savers
  <1> QED BY <1>1, <1>2, StartKeeps DEF Savers

\* What the look-up of one tag to merge changes.
LEMMA ResolveMergedStep ==
  ASSUME BaseInv, NEW r \in Request, ResolveMerged(r)
  PROVE  /\ Moves(r) /\ patch' = patch /\ serial' = serial /\ call[r].at = "resolve"
         /\ \/ call'[r] = Idle
            \/ \E t \in Tag \ {call[r].b} :
                 /\ call'[r].at \in {"resolve", "begin"} /\ Stays(call[r], call'[r])
                 /\ call'[r].ids = call[r].ids \cup {t}
  <1>1. PICK n : n = CHOOSE m \in call[r].names : TRUE
    OBVIOUS
  <1>2. /\ call[r].at = "resolve" /\ UNCHANGED <<db, serial, patch>> /\ call[r] \in Call
        /\ IF Named(r, n) = {} THEN Ends(r)
           ELSE \E t \in Named(r, n) :
                  IF t = call[r].b THEN Ends(r)
                  ELSE Goto(r, [call[r] EXCEPT !.ids = @ \cup {t}, !.names = @ \ {n},
                                  !.at = IF call[r].names = {n} THEN "begin" ELSE "resolve"])
    BY <1>1, SeenType DEF ResolveMerged, At
  <1>3. CASE Ends(r)
    <2>1. Goto(r, Idle)
      BY <1>3 DEF Ends, Goto
    <2>2. Moves(r) /\ call'[r] = Idle /\ patch' = patch /\ serial' = serial
      BY <1>2, <2>1, IdleType, CallMoves
    <2> QED BY <1>2, <2>2
  <1>4. CASE ~Ends(r)
    <2>1. PICK t \in Named(r, n) :
            /\ t # call[r].b
            /\ Goto(r, [call[r] EXCEPT !.ids = @ \cup {t}, !.names = @ \ {n},
                          !.at = IF call[r].names = {n} THEN "begin" ELSE "resolve"])
      BY <1>2, <1>4
    <2>2. t \in Tag /\ t \in Nat
      BY <2>1, BookmarksAssumption DEF Named, BookmarksAssumption
    <2>3. PICK d : d = [call[r] EXCEPT !.ids = @ \cup {t}, !.names = @ \ {n}]
      OBVIOUS
    <2>4. d \in Call
      BY <1>2, <2>2, <2>3 DEF Call
    <2>5. PICK place : place = IF call[r].names = {n} THEN "begin" ELSE "resolve"
      OBVIOUS
    <2>6. PICK c : c = [call[r] EXCEPT !.ids = @ \cup {t}, !.names = @ \ {n}, !.at = place]
      OBVIOUS
    <2>7. /\ c.at = place /\ Stays(call[r], c) /\ c.ids = call[r].ids \cup {t}
      BY <1>2, <2>6 DEF Call, Stays
    <2>8. c \in Call
      <3>1. PICK e : e = [d EXCEPT !.at = place]
        OBVIOUS
      <3>2. e \in Call
        BY <2>4, <2>5, <3>1 DEF Call, Places
      <3>3. c = e
        BY <1>2, <2>3, <2>6, <3>1 DEF Call
      <3> QED BY <3>2, <3>3
    <2>9. Goto(r, c)
      BY <2>1, <2>5, <2>6
    <2>10. Moves(r) /\ call'[r] = c /\ patch' = patch /\ serial' = serial
      BY <1>2, <2>8, <2>9, CallMoves
    <2> QED BY <1>2, <2>1, <2>2, <2>5, <2>7, <2>10
  <1> QED BY <1>3, <1>4

\* ResolveMerged keeps the base invariant.
LEMMA ResolveMergedKeeps ==
  ASSUME BaseInv, NEW r \in Request, ResolveMerged(r)
  PROVE  BaseInv'
  <1>1. Moves(r) /\ patch' = patch /\ serial' = serial /\ call[r].at = "resolve"
    BY ResolveMergedStep
  <1>2. CASE call'[r] = Idle
    <2>1. call'[r].kind = "none" /\ call'[r].at = "idle" /\ call'[r].b = 0
      <3>1. Idle.kind = "none" /\ Idle.at = "idle" /\ Idle.b = 0
        BY DEF Idle
      <3> QED BY <1>2, <3>1
    <2>2. Where(call'[r]) /\ Locals(call'[r])
      BY <2>1 DEF Where, Locals, Savers
    <2>3. patch[r] = Patch /\ 0 < serial.bookmark
      BY <1>1 DEF BaseInv, Clean, Outside, Fresh, Types
    <2>4. Patch.locks = {} /\ DOMAIN Patch.bookmark = {} /\ Patch.add = {} /\ Patch.del = {}
      BY DEF Patch
    <2>5. Clean(r)' /\ Keeps(r)'
      BY <1>1, <2>1, <2>3 DEF Clean, Keeps, Savers
    <2>6. Behaves(r)
      BY <1>1, <2>1, <2>2, <2>3, <2>4, <2>5 DEF Behaves
    <2> QED BY <1>1, <2>6, MoveKeeps
  <1>3. CASE call'[r] # Idle
    <2>1. PICK t \in Tag : /\ call'[r].at \in {"resolve", "begin"} /\ Stays(call[r], call'[r])
                           /\ call'[r].ids = call[r].ids \cup {t}
      BY <1>3, ResolveMergedStep
    <2>2. Where(call[r]) /\ Locals(call[r]) /\ call[r].kind = "merge" /\ patch[r] = Patch
      BY <1>1, KindOf DEF BaseInv, Clean, Outside
    <2>3. Where(call'[r]) /\ Locals(call'[r])
      BY <1>1, <2>1, <2>2 DEF Where, Locals, Stays, Savers
    <2>4. /\ patch[r].del \subseteq link
          /\ \A q \in Request \ {r} : (patch[r].add \cup patch[r].del) \cap Links4(q) = {}
      BY DEF BaseInv, LinkLocks, Links4
    <2> QED BY <1>1, <2>1, <2>2, <2>3, <2>4, RowsKept DEF Stays, Outside
  <1> QED BY <1>2, <1>3

\* The transaction begins.
LEMMA BeginMergeStep ==
  ASSUME BaseInv, NEW r \in Request, BeginMerge(r)
  PROVE  /\ Moves(r) /\ patch' = patch /\ serial' = serial /\ Turn(r)
         /\ call[r].at = "begin" /\ patch[r] = Patch /\ call[r].kind = "merge"
         /\ call'[r].at = "copy" /\ Stays(call[r], call'[r]) /\ call'[r].ids = call[r].ids
  <1>1. /\ call[r].at = "begin" /\ Turn(r) /\ UNCHANGED <<db, serial, patch>> /\ call[r] \in Call
        /\ Goto(r, [call[r] EXCEPT !.at = "copy"])
    BY SeenType DEF BeginMerge, At
  <1>2. patch[r] = Patch /\ call[r].kind = "merge"
    BY <1>1, KindOf DEF BaseInv, Clean, Outside
  <1>3. PICK c : c = [call[r] EXCEPT !.at = "copy"]
    OBVIOUS
  <1>4. c \in Call /\ c.at = "copy" /\ Stays(call[r], c) /\ c.ids = call[r].ids
    BY <1>1, <1>3 DEF Call, Places, Stays
  <1>5. Goto(r, c)
    BY <1>1, <1>3
  <1>6. Moves(r) /\ call'[r] = c /\ patch' = patch /\ serial' = serial
    BY <1>1, <1>4, <1>5, CallMoves
  <1> QED BY <1>1, <1>2, <1>4, <1>6

\* BeginMerge keeps the base invariant.
LEMMA BeginMergeKeeps ==
  ASSUME BaseInv, NEW r \in Request, BeginMerge(r)
  PROVE  BaseInv'
  <1>1. /\ Moves(r) /\ patch' = patch /\ call[r].at = "begin" /\ call[r].kind = "merge"
        /\ call'[r].at = "copy" /\ Stays(call[r], call'[r]) /\ call'[r].ids = call[r].ids
    BY BeginMergeStep
  <1>2. Where(call[r]) /\ Locals(call[r])
    BY DEF BaseInv
  <1>3. Where(call'[r]) /\ Locals(call'[r])
    BY <1>1, <1>2 DEF Where, Locals, Stays, Savers
  <1>4. /\ patch[r].del \subseteq link
        /\ \A q \in Request \ {r} : (patch[r].add \cup patch[r].del) \cap Links4(q) = {}
    BY DEF BaseInv, LinkLocks, Links4
  <1> QED BY <1>1, <1>3, <1>4, RowsKept DEF Stays, Outside

\* INSERT ... SELECT.
LEMMA CopyLinksStep ==
  ASSUME BaseInv, NEW r \in Request, CopyLinks(r)
  PROVE  LET t == call'[r].t
             new == {<<b, call[r].b>> : b \in {c \in Bookmark : <<c, t>> \in Links(r)}} \ Links(r)
         IN
         /\ Moves(r) /\ serial' = serial
         /\ call[r].at = "copy" /\ call[r].kind = "merge" /\ call'[r].at = "clear"
         /\ Stays(call[r], call'[r]) /\ call'[r].ids = call[r].ids
         /\ t \in call[r].ids /\ t \in Tag
         /\ patch'[r].bookmark = patch[r].bookmark /\ patch'[r].tag = patch[r].tag
         /\ patch'[r].job = patch[r].job /\ patch'[r].locks = patch[r].locks
         /\ patch'[r].add = patch[r].add \cup new /\ patch'[r].del = patch[r].del
         /\ \A l \in new : FreeLink(r, l)
  <1>1. PICK t : t = Least(call[r].ids)
    OBVIOUS
  <1>2. PICK new : new = {<<b, call[r].b>> : b \in {c \in Bookmark : <<c, t>> \in Links(r)}}
                           \ Links(r)
    OBVIOUS
  <1>3. /\ call[r].at = "copy" /\ \A l \in new : FreeLink(r, l)
        /\ Writes(r, [patch[r] EXCEPT !.add = @ \cup new])
        /\ Goto(r, [call[r] EXCEPT !.at = "clear", !.t = t])
        /\ UNCHANGED db /\ serial' = serial
    BY <1>1, <1>2 DEF CopyLinks, At
  <1>4. call[r] \in Call /\ patch[r] \in Change /\ call[r].kind = "merge"
    BY <1>3, SeenType, KindOf
  <1>5. call[r].b \in Tag /\ call[r].ids \subseteq Tag /\ call[r].ids # {}
    BY <1>3, <1>4 DEF BaseInv, Locals
  <1>6. t \in call[r].ids /\ t \in Tag /\ t \in Nat
    BY <1>1, <1>4, <1>5, LeastIn DEF Call
  <1>7. new \subseteq Link
    <2>1. ASSUME NEW l \in new PROVE l \in Link
      <3>1. PICK b \in Bookmark : l = <<b, call[r].b>>
        BY <1>2, <2>1, Zenon
      <3> QED BY <1>5, <3>1 DEF Link
    <2> QED BY <2>1
  <1>8. PICK c : c = [call[r] EXCEPT !.at = "clear", !.t = t]
    OBVIOUS
  <1>9. c \in Call /\ c.at = "clear" /\ Stays(call[r], c) /\ c.t = t /\ c.ids = call[r].ids
    BY <1>4, <1>6, <1>8 DEF Call, Places, Stays
  <1>10. PICK p : p = [patch[r] EXCEPT !.add = @ \cup new]
    OBVIOUS
  <1>11. /\ p \in Change
         /\ p.bookmark = patch[r].bookmark /\ p.tag = patch[r].tag
         /\ p.job = patch[r].job /\ p.locks = patch[r].locks
         /\ p.add = patch[r].add \cup new /\ p.del = patch[r].del
    BY <1>4, <1>7, <1>10 DEF Change
  <1>12. Goto(r, c) /\ Writes(r, p)
    BY <1>3, <1>8, <1>10
  <1>13. serial' \in [bookmark : Nat, tag : Nat] /\ serial'.bookmark >= serial.bookmark
    BY <1>3 DEF BaseInv, Types
  <1>14. Moves(r) /\ call'[r] = c /\ patch'[r] = p
    BY <1>3, <1>9, <1>11, <1>12, <1>13, RequestMoves
  <1> QED BY <1>2, <1>3, <1>4, <1>6, <1>9, <1>11, <1>14

\* CopyLinks keeps the base invariant.
LEMMA CopyLinksKeeps ==
  ASSUME BaseInv, NEW r \in Request, CopyLinks(r)
  PROVE  BaseInv'
  <1>1. /\ Moves(r) /\ call[r].at = "copy" /\ call[r].kind = "merge" /\ call'[r].at = "clear"
        /\ Stays(call[r], call'[r]) /\ call'[r].ids = call[r].ids /\ call'[r].t \in Tag
    BY CopyLinksStep
  <1>2. PICK new : /\ \A l \in new : FreeLink(r, l)
                   /\ patch'[r].bookmark = patch[r].bookmark /\ patch'[r].locks = patch[r].locks
                   /\ patch'[r].add = patch[r].add \cup new /\ patch'[r].del = patch[r].del
    BY CopyLinksStep
  <1>3. Where(call[r]) /\ Locals(call[r])
    BY DEF BaseInv
  <1>4. Where(call'[r]) /\ Locals(call'[r])
    BY <1>1, <1>3 DEF Where, Locals, Stays, Savers
  <1>5. patch'[r].del \subseteq link
    BY <1>2 DEF BaseInv, LinkLocks
  <1>6. \A q \in Request \ {r} : (patch'[r].add \cup patch'[r].del) \cap Links4(q) = {}
    BY <1>2 DEF BaseInv, LinkLocks, Links4, FreeLink, Others
  <1> QED BY <1>1, <1>2, <1>4, <1>5, <1>6, RowsKept DEF Stays, Outside

-----------------------------------------------------------------------------
(***************************************************************************)
(* TagMany.                                                                 *)
(***************************************************************************)
LEMMA ResolveTagStep ==
  ASSUME BaseInv, NEW r \in Request, ResolveTag(r)
  PROVE  LET c == call'[r] IN
         \E n \in Name :
           /\ TagFor(r, n) \in Tag /\ CountsTag(r, n)
           /\ Moves(r) /\ Turn(r) /\ call[r].at = "idle" /\ patch[r] = Patch
           /\ c.kind \in {"tag", "untag"} /\ c.at = "each" /\ c.b = 0
           /\ c.t = TagFor(r, n) /\ c.ids \subseteq Bookmark
           /\ patch'[r] = WithTag(r, n)
  <1>1. PICK kind, n, ids :
          /\ kind \in {"tag", "untag"} /\ n \in Name /\ ids \in SUBSET Bookmark
          /\ Begins(r, kind) /\ TagFor(r, n) \in Tag
          /\ Writes(r, WithTag(r, n)) /\ CountsTag(r, n)
          /\ Goto(r, [Idle EXCEPT !.kind = kind, !.at = "each", !.t = TagFor(r, n), !.ids = ids])
          /\ UNCHANGED db
    BY DEF ResolveTag, Plain
  <1>2. /\ call[r].at = "idle" /\ Turn(r) /\ patch[r] = Patch /\ kind \in Kinds
    BY <1>1 DEF Begins, BaseInv, Clean, Outside
  <1>3. PICK t : t = TagFor(r, n)
    OBVIOUS
  <1>4. t \in Tag /\ t \in Nat /\ ids \in SUBSET Nat
    BY <1>1, <1>3, BookmarksAssumption DEF BookmarksAssumption
  <1>5. PICK c : c = [Idle EXCEPT !.kind = kind, !.at = "each", !.t = t, !.ids = ids]
    OBVIOUS
  <1>6. c = Local(kind, "each", 0, t, "", None, {}, {}, ids)
    BY <1>5 DEF Idle, Local
  <1>7. c \in Call
    <2>1. "each" \in Places
      BY DEF Places
    <2>2. Local(kind, "each", 0, t, "", None, {}, {}, ids) \in Call
      BY <1>2, <1>4, <2>1, LocalType
    <2> QED BY <1>6, <2>2
  <1>8. c.kind = kind /\ c.at = "each" /\ c.b = 0 /\ c.t = t /\ c.ids = ids
    BY <1>6 DEF Local
  <1>9. /\ WithTag(r, n) \in Change
        /\ serial' \in [bookmark : Nat, tag : Nat] /\ serial'.bookmark = serial.bookmark
    BY <1>1, GetTag
  <1>10. serial'.bookmark >= serial.bookmark
    BY <1>9 DEF BaseInv, Types
  <1>11. Goto(r, c)
    BY <1>1, <1>3, <1>5
  <1>12. Moves(r) /\ call'[r] = c /\ patch'[r] = WithTag(r, n)
    BY <1>1, <1>7, <1>9, <1>10, <1>11, RequestMoves
  <1> QED BY <1>1, <1>2, <1>3, <1>8, <1>12

\* ResolveTag keeps the base invariant.
LEMMA ResolveTagKeeps ==
  ASSUME BaseInv, NEW r \in Request, ResolveTag(r)
  PROVE  BaseInv'
  <1>1. PICK n \in Name : /\ TagFor(r, n) \in Tag /\ CountsTag(r, n)
                          /\ call'[r].t = TagFor(r, n) /\ patch'[r] = WithTag(r, n)
    BY ResolveTagStep
  <1>2. /\ Moves(r) /\ patch[r] = Patch
        /\ call'[r].kind \in {"tag", "untag"} /\ call'[r].at = "each" /\ call'[r].b = 0
        /\ call'[r].ids \subseteq Bookmark
    BY ResolveTagStep
  <1>3. /\ patch'[r].locks = {} /\ DOMAIN patch'[r].bookmark = {}
        /\ patch'[r].add = {} /\ patch'[r].del = {}
    <2>1. Patch.locks = {} /\ DOMAIN Patch.bookmark = {} /\ Patch.add = {} /\ Patch.del = {}
      BY DEF Patch
    <2>2. /\ WithTag(r, n).bookmark = patch[r].bookmark /\ WithTag(r, n).locks = patch[r].locks
          /\ WithTag(r, n).add = patch[r].add /\ WithTag(r, n).del = patch[r].del
      BY <1>1, GetTag
    <2> QED BY <1>1, <1>2, <2>1, <2>2
  <1>4. 0 < serial'.bookmark
    BY <1>1, GetTag DEF BaseInv, Fresh, Types
  <1>5. Where(call'[r]) /\ Locals(call'[r]) /\ Clean(r)' /\ Keeps(r)'
    BY <1>1, <1>2 DEF Where, Locals, Clean, Keeps, Savers, Outside
  <1>6. Behaves(r)
    BY <1>2, <1>3, <1>4, <1>5 DEF Behaves
  <1> QED BY <1>2, <1>6, MoveKeeps

\* INSERT OR IGNORE, or DELETE, of one link; a bookmark that is gone is passed over.
LEMMA TagOneStep ==
  ASSUME BaseInv, NEW r \in Request, TagOne(r)
  PROVE  /\ Moves(r) /\ serial' = serial
         /\ call[r].at = "each" /\ call[r].kind \in {"tag", "untag"}
         /\ call'[r].at \in {"each", "touch"}
         /\ call'[r].kind = call[r].kind /\ call'[r].t = call[r].t
         /\ call'[r].ids \subseteq call[r].ids
         /\ patch'[r].bookmark = patch[r].bookmark /\ patch'[r].locks = patch[r].locks
         /\ patch'[r].tag = patch[r].tag /\ patch'[r].job = patch[r].job
         /\ \/ patch'[r] = patch[r] /\ call'[r].b = call[r].b /\ call'[r].at = "each"
            \/ \E l \in Link :
                 /\ call'[r].b = l[1] /\ l[1] \in Found(r) /\ FreeLink(r, l)
                 /\ patch'[r].add \subseteq patch[r].add \cup {l}
                 /\ patch'[r].del \subseteq patch[r].del \cup ({l} \cap link)
  <1>1. PICK b : b = Least(call[r].ids)
    OBVIOUS
  <1>2. PICK l : l = <<b, call[r].t>>
    OBVIOUS
  <1>3. /\ call[r].at = "each" /\ call[r].ids # {} /\ call[r] \in Call /\ patch[r] \in Change
        /\ UNCHANGED db /\ serial' = serial
    BY SeenType DEF TagOne, At
  <1>4. call[r].kind \in {"tag", "untag"}
    BY <1>3, KindOf
  <1>5. call[r].t \in Tag /\ call[r].ids \subseteq Bookmark
    BY <1>4 DEF BaseInv, Locals
  <1>6. b \in Bookmark /\ b \in Nat /\ l \in Link /\ l[1] = b
    BY <1>1, <1>2, <1>3, <1>5, LeastIn DEF Link, Call
  <1>7. serial' \in [bookmark : Nat, tag : Nat] /\ serial'.bookmark >= serial.bookmark
    BY <1>3 DEF BaseInv, Types
  <1>8. CASE b \in Found(r)
    <2>1. /\ FreeLink(r, l)
          /\ Writes(r, IF call[r].kind = "tag"
                       THEN [patch[r] EXCEPT !.add = IF l \in Links(r) THEN @ ELSE @ \cup {l}]
                       ELSE [patch[r] EXCEPT !.del = @ \cup ({l} \cap link), !.add = @ \ {l}])
          /\ Goto(r, [call[r] EXCEPT !.at = "touch", !.b = b, !.ids = @ \ {b}])
      BY <1>1, <1>2, <1>8 DEF TagOne
    <2>2. PICK c : c = [call[r] EXCEPT !.at = "touch", !.b = b, !.ids = @ \ {b}]
      OBVIOUS
    <2>3. c \in Call
      <3>1. PICK d : d = [call[r] EXCEPT !.at = "touch", !.b = b]
        OBVIOUS
      <3>2. d \in Call
        BY <1>3, <1>6, <3>1 DEF Call, Places
      <3>3. PICK e : e = [d EXCEPT !.ids = @ \ {b}]
        OBVIOUS
      <3>4. e \in Call
        BY <3>2, <3>3 DEF Call
      <3>5. c = e
        BY <1>3, <2>2, <3>1, <3>3 DEF Call
      <3> QED BY <3>4, <3>5
    <2>4. /\ c.at = "touch" /\ c.kind = call[r].kind /\ c.t = call[r].t /\ c.b = b
          /\ c.ids = call[r].ids \ {b}
      BY <1>3, <2>2 DEF Call
    <2>5. PICK p : p = IF call[r].kind = "tag"
                       THEN [patch[r] EXCEPT !.add = IF l \in Links(r) THEN @ ELSE @ \cup {l}]
                       ELSE [patch[r] EXCEPT !.del = @ \cup ({l} \cap link), !.add = @ \ {l}]
      OBVIOUS
    <2>6. /\ p \in Change /\ p.bookmark = patch[r].bookmark /\ p.locks = patch[r].locks
          /\ p.tag = patch[r].tag /\ p.job = patch[r].job
          /\ p.add \subseteq patch[r].add \cup {l}
          /\ p.del \subseteq patch[r].del \cup ({l} \cap link)
      <3>1. CASE call[r].kind = "tag"
        <4>1. PICK add : add = IF l \in Links(r) THEN patch[r].add ELSE patch[r].add \cup {l}
          OBVIOUS
        <4>2. p = [patch[r] EXCEPT !.add = add]
          BY <2>5, <3>1, <4>1
        <4>3. add \subseteq patch[r].add \cup {l} /\ add \subseteq Link
          BY <1>3, <1>6, <4>1 DEF Change
        <4> QED BY <1>3, <4>2, <4>3 DEF Change
      <3>2. CASE call[r].kind # "tag"
        <4>1. p = [patch[r] EXCEPT !.del = @ \cup ({l} \cap link), !.add = @ \ {l}]
          BY <2>5, <3>2
        <4> QED BY <1>3, <1>6, <4>1 DEF Change
      <3> QED BY <3>1, <3>2
    <2>7. Goto(r, c) /\ Writes(r, p)
      BY <2>1, <2>2, <2>5
    <2>8. Moves(r) /\ call'[r] = c /\ patch'[r] = p
      BY <1>3, <1>7, <2>3, <2>6, <2>7, RequestMoves
    <2> QED BY <1>3, <1>4, <1>6, <1>8, <2>1, <2>4, <2>6, <2>8
  <1>9. CASE b \notin Found(r)
    <2>1. Goto(r, [call[r] EXCEPT !.ids = @ \ {b}]) /\ UNCHANGED patch
      BY <1>1, <1>9 DEF TagOne
    <2>2. PICK c : c = [call[r] EXCEPT !.ids = @ \ {b}]
      OBVIOUS
    <2>3. /\ c \in Call /\ c.at = "each" /\ c.kind = call[r].kind /\ c.t = call[r].t
          /\ c.b = call[r].b /\ c.ids = call[r].ids \ {b}
      BY <1>3, <2>2 DEF Call
    <2>4. Goto(r, c) /\ UNCHANGED <<db, serial, patch>>
      BY <1>3, <2>1, <2>2
    <2>5. Moves(r) /\ call'[r] = c /\ patch' = patch /\ serial' = serial
      BY <2>3, <2>4, CallMoves
    <2> QED BY <1>3, <1>4, <2>3, <2>5
  <1> QED BY <1>8, <1>9

\* TagOne keeps the base invariant.
LEMMA TagOneKeeps ==
  ASSUME BaseInv, NEW r \in Request, TagOne(r)
  PROVE  BaseInv'
  <1>1. /\ Moves(r) /\ serial' = serial
        /\ call[r].kind \in {"tag", "untag"} /\ call'[r].at \in {"each", "touch"}
        /\ call'[r].kind = call[r].kind /\ call'[r].t = call[r].t
        /\ call'[r].ids \subseteq call[r].ids
        /\ patch'[r].bookmark = patch[r].bookmark /\ patch'[r].locks = patch[r].locks
    BY TagOneStep
  <1>2. /\ DOMAIN patch[r].bookmark \subseteq patch[r].locks
        /\ \A d \in patch[r].locks : d < serial.bookmark
        /\ call[r].b < serial.bookmark /\ patch[r].del \subseteq link
    BY <1>1 DEF BaseInv, RowLocks, LinkLocks, Fresh
  <1>3. \A q \in Request \ {r} : /\ patch[r].locks \cap patch[q].locks = {}
                                 /\ (patch[r].add \cup patch[r].del) \cap Links4(q) = {}
    BY DEF BaseInv, RowLocks, LinkLocks, Links4
  <1>4. /\ call'[r].b < serial.bookmark /\ patch'[r].del \subseteq link
        /\ \A q \in Request \ {r} : (patch'[r].add \cup patch'[r].del) \cap Links4(q) = {}
        /\ call'[r].at = "touch" => call'[r].b \in Bookmark
    <2>1. CASE patch'[r] = patch[r] /\ call'[r].b = call[r].b /\ call'[r].at = "each"
      BY <1>2, <1>3, <2>1
    <2>2. CASE ~(patch'[r] = patch[r] /\ call'[r].b = call[r].b /\ call'[r].at = "each")
      <3>1. PICK l \in Link :
              /\ call'[r].b = l[1] /\ l[1] \in Found(r) /\ FreeLink(r, l)
              /\ patch'[r].add \subseteq patch[r].add \cup {l}
              /\ patch'[r].del \subseteq patch[r].del \cup ({l} \cap link)
        BY <2>2, TagOneStep
      <3>2. call'[r].b \in Bookmark /\ call'[r].b < serial.bookmark
        BY <3>1, FoundOld
      <3>3. \A q \in Request \ {r} : l \notin Links4(q)
        BY <3>1 DEF FreeLink, Others, Links4
      <3> QED BY <1>2, <1>3, <3>1, <3>2, <3>3
    <2> QED BY <2>1, <2>2
  <1>5. Locals(call[r])
    BY DEF BaseInv
  <1>6. Where(call'[r]) /\ Locals(call'[r]) /\ Clean(r)' /\ Keeps(r)'
    BY <1>1, <1>4, <1>5 DEF Where, Locals, Clean, Keeps, Savers, Outside
  <1>7. Behaves(r)
    BY <1>1, <1>2, <1>3, <1>4, <1>6 DEF Behaves
  <1> QED BY <1>1, <1>7, MoveKeeps

\* date_modified of the bookmark.
LEMMA TouchStep ==
  ASSUME BaseInv, NEW r \in Request, Touch(r)
  PROVE  /\ Moves(r) /\ serial' = serial
         /\ call[r].at = "touch" /\ call[r].kind \in {"tag", "untag"} /\ call'[r].at = "each"
         /\ Stays(call[r], call'[r]) /\ call'[r].t = call[r].t /\ call'[r].ids = call[r].ids
         /\ FreeRow(r, call[r].b) /\ call[r].b \in Bookmark
         /\ patch'[r].bookmark = patch[r].bookmark
         /\ patch'[r].locks = patch[r].locks \cup {call[r].b}
         /\ patch'[r].tag = patch[r].tag /\ patch'[r].job = patch[r].job
         /\ patch'[r].add = patch[r].add /\ patch'[r].del = patch[r].del
  <1>1. /\ call[r].at = "touch" /\ FreeRow(r, call[r].b)
        /\ Writes(r, [patch[r] EXCEPT !.locks = @ \cup {call[r].b}])
        /\ Goto(r, [call[r] EXCEPT !.at = "each"])
        /\ UNCHANGED db /\ serial' = serial
        /\ call[r] \in Call /\ patch[r] \in Change
    BY SeenType DEF Touch, At
  <1>2. call[r].kind \in {"tag", "untag"} /\ call[r].b \in Bookmark
    BY <1>1, KindOf DEF BaseInv, Locals
  <1>3. PICK c : c = [call[r] EXCEPT !.at = "each"]
    OBVIOUS
  <1>4. c \in Call /\ c.at = "each" /\ Stays(call[r], c) /\ c.t = call[r].t /\ c.ids = call[r].ids
    BY <1>1, <1>3 DEF Call, Places, Stays
  <1>5. PICK p : p = [patch[r] EXCEPT !.locks = @ \cup {call[r].b}]
    OBVIOUS
  <1>6. /\ p \in Change /\ p.bookmark = patch[r].bookmark
        /\ p.locks = patch[r].locks \cup {call[r].b}
        /\ p.tag = patch[r].tag /\ p.job = patch[r].job
        /\ p.add = patch[r].add /\ p.del = patch[r].del
    BY <1>1, <1>2, <1>5 DEF Change
  <1>7. serial' \in [bookmark : Nat, tag : Nat] /\ serial'.bookmark >= serial.bookmark
    BY <1>1 DEF BaseInv, Types
  <1>8. Goto(r, c) /\ Writes(r, p)
    BY <1>1, <1>3, <1>5
  <1>9. Moves(r) /\ call'[r] = c /\ patch'[r] = p
    BY <1>1, <1>4, <1>6, <1>7, <1>8, RequestMoves
  <1> QED BY <1>1, <1>2, <1>4, <1>6, <1>9

\* Touch keeps the base invariant.
LEMMA TouchKeeps ==
  ASSUME BaseInv, NEW r \in Request, Touch(r)
  PROVE  BaseInv'
  <1> DEFINE b == call[r].b
  <1>1. /\ Moves(r) /\ serial' = serial
        /\ call[r].kind \in {"tag", "untag"} /\ call'[r].at = "each"
        /\ Stays(call[r], call'[r]) /\ call'[r].t = call[r].t /\ call'[r].ids = call[r].ids
        /\ FreeRow(r, b) /\ b \in Bookmark
        /\ patch'[r].bookmark = patch[r].bookmark /\ patch'[r].locks = patch[r].locks \cup {b}
        /\ patch'[r].add = patch[r].add /\ patch'[r].del = patch[r].del
    BY TouchStep
  <1>2. /\ DOMAIN patch[r].bookmark \subseteq patch[r].locks
        /\ \A d \in patch[r].locks : d < serial.bookmark
        /\ b < serial.bookmark /\ patch[r].del \subseteq link
    BY <1>1 DEF BaseInv, RowLocks, LinkLocks, Fresh
  <1>3. \A q \in Request \ {r} : /\ patch'[r].locks \cap patch[q].locks = {}
                                 /\ (patch[r].add \cup patch[r].del) \cap Links4(q) = {}
    BY <1>1 DEF BaseInv, RowLocks, LinkLocks, Links4, FreeRow, Others
  <1>4. Locals(call[r])
    BY DEF BaseInv
  <1>5. Where(call'[r]) /\ Locals(call'[r]) /\ Clean(r)' /\ Keeps(r)'
    BY <1>1, <1>4 DEF Where, Locals, Clean, Keeps, Savers, Outside, Stays
  <1>6. Behaves(r)
    BY <1>1, <1>2, <1>3, <1>5 DEF Behaves, Stays
  <1> QED BY <1>1, <1>6, MoveKeeps

\* What the end of a bulk call's loop over tags changes.
LEMMA TaggedAllStep ==
  ASSUME BaseInv, NEW r \in Request, TaggedAll(r)
  PROVE  /\ Moves(r) /\ patch' = patch /\ serial' = serial
         /\ call[r].at = "each" /\ call[r].kind \in {"tag", "untag"} /\ call'[r].at = "commit"
         /\ Stays(call[r], call'[r]) /\ call'[r].t = call[r].t /\ call'[r].ids = call[r].ids
  <1>1. /\ call[r].at = "each" /\ call[r] \in Call /\ UNCHANGED <<db, serial, patch>>
        /\ Goto(r, [call[r] EXCEPT !.at = "commit"])
    BY SeenType DEF TaggedAll, At
  <1>2. PICK c : c = [call[r] EXCEPT !.at = "commit"]
    OBVIOUS
  <1>3. c \in Call /\ c.at = "commit" /\ Stays(call[r], c) /\ c.t = call[r].t
        /\ c.ids = call[r].ids
    BY <1>1, <1>2 DEF Call, Places, Stays
  <1>4. Goto(r, c)
    BY <1>1, <1>2
  <1>5. Moves(r) /\ call'[r] = c /\ patch' = patch /\ serial' = serial
    BY <1>1, <1>3, <1>4, CallMoves
  <1> QED BY <1>1, <1>3, <1>5, KindOf

\* TaggedAll keeps the base invariant.
LEMMA TaggedAllKeeps ==
  ASSUME BaseInv, NEW r \in Request, TaggedAll(r)
  PROVE  BaseInv'
  <1>1. /\ Moves(r) /\ patch' = patch /\ call[r].kind \in {"tag", "untag"}
        /\ call'[r].at = "commit" /\ Stays(call[r], call'[r])
        /\ call'[r].t = call[r].t /\ call'[r].ids = call[r].ids
    BY TaggedAllStep
  <1>2. Locals(call[r])
    BY DEF BaseInv
  <1>3. Where(call'[r]) /\ Locals(call'[r])
    BY <1>1, <1>2 DEF Where, Locals, Stays, Savers
  <1>4. /\ patch[r].del \subseteq link
        /\ \A q \in Request \ {r} : (patch[r].add \cup patch[r].del) \cap Links4(q) = {}
    BY DEF BaseInv, LinkLocks, Links4
  <1> QED BY <1>1, <1>3, <1>4, RowsKept DEF Stays, Outside

-----------------------------------------------------------------------------
(***************************************************************************)
(* Steps that write the tables.                                             *)
(***************************************************************************)
\* They keep the rows and the links that others hold, and end the request's
\* transaction if it has one.
LEMMA WritesKeep ==
  ASSUME BaseInv, NEW r \in Request,
         bookmark' \in [Bookmark -> Row \cup {None}], tag' \in [Tag -> Name \cup {NoTag}],
         link' \subseteq Link, job' \subseteq Bookmark \X JobKind,
         serial' \in [bookmark : Nat, tag : Nat], serial'.bookmark = serial.bookmark,
         call' \in [Request -> Call], patch' \in [Request -> Change],
         \A q \in Request \ {r} : call'[q] = call[q] /\ patch'[q] = patch[q],
         call'[r].kind = "none", call'[r].at = "idle", call'[r].b < serial.bookmark,
         patch'[r] = Patch,
         \A b \in Bookmark : b >= serial.bookmark => bookmark'[b] = None,
         \A l \in link' : bookmark'[l[1]] # None /\ tag'[l[2]] # NoTag,
         \A q \in Request \ {r} :
           patch[q].del \subseteq link' /\ \A b \in patch[q].locks : bookmark'[b] = bookmark[b]
  PROVE  BaseInv'
  <1>1. Patch.locks = {} /\ DOMAIN Patch.bookmark = {} /\ Patch.add = {} /\ Patch.del = {}
    BY DEF Patch
  <1>2. Types'
    BY DEF Types
  <1>3. Fresh'
    <2>1. ASSUME NEW q \in Request
          PROVE  /\ \A b \in patch'[q].locks : b < serial'.bookmark
                 /\ call'[q].kind # "merge" => call'[q].b < serial'.bookmark
      <3>1. CASE q = r
        BY <1>1, <3>1
      <3>2. CASE q # r
        BY <3>2 DEF BaseInv, Fresh
      <3> QED BY <3>1, <3>2
    <2> QED BY <2>1 DEF BaseInv, Fresh
  <1>4. RowLocks'
    <2>1. RowLocks
      BY DEF BaseInv
    <2>2. ASSUME NEW q \in Request
          PROVE  /\ DOMAIN patch'[q].bookmark \subseteq patch'[q].locks
                 /\ call'[q].kind \in {"form", "rest", "delete"} => call'[q].b \in patch'[q].locks
      <3>1. CASE q = r
        BY <1>1, <3>1
      <3>2. CASE q # r
        BY <2>1, <3>2 DEF RowLocks
      <3> QED BY <3>1, <3>2
    <2>3. \A p, q \in Request : p # q => patch'[p].locks \cap patch'[q].locks = {}
      BY <1>1, <2>1 DEF RowLocks
    <2> QED BY <2>2, <2>3 DEF RowLocks
  <1>5. LinkLocks'
    <2>1. LinkLocks
      BY DEF BaseInv
    <2>2. \A q \in Request \ {r} : Links4(q)' = Links4(q)
      BY DEF Links4
    <2>3. Links4(r)' = {}
      BY <1>1 DEF Links4
    <2>4. \A p, q \in Request : p # q => Links4(p)' \cap Links4(q)' = {}
      BY <2>1, <2>2, <2>3 DEF LinkLocks
    <2>5. \A q \in Request : patch'[q].del \subseteq link'
      BY <1>1
    <2> QED BY <2>4, <2>5 DEF LinkLocks
  <1>6. ASSUME NEW q \in Request
        PROVE  Where(call[q])' /\ Locals(call[q])' /\ Clean(q)' /\ Keeps(q)'
    <2>1. CASE q = r
      BY <2>1 DEF Where, Locals, Clean, Keeps, Savers
    <2>2. CASE q # r
      <3>1. call'[q] = call[q] /\ patch'[q] = patch[q]
        BY <2>2
      <3>2. Where(call[q])' /\ Locals(call[q])' /\ Clean(q)'
        BY <3>1 DEF BaseInv, Clean
      <3>3. Keeps(q)'
        <4>1. /\ DOMAIN patch[q].bookmark \subseteq patch[q].locks
              /\ call[q].kind \in {"form", "rest", "delete"} => call[q].b \in patch[q].locks
              /\ call[q].at = "edit" => call[q].kind \in {"form", "rest"}
          BY KindOf DEF BaseInv, RowLocks
        <4>2. ASSUME NEW b \in Bookmark
              PROVE  Rows(q)'[b] = Rows(q)[b] \/ Rows(q)'[b] = bookmark'[b]
          BY <3>1 DEF Rows, Over, BaseInv, Types
        <4>3. ASSUME NEW b \in Bookmark, Rows(q)'[b] # bookmark'[b]
              PROVE  bookmark'[b] = bookmark[b]
          <5>1. b \in DOMAIN patch[q].bookmark
            BY <3>1, <4>3 DEF Rows, Over
          <5> QED BY <2>2, <4>1, <5>1
        <4>4. Keeps(q)
          BY DEF BaseInv
        <4>5. call[q].at = "edit" => bookmark'[call[q].b] = bookmark[call[q].b]
          BY <2>2, <4>1
        <4>6. ASSUME call[q].b \in Bookmark
              PROVE  \/ Rows(q)'[call[q].b] = bookmark'[call[q].b]
                     \/ /\ bookmark'[call[q].b] = bookmark[call[q].b]
                        /\ Rows(q)'[call[q].b] = Rows(q)[call[q].b]
          BY <4>2, <4>3, <4>6
        <4> QED BY <3>1, <4>4, <4>5, <4>6 DEF Keeps
      <3> QED BY <3>2, <3>3
    <2> QED BY <2>1, <2>2
  <1> QED BY <1>2, <1>3, <1>4, <1>5, <1>6 DEF BaseInv

\* What ends with a commit.
LEMMA EndsTyped ==
  ASSUME BaseInv, NEW r \in Request, Ends(r), patch' = patch \/ Writes(r, Patch)
  PROVE  /\ call' \in [Request -> Call] /\ patch' \in [Request -> Change]
         /\ \A q \in Request \ {r} : call'[q] = call[q] /\ patch'[q] = patch[q]
         /\ call'[r] = Idle /\ call'[r].kind = "none" /\ call'[r].at = "idle"
         /\ call'[r].b < serial.bookmark
         /\ Writes(r, Patch) => patch'[r] = Patch
  <1>1. Idle.kind = "none" /\ Idle.at = "idle" /\ Idle.b = 0
    BY DEF Idle
  <1>2. /\ call' \in [Request -> Call] /\ call'[r] = Idle
        /\ \A q \in Request \ {r} : call'[q] = call[q]
    BY IdleType DEF Ends, BaseInv, Types
  <1>3. /\ patch' \in [Request -> Change]
        /\ \A q \in Request \ {r} : patch'[q] = patch[q]
        /\ Writes(r, Patch) => patch'[r] = Patch
    BY PatchType DEF Writes, BaseInv, Types
  <1>4. 0 < serial.bookmark
    BY DEF BaseInv, Fresh, Types
  <1> QED BY <1>1, <1>2, <1>3, <1>4

\* tx.Commit
LEMMA CommitKeeps ==
  ASSUME BaseInv, NEW r \in Request, Commit(r)
  PROVE  BaseInv'
  <1>1. /\ bookmark' = Rows(r) /\ tag' = Tags(r) /\ link' = Links(r)
        /\ job' = job \cup patch[r].job /\ Writes(r, Patch) /\ Ends(r) /\ serial' = serial
        /\ \A l \in link' : bookmark'[l[1]] # None /\ tag'[l[2]] # NoTag
    BY DEF Commit
  <1>2. /\ bookmark' \in [Bookmark -> Row \cup {None}] /\ tag' \in [Tag -> Name \cup {NoTag}]
        /\ link' \subseteq Link /\ patch[r] \in Change
    BY <1>1, SeenType
  <1>3. job' \subseteq Bookmark \X JobKind /\ serial' \in [bookmark : Nat, tag : Nat]
    BY <1>1, <1>2 DEF BaseInv, Types, Change
  <1>4. \A b \in Bookmark : b >= serial.bookmark => bookmark'[b] = None
    <2>1. SUFFICES ASSUME NEW b \in Bookmark, b >= serial.bookmark, Rows(r)[b] # None
                   PROVE  FALSE
      BY <1>1
    <2>2. b < serial.bookmark
      BY <2>1, FoundOld DEF Found
    <2>3. b \in Nat /\ serial.bookmark \in Nat
      BY BookmarksAssumption DEF BookmarksAssumption, BaseInv, Types
    <2> QED BY <2>1, <2>2, <2>3
  <1>5. ASSUME NEW q \in Request \ {r}
        PROVE  patch[q].del \subseteq link' /\ \A b \in patch[q].locks : bookmark'[b] = bookmark[b]
    <2>1. patch[q].del \subseteq link'
      BY <1>1 DEF BaseInv, LinkLocks, Links4, Links
    <2>2. ASSUME NEW b \in patch[q].locks PROVE bookmark'[b] = bookmark[b]
      <3>1. b \notin patch[r].locks /\ DOMAIN patch[r].bookmark \subseteq patch[r].locks
        BY DEF BaseInv, RowLocks
      <3>2. b \in Bookmark /\ bookmark \in [Bookmark -> Row \cup {None}]
        BY DEF BaseInv, Types, Change
      <3> QED BY <1>1, <3>1, <3>2 DEF Rows, Over
    <2> QED BY <2>1, <2>2
  <1>6. /\ call' \in [Request -> Call] /\ patch' \in [Request -> Change]
        /\ \A q \in Request \ {r} : call'[q] = call[q] /\ patch'[q] = patch[q]
        /\ call'[r].kind = "none" /\ call'[r].at = "idle"
        /\ call'[r].b < serial.bookmark /\ patch'[r] = Patch
    BY <1>1, EndsTyped
  <1> QED BY <1>1, <1>2, <1>3, <1>4, <1>5, <1>6, WritesKeep

\* The statements without a transaction that write tags.
LEMMA TagWritesKeep ==
  ASSUME BaseInv, NEW r \in Request, InsertTag(r) \/ RenameTag(r)
  PROVE  BaseInv'
  <1>1. PICK t \in Tag, n \in Name :
          /\ tag' = [tag EXCEPT ![t] = n] \/ tag' = tag
          /\ call[r].at \in {"insert", "rename"}
          /\ serial' \in [bookmark : Nat, tag : Nat] /\ serial'.bookmark = serial.bookmark
          /\ Ends(r) /\ patch' = patch
          /\ bookmark' = bookmark /\ link' = link /\ job' = job
    <2>1. CASE InsertTag(r)
      <3>1. PICK n \in call[r].names : tag' = [tag EXCEPT ![serial.tag] = n]
        BY <2>1 DEF InsertTag
      <3>2. n \in Name /\ call[r].at = "insert" /\ serial.tag \in Tag
        BY <2>1, SeenType DEF InsertTag, At, Call
      <3>3. serial' \in [bookmark : Nat, tag : Nat] /\ serial'.bookmark = serial.bookmark
        BY <2>1 DEF InsertTag, BaseInv, Types
      <3>4. /\ Ends(r) /\ patch' = patch
            /\ bookmark' = bookmark /\ link' = link /\ job' = job
        BY <2>1 DEF InsertTag
      <3> QED BY <3>1, <3>2, <3>3, <3>4
    <2>2. CASE RenameTag(r)
      <3>1. PICK n \in call[r].names :
              tag' = [tag EXCEPT ![call[r].t] = IF @ = NoTag THEN @ ELSE n]
        BY <2>2 DEF RenameTag
      <3>2. n \in Name /\ call[r].at = "rename" /\ call[r].t \in Tag
        BY <2>2, SeenType, KindOf DEF RenameTag, At, Call, BaseInv, Locals
      <3>3. tag \in [Tag -> Name \cup {NoTag}] /\ serial \in [bookmark : Nat, tag : Nat]
        BY DEF BaseInv, Types
      <3>4. tag' = [tag EXCEPT ![call[r].t] = n] \/ tag' = tag
        BY <3>1, <3>2, <3>3
      <3>5. /\ Ends(r) /\ patch' = patch /\ serial' = serial
            /\ bookmark' = bookmark /\ link' = link /\ job' = job
        BY <2>2 DEF RenameTag
      <3> QED BY <3>2, <3>3, <3>4, <3>5
    <2> QED BY <2>1, <2>2
  <1>2. /\ tag \in [Tag -> Name \cup {NoTag}] /\ bookmark \in [Bookmark -> Row \cup {None}]
        /\ link \subseteq Link /\ job \subseteq Bookmark \X JobKind
    BY DEF BaseInv, Types
  <1>3. n # NoTag
    BY BookmarksAssumption DEF BookmarksAssumption, NoTag
  <1>4. /\ tag' \in [Tag -> Name \cup {NoTag}]
        /\ \A s \in Tag : tag[s] # NoTag => tag'[s] # NoTag
    BY <1>1, <1>2, <1>3
  <1>5. \A l \in link' : bookmark'[l[1]] # None /\ tag'[l[2]] # NoTag
    BY <1>1, <1>2, <1>4 DEF BaseInv, LinkLocks, Link
  <1>6. patch[r] = Patch
    BY <1>1 DEF BaseInv, Clean, Outside
  <1>7. /\ call' \in [Request -> Call] /\ patch' \in [Request -> Change]
        /\ \A q \in Request \ {r} : call'[q] = call[q] /\ patch'[q] = patch[q]
        /\ call'[r].kind = "none" /\ call'[r].at = "idle"
        /\ call'[r].b < serial.bookmark /\ patch'[r] = Patch
    BY <1>1, <1>6, EndsTyped
  <1>8. /\ \A b \in Bookmark : b >= serial.bookmark => bookmark'[b] = None
        /\ \A q \in Request \ {r} : patch[q].del \subseteq link'
    BY <1>1 DEF BaseInv, Fresh, LinkLocks
  <1> QED BY <1>1, <1>2, <1>4, <1>5, <1>7, <1>8, WritesKeep

\* The statements that write rows.
LEMMA RowWritesStep ==
  ASSUME BaseInv, NEW r \in Request, SetState(r) \/ EnhanceMetadata(r)
  PROVE  /\ UNCHANGED <<tag, link, job, serial, call, patch>>
         /\ Turn(r) /\ call[r].at = "idle"
         /\ bookmark' \in [Bookmark -> Row \cup {None}]
         /\ \A b \in Bookmark :
              \/ bookmark'[b] = bookmark[b]
              \/ /\ bookmark'[b] \in Row /\ bookmark[b] \in Row /\ bookmark'[b] # None
                 /\ bookmark[b] # None /\ bookmark'[b].url = bookmark[b].url
                 /\ FreeRow(r, b)
  <1>1. /\ UNCHANGED <<tag, link, job, serial, call, patch>>
        /\ Turn(r) /\ call[r].at = "idle"
    BY DEF SetState, EnhanceMetadata, Begins
  <1>2. Rows(r) = bookmark /\ bookmark \in [Bookmark -> Row \cup {None}]
    BY <1>1, SeenClean DEF BaseInv, Clean, Outside, Types
  <1>3. None \notin Row
    BY NoneNoRow
  <1>4. CASE SetState(r)
    <2>1. PICK ids \in SUBSET Found(r), archived \in BOOLEAN :
            /\ \A b \in ids : FreeRow(r, b)
            /\ bookmark' = [b \in Bookmark |->
                 IF b \in ids THEN [bookmark[b] EXCEPT !.archived = archived] ELSE bookmark[b]]
      BY <1>4 DEF SetState
    <2>2. ASSUME NEW b \in ids
          PROVE  /\ bookmark[b] \in Row /\ [bookmark[b] EXCEPT !.archived = archived] \in Row
                 /\ [bookmark[b] EXCEPT !.archived = archived].url = bookmark[b].url
      <3>1. PICK row : row = bookmark[b]
        OBVIOUS
      <3>2. row \in Row
        BY <1>2, <2>2, <3>1 DEF Found
      <3> QED BY <3>1, <3>2 DEF Row
    <2>3. ids \subseteq Bookmark
      BY <2>1 DEF Found
    <2>4. ASSUME NEW b \in Bookmark
          PROVE  /\ bookmark'[b] \in Row \cup {None}
                 /\ \/ bookmark'[b] = bookmark[b]
                    \/ /\ bookmark'[b] \in Row /\ bookmark[b] \in Row
                       /\ bookmark'[b].url = bookmark[b].url /\ FreeRow(r, b)
      <3>1. CASE b \in ids
        BY <2>1, <2>2, <3>1
      <3>2. CASE b \notin ids
        BY <1>2, <2>1, <3>2
      <3> QED BY <3>1, <3>2
    <2>5. bookmark' \in [Bookmark -> Row \cup {None}]
      BY <2>1, <2>4
    <2> QED BY <1>1, <1>3, <2>4, <2>5
  <1>5. CASE EnhanceMetadata(r)
    <2>1. PICK b \in Found(r) :
            /\ FreeRow(r, b)
            /\ bookmark' = [bookmark EXCEPT ![b].title = IF @ = "" THEN "found" ELSE @]
      BY <1>5 DEF EnhanceMetadata
    <2>2. PICK row : row = bookmark[b]
      OBVIOUS
    <2>3. row \in Row /\ b \in Bookmark
      BY <1>2, <2>1, <2>2 DEF Found
    <2>4. PICK new : new = [row EXCEPT !.title = IF @ = "" THEN "found" ELSE @]
      OBVIOUS
    <2>5. new \in Row /\ new.url = row.url
      BY <2>3, <2>4 DEF Row
    <2>6. bookmark' = [bookmark EXCEPT ![b] = new]
      BY <1>2, <2>1, <2>2, <2>4
    <2> QED BY <1>1, <1>2, <1>3, <2>1, <2>2, <2>3, <2>5, <2>6, ZenonT(30)
  <1> QED BY <1>4, <1>5

\* The single-statement updates of a row keep the base invariant.
LEMMA RowWritesKeep ==
  ASSUME BaseInv, NEW r \in Request, SetState(r) \/ EnhanceMetadata(r)
  PROVE  BaseInv'
  <1>1. /\ tag' = tag /\ link' = link /\ job' = job /\ serial' = serial /\ call' = call
        /\ patch' = patch /\ call[r].at = "idle"
        /\ bookmark' \in [Bookmark -> Row \cup {None}]
        /\ \A b \in Bookmark :
             \/ bookmark'[b] = bookmark[b]
             \/ bookmark'[b] # None /\ bookmark[b] # None /\ FreeRow(r, b)
    BY RowWritesStep
  <1>2. /\ tag \in [Tag -> Name \cup {NoTag}] /\ link \subseteq Link
        /\ job \subseteq Bookmark \X JobKind /\ serial \in [bookmark : Nat, tag : Nat]
        /\ call \in [Request -> Call] /\ patch \in [Request -> Change]
    BY DEF BaseInv, Types
  <1>3. call[r].kind = "none" /\ patch[r] = Patch /\ call[r].b < serial.bookmark
    BY <1>1, KindOf DEF BaseInv, Clean, Outside, Fresh
  <1>4. \A b \in Bookmark : b >= serial.bookmark => bookmark'[b] = None
    BY <1>1 DEF BaseInv, Fresh
  <1>5. \A l \in link' : bookmark'[l[1]] # None /\ tag'[l[2]] # NoTag
    BY <1>1, <1>2 DEF BaseInv, LinkLocks, Link
  <1>6. ASSUME NEW q \in Request \ {r}
        PROVE  patch[q].del \subseteq link' /\ \A b \in patch[q].locks : bookmark'[b] = bookmark[b]
    <2>1. patch[q].locks \subseteq Bookmark
      BY <1>2 DEF Change
    <2> QED BY <1>1, <2>1 DEF BaseInv, LinkLocks, FreeRow, Others
  <1> QED BY <1>1, <1>2, <1>3, <1>4, <1>5, <1>6, WritesKeep

-----------------------------------------------------------------------------
(***************************************************************************)
(* The invariant, and what it is for.                                       *)
(***************************************************************************)
LEMMA InitBase == Init => BaseInv
  <1> SUFFICES ASSUME Init PROVE BaseInv
    OBVIOUS
  <1>1. /\ Idle.kind = "none" /\ Idle.at = "idle" /\ Idle.b = 0
        /\ Patch.locks = {} /\ DOMAIN Patch.bookmark = {} /\ Patch.add = {} /\ Patch.del = {}
    BY DEF Idle, Patch
  <1>2. Types
    BY IdleType, PatchType DEF Init, Types
  <1>3. Fresh /\ RowLocks
    BY <1>1 DEF Init, Fresh, RowLocks
  <1>4. LinkLocks
    BY <1>1 DEF Init, LinkLocks, Links4
  <1>5. ASSUME NEW r \in Request
        PROVE  Where(call[r]) /\ Locals(call[r]) /\ Clean(r) /\ Keeps(r)
    <2>1. call[r] = Idle /\ patch[r] = Patch
      BY DEF Init
    <2>2. call[r].kind = "none" /\ call[r].at = "idle"
      BY <1>1, <2>1
    <2> QED BY <2>1, <2>2 DEF Where, Locals, Clean, Keeps, Savers
  <1> QED BY <1>2, <1>3, <1>4, <1>5 DEF BaseInv

\* Every step keeps the base invariant.
LEMMA BaseStep == BaseInv /\ [Next]_vars => BaseInv'
  <1> SUFFICES ASSUME BaseInv, [Next]_vars PROVE BaseInv'
    OBVIOUS
  <1>1. CASE UNCHANGED vars
    <2>1. \A r \in Request : Links4(r)' = Links4(r) /\ Rows(r)' = Rows(r)
      BY <1>1 DEF vars, Links4, Rows
    <2>2. Types' /\ Fresh' /\ RowLocks'
      BY <1>1 DEF vars, BaseInv, Types, Fresh, RowLocks
    <2>3. LinkLocks'
      BY <1>1, <2>1 DEF vars, BaseInv, LinkLocks
    <2>4. \A r \in Request : Where(call[r])' /\ Locals(call[r])' /\ Clean(r)' /\ Keeps(r)'
      BY <1>1, <2>1 DEF vars, BaseInv, Clean, Keeps
    <2> QED BY <2>2, <2>3, <2>4 DEF BaseInv
  <1>2. ASSUME NEW r \in Request, RequestStep(r) PROVE BaseInv'
    <2>1. CASE Lookup(r) \/ InsertRow(r) \/ MergeIntoRow(r)
      BY <2>1, LookupKeeps, InsertRowKeeps, MergeRowKeeps
    <2>2. CASE StartClear(r) \/ Clear(r) \/ Attach(r) \/ Effects(r)
      BY <2>2, StartClearKeeps, ClearKeeps, AttachKeeps, EffectsKeeps
    <2>3. CASE ReadRow(r) \/ WriteRow(r) \/ KeepTags(r)
      BY <2>3, ReadRowKeeps, WriteRowKeeps, KeepTagsKeeps
    <2>4. CASE SetState(r) \/ EnhanceMetadata(r)
      BY <2>4, RowWritesKeep
    <2>5. CASE ResolveTag(r) \/ TagOne(r) \/ Touch(r) \/ TaggedAll(r)
      BY <2>5, ResolveTagKeeps, TagOneKeeps, TouchKeeps, TaggedAllKeeps
    <2>6. CASE DeleteRow(r) \/ DeleteTag(r) \/ Drop(r)
      BY <2>6, DeleteRowKeeps, DeleteTagKeeps, DropKeeps
    <2>7. CASE CheckNewTag(r) \/ InsertTag(r) \/ CheckRename(r) \/ RenameTag(r)
      BY <2>7, ChecksKeep, TagWritesKeep
    <2>8. CASE MergeTags(r) \/ ResolveMerged(r) \/ BeginMerge(r) \/ CopyLinks(r)
      BY <2>8, MergeTagsKeeps, ResolveMergedKeeps, BeginMergeKeeps, CopyLinksKeeps
    <2>9. CASE Commit(r) \/ Abort(r)
      BY <2>9, CommitKeeps, AbortKeeps
    <2> QED BY <1>2, <2>1, <2>2, <2>3, <2>4, <2>5, <2>6, <2>7, <2>8, <2>9, Zenon DEF RequestStep
  <1> QED BY <1>1, <1>2 DEF Next

\* The base invariant holds on both engines.
THEOREM BaseHolds == Spec => []BaseInv
  <1> QED BY InitBase, BaseStep, PTL DEF Spec

\* The tables and the requests' changes keep their types, no link ever lacks its
\* bookmark or its tag, and nothing is left uncommitted by a request that has
\* ended: on both engines, for every number of requests.
THEOREM TypesHold == Spec => []TypeOK
  <1>1. BaseInv => TypeOK
    <2> SUFFICES ASSUME BaseInv PROVE TypeOK
      OBVIOUS
    <2>1. ASSUME NEW r \in Request
          PROVE  /\ patch[r].add \subseteq Link /\ patch[r].del \subseteq link
                 /\ call[r].at = "idle" => patch[r] = Patch
      BY SeenType DEF Change, BaseInv, LinkLocks, Clean, Outside
    <2> QED BY <2>1 DEF TypeOK, BaseInv, Types, LinkLocks
  <1> QED BY <1>1, BaseHolds, PTL

\* UpdateData and CreateOrUpdateData write back no field that the request left
\* out with a value that was overtaken: the row's lock is taken with the read
\* (loadForUpdate), or the statement names the written columns only, so this
\* needs no write lock of the whole database and holds on PostgreSQL too.
THEOREM UpdatesLoseNothing == Spec => NoLostUpdate
  <1>1. BaseInv /\ [Next]_vars =>
          [\A r \in Request : Commit(r) /\ call[r].kind \in {"create", "form", "rest"} =>
             LET b == call[r].b IN
             bookmark[b] # None =>
               /\ "archived" \notin call[r].given => bookmark'[b].archived = bookmark[b].archived
               /\ call[r].kind = "rest" /\ "title" \notin call[r].given =>
                    bookmark'[b].title = bookmark[b].title]_vars
    <2> SUFFICES ASSUME BaseInv, NEW r \in Request, Commit(r),
                        call[r].kind \in {"create", "form", "rest"}, bookmark[call[r].b] # None
                 PROVE  LET b == call[r].b IN
                        /\ "archived" \notin call[r].given =>
                             bookmark'[b].archived = bookmark[b].archived
                        /\ call[r].kind = "rest" /\ "title" \notin call[r].given =>
                             bookmark'[b].title = bookmark[b].title
      OBVIOUS
    <2>1. call[r].at = "commit" /\ bookmark' = Rows(r)
      BY DEF Commit, At
    <2>2. call[r].b \in Bookmark
      BY <2>1 DEF BaseInv, Locals, Savers
    <2> QED BY <2>1, <2>2 DEF BaseInv, Keeps, Savers
  <1> QED BY <1>1, BaseHolds, PTL DEF Spec, NoLostUpdate

-----------------------------------------------------------------------------
(***************************************************************************)
(* SQLite: a transaction is alone from its first statement to its last.     *)
(***************************************************************************)
\* What a step of request r has to see to.
Goes(r) == MergeTarget(call'[r]) /\ (call'[r].at \notin Outside => Mine(r)')

\* A request whose locals, patch and tables stay is where it was.
LEMMA MineStays ==
  ASSUME NEW q \in Request, Mine(q), UNCHANGED db, serial'.tag = serial.tag,
         call'[q] = call[q], patch'[q] = patch[q]
  PROVE  Mine(q)'
  <1>1. /\ Rows(q)' = Rows(q) /\ Tags(q)' = Tags(q) /\ Links(q)' = Links(q)
        /\ bookmark' = bookmark /\ tag' = tag /\ link' = link
    BY DEF Rows, Tags, Links, db
  <1>2. JobsOnce(q)' /\ TagOnce(q)'
    BY <1>1 DEF Mine, JobsOnce, TagOnce
  <1>3. TagsKept(q)' /\ Merged(q)'
    BY <1>1 DEF Mine, TagsKept, Merged, OldNames, NamesOf
  <1>4. FormURLsOnly => URLOnce(q)'
    BY <1>1 DEF Mine, URLOnce, Unique, Same, Found
  <1> QED BY <1>2, <1>3, <1>4 DEF Mine

\* A step that commits nothing keeps the invariant: only the request that has
\* the write lock counts up.
LEMMA AloneKeeps ==
  ASSUME BaseInv, SqliteInv, Sqlite, NEW r \in Request, Moves(r), Goes(r),
         call'[r].at \notin Outside => InTx(r) \/ Turn(r),
         serial'.tag = serial.tag \/ (call'[r].at \notin Outside /\ serial'.tag >= serial.tag)
  PROVE  SqliteInv'
  <1>1. \A q \in Request \ {r} : call'[q].at \notin Outside => InTx(q)
    BY DEF Moves, InTx
  <1>2. call'[r].at \notin Outside => \A q \in Request \ {r} : ~InTx(q)
    BY DEF SqliteInv, Alone, Turn, Others, Sqlite
  <1>3. \A q \in Request : InTx(q)' <=> call'[q].at \notin Outside
    BY DEF InTx
  <1>4. Alone'
    BY <1>1, <1>2, <1>3 DEF Alone, SqliteInv
  <1>5. tag' = tag /\ bookmark' = bookmark
    BY DEF Moves, db
  <1>6. FormURLsOnly => Unique(bookmark)'
    BY <1>5 DEF SqliteInv, Unique
  <1>7. \A t \in Tag : t >= serial'.tag => tag'[t] = NoTag
    <2>1. serial.tag \in Nat /\ serial'.tag \in Nat /\ \A t \in Tag : t \in Nat
      BY BookmarksAssumption DEF BaseInv, Types, Moves, BookmarksAssumption
    <2>2. \A t \in Tag : t >= serial.tag => tag[t] = NoTag
      BY DEF SqliteInv
    <2>3. serial'.tag >= serial.tag
      BY <2>1
    <2> QED BY <1>5, <2>1, <2>2, <2>3
  <1>8. ASSUME NEW q \in Request
        PROVE  MergeTarget(call[q])' /\ (InTx(q)' => Mine(q)')
    <2>1. CASE q = r
      BY <1>3, <2>1 DEF Goes, MergeTarget
    <2>2. CASE q # r
      <3>1. call'[q] = call[q] /\ patch'[q] = patch[q] /\ UNCHANGED db
        BY <2>2 DEF Moves
      <3>2. MergeTarget(call[q])'
        BY <3>1 DEF SqliteInv, MergeTarget
      <3>3. CASE ~InTx(q)'
        BY <3>2, <3>3
      <3>4. CASE InTx(q)'
        <4>1. InTx(q) /\ serial'.tag = serial.tag
          BY <1>1, <1>2, <1>3, <2>2, <3>4
        <4>2. Mine(q)
          BY <4>1 DEF SqliteInv
        <4>3. Mine(q)'
          BY <3>1, <4>1, <4>2, MineStays
        <4> QED BY <3>2, <4>3
      <3> QED BY <3>3, <3>4
    <2> QED BY <2>1, <2>2
  <1> QED BY <1>4, <1>6, <1>7, <1>8 DEF SqliteInv

\* A step that writes the tables keeps it.
LEMMA WrittenAlone ==
  ASSUME BaseInv, SqliteInv, Sqlite, NEW r \in Request, InTx(r) \/ Turn(r),
         \A q \in Request \ {r} : call'[q] = call[q],
         call'[r].kind = "none", call'[r].at = "idle",
         FormURLsOnly => Unique(bookmark'),
         \A t \in Tag : t >= serial'.tag => tag'[t] = NoTag
  PROVE  SqliteInv'
  <1>1. \A q \in Request \ {r} : ~InTx(q)
    BY DEF SqliteInv, Alone, Turn, Others, Sqlite
  <1>2. \A q \in Request : ~InTx(q)'
    BY <1>1 DEF InTx, Outside
  <1>3. \A q \in Request : MergeTarget(call[q])'
    BY DEF SqliteInv, MergeTarget
  <1>4. Alone'
    BY <1>2 DEF Alone
  <1>5. FormURLsOnly => Unique(bookmark)'
    BY DEF Unique
  <1> QED BY <1>2, <1>3, <1>4, <1>5 DEF SqliteInv

\* A transaction that has written no tag or row sees those that are committed,
\* and so creates no tag.
LEMMA NothingNew ==
  ASSUME BaseInv, SqliteInv, NEW r \in Request, Moves(r), serial' = serial,
         DOMAIN patch'[r].tag = {}
  PROVE  Tags(r)' = tag /\ TagOnce(r)'
  <1>1. tag \in [Tag -> Name \cup {NoTag}] /\ tag' = tag
    BY DEF BaseInv, Types, Moves, db
  <1>2. Tags(r)' = tag
    BY <1>1, OverNothing DEF Tags
  <1>3. \A t \in Tag : t >= serial.tag => tag[t] = NoTag
    BY DEF SqliteInv
  <1> QED BY <1>1, <1>2, <1>3 DEF TagOnce

\* CreateOrUpdateData looks for the URL and saves it under one lock.
LEMMA LookupAlone ==
  ASSUME BaseInv, SqliteInv, Sqlite, NEW r \in Request, Lookup(r)
  PROVE  SqliteInv'
  <1>1. /\ Moves(r) /\ patch' = patch /\ serial' = serial /\ Turn(r) /\ patch[r] = Patch
        /\ call'[r].kind = "create" /\ call'[r].at = "save" /\ call'[r].given = {}
        /\ \/ call'[r].b = 0 /\ Same(r, call'[r].url) = {}
           \/ call'[r].b \in Found(r)
    BY LookupStep
  <1>2. /\ Rows(r)' = bookmark /\ Rows(r) = bookmark /\ bookmark' = bookmark
    BY <1>1, SeenClean DEF Rows, Moves, db
  <1>3. DOMAIN patch'[r].tag = {} /\ patch'[r].job = {}
    BY <1>1 DEF Patch
  <1>4. TagOnce(r)'
    BY <1>1, <1>3, NothingNew
  <1>5. JobsOnce(r)'
    BY <1>1, <1>2, <1>3 DEF JobsOnce, Found
  <1>6. TagsKept(r)' /\ Merged(r)'
    BY <1>1 DEF TagsKept, Merged
  <1>7. FormURLsOnly => URLOnce(r)'
    <2>1. 0 \notin Bookmark /\ Found(r) \subseteq Bookmark
      BY BookmarksAssumption DEF BookmarksAssumption, Found
    <2>2. call'[r].b = 0 => Same(r, call'[r].url) = {}
      BY <1>1, <2>1
    <2>3. FormURLsOnly => Unique(Rows(r))'
      BY <1>2 DEF SqliteInv, Unique
    <2>4. call'[r].b = 0 => Same(r, call[r].url)' = {}
      BY <1>2, <2>2 DEF Same, Found
    <2> QED BY <1>1, <2>3, <2>4 DEF URLOnce
  <1>8. Goes(r)
    BY <1>1, <1>4, <1>5, <1>6, <1>7 DEF Goes, Mine, MergeTarget
  <1> QED BY <1>1, <1>8, AloneKeeps

\* InsertRow keeps the invariant of a single writer.
LEMMA InsertRowAlone ==
  ASSUME BaseInv, SqliteInv, Sqlite, NEW r \in Request, InsertRow(r)
  PROVE  SqliteInv'
  <1>1. PICK b : b = serial.bookmark
    OBVIOUS
  <1>2. PICK row \in Row : row.url = call[r].url /\ patch'[r] = WithRow(patch[r], b, row)
    BY <1>1, InsertRowStep
  <1>3. /\ Moves(r) /\ serial'.tag = serial.tag /\ b \in Bookmark
        /\ call[r].at = "save" /\ call[r].b = 0 /\ patch[r] = Patch /\ patch[r] \in Change
        /\ call'[r].at = "clear" /\ call'[r].kind = "create"
        /\ call'[r].b = b /\ call'[r].given = {"new"}
    BY <1>1, InsertRowStep, SeenType
  <1>4. InTx(r) /\ Mine(r)
    BY <1>3 DEF InTx, Outside, SqliteInv
  <1>5. Rows(r) = bookmark /\ bookmark' = bookmark /\ tag' = tag
    BY <1>3, SeenClean DEF Moves, db
  <1>6. /\ patch'[r].bookmark = Put(patch[r].bookmark, b, row)
        /\ patch'[r].tag = patch[r].tag /\ patch'[r].job = {}
    BY <1>2, <1>3, WithRowType DEF Patch
  <1>7. Rows(r)'[b] = row /\ \A c \in Bookmark \ {b} : Rows(r)'[c] = bookmark[c]
    <2>1. LET seen == Over(Put(patch[r].bookmark, b, row), bookmark) IN
          seen[b] = row /\ \A c \in Bookmark \ {b} : seen[c] = Rows(r)[c]
      BY <1>3, RowSeen
    <2> QED BY <1>5, <1>6, <2>1 DEF Rows
  <1>8. row # None
    BY NoneNoRow
  <1>9. JobsOnce(r)'
    BY <1>3, <1>5, <1>6, <1>7, <1>8 DEF JobsOnce, Savers
  <1>10. TagOnce(r)'
    <2>1. Tags(r)' = Tags(r)
      BY <1>5, <1>6 DEF Tags
    <2> QED BY <1>3, <1>4, <1>5, <2>1 DEF Mine, TagOnce
  <1>11. TagsKept(r)' /\ Merged(r)'
    BY <1>3 DEF TagsKept, Merged
  <1>12. FormURLsOnly => URLOnce(r)'
    <2> SUFFICES ASSUME FormURLsOnly PROVE URLOnce(r)'
      OBVIOUS
    <2>1. Unique(bookmark) /\ Same(r, row.url) = {}
      BY <1>2, <1>3, <1>4, <1>5 DEF Mine, URLOnce
    <2>2. \A c \in Bookmark : bookmark[c] # None => Norm[bookmark[c].url] # Norm[row.url]
      BY <1>5, <2>1 DEF Same, Found
    <2>3. Unique(Rows(r))'
      BY <1>7, <2>1, <2>2 DEF Unique
    <2> QED BY <1>3, <2>3 DEF URLOnce
  <1>13. Goes(r)
    BY <1>3, <1>9, <1>10, <1>11, <1>12 DEF Goes, Mine, MergeTarget
  <1> QED BY <1>3, <1>4, <1>13, AloneKeeps

\* Rows, tags and jobs that a step leaves alone.
LEMMA SameRows ==
  ASSUME NEW r \in Request, UNCHANGED db, patch'[r].bookmark = patch[r].bookmark,
         Mine(r), call'[r].at \notin {"save", "edit"},
         call'[r].kind = call[r].kind, call'[r].given = call[r].given
  PROVE  FormURLsOnly => URLOnce(r)'
  <1>1. Rows(r)' = Rows(r)
    BY DEF Rows, db
  <1> QED BY <1>1 DEF Mine, URLOnce, Unique

\* A request that writes no tag keeps each name once.
LEMMA SameTags ==
  ASSUME NEW r \in Request, UNCHANGED db, patch'[r].tag = patch[r].tag,
         serial'.tag = serial.tag, Mine(r)
  PROVE  TagOnce(r)'
  <1>1. Tags(r)' = Tags(r) /\ tag' = tag
    BY DEF Tags, db
  <1> QED BY <1>1 DEF Mine, TagOnce

\* A request that writes no bookmark and no job still owes the jobs it owed.
LEMMA SameJobs ==
  ASSUME NEW r \in Request, UNCHANGED db, patch'[r].bookmark = patch[r].bookmark,
         patch'[r].job = patch[r].job, Mine(r), call'[r].kind = call[r].kind,
         call'[r].b = call[r].b, call'[r].given = call[r].given, call'[r].at # "commit"
  PROVE  JobsOnce(r)'
  <1>1. Rows(r)' = Rows(r) /\ bookmark' = bookmark
    BY DEF Rows, db
  <1> QED BY <1>1 DEF Mine, JobsOnce

\* updateExisting.
LEMMA MergeRowAlone ==
  ASSUME BaseInv, SqliteInv, Sqlite, NEW r \in Request, MergeIntoRow(r)
  PROVE  SqliteInv'
  <1>1. PICK b : b = call[r].b
    OBVIOUS
  <1>2. /\ Moves(r) /\ serial' = serial /\ b \in Bookmark
        /\ call[r].at = "save" /\ call[r].kind = "create" /\ patch[r] = Patch
        /\ patch[r] \in Change
        /\ call'[r].at = "clear" /\ call'[r].kind = "create" /\ call'[r].b = b
        /\ call'[r].given = call[r].given
    BY <1>1, MergeRowStep, SeenType
  <1>3. InTx(r) /\ Mine(r)
    BY <1>2 DEF InTx, Outside, SqliteInv
  <1>4. b \in Found(r)
    <2>1. b # 0
      BY <1>2, BookmarksAssumption DEF BookmarksAssumption
    <2> QED BY <1>1, <1>2, <1>3, <2>1 DEF Mine, JobsOnce, Savers, Found
  <1>5. PICK row \in Row : row.url = Rows(r)[b].url /\ patch'[r] = WithRow(patch[r], b, row)
    BY <1>1, <1>4, MergeRowStep
  <1>6. Rows(r) = bookmark /\ bookmark' = bookmark /\ tag' = tag
    BY <1>2, SeenClean DEF Moves, db
  <1>7. /\ patch'[r].bookmark = Put(patch[r].bookmark, b, row)
        /\ patch'[r].tag = patch[r].tag /\ patch'[r].job = {}
    BY <1>2, <1>5, WithRowType DEF Patch
  <1>8. Rows(r)'[b] = row /\ \A c \in Bookmark \ {b} : Rows(r)'[c] = bookmark[c]
    <2>1. LET seen == Over(Put(patch[r].bookmark, b, row), bookmark) IN
          seen[b] = row /\ \A c \in Bookmark \ {b} : seen[c] = Rows(r)[c]
      BY <1>2, RowSeen
    <2> QED BY <1>6, <1>7, <2>1 DEF Rows
  <1>9. row # None /\ bookmark[b] # None
    BY <1>4, <1>6, NoneNoRow DEF Found
  <1>10. JobsOnce(r)'
    BY <1>2, <1>6, <1>7, <1>8, <1>9 DEF JobsOnce, Savers
  <1>11. TagOnce(r)'
    BY <1>2, <1>3, <1>7, SameTags DEF Moves
  <1>12. TagsKept(r)' /\ Merged(r)'
    BY <1>2 DEF TagsKept, Merged
  <1>13. FormURLsOnly => URLOnce(r)'
    <2> SUFFICES ASSUME FormURLsOnly PROVE URLOnce(r)'
      OBVIOUS
    <2>1. Unique(bookmark)
      BY DEF SqliteInv
    <2>2. Unique(Rows(r))'
      BY <1>5, <1>6, <1>8, <1>9, <2>1 DEF Unique
    <2> QED BY <1>2, <2>2 DEF URLOnce
  <1>14. Goes(r)
    BY <1>2, <1>10, <1>11, <1>12, <1>13 DEF Goes, Mine, MergeTarget
  <1> QED BY <1>2, <1>3, <1>14, AloneKeeps

\* replaceTags.
LEMMA StartClearAlone ==
  ASSUME BaseInv, SqliteInv, Sqlite, NEW r \in Request, StartClear(r)
  PROVE  SqliteInv'
  <1>1. /\ Moves(r) /\ patch' = patch /\ serial' = serial
        /\ call[r].at = "clear" /\ call'[r].at = "clearing"
        /\ Stays(call[r], call'[r]) /\ call'[r].t = call[r].t
        /\ call'[r].names = call[r].names /\ call'[r].ids = call[r].ids
        /\ call'[r].seen = Doomed(r)
    BY StartClearStep
  <1>2. InTx(r) /\ Mine(r) /\ MergeTarget(call[r]) /\ UNCHANGED db
    BY <1>1 DEF InTx, Outside, SqliteInv, Moves
  <1>3. JobsOnce(r)' /\ TagOnce(r)' /\ (FormURLsOnly => URLOnce(r)')
    BY <1>1, <1>2, SameRows, SameTags, SameJobs DEF Stays
  <1>4. Tags(r)' = Tags(r) /\ Links(r)' = Links(r) /\ tag' = tag /\ link' = link
    BY <1>1, <1>2 DEF Tags, Links, db
  <1>5. TagsKept(r)'
    BY <1>1, <1>2, <1>4 DEF Mine, TagsKept, OldNames, NamesOf, Stays
  <1>6. Merged(r)'
    <2>1. call[r].kind = "merge" => \A l \in Doomed(r) : l[2] = call[r].t
      BY DEF Doomed
    <2> QED BY <1>1, <1>2, <1>4, <2>1 DEF Mine, Merged, Stays
  <1>7. Goes(r)
    BY <1>1, <1>2, <1>3, <1>5, <1>6 DEF Goes, Mine, MergeTarget, Stays
  <1> QED BY <1>1, <1>2, <1>7, AloneKeeps

\* Clear keeps the invariant of a single writer.
LEMMA ClearAlone ==
  ASSUME BaseInv, SqliteInv, Sqlite, NEW r \in Request, Clear(r)
  PROVE  SqliteInv'
  <1>1. /\ Moves(r) /\ serial' = serial
        /\ call[r].at = "clearing" /\ Stays(call[r], call'[r]) /\ call'[r].t = call[r].t
        /\ call'[r].names = call[r].names /\ call'[r].ids = call[r].ids
        /\ call'[r].at = IF call[r].kind \in Savers THEN "attach" ELSE "drop"
    BY ClearStep
  <1>2. /\ patch'[r].bookmark = patch[r].bookmark /\ patch'[r].tag = patch[r].tag
        /\ patch'[r].job = patch[r].job
        /\ patch'[r].add = patch[r].add \ call[r].seen
        /\ patch'[r].del = patch[r].del \cup (call[r].seen \cap link)
    BY ClearStep
  <1>3. InTx(r) /\ Mine(r) /\ MergeTarget(call[r]) /\ UNCHANGED db
    BY <1>1 DEF InTx, Outside, SqliteInv, Moves
  <1>4. JobsOnce(r)' /\ TagOnce(r)' /\ (FormURLsOnly => URLOnce(r)')
    BY <1>1, <1>2, <1>3, SameRows, SameTags, SameJobs DEF Stays
  <1>5. Links(r)' = Links(r) \ call[r].seen /\ Tags(r)' = Tags(r) /\ tag' = tag /\ link' = link
    BY <1>2, <1>3 DEF Links, Tags, db
  <1>6. TagsKept(r)'
    <2>1. ASSUME call[r].kind = "rest" PROVE call'[r].at = "attach"
      BY <1>1, <2>1 DEF Savers
    <2> QED BY <1>1, <1>3, <1>5, <2>1 DEF Mine, TagsKept, OldNames, Stays
  <1>7. Merged(r)'
    <2>1. SUFFICES ASSUME call[r].kind = "merge" PROVE Merged(r)'
      BY <1>1 DEF Merged, Stays
    <2>2. /\ call'[r].kind = "merge" /\ call'[r].at = "drop" /\ call'[r].b = call[r].b
          /\ call'[r].t = call[r].t
      BY <1>1, <2>1 DEF Savers, Stays
    <2>3. Merged(r)
      BY <1>3 DEF Mine
    <2>4. call[r].t # call[r].b /\ \A l \in call[r].seen : l[2] = call[r].t
      BY <1>1, <2>1, <2>3 DEF Merged
    <2>5. \A d : <<d, call[r].b>> \notin call[r].seen
      BY <2>4
    <2>6. ASSUME NEW l \in link
          PROVE  l \in Links(r)' \/ <<l[1], call[r].b>> \in Links(r)'
      <3>1. l \in Links(r) \/ <<l[1], call[r].b>> \in Links(r)
        BY <2>1, <2>3 DEF Merged
      <3>2. l \in call[r].seen /\ l \in Links(r) => <<l[1], call[r].b>> \in Links(r)
        BY <1>1, <2>1, <2>3, <2>4 DEF Merged
      <3> QED BY <1>5, <2>5, <3>1, <3>2
    <2> QED BY <1>5, <2>2, <2>4, <2>6 DEF Merged
  <1>8. Goes(r)
    BY <1>1, <1>3, <1>4, <1>6, <1>7 DEF Goes, Mine, MergeTarget, Stays
  <1> QED BY <1>1, <1>3, <1>8, AloneKeeps

\* Get or create makes no second tag of a name, and finds or makes the one.
LEMMA GetTagOnce ==
  ASSUME BaseInv, SqliteInv, NEW r \in Request, Mine(r) \/ patch[r] = Patch, NEW n \in Name,
         TagFor(r, n) \in Tag, CountsTag(r, n), UNCHANGED db,
         patch'[r].tag = WithTag(r, n).tag
  PROVE  /\ TagOnce(r)' /\ Tags(r)'[TagFor(r, n)] = n
         /\ \A t \in Tag : Tags(r)[t] # NoTag => Tags(r)'[t] = Tags(r)[t]
         /\ \A t \in Tag \ {TagFor(r, n)} : Tags(r)'[t] = Tags(r)[t]
         /\ serial'.tag >= serial.tag
  <1>1. /\ tag' = tag /\ tag \in [Tag -> Name \cup {NoTag}] /\ serial.tag \in Nat
        /\ patch[r].tag \in Partial(Tag, Name \cup {NoTag})
    BY SeenType DEF BaseInv, Types, Change, db
  <1>2. TagOnce(r)
    <2>1. CASE Mine(r)
      BY <2>1 DEF Mine
    <2>2. CASE patch[r] = Patch
      BY <2>2, SeenClean DEF SqliteInv, TagOnce
    <2> QED BY <2>1, <2>2
  <1>3. Tags(r)' = Over(patch'[r].tag, tag)
    BY <1>1 DEF Tags
  <1>4. \A t \in Tag : t \in Nat
    BY BookmarksAssumption DEF BookmarksAssumption
  <1>5. CASE Named(r, n) = {}
    <2>1. PICK u : u = serial.tag
      OBVIOUS
    <2>2. /\ TagFor(r, n) = u /\ u \in Tag /\ serial'.tag = u + 1
          /\ patch'[r].tag = Put(patch[r].tag, u, n)
      <3>1. \/ /\ Named(r, n) = {} /\ TagFor(r, n) = serial.tag
               /\ WithTag(r, n).tag = Put(patch[r].tag, serial.tag, n)
               /\ serial'.tag = serial.tag + 1
            \/ Named(r, n) # {}
        BY GetTag
      <3> QED BY <1>5, <2>1, <3>1
    <2>3. Tags(r)'[u] = n /\ \A t \in Tag \ {u} : Tags(r)'[t] = Tags(r)[t]
      <3>1. /\ Over(Put(patch[r].tag, u, n), tag)[u] = n
            /\ \A t \in Tag \ {u} : Over(Put(patch[r].tag, u, n), tag)[t] = Over(patch[r].tag, tag)[t]
        BY <1>1, <2>2, OverPut
      <3> QED BY <1>3, <2>2, <3>1 DEF Tags
    <2>4. tag[u] = NoTag /\ Tags(r)[u] = NoTag
      BY <1>2, <2>1, <2>2, <1>1, <1>4 DEF SqliteInv, TagOnce
    <2>5. \A t \in Tag : Tags(r)[t] # n
      BY <1>5 DEF Named
    <2>6. \A t \in Tag : t >= serial'.tag => Tags(r)'[t] = NoTag
      BY <1>1, <1>2, <1>4, <2>1, <2>2, <2>3 DEF TagOnce
    <2>7. ASSUME NEW s \in Tag, NEW t \in Tag, tag[t] = NoTag, Tags(r)'[t] # NoTag,
                 Tags(r)'[s] = Tags(r)'[t]
          PROVE  s = t
      BY <1>2, <2>3, <2>5, <2>7 DEF TagOnce
    <2> QED BY <1>1, <2>1, <2>2, <2>3, <2>4, <2>6, <2>7 DEF TagOnce
  <1>6. CASE Named(r, n) # {}
    <2>1. /\ TagFor(r, n) = Least(Named(r, n)) /\ patch'[r].tag = patch[r].tag
          /\ serial' = serial
      <3>1. \/ Named(r, n) = {}
            \/ /\ Named(r, n) # {} /\ TagFor(r, n) = Least(Named(r, n))
               /\ WithTag(r, n).tag = patch[r].tag /\ serial' = serial
        BY GetTag
      <3> QED BY <1>6, <3>1
    <2>2. Tags(r)' = Tags(r)
      BY <1>1, <2>1 DEF Tags
    <2>3. Named(r, n) \subseteq Nat
      BY <1>4 DEF Named
    <2>4. Least(Named(r, n)) \in Named(r, n)
      BY <1>6, <2>3, LeastIn
    <2>5. Tags(r)[TagFor(r, n)] = n
      BY <2>1, <2>4 DEF Named
    <2>6. TagOnce(r)'
      BY <1>1, <1>2, <2>1, <2>2 DEF TagOnce
    <2> QED BY <1>1, <2>1, <2>2, <2>5, <2>6
  <1> QED BY <1>5, <1>6

\* Attach keeps the invariant of a single writer.
LEMMA AttachAlone ==
  ASSUME BaseInv, SqliteInv, Sqlite, NEW r \in Request, Attach(r)
  PROVE  SqliteInv'
  <1>1. PICK n \in call[r].names :
           LET l == <<call[r].b, TagFor(r, n)>> IN
           /\ n \in Name /\ TagFor(r, n) \in Tag /\ CountsTag(r, n)
           /\ Moves(r)
           /\ call[r].at = "attach" /\ call'[r].at = "attach" /\ Stays(call[r], call'[r])
           /\ call'[r].t = call[r].t /\ call'[r].ids = call[r].ids
           /\ call'[r].names = call[r].names \ {n}
           /\ patch'[r].bookmark = patch[r].bookmark /\ patch'[r].tag = WithTag(r, n).tag
           /\ patch'[r].job = patch[r].job
           /\ patch'[r].add = patch[r].add \cup {l} /\ patch'[r].del = patch[r].del
    BY AttachStep
  <1>2. InTx(r) /\ Mine(r) /\ MergeTarget(call[r]) /\ UNCHANGED db /\ call[r].kind \in Savers
    BY <1>1, KindOf DEF InTx, Outside, SqliteInv, Moves
  <1>3. /\ TagOnce(r)' /\ Tags(r)'[TagFor(r, n)] = n
        /\ \A t \in Tag : Tags(r)[t] # NoTag => Tags(r)'[t] = Tags(r)[t]
        /\ serial'.tag >= serial.tag
    BY <1>1, <1>2, GetTagOnce
  <1>4. JobsOnce(r)' /\ (FormURLsOnly => URLOnce(r)')
    BY <1>1, <1>2, SameRows, SameJobs DEF Stays
  <1>5. Merged(r)'
    BY <1>1, <1>2 DEF Merged, Stays, Savers
  <1>6. TagsKept(r)'
    <2> SUFFICES ASSUME call[r].kind = "rest" PROVE TagsKept(r)'
      BY <1>1 DEF TagsKept, Stays
    <2>1. TagsKept(r) /\ tag' = tag /\ link' = link
      BY <1>2 DEF Mine, db
    <2>2. \A t \in Tag : tag[t] # NoTag => Tags(r)'[t] = tag[t]
      BY <1>3, <2>1 DEF TagsKept
    <2>3. Links(r)' = Links(r) \cup {<<call[r].b, TagFor(r, n)>>}
      BY <1>1, <2>1 DEF Links
    <2>4. ASSUME "names" \notin call[r].given
          PROVE  Parsed(OldNames(call[r].b)) \subseteq call'[r].names \cup NamesOf(r, call[r].b)'
      <3>1. Parsed(OldNames(call[r].b)) \subseteq call[r].names \cup NamesOf(r, call[r].b)
        BY <1>1, <2>1, <2>4 DEF TagsKept
      <3>2. n \in NamesOf(r, call[r].b)'
        <4>1. PICK l : l = <<call[r].b, TagFor(r, n)>>
          OBVIOUS
        <4>2. l \in Links(r)' /\ l[1] = call[r].b /\ Tags(r)'[l[2]] = n
          BY <1>3, <2>3, <4>1
        <4>3. call'[r].b = call[r].b
          BY <1>1 DEF Stays
        <4> QED BY <4>2, <4>3 DEF NamesOf
      <3>3. ASSUME NEW m \in Parsed(OldNames(call[r].b)), m \in NamesOf(r, call[r].b)
            PROVE  m \in NamesOf(r, call[r].b)'
        <4>1. PICK l \in Links(r) : l[1] = call[r].b /\ m = Tags(r)[l[2]]
          BY <3>3 DEF NamesOf
        <4>2. m # NoTag
          <5>1. OldNames(call[r].b) \in SUBSET Name
            BY DEF OldNames, BaseInv, LinkLocks, Types, Link
          <5> QED BY <3>3, <5>1, ParsedNames, BookmarksAssumption DEF NoTag, BookmarksAssumption
        <4>3. l[2] \in Tag
          BY <4>1, SeenType DEF Link
        <4>4. l \in Links(r)' /\ Tags(r)'[l[2]] = m
          BY <1>3, <2>3, <4>1, <4>2, <4>3
        <4>5. call'[r].b = call[r].b
          BY <1>1 DEF Stays
        <4> QED BY <4>1, <4>4, <4>5 DEF NamesOf
      <3> QED BY <1>1, <3>1, <3>2, <3>3
    <2>5. OldNames(call[r].b)' = OldNames(call[r].b)
      BY <1>1, <2>1 DEF OldNames, Stays
    <2> QED BY <1>1, <2>1, <2>2, <2>4, <2>5 DEF TagsKept, Stays
  <1>7. Goes(r)
    BY <1>1, <1>2, <1>3, <1>4, <1>5, <1>6 DEF Goes, Mine, MergeTarget, Stays
  <1>8. call'[r].at \notin Outside
    BY <1>1 DEF Outside
  <1> QED BY <1>1, <1>2, <1>3, <1>7, <1>8, AloneKeeps

\* Effects keeps the invariant of a single writer.
LEMMA EffectsAlone ==
  ASSUME BaseInv, SqliteInv, Sqlite, NEW r \in Request, Effects(r)
  PROVE  SqliteInv'
  <1>1. /\ Moves(r) /\ serial' = serial
        /\ call[r].at = "attach" /\ call[r].names = {} /\ call'[r].at = "commit"
        /\ Stays(call[r], call'[r])
        /\ call'[r].t = call[r].t /\ call'[r].ids = call[r].ids
        /\ call'[r].names = call[r].names
    BY EffectsStep
  <1>2. /\ patch'[r].bookmark = patch[r].bookmark /\ patch'[r].tag = patch[r].tag
        /\ patch'[r].add = patch[r].add /\ patch'[r].del = patch[r].del
        /\ patch'[r].job \subseteq {call[r].b} \X JobKind
        /\ "new" \in call[r].given => patch'[r].job = {call[r].b} \X JobKind
    BY EffectsStep
  <1>3. InTx(r) /\ Mine(r) /\ MergeTarget(call[r]) /\ UNCHANGED db /\ call[r].kind \in Savers
    BY <1>1, KindOf DEF InTx, Outside, SqliteInv, Moves
  <1>4. TagOnce(r)' /\ (FormURLsOnly => URLOnce(r)')
    BY <1>1, <1>2, <1>3, SameRows, SameTags DEF Stays
  <1>5. Rows(r)' = Rows(r) /\ Tags(r)' = Tags(r) /\ Links(r)' = Links(r)
        /\ tag' = tag /\ link' = link /\ bookmark' = bookmark
    BY <1>2, <1>3 DEF Rows, Tags, Links, db
  <1>6. JobsOnce(r)'
    BY <1>1, <1>2, <1>3, <1>5 DEF Mine, JobsOnce, Stays
  <1>7. Merged(r)'
    BY <1>1, <1>3 DEF Merged, Stays, Savers
  <1>8. TagsKept(r)'
    BY <1>1, <1>3, <1>5 DEF Mine, TagsKept, OldNames, NamesOf, Stays
  <1>9. Goes(r)
    BY <1>1, <1>3, <1>4, <1>6, <1>7, <1>8 DEF Goes, Mine, MergeTarget, Stays
  <1> QED BY <1>1, <1>3, <1>9, AloneKeeps

\* UpdateData.
LEMMA ReadRowAlone ==
  ASSUME BaseInv, SqliteInv, Sqlite, NEW r \in Request, ReadRow(r)
  PROVE  SqliteInv'
  <1> DEFINE b == call'[r].b
  <1>1. /\ Moves(r) /\ serial' = serial /\ Turn(r) /\ patch[r] = Patch
        /\ call'[r].kind \in {"form", "rest"} /\ call'[r].at = "edit"
        /\ b \in Found(r) /\ call'[r].given \in Edits(call'[r].kind)
        /\ "url" \notin call'[r].given => call'[r].url = Rows(r)[b].url
    BY ReadRowStep
  <1>2. /\ patch'[r].bookmark = patch[r].bookmark /\ patch'[r].tag = patch[r].tag
        /\ patch'[r].job = patch[r].job
        /\ patch'[r].add = patch[r].add /\ patch'[r].del = patch[r].del
    BY ReadRowStep
  <1>3. DOMAIN patch'[r].tag = {} /\ patch'[r].job = {}
    BY <1>1, <1>2 DEF Patch
  <1>4. /\ Rows(r)' = bookmark /\ Rows(r) = bookmark /\ bookmark' = bookmark
        /\ Links(r)' = link /\ link' = link /\ tag' = tag
    BY <1>1, <1>2, SeenClean DEF Rows, Links, Moves, db
  <1>5. TagOnce(r)' /\ Tags(r)' = tag
    BY <1>1, <1>3, NothingNew
  <1>6. JobsOnce(r)'
    BY <1>1, <1>3, <1>4 DEF JobsOnce, Found
  <1>7. TagsKept(r)' /\ Merged(r)'
    BY <1>1, <1>4, <1>5 DEF TagsKept, Merged
  <1>8. FormURLsOnly => URLOnce(r)'
    <2> SUFFICES ASSUME FormURLsOnly PROVE URLOnce(r)'
      OBVIOUS
    <2>1. Unique(Rows(r))'
      BY <1>4 DEF SqliteInv, Unique
    <2>2. call'[r].kind = "rest" => "url" \notin call'[r].given
      BY <1>1 DEF FormURLsOnly, Edits
    <2> QED BY <1>1, <1>4, <2>1, <2>2 DEF URLOnce
  <1>9. Goes(r)
    BY <1>1, <1>5, <1>6, <1>7, <1>8 DEF Goes, Mine, MergeTarget
  <1> QED BY <1>1, <1>9, AloneKeeps

\* WriteRow keeps the invariant of a single writer.
LEMMA WriteRowAlone ==
  ASSUME BaseInv, SqliteInv, Sqlite, NEW r \in Request, WriteRow(r)
  PROVE  SqliteInv'
  <1>1. PICK b : b = call[r].b
    OBVIOUS
  <1>2. /\ Moves(r) /\ serial' = serial /\ b \in Bookmark /\ call[r].row \in Row
        /\ call[r].at = "edit" /\ call[r].kind \in {"form", "rest"} /\ call'[r].at = "tags"
        /\ Stays(call[r], call'[r])
        /\ call'[r].t = call[r].t /\ call'[r].ids = call[r].ids
        /\ ~("url" \in call[r].given /\ Duplicate(r))
    BY <1>1, WriteRowStep
  <1>3. /\ patch'[r].tag = patch[r].tag /\ patch'[r].job = patch[r].job
        /\ patch'[r].add = patch[r].add /\ patch'[r].del = patch[r].del
    BY WriteRowStep
  <1>4. PICK row \in Row : /\ row.url = call[r].url
                           /\ patch'[r].bookmark = Put(patch[r].bookmark, b, row)
    BY <1>1, WriteRowStep
  <1>5. InTx(r) /\ Mine(r) /\ MergeTarget(call[r]) /\ UNCHANGED db
    BY <1>2 DEF InTx, Outside, SqliteInv, Moves
  <1>6. Rows(r)'[b] = row /\ \A c \in Bookmark \ {b} : Rows(r)'[c] = Rows(r)[c]
    <2>1. LET seen == Over(Put(patch[r].bookmark, b, row), bookmark) IN
          seen[b] = row /\ \A c \in Bookmark \ {b} : seen[c] = Rows(r)[c]
      BY <1>2, RowSeen
    <2> QED BY <1>4, <1>5, <2>1 DEF Rows, db
  <1>7. Tags(r)' = Tags(r) /\ Links(r)' = Links(r)
        /\ tag' = tag /\ link' = link /\ bookmark' = bookmark
    BY <1>3, <1>5 DEF Tags, Links, db
  <1>8. bookmark[b] # None /\ row # None
    BY <1>1, <1>2, NoneNoRow DEF BaseInv, Keeps
  <1>9. JobsOnce(r)'
    BY <1>1, <1>2, <1>3, <1>5, <1>6, <1>7, <1>8 DEF Mine, JobsOnce, Stays
  <1>10. TagOnce(r)'
    BY <1>2, <1>3, <1>5, SameTags
  <1>11. TagsKept(r)'
    BY <1>2, <1>5, <1>7 DEF Mine, TagsKept, Stays
  <1>12. Merged(r)'
    BY <1>2 DEF Merged, Stays
  <1>13. FormURLsOnly => URLOnce(r)'
    <2> SUFFICES ASSUME FormURLsOnly PROVE URLOnce(r)'
      OBVIOUS
    <2>1. URLOnce(r) /\ Unique(Rows(r))
      BY <1>5 DEF Mine, URLOnce
    <2>2. \A c \in Bookmark \ {b} :
            Rows(r)[c] # None => Norm[Rows(r)[c].url] # Norm[row.url]
      <3>1. CASE "url" \notin call[r].given
        <4>1. row.url = Rows(r)[b].url
          BY <1>1, <1>2, <1>4, <2>1, <3>1 DEF URLOnce
        <4>2. Rows(r)[b] # None
          <5>1. b # 0
            BY <1>2, BookmarksAssumption DEF BookmarksAssumption
          <5> QED BY <1>1, <1>2, <1>5, <5>1 DEF Mine, JobsOnce, Savers
        <4> QED BY <1>2, <2>1, <4>1, <4>2 DEF Unique
      <3>2. CASE "url" \in call[r].given
        <4>1. call[r].kind = "form"
          BY <1>2, <2>1, <3>2 DEF URLOnce
        <4>2. ~Duplicate(r)
          BY <1>2, <3>2
        <4> QED BY <1>1, <1>4, <4>1, <4>2 DEF Duplicate, Found
      <3> QED BY <3>1, <3>2
    <2>3. Unique(Rows(r))'
      BY <1>6, <2>1, <2>2 DEF Unique
    <2> QED BY <1>2, <2>1, <2>3 DEF URLOnce, Stays
  <1>14. Goes(r)
    BY <1>2, <1>9, <1>10, <1>11, <1>12, <1>13 DEF Goes, Mine, MergeTarget, Stays
  <1> QED BY <1>2, <1>5, <1>14, AloneKeeps

\* KeepTags keeps the invariant of a single writer.
LEMMA KeepTagsAlone ==
  ASSUME BaseInv, SqliteInv, Sqlite, NEW r \in Request, KeepTags(r)
  PROVE  SqliteInv'
  <1>1. /\ Moves(r) /\ patch' = patch /\ serial' = serial
        /\ call[r].at = "tags" /\ call'[r].at = "clear" /\ Stays(call[r], call'[r])
        /\ call'[r].t = call[r].t /\ call'[r].ids = call[r].ids
        /\ "names" \notin call[r].given => Parsed(NamesOf(r, call[r].b)) \subseteq call'[r].names
    BY KeepTagsStep
  <1>2. InTx(r) /\ Mine(r) /\ MergeTarget(call[r]) /\ UNCHANGED db
        /\ call[r].kind \in {"form", "rest"}
    BY <1>1, KindOf DEF InTx, Outside, SqliteInv, Moves
  <1>3. JobsOnce(r)' /\ TagOnce(r)' /\ (FormURLsOnly => URLOnce(r)')
    BY <1>1, <1>2, SameRows, SameTags, SameJobs DEF Stays
  <1>4. Tags(r)' = Tags(r) /\ Links(r)' = Links(r) /\ tag' = tag /\ link' = link
    BY <1>1, <1>2 DEF Tags, Links, db
  <1>5. Merged(r)'
    BY <1>1, <1>2 DEF Merged, Stays
  <1>6. TagsKept(r)'
    <2> SUFFICES ASSUME call[r].kind = "rest" PROVE TagsKept(r)'
      BY <1>1 DEF TagsKept, Stays
    <2>1. Links(r) = link /\ \A t \in Tag : tag[t] # NoTag => Tags(r)[t] = tag[t]
      BY <1>1, <1>2 DEF Mine, TagsKept
    <2>2. OldNames(call[r].b) = NamesOf(r, call[r].b)
      <3>1. ASSUME NEW l \in link PROVE Tags(r)[l[2]] = tag[l[2]]
        BY <2>1 DEF BaseInv, LinkLocks, Types, Link
      <3> QED BY <2>1, <3>1 DEF OldNames, NamesOf
    <2>3. OldNames(call[r].b)' = OldNames(call[r].b)
      BY <1>1, <1>4 DEF OldNames, Stays
    <2> QED BY <1>1, <1>4, <2>1, <2>2, <2>3 DEF TagsKept, Stays
  <1>7. Goes(r)
    BY <1>1, <1>2, <1>3, <1>5, <1>6 DEF Goes, Mine, MergeTarget, Stays
  <1> QED BY <1>1, <1>2, <1>7, AloneKeeps

\* TagMany.
LEMMA ResolveTagAlone ==
  ASSUME BaseInv, SqliteInv, Sqlite, NEW r \in Request, ResolveTag(r)
  PROVE  SqliteInv'
  <1>1. PICK n \in Name : /\ TagFor(r, n) \in Tag /\ CountsTag(r, n)
                          /\ patch'[r] = WithTag(r, n)
    BY ResolveTagStep
  <1>2. /\ Moves(r) /\ Turn(r) /\ patch[r] = Patch /\ UNCHANGED db
        /\ call'[r].kind \in {"tag", "untag"} /\ call'[r].at = "each"
    BY ResolveTagStep DEF Moves
  <1>3. TagOnce(r)' /\ serial'.tag >= serial.tag
    BY <1>1, <1>2, GetTagOnce
  <1>4. patch'[r].bookmark = patch[r].bookmark /\ patch'[r].job = {}
    <2>1. WithTag(r, n).bookmark = patch[r].bookmark /\ WithTag(r, n).job = patch[r].job
      BY <1>1, GetTag
    <2> QED BY <1>1, <1>2, <2>1 DEF Patch
  <1>5. Rows(r)' = bookmark /\ bookmark' = bookmark
    BY <1>2, <1>4, SeenClean DEF Rows, db
  <1>6. JobsOnce(r)' /\ TagsKept(r)' /\ Merged(r)'
    BY <1>2, <1>4, <1>5 DEF JobsOnce, TagsKept, Merged, Savers
  <1>7. FormURLsOnly => URLOnce(r)'
    BY <1>2, <1>5 DEF URLOnce, SqliteInv, Unique
  <1>8. Goes(r)
    BY <1>2, <1>3, <1>6, <1>7 DEF Goes, Mine, MergeTarget
  <1>9. call'[r].at \notin Outside
    BY <1>2 DEF Outside
  <1> QED BY <1>2, <1>3, <1>8, <1>9, AloneKeeps

\* Bulk tagging keeps the invariant of a single writer.
LEMMA TaggingAlone ==
  ASSUME BaseInv, SqliteInv, Sqlite, NEW r \in Request, TagOne(r) \/ Touch(r) \/ TaggedAll(r)
  PROVE  SqliteInv'
  <1>1. /\ Moves(r) /\ serial' = serial
        /\ call[r].at \in {"each", "touch"} /\ call[r].kind \in {"tag", "untag"}
        /\ call'[r].at \in {"each", "touch", "commit"} /\ call'[r].kind = call[r].kind
        /\ patch'[r].bookmark = patch[r].bookmark /\ patch'[r].tag = patch[r].tag
        /\ patch'[r].job = patch[r].job
    BY TagOneStep, TouchStep, TaggedAllStep DEF Stays
  <1>2. InTx(r) /\ Mine(r) /\ UNCHANGED db
    BY <1>1 DEF InTx, Outside, SqliteInv, Moves
  <1>3. Rows(r)' = Rows(r) /\ bookmark' = bookmark
    BY <1>1, <1>2 DEF Rows, db
  <1>4. JobsOnce(r)' /\ TagsKept(r)' /\ Merged(r)'
    BY <1>1, <1>2, <1>3 DEF Mine, JobsOnce, TagsKept, Merged, Savers
  <1>5. TagOnce(r)'
    BY <1>1, <1>2, SameTags
  <1>6. FormURLsOnly => URLOnce(r)'
    BY <1>1, <1>2, <1>3 DEF Mine, URLOnce, Unique
  <1>7. Goes(r)
    BY <1>1, <1>4, <1>5, <1>6 DEF Goes, Mine, MergeTarget
  <1> QED BY <1>1, <1>2, <1>7, AloneKeeps

\* Deletions.
LEMMA DeletesAlone ==
  ASSUME BaseInv, SqliteInv, Sqlite, NEW r \in Request, DeleteRow(r) \/ DeleteTag(r)
  PROVE  SqliteInv'
  <1>1. /\ Moves(r) /\ serial' = serial /\ Turn(r) /\ patch[r] = Patch
        /\ call'[r].kind \in {"delete", "droptag"} /\ call'[r].at = "clear"
        /\ patch'[r].bookmark = patch[r].bookmark /\ patch'[r].tag = patch[r].tag
        /\ patch'[r].job = patch[r].job
    BY DeleteRowStep, DeleteTagStep
  <1>2. DOMAIN patch'[r].tag = {} /\ patch'[r].job = {}
    BY <1>1 DEF Patch
  <1>3. Rows(r)' = bookmark /\ bookmark' = bookmark
    BY <1>1, SeenClean DEF Rows, Moves, db
  <1>4. TagOnce(r)'
    BY <1>1, <1>2, NothingNew
  <1>5. JobsOnce(r)' /\ TagsKept(r)' /\ Merged(r)'
    BY <1>1, <1>2, <1>3 DEF JobsOnce, TagsKept, Merged, Savers
  <1>6. FormURLsOnly => URLOnce(r)'
    BY <1>1, <1>3 DEF URLOnce, SqliteInv, Unique
  <1>7. Goes(r)
    BY <1>1, <1>4, <1>5, <1>6 DEF Goes, Mine, MergeTarget
  <1> QED BY <1>1, <1>7, AloneKeeps

\* Drop keeps the invariant of a single writer.
LEMMA DropAlone ==
  ASSUME BaseInv, SqliteInv, Sqlite, NEW r \in Request, Drop(r)
  PROVE  SqliteInv'
  <1>1. /\ Moves(r) /\ serial' = serial
        /\ call[r].at = "drop" /\ call[r].kind \in {"delete", "droptag", "merge"}
        /\ call'[r].at \in {"commit", "copy"}
        /\ Stays(call[r], call'[r]) /\ call'[r].ids \subseteq call[r].ids
        /\ patch'[r].add = patch[r].add /\ patch'[r].del = patch[r].del
        /\ patch'[r].job = patch[r].job
    BY DropStep
  <1>2. InTx(r) /\ Mine(r) /\ MergeTarget(call[r]) /\ UNCHANGED db
    BY <1>1 DEF InTx, Outside, SqliteInv, Moves
  <1>3. Links(r)' = Links(r) /\ link' = link /\ bookmark' = bookmark /\ tag' = tag
    BY <1>1, <1>2 DEF Links, db
  <1>4. \A b \in Bookmark : Rows(r)'[b] = Rows(r)[b] \/ Rows(r)'[b] = None
    <2>1. CASE call[r].kind = "delete"
      <3>1. PICK d : d = call[r].b
        OBVIOUS
      <3>2. d \in Bookmark /\ patch'[r].bookmark = Put(patch[r].bookmark, d, None)
        BY <2>1, <3>1, DropStep
      <3>3. /\ bookmark \in [Bookmark -> Row \cup {None}]
            /\ patch[r].bookmark \in Partial(Bookmark, Row \cup {None})
        BY SeenType DEF BaseInv, Types, Change
      <3>4. /\ Over(Put(patch[r].bookmark, d, None), bookmark)[d] = None
            /\ \A c \in Bookmark \ {d} :
                 Over(Put(patch[r].bookmark, d, None), bookmark)[c]
                   = Over(patch[r].bookmark, bookmark)[c]
        BY <3>2, <3>3, OverPut
      <3> QED BY <1>3, <3>2, <3>4 DEF Rows
    <2>2. CASE call[r].kind # "delete"
      <3>1. patch'[r].bookmark = patch[r].bookmark
        BY <2>2, DropStep
      <3> QED BY <1>3, <3>1 DEF Rows
    <2> QED BY <2>1, <2>2
  <1>5. \A t \in Tag : Tags(r)'[t] = Tags(r)[t] \/ Tags(r)'[t] = NoTag
    <2>1. CASE call[r].kind # "delete"
      <3>1. PICK d : d = call[r].t
        OBVIOUS
      <3>2. d \in Tag /\ patch'[r].tag = Put(patch[r].tag, d, NoTag)
        BY <2>1, <3>1, DropStep
      <3>3. tag \in [Tag -> Name \cup {NoTag}] /\ patch[r].tag \in Partial(Tag, Name \cup {NoTag})
        BY SeenType DEF BaseInv, Types, Change
      <3>4. /\ Over(Put(patch[r].tag, d, NoTag), tag)[d] = NoTag
            /\ \A t \in Tag \ {d} :
                 Over(Put(patch[r].tag, d, NoTag), tag)[t] = Over(patch[r].tag, tag)[t]
        BY <3>2, <3>3, OverPut
      <3> QED BY <1>3, <3>2, <3>4 DEF Tags
    <2>2. CASE call[r].kind = "delete"
      <3>1. patch'[r].tag = patch[r].tag
        BY <2>2, DropStep
      <3> QED BY <1>3, <3>1 DEF Tags
    <2> QED BY <2>1, <2>2
  <1>6. JobsOnce(r)'
    BY <1>1, <1>2, <1>3, <1>4 DEF Mine, JobsOnce, Stays, Savers
  <1>7. TagOnce(r)'
    BY <1>1, <1>2, <1>3, <1>5 DEF Mine, TagOnce
  <1>8. TagsKept(r)' /\ Merged(r)'
    BY <1>1, <1>2, <1>3 DEF Mine, TagsKept, Merged, Stays
  <1>9. FormURLsOnly => URLOnce(r)'
    BY <1>1, <1>2, <1>4 DEF Mine, URLOnce, Unique, Stays
  <1>10. Goes(r)
    BY <1>1, <1>2, <1>6, <1>7, <1>8, <1>9 DEF Goes, Mine, MergeTarget, Stays
  <1> QED BY <1>1, <1>2, <1>10, AloneKeeps

\* mergeTagsUI: what is checked before the transaction, and its first statement.
LEMMA ChecksAlone ==
  ASSUME BaseInv, SqliteInv, Sqlite, NEW r \in Request,
         CheckNewTag(r) \/ CheckRename(r) \/ MergeTags(r) \/ ResolveMerged(r)
  PROVE  SqliteInv'
  <1>1. MergeTarget(call[r])
    BY DEF SqliteInv
  <1>2. /\ Moves(r) /\ serial' = serial /\ call'[r].at \in Outside
        /\ MergeTarget(call'[r])
    <2>1. CASE CheckNewTag(r) \/ CheckRename(r)
      BY <2>1, CheckNewTagStep, CheckRenameStep DEF Outside, MergeTarget
    <2>2. CASE MergeTags(r)
      BY <2>2, MergeTagsStep DEF Outside, MergeTarget
    <2>3. CASE ResolveMerged(r)
      <3>1. Idle.at = "idle" /\ Idle.kind = "none"
        BY DEF Idle
      <3> QED BY <1>1, <2>3, <3>1, ResolveMergedStep DEF Outside, MergeTarget, Stays
    <2> QED BY <2>1, <2>2, <2>3
  <1>3. Goes(r)
    BY <1>2 DEF Goes
  <1> QED BY <1>2, <1>3, AloneKeeps

\* BeginMerge keeps the invariant of a single writer.
LEMMA BeginMergeAlone ==
  ASSUME BaseInv, SqliteInv, Sqlite, NEW r \in Request, BeginMerge(r)
  PROVE  SqliteInv'
  <1>1. /\ Moves(r) /\ patch' = patch /\ serial' = serial /\ Turn(r) /\ patch[r] = Patch
        /\ call[r].at = "begin" /\ call[r].kind = "merge"
        /\ call'[r].at = "copy" /\ Stays(call[r], call'[r]) /\ call'[r].ids = call[r].ids
    BY BeginMergeStep
  <1>2. MergeTarget(call[r])
    BY DEF SqliteInv
  <1>3. DOMAIN patch'[r].tag = {} /\ patch'[r].job = {}
    BY <1>1 DEF Patch
  <1>4. /\ Rows(r)' = bookmark /\ bookmark' = bookmark
        /\ Links(r)' = link /\ link' = link
    BY <1>1, SeenClean DEF Rows, Links, Moves, db
  <1>5. TagOnce(r)'
    BY <1>1, <1>3, NothingNew
  <1>6. JobsOnce(r)' /\ TagsKept(r)' /\ Merged(r)'
    BY <1>1, <1>3, <1>4 DEF JobsOnce, TagsKept, Merged, Savers, Stays
  <1>7. FormURLsOnly => URLOnce(r)'
    BY <1>1, <1>4 DEF URLOnce, SqliteInv, Unique, Stays
  <1>8. Goes(r)
    BY <1>1, <1>2, <1>5, <1>6, <1>7 DEF Goes, Mine, MergeTarget, Stays
  <1> QED BY <1>1, <1>8, AloneKeeps

\* CopyLinks keeps the invariant of a single writer.
LEMMA CopyLinksAlone ==
  ASSUME BaseInv, SqliteInv, Sqlite, NEW r \in Request, CopyLinks(r)
  PROVE  SqliteInv'
  <1>1. PICK t, b : t = call'[r].t /\ b = call[r].b
    OBVIOUS
  <1>2. PICK new : /\ new = {<<c, b>> : c \in {d \in Bookmark : <<d, t>> \in Links(r)}} \ Links(r)
                   /\ patch'[r].add = patch[r].add \cup new
    <2>1. PICK new :
            /\ new = {<<c, call[r].b>> : c \in {d \in Bookmark : <<d, call'[r].t>> \in Links(r)}}
                       \ Links(r)
            /\ patch'[r].add = patch[r].add \cup new
      BY CopyLinksStep
    <2> QED BY <1>1, <2>1
  <1>3. /\ Moves(r) /\ serial' = serial
        /\ call[r].at = "copy" /\ call[r].kind = "merge" /\ call'[r].at = "clear"
        /\ Stays(call[r], call'[r]) /\ call'[r].ids = call[r].ids
        /\ t \in call[r].ids
        /\ patch'[r].bookmark = patch[r].bookmark /\ patch'[r].tag = patch[r].tag
        /\ patch'[r].job = patch[r].job
        /\ patch'[r].add = patch[r].add \cup new /\ patch'[r].del = patch[r].del
    BY <1>1, <1>2, CopyLinksStep
  <1>4. InTx(r) /\ Mine(r) /\ MergeTarget(call[r]) /\ UNCHANGED db
    BY <1>3 DEF InTx, Outside, SqliteInv, Moves
  <1>5. JobsOnce(r)' /\ TagOnce(r)' /\ (FormURLsOnly => URLOnce(r)')
    BY <1>3, <1>4, SameRows, SameTags, SameJobs DEF Stays
  <1>6. TagsKept(r)'
    BY <1>3 DEF TagsKept, Stays
  <1>7. Links(r)' = Links(r) \cup new /\ link' = link
    BY <1>3, <1>4 DEF Links, db
  <1>8. t # b
    BY <1>1, <1>3, <1>4 DEF MergeTarget
  <1>9. \A l \in link : l \in Links(r) \/ <<l[1], b>> \in Links(r)
    BY <1>1, <1>3, <1>4 DEF Mine, Merged
  <1>10. ASSUME NEW l \in Links(r)', l[2] = t
         PROVE  <<l[1], b>> \in Links(r)'
    <2>1. CASE l \in Links(r)
      <3>1. l \in Link
        BY <2>1, SeenType
      <3>2. l[1] \in Bookmark /\ l = <<l[1], t>>
        BY <1>10, <3>1 DEF Link
      <3>3. <<l[1], b>> \in {<<c, b>> : c \in {d \in Bookmark : <<d, t>> \in Links(r)}}
        BY <2>1, <3>2
      <3> QED BY <1>2, <1>7, <3>3
    <2>2. CASE l \in new
      <3>1. PICK c : l = <<c, b>>
        BY <1>2, <2>2, Zenon
      <3> QED BY <1>8, <1>10, <3>1
    <2> QED BY <1>7, <2>1, <2>2
  <1>11. Merged(r)'
    <2>1. /\ call'[r].kind = "merge" /\ call'[r].at = "clear" /\ call'[r].b = b
          /\ call'[r].t = t
      BY <1>1, <1>3 DEF Stays
    <2>2. \A l \in link : l \in Links(r)' \/ <<l[1], b>> \in Links(r)'
      BY <1>7, <1>9
    <2> QED BY <1>7, <1>8, <1>10, <2>1, <2>2 DEF Merged
  <1>12. Goes(r)
    BY <1>3, <1>4, <1>5, <1>6, <1>11 DEF Goes, Mine, MergeTarget, Stays
  <1> QED BY <1>3, <1>4, <1>12, AloneKeeps

\* What is committed was seen by the request.
LEMMA CommitAlone ==
  ASSUME BaseInv, SqliteInv, Sqlite, NEW r \in Request, Commit(r)
  PROVE  SqliteInv'
  <1>1. /\ bookmark' = Rows(r) /\ tag' = Tags(r) /\ Writes(r, Patch) /\ Ends(r)
        /\ serial' = serial /\ call[r].at = "commit"
    BY DEF Commit, At
  <1>2. InTx(r) /\ Mine(r)
    BY <1>1 DEF InTx, Outside, SqliteInv
  <1>3. /\ \A q \in Request \ {r} : call'[q] = call[q]
        /\ call'[r].kind = "none" /\ call'[r].at = "idle"
    BY <1>1, EndsTyped
  <1>4. FormURLsOnly => Unique(bookmark')
    BY <1>1, <1>2 DEF Mine, URLOnce
  <1>5. \A t \in Tag : t >= serial'.tag => tag'[t] = NoTag
    BY <1>1, <1>2 DEF Mine, TagOnce
  <1> QED BY <1>2, <1>3, <1>4, <1>5, WrittenAlone

\* Abort keeps the invariant of a single writer.
LEMMA AbortAlone ==
  ASSUME BaseInv, SqliteInv, Sqlite, NEW r \in Request, Abort(r)
  PROVE  SqliteInv'
  <1>1. Moves(r) /\ call'[r] = Idle
    BY AbortKeeps
  <1>2. Idle.at = "idle" /\ Idle.kind = "none" /\ serial' = serial
    BY DEF Idle, Abort
  <1>3. Goes(r) /\ call'[r].at \in Outside
    BY <1>1, <1>2 DEF Goes, Outside, MergeTarget
  <1> QED BY <1>1, <1>2, <1>3, AloneKeeps

\* Statements of their own wait for the write lock.
LEMMA RowWritesAlone ==
  ASSUME BaseInv, SqliteInv, Sqlite, NEW r \in Request, SetState(r) \/ EnhanceMetadata(r)
  PROVE  SqliteInv'
  <1>1. /\ tag' = tag /\ serial' = serial /\ call' = call /\ Turn(r) /\ call[r].at = "idle"
        /\ \A b \in Bookmark :
             \/ bookmark'[b] = bookmark[b]
             \/ bookmark'[b].url = bookmark[b].url /\ bookmark[b] # None
    BY RowWritesStep
  <1>2. call[r].kind = "none"
    BY <1>1, KindOf
  <1>3. FormURLsOnly => Unique(bookmark')
    BY <1>1 DEF SqliteInv, Unique
  <1>4. \A t \in Tag : t >= serial'.tag => tag'[t] = NoTag
    BY <1>1 DEF SqliteInv
  <1> QED BY <1>1, <1>2, <1>3, <1>4, WrittenAlone

\* The insertion and the renaming of a tag keep the invariant of a single writer.
LEMMA TagWritesAlone ==
  ASSUME BaseInv, SqliteInv, Sqlite, NEW r \in Request, InsertTag(r) \/ RenameTag(r)
  PROVE  SqliteInv'
  <1>1. Turn(r) /\ Ends(r) /\ patch' = patch /\ bookmark' = bookmark
    BY DEF InsertTag, RenameTag
  <1>2. /\ \A q \in Request \ {r} : call'[q] = call[q]
        /\ call'[r].kind = "none" /\ call'[r].at = "idle"
    BY <1>1, EndsTyped
  <1>3. FormURLsOnly => Unique(bookmark')
    BY <1>1 DEF SqliteInv
  <1>4. /\ tag \in [Tag -> Name \cup {NoTag}] /\ serial \in [bookmark : Nat, tag : Nat]
        /\ \A t \in Tag : t \in Nat
        /\ \A t \in Tag : t >= serial.tag => tag[t] = NoTag
    BY BookmarksAssumption DEF BookmarksAssumption, BaseInv, Types, SqliteInv
  <1>5. \A t \in Tag : t >= serial'.tag => tag'[t] = NoTag
    <2>1. CASE InsertTag(r)
      <3>1. PICK n : tag' = [tag EXCEPT ![serial.tag] = n]
        BY <2>1 DEF InsertTag
      <3>2. serial'.tag = serial.tag + 1
        BY <1>4, <2>1 DEF InsertTag
      <3> QED BY <1>4, <3>1, <3>2
    <2>2. CASE RenameTag(r)
      <3>1. PICK n : tag' = [tag EXCEPT ![call[r].t] = IF @ = NoTag THEN @ ELSE n]
        BY <2>2 DEF RenameTag
      <3>2. serial' = serial
        BY <2>2 DEF RenameTag
      <3> QED BY <1>4, <3>1, <3>2
    <2> QED BY <2>1, <2>2
  <1> QED BY <1>1, <1>2, <1>3, <1>5, WrittenAlone

-----------------------------------------------------------------------------
(***************************************************************************)
(* What the write lock gives on SQLite.                                     *)
(***************************************************************************)
LEMMA InitSqlite == Init => SqliteInv
  <1> SUFFICES ASSUME Init PROVE SqliteInv
    OBVIOUS
  <1>1. Idle.kind = "none" /\ Idle.at = "idle"
    BY DEF Idle
  <1>2. \A r \in Request : ~InTx(r) /\ MergeTarget(call[r])
    BY <1>1 DEF Init, InTx, Outside, MergeTarget
  <1>3. Unique(bookmark) /\ \A t \in Tag : tag[t] = NoTag
    BY DEF Init, Unique
  <1> QED BY <1>2, <1>3 DEF SqliteInv, Alone

\* On SQLite every step keeps the invariant of a single writer.
LEMMA SqliteStep ==
  ASSUME Sqlite, BaseInv, SqliteInv, [Next]_vars
  PROVE  SqliteInv'
  <1>1. CASE UNCHANGED vars
    <2>1. /\ UNCHANGED db /\ serial' = serial /\ call' = call /\ patch' = patch
          /\ tag' = tag /\ bookmark' = bookmark
      BY <1>1 DEF vars, db
    <2>2. \A r \in Request : InTx(r)' <=> InTx(r)
      BY <2>1 DEF InTx
    <2>3. ASSUME NEW r \in Request, InTx(r) PROVE Mine(r)'
      <3>1. Mine(r)
        BY <2>3 DEF SqliteInv
      <3> QED BY <2>1, <3>1, MineStays
    <2>4. Alone' /\ (FormURLsOnly => Unique(bookmark)')
      BY <2>1, <2>2 DEF SqliteInv, Alone, Unique
    <2> QED BY <2>1, <2>2, <2>3, <2>4 DEF SqliteInv, MergeTarget
  <1>2. ASSUME NEW r \in Request, RequestStep(r) PROVE SqliteInv'
    <2>1. CASE Lookup(r) \/ InsertRow(r) \/ MergeIntoRow(r)
      BY <2>1, LookupAlone, InsertRowAlone, MergeRowAlone
    <2>2. CASE StartClear(r) \/ Clear(r) \/ Attach(r) \/ Effects(r)
      BY <2>2, StartClearAlone, ClearAlone, AttachAlone, EffectsAlone
    <2>3. CASE ReadRow(r) \/ WriteRow(r) \/ KeepTags(r)
      BY <2>3, ReadRowAlone, WriteRowAlone, KeepTagsAlone
    <2>4. CASE SetState(r) \/ EnhanceMetadata(r)
      BY <2>4, RowWritesAlone
    <2>5. CASE ResolveTag(r) \/ TagOne(r) \/ Touch(r) \/ TaggedAll(r)
      BY <2>5, ResolveTagAlone, TaggingAlone
    <2>6. CASE DeleteRow(r) \/ DeleteTag(r) \/ Drop(r)
      BY <2>6, DeletesAlone, DropAlone
    <2>7. CASE CheckNewTag(r) \/ InsertTag(r) \/ CheckRename(r) \/ RenameTag(r)
      BY <2>7, ChecksAlone, TagWritesAlone
    <2>8. CASE MergeTags(r) \/ ResolveMerged(r) \/ BeginMerge(r) \/ CopyLinks(r)
      BY <2>8, ChecksAlone, BeginMergeAlone, CopyLinksAlone
    <2>9. CASE Commit(r) \/ Abort(r)
      BY <2>9, CommitAlone, AbortAlone
    <2> QED BY <1>2, <2>1, <2>2, <2>3, <2>4, <2>5, <2>6, <2>7, <2>8, <2>9, Zenon DEF RequestStep
  <1> QED BY <1>1, <1>2 DEF Next

\* On SQLite both invariants hold.
LEMMA SqliteHolds ==
  ASSUME Sqlite
  PROVE  Spec => [](BaseInv /\ SqliteInv)
  <1>1. Init => BaseInv /\ SqliteInv
    BY InitBase, InitSqlite
  <1>2. BaseInv /\ SqliteInv /\ [Next]_vars => (BaseInv /\ SqliteInv)'
    BY BaseStep, SqliteStep
  <1> QED BY <1>1, <1>2, PTL DEF Spec

\* A request sees what it will commit from its first statement on, and no other
\* request commits in between.
LEMMA Committed ==
  ASSUME SqliteInv, NEW r \in Request, Commit(r)
  PROVE  /\ Mine(r) /\ call[r].at = "commit"
         /\ bookmark' = Rows(r) /\ tag' = Tags(r) /\ link' = Links(r)
         /\ job' = job \cup patch[r].job
  BY DEF SqliteInv, Commit, At, InTx, Outside

\* On SQLite no two bookmarks ever have the same normalized URL, whatever
\* creations, edits of the form, bulk changes and deletions run at once:
\* existingURLLookup and the check of the form are made under the write lock of
\* the transaction that saves.  API edits that give a URL are excepted, since
\* they look for the exact URL.
THEOREM NoURLTwice ==
  ASSUME Sqlite, FormURLsOnly
  PROVE  Spec => []OneBookmarkPerURL
  <1>1. BaseInv /\ SqliteInv => OneBookmarkPerURL
    BY DEF SqliteInv, Unique, OneBookmarkPerURL
  <1> QED BY <1>1, SqliteHolds, PTL

\* On SQLite get-or-create makes no tag whose name is there at its commit.
THEOREM TagsCreatedOnce ==
  ASSUME Sqlite
  PROVE  Spec => NoTagTwice
  <1>1. BaseInv /\ SqliteInv /\ [Next]_vars =>
          [\A r \in Request : Commit(r) =>
             \A s, t \in Tag :
               tag[t] = NoTag /\ tag'[t] # NoTag => s = t \/ tag'[s] # tag'[t]]_vars
    <2> SUFFICES ASSUME SqliteInv, NEW r \in Request, Commit(r), NEW s \in Tag, NEW t \in Tag,
                        tag[t] = NoTag, tag'[t] # NoTag, tag'[s] = tag'[t]
                 PROVE  s = t
      BY Zenon
    <2> QED BY Committed DEF Mine, TagOnce
  <1> QED BY <1>1, SqliteHolds, PTL DEF Spec, NoTagTwice

\* A merge of tags loses no tagging: each bookmark that had the target tag or one
\* of the merged tags when the merge is committed keeps its tag or has the target.
THEOREM MergesLoseNothing ==
  ASSUME Sqlite
  PROVE  Spec => MergeKeepsTaggings
  <1>1. BaseInv /\ SqliteInv /\ [Next]_vars =>
          [\A r \in Request : Commit(r) /\ call[r].kind = "merge" =>
             \A l \in link : l \in link' \/ <<l[1], call[r].b>> \in link']_vars
    <2> SUFFICES ASSUME SqliteInv, NEW r \in Request, Commit(r), call[r].kind = "merge",
                        NEW l \in link
                 PROVE  l \in link' \/ <<l[1], call[r].b>> \in link'
      BY Zenon
    <2> QED BY Committed DEF Mine, Merged
  <1> QED BY <1>1, SqliteHolds, PTL DEF Spec, MergeKeepsTaggings

\* An edit through the API that gives no tags takes none from the bookmark, although
\* it deletes all its links and attaches them again one by one; only a tag with a
\* comma in its name makes way for its parts, since the names are joined with commas
\* and parsed again (replaceTags).
THEOREM EditsKeepTags ==
  ASSUME Sqlite
  PROVE  Spec => KeepsTags
  <1>1. BaseInv /\ SqliteInv /\ [Next]_vars =>
          [\A r \in Request :
             Commit(r) /\ call[r].kind = "rest" /\ "names" \notin call[r].given =>
               Parsed({tag[l[2]] : l \in {k \in link : k[1] = call[r].b}})
                 \subseteq {tag'[l[2]] : l \in {k \in link' : k[1] = call[r].b}}]_vars
    <2> SUFFICES ASSUME SqliteInv, NEW r \in Request, Commit(r), call[r].kind = "rest",
                        "names" \notin call[r].given
                 PROVE  Parsed({tag[l[2]] : l \in {k \in link : k[1] = call[r].b}})
                          \subseteq {tag'[l[2]] : l \in {k \in link' : k[1] = call[r].b}}
      BY Zenon
    <2>1. /\ Parsed(OldNames(call[r].b)) \subseteq NamesOf(r, call[r].b)
          /\ tag' = Tags(r) /\ link' = Links(r)
      BY Committed DEF Mine, TagsKept
    <2> QED BY <2>1 DEF OldNames, NamesOf
  <1> QED BY <1>1, SqliteHolds, PTL DEF Spec, KeepsTags

\* A bookmark and its jobs are committed together: no bookmark without its load,
\* archive and snapshot jobs, no job without its bookmark.
THEOREM JobsComeWithRows ==
  ASSUME Sqlite
  PROVE  Spec => JobsWithRows
  <1>1. ASSUME BaseInv, SqliteInv, NEW r \in Request, RequestStep(r)
        PROVE  /\ \A j \in job' \ job : bookmark'[j[1]] # None
               /\ \A b \in Bookmark : bookmark[b] = None /\ bookmark'[b] # None =>
                    {b} \X JobKind \subseteq job'
    <2>1. CASE Commit(r)
      <3>1. JobsOnce(r) /\ call[r].at = "commit" /\ bookmark' = Rows(r)
            /\ job' = job \cup patch[r].job
        BY <1>1, <2>1, Committed DEF Mine
      <3>2. ASSUME NEW j \in job' \ job PROVE bookmark'[j[1]] # None
        <4>1. j \in patch[r].job /\ call[r].kind \in Savers /\ j[1] = call[r].b
          BY <3>1 DEF JobsOnce
        <4>2. call[r].b \in Bookmark
          BY <1>1, <3>1, <4>1 DEF BaseInv, Locals
        <4>3. call[r].b # 0
          BY <4>2, BookmarksAssumption DEF BookmarksAssumption
        <4> QED BY <3>1, <4>1, <4>3 DEF JobsOnce
      <3> QED BY <3>1, <3>2 DEF JobsOnce
    <2>2. CASE SetState(r) \/ EnhanceMetadata(r)
      BY <1>1, <2>2, RowWritesStep
    <2>3. CASE job' = job /\ bookmark' = bookmark
      BY <2>3
    <2>4. CASE Lookup(r) \/ InsertRow(r) \/ MergeIntoRow(r) \/ StartClear(r) \/ Clear(r)
                 \/ Attach(r) \/ Effects(r)
      BY <2>3, <2>4, Zenon
         DEF Lookup, InsertRow, MergeIntoRow, StartClear, Clear, Attach, Effects, db
    <2>5. CASE ReadRow(r) \/ WriteRow(r) \/ KeepTags(r) \/ ResolveTag(r) \/ TagOne(r)
                 \/ Touch(r) \/ TaggedAll(r)
      BY <2>3, <2>5, ZenonT(30)
         DEF ReadRow, WriteRow, KeepTags, ResolveTag, TagOne, Touch, TaggedAll, db
    <2>6. CASE DeleteRow(r) \/ DeleteTag(r) \/ Drop(r) \/ CheckNewTag(r) \/ InsertTag(r)
                 \/ CheckRename(r) \/ RenameTag(r)
      BY <2>3, <2>6, Zenon
         DEF DeleteRow, DeleteTag, Drop, CheckNewTag, InsertTag, CheckRename, RenameTag, db
    <2>7. CASE MergeTags(r) \/ ResolveMerged(r) \/ BeginMerge(r) \/ CopyLinks(r) \/ Abort(r)
      BY <2>3, <2>7, Zenon
         DEF MergeTags, ResolveMerged, BeginMerge, CopyLinks, Abort, db
    <2> QED BY <1>1, <2>1, <2>2, <2>4, <2>5, <2>6, <2>7, Zenon DEF RequestStep
  <1>2. BaseInv /\ SqliteInv /\ [Next]_vars =>
          [/\ \A j \in job' \ job : bookmark'[j[1]] # None
           /\ \A b \in Bookmark : bookmark[b] = None /\ bookmark'[b] # None =>
                {b} \X JobKind \subseteq job']_vars
    BY <1>1 DEF Next
  <1> QED BY <1>2, SqliteHolds, PTL DEF Spec, JobsWithRows

-----------------------------------------------------------------------------
(***************************************************************************)
(* What the requests amount to on SQLite: each commit is a step of           *)
(* WholeRequests.  WholeInv says of every open transaction what its patch    *)
(* makes of the committed tables at the place it has reached.                *)
(***************************************************************************)
\* The bookmark that a second creation of a URL updates.
Oldest(b, url) == b \in Whole!Same(url) /\ \A c \in Whole!Same(url) : b <= c

\* The row of a creation or an edit: before it is written, and from then on.
Chosen(c) ==
  IF c.b = 0 THEN Whole!Same(c.url) = {} ELSE Oldest(c.b, c.url) /\ c.url = bookmark[c.b].url
CreatedRow(r) ==
  LET c == call[r] IN
  \/ /\ c.given = {"new"} /\ Whole!Same(c.url) = {} /\ bookmark[c.b] = None
     /\ Rows(r)[c.b] = [url |-> c.url, title |-> "given", archived |-> FALSE]
  \/ /\ c.given = {} /\ Oldest(c.b, c.url) /\ c.url = bookmark[c.b].url
     /\ Rows(r)[c.b] = [bookmark[c.b] EXCEPT !.title = "given"]
EditedRow(r) ==
  LET c == call[r] IN
  /\ c.kind = "form" => Whole!Same(c.url) \subseteq {c.b}
  /\ c.kind = "rest" /\ "url" \in c.given =>
       \A x \in Whole!Present \ {c.b} : bookmark[x].url # c.url
  /\ \E archived \in BOOLEAN :
       /\ "archived" \notin c.given => archived = bookmark[c.b].archived
       /\ Rows(r)[c.b] = [url |-> c.url, archived |-> archived,
                          title |-> IF "title" \in c.given THEN "given" ELSE bookmark[c.b].title]
SavesRow(r) ==
  LET c == call[r] IN
  /\ \A x \in Bookmark \ {c.b} : Rows(r)[x] = bookmark[x]
  /\ c.kind = "create" => /\ c.row = None
                          /\ IF c.at = "save" THEN c.given = {} /\ Chosen(c) ELSE CreatedRow(r)
  /\ c.kind \in {"form", "rest"} =>
       /\ bookmark[c.b] # None /\ c.row = bookmark[c.b]
       /\ c.kind = "form" => c.given = {"url", "title", "names"}
       /\ "url" \notin c.given => c.url = bookmark[c.b].url
       /\ IF c.at = "edit" THEN Rows(r)[c.b] = bookmark[c.b] ELSE EditedRow(r)

\* Its tags: first those that are committed, then one of each name that is no
\* longer to be attached.
Asked(c, names) ==
  \E asked \in SUBSET Name :
    /\ names = Parsed(asked \cup AutoTags[c.url])
    /\ c.kind \in {"form", "rest"} /\ "names" \notin c.given => asked = OldNames(c.b)
Attached(r) ==
  LET b == call[r].b IN
  /\ \A t \in Tag : tag[t] # NoTag => Tags(r)[t] = tag[t]
  /\ \A t \in Tag : tag[t] = NoTag /\ Tags(r)[t] # NoTag => <<b, t>> \in Links(r)
  /\ \A l \in Link : l[1] # b => (l \in Links(r) <=> l \in link)
  /\ \A l \in Links(r) : l[1] = b => Tags(r)[l[2]] \in Name /\ Tags(r)[l[2]] \notin call[r].names
  /\ \A k, l \in Links(r) : k[1] = b /\ l[1] = b /\ Tags(r)[k[2]] = Tags(r)[l[2]] => k[2] = l[2]
SavesTags(r) ==
  LET c == call[r] IN
  /\ c.at \in {"save", "edit", "tags", "clear", "clearing"} => Tags(r) = tag /\ Links(r) = link
  /\ c.at = "clearing" => c.seen = {l \in link : l[1] = c.b}
  /\ c.at \in {"clear", "clearing"} => Asked(c, c.names)
  /\ c.at \in {"attach", "commit"} => Attached(r) /\ Asked(c, c.names \cup NamesOf(r, c.b))
  /\ c.at = "commit" => c.names = {}

\* Its jobs, which are queued last.
SavesJobs(r) ==
  LET c == call[r] IN
  patch[r].job = IF c.at # "commit" THEN {}
                 ELSE {c.b} \X ({"load"} \cup (IF "new" \in c.given THEN JobKind ELSE {})
                                  \cup (IF c.row # None /\ c.row.url # c.url THEN {"archive"} ELSE {}))

Saves(r) == SavesRow(r) /\ SavesTags(r) /\ SavesJobs(r)

\* The deletion of a bookmark, and that of a tag: the row goes after its links.
Deletes(r) ==
  LET c == call[r] IN
  /\ Tags(r) = tag /\ patch[r].job = {} /\ bookmark[c.b] # None
  /\ Rows(r) = IF c.at = "commit" THEN [bookmark EXCEPT ![c.b] = None] ELSE bookmark
  /\ Links(r) = IF c.at \in {"clear", "clearing"} THEN link ELSE {l \in link : l[1] # c.b}
  /\ c.at = "clearing" => c.seen = {l \in link : l[1] = c.b}

DropsTag(r) ==
  LET c == call[r] IN
  /\ Rows(r) = bookmark /\ patch[r].job = {} /\ tag[c.t] # NoTag
  /\ Tags(r) = IF c.at = "commit" THEN [tag EXCEPT ![c.t] = NoTag] ELSE tag
  /\ Links(r) = IF c.at \in {"clear", "clearing"} THEN link ELSE {l \in link : l[2] # c.t}
  /\ c.at = "clearing" => c.seen = {l \in link : l[2] = c.t}

\* The links once those of the tags S have become links of the target.
Moved(S, target) ==
  {l \in link : l[2] \notin S}
    \cup {<<b, target>> : b \in {x \in Bookmark : \E t \in S : <<x, t>> \in link}}

\* A merge: S are the tags that are done with, c.ids those to come, c.t the one at
\* hand, c.b the target.
Merges(r) ==
  LET c == call[r]
      S == DOMAIN patch[r].tag
  IN
  /\ Rows(r) = bookmark /\ patch[r].job = {}
  /\ S \subseteq Tag /\ c.b \notin S /\ c.b \notin c.ids /\ c.ids \cap S = {}
  /\ Tags(r) = [t \in Tag |-> IF t \in S THEN NoTag ELSE tag[t]]
  /\ c.at \in {"copy", "commit"} => Links(r) = Moved(S, c.b)
  /\ c.at \in {"clear", "clearing", "drop"} => c.t \in c.ids
  /\ c.at \in {"clear", "clearing"} =>
       Links(r) = Moved(S, c.b) \cup {<<b, c.b>> : b \in {x \in Bookmark : <<x, c.t>> \in link}}
  /\ c.at = "clearing" => c.seen = {l \in link : l[2] = c.t}
  /\ c.at = "drop" => Links(r) = Moved(S \cup {c.t}, c.b)
  /\ c.at = "commit" => c.ids = {}

\* A bulk call: the tag that it got or made, and links of that tag only.
TagsMany(r) ==
  LET c == call[r] IN
  /\ Rows(r) = bookmark /\ patch[r].job = {}
  /\ \E n \in Name : \/ tag[c.t] = n /\ Tags(r) = tag
                     \/ /\ tag[c.t] = NoTag /\ \A s \in Tag : tag[s] # n
                        /\ Tags(r) = [tag EXCEPT ![c.t] = n]
  /\ c.kind = "tag" => link \subseteq Links(r) /\ \A l \in Links(r) \ link : l[2] = c.t /\ bookmark[l[1]] # None
  /\ c.kind = "untag" => Links(r) \subseteq link /\ \A l \in link \ Links(r) : l[2] = c.t

\* What each open transaction has done, by the kind of its request.
Going(r) ==
  LET kind == call[r].kind IN
  /\ kind \in Savers => Saves(r)
  /\ kind = "delete" => Deletes(r)
  /\ kind = "droptag" => DropsTag(r)
  /\ kind = "merge" => Merges(r)
  /\ kind \in {"tag", "untag"} => TagsMany(r)

WholeInv == \A r \in Request : InTx(r) => Going(r)

-----------------------------------------------------------------------------
\* Where a request goes is where it is then.
LEMMA Went ==
  ASSUME BaseInv, NEW r \in Request, NEW c, Goto(r, c)
  PROVE  call'[r] = c
  BY DEF BaseInv, Types, Goto

\* What a request writes is its patch then.
LEMMA Wrote ==
  ASSUME BaseInv, NEW r \in Request, NEW p, Writes(r, p)
  PROVE  patch'[r] = p
  BY DEF BaseInv, Types, Writes

\* What a request asked for is what it asked for, as long as the tables stay.
LEMMA AskedStill ==
  ASSUME NEW c, NEW d, NEW names, Asked(c, names), Stays(c, d), tag' = tag, link' = link
  PROVE  Asked(d, names)'
  <1>1. d.kind = c.kind /\ d.b = c.b /\ d.url = c.url /\ d.given = c.given
    BY DEF Stays
  <1>2. OldNames(d.b)' = OldNames(c.b)
    BY <1>1 DEF OldNames
  <1>3. PICK asked \in SUBSET Name :
          /\ names = Parsed(asked \cup AutoTags[c.url])
          /\ c.kind \in {"form", "rest"} /\ "names" \notin c.given => asked = OldNames(c.b)
    BY DEF Asked
  <1> QED BY <1>1, <1>2, <1>3 DEF Asked

\* A request that does not move goes on as it did.
LEMMA GoesOn ==
  ASSUME NEW r \in Request, Going(r), UNCHANGED db, call'[r] = call[r], patch'[r] = patch[r]
  PROVE  Going(r)'
  <1>1. /\ bookmark' = bookmark /\ tag' = tag /\ link' = link /\ job' = job
        /\ call'[r] = call[r] /\ patch'[r] = patch[r]
    BY DEF db
  <1>2. Rows(r)' = Rows(r) /\ Tags(r)' = Tags(r) /\ Links(r)' = Links(r)
    BY <1>1 DEF Rows, Tags, Links
  <1>3. Saves(r)' <=> Saves(r)
    <2>1. SavesRow(r)' <=> SavesRow(r)
      BY <1>1, <1>2 DEF SavesRow, Chosen, CreatedRow, EditedRow, Oldest, Whole!Same, Whole!Present
    <2>2. Attached(r)' <=> Attached(r)
      BY <1>1, <1>2 DEF Attached
    <2>3. SavesTags(r)' <=> SavesTags(r)
      <3>1. PICK c, all : /\ c = call[r] /\ c = call'[r] /\ all = c.names \cup NamesOf(r, c.b)
                          /\ all = c.names \cup NamesOf(r, c.b)'
        BY <1>1, <1>2 DEF NamesOf
      <3>2. OldNames(c.b)' = OldNames(c.b)
        BY <1>1 DEF OldNames
      <3>3. (Asked(c, c.names)' <=> Asked(c, c.names)) /\ (Asked(c, all)' <=> Asked(c, all))
        BY <3>2 DEF Asked
      <3> QED BY <1>1, <1>2, <2>2, <3>1, <3>3 DEF SavesTags
    <2>4. SavesJobs(r)' <=> SavesJobs(r)
      BY <1>1 DEF SavesJobs
    <2> QED BY <2>1, <2>3, <2>4 DEF Saves
  <1>4. (Deletes(r)' <=> Deletes(r)) /\ (DropsTag(r)' <=> DropsTag(r))
    BY <1>1, <1>2 DEF Deletes, DropsTag
  <1>5. Merges(r)' <=> Merges(r)
    BY <1>1, <1>2 DEF Merges, Moved
  <1>6. TagsMany(r)' <=> TagsMany(r)
    BY <1>1, <1>2 DEF TagsMany
  <1> QED BY <1>1, <1>3, <1>4, <1>5, <1>6 DEF Going

\* A step that commits nothing has only its own request to see to.
LEMMA WholeKeeps ==
  ASSUME WholeInv, NEW r \in Request, Moves(r), InTx(r)' => Going(r)'
  PROVE  WholeInv'
  <1> SUFFICES ASSUME NEW q \in Request, InTx(q)' PROVE Going(q)'
    BY DEF WholeInv
  <1>1. CASE q = r
    BY <1>1
  <1>2. CASE q # r
    <2>1. call'[q] = call[q] /\ patch'[q] = patch[q] /\ UNCHANGED db
      BY <1>2 DEF Moves
    <2>2. Going(q)
      BY <2>1 DEF InTx, WholeInv
    <2> QED BY <2>1, <2>2, GoesOn
  <1> QED BY <1>1, <1>2

\* A request that has written nothing sees the tables that are committed.
LEMMA SeesTables ==
  ASSUME BaseInv, NEW r \in Request, patch[r] = Patch
  PROVE  /\ Rows(r) = bookmark /\ Tags(r) = tag /\ Links(r) = link /\ patch[r].job = {}
         /\ Found(r) = Whole!Present /\ \A url : Same(r, url) = Whole!Same(url)
  <1>1. Rows(r) = bookmark /\ Tags(r) = tag /\ Links(r) = link /\ patch[r].job = {}
    BY SeenClean DEF Patch
  <1> QED BY <1>1 DEF Found, Same, Whole!Present, Whole!Same

\* existingURLLookup chooses the oldest bookmark of the URL.
LEMMA LookupGoes ==
  ASSUME BaseInv, NEW r \in Request, Lookup(r)
  PROVE  Going(r)'
  <1>1. PICK url \in URL, names \in SUBSET Name :
          LET same == Same(r, url)
              b == IF same = {} THEN 0 ELSE Least(same)
          IN Goto(r, [Idle EXCEPT !.kind = "create", !.at = "save", !.b = b, !.names = names,
                                  !.url = IF b = 0 THEN url ELSE Rows(r)[b].url])
    BY DEF Lookup, Plain
  <1>2. PICK b, u : /\ b = IF Same(r, url) = {} THEN 0 ELSE Least(Same(r, url))
                    /\ u = IF b = 0 THEN url ELSE Rows(r)[b].url
    OBVIOUS
  <1>11. Goto(r, [Idle EXCEPT !.kind = "create", !.at = "save", !.b = b, !.names = names,
                              !.url = u])
    BY <1>1, <1>2, Zenon
  <1>3. Moves(r) /\ patch' = patch /\ patch[r] = Patch /\ serial' = serial
    BY LookupStep
  <1>4. /\ Rows(r) = bookmark /\ Tags(r) = tag /\ Links(r) = link /\ patch[r].job = {}
        /\ Same(r, url) = Whole!Same(url)
    BY <1>3, SeesTables
  <1>5. /\ UNCHANGED db /\ Rows(r)' = bookmark' /\ Tags(r)' = tag' /\ Links(r)' = link'
        /\ patch'[r].job = {}
    BY <1>3, <1>4 DEF Moves, db, Rows, Tags, Links
  <1>6. Whole!Same(url) \subseteq Nat \ {0}
    BY BookmarksAssumption DEF BookmarksAssumption, Whole!Same, Whole!Present
  <1>7. \/ b = 0 /\ Whole!Same(url) = {}
        \/ b # 0 /\ Oldest(b, url)
    BY <1>2, <1>4, <1>6, LeastIn DEF Oldest
  <1>8. PICK c : /\ c = call'[r] /\ c.kind = "create" /\ c.at = "save" /\ c.b = b
                 /\ c.url = (IF b = 0 THEN url ELSE bookmark[b].url)
                 /\ c.row = None /\ c.given = {} /\ c.names = names
    <2>1. PICK c : c = [Idle EXCEPT !.kind = "create", !.at = "save", !.b = b, !.names = names,
                                    !.url = u]
      OBVIOUS
    <2>2. call'[r] = c
      <3>1. Goto(r, c)
        BY <1>11, <2>1, Zenon
      <3> QED BY <3>1, Went
    <2>3. /\ c.kind = "create" /\ c.at = "save" /\ c.b = b /\ c.url = u
          /\ c.row = None /\ c.given = {} /\ c.names = names
      BY <2>1 DEF Idle
    <2>4. u = IF b = 0 THEN url ELSE bookmark[b].url
      BY <1>2, <1>4
    <2> QED BY <2>2, <2>3, <2>4
  <1>9. Chosen(c)
    <2>1. CASE b = 0
      BY <1>7, <1>8, <2>1 DEF Chosen
    <2>2. CASE b # 0
      <3>1. Oldest(b, url) /\ c.url = bookmark[b].url
        BY <1>7, <1>8, <2>2
      <3>2. Norm[c.url] = Norm[url]
        BY <3>1 DEF Oldest, Whole!Same
      <3>3. Whole!Same(c.url) = Whole!Same(url)
        BY <3>2 DEF Whole!Same
      <3> QED BY <1>8, <2>2, <3>1, <3>3 DEF Chosen, Oldest
    <2> QED BY <2>1, <2>2
  <1>10. Chosen(c)'
    <2>1. c' = c
      BY <1>8
    <2> QED BY <1>5, <1>9 DEF Chosen, Oldest, Whole!Same, Whole!Present, db
  <1>12. SavesRow(r)'
    BY <1>5, <1>8, <1>10 DEF SavesRow
  <1>13. SavesTags(r)' /\ SavesJobs(r)'
    BY <1>5, <1>8 DEF SavesTags, SavesJobs
  <1> QED BY <1>8, <1>12, <1>13 DEF Going, Saves, Savers

\* What a request sees when it has written one row.
LEMMA SeesRow ==
  ASSUME BaseInv, NEW r \in Request, Moves(r), patch[r] = Patch, NEW b \in Bookmark, NEW row,
         patch'[r] = WithRow(patch[r], b, row)
  PROVE  /\ Rows(r)' = [bookmark EXCEPT ![b] = row]
         /\ Tags(r)' = tag /\ Links(r)' = link /\ patch'[r].job = {}
  <1>1. /\ Rows(r) = bookmark /\ Tags(r) = tag /\ Links(r) = link /\ patch[r].job = {}
        /\ UNCHANGED db /\ patch[r] \in Change
    BY SeesTables, SeenType DEF Moves
  <1>2. /\ patch'[r].bookmark = Put(patch[r].bookmark, b, row)
        /\ patch'[r].tag = patch[r].tag /\ patch'[r].add = patch[r].add
        /\ patch'[r].del = patch[r].del /\ patch'[r].job = patch[r].job
    BY <1>1 DEF WithRow, Change
  <1>3. Rows(r)' = Over(Put(patch[r].bookmark, b, row), bookmark)
    BY <1>1, <1>2 DEF Rows, db
  <1>4. Rows(r)' = [bookmark EXCEPT ![b] = row]
    <2>1. Rows(r)'[b] = row /\ \A x \in Bookmark \ {b} : Rows(r)'[x] = bookmark[x]
      BY <1>1, <1>3, RowSeen
    <2>2. bookmark \in [Bookmark -> Row \cup {None}] /\ Rows(r)' = [x \in Bookmark |-> Rows(r)'[x]]
      BY DEF BaseInv, Types, Rows, Over, Moves, db
    <2> QED BY <2>1, <2>2
  <1> QED BY <1>1, <1>2, <1>4 DEF Tags, Links, db

\* A new row is of a URL that has none.
LEMMA InsertRowGoes ==
  ASSUME BaseInv, NEW r \in Request, Going(r), InsertRow(r)
  PROVE  Going(r)'
  <1>1. PICK b, row : b = serial.bookmark
                      /\ row = [url |-> call[r].url, title |-> "given", archived |-> FALSE]
    OBVIOUS
  <1>2. /\ Moves(r) /\ b \in Bookmark /\ call[r].at = "save" /\ call[r].kind = "create"
        /\ call[r].b = 0 /\ patch[r] = Patch /\ call[r] \in Call /\ UNCHANGED db
        /\ call[r].url \in URL
    BY <1>1, InsertRowStep, SeenType DEF Moves
  <1>3. /\ Writes(r, WithRow(patch[r], b, row))
        /\ Goto(r, [call[r] EXCEPT !.at = "clear", !.b = b, !.given = {"new"},
                                   !.names = Parsed(@ \cup AutoTags[call[r].url])])
    BY <1>1 DEF InsertRow, WithRow
  <1>4. patch'[r] = WithRow(patch[r], b, row)
    BY <1>3, Wrote
  <1>5. PICK c : /\ c = call'[r] /\ c.kind = "create" /\ c.at = "clear" /\ c.b = b
                 /\ c.given = {"new"} /\ c.url = call[r].url /\ c.row = call[r].row
                 /\ c.names = Parsed(call[r].names \cup AutoTags[call[r].url])
    <2>1. PICK c : c = [call[r] EXCEPT !.at = "clear", !.b = b, !.given = {"new"},
                                       !.names = Parsed(@ \cup AutoTags[call[r].url])]
      OBVIOUS
    <2>2. call'[r] = c
      BY <1>3, <2>1, Went
    <2>3. /\ c.kind = call[r].kind /\ c.at = "clear" /\ c.b = b /\ c.given = {"new"}
          /\ c.url = call[r].url /\ c.row = call[r].row
          /\ c.names = Parsed(call[r].names \cup AutoTags[call[r].url])
      BY <1>2, <2>1 DEF Call
    <2> QED BY <1>2, <2>2, <2>3
  <1>6. /\ Rows(r)' = [bookmark EXCEPT ![b] = row]
        /\ Tags(r)' = tag /\ Links(r)' = link /\ patch'[r].job = {}
    BY <1>2, <1>4, SeesRow
  <1>7. call[r].row = None /\ Whole!Same(call[r].url) = {}
    BY <1>2 DEF Going, Saves, SavesRow, Chosen, Savers
  <1>8. bookmark[b] = None
    <2>1. b \in Nat
      BY <1>2, BookmarksAssumption DEF BookmarksAssumption
    <2> QED BY <1>1, <1>2, <2>1 DEF BaseInv, Fresh
  <1>9. bookmark' = bookmark /\ tag' = tag /\ link' = link /\ Whole!Same(c.url)' = {}
    BY <1>2, <1>5, <1>7 DEF db, Whole!Same, Whole!Present
  <1>10. CreatedRow(r)'
    <2>1. Rows(r)'[b] = row
      BY <1>2, <1>6 DEF BaseInv, Types
    <2> QED BY <1>1, <1>5, <1>8, <1>9, <2>1 DEF CreatedRow
  <1>11. SavesRow(r)'
    BY <1>5, <1>6, <1>7, <1>9, <1>10 DEF SavesRow
  <1>12. SavesTags(r)' /\ SavesJobs(r)'
    <2>1. call[r].names \in SUBSET Name
      BY <1>2 DEF Call
    <2>2. Asked(c, c.names)'
      BY <1>5, <2>1 DEF Asked
    <2> QED BY <1>5, <1>6, <1>9, <2>2 DEF SavesTags, SavesJobs
  <1> QED BY <1>5, <1>11, <1>12 DEF Going, Saves, Savers

\* The oldest bookmark of the URL gets what the request gives.
LEMMA MergeIntoRowGoes ==
  ASSUME BaseInv, NEW r \in Request, Going(r), MergeIntoRow(r)
  PROVE  Going(r)'
  <1>1. PICK b, row : b = call[r].b /\ row = [Rows(r)[b] EXCEPT !.title = "given"]
    OBVIOUS
  <1>2. /\ Moves(r) /\ b \in Bookmark /\ call[r].at = "save" /\ call[r].kind = "create"
        /\ patch[r] = Patch /\ call[r] \in Call /\ UNCHANGED db /\ call[r].b # 0
    BY <1>1, MergeRowStep, SeenType DEF Moves, MergeIntoRow
  <1>3. /\ call[r].row = None /\ call[r].given = {}
        /\ Oldest(b, call[r].url) /\ call[r].url = bookmark[b].url
    BY <1>1, <1>2 DEF Going, Saves, SavesRow, Chosen, Savers
  <1>4. Rows(r) = bookmark /\ b \in Found(r)
    BY <1>2, <1>3, SeesTables DEF Oldest, Whole!Same
  <1>5. /\ Writes(r, WithRow(patch[r], b, row))
        /\ Goto(r, [call[r] EXCEPT !.at = "clear", !.names = Parsed(@ \cup AutoTags[call[r].url])])
    BY <1>1, <1>2, <1>4 DEF MergeIntoRow, WithRow
  <1>6. patch'[r] = WithRow(patch[r], b, row)
    BY <1>5, Wrote
  <1>7. PICK c : /\ c = call'[r] /\ c.kind = "create" /\ c.at = "clear" /\ c.b = b
                 /\ c.given = {} /\ c.url = call[r].url /\ c.row = None
                 /\ c.names = Parsed(call[r].names \cup AutoTags[call[r].url])
    <2>1. PICK c : c = [call[r] EXCEPT !.at = "clear", !.names = Parsed(@ \cup AutoTags[call[r].url])]
      OBVIOUS
    <2>2. call'[r] = c
      BY <1>5, <2>1, Went
    <2>3. /\ c.kind = call[r].kind /\ c.at = "clear" /\ c.b = call[r].b
          /\ c.given = call[r].given /\ c.url = call[r].url /\ c.row = call[r].row
          /\ c.names = Parsed(call[r].names \cup AutoTags[call[r].url])
      BY <1>2, <2>1 DEF Call
    <2> QED BY <1>1, <1>2, <1>3, <2>2, <2>3
  <1>8. /\ Rows(r)' = [bookmark EXCEPT ![b] = row]
        /\ Tags(r)' = tag /\ Links(r)' = link /\ patch'[r].job = {}
    BY <1>2, <1>6, SeesRow
  <1>9. bookmark' = bookmark /\ tag' = tag /\ link' = link
    BY <1>2 DEF db
  <1>10. CreatedRow(r)'
    <2>1. Rows(r)'[b] = [bookmark[b] EXCEPT !.title = "given"]
      BY <1>1, <1>2, <1>4, <1>8 DEF BaseInv, Types
    <2>2. Oldest(c.b, c.url)'
      BY <1>3, <1>7, <1>9 DEF Oldest, Whole!Same, Whole!Present
    <2> QED BY <1>3, <1>7, <1>9, <2>1, <2>2 DEF CreatedRow
  <1>11. SavesRow(r)'
    BY <1>7, <1>8, <1>9, <1>10 DEF SavesRow
  <1>12. SavesTags(r)' /\ SavesJobs(r)'
    <2>1. call[r].names \in SUBSET Name
      BY <1>2 DEF Call
    <2>2. Asked(c, c.names)'
      BY <1>7, <2>1 DEF Asked
    <2> QED BY <1>7, <1>8, <1>9, <2>2 DEF SavesTags, SavesJobs
  <1> QED BY <1>7, <1>11, <1>12 DEF Going, Saves, Savers

\* A row that is written stays as it is.
LEMMA RowStays ==
  ASSUME NEW r \in Request, SavesRow(r), UNCHANGED db, Stays(call[r], call'[r]),
         patch'[r].bookmark = patch[r].bookmark,
         call[r].at \notin {"save", "edit"}, call'[r].at \notin {"save", "edit"}
  PROVE  SavesRow(r)'
  <1>1. Rows(r)' = Rows(r) /\ bookmark' = bookmark
    BY DEF Rows, db
  <1>2. PICK c, d : /\ c = call[r] /\ d = call'[r] /\ Stays(c, d)
                    /\ c.at \notin {"save", "edit"} /\ d.at \notin {"save", "edit"}
    OBVIOUS
  <1>3. c.kind = "create" => CreatedRow(r)'
    BY <1>1, <1>2 DEF SavesRow, CreatedRow, Oldest, Whole!Same, Whole!Present, Stays
  <1>4. c.kind \in {"form", "rest"} => EditedRow(r)'
    BY <1>1, <1>2 DEF SavesRow, EditedRow, Whole!Same, Whole!Present, Stays
  <1> QED BY <1>1, <1>2, <1>3, <1>4 DEF SavesRow, Stays

\* An edit starts from the row that is committed.
LEMMA ReadRowGoes ==
  ASSUME BaseInv, NEW r \in Request, ReadRow(r)
  PROVE  Going(r)'
  <1>1. /\ Moves(r) /\ patch[r] = Patch /\ UNCHANGED db
        /\ patch'[r].bookmark = patch[r].bookmark
        /\ patch'[r].tag = patch[r].tag /\ patch'[r].job = patch[r].job
        /\ patch'[r].add = patch[r].add /\ patch'[r].del = patch[r].del
    BY ReadRowStep DEF Moves
  <1>2. /\ Rows(r) = bookmark /\ Tags(r) = tag /\ Links(r) = link /\ patch[r].job = {}
        /\ Found(r) = Whole!Present
    BY <1>1, SeesTables
  <1>3. PICK c : /\ c = call'[r] /\ c.kind \in {"form", "rest"} /\ c.at = "edit"
                 /\ c.b \in Found(r) /\ c.given \in Edits(c.kind) /\ c.row = Rows(r)[c.b]
                 /\ "url" \notin c.given => c.url = Rows(r)[c.b].url
    BY ReadRowStep
  <1>4. /\ bookmark' = bookmark /\ tag' = tag /\ link' = link
        /\ Rows(r)' = bookmark /\ Tags(r)' = tag /\ Links(r)' = link /\ patch'[r].job = {}
    BY <1>1, <1>2 DEF db, Rows, Tags, Links
  <1>5. c.kind = "form" => c.given = {"url", "title", "names"}
    BY <1>3 DEF Edits
  <1>6. SavesRow(r)'
    BY <1>2, <1>3, <1>4, <1>5 DEF SavesRow, Whole!Present
  <1>7. SavesTags(r)' /\ SavesJobs(r)'
    BY <1>3, <1>4 DEF SavesTags, SavesJobs
  <1> QED BY <1>3, <1>6, <1>7 DEF Going, Saves, Savers

\* The URL of an edit is no other bookmark's, and what is not given stays.
LEMMA WriteRowGoes ==
  ASSUME BaseInv, NEW r \in Request, Going(r), WriteRow(r)
  PROVE  Going(r)'
  <1>1. /\ Moves(r) /\ UNCHANGED db /\ call[r].at = "edit" /\ call[r].kind \in {"form", "rest"}
        /\ call'[r].at = "tags" /\ Stays(call[r], call'[r])
        /\ ~("url" \in call[r].given /\ Duplicate(r)) /\ call[r].b \in Bookmark
        /\ patch'[r].tag = patch[r].tag /\ patch'[r].job = patch[r].job
        /\ patch'[r].add = patch[r].add /\ patch'[r].del = patch[r].del
    BY WriteRowStep DEF Moves
  <1>2. Saves(r)
    BY <1>1 DEF Going, Savers
  <1>3. PICK b, c : b = call[r].b /\ c = call'[r]
    OBVIOUS
  <1>4. /\ c.kind \in {"form", "rest"} /\ c.at = "tags" /\ c.b = b /\ c.row = bookmark[b]
        /\ c.given = call[r].given /\ c.url = call[r].url /\ c.kind = call[r].kind
        /\ bookmark[b] # None
        /\ c.kind = "form" => c.given = {"url", "title", "names"}
        /\ "url" \notin c.given => c.url = bookmark[b].url
    BY <1>1, <1>2, <1>3 DEF Saves, SavesRow, Stays
  <1>5. Rows(r) = bookmark
    <2>1. \A x \in Bookmark : Rows(r)[x] = bookmark[x]
      BY <1>1, <1>2, <1>3 DEF Saves, SavesRow
    <2>2. Rows(r) \in [Bookmark -> Row \cup {None}] /\ bookmark \in [Bookmark -> Row \cup {None}]
      BY SeenType DEF BaseInv, Types
    <2> QED BY <2>1, <2>2
  <1>6. PICK archived, row :
          /\ archived \in BOOLEAN
          /\ "archived" \notin c.given => archived = bookmark[b].archived
          /\ row = [url |-> c.url, archived |-> archived,
                    title |-> IF "title" \in c.given THEN "given" ELSE bookmark[b].title]
          /\ Writes(r, [patch[r] EXCEPT !.bookmark = Put(@, b, row)])
    <2>1. PICK archived \in BOOLEAN :
            /\ "archived" \notin call[r].given => archived = call[r].row.archived
            /\ Writes(r, [patch[r] EXCEPT !.bookmark =
                 Put(@, call[r].b, [url |-> call[r].url, archived |-> archived,
                                    title |-> IF "title" \in call[r].given THEN "given"
                                                                           ELSE call[r].row.title])])
      BY DEF WriteRow
    <2>2. call[r].row = bookmark[b]
      BY <1>1, <1>2, <1>3 DEF Saves, SavesRow
    <2>3. PICK row : row = [url |-> c.url, archived |-> archived,
                            title |-> IF "title" \in c.given THEN "given" ELSE bookmark[b].title]
      OBVIOUS
    <2>4. Writes(r, [patch[r] EXCEPT !.bookmark = Put(@, b, row)])
      BY <1>3, <1>4, <2>1, <2>2, <2>3
    <2>5. "archived" \notin c.given => archived = bookmark[b].archived
      BY <1>4, <2>1, <2>2
    <2> QED BY <2>1, <2>3, <2>4, <2>5
  <1>7. patch'[r].bookmark = Put(patch[r].bookmark, b, row)
    BY <1>6, Wrote, SeenType DEF Change
  <1>8. Rows(r)'[b] = row /\ \A x \in Bookmark \ {b} : Rows(r)'[x] = bookmark[x]
    <2>1. Rows(r)' = Over(Put(patch[r].bookmark, b, row), bookmark)
      BY <1>1, <1>7 DEF Rows, db
    <2>2. b \in Bookmark
      BY <1>1, <1>3
    <2>3. PICK seen : seen = Over(Put(patch[r].bookmark, b, row), bookmark)
      OBVIOUS
    <2>4. seen[b] = row /\ \A x \in Bookmark \ {b} : seen[x] = Rows(r)[x]
      BY <2>2, <2>3, RowSeen
    <2> QED BY <1>5, <2>1, <2>3, <2>4
  <1>9. bookmark' = bookmark /\ tag' = tag /\ link' = link
    BY <1>1 DEF db
  <1>10. EditedRow(r)'
    <2>1. c.kind = "form" => Whole!Same(c.url)' \subseteq {b}
      <3>1. SUFFICES ASSUME c.kind = "form", NEW x \in Whole!Same(c.url) PROVE x = b
        BY <1>9 DEF Whole!Same, Whole!Present
      <3>2. x \in Bookmark /\ bookmark[x] # None /\ Norm[bookmark[x].url] = Norm[c.url]
        BY <3>1 DEF Whole!Same, Whole!Present
      <3>3. "url" \in call[r].given /\ call[r].kind = "form" /\ call[r].url = c.url
        BY <1>4, <3>1
      <3> QED BY <1>1, <1>3, <1>5, <3>2, <3>3 DEF Duplicate, Found
    <2>2. c.kind = "rest" /\ "url" \in c.given => \A x \in Whole!Present \ {b} : bookmark[x].url # c.url
      BY <1>1, <1>3, <1>4, <1>5 DEF Duplicate, Found, Whole!Present
    <2>3. c.kind = "rest" /\ "url" \in c.given =>
            \A x \in Whole!Present' \ {b} : bookmark'[x].url # c.url
      BY <1>9, <2>2 DEF Whole!Present
    <2> QED BY <1>3, <1>4, <1>6, <1>8, <1>9, <2>1, <2>3 DEF EditedRow
  <1>11. SavesRow(r)'
    BY <1>3, <1>4, <1>8, <1>9, <1>10 DEF SavesRow
  <1>12. Tags(r)' = Tags(r) /\ Links(r)' = Links(r)
    BY <1>1, <1>9 DEF Tags, Links
  <1>13. SavesTags(r)' /\ SavesJobs(r)'
    BY <1>1, <1>2, <1>3, <1>4, <1>9, <1>12 DEF Saves, SavesTags, SavesJobs
  <1> QED BY <1>3, <1>4, <1>11, <1>13 DEF Going, Saves, Savers

\* An edit attaches the names it was given, or those the bookmark has, and those
\* of the rules.
LEMMA KeepTagsGoes ==
  ASSUME BaseInv, NEW r \in Request, Going(r), KeepTags(r)
  PROVE  Going(r)'
  <1>1. /\ Moves(r) /\ UNCHANGED db /\ patch' = patch /\ call[r].at = "tags"
        /\ call'[r].at = "clear" /\ Stays(call[r], call'[r]) /\ call[r].kind \in {"form", "rest"}
    BY KeepTagsStep, KindOf DEF Moves
  <1>2. Saves(r)
    BY <1>1 DEF Going, Savers
  <1>3. PICK c, d : c = call[r] /\ d = call'[r]
    OBVIOUS
  <1>4. Tags(r) = tag /\ Links(r) = link /\ patch[r].job = {} /\ tag' = tag /\ link' = link
    BY <1>1, <1>2 DEF Saves, SavesTags, SavesJobs, db
  <1>5. PICK kept \in SUBSET Name :
          /\ d.names = Parsed(kept \cup AutoTags[c.url])
          /\ kept = IF "names" \in c.given THEN c.names ELSE NamesOf(r, c.b)
    <2>1. PICK kept : /\ kept = IF "names" \in c.given THEN c.names ELSE NamesOf(r, c.b)
                      /\ Goto(r, [c EXCEPT !.at = "clear", !.names = Parsed(kept \cup AutoTags[c.url])])
      BY <1>3 DEF KeepTags
    <2>2. d = [c EXCEPT !.at = "clear", !.names = Parsed(kept \cup AutoTags[c.url])]
      BY <1>3, <2>1, Went
    <2>3. c \in Call
      BY <1>3, SeenType
    <2>4. kept \in SUBSET Name
      BY <1>3, <2>1, <2>3, KeepTagsStep DEF Call
    <2> QED BY <2>1, <2>2, <2>3, <2>4 DEF Call
  <1>6. NamesOf(r, c.b) = OldNames(c.b)
    BY <1>4 DEF NamesOf, OldNames
  <1>7. Asked(d, d.names)'
    <2>1. OldNames(d.b)' = OldNames(c.b) /\ d.url = c.url /\ d.given = c.given
      BY <1>1, <1>3, <1>4 DEF OldNames, Stays
    <2>2. "names" \notin d.given => kept = OldNames(d.b)'
      BY <1>5, <1>6, <2>1
    <2> QED BY <1>5, <2>1, <2>2 DEF Asked
  <1>8. SavesRow(r)'
    BY <1>1, <1>2, RowStays DEF Saves
  <1>9. Tags(r)' = tag' /\ Links(r)' = link' /\ patch'[r].job = {}
    BY <1>1, <1>4 DEF Tags, Links
  <1>10. SavesTags(r)' /\ SavesJobs(r)'
    BY <1>1, <1>3, <1>7, <1>9 DEF SavesTags, SavesJobs
  <1> QED BY <1>1, <1>8, <1>10 DEF Going, Saves, Savers, Stays

\* What a merge has moved, it has moved for the tags that are not gone yet.
LEMMA NotMoved ==
  ASSUME NEW S, NEW target, NEW t, t \notin S, t # target, link \subseteq Link
  PROVE  /\ {l \in Moved(S, target) : l[2] = t} = {l \in link : l[2] = t}
         /\ \A x : <<x, t>> \in Moved(S, target) <=> <<x, t>> \in link
  BY DEF Moved

\* The DELETE of replaceTags, of a deletion or of a merge starts.
LEMMA StartClearGoes ==
  ASSUME BaseInv, NEW r \in Request, Going(r), StartClear(r)
  PROVE  Going(r)'
  <1>1. /\ Moves(r) /\ UNCHANGED db /\ patch' = patch /\ call[r].at = "clear"
        /\ call'[r].at = "clearing" /\ Stays(call[r], call'[r]) /\ call'[r].t = call[r].t
        /\ call'[r].names = call[r].names /\ call'[r].ids = call[r].ids
        /\ call'[r].seen = Doomed(r) /\ link \subseteq Link
    BY StartClearStep DEF Moves, BaseInv, Types
  <1>2. /\ bookmark' = bookmark /\ tag' = tag /\ link' = link
        /\ Rows(r)' = Rows(r) /\ Tags(r)' = Tags(r) /\ Links(r)' = Links(r)
    BY <1>1 DEF db, Rows, Tags, Links
  <1>3. PICK c, d : c = call[r] /\ d = call'[r]
    OBVIOUS
  <1>4. CASE c.kind \in Savers
    <2>1. Saves(r)
      BY <1>3, <1>4 DEF Going
    <2>2. SavesRow(r)'
      BY <1>1, <2>1, RowStays DEF Saves
    <2>3. d.seen = {l \in link : l[1] = d.b}
      BY <1>1, <1>3, <1>4, <2>1 DEF Saves, SavesTags, Doomed, Savers, Stays
    <2>4. Asked(d, d.names)'
      <3>1. Asked(c, c.names) /\ Stays(c, d) /\ d.names = c.names
        BY <1>1, <1>3, <2>1 DEF Saves, SavesTags
      <3> QED BY <1>2, <3>1, AskedStill
    <2>5. SavesTags(r)' /\ SavesJobs(r)'
      BY <1>1, <1>2, <1>3, <2>1, <2>3, <2>4 DEF Saves, SavesTags, SavesJobs
    <2> QED BY <1>1, <1>3, <1>4, <2>2, <2>5 DEF Going, Saves, Savers, Stays
  <1>5. CASE c.kind = "delete"
    BY <1>1, <1>2, <1>3, <1>5 DEF Going, Deletes, Doomed, Savers, Stays
  <1>6. CASE c.kind = "droptag"
    BY <1>1, <1>2, <1>3, <1>6 DEF Going, DropsTag, Doomed, Savers, Stays
  <1>7. CASE c.kind = "merge"
    <2>1. Merges(r)
      BY <1>3, <1>7 DEF Going
    <2>2. PICK S : S = DOMAIN patch[r].tag
      OBVIOUS
    <2>3. /\ c.t \in c.ids /\ c.t \notin S /\ c.t # c.b
          /\ Links(r) = Moved(S, c.b) \cup {<<b, c.b>> : b \in {x \in Bookmark : <<x, c.t>> \in link}}
      BY <1>1, <1>3, <2>1, <2>2, SMTT(30) DEF Merges
    <2>4. d.seen = {l \in Links(r) : l[2] = c.t}
      BY <1>1, <1>3, <1>7 DEF Doomed
    <2>5. d.seen = {l \in link : l[2] = c.t}
      <3>1. {l \in Moved(S, c.b) : l[2] = c.t} = {l \in link : l[2] = c.t}
        BY <1>1, <2>3, NotMoved
      <3>2. \A l \in {<<b, c.b>> : b \in {x \in Bookmark : <<x, c.t>> \in link}} : l[2] = c.b
        <4> SUFFICES ASSUME NEW b \in {x \in Bookmark : <<x, c.t>> \in link}
                     PROVE  <<b, c.b>>[2] = c.b
          BY Zenon
        <4> QED OBVIOUS
      <3> QED BY <2>3, <2>4, <3>1, <3>2
    <2>6. Merges(r)'
      <3>1. /\ Rows(r) = bookmark /\ patch[r].job = {}
            /\ S \subseteq Tag /\ c.b \notin S /\ c.b \notin c.ids /\ c.ids \cap S = {}
            /\ Tags(r) = [t \in Tag |-> IF t \in S THEN NoTag ELSE tag[t]]
        BY <1>3, <2>1, <2>2 DEF Merges
      <3>2. DOMAIN patch'[r].tag = S /\ patch'[r].job = patch[r].job
        BY <1>1, <2>2
      <3>3. /\ d.at = "clearing" /\ d.b = c.b /\ d.t = c.t /\ d.ids = c.ids
        BY <1>1, <1>3 DEF Stays
      <3> QED BY <1>2, <1>3, <2>3, <2>5, <3>1, <3>2, <3>3 DEF Merges, Moved
    <2> QED BY <1>1, <1>3, <1>7, <2>6 DEF Going, Savers, Stays
  <1>8. c.kind \in Savers \cup {"delete", "droptag", "merge"}
    BY <1>1, <1>3, KindOf
  <1> QED BY <1>4, <1>5, <1>6, <1>7, <1>8

\* It takes them.
LEMMA ClearGoes ==
  ASSUME BaseInv, NEW r \in Request, Going(r), Clear(r)
  PROVE  Going(r)'
  <1>1. PICK c, d : c = call[r] /\ d = call'[r]
    OBVIOUS
  <1>2. /\ Moves(r) /\ UNCHANGED db /\ c.at = "clearing" /\ Stays(c, d) /\ d.t = c.t
        /\ d.names = c.names /\ d.ids = c.ids
        /\ d.at = IF c.kind \in Savers THEN "attach" ELSE "drop"
        /\ patch'[r].bookmark = patch[r].bookmark /\ patch'[r].tag = patch[r].tag
        /\ patch'[r].job = patch[r].job
        /\ patch'[r].add = patch[r].add \ c.seen
        /\ patch'[r].del = patch[r].del \cup (c.seen \cap link)
    BY <1>1, ClearStep DEF Moves
  <1>3. /\ bookmark' = bookmark /\ tag' = tag /\ link' = link
        /\ Rows(r)' = Rows(r) /\ Tags(r)' = Tags(r) /\ Links(r)' = Links(r) \ c.seen
    BY <1>2 DEF db, Rows, Tags, Links
  <1>4. CASE c.kind \in Savers
    <2>1. Saves(r) /\ d.at = "attach"
      BY <1>1, <1>2, <1>4 DEF Going
    <2>2. SavesRow(r)'
      BY <1>1, <1>2, <2>1, RowStays DEF Saves
    <2>3. /\ Tags(r) = tag /\ Links(r) = link /\ c.seen = {l \in link : l[1] = c.b}
          /\ Asked(c, c.names)
      BY <1>1, <1>2, <2>1 DEF Saves, SavesTags
    <2>4. Attached(r)' /\ NamesOf(r, c.b)' = {}
      <3>1. /\ Tags(r)' = tag /\ Links(r)' = {l \in link : l[1] # c.b} /\ d.b = c.b
        BY <1>2, <1>3, <2>3 DEF Stays
      <3> QED BY <1>1, <1>3, <3>1 DEF Attached, NamesOf
    <2>5. Asked(d, d.names \cup NamesOf(r, d.b))'
      <3>1. Asked(d, d.names)'
        BY <1>2, <1>3, <2>3, AskedStill
      <3>2. d.names \cup NamesOf(r, d.b)' = d.names
        BY <1>2, <2>4 DEF Stays
      <3> QED BY <3>1, <3>2
    <2>6. SavesTags(r)' /\ SavesJobs(r)'
      BY <1>1, <1>2, <2>1, <2>4, <2>5 DEF Saves, SavesTags, SavesJobs
    <2> QED BY <1>1, <1>2, <1>4, <2>2, <2>6 DEF Going, Saves, Savers, Stays
  <1>5. CASE c.kind = "delete"
    BY <1>1, <1>2, <1>3, <1>5 DEF Going, Deletes, Savers, Stays
  <1>6. CASE c.kind = "droptag"
    BY <1>1, <1>2, <1>3, <1>6 DEF Going, DropsTag, Savers, Stays
  <1>7. CASE c.kind = "merge"
    <2>1. Merges(r) /\ d.at = "drop"
      BY <1>1, <1>2, <1>7 DEF Going, Savers
    <2>2. PICK S, new : /\ S = DOMAIN patch[r].tag
                        /\ new = {<<b, c.b>> : b \in {x \in Bookmark : <<x, c.t>> \in link}}
      OBVIOUS
    <2>3. /\ Rows(r) = bookmark /\ patch[r].job = {}
          /\ S \subseteq Tag /\ c.b \notin S /\ c.b \notin c.ids /\ c.ids \cap S = {}
          /\ Tags(r) = [t \in Tag |-> IF t \in S THEN NoTag ELSE tag[t]]
          /\ c.t \in c.ids /\ c.t # c.b /\ c.seen = {l \in link : l[2] = c.t}
          /\ Links(r) = Moved(S, c.b) \cup new
      BY <1>1, <1>2, <2>1, <2>2 DEF Merges
    <2>4. Links(r)' = Moved(S \cup {c.t}, c.b)
      <3>1. ASSUME NEW l PROVE l \in Links(r)' <=> l \in Moved(S \cup {c.t}, c.b)
        <4>1. CASE \E x \in Bookmark : l = <<x, c.b>>
          <5>1. PICK x \in Bookmark : l = <<x, c.b>>
            BY <4>1
          <5>2. l[2] = c.b /\ l \notin c.seen /\ (l \in new <=> <<x, c.t>> \in link)
            BY <2>2, <2>3, <5>1
          <5>3. l \in Moved(S, c.b) <=> l \in link \/ \E t \in S : <<x, t>> \in link
            BY <2>3, <5>1, <5>2 DEF Moved
          <5>4. l \in Moved(S \cup {c.t}, c.b)
                  <=> l \in link \/ \E t \in S \cup {c.t} : <<x, t>> \in link
            BY <2>3, <5>1, <5>2 DEF Moved
          <5> QED BY <1>3, <2>3, <5>2, <5>3, <5>4
        <4>2. CASE ~\E x \in Bookmark : l = <<x, c.b>>
          <5>1. l \notin new /\ \A T : l \in Moved(T, c.b) <=> (l \in link /\ l[2] \notin T)
            BY <2>2, <4>2 DEF Moved
          <5> QED BY <1>3, <2>3, <5>1
        <4> QED BY <4>1, <4>2
      <3> QED BY <3>1
    <2>5. Merges(r)'
      <3>1. DOMAIN patch'[r].tag = S /\ patch'[r].job = patch[r].job
        BY <1>2, <2>2
      <3>2. /\ d.at = "drop" /\ d.b = c.b /\ d.t = c.t /\ d.ids = c.ids
        BY <1>1, <1>2, <2>1 DEF Stays
      <3>3. Moved(S \cup {c.t}, c.b)' = Moved(S \cup {c.t}, c.b)
        BY <1>3 DEF Moved
      <3> QED BY <1>1, <1>3, <2>3, <2>4, <3>1, <3>2, <3>3 DEF Merges
    <2> QED BY <1>1, <1>2, <1>7, <2>5 DEF Going, Savers, Stays
  <1>8. c.kind \in Savers \cup {"delete", "droptag", "merge"}
    BY <1>1, <1>2, KindOf
  <1> QED BY <1>4, <1>5, <1>6, <1>7, <1>8

\* A round of the loop attaches a tag for one more name.
LEMMA AttachGoes ==
  ASSUME BaseInv, SqliteInv, NEW r \in Request, Going(r), Attach(r)
  PROVE  Going(r)'
  <1>1. PICK n \in call[r].names :
           LET l == <<call[r].b, TagFor(r, n)>> IN
           /\ n \in Name /\ TagFor(r, n) \in Tag /\ CountsTag(r, n)
           /\ Moves(r)
           /\ call[r].at = "attach" /\ call'[r].at = "attach" /\ Stays(call[r], call'[r])
           /\ call'[r].names = call[r].names \ {n}
           /\ l \in Link /\ l \notin Links(r)
           /\ patch'[r].bookmark = patch[r].bookmark
           /\ patch'[r].tag = WithTag(r, n).tag /\ patch'[r].job = patch[r].job
           /\ patch'[r].add = patch[r].add \cup {l} /\ patch'[r].del = patch[r].del
    BY AttachStep
  <1>2. PICK c, d, t : c = call[r] /\ d = call'[r] /\ t = TagFor(r, n)
    OBVIOUS
  <1>3. /\ c.at = "attach" /\ d.at = "attach" /\ Stays(c, d) /\ d.names = c.names \ {n}
        /\ n \in Name /\ t \in Tag /\ n \in c.names /\ c.kind \in Savers
        /\ <<c.b, t>> \in Link /\ <<c.b, t>> \notin Links(r) /\ UNCHANGED db
        /\ patch'[r].job = patch[r].job
    BY <1>1, <1>2, KindOf DEF Moves
  <1>4. /\ bookmark' = bookmark /\ tag' = tag /\ link' = link
        /\ Links(r)' = Links(r) \cup {<<c.b, t>>} /\ Links(r) \subseteq Link
        /\ Tags(r) \in [Tag -> Name \cup {NoTag}] /\ NoTag \notin Name
    BY <1>1, <1>2, <1>3, SeenType, BookmarksAssumption
       DEF db, Links, LinkLocks, BaseInv, BookmarksAssumption, NoTag
  <1>5. /\ Tags(r)'[t] = n
        /\ \A s \in Tag : Tags(r)[s] # NoTag => Tags(r)'[s] = Tags(r)[s]
        /\ \A s \in Tag \ {t} : Tags(r)'[s] = Tags(r)[s]
    <2>1. Mine(r)
      BY <1>2, <1>3 DEF SqliteInv, InTx, Outside
    <2> QED BY <1>1, <1>2, <1>3, <2>1, GetTagOnce
  <1>6. Saves(r)
    BY <1>2, <1>3 DEF Going
  <1>7. Attached(r) /\ Asked(c, c.names \cup NamesOf(r, c.b))
    BY <1>2, <1>3, <1>6 DEF Saves, SavesTags
  <1>8. Attached(r)'
    <2>1. \A s \in Tag : tag[s] # NoTag => Tags(r)'[s] = tag[s]
      BY <1>2, <1>5, <1>7 DEF Attached
    <2>2. \A s \in Tag : tag[s] = NoTag /\ Tags(r)'[s] # NoTag => <<c.b, s>> \in Links(r)'
      BY <1>2, <1>4, <1>5, <1>7 DEF Attached
    <2>3. \A l \in Link : l[1] # c.b => (l \in Links(r)' <=> l \in link)
      BY <1>2, <1>4, <1>7 DEF Attached
    <2>4. ASSUME NEW l \in Links(r)', l[1] = c.b
          PROVE  /\ l[2] \in Tag /\ Tags(r)'[l[2]] \in Name /\ Tags(r)'[l[2]] \notin d.names
                 /\ \/ l[2] = t /\ Tags(r)'[l[2]] = n
                    \/ l \in Links(r) /\ Tags(r)'[l[2]] = Tags(r)[l[2]] /\ Tags(r)[l[2]] \notin c.names
      <3>1. CASE l = <<c.b, t>>
        BY <1>3, <1>5, <3>1
      <3>2. CASE l \in Links(r)
        <4>1. l[2] \in Tag /\ Tags(r)[l[2]] \in Name /\ Tags(r)[l[2]] \notin c.names
          BY <1>2, <1>4, <1>7, <2>4, <3>2 DEF Attached, Link
        <4> QED BY <1>3, <1>4, <1>5, <3>2, <4>1
      <3> QED BY <1>4, <2>4, <3>1, <3>2
    <2>5. ASSUME NEW k \in Links(r)', NEW l \in Links(r)', k[1] = c.b, l[1] = c.b,
                 Tags(r)'[k[2]] = Tags(r)'[l[2]]
          PROVE  k[2] = l[2]
      <3>1. CASE k \in Links(r) /\ l \in Links(r) /\ Tags(r)'[k[2]] = Tags(r)[k[2]]
                 /\ Tags(r)'[l[2]] = Tags(r)[l[2]]
        BY <1>2, <1>7, <2>5, <3>1 DEF Attached
      <3> QED BY <1>3, <2>4, <2>5, <3>1
    <2>6. call'[r].b = c.b /\ call'[r].names = d.names
      BY <1>2, <1>3 DEF Stays
    <2> QED BY <1>4, <2>1, <2>2, <2>3, <2>4, <2>5, <2>6 DEF Attached
  <1>9. c.names \cup NamesOf(r, c.b) = d.names \cup NamesOf(r, c.b)'
    <2>1. c' = c
      OBVIOUS
    <2>2. \A l \in Links(r) : l[1] = c.b => l[2] \in Tag /\ Tags(r)'[l[2]] = Tags(r)[l[2]]
      BY <1>2, <1>4, <1>5, <1>7 DEF Attached, Link
    <2>3. NamesOf(r, c.b)' = {Tags(r)'[l[2]] : l \in {k \in Links(r)' : k[1] = c.b}}
      BY DEF NamesOf
    <2>4. NamesOf(r, c.b)' = NamesOf(r, c.b) \cup {n}
      <3>1. NamesOf(r, c.b) = {Tags(r)'[l[2]] : l \in {k \in Links(r) : k[1] = c.b}}
        BY <2>2 DEF NamesOf
      <3>2. {k \in Links(r)' : k[1] = c.b} = {k \in Links(r) : k[1] = c.b} \cup {<<c.b, t>>}
        BY <1>4
      <3>3. Tags(r)'[<<c.b, t>>[2]] = n
        BY <1>5
      <3> QED BY <2>3, <3>1, <3>2, <3>3
    <2> QED BY <1>3, <2>4
  <1>10. Asked(d, d.names \cup NamesOf(r, d.b))'
    <2>1. PICK all : all = c.names \cup NamesOf(r, c.b)
      OBVIOUS
    <2>2. Asked(d, all)'
      BY <1>3, <1>4, <1>7, <2>1, AskedStill
    <2>3. d.names \cup NamesOf(r, d.b)' = all
      BY <1>3, <1>9, <2>1 DEF Stays
    <2> QED BY <2>2, <2>3
  <1>11. SavesRow(r)'
    BY <1>1, <1>2, <1>3, <1>6, RowStays DEF Saves
  <1>12. SavesTags(r)' /\ SavesJobs(r)'
    BY <1>2, <1>3, <1>6, <1>8, <1>10 DEF Saves, SavesTags, SavesJobs
  <1> QED BY <1>2, <1>3, <1>11, <1>12 DEF Going, Saves, Savers, Stays

\* A request that saves a bookmark queues its jobs.
LEMMA EffectsGoes ==
  ASSUME BaseInv, NEW r \in Request, Going(r), Effects(r)
  PROVE  Going(r)'
  <1>1. PICK c, d : c = call[r] /\ d = call'[r]
    OBVIOUS
  <1>2. /\ Moves(r) /\ UNCHANGED db /\ c.at = "attach" /\ c.names = {} /\ d.at = "commit"
        /\ Stays(c, d) /\ d.names = c.names /\ c.kind \in Savers
        /\ patch'[r].bookmark = patch[r].bookmark /\ patch'[r].tag = patch[r].tag
        /\ patch'[r].add = patch[r].add /\ patch'[r].del = patch[r].del
    BY <1>1, EffectsStep, KindOf DEF Moves
  <1>3. patch'[r].job = {c.b} \X ({"load"} \cup (IF "new" \in c.given THEN JobKind ELSE {})
                         \cup (IF c.row # None /\ c.row.url # c.url THEN {"archive"} ELSE {}))
    <2>1. PICK kinds :
            /\ kinds = {"load"} \cup (IF "new" \in c.given THEN JobKind ELSE {})
                         \cup (IF c.row # None /\ c.row.url # c.url THEN {"archive"} ELSE {})
            /\ Writes(r, [patch[r] EXCEPT !.job = {c.b} \X kinds])
      BY <1>1 DEF Effects
    <2>2. patch'[r] = [patch[r] EXCEPT !.job = {c.b} \X kinds]
      BY <2>1, Wrote
    <2>3. patch[r] \in Change
      BY SeenType
    <2> QED BY <2>1, <2>2, <2>3 DEF Change
  <1>4. Saves(r)
    BY <1>1, <1>2 DEF Going
  <1>5. /\ tag' = tag /\ link' = link /\ Tags(r)' = Tags(r) /\ Links(r)' = Links(r)
        /\ Attached(r) /\ Asked(c, c.names \cup NamesOf(r, c.b))
    BY <1>1, <1>2, <1>4 DEF db, Tags, Links, Saves, SavesTags
  <1>6. Attached(r)' /\ NamesOf(r, c.b)' = NamesOf(r, c.b)
    BY <1>1, <1>2, <1>5 DEF Attached, NamesOf, Stays
  <1>7. Asked(d, d.names \cup NamesOf(r, d.b))'
    <2>1. PICK all : all = c.names \cup NamesOf(r, c.b)
      OBVIOUS
    <2>2. Asked(d, all)'
      BY <1>2, <1>5, <2>1, AskedStill
    <2>3. d.names \cup NamesOf(r, d.b)' = all
      BY <1>2, <1>6, <2>1 DEF Stays
    <2> QED BY <2>2, <2>3
  <1>8. SavesRow(r)'
    BY <1>1, <1>2, <1>4, RowStays DEF Saves
  <1>9. SavesTags(r)'
    BY <1>1, <1>2, <1>6, <1>7 DEF SavesTags
  <1>10. SavesJobs(r)'
    BY <1>1, <1>2, <1>3 DEF SavesJobs, Stays
  <1> QED BY <1>1, <1>2, <1>8, <1>9, <1>10 DEF Going, Saves, Savers, Stays

\* Deletions start from what is committed.
LEMMA DeletionsGo ==
  ASSUME BaseInv, NEW r \in Request, DeleteRow(r) \/ DeleteTag(r)
  PROVE  Going(r)'
  <1>1. CASE DeleteRow(r)
    <2>1. /\ Moves(r) /\ UNCHANGED db /\ patch[r] = Patch
          /\ call'[r].kind = "delete" /\ call'[r].at = "clear" /\ call'[r].b \in Found(r)
          /\ patch'[r].bookmark = patch[r].bookmark
          /\ patch'[r].tag = patch[r].tag /\ patch'[r].job = patch[r].job
          /\ patch'[r].add = patch[r].add /\ patch'[r].del = patch[r].del
      BY <1>1, DeleteRowStep DEF Moves
    <2>2. /\ Rows(r) = bookmark /\ Tags(r) = tag /\ Links(r) = link /\ patch[r].job = {}
          /\ Found(r) = Whole!Present
      BY <2>1, SeesTables
    <2>3. /\ bookmark' = bookmark /\ tag' = tag /\ link' = link
          /\ Rows(r)' = bookmark' /\ Tags(r)' = tag' /\ Links(r)' = link'
      BY <2>1, <2>2 DEF db, Rows, Tags, Links
    <2>4. Deletes(r)'
      BY <2>1, <2>2, <2>3 DEF Deletes, Whole!Present
    <2> QED BY <2>1, <2>4 DEF Going, Savers
  <1>2. CASE DeleteTag(r)
    <2>1. /\ Moves(r) /\ UNCHANGED db /\ patch[r] = Patch /\ patch' = patch
          /\ call'[r].kind = "droptag" /\ call'[r].at = "clear"
      BY <1>2, DeleteTagStep DEF Moves
    <2>2. Rows(r) = bookmark /\ Tags(r) = tag /\ Links(r) = link /\ patch[r].job = {}
      BY <2>1, SeesTables
    <2>3. tag[call'[r].t] # NoTag
      <3>1. PICK t \in Tag : /\ Tags(r)[t] # NoTag
                             /\ Goto(r, [Idle EXCEPT !.kind = "droptag", !.at = "clear", !.t = t])
        BY <1>2 DEF DeleteTag
      <3>2. call'[r] = [Idle EXCEPT !.kind = "droptag", !.at = "clear", !.t = t]
        BY <3>1, Went
      <3> QED BY <2>2, <3>1, <3>2 DEF Idle
    <2>4. /\ bookmark' = bookmark /\ tag' = tag /\ link' = link
          /\ Rows(r)' = bookmark' /\ Tags(r)' = tag' /\ Links(r)' = link'
      BY <2>1, <2>2 DEF db, Rows, Tags, Links
    <2>5. DropsTag(r)'
      BY <2>1, <2>2, <2>3, <2>4 DEF DropsTag
    <2> QED BY <2>1, <2>5 DEF Going, Savers
  <1> QED BY <1>1, <1>2

\* A merge starts from what is committed, too.
LEMMA BeginMergeGoes ==
  ASSUME BaseInv, SqliteInv, NEW r \in Request, BeginMerge(r)
  PROVE  Going(r)'
  <1>1. PICK c, d : c = call[r] /\ d = call'[r]
    OBVIOUS
  <1>2. /\ Moves(r) /\ UNCHANGED db /\ patch[r] = Patch /\ patch' = patch
        /\ c.kind = "merge" /\ d.at = "copy" /\ Stays(c, d) /\ d.ids = c.ids
        /\ c.b \notin c.ids /\ link \subseteq Link
    BY <1>1, BeginMergeStep DEF Moves, SqliteInv, MergeTarget, BaseInv, Types
  <1>3. /\ Rows(r) = bookmark /\ Tags(r) = tag /\ Links(r) = link /\ patch[r].job = {}
        /\ tag \in [Tag -> Name \cup {NoTag}] /\ DOMAIN patch[r].tag = {}
    BY <1>2, SeesTables DEF BaseInv, Types, Patch
  <1>4. Moved({}, d.b) = link
    BY DEF Moved
  <1>5. /\ bookmark' = bookmark /\ tag' = tag /\ link' = link /\ patch'[r].job = {}
        /\ Rows(r)' = bookmark' /\ Tags(r)' = tag /\ Links(r)' = link
        /\ DOMAIN patch'[r].tag = {} /\ Moved({}, d.b)' = link
    BY <1>2, <1>3, <1>4 DEF db, Rows, Tags, Links, Moved
  <1>6. tag = [t \in Tag |-> IF t \in {} THEN NoTag ELSE tag[t]]
    BY <1>3
  <1>7. Merges(r)'
    BY <1>1, <1>2, <1>5, <1>6 DEF Merges, Stays
  <1> QED BY <1>1, <1>2, <1>7 DEF Going, Savers, Stays

\* The bookmarks of the next merged tag get the target.
LEMMA CopyLinksGoes ==
  ASSUME BaseInv, NEW r \in Request, Going(r), CopyLinks(r)
  PROVE  Going(r)'
  <1>1. PICK c, d, t, S : c = call[r] /\ d = call'[r] /\ t = call'[r].t /\ S = DOMAIN patch[r].tag
    OBVIOUS
  <1>2. PICK new : /\ new = {<<b, c.b>> : b \in {x \in Bookmark : <<x, t>> \in Links(r)}} \ Links(r)
                   /\ patch'[r].add = patch[r].add \cup new
    <2>1. PICK new :
            /\ new = {<<b, call[r].b>> : b \in {x \in Bookmark : <<x, call'[r].t>> \in Links(r)}}
                       \ Links(r)
            /\ patch'[r].add = patch[r].add \cup new
      BY CopyLinksStep
    <2> QED BY <1>1, <2>1
  <1>3. /\ Moves(r) /\ UNCHANGED db /\ c.at = "copy" /\ c.kind = "merge" /\ d.at = "clear"
        /\ Stays(c, d) /\ d.ids = c.ids /\ t \in c.ids
        /\ patch'[r].bookmark = patch[r].bookmark /\ patch'[r].tag = patch[r].tag
        /\ patch'[r].job = patch[r].job
        /\ patch'[r].add = patch[r].add \cup new /\ patch'[r].del = patch[r].del
        /\ link \subseteq Link
    BY <1>1, <1>2, CopyLinksStep DEF Moves, BaseInv, Types
  <1>4. Merges(r)
    BY <1>1, <1>3 DEF Going
  <1>5. /\ Rows(r) = bookmark /\ patch[r].job = {}
        /\ S \subseteq Tag /\ c.b \notin S /\ c.b \notin c.ids /\ c.ids \cap S = {}
        /\ Tags(r) = [s \in Tag |-> IF s \in S THEN NoTag ELSE tag[s]]
        /\ Links(r) = Moved(S, c.b)
    BY <1>1, <1>3, <1>4 DEF Merges
  <1>6. /\ bookmark' = bookmark /\ tag' = tag /\ link' = link
        /\ Rows(r)' = Rows(r) /\ Tags(r)' = Tags(r) /\ Links(r)' = Links(r) \cup new
    BY <1>3 DEF db, Rows, Tags, Links
  <1>7. \A x : <<x, t>> \in Links(r) <=> <<x, t>> \in link
    BY <1>3, <1>5, NotMoved
  <1>8. Links(r)' = Moved(S, c.b) \cup {<<b, c.b>> : b \in {x \in Bookmark : <<x, t>> \in link}}
    BY <1>2, <1>5, <1>6, <1>7
  <1>9. Merges(r)'
    <2>1. DOMAIN patch'[r].tag = S /\ patch'[r].job = patch[r].job
      BY <1>1, <1>3
    <2>2. d.at = "clear" /\ d.b = c.b /\ d.t = t /\ d.ids = c.ids
      BY <1>1, <1>3 DEF Stays
    <2>3. Moved(S, c.b)' = Moved(S, c.b)
      BY <1>6 DEF Moved
    <2> QED BY <1>1, <1>3, <1>5, <1>6, <1>8, <2>1, <2>2, <2>3, SMTT(30) DEF Merges
  <1> QED BY <1>1, <1>3, <1>9 DEF Going, Savers, Stays

\* What a request sees of the tags when it has changed one of them.
LEMMA SeesTag ==
  ASSUME BaseInv, NEW r \in Request, tag' = tag, NEW t \in Tag, NEW n,
         patch'[r].tag = Put(patch[r].tag, t, n)
  PROVE  /\ Tags(r)' = [Tags(r) EXCEPT ![t] = n]
         /\ DOMAIN patch'[r].tag = DOMAIN patch[r].tag \cup {t}
  <1>1. /\ tag \in [Tag -> Name \cup {NoTag}] /\ Tags(r) \in [Tag -> Name \cup {NoTag}]
        /\ patch[r].tag \in Partial(Tag, Name \cup {NoTag})
    BY SeenType DEF BaseInv, Types, Change
  <1>2. PICK seen : seen = Over(Put(patch[r].tag, t, n), tag)
    OBVIOUS
  <1>3. seen[t] = n /\ \A s \in Tag \ {t} : seen[s] = Tags(r)[s]
    BY <1>1, <1>2, OverPut DEF Tags
  <1>4. Tags(r)' = seen
    BY <1>2 DEF Tags
  <1>5. seen = [s \in Tag |-> seen[s]]
    BY <1>1, <1>2 DEF Over
  <1>6. DOMAIN patch'[r].tag = DOMAIN patch[r].tag \cup {t}
    BY DEF Put
  <1> QED BY <1>1, <1>3, <1>4, <1>5, <1>6

\* The row, or the tag, goes last.
LEMMA DropGoes ==
  ASSUME BaseInv, NEW r \in Request, Going(r), Drop(r)
  PROVE  Going(r)'
  <1>1. PICK c, d, S, ids : /\ c = call[r] /\ d = call'[r] /\ S = DOMAIN patch[r].tag
                            /\ ids = call[r].ids \ {call[r].t}
    OBVIOUS
  <1>2. /\ Moves(r) /\ UNCHANGED db /\ c.at = "drop" /\ c.kind \in {"delete", "droptag", "merge"}
        /\ d.at = (IF ids = {} THEN "commit" ELSE "copy")
        /\ Stays(c, d) /\ d.t = c.t /\ d.ids = ids
        /\ patch'[r].add = patch[r].add /\ patch'[r].del = patch[r].del
        /\ patch'[r].job = patch[r].job
    BY <1>1, DropStep DEF Moves
  <1>3. /\ c.kind = "delete" => /\ c.b \in Bookmark /\ patch'[r].tag = patch[r].tag
                                /\ patch'[r].bookmark = Put(patch[r].bookmark, c.b, None)
        /\ c.kind # "delete" => /\ c.t \in Tag /\ patch'[r].bookmark = patch[r].bookmark
                                /\ patch'[r].tag = Put(patch[r].tag, c.t, NoTag)
    BY <1>1, DropStep
  <1>4. /\ bookmark' = bookmark /\ tag' = tag /\ link' = link /\ Links(r)' = Links(r)
        /\ bookmark \in [Bookmark -> Row \cup {None}] /\ tag \in [Tag -> Name \cup {NoTag}]
    BY <1>2 DEF db, Links, BaseInv, Types
  <1>5. c.kind \in {"delete", "droptag"} => d.at = "commit"
    <2>1. c.kind \in {"delete", "droptag"} => c.ids = {}
      BY <1>1 DEF BaseInv, Locals
    <2> QED BY <1>1, <1>2, <2>1
  <1>6. CASE c.kind = "delete"
    <2>1. Deletes(r)
      BY <1>1, <1>6 DEF Going
    <2>2. Rows(r)' = [bookmark EXCEPT ![c.b] = None] /\ Tags(r)' = Tags(r)
      <3>1. PICK seen : seen = Over(Put(patch[r].bookmark, c.b, None), bookmark)
        OBVIOUS
      <3>2. seen[c.b] = None /\ \A x \in Bookmark \ {c.b} : seen[x] = Rows(r)[x]
        BY <1>3, <1>6, <3>1, RowSeen
      <3>3. Rows(r)' = seen /\ seen = [x \in Bookmark |-> seen[x]] /\ Tags(r)' = Tags(r)
        BY <1>3, <1>4, <1>6, <3>1 DEF Rows, Tags, Over
      <3>4. Rows(r) = bookmark
        BY <1>1, <1>2, <2>1 DEF Deletes
      <3> QED BY <1>4, <3>2, <3>3, <3>4
    <2>3. Deletes(r)'
      BY <1>1, <1>2, <1>4, <1>5, <1>6, <2>1, <2>2 DEF Deletes, Stays
    <2> QED BY <1>1, <1>2, <1>6, <2>3 DEF Going, Savers, Stays
  <1>7. CASE c.kind = "droptag"
    <2>1. DropsTag(r)
      BY <1>1, <1>7 DEF Going
    <2>2. Rows(r)' = Rows(r) /\ Tags(r)' = [tag EXCEPT ![c.t] = NoTag]
      <3>1. Tags(r) = tag /\ Rows(r)' = Rows(r)
        BY <1>1, <1>2, <1>3, <1>4, <1>7, <2>1 DEF DropsTag, Rows
      <3> QED BY <1>3, <1>4, <1>7, <3>1, SeesTag
    <2>3. DropsTag(r)'
      BY <1>1, <1>2, <1>4, <1>5, <1>7, <2>1, <2>2 DEF DropsTag, Stays
    <2> QED BY <1>1, <1>2, <1>7, <2>3 DEF Going, Savers, Stays
  <1>8. CASE c.kind = "merge"
    <2>1. Merges(r)
      BY <1>1, <1>8 DEF Going
    <2>2. /\ Rows(r) = bookmark /\ patch[r].job = {}
          /\ S \subseteq Tag /\ c.b \notin S /\ c.b \notin c.ids /\ c.ids \cap S = {}
          /\ Tags(r) = [s \in Tag |-> IF s \in S THEN NoTag ELSE tag[s]]
          /\ c.t \in c.ids /\ Links(r) = Moved(S \cup {c.t}, c.b)
      BY <1>1, <1>2, <2>1 DEF Merges
    <2>3. /\ Tags(r)' = [Tags(r) EXCEPT ![c.t] = NoTag] /\ Rows(r)' = Rows(r)
          /\ DOMAIN patch'[r].tag = S \cup {c.t} /\ c.t \in Tag
      BY <1>1, <1>3, <1>4, <1>8, SeesTag DEF Rows
    <2>4. Tags(r)' = [s \in Tag |-> IF s \in S \cup {c.t} THEN NoTag ELSE tag[s]]
      BY <2>2, <2>3
    <2>5. Moved(S \cup {c.t}, c.b)' = Moved(S \cup {c.t}, c.b)
      BY <1>4 DEF Moved
    <2>6. /\ d.at \in {"copy", "commit"} /\ d.b = c.b /\ d.ids = c.ids \ {c.t}
          /\ d.at = "commit" => d.ids = {}
      BY <1>1, <1>2 DEF Stays
    <2>7. Merges(r)'
      <3>1. patch'[r].job = {} /\ c.b \notin S \cup {c.t} /\ (S \cup {c.t}) \cap d.ids = {}
        BY <1>2, <2>2, <2>6
      <3> QED BY <1>1, <1>4, <2>2, <2>3, <2>4, <2>5, <2>6, <3>1 DEF Merges
    <2> QED BY <1>1, <1>2, <1>8, <2>7 DEF Going, Savers, Stays
  <1> QED BY <1>2, <1>6, <1>7, <1>8

\* Bulk tagging finds or makes its tag under the write lock.
LEMMA ResolveTagGoes ==
  ASSUME BaseInv, SqliteInv, NEW r \in Request, ResolveTag(r)
  PROVE  Going(r)'
  <1>1. PICK n \in Name :
          /\ TagFor(r, n) \in Tag /\ CountsTag(r, n) /\ Moves(r) /\ patch[r] = Patch
          /\ call'[r].kind \in {"tag", "untag"} /\ call'[r].t = TagFor(r, n)
          /\ patch'[r] = WithTag(r, n)
    BY ResolveTagStep
  <1>2. PICK t : t = TagFor(r, n)
    OBVIOUS
  <1>3. /\ Rows(r) = bookmark /\ Tags(r) = tag /\ Links(r) = link /\ patch[r].job = {}
        /\ UNCHANGED db /\ tag \in [Tag -> Name \cup {NoTag}] /\ t \in Tag
        /\ serial.tag \in Nat /\ \A s \in Tag : s \in Nat
    BY <1>1, <1>2, SeesTables, BookmarksAssumption DEF Moves, BaseInv, Types, BookmarksAssumption
  <1>4. /\ patch'[r].bookmark = patch[r].bookmark /\ patch'[r].job = patch[r].job
        /\ patch'[r].add = patch[r].add /\ patch'[r].del = patch[r].del
        /\ \/ /\ Named(r, n) = {} /\ t = serial.tag
              /\ patch'[r].tag = Put(patch[r].tag, serial.tag, n)
           \/ /\ Named(r, n) # {} /\ t = Least(Named(r, n))
              /\ patch'[r].tag = patch[r].tag
    BY <1>1, <1>2, GetTag
  <1>5. /\ bookmark' = bookmark /\ tag' = tag /\ link' = link
        /\ Rows(r)' = bookmark /\ Links(r)' = link /\ patch'[r].job = {}
    BY <1>3, <1>4 DEF db, Rows, Links
  <1>6. \/ tag[t] = n /\ Tags(r)' = tag
        \/ tag[t] = NoTag /\ (\A s \in Tag : tag[s] # n) /\ Tags(r)' = [tag EXCEPT ![t] = n]
    <2>1. CASE Named(r, n) = {} /\ t = serial.tag
               /\ patch'[r].tag = Put(patch[r].tag, serial.tag, n)
      <3>1. Tags(r)' = [tag EXCEPT ![t] = n]
        BY <1>3, <1>5, <2>1, SeesTag
      <3>2. tag[t] = NoTag
        BY <1>3, <2>1 DEF SqliteInv
      <3> QED BY <1>3, <2>1, <3>1, <3>2 DEF Named
    <2>2. CASE Named(r, n) # {} /\ t = Least(Named(r, n)) /\ patch'[r].tag = patch[r].tag
      <3>1. Named(r, n) \subseteq Nat
        BY <1>3 DEF Named
      <3>2. t \in Named(r, n)
        BY <2>2, <3>1, LeastIn
      <3>3. Tags(r)' = Tags(r)
        BY <1>5, <2>2 DEF Tags
      <3> QED BY <1>3, <3>2, <3>3 DEF Named
    <2> QED BY <1>4, <2>1, <2>2
  <1>7. TagsMany(r)'
    BY <1>1, <1>2, <1>5, <1>6 DEF TagsMany
  <1> QED BY <1>1, <1>7 DEF Going, Savers

\* What bulk tagging has done stays done.
LEMMA TagsStay ==
  ASSUME NEW r \in Request, TagsMany(r), UNCHANGED db, call'[r].kind = call[r].kind,
         call'[r].t = call[r].t, patch'[r].bookmark = patch[r].bookmark,
         patch'[r].tag = patch[r].tag, patch'[r].job = patch[r].job,
         \/ Links(r)' = Links(r)
         \/ \E b \in Found(r) :
              Links(r)' = IF call[r].kind = "tag" THEN Links(r) \cup {<<b, call[r].t>>}
                                                  ELSE Links(r) \ {<<b, call[r].t>>}
  PROVE  TagsMany(r)'
  <1>1. PICK c, d : c = call[r] /\ d = call'[r] /\ d.kind = c.kind /\ d.t = c.t
    OBVIOUS
  <1>2. /\ bookmark' = bookmark /\ tag' = tag /\ link' = link
        /\ Rows(r)' = Rows(r) /\ Tags(r)' = Tags(r)
    BY DEF db, Rows, Tags
  <1>3. Rows(r)' = bookmark' /\ patch'[r].job = {}
    BY <1>2 DEF TagsMany
  <1>4. \E n \in Name : \/ tag'[d.t] = n /\ Tags(r)' = tag'
                        \/ /\ tag'[d.t] = NoTag /\ \A s \in Tag : tag'[s] # n
                           /\ Tags(r)' = [tag' EXCEPT ![d.t] = n]
    BY <1>1, <1>2 DEF TagsMany
  <1>5. \A b \in Found(r) : bookmark[b] # None
    BY DEF TagsMany, Found
  <1>6. d.kind = "tag" =>
          link \subseteq Links(r)' /\ \A l \in Links(r)' \ link : l[2] = d.t /\ bookmark[l[1]] # None
    BY <1>1, <1>5 DEF TagsMany
  <1>7. d.kind = "untag" =>
          Links(r)' \subseteq link /\ \A l \in link \ Links(r)' : l[2] = d.t
    BY <1>1 DEF TagsMany
  <1> QED BY <1>1, <1>2, <1>3, <1>4, <1>6, <1>7 DEF TagsMany

\* A round of the loop adds or deletes the link of a bookmark that is there.
LEMMA TaggingGoes ==
  ASSUME BaseInv, NEW r \in Request, Going(r), TagOne(r) \/ Touch(r) \/ TaggedAll(r)
  PROVE  Going(r)'
  <1>1. /\ UNCHANGED db /\ call'[r].kind = call[r].kind /\ call'[r].t = call[r].t
        /\ call[r].kind \in {"tag", "untag"}
        /\ patch'[r].bookmark = patch[r].bookmark
        /\ patch'[r].tag = patch[r].tag /\ patch'[r].job = patch[r].job
    BY TagOneStep, TouchStep, TaggedAllStep DEF Moves, Stays
  <1>2. \/ Links(r)' = Links(r)
        \/ \E b \in Found(r) :
             Links(r)' = IF call[r].kind = "tag" THEN Links(r) \cup {<<b, call[r].t>>}
                                                 ELSE Links(r) \ {<<b, call[r].t>>}
    <2>1. CASE Touch(r) \/ TaggedAll(r)
      BY <1>1, <2>1, TouchStep, TaggedAllStep DEF Links, db
    <2>2. CASE TagOne(r)
      <3>1. PICK b, l : b = Least(call[r].ids) /\ l = <<b, call[r].t>>
        OBVIOUS
      <3>2. CASE b \notin Found(r)
        <4>1. UNCHANGED patch
          BY <2>2, <3>1, <3>2 DEF TagOne
        <4> QED BY <1>1, <4>1 DEF Links, db
      <3>3. CASE b \in Found(r) /\ call[r].kind = "tag"
        <4>1. Writes(r, [patch[r] EXCEPT !.add = IF l \in Links(r) THEN @ ELSE @ \cup {l}])
          BY <2>2, <3>1, <3>3 DEF TagOne
        <4>2. /\ patch'[r].add = IF l \in Links(r) THEN patch[r].add ELSE patch[r].add \cup {l}
              /\ patch'[r].del = patch[r].del
          BY <4>1, Wrote, SeenType DEF Change
        <4>3. Links(r)' = Links(r) \cup {l}
          BY <1>1, <4>2 DEF Links, db
        <4> QED BY <3>1, <3>3, <4>3
      <3>4. CASE b \in Found(r) /\ call[r].kind # "tag"
        <4>1. Writes(r, [patch[r] EXCEPT !.del = @ \cup ({l} \cap link), !.add = @ \ {l}])
          BY <2>2, <3>1, <3>4 DEF TagOne
        <4>2. /\ patch'[r].add = patch[r].add \ {l}
              /\ patch'[r].del = patch[r].del \cup ({l} \cap link)
          BY <4>1, Wrote, SeenType DEF Change
        <4>3. Links(r)' = Links(r) \ {l}
          BY <1>1, <4>2 DEF Links, db
        <4> QED BY <3>1, <3>4, <4>3
      <3> QED BY <3>2, <3>3, <3>4
    <2> QED BY <2>1, <2>2
  <1>3. TagsMany(r)'
    BY <1>1, <1>2, TagsStay DEF Going
  <1> QED BY <1>1, <1>3 DEF Going, Savers

\* No request has begun when a statement of its own, or a commit, has written.
LEMMA WholeWrites ==
  ASSUME SqliteInv, Sqlite, NEW r \in Request, InTx(r) \/ Turn(r), call'[r].at = "idle",
         \A q \in Request \ {r} : call'[q] = call[q]
  PROVE  WholeInv'
  <1> SUFFICES ASSUME NEW q \in Request, InTx(q)' PROVE FALSE
    BY DEF WholeInv
  <1>1. q # r /\ InTx(q)
    BY DEF InTx, Outside
  <1> QED BY <1>1 DEF SqliteInv, Alone, Turn, Others, Sqlite

\* On SQLite every step keeps the requests whole.
LEMMA WholeStep ==
  ASSUME Sqlite, BaseInv, SqliteInv, WholeInv, [Next]_vars
  PROVE  WholeInv'
  <1>1. CASE UNCHANGED vars
    <2>1. \A r \in Request : InTx(r)' <=> InTx(r)
      BY <1>1 DEF vars, InTx
    <2> QED BY <1>1, <2>1, GoesOn DEF WholeInv, vars, db
  <1>2. ASSUME NEW r \in Request, RequestStep(r) PROVE WholeInv'
    <2>1. \A at \in {"save", "edit", "tags", "clear", "clearing", "attach", "each", "touch",
                     "drop", "copy", "commit"} : call[r].at = at => InTx(r) /\ Going(r)
      BY DEF WholeInv, InTx, Outside
    <2>2. CASE Lookup(r)
      BY <2>2, LookupStep, LookupGoes, WholeKeeps
    <2>3. CASE InsertRow(r)
      BY <2>1, <2>3, InsertRowStep, InsertRowGoes, WholeKeeps
    <2>4. CASE MergeIntoRow(r)
      BY <2>1, <2>4, MergeRowStep, MergeIntoRowGoes, WholeKeeps
    <2>5. CASE StartClear(r)
      BY <2>1, <2>5, StartClearStep, StartClearGoes, WholeKeeps
    <2>6. CASE Clear(r)
      BY <2>1, <2>6, ClearStep, ClearGoes, WholeKeeps
    <2>7. CASE Attach(r)
      <3>1. Moves(r) /\ call[r].at = "attach"
        BY <2>7, AttachStep
      <3> QED BY <2>1, <2>7, <3>1, AttachGoes, WholeKeeps
    <2>8. CASE Effects(r)
      BY <2>1, <2>8, EffectsStep, EffectsGoes, WholeKeeps
    <2>9. CASE ReadRow(r)
      BY <2>9, ReadRowStep, ReadRowGoes, WholeKeeps
    <2>10. CASE WriteRow(r)
      BY <2>1, <2>10, WriteRowStep, WriteRowGoes, WholeKeeps
    <2>11. CASE KeepTags(r)
      BY <2>1, <2>11, KeepTagsStep, KeepTagsGoes, WholeKeeps
    <2>12. CASE SetState(r) \/ EnhanceMetadata(r)
      BY <2>12, RowWritesStep, WholeWrites
    <2>13. CASE ResolveTag(r)
      <3>1. Moves(r) /\ Turn(r)
        BY <2>13, ResolveTagStep
      <3> QED BY <2>13, <3>1, ResolveTagGoes, WholeKeeps
    <2>14. CASE TagOne(r) \/ Touch(r) \/ TaggedAll(r)
      <3>1. Moves(r) /\ call[r].at \in {"each", "touch"}
        BY <2>14, TagOneStep, TouchStep, TaggedAllStep
      <3> QED BY <2>1, <2>14, <3>1, TaggingGoes, WholeKeeps
    <2>15. CASE DeleteRow(r) \/ DeleteTag(r)
      BY <2>15, DeleteRowStep, DeleteTagStep, DeletionsGo, WholeKeeps
    <2>16. CASE Drop(r)
      BY <2>1, <2>16, DropStep, DropGoes, WholeKeeps
    <2>17. CASE CheckNewTag(r) \/ CheckRename(r) \/ MergeTags(r) \/ ResolveMerged(r)
      <3>1. Moves(r) /\ call'[r].at \in Outside
        <4>1. CASE CheckNewTag(r) \/ CheckRename(r) \/ MergeTags(r)
          BY <4>1, CheckNewTagStep, CheckRenameStep, MergeTagsStep DEF Outside
        <4>2. CASE ResolveMerged(r)
          <5>1. Moves(r) /\ (call'[r] = Idle \/ call'[r].at \in {"resolve", "begin"})
            BY <4>2, ResolveMergedStep
          <5>2. Idle.at = "idle"
            BY DEF Idle
          <5> QED BY <5>1, <5>2 DEF Outside
        <4> QED BY <2>17, <4>1, <4>2
      <3> QED BY <3>1, WholeKeeps DEF InTx
    <2>18. CASE InsertTag(r) \/ RenameTag(r)
      <3>1. Turn(r) /\ Ends(r) /\ patch' = patch
        BY <2>18 DEF InsertTag, RenameTag
      <3> QED BY <3>1, EndsTyped, WholeWrites
    <2>19. CASE BeginMerge(r)
      BY <2>19, BeginMergeStep, BeginMergeGoes, WholeKeeps
    <2>20. CASE CopyLinks(r)
      BY <2>1, <2>20, CopyLinksStep, CopyLinksGoes, WholeKeeps
    <2>21. CASE Commit(r)
      <3>1. Writes(r, Patch) /\ Ends(r) /\ call[r].at = "commit"
        BY <2>21 DEF Commit, At
      <3> QED BY <2>1, <3>1, EndsTyped, WholeWrites
    <2>22. CASE Abort(r)
      <3>1. Writes(r, Patch) /\ Ends(r) /\ InTx(r)
        BY <2>22 DEF Abort
      <3> QED BY <3>1, EndsTyped, WholeWrites
    <2> QED BY <1>2, <2>2, <2>3, <2>4, <2>5, <2>6, <2>7, <2>8, <2>9, <2>10, <2>11, <2>12, <2>13,
               <2>14, <2>15, <2>16, <2>17, <2>18, <2>19, <2>20, <2>21, <2>22, Zenon
            DEF RequestStep
  <1> QED BY <1>1, <1>2 DEF Next

-----------------------------------------------------------------------------
(***************************************************************************)
(* Every step of Bookmarks is a step of WholeRequests, or changes nothing   *)
(* that is committed.                                                       *)
(***************************************************************************)
\* The tables at a commit.
LEMMA Commits ==
  ASSUME BaseInv, SqliteInv, WholeInv, NEW r \in Request, Commit(r)
  PROVE  /\ bookmark' = Rows(r) /\ tag' = Tags(r) /\ link' = Links(r)
         /\ job' = job \cup patch[r].job /\ call[r].at = "commit"
         /\ Mine(r) /\ Going(r) /\ Where(call[r]) /\ Locals(call[r])
         /\ bookmark \in [Bookmark -> Row \cup {None}] /\ tag \in [Tag -> Name \cup {NoTag}]
         /\ Rows(r) \in [Bookmark -> Row \cup {None}] /\ Tags(r) \in [Tag -> Name \cup {NoTag}]
         /\ link \subseteq Link /\ Links(r) \subseteq Link
         /\ NoTag \notin Name /\ Link = Bookmark \X Tag
         /\ \A l \in link' : bookmark'[l[1]] # None /\ tag'[l[2]] # NoTag
         /\ \A l \in link : bookmark[l[1]] # None /\ tag[l[2]] # NoTag
  <1>1. call[r].at = "commit" /\ InTx(r)
    BY DEF Commit, At, InTx, Outside
  <1>2. Going(r) /\ Mine(r)
    BY <1>1 DEF WholeInv, SqliteInv
  <1>3. NoTag \notin Name
    BY BookmarksAssumption DEF BookmarksAssumption, NoTag
  <1> QED BY <1>1, <1>2, <1>3, SeenType DEF Commit, BaseInv, Types, LinkLocks, Link

\* The tags of a saved bookmark: one for each name, made where there was none.
LEMMA CommitsTags ==
  ASSUME BaseInv, SqliteInv, WholeInv, NEW r \in Request, Commit(r), Saves(r)
  PROVE  Whole!Tagged(call[r].b, NamesOf(r, call[r].b)) /\ NamesOf(r, call[r].b) \subseteq Name
  <1>1. PICK b, names : b = call[r].b /\ names = NamesOf(r, b)
    OBVIOUS
  <1>2. /\ tag' = Tags(r) /\ link' = Links(r) /\ call[r].at = "commit" /\ TagOnce(r)
        /\ tag \in [Tag -> Name \cup {NoTag}] /\ Tags(r) \in [Tag -> Name \cup {NoTag}]
        /\ link \subseteq Bookmark \X Tag /\ Links(r) \subseteq Bookmark \X Tag /\ NoTag \notin Name
        /\ \A l \in Links(r) : Tags(r)[l[2]] # NoTag
    BY Commits DEF Mine
  <1>3. Attached(r)
    BY <1>2 DEF Saves, SavesTags
  <1>4. /\ \A t \in Tag : tag[t] # NoTag => Tags(r)[t] = tag[t]
        /\ \A t \in Tag : tag[t] = NoTag /\ Tags(r)[t] # NoTag => <<b, t>> \in Links(r)
        /\ \A l \in Bookmark \X Tag : l[1] # b => (l \in Links(r) <=> l \in link)
        /\ \A k, l \in Links(r) : k[1] = b /\ l[1] = b /\ Tags(r)[k[2]] = Tags(r)[l[2]] => k[2] = l[2]
    BY <1>1, <1>3 DEF Attached, Link
  <1>5. names = {Tags(r)[l[2]] : l \in {k \in Links(r) : k[1] = b}}
    BY <1>1 DEF NamesOf
  <1>6. PICK of : of = [n \in names |-> CHOOSE t \in Tag : <<b, t>> \in Links(r) /\ Tags(r)[t] = n]
    OBVIOUS
  <1>7. ASSUME NEW n \in names
        PROVE  /\ of[n] \in Tag /\ <<b, of[n]>> \in Links(r) /\ Tags(r)[of[n]] = n
               /\ n \in Name
    <2>1. PICK l \in Links(r) : l[1] = b /\ Tags(r)[l[2]] = n
      BY <1>5
    <2>2. l = <<b, l[2]>> /\ l[2] \in Tag
      BY <1>2, <2>1
    <2>3. \E t \in Tag : <<b, t>> \in Links(r) /\ Tags(r)[t] = n
      BY <2>1, <2>2
    <2> QED BY <1>2, <1>6, <2>1, <2>2, <2>3
  <1>8. ASSUME NEW t, <<b, t>> \in Links(r)
        PROVE  t \in Tag /\ Tags(r)[t] \in names /\ of[Tags(r)[t]] = t
    <2>1. t \in Tag
      BY <1>2, <1>8
    <2>2. Tags(r)[t] \in names
      BY <1>5, <1>8
    <2>3. <<b, of[Tags(r)[t]]>> \in Links(r) /\ Tags(r)[of[Tags(r)[t]]] = Tags(r)[t]
      BY <1>7, <2>2
    <2> QED BY <1>4, <1>8, <2>1, <2>2, <2>3
  <1>9. of \in [names -> Tag]
    BY <1>6, <1>7
  <1>10. ASSUME NEW n \in names
         PROVE  tag'[of[n]] = n /\ (tag[of[n]] = n \/ \A t \in Tag : tag[t] # n)
    <2>1. of[n] \in Tag /\ Tags(r)[of[n]] = n /\ n # NoTag
      BY <1>2, <1>7
    <2>2. CASE tag[of[n]] # NoTag
      BY <1>2, <1>4, <2>1, <2>2
    <2>3. CASE tag[of[n]] = NoTag
      <3>1. ASSUME NEW t \in Tag, tag[t] = n PROVE FALSE
        <4>1. Tags(r)[t] = n
          BY <1>4, <2>1, <3>1
        <4>2. t = of[n]
          BY <1>2, <2>1, <2>3, <4>1 DEF TagOnce
        <4> QED BY <2>1, <2>3, <3>1, <4>2
      <3> QED BY <1>2, <2>1, <3>1
    <2> QED BY <2>2, <2>3
  <1>11. \A t \in Tag : tag'[t] = tag[t] \/ (tag[t] = NoTag /\ \E n \in names : of[n] = t)
    BY <1>2, <1>4, <1>8
  <1>12. link' = {l \in link : l[1] # b} \cup {<<b, of[n]>> : n \in names}
    <2>1. ASSUME NEW l \in link' PROVE l \in {k \in link : k[1] # b} \cup {<<b, of[n]>> : n \in names}
      <3>1. l \in Bookmark \X Tag /\ l = <<l[1], l[2]>>
        BY <1>2, <2>1
      <3>2. CASE l[1] = b
        <4>1. Tags(r)[l[2]] \in names /\ of[Tags(r)[l[2]]] = l[2]
          BY <1>2, <1>8, <2>1, <3>1, <3>2
        <4> QED BY <3>1, <3>2, <4>1
      <3> QED BY <1>2, <1>4, <2>1, <3>1, <3>2
    <2>2. ASSUME NEW l \in link, l[1] # b PROVE l \in link'
      BY <1>2, <1>4, <2>2
    <2>3. ASSUME NEW n \in names PROVE <<b, of[n]>> \in link'
      BY <1>2, <1>7
    <2> QED BY <2>1, <2>2, <2>3
  <1>13. Whole!Tagged(b, names)
    BY <1>9, <1>10, <1>11, <1>12 DEF Whole!Tagged
  <1>14. names \subseteq Name
    BY <1>7
  <1> QED BY <1>1, <1>13, <1>14

\* A creation is committed whole.
LEMMA CommitsCreation ==
  ASSUME BaseInv, SqliteInv, WholeInv, NEW r \in Request, Commit(r), call[r].kind = "create"
  PROVE  \E url \in URL, names \in SUBSET Name :
           Whole!Create(url, names) \/ Whole!CreateAgain(url, names)
  <1>1. PICK c, b, names : c = call[r] /\ b = call[r].b /\ names = NamesOf(r, call[r].b)
    OBVIOUS
  <1>2. /\ bookmark' = Rows(r) /\ c.at = "commit" /\ Saves(r) /\ c.url \in URL
        /\ bookmark \in [Bookmark -> Row \cup {None}] /\ Rows(r) \in [Bookmark -> Row \cup {None}]
        /\ b \in Bookmark /\ c.b = b /\ c.kind = "create"
    BY <1>1, Commits DEF Going, Savers, Locals
  <1>3. Whole!Tagged(b, names) /\ names \in SUBSET Name
    BY <1>1, <1>2, CommitsTags
  <1>4. /\ \A x \in Bookmark \ {b} : Rows(r)[x] = bookmark[x]
        /\ c.row = None /\ CreatedRow(r)
    BY <1>1, <1>2 DEF Saves, SavesRow
  <1>5. PICK asked \in SUBSET Name : names = Parsed(asked \cup AutoTags[c.url])
    BY <1>1, <1>2 DEF Saves, SavesTags, Asked
  <1>6. Whole!Parsed(asked \cup AutoTags[c.url]) = names
    BY <1>5 DEF Parsed, Whole!Parsed
  <1>7. job' = job \cup {b} \X ({"load"} \cup (IF "new" \in c.given THEN JobKind ELSE {}))
    <2>1. patch[r].job = {b} \X ({"load"} \cup (IF "new" \in c.given THEN JobKind ELSE {}) \cup {})
      BY <1>1, <1>2, <1>4 DEF Saves, SavesJobs
    <2> QED BY <2>1, Commits
  <1>8. CASE c.given = {"new"}
    <2>1. /\ Whole!Same(c.url) = {} /\ bookmark[b] = None
          /\ Rows(r)[b] = [url |-> c.url, title |-> "given", archived |-> FALSE]
      BY <1>1, <1>4, <1>8 DEF CreatedRow
    <2>2. bookmark' = [bookmark EXCEPT ![b] = [url |-> c.url, title |-> "given", archived |-> FALSE]]
      BY <1>2, <1>4, <2>1
    <2>3. job' = job \cup {b} \X JobKind
      <3>1. {"load"} \cup JobKind = JobKind
        BY DEF JobKind
      <3> QED BY <1>7, <1>8, <3>1
    <2>4. b \in Bookmark \ Whole!Present
      BY <1>2, <2>1 DEF Whole!Present
    <2>5. Whole!Create(c.url, asked)
      BY <1>3, <1>6, <2>1, <2>2, <2>3, <2>4 DEF Whole!Create
    <2> QED BY <1>2, <1>5, <2>5
  <1>9. CASE c.given = {}
    <2>1. /\ Oldest(b, c.url) /\ c.url = bookmark[b].url
          /\ Rows(r)[b] = [bookmark[b] EXCEPT !.title = "given"]
      BY <1>1, <1>4, <1>9 DEF CreatedRow
    <2>2. bookmark' = [bookmark EXCEPT ![b].title = "given"]
      BY <1>2, <1>4, <2>1
    <2>3. job' = job \cup {<<b, "load">>}
      <3>1. {b} \X {"load"} = {<<b, "load">>}
        OBVIOUS
      <3> QED BY <1>7, <1>9, <3>1
    <2>4. Whole!CreateAgain(c.url, asked)
      BY <1>3, <1>6, <2>1, <2>2, <2>3 DEF Whole!CreateAgain, Oldest
    <2> QED BY <1>2, <1>5, <2>4
  <1> QED BY <1>1, <1>4, <1>8, <1>9 DEF CreatedRow

\* An edit is committed whole.
LEMMA CommitsEdit ==
  ASSUME BaseInv, SqliteInv, WholeInv, NEW r \in Request, Commit(r),
         call[r].kind \in {"form", "rest"}
  PROVE  \E b \in Bookmark, url \in URL, names \in SUBSET Name :
           Whole!EditForm(b, url, names)
             \/ \E given \in SUBSET Fields : Whole!EditFields(b, given, url, names)
  <1>1. PICK c, b, names : c = call[r] /\ b = call[r].b /\ names = NamesOf(r, call[r].b)
    OBVIOUS
  <1>2. /\ bookmark' = Rows(r) /\ c.at = "commit" /\ Saves(r) /\ c.url \in URL
        /\ bookmark \in [Bookmark -> Row \cup {None}] /\ Rows(r) \in [Bookmark -> Row \cup {None}]
        /\ b \in Bookmark /\ c.b = b /\ c.kind \in {"form", "rest"} /\ c.given \in SUBSET Fields
    BY <1>1, Commits DEF Going, Savers, Locals
  <1>3. Whole!Tagged(b, names) /\ names \in SUBSET Name
    BY <1>1, <1>2, CommitsTags
  <1>4. /\ \A x \in Bookmark \ {b} : Rows(r)[x] = bookmark[x]
        /\ c.row = bookmark[b] /\ bookmark[b] # None /\ EditedRow(r)
        /\ c.kind = "form" => c.given = {"url", "title", "names"}
        /\ "url" \notin c.given => c.url = bookmark[b].url
    BY <1>1, <1>2 DEF Saves, SavesRow
  <1>5. PICK asked \in SUBSET Name :
          /\ names = Parsed(asked \cup AutoTags[c.url])
          /\ "names" \notin c.given => asked = OldNames(b)
    BY <1>1, <1>2 DEF Saves, SavesTags, Asked
  <1>6. Whole!Parsed((IF "names" \in c.given THEN asked ELSE Whole!NamesOf(b)) \cup AutoTags[c.url])
          = names
    <2>1. (IF "names" \in c.given THEN asked ELSE Whole!NamesOf(b)) = asked
      BY <1>5 DEF Whole!NamesOf, OldNames
    <2> QED BY <1>5, <2>1 DEF Parsed, Whole!Parsed
  <1>7. job' = job \cup {b} \X ({"load"} \cup (IF c.url # bookmark[b].url THEN {"archive"} ELSE {}))
    <2>1. "new" \notin c.given /\ c.row # None
      BY <1>2, <1>4 DEF Fields
    <2>2. patch[r].job = {b} \X ({"load"} \cup {} \cup (IF c.url # bookmark[b].url THEN {"archive"} ELSE {}))
      BY <1>1, <1>2, <1>4, <2>1 DEF Saves, SavesJobs
    <2> QED BY <2>2, Commits
  <1>8. PICK archived \in BOOLEAN :
          /\ "archived" \notin c.given => archived = bookmark[b].archived
          /\ Rows(r)[b] = [url |-> c.url, archived |-> archived,
                           title |-> IF "title" \in c.given THEN "given" ELSE bookmark[b].title]
    BY <1>1, <1>4 DEF EditedRow
  <1>9. bookmark' = [bookmark EXCEPT ![b] =
           [url |-> c.url, archived |-> archived,
            title |-> IF "title" \in c.given THEN "given" ELSE bookmark[b].title]]
    BY <1>2, <1>4, <1>8
  <1>10. b \in Whole!Present
    BY <1>2, <1>4 DEF Whole!Present
  <1>11. Whole!Edit(b, c.given, c.url, asked)
    BY <1>3, <1>4, <1>6, <1>7, <1>8, <1>9, <1>10 DEF Whole!Edit
  <1>12. CASE c.kind = "form"
    <2>1. Whole!Same(c.url) \subseteq {b}
      BY <1>1, <1>4, <1>12 DEF EditedRow
    <2>2. Whole!EditForm(b, c.url, asked)
      BY <1>4, <1>11, <1>12, <2>1 DEF Whole!EditForm
    <2> QED BY <1>2, <1>5, <2>2
  <1>13. CASE c.kind = "rest"
    <2>1. "url" \in c.given => \A x \in Whole!Present \ {b} : bookmark[x].url # c.url
      BY <1>1, <1>4, <1>13 DEF EditedRow
    <2>2. Whole!EditFields(b, c.given, c.url, asked)
      BY <1>11, <2>1 DEF Whole!EditFields
    <2> QED BY <1>2, <1>5, <2>2
  <1> QED BY <1>2, <1>12, <1>13

\* Deletions are committed whole.
LEMMA CommitsDeletion ==
  ASSUME BaseInv, SqliteInv, WholeInv, NEW r \in Request, Commit(r),
         call[r].kind \in {"delete", "droptag"}
  PROVE  (\E b \in Bookmark : Whole!Delete(b)) \/ \E t \in Tag : Whole!DeleteTag(t)
  <1>1. PICK c : c = call[r]
    OBVIOUS
  <1>2. /\ bookmark' = Rows(r) /\ tag' = Tags(r) /\ link' = Links(r)
        /\ job' = job \cup patch[r].job /\ c.at = "commit" /\ c.kind \in {"delete", "droptag"}
        /\ c.kind = "delete" => Deletes(r) /\ c.b \in Bookmark
        /\ c.kind = "droptag" => DropsTag(r) /\ c.t \in Tag
    BY <1>1, Commits DEF Going, Locals
  <1>3. CASE c.kind = "delete"
    <2>1. Whole!Delete(c.b)
      BY <1>1, <1>2, <1>3 DEF Deletes, Whole!Delete, Whole!Present
    <2> QED BY <1>2, <1>3, <2>1
  <1>4. CASE c.kind = "droptag"
    <2>1. Whole!DeleteTag(c.t)
      BY <1>1, <1>2, <1>4 DEF DropsTag, Whole!DeleteTag
    <2> QED BY <1>2, <1>4, <2>1
  <1> QED BY <1>2, <1>3, <1>4

\* A merge is committed whole.
LEMMA CommitsMerge ==
  ASSUME BaseInv, SqliteInv, WholeInv, NEW r \in Request, Commit(r), call[r].kind = "merge"
  PROVE  \E t \in Tag : \E merged \in SUBSET Tag : Whole!Merge(t, merged)
  <1>1. PICK c, S : c = call[r] /\ S = DOMAIN patch[r].tag
    OBVIOUS
  <1>2. /\ bookmark' = Rows(r) /\ tag' = Tags(r) /\ link' = Links(r)
        /\ job' = job \cup patch[r].job /\ c.at = "commit" /\ c.b \in Tag /\ Merges(r)
        /\ \A l \in link' : tag'[l[2]] # NoTag /\ l \in Bookmark \X Tag
    BY <1>1, Commits DEF Going, Locals
  <1>3. /\ bookmark' = bookmark /\ job' = job /\ S \subseteq Tag /\ c.b \notin S
        /\ tag' = [t \in Tag |-> IF t \in S THEN NoTag ELSE tag[t]]
        /\ link' = Moved(S, c.b)
    BY <1>1, <1>2 DEF Merges
  <1>4. \A l \in link' : tag[l[2]] # NoTag
    <2>1. \A l \in link' : l[2] \in Tag
      BY <1>2
    <2> QED BY <1>2, <1>3, <2>1
  <1>5. Whole!Merge(c.b, S)
    BY <1>3, <1>4 DEF Whole!Merge, Moved
  <1> QED BY <1>2, <1>3, <1>5

\* Bulk tagging is committed whole.
LEMMA CommitsTagging ==
  ASSUME BaseInv, SqliteInv, WholeInv, NEW r \in Request, Commit(r),
         call[r].kind \in {"tag", "untag"}
  PROVE  \E t \in Tag, n \in Name, ids \in SUBSET Bookmark :
           Whole!TagMany(t, n, ids) \/ Whole!UntagMany(t, n, ids)
  <1>1. PICK c, t : c = call[r] /\ t = c.t
    OBVIOUS
  <1>2. /\ bookmark' = Rows(r) /\ tag' = Tags(r) /\ link' = Links(r)
        /\ job' = job \cup patch[r].job /\ t \in Tag /\ TagsMany(r) /\ c.kind \in {"tag", "untag"}
        /\ link \subseteq Bookmark \X Tag /\ Links(r) \subseteq Bookmark \X Tag
    BY <1>1, Commits DEF Going, Locals
  <1>3. bookmark' = bookmark /\ job' = job
    BY <1>2 DEF TagsMany
  <1>4. PICK n \in Name : Whole!GetOrCreate(t, n)
    BY <1>1, <1>2 DEF TagsMany, Whole!GetOrCreate
  <1>5. CASE c.kind = "tag"
    <2>1. PICK ids : ids = {b \in Bookmark : <<b, t>> \in Links(r) \ link}
      OBVIOUS
    <2>2. link \subseteq Links(r) /\ \A l \in Links(r) \ link : l[2] = t /\ bookmark[l[1]] # None
      BY <1>1, <1>2, <1>5 DEF TagsMany
    <2>3. \A l \in Links(r) \ link : l[1] \in ids /\ l = <<l[1], t>>
      BY <1>2, <2>1, <2>2
    <2>4. Links(r) = link \cup ids \X {t}
      <3>1. Links(r) \subseteq link \cup ids \X {t}
        BY <2>3
      <3>2. ids \X {t} \subseteq Links(r)
        BY <2>1
      <3> QED BY <2>2, <3>1, <3>2
    <2>5. ids \subseteq Whole!Present
      BY <2>1, <2>2 DEF Whole!Present
    <2>6. Whole!TagMany(t, n, ids)
      BY <1>2, <1>3, <1>4, <2>4, <2>5 DEF Whole!TagMany
    <2>7. ids \in SUBSET Bookmark
      BY <2>1
    <2> QED BY <1>2, <2>6, <2>7
  <1>6. CASE c.kind = "untag"
    <2>1. PICK ids : ids = {b \in Bookmark : <<b, t>> \in link \ Links(r)}
      OBVIOUS
    <2>2. Links(r) \subseteq link /\ \A l \in link \ Links(r) : l[2] = t
      BY <1>1, <1>2, <1>6 DEF TagsMany
    <2>3. \A l \in link \ Links(r) : l[1] \in ids /\ l = <<l[1], t>>
      BY <1>2, <2>1, <2>2
    <2>4. Links(r) = link \ (ids \X {t})
      <3>1. link \ Links(r) \subseteq ids \X {t}
        BY <2>3
      <3>2. (ids \X {t}) \cap Links(r) = {}
        BY <2>1
      <3> QED BY <2>2, <3>1, <3>2
    <2>5. Whole!UntagMany(t, n, ids)
      BY <1>2, <1>3, <1>4, <2>4 DEF Whole!UntagMany
    <2>6. ids \in SUBSET Bookmark
      BY <2>1
    <2> QED BY <1>2, <2>5, <2>6
  <1> QED BY <1>2, <1>5, <1>6

\* Statements of their own are whole requests.
LEMMA StatementsWhole ==
  ASSUME BaseInv, SqliteInv, NEW r \in Request,
         SetState(r) \/ EnhanceMetadata(r) \/ InsertTag(r) \/ RenameTag(r)
  PROVE  Whole!Next \/ UNCHANGED db
  <1>1. tag \in [Tag -> Name \cup {NoTag}] /\ call[r] \in Call
    BY SeenType DEF BaseInv, Types
  <1>2. CASE SetState(r)
    <2>1. PICK ids \in SUBSET Found(r) \ {{}}, archived \in BOOLEAN :
            /\ bookmark' = [b \in Bookmark |->
                 IF b \in ids THEN [bookmark[b] EXCEPT !.archived = archived] ELSE bookmark[b]]
            /\ UNCHANGED <<tag, link, job>> /\ call[r].at = "idle"
      BY <1>2 DEF SetState, Begins
    <2>2. Found(r) = Whole!Present /\ Whole!Present \subseteq Bookmark
      BY <2>1, SeesTables DEF BaseInv, Clean, Outside, Whole!Present
    <2>3. Whole!SetArchived(ids, archived) /\ ids \in SUBSET Bookmark
      BY <2>1, <2>2 DEF Whole!SetArchived
    <2> QED BY <2>3 DEF Whole!Next
  <1>3. CASE EnhanceMetadata(r)
    <2>1. PICK b \in Found(r) :
            /\ bookmark' = [bookmark EXCEPT ![b].title = IF @ = "" THEN "found" ELSE @]
            /\ UNCHANGED <<tag, link, job>> /\ call[r].at = "idle"
      BY <1>3 DEF EnhanceMetadata, Begins
    <2>2. Found(r) = Whole!Present /\ Whole!Present \subseteq Bookmark
      BY <2>1, SeesTables DEF BaseInv, Clean, Outside, Whole!Present
    <2>3. Whole!Enhance(b) /\ b \in Bookmark
      BY <2>1, <2>2 DEF Whole!Enhance
    <2> QED BY <2>3 DEF Whole!Next
  <1>4. CASE InsertTag(r)
    <2>1. PICK n \in call[r].names : /\ tag' = [tag EXCEPT ![serial.tag] = n]
                                     /\ serial.tag \in Tag /\ UNCHANGED <<bookmark, link, job>>
      BY <1>4 DEF InsertTag
    <2>2. n \in Name /\ tag[serial.tag] = NoTag
      <3>1. n \in Name
        BY <1>1, <2>1 DEF Call
      <3>2. serial.tag \in Nat
        BY <2>1, BookmarksAssumption DEF BookmarksAssumption
      <3> QED BY <2>1, <3>1, <3>2 DEF SqliteInv
    <2>3. Whole!NewTag(serial.tag, n)
      BY <2>1, <2>2 DEF Whole!NewTag
    <2> QED BY <2>1, <2>2, <2>3 DEF Whole!Next
  <1>5. CASE RenameTag(r)
    <2>1. PICK n \in call[r].names :
            /\ tag' = [tag EXCEPT ![call[r].t] = IF @ = NoTag THEN @ ELSE n]
            /\ UNCHANGED <<bookmark, link, job>> /\ call[r].at = "rename"
      BY <1>5 DEF RenameTag, At
    <2>2. n \in Name /\ call[r].t \in Tag
      BY <1>1, <2>1, KindOf DEF Call, BaseInv, Locals
    <2>3. CASE tag[call[r].t] = NoTag
      BY <1>1, <2>1, <2>2, <2>3 DEF db
    <2>4. CASE tag[call[r].t] # NoTag
      <3>1. Whole!RenameTag(call[r].t, n)
        BY <1>1, <2>1, <2>2, <2>4 DEF Whole!RenameTag
      <3> QED BY <2>2, <3>1 DEF Whole!Next
    <2> QED BY <2>3, <2>4
  <1> QED BY <1>2, <1>3, <1>4, <1>5

\* Every step is a whole request, or changes nothing that is committed.
LEMMA StepsWhole ==
  ASSUME BaseInv, SqliteInv, WholeInv, [Next]_vars
  PROVE  [Whole!Next]_db
  <1>1. CASE UNCHANGED vars
    BY <1>1 DEF vars, db
  <1>2. ASSUME NEW r \in Request, RequestStep(r) PROVE Whole!Next \/ UNCHANGED db
    <2>1. CASE Commit(r)
      <3>1. call[r].kind \in {"create", "form", "rest", "delete", "droptag", "merge", "tag", "untag"}
        BY <2>1, Commits, KindOf DEF Savers
      <3>2. CASE call[r].kind = "create"
        BY <2>1, <3>2, CommitsCreation DEF Whole!Next
      <3>3. CASE call[r].kind \in {"form", "rest"}
        BY <2>1, <3>3, CommitsEdit DEF Whole!Next
      <3>4. CASE call[r].kind \in {"delete", "droptag"}
        BY <2>1, <3>4, CommitsDeletion DEF Whole!Next
      <3>5. CASE call[r].kind = "merge"
        BY <2>1, <3>5, CommitsMerge DEF Whole!Next
      <3>6. CASE call[r].kind \in {"tag", "untag"}
        BY <2>1, <3>6, CommitsTagging DEF Whole!Next
      <3> QED BY <3>1, <3>2, <3>3, <3>4, <3>5, <3>6
    <2>2. CASE SetState(r) \/ EnhanceMetadata(r) \/ InsertTag(r) \/ RenameTag(r)
      BY <2>2, StatementsWhole
    <2>3. CASE Lookup(r) \/ InsertRow(r) \/ MergeIntoRow(r) \/ StartClear(r) \/ Clear(r)
                 \/ Attach(r) \/ Effects(r)
      BY <2>3, Zenon DEF Lookup, InsertRow, MergeIntoRow, StartClear, Clear, Attach, Effects
    <2>4. CASE ReadRow(r) \/ WriteRow(r) \/ KeepTags(r) \/ ResolveTag(r) \/ TagOne(r)
                 \/ Touch(r) \/ TaggedAll(r)
      BY <2>4, ZenonT(30) DEF ReadRow, WriteRow, KeepTags, ResolveTag, TagOne, Touch, TaggedAll
    <2>5. CASE DeleteRow(r) \/ DeleteTag(r) \/ Drop(r) \/ CheckNewTag(r) \/ CheckRename(r)
      BY <2>5, Zenon DEF DeleteRow, DeleteTag, Drop, CheckNewTag, CheckRename
    <2>6. CASE MergeTags(r) \/ ResolveMerged(r) \/ BeginMerge(r) \/ CopyLinks(r) \/ Abort(r)
      BY <2>6, Zenon DEF MergeTags, ResolveMerged, BeginMerge, CopyLinks, Abort
    <2> QED BY <1>2, <2>1, <2>2, <2>3, <2>4, <2>5, <2>6, Zenon DEF RequestStep
  <1> QED BY <1>1, <1>2, Zenon DEF Next

\* On SQLite whatever requests run at once, each has the effect of running alone on
\* the tables that are there when it commits, or none: the statements of Bookmarks,
\* interleaved and aborted in any way, implement the whole requests of WholeRequests.
THEOREM RequestsStayWhole ==
  ASSUME Sqlite
  PROVE  Spec => RequestsAreWhole
  <1>1. Init => WholeInv
    <2>1. Idle.at = "idle"
      BY DEF Idle
    <2> QED BY <2>1 DEF Init, WholeInv, InTx, Outside
  <1>2. BaseInv /\ SqliteInv /\ WholeInv /\ [Next]_vars => WholeInv'
    BY WholeStep
  <1>3. Init => Whole!Init
    BY DEF Init, Whole!Init
  <1>4. BaseInv /\ SqliteInv /\ WholeInv /\ [Next]_vars => [Whole!Next]_(Whole!vars)
    BY StepsWhole DEF db, Whole!vars
  <1> QED BY <1>1, <1>2, <1>3, <1>4, SqliteHolds, PTL DEF Spec, RequestsAreWhole, Whole!Spec
=============================================================================
