-------------------------------- MODULE Admin --------------------------------
(***************************************************************************)
(* The admin site (internal/httpserver/admin_*.go).  Every page reads the  *)
(* rows it is about before its transaction begins: that the row exists,    *)
(* what it holds, that the owner, the tags, the snapshot and the bookmark  *)
(* a form names exist, which rows a selection matches.  One transaction    *)
(* then writes the row or removes it with all that refers to it, together  *)
(* with the entry of the admin log; files are removed after the commit.    *)
(*                                                                         *)
(* Rows are identifiers of five kinds: users, bookmarks, tags, assets and  *)
(* items (bundles, toasts, API tokens: rows only their owner refers to).   *)
(* SQLite takes the write lock when a transaction begins, so a transaction *)
(* is one step, and checks foreign keys when it commits: a write that      *)
(* leaves a reference to a missing row is rolled back.  The deletions here *)
(* are NOT guarded by that check: References says they need no guard.      *)
(***************************************************************************)
EXTENDS Integers, FiniteSets, FiniteSetsExt

CONSTANTS
  User, Bookmark, Tag, Asset, Item,   \* identifiers of rows, by kind
  Fresh,      \* the identifiers no row has yet
  Staff,      \* the users that may open the site
  May,        \* the permissions of each of them: view, add, change, delete
  Owned,      \* what the rows may belong to at first
  Request,    \* requests in progress
  Null,
  MaxRequests \* bound: requests in a behaviour

Row == User \cup Bookmark \cup Tag \cup Asset \cup Item
Kinds == {User, Bookmark, Tag, Asset, Item}
KindOf(i) == CHOOSE K \in Kinds : i \in K

\* What a row belongs to: a user, or for an asset its bookmark.
Parents(K) == CASE K \in {Bookmark, Tag, Item} -> User
                [] K = Asset -> Bookmark
                [] OTHER -> {Null}

AdminAssumption ==
  /\ IsFiniteSet(Row)
  /\ User \cap (Bookmark \cup Tag \cup Asset \cup Item) = {}
  /\ Bookmark \cap (Tag \cup Asset \cup Item) = {}
  /\ Tag \cap (Asset \cup Item) = {} /\ Asset \cap Item = {}
  /\ Fresh \subseteq Row /\ Staff \subseteq User
  /\ May \in [Staff -> SUBSET {"view", "add", "change", "delete"}]
  /\ MaxRequests \in Nat /\ Null \notin Row
  /\ \A of \in Owned : DOMAIN of = Row \ Fresh /\
       \A i \in Row \ Fresh : of[i] \in Parents(KindOf(i)) \ Fresh

VARIABLES
  db,     \* the tables, changed by one transaction at a time
  files,  \* the assets whose file is on disk
  call,   \* what each request has read and is about to do
  left    \* requests that may still come
vars == <<db, files, call, left>>

\* A row: what it belongs to, the latest snapshot of a bookmark, and whether
\* a bookmark is marked (archived, or read).
Fields == [of : Row \cup {Null}, latest : Asset \cup {Null}, mark : BOOLEAN]
Idle == [op |-> "idle"]
Ids(d) == DOMAIN d.rows
Of(d, K, p) == {i \in K \cap Ids(d) : d.rows[i].of = p}

TypeOK ==
  /\ Ids(db) \subseteq Row
  /\ \A i \in Ids(db) : db.rows[i] \in Fields /\ db.rows[i].of \in Parents(KindOf(i))
  /\ db.links \subseteq Bookmark \X Tag
  /\ db.guest \in User \cup {Null}
  /\ \A e \in db.log : e.by \in User /\ e.id \in Row /\ e.did \in {"added", "changed", "deleted"}
  /\ db.unused \subseteq Fresh
  /\ files \subseteq Asset
  /\ \A r \in Request : call[r].op \in
       {"idle", "save", "delete", "selected", "users", "bookmarks", "remove"}
  /\ left \in 0 .. MaxRequests

Init ==
  /\ \E of \in Owned, links \in SUBSET ((Bookmark \ Fresh) \X (Tag \ Fresh)),
        latest \in [Bookmark \ Fresh -> (Asset \ Fresh) \cup {Null}] :
       db = [rows |-> [i \in Row \ Fresh |->
                        [of |-> of[i], mark |-> FALSE,
                         latest |-> IF i \in Bookmark THEN latest[i] ELSE Null]],
             links |-> links, guest |-> Null, log |-> {}, unused |-> Fresh]
  /\ files = Asset \ Fresh
  /\ call = [r \in Request |-> Idle]
  /\ left = MaxRequests

-----------------------------------------------------------------------------
(* The statements of the transactions. *)

\* No reference to a missing row: what the foreign keys of the tables demand.
Sound(d) ==
  /\ \A i \in Ids(d) : d.rows[i].of \in Ids(d) \cup {Null}
                    /\ d.rows[i].latest \in Ids(d) \cup {Null}
  /\ d.links \subseteq Ids(d) \X Ids(d)
  /\ d.guest \in Ids(d) \cup {Null}
  /\ \A e \in d.log : e.by \in Ids(d)

Logged(d, a, S, did) ==
  [d EXCEPT !.log = @ \cup {[by |-> a, id |-> i, did |-> did] : i \in S}]

\* Mutant: the identifier of a deleted row is given out again.
DeletedForReuse(d, S) == [d EXCEPT !.rows = [i \in Ids(d) \ S |-> @[i]], !.unused = @ \cup S]
Deleted(d, S) == [d EXCEPT !.rows = [i \in Ids(d) \ S |-> @[i]]]
\* Mutant: only of the bookmark that the asset belongs to.
NoOwnLatest(d, S) ==
  [d EXCEPT !.rows = [i \in Ids(d) |-> IF @[i].latest \in S /\ @[@[i].latest].of = i
                                       THEN [@[i] EXCEPT !.latest = Null] ELSE @[i]]]
NoLatest(d, S) ==
  [d EXCEPT !.rows = [i \in Ids(d) |-> IF @[i].latest \in S THEN [@[i] EXCEPT !.latest = Null] ELSE @[i]]]
Unlinked(d, B, T) == [d EXCEPT !.links = {l \in @ : l[1] \notin B /\ l[2] \notin T}]

AssetsDeleted(d, S) == Deleted(NoLatest(d, S), S)
TagsDeleted(d, S) == Deleted(Unlinked(d, {}, S), S)

\* DeleteDataTx: the caller's owner must still own the bookmark.
BookmarkDeleted(d, b) == Deleted(AssetsDeleted(Unlinked(d, {b}, {}), Of(d, Asset, b)), {b})

RowDeleted(d, i) == CASE i \in Bookmark -> BookmarkDeleted(d, i)
                      [] i \in Asset -> AssetsDeleted(d, {i})
                      [] i \in Tag -> TagsDeleted(d, {i})
                      [] OTHER -> Deleted(d, {i})
\* The files that go with a row: a bookmark takes its assets along.
\* Mutant: it is asked for them when they are gone.
OwnFile(i) == {i} \cap Asset
FilesOf(i) == IF i \in Bookmark THEN Of(db, Asset, i) ELSE {i} \cap Asset

UserAssets(d, u) == UNION {Of(d, Asset, b) : b \in Of(d, Bookmark, u)}

\* deleteAdminUserDataTx.
UserDeleted(d, u) ==
  LET noGuest  == [d EXCEPT !.guest = IF @ = u THEN Null ELSE @]
      noLinks  == Unlinked(noGuest, Of(d, Bookmark, u), Of(d, Tag, u))
      noAssets == AssetsDeleted(noLinks, UserAssets(d, u))
      noRows   == Deleted(noAssets, Of(d, Bookmark, u) \cup Of(d, Tag, u) \cup Of(d, Item, u) \cup {u})
  IN [noRows EXCEPT !.log = {e \in @ : e.by # u}]

\* deleteAdminUsersData: the entries of the log come before any deletion.
UsersDeleted(d, a, S) ==
  FoldSet(LAMBDA u, e : UserDeleted(e, u), Logged(d, a, S, "deleted"), S)

-----------------------------------------------------------------------------
(* The confirmation page of a deletion of users.                           *)

\* Mutant: a relation is shown once for its tag and once for its bookmark.
RelatedAgain(shown, L) ==
  [seen |-> shown.seen \cup L, count |-> shown.count + Cardinality(L)]
\* adminBookmarkTagDeletionNodes: relations already shown are not shown again.
Related(shown, L) ==
  [seen |-> shown.seen \cup L, count |-> shown.count + Cardinality(L \ shown.seen)]

\* adminUserDeletionGraph: user by user, the tags before the bookmarks.
RelationsOf(d, u, shown) ==
  LET tags == FoldSet(LAMBDA t, s : Related(s, {l \in d.links : l[2] = t}), shown, Of(d, Tag, u))
  IN FoldSet(LAMBDA b, s : Related(s, {l \in d.links : l[1] = b}), tags, Of(d, Bookmark, u))
DeletionGraph(d, S) ==
  [users     |-> Cardinality(S),
   tags      |-> Cardinality(UNION {Of(d, Tag, u) : u \in S}),
   relations |-> FoldSet(LAMBDA u, s : RelationsOf(d, u, s), [seen |-> {}, count |-> 0], S).count,
   bookmarks |-> Cardinality(UNION {Of(d, Bookmark, u) : u \in S}),
   assets    |-> Cardinality(UNION {UserAssets(d, u) : u \in S}),
   items     |-> Cardinality(UNION {Of(d, Item, u) : u \in S}),
   entries   |-> Cardinality({e \in d.log : e.by \in S})]

-----------------------------------------------------------------------------
(* Requests: what each reads before its transaction.                       *)

\* serveAdmin and loadAdminPermissions: the session of an active staff user.
Arrives(r, a, need) ==
  /\ call[r] = Idle /\ left > 0
  /\ a \in Staff \cap Ids(db)
  /\ need \in May[a]
  /\ left' = left - 1
  /\ UNCHANGED <<db, files>>
\* The list pages also want the permission to list.
CanList(a) == May[a] \cap {"view", "change"} # {}

\* What the form of each model accepts: every row it names must exist.  The form
\* of a bookmark takes any tags, at least one, and any asset, whoever owns them.
Form(of, latest, tags) == [of : of \cap (Ids(db) \cup {Null}), latest : latest, tags : tags]
UserForm == Form({Null}, {Null}, {{}})
BookmarkForm == Form(User, (Asset \cap Ids(db)) \cup {Null}, SUBSET (Tag \cap Ids(db)) \ {{}})
TagForm == Form(User, {Null}, {{}})
AssetForm == Form(Bookmark, {Null}, {{}})
ItemForm == Form(User, {Null}, {{}})
FormOf(K) == CASE K = User -> UserForm [] K = Bookmark -> BookmarkForm [] K = Tag -> TagForm
               [] K = Asset -> AssetForm [] K = Item -> ItemForm

\* A form of a new row, or of row i.
OpenForm(r, a, K, i) ==
  /\ Arrives(r, a, IF i = Null THEN "add" ELSE "change")
  /\ i # Null => i \in K \cap Ids(db)
  /\ \E f \in FormOf(K) :
       call' = [call EXCEPT ![r] =
         [op |-> "save", by |-> a, id |-> i, kind |-> K, tags |-> f.tags,
          row |-> [of |-> f.of, latest |-> f.latest, mark |-> FALSE]]]

\* The deletion page of one row, confirmed; the owner of a bookmark is read here.
OpenDeletion(r, a, i) ==
  /\ Arrives(r, a, "delete")
  /\ i \in Ids(db)
  /\ call' = [call EXCEPT ![r] =
       IF i \in User THEN [op |-> "users", by |-> a, ids |-> {i}]
       ELSE [op |-> "delete", by |-> a, id |-> i, of |-> db.rows[i].of]]

\* The actions on a selection: the rows it matches are read first.
SelectRows(r, a, S) ==
  /\ Arrives(r, a, "delete") /\ CanList(a)
  /\ S # {} /\ S \subseteq Ids(db)
  /\ \E K \in {User, Tag, Asset, Item} :
       /\ S \subseteq K
       /\ call' = [call EXCEPT ![r] =
            [op |-> IF K = User THEN "users" ELSE "selected", by |-> a, ids |-> S]]

SelectBookmarks(r, a, S) ==
  /\ Arrives(r, a, "delete") /\ CanList(a)
  /\ S # {} /\ S \subseteq Bookmark \cap Ids(db)
  /\ \E what \in {"delete", "mark", "unmark"} :
       call' = [call EXCEPT ![r] =
         [op |-> "bookmarks", what |-> what,
          todo |-> {[id |-> b, of |-> db.rows[b].of] : b \in S}]]

\* delete_unused_tags: one statement, selection and check included.
DeleteUnused(r, a, S) ==
  /\ call[r] = Idle /\ left > 0
  /\ a \in Staff \cap Ids(db) /\ CanList(a)
  /\ LET unused == {t \in S \cap Tag \cap Ids(db) : \A l \in db.links : l[2] # t}
     IN db' = Deleted(db, unused)
  /\ left' = left - 1
  /\ UNCHANGED <<files, call>>

-----------------------------------------------------------------------------
(* Transactions. *)

Ends(r, F) ==
  call' = [call EXCEPT ![r] = IF F = {} THEN Idle ELSE [op |-> "remove", files |-> F]]
Fails(r) == call' = [call EXCEPT ![r] = Idle] /\ UNCHANGED db

\* The commit of a write: rolled back when it leaves a dangling reference.
Commit(r, d) == IF Sound(d) THEN db' = d /\ Ends(r, {}) ELSE Fails(r)

\* An UPDATE of a row that is gone changes nothing but the log, and the tags
\* written for it are refused by the foreign key.
Save(r) ==
  LET c == call[r] IN
  /\ c.op = "save"
  /\ IF c.id = Null
     THEN \E i \in db.unused \cap c.kind :
            LET rows == [k \in Ids(db) \cup {i} |-> IF k = i THEN c.row ELSE db.rows[k]] IN
            Commit(r, Logged([db EXCEPT !.rows = rows, !.unused = @ \ {i},
                                        !.links = @ \cup ({i} \X c.tags)], c.by, {i}, "added"))
     ELSE LET written == IF c.id \in Ids(db) THEN [db EXCEPT !.rows[c.id] = c.row] ELSE db
              linked  == IF c.kind # Bookmark THEN written
                         ELSE [Unlinked(written, {c.id}, {}) EXCEPT !.links = @ \cup ({c.id} \X c.tags)]
          IN Commit(r, Logged(linked, c.by, {c.id}, "changed"))
  /\ UNCHANGED <<files, left>>

\* Mutant: the entry of the log is written outside the transaction.
DeleteLoggedFirst(r) ==
  LET c == call[r]
      entered == Logged(db, c.by, {c.id}, "deleted")
      his == c.id \in Bookmark => c.id \in Ids(db) /\ db.rows[c.id].of = c.of IN
  /\ c.op = "delete"
  /\ IF c.by \notin Ids(db) THEN Fails(r)
     ELSE IF his THEN db' = RowDeleted(entered, c.id) /\ Ends(r, FilesOf(c.id))
     ELSE db' = entered /\ Ends(r, {})
  /\ UNCHANGED <<files, left>>
\* One row: an actor who was deleted meanwhile cannot be named in the log, and
\* a bookmark must be there and have the owner that was read.
Delete(r) ==
  LET c == call[r]
      entered == Logged(db, c.by, {c.id}, "deleted")
      his == c.id \in Bookmark => c.id \in Ids(db) /\ db.rows[c.id].of = c.of IN
  /\ c.op = "delete"
  /\ IF c.by \in Ids(db) /\ his THEN db' = RowDeleted(entered, c.id) /\ Ends(r, FilesOf(c.id))
                                ELSE Fails(r)
  /\ UNCHANGED <<files, left>>

\* deleteAdminDefaultSelection and serveAdminTagDeleteSelected.
DeleteSelected(r) ==
  LET c == call[r]
      entered == Logged(db, c.by, c.ids, "deleted") IN
  /\ c.op = "selected"
  /\ IF c.by \notin Ids(db) THEN Fails(r)
     ELSE CASE c.ids \subseteq Asset -> db' = AssetsDeleted(entered, c.ids) /\ Ends(r, c.ids)
            [] c.ids \subseteq Tag -> db' = TagsDeleted(entered, c.ids) /\ Ends(r, {})
            [] OTHER -> db' = Deleted(entered, c.ids) /\ Ends(r, {})
  /\ UNCHANGED <<files, left>>

\* All the users of a request go, or none: one that is gone already ends it.
DeleteUsers(r) ==
  LET c == call[r] IN
  /\ c.op = "users"
  /\ IF c.by \in Ids(db) /\ c.ids \subseteq Ids(db)
     THEN db' = UsersDeleted(db, c.by, c.ids) /\ Ends(r, UNION {UserAssets(db, u) : u \in c.ids})
     ELSE Fails(r)
  /\ UNCHANGED <<files, left>>

\* serveAdminBookmarkAction: one transaction for each bookmark, files included;
\* a bookmark that is gone, or has another owner, ends a deletion half-way.
NextBookmark(r) ==
  LET c == call[r] IN
  /\ c.op = "bookmarks"
  /\ \E t \in c.todo :
       LET more == IF c.todo = {t} THEN Idle ELSE [c EXCEPT !.todo = @ \ {t}]
           here == t.id \in Ids(db) IN
       /\ call' = [call EXCEPT ![r] =
                     IF c.what = "delete" /\ ~(here /\ db.rows[t.id].of = t.of) THEN Idle ELSE more]
       /\ IF c.what = "delete"
          THEN IF here /\ db.rows[t.id].of = t.of
               THEN db' = BookmarkDeleted(db, t.id) /\ files' = files \ Of(db, Asset, t.id)
               ELSE UNCHANGED <<db, files>>
          ELSE /\ db' = IF here THEN [db EXCEPT !.rows[t.id].mark = (c.what = "mark")] ELSE db
               /\ UNCHANGED files
  /\ UNCHANGED left

\* removeStoredFile, after the commit.
RemoveFiles(r) ==
  /\ call[r].op = "remove"
  /\ files' = files \ call[r].files
  /\ call' = [call EXCEPT ![r] = Idle]
  /\ UNCHANGED <<db, left>>

\* The settings page of a superuser names the guest (settings/global.go).
NameGuest(a, u) ==
  /\ a \in Staff \cap Ids(db) /\ left > 0
  /\ u \in User \cap Ids(db)
  /\ db' = [db EXCEPT !.guest = u]
  /\ left' = left - 1
  /\ UNCHANGED <<files, call>>

Next ==
  \/ \E r \in Request, a \in Staff :
       \/ \E K \in Kinds, i \in Row \cup {Null} : OpenForm(r, a, K, i)
       \/ \E i \in Row : OpenDeletion(r, a, i)
       \/ \E S \in UNION {SUBSET K : K \in Kinds} :
            SelectRows(r, a, S) \/ SelectBookmarks(r, a, S)
       \/ \E S \in SUBSET Tag : DeleteUnused(r, a, S)
  \/ \E r \in Request :
       Save(r) \/ Delete(r) \/ DeleteSelected(r) \/ DeleteUsers(r) \/ NextBookmark(r) \/ RemoveFiles(r)
  \/ \E a, u \in User : NameGuest(a, u)

Spec == Init /\ [][Next]_vars

-----------------------------------------------------------------------------
(* Properties. *)

\* Every deletion takes along all that refers to the rows it removes, also the
\* tags and the snapshots that the form of a bookmark borrowed from another
\* user (admin_user_delete.go:178-194, delete.go:60-68): no foreign key would
\* refuse it.
References == Sound(db)

\* An entry of the log that says a row was deleted is true, also when the row
\* changed hands or its deletion failed half-way (admin_log.go:11,
\* admin_bookmark.go:195-221).
LoggedDeletionIsReal == \A e \in db.log : e.did = "deleted" => e.id \notin Ids(db)

\* No asset loses its file while its row stays, and once no request is in
\* progress no file is left of an asset that is gone, whichever page removed
\* the asset, its bookmark or its owner (admin_user_delete.go:75-80,
\* admin_bookmark_actions.go:107-116, admin_default_actions.go:219-223).
FilesFollowRows ==
  /\ (Asset \cap Ids(db)) \ Fresh \subseteq files
  /\ (\A r \in Request : call[r] = Idle) => files \subseteq Ids(db)

\* The page that asks to confirm the deletion of users counts exactly the rows
\* the deletion then removes, each relation once though it belongs to a tag
\* and to a bookmark (admin_user_deletion_graph.go:20-104).  Whoever asks is
\* a request that has not begun.
GraphIsDeletion ==
  (\E r \in Request : call[r] = Idle) =>
  \A S \in SUBSET (User \cap Ids(db)) :
    LET after == UsersDeleted([db EXCEPT !.log = {}], Null, S)
        gone(K) == Cardinality(K \cap Ids(db)) - Cardinality(K \cap Ids(after))
        entries == Cardinality(db.log) - Cardinality({e \in db.log : e.by \notin S})
    IN S # {} => DeletionGraph(db, S) =
         [users |-> gone(User), tags |-> gone(Tag), bookmarks |-> gone(Bookmark),
          assets |-> gone(Asset), items |-> gone(Item), entries |-> entries,
          relations |-> Cardinality(db.links) - Cardinality(after.links)]
=============================================================================
