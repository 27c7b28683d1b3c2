----------------------------- MODULE Bookmarks -----------------------------
(***************************************************************************)
(* The bookmarks and tags of one owner, and the requests that write them:   *)
(* internal/bookmarks (create or update, edit, bulk changes, delete) and    *)
(* the tag pages and API of internal/httpserver (create, rename, merge,     *)
(* delete).                                                                 *)
(*                                                                          *)
(* A request is a sequence of SQL statements, inside a transaction or not.  *)
(* The statements of a transaction see what others have committed when they *)
(* start, and the transaction's own changes, which are its patch.  On       *)
(* SQLite a transaction takes the one write lock when it begins (_txlock =  *)
(* immediate, internal/store/dsn.go); on PostgreSQL, at READ COMMITTED,     *)
(* only rows that are written or selected FOR UPDATE are locked, and a      *)
(* statement waits for the rows it needs.  Foreign keys are checked at the  *)
(* commit (DEFERRABLE INITIALLY DEFERRED in both schemas).                  *)
(*                                                                          *)
(* A name stands for all spellings that differ in case only.  Bookmarks of  *)
(* another owner, and rows without a normalized URL (which old databases    *)
(* may hold), are left out.                                                 *)
(***************************************************************************)
EXTENDS Integers, FiniteSets

CONSTANTS
  Bookmark,    \* ids of bookmarks: 1..n, in the order of the sequence
  Tag,         \* ids of tags: 1..n
  URL,
  Norm,        \* NormalizeURL
  Name,        \* tag names
  Parts,       \* what each is split into by ParseTagString: {n} for most names n,
               \* others for the names with a comma that the tag pages allow
  AutoTags,    \* the names the auto-tagging rules give each URL
  Request,     \* concurrent requests, each with one call at a time
  Engine,      \* cfg.DBEngine
  Kinds,       \* the calls that requests make
  RestFields   \* the sets of fields that PUT and PATCH requests give

Fields == {"url", "title", "archived", "names"}

ASSUME BookmarksAssumption ==
  /\ Bookmark \subseteq Nat \ {0} /\ Tag \subseteq Nat \ {0}
  /\ DOMAIN Norm = URL
  /\ "" \notin URL /\ "" \notin Name      \* requests without a URL or a tag name are refused
  /\ AutoTags \in [URL -> SUBSET Name] /\ Parts \in [Name -> SUBSET Name]
  /\ Engine \in {"sqlite", "postgres"}
  /\ Kinds \subseteq {"create", "form", "rest", "tag", "untag", "state", "enhance",
                      "delete", "newtag", "rename", "droptag", "merge"}
  /\ RestFields \subseteq SUBSET Fields

VARIABLES
  bookmark,   \* committed rows of bookmarks_bookmark
  tag,        \* committed names in bookmarks_tag
  link,       \* committed rows of bookmarks_bookmark_tags
  job,        \* jobs ever queued, as <<bookmark, kind>>
  serial,     \* the next ids
  call,       \* the local variables of each request
  patch       \* the uncommitted changes of each request

db == <<bookmark, tag, link, job>>
vars == <<bookmark, tag, link, job, serial, call, patch>>

None == [url |-> "", title |-> "", archived |-> FALSE]   \* no row
NoTag == ""                                              \* no row

Row == [url: URL, title: {"", "given", "found"}, archived: BOOLEAN]
JobKind == {"load", "archive", "snapshot"}
Link == Bookmark \X Tag

Patch == [bookmark |-> [b \in {} |-> None], tag |-> [t \in {} |-> NoTag],
          add |-> {}, del |-> {}, job |-> {}, locks |-> {}]

Idle == [kind |-> "none", at |-> "idle", b |-> 0, t |-> 0, url |-> "", row |-> None,
         given |-> {}, names |-> {}, ids |-> {}, seen |-> {}]
Outside == {"idle", "insert", "rename", "resolve", "begin"}   \* not in a transaction

\* f with the changes g.
Over(g, f) == [z \in DOMAIN f |-> IF z \in DOMAIN g THEN g[z] ELSE f[z]]
Put(f, x, y) == [z \in DOMAIN f \cup {x} |-> IF z = x THEN y ELSE f[z]]
\* ParseTagString of the names, joined with commas.  What a request gives is
\* plain: the parts of another name do the same.
Parsed(names) == UNION {Parts[n] : n \in names}
Plain == {n \in Name : Parts[n] = {n}}
Least(S) == CHOOSE n \in S : \A m \in S : n <= m

(***************************************************************************)
(* What request r sees, and what others keep locked.                        *)
(***************************************************************************)
Rows(r) == Over(patch[r].bookmark, bookmark)
Tags(r) == Over(patch[r].tag, tag)
Links(r) == (link \ patch[r].del) \cup patch[r].add
Found(r) == {b \in Bookmark : Rows(r)[b] # None}
Named(r, n) == {t \in Tag : Tags(r)[t] = n}
NamesOf(r, b) == {Tags(r)[l[2]] : l \in {k \in Links(r) : k[1] = b}}

Others(r) == Request \ {r}
InTx(r) == call[r].at \notin Outside

\* The write lock of SQLite is free, or r holds it.
Turn(r) == Engine = "sqlite" => \A q \in Others(r) : ~InTx(q)
FreeRow(r, b) == \A q \in Others(r) : b \notin patch[q].locks
FreeTag(r, t) == \A q \in Others(r) : t \notin DOMAIN patch[q].tag
FreeLink(r, l) == \A q \in Others(r) : l \notin patch[q].add \cup patch[q].del

Begins(r, kind) == /\ kind \in Kinds /\ call[r].at = "idle" /\ Turn(r)
At(r, place) == call[r].at = place
Goto(r, c) == call' = [call EXCEPT ![r] = c]
Ends(r) == call' = [call EXCEPT ![r] = Idle]
Writes(r, p) == patch' = [patch EXCEPT ![r] = p]

Init ==
  /\ bookmark = [b \in Bookmark |-> None]
  /\ tag = [t \in Tag |-> NoTag]
  /\ link = {} /\ job = {}
  /\ serial = [bookmark |-> 1, tag |-> 1]
  /\ call = [r \in Request |-> Idle]
  /\ patch = [r \in Request |-> Patch]

-----------------------------------------------------------------------------
(***************************************************************************)
(* CreateOrUpdateData.                                                      *)
(***************************************************************************)
\* existingURLLookup: the oldest bookmark with this normalized URL.
Same(r, url) == {b \in Found(r) : Norm[Rows(r)[b].url] = Norm[url]}

\* Broken on purpose (mutant): a deferred transaction, without the write lock.
LookupDeferred(r) ==
  \E url \in URL, names \in SUBSET Plain :
    /\ "create" \in Kinds /\ At(r, "idle")
    /\ LET same == Same(r, url)
           b == IF same = {} THEN 0 ELSE Least(same)
       IN Goto(r, [Idle EXCEPT !.kind = "create", !.at = "save", !.b = b, !.names = names,
                               !.url = IF b = 0 THEN url ELSE Rows(r)[b].url])
    /\ UNCHANGED <<db, serial, patch>>

Lookup(r) ==
  \E url \in URL, names \in SUBSET Plain :
    /\ Begins(r, "create")
    /\ LET same == Same(r, url)
           b == IF same = {} THEN 0 ELSE Least(same)
       IN Goto(r, [Idle EXCEPT !.kind = "create", !.at = "save", !.b = b, !.names = names,
                               !.url = IF b = 0 THEN url ELSE Rows(r)[b].url])
    /\ UNCHANGED <<db, serial, patch>>

InsertRow(r) ==
  /\ At(r, "save") /\ call[r].b = 0
  /\ serial.bookmark \in Bookmark
  /\ LET b == serial.bookmark
         new == [url |-> call[r].url, title |-> "given", archived |-> FALSE]
     IN /\ Writes(r, [patch[r] EXCEPT !.bookmark = Put(@, b, new), !.locks = @ \cup {b}])
        /\ Goto(r, [call[r] EXCEPT !.at = "clear", !.b = b, !.given = {"new"},
                                   !.names = Parsed(@ \cup AutoTags[call[r].url])])
  /\ serial' = [serial EXCEPT !.bookmark = @ + 1]
  /\ UNCHANGED db

\* The row may be gone by now: then the UPDATE changes nothing and goes on.
MergeIntoRow(r) ==
  LET b == call[r].b IN
  /\ At(r, "save") /\ b # 0
  /\ FreeRow(r, b)
  /\ IF b \in Found(r)
     THEN Writes(r, [patch[r] EXCEPT !.bookmark = Put(@, b, [Rows(r)[b] EXCEPT !.title = "given"]),
                                     !.locks = @ \cup {b}])
     ELSE UNCHANGED patch
  /\ Goto(r, [call[r] EXCEPT !.at = "clear", !.names = Parsed(@ \cup AutoTags[call[r].url])])
  /\ UNCHANGED <<db, serial>>

(***************************************************************************)
(* replaceTags.  A DELETE takes the links that were committed when it       *)
(* started, and waits for those that another transaction is changing.       *)
(***************************************************************************)
Doomed(r) ==
  {l \in Links(r) : IF call[r].kind \in {"droptag", "merge"} THEN l[2] = call[r].t
                                                             ELSE l[1] = call[r].b}

StartClear(r) ==
  /\ At(r, "clear")
  /\ Goto(r, [call[r] EXCEPT !.at = "clearing", !.seen = Doomed(r)])
  /\ UNCHANGED <<db, serial, patch>>

Clear(r) ==
  LET seen == call[r].seen IN
  /\ At(r, "clearing")
  /\ \A l \in seen : FreeLink(r, l)
  /\ Writes(r, [patch[r] EXCEPT !.add = @ \ seen, !.del = @ \cup (seen \cap link)])
  /\ Goto(r, [call[r] EXCEPT !.seen = {},
                !.at = IF call[r].kind \in {"create", "form", "rest"} THEN "attach" ELSE "drop"])
  /\ UNCHANGED <<db, serial>>

\* Get or create: the tag with name n, and the patch once it is there.
TagFor(r, n) == IF Named(r, n) = {} THEN serial.tag ELSE Least(Named(r, n))
WithTag(r, n) == IF Named(r, n) = {} THEN [patch[r] EXCEPT !.tag = Put(@, serial.tag, n)]
                                     ELSE patch[r]
CountsTag(r, n) == serial' = IF Named(r, n) = {} THEN [serial EXCEPT !.tag = @ + 1] ELSE serial

\* One round of the loop.  A link that exists already breaks the unique
\* index: then only Abort is left.
Attach(r) ==
  LET n == CHOOSE m \in call[r].names : TRUE
      l == <<call[r].b, TagFor(r, n)>>
  IN
  /\ At(r, "attach") /\ call[r].names # {}
  /\ TagFor(r, n) \in Tag
  /\ l \notin Links(r) /\ FreeLink(r, l)
  /\ Writes(r, [WithTag(r, n) EXCEPT !.add = @ \cup {l}])
  /\ CountsTag(r, n)
  /\ Goto(r, [call[r] EXCEPT !.names = @ \ {n}])
  /\ UNCHANGED db

\* Broken on purpose (mutant): jobs queued through the pool, not the transaction.
EffectsOutside(r) ==
  /\ At(r, "attach") /\ call[r].names = {}
  /\ job' = job \cup {call[r].b} \X JobKind
  /\ Goto(r, [call[r] EXCEPT !.at = "commit"])
  /\ UNCHANGED <<bookmark, tag, link, serial, patch>>

\* enqueueTaskEffects, with every integration enabled.
Effects(r) ==
  LET kinds == {"load"} \cup (IF "new" \in call[r].given THEN JobKind ELSE {})
                 \cup (IF call[r].row # None /\ call[r].row.url # call[r].url THEN {"archive"} ELSE {})
  IN
  /\ At(r, "attach") /\ call[r].names = {}
  /\ Writes(r, [patch[r] EXCEPT !.job = {call[r].b} \X kinds])
  /\ Goto(r, [call[r] EXCEPT !.at = "commit"])
  /\ UNCHANGED <<db, serial>>

\* tx.Commit: no link may lack its bookmark or tag.
Commit(r) ==
  /\ At(r, "commit")
  /\ \A l \in Links(r) : Rows(r)[l[1]] # None /\ Tags(r)[l[2]] # NoTag
  /\ bookmark' = Rows(r) /\ tag' = Tags(r) /\ link' = Links(r)
  /\ job' = job \cup patch[r].job
  /\ Writes(r, Patch) /\ Ends(r)
  /\ UNCHANGED serial

\* Broken on purpose (mutant): no rollback.
AbortWithoutRollback(r) == InTx(r) /\ Ends(r) /\ UNCHANGED <<db, serial, patch>>

\* An error of a statement or of the commit, a deadlock, a cancelled request.
Abort(r) ==
  /\ InTx(r)
  /\ Writes(r, Patch) /\ Ends(r)
  /\ UNCHANGED <<db, serial>>

-----------------------------------------------------------------------------
(***************************************************************************)
(* UpdateData.  The UI form gives URL, title and tags and looks for the new *)
(* URL by its normalized form; the API gives any fields and looks for the   *)
(* exact URL.                                                               *)
(***************************************************************************)
Edits(kind) == IF kind = "form" THEN {{"url", "title", "names"}} ELSE RestFields

\* Broken on purpose (mutant): the row is read before the transaction.
ReadRowEarly(r) ==
  \E kind \in {"form", "rest"} \cap Kinds :
  \E b \in Found(r), given \in Edits(kind), names \in SUBSET Plain, url \in URL :
    /\ At(r, "idle")
    /\ "names" \notin given => names = {}
    /\ "url" \notin given => url = Rows(r)[b].url
    /\ Goto(r, [Idle EXCEPT !.kind = kind, !.at = "edit", !.b = b, !.given = given,
                            !.names = names, !.url = url, !.row = Rows(r)[b]])
    /\ UNCHANGED <<db, serial, patch>>

ReadRow(r) ==
  \E kind \in {"form", "rest"} :
  \E b \in Found(r), given \in Edits(kind), names \in SUBSET Plain, url \in URL :
    /\ Begins(r, kind)
    /\ FreeRow(r, b)
    /\ "names" \notin given => names = {}
    /\ "url" \notin given => url = Rows(r)[b].url
    /\ Writes(r, [patch[r] EXCEPT !.locks = {b}])
    /\ Goto(r, [Idle EXCEPT !.kind = kind, !.at = "edit", !.b = b, !.given = given,
                            !.names = names, !.url = url, !.row = Rows(r)[b]])
    /\ UNCHANGED <<db, serial>>

Duplicate(r) ==
  \E b \in Found(r) \ {call[r].b} :
    IF call[r].kind = "rest" THEN Rows(r)[b].url = call[r].url
                             ELSE Norm[Rows(r)[b].url] = Norm[call[r].url]

\* ErrDuplicateURL is left to Abort.
WriteRow(r) ==
  /\ At(r, "edit")
  /\ ~ ("url" \in call[r].given /\ Duplicate(r))
  /\ \E archived \in BOOLEAN :
       /\ "archived" \notin call[r].given => archived = call[r].row.archived
       /\ Writes(r, [patch[r] EXCEPT !.bookmark =
            Put(@, call[r].b, [url |-> call[r].url, archived |-> archived,
                               title |-> IF "title" \in call[r].given THEN "given"
                                                                      ELSE call[r].row.title])])
  /\ Goto(r, [call[r] EXCEPT !.at = "tags"])
  /\ UNCHANGED <<db, serial>>

\* Broken on purpose (mutant): tags that are not given are taken for none.
KeepGivenTags(r) ==
  /\ At(r, "tags")
  /\ Goto(r, [call[r] EXCEPT !.at = "clear", !.names = Parsed(@ \cup AutoTags[call[r].url])])
  /\ UNCHANGED <<db, serial, patch>>

\* Without tag names the bookmark keeps those it has, joined and parsed again.
KeepTags(r) ==
  LET kept == IF "names" \in call[r].given THEN call[r].names ELSE NamesOf(r, call[r].b) IN
  /\ At(r, "tags")
  /\ Goto(r, [call[r] EXCEPT !.at = "clear", !.names = Parsed(kept \cup AutoTags[call[r].url])])
  /\ UNCHANGED <<db, serial, patch>>

(***************************************************************************)
(* Changes of a single statement: SetState, SetArchived, update_state and   *)
(* EnhanceMetadata.                                                         *)
(***************************************************************************)
SetState(r) ==
  \E ids \in SUBSET Found(r) \ {{}}, archived \in BOOLEAN :
    /\ Begins(r, "state")
    /\ \A b \in ids : FreeRow(r, b)
    /\ bookmark' = [b \in Bookmark |->
                      IF b \in ids THEN [bookmark[b] EXCEPT !.archived = archived] ELSE bookmark[b]]
    /\ UNCHANGED <<tag, link, job, serial, call, patch>>

EnhanceMetadata(r) ==
  \E b \in Found(r) :
    /\ Begins(r, "enhance")
    /\ FreeRow(r, b)
    /\ bookmark' = [bookmark EXCEPT ![b].title = IF @ = "" THEN "found" ELSE @]
    /\ UNCHANGED <<tag, link, job, serial, call, patch>>

(***************************************************************************)
(* TagMany, bulk_tag and bulk_untag, with one tag name.  The last statement *)
(* on a bookmark writes its row (date_modified).                            *)
(***************************************************************************)
\* Broken on purpose (mutant): the tag is resolved before the write lock.
ResolveTagEarly(r) ==
  \E kind \in {"tag", "untag"} \cap Kinds, n \in Plain, ids \in (SUBSET Bookmark) \ {{}} :
    /\ At(r, "idle")
    /\ TagFor(r, n) \in Tag
    /\ Writes(r, WithTag(r, n)) /\ CountsTag(r, n)
    /\ Goto(r, [Idle EXCEPT !.kind = kind, !.at = "each", !.t = TagFor(r, n), !.ids = ids])
    /\ UNCHANGED db

ResolveTag(r) ==
  \E kind \in {"tag", "untag"}, n \in Plain, ids \in (SUBSET Bookmark) \ {{}} :
    /\ Begins(r, kind)
    /\ TagFor(r, n) \in Tag
    /\ Writes(r, WithTag(r, n)) /\ CountsTag(r, n)
    /\ Goto(r, [Idle EXCEPT !.kind = kind, !.at = "each", !.t = TagFor(r, n), !.ids = ids])
    /\ UNCHANGED db

TagOne(r) ==
  LET b == Least(call[r].ids)
      l == <<b, call[r].t>>
  IN
  /\ At(r, "each") /\ call[r].ids # {}
  /\ IF b \in Found(r)
     THEN /\ FreeLink(r, l)
          /\ Writes(r, IF call[r].kind = "tag"
                       THEN [patch[r] EXCEPT !.add = IF l \in Links(r) THEN @ ELSE @ \cup {l}]
                       ELSE [patch[r] EXCEPT !.del = @ \cup ({l} \cap link), !.add = @ \ {l}])
          /\ Goto(r, [call[r] EXCEPT !.at = "touch", !.b = b, !.ids = @ \ {b}])
     ELSE /\ Goto(r, [call[r] EXCEPT !.ids = @ \ {b}])
          /\ UNCHANGED patch
  /\ UNCHANGED <<db, serial>>

Touch(r) ==
  /\ At(r, "touch") /\ FreeRow(r, call[r].b)
  /\ Writes(r, [patch[r] EXCEPT !.locks = @ \cup {call[r].b}])
  /\ Goto(r, [call[r] EXCEPT !.at = "each"])
  /\ UNCHANGED <<db, serial>>

TaggedAll(r) ==
  /\ At(r, "each") /\ call[r].ids = {}
  /\ Goto(r, [call[r] EXCEPT !.at = "commit"])
  /\ UNCHANGED <<db, serial, patch>>

(***************************************************************************)
(* DeleteDataTx and deleteTag.  Assets are in the module Snapshots.         *)
(***************************************************************************)
DeleteRow(r) ==
  \E b \in Found(r) :
    /\ Begins(r, "delete") /\ FreeRow(r, b)
    /\ Writes(r, [patch[r] EXCEPT !.locks = {b}])
    /\ Goto(r, [Idle EXCEPT !.kind = "delete", !.at = "clear", !.b = b])
    /\ UNCHANGED <<db, serial>>

DeleteTag(r) ==
  \E t \in Tag :
    /\ Begins(r, "droptag") /\ Tags(r)[t] # NoTag
    /\ Goto(r, [Idle EXCEPT !.kind = "droptag", !.at = "clear", !.t = t])
    /\ UNCHANGED <<db, serial, patch>>

Drop(r) ==
  LET ids == call[r].ids \ {call[r].t} IN
  /\ At(r, "drop")
  /\ IF call[r].kind = "delete"
     THEN Writes(r, [patch[r] EXCEPT !.bookmark = Put(@, call[r].b, None)])
     ELSE /\ FreeTag(r, call[r].t)
          /\ Writes(r, [patch[r] EXCEPT !.tag = Put(@, call[r].t, NoTag)])
  /\ Goto(r, [call[r] EXCEPT !.ids = ids, !.at = IF ids = {} THEN "commit" ELSE "copy"])
  /\ UNCHANGED <<db, serial>>

(***************************************************************************)
(* Tags: the check for an existing name and the write that follows it are   *)
(* two statements without a transaction (getOrCreateTag, saveTagUI).        *)
(***************************************************************************)
CheckNewTag(r) ==
  \E n \in Name :
    /\ "newtag" \in Kinds /\ At(r, "idle")
    /\ Named(r, n) = {}
    /\ Goto(r, [Idle EXCEPT !.kind = "newtag", !.at = "insert", !.names = {n}])
    /\ UNCHANGED <<db, serial, patch>>

InsertTag(r) ==
  /\ At(r, "insert") /\ Turn(r) /\ serial.tag \in Tag
  /\ \E n \in call[r].names : tag' = [tag EXCEPT ![serial.tag] = n]
  /\ serial' = [serial EXCEPT !.tag = @ + 1]
  /\ Ends(r)
  /\ UNCHANGED <<bookmark, link, job, patch>>

\* LIMIT 1 without an order: any tag of that name may be the one compared.
CheckRename(r) ==
  \E t \in Tag, n \in Name :
    /\ "rename" \in Kinds /\ At(r, "idle") /\ Tags(r)[t] # NoTag
    /\ Named(r, n) = {} \/ t \in Named(r, n)
    /\ Goto(r, [Idle EXCEPT !.kind = "rename", !.at = "rename", !.t = t, !.names = {n}])
    /\ UNCHANGED <<db, serial, patch>>

RenameTag(r) ==
  LET t == call[r].t IN
  /\ At(r, "rename") /\ Turn(r) /\ FreeTag(r, t)
  /\ \E n \in call[r].names : tag' = [tag EXCEPT ![t] = IF @ = NoTag THEN @ ELSE n]
  /\ Ends(r)
  /\ UNCHANGED <<bookmark, link, job, serial, patch>>

(***************************************************************************)
(* mergeTagsUI: the names are resolved before the transaction.  A name that *)
(* does not exist, or is the target's, ends the request.                    *)
(***************************************************************************)
MergeTags(r) ==
  \E t \in Tag, names \in (SUBSET Name) \ {{}} :
    /\ "merge" \in Kinds /\ At(r, "idle") /\ Tags(r)[t] # NoTag
    /\ Goto(r, [Idle EXCEPT !.kind = "merge", !.at = "resolve", !.b = t, !.names = names])
    /\ UNCHANGED <<db, serial, patch>>

ResolveMerged(r) ==
  LET n == CHOOSE m \in call[r].names : TRUE IN
  /\ At(r, "resolve")
  /\ IF Named(r, n) = {} THEN Ends(r)
     ELSE \E t \in Named(r, n) :
            IF t = call[r].b THEN Ends(r)
            ELSE Goto(r, [call[r] EXCEPT !.ids = @ \cup {t}, !.names = @ \ {n},
                            !.at = IF call[r].names = {n} THEN "begin" ELSE "resolve"])
  /\ UNCHANGED <<db, serial, patch>>

\* Broken on purpose (mutant): the statements of the merge run without a
\* transaction's write lock.
BeginMergeUnlocked(r) ==
  /\ At(r, "begin")
  /\ Goto(r, [call[r] EXCEPT !.at = "copy"])
  /\ UNCHANGED <<db, serial, patch>>

BeginMerge(r) ==
  /\ At(r, "begin") /\ Turn(r)
  /\ Goto(r, [call[r] EXCEPT !.at = "copy"])
  /\ UNCHANGED <<db, serial, patch>>

\* INSERT ... SELECT: the bookmarks of tag t that lack the target get it.
CopyLinks(r) ==
  LET t == Least(call[r].ids)
      new == {<<b, call[r].b>> : b \in {c \in Bookmark : <<c, t>> \in Links(r)}} \ Links(r)
  IN
  /\ At(r, "copy")
  /\ \A l \in new : FreeLink(r, l)
  /\ Writes(r, [patch[r] EXCEPT !.add = @ \cup new])
  /\ Goto(r, [call[r] EXCEPT !.at = "clear", !.t = t])
  /\ UNCHANGED <<db, serial>>

-----------------------------------------------------------------------------
RequestStep(r) ==
  \/ Lookup(r) \/ InsertRow(r) \/ MergeIntoRow(r)
  \/ StartClear(r) \/ Clear(r) \/ Attach(r) \/ Effects(r)
  \/ ReadRow(r) \/ WriteRow(r) \/ KeepTags(r)
  \/ SetState(r) \/ EnhanceMetadata(r)
  \/ ResolveTag(r) \/ TagOne(r) \/ Touch(r) \/ TaggedAll(r)
  \/ DeleteRow(r) \/ DeleteTag(r) \/ Drop(r)
  \/ CheckNewTag(r) \/ InsertTag(r) \/ CheckRename(r) \/ RenameTag(r)
  \/ MergeTags(r) \/ ResolveMerged(r) \/ BeginMerge(r) \/ CopyLinks(r)
  \/ Commit(r) \/ Abort(r)

Next == \E r \in Request : RequestStep(r)

Spec == Init /\ [][Next]_vars

-----------------------------------------------------------------------------
(***************************************************************************)
(* Properties                                                               *)
(***************************************************************************)
\* The tables and the requests' locals keep their types; a link never lacks
\* its bookmark or tag.
TypeOK ==
  /\ bookmark \in [Bookmark -> Row \cup {None}]
  /\ tag \in [Tag -> Name \cup {NoTag}]
  /\ link \subseteq Link /\ job \subseteq Bookmark \X JobKind
  /\ \A l \in link : bookmark[l[1]] # None /\ tag[l[2]] # NoTag
  /\ \A r \in Request : /\ patch[r].add \subseteq Link /\ patch[r].del \subseteq link
                        /\ call[r].at = "idle" => patch[r] = Patch

\* R1: on SQLite a URL is bookmarked once, whatever requests create and edit
\* at once (API edits of the URL excepted, which compare the exact URL).
OneBookmarkPerURL ==
  \A b, c \in Bookmark :
    bookmark[b] # None /\ bookmark[c] # None /\ Norm[bookmark[b].url] = Norm[bookmark[c].url]
      => b = c

\* Get-or-create in a transaction (SQLite): it makes no tag whose name is
\* there by the time it commits.
NoTagTwice ==
  [][\A r \in Request : Commit(r) =>
       \A s, t \in Tag : tag[t] = NoTag /\ tag'[t] # NoTag => s = t \/ tag'[s] # tag'[t]]_vars

\* The tag page says of a merge that "the target tag is added to all bookmarks
\* that have any of the merge tags": no tagging that was committed before the
\* merge is lost by it.
MergeKeepsTaggings ==
  [][\A r \in Request : Commit(r) /\ call[r].kind = "merge" =>
       \A l \in link : l \in link' \/ <<l[1], call[r].b>> \in link']_vars

\* UpdateData writes back fields that the request did not give: they have the
\* value that the latest committed change gave them.
NoLostUpdate ==
  [][\A r \in Request : Commit(r) /\ call[r].kind \in {"create", "form", "rest"} =>
       LET b == call[r].b IN
       bookmark[b] # None =>
         /\ "archived" \notin call[r].given => bookmark'[b].archived = bookmark[b].archived
         /\ call[r].kind = "rest" /\ "title" \notin call[r].given =>
              bookmark'[b].title = bookmark[b].title]_vars

\* An edit without tags takes no tag from the bookmark, but those with a comma in
\* their name: replaceTags joins the names with commas and splits them again, and
\* the bookmark has the parts instead.
KeepsTags ==
  [][\A r \in Request :
       Commit(r) /\ call[r].kind = "rest" /\ "names" \notin call[r].given =>
         Parsed({tag[l[2]] : l \in {k \in link : k[1] = call[r].b}})
           \subseteq {tag'[l[2]] : l \in {k \in link' : k[1] = call[r].b}}]_vars

\* Jobs are queued in the transaction of their bookmark: a bookmark comes with
\* its jobs, and no job comes without its bookmark.
JobsWithRows ==
  [][/\ \A j \in job' \ job : bookmark'[j[1]] # None
     /\ \A b \in Bookmark : bookmark[b] = None /\ bookmark'[b] # None =>
          {b} \X JobKind \subseteq job']_vars
=============================================================================
