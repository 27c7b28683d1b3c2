-------------------------------- MODULE Import --------------------------------
(***************************************************************************)
(* The import of a file of bookmarks (internal/importexport/importer.go)   *)
(* into one owner's rows, while other requests change them.                *)
(*                                                                         *)
(* An import reads the owner's tags, inserts those that its file names and *)
(* that are missing, one by one, and then merges each item in a            *)
(* transaction of its own with the ids it has read.  On SQLite such a      *)
(* transaction holds the write lock from its beginning, so it is one step, *)
(* as is a change by another request: the module Bookmarks has those in    *)
(* detail.  Tags have no unique names.  Of a bookmark the module keeps its *)
(* URL and its tags.                                                       *)
(***************************************************************************)
EXTENDS Naturals, Sequences, FiniteSets, FiniteSetsExt

CONSTANTS
  URL, Norm,    \* NormalizeURL
  Name,
  Files,        \* sequences of items [url, names, valid]
  Request,      \* imports in progress
  MaxBookmarks, MaxTags, MaxChanges, MaxErrors   \* bounds

Item == [url : URL, names : SUBSET Name, valid : BOOLEAN]
ImportAssumption == Files \subseteq Seq(Item)

VARIABLES
  bookmark,     \* ids -> URLs
  tag,          \* ids -> names
  link,
  last,         \* the last ids given out
  call,         \* the local variables of each import
  changes, errors
vars == <<bookmark, tag, link, last, call, changes, errors>>

\* "disturbed" is history: the URLs whose bookmark or tags others changed since
\* the import began.
Idle == [pc |-> "idle", file |-> <<>>, items |-> <<>>, ids |-> <<>>, seen |-> {}, disturbed |-> {}]

Init ==
  /\ bookmark = <<>> /\ tag = <<>> /\ link = {}
  /\ last = [bookmark |-> 0, tag |-> 0]
  /\ call = [r \in Request |-> Idle]
  /\ changes = 0 /\ errors = 0

With(f, x, v) == [y \in DOMAIN f \cup {x} |-> IF y = x THEN v ELSE f[y]]
Without(f, x) == [y \in DOMAIN f \ {x} |-> f[y]]
Named(n) == {t \in DOMAIN tag : tag[t] = n}
Same(n) == {b \in DOMAIN bookmark : Norm[bookmark[b]] = n}
NamesOf(b) == {tag[l[2]] : l \in {k \in link : k[1] = b}}

-----------------------------------------------------------------------------
(* ImportNetscape. *)

At(r, pc) == call[r].pc = pc
Goto(r, c) == call' = [call EXCEPT ![r] = c]

\* preloadImportTags: the map from names to ids.  Of tags of one name it keeps
\* the last.
Preload(r) ==
  \E f \in Files :
    /\ At(r, "idle")
    /\ Goto(r, [Idle EXCEPT !.pc = "tags", !.file = f, !.items = f,
                  !.ids = [n \in {m \in Name : Named(m) # {}} |-> Max(Named(n))]])
    /\ UNCHANGED <<bookmark, tag, link, last, changes, errors>>

Missing(r) ==
  (UNION {call[r].items[i].names : i \in DOMAIN call[r].items}) \ DOMAIN call[r].ids

InsertTag(r) ==
  \E n \in Missing(r) :
    /\ At(r, "tags") /\ last.tag < MaxTags
    /\ last' = [last EXCEPT !.tag = @ + 1]
    /\ tag' = With(tag, last.tag + 1, n)
    /\ Goto(r, [call[r] EXCEPT !.ids = With(@, n, last.tag + 1)])
    /\ UNCHANGED <<bookmark, link, changes, errors>>

Preloaded(r) ==
  /\ At(r, "tags") /\ Missing(r) = {}
  /\ Goto(r, [call[r] EXCEPT !.pc = "items"])
  /\ UNCHANGED <<bookmark, tag, link, last, changes, errors>>

\* An item that is not valid is left out, and so is one whose URL was imported
\* from this file before.
Skips(r, marked) ==
  LET item == Head(call[r].items)
      n == Norm[item.url] IN
  /\ At(r, "items") /\ call[r].items # <<>>
  /\ ~item.valid \/ n \in call[r].seen
  /\ Goto(r, [call[r] EXCEPT !.items = Tail(@), !.seen = @ \cup marked])
  /\ UNCHANGED <<bookmark, tag, link, last, changes, errors>>
\* Mutant: a URL counts as imported though its item was not valid.
SkipForGood(r) == call[r].items # <<>> /\ Skips(r, {Norm[Head(call[r].items).url]})
Skip(r) == Skips(r, {})

\* importBookmark: the oldest bookmark of the URL is updated, or one inserted;
\* it gets the tags besides those it has.  If a tag is gone by then, the foreign
\* key of the link fails the transaction and the import stops.
ImportItem(r) ==
  LET item == Head(call[r].items)
      n == Norm[item.url]
      fresh == Same(n) = {}
      b == IF fresh THEN last.bookmark + 1 ELSE Min(Same(n))
      ids == {call[r].ids[m] : m \in item.names}
  IN
  /\ At(r, "items") /\ call[r].items # <<>>
  /\ item.valid /\ n \notin call[r].seen
  /\ IF ids \subseteq DOMAIN tag
     THEN /\ b <= MaxBookmarks
          /\ bookmark' = With(bookmark, b, item.url)
          /\ link' = link \cup {b} \X ids
          /\ last' = IF fresh THEN [last EXCEPT !.bookmark = b] ELSE last
          /\ Goto(r, [call[r] EXCEPT !.items = Tail(@), !.seen = @ \cup {n}])
     ELSE /\ Goto(r, Idle)
          /\ UNCHANGED <<bookmark, link, last>>
  /\ UNCHANGED <<tag, changes, errors>>

\* scheduleImportMedia, which follows, is in the module MediaFiles.
Finish(r) ==
  /\ At(r, "items") /\ call[r].items = <<>>
  /\ Goto(r, [call[r] EXCEPT !.pc = "done", !.ids = <<>>, !.seen = {}])
  /\ UNCHANGED <<bookmark, tag, link, last, changes, errors>>

Fail(r) ==
  /\ call[r].pc \in {"tags", "items"} /\ errors < MaxErrors
  /\ errors' = errors + 1
  /\ Goto(r, Idle)
  /\ UNCHANGED <<bookmark, tag, link, last, changes>>

\* The page is left.
Leave(r) ==
  /\ At(r, "done")
  /\ Goto(r, Idle)
  /\ UNCHANGED <<bookmark, tag, link, last, changes, errors>>

-----------------------------------------------------------------------------
(* Other requests. *)

Changes == changes < MaxChanges /\ changes' = changes + 1 /\ UNCHANGED errors
Disturbs(norms) == call' = [r \in Request |-> [call[r] EXCEPT !.disturbed = @ \cup norms[r]]]

\* A tag is renamed or goes: its bookmarks, and the items that are to get it.
Touched(t) ==
  Disturbs([r \in Request |->
    {Norm[bookmark[l[1]]] : l \in {k \in link : k[2] = t}}
      \cup {Norm[call[r].items[i].url] : i \in {j \in DOMAIN call[r].items :
              \E n \in call[r].items[j].names \cap DOMAIN call[r].ids : call[r].ids[n] = t}}])

\* CreateOrUpdateData, with one tag or none.
Save(url, names) ==
  LET same == Same(Norm[url])
      b == IF same = {} THEN last.bookmark + 1 ELSE Min(same)
      known == \A n \in names : Named(n) # {}
      t == IF known THEN {Min(Named(n)) : n \in names} ELSE {last.tag + 1}
  IN
  /\ Changes /\ b <= MaxBookmarks /\ \A x \in t : x <= MaxTags
  /\ bookmark' = IF same = {} THEN With(bookmark, b, url) ELSE bookmark
  /\ tag' = IF known THEN tag ELSE With(tag, last.tag + 1, CHOOSE n \in names : TRUE)
  /\ link' = {l \in link : l[1] # b} \cup {b} \X t
  /\ last' = [bookmark |-> IF same = {} THEN b ELSE last.bookmark,
              tag |-> IF known THEN last.tag ELSE last.tag + 1]
  /\ Disturbs([r \in Request |-> {Norm[url]}])

DeleteBookmark(b) ==
  /\ Changes
  /\ bookmark' = Without(bookmark, b) /\ link' = {l \in link : l[1] # b}
  /\ Disturbs([r \in Request |-> {Norm[bookmark[b]]}])
  /\ UNCHANGED <<tag, last>>

\* To a name that may be another tag's: the tag page compares before it writes.
RenameTag(t, n) ==
  /\ Changes /\ tag[t] # n
  /\ tag' = [tag EXCEPT ![t] = n]
  /\ Touched(t)
  /\ UNCHANGED <<bookmark, link, last>>

DeleteTag(t) ==
  /\ Changes
  /\ tag' = Without(tag, t) /\ link' = {l \in link : l[2] # t}
  /\ Touched(t)
  /\ UNCHANGED <<bookmark, last>>

MergeTag(t, target) ==
  /\ Changes /\ t # target
  /\ tag' = Without(tag, t)
  /\ link' = {<<l[1], IF l[2] = t THEN target ELSE l[2]>> : l \in link}
  /\ Touched(t)
  /\ UNCHANGED <<bookmark, last>>

Next ==
  \/ \E r \in Request : \/ Preload(r) \/ InsertTag(r) \/ Preloaded(r) \/ Skip(r) \/ ImportItem(r)
                        \/ Finish(r) \/ Fail(r) \/ Leave(r)
  \/ \E url \in URL, names \in {{}} \cup {{n} : n \in Name} : Save(url, names)
  \/ \E b \in DOMAIN bookmark : DeleteBookmark(b)
  \/ \E t \in DOMAIN tag : \/ DeleteTag(t)
                           \/ \E n \in Name : RenameTag(t, n)
                           \/ \E u \in DOMAIN tag : MergeTag(t, u)

Spec == Init /\ [][Next]_vars

-----------------------------------------------------------------------------
\* An import that reports no error is whole: for every URL the first valid item
\* is there, as one bookmark with all the item's tags, however often the file was
\* begun before and stopped, and whatever else imports and tags meanwhile, unless
\* another request changed that bookmark or those tags (importer.go
\* ImportNetscape, preloadImportTags, importBookmark).
ImportIsWhole ==
  \A r \in Request : At(r, "done") =>
    LET f == call[r].file IN
    \A i \in DOMAIN f :
      LET n == Norm[f[i].url] IN
      f[i].valid /\ (\A j \in 1..i - 1 : f[j].valid => Norm[f[j].url] # n) =>
        \/ n \in call[r].disturbed
        \/ \E b \in DOMAIN bookmark : Same(n) = {b} /\ f[i].names \subseteq NamesOf(b)
===============================================================================
