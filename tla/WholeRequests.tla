--------------------------- MODULE WholeRequests ---------------------------
(***************************************************************************)
(* What the requests of Bookmarks promise, without statements, transactions *)
(* and locks: each changes the committed tables in one step, which is right *)
(* for the tables as they are at that moment, or does not change them.      *)
(*                                                                          *)
(* What a request asks for is any value: the steps say how the tables after *)
(* it follow from those before it and the values it was given.              *)
(***************************************************************************)
EXTENDS Integers

CONSTANTS Bookmark, Tag, URL, Norm, Name, Parts, AutoTags, Fields, JobKind, None, NoTag

VARIABLES bookmark, tag, link, job

vars == <<bookmark, tag, link, job>>

Present == {b \in Bookmark : bookmark[b] # None}
\* Names with a comma are split.
Parsed(names) == UNION {Parts[n] : n \in names}
NamesOf(b) == {tag[l[2]] : l \in {k \in link : k[1] = b}}

Init ==
  /\ bookmark = [b \in Bookmark |-> None]
  /\ tag = [t \in Tag |-> NoTag]
  /\ link = {} /\ job = {}

\* Bookmark b gets one tag of each of these names, and no other.  A tag is made
\* for a name that no tag has, and the tags that are there stay as they are.
Tagged(b, names) ==
  \E of \in [names -> Tag] :
    /\ \A n \in names : tag'[of[n]] = n /\ (tag[of[n]] = n \/ \A t \in Tag : tag[t] # n)
    /\ \A t \in Tag : tag'[t] = tag[t] \/ (tag[t] = NoTag /\ \E n \in names : of[n] = t)
    /\ link' = {l \in link : l[1] # b} \cup {<<b, of[n]>> : n \in names}

Same(url) == {b \in Present : Norm[bookmark[b].url] = Norm[url]}

Create(url, names) ==
  /\ Same(url) = {}
  /\ \E b \in Bookmark \ Present :
       /\ bookmark' = [bookmark EXCEPT ![b] = [url |-> url, title |-> "given", archived |-> FALSE]]
       /\ Tagged(b, Parsed(names \cup AutoTags[url]))
       /\ job' = job \cup {b} \X JobKind

\* The oldest bookmark of the URL is updated, and keeps its spelling.
CreateAgain(url, names) ==
  \E b \in Same(url) :
    /\ \A c \in Same(url) : b <= c
    /\ bookmark' = [bookmark EXCEPT ![b].title = "given"]
    /\ Tagged(b, Parsed(names \cup AutoTags[bookmark[b].url]))
    /\ job' = job \cup {<<b, "load">>}

\* Fields that are not given stay, but for the tags that rules add and those with
\* a comma in their name.
Edit(b, given, url, names) ==
  /\ b \in Present
  /\ "url" \notin given => url = bookmark[b].url
  /\ \E archived \in BOOLEAN :
       /\ "archived" \notin given => archived = bookmark[b].archived
       /\ bookmark' = [bookmark EXCEPT ![b] =
            [url |-> url, archived |-> archived,
             title |-> IF "title" \in given THEN "given" ELSE bookmark[b].title]]
  /\ Tagged(b, Parsed((IF "names" \in given THEN names ELSE NamesOf(b)) \cup AutoTags[url]))
  /\ job' = job \cup {b} \X ({"load"} \cup (IF url # bookmark[b].url THEN {"archive"} ELSE {}))

EditForm(b, url, names) ==
  /\ Same(url) \subseteq {b}
  /\ Edit(b, {"url", "title", "names"}, url, names)

EditFields(b, given, url, names) ==
  /\ "url" \in given => \A c \in Present \ {b} : bookmark[c].url # url
  /\ Edit(b, given, url, names)

SetArchived(ids, archived) ==
  /\ ids \subseteq Present
  /\ bookmark' = [b \in Bookmark |->
                    IF b \in ids THEN [bookmark[b] EXCEPT !.archived = archived] ELSE bookmark[b]]
  /\ UNCHANGED <<tag, link, job>>

Enhance(b) ==
  /\ b \in Present
  /\ bookmark' = [bookmark EXCEPT ![b].title = IF @ = "" THEN "found" ELSE @]
  /\ UNCHANGED <<tag, link, job>>

\* Tag t has the name n, or is new and the first that has it.
GetOrCreate(t, n) ==
  \/ tag[t] = n /\ tag' = tag
  \/ tag[t] = NoTag /\ (\A s \in Tag : tag[s] # n) /\ tag' = [tag EXCEPT ![t] = n]

TagMany(t, n, ids) ==
  /\ ids \subseteq Present
  /\ GetOrCreate(t, n)
  /\ link' = link \cup ids \X {t}
  /\ UNCHANGED <<bookmark, job>>

UntagMany(t, n, ids) ==
  /\ GetOrCreate(t, n)
  /\ link' = link \ (ids \X {t})
  /\ UNCHANGED <<bookmark, job>>

Delete(b) ==
  /\ b \in Present
  /\ bookmark' = [bookmark EXCEPT ![b] = None]
  /\ link' = {l \in link : l[1] # b}
  /\ UNCHANGED <<tag, job>>

DeleteTag(t) ==
  /\ tag[t] # NoTag
  /\ tag' = [tag EXCEPT ![t] = NoTag]
  /\ link' = {l \in link : l[2] # t}
  /\ UNCHANGED <<bookmark, job>>

\* The check for the name is another statement: the name may be there by now.
NewTag(t, n) ==
  /\ tag[t] = NoTag
  /\ tag' = [tag EXCEPT ![t] = n]
  /\ UNCHANGED <<bookmark, link, job>>

RenameTag(t, n) ==
  /\ tag[t] # NoTag
  /\ tag' = [tag EXCEPT ![t] = n]
  /\ UNCHANGED <<bookmark, link, job>>

\* All that had one of the merged tags has the target, which is still there if
\* anything has it.
Merge(target, merged) ==
  /\ target \notin merged
  /\ tag' = [t \in Tag |-> IF t \in merged THEN NoTag ELSE tag[t]]
  /\ link' = {l \in link : l[2] \notin merged}
               \cup {<<b, target>> : b \in {c \in Bookmark : \E t \in merged : <<c, t>> \in link}}
  /\ \A l \in link' : tag[l[2]] # NoTag
  /\ UNCHANGED <<bookmark, job>>

Next ==
  \/ \E url \in URL, names \in SUBSET Name : Create(url, names) \/ CreateAgain(url, names)
  \/ \E b \in Bookmark, url \in URL, names \in SUBSET Name :
       EditForm(b, url, names) \/ \E given \in SUBSET Fields : EditFields(b, given, url, names)
  \/ \E ids \in SUBSET Bookmark, archived \in BOOLEAN : SetArchived(ids, archived)
  \/ \E b \in Bookmark : Enhance(b) \/ Delete(b)
  \/ \E t \in Tag, n \in Name, ids \in SUBSET Bookmark : TagMany(t, n, ids) \/ UntagMany(t, n, ids)
  \/ \E t \in Tag, n \in Name : NewTag(t, n) \/ RenameTag(t, n)
  \/ \E t \in Tag : DeleteTag(t) \/ \E merged \in SUBSET Tag : Merge(t, merged)

Spec == Init /\ [][Next]_vars
=============================================================================
