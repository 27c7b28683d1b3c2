-------------------------------- MODULE Lists --------------------------------
(***************************************************************************)
(* The lists of bookmarks: pages, the API and the feeds.  A reader submits  *)
(* the search form, opens the first page and follows the link to the next   *)
(* one.  Each page counts the rows, selects one page of them and loads      *)
(* those in three statements without a transaction (bookmarks/search.go,    *)
(* bookmark_list_page.go, bookmarks_api.go, feeds.go), while rows,          *)
(* profiles and preferences change.                                         *)
(*                                                                         *)
(* A number stands for a bookmark with its date: a row that is dated anew,  *)
(* by an import or an edit, goes on under another number.  Date is the date *)
(* of addition, or what else a list is sorted by.  Bookmarks may share it.  *)
(* Of the form the module keeps the filter "unread"; "sort" and "shared"    *)
(* are stored and submitted the same way.  What a query selects is in       *)
(* Search.                                                                  *)
(***************************************************************************)
EXTENDS Naturals, FiniteSets

CONSTANTS
  User, Guest, Null,
  Total,       \* bookmarks are 1..Total
  First,       \* those that may exist at first
  Date,        \* what lists are sorted by: [Bookmark -> Nat]
  Kinds,       \* what rows may be like: [owner, shared, archived, unread]
  Policies,    \* sharing at first: sets of [User -> [sharing, public]]
  Readers,     \* [kind, who, list, user]: user names an owner, or Null
  Limit,       \* bookmarks on a page
  FeedLimit,   \* bookmarks in a feed
  Guests,      \* guest profiles: users, or Null
  MaxChanges

VARIABLES
  row,         \* existing bookmarks -> their rows
  policy,      \* sharing of each profile
  stored,      \* search_preferences of each profile, "" for none
  guest,       \* the guest profile
  reader,      \* who reads what
  submitted,   \* the value of the search form, or Null
  param,       \* the value in the query of the page, "" for none
  pc, filter, page, pages, total, ids,   \* the request
  changes,     \* changes that may still happen
  seen,        \* bookmarks that some page showed
  constant,    \* bookmarks that were on the list all the time
  readable,    \* bookmarks that the reader was entitled to see at some time
  slipped,     \* the list moved under the reader (see Slips), or a page tore it
  replaced     \* preferences were stored behind the form

request == <<pc, filter, page, pages, total, ids>>
history == <<seen, constant, readable, slipped, replaced>>
data == <<row, policy, stored>>
vars == <<data, guest, reader, submitted, param, request, changes, history>>

Bookmark == 1..Total
Off == "off"
Values == {Off, "yes", "no"}

\* Users, visitors and nobody are three things.
ListsAssumption ==
  /\ Total \in Nat /\ Limit \in Nat \ {0} /\ FeedLimit \in Nat \ {0} /\ MaxChanges \in Nat
  /\ First \subseteq Bookmark /\ Date \in [Bookmark -> Nat]
  /\ Guest \notin User /\ Null \notin User \cup {Guest}
  /\ Kinds \subseteq [owner : User, shared : BOOLEAN, archived : BOOLEAN, unread : BOOLEAN]
  /\ Policies \subseteq [User -> [sharing : BOOLEAN, public : BOOLEAN]]
  /\ Guests \subseteq User \cup {Null}
  /\ Readers \subseteq [kind : {"page", "api", "feed", "unread"}, who : User \cup {Guest},
                      list : {"active", "archived", "shared"}, user : User \cup {Null}]

-----------------------------------------------------------------------------
(* Whose bookmarks, and which of them.                                       *)

Anonymous == reader.who = Guest
Shared == reader.list = "shared"
\* The profile that a page takes its settings from.
ProfileOf == IF Anonymous THEN guest ELSE reader.who

Shares(u, publicOnly) == policy[u].sharing /\ (publicOnly => policy[u].public)

OwnerOf == IF Shared THEN reader.user ELSE reader.who
ListFilter(i, unread) ==
  /\ OwnerOf # Null => row[i].owner = OwnerOf
  /\ IF Shared
     THEN row[i].shared /\ Shares(row[i].owner, Anonymous)
     ELSE row[i].archived = (reader.list = "archived")
  /\ unread # Off => row[i].unread = (unread = "yes")
Selected(unread) == {i \in DOMAIN row : ListFilter(i, unread)}

\* What LIMIT and OFFSET may select: some rows are skipped, the page is next, the
\* rest is left.  The newest come first, and those of one date in any order.
Smaller(m, n) == IF m < n THEN m ELSE n
Slices(S, offset, limit) ==
  {P \in SUBSET S : \E skipped \in SUBSET (S \ P) :
     /\ Cardinality(skipped) = Smaller(offset, Cardinality(S))
     /\ Cardinality(P) = Smaller(limit, Cardinality(S) - Cardinality(skipped))
     /\ \A i \in skipped, j \in S \ skipped : Date[i] >= Date[j]
     /\ \A i \in P, j \in S \ (skipped \cup P) : Date[i] >= Date[j]}
\* A page begins or ends between two rows of one date.
Tears(S, P) == \E i \in P, j \in S \ P : Date[i] = Date[j]

Preferred == IF ProfileOf = Null THEN "" ELSE stored[ProfileOf]
Effective(p) == IF p # "" THEN p ELSE IF Preferred # "" THEN Preferred ELSE Off

-----------------------------------------------------------------------------
(* The requests of the reader.                                               *)

Init ==
  /\ row \in [First -> Kinds] /\ policy \in Policies
  /\ \E v \in {"", "yes"} : stored = [u \in User |-> v]
  /\ guest \in Guests
  /\ reader \in Readers
  /\ pc = "form" /\ submitted = Null /\ param = "" /\ filter = Off
  /\ page = 1 /\ pages = 0 /\ total = 0 /\ ids = {}
  /\ changes = MaxChanges
  /\ seen = {} /\ constant = {} /\ readable = {} /\ slipped = FALSE /\ replaced = FALSE

\* Mutant: the stored preferences are not read.
SubmitStandard(v, save) ==
  /\ pc = "form" /\ reader.kind = "page"
  /\ save => ~Anonymous
  /\ stored' = IF save THEN [stored EXCEPT ![reader.who] = v] ELSE stored
  /\ param' = IF v # Off THEN v ELSE ""
  /\ submitted' = v /\ pc' = "open" /\ replaced' = FALSE
  /\ UNCHANGED <<row, policy, guest, reader, filter, page, pages, total, ids, changes,
                 seen, constant, readable, slipped>>
\* A value that differs from the default goes into the query of the page.
Submit(v, save) ==
  LET default == IF save THEN v
                 ELSE IF ~Anonymous /\ stored[reader.who] # "" THEN stored[reader.who] ELSE Off IN
  /\ pc = "form" /\ reader.kind = "page"
  /\ save => ~Anonymous
  /\ stored' = IF save THEN [stored EXCEPT ![reader.who] = v] ELSE stored
  /\ param' = IF v # default THEN v ELSE ""
  /\ submitted' = v /\ pc' = "open" /\ replaced' = FALSE
  /\ UNCHANGED <<row, policy, guest, reader, filter, page, pages, total, ids, changes,
                 seen, constant, readable, slipped>>

\* What a reader may see at all.
MayRead ==
  {i \in DOMAIN row :
     \/ row[i].owner = reader.who
     \/ /\ row[i].shared /\ policy[row[i].owner].sharing
        /\ Anonymous => policy[row[i].owner].public}

\* A page applies the preferences of a profile, each page anew; the API and
\* the feeds take what their query says, but one feed has the unread only.
FilterOf(v) ==
  CASE reader.kind = "page" -> Effective(v)
    [] reader.kind = "unread" -> "yes"
    [] OTHER -> IF v = "" THEN Off ELSE v
Begin ==
  /\ reader.kind # "page" /\ pc = "form" /\ pc' = "open"
  /\ param' \in {"", "yes"}
  /\ UNCHANGED <<data, guest, reader, submitted, filter, page, pages, total, ids, changes, history>>
Open ==
  /\ pc = "open" /\ pc' = "count"
  /\ filter' = FilterOf(param)
  /\ IF page = 1
     THEN /\ constant' = Selected(filter') /\ readable' = MayRead /\ slipped' = FALSE
     ELSE /\ slipped' = (slipped \/ filter' # filter)
          /\ UNCHANGED <<constant, readable>>
  /\ UNCHANGED <<data, guest, reader, submitted, param, page, pages, total, ids, changes, seen, replaced>>

Count ==
  /\ pc = "count" /\ pc' = "select"
  /\ total' = Cardinality(Selected(filter))
  /\ pages' = IF total' = 0 THEN 1 ELSE (total' + Limit - 1) \div Limit
  /\ UNCHANGED <<data, guest, reader, submitted, param, filter, page, ids, changes, history>>

Rows(offset, limit) ==
  /\ ids' \in Slices(Selected(filter), offset, limit)
  /\ slipped' = (slipped \/ Tears(Selected(filter), ids'))
ReadsFeed == reader.kind \in {"feed", "unread"}
\* Mutant: the first page is number 0.
SelectPageLate ==
  /\ pc = "select" /\ pc' = "load"
  /\ IF ReadsFeed THEN Rows(0, FeedLimit) ELSE Rows(page * Limit, Limit)
  /\ UNCHANGED <<data, guest, reader, submitted, param, filter, page, pages, total, changes,
                 seen, constant, readable, replaced>>
\* A feed has the first rows only, 100 or as many as its query says.
SelectPage ==
  /\ pc = "select" /\ pc' = "load"
  /\ IF ReadsFeed THEN Rows(0, FeedLimit) ELSE Rows((page - 1) * Limit, Limit)
  /\ UNCHANGED <<data, guest, reader, submitted, param, filter, page, pages, total, changes,
                 seen, constant, readable, replaced>>

HasNext ==
  CASE reader.kind = "page" -> page < pages
    [] reader.kind = "api"  -> page * Limit < total
    [] OTHER                -> FALSE
Beyond == reader.kind = "page" /\ page > pages

\* A row that is gone by now fails the request.  A page number behind the last
\* page selects that one instead, and keeps the first count.
Load ==
  /\ pc = "load"
  /\ \/ /\ ~(ids \subseteq DOMAIN row) /\ pc' = "failed"
        /\ UNCHANGED <<page, seen>>
     \/ /\ ids \subseteq DOMAIN row /\ Beyond
        /\ page' = pages /\ pc' = "select"
        /\ UNCHANGED seen
     \/ /\ ids \subseteq DOMAIN row /\ ~Beyond
        /\ seen' = seen \cup ids
        /\ pc' = IF HasNext THEN "shown" ELSE "done"
        /\ UNCHANGED page
  /\ UNCHANGED <<data, guest, reader, submitted, param, filter, pages, total, ids, changes,
                 constant, readable, slipped, replaced>>

FollowNext ==
  /\ pc = "shown" /\ pc' = "open" /\ page' = page + 1
  /\ UNCHANGED <<data, guest, reader, submitted, param, filter, pages, total, ids, changes, history>>

-----------------------------------------------------------------------------
(* What others do meanwhile.                                                 *)

\* The list moves under the reader: a bookmark leaves that is among or before
\* those that were shown, or one joins between the count and the selection.
Slips(before, after) ==
  \/ \E i \in before \ after, j \in seen \cup ids : Date[j] <= Date[i]
  \/ after \ before # {} /\ (pc = "select" \/ (pc = "load" /\ Beyond))

Change ==
  /\ changes > 0 /\ changes' = changes - 1 /\ pc \notin {"failed", "done"}
  /\ UNCHANGED <<guest, reader, submitted, param, request, seen>>
  /\ \/ \E i \in Bookmark \ DOMAIN row, k \in Kinds :
          /\ row' = [j \in DOMAIN row \cup {i} |-> IF j = i THEN k ELSE row[j]]
          /\ UNCHANGED <<policy, stored>>
     \/ \E i \in DOMAIN row, dated \in Bookmark \ DOMAIN row :
          /\ row' = [j \in (DOMAIN row \ {i}) \cup {dated} |-> IF j = dated THEN row[i] ELSE row[j]]
          /\ UNCHANGED <<policy, stored>>
     \/ \E i \in DOMAIN row :
          /\ \/ row' = [j \in DOMAIN row \ {i} |-> row[j]]
             \/ \E k \in Kinds : k.owner = row[i].owner /\ k # row[i] /\ row' = [row EXCEPT ![i] = k]
          /\ UNCHANGED <<policy, stored>>
     \/ \E u \in User, on \in BOOLEAN :
          /\ policy' = [policy EXCEPT ![u].sharing = on]
          /\ UNCHANGED <<row, stored>>
     \/ \E u \in User, v \in Values :
          /\ stored' = [stored EXCEPT ![u] = v]
          /\ UNCHANGED <<row, policy>>
  /\ constant' = constant \cap Selected(filter)'
  /\ readable' = readable \cup MayRead'
  /\ slipped' = (slipped \/ Slips(Selected(filter), Selected(filter)'))
  /\ replaced' = (replaced \/ (stored' # stored /\ pc = "open"))

Next ==
  \/ \E v \in Values, save \in BOOLEAN : Submit(v, save)
  \/ Begin \/ Open \/ Count \/ SelectPage \/ Load \/ FollowNext \/ Change

Spec == Init /\ [][Next]_vars

-----------------------------------------------------------------------------
TypeOK ==
  /\ DOMAIN row \subseteq Bookmark
  /\ pc \in {"form", "open", "count", "select", "load", "shown", "failed", "done"}
  /\ filter \in Values /\ param \in Values \cup {""} /\ submitted \in Values \cup {Null}
  /\ page >= 1 /\ ids \subseteq Bookmark

\* Following the links from page to page shows every bookmark that was on the
\* list all the time, and a feed the newest of them: one that it leaves out is
\* older than FeedLimit others that it has.  It may not be so if the list moved
\* under the reader, a row of it was dated anew, or a page began or ended between
\* two bookmarks of one date.  No page shows a bookmark that its reader was not
\* entitled to see at some time.
WalkShowsAll ==
  /\ pc = "done" /\ ~slipped =>
       \A i \in constant \ seen :
         ReadsFeed /\ Cardinality({j \in seen : Date[j] > Date[i]}) >= FeedLimit
  /\ seen \subseteq readable

\* The first page after the form applies what was submitted.  It may not if
\* the preferences were stored anew behind the form, or if a visitor chose the
\* standard value and the guest profile has another: the form drops it from the
\* query as a default, and the page takes the preference of the guest profile.
SubmittedIsApplied ==
  reader.kind = "page" /\ page = 1 /\ pc = "count" =>
    \/ filter = submitted \/ replaced
    \/ Anonymous /\ guest # Null /\ submitted = Off
===============================================================================
