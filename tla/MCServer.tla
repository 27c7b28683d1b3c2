------------------------------ MODULE MCServer ------------------------------
(***************************************************************************)
(* Small instances of the parts of Server and of Search, which is added     *)
(* here: its parser is recursive, and Server is a module of proofs.         *)
(***************************************************************************)
EXTENDS Server, TLC

CONSTANTS r1, r2, a1, a2, b1, b2, t1, t2, s1, i1
VARIABLES query, keyboard, lax, typed, chosen, links
searchVars == <<query, keyboard, lax, typed, chosen, links>>

Symmetry == Permutations({r1, r2})


\* One server whose users have passwords, one with a provider, one with a proxy.
ServerModes ==
  {{"login", "logout", "password", "admin"}, {"login", "password", "token", "page"},
   {"oidc", "active"}, {"proxy", "active"}, {"proxy", "page"}}

\* Users, the first of them staff; the second tag does not exist at first.
SmallOwned ==
  {(b1 :> a1) @@ (b2 :> o) @@ (t1 :> a2) @@ (s1 :> b1) @@ (i1 :> a2) @@ (a1 :> Null) @@ (a2 :> Null) :
     o \in {a1, a2}}
Everything == a1 :> {"view", "add", "change", "delete"}

\* A short query of everything, a long one of the grammar, a legacy one, one with a
\* bundle, one with quoted terms that are read otherwise without quotes, and one with
\* names of tags that are not read as one tag.
Word(kind) == [kind |-> kind, value |-> kind]
Term(kind, value) == [kind |-> kind, value |-> value]
NoBundle == [search |-> {}, any |-> {}, all |-> {}, excluded |-> {}, unread |-> "off"]
SomeBundle == [search |-> {}, any |-> {"t", "u"}, all |-> {}, excluded |-> {"u"}, unread |-> "no"]
Plainly == ("t" :> <<Term("tag", "t")>>) @@ ("u" :> <<Term("tag", "u")>>)
Oddly ==
  ("t" :> <<Term("tag", "t")>>) @@ ("t's" :> <<Term("tag", "t"), Term("open", "s")>>)
  @@ ("t(s)" :> <<Term("tag", "t"), Word("left"), Term("term", "s"), Word("right")>>)
Keyboards ==
  {[most |-> 3, legacy |-> FALSE, bundle |-> NoBundle, names |-> Plainly, tokens |->
     {Term("term", "t"), Term("term", "or"), Term("open", "t"), Term("tag", "t"),
      Term("keyword", "unread"), Term("keyword", "other"), Word("or"), Word("and"), Word("not")}],
   [most |-> 5, legacy |-> FALSE, bundle |-> NoBundle, names |-> Plainly, tokens |->
     {Term("term", "t"), Word("or"), Word("not"), Word("left"), Word("right")}],
   [most |-> 3, legacy |-> TRUE, bundle |-> NoBundle, names |-> Plainly, tokens |->
     {Term("term", "t"), Term("tag", "t"), Term("keyword", "untagged"), Word("or"), Word("not")}],
   [most |-> 2, legacy |-> FALSE, bundle |-> SomeBundle, names |-> Plainly, tokens |->
     {Term("term", "t"), Term("tag", "t"), Term("keyword", "untagged"), Word("not")}],
   [most |-> 3, legacy |-> FALSE, bundle |-> NoBundle, names |-> Plainly, tokens |->
     {Term("term", "t"), Term("term", "#u"), Term("term", "!unread"), Term("term", ""), Word("or"), Word("not")}],
   [most |-> 2, legacy |-> FALSE, bundle |-> NoBundle, names |-> Oddly, tokens |->
     {Term("term", "s"), Term("tag", "t"), Word("or")}]}
Unquotables ==
  ("or" :> <<Word("or")>>) @@ ("#u" :> <<Term("tag", "u")>>)
  @@ ("!unread" :> <<Term("keyword", "unread")>>) @@ ("" :> <<>>)
S == INSTANCE Search WITH Keyboards <- Keyboards, Bare <- Unquotables, MaxLinks <- 3

\* The second user shares with users only; the third bookmark is archived.
Kind(o, shared, archived, unread) ==
  [owner |-> o, shared |-> shared, archived |-> archived, unread |-> unread]
Reader(kind, who, list, user) == [kind |-> kind, who |-> who, list |-> list, user |-> user]
SmallKinds == {Kind(a1, TRUE, FALSE, TRUE), Kind(a1, FALSE, FALSE, FALSE), Kind(a2, TRUE, TRUE, TRUE)}
\* The fourth bookmark has the date of the third.
SmallDates == (1 :> 1) @@ (2 :> 2) @@ (3 :> 3) @@ (4 :> 3)
SmallPolicies ==
  {(a1 :> [sharing |-> TRUE, public |-> TRUE]) @@ (a2 :> [sharing |-> TRUE, public |-> FALSE])}
SmallReaders ==
  {Reader("page", a1, "active", Null), Reader("page", Guest, "shared", Null),
   Reader("api", a1, "shared", a2), Reader("api", a2, "archived", Null),
   Reader("unread", a1, "active", Null), Reader("feed", Guest, "shared", Null)}

\* A file with an item that is not valid and two URLs in two spellings.
Bookmarked(url, names, valid) == [url |-> url, names |-> names, valid |-> valid]
SmallFiles ==
  {<<Bookmarked("a/", {"x"}, FALSE), Bookmarked("a", {"x", "y"}, TRUE), Bookmarked("a/", {}, TRUE), Bookmarked("c", {"y"}, TRUE)>>}
SmallNorm == ("a" :> "a") @@ ("a/" :> "a") @@ ("c" :> "c")

SmallFolders == ("asset" :> "assets") @@ ("image" :> "previews")

-----------------------------------------------------------------------------
SearchOff ==
  /\ query = Elsewhere /\ keyboard = Elsewhere /\ lax = Elsewhere /\ typed = Elsewhere /\ chosen = Elsewhere
  /\ links = Elsewhere

MCInit == ServerInit /\ IF part = "search" THEN S!Init ELSE SearchOff
MCNext ==
  \/ ServerNext /\ UNCHANGED searchVars
  \/ part = "search" /\ S!Next /\ UNCHANGED serverVars
MCSpec == MCInit /\ [][MCNext]_<<serverVars, searchVars>>

\* Search: the parser and the conditions follow the grammar.
GrammarHolds == part = "search" => S!GrammarHolds
\* Search: links of the tag cloud narrow the typed search, and no more.
TagLinksNarrow == part = "search" => S!TagLinksNarrow
=============================================================================
