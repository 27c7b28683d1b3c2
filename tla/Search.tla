-------------------------------- MODULE Search --------------------------------
(***************************************************************************)
(* The search box and the tag links of a bookmark list: the grammar         *)
(* (search/parser.go), the conditions it is turned into                     *)
(* (bookmarks/search.go), and the queries that the links of the tag cloud   *)
(* make of the one before (search/tag_query.go, bookmark_tag_cloud.go).     *)
(*                                                                         *)
(* A query is a sequence of tokens with spaces between them.  A term of     *)
(* kind "open" is quoted and its quote is missing at the end: what is       *)
(* appended to the query belongs to it.  The names of tags in a legacy      *)
(* search are words: that search and the tag cloud divide others            *)
(* differently, which is left out.                                          *)
(***************************************************************************)
EXTENDS Naturals, Sequences

CONSTANTS
  Keyboards,   \* what a user may type: records of the tokens, the longest query,
               \* the search setting, the selected bundle and the tags that go
               \* with them, each name with the tokens that "#name" is read as
  Bare,        \* values of quoted terms that are rendered without quotes and read
               \* otherwise then -> the tokens they are read as
  MaxLinks     \* links followed after that

VARIABLES
  query,       \* what the search box holds
  keyboard,
  lax,         \* tag_search of the profile is "lax"
  typed,       \* the query that was typed last
  chosen,      \* the tags added to it by links and not removed since
  links        \* links that may still be followed

vars == <<query, keyboard, lax, typed, chosen, links>>

Token(kind, value) == [kind |-> kind, value |-> value]
Operators == {"and", "or", "not"}
Kind(s) == IF s = <<>> THEN "end" ELSE Head(s).kind

KnownTag == DOMAIN keyboard.names
\* Every combination of what a search can tell apart.  Every text has the empty term.
Words ==
  {t.value : t \in {u \in keyboard.tokens :
     u.kind = "term" \/ (keyboard.legacy /\ u.kind \in Operators)}} \ {""}
Bookmark == [text : SUBSET Words, tags : SUBSET KnownTag, unread : BOOLEAN]

-----------------------------------------------------------------------------
(* The parser: each function takes the tokens ahead of it.                   *)

Error == [op |-> "error"]
Fail == [node |-> Error, rest |-> <<>>]
Got(node, rest) == [node |-> node, rest |-> rest]
Joined(op, left, right) ==
  IF right.node = Error THEN Fail
  ELSE Got([op |-> op, left |-> left.node, right |-> right.node], right.rest)

RECURSIVE ParseOr(_), ParseNot(_), AndTail(_), OrTail(_)

Leaves == {"term", "open", "tag", "keyword"}
ParsePrimary(s) ==
  CASE Kind(s) \in Leaves ->
         Got([op |-> IF Kind(s) = "open" THEN "term" ELSE Kind(s), value |-> Head(s).value], Tail(s))
    [] Kind(s) = "left" ->
         LET inner == ParseOr(Tail(s)) IN
         IF Kind(inner.rest) = "right" THEN Got(inner.node, Tail(inner.rest)) ELSE Fail
    [] OTHER -> Fail

ParseNot(s) ==
  IF Kind(s) # "not" THEN ParsePrimary(s)
  ELSE LET operand == ParseNot(Tail(s)) IN
       IF operand.node = Error THEN Fail
       ELSE Got([op |-> "not", arg |-> operand.node], operand.rest)

AndTail(left) ==
  CASE Kind(left.rest) = "and" -> AndTail(Joined("and", left, ParseNot(Tail(left.rest))))
    [] Kind(left.rest) \in Leaves \cup {"left", "not"} ->
         AndTail(Joined("and", left, ParseNot(left.rest)))
    [] OTHER -> left
ParseAnd(s) == AndTail(ParseNot(s))

\* Mutant: the right side of an "or" ends with its first factor.
OrTailShort(left) ==
  IF Kind(left.rest) # "or" THEN left
  ELSE OrTail(Joined("or", left, ParseNot(Tail(left.rest))))
OrTail(left) ==
  IF Kind(left.rest) # "or" THEN left
  ELSE OrTail(Joined("or", left, ParseAnd(Tail(left.rest))))
ParseOr(s) == OrTail(ParseAnd(s))

Nothing == [op |-> "nil"]
Parse(q) ==
  LET all == ParseOr(q) IN
  IF q = <<>> THEN Nothing ELSE IF all.rest = <<>> THEN all.node ELSE Error

-----------------------------------------------------------------------------
(* What a query selects.  A condition may be neutral: an unknown keyword.    *)

Neutral == [neutral |-> TRUE, them |-> Bookmark]
Those(S) == [neutral |-> FALSE, them |-> S]
Both(l, r) ==
  IF l.neutral THEN r ELSE IF r.neutral THEN l ELSE Those(l.them \cap r.them)
Either(l, r) ==
  IF l.neutral THEN r ELSE IF r.neutral THEN l ELSE Those(l.them \cup r.them)
Except(o) == IF o.neutral THEN o ELSE Those(Bookmark \ o.them)

ExactTag(n) == {b \in Bookmark : n \in b.tags}
Term(value) == {b \in Bookmark : value = "" \/ value \in b.text \/ (lax /\ value \in b.tags)}
Condition(kind, value) ==
  CASE kind = "term" -> Those(Term(value))
    [] kind = "tag" -> Those(ExactTag(value))
    [] kind = "keyword" /\ value = "unread" -> Those({b \in Bookmark : b.unread})
    [] kind = "keyword" /\ value = "untagged" -> Those({b \in Bookmark : b.tags = {}})
    [] OTHER -> Neutral

RECURSIVE Expression(_)
Expression(node) ==
  CASE node.op = "and" -> Both(Expression(node.left), Expression(node.right))
    [] node.op = "or" -> Either(Expression(node.left), Expression(node.right))
    [] node.op = "not" -> Except(Expression(node.arg))
    [] node.op = "error" -> Those({})
    [] node.op = "nil" -> Neutral
    [] OTHER -> Condition(node.op, node.value)

\* Every word is a condition of its own; there are no operators.
Legacy(q) ==
  {b \in Bookmark : \A i \in DOMAIN q :
     b \in Condition(IF q[i].kind \in Operators THEN "term" ELSE q[i].kind, q[i].value).them}

\* The filter of a bundle, whose search words never name tags.
Bundled(b, bundle) ==
  /\ bundle.search \subseteq b.text
  /\ bundle.any # {} => bundle.any \cap b.tags # {}
  /\ bundle.all \subseteq b.tags /\ bundle.excluded \cap b.tags = {}
  /\ bundle.unread # "off" => b.unread = (bundle.unread = "yes")

Matches(q) ==
  {b \in IF keyboard.legacy THEN Legacy(q) ELSE Expression(Parse(q)).them :
     Bundled(b, keyboard.bundle)}

-----------------------------------------------------------------------------
(* The links of the tag cloud.                                               *)

\* What names a tag.
Names(kind) == kind = "tag" \/ (lax /\ kind = "term")

RECURSIVE NamesIn(_)
NamesIn(node) ==
  CASE node.op \in {"and", "or"} -> NamesIn(node.left) \cup NamesIn(node.right)
    [] node.op = "not" -> NamesIn(node.arg)
    [] Names(node.op) -> {node.value}
    [] OTHER -> {}
TagNames(q) == NamesIn(Parse(q))

RECURSIVE Stripped(_, _)
Stripped(node, n) ==
  CASE node.op \in {"and", "or"} ->
         LET l == Stripped(node.left, n)
             r == Stripped(node.right, n) IN
         IF l = Nothing THEN r ELSE IF r = Nothing THEN l ELSE [node EXCEPT !.left = l, !.right = r]
    [] node.op = "not" ->
         LET o == Stripped(node.arg, n) IN IF o = Nothing THEN o ELSE [node EXCEPT !.arg = o]
    [] node.value = n /\ Names(node.op) -> Nothing
    [] OTHER -> node

InParentheses(s) == <<Token("left", "(")>> \o s \o <<Token("right", ")")>>

\* A term is quoted again if it has spaces, quotes or parentheses in it.  Without
\* quotes the name of an operator is that operator, "#name" is a tag, "!unread" a
\* keyword and the empty term nothing; a "#" or "!" within a term ends it.
Unquoted(value) == IF value \in DOMAIN Bare THEN Bare[value] ELSE <<Token("term", value)>>
RECURSIVE Rendered(_)
Operand(node, ops) ==
  IF node.op \in ops THEN InParentheses(Rendered(node)) ELSE Rendered(node)
\* Mutant: no parentheses around the factors of an "and".
RenderedBare(node) ==
  CASE node.op = "and" -> Rendered(node.left) \o Rendered(node.right)
    [] node.op = "or" -> Rendered(node.left) \o <<Token("or", "or")>> \o Rendered(node.right)
    [] node.op = "not" -> <<Token("not", "not")>> \o Operand(node.arg, {"and", "or"})
    [] node.op = "nil" -> <<>>
    [] node.op = "term" -> Unquoted(node.value)
    [] OTHER -> <<Token(node.op, node.value)>>
Rendered(node) ==
  CASE node.op = "and" -> Operand(node.left, {"or"}) \o Operand(node.right, {"or"})
    [] node.op = "or" -> Rendered(node.left) \o <<Token("or", "or")>> \o Rendered(node.right)
    [] node.op = "not" -> <<Token("not", "not")>> \o Operand(node.arg, {"and", "or"})
    [] node.op = "nil" -> <<>>
    [] node.op = "term" -> Unquoted(node.value)
    [] OTHER -> <<Token(node.op, node.value)>>

StripTag(q, n) ==
  IF keyboard.legacy
  THEN SelectSeq(q, LAMBDA t : ~(t.value = n /\ Names(t.kind)))
  ELSE IF Parse(q) = Error THEN q ELSE Rendered(Stripped(Parse(q), n))

\* The text s is written behind q.
Extended(q, s) ==
  IF q # <<>> /\ q[Len(q)].kind = "open" THEN [q EXCEPT ![Len(q)].value = "longer"] ELSE q \o s
\* The name is written as it is: "#it's" is the tag "it" and an open quote.
AddedTag(q, n) ==
  IF ~keyboard.legacy /\ Parse(q).op = "or"
  THEN Extended(<<Token("left", "(")>> \o q, <<Token("right", ")")>> \o keyboard.names[n])
  ELSE Extended(q, keyboard.names[n])

Matching == UNION {b.tags : b \in Matches(query)}
Unselected == Matching \ TagNames(query)
Selected == KnownTag \cap TagNames(query)

-----------------------------------------------------------------------------
Init ==
  /\ keyboard \in Keyboards /\ lax \in BOOLEAN
  /\ query = <<>> /\ typed = <<>> /\ chosen = {} /\ links = MaxLinks

Type(t) ==
  /\ query = typed /\ Len(query) < keyboard.most
  /\ query # <<>> => query[Len(query)].kind # "open"
  /\ query' = Append(query, t) /\ typed' = query'
  /\ UNCHANGED <<keyboard, lax, chosen, links>>

AddTag(n) ==
  /\ links > 0 /\ n \in Unselected
  /\ query' = AddedTag(query, n)
  /\ chosen' = chosen \cup {n} /\ links' = links - 1
  /\ UNCHANGED <<keyboard, lax, typed>>

\* The link of a tag that was typed changes the search itself.
RemoveTag(n) ==
  /\ links > 0 /\ n \in Selected
  /\ query' = StripTag(query, n)
  /\ chosen' = IF n \in chosen THEN chosen \ {n} ELSE {}
  /\ typed' = IF n \in chosen THEN typed ELSE query'
  /\ links' = links - 1
  /\ UNCHANGED <<keyboard, lax>>

Next ==
  \/ \E t \in keyboard.tokens : Type(t)
  \/ \E n \in KnownTag : AddTag(n) \/ RemoveTag(n)

-----------------------------------------------------------------------------
(* A reference for the grammar: what a sequence of tokens may mean, over     *)
(* every way to divide it.                                                   *)

From(s, i) == SubSeq(s, i, Len(s))
RECURSIVE OrMeans(_), AndMeans(_), NotMeans(_)
NotMeans(s) ==
  CASE s = <<>> -> {}
    [] s # <<>> /\ Kind(s) = "not" -> {Except(m) : m \in NotMeans(Tail(s))}
    [] Len(s) = 1 /\ Kind(s) \in Leaves ->
         {Condition(IF Kind(s) = "open" THEN "term" ELSE Kind(s), s[1].value)}
    [] Len(s) > 2 /\ Kind(s) = "left" /\ s[Len(s)].kind = "right" -> OrMeans(SubSeq(s, 2, Len(s) - 1))
    [] OTHER -> {}
AndMeans(s) ==
  NotMeans(s) \cup
  UNION {{Both(l, r) : l \in AndMeans(SubSeq(s, 1, i)),
                       r \in NotMeans(From(s, i + 1))
                               \cup IF s[i + 1].kind = "and" THEN NotMeans(From(s, i + 2)) ELSE {}} :
         i \in 1..Len(s) - 1}
OrMeans(s) ==
  AndMeans(s) \cup
  UNION {{Either(l, r) : l \in OrMeans(SubSeq(s, 1, i - 1)), r \in AndMeans(From(s, i + 1))} :
         i \in {k \in 1..Len(s) : s[k].kind = "or"}}

\* The parser accepts what the grammar divides, and the conditions it makes
\* select what the grammar means: "or" binds weakest, juxtaposition is "and",
\* "not" takes one factor.  Nothing has two meanings.
GrammarHolds ==
  ~keyboard.legacy /\ query # <<>> =>
    OrMeans(query) = IF Parse(query) = Error THEN {} ELSE {Expression(Parse(query))}

\* Queries of which some link is known to change the meaning: a quoted term that
\* is rendered without quotes and read as something else, a quote left open takes
\* in the tag, and the legacy search knows no operators but the cloud parses them.
Plain(q) ==
  \A i \in DOMAIN q :
    /\ ~(q[i].kind = "term" /\ q[i].value \in DOMAIN Bare) /\ q[i].kind # "open"
    /\ ~(keyboard.legacy /\ q[i].kind \in Operators)
\* Tags whose link adds just them: no spaces, quotes or parentheses in the name.
Linkable == {n \in KnownTag : keyboard.names[n] = <<Token("tag", n)>>}

\* However many links of the tag cloud a user follows, the list shows what the
\* typed search selects among the bookmarks with the tags that are chosen: a
\* link adds its tag to the whole search, its removal takes back that and no
\* more, and rendering the parsed query again loses nothing, but for queries that
\* are not Plain and tags that are not Linkable.
TagLinksNarrow ==
  Plain(typed) /\ chosen \subseteq Linkable =>
    Matches(query) = {b \in Matches(typed) : chosen \subseteq b.tags}
===============================================================================
