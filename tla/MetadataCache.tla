----------------------------- MODULE MetadataCache -----------------------------
(***************************************************************************)
(* The cache of loaded pages that all requests share                       *)
(* (internal/metadata/cache.go): the last `Limit' pages in the order of    *)
(* their use.  A load is two critical sections of one mutex with a         *)
(* transfer, without the mutex, between them.                              *)
(***************************************************************************)
EXTENDS Naturals, Sequences, SequencesExt

CONSTANTS
  URL,
  Request,    \* concurrent calls of Load
  Limit,      \* of entries
  MaxLoads    \* bound: transfers

CacheAssumption == Limit \in Nat /\ MaxLoads \in Nat

VARIABLES
  entries,    \* [url, value], the most recently used first
  call,       \* the local variables of each call
  loads,      \* how many pages were loaded; a page's value is its number
  given       \* history: what calls returned for each URL since it has been cached
vars == <<entries, call, loads, given>>

Idle == [pc |-> "idle"]

Init ==
  /\ entries = <<>>
  /\ call = [r \in Request |-> Idle]
  /\ loads = 0
  /\ given = [u \in URL |-> {}]

Cached(url) == {i \in DOMAIN entries : entries[i].url = url}
ToFront(i) == <<entries[i]>> \o RemoveAt(entries, i)
Kept(es, u) == \E i \in DOMAIN es : es[i].url = u
\* What is not cached any more may be another page the next time.
Gives(url, value) ==
  given' = [u \in URL |->
              IF ~Kept(entries', u) THEN {} ELSE given[u] \cup {v \in {value} : u = url}]

\* The first critical section: a hit is returned.
Hit(r, url) ==
  /\ call[r] = Idle
  /\ \E i \in Cached(url) : entries' = ToFront(i) /\ Gives(url, entries[i].value)
  /\ UNCHANGED <<call, loads>>

\* The transfer, after a miss or because the caller asked for the page itself.
Transfer(r, url, ignoreCache) ==
  /\ call[r] = Idle /\ loads < MaxLoads
  /\ ignoreCache \/ Limit = 0 \/ Cached(url) = {}
  /\ loads' = loads + 1
  /\ call' = [call EXCEPT ![r] = [pc |-> "loaded", url |-> url, value |-> loads', ignore |-> ignoreCache]]
  /\ UNCHANGED <<entries, given>>

\* Such a page is not kept.
Bypass(r) ==
  /\ call[r].pc = "loaded" /\ (call[r].ignore \/ Limit = 0)
  /\ call' = [call EXCEPT ![r] = Idle]
  /\ UNCHANGED <<entries, loads, given>>

\* The second critical section: another call may have cached the page since.
Inserts(r, found) ==
  /\ call[r].pc = "loaded" /\ ~call[r].ignore /\ Limit > 0
  /\ LET url == call[r].url IN
     IF found # {}
     THEN \E i \in found : entries' = ToFront(i) /\ Gives(url, entries[i].value)
     ELSE LET more == <<[url |-> url, value |-> call[r].value]>> \o entries IN
          /\ entries' = SubSeq(more, 1, IF Len(more) > Limit THEN Limit ELSE Len(more))
          /\ Gives(url, call[r].value)
  /\ call' = [call EXCEPT ![r] = Idle]
  /\ UNCHANGED loads
\* Mutant: the page is inserted without another look.
InsertAnyway(r) == Inserts(r, {})
Insert(r) == call[r].pc = "loaded" /\ Inserts(r, Cached(call[r].url))

Next ==
  \E r \in Request :
    \/ Bypass(r) \/ Insert(r)
    \/ \E url \in URL : Hit(r, url) \/ \E ignore \in BOOLEAN : Transfer(r, url, ignore)

Spec == Init /\ [][Next]_vars

-----------------------------------------------------------------------------
\* While a page is cached, every call that did not ask for a fresh one returned
\* the same: the preview that a form showed is what a later save uses, also when
\* two calls loaded the page at once.  The cache keeps to its limit and has a
\* page once (cache.go, "so a bookmark save can reuse its preview").
OneValueWhileCached ==
  /\ Len(entries) <= Limit
  /\ \A i, j \in DOMAIN entries : entries[i].url = entries[j].url => i = j
  /\ \A i \in DOMAIN entries : given[entries[i].url] = {entries[i].value}
================================================================================
