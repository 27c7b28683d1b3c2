------------------------------ MODULE Accounts ------------------------------
(***************************************************************************)
(* Accounts, sessions and tokens (internal/auth, internal/settings/tokens.go *)
(* and the handlers of internal/httpserver that use them): login with a      *)
(* password, with an OpenID provider, or with the header of a proxy; changes *)
(* of a password; the API token that is shown once; the feed token.          *)
(*                                                                           *)
(* Almost nothing here runs in a transaction: a handler is a chain of single *)
(* statements, and what it read is compared with the row when it writes      *)
(* (UPDATE ... WHERE session_data = ..., WHERE password = ...).  Each         *)
(* statement is a step; a password change, which is a transaction, reads the *)
(* session in one step and writes both rows in another, as PostgreSQL lets   *)
(* it do.  A hash of a password is a number that is never given out twice,   *)
(* as the salt makes it.                                                     *)
(***************************************************************************)
EXTENDS Integers, FiniteSets

CONSTANTS
  Name,          \* usernames, which auth_user keeps unique
  Browser, Request,
  Modes,         \* the configurations of the server: each a set of operations
  NoFeed,        \* the absence of a feed token
  MaxSessions, MaxHashes, MaxTokens, MaxFlows,  \* bounds: rows ever made
  MaxFaults      \* bound: database errors

Operation == {"login", "logout", "password", "admin", "token", "page", "oidc", "proxy", "active"}

ASSUME AccountsAssumption ==
  /\ Name # {} /\ Browser # {}
  /\ Modes \subseteq SUBSET Operation /\ NoFeed \notin Request
  /\ {MaxSessions, MaxHashes, MaxTokens, MaxFlows, MaxFaults} \subseteq Nat

VARIABLES
  mode,        \* the operations this server offers
  account,     \* auth_user with its profile, by name
  session,     \* django_session, by key
  token,       \* bookmarks_apitoken: the owners, by id
  feed,        \* bookmarks_feedtoken, by owner
  flow,        \* the rows of django_session that hold an OpenID login under way
  last,        \* the last hash, session key, token id and flow given out
  cookie,      \* each browser's session cookie, 0 for none
  call,        \* what each request has read
  faults,
  stale,       \* history: sessions that a change of their user's password ended
  shown,       \* history: how often each token was shown
  feedShown,   \* history: the feed tokens that pages showed
  handed,      \* history: session keys that a response carried
  signed       \* history: sessions made from each flow

vars == <<mode, account, session, token, feed, flow, last, cookie, call, faults,
          stale, shown, feedShown, handed, signed>>
histories == <<stale, shown, feedShown, handed, signed>>
NoHash == -1
NoName == CHOOSE n \in Name : TRUE    \* the first account; in a request, no name yet
Unusable == 0      \* "!", the password of accounts that no password opens

Idle == [pc |-> "idle", op |-> "none", browser |-> CHOOSE b \in Browser : TRUE,
         key |-> 0, name |-> NoName, hash |-> NoHash, made |-> 0,
         stored |-> <<>>, token |-> 0, feed |-> NoFeed, flow |-> 0]

Init ==
  /\ mode \in Modes
  /\ account \in [{NoName} -> [hash : {1}, active : {TRUE}, email : BOOLEAN]]
  /\ session = <<>> /\ token = <<>>
  /\ feed = [n \in Name |-> NoFeed] /\ flow = {}
  /\ last = [hash |-> 1, key |-> 0, token |-> 0, flow |-> 0]
  /\ cookie = [b \in Browser |-> 0]
  /\ call = [r \in Request |-> Idle] /\ faults = 0
  /\ stale = {} /\ shown = [t \in 1..MaxTokens |-> 0] /\ feedShown = {}
  /\ handed = {} /\ signed = [f \in 0..MaxFlows |-> 0]

-----------------------------------------------------------------------------
At(r, pc) == call[r].pc = pc
Becomes(r, local) == call' = [call EXCEPT ![r] = local]
Goes(r, pc) == Becomes(r, [call[r] EXCEPT !.pc = pc])
Done(r) == Becomes(r, Idle)
With(f, k, x) == [i \in DOMAIN f \cup {k} |-> IF i = k THEN x ELSE f[i]]
Without(f, k) == [i \in DOMAIN f \ {k} |-> f[i]]
Active(n) == n \in DOMAIN account /\ account[n].active

\* AuthenticateSession
Live(k) ==
  /\ k \in DOMAIN session
  /\ Active(session[k].name)
  /\ session[k].hash = account[session[k].name].hash

\* A request of browser b to operation op, with the cookie b has, for user n.
Begun(b, op, pc, n) ==
  [Idle EXCEPT !.pc = pc, !.op = op, !.browser = b, !.key = cookie[b], !.name = n]
Starts(r, local) == local.op \in mode /\ At(r, "idle") /\ Becomes(r, local)

\* The same for the pages of a user who is signed in (settingsSession).
StartsSignedIn(r, b, op, pc) ==
  /\ Live(cookie[b])
  /\ Starts(r, Begun(b, op, pc, session[cookie[b]].name))

-----------------------------------------------------------------------------
(* Sessions                                                                *)

\* serveLogin: the password is right.  A browser that is signed in is sent on.
StartLogin(r, b, n) ==
  /\ ~Live(cookie[b])
  /\ Active(n) /\ account[n].hash # Unusable
  /\ Starts(r, Begun(b, "login", "hash", n))
  /\ UNCHANGED <<mode, account, session, token, feed, flow, last, cookie, faults, histories>>

\* serveAdminLogin takes a password also from a browser that is signed in.
StartAdminLogin(r, b, n) ==
  /\ "admin" \in mode
  /\ Active(n) /\ account[n].hash # Unusable
  /\ Starts(r, Begun(b, "login", "hash", n))
  /\ UNCHANGED <<mode, account, session, token, feed, flow, last, cookie, faults, histories>>

\* CreateSession reads the password of an active user, ...
\* Mutant: it goes on when there is no such user.
ReadHashAnyway(r) ==
  /\ At(r, "hash")
  /\ Becomes(r, [call[r] EXCEPT !.pc = "insert",
                   !.hash = IF Active(call[r].name) THEN account[call[r].name].hash ELSE @])
  /\ UNCHANGED <<mode, account, session, token, feed, flow, last, cookie, faults, histories>>
ReadHash(r) ==
  /\ At(r, "hash")
  /\ IF Active(call[r].name)
       THEN Becomes(r, [call[r] EXCEPT !.pc = "insert", !.hash = account[call[r].name].hash])
       ELSE Done(r)
  /\ UNCHANGED <<mode, account, session, token, feed, flow, last, cookie, faults, histories>>

\* ... and then inserts the session.
InsertSession(r) ==
  /\ At(r, "insert") /\ last.key < MaxSessions
  /\ last' = [last EXCEPT !.key = @ + 1]
  /\ session' = With(session, last'.key, [name |-> call[r].name, hash |-> call[r].hash, reveal |-> 0])
  /\ signed' = [signed EXCEPT ![call[r].flow] = @ + 1]
  /\ Becomes(r, [call[r] EXCEPT !.pc = IF call[r].op \in {"login", "oidc"} THEN "record" ELSE "respond",
                   !.made = last'.key])
  /\ UNCHANGED <<mode, account, token, feed, flow, cookie, faults, stale, shown, feedShown, handed>>

\* RecordLogin; when it fails, the session that nobody has yet is deleted.
\* Mutant: the session is left.
RecordLoginOnly(r) ==
  /\ At(r, "record")
  /\ \/ Goes(r, "respond") /\ UNCHANGED faults
     \/ faults < MaxFaults /\ faults' = faults + 1 /\ Done(r)
  /\ UNCHANGED <<mode, account, session, token, feed, flow, last, cookie, histories>>
RecordLogin(r) ==
  /\ At(r, "record")
  /\ \/ Goes(r, "respond") /\ UNCHANGED faults
     \/ faults < MaxFaults /\ faults' = faults + 1 /\ Goes(r, "undo")
  /\ UNCHANGED <<mode, account, session, token, feed, flow, last, cookie, histories>>

Undo(r) ==
  /\ At(r, "undo")
  /\ \/ session' = Without(session, call[r].made) /\ UNCHANGED faults
     \/ faults < MaxFaults /\ faults' = faults + 1 /\ UNCHANGED session
  /\ Done(r)
  /\ UNCHANGED <<mode, account, token, feed, flow, last, cookie, histories>>

\* The response sets the cookie; a login with the provider deletes the session
\* the browser had.
Respond(r) ==
  /\ At(r, "respond")
  /\ session' = IF call[r].op = "oidc" THEN Without(session, call[r].key) ELSE session
  /\ cookie' = [cookie EXCEPT ![call[r].browser] = call[r].made]
  /\ handed' = handed \cup {call[r].made}
  /\ Done(r)
  /\ UNCHANGED <<mode, account, token, feed, flow, last, faults, stale, shown, feedShown, signed>>

\* serveLogout, the logout of serveOIDC, and a proxied request without a user.
Logout(b) ==
  /\ mode \cap {"logout", "proxy"} # {} /\ cookie[b] # 0
  /\ session' = Without(session, cookie[b])
  /\ cookie' = [cookie EXCEPT ![b] = 0]
  /\ UNCHANGED <<mode, account, token, feed, flow, last, call, faults, histories>>

-----------------------------------------------------------------------------
(* Passwords                                                               *)

Ends(n, kept) == stale' = stale \cup {k \in DOMAIN session \ {kept} : session[k].name = n}

\* ChangePassword reads the password and checks the old one against it, ...
StartPassword(r, b) ==
  /\ Live(cookie[b]) /\ account[session[cookie[b]].name].hash # Unusable
  /\ Starts(r, [Begun(b, "password", "verified", session[cookie[b]].name) EXCEPT
                 !.hash = account[session[cookie[b]].name].hash])
  /\ UNCHANGED <<mode, account, session, token, feed, flow, last, cookie, faults, histories>>

\* ... reads the session in the transaction, which has to hold that password, ...
ReadOwnSession(r) ==
  LET k == call[r].key IN
  /\ At(r, "verified")
  /\ IF k \in DOMAIN session /\ session[k].hash = call[r].hash
       THEN Becomes(r, [call[r] EXCEPT !.pc = "change", !.stored = session[k]])
       ELSE Done(r)
  /\ UNCHANGED <<mode, account, session, token, feed, flow, last, cookie, faults, histories>>

\* ... and writes both rows if neither has changed.
\* Mutant: whatever the password is now.
WritePasswordBlindly(r) ==
  LET k == call[r].key n == call[r].name IN
  /\ At(r, "change") /\ last.hash < MaxHashes
  /\ IF k \in DOMAIN session /\ session[k] = call[r].stored
       THEN /\ last' = [last EXCEPT !.hash = @ + 1]
            /\ account' = [account EXCEPT ![n].hash = last'.hash]
            /\ session' = [session EXCEPT ![k].hash = last'.hash]
            /\ Ends(n, k)
       ELSE UNCHANGED <<last, account, session, stale>>
  /\ Done(r)
  /\ UNCHANGED <<mode, token, feed, flow, cookie, faults, shown, feedShown, handed, signed>>
WritePassword(r) ==
  LET k == call[r].key n == call[r].name IN
  /\ At(r, "change") /\ last.hash < MaxHashes
  /\ IF account[n].hash = call[r].hash /\ k \in DOMAIN session /\ session[k] = call[r].stored
       THEN /\ last' = [last EXCEPT !.hash = @ + 1]
            /\ account' = [account EXCEPT ![n].hash = last'.hash]
            /\ session' = [session EXCEPT ![k].hash = last'.hash]
            /\ Ends(n, k)
       ELSE UNCHANGED <<last, account, session, stale>>
  /\ Done(r)
  /\ UNCHANGED <<mode, token, feed, flow, cookie, faults, shown, feedShown, handed, signed>>

\* serveAdminUserPassword: an administrator sets the password of n, whatever it
\* was.  One who sets his own gets a new session.
AdminPassword(r, b, n) ==
  /\ n \in DOMAIN account /\ last.hash < MaxHashes
  /\ Live(cookie[b]) /\ "admin" \in mode
  /\ IF session[cookie[b]].name = n THEN StartsSignedIn(r, b, "admin", "hash")
                                  ELSE UNCHANGED call
  /\ last' = [last EXCEPT !.hash = @ + 1]
  /\ account' = [account EXCEPT ![n].hash = last'.hash]
  /\ Ends(n, 0)
  /\ UNCHANGED <<mode, session, token, feed, flow, cookie, faults, shown, feedShown, handed, signed>>

\* The user form of the admin pages, and ensureSuperuser at the start.
SetActive(n) ==
  /\ "active" \in mode /\ n \in DOMAIN account
  /\ account' = [account EXCEPT ![n].active = ~@]
  /\ UNCHANGED <<mode, session, token, feed, flow, last, cookie, call, faults, histories>>

AddAccount(n, email) ==
  /\ "active" \in mode /\ n \notin DOMAIN account /\ last.hash < MaxHashes
  /\ last' = [last EXCEPT !.hash = @ + 1]
  /\ account' = With(account, n, [hash |-> last'.hash, active |-> TRUE, email |-> email])
  /\ UNCHANGED <<mode, session, token, feed, flow, cookie, call, faults, histories>>

-----------------------------------------------------------------------------
(* The API token that is shown once                                        *)

\* serveCreateAPIToken inserts the token, ...
StartToken(r, b) ==
  /\ last.token < MaxTokens /\ Live(cookie[b])
  /\ last' = [last EXCEPT !.token = @ + 1]
  /\ token' = With(token, last'.token, session[cookie[b]].name)
  /\ Starts(r, [Begun(b, "token", "reveal", session[cookie[b]].name) EXCEPT !.token = last'.token])
  /\ UNCHANGED <<mode, account, session, feed, flow, cookie, faults, histories>>

\* ... and then SetAPITokenReveal reads the session and stores the key in it,
\* for the next page.
ReadForReveal(r) ==
  LET k == call[r].key IN
  /\ At(r, "reveal")
  /\ IF k \in DOMAIN session THEN Becomes(r, [call[r] EXCEPT !.pc = "store", !.stored = session[k]]) ELSE Done(r)
  /\ UNCHANGED <<mode, account, session, token, feed, flow, last, cookie, faults, histories>>

StoreReveal(r) ==
  LET k == call[r].key IN
  /\ At(r, "store")
  /\ session' = IF k \in DOMAIN session /\ session[k] = call[r].stored
                  THEN [session EXCEPT ![k].reveal = call[r].token] ELSE session
  /\ Done(r)
  /\ UNCHANGED <<mode, account, token, feed, flow, last, cookie, faults, histories>>

\* serveDeleteAPIToken, for a token of the user.
DeleteToken(b, t) ==
  /\ "token" \in mode /\ Live(cookie[b])
  /\ t \in DOMAIN token /\ token[t] = session[cookie[b]].name
  /\ token' = Without(token, t)
  /\ UNCHANGED <<mode, account, session, feed, flow, last, cookie, call, faults, histories>>

\* serveIntegrations: the feed token, made by the first page, ...
OpenPage(r, b) ==
  /\ StartsSignedIn(r, b, "page", "feed")
  /\ UNCHANGED <<mode, account, session, token, feed, flow, last, cookie, faults, histories>>

ReadFeed(r) ==
  LET f == feed[call[r].name] IN
  /\ At(r, "feed")
  /\ IF f = NoFeed THEN Goes(r, "newFeed")
                    ELSE Becomes(r, [call[r] EXCEPT !.pc = "take", !.feed = f])
  /\ UNCHANGED <<mode, account, session, token, feed, flow, last, cookie, faults, histories>>

\* EnsureFeedToken: the owner is unique, so of two pages one inserts, and the
\* other reads what the first inserted.
\* Mutant: the other shows the key it made itself.
KeepOwnFeed(r) ==
  LET n == call[r].name IN
  /\ At(r, "newFeed")
  /\ feed' = IF feed[n] = NoFeed THEN [feed EXCEPT ![n] = r] ELSE feed
  /\ Becomes(r, [call[r] EXCEPT !.pc = "take", !.feed = r])
  /\ UNCHANGED <<mode, account, session, token, flow, last, cookie, faults, histories>>
InsertFeed(r) ==
  LET n == call[r].name IN
  /\ At(r, "newFeed")
  /\ IF feed[n] = NoFeed THEN /\ feed' = [feed EXCEPT ![n] = r]
                              /\ Becomes(r, [call[r] EXCEPT !.pc = "take", !.feed = r])
                         ELSE Goes(r, "feed") /\ UNCHANGED feed
  /\ UNCHANGED <<mode, account, session, token, flow, last, cookie, faults, histories>>

\* ... and the token to show: TakeAPITokenReveal reads it from the session ...
ReadReveal(r) ==
  LET k == call[r].key IN
  /\ At(r, "take")
  /\ IF k \in DOMAIN session THEN Becomes(r, [call[r] EXCEPT !.pc = "taken", !.stored = session[k]]) ELSE Done(r)
  /\ UNCHANGED <<mode, account, session, token, feed, flow, last, cookie, faults, histories>>

\* ... and shows it if it could take it away.
Shows(r, t) ==
  /\ shown' = IF t = 0 THEN shown ELSE [shown EXCEPT ![t] = @ + 1]
  /\ feedShown' = feedShown \cup {<<call[r].name, call[r].feed>>}

\* Mutant: it shows what it read.
TakeBlindly(r) ==
  LET k == call[r].key IN
  /\ At(r, "taken")
  /\ session' = IF k \in DOMAIN session THEN [session EXCEPT ![k].reveal = 0] ELSE session
  /\ Shows(r, call[r].stored.reveal) /\ Done(r)
  /\ UNCHANGED <<mode, account, token, feed, flow, last, cookie, faults, stale, handed, signed>>
TakeReveal(r) ==
  LET k == call[r].key IN
  /\ At(r, "taken")
  /\ IF k \in DOMAIN session /\ session[k] = call[r].stored
       THEN session' = [session EXCEPT ![k].reveal = 0] /\ Shows(r, call[r].stored.reveal)
       ELSE UNCHANGED session /\ Shows(r, 0)
  /\ Done(r)
  /\ UNCHANGED <<mode, account, token, feed, flow, last, cookie, faults, stale, handed, signed>>

-----------------------------------------------------------------------------
(* Logins with a provider and through a proxy                              *)

\* beginOIDC keeps the state of the login in a row of django_session.
BeginFlow ==
  /\ "oidc" \in mode /\ last.flow < MaxFlows
  /\ last' = [last EXCEPT !.flow = @ + 1]
  /\ flow' = flow \cup {last'.flow}
  /\ UNCHANGED <<mode, account, session, token, feed, cookie, call, faults, histories>>

\* consumeOIDCState: a callback, which may be delivered again, deletes the row
\* and reads it in the same statement.
\* Mutant: it reads the row, and deletes it at the end.
Peek(r, b, f) ==
  /\ f \in flow /\ Starts(r, [Begun(b, "oidc", "exchange", NoName) EXCEPT !.flow = f])
  /\ UNCHANGED <<mode, account, session, token, feed, flow, last, cookie, faults, histories>>
Consume(r, b, f) ==
  /\ f \in flow /\ Starts(r, [Begun(b, "oidc", "exchange", NoName) EXCEPT !.flow = f])
  /\ flow' = flow \ {f}
  /\ UNCHANGED <<mode, account, session, token, feed, last, cookie, faults, histories>>

\* The provider exchanges the code; verifyOIDCIDToken and fetchOIDCUserInfo
\* accept what it says, that the user is n, or the login ends.
Exchange(r) ==
  /\ At(r, "exchange")
  /\ \/ Done(r)
     \/ \E n \in Name : Becomes(r, [call[r] EXCEPT !.pc = "lookup", !.name = n])
  /\ UNCHANGED <<mode, account, session, token, feed, flow, last, cookie, faults, histories>>

\* GetOrCreateOIDCUser finds the account by its e-mail address.
FindByEmail(r) ==
  LET n == call[r].name IN
  /\ At(r, "lookup") /\ call[r].op = "oidc"
  /\ IF n \in DOMAIN account /\ account[n].email
       THEN IF account[n].active THEN Goes(r, "hash") ELSE Done(r)
       ELSE Goes(r, "create")
  /\ UNCHANGED <<mode, account, session, token, feed, flow, last, cookie, faults, histories>>

\* proxyAuthentication: a browser whose session is not that of n, the user in
\* the header, loses it.
StartProxied(r, b, n) ==
  /\ ~(Live(cookie[b]) /\ session[cookie[b]].name = n)
  /\ Starts(r, Begun(b, "proxy", "lookup", n))
  /\ session' = Without(session, cookie[b])
  /\ UNCHANGED <<mode, account, token, feed, flow, last, cookie, faults, histories>>

\* GetOrCreateRemoteUser finds the account by its name; an inactive one leaves
\* the browser signed out.
FindByName(r) ==
  LET n == call[r].name IN
  /\ At(r, "lookup") /\ call[r].op = "proxy"
  /\ IF n \notin DOMAIN account THEN Goes(r, "create") /\ UNCHANGED cookie
     ELSE IF account[n].active THEN Goes(r, "hash") /\ UNCHANGED cookie
     ELSE Done(r) /\ cookie' = [cookie EXCEPT ![call[r].browser] = 0]
  /\ UNCHANGED <<mode, account, session, token, feed, flow, last, faults, histories>>

\* createUserWithHash: the name is unique, so of two requests one inserts.  A
\* proxied request then looks again; a login with the provider ends.
\* Mutant: a proxied request ends too.
CreateOrEnd(r) ==
  LET n == call[r].name IN
  /\ At(r, "create")
  /\ IF n \notin DOMAIN account
       THEN /\ account' = With(account, n, [hash |-> Unusable, active |-> TRUE, email |-> call[r].op = "oidc"])
            /\ Goes(r, "hash")
       ELSE UNCHANGED account /\ Done(r)
  /\ UNCHANGED <<mode, session, token, feed, flow, last, cookie, faults, histories>>
CreateAccount(r) ==
  LET n == call[r].name IN
  /\ At(r, "create")
  /\ IF n \notin DOMAIN account
       THEN /\ account' = With(account, n, [hash |-> Unusable, active |-> TRUE, email |-> call[r].op = "oidc"])
            /\ Goes(r, "hash")
       ELSE /\ UNCHANGED account
            /\ IF call[r].op = "proxy" THEN Goes(r, "lookup") ELSE Done(r)
  /\ UNCHANGED <<mode, session, token, feed, flow, last, cookie, faults, histories>>

-----------------------------------------------------------------------------
Next ==
  \/ \E r \in Request, b \in Browser :
       \/ StartPassword(r, b) \/ StartToken(r, b) \/ OpenPage(r, b)
       \/ \E n \in Name : \/ StartLogin(r, b, n) \/ StartAdminLogin(r, b, n)
                        \/ AdminPassword(r, b, n) \/ StartProxied(r, b, n)
       \/ \E f \in 1..MaxFlows : Consume(r, b, f)
  \/ \E r \in Request :
       \/ ReadHash(r) \/ InsertSession(r) \/ RecordLogin(r) \/ Undo(r) \/ Respond(r)
       \/ ReadOwnSession(r) \/ WritePassword(r) \/ ReadForReveal(r) \/ StoreReveal(r)
       \/ ReadFeed(r) \/ InsertFeed(r) \/ ReadReveal(r) \/ TakeReveal(r)
       \/ Exchange(r) \/ FindByEmail(r) \/ FindByName(r) \/ CreateAccount(r)
  \/ \E b \in Browser : Logout(b) \/ \E t \in 1..MaxTokens : DeleteToken(b, t)
  \/ \E n \in Name : SetActive(n) \/ \E email \in BOOLEAN : AddAccount(n, email)
  \/ BeginFlow

Spec == Init /\ [][Next]_vars

-----------------------------------------------------------------------------
(* Properties                                                              *)

\* Sessions, tokens and cookies keep their types; a session belongs to an
\* account and holds a password that the account has or had.
TypeOK ==
  /\ DOMAIN account \subseteq Name
  /\ \A n \in DOMAIN account : account[n].hash \in 0..last.hash /\ account[n].active \in BOOLEAN
  /\ DOMAIN session \subseteq 1..last.key
  /\ \A k \in DOMAIN session : /\ session[k].name \in DOMAIN account
                               /\ session[k].hash \in 0..last.hash
                               /\ session[k].reveal \in 0..last.token
  /\ DOMAIN token \subseteq 1..last.token /\ feed \in [Name -> Request \cup {NoFeed}]
  /\ flow \subseteq 1..last.flow /\ cookie \in [Browser -> 0..last.key]

\* A change of a password ends the user's sessions, save the one that made it:
\* none of them ever authenticates again, however changes and logins overlap.
ChangeEndsSessions == \A k \in stale : ~Live(k)

\* An API token is shown at most once, whatever else writes the session.
ShownOnce == \A t \in 1..MaxTokens : shown[t] <= 1

\* All the pages of a user show the feed token that is stored.
FeedTokenAgrees == \A s \in feedShown : feed[s[1]] = s[2]

\* A token is shown once, and every page shows the feed token that is stored.
TokensShown == ShownOnce /\ FeedTokenAgrees

\* A login that was begun with the provider makes at most one session, however
\* often its callback arrives.
FlowSignsInOnce == \A f \in 1..MaxFlows : signed[f] <= 1

\* A session that was given to no browser belongs to a request under way: a
\* login that fails takes its session back (unless a second error stops it).
FailedLoginLeavesNoSession ==
  faults <= 1 => \A k \in DOMAIN session \ handed : \E r \in Request : call[r].made = k

\* One session for each login begun with the provider, none for a login that
\* failed.
OneSessionPerLogin == FlowSignsInOnce /\ FailedLoginLeavesNoSession

\* A request that the proxy names n for ends with the browser signed in as n,
\* or n is inactive: also when two requests create the account at once.
ProxyStep ==
  \A r \in Request :
    call[r].op = "proxy" /\ call'[r].op = "none" =>
      LET n == call[r].name b == call[r].browser IN
      \/ n \in DOMAIN account /\ ~account[n].active
      \/ cookie'[b] \in DOMAIN session' /\ session'[cookie'[b]].name = n
ProxySignsIn == [][ProxyStep]_vars

=============================================================================
