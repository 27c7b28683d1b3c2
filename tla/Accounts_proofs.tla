--------------------------- MODULE Accounts_proofs ---------------------------
(***************************************************************************)
(* Proofs about Accounts, for any names, browsers, requests and             *)
(* configurations: sessions that a password change ended stay ended, tokens *)
(* are shown once, a login with the provider makes one session, and a       *)
(* proxied request signs in.                                                *)
(***************************************************************************)
EXTENDS Accounts, TLAPS

Session == [name : Name, hash : Nat, reveal : Nat]
OpsAt == [idle |-> {"none"},
  hash |-> {"login", "admin", "oidc", "proxy"}, insert |-> {"login", "admin", "oidc", "proxy"},
  record |-> {"login", "oidc"}, undo |-> {"login", "oidc"},
  respond |-> {"login", "admin", "oidc", "proxy"},
  verified |-> {"password"}, change |-> {"password"}, reveal |-> {"token"}, store |-> {"token"},
  feed |-> {"page"}, newFeed |-> {"page"}, take |-> {"page"}, taken |-> {"page"},
  exchange |-> {"oidc"}, lookup |-> {"oidc", "proxy"}, create |-> {"oidc", "proxy"}]
Call == [pc : DOMAIN OpsAt, op : Operation \cup {"none"}, browser : Browser, key : Nat,
         name : Name, hash : Int, made : Nat, stored : Session \cup {<<>>}, token : Nat,
         feed : Request \cup {NoFeed}, flow : Nat]

\* The places of a request that makes a session, ...
SigningIn == {"exchange", "lookup", "create", "hash", "insert"}
\* ... that has made one which no browser has yet, ...
Making == {"record", "undo", "respond"}
\* ... whose user has an account.
Known == {"hash", "insert", "record", "undo", "respond", "verified", "change"}

\* What the locals x of a request have to do with each table.
Typed(x) ==
  /\ x \in Call /\ x.op \in OpsAt[x.pc]
  /\ x.pc = "idle" => x = Idle
  /\ x.made # 0 <=> x.pc \in Making
  /\ x.pc = "change" => x.stored \in Session /\ x.stored.hash = x.hash
  /\ x.pc = "taken" => x.stored \in Session
Registered(x, names, hash) ==
  /\ x.pc \in Known => x.name \in names
  /\ x.pc = "insert" => x.hash \in 0..hash
Owns(x, s, h, n) ==
  /\ x.key \in {0} \cup h
  /\ x.made # 0 => x.made \in DOMAIN s \ h /\ s[x.made].name = x.name
  /\ x.pc = "undo" => n >= 1
  /\ x.pc \in {"verified", "change"} /\ x.key \in DOMAIN s => s[x.key].name = x.name
Reveals(x, s, n, t) ==
  x.pc \in {"reveal", "store"} =>
    x.token \in 1..t /\ n[x.token] = 0 /\ \A k \in DOMAIN s : s[k].reveal # x.token
Feeds(x, f) == x.pc \in {"take", "taken"} => x.feed # NoFeed /\ f[x.name] = x.feed
Signs(x, f, n, l) ==
  x.pc \in SigningIn /\ x.flow # 0 => x.flow \in 1..l \ f /\ n[x.flow] = 0
Fit(x) ==
  /\ Typed(x) /\ Registered(x, DOMAIN account, last.hash) /\ Owns(x, session, handed, faults)
  /\ Reveals(x, session, shown, last.token) /\ Feeds(x, feed) /\ Signs(x, flow, signed, last.flow)
  /\ x.flow \in 0..last.flow

\* What two requests do not share.
Differ(x, y) ==
  /\ x.made # 0 => x.made # y.made
  /\ x.pc \in {"reveal", "store"} /\ y.pc \in {"reveal", "store"} => x.token # y.token
  /\ x.pc \in SigningIn /\ y.pc \in SigningIn /\ x.flow # 0 => x.flow # y.flow

Tables ==
  /\ mode \subseteq Operation /\ DOMAIN call = Request
  /\ DOMAIN account \subseteq Name
  /\ \A n \in DOMAIN account : account[n] \in [hash : 0..last.hash, active : BOOLEAN, email : BOOLEAN]
  /\ DOMAIN session \subseteq 1..last.key
  /\ \A k \in DOMAIN session :
       session[k] \in [name : DOMAIN account, hash : 0..last.hash, reveal : 0..last.token]
  /\ DOMAIN token \subseteq 1..last.token /\ feed \in [Name -> Request \cup {NoFeed}]
  /\ flow \subseteq 1..last.flow
  /\ last \in [hash : Nat, key : Nat, token : 0..MaxTokens, flow : 0..MaxFlows]
  /\ handed \subseteq 1..last.key /\ cookie \in [Browser -> {0} \cup handed]
  /\ faults \in 0..MaxFaults /\ stale \subseteq 1..last.key
  /\ shown \in [1..MaxTokens -> 0..1] /\ signed \in [0..MaxFlows -> Nat]
  /\ feedShown \subseteq Name \X Request

\* A session that was ended does not hold its user's password.
Ended == \A k \in stale \cap DOMAIN session : session[k].hash # account[session[k].name].hash
\* A token is in one session at most, and then was not shown.
Unshown ==
  /\ \A k \in DOMAIN session : session[k].reveal # 0 =>
       /\ shown[session[k].reveal] = 0
       /\ \A l \in DOMAIN session \ {k} : session[l].reveal # session[k].reveal
  /\ \A t \in 1..MaxTokens : t > last.token => shown[t] = 0
\* A login that is under way, or has not begun, made no session.
Flows ==
  \A f \in 1..MaxFlows : signed[f] <= 1 /\ (f \in flow \/ f > last.flow => signed[f] = 0)
CallsFit == \A r \in Request : Fit(call[r])
Apart == \A q, r \in Request : q # r => Differ(call[q], call[r])
AccountsInv ==
  Tables /\ Ended /\ Unshown /\ FeedTokenAgrees /\ Flows /\ FailedLoginLeavesNoSession /\ CallsFit /\ Apart

-----------------------------------------------------------------------------
(***************************************************************************)
(* Requests.                                                                *)
(***************************************************************************)
\* An idle request has nothing to do with any table.
LEMMA IdleFits ==
  /\ Typed(Idle) /\ Idle.pc = "idle" /\ Idle.op = "none" /\ Idle.made = 0 /\ Idle.flow = 0
  /\ \A a, b, c, d : /\ Registered(Idle, a, b) /\ Owns(Idle, a, b, c) /\ Reveals(Idle, a, b, c)
                     /\ Feeds(Idle, a) /\ Signs(Idle, a, b, c)
  <1>1. NoName \in Name /\ (CHOOSE b \in Browser : TRUE) \in Browser
    BY AccountsAssumption DEF NoName
  <1>2. /\ Idle.pc = "idle" /\ Idle.op = "none" /\ Idle.made = 0 /\ Idle.flow = 0
        /\ Idle.key = 0 /\ Idle \in Call
    BY <1>1 DEF Idle, Call, OpsAt, NoHash
  <1>3. Typed(Idle)
    BY <1>2 DEF Typed, OpsAt, Making
  <1>4. \A a, b, c, d : /\ Registered(Idle, a, b) /\ Owns(Idle, a, b, c) /\ Reveals(Idle, a, b, c)
                        /\ Feeds(Idle, a) /\ Signs(Idle, a, b, c)
    BY <1>2 DEF Registered, Owns, Reveals, Feeds, Signs, Known, SigningIn
  <1> QED BY <1>2, <1>3, <1>4

\* The locals x fit the tables after the step.
Fits(x) ==
  /\ Typed(x) /\ Registered(x, DOMAIN account', last'.hash) /\ Owns(x, session', handed', faults')
  /\ Reveals(x, session', shown', last'.token) /\ Feeds(x, feed')
  /\ Signs(x, flow', signed', last'.flow) /\ x.flow \in 0..last'.flow
\* The locals x, which follow y, claim nothing that y did not.
Follows(x, y) ==
  /\ x.made \in {0, y.made}
  /\ x.pc \in {"reveal", "store"} => y.pc \in {"reveal", "store"} /\ x.token = y.token
  /\ x.pc \in SigningIn /\ x.flow # 0 => y.pc \in SigningIn /\ x.flow = y.flow

\* What follows something differs from the same as that.
LEMMA FollowsDiffers ==
  ASSUME NEW x, NEW y, NEW z, Follows(x, y), y.made # 0 \/ x.made = 0
  PROVE  /\ Differ(y, z) => Differ(x, z)
         /\ Differ(z, y) => Differ(z, x)
  BY DEF Follows, Differ

\* The locals of one request change.
LEMMA CallMoves ==
  ASSUME AccountsInv, NEW r \in Request, NEW x, Becomes(r, x), Fits(x),
         \A q \in Request \ {r} : Fits(call[q]),
         \A q \in Request \ {r} : Differ(x, call[q]) /\ Differ(call[q], x)
  PROVE  /\ CallsFit' /\ Apart' /\ DOMAIN call' = Request /\ call'[r] = x
         /\ \A q \in Request \ {r} : call'[q] = call[q]
  <1>1. /\ DOMAIN call' = Request /\ call'[r] = x
        /\ \A q \in Request \ {r} : call'[q] = call[q]
    BY DEF AccountsInv, Tables, Becomes
  <1>2. \A q \in Request : Fits(call'[q])
    BY <1>1
  <1>3. CallsFit'
    BY <1>2 DEF CallsFit, Fit, Fits
  <1>4. Apart'
    BY <1>1 DEF AccountsInv, Apart
  <1> QED BY <1>1, <1>3, <1>4

\* The same when the new locals follow the old ones.
LEMMA CallFollows ==
  ASSUME AccountsInv, NEW r \in Request, NEW x, Becomes(r, x), Fits(x), Follows(x, call[r]),
         \A q \in Request \ {r} : Fits(call[q])
  PROVE  /\ CallsFit' /\ Apart' /\ DOMAIN call' = Request /\ call'[r] = x
         /\ \A q \in Request \ {r} : call'[q] = call[q]
  <1>1. ASSUME NEW q \in Request \ {r}
        PROVE  Differ(x, call[q]) /\ Differ(call[q], x)
    <2>1. Differ(call[r], call[q]) /\ Differ(call[q], call[r])
      BY DEF AccountsInv, Apart
    <2>2. call[r].made # 0 \/ x.made = 0
      BY DEF Follows
    <2> QED BY <2>1, <2>2, FollowsDiffers
  <1> QED BY <1>1, CallMoves

\* No request moves.
LEMMA CallStays ==
  ASSUME AccountsInv, UNCHANGED call, \A q \in Request : Fits(call[q])
  PROVE  CallsFit' /\ Apart' /\ DOMAIN call' = Request
  <1>1. CallsFit'
    BY DEF CallsFit, Fit, Fits
  <1>2. Apart'
    BY DEF AccountsInv, Apart
  <1> QED BY <1>1, <1>2 DEF AccountsInv, Tables

-----------------------------------------------------------------------------
(***************************************************************************)
(* Steps that change no table: a request reads and goes on.                 *)
(***************************************************************************)
\* Nothing changes but a request, a cookie that is deleted, the faults.
Tableless ==
  /\ UNCHANGED <<mode, account, session, token, feed, flow, last, histories>>
  /\ faults' \in {faults, faults + 1} /\ faults' <= MaxFaults
  /\ cookie' \in [Browser -> {0} \cup handed]

\* The other requests fit the tables as before.
LEMMA TablelessFits ==
  ASSUME AccountsInv, Tableless
  PROVE  \A q \in Request : Fits(call[q])
  <1>1. faults \in Nat /\ faults' >= faults
    BY AccountsAssumption DEF AccountsInv, Tables, Tableless
  <1>2. ASSUME NEW q \in Request
        PROVE  Fits(call[q])
    <2>1. Fit(call[q])
      BY DEF AccountsInv, CallsFit
    <2>2. Owns(call[q], session', handed', faults')
      BY <1>1, <2>1 DEF Fit, Owns, Tableless, histories
    <2> QED BY <2>1, <2>2 DEF Fit, Fits, Tableless, histories
  <1> QED BY <1>2

\* A step of a request that claims nothing new keeps the invariant.
LEMMA CallStep ==
  ASSUME AccountsInv, Tableless, NEW r \in Request, NEW x, Becomes(r, x), Fits(x),
         Follows(x, call[r]), x.made = call[r].made
  PROVE  AccountsInv'
  <1>1. /\ CallsFit' /\ Apart' /\ DOMAIN call' = Request /\ call'[r] = x
        /\ \A q \in Request \ {r} : call'[q] = call[q]
    BY TablelessFits, CallFollows
  <1>2. faults \in Nat /\ faults' \in 0..MaxFaults /\ faults' >= faults
    BY AccountsAssumption DEF AccountsInv, Tables, Tableless
  <1>3. Tables'
    BY <1>1, <1>2 DEF AccountsInv, Tables, Tableless, histories
  <1>4. Ended' /\ Unshown' /\ FeedTokenAgrees' /\ Flows'
    BY DEF AccountsInv, Ended, Unshown, FeedTokenAgrees, Flows, Tableless, histories
  <1>5. FailedLoginLeavesNoSession'
    <2>1. \A q \in Request : call'[q].made = call[q].made
      BY <1>1
    <2> QED BY <1>2, <2>1 DEF AccountsInv, FailedLoginLeavesNoSession, Tableless, histories
  <1> QED BY <1>1, <1>3, <1>4, <1>5 DEF AccountsInv

-----------------------------------------------------------------------------
(***************************************************************************)
(* The starts of requests.                                                  *)
(***************************************************************************)
Starting == {"hash", "verified", "reveal", "feed", "exchange", "lookup"}

\* The locals of a request that begins.
LEMMA BegunLocals ==
  ASSUME AccountsInv, NEW b \in Browser, NEW op, NEW pc \in Starting, op \in OpsAt[pc], NEW n \in Name
  PROVE  LET x == Begun(b, op, pc, n) IN
         /\ x \in Call /\ x.pc = pc /\ x.op = op /\ x.browser = b /\ x.key = cookie[b] /\ x.name = n
         /\ x.hash = NoHash /\ x.made = 0 /\ x.token = 0 /\ x.feed = NoFeed /\ x.flow = 0
         /\ x.stored = <<>> /\ x.key \in {0} \cup handed /\ Typed(x)
  <1>1. NoName \in Name /\ (CHOOSE c \in Browser : TRUE) \in Browser
    BY AccountsAssumption DEF NoName
  <1>2. cookie[b] \in {0} \cup handed /\ handed \subseteq Nat
    BY DEF AccountsInv, Tables
  <1> DEFINE x == Begun(b, op, pc, n)
  <1>3. op \in Operation /\ pc \in DOMAIN OpsAt
    BY DEF OpsAt, Starting, Operation
  <1>4. Idle \in Call /\ Idle.hash = NoHash /\ Idle.token = 0 /\ Idle.feed = NoFeed /\ Idle.stored = <<>>
    BY <1>1 DEF Idle, Call, OpsAt, NoHash
  <1>5. /\ x \in Call /\ x.pc = pc /\ x.op = op /\ x.browser = b /\ x.key = cookie[b] /\ x.name = n
        /\ x.hash = NoHash /\ x.made = 0 /\ x.token = 0 /\ x.feed = NoFeed /\ x.flow = 0
        /\ x.stored = <<>>
    BY <1>2, <1>3, <1>4, IdleFits DEF Begun, Call
  <1>6. Typed(x)
    BY <1>5 DEF Typed, Starting, Making
  <1> QED BY <1>2, <1>5, <1>6

\* What a browser that is signed in has.
LEMMA SignedIn ==
  ASSUME AccountsInv, NEW b \in Browser, Live(cookie[b])
  PROVE  /\ cookie[b] \in DOMAIN session /\ cookie[b] \in handed
         /\ session[cookie[b]].name \in DOMAIN account /\ session[cookie[b]].name \in Name
         /\ session[cookie[b]].hash = account[session[cookie[b]].name].hash
  BY DEF AccountsInv, Tables, Live

\* Nothing changes but a request that starts.
Opens == UNCHANGED <<mode, account, session, token, feed, flow, last, cookie, faults, histories>>

\* Such a step leaves what CallStep wants left.
LEMMA OpensTableless ==
  ASSUME AccountsInv, Opens
  PROVE  Tableless
  BY DEF AccountsInv, Tables, Opens, Tableless

\* A request that starts from its cookie alone.
LEMMA StartStep ==
  ASSUME AccountsInv, NEW r \in Request, NEW b \in Browser, NEW op, NEW pc \in Starting,
         op \in OpsAt[pc], NEW n \in Name, Opens,
         Starts(r, Begun(b, op, pc, n)), pc \in {"hash", "feed"}, pc = "hash" => n \in DOMAIN account
  PROVE  AccountsInv'
  <1> DEFINE x == Begun(b, op, pc, n)
  <1>1. /\ x \in Call /\ x.pc = pc /\ x.key \in {0} \cup handed /\ x.name = n
        /\ x.made = 0 /\ x.flow = 0 /\ Typed(x)
    BY BegunLocals
  <1>2. call[r] = Idle /\ call[r].made = 0
    <2>1. Typed(call[r])
      BY DEF AccountsInv, CallsFit, Fit
    <2> QED BY <2>1, IdleFits DEF Starts, At, Typed
  <1>3. Becomes(r, x)
    BY DEF Starts
  <1> HIDE DEF x
  <1>4. last.flow \in Nat
    BY DEF AccountsInv, Tables
  <1>5. Fits(x)
    BY <1>1, <1>4 DEF Fits, Registered, Owns, Reveals, Feeds, Signs, Known, Opens, histories
  <1>6. Follows(x, call[r])
    BY <1>1 DEF Follows
  <1> QED BY <1>1, <1>2, <1>3, <1>5, <1>6, OpensTableless, CallStep

\* A login with a password starts.
LEMMA StartLoginStep ==
  ASSUME AccountsInv, NEW r \in Request, NEW b \in Browser, NEW n \in Name,
         StartLogin(r, b, n) \/ StartAdminLogin(r, b, n)
  PROVE  AccountsInv'
  <1>1. Opens /\ Starts(r, Begun(b, "login", "hash", n)) /\ n \in DOMAIN account
    BY DEF StartLogin, StartAdminLogin, Active, Opens
  <1>2. "hash" \in Starting /\ "login" \in OpsAt["hash"]
    BY DEF Starting, OpsAt
  <1> QED BY <1>1, <1>2, StartStep

\* The page with the tokens starts.
LEMMA OpenPageStep ==
  ASSUME AccountsInv, NEW r \in Request, NEW b \in Browser, OpenPage(r, b)
  PROVE  AccountsInv'
  <1>1. Live(cookie[b]) /\ Opens /\ Starts(r, Begun(b, "page", "feed", session[cookie[b]].name))
    BY DEF OpenPage, StartsSignedIn, Opens
  <1>2. session[cookie[b]].name \in Name
    BY <1>1, SignedIn
  <1>3. "feed" \in Starting /\ "page" \in OpsAt["feed"] /\ "feed" # "hash"
    BY DEF Starting, OpsAt
  <1> QED BY <1>1, <1>2, <1>3, StartStep

\* A change of a password starts.
LEMMA StartPasswordStep ==
  ASSUME AccountsInv, NEW r \in Request, NEW b \in Browser, StartPassword(r, b)
  PROVE  AccountsInv'
  <1> DEFINE n == session[cookie[b]].name
             y == Begun(b, "password", "verified", n)
             x == [y EXCEPT !.hash = account[n].hash]
  <1>1. Live(cookie[b]) /\ Opens /\ Starts(r, x)
    BY DEF StartPassword, Opens
  <1>2. n \in Name /\ n \in DOMAIN account
    BY <1>1, SignedIn
  <1>3. account[n].hash \in Int
    BY <1>2 DEF AccountsInv, Tables
  <1>4. "verified" \in Starting /\ "password" \in OpsAt["verified"]
    BY DEF Starting, OpsAt
  <1>5. /\ y \in Call /\ y.pc = "verified" /\ y.op = "password" /\ y.key = cookie[b] /\ y.name = n
        /\ y.made = 0 /\ y.flow = 0 /\ y.key \in {0} \cup handed
    BY <1>2, <1>4, BegunLocals
  <1>6. Becomes(r, x) /\ At(r, "idle")
    BY <1>1 DEF Starts
  <1> HIDE DEF y
  <1>7. /\ x \in Call /\ x.pc = "verified" /\ x.op = "password" /\ x.key = cookie[b] /\ x.name = n
        /\ x.made = 0 /\ x.flow = 0 /\ x.key \in {0} \cup handed
    BY <1>3, <1>5 DEF Call
  <1>8. call[r].made = 0
    BY <1>6, IdleFits DEF AccountsInv, CallsFit, Fit, Typed, At
  <1> HIDE DEF x
  <1>9. Typed(x)
    BY <1>4, <1>7 DEF Typed, Making
  <1>10. last.flow \in Nat
    BY DEF AccountsInv, Tables
  <1>11. Fits(x)
    BY <1>1, <1>2, <1>7, <1>9, <1>10 DEF Fits, Registered, Owns, Reveals, Feeds, Signs, Known, Opens, histories, SigningIn
  <1>12. Follows(x, call[r])
    BY <1>7 DEF Follows
  <1> QED BY <1>1, <1>6, <1>7, <1>8, <1>11, <1>12, OpensTableless, CallStep

-----------------------------------------------------------------------------
(***************************************************************************)
(* Requests that read and go on, or end.                                    *)
(***************************************************************************)
\* What a request has read.
LEMMA Local ==
  ASSUME AccountsInv, NEW r \in Request
  PROVE  /\ call[r] \in Call /\ Fit(call[r]) /\ Typed(call[r]) /\ DOMAIN call = Request
         /\ last.flow \in Nat /\ last.hash \in Nat
  BY DEF AccountsInv, CallsFit, Fit, Typed, Tables

\* Idle fits any tables.
LEMMA IdleFitsAfter ==
  ASSUME last'.flow \in Nat
  PROVE  Fits(Idle) /\ (\A y : Follows(Idle, y))
  BY IdleFits DEF Fits, Follows, SigningIn

\* A request without a session ends.
LEMMA DoneStep ==
  ASSUME AccountsInv, Tableless, NEW r \in Request, Done(r), call[r].made = 0
  PROVE  AccountsInv'
  <1>1. Becomes(r, Idle) /\ Idle.made = 0
    BY IdleFits DEF Done
  <1>2. last'.flow \in Nat
    BY DEF AccountsInv, Tables, Tableless
  <1> QED BY <1>1, <1>2, IdleFitsAfter, CallStep

\* The locals of a request that goes on to pc.
LEMMA GoesLocals ==
  ASSUME AccountsInv, NEW r \in Request, NEW pc \in DOMAIN OpsAt, call[r].op \in OpsAt[pc]
  PROVE  LET x == [call[r] EXCEPT !.pc = pc] IN
         /\ x \in Call /\ x.pc = pc /\ x.op = call[r].op /\ x.browser = call[r].browser
         /\ x.key = call[r].key /\ x.name = call[r].name /\ x.hash = call[r].hash
         /\ x.made = call[r].made /\ x.token = call[r].token /\ x.feed = call[r].feed
         /\ x.flow = call[r].flow /\ x.stored = call[r].stored
  BY Local DEF Call

\* A request that goes on to look for, make or use its user's account.
LEMMA GoesStep ==
  ASSUME AccountsInv, Tableless, NEW r \in Request,
         NEW pc \in {"lookup", "create", "hash", "feed", "newFeed"},
         call[r].op \in OpsAt[pc], Goes(r, pc),
         call[r].made = 0,
         pc \in SigningIn => call[r].pc \in SigningIn,
         pc = "hash" => call[r].name \in DOMAIN account
  PROVE  AccountsInv'
  <1> DEFINE x == [call[r] EXCEPT !.pc = pc]
  <1>1. /\ x \in Call /\ x.pc = pc /\ x.op = call[r].op /\ x.key = call[r].key
        /\ x.name = call[r].name /\ x.made = call[r].made /\ x.flow = call[r].flow
    BY GoesLocals DEF OpsAt
  <1>2. Becomes(r, x)
    BY DEF Goes
  <1> HIDE DEF x
  <1>3. Fit(call[r]) /\ last.flow \in Nat
    BY Local
  <1>4. Typed(x)
    BY <1>1, <1>3 DEF Typed, Making
  <1>5. Registered(x, DOMAIN account', last'.hash)
    BY <1>1 DEF Registered, Known, Tableless
  <1>6. Owns(x, session', handed', faults')
    BY <1>1, <1>3 DEF Owns, Fit, Tableless, histories
  <1>7. Reveals(x, session', shown', last'.token) /\ Feeds(x, feed')
    BY <1>1 DEF Reveals, Feeds
  <1>8. Signs(x, flow', signed', last'.flow) /\ x.flow \in 0..last'.flow
    BY <1>1, <1>3 DEF Signs, Fit, Tableless, histories
  <1>9. Fits(x)
    BY <1>4, <1>5, <1>6, <1>7, <1>8 DEF Fits
  <1>10. Follows(x, call[r])
    BY <1>1 DEF Follows
  <1> QED BY <1>1, <1>2, <1>9, <1>10, CallStep

\* The password of the user is read, or he is no longer active.
LEMMA ReadHashStep ==
  ASSUME AccountsInv, NEW r \in Request, ReadHash(r)
  PROVE  AccountsInv'
  <1> DEFINE n == call[r].name
             x == [call[r] EXCEPT !.pc = "insert", !.hash = account[n].hash]
  <1>1. Opens /\ call[r].pc = "hash" /\ (IF Active(n) THEN Becomes(r, x) ELSE Done(r))
    BY DEF ReadHash, Opens, At
  <1>2. Tableless
    BY <1>1, OpensTableless
  <1>3. Fit(call[r]) /\ call[r] \in Call /\ last.flow \in Nat
    BY Local
  <1>4. call[r].made = 0
    BY <1>1, <1>3 DEF Fit, Typed, Making
  <1>5. CASE ~Active(n)
    BY <1>1, <1>2, <1>4, <1>5, DoneStep
  <1>6. CASE Active(n)
    <2>1. n \in DOMAIN account /\ account[n].hash \in 0..last.hash /\ account[n].hash \in Int
      BY <1>6 DEF Active, AccountsInv, Tables
    <2>2. Becomes(r, x)
      BY <1>1, <1>6
    <2>3. /\ x \in Call /\ x.pc = "insert" /\ x.op = call[r].op /\ x.key = call[r].key
          /\ x.name = n /\ x.made = 0 /\ x.flow = call[r].flow /\ x.hash = account[n].hash
      BY <1>3, <1>4, <2>1 DEF Call, OpsAt
    <2> HIDE DEF x, n
    <2>4. Typed(x)
      BY <1>1, <1>3, <2>3 DEF Fit, Typed, Making, OpsAt
    <2>5. Registered(x, DOMAIN account', last'.hash)
      BY <1>2, <2>1, <2>3 DEF Registered, Tableless
    <2>6. Owns(x, session', handed', faults')
      BY <1>2, <1>3, <2>3 DEF Owns, Fit, Tableless, histories
    <2>7. Reveals(x, session', shown', last'.token) /\ Feeds(x, feed')
      BY <2>3 DEF Reveals, Feeds
    <2>8. Signs(x, flow', signed', last'.flow) /\ x.flow \in 0..last'.flow
      BY <1>1, <1>2, <1>3, <2>3 DEF Signs, Fit, Tableless, histories, SigningIn
    <2>9. Fits(x) /\ Follows(x, call[r])
      BY <1>1, <2>3, <2>4, <2>5, <2>6, <2>7, <2>8 DEF Fits, Follows, SigningIn
    <2> QED BY <1>2, <1>4, <2>2, <2>3, <2>9, CallStep
  <1> QED BY <1>5, <1>6

\* The provider names a user, or the login ends.
LEMMA ExchangeStep ==
  ASSUME AccountsInv, NEW r \in Request, Exchange(r)
  PROVE  AccountsInv'
  <1>1. Opens /\ call[r].pc = "exchange"
    BY DEF Exchange, Opens, At
  <1>2. Tableless
    BY <1>1, OpensTableless
  <1>3. Fit(call[r]) /\ call[r] \in Call /\ last.flow \in Nat
    BY Local
  <1>4. call[r].made = 0
    BY <1>1, <1>3 DEF Fit, Typed, Making
  <1>5. CASE Done(r)
    BY <1>2, <1>4, <1>5, DoneStep
  <1>6. ASSUME NEW n \in Name, Becomes(r, [call[r] EXCEPT !.pc = "lookup", !.name = n])
        PROVE  AccountsInv'
    <2> DEFINE x == [call[r] EXCEPT !.pc = "lookup", !.name = n]
    <2>1. Becomes(r, x)
      BY <1>6
    <2>2. /\ x \in Call /\ x.pc = "lookup" /\ x.op = call[r].op /\ x.key = call[r].key
          /\ x.name = n /\ x.made = 0 /\ x.flow = call[r].flow
      BY <1>3, <1>4 DEF Call, OpsAt
    <2> HIDE DEF x
    <2>3. Typed(x)
      BY <1>1, <1>3, <2>2 DEF Fit, Typed, Making, OpsAt
    <2>4. Registered(x, DOMAIN account', last'.hash)
      BY <2>2 DEF Registered, Known
    <2>5. Owns(x, session', handed', faults')
      BY <1>2, <1>3, <2>2 DEF Owns, Fit, Tableless, histories
    <2>6. Reveals(x, session', shown', last'.token) /\ Feeds(x, feed')
      BY <2>2 DEF Reveals, Feeds
    <2>7. Signs(x, flow', signed', last'.flow) /\ x.flow \in 0..last'.flow
      BY <1>1, <1>2, <1>3, <2>2 DEF Signs, Fit, Tableless, histories, SigningIn
    <2>8. Fits(x) /\ Follows(x, call[r])
      BY <1>1, <2>2, <2>3, <2>4, <2>5, <2>6, <2>7 DEF Fits, Follows, SigningIn
    <2> QED BY <1>2, <1>4, <2>1, <2>2, <2>8, CallStep
  <1> QED BY <1>5, <1>6 DEF Exchange

\* The account of the user is found, must be made, or is inactive.
LEMMA FindByEmailStep ==
  ASSUME AccountsInv, NEW r \in Request, FindByEmail(r)
  PROVE  AccountsInv'
  <1>1. Opens /\ call[r].pc = "lookup" /\ call[r].op = "oidc"
    BY DEF FindByEmail, Opens, At
  <1>2. Tableless
    BY <1>1, OpensTableless
  <1>3. call[r].made = 0
    BY <1>1, Local DEF Fit, Typed, Making
  <1>4. /\ call[r].op \in OpsAt["hash"] /\ call[r].op \in OpsAt["create"]
        /\ call[r].pc \in SigningIn
    BY <1>1 DEF OpsAt, SigningIn
  <1>5. \/ call[r].name \in DOMAIN account /\ Goes(r, "hash")
        \/ Done(r)
        \/ Goes(r, "create")
    BY DEF FindByEmail
  <1> QED BY <1>2, <1>3, <1>4, <1>5, DoneStep, GoesStep

\* The same for a proxied request; the browser of an inactive user is signed out.
LEMMA FindByNameStep ==
  ASSUME AccountsInv, NEW r \in Request, FindByName(r)
  PROVE  AccountsInv'
  <1>1. call[r].pc = "lookup" /\ call[r].op = "proxy"
    BY DEF FindByName, At
  <1>2. Tableless
    BY DEF AccountsInv, Tables, FindByName, Tableless
  <1>3. call[r].made = 0
    BY <1>1, Local DEF Fit, Typed, Making
  <1>4. /\ call[r].op \in OpsAt["hash"] /\ call[r].op \in OpsAt["create"]
        /\ call[r].pc \in SigningIn
    BY <1>1 DEF OpsAt, SigningIn
  <1>5. \/ call[r].name \in DOMAIN account /\ Goes(r, "hash")
        \/ Done(r)
        \/ Goes(r, "create")
    BY DEF FindByName
  <1> QED BY <1>2, <1>3, <1>4, <1>5, DoneStep, GoesStep

\* A login is recorded, or an error sends it to take its session back.
LEMMA RecordLoginStep ==
  ASSUME AccountsInv, NEW r \in Request, RecordLogin(r)
  PROVE  AccountsInv'
  <1>1. /\ call[r].pc = "record"
        /\ UNCHANGED <<mode, account, session, token, feed, flow, last, cookie, histories>>
    BY DEF RecordLogin, At
  <1>2. /\ Fit(call[r]) /\ call[r].op \in {"login", "oidc"} /\ last.flow \in Nat
    BY <1>1, Local DEF Typed, OpsAt
  <1>3. faults \in 0..MaxFaults /\ MaxFaults \in Nat
    BY AccountsAssumption DEF AccountsInv, Tables
  <1>4. PICK pc \in {"respond", "undo"} : Goes(r, pc) /\ (pc = "undo" => faults' = faults + 1)
    BY DEF RecordLogin
  <1>5. Tableless
    BY <1>1, <1>3 DEF RecordLogin, AccountsInv, Tables, Tableless
  <1> DEFINE x == [call[r] EXCEPT !.pc = pc]
  <1>6. pc \in DOMAIN OpsAt /\ call[r].op \in OpsAt[pc]
    BY <1>2 DEF OpsAt
  <1>7. /\ x \in Call /\ x.pc = pc /\ x.op = call[r].op /\ x.key = call[r].key
        /\ x.name = call[r].name /\ x.made = call[r].made /\ x.flow = call[r].flow
    BY <1>6, GoesLocals
  <1>8. Becomes(r, x)
    BY <1>4 DEF Goes
  <1> HIDE DEF x
  <1>9. Typed(x)
    BY <1>1, <1>2, <1>6, <1>7 DEF Fit, Typed, Making
  <1>10. Registered(x, DOMAIN account', last'.hash)
    BY <1>1, <1>2, <1>7 DEF Registered, Fit, Known
  <1>11. Owns(x, session', handed', faults')
    BY <1>1, <1>2, <1>3, <1>4, <1>7 DEF Owns, Fit, histories
  <1>12. /\ Reveals(x, session', shown', last'.token) /\ Feeds(x, feed')
         /\ Signs(x, flow', signed', last'.flow) /\ x.flow \in 0..last'.flow
    BY <1>1, <1>2, <1>7 DEF Reveals, Feeds, Signs, Fit, SigningIn
  <1>13. Fits(x) /\ Follows(x, call[r])
    BY <1>7, <1>9, <1>10, <1>11, <1>12 DEF Fits, Follows, SigningIn
  <1> QED BY <1>5, <1>7, <1>8, <1>13, CallStep

\* What each of the steps that read the session of the cookie goes on to.
AfterReading == [verified |-> "change", reveal |-> "store", take |-> "taken"]

\* A request reads the session of its cookie and goes on with it.
LEMMA KeepStep ==
  ASSUME AccountsInv, Opens, NEW r \in Request, call[r].pc \in DOMAIN AfterReading,
         call[r].key \in DOMAIN session,
         call[r].pc = "verified" => session[call[r].key].hash = call[r].hash,
         Becomes(r, [call[r] EXCEPT !.pc = AfterReading[call[r].pc], !.stored = session[call[r].key]])
  PROVE  AccountsInv'
  <1> DEFINE k == call[r].key
             pc == AfterReading[call[r].pc]
             x == [call[r] EXCEPT !.pc = pc, !.stored = session[k]]
  <1>1. Fit(call[r]) /\ call[r] \in Call /\ last.flow \in Nat
    BY Local
  <1>2. session[k] \in Session
    BY DEF AccountsInv, Tables, Session
  <1>3. pc \in DOMAIN OpsAt /\ call[r].op \in OpsAt[pc] /\ call[r].made = 0
    BY <1>1 DEF AfterReading, OpsAt, Fit, Typed, Making
  <1>4. /\ x \in Call /\ x.pc = pc /\ x.op = call[r].op /\ x.key = k /\ x.name = call[r].name
        /\ x.hash = call[r].hash /\ x.made = 0 /\ x.token = call[r].token /\ x.feed = call[r].feed
        /\ x.flow = call[r].flow /\ x.stored = session[k]
    BY <1>1, <1>2, <1>3 DEF Call
  <1>5. Becomes(r, x)
    OBVIOUS
  <1> HIDE DEF x
  <1>6. Tableless
    BY OpensTableless
  <1>7. Typed(x)
    BY <1>2, <1>3, <1>4 DEF Typed, AfterReading, Making
  <1>8. Registered(x, DOMAIN account', last'.hash)
    BY <1>1, <1>4 DEF Registered, Fit, Known, AfterReading, Opens
  <1>9. Owns(x, session', handed', faults')
    BY <1>1, <1>4 DEF Owns, Fit, AfterReading, Opens, histories
  <1>10. Reveals(x, session', shown', last'.token)
    BY <1>1, <1>4 DEF Reveals, Fit, AfterReading, Opens, histories
  <1>11. Feeds(x, feed')
    BY <1>1, <1>4 DEF Feeds, Fit, AfterReading, Opens
  <1>12. Signs(x, flow', signed', last'.flow) /\ x.flow \in 0..last'.flow
    BY <1>1, <1>4 DEF Signs, Fit, AfterReading, Opens, SigningIn
  <1>13. Fits(x)
    BY <1>7, <1>8, <1>9, <1>10, <1>11, <1>12 DEF Fits
  <1>14. Follows(x, call[r])
    BY <1>4 DEF Follows, AfterReading, SigningIn
  <1> QED BY <1>3, <1>4, <1>5, <1>6, <1>13, <1>14, CallStep

\* A password change, a new token and a page read the session.
LEMMA ReadSessionStep ==
  ASSUME AccountsInv, NEW r \in Request,
         ReadOwnSession(r) \/ ReadForReveal(r) \/ ReadReveal(r)
  PROVE  AccountsInv'
  <1>1. Opens
    BY DEF ReadOwnSession, ReadForReveal, ReadReveal, Opens
  <1>2. call[r].pc \in DOMAIN AfterReading
    BY DEF ReadOwnSession, ReadForReveal, ReadReveal, At, AfterReading
  <1>3. call[r].made = 0
    BY <1>2, Local DEF Typed, Making, AfterReading
  <1> DEFINE x(pc) == [call[r] EXCEPT !.pc = pc, !.stored = session[call[r].key]]
  <1>4. CASE ReadOwnSession(r)
    <2>1. \/ Done(r)
          \/ /\ call[r].key \in DOMAIN session /\ session[call[r].key].hash = call[r].hash
             /\ Becomes(r, x("change"))
      BY <1>4 DEF ReadOwnSession
    <2>2. AfterReading[call[r].pc] = "change"
      BY <1>4 DEF ReadOwnSession, At, AfterReading
    <2> QED BY <1>1, <1>2, <1>3, <2>1, <2>2, OpensTableless, DoneStep, KeepStep
  <1>5. CASE ReadForReveal(r)
    <2>1. Done(r) \/ (call[r].key \in DOMAIN session /\ Becomes(r, x("store")))
      BY <1>5 DEF ReadForReveal
    <2>2. AfterReading[call[r].pc] = "store" /\ call[r].pc # "verified"
      BY <1>5 DEF ReadForReveal, At, AfterReading
    <2> QED BY <1>1, <1>2, <1>3, <2>1, <2>2, OpensTableless, DoneStep, KeepStep
  <1>6. CASE ReadReveal(r)
    <2>1. Done(r) \/ (call[r].key \in DOMAIN session /\ Becomes(r, x("taken")))
      BY <1>6 DEF ReadReveal
    <2>2. AfterReading[call[r].pc] = "taken" /\ call[r].pc # "verified"
      BY <1>6 DEF ReadReveal, At, AfterReading
    <2> QED BY <1>1, <1>2, <1>3, <2>1, <2>2, OpensTableless, DoneStep, KeepStep
  <1> QED BY <1>4, <1>5, <1>6

\* A page has read the feed token of its user, or finds none.
LEMMA ReadFeedStep ==
  ASSUME AccountsInv, NEW r \in Request, ReadFeed(r)
  PROVE  AccountsInv'
  <1> DEFINE f == feed[call[r].name]
             x == [call[r] EXCEPT !.pc = "take", !.feed = f]
  <1>1. Opens /\ call[r].pc = "feed"
    BY DEF ReadFeed, Opens, At
  <1>2. Tableless
    BY <1>1, OpensTableless
  <1>3. Fit(call[r]) /\ call[r] \in Call /\ last.flow \in Nat /\ call[r].made = 0 /\ call[r].op = "page"
    BY <1>1, Local DEF Typed, Making, OpsAt
  <1>4. CASE f = NoFeed
    <2>1. Goes(r, "newFeed")
      BY <1>4 DEF ReadFeed
    <2>2. call[r].op \in OpsAt["newFeed"] /\ "newFeed" \notin SigningIn
      BY <1>3 DEF OpsAt, SigningIn
    <2> QED BY <1>2, <1>3, <2>1, <2>2, GoesStep
  <1>5. CASE f # NoFeed
    <2>1. Becomes(r, x)
      BY <1>5 DEF ReadFeed
    <2>2. f \in Request \cup {NoFeed}
      BY <1>3 DEF Call, AccountsInv, Tables
    <2>3. /\ x \in Call /\ x.pc = "take" /\ x.op = "page" /\ x.key = call[r].key
          /\ x.name = call[r].name /\ x.made = 0 /\ x.flow = call[r].flow /\ x.feed = f
      BY <1>3, <2>2 DEF Call, OpsAt
    <2>4. feed[x.name] = x.feed /\ x.feed # NoFeed
      BY <1>5, <2>3
    <2> HIDE DEF x, f
    <2>5. Typed(x)
      BY <2>3 DEF Typed, Making, OpsAt
    <2>6. Registered(x, DOMAIN account', last'.hash)
      BY <2>3 DEF Registered, Known
    <2>7. Owns(x, session', handed', faults')
      BY <1>1, <1>3, <2>3 DEF Owns, Fit, Opens, histories
    <2>8. Reveals(x, session', shown', last'.token) /\ Feeds(x, feed')
      BY <1>1, <2>3, <2>4 DEF Reveals, Feeds, Opens
    <2>9. Signs(x, flow', signed', last'.flow) /\ x.flow \in 0..last'.flow
      BY <1>1, <1>3, <2>3 DEF Signs, Fit, Opens, SigningIn
    <2>10. Fits(x) /\ Follows(x, call[r])
      BY <2>3, <2>5, <2>6, <2>7, <2>8, <2>9 DEF Fits, Follows, SigningIn
    <2> QED BY <1>2, <1>3, <2>1, <2>3, <2>10, CallStep
  <1> QED BY <1>4, <1>5

-----------------------------------------------------------------------------
(***************************************************************************)
(* Steps that delete a session.                                             *)
(***************************************************************************)
\* A session may be deleted, a cookie set, a key handed out; no table else.
Fewer ==
  /\ DOMAIN session' \subseteq DOMAIN session
  /\ \A k \in DOMAIN session' : session'[k] = session[k]
  /\ UNCHANGED <<mode, account, token, feed, flow, last, stale, shown, feedShown, signed>>
  /\ faults' \in {faults, faults + 1} /\ faults' <= MaxFaults
  /\ handed \subseteq handed' /\ handed' \subseteq 1..last.key
  /\ cookie' \in [Browser -> {0} \cup handed']

\* Deleting a session leaves what was said of the other tables.
LEMMA FewerTables ==
  ASSUME AccountsInv, Fewer, DOMAIN call' = Request
  PROVE  Tables' /\ Ended' /\ Unshown' /\ FeedTokenAgrees' /\ Flows'
  <1>1. faults' \in 0..MaxFaults
    BY AccountsAssumption DEF AccountsInv, Tables, Fewer
  <1>2. /\ DOMAIN session' \subseteq 1..last'.key
        /\ \A k \in DOMAIN session' :
             session'[k] \in [name : DOMAIN account', hash : 0..last'.hash, reveal : 0..last'.token]
    BY DEF AccountsInv, Tables, Fewer
  <1>3. Tables'
    BY <1>1, <1>2 DEF AccountsInv, Tables, Fewer
  <1>4. Ended'
    BY DEF AccountsInv, Ended, Fewer
  <1>5. Unshown'
    BY DEF AccountsInv, Unshown, Fewer
  <1>6. FeedTokenAgrees' /\ Flows'
    BY DEF AccountsInv, FeedTokenAgrees, Flows, Fewer
  <1> QED BY <1>3, <1>4, <1>5, <1>6

\* A request whose own session is neither deleted nor handed out fits as before.
LEMMA FewerFits ==
  ASSUME AccountsInv, Fewer, NEW q \in Request,
         call[q].made # 0 => call[q].made \in DOMAIN session' \ handed'
  PROVE  Fits(call[q])
  <1>1. Fit(call[q])
    BY Local
  <1>2. faults' >= faults /\ faults \in Nat
    BY AccountsAssumption DEF AccountsInv, Tables, Fewer
  <1>3. Owns(call[q], session', handed', faults')
    <2>1. call[q].key \in {0} \cup handed'
      BY <1>1 DEF Fit, Owns, Fewer
    <2>2. call[q].made # 0 =>
            call[q].made \in DOMAIN session' \ handed' /\ session'[call[q].made].name = call[q].name
      BY <1>1 DEF Fit, Owns, Fewer
    <2>3. call[q].pc = "undo" => faults' >= 1
      BY <1>1, <1>2 DEF Fit, Owns, Fewer
    <2>4. call[q].pc \in {"verified", "change"} /\ call[q].key \in DOMAIN session'
            => session'[call[q].key].name = call[q].name
      BY <1>1 DEF Fit, Owns, Fewer
    <2> QED BY <2>1, <2>2, <2>3, <2>4 DEF Owns
  <1>4. Reveals(call[q], session', shown', last'.token)
    BY <1>1 DEF Fit, Reveals, Fewer
  <1> QED BY <1>1, <1>3, <1>4 DEF Fit, Fits, Fewer

\* What is left when session k is deleted.
LEMMA WithoutKey ==
  ASSUME NEW s, NEW k
  PROVE  /\ DOMAIN Without(s, k) = DOMAIN s \ {k}
         /\ \A i \in DOMAIN s \ {k} : Without(s, k)[i] = s[i]
  BY DEF Without

\* A session that some browser has is made by no request under way.
LEMMA HandedOut ==
  ASSUME AccountsInv
  PROVE  /\ \A q \in Request : call[q].made # 0 => call[q].made \in DOMAIN session \ handed
         /\ \A q \in Request : call[q].key \in {0} \cup handed
         /\ 0 \notin handed /\ 0 \notin DOMAIN session
         /\ handed \subseteq 1..last.key
  BY Local DEF Fit, Owns, AccountsInv, Tables

\* A browser signs out.
LEMMA LogoutStep ==
  ASSUME AccountsInv, NEW b \in Browser, Logout(b)
  PROVE  AccountsInv'
  <1>1. /\ session' = Without(session, cookie[b])
        /\ UNCHANGED <<mode, account, token, feed, flow, last, call, faults, histories>>
    BY DEF Logout
  <1>2. cookie[b] \in {0} \cup handed
    BY DEF AccountsInv, Tables
  <1>3. /\ DOMAIN session' = DOMAIN session \ {cookie[b]}
        /\ \A k \in DOMAIN session' : session'[k] = session[k]
    BY <1>1, WithoutKey
  <1>4. Fewer
    BY <1>1, <1>3 DEF AccountsInv, Tables, Logout, Fewer, histories
  <1>5. \A q \in Request : call[q].made # 0 => call[q].made \in DOMAIN session' \ handed'
    BY <1>1, <1>2, <1>3, HandedOut DEF histories
  <1>6. CallsFit' /\ Apart' /\ DOMAIN call' = Request
    BY <1>1, <1>4, <1>5, FewerFits, CallStays
  <1>7. FailedLoginLeavesNoSession'
    BY <1>1, <1>3 DEF AccountsInv, FailedLoginLeavesNoSession, histories
  <1> QED BY <1>4, <1>6, <1>7, FewerTables DEF AccountsInv

\* A proxied request starts; the session of another user is deleted.
LEMMA StartProxiedStep ==
  ASSUME AccountsInv, NEW r \in Request, NEW b \in Browser, NEW n \in Name, StartProxied(r, b, n)
  PROVE  AccountsInv'
  <1> DEFINE x == Begun(b, "proxy", "lookup", n)
  <1>1. /\ session' = Without(session, cookie[b]) /\ Starts(r, x)
        /\ UNCHANGED <<mode, account, token, feed, flow, last, cookie, faults, histories>>
    BY DEF StartProxied
  <1>2. cookie[b] \in {0} \cup handed /\ last.flow \in Nat
    BY DEF AccountsInv, Tables
  <1>3. /\ DOMAIN session' = DOMAIN session \ {cookie[b]}
        /\ \A k \in DOMAIN session' : session'[k] = session[k]
    BY <1>1, WithoutKey
  <1>4. Fewer
    BY <1>1, <1>3 DEF AccountsInv, Tables, Fewer, histories
  <1>5. \A q \in Request : call[q].made # 0 => call[q].made \in DOMAIN session' \ handed'
    BY <1>1, <1>2, <1>3, HandedOut DEF histories
  <1>6. "lookup" \in Starting /\ "proxy" \in OpsAt["lookup"]
    BY DEF Starting, OpsAt
  <1>7. /\ x.pc = "lookup" /\ x.key \in {0} \cup handed /\ x.made = 0 /\ x.flow = 0 /\ Typed(x)
    BY <1>6, BegunLocals
  <1>8. Becomes(r, x) /\ call[r].made = 0
    BY <1>1, Local, IdleFits DEF Starts, At, Typed
  <1> HIDE DEF x
  <1>9. Fits(x) /\ Follows(x, call[r])
    BY <1>1, <1>2, <1>7 DEF Fits, Registered, Owns, Reveals, Feeds, Signs, Known, Follows, histories
  <1>10. /\ CallsFit' /\ Apart' /\ DOMAIN call' = Request /\ call'[r] = x
         /\ \A q \in Request \ {r} : call'[q] = call[q]
    BY <1>4, <1>5, <1>8, <1>9, FewerFits, CallFollows
  <1>11. \A q \in Request : call'[q].made = call[q].made
    BY <1>7, <1>8, <1>10
  <1>12. FailedLoginLeavesNoSession'
    BY <1>1, <1>3, <1>11 DEF AccountsInv, FailedLoginLeavesNoSession, histories
  <1> QED BY <1>4, <1>10, <1>12, FewerTables DEF AccountsInv

\* The response of a login: the cookie is the new session.
LEMMA RespondStep ==
  ASSUME AccountsInv, NEW r \in Request, Respond(r)
  PROVE  AccountsInv'
  <1> DEFINE m == call[r].made
             b == call[r].browser
  <1>1. /\ At(r, "respond") /\ Done(r) /\ handed' = handed \cup {m}
        /\ cookie' = [cookie EXCEPT ![b] = m]
        /\ UNCHANGED <<mode, account, token, feed, flow, last, faults, stale, shown, feedShown, signed>>
    BY DEF Respond
  <1>2. Becomes(r, Idle) /\ Idle.made = 0 /\ last.flow \in Nat
    BY <1>1, IdleFits, Local DEF Done
  <1>3. m # 0 /\ b \in Browser
    BY <1>1, Local DEF At, Typed, Making, Call
  <1>4. m \in DOMAIN session \ handed /\ call[r].key \in {0} \cup handed
    BY <1>3, HandedOut
  <1>5. /\ DOMAIN session' \subseteq DOMAIN session
        /\ DOMAIN session \ DOMAIN session' \subseteq handed
        /\ \A k \in DOMAIN session' : session'[k] = session[k]
    <2>1. 0 \notin DOMAIN session
      BY HandedOut
    <2>2. session' = session \/ session' = Without(session, call[r].key)
      BY DEF Respond
    <2>3. CASE session' = session
      BY <2>3
    <2>4. CASE session' = Without(session, call[r].key)
      <3>1. /\ DOMAIN session' = DOMAIN session \ {call[r].key}
            /\ \A k \in DOMAIN session' : session'[k] = session[k]
        BY <2>4, WithoutKey
      <3> QED BY <1>4, <2>1, <3>1
    <2> QED BY <2>2, <2>3, <2>4
  <1>6. m \in 1..last.key
    BY <1>4 DEF AccountsInv, Tables
  <1>7. Fewer
    <2>1. cookie' \in [Browser -> {0} \cup handed']
      BY <1>1, <1>3 DEF AccountsInv, Tables
    <2>2. handed' \subseteq 1..last.key /\ handed \subseteq handed'
      BY <1>1, <1>6 DEF AccountsInv, Tables
    <2>3. faults' \in {faults, faults + 1} /\ faults' <= MaxFaults
      BY <1>1, AccountsAssumption DEF AccountsInv, Tables
    <2> QED BY <1>1, <1>5, <2>1, <2>2, <2>3 DEF Fewer
  <1>8. ASSUME NEW q \in Request \ {r}, call[q].made # 0
        PROVE  call[q].made \in DOMAIN session' \ handed'
    <2>1. call[q].made # m
      BY <1>8 DEF AccountsInv, Apart, Differ
    <2> QED BY <1>1, <1>5, <1>8, <2>1, HandedOut
  <1>9. \A q \in Request \ {r} : Fits(call[q])
    BY <1>7, <1>8, FewerFits
  <1>10. /\ CallsFit' /\ Apart' /\ DOMAIN call' = Request
         /\ \A q \in Request \ {r} : call'[q] = call[q]
    BY <1>1, <1>2, <1>9, IdleFitsAfter, CallFollows
  <1>11. FailedLoginLeavesNoSession'
    <2>1. ASSUME faults <= 1, NEW k \in DOMAIN session' \ handed'
          PROVE  \E q \in Request : call'[q].made = k
      <3>1. k \in DOMAIN session \ handed /\ k # m
        BY <1>1, <1>5, <2>1
      <3>2. PICK q \in Request : call[q].made = k
        BY <2>1, <3>1 DEF AccountsInv, FailedLoginLeavesNoSession
      <3> QED BY <1>10, <3>1, <3>2
    <2> QED BY <1>1, <2>1 DEF FailedLoginLeavesNoSession
  <1> QED BY <1>7, <1>10, <1>11, FewerTables DEF AccountsInv

\* A login that failed takes its session back, or a second error stops it.
LEMMA UndoStep ==
  ASSUME AccountsInv, NEW r \in Request, Undo(r)
  PROVE  AccountsInv'
  <1> DEFINE m == call[r].made
  <1>1. /\ At(r, "undo") /\ Done(r)
        /\ UNCHANGED <<mode, account, token, feed, flow, last, cookie, histories>>
        /\ \/ session' = Without(session, m) /\ faults' = faults
           \/ faults < MaxFaults /\ faults' = faults + 1 /\ session' = session
    BY DEF Undo
  <1>2. Becomes(r, Idle) /\ Idle.made = 0 /\ last.flow \in Nat
    BY <1>1, IdleFits, Local DEF Done
  <1>3. m # 0 /\ faults >= 1 /\ faults \in Nat /\ MaxFaults \in Nat /\ faults <= MaxFaults
    <2>1. call[r].pc = "undo" /\ Fit(call[r])
      BY <1>1, Local DEF At
    <2>2. m # 0
      BY <2>1 DEF Fit, Typed, Making
    <2>3. faults >= 1
      BY <2>1 DEF Fit, Owns
    <2>4. faults \in 0..MaxFaults /\ MaxFaults \in Nat
      BY AccountsAssumption DEF AccountsInv, Tables
    <2> QED BY <2>2, <2>3, <2>4
  <1>4. /\ DOMAIN session' \subseteq DOMAIN session
        /\ DOMAIN session \ DOMAIN session' \subseteq {m}
        /\ faults' <= 1 => m \notin DOMAIN session'
        /\ \A k \in DOMAIN session' : session'[k] = session[k]
    <2>1. CASE session' = Without(session, m) /\ faults' = faults
      <3>1. /\ DOMAIN session' = DOMAIN session \ {m}
            /\ \A k \in DOMAIN session' : session'[k] = session[k]
        BY <2>1, WithoutKey
      <3> QED BY <3>1
    <2>2. CASE faults' = faults + 1 /\ session' = session
      BY <1>3, <2>2
    <2> QED BY <1>1, <2>1, <2>2
  <1>5. Fewer
    BY <1>1, <1>3, <1>4 DEF AccountsInv, Tables, Fewer, histories
  <1>6. ASSUME NEW q \in Request \ {r}, call[q].made # 0
        PROVE  call[q].made \in DOMAIN session' \ handed'
    <2>1. call[q].made # m
      BY <1>6 DEF AccountsInv, Apart, Differ
    <2> QED BY <1>1, <1>4, <1>6, <2>1, HandedOut DEF histories
  <1>7. \A q \in Request \ {r} : Fits(call[q])
    BY <1>5, <1>6, FewerFits
  <1>8. /\ CallsFit' /\ Apart' /\ DOMAIN call' = Request
        /\ \A q \in Request \ {r} : call'[q] = call[q]
    BY <1>1, <1>2, <1>7, IdleFitsAfter, CallFollows
  <1>9. FailedLoginLeavesNoSession'
    <2>1. ASSUME faults' <= 1, NEW k \in DOMAIN session' \ handed'
          PROVE  \E q \in Request : call'[q].made = k
      <3>1. k \in DOMAIN session \ handed /\ k # m /\ faults <= 1
        BY <1>1, <1>3, <1>4, <2>1 DEF histories
      <3>2. PICK q \in Request : call[q].made = k
        BY <3>1 DEF AccountsInv, FailedLoginLeavesNoSession
      <3> QED BY <1>8, <3>1, <3>2
    <2> QED BY <2>1 DEF FailedLoginLeavesNoSession
  <1> QED BY <1>5, <1>8, <1>9, FewerTables DEF AccountsInv

-----------------------------------------------------------------------------
(***************************************************************************)
(* Steps that change an account.                                            *)
(***************************************************************************)
\* Accounts are made and changed, hashes are given out; a session may get
\* another hash, and more sessions have ended.
Rehashed ==
  /\ DOMAIN account \subseteq DOMAIN account' /\ DOMAIN account' \subseteq Name
  /\ last' \in [hash : Nat, key : {last.key}, token : {last.token}, flow : {last.flow}]
  /\ last.hash <= last'.hash
  /\ \A n \in DOMAIN account' :
       account'[n] \in [hash : 0..last'.hash, active : BOOLEAN, email : BOOLEAN]
  /\ DOMAIN session' = DOMAIN session
  /\ \A k \in DOMAIN session :
       session'[k] \in [name : {session[k].name}, hash : 0..last'.hash, reveal : {session[k].reveal}]
  /\ stale' \subseteq 1..last.key
  /\ UNCHANGED <<mode, token, feed, flow, cookie, faults, shown, feedShown, handed, signed>>

\* Such a step leaves what was said of the tables, but for the sessions that
\* have ended.
LEMMA RehashedTables ==
  ASSUME AccountsInv, Rehashed, DOMAIN call' = Request
  PROVE  Tables' /\ Unshown' /\ FeedTokenAgrees' /\ Flows'
  <1>1. \A k \in DOMAIN session' :
          session'[k] \in [name : DOMAIN account', hash : 0..last'.hash, reveal : 0..last'.token]
    BY DEF AccountsInv, Tables, Rehashed
  <1>2. /\ last' \in [hash : Nat, key : Nat, token : 0..MaxTokens, flow : 0..MaxFlows]
        /\ last'.key = last.key /\ last'.token = last.token /\ last'.flow = last.flow
    BY DEF AccountsInv, Tables, Rehashed
  <1>3. Tables'
    BY <1>1, <1>2 DEF AccountsInv, Tables, Rehashed
  <1>4. Unshown'
    BY <1>2 DEF AccountsInv, Unshown, Rehashed
  <1>5. FeedTokenAgrees' /\ Flows'
    BY <1>2 DEF AccountsInv, FeedTokenAgrees, Flows, Rehashed
  <1> QED BY <1>3, <1>4, <1>5

\* Requests fit the tables as before.
LEMMA RehashedFits ==
  ASSUME AccountsInv, Rehashed, NEW q \in Request
  PROVE  Fits(call[q])
  <1>1. Fit(call[q]) /\ last.hash \in Nat
    BY Local
  <1>2. /\ last'.key = last.key /\ last'.token = last.token /\ last'.flow = last.flow
        /\ last'.hash \in Nat
    BY DEF Rehashed
  <1>3. Registered(call[q], DOMAIN account', last'.hash)
    BY <1>1, <1>2 DEF Fit, Registered, Rehashed
  <1>4. Owns(call[q], session', handed', faults')
    BY <1>1 DEF Fit, Owns, Rehashed
  <1>5. Reveals(call[q], session', shown', last'.token)
    BY <1>1, <1>2 DEF Fit, Reveals, Rehashed
  <1> QED BY <1>1, <1>2, <1>3, <1>4, <1>5 DEF Fit, Fits, Rehashed

\* Such a step in which no request moves.
LEMMA RehashedStays ==
  ASSUME AccountsInv, Rehashed, UNCHANGED call, Ended'
  PROVE  AccountsInv'
  <1>1. CallsFit' /\ Apart' /\ DOMAIN call' = Request
    BY RehashedFits, CallStays
  <1>2. FailedLoginLeavesNoSession'
    BY DEF AccountsInv, FailedLoginLeavesNoSession, Rehashed
  <1> QED BY <1>1, <1>2, RehashedTables DEF AccountsInv

\* Such a step in which one request moves.
LEMMA RehashedStep ==
  ASSUME AccountsInv, Rehashed, Ended', NEW r \in Request, NEW x, Becomes(r, x), Fits(x),
         Follows(x, call[r]), x.made = call[r].made
  PROVE  AccountsInv'
  <1>1. /\ CallsFit' /\ Apart' /\ DOMAIN call' = Request /\ call'[r] = x
        /\ \A q \in Request \ {r} : call'[q] = call[q]
    BY RehashedFits, CallFollows
  <1>2. \A q \in Request : call'[q].made = call[q].made
    BY <1>1
  <1>3. FailedLoginLeavesNoSession'
    BY <1>2 DEF AccountsInv, FailedLoginLeavesNoSession, Rehashed
  <1> QED BY <1>1, <1>3, RehashedTables DEF AccountsInv

\* Hashes are numbers, so a hash that is given out now is that of no session.
LEMMA Hashes ==
  ASSUME AccountsInv
  PROVE  /\ last.hash \in Nat
         /\ \A k \in DOMAIN session : /\ session[k].hash \in 0..last.hash
                                      /\ session[k].name \in DOMAIN account
         /\ \A n \in DOMAIN account : account[n] \in [hash : 0..last.hash, active : BOOLEAN, email : BOOLEAN]
         /\ last \in [hash : Nat, key : Nat, token : 0..MaxTokens, flow : 0..MaxFlows]
         /\ DOMAIN session \subseteq 1..last.key /\ stale \subseteq 1..last.key
         /\ DOMAIN account \subseteq Name
  BY DEF AccountsInv, Tables

\* The last record when one more hash is given out.
LEMMA NewHash ==
  ASSUME AccountsInv, last' = [last EXCEPT !.hash = @ + 1]
  PROVE  /\ last' \in [hash : Nat, key : {last.key}, token : {last.token}, flow : {last.flow}]
         /\ last'.hash = last.hash + 1
  BY Hashes

\* The same when none is.
LEMMA OldHash ==
  ASSUME AccountsInv, last' = last
  PROVE  last' \in [hash : Nat, key : {last.key}, token : {last.token}, flow : {last.flow}]
  BY Hashes

\* Sessions that did not change keep their types.
LEMMA SessionsStay ==
  ASSUME AccountsInv, UNCHANGED session, last.hash <= last'.hash, last'.hash \in Nat
  PROVE  \A k \in DOMAIN session :
           session'[k] \in [name : {session[k].name}, hash : 0..last'.hash, reveal : {session[k].reveal}]
  BY DEF AccountsInv, Tables

\* An account is switched on or off.
LEMMA SetActiveStep ==
  ASSUME AccountsInv, NEW n \in Name, SetActive(n)
  PROVE  AccountsInv'
  <1>1. n \in DOMAIN account /\ account' = [account EXCEPT ![n].active = ~@]
    BY DEF SetActive
  <1>2. UNCHANGED <<mode, session, token, feed, flow, last, cookie, call, faults, histories>>
    BY DEF SetActive
  <1>3. /\ DOMAIN account' = DOMAIN account
        /\ \A m \in DOMAIN account : account'[m].hash = account[m].hash
        /\ \A m \in DOMAIN account :
             account'[m] \in [hash : 0..last.hash, active : BOOLEAN, email : BOOLEAN]
    BY <1>1, Hashes
  <1>4. Rehashed
    BY <1>2, <1>3, Hashes, OldHash, SessionsStay DEF Rehashed, histories
  <1>5. Ended'
    BY <1>2, <1>3, Hashes DEF AccountsInv, Ended, histories
  <1> QED BY <1>2, <1>4, <1>5, RehashedStays

\* The accounts with one more, of which no session can be.
LEMMA Added ==
  ASSUME AccountsInv, NEW n \in Name, n \notin DOMAIN account, NEW a,
         account' = With(account, n, a), UNCHANGED <<session, stale>>
  PROVE  /\ DOMAIN account' = DOMAIN account \cup {n}
         /\ account'[n] = a /\ \A m \in DOMAIN account : account'[m] = account[m]
         /\ Ended'
  <1>1. /\ DOMAIN account' = DOMAIN account \cup {n}
        /\ account'[n] = a /\ \A m \in DOMAIN account : account'[m] = account[m]
    BY DEF With
  <1>2. Ended'
    BY <1>1, Hashes DEF AccountsInv, Ended
  <1> QED BY <1>1, <1>2

\* An administrator makes an account.
LEMMA AddAccountStep ==
  ASSUME AccountsInv, NEW n \in Name, NEW email \in BOOLEAN, AddAccount(n, email)
  PROVE  AccountsInv'
  <1> DEFINE a == [hash |-> last'.hash, active |-> TRUE, email |-> email]
  <1>1. /\ n \notin DOMAIN account /\ account' = With(account, n, a)
        /\ last' = [last EXCEPT !.hash = @ + 1]
        /\ UNCHANGED <<mode, session, token, feed, flow, cookie, call, faults, histories>>
    BY DEF AddAccount
  <1>2. a \in [hash : 0..last'.hash, active : BOOLEAN, email : BOOLEAN]
    BY <1>1, Hashes, NewHash
  <1> HIDE DEF a
  <1>3. /\ DOMAIN account' = DOMAIN account \cup {n}
        /\ account'[n] = a /\ \A m \in DOMAIN account : account'[m] = account[m]
        /\ Ended'
    BY <1>1, Added DEF histories
  <1>4. \A m \in DOMAIN account' :
          account'[m] \in [hash : 0..last'.hash, active : BOOLEAN, email : BOOLEAN]
    BY <1>1, <1>2, <1>3, Hashes, NewHash
  <1>5. last'.hash \in Nat /\ last.hash <= last'.hash
    BY <1>1, Hashes, NewHash
  <1>6. Rehashed
    BY <1>1, <1>3, <1>4, <1>5, Hashes, NewHash, SessionsStay DEF Rehashed, histories
  <1> QED BY <1>1, <1>3, <1>6, RehashedStays

\* A login makes the account, or finds that another one made it.
LEMMA CreateAccountStep ==
  ASSUME AccountsInv, NEW r \in Request, CreateAccount(r)
  PROVE  AccountsInv'
  <1> DEFINE n == call[r].name
             a == [hash |-> Unusable, active |-> TRUE, email |-> call[r].op = "oidc"]
             x == [call[r] EXCEPT !.pc = "hash"]
  <1>1. /\ call[r].pc = "create"
        /\ UNCHANGED <<mode, session, token, feed, flow, last, cookie, faults, histories>>
    BY DEF CreateAccount, At
  <1>2. /\ call[r].made = 0 /\ call[r].op \in {"oidc", "proxy"} /\ n \in Name /\ Fit(call[r])
        /\ last.flow \in Nat
    BY <1>1, Local, SMTT(30) DEF Typed, Making, OpsAt, Call
  <1>3. /\ "hash" \in DOMAIN OpsAt /\ call[r].op \in OpsAt["hash"]
        /\ call[r].op \in OpsAt["lookup"] /\ call[r].pc \in SigningIn
    BY <1>1, <1>2 DEF OpsAt, SigningIn
  <1>4. CASE n \in DOMAIN account
    <2>1. UNCHANGED account /\ (Goes(r, "lookup") \/ Done(r))
      BY <1>4 DEF CreateAccount
    <2>2. Tableless
      BY <1>1, <2>1, OpensTableless DEF Opens
    <2> QED BY <1>2, <1>3, <2>1, <2>2, DoneStep, GoesStep
  <1>5. CASE n \notin DOMAIN account
    <2>1. account' = With(account, n, a) /\ Becomes(r, x)
      BY <1>5 DEF CreateAccount, Goes
    <2>2. a \in [hash : 0..last'.hash, active : BOOLEAN, email : BOOLEAN]
      BY <1>1, Hashes DEF Unusable
    <2>3. /\ x \in Call /\ x.pc = "hash" /\ x.op = call[r].op /\ x.key = call[r].key
          /\ x.name = n /\ x.made = 0 /\ x.flow = call[r].flow
      BY <1>2, <1>3, GoesLocals
    <2> HIDE DEF a, x
    <2>4. /\ DOMAIN account' = DOMAIN account \cup {n}
          /\ account'[n] = a /\ \A m \in DOMAIN account : account'[m] = account[m]
          /\ Ended'
      BY <1>1, <1>2, <1>5, <2>1, Added DEF histories
    <2>5. \A m \in DOMAIN account' :
            account'[m] \in [hash : 0..last'.hash, active : BOOLEAN, email : BOOLEAN]
      BY <1>1, <2>2, <2>4, Hashes
    <2>6. Rehashed
      BY <1>1, <1>2, <2>4, <2>5, Hashes, OldHash, SessionsStay DEF Rehashed, histories
    <2>7. Typed(x)
      BY <1>3, <2>3 DEF Typed, Making
    <2>8. Registered(x, DOMAIN account', last'.hash)
      BY <2>3, <2>4 DEF Registered
    <2>9. Owns(x, session', handed', faults')
      BY <1>1, <1>2, <2>3 DEF Owns, Fit, histories
    <2>10. Reveals(x, session', shown', last'.token) /\ Feeds(x, feed')
      BY <2>3 DEF Reveals, Feeds
    <2>11. Signs(x, flow', signed', last'.flow) /\ x.flow \in 0..last'.flow
      BY <1>1, <1>2, <1>3, <2>3 DEF Signs, Fit, histories
    <2>12. Fits(x) /\ Follows(x, call[r])
      BY <1>3, <2>3, <2>7, <2>8, <2>9, <2>10, <2>11 DEF Fits, Follows
    <2> QED BY <1>2, <2>1, <2>3, <2>4, <2>6, <2>12, RehashedStep
  <1> QED BY <1>4, <1>5

\* The accounts when one gets the next hash.
LEMMA Rekeyed ==
  ASSUME AccountsInv, NEW n \in DOMAIN account, last' = [last EXCEPT !.hash = @ + 1],
         account' = [account EXCEPT ![n].hash = last'.hash]
  PROVE  /\ DOMAIN account' = DOMAIN account /\ account'[n].hash = last.hash + 1
         /\ \A m \in DOMAIN account \ {n} : account'[m] = account[m]
         /\ \A m \in DOMAIN account' :
              account'[m] \in [hash : 0..last'.hash, active : BOOLEAN, email : BOOLEAN]
         /\ last'.hash \in Nat /\ last.hash <= last'.hash
  <1>1. last'.hash = last.hash + 1 /\ last.hash \in Nat
    BY Hashes, NewHash
  <1>2. /\ DOMAIN account' = DOMAIN account /\ account'[n].hash = last.hash + 1
        /\ \A m \in DOMAIN account \ {n} : account'[m] = account[m]
    BY <1>1, Hashes
  <1>3. account'[n] \in [hash : 0..last'.hash, active : BOOLEAN, email : BOOLEAN]
    BY <1>1, Hashes
  <1>4. ASSUME NEW m \in DOMAIN account \ {n}
        PROVE  account'[m] \in [hash : 0..last'.hash, active : BOOLEAN, email : BOOLEAN]
    BY <1>1, <1>2, Hashes
  <1> QED BY <1>1, <1>2, <1>3, <1>4

\* An administrator sets a password; one who sets his own logs in again.
LEMMA AdminPasswordStep ==
  ASSUME AccountsInv, NEW r \in Request, NEW b \in Browser, NEW n \in Name, AdminPassword(r, b, n)
  PROVE  AccountsInv'
  <1> DEFINE m == session[cookie[b]].name
             x == Begun(b, "admin", "hash", m)
  <1>1. /\ n \in DOMAIN account /\ Live(cookie[b])
        /\ last' = [last EXCEPT !.hash = @ + 1]
        /\ account' = [account EXCEPT ![n].hash = last'.hash] /\ Ends(n, 0)
        /\ UNCHANGED <<mode, session, token, feed, flow, cookie, faults, shown, feedShown, handed, signed>>
    BY DEF AdminPassword
  <1>2. /\ DOMAIN account' = DOMAIN account /\ account'[n].hash = last.hash + 1
        /\ \A k \in DOMAIN account \ {n} : account'[k] = account[k]
        /\ \A k \in DOMAIN account' :
             account'[k] \in [hash : 0..last'.hash, active : BOOLEAN, email : BOOLEAN]
        /\ last'.hash \in Nat /\ last.hash <= last'.hash
    BY <1>1, Rekeyed
  <1>3. stale' \subseteq 1..last.key
    BY <1>1, Hashes DEF Ends
  <1>4. Rehashed
    BY <1>1, <1>2, <1>3, Hashes, NewHash, SessionsStay DEF Rehashed
  <1>5. Ended'
    <2>1. ASSUME NEW k \in stale', k \in DOMAIN session
          PROVE  session[k].hash # account'[session[k].name].hash
      <3>1. CASE session[k].name = n
        BY <1>2, <2>1, <3>1, Hashes
      <3>2. CASE session[k].name # n
        <4>1. k \in stale
          BY <1>1, <2>1, <3>2 DEF Ends
        <4> QED BY <1>2, <2>1, <3>2, <4>1, Hashes DEF AccountsInv, Ended
      <3> QED BY <3>1, <3>2
    <2> QED BY <1>1, <2>1 DEF Ended
  <1>6. CASE UNCHANGED call
    BY <1>4, <1>5, <1>6, RehashedStays
  <1>7. CASE StartsSignedIn(r, b, "admin", "hash")
    <2>1. At(r, "idle") /\ Becomes(r, x)
      BY <1>7 DEF StartsSignedIn, Starts
    <2>2. "hash" \in Starting /\ "admin" \in OpsAt["hash"]
      BY DEF Starting, OpsAt
    <2>3. m \in DOMAIN account /\ m \in Name /\ last.flow \in Nat /\ last'.flow = last.flow
      BY <1>1, SignedIn, Local, NewHash
    <2>4. /\ x \in Call /\ x.pc = "hash" /\ x.key \in {0} \cup handed /\ x.name = m
          /\ x.made = 0 /\ x.flow = 0 /\ Typed(x)
      BY <2>2, <2>3, BegunLocals
    <2>5. call[r].made = 0
      BY <2>1, Local, IdleFits DEF At, Typed
    <2> HIDE DEF x, m
    <2>6. Fits(x) /\ Follows(x, call[r])
      BY <1>1, <1>2, <2>3, <2>4 DEF Fits, Registered, Owns, Reveals, Feeds, Signs, Known, Follows
    <2> QED BY <1>4, <1>5, <2>1, <2>4, <2>5, <2>6, RehashedStep
  <1> QED BY <1>6, <1>7 DEF AdminPassword

\* A user changes his own password, if it and his session are as he read them.
LEMMA WritePasswordStep ==
  ASSUME AccountsInv, NEW r \in Request, WritePassword(r)
  PROVE  AccountsInv'
  <1> DEFINE k == call[r].key
             n == call[r].name
             same == account[n].hash = call[r].hash /\ k \in DOMAIN session /\ session[k] = call[r].stored
  <1>1. /\ call[r].pc = "change" /\ Done(r)
        /\ UNCHANGED <<mode, token, feed, flow, cookie, faults, shown, feedShown, handed, signed>>
    BY DEF WritePassword, At
  <1>2. /\ Fit(call[r]) /\ call[r].made = 0 /\ n \in DOMAIN account /\ n \in Name
        /\ call[r].stored.hash = call[r].hash /\ last.flow \in Nat
    BY <1>1, Local DEF Fit, Typed, Making, Registered, Known, Call
  <1>3. Becomes(r, Idle) /\ Idle.made = 0
    BY <1>1, IdleFits DEF Done
  <1>4. CASE ~same
    <2>1. UNCHANGED <<last, account, session, stale>>
      BY <1>4 DEF WritePassword
    <2> QED BY <1>1, <1>2, <2>1, OpensTableless, DoneStep DEF Opens, histories
  <1>5. CASE same
    <2>1. /\ last' = [last EXCEPT !.hash = @ + 1]
          /\ account' = [account EXCEPT ![n].hash = last'.hash]
          /\ session' = [session EXCEPT ![k].hash = last'.hash] /\ Ends(n, k)
      BY <1>5 DEF WritePassword
    <2>2. /\ DOMAIN account' = DOMAIN account /\ account'[n].hash = last.hash + 1
          /\ \A m \in DOMAIN account \ {n} : account'[m] = account[m]
          /\ \A m \in DOMAIN account' :
               account'[m] \in [hash : 0..last'.hash, active : BOOLEAN, email : BOOLEAN]
          /\ last'.hash \in Nat /\ last.hash <= last'.hash
      BY <1>2, <2>1, Rekeyed
    <2>3. session[k].name = n /\ session[k].hash = account[n].hash
      BY <1>1, <1>2, <1>5 DEF Fit, Owns
    <2>4. k \notin stale
      BY <1>5, <2>3 DEF AccountsInv, Ended
    <2>5. /\ DOMAIN session' = DOMAIN session
          /\ \A l \in DOMAIN session \ {k} : session'[l] = session[l]
      BY <2>1
    <2>6. ASSUME NEW l \in DOMAIN session
          PROVE  session'[l] \in [name : {session[l].name}, hash : 0..last'.hash, reveal : {session[l].reveal}]
      <3>1. session[l] \in [name : DOMAIN account, hash : 0..last.hash, reveal : 0..last.token]
        BY DEF AccountsInv, Tables
      <3>2. CASE l = k
        BY <2>1, <2>2, <3>1, <3>2
      <3>3. CASE l # k
        BY <2>2, <2>5, <3>1, <3>3, Hashes
      <3> QED BY <3>2, <3>3
    <2>7. stale' \subseteq 1..last.key
      BY <2>1, Hashes DEF Ends
    <2>8. Rehashed
      BY <1>1, <2>1, <2>2, <2>5, <2>6, <2>7, Hashes, NewHash DEF Rehashed
    <2>9. Ended'
      <3>1. ASSUME NEW l \in stale', l \in DOMAIN session
            PROVE  session'[l].hash # account'[session'[l].name].hash
        <4>1. l # k
          BY <2>1, <2>4, <3>1 DEF Ends
        <4>2. session'[l] = session[l]
          BY <2>5, <3>1, <4>1
        <4>3. CASE session[l].name = n
          BY <2>2, <3>1, <4>2, <4>3, Hashes
        <4>4. CASE session[l].name # n
          <5>1. l \in stale
            BY <2>1, <3>1, <4>4 DEF Ends
          <5> QED BY <2>2, <3>1, <4>2, <4>4, <5>1, Hashes DEF AccountsInv, Ended
        <4> QED BY <4>3, <4>4
      <3> QED BY <2>5, <3>1 DEF Ended
    <2>10. last'.flow \in Nat
      BY <1>2, <2>1, NewHash
    <2> QED BY <1>2, <1>3, <2>8, <2>9, <2>10, IdleFitsAfter, RehashedStep
  <1> QED BY <1>4, <1>5

-----------------------------------------------------------------------------
(***************************************************************************)
(* New sessions.                                                            *)
(***************************************************************************)
\* A login inserts its session, the first from its flow.
LEMMA InsertSessionStep ==
  ASSUME AccountsInv, NEW r \in Request, InsertSession(r)
  PROVE  AccountsInv'
  <1> DEFINE k == last.key + 1
             f == call[r].flow
             pc == IF call[r].op \in {"login", "oidc"} THEN "record" ELSE "respond"
             x == [call[r] EXCEPT !.pc = pc, !.made = k]
             s == [name |-> call[r].name, hash |-> call[r].hash, reveal |-> 0]
  <1>1. last \in [hash : Nat, key : Nat, token : 0..MaxTokens, flow : 0..MaxFlows]
    BY Hashes
  <1>2. last' = [last EXCEPT !.key = @ + 1]
    BY DEF InsertSession
  <1>3. /\ last'.key = k /\ last'.hash = last.hash /\ last'.token = last.token /\ last'.flow = last.flow
        /\ last' \in [hash : Nat, key : Nat, token : 0..MaxTokens, flow : 0..MaxFlows]
        /\ k \in Nat \ {0} /\ 1..last.key \subseteq 1..k /\ k \notin 1..last.key
    BY <1>1, <1>2
  <1>4. /\ call[r].pc = "insert" /\ session' = With(session, k, s)
        /\ signed' = [signed EXCEPT ![f] = @ + 1] /\ Becomes(r, x)
        /\ UNCHANGED <<mode, account, token, feed, flow, cookie, faults, stale, shown, feedShown, handed>>
    BY <1>3 DEF InsertSession, At
  <1>5. /\ Fit(call[r]) /\ call[r] \in Call /\ call[r].made = 0
        /\ call[r].op \in {"login", "admin", "oidc", "proxy"}
        /\ call[r].name \in DOMAIN account /\ call[r].hash \in 0..last.hash /\ f \in 0..last.flow
    BY <1>4, Local DEF Fit, Typed, Making, OpsAt, Registered, Known
  <1>6. pc \in {"record", "respond"} /\ call[r].op \in OpsAt[pc] /\ pc \in DOMAIN OpsAt
    BY <1>5 DEF OpsAt
  <1>7. /\ x \in Call /\ x.pc = pc /\ x.op = call[r].op /\ x.key = call[r].key
        /\ x.name = call[r].name /\ x.made = k /\ x.flow = f
    BY <1>3, <1>5, <1>6 DEF Call
  <1>8. s \in [name : DOMAIN account, hash : 0..last.hash, reveal : 0..last.token] /\ s.reveal = 0
        /\ s.name = call[r].name
    BY <1>1, <1>5
  <1> HIDE DEF x, s, pc, k
  <1>9. /\ DOMAIN session' = DOMAIN session \cup {k} /\ session'[k] = s
        /\ \A l \in DOMAIN session : l # k => session'[l] = session[l]
    BY <1>4 DEF With
  <1>10. k \notin DOMAIN session /\ k \notin handed /\ k \notin stale
    BY <1>3 DEF AccountsInv, Tables
  <1>11. \A l \in DOMAIN session : session'[l] = session[l]
    BY <1>9, <1>10
  <1>12. /\ f # 0 => f \in 1..last.flow /\ f \notin flow /\ signed[f] = 0 /\ f \in 1..MaxFlows
         /\ f \in 0..MaxFlows /\ signed \in [0..MaxFlows -> Nat]
    BY <1>1, <1>4, <1>5, AccountsAssumption DEF Fit, Signs, SigningIn, AccountsInv, Tables
  <1>13. /\ signed'[f] = signed[f] + 1 /\ signed' \in [0..MaxFlows -> Nat]
         /\ \A g \in 0..MaxFlows : g # f => signed'[g] = signed[g]
    BY <1>4, <1>12
  <1>14. Typed(x)
    BY <1>3, <1>6, <1>7 DEF Typed, Making
  <1>15. Registered(x, DOMAIN account', last'.hash)
    BY <1>4, <1>5, <1>6, <1>7 DEF Registered
  <1>16. Owns(x, session', handed', faults')
    BY <1>4, <1>5, <1>6, <1>7, <1>8, <1>9, <1>10 DEF Owns, Fit
  <1>17. /\ Reveals(x, session', shown', last'.token) /\ Feeds(x, feed')
         /\ Signs(x, flow', signed', last'.flow) /\ x.flow \in 0..last'.flow
    BY <1>3, <1>5, <1>6, <1>7 DEF Reveals, Feeds, Signs, SigningIn
  <1>18. Fits(x)
    BY <1>14, <1>15, <1>16, <1>17 DEF Fits
  <1>19. ASSUME NEW q \in Request \ {r}
         PROVE  Fits(call[q]) /\ Differ(x, call[q]) /\ Differ(call[q], x)
    <2>1. Fit(call[q]) /\ Differ(call[q], call[r])
      BY Local DEF AccountsInv, Apart
    <2>2. Registered(call[q], DOMAIN account', last'.hash) /\ Feeds(call[q], feed')
      BY <1>3, <1>4, <2>1 DEF Fit
    <2>3. Owns(call[q], session', handed', faults')
      <3>1. call[q].key # k
        BY <1>3, <1>10, <2>1 DEF Fit, Owns
      <3> QED BY <1>4, <1>9, <1>11, <2>1, <3>1 DEF Fit, Owns
    <2>4. Reveals(call[q], session', shown', last'.token)
      BY <1>1, <1>3, <1>4, <1>8, <1>9, <1>11, <2>1 DEF Fit, Reveals
    <2>5. Signs(call[q], flow', signed', last'.flow)
      <3>1. ASSUME call[q].pc \in SigningIn, call[q].flow # 0
            PROVE  call[q].flow \in 1..last'.flow \ flow' /\ signed'[call[q].flow] = 0
        <4>1. call[q].flow \in 1..last.flow \ flow /\ signed[call[q].flow] = 0
          BY <2>1, <3>1 DEF Fit, Signs
        <4>2. call[q].flow # f
          BY <1>4, <2>1, <3>1 DEF Differ, SigningIn
        <4>3. call[q].flow \in 0..MaxFlows
          BY <1>1, <4>1, AccountsAssumption
        <4> QED BY <1>3, <1>4, <1>13, <4>1, <4>2, <4>3
      <3> QED BY <3>1 DEF Signs
    <2>6. Fits(call[q])
      BY <1>3, <2>1, <2>2, <2>3, <2>4, <2>5 DEF Fit, Fits
    <2>7. call[q].made # k
      BY <1>3, <1>10, <2>1 DEF Fit, Owns
    <2>8. Differ(x, call[q]) /\ Differ(call[q], x)
      BY <1>6, <1>7, <2>7 DEF Differ, SigningIn
    <2> QED BY <2>6, <2>8
  <1>20. /\ CallsFit' /\ Apart' /\ DOMAIN call' = Request /\ call'[r] = x
         /\ \A q \in Request \ {r} : call'[q] = call[q]
    BY <1>4, <1>18, <1>19, CallMoves
  <1>21. Tables'
    <2>1. \A l \in DOMAIN session' :
            session'[l] \in [name : DOMAIN account', hash : 0..last'.hash, reveal : 0..last'.token]
      BY <1>3, <1>4, <1>8, <1>9, <1>11 DEF AccountsInv, Tables
    <2>2. DOMAIN session' \subseteq 1..last'.key
      BY <1>3, <1>9 DEF AccountsInv, Tables
    <2> QED BY <1>3, <1>4, <1>13, <1>20, <2>1, <2>2 DEF AccountsInv, Tables
  <1>22. Ended'
    BY <1>4, <1>9, <1>10, <1>11 DEF AccountsInv, Ended
  <1>23. Unshown'
    BY <1>3, <1>4, <1>8, <1>9, <1>11 DEF AccountsInv, Unshown
  <1>24. Flows' /\ FeedTokenAgrees'
    <2>1. ASSUME NEW g \in 1..MaxFlows
          PROVE  signed'[g] <= 1 /\ (g \in flow \/ g > last.flow => signed'[g] = 0)
      <3>1. CASE g = f
        BY <1>1, <1>12, <1>13, <3>1
      <3>2. CASE g # f
        BY <1>13, <3>2 DEF AccountsInv, Flows
      <3> QED BY <3>1, <3>2
    <2> QED BY <1>3, <1>4, <2>1 DEF AccountsInv, Flows, FeedTokenAgrees
  <1>25. FailedLoginLeavesNoSession'
    <2>1. ASSUME faults <= 1, NEW l \in DOMAIN session' \ handed
          PROVE  \E q \in Request : call'[q].made = l
      <3>1. CASE l = k
        BY <1>7, <1>20, <3>1
      <3>2. CASE l # k
        <4>1. PICK q \in Request : call[q].made = l
          BY <1>9, <2>1, <3>2 DEF AccountsInv, FailedLoginLeavesNoSession
        <4>2. l # 0
          BY <1>9, <2>1, <3>2, HandedOut
        <4> QED BY <1>5, <1>20, <4>1, <4>2
      <3> QED BY <3>1, <3>2
    <2> QED BY <1>4, <2>1 DEF FailedLoginLeavesNoSession
  <1> QED BY <1>20, <1>21, <1>22, <1>23, <1>24, <1>25 DEF AccountsInv

-----------------------------------------------------------------------------
(***************************************************************************)
(* API tokens.                                                              *)
(***************************************************************************)
\* A function with one more key.
LEMMA WithKey ==
  ASSUME NEW s, NEW k, NEW x
  PROVE  DOMAIN With(s, k, x) = DOMAIN s \cup {k}
  BY DEF With

\* A token is inserted; the request that made it is to store it.
LEMMA StartTokenStep ==
  ASSUME AccountsInv, NEW r \in Request, NEW b \in Browser, StartToken(r, b)
  PROVE  AccountsInv'
  <1> DEFINE n == session[cookie[b]].name
             t == last.token + 1
             y == Begun(b, "token", "reveal", n)
             x == [y EXCEPT !.token = t]
  <1>1. /\ last \in [hash : Nat, key : Nat, token : 0..MaxTokens, flow : 0..MaxFlows]
        /\ last' = [last EXCEPT !.token = @ + 1] /\ last.token < MaxTokens /\ MaxTokens \in Nat
    BY Hashes, AccountsAssumption DEF StartToken
  <1>2. /\ last'.token = t /\ last'.hash = last.hash /\ last'.key = last.key /\ last'.flow = last.flow
        /\ last' \in [hash : Nat, key : Nat, token : 0..MaxTokens, flow : 0..MaxFlows]
        /\ t \in 1..MaxTokens /\ t \in Nat /\ last.token \in Nat
    BY <1>1
  <1>3. /\ token' = With(token, t, n) /\ Live(cookie[b]) /\ At(r, "idle") /\ Becomes(r, x)
        /\ UNCHANGED <<mode, account, session, feed, flow, cookie, faults, histories>>
    BY <1>2 DEF StartToken, Starts
  <1>4. "reveal" \in Starting /\ "token" \in OpsAt["reveal"] /\ n \in Name
    BY <1>3, SignedIn DEF Starting, OpsAt
  <1>5. /\ y \in Call /\ y.pc = "reveal" /\ y.op = "token" /\ y.key \in {0} \cup handed /\ y.made = 0
        /\ y.flow = 0
    BY <1>4, BegunLocals
  <1>6. call[r].made = 0
    BY <1>3, Local, IdleFits DEF At, Typed
  <1> HIDE DEF y, n
  <1>7. /\ x \in Call /\ x.pc = "reveal" /\ x.op = "token" /\ x.key \in {0} \cup handed /\ x.made = 0
        /\ x.flow = 0 /\ x.token = t
    BY <1>2, <1>5 DEF Call
  <1>8. ~(t \in 1..last.token) /\ 1..last.token \subseteq 1..last'.token
    BY <1>2
  <1>9. t > last.token
    BY <1>2
  <1> HIDE DEF x, t
  <1>10. /\ shown[t] = 0 /\ \A k \in DOMAIN session : session[k].reveal # t
    BY <1>2, <1>9 DEF AccountsInv, Unshown, Tables
  <1>11. Typed(x) /\ Registered(x, DOMAIN account', last'.hash)
    BY <1>4, <1>7 DEF Typed, Making, Registered, Known
  <1>12. Owns(x, session', handed', faults')
    BY <1>3, <1>7 DEF Owns, histories
  <1>13. Reveals(x, session', shown', last'.token)
    BY <1>2, <1>3, <1>7, <1>10 DEF Reveals, histories
  <1>14. Feeds(x, feed') /\ Signs(x, flow', signed', last'.flow) /\ x.flow \in 0..last'.flow
    BY <1>1, <1>2, <1>7 DEF Feeds, Signs, SigningIn
  <1>15. Fits(x)
    BY <1>11, <1>12, <1>13, <1>14 DEF Fits
  <1>16. ASSUME NEW q \in Request \ {r}
         PROVE  Fits(call[q]) /\ Differ(x, call[q]) /\ Differ(call[q], x)
    <2>1. Fit(call[q])
      BY Local
    <2>2. Reveals(call[q], session', shown', last'.token)
      BY <1>3, <1>8, <2>1 DEF Fit, Reveals, histories
    <2>3. Fits(call[q])
      BY <1>2, <1>3, <2>1, <2>2 DEF Fit, Fits, histories
    <2>4. call[q].pc \in {"reveal", "store"} => call[q].token # t
      BY <1>8, <2>1 DEF Fit, Reveals
    <2>5. Differ(x, call[q]) /\ Differ(call[q], x)
      BY <1>7, <2>4 DEF Differ, SigningIn
    <2> QED BY <2>3, <2>5
  <1>17. /\ CallsFit' /\ Apart' /\ DOMAIN call' = Request /\ call'[r] = x
         /\ \A q \in Request \ {r} : call'[q] = call[q]
    BY <1>3, <1>15, <1>16, CallMoves
  <1>18. Tables'
    <2>1. DOMAIN token' \subseteq 1..last'.token
      <3>1. DOMAIN token' = DOMAIN token \cup {t}
        BY <1>3, WithKey
      <3>2. t \in 1..last'.token
        BY <1>2, AccountsAssumption
      <3>3. DOMAIN token \subseteq 1..last.token
        BY DEF AccountsInv, Tables
      <3> QED BY <1>8, <3>1, <3>2, <3>3
    <2>2. \A k \in DOMAIN session :
            session[k] \in [name : DOMAIN account, hash : 0..last.hash, reveal : 0..last'.token]
      BY <1>2 DEF AccountsInv, Tables, t
    <2> QED BY <1>2, <1>3, <1>17, <2>1, <2>2 DEF AccountsInv, Tables, histories
  <1>19. Ended' /\ FeedTokenAgrees' /\ Flows'
    BY <1>2, <1>3 DEF AccountsInv, Ended, FeedTokenAgrees, Flows, histories
  <1>20. Unshown'
    BY <1>2, <1>3 DEF AccountsInv, Unshown, histories, t
  <1>21. \A q \in Request : call'[q].made = call[q].made
    BY <1>6, <1>7, <1>17
  <1>22. FailedLoginLeavesNoSession'
    BY <1>3, <1>21 DEF AccountsInv, FailedLoginLeavesNoSession, histories
  <1> QED BY <1>17, <1>18, <1>19, <1>20, <1>22 DEF AccountsInv

\* A session may show another token, or none, to its next page; the tokens and
\* what was shown may change.
Retold ==
  /\ DOMAIN session' = DOMAIN session
  /\ \A k \in DOMAIN session :
       session'[k] \in [name : {session[k].name}, hash : {session[k].hash}, reveal : 0..last.token]
  /\ DOMAIN token' \subseteq DOMAIN token
  /\ shown' \in [1..MaxTokens -> 0..1] /\ feedShown' \subseteq Name \X Request
  /\ UNCHANGED <<mode, account, feed, flow, last, cookie, faults, stale, handed, signed>>

\* Such a step of a request that ends, or of none, keeps the invariant, if it
\* keeps what was said of the tokens shown.
LEMMA RetoldTables ==
  ASSUME AccountsInv, Retold, DOMAIN call' = Request
  PROVE  Tables' /\ Ended' /\ Flows'
  <1>1. \A k \in DOMAIN session' :
          /\ session'[k] \in [name : DOMAIN account', hash : 0..last'.hash, reveal : 0..last'.token]
          /\ session'[k].name = session[k].name /\ session'[k].hash = session[k].hash
    BY DEF AccountsInv, Tables, Retold
  <1>2. Tables'
    BY <1>1 DEF AccountsInv, Tables, Retold
  <1>3. Ended' /\ Flows'
    BY <1>1 DEF AccountsInv, Ended, Flows, Retold
  <1> QED BY <1>2, <1>3

\* A request fits as before if the token it is to store is still in no session
\* and not shown.
LEMMA RetoldFits ==
  ASSUME AccountsInv, Retold, NEW q \in Request, Reveals(call[q], session', shown', last'.token)
  PROVE  Fits(call[q])
  <1>1. Fit(call[q])
    BY Local
  <1>2. Owns(call[q], session', handed', faults')
    BY <1>1 DEF Fit, Owns, Retold
  <1> QED BY <1>1, <1>2 DEF Fit, Fits, Retold

\* Such a step of a request that ends.
LEMMA RetoldStep ==
  ASSUME AccountsInv, Retold, NEW r \in Request, Done(r), call[r].made = 0,
         \A q \in Request \ {r} : Reveals(call[q], session', shown', last'.token),
         Unshown', FeedTokenAgrees'
  PROVE  AccountsInv'
  <1>1. Becomes(r, Idle) /\ Idle.made = 0
    BY IdleFits DEF Done
  <1>2. last'.flow \in Nat
    BY Local DEF Retold
  <1>3. \A q \in Request \ {r} : Fits(call[q])
    BY RetoldFits
  <1>4. /\ CallsFit' /\ Apart' /\ DOMAIN call' = Request /\ call'[r] = Idle
        /\ \A q \in Request \ {r} : call'[q] = call[q]
    BY <1>1, <1>2, <1>3, IdleFitsAfter, CallFollows
  <1>5. \A q \in Request : call'[q].made = call[q].made
    BY <1>1, <1>4
  <1>6. FailedLoginLeavesNoSession'
    BY <1>5 DEF AccountsInv, FailedLoginLeavesNoSession, Retold
  <1> QED BY <1>4, <1>6, RetoldTables DEF AccountsInv

\* A user deletes a token.
LEMMA DeleteTokenStep ==
  ASSUME AccountsInv, NEW b \in Browser, NEW t, DeleteToken(b, t)
  PROVE  AccountsInv'
  <1>1. /\ token' = Without(token, t)
        /\ UNCHANGED <<mode, account, session, feed, flow, last, cookie, call, faults, histories>>
    BY DEF DeleteToken
  <1>2. \A k \in DOMAIN session :
          session[k] \in [name : {session[k].name}, hash : {session[k].hash}, reveal : 0..last.token]
    BY DEF AccountsInv, Tables
  <1>3. Retold
    <2>1. DOMAIN token' \subseteq DOMAIN token
      BY <1>1, WithoutKey
    <2>2. shown \in [1..MaxTokens -> 0..1] /\ feedShown \subseteq Name \X Request
      BY DEF AccountsInv, Tables
    <2> QED BY <1>1, <1>2, <2>1, <2>2 DEF Retold, histories
  <1>4. \A q \in Request : Fits(call[q])
    BY <1>1, <1>3, Local, RetoldFits DEF Fit, histories
  <1>5. CallsFit' /\ Apart' /\ DOMAIN call' = Request
    BY <1>1, <1>4, CallStays
  <1>6. FailedLoginLeavesNoSession' /\ Unshown' /\ FeedTokenAgrees'
    BY <1>1 DEF AccountsInv, FailedLoginLeavesNoSession, Unshown, FeedTokenAgrees, histories
  <1> QED BY <1>3, <1>5, <1>6, RetoldTables DEF AccountsInv

\* The token is stored in the session, if that is as it was read.
LEMMA StoreRevealStep ==
  ASSUME AccountsInv, NEW r \in Request, StoreReveal(r)
  PROVE  AccountsInv'
  <1> DEFINE k == call[r].key
             t == call[r].token
             same == k \in DOMAIN session /\ session[k] = call[r].stored
  <1>1. /\ call[r].pc = "store" /\ Done(r)
        /\ session' = IF same THEN [session EXCEPT ![k].reveal = t] ELSE session
        /\ UNCHANGED <<mode, account, token, feed, flow, last, cookie, faults, histories>>
    BY DEF StoreReveal, At
  <1>2. /\ Fit(call[r]) /\ call[r].made = 0 /\ t \in 1..last.token /\ shown[t] = 0
        /\ \A l \in DOMAIN session : session[l].reveal # t
    BY <1>1, Local DEF Fit, Typed, Making, Reveals
  <1>3. CASE ~same
    <2>1. UNCHANGED session
      BY <1>1, <1>3
    <2> QED BY <1>1, <1>2, <2>1, OpensTableless, DoneStep DEF Opens, histories
  <1>4. CASE same
    <2>1. k \in DOMAIN session /\ session' = [session EXCEPT ![k].reveal = t]
      BY <1>1, <1>4
    <2>2. last.token \in Nat /\ t \in 0..last.token /\ t # 0
      BY <1>2, AccountsAssumption DEF AccountsInv, Tables
    <2> HIDE DEF t, k
    <2>3. \A l \in DOMAIN session :
            session[l] \in [name : {session[l].name}, hash : {session[l].hash}, reveal : 0..last.token]
      BY DEF AccountsInv, Tables
    <2>4. /\ DOMAIN session' = DOMAIN session /\ session'[k].reveal = t
          /\ session'[k] \in [name : {session[k].name}, hash : {session[k].hash}, reveal : 0..last.token]
          /\ \A l \in DOMAIN session : l # k => session'[l] = session[l]
      BY <2>1, <2>2, <2>3
    <2>5. \A l \in DOMAIN session :
            session'[l] \in [name : {session[l].name}, hash : {session[l].hash}, reveal : 0..last.token]
      BY <2>3, <2>4
    <2>6. shown \in [1..MaxTokens -> 0..1] /\ feedShown \subseteq Name \X Request
      BY DEF AccountsInv, Tables
    <2>7. Retold
      BY <1>1, <2>4, <2>5, <2>6 DEF Retold, histories
    <2>8. ASSUME NEW q \in Request \ {r}
          PROVE  Reveals(call[q], session', shown', last'.token)
      <3>1. Fit(call[q]) /\ Differ(call[q], call[r])
        BY Local DEF AccountsInv, Apart
      <3>2. call[q].pc \in {"reveal", "store"} => call[q].token # t
        BY <1>1, <3>1 DEF Differ, t
      <3> QED BY <1>1, <2>4, <3>1, <3>2 DEF Fit, Reveals, histories
    <2>9. Unshown'
      BY <1>1, <1>2, <2>2, <2>4 DEF AccountsInv, Unshown, histories, t
    <2>10. FeedTokenAgrees'
      BY <1>1 DEF AccountsInv, FeedTokenAgrees, histories
    <2> QED BY <1>1, <1>2, <2>7, <2>8, <2>9, <2>10, RetoldStep
  <1> QED BY <1>3, <1>4

\* A page shows the feed token of its user, which is stored.
LEMMA PageShows ==
  ASSUME AccountsInv, NEW r \in Request, call[r].pc = "taken"
  PROVE  /\ call[r].name \in Name /\ call[r].feed \in Request /\ feed[call[r].name] = call[r].feed
         /\ feedShown \cup {<<call[r].name, call[r].feed>>} \subseteq Name \X Request
         /\ \A s \in feedShown \cup {<<call[r].name, call[r].feed>>} : feed[s[1]] = s[2]
  <1>1. /\ call[r].name \in Name /\ call[r].feed \in Request /\ feed[call[r].name] = call[r].feed
    BY Local DEF Fit, Feeds, Call
  <1> QED BY <1>1 DEF AccountsInv, Tables, FeedTokenAgrees

\* A page takes the token from the session, if that is as it was read, and
\* shows it.
LEMMA TakeRevealStep ==
  ASSUME AccountsInv, NEW r \in Request, TakeReveal(r)
  PROVE  AccountsInv'
  <1> DEFINE k == call[r].key
             t == call[r].stored.reveal
             same == k \in DOMAIN session /\ session[k] = call[r].stored
  <1>1. /\ call[r].pc = "taken" /\ Done(r)
        /\ UNCHANGED <<mode, account, token, feed, flow, last, cookie, faults, stale, handed, signed>>
        /\ feedShown' = feedShown \cup {<<call[r].name, call[r].feed>>}
    BY DEF TakeReveal, At, Shows
  <1>2. Fit(call[r]) /\ call[r].made = 0
    BY <1>1, Local DEF Typed, Making
  <1>3. feedShown' \subseteq Name \X Request /\ FeedTokenAgrees'
    BY <1>1, PageShows DEF FeedTokenAgrees
  <1>4. \A l \in DOMAIN session :
          session[l] \in [name : {session[l].name}, hash : {session[l].hash}, reveal : 0..last.token]
    BY DEF AccountsInv, Tables
  <1>5. last.token \in Nat /\ last.token <= MaxTokens /\ MaxTokens \in Nat /\ shown \in [1..MaxTokens -> 0..1]
    BY AccountsAssumption DEF AccountsInv, Tables
  <1>6. CASE ~same
    <2>1. UNCHANGED <<session, shown>>
      BY <1>6 DEF TakeReveal, Shows
    <2>2. Retold
      BY <1>1, <1>3, <1>4, <1>5, <2>1 DEF Retold, AccountsInv, Tables
    <2>3. \A q \in Request \ {r} : Reveals(call[q], session', shown', last'.token)
      BY <1>1, <2>1, Local DEF Fit
    <2>4. Unshown'
      BY <1>1, <2>1 DEF AccountsInv, Unshown
    <2> QED BY <1>1, <1>2, <1>3, <2>2, <2>3, <2>4, RetoldStep
  <1>7. CASE same
    <2>1. /\ k \in DOMAIN session /\ session[k].reveal = t
          /\ session' = [session EXCEPT ![k].reveal = 0]
          /\ shown' = IF t = 0 THEN shown ELSE [shown EXCEPT ![t] = @ + 1]
      BY <1>7 DEF TakeReveal, Shows
    <2> HIDE DEF t, k
    <2>2. /\ DOMAIN session' = DOMAIN session /\ session'[k].reveal = 0
          /\ session'[k] \in [name : {session[k].name}, hash : {session[k].hash}, reveal : 0..last.token]
          /\ \A l \in DOMAIN session : l # k => session'[l] = session[l]
      BY <1>4, <1>5, <2>1
    <2>3. \A l \in DOMAIN session :
            session'[l] \in [name : {session[l].name}, hash : {session[l].hash}, reveal : 0..last.token]
      BY <1>4, <2>2
    <2>4. t \in 0..last.token
      BY <1>4, <2>1
    <2>5. t # 0 => t \in 1..MaxTokens /\ shown[t] = 0
      BY <1>5, <2>1, <2>4 DEF AccountsInv, Unshown
    <2>6. /\ shown' \in [1..MaxTokens -> 0..1]
          /\ \A u \in 1..MaxTokens : u # t => shown'[u] = shown[u]
      BY <1>5, <2>1, <2>5
    <2>7. Retold
      BY <1>1, <1>3, <2>2, <2>3, <2>6 DEF Retold, AccountsInv, Tables
    <2>8. \A l \in DOMAIN session : l # k /\ session[l].reveal # 0 => session[l].reveal # t
      BY <2>1 DEF AccountsInv, Unshown
    <2>9. ASSUME NEW q \in Request \ {r}
          PROVE  Reveals(call[q], session', shown', last'.token)
      <3>1. ASSUME call[q].pc \in {"reveal", "store"}
            PROVE  /\ call[q].token \in 1..last'.token /\ shown'[call[q].token] = 0
                   /\ \A l \in DOMAIN session' : session'[l].reveal # call[q].token
        <4>1. /\ call[q].token \in 1..last.token /\ shown[call[q].token] = 0
              /\ \A l \in DOMAIN session : session[l].reveal # call[q].token
          BY <3>1, Local DEF Fit, Reveals
        <4>2. call[q].token # t /\ call[q].token \in 1..MaxTokens /\ call[q].token # 0
          BY <1>5, <2>1, <4>1
        <4> QED BY <1>1, <2>2, <2>6, <4>1, <4>2
      <3> QED BY <3>1 DEF Reveals
    <2>10. Unshown'
      <3>1. ASSUME NEW l \in DOMAIN session', session'[l].reveal # 0
            PROVE  /\ shown'[session'[l].reveal] = 0
                   /\ \A m \in DOMAIN session' \ {l} : session'[m].reveal # session'[l].reveal
        <4>1. l # k /\ l \in DOMAIN session /\ session'[l] = session[l]
          BY <2>2, <3>1
        <4>2. session[l].reveal \in 1..MaxTokens /\ session[l].reveal # t
          BY <1>4, <1>5, <2>8, <3>1, <4>1
        <4>3. /\ shown[session[l].reveal] = 0
              /\ \A m \in DOMAIN session \ {l} : session[m].reveal # session[l].reveal
          BY <3>1, <4>1 DEF AccountsInv, Unshown
        <4> QED BY <2>2, <2>6, <3>1, <4>1, <4>2, <4>3
      <3>2. \A u \in 1..MaxTokens : u > last'.token => shown'[u] = 0
        <4>1. ASSUME NEW u \in 1..MaxTokens, u > last.token
              PROVE  shown'[u] = 0
          <5>1. u # t
            BY <1>5, <2>4, <4>1
          <5> QED BY <2>6, <4>1, <5>1 DEF AccountsInv, Unshown
        <4> QED BY <1>1, <4>1
      <3> QED BY <3>1, <3>2 DEF Unshown
    <2> QED BY <1>1, <1>2, <1>3, <2>7, <2>9, <2>10, RetoldStep
  <1> QED BY <1>6, <1>7

\* A page stores a feed token, unless another one has.
LEMMA InsertFeedStep ==
  ASSUME AccountsInv, NEW r \in Request, InsertFeed(r)
  PROVE  AccountsInv'
  <1> DEFINE n == call[r].name
             x == [call[r] EXCEPT !.pc = "take", !.feed = r]
  <1>1. /\ call[r].pc = "newFeed"
        /\ UNCHANGED <<mode, account, session, token, flow, last, cookie, faults, histories>>
    BY DEF InsertFeed, At
  <1>2. /\ Fit(call[r]) /\ call[r] \in Call /\ last.flow \in Nat /\ call[r].made = 0
        /\ call[r].op = "page" /\ n \in Name
    BY <1>1, Local DEF Typed, Making, OpsAt, Call
  <1>3. CASE feed[n] # NoFeed
    <2>1. Goes(r, "feed") /\ UNCHANGED feed
      BY <1>3 DEF InsertFeed
    <2>2. call[r].op \in OpsAt["feed"] /\ "feed" \notin SigningIn
      BY <1>2 DEF OpsAt, SigningIn
    <2>3. Tableless
      BY <1>1, <2>1, OpensTableless DEF Opens
    <2> QED BY <1>2, <2>1, <2>2, <2>3, GoesStep
  <1>4. CASE feed[n] = NoFeed
    <2>1. feed' = [feed EXCEPT ![n] = r] /\ Becomes(r, x)
      BY <1>4 DEF InsertFeed
    <2>2. /\ feed' \in [Name -> Request \cup {NoFeed}] /\ feed'[n] = r /\ r # NoFeed
          /\ \A m \in Name : feed[m] # NoFeed => feed'[m] = feed[m]
      BY <1>2, <1>4, <2>1, AccountsAssumption DEF AccountsInv, Tables
    <2>3. /\ x \in Call /\ x.pc = "take" /\ x.op = "page" /\ x.key = call[r].key
          /\ x.name = n /\ x.made = 0 /\ x.flow = call[r].flow /\ x.feed = r
      BY <1>2 DEF Call, OpsAt
    <2> HIDE DEF x, n
    <2>4. Typed(x) /\ Registered(x, DOMAIN account', last'.hash)
      BY <2>3 DEF Typed, Making, OpsAt, Registered, Known
    <2>5. Owns(x, session', handed', faults')
      BY <1>1, <1>2, <2>3 DEF Owns, Fit, histories
    <2>6. Reveals(x, session', shown', last'.token) /\ Feeds(x, feed')
      BY <2>2, <2>3 DEF Reveals, Feeds
    <2>7. Signs(x, flow', signed', last'.flow) /\ x.flow \in 0..last'.flow
      BY <1>1, <1>2, <2>3 DEF Signs, Fit, SigningIn
    <2>8. Fits(x) /\ Follows(x, call[r])
      BY <2>3, <2>4, <2>5, <2>6, <2>7 DEF Fits, Follows, SigningIn
    <2>9. ASSUME NEW q \in Request \ {r}
          PROVE  Fits(call[q])
      <3>1. Fit(call[q]) /\ call[q].name \in Name
        BY Local DEF Call
      <3>2. Feeds(call[q], feed')
        BY <2>2, <3>1 DEF Fit, Feeds
      <3> QED BY <1>1, <3>1, <3>2 DEF Fit, Fits, histories
    <2>10. /\ CallsFit' /\ Apart' /\ DOMAIN call' = Request /\ call'[r] = x
           /\ \A q \in Request \ {r} : call'[q] = call[q]
      BY <2>1, <2>8, <2>9, CallFollows
    <2>11. Tables'
      BY <1>1, <2>2, <2>10 DEF AccountsInv, Tables, histories
    <2>12. Ended' /\ Unshown' /\ Flows'
      BY <1>1 DEF AccountsInv, Ended, Unshown, Flows, histories
    <2>13. FeedTokenAgrees'
      <3>1. ASSUME NEW s \in feedShown
            PROVE  feed'[s[1]] = s[2]
        <4>1. s[1] \in Name /\ s[2] \in Request /\ feed[s[1]] = s[2]
          BY <3>1 DEF AccountsInv, Tables, FeedTokenAgrees
        <4> QED BY <2>2, <4>1, AccountsAssumption
      <3> QED BY <1>1, <3>1 DEF FeedTokenAgrees, histories
    <2>14. \A q \in Request : call'[q].made = call[q].made
      BY <1>2, <2>3, <2>10
    <2>15. FailedLoginLeavesNoSession'
      BY <1>1, <2>14 DEF AccountsInv, FailedLoginLeavesNoSession, histories
    <2> QED BY <2>10, <2>11, <2>12, <2>13, <2>15 DEF AccountsInv
  <1> QED BY <1>3, <1>4

-----------------------------------------------------------------------------
(***************************************************************************)
(* Logins with the provider.                                                *)
(***************************************************************************)
\* A login with the provider is begun.
LEMMA BeginFlowStep ==
  ASSUME AccountsInv, BeginFlow
  PROVE  AccountsInv'
  <1> DEFINE f == last.flow + 1
  <1>1. /\ last \in [hash : Nat, key : Nat, token : 0..MaxTokens, flow : 0..MaxFlows]
        /\ last' = [last EXCEPT !.flow = @ + 1] /\ last.flow < MaxFlows /\ MaxFlows \in Nat
    BY Hashes, AccountsAssumption DEF BeginFlow
  <1>2. /\ last'.flow = f /\ last'.hash = last.hash /\ last'.key = last.key /\ last'.token = last.token
        /\ last' \in [hash : Nat, key : Nat, token : 0..MaxTokens, flow : 0..MaxFlows]
        /\ f \in 1..MaxFlows /\ last.flow \in Nat /\ f > last.flow
    BY <1>1
  <1>3. /\ flow' = flow \cup {f}
        /\ UNCHANGED <<mode, account, session, token, feed, cookie, call, faults, histories>>
    BY <1>2 DEF BeginFlow
  <1>4. f \notin 1..last.flow /\ 1..last.flow \subseteq 1..f /\ 0..last.flow \subseteq 0..f
    BY <1>2
  <1>5. \A g \in 1..MaxFlows : g > f => g > last.flow
    BY <1>2
  <1>6. f \in 1..f
    BY <1>2, <1>1
  <1> HIDE DEF f
  <1>7. ASSUME NEW q \in Request
        PROVE  Fits(call[q])
    <2>1. Fit(call[q])
      BY Local
    <2>2. Signs(call[q], flow', signed', last'.flow) /\ call[q].flow \in 0..last'.flow
      BY <1>2, <1>3, <1>4, <2>1 DEF Fit, Signs, histories
    <2> QED BY <1>2, <1>3, <2>1, <2>2 DEF Fit, Fits, histories
  <1>8. CallsFit' /\ Apart' /\ DOMAIN call' = Request
    BY <1>3, <1>7, CallStays
  <1>9. Tables'
    <2>1. flow' \subseteq 1..last'.flow
      BY <1>2, <1>3, <1>4, <1>6 DEF AccountsInv, Tables
    <2> QED BY <1>2, <1>3, <1>8, <2>1 DEF AccountsInv, Tables, histories
  <1>10. Ended' /\ Unshown' /\ FeedTokenAgrees' /\ FailedLoginLeavesNoSession'
    BY <1>2, <1>3 DEF AccountsInv, Ended, Unshown, FeedTokenAgrees, FailedLoginLeavesNoSession, histories
  <1>11. Flows'
    <2>1. ASSUME NEW g \in 1..MaxFlows
          PROVE  signed[g] <= 1 /\ (g \in flow' \/ g > f => signed[g] = 0)
      BY <1>2, <1>3, <1>5 DEF AccountsInv, Flows
    <2> QED BY <1>2, <1>3, <2>1 DEF Flows, histories
  <1> QED BY <1>8, <1>9, <1>10, <1>11 DEF AccountsInv

\* A callback takes the row of its login.
LEMMA ConsumeStep ==
  ASSUME AccountsInv, NEW r \in Request, NEW b \in Browser, NEW f \in 1..MaxFlows, Consume(r, b, f)
  PROVE  AccountsInv'
  <1> DEFINE y == Begun(b, "oidc", "exchange", NoName)
             x == [y EXCEPT !.flow = f]
  <1>1. /\ f \in flow /\ flow' = flow \ {f} /\ At(r, "idle") /\ Becomes(r, x)
        /\ UNCHANGED <<mode, account, session, token, feed, last, cookie, faults, histories>>
    BY DEF Consume, Starts
  <1>2. "exchange" \in Starting /\ "oidc" \in OpsAt["exchange"] /\ NoName \in Name
    BY AccountsAssumption DEF Starting, OpsAt, NoName
  <1>3. /\ y \in Call /\ y.pc = "exchange" /\ y.op = "oidc" /\ y.key \in {0} \cup handed /\ y.made = 0
    BY <1>2, BegunLocals
  <1>4. call[r].made = 0
    BY <1>1, Local, IdleFits DEF At, Typed
  <1>5. f \in 1..last.flow /\ f \in 0..last.flow /\ f \in Nat /\ signed[f] = 0
    BY <1>1, Local DEF AccountsInv, Tables, Flows
  <1> HIDE DEF y
  <1>6. /\ x \in Call /\ x.pc = "exchange" /\ x.op = "oidc" /\ x.key \in {0} \cup handed /\ x.made = 0
        /\ x.flow = f
    BY <1>3, <1>5 DEF Call
  <1> HIDE DEF x
  <1>7. Typed(x) /\ Registered(x, DOMAIN account', last'.hash)
    BY <1>2, <1>6 DEF Typed, Making, Registered, Known
  <1>8. Owns(x, session', handed', faults')
    BY <1>1, <1>6 DEF Owns, histories
  <1>9. Reveals(x, session', shown', last'.token) /\ Feeds(x, feed')
    BY <1>6 DEF Reveals, Feeds
  <1>10. Signs(x, flow', signed', last'.flow) /\ x.flow \in 0..last'.flow
    BY <1>1, <1>5, <1>6 DEF Signs, histories
  <1>11. Fits(x)
    BY <1>7, <1>8, <1>9, <1>10 DEF Fits
  <1>12. ASSUME NEW q \in Request \ {r}
         PROVE  Fits(call[q]) /\ Differ(x, call[q]) /\ Differ(call[q], x)
    <2>1. Fit(call[q])
      BY Local
    <2>2. Signs(call[q], flow', signed', last'.flow)
      BY <1>1, <2>1 DEF Fit, Signs, histories
    <2>3. Fits(call[q])
      BY <1>1, <2>1, <2>2 DEF Fit, Fits, histories
    <2>4. call[q].pc \in SigningIn /\ call[q].flow # 0 => call[q].flow # f
      BY <1>1, <2>1 DEF Fit, Signs
    <2>5. call[q].flow = 0 => call[q].flow # f
      BY <1>5
    <2> QED BY <1>6, <2>3, <2>4, <2>5 DEF Differ
  <1>13. /\ CallsFit' /\ Apart' /\ DOMAIN call' = Request /\ call'[r] = x
         /\ \A q \in Request \ {r} : call'[q] = call[q]
    BY <1>1, <1>11, <1>12, CallMoves
  <1>14. Tables'
    BY <1>1, <1>13 DEF AccountsInv, Tables, histories
  <1>15. Ended' /\ Unshown' /\ FeedTokenAgrees' /\ Flows'
    BY <1>1 DEF AccountsInv, Ended, Unshown, FeedTokenAgrees, Flows, histories
  <1>16. \A q \in Request : call'[q].made = call[q].made
    BY <1>4, <1>6, <1>13
  <1>17. FailedLoginLeavesNoSession'
    BY <1>1, <1>16 DEF AccountsInv, FailedLoginLeavesNoSession, histories
  <1> QED BY <1>13, <1>14, <1>15, <1>17 DEF AccountsInv

-----------------------------------------------------------------------------
(***************************************************************************)
(* The specification.                                                       *)
(***************************************************************************)
\* The first state: one account, no session, every request idle.
LEMMA AccountsInit == Init => AccountsInv
  <1> SUFFICES ASSUME Init
               PROVE  AccountsInv
    OBVIOUS
  <1>1. /\ last = [hash |-> 1, key |-> 0, token |-> 0, flow |-> 0]
        /\ flow = {} /\ faults = 0 /\ stale = {} /\ feedShown = {} /\ handed = {}
        /\ shown = [t \in 1..MaxTokens |-> 0] /\ signed = [f \in 0..MaxFlows |-> 0]
        /\ feed = [n \in Name |-> NoFeed] /\ cookie = [b \in Browser |-> 0] /\ mode \in Modes
        /\ call = [r \in Request |-> Idle]
        /\ account \in [{NoName} -> [hash : {1}, active : {TRUE}, email : BOOLEAN]]
    BY DEF Init
  <1>0. DOMAIN session = {} /\ DOMAIN token = {}
    <2>1. session = <<>> /\ token = <<>>
      BY DEF Init
    <2> QED BY <2>1
  <1>2. NoName \in Name
    BY AccountsAssumption DEF NoName
  <1>3. last \in [hash : Nat, key : Nat, token : 0..MaxTokens, flow : 0..MaxFlows]
    BY <1>1, AccountsAssumption
  <1>4. \A n \in DOMAIN account : account[n] \in [hash : 0..last.hash, active : BOOLEAN, email : BOOLEAN]
    <2>1. last.hash = 1 /\ DOMAIN account = {NoName}
      BY <1>1
    <2>2. account[NoName] \in [hash : {1}, active : {TRUE}, email : BOOLEAN]
      BY <1>1
    <2>3. 1 \in 0..last.hash
      BY <2>1
    <2> QED BY <2>1, <2>2, <2>3
  <1>5. DOMAIN account \subseteq Name
    BY <1>1, <1>2
  <1>6. shown \in [1..MaxTokens -> 0..1] /\ signed \in [0..MaxFlows -> Nat]
    BY <1>1
  <1>7. Tables
    BY <1>0, <1>1, <1>3, <1>4, <1>5, <1>6, AccountsAssumption DEF Tables
  <1>8. Ended /\ FeedTokenAgrees /\ FailedLoginLeavesNoSession
    BY <1>0, <1>1 DEF Ended, FeedTokenAgrees, FailedLoginLeavesNoSession
  <1>9. Unshown /\ Flows
    BY <1>0, <1>1, AccountsAssumption DEF Unshown, Flows
  <1>10. CallsFit /\ Apart
    <2>1. \A r \in Request : call[r] = Idle
      BY <1>1
    <2>2. \A r \in Request : Fit(call[r])
      BY <1>3, <2>1, IdleFits DEF Fit
    <2>3. \A q, r \in Request : Differ(call[q], call[r])
      BY <2>1, IdleFits DEF Differ, SigningIn
    <2> QED BY <2>2, <2>3 DEF CallsFit, Apart
  <1> QED BY <1>7, <1>8, <1>9, <1>10 DEF AccountsInv

\* Every step keeps the invariant.
LEMMA AccountsNext == AccountsInv /\ [Next]_vars => AccountsInv'
  <1> SUFFICES ASSUME AccountsInv, [Next]_vars
               PROVE  AccountsInv'
    OBVIOUS
  <1>1. CASE UNCHANGED vars
    <2>1. CallsFit' /\ Apart'
      BY <1>1 DEF AccountsInv, CallsFit, Fit, Apart, vars, histories
    <2> QED BY <1>1, <2>1 DEF AccountsInv, Tables, Ended, Unshown, FeedTokenAgrees, Flows,
               FailedLoginLeavesNoSession, vars, histories
  <1>2. ASSUME NEW r \in Request, NEW b \in Browser,
               \/ StartPassword(r, b) \/ StartToken(r, b) \/ OpenPage(r, b)
               \/ \E n \in Name : \/ StartLogin(r, b, n) \/ StartAdminLogin(r, b, n)
                                \/ AdminPassword(r, b, n) \/ StartProxied(r, b, n)
               \/ \E f \in 1..MaxFlows : Consume(r, b, f)
        PROVE  AccountsInv'
    BY <1>2, StartPasswordStep, StartTokenStep, OpenPageStep, StartLoginStep, AdminPasswordStep,
       StartProxiedStep, ConsumeStep
  <1>3. ASSUME NEW r \in Request,
               \/ ReadHash(r) \/ InsertSession(r) \/ RecordLogin(r) \/ Undo(r) \/ Respond(r)
               \/ ReadOwnSession(r) \/ WritePassword(r) \/ ReadForReveal(r) \/ StoreReveal(r)
               \/ ReadFeed(r) \/ InsertFeed(r) \/ ReadReveal(r) \/ TakeReveal(r)
               \/ Exchange(r) \/ FindByEmail(r) \/ FindByName(r) \/ CreateAccount(r)
        PROVE  AccountsInv'
    BY <1>3, ReadHashStep, InsertSessionStep, RecordLoginStep, UndoStep, RespondStep, ReadSessionStep,
       WritePasswordStep, StoreRevealStep, ReadFeedStep, InsertFeedStep, TakeRevealStep, ExchangeStep,
       FindByEmailStep, FindByNameStep, CreateAccountStep
  <1>4. ASSUME NEW b \in Browser, Logout(b) \/ \E t \in 1..MaxTokens : DeleteToken(b, t)
        PROVE  AccountsInv'
    BY <1>4, LogoutStep, DeleteTokenStep
  <1>5. ASSUME NEW n \in Name, SetActive(n) \/ \E email \in BOOLEAN : AddAccount(n, email)
        PROVE  AccountsInv'
    BY <1>5, SetActiveStep, AddAccountStep
  <1>6. CASE BeginFlow
    BY <1>6, BeginFlowStep
  <1> QED BY <1>1, <1>2, <1>3, <1>4, <1>5, <1>6 DEF Next

\* The tables, what was shown, and what each request knows, always.
LEMMA Invariant == Spec => []AccountsInv
  <1> QED BY AccountsInit, AccountsNext, PTL DEF Spec

\* Accounts, sessions, tokens and cookies keep their types, and a session
\* belongs to an account.
THEOREM TypesHold == Spec => []TypeOK
  <1>1. ASSUME AccountsInv
        PROVE  TypeOK
    <2>1. /\ DOMAIN account \subseteq Name
          /\ \A n \in DOMAIN account : account[n].hash \in 0..last.hash /\ account[n].active \in BOOLEAN
      BY <1>1 DEF AccountsInv, Tables
    <2>2. /\ DOMAIN session \subseteq 1..last.key
          /\ \A k \in DOMAIN session : /\ session[k].name \in DOMAIN account
                                       /\ session[k].hash \in 0..last.hash
                                       /\ session[k].reveal \in 0..last.token
      BY <1>1 DEF AccountsInv, Tables
    <2>3. cookie \in [Browser -> 0..last.key]
      <3>1. cookie \in [Browser -> {0} \cup handed] /\ handed \subseteq 1..last.key /\ last.key \in Nat
        BY <1>1 DEF AccountsInv, Tables
      <3>2. {0} \cup handed \subseteq 0..last.key
        BY <3>1
      <3> QED BY <3>1, <3>2
    <2>4. DOMAIN token \subseteq 1..last.token /\ feed \in [Name -> Request \cup {NoFeed}] /\ flow \subseteq 1..last.flow
      BY <1>1 DEF AccountsInv, Tables
    <2> QED BY <2>1, <2>2, <2>3, <2>4 DEF TypeOK
  <1> QED BY <1>1, Invariant, PTL

\* A session that a change of its user's password ended never authenticates
\* again, however changes of passwords, logins and token pages overlap: what
\* ChangePassword read of the session and the password still holds when it
\* writes, and no login brings an ended key back.
THEOREM EndedStayEnded == Spec => []ChangeEndsSessions
  <1>1. AccountsInv => ChangeEndsSessions
    BY DEF AccountsInv, Ended, ChangeEndsSessions, Live
  <1> QED BY <1>1, Invariant, PTL

\* An API token is shown once at most, and every page shows the feed token
\* that is stored, however many pages SetAPITokenReveal, TakeAPITokenReveal
\* and EnsureFeedToken serve at once.
THEOREM TokensShownRight == Spec => []TokensShown
  <1>1. AccountsInv => TokensShown
    BY DEF AccountsInv, Tables, TokensShown, ShownOnce
  <1> QED BY <1>1, Invariant, PTL

\* A login that was begun with the provider makes one session at most, and a
\* login whose record failed leaves none.
THEOREM OneSessionEach == Spec => []OneSessionPerLogin
  <1>1. AccountsInv => OneSessionPerLogin
    BY DEF AccountsInv, Flows, OneSessionPerLogin, FlowSignsInOnce
  <1> QED BY <1>1, Invariant, PTL

\* A step of one request moves no other.
LEMMA OthersStay ==
  ASSUME AccountsInv, NEW q \in Request, NEW r \in Request \ {q}, NEW x, Becomes(q, x)
  PROVE  call'[r] = call[r]
  BY DEF AccountsInv, Tables, Becomes

\* A request that starts had no operation, and no other request moves.
LEMMA StartMovesOne ==
  ASSUME AccountsInv, NEW q \in Request, NEW b \in Browser, NEW r \in Request,
         call[r].op = "proxy",
         \/ StartPassword(q, b) \/ StartToken(q, b) \/ OpenPage(q, b)
         \/ \E n \in Name : \/ StartLogin(q, b, n) \/ StartAdminLogin(q, b, n)
                          \/ AdminPassword(q, b, n) \/ StartProxied(q, b, n)
         \/ \E f \in 1..MaxFlows : Consume(q, b, f)
  PROVE  call'[r] = call[r]
  <1>1. UNCHANGED call \/ \E x : Starts(q, x)
    BY DEF StartPassword, StartToken, OpenPage, StartLogin, StartAdminLogin, AdminPassword,
       StartProxied, Consume, StartsSignedIn
  <1>2. CASE UNCHANGED call
    BY <1>2
  <1>3. ASSUME NEW x, Starts(q, x)
        PROVE  call'[r] = call[r]
    <2>1. call[q].op = "none"
      BY <1>3, Local, IdleFits DEF Starts, At, Typed
    <2> QED BY <1>3, <2>1, OthersStay DEF Starts
  <1> QED BY <1>1, <1>2, <1>3

\* The last step of a proxied request: the response, or its user is inactive.
LEMMA ProxiedEnds ==
  ASSUME AccountsInv, [Next]_vars, NEW r \in Request, call[r].op = "proxy", call'[r].op = "none"
  PROVE  Respond(r) \/ (call[r].name \in DOMAIN account /\ ~account[call[r].name].active)
  <1>1. call'[r] # call[r]
    OBVIOUS
  <1>2. PICK q \in Request :
          \/ ReadHash(q) \/ InsertSession(q) \/ RecordLogin(q) \/ Undo(q) \/ Respond(q)
          \/ ReadOwnSession(q) \/ WritePassword(q) \/ ReadForReveal(q) \/ StoreReveal(q)
          \/ ReadFeed(q) \/ InsertFeed(q) \/ ReadReveal(q) \/ TakeReveal(q)
          \/ Exchange(q) \/ FindByEmail(q) \/ FindByName(q) \/ CreateAccount(q)
    <2>1. ~ UNCHANGED call
      BY <1>1
    <2>2. ASSUME NEW b \in Browser, Logout(b) \/ \E t \in 1..MaxTokens : DeleteToken(b, t)
          PROVE  FALSE
      BY <2>1, <2>2 DEF Logout, DeleteToken
    <2>3. ASSUME NEW n \in Name, SetActive(n) \/ \E email \in BOOLEAN : AddAccount(n, email)
          PROVE  FALSE
      BY <2>1, <2>3 DEF SetActive, AddAccount
    <2>4. ~ BeginFlow /\ ~ UNCHANGED vars
      BY <2>1 DEF BeginFlow, vars
    <2> QED BY <1>1, <2>2, <2>3, <2>4, StartMovesOne DEF Next
  <1>3. \E x : Becomes(q, x)
    BY <1>2 DEF ReadHash, InsertSession, RecordLogin, Undo, Respond, ReadOwnSession, WritePassword,
       ReadForReveal, StoreReveal, ReadFeed, InsertFeed, ReadReveal, TakeReveal, Exchange,
       FindByEmail, FindByName, CreateAccount, Done, Goes
  <1>4. q = r
    BY <1>1, <1>3, OthersStay
  <1>5. call[r].pc \in {"lookup", "create", "hash", "insert", "respond"}
    <2>1. call[r].pc \in DOMAIN OpsAt /\ "proxy" \in OpsAt[call[r].pc]
      BY Local DEF Typed, Call
    <2>2. \A pc \in DOMAIN OpsAt : "proxy" \in OpsAt[pc]
            => pc \in {"lookup", "create", "hash", "insert", "respond"}
      BY DEF OpsAt
    <2> QED BY <2>1, <2>2
  <1>6. \/ ReadHash(r) \/ InsertSession(r) \/ Respond(r) \/ FindByName(r) \/ CreateAccount(r)
    BY <1>2, <1>4, <1>5 DEF RecordLogin, Undo, ReadOwnSession, WritePassword, ReadForReveal,
       StoreReveal, ReadFeed, InsertFeed, ReadReveal, TakeReveal, Exchange, FindByEmail, At
  <1>7. ASSUME NEW pc, Goes(r, pc)
        PROVE  FALSE
    <2>1. call'[r] = [call[r] EXCEPT !.pc = pc]
      BY <1>7, Local DEF Goes, Becomes
    <2> QED BY <2>1, Local DEF Call
  <1>8. CASE ReadHash(r)
    <2>1. ASSUME NEW pc, NEW h, Becomes(r, [call[r] EXCEPT !.pc = pc, !.hash = h])
          PROVE  FALSE
      <3>1. call'[r] = [call[r] EXCEPT !.pc = pc, !.hash = h]
        BY <2>1, Local DEF Becomes
      <3> QED BY <3>1, Local DEF Call
    <2>2. ~Active(call[r].name)
      BY <1>8, <2>1 DEF ReadHash
    <2>3. call[r].name \in DOMAIN account
      BY <1>8, Local DEF ReadHash, At, Fit, Registered, Known
    <2> QED BY <2>2, <2>3 DEF Active
  <1>9. CASE InsertSession(r)
    <2>1. PICK pc, m : Becomes(r, [call[r] EXCEPT !.pc = pc, !.made = m])
      BY <1>9 DEF InsertSession
    <2>2. call'[r] = [call[r] EXCEPT !.pc = pc, !.made = m]
      BY <2>1, Local DEF Becomes
    <2> QED BY <2>2, Local DEF Call
  <1>10. CASE FindByName(r)
    BY <1>7, <1>10 DEF FindByName
  <1>11. CASE CreateAccount(r)
    BY <1>7, <1>11 DEF CreateAccount
  <1> QED BY <1>6, <1>8, <1>9, <1>10, <1>11

\* A request that a proxy names a user for ends with the browser signed in as
\* that user, or the user is inactive: GetOrCreateRemoteUser looks again when
\* another request made the account, and nothing that other requests do takes
\* the session before the response carries it.
THEOREM ProxiedSignIn == Spec => ProxySignsIn
  <1>1. ASSUME AccountsInv, [Next]_vars
        PROVE  ProxyStep
    <2>1. ASSUME NEW r \in Request, call[r].op = "proxy", call'[r].op = "none",
                 ~(call[r].name \in DOMAIN account /\ ~account[call[r].name].active)
          PROVE  LET n == call[r].name b == call[r].browser IN
                 cookie'[b] \in DOMAIN session' /\ session'[cookie'[b]].name = n
      <3>1. Respond(r)
        BY <1>1, <2>1, ProxiedEnds
      <3>2. /\ call[r].made \in DOMAIN session /\ session[call[r].made].name = call[r].name
            /\ call[r].browser \in Browser
        BY <1>1, <3>1, Local DEF Respond, At, Fit, Owns, Typed, Making, Call
      <3>3. session' = session /\ cookie' = [cookie EXCEPT ![call[r].browser] = call[r].made]
        BY <2>1, <3>1 DEF Respond
      <3>4. cookie'[call[r].browser] = call[r].made
        BY <1>1, <3>2, <3>3 DEF AccountsInv, Tables
      <3> QED BY <3>2, <3>3, <3>4
    <2> QED BY <2>1 DEF ProxyStep
  <1>2. AccountsInv /\ [Next]_vars => [ProxyStep]_vars
    BY <1>1
  <1> QED BY <1>2, Invariant, PTL DEF Spec, ProxySignsIn

=============================================================================
