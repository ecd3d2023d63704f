---------------------------- MODULE ClientSession ----------------------------
(***************************************************************************)
(* One browser tab, the session it holds and the private data it caches    *)
(* (features/auth/public.tsx, app/query.ts, shared/api/client.ts), with    *)
(* the server's part (modules/identity/service.py).                        *)
(*                                                                         *)
(* Requests of four kinds are under way beside each other: the load of the *)
(* session (GET /me, then GET /auth/csrf), a login or logout (GET          *)
(* /auth/csrf, then the POST), a private query, and a write.  A request is *)
(* served when it is sent, a write at any later moment; replies take their *)
(* time.  Every GET /auth/csrf changes the token of the session.           *)
(* Bound: one request of a kind at a time, one login or logout.            *)
(*                                                                         *)
(* cache is the set of users whose data the query cache holds.             *)
(***************************************************************************)
EXTENDS Naturals

CONSTANTS
    Users,
    NoUser,       \* nobody is signed in: not in Users
    MaxSessions,  \* bound on the session rows
    MaxTokens,    \* bound on the tokens the server gives out
    Happens       \* bound on what happens besides: "lost" replies, "late" ones
                  \* to abandoned requests, "write", "leave" of the page during a
                  \* login or logout, "rotate" of the token by another tab, a login
                  \* or logout "elsewhere" in another tab, "revoke" of the session

VARIABLES
    session,   \* session[s]: the session rows: user, live, token
    issued,    \* how many of them exist
    tokens,    \* how many tokens the server has given out
    cookie,    \* the session the browser's cookie names, 0 without
    tab,       \* user: data of the session query; token; place
    cache,     \* whose private data is cached
    load,      \* the load of the session
    auth,      \* the login or logout under way
    read,      \* the private query under way
    write      \* the write under way

serverVars == <<session, issued, tokens>>
tabVars == <<tab, cache>>
vars == <<serverVars, cookie, tabVars, load, auth, read, write>>

Sessions == 1..MaxSessions
Anybody == Users \cup {NoUser}
Tokens == 0..MaxTokens

Row == [user: Anybody, live: BOOLEAN, token: Tokens]

\* What a request came back with; cookie is the one it sets, 0 if none.
Reply == [status: {0, 200, 401, 403}, user: Anybody, token: Tokens, cookie: 0..MaxSessions]
NoReply == [status |-> 0, user |-> NoUser, token |-> 0, cookie |-> 0]

\* Where a flow stands, whom it is about, and the reply on its way.
Flow == [stage: {"idle", "me", "csrf", "post", "abandoned", "sent", "served"},
         kind: {"none", "load", "login", "logout", "read", "write"},
         user: Anybody, token: Tokens, cookie: 0..MaxSessions, reply: Reply]
Idle == [stage |-> "idle", kind |-> "none", user |-> NoUser, token |-> 0, cookie |-> 0,
         reply |-> NoReply]

Init ==
    /\ session = [s \in Sessions |-> [user |-> NoUser, live |-> FALSE, token |-> 0]]
    /\ issued = 0
    /\ tokens = 0
    /\ cookie = 0
    /\ tab = [user |-> NoUser, token |-> 0, place |-> "gate"]
    /\ cache = {}
    /\ load = Idle /\ auth = Idle /\ read = Idle /\ write = Idle

-----------------------------------------------------------------------------
(* The server: what it does with a request, and its reply.                  *)

Live(s) == s # 0 /\ session[s].live

\* deps.authenticated: whom a cookie signs in.
SignedIn(s) == IF Live(s) THEN session[s].user ELSE NoUser

\* The session of a GET /auth/csrf: that of the cookie, or a new one.
CsrfTarget == IF Live(cookie) THEN cookie ELSE issued + 1

\* csrf_grant gives the session of the cookie a new token, or issues an
\* anonymous session.
ServeCsrf ==
    /\ tokens < MaxTokens
    /\ CsrfTarget <= MaxSessions
    /\ tokens' = tokens + 1
    /\ issued' = IF Live(cookie) THEN issued ELSE issued + 1
    /\ session' = [session EXCEPT ![CsrfTarget] =
           [user |-> SignedIn(cookie), live |-> TRUE, token |-> tokens + 1]]

\* Only a session that is issued sets the cookie.
CsrfReply ==
    [NoReply EXCEPT !.status = 200, !.token = tokens + 1,
                    !.cookie = IF Live(cookie) THEN 0 ELSE CsrfTarget]

\* The cookie the browser has once a reply with a token has come.
CookieOf(reply) == IF reply.cookie = 0 THEN cookie ELSE reply.cookie

\* check_write and verify_csrf
Verdict(s, token) ==
    CASE ~Live(s) -> 401
      [] Live(s) /\ session[s].token # token -> 403
      [] OTHER -> 200

\* login: the old session is revoked and a new one issued; a wrong password
\* looks like a lost reply.
ServeLogin(user, token) ==
    IF Verdict(cookie, token) = 200
    THEN /\ tokens < MaxTokens /\ issued < MaxSessions
         /\ tokens' = tokens + 1
         /\ issued' = issued + 1
         /\ session' = [session EXCEPT
                ![cookie].live = FALSE,
                ![issued + 1] = [user |-> user, live |-> TRUE, token |-> tokens + 1]]
    ELSE UNCHANGED serverVars

LoginReply(user, token) ==
    IF Verdict(cookie, token) = 200
    THEN [status |-> 200, user |-> user, token |-> tokens + 1, cookie |-> issued + 1]
    ELSE [NoReply EXCEPT !.status = Verdict(cookie, token)]

\* A command of a user, logout among them, needs a session of somebody.
CommandVerdict(s, token) ==
    IF SignedIn(s) = NoUser THEN 401 ELSE Verdict(s, token)

\* logout revokes the session.
ServeLogout(token) ==
    IF CommandVerdict(cookie, token) = 200
    THEN session' = [session EXCEPT ![cookie].live = FALSE] /\ UNCHANGED <<issued, tokens>>
    ELSE UNCHANGED serverVars

LogoutReply(token) == [NoReply EXCEPT !.status = CommandVerdict(cookie, token)]

-----------------------------------------------------------------------------
(* What the tab does with its flows and its cache.                          *)

\* Leaving the gate ends the load and the query of its pages; the GET of a
\* token takes no signal and goes on (prepareCsrf).
Abandoned(flow) == IF flow.stage = "csrf" THEN [flow EXCEPT !.stage = "abandoned"] ELSE
                   IF flow.stage = "abandoned" THEN flow ELSE Idle

\* Mutant: the queries under way are not cancelled.
CancelQueries_Kept == load' = Abandoned(load) /\ UNCHANGED read

CancelQueries == load' = Abandoned(load) /\ read' = Idle

\* client.clear()
Cleared == {}

\* A 401: with a known user, token, private data and session data go, and
\* SessionGate turns to the login page.  user is NoUser, or whom the session query
\* has again when its fetch under way is cancelled with the gate.
Expired(user) ==
    IF tab.user # NoUser
    THEN /\ tab' = [user |-> user, token |-> 0, place |-> "login"]
         /\ cache' = {}
    ELSE tab' = [tab EXCEPT !.place = "login"] /\ UNCHANGED cache

\* Expired by a query or a write of the gate.
ExpiredBeside ==
    /\ Expired(IF load.stage \in {"me", "csrf"} THEN tab.user ELSE NoUser)
    /\ CancelQueries

MayLeave == auth = Idle \/ "leave" \in Happens

\* The user follows a link to the login page, or back to a page behind the gate.
GoLogin ==
    /\ tab.place = "gate"
    /\ MayLeave
    /\ tab' = [tab EXCEPT !.place = "login"]
    /\ CancelQueries
    /\ UNCHANGED <<serverVars, cookie, cache, auth, write>>

GoBack ==
    /\ tab.place = "login"
    /\ MayLeave
    /\ tab' = [tab EXCEPT !.place = "gate"]
    /\ UNCHANGED <<serverVars, cookie, cache, load, auth, read, write>>

-----------------------------------------------------------------------------
(* loadSession, on mounting the gate and whenever the window gets the focus. *)

LoadMe ==
    /\ tab.place = "gate"
    /\ load = Idle
    /\ load' = [Idle EXCEPT !.stage = "me", !.kind = "load", !.user = SignedIn(cookie)]
    /\ UNCHANGED <<serverVars, cookie, tabVars, auth, read, write>>

\* GET /me is answered: 401 expires the tab, a user goes on to the token.
LoadCsrf ==
    /\ load.stage = "me" /\ load.user # NoUser
    /\ ServeCsrf
    /\ load' = [load EXCEPT !.stage = "csrf", !.reply = CsrfReply]
    /\ UNCHANGED <<cookie, tabVars, auth, read, write>>

LoadRefused ==
    /\ load.stage = "me" /\ load.user = NoUser
    /\ Expired(NoUser)
    /\ load' = Idle /\ read' = Idle
    /\ UNCHANGED <<serverVars, cookie, auth, write>>

\* The token and, unless the load was abandoned, the user.
LoadDone ==
    /\ load.stage \in {"csrf", "abandoned"}
    /\ cookie' = CookieOf(load.reply)
    /\ tab' = [tab EXCEPT !.token = load.reply.token,
                          !.user = IF load.stage = "csrf" THEN load.user ELSE @]
    /\ load' = Idle
    /\ UNCHANGED <<serverVars, cache, auth, read, write>>

\* A reply of the load is lost: what was known stays.
LoadLost ==
    /\ "lost" \in Happens
    /\ load # Idle
    /\ load' = Idle
    /\ UNCHANGED <<serverVars, cookie, tabVars, auth, read, write>>

-----------------------------------------------------------------------------
(* LoginPage.submit and SessionControls.logout.                             *)

\* Without "late" replies, what was abandoned has been answered before.
Settled == load.stage = "abandoned" => "late" \in Happens

AuthCsrf(kind, user) ==
    /\ auth = Idle /\ Settled
    /\ \/ kind = "login" /\ tab.place = "login"
       \/ kind = "logout" /\ tab.place = "gate" /\ tab.user # NoUser
    /\ ServeCsrf
    /\ auth' = [Idle EXCEPT !.stage = "csrf", !.kind = kind, !.user = user, !.reply = CsrfReply]
    /\ UNCHANGED <<cookie, tabVars, load, read, write>>

\* The token has come: the browser keeps the cookie ...
AuthToken ==
    /\ auth.stage = "csrf"
    /\ cookie' = CookieOf(auth.reply)
    /\ tab' = [tab EXCEPT !.token = auth.reply.token]
    /\ auth' = [auth EXCEPT !.stage = "sent", !.token = auth.reply.token, !.reply = NoReply]
    /\ UNCHANGED <<serverVars, cache, load, read, write>>

\* ... and the POST is served.
AuthPost ==
    /\ auth.stage = "sent"
    /\ \/ /\ auth.kind = "login"
          /\ ServeLogin(auth.user, auth.token)
          /\ auth' = [auth EXCEPT !.stage = "post", !.reply = LoginReply(auth.user, auth.token)]
       \/ /\ auth.kind = "logout"
          /\ ServeLogout(auth.token)
          /\ auth' = [auth EXCEPT !.stage = "post", !.reply = LogoutReply(auth.token)]
    /\ UNCHANGED <<cookie, tabVars, load, read, write>>

\* Mutant: the token of the new session is not kept.
LoginDone_OldToken ==
    /\ auth.stage = "post" /\ auth.kind = "login" /\ auth.reply.status = 200
    /\ cookie' = auth.reply.cookie
    /\ tab' = [user |-> auth.reply.user, token |-> tab.token, place |-> "gate"]
    /\ cache' = Cleared
    /\ CancelQueries
    /\ auth' = Idle
    /\ UNCHANGED <<serverVars, write>>

\* Signed in: nothing of before remains, and the page behind the gate follows.
LoginDone ==
    /\ auth.stage = "post" /\ auth.kind = "login" /\ auth.reply.status = 200
    /\ cookie' = auth.reply.cookie
    /\ tab' = [user |-> auth.reply.user, token |-> auth.reply.token, place |-> "gate"]
    /\ cache' = Cleared
    /\ CancelQueries
    /\ auth' = Idle
    /\ UNCHANGED <<serverVars, write>>

\* Mutant: the session query survives the logout.
LogoutDone_UserKept ==
    /\ auth.stage = "post" /\ auth.kind = "logout" /\ auth.reply.status \in {200, 401}
    /\ cookie' = IF auth.reply.status = 200 THEN 0 ELSE cookie
    /\ tab' = [tab EXCEPT !.place = "login"]
    /\ cache' = Cleared
    /\ CancelQueries
    /\ auth' = Idle
    /\ UNCHANGED <<serverVars, write>>

\* Signed out, by this request, which deletes the cookie, or before (401).
LogoutDone ==
    /\ auth.stage = "post" /\ auth.kind = "logout" /\ auth.reply.status \in {200, 401}
    /\ cookie' = IF auth.reply.status = 200 THEN 0 ELSE cookie
    /\ tab' = [user |-> NoUser, token |-> 0, place |-> "login"]
    /\ cache' = Cleared
    /\ CancelQueries
    /\ auth' = Idle
    /\ UNCHANGED <<serverVars, write>>

\* Refused; the page says so and stays.
AuthFailed ==
    /\ auth.stage = "post"
    /\ auth.reply.status \notin (IF auth.kind = "login" THEN {200} ELSE {200, 401})
    /\ auth' = Idle
    /\ UNCHANGED <<serverVars, cookie, tabVars, load, read, write>>

AuthLost ==
    /\ "lost" \in Happens
    /\ auth.stage \in {"csrf", "post"}
    /\ auth' = Idle
    /\ UNCHANGED <<serverVars, cookie, tabVars, load, read, write>>

-----------------------------------------------------------------------------
(* Private queries and writes of the pages behind the gate.                 *)

Working == tab.place = "gate" /\ tab.user # NoUser

Read ==
    /\ Working
    /\ read = Idle
    /\ read' = [Idle EXCEPT !.stage = "served", !.kind = "read", !.user = SignedIn(cookie)]
    /\ UNCHANGED <<serverVars, cookie, tabVars, load, auth, write>>

ReadDone ==
    /\ read.stage = "served"
    /\ \/ /\ read.user # NoUser
          /\ cache' = cache \cup {read.user}
          /\ read' = Idle
          /\ UNCHANGED <<tab, load>>
       \/ /\ read.user = NoUser
          /\ ExpiredBeside
    /\ UNCHANGED <<serverVars, cookie, auth, write>>

\* A write takes the cookie and the token of the moment it is sent.
Write ==
    /\ "write" \in Happens
    /\ Working
    /\ write = Idle
    /\ write' = [Idle EXCEPT !.stage = "sent", !.kind = "write", !.user = tab.user,
                             !.cookie = cookie, !.token = tab.token]
    /\ UNCHANGED <<serverVars, cookie, tabVars, load, auth, read>>

ServeWrite ==
    /\ write.stage = "sent"
    /\ write' = [write EXCEPT !.stage = "served", !.user = SignedIn(write.cookie),
           !.reply = [NoReply EXCEPT !.status = CommandVerdict(write.cookie, write.token)]]
    /\ UNCHANGED <<serverVars, cookie, tabVars, load, auth, read>>

\* onSuccess of a mutation puts the reply into the cache, wherever the user is
\* by then (useTaskAction, useSaveProgress, ProfilePage.saved); a refused token
\* is an error the page shows.
WriteDone ==
    /\ write.stage = "served"
    /\ write' = Idle
    /\ CASE write.reply.status = 200 ->
              cache' = cache \cup {write.user} /\ UNCHANGED <<tab, load, read>>
         [] write.reply.status = 401 /\ tab.user # NoUser -> ExpiredBeside
         [] OTHER -> UNCHANGED <<tabVars, load, read>>
    /\ UNCHANGED <<serverVars, cookie, auth>>

-----------------------------------------------------------------------------
(* What happens besides.                                                    *)

\* Another tab fetches a token for the same cookie.
Rotate ==
    /\ "rotate" \in Happens
    /\ Live(cookie)
    /\ ServeCsrf
    /\ UNCHANGED <<cookie, tabVars, load, auth, read, write>>

\* Another tab logs in as user, once it has a token, or logs out.
Elsewhere(user) ==
    /\ "elsewhere" \in Happens
    /\ tokens < MaxTokens /\ issued < MaxSessions
    /\ tokens' = tokens + 1
    /\ issued' = issued + 1
    /\ session' = [s \in Sessions |->
           CASE s = issued + 1 -> [user |-> user, live |-> TRUE, token |-> tokens + 1]
             [] s = cookie -> [session[s] EXCEPT !.live = FALSE]
             [] OTHER -> session[s]]
    /\ cookie' = issued + 1
    /\ UNCHANGED <<tabVars, load, auth, read, write>>

ElsewhereOut ==
    /\ "elsewhere" \in Happens
    /\ SignedIn(cookie) # NoUser
    /\ session' = [session EXCEPT ![cookie].live = FALSE]
    /\ cookie' = 0
    /\ UNCHANGED <<issued, tokens, tabVars, load, auth, read, write>>

\* The session expires, or its password is reset.
Revoke ==
    /\ "revoke" \in Happens
    /\ Live(cookie)
    /\ session' = [session EXCEPT ![cookie].live = FALSE]
    /\ UNCHANGED <<issued, tokens, cookie, tabVars, load, auth, read, write>>

Next ==
    \/ GoLogin \/ GoBack
    \/ LoadMe \/ LoadCsrf \/ LoadRefused \/ LoadDone \/ LoadLost
    \/ \E user \in Users : AuthCsrf("login", user)
    \/ AuthCsrf("logout", NoUser)
    \/ AuthToken \/ AuthPost \/ LoginDone \/ LogoutDone \/ AuthFailed \/ AuthLost
    \/ Read \/ ReadDone \/ Write \/ ServeWrite \/ WriteDone
    \/ Rotate \/ Revoke
    \/ \E user \in Users : Elsewhere(user)
    \/ ElsewhereOut

Spec == Init /\ [][Next]_vars

-----------------------------------------------------------------------------
(* Properties.                                                              *)

\* Rows beyond those issued do not exist, and two live sessions never share a
\* token.
TypeOK ==
    /\ session \in [Sessions -> Row]
    /\ issued \in 0..MaxSessions /\ tokens \in Tokens /\ cookie \in 0..MaxSessions
    /\ tab \in [user: Anybody, token: Tokens, place: {"gate", "login"}]
    /\ cache \subseteq Users
    /\ {load, auth, read, write} \subseteq Flow
    /\ \A r, s \in Sessions : (session[r].token = session[s].token /\ r # s) => ~session[r].live

\* docs/identity.md: the tab caches private data of the user it shows as signed in,
\* and of nobody once the session has ended.  Too strong: see README.md.
OwnCache == cache \subseteq {tab.user}

\* When a login, a logout or a 401 changes whom the tab shows, nothing private
\* remains; and unless another tab logs in or out, no reply, load or query of an
\* earlier user brings the data of anybody but the tab's user into the cache, save
\* that of a write which succeeds (onSuccess).
Strangers == cache \ {tab.user}
Written == IF write.stage = "served" /\ write.reply.status = 200 /\ write' = Idle
           THEN {write.user} ELSE {}
StrangersByWrite ==
    /\ (auth' # auth \/ tab'.user = NoUser) /\ tab'.user # tab.user => cache' = {}
    /\ "elsewhere" \notin Happens => Strangers' \subseteq Strangers \cup Written

\* With nothing lost or late and nobody else at work, whom the tab shows as
\* signed in is whom the server knows under the cookie.
IdentityAgrees ==
    (tab.user # NoUser /\ auth.stage \in {"idle", "csrf", "sent"} /\ auth.kind # "login") =>
        SignedIn(cookie) = tab.user

\* With nothing lost or late and nobody else at work, the token of a write is
\* the token of its session: no write of a user who works on is refused for it.
TokenFits ==
    (write.stage = "served" /\ Working /\ auth = Idle) => write.reply.status # 403

\* A tab whose login has just succeeded can work: cookie and token are those of
\* the new session, and stay so until its session is loaded again.
LoginFits ==
    (auth.stage = "post" /\ auth.kind = "login" /\ auth'.stage = "idle" /\ tab'.place = "gate") =>
        /\ session[cookie'].live
        /\ session[cookie'].user = tab'.user
        /\ session[cookie'].token = tab'.token

=============================================================================
