------------------------- MODULE ClientSessionProofs -------------------------
(***************************************************************************)
(* What holds of a tab's session and cache for any number of users,        *)
(* sessions and tokens, whatever replies are lost or late.                 *)
(*                                                                         *)
(* In a browser whose other tabs log nobody in or out, the invariant       *)
(* follows the cookies that are under way: a cookie that arrives signs     *)
(* nobody in, and all that speaks of a user, the session query, a load, a  *)
(* query, speaks of the one whom the browser's own cookie signs in.        *)
(* ClientSession is an instance in MCWebTabs, so what its constants have   *)
(* to be is a hypothesis here.                                             *)
(***************************************************************************)
EXTENDS ClientSession, TLAPS

ConstantsAssumption == MaxSessions \in Nat /\ MaxTokens \in Nat /\ NoUser \notin Users

-----------------------------------------------------------------------------
(* The invariant.                                                           *)

\* Whom each cookie signs in.
Who == [s \in 0..MaxSessions |-> SignedIn(s)]

\* The session the browser still names has been ended by its login or logout.
Over ==
    /\ auth.stage = "post"
    /\ auth.reply.status = 200 \/ (auth.kind = "logout" /\ auth.reply.status = 401)

\* A token of the load is on its way, and a cookie with it.
Holding == load.stage \in {"csrf", "abandoned"}

\* Two live sessions never share a token, and no row has one that was not given out.
Rows ==
    /\ session \in [Sessions -> Row]
    /\ issued \in 0..MaxSessions /\ tokens \in Tokens
    /\ \A r, s \in Sessions : (session[r].token = session[s].token /\ r # s) => ~session[r].live
    /\ \A s \in Sessions : session[s].token <= tokens

TabType == [user: Anybody, token: Tokens, place: {"gate", "login"}]

\* What the browser and the tab hold has its type.
Held ==
    /\ cookie \in 0..MaxSessions
    /\ tab \in TabType
    /\ cache \subseteq Users
    /\ load \in Flow /\ auth \in Flow /\ read \in Flow /\ write \in Flow

\* Cookies come from the server, and what a flow says of a user is true of one.
Given ==
    /\ cookie <= issued
    /\ Holding => load.reply.cookie <= issued
    /\ auth.stage \in {"csrf", "post"} => auth.reply.cookie <= issued
    /\ load.stage = "csrf" => load.user # NoUser
    /\ auth.stage # "idle" => auth.kind \in {"login", "logout"}
    /\ auth.stage # "idle" /\ auth.kind = "login" => auth.user \in Users
    /\ auth.stage # "idle" /\ auth.kind = "login" => tab.place = "login" \/ "leave" \in Happens
    /\ write.stage = "served" /\ write.reply.status = 200 => write.user # NoUser

\* The browser and the session query are about u, or about nobody.
About(u) ==
    /\ tab.user \in {NoUser, u}
    /\ Who[cookie] \in {NoUser, u}

\* A cookie that comes with a token signs nobody in, and none comes to a browser
\* whose cookie signs somebody in; a query is about the user the tab shows; and
\* once a session is over, its cookie is nobody's.
Links ==
    /\ Holding => Who[load.reply.cookie] = NoUser
    /\ auth.stage = "csrf" => Who[auth.reply.cookie] = NoUser
    /\ auth.stage = "csrf" /\ Who[cookie] # NoUser => auth.reply.cookie = 0
    /\ Over => Who[cookie] = NoUser
    /\ tab.user # NoUser => About(tab.user)
    /\ load.stage \in {"me", "csrf"} /\ load.user # NoUser => About(load.user)
    /\ read.stage = "served" /\ read.user # NoUser => tab.user = read.user

\* The reply to a login names a session as the server has it.
Welcome ==
    auth.stage = "post" /\ auth.kind = "login" /\ auth.reply.status = 200 =>
        /\ auth.reply.cookie # 0
        /\ session[auth.reply.cookie] =
               [user |-> auth.user, live |-> TRUE, token |-> auth.reply.token]
        /\ auth.reply.user = auth.user

\* What holds in any browser, and what besides when no other tab logs in or out.
Base == Rows /\ Held /\ Given

SessionInv == Rows /\ Held /\ Given /\ Links /\ Welcome

TabInv == Base /\ ("elsewhere" \notin Happens => SessionInv)

\* What the tab shows as signed in, its browser is, and a load that will say so.
Undisturbed ==
    /\ tab.user # NoUser /\ ~Over => Who[cookie] # NoUser
    /\ load.stage = "csrf" /\ ~Over => Who[cookie] # NoUser /\ load.reply.cookie = 0
    /\ load.stage = "abandoned" /\ tab.user # NoUser /\ ~Over => load.reply.cookie = 0
    /\ load.stage = "me" /\ load.user # NoUser /\ ~Over => Who[cookie] # NoUser
    /\ tab.place = "login" => load.stage \in {"idle", "abandoned"}
    /\ auth.stage # "idle" /\ auth.kind = "login" => load.stage = "idle"

-----------------------------------------------------------------------------
(* Records: replies and flows, changed field by field.                      *)

Statuses == {0, 200, 401, 403}
Stages == {"idle", "me", "csrf", "post", "abandoned", "sent", "served"}
Kinds == {"none", "load", "login", "logout", "read", "write"}

LEMMA Blank ==
    ASSUME ConstantsAssumption
    PROVE  /\ NoReply \in Reply /\ Idle \in Flow
           /\ Idle.stage = "idle" /\ Idle.kind = "none" /\ Idle.user = NoUser
           /\ NoReply.status = 0 /\ NoReply.cookie = 0 /\ Idle.reply = NoReply
BY DEF ConstantsAssumption, NoReply, Reply, Idle, Flow, Anybody, Tokens

LEMMA ReplyWith ==
    ASSUME NEW r \in Reply
    PROVE  /\ \A x \in Statuses : [r EXCEPT !.status = x] \in Reply
           /\ \A x \in Tokens : [r EXCEPT !.token = x] \in Reply
           /\ \A x \in 0..MaxSessions : [r EXCEPT !.cookie = x] \in Reply
BY DEF Reply, Statuses

LEMMA FlowWith ==
    ASSUME NEW f \in Flow
    PROVE  /\ \A x \in Stages : [f EXCEPT !.stage = x] \in Flow
           /\ \A x \in Kinds : [f EXCEPT !.kind = x] \in Flow
           /\ \A x \in Anybody : [f EXCEPT !.user = x] \in Flow
           /\ \A x \in Tokens : [f EXCEPT !.token = x] \in Flow
           /\ \A x \in 0..MaxSessions : [f EXCEPT !.cookie = x] \in Flow
           /\ \A x \in Reply : [f EXCEPT !.reply = x] \in Flow
BY DEF Flow, Stages, Kinds

\* The replies of the server.
LEMMA Replies ==
    ASSUME ConstantsAssumption, NEW a \in Statuses, NEW b \in Tokens,
           NEW c \in 0..MaxSessions
    PROVE  /\ [NoReply EXCEPT !.status = a, !.token = b, !.cookie = c] \in Reply
           /\ [NoReply EXCEPT !.status = a, !.cookie = c] \in Reply
           /\ [NoReply EXCEPT !.status = a] \in Reply
<1> DEFINE u == [NoReply EXCEPT !.status = a]
           v == [u EXCEPT !.token = b]
<1>1. u \in Reply
  BY Blank, ReplyWith
<1> HIDE DEF u
<1>2. v \in Reply /\ [u EXCEPT !.cookie = c] \in Reply
  BY <1>1, ReplyWith
<1> HIDE DEF v
<1>3. [v EXCEPT !.cookie = c] \in Reply
  BY <1>2, ReplyWith
<1>4. QED
  BY <1>1, <1>2, <1>3, Zenon DEF u, v

LEMMA Refusals ==
    ASSUME ConstantsAssumption
    PROVE  \A a \in Statuses : [NoReply EXCEPT !.status = a] \in Reply
BY Blank, ReplyWith

\* The flows as they begin and go on.
LEMMA Flows ==
    ASSUME ConstantsAssumption, NEW f \in Flow, NEW x \in Stages, NEW k \in Kinds,
           NEW u \in Anybody, NEW n \in Tokens, NEW c \in 0..MaxSessions, NEW r \in Reply
    PROVE  /\ [f EXCEPT !.stage = x] \in Flow
           /\ [f EXCEPT !.stage = x, !.reply = r] \in Flow
           /\ [f EXCEPT !.stage = x, !.token = n, !.reply = r] \in Flow
           /\ [f EXCEPT !.stage = x, !.user = u, !.reply = r] \in Flow
           /\ [f EXCEPT !.stage = x, !.kind = k, !.user = u] \in Flow
           /\ [f EXCEPT !.stage = x, !.kind = k, !.user = u, !.reply = r] \in Flow
           /\ [f EXCEPT !.stage = x, !.kind = k, !.user = u, !.cookie = c, !.token = n] \in Flow
<1> DEFINE s == [f EXCEPT !.stage = x]
           st == [s EXCEPT !.token = n]
           su == [s EXCEPT !.user = u]
           sk == [s EXCEPT !.kind = k]
           sku == [sk EXCEPT !.user = u]
           skuc == [sku EXCEPT !.cookie = c]
<1>1. s \in Flow
  BY FlowWith
<1> HIDE DEF s
<1>2. st \in Flow /\ su \in Flow /\ sk \in Flow /\ [s EXCEPT !.reply = r] \in Flow
  BY <1>1, FlowWith
<1> HIDE DEF st, su, sk
<1>3. /\ [st EXCEPT !.reply = r] \in Flow /\ [su EXCEPT !.reply = r] \in Flow
      /\ sku \in Flow
  BY <1>2, FlowWith
<1> HIDE DEF sku
<1>4. [sku EXCEPT !.reply = r] \in Flow /\ skuc \in Flow
  BY <1>3, FlowWith
<1> HIDE DEF skuc
<1>5. [skuc EXCEPT !.token = n] \in Flow
  BY <1>4, FlowWith
<1>6. QED
  BY <1>1, <1>2, <1>3, <1>4, <1>5, Zenon DEF s, st, su, sk, sku, skuc

-----------------------------------------------------------------------------
(* What the server does.                                                    *)

LEMMA WhoIs ==
    ASSUME ConstantsAssumption, session \in [Sessions -> Row]
    PROVE  /\ Who \in [0..MaxSessions -> Anybody]
           /\ Who[0] = NoUser
           /\ \A s \in 0..MaxSessions : Who[s] = SignedIn(s)
           /\ \A s \in Sessions :
                  Who[s] = IF session[s].live THEN session[s].user ELSE NoUser
BY DEF ConstantsAssumption, Who, SignedIn, Live, Sessions, Row, Anybody

LEMMA WhoKept == UNCHANGED session => Who' = Who
BY DEF Who, SignedIn, Live

\* A new token changes nobody's session; the session without a user that is
\* issued for it is the next row.
LEMMA Csrf ==
    ASSUME ConstantsAssumption, Rows, cookie \in 0..MaxSessions, cookie <= issued, ServeCsrf
    PROVE  /\ Rows'
           /\ issued <= issued' /\ issued' <= MaxSessions
           /\ \A s \in 0..issued : Who'[s] = Who[s]
           /\ \A s \in Sessions : s <= issued /\ s # cookie => session'[s] = session[s]
           /\ CsrfReply \in Reply /\ CsrfReply.cookie <= issued'
           /\ Who'[CsrfReply.cookie] = NoUser
           /\ CsrfReply.cookie = 0 \/ Who[cookie] = NoUser
<1> DEFINE t == CsrfTarget
           new == [user |-> SignedIn(cookie), live |-> TRUE, token |-> tokens + 1]
<1>1. /\ t \in Sessions /\ t <= issued' /\ issued <= issued' /\ issued' \in 0..MaxSessions
      /\ (t = cookie /\ Live(cookie)) \/ (t = issued + 1 /\ ~Live(cookie))
  <2>1. CASE Live(cookie)
    <3>1. cookie # 0 /\ t = cookie /\ issued' = issued
      BY <2>1 DEF Live, ServeCsrf, CsrfTarget
    <3>2. QED
      BY <2>1, <3>1 DEF ConstantsAssumption, Rows, Sessions
  <2>2. CASE ~Live(cookie)
    <3>1. t = issued + 1 /\ issued' = issued + 1 /\ t <= MaxSessions
      BY <2>2 DEF ServeCsrf, CsrfTarget
    <3>2. QED
      BY <2>2, <3>1 DEF ConstantsAssumption, Rows, Sessions
  <2>3. QED
    BY <2>1, <2>2
<1>2. SignedIn(cookie) \in Anybody
  BY DEF ConstantsAssumption, Rows, SignedIn, Live, Sessions, Row, Anybody
<1>3. tokens + 1 \in Tokens /\ tokens' = tokens + 1
  BY DEF ConstantsAssumption, Rows, ServeCsrf, Tokens
<1>4. new \in Row /\ new.live = TRUE /\ new.user = SignedIn(cookie) /\ new.token = tokens + 1
  BY <1>2, <1>3 DEF Row
<1>5. session' = [session EXCEPT ![t] = new]
  BY DEF ServeCsrf
<1> HIDE DEF t, new
<1>6. /\ session' \in [Sessions -> Row] /\ session'[t] = new
      /\ \A s \in Sessions : s # t => session'[s] = session[s]
  BY <1>1, <1>4, <1>5 DEF Rows
<1>7. Rows'
  <2>1. \A s \in Sessions : session[s].token <= tokens /\ tokens \in Nat /\ session[s].token \in Nat
    BY DEF Rows, Row, Tokens, ConstantsAssumption
  <2>2. \A s \in Sessions : session'[s].token <= tokens'
    BY <1>3, <1>4, <1>6, <2>1
  <2>3. \A r, s \in Sessions : (session'[r].token = session'[s].token /\ r # s) => ~session'[r].live
    <3> SUFFICES ASSUME NEW r \in Sessions, NEW s \in Sessions,
                        session'[r].token = session'[s].token, r # s
                 PROVE  ~session'[r].live
      OBVIOUS
    <3>1. r # t /\ s # t
      BY <1>3, <1>4, <1>6, <2>1
    <3>2. QED
      BY <3>1, <1>6 DEF Rows
  <2>4. QED
    BY <1>1, <1>3, <1>6, <2>2, <2>3 DEF Rows
<1>8. /\ \A s \in Sessions : Who[s] = IF session[s].live THEN session[s].user ELSE NoUser
      /\ \A s \in Sessions : Who'[s] = IF session'[s].live THEN session'[s].user ELSE NoUser
      /\ Who[0] = NoUser /\ Who'[0] = NoUser /\ Who[cookie] = SignedIn(cookie)
  <2>1. session \in [Sessions -> Row] /\ session' \in [Sessions -> Row]
    BY <1>6 DEF Rows
  <2>2. QED
    BY <2>1 DEF ConstantsAssumption, Who, SignedIn, Live, Sessions, Row, Anybody
<1>9. Who'[t] = Who[cookie]
  BY <1>1, <1>4, <1>6, <1>8
<1>10. \A s \in 0..issued : Who'[s] = Who[s]
  <2> SUFFICES ASSUME NEW s \in 0..issued
               PROVE  Who'[s] = Who[s]
    OBVIOUS
  <2>1. CASE s = 0
    BY <2>1, <1>8
  <2>2. CASE s # 0 /\ s = t
    <3>1. s = cookie
      BY <2>2, <1>1 DEF Rows
    <3>2. QED
      BY <2>2, <3>1, <1>9
  <2>3. CASE s # 0 /\ s # t
    <3>1. s \in Sessions
      BY <2>3 DEF Rows, Sessions, ConstantsAssumption
    <3>2. QED
      BY <2>3, <3>1, <1>6, <1>8
  <2>4. QED
    BY <2>1, <2>2, <2>3
<1> DEFINE c == IF Live(cookie) THEN 0 ELSE t
<1>11. CsrfReply \in Reply /\ CsrfReply.cookie = c
  <2>1. CsrfReply = [NoReply EXCEPT !.status = 200, !.token = tokens + 1, !.cookie = c]
    BY DEF CsrfReply, t
  <2>2. c \in 0..MaxSessions /\ 200 \in Statuses
    BY <1>1 DEF Sessions, ConstantsAssumption, Statuses
  <2> HIDE DEF c
  <2>3. CsrfReply \in Reply
    BY <1>3, <2>1, <2>2, Replies
  <2>4. CsrfReply.cookie = c
    BY <2>1 DEF NoReply
  <2>5. QED
    BY <2>3, <2>4
<1>12. c <= issued' /\ Who'[c] = NoUser /\ (c = 0 \/ Who[cookie] = NoUser)
  <2>1. CASE Live(cookie)
    BY <2>1, <1>1, <1>8
  <2>2. CASE ~Live(cookie)
    BY <2>2, <1>1, <1>8, <1>9 DEF SignedIn
  <2>3. QED
    BY <2>1, <2>2
<1>13. \A s \in Sessions : s <= issued /\ s # cookie => session'[s] = session[s]
  BY <1>1, <1>6 DEF Rows, Sessions, ConstantsAssumption
<1> HIDE DEF c
<1>14. QED
  BY <1>1, <1>7, <1>10, <1>11, <1>12, <1>13

\* Ending the session of a cookie.
LEMMA Ending ==
    ASSUME ConstantsAssumption, Rows, cookie \in Sessions, NEW mid,
           mid = [session EXCEPT ![cookie].live = FALSE]
    PROVE  /\ mid \in [Sessions -> Row]
           /\ ~mid[cookie].live
           /\ mid[cookie].token = session[cookie].token
           /\ \A s \in Sessions : s # cookie => mid[s] = session[s]
BY DEF Rows, Row, Sessions

LEMMA Ended ==
    ASSUME ConstantsAssumption, Rows, cookie \in Sessions,
           session' = [session EXCEPT ![cookie].live = FALSE], UNCHANGED <<issued, tokens>>
    PROVE  /\ Rows'
           /\ \A s \in 0..issued : Who'[s] = IF s = cookie THEN NoUser ELSE Who[s]
           /\ \A s \in Sessions : s # cookie => session'[s] = session[s]
<1>1. /\ session' \in [Sessions -> Row]
      /\ ~session'[cookie].live
      /\ session'[cookie].token = session[cookie].token
      /\ \A s \in Sessions : s # cookie => session'[s] = session[s]
  BY Ending
<1>2. Rows'
  <2>1. \A s \in Sessions : session'[s].token <= tokens'
    BY <1>1 DEF Rows
  <2>2. \A r, s \in Sessions : (session'[r].token = session'[s].token /\ r # s) => ~session'[r].live
    <3> SUFFICES ASSUME NEW r \in Sessions, NEW s \in Sessions,
                        session'[r].token = session'[s].token, r # s
                 PROVE  ~session'[r].live
      OBVIOUS
    <3>1. CASE r = cookie
      BY <3>1, <1>1
    <3>2. CASE r # cookie
      <4>1. session'[r] = session[r] /\ session'[s].token = session[s].token
        BY <3>2, <1>1
      <4>2. QED
        BY <4>1 DEF Rows
    <3>3. QED
      BY <3>1, <3>2
  <2>3. QED
    BY <1>1, <2>1, <2>2 DEF Rows
<1>3. /\ \A s \in Sessions : Who[s] = IF session[s].live THEN session[s].user ELSE NoUser
      /\ \A s \in Sessions : Who'[s] = IF session'[s].live THEN session'[s].user ELSE NoUser
      /\ Who[0] = NoUser /\ Who'[0] = NoUser
  <2>1. session \in [Sessions -> Row] /\ session' \in [Sessions -> Row]
    BY <1>1 DEF Rows
  <2>2. QED
    BY <2>1 DEF ConstantsAssumption, Who, SignedIn, Live, Sessions, Row, Anybody
<1>4. \A s \in 0..issued : Who'[s] = IF s = cookie THEN NoUser ELSE Who[s]
  <2> SUFFICES ASSUME NEW s \in 0..issued
               PROVE  Who'[s] = IF s = cookie THEN NoUser ELSE Who[s]
    OBVIOUS
  <2>1. s = 0 \/ s \in Sessions
    BY DEF Rows, Sessions, ConstantsAssumption
  <2>2. CASE s = 0
    BY <2>2, <1>3
  <2>3. CASE s = cookie
    BY <2>3, <1>1, <1>3
  <2>4. CASE s \in Sessions /\ s # cookie
    BY <2>4, <1>1, <1>3
  <2>5. QED
    BY <2>1, <2>2, <2>3, <2>4
<1>5. QED
  BY <1>1, <1>2, <1>4

\* What a verdict of 200 takes.
LEMMA Verdicts ==
    ASSUME NEW s, NEW n
    PROVE  /\ Verdict(s, n) \in Statuses /\ CommandVerdict(s, n) \in Statuses
           /\ Verdict(s, n) = 200 => s # 0 /\ session[s].live
           /\ Verdict(s, n) = 401 => SignedIn(s) = NoUser
           /\ CommandVerdict(s, n) = 200 => s # 0 /\ SignedIn(s) # NoUser
           /\ CommandVerdict(s, n) = 401 => SignedIn(s) = NoUser
BY DEF Verdict, CommandVerdict, SignedIn, Live, Statuses

\* A login that succeeds ends the session of the browser and makes the next row that
\* of the user; a login that fails changes nothing.
LEMMA Login ==
    ASSUME ConstantsAssumption, Rows, cookie \in 0..MaxSessions, cookie <= issued,
           NEW u \in Users, NEW n \in Tokens, ServeLogin(u, n),
           NEW r, r = LoginReply(u, n)
    PROVE  /\ Rows' /\ issued <= issued'
           /\ r \in Reply /\ r.cookie <= issued'
           /\ r.status # 200 => UNCHANGED serverVars
           /\ r.status = 200 =>
                /\ \A s \in 0..issued : Who'[s] = IF s = cookie THEN NoUser ELSE Who[s]
                /\ r.cookie # 0 /\ r.user = u
                /\ session'[r.cookie] = [user |-> u, live |-> TRUE, token |-> r.token]
<1>1. CASE Verdict(cookie, n) = 200
  <2> DEFINE mid == [session EXCEPT ![cookie].live = FALSE]
             t == issued + 1
             new == [user |-> u, live |-> TRUE, token |-> tokens + 1]
  <2>1. cookie \in Sessions
    BY <1>1, Verdicts DEF Sessions, ConstantsAssumption
  <2>2. /\ tokens' = tokens + 1 /\ issued' = t /\ tokens < MaxTokens /\ issued < MaxSessions
        /\ session' = [mid EXCEPT ![t] = new]
    BY <1>1 DEF ServeLogin
  <2>3. t \in Sessions /\ t # cookie /\ issued' \in 0..MaxSessions /\ tokens' \in Tokens
        /\ issued <= issued'
    BY <2>2 DEF Rows, Sessions, ConstantsAssumption, Tokens
  <2>4. new \in Row /\ new.live = TRUE /\ new.user = u /\ new.token = tokens'
    BY <2>2, <2>3 DEF Row, Anybody
  <2>5. /\ mid \in [Sessions -> Row]
        /\ ~mid[cookie].live /\ mid[cookie].token = session[cookie].token
        /\ \A s \in Sessions : s # cookie => mid[s] = session[s]
    BY <2>1, Ending
  <2>6. r = [status |-> 200, user |-> u, token |-> tokens', cookie |-> t]
    BY <1>1, <2>2 DEF LoginReply
  <2> HIDE DEF mid, t, new
  <2>7. /\ session' \in [Sessions -> Row] /\ session'[t] = new
        /\ ~session'[cookie].live /\ session'[cookie].token = session[cookie].token
        /\ \A s \in Sessions : s # t /\ s # cookie => session'[s] = session[s]
    BY <2>1, <2>2, <2>3, <2>4, <2>5
  <2>8. Rows'
    <3>1. \A s \in Sessions : session[s].token <= tokens /\ tokens \in Nat /\ session[s].token \in Nat
      BY DEF Rows, Row, Tokens, ConstantsAssumption
    <3>2. \A s \in Sessions : s # t => session'[s].token = session[s].token
      BY <2>7
    <3>3. \A s \in Sessions : session'[s].token <= tokens'
      BY <2>2, <2>4, <2>7, <3>1, <3>2
    <3>4. \A x, s \in Sessions :
              (session'[x].token = session'[s].token /\ x # s) => ~session'[x].live
      <4> SUFFICES ASSUME NEW x \in Sessions, NEW s \in Sessions,
                          session'[x].token = session'[s].token, x # s
                   PROVE  ~session'[x].live
        OBVIOUS
      <4>1. x # t /\ s # t
        BY <2>2, <2>4, <2>7, <3>1, <3>2
      <4>2. CASE x = cookie
        BY <4>2, <2>7
      <4>3. CASE x # cookie
        <5>1. session'[x] = session[x] /\ session[x].token = session[s].token
          BY <4>1, <4>3, <2>7, <3>2
        <5>2. QED
          BY <5>1 DEF Rows
      <4>4. QED
        BY <4>2, <4>3
    <3>5. QED
      BY <2>3, <2>7, <3>3, <3>4 DEF Rows
  <2>9. \A s \in 0..issued : Who'[s] = IF s = cookie THEN NoUser ELSE Who[s]
    <3>1. /\ \A s \in Sessions : Who[s] = IF session[s].live THEN session[s].user ELSE NoUser
          /\ \A s \in Sessions : Who'[s] = IF session'[s].live THEN session'[s].user ELSE NoUser
          /\ Who[0] = NoUser /\ Who'[0] = NoUser
      <4>1. session \in [Sessions -> Row] /\ session' \in [Sessions -> Row]
        BY <2>7 DEF Rows
      <4>2. QED
        BY <4>1 DEF ConstantsAssumption, Who, SignedIn, Live, Sessions, Row, Anybody
    <3> SUFFICES ASSUME NEW s \in 0..issued
                 PROVE  Who'[s] = IF s = cookie THEN NoUser ELSE Who[s]
      OBVIOUS
    <3>2. (s = 0 \/ s \in Sessions) /\ s # t
      BY DEF Rows, Sessions, ConstantsAssumption, t
    <3>3. CASE s = 0
      BY <3>3, <3>1
    <3>4. CASE s = cookie
      BY <3>4, <2>1, <2>7, <3>1
    <3>5. CASE s \in Sessions /\ s # cookie
      BY <3>5, <3>1, <3>2, <2>7
    <3>6. QED
      BY <3>2, <3>3, <3>4, <3>5
  <2>10. /\ r \in Reply /\ r.cookie = t /\ r.user = u /\ r.token = tokens' /\ r.status = 200
         /\ t # 0
    BY <2>3, <2>6 DEF Reply, Sessions, ConstantsAssumption, Anybody
  <2>11. new = [user |-> u, live |-> TRUE, token |-> r.token]
    BY <2>2, <2>10 DEF new
  <2>12. t <= issued'
    BY <2>2, <2>3
  <2>13. QED
    BY <2>3, <2>7, <2>8, <2>9, <2>10, <2>11, <2>12
<1>2. CASE Verdict(cookie, n) # 200
  <2> DEFINE v == Verdict(cookie, n)
  <2>1. UNCHANGED serverVars
    BY <1>2 DEF ServeLogin
  <2>2. r = [NoReply EXCEPT !.status = v]
    BY <1>2 DEF LoginReply
  <2>3. v \in Statuses /\ v # 200
    BY <1>2, Verdicts
  <2> HIDE DEF v
  <2>4. r \in Reply /\ r.status # 200 /\ r.cookie = 0
    BY <2>2, <2>3, Refusals DEF NoReply
  <2>5. Rows' /\ issued' = issued
    BY <2>1 DEF serverVars, Rows
  <2>6. QED
    BY <2>1, <2>4, <2>5 DEF Rows
<1>3. QED
  BY <1>1, <1>2

\* A logout ends the session of the browser, or finds it over, or changes nothing.
LEMMA Logout ==
    ASSUME ConstantsAssumption, Rows, cookie \in 0..MaxSessions, cookie <= issued,
           NEW n \in Tokens, ServeLogout(n), NEW r, r = LogoutReply(n)
    PROVE  /\ Rows' /\ issued' = issued
           /\ r \in Reply /\ r.cookie = 0
           /\ r.status # 200 => UNCHANGED serverVars
           /\ r.status = 401 => Who[cookie] = NoUser
           /\ r.status = 200 =>
                \A s \in 0..issued : Who'[s] = IF s = cookie THEN NoUser ELSE Who[s]
<1> DEFINE v == CommandVerdict(cookie, n)
<1>1. r = [NoReply EXCEPT !.status = v]
  BY DEF LogoutReply
<1>2. v \in Statuses
  BY Verdicts
<1>3. v = 401 => Who[cookie] = NoUser
  BY Verdicts, WhoIs DEF Rows
<1>4. v = 200 => cookie \in Sessions /\ session' = [session EXCEPT ![cookie].live = FALSE]
                 /\ UNCHANGED <<issued, tokens>>
  BY Verdicts DEF ServeLogout, Sessions, ConstantsAssumption
<1>5. v # 200 => UNCHANGED serverVars
  BY DEF ServeLogout
<1> HIDE DEF v
<1>6. r \in Reply
  BY <1>1, <1>2, Refusals, Zenon
<1>7. r.status = v /\ r.cookie = 0
  BY <1>1 DEF NoReply
<1>8. CASE v = 200
  BY <1>8, <1>2, <1>4, <1>6, <1>7, Ended
<1>9. CASE v # 200
  <2>1. Rows' /\ issued' = issued
    BY <1>5, <1>9 DEF serverVars, Rows
  <2>2. QED
    BY <2>1, <1>2, <1>3, <1>5, <1>6, <1>7, <1>9
<1>10. QED
  BY <1>8, <1>9

-----------------------------------------------------------------------------
(* The invariant is kept: steps that let go.                                *)

\* What every step does: it keeps Base in any case, and what SessionInv says besides
\* unless it is another tab that logs in or out.
Kept == Base' /\ (SessionInv => SessionInv')

LEMMA SessionTypes == Base => TypeOK
BY DEF Base, Rows, Held, TabType, TypeOK

LEMMA WhoTyped ==
    ASSUME ConstantsAssumption, Base
    PROVE  /\ Who \in [0..MaxSessions -> Anybody] /\ Who[0] = NoUser
           /\ Who[cookie] = SignedIn(cookie)
           /\ issued \in Nat /\ cookie \in Nat
BY WhoIs DEF Base, Rows, Held, ConstantsAssumption

LEMMA Abandons ==
    ASSUME ConstantsAssumption, load \in Flow, NEW f, f = Abandoned(load)
    PROVE  /\ f \in Flow
           /\ \/ f = Idle /\ f.stage = "idle"
              \/ f.stage = "abandoned" /\ Holding /\ f.reply = load.reply
<1>1. CASE load.stage = "csrf"
  <2>1. f = [load EXCEPT !.stage = "abandoned"]
    BY <1>1 DEF Abandoned
  <2>2. QED
    BY <1>1, <2>1 DEF Flow, Holding
<1>2. CASE load.stage # "csrf"
  BY <1>2, Blank DEF Abandoned, Holding
<1>3. QED
  BY <1>1, <1>2

\* A step that makes the load or a query go, or nothing of it, and the tab forget its
\* user, or not.
LEMMA LettingGo ==
    ASSUME ConstantsAssumption, Base,
           UNCHANGED <<serverVars, cookie, auth>>,
           tab' \in TabType, cache' \subseteq Users, load' \in Flow, read' \in Flow, write' \in Flow,
           \/ load' = load
           \/ load'.stage = "idle"
           \/ load'.stage = "abandoned" /\ Holding /\ load'.reply = load.reply,
           \/ tab'.user = tab.user /\ read' = read
           \/ tab'.user \in {tab.user, NoUser} /\ read'.stage = "idle",
           tab'.place \in {tab.place, "login"} \/ MayLeave,
           write'.stage = "served" /\ write'.reply.status = 200 => write'.user # NoUser
    PROVE  Kept
<1>1. UNCHANGED <<session, issued, tokens, cookie, auth>>
  BY DEF serverVars
<1>2. Who' = Who
  BY <1>1, WhoKept
<1>3. Rows' /\ Held'
  BY <1>1 DEF Base, Rows, Held
<1>4. Given'
  BY <1>1, Blank DEF Base, Given, Holding, Held, MayLeave
<1>5. ASSUME SessionInv
      PROVE  Links' /\ Welcome'
  <2>1. Over' = Over
    BY <1>1 DEF Over
  <2>2. Holding' => Holding /\ load'.reply = load.reply
    BY DEF Holding
  <2>3. tab'.user # NoUser => About(tab.user)'
    BY <1>1, <1>2, <1>5 DEF SessionInv, Links, About
  <2>4. load'.stage \in {"me", "csrf"} /\ load'.user # NoUser => About(load.user)'
    BY <1>1, <1>2, <1>5 DEF SessionInv, Links, About
  <2>5. read'.stage = "served" /\ read'.user # NoUser => tab'.user = read'.user
    BY <1>5 DEF SessionInv, Links
  <2>6. Links'
    BY <1>1, <1>2, <1>5, <2>1, <2>2, <2>3, <2>4, <2>5 DEF SessionInv, Links
  <2>7. Welcome'
    BY <1>1, <1>5 DEF SessionInv, Welcome
  <2>8. QED
    BY <2>6, <2>7
<1>6. QED
  BY <1>3, <1>4, <1>5 DEF Kept, Base, SessionInv

LEMMA TabWith ==
    ASSUME ConstantsAssumption, tab \in TabType
    PROVE  /\ \A x \in {"gate", "login"} : /\ [tab EXCEPT !.place = x] \in TabType
                                           /\ [tab EXCEPT !.place = x].place = x
                                           /\ [tab EXCEPT !.place = x].user = tab.user
           /\ \A x \in Tokens : /\ [tab EXCEPT !.token = x] \in TabType
                                /\ [tab EXCEPT !.token = x].place = tab.place
                                /\ [tab EXCEPT !.token = x].user = tab.user
           /\ \A u \in Anybody : [user |-> u, token |-> 0, place |-> "login"] \in TabType
BY DEF TabType, ConstantsAssumption, Tokens, Anybody

LEMMA Expires ==
    ASSUME ConstantsAssumption, Base, NEW u \in {NoUser, tab.user}, Expired(u)
    PROVE  /\ tab' \in TabType /\ tab'.place = "login"
           /\ tab'.user \in {NoUser, tab.user}
           /\ cache' \subseteq Users
           /\ tab'.user # tab.user => cache' = {}
           /\ cache' = {} \/ cache' = cache
<1>1. CASE tab.user # NoUser
  <2>1. u \in Anybody
    BY DEF Base, Held, TabType, Anybody
  <2>2. QED
    BY <1>1, <2>1, TabWith DEF Expired, Base, Held
<1>2. CASE tab.user = NoUser
  BY <1>2, TabWith DEF Expired, Base, Held
<1>3. QED
  BY <1>1, <1>2

LEMMA ExpiresBeside ==
    ASSUME ConstantsAssumption, Base, ExpiredBeside
    PROVE  /\ tab' \in TabType /\ tab'.place = "login"
           /\ tab'.user \in {NoUser, tab.user}
           /\ cache' \subseteq Users
           /\ tab'.user # tab.user => cache' = {}
           /\ cache' = {} \/ cache' = cache
           /\ load' = Abandoned(load) /\ load' \in Flow
           /\ \/ load' = Idle /\ load'.stage = "idle"
              \/ load'.stage = "abandoned" /\ Holding /\ load'.reply = load.reply
           /\ read' = Idle /\ read' \in Flow /\ read'.stage = "idle"
<1> DEFINE u == IF load.stage \in {"me", "csrf"} THEN tab.user ELSE NoUser
<1>1. u \in {NoUser, tab.user} /\ Expired(u) /\ load' = Abandoned(load) /\ read' = Idle
  BY DEF ExpiredBeside, CancelQueries
<1> HIDE DEF u
<1>2. load' \in Flow /\ (\/ load' = Idle /\ load'.stage = "idle"
                         \/ load'.stage = "abandoned" /\ Holding /\ load'.reply = load.reply)
  BY <1>1, Abandons DEF Base, Held
<1>3. QED
  BY <1>1, <1>2, Expires, Blank

LEMMA GoLoginKeeps == ASSUME ConstantsAssumption, Base, GoLogin PROVE Kept
<1>1. /\ tab' \in TabType /\ tab'.user = tab.user /\ tab'.place = "login"
      /\ load' = Abandoned(load) /\ read' = Idle
      /\ UNCHANGED <<serverVars, cookie, cache, auth, write>>
  BY TabWith DEF GoLogin, CancelQueries, Base, Held
<1>2. /\ load' \in Flow
      /\ load'.stage = "idle" \/ (load'.stage = "abandoned" /\ Holding /\ load'.reply = load.reply)
  BY <1>1, Abandons DEF Base, Held
<1>3. QED
  BY <1>1, <1>2, Blank, LettingGo DEF Base, Held, Given

LEMMA GoBackKeeps == ASSUME ConstantsAssumption, Base, GoBack PROVE Kept
<1>1. /\ tab' \in TabType /\ tab'.user = tab.user /\ MayLeave
      /\ UNCHANGED <<serverVars, cookie, cache, load, auth, read, write>>
  BY TabWith DEF GoBack, Base, Held
<1>2. QED
  BY <1>1, LettingGo DEF Base, Held, Given

LEMMA LoadRefusedKeeps == ASSUME ConstantsAssumption, Base, LoadRefused PROVE Kept
<1>1. /\ Expired(NoUser) /\ load' = Idle /\ read' = Idle
      /\ UNCHANGED <<serverVars, cookie, auth, write>>
  BY DEF LoadRefused
<1>2. QED
  BY <1>1, Expires, Blank, LettingGo DEF Base, Held, Given

LEMMA LoadLostKeeps == ASSUME ConstantsAssumption, Base, LoadLost PROVE Kept
<1>1. load' = Idle /\ UNCHANGED <<serverVars, cookie, tabVars, auth, read, write>>
  BY DEF LoadLost
<1>2. UNCHANGED <<tab, cache>>
  BY <1>1 DEF tabVars
<1>3. QED
  BY <1>1, <1>2, Blank, LettingGo DEF Base, Held, Given

LEMMA ReadDoneKeeps == ASSUME ConstantsAssumption, Base, ReadDone PROVE Kept
<1>1. UNCHANGED <<serverVars, cookie, auth, write>>
  BY DEF ReadDone
<1>2. CASE /\ read.user # NoUser
           /\ cache' = cache \cup {read.user}
           /\ read' = Idle
           /\ UNCHANGED <<tab, load>>
  <2>1. cache' \subseteq Users
    BY <1>2 DEF Base, Held, Flow, Anybody
  <2>2. QED
    BY <1>1, <1>2, <2>1, Blank, LettingGo DEF Base, Held, Given
<1>3. CASE ExpiredBeside
  BY <1>1, <1>3, ExpiresBeside, LettingGo DEF Base, Held, Given
<1>4. QED
  BY <1>2, <1>3 DEF ReadDone

LEMMA WriteKeeps == ASSUME ConstantsAssumption, Base, Write PROVE Kept
<1>1. UNCHANGED <<serverVars, cookie, tab, cache, load, auth, read>>
  BY DEF Write, tabVars
<1>2. write' \in Flow /\ write'.stage = "sent"
  <2>1. /\ tab.user \in Anybody /\ cookie \in 0..MaxSessions /\ tab.token \in Tokens
        /\ "sent" \in Stages /\ "write" \in Kinds
    BY DEF Base, Held, TabType, Stages, Kinds
  <2>2. write' = [Idle EXCEPT !.stage = "sent", !.kind = "write", !.user = tab.user,
                              !.cookie = cookie, !.token = tab.token]
    BY DEF Write
  <2>3. NoReply \in Reply /\ Idle \in Flow
    BY Blank
  <2>4. write' \in Flow
    BY <2>1, <2>2, <2>3, Flows
  <2>5. write'.stage = "sent"
    BY <2>2 DEF Idle
  <2>6. QED
    BY <2>4, <2>5
<1>3. QED
  BY <1>1, <1>2, LettingGo DEF Base, Held

LEMMA ServeWriteKeeps == ASSUME ConstantsAssumption, Base, ServeWrite PROVE Kept
<1> DEFINE v == CommandVerdict(write.cookie, write.token)
           u == SignedIn(write.cookie)
           r == [NoReply EXCEPT !.status = v]
<1>1. UNCHANGED <<serverVars, cookie, tab, cache, load, auth, read>>
  BY DEF ServeWrite, tabVars
<1>2. v \in Statuses /\ (v = 200 => u # NoUser)
  BY Verdicts
<1>3. u \in Anybody
  BY DEF Base, Held, Rows, Flow, SignedIn, Live, Sessions, Row, Anybody, ConstantsAssumption
<1>4. write' = [write EXCEPT !.stage = "served", !.user = u, !.reply = r]
  BY DEF ServeWrite
<1> HIDE DEF v, u
<1>5. r \in Reply /\ r.status = v
  BY <1>2, Blank, ReplyWith DEF Reply
<1> HIDE DEF r
<1>6. write' \in Flow
  <2>1. "served" \in Stages /\ 0 \in Tokens /\ "none" \in Kinds /\ 0 \in 0..MaxSessions
    BY DEF Stages, Tokens, Kinds, ConstantsAssumption
  <2>2. write \in Flow
    BY DEF Base, Held
  <2>3. [write EXCEPT !.stage = "served", !.user = u, !.reply = r] \in Flow
    BY <1>3, <1>5, <2>1, <2>2, Flows
  <2>4. QED
    BY <1>4, <2>3
<1>7. write'.user = u /\ write'.reply = r
  BY <1>4 DEF Base, Held, Flow
<1>8. QED
  BY <1>1, <1>2, <1>5, <1>6, <1>7, LettingGo DEF Base, Held

LEMMA WriteDoneKeeps == ASSUME ConstantsAssumption, Base, WriteDone PROVE Kept
<1>1. write' = Idle /\ write.stage = "served" /\ UNCHANGED <<serverVars, cookie, auth>>
  BY DEF WriteDone
<1>2. CASE write.reply.status = 200
  <2>1. cache' = cache \cup {write.user} /\ UNCHANGED <<tab, load, read>>
    BY <1>2 DEF WriteDone
  <2>2. cache' \subseteq Users
    BY <1>1, <1>2, <2>1 DEF Base, Held, Given, Flow, Anybody
  <2>3. QED
    BY <1>1, <2>1, <2>2, Blank, LettingGo DEF Base, Held, Given
<1>3. CASE write.reply.status = 401 /\ tab.user # NoUser
  <2>1. ExpiredBeside
    BY <1>3 DEF WriteDone
  <2>2. QED
    BY <1>1, <2>1, ExpiresBeside, Blank, LettingGo DEF Base, Held, Given
<1>4. CASE write.reply.status # 200 /\ ~(write.reply.status = 401 /\ tab.user # NoUser)
  <2>1. UNCHANGED <<tab, cache, load, read>>
    BY <1>4 DEF WriteDone, tabVars
  <2>2. QED
    BY <1>1, <2>1, Blank, LettingGo DEF Base, Held, Given
<1>5. QED
  BY <1>2, <1>3, <1>4

LEMMA AuthEnds ==
    ASSUME ConstantsAssumption, Base, auth' = Idle,
           UNCHANGED <<serverVars, cookie, tab, cache, load, read, write>>
    PROVE  Kept
<1>1. UNCHANGED <<session, issued, tokens>> /\ Who' = Who
  BY WhoKept DEF serverVars
<1>2. auth'.stage = "idle" /\ auth' \in Flow
  BY Blank
<1>3. Base'
  BY <1>1, <1>2 DEF Base, Rows, Held, Given, Holding
<1>4. SessionInv => Links' /\ Welcome'
  BY <1>1, <1>2 DEF SessionInv, Links, Holding, Over, About, Welcome
<1>5. QED
  BY <1>3, <1>4 DEF Kept, Base, SessionInv

LEMMA AuthFailedKeeps == ASSUME ConstantsAssumption, Base, AuthFailed \/ AuthLost PROVE Kept
<1>1. auth' = Idle /\ UNCHANGED <<serverVars, cookie, tabVars, load, read, write>>
  BY DEF AuthFailed, AuthLost
<1>2. QED
  BY <1>1, AuthEnds DEF tabVars

-----------------------------------------------------------------------------
(* The invariant is kept: requests that begin, and tokens.                  *)

\* Whoever the browser signs in is whom all the rest is about.
LEMMA OfCookie == ASSUME SessionInv, Who[cookie] # NoUser PROVE About(Who[cookie])
BY DEF SessionInv, Links, About

LEMMA LoadMeKeeps == ASSUME ConstantsAssumption, Base, LoadMe PROVE Kept
<1>1. /\ UNCHANGED <<session, issued, tokens, cookie, tab, cache, auth, read, write>>
      /\ Who' = Who
  BY WhoKept DEF LoadMe, serverVars, tabVars
<1>2. load' \in Flow /\ load'.stage = "me" /\ load'.user = Who[cookie]
  <2>1. /\ SignedIn(cookie) \in Anybody /\ SignedIn(cookie) = Who[cookie]
        /\ "me" \in Stages /\ "load" \in Kinds /\ 0 \in Tokens /\ 0 \in 0..MaxSessions
    BY WhoTyped DEF Base, Held, Stages, Kinds, Tokens, ConstantsAssumption
  <2>2. load' = [Idle EXCEPT !.stage = "me", !.kind = "load", !.user = SignedIn(cookie)]
    BY DEF LoadMe
  <2>3. Idle \in Flow /\ NoReply \in Reply
    BY Blank
  <2>4. load' \in Flow
    BY <2>1, <2>2, <2>3, Flows
  <2>5. QED
    BY <2>1, <2>2, <2>4 DEF Idle
<1>3. Base'
  BY <1>1, <1>2 DEF Base, Rows, Held, Given, Holding
<1>4. ASSUME SessionInv
      PROVE  Links' /\ Welcome'
  <2>1. load'.user # NoUser => About(load.user)'
    BY <1>1, <1>2, <1>4, OfCookie DEF About
  <2>2. QED
    BY <1>1, <1>2, <1>4, <2>1 DEF SessionInv, Links, Holding, Over, About, Welcome
<1>5. QED
  BY <1>3, <1>4 DEF Kept, Base, SessionInv

LEMMA ReadKeeps == ASSUME ConstantsAssumption, Base, Read PROVE Kept
<1>1. /\ UNCHANGED <<session, issued, tokens, cookie, tab, cache, load, auth, write>>
      /\ Who' = Who
  BY WhoKept DEF Read, serverVars, tabVars
<1>2. read' \in Flow /\ read'.user = Who[cookie]
  <2>1. /\ SignedIn(cookie) \in Anybody /\ SignedIn(cookie) = Who[cookie]
        /\ "served" \in Stages /\ "read" \in Kinds /\ 0 \in Tokens /\ 0 \in 0..MaxSessions
    BY WhoTyped DEF Base, Held, Stages, Kinds, Tokens, ConstantsAssumption
  <2>2. read' = [Idle EXCEPT !.stage = "served", !.kind = "read", !.user = SignedIn(cookie)]
    BY DEF Read
  <2>3. Idle \in Flow /\ NoReply \in Reply
    BY Blank
  <2>4. read' \in Flow
    BY <2>1, <2>2, <2>3, Flows
  <2>5. QED
    BY <2>1, <2>2, <2>4 DEF Idle
<1>3. Base'
  BY <1>1, <1>2 DEF Base, Rows, Held, Given, Holding
<1>4. ASSUME SessionInv
      PROVE  Links' /\ Welcome'
  <2>1. read'.user # NoUser => tab'.user = read'.user
    BY <1>1, <1>2, <1>4 DEF SessionInv, Links, About, Read, Working
  <2>2. QED
    BY <1>1, <1>2, <1>4, <2>1 DEF SessionInv, Links, Holding, Over, About, Welcome
<1>5. QED
  BY <1>3, <1>4 DEF Kept, Base, SessionInv

\* The session of a login that has been served is not the one the browser names.
LEMMA WelcomeKept ==
    ASSUME ConstantsAssumption, SessionInv, auth' = auth,
           \A s \in Sessions : s <= issued /\ s # cookie => session'[s] = session[s]
    PROVE  Welcome'
<1> SUFFICES ASSUME auth.stage = "post", auth.kind = "login", auth.reply.status = 200
             PROVE  session'[auth.reply.cookie] = session[auth.reply.cookie]
  BY DEF SessionInv, Welcome
<1> DEFINE c == auth.reply.cookie
<1>1. c \in Sessions /\ c <= issued /\ auth.user \in Users
  BY DEF SessionInv, Held, Given, Welcome, Flow, Reply, Sessions, ConstantsAssumption
<1>2. session[c].live = TRUE /\ session[c].user = auth.user
  BY DEF SessionInv, Welcome
<1>3. Who[c] # NoUser
  BY <1>1, <1>2, WhoIs DEF SessionInv, Rows, ConstantsAssumption
<1>4. Who[cookie] = NoUser
  BY DEF SessionInv, Links, Over
<1>5. QED
  BY <1>1, <1>3, <1>4

\* What a new token leaves as it was.
LEMMA CsrfKeeps ==
    ASSUME ConstantsAssumption, Base, ServeCsrf
    PROVE  /\ Rows' /\ issued \in Nat /\ issued' \in Nat /\ issued <= issued'
           /\ Who'[cookie] = Who[cookie]
           /\ Holding => Who'[load.reply.cookie] = Who[load.reply.cookie]
           /\ auth.stage = "csrf" => Who'[auth.reply.cookie] = Who[auth.reply.cookie]
           /\ SessionInv /\ auth' = auth => Welcome'
           /\ CsrfReply \in Reply /\ CsrfReply.cookie \in Nat /\ CsrfReply.cookie <= issued'
           /\ Who'[CsrfReply.cookie] = NoUser
           /\ CsrfReply.cookie = 0 \/ Who[cookie] = NoUser
<1>1. Rows /\ cookie \in 0..MaxSessions /\ cookie <= issued
  BY DEF Base, Held, Given
<1>2. /\ Holding => load.reply.cookie \in 0..issued
      /\ auth.stage = "csrf" => auth.reply.cookie \in 0..issued
      /\ cookie \in 0..issued /\ issued \in Nat
  BY DEF Base, Rows, Held, Given, Flow, Reply, ConstantsAssumption
<1>3. issued' \in Nat /\ CsrfReply.cookie \in Nat
  BY <1>1, Csrf DEF Rows, Reply, ConstantsAssumption
<1>4. SessionInv /\ auth' = auth => Welcome'
  BY <1>1, Csrf, WelcomeKept
<1>5. QED
  BY <1>1, <1>2, <1>3, <1>4, Csrf

LEMMA RotateKeeps == ASSUME ConstantsAssumption, Base, Rotate PROVE Kept
<1>1. ServeCsrf /\ UNCHANGED <<cookie, tab, cache, load, auth, read, write>>
  BY DEF Rotate, tabVars
<1>2. Rows' /\ Held'
  BY <1>1, CsrfKeeps DEF Base, Held
<1>3. Given'
  BY <1>1, CsrfKeeps DEF Base, Given, Held, Holding, Flow, Reply, ConstantsAssumption
<1>4. SessionInv => Links' /\ Welcome'
  BY <1>1, CsrfKeeps DEF SessionInv, Links, Holding, Over, About
<1>5. QED
  BY <1>2, <1>3, <1>4 DEF Kept, Base, SessionInv

LEMMA LoadCsrfKeeps == ASSUME ConstantsAssumption, Base, LoadCsrf PROVE Kept
<1>1. /\ ServeCsrf /\ UNCHANGED <<cookie, tab, cache, auth, read, write>>
      /\ load.stage = "me" /\ load.user # NoUser
  BY DEF LoadCsrf, tabVars
<1>2. load' \in Flow /\ load'.stage = "csrf" /\ load'.user = load.user
      /\ load'.reply = CsrfReply
  <2>1. load' = [load EXCEPT !.stage = "csrf", !.reply = CsrfReply] /\ load \in Flow
    BY DEF LoadCsrf, Base, Held
  <2>2. CsrfReply \in Reply
    BY <1>1, CsrfKeeps
  <2>3. load' \in Flow
    <3>1. /\ "csrf" \in Stages /\ "none" \in Kinds /\ NoUser \in Anybody /\ 0 \in Tokens
          /\ 0 \in 0..MaxSessions
      BY DEF Stages, Kinds, Anybody, Tokens, ConstantsAssumption
    <3>2. QED
      BY <2>1, <2>2, <3>1, Flows
  <2>4. QED
    BY <2>1, <2>3 DEF Flow
<1>3. Rows' /\ Held'
  BY <1>1, <1>2, CsrfKeeps DEF Base, Held
<1>4. Given'
  BY <1>1, <1>2, CsrfKeeps DEF Base, Given, Held, Holding, Flow, Reply, ConstantsAssumption
<1>5. SessionInv => Links' /\ Welcome'
  BY <1>1, <1>2, CsrfKeeps DEF SessionInv, Links, Holding, Over, About
<1>6. QED
  BY <1>3, <1>4, <1>5 DEF Kept, Base, SessionInv

LEMMA AuthCsrfKeeps ==
    ASSUME ConstantsAssumption, Base, NEW k \in {"login", "logout"}, NEW u \in Anybody,
           AuthCsrf(k, u), k = "login" => u \in Users
    PROVE  Kept
<1>1. /\ ServeCsrf /\ UNCHANGED <<cookie, tab, cache, load, read, write>>
      /\ auth = Idle /\ (k = "login" => tab.place = "login")
  BY DEF AuthCsrf, tabVars
<1>2. auth' \in Flow /\ auth'.stage = "csrf" /\ auth'.kind = k /\ auth'.user = u
      /\ auth'.reply = CsrfReply
  <2>1. auth' = [Idle EXCEPT !.stage = "csrf", !.kind = k, !.user = u, !.reply = CsrfReply]
    BY DEF AuthCsrf
  <2>2. CsrfReply \in Reply
    BY <1>1, CsrfKeeps
  <2>3. auth' \in Flow
    <3>1. /\ "csrf" \in Stages /\ k \in Kinds /\ 0 \in Tokens /\ 0 \in 0..MaxSessions
      BY DEF Stages, Kinds, Tokens, ConstantsAssumption
    <3>2. Idle \in Flow
      BY Blank
    <3>3. QED
      BY <2>1, <2>2, <3>1, <3>2, Flows
  <2>4. QED
    BY <2>1, <2>3 DEF Idle
<1>3. Rows' /\ Held'
  BY <1>1, <1>2, CsrfKeeps DEF Base, Held
<1>4. Given'
  BY <1>1, <1>2, CsrfKeeps DEF Base, Given, Held, Holding, Flow, Reply, ConstantsAssumption
<1>5. SessionInv => Links' /\ Welcome'
  BY <1>1, <1>2, CsrfKeeps DEF SessionInv, Links, Holding, Over, About, Welcome
<1>6. QED
  BY <1>3, <1>4, <1>5 DEF Kept, Base, SessionInv

-----------------------------------------------------------------------------
(* The invariant is kept: cookies arrive, sessions begin and end.           *)

LEMMA LoadDoneKeeps == ASSUME ConstantsAssumption, Base, LoadDone PROVE Kept
<1>1. /\ UNCHANGED <<session, issued, tokens, cache, auth, read, write>>
      /\ Who' = Who /\ Holding
      /\ cookie' \in {cookie, load.reply.cookie} /\ load' = Idle
  BY WhoKept DEF LoadDone, serverVars, Holding, CookieOf
<1>2. /\ tab' \in TabType /\ tab'.place = tab.place
      /\ tab'.user = IF load.stage = "csrf" THEN load.user ELSE tab.user
  <2> DEFINE u == IF load.stage = "csrf" THEN load.user ELSE tab.user
             t == [tab EXCEPT !.token = load.reply.token]
  <2>1. tab' = [t EXCEPT !.user = u]
    BY Zenon DEF LoadDone
  <2>2. load.reply.token \in Tokens /\ u \in Anybody
    BY DEF Base, Held, TabType, Flow, Reply
  <2>3. t \in TabType /\ t.place = tab.place
    BY <2>2, TabWith DEF Base, Held
  <2> HIDE DEF u, t
  <2>4. tab' \in TabType /\ tab'.place = tab.place /\ tab'.user = u
    BY <2>1, <2>2, <2>3 DEF TabType
  <2>5. QED
    BY <2>4 DEF u
<1>3. load' \in Flow /\ load'.stage = "idle"
  BY <1>1, Blank
<1>4. Rows' /\ Held'
  BY <1>1, <1>2, <1>3 DEF Base, Rows, Held, Flow, Reply
<1>5. Given'
  BY <1>1, <1>2, <1>3 DEF Base, Given, Holding
<1>6. ASSUME SessionInv
      PROVE  Links' /\ Welcome'
  <2>1. cookie' = cookie \/ Who[cookie'] = NoUser
    BY <1>1, <1>6 DEF SessionInv, Links
  <2>2. tab'.user # NoUser => About(tab'.user)
    BY <1>2, <1>1, <1>6 DEF SessionInv, Links, About, Given
  <2>3. tab'.user # NoUser => About(tab.user)'
    BY <1>1, <2>1, <2>2 DEF About
  <2>4. read'.stage = "served" /\ read'.user # NoUser => tab'.user = read'.user
    BY <1>1, <1>2, <1>6 DEF SessionInv, Links, About, Given
  <2>5. Links'
    BY <1>1, <1>3, <1>6, <2>1, <2>3, <2>4 DEF SessionInv, Links, Holding, Over
  <2>6. Welcome'
    BY <1>1, <1>6 DEF SessionInv, Welcome
  <2>7. QED
    BY <2>5, <2>6
<1>7. QED
  BY <1>4, <1>5, <1>6 DEF Kept, Base, SessionInv

LEMMA AuthTokenKeeps == ASSUME ConstantsAssumption, Base, AuthToken PROVE Kept
<1>1. /\ UNCHANGED <<session, issued, tokens, cache, load, read, write>>
      /\ Who' = Who
      /\ auth.stage = "csrf" /\ cookie' \in {cookie, auth.reply.cookie}
  BY WhoKept DEF AuthToken, serverVars, CookieOf
<1>2. auth' \in Flow /\ auth'.stage = "sent" /\ auth'.kind = auth.kind /\ auth'.user = auth.user
  <2>1. /\ auth' = [auth EXCEPT !.stage = "sent", !.token = auth.reply.token, !.reply = NoReply]
        /\ auth \in Flow
    BY DEF AuthToken, Base, Held
  <2>2. auth.reply.token \in Tokens /\ NoReply \in Reply
    BY <2>1, Blank DEF Flow, Reply
  <2>3. auth' \in Flow
    <3>1. /\ "sent" \in Stages /\ "none" \in Kinds /\ NoUser \in Anybody /\ 0 \in 0..MaxSessions
      BY DEF Stages, Kinds, Anybody, ConstantsAssumption
    <3>2. QED
      BY <2>1, <2>2, <3>1, Flows
  <2>4. QED
    BY <2>1, <2>3 DEF Flow
<1>3. tab' \in TabType /\ tab'.user = tab.user /\ tab'.place = tab.place
  BY TabWith DEF AuthToken, Base, Held, Flow, Reply
<1>4. Rows' /\ Held'
  BY <1>1, <1>2, <1>3 DEF Base, Rows, Held, Flow, Reply
<1>5. Given'
  BY <1>1, <1>2, <1>3 DEF Base, Given, Holding
<1>6. SessionInv => Links' /\ Welcome'
  BY <1>1, <1>2, <1>3 DEF SessionInv, Links, Holding, Over, About, Welcome
<1>7. QED
  BY <1>4, <1>5, <1>6 DEF Kept, Base, SessionInv

\* Ending the session of the cookie, whatever the browser names then.
LEMMA EndedKeeps ==
    ASSUME ConstantsAssumption, Base, cookie \in Sessions,
           session' = [session EXCEPT ![cookie].live = FALSE],
           UNCHANGED <<issued, tokens, tab, cache, load, auth, read, write>>,
           cookie' \in {0, cookie}
    PROVE  Base'
<1>1. Rows'
  BY Ended DEF Base
<1>2. Held' /\ Given'
  BY DEF Base, Rows, Held, Given, Holding, ConstantsAssumption
<1>3. QED
  BY <1>1, <1>2 DEF Base

LEMMA RevokeKeeps == ASSUME ConstantsAssumption, Base, Revoke PROVE Kept
<1>1. /\ session' = [session EXCEPT ![cookie].live = FALSE] /\ cookie # 0
      /\ UNCHANGED <<issued, tokens, cookie, tab, cache, load, auth, read, write>>
  BY DEF Revoke, Live, tabVars
<1>2. cookie \in Sessions
  BY <1>1 DEF Base, Held, Sessions, ConstantsAssumption
<1>3. /\ \A s \in 0..issued : Who'[s] = IF s = cookie THEN NoUser ELSE Who[s]
      /\ \A s \in Sessions : s # cookie => session'[s] = session[s]
  BY <1>1, <1>2, Ended DEF Base
<1>4. Base'
  BY <1>1, <1>2, EndedKeeps
<1>5. /\ Who'[cookie] = NoUser
      /\ Holding => Who'[load.reply.cookie] \in {NoUser, Who[load.reply.cookie]}
      /\ auth.stage = "csrf" => Who'[auth.reply.cookie] \in {NoUser, Who[auth.reply.cookie]}
  <2>1. /\ cookie \in 0..issued
        /\ Holding => load.reply.cookie \in 0..issued
        /\ auth.stage = "csrf" => auth.reply.cookie \in 0..issued
    BY DEF Base, Rows, Held, Given, Flow, Reply, ConstantsAssumption
  <2>2. QED
    BY <1>3, <2>1
<1>6. SessionInv => Links'
  BY <1>1, <1>5 DEF SessionInv, Links, Holding, Over, About
<1>7. SessionInv => Welcome'
  BY <1>1, <1>3, WelcomeKept
<1>8. QED
  BY <1>4, <1>6, <1>7 DEF Kept, Base, SessionInv

LEMMA AuthPostKeeps == ASSUME ConstantsAssumption, Base, AuthPost PROVE Kept
<1> DEFINE r == IF auth.kind = "login" THEN LoginReply(auth.user, auth.token)
                                       ELSE LogoutReply(auth.token)
<1>1. /\ auth.stage = "sent" /\ auth.kind \in {"login", "logout"}
      /\ auth.kind = "login" => ServeLogin(auth.user, auth.token)
      /\ auth.kind = "logout" => ServeLogout(auth.token)
      /\ auth' = [auth EXCEPT !.stage = "post", !.reply = r]
      /\ UNCHANGED <<cookie, tab, cache, load, read, write>>
  BY DEF AuthPost, tabVars
<1>2. /\ Rows /\ cookie \in 0..MaxSessions /\ cookie <= issued
      /\ auth.token \in Tokens /\ auth \in Flow
      /\ auth.kind = "login" => auth.user \in Users
      /\ auth.kind = "login" => tab.place = "login" \/ "leave" \in Happens
  BY <1>1 DEF Base, Held, Given, Flow
<1>3. /\ Rows' /\ issued <= issued' /\ r \in Reply /\ r.cookie <= issued'
      /\ \/ UNCHANGED serverVars
         \/ \A s \in 0..issued : Who'[s] = IF s = cookie THEN NoUser ELSE Who[s]
      /\ r.status = 200 => \A s \in 0..issued : Who'[s] = IF s = cookie THEN NoUser ELSE Who[s]
      /\ auth.kind = "logout" /\ r.status = 401 => UNCHANGED serverVars /\ Who[cookie] = NoUser
      /\ auth.kind = "login" /\ r.status = 200 =>
             /\ r.cookie # 0 /\ r.user = auth.user
             /\ session'[r.cookie] = [user |-> auth.user, live |-> TRUE, token |-> r.token]
  <2>1. CASE auth.kind = "login"
    <3>1. ServeLogin(auth.user, auth.token) /\ r = LoginReply(auth.user, auth.token)
          /\ auth.user \in Users
      BY <1>1, <1>2, <2>1
    <3> HIDE DEF r
    <3>2. QED
      BY <1>2, <2>1, <3>1, Login
  <2>2. CASE auth.kind = "logout"
    <3>1. ServeLogout(auth.token) /\ r = LogoutReply(auth.token)
      BY <1>1, <2>2
    <3> HIDE DEF r
    <3>2. r.cookie = 0 /\ issued' = issued /\ issued \in Nat /\ Rows' /\ r \in Reply
      BY <1>2, <3>1, Logout DEF Rows, ConstantsAssumption
    <3>3. r.cookie <= issued'
      BY <3>2
    <3>4. QED
      BY <1>2, <2>2, <3>1, <3>2, <3>3, Logout
  <2>3. QED
    BY <1>1, <2>1, <2>2
<1> HIDE DEF r
<1>4. /\ auth' \in Flow /\ auth'.stage = "post" /\ auth'.reply = r
      /\ auth'.kind = auth.kind /\ auth'.user = auth.user
  <2>1. auth' \in Flow
    <3>1. /\ "post" \in Stages /\ "none" \in Kinds /\ NoUser \in Anybody /\ 0 \in 0..MaxSessions
          /\ 0 \in Tokens
      BY DEF Stages, Kinds, Anybody, Tokens, ConstantsAssumption
    <3>2. QED
      BY <1>1, <1>2, <1>3, <3>1, Flows
  <2>2. QED
    BY <1>1, <1>2, <2>1 DEF Flow
<1>5. Held'
  BY <1>1, <1>3, <1>4 DEF Base, Held
<1>6. Given'
  <2>1. issued \in Nat /\ issued' \in Nat
    BY <1>2, <1>3 DEF Rows, ConstantsAssumption
  <2>2. cookie \in Nat /\ (Holding => load.reply.cookie \in Nat)
    BY <1>2 DEF Base, Held, Flow, Reply, ConstantsAssumption
  <2>3. QED
    BY <1>1, <1>2, <1>3, <1>4, <2>1, <2>2 DEF Base, Given, Holding
<1>7. /\ Who'[cookie] \in {NoUser, Who[cookie]}
      /\ Holding => Who'[load.reply.cookie] \in {NoUser, Who[load.reply.cookie]}
      /\ Over' => Who'[cookie] = NoUser
  <2>1. /\ cookie \in 0..issued
        /\ Holding => load.reply.cookie \in 0..issued
    BY DEF Base, Rows, Held, Given, Flow, Reply, ConstantsAssumption
  <2>2. UNCHANGED serverVars => Who' = Who
    BY WhoKept DEF serverVars
  <2>3. Over' => r.status = 200 \/ (auth.kind = "logout" /\ r.status = 401)
    BY <1>4 DEF Over
  <2>4. QED
    BY <1>3, <2>1, <2>2, <2>3
<1>8. SessionInv => Links'
  BY <1>1, <1>4, <1>7 DEF SessionInv, Links, Holding, About
<1>9. Welcome'
  BY <1>3, <1>4 DEF Welcome
<1>10. QED
  BY <1>3, <1>5, <1>6, <1>8, <1>9 DEF Kept, Base, SessionInv

LEMMA LoginDoneKeeps == ASSUME ConstantsAssumption, Base, LoginDone PROVE Kept
<1>1. /\ auth.stage = "post" /\ auth.kind = "login" /\ auth.reply.status = 200
      /\ UNCHANGED <<session, issued, tokens, write>> /\ Who' = Who
      /\ cookie' = auth.reply.cookie /\ load' = Abandoned(load) /\ read' = Idle /\ auth' = Idle
      /\ cache' = {}
      /\ tab' = [user |-> auth.reply.user, token |-> auth.reply.token, place |-> "gate"]
  BY WhoKept DEF LoginDone, serverVars, CancelQueries, Cleared
<1>2. /\ load' \in Flow
      /\ load'.stage = "idle" \/ (load'.stage = "abandoned" /\ Holding /\ load'.reply = load.reply)
  BY <1>1, Abandons DEF Base, Held
<1>3. tab' \in TabType /\ auth.user \in Users
  BY <1>1 DEF Base, Held, Given, TabType, Flow, Reply
<1>4. read' \in Flow /\ auth' \in Flow /\ read'.stage = "idle" /\ auth'.stage = "idle"
  BY <1>1, Blank
<1>5. Base'
  BY <1>1, <1>2, <1>3, <1>4 DEF Base, Rows, Held, Given, Holding, Flow, Reply
<1>6. ASSUME SessionInv
      PROVE  Links' /\ Welcome'
  <2>1. Who[cookie] = NoUser
    BY <1>1, <1>6 DEF SessionInv, Links, Over
  <2>2. cookie' \in Sessions
    BY <1>1, <1>6 DEF SessionInv, Held, Welcome, Flow, Reply, Sessions, ConstantsAssumption
  <2>3. session[cookie'].live = TRUE /\ session[cookie'].user = auth.user /\ tab'.user = auth.user
    BY <1>1, <1>6 DEF SessionInv, Welcome
  <2>4. Who[cookie'] = auth.user
    BY <2>2, <2>3, WhoIs DEF Base, Rows
  <2>5. Holding => Who[load.reply.cookie] = NoUser
    BY <1>6 DEF SessionInv, Links
  <2>6. Links'
    BY <1>1, <1>2, <1>3, <1>4, <2>3, <2>4, <2>5 DEF Links, Holding, Over, About
  <2>7. QED
    BY <1>4, <2>6 DEF Welcome
<1>7. QED
  BY <1>5, <1>6 DEF Kept, Base, SessionInv

LEMMA LogoutDoneKeeps == ASSUME ConstantsAssumption, Base, LogoutDone PROVE Kept
<1>1. /\ auth.stage = "post" /\ Over
      /\ UNCHANGED <<session, issued, tokens, write>> /\ Who' = Who
      /\ cookie' \in {0, cookie} /\ load' = Abandoned(load) /\ read' = Idle /\ auth' = Idle
      /\ cache' = {}
      /\ tab' = [user |-> NoUser, token |-> 0, place |-> "login"]
  BY WhoKept DEF LogoutDone, serverVars, CancelQueries, Cleared, Over
<1>2. /\ load' \in Flow
      /\ load'.stage = "idle" \/ (load'.stage = "abandoned" /\ Holding /\ load'.reply = load.reply)
  BY <1>1, Abandons DEF Base, Held
<1>3. tab' \in TabType /\ tab'.user = NoUser
  BY <1>1, TabWith DEF Base, Held, Anybody
<1>4. read' \in Flow /\ auth' \in Flow /\ read'.stage = "idle" /\ auth'.stage = "idle"
  BY <1>1, Blank
<1>5. Base'
  <2>1. cookie' \in 0..MaxSessions /\ cookie' <= issued
    BY <1>1 DEF Base, Rows, Held, Given, ConstantsAssumption
  <2>2. QED
    BY <1>1, <1>2, <1>3, <1>4, <2>1 DEF Base, Rows, Held, Given, Holding
<1>6. SessionInv => Links' /\ Welcome'
  BY <1>1, <1>2, <1>3, <1>4 DEF SessionInv, Links, Holding, Over, Welcome
<1>7. QED
  BY <1>5, <1>6 DEF Kept, Base, SessionInv

-----------------------------------------------------------------------------
(* Another tab logs in or out.                                              *)

LEMMA ElsewhereKeeps ==
    ASSUME ConstantsAssumption, Base, NEW u \in Users, Elsewhere(u) PROVE Base'
<1> DEFINE t == issued + 1
           new == [user |-> u, live |-> TRUE, token |-> tokens + 1]
<1>1. /\ UNCHANGED <<tab, cache, load, auth, read, write>>
      /\ tokens' = tokens + 1 /\ issued' = t /\ cookie' = t
      /\ tokens < MaxTokens /\ issued < MaxSessions
  BY DEF Elsewhere, tabVars
<1>2. t \in Sessions /\ tokens' \in Tokens /\ issued \in Nat /\ tokens \in Nat
  BY <1>1 DEF Base, Rows, Sessions, Tokens, ConstantsAssumption
<1>3. new \in Row /\ new.token = tokens + 1
  BY <1>1, <1>2 DEF Row, Anybody
<1> HIDE DEF new
<1>4. session' = [s \in Sessions |->
          CASE s = t -> new
            [] s = cookie -> [session[s] EXCEPT !.live = FALSE]
            [] OTHER -> session[s]]
  BY DEF Elsewhere, new
<1>5. \A s \in Sessions :
          /\ session'[s] \in Row
          /\ s = t => session'[s] = new
          /\ s # t => /\ session'[s].token = session[s].token
                      /\ session'[s].live => session[s].live
  <2> SUFFICES ASSUME NEW s \in Sessions
               PROVE  /\ session'[s] \in Row
                      /\ s = t => session'[s] = new
                      /\ s # t => /\ session'[s].token = session[s].token
                                  /\ session'[s].live => session[s].live
    OBVIOUS
  <2>1. session[s] \in Row
    BY DEF Base, Rows
  <2>2. CASE s = t
    <3>1. s # cookie
      BY <1>2, <2>2 DEF Base, Held, Given, ConstantsAssumption
    <3>2. session'[s] = new
      BY <2>2, <3>1, <1>4
    <3>3. QED
      BY <2>2, <3>2, <1>3
  <2>3. CASE s # t /\ s = cookie
    <3>1. session'[s] = [session[s] EXCEPT !.live = FALSE]
      BY <2>3, <1>4
    <3>2. QED
      BY <2>1, <2>3, <3>1 DEF Row
  <2>4. CASE s # t /\ s # cookie
    BY <2>1, <2>4, <1>4
  <2>5. QED
    BY <2>2, <2>3, <2>4
<1>6. Rows'
  <2>1. session' \in [Sessions -> Row]
    BY <1>4, <1>5
  <2>2. \A s \in Sessions : session[s].token \in Nat /\ session[s].token <= tokens
    BY DEF Base, Rows, Row, Tokens, ConstantsAssumption
  <2>3. \A s \in Sessions : session'[s].token <= tokens'
    BY <1>1, <1>2, <1>3, <1>5, <2>2
  <2>4. ASSUME NEW r \in Sessions, NEW s \in Sessions,
               session'[r].token = session'[s].token, r # s
        PROVE  ~session'[r].live
    <3>1. r # t /\ s # t
      BY <1>2, <1>3, <1>5, <2>2, <2>4
    <3>2. ~session[r].live
      BY <1>5, <2>4, <3>1 DEF Base, Rows
    <3>3. QED
      BY <1>5, <3>1, <3>2
  <2>5. issued' \in 0..MaxSessions
    BY <1>1, <1>2 DEF Sessions, ConstantsAssumption
  <2>6. QED
    BY <1>2, <2>1, <2>3, <2>4, <2>5 DEF Rows
<1>7. Held'
  BY <1>1, <1>2 DEF Base, Held, Sessions
<1>8. Given'
  BY <1>1, <1>2 DEF Base, Held, Given, Holding, Flow, Reply, Sessions, ConstantsAssumption
<1>9. QED
  BY <1>6, <1>7, <1>8 DEF Base

LEMMA ElsewhereOutKeeps == ASSUME ConstantsAssumption, Base, ElsewhereOut PROVE Base'
<1>1. cookie \in Sessions
  BY DEF ElsewhereOut, SignedIn, Live, Base, Held, Sessions, ConstantsAssumption
<1>2. QED
  BY <1>1, EndedKeeps DEF ElsewhereOut, tabVars

LEMMA SessionInit == ConstantsAssumption /\ Init => SessionInv /\ TabInv
<1> SUFFICES ASSUME ConstantsAssumption, Init
             PROVE  SessionInv
  BY DEF SessionInv, TabInv, Base
<1>1. Rows
  BY DEF Init, Rows, Row, Anybody, Tokens, Sessions, ConstantsAssumption
<1>2. Held
  BY Blank DEF Init, Held, TabType, Anybody, Tokens, ConstantsAssumption
<1>3. Given /\ Links /\ Welcome
  BY Blank DEF Init, Given, Links, Welcome, Holding, Over
<1>4. QED
  BY <1>1, <1>2, <1>3 DEF SessionInv

\* Every step but another tab's login or logout.
LEMMA OwnSteps ==
    ASSUME ConstantsAssumption, Base, [Next]_vars,
           ~ElsewhereOut, ~\E u \in Users : Elsewhere(u)
    PROVE  Kept
<1>1. CASE GoLogin \/ GoBack \/ LoadMe \/ LoadCsrf \/ LoadRefused \/ LoadDone \/ LoadLost
  BY <1>1, GoLoginKeeps, GoBackKeeps, LoadMeKeeps, LoadCsrfKeeps, LoadRefusedKeeps,
      LoadDoneKeeps, LoadLostKeeps
<1>2. ASSUME NEW u \in Users, AuthCsrf("login", u)
      PROVE  Kept
  BY <1>2, AuthCsrfKeeps DEF Anybody
<1>3. CASE AuthCsrf("logout", NoUser)
  BY <1>3, AuthCsrfKeeps DEF Anybody
<1>4. CASE AuthToken \/ AuthPost \/ LoginDone \/ LogoutDone \/ AuthFailed \/ AuthLost
  BY <1>4, AuthTokenKeeps, AuthPostKeeps, LoginDoneKeeps, LogoutDoneKeeps, AuthFailedKeeps
<1>5. CASE Read \/ ReadDone \/ Write \/ ServeWrite \/ WriteDone \/ Rotate \/ Revoke
  BY <1>5, ReadKeeps, ReadDoneKeeps, WriteKeeps, ServeWriteKeeps, WriteDoneKeeps,
      RotateKeeps, RevokeKeeps
<1>6. CASE UNCHANGED vars
  <2>1. /\ UNCHANGED <<session, issued, tokens, cookie, tab, cache, load, auth, read, write>>
        /\ Who' = Who
    BY <1>6, WhoKept DEF vars, serverVars, tabVars
  <2>2. Base'
    BY <2>1 DEF Base, Rows, Held, Given, Holding
  <2>3. SessionInv => Links' /\ Welcome'
    BY <2>1 DEF SessionInv, Links, Holding, Over, About, Welcome
  <2>4. QED
    BY <2>2, <2>3 DEF Kept, Base, SessionInv
<1>7. QED
  BY <1>1, <1>2, <1>3, <1>4, <1>5, <1>6 DEF Next

LEMMA SessionNext ==
    ASSUME ConstantsAssumption, "elsewhere" \notin Happens, SessionInv, [Next]_vars
    PROVE  SessionInv'
<1>1. ~ElsewhereOut /\ ~\E u \in Users : Elsewhere(u)
  BY DEF ElsewhereOut, Elsewhere
<1>2. Base
  BY DEF SessionInv, Base
<1>3. QED
  BY <1>1, <1>2, OwnSteps DEF Kept

LEMMA TabNext == ASSUME ConstantsAssumption, TabInv, [Next]_vars PROVE TabInv'
<1>1. Base'
  <2>1. CASE ElsewhereOut \/ \E u \in Users : Elsewhere(u)
    BY <2>1, ElsewhereKeeps, ElsewhereOutKeeps DEF TabInv
  <2>2. CASE ~ElsewhereOut /\ ~\E u \in Users : Elsewhere(u)
    BY <2>2, OwnSteps DEF TabInv, Kept
  <2>3. QED
    BY <2>1, <2>2
<1>2. "elsewhere" \notin Happens => SessionInv'
  BY SessionNext DEF TabInv
<1>3. QED
  BY <1>1, <1>2 DEF TabInv

-----------------------------------------------------------------------------
(* A login that has succeeded.                                              *)

LEMMA LoginStep ==
    ASSUME ConstantsAssumption, SessionInv, [Next]_vars, Happens \cap {"leave", "elsewhere"} = {}
    PROVE  LoginFits
<1> SUFFICES ASSUME auth.stage = "post", auth.kind = "login",
                    auth'.stage = "idle", tab'.place = "gate"
             PROVE  /\ session[cookie'].live
                    /\ session[cookie'].user = tab'.user
                    /\ session[cookie'].token = tab'.token
  BY DEF LoginFits
<1>1. auth' # auth /\ tab.place = "login"
  BY DEF SessionInv, Given
<1>2. ~(UNCHANGED <<tab, cache>> /\ auth' = Idle)
  BY <1>1
<1>3. ~ElsewhereOut /\ ~\E u \in Users : Elsewhere(u)
  BY DEF ElsewhereOut, Elsewhere
<1>4. LoginDone
  BY <1>1, <1>2, <1>3 DEF Next, vars, tabVars, GoLogin, GoBack, LoadMe, LoadCsrf, LoadRefused,
      LoadDone, LoadLost, AuthCsrf, AuthToken, AuthPost, LogoutDone, AuthFailed, AuthLost,
      Read, ReadDone, Write, ServeWrite, WriteDone, Rotate, Revoke
<1>5. /\ auth.reply.status = 200 /\ cookie' = auth.reply.cookie
      /\ tab' = [user |-> auth.reply.user, token |-> auth.reply.token, place |-> "gate"]
  BY <1>4 DEF LoginDone
<1>6. /\ session[auth.reply.cookie] =
             [user |-> auth.user, live |-> TRUE, token |-> auth.reply.token]
      /\ auth.reply.user = auth.user
  BY <1>5 DEF SessionInv, Welcome
<1>7. QED
  BY <1>5, <1>6

-----------------------------------------------------------------------------
(* Whose data the cache holds.                                              *)

\* What a step does to the cache, and to whom the tab shows.
Discreet ==
    \/ cache' = {}
    \/ cache' = cache /\ (tab'.user = tab.user \/ (tab'.user # NoUser /\ auth' = auth))

LEMMA CacheSteps ==
    ASSUME ConstantsAssumption, Base, [Next]_vars, ~ReadDone, ~WriteDone
    PROVE  Discreet
<1>1. tab \in TabType /\ auth \in Flow /\ load \in Flow
  BY DEF Base, Held
<1>2. CASE GoLogin \/ GoBack
  BY <1>1, <1>2, TabWith DEF GoLogin, GoBack, Discreet
<1>3. CASE LoadRefused
  BY <1>3, Expires DEF LoadRefused, Discreet
<1>4. CASE LoadDone
  <2>1. cache' = cache /\ auth' = auth
    BY <1>4 DEF LoadDone
  <2>2. tab'.user = IF load.stage = "csrf" THEN load.user ELSE tab.user
    BY <1>1, <1>4 DEF LoadDone, TabType
  <2>3. load.stage = "csrf" => load.user # NoUser
    BY DEF Base, Given
  <2>4. QED
    BY <2>1, <2>2, <2>3 DEF Discreet
<1>5. CASE LoginDone \/ LogoutDone
  BY <1>5 DEF LoginDone, LogoutDone, Cleared, Discreet
<1>6. CASE AuthToken
  BY <1>1, <1>6, TabWith DEF AuthToken, Flow, Reply, Discreet
<1>7. CASE UNCHANGED <<tab, cache>>
  BY <1>7 DEF Discreet
<1>8. QED
  BY <1>2, <1>3, <1>4, <1>5, <1>6, <1>7 DEF Next, vars, tabVars, LoadMe, LoadCsrf,
      LoadLost, AuthCsrf, AuthPost, AuthFailed, AuthLost, Read, Write, ServeWrite,
      Rotate, Revoke, Elsewhere, ElsewhereOut

\* Where a load speaks of the user the tab shows, if it shows one, the cache gains
\* no stranger.
LEMMA NoStranger ==
    ASSUME ConstantsAssumption, SessionInv, [Next]_vars, ~ReadDone, ~WriteDone
    PROVE  Strangers' \subseteq Strangers
<1>1. Base /\ tab \in TabType
  BY DEF SessionInv, Base, Held
<1>2. CASE cache' = {} \/ (cache' = cache /\ tab'.user = tab.user)
  BY <1>2 DEF Strangers
<1>3. CASE LoadDone
  <2>1. cache' = cache
    BY <1>3 DEF LoadDone
  <2>2. tab'.user = IF load.stage = "csrf" THEN load.user ELSE tab.user
    BY <1>1, <1>3 DEF LoadDone, TabType
  <2>3. load.stage = "csrf" => tab.user \in {NoUser, load.user}
    BY DEF SessionInv, Given, Links, About
  <2>4. cache \subseteq Users /\ NoUser \notin Users
    BY DEF SessionInv, Held, ConstantsAssumption
  <2>5. QED
    BY <2>1, <2>2, <2>3, <2>4 DEF Strangers
<1>4. CASE ~LoadDone
  <2>1. CASE LoadRefused
    BY <1>1, <1>2, <2>1, Expires DEF LoadRefused
  <2>2. CASE GoLogin \/ GoBack
    BY <1>1, <1>2, <2>2, TabWith DEF GoLogin, GoBack
  <2>3. CASE LoginDone \/ LogoutDone
    BY <1>2, <2>3 DEF LoginDone, LogoutDone, Cleared
  <2>4. CASE AuthToken
    BY <1>1, <1>2, <2>4, TabWith DEF AuthToken, SessionInv, Held, Flow, Reply
  <2>5. CASE UNCHANGED <<tab, cache>>
    BY <1>2, <2>5
  <2>6. QED
    BY <1>4, <2>1, <2>2, <2>3, <2>4, <2>5 DEF Next, vars, tabVars, LoadMe, LoadCsrf,
        LoadLost, AuthCsrf, AuthPost, AuthFailed, AuthLost, Read, Write, ServeWrite,
        Rotate, Revoke, Elsewhere, ElsewhereOut
<1>5. QED
  BY <1>3, <1>4

LEMMA PrivateStep == ASSUME ConstantsAssumption, TabInv, [Next]_vars PROVE StrangersByWrite
<1>1. Base /\ ("elsewhere" \notin Happens => SessionInv) /\ cache \subseteq Users
  BY DEF TabInv, Base, Held
<1>2. CASE ReadDone
  <2>1. CASE ExpiredBeside
    BY <1>1, <2>1, ExpiresBeside DEF StrangersByWrite, Strangers
  <2>2. CASE ~ExpiredBeside
    <3>1. read.user # NoUser /\ cache' = cache \cup {read.user} /\ UNCHANGED <<tab, auth>>
          /\ read.stage = "served"
      BY <1>2, <2>2 DEF ReadDone
    <3>2. SessionInv => tab.user = read.user
      BY <3>1 DEF SessionInv, Links
    <3>3. QED
      BY <1>1, <3>1, <3>2 DEF StrangersByWrite, Strangers
  <2>3. QED
    BY <2>1, <2>2
<1>3. CASE WriteDone
  <2>1. write.stage = "served" /\ write' = Idle
    BY <1>3 DEF WriteDone
  <2>2. CASE write.reply.status = 200
    <3>1. cache' = cache \cup {write.user} /\ UNCHANGED <<tab, auth>>
      BY <1>3, <2>2 DEF WriteDone
    <3>2. Written = {write.user}
      BY <2>1, <2>2 DEF Written
    <3>3. QED
      BY <3>1, <3>2 DEF StrangersByWrite, Strangers
  <2>3. CASE ExpiredBeside
    BY <1>1, <2>3, ExpiresBeside DEF StrangersByWrite, Strangers
  <2>4. CASE UNCHANGED <<tab, cache>>
    BY <2>4 DEF StrangersByWrite, Strangers
  <2>5. QED
    BY <1>3, <2>2, <2>3, <2>4 DEF WriteDone, tabVars
<1>4. CASE ~ReadDone /\ ~WriteDone
  <2>1. (auth' # auth \/ tab'.user = NoUser) /\ tab'.user # tab.user => cache' = {}
    BY <1>1, <1>4, CacheSteps DEF Discreet
  <2>2. SessionInv => Strangers' \subseteq Strangers
    BY <1>4, NoStranger
  <2>3. QED
    BY <1>1, <2>1, <2>2 DEF StrangersByWrite
<1>5. QED
  BY <1>2, <1>3, <1>4

-----------------------------------------------------------------------------
(* Nothing lost or late and nobody else at work: tab and server agree.      *)

Calm == Happens \cap {"lost", "late", "revoke", "leave", "elsewhere"} = {}

LEMMA UndisturbedInit == Init => Undisturbed
BY DEF Init, Undisturbed, Idle

\* Steps that leave who is signed in alone, and the login or logout under way.
LEMMA CalmSteps ==
    ASSUME ConstantsAssumption, SessionInv, Undisturbed,
           auth' = auth, Who'[cookie'] = Who[cookie],
           tab'.user = NoUser \/ tab'.user = tab.user,
           \/ load' = load
           \/ load' = Idle
           \/ load'.stage = "abandoned" /\ Holding /\ load'.reply = load.reply,
           Holding => Who'[load.reply.cookie] = Who[load.reply.cookie],
           tab'.place = "login" =>
               \/ tab.place = "login" /\ load' = load
               \/ load'.stage \in {"idle", "abandoned"},
           auth.stage = "idle" \/ auth.kind # "login" \/ load' \in {load, Idle}
    PROVE  Undisturbed'
<1>1. Over' = Over
  BY DEF Over
<1>2. Idle.stage = "idle"
  BY Blank
<1>3. QED
  BY <1>1, <1>2 DEF Undisturbed, Holding

LEMMA UndisturbedLocal ==
    ASSUME ConstantsAssumption, SessionInv, Undisturbed, Calm,
           \/ GoLogin \/ GoBack \/ LoadRefused \/ ReadDone \/ Read \/ Write \/ ServeWrite
           \/ WriteDone \/ UNCHANGED vars
    PROVE  Undisturbed'
<1>1. UNCHANGED <<session, cookie, auth>> /\ Who' = Who
  BY WhoKept DEF GoLogin, GoBack, LoadRefused, ReadDone, Read, Write, ServeWrite, WriteDone,
      vars, serverVars
<1>2. tab \in TabType /\ load \in Flow /\ Base
  BY DEF SessionInv, Held, Base
<1>3. Idle.stage = "idle"
  BY Blank
<1>4. CASE Read \/ Write \/ ServeWrite \/ UNCHANGED vars
  <2>1. tab' = tab /\ load' = load
    BY <1>4 DEF Read, Write, ServeWrite, vars, tabVars
  <2>2. QED
    BY <1>1, <2>1 DEF Undisturbed, Over
<1>5. CASE GoBack
  <2>1. tab'.user = tab.user /\ tab'.place = "gate" /\ load' = load
    BY <1>2, <1>5, TabWith DEF GoBack
  <2>2. QED
    BY <1>1, <2>1, CalmSteps
<1>6. CASE GoLogin
  <2>1. tab'.user = tab.user /\ load' = Abandoned(load) /\ auth = Idle
    BY <1>2, <1>6, TabWith DEF GoLogin, CancelQueries, MayLeave, Calm
  <2>2. load' = Idle \/ (load'.stage = "abandoned" /\ Holding /\ load'.reply = load.reply)
    BY <1>2, <2>1, Abandons
  <2>3. QED
    BY <1>1, <1>3, <2>1, <2>2, CalmSteps
<1>7. CASE LoadRefused
  <2>1. tab'.user = NoUser /\ load' = Idle
    BY <1>2, <1>7, Expires DEF LoadRefused, Expired
  <2>2. QED
    BY <1>1, <1>3, <2>1, CalmSteps
<1>8. CASE ReadDone \/ WriteDone
  <2>1. CASE UNCHANGED <<tab, load>>
    BY <1>1, <2>1 DEF Undisturbed, Over
  <2>2. CASE ExpiredBeside
    <3>1. tab'.user \in {NoUser, tab.user} /\ load' = Abandoned(load)
      BY <1>2, <2>2, ExpiresBeside
    <3>2. load' = Idle \/ (load'.stage = "abandoned" /\ Holding /\ load'.reply = load.reply)
      BY <1>2, <2>2, ExpiresBeside
    <3>3. auth.stage = "idle" \/ auth.kind # "login" \/ load' = Idle
      <4>1. auth.stage # "idle" /\ auth.kind = "login" => load.stage = "idle"
        BY DEF Undisturbed
      <4>2. load.stage = "idle" => load' = Idle
        BY <1>3, <3>1 DEF Abandoned
      <4>3. QED
        BY <4>1, <4>2
    <3>4. QED
      BY <1>1, <1>3, <3>1, <3>2, <3>3, CalmSteps
  <2>3. QED
    BY <1>8, <2>1, <2>2 DEF ReadDone, WriteDone, tabVars
<1>9. QED
  BY <1>4, <1>5, <1>6, <1>7, <1>8

LEMMA UndisturbedServed ==
    ASSUME ConstantsAssumption, SessionInv, Undisturbed, Calm,
           \/ LoadMe \/ LoadCsrf \/ Rotate \/ AuthCsrf("logout", NoUser)
           \/ \E u \in Users : AuthCsrf("login", u)
    PROVE  Undisturbed'
<1>1. tab' = tab /\ cookie' = cookie
  BY DEF LoadMe, LoadCsrf, Rotate, AuthCsrf, tabVars
<1>2. load \in Flow /\ auth \in Flow /\ Base /\ "leave" \notin Happens
  BY DEF SessionInv, Held, Base, Calm
<1>3. CASE LoadMe
  <2>1. auth' = auth /\ Who' = Who /\ tab.place = "gate" /\ load = Idle
    BY <1>3, WhoKept DEF LoadMe, serverVars
  <2>2. load'.stage = "me" /\ load'.user = Who[cookie]
    BY <1>2, <1>3, WhoTyped DEF LoadMe, Idle
  <2>3. auth.stage # "idle" => auth.kind # "login"
    BY <1>2, <2>1 DEF SessionInv, Given
  <2>4. QED
    BY <1>1, <2>1, <2>2, <2>3 DEF Undisturbed, Over
<1>4. CASE LoadCsrf
  <2>1. auth' = auth /\ ServeCsrf /\ load.stage = "me" /\ load.user # NoUser
    BY <1>4 DEF LoadCsrf
  <2>2. load'.stage = "csrf" /\ load'.reply = CsrfReply
    <3>1. load' = [load EXCEPT !.stage = "csrf", !.reply = CsrfReply]
      BY <1>4 DEF LoadCsrf
    <3>2. QED
      BY <1>2, <3>1 DEF Flow
  <2>3. Who'[cookie] = Who[cookie] /\ (Who[cookie] # NoUser => CsrfReply.cookie = 0)
    BY <1>2, <2>1, CsrfKeeps
  <2>4. tab.place # "login"
    BY <2>1 DEF Undisturbed
  <2>5. auth.stage # "idle" => auth.kind # "login"
    BY <1>2, <2>4 DEF SessionInv, Given
  <2>6. QED
    BY <1>1, <2>1, <2>2, <2>3, <2>4, <2>5 DEF Undisturbed, Over
<1>5. CASE Rotate
  <2>1. auth' = auth /\ load' = load /\ ServeCsrf
    BY <1>5 DEF Rotate
  <2>2. Who'[cookie] = Who[cookie] /\ (Holding => Who'[load.reply.cookie] = Who[load.reply.cookie])
    BY <1>2, <2>1, CsrfKeeps
  <2>3. QED
    BY <1>1, <2>1, <2>2 DEF Undisturbed, Over, Holding
<1>6. CASE AuthCsrf("logout", NoUser) \/ \E u \in Users : AuthCsrf("login", u)
  <2>1. PICK k \in {"login", "logout"}, u \in Anybody : AuthCsrf(k, u)
    BY <1>6 DEF Anybody
  <2>2. load' = load /\ ServeCsrf /\ auth = Idle /\ (k = "login" => tab.place = "login") /\ Settled
    BY <2>1 DEF AuthCsrf
  <2>3. Who'[cookie] = Who[cookie] /\ (Holding => Who'[load.reply.cookie] = Who[load.reply.cookie])
    BY <1>2, <2>2, CsrfKeeps
  <2>4. auth'.stage = "csrf" /\ auth'.kind = k
    BY <2>1 DEF AuthCsrf, Idle
  <2>5. ~Over /\ ~Over'
    BY <2>2, <2>4, Blank DEF Over
  <2>6. load.stage # "abandoned"
    BY <2>2 DEF Settled, Calm
  <2>7. QED
    BY <1>1, <2>2, <2>3, <2>4, <2>5, <2>6 DEF Undisturbed, Holding
<1>7. QED
  BY <1>3, <1>4, <1>5, <1>6

LEMMA UndisturbedAuth ==
    ASSUME ConstantsAssumption, SessionInv, Undisturbed, Calm,
           \/ LoadDone \/ LoadLost \/ AuthToken \/ AuthPost \/ LoginDone \/ LogoutDone
           \/ AuthFailed \/ AuthLost \/ Revoke
    PROVE  Undisturbed'
<1>1. load \in Flow /\ auth \in Flow /\ tab \in TabType /\ Idle.stage = "idle"
  BY Blank DEF SessionInv, Held
<1>2. ~LoadLost /\ ~AuthLost /\ ~Revoke
  BY DEF Calm, LoadLost, AuthLost, Revoke
<1>3. CASE LoadDone
  <2>1. /\ auth' = auth /\ Who' = Who /\ cookie' = CookieOf(load.reply) /\ load' = Idle /\ Holding
        /\ tab'.user = IF load.stage = "csrf" THEN load.user ELSE tab.user
    BY <1>1, <1>3, WhoKept DEF LoadDone, serverVars, Holding, TabType
  <2>2. Over' = Over
    BY <2>1 DEF Over
  <2>3. tab'.user # NoUser /\ ~Over => Who[cookie] # NoUser /\ load.reply.cookie = 0
    BY <2>1 DEF Undisturbed, Holding
  <2>4. tab'.user # NoUser /\ ~Over => Who[cookie'] # NoUser
    BY <2>1, <2>3 DEF CookieOf
  <2>5. auth.stage # "idle" /\ auth.kind = "login" => load'.stage = "idle"
    BY <1>1, <2>1
  <2>6. QED
    BY <1>1, <2>1, <2>2, <2>4, <2>5 DEF Undisturbed
<1>4. CASE AuthToken
  <2>1. /\ Who' = Who /\ load' = load /\ auth.stage = "csrf" /\ cookie' = CookieOf(auth.reply)
        /\ tab'.user = tab.user /\ tab'.place = tab.place
    BY <1>1, <1>4, TabWith, WhoKept DEF AuthToken, serverVars, Flow, Reply
  <2>2. auth'.stage = "sent" /\ auth'.kind = auth.kind
    BY <1>1, <1>4 DEF AuthToken, Flow
  <2>3. ~Over /\ ~Over'
    BY <2>1, <2>2 DEF Over
  <2>4. Who[cookie] # NoUser => cookie' = cookie
    BY <2>1 DEF SessionInv, Links, CookieOf
  <2>5. QED
    BY <2>1, <2>2, <2>3, <2>4 DEF Undisturbed
<1>5. CASE AuthPost
  <2>1. /\ UNCHANGED <<cookie, tab, load>> /\ auth.stage = "sent"
    BY <1>5 DEF AuthPost, tabVars
  <2>2. auth'.stage = "post" /\ auth'.kind = auth.kind
    BY <1>1, <1>5 DEF AuthPost, Flow
  <2>3. CASE Over'
    BY <2>1, <2>2, <2>3 DEF Undisturbed
  <2>4. CASE ~Over'
    <3>1. UNCHANGED session
      <4>1. CASE auth.kind = "login" /\ Verdict(cookie, auth.token) = 200
        <5>1. auth' = [auth EXCEPT !.stage = "post", !.reply = LoginReply(auth.user, auth.token)]
          BY <1>5, <4>1 DEF AuthPost
        <5>2. LoginReply(auth.user, auth.token).status = 200
          BY <4>1 DEF LoginReply
        <5>3. auth'.reply.status = 200
          BY <1>1, <5>1, <5>2 DEF Flow
        <5>4. QED
          BY <2>2, <2>4, <5>3 DEF Over
      <4>2. CASE auth.kind = "logout" /\ CommandVerdict(cookie, auth.token) = 200
        <5>1. auth' = [auth EXCEPT !.stage = "post", !.reply = LogoutReply(auth.token)]
          BY <1>5, <4>2 DEF AuthPost
        <5>2. LogoutReply(auth.token).status = 200
          BY <4>2 DEF LogoutReply, NoReply
        <5>3. auth'.reply.status = 200
          BY <1>1, <5>1, <5>2 DEF Flow
        <5>4. QED
          BY <2>2, <2>4, <5>3 DEF Over
      <4>3. QED
        BY <1>5, <4>1, <4>2 DEF AuthPost, ServeLogin, ServeLogout, serverVars
    <3>2. Who' = Who /\ ~Over
      BY <2>1, <3>1, WhoKept DEF Over
    <3>3. QED
      BY <2>1, <2>2, <2>4, <3>2 DEF Undisturbed
  <2>5. QED
    BY <2>3, <2>4
<1>6. CASE LoginDone
  <2>1. /\ auth.stage = "post" /\ auth.kind = "login" /\ auth.reply.status = 200
        /\ UNCHANGED session /\ cookie' = auth.reply.cookie /\ load' = Abandoned(load) /\ auth' = Idle
        /\ tab'.place = "gate"
    BY <1>6 DEF LoginDone, serverVars, CancelQueries
  <2>2. load' = Idle
    BY <1>1, <2>1 DEF Undisturbed, Abandoned
  <2>3. Who'[cookie'] # NoUser
    <3>1. cookie' \in Sessions /\ auth.user # NoUser
      BY <2>1 DEF SessionInv, Held, Given, Welcome, Flow, Reply, Sessions, ConstantsAssumption
    <3>2. session[cookie'].live = TRUE /\ session[cookie'].user = auth.user
      BY <2>1 DEF SessionInv, Welcome
    <3>3. Who[cookie'] = auth.user
      BY <3>1, <3>2, WhoIs DEF SessionInv, Rows
    <3>4. QED
      BY <2>1, <3>1, <3>3, WhoKept
  <2>4. QED
    BY <1>1, <2>1, <2>2, <2>3 DEF Undisturbed
<1>7. CASE LogoutDone
  <2>1. tab'.user = NoUser /\ load' = Abandoned(load) /\ auth' = Idle
    BY <1>7 DEF LogoutDone, CancelQueries
  <2>2. load'.stage \in {"idle", "abandoned"}
    BY <1>1, <2>1, Abandons
  <2>3. QED
    BY <1>1, <2>1, <2>2 DEF Undisturbed
<1>8. CASE AuthFailed
  <2>1. auth' = Idle /\ UNCHANGED <<session, cookie, tab, load>> /\ ~Over
    <3>1. auth.kind \in {"login", "logout"} /\ auth.stage = "post"
      BY <1>8 DEF AuthFailed, SessionInv, Given
    <3>2. QED
      BY <1>8, <3>1 DEF AuthFailed, Over, serverVars, tabVars
  <2>2. Who' = Who
    BY <2>1, WhoKept
  <2>3. QED
    BY <1>1, <2>1, <2>2 DEF Undisturbed, Over
<1>9. QED
  BY <1>2, <1>3, <1>4, <1>5, <1>6, <1>7, <1>8

LEMMA UndisturbedNext ==
    ASSUME ConstantsAssumption, SessionInv, Undisturbed, Calm, [Next]_vars
    PROVE  Undisturbed'
<1>1. ~ElsewhereOut /\ ~\E u \in Users : Elsewhere(u)
  BY DEF Calm, ElsewhereOut, Elsewhere
<1>2. QED
  BY <1>1, UndisturbedLocal, UndisturbedServed, UndisturbedAuth DEF Next

LEMMA Agree == ConstantsAssumption /\ SessionInv /\ Undisturbed => IdentityAgrees
<1> SUFFICES ASSUME ConstantsAssumption, SessionInv, Undisturbed, tab.user # NoUser,
                    auth.stage \in {"idle", "csrf", "sent"}
             PROVE  SignedIn(cookie) = tab.user
  BY DEF IdentityAgrees
<1>1. ~Over
  BY DEF Over
<1>2. Who[cookie] # NoUser /\ Who[cookie] \in {NoUser, tab.user}
  BY <1>1 DEF Undisturbed, SessionInv, Links, About
<1>3. QED
  BY <1>2, WhoTyped DEF SessionInv, Base

=============================================================================
