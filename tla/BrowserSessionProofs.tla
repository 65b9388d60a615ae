------------------------- MODULE BrowserSessionProofs -------------------------
(***************************************************************************)
(* The browser is one of the clients Sessions allows: what is proved of    *)
(* the server for any client holds behind the pages, for any number of     *)
(* tabs and calls. And nobody is signed out of a browser that nothing      *)
(* disturbs. And the tokens issued are bounded by what the user did.       *)
(***************************************************************************)
EXTENDS BrowserSession, SessionsProofs, FiniteSetTheorems

Session == [SessionsNext]_sessionVars

(* A request of a page is a request: it carries the token in the cookie    *)
(* jar, which was issued.                                                  *)
LEMMA AskSends ==
  ASSUME cookie \in 0..issued, issued \in Nat, NEW r \in Requests, NEW t, NEW why,
         NEW op \in {"login", "refresh", "logout"}, Ask(r, t, op, why)
  PROVE  Session
  <1>1. \E token \in 0..issued : Send(r, op, token) BY DEF Ask
  <1> QED BY <1>1 DEF Session, SessionsNext

(* The cookie jar holds a token that was issued.                           *)
JarOK == SessionsTypeOK /\ cookie \in 0..issued

(* What programs do of themselves is a step of the server, or none.        *)
LEMMA WorkIsSession ==
  ASSUME JarOK, NEW r \in Requests, Work(r) PROVE Session
  <1>1. CASE ServeRequest(r) BY <1>1 DEF ServeRequest, Session, SessionsNext
  <1>2. CASE GoodReply(r) BY <1>2 DEF GoodReply, Session, SessionsNext
  <1>3. CASE ErrorReply(r) BY <1>3 DEF ErrorReply, Session, SessionsNext
  <1> QED BY <1>1, <1>2, <1>3 DEF Work

(* Every step of the browser and its surroundings is a step of the         *)
(* sessions of the server, or none.                                        *)
LEMMA NextIsSession == JarOK /\ [Next]_vars => Session
  <1> SUFFICES ASSUME JarOK, [Next]_vars PROVE Session OBVIOUS
  <1>0. cookie \in 0..issued /\ issued \in Nat BY SessionsAssumption DEF JarOK, SessionsTypeOK
  <1>1. ASSUME NEW r \in Requests, NEW t \in Tabs, PageLoad(r, t) PROVE Session
    <2>1. \E token \in 0..issued : Send(r, "refresh", token) BY <1>0, <1>1 DEF PageLoad
    <2> QED BY <2>1 DEF Session, SessionsNext
  <1>2. ASSUME NEW r \in Requests, NEW t \in Tabs, LoginClick(r, t) PROVE Session
    BY <1>0, <1>2, AskSends DEF LoginClick
  <1>3. ASSUME NEW r \in Requests, NEW t \in Tabs, LogoutClick(r, t) PROVE Session
    BY <1>0, <1>3, AskSends DEF LogoutClick
  <1>4. ASSUME NEW t \in Tabs, NEW c \in Calls, CallApi(t, c) PROVE Session
    BY <1>4 DEF CallApi, Session
  <1>5. ASSUME NEW t \in Tabs, NEW c \in Calls, Intercept(t, c) PROVE Session
    <2>1. CASE Answered(t, c) \/ JoinRefresh(t, c) BY <2>1 DEF Answered, JoinRefresh, Session
    <2>2. ASSUME NEW r \in Requests, StartRefresh(r, t, c) PROVE Session
      BY <1>0, <2>2, AskSends DEF StartRefresh
    <2> QED BY <1>5, <2>1, <2>2 DEF Intercept
  <1>6. ASSUME NEW r \in Requests, NoReply(r) PROVE Session
    BY <1>6 DEF NoReply, Session, SessionsNext
  <1>7. ASSUME NEW t \in Tabs, AccessRunsOut(t) PROVE Session
    BY <1>7 DEF AccessRunsOut, Session
  <1>8. CASE TokenExpires
    <2>1. cookie \in Tokens BY <1>0, <1>8, SessionsAssumption DEF TokenExpires, JarOK, SessionsTypeOK, Tokens
    <2> QED BY <1>8, <2>1 DEF TokenExpires, Session, SessionsNext
  <1>9. CASE AccountDisabled BY <1>9 DEF AccountDisabled, Session, SessionsNext
  <1>10. CASE UNCHANGED vars BY <1>10 DEF vars, Session
  <1> QED BY <1>1, <1>2, <1>3, <1>4, <1>5, <1>6, <1>7, <1>8, <1>9, <1>10, WorkIsSession DEF Next

(***************************************************************************)
(* The token a reply brings was issued.                                    *)
(***************************************************************************)
NewIssued == \A r \in Requests : req[r].new \in 0..issued

(* One request moves, and its new token is an issued one.                  *)
LEMMA OneNew ==
  ASSUME SessionsTypeOK, NewIssued, NEW r \in Requests, issued' \in Nat, issued <= issued',
         \A q \in Requests : q # r => req'[q] = req[q], req'[r].new \in 0..issued'
  PROVE  NewIssued'
  <1> SUFFICES ASSUME NEW q \in Requests PROVE req'[q].new \in 0..issued' BY DEF NewIssued
  <1>1. issued \in Nat BY SessionsAssumption DEF SessionsTypeOK
  <1>2. req[q].new \in 0..issued BY DEF NewIssued
  <1>3. req[q].new \in 0..issued' BY <1>1, <1>2
  <1> QED BY <1>3

(* Every step of the server keeps it so, and numbers only grow.            *)
LEMMA ServerIssues ==
  ASSUME IInv, NewIssued, SessionsNext
  PROVE  NewIssued' /\ issued <= issued'
  <1>0. SessionsTypeOK /\ issued \in Nat /\ MaxToken \in Nat /\ req \in [Requests -> Request] /\ \A r \in Requests : req[r] \in Request
    BY SessionsAssumption DEF IInv, SessionsTypeOK
  <1>1. ASSUME NEW r \in Requests, issued' = issued, NEW v, req' = [req EXCEPT ![r] = v], v.new = req[r].new \/ v.new = 0
        PROVE  NewIssued' /\ issued <= issued'
    <2>1. req'[r].new \in 0..issued' BY <1>0, <1>1 DEF NewIssued
    <2> QED BY <1>0, <1>1, <2>1, OneNew
  <1>2. ASSUME NEW r \in Requests, Mint, NEW v, req' = [req EXCEPT ![r] = v], v.new = issued + 1
        PROVE  NewIssued' /\ issued <= issued'
    <2>1. issued' \in Nat /\ issued <= issued' /\ req'[r].new \in 0..issued' BY <1>0, <1>2 DEF Mint
    <2> QED BY <1>0, <1>2, <2>1, OneNew
  <1>3. \A r \in Requests : \A pc, says :
          [req[r] EXCEPT !.pc = pc].new = req[r].new /\ [req[r] EXCEPT !.pc = pc, !.says = says].new = req[r].new
    BY <1>0 DEF Request
  <1>4. \A r \in Requests : \A fam, new, kills, says :
          [req[r] EXCEPT !.pc = "ready", !.fam = fam, !.new = new, !.kills = kills, !.says = says].new = new
    BY <1>0 DEF Request
  <1>5. Idle.new = 0 /\ \A op, token : [Idle EXCEPT !.pc = "sent", !.op = op, !.token = token].new = 0 BY DEF Idle
  <1>6. ASSUME NEW r \in Requests, NEW says, Finish(r, says), issued' = issued PROVE NewIssued' /\ issued <= issued'
    <2> DEFINE v == [req[r] EXCEPT !.pc = "done", !.says = says]
    <2>1. req' = [req EXCEPT ![r] = v] BY <1>6 DEF Finish
    <2>2. v.new = req[r].new BY <1>3
    <2> HIDE DEF v
    <2> QED BY <1>1, <1>6, <2>1, <2>2
  <1>7. ASSUME NEW r \in Requests, NEW pc, Step(r, pc), issued' = issued PROVE NewIssued' /\ issued <= issued'
    <2>1. req' = [req EXCEPT ![r] = [req[r] EXCEPT !.pc = pc]] BY <1>7 DEF Step
    <2> QED BY <1>1, <1>3, <1>7, <2>1
  <1>8. ASSUME NEW r \in Requests, NEW fam, NEW kills, NEW says, Prepare(r, fam, 0, kills, says), issued' = issued
        PROVE  NewIssued' /\ issued <= issued'
    <2> DEFINE v == [req[r] EXCEPT !.pc = "ready", !.fam = fam, !.new = 0, !.kills = kills, !.says = says]
    <2>1. req' = [req EXCEPT ![r] = v] BY <1>8 DEF Prepare
    <2>2. v.new = 0 BY <1>4
    <2> HIDE DEF v
    <2> QED BY <1>1, <1>8, <2>1, <2>2
  <1>9. ASSUME NEW r \in Requests, NEW fam, NEW kills, NEW says, Prepare(r, fam, issued + 1, kills, says), Mint
        PROVE  NewIssued' /\ issued <= issued'
    <2> DEFINE v == [req[r] EXCEPT !.pc = "ready", !.fam = fam, !.new = issued + 1, !.kills = kills, !.says = says]
    <2>1. req' = [req EXCEPT ![r] = v] BY <1>9 DEF Prepare
    <2>2. v.new = issued + 1 BY <1>4
    <2> HIDE DEF v
    <2> QED BY <1>2, <1>9, <2>1, <2>2
  <1>10. ASSUME NEW r \in Requests, Serve(r) PROVE NewIssued' /\ issued <= issued'
    <2>1. CASE Login(r) BY <2>1, <1>6, <1>9 DEF Login
    <2>2. CASE RefreshInvalid(r) BY <2>2, <1>6 DEF RefreshInvalid, storeVars
    <2>3. CASE RefreshReused(r) BY <2>3, <1>8 DEF RefreshReused, Close, storeVars
    <2>4. CASE RefreshExpired(r) BY <2>4, <1>8 DEF RefreshExpired, storeVars
    <2>5. CASE RefreshRow(r) BY <2>5, <1>7 DEF RefreshRow, storeVars
    <2>6. CASE RefreshUser(r) BY <2>6, <1>6, <1>9 DEF RefreshUser
    <2>7. CASE Logout(r)
      <3>1. CASE Close(r, "left") BY <2>7, <3>1, <1>8 DEF Logout, Close, storeVars
      <3>2. CASE Finish(r, "left") BY <2>7, <3>2, <1>6 DEF Logout, storeVars
      <3> QED BY <2>7, <3>1, <3>2 DEF Logout
    <2>8. CASE Commit(r)
      <3>1. issued' = issued BY <2>8 DEF Commit
      <3>2. \E v \in {[req[r] EXCEPT !.pc = "done"], Idle} : req' = [req EXCEPT ![r] = v] BY <2>8 DEF Commit
      <3> QED BY <3>1, <3>2, <1>1, <1>3, <1>5
    <2>9. CASE RefreshLimited(r) BY <2>9, <1>6 DEF RefreshLimited, storeVars
    <2> QED BY <1>10, <2>1, <2>2, <2>3, <2>4, <2>5, <2>6, <2>7, <2>8, <2>9 DEF Serve
  <1>11. ASSUME NEW r \in Requests, NEW op, NEW token, Send(r, op, token) PROVE NewIssued' /\ issued <= issued'
    BY <1>11, <1>1, <1>5 DEF Send, storeVars
  <1>12. ASSUME NEW r \in Requests, Reply(r) \/ Die(r) PROVE NewIssued' /\ issued <= issued'
    BY <1>12, <1>1, <1>5 DEF Reply, Die, storeVars
  <1>13. ASSUME NEW r \in Requests, ReplyEarly(r) PROVE NewIssued' /\ issued <= issued'
    BY <1>13, <1>7 DEF ReplyEarly, storeVars
  <1>14. ASSUME UNCHANGED <<req, issued>> PROVE NewIssued' /\ issued <= issued'
    BY <1>0, <1>14 DEF NewIssued
  <1>15. CASE (\E k \in Tokens : Expire(k)) \/ \E value \in BOOLEAN : SetApproved(value)
    BY <1>14, <1>15 DEF Expire, SetApproved
  <1> QED BY <1>10, <1>11, <1>12, <1>13, <1>15 DEF SessionsNext

BInv == IInv /\ NewIssued /\ cookie \in 0..issued

(* The jar takes a token from a reply that grants one, nowhere else.       *)
LEMMA JarKeeps ==
  ASSUME BInv, [Next]_vars, issued \in Nat, issued' \in Nat, issued <= issued'
  PROVE  cookie' \in 0..issued'
  <1>1. cookie' = cookie \/ cookie' = 0 \/ \E r \in Requests : cookie' = req[r].new
    <2>1. ASSUME NEW r \in Requests, GoodReply(r) PROVE cookie' = cookie \/ cookie' = 0 \/ cookie' = req[r].new
      BY <2>1 DEF GoodReply
    <2>2. ASSUME NEW r \in Requests, Work(r) PROVE cookie' = cookie \/ cookie' = 0 \/ cookie' = req[r].new
      BY <2>1, <2>2 DEF Work, ServeRequest, ErrorReply
    <2>3. ASSUME NEW r \in Requests, NEW t \in Tabs, PageLoad(r, t) \/ LoginClick(r, t) \/ LogoutClick(r, t)
          PROVE  cookie' = cookie
      BY <2>3 DEF PageLoad, LoginClick, LogoutClick, Ask
    <2>4. ASSUME NEW t \in Tabs, NEW c \in Calls, CallApi(t, c) \/ Intercept(t, c) PROVE cookie' = cookie
      BY <2>4 DEF CallApi, Intercept, Answered, JoinRefresh, StartRefresh, Ask
    <2>5. CASE \/ (\E r \in Requests : NoReply(r)) \/ (\E t \in Tabs : AccessRunsOut(t))
               \/ TokenExpires \/ AccountDisabled \/ UNCHANGED vars
      BY <2>5 DEF NoReply, AccessRunsOut, TokenExpires, AccountDisabled, vars, browserVars
    <2> QED BY <2>2, <2>3, <2>4, <2>5 DEF Next
  <1>3. \A n \in 0..issued : n \in 0..issued' OBVIOUS
  <1>4. \A r \in Requests : req[r].new \in 0..issued BY DEF BInv, NewIssued
  <1>5. 0 \in 0..issued' OBVIOUS
  <1> QED BY <1>1, <1>3, <1>4, <1>5 DEF BInv

(* The server invariant and what the jar holds, together, are inductive.   *)
LEMMA BrowserStep == BInv /\ [Next]_vars => BInv' /\ Session
  <1> SUFFICES ASSUME BInv, [Next]_vars PROVE BInv' /\ Session OBVIOUS
  <1>1. Session BY NextIsSession DEF BInv, JarOK, IInv
  <1>2. IInv' BY <1>1, SessionsStep DEF BInv, Session
  <1>3. NewIssued' /\ issued <= issued'
    <2>1. CASE SessionsNext BY <2>1, ServerIssues DEF BInv
    <2>2. CASE UNCHANGED sessionVars
      <3>1. issued \in Nat BY SessionsAssumption DEF BInv, IInv, SessionsTypeOK
      <3>2. UNCHANGED <<req, issued>> BY <2>2 DEF sessionVars, storeVars
      <3> QED BY <3>1, <3>2 DEF BInv, NewIssued
    <2> QED BY <1>1, <2>1, <2>2 DEF Session
  <1>4. issued \in Nat /\ issued' \in Nat BY <1>2, SessionsAssumption DEF BInv, IInv, SessionsTypeOK
  <1> QED BY <1>1, <1>2, <1>3, <1>4, JarKeeps DEF BInv

(* It holds of a browser whose tabs are signed in by one session.          *)
LEMMA BrowserInit == Init => BInv /\ SessionsInit
  <1> SUFFICES ASSUME Init PROVE BInv /\ SessionsInit OBVIOUS
  <1>1. SessionsInit /\ issued = 1 /\ cookie = 1 BY DEF Init
  <1>2. NewIssued
    <2>1. Idle.new = 0 BY DEF Idle
    <2>2. \A r \in Requests : req[r] = Idle BY <1>1 DEF SessionsInit
    <2>3. \A r \in Requests : req[r].new = 0 BY <2>1, <2>2
    <2>4. issued = 1 /\ 0 \in 0..1 BY <1>1
    <2> QED BY <2>3, <2>4 DEF NewIssued
  <1> QED BY <1>1, <1>2, InitHolds DEF BInv

(* The browser never does to the server what the specification of its      *)
(* sessions does not allow a client.                                       *)
THEOREM BrowserIsClient == Spec => SessionsSpec
  <1>1. Init /\ [][Next]_vars => []BInv BY BrowserInit, BrowserStep, PTL
  <1>2. BInv /\ [Next]_vars => [SessionsNext]_sessionVars BY BrowserStep DEF Session
  <1> QED BY <1>1, <1>2, BrowserInit, PTL DEF Spec, SessionsSpec

(* Behind the pages, a session has one live refresh token unless two       *)
(* rotations of it overlapped.                                             *)
THEOREM OneHeadOfThePages == Spec => []OneHead
  BY BrowserIsClient, OneLiveToken, PTL

(* A logout, or the detection of reuse, that no refresh came across closes *)
(* the session of the pages for good.                                      *)
THEOREM ClosedForGoodOfThePages == Spec => []ClosedForGood
  BY BrowserIsClient, ClosedSessionsStayClosed, PTL

(***************************************************************************)
(* As long as nothing has disturbed the browser, and no refresh was        *)
(* refused by the rate limit: requests that carry the cookie, and what is  *)
(* true of them and of the jar.                                            *)
(***************************************************************************)
Carrier(r) == req[r].pc # "idle" /\ req[r].op \in {"refresh", "logout"}
Bearer(r) == Carrier(r) /\ req[r].op = "refresh" /\ req[r].token # 0
Granting(r) == req[r].pc \in {"ready", "done"} /\ req[r].says = "granted"

(* A token that is not revoked, and that no request is about to revoke.    *)
Spared(k) == k \notin revoked /\ \A q \in Requests : k \notin req[q].kills

NoFault == approved /\ expired = {}

Purpose(op) == IF op = "refresh" THEN {"load", "call"} ELSE {op}
Reasons == {"none", "load", "call", "login", "logout"}

Typed ==
  /\ sender \in [Requests -> [tab : Tabs \cup {"none"}, why : Reasons]]
  /\ refreshing \in [Tabs -> BOOLEAN]

(* A tab waits for what it sent. Nobody waits for an answer that came.     *)
SenderFits(r) ==
  /\ sender[r] # Nobody => /\ req[r].pc \notin {"idle", "answered"}
                           /\ sender[r].tab \in Tabs /\ sender[r].why \in Purpose(req[r].op)
  /\ Carrier(r) => sender[r] # Nobody \/ req[r].pc = "answered"
  /\ \A t \in Tabs : sender[r] = [tab |-> t, why |-> "call"] => refreshing[t]

AnswerFits(r) ==
  /\ req[r].op = "logout" => req[r].says \in {"none", "left"}
  /\ req[r].op = "login" => req[r].kills = {} /\ req[r].says \in {"none", "denied", "granted"}
  /\ req[r].op = "refresh" => req[r].says # "left" /\ (req[r].says = "granted" => req[r].token # 0)
  /\ req[r].op = "none" => req[r].says = "none"
  /\ req[r].says = "granted" => req[r].new \in Tokens

(* Requests that carry the cookie go one by one, but for logouts.          *)
Lone == \A q, r \in Requests : Carrier(q) /\ Carrier(r) /\ q # r => req[q].op = "logout"

Carried == \A r \in Requests : req[r].token \in 0..issued

(* Only tokens with a row are revoked.                                     *)
RowsOnly ==
  /\ \A k \in revoked : family[k] # 0
  /\ \A r \in Requests : \A k \in req[r].kills : family[k] # 0

(* A refresh presents a good token, and is granted.                        *)
BearerFits(r) == Bearer(r) =>
  /\ req[r].pc \in {"sent", "row"} => Spared(req[r].token)
  /\ req[r].pc \in {"ready", "answered", "done"} => req[r].says = "granted"

Grants == \A r \in Requests : Granting(r) => Spared(req[r].new)

(* Nobody has the token of a login that has not been answered.             *)
Secret(r) == Granting(r) /\ req[r].op = "login" =>
  /\ cookie # req[r].new
  /\ family[req[r].new] \in {0, req[r].new}
  /\ \A k \in Tokens : family[k] = req[r].new => k = req[r].new
  /\ \A q \in Requests : q # r => req[q].token # req[r].new /\ (Minted(q) => req[q].fam # req[r].new)

Distinct == \A q, r \in Requests : q # r /\ req[q].new # 0 => req[q].new # req[r].new

(* The token in the jar is good, or a request that will replace or clear   *)
(* it is on its way.                                                       *)
Replacing(r) == Carrier(r) /\ req[r].pc # "answered" /\ (req[r].op = "logout" \/ Bearer(r))
Jar == cookie # 0 => Spared(cookie) \/ \E r \in Requests : Replacing(r)

(* Who waits for what; which tokens are good.                              *)
Traffic == NoFault /\ Typed /\ Lone /\ Carried /\ \A r \in Requests : SenderFits(r)
Goods ==
  /\ RowsOnly /\ Grants /\ Distinct /\ Jar
  /\ \A r \in Requests : AnswerFits(r) /\ BearerFits(r) /\ Secret(r)

Calm == Traffic /\ Goods

Quiet ==
  /\ BInv /\ disturbed \in BOOLEAN /\ limited \in BOOLEAN /\ signedOut \in BOOLEAN
  /\ ~disturbed /\ ~limited => Calm /\ ~signedOut

(* A request that does not move stays what it was.                         *)
LEMMA StaysAsItWas ==
  ASSUME NEW q \in Requests, req'[q] = req[q]
  PROVE  /\ (Carrier(q)' <=> Carrier(q)) /\ (Bearer(q)' <=> Bearer(q))
         /\ (Granting(q)' <=> Granting(q)) /\ (Minted(q)' <=> Minted(q)) /\ (Replacing(q)' <=> Replacing(q))
  BY DEF Carrier, Bearer, Granting, Minted, Pending, Replacing

(* A token stays good unless the request that moves is to revoke it.       *)
LEMMA SparedStays ==
  ASSUME NEW r \in Requests, \A q \in Requests : q # r => req'[q] = req[q],
         revoked' \subseteq revoked \cup req[r].kills,
         NEW k, Spared(k), k \notin req'[r].kills
  PROVE  Spared(k)'
  BY DEF Spared

(* What the server does with a request leaves its sender waiting, and      *)
(* makes it carry no other token.                                          *)
LEMMA ServingKeeps ==
  ASSUME Traffic, NEW r \in Requests, req[r].pc # "idle",
         \A q \in Requests : q # r => req'[q] = req[q],
         \/ /\ req[r].pc # "answered" /\ req'[r].pc \in {"row", "ready", "done"}
            /\ req'[r].op = req[r].op /\ req'[r].token = req[r].token
         \/ req[r].pc = "answered" /\ req'[r] = Idle,
         UNCHANGED <<approved, expired, cookie, sender, refreshing>>,
         issued \in Nat, issued' \in Nat, issued <= issued'
  PROVE  Traffic'
  <1>0. Idle.pc = "idle" /\ Idle.token = 0 BY DEF Idle
  <1>1. \A q \in Requests : /\ Carrier(q)' => Carrier(q) /\ req'[q].op = req[q].op
                            /\ req'[q].token \in {0, req[q].token}
    BY <1>0, StaysAsItWas DEF Carrier
  <1>2. NoFault' /\ Typed' BY DEF Traffic, NoFault, Typed
  <1>3. Lone' BY <1>1 DEF Traffic, Lone
  <1>4. Carried'
    <2> SUFFICES ASSUME NEW q \in Requests PROVE req'[q].token \in 0..issued' BY DEF Carried
    <2>1. req[q].token \in 0..issued BY DEF Traffic, Carried
    <2> QED BY <1>1, <2>1
  <1>5. ASSUME NEW q \in Requests PROVE SenderFits(q)'
    <2>0. SenderFits(q) /\ SenderFits(r) BY DEF Traffic
    <2>1. CASE q # r BY <2>0, <2>1, StaysAsItWas DEF SenderFits
    <2>2. CASE q = r /\ req[r].pc # "answered" BY <1>1, <2>0, <2>2 DEF SenderFits, Carrier
    <2>3. CASE q = r /\ req[r].pc = "answered"
      <3>1. sender[r] = Nobody /\ sender' = sender /\ refreshing' = refreshing BY <2>0, <2>3 DEF SenderFits
      <3>2. ~Carrier(r)' BY <1>0, <2>3 DEF Carrier
      <3> QED BY <2>0, <2>3, <3>1, <3>2 DEF SenderFits
    <2> QED BY <2>1, <2>2, <2>3
  <1> QED BY <1>2, <1>3, <1>4, <1>5 DEF Traffic

(* A refusal, a logout that finds nothing, and the first read of a refresh *)
(* give and take no token.                                                 *)
LEMMA AnswersPlainly ==
  ASSUME Traffic, Goods, NEW r \in Requests, req[r].pc = "sent",
         \A q \in Requests : q # r => req'[q] = req[q],
         req'[r].op = req[r].op, req'[r].token = req[r].token, req'[r].new = req[r].new,
         req'[r].fam = req[r].fam, req'[r].kills = req[r].kills,
         \/ /\ req'[r].pc = "done" /\ req'[r].says = "denied"
            /\ req[r].op = "login" \/ (req[r].op = "refresh" /\ req[r].token = 0)
         \/ req'[r].pc = "done" /\ req'[r].says = "left" /\ req[r].op = "logout"
         \/ req'[r].pc = "row" /\ req'[r].says = req[r].says /\ req[r].op = "refresh",
         UNCHANGED <<storeVars, cookie>>
  PROVE  Goods'
  <1>0. UNCHANGED <<family, revoked, cookie>> BY DEF storeVars
  <1>1. \A k : Spared(k)' <=> Spared(k) BY <1>0 DEF Spared
  <1>2. ~Granting(r)' /\ ~Minted(r)' BY DEF Granting, Minted, Pending
  <1>3. RowsOnly' BY <1>0 DEF Goods, RowsOnly
  <1>4. Grants' BY <1>1, <1>2, StaysAsItWas DEF Goods, Grants
  <1>5. Distinct' BY DEF Goods, Distinct
  <1>6. Jar'
    <2>1. Replacing(r) => Replacing(r)' BY DEF Replacing, Carrier, Bearer
    <2> QED BY <1>0, <1>1, <2>1, StaysAsItWas DEF Goods, Jar
  <1>7. ASSUME NEW q \in Requests PROVE AnswerFits(q)' BY DEF Goods, AnswerFits
  <1>8. ASSUME NEW q \in Requests PROVE BearerFits(q)'
    <2>1. CASE q # r BY <1>1, <2>1, StaysAsItWas DEF Goods, BearerFits
    <2>2. CASE q = r BY <1>1, <2>2 DEF Goods, BearerFits, Bearer, Carrier
    <2> QED BY <2>1, <2>2
  <1>9. ASSUME NEW q \in Requests PROVE Secret(q)'
    <2> SUFFICES ASSUME q # r, Granting(q), req[q].op = "login" PROVE Secret(q)' BY <1>2, StaysAsItWas DEF Secret
    <2>1. Secret(q) BY DEF Goods
    <2>2. \A p \in Requests : req'[p].token = req[p].token /\ (Minted(p)' => Minted(p) /\ req'[p].fam = req[p].fam)
      BY <1>2, StaysAsItWas
    <2> QED BY <1>0, <2>1, <2>2 DEF Secret
  <1> QED BY <1>3, <1>4, <1>5, <1>6, <1>7, <1>8, <1>9 DEF Goods

(* A login or a refresh that mints a token: nobody has it yet.             *)
LEMMA MintsForItself ==
  ASSUME BInv, Traffic, Goods, NEW r \in Requests, Mint,
         \A q \in Requests : q # r => req'[q] = req[q],
         req'[r].pc = "ready", req'[r].says = "granted", req'[r].new = issued + 1,
         req'[r].op = req[r].op, req'[r].token = req[r].token,
         \/ req[r].pc = "sent" /\ req[r].op = "login" /\ req'[r].fam = issued + 1 /\ req'[r].kills = {}
         \/ /\ req[r].pc = "row" /\ req[r].op = "refresh"
            /\ req'[r].fam = family[req[r].token] /\ req'[r].kills = {req[r].token},
         UNCHANGED <<family, revoked, cookie>>
  PROVE  Goods'
  <1> DEFINE new == issued + 1
             token == req[r].token
  <1>0. /\ new \in Tokens /\ new # 0 /\ issued \in Nat /\ family[new] = 0
        /\ \A k \in Tokens : family[k] # new
        /\ \A n \in 0..issued : n # new
    BY MintsFresh DEF BInv
  <1>1. SessionsTypeOK /\ Shape /\ Rows BY DEF BInv, IInv
  <1>2. req[r].op = "refresh" => token \in Tokens /\ token # 0 /\ family[token] # 0 /\ Bearer(r) /\ Spared(token)
    <2>1. Fits(r) BY <1>1 DEF Shape
    <2>2. req[r].op = "refresh" => req[r].pc = "row" /\ Rotating(r) BY DEF Rotating
    <2>3. \A k \in Tokens : k # 0 BY DEF Tokens
    <2> QED BY <2>1, <2>2, <2>3 DEF Fits, Goods, BearerFits, Bearer, Carrier
  <1>3. \A q \in Requests : /\ req[q].token # new /\ req[q].new # new /\ new \notin req[q].kills
                            /\ (Minted(q) => req[q].fam # new)
    <2> SUFFICES ASSUME NEW q \in Requests
                 PROVE  /\ req[q].token # new /\ req[q].new # new /\ new \notin req[q].kills
                        /\ (Minted(q) => req[q].fam # new)
      OBVIOUS
    <2>1. req[q].token \in 0..issued BY DEF Traffic, Carried
    <2>2. req[q].new \in 0..issued BY DEF BInv, NewIssued
    <2>3. new \notin req[q].kills BY <1>0 DEF Goods, RowsOnly
    <2>4. Fits(q) BY <1>1 DEF Shape
    <2>5. Minted(q) /\ req[q].op = "refresh" => req[q].token \in Tokens /\ req[q].fam = family[req[q].token]
      BY <2>4 DEF Fits, Minted, Pending, Rotating
    <2>6. Minted(q) /\ req[q].op # "refresh" => req[q].fam = req[q].new BY <2>4 DEF Fits
    <2> QED BY <1>0, <2>1, <2>2, <2>3, <2>5, <2>6
  <1>4. new \notin revoked /\ cookie # new BY <1>0 DEF Goods, RowsOnly, BInv
  <1>5. \A k : Spared(k) /\ (req[r].op = "refresh" => k # token) => Spared(k)' BY SparedStays
  <1>6. ASSUME NEW k, k = new PROVE Spared(k)'
    <2>1. Spared(k) BY <1>3, <1>4, <1>6 DEF Spared
    <2>2. req[r].op = "refresh" => k # token BY <1>3, <1>6
    <2> HIDE DEF new, token
    <2> QED BY <1>5, <2>1, <2>2
  <1>7. Granting(r)' /\ ~Granting(r) /\ Minted(r)' BY DEF Granting, Minted, Pending
  <1>8. req[r].op \in {"login", "refresh"} /\ (req[r].op = "refresh" => Carrier(r)) BY DEF Carrier
  <1> HIDE DEF new, token
  (* Nobody else carries the token that is rotated, and no login brings it. *)
  <1>9. \A q \in Requests : q # r /\ Granting(q) => Spared(req[q].new)'
    <2> SUFFICES ASSUME NEW q \in Requests, q # r, Granting(q) PROVE Spared(req[q].new)' OBVIOUS
    <2>1. Spared(req[q].new) /\ req'[q] = req[q] BY DEF Goods, Grants
    <2>2. req[r].op = "refresh" => req[q].new # token
      <3> SUFFICES ASSUME req[r].op = "refresh", req[q].new = token PROVE FALSE OBVIOUS
      <3>1. req[q].pc # "idle" /\ req[q].says = "granted" BY DEF Granting
      <3>2. req[q].op = "login" \/ Carrier(q)
        <4>1. req[q].op \in {"none", "login", "refresh", "logout"} BY <1>1 DEF SessionsTypeOK, Request
        <4> QED BY <3>1, <4>1 DEF Goods, AnswerFits, Carrier
      <3>3. CASE req[q].op = "login" BY <3>3 DEF Goods, Secret, token
      <3>4. CASE Carrier(q)
        <4>1. req[r].op = "logout" BY <1>8, <3>4 DEF Traffic, Lone
        <4> QED BY <4>1
      <3> QED BY <3>2, <3>3, <3>4
    <2>3. \A k : k = req[q].new => Spared(k)' BY <1>5, <2>1, <2>2
    <2> QED BY <2>1, <2>3
  <1>10. RowsOnly'
    <2>1. \A q \in Requests : \A k \in req'[q].kills : family[k] # 0
      BY <1>2 DEF Goods, RowsOnly, token
    <2> QED BY <2>1 DEF Goods, RowsOnly
  <1>11. Grants' BY <1>6, <1>9, StaysAsItWas DEF Grants, new
  <1>12. Distinct' BY <1>3 DEF Goods, Distinct, new
  <1>13. Jar'
    <2>1. CASE req[r].op = "refresh"
      <3>1. Replacing(r)' BY <1>2, <2>1 DEF Replacing, Carrier, Bearer, token
      <3> QED BY <3>1 DEF Jar
    <2>2. CASE req[r].op = "login"
      <3>1. \A q \in Requests : Replacing(q) => q # r BY <2>2 DEF Replacing, Carrier, Bearer
      <3>2. Spared(cookie) => Spared(cookie)' BY <1>5, <2>2
      <3> QED BY <3>1, <3>2, StaysAsItWas DEF Goods, Jar
    <2> QED BY <1>8, <2>1, <2>2
  <1>14. ASSUME NEW q \in Requests PROVE AnswerFits(q)' BY <1>0, <1>2 DEF Goods, AnswerFits, new, token
  <1>15. ASSUME NEW q \in Requests PROVE BearerFits(q)'
    <2>1. CASE q = r BY <2>1 DEF BearerFits
    <2>2. CASE q # r /\ Bearer(q) /\ req[q].pc \in {"sent", "row"}
      <3>1. req[r].op # "refresh"
        <4>1. req[r].op = "refresh" => req[q].op = "logout" BY <1>8, <2>2 DEF Traffic, Lone, Bearer
        <4> QED BY <2>2, <4>1 DEF Bearer
      <3>2. Spared(req[q].token) BY <2>2 DEF Goods, BearerFits
      <3> DEFINE k == req[q].token
      <3>3. Spared(k)' BY <1>5, <3>1, <3>2
      <3> QED BY <2>2, <3>3 DEF BearerFits
    <2>3. CASE q # r /\ ~(Bearer(q) /\ req[q].pc \in {"sent", "row"})
      BY <2>3, StaysAsItWas DEF Goods, BearerFits
    <2> QED BY <2>1, <2>2, <2>3
  <1>16. ASSUME NEW q \in Requests PROVE Secret(q)'
    <2>1. CASE q = r
      <3>1. \A p \in Requests : p # r => req'[p].token # new /\ (Minted(p)' => req'[p].fam # new)
        BY <1>3, StaysAsItWas
      <3> QED BY <1>0, <1>4, <2>1, <3>1 DEF Secret, new
    <2>2. CASE q # r /\ Granting(q) /\ req[q].op = "login"
      <3>1. Secret(q) /\ req'[q] = req[q] BY <2>2 DEF Goods
      <3>2. req'[r].token # req[q].new /\ req'[r].fam # req[q].new
        <4>1. req[q].new # token BY <2>2, <3>1 DEF Secret, token
        <4>2. req[r].op = "refresh" => family[token] # req[q].new BY <1>2, <2>2, <3>1, <4>1 DEF Secret
        <4> QED BY <1>3, <4>1, <4>2 DEF token, new
      <3>3. \A p \in Requests : p # q => req'[p].token # req[q].new /\ (Minted(p)' => req'[p].fam # req[q].new)
        BY <2>2, <3>1, <3>2, StaysAsItWas DEF Secret
      <3> QED BY <2>2, <3>1, <3>3 DEF Secret
    <2>3. CASE q # r /\ ~(Granting(q) /\ req[q].op = "login") BY <2>3, StaysAsItWas DEF Secret
    <2> QED BY <2>1, <2>2, <2>3
  <1> QED BY <1>10, <1>11, <1>12, <1>13, <1>14, <1>15, <1>16 DEF Goods

(* A logout: nothing that is good or on its way belongs to the session it  *)
(* closes.                                                                 *)
LEMMA LogoutCloses ==
  ASSUME BInv, Traffic, Goods, NEW r \in Requests, req[r].pc = "sent", req[r].op = "logout",
         \A q \in Requests : q # r => req'[q] = req[q],
         req'[r].pc = "ready", req'[r].says = "left", req'[r].op = "logout", req'[r].token = req[r].token,
         req'[r].new = 0, req'[r].kills = RevokeFamily(family[req[r].token], req[r].token),
         req[r].token \in Tokens, UNCHANGED <<storeVars, cookie>>
  PROVE  Goods'
  <1> DEFINE kills == RevokeFamily(family[req[r].token], req[r].token)
  <1>0. UNCHANGED <<family, revoked, cookie>> /\ SessionsTypeOK BY DEF storeVars, BInv, IInv
  <1>1. \A k : Spared(k) /\ k \notin kills => Spared(k)' BY <1>0, SparedStays
  <1>2. ~Granting(r)' /\ ~Minted(r)' /\ ~Granting(r) /\ ~Minted(r) /\ Carrier(r)
    BY DEF Granting, Minted, Pending, Carrier
  <1>3. \A k \in kills : k \in Tokens /\ family[k] # 0 /\ family[k] = family[req[r].token]
    BY DEF RevokeFamily, Live
  <1> HIDE DEF kills
  <1>4. \A q \in Requests : q # r /\ Carrier(q) => req[q].op = "logout" BY <1>2 DEF Traffic, Lone
  <1>5. \A q \in Requests : q # r /\ Granting(q) => Spared(req[q].new)'
    <2> SUFFICES ASSUME NEW q \in Requests, q # r, Granting(q) PROVE Spared(req[q].new)' OBVIOUS
    <2>1. Spared(req[q].new) /\ req'[q] = req[q] BY DEF Goods, Grants
    <2>2. req[q].pc # "idle" /\ req[q].says = "granted" BY DEF Granting
    <2>3. req[q].op = "login"
      <3>1. req[q].op \in {"none", "login", "refresh", "logout"} BY <1>0 DEF SessionsTypeOK, Request
      <3> QED BY <3>1, <2>2, <1>4 DEF Goods, AnswerFits, Carrier
    <2>4. req[q].new \notin kills BY <1>3, <2>3 DEF Goods, Secret
    <2>5. \A k : k = req[q].new => Spared(k)' BY <1>1, <2>1, <2>4
    <2> QED BY <2>1, <2>5
  <1>6. RowsOnly'
    <2>1. \A q \in Requests : \A k \in req'[q].kills : family[k] # 0 BY <1>3 DEF Goods, RowsOnly, kills
    <2> QED BY <1>0, <2>1 DEF Goods, RowsOnly
  <1>7. Grants' BY <1>2, <1>5, StaysAsItWas DEF Grants
  <1>8. Distinct' BY DEF Goods, Distinct
  <1>9. Jar'
    <2>1. Replacing(r)' BY DEF Replacing, Carrier
    <2> QED BY <2>1 DEF Jar
  <1>10. ASSUME NEW q \in Requests PROVE AnswerFits(q)' BY DEF Goods, AnswerFits
  <1>11. ASSUME NEW q \in Requests PROVE BearerFits(q)'
    BY <1>4, StaysAsItWas DEF BearerFits, Bearer
  <1>12. ASSUME NEW q \in Requests PROVE Secret(q)'
    <2>1. CASE q # r /\ Granting(q) /\ req[q].op = "login"
      <3>1. Secret(q) BY DEF Goods
      <3>2. \A p \in Requests : req'[p].token = req[p].token /\ (Minted(p)' => Minted(p) /\ req'[p].fam = req[p].fam)
        BY <1>2, StaysAsItWas
      <3> QED BY <1>0, <2>1, <3>1, <3>2 DEF Secret
    <2>2. CASE ~(q # r /\ Granting(q) /\ req[q].op = "login") BY <1>2, <2>2, StaysAsItWas DEF Secret
    <2> QED BY <2>1, <2>2
  <1> QED BY <1>6, <1>7, <1>8, <1>9, <1>10, <1>11, <1>12 DEF Goods

(* A commit: the token that comes was promised, the one that goes was not  *)
(* good for anybody.                                                       *)
LEMMA CommitsQuietly ==
  ASSUME BInv, Traffic, Goods, NEW r \in Requests, Commit(r), UNCHANGED cookie
  PROVE  Goods'
  <1> DEFINE new == req[r].new
             fam == req[r].fam
  <1>0. SessionsTypeOK /\ Shape /\ Rows /\ req \in [Requests -> Request] /\ req[r] \in Request
    BY DEF BInv, IInv, SessionsTypeOK
  <1>1. /\ \A q \in Requests : q # r => req'[q] = req[q]
        /\ revoked' = revoked \cup req[r].kills
        /\ family' = [k \in Tokens |-> IF k = new THEN fam ELSE family[k]]
        /\ Pending(r)
    BY <1>0 DEF Commit, Pending
  <1>2. /\ Idle.pc = "idle" /\ Idle.op = "none" /\ Idle.token = 0 /\ Idle.new = 0 /\ Idle.kills = {} /\ Idle.says = "none"
        /\ \A k \in Tokens : k # 0
    BY DEF Idle, Tokens
  <1>3. \/ /\ req[r].pc = "ready" /\ req'[r].pc = "done" /\ req'[r].op = req[r].op /\ req'[r].token = req[r].token
           /\ req'[r].new = new /\ req'[r].fam = fam /\ req'[r].kills = req[r].kills /\ req'[r].says = req[r].says
        \/ req[r].pc = "answered" /\ req'[r] = Idle
    <2>1. CASE req[r].pc = "ready"
      <3>1. req'[r] = [req[r] EXCEPT !.pc = "done"] BY <1>0, <2>1 DEF Commit
      <3> QED BY <1>0, <2>1, <3>1 DEF Request
    <2>2. CASE req[r].pc = "answered" BY <1>0, <2>2 DEF Commit
    <2> QED BY <1>1, <2>1, <2>2 DEF Pending
  <1>4. \A q \in Requests : /\ req'[q].token \in {0, req[q].token} /\ req'[q].new \in {0, req[q].new}
                            /\ req'[q].kills \subseteq req[q].kills
                            /\ (Granting(q)' => Granting(q) /\ req'[q].new = req[q].new /\ req'[q].op = req[q].op)
                            /\ (Minted(q)' => Minted(q) /\ req'[q].fam = req[q].fam)
    BY <1>1, <1>2, <1>3, StaysAsItWas DEF Granting, Minted, Pending
  <1>5. \A k : Spared(k) => Spared(k)'
    <2>1. \A k : Spared(k) => k \notin req'[r].kills BY <1>4 DEF Spared
    <2> QED BY <1>1, <2>1, SparedStays
  (* The one row that may be new.                                          *)
  <1>6. Fits(r) BY <1>0 DEF Shape
  <1>7. \A k \in Tokens : family'[k] # family[k] => k = new /\ Minted(r) /\ family'[k] = fam /\ family[k] = 0
    <2>1. ~Minted(r) => new = 0 BY <1>1, <1>6 DEF Fits
    <2>2. Minted(r) => family[new] = 0 BY <1>0 DEF Rows
    <2> QED BY <1>1, <1>2, <2>1, <2>2
  <1> HIDE DEF new, fam
  <1>8. RowsOnly'
    <2>1. revoked \subseteq Tokens /\ \A q \in Requests : req[q].kills \subseteq Tokens
      BY <1>0 DEF SessionsTypeOK, Request
    <2>2. \A k \in Tokens : family[k] # 0 => family'[k] # 0 BY <1>7
    <2>3. \A k \in revoked' : family'[k] # 0 BY <1>1, <2>1, <2>2 DEF Goods, RowsOnly
    <2>4. \A q \in Requests : \A k \in req'[q].kills : family'[k] # 0 BY <1>4, <2>1, <2>2 DEF Goods, RowsOnly
    <2> QED BY <2>3, <2>4 DEF RowsOnly
  <1>9. Grants'
    <2> SUFFICES ASSUME NEW q \in Requests, Granting(q)' PROVE Spared(req[q].new)' BY DEF Grants
    <2>1. Spared(req[q].new) /\ req'[q].new = req[q].new BY <1>4 DEF Goods, Grants
    <2>2. \A k : k = req[q].new => Spared(k)' BY <1>5, <2>1
    <2> QED BY <2>1, <2>2
  <1>10. Distinct'
    <2> SUFFICES ASSUME NEW q \in Requests, NEW p \in Requests, q # p, req'[q].new # 0, req'[q].new = req'[p].new
                 PROVE  FALSE
      BY DEF Distinct
    <2> QED BY <1>4 DEF Goods, Distinct
  <1>11. Jar'
    <2>1. Replacing(r) => Replacing(r)' BY <1>1, <1>2, <1>3 DEF Replacing, Carrier, Bearer
    <2>2. Spared(cookie) => Spared(cookie)' BY <1>5
    <2> QED BY <1>1, <2>1, <2>2, StaysAsItWas DEF Goods, Jar
  <1>12. ASSUME NEW q \in Requests PROVE AnswerFits(q)' BY <1>1, <1>2, <1>3 DEF Goods, AnswerFits, new
  <1>13. ASSUME NEW q \in Requests PROVE BearerFits(q)'
    <2>0. BearerFits(q) BY DEF Goods
    <2>1. CASE q = r BY <1>2, <1>3, <2>0, <2>1 DEF BearerFits, Bearer, Carrier
    <2>2. CASE q # r
      <3>1. req'[q] = req[q] BY <1>1, <2>2
      <3>2. \A k : k = req[q].token /\ Spared(k) => Spared(k)' BY <1>5
      <3> QED BY <2>0, <3>1, <3>2, StaysAsItWas DEF BearerFits
    <2> QED BY <2>1, <2>2
  <1>14. ASSUME NEW q \in Requests PROVE Secret(q)'
    <2> SUFFICES ASSUME Granting(q)', req'[q].op = "login" PROVE Secret(q)' BY DEF Secret
    <2>1. Granting(q) /\ req'[q].new = req[q].new /\ req[q].op = "login" /\ Secret(q) /\ req[q].new \in Tokens
      BY <1>4 DEF Goods, AnswerFits, Granting
    <2>2. \A p \in Requests : p # q => req'[p].token # req[q].new /\ (Minted(p)' => req'[p].fam # req[q].new)
      BY <1>2, <1>4, <2>1 DEF Secret
    <2>3. q = r => fam = req[q].new /\ new = req[q].new
      <3>1. q = r => Minted(r) /\ req[r].op = "login" BY <1>1, <2>1 DEF Granting, Minted
      <3> QED BY <1>6, <3>1 DEF Fits, fam, new
    <2>4. q # r => new # req[q].new \/ ~Minted(r) BY <1>2, <2>1 DEF Goods, Distinct, new
    <2>5. q # r /\ Minted(r) => fam # req[q].new BY <2>1 DEF Secret, fam
    <2>6. family'[req[q].new] \in {0, req[q].new} BY <1>7, <2>1, <2>3, <2>4 DEF Secret
    <2>7. \A k \in Tokens : family'[k] = req[q].new => k = req[q].new BY <1>7, <2>1, <2>3, <2>5 DEF Secret
    <2> QED BY <2>1, <2>2, <2>6, <2>7 DEF Secret
  <1> QED BY <1>8, <1>9, <1>10, <1>11, <1>12, <1>13, <1>14 DEF Goods

(* What Finish leaves in the request.                                      *)
LEMMA FinishedFields ==
  ASSUME SessionsTypeOK, NEW r \in Requests, NEW says \in {"limited", "denied", "left"}, Finish(r, says)
  PROVE  /\ \A q \in Requests : q # r => req'[q] = req[q]
         /\ req'[r].pc = "done" /\ req'[r].says = says /\ req'[r].op = req[r].op /\ req'[r].token = req[r].token
         /\ req'[r].new = req[r].new /\ req'[r].fam = req[r].fam /\ req'[r].kills = req[r].kills
  <1>1. req \in [Requests -> Request] /\ req[r] \in Request BY DEF SessionsTypeOK
  <1>2. req' = [req EXCEPT ![r] = [req[r] EXCEPT !.pc = "done", !.says = says]] BY DEF Finish
  <1>3. /\ \A q \in Requests : q # r => req'[q] = req[q]
        /\ req'[r] = [req[r] EXCEPT !.pc = "done", !.says = says]
    BY <1>1, <1>2
  <1> QED BY <1>1, <1>3 DEF Request

(* The server does its part of a quiet session.                            *)
LEMMA ServesQuietly ==
  ASSUME BInv, Traffic, Goods, NEW r \in Requests, Serve(r), UNCHANGED <<cookie, sender, refreshing>>,
         Refreshing(r) /\ req[r].token # 0 => family[req[r].token] # 0, req'[r].says # "limited"
  PROVE  Traffic' /\ Goods'
  <1>0. SessionsTypeOK /\ Shape /\ req \in [Requests -> Request] /\ issued \in Nat BY SessionsAssumption DEF BInv, IInv, SessionsTypeOK
  <1>1. issued' \in Nat /\ issued <= issued'
    <2>1. SessionsNext BY DEF SessionsNext
    <2>2. SessionsTypeOK' BY <2>1, SessionsStep DEF BInv, IInv
    <2>3. issued' \in Nat BY <2>2, SessionsAssumption DEF SessionsTypeOK
    <2> QED BY <2>1, <2>3, ServerIssues DEF BInv
  <1>2. approved /\ expired = {} BY DEF Traffic, NoFault
  <1>3. Refreshing(r) /\ req[r].token # 0 => Known(req[r].token) /\ req[r].token \notin revoked
    BY DEF Known, Refreshing, Goods, BearerFits, Bearer, Carrier, Spared
  <1>4. ASSUME NEW says \in {"denied", "left"}, Finish(r, says), req[r].pc = "sent", UNCHANGED storeVars,
               \/ says = "denied" /\ (req[r].op = "login" \/ (req[r].op = "refresh" /\ req[r].token = 0))
               \/ says = "left" /\ req[r].op = "logout"
        PROVE  Traffic' /\ Goods'
    <2>1. /\ \A q \in Requests : q # r => req'[q] = req[q]
          /\ req'[r].pc = "done" /\ req'[r].says = says /\ req'[r].op = req[r].op /\ req'[r].token = req[r].token
          /\ req'[r].new = req[r].new /\ req'[r].fam = req[r].fam /\ req'[r].kills = req[r].kills
      BY <1>0, <1>4, FinishedFields
    <2>2. Goods' BY <1>4, <2>1, AnswersPlainly
    <2>3. Traffic' BY <1>0, <1>1, <1>4, <2>1, ServingKeeps DEF storeVars
    <2> QED BY <2>2, <2>3
  <1>5. ASSUME NEW fam \in 0..MaxToken, NEW kills \in SUBSET Tokens, Mint, Prepare(r, fam, issued + 1, kills, "granted"),
               UNCHANGED <<approved, family, revoked, expired>>,
               \/ req[r].pc = "sent" /\ req[r].op = "login" /\ fam = issued + 1 /\ kills = {}
               \/ req[r].pc = "row" /\ req[r].op = "refresh" /\ fam = family[req[r].token] /\ kills = {req[r].token}
        PROVE  Traffic' /\ Goods'
    <2>0. issued + 1 \in 0..MaxToken BY <1>5, MintsFresh DEF BInv
    <2>1. /\ \A q \in Requests : q # r => req'[q] = req[q]
          /\ req'[r].pc = "ready" /\ req'[r].op = req[r].op /\ req'[r].token = req[r].token
          /\ req'[r].fam = fam /\ req'[r].new = issued + 1 /\ req'[r].kills = kills /\ req'[r].says = "granted"
      BY <1>0, <1>5, <2>0, Prepared
    <2>2. Goods' BY <1>5, <2>1, MintsForItself
    <2>3. Traffic' BY <1>0, <1>1, <1>5, <2>1, ServingKeeps
    <2> QED BY <2>2, <2>3
  <1>6. CASE Login(r)
    <2>1. CASE Finish(r, "denied") /\ UNCHANGED issued BY <1>4, <1>6, <2>1 DEF Login, storeVars
    <2>2. CASE approved /\ Mint /\ Prepare(r, issued + 1, issued + 1, {}, "granted")
      <3>1. issued + 1 \in 0..MaxToken BY <2>2, MintsFresh DEF BInv
      <3> QED BY <1>5, <1>6, <2>2, <3>1 DEF Login
    <2> QED BY <1>6, <2>1, <2>2 DEF Login
  <1>7. CASE RefreshInvalid(r)
    <2>1. req[r].token = 0 BY <1>2, <1>3, <1>7 DEF RefreshInvalid
    <2> QED BY <1>4, <1>7, <2>1 DEF RefreshInvalid, Refreshing
  <1>8. ~RefreshReused(r) /\ ~RefreshExpired(r) BY <1>2, <1>3 DEF RefreshReused, RefreshExpired, Known
  <1>9. CASE RefreshRow(r)
    <2>1. req[r].pc = "sent" /\ req[r].op = "refresh" /\ Step(r, "row") /\ UNCHANGED storeVars
      BY <1>9 DEF RefreshRow, Refreshing
    <2>2. /\ \A q \in Requests : q # r => req'[q] = req[q]
          /\ req'[r].pc = "row" /\ req'[r].op = req[r].op /\ req'[r].token = req[r].token
          /\ req'[r].fam = req[r].fam /\ req'[r].new = req[r].new
          /\ req'[r].kills = req[r].kills /\ req'[r].says = req[r].says
      BY <1>0, <2>1, Stepped
    <2>3. Goods' BY <2>1, <2>2, AnswersPlainly
    <2>4. Traffic' BY <1>0, <1>1, <2>1, <2>2, ServingKeeps DEF storeVars
    <2> QED BY <2>3, <2>4
  <1>10. CASE RefreshUser(r)
    <2>1. req[r].pc = "row" /\ req[r].op = "refresh" /\ Rotating(r) BY <1>0, <1>10 DEF RefreshUser, Shape, Fits, Rotating
    <2>2. req[r].token \in Tokens /\ family[req[r].token] \in 0..MaxToken BY <1>0, <2>1 DEF Shape, Fits, SessionsTypeOK
    <2>3. Mint /\ Prepare(r, family[req[r].token], issued + 1, {req[r].token}, "granted") BY <1>2, <1>10 DEF RefreshUser
    <2> QED BY <1>5, <1>10, <2>1, <2>2, <2>3 DEF RefreshUser
  <1>11. CASE Logout(r)
    <2>0. req[r].pc = "sent" /\ req[r].op = "logout" /\ UNCHANGED storeVars BY <1>11 DEF Logout
    <2>1. CASE Finish(r, "left") BY <1>4, <2>0, <2>1
    <2>2. CASE Known(req[r].token) /\ Close(r, "left")
      <3> DEFINE f == family[req[r].token]
                 kills == RevokeFamily(f, req[r].token)
      <3>1. f \in 0..MaxToken /\ req[r].token \in Tokens /\ kills \in SUBSET Tokens /\ 0 \in 0..MaxToken
        BY <1>0, <2>2, KnownIsToken, SessionsAssumption DEF RevokeFamily, Live
      <3>2. Prepare(r, f, 0, kills, "left") BY <2>2 DEF Close
      <3> HIDE DEF f, kills
      <3>3. /\ \A q \in Requests : q # r => req'[q] = req[q]
            /\ req'[r].pc = "ready" /\ req'[r].op = req[r].op /\ req'[r].token = req[r].token
            /\ req'[r].new = 0 /\ req'[r].kills = kills /\ req'[r].says = "left"
        BY <1>0, <3>1, <3>2, Prepared
      <3>4. Goods' BY <2>0, <3>1, <3>3, LogoutCloses DEF kills, f
      <3>5. Traffic' BY <1>0, <1>1, <2>0, <3>3, ServingKeeps DEF storeVars
      <3> QED BY <3>4, <3>5
    <2> QED BY <1>11, <2>1, <2>2 DEF Logout
  <1>12. CASE Commit(r)
    <2>1. Goods' BY <1>12, CommitsQuietly
    <2>2. /\ \A q \in Requests : q # r => req'[q] = req[q]
          /\ \/ /\ req[r].pc = "ready" /\ req'[r].pc = "done" /\ req'[r].op = req[r].op /\ req'[r].token = req[r].token
             \/ req[r].pc = "answered" /\ req'[r] = Idle
          /\ req[r].pc # "idle" /\ UNCHANGED <<approved, expired>>
      <3>1. CASE req[r].pc = "ready"
        <4>1. req[r] \in Request /\ req'[r] = [req[r] EXCEPT !.pc = "done"] BY <1>0, <1>12, <3>1 DEF Commit
        <4> QED BY <1>0, <1>12, <3>1, <4>1 DEF Commit, Request
      <3>2. CASE req[r].pc = "answered" BY <1>0, <1>12, <3>2 DEF Commit
      <3> QED BY <1>12, <3>1, <3>2 DEF Commit
    <2>3. Traffic' BY <1>0, <1>1, <2>2, ServingKeeps
    <2> QED BY <2>1, <2>3
  <1>13. ~RefreshLimited(r) BY <1>0, FinishedFields DEF RefreshLimited
  <1> QED BY <1>6, <1>7, <1>8, <1>9, <1>10, <1>11, <1>12, <1>13 DEF Serve

(* What Send leaves in the request.                                        *)
LEMMA SentFields ==
  ASSUME SessionsTypeOK, NEW r \in Requests, NEW op, NEW token, Send(r, op, token)
  PROVE  /\ \A q \in Requests : q # r => req'[q] = req[q]
         /\ req[r].pc = "idle" /\ req'[r].pc = "sent" /\ req'[r].op = op /\ req'[r].token = token
         /\ req'[r].new = 0 /\ req'[r].kills = {} /\ req'[r].says = "none"
         /\ UNCHANGED storeVars
  <1>1. req \in [Requests -> Request] BY DEF SessionsTypeOK
  <1>2. req' = [req EXCEPT ![r] = [Idle EXCEPT !.pc = "sent", !.op = op, !.token = token]] BY DEF Send
  <1>3. /\ \A q \in Requests : q # r => req'[q] = req[q]
        /\ req'[r] = [Idle EXCEPT !.pc = "sent", !.op = op, !.token = token]
    BY <1>1, <1>2
  <1>4. req[r].pc = "idle" /\ UNCHANGED storeVars BY DEF Send
  <1>5. /\ req'[r].pc = "sent" /\ req'[r].op = op /\ req'[r].token = token
        /\ req'[r].new = 0 /\ req'[r].kills = {} /\ req'[r].says = "none"
    BY <1>3 DEF Idle
  <1> QED BY <1>3, <1>4, <1>5

(* A request is sent while no other carries the cookie, or only logouts    *)
(* do: it presents a good token.                                           *)
LEMMA SendsQuietly ==
  ASSUME BInv, Traffic, Goods, NEW r \in Requests, NEW op \in {"login", "refresh", "logout"},
         NEW t \in Tabs, NEW why \in Purpose(op),
         Send(r, op, IF op = "login" THEN 0 ELSE cookie), cookie' = cookie, Typed',
         op = "refresh" => \A q \in Requests : ~Carrier(q),
         op = "logout" => \A q \in Requests : Carrier(q) => req[q].op = "logout",
         sender'[r] = [tab |-> t, why |-> why], why = "call" => refreshing'[t],
         \A q \in Requests : q # r => sender'[q] = sender[q] \/ (sender'[q] = Nobody /\ ~Carrier(q)),
         \A q \in Requests, i \in Tabs : q # r /\ sender'[q] = [tab |-> i, why |-> "call"] => refreshing'[i]
  PROVE  Traffic' /\ Goods'
  <1> DEFINE token == IF op = "login" THEN 0 ELSE cookie
  <1>0. SessionsTypeOK /\ issued \in Nat /\ cookie \in 0..issued BY SessionsAssumption DEF BInv, IInv, SessionsTypeOK
  <1>1. /\ \A q \in Requests : q # r => req'[q] = req[q]
        /\ req[r].pc = "idle" /\ req'[r].pc = "sent" /\ req'[r].op = op /\ req'[r].token = token
        /\ req'[r].new = 0 /\ req'[r].kills = {} /\ req'[r].says = "none"
        /\ UNCHANGED storeVars
    BY <1>0, SentFields
  <1>2. UNCHANGED <<approved, expired, family, revoked, issued>> BY <1>1 DEF storeVars
  <1>3. ~Carrier(r) /\ ~Replacing(r) /\ ~Granting(r)' /\ ~Minted(r)'
    BY <1>1 DEF Carrier, Replacing, Granting, Minted, Pending
  <1>4. \A k : Spared(k) => Spared(k)' BY <1>1, <1>2 DEF Spared
  <1>5. \A k \in Tokens : k # 0 BY DEF Tokens
  <1>6. op = "refresh" /\ cookie # 0 => Spared(cookie) BY DEF Goods, Jar, Replacing
  <1>7. NoFault' BY <1>2 DEF Traffic, NoFault
  <1>8. Lone' BY <1>1, <1>3, StaysAsItWas DEF Traffic, Lone, Carrier
  <1>9. Carried'
    <2>1. \A q \in Requests : req'[q].token \in 0..issued BY <1>0, <1>1 DEF Traffic, Carried
    <2> QED BY <1>2, <2>1 DEF Carried
  <1>10. ASSUME NEW q \in Requests PROVE SenderFits(q)'
    <2>1. CASE q = r
      <3>1. t # "none" BY BrowserAssumption
      <3>2. sender'[r].tab = t /\ sender'[r].why = why /\ sender'[r] # Nobody BY <3>1 DEF Nobody
      <3> QED BY <1>1, <2>1, <3>2 DEF SenderFits
    <2>2. CASE q # r
      <3>1. SenderFits(q) /\ req'[q] = req[q] BY <1>1, <2>2 DEF Traffic
      <3> QED BY <2>2, <3>1, StaysAsItWas DEF SenderFits
    <2> QED BY <2>1, <2>2
  <1>11. RowsOnly' BY <1>1, <1>2 DEF Goods, RowsOnly
  <1>12. Grants'
    <2> SUFFICES ASSUME NEW q \in Requests, Granting(q)' PROVE Spared(req[q].new)' BY DEF Grants
    <2>1. Spared(req[q].new) /\ req'[q] = req[q] BY <1>1, <1>3, StaysAsItWas DEF Goods, Grants
    <2>2. \A k : k = req[q].new => Spared(k)' BY <1>4, <2>1
    <2> QED BY <2>1, <2>2
  <1>13. Distinct' BY <1>1 DEF Goods, Distinct
  <1>14. Jar'
    <2>1. CASE op = "login"
      <3>1. Spared(cookie) => Spared(cookie)' BY <1>4
      <3> QED BY <1>1, <1>3, <3>1, StaysAsItWas DEF Goods, Jar
    <2>2. CASE op # "login"
      <3>1. cookie # 0 => Replacing(r)' BY <1>1, <2>2 DEF Replacing, Carrier, Bearer
      <3> QED BY <3>1 DEF Jar
    <2> QED BY <2>1, <2>2
  <1>15. ASSUME NEW q \in Requests PROVE AnswerFits(q)'
    BY <1>1 DEF Goods, AnswerFits
  <1>16. ASSUME NEW q \in Requests PROVE BearerFits(q)'
    <2>1. CASE q = r
      <3>1. \A k : k = token /\ Spared(k) => Spared(k)' BY <1>4
      <3> QED BY <1>1, <1>6, <2>1, <3>1 DEF BearerFits, Bearer
    <2>2. CASE q # r
      <3>1. req'[q] = req[q] /\ BearerFits(q) BY <1>1, <2>2 DEF Goods
      <3>2. \A k : k = req[q].token /\ Spared(k) => Spared(k)' BY <1>4
      <3> QED BY <3>1, <3>2, StaysAsItWas DEF BearerFits
    <2> QED BY <2>1, <2>2
  <1>17. ASSUME NEW q \in Requests PROVE Secret(q)'
    <2> SUFFICES ASSUME Granting(q)', req'[q].op = "login" PROVE Secret(q)' BY DEF Secret
    <2>1. q # r /\ req'[q] = req[q] /\ Granting(q) /\ Secret(q) BY <1>1, <1>3, StaysAsItWas DEF Goods
    <2>2. req[q].new \in Tokens BY <2>1 DEF Goods, AnswerFits, Granting
    <2>3. \A p \in Requests : p # q => req'[p].token # req[q].new /\ (Minted(p)' => req'[p].fam # req[q].new)
      BY <1>1, <1>3, <1>5, <2>1, <2>2, StaysAsItWas DEF Secret
    <2> QED BY <1>2, <2>1, <2>3 DEF Secret
  <1> QED BY <1>7, <1>8, <1>9, <1>10, <1>11, <1>12, <1>13, <1>14, <1>15, <1>16, <1>17 DEF Traffic, Goods

(* A reply, early or not: nobody waits any longer, and the jar has what it *)
(* brings, nothing, or what it had when nothing comes of the request.      *)
LEMMA RepliesQuietly ==
  ASSUME BInv, Traffic, Goods, NEW r \in Requests,
         \A q \in Requests : q # r => req'[q] = req[q],
         \/ req[r].pc = "done" /\ req'[r] = Idle
         \/ /\ req[r].pc = "ready" /\ req[r].says \in {"granted", "left"} /\ req'[r].pc = "answered"
            /\ req'[r].op = req[r].op /\ req'[r].token = req[r].token
            /\ req'[r].fam = req[r].fam /\ req'[r].new = req[r].new
            /\ req'[r].kills = req[r].kills /\ req'[r].says = req[r].says,
         UNCHANGED storeVars,
         \/ cookie' = 0
         \/ req[r].says = "granted" /\ cookie' = req[r].new
         \/ cookie' = cookie /\ ~Replacing(r),
         sender' = [sender EXCEPT ![r] = Nobody],
         \/ refreshing' = refreshing
         \/ sender[r].why = "call" /\ refreshing' = [refreshing EXCEPT ![sender[r].tab] = FALSE]
  PROVE  Traffic' /\ Goods'
  <1>0. UNCHANGED <<approved, expired, family, revoked, issued>> /\ SessionsTypeOK BY DEF storeVars, BInv, IInv
  <1>1. /\ Idle.pc = "idle" /\ Idle.op = "none" /\ Idle.token = 0 /\ Idle.new = 0 /\ Idle.kills = {} /\ Idle.says = "none"
        /\ \A k \in Tokens : k # 0
    BY DEF Idle, Tokens
  <1>2. ~Granting(r)' /\ ~Replacing(r)' /\ (Granting(r) <=> req[r].says = "granted")
    BY <1>1 DEF Granting, Replacing, Carrier
  <1>3. \A q \in Requests : /\ req'[q].token \in {0, req[q].token} /\ req'[q].new \in {0, req[q].new}
                            /\ req'[q].kills \subseteq req[q].kills
                            /\ (Carrier(q)' => Carrier(q) /\ req'[q].op = req[q].op)
                            /\ (Granting(q)' => q # r /\ Granting(q) /\ req'[q] = req[q])
                            /\ (Minted(q)' => Minted(q) /\ req'[q].fam = req[q].fam)
    BY <1>1, <1>2, StaysAsItWas DEF Granting, Minted, Pending, Carrier
  <1>4. \A k : Spared(k) => Spared(k)' BY <1>0, <1>3 DEF Spared
  <1>5. NoFault' BY <1>0 DEF Traffic, NoFault
  <1>6. Typed'
    <2>1. sender' \in [Requests -> [tab : Tabs \cup {"none"}, why : Reasons]]
      BY DEF Traffic, Typed, Nobody, Reasons
    <2>2. refreshing' \in [Tabs -> BOOLEAN] BY DEF Traffic, Typed
    <2> QED BY <2>1, <2>2 DEF Typed
  <1>7. Lone' BY <1>3 DEF Traffic, Lone
  <1>8. Carried'
    <2> SUFFICES ASSUME NEW q \in Requests PROVE req'[q].token \in 0..issued' BY DEF Carried
    <2>1. issued \in Nat /\ req[q].token \in 0..issued BY <1>0, SessionsAssumption DEF Traffic, Carried, SessionsTypeOK
    <2> QED BY <1>0, <1>3, <2>1
  <1>9. ASSUME NEW q \in Requests PROVE SenderFits(q)'
    <2>0. SenderFits(q) /\ SenderFits(r) /\ sender \in [Requests -> [tab : Tabs \cup {"none"}, why : Reasons]]
      BY DEF Traffic, Typed
    <2>1. CASE q = r
      <3>1. sender'[r] = Nobody /\ \A t \in Tabs : Nobody # [tab |-> t, why |-> "call"]
        BY <2>0 DEF Nobody
      <3>2. Carrier(r)' => req'[r].pc = "answered" BY <1>1 DEF Carrier
      <3> QED BY <2>1, <3>1, <3>2 DEF SenderFits
    <2>2. CASE q # r
      <3>1. sender'[q] = sender[q] /\ req'[q] = req[q] BY <2>0, <2>2
      <3>2. ASSUME NEW t \in Tabs, sender[q] = [tab |-> t, why |-> "call"] PROVE refreshing'[t]
        <4>1. refreshing[t] BY <2>0, <3>2 DEF SenderFits
        <4>2. ~(sender[r].why = "call" /\ sender[r].tab = t)
          <5> SUFFICES ASSUME sender[r].why = "call" PROVE FALSE OBVIOUS
          <5>1. sender[r] # Nobody /\ sender[q] # Nobody /\ sender[q].why = "call" BY <3>2 DEF Nobody
          <5>2. \A p \in Requests : req[p].op \in {"none", "login", "refresh", "logout"} BY <1>0 DEF SessionsTypeOK, Request
          <5>3. req[r].op = "refresh" /\ req[q].op = "refresh" /\ req[r].pc # "idle" /\ req[q].pc # "idle"
            BY <2>0, <5>1, <5>2 DEF SenderFits, Purpose
          <5>4. Carrier(r) /\ Carrier(q) BY <5>3 DEF Carrier
          <5> QED BY <2>2, <5>3, <5>4 DEF Traffic, Lone
        <4>3. refreshing \in [Tabs -> BOOLEAN] BY DEF Traffic, Typed
        <4> QED BY <4>1, <4>2, <4>3
      <3> QED BY <2>0, <3>1, <3>2, StaysAsItWas DEF SenderFits
    <2> QED BY <2>1, <2>2
  <1>10. RowsOnly'
    <2>1. \A q \in Requests : \A k \in req'[q].kills : family[k] # 0 BY <1>3 DEF Goods, RowsOnly
    <2> QED BY <1>0, <2>1 DEF Goods, RowsOnly
  <1>11. Grants'
    <2> SUFFICES ASSUME NEW q \in Requests, Granting(q)' PROVE Spared(req[q].new)' BY DEF Grants
    <2>1. Spared(req[q].new) /\ req'[q] = req[q] BY <1>3 DEF Goods, Grants
    <2>2. \A k : k = req[q].new => Spared(k)' BY <1>4, <2>1
    <2> QED BY <2>1, <2>2
  <1>12. Distinct'
    <2> SUFFICES ASSUME NEW q \in Requests, NEW p \in Requests, q # p, req'[q].new # 0, req'[q].new = req'[p].new
                 PROVE  FALSE
      BY DEF Distinct
    <2> QED BY <1>3 DEF Goods, Distinct
  <1>13. Jar'
    <2>1. CASE cookie' = 0 BY <2>1 DEF Jar
    <2>2. CASE req[r].says = "granted" /\ cookie' = req[r].new
      <3>1. Spared(req[r].new) BY <1>2, <2>2 DEF Goods, Grants
      <3>2. \A k : k = req[r].new => Spared(k)' BY <1>4, <3>1
      <3> QED BY <2>2, <3>2 DEF Jar
    <2>3. CASE cookie' = cookie /\ ~Replacing(r)
      <3>1. Spared(cookie) => Spared(cookie)' BY <1>4, <2>3
      <3> QED BY <2>3, <3>1, StaysAsItWas DEF Goods, Jar
    <2> QED BY <2>1, <2>2, <2>3
  <1>14. ASSUME NEW q \in Requests PROVE AnswerFits(q)' BY <1>1 DEF Goods, AnswerFits
  <1>15. ASSUME NEW q \in Requests PROVE BearerFits(q)'
    <2>1. CASE q = r
      <3>1. req[r].op = "refresh" => req[r].says # "left" BY DEF Goods, AnswerFits
      <3> QED BY <1>1, <2>1, <3>1 DEF BearerFits, Bearer, Carrier
    <2>2. CASE q # r
      <3>1. req'[q] = req[q] /\ BearerFits(q) BY <2>2 DEF Goods
      <3>2. \A k : k = req[q].token /\ Spared(k) => Spared(k)' BY <1>4
      <3> QED BY <3>1, <3>2, StaysAsItWas DEF BearerFits
    <2> QED BY <2>1, <2>2
  <1>16. ASSUME NEW q \in Requests PROVE Secret(q)'
    <2> SUFFICES ASSUME Granting(q)', req'[q].op = "login" PROVE Secret(q)' BY DEF Secret
    <2>1. q # r /\ req'[q] = req[q] /\ Granting(q) /\ Secret(q) BY <1>3 DEF Goods
    <2>2. req[q].new \in Tokens /\ req[q].new # 0 BY <1>1, <2>1 DEF Goods, AnswerFits, Granting
    <2>3. \A p \in Requests : p # q => req'[p].token # req[q].new /\ (Minted(p)' => req'[p].fam # req[q].new)
      BY <1>3, <2>1, <2>2 DEF Secret
    <2>4. cookie' # req[q].new BY <2>1, <2>2 DEF Goods, Distinct, Secret
    <2> QED BY <1>0, <2>1, <2>3, <2>4 DEF Secret
  <1> QED BY <1>5, <1>6, <1>7, <1>8, <1>9, <1>10, <1>11, <1>12, <1>13, <1>14, <1>15, <1>16 DEF Traffic, Goods

(* Steps of a tab by itself.                                               *)
LEMMA TabsKeepQuiet ==
  ASSUME Traffic, Goods, UNCHANGED <<sessionVars, cookie, sender, refreshing>>
  PROVE  Traffic' /\ Goods'
  <1>1. UNCHANGED <<approved, expired, family, revoked, issued, req, cookie, sender, refreshing>>
    BY DEF sessionVars, storeVars
  <1>2. \A q \in Requests : /\ (Carrier(q)' <=> Carrier(q)) /\ (Bearer(q)' <=> Bearer(q)) /\ (Granting(q)' <=> Granting(q))
                            /\ (Minted(q)' <=> Minted(q)) /\ (Replacing(q)' <=> Replacing(q))
    BY <1>1, StaysAsItWas
  <1>3. \A k : Spared(k)' <=> Spared(k) BY <1>1 DEF Spared
  <1>4. Traffic'
    <2>1. NoFault' /\ Typed' /\ Lone' /\ Carried' BY <1>1, <1>2 DEF Traffic, NoFault, Typed, Lone, Carried
    <2>2. \A q \in Requests : SenderFits(q)' BY <1>1, <1>2 DEF Traffic, SenderFits
    <2> QED BY <2>1, <2>2 DEF Traffic
  <1>5. Goods'
    <2>1. RowsOnly' /\ Distinct' BY <1>1 DEF Goods, RowsOnly, Distinct
    <2>2. Grants' /\ Jar' BY <1>1, <1>2, <1>3 DEF Goods, Grants, Jar
    <2>3. \A q \in Requests : AnswerFits(q)' /\ BearerFits(q)' BY <1>1, <1>2, <1>3 DEF Goods, AnswerFits, BearerFits
    <2>4. \A q \in Requests : Secret(q)' BY <1>1, <1>2 DEF Goods, Secret
    <2> QED BY <2>1, <2>2, <2>3, <2>4 DEF Goods
  <1> QED BY <1>4, <1>5

(* A page that is loaded while nothing carries the cookie.                 *)
LEMMA LoadsQuietly ==
  ASSUME BInv, Traffic, Goods, NEW r \in Requests, NEW t \in Tabs, PageLoad(r, t),
         ~CookieInFlight([tab |-> t, why |-> "none"])
  PROVE  Traffic' /\ Goods'
  <1>0. /\ sender \in [Requests -> [tab : Tabs \cup {"none"}, why : Reasons]] /\ refreshing \in [Tabs -> BOOLEAN]
        /\ \A q \in Requests : SenderFits(q) /\ req[q].op \in {"none", "login", "refresh", "logout"}
    BY DEF Traffic, Typed, BInv, IInv, SessionsTypeOK, Request
  <1>1. \A q \in Requests : ~Carrier(q)
    <2> SUFFICES ASSUME NEW q \in Requests, Carrier(q) PROVE FALSE OBVIOUS
    <2>1. sender[q] = [tab |-> t, why |-> "none"] BY DEF CookieInFlight, Carrier
    <2>2. sender[q] # Nobody /\ sender[q].why = "none" BY <2>1, BrowserAssumption DEF Nobody
    <2> QED BY <1>0, <2>2 DEF SenderFits, Purpose, Carrier
  <1>2. \A q \in Requests : ~\E i \in Tabs : sender[q] = [tab |-> i, why |-> "call"]
    <2> SUFFICES ASSUME NEW q \in Requests, NEW i \in Tabs, sender[q] = [tab |-> i, why |-> "call"] PROVE FALSE OBVIOUS
    <2>1. sender[q] # Nobody /\ sender[q].why = "call" BY DEF Nobody
    <2>2. Carrier(q) BY <1>0, <2>1 DEF SenderFits, Purpose, Carrier
    <2> QED BY <1>1, <2>2
  <1>3. sender' = [Abandoned(t) EXCEPT ![r] = [tab |-> t, why |-> "load"]] BY DEF PageLoad
  <1>4. /\ sender'[r] = [tab |-> t, why |-> "load"]
        /\ \A q \in Requests : q # r => sender'[q] = sender[q] \/ sender'[q] = Nobody
    BY <1>3 DEF Abandoned
  <1>5. Typed'
    <2>1. sender' \in [Requests -> [tab : Tabs \cup {"none"}, why : Reasons]]
      BY <1>0, <1>3 DEF Abandoned, Nobody, Reasons
    <2>2. refreshing' \in [Tabs -> BOOLEAN] BY <1>0 DEF PageLoad
    <2> QED BY <2>1, <2>2 DEF Typed
  <1>6. \A q \in Requests, i \in Tabs : q # r => sender'[q] # [tab |-> i, why |-> "call"]
    BY <1>2, <1>4 DEF Nobody
  <1>7. Send(r, "refresh", cookie) /\ cookie' = cookie BY DEF PageLoad
  <1>8. "load" \in Purpose("refresh") BY DEF Purpose
  <1> QED BY <1>1, <1>4, <1>5, <1>6, <1>7, <1>8, SendsQuietly

(* A request that a tab asks for, when it may.                             *)
LEMMA AsksQuietly ==
  ASSUME BInv, Traffic, Goods, NEW r \in Requests, NEW t \in Tabs, NEW op \in {"login", "refresh", "logout"},
         NEW why \in Purpose(op), why # "load", Ask(r, t, op, why),
         op # "login" => ~CookieInFlight([tab |-> t, why |-> why]),
         \/ op # "refresh" /\ refreshing' = refreshing
         \/ ~refreshing[t] /\ refreshing' = [refreshing EXCEPT ![t] = TRUE]
  PROVE  Traffic' /\ Goods'
  <1>0. /\ sender \in [Requests -> [tab : Tabs \cup {"none"}, why : Reasons]] /\ refreshing \in [Tabs -> BOOLEAN]
        /\ \A q \in Requests : SenderFits(q) /\ req[q].op \in {"none", "login", "refresh", "logout"}
    BY DEF Traffic, Typed, BInv, IInv, SessionsTypeOK, Request
  <1>1. why \in {"call", "login", "logout"} /\ (why = "call" <=> op = "refresh") BY DEF Purpose
  <1>2. op = "refresh" => \A q \in Requests : ~Carrier(q)
    <2> SUFFICES ASSUME op = "refresh", NEW q \in Requests, Carrier(q) PROVE FALSE OBVIOUS
    <2>1. sender[q] = [tab |-> t, why |-> "call"] BY <1>1 DEF CookieInFlight, Carrier
    <2>2. refreshing[t] BY <1>0, <2>1 DEF SenderFits
    <2> QED BY <2>2
  <1>3. op = "logout" => \A q \in Requests : Carrier(q) => req[q].op = "logout"
    <2> SUFFICES ASSUME op = "logout", NEW q \in Requests, Carrier(q) PROVE req[q].op = "logout" OBVIOUS
    <2>1. why = "logout" BY DEF Purpose
    <2>2. sender[q] = [tab |-> t, why |-> "logout"] BY <2>1 DEF CookieInFlight, Carrier
    <2>3. sender[q] # Nobody /\ sender[q].why = "logout" BY <2>2 DEF Nobody
    <2> QED BY <1>0, <2>3 DEF SenderFits, Purpose
  <1>4. sender' = [sender EXCEPT ![r] = [tab |-> t, why |-> why]] BY DEF Ask
  <1>5. sender'[r] = [tab |-> t, why |-> why] /\ \A q \in Requests : q # r => sender'[q] = sender[q]
    BY <1>0, <1>4
  <1>6. Typed'
    <2>1. sender' \in [Requests -> [tab : Tabs \cup {"none"}, why : Reasons]]
      BY <1>0, <1>1, <1>4 DEF Reasons
    <2>2. refreshing' \in [Tabs -> BOOLEAN] BY <1>0
    <2> QED BY <2>1, <2>2 DEF Typed
  <1>7. \A i \in Tabs : refreshing[i] => refreshing'[i] BY <1>0
  <1>8. \A q \in Requests, i \in Tabs : q # r /\ sender'[q] = [tab |-> i, why |-> "call"] => refreshing'[i]
    BY <1>0, <1>5, <1>7 DEF SenderFits
  <1>9. why = "call" => refreshing'[t] BY <1>0, <1>1
  <1>10. Send(r, op, IF op = "login" THEN 0 ELSE cookie) /\ cookie' = cookie BY DEF Ask
  <1> QED BY <1>2, <1>3, <1>5, <1>6, <1>8, <1>9, <1>10, SendsQuietly

(* What a reply does to the promise of the interceptor.                    *)
LEMMA PromiseSettles ==
  ASSUME NEW r \in Requests, NEW good \in BOOLEAN, ToTab(r, good)
  PROVE  /\ sender' = [sender EXCEPT ![r] = Nobody]
         /\ \/ refreshing' = refreshing
            \/ sender[r].why = "call" /\ refreshing' = [refreshing EXCEPT ![sender[r].tab] = FALSE]
  <1> DEFINE t == sender[r].tab
             why == sender[r].why
  <1>1. sender' = [sender EXCEPT ![r] = Nobody] BY DEF ToTab
  <1>2. UNCHANGED tabVars \/ Granted(t, why) \/ Failed(t, why) BY DEF ToTab
  <1> HIDE DEF t, why
  <1>3. refreshing' = refreshing \/ (why = "call" /\ refreshing' = [refreshing EXCEPT ![t] = FALSE])
    BY <1>2 DEF tabVars, Granted, Failed
  <1> QED BY <1>1, <1>3 DEF t, why

(* The histories only grow.                                                *)
LEMMA HistoryGrows ==
  ASSUME [Next]_vars, disturbed \in BOOLEAN, limited \in BOOLEAN, signedOut \in BOOLEAN
  PROVE  /\ disturbed' \in BOOLEAN /\ limited' \in BOOLEAN /\ signedOut' \in BOOLEAN
         /\ disturbed => disturbed'
         /\ limited => limited'
  <1> DEFINE Grows == /\ disturbed' \in BOOLEAN /\ limited' \in BOOLEAN /\ signedOut' \in BOOLEAN
                      /\ disturbed => disturbed'
                      /\ limited => limited'
  <1>1. ASSUME NEW r \in Requests, NEW t \in Tabs, PageLoad(r, t) \/ LoginClick(r, t) \/ LogoutClick(r, t) PROVE Grows
    BY <1>1 DEF PageLoad, LoginClick, LogoutClick, Ask
  <1>2. ASSUME NEW t \in Tabs, NEW c \in Calls, CallApi(t, c) \/ Intercept(t, c) PROVE Grows
    BY <1>2 DEF CallApi, Intercept, Answered, JoinRefresh, StartRefresh, Ask
  <1>3. ASSUME NEW r \in Requests, NEW good \in BOOLEAN, ToTab(r, good) PROVE signedOut' \in BOOLEAN
    BY <1>3 DEF ToTab
  <1>4. ASSUME NEW r \in Requests, Work(r) \/ NoReply(r) PROVE Grows
    BY <1>3, <1>4 DEF Work, ServeRequest, GoodReply, ErrorReply, NoReply, Fault
  <1>5. CASE TokenExpires \/ AccountDisabled
    <2>1. disturbed' = TRUE /\ limited' = limited /\ signedOut' = signedOut
      BY <1>5 DEF TokenExpires, AccountDisabled, Fault
    <2> QED BY <2>1
  <1>6. CASE (\E t \in Tabs : AccessRunsOut(t)) \/ UNCHANGED vars
    <2>1. disturbed' = disturbed /\ limited' = limited /\ signedOut' = signedOut
      BY <1>6 DEF AccessRunsOut, vars, browserVars
    <2> QED BY <2>1
  <1> QED BY <1>1, <1>2, <1>4, <1>5, <1>6 DEF Next

(* A quiet browser stays quiet, until something disturbs it.               *)
LEMMA StaysQuiet == Quiet /\ [Next]_vars => Quiet'
  <1> SUFFICES ASSUME Quiet, [Next]_vars PROVE Quiet' OBVIOUS
  <1>0. /\ BInv /\ BInv' /\ disturbed' \in BOOLEAN /\ limited' \in BOOLEAN /\ signedOut' \in BOOLEAN
        /\ disturbed => disturbed'
        /\ limited => limited'
    BY BrowserStep, HistoryGrows DEF Quiet
  <1> SUFFICES ASSUME ~disturbed', ~limited' PROVE (Traffic' /\ Goods') /\ ~signedOut' BY <1>0 DEF Quiet, Calm
  <1>1. BInv /\ Traffic /\ Goods /\ ~disturbed /\ ~signedOut BY <1>0 DEF Quiet, Calm
  <1>2. ASSUME NEW r \in Requests, NEW t \in Tabs, PageLoad(r, t) PROVE (Traffic' /\ Goods') /\ ~signedOut'
    <2>1. ~CookieInFlight([tab |-> t, why |-> "none"]) /\ signedOut' = signedOut BY <1>2 DEF PageLoad
    <2> QED BY <1>1, <1>2, <2>1, LoadsQuietly
  <1>3. ASSUME NEW r \in Requests, NEW t \in Tabs, LoginClick(r, t) PROVE (Traffic' /\ Goods') /\ ~signedOut'
    <2>1. Ask(r, t, "login", "login") /\ refreshing' = refreshing /\ signedOut' = signedOut /\ "login" \in Purpose("login")
      BY <1>3 DEF LoginClick, tabVars, Ask, Purpose
    <2> QED BY <1>1, <2>1, AsksQuietly
  <1>4. ASSUME NEW r \in Requests, NEW t \in Tabs, LogoutClick(r, t) PROVE (Traffic' /\ Goods') /\ ~signedOut'
    <2>1. /\ Ask(r, t, "logout", "logout") /\ refreshing' = refreshing /\ signedOut' = signedOut
          /\ "logout" \in Purpose("logout")
      BY <1>4 DEF LogoutClick, Ask, Purpose
    <2>2. ~CookieInFlight([tab |-> t, why |-> "logout"]) BY <2>1 DEF Ask
    <2> QED BY <1>1, <2>1, <2>2, AsksQuietly
  <1>5. ASSUME NEW r \in Requests, NEW t \in Tabs, NEW c \in Calls, StartRefresh(r, t, c)
        PROVE  (Traffic' /\ Goods') /\ ~signedOut'
    <2>1. /\ Ask(r, t, "refresh", "call") /\ ~refreshing[t] /\ refreshing' = [refreshing EXCEPT ![t] = TRUE]
          /\ signedOut' = signedOut /\ "call" \in Purpose("refresh")
      BY <1>5 DEF StartRefresh, Ask, Purpose
    <2>2. ~CookieInFlight([tab |-> t, why |-> "call"]) BY <2>1 DEF Ask
    <2> QED BY <1>1, <2>1, <2>2, AsksQuietly
  <1>6. ASSUME \/ \E t \in Tabs, c \in Calls : CallApi(t, c) \/ Answered(t, c) \/ JoinRefresh(t, c)
               \/ \E t \in Tabs : AccessRunsOut(t)
               \/ UNCHANGED vars
        PROVE  (Traffic' /\ Goods') /\ ~signedOut'
    <2>1. UNCHANGED <<sessionVars, cookie, sender, refreshing, signedOut>>
      BY <1>6 DEF CallApi, Answered, JoinRefresh, AccessRunsOut, vars, browserVars, tabVars
    <2> QED BY <1>1, <2>1, TabsKeepQuiet
  <1>7. ASSUME NEW r \in Requests, ServeRequest(r) PROVE (Traffic' /\ Goods') /\ ~signedOut'
    <2>1. Serve(r) /\ UNCHANGED <<cookie, sender, refreshing, signedOut>> BY <1>7 DEF ServeRequest, tabVars
    <2>2. (Refreshing(r) /\ req[r].token # 0 => family[req[r].token] # 0) /\ req'[r].says # "limited"
      BY <1>7 DEF ServeRequest
    <2> QED BY <1>1, <2>1, <2>2, ServesQuietly
  <1>8. req \in [Requests -> Request] BY <1>1 DEF BInv, IInv, SessionsTypeOK
  <1>9. ASSUME NEW r \in Requests, GoodReply(r) PROVE (Traffic' /\ Goods') /\ ~signedOut'
    <2>1. /\ \A q \in Requests : q # r => req'[q] = req[q]
          /\ \/ req[r].pc = "done" /\ req'[r] = Idle
             \/ /\ req[r].pc = "ready" /\ req[r].says \in {"granted", "left"} /\ req'[r].pc = "answered"
                /\ req'[r].op = req[r].op /\ req'[r].token = req[r].token
                /\ req'[r].fam = req[r].fam /\ req'[r].new = req[r].new
                /\ req'[r].kills = req[r].kills /\ req'[r].says = req[r].says
          /\ UNCHANGED storeVars
      <3>1. CASE Reply(r) BY <1>8, <3>1 DEF Reply
      <3>2. CASE ReplyEarly(r)
        <4>1. Step(r, "answered") /\ req[r].pc = "ready" /\ req[r].says \in {"granted", "left"} /\ UNCHANGED storeVars
          BY <3>2 DEF ReplyEarly
        <4> QED BY <1>8, <4>1, Stepped
      <3> QED BY <1>9, <3>1, <3>2 DEF GoodReply
    <2>2. sender[r] = Nobody => ~Replacing(r)
      BY <1>1, <2>1 DEF Traffic, SenderFits, Replacing
    <2>3. \/ cookie' = 0
          \/ req[r].says = "granted" /\ cookie' = req[r].new
          \/ cookie' = cookie /\ ~Replacing(r)
      BY <1>9, <2>2 DEF GoodReply
    <2>4. ToTab(r, TRUE) BY <1>9 DEF GoodReply
    <2>5. ~signedOut'
      <3>1. \E lost \in BOOLEAN : signedOut' = (signedOut \/ (lost /\ ~TRUE)) BY <2>4 DEF ToTab
      <3> QED BY <1>1, <3>1
    <2>6. /\ sender' = [sender EXCEPT ![r] = Nobody]
          /\ \/ refreshing' = refreshing
             \/ sender[r].why = "call" /\ refreshing' = [refreshing EXCEPT ![sender[r].tab] = FALSE]
      BY <2>4, PromiseSettles
    <2> QED BY <1>1, <2>1, <2>3, <2>5, <2>6, RepliesQuietly
  (* A refusal is not the answer to a refresh that carried the cookie.     *)
  <1>10. ASSUME NEW r \in Requests, ErrorReply(r) PROVE (Traffic' /\ Goods') /\ ~signedOut'
    <2>1. /\ \A q \in Requests : q # r => req'[q] = req[q]
          /\ req[r].pc = "done" /\ req'[r] = Idle /\ UNCHANGED storeVars
          /\ req[r].says \in {"denied", "reuse", "limited"} /\ cookie' = cookie
      BY <1>8, <1>10 DEF ErrorReply, Reply
    <2>2. ~Replacing(r) /\ ~Bearer(r) BY <1>1, <2>1 DEF Goods, AnswerFits, BearerFits, Replacing, Bearer
    <2>3. ToTab(r, FALSE) BY <1>10 DEF ErrorReply
    <2>4. /\ sender' = [sender EXCEPT ![r] = Nobody]
          /\ \/ refreshing' = refreshing
             \/ sender[r].why = "call" /\ refreshing' = [refreshing EXCEPT ![sender[r].tab] = FALSE]
      BY <2>3, PromiseSettles
    <2>5. ~(sender[r].tab # "none" /\ sender[r].why \in {"load", "call"} /\ req[r].token # 0)
      <3> SUFFICES ASSUME sender[r].tab # "none", sender[r].why \in {"load", "call"}, req[r].token # 0 PROVE FALSE OBVIOUS
      <3>1. sender[r] # Nobody BY DEF Nobody
      <3>2. req[r].op \in {"none", "login", "refresh", "logout"} BY <1>8 DEF Request
      <3>3. req[r].op = "refresh" BY <1>1, <3>1, <3>2 DEF Traffic, SenderFits, Purpose
      <3> QED BY <2>1, <2>2, <3>3 DEF Bearer, Carrier
    <2>6. ~signedOut'
      <3>1. signedOut' = (signedOut \/ (sender[r].tab # "none" /\ sender[r].why \in {"load", "call"} /\ ~FALSE /\ req[r].token # 0))
        BY <2>3 DEF ToTab
      <3> QED BY <1>1, <2>5, <3>1
    <2> QED BY <1>1, <2>1, <2>2, <2>4, <2>6, RepliesQuietly
  <1>11. ~(\E r \in Requests : NoReply(r)) /\ ~TokenExpires /\ ~AccountDisabled
    BY DEF NoReply, TokenExpires, AccountDisabled, Fault
  <1> QED BY <1>2, <1>3, <1>4, <1>5, <1>6, <1>7, <1>9, <1>10, <1>11 DEF Next, Work, Intercept

(* It is quiet at first.                                                   *)
LEMMA QuietAtFirst == Init => Quiet
  <1> SUFFICES ASSUME Init PROVE Quiet OBVIOUS
  <1>1. BInv /\ SessionsInit /\ issued = 1 /\ cookie = 1 BY BrowserInit DEF Init
  <1>2. /\ Idle.pc = "idle" /\ Idle.op = "none" /\ Idle.token = 0 /\ Idle.new = 0 /\ Idle.kills = {} /\ Idle.says = "none"
    BY DEF Idle
  <1>3. \A r \in Requests : req[r] = Idle BY <1>1 DEF SessionsInit
  <1>4. \A r \in Requests : ~Carrier(r) /\ ~Granting(r) BY <1>2, <1>3 DEF Carrier, Granting
  <1>5. approved /\ expired = {} /\ revoked = {} BY <1>1 DEF SessionsInit
  <1>6. Traffic
    <2>1. NoFault /\ Lone BY <1>4, <1>5 DEF NoFault, Lone
    <2>2. Typed BY DEF Init, Typed, Nobody, Reasons
    <2>3. Carried
      <3>1. \A r \in Requests : req[r].token = 0 BY <1>2, <1>3
      <3>2. 0 \in 0..1 OBVIOUS
      <3> QED BY <1>1, <3>1, <3>2 DEF Carried
    <2>4. \A r \in Requests : SenderFits(r)
      <3> SUFFICES ASSUME NEW r \in Requests PROVE SenderFits(r) OBVIOUS
      <3>1. sender[r] = Nobody /\ \A t \in Tabs : Nobody # [tab |-> t, why |-> "call"] BY DEF Init, Nobody
      <3> QED BY <1>4, <3>1 DEF SenderFits
    <2> QED BY <2>1, <2>2, <2>3, <2>4 DEF Traffic
  <1>7. Goods
    <2>1. RowsOnly /\ Grants /\ Distinct BY <1>2, <1>3, <1>4, <1>5 DEF RowsOnly, Grants, Distinct
    <2>2. Jar BY <1>2, <1>3, <1>5 DEF Jar, Spared
    <2>3. \A r \in Requests : AnswerFits(r) /\ BearerFits(r) /\ Secret(r)
      BY <1>2, <1>3, <1>4 DEF AnswerFits, BearerFits, Bearer, Secret
    <2> QED BY <2>1, <2>2, <2>3 DEF Goods
  <1> QED BY <1>1, <1>6, <1>7 DEF Quiet, Calm, Init

(* Behind any number of tabs and calls, if no refresh was refused by the   *)
(* rate limit of the route, a user is signed out by nothing but a fault,   *)
(* or two requests that carried the cookie at a time (lib/api.ts refreshes *)
(* once for all calls of a tab, so that they never look like the second    *)
(* use of a token that was rotated).                                       *)
THEOREM NobodyIsSignedOut == Spec => []StaysSignedIn
  <1>1. Quiet => StaysSignedIn BY DEF Quiet, StaysSignedIn
  <1> QED BY <1>1, QuietAtFirst, StaysQuiet, PTL DEF Spec

(***************************************************************************)
(* The bound on tokens. Every token is paid for by an event: a page load   *)
(* or a login, or a call that found its access token stale. While the      *)
(* account is approved, what may still cost a token is a request that has  *)
(* not been decided, and a call that has yet to ask for a refresh.         *)
(***************************************************************************)
Asked(r) == req[r].pc = "row" \/ (req[r].pc = "sent" /\ req[r].op # "logout")
AskedFor == {r \in Requests : approved /\ Asked(r)}
Unanswered == {p \in Tabs \X Calls : approved /\ call[p[1]][p[2]] = "unauthorized"}

Paid ==
  /\ IsFiniteSet(AskedFor) /\ IsFiniteSet(Unanswered) /\ events \in 0..MaxEvents
  /\ issued + Cardinality(AskedFor) + Cardinality(Unanswered) <= 1 + events

(* One more in a finite set.                                               *)
LEMMA OneMore ==
  ASSUME NEW S, IsFiniteSet(S), NEW x, NEW T, T \subseteq S \cup {x}
  PROVE  IsFiniteSet(T) /\ Cardinality(T) \in Nat /\ Cardinality(S) \in Nat /\ Cardinality(T) <= Cardinality(S) + 1
  <1>1. IsFiniteSet(S \cup {x}) /\ Cardinality(S \cup {x}) <= Cardinality(S) + 1 /\ Cardinality(S) \in Nat
    BY FS_AddElement, FS_CardinalityType
  <1>2. T \in SUBSET (S \cup {x}) OBVIOUS
  <1>3. IsFiniteSet(T) /\ Cardinality(T) <= Cardinality(S \cup {x}) BY <1>1, <1>2, FS_Subset
  <1>4. Cardinality(T) \in Nat /\ Cardinality(S \cup {x}) \in Nat BY <1>1, <1>3, FS_CardinalityType
  <1> QED BY <1>1, <1>3, <1>4

(* None more: part of a finite set.                                        *)
LEMMA NoMore ==
  ASSUME NEW S, IsFiniteSet(S), NEW T, T \subseteq S
  PROVE  IsFiniteSet(T) /\ Cardinality(T) \in Nat /\ Cardinality(S) \in Nat /\ Cardinality(T) <= Cardinality(S)
  <1>1. T \in SUBSET S OBVIOUS
  <1> QED BY <1>1, FS_Subset, FS_CardinalityType

(* One less in a finite set.                                               *)
LEMMA OneLess ==
  ASSUME NEW S, IsFiniteSet(S), NEW x \in S, NEW T, T \subseteq S \ {x}
  PROVE  IsFiniteSet(T) /\ Cardinality(T) \in Nat /\ Cardinality(S) \in Nat /\ Cardinality(T) + 1 <= Cardinality(S)
  <1>1. IsFiniteSet(S \ {x}) /\ Cardinality(S \ {x}) = Cardinality(S) - 1 /\ Cardinality(S) \in Nat
    BY FS_RemoveElement, FS_CardinalityType
  <1> QED BY <1>1, NoMore

(* What is paid stays paid: an event pays for one more that may ask, a     *)
(* call hands on what it has to its refresh, and a request to its token.   *)
LEMMA StaysPaid ==
  ASSUME Paid, issued \in Nat, events' \in 0..MaxEvents,
         \/ /\ AskedFor' \subseteq AskedFor /\ Unanswered' \subseteq Unanswered
            /\ issued' = issued /\ events' \in {events, events + 1}
         \/ /\ \E x : AskedFor' \subseteq AskedFor \cup {x}
            /\ Unanswered' \subseteq Unanswered /\ issued' = issued /\ events' = events + 1
         \/ /\ AskedFor' \subseteq AskedFor /\ issued' = issued /\ events' = events + 1
            /\ \E p : Unanswered' \subseteq Unanswered \cup {p}
         \/ /\ \E x : AskedFor' \subseteq AskedFor \cup {x}
            /\ \E p \in Unanswered : Unanswered' \subseteq Unanswered \ {p}
            /\ issued' = issued /\ events' = events
         \/ /\ \E x \in AskedFor : AskedFor' \subseteq AskedFor \ {x}
            /\ Unanswered' \subseteq Unanswered /\ issued' = issued + 1 /\ events' = events
  PROVE  Paid'
  <1>0. IsFiniteSet(AskedFor) /\ IsFiniteSet(Unanswered) /\ events \in Nat
        /\ issued + Cardinality(AskedFor) + Cardinality(Unanswered) <= 1 + events
    BY BrowserAssumption DEF Paid
  <1>a. AskedFor' \subseteq AskedFor =>
          IsFiniteSet(AskedFor') /\ Cardinality(AskedFor') \in Nat /\ Cardinality(AskedFor) \in Nat
            /\ Cardinality(AskedFor') <= Cardinality(AskedFor)
    BY <1>0, NoMore
  <1>b. Unanswered' \subseteq Unanswered =>
          IsFiniteSet(Unanswered') /\ Cardinality(Unanswered') \in Nat /\ Cardinality(Unanswered) \in Nat
            /\ Cardinality(Unanswered') <= Cardinality(Unanswered)
    BY <1>0, NoMore
  <1>c. (\E x : AskedFor' \subseteq AskedFor \cup {x}) =>
          IsFiniteSet(AskedFor') /\ Cardinality(AskedFor') \in Nat /\ Cardinality(AskedFor) \in Nat
            /\ Cardinality(AskedFor') <= Cardinality(AskedFor) + 1
    BY <1>0, OneMore
  <1>d. (\E p : Unanswered' \subseteq Unanswered \cup {p}) =>
          IsFiniteSet(Unanswered') /\ Cardinality(Unanswered') \in Nat /\ Cardinality(Unanswered) \in Nat
            /\ Cardinality(Unanswered') <= Cardinality(Unanswered) + 1
    BY <1>0, OneMore
  <1>e. (\E p \in Unanswered : Unanswered' \subseteq Unanswered \ {p}) =>
          IsFiniteSet(Unanswered') /\ Cardinality(Unanswered') \in Nat /\ Cardinality(Unanswered) \in Nat
            /\ Cardinality(Unanswered') + 1 <= Cardinality(Unanswered)
    BY <1>0, OneLess
  <1>f. (\E x \in AskedFor : AskedFor' \subseteq AskedFor \ {x}) =>
          IsFiniteSet(AskedFor') /\ Cardinality(AskedFor') \in Nat /\ Cardinality(AskedFor) \in Nat
            /\ Cardinality(AskedFor') + 1 <= Cardinality(AskedFor)
    BY <1>0, OneLess
  <1>1. IsFiniteSet(AskedFor') /\ IsFiniteSet(Unanswered') BY <1>a, <1>b, <1>c, <1>d, <1>e, <1>f
  <1>2. issued' + Cardinality(AskedFor') + Cardinality(Unanswered') <= 1 + events'
    <2> DEFINE a == Cardinality(AskedFor)
               b == Cardinality(Unanswered)
               c == Cardinality(AskedFor')
               d == Cardinality(Unanswered')
    <2>1. a \in Nat /\ b \in Nat /\ c \in Nat /\ d \in Nat BY <1>0, <1>1, FS_CardinalityType
    <2>2. \/ c <= a /\ d <= b /\ issued' = issued /\ events' \in {events, events + 1}
          \/ c <= a + 1 /\ d <= b /\ issued' = issued /\ events' = events + 1
          \/ c <= a /\ d <= b + 1 /\ issued' = issued /\ events' = events + 1
          \/ c <= a + 1 /\ d + 1 <= b /\ issued' = issued /\ events' = events
          \/ c + 1 <= a /\ d <= b /\ issued' = issued + 1 /\ events' = events
      <3> HIDE DEF a, b, c, d
      <3>1. AskedFor' \subseteq AskedFor => c <= a BY <1>a DEF a, c
      <3>2. Unanswered' \subseteq Unanswered => d <= b BY <1>b DEF b, d
      <3>3. (\E x : AskedFor' \subseteq AskedFor \cup {x}) => c <= a + 1 BY <1>c DEF a, c
      <3>4. (\E p : Unanswered' \subseteq Unanswered \cup {p}) => d <= b + 1 BY <1>d DEF b, d
      <3>5. (\E p \in Unanswered : Unanswered' \subseteq Unanswered \ {p}) => d + 1 <= b BY <1>e DEF b, d
      <3>6. (\E x \in AskedFor : AskedFor' \subseteq AskedFor \ {x}) => c + 1 <= a BY <1>f DEF a, c
      <3> QED BY <3>1, <3>2, <3>3, <3>4, <3>5, <3>6
    <2>3. issued + a + b <= 1 + events BY <1>0
    <2> HIDE DEF a, b, c, d
    <2>4. issued' + c + d <= 1 + events' BY <1>0, <2>1, <2>2, <2>3
    <2> QED BY <2>4 DEF c, d
  <1> QED BY <1>1, <1>2, BrowserAssumption DEF Paid

(* If one request moves, no other starts to ask.                           *)
LEMMA OthersAskAsBefore ==
  ASSUME NEW r \in Requests, approved' = approved, \A q \in Requests : q # r => req'[q] = req[q]
  PROVE  /\ AskedFor' \subseteq AskedFor \cup {r}
         /\ (Asked(r)' => Asked(r)) => AskedFor' \subseteq AskedFor
         /\ ~Asked(r)' => AskedFor' \subseteq AskedFor \ {r}
  BY DEF AskedFor, Asked

(* The server mints a token only for a request that asked, and is done     *)
(* with it then.                                                           *)
Serving(r) ==
  /\ approved' = approved /\ \A q \in Requests : q # r => req'[q] = req[q]
  /\ Asked(r)' => Asked(r)
  /\ issued' = issued \/ (issued' = issued + 1 /\ r \in AskedFor /\ ~Asked(r)')

(* Whatever the server does for a request, it does as Serving says.        *)
LEMMA ServesForAskers ==
  ASSUME req \in [Requests -> Request], NEW r \in Requests,
         Serve(r) \/ Reply(r) \/ ReplyEarly(r) \/ Die(r)
  PROVE  Serving(r)
  <1>0. DOMAIN req = Requests /\ Idle.pc = "idle" BY DEF Idle
  <1>1. ASSUME NEW says, Finish(r, says), approved' = approved, issued' = issued PROVE Serving(r)
    <2>1. DOMAIN req[r] = DOMAIN req[r] /\ req'[r].pc = "done" /\ \A q \in Requests : q # r => req'[q] = req[q]
      BY <1>1 DEF Finish, Request
    <2> QED BY <1>1, <2>1 DEF Serving, Asked
  <1>2. ASSUME NEW fam, NEW new, NEW kills, NEW says, Prepare(r, fam, new, kills, says), approved' = approved
        PROVE  ~Asked(r)' /\ \A q \in Requests : q # r => req'[q] = req[q]
    <2>1. req'[r].pc = "ready" /\ \A q \in Requests : q # r => req'[q] = req[q]
      BY <1>2 DEF Prepare, Request
    <2> QED BY <2>1 DEF Asked
  <1>3. CASE Login(r)
    <2>1. ASSUME Mint, Prepare(r, issued + 1, issued + 1, {}, "granted"), approved PROVE Serving(r)
      <3>1. r \in AskedFor BY <1>3, <2>1 DEF Login, AskedFor, Asked
      <3> QED BY <1>2, <1>3, <2>1, <3>1 DEF Login, Serving, Mint
    <2> QED BY <1>1, <1>3, <2>1 DEF Login
  <1>4. CASE RefreshInvalid(r) \/ RefreshLimited(r) BY <1>1, <1>4 DEF RefreshInvalid, RefreshLimited, storeVars
  <1>5. CASE RefreshReused(r) BY <1>2, <1>5 DEF RefreshReused, Close, Serving, storeVars
  <1>6. CASE RefreshExpired(r) BY <1>2, <1>6 DEF RefreshExpired, Serving, storeVars
  <1>7. CASE RefreshRow(r)
    <2>1. Asked(r) BY <1>7 DEF RefreshRow, Refreshing, Asked
    <2>2. \A q \in Requests : q # r => req'[q] = req[q] BY <1>7 DEF RefreshRow, Step
    <2> QED BY <1>7, <2>1, <2>2 DEF RefreshRow, Serving, storeVars
  <1>8. CASE RefreshUser(r)
    <2>1. CASE approved
      <3>1. r \in AskedFor BY <1>8, <2>1 DEF RefreshUser, AskedFor, Asked
      <3>2. Mint /\ Prepare(r, family[req[r].token], issued + 1, {req[r].token}, "granted") /\ approved' = approved
        BY <1>8, <2>1 DEF RefreshUser
      <3>3. ~Asked(r)' /\ \A q \in Requests : q # r => req'[q] = req[q] BY <1>2, <3>2
      <3> QED BY <3>1, <3>2, <3>3 DEF Serving, Mint
    <2>2. CASE ~approved BY <1>1, <1>8, <2>2 DEF RefreshUser
    <2> QED BY <2>1, <2>2
  <1>9. CASE Logout(r)
    <2>1. approved' = approved /\ issued' = issued BY <1>9 DEF Logout, storeVars
    <2>2. Close(r, "left") \/ Finish(r, "left") BY <1>9 DEF Logout
    <2>3. CASE Close(r, "left") BY <1>2, <2>1, <2>3 DEF Close, Serving
    <2> QED BY <1>1, <2>1, <2>2, <2>3
  <1>10. CASE Commit(r) \/ Reply(r) \/ ReplyEarly(r) \/ Die(r)
    <2>1. approved' = approved /\ issued' = issued BY <1>10 DEF Commit, Reply, ReplyEarly, Die, storeVars
    <2>2. \A q \in Requests : q # r => req'[q] = req[q] BY <1>10 DEF Commit, Reply, ReplyEarly, Die, Step
    <2>3. req'[r].pc \in {"idle", "done", "answered"}
      <3>1. CASE Commit(r)
        <4>1. req'[r] = IF req[r].pc = "ready" THEN [req[r] EXCEPT !.pc = "done"] ELSE Idle BY <3>1 DEF Commit
        <4>2. [req[r] EXCEPT !.pc = "done"].pc = "done" BY DEF Request
        <4> QED BY <1>0, <4>1, <4>2
      <3>2. CASE Reply(r) \/ Die(r) BY <1>0, <3>2 DEF Reply, Die
      <3>3. CASE ReplyEarly(r)
        <4>1. [req[r] EXCEPT !.pc = "answered"].pc = "answered" BY DEF Request
        <4> QED BY <3>3, <4>1 DEF ReplyEarly, Step
      <3> QED BY <1>10, <3>1, <3>2, <3>3
    <2> QED BY <2>1, <2>2, <2>3 DEF Serving, Asked
  <1> QED BY <1>3, <1>4, <1>5, <1>6, <1>7, <1>8, <1>9, <1>10 DEF Serve

(* The rest of the types.                                                  *)
TabTypes ==
  /\ access \in [Tabs -> {"none", "good", "stale"}]
  /\ status \in [Tabs -> {"loading", "in", "out"}]
  /\ call \in [Tabs -> [Calls -> CallStates]]
  /\ refreshing \in [Tabs -> BOOLEAN]

(* No call of any tab starts to be without an answer.                      *)
LEMMA CallsAskNoMore ==
  ASSUME call \in [Tabs -> [Calls -> CallStates]], approved' => approved,
         \A t \in Tabs, c \in Calls : call'[t][c] = "unauthorized" /\ approved => call[t][c] = "unauthorized"
  PROVE  Unanswered' \subseteq Unanswered
  BY DEF Unanswered

(* A request is sent.                                                      *)
LEMMA SendAsks ==
  ASSUME req \in [Requests -> Request], NEW r \in Requests, NEW op, NEW token, Send(r, op, token)
  PROVE  /\ approved' = approved /\ issued' = issued
         /\ AskedFor' \subseteq AskedFor \cup {r}
         /\ op = "logout" => AskedFor' \subseteq AskedFor
  <1>1. approved' = approved /\ issued' = issued /\ \A q \in Requests : q # r => req'[q] = req[q]
    BY DEF Send, storeVars
  <1>2. req'[r].pc = "sent" /\ req'[r].op = op BY DEF Send, Idle
  <1> QED BY <1>1, <1>2, OthersAskAsBefore DEF Asked

(* A reply changes the tab that waits for it: calls are answered, sent     *)
(* again, or given up.                                                     *)
LEMMA RepliesType ==
  ASSUME TabTypes, NEW r \in Requests, NEW good, ToTab(r, good)
  PROVE  /\ TabTypes'
         /\ \A t \in Tabs, c \in Calls :
               call'[t][c] = "unauthorized" /\ approved => call[t][c] = "unauthorized"
  <1> DEFINE u == sender[r].tab
             why == sender[r].why
  <1>1. UNCHANGED tabVars \/ Granted(u, why) \/ Failed(u, why) BY DEF ToTab
  <1> HIDE DEF u, why
  <1>2. CASE UNCHANGED tabVars BY <1>2 DEF tabVars, TabTypes
  <1>3. CASE Granted(u, why)
    <2> DEFINE again == IF Verdict("good") = "ok" THEN "retried_ok" ELSE "refused"
               calls == [c \in Calls |-> CASE why = "call" /\ c \in Waiting(u) -> again
                                          [] why # "call" /\ c = "me" -> Verdict("good")
                                          [] OTHER -> call[u][c]]
    <2>1. /\ access' = [access EXCEPT ![u] = "good"] /\ call' = [call EXCEPT ![u] = calls]
          /\ refreshing' = (IF why = "call" THEN [refreshing EXCEPT ![u] = FALSE] ELSE refreshing)
          /\ status' = status
      BY <1>3 DEF Granted
    <2>2. Verdict("good") \in CallStates /\ again \in CallStates /\ again # "unauthorized"
          /\ (approved => Verdict("good") = "ok")
      BY DEF Verdict, CallStates
    <2>3. ASSUME u \in Tabs
          PROVE  /\ calls \in [Calls -> CallStates]
                 /\ \A c \in Calls : calls[c] = "unauthorized" /\ approved => call[u][c] = "unauthorized"
      <3> SUFFICES ASSUME NEW c \in Calls
                   PROVE  /\ calls[c] \in CallStates
                          /\ calls[c] = "unauthorized" /\ approved => call[u][c] = "unauthorized"
        OBVIOUS
      <3>1. call[u][c] \in CallStates BY <2>3 DEF TabTypes
      <3>2. calls[c] = again \/ calls[c] = Verdict("good") \/ calls[c] = call[u][c] OBVIOUS
      <3> HIDE DEF again, calls
      <3> QED BY <2>2, <3>1, <3>2
    <2> HIDE DEF calls, again
    <2>4. call' \in [Tabs -> [Calls -> CallStates]] BY <2>1, <2>3 DEF TabTypes
    <2>5. \A t \in Tabs, c \in Calls : call'[t][c] = "unauthorized" /\ approved => call[t][c] = "unauthorized"
      BY <2>1, <2>3 DEF TabTypes
    <2>6. access' \in [Tabs -> {"none", "good", "stale"}] /\ status' \in [Tabs -> {"loading", "in", "out"}]
      BY <2>1 DEF TabTypes
    <2>7. refreshing' \in [Tabs -> BOOLEAN] BY <2>1 DEF TabTypes
    <2> QED BY <2>4, <2>5, <2>6, <2>7 DEF TabTypes
  <1>4. CASE Failed(u, why)
    <2> DEFINE calls == [c \in Calls |-> IF c \in Waiting(u) THEN "idle" ELSE call[u][c]]
    <2>1. /\ access' = (IF why = "login" THEN access ELSE [access EXCEPT ![u] = "none"])
          /\ status' = (IF why = "login" THEN status ELSE [status EXCEPT ![u] = "out"])
          /\ call' = [call EXCEPT ![u] = calls] \/ call' = call
          /\ refreshing' = (IF why = "call" THEN [refreshing EXCEPT ![u] = FALSE] ELSE refreshing)
      BY <1>4 DEF Failed
    <2>2. u \in Tabs => /\ calls \in [Calls -> CallStates]
                        /\ \A c \in Calls : calls[c] = "unauthorized" => call[u][c] = "unauthorized"
      BY DEF TabTypes, CallStates
    <2> HIDE DEF calls
    <2>3. call' \in [Tabs -> [Calls -> CallStates]] BY <2>1, <2>2 DEF TabTypes
    <2>4. \A t \in Tabs, c \in Calls : call'[t][c] = "unauthorized" /\ approved => call[t][c] = "unauthorized"
      BY <2>1, <2>2 DEF TabTypes
    <2>5. access' \in [Tabs -> {"none", "good", "stale"}] BY <2>1 DEF TabTypes
    <2>6. status' \in [Tabs -> {"loading", "in", "out"}] BY <2>1 DEF TabTypes
    <2>7. refreshing' \in [Tabs -> BOOLEAN] BY <2>1 DEF TabTypes
    <2> QED BY <2>3, <2>4, <2>5, <2>6, <2>7 DEF TabTypes
  <1> QED BY <1>1, <1>2, <1>3, <1>4

(* What does not change calls or requests costs nothing.                   *)
LEMMA NothingAsked ==
  ASSUME Paid, issued \in Nat, UNCHANGED <<issued, req, call>>, approved' \in {approved, FALSE},
         events' \in {events, events + 1}, events' \in 0..MaxEvents
  PROVE  Paid'
  <1>1. CASE approved' = approved
    <2>1. AskedFor' \subseteq AskedFor /\ Unanswered' \subseteq Unanswered BY <1>1 DEF AskedFor, Asked, Unanswered
    <2> QED BY <2>1, StaysPaid
  <1>2. CASE ~approved'
    <2>1. AskedFor' \subseteq AskedFor /\ Unanswered' \subseteq Unanswered BY <1>2 DEF AskedFor, Unanswered
    <2> QED BY <2>1, StaysPaid
  <1> QED BY <1>1, <1>2

Tallied == BInv /\ TabTypes /\ Paid

(* Every step of the pages keeps the account.                              *)
LEMMA StaysTallied == Tallied /\ [Next]_vars => Tallied'
  <1> SUFFICES ASSUME Tallied, [Next]_vars PROVE Tallied' OBVIOUS
  <1>0. BInv' BY BrowserStep DEF Tallied
  <1>1. req \in [Requests -> Request] /\ issued \in Nat BY SessionsAssumption DEF Tallied, BInv, IInv, SessionsTypeOK
  <1>2. events \in 0..MaxEvents /\ events \in Nat /\ MaxEvents \in Nat BY BrowserAssumption DEF Tallied, Paid
  <1>3. call \in [Tabs -> [Calls -> CallStates]] BY DEF Tallied, TabTypes
  <1>4. Event => events' = events + 1 /\ events' \in 0..MaxEvents BY <1>2 DEF Event
  <1>5. ASSUME NEW r \in Requests, NEW t \in Tabs, PageLoad(r, t) PROVE TabTypes' /\ Paid'
    <2>1. Event /\ Send(r, "refresh", cookie) BY <1>5 DEF PageLoad
    <2>2. TabTypes' BY <1>5 DEF PageLoad, Tallied, TabTypes, CallStates
    <2>3. \A u \in Tabs, c \in Calls : call'[u][c] = "unauthorized" => call[u][c] = "unauthorized"
      BY <1>3, <1>5 DEF PageLoad
    <2>4. approved' = approved /\ issued' = issued /\ AskedFor' \subseteq AskedFor \cup {r} BY <1>1, <2>1, SendAsks
    <2>5. Unanswered' \subseteq Unanswered BY <1>3, <2>3, <2>4, CallsAskNoMore
    <2> QED BY <1>1, <1>4, <2>1, <2>2, <2>4, <2>5, StaysPaid DEF Tallied
  <1>6. ASSUME NEW r \in Requests, NEW t \in Tabs, LoginClick(r, t) PROVE TabTypes' /\ Paid'
    <2>1. Event /\ Send(r, "login", 0) /\ UNCHANGED tabVars BY <1>6 DEF LoginClick, Ask
    <2>2. TabTypes' BY <2>1 DEF tabVars, Tallied, TabTypes
    <2>4. approved' = approved /\ issued' = issued /\ AskedFor' \subseteq AskedFor \cup {r} BY <1>1, <2>1, SendAsks
    <2>5. Unanswered' \subseteq Unanswered BY <2>1, <2>4 DEF Unanswered, tabVars
    <2> QED BY <1>1, <1>4, <2>1, <2>2, <2>4, <2>5, StaysPaid DEF Tallied
  <1>7. ASSUME NEW r \in Requests, NEW t \in Tabs, LogoutClick(r, t) PROVE TabTypes' /\ Paid'
    <2>1. Event /\ Send(r, "logout", cookie) /\ call' = call BY <1>7 DEF LogoutClick, Ask
    <2>2. TabTypes' BY <1>7 DEF LogoutClick, Tallied, TabTypes
    <2>4. approved' = approved /\ issued' = issued /\ AskedFor' \subseteq AskedFor BY <1>1, <2>1, SendAsks
    <2>5. Unanswered' \subseteq Unanswered BY <2>1, <2>4 DEF Unanswered
    <2> QED BY <1>1, <1>4, <2>1, <2>2, <2>4, <2>5, StaysPaid DEF Tallied
  <1>8. ASSUME NEW t \in Tabs, NEW c \in Calls, CallApi(t, c) PROVE TabTypes' /\ Paid'
    <2>1. /\ Event /\ UNCHANGED <<sessionVars, access, status, refreshing>>
          /\ call' = [call EXCEPT ![t][c] = Verdict(access[t])]
      BY <1>8 DEF CallApi
    <2>2. Verdict(access[t]) \in CallStates BY DEF Verdict, CallStates
    <2>3. TabTypes' BY <2>1, <2>2 DEF Tallied, TabTypes
    <2>4. approved' = approved /\ issued' = issued /\ AskedFor' \subseteq AskedFor
      BY <2>1 DEF sessionVars, storeVars, AskedFor, Asked
    <2>5. Unanswered' \subseteq Unanswered \cup {<<t, c>>} BY <1>3, <2>1, <2>4 DEF Unanswered
    <2> QED BY <1>1, <1>4, <2>1, <2>3, <2>4, <2>5, StaysPaid DEF Tallied
  <1>9. ASSUME NEW t \in Tabs, NEW c \in Calls, Answered(t, c) \/ JoinRefresh(t, c) PROVE TabTypes' /\ Paid'
    <2>1. /\ UNCHANGED <<sessionVars, refreshing, boundVars>>
          /\ \E state \in {"idle", "waiting"} : call' = [call EXCEPT ![t][c] = state]
      BY <1>9 DEF Answered, JoinRefresh, Settled
    <2>2. TabTypes'
      <3>1. call' \in [Tabs -> [Calls -> CallStates]] BY <1>3, <2>1 DEF CallStates
      <3>2. status' \in [Tabs -> {"loading", "in", "out"}] /\ access' \in [Tabs -> {"none", "good", "stale"}]
        BY <1>9 DEF Answered, JoinRefresh, Settled, Tallied, TabTypes
      <3> QED BY <2>1, <3>1, <3>2 DEF Tallied, TabTypes
    <2>3. approved' = approved /\ issued' = issued /\ AskedFor' \subseteq AskedFor /\ events' = events
      BY <2>1 DEF sessionVars, storeVars, AskedFor, Asked, boundVars
    <2>4. Unanswered' \subseteq Unanswered BY <1>3, <2>1, <2>3 DEF Unanswered
    <2> QED BY <1>1, <1>2, <2>2, <2>3, <2>4, StaysPaid DEF Tallied
  <1>10. ASSUME NEW r \in Requests, NEW t \in Tabs, NEW c \in Calls, StartRefresh(r, t, c) PROVE TabTypes' /\ Paid'
    <2>1. /\ call[t][c] = "unauthorized" /\ Send(r, "refresh", cookie)
          /\ call' = [call EXCEPT ![t][c] = "waiting"] /\ refreshing' = [refreshing EXCEPT ![t] = TRUE]
          /\ UNCHANGED <<access, status, boundVars>>
      BY <1>10 DEF StartRefresh, Ask
    <2>2. TabTypes' BY <2>1 DEF Tallied, TabTypes, CallStates
    <2>3. approved' = approved /\ issued' = issued /\ AskedFor' \subseteq AskedFor \cup {r} /\ events' = events
      BY <1>1, <2>1, SendAsks DEF boundVars
    <2>4. Unanswered' \subseteq Unanswered \ {<<t, c>>} BY <1>3, <2>1, <2>3 DEF Unanswered
    <2>5. CASE approved
      <3>1. <<t, c>> \in Unanswered BY <2>1, <2>5 DEF Unanswered
      <3> QED BY <1>1, <1>2, <2>2, <2>3, <2>4, <3>1, StaysPaid DEF Tallied
    <2>6. CASE ~approved
      <3>1. AskedFor' \subseteq AskedFor BY <2>3, <2>6 DEF AskedFor
      <3> QED BY <1>1, <1>2, <2>2, <2>3, <2>4, <3>1, StaysPaid DEF Tallied
    <2> QED BY <2>5, <2>6
  <1>11. ASSUME NEW r \in Requests, Serving(r), events' = events, Unanswered' \subseteq Unanswered PROVE Paid'
    <2>1. CASE issued' = issued
      <3>1. AskedFor' \subseteq AskedFor BY <1>11, OthersAskAsBefore DEF Serving
      <3> QED BY <1>1, <1>2, <1>11, <2>1, <3>1, StaysPaid DEF Tallied
    <2>2. CASE issued' = issued + 1 /\ r \in AskedFor /\ ~Asked(r)'
      <3>1. AskedFor' \subseteq AskedFor \ {r} BY <1>11, <2>2, OthersAskAsBefore DEF Serving
      <3> QED BY <1>1, <1>2, <1>11, <2>2, <3>1, StaysPaid DEF Tallied
    <2> QED BY <1>11, <2>1, <2>2 DEF Serving
  <1>12. ASSUME NEW r \in Requests, ServeRequest(r) PROVE TabTypes' /\ Paid'
    <2>1. Serving(r) /\ UNCHANGED <<tabVars, boundVars>> BY <1>1, <1>12, ServesForAskers DEF ServeRequest
    <2>2. TabTypes' BY <2>1 DEF tabVars, Tallied, TabTypes
    <2>3. Unanswered' \subseteq Unanswered BY <2>1 DEF Serving, Unanswered, tabVars
    <2> QED BY <1>11, <2>1, <2>2, <2>3 DEF boundVars
  <1>13. ASSUME NEW r \in Requests, NEW good, ToTab(r, good), Reply(r) \/ ReplyEarly(r) \/ Die(r), events' = events
         PROVE  TabTypes' /\ Paid'
    <2>1. Serving(r) BY <1>1, <1>13, ServesForAskers
    <2>2. /\ TabTypes'
          /\ \A t \in Tabs, c \in Calls : call'[t][c] = "unauthorized" /\ approved => call[t][c] = "unauthorized"
      BY <1>13, RepliesType DEF Tallied
    <2>3. Unanswered' \subseteq Unanswered BY <1>3, <2>1, <2>2, CallsAskNoMore DEF Serving
    <2> QED BY <1>11, <1>13, <2>1, <2>2, <2>3
  <1>14. ASSUME NEW r \in Requests, GoodReply(r) \/ ErrorReply(r) \/ NoReply(r) PROVE TabTypes' /\ Paid'
    <2>1. events' = events BY <1>14 DEF GoodReply, ErrorReply, NoReply, Fault, boundVars
    <2> QED BY <1>13, <1>14, <2>1 DEF GoodReply, ErrorReply, NoReply
  <1>15. ASSUME NEW t \in Tabs, AccessRunsOut(t) PROVE TabTypes' /\ Paid'
    <2>1. TabTypes' BY <1>15 DEF AccessRunsOut, Tallied, TabTypes
    <2>2. Event /\ UNCHANGED <<issued, req, call, approved>> BY <1>15 DEF AccessRunsOut, sessionVars, storeVars
    <2> QED BY <1>1, <1>4, <2>1, <2>2, NothingAsked DEF Tallied
  <1>16. ASSUME TokenExpires \/ AccountDisabled \/ UNCHANGED vars PROVE TabTypes' /\ Paid'
    <2>1. /\ UNCHANGED <<issued, req, call, access, status, refreshing, events>>
          /\ approved' = approved \/ approved' = FALSE
      BY <1>16 DEF TokenExpires, AccountDisabled, Expire, SetApproved, Fault, vars, browserVars, tabVars, boundVars,
                   sessionVars, storeVars
    <2>2. TabTypes' BY <2>1 DEF Tallied, TabTypes
    <2>3. AskedFor' \subseteq AskedFor /\ Unanswered' \subseteq Unanswered
      <3>1. CASE approved' = approved BY <2>1, <3>1 DEF AskedFor, Asked, Unanswered
      <3>2. CASE approved' = FALSE
        <4>1. AskedFor' = {} /\ Unanswered' = {} BY <3>2 DEF AskedFor, Unanswered
        <4> QED BY <4>1
      <3> QED BY <2>1, <3>1, <3>2
    <2>4. events' = events /\ issued' = issued BY <2>1
    <2>5. Paid' BY <1>1, <1>2, <2>3, <2>4, StaysPaid DEF Tallied
    <2> QED BY <2>2, <2>5
  <1>17. ASSUME NEW r \in Requests, Work(r) \/ NoReply(r) PROVE TabTypes' /\ Paid'
    BY <1>12, <1>14, <1>17 DEF Work
  <1>18. ASSUME NEW t \in Tabs, NEW c \in Calls, Intercept(t, c) PROVE TabTypes' /\ Paid'
    BY <1>9, <1>10, <1>18 DEF Intercept
  <1>19. ASSUME NEW r \in Requests, NEW t \in Tabs, PageLoad(r, t) \/ LoginClick(r, t) \/ LogoutClick(r, t)
         PROVE  TabTypes' /\ Paid'
    BY <1>5, <1>6, <1>7, <1>19
  <1>20. ASSUME Next PROVE TabTypes' /\ Paid'
    <2>1. \/ \E r \in Requests : Work(r) \/ NoReply(r)
          \/ \E r \in Requests, t \in Tabs : PageLoad(r, t) \/ LoginClick(r, t) \/ LogoutClick(r, t)
          \/ \E t \in Tabs, c \in Calls : CallApi(t, c)
          \/ \E t \in Tabs, c \in Calls : Intercept(t, c)
          \/ \E t \in Tabs : AccessRunsOut(t)
          \/ TokenExpires \/ AccountDisabled
      BY <1>20 DEF Next
    <2> QED BY <1>8, <1>15, <1>16, <1>17, <1>18, <1>19, <2>1
  <1>21. TabTypes' /\ Paid' BY <1>16, <1>20
  <1> QED BY <1>0, <1>21 DEF Tallied

(* One token is there at first, and nothing is owed.                       *)
LEMMA TalliedAtFirst == Init => Tallied
  <1> SUFFICES ASSUME Init PROVE Tallied OBVIOUS
  <1>1. BInv /\ SessionsInit /\ issued = 1 BY BrowserInit DEF Init
  <1>2. TabTypes BY DEF Init, TabTypes, CallStates
  <1>3. AskedFor = {} BY <1>1 DEF SessionsInit, Idle, AskedFor, Asked
  <1>4. Unanswered = {} BY DEF Init, Unanswered
  <1>5. events \in 0..MaxEvents /\ events = 0 BY BrowserAssumption DEF Init
  <1>6. Paid BY <1>1, <1>3, <1>4, <1>5, FS_EmptySet DEF Paid
  <1> QED BY <1>1, <1>2, <1>6 DEF Tallied

(* Every variable of the pages has its type; and the bound on tokens, if   *)
(* it leaves room for one token per event, is never what stops a request.  *)
THEOREM BrowserTypes ==
  ASSUME MaxEvents + 1 < MaxToken
  PROVE  Spec => []TypeOK
  <1>1. Tallied => TypeOK
    <2> SUFFICES ASSUME Tallied PROVE TypeOK OBVIOUS
    <2>1. SessionsTypeOK /\ issued \in Nat /\ cookie \in 0..issued
      BY SessionsAssumption DEF Tallied, BInv, IInv, SessionsTypeOK
    <2>2. Cardinality(AskedFor) \in Nat /\ Cardinality(Unanswered) \in Nat BY FS_CardinalityType DEF Tallied, Paid
    <2>3. issued < MaxToken
      BY <2>1, <2>2, BrowserAssumption, SessionsAssumption DEF Tallied, Paid
    <2> QED BY <2>1, <2>3 DEF Tallied, TabTypes, TypeOK
  <1> QED BY <1>1, TalliedAtFirst, StaysTallied, PTL DEF Spec
===============================================================================
