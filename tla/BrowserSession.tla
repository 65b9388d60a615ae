--------------------------- MODULE BrowserSession ---------------------------
(***************************************************************************)
(* The pages and their sessions (lib/api.ts, auth/AuthContext.tsx,         *)
(* lib/tokens.ts): one browser with one cookie jar, each tab with its own  *)
(* access token in memory, its interceptor and its page load.              *)
(*                                                                         *)
(* A call to the API carries the access token the tab has when it is sent  *)
(* and is judged there and then; its answer arrives later. Access tokens   *)
(* are not in any table: one is good until it runs out, while the account  *)
(* is approved (core/deps.py).                                             *)
(***************************************************************************)
EXTENDS Sessions

CONSTANTS Tabs, Calls,  \* calls under way per tab; "me" is the profile, /auth/me
          MaxEvents,    \* bound on what users do and on access tokens that run out
          MaxFaults     \* bound on lost replies, deaths, expiries and changes of the account

(* "none" stands for no tab.                                               *)
ASSUME BrowserAssumption == "me" \in Calls /\ "none" \notin Tabs /\ MaxEvents \in Nat /\ MaxFaults \in Nat

VARIABLES cookie,      \* the refresh token in the cookie jar, 0 if none
          access,      \* the access token of a tab: none, good, or stale
          status,      \* what the AuthContext of a tab shows
          call,        \* the calls of a tab
          refreshing,  \* the shared promise of the interceptor is pending
          sender,      \* the tab that waits for a request, and what for
          events, faults,
          disturbed,   \* history: a fault, or two requests that carry the cookie at a time
          limited,     \* history: a refresh was refused by the rate limit
          signedOut    \* history: a refresh that carried a cookie failed

tabVars == <<access, status, call, refreshing>>
boundVars == <<events, faults>>
browserVars == <<cookie, tabVars, sender, boundVars, disturbed, limited, signedOut>>
vars == <<sessionVars, browserVars>>

Nobody == [tab |-> "none", why |-> "none"]
Event == events < MaxEvents /\ events' = events + 1 /\ UNCHANGED faults
Fault == faults < MaxFaults /\ faults' = faults + 1 /\ disturbed' = TRUE /\ UNCHANGED events

(* What the server makes of a call with such a token: get_current_user.    *)
Verdict(token) == IF token = "good" /\ approved THEN "ok" ELSE "unauthorized"

(* Another request that carries the cookie is in flight, and not one with  *)
(* the same purpose of the same tab.                                       *)
CookieInFlight(own) ==
  \E q \in Requests : req[q].pc # "idle" /\ req[q].op \in {"refresh", "logout"} /\ sender[q] # own

(* Slots for requests have no identity: the first free one is taken.       *)
Free(r) == req[r].pc = "idle" /\ r = CHOOSE q \in Requests : req[q].pc = "idle"

Ask(r, t, op, why) ==
  /\ Free(r) /\ Send(r, op, IF op = "login" THEN 0 ELSE cookie)
  /\ sender' = [sender EXCEPT ![r] = [tab |-> t, why |-> why]]
  /\ disturbed' = (disturbed \/ (op # "login" /\ CookieInFlight([tab |-> t, why |-> why])))
  /\ UNCHANGED <<cookie, limited, signedOut>>

(***************************************************************************)
(* A page is loaded, or loaded again: nothing is left of the tab's memory, *)
(* and a refresh is tried, by itself and not through the shared promise.   *)
(***************************************************************************)
Abandoned(t) == [q \in Requests |-> IF sender[q].tab = t THEN Nobody ELSE sender[q]]

PageLoad(r, t) ==
  /\ Event
  /\ Free(r) /\ Send(r, "refresh", cookie)
  /\ sender' = [Abandoned(t) EXCEPT ![r] = [tab |-> t, why |-> "load"]]
  /\ disturbed' = (disturbed \/ CookieInFlight([tab |-> t, why |-> "none"]))
  /\ access' = [access EXCEPT ![t] = "none"]
  /\ status' = [status EXCEPT ![t] = "loading"]
  /\ call' = [call EXCEPT ![t] = [c \in Calls |-> "idle"]]
  /\ refreshing' = [refreshing EXCEPT ![t] = FALSE]
  /\ UNCHANGED <<cookie, limited, signedOut>>

LoginClick(r, t) ==
  /\ Event
  /\ status[t] = "out" /\ \A q \in Requests : sender[q] # [tab |-> t, why |-> "login"]
  /\ Ask(r, t, "login", "login")
  /\ UNCHANGED tabVars

(* Nobody waits for the logout, nor for a refresh that is under way.       *)
LogoutClick(r, t) ==
  /\ Event
  /\ status[t] = "in"
  /\ Ask(r, t, "logout", "logout")
  /\ access' = [access EXCEPT ![t] = "none"]
  /\ status' = [status EXCEPT ![t] = "out"]
  /\ UNCHANGED <<call, refreshing>>

(***************************************************************************)
(* Calls and the interceptor: a 401 is retried once, after a refresh that  *)
(* all calls of the tab share while it is pending.                         *)
(***************************************************************************)
CallApi(t, c) ==
  /\ Event
  /\ status[t] = "in" /\ call[t][c] = "idle"
  /\ call' = [call EXCEPT ![t][c] = Verdict(access[t])]
  /\ UNCHANGED <<sessionVars, cookie, access, status, refreshing, sender, disturbed, limited, signedOut>>

Settled(t, c, how) ==
  /\ call' = [call EXCEPT ![t][c] = "idle"]
  /\ status' = CASE c = "me" /\ how = "ok" -> [status EXCEPT ![t] = "in"]
                 [] c = "me" /\ how # "ok" /\ status[t] = "loading" -> [status EXCEPT ![t] = "out"]
                 [] OTHER -> status
  /\ access' = IF c = "me" /\ how # "ok" /\ status[t] = "loading" THEN [access EXCEPT ![t] = "none"] ELSE access

Answered(t, c) ==
  /\ call[t][c] \in {"ok", "retried_ok", "refused"}
  /\ Settled(t, c, IF call[t][c] = "refused" THEN "error" ELSE "ok")
  /\ UNCHANGED <<sessionVars, cookie, refreshing, sender, boundVars, disturbed, limited, signedOut>>

(* `refreshing ?? runRefresh()'                                            *)
JoinRefresh(t, c) ==
  /\ call[t][c] = "unauthorized" /\ refreshing[t]
  /\ call' = [call EXCEPT ![t][c] = "waiting"]
  /\ UNCHANGED <<sessionVars, cookie, access, status, refreshing, sender, boundVars, disturbed, limited, signedOut>>

(* Mutant of StartRefresh: every call refreshes for itself.                *)
StartRefreshAlways(r, t, c) ==
  /\ call[t][c] = "unauthorized"
  /\ Ask(r, t, "refresh", "call")
  /\ call' = [call EXCEPT ![t][c] = "waiting"]
  /\ refreshing' = [refreshing EXCEPT ![t] = TRUE]
  /\ UNCHANGED <<access, status, boundVars>>

StartRefresh(r, t, c) ==
  /\ call[t][c] = "unauthorized" /\ ~refreshing[t]
  /\ Ask(r, t, "refresh", "call")
  /\ call' = [call EXCEPT ![t][c] = "waiting"]
  /\ refreshing' = [refreshing EXCEPT ![t] = TRUE]
  /\ UNCHANGED <<access, status, boundVars>>

(***************************************************************************)
(* Replies.                                                                *)
(***************************************************************************)
Waiting(t) == {c \in Calls : call[t][c] = "waiting"}

(* A refresh or a login succeeded: the calls that wait are sent again, and *)
(* a page that loads, or a form, fetches the profile.                      *)
Granted(t, why) ==
  /\ access' = [access EXCEPT ![t] = "good"]
  /\ LET again == IF Verdict("good") = "ok" THEN "retried_ok" ELSE "refused"
     IN  call' = [call EXCEPT ![t] = [c \in Calls |->
                    CASE why = "call" /\ c \in Waiting(t) -> again
                      [] why # "call" /\ c = "me" -> Verdict("good")
                      [] OTHER -> call[t][c]]]
  /\ refreshing' = IF why = "call" THEN [refreshing EXCEPT ![t] = FALSE] ELSE refreshing
  /\ UNCHANGED status

(* Mutant of Failed: the calls that wait are forgotten.                    *)
FailedSilently(t, why) ==
  /\ access' = IF why = "login" THEN access ELSE [access EXCEPT ![t] = "none"]
  /\ status' = IF why = "login" THEN status ELSE [status EXCEPT ![t] = "out"]
  /\ refreshing' = IF why = "call" THEN [refreshing EXCEPT ![t] = FALSE] ELSE refreshing
  /\ UNCHANGED call

Failed(t, why) ==
  /\ access' = IF why = "login" THEN access ELSE [access EXCEPT ![t] = "none"]
  /\ status' = IF why = "login" THEN status ELSE [status EXCEPT ![t] = "out"]
  /\ call' = IF why = "call" THEN [call EXCEPT ![t] = [c \in Calls |-> IF c \in Waiting(t) THEN "idle" ELSE call[t][c]]]
                             ELSE call
  /\ refreshing' = IF why = "call" THEN [refreshing EXCEPT ![t] = FALSE] ELSE refreshing

ToTab(r, good) ==
  LET t == sender[r].tab
      why == sender[r].why
  IN  /\ IF t = "none" \/ why = "logout" THEN UNCHANGED tabVars
                                         ELSE IF good THEN Granted(t, why) ELSE Failed(t, why)
      /\ sender' = [sender EXCEPT ![r] = Nobody]
      /\ signedOut' = (signedOut \/ (t # "none" /\ why \in {"load", "call"} /\ ~good /\ req[r].token # 0))

(* The cookie is set or cleared by replies that are no errors; the browser *)
(* may still take it from a reply to a page that is gone.                  *)
GoodReply(r) ==
  /\ req[r].says \in {"granted", "left"}
  /\ Reply(r) \/ ReplyEarly(r)
  /\ LET value == IF req[r].says = "granted" THEN req[r].new ELSE 0
     IN  cookie' = value \/ (sender[r] = Nobody /\ UNCHANGED cookie)
  /\ ToTab(r, TRUE)
  /\ UNCHANGED <<boundVars, disturbed, limited>>

(* Neither runRefresh nor the page load tells a 429 from a 401.            *)
ErrorReply(r) ==
  /\ req[r].says \in {"denied", "reuse", "limited"} /\ Reply(r)
  /\ ToTab(r, FALSE)
  /\ UNCHANGED <<cookie, boundVars, disturbed, limited>>

(* The reply is lost, or the API dies: an error for whoever still waits.   *)
NoReply(r) ==
  /\ Fault
  /\ Reply(r) \/ Die(r)
  /\ ToTab(r, FALSE)
  /\ UNCHANGED <<cookie, limited>>

(***************************************************************************)
(* The server, time and the administrators.                                *)
(***************************************************************************)
(* A refresh with a token whose row is not committed yet counts as a       *)
(* disturbance: the reply that brought it left too early.                  *)
ServeRequest(r) ==
  /\ Serve(r)
  /\ disturbed' = (disturbed \/ (Refreshing(r) /\ req[r].token # 0 /\ family[req[r].token] = 0))
  /\ limited' = (limited \/ req'[r].says = "limited")
  /\ UNCHANGED <<cookie, tabVars, sender, boundVars, signedOut>>

AccessRunsOut(t) ==
  /\ Event
  /\ access[t] = "good"
  /\ access' = [access EXCEPT ![t] = "stale"]
  /\ UNCHANGED <<sessionVars, cookie, status, call, refreshing, sender, disturbed, limited, signedOut>>

TokenExpires ==
  /\ Fault
  /\ cookie # 0 /\ Expire(cookie)
  /\ UNCHANGED <<cookie, tabVars, sender, limited, signedOut>>

AccountDisabled ==
  /\ Fault
  /\ approved /\ SetApproved(FALSE)
  /\ UNCHANGED <<cookie, tabVars, sender, limited, signedOut>>

(* A browser whose tabs are signed in by one session.                      *)
Init ==
  /\ SessionsInit /\ issued = 1
  /\ cookie = 1
  /\ access = [t \in Tabs |-> "good"] /\ status = [t \in Tabs |-> "in"]
  /\ call = [t \in Tabs |-> [c \in Calls |-> "idle"]]
  /\ refreshing = [t \in Tabs |-> FALSE]
  /\ sender = [r \in Requests |-> Nobody]
  /\ events = 0 /\ faults = 0
  /\ disturbed = FALSE /\ limited = FALSE /\ signedOut = FALSE

(* What programs do of themselves.                                         *)
Work(r) == ServeRequest(r) \/ GoodReply(r) \/ ErrorReply(r)
Intercept(t, c) == Answered(t, c) \/ JoinRefresh(t, c) \/ \E r \in Requests : StartRefresh(r, t, c)

Next ==
  \/ \E r \in Requests, t \in Tabs : PageLoad(r, t) \/ LoginClick(r, t) \/ LogoutClick(r, t)
  \/ \E t \in Tabs, c \in Calls : CallApi(t, c) \/ Intercept(t, c)
  \/ \E r \in Requests : Work(r) \/ NoReply(r)
  \/ \E t \in Tabs : AccessRunsOut(t)
  \/ TokenExpires \/ AccountDisabled

Spec ==
  /\ Init /\ [][Next]_vars
  /\ \A r \in Requests : WF_vars(Work(r))
  /\ \A t \in Tabs, c \in Calls : WF_vars(Intercept(t, c))

(***************************************************************************)
(* Properties.                                                             *)
(***************************************************************************)
CallStates == {"idle", "ok", "unauthorized", "waiting", "retried_ok", "refused"}

(* Every variable has its type, and the bound on tokens is never what      *)
(* stops a request.                                                        *)
TypeOK ==
  /\ SessionsTypeOK /\ issued < MaxToken
  /\ cookie \in 0..issued
  /\ access \in [Tabs -> {"none", "good", "stale"}]
  /\ status \in [Tabs -> {"loading", "in", "out"}]
  /\ call \in [Tabs -> [Calls -> CallStates]]
  /\ refreshing \in [Tabs -> BOOLEAN]

(* A browser is signed out against its user's will only after a fault, or  *)
(* by the rate limit of /auth/refresh (pages loaded again and again, users *)
(* behind one address: a 429 counts as the end of the session), or if two  *)
(* of its requests carried the cookie at a time (two tabs; a page loaded   *)
(* again during a refresh, which the promise of the interceptor does not   *)
(* cover; a logout during a refresh): calls of one tab that find their     *)
(* token stale, however many, never look like a stolen token.              *)
StaysSignedIn == signedOut => disturbed \/ limited

(* Every call settles: with an answer, after one retry, or with an error.  *)
CallsSettle == \A t \in Tabs, c \in Calls : call[t][c] # "idle" ~> call[t][c] = "idle"
==============================================================================
