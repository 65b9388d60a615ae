------------------------------- MODULE Sessions -------------------------------
(***************************************************************************)
(* Server side sessions (services/auth_service.py, routers/auth.py): a     *)
(* login opens a family of refresh tokens, a refresh rotates the token it  *)
(* presents into a new one of the family, a logout and the reuse of a      *)
(* token that was rotated close the family.                                *)
(*                                                                         *)
(* A request reads, awaits, and writes at its commit (READ COMMITTED, no   *)
(* row is locked for reading), so that requests overlap. get_db commits    *)
(* when the endpoint has returned; whether the reply leaves before or      *)
(* after depends on the version of FastAPI (requirements.txt admits both). *)
(*                                                                         *)
(* One account. A token is its number in the order of issue; a family is   *)
(* the number of its first token.                                          *)
(***************************************************************************)
EXTENDS Naturals

CONSTANTS Requests,  \* requests in flight at the same time
          MaxToken   \* bound on the tokens issued

ASSUME SessionsAssumption == MaxToken \in Nat

VARIABLES approved,  \* users.status is APPROVED
          issued,    \* number of tokens minted
          family,    \* refresh_tokens: the family of a token, 0 when there is no such row
          revoked,   \* tokens whose row says revoked
          expired,   \* tokens past expires_at
          req,       \* the requests
          raced,     \* history: families with two rotations of one token at a time
          alone,     \* history: closing requests that no rotation came across
          sealed     \* history: families closed by such a request

storeVars == <<approved, issued, family, revoked, expired>>
historyVars == <<raced, alone, sealed>>
sessionVars == <<storeVars, req, historyVars>>

Tokens == 1..MaxToken
Live == {k \in Tokens : family[k] # 0 /\ k \notin revoked}
Idle == [pc |-> "idle", op |-> "none", token |-> 0, new |-> 0, fam |-> 0, kills |-> {}, says |-> "none"]

Step(r, pc) == req' = [req EXCEPT ![r].pc = pc]
Finish(r, says) == req' = [req EXCEPT ![r].pc = "done", ![r].says = says]
Prepare(r, fam, new, kills, says) ==
  req' = [req EXCEPT ![r].pc = "ready", ![r].fam = fam, ![r].new = new, ![r].kills = kills, ![r].says = says]

(* A request for a rotation that has read its token as good.               *)
Rotating(r) ==
  /\ req[r].op = "refresh"
  /\ req[r].pc = "row" \/ (req[r].pc \in {"ready", "answered"} /\ req[r].says = "granted")
Closing(r) == req[r].pc \in {"ready", "answered"} /\ req[r].says \in {"reuse", "left"}
RotatesIn(r, f) == Rotating(r) /\ family[req[r].token] = f

Send(r, op, token) ==
  /\ req[r].pc = "idle"
  /\ req' = [req EXCEPT ![r] = [Idle EXCEPT !.pc = "sent", !.op = op, !.token = token]]
  /\ UNCHANGED <<storeVars, historyVars>>

(* Mutant of Mint: the identifier is not used up.                          *)
MintAgain == issued < MaxToken /\ UNCHANGED issued

Mint == issued < MaxToken /\ issued' = issued + 1

(***************************************************************************)
(* authenticate: the user row is read before the password is verified in   *)
(* a thread, and its status is the one read. It is denied for its          *)
(* credentials, its status, or the rate limit of the route.                *)
(***************************************************************************)
Login(r) ==
  /\ req[r].pc = "sent" /\ req[r].op = "login"
  /\ \/ Finish(r, "denied") /\ UNCHANGED issued
     \/ approved /\ Mint /\ Prepare(r, issued + 1, issued + 1, {}, "granted")
  /\ UNCHANGED <<approved, family, revoked, expired, historyVars>>

(***************************************************************************)
(* refresh_tokens: the row, then the user.                                 *)
(***************************************************************************)
Refreshing(r) == req[r].pc = "sent" /\ req[r].op = "refresh"
Known(token) == token # 0 /\ family[token] # 0

(* The limit of the route: so many requests of a client address per        *)
(* minute. The count is left out: others may share the address, and no row *)
(* is read before it is consulted.                                         *)
RefreshLimited(r) ==
  /\ Refreshing(r)
  /\ Finish(r, "limited")
  /\ UNCHANGED <<storeVars, historyVars>>

(* No cookie, a token nobody knows, or one whose JWT has expired.          *)
RefreshInvalid(r) ==
  /\ Refreshing(r) /\ (~Known(req[r].token) \/ req[r].token \in expired)
  /\ Finish(r, "denied")
  /\ UNCHANGED <<storeVars, historyVars>>

(* The UPDATE of _revoke_family: rows that are committed and not revoked.  *)
(* Mutant: the token that was presented instead of its family.             *)
RevokeOne(f, token) == {token} \ revoked

RevokeFamily(f, token) == {k \in Live : family[k] = f}

NobodyRotates(f) == \A q \in Requests : ~RotatesIn(q, f)

Close(r, says) ==
  LET f == family[req[r].token]
  IN  /\ Prepare(r, f, 0, RevokeFamily(f, req[r].token), says)
      /\ alone' = IF NobodyRotates(f) THEN alone \cup {r} ELSE alone \ {r}

(* A token that is revoked already: somebody uses it a second time.        *)
RefreshReused(r) ==
  /\ Refreshing(r) /\ Known(req[r].token) /\ req[r].token \in revoked
  /\ Close(r, "reuse")
  /\ UNCHANGED <<storeVars, raced, sealed>>

(* The row has expired: `row.revoked = True'.                              *)
RefreshExpired(r) ==
  /\ Refreshing(r) /\ Known(req[r].token)
  /\ req[r].token \notin revoked /\ req[r].token \in expired
  /\ Prepare(r, family[req[r].token], 0, {req[r].token}, "denied")
  /\ UNCHANGED <<storeVars, historyVars>>

RefreshRow(r) ==
  /\ Refreshing(r) /\ Known(req[r].token)
  /\ req[r].token \notin revoked \cup expired
  /\ Step(r, "row")
  /\ LET f == family[req[r].token]
     IN  /\ raced' = IF NobodyRotates(f) THEN raced ELSE raced \cup {f}
         /\ alone' = {q \in alone : ~(Closing(q) /\ req[q].fam = f)}
  /\ UNCHANGED <<storeVars, sealed>>

(* Mutant of RefreshUser: the token presented is not revoked.              *)
RefreshUserKeepsOld(r) ==
  /\ req[r].pc = "row"
  /\ IF approved
     THEN Mint /\ Prepare(r, family[req[r].token], issued + 1, {}, "granted")
     ELSE Finish(r, "denied") /\ UNCHANGED issued
  /\ UNCHANGED <<approved, family, revoked, expired, historyVars>>

RefreshUser(r) ==
  /\ req[r].pc = "row"
  /\ IF approved
     THEN Mint /\ Prepare(r, family[req[r].token], issued + 1, {req[r].token}, "granted")
     ELSE Finish(r, "denied") /\ UNCHANGED issued
  /\ UNCHANGED <<approved, family, revoked, expired, historyVars>>

(***************************************************************************)
(* logout: best effort, it always succeeds.                                *)
(***************************************************************************)
Logout(r) ==
  /\ req[r].pc = "sent" /\ req[r].op = "logout"
  /\ IF Known(req[r].token)
     THEN \/ Close(r, "left")
          \/ req[r].token \in expired /\ Finish(r, "left") /\ UNCHANGED alone
     ELSE Finish(r, "left") /\ UNCHANGED alone
  /\ UNCHANGED <<storeVars, raced, sealed>>

(***************************************************************************)
(* Commit and reply. `row.revoked = True' writes the row whatever it says  *)
(* by now.                                                                 *)
(***************************************************************************)
Commit(r) ==
  /\ req[r].pc \in {"ready", "answered"}
  /\ revoked' = revoked \cup req[r].kills
  /\ family' = [k \in Tokens |-> IF k = req[r].new THEN req[r].fam ELSE family[k]]
  /\ sealed' = IF Closing(r) /\ r \in alone THEN sealed \cup {req[r].fam} ELSE sealed
  /\ req' = [req EXCEPT ![r] = IF req[r].pc = "ready" THEN [@ EXCEPT !.pc = "done"] ELSE Idle]
  /\ UNCHANGED <<approved, issued, expired, raced, alone>>

Reply(r) ==
  /\ req[r].pc = "done"
  /\ req' = [req EXCEPT ![r] = Idle]
  /\ UNCHANGED <<storeVars, historyVars>>

(* The reply of an endpoint that returns leaves before the commit: that of *)
(* a login, a refresh or a logout. Refusals are raised after theirs.       *)
ReplyEarly(r) ==
  /\ req[r].pc = "ready" /\ req[r].says \in {"granted", "left"}
  /\ Step(r, "answered")
  /\ UNCHANGED <<storeVars, historyVars>>

(* The API process, or its connection to the database, dies.               *)
Die(r) ==
  /\ req[r].pc \in {"sent", "row", "ready", "answered"}
  /\ req' = [req EXCEPT ![r] = Idle]
  /\ UNCHANGED <<storeVars, historyVars>>

(***************************************************************************)
(* Time and the administrators.                                            *)
(***************************************************************************)
Expire(k) ==
  /\ k \in 1..issued \ expired
  /\ expired' = expired \cup {k}
  /\ UNCHANGED <<approved, issued, family, revoked, req, historyVars>>

SetApproved(value) ==
  /\ approved' = value
  /\ UNCHANGED <<issued, family, revoked, expired, req, historyVars>>

(* No session yet, or one that a login has opened.                         *)
SessionsInit ==
  /\ issued \in {0, 1} /\ issued <= MaxToken
  /\ family = [k \in Tokens |-> IF k <= issued THEN k ELSE 0]
  /\ approved = TRUE /\ revoked = {} /\ expired = {}
  /\ req = [r \in Requests |-> Idle]
  /\ raced = {} /\ alone = {} /\ sealed = {}

Serve(r) ==
  \/ Login(r) \/ RefreshLimited(r) \/ RefreshInvalid(r) \/ RefreshReused(r) \/ RefreshExpired(r)
  \/ RefreshRow(r) \/ RefreshUser(r) \/ Logout(r) \/ Commit(r)

(* Whoever sends requests may present any token that was ever issued.      *)
SessionsNext ==
  \/ \E r \in Requests : \/ \E op \in {"login", "refresh", "logout"}, token \in 0..issued : Send(r, op, token)
                         \/ Serve(r) \/ Reply(r) \/ ReplyEarly(r) \/ Die(r)
  \/ \E k \in Tokens : Expire(k)
  \/ \E value \in BOOLEAN : SetApproved(value)

SessionsSpec == SessionsInit /\ [][SessionsNext]_sessionVars

(***************************************************************************)
(* Properties.                                                             *)
(***************************************************************************)
Request ==
  [pc : {"idle", "sent", "row", "ready", "answered", "done"}, op : {"none", "login", "refresh", "logout"},
   token : 0..MaxToken, new : 0..MaxToken, fam : 0..MaxToken, kills : SUBSET Tokens,
   says : {"none", "limited", "denied", "granted", "reuse", "left"}]

(* Every variable has its type.                                            *)
SessionsTypeOK ==
  /\ approved \in BOOLEAN /\ issued \in 0..MaxToken
  /\ family \in [Tokens -> 0..MaxToken]
  /\ revoked \subseteq Tokens /\ expired \subseteq Tokens
  /\ req \in [Requests -> Request]
  /\ raced \subseteq 0..MaxToken /\ alone \subseteq Requests /\ sealed \subseteq 0..MaxToken

(* A family has one live token at a time: what a refresh rotates is gone   *)
(* when its successor is there. The exception is the one the code leaves   *)
(* open: nothing locks the row between its read and the commit, and two    *)
(* refreshes at once fork the family.                                      *)
OneHead == \A j, k \in Live : family[j] = family[k] /\ family[j] \notin raced => j = k

(* A logout, or the detection of reuse, that no refresh came across closes *)
(* the session for good: no token of the family is ever good again,        *)
(* whoever presents whichever token.                                       *)
ClosedForGood == \A k \in Live : family[k] \notin sealed
===============================================================================
