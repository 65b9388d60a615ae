---------------------------- MODULE SessionsProofs ----------------------------
(***************************************************************************)
(* Proofs about Sessions, for any number of requests and tokens and any    *)
(* client: a family has one live token at a time unless two rotations of   *)
(* it overlapped, and a session that was closed with no rotation on its    *)
(* way stays closed.                                                       *)
(***************************************************************************)
EXTENDS Sessions, TLAPS

Pending(r) == req[r].pc \in {"ready", "answered"}
Minted(r) == Pending(r) /\ req[r].says = "granted"

(* What a request carries from its reads to its commit.                    *)
Fits(r) ==
  /\ req[r].pc = "answered" => req[r].says \in {"granted", "left"}
  /\ req[r].pc = "row" => req[r].op = "refresh"
  /\ Rotating(r) => req[r].token \in Tokens /\ family[req[r].token] # 0
  /\ Minted(r) => /\ req[r].new \in Tokens /\ req[r].new <= issued
                  /\ req[r].op \in {"login", "refresh"}
                  /\ req[r].op = "refresh" => req[r].fam = family[req[r].token] /\ req[r].kills = {req[r].token}
                  /\ req[r].op = "login" => req[r].fam = req[r].new
  /\ Pending(r) /\ ~Minted(r) => req[r].new = 0
  /\ Closing(r) => req[r].fam # 0 /\ \E k \in Tokens : family[k] = req[r].fam

Shape == \A r \in Requests : Fits(r)

(* Identifiers are fresh when they are minted.                             *)
Rows ==
  /\ \A k \in Tokens : family[k] # 0 => k <= issued /\ family[k] <= issued
  /\ \A r \in Requests : Minted(r) => family[req[r].new] = 0
  /\ \A r, q \in Requests : Minted(r) /\ Minted(q) /\ req[r].new = req[q].new => r = q
  /\ \A r \in Requests : Minted(r) /\ req[r].op = "login" => \A k \in Tokens : family[k] # req[r].new

(* Outside of raced families there is one rotation at a time, and the      *)
(* token it has read is the only one that can be live.                     *)
Alone(r) ==
  Rotating(r) /\ family[req[r].token] \notin raced =>
    /\ \A k \in Live : family[k] = family[req[r].token] => k = req[r].token
    /\ \A q \in Requests : Rotating(q) /\ family[req[q].token] = family[req[r].token] => q = r

Heads == \A r \in Requests : Alone(r)

(* A closing request that nobody came across has all that is live.         *)
Snapshots ==
  \A r \in alone : Closing(r) =>
     /\ NobodyRotates(req[r].fam)
     /\ \A k \in Live : family[k] = req[r].fam => k \in req[r].kills

Closed ==
  \A f \in sealed : /\ f # 0 /\ \E k \in Tokens : family[k] = f
                    /\ NobodyRotates(f)
                    /\ \A k \in Live : family[k] # f

IInv == SessionsTypeOK /\ Shape /\ Rows /\ OneHead /\ Heads /\ Snapshots /\ Closed

(* A request that does not move stays what it was.                         *)
LEMMA Bystander ==
  ASSUME NEW q \in Requests, req'[q] = req[q]
  PROVE  /\ (Pending(q)' <=> Pending(q)) /\ (Minted(q)' <=> Minted(q))
         /\ (Rotating(q)' <=> Rotating(q)) /\ (Closing(q)' <=> Closing(q))
  BY DEF Pending, Minted, Rotating, Closing

(* It still fits while no token comes or goes and numbers only grow.       *)
LEMMA BystanderFits ==
  ASSUME NEW q \in Requests, req'[q] = req[q], family' = family,
         issued \in Nat, issued' \in Nat, issued <= issued', MaxToken \in Nat, Fits(q)
  PROVE  Fits(q)'
  <1>1. Minted(q) => req[q].new <= issued'
    <2>1. Minted(q) => req[q].new \in 1..MaxToken /\ req[q].new <= issued BY DEF Fits, Tokens
    <2> QED BY <2>1
  <1> QED BY <1>1, Bystander DEF Fits

(* What Prepare leaves in the request, and in the others.                  *)
LEMMA Prepared ==
  ASSUME req \in [Requests -> Request], NEW r \in Requests,
         NEW fam \in 0..MaxToken, NEW new \in 0..MaxToken, NEW kills \in SUBSET Tokens,
         NEW says \in {"none", "denied", "granted", "reuse", "left"},
         Prepare(r, fam, new, kills, says)
  PROVE  /\ req' \in [Requests -> Request]
         /\ \A q \in Requests : q # r => req'[q] = req[q]
         /\ req'[r].pc = "ready" /\ req'[r].op = req[r].op /\ req'[r].token = req[r].token
         /\ req'[r].fam = fam /\ req'[r].new = new /\ req'[r].kills = kills /\ req'[r].says = says
  <1> DEFINE v == [req[r] EXCEPT !.pc = "ready", !.fam = fam, !.new = new, !.kills = kills, !.says = says]
  <1>1. req'[r] = v /\ req' = [req EXCEPT ![r] = v] BY DEF Prepare
  <1>2. req[r] \in Request OBVIOUS
  <1>3. v \in Request BY <1>2 DEF Request
  <1>4. /\ v.pc = "ready" /\ v.op = req[r].op /\ v.token = req[r].token
        /\ v.fam = fam /\ v.new = new /\ v.kills = kills /\ v.says = says
    BY <1>2 DEF Request
  <1> HIDE DEF v
  <1> QED BY <1>1, <1>3, <1>4

(* The same of the outcome of a step that only moves the request on.       *)
LEMMA Stepped ==
  ASSUME req \in [Requests -> Request], NEW r \in Requests, NEW pc \in {"row", "answered"}, Step(r, pc)
  PROVE  /\ req' \in [Requests -> Request]
         /\ \A q \in Requests : q # r => req'[q] = req[q]
         /\ req'[r].pc = pc /\ req'[r].op = req[r].op /\ req'[r].token = req[r].token
         /\ req'[r].fam = req[r].fam /\ req'[r].new = req[r].new
         /\ req'[r].kills = req[r].kills /\ req'[r].says = req[r].says
  <1>1. req[r] \in Request /\ req' = [req EXCEPT ![r] = req'[r]] /\ req'[r] = [req[r] EXCEPT !.pc = pc] BY DEF Step
  <1>2. req'[r] \in Request BY <1>1 DEF Request
  <1>3. /\ req'[r].pc = pc /\ req'[r].op = req[r].op /\ req'[r].token = req[r].token
        /\ req'[r].fam = req[r].fam /\ req'[r].new = req[r].new
        /\ req'[r].kills = req[r].kills /\ req'[r].says = req[r].says
    BY <1>1 DEF Request
  <1> QED BY <1>1, <1>2, <1>3

(* So is a request that is refused, or ends with nothing to write.         *)
LEMMA Finished ==
  ASSUME req \in [Requests -> Request], NEW r \in Requests,
         NEW says \in {"none", "limited", "denied", "granted", "reuse", "left"}, Finish(r, says)
  PROVE  req' = [req EXCEPT ![r] = req'[r]] /\ req'[r] \in Request /\ req'[r].pc = "done"
  <1>1. req[r] \in Request /\ req' = [req EXCEPT ![r] = req'[r]] /\ req'[r] = [req[r] EXCEPT !.pc = "done", !.says = says]
    BY DEF Finish
  <1> QED BY <1>1 DEF Request

(* A token that is known has a row.                                        *)
LEMMA KnownIsToken ==
  ASSUME SessionsTypeOK, NEW r \in Requests, Known(req[r].token)
  PROVE  /\ req[r].token \in Tokens
         /\ family[req[r].token] # 0 /\ family[req[r].token] \in 0..MaxToken
  <1>1. req[r].token \in 0..MaxToken BY DEF SessionsTypeOK, Request
  <1>2. req[r].token \in Tokens BY <1>1, SessionsAssumption DEF Known, Tokens
  <1> QED BY <1>2 DEF Known, SessionsTypeOK

(* The request that is nobody's.                                           *)
LEMMA IdleRequest == Idle \in Request /\ Idle.pc = "idle"
  <1>1. 0 \in 0..MaxToken BY SessionsAssumption
  <1> QED BY <1>1 DEF Idle, Request

(* So is a request just sent: it has its operation and its token.          *)
LEMMA Fresh ==
  ASSUME NEW op \in {"none", "login", "refresh", "logout"}, NEW token \in 0..MaxToken
  PROVE  [Idle EXCEPT !.pc = "sent", !.op = op, !.token = token] \in Request
  BY IdleRequest DEF Request

(* The invariant holds of a database with no session, or with one.         *)
LEMMA InitHolds == SessionsInit => IInv
  <1> SUFFICES ASSUME SessionsInit PROVE IInv OBVIOUS
  <1>1. SessionsTypeOK
    BY SessionsAssumption DEF SessionsInit, SessionsTypeOK, Request, Idle, Tokens
  <1>2. \A r \in Requests : req[r] = Idle BY DEF SessionsInit
  <1>3. \A r \in Requests : ~Pending(r) /\ ~Minted(r) /\ ~Rotating(r) /\ ~Closing(r) /\ req[r].pc = "idle"
    <2>0. Idle.pc = "idle" BY DEF Idle
    <2>1. \A r \in Requests : req[r].pc = "idle" BY <1>2, <2>0
    <2> QED BY <2>1 DEF Pending, Minted, Rotating, Closing
  <1>4. Shape /\ Heads BY <1>3 DEF Shape, Fits, Heads, Alone
  <1>5. Rows
    BY <1>3, SessionsAssumption DEF Rows, SessionsInit, Tokens
  <1>6. OneHead /\ Snapshots /\ Closed
    BY SessionsAssumption DEF OneHead, Snapshots, Closed, SessionsInit, Live, Tokens
  <1> QED BY <1>1, <1>4, <1>5, <1>6 DEF IInv

(***************************************************************************)
(* The rest of the invariant, when one request moves and no row does.      *)
(***************************************************************************)
LEMMA OneMoves ==
  ASSUME IInv, NEW r \in Requests, SessionsTypeOK',
         \A q \in Requests : q # r => req'[q] = req[q],
         UNCHANGED <<family, revoked, sealed>>, issued <= issued', raced \subseteq raced',
         Fits(r)',
         Minted(r)' => /\ family[req'[r].new] = 0
                       /\ \A q \in Requests : q # r /\ Minted(q) => req[q].new # req'[r].new
                       /\ req'[r].op = "login" => \A k \in Tokens : family[k] # req'[r].new,
         Rotating(r)' => /\ family[req'[r].token] \notin sealed
                         /\ family[req'[r].token] \notin raced' =>
                              /\ \A k \in Live : family[k] = family[req'[r].token] => k = req'[r].token
                              /\ \A q \in Requests : Rotating(q) /\ family[req[q].token] = family[req'[r].token] => q = r,
         \A q \in alone' : q # r => /\ q \in alone
                                    /\ Rotating(r)' /\ Closing(q) => req[q].fam # family[req'[r].token],
         r \in alone' /\ Closing(r)' => /\ NobodyRotates(req'[r].fam)
                                        /\ \A k \in Live : family[k] = req'[r].fam => k \in req'[r].kills
  PROVE  IInv'
  <1>0. SessionsTypeOK /\ Shape /\ Rows /\ OneHead /\ Heads /\ Snapshots /\ Closed BY DEF IInv
  <1>1. issued \in Nat /\ issued' \in Nat /\ MaxToken \in Nat
    BY <1>0, SessionsAssumption DEF SessionsTypeOK
  <1>2. Live' = Live BY DEF Live
  <1>3. \A q \in Requests : q # r => /\ (Pending(q)' <=> Pending(q)) /\ (Minted(q)' <=> Minted(q))
                                     /\ (Rotating(q)' <=> Rotating(q)) /\ (Closing(q)' <=> Closing(q))
    BY Bystander
  <1>4. Shape'
    <2> SUFFICES ASSUME NEW q \in Requests PROVE Fits(q)' BY DEF Shape
    <2> QED BY <1>0, <1>1, BystanderFits DEF Shape
  <1>5. Rows'
    <2>1. \A k \in Tokens : family[k] # 0 => k <= issued' /\ family[k] <= issued'
      <3> SUFFICES ASSUME NEW k \in Tokens, family[k] # 0 PROVE k <= issued' /\ family[k] <= issued' OBVIOUS
      <3>1. k \in Nat /\ family[k] \in Nat BY <1>0, <1>1 DEF SessionsTypeOK, Tokens
      <3>2. k <= issued /\ family[k] <= issued BY <1>0 DEF Rows
      <3> QED BY <1>1, <3>1, <3>2
    <2> QED BY <2>1, <1>0, <1>3 DEF Rows
  <1>6. OneHead' BY <1>0, <1>2 DEF OneHead
  <1>7. \A q \in Requests : \A g : q # r => (RotatesIn(q, g)' <=> RotatesIn(q, g))
    BY <1>3 DEF RotatesIn
  <1>8. \A g : RotatesIn(r, g)' <=> Rotating(r)' /\ family[req'[r].token] = g
    BY DEF RotatesIn
  <1>9. Heads'
    <2> SUFFICES ASSUME NEW q \in Requests, Rotating(q)', family[req'[q].token] \notin raced'
                 PROVE  /\ \A k \in Live : family[k] = family[req'[q].token] => k = req'[q].token
                        /\ \A p \in Requests : Rotating(p)' /\ family[req'[p].token] = family[req'[q].token] => p = q
      BY <1>2 DEF Heads, Alone
    <2>1. CASE q = r BY <2>1, <1>3
    <2>2. CASE q # r
      <3>1. Rotating(q) /\ req'[q] = req[q] /\ family[req[q].token] \notin raced BY <2>2, <1>3
      <3>2. Alone(q) BY <1>0 DEF Heads
      <3>3. ~(Rotating(r)' /\ family[req'[r].token] = family[req[q].token]) BY <2>2, <3>1
      <3> QED BY <2>2, <3>1, <3>2, <3>3, <1>3 DEF Alone
    <2> QED BY <2>1, <2>2
  <1>10. Snapshots'
    <2> SUFFICES ASSUME NEW q \in alone', Closing(q)'
                 PROVE  NobodyRotates(req[q].fam)' /\ \A k \in Live : family[k] = req'[q].fam => k \in req'[q].kills
      BY <1>2 DEF Snapshots
    <2>0. q \in Requests BY DEF SessionsTypeOK
    <2>1. CASE q = r
      <3>1. ~Rotating(r)' BY <2>1 DEF Rotating, Closing
      <3> QED BY <2>1, <3>1, <1>7, <1>8 DEF NobodyRotates
    <2>2. CASE q # r
      <3>1. Closing(q) /\ q \in alone /\ req'[q] = req[q] BY <2>0, <2>2, <1>3
      <3> QED BY <2>2, <3>1, <1>0, <1>7, <1>8 DEF Snapshots, NobodyRotates
    <2> QED BY <2>1, <2>2
  <1>11. Closed' BY <1>0, <1>2, <1>7, <1>8 DEF Closed, NobodyRotates
  <1> QED BY <1>4, <1>5, <1>6, <1>9, <1>10, <1>11 DEF IInv

(* Requests come and go without touching rows or other requests.           *)
LEMMA SameRows ==
  ASSUME IInv, NEW r \in Requests, req' = [req EXCEPT ![r] = req'[r]], req'[r] \in Request,
         req'[r].pc \in {"idle", "sent", "done"},
         UNCHANGED <<storeVars, historyVars>>
  PROVE  IInv'
  <1>0. SessionsTypeOK BY DEF IInv
  <1>1. ~Pending(r)' /\ ~Minted(r)' /\ ~Rotating(r)' /\ ~Closing(r)' /\ req'[r].pc \notin {"answered", "row"}
    BY DEF Pending, Minted, Rotating, Closing
  <1>2. Fits(r)' BY <1>1 DEF Fits
  <1>3. req \in [Requests -> Request] /\ issued \in Nat BY <1>0, SessionsAssumption DEF SessionsTypeOK
  <1>4. req' \in [Requests -> Request] /\ \A q \in Requests : q # r => req'[q] = req[q] BY <1>3
  <1>5. SessionsTypeOK' BY <1>0, <1>4 DEF SessionsTypeOK, storeVars, historyVars
  <1>6. UNCHANGED <<family, revoked, sealed, raced, alone, issued>> /\ issued <= issued' BY <1>3 DEF storeVars, historyVars
  <1> QED BY <1>1, <1>2, <1>4, <1>5, <1>6, OneMoves

(* Numbers are fresh when they are minted.                                 *)
LEMMA MintsFresh ==
  ASSUME IInv, Mint
  PROVE  /\ issued + 1 \in Tokens /\ issued + 1 \in 0..MaxToken /\ issued' = issued + 1 /\ issued <= issued'
         /\ issued + 1 # 0 /\ issued \in Nat /\ issued + 1 <= issued'
         /\ \A k \in Tokens : family[k] # issued + 1
         /\ family[issued + 1] = 0
         /\ \A q \in Requests : Minted(q) => req[q].new # issued + 1
  <1>0. SessionsTypeOK /\ Shape /\ Rows BY DEF IInv
  <1>1. issued \in Nat /\ MaxToken \in Nat BY <1>0, SessionsAssumption DEF SessionsTypeOK
  <1>2. /\ issued + 1 \in Tokens /\ issued + 1 \in 0..MaxToken /\ issued' = issued + 1 /\ issued <= issued'
        /\ issued + 1 # 0 /\ issued + 1 <= issued'
    BY <1>1 DEF Mint, Tokens
  <1>3. \A k \in Tokens : family[k] # issued + 1
    <2> SUFFICES ASSUME NEW k \in Tokens, family[k] = issued + 1 PROVE FALSE OBVIOUS
    <2>1. family[k] <= issued BY <1>0, <1>2 DEF Rows
    <2> QED BY <1>1, <2>1
  <1>4. family[issued + 1] = 0
    <2> SUFFICES ASSUME family[issued + 1] # 0 PROVE FALSE OBVIOUS
    <2>1. issued + 1 <= issued BY <1>0, <1>2 DEF Rows
    <2> QED BY <1>1, <2>1
  <1>5. \A q \in Requests : Minted(q) => req[q].new # issued + 1
    <2> SUFFICES ASSUME NEW q \in Requests, Minted(q), req[q].new = issued + 1 PROVE FALSE OBVIOUS
    <2>1. issued + 1 <= issued BY <1>0 DEF Shape, Fits
    <2> QED BY <1>1, <2>1
  <1> QED BY <1>1, <1>2, <1>3, <1>4, <1>5

(* A login has read the user: its token opens a family that nobody has.    *)
LEMMA LoginKeeps == ASSUME IInv, NEW r \in Requests, Login(r) PROVE IInv'
  <1>0. SessionsTypeOK BY DEF IInv
  <1>1. CASE Finish(r, "denied") /\ UNCHANGED issued
    <2>1. req' = [req EXCEPT ![r] = req'[r]] /\ req'[r] \in Request /\ req'[r].pc = "done"
      BY <1>0, <1>1, Finished DEF SessionsTypeOK
    <2> QED BY <1>1, <2>1, SameRows DEF Login, storeVars
  <1>2. CASE approved /\ Mint /\ Prepare(r, issued + 1, issued + 1, {}, "granted")
    <2>1. req \in [Requests -> Request] /\ issued + 1 \in 0..MaxToken BY <1>0, <1>2, MintsFresh DEF SessionsTypeOK
    <2>2. /\ req' \in [Requests -> Request]
          /\ \A q \in Requests : q # r => req'[q] = req[q]
          /\ req'[r].pc = "ready" /\ req'[r].op = req[r].op /\ req'[r].token = req[r].token
          /\ req'[r].fam = issued + 1 /\ req'[r].new = issued + 1 /\ req'[r].kills = {} /\ req'[r].says = "granted"
      BY <1>2, <2>1, Prepared
    <2>3. UNCHANGED <<approved, family, revoked, expired, raced, alone, sealed>> /\ req[r].op = "login" /\ req[r].pc = "sent"
      BY DEF Login, historyVars
    <2>4. SessionsTypeOK' BY <1>0, <1>2, <2>2, <2>3, MintsFresh DEF SessionsTypeOK
    <2>5. Minted(r)' /\ ~Rotating(r)' /\ ~Closing(r)'
      BY <2>2, <2>3 DEF Pending, Minted, Rotating, Closing
    <2>6. Fits(r)' BY <1>2, <2>2, <2>3, <2>5, MintsFresh DEF Fits
    <2> QED BY <1>2, <2>2, <2>3, <2>4, <2>5, <2>6, MintsFresh, OneMoves
  <1> QED BY <1>1, <1>2 DEF Login

(* A closing request reads what is live, all of it.                        *)
LEMMA CloseKeeps ==
  ASSUME IInv, NEW r \in Requests, NEW says \in {"reuse", "left"}, req[r].pc = "sent",
         Known(req[r].token), Close(r, says), UNCHANGED <<storeVars, raced, sealed>>
  PROVE  IInv'
  <1> DEFINE f == family[req[r].token]
             kills == {k \in Live : family[k] = f}
  <1>0. SessionsTypeOK /\ issued \in Nat BY SessionsAssumption DEF IInv, SessionsTypeOK
  <1>1. req[r].token \in Tokens /\ f # 0 /\ f \in 0..MaxToken /\ 0 \in 0..MaxToken /\ kills \in SUBSET Tokens
    BY <1>0, SessionsAssumption, KnownIsToken DEF Live, SessionsTypeOK
  <1>2. Prepare(r, f, 0, kills, says) BY DEF Close, RevokeFamily
  <1>3. /\ req' \in [Requests -> Request]
        /\ \A q \in Requests : q # r => req'[q] = req[q]
        /\ req'[r].pc = "ready" /\ req'[r].op = req[r].op /\ req'[r].token = req[r].token
        /\ req'[r].fam = f /\ req'[r].new = 0 /\ req'[r].kills = kills /\ req'[r].says = says
    <2>1. req \in [Requests -> Request] BY <1>0 DEF SessionsTypeOK
    <2> HIDE DEF f, kills
    <2> QED BY <1>1, <1>2, <2>1, Prepared
  <1>4. UNCHANGED <<approved, issued, family, revoked, expired, raced, sealed>> /\ issued <= issued'
    BY <1>0 DEF storeVars
  <1>5. alone' \subseteq alone \cup {r} /\ (r \in alone' => NobodyRotates(f)) BY DEF Close
  <1>6. SessionsTypeOK' BY <1>0, <1>3, <1>4, <1>5 DEF SessionsTypeOK
  <1>7. ~Minted(r)' /\ ~Rotating(r)' /\ Closing(r)'
    BY <1>3 DEF Pending, Minted, Rotating, Closing
  <1>8. Fits(r)' BY <1>1, <1>3, <1>4, <1>7 DEF Fits
  <1> QED BY <1>3, <1>4, <1>5, <1>6, <1>7, <1>8, OneMoves

(* A refresh with an expired row: it will revoke that row, no other.       *)
LEMMA ExpiredKeeps == ASSUME IInv, NEW r \in Requests, RefreshExpired(r) PROVE IInv'
  <1> DEFINE f == family[req[r].token]
  <1>0. SessionsTypeOK /\ issued \in Nat BY SessionsAssumption DEF IInv, SessionsTypeOK
  <1>1. req[r].token \in Tokens /\ f \in 0..MaxToken /\ 0 \in 0..MaxToken /\ {req[r].token} \in SUBSET Tokens
    BY <1>0, SessionsAssumption, KnownIsToken DEF RefreshExpired, SessionsTypeOK
  <1>2. Prepare(r, f, 0, {req[r].token}, "denied") BY DEF RefreshExpired
  <1>3. /\ req' \in [Requests -> Request]
        /\ \A q \in Requests : q # r => req'[q] = req[q]
        /\ req'[r].pc = "ready" /\ req'[r].new = 0 /\ req'[r].says = "denied"
    <2>1. req \in [Requests -> Request] BY <1>0 DEF SessionsTypeOK
    <2> HIDE DEF f
    <2> QED BY <1>1, <1>2, <2>1, Prepared
  <1>4. UNCHANGED <<approved, issued, family, revoked, expired, raced, alone, sealed>> /\ issued <= issued'
    BY <1>0 DEF RefreshExpired, storeVars, historyVars
  <1>5. SessionsTypeOK' BY <1>0, <1>3, <1>4 DEF SessionsTypeOK
  <1>6. ~Minted(r)' /\ ~Rotating(r)' /\ ~Closing(r)' BY <1>3 DEF Pending, Minted, Rotating, Closing
  <1>7. Fits(r)' BY <1>3, <1>6 DEF Fits
  <1> QED BY <1>3, <1>4, <1>5, <1>6, <1>7, OneMoves

(* A rotation that has read its token as good: the family has no closing   *)
(* request that could claim to have been alone, nor has it been closed.    *)
LEMMA RowKeeps == ASSUME IInv, NEW r \in Requests, RefreshRow(r) PROVE IInv'
  <1> DEFINE f == family[req[r].token]
  <1>0. SessionsTypeOK /\ OneHead /\ Closed /\ issued \in Nat BY SessionsAssumption DEF IInv, SessionsTypeOK
  <1>1. req[r].token \in Tokens /\ f # 0 /\ f \in 0..MaxToken /\ req[r].token \in Live
    BY <1>0, KnownIsToken DEF RefreshRow, Live
  <1>2. req[r].op = "refresh" /\ Step(r, "row") BY DEF RefreshRow, Refreshing
  <1>3. /\ req' \in [Requests -> Request]
        /\ \A q \in Requests : q # r => req'[q] = req[q]
        /\ req'[r].pc = "row" /\ req'[r].op = req[r].op /\ req'[r].token = req[r].token
    BY <1>0, <1>2, Stepped DEF SessionsTypeOK
  <1>4. UNCHANGED <<approved, issued, family, revoked, expired, sealed>> /\ issued <= issued'
    BY <1>0 DEF RefreshRow, storeVars
  <1>5. /\ raced \subseteq raced' /\ raced' \subseteq raced \cup {f} /\ (f \notin raced' => NobodyRotates(f))
        /\ alone' = {q \in alone : ~(Closing(q) /\ req[q].fam = f)}
    BY DEF RefreshRow
  <1>6. SessionsTypeOK' BY <1>0, <1>1, <1>3, <1>4, <1>5 DEF SessionsTypeOK
  <1>7. ~Pending(r)' /\ ~Minted(r)' /\ ~Closing(r)'
    BY <1>3 DEF Pending, Minted, Closing
  <1>8. Fits(r)' BY <1>1, <1>2, <1>3, <1>4, <1>7 DEF Fits
  <1>9. f \notin sealed BY <1>0, <1>1 DEF Closed
  <1>10. f \notin raced' => /\ \A k \in Live : family[k] = f => k = req[r].token
                            /\ \A q \in Requests : Rotating(q) /\ family[req[q].token] = f => q = r
    BY <1>0, <1>1, <1>5 DEF OneHead, NobodyRotates, RotatesIn
  <1>11. \A q \in alone' : q \in alone /\ (Closing(q) => req[q].fam # f) BY <1>5
  <1> HIDE DEF f
  <1> QED BY <1>3, <1>4, <1>5, <1>6, <1>7, <1>8, <1>9, <1>10, <1>11, OneMoves DEF f

(* The second read of a rotation: its new token is fresh, its old one is   *)
(* still the only one that can be live.                                    *)
LEMMA UserKeeps == ASSUME IInv, NEW r \in Requests, RefreshUser(r) PROVE IInv'
  <1> DEFINE f == family[req[r].token]
  <1>0. SessionsTypeOK /\ Shape /\ Heads /\ Closed /\ Snapshots /\ issued \in Nat BY SessionsAssumption DEF IInv, SessionsTypeOK
  <1>1. CASE ~approved
    <2>1. Finish(r, "denied") /\ UNCHANGED <<storeVars, historyVars>> BY <1>1 DEF RefreshUser, storeVars
    <2>2. req' = [req EXCEPT ![r] = req'[r]] /\ req'[r] \in Request /\ req'[r].pc = "done"
      BY <1>0, <2>1, Finished DEF SessionsTypeOK
    <2> QED BY <2>1, <2>2, SameRows
  <1>2. CASE approved
    <2>0. req[r].op = "refresh" /\ req[r].pc = "row" /\ Rotating(r) BY <1>0 DEF RefreshUser, Rotating, Shape, Fits
    <2>1. req[r].token \in Tokens /\ f # 0 /\ f \in 0..MaxToken /\ {req[r].token} \in SUBSET Tokens
      BY <1>0, <2>0 DEF Shape, Fits, SessionsTypeOK
    <2>2. Mint /\ Prepare(r, f, issued + 1, {req[r].token}, "granted") BY <1>2 DEF RefreshUser
    <2>3. /\ req' \in [Requests -> Request]
          /\ \A q \in Requests : q # r => req'[q] = req[q]
          /\ req'[r].pc = "ready" /\ req'[r].op = req[r].op /\ req'[r].token = req[r].token
          /\ req'[r].fam = f /\ req'[r].new = issued + 1 /\ req'[r].kills = {req[r].token} /\ req'[r].says = "granted"
      <3>1. req \in [Requests -> Request] /\ issued + 1 \in 0..MaxToken BY <1>0, <2>2, MintsFresh DEF SessionsTypeOK
      <3> HIDE DEF f
      <3> QED BY <2>1, <2>2, <3>1, Prepared
    <2>4. UNCHANGED <<approved, family, revoked, expired, raced, alone, sealed>> BY DEF RefreshUser, historyVars
    <2>5. SessionsTypeOK' BY <1>0, <2>2, <2>3, <2>4, MintsFresh DEF SessionsTypeOK
    <2>6. Minted(r)' /\ Rotating(r)' /\ ~Closing(r)'
      BY <2>0, <2>3 DEF Pending, Minted, Rotating, Closing
    <2>7. Fits(r)' BY <2>0, <2>1, <2>2, <2>3, <2>4, <2>6, MintsFresh DEF Fits
    <2>8. RotatesIn(r, f) BY <2>0 DEF RotatesIn
    <2>9. f \notin sealed BY <1>0, <2>8 DEF Closed, NobodyRotates
    <2>10. f \notin raced => /\ \A k \in Live : family[k] = f => k = req[r].token
                             /\ \A q \in Requests : Rotating(q) /\ family[req[q].token] = f => q = r
      BY <1>0, <2>0 DEF Heads, Alone
    <2>11. \A q \in alone : Closing(q) => req[q].fam # f
      BY <1>0, <2>8 DEF Snapshots, NobodyRotates
    <2>12. req'[r].op # "login" BY <2>0, <2>3
    <2> HIDE DEF f
    <2>13. Rotating(r)' => /\ family[req'[r].token] \notin sealed
                           /\ family[req'[r].token] \notin raced' =>
                                /\ \A k \in Live : family[k] = family[req'[r].token] => k = req'[r].token
                                /\ \A q \in Requests : Rotating(q) /\ family[req[q].token] = family[req'[r].token] => q = r
      BY <2>3, <2>4, <2>9, <2>10 DEF f
    <2>14. \A q \in alone' : q # r => /\ q \in alone
                                      /\ Rotating(r)' /\ Closing(q) => req[q].fam # family[req'[r].token]
      BY <2>3, <2>4, <2>11 DEF f
    <2> QED BY <2>2, <2>3, <2>4, <2>5, <2>6, <2>7, <2>12, <2>13, <2>14, MintsFresh, OneMoves
  <1> QED BY <1>1, <1>2

(* A reply that leaves early changes no row.                               *)
LEMMA EarlyKeeps == ASSUME IInv, NEW r \in Requests, ReplyEarly(r) PROVE IInv'
  <1>0. SessionsTypeOK /\ Shape /\ Rows /\ Heads /\ Closed /\ Snapshots /\ issued \in Nat BY SessionsAssumption DEF IInv, SessionsTypeOK
  <1>1. /\ req' \in [Requests -> Request]
        /\ \A q \in Requests : q # r => req'[q] = req[q]
        /\ req'[r].pc = "answered" /\ req'[r].op = req[r].op /\ req'[r].token = req[r].token
        /\ req'[r].fam = req[r].fam /\ req'[r].new = req[r].new
        /\ req'[r].kills = req[r].kills /\ req'[r].says = req[r].says
    BY <1>0, Stepped DEF ReplyEarly, SessionsTypeOK
  <1>2. UNCHANGED <<approved, issued, family, revoked, expired, raced, alone, sealed>> /\ issued <= issued'
    BY <1>0 DEF ReplyEarly, storeVars, historyVars
  <1>3. SessionsTypeOK' BY <1>0, <1>1, <1>2 DEF SessionsTypeOK
  <1>4. /\ Pending(r)' /\ Pending(r) /\ (Minted(r)' <=> Minted(r)) /\ (Rotating(r)' <=> Rotating(r))
        /\ (Closing(r)' <=> Closing(r)) /\ req'[r].says \in {"granted", "left"}
    BY <1>1 DEF ReplyEarly, Pending, Minted, Rotating, Closing
  <1>5. Fits(r)'
    <2>1. Fits(r) BY <1>0 DEF Shape
    <2> QED BY <1>1, <1>2, <1>4, <2>1 DEF Fits
  <1>6. Rotating(r) => RotatesIn(r, family[req[r].token]) BY DEF RotatesIn
  <1>7. Rotating(r) => family[req[r].token] \notin sealed BY <1>0, <1>6 DEF Closed, NobodyRotates
  <1>8. \A q \in alone : Rotating(r) /\ Closing(q) => req[q].fam # family[req[r].token]
    BY <1>0, <1>6 DEF Snapshots, NobodyRotates
  <1>9. Rotating(r) /\ family[req[r].token] \notin raced =>
           /\ \A k \in Live : family[k] = family[req[r].token] => k = req[r].token
           /\ \A q \in Requests : Rotating(q) /\ family[req[q].token] = family[req[r].token] => q = r
    BY <1>0 DEF Heads, Alone
  <1>10. Minted(r) => /\ family[req[r].new] = 0
                      /\ \A q \in Requests : q # r /\ Minted(q) => req[q].new # req[r].new
                      /\ req[r].op = "login" => \A k \in Tokens : family[k] # req[r].new
    BY <1>0 DEF Rows
  <1>11. r \in alone /\ Closing(r) => /\ NobodyRotates(req[r].fam)
                                      /\ \A k \in Live : family[k] = req[r].fam => k \in req[r].kills
    BY <1>0 DEF Snapshots
  <1> QED BY <1>1, <1>2, <1>3, <1>4, <1>5, <1>7, <1>8, <1>9, <1>10, <1>11, OneMoves

(* A commit: the tokens it revokes are gone when its new one is there, and *)
(* only the family of the request changes.                                 *)
LEMMA CommitKeeps == ASSUME IInv, NEW r \in Requests, Commit(r) PROVE IInv'
  <1> DEFINE fam == req[r].fam
             new == req[r].new
             kills == req[r].kills
  <1>0. SessionsTypeOK /\ Shape /\ Rows /\ OneHead /\ Heads /\ Snapshots /\ Closed BY DEF IInv
  <1>1. /\ Pending(r) /\ fam \in 0..MaxToken /\ new \in 0..MaxToken /\ kills \subseteq Tokens
        /\ family' = [k \in Tokens |-> IF k = new THEN fam ELSE family[k]]
        /\ revoked' = revoked \cup kills
        /\ UNCHANGED <<approved, issued, expired, raced, alone>>
        /\ sealed' = IF Closing(r) /\ r \in alone THEN sealed \cup {fam} ELSE sealed
    <2>1. req[r] \in Request BY <1>0 DEF SessionsTypeOK
    <2>2. fam \in 0..MaxToken /\ new \in 0..MaxToken /\ kills \subseteq Tokens BY <2>1 DEF Request
    <2> QED BY <2>2 DEF Commit, Pending
  <1>2. /\ \A q \in Requests : q # r => req'[q] = req[q]
        /\ req'[r].pc \in {"done", "idle"} /\ req' \in [Requests -> Request]
    <2>1. req[r] \in Request /\ req \in [Requests -> Request] BY <1>0 DEF SessionsTypeOK
    <2>2. Idle \in Request /\ Idle.pc = "idle" BY IdleRequest
    <2>3. [req[r] EXCEPT !.pc = "done"] \in Request /\ [req[r] EXCEPT !.pc = "done"].pc = "done" BY <2>1 DEF Request
    <2>4. \E v \in {[req[r] EXCEPT !.pc = "done"], Idle} : req' = [req EXCEPT ![r] = v] BY DEF Commit
    <2> QED BY <2>1, <2>2, <2>3, <2>4
  <1>3. SessionsTypeOK' BY <1>0, <1>1, <1>2 DEF SessionsTypeOK
  <1>4. ~Pending(r)' /\ ~Minted(r)' /\ ~Rotating(r)' /\ ~Closing(r)'
    BY <1>2 DEF Pending, Minted, Rotating, Closing
  <1>5. \A q \in Requests : q # r => /\ (Pending(q)' <=> Pending(q)) /\ (Minted(q)' <=> Minted(q))
                                     /\ (Rotating(q)' <=> Rotating(q)) /\ (Closing(q)' <=> Closing(q))
    BY <1>2, Bystander
  (* The one row that may be new.                                          *)
  <1>6. Fits(r) /\ Alone(r) BY <1>0 DEF Shape, Heads
  <1>7. Minted(r) => /\ family[new] = 0 /\ new <= issued
                     /\ \/ Rotating(r) /\ fam = family[req[r].token] /\ kills = {req[r].token} /\ req[r].token \in Tokens
                        \/ fam = new /\ \A k \in Tokens : family[k] # fam
    <2>1. Minted(r) => family[new] = 0 /\ (req[r].op = "login" => \A k \in Tokens : family[k] # new) BY <1>0 DEF Rows
    <2>2. Minted(r) /\ req[r].op = "refresh" => Rotating(r) BY DEF Minted, Pending, Rotating
    <2> QED BY <1>6, <2>1, <2>2 DEF Fits
  <1>8. \A k \in Tokens : family'[k] # family[k] => k = new /\ Minted(r) /\ family'[k] = fam /\ family[k] = 0
    <2>1. ~Minted(r) => new = 0 BY <1>1, <1>6 DEF Fits
    <2>2. 0 \notin Tokens BY DEF Tokens
    <2> QED BY <1>1, <1>7, <2>1, <2>2
  <1>9. \A k \in Tokens : family[k] # 0 => family'[k] = family[k] BY <1>8
  <1>10. \A k \in Live' : \/ k \in Live /\ family'[k] = family[k] /\ k \notin kills
                          \/ k = new /\ Minted(r) /\ family'[k] = fam
    BY <1>1, <1>8 DEF Live
  <1>11. \A q \in Requests : Rotating(q) => req[q].token \in Tokens /\ family'[req[q].token] = family[req[q].token]
    BY <1>0, <1>9 DEF Shape, Fits
  <1> HIDE DEF fam, new, kills
  <1>12. \A q \in Requests : \A g : RotatesIn(q, g)' <=> RotatesIn(q, g) /\ q # r
    BY <1>2, <1>4, <1>5, <1>11 DEF RotatesIn
  (* It is in no family that another request counts on.                    *)
  <1>13. Minted(r) => ~(\E q \in Requests : q # r /\ Rotating(q) /\ family[req[q].token] \notin raced /\ family[req[q].token] = fam)
    <2> SUFFICES ASSUME Minted(r), NEW q \in Requests, q # r, Rotating(q),
                        family[req[q].token] \notin raced, family[req[q].token] = fam
                 PROVE  FALSE
      OBVIOUS
    <2>1. Alone(q) BY <1>0 DEF Heads
    <2> QED BY <2>1, <1>7, <1>11 DEF Alone
  <1>14. Minted(r) => \A f \in 0..MaxToken : NobodyRotates(f) /\ (\E k \in Tokens : family[k] = f) => f # fam
    BY <1>7 DEF NobodyRotates, RotatesIn
  <1>15. Shape'
    <2> SUFFICES ASSUME NEW q \in Requests PROVE Fits(q)' BY DEF Shape
    <2>1. CASE q = r BY <2>1, <1>2, <1>4 DEF Fits
    <2>2. CASE q # r
      <3>1. Fits(q) /\ req'[q] = req[q] /\ issued' = issued BY <2>2, <1>0, <1>1, <1>2 DEF Shape
      <3>2. Minted(q) /\ req[q].op = "refresh" => family'[req[q].token] = family[req[q].token]
        BY <1>11 DEF Minted, Pending, Rotating
      <3>3. \A k \in Tokens : family[k] = req[q].fam /\ req[q].fam # 0 => family'[k] = req[q].fam BY <1>9
      <3> QED BY <2>2, <3>1, <3>2, <3>3, <1>5, <1>11 DEF Fits
    <2> QED BY <2>1, <2>2
  <1>16. Rows'
    <2>1. \A k \in Tokens : family'[k] # 0 => k <= issued /\ family'[k] <= issued
      <3> SUFFICES ASSUME NEW k \in Tokens, family'[k] # 0 PROVE k <= issued /\ family'[k] <= issued OBVIOUS
      <3>1. CASE family'[k] = family[k] BY <3>1, <1>0 DEF Rows
      <3>2. CASE family'[k] # family[k]
        <4>1. k = new /\ family'[k] = fam /\ k <= issued BY <3>2, <1>7, <1>8
        <4> QED BY <3>2, <4>1, <1>0, <1>7, <1>8 DEF Rows
      <3> QED BY <3>1, <3>2
    <2>2. \A q \in Requests : q # r /\ Minted(q) =>
          (req[q].new \in Tokens /\ req[q].new # new /\ family[req[q].new] = 0) \/ ~Minted(r)
      BY <1>0 DEF Rows, Shape, Fits, new
    <2>3. \A q \in Requests : q # r /\ Minted(q) => family'[req[q].new] = 0
      BY <1>0, <1>8, <2>2 DEF Rows, Shape, Fits
    <2>4. \A q \in Requests : q # r /\ Minted(q) /\ req[q].op = "login" => \A k \in Tokens : family'[k] # req[q].new
      <3> SUFFICES ASSUME NEW q \in Requests, q # r, Minted(q), req[q].op = "login",
                          NEW k \in Tokens, family'[k] = req[q].new
                   PROVE  FALSE
        OBVIOUS
      <3>1. \A j \in Tokens : family[j] # req[q].new BY <1>0 DEF Rows
      <3>2. Minted(r) /\ fam = req[q].new BY <3>1, <1>8
      <3> QED BY <3>1, <3>2, <1>7, <2>2
    <2>5. \A q \in Requests : Minted(q)' => q # r /\ Minted(q) /\ req'[q] = req[q] BY <1>2, <1>4, <1>5
    <2>6. \A p, q \in Requests : Minted(p) /\ Minted(q) /\ req[p].new = req[q].new => p = q BY <1>0 DEF Rows
    <2> QED BY <2>1, <2>3, <2>4, <2>5, <2>6, <1>1 DEF Rows
  <1>17. OneHead'
    <2> SUFFICES ASSUME NEW j \in Live', NEW k \in Live', family'[j] = family'[k], family'[j] \notin raced
                 PROVE  j = k
      BY <1>1 DEF OneHead
    <2>1. CASE j # new /\ k # new BY <2>1, <1>0, <1>10 DEF OneHead
    <2>2. ASSUME NEW i \in Live', i # new, Minted(r), family'[i] = fam, fam \notin raced PROVE FALSE
      <3>1. i \in Live /\ family[i] = fam /\ i \notin kills /\ i \in Tokens BY <2>2, <1>10 DEF Live
      <3> QED BY <2>2, <3>1, <1>6, <1>7 DEF Alone
    <2>3. CASE j = new /\ k # new
      <3>1. CASE Minted(r) /\ family'[j] = fam BY <2>2, <2>3, <3>1
      <3>2. CASE j \in Live /\ family'[j] = family[j] BY <2>3, <3>2, <1>0, <1>10 DEF OneHead
      <3> QED BY <3>1, <3>2, <1>10
    <2>4. CASE j # new /\ k = new
      <3>1. CASE Minted(r) /\ family'[k] = fam BY <2>2, <2>4, <3>1
      <3>2. CASE k \in Live /\ family'[k] = family[k] BY <2>4, <3>2, <1>0, <1>10 DEF OneHead
      <3> QED BY <3>1, <3>2, <1>10
    <2> QED BY <2>1, <2>3, <2>4
  <1>18. Heads'
    <2> SUFFICES ASSUME NEW q \in Requests PROVE Alone(q)' BY DEF Heads
    <2>1. CASE ~Rotating(q)' BY <2>1 DEF Alone
    <2>2. CASE Rotating(q)'
      <3>1. q # r /\ Rotating(q) /\ req'[q] = req[q] /\ family'[req[q].token] = family[req[q].token]
        BY <2>2, <1>2, <1>4, <1>5, <1>11
      <3>2. Alone(q) BY <1>0 DEF Heads
      <3>3. family[req[q].token] \notin raced => \A k \in Live' : family'[k] = family[req[q].token] => k = req[q].token
        BY <3>1, <3>2, <1>10, <1>13 DEF Alone
      <3>4. \A p \in Requests : Rotating(p)' => Rotating(p) /\ req'[p] = req[p] /\ family'[req[p].token] = family[req[p].token]
        BY <1>2, <1>4, <1>5, <1>11
      <3> QED BY <3>1, <3>2, <3>3, <3>4, <1>1 DEF Alone
    <2> QED BY <2>1, <2>2
  <1>19. Snapshots'
    <2> SUFFICES ASSUME NEW q \in alone, Closing(q)'
                 PROVE  NobodyRotates(req[q].fam)' /\ \A k \in Live' : family'[k] = req'[q].fam => k \in req'[q].kills
      BY <1>1 DEF Snapshots
    <2>0. q \in Requests BY <1>0 DEF SessionsTypeOK
    <2>1. q # r /\ Closing(q) /\ req'[q] = req[q] BY <2>0, <1>2, <1>4, <1>5
    <2>2. NobodyRotates(req[q].fam) /\ \A k \in Live : family[k] = req[q].fam => k \in req[q].kills
      BY <2>1, <1>0 DEF Snapshots
    <2>3. \E k \in Tokens : family[k] = req[q].fam BY <2>0, <2>1, <1>0 DEF Shape, Fits
    <2>4. req[q].fam \in 0..MaxToken BY <2>3, <1>0 DEF SessionsTypeOK
    <2>5. Minted(r) => req[q].fam # fam BY <2>2, <2>3, <2>4, <1>14
    <2>6. NobodyRotates(req[q].fam)' BY <2>1, <2>2, <1>12 DEF NobodyRotates
    <2> QED BY <2>1, <2>2, <2>5, <2>6, <1>10
  <1>20. Closed'
    <2> SUFFICES ASSUME NEW f \in sealed'
                 PROVE  /\ f # 0 /\ \E k \in Tokens : family'[k] = f
                        /\ NobodyRotates(f)'
                        /\ \A k \in Live' : family'[k] # f
      BY DEF Closed
    <2>1. CASE f \in sealed
      <3>1. f # 0 /\ NobodyRotates(f) /\ (\E k \in Tokens : family[k] = f) /\ \A k \in Live : family[k] # f
        BY <2>1, <1>0 DEF Closed
      <3>2. f \in 0..MaxToken BY <2>1, <1>0 DEF SessionsTypeOK
      <3>3. Minted(r) => fam # f BY <3>1, <3>2, <1>14
      <3>4. NobodyRotates(f)' BY <3>1, <1>12 DEF NobodyRotates
      <3> QED BY <3>1, <3>3, <3>4, <1>9, <1>10
    <2>2. CASE Closing(r) /\ r \in alone /\ f = fam
      <3>1. f # 0 /\ (\E k \in Tokens : family[k] = f) BY <2>2, <1>6 DEF Fits, fam
      <3>2. NobodyRotates(f) /\ \A k \in Live : family[k] = f => k \in kills BY <2>2, <1>0 DEF Snapshots, fam, kills
      <3>3. ~Minted(r) BY <2>2 DEF Closing, Minted
      <3>4. NobodyRotates(f)' BY <3>2, <1>12 DEF NobodyRotates
      <3> QED BY <3>1, <3>2, <3>3, <3>4, <1>9, <1>10
    <2> QED BY <2>1, <2>2, <1>1
  <1> QED BY <1>3, <1>15, <1>16, <1>17, <1>18, <1>19, <1>20 DEF IInv

(* Time, administrators and steps of others touch nothing of this.         *)
LEMMA ClocksKeep ==
  ASSUME IInv, approved' \in BOOLEAN, expired' \subseteq Tokens, UNCHANGED <<issued, family, revoked, req, historyVars>>
  PROVE  IInv'
  <1>0. SessionsTypeOK /\ Shape /\ Rows /\ OneHead /\ Heads /\ Snapshots /\ Closed BY DEF IInv
  <1>1. SessionsTypeOK' BY <1>0 DEF SessionsTypeOK, historyVars
  <1>2. Live' = Live BY DEF Live
  <1>3. \A q \in Requests : /\ (Pending(q)' <=> Pending(q)) /\ (Minted(q)' <=> Minted(q))
                            /\ (Rotating(q)' <=> Rotating(q)) /\ (Closing(q)' <=> Closing(q))
    BY Bystander
  <1>4. Shape'
    <2> SUFFICES ASSUME NEW q \in Requests PROVE Fits(q)' BY DEF Shape
    <2>1. Fits(q) BY <1>0 DEF Shape
    <2> QED BY <2>1, <1>3 DEF Fits
  <1>5. Rows' BY <1>0, <1>3 DEF Rows
  <1>6. \A q \in Requests : \A g : RotatesIn(q, g)' <=> RotatesIn(q, g) BY <1>3 DEF RotatesIn
  <1>7. OneHead' BY <1>0, <1>2 DEF OneHead, historyVars
  <1>8. Heads' BY <1>0, <1>2, <1>3 DEF Heads, Alone, historyVars
  <1>9. Snapshots' BY <1>0, <1>2, <1>3, <1>6 DEF Snapshots, NobodyRotates, historyVars, SessionsTypeOK
  <1>10. Closed' BY <1>0, <1>2, <1>6 DEF Closed, NobodyRotates, historyVars
  <1> QED BY <1>1, <1>4, <1>5, <1>7, <1>8, <1>9, <1>10 DEF IInv

(* Whatever a request does keeps the invariant.                            *)
LEMMA ServeKeeps == ASSUME IInv, NEW r \in Requests, Serve(r) PROVE IInv'
  <1>1. ASSUME NEW says \in {"limited", "denied", "left"}, Finish(r, says), UNCHANGED <<storeVars, historyVars>> PROVE IInv'
    <2>0. req \in [Requests -> Request] BY DEF IInv, SessionsTypeOK
    <2>1. req' = [req EXCEPT ![r] = req'[r]] /\ req'[r] \in Request /\ req'[r].pc = "done"
      BY <1>1, <2>0, Finished
    <2> QED BY <1>1, <2>1, SameRows
  <1>2. CASE RefreshInvalid(r) BY <1>1, <1>2 DEF RefreshInvalid
  <1>3. CASE RefreshReused(r) BY <1>3, CloseKeeps DEF RefreshReused, Refreshing
  <1>4. CASE Logout(r)
    <2>1. CASE Known(req[r].token) /\ Close(r, "left") BY <1>4, <2>1, CloseKeeps DEF Logout
    <2>2. CASE Finish(r, "left") /\ UNCHANGED alone BY <1>1, <1>4, <2>2 DEF Logout, historyVars
    <2> QED BY <1>4, <2>1, <2>2 DEF Logout
  <1>5. CASE RefreshLimited(r) BY <1>1, <1>5 DEF RefreshLimited
  <1> QED BY <1>2, <1>3, <1>4, <1>5, LoginKeeps, ExpiredKeeps, RowKeeps, UserKeeps, CommitKeeps DEF Serve

(* So do sending a request, replying and dying.                            *)
LEMMA TrafficKeeps ==
  ASSUME IInv, NEW r \in Requests,
         \/ \E op \in {"login", "refresh", "logout"}, token \in 0..MaxToken : Send(r, op, token)
         \/ Reply(r) \/ Die(r) \/ ReplyEarly(r)
  PROVE  IInv'
  <1>0. req \in [Requests -> Request] BY DEF IInv, SessionsTypeOK
  <1>1. ASSUME NEW op \in {"login", "refresh", "logout"}, NEW token \in 0..MaxToken, Send(r, op, token) PROVE IInv'
    <2>1. [Idle EXCEPT !.pc = "sent", !.op = op, !.token = token] \in Request BY Fresh
    <2>2. [Idle EXCEPT !.pc = "sent", !.op = op, !.token = token].pc = "sent" BY DEF Idle
    <2>3. req' = [req EXCEPT ![r] = [Idle EXCEPT !.pc = "sent", !.op = op, !.token = token]] BY <1>1 DEF Send
    <2>4. req' = [req EXCEPT ![r] = req'[r]] /\ req'[r] \in Request /\ req'[r].pc = "sent" BY <1>0, <2>1, <2>2, <2>3
    <2> QED BY <1>1, <2>4, SameRows DEF Send
  <1>2. CASE Reply(r) \/ Die(r)
    <2>1. Idle \in Request /\ Idle.pc = "idle" BY IdleRequest
    <2>2. req' = [req EXCEPT ![r] = Idle] BY <1>2 DEF Reply, Die
    <2>3. req' = [req EXCEPT ![r] = req'[r]] /\ req'[r] \in Request /\ req'[r].pc = "idle"
      BY <1>0, <2>1, <2>2
    <2> QED BY <1>2, <2>3, SameRows DEF Reply, Die
  <1> QED BY <1>1, <1>2, EarlyKeeps

(* The invariant is inductive, whatever tokens clients present.            *)
LEMMA SessionsStep == IInv /\ [SessionsNext]_sessionVars => IInv'
  <1> SUFFICES ASSUME IInv, [SessionsNext]_sessionVars PROVE IInv' OBVIOUS
  <1>0. SessionsTypeOK BY DEF IInv
  <1>1. ASSUME NEW r \in Requests, NEW op \in {"login", "refresh", "logout"}, NEW token \in 0..issued, Send(r, op, token)
        PROVE  IInv'
    <2>1. token \in 0..MaxToken BY <1>0, SessionsAssumption DEF SessionsTypeOK
    <2> QED BY <1>1, <2>1, TrafficKeeps
  <1>2. ASSUME NEW k \in Tokens, Expire(k) PROVE IInv'
    BY <1>0, <1>2, ClocksKeep DEF Expire, SessionsTypeOK
  <1>3. ASSUME NEW value \in BOOLEAN, SetApproved(value) PROVE IInv'
    BY <1>0, <1>3, ClocksKeep DEF SetApproved, SessionsTypeOK
  <1>4. CASE UNCHANGED sessionVars
    BY <1>0, <1>4, ClocksKeep DEF sessionVars, storeVars, SessionsTypeOK
  <1> QED BY <1>1, <1>2, <1>3, <1>4, ServeKeeps, TrafficKeeps DEF SessionsNext

(* It holds of every execution.                                            *)
THEOREM SessionsInvariance == SessionsSpec => []IInv
  BY InitHolds, SessionsStep, PTL DEF SessionsSpec

(* A session has one live refresh token at a time, unless two rotations of *)
(* it overlapped.                                                          *)
THEOREM OneLiveToken == SessionsSpec => []OneHead
  BY SessionsInvariance, PTL DEF IInv

(* A session that was closed while no rotation was on its way has no live  *)
(* token, ever again.                                                      *)
THEOREM ClosedSessionsStayClosed == SessionsSpec => []ClosedForGood
  <1>1. IInv => ClosedForGood BY DEF IInv, Closed, ClosedForGood
  <1> QED BY <1>1, SessionsInvariance, PTL
===============================================================================
