---------------------------- MODULE DirectoryProofs ----------------------------
(***************************************************************************)
(* Proofs about the directory, for any number of accounts, connections,    *)
(* migrations and requests at once: what an administrator is promised by   *)
(* Accounts holds in it, rows refer to rows, credentials are in use only   *)
(* for those who may use them, and migrations outlast what they use.       *)
(***************************************************************************)
EXTENDS Directory, TLAPS

(***************************************************************************)
(* An installation keeps an administrator. The argument: a request that    *)
(* changes an account is about another account than the one it acts for,   *)
(* and while nobody has touched that one it is an administrator's, who is  *)
(* left.                                                                   *)
(***************************************************************************)

Administers(r) == InFlight(r) /\ req[r].op \in AdminOps

(* Whom a request acts for, and on.                                        *)
Acts(r) ==
  /\ req[r].actor \in Users /\ req[r].user \in Users /\ req[r].actor # req[r].user
  /\ r \notin touched => Admin(req[r].actor)

Acting == \A r \in Requests : Administers(r) => Acts(r)

(* What is written is an address, a role or a status.                      *)
Meant(q) ==
  q.pc # "idle" => /\ q.op \in {"boot", "register"} => q.value \in Mails
                   /\ q.op = "role" => q.value \in Roles
                   /\ q.op = "status" => q.value \in UserStatus
Meaning == \A r \in Requests : Meant(req[r])

AInv == AccountsTypeOK /\ Acting /\ Meaning /\ AdminRemains

(* A slot without a request.                                               *)
LEMMA NoRequestType == NoRequest \in AdminRequest /\ NoRequest.pc = "idle" /\ Meant(NoRequest)
  BY DEF NoRequest, AdminRequest, Meant

(* The invariant holds of an empty database and of an established one.     *)
LEMMA AccountsInitHolds == AccountsInit => AInv
  <1> SUFFICES ASSUME AccountsInit PROVE AInv OBVIOUS
  <1>1. AccountsTypeOK
    <2>1. account \in [Users -> Account]
      <3>1. [state |-> "unused", mail |-> "old", role |-> "guest", status |-> "pending"] \in Account
        BY DEF Account, Mails, Roles, UserStatus
      <3>2. \A u \in Users : Staff[u] # "unused" =>
              [state |-> "present", mail |-> "old", role |-> Staff[u], status |-> "approved"] \in Account
        BY AccountsAssumption DEF Account, Mails, Roles, UserStatus
      <3> QED BY <3>1, <3>2 DEF AccountsInit
    <2>2. req \in [Requests -> AdminRequest] BY NoRequestType DEF AccountsInit
    <2>3. sent \in 0..MaxRequests BY AccountsAssumption DEF AccountsInit
    <2>4. touched \subseteq Requests /\ seeded \in BOOLEAN /\ overtaken \in BOOLEAN BY DEF AccountsInit
    <2> QED BY <2>1, <2>2, <2>3, <2>4 DEF AccountsTypeOK
  <1>2. Acting
    <2>1. \A r \in Requests : req[r].pc = "idle" BY NoRequestType DEF AccountsInit
    <2> QED BY <2>1 DEF Acting, Administers, InFlight
  <1>4. Meaning BY NoRequestType DEF Meaning, AccountsInit
  <1>3. AdminRemains
    <2>1. PICK a \in Users : Staff[a] = "admin" BY AccountsAssumption
    <2>2. CASE seeded = FALSE BY <2>2 DEF AdminRemains
    <2>3. CASE account = [u \in Users |->
                 IF Staff[u] = "unused" THEN [state |-> "unused", mail |-> "old", role |-> "guest", status |-> "pending"]
                                        ELSE [state |-> "present", mail |-> "old", role |-> Staff[u], status |-> "approved"]]
      <3>1. account[a] = [state |-> "present", mail |-> "old", role |-> "admin", status |-> "approved"] BY <2>1, <2>3
      <3> QED BY <3>1 DEF AdminRemains, Admin, Approved, Present
    <2> QED BY <2>2, <2>3 DEF AccountsInit
  <1> QED BY <1>1, <1>2, <1>3, <1>4 DEF AInv

(* A request that is not an administrator's comes or goes, or one that is  *)
(* begins, and accounts stay.                                              *)
LEMMA Arriving ==
  ASSUME AInv, NEW r \in Requests, NEW q \in AdminRequest, req' = [req EXCEPT ![r] = q],
         sent' \in 0..MaxRequests, touched' \subseteq touched, touched \subseteq touched' \cup {r},
         UNCHANGED <<account, seeded, overtaken>>,
         Administers(r)' => Acts(r)', Meant(q)
  PROVE  AInv'
  <1>0. AccountsTypeOK /\ Acting /\ Meaning /\ AdminRemains BY DEF AInv
  <1>1. AccountsTypeOK' BY <1>0 DEF AccountsTypeOK
  <1>2. AdminRemains' BY <1>0 DEF AdminRemains, Admin, Approved, Present
  <1>3. Acting'
    <2> SUFFICES ASSUME NEW p \in Requests, Administers(p)' PROVE Acts(p)' BY DEF Acting
    <2>1. CASE p = r BY <2>1
    <2>2. CASE p # r
      <3>1. req'[p] = req[p] BY <1>0, <2>2 DEF AccountsTypeOK
      <3>2. Administers(p) /\ Acts(p) BY <1>0, <3>1 DEF Administers, InFlight, Acting
      <3> QED BY <2>2, <3>1, <3>2 DEF Acts, Admin, Approved, Present
    <2> QED BY <2>1, <2>2
  <1>4. Meaning' BY <1>0 DEF Meaning, AccountsTypeOK
  <1> QED BY <1>1, <1>2, <1>3, <1>4 DEF AInv

(* A registration or a start-up inserts an account nobody had.             *)
LEMMA InsertKeeps == ASSUME AInv, NEW r \in Requests, InsertAccount(r) PROVE AInv'
  <1>0. /\ AccountsTypeOK /\ Acting /\ Meaning /\ AdminRemains
        /\ NoRequest \in AdminRequest /\ NoRequest.pc = "idle" /\ Meant(NoRequest)
    BY NoRequestType DEF AInv
  <1>1. req' = [req EXCEPT ![r] = NoRequest] /\ UNCHANGED <<sent, touched, overtaken>> BY DEF InsertAccount
  <1>2. req' \in [Requests -> AdminRequest] /\ ~Administers(r)' /\ \A p \in Requests : p # r => req'[p] = req[p]
    BY <1>0, <1>1 DEF AccountsTypeOK, Administers, InFlight
  <1>3. CASE UNCHANGED <<account, seeded>>
    BY <1>0, <1>1, <1>2, <1>3, Arriving DEF AccountsTypeOK
  <1>4. ASSUME NEW u \in Users, Unused(u), NEW row,
               row = [state |-> "present", mail |-> req[r].value,
                      role |-> IF req[r].op = "boot" THEN "admin" ELSE "user",
                      status |-> IF req[r].op = "boot" THEN "approved" ELSE "pending"],
               account' = [account EXCEPT ![u] = row], seeded' = (seeded \/ req[r].op = "boot")
        PROVE  AInv'
    <2>1. req[r].value \in Mails BY <1>0 DEF Meaning, Meant, InsertAccount
    <2>2. row \in Account BY <1>4, <2>1 DEF Account, Roles, UserStatus
    <2>3. AccountsTypeOK' BY <1>0, <1>1, <1>2, <1>4, <2>2 DEF AccountsTypeOK
    <2>4. \A v \in Users : Admin(v) => v # u /\ Admin(v)' BY <1>0, <1>4 DEF Admin, Approved, Present, Unused, AccountsTypeOK
    <2>5. req[r].op = "boot" => Admin(u)' BY <1>0, <1>4 DEF Admin, Approved, Present, AccountsTypeOK
    <2>6. AdminRemains' BY <1>0, <1>1, <1>4, <2>4, <2>5 DEF AdminRemains
    <2>7. Acting'
      <3> SUFFICES ASSUME NEW p \in Requests, Administers(p)' PROVE Acts(p)' BY DEF Acting
      <3>1. p # r /\ req'[p] = req[p] BY <1>2
      <3>2. Acts(p) BY <1>0, <3>1 DEF Acting, Administers, InFlight
      <3> QED BY <1>1, <2>4, <3>1, <3>2 DEF Acts
    <2>8. Meaning' BY <1>0, <1>1 DEF Meaning, AccountsTypeOK
    <2> QED BY <2>3, <2>6, <2>7, <2>8 DEF AInv
  <1> QED BY <1>3, <1>4 DEF InsertAccount

(* The end of an administrator's request: it has changed no account, or    *)
(* one that is not its own.                                                *)
LEMMA ChangeKeeps ==
  ASSUME AInv, NEW r \in Requests, Administers(r), Changing(r),
         account' \in [Users -> Account], \A v \in Users : v # req[r].user => account'[v] = account[v]
  PROVE  AInv'
  <1>0. /\ AccountsTypeOK /\ Acting /\ Meaning /\ AdminRemains /\ Acts(r)
        /\ NoRequest \in AdminRequest /\ NoRequest.pc = "idle" /\ Meant(NoRequest)
    BY NoRequestType DEF AInv, Acting
  <1>1. /\ req' = [req EXCEPT ![r] = NoRequest] /\ UNCHANGED <<sent, seeded>>
        /\ overtaken' = (overtaken \/ (r \in touched /\ account' # account))
        /\ touched' = (touched \cup {q \in Requests : /\ InFlight(q) /\ req[q].op \in AdminOps
                                                     /\ account'[req[q].actor] # account[req[q].actor]}) \ {r}
    BY DEF Changing
  <1>2. ~Administers(r)' /\ req' \in [Requests -> AdminRequest] /\ \A p \in Requests : p # r => req'[p] = req[p]
    BY <1>0, <1>1 DEF Administers, InFlight, AccountsTypeOK
  <1>3. AccountsTypeOK' BY <1>0, <1>1, <1>2 DEF AccountsTypeOK
  <1>4. \A v \in Users : account'[v] = account[v] /\ Admin(v) => Admin(v)' BY DEF Admin, Approved, Present
  <1>5. AdminRemains'
    <2> SUFFICES ASSUME seeded, ~overtaken' PROVE \E v \in Users : Admin(v)' BY <1>1 DEF AdminRemains
    <2>1. CASE account' = account BY <2>1, <1>0, <1>1 DEF AdminRemains, Admin, Approved, Present
    <2>2. CASE r \notin touched BY <2>2, <1>0, <1>4 DEF Acts
    <2> QED BY <2>1, <2>2, <1>1
  <1>6. Acting'
    <2> SUFFICES ASSUME NEW p \in Requests, Administers(p)' PROVE Acts(p)' BY DEF Acting
    <2>1. p # r /\ req'[p] = req[p] BY <1>2
    <2>2. Administers(p) /\ Acts(p) BY <1>0, <2>1 DEF Acting, Administers, InFlight
    <2>3. p \notin touched' => p \notin touched /\ account'[req[p].actor] = account[req[p].actor]
      BY <1>1, <2>1, <2>2 DEF Administers
    <2> QED BY <1>4, <2>1, <2>2, <2>3 DEF Acts
  <1>7. Meaning' BY <1>0, <1>1 DEF Meaning, AccountsTypeOK
  <1> QED BY <1>3, <1>5, <1>6, <1>7 DEF AInv

(* One of the requests that begin: a slot is filled, within the bound.     *)
LEMMA Counting == ASSUME AInv, Arrive PROVE sent' \in 0..MaxRequests
  BY AccountsAssumption DEF Arrive, AInv, AccountsTypeOK

(* An anonymous request begins.                                            *)
LEMMA AnonymousBegins ==
  ASSUME AInv, NEW r \in Requests, Arrive, NEW op \in {"boot", "register"}, NEW value \in Mails,
         req' = [req EXCEPT ![r] = [NoRequest EXCEPT !.pc = "ready", !.op = op, !.value = value]],
         UNCHANGED <<account, touched, seeded, overtaken>>
  PROVE  AInv'
  <1> DEFINE q == [NoRequest EXCEPT !.pc = "ready", !.op = op, !.value = value]
  <1>1. q \in AdminRequest /\ q.pc = "ready" /\ q.op = op /\ q.value = value
    BY DEF NoRequest, AdminRequest
  <1>2. req' = [req EXCEPT ![r] = q] OBVIOUS
  <1> HIDE DEF q
  <1>3. req'[r] = q BY <1>2 DEF AInv, AccountsTypeOK
  <1>4. ~Administers(r)' BY <1>1, <1>3 DEF Administers, AdminOps
  <1>5. Meant(q) BY <1>1 DEF Meant
  <1>6. touched' \subseteq touched /\ touched \subseteq touched' \cup {r} OBVIOUS
  <1> QED BY <1>1, <1>2, <1>4, <1>5, <1>6, Counting, Arriving

(* An administrator sends a request about another account.                 *)
LEMMA AdminBegins ==
  ASSUME AInv, NEW r \in Requests, NEW a \in Users, NEW u \in Users, u # a, NEW op \in AdminOps,
         NEW value \in {"none"} \cup Roles \cup UserStatus, Begin(r, a, op, u, value),
         op = "role" => value \in Roles, op = "status" => value \in UserStatus
  PROVE  AInv'
  <1> DEFINE q == [NoRequest EXCEPT !.pc = "begun", !.op = op, !.actor = a, !.user = u, !.value = value]
  <1>1. q \in AdminRequest /\ q.pc = "begun" /\ q.op = op /\ q.actor = a /\ q.user = u /\ q.value = value
    BY DEF NoRequest, AdminRequest, AdminOps
  <1>2. req' = [req EXCEPT ![r] = q] /\ Arrive /\ Admin(a) /\ UNCHANGED <<account, touched, seeded, overtaken>>
    BY DEF Begin
  <1> HIDE DEF q
  <1>3. req'[r] = q BY <1>2 DEF AInv, AccountsTypeOK
  <1>4. Acts(r)' BY <1>1, <1>2, <1>3 DEF Acts, Admin, Approved, Present
  <1>5. Meant(q) BY <1>1 DEF Meant, AdminOps
  <1>6. touched' \subseteq touched /\ touched \subseteq touched' \cup {r} BY <1>2
  <1> QED BY <1>1, <1>2, <1>4, <1>5, <1>6, Counting, Arriving

(* The account a request is about is read, or is not there.                *)
LEMMA GetUserKeeps == ASSUME AInv, NEW r \in Requests, GetUser(r) PROVE AInv'
  <1>0. AccountsTypeOK /\ Acting /\ Meaning BY DEF AInv
  <1>1. UNCHANGED <<account, sent, seeded, overtaken>> /\ sent' \in 0..MaxRequests /\ req[r].pc = "begun"
    BY <1>0 DEF GetUser, AccountsTypeOK
  <1>2. CASE ~Present(req[r].user)
    <2>1. req' = [req EXCEPT ![r] = NoRequest] /\ touched' = touched \ {r} BY <1>2 DEF GetUser
    <2>2. req'[r] = NoRequest BY <1>0, <2>1 DEF AccountsTypeOK
    <2>3. ~Administers(r)' BY <2>2, NoRequestType DEF Administers, InFlight
    <2>4. touched' \subseteq touched /\ touched \subseteq touched' \cup {r} BY <2>1
    <2> QED BY <1>1, <2>1, <2>3, <2>4, NoRequestType, Arriving
  <1>3. CASE Present(req[r].user)
    <2> DEFINE it == account[req[r].user]
               was == CASE req[r].op = "role" -> it.role [] req[r].op = "status" -> it.status [] OTHER -> "none"
               q == [req[r] EXCEPT !.pc = "ready", !.was = was]
    <2>1. req' = [req EXCEPT ![r] = q] /\ touched' = touched BY <1>3 DEF GetUser
    <2>2. req[r] \in AdminRequest BY <1>0 DEF AccountsTypeOK
    <2>3. req[r].op \in {"role", "status"} => was \in Roles \cup UserStatus
      <3>1. CASE req[r].user \in Users
        BY <3>1, <1>0 DEF AccountsTypeOK, Account
      <3>2. CASE req[r].user \notin Users
        <4> SUFFICES ASSUME req[r].op \in {"role", "status"} PROVE FALSE OBVIOUS
        <4> QED BY <3>2, <1>0, <1>1 DEF Acting, Administers, InFlight, AdminOps, Acts
      <3> QED BY <3>1, <3>2
    <2>4. req[r].op \notin {"role", "status"} => was = "none" OBVIOUS
    <2>5. was \in {"none"} \cup Roles \cup UserStatus BY <2>3, <2>4
    <2> HIDE DEF was
    <2>6. q \in AdminRequest /\ q.pc = "ready" /\ q.op = req[r].op /\ q.actor = req[r].actor /\ q.user = req[r].user
          /\ q.value = req[r].value
      BY <2>2, <2>5 DEF AdminRequest
    <2> HIDE DEF q
    <2>7. req'[r] = q BY <1>0, <2>1 DEF AccountsTypeOK
    <2>8. Meant(q) BY <1>0, <1>1, <2>6 DEF Meaning, Meant
    <2>9. Administers(r)' => Acts(r)'
      <3> SUFFICES ASSUME Administers(r)' PROVE Acts(r)' OBVIOUS
      <3>1. Administers(r) /\ Acts(r) BY <1>0, <1>1, <2>6, <2>7 DEF Administers, InFlight, Acting
      <3> QED BY <1>1, <2>1, <2>6, <2>7, <3>1 DEF Acts, Admin, Approved, Present
    <2> QED BY <1>1, <2>1, <2>6, <2>8, <2>9, Arriving
  <1> QED BY <1>2, <1>3

(* A row of users with another role, status or state is one.               *)
LEMMA ChangedAccount ==
  ASSUME account \in [Users -> Account], NEW u \in Users
  PROVE  /\ \A v \in Roles : [account EXCEPT ![u].role = v] \in [Users -> Account]
         /\ \A v \in UserStatus : [account EXCEPT ![u].status = v] \in [Users -> Account]
         /\ [account EXCEPT ![u].state = "gone"] \in [Users -> Account]
  BY DEF Account

(* The end of a request for another role or status.                       *)
LEMMA UpdateKeeps == ASSUME AInv, NEW r \in Requests, CommitUpdate(r) PROVE AInv'
  <1>0. account \in [Users -> Account] /\ req[r] \in AdminRequest BY DEF AInv, AccountsTypeOK
  <1>1. Administers(r) /\ Changing(r) BY DEF CommitUpdate, Administers, InFlight, AdminOps
  <1>2. req[r].user \in Users BY <1>1 DEF AInv, Acting, Acts
  <1>3. CASE account' = account BY <1>0, <1>1, <1>3, ChangeKeeps
  <1>4. CASE account' # account
    <2>1. CASE req[r].op = "role"
      <3>1. account' = [account EXCEPT ![req[r].user].role = req[r].value] BY <1>4, <2>1 DEF CommitUpdate
      <3>2. req[r].value \in Roles BY <1>4, <2>1 DEF CommitUpdate, AInv, Meaning, Meant
      <3>3. account' \in [Users -> Account] BY <1>0, <1>2, <3>1, <3>2, ChangedAccount
      <3>4. \A v \in Users : v # req[r].user => account'[v] = account[v] BY <1>0, <3>1
      <3> QED BY <1>1, <3>3, <3>4, ChangeKeeps
    <2>2. CASE req[r].op = "status"
      <3>1. account' = [account EXCEPT ![req[r].user].status = req[r].value] BY <1>4, <2>2 DEF CommitUpdate
      <3>2. req[r].value \in UserStatus BY <1>4, <2>2 DEF CommitUpdate, AInv, Meaning, Meant
      <3>3. account' \in [Users -> Account] BY <1>0, <1>2, <3>1, <3>2, ChangedAccount
      <3>4. \A v \in Users : v # req[r].user => account'[v] = account[v] BY <1>0, <3>1
      <3> QED BY <1>1, <3>3, <3>4, ChangeKeeps
    <2> QED BY <2>1, <2>2 DEF CommitUpdate
  <1> QED BY <1>3, <1>4

(* The same of a deletion, whatever the rows that go with it say.           *)
LEMMA DeletionKeeps == ASSUME AInv, NEW r \in Requests, NEW allowed \in BOOLEAN, CommitDelete(r, allowed) PROVE AInv'
  <1>0. account \in [Users -> Account] /\ req[r] \in AdminRequest BY DEF AInv, AccountsTypeOK
  <1>1. Administers(r) /\ Changing(r) BY DEF CommitDelete, Administers, InFlight, AdminOps
  <1>2. req[r].user \in Users BY <1>1 DEF AInv, Acting, Acts
  <1>3. CASE account' = account BY <1>0, <1>1, <1>3, ChangeKeeps
  <1>4. CASE account' = [account EXCEPT ![req[r].user].state = "gone"]
    <2>1. account' \in [Users -> Account] BY <1>0, <1>2, <1>4, ChangedAccount
    <2>2. \A v \in Users : v # req[r].user => account'[v] = account[v] BY <1>0, <1>4
    <2> QED BY <1>1, <2>1, <2>2, ChangeKeeps
  <1> QED BY <1>3, <1>4 DEF CommitDelete

(* Only the count of requests has changed, if anything.                    *)
LEMMA Unchanged ==
  ASSUME AInv, sent' \in 0..MaxRequests, UNCHANGED <<account, req, touched, seeded, overtaken>>
  PROVE  AInv'
  <1>0. AccountsTypeOK /\ Acting /\ Meaning /\ AdminRemains BY DEF AInv
  <1>1. AccountsTypeOK' BY <1>0 DEF AccountsTypeOK
  <1>2. Acting' BY <1>0 DEF Acting, Administers, InFlight, Acts, Admin, Approved, Present
  <1>3. Meaning' BY <1>0 DEF Meaning
  <1>4. AdminRemains' BY <1>0 DEF AdminRemains, Admin, Approved, Present
  <1> QED BY <1>1, <1>2, <1>3, <1>4 DEF AInv

(* Every step of the administration keeps the invariant.                   *)
LEMMA AccountsStep == AInv /\ [AccountsNext]_accountVars => AInv'
  <1> SUFFICES ASSUME AInv, [AccountsNext]_accountVars PROVE AInv' OBVIOUS
  <1>1. ASSUME NEW r \in Requests, Bootstrap(r) PROVE AInv'
    BY <1>1, AnonymousBegins DEF Bootstrap, Mails
  <1>2. ASSUME NEW r \in Requests, NEW mail \in {"first", "new"}, Register(r, mail) PROVE AInv'
    BY <1>2, AnonymousBegins DEF Register, Mails
  <1>3. ASSUME NEW r \in Requests, NEW a \in Users, NEW u \in Users, NEW role \in Roles, SetRole(r, a, u, role)
        PROVE  AInv'
    BY <1>3, AdminBegins DEF SetRole, AdminOps
  <1>4. ASSUME NEW r \in Requests, NEW a \in Users, NEW u \in Users, NEW status \in Verdicts, SetStatus(r, a, u, status)
        PROVE  AInv'
    BY <1>4, AdminBegins, AccountsAssumption DEF SetStatus, AdminOps
  <1>5. ASSUME NEW r \in Requests, NEW a \in Users, NEW u \in Users, DeleteUser(r, a, u) PROVE AInv'
    BY <1>5, AdminBegins DEF DeleteUser, AdminOps
  <1>6. ASSUME Arrive, UNCHANGED <<account, req, touched, seeded, overtaken>> PROVE AInv'
    BY <1>6, Counting, Unchanged
  <1>7. ASSUME UNCHANGED accountVars PROVE AInv'
    BY <1>7, Unchanged DEF accountVars, AInv, AccountsTypeOK
  <1> QED
    BY <1>1, <1>2, <1>3, <1>4, <1>5, <1>6, <1>7, InsertKeeps, GetUserKeeps, UpdateKeeps, DeletionKeeps
    DEF AccountsNext, Administrate

(* The invariant of the accounts, for any number of users and requests.    *)
THEOREM AccountsInvariance == AccountsSpec => []AInv
  BY AccountsInitHolds, AccountsStep, PTL DEF AccountsSpec

(* An installation that has had an administrator keeps one, unless a       *)
(* request went on after the account it acts for had changed.              *)
THEOREM AnAdminRemains == AccountsSpec => []AdminRemains
  <1>1. AInv => AdminRemains BY DEF AInv
  <1> QED BY <1>1, AccountsInvariance, PTL

(***************************************************************************)
(* The directory implements the administration of accounts: the tables it  *)
(* adds restrict the deletion of an account and nothing else.              *)
(***************************************************************************)

(* A request about connections and migrations is one more for the bound.   *)
LEMMA EnterCounts ==
  ASSUME NEW r, NEW a, NEW roles, NEW what, Enter(r, a, roles, what)
  PROVE  Arrive /\ UNCHANGED <<account, req, touched, seeded, overtaken>>
  BY DEF Enter

(* Every step of the directory is one of the administration, or none.      *)
LEMMA DirectoryStep == [Next]_vars => [AccountsNext]_accountVars
  <1> SUFFICES ASSUME [Next]_vars PROVE [AccountsNext]_accountVars OBVIOUS
  <1>1. ASSUME NEW r \in Requests, AccountChanges(r) PROVE AccountsNext BY <1>1 DEF AccountChanges, AccountsNext
  <1>2. ASSUME NEW r \in Requests, LoadUser(r) PROVE AccountsNext BY <1>2 DEF LoadUser, AccountsNext
  <1>3. ASSUME NEW r \in Requests, AccountGoes(r) PROVE AccountsNext BY <1>3 DEF AccountGoes, DeleteRows, AccountsNext
  <1>4. ASSUME NEW r \in Requests, NEW a \in Users,
               \/ CreateConnection(r, a)
               \/ \E c \in Conns : DeleteConnection(r, a, c) \/ TestConnection(r, a, c)
               \/ \E c, d \in Conns : CreateMigration(r, a, c, d)
               \/ \E j \in Jobs : DeleteMigration(r, a, j) \/ StartMigration(r, a, j)
        PROVE  AccountsNext
    BY <1>4, EnterCounts
    DEF AccountsNext, CreateConnection, DeleteConnection, TestConnection, CreateMigration, DeleteMigration, StartMigration
  <1>5. ASSUME NEW r \in Requests, Read(r) \/ EndTest(r) PROVE UNCHANGED accountVars BY <1>5 DEF Read, EndTest
  <1>6. ASSUME NEW r \in Requests,
               \/ CommitConnection(r) \/ CommitDisconnect(r) \/ CommitMigration(r)
               \/ CommitDrop(r) \/ CommitStart(r)
        PROVE  UNCHANGED accountVars
    BY <1>6 DEF CommitConnection, CommitDisconnect, CommitMigration, CommitDrop, CommitStart, Committing
  <1>7. ASSUME NEW j \in Jobs, TaskBegins(j) \/ TaskEnds(j) PROVE UNCHANGED accountVars
    BY <1>7 DEF TaskBegins, TaskEnds
  <1>8. ASSUME UNCHANGED vars PROVE UNCHANGED accountVars BY <1>8 DEF vars
  <1> QED BY <1>1, <1>2, <1>3, <1>4, <1>5, <1>6, <1>7, <1>8 DEF Next

(* The directory implements Accounts.                                      *)
THEOREM DirectoryIsAdministration == Spec => AccountsSpec
  <1>1. Init => AccountsInit BY DEF Init
  <1> QED BY <1>1, DirectoryStep, PTL DEF Spec, AccountsSpec

(* An installation keeps an administrator, with connections and migrations *)
(* in the way of deletions too.                                            *)
THEOREM AnAdminRemainsOfTheDirectory == Spec => []AdminRemains
  BY DirectoryIsAdministration, AnAdminRemains, PTL

(***************************************************************************)
(* The invariant: types; references; and, of whatever is under way, that   *)
(* it names what there can be and still stands on what it has read.        *)
(***************************************************************************)
ConnType == conn \in [Conns -> [state : States, owner : Someone]]
JobType == job \in [Jobs -> [state : States, owner : Someone, source : Conns \cup {Nobody}, target : Conns \cup {Nobody}, active : BOOLEAN]]
Work ==
  [pc : {"idle", "begun", "ready", "using"}, role : Roles, actor : Someone,
   op : {"none", "connect", "disconnect", "test", "plan", "drop", "start"},
   conn : Conns \cup {Nobody}, to : Conns \cup {Nobody}, job : Jobs \cup {Nobody}]
WorkType == work \in [Requests -> Work]
OtherTypes ==
  /\ loaded \in [Requests -> SUBSET Jobs]
  /\ task \in [Jobs -> [user : Someone, conns : SUBSET Conns]]
  /\ lapsed \subseteq Requests \cup Jobs

ConnKey(c) ==
  /\ HasConn(c) => conn[c].owner \in Users /\ Present(conn[c].owner)
  /\ conn[c].state = "unused" => conn[c].owner = Nobody
JobKey(j) ==
  /\ HasJob(j) => /\ job[j].owner \in Users /\ Present(job[j].owner)
                  /\ \A c \in {job[j].source, job[j].target} : c \in Conns /\ HasConn(c)
  /\ job[j].state = "unused" => job[j].owner = Nobody
Keys == (\A c \in Conns : ConnKey(c)) /\ (\A j \in Jobs : JobKey(j))

Named(w) ==
  w.pc # "idle" => /\ w.actor \in Users
                   /\ w.op \in {"disconnect", "test", "plan"} => w.conn \in Conns
                   /\ w.op = "plan" => w.to \in Conns
                   /\ w.op \in {"drop", "start"} => w.job \in Jobs
Standing(r) == Working(r) /\ r \notin lapsed => Approved(work[r].actor) /\ account[work[r].actor].role = work[r].role
Used(r) == work[r].pc = "using" => work[r].conn \in Conns /\ (r \notin lapsed => MayUse(work[r].actor, {work[r].conn}))
RequestOK(r) == Named(work[r]) /\ Standing(r) /\ Used(r)

TaskOK(j) == task[j] # NoTask => task[j].user \in Users /\ (j \notin lapsed => MayUse(task[j].user, task[j].conns))

(* A deletion knows migrations of the account it is about.                 *)
LoadedOK(r) ==
  req[r].pc = "ready" /\ req[r].op = "delete" => \A j \in loaded[r] : job[j].owner = req[r].user

Rows == ConnType /\ JobType /\ WorkType /\ OtherTypes
Dealings == (\A r \in Requests : RequestOK(r) /\ LoadedOK(r)) /\ (\A j \in Jobs : TaskOK(j))

DInv == AInv /\ Rows /\ Keys /\ Dealings

(* What follows from the invariant.                                        *)
LEMMA DInvImplies == DInv => TypeOK /\ UsesAreEntitled
  <1> SUFFICES ASSUME DInv PROVE TypeOK /\ UsesAreEntitled OBVIOUS
  <1>1. TypeOK
    BY DEF DInv, AInv, Rows, ConnType, JobType, WorkType, Work, OtherTypes, Keys, ConnKey, JobKey, TypeOK
  <1>2. UsesAreEntitled BY DEF DInv, Dealings, RequestOK, Used, TaskOK, UsesAreEntitled
  <1> QED BY <1>1, <1>2

(* The invariant holds at first.                                           *)
LEMMA DirectoryInitHolds == Init => DInv
  <1> SUFFICES ASSUME Init PROVE DInv OBVIOUS
  <1>1. AInv BY AccountsInitHolds DEF Init
  <1>2. NoWork \in Work /\ NoWork.pc = "idle" BY DEF NoWork, Work, Someone, Roles
  <1>3. NoTask \in [user : Someone, conns : SUBSET Conns] BY DEF NoTask, Someone
  <1>4. Rows
    <2>1. ConnType BY DEF Init, ConnType, States, Someone
    <2>2. [state |-> "unused", owner |-> Nobody, source |-> Nobody, target |-> Nobody, active |-> FALSE]
            \in [state : States, owner : Someone, source : Conns \cup {Nobody}, target : Conns \cup {Nobody}, active : BOOLEAN]
      BY DEF States, Someone
    <2>3. JobType BY <2>2 DEF Init, JobType
    <2>4. WorkType BY <1>2 DEF Init, WorkType
    <2>5. OtherTypes BY <1>3 DEF Init, OtherTypes
    <2> QED BY <2>1, <2>3, <2>4, <2>5 DEF Rows
  <1>5. Keys
    <2>1. ASSUME NEW c \in Conns PROVE ConnKey(c)
      <3>1. conn[c] \in {[state |-> "unused", owner |-> Nobody]} \cup [state : {"present"}, owner : {u \in Users : Present(u)}]
        BY <2>1 DEF Init
      <3> QED BY <3>1 DEF ConnKey, HasConn
    <2>2. ASSUME NEW j \in Jobs PROVE JobKey(j) BY <2>2 DEF Init, JobKey, HasJob
    <2> QED BY <2>1, <2>2 DEF Keys
  <1>6. ASSUME NEW r \in Requests PROVE RequestOK(r)
    <2>1. work[r].pc = "idle" BY <1>2, <1>6 DEF Init
    <2> QED BY <2>1 DEF RequestOK, Named, Standing, Used, Working
  <1>7. ASSUME NEW r \in Requests PROVE LoadedOK(r)
    <2>1. loaded[r] = {} BY DEF Init
    <2> QED BY <2>1 DEF LoadedOK
  <1>8. ASSUME NEW j \in Jobs PROVE TaskOK(j)
    BY DEF Init, TaskOK
  <1> QED BY <1>1, <1>4, <1>5, <1>6, <1>7, <1>8 DEF DInv, Dealings

(***************************************************************************)
(* What is under way stays in order while others work: as long as owners   *)
(* stay who they are, and whose account changes is known to have lapsed.   *)
(***************************************************************************)
ConnOwnersStay == \A c \in Conns : conn[c].owner # Nobody => conn'[c].owner = conn[c].owner
JobOwnersStay == \A j \in Jobs : job[j].owner # Nobody => job'[j].owner = job[j].owner
SameAccount(u) == account'[u] = account[u]

(* A request that did not move.                                            *)
LEMMA RequestStays ==
  ASSUME NEW r \in Requests, RequestOK(r), work'[r] = work[r], ConnOwnersStay,
         r \notin lapsed' => r \notin lapsed /\ (Working(r) => SameAccount(work[r].actor))
  PROVE  RequestOK(r)'
  <1>0. Named(work[r]) /\ Standing(r) /\ Used(r) BY DEF RequestOK
  <1>1. Named(work[r])' BY <1>0 DEF Named
  <1>2. Standing(r)' BY <1>0 DEF Standing, Working, SameAccount, Approved, Present
  <1>3. Used(r)'
    <2> SUFFICES ASSUME work[r].pc = "using", r \notin lapsed'
                 PROVE  MayUse(work[r].actor, {work[r].conn})'
      BY <1>0 DEF Used
    <2>1. MayUse(work[r].actor, {work[r].conn}) /\ work[r].conn \in Conns /\ work[r].actor \in Users
      BY <1>0 DEF Used, Named
    <2>2. SameAccount(work[r].actor) BY DEF Working
    <2>3. conn[work[r].conn].owner = work[r].actor => conn'[work[r].conn].owner = work[r].actor
      BY <2>1, AccountsAssumption DEF ConnOwnersStay
    <2> QED BY <2>1, <2>2, <2>3 DEF MayUse, SameAccount, Approved, Present
  <1> QED BY <1>1, <1>2, <1>3 DEF RequestOK

(* A task that goes on.                                                    *)
LEMMA TaskStays ==
  ASSUME OtherTypes, NEW j \in Jobs, TaskOK(j), task'[j] = task[j], ConnOwnersStay,
         j \notin lapsed' => j \notin lapsed /\ (task[j] # NoTask => SameAccount(task[j].user))
  PROVE  TaskOK(j)'
  <1> SUFFICES ASSUME task[j] # NoTask, j \notin lapsed' PROVE MayUse(task[j].user, task[j].conns)'
    BY DEF TaskOK
  <1>1. MayUse(task[j].user, task[j].conns) /\ task[j].user \in Users /\ task[j].conns \subseteq Conns
    BY DEF TaskOK, OtherTypes
  <1>2. \A c \in Conns : conn[c].owner = task[j].user => conn'[c].owner = task[j].user
    BY <1>1, AccountsAssumption DEF ConnOwnersStay
  <1> QED BY <1>1, <1>2 DEF MayUse, SameAccount, Approved, Present

(* A deletion that waits.                                                  *)
LEMMA LoadedStays ==
  ASSUME Rows, AInv, NEW r \in Requests, LoadedOK(r), req'[r] = req[r], loaded'[r] = loaded[r], JobOwnersStay
  PROVE  LoadedOK(r)'
  <1> SUFFICES ASSUME req[r].pc = "ready", req[r].op = "delete", NEW j \in loaded[r]
               PROVE  job'[j].owner = req[r].user
    BY DEF LoadedOK
  <1>1. j \in Jobs BY DEF Rows, OtherTypes
  <1>2. job[j].owner = req[r].user BY DEF LoadedOK
  <1>3. req[r].user \in Users BY DEF AInv, Acting, Administers, InFlight, AdminOps, Acts
  <1> QED BY <1>1, <1>2, <1>3, AccountsAssumption DEF JobOwnersStay

(* A request about connections and migrations moves, and with it, at most, *)
(* one of those tables.                                                    *)
LEMMA Moves ==
  ASSUME DInv, AInv', NEW r \in Requests, UNCHANGED <<account, req, loaded, task>>,
         WorkType', \A q \in Requests : q # r => work'[q] = work[q], RequestOK(r)',
         lapsed' \subseteq lapsed, lapsed \subseteq lapsed' \cup {r},
         ConnType', JobType', Keys', ConnOwnersStay, JobOwnersStay
  PROVE  DInv'
  <1>0. AInv /\ Rows /\ Dealings /\ OtherTypes BY DEF DInv, Rows
  <1>1. Rows' BY <1>0 DEF Rows, OtherTypes
  <1>2. ASSUME NEW q \in Requests PROVE RequestOK(q)'
    <2>1. CASE q = r BY <2>1
    <2>2. CASE q # r
      <3>1. RequestOK(q) /\ work'[q] = work[q] BY <1>0, <2>2 DEF Dealings
      <3>2. q \notin lapsed' => q \notin lapsed BY <2>2
      <3> QED BY <3>1, <3>2, RequestStays DEF SameAccount
    <2> QED BY <2>1, <2>2
  <1>3. ASSUME NEW q \in Requests PROVE LoadedOK(q)'
    <2>1. LoadedOK(q) BY <1>0 DEF Dealings
    <2> QED BY <1>0, <2>1, LoadedStays
  <1>4. ASSUME NEW j \in Jobs PROVE TaskOK(j)'
    <2>1. TaskOK(j) /\ (j \notin lapsed' => j \notin lapsed) BY <1>0, DirectoryAssumption DEF Dealings
    <2> QED BY <1>0, <2>1, TaskStays DEF SameAccount
  <1> QED BY <1>1, <1>2, <1>3, <1>4 DEF DInv, Dealings

(* Nothing is asked, and nothing is left over.                             *)
LEMMA NoWorkOK == NoWork \in Work /\ NoWork.pc = "idle"
  BY DEF NoWork, Work, Someone, Roles

(* A slot becomes free.                                                    *)
LEMMA IdleOK ==
  ASSUME WorkType, NEW r \in Requests, work' = [work EXCEPT ![r] = NoWork]
  PROVE  WorkType' /\ RequestOK(r)' /\ \A q \in Requests : q # r => work'[q] = work[q]
  <1>1. WorkType' /\ work'[r] = NoWork /\ \A q \in Requests : q # r => work'[q] = work[q]
    BY NoWorkOK DEF WorkType
  <1> QED BY <1>1, NoWorkOK DEF RequestOK, Named, Standing, Used, Working

(* A request comes in: its account is approved and has the role it noted.  *)
LEMMA EnterKeeps ==
  ASSUME DInv, AInv', NEW r \in Requests, NEW a \in Users, NEW roles, NEW what \in Work, Enter(r, a, roles, what),
         what.pc \in {"begun", "ready"}, Named([what EXCEPT !.actor = a, !.role = account[a].role])
  PROVE  DInv'
  <1> DEFINE w == [what EXCEPT !.actor = a, !.role = account[a].role]
  <1>0. AInv /\ Rows /\ Keys BY DEF DInv
  <1>1. /\ work' = [work EXCEPT ![r] = w] /\ Approved(a)
        /\ UNCHANGED <<account, req, loaded, task, lapsed, conn, job>>
    BY DEF Enter
  <1>2. account[a].role \in Roles BY <1>0 DEF AInv, AccountsTypeOK, Account
  <1>3. /\ w \in Work /\ w.pc \in {"begun", "ready"} /\ w.actor = a /\ w.role = account[a].role /\ Named(w)
    BY <1>2 DEF Work, Someone
  <1> HIDE DEF w
  <1>4. WorkType' /\ work'[r] = w /\ \A q \in Requests : q # r => work'[q] = work[q]
    BY <1>0, <1>1, <1>3 DEF Rows, WorkType
  <1>5. RequestOK(r)' BY <1>1, <1>3, <1>4 DEF RequestOK, Named, Standing, Used, Approved, Present
  <1>6. ConnType' /\ JobType' /\ ConnOwnersStay /\ JobOwnersStay
    BY <1>0, <1>1 DEF Rows, ConnType, JobType, ConnOwnersStay, JobOwnersStay
  <1>7. Keys' BY <1>0, <1>1 DEF Keys, ConnKey, JobKey, HasConn, HasJob, Present
  <1> QED BY <1>1, <1>4, <1>5, <1>6, <1>7, Moves

(* The six requests.                                                       *)
LEMMA RequestsKeep ==
  ASSUME DInv, AInv', NEW r \in Requests, NEW a \in Users,
         \/ CreateConnection(r, a)
         \/ \E c \in Conns : DeleteConnection(r, a, c) \/ TestConnection(r, a, c)
         \/ \E c, d \in Conns : CreateMigration(r, a, c, d)
         \/ \E j \in Jobs : DeleteMigration(r, a, j) \/ StartMigration(r, a, j)
  PROVE  DInv'
  <1>1. CASE CreateConnection(r, a)
    <2> DEFINE what == [NoWork EXCEPT !.pc = "ready", !.op = "connect"]
    <2>1. what \in Work /\ what.pc = "ready" BY DEF NoWork, Work, Someone, Roles
    <2>2. Named([what EXCEPT !.actor = a, !.role = account[a].role]) BY DEF Named, NoWork
    <2>3. Enter(r, a, Writers, what) BY <1>1 DEF CreateConnection
    <2> HIDE DEF what
    <2> QED BY <2>1, <2>2, <2>3, EnterKeeps
  <1>2. ASSUME NEW c \in Conns, NEW op \in {"disconnect", "test"}, NEW roles,
               Enter(r, a, roles, [NoWork EXCEPT !.pc = "begun", !.op = op, !.conn = c])
        PROVE  DInv'
    <2> DEFINE what == [NoWork EXCEPT !.pc = "begun", !.op = op, !.conn = c]
    <2>1. what \in Work /\ what.pc = "begun" BY DEF NoWork, Work, Someone, Roles
    <2>2. Named([what EXCEPT !.actor = a, !.role = account[a].role]) BY DEF Named, NoWork
    <2>3. Enter(r, a, roles, what) BY <1>2
    <2> HIDE DEF what
    <2> QED BY <2>1, <2>2, <2>3, EnterKeeps
  <1>3. ASSUME NEW c \in Conns, NEW d \in Conns, CreateMigration(r, a, c, d) PROVE DInv'
    <2> DEFINE what == [NoWork EXCEPT !.pc = "begun", !.op = "plan", !.conn = c, !.to = d]
    <2>1. what \in Work /\ what.pc = "begun" BY DEF NoWork, Work, Someone, Roles
    <2>2. Named([what EXCEPT !.actor = a, !.role = account[a].role]) BY DEF Named, NoWork
    <2>3. Enter(r, a, Writers, what) BY <1>3 DEF CreateMigration
    <2> HIDE DEF what
    <2> QED BY <2>1, <2>2, <2>3, EnterKeeps
  <1>4. ASSUME NEW j \in Jobs, NEW op \in {"drop", "start"},
               Enter(r, a, Writers, [NoWork EXCEPT !.pc = "begun", !.op = op, !.job = j])
        PROVE  DInv'
    <2> DEFINE what == [NoWork EXCEPT !.pc = "begun", !.op = op, !.job = j]
    <2>1. what \in Work /\ what.pc = "begun" BY DEF NoWork, Work, Someone, Roles
    <2>2. Named([what EXCEPT !.actor = a, !.role = account[a].role]) BY DEF Named, NoWork
    <2>3. Enter(r, a, Writers, what) BY <1>4
    <2> HIDE DEF what
    <2> QED BY <2>1, <2>2, <2>3, EnterKeeps
  <1>5. ASSUME NEW c \in Conns, DeleteConnection(r, a, c) PROVE DInv' BY <1>5, <1>2 DEF DeleteConnection
  <1>6. ASSUME NEW c \in Conns, TestConnection(r, a, c) PROVE DInv' BY <1>6, <1>2 DEF TestConnection
  <1>7. ASSUME NEW j \in Jobs, DeleteMigration(r, a, j) PROVE DInv' BY <1>7, <1>4 DEF DeleteMigration
  <1>8. ASSUME NEW j \in Jobs, StartMigration(r, a, j) PROVE DInv' BY <1>8, <1>4 DEF StartMigration
  <1> QED BY <1>1, <1>3, <1>5, <1>6, <1>7, <1>8

(* The rows are read. Whoever may test a connection may use it.            *)
LEMMA ReadKeeps == ASSUME DInv, AInv', NEW r \in Requests, Read(r) PROVE DInv'
  <1>0. AInv /\ Rows /\ Keys /\ WorkType /\ RequestOK(r) BY DEF DInv, Rows, Dealings
  <1>1. UNCHANGED <<account, req, loaded, task, conn, job>> /\ work[r].pc = "begun" BY DEF Read, accountVars
  <1>2. lapsed' \subseteq lapsed /\ lapsed \subseteq lapsed' \cup {r} BY DEF Read
  <1>3. ConnType' /\ JobType' /\ ConnOwnersStay /\ JobOwnersStay
    BY <1>0, <1>1 DEF Rows, ConnType, JobType, ConnOwnersStay, JobOwnersStay
  <1>4. Keys' BY <1>0, <1>1 DEF Keys, ConnKey, JobKey, HasConn, HasJob, Present
  <1>5. CASE work' = [work EXCEPT ![r] = NoWork]
    BY <1>0, <1>1, <1>2, <1>3, <1>4, <1>5, IdleOK, Moves
  <1>6. ASSUME NEW pc \in {"using", "ready"}, work' = [work EXCEPT ![r] = [work[r] EXCEPT !.pc = pc]], lapsed' = lapsed,
               pc = "using" => work[r].op = "test" /\ ForUse(r, work[r].conn)
        PROVE  DInv'
    <2> DEFINE w == [work[r] EXCEPT !.pc = pc]
    <2>1. work[r] \in Work BY <1>0 DEF WorkType
    <2>2. /\ w \in Work /\ w.pc = pc /\ w.op = work[r].op /\ w.actor = work[r].actor /\ w.role = work[r].role
          /\ w.conn = work[r].conn /\ w.to = work[r].to /\ w.job = work[r].job
      BY <2>1 DEF Work
    <2>3. work' = [work EXCEPT ![r] = w] BY <1>6
    <2> HIDE DEF w
    <2>4. WorkType' /\ work'[r] = w /\ \A q \in Requests : q # r => work'[q] = work[q]
      BY <1>0, <2>2, <2>3 DEF WorkType
    <2>5. Named(w) BY <1>0, <1>1, <2>2 DEF RequestOK, Named
    <2>6. r \notin lapsed => Approved(w.actor) /\ account[w.actor].role = w.role
      BY <1>0, <1>1, <2>2 DEF RequestOK, Standing, Working
    <2>7. Standing(r)' BY <1>1, <1>6, <2>4, <2>6 DEF Standing, Approved, Present
    <2>8. Used(r)'
      <3> SUFFICES ASSUME pc = "using" PROVE Used(r)' BY <2>2, <2>4 DEF Used
      <3>1. w.conn \in Conns BY <1>6, <2>2, <2>5 DEF Named
      <3>2. r \notin lapsed => MayUse(w.actor, {w.conn}) BY <1>6, <2>2, <2>6 DEF MayUse, ForUse
      <3> QED BY <1>1, <1>6, <2>4, <3>1, <3>2 DEF Used, MayUse, Approved, Present
    <2> QED BY <1>1, <1>2, <1>3, <1>4, <2>4, <2>5, <2>7, <2>8, Moves DEF RequestOK
  <1> QED BY <1>5, <1>6 DEF Read, GoOn

(* A test ends.                                                            *)
LEMMA EndTestKeeps == ASSUME DInv, AInv', NEW r \in Requests, EndTest(r) PROVE DInv'
  <1>0. AInv /\ Rows /\ Keys /\ WorkType BY DEF DInv, Rows
  <1>1. /\ UNCHANGED <<account, req, loaded, task, conn, job>> /\ lapsed' = lapsed \ {r}
        /\ work' = [work EXCEPT ![r] = NoWork]
    BY DEF EndTest, GoOn, accountVars
  <1>2. ConnType' /\ JobType' /\ ConnOwnersStay /\ JobOwnersStay
    BY <1>0, <1>1 DEF Rows, ConnType, JobType, ConnOwnersStay, JobOwnersStay
  <1>3. Keys' BY <1>0, <1>1 DEF Keys, ConnKey, JobKey, HasConn, HasJob, Present
  <1> QED BY <1>0, <1>1, <1>2, <1>3, IdleOK, Moves

(* A commit about a connection or a migration: what remains to be shown is *)
(* that the tables have their types, and rows refer to rows.               *)
LEMMA CommitKeeps ==
  ASSUME DInv, AInv', NEW r \in Requests, NEW op, Committing(r, op),
         ConnType', JobType', Keys', ConnOwnersStay, JobOwnersStay
  PROVE  DInv'
  <1>0. WorkType BY DEF DInv, Rows
  <1>1. /\ UNCHANGED <<account, req, loaded, task>> /\ lapsed' = lapsed \ {r}
        /\ work' = [work EXCEPT ![r] = NoWork]
    BY DEF Committing, GoOn, accountVars
  <1> QED BY <1>0, <1>1, IdleOK, Moves

(* create_connection: its owner is there when the row is inserted.         *)
LEMMA CommitConnectionKeeps == ASSUME DInv, AInv', NEW r \in Requests, CommitConnection(r) PROVE DInv'
  <1>0. Rows /\ Keys /\ ConnType /\ JobType /\ RequestOK(r) BY DEF DInv, Rows, Dealings
  <1>1. job' = job /\ account' = account /\ Committing(r, "connect") BY DEF CommitConnection, Committing, accountVars
  <1>2. work[r].actor \in Users BY <1>0, <1>1 DEF RequestOK, Named, Committing
  <1>3. JobType' /\ JobOwnersStay BY <1>0, <1>1 DEF JobType, JobOwnersStay
  <1>4. CASE conn' = conn
    <2>1. ConnType' /\ ConnOwnersStay BY <1>0, <1>4 DEF ConnType, ConnOwnersStay
    <2>2. Keys' BY <1>0, <1>1, <1>4 DEF Keys, ConnKey, JobKey, HasConn, HasJob, Present
    <2> QED BY <1>1, <1>3, <2>1, <2>2, CommitKeeps
  <1>5. ASSUME NEW c \in Conns, conn[c].state = "unused", Present(work[r].actor), NEW row,
               row = [state |-> "present", owner |-> work[r].actor], conn' = [conn EXCEPT ![c] = row]
        PROVE  DInv'
    <2>1. row \in [state : States, owner : Someone] BY <1>2, <1>5 DEF States, Someone
    <2>2. ConnType' BY <1>0, <1>5, <2>1 DEF ConnType
    <2>3. conn'[c] = row /\ \A d \in Conns : d # c => conn'[d] = conn[d] BY <1>0, <1>5 DEF ConnType
    <2>4. ConnOwnersStay BY <1>0, <1>5, <2>3 DEF ConnOwnersStay, Keys, ConnKey
    <2>5. ASSUME NEW d \in Conns PROVE ConnKey(d)'
      <3>1. CASE d = c BY <1>1, <1>2, <1>5, <2>3, <3>1 DEF ConnKey, HasConn, Present
      <3>2. CASE d # c BY <1>0, <1>1, <2>3, <3>2 DEF Keys, ConnKey, HasConn, Present
      <3> QED BY <3>1, <3>2
    <2>6. ASSUME NEW j \in Jobs PROVE JobKey(j)'
      <3>1. JobKey(j) BY <1>0 DEF Keys
      <3>2. \A d \in Conns : HasConn(d) => HasConn(d)' BY <1>5, <2>3 DEF HasConn
      <3> QED BY <1>1, <3>1, <3>2 DEF JobKey, HasJob, Present
    <2> QED BY <1>1, <1>3, <2>2, <2>4, <2>5, <2>6, CommitKeeps DEF Keys
  <1> QED BY <1>4, <1>5 DEF CommitConnection

(* delete_connection: nothing refers to the row when it goes.              *)
LEMMA CommitDisconnectKeeps == ASSUME DInv, AInv', NEW r \in Requests, CommitDisconnect(r) PROVE DInv'
  <1>0. Rows /\ Keys /\ ConnType /\ JobType /\ RequestOK(r) BY DEF DInv, Rows, Dealings
  <1>1. job' = job /\ account' = account /\ Committing(r, "disconnect") BY DEF CommitDisconnect, Committing, accountVars
  <1>2. work[r].conn \in Conns BY <1>0, <1>1 DEF RequestOK, Named, Committing
  <1>3. JobType' /\ JobOwnersStay BY <1>0, <1>1 DEF JobType, JobOwnersStay
  <1>4. CASE conn' = conn
    <2>1. ConnType' /\ ConnOwnersStay BY <1>0, <1>4 DEF ConnType, ConnOwnersStay
    <2>2. Keys' BY <1>0, <1>1, <1>4 DEF Keys, ConnKey, JobKey, HasConn, HasJob, Present
    <2> QED BY <1>1, <1>3, <2>1, <2>2, CommitKeeps
  <1>5. ASSUME NEW c \in Conns, c = work[r].conn, conn' = [conn EXCEPT ![c].state = "gone"], ~\E j \in Jobs : Refers(j, c)
        PROVE  DInv'
    <2>1. /\ ConnType' /\ conn'[c].state = "gone" /\ conn'[c].owner = conn[c].owner
          /\ \A d \in Conns : d # c => conn'[d] = conn[d]
      BY <1>0, <1>5 DEF ConnType, States
    <2>2. ConnOwnersStay BY <2>1 DEF ConnOwnersStay
    <2>3. ASSUME NEW d \in Conns PROVE ConnKey(d)'
      <3>1. CASE d = c BY <2>1, <3>1 DEF ConnKey, HasConn
      <3>2. CASE d # c BY <1>0, <1>1, <2>1, <3>2 DEF Keys, ConnKey, HasConn, Present
      <3> QED BY <3>1, <3>2
    <2>4. ASSUME NEW j \in Jobs PROVE JobKey(j)'
      <3>1. JobKey(j) BY <1>0 DEF Keys
      <3>2. ~Refers(j, c) BY <1>5
      <3> QED BY <1>1, <2>1, <3>1, <3>2 DEF JobKey, HasJob, HasConn, Present, Refers
    <2> QED BY <1>1, <1>3, <2>1, <2>2, <2>3, <2>4, CommitKeeps DEF Keys
  <1> QED BY <1>2, <1>4, <1>5 DEF CommitDisconnect

(* create_migration: all that the row refers to is there.                  *)
LEMMA CommitMigrationKeeps == ASSUME DInv, AInv', NEW r \in Requests, CommitMigration(r) PROVE DInv'
  <1>0. Rows /\ Keys /\ ConnType /\ JobType /\ RequestOK(r) BY DEF DInv, Rows, Dealings
  <1>1. conn' = conn /\ account' = account /\ Committing(r, "plan") BY DEF CommitMigration, Committing, accountVars
  <1>2. work[r].actor \in Users /\ work[r].conn \in Conns /\ work[r].to \in Conns
    BY <1>0, <1>1 DEF RequestOK, Named, Committing
  <1>3. ConnType' /\ ConnOwnersStay BY <1>0, <1>1 DEF ConnType, ConnOwnersStay
  <1>4. CASE job' = job
    <2>1. JobType' /\ JobOwnersStay BY <1>0, <1>4 DEF JobType, JobOwnersStay
    <2>2. Keys' BY <1>0, <1>1, <1>4 DEF Keys, ConnKey, JobKey, HasConn, HasJob, Present
    <2> QED BY <1>1, <1>3, <2>1, <2>2, CommitKeeps
  <1>5. ASSUME NEW j \in Jobs, job[j].state = "unused",
               Present(work[r].actor), HasConn(work[r].conn), HasConn(work[r].to), NEW row,
               row = [state |-> "present", owner |-> work[r].actor,
                      source |-> work[r].conn, target |-> work[r].to, active |-> FALSE],
               job' = [job EXCEPT ![j] = row]
        PROVE  DInv'
    <2>1. row \in [state : States, owner : Someone, source : Conns \cup {Nobody}, target : Conns \cup {Nobody}, active : BOOLEAN]
      BY <1>2, <1>5 DEF States, Someone
    <2>2. JobType' BY <1>0, <1>5, <2>1 DEF JobType
    <2>3. job'[j] = row /\ \A i \in Jobs : i # j => job'[i] = job[i] BY <1>0, <1>5 DEF JobType
    <2>4. JobOwnersStay BY <1>0, <1>5, <2>3 DEF JobOwnersStay, Keys, JobKey
    <2>5. ASSUME NEW c \in Conns PROVE ConnKey(c)' BY <1>0, <1>1 DEF Keys, ConnKey, HasConn, Present
    <2>6. ASSUME NEW i \in Jobs PROVE JobKey(i)'
      <3>1. CASE i = j BY <1>1, <1>2, <1>5, <2>3, <3>1 DEF JobKey, HasJob, HasConn, Present
      <3>2. CASE i # j BY <1>0, <1>1, <2>3, <3>2 DEF Keys, JobKey, HasJob, HasConn, Present
      <3> QED BY <3>1, <3>2
    <2> QED BY <1>1, <1>3, <2>2, <2>4, <2>5, <2>6, CommitKeeps DEF Keys
  <1> QED BY <1>4, <1>5 DEF CommitMigration

(* A migration changes its state or whether it is active, and whose it is  *)
(* and what it uses stay.                                                  *)
JobsStay ==
  \A j \in Jobs : /\ job'[j].owner = job[j].owner /\ job'[j].source = job[j].source /\ job'[j].target = job[j].target
                  /\ HasJob(j)' => HasJob(j)
                  /\ job'[j].state = "unused" => job[j].state = "unused"

(* Rows of migrations that change their state or go take no key with them. *)
LEMMA JobsStayKeys ==
  ASSUME Keys, JobsStay, conn' = conn, account' = account
  PROVE  Keys' /\ JobOwnersStay
  <1>1. ASSUME NEW c \in Conns PROVE ConnKey(c)' BY DEF Keys, ConnKey, HasConn, Present
  <1>2. ASSUME NEW j \in Jobs PROVE JobKey(j)' BY <1>2 DEF Keys, JobKey, JobsStay, HasJob, HasConn, Present
  <1> QED BY <1>1, <1>2 DEF Keys, JobOwnersStay, JobsStay

(* Any of these changes to the table.                                      *)
LEMMA JobChanges ==
  ASSUME JobType, NEW j, \/ job' = job
                         \/ job' = [job EXCEPT ![j].state = "gone"]
                         \/ \E b \in BOOLEAN : job' = [job EXCEPT ![j].active = b]
  PROVE  JobType' /\ JobsStay
  <1>1. CASE job' = job BY <1>1 DEF JobType, JobsStay, HasJob
  <1>2. CASE job' = [job EXCEPT ![j].state = "gone"]
    <2>1. JobType' BY <1>2 DEF JobType, States
    <2>2. \A i \in Jobs : job'[i] = IF i = j THEN [job[i] EXCEPT !.state = "gone"] ELSE job[i] BY <1>2 DEF JobType
    <2> QED BY <2>1, <2>2 DEF JobType, JobsStay, HasJob
  <1>3. ASSUME NEW b \in BOOLEAN, job' = [job EXCEPT ![j].active = b] PROVE JobType' /\ JobsStay
    <2>1. JobType' BY <1>3 DEF JobType
    <2>2. \A i \in Jobs : job'[i] = IF i = j THEN [job[i] EXCEPT !.active = b] ELSE job[i] BY <1>3 DEF JobType
    <2> QED BY <2>1, <2>2 DEF JobType, JobsStay, HasJob
  <1> QED BY <1>1, <1>2, <1>3

(* delete_migration and start_migration change the row of one migration.   *)
LEMMA CommitDropKeeps == ASSUME DInv, AInv', NEW r \in Requests, CommitDrop(r) \/ CommitStart(r) PROVE DInv'
  <1>0. Keys /\ ConnType /\ JobType BY DEF DInv, Rows
  <1>1. /\ conn' = conn /\ account' = account /\ (Committing(r, "drop") \/ Committing(r, "start"))
        /\ \/ job' = job \/ job' = [job EXCEPT ![work[r].job].state = "gone"]
           \/ job' = [job EXCEPT ![work[r].job].active = TRUE]
    BY DEF CommitDrop, CommitStart, Committing, accountVars
  <1>2. JobType' /\ JobsStay BY <1>0, <1>1, JobChanges
  <1>3. ConnType' /\ ConnOwnersStay BY <1>0, <1>1 DEF ConnType, ConnOwnersStay
  <1> QED BY <1>0, <1>1, <1>2, <1>3, JobsStayKeys, CommitKeeps

(* A task begins, if its account may use both connections, or ends.        *)
LEMMA TaskKeeps == ASSUME DInv, AInv', NEW j \in Jobs, TaskBegins(j) \/ TaskEnds(j) PROVE DInv'
  <1>0. AInv /\ Rows /\ Keys /\ Dealings /\ ConnType /\ JobType /\ WorkType /\ OtherTypes BY DEF DInv, Rows
  <1>1. /\ UNCHANGED <<account, req, conn, work, loaded>>
        /\ \A i \in Jobs : i # j => (i \notin lapsed' => i \notin lapsed)
        /\ lapsed' \subseteq lapsed /\ lapsed \subseteq lapsed' \cup {j}
        /\ job' = job \/ job' = [job EXCEPT ![j].active = FALSE]
    BY DEF TaskBegins, TaskEnds, accountVars
  <1>2. JobType' /\ JobsStay BY <1>0, <1>1, JobChanges
  <1>3. Keys' /\ JobOwnersStay BY <1>0, <1>1, <1>2, JobsStayKeys
  <1>4. ConnOwnersStay /\ ConnType' /\ WorkType' BY <1>0, <1>1 DEF ConnOwnersStay, ConnType, WorkType
  <1>5. /\ task' \in [Jobs -> [user : Someone, conns : SUBSET Conns]]
        /\ \A i \in Jobs : i # j => task'[i] = task[i]
        /\ TaskOK(j)'
    <2>1. CASE task' = task /\ TaskBegins(j)
      <3>1. TaskOK(j) /\ lapsed' = lapsed BY <1>0, <2>1 DEF Dealings, TaskBegins
      <3>2. TaskOK(j)' BY <1>0, <1>1, <1>4, <2>1, <3>1, TaskStays DEF SameAccount
      <3> QED BY <1>0, <2>1, <3>2 DEF OtherTypes
    <2>2. CASE TaskEnds(j)
      <3>1. NoTask \in [user : Someone, conns : SUBSET Conns] BY DEF NoTask, Someone
      <3>2. task' = [task EXCEPT ![j] = NoTask] BY <2>2 DEF TaskEnds
      <3> QED BY <1>0, <3>1, <3>2 DEF OtherTypes, TaskOK
    <2>3. ASSUME NEW u, u = job[j].owner, NEW conns, conns = {job[j].source, job[j].target}, HasJob(j),
                 Approved(u) /\ (account[u].role = "admin" \/ \A c \in conns : conn[c].owner = u),
                 task' = [task EXCEPT ![j] = [user |-> u, conns |-> conns]]
          PROVE  /\ task' \in [Jobs -> [user : Someone, conns : SUBSET Conns]]
                 /\ \A i \in Jobs : i # j => task'[i] = task[i]
                 /\ TaskOK(j)'
      <3>1. u \in Users /\ conns \subseteq Conns BY <1>0, <2>3 DEF Keys, JobKey
      <3>2. MayUse(u, conns)' BY <1>1, <2>3 DEF MayUse, Approved, Present
      <3>3. [user |-> u, conns |-> conns] \in [user : Someone, conns : SUBSET Conns] BY <3>1 DEF Someone
      <3>4. task'[j] = [user |-> u, conns |-> conns] BY <1>0, <2>3 DEF OtherTypes
      <3> QED BY <1>0, <2>3, <3>1, <3>2, <3>3, <3>4 DEF OtherTypes, TaskOK
    <2> QED BY <2>1, <2>2, <2>3 DEF TaskBegins
  <1>6. Rows' BY <1>0, <1>1, <1>2, <1>4, <1>5 DEF Rows, OtherTypes
  <1>7. ASSUME NEW r \in Requests PROVE RequestOK(r)' /\ LoadedOK(r)'
    <2>1. RequestOK(r) /\ LoadedOK(r) BY <1>0 DEF Dealings
    <2>2. r \notin lapsed' => r \notin lapsed BY <1>1, DirectoryAssumption
    <2> QED BY <1>0, <1>1, <1>3, <1>4, <2>1, <2>2, RequestStays, LoadedStays DEF SameAccount
  <1>8. ASSUME NEW i \in Jobs PROVE TaskOK(i)'
    <2>1. CASE i = j BY <1>5, <2>1
    <2>2. CASE i # j
      <3>1. TaskOK(i) BY <1>0 DEF Dealings
      <3> QED BY <1>0, <1>1, <1>4, <1>5, <2>2, <3>1, TaskStays DEF SameAccount
    <2> QED BY <2>1, <2>2
  <1> QED BY <1>3, <1>6, <1>7, <1>8 DEF DInv, Dealings

(***************************************************************************)
(* Accounts change.                                                        *)
(***************************************************************************)

(* Short of a deletion nobody disappears, and nobody's deletion moves on.  *)
LEMMA AdministrateEffects ==
  ASSUME AInv, NEW r \in Requests, Administrate(r)
  PROVE  /\ \A u \in Users : Present(u) => Present(u)'
         /\ \A q \in Requests : q # r => req'[q] = req[q]
         /\ ~(req'[r].pc = "ready" /\ req'[r].op = "delete")
  <1>0. account \in [Users -> Account] /\ req \in [Requests -> AdminRequest] BY DEF AInv, AccountsTypeOK
  <1>1. NoRequest.pc = "idle" BY NoRequestType
  <1>2. CASE InsertAccount(r)
    <2>1. req' = [req EXCEPT ![r] = NoRequest] BY <1>2 DEF InsertAccount
    <2>2. \A u \in Users : Present(u) => Present(u)' BY <1>0, <1>2 DEF InsertAccount, Unused, Present
    <2> QED BY <1>0, <1>1, <2>1, <2>2
  <1>3. CASE CommitUpdate(r)
    <2>1. req' = [req EXCEPT ![r] = NoRequest] BY <1>3 DEF CommitUpdate, Changing
    <2>2. \A u \in Users : account'[u].state = account[u].state
      <3>1. CASE account' = account BY <3>1
      <3>2. CASE account' = [account EXCEPT ![req[r].user].role = req[r].value] BY <1>0, <3>2 DEF Account
      <3>3. CASE account' = [account EXCEPT ![req[r].user].status = req[r].value] BY <1>0, <3>3 DEF Account
      <3> QED BY <1>3, <3>1, <3>2, <3>3 DEF CommitUpdate
    <2> QED BY <1>0, <1>1, <2>1, <2>2 DEF Present
  <1>4. ASSUME NEW q, req' = [req EXCEPT ![r] = q], account' = account, ~(q.pc = "ready" /\ q.op = "delete")
        PROVE  /\ \A u \in Users : Present(u) => Present(u)'
               /\ \A p \in Requests : p # r => req'[p] = req[p]
               /\ ~(req'[r].pc = "ready" /\ req'[r].op = "delete")
    BY <1>0, <1>4 DEF Present
  <1>6. ASSUME NEW a, NEW op, NEW u, NEW value, Begin(r, a, op, u, value)
        PROVE  /\ \A v \in Users : Present(v) => Present(v)'
               /\ \A q \in Requests : q # r => req'[q] = req[q]
               /\ ~(req'[r].pc = "ready" /\ req'[r].op = "delete")
    <2> DEFINE q == [NoRequest EXCEPT !.pc = "begun", !.op = op, !.actor = a, !.user = u, !.value = value]
    <2>1. q.pc = "begun" BY DEF NoRequest
    <2>2. req' = [req EXCEPT ![r] = q] /\ account' = account BY <1>6 DEF Begin
    <2> HIDE DEF q
    <2> QED BY <1>4, <2>1, <2>2
  <1> DEFINE Goal == /\ \A u \in Users : Present(u) => Present(u)'
                     /\ \A q \in Requests : q # r => req'[q] = req[q]
                     /\ ~(req'[r].pc = "ready" /\ req'[r].op = "delete")
  <1>7. Bootstrap(r) => Goal
    <2> SUFFICES ASSUME Bootstrap(r) PROVE Goal OBVIOUS
    <2> DEFINE q == [NoRequest EXCEPT !.pc = "ready", !.op = "boot", !.value = "first"]
    <2>1. q.op = "boot" BY DEF NoRequest
    <2>2. req' = [req EXCEPT ![r] = q] /\ account' = account BY DEF Bootstrap
    <2> HIDE DEF q
    <2> QED BY <1>4, <2>1, <2>2
  <1>8. ASSUME NEW mail, Register(r, mail) PROVE Goal
    <2> DEFINE q == [NoRequest EXCEPT !.pc = "ready", !.op = "register", !.value = mail]
    <2>1. q.op = "register" BY DEF NoRequest
    <2>2. req' = [req EXCEPT ![r] = q] /\ account' = account BY <1>8 DEF Register
    <2> HIDE DEF q
    <2> QED BY <1>4, <2>1, <2>2
  <1>9. ASSUME NEW a, NEW op, NEW u, NEW value, Begin(r, a, op, u, value) PROVE Goal BY <1>6, <1>9
  <1>10. InsertAccount(r) \/ CommitUpdate(r) => Goal BY <1>2, <1>3
  <1> HIDE DEF Goal
  <1>11. Goal BY <1>7, <1>8, <1>9, <1>10 DEF Administrate, SetRole, SetStatus, DeleteUser
  <1> QED BY <1>11 DEF Goal

(* Who did not lapse has the account it read.                              *)
LEMMA LapseTells ==
  ASSUME Lapse
  PROVE  /\ \A r \in Requests : r \notin lapsed' => r \notin lapsed /\ (Working(r) => SameAccount(work[r].actor))
         /\ \A j \in Jobs : j \notin lapsed' => j \notin lapsed /\ (task[j] # NoTask => SameAccount(task[j].user))
         /\ lapsed \subseteq Requests \cup Jobs => lapsed' \subseteq Requests \cup Jobs
  BY DEF Lapse, SameAccount

(* Accounts change, and connections and migrations stay or go; those who   *)
(* are at work are not disturbed.                                          *)
LEMMA AccountsMove ==
  ASSUME DInv, AInv', NEW r \in Requests, Lapse \/ (lapsed' = lapsed /\ account' = account), UNCHANGED <<work, task>>,
         \A q \in Requests : q # r => req'[q] = req[q] /\ loaded'[q] = loaded[q],
         loaded' \in [Requests -> SUBSET Jobs], LoadedOK(r)',
         ConnType', JobType', Keys', ConnOwnersStay, JobOwnersStay
  PROVE  DInv'
  <1>0. AInv /\ Rows /\ Dealings /\ WorkType /\ OtherTypes BY DEF DInv, Rows
  <1>1. /\ \A q \in Requests : q \notin lapsed' => q \notin lapsed /\ (Working(q) => SameAccount(work[q].actor))
        /\ \A j \in Jobs : j \notin lapsed' => j \notin lapsed /\ (task[j] # NoTask => SameAccount(task[j].user))
        /\ lapsed' \subseteq Requests \cup Jobs
    BY <1>0, LapseTells DEF OtherTypes, SameAccount
  <1>2. Rows' BY <1>0, <1>1 DEF Rows, WorkType, OtherTypes
  <1>3. ASSUME NEW q \in Requests PROVE RequestOK(q)'
    <2>1. RequestOK(q) BY <1>0 DEF Dealings
    <2> QED BY <1>1, <2>1, RequestStays
  <1>4. ASSUME NEW q \in Requests PROVE LoadedOK(q)'
    <2>1. CASE q = r BY <2>1
    <2>2. CASE q # r
      <3>1. LoadedOK(q) BY <1>0 DEF Dealings
      <3> QED BY <1>0, <2>2, <3>1, LoadedStays
    <2> QED BY <2>1, <2>2
  <1>5. ASSUME NEW j \in Jobs PROVE TaskOK(j)'
    <2>1. TaskOK(j) BY <1>0 DEF Dealings
    <2> QED BY <1>0, <1>1, <2>1, TaskStays
  <1> QED BY <1>2, <1>3, <1>4, <1>5 DEF DInv, Dealings

(* Registrations and administrators leave what refers to accounts alone.   *)
LEMMA AccountChangesKeeps == ASSUME DInv, AInv', NEW r \in Requests, AccountChanges(r) PROVE DInv'
  <1>0. AInv /\ Rows /\ Keys /\ ConnType /\ JobType /\ OtherTypes BY DEF DInv, Rows
  <1>1. Administrate(r) /\ Lapse /\ UNCHANGED <<conn, job, work, task, loaded>> BY DEF AccountChanges, ownVars
  <1>2. /\ \A u \in Users : Present(u) => Present(u)'
        /\ \A q \in Requests : q # r => req'[q] = req[q]
        /\ ~(req'[r].pc = "ready" /\ req'[r].op = "delete")
    BY <1>0, <1>1, AdministrateEffects
  <1>3. Keys'
    <2>1. ASSUME NEW c \in Conns PROVE ConnKey(c)' BY <1>0, <1>1, <1>2 DEF Keys, ConnKey, HasConn
    <2>2. ASSUME NEW j \in Jobs PROVE JobKey(j)' BY <1>0, <1>1, <1>2 DEF Keys, JobKey, HasConn, HasJob
    <2> QED BY <2>1, <2>2 DEF Keys
  <1>4. LoadedOK(r)' BY <1>2 DEF LoadedOK
  <1>5. ConnType' /\ JobType' /\ ConnOwnersStay /\ JobOwnersStay /\ loaded' \in [Requests -> SUBSET Jobs]
    BY <1>0, <1>1 DEF ConnType, JobType, OtherTypes, ConnOwnersStay, JobOwnersStay
  <1> QED BY <1>1, <1>2, <1>3, <1>4, <1>5, AccountsMove

(* delete_user reads; no row changes.                                      *)
LEMMA LoadUserKeeps == ASSUME DInv, AInv', NEW r \in Requests, LoadUser(r) PROVE DInv'
  <1>0. AInv /\ Rows /\ Keys /\ ConnType /\ JobType /\ OtherTypes BY DEF DInv, Rows
  <1>1. /\ UNCHANGED <<account, conn, job, work, task, lapsed>>
        /\ loaded' = [loaded EXCEPT ![r] = {j \in Jobs : HasJob(j) /\ job[j].owner = req[r].user}]
    BY DEF LoadUser, GetUser, ownVars
  <1>2. /\ \A q \in Requests : q # r => req'[q] = req[q] /\ loaded'[q] = loaded[q]
        /\ loaded' \in [Requests -> SUBSET Jobs] /\ loaded'[r] = {j \in Jobs : HasJob(j) /\ job[j].owner = req[r].user}
    BY <1>0, <1>1 DEF LoadUser, GetUser, OtherTypes, AInv, AccountsTypeOK
  <1>3. LoadedOK(r)'
    <2>1. req'[r].pc = "ready" => req'[r].user = req[r].user
      <3>1. CASE req' = [req EXCEPT ![r] = NoRequest]
        <4>1. req'[r] = NoRequest BY <1>0, <3>1 DEF AInv, AccountsTypeOK
        <4> QED BY <4>1, NoRequestType
      <3>2. ASSUME NEW was, req' = [req EXCEPT ![r] = [req[r] EXCEPT !.pc = "ready", !.was = was]]
            PROVE  req'[r].user = req[r].user
        BY <1>0, <3>2 DEF AInv, AccountsTypeOK, AdminRequest
      <3> QED BY <3>1, <3>2 DEF LoadUser, GetUser
    <2> QED BY <1>1, <1>2, <2>1 DEF LoadedOK
  <1>4. ConnType' /\ JobType' /\ ConnOwnersStay /\ JobOwnersStay
    BY <1>0, <1>1 DEF ConnType, JobType, ConnOwnersStay, JobOwnersStay
  <1>5. Keys' BY <1>0, <1>1 DEF Keys, ConnKey, JobKey, HasConn, HasJob, Present
  <1> QED BY <1>1, <1>2, <1>3, <1>4, <1>5, AccountsMove

(* What of a table goes, and that nothing else of it changes.              *)
LEMMA RemoveConns ==
  ASSUME ConnType, NEW going
  PROVE  /\ Remove(conn, going) \in [Conns -> [state : States, owner : Someone]]
         /\ \A c \in Conns : /\ Remove(conn, going)[c].owner = conn[c].owner
                            /\ Remove(conn, going)[c].state = IF c \in going THEN "gone" ELSE conn[c].state
  BY DEF ConnType, Remove, States

(* What Remove makes of the table of migrations.                           *)
LEMMA RemoveJobs ==
  ASSUME JobType, NEW going
  PROVE  /\ Remove(job, going) \in [Jobs -> [state : States, owner : Someone, source : Conns \cup {Nobody}, target : Conns \cup {Nobody}, active : BOOLEAN]]
         /\ \A j \in Jobs : /\ Remove(job, going)[j].owner = job[j].owner
                           /\ Remove(job, going)[j].source = job[j].source /\ Remove(job, going)[j].target = job[j].target
                           /\ Remove(job, going)[j].state = IF j \in going THEN "gone" ELSE job[j].state
  BY DEF JobType, Remove, States

(* What the end of the deletion of an account does to the accounts.        *)
LEMMA DeletionEffects ==
  ASSUME AInv, NEW r \in Requests, NEW allowed, CommitDelete(r, allowed)
  PROVE  /\ req[r].pc = "ready" /\ req[r].op = "delete" /\ req[r].user \in Users
         /\ req' \in [Requests -> AdminRequest] /\ req'[r].pc = "idle" /\ \A q \in Requests : q # r => req'[q] = req[q]
         /\ \A u \in Users : u # req[r].user => account'[u] = account[u]
         /\ allowed => account'[req[r].user].state # "present"
         /\ ~allowed => account' = account
  <1>0. account \in [Users -> Account] /\ req \in [Requests -> AdminRequest] BY DEF AInv, AccountsTypeOK
  <1>1. req[r].pc = "ready" /\ req[r].op = "delete" /\ req' = [req EXCEPT ![r] = NoRequest] BY DEF CommitDelete, Changing
  <1>2. req[r].user \in Users BY <1>1 DEF AInv, Acting, Administers, InFlight, AdminOps, Acts
  <1>3. req' \in [Requests -> AdminRequest] /\ req'[r].pc = "idle" /\ \A q \in Requests : q # r => req'[q] = req[q]
    BY <1>0, <1>1, NoRequestType
  <1>4. /\ \A u \in Users : u # req[r].user => account'[u] = account[u]
        /\ allowed => account'[req[r].user].state # "present"
    <2>1. CASE account' = account /\ ~(allowed /\ Present(req[r].user)) BY <2>1 DEF Present
    <2>2. CASE account' = [account EXCEPT ![req[r].user].state = "gone"] BY <1>0, <1>2, <2>2 DEF Present
    <2> QED BY <2>1, <2>2 DEF CommitDelete
  <1>5. ~allowed => account' = account BY DEF CommitDelete
  <1> QED BY <1>1, <1>2, <1>3, <1>4, <1>5

(* An account goes with its connections and migrations, and leaves no      *)
(* reference behind: a migration of somebody else's that refers to one of  *)
(* those connections has stopped it.                                       *)
LEMMA AccountGoesKeeps == ASSUME DInv, AInv', NEW r \in Requests, AccountGoes(r) PROVE DInv'
  <1> DEFINE u == req[r].user
  <1>0. AInv /\ Rows /\ Keys /\ ConnType /\ JobType /\ OtherTypes /\ LoadedOK(r) BY DEF DInv, Rows, Dealings
  <1>1. /\ CommitDelete(r, ~Restricted(r)) /\ Lapse /\ UNCHANGED <<work, task>> /\ loaded' = [loaded EXCEPT ![r] = {}]
        /\ conn' = IF Restricted(r) THEN conn ELSE Remove(conn, ConnsOf(u))
        /\ job' = IF Restricted(r) THEN job ELSE Remove(job, JobsOf(u))
    BY DEF AccountGoes, DeleteRows
  <1>2. /\ req[r].pc = "ready" /\ req[r].op = "delete" /\ u \in Users
        /\ req' \in [Requests -> AdminRequest] /\ req'[r].pc = "idle" /\ \A q \in Requests : q # r => req'[q] = req[q]
        /\ \A v \in Users : v # u => account'[v] = account[v]
        /\ ~Restricted(r) => account'[u].state # "present"
        /\ Restricted(r) => account' = account
    BY <1>0, <1>1, DeletionEffects
  <1>3. loaded' \in [Requests -> SUBSET Jobs] /\ \A q \in Requests : q # r => loaded'[q] = loaded[q]
    BY <1>0, <1>1 DEF OtherTypes
  <1>4. LoadedOK(r)' BY <1>2 DEF LoadedOK
  <1> HIDE DEF u
  <1>5. CASE Restricted(r)
    <2>1. UNCHANGED <<conn, job, account>> BY <1>1, <1>2, <1>5
    <2>2. ConnType' /\ JobType' /\ ConnOwnersStay /\ JobOwnersStay
      BY <1>0, <2>1 DEF ConnType, JobType, ConnOwnersStay, JobOwnersStay
    <2>3. Keys' BY <1>0, <2>1 DEF Keys, ConnKey, JobKey, HasConn, HasJob, Present
    <2> QED BY <1>1, <1>2, <1>3, <1>4, <2>2, <2>3, AccountsMove
  <1>6. CASE ~Restricted(r)
    <2>1. /\ ConnType'
          /\ \A c \in Conns : /\ conn'[c].owner = conn[c].owner
                             /\ conn'[c].state = IF c \in ConnsOf(u) THEN "gone" ELSE conn[c].state
      BY <1>0, <1>1, <1>6, RemoveConns DEF ConnType
    <2>2. /\ JobType'
          /\ \A j \in Jobs : /\ job'[j].owner = job[j].owner
                            /\ job'[j].source = job[j].source /\ job'[j].target = job[j].target
                            /\ job'[j].state = IF j \in JobsOf(u) THEN "gone" ELSE job[j].state
      BY <1>0, <1>1, <1>6, RemoveJobs DEF JobType
    <2>3. ConnOwnersStay /\ JobOwnersStay BY <2>1, <2>2 DEF ConnOwnersStay, JobOwnersStay
    <2>4. ASSUME NEW c \in Conns PROVE ConnKey(c)'
      <3>1. ConnKey(c) BY <1>0 DEF Keys
      <3>2. HasConn(c)' => HasConn(c) /\ conn[c].owner # u BY <2>1 DEF HasConn, ConnsOf
      <3> QED BY <1>2, <2>1, <3>1, <3>2 DEF ConnKey, Present
    <2>5. ASSUME NEW j \in Jobs, HasJob(j)' PROVE HasJob(j) /\ job[j].owner # u /\ j \notin loaded[r]
      <3>1. HasJob(j) /\ job[j].owner # u BY <2>2, <2>5 DEF HasJob, JobsOf
      <3> QED BY <1>0, <1>2, <3>1 DEF LoadedOK, u
    <2>6. ASSUME NEW j \in Jobs PROVE JobKey(j)'
      <3>1. JobKey(j) BY <1>0 DEF Keys
      <3>2. ASSUME HasJob(j)', NEW c, c \in {job[j].source, job[j].target} PROVE c \in Conns /\ HasConn(c)'
        <4>1. c \in Conns /\ HasConn(c) /\ Refers(j, c) BY <2>5, <3>1, <3>2 DEF JobKey, Refers
        <4>2. conn[c].owner # u BY <1>6, <2>5, <3>2, <4>1 DEF Restricted, u
        <4> QED BY <2>1, <4>1, <4>2 DEF HasConn, ConnsOf
      <3>3. HasJob(j)' => job'[j].owner \in Users /\ Present(job[j].owner)' BY <1>2, <2>2, <2>5, <3>1 DEF JobKey, Present
      <3>4. job'[j].state = "unused" => job[j].state = "unused" BY <2>2
      <3> QED BY <2>2, <3>1, <3>2, <3>3, <3>4 DEF JobKey
    <2>7. Keys' BY <2>4, <2>6 DEF Keys
    <2> QED BY <1>1, <1>2, <1>3, <1>4, <2>1, <2>2, <2>3, <2>7, AccountsMove
  <1> QED BY <1>5, <1>6

(* Every step of the directory keeps the invariant.                        *)
LEMMA DirectoryInvStep == DInv /\ [Next]_vars => DInv'
  <1> SUFFICES ASSUME DInv, [Next]_vars PROVE DInv' OBVIOUS
  <1>1. AInv' BY DirectoryStep, AccountsStep DEF DInv
  <1>2. ASSUME NEW r \in Requests, CommitDrop(r) \/ CommitStart(r) PROVE DInv' BY <1>1, <1>2, CommitDropKeeps
  <1>3. ASSUME NEW j \in Jobs, TaskBegins(j) \/ TaskEnds(j) PROVE DInv' BY <1>1, <1>3, TaskKeeps
  <1>4. ASSUME NEW r \in Requests, NEW a \in Users,
               \/ CreateConnection(r, a)
               \/ \E c \in Conns : DeleteConnection(r, a, c) \/ TestConnection(r, a, c)
               \/ \E c, d \in Conns : CreateMigration(r, a, c, d)
               \/ \E j \in Jobs : DeleteMigration(r, a, j) \/ StartMigration(r, a, j)
        PROVE  DInv'
    BY <1>1, <1>4, RequestsKeep
  <1>5. ASSUME UNCHANGED vars PROVE DInv'
    <2>1. UNCHANGED <<account, req, sent, touched, seeded, overtaken, conn, job, work, task, loaded, lapsed>>
      BY <1>5 DEF vars, accountVars, ownVars
    <2>2. Rows' BY <2>1 DEF DInv, Rows, ConnType, JobType, WorkType, OtherTypes
    <2>3. Keys' BY <2>1 DEF DInv, Keys, ConnKey, JobKey, HasConn, HasJob, Present
    <2>4. Dealings'
      BY <2>1 DEF DInv, Dealings, RequestOK, LoadedOK, TaskOK, Standing, Used, Working, MayUse, Approved, Present
    <2> QED BY <1>1, <2>2, <2>3, <2>4 DEF DInv
  <1>6. ASSUME NEW r \in Requests,
               AccountChanges(r) \/ LoadUser(r) \/ AccountGoes(r) \/ Read(r) \/ EndTest(r)
        PROVE  DInv'
    BY <1>1, <1>6, AccountChangesKeeps, LoadUserKeeps, AccountGoesKeeps, ReadKeeps, EndTestKeeps
  <1>7. ASSUME NEW r \in Requests, CommitConnection(r) \/ CommitDisconnect(r) \/ CommitMigration(r) PROVE DInv'
    BY <1>1, <1>7, CommitConnectionKeeps, CommitDisconnectKeeps, CommitMigrationKeeps
  <1> QED BY <1>2, <1>3, <1>4, <1>5, <1>6, <1>7 DEF Next

(* The invariant of the directory.                                         *)
THEOREM DirectoryInvariance == Spec => []DInv
  BY DirectoryInitHolds, DirectoryInvStep, PTL DEF Spec

(* Rows refer to rows: no connection without its owner, no migration       *)
(* without its owner and both of its connections, however deletions of     *)
(* accounts, connections and migrations overlap with creations.            *)
THEOREM RowsReferToRows == Spec => []TypeOK
  BY DirectoryInvariance, DInvImplies, PTL

(* Stored credentials are in use only for those who may use them.          *)
THEOREM CredentialsForTheEntitled == Spec => []UsesAreEntitled
  BY DirectoryInvariance, DInvImplies, PTL

(***************************************************************************)
(* Migrations outlast what they use.                                       *)
(***************************************************************************)
Outlast ==
  \A j \in Jobs : HasJob(j) /\ ~HasJob(j)' =>
    \/ ~Present(job[j].owner)'
    \/ \E r \in Requests : work[r].pc = "ready" /\ work[r].op = "drop" /\ work[r].job = j /\ ~Working(r)'

(* The migrations that are there stay there.                               *)
AllStay == \A j \in Jobs : HasJob(j) => HasJob(j)'

(* Of all that is done in the name of a request, only CommitDrop and the   *)
(* end of the deletion of an account take migrations away.                 *)
LEMMA OutlastStep == DInv /\ [Next]_vars => Outlast
  <1> SUFFICES ASSUME DInv, [Next]_vars PROVE Outlast OBVIOUS
  <1>0. AInv /\ JobType /\ WorkType BY DEF DInv, Rows
  <1>1. AllStay => Outlast BY DEF AllStay, Outlast
  <1>2. UNCHANGED job => AllStay BY DEF AllStay, HasJob
  <1>3. ASSUME NEW r \in Requests, AccountGoes(r) PROVE Outlast
    <2>1. /\ CommitDelete(r, ~Restricted(r))
          /\ job' = IF Restricted(r) THEN job ELSE Remove(job, JobsOf(req[r].user))
      BY <1>3 DEF AccountGoes, DeleteRows
    <2>2. CASE Restricted(r) BY <1>1, <1>2, <2>1, <2>2
    <2>3. CASE ~Restricted(r)
      <3>2. account'[req[r].user].state # "present" BY <1>0, <2>1, <2>3, DeletionEffects
      <3>3. \A j \in Jobs : /\ job'[j].owner = job[j].owner
                          /\ job'[j].state = IF j \in JobsOf(req[r].user) THEN "gone" ELSE job[j].state
        BY <1>0, <2>1, <2>3, RemoveJobs
      <3> QED BY <3>2, <3>3 DEF Outlast, HasJob, JobsOf, Present
    <2> QED BY <2>2, <2>3
  <1>4. ASSUME NEW r \in Requests, CommitDrop(r) PROVE Outlast
    <2>1. /\ work[r].pc = "ready" /\ work[r].op = "drop" /\ job' = [job EXCEPT ![work[r].job].state = "gone"]
          /\ work' = [work EXCEPT ![r] = NoWork]
      BY <1>4 DEF CommitDrop, Committing, GoOn
    <2>2. ~Working(r)' BY <1>0, <2>1, IdleOK, NoWorkOK DEF WorkType, Working
    <2>3. \A j \in Jobs : j # work[r].job => job'[j] = job[j] BY <1>0, <2>1 DEF JobType
    <2> QED BY <2>1, <2>2, <2>3 DEF Outlast, HasJob
  <1>5. ASSUME NEW r \in Requests, CommitMigration(r) PROVE AllStay
    <2>1. CASE job' = job BY <1>2, <2>1
    <2>2. ASSUME NEW j \in Jobs, job[j].state = "unused", NEW row, job' = [job EXCEPT ![j] = row] PROVE AllStay
      BY <1>0, <2>2 DEF AllStay, HasJob, JobType
    <2> QED BY <1>5, <2>1, <2>2 DEF CommitMigration
  <1>6. ASSUME NEW j, NEW b \in BOOLEAN, job' = [job EXCEPT ![j].active = b] PROVE AllStay
    BY <1>0, <1>6 DEF AllStay, HasJob, JobType
  <1>7. ASSUME NEW r \in Requests, CommitStart(r) PROVE AllStay BY <1>2, <1>6, <1>7 DEF CommitStart
  <1>8. ASSUME NEW j \in Jobs, TaskBegins(j) \/ TaskEnds(j) PROVE AllStay BY <1>2, <1>6, <1>8 DEF TaskBegins, TaskEnds
  <1>9. ASSUME NEW r \in Requests, NEW a \in Users,
               \/ CreateConnection(r, a)
               \/ \E c \in Conns : DeleteConnection(r, a, c) \/ TestConnection(r, a, c)
               \/ \E c, d \in Conns : CreateMigration(r, a, c, d)
               \/ \E j \in Jobs : DeleteMigration(r, a, j) \/ StartMigration(r, a, j)
        PROVE  UNCHANGED job
    BY <1>9 DEF CreateConnection, DeleteConnection, TestConnection, CreateMigration, DeleteMigration, StartMigration, Enter
  <1>10. ASSUME NEW r \in Requests,
                \/ AccountChanges(r) \/ LoadUser(r) \/ Read(r) \/ EndTest(r)
                \/ CommitConnection(r) \/ CommitDisconnect(r)
         PROVE  UNCHANGED job
    BY <1>10 DEF AccountChanges, LoadUser, ownVars, Read, EndTest, CommitConnection, CommitDisconnect
  <1>11. ASSUME UNCHANGED vars PROVE UNCHANGED job BY <1>11 DEF vars, ownVars
  <1> QED BY <1>1, <1>2, <1>3, <1>4, <1>5, <1>7, <1>8, <1>9, <1>10, <1>11 DEF Next

(* A migration goes when somebody deletes it or with the account of its    *)
(* owner, and not with a connection it uses.                               *)
THEOREM MigrationsOutlast == Spec => JobsOutlast
  <1>1. DInv /\ [Next]_vars => [Outlast]_vars BY OutlastStep
  <1> QED BY <1>1, DirectoryInvariance, PTL DEF Spec, JobsOutlast, Outlast
================================================================================
