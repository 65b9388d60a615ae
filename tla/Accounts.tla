------------------------------- MODULE Accounts -------------------------------
(***************************************************************************)
(* Accounts and those who administer them (services/user_service.py,       *)
(* services/auth_service.py register and bootstrap_first_admin,            *)
(* core/deps.py): an administrator may do to any account but his own what  *)
(* he likes.                                                               *)
(*                                                                         *)
(* A request reads the acting account, then the account it is about, and   *)
(* writes when it commits; nothing it has read is locked. SQLAlchemy       *)
(* writes a column only if its value is not the one that was read, and the *)
(* commit fails if the row to change is gone.                              *)
(***************************************************************************)
EXTENDS Naturals

CONSTANTS Users,        \* identifiers of accounts, each is used once
          Staff,        \* an established installation: the role of a user, or "unused"
          Verdicts,     \* statuses that administrators give
          Requests,     \* requests in flight at the same time
          MaxRequests,  \* bound on the requests sent
          Nobody

Roles == {"admin", "user", "guest"}
UserStatus == {"pending", "approved", "rejected", "disabled"}
Mails == {"first", "new", "old"}  \* FIRST_ADMIN_EMAIL, one that may register, all others

ASSUME AccountsAssumption ==
  /\ Nobody \notin Users /\ MaxRequests \in Nat
  /\ Verdicts \subseteq UserStatus
  /\ Staff \in [Users -> Roles \cup {"unused"}] /\ \E u \in Users : Staff[u] = "admin"

VARIABLES account,   \* table users
          req,       \* registrations, start-ups and requests of administrators
          sent,      \* number of requests sent
          touched,   \* history: requests whose acting account has changed since they read it
          seeded,    \* history: the installation has had an administrator
          overtaken  \* history: such a request has changed an account

accountVars == <<account, req, sent, touched, seeded, overtaken>>

Present(u) == account[u].state = "present"
Approved(u) == Present(u) /\ account[u].status = "approved"
Admin(u) == Approved(u) /\ account[u].role = "admin"
Unused(u) == account[u].state = "unused"
MailTaken(mail) == \E u \in Users : Present(u) /\ account[u].mail = mail

NoRequest == [pc |-> "idle", op |-> "none", actor |-> Nobody, user |-> Nobody, value |-> "none", was |-> "none"]
AdminOps == {"role", "status", "delete"}
InFlight(r) == req[r].pc # "idle"

Arrive == sent < MaxRequests /\ sent' = sent + 1

(***************************************************************************)
(* Start of the API, and registration: look, then insert.                  *)
(***************************************************************************)
Bootstrap(r) ==
  /\ ~InFlight(r) /\ Arrive
  /\ \A u \in Users : ~Present(u)
  /\ req' = [req EXCEPT ![r] = [NoRequest EXCEPT !.pc = "ready", !.op = "boot", !.value = "first"]]
  /\ UNCHANGED <<account, touched, seeded, overtaken>>

Register(r, mail) ==
  /\ ~InFlight(r) /\ Arrive
  /\ ~MailTaken(mail) /\ \E u \in Users : Unused(u)
  /\ req' = [req EXCEPT ![r] = [NoRequest EXCEPT !.pc = "ready", !.op = "register", !.value = mail]]
  /\ UNCHANGED <<account, touched, seeded, overtaken>>

(* users.email is unique; who comes second fails.                          *)
InsertAccount(r) ==
  /\ req[r].pc = "ready" /\ req[r].op \in {"boot", "register"}
  /\ IF MailTaken(req[r].value)
     THEN UNCHANGED <<account, seeded>>
     ELSE \E u \in Users :
            /\ Unused(u)
            /\ account' = [account EXCEPT ![u] =
                 [state |-> "present", mail |-> req[r].value,
                  role |-> IF req[r].op = "boot" THEN "admin" ELSE "user",
                  status |-> IF req[r].op = "boot" THEN "approved" ELSE "pending"]]
            /\ seeded' = (seeded \/ req[r].op = "boot")
  /\ req' = [req EXCEPT ![r] = NoRequest]
  /\ UNCHANGED <<sent, touched, overtaken>>

(***************************************************************************)
(* Administration: require_admin has read the acting account.              *)
(***************************************************************************)
Begin(r, a, op, u, value) ==
  /\ ~InFlight(r) /\ Arrive
  /\ Admin(a)
  /\ req' = [req EXCEPT ![r] = [NoRequest EXCEPT !.pc = "begun", !.op = op, !.actor = a, !.user = u, !.value = value]]
  /\ UNCHANGED <<account, touched, seeded, overtaken>>

(* Mutant of SetRole: an administrator may change his own role.            *)
SetRoleOfAnyone(r, a, u, role) == Begin(r, a, "role", u, role)

SetRole(r, a, u, role) == u # a /\ Begin(r, a, "role", u, role)
SetStatus(r, a, u, status) == u # a /\ Begin(r, a, "status", u, status)
DeleteUser(r, a, u) == u # a /\ Begin(r, a, "delete", u, "none")

(* get_user_or_404.                                                        *)
GetUser(r) ==
  /\ req[r].pc = "begun"
  /\ LET it == account[req[r].user]
         was == CASE req[r].op = "role" -> it.role [] req[r].op = "status" -> it.status [] OTHER -> "none"
     IN  req' = [req EXCEPT ![r] = IF Present(req[r].user) THEN [@ EXCEPT !.pc = "ready", !.was = was] ELSE NoRequest]
  /\ touched' = IF Present(req[r].user) THEN touched ELSE touched \ {r}
  /\ UNCHANGED <<account, sent, seeded, overtaken>>

(* The end of a request that may have changed a row.                       *)
Changing(r) ==
  /\ touched' = (touched \cup {q \in Requests : /\ InFlight(q) /\ req[q].op \in AdminOps
                                               /\ account'[req[q].actor] # account[req[q].actor]}) \ {r}
  /\ overtaken' = (overtaken \/ (r \in touched /\ account' # account))
  /\ req' = [req EXCEPT ![r] = NoRequest]
  /\ UNCHANGED <<sent, seeded>>

CommitUpdate(r) ==
  /\ req[r].pc = "ready" /\ req[r].op \in {"role", "status"}
  /\ account' = IF req[r].value = req[r].was \/ ~Present(req[r].user) THEN account
                ELSE IF req[r].op = "role" THEN [account EXCEPT ![req[r].user].role = req[r].value]
                                           ELSE [account EXCEPT ![req[r].user].status = req[r].value]
  /\ Changing(r)

(* `allowed': the rows that go with the account can go.                    *)
CommitDelete(r, allowed) ==
  /\ req[r].pc = "ready" /\ req[r].op = "delete"
  /\ account' = IF allowed /\ Present(req[r].user) THEN [account EXCEPT ![req[r].user].state = "gone"] ELSE account
  /\ Changing(r)

(* An empty database, or an installation that is in use.                   *)
AccountsInit ==
  /\ \/ /\ account = [u \in Users |-> [state |-> "unused", mail |-> "old", role |-> "guest", status |-> "pending"]]
        /\ seeded = FALSE
     \/ /\ account = [u \in Users |->
             IF Staff[u] = "unused" THEN [state |-> "unused", mail |-> "old", role |-> "guest", status |-> "pending"]
                                    ELSE [state |-> "present", mail |-> "old", role |-> Staff[u], status |-> "approved"]]
        /\ seeded = TRUE
  /\ req = [r \in Requests |-> NoRequest]
  /\ sent = 0 /\ touched = {} /\ overtaken = FALSE

(* Every step but the end of a deletion, which other tables have a say in. *)
Administrate(r) ==
  \/ Bootstrap(r) \/ InsertAccount(r) \/ CommitUpdate(r)
  \/ \E mail \in {"first", "new"} : Register(r, mail)
  \/ \E a, u \in Users : \/ \E role \in Roles : SetRole(r, a, u, role)
                         \/ \E status \in Verdicts : SetStatus(r, a, u, status)
                         \/ DeleteUser(r, a, u)

AccountsNext ==
  \/ \E r \in Requests : Administrate(r) \/ GetUser(r) \/ \E allowed \in BOOLEAN : CommitDelete(r, allowed)
  \/ Arrive /\ UNCHANGED <<account, req, touched, seeded, overtaken>>

AccountsSpec == AccountsInit /\ [][AccountsNext]_accountVars

(***************************************************************************)
(* Properties.                                                             *)
(***************************************************************************)
Account == [state : {"unused", "present", "gone"}, mail : Mails, role : Roles, status : UserStatus]
AdminRequest ==
  [pc : {"idle", "begun", "ready"}, op : {"none", "boot", "register"} \cup AdminOps,
   actor : Users \cup {Nobody}, user : Users \cup {Nobody},
   value : {"none"} \cup Mails \cup Roles \cup UserStatus, was : {"none"} \cup Roles \cup UserStatus]

(* Every variable has its type.                                            *)
AccountsTypeOK ==
  /\ account \in [Users -> Account]
  /\ req \in [Requests -> AdminRequest]
  /\ sent \in 0..MaxRequests /\ touched \subseteq Requests
  /\ seeded \in BOOLEAN /\ overtaken \in BOOLEAN

(* An installation that has had an administrator keeps one: whatever       *)
(* administrators do to each other, one is left who can log in. The        *)
(* exception is the one the code leaves open: a request whose acting       *)
(* account lost its rights while the request was under way (two            *)
(* administrators who demote, disable or delete each other at once).       *)
AdminRemains == seeded /\ ~overtaken => \E u \in Users : Admin(u)
===============================================================================
