------------------------------ MODULE Directory ------------------------------
(***************************************************************************)
(* Who may use which stored connection, and what refers to what            *)
(* (services/connection_service.py, services/migration_service.py,         *)
(* worker/tasks.py _authorize_execution, the foreign keys of models/),     *)
(* while administrators change and delete the accounts of the others.      *)
(*                                                                         *)
(* A migration is reduced to its rows and to whether it is queued or       *)
(* running; its life is in MigrationSystem.                                *)
(***************************************************************************)
EXTENDS Accounts

CONSTANTS Conns, Jobs  \* identifiers of connections and migrations

ASSUME DirectoryAssumption == Requests \cap Jobs = {}

VARIABLES conn,   \* table connections
          job,    \* table migrations
          work,   \* requests about connections and migrations
          loaded, \* migrations that the deletion of a user has loaded
          task,   \* the tasks: for whom, and with which credentials
          lapsed  \* history: requests and tasks whose account changed since they read it

ownVars == <<conn, job, work, task>>
vars == <<accountVars, ownVars, loaded, lapsed>>

HasConn(c) == conn[c].state = "present"
HasJob(j) == job[j].state = "present"
Refers(j, c) == HasJob(j) /\ c \in {job[j].source, job[j].target}

NoWork == [pc |-> "idle", op |-> "none", actor |-> Nobody, role |-> "guest", conn |-> Nobody, to |-> Nobody, job |-> Nobody]
NoTask == [user |-> Nobody, conns |-> {}]
Working(r) == work[r].pc # "idle"

(***************************************************************************)
(* A request: get_current_user and the roles the router admits, then the   *)
(* rows it is about.                                                       *)
(***************************************************************************)
Writers == {"admin", "user"}

Enter(r, a, roles, what) ==
  /\ ~Working(r) /\ Arrive
  /\ Approved(a) /\ account[a].role \in roles
  /\ work' = [work EXCEPT ![r] = [what EXCEPT !.actor = a, !.role = account[a].role]]
  /\ UNCHANGED <<account, req, touched, seeded, overtaken, conn, job, loaded, task, lapsed>>

GoOn(r, pc) == work' = [work EXCEPT ![r] = IF pc = "idle" THEN NoWork ELSE [@ EXCEPT !.pc = pc]]

(* Mutant of ForUse: get_readable, which lets guests see everything.       *)
ForReading(r, c) == HasConn(c) /\ (work[r].role \in {"admin", "guest"} \/ conn[c].owner = work[r].actor)

(* get_for_use and get_writable: the owner, or an administrator.           *)
ForUse(r, c) == HasConn(c) /\ (work[r].role = "admin" \/ conn[c].owner = work[r].actor)
Writable(r, j) == HasJob(j) /\ (work[r].role = "admin" \/ job[j].owner = work[r].actor)

CreateConnection(r, a) == Enter(r, a, Writers, [NoWork EXCEPT !.pc = "ready", !.op = "connect"])
DeleteConnection(r, a, c) == Enter(r, a, Writers, [NoWork EXCEPT !.pc = "begun", !.op = "disconnect", !.conn = c])
TestConnection(r, a, c) == Enter(r, a, Roles, [NoWork EXCEPT !.pc = "begun", !.op = "test", !.conn = c])
CreateMigration(r, a, c, d) ==
  Enter(r, a, Writers, [NoWork EXCEPT !.pc = "begun", !.op = "plan", !.conn = c, !.to = d])
DeleteMigration(r, a, j) == Enter(r, a, Writers, [NoWork EXCEPT !.pc = "begun", !.op = "drop", !.job = j])
StartMigration(r, a, j) == Enter(r, a, Writers, [NoWork EXCEPT !.pc = "begun", !.op = "start", !.job = j])

Read(r) ==
  LET w == work[r]
      good == CASE w.op = "disconnect" -> ForUse(r, w.conn) /\ ~\E j \in Jobs : Refers(j, w.conn)
                [] w.op = "test" -> ForUse(r, w.conn)
                [] w.op = "plan" -> ForUse(r, w.conn) /\ ForUse(r, w.to)
                [] OTHER -> Writable(r, w.job) /\ ~job[w.job].active
  IN  /\ w.pc = "begun"
      /\ GoOn(r, IF ~good THEN "idle" ELSE IF w.op = "test" THEN "using" ELSE "ready")
      /\ lapsed' = IF good THEN lapsed ELSE lapsed \ {r}
      /\ UNCHANGED <<accountVars, conn, job, loaded, task>>

(* test_existing, discover_tables, discover_columns: the dialogue with the *)
(* foreign database, in a thread, is over.                                 *)
EndTest(r) ==
  /\ work[r].pc = "using"
  /\ GoOn(r, "idle") /\ lapsed' = lapsed \ {r}
  /\ UNCHANGED <<accountVars, conn, job, loaded, task>>

(***************************************************************************)
(* Commits. A row that refers to a missing one is refused; so is the       *)
(* deletion of a connection that a migration refers to (RESTRICT), and the *)
(* change of a row that is gone.                                           *)
(***************************************************************************)
Committing(r, op) ==
  /\ work[r].pc = "ready" /\ work[r].op = op
  /\ GoOn(r, "idle") /\ lapsed' = lapsed \ {r}
  /\ UNCHANGED <<accountVars, loaded, task>>

(* Mutant of CommitConnection: no foreign key.                             *)
CommitConnectionAlways(r) ==
  /\ Committing(r, "connect")
  /\ \E c \in Conns : /\ conn[c].state = "unused"
                      /\ conn' = [conn EXCEPT ![c] = [state |-> "present", owner |-> work[r].actor]]
  /\ UNCHANGED job

CommitConnection(r) ==
  /\ Committing(r, "connect")
  /\ IF Present(work[r].actor)
     THEN \E c \in Conns : /\ conn[c].state = "unused"
                           /\ conn' = [conn EXCEPT ![c] = [state |-> "present", owner |-> work[r].actor]]
     ELSE UNCHANGED conn
  /\ UNCHANGED job

CommitDisconnect(r) ==
  /\ Committing(r, "disconnect")
  /\ conn' = IF \E j \in Jobs : Refers(j, work[r].conn) THEN conn ELSE [conn EXCEPT ![work[r].conn].state = "gone"]
  /\ UNCHANGED job

CommitMigration(r) ==
  /\ Committing(r, "plan")
  /\ IF Present(work[r].actor) /\ HasConn(work[r].conn) /\ HasConn(work[r].to)
     THEN \E j \in Jobs :
            /\ job[j].state = "unused"
            /\ job' = [job EXCEPT ![j] = [state |-> "present", owner |-> work[r].actor,
                                          source |-> work[r].conn, target |-> work[r].to, active |-> FALSE]]
     ELSE UNCHANGED job
  /\ UNCHANGED conn

CommitDrop(r) ==
  /\ Committing(r, "drop")
  /\ job' = [job EXCEPT ![work[r].job].state = "gone"]
  /\ UNCHANGED conn

CommitStart(r) ==
  /\ Committing(r, "start")
  /\ job' = IF HasJob(work[r].job) THEN [job EXCEPT ![work[r].job].active = TRUE] ELSE job
  /\ UNCHANGED conn

(***************************************************************************)
(* The worker. Credentials are decrypted after _authorize_execution and    *)
(* kept until the task ends.                                               *)
(***************************************************************************)
TaskBegins(j) ==
  LET u == job[j].owner
      conns == {job[j].source, job[j].target}
      authorised == Approved(u) /\ (account[u].role = "admin" \/ \A c \in conns : conn[c].owner = u)
  IN  /\ HasJob(j) /\ job[j].active /\ task[j] = NoTask
      /\ IF authorised THEN /\ task' = [task EXCEPT ![j] = [user |-> u, conns |-> conns]]
                            /\ UNCHANGED job
                       ELSE /\ job' = [job EXCEPT ![j].active = FALSE]
                            /\ UNCHANGED task
      /\ UNCHANGED <<accountVars, conn, work, loaded, lapsed>>

TaskEnds(j) ==
  /\ task[j] # NoTask
  /\ task' = [task EXCEPT ![j] = NoTask]
  /\ job' = [job EXCEPT ![j].active = FALSE]
  /\ lapsed' = lapsed \ {j}
  /\ UNCHANGED <<accountVars, conn, work, loaded>>

(***************************************************************************)
(* Accounts change. Deleting one loads its migrations and connections, and *)
(* deletes first those, then these, then the row; what came since then is  *)
(* left to the foreign keys (CASCADE from the account, connections before  *)
(* migrations).                                                            *)
(***************************************************************************)
Lapse ==
  lapsed' = lapsed \cup {r \in Requests : Working(r) /\ account'[work[r].actor] # account[work[r].actor]}
                   \cup {j \in Jobs : task[j] # NoTask /\ account'[task[j].user] # account[task[j].user]}

LoadUser(r) ==
  /\ GetUser(r)
  /\ loaded' = [loaded EXCEPT ![r] = {j \in Jobs : HasJob(j) /\ job[j].owner = req[r].user}]
  /\ UNCHANGED <<ownVars, lapsed>>

(* Some other migration refers to a connection that is to go.              *)
Restricted(r) ==
  \E j \in Jobs \ loaded[r], c \in Conns : Refers(j, c) /\ conn[c].owner = req[r].user /\ HasConn(c)

Remove(table, going) == [x \in DOMAIN table |-> IF x \in going THEN [table[x] EXCEPT !.state = "gone"] ELSE table[x]]
ConnsOf(u) == {c \in Conns : HasConn(c) /\ conn[c].owner = u}
JobsOf(u) == {j \in Jobs : HasJob(j) /\ job[j].owner = u}

(* Mutant of DeleteRows: ON DELETE CASCADE all the way.                    *)
DeleteRowsCascading(r) ==
  /\ CommitDelete(r, TRUE)
  /\ conn' = Remove(conn, ConnsOf(req[r].user))
  /\ job' = Remove(job, {j \in Jobs : j \in JobsOf(req[r].user) \/ \E c \in ConnsOf(req[r].user) : Refers(j, c)})

DeleteRows(r) ==
  /\ CommitDelete(r, ~Restricted(r))
  /\ conn' = IF Restricted(r) THEN conn ELSE Remove(conn, ConnsOf(req[r].user))
  /\ job' = IF Restricted(r) THEN job ELSE Remove(job, JobsOf(req[r].user))

AccountGoes(r) ==
  /\ DeleteRows(r)
  /\ loaded' = [loaded EXCEPT ![r] = {}]
  /\ Lapse
  /\ UNCHANGED <<work, task>>

AccountChanges(r) ==
  /\ Administrate(r)
  /\ Lapse
  /\ UNCHANGED <<ownVars, loaded>>

(* Nothing stored, or connections of the staff.                            *)
Init ==
  /\ AccountsInit
  /\ conn \in [Conns -> {[state |-> "unused", owner |-> Nobody]} \cup [state : {"present"}, owner : {u \in Users : Present(u)}]]
  /\ job = [j \in Jobs |-> [state |-> "unused", owner |-> Nobody, source |-> Nobody, target |-> Nobody, active |-> FALSE]]
  /\ work = [r \in Requests |-> NoWork]
  /\ loaded = [r \in Requests |-> {}]
  /\ task = [j \in Jobs |-> NoTask]
  /\ lapsed = {}

Next ==
  \/ \E r \in Requests :
       \/ AccountChanges(r) \/ LoadUser(r) \/ AccountGoes(r)
       \/ \E a \in Users : \/ CreateConnection(r, a)
                           \/ \E c \in Conns : DeleteConnection(r, a, c) \/ TestConnection(r, a, c)
                           \/ \E c, d \in Conns : CreateMigration(r, a, c, d)
                           \/ \E j \in Jobs : DeleteMigration(r, a, j) \/ StartMigration(r, a, j)
       \/ Read(r) \/ EndTest(r)
       \/ CommitConnection(r) \/ CommitDisconnect(r) \/ CommitMigration(r) \/ CommitDrop(r) \/ CommitStart(r)
  \/ \E j \in Jobs : TaskBegins(j) \/ TaskEnds(j)

Spec == Init /\ [][Next]_vars

(***************************************************************************)
(* Properties.                                                             *)
(***************************************************************************)
States == {"unused", "present", "gone"}
Someone == Users \cup {Nobody}

(* Every variable has its type, and a row refers to rows: a connection to  *)
(* its owner, a migration to its owner and to both of its connections.     *)
TypeOK ==
  /\ AccountsTypeOK
  /\ conn \in [Conns -> [state : States, owner : Someone]]
  /\ job \in [Jobs -> [state : States, owner : Someone, source : Conns \cup {Nobody}, target : Conns \cup {Nobody}, active : BOOLEAN]]
  /\ work \in [Requests -> [pc : {"idle", "begun", "ready", "using"}, role : Roles, actor : Someone,
                            op : {"none", "connect", "disconnect", "test", "plan", "drop", "start"},
                            conn : Conns \cup {Nobody}, to : Conns \cup {Nobody}, job : Jobs \cup {Nobody}]]
  /\ loaded \in [Requests -> SUBSET Jobs]
  /\ task \in [Jobs -> [user : Someone, conns : SUBSET Conns]]
  /\ lapsed \subseteq Requests \cup Jobs
  /\ \A c \in Conns : HasConn(c) => conn[c].owner \in Users /\ Present(conn[c].owner)
  /\ \A j \in Jobs : HasJob(j) => /\ job[j].owner \in Users /\ Present(job[j].owner)
                                  /\ \A c \in {job[j].source, job[j].target} : c \in Conns /\ HasConn(c)

MayUse(u, conns) == Approved(u) /\ (account[u].role = "admin" \/ \A c \in conns : conn[c].owner = u)

(* Stored credentials are in use only for somebody who may use them: the   *)
(* owner of the connection or an administrator, with an approved account.  *)
(* It holds of live tests, of discovery and of tasks, however accounts     *)
(* change between the creation of a migration, its start and its run. Once *)
(* in use they stay in use: who loses his rights then keeps them till the  *)
(* end of the test or of the task.                                         *)
UsesAreEntitled ==
  /\ \A r \in Requests : work[r].pc = "using" /\ r \notin lapsed => MayUse(work[r].actor, {work[r].conn})
  /\ \A j \in Jobs : task[j] # NoTask /\ j \notin lapsed => MayUse(task[j].user, task[j].conns)

(* A migration goes when somebody who may deletes it, or with the account  *)
(* of its owner: never because a connection it uses goes, nor with the     *)
(* account of whoever owns that.                                           *)
JobsOutlast ==
  [][\A j \in Jobs : HasJob(j) /\ ~HasJob(j)' =>
       \/ ~Present(job[j].owner)'
       \/ \E r \in Requests : work[r].pc = "ready" /\ work[r].op = "drop" /\ work[r].job = j /\ ~Working(r)']_vars
==============================================================================
