# A verification project for the migration platform

This directory holds TLA+ models of the migration platform in `src/`: a FastAPI backend, a Celery
worker that drives a copy engine (Redpanda Connect) once per table, PostgreSQL and Redis, and a React
frontend. TLC checks the models on small instances; TLAPS proves the theorems for every value of
the constants. `PROJECT.json` maps every definition to the source lines it models, and lists the
components, runs, mutants, findings, hazards and theorems.

Paths below are relative to `src/backend/app/` unless they start with `frontend/`.

## 1. The system

| Component | State it keeps | Operations | Interacts with |
|---|---|---|---|
| Migration lifecycle API: `services/migration_service.py`, `routers/migrations.py`, `models/enums.py` | `migrations`, `migration_tables` rows | create, update, start, cancel, delete, reads | commits to PostgreSQL, publishes and revokes Celery tasks |
| Migration task: `worker/tasks.py` | one session per task: the loaded migration and table rows | `run_migration`, `_run_table`, `_upsert_checkpoint`, the failure and cancel handlers | PostgreSQL, the engine, the users' databases |
| Engine streaming: `_stream_engine` in `worker/tasks.py` | child process, pipe, reader thread, queue | run, read, log, poll, terminate, kill, reap | child process; the status row, through a fresh session |
| Broker: `worker/celery_app.py` (Celery and Redis are libraries) | queue, unacknowledged deliveries, revocations in worker memory | publish, deliver, acknowledge late, redeliver, revoke | API and workers |
| Database sessions: `database.py`, `models/` | what each session loaded | load, flush, commit, rollback; READ COMMITTED, no row locks | everybody |
| Live log stream: `routers/stream.py`, `models/migration_log.py`, `frontend/src/api/stream.ts`, `frontend/src/hooks/useMigrationStream.ts` | `_active_streams`; per stream `last_id` | subscribe, poll logs, poll status, end | workers append rows, the API cancels and deletes |
| Sessions and tokens: `services/auth_service.py`, `routers/auth.py`, `core/security.py`, `models/refresh_token.py` | refresh-token rows in families | login, refresh with rotation, reuse detection, expiry, logout | browser session; commits of `get_db` |
| User administration: `services/user_service.py`, `routers/users.py`, `models/user.py`; registration and `bootstrap_first_admin` in `services/auth_service.py` | `users`: address, role, status | register, seed, set role, set status, delete with cascade | every request; connections and migrations (foreign keys) |
| Access control: `core/deps.py`, and `_authorize_execution` in `worker/tasks.py` | none | `get_current_user`, `require_roles`, `require_admin`; the owner check of the task | reads `users` |
| Connections: `services/connection_service.py`, `routers/connections.py`, `models/connection.py` | connections with encrypted credentials | create, update, delete, test, discover | migrations (RESTRICT), owners (CASCADE), egress guard |
| Row filters: `services/filters.py` | none | render conditions for the driver, the engine and MongoDB | row count, engine configuration |
| Schema discovery, DDL, engine configuration: `services/schema_discovery.py`, `services/ddl_generator.py`, `services/yaml_generator.py` | the users' databases | list columns, count rows, test for and create tables, plan fields | the task |
| Browser session: `frontend/src/lib/api.ts`, `frontend/src/lib/tokens.ts`, `frontend/src/auth/AuthContext.tsx` | per tab: access token, what is shown, one refresh under way; one cookie jar | load, sign in and out, call, refresh, retry | sessions and tokens |
| Egress guard, credential encryption: `core/netguard.py`, `core/crypto.py` | none | judge an address or a path; wrap Fernet | connections, engine configuration |
| Pages, request schemas, application shell, Alembic | forms and settings | rendering, validation | API |

What is hard, and what therefore has to be shown:

* **Check, then act, without locks.** Every endpoint tests the status it loaded and commits later.
  The worker goes further: it loads the migration and its tables once and decides on those copies
  for hours. Correctness is what survives: a table that says DONE was copied, COMPLETED is never
  claimed of a migration whose tables were not copied, counts add up, no job is stranded.
* **At-least-once delivery.** `acks_late` and Redis' visibility timeout can run one task twice, at
  once or after a crash. The task must resume from any mixture of table statuses.
* **Partial failure.** `.delay()` can fail, or succeed and report a failure; a commit can fail
  because the row is gone, after which the session cannot even record the failure.
* **Cancellation.** It is a write to a row, a best-effort broadcast and a poll; it competes with
  claims, completions, restarts and an engine that says nothing or ignores SIGTERM.
* **Processes, threads and pipes.** The child must not outlive the call, and the exit code must not
  overtake the last line; the reader thread may fail on what it reads, and the end of the output is not
  the end of the engine.
* **Tailing.** Ids are drawn at INSERT and become visible at COMMIT; logs and status are read in
  different sessions.
* **Rotation.** Two refreshes with one token, a logout that races a refresh, a page load that races
  the interceptor; nothing locks the token's row between its read and the commit.
* **Rights that change.** An account is read once per request and once per task; administrators
  change, disable and delete accounts meanwhile, each other's included.
* **Rows that refer to rows.** Connections and migrations are checked, then inserted or deleted; the
  foreign keys decide, and a deleted account takes its rows along.
* **Four engines with different types, names and logics.** The count, the DDL, the query and the
  insertion are computed separately and have to fit one another for every pair of engines, while the
  owners of the databases may change them.

What makes each component correct, in a sentence: *jobs* claim nothing that was not copied and are
never stranded; *an engine run* leaves no process behind and reports what happened; *the log stream*
skips nothing and ends; *sessions* have one live token, end for good, and do not end by themselves;
*administration* leaves an administrator; *credentials* are used for the entitled only; *references*
hold; *a copy* has the rows and columns that were asked for.

`PROJECT.json` lists each hazard at its line, with the properties that would catch it, or the reason
why no property covers it.

## 2. The modules

| Module | Models | State and actions |
|---|---|---|
| `Enums` | `models/enums.py` | the status sets; `Deleted` is "no such row" |
| `JobStore` | the rows of one migration | status, task id, counters, table statuses, checkpoints. `edition` is the generation of table rows: an edit deletes the rows and inserts new ones, so a stale session's rows are gone |
| `Broker` | Celery over Redis as `celery_app.py` configures it | queue, unacknowledged deliveries, revocations held in worker memory |
| `MigrationApi` | start, cancel, delete, update | one action per load, commit, publish, compensation and revocation. Between any two of them everybody else may commit; a commit whose rows are gone fails and the request rolls back |
| `MigrationWorker` | `run_migration` and `_run_table` | one action per commit, per `_is_cancelled` and per outcome of a call; `seen`, `mem`, `local`, `have` and `ed` are what the session holds, and each write is "the loaded value differs, and the row still exists" |
| `MigrationSystem` | the composition, with process deaths | `Next`, fairness, the properties, the inductive invariant |
| `ResumableJob` | abstract: what the statuses promise a client | a state machine over a set of finished tables that only grows |
| `MCMigrationSystem` | values for TLC | row counts, symmetry |
| `MigrationSystemProofs` | proofs | section 5 |
| `MigrationDeployments` | the deployments in which the jobs keep more promises | `SerialDeployment` and `OneWorkerDeployment` are conditions on the constants; `SerialInv` and `OneWorkerInv` are their inductive invariants |
| `MigrationDeploymentProofs` | proofs | section 5 |
| `EngineStream` | `_stream_engine` and `_parse_log_line` | engine, pipe, reader thread (which may fail on a line it cannot decode), queue, and the task's loop, wait and finally block, one action per step |
| `EngineRun` | abstract: the single engine step of `MigrationWorker` | exits, cancels, raises |
| `EngineStreamProofs` | proofs | section 5 |
| `LogStream` | `routers/stream.py`, `_log`, and the commits the stream depends on | a row is drawn (`Insert`) and becomes visible (`Commit`); a stream is admitted (`Subscribe`) and starts later (`Begin`) or never (`NeverBegins`), then alternates `Fetch` and `Progress`. `unstarted` is history: the slots that were lost |
| `LogStreamProofs` | proofs | section 5 |
| `Sessions` | login, refresh and logout, server side; one account | token rows by number of issue (`family`, `revoked`, `expired`); a request goes from `sent` over its reads to `ready`, and its commit or its reply comes first; the rate limit may refuse a refresh before it reads anything (`RefreshLimited`). Any client may present any token. `raced`, `alone`, `sealed` are history |
| `BrowserSession` | the pages, composed with `Sessions` | one cookie jar; per tab the access token, what is shown, the calls and the interceptor's shared promise; replies arrive in any order, may be lost, and may come for a page that is gone. `disturbed`, `limited`, `signedOut` are history |
| `SessionsProofs`, `BrowserSessionProofs` | proofs | section 5 |
| `Accounts` | `users`: bootstrap, registration, `set_role`, `set_status`, `delete_user`, and the rights each request was admitted with | a request reads the acting account, then the other (`GetUser`), and writes at its commit. `touched`, `overtaken`, `seeded` are history |
| `Directory` | connections, migrations and tasks on top of `Accounts`: who may create, test, delete, start; the owner check of the task; foreign keys and the cascade of a deleted account | `work` is a request about a connection or migration, `task` the credentials a worker has decrypted, `loaded` the rows a deletion has read. `lapsed` is history |
| `MCDirectory` | values for TLC | staff, symmetry |
| `DirectoryProofs` | proofs about both | section 5 |
| `ColumnTypes` | the type maps of `ddl_generator.py`, `plan_target_columns`, `build_create_table_sql`; classes of names | operators |
| `ColumnValues` | reference: which values a native type holds and which a column takes | operators; not code of the repository |
| `RowFilters` | `filters.py`: the three renderings, and the rows each one selects | operators |
| `TableCopy` | one table from its acceptance by the API to the engine's result: `_resolve_field_pairs`, `_ensure_target_table`, the count, the configuration, the copy | one action per step that looks at a database; the owner of the source may drop columns or the table; a table of somebody else may be the target, with a key and a row, with room for everything, or narrow |
| `MCTableCopy` | small tables, and what may be asked of them | the set of jobs |
| `TableCopyProofs` | proofs | section 5 |

`TableCopy` refines by hand the single steps of `MigrationWorker` that only have outcomes there
(`TableRaises`, `CountFails`, `TargetMissing`); `Directory` refines its `setup_fails`. They are separate
modules because their product with the job's races would say nothing that the parts do not.

How the models abstract:

* One migration; its tables are numbers in `order_index` order, a task id is the number of the start
  that drew it, a log line is its number and its level.
* Loads and commits are atomic, because PostgreSQL makes them so; everything between them interleaves.
  Steps that touch nothing shared (building the YAML, discovering a schema) belong to the next action
  that does, with their failures as explicit outcomes (`TableRaises`, `CountFails`, `TargetMissing`).
* SQLAlchemy writes a column only if its value differs from the loaded one, and `expire_on_commit` is
  off. Both decide what a race can do, so both are modelled.
* In `MigrationWorker` an engine run is two states, `engine` while its output is open and the task polls,
  and `wait` after (`OutputEnds`); it ends with success, failure, cancellation or an exception; `EngineStream`
  models the run in detail and implements `EngineRun`, which has exactly
  these outcomes.
* Messages, timestamps and wording are left out. Names matter in `TableCopy` only by class: simple,
  dotted, or with a space, which is what the three patterns for identifiers tell apart, and, among the
  simple ones, in mixed case (`Folded`) or a word of SQL (`Reserved`), which are not what they say without
  quotes.
* What a connection's schema changes is whether a name without it reaches the table (`Reached`): discovery
  looks in that schema, everything else in the default one. That the default schema, or the folded name,
  belongs to another table that is then read or written is not modelled; such a copy has a reason in
  `AcceptedIsCopied` and nothing else is claimed of it.
* A value that a column does not take is refused by an insert, and dropped or replaced by one that ignores
  errors (`Altered` stands for whatever is stored instead). An estimate of a collection's size is any number
  up to one more than the size.
* The counters of the rate limit are left out: any login or refresh may be refused for it, since others
  may share the address.
* In `RowFilters` a value is a number; some are texts, 0 is NULL or a missing field.
* A password, a key or a token's text does not occur: a login may be refused at will, a refresh token
  is its number, and whether it verifies is whether its row and its expiry say so.
* `get_db` commits after the endpoint has returned; from FastAPI 0.118 on that is after the reply was
  sent, in the versions before it the reply waits. `requirements.txt` admits both, so the reply of a
  login, a refresh or a logout may leave first (`ReplyEarly`).

## 3. The runs

Distinct states and time are those of two TLC workers on a small machine.

| Run | Instance | Shows | States |
|---|---|---|---|
| `job_serial` | 1 worker, 1 request at a time, 3 starts, no cancel, 2 tables, 2 deaths, every failure a task handles | `CompletedMeansDone`, `ProcessedAddsUp`, `ProcessedWithinTotal`, `DoneNeverUndone`, the refinement `ImplementsJob`, `EverySubmissionSettles` | 119,081, 12 s |
| `job_one_worker` | 1 worker, 2 concurrent requests that start, cancel and delete, 2 starts, failing or unanswered enqueues, engines that close their output | `NoStrandedJob`, `EverySubmissionSettles`, `CancelStopsEngine` | 160,987, 41 s |
| `job_races` | 2 workers, 2 requests over every endpoint, one edit, duplicates, a death of the API, lost replies | `TypeOK`, `DoneIsCopied`, `CheckpointIsCopied`, `CompletedIsCopied` | 1.9 million, 82 s |
| `job_restarts` | 2 workers run two tasks of one migration at once | `DoneIsCopied`, `CompletedIsCopied` | 2.1 million, 53 s |
| `engine_stream` | 4 lines through a pipe of 2, an engine that may ignore SIGTERM, close its output or write what cannot be decoded, a database that may fail | `TypeOK`, `NoOrphan`, `ExitIsTheWholeStory`, `ImplementsEngineRun`, `CancelEndsCall` | 347,606, 19 s |
| `log_stream` | 2 tasks one after the other, 2 clients, 2 slots, 3 rows in batches of 2, generators that never start, cancels, restarts, deletion | `TypeOK`, `NoGap`, `EndedIsDrained`, `SlotsAreFreed`, `LinesArrive`, `StreamsClose` | 288,696, 73 s |
| `table_copy` | some 6,000 jobs, without a target table and with several kinds of one: 4 source engines, 4 targets, every native type of the maps, selections, mappings, one or two filter conditions, options; 1 change by others | `TypeOK`, `CountIsTheCopy`, `CopiesTheSelection`, `AllColumnsArrive`, `AcceptedIsCopied` | 1.9 million, 56 s |
| `sessions` | 2 tabs, 2 calls each, 2 requests in flight, 3 events, 1 fault | `TypeOK`, `OneHead`, `ClosedForGood`, `StaysSignedIn`, `CallsSettle` | 315,776, 2 min |
| `directory` | 2 administrators and a user, or an empty database; 2 connections, 1 migration, 3 requests of which 2 overlap | `TypeOK`, `AdminRemains`, `UsesAreEntitled`, `JobsOutlast` | 1.7 million, 104 s |
| `job_cancel_overwritten` | 1 worker, 1 request | violation of `CancelledStands` | |
| `job_restart_recopies` | 1 worker, 1 request | violation of `DoneNeverUndone` | |
| `log_stream_ends_early` | 1 task, 1 client | violation of `EndedIsComplete` | |

**Bounds and why they are enough.** `MaxStarts` (starts that pass the status check), `MaxEdits`,
`MaxFaults` (deaths), `MaxLines`, `MaxLogs` and `PipeSize` bound what could go on for ever. The races
need two of a kind: two workers at one migration, two requests, one restart (two task ids), one edit
(two generations of rows). Three starts in `job_serial` let a job fail, be retried, fail and be
retried; two tables let an attempt stop between them. A pipe of two lines fills up with four; three
rows need two batches of two, plus the empty query that ends a stream; with two slots one can be lost
and the other used. One edit of the table list is
under way at a time: two concurrent edits are a hazard of their own (listed, not modelled). In
`job_races` one start suffices, because redelivery gives the second task; restarts have their own run.
In `sessions`, `MaxEvents` bounds clicks, calls, page loads and access tokens that run out, `MaxFaults`
lost replies, deaths, expiries and the disabling of the account, and `MaxToken` the tokens; `TypeOK` says
that the last one is never what stops a request. Three events make the races: two calls that find one
token stale, a call and a page load, a refresh and a logout, two tabs. In `directory` two requests
overlap and a third comes before or after; `Verdicts` has one status that admits and one that does not,
since `core/deps.py` tests for APPROVED only. A deletion, a creation and the request that decides who
owns what make three. In `table_copy` `SampleSize` is 1 instead of 100, so that the documents past the
sample are the second and third; the tables have two or three rows and columns, which is what two
filter conditions, a renamed, a colliding, a missing and an odd name need; types come one at a time, and so do
names that need quotes, schemas, explicit nulls and columns that become an `_id`. A table of somebody else
holds one row at most, which collides with the first row of the source or does not.
Each property has a mutant: a plausible bug in one definition that makes TLC find it violated under
the same bounds. Symmetry (workers, requests) is used in safety runs only.
`CHECK_DEADLOCK FALSE` stands where clients may simply stop calling or a call returns for good.

**What the runs leave out, because it breaks the property.** These are facts about the code, found
with TLC while the instances were chosen:

* `job_one_worker` has no `worker_crash`: a claim can overwrite a cancel; if that worker then dies,
  the restarted one may drop the redelivered message as revoked, and the row says RUNNING for ever.
* `job_one_worker` has no `api_crash`: `start_migration` commits PENDING before it publishes; if the process dies
  in between, nothing can run, restart or delete the job (a cancel frees it).
* Neither `job_one_worker` nor `job_serial` has `dsn_raises`: `build_dsn` is called outside both `try` blocks,
  so its exception ends the
  task with the row RUNNING.
* `job_serial` has no failing enqueue: the compensation may write FAILED while an older message is
  about to run, which then takes the row from FAILED to RUNNING; no step of `ResumableJob` does that.
* `log_stream` sets `Overlap = FALSE`: with two tasks at once a smaller id can become visible after
  a stream has passed it, and `NoGap` fails.
* `CancelEndsCall` makes one exception, and `CancelStopsEngine` the same: an engine that closes its output
  and goes on is waited for without a timeout and without a poll. The reader thread brings the task
  there too if it fails on a line; then nobody empties the pipe, and an engine that goes on writing
  hangs on it.
* `ExitIsTheWholeStory` says less when the reader thread failed (the output was not UTF-8): the exit code
  comes with the last line and error of *some beginning* of what the engine wrote.
* `SlotsAreFreed` counts the generators that were never started: `_active_streams` is raised when the request
  is admitted and lowered in the generator's `finally`, so a request that ends in between (its commit
  fails, its client has left) loses its slot until the process restarts.
* `OneHead` leaves out families in which two rotations overlapped, and `ClosedForGood` closings that a
  rotation came across: two refreshes with one token both pass the check of `revoked`, and a refresh in
  flight inserts its token after the logout has revoked the others.
* `StaysSignedIn` leaves out faults, refreshes that the rate limit refused (the pages take a 429 for the end
  of the session) and two requests with the cookie at a time: two tabs that refresh at
  once, a page loaded again during a refresh or a reply that left before its commit can look like a
  stolen token and close the session.
* `AdminRemains` leaves out requests whose acting account changed after it was read: two administrators
  may demote, disable or delete each other at once. It starts with the first administrator: if somebody
  registers before the bootstrap has a good password, `bootstrap_first_admin` never seeds one.
* `UsesAreEntitled` is about the moment the use begins: who loses his rights keeps the credentials in
  use until the test or the task ends.
* A deletion of a user fails as a whole if one of his connections is used by another's migration that
  was not loaded with it; and it takes his own migrations along even while a task runs them.
* `AllColumnsArrive` leaves out drafts that were edited and whole documents under new names: a mapping
  without a selection is ignored for MongoDB targets.
* `CountIsTheCopy` leaves out collections without a filter: `count_rows` asks for an estimate.
* `CopiesTheSelection` leaves out two conditions on one column with one operator for MongoDB, where the
  second takes the place of the first. Under `on_conflict: skip` it does not demand every row (`SkipLoses`)
  if the key was cut down to the copied columns, if the table is not the task's own (its key is anybody's,
  and rows may be there), or if, with MySQL and SQLite, some row does not fit: IGNORE and OR IGNORE pass
  over NULLs and lengths as well as keys. No form of skip adds a row that was not selected.
* `AllColumnsArrive` leaves out, for the same reason, the rows that IGNORE alters.
* `AcceptedIsCopied` lists in `KnownReason` why an accepted table may fail: names with dots or spaces pass
  the schemas and not discovery or DDL; `in` and `nin` accept a scalar or an empty list, `like` a number;
  two fields under one name; a key that is cut, is JSON in MySQL, or has a NULL in SQLite (`NullInKey`); a
  field that no sampled document has, or the first as a null, planned as a text (`Unsampled`); types that are narrowed
  (`Lost`: unsigned integers, wide numerics, SQLite's INTEGER, long strings and time zones for MySQL,
  wrapped BSON values); names in mixed case on
  PostgreSQL and words of SQL, which discovery, DDL and count quote and the engine does not
  (`UnquotedName`); a connection with a schema (`OtherSchema`); a table of somebody else that has a key,
  needs a value or lacks a column (`OthersTable`); a collection that has documents, or another column for
  its `_id` (`ForeignId`). TLC finds a table for each of them: without any one the property is false.

**Fairness.** `FairSpec` of `MigrationSystem` is weakly fair to each request under way, each worker's
next step, each poll while the engine's output is open, and the redelivery of an unacknowledged message:
the event loop, the Celery worker, the two-second tick and the visibility timeout. Once the output has
ended there is no poll, and a worker in `wait` need not go on at all. Nothing obliges a client to call, a process
to die or an engine to exit. That engines exit is the hypothesis `EnginesExit` of
`EverySubmissionSettles`; `CancelStopsEngine` does without it, and speaks of engines with an open output.
`EngineStream` is fair to the task,
the reader thread and the delivery of a SIGKILL, and not to the engine. `LogStream` is fair to each
open stream (the event loop) and to nobody else. `BrowserSession` is weakly fair to the server's work on a
request together with its reply, and to the interceptor: the event loops of server and page. A lost
reply is an error for whoever waits for it, as axios makes it; nothing obliges users, time or
administrators to do anything. `Directory` and `TableCopy` state safety only.

## 4. Findings

1. **A cancel can be lost** (`job_cancel_overwritten`). The worker tests the status it loaded and
   writes RUNNING, FAILED or COMPLETED later without reading the row again; a cancel that commits in
   between is overwritten, although `models/enums.py` calls CANCELLED terminal.
2. **A restart can undo a finished table** (`job_restart_recopies`). `start_migration` resets the
   tables it loaded as not DONE; a worker that has not noticed the cancel yet may store DONE in
   between, and the table is copied a second time.
3. **A log stream can end before its last lines** (`log_stream_ends_early`). Logs and status are read
   in this order, in two sessions; lines committed in between are never sent, not even those the
   task committed before it completed.

Three more disagreements were met while `TableCopy` was written; the properties name them as exceptions:

* `src/README.md:134` and the comment at `services/migration_service.py:102` say that copies from MongoDB
  into SQL require explicit columns. `update_migration` replaces the tables of a draft without that
  check, so a field that no sampled document has is left out without a word (`AllColumnsArrive`).
* `services/ddl_generator.py:15` says that a key is preserved when every key column is copied. If only
  some are, the key is not left out but cut down to them (`KeyCut`).
* `services/ddl_generator.py:11` says that a planned type can hold the source's values. MySQL's and
  SQLite's integers, wide numerics, and long strings in MySQL are planned narrower (`Lost`).

## 5. What is proved

All proofs are checked by TLAPS from these assumptions on the constants only: `NumTables` is a
positive natural number, `Rows` is a function of the tables to naturals, `PipeSize` and `LogBatch` are
positive, `Viewers` is finite, `Overlap` is a Boolean, the bounds are natural numbers, the staff have roles
and one of them is an administrator, `Nobody` is no account, and a request is not a migration (both are
members of one history variable); pages make the call for the profile (`"me"`), and no tab is called
`"none"`, which stands for "nobody waits"; `SampleSize` is positive, and a job of `TableCopy` is a table
(columns with different names, rows with a value for each of them, and, if there is a key, no two rows
that agree in it, NULLs aside) with a request for it (`JobsAssumption`), of types that the engine has and
with values in the columns that are not nullable (`TypesAssumption`). TLC evaluates each of them in the
runs. Nothing is assumed about how many workers, requests, tasks, clients, accounts, connections or tabs
there are, nor about which faults occur; what single theorems assume beyond this is named with them.

**Migration jobs** (`MigrationSystemProofs`). `TypeCorrect`, `DoneTablesAreCopied`,
`CheckpointsAreCopied`, `CompletedJobsAreCopied`, from `Invariance`: `IInv` (in `MigrationSystem`) is
inductive. The three promises are not inductive alone. A worker writes DONE and COMPLETED from what
its session believes, which may be hours old, so `SessionInv` says that whatever a session believes
finished *was* copied, for the generation of table rows it loaded: the tables its loop has passed,
those it holds as DONE, and the one it is storing. Beliefs may be stale, but "copied" never becomes
false again; this is why two workers with sessions of different age do no harm to these properties.
`PositionInv` ties a worker's position to the rows it loaded, `BrokerInv` and `RequestInv` bound the
ids in circulation. The lemmas classify what a step does to the database (`ClaimsLess`: it claims
nothing new) and to a worker, and each action cites the ones it is made of.

**Two deployments** (`MigrationDeploymentProofs`). The promises of `job_serial` and `job_one_worker` are
false if everything may happen at once, so the theorems have the deployment as a hypothesis on the
constants: which actors there are one of, which endpoints are called, which faults are out. For the
rest nothing is bounded, and the constants of the two runs satisfy the hypotheses.

* `SerialDeployment`: one worker, and one request at a time that edits, starts or retries; every failure
  but a failing enqueue, and processes may die. `SerialInvariance`: the session *is* the database
  (`SessionIsFresh`), although a task that runs a second time finds any mixture of statuses and nothing is
  locked; so the loop's position can be read off the rows (`LoopIsAt`), and a table that is counted again
  after a retry adds to the total and not to what was processed (`SerialCounts`). Hence
  `CompletedJobsAreDone`, `DoneTablesStayDone`, `ProcessedRowsAddUp`, `ProgressWithinTotal`, and
  `SystemImplementsJob`, the refinement of `ResumableJob`, step by step. The sums of the counters are folds
  over sets; what the proofs need of them (one member more, the sum over a part is no greater) is shown
  by taking a smallest set that would be a counterexample.
* `OneWorkerDeployment`: one worker and any number of requests that start, cancel and delete; an enqueue may
  fail, or be heard of as failed although it was not. `OneWorkerInvariance`: a job that is PENDING or RUNNING
  has a start that has yet to publish or record, a worker in the middle of it, or a message that no worker
  will drop (`SomebodyWorks`). The hard case is a cancel: it revokes the id it has *read*, which may be
  older than the start that is under way, and the id that is revoked must not be the one that the next
  RUNNING rests on (`FreshIds`, `NotRevoked`). Hence `NoJobIsStranded`.

Each condition is there because the theorem is false without it: an enqueue that fails lets the
compensation overwrite the row of a job that an older message runs (`SerialDeployment`); a worker that dies
after a cancel was overwritten leaves a message that is dropped as revoked, an API that dies before it
publishes leaves nobody, and so does an exception of `build_dsn` (`OneWorkerDeployment`; section 3). With two
workers or two requests the races of section 4 begin. TLC checked both invariants
on the instances of the two runs.

**An engine run** (`EngineStreamProofs`). `StreamInvariance`: the lines written are those the task took
in, those in the queue and those in the pipe, in this order (`Conveyed`), and what the task remembers is
the last line and the last error line of those it took in; after a failure of the reader they are a
beginning of what was written. Hence `ExitCodeComesLast`, for any number of lines and any pipe;
`NoEngineIsOrphaned`; and `CallImplementsEngineRun`, the refinement that justifies the
single engine state of `MigrationWorker`.

**The log stream** (`LogStreamProofs`). `LogInvariance`: while tasks do not overlap, at most one row is
drawn and not committed, its id is above all visible ones, and every cursor stands on a row that was
sent; so a commit never falls behind a cursor. Hence `TailSkipsNothing` and `EndedStreamsAreDrained`.
They have `~Overlap` as a hypothesis, since they are false without it. `SlotsAreCounted` holds with
or without overlap: the counter is the number of streams that were admitted and have not ended, and of
generators that never started.

**Sessions** (`SessionsProofs`, `BrowserSessionProofs`). `SessionsInvariance`: a token that is being
issued is fresh (`Rows`), a request keeps what it read (`Shape`), outside of raced families at most one
rotation is under way and it holds the only token that can be live (`Heads`), and a closing request
that no rotation came across will revoke all that is live (`Snapshots`, `Closed`). Neither promise is
inductive without `Heads` and `Snapshots`: what a commit writes was decided at the reads, and others
committed since. Hence `OneLiveToken` and `ClosedSessionsStayClosed`, against a client that may present
any token ever issued. `BrowserIsClient` shows that the composition with the pages implements
`SessionsSpec`, so both hold of the browser too.

`NobodyIsSignedOut` is about the interplay: as long as there was no fault, no refresh was
refused for the rate limit, and no two requests carried the cookie at a time, no refresh that carries it
fails, for any number of tabs and calls. Its invariant (`Quiet`)
says that, undisturbed, requests that carry the cookie go one by one but for logouts (`Lone`); that the token in
the jar is not revoked and not about to be, or else a request that will replace or clear it is on its way
(`Jar`); that a refresh presents such a token until it is decided and is granted then (`BearerFits`), with a new one
that is good itself (`Grants`); and that nobody but its own reply has the token of a login (`Secret`). TLC
checked `Quiet` on the states of `sessions`.
`BrowserTypes` proves the types, and that `MaxToken` is never what stops a request, if it leaves room for one
token per event (`MaxEvents + 1 < MaxToken`, as in the run). That is an accounting (`Paid`): tokens issued,
requests that have not been decided and calls that have yet to ask for a refresh are together at most
one more than the events, because a refresh by the interceptor uses up the call that it is for.

**Accounts and the directory** (`DirectoryProofs`). `AnAdminRemains` from `AInv`: a
request is about another account than the one it acts for, and while nobody has touched the latter it is
an administrator's (`Acting`); so whoever is demoted, disabled or deleted, the one who did it is left.
`DirectoryIsAdministration` shows that the directory implements `AccountsSpec`: connections and
migrations restrict the deletion of accounts and nothing else. `DirectoryInvariance` adds the foreign
keys (`Keys`), and that a request or task whose account has not changed still stands on what it read
(`Dealings`); hence `RowsReferToRows`, `CredentialsForTheEntitled` and, as an action property,
`MigrationsOutlast`. The keys need that an identifier that is not in use names nobody: a connection
can be created between the reads and the commit of its owner's deletion.

**The copy of a table** (`TableCopyProofs`). For any jobs, rows, conditions, mappings and sample size, with
an owner who drops columns or tables and a stranger who creates the target at any moment:
`CountsWhatIsCopied`, `TheSelectionIsCopied`, `EveryColumnArrives` and `CopyTypes`, from `CopyInvariance`. `CInv`
says that the source is the accepted one apart from columns that are gone, with its key if any column
of it is left (`SourceInv`); that the pairs of fields are those of the request, or one for each column that
was discovered; that a target this task created is empty and has the columns of its own plan; and that what the
engine has stored is what the statement it was given selects, less what the insert may leave out and
altered as it may alter it. TLC checked it on the jobs of `table_copy`.

* *Conditions.* The driver and the engine get a list of clauses with placeholders and one flat list of
  values. `RenderedSelects`: the clauses find their own values in it, so both renderings select the rows
  that the conditions mean. This is an induction over the conditions; it is stated about the least place
  where a prefix of the list would be wrong, since the induction theorems of the library are out of the
  provers' reach. `FlattenSeq` and the positions of the values are recursive functions, so that they exist
  at all is proved in the same way.
* *Keys.* `KeysStayApart`: rows that differ in a whole key that is copied stay apart in the target; together
  with `PlannedKey` this leaves, in a table of the task's own, a key that was cut down (`KeyCut`) as the only way
  to lose a selected row that fits.
* *Columns.* `StoredField`: with targets that are all different, each pair has a field of its own.

`AcceptedTablesAreCopied` is about the copies that fail. While nobody changes the databases (`UInv`), the columns
of the target are those planned from what discovery saw, or somebody else's, unless a connection names a
schema, and each step that can fail is
traced to a reason: `DiscoveryFails`, `CreationFails`, `InputFails`, `InsertFails`. The long part are the types.
`PostgresMeans`, `MysqlMeans`, `SqliteMeans` and `MongoMeans` evaluate each type map, type by type;
`OrdinaryValues` says that what is not `Lost` is an ordinary value of its canonical type, and
`PostgresTakes`, `MysqlTakes`, `SqliteTakes` that the planned type takes the ordinary values. So four maps
into and three out of the canonical types make a proof for all twelve pairs of engines (`TypesFit`). What a
native type may hold (`ColumnValues`) is the reference that this is relative to.

**Model-checked only.** Liveness (`EverySubmissionSettles`, `CancelStopsEngine`, `CancelEndsCall`,
`LinesArrive`, `StreamsClose`, `CallsSettle`): the prover has no rules for fairness and ENABLED. Every other
property of a passing run is a theorem.

## 6. What is not modelled, and why

* **Egress guard** (`core/netguard.py`): a stateless decision on one address or path that rests on the
  address classes of the standard library. There is nothing to interleave; that it may raise in the
  middle of a task is modelled (`dsn_raises`).
* **Credential encryption** (`core/crypto.py`), hashing, JWT encoding: library calls.
* **Concurrent edits of one table list**: two edits that overlap leave both lists. The rows of
  `JobStore` have one generation at a time; mixed ones would change every module that works on tables.
* **`update_connection`** changes neither owner nor engine, so nothing that is modelled depends on it.
  That a running task keeps the settings it has read follows from its one load.
* **Unsaved settings** (`/connections/test`), `list_tables`, the read endpoints: no state.
* **The client side of the log stream** (a reload after an error, the de-duplication by id) and the
  wizard, the detail page and the other pages: forms and polling over endpoints that decide everything
  themselves, and rendering.
* **Several migrations for one worker**: the rows of two migrations are disjoint and a worker runs one
  task at a time, so a second migration only delays the first.
* **Middleware, settings, the result backend of Celery, pools**: libraries. Of the rate limits of the auth
  routes only the outcome is modelled: a login (denied) or a refresh (429) that is refused.
* **Another table under the same name**: which table an unqualified or unquoted name reaches when it is not
  the one that was discovered, and what is in it.
* **Alembic**: one-off DDL; the constraints it creates are those of the models, which are modelled.

What a next step would be: concurrent edits of a table list; the client side of the stream composed with
`LogStream`; a deployment with cancels in which the refinement of `ResumableJob` holds up to the cancel.
