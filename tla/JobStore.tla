------------------------------ MODULE JobStore ------------------------------
(***************************************************************************)
(* One migration as PostgreSQL stores it: its row in migrations, the rows  *)
(* of its tables in migration_tables, and its migration_checkpoints.       *)
(* Sessions are opened at READ COMMITTED and take no row lock, so what a   *)
(* process loads may be stale by the time it commits.                      *)
(*                                                                         *)
(* A session writes only the columns whose value differs from the one it   *)
(* loaded, and its commit fails if a row it updates is gone.  Both facts   *)
(* decide what the races below can do, so every write here is of the form  *)
(* "the loaded value differs, and the row still exists".                   *)
(***************************************************************************)
EXTENDS Enums, Naturals, FiniteSets, FiniteSetsExt

CONSTANTS NumTables,  \* the tables of the migration, in order_index order
          Rows,       \* Rows[t]: what COUNT(*) returns for table t
          MaxStarts,  \* bound: start requests that pass the status check
          MaxEdits,   \* bound: edits of the table list
          Faults      \* which faults of the surroundings happen

Tables == 1..NumTables
TaskIdSpace == 1..MaxStarts
Editions == 1..(MaxEdits + 1)

ASSUME NumTablesAssumption == NumTables \in Nat \ {0}
ASSUME RowsAssumption == Rows \in [Tables -> Nat]
ASSUME MaxStartsAssumption == MaxStarts \in Nat
ASSUME MaxEditsAssumption == MaxEdits \in Nat

VARIABLES
    status,       \* migrations.status, or Deleted when the row is gone
    taskId,       \* migrations.celery_task_id, 0 for NULL
    total,        \* migrations.total_rows
    processed,    \* migrations.processed_rows
    tables,       \* tables[t]: migration_tables.status
    rowsTotal,    \* migration_tables.rows_total
    rowsDone,     \* migration_tables.rows_processed
    edition,      \* which generation of migration_tables rows exists: an edit
                  \* deletes the rows and inserts new ones with new keys
    checkpoints   \* tables that have a migration_checkpoints row

storeVars == <<status, taskId, total, processed, tables, rowsTotal, rowsDone,
               edition, checkpoints>>

StoreTypeOK ==
    /\ status \in MigrationStatus \cup {Deleted}
    /\ taskId \in TaskIdSpace \cup {0}
    /\ total \in Nat
    /\ processed \in Nat
    /\ tables \in [Tables -> TableStatus]
    /\ rowsTotal \in [Tables -> Nat]
    /\ rowsDone \in [Tables -> Nat]
    /\ edition \in Editions
    /\ checkpoints \in SUBSET Tables

(* create_migration has committed: a draft whose tables are all pending.   *)
StoreInit ==
    /\ status = "draft"
    /\ taskId = 0
    /\ total = 0
    /\ processed = 0
    /\ tables = [t \in Tables |-> "pending"]
    /\ rowsTotal = [t \in Tables |-> 0]
    /\ rowsDone = [t \in Tables |-> 0]
    /\ edition = 1
    /\ checkpoints = {}

RowExists == status # Deleted

(* The table rows a session loaded as generation e can still be updated.   *)
TableRowsExist(e) == RowExists /\ edition = e

(* A write of the migration row that leaves everything else alone.         *)
SetStatus(s) ==
    /\ status' = s
    /\ UNCHANGED <<taskId, total, processed, tables, rowsTotal, rowsDone,
                   edition, checkpoints>>

(* Deleting the row takes its tables and checkpoints with it.              *)
DropRow ==
    /\ status' = Deleted
    /\ taskId' = 0
    /\ total' = 0
    /\ processed' = 0
    /\ tables' = [t \in Tables |-> "pending"]
    /\ rowsTotal' = [t \in Tables |-> 0]
    /\ rowsDone' = [t \in Tables |-> 0]
    /\ checkpoints' = {}
    /\ UNCHANGED edition

SumOver(f, S) == MapThenSumSet(LAMBDA t : f[t], S)

==============================================================================
