-------------------------------- MODULE Enums --------------------------------
(***************************************************************************)
(* The status vocabularies of app/models/enums.py.  Statuses are written   *)
(* as the strings the database stores.  Deleted is not a status of the     *)
(* code: it stands for "there is no such row in the migrations table".     *)
(***************************************************************************)

Deleted == "deleted"

MigrationStatus ==
    {"draft", "pending", "running", "completed", "failed", "cancelled"}

(* States from which a job may be (re)started.                             *)
STARTABLE_STATUSES == {"draft", "failed", "cancelled"}

(* The states the code calls terminal.                                     *)
TERMINAL_STATUSES == {"completed", "failed", "cancelled"}

(* "Queued or running": the test cancel_migration, delete_migration and    *)
(* run_migration make of a loaded row.                                     *)
Active == {"pending", "running"}

(* TableStatus.SKIPPED is declared by the code and assigned nowhere.       *)
TableStatus == {"pending", "running", "done", "failed"}

==============================================================================
