---------------------------- MODULE SchemaMigration ----------------------------
(***************************************************************************)
(* Start-up of worker processes on one database: NewPostgresBackend runs   *)
(* the migration that creates plugin_keys (internal/storage/postgres), and *)
(* main ends the process when it fails; the platform starts it again.      *)
(* During a rolling update two processes do so at the same time.           *)
(*                                                                         *)
(* goose, external code, runs a migration in a transaction that also       *)
(* records its version.  The migration file carries a BEGIN and an END of  *)
(* its own: the BEGIN is a warning inside goose's transaction, the END     *)
(* commits that transaction, and the version is recorded after it.         *)
(***************************************************************************)
EXTENDS Naturals

CONSTANTS
  Processes,     \* worker processes
  MaxCrashes,    \* bound: processes that end during start-up
  MaxCutShort    \* bound: those of them that end between END and the version

ASSUME MigrationAssumption == MaxCrashes \in Nat /\ MaxCutShort \in Nat

VARIABLES
  pc,             \* pc[p]: where process p is
  versionTable,   \* the table goose_db_version exists
  table,          \* the table plugin_keys exists
  recorded,       \* the migration is in goose_db_version
  crashes,        \* processes ended so far
  cutShort        \* those ended between END and the version

vars == <<pc, versionTable, table, recorded, crashes, cutShort>>

Locations == {"down", "ensure", "createVersions", "collect", "statement", "version", "up"}

TypeOK ==
  /\ pc \in [Processes -> Locations]
  /\ versionTable \in BOOLEAN
  /\ table \in BOOLEAN
  /\ recorded \in BOOLEAN
  /\ crashes \in 0 .. MaxCrashes
  /\ cutShort \in 0 .. MaxCutShort

Init ==
  /\ pc = [p \in Processes |-> "down"]
  /\ versionTable = FALSE
  /\ table = FALSE
  /\ recorded = FALSE
  /\ crashes = 0
  /\ cutShort = 0

-----------------------------------------------------------------------------
Goto(p, l) == pc' = [pc EXCEPT ![p] = l]

(* main reaches NewPostgresBackend. *)
Start(p) ==
  /\ pc[p] = "down"
  /\ Goto(p, "ensure")
  /\ UNCHANGED <<versionTable, table, recorded, crashes, cutShort>>

(* goose looks for its version table. *)
EnsureVersionTable(p) ==
  /\ pc[p] = "ensure"
  /\ Goto(p, IF versionTable THEN "collect" ELSE "createVersions")
  /\ UNCHANGED <<versionTable, table, recorded, crashes, cutShort>>

CreateVersionTable(p) ==
  /\ pc[p] = "createVersions"
  /\ ~versionTable
  /\ versionTable' = TRUE
  /\ Goto(p, "collect")
  /\ UNCHANGED <<table, recorded, crashes, cutShort>>

(* Faulty variant: every migration is taken for missing. *)
CollectAll(p) ==
  /\ pc[p] = "collect"
  /\ Goto(p, "statement")
  /\ UNCHANGED <<versionTable, table, recorded, crashes, cutShort>>

(* goose compares the versions recorded with the files embedded. *)
CollectMigrations(p) ==
  /\ pc[p] = "collect"
  /\ Goto(p, IF recorded THEN "up" ELSE "statement")
  /\ UNCHANGED <<versionTable, table, recorded, crashes, cutShort>>

(* Faulty variant: the version is recorded before the file runs. *)
RecordFirst(p) ==
  /\ pc[p] = "statement"
  /\ ~table
  /\ recorded' = TRUE
  /\ Goto(p, "version")
  /\ UNCHANGED <<versionTable, table, crashes, cutShort>>

(* Faulty variant: the file runs and the process forgets the version. *)
RunUnversioned(p) ==
  /\ pc[p] = "statement"
  /\ ~table
  /\ table' = TRUE
  /\ Goto(p, "up")
  /\ UNCHANGED <<versionTable, recorded, crashes, cutShort>>

(* The whole file runs, up to and with its END. *)
RunStatement(p) ==
  /\ pc[p] = "statement"
  /\ ~table
  /\ table' = TRUE
  /\ Goto(p, "version")
  /\ UNCHANGED <<versionTable, recorded, crashes, cutShort>>

InsertVersion(p) ==
  /\ pc[p] = "version"
  /\ recorded' = TRUE
  /\ Goto(p, "up")
  /\ UNCHANGED <<versionTable, table, crashes, cutShort>>

(* Faulty variant: the error is logged and the process goes on without a   *)
(* database.                                                               *)
MigrationErrorLogged(p) ==
  /\ \/ pc[p] = "createVersions" /\ versionTable
     \/ pc[p] = "statement" /\ table
  /\ Goto(p, "unmigrated")
  /\ UNCHANGED <<versionTable, table, recorded, crashes, cutShort>>

(* CREATE TABLE met a table another process had created: the migration     *)
(* fails and logger.Fatalf ends the process.                               *)
MigrationFails(p) ==
  /\ \/ pc[p] = "createVersions" /\ versionTable
     \/ pc[p] = "statement" /\ table
  /\ Goto(p, "down")
  /\ UNCHANGED <<versionTable, table, recorded, crashes, cutShort>>

(* The process ends, or loses its database, during start-up or later. *)
Crash(p) ==
  /\ pc[p] # "down"
  /\ crashes < MaxCrashes
  /\ crashes' = crashes + 1
  /\ IF pc[p] = "version"
       THEN cutShort < MaxCutShort /\ cutShort' = cutShort + 1
       ELSE UNCHANGED cutShort
  /\ Goto(p, "down")
  /\ UNCHANGED <<versionTable, table, recorded>>

StartUpStep(p) ==
  \/ Start(p)
  \/ EnsureVersionTable(p)
  \/ CreateVersionTable(p)
  \/ CollectMigrations(p)
  \/ RunStatement(p)
  \/ InsertVersion(p)
  \/ MigrationFails(p)

AllUp == \A p \in Processes : pc[p] = "up"

Next ==
  \/ \E p \in Processes : StartUpStep(p) \/ Crash(p)
  \/ AllUp /\ UNCHANGED vars

Spec == Init /\ [][Next]_vars

FairSpec == Spec /\ \A p \in Processes : WF_vars(StartUpStep(p))

-----------------------------------------------------------------------------
(* A process that runs, and a version that is recorded, has its table. *)
RunningHasTable ==
  recorded \/ (\E p \in Processes : pc[p] = "up") => table

(* A table no version is recorded for and nobody is about to record one    *)
(* for: every start from here on fails.                                    *)
Wedged == table /\ ~recorded /\ \A p \in Processes : pc[p] # "version"

(* Processes that race each other, or die anywhere else, never wedge the   *)
(* database: only an end between END and the version does.                 *)
WedgedOnlyByCutShort == Wedged => cutShort > 0

(* Whatever race or crash sends processes back to their start, each comes   *)
(* up again, unless the database is wedged, which no restart repairs.      *)
UpOrWedged == <>[]Wedged \/ \A p \in Processes : []<>(pc[p] = "up")

(* The inductive invariant: who is about to record a version has created   *)
(* the table.                                                              *)
VersionHasTable == \A p \in Processes : pc[p] = "version" => table

Inv ==
  /\ TypeOK
  /\ VersionHasTable
  /\ RunningHasTable
  /\ WedgedOnlyByCutShort
=============================================================================
