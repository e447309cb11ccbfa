--------------------------- MODULE MCSchemaMigration ---------------------------
(* Three processes start at the same time, three of their ends are crashes *)
(* and one of those falls between END and the version.                     *)
EXTENDS SchemaMigration
=============================================================================
