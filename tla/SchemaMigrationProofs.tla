------------------------- MODULE SchemaMigrationProofs -------------------------
(***************************************************************************)
(* Proofs about SchemaMigration, for every number of processes and every   *)
(* number of crashes.                                                      *)
(***************************************************************************)
EXTENDS SchemaMigration, TLAPS

LEMMA InitInv == Init => Inv
<1> SUFFICES ASSUME Init PROVE Inv
  OBVIOUS
<1>1. TypeOK
  <2>1. pc \in [Processes -> Locations]
    BY DEF Init, Locations
  <2>2. 0 \in 0 .. MaxCrashes /\ 0 \in 0 .. MaxCutShort
    BY MigrationAssumption DEF MigrationAssumption
  <2> QED BY <2>1, <2>2 DEF Init, TypeOK
<1>2. VersionHasTable /\ RunningHasTable /\ WedgedOnlyByCutShort
  BY DEF Init, VersionHasTable, RunningHasTable, WedgedOnlyByCutShort, Wedged
<1> QED BY <1>1, <1>2 DEF Inv

LEMMA StepInv == Inv /\ [Next]_vars => Inv'
<1> SUFFICES ASSUME Inv, [Next]_vars PROVE Inv'
  OBVIOUS
<1> USE MigrationAssumption
<1> USE DEF MigrationAssumption, Inv, TypeOK, Locations, VersionHasTable, RunningHasTable,
            WedgedOnlyByCutShort, Wedged, Goto
<1>1. ASSUME NEW p \in Processes, Start(p) PROVE Inv'
  BY <1>1 DEF Start
<1>2. ASSUME NEW p \in Processes, EnsureVersionTable(p) PROVE Inv'
  BY <1>2 DEF EnsureVersionTable
<1>3. ASSUME NEW p \in Processes, CreateVersionTable(p) PROVE Inv'
  BY <1>3 DEF CreateVersionTable
<1>4. ASSUME NEW p \in Processes, CollectMigrations(p) PROVE Inv'
  BY <1>4 DEF CollectMigrations
<1>5. ASSUME NEW p \in Processes, RunStatement(p) PROVE Inv'
  BY <1>5 DEF RunStatement
<1>6. ASSUME NEW p \in Processes, InsertVersion(p) PROVE Inv'
  BY <1>6 DEF InsertVersion
<1>7. ASSUME NEW p \in Processes, MigrationFails(p) PROVE Inv'
  BY <1>7 DEF MigrationFails
<1>8. ASSUME NEW p \in Processes, Crash(p) PROVE Inv'
  <2>1. CASE pc[p] = "version"
    BY <1>8, <2>1 DEF Crash
  <2>2. CASE pc[p] # "version"
    BY <1>8, <2>2 DEF Crash
  <2> QED BY <2>1, <2>2
<1>9. CASE UNCHANGED vars
  BY <1>9 DEF vars
<1> QED BY <1>1, <1>2, <1>3, <1>4, <1>5, <1>6, <1>7, <1>8, <1>9 DEF Next, StartUpStep

(* Every reachable state satisfies the inductive invariant.                *)
THEOREM Invariance == Spec => []Inv
<1>1. Init => Inv
  BY InitInv
<1>2. Inv /\ [Next]_vars => Inv'
  BY StepInv
<1> QED BY <1>1, <1>2, PTL DEF Spec

(* Every variable keeps its type.                                          *)
THEOREM TypeCorrect == Spec => []TypeOK
<1>1. Inv => TypeOK
  BY DEF Inv
<1> QED BY <1>1, Invariance, PTL

(* A worker that got past NewPostgresBackend finds the table plugin_keys,  *)
(* however many processes migrated at once and wherever they died.         *)
THEOREM RunningWorkersHaveTheirTable == Spec => []RunningHasTable
<1>1. Inv => RunningHasTable
  BY DEF Inv
<1> QED BY <1>1, Invariance, PTL

(* Only an end between the END of the migration file and the record of its *)
(* version leaves a database on which every later start fails.             *)
THEOREM RacesNeverWedge == Spec => []WedgedOnlyByCutShort
<1>1. Inv => WedgedOnlyByCutShort
  BY DEF Inv
<1> QED BY <1>1, Invariance, PTL
=============================================================================
