---------------------------- MODULE KeyRegistration ----------------------------
(***************************************************************************)
(* How a vault becomes one the fee loop visits: HandleReshareDKLS          *)
(* (internal/fee/reshare.go) runs as a queued task, saves the vault share  *)
(* through the vault service, then inserts the public key into the table   *)
(* plugin_keys (internal/storage/postgres/fees.go).  The queue, the vault  *)
(* service and Postgres are external code, modelled from how the worker    *)
(* uses them: a handler that returns an error is run again from its        *)
(* beginning, a bounded number of times; so is one whose process died; a   *)
(* task that may not be retried is archived for an operator.               *)
(***************************************************************************)
EXTENDS Integers, FiniteSets, Sequences

CONSTANTS
  Tasks,      \* reshare tasks
  Keys,       \* public keys
  KeyOf,      \* KeyOf[t]: the key in the payload of task t
  Slots,      \* handlers that run at the same time: asynq Concurrency
  MaxRetry,   \* retries the queue grants a task
  MaxFaults   \* bound: calls that fail

ASSUME RegistrationAssumption ==
  /\ KeyOf \in [Tasks -> Keys]
  /\ Slots \in Nat
  /\ MaxRetry \in Nat
  /\ MaxFaults \in Nat

VARIABLES
  task,     \* task[t]: state of t in the queue
  step,     \* step[t]: where the handler of t is
  retried,  \* retried[t]: retries used up
  dead,     \* tasks whose handler died with its process, unnoticed so far
  vaults,   \* keys whose share is in the block storage
  table,    \* plugin_keys: the keys in the order their rows were stored
  faults    \* failures so far

registrationVars == <<task, step, retried, dead, vaults, table, faults>>

QueueStates == {"absent", "waiting", "active", "done", "archived"}
Steps == {"none", "reshare", "saved", "inserted"}

TypeOK ==
  /\ task \in [Tasks -> QueueStates]
  /\ step \in [Tasks -> Steps]
  /\ retried \in [Tasks -> 0 .. MaxRetry]
  /\ dead \subseteq Tasks
  /\ vaults \subseteq Keys
  /\ table \in Seq(Keys)
  /\ faults \in 0 .. MaxFaults

Init ==
  /\ task = [t \in Tasks |-> "absent"]
  /\ step = [t \in Tasks |-> "none"]
  /\ retried = [t \in Tasks |-> 0]
  /\ dead = {}
  /\ vaults = {}
  /\ table = << >>
  /\ faults = 0

-----------------------------------------------------------------------------
(* What GetPublicKeys reads.  The statement has no ORDER BY: the keys come *)
(* in whatever order the rows are stored.                                  *)
Registered == {table[i] : i \in 1 .. Len(table)}

(* Tasks a handler works on. *)
Active == {t \in Tasks : task[t] = "active"} \ dead

Fault ==
  /\ faults < MaxFaults
  /\ faults' = faults + 1

(* Faulty variant: the queue does not count to its limit. *)
FailedForEver(t, skipRetry) ==
  /\ step' = [step EXCEPT ![t] = "none"]
  /\ task' = [task EXCEPT ![t] = IF skipRetry THEN "archived" ELSE "waiting"]
  /\ retried' = [retried EXCEPT ![t] = @ + 1]

(* The handler of t returned an error: the queue runs t again unless it    *)
(* has used up its retries or the error says SkipRetry.                    *)
Failed(t, skipRetry) ==
  /\ step' = [step EXCEPT ![t] = "none"]
  /\ IF skipRetry \/ retried[t] = MaxRetry
       THEN task' = [task EXCEPT ![t] = "archived"] /\ UNCHANGED retried
       ELSE /\ task' = [task EXCEPT ![t] = "waiting"]
            /\ retried' = [retried EXCEPT ![t] = @ + 1]

-----------------------------------------------------------------------------
(* The server enqueues a reshare. *)
Enqueue(t) ==
  /\ task[t] = "absent"
  /\ task' = [task EXCEPT ![t] = "waiting"]
  /\ UNCHANGED <<step, retried, dead, vaults, table, faults>>

(* The queue hands t to a free handler, which calls the vault service. *)
Begin(t) ==
  /\ task[t] = "waiting"
  /\ Cardinality(Active) < Slots
  /\ task' = [task EXCEPT ![t] = "active"]
  /\ step' = [step EXCEPT ![t] = "reshare"]
  /\ UNCHANGED <<retried, dead, vaults, table, faults>>

(* vaultService.HandleReshareDKLS stores the share.  An upload that was on *)
(* its way when the process died is stored as well.                        *)
SaveShare(t) ==
  /\ step[t] = "reshare"
  /\ vaults' = vaults \cup {KeyOf[t]}
  /\ step' = [step EXCEPT ![t] = "saved"]
  /\ UNCHANGED <<task, retried, dead, table, faults>>

(* Faulty variant: the error of the vault service is dropped. *)
ReshareErrorIgnored(t) ==
  /\ step[t] = "reshare"
  /\ t \notin dead
  /\ Fault
  /\ step' = [step EXCEPT ![t] = "saved"]
  /\ UNCHANGED <<task, retried, dead, vaults, table>>

(* vaultService.HandleReshareDKLS returned an error, before or after the   *)
(* share was stored, or the payload does not decode.                       *)
ReshareFails(t) ==
  /\ step[t] \in {"reshare", "saved"}
  /\ t \notin dead
  /\ Fault
  /\ \E skipRetry \in BOOLEAN : Failed(t, skipRetry)
  /\ UNCHANGED <<dead, vaults, table>>

(* Faulty variant: a plain INSERT into a table without the constraint. *)
StoredAgain(t) == Append(table, KeyOf[t])

(* ON CONFLICT (public_key) DO NOTHING: a key that is there stays as it is.*)
Stored(t) == IF KeyOf[t] \in Registered THEN table ELSE Append(table, KeyOf[t])

(* The share is stored and InsertPublicKey was called: its statement takes *)
(* effect, even if the process that sent it has died.                      *)
InsertRow(t) ==
  /\ step[t] = "saved"
  /\ table' = Stored(t)
  /\ step' = [step EXCEPT ![t] = "inserted"]
  /\ UNCHANGED <<task, retried, dead, vaults, faults>>

(* InsertPublicKey and the handler return nil: the task is done. *)
InsertOK(t) ==
  /\ step[t] = "inserted"
  /\ t \notin dead
  /\ task' = [task EXCEPT ![t] = "done"]
  /\ step' = [step EXCEPT ![t] = "none"]
  /\ UNCHANGED <<retried, dead, vaults, table, faults>>

(* Faulty variant: the error of InsertPublicKey is logged and dropped. *)
InsertErrorIgnored(t) ==
  /\ step[t] \in {"saved", "inserted"}
  /\ t \notin dead
  /\ Fault
  /\ task' = [task EXCEPT ![t] = "done"]
  /\ step' = [step EXCEPT ![t] = "none"]
  /\ UNCHANGED <<retried, dead, vaults, table>>

(* InsertPublicKey returned an error, before or after the row was stored:  *)
(* the handler returns it and the whole task is run again.                 *)
InsertFails(t) ==
  /\ step[t] \in {"saved", "inserted"}
  /\ t \notin dead
  /\ Fault
  /\ Failed(t, FALSE)
  /\ UNCHANGED <<dead, vaults, table>>

(* A process ends, and the handlers S it ran with it. *)
Die(S) ==
  /\ S \subseteq Active
  /\ dead' = dead \cup S
  /\ UNCHANGED <<task, step, retried, vaults, table, faults>>

(* A task whose handler died runs again: handed back to the queue by a     *)
(* process that was told to end, or failed once its lease has run out.     *)
Recover(t) ==
  /\ t \in dead
  /\ dead' = dead \ {t}
  /\ \/ /\ task' = [task EXCEPT ![t] = "waiting"]
        /\ step' = [step EXCEPT ![t] = "none"]
        /\ UNCHANGED retried
     \/ Failed(t, FALSE)
  /\ UNCHANGED <<vaults, table, faults>>

HandlerStep(t) ==
  \/ Begin(t)
  \/ SaveShare(t)
  \/ ReshareFails(t)
  \/ InsertRow(t)
  \/ InsertOK(t)
  \/ InsertFails(t)
  \/ Recover(t)

Next ==
  \/ \E t \in Tasks : Enqueue(t) \/ HandlerStep(t)
  \/ \E S \in SUBSET Active : Die(S)

Spec == Init /\ [][Next]_registrationVars

-----------------------------------------------------------------------------
(* The fee loop never visits a key without a vault: getVaultForPubKey      *)
(* finds the share of every key GetPublicKeys lists.                       *)
RegisteredHasVault == Registered \subseteq vaults

(* A task the queue has forgotten left its key registered: a failure       *)
(* between saving the share and inserting the key is never the end of it.  *)
DoneIsRegistered == \A t \in Tasks : task[t] = "done" => KeyOf[t] \in Registered

(* A vault is visited once per cycle, however often and by however many    *)
(* handlers at a time its key was inserted.                                *)
RowsDistinct == \A i, j \in 1 .. Len(table) : table[i] = table[j] => i = j

(* The task of k that an operator has to look at. *)
Archived(k) == \E t \in Tasks : KeyOf[t] = k /\ task[t] = "archived"

(* A share that was saved leads to a registered key, or to an archived     *)
(* task an operator can see.                                               *)
SavedIsRegistered == \A k \in Keys : (k \in vaults) ~> (k \in Registered \/ Archived(k))

-----------------------------------------------------------------------------
(* The inductive invariant: a handler past the vault service has its share *)
(* stored, one past its statement has its row.                             *)
StepHasEffect ==
  \A t \in Tasks :
    /\ step[t] \in {"saved", "inserted"} => KeyOf[t] \in vaults
    /\ step[t] = "inserted" => KeyOf[t] \in Registered

Inv ==
  /\ TypeOK
  /\ StepHasEffect
  /\ RegisteredHasVault
  /\ DoneIsRegistered
  /\ RowsDistinct
=============================================================================
