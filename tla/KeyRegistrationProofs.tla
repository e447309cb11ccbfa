------------------------- MODULE KeyRegistrationProofs -------------------------
(* Proofs about key registration, for any tasks, keys, number of handlers  *)
(* and retries.                                                            *)
EXTENDS KeyRegistration, TLAPS

(* Storing a key adds it to the registered keys, adds nothing else and     *)
(* keeps the rows distinct, whether or not the key was there.              *)
LEMMA StoredKey ==
  ASSUME Inv, NEW t \in Tasks, table' = Stored(t)
  PROVE  /\ table' \in Seq(Keys)
         /\ Registered' = Registered \cup {KeyOf[t]}
         /\ RowsDistinct'
<1>1. table \in Seq(Keys) /\ KeyOf[t] \in Keys
  BY RegistrationAssumption DEF Inv, TypeOK
<1>2. CASE KeyOf[t] \in Registered
  <2>1. table' = table
    BY <1>2 DEF Stored
  <2>2. QED BY <1>1, <1>2, <2>1 DEF Registered, RowsDistinct, Inv
<1>3. CASE KeyOf[t] \notin Registered
  <2> DEFINE n == Len(table)
  <2>1. table' = Append(table, KeyOf[t])
    BY <1>3 DEF Stored
  <2>2. /\ table' \in Seq(Keys) /\ Len(table') = n + 1 /\ n \in Nat
        /\ table'[n + 1] = KeyOf[t]
        /\ \A i \in 1 .. n : table'[i] = table[i]
    BY <1>1, <2>1
  <2>3. \A i \in 1 .. Len(table') : i \in 1 .. n \/ i = n + 1
    BY <2>2
  <2>4. Registered' = Registered \cup {KeyOf[t]}
    <3>1. ASSUME NEW k \in Registered' PROVE k \in Registered \cup {KeyOf[t]}
      BY <2>2, <2>3, <3>1 DEF Registered
    <3>2. ASSUME NEW k \in Registered PROVE k \in Registered'
      <4>1. PICK i \in 1 .. n : k = table[i]
        BY DEF Registered
      <4>2. i \in 1 .. Len(table') /\ table'[i] = k
        BY <2>2, <4>1
      <4>3. QED BY <4>2 DEF Registered
    <3>3. KeyOf[t] \in Registered'
      <4>1. n + 1 \in 1 .. Len(table') /\ table'[n + 1] = KeyOf[t]
        BY <2>2
      <4>2. QED BY <4>1 DEF Registered
    <3>4. QED BY <3>1, <3>2, <3>3
  <2>5. RowsDistinct'
    <3>1. \A i \in 1 .. n : table'[i] = table[i] /\ table[i] # KeyOf[t]
      BY <1>3, <2>2 DEF Registered
    <3>2. QED BY <2>2, <2>3, <3>1 DEF RowsDistinct, Inv
  <2>6. QED BY <2>2, <2>4, <2>5
<1>4. QED BY <1>2, <1>3

(* A step that leaves shares and rows alone keeps the invariant, if the    *)
(* tasks it finishes and the handlers it moves on have had their effects.  *)
LEMMA QueueStep ==
  ASSUME Inv, TypeOK', UNCHANGED <<vaults, table>>,
         \A u \in Tasks : task'[u] = "done" => task[u] = "done" \/ KeyOf[u] \in Registered,
         \A u \in Tasks : step'[u] \in {"saved", "inserted"} => step'[u] = step[u]
  PROVE  Inv'
BY DEF Inv, StepHasEffect, RegisteredHasVault, DoneIsRegistered, RowsDistinct, Registered

(* A task that failed is not done and its handler does nothing any more. *)
LEMMA FailedTask ==
  ASSUME Inv, NEW t \in Tasks, NEW skip \in BOOLEAN, Failed(t, skip)
  PROVE  /\ task' \in [Tasks -> QueueStates]
         /\ step' \in [Tasks -> Steps]
         /\ retried' \in [Tasks -> 0 .. MaxRetry]
         /\ \A u \in Tasks : task'[u] = "done" => task[u] = "done"
         /\ \A u \in Tasks : step'[u] \in {"saved", "inserted"} => step'[u] = step[u]
<1>1. step' = [step EXCEPT ![t] = "none"]
  BY DEF Failed
<1>2. step' \in [Tasks -> Steps] /\ \A u \in Tasks : step'[u] \in {"saved", "inserted"} => step'[u] = step[u]
  BY <1>1 DEF Inv, TypeOK, Steps
<1>3. CASE skip \/ retried[t] = MaxRetry
  <2>1. task' = [task EXCEPT ![t] = "archived"] /\ retried' = retried
    BY <1>3 DEF Failed
  <2>2. QED BY <1>2, <2>1 DEF Inv, TypeOK, QueueStates
<1>4. CASE ~(skip \/ retried[t] = MaxRetry)
  <2>1. task' = [task EXCEPT ![t] = "waiting"] /\ retried' = [retried EXCEPT ![t] = retried[t] + 1]
    BY <1>4 DEF Failed
  <2>2. retried[t] + 1 \in 0 .. MaxRetry
    BY <1>4, RegistrationAssumption DEF Inv, TypeOK
  <2>3. QED BY <1>2, <2>1, <2>2 DEF Inv, TypeOK, QueueStates
<1>5. QED BY <1>3, <1>4

LEMMA InitInv == Init => Inv
<1> SUFFICES ASSUME Init PROVE Inv
  OBVIOUS
<1>1. TypeOK
  BY RegistrationAssumption DEF Init, TypeOK, QueueStates, Steps
<1>2. Registered = {} /\ RowsDistinct
  BY DEF Init, Registered, RowsDistinct
<1>3. QED
  BY <1>1, <1>2 DEF Init, Inv, StepHasEffect, RegisteredHasVault, DoneIsRegistered

LEMMA NextInv == Inv /\ [Next]_registrationVars => Inv'
<1> SUFFICES ASSUME Inv, [Next]_registrationVars PROVE Inv'
  OBVIOUS
<1>1. ASSUME NEW t \in Tasks, Enqueue(t) PROVE Inv'
  <2>1. TypeOK'
    BY <1>1 DEF Enqueue, Inv, TypeOK, QueueStates
  <2>2. QED BY <1>1, <2>1, QueueStep DEF Enqueue, Inv, TypeOK
<1>2. ASSUME NEW t \in Tasks, Begin(t) PROVE Inv'
  <2>1. TypeOK'
    BY <1>2 DEF Begin, Inv, TypeOK, QueueStates, Steps
  <2>2. QED BY <1>2, <2>1, QueueStep DEF Begin, Inv, TypeOK
<1>3. ASSUME NEW t \in Tasks, SaveShare(t) PROVE Inv'
  <2>1. TypeOK'
    BY <1>3, RegistrationAssumption DEF SaveShare, Inv, TypeOK, Steps
  <2>2. \A u \in Tasks : step'[u] = IF u = t THEN "saved" ELSE step[u]
    BY <1>3 DEF SaveShare, Inv, TypeOK
  <2>3. vaults' = vaults \cup {KeyOf[t]} /\ UNCHANGED <<task, table>>
    BY <1>3 DEF SaveShare
  <2>4. QED
    BY <2>1, <2>2, <2>3
       DEF Inv, StepHasEffect, RegisteredHasVault, DoneIsRegistered, RowsDistinct, Registered
<1>4. ASSUME NEW t \in Tasks, ReshareFails(t) \/ InsertFails(t) PROVE Inv'
  <2>1. PICK skip \in BOOLEAN : Failed(t, skip)
    BY <1>4 DEF ReshareFails, InsertFails
  <2>2. Fault /\ UNCHANGED <<dead, vaults, table>>
    BY <1>4 DEF ReshareFails, InsertFails
  <2>3. TypeOK'
    BY <2>1, <2>2, FailedTask, RegistrationAssumption DEF Fault, Inv, TypeOK
  <2>4. QED BY <2>1, <2>2, <2>3, FailedTask, QueueStep
<1>5. ASSUME NEW t \in Tasks, InsertRow(t) PROVE Inv'
  <2>1. /\ step[t] = "saved" /\ table' = Stored(t)
        /\ step' = [step EXCEPT ![t] = "inserted"]
        /\ UNCHANGED <<task, retried, dead, vaults, faults>>
    BY <1>5 DEF InsertRow
  <2>2. TypeOK'
    BY <2>1, StoredKey DEF Inv, TypeOK, Steps
  <2>3. Registered' = Registered \cup {KeyOf[t]} /\ RowsDistinct'
    BY <2>1, StoredKey
  <2>4. \A u \in Tasks : step'[u] = IF u = t THEN "inserted" ELSE step[u]
    BY <2>1 DEF Inv, TypeOK
  <2>5. QED
    BY <2>1, <2>2, <2>3, <2>4 DEF Inv, StepHasEffect, RegisteredHasVault, DoneIsRegistered
<1>6. ASSUME NEW t \in Tasks, InsertOK(t) PROVE Inv'
  <2>1. TypeOK'
    BY <1>6 DEF InsertOK, Inv, TypeOK, QueueStates, Steps
  <2>2. QED BY <1>6, <2>1, QueueStep DEF InsertOK, Inv, TypeOK, StepHasEffect
<1>7. ASSUME NEW t \in Tasks, Recover(t) PROVE Inv'
  <2>1. dead' \subseteq Tasks /\ UNCHANGED <<vaults, table, faults>>
    BY <1>7 DEF Recover, Inv, TypeOK
  <2>2. CASE Failed(t, FALSE)
    <3>1. TypeOK'
      BY <2>1, <2>2, FailedTask DEF Inv, TypeOK
    <3>2. QED BY <2>1, <2>2, <3>1, FailedTask, QueueStep
  <2>3. CASE ~Failed(t, FALSE)
    <3>1. /\ task' = [task EXCEPT ![t] = "waiting"]
          /\ step' = [step EXCEPT ![t] = "none"]
          /\ UNCHANGED retried
      BY <1>7, <2>3 DEF Recover
    <3>2. TypeOK'
      BY <2>1, <3>1 DEF Inv, TypeOK, QueueStates, Steps
    <3>3. QED BY <2>1, <3>1, <3>2, QueueStep DEF Inv, TypeOK
  <2>4. QED BY <2>2, <2>3
<1>8. ASSUME NEW S \in SUBSET Active, Die(S) PROVE Inv'
  <2>1. TypeOK' /\ UNCHANGED <<task, step, vaults, table>>
    BY <1>8 DEF Die, Active, Inv, TypeOK
  <2>2. QED BY <2>1, QueueStep
<1>9. CASE UNCHANGED registrationVars
  <2>1. TypeOK' /\ UNCHANGED <<task, step, vaults, table>>
    BY <1>9 DEF registrationVars, Inv, TypeOK
  <2>2. QED BY <2>1, QueueStep
<1>10. QED
  BY <1>1, <1>2, <1>3, <1>4, <1>5, <1>6, <1>7, <1>8, <1>9 DEF Next, HandlerStep

LEMMA SpecInv == Spec => []Inv
  BY InitInv, NextInv, PTL DEF Spec

(* Every variable keeps its type. *)
THEOREM TypeCorrect == Spec => []TypeOK
<1>1. Inv => TypeOK
  BY DEF Inv
<1>2. QED BY SpecInv, <1>1, PTL

(* Every key the fee loop may visit has a vault share in the storage. *)
THEOREM RegisteredKeysHaveVaults == Spec => []RegisteredHasVault
<1>1. Inv => RegisteredHasVault
  BY DEF Inv
<1>2. QED BY SpecInv, <1>1, PTL

(* A task the queue has forgotten left its key registered, whatever failed *)
(* and was repeated before.                                                *)
THEOREM DoneTasksAreRegistered == Spec => []DoneIsRegistered
<1>1. Inv => DoneIsRegistered
  BY DEF Inv
<1>2. QED BY SpecInv, <1>1, PTL

(* No key has two rows, however many handlers insert it. *)
THEOREM RowsAreDistinct == Spec => []RowsDistinct
<1>1. Inv => RowsDistinct
  BY DEF Inv
<1>2. QED BY SpecInv, <1>1, PTL
=============================================================================
