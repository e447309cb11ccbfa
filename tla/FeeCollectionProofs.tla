-------------------------- MODULE FeeCollectionProofs --------------------------
(***************************************************************************)
(* Proofs about the fee loop for any sets of workers, keys and entries and *)
(* any bounds.  Inv, defined with the specification, is inductive; the     *)
(* safety properties and the refinement of FeeLedger follow from it.       *)
(***************************************************************************)
EXTENDS FeeCollection, FeeDebtProofs

-----------------------------------------------------------------------------
(* Steps that neither record, release nor create anything.                 *)

LocalParts == FreshIds /\ RowsOwned /\ RecordNamesRow /\ ReleasedAfterRecord /\ ReleasedOnce

(* No call about t newly succeeds; one that fails was on the wire.         *)
QuietAnswers ==
  \A t \in TxIds : \/ answer'[t] = answer[t]
                   \/ answer'[t] = "error" /\ {Mark(t), Send(t)} \cap wire # {}

Quiet ==
  /\ UNCHANGED <<tableVars, verifierVars, sent>>
  /\ wire' \subseteq wire
  /\ QuietAnswers

LEMMA QuietKeepsLocalParts ==
  ASSUME Inv, Quiet
  PROVE  LocalParts' /\ Authorised' \subseteq Authorised
<1>1. Authorised' \subseteq Authorised
  BY DEF Quiet, Authorised
<1>2. UNCHANGED <<txs, tracked, issued, collectedBy, sent>> /\ wire' \subseteq wire
  BY DEF Quiet, tableVars, verifierVars
<1>3. FreshIds'
  BY <1>2 DEF Inv, FreshIds, Quiet, QuietAnswers
<1>4. RowsOwned'
  BY <1>2 DEF Inv, RowsOwned
<1>5. RecordNamesRow'
  BY <1>2 DEF Inv, RecordNamesRow
<1>6. ReleasedAfterRecord'
  BY <1>1, <1>2 DEF Inv, ReleasedAfterRecord, Recorded, Quiet, QuietAnswers
<1>7. ReleasedOnce'
  BY <1>1, <1>2 DEF Inv, ReleasedOnce, SingleWorker
<1>8. QED BY <1>1, <1>3, <1>4, <1>5, <1>6, <1>7 DEF LocalParts

(* A step of the environment that touches no worker keeps what the workers *)
(* rely on.                                                                *)
LEMMA QuietKeepsAttempts ==
  ASSUME Inv, Quiet, UNCHANGED workerVars
  PROVE  AttemptMatchesRow' /\ AttemptIsNew'
<1>1. Authorised' \subseteq Authorised
  BY QuietKeepsLocalParts
<1>2. UNCHANGED <<pc, list, pk, tx, txs, tracked, issued>>
  BY DEF Quiet, tableVars, verifierVars, workerVars
<1>3. AttemptMatchesRow'
  BY <1>2 DEF Inv, AttemptMatchesRow
<1>4. AttemptIsNew'
  BY <1>1, <1>2 DEF Inv, AttemptIsNew, SingleWorker
<1>5. QED BY <1>3, <1>4

(* So does a step by which a worker leaves its attempt. *)
LEMMA LeavingKeepsAttempts ==
  ASSUME Inv, Quiet, NEW w \in Workers, NEW l \in {"down", "idle", "lookup"},
         pc' = [pc EXCEPT ![w] = l],
         \A v \in Workers \ {w} : list'[v] = list[v] /\ pk'[v] = pk[v] /\ tx'[v] = tx[v]
  PROVE  AttemptMatchesRow' /\ AttemptIsNew'
<1>1. Authorised' \subseteq Authorised
  BY QuietKeepsLocalParts
<1>2. UNCHANGED <<txs, tracked, issued>>
  BY DEF Quiet, tableVars, verifierVars
<1>3. \A v \in Workers : pc'[v] = IF v = w THEN l ELSE pc[v]
  BY DEF Inv, TypeOK
<1>4. AttemptMatchesRow'
  BY <1>2, <1>3 DEF Inv, AttemptMatchesRow
<1>5. AttemptIsNew'
  BY <1>1, <1>2, <1>3 DEF Inv, AttemptIsNew, SingleWorker
<1>6. QED BY <1>4, <1>5

-----------------------------------------------------------------------------
LEMMA InitInv == Init => Inv
<1> SUFFICES ASSUME Init PROVE Inv
  OBVIOUS
<1> USE DEF Init
<1>1. TypeOK
  BY CollectionAssumption DEF TypeOK, Locations, TxIds, NoTx, TxRow, EmptyRow, Requests
<1>2. FreshIds
  BY DEF FreshIds, Mark, Send
<1>3. RowsOwned
  BY DEF RowsOwned
<1>4. AttemptMatchesRow
  BY DEF AttemptMatchesRow
<1>5. RecordNamesRow
  BY DEF RecordNamesRow
<1>6. Authorised = {}
  BY DEF Authorised
<1>7. ReleasedAfterRecord
  BY <1>6 DEF ReleasedAfterRecord
<1>8. AttemptIsNew /\ ReleasedOnce
  BY <1>6 DEF AttemptIsNew, ReleasedOnce
<1>9. QED BY <1>1, <1>2, <1>3, <1>4, <1>5, <1>7, <1>8 DEF Inv

-----------------------------------------------------------------------------
(* The steps of a worker that leave its attempt or have not begun one.     *)
LEMMA StartInv == ASSUME Inv, NEW w \in Workers, Start(w) PROVE Inv'
<1>1. Quiet
  BY DEF Start, Quiet, QuietAnswers, tableVars, verifierVars, nodeVars
<1>2. TypeOK'
  BY DEF Start, Inv, TypeOK, Locations, tableVars, verifierVars, nodeVars
<1>3. AttemptMatchesRow' /\ AttemptIsNew'
  BY <1>1, LeavingKeepsAttempts DEF Start
<1>4. QED BY <1>1, <1>2, <1>3, QuietKeepsLocalParts DEF LocalParts, Inv

LEMMA CrashInv == ASSUME Inv, NEW w \in Workers, Crash(w) PROVE Inv'
<1>1. Quiet
  BY DEF Crash, Quiet, QuietAnswers, tableVars, verifierVars, nodeVars
<1>2. TypeOK'
  BY CollectionAssumption
     DEF Crash, Fault, Inv, TypeOK, Locations, tableVars, verifierVars, nodeVars
<1>3. AttemptMatchesRow' /\ AttemptIsNew'
  <2>1. \A v \in Workers \ {w} : list'[v] = list[v] /\ pk'[v] = pk[v] /\ tx'[v] = tx[v]
    BY DEF Crash, Inv, TypeOK
  <2>2. QED BY <1>1, <2>1, LeavingKeepsAttempts DEF Crash
<1>4. QED BY <1>1, <1>2, <1>3, QuietKeepsLocalParts DEF LocalParts, Inv

LEMMA ProcessFeesInv == ASSUME Inv, NEW w \in Workers, ProcessFees(w) PROVE Inv'
<1>1. Quiet
  BY DEF ProcessFees, Quiet, QuietAnswers, tableVars, verifierVars, nodeVars
<1>2. TypeOK'
  BY DEF ProcessFees, Inv, TypeOK, Locations, tableVars, verifierVars, nodeVars
<1>3. AttemptMatchesRow' /\ AttemptIsNew'
  BY <1>1, LeavingKeepsAttempts DEF ProcessFees
<1>4. QED BY <1>1, <1>2, <1>3, QuietKeepsLocalParts DEF LocalParts, Inv

LEMMA EndCycleInv == ASSUME Inv, NEW w \in Workers, EndCycle(w) PROVE Inv'
<1>1. Quiet
  BY DEF EndCycle, Quiet, QuietAnswers, tableVars, verifierVars, nodeVars
<1>2. TypeOK'
  BY DEF EndCycle, Inv, TypeOK, Locations, tableVars, verifierVars, nodeVars
<1>3. AttemptMatchesRow' /\ AttemptIsNew'
  BY <1>1, LeavingKeepsAttempts DEF EndCycle
<1>4. QED BY <1>1, <1>2, <1>3, QuietKeepsLocalParts DEF LocalParts, Inv

LEMMA NothingDueInv ==
  ASSUME Inv, NEW w \in Workers, NEW k \in Keys, NothingDue(w, k) PROVE Inv'
<1>1. Quiet
  BY DEF NothingDue, Quiet, QuietAnswers, tableVars, verifierVars, nodeVars
<1>2. TypeOK'
  BY DEF NothingDue, Inv, TypeOK, tableVars, verifierVars, nodeVars
<1>3. AttemptMatchesRow' /\ AttemptIsNew'
  <2>1. pc' = [pc EXCEPT ![w] = "lookup"]
    BY DEF NothingDue, Inv, TypeOK
  <2>2. QED BY <1>1, <2>1, LeavingKeepsAttempts DEF NothingDue
<1>4. QED BY <1>1, <1>2, <1>3, QuietKeepsLocalParts DEF LocalParts, Inv

LEMMA LookupFailsInv ==
  ASSUME Inv, NEW w \in Workers, NEW k \in Keys, LookupFails(w, k) PROVE Inv'
<1>1. Quiet
  BY DEF LookupFails, Quiet, QuietAnswers, tableVars, verifierVars, nodeVars
<1>2. TypeOK'
  BY CollectionAssumption
     DEF LookupFails, Fault, Inv, TypeOK, Locations, tableVars, verifierVars, nodeVars
<1>3. AttemptMatchesRow' /\ AttemptIsNew'
  BY <1>1, LeavingKeepsAttempts DEF LookupFails
<1>4. QED BY <1>1, <1>2, <1>3, QuietKeepsLocalParts DEF LocalParts, Inv

(* NextKey types its locals and leaves the attempt. *)
LEMMA NextKeyLeaves ==
  ASSUME Inv, NEW w \in Workers, NextKey(w), Quiet
  PROVE  /\ AttemptMatchesRow' /\ AttemptIsNew'
         /\ pc' \in [Workers -> Locations]
         /\ rows' \in [Workers -> SUBSET Keys]
         /\ pk' \in [Workers -> Keys \cup {NoKey}]
         /\ list' \in [Workers -> SUBSET Fees]
         /\ tx' \in [Workers -> TxIds \cup {NoTx}]
<1>1. \A v \in Workers \ {w} : list'[v] = list[v] /\ pk'[v] = pk[v] /\ tx'[v] = tx[v]
  BY DEF NextKey, Inv, TypeOK
<1>2. AttemptMatchesRow' /\ AttemptIsNew'
  BY <1>1, LeavingKeepsAttempts DEF NextKey
<1>3. QED BY <1>2 DEF NextKey, Inv, TypeOK, Locations

LEMMA AttemptFailsInv == ASSUME Inv, NEW w \in Workers, AttemptFails(w) PROVE Inv'
<1>1. Quiet
  BY DEF AttemptFails, Quiet, QuietAnswers, tableVars, verifierVars, nodeVars
<1>2. TypeOK'
  BY <1>1, NextKeyLeaves, CollectionAssumption
     DEF AttemptFails, Fault, Inv, TypeOK, tableVars, verifierVars, nodeVars
<1>3. QED
  BY <1>1, <1>2, NextKeyLeaves, QuietKeepsLocalParts DEF AttemptFails, LocalParts, Inv

LEMMA MarkFailsInv == ASSUME Inv, NEW w \in Workers, MarkFails(w) PROVE Inv'
<1>1. Quiet
  BY DEF MarkFails, Quiet, QuietAnswers, tableVars, verifierVars, nodeVars
<1>2. TypeOK'
  BY <1>1, NextKeyLeaves DEF MarkFails, Inv, TypeOK, tableVars, verifierVars, nodeVars
<1>3. QED
  BY <1>1, <1>2, NextKeyLeaves, QuietKeepsLocalParts DEF MarkFails, LocalParts, Inv

LEMMA BroadcastInv == ASSUME Inv, NEW w \in Workers, Broadcast(w) PROVE Inv'
<1>1. Quiet
  BY DEF Broadcast, Quiet, QuietAnswers, tableVars, verifierVars, nodeVars
<1>2. TypeOK'
  BY <1>1, NextKeyLeaves DEF Broadcast, Inv, TypeOK, tableVars, verifierVars, nodeVars
<1>3. QED
  BY <1>1, <1>2, NextKeyLeaves, QuietKeepsLocalParts DEF Broadcast, LocalParts, Inv

-----------------------------------------------------------------------------
(* Steps of the environment that neither record nor release.               *)
LEMMA InsertPublicKeyInv == ASSUME Inv, NEW k \in Keys, InsertPublicKey(k) PROVE Inv'
<1>1. Quiet /\ UNCHANGED workerVars
  BY DEF InsertPublicKey, Quiet, QuietAnswers, tableVars, verifierVars, nodeVars
<1>2. TypeOK'
  BY DEF InsertPublicKey, Inv, TypeOK, workerVars, tableVars, verifierVars, nodeVars
<1>3. QED BY <1>1, <1>2, QuietKeepsLocalParts, QuietKeepsAttempts DEF LocalParts, Inv

LEMMA UserTxInv == ASSUME Inv, NEW k \in Keys, UserTx(k) PROVE Inv'
<1>1. Quiet /\ UNCHANGED workerVars
  BY DEF UserTx, Quiet, QuietAnswers
<1>2. nonce' \in [Keys -> Nat] /\ faults' \in 0 .. MaxFaults
  BY CollectionAssumption DEF UserTx, Fault, Inv, TypeOK
<1>3. TypeOK'
  BY <1>2 DEF UserTx, Inv, TypeOK, workerVars, tableVars, verifierVars
<1>4. QED BY <1>1, <1>3, QuietKeepsLocalParts, QuietKeepsAttempts DEF LocalParts, Inv

LEMMA RefuseMarkInv == ASSUME Inv, NEW t \in TxIds, RefuseMark(t) PROVE Inv'
<1>1. Quiet /\ UNCHANGED workerVars
  BY DEF RefuseMark, Answered, Quiet, QuietAnswers, nodeVars, Inv, TypeOK
<1>2. TypeOK'
  BY DEF RefuseMark, Answered, Inv, TypeOK, workerVars, tableVars, verifierVars, nodeVars
<1>3. QED BY <1>1, <1>2, QuietKeepsLocalParts, QuietKeepsAttempts DEF LocalParts, Inv

LEMMA RejectTxInv == ASSUME Inv, NEW t \in TxIds, RejectTx(t) PROVE Inv'
<1>1. Quiet /\ UNCHANGED workerVars
  BY DEF RejectTx, Answered, Quiet, QuietAnswers, nodeVars, Inv, TypeOK
<1>2. TypeOK'
  BY DEF RejectTx, Answered, Inv, TypeOK, workerVars, tableVars, verifierVars, nodeVars
<1>3. QED BY <1>1, <1>2, QuietKeepsLocalParts, QuietKeepsAttempts DEF LocalParts, Inv

LEMMA MineInv == ASSUME Inv, NEW t \in TxIds, Mine(t) PROVE Inv'
<1>1. Quiet /\ UNCHANGED workerVars
  BY DEF Mine, Quiet, QuietAnswers
<1>2. receipt' \in [TxIds -> {"none", "success", "failed"}] /\ faults' \in 0 .. MaxFaults
  BY CollectionAssumption DEF Mine, Fault, Inv, TypeOK
<1>3. TypeOK'
  BY <1>2 DEF Mine, Inv, TypeOK, workerVars, tableVars, verifierVars
<1>4. QED BY <1>1, <1>3, QuietKeepsLocalParts, QuietKeepsAttempts DEF LocalParts, Inv

LEMMA BreakConnectionInv == ASSUME Inv, NEW t \in TxIds, BreakConnection(t) PROVE Inv'
<1>1. Quiet /\ UNCHANGED workerVars
  BY DEF BreakConnection, Quiet, QuietAnswers, nodeVars, Inv, TypeOK
<1>2. TypeOK'
  BY CollectionAssumption
     DEF BreakConnection, Fault, Inv, TypeOK, workerVars, tableVars, verifierVars, nodeVars
<1>3. QED BY <1>1, <1>2, QuietKeepsLocalParts, QuietKeepsAttempts DEF LocalParts, Inv

LEMMA LoseRequestInv == ASSUME Inv, NEW t \in TxIds, LoseRequest(t) PROVE Inv'
<1>1. Quiet /\ UNCHANGED workerVars
  BY DEF LoseRequest, Answered, Quiet, QuietAnswers, nodeVars, Inv, TypeOK
<1>2. TypeOK'
  BY CollectionAssumption
     DEF LoseRequest, Answered, Fault, Inv, TypeOK, workerVars, tableVars, verifierVars, nodeVars
<1>3. QED BY <1>1, <1>2, QuietKeepsLocalParts, QuietKeepsAttempts DEF LocalParts, Inv

-----------------------------------------------------------------------------
(* The steps the properties depend on.                                     *)

(* The entries listed are due, so none of them is in a released            *)
(* transaction, whose entries are all on record.                           *)
LEMMA FeesDueInv ==
  ASSUME Inv, NEW w \in Workers, NEW k \in Keys, FeesDue(w, k) PROVE Inv'
<1>1. Quiet /\ UNCHANGED <<txs, tracked, issued, collectedBy>>
  BY DEF FeesDue, Quiet, QuietAnswers, tableVars, verifierVars, nodeVars
<1>2. TypeOK'
  BY DEF FeesDue, Due, Inv, TypeOK, Locations, tableVars, verifierVars, nodeVars
<1>3. /\ pc' = [pc EXCEPT ![w] = "build"]
      /\ list' = [list EXCEPT ![w] = Due(k)]
      /\ pk' = [pk EXCEPT ![w] = k]
      /\ tx' = tx /\ Due(k) # {}
  BY DEF FeesDue
<1>4. AttemptMatchesRow'
  BY <1>1, <1>3 DEF Due, Inv, TypeOK, AttemptMatchesRow
<1>5. AttemptIsNew'
  <2>1. \A t \in Authorised : Due(k) \cap txs[t].fees = {}
    BY DEF Inv, ReleasedAfterRecord, Recorded, Authorised, Due
  <2>2. Authorised' \subseteq Authorised
    BY <1>1, QuietKeepsLocalParts
  <2>3. QED BY <1>1, <1>3, <2>1, <2>2 DEF Inv, TypeOK, AttemptIsNew, SingleWorker
<1>6. QED BY <1>1, <1>2, <1>4, <1>5, QuietKeepsLocalParts DEF LocalParts, Inv

(* The new row is one no request, record or answer refers to yet.          *)
LEMMA CreateTxInv == ASSUME Inv, NEW w \in Workers, CreateTx(w) PROVE Inv'
<1> DEFINE n == tracked + 1
           row == [key |-> pk[w], fees |-> list[w], nonce |-> nonce[pk[w]]]
<1>1. n \in TxIds /\ tracked \in Nat /\ \A t \in TxIds : t \in 1 .. tracked \/ t = n \/ t > n
  BY CollectionAssumption DEF CreateTx, TxIds, Inv, TypeOK
<1>2. /\ pc[w] = "build" /\ tracked' = n
      /\ txs' = [txs EXCEPT ![n] = row]
      /\ tx' = [tx EXCEPT ![w] = n]
      /\ pc' = [pc EXCEPT ![w] = "sign"]
      /\ UNCHANGED <<rows, pk, list, registered, issued, collectedBy, wire, answer, sent, nonce, receipt, faults>>
  BY DEF CreateTx, verifierVars, nodeVars
<1>3. list[w] # {} /\ list[w] \subseteq {f \in issued : Owner[f] = pk[w]}
  BY <1>2 DEF Inv, AttemptMatchesRow
<1>4. pk[w] \in Keys
  <2>1. PICK f \in list[w] : f \in Fees /\ Owner[f] = pk[w]
    BY <1>3 DEF Inv, TypeOK
  <2>2. QED BY <2>1, CollectionAssumption
<1>5. row \in TxRow
  BY <1>4 DEF TxRow, Inv, TypeOK
<1>6. TypeOK'
  <2>1. n \in 0 .. MaxTx
    BY <1>1 DEF TxIds
  <2>2. txs' \in [TxIds -> TxRow] /\ tx' \in [Workers -> TxIds \cup {NoTx}]
        /\ pc' \in [Workers -> Locations]
    BY <1>1, <1>2, <1>5 DEF Inv, TypeOK, Locations
  <2>3. QED BY <1>2, <2>1, <2>2 DEF Inv, TypeOK
<1>7. n \notin Authorised /\ Authorised' = Authorised /\ answer[n] = "none"
  BY <1>1, <1>2 DEF Inv, FreshIds, Authorised
<1>8. \A t \in TxIds : txs'[t] = IF t = n THEN row ELSE txs[t]
  BY <1>2 DEF Inv, TypeOK
<1>9. FreshIds'
  BY <1>1, <1>2 DEF Inv, FreshIds, TxIds
<1>10. RowsOwned'
  <2>1. \A t \in 1 .. tracked' : t = n \/ t \in 1 .. tracked
    BY <1>1, <1>2
  <2>2. \A t \in 1 .. tracked' : t \in TxIds
    BY <1>1, <1>2, CollectionAssumption DEF TxIds
  <2>3. QED BY <1>2, <1>3, <1>8, <2>1, <2>2 DEF Inv, RowsOwned
<1>11. AttemptMatchesRow'
  <2>1. ASSUME NEW v \in Workers, v # w
        PROVE  /\ pc'[v] = pc[v] /\ list'[v] = list[v] /\ tx'[v] = tx[v] /\ pk'[v] = pk[v]
               /\ tx[v] \in 1 .. tracked => txs'[tx[v]] = txs[tx[v]] /\ tx[v] \in 1 .. tracked'
    BY <1>1, <1>2, <1>8, <2>1 DEF Inv, TypeOK, TxIds
  <2>2. pc'[w] = "sign" /\ tx'[w] = n /\ txs'[n].fees = list'[w] /\ n \in 1 .. tracked'
    BY <1>1, <1>2, <1>8 DEF Inv, TypeOK, TxIds
  <2>3. QED BY <1>2, <2>1, <2>2 DEF Inv, AttemptMatchesRow
<1>12. RecordNamesRow'
  <2>1. \A f \in Fees : collectedBy[f] # NoTx => collectedBy[f] \in TxIds /\ collectedBy[f] # n
    BY <1>1 DEF Inv, RecordNamesRow, TypeOK
  <2>2. \A f \in Fees : collectedBy[f] \in TxIds /\ collectedBy[f] <= tracked
                          => collectedBy[f] <= tracked'
    BY <1>1, <1>2 DEF TxIds
  <2>3. QED BY <1>2, <1>8, <2>1, <2>2 DEF Inv, RecordNamesRow
<1>13. ReleasedAfterRecord'
  BY <1>2, <1>7, <1>8 DEF Inv, ReleasedAfterRecord, Recorded
<1>14. AttemptIsNew'
  <2>1. \A v \in Workers : pc'[v] = IF v = w THEN "sign" ELSE pc[v]
    BY <1>2 DEF Inv, TypeOK
  <2>2. \A t \in Authorised : txs'[t] = txs[t]
    BY <1>7, <1>8 DEF Authorised
  <2>3. QED BY <1>2, <1>7, <2>1, <2>2 DEF Inv, AttemptIsNew, SingleWorker
<1>15. ReleasedOnce'
  <2>1. \A t \in Authorised : txs'[t] = txs[t]
    BY <1>7, <1>8 DEF Authorised
  <2>2. QED BY <1>7, <2>1 DEF Inv, ReleasedOnce, SingleWorker
<1>16. QED
  BY <1>6, <1>9, <1>10, <1>11, <1>12, <1>13, <1>14, <1>15 DEF Inv

(* Posting a mark releases nothing. *)
LEMMA SignInv == ASSUME Inv, NEW w \in Workers, Sign(w) PROVE Inv'
<1> DEFINE n == tx[w]
<1>1. n \in 1 .. tracked /\ n \in TxIds /\ pc[w] = "sign"
  BY CollectionAssumption DEF Sign, Inv, AttemptMatchesRow, TypeOK, TxIds
<1>2. /\ wire' = wire \cup {Mark(n)}
      /\ pc' = [pc EXCEPT ![w] = "marking"]
      /\ UNCHANGED <<rows, pk, list, tx, registered, issued, collectedBy, tracked, txs,
                     answer, sent, nonce, receipt, faults>>
  BY DEF Sign, verifierVars, tableVars, nodeVars
<1>3. TypeOK'
  <2>1. Mark(n) \in Requests
    BY <1>1 DEF Mark, Requests
  <2>2. QED BY <1>2, <2>1 DEF Inv, TypeOK, Locations
<1>4. Authorised' = Authorised
  BY <1>2 DEF Authorised, Mark, Send
<1>5. FreshIds'
  <2>1. \A t \in TxIds : t > tracked => t # n
    BY <1>1, CollectionAssumption DEF TxIds, Inv, TypeOK
  <2>2. \A t \in TxIds : t # n => Mark(t) # Mark(n) /\ Send(t) # Mark(n)
    BY DEF Mark, Send
  <2>3. QED BY <1>2, <2>1, <2>2 DEF Inv, FreshIds
<1>6. RowsOwned' /\ RecordNamesRow'
  BY <1>2 DEF Inv, RowsOwned, RecordNamesRow
<1>7. AttemptMatchesRow'
  <2>1. \A v \in Workers : pc'[v] = IF v = w THEN "marking" ELSE pc[v]
    BY <1>2 DEF Inv, TypeOK
  <2>2. QED BY <1>1, <1>2, <2>1 DEF Inv, AttemptMatchesRow
<1>8. ReleasedAfterRecord' /\ ReleasedOnce'
  BY <1>2, <1>4 DEF Inv, ReleasedAfterRecord, ReleasedOnce, Recorded, SingleWorker
<1>9. AttemptIsNew'
  <2>1. \A v \in Workers : pc'[v] = IF v = w THEN "marking" ELSE pc[v]
    BY <1>2 DEF Inv, TypeOK
  <2>2. QED BY <1>1, <1>2, <1>4, <2>1 DEF Inv, AttemptIsNew, SingleWorker
<1>10. QED BY <1>3, <1>5, <1>6, <1>7, <1>8, <1>9 DEF Inv

(* The release: the mark was answered, so the entries are on record; a     *)
(* verifier that does not overwrite recorded them under this transaction   *)
(* alone, and a lone worker holds entries no released transaction has.     *)
LEMMA MarkAckedInv == ASSUME Inv, NEW w \in Workers, MarkAcked(w) PROVE Inv'
<1> DEFINE n == tx[w]
<1>1. /\ n \in 1 .. tracked /\ n \in TxIds /\ pc[w] = "marking"
      /\ txs[n].fees = list[w] /\ answer[n] = "ok"
  BY CollectionAssumption DEF MarkAcked, Inv, AttemptMatchesRow, TypeOK, TxIds
<1>2. /\ wire' = wire \cup {Send(n)}
      /\ pc' = [pc EXCEPT ![w] = "sending"]
      /\ answer' = [answer EXCEPT ![n] = "none"]
      /\ UNCHANGED <<rows, pk, list, tx, registered, issued, collectedBy, tracked, txs,
                     sent, nonce, receipt, faults>>
  BY DEF MarkAcked, verifierVars, tableVars, nodeVars
<1>3. TypeOK'
  <2>1. Send(n) \in Requests
    BY <1>1 DEF Send, Requests
  <2>2. QED BY <1>1, <1>2, <2>1 DEF Inv, TypeOK, Locations
<1>4. Authorised' = Authorised \cup {n}
  BY <1>1, <1>2 DEF Authorised, Send
<1>5. FreshIds'
  <2>1. \A t \in TxIds : t > tracked => t # n
    BY <1>1, CollectionAssumption DEF TxIds, Inv, TypeOK
  <2>2. \A t \in TxIds : t # n => Mark(t) # Send(n) /\ Send(t) # Send(n)
    BY DEF Mark, Send
  <2>3. QED BY <1>2, <2>1, <2>2 DEF Inv, TypeOK, FreshIds
<1>6. RowsOwned' /\ RecordNamesRow'
  BY <1>2 DEF Inv, RowsOwned, RecordNamesRow
<1>7. AttemptMatchesRow'
  <2>1. \A v \in Workers : pc'[v] = IF v = w THEN "sending" ELSE pc[v]
    BY <1>2 DEF Inv, TypeOK
  <2>2. QED BY <1>1, <1>2, <2>1 DEF Inv, AttemptMatchesRow
<1>8. Recorded(n)
  BY <1>1 DEF Inv, ReleasedAfterRecord
<1>9. ReleasedAfterRecord'
  BY <1>2, <1>4, <1>8 DEF Inv, TypeOK, ReleasedAfterRecord, Recorded
<1>10. AttemptIsNew'
  BY <1>1, <1>2, <1>4 DEF Inv, TypeOK, AttemptIsNew, SingleWorker
<1>11. ReleasedOnce'
  <2>1. CASE Conditional
    <3>1. \A t \in Authorised \cup {n} : Recorded(t)
      BY <1>8 DEF Inv, ReleasedAfterRecord, Authorised
    <3>2. \A t, u \in Authorised \cup {n} : t # u => txs[t].fees \cap txs[u].fees = {}
      BY <2>1, <3>1 DEF Recorded
    <3>3. QED BY <1>2, <1>4, <3>2 DEF ReleasedOnce
  <2>2. CASE SingleWorker
    <3>1. \A t \in Authorised : txs[n].fees \cap txs[t].fees = {}
      BY <1>1, <2>2 DEF Inv, AttemptIsNew
    <3>2. QED BY <1>2, <1>4, <2>2, <3>1 DEF Inv, ReleasedOnce
  <2>3. QED BY <2>1, <2>2 DEF ReleasedOnce, SingleWorker
<1>12. QED BY <1>3, <1>5, <1>6, <1>7, <1>9, <1>10, <1>11 DEF Inv

LEMMA IssueFeeInv == ASSUME Inv, NEW f \in Fees, IssueFee(f) PROVE Inv'
<1>1. /\ issued' = issued \cup {f}
      /\ UNCHANGED <<pc, rows, pk, list, tx, registered, collectedBy, tracked, txs, wire,
                     answer, sent, nonce, receipt, faults>>
  BY DEF IssueFee, workerVars, tableVars, nodeVars
<1>2. TypeOK'
  BY <1>1 DEF Inv, TypeOK
<1>3. Authorised' = Authorised
  BY <1>1 DEF Authorised
<1>4. FreshIds' /\ RowsOwned' /\ RecordNamesRow' /\ AttemptMatchesRow'
  BY <1>1 DEF Inv, FreshIds, RowsOwned, RecordNamesRow, AttemptMatchesRow
<1>5. ReleasedAfterRecord' /\ AttemptIsNew' /\ ReleasedOnce'
  BY <1>1, <1>3
     DEF Inv, ReleasedAfterRecord, Recorded, AttemptIsNew, ReleasedOnce, SingleWorker
<1>6. QED BY <1>2, <1>4, <1>5 DEF Inv

(* A mark puts its entries on record and takes none off; under a verifier  *)
(* that does not overwrite it changes no record at all.                    *)
LEMMA MarkCollectedInv == ASSUME Inv, NEW t \in TxIds, MarkCollected(t) PROVE Inv'
<1>1. /\ Mark(t) \in wire
      /\ Conditional => \A f \in txs[t].fees : collectedBy[f] = NoTx
      /\ collectedBy' = [f \in Fees |-> IF f \in txs[t].fees THEN t ELSE collectedBy[f]]
      /\ wire' = wire \ {Mark(t)}
      /\ answer' = Answered(t, "ok")
      /\ UNCHANGED <<pc, rows, pk, list, tx, registered, issued, tracked, txs, sent, nonce, receipt, faults>>
  BY DEF MarkCollected, workerVars, tableVars, nodeVars
<1>2. t \in 1 .. tracked /\ t # NoTx /\ txs[t].fees \subseteq Fees
  <2>1. ~(t > tracked)
    BY <1>1 DEF Inv, FreshIds
  <2>2. t \in 1 .. tracked /\ t # NoTx
    BY <2>1, CollectionAssumption DEF Inv, TypeOK, TxIds, NoTx
  <2>3. QED BY <2>2 DEF Inv, TypeOK, TxRow
<1>3. TypeOK'
  BY <1>1, <1>2 DEF Inv, TypeOK, Answered
<1>4. Authorised' = Authorised
  BY <1>1 DEF Authorised, Mark, Send
<1>5. FreshIds'
  <2>1. \A u \in TxIds : u > tracked => u # t
    BY <1>2, CollectionAssumption DEF TxIds, Inv, TypeOK
  <2>2. \A u \in TxIds : u # t => answer'[u] = answer[u]
    BY <1>1 DEF Inv, TypeOK, Answered
  <2>3. QED BY <1>1, <2>1, <2>2 DEF Inv, FreshIds
<1>6. RowsOwned' /\ AttemptMatchesRow'
  BY <1>1 DEF Inv, RowsOwned, AttemptMatchesRow
<1>7. RecordNamesRow'
  BY <1>1, <1>2 DEF Inv, RecordNamesRow
<1>8. ReleasedAfterRecord'
  <2>1. Recorded(t)'
    BY <1>1, <1>2 DEF Recorded
  <2>2. ASSUME NEW u \in TxIds, Recorded(u) PROVE Recorded(u)'
    <3>1. txs[u].fees \subseteq Fees
      BY DEF Inv, TypeOK, TxRow
    <3>2. QED BY <1>1, <1>2, <2>2, <3>1 DEF Recorded
  <2>3. \A u \in TxIds : u # t => answer'[u] = answer[u]
    BY <1>1 DEF Inv, TypeOK, Answered
  <2>4. QED BY <1>4, <2>1, <2>2, <2>3 DEF Inv, ReleasedAfterRecord
<1>9. AttemptIsNew' /\ ReleasedOnce'
  BY <1>1, <1>4 DEF Inv, AttemptIsNew, ReleasedOnce, SingleWorker
<1>10. QED BY <1>3, <1>5, <1>6, <1>7, <1>8, <1>9 DEF Inv

(* Acceptance moves a released transaction from the wire to the chain. *)
LEMMA AcceptTxInv == ASSUME Inv, NEW t \in TxIds, AcceptTx(t) PROVE Inv'
<1>1. /\ Send(t) \in wire
      /\ sent' = sent \cup {t}
      /\ nonce' = [nonce EXCEPT ![txs[t].key] = @ + 1]
      /\ wire' = wire \ {Send(t)}
      /\ answer' = Answered(t, "ok")
      /\ UNCHANGED <<pc, rows, pk, list, tx, registered, issued, collectedBy, tracked, txs,
                     receipt, faults>>
  BY DEF AcceptTx, workerVars, verifierVars, tableVars
<1>2. TypeOK'
  <2>1. nonce' \in [Keys -> Nat]
    <3>1. nonce \in [Keys -> Nat]
      BY DEF Inv, TypeOK
    <3>2. CASE txs[t].key \in Keys
      BY <1>1, <3>1, <3>2
    <3>3. CASE txs[t].key \notin Keys
      BY <1>1, <3>1, <3>3
    <3>4. QED BY <3>2, <3>3
  <2>2. answer' \in [TxIds -> {"none", "ok", "error"}]
    BY <1>1 DEF Inv, TypeOK, Answered
  <2>3. QED BY <1>1, <2>1, <2>2 DEF Inv, TypeOK
<1>3. Authorised' = Authorised /\ t \in Authorised
  BY <1>1 DEF Authorised, Send
<1>4. \A u \in TxIds : u # t => answer'[u] = answer[u]
  BY <1>1 DEF Inv, TypeOK, Answered
<1>5. FreshIds'
  BY <1>1, <1>4 DEF Inv, FreshIds
<1>6. RowsOwned' /\ AttemptMatchesRow' /\ RecordNamesRow'
  BY <1>1 DEF Inv, RowsOwned, AttemptMatchesRow, RecordNamesRow
<1>7. ReleasedAfterRecord'
  BY <1>1, <1>3, <1>4 DEF Inv, ReleasedAfterRecord, Recorded
<1>8. AttemptIsNew' /\ ReleasedOnce'
  BY <1>1, <1>3 DEF Inv, AttemptIsNew, ReleasedOnce, SingleWorker
<1>9. QED BY <1>2, <1>5, <1>6, <1>7, <1>8 DEF Inv

-----------------------------------------------------------------------------
LEMMA NextInv == Inv /\ [Next]_vars => Inv'
<1> SUFFICES ASSUME Inv, [Next]_vars PROVE Inv'
  OBVIOUS
<1>1. ASSUME NEW w \in Workers, WorkerStep(w) PROVE Inv'
  BY <1>1, StartInv, ProcessFeesInv, EndCycleInv, NothingDueInv, FeesDueInv, LookupFailsInv,
     CreateTxInv, AttemptFailsInv, SignInv, MarkAckedInv, MarkFailsInv, BroadcastInv
     DEF WorkerStep
<1>2. ASSUME NEW t \in TxIds, ServiceStep(t) PROVE Inv'
  BY <1>2, MarkCollectedInv, RefuseMarkInv, AcceptTxInv, RejectTxInv, MineInv DEF ServiceStep
<1>3. CASE Environment
  BY <1>3, InsertPublicKeyInv, UserTxInv, IssueFeeInv, BreakConnectionInv, LoseRequestInv
     DEF Environment
<1>4. CASE UNCHANGED vars
  <2>1. Quiet /\ UNCHANGED workerVars /\ TypeOK'
    BY <1>4 DEF vars, Quiet, QuietAnswers, nodeVars, tableVars, verifierVars, workerVars, Inv, TypeOK
  <2>2. QED BY <2>1, QuietKeepsLocalParts, QuietKeepsAttempts DEF LocalParts, Inv
<1>5. QED BY <1>1, <1>2, <1>3, <1>4, CrashInv DEF Next

LEMMA SpecInv == Spec => []Inv
  BY InitInv, NextInv, PTL DEF Spec

(* Every variable keeps its type, for any number of workers, keys and      *)
(* entries.                                                                *)
THEOREM TypeCorrect == Spec => []TypeOK
<1>1. Inv => TypeOK
  BY DEF Inv
<1>2. QED BY SpecInv, <1>1, PTL

(* No entry is paid twice, whatever crashes, delays and losses, if one     *)
(* worker runs or the verifier refuses marks that overlap.                 *)
THEOREM PaidAtMostOnce ==
  ASSUME Conditional \/ SingleWorker
  PROVE  Spec => []AtMostOnce
<1>1. Inv => AtMostOnce
  BY DEF Inv, TypeOK, ReleasedOnce, AtMostOnce, Authorised
<1>2. QED BY SpecInv, <1>1, PTL

(* Whatever was paid is on record as collected, so no later cycle lists it *)
(* again.                                                                  *)
THEOREM PaidOnRecord == Spec => []PaidIsCollected
<1>1. Inv => PaidIsCollected
  BY DEF Inv, TypeOK, ReleasedAfterRecord, Recorded, PaidIsCollected, Authorised
<1>2. QED BY SpecInv, <1>1, PTL

(* With a verifier that does not overwrite, the transaction on record for  *)
(* a paid entry is the one that paid it.                                   *)
THEOREM RecordCorrect == Spec => []RecordIsThePayment
<1>1. Inv => RecordIsThePayment
  BY DEF Inv, TypeOK, ReleasedAfterRecord, Recorded, RecordIsThePayment, Authorised
<1>2. QED BY SpecInv, <1>1, PTL

-----------------------------------------------------------------------------
(* Payments.  Rows are for debts, so the amount of a transfer is what its  *)
(* entries are worth; the transfers of a key are disjoint, so together     *)
(* they are worth what the union of their entries is worth.                *)

(* Nothing that is charged, mined or accepted changes. *)
LEMMA PaymentQuiet ==
  ASSUME PaymentInv, UNCHANGED <<issued, tracked, txs, sent, receipt>>,
         \A w \in Workers : pc'[w] = "build" => pc[w] = "build" /\ list'[w] = list[w]
  PROVE  PaymentInv'
<1>1. IsFiniteSet(issued)' /\ MinedWasSent'
  BY DEF PaymentInv, MinedWasSent
<1>2. ChargesAreDebts'
  BY DEF PaymentInv, ChargesAreDebts, DebtOf
<1>3. QED BY <1>1, <1>2 DEF PaymentInv

(* The steps of a worker neither issue nor mine. *)
LEMMA PaymentWorker ==
  ASSUME Inv, PaymentInv, NEW w \in Workers, WorkerStep(w) \/ Crash(w)
  PROVE  PaymentInv'
<1>1. pc \in [Workers -> Locations] /\ list \in [Workers -> SUBSET Fees]
      /\ txs \in [TxIds -> TxRow] /\ tracked \in Nat
  BY CollectionAssumption DEF Inv, TypeOK
<1>2. UNCHANGED <<issued, sent, receipt>>
  BY DEF WorkerStep, Crash, Start, ProcessFees, EndCycle, NothingDue, FeesDue, LookupFails,
     CreateTx, AttemptFails, Sign, MarkAcked, MarkFails, Broadcast, verifierVars, nodeVars
<1>3. CASE \E k \in Keys : FeesDue(w, k)
  <2>1. PICK k \in Keys : FeesDue(w, k)
    BY <1>3
  <2>2. /\ pc' = [pc EXCEPT ![w] = "build"] /\ list' = [list EXCEPT ![w] = Due(k)]
        /\ DebtOf(Due(k)) > 0 /\ UNCHANGED <<tracked, txs>>
    BY <2>1 DEF FeesDue, tableVars
  <2>3. ChargesAreDebts'
    <3>1. ASSUME NEW v \in Workers, pc'[v] = "build" PROVE DebtOf(list'[v]) > 0
      BY <1>1, <2>2, <3>1 DEF PaymentInv, ChargesAreDebts
    <3>2. QED BY <2>2, <3>1 DEF PaymentInv, ChargesAreDebts, DebtOf
  <2>4. QED BY <1>2, <2>3 DEF PaymentInv, MinedWasSent
<1>4. CASE CreateTx(w)
  <2> DEFINE n == tracked + 1
  <2>1. /\ pc[w] = "build" /\ n \in TxIds /\ tracked' = n /\ list' = list
        /\ pc' = [pc EXCEPT ![w] = "sign"]
        /\ txs' = [txs EXCEPT ![n] = [key |-> pk[w], fees |-> list[w], nonce |-> nonce[pk[w]]]]
    BY <1>1, <1>4, CollectionAssumption DEF CreateTx, TxIds
  <2>2. \A t \in 1 .. n : t \in TxIds /\ (t = n \/ t \in 1 .. tracked)
    BY <1>1, <2>1, CollectionAssumption DEF TxIds
  <2>3. txs'[n].fees = list[w] /\ \A t \in TxIds : t # n => txs'[t] = txs[t]
    BY <1>1, <2>1
  <2>4. ASSUME NEW t \in 1 .. tracked' PROVE DebtOf(txs'[t].fees) > 0
    BY <2>1, <2>2, <2>3 DEF PaymentInv, ChargesAreDebts
  <2>5. ASSUME NEW v \in Workers, pc'[v] = "build" PROVE DebtOf(list'[v]) > 0
    BY <1>1, <2>1, <2>5 DEF PaymentInv, ChargesAreDebts
  <2>6. ChargesAreDebts'
    BY <2>4, <2>5 DEF ChargesAreDebts, DebtOf
  <2>7. QED BY <1>2, <2>6 DEF PaymentInv, MinedWasSent
<1>5. CASE ~(\E k \in Keys : FeesDue(w, k)) /\ ~CreateTx(w)
  <2>1. UNCHANGED <<tracked, txs>>
    BY <1>5 DEF WorkerStep, Crash, Start, ProcessFees, EndCycle, NothingDue, LookupFails,
       AttemptFails, Sign, MarkAcked, MarkFails, Broadcast, tableVars
  <2>2. \A v \in Workers : pc'[v] = "build" => pc[v] = "build" /\ list'[v] = list[v]
    BY <1>1, <1>5 DEF WorkerStep, Crash, Start, ProcessFees, EndCycle, NothingDue, LookupFails,
       AttemptFails, NextKey, Sign, MarkAcked, MarkFails, Broadcast
  <2>3. QED BY <1>2, <2>1, <2>2, PaymentQuiet
<1>6. QED BY <1>3, <1>4, <1>5

LEMMA PaymentNext ==
  ASSUME Inv, PaymentInv, [Next]_vars
  PROVE  PaymentInv'
<1>1. ASSUME NEW t \in TxIds, ServiceStep(t) PROVE PaymentInv'
  <2>1. UNCHANGED <<pc, list, issued, tracked, txs>>
    BY <1>1 DEF ServiceStep, MarkCollected, RefuseMark, AcceptTx, RejectTx, Mine, workerVars,
       tableVars, verifierVars
  <2>2. MinedWasSent'
    <3>1. CASE Mine(t)
      BY <3>1 DEF Mine, Inv, TypeOK, PaymentInv, MinedWasSent
    <3>2. CASE ~Mine(t)
      BY <1>1, <3>2 DEF ServiceStep, MarkCollected, RefuseMark, AcceptTx, RejectTx, nodeVars,
         PaymentInv, MinedWasSent
    <3>3. QED BY <3>1, <3>2
  <2>3. QED BY <2>1, <2>2 DEF PaymentInv, ChargesAreDebts, DebtOf
<1>2. ASSUME NEW f \in Fees, IssueFee(f) PROVE PaymentInv'
  <2>1. issued' = issued \cup {f} /\ UNCHANGED <<pc, list, tracked, txs, sent, receipt>>
    BY <1>2 DEF IssueFee, workerVars, tableVars, nodeVars
  <2>2. IsFiniteSet(issued)'
    BY <2>1, FS_AddElement DEF PaymentInv
  <2>3. QED BY <2>1, <2>2 DEF PaymentInv, ChargesAreDebts, DebtOf, MinedWasSent
<1>3. CASE \/ \E k \in Keys : InsertPublicKey(k) \/ UserTx(k)
           \/ \E t \in TxIds : BreakConnection(t) \/ LoseRequest(t)
  <2>1. UNCHANGED <<pc, list, issued, tracked, txs, sent, receipt>>
    BY <1>3 DEF InsertPublicKey, UserTx, BreakConnection, LoseRequest, workerVars, verifierVars,
       tableVars, nodeVars
  <2>2. QED BY <2>1, PaymentQuiet
<1>4. CASE UNCHANGED vars
  BY <1>4, PaymentQuiet DEF vars, workerVars, verifierVars, tableVars, nodeVars
<1>5. QED BY <1>1, <1>2, <1>3, <1>4, PaymentWorker DEF Next, Environment

LEMMA PaymentStart == Init => PaymentInv
BY FS_EmptySet DEF Init, PaymentInv, ChargesAreDebts, MinedWasSent

LEMMA SpecPaymentInv == Spec => [](Inv /\ PaymentInv)
  BY InitInv, NextInv, PaymentStart, PaymentNext, PTL DEF Spec

(* Entries of one vault come to a debt the loop computes exactly. *)
LEMMA OwnedDebt ==
  ASSUME AmountsFit, NEW k \in Keys,
         NEW S \in SUBSET {f \in Fees : Owner[f] = k}, IsFiniteSet(S)
  PROVE  DebtOf(S) = WorthOf(Entry, S)
<1>1. Entries(Entry, S)
  BY CollectionAssumption DEF Entries
<1>2. WorthOf(Entry, S) \in Int64
  BY DEF AmountsFit
<1>3. QED BY <1>1, <1>2, DebtIsWorth DEF DebtOf

LEMMA InvPaidMatches ==
  ASSUME AmountsFit, Conditional \/ SingleWorker, Inv, PaymentInv
  PROVE  PaidMatchesEntries
<1> SUFFICES ASSUME NEW k \in Keys
             PROVE  Received(k) =
                      DebtOf(UNION {txs[t].fees : t \in {u \in Paid : txs[u].key = k}})
  BY DEF PaidMatchesEntries
<1> DEFINE P == {t \in Paid : txs[t].key = k}
           D == {f \in issued : Owner[f] = k}
           part == [t \in TxIds |-> txs[t].fees]
           a == [t \in TxIds |-> ToUint64(DebtOf(txs[t].fees))]
           m == [f \in DOMAIN Entry |-> Worth(Entry[f])]
           All == UNION {txs[t].fees : t \in P}
<1>1. IsFiniteSet(D) /\ D \subseteq {f \in Fees : Owner[f] = k}
  <2>1. IsFiniteSet(issued) /\ issued \subseteq Fees /\ D \subseteq issued
    BY DEF PaymentInv, Inv, TypeOK
  <2>2. QED BY <2>1, FS_Subset
<1>2. IsFiniteSet(P) /\ P \subseteq TxIds
  <2>1. P \subseteq TxIds
    BY DEF Paid
  <2>2. IsFiniteSet(TxIds)
    BY CollectionAssumption, FS_Interval DEF TxIds
  <2>3. QED BY <2>1, <2>2, FS_Subset
<1>3. ASSUME NEW t \in P
      PROVE  t \in 1 .. tracked /\ t \in Authorised /\ part[t] = txs[t].fees
  <2>1. t \in TxIds /\ t \in sent
    BY DEF Paid, PaymentInv, MinedWasSent
  <2>2. ~(t > tracked)
    BY <2>1 DEF Inv, FreshIds
  <2>3. QED BY <2>1, <2>2, CollectionAssumption DEF Authorised, TxIds, Inv, TypeOK
<1>4. \A t \in P : part[t] \subseteq D
  BY <1>3 DEF Inv, RowsOwned
<1>5. \A t, u \in P : t # u => part[t] \cap part[u] = {}
  BY <1>3 DEF Inv, ReleasedOnce
<1>6. Weighs(m, D)
  <2>1. ASSUME NEW f \in D PROVE m[f] \in Int
    <3>1. f \in Fees /\ DOMAIN Entry = Fees /\ Entry[f] \in FeeEntry
      BY <1>1, CollectionAssumption
    <3>2. 0 \in Int64
      BY HalfAssumption DEF Int64
    <3>3. QED BY <3>1, <3>2, AddFeeWraps
  <2>2. QED BY <2>1 DEF Weighs
<1>7. ASSUME NEW t \in P PROVE a[t] = SumOver(m, part[t])
  <2>1. part[t] \subseteq D /\ IsFiniteSet(part[t]) /\ part[t] = txs[t].fees
    BY <1>1, <1>3, <1>4, FS_Subset
  <2>2. DebtOf(txs[t].fees) > 0
    BY <1>3 DEF PaymentInv, ChargesAreDebts
  <2>3. DebtOf(txs[t].fees) = WorthOf(Entry, txs[t].fees)
    BY <1>1, <2>1, OwnedDebt
  <2>4. DebtOf(txs[t].fees) \in Int
    <3>1. WorthOf(Entry, txs[t].fees) \in Int64
      BY <1>1, <2>1 DEF AmountsFit
    <3>2. QED BY <2>3, <3>1, HalfAssumption DEF Int64
  <2>5. a[t] = DebtOf(txs[t].fees)
    BY <1>2, <2>2, <2>4 DEF ToUint64
  <2>6. QED BY <2>1, <2>3, <2>5 DEF WorthOf
<1>8. All = UNION {part[t] : t \in P}
  BY <1>3
<1>9. SumOver(a, P) = SumOver(m, All)
  <2> HIDE DEF P, D, part, a, m, All
  <2>1. QED BY <1>1, <1>2, <1>4, <1>5, <1>6, <1>7, <1>8, SumOfParts
<1>10. DebtOf(All) = SumOver(m, All)
  <2>1. All \subseteq D
    BY <1>4, <1>8
  <2>2. IsFiniteSet(All) /\ All \in SUBSET {f \in Fees : Owner[f] = k}
    BY <1>1, <2>1, FS_Subset
  <2>3. DebtOf(All) = WorthOf(Entry, All)
    BY <2>2, OwnedDebt
  <2>4. QED BY <2>3 DEF WorthOf
<1>11. QED BY <1>9, <1>10 DEF Received

(* The treasury receives from every vault exactly what the entries its     *)
(* transfers paid come to, credits included and none used twice, however   *)
(* the entries were spread over transfers, crashes and lost messages; if   *)
(* one worker runs or the verifier refuses marks that overlap, and what a  *)
(* vault owes fits an int64.                                               *)
THEOREM PaymentsAddUp ==
  ASSUME AmountsFit, Conditional \/ SingleWorker
  PROVE  Spec => []PaidMatchesEntries
  BY SpecPaymentInv, InvPaidMatches, PTL

-----------------------------------------------------------------------------
(* Attempts.  A lone worker builds a transaction again only for a reason:  *)
(* entries it listed are on record now, or something failed.               *)

(* Entries on record were issued, so there are finitely many. *)
LEMMA CollectedIsFinite ==
  ASSUME Inv, PaymentInv
  PROVE  /\ Collected \subseteq issued
         /\ IsFiniteSet(Collected) /\ Cardinality(Collected) \in Nat
<1>1. ASSUME NEW f \in Collected PROVE f \in issued
  <2>1. f \in Fees /\ collectedBy[f] \in TxIds
    BY DEF Collected, Inv, TypeOK, NoTx
  <2>2. collectedBy[f] \in 1 .. tracked /\ f \in txs[collectedBy[f]].fees
    BY <2>1, CollectionAssumption DEF Collected, Inv, TypeOK, RecordNamesRow, TxIds
  <2>3. QED BY <2>2 DEF Inv, RowsOwned
<1>2. IsFiniteSet(issued) /\ Collected \subseteq issued
  BY <1>1 DEF PaymentInv
<1>3. IsFiniteSet(Collected)
  BY <1>2, FS_Subset
<1>4. QED BY <1>2, <1>3, FS_CardinalityType

LEMMA AttemptsStart == Init => AttemptsCounted
<1> SUFFICES ASSUME Init, NEW w \in Workers
             PROVE  Accounted(w) /\ SigningIsSilent(w) /\ SendingIsExplained(w)
  BY DEF AttemptsCounted
<1>1. tracked = 0 /\ faults = 0 /\ pc[w] = "down" /\ Collected = {}
  BY DEF Init, Collected
<1>2. Cardinality(Collected) = 0
  BY <1>1, FS_EmptySet
<1>3. QED
  BY <1>1, <1>2 DEF Accounted, AboutToBuild, Unexplained, SigningIsSilent, SendingIsExplained

(* A worker that leaves its attempt owes no explanation, if the attempt    *)
(* had one or a failure is being counted.                                  *)
LEMMA LeavingIsAccounted ==
  ASSUME Inv, PaymentInv, NEW w \in Workers, Accounted(w),
         NEW l \in {"down", "idle", "lookup"}, pc' = [pc EXCEPT ![w] = l],
         UNCHANGED <<collectedBy, tracked>>,
         \/ faults' = faults + 1
         \/ faults' = faults /\ Unexplained(w) = 0
  PROVE  (Accounted(w) /\ SigningIsSilent(w) /\ SendingIsExplained(w))'
<1>1. pc'[w] = l /\ Collected' = Collected
  BY DEF Inv, TypeOK, Collected
<1>2. AboutToBuild(w)' = 0 /\ Unexplained(w)' = 0
  BY <1>1 DEF AboutToBuild, Unexplained
<1>3. tracked \in Nat /\ faults \in Nat /\ Cardinality(Collected) \in Nat
  BY CollectedIsFinite, CollectionAssumption DEF Inv, TypeOK
<1>4. Unexplained(w) \in {0, 1} /\ AboutToBuild(w) \in {0, 1}
  BY DEF Unexplained, AboutToBuild
<1>5. Accounted(w)'
  BY <1>1, <1>2, <1>3, <1>4 DEF Accounted
<1>6. QED BY <1>1, <1>5 DEF SigningIsSilent, SendingIsExplained

(* Every step of a lone worker. *)
LEMMA WorkerAccounted ==
  ASSUME Inv, PaymentInv, AttemptsCounted, NEW w \in Workers, Workers = {w},
         WorkerStep(w) \/ Crash(w)
  PROVE  (Accounted(w) /\ SigningIsSilent(w) /\ SendingIsExplained(w))'
<1>1. Accounted(w) /\ SigningIsSilent(w) /\ SendingIsExplained(w)
  BY DEF AttemptsCounted
<1>2. tracked \in Nat /\ faults \in Nat /\ Cardinality(Collected) \in Nat
  BY CollectedIsFinite, CollectionAssumption DEF Inv, TypeOK
<1>3. /\ pc \in [Workers -> Locations] /\ list \in [Workers -> SUBSET Fees]
      /\ tx \in [Workers -> TxIds \cup {NoTx}] /\ txs \in [TxIds -> TxRow]
      /\ answer \in [TxIds -> {"none", "ok", "error"}]
  BY DEF Inv, TypeOK
<1>4. CASE Start(w) \/ ProcessFees(w) \/ EndCycle(w)
  <2>1. Unexplained(w) = 0
    BY <1>4 DEF Start, ProcessFees, EndCycle, Unexplained
  <2>2. UNCHANGED <<collectedBy, tracked, faults>>
    BY <1>4 DEF Start, ProcessFees, EndCycle, verifierVars, tableVars
  <2>3. \E l \in {"down", "idle", "lookup"} : pc' = [pc EXCEPT ![w] = l]
    BY <1>4 DEF Start, ProcessFees, EndCycle
  <2>4. QED BY <1>1, <2>1, <2>2, <2>3, LeavingIsAccounted
<1>5. CASE Crash(w) \/ AttemptFails(w)
  <2>1. UNCHANGED <<collectedBy, tracked>> /\ faults' = faults + 1
    BY <1>5 DEF Crash, AttemptFails, Fault, verifierVars, tableVars
  <2>2. \E l \in {"down", "idle", "lookup"} : pc' = [pc EXCEPT ![w] = l]
    BY <1>5 DEF Crash, AttemptFails, NextKey
  <2>3. QED BY <1>1, <2>1, <2>2, LeavingIsAccounted
<1>6. ASSUME NEW k \in Keys, NothingDue(w, k) \/ LookupFails(w, k)
      PROVE  (Accounted(w) /\ SigningIsSilent(w) /\ SendingIsExplained(w))'
  <2>1. Unexplained(w) = 0
    BY <1>6 DEF NothingDue, LookupFails, Unexplained
  <2>2. UNCHANGED <<collectedBy, tracked>> /\ (faults' = faults + 1 \/ faults' = faults)
    BY <1>6 DEF NothingDue, LookupFails, Fault, verifierVars, tableVars
  <2>3. pc' = [pc EXCEPT ![w] = "lookup"] \/ pc' = [pc EXCEPT ![w] = "idle"]
    BY <1>3, <1>6 DEF NothingDue, LookupFails
  <2>4. QED BY <1>1, <2>1, <2>2, <2>3, LeavingIsAccounted
<1>7. ASSUME NEW k \in Keys, FeesDue(w, k)
      PROVE  (Accounted(w) /\ SigningIsSilent(w) /\ SendingIsExplained(w))'
  <2>1. /\ pc[w] = "lookup" /\ pc'[w] = "build" /\ list'[w] = Due(k)
        /\ UNCHANGED <<collectedBy, tracked, faults>>
    BY <1>3, <1>7 DEF FeesDue, verifierVars, tableVars
  <2>2. Collected' = Collected /\ Due(k) \cap Collected = {}
    BY <2>1 DEF Collected, Due
  <2>3. AboutToBuild(w) = 0 /\ Unexplained(w) = 0 /\ AboutToBuild(w)' = 1 /\ Unexplained(w)' = 1
    BY <2>1, <2>2 DEF AboutToBuild, Unexplained, Explained
  <2>4. Accounted(w)'
    BY <1>1, <1>2, <2>1, <2>2, <2>3 DEF Accounted
  <2>5. QED BY <2>1, <2>4 DEF SigningIsSilent, SendingIsExplained
<1>8. CASE CreateTx(w)
  <2> DEFINE n == tracked + 1
  <2>1. /\ pc[w] = "build" /\ pc'[w] = "sign" /\ tx'[w] = n /\ tracked' = n /\ n \in TxIds
        /\ UNCHANGED <<list, collectedBy, faults, wire, answer>>
    BY <1>2, <1>3, <1>8, CollectionAssumption DEF CreateTx, TxIds, verifierVars
  <2>2. Collected' = Collected
    BY <2>1 DEF Collected
  <2>3. AboutToBuild(w) = 1 /\ AboutToBuild(w)' = 0 /\ Unexplained(w)' = Unexplained(w)
    BY <2>1, <2>2 DEF AboutToBuild, Unexplained, Explained
  <2>4. Unexplained(w) \in {0, 1}
    BY DEF Unexplained
  <2>5. Accounted(w)'
    BY <1>1, <1>2, <2>1, <2>2, <2>3, <2>4 DEF Accounted
  <2>6. SigningIsSilent(w)'
    <3>1. n > tracked
      BY <1>2
    <3>2. {Mark(n), Send(n)} \cap wire = {} /\ answer[n] = "none"
      BY <2>1, <3>1 DEF Inv, FreshIds
    <3>3. QED BY <2>1, <3>2 DEF SigningIsSilent, Mark, Send
  <2>7. QED BY <2>1, <2>5, <2>6 DEF SendingIsExplained
<1>9. CASE Sign(w)
  <2>1. /\ pc[w] = "sign" /\ pc'[w] = "marking"
        /\ UNCHANGED <<list, tx, tracked, collectedBy, faults, answer>>
    BY <1>3, <1>9 DEF Sign, verifierVars, tableVars
  <2>2. Collected' = Collected
    BY <2>1 DEF Collected
  <2>3. answer[tx[w]] = "none"
    BY <1>1, <2>1 DEF SigningIsSilent
  <2>4. Unexplained(w)' = Unexplained(w) /\ AboutToBuild(w)' = AboutToBuild(w)
    BY <2>1, <2>2, <2>3 DEF AboutToBuild, Unexplained, Explained
  <2>5. Accounted(w)'
    BY <1>1, <2>1, <2>2, <2>4 DEF Accounted
  <2>6. QED BY <2>1, <2>5 DEF SigningIsSilent, SendingIsExplained
<1>10. CASE MarkAcked(w)
  <2>1. /\ pc[w] = "marking" /\ pc'[w] = "sending" /\ answer[tx[w]] = "ok"
        /\ UNCHANGED <<list, tracked, collectedBy, faults>>
    BY <1>3, <1>10 DEF MarkAcked, verifierVars, tableVars
  <2>2. Collected' = Collected
    BY <2>1 DEF Collected
  <2>3. tx[w] \in 1 .. tracked /\ tx[w] \in TxIds /\ txs[tx[w]].fees = list[w]
    BY <1>3, <2>1, CollectionAssumption DEF Inv, TypeOK, AttemptMatchesRow, TxIds
  <2>4. Recorded(tx[w])
    BY <2>1, <2>3 DEF Inv, ReleasedAfterRecord
  <2>5. list[w] \cap Collected # {}
    BY <1>3, <2>3, <2>4 DEF Inv, RowsOwned, Recorded, Collected
  <2>6. Unexplained(w) = 0 /\ Unexplained(w)' = 0 /\ AboutToBuild(w)' = AboutToBuild(w)
    BY <2>1, <2>2, <2>5 DEF AboutToBuild, Unexplained, Explained
  <2>7. Accounted(w)'
    BY <1>1, <2>1, <2>2, <2>6 DEF Accounted
  <2>8. QED BY <2>1, <2>2, <2>5, <2>7 DEF SigningIsSilent, SendingIsExplained
<1>11. CASE MarkFails(w) \/ Broadcast(w)
  <2>1. Unexplained(w) = 0
    BY <1>1, <1>11 DEF MarkFails, Broadcast, Unexplained, Explained, SendingIsExplained
  <2>2. UNCHANGED <<collectedBy, tracked, faults>>
    BY <1>11 DEF MarkFails, Broadcast, verifierVars, tableVars
  <2>3. pc' = [pc EXCEPT ![w] = "lookup"]
    BY <1>11 DEF MarkFails, Broadcast, NextKey
  <2>4. QED BY <1>1, <2>1, <2>2, <2>3, LeavingIsAccounted
<1>12. QED
  BY <1>4, <1>5, <1>6, <1>7, <1>8, <1>9, <1>10, <1>11 DEF WorkerStep

(* A step of the services or of the environment: what explains an attempt  *)
(* that was unexplained is counted, as an entry or as a failure.           *)
LEMMA ServiceAccounted ==
  ASSUME Inv, PaymentInv, AttemptsCounted, NEW w \in Workers, Workers = {w},
         UNCHANGED <<workerVars, tracked>>, wire' \subseteq wire,
         Inv', PaymentInv',
         Collected \subseteq Collected',
         faults' = faults \/ faults' = faults + 1,
         pc[w] = "sign" => answer'[tx[w]] = answer[tx[w]],
         \/ Explained(w)' => Explained(w)
         \/ Collected' # Collected
         \/ faults' = faults + 1
  PROVE  (Accounted(w) /\ SigningIsSilent(w) /\ SendingIsExplained(w))'
<1>1. Accounted(w) /\ SigningIsSilent(w) /\ SendingIsExplained(w)
  BY DEF AttemptsCounted
<1>2. UNCHANGED <<pc, list, tx>>
  BY DEF workerVars
<1>3. tracked \in Nat /\ faults \in Nat /\ Cardinality(Collected) \in Nat
  BY CollectedIsFinite, CollectionAssumption DEF Inv, TypeOK
<1>4. IsFiniteSet(Collected') /\ Cardinality(Collected') \in Nat
  <2>1. Collected' \subseteq issued' /\ IsFiniteSet(issued')
    <3>1. ASSUME NEW f \in Collected' PROVE f \in issued'
      <4>1. f \in Fees /\ collectedBy'[f] \in TxIds
        BY DEF Collected, Inv, TypeOK, NoTx
      <4>2. collectedBy'[f] \in 1 .. tracked' /\ f \in txs'[collectedBy'[f]].fees
        BY <4>1, CollectionAssumption DEF Collected, Inv, TypeOK, RecordNamesRow, TxIds
      <4>3. QED BY <4>2 DEF Inv, RowsOwned
    <3>2. QED BY <3>1 DEF PaymentInv
  <2>2. IsFiniteSet(Collected')
    BY <2>1, FS_Subset
  <2>3. QED BY <2>2, FS_CardinalityType
<1>5. /\ Cardinality(Collected) <= Cardinality(Collected')
      /\ Collected' # Collected => Cardinality(Collected) < Cardinality(Collected')
  <2>1. /\ Cardinality(Collected) <= Cardinality(Collected')
        /\ Cardinality(Collected') = Cardinality(Collected) => Collected' = Collected
    BY <1>4, FS_Subset
  <2>2. QED BY <1>3, <1>4, <2>1
<1>6. AboutToBuild(w)' = AboutToBuild(w) /\ AboutToBuild(w) \in {0, 1}
  BY <1>2 DEF AboutToBuild
<1>7. /\ Unexplained(w) \in {0, 1} /\ Unexplained(w)' \in {0, 1}
      /\ (Explained(w)' => Explained(w)) => Unexplained(w) <= Unexplained(w)'
  BY <1>2 DEF Unexplained
<1>8. Accounted(w)'
  <2> DEFINE c == Cardinality(Collected)
             d == Cardinality(Collected')
             u == Unexplained(w)
             v == Unexplained(w)'
             b == AboutToBuild(w)
  <2>1. tracked + b <= c + faults + u
    BY <1>1 DEF Accounted
  <2>2. tracked' + b <= d + faults' + v
    <3>1. d + faults' + v >= c + faults + u
      <4> HIDE DEF c, d, u, v
      <4>1. c \in Nat /\ d \in Nat /\ c <= d /\ u \in {0, 1} /\ v \in {0, 1}
        BY <1>3, <1>4, <1>5, <1>7 DEF c, d, u, v
      <4>2. u <= v \/ c < d \/ faults' = faults + 1
        BY <1>5, <1>7 DEF c, d, u, v
      <4>3. QED BY <1>3, <4>1, <4>2
    <3>2. QED BY <1>3, <1>4, <1>6, <1>7, <2>1, <3>1
  <2>3. QED BY <1>6, <2>2 DEF Accounted
<1>9. SigningIsSilent(w)'
  BY <1>1, <1>2 DEF SigningIsSilent
<1>10. SendingIsExplained(w)'
  BY <1>1, <1>2 DEF SendingIsExplained
<1>11. QED BY <1>8, <1>9, <1>10

(* What the verifier and the node do with a request. *)
LEMMA HandlerAccounted ==
  ASSUME Inv, PaymentInv, AttemptsCounted, Inv', PaymentInv', NEW w \in Workers, Workers = {w},
         NEW t \in TxIds, ServiceStep(t)
  PROVE  (Accounted(w) /\ SigningIsSilent(w) /\ SendingIsExplained(w))'
<1>1. /\ answer \in [TxIds -> {"none", "ok", "error"}] /\ txs \in [TxIds -> TxRow]
      /\ collectedBy \in [Fees -> TxIds \cup {NoTx}]
  BY DEF Inv, TypeOK
<1>2. pc[w] \in {"sign", "marking", "sending"} =>
        tx[w] \in TxIds /\ tx[w] \in 1 .. tracked /\ txs[tx[w]].fees = list[w]
  BY CollectionAssumption DEF Inv, TypeOK, AttemptMatchesRow, TxIds
<1>3. pc[w] = "sign" => answer[tx[w]] = "none" /\ {Mark(tx[w]), Send(tx[w])} \cap wire = {}
  BY DEF AttemptsCounted, SigningIsSilent
<1>4. UNCHANGED workerVars /\ wire' \subseteq wire /\ UNCHANGED tracked
  BY <1>1 DEF ServiceStep, MarkCollected, RefuseMark, AcceptTx, RejectTx, Mine, tableVars
<1>5. UNCHANGED <<pc, list, tx>>
  BY <1>4 DEF workerVars
<1>6. pc[w] = "sign" => answer'[tx[w]] = answer[tx[w]]
  <2> SUFFICES ASSUME pc[w] = "sign" PROVE answer'[tx[w]] = answer[tx[w]]
    OBVIOUS
  <2>1. CASE Mine(t)
    BY <2>1 DEF Mine
  <2>2. CASE ~Mine(t)
    <3>1. t # tx[w]
      BY <1>3, <2>2 DEF ServiceStep, MarkCollected, RefuseMark, AcceptTx, RejectTx
    <3>2. QED
      BY <1>1, <1>2, <2>2, <3>1
         DEF ServiceStep, MarkCollected, RefuseMark, AcceptTx, RejectTx, Answered
  <2>3. QED BY <2>1, <2>2
<1>7. CASE MarkCollected(t)
  <2>1. /\ collectedBy' = [f \in Fees |-> IF f \in txs[t].fees THEN t ELSE collectedBy[f]]
        /\ faults' = faults /\ answer' = Answered(t, "ok")
    BY <1>7 DEF MarkCollected
  <2>2. Collected \subseteq Collected'
    BY <2>1 DEF Collected, TxIds, NoTx
  <2>3. pc[w] = "marking" /\ answer'[tx[w]] = "error" => answer[tx[w]] = "error"
    BY <1>1, <1>2, <2>1 DEF Answered
  <2>4. (Explained(w)' => Explained(w)) \/ Collected' # Collected
    BY <1>5, <2>3 DEF Explained
  <2>5. QED BY <1>4, <1>6, <2>1, <2>2, <2>4, ServiceAccounted
<1>8. CASE RefuseMark(t) \/ RejectTx(t)
  <2>1. /\ Collected' = Collected /\ faults' = faults /\ answer' = Answered(t, "error")
    BY <1>8 DEF RefuseMark, RejectTx, verifierVars, Collected
  <2>2. ASSUME pc[w] = "marking", t = tx[w] PROVE list[w] \cap Collected # {}
    <3>1. CASE RefuseMark(t)
      <4>1. PICK f \in txs[t].fees : collectedBy[f] # NoTx
        BY <3>1 DEF RefuseMark
      <4>2. f \in Fees
        BY <1>1, <4>1 DEF TxRow
      <4>3. QED BY <1>2, <2>2, <4>1, <4>2 DEF Collected
    <3>2. CASE RejectTx(t)
      <4>1. Recorded(t)
        BY <3>2 DEF RejectTx, Authorised, Inv, ReleasedAfterRecord
      <4>2. PICK f \in txs[t].fees : f \in Fees
        BY <1>1, <1>2, <2>2 DEF Inv, RowsOwned, TxRow
      <4>3. QED BY <1>2, <2>2, <4>1, <4>2 DEF Recorded, Collected
    <3>3. QED BY <1>8, <3>1, <3>2
  <2>3. Explained(w)' => Explained(w)
    BY <1>1, <1>2, <1>5, <2>1, <2>2 DEF Explained, Answered
  <2>4. QED BY <1>4, <1>6, <2>1, <2>3, ServiceAccounted
<1>9. CASE AcceptTx(t)
  <2>1. Collected' = Collected /\ faults' = faults /\ answer' = Answered(t, "ok")
    BY <1>9 DEF AcceptTx, verifierVars, Collected
  <2>2. Explained(w)' => Explained(w)
    BY <1>1, <1>2, <1>5, <2>1 DEF Explained, Answered
  <2>3. QED BY <1>4, <1>6, <2>1, <2>2, ServiceAccounted
<1>10. CASE Mine(t)
  <2>1. Collected' = Collected /\ answer' = answer /\ (faults' = faults \/ faults' = faults + 1)
    BY <1>10 DEF Mine, Fault, verifierVars, Collected
  <2>2. Explained(w)' => Explained(w)
    BY <1>5, <2>1 DEF Explained
  <2>3. QED BY <1>4, <1>6, <2>1, <2>2, ServiceAccounted
<1>11. QED BY <1>7, <1>8, <1>9, <1>10 DEF ServiceStep

(* The environment only issues, registers and fails. *)
LEMMA EnvironmentAccounted ==
  ASSUME Inv, PaymentInv, AttemptsCounted, Inv', PaymentInv', NEW w \in Workers, Workers = {w},
         Environment \/ UNCHANGED vars
  PROVE  (Accounted(w) /\ SigningIsSilent(w) /\ SendingIsExplained(w))'
<1>1. /\ UNCHANGED <<workerVars, collectedBy, tracked>> /\ wire' \subseteq wire
      /\ (faults' = faults /\ answer' = answer) \/ faults' = faults + 1
  BY DEF Environment, InsertPublicKey, UserTx, IssueFee, BreakConnection, LoseRequest, Fault,
     vars, workerVars, verifierVars, tableVars
<1>2. Collected' = Collected
  BY <1>1 DEF Collected
<1>3. (Explained(w)' => Explained(w)) \/ faults' = faults + 1
  BY <1>1, <1>2 DEF Explained, workerVars
<1>4. pc[w] = "sign" => answer'[tx[w]] = answer[tx[w]]
  <2> SUFFICES ASSUME pc[w] = "sign" PROVE answer'[tx[w]] = answer[tx[w]]
    OBVIOUS
  <2>1. tx[w] \in TxIds /\ {Mark(tx[w]), Send(tx[w])} \cap wire = {}
        /\ answer \in [TxIds -> {"none", "ok", "error"}]
    BY CollectionAssumption
       DEF AttemptsCounted, SigningIsSilent, Inv, TypeOK, AttemptMatchesRow, TxIds
  <2>2. ASSUME NEW t \in TxIds, BreakConnection(t) \/ LoseRequest(t)
        PROVE  answer'[tx[w]] = answer[tx[w]]
    <3>1. t # tx[w]
      BY <2>1, <2>2 DEF BreakConnection, LoseRequest
    <3>2. QED BY <2>1, <2>2, <3>1 DEF BreakConnection, LoseRequest, Answered
  <2>3. CASE \/ \E k \in Keys : InsertPublicKey(k) \/ UserTx(k)
             \/ \E f \in Fees : IssueFee(f)
             \/ UNCHANGED vars
    BY <2>3 DEF InsertPublicKey, UserTx, IssueFee, vars
  <2>4. QED BY <2>2, <2>3 DEF Environment
<1>5. faults' = faults \/ faults' = faults + 1
  BY <1>1
<1>6. UNCHANGED <<workerVars, tracked>> /\ wire' \subseteq wire
  BY <1>1
<1>7. QED BY <1>2, <1>3, <1>4, <1>5, <1>6, ServiceAccounted

LEMMA AttemptsNext ==
  ASSUME Inv, PaymentInv, AttemptsCounted, Inv', PaymentInv', [Next]_vars
  PROVE  AttemptsCounted'
<1> SUFFICES ASSUME NEW w \in Workers, Workers = {w}
             PROVE  (Accounted(w) /\ SigningIsSilent(w) /\ SendingIsExplained(w))'
  BY DEF AttemptsCounted
<1>1. ASSUME NEW v \in Workers, WorkerStep(v) \/ Crash(v)
      PROVE  (Accounted(w) /\ SigningIsSilent(w) /\ SendingIsExplained(w))'
  BY <1>1, WorkerAccounted
<1>2. QED BY <1>1, HandlerAccounted, EnvironmentAccounted DEF Next

LEMMA SpecAttempts == Spec => [](Inv /\ PaymentInv /\ AttemptsCounted)
<1>1. Inv /\ PaymentInv /\ AttemptsCounted /\ [Next]_vars
        => (Inv /\ PaymentInv /\ AttemptsCounted)'
  BY NextInv, PaymentNext, AttemptsNext
<1>2. QED BY InitInv, PaymentStart, AttemptsStart, <1>1, PTL DEF Spec

LEMMA CountedIsBounded ==
  ASSUME Inv, PaymentInv, AttemptsCounted PROVE AttemptsBounded
<1> SUFFICES ASSUME NEW w \in Workers, Workers = {w}
             PROVE  tracked <= Cardinality(Collected) + faults
                      + (IF pc[w] \in {"sign", "marking", "sending"} THEN 1 ELSE 0)
  BY DEF AttemptsBounded
<1>1. Accounted(w)
  BY DEF AttemptsCounted
<1>2. tracked \in Nat /\ faults \in Nat /\ Cardinality(Collected) \in Nat
  BY CollectedIsFinite, CollectionAssumption DEF Inv, TypeOK
<1>3. /\ Unexplained(w) \in {0, 1} /\ AboutToBuild(w) \in {0, 1}
      /\ Unexplained(w) <= AboutToBuild(w)
                             + (IF pc[w] \in {"sign", "marking", "sending"} THEN 1 ELSE 0)
  BY DEF Unexplained, AboutToBuild
<1>4. QED BY <1>1, <1>2, <1>3 DEF Accounted

(* A lone worker does not build and sign without end: its transactions are *)
(* at most the entries on record, the failures, and the one under way,     *)
(* whatever the order of cycles, late answers and lost requests.           *)
THEOREM AttemptsAreBounded == Spec => []AttemptsBounded
  BY SpecAttempts, CountedIsBounded, PTL

LEMMA CountedLeavesAnId ==
  ASSUME IsFiniteSet(Fees), MaxTx >= Cardinality(Fees) + MaxFaults,
         Inv, PaymentInv, AttemptsCounted
  PROVE  NeverOutOfIds
<1> SUFFICES ASSUME SingleWorker, NEW w \in Workers, pc[w] = "build" PROVE tracked < MaxTx
  BY DEF NeverOutOfIds
<1>1. Accounted(w) /\ AboutToBuild(w) = 1
  <2>1. Workers = {w}
    BY DEF SingleWorker
  <2>2. QED BY <2>1 DEF AttemptsCounted, AboutToBuild
<1>2. Cardinality(Fees) \in Nat
  BY FS_CardinalityType
<1>3. /\ tracked \in Nat /\ faults \in 0 .. MaxFaults /\ MaxTx \in Nat /\ MaxFaults \in Nat
      /\ Cardinality(Collected) \in Nat
  BY CollectedIsFinite, CollectionAssumption DEF Inv, TypeOK
<1>4. /\ Cardinality(Collected) <= Cardinality(Fees)
      /\ Cardinality(Fees) = Cardinality(Collected) => Collected = Fees
  <2>1. Collected \in SUBSET Fees
    BY DEF Collected
  <2>2. QED BY <2>1, FS_Subset
<1>5. CASE Explained(w)
  BY <1>1, <1>2, <1>3, <1>4, <1>5 DEF Accounted, Unexplained
<1>6. CASE ~Explained(w)
  <2>1. Collected # Fees
    BY <1>6 DEF Explained, Inv, TypeOK, AttemptMatchesRow
  <2>2. Cardinality(Collected) < Cardinality(Fees)
    BY <1>2, <1>3, <1>4, <2>1
  <2>3. Unexplained(w) = 1
    BY <1>6 DEF Unexplained
  <2>4. QED BY <1>1, <1>2, <1>3, <2>2, <2>3 DEF Accounted
<1>7. QED BY <1>5, <1>6

(* The bound on transactions is not what keeps a lone worker from doing    *)
(* wrong: with an id for every entry and every failure it never waits for  *)
(* one.                                                                    *)
THEOREM IdsSuffice ==
  ASSUME IsFiniteSet(Fees), MaxTx >= Cardinality(Fees) + MaxFaults
  PROVE  Spec => []NeverOutOfIds
  BY SpecAttempts, CountedLeavesAnId, PTL

-----------------------------------------------------------------------------
(* Losses.  A transaction becomes a loose end when the worker leaves it;   *)
(* the failure that made it leave, or took the nonce, is the one that      *)
(* covers it.                                                              *)

(* How a bounded number of losses may change in a step: x is lost, or is   *)
(* none any more; s and r tell whether one was about to be lost, before    *)
(* and after, m and n what is there to cover them.                         *)
LEMMA LossBound ==
  ASSUME NEW A, NEW B, IsFiniteSet(A), NEW x, NEW s \in {0, 1}, NEW r \in {0, 1},
         NEW m \in Nat, NEW n \in Nat, Cardinality(A) + s <= m,
         \/ B \subseteq A /\ r <= s /\ m <= n
         \/ B \subseteq A /\ n = m + 1
         \/ B \subseteq A \cup {x} /\ r <= s /\ n = m + 1
         \/ B \subseteq A \cup {x} /\ r = 0 /\ s = 1 /\ n = m
         \/ B \subseteq A \ {x} /\ x \in A /\ n = m
  PROVE  Cardinality(B) + r <= n
<1>1. Cardinality(A) \in Nat
  BY FS_CardinalityType
<1>2. IsFiniteSet(A \cup {x}) /\ Cardinality(A \cup {x}) \in Nat
      /\ Cardinality(A \cup {x}) <= Cardinality(A) + 1
  <2>1. IsFiniteSet(A \cup {x})
        /\ (Cardinality(A \cup {x}) = Cardinality(A) \/ Cardinality(A \cup {x}) = Cardinality(A) + 1)
    BY FS_AddElement
  <2>2. QED BY <1>1, <2>1
<1>3. x \in A => IsFiniteSet(A \ {x}) /\ Cardinality(A \ {x}) = Cardinality(A) - 1
  BY FS_RemoveElement
<1>4. CASE B \subseteq A \ {x} /\ x \in A /\ n = m
  <2>1. Cardinality(B) \in Nat /\ Cardinality(B) <= Cardinality(A) - 1
    BY <1>3, <1>4, FS_Subset, FS_CardinalityType
  <2>2. QED BY <1>1, <1>4, <2>1
<1>5. CASE B \subseteq A
  <2>1. Cardinality(B) \in Nat /\ Cardinality(B) <= Cardinality(A)
    BY <1>5, FS_Subset, FS_CardinalityType
  <2>2. QED BY <1>1, <1>3, <1>4, <2>1
<1>6. CASE B \subseteq A \cup {x}
  <2>1. Cardinality(B) \in Nat /\ Cardinality(B) <= Cardinality(A) + 1
    <3>1. IsFiniteSet(B) /\ Cardinality(B) <= Cardinality(A \cup {x})
      BY <1>2, <1>6, FS_Subset
    <3>2. QED BY <1>1, <1>2, <3>1, FS_CardinalityType
  <2>2. QED BY <1>1, <1>4, <1>5, <2>1
<1>7. QED BY <1>4, <1>5, <1>6

LEMMA LossesStep ==
  ASSUME Inv, Inv', NEW w \in Workers, LossesCovered(w), NEW x,
         \/ LooseEnds(w)' \subseteq LooseEnds(w) /\ (Slipping(w)' => Slipping(w)) /\ faults <= faults'
         \/ LooseEnds(w)' \subseteq LooseEnds(w) /\ faults' = faults + 1
         \/ LooseEnds(w)' \subseteq LooseEnds(w) \cup {x} /\ (Slipping(w)' => Slipping(w))
              /\ faults' = faults + 1
         \/ LooseEnds(w)' \subseteq LooseEnds(w) \cup {x} /\ ~Slipping(w)' /\ Slipping(w)
              /\ faults' = faults
         \/ LooseEnds(w)' \subseteq LooseEnds(w) \ {x} /\ x \in LooseEnds(w) /\ faults' = faults
  PROVE  LossesCovered(w)'
<1> DEFINE A == LooseEnds(w)
           B == LooseEnds(w)'
           s == IF Slipping(w) THEN 1 ELSE 0
           r == IF Slipping(w)' THEN 1 ELSE 0
<1>1. IsFiniteSet(A)
  <2>1. IsFiniteSet(TxIds) /\ A \subseteq TxIds
    BY CollectionAssumption, FS_Interval DEF TxIds, LooseEnds
  <2>2. QED BY <2>1, FS_Subset
<1>2. faults \in Nat /\ faults' \in Nat /\ s \in {0, 1} /\ r \in {0, 1}
  BY DEF Inv, TypeOK
<1>3. Cardinality(A) + s <= faults
  BY DEF LossesCovered
<1>4. \/ B \subseteq A /\ r <= s /\ faults <= faults'
      \/ B \subseteq A /\ faults' = faults + 1
      \/ B \subseteq A \cup {x} /\ r <= s /\ faults' = faults + 1
      \/ B \subseteq A \cup {x} /\ r = 0 /\ s = 1 /\ faults' = faults
      \/ B \subseteq A \ {x} /\ x \in A /\ faults' = faults
  OBVIOUS
<1>5. Cardinality(B) + r <= faults'
  <2> HIDE DEF A, B, s, r
  <2>1. QED BY <1>1, <1>2, <1>3, <1>4, LossBound
<1>6. QED BY <1>5 DEF LossesCovered

LEMMA LossesStart == Init => LossesCounted
<1> SUFFICES ASSUME Init, NEW w \in Workers
             PROVE  OneRequestAtATime /\ HandInStep(w) /\ LossesCovered(w)
  BY DEF LossesCounted
<1>1. wire = {} /\ sent = {} /\ faults = 0 /\ pc[w] = "down" /\ tx[w] = NoTx
      /\ \A f \in Fees : collectedBy[f] = NoTx
  BY DEF Init
<1>2. OneRequestAtATime /\ HandInStep(w)
  BY <1>1 DEF OneRequestAtATime, HandInStep, InHand
<1>3. LooseEnds(w) = {} /\ ~Slipping(w)
  BY <1>1 DEF LooseEnds, Loose, OnRecord, NoTx, TxIds, Slipping, AttemptOver, InHand
<1>4. LossesCovered(w)
  BY <1>1, <1>3, FS_EmptySet DEF LossesCovered
<1>5. QED BY <1>2, <1>4

(* What a worker in the middle of an attempt works on. *)
LEMMA HandTyped ==
  ASSUME Inv, NEW w \in Workers, InHand(w)
  PROVE  tx[w] \in TxIds /\ tx[w] \in 1 .. tracked /\ tx[w] # NoTx
BY CollectionAssumption DEF Inv, TypeOK, AttemptMatchesRow, InHand, TxIds, NoTx

(* Steps of the worker outside an attempt, and those that end one. *)
LEMMA LeavingCovered ==
  ASSUME Inv, Inv', NEW w \in Workers, Workers = {w},
         OneRequestAtATime, HandInStep(w), LossesCovered(w),
         UNCHANGED <<wire, collectedBy, txs, sent, receipt, nonce>>,
         ~InHand(w)',
         \/ ~InHand(w) /\ tx' = tx /\ (faults' = faults \/ faults' = faults + 1)
         \/ tx'[w] = NoTx /\ (faults' = faults + 1 \/ (faults' = faults /\ AttemptOver(w)))
  PROVE  (OneRequestAtATime /\ HandInStep(w) /\ LossesCovered(w))'
<1>1. OneRequestAtATime'
  BY DEF OneRequestAtATime, OnRecord
<1>2. HandInStep(w)'
  BY DEF HandInStep, InHand
<1>3. \A t \in TxIds : Loose(t)' = Loose(t)
  BY DEF Loose, OnRecord, Backed
<1>4. ~Slipping(w)'
  BY DEF Slipping, AttemptOver, InHand
<1>5. faults \in Nat
  BY DEF Inv, TypeOK
<1>6. LossesCovered(w)'
  <2>1. CASE ~InHand(w) /\ tx' = tx
    <3>1. LooseEnds(w)' = LooseEnds(w)
      BY <1>3, <2>1 DEF LooseEnds
    <3>2. faults <= faults'
      BY <1>5, <2>1 DEF AttemptOver, InHand
    <3>3. QED BY <1>4, <3>1, <3>2, LossesStep
  <2>2. CASE tx'[w] = NoTx /\ faults' = faults + 1
    <3>1. LooseEnds(w)' \subseteq LooseEnds(w) \cup {tx[w]}
      BY <1>3 DEF LooseEnds
    <3>2. QED BY <1>4, <2>2, <3>1, LossesStep
  <2>3. CASE tx'[w] = NoTx /\ faults' = faults /\ AttemptOver(w)
    <3>1. LooseEnds(w)' \subseteq LooseEnds(w) \cup {tx[w]}
      BY <1>3 DEF LooseEnds
    <3>2. CASE Loose(tx[w])
      <4>1. Slipping(w)
        BY <2>3, <3>2 DEF Slipping
      <4>2. QED BY <1>4, <2>3, <3>1, <4>1, LossesStep
    <3>3. CASE ~Loose(tx[w])
      <4>1. LooseEnds(w)' \subseteq LooseEnds(w)
        BY <1>3, <3>3 DEF LooseEnds
      <4>2. faults <= faults'
        BY <1>5, <2>3
      <4>3. QED BY <1>4, <4>1, <4>2, LossesStep
    <3>4. QED BY <3>2, <3>3
  <2>4. QED BY <2>1, <2>2, <2>3
<1>7. QED BY <1>1, <1>2, <1>6

(* Requests differ if they differ in kind or in the transaction. *)
LEMMA RequestsDiffer ==
  \A t, u : Mark(t) # Send(u) /\ (Mark(t) = Mark(u) => t = u) /\ (Send(t) = Send(u) => t = u)
BY DEF Mark, Send

(* Every step of a lone worker. *)
LEMMA WorkerCovered ==
  ASSUME Inv, Inv', NEW w \in Workers, Workers = {w},
         OneRequestAtATime, HandInStep(w), LossesCovered(w),
         WorkerStep(w) \/ Crash(w)
  PROVE  (OneRequestAtATime /\ HandInStep(w) /\ LossesCovered(w))'
<1>1. /\ pc \in [Workers -> Locations] /\ tx \in [Workers -> TxIds \cup {NoTx}]
      /\ answer \in [TxIds -> {"none", "ok", "error"}] /\ txs \in [TxIds -> TxRow]
      /\ tracked \in Nat /\ faults \in Nat
  BY CollectionAssumption DEF Inv, TypeOK
<1>2. CASE Start(w) \/ ProcessFees(w) \/ EndCycle(w)
           \/ \E k \in Keys : NothingDue(w, k) \/ FeesDue(w, k) \/ LookupFails(w, k)
  <2>1. /\ UNCHANGED <<wire, collectedBy, txs, sent, receipt, nonce, tx>>
        /\ faults' = faults \/ faults' = faults + 1
    BY <1>2 DEF Start, ProcessFees, EndCycle, NothingDue, FeesDue, LookupFails, Fault,
       verifierVars, tableVars, nodeVars
  <2>2. ~InHand(w) /\ ~InHand(w)'
    BY <1>1, <1>2 DEF Start, ProcessFees, EndCycle, NothingDue, FeesDue, LookupFails, InHand
  <2>3. QED BY <2>1, <2>2, LeavingCovered
<1>3. CASE Crash(w) \/ AttemptFails(w) \/ MarkFails(w) \/ Broadcast(w)
  <2>1. /\ UNCHANGED <<wire, collectedBy, txs, sent, receipt, nonce>>
        /\ faults' = faults + 1 \/ (faults' = faults /\ AttemptOver(w))
    <3>1. UNCHANGED <<wire, collectedBy, txs, sent, receipt, nonce>>
      BY <1>3 DEF Crash, AttemptFails, MarkFails, Broadcast, verifierVars, tableVars, nodeVars
    <3>2. CASE Crash(w) \/ AttemptFails(w)
      BY <3>1, <3>2 DEF Crash, AttemptFails, Fault
    <3>3. CASE MarkFails(w) \/ Broadcast(w)
      BY <3>1, <3>3 DEF MarkFails, Broadcast, AttemptOver
    <3>4. QED BY <1>3, <3>2, <3>3
  <2>2. ~InHand(w)' /\ tx'[w] = NoTx
    BY <1>1, <1>3 DEF Crash, AttemptFails, MarkFails, Broadcast, NextKey, InHand
  <2>3. QED BY <2>1, <2>2, LeavingCovered
<1>4. CASE CreateTx(w)
  <2> DEFINE n == tracked + 1
  <2>1. /\ pc[w] = "build" /\ pc'[w] = "sign" /\ tx'[w] = n /\ n \in TxIds
        /\ UNCHANGED <<wire, collectedBy, answer, sent, receipt, nonce, faults>>
        /\ txs'[n] = [key |-> pk[w], fees |-> list[w], nonce |-> nonce[pk[w]]]
    BY <1>1, <1>4, CollectionAssumption DEF CreateTx, TxIds, verifierVars, nodeVars
  <2>2. n > tracked
    BY <1>1
  <2>3. /\ Mark(n) \notin wire /\ Send(n) \notin wire /\ n \notin sent /\ answer[n] = "none"
    BY <2>1, <2>2 DEF Inv, FreshIds
  <2>4. ~OnRecord(n)
    BY <1>1, <2>1, <2>2 DEF OnRecord, Inv, RecordNamesRow, NoTx
  <2>5. \A t \in TxIds : OnRecord(t)' = OnRecord(t) /\ Loose(t)' = Loose(t)
    BY <2>1 DEF Loose, OnRecord, Backed
  <2>6. OneRequestAtATime'
    BY <2>1, <2>5 DEF OneRequestAtATime
  <2>7. HandInStep(w)'
    BY <2>1, <2>3, <2>4, <2>5 DEF HandInStep, InHand
  <2>8. LooseEnds(w)' \subseteq LooseEnds(w)
    <3>1. tx[w] \notin TxIds
      BY <2>1 DEF HandInStep, InHand, TxIds, NoTx
    <3>2. QED BY <2>5, <3>1 DEF LooseEnds
  <2>9. ~Slipping(w)'
    BY <2>1 DEF Slipping, AttemptOver, NonceTaken
  <2>10. QED BY <1>1, <2>1, <2>6, <2>7, <2>8, <2>9, LossesStep
<1>5. CASE Sign(w)
  <2> DEFINE n == tx[w]
  <2>1. /\ pc[w] = "sign" /\ pc'[w] = "marking" /\ wire' = wire \cup {Mark(n)}
        /\ UNCHANGED <<tx, txs, collectedBy, answer, sent, receipt, nonce, faults>>
    BY <1>1, <1>5 DEF Sign, verifierVars, tableVars, nodeVars
  <2>2. n \in TxIds
    BY <2>1, HandTyped DEF InHand
  <2>3. answer[n] = "none" /\ Mark(n) \notin wire /\ ~OnRecord(n) /\ Send(n) \notin wire /\ n \notin sent
    BY <2>1 DEF HandInStep
  <2>4. \A t \in TxIds : /\ Mark(t) \in wire' <=> Mark(t) \in wire \/ t = n
                         /\ Send(t) \in wire' <=> Send(t) \in wire
                         /\ OnRecord(t)' = OnRecord(t) /\ Backed(t)' = Backed(t)
    BY <2>1, RequestsDiffer DEF OnRecord, Backed
  <2>5. OneRequestAtATime'
    BY <2>1, <2>3, <2>4 DEF OneRequestAtATime, Mark, Send
  <2>6. HandInStep(w)'
    BY <2>1, <2>2, <2>3, <2>4 DEF HandInStep, InHand, Mark, Send
  <2>7. LooseEnds(w)' \subseteq LooseEnds(w)
    BY <2>1, <2>4 DEF LooseEnds, Loose, Mark, Send
  <2>8. Slipping(w)' => Slipping(w)
    BY <2>1, <2>3 DEF Slipping, AttemptOver, NonceTaken, InHand
  <2>9. QED BY <1>1, <2>1, <2>5, <2>6, <2>7, <2>8, LossesStep
<1>6. CASE MarkAcked(w)
  <2> DEFINE n == tx[w]
  <2>1. /\ pc[w] = "marking" /\ pc'[w] = "sending" /\ wire' = wire \cup {Send(n)}
        /\ answer[n] = "ok" /\ answer' = [answer EXCEPT ![n] = "none"]
        /\ UNCHANGED <<tx, txs, collectedBy, sent, receipt, nonce, faults>>
    BY <1>1, <1>6 DEF MarkAcked, verifierVars, tableVars, nodeVars
  <2>2. n \in TxIds /\ answer'[n] = "none"
    BY <1>1, <2>1, HandTyped DEF InHand
  <2>3. Mark(n) \notin wire /\ Send(n) \notin wire /\ n \notin sent
    BY <2>1 DEF HandInStep
  <2>4. \A t \in TxIds : /\ Mark(t) \in wire' <=> Mark(t) \in wire
                         /\ Send(t) \in wire' <=> Send(t) \in wire \/ t = n
                         /\ OnRecord(t)' = OnRecord(t) /\ Backed(t)' = Backed(t)
    BY <2>1, RequestsDiffer DEF OnRecord, Backed
  <2>5. OneRequestAtATime'
    BY <2>1, <2>3, <2>4 DEF OneRequestAtATime, Mark, Send
  <2>6. HandInStep(w)'
    BY <2>1, <2>2, <2>3, <2>4 DEF HandInStep, InHand, Mark, Send
  <2>7. LooseEnds(w)' \subseteq LooseEnds(w)
    BY <2>1, <2>4 DEF LooseEnds, Loose, Mark, Send
  <2>8. Slipping(w)' => Slipping(w)
    BY <2>1, <2>2 DEF Slipping, AttemptOver, NonceTaken, InHand
  <2>9. QED BY <1>1, <2>1, <2>5, <2>6, <2>7, <2>8, LossesStep
<1>7. QED BY <1>2, <1>3, <1>4, <1>5, <1>6 DEF WorkerStep

(* The verifier answers a mark: what it records was a loose end before, if *)
(* the worker no longer waits for it.                                      *)
LEMMA MarkCovered ==
  ASSUME Inv, Inv', NEW w \in Workers, Workers = {w},
         OneRequestAtATime, HandInStep(w), LossesCovered(w),
         NEW t \in TxIds, MarkCollected(t) \/ RefuseMark(t)
  PROVE  (OneRequestAtATime /\ HandInStep(w) /\ LossesCovered(w))'
<1>1. /\ collectedBy \in [Fees -> TxIds \cup {NoTx}] /\ faults \in Nat
      /\ answer \in [TxIds -> {"none", "ok", "error"}] /\ txs \in [TxIds -> TxRow]
  BY DEF Inv, TypeOK
<1>2. /\ Mark(t) \in wire /\ wire' = wire \ {Mark(t)}
      /\ UNCHANGED <<pc, list, tx, txs, sent, receipt, nonce, faults>>
      /\ answer' = Answered(t, "ok") \/ answer' = Answered(t, "error")
  BY DEF MarkCollected, RefuseMark, workerVars, tableVars, nodeVars
<1>3. \A u \in TxIds : /\ Mark(u) \in wire' <=> Mark(u) \in wire /\ u # t
                       /\ Send(u) \in wire' <=> Send(u) \in wire
                       /\ Backed(u)' = Backed(u)
                       /\ u # t => answer'[u] = answer[u]
  BY <1>1, <1>2 DEF Mark, Send, Backed, Answered
<1>4. \A u \in TxIds : u # t => (OnRecord(u)' => OnRecord(u))
  BY <1>1 DEF MarkCollected, RefuseMark, OnRecord, verifierVars
<1>5. ~OnRecord(t) /\ Send(t) \notin wire /\ t \notin sent
  BY <1>2 DEF OneRequestAtATime
<1>6. RefuseMark(t) => ~OnRecord(t)'
  BY <1>5 DEF RefuseMark, OnRecord, verifierVars
<1>7. \A u \in TxIds : Loose(u)' => Loose(u)
  BY <1>2, <1>3, <1>4 DEF Loose, Mark, Send
<1>8. InHand(w) => tx[w] \in TxIds
  BY HandTyped
<1>9. OneRequestAtATime'
  BY <1>2, <1>3, <1>4 DEF OneRequestAtATime
<1>10. HandInStep(w)'
  <2>1. t # tx[w] \/ ~(pc[w] \in {"sign", "sending"})
    BY <1>2 DEF HandInStep
  <2>2. QED BY <1>2, <1>3, <1>4, <1>8, <2>1 DEF HandInStep, InHand, Mark, Send
<1>11. LooseEnds(w)' \subseteq LooseEnds(w)
  BY <1>2, <1>7 DEF LooseEnds
<1>12. Slipping(w)' => Slipping(w)
  <2>1. CASE ~InHand(w)
    BY <1>2, <2>1 DEF Slipping, AttemptOver, InHand
  <2>2. CASE InHand(w) /\ t # tx[w]
    BY <1>2, <1>3, <1>7, <1>8, <2>2 DEF Slipping, AttemptOver, NonceTaken, InHand
  <2>3. CASE InHand(w) /\ t = tx[w]
    <3>1. AttemptOver(w)' /\ Loose(tx[w])' => AttemptOver(w)
      <4>1. pc[w] = "marking"
        BY <1>2, <2>3 DEF HandInStep, InHand
      <4>2. CASE RefuseMark(t)
        BY <1>2, <1>3, <1>5, <1>6, <2>3, <4>2 DEF Loose
      <4>3. CASE MarkCollected(t)
        <5>1. answer'[t] = "error" => answer[t] = "error"
          BY <1>1, <4>3 DEF MarkCollected, Answered
        <5>2. QED BY <1>2, <2>3, <4>1, <5>1 DEF AttemptOver
      <4>4. QED BY <4>2, <4>3
    <3>2. QED BY <1>2, <1>7, <2>3, <3>1 DEF Slipping, NonceTaken, InHand
  <2>4. QED BY <2>1, <2>2, <2>3
<1>13. QED BY <1>1, <1>2, <1>9, <1>10, <1>11, <1>12, LossesStep

(* The node takes a transaction: one that nobody waits for is a loose end  *)
(* less, and the nonce it takes may be that of the one in hand.            *)
LEMMA AcceptCovered ==
  ASSUME Inv, Inv', PaymentInv, NEW w \in Workers, Workers = {w},
         OneRequestAtATime, HandInStep(w), LossesCovered(w),
         NEW t \in TxIds, AcceptTx(t)
  PROVE  (OneRequestAtATime /\ HandInStep(w) /\ LossesCovered(w))'
<1>1. /\ faults \in Nat /\ answer \in [TxIds -> {"none", "ok", "error"}]
      /\ txs \in [TxIds -> TxRow] /\ nonce \in [Keys -> Nat]
  BY DEF Inv, TypeOK
<1>2. /\ Send(t) \in wire /\ wire' = wire \ {Send(t)} /\ sent' = sent \cup {t}
      /\ txs[t].nonce = nonce[txs[t].key]
      /\ answer' = Answered(t, "ok")
      /\ UNCHANGED <<pc, list, tx, txs, collectedBy, receipt, faults>>
  BY DEF AcceptTx, workerVars, tableVars, verifierVars
<1>3. Mark(t) \notin wire /\ t \notin sent /\ receipt[t] = "none"
  BY <1>2 DEF OneRequestAtATime, PaymentInv, MinedWasSent
<1>4. \A u \in TxIds : /\ Mark(u) \in wire' <=> Mark(u) \in wire
                       /\ Send(u) \in wire' <=> Send(u) \in wire /\ u # t
                       /\ OnRecord(u)' = OnRecord(u)
                       /\ u # t => answer'[u] = answer[u] /\ Backed(u)' = Backed(u)
  BY <1>1, <1>2, RequestsDiffer DEF Backed, OnRecord, Answered
<1>5. Backed(t)' /\ ~Loose(t)'
  BY <1>2, <1>3, <1>4 DEF Loose, Backed, Mark, Send
<1>6. \A u \in TxIds : Loose(u)' => Loose(u) /\ u # t
  BY <1>4, <1>5 DEF Loose, Mark, Send
<1>7. InHand(w) => tx[w] \in TxIds
  BY HandTyped
<1>8. OneRequestAtATime'
  BY <1>2, <1>3, <1>4 DEF OneRequestAtATime, Mark, Send
<1>9. HandInStep(w)'
  <2>1. t # tx[w] \/ ~(pc[w] \in {"sign", "marking"})
    BY <1>2 DEF HandInStep
  <2>2. QED BY <1>2, <1>4, <1>7, <2>1 DEF HandInStep, InHand, Mark, Send
<1>10. CASE t = tx[w]
  <2>1. LooseEnds(w)' \subseteq LooseEnds(w)
    BY <1>2, <1>6 DEF LooseEnds
  <2>2. ~Slipping(w)'
    BY <1>2, <1>5, <1>10 DEF Slipping, NonceTaken
  <2>3. QED BY <1>1, <1>2, <1>8, <1>9, <2>1, <2>2, LossesStep
<1>11. CASE t # tx[w]
  <2>1. t \in LooseEnds(w)
    BY <1>2, <1>11 DEF LooseEnds, Loose
  <2>2. LooseEnds(w)' \subseteq LooseEnds(w) \ {t}
    BY <1>2, <1>6 DEF LooseEnds
  <2>3. QED BY <1>2, <1>8, <1>9, <2>1, <2>2, LossesStep
<1>12. QED BY <1>10, <1>11

(* The node refuses a transaction: its nonce was taken before. *)
LEMMA RejectCovered ==
  ASSUME Inv, Inv', NEW w \in Workers, Workers = {w},
         OneRequestAtATime, HandInStep(w), LossesCovered(w),
         NEW t \in TxIds, RejectTx(t)
  PROVE  (OneRequestAtATime /\ HandInStep(w) /\ LossesCovered(w))'
<1>1. faults \in Nat /\ answer \in [TxIds -> {"none", "ok", "error"}]
  BY DEF Inv, TypeOK
<1>2. /\ Send(t) \in wire /\ wire' = wire \ {Send(t)}
      /\ txs[t].nonce # nonce[txs[t].key]
      /\ answer' = Answered(t, "error")
      /\ UNCHANGED <<pc, list, tx, txs, collectedBy, sent, nonce, receipt, faults>>
  BY DEF RejectTx, workerVars, tableVars, verifierVars, nodeVars
<1>3. t \notin sent
  BY <1>2 DEF OneRequestAtATime
<1>4. \A u \in TxIds : /\ Mark(u) \in wire' <=> Mark(u) \in wire
                       /\ Send(u) \in wire' <=> Send(u) \in wire /\ u # t
                       /\ OnRecord(u)' = OnRecord(u) /\ Backed(u)' = Backed(u)
                       /\ u # t => answer'[u] = answer[u]
  BY <1>1, <1>2, RequestsDiffer DEF Backed, OnRecord, Answered
<1>5. \A u \in TxIds : Loose(u)' => Loose(u)
  BY <1>4 DEF Loose, Mark, Send
<1>6. InHand(w) => tx[w] \in TxIds
  BY HandTyped
<1>7. OneRequestAtATime'
  BY <1>2, <1>4 DEF OneRequestAtATime, Mark, Send
<1>8. t # tx[w] \/ ~(pc[w] \in {"sign", "marking"})
  BY <1>2 DEF HandInStep
<1>9. HandInStep(w)'
  BY <1>2, <1>4, <1>6, <1>8 DEF HandInStep, InHand, Mark, Send
<1>10. LooseEnds(w)' \subseteq LooseEnds(w)
  BY <1>2, <1>5 DEF LooseEnds
<1>11. Slipping(w)' => Slipping(w)
  <2>1. CASE ~InHand(w)
    BY <1>2, <2>1 DEF Slipping, AttemptOver, InHand
  <2>2. CASE InHand(w) /\ t # tx[w]
    BY <1>2, <1>4, <1>5, <1>6, <2>2 DEF Slipping, AttemptOver, NonceTaken, InHand
  <2>3. CASE InHand(w) /\ t = tx[w]
    BY <1>2, <1>3, <2>3 DEF Slipping, NonceTaken
  <2>4. QED BY <2>1, <2>2, <2>3
<1>12. QED BY <1>1, <1>2, <1>7, <1>9, <1>10, <1>11, LossesStep

(* A block includes a transaction; one that reverts is a failure. *)
LEMMA MineCovered ==
  ASSUME Inv, Inv', NEW w \in Workers, Workers = {w},
         OneRequestAtATime, HandInStep(w), LossesCovered(w),
         NEW t \in TxIds, Mine(t)
  PROVE  (OneRequestAtATime /\ HandInStep(w) /\ LossesCovered(w))'
<1>1. faults \in Nat /\ receipt \in [TxIds -> {"none", "success", "failed"}]
  BY DEF Inv, TypeOK
<1>2. /\ receipt[t] = "none"
      /\ UNCHANGED <<pc, list, tx, txs, collectedBy, sent, nonce, wire, answer>>
      /\ \/ receipt' = [receipt EXCEPT ![t] = "success"] /\ faults' = faults
         \/ receipt' = [receipt EXCEPT ![t] = "failed"] /\ faults' = faults + 1
  BY DEF Mine, Fault, workerVars, tableVars, verifierVars
<1>3. OneRequestAtATime' /\ HandInStep(w)'
  BY <1>2 DEF OneRequestAtATime, HandInStep, OnRecord, InHand
<1>4. \A u \in TxIds : u # t => Loose(u)' = Loose(u)
  BY <1>1, <1>2 DEF Loose, OnRecord, Backed, Mark, Send
<1>5. InHand(w) => tx[w] \in TxIds
  BY HandTyped
<1>6. CASE faults' = faults
  <2>1. Loose(t)' = Loose(t)
    BY <1>1, <1>2, <1>6 DEF Loose, OnRecord, Backed, Mark, Send
  <2>2. LooseEnds(w)' \subseteq LooseEnds(w)
    BY <1>2, <1>4, <2>1 DEF LooseEnds
  <2>3. Slipping(w)' => Slipping(w)
    BY <1>2, <1>4, <1>5, <2>1 DEF Slipping, AttemptOver, NonceTaken, InHand
  <2>4. QED BY <1>1, <1>3, <1>6, <2>2, <2>3, LossesStep
<1>7. CASE faults' = faults + 1 /\ t = tx[w]
  <2>1. LooseEnds(w)' \subseteq LooseEnds(w)
    BY <1>2, <1>4, <1>7 DEF LooseEnds
  <2>2. QED BY <1>3, <1>7, <2>1, LossesStep
<1>8. CASE faults' = faults + 1 /\ t # tx[w]
  <2>1. LooseEnds(w)' \subseteq LooseEnds(w) \cup {t}
    BY <1>2, <1>4 DEF LooseEnds
  <2>2. Slipping(w)' => Slipping(w)
    BY <1>2, <1>4, <1>5, <1>8 DEF Slipping, AttemptOver, NonceTaken, InHand
  <2>3. QED BY <1>3, <1>8, <2>1, <2>2, LossesStep
<1>9. QED BY <1>2, <1>6, <1>7, <1>8

(* The environment fails, or does nothing that concerns a transaction. *)
LEMMA EnvironmentCovered ==
  ASSUME Inv, Inv', NEW w \in Workers, Workers = {w},
         OneRequestAtATime, HandInStep(w), LossesCovered(w),
         Environment \/ UNCHANGED vars
  PROVE  (OneRequestAtATime /\ HandInStep(w) /\ LossesCovered(w))'
<1>1. faults \in Nat /\ answer \in [TxIds -> {"none", "ok", "error"}]
  BY DEF Inv, TypeOK
<1>2. /\ UNCHANGED <<pc, list, tx, txs, collectedBy, sent, receipt>> /\ wire' \subseteq wire
      /\ faults' = faults + 1
           \/ (faults' = faults /\ answer' = answer /\ wire' = wire /\ nonce' = nonce)
  BY DEF Environment, InsertPublicKey, UserTx, IssueFee, BreakConnection, LoseRequest, Fault,
     vars, workerVars, verifierVars, tableVars, nodeVars
<1>3. \A u \in TxIds : Loose(u)' => Loose(u)
  BY <1>2 DEF Loose, OnRecord, Backed, Mark, Send
<1>4. LooseEnds(w)' \subseteq LooseEnds(w)
  BY <1>2, <1>3 DEF LooseEnds
<1>5. OneRequestAtATime'
  BY <1>2 DEF OneRequestAtATime, OnRecord, Mark, Send
<1>6. InHand(w) => tx[w] \in TxIds
  BY HandTyped
<1>7. HandInStep(w)'
  <2>1. InHand(w) => \/ answer'[tx[w]] = answer[tx[w]]
                     \/ answer'[tx[w]] = "error" /\ {Mark(tx[w]), Send(tx[w])} \cap wire # {}
    BY <1>1, <1>6 DEF Environment, InsertPublicKey, UserTx, IssueFee, BreakConnection, LoseRequest,
       Answered, vars
  <2>2. QED BY <1>2, <2>1 DEF HandInStep, InHand, OnRecord, Mark, Send
<1>8. CASE faults' = faults + 1
  BY <1>4, <1>5, <1>7, <1>8, LossesStep
<1>9. CASE faults' = faults /\ answer' = answer /\ wire' = wire /\ nonce' = nonce
  <2>1. Slipping(w)' => Slipping(w)
    BY <1>2, <1>3, <1>6, <1>9 DEF Slipping, AttemptOver, NonceTaken, InHand
  <2>2. QED BY <1>1, <1>4, <1>5, <1>7, <1>9, <2>1, LossesStep
<1>10. QED BY <1>2, <1>8, <1>9

LEMMA LossesNext ==
  ASSUME Inv, Inv', PaymentInv, LossesCounted, [Next]_vars
  PROVE  LossesCounted'
<1> SUFFICES ASSUME NEW w \in Workers, Workers = {w}
             PROVE  (OneRequestAtATime /\ HandInStep(w) /\ LossesCovered(w))'
  BY DEF LossesCounted
<1>1. OneRequestAtATime /\ HandInStep(w) /\ LossesCovered(w)
  BY DEF LossesCounted
<1>2. ASSUME NEW v \in Workers, WorkerStep(v) \/ Crash(v)
      PROVE  (OneRequestAtATime /\ HandInStep(w) /\ LossesCovered(w))'
  BY <1>1, <1>2, WorkerCovered
<1>3. ASSUME NEW t \in TxIds, ServiceStep(t)
      PROVE  (OneRequestAtATime /\ HandInStep(w) /\ LossesCovered(w))'
  BY <1>1, <1>3, MarkCovered, AcceptCovered, RejectCovered, MineCovered DEF ServiceStep
<1>4. QED BY <1>1, <1>2, <1>3, EnvironmentCovered DEF Next

LEMMA CountedIsOneLoss ==
  ASSUME Inv, LossesCounted PROVE OneLossPerFault
<1> SUFFICES ASSUME NEW w \in Workers, Workers = {w} PROVE Cardinality(Spoiled) <= faults
  BY DEF OneLossPerFault
<1>1. faults \in Nat
  BY DEF Inv, TypeOK
<1>2. Cardinality(LooseEnds(w)) + (IF Slipping(w) THEN 1 ELSE 0) <= faults
  BY DEF LossesCounted, LossesCovered
<1>3. Spoiled \subseteq LooseEnds(w) /\ LooseEnds(w) \subseteq TxIds
  BY DEF Spoiled, LooseEnds, Loose
<1>4. IsFiniteSet(LooseEnds(w))
  <2>1. IsFiniteSet(TxIds)
    BY CollectionAssumption, FS_Interval DEF TxIds
  <2>2. QED BY <1>3, <2>1, FS_Subset
<1>5. /\ Cardinality(Spoiled) \in Nat /\ Cardinality(LooseEnds(w)) \in Nat
      /\ Cardinality(Spoiled) <= Cardinality(LooseEnds(w))
  BY <1>3, <1>4, FS_Subset, FS_CardinalityType
<1>6. QED BY <1>1, <1>2, <1>5

LEMMA SpecLosses == Spec => [](Inv /\ PaymentInv /\ LossesCounted)
<1>1. Inv /\ PaymentInv /\ LossesCounted /\ [Next]_vars => (Inv /\ PaymentInv /\ LossesCounted)'
  BY NextInv, PaymentNext, LossesNext
<1>2. QED BY InitInv, PaymentStart, LossesStart, <1>1, PTL DEF Spec

(* Marking before sending can leave entries on record that nothing pays,   *)
(* but a lone worker does not lose them by itself, and a failure, or a     *)
(* transaction the owner sends, costs one batch at most, however it        *)
(* delays, reorders or repeats the calls.                                  *)
THEOREM LossesAreBounded == Spec => []OneLossPerFault
  BY SpecLosses, CountedIsOneLoss, PTL

-----------------------------------------------------------------------------
(* Nonces that are lost, with any number of workers.                       *)

(* A failure pays for one nonce. *)
LEMMA NoncesStep ==
  ASSUME Inv, Inv', NoncesCovered, NEW s,
         OneRequestAtATime', NoncesInOrder', HandsApart', \A w \in Workers : HandInOrder(w)',
         \/ Endangered' \subseteq Endangered /\ faults' \in {faults, faults + 1}
         \/ Endangered' \subseteq Endangered \cup {s} /\ faults' = faults + 1
  PROVE  NoncesCovered'
<1>1. IsFiniteSet(Endangered) /\ Cardinality(Endangered) <= faults /\ faults \in Nat
  BY DEF NoncesCovered, Inv, TypeOK
<1>2. Cardinality(Endangered) \in Nat
  BY <1>1, FS_CardinalityType
<1>3. IsFiniteSet(Endangered \cup {s}) /\ Cardinality(Endangered \cup {s}) \in Nat
      /\ Cardinality(Endangered \cup {s}) <= Cardinality(Endangered) + 1
  <2>1. IsFiniteSet(Endangered \cup {s})
        /\ (\/ Cardinality(Endangered \cup {s}) = Cardinality(Endangered)
            \/ Cardinality(Endangered \cup {s}) = Cardinality(Endangered) + 1)
    BY <1>1, FS_AddElement
  <2>2. QED BY <1>2, <2>1
<1>4. IsFiniteSet(Endangered)' /\ Cardinality(Endangered)' <= faults'
  <2>1. CASE Endangered' \subseteq Endangered /\ faults' \in {faults, faults + 1}
    <3>1. /\ IsFiniteSet(Endangered') /\ Cardinality(Endangered') \in Nat
          /\ Cardinality(Endangered') <= Cardinality(Endangered)
      BY <1>1, <2>1, FS_Subset, FS_CardinalityType
    <3>2. QED BY <1>1, <1>2, <2>1, <3>1
  <2>2. CASE Endangered' \subseteq Endangered \cup {s} /\ faults' = faults + 1
    <3>1. /\ IsFiniteSet(Endangered') /\ Cardinality(Endangered') \in Nat
          /\ Cardinality(Endangered') <= Cardinality(Endangered \cup {s})
      BY <1>3, <2>2, FS_Subset, FS_CardinalityType
    <3>2. QED BY <1>1, <1>2, <1>3, <2>2, <3>1
  <2>3. QED BY <2>1, <2>2
<1>5. QED BY <1>4 DEF NoncesCovered

(* What a step may add: a nonce that is passed, a slot of a transaction    *)
(* that goes adrift, a slot where no transfer stands any more.             *)
LEMMA EndangeredGrows ==
  ASSUME NEW S, Standing \subseteq Standing' \cup S,
         PassedNonces' \subseteq PassedNonces \cup S \cup Standing',
         \A t \in Adrift' :
           Slot(t)' \in PassedNonces \cup S \/ \E u \in Adrift : Slot(t)' = Slot(u)
  PROVE  Endangered' \subseteq Endangered \cup S
<1> SUFFICES ASSUME NEW x \in Endangered', x \notin S PROVE x \in Endangered
  OBVIOUS
<1>1. x \notin Standing
  BY DEF Endangered
<1>2. x \in PassedNonces \/ \E u \in Adrift : x = Slot(u)
  <2>1. CASE x \in PassedNonces'
    BY <2>1 DEF Endangered
  <2>2. CASE \E t \in Adrift' : x = Slot(t)'
    BY <2>2
  <2>3. QED BY <2>1, <2>2 DEF Endangered
<1>3. QED BY <1>1, <1>2 DEF Endangered

LEMMA NoncesStart == Init => NoncesCovered
<1> SUFFICES ASSUME Init PROVE NoncesCovered
  OBVIOUS
<1>1. /\ wire = {} /\ sent = {} /\ faults = 0 /\ tracked = 0
      /\ \A w \in Workers : pc[w] = "down" /\ tx[w] = NoTx
      /\ \A f \in Fees : collectedBy[f] = NoTx
      /\ \A k \in Keys : nonce[k] = 0
  BY DEF Init
<1>2. OneRequestAtATime /\ NoncesInOrder /\ HandsApart /\ \A w \in Workers : HandInOrder(w)
  BY <1>1 DEF OneRequestAtATime, NoncesInOrder, HandsApart, HandInOrder, HandInStep, InHand
<1>3. PassedNonces = {}
  BY <1>1 DEF PassedNonces
<1>4. Adrift = {}
  BY <1>1 DEF Adrift, OnRecord, NoTx, TxIds
<1>5. Endangered = {}
  BY <1>3, <1>4 DEF Endangered
<1>6. QED BY <1>1, <1>2, <1>5, FS_EmptySet DEF NoncesCovered

(* A request that is under way, or was taken, is about a row.              *)
LEMMA RequestHasRow ==
  ASSUME Inv, NoncesCovered, NEW t \in TxIds,
         Mark(t) \in wire \/ Send(t) \in wire \/ t \in sent
  PROVE  /\ t \in 1 .. tracked /\ txs[t].key \in Keys /\ txs[t].nonce \in Nat
         /\ txs[t].nonce <= nonce[txs[t].key] /\ nonce[txs[t].key] \in Nat
<1>1. t \in 1 .. tracked
  BY CollectionAssumption DEF Inv, TypeOK, FreshIds, TxIds
<1>2. QED BY <1>1 DEF NoncesCovered, NoncesInOrder, Inv, TypeOK, TxRow

(* A row whose nonce is taken stands at a nonce that is passed. *)
LEMMA TakenIsPassed ==
  ASSUME NEW t \in TxIds, txs[t].key \in Keys, txs[t].nonce \in Nat,
         nonce[txs[t].key] \in Nat, txs[t].nonce < nonce[txs[t].key]
  PROVE  Slot(t) \in PassedNonces
BY DEF PassedNonces, Slot

(* A worker starts, looks for work, or leaves its attempt: by a failure,   *)
(* after an error, or with its transaction accepted.                       *)
LEMMA NoncesLeaving ==
  ASSUME Inv, Inv', NoncesCovered, NEW w \in Workers, ~InHand(w)',
         UNCHANGED <<wire, collectedBy, tracked, txs, answer, sent, receipt, nonce>>,
         \A v \in Workers : v # w => pc'[v] = pc[v] /\ tx'[v] = tx[v],
         \/ tx' = tx /\ ~InHand(w) /\ faults' \in {faults, faults + 1}
         \/ tx'[w] = NoTx /\ faults' = faults + 1
         \/ tx'[w] = NoTx /\ faults' = faults /\ (answer[tx[w]] = "error" \/ tx[w] \in sent)
  PROVE  NoncesCovered'
<1>1. OneRequestAtATime' /\ NoncesInOrder'
  BY DEF NoncesCovered, OneRequestAtATime, NoncesInOrder, OnRecord
<1>2. HandsApart'
  BY DEF NoncesCovered, HandsApart
<1>3. ASSUME NEW v \in Workers PROVE HandInOrder(v)'
  <2>1. CASE v = w
    <3>1. tx'[w] = NoTx
      BY DEF NoncesCovered, HandInOrder, HandInStep
    <3>2. QED BY <2>1, <3>1 DEF HandInOrder, HandInStep, InHand
  <2>2. CASE v # w
    <3>1. HandInOrder(v)
      BY DEF NoncesCovered
    <3>2. QED BY <2>2, <3>1 DEF HandInOrder, HandInStep, InHand, OnRecord
  <2>3. QED BY <2>1, <2>2
<1>4. Standing' = Standing /\ PassedNonces' = PassedNonces /\ \A t \in TxIds : Slot(t)' = Slot(t)
  BY DEF Standing, Backed, PassedNonces, Slot
<1>5. Adrift' \subseteq Adrift \cup {tx[w]}
  BY DEF Adrift, OnRecord
<1>6. CASE faults' = faults + 1
  <2> DEFINE S == {Slot(tx[w])}
  <2>1. \A t \in Adrift' : Slot(t)' \in S \/ \E u \in Adrift : Slot(t)' = Slot(u)
    BY <1>4, <1>5 DEF Adrift
  <2>2. Endangered' \subseteq Endangered \cup S
    <3> HIDE DEF S
    <3>1. QED BY <1>4, <2>1, EndangeredGrows
  <2>3. QED BY <1>1, <1>2, <1>3, <1>6, <2>2, NoncesStep
<1>7. CASE faults' = faults
  <2>1. Adrift' \subseteq Adrift
    <3>1. CASE tx' = tx
      BY <3>1 DEF Adrift, OnRecord
    <3>2. CASE tx'[w] = NoTx /\ (answer[tx[w]] = "error" \/ tx[w] \in sent)
      BY <1>5, <3>2 DEF Adrift, OnRecord
    <3>3. CASE tx'[w] = NoTx /\ faults' = faults + 1
      BY <1>7, <3>3 DEF Inv, TypeOK
    <3>4. QED BY <3>1, <3>2, <3>3
  <2>2. Endangered' \subseteq Endangered \cup {}
    BY <1>4, <2>1, EndangeredGrows DEF Adrift
  <2>3. QED BY <1>1, <1>2, <1>3, <1>7, <2>2, NoncesStep
<1>8. QED BY <1>6, <1>7

(* A new row takes the next nonce; nothing is known of it yet. *)
LEMMA NoncesCreate ==
  ASSUME Inv, Inv', NoncesCovered, NEW w \in Workers, CreateTx(w)
  PROVE  NoncesCovered'
<1> DEFINE n == tracked + 1
<1>1. /\ pc \in [Workers -> Locations] /\ tx \in [Workers -> TxIds \cup {NoTx}]
      /\ txs \in [TxIds -> TxRow] /\ tracked \in Nat /\ faults \in Nat /\ nonce \in [Keys -> Nat]
  BY CollectionAssumption DEF Inv, TypeOK
<1>2. /\ pc[w] = "build" /\ pc' = [pc EXCEPT ![w] = "sign"] /\ tx' = [tx EXCEPT ![w] = n]
      /\ n \in TxIds /\ tracked' = n
      /\ UNCHANGED <<wire, collectedBy, answer, sent, receipt, nonce, faults>>
      /\ txs' = [txs EXCEPT ![n] = [key |-> pk[w], fees |-> list[w], nonce |-> nonce[pk[w]]]]
  BY <1>1, CollectionAssumption DEF CreateTx, TxIds, verifierVars, nodeVars
<1>3. n > tracked /\ n # NoTx
  BY <1>1 DEF NoTx
<1>4. Mark(n) \notin wire /\ Send(n) \notin wire /\ n \notin sent /\ answer[n] = "none"
  BY <1>2, <1>3 DEF Inv, FreshIds
<1>5. ~OnRecord(n) /\ \A t \in TxIds : OnRecord(t)' = OnRecord(t)
  BY <1>1, <1>2, <1>3 DEF OnRecord, Inv, RecordNamesRow, NoTx
<1>6. \A t \in TxIds : t # n => txs'[t] = txs[t] /\ Slot(t)' = Slot(t)
  BY <1>1, <1>2 DEF Slot
<1>7. tx[w] = NoTx /\ \A v \in Workers : tx[v] # n
  <2>1. \A v \in Workers : ~InHand(v) => tx[v] = NoTx
    BY DEF NoncesCovered, HandInOrder, HandInStep
  <2>2. ~InHand(w)
    BY <1>2 DEF InHand
  <2>3. \A v \in Workers : InHand(v) => tx[v] <= tracked
    BY <1>1, HandTyped
  <2>4. QED BY <1>1, <1>3, <2>1, <2>2, <2>3
<1>8. pk[w] \in Keys
  BY <1>2, CollectionAssumption DEF Inv, TypeOK, AttemptMatchesRow
<1>9. OneRequestAtATime'
  BY <1>2, <1>5 DEF NoncesCovered, OneRequestAtATime
<1>10. NoncesInOrder'
  <2>1. txs'[n].key \in Keys /\ txs'[n].nonce = nonce[txs'[n].key]
    BY <1>1, <1>2, <1>8
  <2>2. \A t \in 1 .. n : t \in TxIds /\ (t = n \/ t \in 1 .. tracked)
    BY <1>1, <1>2, CollectionAssumption DEF TxIds
  <2>3. ASSUME NEW t \in 1 .. n PROVE txs'[t].key \in Keys /\ txs'[t].nonce <= nonce[txs'[t].key]
    BY <1>1, <1>6, <2>1, <2>2 DEF NoncesCovered, NoncesInOrder
  <2>4. \A t \in sent : t \in TxIds /\ t # n
    BY <1>4 DEF Inv, TypeOK
  <2>5. QED BY <1>2, <1>6, <2>3, <2>4 DEF NoncesCovered, NoncesInOrder
<1>11. HandsApart'
  BY <1>1, <1>2, <1>7 DEF NoncesCovered, HandsApart
<1>12. ASSUME NEW v \in Workers PROVE HandInOrder(v)'
  <2>1. CASE v = w
    BY <1>1, <1>2, <1>4, <1>5, <2>1 DEF HandInOrder, HandInStep, InHand
  <2>2. CASE v # w
    <3>1. HandInOrder(v) /\ pc'[v] = pc[v] /\ tx'[v] = tx[v]
      BY <1>1, <1>2, <2>2 DEF NoncesCovered
    <3>2. InHand(v) => tx[v] \in TxIds
      BY HandTyped
    <3>3. QED BY <1>2, <1>5, <3>1, <3>2 DEF HandInOrder, HandInStep, InHand
  <2>3. QED BY <2>1, <2>2
<1>13. Adrift' \subseteq Adrift /\ n \notin Adrift'
  <2>1. n \notin Adrift'
    BY <1>1, <1>2, <1>4, <1>5 DEF Adrift
  <2>2. ASSUME NEW t \in Adrift' PROVE t \in Adrift
    <3>1. t \in TxIds \ sent /\ t # n /\ (Mark(t) \in wire \/ Send(t) \in wire \/ OnRecord(t))
      BY <1>2, <1>5, <2>1 DEF Adrift
    <3>2. \A v \in Workers : tx[v] = t => tx'[v] = t
      BY <1>1, <1>2, <1>7, <3>1 DEF TxIds, NoTx
    <3>3. QED BY <1>2, <3>1, <3>2 DEF Adrift
  <2>3. QED BY <2>1, <2>2
<1>14. Standing' = Standing
  <2>1. \A t \in sent : t \in TxIds /\ t # n
    BY <1>4 DEF Inv, TypeOK
  <2>2. QED BY <1>2, <1>6, <2>1 DEF Standing, Backed
<1>15. PassedNonces' = PassedNonces
  BY <1>2 DEF PassedNonces
<1>16. \A t \in Adrift' : \E u \in Adrift : Slot(t)' = Slot(u)
  BY <1>6, <1>13 DEF Adrift
<1>17. Endangered' \subseteq Endangered \cup {}
  BY <1>14, <1>15, <1>16, EndangeredGrows
<1>18. QED BY <1>1, <1>2, <1>9, <1>10, <1>11, <1>12, <1>17, NoncesStep

(* The transaction in hand is posted: its mark, and after a success its    *)
(* transfer.                                                               *)
LEMMA NoncesPost ==
  ASSUME Inv, Inv', NoncesCovered, NEW w \in Workers, Sign(w) \/ MarkAcked(w)
  PROVE  NoncesCovered'
<1> DEFINE n == tx[w]
<1>1. /\ pc \in [Workers -> Locations] /\ answer \in [TxIds -> {"none", "ok", "error"}]
      /\ HandInStep(w) /\ InHand(w)
  BY DEF Inv, TypeOK, NoncesCovered, HandInOrder, Sign, MarkAcked, InHand
<1>2. n \in TxIds /\ n # NoTx
  BY <1>1, HandTyped
<1>3. /\ UNCHANGED <<tx, tracked, txs, collectedBy, sent, receipt, nonce, faults>>
      /\ \A u \in TxIds : u # n => answer'[u] = answer[u]
      /\ answer'[n] = "none"
  BY <1>1, <1>2 DEF Sign, MarkAcked, HandInStep, verifierVars, tableVars, nodeVars
<1>4. /\ Mark(n) \notin wire /\ Send(n) \notin wire /\ n \notin sent
      /\ Sign(w) => ~OnRecord(n)
  BY <1>1 DEF Sign, MarkAcked, HandInStep
<1>5. \A u \in TxIds : u # n => /\ Mark(u) \in wire' <=> Mark(u) \in wire
                                /\ Send(u) \in wire' <=> Send(u) \in wire
  BY RequestsDiffer DEF Sign, MarkAcked
<1>6. /\ Sign(w) => Mark(n) \in wire' /\ Send(n) \notin wire' /\ pc'[w] = "marking"
      /\ MarkAcked(w) => Mark(n) \notin wire' /\ Send(n) \in wire' /\ pc'[w] = "sending"
  BY <1>1, <1>4, RequestsDiffer DEF Sign, MarkAcked
<1>7. \A u \in TxIds : OnRecord(u)' = OnRecord(u)
  BY <1>3 DEF OnRecord
<1>8. OneRequestAtATime'
  BY <1>3, <1>4, <1>5, <1>6, <1>7 DEF NoncesCovered, OneRequestAtATime
<1>9. NoncesInOrder' /\ HandsApart'
  BY <1>3 DEF NoncesCovered, NoncesInOrder, HandsApart
<1>10. ASSUME NEW v \in Workers PROVE HandInOrder(v)'
  <2>1. CASE v = w
    BY <1>1, <1>2, <1>3, <1>4, <1>6, <2>1 DEF HandInOrder, HandInStep, InHand
  <2>2. CASE v # w
    <3>1. HandInOrder(v) /\ pc'[v] = pc[v] /\ tx'[v] = tx[v]
      BY <1>1, <1>3, <2>2 DEF NoncesCovered, Sign, MarkAcked
    <3>2. InHand(v) => tx[v] \in TxIds /\ tx[v] # n
      BY <1>2, <2>2, HandTyped DEF NoncesCovered, HandsApart
    <3>3. QED BY <1>3, <1>5, <1>7, <3>1, <3>2 DEF HandInOrder, HandInStep, InHand
  <2>3. QED BY <2>1, <2>2
<1>11. Adrift' \subseteq Adrift
  <2>1. n \notin Adrift'
    BY <1>3 DEF Adrift
  <2>2. QED BY <1>3, <1>5, <1>7, <2>1 DEF Adrift
<1>12. Standing' = Standing /\ PassedNonces' = PassedNonces /\ \A t \in TxIds : Slot(t)' = Slot(t)
  BY <1>3 DEF Standing, Backed, PassedNonces, Slot
<1>13. Endangered' \subseteq Endangered \cup {}
  BY <1>11, <1>12, EndangeredGrows DEF Adrift
<1>14. QED BY <1>3, <1>8, <1>9, <1>10, <1>13, NoncesStep

(* What every step does to what the workers have in hand that takes a      *)
(* request off the wire, answers it, or sees its connection break.         *)
LEMMA HandAnswered ==
  ASSUME Inv, NoncesCovered, NEW t \in TxIds, Mark(t) \in wire \/ Send(t) \in wire,
         UNCHANGED <<pc, tx>>, wire' \subseteq wire, sent \subseteq sent',
         sent' \subseteq sent \cup {t}, t \in sent' => Send(t) \in wire,
         \A u \in TxIds : u # t => answer'[u] = answer[u] /\ (OnRecord(u)' => OnRecord(u)),
         OnRecord(t)' => OnRecord(t) \/ Mark(t) \in wire,
         \/ answer'[t] = answer[t]
         \/ answer'[t] = "error"
         \/ answer'[t] = "ok" /\ (t \in sent' \/ (Mark(t) \in wire /\ Mark(t) \notin wire'))
  PROVE  \A w \in Workers : HandInOrder(w)'
<1> SUFFICES ASSUME NEW w \in Workers PROVE HandInOrder(w)'
  OBVIOUS
<1>1. HandInOrder(w)
  BY DEF NoncesCovered
<1>2. CASE ~InHand(w)
  BY <1>1, <1>2 DEF HandInOrder, HandInStep, InHand
<1>3. CASE InHand(w) /\ tx[w] # t
  <2>1. tx[w] \in TxIds
    BY <1>3, HandTyped
  <2>2. QED BY <1>1, <1>3, <2>1 DEF HandInOrder, HandInStep, InHand, Mark, Send
<1>4. CASE InHand(w) /\ tx[w] = t
  <2>1. (pc[w] = "marking" /\ Mark(t) \in wire /\ Send(t) \notin wire) \/ pc[w] = "sending"
    BY <1>1, <1>4 DEF HandInOrder, HandInStep, InHand
  <2>2. CASE pc[w] = "marking" /\ Mark(t) \in wire /\ Send(t) \notin wire
    BY <1>1, <1>4, <2>2 DEF HandInOrder, HandInStep, InHand
  <2>3. CASE pc[w] = "sending"
    BY <1>1, <1>4, <2>3 DEF HandInOrder, HandInStep, InHand
  <2>4. QED BY <2>1, <2>2, <2>3
<1>5. QED BY <1>2, <1>3, <1>4

(* The verifier answers a mark. *)
LEMMA NoncesMark ==
  ASSUME Inv, Inv', NoncesCovered, NEW t \in TxIds, MarkCollected(t) \/ RefuseMark(t)
  PROVE  NoncesCovered'
<1>1. /\ Mark(t) \in wire /\ wire' = wire \ {Mark(t)}
      /\ UNCHANGED <<pc, tx, tracked, txs, sent, receipt, nonce, faults>>
      /\ answer' = Answered(t, "ok") \/ (RefuseMark(t) /\ answer' = Answered(t, "error"))
      /\ answer \in [TxIds -> {"none", "ok", "error"}]
  BY DEF MarkCollected, RefuseMark, workerVars, tableVars, nodeVars, Inv, TypeOK
<1>2. \A u \in TxIds : /\ Mark(u) \in wire' <=> Mark(u) \in wire /\ u # t
                       /\ Send(u) \in wire' <=> Send(u) \in wire
                       /\ u # t => answer'[u] = answer[u]
  BY <1>1, RequestsDiffer DEF Answered
<1>3. \A u \in TxIds : u # t => (OnRecord(u)' => OnRecord(u))
  BY DEF MarkCollected, RefuseMark, OnRecord, verifierVars
<1>4. ~OnRecord(t) /\ Send(t) \notin wire /\ t \notin sent
  BY <1>1 DEF NoncesCovered, OneRequestAtATime
<1>5. RefuseMark(t) => ~OnRecord(t)'
  BY <1>4 DEF RefuseMark, OnRecord, verifierVars
<1>6. OneRequestAtATime'
  BY <1>1, <1>2, <1>3 DEF NoncesCovered, OneRequestAtATime
<1>7. NoncesInOrder' /\ HandsApart'
  BY <1>1 DEF NoncesCovered, NoncesInOrder, HandsApart
<1>8. \A w \in Workers : HandInOrder(w)'
  <2>1. answer'[t] = answer[t] \/ answer'[t] \in {"ok", "error"}
    BY <1>1 DEF Answered
  <2>2. Mark(t) \notin wire'
    BY <1>2
  <2>3. QED BY <1>1, <1>2, <1>3, <1>4, <2>1, <2>2, HandAnswered
<1>9. Adrift' \subseteq Adrift
  <2>1. \A u \in Adrift' : u # t => u \in Adrift
    BY <1>1, <1>2, <1>3 DEF Adrift
  <2>2. t \in Adrift' => t \in Adrift
    <3>1. CASE RefuseMark(t)
      BY <1>2, <1>4, <1>5, <3>1 DEF Adrift
    <3>2. CASE answer' = Answered(t, "ok")
      <4>1. answer'[t] = "error" => answer[t] = "error"
        BY <1>1, <3>2 DEF Answered
      <4>2. QED BY <1>1, <4>1 DEF Adrift
    <3>3. QED BY <1>1, <3>1, <3>2
  <2>3. QED BY <2>1, <2>2
<1>10. Standing' = Standing /\ PassedNonces' = PassedNonces /\ \A u \in TxIds : Slot(u)' = Slot(u)
  BY <1>1 DEF Standing, Backed, PassedNonces, Slot
<1>11. Endangered' \subseteq Endangered \cup {}
  BY <1>9, <1>10, EndangeredGrows DEF Adrift
<1>12. QED BY <1>1, <1>6, <1>7, <1>8, <1>11, NoncesStep

(* The node takes a transfer: its nonce is passed, and the transfer stands *)
(* there.                                                                  *)
LEMMA NoncesAccept ==
  ASSUME Inv, Inv', PaymentInv, NoncesCovered, NEW t \in TxIds, AcceptTx(t)
  PROVE  NoncesCovered'
<1>1. /\ Send(t) \in wire /\ wire' = wire \ {Send(t)} /\ sent' = sent \cup {t}
      /\ txs[t].nonce = nonce[txs[t].key]
      /\ nonce' = [nonce EXCEPT ![txs[t].key] = @ + 1]
      /\ answer' = Answered(t, "ok")
      /\ UNCHANGED <<pc, tx, tracked, txs, collectedBy, receipt, faults>>
      /\ answer \in [TxIds -> {"none", "ok", "error"}] /\ nonce \in [Keys -> Nat]
      /\ sent \subseteq TxIds
  BY DEF AcceptTx, workerVars, tableVars, verifierVars, Inv, TypeOK
<1>2. t \in 1 .. tracked /\ txs[t].key \in Keys
  BY <1>1, RequestHasRow
<1>3. Mark(t) \notin wire /\ t \notin sent /\ receipt[t] = "none"
  BY <1>1 DEF NoncesCovered, OneRequestAtATime, PaymentInv, MinedWasSent
<1>4. \A u \in TxIds : /\ Mark(u) \in wire' <=> Mark(u) \in wire
                       /\ Send(u) \in wire' <=> Send(u) \in wire /\ u # t
                       /\ OnRecord(u)' = OnRecord(u)
                       /\ u # t => answer'[u] = answer[u]
  BY <1>1, RequestsDiffer DEF OnRecord, Answered
<1>5. OneRequestAtATime'
  BY <1>1, <1>3, <1>4 DEF NoncesCovered, OneRequestAtATime
<1>6. NoncesInOrder'
  <2>1. \A k \in Keys : nonce[k] \in Nat /\ nonce'[k] = IF k = txs[t].key THEN nonce[k] + 1 ELSE nonce[k]
    BY <1>1
  <2>2. \A u \in 1 .. tracked : txs[u].key \in Keys /\ u \in TxIds /\ txs[u].nonce \in Nat
    BY CollectionAssumption DEF Inv, TypeOK, TxIds, TxRow, NoncesCovered, NoncesInOrder
  <2>3. \A u \in 1 .. tracked : txs[u].nonce <= nonce'[txs[u].key]
    BY <2>1, <2>2 DEF NoncesCovered, NoncesInOrder
  <2>4. \A u \in sent' : u \in 1 .. tracked
    BY <1>1, <1>2, RequestHasRow
  <2>5. \A u \in sent' : txs[u].nonce < nonce'[txs[u].key]
    BY <1>1, <2>1, <2>2, <2>4 DEF NoncesCovered, NoncesInOrder
  <2>6. QED BY <1>1, <2>2, <2>3, <2>5 DEF NoncesInOrder
<1>7. HandsApart'
  BY <1>1 DEF NoncesCovered, HandsApart
<1>8. \A w \in Workers : HandInOrder(w)'
  <2>1. answer'[t] = answer[t] \/ answer'[t] = "ok"
    BY <1>1 DEF Answered
  <2>2. QED BY <1>1, <1>4, <2>1, HandAnswered
<1>9. \A u \in TxIds : Slot(u)' = Slot(u)
  BY <1>1 DEF Slot
<1>10. Adrift' \subseteq Adrift
  BY <1>1, <1>4 DEF Adrift
<1>11. Standing \subseteq Standing' /\ Slot(t) \in Standing'
  <2>1. \A u \in sent : Backed(u)' = Backed(u)
    BY <1>1 DEF Backed
  <2>2. Backed(t)'
    BY <1>1, <1>3 DEF Backed
  <2>3. QED BY <1>1, <1>9, <2>1, <2>2 DEF Standing
<1>12. PassedNonces' \subseteq PassedNonces \cup Standing'
  <2>1. ASSUME NEW k \in Keys, NEW i \in 0 .. nonce'[k] - 1, <<k, i>> \notin PassedNonces
        PROVE  <<k, i>> = Slot(t)
    BY <1>1, <1>2, <2>1 DEF PassedNonces, Slot
  <2>2. QED BY <1>11, <2>1 DEF PassedNonces
<1>13. Endangered' \subseteq Endangered \cup {}
  BY <1>9, <1>10, <1>11, <1>12, EndangeredGrows DEF Adrift
<1>14. QED BY <1>1, <1>5, <1>6, <1>7, <1>8, <1>13, NoncesStep

(* The node refuses a transfer, whose nonce it has passed. *)
LEMMA NoncesReject ==
  ASSUME Inv, Inv', NoncesCovered, NEW t \in TxIds, RejectTx(t)
  PROVE  NoncesCovered'
<1>1. /\ Send(t) \in wire /\ wire' = wire \ {Send(t)}
      /\ txs[t].nonce # nonce[txs[t].key]
      /\ answer' = Answered(t, "error")
      /\ UNCHANGED <<pc, tx, tracked, txs, collectedBy, sent, nonce, receipt, faults>>
      /\ answer \in [TxIds -> {"none", "ok", "error"}]
  BY DEF RejectTx, workerVars, tableVars, verifierVars, nodeVars, Inv, TypeOK
<1>2. \A u \in TxIds : /\ Mark(u) \in wire' <=> Mark(u) \in wire
                       /\ Send(u) \in wire' <=> Send(u) \in wire /\ u # t
                       /\ OnRecord(u)' = OnRecord(u)
                       /\ u # t => answer'[u] = answer[u]
  BY <1>1, RequestsDiffer DEF OnRecord, Answered
<1>3. t \notin sent
  BY <1>1 DEF NoncesCovered, OneRequestAtATime
<1>4. Slot(t) \in PassedNonces
  <2>1. txs[t].key \in Keys /\ txs[t].nonce \in Nat /\ nonce[txs[t].key] \in Nat
        /\ txs[t].nonce < nonce[txs[t].key]
    BY <1>1, RequestHasRow
  <2>2. QED BY <2>1, TakenIsPassed
<1>5. OneRequestAtATime'
  BY <1>1, <1>2 DEF NoncesCovered, OneRequestAtATime
<1>6. NoncesInOrder' /\ HandsApart'
  BY <1>1 DEF NoncesCovered, NoncesInOrder, HandsApart
<1>7. \A w \in Workers : HandInOrder(w)'
  <2>1. answer'[t] = answer[t] \/ answer'[t] = "error"
    BY <1>1 DEF Answered
  <2>2. QED BY <1>1, <1>2, <1>3, <2>1, HandAnswered
<1>8. Adrift' \subseteq Adrift \cup {t}
  BY <1>1, <1>2 DEF Adrift
<1>9. Standing' = Standing /\ PassedNonces' = PassedNonces /\ \A u \in TxIds : Slot(u)' = Slot(u)
  BY <1>1 DEF Standing, Backed, PassedNonces, Slot
<1>10. \A u \in Adrift' : Slot(u)' \in PassedNonces \/ \E v \in Adrift : Slot(u)' = Slot(v)
  BY <1>4, <1>8, <1>9 DEF Adrift
<1>11. Endangered' \subseteq Endangered \cup {}
  BY <1>9, <1>10, EndangeredGrows
<1>12. QED BY <1>1, <1>5, <1>6, <1>7, <1>11, NoncesStep

(* A block includes a transfer; where one reverts, none stands. *)
LEMMA NoncesMine ==
  ASSUME Inv, Inv', NoncesCovered, NEW t \in TxIds, Mine(t)
  PROVE  NoncesCovered'
<1> DEFINE S == {Slot(t)}
<1>1. /\ receipt[t] = "none" /\ receipt \in [TxIds -> {"none", "success", "failed"}]
      /\ UNCHANGED <<pc, tx, tracked, txs, collectedBy, sent, nonce, wire, answer>>
      /\ \/ receipt' = [receipt EXCEPT ![t] = "success"] /\ faults' = faults
         \/ receipt' = [receipt EXCEPT ![t] = "failed"] /\ faults' = faults + 1
      /\ sent \subseteq TxIds
  BY DEF Mine, Fault, workerVars, tableVars, verifierVars, Inv, TypeOK
<1>2. OneRequestAtATime' /\ NoncesInOrder' /\ HandsApart'
  BY <1>1 DEF NoncesCovered, OneRequestAtATime, NoncesInOrder, HandsApart, OnRecord
<1>3. \A w \in Workers : HandInOrder(w)'
  BY <1>1 DEF NoncesCovered, HandInOrder, HandInStep, InHand, OnRecord
<1>4. Adrift' = Adrift /\ PassedNonces' = PassedNonces /\ \A u \in TxIds : Slot(u)' = Slot(u)
  BY <1>1 DEF Adrift, OnRecord, PassedNonces, Slot
<1>5. CASE faults' = faults
  <2>1. faults # faults + 1
    BY DEF Inv, TypeOK
  <2>2. \A u \in sent : Backed(u)' = Backed(u)
    BY <1>1, <1>5, <2>1 DEF Backed
  <2>3. Standing' = Standing
    BY <1>1, <1>4, <2>2 DEF Standing
  <2>4. Endangered' \subseteq Endangered \cup {}
    BY <1>4, <2>3, EndangeredGrows DEF Adrift
  <2>5. QED BY <1>2, <1>3, <1>5, <2>4, NoncesStep
<1>6. CASE faults' = faults + 1
  <2>1. \A u \in sent : u # t => Backed(u)' = Backed(u)
    BY <1>1 DEF Backed
  <2>2. Standing \subseteq Standing' \cup S
    BY <1>1, <1>4, <2>1 DEF Standing
  <2>3. \A u \in Adrift' : \E v \in Adrift : Slot(u)' = Slot(v)
    BY <1>4 DEF Adrift
  <2>4. Endangered' \subseteq Endangered \cup S
    <3> HIDE DEF S
    <3>1. QED BY <1>4, <2>2, <2>3, EndangeredGrows
  <2>5. QED BY <1>2, <1>3, <1>6, <2>4, NoncesStep
<1>7. QED BY <1>1, <1>5, <1>6

(* A connection breaks or a request is lost: one transaction goes adrift. *)
LEMMA NoncesLose ==
  ASSUME Inv, Inv', NoncesCovered, NEW t \in TxIds, BreakConnection(t) \/ LoseRequest(t)
  PROVE  NoncesCovered'
<1> DEFINE S == {Slot(t)}
<1>1. /\ Mark(t) \in wire \/ Send(t) \in wire
      /\ wire' \subseteq wire /\ faults' = faults + 1
      /\ UNCHANGED <<pc, tx, tracked, txs, collectedBy, sent, nonce, receipt>>
      /\ answer \in [TxIds -> {"none", "ok", "error"}]
      /\ answer' = [answer EXCEPT ![t] = "error"] \/ answer' = Answered(t, "error")
  BY DEF BreakConnection, LoseRequest, Fault, workerVars, tableVars, verifierVars, nodeVars,
     Inv, TypeOK
<1>2. \A u \in TxIds : /\ OnRecord(u)' = OnRecord(u)
                       /\ u # t => answer'[u] = answer[u]
  BY <1>1 DEF OnRecord, Answered
<1>3. OneRequestAtATime'
  BY <1>1, <1>2 DEF NoncesCovered, OneRequestAtATime
<1>4. NoncesInOrder' /\ HandsApart'
  BY <1>1 DEF NoncesCovered, NoncesInOrder, HandsApart
<1>5. \A w \in Workers : HandInOrder(w)'
  <2>1. answer'[t] = answer[t] \/ answer'[t] = "error"
    BY <1>1 DEF Answered
  <2>2. t \in sent => FALSE
    BY <1>1 DEF NoncesCovered, OneRequestAtATime
  <2>3. QED BY <1>1, <1>2, <2>1, <2>2, HandAnswered
<1>6. Adrift' \subseteq Adrift \cup {t}
  BY <1>1, <1>2 DEF Adrift
<1>7. Standing' = Standing /\ PassedNonces' = PassedNonces /\ \A u \in TxIds : Slot(u)' = Slot(u)
  BY <1>1 DEF Standing, Backed, PassedNonces, Slot
<1>8. \A u \in Adrift' : Slot(u)' \in S \/ \E v \in Adrift : Slot(u)' = Slot(v)
  BY <1>6, <1>7 DEF Adrift
<1>9. Endangered' \subseteq Endangered \cup S
  <2> HIDE DEF S
  <2>1. QED BY <1>7, <1>8, EndangeredGrows
<1>10. QED BY <1>1, <1>3, <1>4, <1>5, <1>9, NoncesStep

(* The owner of a vault takes a nonce. *)
LEMMA NoncesUser ==
  ASSUME Inv, Inv', NoncesCovered, NEW k \in Keys, UserTx(k)
  PROVE  NoncesCovered'
<1> DEFINE S == {<<k, nonce[k]>>}
<1>1. /\ faults' = faults + 1 /\ nonce \in [Keys -> Nat]
      /\ nonce' = [nonce EXCEPT ![k] = @ + 1]
      /\ UNCHANGED <<pc, tx, tracked, txs, collectedBy, sent, wire, answer, receipt>>
  BY DEF UserTx, Fault, workerVars, tableVars, verifierVars, Inv, TypeOK
<1>2. OneRequestAtATime' /\ HandsApart'
  BY <1>1 DEF NoncesCovered, OneRequestAtATime, HandsApart, OnRecord
<1>3. \A w \in Workers : HandInOrder(w)'
  BY <1>1 DEF NoncesCovered, HandInOrder, HandInStep, InHand, OnRecord
<1>4. NoncesInOrder'
  <2>1. \A l \in Keys : nonce[l] \in Nat /\ nonce'[l] \in {nonce[l], nonce[l] + 1}
    BY <1>1
  <2>2. \A u \in 1 .. tracked : txs[u].key \in Keys /\ txs[u].nonce \in Nat
    BY CollectionAssumption DEF Inv, TypeOK, TxIds, TxRow, NoncesCovered, NoncesInOrder
  <2>3. \A u \in sent : u \in 1 .. tracked
    BY RequestHasRow DEF Inv, TypeOK
  <2>4. QED BY <1>1, <2>1, <2>2, <2>3 DEF NoncesCovered, NoncesInOrder
<1>5. Adrift' = Adrift /\ Standing' = Standing /\ \A u \in TxIds : Slot(u)' = Slot(u)
  BY <1>1 DEF Adrift, OnRecord, Standing, Backed, Slot
<1>6. PassedNonces' \subseteq PassedNonces \cup S
  <2>1. ASSUME NEW l \in Keys, NEW i \in 0 .. nonce'[l] - 1, <<l, i>> \notin PassedNonces
        PROVE  <<l, i>> \in S
    BY <1>1, <2>1 DEF PassedNonces
  <2>2. QED BY <2>1 DEF PassedNonces
<1>7. \A u \in Adrift' : \E v \in Adrift : Slot(u)' = Slot(v)
  BY <1>5 DEF Adrift
<1>8. Endangered' \subseteq Endangered \cup S
  <2> HIDE DEF S
  <2>1. QED BY <1>5, <1>6, <1>7, EndangeredGrows
<1>9. QED BY <1>1, <1>2, <1>3, <1>4, <1>8, NoncesStep

(* Keys and entries come, or nothing happens. *)
LEMMA NoncesQuiet ==
  ASSUME Inv, Inv', NoncesCovered,
         UNCHANGED <<pc, tx, tracked, txs, collectedBy, sent, wire, answer, receipt, nonce, faults>>
  PROVE  NoncesCovered'
<1>1. /\ OneRequestAtATime' /\ NoncesInOrder' /\ HandsApart'
      /\ \A w \in Workers : HandInOrder(w)'
  BY DEF NoncesCovered, OneRequestAtATime, NoncesInOrder, HandsApart, HandInOrder, HandInStep,
     InHand, OnRecord
<1>2. Endangered' = Endangered
  BY DEF Endangered, PassedNonces, Adrift, Standing, Slot, Backed, OnRecord
<1>3. QED BY <1>1, <1>2, NoncesStep

LEMMA NoncesWorker ==
  ASSUME Inv, Inv', NoncesCovered, NEW w \in Workers, WorkerStep(w) \/ Crash(w)
  PROVE  NoncesCovered'
<1>1. pc \in [Workers -> Locations] /\ tx \in [Workers -> TxIds \cup {NoTx}]
  BY DEF Inv, TypeOK
<1>2. CASE Start(w) \/ ProcessFees(w) \/ EndCycle(w)
           \/ \E k \in Keys : NothingDue(w, k) \/ FeesDue(w, k) \/ LookupFails(w, k)
  <2>1. /\ UNCHANGED <<wire, collectedBy, tracked, txs, answer, sent, receipt, nonce, tx>>
        /\ faults' \in {faults, faults + 1}
    BY <1>2 DEF Start, ProcessFees, EndCycle, NothingDue, FeesDue, LookupFails, Fault,
       verifierVars, tableVars, nodeVars
  <2>2. ~InHand(w) /\ ~InHand(w)' /\ \A v \in Workers : v # w => pc'[v] = pc[v]
    BY <1>1, <1>2 DEF Start, ProcessFees, EndCycle, NothingDue, FeesDue, LookupFails, InHand
  <2>3. QED BY <2>1, <2>2, NoncesLeaving
<1>3. CASE Crash(w) \/ AttemptFails(w) \/ MarkFails(w) \/ Broadcast(w)
  <2>1. UNCHANGED <<wire, collectedBy, tracked, txs, answer, sent, receipt, nonce>>
    BY <1>3 DEF Crash, AttemptFails, MarkFails, Broadcast, verifierVars, tableVars, nodeVars
  <2>2. /\ ~InHand(w)' /\ tx'[w] = NoTx
        /\ \A v \in Workers : v # w => pc'[v] = pc[v] /\ tx'[v] = tx[v]
    BY <1>1, <1>3 DEF Crash, AttemptFails, MarkFails, Broadcast, NextKey, InHand
  <2>3. CASE Crash(w) \/ AttemptFails(w)
    <3>1. faults' = faults + 1
      BY <2>3 DEF Crash, AttemptFails, Fault
    <3>2. QED BY <2>1, <2>2, <3>1, NoncesLeaving
  <2>4. CASE MarkFails(w)
    <3>1. faults' = faults /\ answer[tx[w]] = "error"
      BY <2>4 DEF MarkFails
    <3>2. QED BY <2>1, <2>2, <3>1, NoncesLeaving
  <2>5. CASE Broadcast(w)
    <3>1. faults' = faults /\ pc[w] = "sending" /\ answer[tx[w]] # "none"
      BY <2>5 DEF Broadcast
    <3>2. answer[tx[w]] \in {"ok", "error"}
      BY <3>1, HandTyped DEF InHand, Inv, TypeOK
    <3>3. answer[tx[w]] = "error" \/ tx[w] \in sent
      BY <3>1, <3>2 DEF NoncesCovered, HandInOrder
    <3>4. QED BY <2>1, <2>2, <3>1, <3>3, NoncesLeaving
  <2>6. QED BY <1>3, <2>3, <2>4, <2>5
<1>4. QED BY <1>2, <1>3, NoncesCreate, NoncesPost DEF WorkerStep

LEMMA NoncesNext ==
  ASSUME Inv, Inv', PaymentInv, NoncesCovered, [Next]_vars
  PROVE  NoncesCovered'
<1>1. ASSUME NEW w \in Workers, WorkerStep(w) \/ Crash(w) PROVE NoncesCovered'
  BY <1>1, NoncesWorker
<1>2. ASSUME NEW t \in TxIds, ServiceStep(t) PROVE NoncesCovered'
  BY <1>2, NoncesMark, NoncesAccept, NoncesReject, NoncesMine DEF ServiceStep
<1>3. ASSUME NEW k \in Keys, InsertPublicKey(k) PROVE NoncesCovered'
  BY <1>3, NoncesQuiet DEF InsertPublicKey, workerVars, verifierVars, tableVars, nodeVars
<1>4. ASSUME NEW f \in Fees, IssueFee(f) PROVE NoncesCovered'
  BY <1>4, NoncesQuiet DEF IssueFee, workerVars, tableVars, nodeVars
<1>5. CASE UNCHANGED vars
  BY <1>5, NoncesQuiet DEF vars, workerVars, verifierVars, tableVars, nodeVars
<1>6. QED BY <1>1, <1>2, <1>3, <1>4, <1>5, NoncesUser, NoncesLose DEF Next, Environment

(* A nonce that is lost is endangered. *)
LEMMA CoveredIsLostByFault ==
  ASSUME Inv, NoncesCovered PROVE NoncesLostByFault
<1>1. ASSUME NEW t \in Spoiled PROVE Slot(t) \in PassedNonces \/ t \in Adrift
  <2>1. CASE t \in sent
    <3>1. t \in TxIds /\ txs[t].nonce < nonce[txs[t].key]
      BY <2>1 DEF Spoiled, NoncesCovered, NoncesInOrder
    <3>2. txs[t].key \in Keys /\ txs[t].nonce \in Nat /\ nonce[txs[t].key] \in Nat
      BY <2>1, <3>1, RequestHasRow
    <3>3. QED BY <3>1, <3>2, TakenIsPassed
  <2>2. CASE t \notin sent
    BY <2>2 DEF Spoiled, Adrift
  <2>3. QED BY <2>1, <2>2
<1>2. LostNonces \subseteq Endangered
  BY <1>1 DEF LostNonces, Endangered
<1>3. IsFiniteSet(Endangered) /\ Cardinality(Endangered) <= faults /\ faults \in Nat
  BY DEF NoncesCovered, Inv, TypeOK
<1>4. /\ Cardinality(LostNonces) \in Nat /\ Cardinality(Endangered) \in Nat
      /\ Cardinality(LostNonces) <= Cardinality(Endangered)
  BY <1>2, <1>3, FS_Subset, FS_CardinalityType
<1>5. QED BY <1>3, <1>4 DEF NoncesLostByFault

LEMMA SpecNonces == Spec => [](Inv /\ PaymentInv /\ NoncesCovered)
<1>1. Inv /\ PaymentInv /\ NoncesCovered /\ [Next]_vars => (Inv /\ PaymentInv /\ NoncesCovered)'
  BY NextInv, PaymentNext, NoncesNext
<1>2. QED BY InitInv, PaymentStart, NoncesStart, <1>1, PTL DEF Spec

(* However many workers run, a nonce of a vault at which entries went on   *)
(* record and no transfer stands is the work of a failure, or of a         *)
(* transaction the owner sent: without one, workers can lose only to each  *)
(* other, where both charge at the same nonce.                             *)
THEOREM NoncesAreAccountedFor == Spec => []NoncesLostByFault
  BY SpecNonces, CoveredIsLostByFault, PTL
-----------------------------------------------------------------------------
(* Refinement: a transaction is a batch of the abstract ledger.            *)

LEMMA LedgerStart == Init => Ledger!LedgerInit
BY DEF Init, Ledger!LedgerInit, NoTx, Paid

(* A mark the verifier applies without overwriting puts one vault's due    *)
(* entries on record under a name no entry bears.                          *)
LEMMA MarkIsRecord ==
  ASSUME Inv, Conditional, NEW t \in TxIds, MarkCollected(t)
  PROVE  \E k \in Keys, S \in (SUBSET Fees) \ {{}} : Ledger!Record(t, k, S)
<1> DEFINE S == txs[t].fees
<1>1. /\ Mark(t) \in wire
      /\ \A f \in S : collectedBy[f] = NoTx
      /\ collectedBy' = [f \in Fees |-> IF f \in S THEN t ELSE collectedBy[f]]
      /\ UNCHANGED <<issued, Paid>>
  BY DEF MarkCollected, nodeVars, Paid
<1>2. t \in 1 .. tracked /\ t # NoTx
  <2>1. ~(t > tracked)
    BY <1>1 DEF Inv, FreshIds
  <2>2. QED BY <2>1, CollectionAssumption DEF Inv, TypeOK, TxIds, NoTx
<1>3. S # {} /\ S \subseteq {f \in issued : Owner[f] = txs[t].key} /\ issued \subseteq Fees
  BY <1>2 DEF Inv, RowsOwned, TypeOK
<1>4. S \in (SUBSET Fees) \ {{}}
  BY <1>3
<1>5. txs[t].key \in Keys
  <2>1. PICK f \in S : f \in Fees /\ Owner[f] = txs[t].key
    BY <1>3
  <2>2. QED BY <2>1, CollectionAssumption
<1>6. Ledger!Members(t) = {}
  BY <1>1, <1>2 DEF Ledger!Members, Inv, RecordNamesRow
<1>7. Ledger!Record(t, txs[t].key, S)
  BY <1>1, <1>3, <1>6 DEF Ledger!Record, NoTx
<1>8. QED BY <1>4, <1>5, <1>7

(* An accepted transaction is on record, so the batch it charges exists. *)
LEMMA MineIsCharge ==
  ASSUME Inv, Conditional, NEW t \in TxIds, Mine(t)
  PROVE  Ledger!Charge(t) \/ UNCHANGED Ledger!ledgerVars
<1>1. /\ t \in sent /\ t \notin Paid
      /\ Paid' = Paid \cup {t} \/ Paid' = Paid
      /\ UNCHANGED <<issued, collectedBy>>
  BY DEF Mine, Paid, verifierVars, Inv, TypeOK
<1>2. Recorded(t)
  BY <1>1 DEF Inv, ReleasedAfterRecord, Authorised
<1>3. t \in 1 .. tracked
  <2>1. ~(t > tracked)
    BY <1>1 DEF Inv, FreshIds
  <2>2. QED BY <2>1, CollectionAssumption DEF Inv, TypeOK, TxIds
<1>4. Ledger!Members(t) # {}
  <2>1. PICK f \in txs[t].fees : f \in Fees
    BY <1>3 DEF Inv, RowsOwned, TypeOK
  <2>2. collectedBy[f] = t
    BY <1>2 DEF Recorded
  <2>3. QED BY <2>1, <2>2 DEF Ledger!Members
<1>5. CASE Paid' = Paid
  BY <1>1, <1>5 DEF Ledger!ledgerVars
<1>6. CASE Paid' = Paid \cup {t}
  BY <1>1, <1>4, <1>6 DEF Ledger!Charge
<1>7. QED BY <1>1, <1>5, <1>6

LEMMA LedgerStep ==
  ASSUME Inv, Conditional, [Next]_vars
  PROVE  [Ledger!LedgerNext]_(Ledger!ledgerVars)
<1>1. ASSUME NEW w \in Workers, WorkerStep(w) \/ Crash(w)
      PROVE  UNCHANGED <<issued, collectedBy, Paid>>
  <2>1. UNCHANGED <<verifierVars, nodeVars>>
    BY <1>1 DEF WorkerStep, Crash, Start, ProcessFees, EndCycle, NothingDue, FeesDue, LookupFails,
       CreateTx, AttemptFails, Sign, MarkAcked, MarkFails, Broadcast
  <2>2. QED BY <2>1 DEF verifierVars, nodeVars, Paid
<1>2. ASSUME NEW t \in TxIds, ServiceStep(t)
      PROVE  [Ledger!LedgerNext]_(Ledger!ledgerVars)
  <2>1. CASE MarkCollected(t)
    BY <2>1, MarkIsRecord DEF Ledger!LedgerNext
  <2>2. CASE Mine(t)
    BY <2>2, MineIsCharge DEF Ledger!LedgerNext
  <2>3. CASE RefuseMark(t) \/ AcceptTx(t) \/ RejectTx(t)
    BY <2>3 DEF RefuseMark, AcceptTx, RejectTx, verifierVars, nodeVars, Paid, Ledger!ledgerVars
  <2>4. QED BY <1>2, <2>1, <2>2, <2>3 DEF ServiceStep
<1>3. CASE Environment
  <2>1. CASE \E f \in Fees : IssueFee(f)
    <3>1. PICK f \in Fees : IssueFee(f)
      BY <2>1
    <3>2. Ledger!FallDue(f)
      BY <3>1 DEF IssueFee, Ledger!FallDue, nodeVars, Paid
    <3>3. QED BY <3>2 DEF Ledger!LedgerNext
  <2>2. CASE \E k \in Keys : InsertPublicKey(k) \/ UserTx(k)
    BY <2>2 DEF InsertPublicKey, UserTx, verifierVars, nodeVars, Paid, Ledger!ledgerVars
  <2>3. CASE \E t \in TxIds : BreakConnection(t) \/ LoseRequest(t)
    BY <2>3 DEF BreakConnection, LoseRequest, verifierVars, nodeVars, Paid, Ledger!ledgerVars
  <2>4. QED BY <1>3, <2>1, <2>2, <2>3 DEF Environment
<1>4. CASE UNCHANGED vars
  BY <1>4 DEF vars, verifierVars, nodeVars, Paid, Ledger!ledgerVars
<1>5. QED BY <1>1, <1>2, <1>3, <1>4 DEF Next, Ledger!ledgerVars

(* With a verifier that does not overwrite, fee collection implements the  *)
(* ledger, for any number of workers: batches are recorded once and        *)
(* charged whole and at most once.                                         *)
THEOREM LedgerImplemented ==
  ASSUME Conditional
  PROVE  Spec => ImplementsLedger
<1>1. Inv /\ [Next]_vars => [Ledger!LedgerNext]_(Ledger!ledgerVars)
  BY LedgerStep
<1>2. QED
  BY SpecInv, LedgerStart, <1>1, PTL DEF Spec, ImplementsLedger, Ledger!LedgerSpec

-----------------------------------------------------------------------------
(* What the ledger keeps, fee collection keeps.                            *)

LEMMA LedgerInvInit == Ledger!LedgerInit => Ledger!LedgerInv
BY DEF Ledger!LedgerInit, Ledger!LedgerInv, Ledger!ChargedIsRecorded, Ledger!OneVault

LEMMA LedgerInvNext ==
  ASSUME Ledger!LedgerInv, [Ledger!LedgerNext]_(Ledger!ledgerVars)
  PROVE  /\ Ledger!LedgerInv'
         /\ \A b \in Paid : b \in Paid' /\ Ledger!Members(b)' = Ledger!Members(b)
<1> DEFINE Final == \A b \in Paid : b \in Paid' /\ Ledger!Members(b)' = Ledger!Members(b)
<1> USE DEF Ledger!LedgerInv, Ledger!ChargedIsRecorded, Ledger!OneVault, Ledger!Members
<1>1. ASSUME NEW f \in Fees, Ledger!FallDue(f) PROVE Ledger!LedgerInv' /\ Final
  BY <1>1 DEF Ledger!FallDue
<1>2. ASSUME NEW b \in TxIds, NEW k \in Keys, NEW S \in (SUBSET Fees) \ {{}},
             Ledger!Record(b, k, S)
      PROVE  Ledger!LedgerInv' /\ Final
  <2>1. /\ \A f \in Fees : collectedBy[f] # b
        /\ \A f \in S : f \in issued /\ collectedBy[f] = 0 /\ Owner[f] = k
        /\ collectedBy' = [f \in Fees |-> IF f \in S THEN b ELSE collectedBy[f]]
        /\ issued' = issued /\ Paid' = Paid
    BY <1>2 DEF Ledger!Record
  <2>2. 0 \notin TxIds
    BY DEF TxIds
  <2>3. \A c \in Paid : c # b /\ c # 0
    BY <2>1, <2>2
  <2>4. Final
    BY <2>1, <2>3
  <2>5. Ledger!OneVault'
    BY <2>1, <2>2
  <2>6. QED BY <2>1, <2>4, <2>5
<1>3. ASSUME NEW b \in TxIds, Ledger!Charge(b) PROVE Ledger!LedgerInv' /\ Final
  BY <1>3 DEF Ledger!Charge
<1>4. CASE UNCHANGED Ledger!ledgerVars
  BY <1>4 DEF Ledger!ledgerVars
<1>5. QED BY <1>1, <1>2, <1>3, <1>4 DEF Ledger!LedgerNext

LEMMA LedgerKeeps == Ledger!LedgerSpec => []Ledger!LedgerInv /\ Ledger!ChargedIsFinal
<1>1. Ledger!LedgerInv /\ [Ledger!LedgerNext]_(Ledger!ledgerVars)
        => /\ Ledger!LedgerInv'
           /\ [\A b \in Paid : b \in Paid' /\ Ledger!Members(b)' = Ledger!Members(b)]_
                (Ledger!ledgerVars)
  BY LedgerInvNext
<1>2. QED BY <1>1, LedgerInvInit, PTL DEF Ledger!LedgerSpec, Ledger!ChargedIsFinal

(* Once a transfer went through, the entries on record under it stay the   *)
(* ones it paid, for any number of workers, if the verifier does not       *)
(* overwrite.  Shown of the ledger, and carried over by the refinement.    *)
THEOREM BooksAreClosed ==
  ASSUME Conditional
  PROVE  Spec => PaidIsFinal
<1>1. Spec => Ledger!LedgerSpec
  BY LedgerImplemented DEF ImplementsLedger
<1>2. Ledger!LedgerSpec => Ledger!ChargedIsFinal
  BY LedgerKeeps, PTL
<1>3. QED BY <1>1, <1>2, PTL DEF PaidIsFinal
=============================================================================
