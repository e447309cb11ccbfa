----------------------------- MODULE FeeCollection -----------------------------
(***************************************************************************)
(* The fee loop of the worker (internal/fee/fees.go): Run, ProcessFees,    *)
(* executeFeesTransaction, initSign and broadcast, with the two services   *)
(* it talks to over requests that may be delayed, lost or answered too     *)
(* late: the verifier (internal/verifierapi) and the Ethereum node.  The   *)
(* verifier, the node and the table of proposed transactions are external  *)
(* code, modelled from how the worker uses them.                           *)
(*                                                                         *)
(* One worker runs the cycles of its ticker one after the other; several   *)
(* workers stand for the old and the new process of a rolling update.      *)
(***************************************************************************)
EXTENDS FeeDebt, FiniteSets

CONSTANTS
  Workers,      \* worker processes
  Keys,         \* public keys of vaults
  NoKey,        \* no key
  Fees,         \* fee entries
  Owner,        \* Owner[f]: the key entry f falls on
  Entry,        \* Entry[f]: type and amount of entry f
  Unknown,      \* keys the verifier answers 404 "public key not found" for
  Conditional,  \* TRUE: the verifier refuses a mark that names an entry already
                \* collected; FALSE: it accepts the mark and overwrites
  MaxTx,        \* bound: transactions built in one behaviour
  MaxFaults     \* bound: crashes, lost messages and failed calls

ASSUME CollectionAssumption ==
  /\ Owner \in [Fees -> Keys]
  /\ Entry \in [Fees -> FeeEntry]
  /\ NoKey \notin Keys
  /\ Unknown \subseteq Keys
  /\ Conditional \in BOOLEAN
  /\ MaxTx \in Nat
  /\ MaxFaults \in Nat

TxIds == 1 .. MaxTx        \* rows of the transaction table, in creation order
NoTx  == 0

Mark(t) == <<"mark", t>>   \* POST /fees/collected for transaction t
Send(t) == <<"send", t>>   \* the raw transaction t, sent to the node
Requests == {"mark", "send"} \X TxIds

(* A row of the transaction table: whose vault pays, for which entries, at *)
(* which nonce.  The amount is DebtOf of the entries.                      *)
TxRow == [key : Keys \cup {NoKey}, fees : SUBSET Fees, nonce : Nat]
EmptyRow == [key |-> NoKey, fees |-> {}, nonce |-> 0]

(* The debt the loop of executeFeesTransaction computes for a set of       *)
(* entries.                                                                *)
DebtOf(S) == DebtOfFees(Entry, S)

(* What the entries of a vault come to, however many of them, fits an      *)
(* int64: in the units of USDC, less than nine million million dollars.    *)
AmountsFit ==
  \A k \in Keys : \A S \in SUBSET {f \in Fees : Owner[f] = k} :
    IsFiniteSet(S) => WorthOf(Entry, S) \in Int64

VARIABLES
  pc,          \* pc[w]: where worker w is
  rows,        \* rows[w]: keys the cycle of w has still to visit
  pk,          \* pk[w]: the key w is charging
  list,        \* list[w]: the entries the verifier listed for pk[w]
  tx,          \* tx[w]: the transaction w is working on
  registered,  \* table plugin_keys
  issued,      \* entries the verifier has issued
  collectedBy, \* collectedBy[f]: the transaction f is marked collected with
  tracked,     \* transactions created so far
  txs,         \* txs[t]: row t of the transaction table
  wire,        \* requests that have not reached the service
  answer,      \* answer[t]: what the last call about t came back with
  sent,        \* transactions the node has accepted
  nonce,       \* nonce[k]: the node's next nonce for the address of k
  receipt,     \* receipt[t]: receipt.Status of t, "none" until it is mined
  faults       \* faults so far

workerVars   == <<pc, rows, pk, list, tx>>
verifierVars == <<issued, collectedBy>>
tableVars    == <<tracked, txs>>
nodeVars     == <<sent, nonce, receipt>>
vars == <<workerVars, registered, verifierVars, tableVars, wire, answer, nodeVars, faults>>

Locations == {"down", "idle", "lookup", "build", "sign", "marking", "sending"}

TypeOK ==
  /\ pc \in [Workers -> Locations]
  /\ rows \in [Workers -> SUBSET Keys]
  /\ pk \in [Workers -> Keys \cup {NoKey}]
  /\ list \in [Workers -> SUBSET Fees]
  /\ tx \in [Workers -> TxIds \cup {NoTx}]
  /\ registered \subseteq Keys
  /\ issued \subseteq Fees
  /\ collectedBy \in [Fees -> TxIds \cup {NoTx}]
  /\ tracked \in 0 .. MaxTx
  /\ txs \in [TxIds -> TxRow]
  /\ wire \subseteq Requests
  /\ answer \in [TxIds -> {"none", "ok", "error"}]
  /\ sent \subseteq TxIds
  /\ nonce \in [Keys -> Nat]
  /\ receipt \in [TxIds -> {"none", "success", "failed"}]
  /\ faults \in 0 .. MaxFaults

Init ==
  /\ pc = [w \in Workers |-> "down"]
  /\ rows = [w \in Workers |-> {}]
  /\ pk = [w \in Workers |-> NoKey]
  /\ list = [w \in Workers |-> {}]
  /\ tx = [w \in Workers |-> NoTx]
  /\ registered = {}
  /\ issued = {}
  /\ collectedBy = [f \in Fees |-> NoTx]
  /\ tracked = 0
  /\ txs = [t \in TxIds |-> EmptyRow]
  /\ wire = {}
  /\ answer = [t \in TxIds |-> "none"]
  /\ sent = {}
  /\ nonce = [k \in Keys |-> 0]
  /\ receipt = [t \in TxIds |-> "none"]
  /\ faults = 0

-----------------------------------------------------------------------------
(* A failure that somebody outside the control of the worker causes. *)
Fault ==
  /\ faults < MaxFaults
  /\ faults' = faults + 1

(* What GET /fees/publickey/<k> lists: entries issued and not collected.   *)
Due(k) == {f \in issued : Owner[f] = k /\ collectedBy[f] = NoTx}

(* The worker leaves executeFeesTransaction, with or without an error, and *)
(* the loop of ProcessFees goes on with the next key.                      *)
NextKey(w) ==
  /\ pc' = [pc EXCEPT ![w] = "lookup"]
  /\ pk' = [pk EXCEPT ![w] = NoKey]
  /\ list' = [list EXCEPT ![w] = {}]
  /\ tx' = [tx EXCEPT ![w] = NoTx]
  /\ UNCHANGED rows

-----------------------------------------------------------------------------
(* Life of a worker. *)

(* main starts the fee loop: go feePlugin.Run(ctx). *)
Start(w) ==
  /\ pc[w] = "down"
  /\ pc' = [pc EXCEPT ![w] = "idle"]
  /\ UNCHANGED <<rows, pk, list, tx, registered, verifierVars, tableVars, wire, answer,
                 nodeVars, faults>>

(* The process ends, at any point of a cycle: it crashes, or main returns  *)
(* on a shutdown signal without waiting for the fee loop.  Everything the  *)
(* loop knew is lost; requests already posted travel on.                   *)
Crash(w) ==
  /\ pc[w] # "down"
  /\ Fault
  /\ pc' = [pc EXCEPT ![w] = "down"]
  /\ rows' = [rows EXCEPT ![w] = {}]
  /\ pk' = [pk EXCEPT ![w] = NoKey]
  /\ list' = [list EXCEPT ![w] = {}]
  /\ tx' = [tx EXCEPT ![w] = NoTx]
  /\ UNCHANGED <<registered, verifierVars, tableVars, wire, answer, nodeVars>>

-----------------------------------------------------------------------------
(* One cycle. *)

(* A tick: ProcessFees reads the registered keys.  The query has no ORDER  *)
(* BY: the cycle visits the rows in whatever order the table yields them.  *)
(* (When the query fails the cycle ends at once and nothing changes.)      *)
ProcessFees(w) ==
  /\ pc[w] = "idle"
  /\ rows' = [rows EXCEPT ![w] = registered]
  /\ pc' = [pc EXCEPT ![w] = "lookup"]
  /\ UNCHANGED <<pk, list, tx, registered, verifierVars, tableVars, wire, answer,
                 nodeVars, faults>>

EndCycle(w) ==
  /\ pc[w] = "lookup"
  /\ rows[w] = {}
  /\ pc' = [pc EXCEPT ![w] = "idle"]
  /\ UNCHANGED <<rows, pk, list, tx, registered, verifierVars, tableVars, wire, answer,
                 nodeVars, faults>>

(* Faulty variant: a key with nothing to charge ends the cycle ("return"   *)
(* for "continue").                                                        *)
NothingDueEndsCycle(w, k) ==
  /\ pc[w] = "lookup"
  /\ k \in rows[w] \ Unknown
  /\ Due(k) = {} \/ DebtOf(Due(k)) <= 0
  /\ pc' = [pc EXCEPT ![w] = "idle"]
  /\ rows' = [rows EXCEPT ![w] = {}]
  /\ UNCHANGED <<pk, list, tx, registered, verifierVars, tableVars, wire, answer,
                 nodeVars, faults>>

(* GetPublicKeysFees answers with entries that leave nothing to charge:    *)
(* none at all, or a debt that is zero or negative.                        *)
NothingDue(w, k) ==
  /\ pc[w] = "lookup"
  /\ k \in rows[w] \ Unknown
  /\ Due(k) = {} \/ DebtOf(Due(k)) <= 0
  /\ rows' = [rows EXCEPT ![w] = @ \ {k}]
  /\ UNCHANGED <<pc, pk, list, tx, registered, verifierVars, tableVars, wire, answer,
                 nodeVars, faults>>

(* GetPublicKeysFees answers with a positive debt: the entries it listed   *)
(* are the ones this attempt will charge and mark, whatever is issued or   *)
(* collected meanwhile.                                                    *)
FeesDue(w, k) ==
  /\ pc[w] = "lookup"
  /\ k \in rows[w] \ Unknown
  /\ Due(k) # {}
  /\ DebtOf(Due(k)) > 0
  /\ pc' = [pc EXCEPT ![w] = "build"]
  /\ rows' = [rows EXCEPT ![w] = @ \ {k}]
  /\ pk' = [pk EXCEPT ![w] = k]
  /\ list' = [list EXCEPT ![w] = Due(k)]
  /\ UNCHANGED <<tx, registered, verifierVars, tableVars, wire, answer, nodeVars, faults>>

(* GetPublicKeysFees fails, because the verifier does not know the key or  *)
(* the call went wrong: ProcessFees returns and the keys it had not yet    *)
(* visited wait for the next tick.                                         *)
LookupFails(w, k) ==
  /\ pc[w] = "lookup"
  /\ k \in rows[w]
  /\ IF k \in Unknown THEN UNCHANGED faults ELSE Fault
  /\ pc' = [pc EXCEPT ![w] = "idle"]
  /\ rows' = [rows EXCEPT ![w] = {}]
  /\ UNCHANGED <<pk, list, tx, registered, verifierVars, tableVars, wire, answer, nodeVars>>

(* Faulty variant: the nonce of the last transaction, not the next one. *)
CreateTxLastNonce(w) ==
  /\ pc[w] = "build"
  /\ tracked < MaxTx
  /\ tracked' = tracked + 1
  /\ txs' = [txs EXCEPT ![tracked + 1] =
               [key |-> pk[w], fees |-> list[w], nonce |-> nonce[pk[w]] - 1]]
  /\ tx' = [tx EXCEPT ![w] = tracked + 1]
  /\ pc' = [pc EXCEPT ![w] = "sign"]
  /\ UNCHANGED <<rows, pk, list, registered, verifierVars, wire, answer, nodeVars, faults>>

(* Faulty variant: one is added to the nonce the node gave. *)
CreateTxNonceAfterNext(w) ==
  /\ pc[w] = "build"
  /\ tracked < MaxTx
  /\ tracked' = tracked + 1
  /\ txs' = [txs EXCEPT ![tracked + 1] =
               [key |-> pk[w], fees |-> list[w], nonce |-> nonce[pk[w]] + 1]]
  /\ tx' = [tx EXCEPT ![w] = tracked + 1]
  /\ pc' = [pc EXCEPT ![w] = "sign"]
  /\ UNCHANGED <<rows, pk, list, registered, verifierVars, wire, answer, nodeVars, faults>>

(* genUnsignedTx fixes amount and nonce, CreateTx stores the transaction   *)
(* under a fresh id.                                                       *)
CreateTx(w) ==
  /\ pc[w] = "build"
  /\ tracked < MaxTx
  /\ tracked' = tracked + 1
  /\ txs' = [txs EXCEPT ![tracked + 1] =
               [key |-> pk[w], fees |-> list[w], nonce |-> nonce[pk[w]]]]
  /\ tx' = [tx EXCEPT ![w] = tracked + 1]
  /\ pc' = [pc EXCEPT ![w] = "sign"]
  /\ UNCHANGED <<rows, pk, list, registered, verifierVars, wire, answer, nodeVars, faults>>

(* Loading the vault, deriving the address, asking the node for a nonce,   *)
(* storing or signing the transaction fails: the attempt ends.             *)
AttemptFails(w) ==
  /\ pc[w] \in {"build", "sign"}
  /\ Fault
  /\ NextKey(w)
  /\ UNCHANGED <<registered, verifierVars, tableVars, wire, answer, nodeVars>>

(* Faulty variant: the transaction goes out together with the mark. *)
SignAndSend(w) ==
  /\ pc[w] = "sign"
  /\ wire' = wire \cup {Mark(tx[w]), Send(tx[w])}
  /\ pc' = [pc EXCEPT ![w] = "marking"]
  /\ UNCHANGED <<rows, pk, list, tx, registered, verifierVars, tableVars, answer, nodeVars, faults>>

(* Faulty variant: the transaction is sent and the mark forgotten. *)
SignUnmarked(w) ==
  /\ pc[w] = "sign"
  /\ wire' = wire \cup {Send(tx[w])}
  /\ pc' = [pc EXCEPT ![w] = "sending"]
  /\ UNCHANGED <<rows, pk, list, tx, registered, verifierVars, tableVars, answer, nodeVars, faults>>

(* signer.Sign returned one signature; initSign posts the mark before the  *)
(* transaction has been sent anywhere.                                     *)
Sign(w) ==
  /\ pc[w] = "sign"
  /\ wire' = wire \cup {Mark(tx[w])}
  /\ pc' = [pc EXCEPT ![w] = "marking"]
  /\ UNCHANGED <<rows, pk, list, tx, registered, verifierVars, tableVars, answer, nodeVars, faults>>

(* Faulty variant: the error of MarkFeeAsCollected is dropped. *)
MarkErrorIgnored(w) ==
  /\ pc[w] = "marking"
  /\ answer[tx[w]] # "none"
  /\ answer' = [answer EXCEPT ![tx[w]] = "none"]
  /\ wire' = wire \cup {Send(tx[w])}
  /\ pc' = [pc EXCEPT ![w] = "sending"]
  /\ UNCHANGED <<rows, pk, list, tx, registered, verifierVars, tableVars, nodeVars, faults>>

(* MarkFeeAsCollected returned nil: broadcast sends the transaction. *)
MarkAcked(w) ==
  /\ pc[w] = "marking"
  /\ answer[tx[w]] = "ok"
  /\ answer' = [answer EXCEPT ![tx[w]] = "none"]
  /\ wire' = wire \cup {Send(tx[w])}
  /\ pc' = [pc EXCEPT ![w] = "sending"]
  /\ UNCHANGED <<rows, pk, list, tx, registered, verifierVars, tableVars, nodeVars, faults>>

(* MarkFeeAsCollected returned an error: the transaction is not sent.  The *)
(* error does not tell whether the verifier applied the mark.              *)
MarkFails(w) ==
  /\ pc[w] = "marking"
  /\ answer[tx[w]] = "error"
  /\ NextKey(w)
  /\ UNCHANGED <<registered, verifierVars, tableVars, wire, answer, nodeVars, faults>>

(* Faulty variant: a failed broadcast is retried with a new transaction. *)
BroadcastRetried(w) ==
  /\ pc[w] = "sending"
  /\ answer[tx[w]] # "none"
  /\ IF answer[tx[w]] = "error"
       THEN /\ pc' = [pc EXCEPT ![w] = "build"]
            /\ UNCHANGED <<rows, pk, list, tx>>
       ELSE NextKey(w)
  /\ UNCHANGED <<registered, verifierVars, tableVars, wire, answer, nodeVars, faults>>

(* eth.Send returned.  waitMined is false: a transaction the node accepted *)
(* is not looked at again, and a failure is logged and not retried.        *)
Broadcast(w) ==
  /\ pc[w] = "sending"
  /\ answer[tx[w]] # "none"
  /\ NextKey(w)
  /\ UNCHANGED <<registered, verifierVars, tableVars, wire, answer, nodeVars, faults>>

-----------------------------------------------------------------------------
(* The services, external code.                                            *)

(* The first outcome of a call is the one the caller sees. *)
Answered(t, result) ==
  [answer EXCEPT ![t] = IF @ = "none" THEN result ELSE @]

(* A reshare has finished and InsertPublicKey adds the key. *)
InsertPublicKey(k) ==
  /\ k \in Keys \ registered
  /\ registered' = registered \cup {k}
  /\ UNCHANGED <<workerVars, verifierVars, tableVars, wire, answer, nodeVars, faults>>

(* The verifier issues an entry. *)
IssueFee(f) ==
  /\ f \in Fees \ issued
  /\ issued' = issued \cup {f}
  /\ UNCHANGED <<workerVars, registered, collectedBy, tableVars, wire, answer, nodeVars, faults>>

(* The verifier records the entries of a mark as collected. *)
MarkCollected(t) ==
  /\ Mark(t) \in wire
  /\ Conditional => \A f \in txs[t].fees : collectedBy[f] = NoTx
  /\ collectedBy' = [f \in Fees |-> IF f \in txs[t].fees THEN t ELSE collectedBy[f]]
  /\ wire' = wire \ {Mark(t)}
  /\ answer' = Answered(t, "ok")
  /\ UNCHANGED <<workerVars, registered, issued, tableVars, nodeVars, faults>>

(* The verifier refuses a mark that overlaps what it has on record. *)
RefuseMark(t) ==
  /\ Mark(t) \in wire
  /\ Conditional
  /\ \E f \in txs[t].fees : collectedBy[f] # NoTx
  /\ wire' = wire \ {Mark(t)}
  /\ answer' = Answered(t, "error")
  /\ UNCHANGED <<workerVars, registered, verifierVars, tableVars, nodeVars, faults>>

(* The node takes a transaction that carries the next nonce of its sender. *)
AcceptTx(t) ==
  /\ Send(t) \in wire
  /\ txs[t].nonce = nonce[txs[t].key]
  /\ sent' = sent \cup {t}
  /\ nonce' = [nonce EXCEPT ![txs[t].key] = @ + 1]
  /\ wire' = wire \ {Send(t)}
  /\ answer' = Answered(t, "ok")
  /\ UNCHANGED <<workerVars, registered, verifierVars, tableVars, receipt, faults>>

(* A block includes a transaction the node accepted.  The transfer may     *)
(* revert, when the vault holds too little USDC say.                       *)
Mine(t) ==
  /\ t \in sent
  /\ receipt[t] = "none"
  /\ \/ receipt' = [receipt EXCEPT ![t] = "success"] /\ UNCHANGED faults
     \/ receipt' = [receipt EXCEPT ![t] = "failed"] /\ Fault
  /\ UNCHANGED <<workerVars, registered, verifierVars, tableVars, wire, answer, sent, nonce>>

(* "nonce too low": the vault sent something else since genUnsignedTx. *)
RejectTx(t) ==
  /\ Send(t) \in wire
  /\ txs[t].nonce # nonce[txs[t].key]
  /\ wire' = wire \ {Send(t)}
  /\ answer' = Answered(t, "error")
  /\ UNCHANGED <<workerVars, registered, verifierVars, tableVars, nodeVars, faults>>

(* The owner of the vault sends a transaction of his own. *)
UserTx(k) ==
  /\ Fault
  /\ nonce' = [nonce EXCEPT ![k] = @ + 1]
  /\ UNCHANGED <<workerVars, registered, verifierVars, tableVars, wire, answer, sent, receipt>>

(* The caller's connection breaks and it sees an error, but the request    *)
(* may still arrive.                                                       *)
BreakConnection(t) ==
  /\ {Mark(t), Send(t)} \cap wire # {}
  /\ answer[t] = "none"
  /\ Fault
  /\ answer' = [answer EXCEPT ![t] = "error"]
  /\ UNCHANGED <<workerVars, registered, verifierVars, tableVars, wire, nodeVars>>

(* A request is lost, or the service fails before it has done anything. *)
LoseRequest(t) ==
  /\ \E m \in {Mark(t), Send(t)} \cap wire : wire' = wire \ {m}
  /\ Fault
  /\ answer' = Answered(t, "error")
  /\ UNCHANGED <<workerVars, registered, verifierVars, tableVars, nodeVars>>

-----------------------------------------------------------------------------
(* What worker w does when nothing goes wrong. *)
WorkerStep(w) ==
  \/ Start(w)
  \/ ProcessFees(w)
  \/ EndCycle(w)
  \/ \E k \in Keys : NothingDue(w, k) \/ FeesDue(w, k) \/ LookupFails(w, k)
  \/ CreateTx(w)
  \/ AttemptFails(w)
  \/ Sign(w)
  \/ MarkAcked(w)
  \/ MarkFails(w)
  \/ Broadcast(w)

(* What a service does with a request that has arrived. *)
ServiceStep(t) ==
  MarkCollected(t) \/ RefuseMark(t) \/ AcceptTx(t) \/ RejectTx(t) \/ Mine(t)

Environment ==
  \/ \E k \in Keys : InsertPublicKey(k) \/ UserTx(k)
  \/ \E f \in Fees : IssueFee(f)
  \/ \E t \in TxIds : BreakConnection(t) \/ LoseRequest(t)

Next ==
  \/ \E w \in Workers : WorkerStep(w) \/ Crash(w)
  \/ \E t \in TxIds : ServiceStep(t)
  \/ Environment

Spec == Init /\ [][Next]_vars

(* The ticker fires and the goroutine runs, a process that ended is        *)
(* started again, a posted request reaches its service unless it is lost.  *)
Fairness ==
  /\ \A w \in Workers : WF_vars(WorkerStep(w))
  /\ \A t \in TxIds : WF_vars(ServiceStep(t))

FairSpec == Spec /\ Fairness

-----------------------------------------------------------------------------
(* Transactions that may be, or have been, taken by the node. *)
Authorised == {t \in TxIds : Send(t) \in wire \/ t \in sent}

(* Transactions whose transfer went through. *)
Paid == {t \in TxIds : receipt[t] = "success"}

(* The entries of t are on record, under t itself when the verifier does   *)
(* not overwrite.                                                          *)
Recorded(t) ==
  \A f \in txs[t].fees :
    /\ collectedBy[f] # NoTx
    /\ Conditional => collectedBy[f] = t

SingleWorker == \A v, w \in Workers : v = w

(* No entry is paid twice: the fees of two transactions the node accepted  *)
(* have nothing in common.  MarkFeeAsCollected comes before broadcast for  *)
(* this.                                                                   *)
AtMostOnce ==
  \A t, u \in sent : t # u => txs[t].fees \cap txs[u].fees = {}

(* An entry whose transfer the node accepted is on record as collected.    *)
PaidIsCollected ==
  \A t \in sent : \A f \in txs[t].fees : collectedBy[f] # NoTx

(* The transaction on record for an entry is the one that paid it, so the  *)
(* tx_hash of the mark can be trusted; only a verifier that refuses to     *)
(* overwrite a mark can promise it.                                        *)
RecordIsThePayment ==
  Conditional => \A t \in sent : \A f \in txs[t].fees : collectedBy[f] = t

(* What the treasury received from a key is what the entries it paid come  *)
(* to, credits included: no credit is used twice.                          *)
Received(k) ==
  SumOver([t \in TxIds |-> ToUint64(DebtOf(txs[t].fees))], {t \in Paid : txs[t].key = k})

PaidMatchesEntries ==
  \A k \in Keys :
    Received(k) = DebtOf(UNION {txs[t].fees : t \in {u \in Paid : txs[u].key = k}})

Collected == {f \in Fees : collectedBy[f] # NoTx}

(* The loop does not sign without end: a lone worker builds at most one    *)
(* transaction for each entry on record, one for each failure, and the one *)
(* it works on.                                                            *)
AttemptsBounded ==
  \A w \in Workers : Workers = {w} =>
    tracked <= Cardinality(Collected) + faults
                 + (IF pc[w] \in {"sign", "marking", "sending"} THEN 1 ELSE 0)

(* What the order of mark and transfer can cost: a transaction on record   *)
(* that no transfer backs any more is the work of a failure, or of a       *)
(* transaction the owner of the vault sent, and each of those spoils at    *)
(* most one.  Of a lone worker only: two may charge a vault at one nonce.  *)
OnRecord(t) == \E f \in Fees : collectedBy[f] = t

Backed(t) == t \in sent /\ receipt[t] # "failed"

Spoiled ==
  {t \in TxIds : /\ OnRecord(t) /\ ~Backed(t) /\ Send(t) \notin wire
                 /\ \A w \in Workers : tx[w] # t}

OneLossPerFault == \A w \in Workers : Workers = {w} => Cardinality(Spoiled) <= faults

(* Of any number of workers: a nonce of a vault at which entries were put  *)
(* on record and no transfer stands is the work of a failure, each of its  *)
(* own.  So what overlapping workers lose without a failure, they lose to  *)
(* each other: a transfer of the other stands at that nonce.               *)
Slot(t) == <<txs[t].key, txs[t].nonce>>

Standing == {Slot(t) : t \in {u \in sent : Backed(u)}}

LostNonces == {Slot(t) : t \in Spoiled} \ Standing

NoncesLostByFault == Cardinality(LostNonces) <= faults

(* A due debt of a registered key the verifier knows is eventually marked  *)
(* collected, when faults do not go on for ever.                           *)
CollectedEventually ==
  \A k \in Keys \ Unknown :
    (k \in registered /\ DebtOf(Due(k)) > 0) ~> (DebtOf(Due(k)) <= 0)

(* "Sends collected fees to the designated Vultisig treasury address"      *)
(* (skills.md): an entry marked collected is eventually paid.              *)
CollectedIsPaid ==
  \A f \in Fees :
    (collectedBy[f] # NoTx) ~> (\E t \in Paid : f \in txs[t].fees)

(* Collection implements the abstract ledger when the verifier refuses     *)
(* overlapping marks: a transaction is a batch, recorded once and charged  *)
(* whole.                                                                  *)
Ledger == INSTANCE FeeLedger
  WITH Batches <- TxIds, batchOf <- collectedBy, charged <- Paid

ImplementsLedger == Ledger!LedgerSpec

(* The books on a payment are closed: once a transfer went through, the    *)
(* entries on record under it stay the ones it paid, whatever mark arrives *)
(* late and whatever later attempt fails.  A verifier that overwrites      *)
(* cannot promise it.                                                      *)
PaidIsFinal == Ledger!ChargedIsFinal
-----------------------------------------------------------------------------
(* The inductive invariant behind AtMostOnce and ImplementsLedger.         *)

(* An id that was not handed out occurs nowhere. *)
FreshIds ==
  \A t \in TxIds : t > tracked =>
    {Mark(t), Send(t)} \cap wire = {} /\ t \notin sent /\ answer[t] = "none"

(* A row of the transaction table charges one vault for entries issued to  *)
(* it, at least one.                                                       *)
RowsOwned ==
  \A t \in 1 .. tracked :
    /\ txs[t].fees # {}
    /\ txs[t].fees \subseteq {f \in issued : Owner[f] = txs[t].key}

(* What a worker remembers of the attempt it is in. *)
AttemptMatchesRow ==
  \A w \in Workers :
    /\ pc[w] = "build" =>
         list[w] # {} /\ list[w] \subseteq {f \in issued : Owner[f] = pk[w]}
    /\ pc[w] \in {"sign", "marking", "sending"} =>
         tx[w] \in 1 .. tracked /\ txs[tx[w]].fees = list[w]

(* The record of an entry names a transaction that charges it. *)
RecordNamesRow ==
  \A f \in Fees : collectedBy[f] # NoTx =>
    collectedBy[f] <= tracked /\ f \in txs[collectedBy[f]].fees

(* A call about t was answered with success only once t was on record, and *)
(* only then is t released to the node.                                    *)
ReleasedAfterRecord ==
  \A t \in TxIds : answer[t] = "ok" \/ t \in Authorised => Recorded(t)

(* The entries of the attempt of a lone worker are in no transaction that  *)
(* was released before.                                                    *)
AttemptIsNew ==
  SingleWorker =>
    \A w \in Workers : pc[w] \in {"build", "sign", "marking"} =>
      \A t \in Authorised : list[w] \cap txs[t].fees = {}

(* Released transactions have no entry in common. *)
ReleasedOnce ==
  Conditional \/ SingleWorker =>
    \A t, u \in Authorised : t # u => txs[t].fees \cap txs[u].fees = {}

Inv ==
  /\ TypeOK
  /\ FreshIds
  /\ RowsOwned
  /\ AttemptMatchesRow
  /\ RecordNamesRow
  /\ ReleasedAfterRecord
  /\ AttemptIsNew
  /\ ReleasedOnce

-----------------------------------------------------------------------------
(* The rest of the argument for PaidMatchesEntries.                        *)

(* An attempt, and so a row, is for entries that come to a debt. *)
ChargesAreDebts ==
  /\ \A w \in Workers : pc[w] = "build" => DebtOf(list[w]) > 0
  /\ \A t \in 1 .. tracked : DebtOf(txs[t].fees) > 0

(* Only what the node accepted is mined. *)
MinedWasSent == \A t \in TxIds : receipt[t] # "none" => t \in sent

PaymentInv == IsFiniteSet(issued) /\ ChargesAreDebts /\ MinedWasSent

-----------------------------------------------------------------------------
(* The inductive invariant behind OneLossPerFault.                         *)

(* An attempt is in hand from the row it writes to the end of initSign. *)
InHand(w) == pc[w] \in {"sign", "marking", "sending"}

(* A transaction has its mark and then its transfer on the wire, once. *)
OneRequestAtATime ==
  \A t \in TxIds :
    /\ Mark(t) \in wire => ~OnRecord(t) /\ Send(t) \notin wire
    /\ Mark(t) \in wire \/ Send(t) \in wire => t \notin sent

(* Where the transaction in hand is. *)
HandInStep(w) ==
  /\ ~InHand(w) => tx[w] = NoTx
  /\ pc[w] = "sign" =>
       answer[tx[w]] = "none" /\ Mark(tx[w]) \notin wire /\ ~OnRecord(tx[w])
  /\ pc[w] \in {"sign", "marking"} => Send(tx[w]) \notin wire /\ tx[w] \notin sent
  /\ pc[w] = "marking" /\ answer[tx[w]] = "ok" => Mark(tx[w]) \notin wire
  /\ pc[w] = "sending" => Mark(tx[w]) \notin wire

(* A transaction that is on record without a transfer, or may get there. *)
Loose(t) == Mark(t) \in wire \/ Send(t) \in wire \/ (OnRecord(t) /\ ~Backed(t))

(* The last call about the transaction in hand has ended the attempt. *)
AttemptOver(w) ==
  \/ pc[w] = "marking" /\ answer[tx[w]] = "error"
  \/ pc[w] = "sending" /\ answer[tx[w]] # "none"

(* Its nonce is taken. *)
NonceTaken(t) == t \notin sent /\ txs[t].nonce # nonce[txs[t].key]

(* The transaction in hand is about to become a loose end. *)
Slipping(w) ==
  \/ AttemptOver(w) /\ Loose(tx[w])
  \/ InHand(w) /\ NonceTaken(tx[w])

LooseEnds(w) == {t \in TxIds \ {tx[w]} : Loose(t)}

(* Every loose end has a failure of its own. *)
LossesCovered(w) ==
  Cardinality(LooseEnds(w)) + (IF Slipping(w) THEN 1 ELSE 0) <= faults

LossesCounted ==
  \A w \in Workers : Workers = {w} =>
    OneRequestAtATime /\ HandInStep(w) /\ LossesCovered(w)

-----------------------------------------------------------------------------
(* The inductive invariant behind NoncesLostByFault.                       *)

(* A transaction that is on record, or may get there, and that no worker   *)
(* is going to see through.                                                *)
Adrift ==
  {t \in TxIds \ sent :
     /\ Mark(t) \in wire \/ Send(t) \in wire \/ OnRecord(t)
     /\ \A w \in Workers : tx[w] = t => answer[t] = "error"}

PassedNonces == UNION {{k} \X (0 .. nonce[k] - 1) : k \in Keys}

(* Nonces that are lost, or may be lost without another failure. *)
Endangered == (PassedNonces \cup {Slot(t) : t \in Adrift}) \ Standing

(* The node gives out its next nonce, which only grows, and takes it once. *)
NoncesInOrder ==
  /\ \A t \in 1 .. tracked : txs[t].key \in Keys /\ txs[t].nonce <= nonce[txs[t].key]
  /\ \A t \in sent : txs[t].nonce < nonce[txs[t].key]

(* What a worker has in hand, step by step. *)
HandInOrder(w) ==
  /\ HandInStep(w)
  /\ pc[w] = "sending" /\ answer[tx[w]] = "ok" => tx[w] \in sent

(* No two workers work on one transaction. *)
HandsApart == \A v, w \in Workers : tx[v] = tx[w] /\ tx[v] # NoTx => v = w

NoncesCovered ==
  /\ OneRequestAtATime
  /\ NoncesInOrder
  /\ HandsApart
  /\ \A w \in Workers : HandInOrder(w)
  /\ IsFiniteSet(Endangered)
  /\ Cardinality(Endangered) <= faults

-----------------------------------------------------------------------------
(* The inductive invariant behind AttemptsBounded.                         *)

(* The attempt of w needs no failure to explain that it ends: an entry it  *)
(* lists has been collected, or its mark is known to have failed.          *)
Explained(w) ==
  \/ list[w] \cap Collected # {}
  \/ pc[w] = "marking" /\ answer[tx[w]] = "error"

(* The transaction w is about to build, and the attempt of w that nothing  *)
(* explains yet.                                                           *)
AboutToBuild(w) == IF pc[w] = "build" THEN 1 ELSE 0
Unexplained(w) ==
  IF pc[w] \in {"build", "sign", "marking", "sending"} /\ ~Explained(w) THEN 1 ELSE 0

(* Every transaction is accounted for by an entry, a failure or the        *)
(* attempt under way.                                                      *)
Accounted(w) ==
  tracked + AboutToBuild(w) <= Cardinality(Collected) + faults + Unexplained(w)

(* No request about a transaction is under way while it is being signed. *)
SigningIsSilent(w) ==
  pc[w] = "sign" => answer[tx[w]] = "none" /\ {Mark(tx[w]), Send(tx[w])} \cap wire = {}

(* What is being broadcast has an entry on record. *)
SendingIsExplained(w) == pc[w] = "sending" => list[w] \cap Collected # {}

AttemptsCounted ==
  \A w \in Workers : Workers = {w} =>
    Accounted(w) /\ SigningIsSilent(w) /\ SendingIsExplained(w)

(* A lone worker never waits for an id. *)
NeverOutOfIds == SingleWorker => \A w \in Workers : pc[w] = "build" => tracked < MaxTx
=============================================================================
