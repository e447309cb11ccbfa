--------------------------- MODULE WorkerSystemProofs ---------------------------
(* Proofs about the worker process, for any tasks, keys, entries, slots    *)
(* and bounds: its loop is the fee loop, its handlers are key              *)
(* registration, and the loop always has the vault it works with.          *)
EXTENDS WorkerSystem, KeyRegistrationProofs

-----------------------------------------------------------------------------
(* Every step of the process is a step of registration or leaves it alone. *)
LEMMA RegistrationStep ==
  ASSUME [SystemNext]_systemVars
  PROVE  [Next]_registrationVars
<1>1. CASE LoopGoesOn
  BY <1>1 DEF LoopGoesOn, StartProcess, LoopStep, AskSignature, ReturnSignature, CountTransaction
<1>2. CASE EndProcess
  <2>1. Die(Active)
    BY <1>2 DEF EndProcess
  <2>2. QED BY <2>1 DEF Next
<1>3. ASSUME NEW t \in TxIds, BeginKeysign(t) \/ EndKeysign(t) \/ AnswerStep(t)
      PROVE  UNCHANGED registrationVars
  BY <1>3 DEF BeginKeysign, EndKeysign, AnswerStep
<1>4. ASSUME NEW t \in Tasks, ReshareStep(t) PROVE HandlerStep(t)
  BY <1>4 DEF ReshareStep, HandlerStep
<1>5. CASE Outside
  BY <1>5 DEF Outside, Next
<1>6. CASE UNCHANGED systemVars
  BY <1>6 DEF systemVars
<1>7. QED
  BY <1>1, <1>2, <1>3, <1>4, <1>5, <1>6 DEF SystemNext, Next

LEMMA RegistrationInv == SystemSpec => []Inv
<1>1. SystemInit => Init
  BY DEF SystemInit
<1>2. [SystemNext]_systemVars => [Next]_registrationVars
  BY RegistrationStep
<1>3. QED BY <1>1, <1>2, InitInv, NextInv, PTL DEF SystemSpec

-----------------------------------------------------------------------------
(* A step of the reshare handlers is, to the loop, the insertion of a key  *)
(* or nothing.                                                             *)
LEMMA HandlersInsertKeys ==
  ASSUME Inv, NEW t \in Tasks, Enqueue(t) \/ HandlerStep(t), UNCHANGED loopVars
  PROVE  [Loop!Next]_(Loop!vars)
<1>1. CASE table' = table
  BY <1>1 DEF loopVars, Registered, Loop!vars, Loop!workerVars, Loop!verifierVars,
     Loop!tableVars, Loop!nodeVars
<1>2. CASE InsertRow(t)
  <2>1. Registered' = Registered \cup {KeyOf[t]} /\ KeyOf[t] \in Keys
    BY <1>2, StoredKey, RegistrationAssumption DEF InsertRow
  <2>2. CASE KeyOf[t] \in Registered
    BY <2>1, <2>2 DEF loopVars, Loop!vars, Loop!workerVars, Loop!verifierVars,
       Loop!tableVars, Loop!nodeVars
  <2>3. CASE KeyOf[t] \notin Registered
    <3>1. Loop!InsertPublicKey(KeyOf[t])
      BY <2>1, <2>3 DEF loopVars, Loop!InsertPublicKey, Loop!workerVars, Loop!verifierVars,
         Loop!tableVars, Loop!nodeVars
    <3>2. QED BY <2>1, <3>1 DEF Loop!Next, Loop!Environment
  <2>4. QED BY <2>2, <2>3
<1>3. QED
  BY <1>1, <1>2 DEF HandlerStep, Enqueue, Begin, SaveShare, ReshareFails, InsertOK, InsertFails, Recover

LEMMA LoopStepImplemented ==
  ASSUME Inv, [SystemNext]_systemVars
  PROVE  [Loop!Next]_(Loop!vars)
<1>1. CASE LoopGoesOn
  <2>1. CASE AskSignature
    BY <2>1 DEF AskSignature, registrationVars, loopVars, Registered, Loop!vars, Loop!workerVars,
       Loop!verifierVars, Loop!tableVars, Loop!nodeVars
  <2>2. CASE ~AskSignature
    <3>1. Loop!WorkerStep(Worker)
      BY <1>1, <2>2 DEF LoopGoesOn, StartProcess, LoopStep, ReturnSignature, CountTransaction,
         Loop!WorkerStep
    <3>2. QED BY <3>1 DEF Loop!Next
  <2>3. QED BY <2>1, <2>2
<1>2. CASE EndProcess
  <2>1. Loop!Crash(Worker)
    BY <1>2 DEF EndProcess
  <2>2. QED BY <2>1 DEF Loop!Next
<1>3. ASSUME NEW t \in TxIds, BeginKeysign(t) \/ EndKeysign(t)
      PROVE  UNCHANGED Loop!vars
  BY <1>3 DEF BeginKeysign, EndKeysign, registrationVars, loopVars, Registered, Loop!vars,
     Loop!workerVars, Loop!verifierVars, Loop!tableVars, Loop!nodeVars
<1>4. ASSUME NEW t \in TxIds, AnswerStep(t) PROVE Loop!Next
  BY <1>4 DEF AnswerStep, TxIds, Loop!Next
<1>5. ASSUME NEW t \in Tasks, ReshareStep(t) PROVE [Loop!Next]_(Loop!vars)
  BY <1>5, HandlersInsertKeys DEF ReshareStep, HandlerStep
<1>6. CASE Outside
  <2>1. CASE \E t \in Tasks : Enqueue(t) /\ UNCHANGED loopVars
    BY <2>1, HandlersInsertKeys
  <2>2. CASE Loop!Environment
    BY <2>2 DEF Loop!Next
  <2>3. QED BY <1>6, <2>1, <2>2 DEF Outside, TxIds, Loop!Environment
<1>7. CASE UNCHANGED systemVars
  BY <1>7 DEF systemVars, registrationVars, loopVars, Registered, Loop!vars, Loop!workerVars,
     Loop!verifierVars, Loop!tableVars, Loop!nodeVars
<1>8. QED
  BY <1>1, <1>2, <1>3, <1>4, <1>5, <1>6, <1>7 DEF SystemNext

(* The substitution of the instance: the loop within the process is a fee  *)
(* loop.                                                                   *)
LEMMA LoopWithin == SystemSpec => Loop!Spec
<1>1. SystemInit => Loop!Init
  <2>1. ASSUME Init PROVE Registered = {}
    BY <2>1 DEF Init, Registered
  <2>2. QED BY <2>1 DEF SystemInit
<1>2. Inv /\ [SystemNext]_systemVars => [Loop!Next]_(Loop!vars)
  BY LoopStepImplemented
<1>3. QED BY <1>1, <1>2, RegistrationInv, PTL DEF SystemSpec, Loop!Spec

-----------------------------------------------------------------------------
(* What was a vault stays one. *)
LEMMA VaultsGrow ==
  ASSUME [SystemNext]_systemVars
  PROVE  vaults \subseteq vaults'
<1>1. [Next]_registrationVars
  BY RegistrationStep
<1>2. ASSUME NEW t \in Tasks, Enqueue(t) \/ HandlerStep(t) PROVE vaults \subseteq vaults'
  BY <1>2 DEF Enqueue, HandlerStep, Begin, SaveShare, ReshareFails, InsertRow, InsertOK, InsertFails,
     Recover
<1>3. ASSUME NEW S \in SUBSET Active, Die(S) PROVE vaults' = vaults
  BY <1>3 DEF Die
<1>4. QED BY <1>1, <1>2, <1>3 DEF Next, registrationVars

(* What the loop has at hand, as functions of the one worker. *)
AtHand == DOMAIN rows = {Worker} /\ DOMAIN pk = {Worker} /\ VaultAtHand

(* The loop takes keys from the table or from what it has.                 *)
LEMMA LoopKeepsHand ==
  ASSUME AtHand, RegisteredHasVault, [SystemNext]_systemVars, ~UNCHANGED <<rows, pk>>
  PROVE  AtHand'
<1>. USE DEF AtHand, VaultAtHand
<1>1. CASE Loop!ProcessFees(Worker) /\ UNCHANGED registrationVars
  BY <1>1 DEF Loop!ProcessFees, registrationVars, RegisteredHasVault
<1>2. ASSUME NEW k \in Keys, Loop!NothingDue(Worker, k), UNCHANGED registrationVars
      PROVE  AtHand'
  BY <1>2 DEF Loop!NothingDue, registrationVars
<1>3. ASSUME NEW k \in Keys, Loop!FeesDue(Worker, k), UNCHANGED registrationVars
      PROVE  AtHand'
  BY <1>3 DEF Loop!FeesDue, registrationVars
<1>4. ASSUME NEW k \in Keys, Loop!LookupFails(Worker, k), UNCHANGED registrationVars
      PROVE  AtHand'
  BY <1>4 DEF Loop!LookupFails, registrationVars
<1>5. CASE Loop!NextKey(Worker) /\ UNCHANGED registrationVars
  BY <1>5 DEF Loop!NextKey, registrationVars
<1>6. CASE EndProcess
  BY <1>6 DEF EndProcess, Loop!Crash, Die
<1>7. CASE LoopGoesOn
  <2>1. UNCHANGED registrationVars
    BY <1>7 DEF LoopGoesOn, StartProcess, LoopStep, AskSignature, ReturnSignature, CountTransaction
  <2>2. \/ Loop!ProcessFees(Worker) \/ Loop!NextKey(Worker)
        \/ \E k \in Keys :
             Loop!NothingDue(Worker, k) \/ Loop!FeesDue(Worker, k) \/ Loop!LookupFails(Worker, k)
    BY <1>7 DEF LoopGoesOn, StartProcess, LoopStep, AskSignature, ReturnSignature,
       CountTransaction, loopVars, Loop!Start, Loop!EndCycle, Loop!CreateTx, Loop!AttemptFails,
       Loop!MarkAcked, Loop!Sign, Loop!MarkFails, Loop!Broadcast
  <2>3. QED BY <1>1, <1>2, <1>3, <1>4, <1>5, <2>1, <2>2
<1>8. CASE \E t \in TxIds : BeginKeysign(t) \/ EndKeysign(t) \/ AnswerStep(t)
  BY <1>8 DEF BeginKeysign, EndKeysign, AnswerStep, loopVars, TxIds, Loop!ServiceStep,
     Loop!MarkCollected, Loop!RefuseMark, Loop!AcceptTx, Loop!RejectTx, Loop!Mine, Loop!workerVars
<1>9. CASE \E t \in Tasks : ReshareStep(t)
  BY <1>9 DEF ReshareStep, loopVars
<1>10. CASE Outside
  BY <1>10 DEF Outside, loopVars, Loop!BreakConnection, Loop!LoseRequest, Loop!UserTx,
     Loop!IssueFee, Loop!workerVars
<1>11. CASE UNCHANGED systemVars
  BY <1>11 DEF systemVars, loopVars
<1>12. QED BY <1>6, <1>7, <1>8, <1>9, <1>10, <1>11 DEF SystemNext

LEMMA HandKept ==
  ASSUME AtHand, RegisteredHasVault, [SystemNext]_systemVars
  PROVE  AtHand'
<1>1. CASE UNCHANGED <<rows, pk>>
  BY <1>1, VaultsGrow DEF AtHand, VaultAtHand
<1>2. QED BY <1>1, LoopKeepsHand

(* The loop finds the vault of every key it works on, however long ago it  *)
(* read the table and whatever the reshare handlers have done since.       *)
THEOREM VaultsAtHand == SystemSpec => []VaultAtHand
<1>1. SystemInit => AtHand
  BY DEF SystemInit, AtHand, VaultAtHand, Loop!Init
<1>2. Inv => RegisteredHasVault
  BY DEF Inv
<1>3. AtHand /\ RegisteredHasVault /\ [SystemNext]_systemVars => AtHand'
  BY HandKept
<1>4. AtHand => VaultAtHand
  BY DEF AtHand
<1>5. QED BY <1>1, <1>2, <1>3, <1>4, RegistrationInv, PTL DEF SystemSpec

-----------------------------------------------------------------------------
(* Where a transaction of this process is, against what it is counted with.*)
InHand == pc[Worker] \in {"sign", "marking", "sending"}

CountingTypes ==
  /\ tracked \in Nat /\ since \in Nat /\ since <= tracked /\ tracked <= MaxTx
  /\ counted \in [TxIds -> {"none", "success", "error"}]
  /\ answer \in [TxIds -> {"none", "ok", "error"}]
  /\ pc \in [{Worker} -> Loop!Locations]
  /\ DOMAIN tx = {Worker}

(* An id that was not handed out has no trace. *)
NoTrace(t) ==
  /\ Loop!Mark(t) \notin wire /\ Loop!Send(t) \notin wire
  /\ answer[t] = "none" /\ counted[t] = "none"

(* The transaction in hand is one of this process, whose mark and transfer *)
(* are sent and answered one after the other.                              *)
HandInOrder ==
  /\ IF InHand THEN tx[Worker] \in since + 1 .. tracked ELSE tx[Worker] = Loop!NoTx
  /\ pc[Worker] = "sign" =>
       /\ Loop!Mark(tx[Worker]) \notin wire /\ Loop!Send(tx[Worker]) \notin wire
       /\ answer[tx[Worker]] = "none"
  /\ pc[Worker] = "marking" =>
       /\ Loop!Send(tx[Worker]) \notin wire
       /\ answer[tx[Worker]] = "ok" => Loop!Mark(tx[Worker]) \notin wire
  /\ pc[Worker] = "sending" =>
       /\ Loop!Mark(tx[Worker]) \notin wire
       /\ answer[tx[Worker]] = "ok" => tx[Worker] \in sent

Counting ==
  /\ CountingTypes
  /\ \A t \in TxIds : t > tracked => NoTrace(t)
  /\ HandInOrder
  /\ SendsCounted

LEMMA CountingInit == SystemInit => Counting
BY SystemAssumption DEF SystemInit, Loop!Init, Counting, CountingTypes, NoTrace, HandInOrder, InHand,
   SendsCounted, Up, TxIds, Loop!TxIds, Loop!NoTx, Loop!Locations, Loop!Mark, Loop!Send

(* Nothing that is counted, sent or asked changes. *)
LEMMA CountingQuiet ==
  ASSUME Counting, UNCHANGED <<tx, tracked, wire, answer, sent, counted, since>>,
         \/ UNCHANGED pc
         \/ /\ ~InHand /\ Up
            /\ \E l \in {"idle", "lookup", "build"} : pc' = [pc EXCEPT ![Worker] = l]
  PROVE  Counting'
BY DEF Counting, CountingTypes, NoTrace, HandInOrder, InHand, SendsCounted, Up, TxIds, Loop!Locations

LEMMA CountingStart == ASSUME Counting, StartProcess PROVE Counting'
<1>1. CountingTypes' /\ tx[Worker] = Loop!NoTx
  BY DEF StartProcess, Loop!Start, Counting, CountingTypes, HandInOrder, InHand, Loop!Locations,
     Loop!tableVars, Loop!nodeVars
<1>2. HandInOrder' /\ SendsCounted'
  BY <1>1, SystemAssumption DEF StartProcess, Loop!Start, Counting, CountingTypes, HandInOrder, InHand, SendsCounted,
     Up, TxIds, Loop!TxIds, Loop!NoTx, Loop!Locations, Loop!tableVars, Loop!nodeVars
<1>3. \A t \in TxIds : t > tracked' => NoTrace(t)'
  BY DEF StartProcess, Loop!Start, Counting, NoTrace, Loop!tableVars
<1>4. QED BY <1>1, <1>2, <1>3 DEF Counting, TxIds, Loop!TxIds

LEMMA CountingCrash == ASSUME Counting, Loop!Crash(Worker), UNCHANGED <<counted, since>> PROVE Counting'
BY DEF Loop!Crash, Counting, CountingTypes, NoTrace, HandInOrder, InHand, SendsCounted,
   Up, TxIds, Loop!Locations, Loop!tableVars, Loop!nodeVars

LEMMA CountingCreate ==
  ASSUME Counting, Loop!CreateTx(Worker), UNCHANGED <<counted, since>>
  PROVE  Counting'
<1>. USE SystemAssumption DEF TxIds, Loop!TxIds, Loop!Locations
<1>1. /\ tracked' = tracked + 1 /\ tracked + 1 \in TxIds /\ NoTrace(tracked + 1)
      /\ CountingTypes' /\ pc'[Worker] = "sign" /\ tx'[Worker] = tracked + 1
  BY DEF Loop!CreateTx, Counting, CountingTypes, Loop!nodeVars
<1>2. HandInOrder'
  BY <1>1 DEF Loop!CreateTx, Counting, CountingTypes, NoTrace, HandInOrder, InHand
<1>3. SendsCounted'
  BY <1>1 DEF Loop!CreateTx, Counting, CountingTypes, NoTrace, HandInOrder, InHand, SendsCounted, Up,
     Loop!NoTx, Loop!nodeVars
<1>4. \A t \in TxIds : t > tracked' => NoTrace(t)'
  BY <1>1 DEF Loop!CreateTx, Counting, CountingTypes, NoTrace
<1>5. QED BY <1>1, <1>2, <1>3, <1>4 DEF Counting

LEMMA CountingSign ==
  ASSUME Counting, Loop!Sign(Worker), UNCHANGED <<counted, since>>
  PROVE  Counting'
BY SystemAssumption DEF Loop!Sign, Counting, CountingTypes, NoTrace, HandInOrder, InHand, SendsCounted,
   Up, TxIds, Loop!TxIds, Loop!Locations, Loop!Mark, Loop!Send, Loop!tableVars, Loop!nodeVars

LEMMA CountingMarkAcked ==
  ASSUME Counting, Loop!MarkAcked(Worker), UNCHANGED <<counted, since>>
  PROVE  Counting'
BY SystemAssumption DEF Loop!MarkAcked, Counting, CountingTypes, NoTrace, HandInOrder, InHand,
   SendsCounted, Up, TxIds, Loop!TxIds, Loop!Locations, Loop!Mark, Loop!Send, Loop!tableVars,
   Loop!nodeVars

(* The attempt that built nothing is over. *)
LEMMA CountingBuildFails ==
  ASSUME Counting, pc[Worker] = "build", Loop!AttemptFails(Worker), UNCHANGED <<counted, since>>
  PROVE  Counting'
BY DEF Loop!AttemptFails, Loop!NextKey, Counting, CountingTypes, NoTrace, HandInOrder, InHand,
   SendsCounted, Up, TxIds, Loop!NoTx, Loop!Locations, Loop!tableVars, Loop!nodeVars

(* The transaction in hand is counted as it leaves the worker's hand. *)
LEMMA CountingCount == ASSUME Counting, CountTransaction PROVE Counting'
<1>. USE SystemAssumption DEF TxIds, Loop!TxIds, Loop!NoTx, Loop!Locations
<1>. DEFINE t == tx[Worker]
            result == IF pc[Worker] = "sending" /\ answer[t] = "ok" THEN "success" ELSE "error"
<1>1. /\ InHand /\ Loop!NextKey(Worker) /\ UNCHANGED <<tracked, wire, answer, sent, since>>
      /\ counted' = [counted EXCEPT ![t] = result]
  BY DEF CountTransaction, RecordSendTransaction, Loop!AttemptFails, Loop!MarkFails, Loop!Broadcast,
     InHand, Loop!tableVars, Loop!nodeVars
<1>2. t \in TxIds /\ t \in since + 1 .. tracked
  BY <1>1 DEF Counting, CountingTypes, HandInOrder
<1>3. CountingTypes' /\ pc'[Worker] = "lookup" /\ tx'[Worker] = Loop!NoTx
  BY <1>1, <1>2 DEF Counting, CountingTypes, Loop!NextKey
<1>4. HandInOrder'
  BY <1>3 DEF HandInOrder, InHand
<1>5. \A u \in TxIds : u > tracked' => NoTrace(u)'
  BY <1>1, <1>2 DEF Counting, CountingTypes, NoTrace
<1>6. result = "success" => t \in sent
  BY DEF Counting, HandInOrder
<1>7. SendsCounted'
  <2>1. /\ counted' = [counted EXCEPT ![t] = result] /\ result \in {"success", "error"}
        /\ tracked \in Nat /\ since \in Nat /\ DOMAIN counted = TxIds
        /\ UNCHANGED <<tracked, since, sent>>
    BY <1>1 DEF Counting, CountingTypes
  <2>2. \A u \in TxIds : counted[u] = "success" => u \in sent
    BY DEF Counting, SendsCounted
  <2>3. \A u \in since + 1 .. tracked : u \in TxIds /\ (counted[u] = "none" <=> t = u)
    BY <1>1, <2>1 DEF Counting, CountingTypes, SendsCounted, InHand, Up
  <2>. HIDE DEF t, result
  <2>4. \A u \in TxIds : counted'[u] = "success" => u \in sent'
    BY <1>6, <2>1, <2>2
  <2>5. \A u \in since' + 1 .. tracked' : counted'[u] # "none" /\ tx'[Worker] # u
    BY <1>2, <1>3, <2>1, <2>3
  <2>6. QED BY <2>4, <2>5 DEF SendsCounted
<1>8. QED BY <1>3, <1>4, <1>5, <1>7 DEF Counting

(* A request about t leaves the wire or is answered; a success means that  *)
(* the mark was taken off the wire or the transfer accepted.               *)
LEMMA CountingRequest ==
  ASSUME Counting, NEW t \in TxIds, NEW a \in {"none", "ok", "error"},
         UNCHANGED <<pc, tx, tracked, counted, since>>,
         wire' \subseteq wire, sent \subseteq sent',
         Loop!Mark(t) \in wire \/ Loop!Send(t) \in wire,
         answer' = [answer EXCEPT ![t] = a],
         a = "ok" /\ answer[t] # "ok" =>
           \/ Loop!Mark(t) \in wire /\ Loop!Mark(t) \notin wire'
           \/ Loop!Send(t) \in wire /\ t \in sent'
  PROVE  Counting'
<1>. USE SystemAssumption DEF TxIds, Loop!TxIds
<1>1. CountingTypes'
  BY DEF Counting, CountingTypes
<1>2. \A u \in TxIds : u > tracked' => NoTrace(u)'
  BY DEF Counting, CountingTypes, NoTrace
<1>3. HandInOrder'
  <2>1. tx[Worker] = t \/ ~InHand \/ answer'[tx[Worker]] = answer[tx[Worker]]
    BY DEF Counting, CountingTypes, HandInOrder
  <2>2. InHand => tx[Worker] \in TxIds
    BY DEF Counting, CountingTypes, HandInOrder
  <2>3. QED
    BY <2>1, <2>2 DEF Counting, CountingTypes, HandInOrder, InHand
<1>4. SendsCounted'
  BY DEF Counting, CountingTypes, SendsCounted, Up
<1>5. QED BY <1>1, <1>2, <1>3, <1>4 DEF Counting

LEMMA AnsweredOnce ==
  ASSUME CountingTypes, NEW t \in TxIds, NEW r \in {"ok", "error"}, answer' = Loop!Answered(t, r)
  PROVE  \E a \in {"none", "ok", "error"} :
           answer' = [answer EXCEPT ![t] = a] /\ (a = r \/ a = answer[t])
<1>1. CASE answer[t] = "none"
  BY <1>1 DEF Loop!Answered
<1>2. CASE answer[t] # "none"
  BY <1>2 DEF Loop!Answered, CountingTypes
<1>3. QED BY <1>1, <1>2

(* The services answer, or the network does. *)
LEMMA CountingAnswer ==
  ASSUME Counting, NEW t \in TxIds, UNCHANGED <<counted, since>>,
         Loop!ServiceStep(t) \/ Loop!BreakConnection(t) \/ Loop!LoseRequest(t)
  PROVE  Counting'
<1>. USE DEF Loop!workerVars, Loop!tableVars, Loop!nodeVars
<1>0. CountingTypes
  BY DEF Counting
<1>1. CASE Loop!MarkCollected(t)
  BY <1>0, <1>1, AnsweredOnce, CountingRequest DEF Loop!MarkCollected
<1>2. CASE Loop!RefuseMark(t)
  BY <1>0, <1>2, AnsweredOnce, CountingRequest DEF Loop!RefuseMark
<1>3. CASE Loop!AcceptTx(t)
  BY <1>0, <1>3, AnsweredOnce, CountingRequest DEF Loop!AcceptTx
<1>4. CASE Loop!RejectTx(t)
  BY <1>0, <1>4, AnsweredOnce, CountingRequest DEF Loop!RejectTx
<1>5. CASE Loop!Mine(t)
  BY <1>5, CountingQuiet DEF Loop!Mine
<1>6. CASE Loop!BreakConnection(t)
  BY <1>6, CountingRequest DEF Loop!BreakConnection
<1>7. CASE Loop!LoseRequest(t)
  BY <1>0, <1>7, AnsweredOnce, CountingRequest DEF Loop!LoseRequest
<1>8. QED BY <1>1, <1>2, <1>3, <1>4, <1>5, <1>6, <1>7 DEF Loop!ServiceStep

LEMMA CountingNext == ASSUME Counting, [SystemNext]_systemVars PROVE Counting'
<1>1. CASE LoopGoesOn
  <2>1. CASE AskSignature
    BY <2>1, CountingQuiet DEF AskSignature, loopVars
  <2>2. CASE LoopStep
    <3>1. ASSUME \/ Loop!ProcessFees(Worker) \/ Loop!EndCycle(Worker)
                 \/ \E k \in Keys : \/ Loop!NothingDue(Worker, k) \/ Loop!FeesDue(Worker, k)
                                    \/ Loop!LookupFails(Worker, k)
          PROVE  Counting'
      <4>1. UNCHANGED <<tx, tracked, wire, answer, sent, counted, since>> /\ ~InHand /\ Up
        BY <2>2, <3>1 DEF LoopStep, Loop!ProcessFees, Loop!EndCycle, Loop!NothingDue, Loop!FeesDue,
           Loop!LookupFails, Loop!tableVars, Loop!nodeVars, InHand, Up
      <4>2. UNCHANGED pc \/ \E l \in {"idle", "lookup", "build"} : pc' = [pc EXCEPT ![Worker] = l]
        BY <3>1 DEF Loop!ProcessFees, Loop!EndCycle, Loop!NothingDue, Loop!FeesDue, Loop!LookupFails
      <4>3. QED BY <4>1, <4>2, CountingQuiet
    <3>2. QED
      BY <2>2, <3>1, CountingCreate, CountingBuildFails, CountingMarkAcked DEF LoopStep
  <2>3. QED
    BY <1>1, <2>1, <2>2, CountingStart, CountingSign, CountingCount DEF LoopGoesOn, ReturnSignature
<1>2. CASE EndProcess
  BY <1>2, CountingCrash DEF EndProcess
<1>3. ASSUME NEW t \in TxIds, BeginKeysign(t) \/ EndKeysign(t) PROVE Counting'
  BY <1>3, CountingQuiet DEF BeginKeysign, EndKeysign, loopVars
<1>4. ASSUME NEW t \in TxIds, AnswerStep(t) PROVE Counting'
  BY <1>4, CountingAnswer DEF AnswerStep
<1>5. ASSUME NEW t \in Tasks, ReshareStep(t) PROVE Counting'
  BY <1>5, CountingQuiet DEF ReshareStep, loopVars
<1>6. CASE Outside
  <2>1. ASSUME UNCHANGED loopVars, UNCHANGED <<counted, since>> PROVE Counting'
    BY <2>1, CountingQuiet DEF loopVars
  <2>2. ASSUME NEW k \in Keys, Loop!UserTx(k), UNCHANGED <<counted, since>> PROVE Counting'
    BY <2>2, CountingQuiet DEF Loop!UserTx, Loop!workerVars, Loop!tableVars
  <2>3. ASSUME NEW f \in Fees, Loop!IssueFee(f), UNCHANGED <<counted, since>> PROVE Counting'
    BY <2>3, CountingQuiet DEF Loop!IssueFee, Loop!workerVars, Loop!tableVars, Loop!nodeVars
  <2>4. QED BY <1>6, <2>1, <2>2, <2>3, CountingAnswer DEF Outside
<1>7. CASE UNCHANGED systemVars
  BY <1>7, CountingQuiet DEF systemVars, loopVars
<1>8. QED BY <1>1, <1>2, <1>3, <1>4, <1>5, <1>6, <1>7 DEF SystemNext

(* The counters of send transactions can be trusted, for any tasks,        *)
(* entries and faults: what the process created and left is counted, and   *)
(* a success was accepted by the node.                                     *)
THEOREM CountersAccount == SystemSpec => []SendsCounted
<1>1. Counting => SendsCounted
  BY DEF Counting
<1>2. Counting /\ [SystemNext]_systemVars => Counting'
  BY CountingNext
<1>3. QED BY <1>1, <1>2, CountingInit, PTL DEF SystemSpec

-----------------------------------------------------------------------------
(* Types.  A row is written for the key of the attempt, so the key must be *)
(* one whenever a row is about to be written; requests are about the       *)
(* transaction in hand, so that must be one (HandInOrder).                 *)
LoopTyped == Loop!TypeOK /\ (pc[Worker] = "build" => pk[Worker] \in Keys)

(* What worker and services do to the types of each other. *)
LEMMA WorkerTyped ==
  ASSUME LoopTyped, Counting, Registered \subseteq Keys, Registered' = Registered,
         Loop!WorkerStep(Worker) \/ Loop!Crash(Worker)
  PROVE  LoopTyped'
<1> USE SystemAssumption DEF LoopTyped, Loop!TypeOK, Loop!Locations
<1>1. InHand => tx[Worker] \in TxIds
  BY DEF Counting, CountingTypes, HandInOrder, TxIds, Loop!TxIds
<1>2. CASE Loop!Start(Worker)
  BY <1>2 DEF Loop!Start, Loop!verifierVars, Loop!tableVars, Loop!nodeVars
<1>3. CASE Loop!Crash(Worker)
  BY <1>3 DEF Loop!Crash, Loop!Fault, Loop!verifierVars, Loop!tableVars, Loop!nodeVars
<1>4. CASE Loop!ProcessFees(Worker) \/ Loop!EndCycle(Worker)
  BY <1>4 DEF Loop!ProcessFees, Loop!EndCycle, Loop!verifierVars, Loop!tableVars, Loop!nodeVars
<1>5. ASSUME NEW k \in Keys,
             Loop!NothingDue(Worker, k) \/ Loop!FeesDue(Worker, k) \/ Loop!LookupFails(Worker, k)
      PROVE  LoopTyped'
  <2>1. CASE Loop!NothingDue(Worker, k)
    BY <2>1 DEF Loop!NothingDue, Loop!verifierVars, Loop!tableVars, Loop!nodeVars
  <2>2. CASE Loop!FeesDue(Worker, k)
    BY <2>2 DEF Loop!FeesDue, Loop!Due, Loop!verifierVars, Loop!tableVars, Loop!nodeVars
  <2>3. CASE Loop!LookupFails(Worker, k)
    BY <2>3 DEF Loop!LookupFails, Loop!Fault, Loop!verifierVars, Loop!tableVars, Loop!nodeVars
  <2>4. QED BY <1>5, <2>1, <2>2, <2>3
<1>6. CASE Loop!CreateTx(Worker)
  <2>1. [key |-> pk[Worker], fees |-> list[Worker], nonce |-> nonce[pk[Worker]]] \in Loop!TxRow
    BY <1>6 DEF Loop!CreateTx, Loop!TxRow
  <2>2. tracked + 1 \in 0 .. MaxTx /\ tracked + 1 \in Loop!TxIds
    BY <1>6 DEF Loop!CreateTx, Loop!TxIds
  <2>3. QED
    BY <1>6, <2>1, <2>2 DEF Loop!CreateTx, Loop!verifierVars, Loop!nodeVars
<1>7. CASE Loop!AttemptFails(Worker) \/ Loop!MarkFails(Worker) \/ Loop!Broadcast(Worker)
  BY <1>7 DEF Loop!AttemptFails, Loop!MarkFails, Loop!Broadcast, Loop!NextKey, Loop!Fault,
     Loop!verifierVars, Loop!tableVars, Loop!nodeVars
<1>8. CASE Loop!Sign(Worker)
  <2>1. Loop!Mark(tx[Worker]) \in Loop!Requests
    BY <1>1, <1>8 DEF Loop!Sign, InHand, TxIds, Loop!Mark, Loop!Requests
  <2>2. QED
    BY <1>8, <2>1 DEF Loop!Sign, Loop!verifierVars, Loop!tableVars, Loop!nodeVars
<1>9. CASE Loop!MarkAcked(Worker)
  <2>1. Loop!Send(tx[Worker]) \in Loop!Requests
    BY <1>1, <1>9 DEF Loop!MarkAcked, InHand, TxIds, Loop!Send, Loop!Requests
  <2>2. QED
    BY <1>9, <2>1 DEF Loop!MarkAcked, Loop!verifierVars, Loop!tableVars, Loop!nodeVars
<1>10. QED
  BY <1>2, <1>3, <1>4, <1>5, <1>6, <1>7, <1>8, <1>9 DEF Loop!WorkerStep

LEMMA ServiceTyped ==
  ASSUME LoopTyped, Registered' = Registered, NEW t \in Loop!TxIds,
         Loop!ServiceStep(t) \/ Loop!BreakConnection(t) \/ Loop!LoseRequest(t)
  PROVE  LoopTyped'
<1> USE SystemAssumption DEF LoopTyped, Loop!TypeOK
<1>1. CASE Loop!MarkCollected(t)
  BY <1>1 DEF Loop!MarkCollected, Loop!Answered, Loop!workerVars, Loop!tableVars, Loop!nodeVars
<1>2. CASE Loop!RefuseMark(t) \/ Loop!RejectTx(t)
  BY <1>2 DEF Loop!RefuseMark, Loop!RejectTx, Loop!Answered, Loop!workerVars, Loop!verifierVars,
     Loop!tableVars, Loop!nodeVars
<1>3. CASE Loop!AcceptTx(t)
  <2>1. nonce' \in [Keys -> Nat]
    <3>1. nonce' = [nonce EXCEPT ![txs[t].key] = @ + 1] /\ nonce \in [Keys -> Nat]
      BY <1>3 DEF Loop!AcceptTx
    <3>2. CASE txs[t].key \in Keys
      BY <3>1, <3>2
    <3>3. CASE txs[t].key \notin Keys
      BY <3>1, <3>3
    <3>4. QED BY <3>2, <3>3
  <2>2. QED
    BY <1>3, <2>1 DEF Loop!AcceptTx, Loop!Answered, Loop!workerVars, Loop!verifierVars,
       Loop!tableVars
<1>4. CASE Loop!Mine(t)
  BY <1>4 DEF Loop!Mine, Loop!Fault, Loop!workerVars, Loop!verifierVars, Loop!tableVars
<1>5. CASE Loop!BreakConnection(t) \/ Loop!LoseRequest(t)
  BY <1>5 DEF Loop!BreakConnection, Loop!LoseRequest, Loop!Answered, Loop!Fault, Loop!workerVars,
     Loop!verifierVars, Loop!tableVars, Loop!nodeVars
<1>6. QED BY <1>1, <1>2, <1>3, <1>4, <1>5 DEF Loop!ServiceStep

LEMMA OutsideTyped ==
  ASSUME LoopTyped, Registered' \subseteq Keys,
         \/ \E k \in Keys : Loop!InsertPublicKey(k) \/ Loop!UserTx(k)
         \/ \E f \in Fees : Loop!IssueFee(f)
         \/ UNCHANGED Loop!vars
  PROVE  LoopTyped'
<1> USE SystemAssumption
    DEF LoopTyped, Loop!TypeOK, Loop!workerVars, Loop!verifierVars, Loop!tableVars, Loop!nodeVars
<1>1. ASSUME NEW k \in Keys, Loop!InsertPublicKey(k) PROVE LoopTyped'
  BY <1>1 DEF Loop!InsertPublicKey
<1>2. ASSUME NEW k \in Keys, Loop!UserTx(k) PROVE LoopTyped'
  BY <1>2 DEF Loop!UserTx, Loop!Fault
<1>3. ASSUME NEW f \in Fees, Loop!IssueFee(f) PROVE LoopTyped'
  BY <1>3 DEF Loop!IssueFee
<1>4. CASE UNCHANGED Loop!vars
  BY <1>4 DEF Loop!vars
<1>5. QED BY <1>1, <1>2, <1>3, <1>4

(* The types of the loop depend on registration only for the keys. *)
LEMMA LoopTypedNext ==
  ASSUME LoopTyped, Counting, Inv, Inv', [SystemNext]_systemVars
  PROVE  LoopTyped'
<1>1. Registered \subseteq Keys /\ Registered' \subseteq Keys
  BY DEF Inv, TypeOK, Registered
<1>2. [Loop!Next]_(Loop!vars)
  BY LoopStepImplemented
<1>3. ASSUME Loop!WorkerStep(Worker) \/ Loop!Crash(Worker) PROVE LoopTyped'
  <2>1. Registered' = Registered
    BY <1>3 DEF Loop!WorkerStep, Loop!Crash, Loop!Start, Loop!ProcessFees, Loop!EndCycle,
       Loop!NothingDue, Loop!FeesDue, Loop!LookupFails, Loop!CreateTx, Loop!AttemptFails, Loop!Sign,
       Loop!MarkAcked, Loop!MarkFails, Loop!Broadcast
  <2>2. QED BY <1>1, <1>3, <2>1, WorkerTyped
<1>4. ASSUME NEW t \in Loop!TxIds,
             Loop!ServiceStep(t) \/ Loop!BreakConnection(t) \/ Loop!LoseRequest(t)
      PROVE  LoopTyped'
  <2>1. Registered' = Registered
    BY <1>4 DEF Loop!ServiceStep, Loop!MarkCollected, Loop!RefuseMark, Loop!AcceptTx,
       Loop!RejectTx, Loop!Mine, Loop!BreakConnection, Loop!LoseRequest
  <2>2. QED BY <1>4, <2>1, ServiceTyped
<1>5. QED
  BY <1>1, <1>2, <1>3, <1>4, OutsideTyped DEF Loop!Next, Loop!Environment

KeysignTyped == keysign \in [TxIds -> {"none", "waiting", "active", "done"}]

LEMMA KeysignTypedNext == KeysignTyped /\ [SystemNext]_systemVars => KeysignTyped'
BY DEF KeysignTyped, SystemNext, LoopGoesOn, StartProcess, LoopStep, AskSignature, ReturnSignature,
   CountTransaction, EndProcess, BeginKeysign, EndKeysign, AnswerStep, ReshareStep, Outside,
   systemVars, TxIds, Loop!TxIds

(* Every variable of the process keeps its type, for any tasks, keys,      *)
(* entries, slots and bounds.                                              *)
THEOREM TypesOfTheProcess == SystemSpec => []SystemTypeOK
<1> DEFINE Typed == LoopTyped /\ Counting /\ Inv /\ KeysignTyped
<1>1. SystemInit => Typed
  <2>1. SystemInit => Inv
    BY InitInv DEF SystemInit
  <2>2. SystemInit => KeysignTyped
    BY DEF SystemInit, KeysignTyped
  <2>3. SystemInit => LoopTyped
    <3>1. SystemInit => Registered = {}
      BY DEF SystemInit, Init, Registered
    <3>2. QED
      BY <3>1, SystemAssumption DEF SystemInit, Loop!Init, LoopTyped, Loop!TypeOK, Loop!Locations,
         Loop!TxIds, Loop!NoTx, Loop!TxRow, Loop!EmptyRow, Loop!Requests
  <2>4. QED BY <2>1, <2>2, <2>3, CountingInit
<1>2. Typed /\ [SystemNext]_systemVars => Typed'
  <2>1. [SystemNext]_systemVars => [Next]_registrationVars
    BY RegistrationStep
  <2>2. QED BY <2>1, NextInv, LoopTypedNext, CountingNext, KeysignTypedNext
<1>3. Typed => SystemTypeOK
  BY SystemAssumption DEF LoopTyped, Counting, CountingTypes, KeysignTyped, Inv, SystemTypeOK
<1>4. QED BY <1>1, <1>2, <1>3, PTL DEF SystemSpec

(* Registration keeps in the process what it promises on its own. *)
THEOREM RegistrationKept ==
  SystemSpec => [](RegisteredHasVault /\ DoneIsRegistered /\ RowsDistinct)
<1>1. Inv => RegisteredHasVault /\ DoneIsRegistered /\ RowsDistinct
  BY DEF Inv
<1>2. QED BY <1>1, RegistrationInv, PTL
=============================================================================
