------------------------------ MODULE WorkerSystem ------------------------------
(***************************************************************************)
(* The worker process (cmd/worker/main.go) as a whole: the fee loop and    *)
(* the handlers of the task queue are goroutines of one process over one   *)
(* database.  The loop visits the keys the reshare handlers inserted; a    *)
(* signature it asks for needs a keysign handler of the same queue, which  *)
(* shares its slots with the reshares; all of them end when the process    *)
(* does.  The loop counts its transactions in internal/metrics/worker.go,  *)
(* in memory that a restart clears.                                        *)
(***************************************************************************)
EXTENDS KeyRegistration

CONSTANTS
  Worker,       \* the one replica of deploy/01_worker.yaml
  NoKey, Fees, Owner, Entry, Unknown, Conditional, Half, MaxTx,  \* see FeeCollection
  MaxLoopFaults \* bound: crashes of the process, lost messages and failed calls of the loop

ASSUME SystemAssumption == MaxTx \in Nat /\ MaxLoopFaults \in Nat

VARIABLES
  pc, rows, pk, list, tx, issued, collectedBy, tracked, txs, wire, answer, sent, nonce,
  receipt, loopFaults,  \* see FeeCollection
  keysign,  \* keysign[t]: the queue's task for this party's share of signature t
  counted,  \* counted[t]: the status transaction t was counted with
  since     \* tracked, when the process started

Loop == INSTANCE FeeCollection
  WITH Workers <- {Worker}, registered <- Registered, faults <- loopFaults,
       MaxFaults <- MaxLoopFaults

loopVars == <<pc, rows, pk, list, tx, issued, collectedBy, tracked, txs, wire, answer,
              sent, nonce, receipt, loopFaults>>
systemVars == <<registrationVars, loopVars, keysign, counted, since>>

TxIds == Loop!TxIds

SystemTypeOK ==
  /\ TypeOK
  /\ Loop!TypeOK
  /\ keysign \in [TxIds -> {"none", "waiting", "active", "done"}]
  /\ counted \in [TxIds -> {"none", "success", "error"}]
  /\ since \in 0 .. MaxTx

SystemInit ==
  /\ Init
  /\ Loop!Init
  /\ keysign = [t \in TxIds |-> "none"]
  /\ counted = [t \in TxIds |-> "none"]
  /\ since = 0

-----------------------------------------------------------------------------
Up == pc[Worker] # "down"

Signing == {t \in TxIds : keysign[t] = "active"}

(* asynq runs at most Concurrency handlers, of either kind. *)
SlotFree == Up /\ Cardinality(Active) + Cardinality(Signing) < Slots

(* The process starts with its counters at zero. *)
StartProcess ==
  /\ UNCHANGED <<registrationVars, keysign>>
  /\ Loop!Start(Worker)
  /\ counted' = [t \in TxIds |-> "none"]
  /\ since' = tracked

(* The process ends: the loop, the reshare handlers and the keysign        *)
(* handlers, whose tasks the queue hands out again.                        *)
EndProcess ==
  /\ Die(Active)
  /\ Loop!Crash(Worker)
  /\ keysign' = [t \in TxIds |-> IF t \in Signing THEN "waiting" ELSE keysign[t]]
  /\ UNCHANGED <<counted, since>>

(* A step of the loop that has to do with neither signing nor counting. *)
LoopStep ==
  /\ UNCHANGED <<registrationVars, keysign, counted, since>>
  /\ \/ Loop!ProcessFees(Worker)
     \/ Loop!EndCycle(Worker)
     \/ \E k \in Keys :
          Loop!NothingDue(Worker, k) \/ Loop!FeesDue(Worker, k) \/ Loop!LookupFails(Worker, k)
     \/ Loop!CreateTx(Worker)
     \/ pc[Worker] = "build" /\ Loop!AttemptFails(Worker)
     \/ Loop!MarkAcked(Worker)

(* signer.Sign begins: the plugin's emitter puts a keysign task on the     *)
(* queue this same process works off.                                      *)
AskSignature ==
  /\ pc[Worker] = "sign"
  /\ keysign[tx[Worker]] = "none"
  /\ keysign' = [keysign EXCEPT ![tx[Worker]] = "waiting"]
  /\ UNCHANGED <<registrationVars, loopVars, counted, since>>

BeginKeysign(t) ==
  /\ keysign[t] = "waiting"
  /\ SlotFree
  /\ keysign' = [keysign EXCEPT ![t] = "active"]
  /\ UNCHANGED <<registrationVars, loopVars, counted, since>>

(* signer.Sign returns a signature, to which the keysign handler           *)
(* contributed.                                                            *)
ReturnSignature ==
  /\ UNCHANGED <<registrationVars, counted, since>>
  /\ Loop!Sign(Worker)
  /\ keysign[tx[Worker]] = "active"
  /\ keysign' = [keysign EXCEPT ![tx[Worker]] = "done"]

(* A handler whose signature nobody waits for any more gives up. *)
EndKeysign(t) ==
  /\ keysign[t] = "active"
  /\ ~(pc[Worker] = "sign" /\ tx[Worker] = t)
  /\ keysign' = [keysign EXCEPT ![t] = "done"]
  /\ UNCHANGED <<registrationVars, loopVars, counted, since>>

(* The counter of send transactions, by status. *)
RecordSendTransaction(t, success) ==
  [counted EXCEPT ![t] = IF success THEN "success" ELSE "error"]

(* Faulty variant: the early return of a failed mark skips the counter. *)
CountBroadcasts ==
  /\ UNCHANGED <<registrationVars, keysign, since>>
  /\ \/ pc[Worker] = "sign" /\ Loop!AttemptFails(Worker)
     \/ Loop!MarkFails(Worker)
     \/ Loop!Broadcast(Worker)
  /\ counted' = IF pc[Worker] = "sending"
                  THEN RecordSendTransaction(tx[Worker], answer[tx[Worker]] = "ok")
                  ELSE counted

(* initSign returns, from signing, marking or broadcasting: the            *)
(* transaction is counted, as a success if the error is nil.               *)
CountTransaction ==
  /\ UNCHANGED <<registrationVars, keysign, since>>
  /\ \/ pc[Worker] = "sign" /\ Loop!AttemptFails(Worker)
     \/ Loop!MarkFails(Worker)
     \/ Loop!Broadcast(Worker)
  /\ counted' =
       RecordSendTransaction(tx[Worker], pc[Worker] = "sending" /\ answer[tx[Worker]] = "ok")

(* A step of the reshare handlers; one begins only in a free slot. *)
ReshareStep(t) ==
  /\ \/ Begin(t) /\ SlotFree
     \/ SaveShare(t) \/ ReshareFails(t) \/ InsertRow(t) \/ InsertOK(t) \/ InsertFails(t)
     \/ Recover(t) /\ Up
  /\ UNCHANGED <<loopVars, keysign, counted, since>>

(* The verifier or the node handles a request. *)
AnswerStep(t) ==
  /\ UNCHANGED <<registrationVars, keysign, counted, since>>
  /\ Loop!ServiceStep(t)

(* The server, the verifier, the owners of vaults and the network. *)
Outside ==
  \/ (\E t \in Tasks : Enqueue(t)) /\ UNCHANGED <<loopVars, keysign, counted, since>>
  \/ /\ UNCHANGED <<registrationVars, keysign, counted, since>>
     /\ \/ \E t \in TxIds : Loop!BreakConnection(t) \/ Loop!LoseRequest(t)
        \/ \E k \in Keys : Loop!UserTx(k)
        \/ \E f \in Fees : Loop!IssueFee(f)

LoopGoesOn ==
  StartProcess \/ LoopStep \/ AskSignature \/ ReturnSignature \/ CountTransaction

SystemNext ==
  \/ LoopGoesOn
  \/ EndProcess
  \/ \E t \in TxIds : BeginKeysign(t) \/ EndKeysign(t) \/ AnswerStep(t)
  \/ \E t \in Tasks : ReshareStep(t)
  \/ Outside

SystemSpec == SystemInit /\ [][SystemNext]_systemVars

(* The platform restarts a process that ended, its goroutines run, free    *)
(* slots are given out, requests arrive unless they are lost.              *)
SystemFairness ==
  /\ WF_systemVars(LoopGoesOn)
  /\ \A t \in TxIds :
       /\ WF_systemVars(BeginKeysign(t) \/ EndKeysign(t))
       /\ WF_systemVars(AnswerStep(t))
  /\ \A t \in Tasks : WF_systemVars(ReshareStep(t))

FairSystemSpec == SystemSpec /\ SystemFairness

-----------------------------------------------------------------------------
(* The loop never works on a key without a vault, although it works on     *)
(* rows it read a cycle ago.                                               *)
VaultAtHand == rows[Worker] \cup ({pk[Worker]} \ {NoKey}) \subseteq vaults

(* The counters of a process account for every transaction it created and  *)
(* no longer works on, and count as a success only what the node accepted. *)
SendsCounted ==
  /\ \A t \in TxIds : counted[t] = "success" => t \in sent
  /\ Up => \A t \in since + 1 .. tracked : counted[t] = "none" <=> tx[Worker] = t

(* From the vault to the money: a debt of a vault whose share was saved is *)
(* eventually marked collected, or an operator finds the task that was to  *)
(* register the vault in the archive.                                      *)
SavedVaultPays ==
  \A k \in Keys \ Unknown :
    (k \in vaults /\ Loop!DebtOf(Loop!Due(k)) > 0)
      ~> (Loop!DebtOf(Loop!Due(k)) <= 0 \/ Archived(k))
=============================================================================
