------------------------------- MODULE FeeLedger -------------------------------
(***************************************************************************)
(* What fee collection promises about every fee entry, with no worker, no  *)
(* network and no request in sight: an entry falls due once; entries of    *)
(* one vault that are due are put on record together, as one batch, once;  *)
(* a batch on record is charged to the vault whole, at most once, or not   *)
(* at all.                                                                 *)
(***************************************************************************)
EXTENDS Integers

CONSTANTS
  Keys,      \* the vaults fees are collected from
  Fees,      \* fee entries
  Owner,     \* Owner \in [Fees -> Keys]: the vault entry f falls on
  Batches    \* names of batches, positive numbers: 0 stands for no batch

VARIABLES
  issued,      \* entries that have fallen due
  batchOf,     \* batchOf[f]: the batch f is on record in, 0 while it is due
  charged      \* batches some transfer has paid

ledgerVars == <<issued, batchOf, charged>>

LedgerInit ==
  /\ issued = {}
  /\ batchOf = [f \in Fees |-> 0]
  /\ charged = {}

Members(b) == {f \in Fees : batchOf[f] = b}

FallDue(f) ==
  /\ f \in Fees \ issued
  /\ issued' = issued \cup {f}
  /\ UNCHANGED <<batchOf, charged>>

Record(b, k, S) ==
  /\ Members(b) = {}
  /\ \A f \in S : f \in issued /\ batchOf[f] = 0 /\ Owner[f] = k
  /\ batchOf' = [f \in Fees |-> IF f \in S THEN b ELSE batchOf[f]]
  /\ UNCHANGED <<issued, charged>>

Charge(b) ==
  /\ b \notin charged
  /\ Members(b) # {}
  /\ charged' = charged \cup {b}
  /\ UNCHANGED <<issued, batchOf>>

LedgerNext ==
  \/ \E f \in Fees : FallDue(f)
  \/ \E b \in Batches, k \in Keys, S \in (SUBSET Fees) \ {{}} : Record(b, k, S)
  \/ \E b \in Batches : Charge(b)

LedgerSpec == LedgerInit /\ [][LedgerNext]_ledgerVars

-----------------------------------------------------------------------------
(* What was charged is final: the batch stays charged, and no entry joins  *)
(* or leaves it any more.                                                  *)
ChargedIsFinal ==
  [][\A b \in charged : b \in charged' /\ Members(b)' = Members(b)]_ledgerVars

(* Only batches on record are charged, and a batch holds entries that fell *)
(* due on one vault.                                                       *)
ChargedIsRecorded == \A b \in charged : Members(b) # {}

OneVault ==
  \A f, g \in Fees : batchOf[f] # 0 /\ batchOf[g] = batchOf[f] =>
    f \in issued /\ Owner[f] = Owner[g]

LedgerInv ==
  /\ issued \subseteq Fees
  /\ batchOf \in [Fees -> Batches \cup {0}]
  /\ charged \subseteq Batches
  /\ ChargedIsRecorded
  /\ OneVault
=============================================================================
