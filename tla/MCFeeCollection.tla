---------------------------- MODULE MCFeeCollection ----------------------------
(* At most two vaults.  The first owes three units and holds a credit of   *)
(* one, so that an attempt may see the debit alone, both entries, or the   *)
(* credit alone; the second owes two units.                                *)
EXTENDS FeeCollection, TLC

CONSTANTS k1, k2, f1, f2, f3

MCOwner == [f \in Fees |-> IF f = f3 THEN k2 ELSE k1]

(* All entries fall on one vault: two debits, f1 and f3, that two workers  *)
(* may list one by one and charge at the same nonce.                       *)
MCOneVault == [f \in Fees |-> k1]

MCEntry ==
  [f \in Fees |-> CASE f = f1 -> [txType |-> "debit",  amount |-> 3]
                    [] f = f2 -> [txType |-> "credit", amount |-> 1]
                    [] f = f3 -> [txType |-> "debit",  amount |-> 2]]

ASSUME MCAmountsFit == AmountsFit

Symmetry == Permutations(Workers)
=============================================================================
