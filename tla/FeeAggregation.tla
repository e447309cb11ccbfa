---------------------------- MODULE FeeAggregation ----------------------------
(***************************************************************************)
(* One call of executeFeesTransaction (internal/fee/fees.go) up to the     *)
(* amount it asks genUnsignedTx for: the loop over the entries the         *)
(* verifier listed, then the decision to charge or to leave the key alone. *)
(* The list is an input of the call: each turn of the loop meets an        *)
(* arbitrary next entry, so every list of at most MaxFees entries, in      *)
(* every order, is a behaviour.                                            *)
(***************************************************************************)
EXTENDS FeeDebt

CONSTANT MaxFees    \* the longest list explored

ASSUME MaxFeesAssumption == MaxFees \in Nat

VARIABLES
  read,      \* entries read so far, the length of feeIds
  debt,      \* the int64 accumulator
  outcome,   \* "looping", "nothing" (debt <= 0) or "transfer"
  amount,    \* uint64(debt) once the call decides to charge
  owed       \* what the entries read so far come to, in unbounded arithmetic;
             \* a history variable, nothing in the program holds it

vars == <<read, debt, outcome, amount, owed>>

TypeOK ==
  /\ read \in 0 .. MaxFees
  /\ debt \in Int64
  /\ outcome \in {"looping", "nothing", "transfer"}
  /\ amount \in Uint64
  /\ owed \in Int

Init ==
  /\ read = 0
  /\ debt = 0
  /\ outcome = "looping"
  /\ amount = 0
  /\ owed = 0

ReadFee(fee) ==
  /\ outcome = "looping"
  /\ read < MaxFees
  /\ read' = read + 1
  /\ debt' = AddFee(debt, fee)
  /\ owed' = owed + Worth(fee)
  /\ UNCHANGED <<outcome, amount>>

(* "nothing to process, debt is negative or zero" *)
NothingToProcess ==
  /\ outcome = "looping"
  /\ read > 0
  /\ debt <= 0
  /\ outcome' = "nothing"
  /\ UNCHANGED <<read, debt, amount, owed>>

(* Faulty variant: any debt but zero is charged. *)
ChargeNonZero ==
  /\ outcome = "looping"
  /\ read > 0
  /\ debt # 0
  /\ outcome' = "transfer"
  /\ amount' = ToUint64(debt)
  /\ UNCHANGED <<read, debt, owed>>

ChargeDebt ==
  /\ outcome = "looping"
  /\ read > 0
  /\ debt > 0
  /\ outcome' = "transfer"
  /\ amount' = ToUint64(debt)
  /\ UNCHANGED <<read, debt, owed>>

Next ==
  \/ \E fee \in FeeEntry : ReadFee(fee)
  \/ NothingToProcess
  \/ ChargeDebt

Spec == Init /\ [][Next]_vars

-----------------------------------------------------------------------------
(* The accumulator and the true sum differ by whole words, at most one for *)
(* each entry read: what makes DebtIsOwed inductive.                       *)
DebtWraps == \E k \in (-read) .. read : owed = debt + k * Word

(* The decision was taken on the accumulator the call ended with. *)
Decided ==
  /\ outcome = "transfer" => debt > 0 /\ amount = debt
  /\ outcome = "nothing"  => debt <= 0

(* When the entries come to a sum an int64 can hold, the accumulator holds *)
(* exactly that sum, whatever the order of the entries and even when a     *)
(* partial sum or a single amount does not fit: the wraps cancel out.      *)
DebtIsOwed == owed \in Int64 => debt = owed

(* The amount of the transfer, and of the mark sent to the verifier, is    *)
(* what the key owes, and a key that owes nothing or is in credit is never *)
(* charged, as long as the sum fits an int64.                              *)
ChargesWhatIsOwed ==
  owed \in Int64 =>
    /\ outcome = "transfer" => amount = owed
    /\ outcome = "nothing" => owed <= 0
=============================================================================
