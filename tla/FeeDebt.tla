------------------------------- MODULE FeeDebt -------------------------------
(***************************************************************************)
(* The arithmetic of one fee collection: how executeFeesTransaction        *)
(* (internal/fee/fees.go) turns the verifier's fee entries into the amount *)
(* of one transfer.  An entry carries a uint64 amount, the running debt is *)
(* an int64, and both keep their width: all operators are modulo Word, the *)
(* number of values of a machine word, which is 2^64 in the program.       *)
(***************************************************************************)
EXTENDS Integers, FiniteSetsExt

CONSTANT Half    \* half the values of a word: 2^63 in the program

ASSUME HalfAssumption == Half \in Nat \ {0}

Word == 2 * Half

Uint64 == 0 .. (Word - 1)
Int64  == (-Half) .. (Half - 1)

(* The two types the verifier documents and any other string it may send. *)
TxTypes == {"credit", "debit", "other"}

FeeEntry == [txType : TxTypes, amount : Uint64]

(* Go's conversion int64(x) of an unsigned word. *)
ToInt64(x) == IF x >= Half THEN x - Word ELSE x

(* The sum or difference of two int64 values, as Go wraps it. *)
WrapInt64(x) == IF x >= Half  THEN x - Word
           ELSE IF x < -Half  THEN x + Word
           ELSE x

AddInt64(x, y) == WrapInt64(x + y)

(* Faulty variant: sums are kept in an int64 without wrapping. *)
AddFeeUnwrapped(debt, fee) ==
  CASE fee.txType = "credit" -> debt - fee.amount
    [] fee.txType = "debit"  -> debt + fee.amount
    [] OTHER                 -> debt

(* Faulty variant: a sum out of range stays at the end of the range. *)
Clamp(x) == IF x >= Half THEN Half - 1 ELSE IF x < -Half THEN -Half ELSE x

AddFeeClamped(debt, fee) ==
  CASE fee.txType = "credit" -> Clamp(debt - ToInt64(fee.amount))
    [] fee.txType = "debit"  -> Clamp(debt + ToInt64(fee.amount))
    [] OTHER                 -> debt

(* One turn of the loop: credits lower the debt, debits raise it, an entry *)
(* of any other type leaves it alone.                                      *)
AddFee(debt, fee) ==
  CASE fee.txType = "credit" -> WrapInt64(debt - ToInt64(fee.amount))
    [] fee.txType = "debit"  -> WrapInt64(debt + ToInt64(fee.amount))
    [] OTHER                 -> debt

(* What an entry is worth to the treasury, in unbounded arithmetic. *)
Worth(fee) ==
  CASE fee.txType = "credit" -> -fee.amount
    [] fee.txType = "debit"  -> fee.amount
    [] OTHER                 -> 0

(* The sum of m[x] over the elements of S. *)
SumOver(m, S) == MapThenSumSet(LAMBDA x : m[x], S)

(* What the entries in S are worth together. *)
WorthOf(entry, S) == SumOver([f \in DOMAIN entry |-> Worth(entry[f])], S)

(* The debt the loop of executeFeesTransaction ends with when it has read  *)
(* the entries in S.                                                       *)
DebtOfFees(entry, S) == FoldSet(LAMBDA f, debt : AddFee(debt, entry[f]), 0, S)

(* uint64(debt), the amount of the transfer and of the collected mark. *)
ToUint64(debt) == IF debt < 0 THEN debt + Word ELSE debt
=============================================================================
