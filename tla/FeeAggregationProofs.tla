------------------------- MODULE FeeAggregationProofs -------------------------
(* Proofs about the debt loop, for every word size and every list length.  *)
EXTENDS FeeAggregation, FeeDebtProofs

Inv == TypeOK /\ DebtWraps /\ Decided

LEMMA InitInv == Init => Inv
<1> SUFFICES ASSUME Init PROVE Inv
  OBVIOUS
<1>1. Half \in Nat /\ Half > 0 /\ MaxFees \in Nat
  BY HalfAssumption, MaxFeesAssumption
<1>2. TypeOK
  BY <1>1 DEF Init, TypeOK, Int64, Uint64, Word
<1>3. DebtWraps
  <2>1. 0 \in (-read) .. read /\ owed = debt + 0 * Word
    BY <1>1 DEF Init, Word
  <2>2. QED BY <2>1 DEF DebtWraps
<1>4. QED BY <1>2, <1>3 DEF Init, Inv, Decided

LEMMA NextInv == Inv /\ [Next]_vars => Inv'
<1> SUFFICES ASSUME Inv, [Next]_vars PROVE Inv'
  OBVIOUS
<1> USE DEF Inv
<1>1. Half \in Nat /\ Half > 0 /\ MaxFees \in Nat /\ Word \in Nat
  BY HalfAssumption, MaxFeesAssumption DEF Word
<1>2. ASSUME NEW fee \in FeeEntry, ReadFee(fee)
      PROVE  Inv'
  <2>1. debt' = AddFee(debt, fee) /\ owed' = owed + Worth(fee) /\ read' = read + 1
        /\ outcome = "looping" /\ outcome' = outcome /\ amount' = amount /\ read < MaxFees
    BY <1>2 DEF ReadFee
  <2>2. PICK e \in {-1, 0, 1} : debt + Worth(fee) = AddFee(debt, fee) + e * Word
    BY AddFeeWraps DEF TypeOK
  <2>3. PICK k \in (-read) .. read : owed = debt + k * Word
    BY DEF DebtWraps
  <2>4. AddFee(debt, fee) \in Int64 /\ Worth(fee) \in Int
    BY AddFeeWraps DEF TypeOK
  <2>5. TypeOK'
    BY <1>1, <2>1, <2>4 DEF TypeOK
  <2>6. DebtWraps'
    <3>1. k + e \in (-read') .. read'
      BY <2>1, <2>2, <2>3 DEF TypeOK
    <3>2. debt \in Int /\ debt' \in Int /\ owed \in Int
      BY <1>1, <2>1, <2>4 DEF TypeOK, Int64
    <3>3. (k + e) * Word = k * Word + e * Word
      BY <1>1, <2>2, <2>3 DEF TypeOK
    <3>4. k * Word \in Int /\ e * Word \in Int /\ k \in Int /\ e \in Int
      BY <1>1, <2>2, <2>3 DEF TypeOK
    <3>5. owed' = debt' + (k + e) * Word
      BY <2>1, <2>2, <2>3, <2>4, <3>2, <3>3, <3>4
    <3>6. QED BY <3>1, <3>5 DEF DebtWraps, Word
  <2>7. QED BY <2>1, <2>5, <2>6 DEF Decided
<1>3. CASE NothingToProcess
  <2>1. UNCHANGED <<read, debt, amount, owed>> /\ outcome' = "nothing" /\ debt <= 0
    BY <1>3 DEF NothingToProcess
  <2>2. QED BY <2>1 DEF TypeOK, DebtWraps, Decided
<1>4. CASE ChargeDebt
  <2>1. UNCHANGED <<read, debt, owed>> /\ outcome' = "transfer" /\ debt > 0
        /\ amount' = ToUint64(debt)
    BY <1>4 DEF ChargeDebt
  <2>2. amount' = debt /\ debt \in Uint64
    BY <1>1, <2>1 DEF ToUint64, TypeOK, Int64, Uint64, Word
  <2>3. QED BY <2>1, <2>2 DEF TypeOK, DebtWraps, Decided
<1>5. CASE UNCHANGED vars
  BY <1>5 DEF vars, TypeOK, DebtWraps, Decided
<1>6. QED BY <1>2, <1>3, <1>4, <1>5 DEF Next

LEMMA SpecInv == Spec => []Inv
  BY InitInv, NextInv, PTL DEF Spec

(* The accumulator and the amount keep to the width of their words.        *)
THEOREM TypeCorrect == Spec => []TypeOK
<1>1. Inv => TypeOK
  BY DEF Inv
<1>2. QED BY SpecInv, <1>1, PTL

LEMMA InvDebtIsOwed == Inv => DebtIsOwed
<1> SUFFICES ASSUME Inv, owed \in Int64 PROVE debt = owed
  BY DEF DebtIsOwed
<1>1. PICK k \in (-read) .. read : owed = debt + k * Word
  BY DEF Inv, DebtWraps
<1>2. k \in Int /\ debt \in Int64
  BY <1>1 DEF Inv, TypeOK
<1>3. QED BY <1>1, <1>2, WholeWordsApart

(* Whenever the sum of the entries fits an int64 the accumulator holds it, *)
(* whatever wrapped on the way.                                            *)
THEOREM DebtExact == Spec => []DebtIsOwed
  BY SpecInv, InvDebtIsOwed, PTL

(* The transfer charges exactly what the key owes, and a key in credit is  *)
(* left alone, as long as the sum fits an int64.                           *)
THEOREM ChargeExact == Spec => []ChargesWhatIsOwed
<1>1. Inv => ChargesWhatIsOwed
  BY InvDebtIsOwed DEF Inv, Decided, DebtIsOwed, ChargesWhatIsOwed
<1>2. QED BY SpecInv, <1>1, PTL
=============================================================================
