CONSTANTS
  k1 = k1  k2 = k2  f1 = f1  f2 = f2  f3 = f3
  Workers = {w1, w2}
  Keys = {k1}
  NoKey = NoKey
  Fees = {f1, f3}
  Owner <- MCOneVault
  Entry <- MCEntry
  Unknown = {}
  Conditional = TRUE
  MaxTx = 4
  MaxFaults = 1
  Half = 8
SPECIFICATION Spec
SYMMETRY Symmetry
INVARIANTS AtMostOnce RecordIsThePayment NoncesLostByFault
PROPERTIES ImplementsLedger PaidIsFinal
