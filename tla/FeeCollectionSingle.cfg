CONSTANTS
  k1 = k1  k2 = k2  f1 = f1  f2 = f2  f3 = f3
  Workers = {w1}
  Keys = {k1, k2}
  NoKey = NoKey
  Fees = {f1, f2, f3}
  Owner <- MCOwner
  Entry <- MCEntry
  Unknown = {}
  Conditional = FALSE
  MaxTx = 5
  MaxFaults = 2
  Half = 8
SPECIFICATION FairSpec
INVARIANTS TypeOK AtMostOnce PaidIsCollected PaidMatchesEntries AttemptsBounded OneLossPerFault
PROPERTY CollectedEventually
