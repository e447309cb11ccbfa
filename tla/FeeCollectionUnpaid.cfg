CONSTANTS
  k1 = k1  k2 = k2  f1 = f1  f2 = f2  f3 = f3
  Workers = {w1}
  Keys = {k1}
  NoKey = NoKey
  Fees = {f1, f2}
  Owner <- MCOwner
  Entry <- MCEntry
  Unknown = {}
  Conditional = FALSE
  MaxTx = 4
  MaxFaults = 1
  Half = 8
SPECIFICATION FairSpec
PROPERTY CollectedIsPaid
