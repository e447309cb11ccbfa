CONSTANTS
  k1 = k1  k2 = k2  f1 = f1  f2 = f2  f3 = f3
  Workers = {w1}
  Keys = {k1, k2}
  NoKey = NoKey
  Fees = {f1, f2, f3}
  Owner <- MCOwner
  Entry <- MCEntry
  Unknown = {k2}
  Conditional = FALSE
  MaxTx = 4
  MaxFaults = 0
  Half = 8
SPECIFICATION FairSpec
PROPERTY CollectedEventually
