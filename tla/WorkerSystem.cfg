CONSTANTS
  k1 = k1  f1 = f1  t1 = t1  t2 = t2
  Tasks = {t1, t2}
  Keys = {k1}
  KeyOf <- MCKeyOf
  Slots = 2
  MaxRetry = 1
  MaxFaults = 1
  Worker = w1
  NoKey = NoKey
  Fees = {f1}
  Owner <- MCOwner
  Entry <- MCEntry
  Unknown = {}
  Conditional = FALSE
  Half = 8
  MaxTx = 2
  MaxLoopFaults = 1
SPECIFICATION FairSystemSpec
INVARIANTS SystemTypeOK VaultAtHand SendsCounted RegisteredHasVault DoneIsRegistered RowsDistinct
PROPERTIES SavedVaultPays SavedIsRegistered
