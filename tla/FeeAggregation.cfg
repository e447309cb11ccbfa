CONSTANTS
  Half = 8
  MaxFees = 4
SPECIFICATION Spec
INVARIANTS TypeOK DebtIsOwed ChargesWhatIsOwed
CHECK_DEADLOCK FALSE
