CONSTANTS
  Processes = {p1, p2, p3}
  MaxCrashes = 3
  MaxCutShort = 1
SPECIFICATION FairSpec
INVARIANTS TypeOK RunningHasTable WedgedOnlyByCutShort
PROPERTY UpOrWedged
