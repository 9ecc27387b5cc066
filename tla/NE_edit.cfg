SPECIFICATION FairSpec
CONSTANTS
  Texts = {a, b, c}
  InitialText = a
  None = None
  MaxEdits = 2
  MaxSaves = 2
  MaxForeign = 2
  MaxFaults = 1
  MaxReloads = 1
  MaxRecoveries = 1
INVARIANTS TokenNamesBase
PROPERTIES SaveIsHonest 
CHECK_DEADLOCK FALSE
