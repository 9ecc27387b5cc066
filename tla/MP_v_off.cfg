SPECIFICATION AllSpec
CONSTANTS
    MaxEdits = 2
    MaxQuits = 2
    MaxChanges = 2
PROPERTY OffIsOff
CHECK_DEADLOCK FALSE
