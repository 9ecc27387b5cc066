SPECIFICATION AllSpec
CONSTANTS
    f = f
    g = g
    a = a
    b = b
    Folders = {f, g}
    First = f
    None = None
    Notes = {a, b}
    Home <- HomeOf
    MaxWrites = 2
    MaxMoves = 2
    MaxFaults = 1
INVARIANTS MarksLeadToHead UndoneIsUntouched
 
CHECK_DEADLOCK FALSE
