SPECIFICATION AllSpec
CONSTANTS
    Files <- SmallFiles
    Typed <- Words
    Committed <- Heads
    MaxEdits = 3
    MaxSaves = 2
    MaxBlocks = 3
    Unpinned = Unpinned
    Length = 3
    Initial = 1
    Plain = {}
    Batch = 1
    OnScreen = 2
    MaxChanges = 2
INVARIANTS  UntouchedIsExactUntilOvertaken DirtyMeansEdited
 
CHECK_DEADLOCK FALSE
