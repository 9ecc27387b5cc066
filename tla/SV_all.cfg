SPECIFICATION PageSpec
CONSTANTS
    AlwaysReal = {3}
    MinBlocks = 5
    Radius = 0
    SpanMax = 0
    Buffer = 0
    ScreenSize = 2
    Openings <- LongNotes
    Pasted <- Puts
    Widths = {0, 3}
    MaxBlocks = 6
    MaxPastes = 1
    Passes = 1
INVARIANTS PageIsDocument
PROPERTY ScrollingShows
CHECK_DEADLOCK FALSE
