SPECIFICATION AllSpec
CONSTANTS
    a = a
    b = b
    Notes = {a, b}
    NoNote = NoNote
    Empty = Empty
    v = v
    w = w
    Words = {v, w}
    Holding <- Held
    Pool = 2
    MaxFiles = 1
    MaxAsks = 2
    First = b
    Evidence = {a}
    KeepLoaded = 1
    MaxEdits = 2
    MaxFronts = 2
INVARIANTS KnownIsKept NextSaveFits AnswersBelong
PROPERTIES  OnlyMatchesChange
CHECK_DEADLOCK FALSE
