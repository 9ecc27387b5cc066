SPECIFICATION AllSpec
CONSTANTS
  Paths = {a, b, c}
  Notes = {a, b}
  None = None
  MAX_TABS = 2
  MAX_CLOSED = 1
  MaxOpens = 2
  MaxMoves = 1
  MaxSaves = 1
  MaxFaults = 1
  MaxForeign = 1
INVARIANTS  OwnLiveStore
PROPERTIES OpensEnd
CHECK_DEADLOCK FALSE
