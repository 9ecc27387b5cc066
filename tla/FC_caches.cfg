SPECIFICATION Spec
CONSTANTS
  Folders = {f, g}
  Names = {m, n}
  InitialNotes = {m}
  InitialText = t
  Texts = {t, u}
  None = None
  Calls = {c1, c2}
  MAX_TOUCHED = 1
  MaxSwitches = 2
  MaxOwn = 1
  MaxForeign = 1
  MaxAsked = 2
INVARIANTS OwnChangesAreIndexed IndexFollowsDisk
SYMMETRY Symmetry
CHECK_DEADLOCK FALSE
