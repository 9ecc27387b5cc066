SPECIFICATION AllSpec
CONSTANTS
    MaxRuntimes = 2
    Processes = {e, p}
    Editor = e
    None = None
    MaxFaults = 1
    Codes = {c, d}
    Slots = {r, s}
    MaxCopies = 1
    MaxPreviews = 2
    MaxCrashes = 2
    MaxEdits = 1
    MaxEvents = 5
INVARIANTS OwnProcess NewCodeIsOffOnceSaved FullTrustWasGiven InstalledIsPreviewed
SYMMETRY Symmetry
CHECK_DEADLOCK FALSE
