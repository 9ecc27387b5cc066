SPECIFICATION AllSpec
CONSTANTS
    MaxEdits = 2
    MaxQuits = 2
    MaxChanges = 2
INVARIANTS ReviewKeepsEdits SettingsLand
PROPERTIES SeenIsReported QuitEnds 
CHECK_DEADLOCK FALSE
