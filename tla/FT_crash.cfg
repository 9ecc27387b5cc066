SPECIFICATION AllSpec
CONSTANTS
  Bodies = {b0, b1}
  InitialBody = b0
  None = None
  CanHardLink = TRUE
  MaxForeign = 1
  MaxAttempts = 1
  MaxFaults = 1
  MaxCrashes = 1
  MaxSweeps = 1
INVARIANTS NoSilentClobber EvidenceBlocks AcceptedIsDocument
PROPERTIES  ImplementsGuardedFile
CHECK_DEADLOCK FALSE
