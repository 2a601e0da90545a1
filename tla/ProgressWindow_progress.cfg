SPECIFICATION FairSpec
CONSTANTS
  MaxRetries = 1
  MaxFaults = 2
  MaxClicks = 3
  MaxAir = 2
INVARIANTS PauseHolds
PROPERTIES ClosedIsQuiet ShowsTheTruth
CHECK_DEADLOCK FALSE
