SPECIFICATION FairSpec
CONSTANTS
  Runs = {r1, r2}
  Coop = coop
  MaxProgress = 1
  Quiet = 1
  Hard = 2
  Retry = 1
  MaxFaults = 1
INVARIANTS SavedIsFound EndedRunGone NoRunVanishes
PROPERTY CheckpointWritten
