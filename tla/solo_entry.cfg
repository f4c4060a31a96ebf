SPECIFICATION Spec
CONSTANTS
  Runs = {r1, r2}
  Coop = coop
  MaxProgress = 1
  Quiet = 1
  Hard = 2
  Retry = 1
  MaxFaults = 0
INVARIANT SinglePlayerEntry
