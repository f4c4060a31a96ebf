SPECIFICATION FairSpec
CHECK_DEADLOCK FALSE
CONSTANTS
  Kinds = {"story", "soul", "garden"}
  Goal = 2
  Limit = 2
  MaxGames = 1
  MaxRevision = 6
  MaxUnderWay = 1
  MaxFaults = 1
INVARIANTS PressIsFresh Rewarded
PROPERTIES NothingLeaks GameEnds GuestReleased
