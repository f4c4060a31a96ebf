SPECIFICATION FairSpec
CONSTANTS
  Conns <- MCConns
  MaxRooms = 1
  Enemies = {e1}
  SlowEvery = 1
  FullEvery = 2
  ReplayTicks = 1
  MaxItems = 1
  MaxFloors = 2
PROPERTIES GhostsGo ItemsCatchUp FloorCatchesUp
