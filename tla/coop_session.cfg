SPECIFICATION FairSpec
CONSTANTS
  NumConns = 3
  Conns <- MCConns
  MaxRooms = 1
  Host = h
  Joiners = {j1}
  MaxFloors = 2
  MaxFaults = 1
CHECK_DEADLOCK FALSE
INVARIANTS SeatOwned FloorAgreed
PROPERTIES FloorArrives HostEndReachesJoiner
