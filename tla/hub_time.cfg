SPECIFICATION FairSpec
CONSTANTS
  Conns = {c1, c2}
  NoConn = NoConn
  Codes = {r1}
  NoCode = NoCode
  Sources = {}
  NoSource = NoSource
  Games = {g1}
  Archetypes = {a1}
  NoArchetype = NoArchetype
  Settings = {s1}
  DefaultSettings = s1
  Results = {x1}
  NoResult = NoResult
  MaxRooms = 1
  MaxConnsPerSource = 0
  MaxRoomsPerSource = 0
  MaxInvalid = 1
  HelloTimeout = 1
  Liveness = 1
  Grace = 1
  IdleTimeout = 1
  WaitingMax = 1
  ResultDelivery = 1
  MaxTokens = 2
PROPERTIES HeldForGrace ResultRetained LostSeatsResolve RoomsEnd
