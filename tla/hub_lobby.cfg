SPECIFICATION EventsSpec
CONSTANTS
  Conns = {c1, c2, c3}
  NoConn = NoConn
  Codes = {r1}
  NoCode = NoCode
  Sources = {ip1}
  NoSource = NoSource
  Games = {g1}
  Archetypes = {a1}
  NoArchetype = NoArchetype
  Settings = {s1, s2}
  DefaultSettings = s1
  Results = {x1}
  NoResult = NoResult
  MaxRooms = 1
  MaxConnsPerSource = 2
  MaxRoomsPerSource = 1
  MaxInvalid = 1
  HelloTimeout = 1
  Liveness = 1
  Grace = 1
  IdleTimeout = 1
  WaitingMax = 1
  ResultDelivery = 1
  MaxTokens = 3
SYMMETRY Symmetry
VIEW View
INVARIANTS SeatOwnership PhaseSeats SourceBooks
PROPERTIES NoStranger NothingAfterClose StartReachesBoth
