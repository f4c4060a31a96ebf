-------------------------- MODULE RelayHub_proofs --------------------------
(***************************************************************************)
(* Proofs about the relay's room reducer: TypeOK and SeatOwnership hold in *)
(* every reachable state, for any connections, codes, sources and limits.  *)
(* The inductive invariant is Good(hub) and the type of sweep.             *)
(*                                                                         *)
(* A handler is a composition of operators on hubs, so the lemmas follow   *)
(* the operators: what each does to the fields of the hub, then that it    *)
(* takes a good hub to a good hub.  Between the operators of one handler   *)
(* the match of sockets and seats is broken for the seat being vacated;    *)
(* Owned is therefore relative to a set of excused seats.                  *)
(*                                                                         *)
(* The second part follows the rooms through the same operators: the       *)
(* phase of a room and its seats agree (PhaseSeats), and no step lets a    *)
(* stranger into a started run (NoStranger), drops a result its joiner may *)
(* still ask for (ResultRetained) or gives a lost seat up early            *)
(* (HeldForGrace).                                                         *)
(***************************************************************************)
EXTENDS RelayHub, SequenceTheorems, TLAPS


\* A seat a connection is bound to is connected, and through that connection;
\* a greeted, open connection is bound; a connected seat has its connection
\* bound to it, or, if it is excused, bound to nothing.
Seated(conns, rooms, c) ==
  conns[c].room # NoCode =>
    /\ Speaks(conns[c])
    /\ conns[c].role \in Roles
    /\ rooms[conns[c].room].phase # "None"
    /\ rooms[conns[c].room].seats[conns[c].role].present
    /\ rooms[conns[c].room].seats[conns[c].role].connected
    /\ rooms[conns[c].room].seats[conns[c].role].conn = c

Bound(conns, c) == Speaks(conns[c]) => conns[c].room # NoCode

Backed(conns, rooms, excused, code, role) ==
  rooms[code].phase # "None" /\ rooms[code].seats[role].connected =>
    /\ rooms[code].seats[role].present
    /\ rooms[code].seats[role].conn \in Conns
    /\ \/ /\ conns[rooms[code].seats[role].conn].room = code
          /\ conns[rooms[code].seats[role].conn].role = role
       \/ /\ <<code, role>> \in excused
          /\ conns[rooms[code].seats[role].conn].room = NoCode

OwnedIn(conns, rooms, excused) ==
  /\ \A c \in Conns : Seated(conns, rooms, c) /\ Bound(conns, c)
  /\ \A code \in Codes, role \in Roles :
       Backed(conns, rooms, excused, code, role)

Owned(h, excused) == OwnedIn(h.conns, h.rooms, excused)

Good(h) == HubType(h) /\ Owned(h, {})

-----------------------------------------------------------------------------
(* Output *)

\* g differs from h in nothing but what it sends.
Same(g, h) ==
  /\ HubType(g)
  /\ g.conns = h.conns /\ g.rooms = h.rooms
  /\ g.sources = h.sources /\ g.issued = h.issued

LEMMA SameOwned ==
  ASSUME NEW g, NEW h, NEW excused, Same(g, h), Owned(h, excused)
  PROVE  Owned(g, excused)
BY DEF Same, Owned

LEMMA SameTrans ==
  ASSUME NEW f, NEW g, NEW h, Same(f, g), Same(g, h)
  PROVE  Same(f, h)
BY DEF Same

LEMMA EmitSame ==
  ASSUME NEW h, HubType(h), NEW a
  PROVE  Same(Emit(h, a), h)
<1> DEFINE g == Emit(h, a)
<1>1. /\ g \in [conns: [Conns -> Conn], rooms: [Codes -> Room],
               sources: [Sources -> [conns: Nat, rooms: Nat]], issued: Nat,
               out: {g.out}]
      /\ g.conns = h.conns /\ g.rooms = h.rooms
      /\ g.sources = h.sources /\ g.issued = h.issued
  BY DEF HubType, Emit
<1> QED BY <1>1 DEF HubType, Same

LEMMA SendSame ==
  ASSUME NEW h, HubType(h), NEW c, NEW m
  PROVE  Same(Send(h, c, m), h)
BY EmitSame DEF Send

LEMMA SendToSame ==
  ASSUME NEW h, HubType(h), NEW code, NEW role, NEW m
  PROVE  Same(SendTo(h, code, role, m), h)
<1>1. CASE SeatConn(h, code, role) = NoConn
  BY <1>1 DEF SendTo, Same
<1>2. CASE SeatConn(h, code, role) # NoConn
  BY <1>2, SendSame DEF SendTo
<1> QED BY <1>1, <1>2

LEMMA BroadcastLobbySame ==
  ASSUME NEW h, HubType(h), NEW code
  PROVE  Same(BroadcastLobby(h, code), h)
<1> DEFINE view == LobbyView(h.rooms[code])
           host == SendTo(h, code, "Host", view)
<1>1. Same(host, h)
  BY SendToSame
<1>2. Same(SendTo(host, code, "Join", view), host)
  BY <1>1, SendToSame DEF Same
<1> QED BY <1>1, <1>2, SameTrans DEF BroadcastLobby

-----------------------------------------------------------------------------
(* One field at a time *)

LEMMA ConnType ==
  ASSUME NEW h, HubType(h), NEW c \in Conns, NEW conn \in Conn
  PROVE  LET g == [h EXCEPT !.conns[c] = conn]
         IN  /\ HubType(g)
             /\ g.conns = [h.conns EXCEPT ![c] = conn]
             /\ g.rooms = h.rooms /\ g.sources = h.sources
             /\ g.issued = h.issued
BY DEF HubType

LEMMA RoomType ==
  ASSUME NEW h, HubType(h), NEW code \in Codes, NEW room \in Room
  PROVE  LET g == [h EXCEPT !.rooms[code] = room]
         IN  /\ HubType(g)
             /\ g.rooms = [h.rooms EXCEPT ![code] = room]
             /\ g.conns = h.conns /\ g.sources = h.sources
             /\ g.issued = h.issued
BY DEF HubType

LEMMA Members ==
  ASSUME NEW h, HubType(h)
  PROVE  /\ \A c \in Conns : h.conns[c] \in Conn
         /\ \A code \in Codes : h.rooms[code] \in Room
         /\ \A code \in Codes, role \in Roles : h.rooms[code].seats[role] \in Seat
BY DEF HubType, Room

LEMMA SourceAdjustType ==
  ASSUME NEW h, HubType(h), NEW source \in Sources \cup {NoSource},
         NEW conns \in Int, NEW rooms \in Int
  PROVE  LET g == SourceAdjust(h, source, conns, rooms)
         IN  /\ HubType(g)
             /\ g.conns = h.conns /\ g.rooms = h.rooms /\ g.issued = h.issued
<1>1. CASE source = NoSource
  BY <1>1 DEF SourceAdjust
<1>2. CASE source # NoSource
  <2> DEFINE e == h.sources[source]
             v == [conns |-> Clamp(e.conns + conns), rooms |-> Clamp(e.rooms + rooms)]
  <2>1. source \in Sources
    BY <1>2
  <2>2. e \in [conns: Nat, rooms: Nat]
    BY <2>1 DEF HubType
  <2>3. v \in [conns: Nat, rooms: Nat]
    BY <2>2 DEF Clamp
  <2>4. SourceAdjust(h, source, conns, rooms) = [h EXCEPT !.sources[source] = v]
    BY <1>2, <2>1 DEF SourceAdjust, HubType
  <2> HIDE DEF v
  <2> QED BY <2>1, <2>3, <2>4 DEF HubType
<1> QED BY <1>1, <1>2

LEMMA RoomConstants ==
  /\ EmptySeat \in Seat
  /\ ClosedConn \in Conn
  /\ \A source \in Sources \cup {NoSource} : OpenedConn(source) \in Conn
  /\ \A game \in Games, source \in Sources \cup {NoSource} :
       NewRoom(game, source) \in Room
BY NonesAssumption DEF EmptySeat, Seat, ClosedConn, OpenedConn, Conn, NewRoom,
   Room, NoToken, Phases, Roles
-----------------------------------------------------------------------------
(* The match of sockets and seats *)

\* Nothing a change of room can do to the match, if the seating stays.
SameSeating(room1, room2) ==
  /\ room1.phase = "None" <=> room2.phase = "None"
  /\ \A role \in Roles :
       /\ room1.seats[role].present = room2.seats[role].present
       /\ room1.seats[role].connected = room2.seats[role].connected
       /\ room1.seats[role].conn = room2.seats[role].conn

LEMMA SeatingKept ==
  ASSUME NEW h, Good(h), NEW code \in Codes, NEW room \in Room,
         SameSeating(room, h.rooms[code])
  PROVE  Good([h EXCEPT !.rooms[code] = room])
<1> DEFINE g == [h EXCEPT !.rooms[code] = room]
<1>1. /\ HubType(g)
      /\ g.rooms = [h.rooms EXCEPT ![code] = room]
      /\ g.conns = h.conns
  BY RoomType DEF Good
<1>2. DOMAIN h.rooms = Codes
  BY DEF Good, HubType
<1> HIDE DEF g
<1>3. \A x \in Codes : SameSeating(g.rooms[x], h.rooms[x])
  BY <1>1, <1>2 DEF SameSeating
<1>4. \A c \in Conns : h.conns[c].room \in Codes \cup {NoCode}
  BY DEF Good, HubType, Conn
<1>5. OwnedIn(h.conns, h.rooms, {})
  BY DEF Good, Owned
<1>6. ASSUME NEW c \in Conns
      PROVE  Seated(h.conns, g.rooms, c) /\ Bound(h.conns, c)
  <2>1. Seated(h.conns, h.rooms, c) /\ Bound(h.conns, c)
    BY <1>5 DEF OwnedIn
  <2> DEFINE x == h.conns[c].room
             role == h.conns[c].role
  <2>2. CASE x = NoCode
    BY <2>1, <2>2 DEF Seated
  <2>3. CASE x # NoCode
    <3>1. x \in Codes /\ role \in Roles
      BY <2>1, <2>3, <1>4 DEF Seated
    <3>2. /\ h.rooms[x].phase # "None" => g.rooms[x].phase # "None"
          /\ h.rooms[x].seats[role].connected => g.rooms[x].seats[role].connected
          /\ h.rooms[x].seats[role].present => g.rooms[x].seats[role].present
          /\ g.rooms[x].seats[role].conn = h.rooms[x].seats[role].conn
      BY <3>1, <1>3 DEF SameSeating
    <3> QED BY <2>1, <3>2 DEF Seated
  <2> QED BY <2>2, <2>3
<1>7. ASSUME NEW x \in Codes, NEW role \in Roles
      PROVE  Backed(h.conns, g.rooms, {}, x, role)
  <2>1. /\ g.rooms[x].phase # "None" => h.rooms[x].phase # "None"
        /\ g.rooms[x].seats[role].connected => h.rooms[x].seats[role].connected
        /\ h.rooms[x].seats[role].present => g.rooms[x].seats[role].present
        /\ g.rooms[x].seats[role].conn = h.rooms[x].seats[role].conn
    BY <1>3 DEF SameSeating
  <2>2. Backed(h.conns, h.rooms, {}, x, role)
    BY <1>5 DEF OwnedIn
  <2> QED BY <2>1, <2>2 DEF Backed
<1> QED BY <1>1, <1>6, <1>7 DEF Good, Owned, OwnedIn, g

LEMMA ConnKept ==
  ASSUME NEW h, Good(h), NEW c \in Conns, NEW conn \in Conn,
         conn.open = h.conns[c].open, conn.hello_done = h.conns[c].hello_done,
         conn.closing = h.conns[c].closing, conn.room = h.conns[c].room,
         conn.role = h.conns[c].role
  PROVE  Good([h EXCEPT !.conns[c] = conn])
<1> DEFINE g == [h EXCEPT !.conns[c] = conn]
<1>1. /\ HubType(g)
      /\ g.conns = [h.conns EXCEPT ![c] = conn]
      /\ g.rooms = h.rooms
  BY ConnType DEF Good
<1>2. DOMAIN h.conns = Conns
  BY DEF Good, HubType
<1> HIDE DEF g
<1>3. \A x \in Conns : /\ g.conns[x].open = h.conns[x].open
                       /\ Speaks(g.conns[x]) = Speaks(h.conns[x])
                       /\ g.conns[x].room = h.conns[x].room
                       /\ g.conns[x].role = h.conns[x].role
  BY <1>1, <1>2 DEF Speaks
<1>4. OwnedIn(h.conns, h.rooms, {})
  BY DEF Good, Owned
<1>5. ASSUME NEW x \in Conns
      PROVE  Seated(g.conns, h.rooms, x) /\ Bound(g.conns, x)
  <2>1. Seated(h.conns, h.rooms, x) /\ Bound(h.conns, x)
    BY <1>4 DEF OwnedIn
  <2> QED BY <1>3, <2>1 DEF Seated, Bound
<1>6. ASSUME NEW code \in Codes, NEW role \in Roles
      PROVE  Backed(g.conns, h.rooms, {}, code, role)
  <2> DEFINE s == h.rooms[code].seats[role]
  <2>1. Backed(h.conns, h.rooms, {}, code, role)
    BY <1>4 DEF OwnedIn
  <2>2. s.conn \in Conns =>
          /\ h.conns[s.conn].open => g.conns[s.conn].open
          /\ g.conns[s.conn].room = h.conns[s.conn].room
          /\ g.conns[s.conn].role = h.conns[s.conn].role
    BY <1>3
  <2> QED BY <2>1, <2>2 DEF Backed
<1> QED BY <1>1, <1>5, <1>6 DEF Good, Owned, OwnedIn, g

\* c has been detached from its seat and told to close.
Dropped(g, h, c) ==
  /\ HubType(g)
  /\ g.conns = [h.conns EXCEPT ![c] =
                  [@ EXCEPT !.room = NoCode, !.role = "None", !.closing = TRUE]]
  /\ g.rooms = h.rooms /\ g.sources = h.sources /\ g.issued = h.issued

LEMMA DropClose ==
  ASSUME NEW h, HubType(h), NEW c \in Conns, NEW code
  PROVE  /\ Dropped(CloseConn(Detach(h, c), c, code), h, c)
         /\ Dropped(FatalUnbound(Detach(h, c), c, code), h, c)
<1> DEFINE free == [h.conns[c] EXCEPT !.room = NoCode, !.role = "None"]
           shut == [h.conns[c] EXCEPT !.room = NoCode, !.role = "None",
                                      !.closing = TRUE]
           g == Detach(h, c)
           Closes(x) == [x EXCEPT !.conns[c].closing = TRUE]
<1>1. /\ free \in Conn /\ shut \in Conn
      /\ free.closing = h.conns[c].closing
      /\ [free EXCEPT !.closing = TRUE] = shut
      /\ free.closing => free = shut
  <2>1. h.conns[c] \in Conn
    BY Members
  <2> QED BY <2>1 DEF Conn
<1>2. /\ HubType(g)
      /\ g.conns = [h.conns EXCEPT ![c] = free]
      /\ g.rooms = h.rooms /\ g.sources = h.sources /\ g.issued = h.issued
  BY <1>1, ConnType DEF Detach
<1>3. g.conns[c] = free
  BY <1>2 DEF HubType
<1>4. CASE h.conns[c].closing
  <2>1. g.conns[c].closing /\ free = shut
    BY <1>1, <1>3, <1>4
  <2>2. Dropped(g, h, c)
    BY <1>2, <2>1 DEF Dropped
  <2> QED BY <2>1, <2>2 DEF CloseConn, FatalUnbound
<1>5. CASE ~h.conns[c].closing
  <2>1. ~g.conns[c].closing
    BY <1>1, <1>3, <1>5
  <2>2. ASSUME NEW x, Same(x, g), NEW a
        PROVE  Dropped(Emit(Closes(x), a), h, c)
    <3>1. Closes(x) = [x EXCEPT !.conns[c] = shut]
      <4>1. x.conns[c] = free
        BY <1>3, <2>2 DEF Same
      <4>2. [x EXCEPT !.conns[c].closing = TRUE] =
              [x EXCEPT !.conns[c] = [x.conns[c] EXCEPT !.closing = TRUE]]
        BY <2>2 DEF HubType, Same
      <4> QED BY <4>1, <4>2, <1>1
    <3> DEFINE y == [x EXCEPT !.conns[c] = shut]
    <3>5. /\ HubType(y)
          /\ y.conns = [x.conns EXCEPT ![c] = shut]
          /\ y.rooms = x.rooms /\ y.sources = x.sources
          /\ y.issued = x.issued
      <4>1. HubType(x)
        BY <2>2 DEF Same
      <4> QED BY <4>1, <1>1, ConnType
    <3>2. /\ HubType(Closes(x))
          /\ Closes(x).conns = [x.conns EXCEPT ![c] = shut]
          /\ Closes(x).rooms = x.rooms /\ Closes(x).sources = x.sources
          /\ Closes(x).issued = x.issued
      <4> HIDE DEF y, Closes
      <4> QED BY <3>1, <3>5 DEF y
    <3>3. [x.conns EXCEPT ![c] = shut] = [h.conns EXCEPT ![c] = shut]
      BY <1>2, <2>2 DEF Same, HubType
    <3>4. Same(Emit(Closes(x), a), Closes(x))
      BY <3>2, EmitSame
    <3> QED BY <1>2, <2>2, <3>2, <3>3, <3>4 DEF Dropped, Same
  <2>3. Same(g, g)
    BY <1>2 DEF Same
  <2>4. Dropped(CloseConn(g, c, code), h, c)
    BY <2>1, <2>2, <2>3 DEF CloseConn
  <2>5. Same(Send(g, c, Error(code, TRUE)), g)
    BY <1>2, SendSame
  <2>6. Dropped(CloseConn(Send(g, c, Error(code, TRUE)), c, "policy"), h, c)
    BY <2>1, <2>2, <2>5 DEF CloseConn, Same
  <2> QED BY <2>1, <2>4, <2>6 DEF FatalUnbound
<1> QED BY <1>4, <1>5

\* Owned is monotonic in the excused seats.
LEMMA OwnedMore ==
  ASSUME NEW h, NEW few, NEW more, Owned(h, few), few \subseteq more
  PROVE  Owned(h, more)
<1>1. OwnedIn(h.conns, h.rooms, few)
  BY DEF Owned
<1>2. ASSUME NEW code \in Codes, NEW role \in Roles
      PROVE  Backed(h.conns, h.rooms, more, code, role)
  <2>1. Backed(h.conns, h.rooms, few, code, role)
    BY <1>1 DEF OwnedIn
  <2> QED BY <2>1 DEF Backed
<1> QED BY <1>1, <1>2 DEF Owned, OwnedIn

LEMMA ReplacedOwned ==
  ASSUME NEW g, NEW h, HubType(h), NEW excused, Owned(h, excused),
         NEW c \in Conns, NEW conn \in Conn, conn.room = NoCode, ~Speaks(conn),
         g.conns = [h.conns EXCEPT ![c] = conn], g.rooms = h.rooms
  PROVE  /\ h.conns[c].room = NoCode => Owned(g, excused)
         /\ \A code \in Codes, role \in Roles :
              h.conns[c].room = code /\ h.conns[c].role = role =>
                Owned(g, excused \cup {<<code, role>>})
<1>1. /\ g.conns[c] = conn
      /\ \A x \in Conns : x # c => g.conns[x] = h.conns[x]
  BY DEF HubType
<1>2. OwnedIn(h.conns, h.rooms, excused)
  BY DEF Owned
<1>3. ASSUME NEW x \in Conns
      PROVE  Seated(g.conns, h.rooms, x) /\ Bound(g.conns, x)
  <2>1. CASE x = c
    BY <2>1, <1>1 DEF Seated, Bound
  <2>2. CASE x # c
    <3>1. g.conns[x] = h.conns[x]
      BY <2>2, <1>1
    <3>2. Seated(h.conns, h.rooms, x) /\ Bound(h.conns, x)
      BY <1>2 DEF OwnedIn
    <3> QED BY <3>1, <3>2 DEF Seated, Bound
  <2> QED BY <2>1, <2>2
<1>4. ASSUME NEW more, excused \subseteq more, NEW x \in Codes, NEW r \in Roles,
             \/ h.conns[c].room = NoCode
             \/ ~(h.conns[c].room = x /\ h.conns[c].role = r)
             \/ <<x, r>> \in more
      PROVE  Backed(g.conns, h.rooms, more, x, r)
  <2> DEFINE s == h.rooms[x].seats[r]
  <2>1. Backed(h.conns, h.rooms, excused, x, r)
    BY <1>2 DEF OwnedIn
  <2>2. CASE s.conn # c
    BY <2>1, <2>2, <1>1, <1>4 DEF Backed
  <2>3. CASE s.conn = c
    <3>1. \/ <<x, r>> \in more
          \/ ~(h.rooms[x].phase # "None" /\ s.connected)
      BY <2>1, <2>3, <1>4, NonesAssumption DEF Backed
    <3> QED BY <2>1, <2>3, <3>1, <1>1 DEF Backed
  <2> QED BY <2>2, <2>3
<1>5. ASSUME h.conns[c].room = NoCode
      PROVE  Owned(g, excused)
  <2>1. \A x \in Codes, r \in Roles : Backed(g.conns, h.rooms, excused, x, r)
    BY <1>4, <1>5
  <2> QED BY <1>3, <2>1 DEF Owned, OwnedIn
<1>6. ASSUME NEW code \in Codes, NEW role \in Roles,
             h.conns[c].room = code, h.conns[c].role = role
      PROVE  Owned(g, excused \cup {<<code, role>>})
  <2> DEFINE more == excused \cup {<<code, role>>}
  <2>1. excused \subseteq more /\ <<code, role>> \in more
    OBVIOUS
  <2> HIDE DEF more
  <2>2. \A x \in Codes, r \in Roles : Backed(g.conns, h.rooms, more, x, r)
    BY <1>4, <1>6, <2>1
  <2> QED BY <1>3, <2>2 DEF Owned, OwnedIn, more
<1> QED BY <1>5, <1>6

LEMMA DroppedOwned ==
  ASSUME NEW g, NEW h, HubType(h), NEW excused, Owned(h, excused),
         NEW c \in Conns, Dropped(g, h, c)
  PROVE  /\ h.conns[c].room = NoCode => Owned(g, excused)
         /\ \A code \in Codes, role \in Roles :
              h.conns[c].room = code /\ h.conns[c].role = role =>
                Owned(g, excused \cup {<<code, role>>})
<1> DEFINE conn == [h.conns[c] EXCEPT !.room = NoCode, !.role = "None",
                                      !.closing = TRUE]
<1>1. h.conns[c] \in Conn
  BY Members
<1>2. conn \in Conn /\ conn.room = NoCode /\ ~Speaks(conn)
  BY <1>1 DEF Conn, Speaks
<1>3. g.conns = [h.conns EXCEPT ![c] = conn] /\ g.rooms = h.rooms
  BY DEF Dropped
<1> HIDE DEF conn
<1> QED BY <1>2, <1>3, ReplacedOwned

\* Nobody speaks for the seat.
Unbound(h, code, role) ==
  \A c \in Conns : ~(h.conns[c].room = code /\ h.conns[c].role = role)

Sits(h, excused, code, role, c) ==
  /\ c = NoConn => Unbound(h, code, role)
  /\ c # NoConn =>
       /\ c \in Conns
       /\ c = h.rooms[code].seats[role].conn
       /\ h.rooms[code].seats[role].present
       /\ h.rooms[code].seats[role].connected
       /\ \/ h.conns[c].room = NoCode /\ <<code, role>> \in excused
          \/ h.conns[c].room = code /\ h.conns[c].role = role
  /\ \A x \in Conns :
       h.conns[x].room = code /\ h.conns[x].role = role => x = c

LEMMA SeatConnIs ==
  ASSUME NEW h, HubType(h), NEW excused, Owned(h, excused),
         NEW code \in Codes, NEW role \in Roles, h.rooms[code].phase # "None"
  PROVE  Sits(h, excused, code, role, SeatConn(h, code, role))
<1> DEFINE c == SeatConn(h, code, role)
           seat == h.rooms[code].seats[role]
<1>1. OwnedIn(h.conns, h.rooms, excused)
  BY DEF Owned
<1>2. Backed(h.conns, h.rooms, excused, code, role)
  BY <1>1 DEF OwnedIn
<1>3. code # NoCode /\ NoConn \notin Conns
  BY NonesAssumption
<1>4. ASSUME NEW x \in Conns, h.conns[x].room = code, h.conns[x].role = role
      PROVE  x = c
  <2>1. Seated(h.conns, h.rooms, x)
    BY <1>1 DEF OwnedIn
  <2>2. seat.present /\ seat.connected /\ seat.conn = x /\ h.conns[x].open
    BY <2>1, <1>3, <1>4 DEF Seated, Speaks
  <2> QED BY <2>2 DEF SeatConn
<1>5. c = NoConn => Unbound(h, code, role)
  BY <1>3, <1>4 DEF Unbound
<1>6. ASSUME c # NoConn
      PROVE  /\ c = seat.conn /\ seat.present /\ seat.connected
  BY <1>6 DEF SeatConn
<1>7. ASSUME c # NoConn
      PROVE  /\ c \in Conns
             /\ \/ h.conns[c].room = NoCode /\ <<code, role>> \in excused
                \/ h.conns[c].room = code /\ h.conns[c].role = role
  <2> HIDE DEF c
  <2> QED BY <1>2, <1>6, <1>7 DEF Backed
<1> HIDE DEF c, seat
<1> QED BY <1>4, <1>5, <1>6, <1>7 DEF c, seat, Sits

SetSeat(h, code, role, seat) == [h EXCEPT !.rooms[code].seats[role] = seat]

LEMMA SeatFreed ==
  ASSUME NEW h, HubType(h), NEW excused, NEW code \in Codes, NEW role \in Roles,
         Owned(h, excused), Unbound(h, code, role),
         NEW seat \in Seat, ~seat.connected
  PROVE  LET g == SetSeat(h, code, role, seat)
         IN  /\ HubType(g)
             /\ Owned(g, excused \ {<<code, role>>})
             /\ g.rooms[code] = [h.rooms[code] EXCEPT !.seats[role] = seat]
             /\ g.conns = h.conns /\ g.sources = h.sources
             /\ g.issued = h.issued
<1> DEFINE room == [h.rooms[code] EXCEPT !.seats[role] = seat]
           g == [h EXCEPT !.rooms[code] = room]
<1>1. /\ room \in Room
      /\ room.phase = h.rooms[code].phase
      /\ room.seats[role] = seat
      /\ \A r \in Roles : r # role => room.seats[r] = h.rooms[code].seats[r]
  BY Members DEF Room
<1> HIDE DEF room
<1>2. /\ HubType(g)
      /\ g.rooms = [h.rooms EXCEPT ![code] = room]
      /\ g.conns = h.conns /\ g.sources = h.sources /\ g.issued = h.issued
  BY <1>1, RoomType
<1>3. /\ g.rooms[code] = room
      /\ \A x \in Codes : x # code => g.rooms[x] = h.rooms[x]
  <2>1. DOMAIN h.rooms = Codes
    BY DEF HubType
  <2> HIDE DEF g
  <2> QED BY <1>2, <2>1
<1>4. SetSeat(h, code, role, seat) = g
  BY DEF HubType, room, SetSeat
<1> HIDE DEF g
<1>5. OwnedIn(h.conns, h.rooms, excused)
  BY DEF Owned
<1>6. ASSUME NEW c \in Conns
      PROVE  Seated(h.conns, g.rooms, c) /\ Bound(h.conns, c)
  <2>1. Seated(h.conns, h.rooms, c) /\ Bound(h.conns, c)
    BY <1>5 DEF OwnedIn
  <2>2. h.conns[c].room \in Codes \cup {NoCode}
    BY DEF HubType, Conn
  <2>3. CASE h.conns[c].room = NoCode
    BY <2>1, <2>3 DEF Seated
  <2>4. CASE h.conns[c].room # NoCode /\ h.conns[c].room # code
    <3>1. g.rooms[h.conns[c].room] = h.rooms[h.conns[c].room]
      BY <1>3, <2>2, <2>4
    <3> QED BY <2>1, <3>1 DEF Seated
  <2>5. CASE h.conns[c].room # NoCode /\ h.conns[c].room = code
    <3>1. h.conns[c].role \in Roles /\ h.conns[c].role # role
      BY <2>1, <2>5 DEF Seated, Unbound
    <3>2. /\ g.rooms[code].seats[h.conns[c].role] =
               h.rooms[code].seats[h.conns[c].role]
          /\ g.rooms[code].phase = h.rooms[code].phase
      BY <1>1, <1>3, <3>1
    <3> QED BY <2>1, <2>5, <3>2 DEF Seated
  <2> QED BY <2>3, <2>4, <2>5
<1>7. ASSUME NEW x \in Codes, NEW r \in Roles
      PROVE  Backed(h.conns, g.rooms, excused \ {<<code, role>>}, x, r)
  <2>1. Backed(h.conns, h.rooms, excused, x, r)
    BY <1>5 DEF OwnedIn
  <2>2. CASE x = code /\ r = role
    BY <1>1, <1>3, <2>2 DEF Backed
  <2>3. CASE ~(x = code /\ r = role)
    <3>1. /\ g.rooms[x].seats[r] = h.rooms[x].seats[r]
          /\ g.rooms[x].phase = h.rooms[x].phase
      BY <1>1, <1>3, <2>3
    <3>2. <<x, r>> \in excused => <<x, r>> \in excused \ {<<code, role>>}
      BY <2>3
    <3> QED BY <2>1, <3>1, <3>2 DEF Backed
  <2> QED BY <2>2, <2>3
<1>8. Owned(g, excused \ {<<code, role>>})
  BY <1>2, <1>6, <1>7 DEF Owned, OwnedIn
<1> QED BY <1>2, <1>3, <1>4, <1>8 DEF room
-----------------------------------------------------------------------------
(* Departures *)

\* g is h after connections lost their seats and closed; no seat moved.
Released(g, h) ==
  /\ HubType(g)
  /\ g.rooms = h.rooms /\ g.sources = h.sources /\ g.issued = h.issued
  /\ \A c \in Conns : g.conns[c].room # NoCode => g.conns[c] = h.conns[c]
  /\ \A c \in Conns : g.conns[c].source = h.conns[c].source
                       /\ g.conns[c].open = h.conns[c].open

LEMMA DroppedReleased ==
  ASSUME NEW g, NEW h, HubType(h), NEW c \in Conns, Dropped(g, h, c)
  PROVE  Released(g, h) /\ g.conns[c].room = NoCode
<1>1. /\ DOMAIN h.conns = Conns
      /\ \A x \in Conns : h.conns[x] \in Conn
  BY DEF HubType
<1>2. \A x \in Conns : x # c => g.conns[x] = h.conns[x]
  BY <1>1 DEF Dropped
<1>3. /\ g.conns[c].room = NoCode
      /\ g.conns[c].source = h.conns[c].source
      /\ g.conns[c].open = h.conns[c].open
  BY <1>1 DEF Dropped, Conn
<1> QED BY <1>2, <1>3 DEF Released, Dropped

LEMMA CloseSeatReleases ==
  ASSUME NEW h, HubType(h), NEW excused, Owned(h, excused),
         NEW code \in Codes, NEW role \in Roles, h.rooms[code].phase # "None",
         NEW error
  PROVE  LET g == CloseSeat(h, code, role, error)
         IN  /\ Released(g, h)
             /\ Owned(g, excused \cup {<<code, role>>})
             /\ Unbound(g, code, role)
<1> DEFINE c == SeatConn(h, code, role)
           g == CloseSeat(h, code, role, error)
<1>1. CASE c = NoConn
  <2>1. g = h
    BY <1>1 DEF CloseSeat
  <2>2. Unbound(h, code, role)
    <3>1. Sits(h, excused, code, role, c)
      BY SeatConnIs
    <3> HIDE DEF c
    <3> QED BY <1>1, <3>1 DEF Sits
  <2>3. Owned(h, excused \cup {<<code, role>>})
    BY DEF Owned, OwnedIn, Backed
  <2>4. Released(h, h)
    BY DEF Released
  <2> HIDE DEF g
  <2> QED BY <2>1, <2>2, <2>3, <2>4 DEF g
<1>2. CASE c # NoConn
  <2> HIDE DEF g
  <2>0. Sits(h, excused, code, role, c)
    BY SeatConnIs
  <2> HIDE DEF c
  <2>1. /\ c \in Conns
        /\ \/ h.conns[c].room = NoCode
           \/ h.conns[c].room = code /\ h.conns[c].role = role
        /\ \A x \in Conns :
             h.conns[x].room = code /\ h.conns[x].role = role => x = c
    BY <1>2, <2>0 DEF Sits
  <2> USE DEF g
  <2>2. Dropped(g, h, c)
    <3>1. g = IF error = "None" THEN CloseConn(Detach(h, c), c, "normal")
              ELSE FatalUnbound(Detach(h, c), c, error)
      BY <1>2 DEF CloseSeat, c
    <3> HIDE DEF g
    <3>2. /\ Dropped(CloseConn(Detach(h, c), c, "normal"), h, c)
          /\ Dropped(FatalUnbound(Detach(h, c), c, error), h, c)
      BY <2>1, DropClose
    <3> QED BY <3>1, <3>2
  <2> HIDE DEF g
  <2>3. Owned(g, excused \cup {<<code, role>>})
    <3>1. /\ h.conns[c].room = NoCode => Owned(g, excused)
          /\ \A x \in Codes, r \in Roles :
               h.conns[c].room = x /\ h.conns[c].role = r =>
                 Owned(g, excused \cup {<<x, r>>})
      BY <2>1, <2>2, DroppedOwned
    <3>2. Owned(g, excused) => Owned(g, excused \cup {<<code, role>>})
      BY OwnedMore
    <3> QED BY <2>1, <3>1, <3>2
  <2>4. Released(g, h) /\ g.conns[c].room = NoCode
    BY <2>1, <2>2, DroppedReleased
  <2>5. ASSUME NEW x \in Conns, g.conns[x].room = code, g.conns[x].role = role
        PROVE  FALSE
    <3>1. code # NoCode
      BY NonesAssumption
    <3>2. x # c
      BY <2>4, <2>5, <3>1
    <3>3. g.conns[x] = h.conns[x]
      BY <2>4, <2>5, <3>1 DEF Released
    <3> QED BY <2>1, <2>5, <3>2, <3>3
  <2>6. Unbound(g, code, role)
    BY <2>5 DEF Unbound
  <2> QED BY <2>3, <2>4, <2>6 DEF g
<1> QED BY <1>1, <1>2

LEMMA NoRoomType == NoRoom \in Room /\ NoRoom.phase = "None"
<1> DEFINE game == CHOOSE game \in Games : TRUE
           new == NewRoom(game, NoSource)
<1>1. game \in Games
  BY NonesAssumption
<1>2. new \in Room
  BY <1>1, RoomConstants
<1>3. NoRoom = [new EXCEPT !.phase = "None"]
  BY DEF NoRoom
<1> HIDE DEF new
<1> QED BY <1>2, <1>3 DEF Room

LEMMA RoomRemoved ==
  ASSUME NEW h, HubType(h), NEW code \in Codes,
         Owned(h, {code} \X Roles), \A role \in Roles : Unbound(h, code, role)
  PROVE  LET g == [h EXCEPT !.rooms[code] = NoRoom]
         IN  Good(g) /\ g.conns = h.conns /\ g.sources = h.sources
                     /\ g.rooms = [h.rooms EXCEPT ![code] = NoRoom]
<1> DEFINE g == [h EXCEPT !.rooms[code] = NoRoom]
<1>1. /\ HubType(g)
      /\ g.rooms = [h.rooms EXCEPT ![code] = NoRoom]
      /\ g.conns = h.conns /\ g.sources = h.sources
  BY RoomType, NoRoomType
<1>2. DOMAIN h.rooms = Codes
  BY DEF HubType
<1> HIDE DEF g
<1>3. /\ g.rooms[code].phase = "None"
      /\ \A x \in Codes : x # code => g.rooms[x] = h.rooms[x]
  BY <1>1, <1>2, NoRoomType
<1>4. OwnedIn(h.conns, h.rooms, {code} \X Roles)
  BY DEF Owned
<1>5. ASSUME NEW c \in Conns
      PROVE  Seated(h.conns, g.rooms, c) /\ Bound(h.conns, c)
  <2>1. Seated(h.conns, h.rooms, c) /\ Bound(h.conns, c)
    BY <1>4 DEF OwnedIn
  <2>2. h.conns[c].room \in Codes \cup {NoCode}
    BY DEF HubType, Conn
  <2>3. CASE h.conns[c].room = NoCode
    BY <2>1, <2>3 DEF Seated
  <2>4. CASE h.conns[c].room # NoCode
    <3>1. h.conns[c].room # code
      BY <2>1, <2>4 DEF Seated, Unbound
    <3>2. g.rooms[h.conns[c].room] = h.rooms[h.conns[c].room]
      BY <1>3, <2>2, <2>4, <3>1
    <3> QED BY <2>1, <3>2 DEF Seated
  <2> QED BY <2>3, <2>4
<1>6. ASSUME NEW x \in Codes, NEW r \in Roles
      PROVE  Backed(h.conns, g.rooms, {}, x, r)
  <2>1. Backed(h.conns, h.rooms, {code} \X Roles, x, r)
    BY <1>4 DEF OwnedIn
  <2>2. CASE x = code
    BY <1>3, <2>2 DEF Backed
  <2>3. CASE x # code
    <3>1. <<x, r>> \notin {code} \X Roles
      BY <2>3
    <3>2. Backed(h.conns, h.rooms, {}, x, r)
      BY <2>1, <3>1 DEF Backed
    <3>3. g.rooms[x] = h.rooms[x]
      BY <1>3, <2>3
    <3> QED BY <3>2, <3>3 DEF Backed
  <2> QED BY <2>2, <2>3
<1> QED BY <1>1, <1>5, <1>6 DEF Good, Owned, OwnedIn, g

LEMMA CloseRoomGood ==
  ASSUME NEW h, HubType(h), NEW code \in Codes, h.rooms[code].phase # "None",
         Owned(h, {code} \X Roles), NEW error
  PROVE  Good(CloseRoom(h, code, error))
<1> DEFINE h1 == CloseSeat(h, code, "Host", error)
           h2 == CloseSeat(h1, code, "Join", error)
           h3 == [h2 EXCEPT !.rooms[code] = NoRoom]
           source == h.rooms[code].source
<1>1. "Host" \in Roles /\ "Join" \in Roles
  BY DEF Roles
<1>2. /\ Released(h1, h)
      /\ Owned(h1, ({code} \X Roles) \cup {<<code, "Host">>})
      /\ Unbound(h1, code, "Host")
  BY <1>1, CloseSeatReleases
<1>3. ({code} \X Roles) \cup {<<code, "Host">>} = {code} \X Roles
  BY <1>1
<1>4. /\ HubType(h1) /\ h1.rooms[code].phase # "None"
      /\ Owned(h1, {code} \X Roles)
  BY <1>2, <1>3 DEF Released
<1> HIDE DEF h1
<1>5. /\ Released(h2, h1)
      /\ Owned(h2, ({code} \X Roles) \cup {<<code, "Join">>})
      /\ Unbound(h2, code, "Join")
  BY <1>1, <1>4, CloseSeatReleases
<1>6. ({code} \X Roles) \cup {<<code, "Join">>} = {code} \X Roles
  BY <1>1
<1>7. Owned(h2, {code} \X Roles) /\ HubType(h2)
  BY <1>5, <1>6 DEF Released
<1> HIDE DEF h2
<1>8. Unbound(h2, code, "Host")
  <2>1. code # NoCode
    BY NonesAssumption
  <2> QED BY <2>1, <1>2, <1>5 DEF Unbound, Released
<1>9. \A role \in Roles : Unbound(h2, code, role)
  BY <1>5, <1>8 DEF Roles
<1>10. Good(h3)
  BY <1>7, <1>9, RoomRemoved
<1>11. source \in Sources \cup {NoSource}
  BY Members DEF Room
<1>12. CloseRoom(h, code, error) = SourceAdjust(h3, source, 0, -1)
  BY DEF CloseRoom, h2, h1
<1> HIDE DEF h3, source
<1>13. LET g == SourceAdjust(h3, source, 0, -1)
       IN  HubType(g) /\ g.conns = h3.conns /\ g.rooms = h3.rooms
  BY <1>10, <1>11, SourceAdjustType DEF Good
<1> QED BY <1>10, <1>12, <1>13 DEF Good, Owned

LEMMA SameGood ==
  ASSUME NEW g, NEW h, Good(h), Same(g, h)
  PROVE  Good(g)
BY SameOwned DEF Good, Same

LEMMA VacateSeatGood ==
  ASSUME NEW h, HubType(h), NEW code \in Codes, NEW role \in Roles,
         h.rooms[code].phase # "None", Owned(h, {<<code, role>>})
  PROVE  LET g == VacateSeat(h, code, role)
         IN  /\ Good(g)
             /\ g.rooms[code] = [h.rooms[code] EXCEPT !.seats[role] = EmptySeat]
             /\ g.sources = h.sources /\ g.issued = h.issued
<1> DEFINE c == SeatConn(h, code, role)
           closed == IF c = NoConn THEN h
                     ELSE CloseConn(Detach(h, c), c, "normal")
           g == SetSeat(closed, code, role, EmptySeat)
           excused == {<<code, role>>}
<1>1. closed = CloseSeat(h, code, role, "None")
  BY DEF CloseSeat
<1> HIDE DEF closed
<1>2. /\ excused \cup {<<code, role>>} = excused
      /\ excused \ {<<code, role>>} = {}
  OBVIOUS
<1>3. Owned(h, excused)
  OBVIOUS
<1> HIDE DEF excused
<1>4. /\ Released(closed, h)
      /\ Owned(closed, excused \cup {<<code, role>>})
      /\ Unbound(closed, code, role)
  BY <1>1, <1>3, CloseSeatReleases
<1>5. /\ HubType(closed) /\ EmptySeat \in Seat /\ ~EmptySeat.connected
      /\ Owned(closed, excused)
  BY <1>2, <1>4, RoomConstants DEF Released, EmptySeat
<1>6. /\ HubType(g)
      /\ Owned(g, excused \ {<<code, role>>})
      /\ g.rooms[code] = [closed.rooms[code] EXCEPT !.seats[role] = EmptySeat]
      /\ g.sources = closed.sources /\ g.issued = closed.issued
  <2> DEFINE empty == EmptySeat
  <2>1. HubType(closed) /\ Owned(closed, excused) /\ Unbound(closed, code, role)
    BY <1>4, <1>5
  <2>2. empty \in Seat /\ ~empty.connected
    BY <1>5
  <2> HIDE DEF empty
  <2>3. LET g1 == SetSeat(closed, code, role, empty)
        IN  /\ HubType(g1)
            /\ Owned(g1, excused \ {<<code, role>>})
            /\ g1.rooms[code] = [closed.rooms[code] EXCEPT !.seats[role] = empty]
            /\ g1.sources = closed.sources /\ g1.issued = closed.issued
    BY <2>1, <2>2, SeatFreed
  <2> QED BY <2>3 DEF empty
<1>7. VacateSeat(h, code, role) = g
  BY DEF VacateSeat, closed, SetSeat
<1> HIDE DEF g
<1> QED BY <1>2, <1>4, <1>6, <1>7 DEF Good, Released

LEMMA ReopenRoomGood ==
  ASSUME NEW h, Good(h), NEW code \in Codes, h.rooms[code].phase # "None"
  PROVE  Good(ReopenRoom(h, code))
<1> DEFINE room == [h.rooms[code] EXCEPT !.phase = "Waiting", !.idle = 0,
                                         !.seats["Host"].ready = FALSE]
<1>1. h.rooms[code] \in Room
  BY Members DEF Good
<1> DEFINE seats == h.rooms[code].seats
           host  == [seats["Host"] EXCEPT !.ready = FALSE]
           after == [seats EXCEPT !["Host"] = host]
<1>2. /\ seats \in [Roles -> Seat] /\ "Host" \in Roles
  BY <1>1 DEF Room, Roles
<1>4. /\ host \in Seat /\ host.present = seats["Host"].present
      /\ host.connected = seats["Host"].connected
      /\ host.conn = seats["Host"].conn
  BY <1>2 DEF Seat
<1> HIDE DEF host
<1>5. /\ after \in [Roles -> Seat]
      /\ \A role \in Roles : /\ after[role].present = seats[role].present
                             /\ after[role].connected = seats[role].connected
                             /\ after[role].conn = seats[role].conn
  BY <1>2, <1>4
<1>6. /\ room.seats = after /\ room.phase = "Waiting"
      /\ room = [h.rooms[code] EXCEPT !.phase = "Waiting", !.idle = 0,
                                      !.seats = after]
  BY <1>1 DEF Room, host
<1> HIDE DEF after, seats
<1>7. room \in Room /\ SameSeating(room, h.rooms[code])
  BY <1>1, <1>5, <1>6 DEF Room, SameSeating, Phases, seats
<1>3. ReopenRoom(h, code) = [h EXCEPT !.rooms[code] = room]
  BY DEF ReopenRoom
<1> HIDE DEF room
<1> QED BY <1>7, <1>3, SeatingKept

LEMMA GiveUpResultGood ==
  ASSUME NEW h, Good(h), NEW code \in Codes, NEW role
  PROVE  /\ Good(GiveUpResult(h, code, role))
         /\ GiveUpResult(h, code, role).rooms[code].phase = h.rooms[code].phase
<1> DEFINE room == [h.rooms[code] EXCEPT !.result_acked = TRUE]
           g == [h EXCEPT !.rooms[code] = room]
<1>1. h.rooms[code] \in Room
  BY Members DEF Good
<1>2. /\ room \in Room /\ SameSeating(room, h.rooms[code])
      /\ room.phase = h.rooms[code].phase
  BY <1>1 DEF Room, SameSeating
<1>3. [h EXCEPT !.rooms[code].result_acked = TRUE] = g
  BY DEF Good, HubType
<1>4. g.rooms[code] = room
  BY DEF Good, HubType
<1> HIDE DEF room
<1>5. Good(g)
  BY <1>2, SeatingKept
<1> HIDE DEF g
<1> QED BY <1>2, <1>3, <1>4, <1>5 DEF GiveUpResult

LEMMA SeatDepartedGood ==
  ASSUME NEW h, HubType(h), NEW code \in Codes, NEW role \in Roles,
         h.rooms[code].phase # "None", Owned(h, {<<code, role>>}), NEW reason
  PROVE  Good(SeatDeparted(h, code, role, reason))
<1> DEFINE room    == h.rooms[code]
           vacated == VacateSeat(h, code, role)
           acked   == GiveUpResult(vacated, code, role)
           why     == IF role = "Host" THEN "host_left" ELSE reason
           told    == SendTo(vacated, code, Partner(role), PartnerLeft(why))
           opened  == SendTo(ReopenRoom(vacated, code), code, "Host",
                             PartnerLeft(reason))
<1>1. CASE ~room.seats[role].present
  <2>1. OwnedIn(h.conns, h.rooms, {<<code, role>>})
    BY DEF Owned
  <2>2. ASSUME NEW x \in Codes, NEW r \in Roles
        PROVE  Backed(h.conns, h.rooms, {}, x, r)
    <3>1. Backed(h.conns, h.rooms, {<<code, role>>}, x, r)
      BY <2>1 DEF OwnedIn
    <3>2. CASE x = code /\ r = role
      BY <3>1, <3>2, <1>1 DEF Backed
    <3>3. CASE ~(x = code /\ r = role)
      <4>1. <<x, r>> \notin {<<code, role>>}
        BY <3>3
      <4> QED BY <3>1, <4>1 DEF Backed
    <3> QED BY <3>2, <3>3
  <2> QED BY <1>1, <2>1, <2>2 DEF SeatDeparted, Good, Owned, OwnedIn
<1>2. CASE room.seats[role].present
  <2>1. Good(vacated) /\ vacated.rooms[code].phase # "None"
    <3>1. Good(vacated) /\ vacated.rooms[code] =
                             [h.rooms[code] EXCEPT !.seats[role] = EmptySeat]
      BY VacateSeatGood
    <3>2. h.rooms[code] \in Room
      BY Members
    <3> QED BY <3>1, <3>2 DEF Room
  <2> HIDE DEF vacated
  <2>2. ASSUME NEW g, Good(g), g.rooms[code].phase # "None"
        PROVE  Good(CloseRoom(g, code, "None"))
    <3>1. Owned(g, {code} \X Roles)
      BY <2>2, OwnedMore DEF Good
    <3> QED BY <2>2, <3>1, CloseRoomGood DEF Good
  <2>3. Good(acked) /\ Good(CloseRoom(acked, code, "None"))
    BY <2>1, <2>2, GiveUpResultGood
  <2>4. Good(CloseRoom(told, code, "None"))
    <3>1. Same(told, vacated)
      BY <2>1, SendToSame DEF Good
    <3>2. Good(told)
      BY <2>1, <3>1, SameGood
    <3> QED BY <2>1, <2>2, <3>1, <3>2 DEF Same
  <2>5. Good(BroadcastLobby(opened, code))
    <3>1. Good(ReopenRoom(vacated, code))
      BY <2>1, ReopenRoomGood
    <3>2. Same(opened, ReopenRoom(vacated, code))
      BY <3>1, SendToSame DEF Good
    <3>3. Good(opened)
      BY <3>1, <3>2, SameGood
    <3>4. Same(BroadcastLobby(opened, code), opened)
      BY <3>3, BroadcastLobbySame DEF Good
    <3> QED BY <3>3, <3>4, SameGood
  <2> HIDE DEF acked, told, opened
  <2>6. SeatDeparted(h, code, role, reason) =
          IF room.phase = "Ended"
          THEN IF acked.rooms[code].result_acked
               THEN CloseRoom(acked, code, "None") ELSE acked
          ELSE IF EndsRoom(room, role) THEN CloseRoom(told, code, "None")
          ELSE BroadcastLobby(opened, code)
    BY <1>2 DEF SeatDeparted, acked, told, opened, vacated
  <2> QED BY <2>3, <2>4, <2>5, <2>6
<1> QED BY <1>1, <1>2

-----------------------------------------------------------------------------
(* A seat that is taken *)

LEMMA SeatTaken ==
  ASSUME NEW g, NEW h, HubType(g), HubType(h),
         NEW code \in Codes, NEW role \in Roles, NEW c \in Conns,
         NEW conn \in Conn, NEW room \in Room,
         Owned(h, {<<code, role>>}), Unbound(h, code, role),
         h.conns[c].room = NoCode,
         g.conns = [h.conns EXCEPT ![c] = conn],
         g.rooms = [h.rooms EXCEPT ![code] = room],
         Speaks(conn), conn.room = code, conn.role = role,
         room.phase # "None",
         room.seats[role].present, room.seats[role].connected,
         room.seats[role].conn = c,
         \A r \in Roles \ {role} :
           IF h.rooms[code].phase = "None" THEN ~room.seats[r].connected
           ELSE /\ room.seats[r].present = h.rooms[code].seats[r].present
                /\ room.seats[r].connected = h.rooms[code].seats[r].connected
                /\ room.seats[r].conn = h.rooms[code].seats[r].conn
  PROVE  Good(g)
<1>1. /\ g.conns[c] = conn
      /\ \A x \in Conns : x # c => g.conns[x] = h.conns[x]
      /\ g.rooms[code] = room
      /\ \A x \in Codes : x # code => g.rooms[x] = h.rooms[x]
  <2>1. DOMAIN h.conns = Conns /\ DOMAIN h.rooms = Codes
    BY DEF HubType
  <2> QED BY <2>1
<1>2. OwnedIn(h.conns, h.rooms, {<<code, role>>})
  BY DEF Owned
<1>3. code # NoCode
  BY NonesAssumption
<1>4. ASSUME NEW x \in Conns
      PROVE  Seated(g.conns, g.rooms, x) /\ Bound(g.conns, x)
  <2>1. CASE x = c
    BY <1>1, <1>3, <2>1 DEF Seated, Bound
  <2>2. CASE x # c
    <3>1. g.conns[x] = h.conns[x]
      BY <1>1, <2>2
    <3>2. Seated(h.conns, h.rooms, x) /\ Bound(h.conns, x)
      BY <1>2 DEF OwnedIn
    <3>3. h.conns[x].room \in Codes \cup {NoCode}
      BY DEF HubType, Conn
    <3>4. CASE h.conns[x].room = NoCode
      BY <3>1, <3>2, <3>4 DEF Seated, Bound
    <3>5. CASE h.conns[x].room = code
      <4>1. /\ h.conns[x].role \in Roles \ {role}
            /\ h.rooms[code].phase # "None"
        BY <1>3, <3>2, <3>5 DEF Seated, Unbound
      <4> DEFINE r == h.conns[x].role
      <4>2. /\ room.seats[r].present = h.rooms[code].seats[r].present
            /\ room.seats[r].connected = h.rooms[code].seats[r].connected
            /\ room.seats[r].conn = h.rooms[code].seats[r].conn
        BY <4>1
      <4>3. /\ h.rooms[code].seats[r].present /\ h.rooms[code].seats[r].connected
            /\ h.rooms[code].seats[r].conn = x
            /\ Speaks(h.conns[x])
        BY <1>3, <3>2, <3>5 DEF Seated
      <4>4. g.rooms[code] = room
        BY <1>1
      <4>5. g.conns[x].room = code /\ g.conns[x].role = r /\ r \in Roles
        BY <3>1, <3>5, <4>1
      <4> HIDE DEF r
      <4> QED BY <1>3, <3>1, <4>2, <4>3, <4>4, <4>5 DEF Seated, Bound
    <3>6. CASE h.conns[x].room # NoCode /\ h.conns[x].room # code
      <4>1. g.rooms[h.conns[x].room] = h.rooms[h.conns[x].room]
        BY <1>1, <3>3, <3>6
      <4>2. Seated(h.conns, g.rooms, x)
        BY <3>2, <4>1 DEF Seated
      <4> QED BY <3>1, <3>2, <4>2 DEF Seated, Bound
    <3> QED BY <3>4, <3>5, <3>6
  <2> QED BY <2>1, <2>2
<1>5. ASSUME NEW x \in Codes, NEW r \in Roles
      PROVE  Backed(g.conns, g.rooms, {}, x, r)
  <2>1. CASE x = code /\ r = role
    BY <1>1, <2>1 DEF Backed
  <2>2. CASE ~(x = code /\ r = role)
    <3> DEFINE s == h.rooms[x].seats[r]
               s1 == g.rooms[x].seats[r]
    <3>1. \/ ~s1.connected
          \/ /\ s1.present = s.present /\ s1.connected = s.connected
             /\ s1.conn = s.conn
             /\ g.rooms[x].phase # "None" => h.rooms[x].phase # "None"
      <4>1. CASE x = code
        BY <1>1, <2>2, <4>1
      <4>2. CASE x # code
        BY <1>1, <4>2
      <4> QED BY <4>1, <4>2
    <3>2. Backed(h.conns, h.rooms, {<<code, role>>}, x, r)
      BY <1>2 DEF OwnedIn
    <3>3. <<x, r>> \notin {<<code, role>>}
      BY <2>2
    <3>5. CASE /\ s1.connected /\ g.rooms[x].phase # "None"
      <4>1. /\ s.present /\ s.conn \in Conns
            /\ h.conns[s.conn].room = x /\ h.conns[s.conn].role = r
        BY <3>1, <3>2, <3>3, <3>5 DEF Backed
      <4>2. x # NoCode
        BY NonesAssumption
      <4>3. g.conns[s.conn] = h.conns[s.conn]
        BY <1>1, <4>1, <4>2
      <4>4. s1.present /\ s1.conn = s.conn
        BY <3>1, <3>5, <4>1
      <4>5. s1.conn \in Conns /\ g.conns[s1.conn].room = x /\ g.conns[s1.conn].role = r
        <5>1. s1.conn = s.conn
          BY <4>4
        <5> HIDE DEF s, s1
        <5> QED
          BY <4>1, <4>3, <5>1
      <4>6. s1.present
        BY <4>4
      <4> QED BY SMTT(30), <4>5, <4>6 DEF Backed
    <3>6. CASE ~(s1.connected /\ g.rooms[x].phase # "None")
      BY <3>6 DEF Backed
    <3> QED BY <3>5, <3>6
  <2> QED BY <2>1, <2>2
<1> QED BY <1>4, <1>5 DEF Good, Owned, OwnedIn


-----------------------------------------------------------------------------
(* Leaving *)

\* A connection bound to a room holds the seat it is bound to.
LEMMA BoundSeat ==
  ASSUME NEW h, Good(h), NEW c \in Conns, h.conns[c].room # NoCode
  PROVE  /\ h.conns[c].room \in Codes /\ h.conns[c].role \in Roles
         /\ h.rooms[h.conns[c].room].phase # "None"
         /\ Exists(h, h.conns[c].room)
         /\ SeatOf(h, c).present /\ SeatOf(h, c).connected
         /\ SeatOf(h, c).conn = c
         /\ Speaks(h.conns[c])
<1>1. Seated(h.conns, h.rooms, c)
  BY DEF Good, Owned, OwnedIn
<1>2. h.conns[c].room \in Codes \cup {NoCode}
  BY Members DEF Good, Conn
<1> QED BY <1>1, <1>2 DEF Seated, Exists, SeatOf

LEMMA FatalUnboundGood ==
  ASSUME NEW h, Good(h), NEW c \in Conns, h.conns[c].room = NoCode, NEW code
  PROVE  Good(FatalUnbound(Detach(h, c), c, code))
<1> DEFINE g == FatalUnbound(Detach(h, c), c, code)
<1>1. Dropped(g, h, c)
  BY DropClose DEF Good
<1> HIDE DEF g
<1>2. Owned(g, {})
  BY <1>1, DroppedOwned DEF Good
<1> QED BY <1>1, <1>2 DEF Good, Dropped, g

\* A seat whose connection was just dropped.
LEMMA DroppedSeat ==
  ASSUME NEW g, NEW h, Good(h), NEW c \in Conns, Dropped(g, h, c),
         h.conns[c].room # NoCode
  PROVE  LET code == h.conns[c].room
             role == h.conns[c].role
         IN  /\ HubType(g) /\ g.rooms = h.rooms
             /\ Owned(g, {<<code, role>>}) /\ Unbound(g, code, role)
<1> DEFINE code == h.conns[c].room
           role == h.conns[c].role
<1>1. /\ code \in Codes /\ role \in Roles /\ code # NoCode
      /\ h.rooms[code].phase # "None"
  BY BoundSeat
<1>2. {} \cup {<<code, role>>} = {<<code, role>>}
  OBVIOUS
<1>3. Owned(g, {<<code, role>>})
  <2>1. Owned(g, {} \cup {<<code, role>>})
    <3>1. HubType(h) /\ Owned(h, {})
      BY DEF Good
    <3> HIDE DEF code, role
    <3> QED BY <1>1, <3>1, DroppedOwned DEF code, role
  <2> QED BY <1>2, <2>1
<1>4. Unbound(g, code, role)
  <2>1. ASSUME NEW x \in Conns, g.conns[x].room = code, g.conns[x].role = role
        PROVE  FALSE
    <3>1. Released(g, h) /\ g.conns[c].room = NoCode
      BY DroppedReleased DEF Good
    <3>2. x # c /\ g.conns[x] = h.conns[x]
      BY <1>1, <2>1, <3>1 DEF Released
    <3>3. Seated(h.conns, h.rooms, x) /\ Seated(h.conns, h.rooms, c)
      BY DEF Good, Owned, OwnedIn
    <3>4. h.conns[x].room = code /\ h.conns[x].role = role
      BY <2>1, <3>2
    <3> QED BY <1>1, <3>2, <3>3, <3>4 DEF Seated
  <2> QED BY <2>1 DEF Unbound
<1>5. HubType(g) /\ g.rooms = h.rooms
  BY DEF Dropped
<1> QED BY <1>3, <1>4, <1>5

LEMMA FatalGood ==
  ASSUME NEW h, Good(h), NEW c \in Conns, NEW code
  PROVE  Good(Fatal(h, c, code))
<1> DEFINE room  == h.conns[c].room
           role  == h.conns[c].role
           ended == FatalUnbound(Detach(h, c), c, code)
<1>1. CASE h.conns[c].closing
  BY <1>1 DEF Fatal
<1>2. CASE ~h.conns[c].closing /\ room = NoCode
  <2>1. Good(ended)
    BY <1>2, FatalUnboundGood
  <2>2. ~Exists(h, room)
    BY <1>2 DEF Exists
  <2> QED BY <1>2, <2>1, <2>2 DEF Fatal
<1>3. CASE ~h.conns[c].closing /\ room # NoCode
  <2> DEFINE seat == [ended.rooms[room].seats[role] EXCEPT !.connected = FALSE]
             left == SetSeat(ended, room, role, seat)
             few  == {<<room, role>>}
  <2>1. /\ room \in Codes /\ role \in Roles /\ h.rooms[room].phase # "None"
        /\ Exists(h, room) /\ SeatOf(h, c).present /\ SeatOf(h, c).conn = c
    BY <1>3, BoundSeat
  <2>2. Dropped(ended, h, c)
    BY DropClose DEF Good
  <2> HIDE DEF ended
  <2>3. /\ HubType(ended) /\ ended.rooms = h.rooms
        /\ Owned(ended, few) /\ Unbound(ended, room, role)
    BY <1>3, <2>2, DroppedSeat
  <2>4. seat \in Seat /\ ~seat.connected
    <3>1. ended.rooms[room].seats[role] \in Seat
      BY <2>1, <2>3, Members
    <3> QED BY <3>1 DEF Seat
  <2>5. left = [ended EXCEPT !.rooms[room].seats[role].connected = FALSE]
    <3>1. /\ ended.rooms \in [Codes -> Room] /\ ended.rooms[room] \in Room
      BY <2>1, <2>3 DEF HubType
    <3> QED BY <3>1 DEF SetSeat
  <2> HIDE DEF seat
  <2>6. /\ HubType(left)
        /\ Owned(left, few \ {<<room, role>>})
        /\ left.rooms[room] =
             [ended.rooms[room] EXCEPT !.seats[role] = seat]
    <3>1. /\ ended.rooms = h.rooms /\ room \in Codes /\ role \in Roles
      BY <2>1, <2>3
    <3>2. HubType(ended) /\ Owned(ended, few) /\ Unbound(ended, room, role)
      BY <2>3
    <3> HIDE DEF few, room, role
    <3> QED BY <2>4, <3>1, <3>2, SeatFreed DEF left
  <2>7. left.rooms[room].phase # "None"
    <3>1. h.rooms[room] \in Room
      BY <2>1, Members DEF Good
    <3>2. left.rooms[room].phase = ended.rooms[room].phase
      <4>1. ended.rooms[room] \in Room
        BY <2>1, <2>3, Members
      <4> QED BY <2>6, <4>1 DEF Room
    <3> QED BY <2>1, <2>3, <3>2
  <2> HIDE DEF left
  <2>8. Owned(left, few)
    <3>1. few \ {<<room, role>>} \subseteq few
      OBVIOUS
    <3> HIDE DEF few
    <3> QED BY <2>6, <3>1, OwnedMore
  <2>9. Good(SeatDeparted(left, room, role, "left"))
    BY <2>1, <2>6, <2>7, <2>8, SeatDepartedGood
  <2> QED BY <1>3, <2>1, <2>5, <2>9 DEF Fatal, ended
<1> QED BY <1>1, <1>2, <1>3

LEMMA NoteInvalidGood ==
  ASSUME NEW h, Good(h), NEW c \in Conns
  PROVE  Good(NoteInvalid(h, c))
<1> DEFINE conn == [h.conns[c] EXCEPT !.invalid = @ + 1]
           counted == [h EXCEPT !.conns[c] = conn]
<1>1. h.conns[c] \in Conn
  BY Members DEF Good
<1>2. /\ conn \in Conn /\ conn.open = h.conns[c].open
      /\ conn.hello_done = h.conns[c].hello_done
      /\ conn.closing = h.conns[c].closing /\ conn.room = h.conns[c].room
      /\ conn.role = h.conns[c].role
  BY <1>1 DEF Conn
<1>3. counted = [h EXCEPT !.conns[c].invalid = @ + 1]
  BY DEF Good, HubType
<1> HIDE DEF conn
<1>4. Good(counted)
  BY <1>2, ConnKept
<1> HIDE DEF counted
<1> QED BY <1>3, <1>4, FatalGood DEF NoteInvalid

LEMMA RejectGood ==
  ASSUME NEW h, Good(h), NEW c \in Conns, NEW code
  PROVE  Good(Reject(h, c, code))
<1>1. Good(Send(h, c, Error(code, FALSE)))
  BY SendSame, SameGood DEF Good
<1> QED BY <1>1, NoteInvalidGood DEF Reject

LEMMA SendGood ==
  ASSUME NEW h, Good(h), NEW c, NEW m
  PROVE  Good(Send(h, c, m))
BY SendSame, SameGood DEF Good

LEMMA SendToGood ==
  ASSUME NEW h, Good(h), NEW code, NEW role, NEW m
  PROVE  Good(SendTo(h, code, role, m))
BY SendToSame, SameGood DEF Good

LEMMA BroadcastLobbyGood ==
  ASSUME NEW h, Good(h), NEW code
  PROVE  Good(BroadcastLobby(h, code))
BY BroadcastLobbySame, SameGood DEF Good

LEMMA SeatLostGood ==
  ASSUME NEW h, HubType(h), NEW code \in Codes, NEW role \in Roles,
         Owned(h, {<<code, role>>}), Unbound(h, code, role)
  PROVE  Good(SeatLost(h, code, role))
<1> DEFINE seat == [h.rooms[code].seats[role] EXCEPT
                      !.connected = FALSE, !.conn = NoConn, !.lost = 0]
           held == SetSeat(h, code, role, seat)
           told == SendTo(held, code, Partner(role),
                          [t |-> "partner_disconnected"])
           few  == {<<code, role>>}
<1>1. h.rooms[code].seats[role] \in Seat
  BY Members
<1>2. seat \in Seat /\ ~seat.connected
  BY <1>1 DEF Seat
<1>3. held = [h EXCEPT !.rooms[code].seats[role] =
                [@ EXCEPT !.connected = FALSE, !.conn = NoConn, !.lost = 0]]
  BY DEF SetSeat, HubType, Room
<1> HIDE DEF seat
<1>4. few \ {<<code, role>>} = {} /\ Owned(h, few)
  OBVIOUS
<1> HIDE DEF few
<1>5. Good(held)
  <2>1. HubType(held) /\ Owned(held, few \ {<<code, role>>})
    BY <1>2, <1>4, SeatFreed
  <2> HIDE DEF held
  <2> QED BY <1>4, <2>1 DEF Good
<1> HIDE DEF held
<1>6. Good(told) /\ Good(BroadcastLobby(told, code))
  BY <1>5, SendToGood, BroadcastLobbyGood
<1> QED BY <1>3, <1>5, <1>6 DEF SeatLost

-----------------------------------------------------------------------------
(* Edits that leave every seat with its owner *)

LEMMA TouchGood ==
  ASSUME NEW h, Good(h), NEW code \in Codes
  PROVE  Good(Touch(h, code))
<1> DEFINE room == [h.rooms[code] EXCEPT !.idle = 0]
<1>1. h.rooms[code] \in Room
  BY Members DEF Good
<1>2. room \in Room /\ SameSeating(room, h.rooms[code])
  BY <1>1 DEF Room, SameSeating
<1>3. Touch(h, code) = [h EXCEPT !.rooms[code] = room]
  BY DEF Touch, Good, HubType
<1> HIDE DEF room
<1> QED BY <1>2, <1>3, SeatingKept

\* A seat edit that changes neither its occupant nor its socket.
LEMMA SeatEdited ==
  ASSUME NEW h, Good(h), NEW code \in Codes, NEW role \in Roles,
         NEW seat \in Seat, seat.present = h.rooms[code].seats[role].present,
         seat.connected = h.rooms[code].seats[role].connected,
         seat.conn = h.rooms[code].seats[role].conn
  PROVE  /\ [h.rooms[code] EXCEPT !.seats[role] = seat] \in Room
         /\ SameSeating([h.rooms[code] EXCEPT !.seats[role] = seat], h.rooms[code])
         /\ Good(SetSeat(h, code, role, seat))
<1> DEFINE room == [h.rooms[code] EXCEPT !.seats[role] = seat]
<1>1. h.rooms[code] \in Room
  BY Members DEF Good
<1>2. /\ room \in Room /\ room.phase = h.rooms[code].phase
      /\ room.seats = [h.rooms[code].seats EXCEPT ![role] = seat]
      /\ h.rooms[code].seats \in [Roles -> Seat]
  BY <1>1 DEF Room
<1>3. SetSeat(h, code, role, seat) = [h EXCEPT !.rooms[code] = room]
  BY DEF SetSeat, Good, HubType
<1> HIDE DEF room
<1>4. SameSeating(room, h.rooms[code])
  BY <1>2 DEF SameSeating
<1> QED BY <1>2, <1>3, <1>4, SeatingKept DEF room

\* A change of phase before or after which the room exists.
LEMMA PhaseGood ==
  ASSUME NEW h, Good(h), NEW code \in Codes, NEW phase \in Phases,
         h.rooms[code].phase # "None"
  PROVE  Good([h EXCEPT !.rooms[code].phase = phase])
<1> DEFINE room == [h.rooms[code] EXCEPT !.phase = phase]
<1>1. h.rooms[code] \in Room
  BY Members DEF Good
<1>2. room \in Room /\ SameSeating(room, h.rooms[code])
  BY <1>1 DEF Room, SameSeating, Phases
<1>3. [h EXCEPT !.rooms[code].phase = phase] = [h EXCEPT !.rooms[code] = room]
  BY DEF Good, HubType
<1> HIDE DEF room
<1> QED BY <1>2, <1>3, SeatingKept

LEMMA StartOrBroadcastGood ==
  ASSUME NEW h, Good(h), NEW code \in Codes, h.rooms[code].phase # "None"
  PROVE  Good(StartOrBroadcast(h, code))
<1> DEFINE room   == h.rooms[code]
           active == [h EXCEPT !.rooms[code].phase = "Active"]
           told   == Send(active, room.seats["Host"].conn, StartOf(room))
<1>1. Good(active)
  BY PhaseGood DEF Phases
<1> HIDE DEF active
<1>2. Good(told)
  BY <1>1, SendGood
<1> HIDE DEF told
<1>3. /\ Good(Send(told, room.seats["Join"].conn, StartOf(room)))
      /\ Good(BroadcastLobby(h, code))
  BY <1>2, SendGood, BroadcastLobbyGood
<1> QED BY <1>3 DEF StartOrBroadcast, told, active

-----------------------------------------------------------------------------
(* Hello *)

\* The room before, with c in the seat of role.
Takes(room, before, role, c) ==
  /\ room \in Room /\ room.phase # "None"
  /\ room.seats[role].present /\ room.seats[role].connected
  /\ room.seats[role].conn = c
  /\ \A r \in Roles \ {role} :
       IF before.phase = "None" THEN ~room.seats[r].connected
       ELSE /\ room.seats[r].present = before.seats[r].present
            /\ room.seats[r].connected = before.seats[r].connected
            /\ room.seats[r].conn = before.seats[r].conn

\* The seat is nobody's, whatever it says.
Free(h, code, role) ==
  HubType(h) /\ Owned(h, {<<code, role>>}) /\ Unbound(h, code, role)

\* The connection may be given a seat.
Unseated(conn) == conn.room = NoCode /\ conn.open /\ ~conn.closing

LEMMA BindGood ==
  ASSUME NEW h, NEW g, NEW code \in Codes, NEW role \in Roles, NEW c \in Conns,
         NEW room, NEW resumed,
         Free(h, code, role), Unseated(h.conns[c]),
         HubType(g), g.conns = h.conns,
         g.rooms = [h.rooms EXCEPT ![code] = room],
         Takes(room, h.rooms[code], role, c)
  PROVE  /\ Good(Bind(g, c, code, role, resumed))
         /\ Bind(g, c, code, role, resumed).rooms = g.rooms
<1> DEFINE conn == [g.conns[c] EXCEPT !.hello_done = TRUE, !.room = code,
                                      !.role = role]
           b == [g EXCEPT !.conns[c] = conn]
           welcome == [t |-> "welcome", room |-> code, role |-> role,
                       token |-> g.rooms[code].seats[role].token,
                       resumed |-> resumed, phase |-> g.rooms[code].phase]
<1>1. h.conns[c] \in Conn
  BY Members DEF Free
<1>2. conn \in Conn /\ Speaks(conn) /\ conn.room = code /\ conn.role = role
  BY <1>1 DEF Conn, Speaks, Unseated
<1>3. Bind(g, c, code, role, resumed) = Send(b, c, welcome)
  BY DEF Bind, HubType
<1> HIDE DEF conn, welcome
<1>4. HubType(b) /\ b.conns = [h.conns EXCEPT ![c] = conn] /\ b.rooms = g.rooms
  BY <1>2, ConnType
<1> HIDE DEF b
<1>5. Good(b)
  BY <1>2, <1>4, SeatTaken DEF Free, Takes, Unseated
<1>6. Same(Send(b, c, welcome), b)
  BY <1>4, SendSame
<1> QED BY <1>3, <1>4, <1>5, <1>6, SameGood DEF Same

FreshSeat(h, c) ==
  [EmptySeat EXCEPT !.present = TRUE, !.connected = TRUE, !.conn = c,
                    !.token = h.issued + 1]

LEMMA FreshSeatType ==
  ASSUME NEW h, HubType(h), NEW c \in Conns
  PROVE  /\ FreshSeat(h, c) \in Seat
         /\ FreshSeat(h, c).present /\ FreshSeat(h, c).connected
         /\ FreshSeat(h, c).conn = c
         /\ ~FreshSeat(h, c).admitted /\ ~FreshSeat(h, c).ready
<1> DEFINE token == h.issued + 1
<1>1. token \in Nat
  BY DEF HubType
<1>2. EmptySeat \in Seat
  BY RoomConstants
<1>3. FreshSeat(h, c) = [EmptySeat EXCEPT !.present = TRUE, !.connected = TRUE,
                                          !.conn = c, !.token = token]
  BY DEF FreshSeat
<1>4. ~EmptySeat.admitted /\ ~EmptySeat.ready
  BY DEF EmptySeat
<1> HIDE DEF token
<1> QED BY <1>1, <1>2, <1>3, <1>4 DEF Seat

LEMMA SeatFillType ==
  ASSUME NEW h, HubType(h), NEW code \in Codes, NEW role \in Roles,
         NEW c \in Conns
  PROVE  LET g == SeatFill(h, code, role, c)
         IN  /\ HubType(g) /\ g.conns = h.conns /\ g.sources = h.sources
             /\ g.rooms = [h.rooms EXCEPT ![code] =
                  [h.rooms[code] EXCEPT !.seats[role] = FreshSeat(h, c)]]
<1> DEFINE seat == FreshSeat(h, c)
           room == [h.rooms[code] EXCEPT !.seats[role] = seat]
           g == [h EXCEPT !.rooms[code] = room, !.issued = @ + 1]
<1>1. seat \in Seat
  BY FreshSeatType
<1>2. SeatFill(h, code, role, c) = g
  BY DEF SeatFill, FreshSeat, HubType
<1> HIDE DEF seat
<1>3. h.rooms[code] \in Room
  BY Members
<1>4. room \in Room
  BY <1>1, <1>3 DEF Room
<1>5. room = [h.rooms[code] EXCEPT !.seats[role] = FreshSeat(h, c)]
  BY DEF seat
<1> HIDE DEF room
<1>6. /\ HubType(g) /\ g.conns = h.conns /\ g.sources = h.sources
      /\ g.rooms = [h.rooms EXCEPT ![code] = room]
  <2> DEFINE f == [h EXCEPT !.rooms[code] = room]
  <2>1. /\ HubType(f) /\ f.conns = h.conns /\ f.sources = h.sources
        /\ f.rooms = [h.rooms EXCEPT ![code] = room]
    BY <1>4, RoomType
  <2>2. g = [f EXCEPT !.issued = @ + 1]
    BY DEF HubType
  <2> HIDE DEF f, g
  <2>3. f.issued + 1 \in Nat /\ g = [f EXCEPT !.issued = f.issued + 1]
    BY <2>1, <2>2 DEF HubType
  <2>4. /\ g \in [conns: [Conns -> Conn], rooms: [Codes -> Room],
                  sources: [Sources -> [conns: Nat, rooms: Nat]], issued: Nat,
                  out: {g.out}]
        /\ g.conns = f.conns /\ g.sources = f.sources /\ g.rooms = f.rooms
    BY <2>1, <2>3 DEF HubType
  <2> QED BY <2>1, <2>4 DEF HubType
<1> HIDE DEF g
<1> QED BY <1>2, <1>5, <1>6

\* h with the room a host opens.
Opened(h, c, hello) ==
  LET code    == hello.room
      source  == h.conns[c].source
      created == SourceAdjust(
                   [h EXCEPT !.rooms[code] = NewRoom(hello.game, source)],
                   source, 0, 1)
      filled  == SeatFill(created, code, "Host", c)
  IN  [filled EXCEPT !.rooms[code].seats["Host"].admitted = TRUE]

\* g is that hub, and all that is left is to answer the host.
OpenedFor(h, c, hello, room, g) ==
  /\ g = Opened(h, c, hello)
  /\ HostHello(h, c, hello) =
       BroadcastLobby(Bind(g, c, hello.room, "Host", FALSE), hello.room)
  /\ HubType(g) /\ g.conns = h.conns
  /\ g.rooms = [h.rooms EXCEPT ![hello.room] = room]
  /\ room.phase = "Waiting" /\ room.result = NoResult
  /\ room.seats["Host"].present /\ room.seats["Host"].connected
  /\ room.seats["Host"].conn = c /\ room.seats["Host"].admitted
  /\ ~room.seats["Host"].ready
  /\ ~room.seats["Join"].present /\ ~room.seats["Join"].connected

LEMMA HostHelloRoom ==
  ASSUME NEW h, HubType(h), NEW c \in Conns,
         NEW hello, hello.room \in Codes, hello.game \in Games
  PROVE  \E room \in Room : \E g : OpenedFor(h, c, hello, room, g)
<1> DEFINE code    == hello.room
           source  == h.conns[c].source
           new     == NewRoom(hello.game, source)
           opened  == [h EXCEPT !.rooms[code] = new]
           created == SourceAdjust(opened, source, 0, 1)
           filled  == SeatFill(created, code, "Host", c)
           fresh   == FreshSeat(created, c)
           seat    == [fresh EXCEPT !.admitted = TRUE]
           room    == [new EXCEPT !.seats["Host"] = seat]
           host    == [filled EXCEPT !.rooms[code].seats["Host"].admitted = TRUE]
<1>1. source \in Sources \cup {NoSource} /\ "Host" \in Roles
  BY Members DEF Conn, Roles
<1>2. /\ new \in Room /\ new.phase = "Waiting" /\ new.result = NoResult
      /\ \A r \in Roles : ~new.seats[r].connected /\ ~new.seats[r].present
  BY <1>1, RoomConstants DEF NewRoom, EmptySeat
<1>3. /\ HostHello(h, c, hello) = BroadcastLobby(Bind(host, c, code, "Host", FALSE), code)
      /\ host = Opened(h, c, hello)
  BY DEF HostHello, Opened
<1> HIDE DEF new
<1>4. /\ HubType(opened) /\ opened.conns = h.conns
      /\ opened.rooms = [h.rooms EXCEPT ![code] = new]
  BY <1>2, RoomType
<1> HIDE DEF opened
<1>5. /\ HubType(created) /\ created.conns = h.conns
      /\ created.rooms = [h.rooms EXCEPT ![code] = new]
  <2>1. 0 \in Int /\ 1 \in Int
    OBVIOUS
  <2> HIDE DEF source
  <2>2. LET g == SourceAdjust(opened, source, 0, 1)
        IN  HubType(g) /\ g.conns = opened.conns /\ g.rooms = opened.rooms
    BY <1>1, <1>4, <2>1, SourceAdjustType
  <2> QED BY <1>4, <2>2
<1> HIDE DEF created
<1>6. /\ HubType(filled) /\ filled.conns = h.conns
      /\ filled.rooms = [created.rooms EXCEPT ![code] =
           [created.rooms[code] EXCEPT !.seats["Host"] = fresh]]
  BY <1>1, <1>5, SeatFillType
<1>7. /\ fresh \in Seat /\ fresh.present /\ fresh.connected /\ fresh.conn = c
      /\ ~fresh.ready
  BY <1>5, FreshSeatType
<1> HIDE DEF filled, fresh
<1>8. /\ seat \in Seat /\ seat.present /\ seat.connected /\ seat.conn = c
      /\ seat.admitted /\ ~seat.ready
  BY <1>7 DEF Seat
<1> HIDE DEF seat
<1>9. DOMAIN h.rooms = Codes /\ new.seats \in [Roles -> Seat]
  BY <1>2 DEF HubType, Room
<1>10. /\ created.rooms[code] = new
       /\ filled.rooms[code] = [new EXCEPT !.seats["Host"] = fresh]
  BY <1>5, <1>6, <1>9
<1>11. /\ room \in Room /\ room.phase = "Waiting" /\ room.result = NoResult
       /\ room.seats["Host"] = seat
       /\ \A r \in Roles \ {"Host"} : room.seats[r] = new.seats[r]
  BY <1>1, <1>2, <1>8, <1>9 DEF Room
<1>12. HubType(host) /\ host.conns = h.conns
       /\ host.rooms = [h.rooms EXCEPT ![code] = room]
  <2> DEFINE r1 == [filled.rooms[code] EXCEPT !.seats["Host"].admitted = TRUE]
  <2>1. r1 = room
    <3>1. [fresh EXCEPT !.admitted = TRUE] = seat
      BY DEF seat
    <3> DEFINE r0 == filled.rooms[code]
    <3>2. /\ r0 \in Room /\ r0.seats["Host"] = fresh
          /\ room = [r0 EXCEPT !.seats["Host"] = seat]
      BY <1>1, <1>2, <1>6, <1>7, <1>9, <1>10 DEF Room
    <3> HIDE DEF r0, room
    <3> QED BY <3>1, <3>2 DEF Room, r0
  <2>2. host = [filled EXCEPT !.rooms[code] = r1]
    BY <1>6 DEF HubType
  <2> HIDE DEF r1, room
  <2>3. host = [filled EXCEPT !.rooms[code] = room]
    BY <2>1, <2>2
  <2>4. /\ HubType(host) /\ host.conns = filled.conns
        /\ host.rooms = [filled.rooms EXCEPT ![code] = room]
    <3> HIDE DEF host
    <3> QED BY <1>6, <1>11, <2>3, RoomType
  <2>5. [filled.rooms EXCEPT ![code] = room] = [h.rooms EXCEPT ![code] = room]
    BY <1>5, <1>6, <1>9
  <2> HIDE DEF host
  <2> QED BY <1>6, <2>4, <2>5
<1> HIDE DEF host, room
<1>13. "Join" \in Roles \ {"Host"}
  BY DEF Roles
<1>14. OpenedFor(h, c, hello, room, host)
  BY <1>2, <1>3, <1>8, <1>11, <1>12, <1>13 DEF OpenedFor
<1> QED BY <1>11, <1>14

LEMMA OpenedGood ==
  ASSUME NEW h, Good(h), NEW c \in Conns, Unseated(h.conns[c]),
         NEW hello, hello.room \in Codes, ~Exists(h, hello.room),
         NEW room \in Room, NEW g, OpenedFor(h, c, hello, room, g)
  PROVE  Good(Bind(g, c, hello.room, "Host", FALSE))
<1> DEFINE code == hello.room
           few  == {<<code, "Host">>}
<1>1. h.rooms[code].phase = "None"
  BY NonesAssumption DEF Exists
<1>2. Owned(h, few)
  BY OwnedMore DEF Good
<1>3. Unbound(h, code, "Host")
  <2>1. \A x \in Conns : h.conns[x].room # code
    <3>1. ASSUME NEW x \in Conns, h.conns[x].room = code PROVE FALSE
      <4>1. h.rooms[h.conns[x].room].phase # "None"
        BY <3>1, NonesAssumption, BoundSeat
      <4> QED BY <1>1, <3>1, <4>1
    <3> QED BY <3>1
  <2> QED BY <2>1 DEF Unbound
<1>4. Takes(room, h.rooms[code], "Host", c)
  BY <1>1 DEF Takes, Roles, OpenedFor
<1>5. Free(h, code, "Host") /\ "Host" \in Roles
  BY <1>2, <1>3 DEF Good, Free, Roles
<1> HIDE DEF code
<1>6. /\ HubType(g) /\ g.conns = h.conns
      /\ g.rooms = [h.rooms EXCEPT ![code] = room]
  BY DEF OpenedFor, code
<1> QED BY <1>4, <1>5, <1>6, BindGood DEF code

LEMMA HostHelloGood ==
  ASSUME NEW h, Good(h), NEW c \in Conns, Unseated(h.conns[c]),
         NEW hello, hello.room \in Codes, hello.game \in Games,
         ~Exists(h, hello.room)
  PROVE  Good(HostHello(h, c, hello))
<1>1. PICK room \in Room : \E g : OpenedFor(h, c, hello, room, g)
  BY HostHelloRoom DEF Good
<1>2. PICK g : OpenedFor(h, c, hello, room, g)
  BY <1>1
<1> DEFINE bound == Bind(g, c, hello.room, "Host", FALSE)
<1>3. Good(bound)
  BY <1>2, OpenedGood
<1> HIDE DEF bound
<1>4. Good(BroadcastLobby(bound, hello.room))
  BY <1>3, BroadcastLobbyGood
<1> QED BY <1>2, <1>4 DEF bound, OpenedFor

\* h with the knock of a joiner.
Knocked(h, c, hello) ==
  [SeatFill(h, hello.room, "Join", c) EXCEPT !.rooms[hello.room] =
     [@ EXCEPT !.seat_gen = @ + 1, !.phase = "Admission", !.idle = 0,
               !.seats["Host"].ready = FALSE]]

\* g is that hub, and all that is left is to answer the joiner.
KnockedBy(h, c, hello, room, g) ==
  LET host == room.seats["Host"]
      join == room.seats["Join"]
      old  == h.rooms[hello.room]
  IN  /\ g = Knocked(h, c, hello)
      /\ JoinHello(h, c, hello) =
           BroadcastLobby(Bind(g, c, hello.room, "Join", FALSE), hello.room)
      /\ HubType(g) /\ g.conns = h.conns
      /\ g.rooms = [h.rooms EXCEPT ![hello.room] = room]
      /\ room.phase = "Admission" /\ room.result = old.result
      /\ join.present /\ join.connected /\ join.conn = c
      /\ ~join.admitted /\ ~join.ready
      /\ ~host.ready /\ host.present = old.seats["Host"].present
      /\ host.connected = old.seats["Host"].connected
      /\ host.conn = old.seats["Host"].conn
      /\ host.token = old.seats["Host"].token
      /\ host.admitted = old.seats["Host"].admitted

LEMMA JoinHelloRoom ==
  ASSUME NEW h, HubType(h), NEW c \in Conns,
         NEW hello, hello.room \in Codes, Exists(h, hello.room)
  PROVE  \E room \in Room : \E g : KnockedBy(h, c, hello, room, g)
<1> DEFINE code    == hello.room
           old     == h.rooms[code]
           filled  == SeatFill(h, code, "Join", c)
           fresh   == FreshSeat(h, c)
           unready == [old.seats["Host"] EXCEPT !.ready = FALSE]
           seats   == [old.seats EXCEPT !["Join"] = fresh, !["Host"] = unready]
           room    == [old EXCEPT !.seats = seats, !.seat_gen = @ + 1,
                                  !.phase = "Admission", !.idle = 0]
           knocked == [filled EXCEPT !.rooms[code] =
                         [@ EXCEPT !.seat_gen = @ + 1, !.phase = "Admission",
                                   !.idle = 0, !.seats["Host"].ready = FALSE]]
<1>1. /\ "Host" \in Roles /\ "Join" \in Roles
      /\ \A r \in Roles \ {"Join"} : r = "Host"
      /\ "Admission" \in Phases
  BY DEF Roles, Phases
<1>2. /\ old \in Room /\ old.seats \in [Roles -> Seat] /\ old.phase # "None"
      /\ DOMAIN h.rooms = Codes
  BY Members DEF Exists, HubType, Room
<1>3. /\ JoinHello(h, c, hello) =
           BroadcastLobby(Bind(knocked, c, code, "Join", FALSE), code)
      /\ knocked = Knocked(h, c, hello)
  BY DEF JoinHello, Knocked
<1>4. /\ HubType(filled) /\ filled.conns = h.conns
      /\ filled.rooms = [h.rooms EXCEPT ![code] =
           [old EXCEPT !.seats["Join"] = fresh]]
  BY <1>1, SeatFillType
<1>5. /\ fresh \in Seat /\ fresh.present /\ fresh.connected /\ fresh.conn = c
      /\ ~fresh.admitted /\ ~fresh.ready
  BY FreshSeatType
<1>6. /\ unready \in Seat /\ unready.present = old.seats["Host"].present
      /\ unready.connected = old.seats["Host"].connected
      /\ unready.conn = old.seats["Host"].conn
      /\ unready.token = old.seats["Host"].token
      /\ unready.admitted = old.seats["Host"].admitted /\ ~unready.ready
  <2>1. old.seats["Host"] \in Seat
    BY <1>1, <1>2
  <2> HIDE DEF old
  <2> QED BY <2>1 DEF Seat
<1> HIDE DEF filled, fresh, unready
<1>7. seats \in [Roles -> Seat] /\ seats["Join"] = fresh /\ seats["Host"] = unready
  BY <1>1, <1>2, <1>5, <1>6
<1> HIDE DEF seats
<1>8. /\ room \in Room /\ room.phase = "Admission" /\ room.seats = seats
      /\ room.result = old.result
  <2> DEFINE gen == old.seat_gen + 1
  <2>1. gen \in Nat
    BY <1>2 DEF Room
  <2>2. room = [old EXCEPT !.seats = seats, !.seat_gen = gen,
                           !.phase = "Admission", !.idle = 0]
    OBVIOUS
  <2> HIDE DEF old, room, gen
  <2> QED BY <1>1, <1>2, <1>7, <2>1, <2>2 DEF Room
<1>9. /\ HubType(knocked) /\ knocked.conns = h.conns
      /\ knocked.rooms = [h.rooms EXCEPT ![code] = room]
  <2> DEFINE r0 == filled.rooms[code]
             r1 == [r0 EXCEPT !.seat_gen = @ + 1, !.phase = "Admission",
                              !.idle = 0, !.seats["Host"].ready = FALSE]
  <2>1. r0 = [old EXCEPT !.seats["Join"] = fresh]
    BY <1>2, <1>4
  <2>2. r1 = room
    <3> HIDE DEF old, r0
    <3>1. /\ r0 = [old EXCEPT !.seats = [old.seats EXCEPT !["Join"] = fresh]]
          /\ r0.seats["Host"] = old.seats["Host"]
          /\ r0.seats = [old.seats EXCEPT !["Join"] = fresh]
      BY <1>1, <1>2, <2>1 DEF Room
    <3>2. r1 = [r0 EXCEPT !.seat_gen = @ + 1, !.phase = "Admission",
                          !.idle = 0,
                          !.seats = [r0.seats EXCEPT !["Host"] = unready]]
      BY <1>1, <1>2, <3>1 DEF Room, unready
    <3>3. [r0.seats EXCEPT !["Host"] = unready] = seats
      BY <3>1 DEF seats
    <3> HIDE DEF r1
    <3> QED BY <1>2, <3>1, <3>2, <3>3 DEF Room
  <2>3. knocked = [filled EXCEPT !.rooms[code] = r1]
    BY <1>4 DEF HubType
  <2> HIDE DEF r1, room, knocked
  <2>4. /\ HubType(knocked) /\ knocked.conns = filled.conns
        /\ knocked.rooms = [filled.rooms EXCEPT ![code] = room]
    BY <1>4, <1>8, <2>2, <2>3, RoomType
  <2>5. [filled.rooms EXCEPT ![code] = room] = [h.rooms EXCEPT ![code] = room]
    BY <1>2, <1>4
  <2> QED BY <1>4, <2>4, <2>5
<1> HIDE DEF knocked, room
<1>10. KnockedBy(h, c, hello, room, knocked)
  BY <1>3, <1>5, <1>6, <1>7, <1>8, <1>9 DEF KnockedBy
<1> QED BY <1>8, <1>10

LEMMA KnockedGood ==
  ASSUME NEW h, Good(h), NEW c \in Conns, Unseated(h.conns[c]),
         NEW hello, hello.room \in Codes, Exists(h, hello.room),
         ~h.rooms[hello.room].seats["Join"].present,
         NEW room \in Room, NEW g, KnockedBy(h, c, hello, room, g)
  PROVE  Good(Bind(g, c, hello.room, "Join", FALSE))
<1> DEFINE code == hello.room
           few  == {<<code, "Join">>}
<1>1. h.rooms[code].phase # "None"
  BY DEF Exists
<1>2. Owned(h, few)
  BY OwnedMore DEF Good
<1>3. Unbound(h, code, "Join")
  <2>1. ASSUME NEW x \in Conns, h.conns[x].room = code, h.conns[x].role = "Join"
        PROVE  FALSE
    <3>1. SeatOf(h, x).present
      BY <2>1, NonesAssumption, BoundSeat
    <3> QED BY <2>1, <3>1 DEF SeatOf
  <2> QED BY <2>1 DEF Unbound
<1>4. Takes(room, h.rooms[code], "Join", c)
  BY <1>1 DEF Takes, Roles, KnockedBy
<1>5. Free(h, code, "Join") /\ "Join" \in Roles
  BY <1>2, <1>3 DEF Good, Free, Roles
<1> HIDE DEF code
<1>6. /\ HubType(g) /\ g.conns = h.conns
      /\ g.rooms = [h.rooms EXCEPT ![code] = room]
  BY DEF KnockedBy, code
<1> QED BY <1>4, <1>5, <1>6, BindGood DEF code

LEMMA JoinHelloGood ==
  ASSUME NEW h, Good(h), NEW c \in Conns, Unseated(h.conns[c]),
         NEW hello, hello.room \in Codes, Exists(h, hello.room),
         ~h.rooms[hello.room].seats["Join"].present
  PROVE  Good(JoinHello(h, c, hello))
<1>1. PICK room \in Room : \E g : KnockedBy(h, c, hello, room, g)
  BY JoinHelloRoom DEF Good
<1>2. PICK g : KnockedBy(h, c, hello, room, g)
  BY <1>1
<1> DEFINE bound == Bind(g, c, hello.room, "Join", FALSE)
<1>3. Good(bound)
  BY <1>2, KnockedGood
<1> HIDE DEF bound
<1>4. Good(BroadcastLobby(bound, hello.room))
  BY <1>3, BroadcastLobbyGood
<1> QED BY <1>2, <1>4 DEF bound, KnockedBy

LEMMA SupersedeFrees ==
  ASSUME NEW h, Good(h), NEW code \in Codes, NEW role \in Roles,
         h.rooms[code].phase # "None"
  PROVE  LET g == Supersede(h, code, role)
         IN  /\ g.rooms = h.rooms /\ Free(g, code, role)
             /\ \A c \in Conns :
                  h.conns[c].room = NoCode => g.conns[c] = h.conns[c]
<1> DEFINE c == SeatConn(h, code, role)
           g == Supersede(h, code, role)
<1>1. HubType(h) /\ Owned(h, {}) /\ code # NoCode
  BY NonesAssumption DEF Good
<1>2. CASE c = NoConn
  <2>1. g = h
    BY <1>2 DEF Supersede
  <2>2. Unbound(h, code, role)
    <3> DEFINE none == {}
    <3>1. Owned(h, none)
      BY <1>1
    <3> HIDE DEF none
    <3>2. Sits(h, none, code, role, c)
      BY <1>1, <3>1, SeatConnIs
    <3> HIDE DEF c
    <3> QED BY <1>2, <3>2 DEF Sits
  <2>3. Owned(h, {<<code, role>>})
    BY <1>1, OwnedMore
  <2> HIDE DEF g
  <2> QED BY <1>1, <2>1, <2>2, <2>3 DEF g, Free
<1>3. CASE c # NoConn
  <2> HIDE DEF c
  <2>1. c \in Conns /\ h.conns[c].room = code /\ h.conns[c].role = role
    <3>1. /\ c \in Conns
          /\ \/ h.conns[c].room = NoCode /\ <<code, role>> \in {}
             \/ h.conns[c].room = code /\ h.conns[c].role = role
      <4> DEFINE none == {}
      <4>1. Owned(h, none)
        BY <1>1
      <4> HIDE DEF none
      <4>2. /\ c \in Conns
            /\ \/ h.conns[c].room = NoCode /\ <<code, role>> \in none
               \/ h.conns[c].room = code /\ h.conns[c].role = role
        <5>1. Sits(h, none, code, role, c)
          BY <1>1, <4>1, SeatConnIs DEF c
        <5> QED BY <1>3, <5>1 DEF Sits
      <4> QED BY <4>2 DEF none
    <3> QED BY <3>1
  <2>2. g = CloseConn(Detach(h, c), c, "superseded")
    BY <1>3 DEF Supersede, c
  <2> HIDE DEF g
  <2>3. Dropped(g, h, c)
    BY <1>1, <2>1, <2>2, DropClose
  <2>4. /\ HubType(g) /\ g.rooms = h.rooms
        /\ Owned(g, {<<code, role>>}) /\ Unbound(g, code, role)
    BY <1>1, <2>1, <2>3, DroppedSeat
  <2>5. ASSUME NEW x \in Conns, h.conns[x].room = NoCode
        PROVE  g.conns[x] = h.conns[x]
    <3>1. x # c
      BY <1>1, <2>1, <2>5
    <3> QED BY <1>1, <2>3, <3>1 DEF Dropped, HubType
  <2> QED BY <2>4, <2>5 DEF g, Free
<1> QED BY <1>2, <1>3

\* h with c in the seat it claims, and all that is left is to answer it.
Reseated(h, c, hello) ==
  LET code   == hello.room
      role   == hello.role
      freed  == Supersede(h, code, role)
      seat   == [freed.rooms[code].seats[role] EXCEPT
                   !.connected = TRUE, !.conn = c, !.lost = 0]
  IN  [freed EXCEPT !.rooms[code] = [@ EXCEPT !.idle = 0, !.seats[role] = seat]]

\* What is left of the room.
ReseatedRoom(new, old) ==
  /\ new \in Room
  /\ new.phase = old.phase /\ new.source = old.source
  /\ new.settings = old.settings /\ new.result = old.result
  /\ \A r \in Roles : new.seats[r].archetype = old.seats[r].archetype

ReseatedFor(h, c, hello) ==
  LET code  == hello.room
      g     == Reseated(h, c, hello)
      freed == Supersede(h, code, hello.role)
      bind  == Bind(g, c, code, hello.role, TRUE)
  IN  /\ Good(bind) /\ bind.rooms = g.rooms
      /\ HubType(g) /\ HubType(freed) /\ freed.rooms = h.rooms
      /\ g.conns = freed.conns /\ g.conns[c] = h.conns[c]
      /\ ReseatedRoom(g.rooms[code], h.rooms[code])
      /\ g = [freed EXCEPT !.rooms[code] = g.rooms[code]]

LEMMA ReseatedGood ==
  ASSUME NEW h, Good(h), NEW c \in Conns, Unseated(h.conns[c]),
         NEW hello, hello.room \in Codes, hello.role \in Roles,
         h.rooms[hello.room].phase # "None",
         h.rooms[hello.room].seats[hello.role].present
  PROVE  ReseatedFor(h, c, hello)
<1> DEFINE code   == hello.room
           role   == hello.role
           old    == h.rooms[code]
           freed  == Supersede(h, code, role)
           seat   == [freed.rooms[code].seats[role] EXCEPT
                        !.connected = TRUE, !.conn = c, !.lost = 0]
           seats  == [old.seats EXCEPT ![role] = seat]
           room   == [old EXCEPT !.idle = 0, !.seats = seats]
           seated == [freed EXCEPT !.rooms[code] =
                        [@ EXCEPT !.idle = 0, !.seats[role] = seat]]
           bind   == Bind(seated, c, code, role, TRUE)
<1>1. /\ old \in Room /\ old.seats \in [Roles -> Seat] /\ old.seats[role] \in Seat
      /\ DOMAIN h.rooms = Codes
  BY Members DEF Good, HubType, Room
<1>2. /\ freed.rooms = h.rooms /\ Free(freed, code, role)
      /\ freed.conns[c] = h.conns[c] /\ HubType(freed)
  BY SupersedeFrees DEF Unseated, Free
<1>3. seated = Reseated(h, c, hello)
  BY DEF Reseated
<1> HIDE DEF freed
<1>4. /\ seat \in Seat /\ seat.present /\ seat.connected /\ seat.conn = c
      /\ seat.archetype = old.seats[role].archetype
  BY <1>1, <1>2 DEF Seat
<1> HIDE DEF seat
<1>5. /\ seats \in [Roles -> Seat] /\ seats[role] = seat
      /\ \A r \in Roles \ {role} : seats[r] = old.seats[r]
  BY <1>1, <1>4
<1>6. seated = [freed EXCEPT !.rooms[code] = room]
  <2>1. [old EXCEPT !.idle = 0, !.seats[role] = seat] = room
    BY <1>1 DEF Room
  <2>2. seated = [freed EXCEPT !.rooms[code] =
                    [freed.rooms[code] EXCEPT !.idle = 0, !.seats[role] = seat]]
    BY <1>2 DEF HubType
  <2> HIDE DEF room, seated
  <2> QED BY <1>2, <2>1, <2>2
<1> HIDE DEF seats
<1>7. /\ room \in Room /\ room.phase = old.phase /\ room.seats = seats
      /\ room.source = old.source /\ room.settings = old.settings
      /\ room.result = old.result
  BY <1>1, <1>5 DEF Room
<1> HIDE DEF room
<1>8. /\ HubType(seated) /\ seated.conns = freed.conns
      /\ seated.rooms = [freed.rooms EXCEPT ![code] = room]
  <2> HIDE DEF seated
  <2> QED BY <1>2, <1>6, <1>7, RoomType
<1>9. Good(bind) /\ bind.rooms = seated.rooms
  <2> HIDE DEF seated
  <2>1. Takes(room, freed.rooms[code], role, c)
    BY <1>2, <1>4, <1>5, <1>7 DEF Takes
  <2>2. Free(freed, code, role) /\ Unseated(freed.conns[c])
    BY <1>2 DEF Free
  <2>3. code \in Codes /\ role \in Roles
    OBVIOUS
  <2> HIDE DEF code, role
  <2> QED BY <1>8, <2>1, <2>2, <2>3, BindGood
<1>10. seated.rooms[code] = room
  BY <1>1, <1>2, <1>8
<1> HIDE DEF seated
<1>11. ReseatedRoom(room, old)
  BY <1>4, <1>5, <1>7 DEF ReseatedRoom
<1> QED BY <1>2, <1>3, <1>6, <1>8, <1>9, <1>10, <1>11 DEF ReseatedFor, freed

LEMMA ResumeGood ==
  ASSUME NEW h, Good(h), NEW c \in Conns, Unseated(h.conns[c]),
         NEW hello, hello.room \in Codes, hello.role \in Roles,
         h.rooms[hello.room].phase # "None",
         h.rooms[hello.room].seats[hello.role].present
  PROVE  Good(Resume(h, c, hello))
<1> DEFINE code   == hello.room
           role   == hello.role
           seated == Reseated(h, c, hello)
           bind   == Bind(seated, c, code, role, TRUE)
           bound  == SendTo(bind, code, Partner(role), [t |-> "partner_rejoined"])
           result == [t |-> "run_ended", result |-> bound.rooms[code].result]
<1>1. /\ Good(bind) /\ bind.rooms = seated.rooms
      /\ ReseatedRoom(seated.rooms[code], h.rooms[code])
  <2>1. ReseatedFor(h, c, hello)
    BY ReseatedGood
  <2> QED BY <2>1 DEF ReseatedFor
<1>2. \/ Resume(h, c, hello) = StartOrBroadcast(bound, code)
      \/ Resume(h, c, hello) = Send(bound, c, result)
      \/ Resume(h, c, hello) = bound
  BY DEF Resume, Reseated
<1> HIDE DEF seated, bind
<1>3. Same(bound, bind)
  BY <1>1, SendToSame DEF Good
<1> HIDE DEF bound
<1>4. Good(bound)
  BY <1>1, <1>3, SameGood
<1>5. bound.rooms[code].phase # "None"
  BY <1>1, <1>3 DEF Same, ReseatedRoom
<1>6. /\ Good(StartOrBroadcast(bound, code))
      /\ Good(Send(bound, c, result))
  BY <1>4, <1>5, StartOrBroadcastGood, SendGood
<1> QED BY <1>2, <1>4, <1>6

LEMMA ReclaimGood ==
  ASSUME NEW h, Good(h), NEW c \in Conns, Unseated(h.conns[c]),
         NEW hello, hello.room \in Codes, hello.role \in Roles
  PROVE  Good(Reclaim(h, c, hello))
<1> DEFINE refusal == ReclaimRefusal(h, hello)
           left    == SeatDeparted(h, hello.room, hello.role, "timeout")
           few     == {<<hello.room, hello.role>>}
<1>1. refusal \in {"None", "Expired"} =>
        /\ h.rooms[hello.room].phase # "None"
        /\ h.rooms[hello.room].seats[hello.role].present
  BY DEF ReclaimRefusal, Exists, Claims
<1> HIDE DEF refusal
<1>2. refusal = "None" => Good(Resume(h, c, hello))
  BY <1>1, ResumeGood
<1>3. refusal = "Expired" => Good(left)
  <2>1. Owned(h, few)
    BY OwnedMore DEF Good
  <2> QED BY <1>1, <2>1, SeatDepartedGood DEF Good
<1> HIDE DEF left
<1>4. refusal = "Expired" => Good(Fatal(left, c, "Run_Not_Found"))
  BY <1>3, FatalGood
<1>5. Good(Fatal(h, c, refusal))
  BY FatalGood
<1> QED BY <1>2, <1>4, <1>5 DEF Reclaim, refusal, left

LEMMA HandleHelloGood ==
  ASSUME NEW h, Good(h), NEW c \in Conns, Unseated(h.conns[c]),
         NEW hello, hello.room \in Codes \cup {NoCode}, hello.role \in Roles,
         hello.game \in Games
  PROVE  Good(HandleHello(h, c, hello))
<1>1. \A code : Good(Fatal(h, c, code))
  BY FatalGood
<1>2. CASE ~hello.supported \/ hello.room = NoCode
  BY <1>1, <1>2 DEF HandleHello
<1>3. CASE hello.supported /\ hello.room # NoCode
  <2>1. Good(Reclaim(h, c, hello))
    BY <1>3, ReclaimGood
  <2>2. CASE hello.role = "Host"
    <3>1. HostRefusal(h, c, hello) = "None" => ~Exists(h, hello.room)
      BY DEF HostRefusal
    <3>2. HostRefusal(h, c, hello) = "None" => Good(HostHello(h, c, hello))
      BY <1>3, <3>1, HostHelloGood
    <3> QED BY <1>1, <1>3, <2>1, <2>2, <3>2 DEF HandleHello
  <2>3. CASE hello.role # "Host"
    <3>1. JoinRefusal(h, hello) = "None" =>
            Exists(h, hello.room) /\ ~h.rooms[hello.room].seats["Join"].present
      BY DEF JoinRefusal
    <3>2. JoinRefusal(h, hello) = "None" => Good(JoinHello(h, c, hello))
      BY <1>3, <3>1, JoinHelloGood
    <3> QED BY <1>1, <1>3, <2>1, <2>3, <3>2 DEF HandleHello
  <2> QED BY <2>2, <2>3
<1> QED BY <1>2, <1>3

-----------------------------------------------------------------------------
(* Messages of a seated connection *)

LEMMA HandleSelectGood ==
  ASSUME NEW h, Good(h), NEW c \in Conns, h.conns[c].room # NoCode,
         NEW m, m.archetype \in Archetypes
  PROVE  Good(HandleSelect(h, c, m))
<1> DEFINE code   == h.conns[c].room
           role   == h.conns[c].role
           seat   == [SeatOf(h, c) EXCEPT !.archetype = m.archetype,
                                          !.ready = FALSE]
           chosen == IF SeatOf(h, c).archetype = m.archetype THEN h
                     ELSE SetSeat(h, code, role, seat)
           touched == Touch(chosen, code)
<1>1. /\ code \in Codes /\ role \in Roles
      /\ SeatOf(h, c) = h.rooms[code].seats[role]
  BY BoundSeat DEF SeatOf
<1>2. SeatOf(h, c) \in Seat
  BY <1>1, Members DEF Good
<1>3. /\ seat \in Seat /\ seat.present = SeatOf(h, c).present
      /\ seat.connected = SeatOf(h, c).connected
      /\ seat.conn = SeatOf(h, c).conn
  BY <1>2 DEF Seat
<1>4. SetSeat(h, code, role, seat) =
        [h EXCEPT !.rooms[code].seats[role] =
                    [@ EXCEPT !.archetype = m.archetype, !.ready = FALSE]]
  BY <1>1 DEF SetSeat, Good, HubType, Room
<1>5. HandleSelect(h, c, m) =
        IF ~PreStart(h.rooms[code]) \/ ~SeatOf(h, c).admitted
        THEN Reject(h, c, "Bad_State") ELSE BroadcastLobby(touched, code)
  BY <1>4 DEF HandleSelect
<1> HIDE DEF seat, code, role
<1>6. Good(SetSeat(h, code, role, seat))
  BY <1>1, <1>3, SeatEdited
<1>7. Good(chosen)
  BY <1>6
<1> HIDE DEF chosen
<1>8. Good(touched)
  BY <1>1, <1>7, TouchGood
<1> HIDE DEF touched
<1> QED BY <1>5, <1>8, RejectGood, BroadcastLobbyGood

LEMMA HandleReadyGood ==
  ASSUME NEW h, Good(h), NEW c \in Conns, h.conns[c].room # NoCode,
         NEW m, m.ready \in BOOLEAN
  PROVE  Good(HandleReady(h, c, m))
<1> DEFINE code  == h.conns[c].room
           role  == h.conns[c].role
           seat  == [h.rooms[code].seats[role] EXCEPT !.ready = m.ready]
           ready == SetSeat(h, code, role, seat)
           touched == Touch(ready, code)
           refusal == ReadyRefusal(h, c, m)
<1>1. code \in Codes /\ role \in Roles /\ h.rooms[code].phase # "None"
  BY BoundSeat
<1>2. h.rooms[code].seats[role] \in Seat /\ h.rooms[code] \in Room
  BY <1>1, Members DEF Good
<1>3. /\ seat \in Seat /\ seat.present = h.rooms[code].seats[role].present
      /\ seat.connected = h.rooms[code].seats[role].connected
      /\ seat.conn = h.rooms[code].seats[role].conn
  BY <1>2 DEF Seat
<1>4. HandleReady(h, c, m) = IF refusal # "None" THEN Reject(h, c, refusal)
                             ELSE StartOrBroadcast(touched, code)
  BY <1>1 DEF HandleReady, SetSeat, Good, HubType, Room
<1>5. ready.rooms[code].phase = h.rooms[code].phase
  <2>1. ready.rooms[code] = [h.rooms[code] EXCEPT !.seats[role] = seat]
    BY <1>1 DEF SetSeat, Good, HubType
  <2> HIDE DEF ready, seat
  <2> QED BY <1>2, <2>1 DEF Room
<1> HIDE DEF seat, code, role
<1>6. Good(ready)
  BY <1>1, <1>3, SeatEdited
<1> HIDE DEF ready, refusal
<1>7. Good(touched)
  BY <1>1, <1>6, TouchGood
<1>8. touched.rooms[code].phase # "None"
  <2>1. ready.rooms[code] \in Room
    BY <1>1, <1>6, Members DEF Good
  <2>2. touched.rooms[code] = [ready.rooms[code] EXCEPT !.idle = 0]
    BY <1>1, <1>6 DEF Touch, Good, HubType
  <2> QED BY <1>1, <1>5, <2>1, <2>2 DEF Room
<1> HIDE DEF touched
<1> QED BY <1>1, <1>4, <1>7, <1>8, RejectGood, StartOrBroadcastGood

\* Settings and admission edit the joiner's seat and another field of the room.
LEMMA JoinSeatEdited ==
  ASSUME NEW h, Good(h), NEW code \in Codes, h.rooms[code].phase # "None",
         NEW phase \in Phases, NEW settings \in Settings, NEW seat \in Seat,
         seat.present = h.rooms[code].seats["Join"].present,
         seat.connected = h.rooms[code].seats["Join"].connected,
         seat.conn = h.rooms[code].seats["Join"].conn
  PROVE  Good([h EXCEPT !.rooms[code] =
                 [h.rooms[code] EXCEPT !.phase = phase, !.settings = settings,
                                       !.seats["Join"] = seat]])
<1> DEFINE old   == h.rooms[code]
           seats == [old.seats EXCEPT !["Join"] = seat]
           room  == [old EXCEPT !.phase = phase, !.settings = settings,
                                !.seats = seats]
<1>1. old \in Room /\ old.seats \in [Roles -> Seat] /\ "Join" \in Roles
  BY Members DEF Good, Room, Roles
<1>2. /\ seats \in [Roles -> Seat]
      /\ \A r \in Roles : /\ seats[r].present = old.seats[r].present
                          /\ seats[r].connected = old.seats[r].connected
                          /\ seats[r].conn = old.seats[r].conn
  BY <1>1
<1>3. [h.rooms[code] EXCEPT !.phase = phase, !.settings = settings,
                            !.seats["Join"] = seat] = room
  BY <1>1 DEF Room
<1> HIDE DEF seats
<1>4. /\ room \in Room /\ room.seats = seats /\ room.phase = phase
      /\ phase # "None"
  BY <1>1, <1>2 DEF Room, Phases
<1> HIDE DEF room
<1>5. SameSeating(room, old)
  BY <1>2, <1>4 DEF SameSeating
<1> QED BY <1>3, <1>4, <1>5, SeatingKept

LEMMA HandleSettingsGood ==
  ASSUME NEW h, Good(h), NEW c \in Conns, h.conns[c].room # NoCode,
         NEW m, m.settings \in Settings
  PROVE  Good(HandleSettings(h, c, m))
<1> DEFINE code == h.conns[c].room
           old  == h.rooms[code]
           seat == [old.seats["Join"] EXCEPT !.ready = FALSE]
           room == [old EXCEPT !.phase = old.phase, !.settings = m.settings,
                               !.seats["Join"] = seat]
           edited  == [h EXCEPT !.rooms[code] = room]
           changed == IF old.settings = m.settings THEN h ELSE edited
           touched == Touch(changed, code)
<1>1. code \in Codes /\ old.phase # "None" /\ "Join" \in Roles
  BY BoundSeat DEF Roles
<1>2. old \in Room /\ old.seats["Join"] \in Seat /\ old.phase \in Phases
  BY <1>1, Members DEF Good, Room
<1>3. /\ seat \in Seat /\ seat.present = old.seats["Join"].present
      /\ seat.connected = old.seats["Join"].connected
      /\ seat.conn = old.seats["Join"].conn
  BY <1>2 DEF Seat
<1>4. edited = [h EXCEPT !.rooms[code] =
                  [@ EXCEPT !.settings = m.settings, !.seats["Join"].ready = FALSE]]
  <2>1. room = [old EXCEPT !.settings = m.settings, !.seats["Join"].ready = FALSE]
    BY <1>1, <1>2 DEF Room
  <2> HIDE DEF room
  <2> QED BY <2>1 DEF Good, HubType
<1>5. HandleSettings(h, c, m) =
        IF ~PreStart(old) THEN Reject(h, c, "Bad_State")
        ELSE BroadcastLobby(touched, code)
  BY <1>4 DEF HandleSettings
<1>6. Good(edited)
  <2> HIDE DEF seat, code
  <2> QED BY <1>1, <1>2, <1>3, JoinSeatEdited
<1> HIDE DEF edited
<1>7. Good(changed)
  BY <1>6
<1> HIDE DEF changed
<1>8. Good(touched)
  BY <1>1, <1>7, TouchGood
<1> HIDE DEF touched
<1> QED BY <1>5, <1>8, RejectGood, BroadcastLobbyGood

LEMMA HandleAdmitGood ==
  ASSUME NEW h, Good(h), NEW c \in Conns, h.conns[c].room # NoCode, NEW m
  PROVE  Good(HandleAdmit(h, c, m))
<1> DEFINE code == h.conns[c].room
           old  == h.rooms[code]
           seat == [old.seats["Join"] EXCEPT !.admitted = TRUE]
           room == [old EXCEPT !.phase = "Selecting", !.settings = old.settings,
                               !.seats["Join"] = seat]
           admitted == [h EXCEPT !.rooms[code] = room]
           touched  == Touch(admitted, code)
<1>1. /\ code \in Codes /\ old.phase # "None" /\ "Join" \in Roles
      /\ "Selecting" \in Phases
  BY BoundSeat DEF Roles, Phases
<1>2. old \in Room /\ old.seats["Join"] \in Seat /\ old.settings \in Settings
  BY <1>1, Members DEF Good, Room
<1>3. /\ seat \in Seat /\ seat.present = old.seats["Join"].present
      /\ seat.connected = old.seats["Join"].connected
      /\ seat.conn = old.seats["Join"].conn
  BY <1>2 DEF Seat
<1>4. admitted = [h EXCEPT !.rooms[code] =
                    [@ EXCEPT !.phase = "Selecting",
                              !.seats["Join"].admitted = TRUE]]
  <2>1. room = [old EXCEPT !.phase = "Selecting", !.seats["Join"].admitted = TRUE]
    BY <1>1, <1>2 DEF Room
  <2> HIDE DEF room
  <2> QED BY <2>1 DEF Good, HubType
<1>5. \/ HandleAdmit(h, c, m) = Reject(h, c, "Bad_State")
      \/ HandleAdmit(h, c, m) = BroadcastLobby(touched, code)
  BY <1>4 DEF HandleAdmit
<1>6. Good(admitted)
  <2> HIDE DEF seat, code
  <2> QED BY <1>1, <1>2, <1>3, JoinSeatEdited
<1> HIDE DEF admitted
<1>7. Good(touched)
  BY <1>1, <1>6, TouchGood
<1> HIDE DEF touched
<1> QED BY <1>5, <1>7, RejectGood, BroadcastLobbyGood

LEMMA HandleKickGood ==
  ASSUME NEW h, Good(h), NEW c \in Conns, h.conns[c].room # NoCode, NEW m
  PROVE  Good(HandleKick(h, c, m))
<1> DEFINE code   == h.conns[c].room
           turned == CloseSeat(h, code, "Join", "Kicked")
           vacant == SetSeat(turned, code, "Join", EmptySeat)
           reopened == ReopenRoom(vacant, code)
           told   == Send(reopened, c, PartnerLeft("kicked"))
           none   == {}
           few    == none \cup {<<code, "Join">>}
<1>1. /\ code \in Codes /\ h.rooms[code].phase # "None" /\ "Join" \in Roles
      /\ HubType(h) /\ Owned(h, none)
  BY BoundSeat DEF Roles, Good
<1>2. \/ HandleKick(h, c, m) = Reject(h, c, "Bad_State")
      \/ HandleKick(h, c, m) = BroadcastLobby(told, code)
  BY DEF HandleKick, CloseSeat, SetSeat
<1>3. few \ {<<code, "Join">>} = {}
  OBVIOUS
<1> HIDE DEF none, code
<1>4. Released(turned, h) /\ Owned(turned, few) /\ Unbound(turned, code, "Join")
  BY <1>1, CloseSeatReleases
<1> HIDE DEF few, turned
<1>5. EmptySeat \in Seat /\ ~EmptySeat.connected
  BY RoomConstants DEF EmptySeat
<1>6. /\ HubType(vacant) /\ Owned(vacant, few \ {<<code, "Join">>})
      /\ vacant.rooms[code] =
           [turned.rooms[code] EXCEPT !.seats["Join"] = EmptySeat]
  <2>1. HubType(turned)
    BY <1>4 DEF Released
  <2> QED BY <1>1, <1>4, <1>5, <2>1, SeatFreed
<1> HIDE DEF vacant
<1>7. Good(vacant)
  BY <1>3, <1>6 DEF Good
<1>8. vacant.rooms[code].phase # "None"
  <2>1. turned.rooms[code] = h.rooms[code] /\ h.rooms[code] \in Room
    BY <1>1, <1>4, Members DEF Released
  <2> QED BY <1>1, <1>6, <2>1 DEF Room
<1>9. Good(reopened)
  BY <1>1, <1>7, <1>8, ReopenRoomGood
<1> HIDE DEF reopened
<1>10. Good(told)
  BY <1>9, SendGood
<1> HIDE DEF told
<1> QED BY <1>2, <1>10, RejectGood, BroadcastLobbyGood

\* The socket of a seat is dropped by its own message.
LEMMA OwnDrop ==
  ASSUME NEW h, Good(h), NEW c \in Conns, h.conns[c].room # NoCode, NEW why
  PROVE  LET g    == CloseConn(Detach(h, c), c, why)
             code == h.conns[c].room
             role == h.conns[c].role
         IN  /\ Free(g, code, role) /\ g.rooms[code].phase # "None"
             /\ code \in Codes /\ role \in Roles
<1> DEFINE g == CloseConn(Detach(h, c), c, why)
<1>1. Dropped(g, h, c)
  BY DropClose DEF Good
<1> HIDE DEF g
<1>2. /\ HubType(g) /\ g.rooms = h.rooms
      /\ Owned(g, {<<h.conns[c].room, h.conns[c].role>>})
      /\ Unbound(g, h.conns[c].room, h.conns[c].role)
  BY <1>1, DroppedSeat
<1>3. /\ h.conns[c].room \in Codes /\ h.conns[c].role \in Roles
      /\ h.rooms[h.conns[c].room].phase # "None"
  BY BoundSeat
<1> QED BY <1>2, <1>3 DEF g, Free

LEMMA HandleByeGood ==
  ASSUME NEW h, Good(h), NEW c \in Conns, h.conns[c].room # NoCode
  PROVE  Good(HandleBye(h, c))
<1> DEFINE g    == CloseConn(Detach(h, c), c, "normal")
           code == h.conns[c].room
           role == h.conns[c].role
<1>1. /\ Free(g, code, role) /\ g.rooms[code].phase # "None"
      /\ code \in Codes /\ role \in Roles
  BY OwnDrop
<1>2. HandleBye(h, c) = SeatDeparted(g, code, role, "left")
  BY DEF HandleBye
<1> HIDE DEF g, code, role
<1> QED BY <1>1, <1>2, SeatDepartedGood DEF Free

LEMMA HandleSuspendGood ==
  ASSUME NEW h, Good(h), NEW c \in Conns, h.conns[c].room # NoCode
  PROVE  Good(HandleSuspend(h, c))
<1> DEFINE g    == CloseConn(Detach(h, c), c, "suspended")
           code == h.conns[c].room
           role == h.conns[c].role
<1>1. /\ Free(g, code, role) /\ g.rooms[code].phase # "None"
      /\ code \in Codes /\ role \in Roles
  BY OwnDrop
<1>2. HandleSuspend(h, c) = SeatLost(g, code, role)
  BY BoundSeat DEF HandleSuspend
<1> HIDE DEF g, code, role
<1> QED BY <1>1, <1>2, SeatLostGood DEF Free

LEMMA HandleResultAckGood ==
  ASSUME NEW h, Good(h), NEW c \in Conns, h.conns[c].room # NoCode, NEW m
  PROVE  Good(HandleResultAck(h, c, m))
<1> DEFINE code  == h.conns[c].room
           acked == GiveUpResult(h, code, "Join")
<1>1. code \in Codes
  BY BoundSeat
<1>2. acked = [h EXCEPT !.rooms[code].result_acked = TRUE]
  BY DEF GiveUpResult
<1>3. Good(acked)
  BY <1>1, GiveUpResultGood
<1>4. \/ HandleResultAck(h, c, m) = Reject(h, c, "Bad_State")
      \/ HandleResultAck(h, c, m) = Touch(acked, code)
  BY <1>2 DEF HandleResultAck
<1> HIDE DEF acked
<1> QED BY <1>1, <1>3, <1>4, RejectGood, TouchGood

LEMMA HandlePassthroughGood ==
  ASSUME NEW h, Good(h), NEW c \in Conns, h.conns[c].room # NoCode,
         NEW m, m.t = "run_ended" => m.result \in Results \cup {NoResult}
  PROVE  Good(HandlePassthrough(h, c, m))
<1> DEFINE code    == h.conns[c].room
           touched == Touch(h, code)
           room    == [touched.rooms[code] EXCEPT
                         !.phase = "Ended", !.result = m.result, !.result_age = 0]
           ended   == [touched EXCEPT !.rooms[code] = room]
           to      == Partner(h.conns[c].role)
<1>1. code \in Codes /\ h.rooms[code].phase # "None"
  BY BoundSeat
<1>2. Good(touched)
  BY <1>1, TouchGood
<1>3. touched.rooms[code].phase # "None"
  <2>1. h.rooms[code] \in Room
    BY <1>1, Members DEF Good
  <2>2. touched.rooms[code] = [h.rooms[code] EXCEPT !.idle = 0]
    BY <1>1 DEF Touch, Good, HubType
  <2> QED BY <1>1, <2>1, <2>2 DEF Room
<1>4. \/ HandlePassthrough(h, c, m) = Reject(h, c, "Bad_State")
      \/ HandlePassthrough(h, c, m) = SendTo(touched, code, to, m)
      \/ HandlePassthrough(h, c, m) = Reject(touched, c, "Bad_Msg")
      \/ /\ m.t = "run_ended"
         /\ HandlePassthrough(h, c, m) = SendTo(ended, code, to, m)
  <2>1. ended = [touched EXCEPT !.rooms[code] =
                   [@ EXCEPT !.phase = "Ended", !.result = m.result,
                             !.result_age = 0]]
    <3> HIDE DEF touched
    <3> QED BY <1>2 DEF Good, HubType
  <2> HIDE DEF ended
  <2> QED BY <2>1 DEF HandlePassthrough
<1> HIDE DEF touched
<1>5. m.t = "run_ended" => Good(ended)
  <2>1. touched.rooms[code] \in Room
    BY <1>1, <1>2, Members DEF Good
  <2>2. m.t = "run_ended" => /\ room \in Room
                             /\ SameSeating(room, touched.rooms[code])
    BY <1>3, <2>1 DEF Room, Phases, SameSeating
  <2> HIDE DEF room
  <2> QED BY <1>1, <1>2, <2>2, SeatingKept
<1> HIDE DEF ended, to
<1> QED BY <1>2, <1>4, <1>5, RejectGood, SendToGood

LEMMA HandlePingGood ==
  ASSUME NEW h, Good(h), NEW c \in Conns, h.conns[c].room # NoCode
  PROVE  Good(HandlePing(h, c))
BY BoundSeat, TouchGood, SendGood DEF HandlePing

\* What a message of each type carries.
WellFormed(m) ==
  /\ m.t \in {"hello", "select", "ready", "settings", "admit", "kick", "ping",
              "result_ack", "run_ended", "world", "intent", "bye", "suspend",
              "flood", "malformed", "unknown"}
  /\ m.t = "hello" => /\ m.room \in Codes \cup {NoCode}
                      /\ m.role \in Roles /\ m.game \in Games
  /\ m.t = "select" => m.archetype \in Archetypes
  /\ m.t = "ready" => m.ready \in BOOLEAN
  /\ m.t = "settings" => m.settings \in Settings
  /\ m.t = "run_ended" => m.result \in Results \cup {NoResult}

LEMMA MessagesWellFormed ==
  ASSUME NEW h, NEW m \in Messages(h)
  PROVE  WellFormed(m)
<1> DEFINE hello == [t: {"hello"}, role: Roles, room: Codes, token: 0..h.issued,
                     game: Games, supported: {TRUE}]
<1>1. CASE m \in Hellos(h)
  <2>1. CASE m \in hello
    BY <2>1 DEF WellFormed
  <2>2. CASE \E x \in hello : m = [x EXCEPT !.supported = FALSE]
    BY <2>2 DEF WellFormed
  <2>3. CASE \E x \in hello : m = [x EXCEPT !.room = NoCode]
    BY <2>3 DEF WellFormed
  <2> QED BY <1>1, <2>1, <2>2, <2>3 DEF Hellos
<1>2. CASE m \in LobbyMessages
  BY <1>2 DEF LobbyMessages, WellFormed
<1>3. CASE m \in RunMessages
  BY <1>3 DEF RunMessages, WellFormed
<1>4. CASE m \in OtherMessages
  BY <1>4 DEF OtherMessages, WellFormed
<1> QED BY <1>1, <1>2, <1>3, <1>4 DEF Messages

LEMMA DispatchGood ==
  ASSUME NEW h, Good(h), NEW c \in Conns, h.conns[c].room # NoCode,
         NEW m, WellFormed(m),
         m.t \notin {"hello", "flood", "malformed", "unknown"}
  PROVE  Good(Dispatch(h, c, m))
<1>1. CASE m.t = "select"
  <2>1. Dispatch(h, c, m) = HandleSelect(h, c, m)
    BY <1>1 DEF Dispatch, Passthrough
  <2> QED BY <1>1, <2>1, HandleSelectGood DEF WellFormed
<1>2. CASE m.t = "ready"
  <2>1. Dispatch(h, c, m) = HandleReady(h, c, m)
    BY <1>2 DEF Dispatch, Passthrough
  <2> QED BY <1>2, <2>1, HandleReadyGood DEF WellFormed
<1>3. CASE m.t = "settings"
  <2>1. Dispatch(h, c, m) = HandleSettings(h, c, m)
    BY <1>3 DEF Dispatch, Passthrough
  <2> QED BY <1>3, <2>1, HandleSettingsGood DEF WellFormed
<1>4. CASE m.t = "admit"
  <2>1. Dispatch(h, c, m) = HandleAdmit(h, c, m)
    BY <1>4 DEF Dispatch, Passthrough
  <2> QED BY <1>4, <2>1, HandleAdmitGood
<1>5. CASE m.t = "kick"
  <2>1. Dispatch(h, c, m) = HandleKick(h, c, m)
    BY <1>5 DEF Dispatch, Passthrough
  <2> QED BY <1>5, <2>1, HandleKickGood
<1>6. CASE m.t = "ping"
  <2>1. Dispatch(h, c, m) = HandlePing(h, c)
    BY <1>6 DEF Dispatch, Passthrough
  <2> QED BY <1>6, <2>1, HandlePingGood
<1>7. CASE m.t = "bye"
  <2>1. Dispatch(h, c, m) = HandleBye(h, c)
    BY <1>7 DEF Dispatch, Passthrough
  <2> QED BY <1>7, <2>1, HandleByeGood
<1>8. CASE m.t = "suspend"
  <2>1. Dispatch(h, c, m) = HandleSuspend(h, c)
    BY <1>8 DEF Dispatch, Passthrough
  <2> QED BY <1>8, <2>1, HandleSuspendGood
<1>9. CASE m.t = "result_ack"
  <2>1. Dispatch(h, c, m) = HandleResultAck(h, c, m)
    BY <1>9 DEF Dispatch, Passthrough
  <2> QED BY <1>9, <2>1, HandleResultAckGood
<1>10. CASE m.t \in Passthrough
  <2>1. m.t \in {"world", "intent", "run_ended"}
    BY <1>10 DEF Passthrough
  <2>2. Dispatch(h, c, m) = HandlePassthrough(h, c, m)
    BY <2>1 DEF Dispatch, Passthrough
  <2> QED BY <2>2, HandlePassthroughGood DEF WellFormed
<1> QED
  BY <1>1, <1>2, <1>3, <1>4, <1>5, <1>6, <1>7, <1>8, <1>9, <1>10
  DEF WellFormed, Passthrough

LEMMA HubReceiveGood ==
  ASSUME NEW h, Good(h), NEW c \in Conns, h.conns[c].open,
         ~h.conns[c].closing, NEW m, WellFormed(m)
  PROVE  Good(HubReceive(h, c, m))
<1> DEFINE conn  == [h.conns[c] EXCEPT !.silent = 0]
           heard == [h EXCEPT !.conns[c] = conn]
<1>1. h.conns[c] \in Conn
  BY Members DEF Good
<1>2. /\ conn \in Conn /\ conn.open = h.conns[c].open
      /\ conn.hello_done = h.conns[c].hello_done
      /\ conn.closing = h.conns[c].closing /\ conn.room = h.conns[c].room
      /\ conn.role = h.conns[c].role
  BY <1>1 DEF Conn
<1>3. HubReceive(h, c, m) =
        IF m.t = "flood" THEN Fatal(heard, c, "Rate_Limited")
        ELSE IF h.conns[c].hello_done THEN ReceiveGreeted(heard, c, m)
        ELSE ReceiveFirst(heard, c, m)
  BY DEF HubReceive, Good, HubType
<1>4. heard.conns[c] = conn
  BY DEF Good, HubType
<1> HIDE DEF conn
<1>5. Good(heard)
  BY <1>2, ConnKept
<1> HIDE DEF heard
<1>6. \A code : Good(Fatal(heard, c, code)) /\ Good(Reject(heard, c, code))
  BY <1>5, FatalGood, RejectGood
<1>7. Good(NoteInvalid(heard, c))
  BY <1>5, NoteInvalidGood
<1>8. CASE h.conns[c].hello_done /\ m.t # "flood"
  <2>1. heard.conns[c].room # NoCode
    <3>1. Bound(heard.conns, c)
      BY <1>5 DEF Good, Owned, OwnedIn
    <3> QED BY <1>2, <1>4, <1>8, <3>1 DEF Bound, Speaks
  <2>2. CASE m.t \in {"malformed", "unknown"}
    <3>1. \/ ReceiveGreeted(heard, c, m) = Reject(heard, c, "Bad_Msg")
          \/ ReceiveGreeted(heard, c, m) = NoteInvalid(heard, c)
      BY <2>2 DEF ReceiveGreeted
    <3> QED BY <1>3, <1>6, <1>7, <1>8, <3>1
  <2>3. CASE m.t \notin {"malformed", "unknown"}
    <3>1. m.t # "hello" => Good(Dispatch(heard, c, m))
      BY <1>5, <1>8, <2>1, <2>3, DispatchGood
    <3>2. MessageRefusal(heard, c, m) = "None" => m.t # "hello"
      BY DEF MessageRefusal
    <3> DEFINE refusal == MessageRefusal(heard, c, m)
    <3>3. \/ ReceiveGreeted(heard, c, m) = Fatal(heard, c, "Bad_State")
          \/ ReceiveGreeted(heard, c, m) = Reject(heard, c, refusal)
          \/ /\ refusal = "None"
             /\ ReceiveGreeted(heard, c, m) = Dispatch(heard, c, m)
      BY <2>3 DEF ReceiveGreeted
    <3> QED BY <1>3, <1>6, <1>8, <3>1, <3>2, <3>3
  <2> QED BY <2>2, <2>3
<1>9. CASE ~h.conns[c].hello_done /\ m.t # "flood"
  <2>1. heard.conns[c].room = NoCode
    <3>1. Seated(heard.conns, heard.rooms, c)
      BY <1>5 DEF Good, Owned, OwnedIn
    <3> QED BY <1>2, <1>4, <1>9, <3>1 DEF Seated, Speaks
  <2>2. Unseated(heard.conns[c])
    BY <1>2, <1>4, <2>1 DEF Unseated
  <2>3. m.t = "hello" => Good(HandleHello(heard, c, m))
    BY <1>5, <2>2, HandleHelloGood DEF WellFormed
  <2>4. Good(ReceiveFirst(heard, c, m))
    BY <1>6, <2>3 DEF ReceiveFirst
  <2> QED BY <1>3, <1>9, <2>4
<1> QED BY <1>3, <1>6, <1>8, <1>9

-----------------------------------------------------------------------------
(* The transport's events and the tick *)

LEMMA HubOpenGood ==
  ASSUME NEW h, Good(h), NEW c \in Conns, ~h.conns[c].open,
         NEW source \in Sources \cup {NoSource}
  PROVE  Good(HubOpen(h, c, source))
<1> DEFINE conn   == OpenedConn(source)
           new    == [h EXCEPT !.conns[c] = conn]
           opened == SourceAdjust(new, source, 1, 0)
           shut   == [conn EXCEPT !.closing = TRUE]
           closed == [opened EXCEPT !.conns[c] = shut]
           none   == {}
<1>1. h.conns[c].room = NoCode
  <2>1. Seated(h.conns, h.rooms, c)
    BY DEF Good, Owned, OwnedIn
  <2> QED BY <2>1 DEF Seated, Speaks
<1>2. /\ conn \in Conn /\ conn.room = NoCode /\ ~Speaks(conn) /\ ~conn.closing
  BY RoomConstants DEF OpenedConn, ClosedConn, Speaks
<1>3. /\ shut \in Conn /\ shut.room = NoCode /\ ~Speaks(shut)
  BY <1>2 DEF Conn, Speaks
<1>4. HubType(h) /\ Owned(h, none)
  BY DEF Good
<1> HIDE DEF conn, shut
<1>5. /\ HubType(new) /\ new.conns = [h.conns EXCEPT ![c] = conn]
      /\ new.rooms = h.rooms
  BY <1>2, <1>4, ConnType
<1> HIDE DEF new
<1>6. /\ HubType(opened) /\ opened.conns = [h.conns EXCEPT ![c] = conn]
      /\ opened.rooms = h.rooms
  <2>1. 0 \in Int /\ 1 \in Int
    OBVIOUS
  <2> QED BY <1>5, <2>1, SourceAdjustType
<1>7. HubOpen(h, c, source) = IF OverConnCap(opened, source)
                              THEN CloseConn(opened, c, "policy") ELSE opened
  BY DEF HubOpen, new, conn
<1> HIDE DEF opened, none
<1>8. Owned(opened, none)
  BY <1>1, <1>2, <1>4, <1>6, ReplacedOwned
<1>9. Good(CloseConn(opened, c, "policy"))
  <2>1. opened.conns[c] = conn
    BY <1>4, <1>6 DEF HubType
  <2>2. closed = [opened EXCEPT !.conns[c].closing = TRUE]
    BY <1>6, <2>1 DEF HubType, shut
  <2>3. /\ HubType(closed) /\ closed.conns = [opened.conns EXCEPT ![c] = shut]
        /\ closed.rooms = h.rooms
    BY <1>3, <1>6, ConnType
  <2>4. CloseConn(opened, c, "policy") =
          Emit(closed, [kind |-> "close", conn |-> c, code |-> "policy"])
    BY <1>2, <2>1, <2>2 DEF CloseConn
  <2> HIDE DEF closed
  <2>5. closed.conns = [h.conns EXCEPT ![c] = shut]
    BY <1>4, <1>6, <2>3 DEF HubType
  <2>6. Owned(closed, none)
    BY <1>1, <1>3, <1>4, <2>3, <2>5, ReplacedOwned
  <2>7. Good(closed)
    BY <2>3, <2>6 DEF Good, none
  <2> QED BY <2>4, <2>7, EmitSame, SameGood DEF Good
<1>10. Good(opened)
  BY <1>6, <1>8 DEF Good, none
<1> QED BY <1>7, <1>9, <1>10

\* h may have marked the socket as closing already, as hub_tick does.
LEMMA HubClosedGood ==
  ASSUME NEW h0, Good(h0), NEW h, HubType(h), NEW c \in Conns, NEW conn \in Conn,
         h.conns = [h0.conns EXCEPT ![c] = conn], h.rooms = h0.rooms,
         conn.room = h0.conns[c].room, conn.role = h0.conns[c].role
  PROVE  Good(HubClosed(h, c))
<1> DEFINE code    == conn.room
           role    == conn.role
           new     == [h EXCEPT !.conns[c] = ClosedConn]
           dropped == SourceAdjust(new, conn.source, -1, 0)
           none    == {}
           few     == none \cup {<<code, role>>}
<1>1. /\ ClosedConn \in Conn /\ ClosedConn.room = NoCode /\ ~Speaks(ClosedConn)
  BY RoomConstants DEF ClosedConn, Speaks
<1>2. /\ HubType(h0) /\ Owned(h0, none) /\ h.conns[c] = conn
      /\ conn.source \in Sources \cup {NoSource}
  BY DEF Good, HubType, Conn
<1> HIDE DEF none
<1>3. /\ HubType(new) /\ new.rooms = h0.rooms
      /\ new.conns = [h0.conns EXCEPT ![c] = ClosedConn]
  <2>1. /\ HubType(new) /\ new.rooms = h.rooms
        /\ new.conns = [h.conns EXCEPT ![c] = ClosedConn]
    BY <1>1, ConnType
  <2> HIDE DEF new
  <2> QED BY <2>1
<1>4. HubClosed(h, c) =
        IF /\ Exists(h, code) /\ SeatOf(h, c).present /\ SeatOf(h, c).connected
           /\ SeatOf(h, c).conn = c
        THEN SeatLost(dropped, code, role) ELSE dropped
  BY <1>2 DEF HubClosed
<1> HIDE DEF new
<1>5. /\ HubType(dropped) /\ dropped.rooms = h0.rooms
      /\ dropped.conns = [h0.conns EXCEPT ![c] = ClosedConn]
  <2>1. -1 \in Int /\ 0 \in Int
    OBVIOUS
  <2> DEFINE source == conn.source
  <2>2. source \in Sources \cup {NoSource}
    BY <1>2
  <2> HIDE DEF source
  <2>3. LET g == SourceAdjust(new, source, -1, 0)
        IN  HubType(g) /\ g.conns = new.conns /\ g.rooms = new.rooms
    BY <1>3, <2>1, <2>2, SourceAdjustType
  <2> QED BY <1>3, <2>3 DEF source
<1> HIDE DEF dropped
<1>6. CASE code = NoCode
  <2>1. Owned(dropped, none)
    <3>1. conn.room = NoCode
      BY <1>6
    <3>2. h0.conns[c].room = NoCode
      BY <3>1
    <3> QED BY <1>1, <1>2, <1>5, <3>2, ReplacedOwned
  <2>2. ~Exists(h, code)
    BY <1>6 DEF Exists
  <2> QED BY <1>4, <1>5, <2>1, <2>2 DEF Good, none
<1>7. CASE code # NoCode
  <2>1. /\ code \in Codes /\ role \in Roles
        /\ Exists(h0, code)
        /\ SeatOf(h0, c).present /\ SeatOf(h0, c).connected
        /\ SeatOf(h0, c).conn = c
    BY <1>7, BoundSeat
  <2>2. Exists(h, code) /\ SeatOf(h, c) = SeatOf(h0, c)
    BY <1>2, <2>1 DEF Exists, SeatOf
  <2>3. Owned(dropped, few)
    BY <1>1, <1>2, <1>5, <2>1, ReplacedOwned
  <2>4. few = {<<code, role>>}
    BY DEF none
  <2>5. Unbound(dropped, code, role)
    <3>1. ASSUME NEW x \in Conns, dropped.conns[x].room = code,
                 dropped.conns[x].role = role
          PROVE  FALSE
      <4>1. dropped.conns[c] = ClosedConn
        BY <1>2, <1>5 DEF HubType
      <4>2. x # c
        BY <1>1, <1>7, <3>1, <4>1
      <4>3. h0.conns[x] = dropped.conns[x]
        BY <1>2, <1>5, <4>2 DEF HubType
      <4>4. SeatOf(h0, x).conn = x
        BY <1>7, <3>1, <4>3, BoundSeat
      <4>5. SeatOf(h0, x) = SeatOf(h0, c)
        BY <3>1, <4>3 DEF SeatOf
      <4> QED BY <2>1, <4>2, <4>4, <4>5
    <3> QED BY <3>1 DEF Unbound
  <2>6. Good(SeatLost(dropped, code, role))
    BY <1>5, <2>1, <2>3, <2>4, <2>5, SeatLostGood
  <2> QED BY <1>4, <2>1, <2>2, <2>6
<1> QED BY <1>6, <1>7

LEMMA TickConnGood ==
  ASSUME NEW h, Good(h), NEW c \in Conns
  PROVE  Good(TickConn(h, c))
<1> DEFINE conn == [h.conns[c] EXCEPT !.closing = TRUE]
           g    == CloseConn(h, c, "policy")
           shut == [h EXCEPT !.conns[c] = conn]
<1>1. h.conns[c] \in Conn /\ HubType(h)
  BY Members DEF Good
<1>2. conn \in Conn /\ conn.room = h.conns[c].room /\ conn.role = h.conns[c].role
  BY <1>1 DEF Conn
<1>3. CASE h.conns[c].closing
  <2>1. g = h /\ h.conns = [h.conns EXCEPT ![c] = h.conns[c]]
    BY <1>1, <1>3 DEF CloseConn, HubType
  <2> HIDE DEF g
  <2>2. Good(HubClosed(h, c))
    BY <1>1, <2>1, HubClosedGood
  <2> QED BY <2>1, <2>2, FatalGood DEF TickConn, g
<1>4. CASE ~h.conns[c].closing
  <2>1. shut = [h EXCEPT !.conns[c].closing = TRUE]
    BY <1>1 DEF HubType
  <2>2. g = Emit(shut, [kind |-> "close", conn |-> c, code |-> "policy"])
    BY <1>4, <2>1 DEF CloseConn
  <2> HIDE DEF g, conn
  <2>3. /\ HubType(shut) /\ shut.conns = [h.conns EXCEPT ![c] = conn]
        /\ shut.rooms = h.rooms
    BY <1>1, <1>2, ConnType
  <2> HIDE DEF shut
  <2>4. Same(g, shut)
    BY <2>2, <2>3, EmitSame
  <2>5. Good(HubClosed(g, c))
    BY <1>2, <2>3, <2>4, HubClosedGood DEF Same
  <2> QED BY <2>5, FatalGood DEF TickConn, g
<1> QED BY <1>3, <1>4

LEMMA ExpireSeatGood ==
  ASSUME NEW h, Good(h), NEW code \in Codes, NEW role \in Roles
  PROVE  Good(ExpireSeat(h, code, role))
<1> DEFINE few == {<<code, role>>}
<1>1. Owned(h, few)
  BY OwnedMore DEF Good
<1> QED BY <1>1, SeatDepartedGood DEF ExpireSeat, Exists, Good

LEMMA TickRoomGood ==
  ASSUME NEW h, Good(h), NEW code \in Codes
  PROVE  Good(TickRoom(h, code))
<1> DEFINE first == ExpireSeat(h, code, "Host")
           swept == ExpireSeat(first, code, "Join")
<1>1. Good(first)
  BY ExpireSeatGood DEF Roles
<1> HIDE DEF first
<1>2. Good(swept)
  BY <1>1, ExpireSeatGood DEF Roles
<1>3. \/ TickRoom(h, code) = swept
      \/ Exists(swept, code) /\ TickRoom(h, code) = CloseRoom(swept, code, "None")
      \/ Exists(swept, code) /\ TickRoom(h, code) = CloseRoom(swept, code, "Timeout")
  BY DEF TickRoom, first
<1> HIDE DEF swept
<1>4. ASSUME Exists(swept, code), NEW error
      PROVE  Good(CloseRoom(swept, code, error))
  <2>1. Owned(swept, {code} \X Roles)
    BY <1>2, OwnedMore DEF Good
  <2> QED BY <1>2, <1>4, <2>1, CloseRoomGood DEF Exists, Good
<1> QED BY <1>2, <1>3, <1>4

-----------------------------------------------------------------------------
(* The clock *)

LEMMA KeptGood ==
  ASSUME NEW h, Good(h), NEW g, HubType(g),
         \A c \in Conns : /\ Speaks(g.conns[c]) = Speaks(h.conns[c])
                          /\ g.conns[c].room = h.conns[c].room
                          /\ g.conns[c].role = h.conns[c].role,
         \A code \in Codes : SameSeating(g.rooms[code], h.rooms[code])
  PROVE  Good(g)
<1>1. OwnedIn(h.conns, h.rooms, {})
  BY DEF Good, Owned
<1>2. ASSUME NEW c \in Conns
      PROVE  Seated(g.conns, g.rooms, c) /\ Bound(g.conns, c)
  <2>1. Seated(h.conns, h.rooms, c) /\ Bound(h.conns, c)
    BY <1>1 DEF OwnedIn
  <2>2. /\ Speaks(g.conns[c]) = Speaks(h.conns[c])
        /\ g.conns[c].room = h.conns[c].room
        /\ g.conns[c].role = h.conns[c].role
    OBVIOUS
  <2>3. CASE h.conns[c].room = NoCode
    BY <2>1, <2>2, <2>3 DEF Seated, Bound
  <2>4. CASE h.conns[c].room # NoCode
    <3> DEFINE code == h.conns[c].room
               role == h.conns[c].role
    <3>1. code \in Codes /\ role \in Roles
      BY <2>4, BoundSeat
    <3>2. /\ g.rooms[code].phase = "None" <=> h.rooms[code].phase = "None"
          /\ g.rooms[code].seats[role].present = h.rooms[code].seats[role].present
          /\ g.rooms[code].seats[role].connected =
               h.rooms[code].seats[role].connected
          /\ g.rooms[code].seats[role].conn = h.rooms[code].seats[role].conn
      BY <3>1 DEF SameSeating
    <3> QED BY <2>1, <2>2, <3>2 DEF Seated, Bound
  <2> QED BY <2>3, <2>4
<1>3. ASSUME NEW code \in Codes, NEW role \in Roles
      PROVE  Backed(g.conns, g.rooms, {}, code, role)
  <2> DEFINE s == h.rooms[code].seats[role]
  <2>1. Backed(h.conns, h.rooms, {}, code, role)
    BY <1>1 DEF OwnedIn
  <2>2. /\ g.rooms[code].phase = "None" <=> h.rooms[code].phase = "None"
        /\ g.rooms[code].seats[role].present = s.present
        /\ g.rooms[code].seats[role].connected = s.connected
        /\ g.rooms[code].seats[role].conn = s.conn
    BY DEF SameSeating
  <2>3. s.conn \in Conns => /\ g.conns[s.conn].room = h.conns[s.conn].room
                            /\ g.conns[s.conn].role = h.conns[s.conn].role
    OBVIOUS
  <2> QED BY <2>1, <2>2, <2>3 DEF Backed
<1> QED BY <1>2, <1>3 DEF Good, Owned, OwnedIn

LEMMA OlderType ==
  ASSUME NEW age \in Nat, NEW limit \in Nat
  PROVE  Older(age, limit) \in Nat
BY DEF Older

LEMMA OlderConnKept ==
  ASSUME NEW conn \in Conn
  PROVE  /\ OlderConn(conn) \in Conn
         /\ Speaks(OlderConn(conn)) = Speaks(conn)
         /\ OlderConn(conn).room = conn.room
         /\ OlderConn(conn).role = conn.role
<1> DEFINE age == Older(conn.silent,
                        IF conn.hello_done THEN Liveness ELSE HelloTimeout)
<1>1. age \in Nat
  BY OlderType, ConfigAssumption DEF Conn
<1>2. OlderConn(conn) \in {conn, [conn EXCEPT !.silent = age]}
  BY DEF OlderConn
<1> HIDE DEF age
<1> QED BY <1>1, <1>2 DEF Conn, Speaks

LEMMA OlderSeatKept ==
  ASSUME NEW seat \in Seat
  PROVE  /\ OlderSeat(seat) \in Seat
         /\ OlderSeat(seat).present = seat.present
         /\ OlderSeat(seat).connected = seat.connected
         /\ OlderSeat(seat).conn = seat.conn
<1> DEFINE age == Older(seat.lost, Grace)
<1>1. age \in Nat
  BY OlderType, ConfigAssumption DEF Seat
<1>2. OlderSeat(seat) \in {seat, [seat EXCEPT !.lost = age]}
  BY DEF OlderSeat
<1> HIDE DEF age
<1> QED BY <1>1, <1>2 DEF Seat

LEMMA OlderRoomKept ==
  ASSUME NEW room \in Room
  PROVE  OlderRoom(room) \in Room /\ SameSeating(OlderRoom(room), room)
<1> DEFINE seats == [role \in Roles |-> OlderSeat(room.seats[role])]
           aged  == [room EXCEPT !.seats = seats]
           over  == Older(room.result_age, ResultDelivery)
           idle  == Older(room.idle, IdleTimeout)
           age   == Older(room.age, WaitingMax)
<1>1. room.seats \in [Roles -> Seat]
  BY DEF Room
<1>2. /\ seats \in [Roles -> Seat]
      /\ \A r \in Roles : /\ seats[r].present = room.seats[r].present
                          /\ seats[r].connected = room.seats[r].connected
                          /\ seats[r].conn = room.seats[r].conn
  BY <1>1, OlderSeatKept
<1>3. over \in Nat /\ idle \in Nat /\ age \in Nat
  BY OlderType, ConfigAssumption DEF Room
<1> HIDE DEF seats
<1>4. /\ aged \in Room /\ aged.seats = seats /\ aged.phase = room.phase
      /\ aged.result_age = room.result_age /\ aged.idle = room.idle
      /\ aged.age = room.age
  BY <1>2 DEF Room
<1>5. \/ OlderRoom(room) = room
      \/ OlderRoom(room) = [aged EXCEPT !.result_age = over]
      \/ OlderRoom(room) = [aged EXCEPT !.idle = idle, !.age = age]
  BY <1>4 DEF OlderRoom, seats
<1> HIDE DEF over, idle, age, aged
<1>6. /\ OlderRoom(room) \in Room
      /\ OlderRoom(room).seats \in {room.seats, seats}
      /\ OlderRoom(room).phase = room.phase
  BY ZenonT(30), <1>3, <1>4, <1>5 DEF Room
<1> QED BY <1>2, <1>6 DEF SameSeating

-----------------------------------------------------------------------------
(* The inductive invariant *)

IInv == Good(hub) /\ sweep \in [conns: SUBSET Conns, rooms: SUBSET Codes]

LEMMA InitIInv == Init => IInv
<1> SUFFICES ASSUME Init PROVE IInv
  OBVIOUS
<1>1. HubType(hub)
  <2>1. ClosedConn \in Conn /\ NoRoom \in Room
    BY RoomConstants, NoRoomType
  <2> QED BY <2>1 DEF Init, HubType
<1>2. /\ \A c \in Conns : hub.conns[c] = ClosedConn
      /\ \A code \in Codes : hub.rooms[code] = NoRoom
  BY DEF Init
<1>3. /\ ClosedConn.room = NoCode /\ ~Speaks(ClosedConn)
      /\ NoRoom.phase = "None"
  BY NoRoomType DEF ClosedConn, Speaks
<1>4. Owned(hub, {})
  BY <1>2, <1>3 DEF Owned, OwnedIn, Seated, Bound, Backed
<1>5. sweep \in [conns: SUBSET Conns, rooms: SUBSET Codes]
  BY DEF Init
<1> QED BY <1>1, <1>4, <1>5 DEF IInv, Good

LEMMA FlushedGood ==
  ASSUME Good(hub)
  PROVE  Good(Flushed) /\ Flushed.conns = hub.conns /\ Flushed.rooms = hub.rooms
<1> DEFINE g == Flushed
<1>1. /\ g \in [conns: [Conns -> Conn], rooms: [Codes -> Room],
               sources: [Sources -> [conns: Nat, rooms: Nat]], issued: Nat,
               out: {g.out}]
      /\ g.conns = hub.conns /\ g.rooms = hub.rooms
      /\ g.sources = hub.sources /\ g.issued = hub.issued
  BY DEF Flushed, Good, HubType
<1> HIDE DEF g
<1>2. Same(g, hub)
  BY <1>1 DEF Same, HubType
<1> QED BY <1>1, <1>2, SameGood DEF g

LEMMA TimePassesGood ==
  ASSUME Good(hub), TimePasses
  PROVE  Good(hub')
<1> DEFINE conns == [c \in Conns |-> OlderConn(hub.conns[c])]
           rooms == [code \in Codes |-> OlderRoom(hub.rooms[code])]
           g     == [Flushed EXCEPT !.conns = conns, !.rooms = rooms]
<1>1. /\ \A c \in Conns : hub.conns[c] \in Conn
      /\ \A code \in Codes : hub.rooms[code] \in Room
  BY Members DEF Good
<1>2. /\ conns \in [Conns -> Conn]
      /\ \A c \in Conns : /\ Speaks(conns[c]) = Speaks(hub.conns[c])
                          /\ conns[c].room = hub.conns[c].room
                          /\ conns[c].role = hub.conns[c].role
  BY <1>1, OlderConnKept
<1>3. /\ rooms \in [Codes -> Room]
      /\ \A code \in Codes : SameSeating(rooms[code], hub.rooms[code])
  BY <1>1, OlderRoomKept
<1>4. hub' = g
  BY DEF TimePasses
<1> HIDE DEF conns, rooms
<1>5. g.conns = conns /\ g.rooms = rooms /\ HubType(g)
  BY <1>2, <1>3, FlushedGood DEF Good, HubType
<1> HIDE DEF g
<1>6. Good(g)
  BY <1>2, <1>3, <1>5, KeptGood
<1> QED BY <1>4, <1>6

LEMMA NextIInv == IInv /\ [Next]_vars => IInv'
<1> SUFFICES ASSUME IInv, [Next]_vars PROVE IInv'
  OBVIOUS
<1>1. /\ Good(hub) /\ sweep \in [conns: SUBSET Conns, rooms: SUBSET Codes]
      /\ Good(Flushed)
      /\ Flushed.conns = hub.conns /\ Flushed.rooms = hub.rooms
  BY FlushedGood DEF IInv
<1>2. ASSUME NEW c \in Conns, NEW source \in Sources \cup {NoSource},
             Open(c, source)
      PROVE  IInv'
  <2>1. Good(HubOpen(Flushed, c, source))
    BY <1>1, <1>2, HubOpenGood DEF Open
  <2> QED BY <1>1, <1>2, <2>1 DEF Open, IInv
<1>3. ASSUME NEW c \in Conns, Closed(c)
      PROVE  IInv'
  <2>1. /\ HubType(Flushed) /\ Flushed.conns[c] \in Conn
        /\ Flushed.conns = [Flushed.conns EXCEPT ![c] = Flushed.conns[c]]
    BY <1>1, Members DEF Good, HubType
  <2>2. Good(HubClosed(Flushed, c))
    BY <1>1, <2>1, HubClosedGood
  <2> QED BY <1>1, <1>3, <2>2 DEF Closed, IInv
<1>4. ASSUME NEW c \in Conns, NEW m \in Messages(hub), Receive(c, m)
      PROVE  IInv'
  <2>1. WellFormed(m)
    BY MessagesWellFormed
  <2>2. Flushed.conns[c].open /\ ~Flushed.conns[c].closing
    BY <1>1, <1>4 DEF Receive
  <2>3. Good(HubReceive(Flushed, c, m))
    BY <1>1, <2>1, <2>2, HubReceiveGood
  <2> QED BY <1>1, <1>4, <2>3 DEF Receive, IInv
<1>5. CASE TimePasses
  BY <1>1, <1>5, TimePassesGood DEF TimePasses, IInv
<1>6. CASE HubTick
  BY <1>1, <1>6 DEF HubTick, OpenRooms, IInv
<1>7. ASSUME NEW c \in Conns, SweepConn(c)
      PROVE  IInv'
  <2>1. Good(TickConn(Flushed, c))
    BY <1>1, TickConnGood
  <2> QED BY <1>1, <1>7, <2>1 DEF SweepConn, IInv
<1>8. ASSUME NEW code \in Codes, SweepRoom(code)
      PROVE  IInv'
  <2>1. Good(TickRoom(Flushed, code))
    BY <1>1, TickRoomGood
  <2> QED BY <1>1, <1>8, <2>1 DEF SweepRoom, IInv
<1>9. CASE UNCHANGED vars
  BY <1>9 DEF vars, IInv
<1> QED
  BY <1>2, <1>3, <1>4, <1>5, <1>6, <1>7, <1>8, <1>9
  DEF Next, Events, Timers, Sweep

\* The hub's five fields keep their types: in particular the per-source counts
\* never go negative, and every timestamp stays an age.
THEOREM TypeCorrect == Spec => []TypeOK
<1>1. IInv => TypeOK
  BY DEF IInv, Good, TypeOK
<1> QED BY <1>1, InitIInv, NextIInv, PTL DEF Spec

\* A socket speaks for a seat exactly when the seat is connected through that
\* socket, whatever order hellos, reconnections, kicks, closes and time-outs
\* come in, for any number of connections and rooms.
THEOREM SeatOwnershipHolds == Spec => []SeatOwnership
<1>1. IInv => SeatOwnership
  <2> SUFFICES ASSUME IInv PROVE SeatOwnership
    OBVIOUS
  <2>1. Good(hub)
    BY DEF IInv
  <2>2. ASSUME NEW c \in Conns, Speaks(hub.conns[c])
        PROVE  SeatedBy(c, hub.conns[c].room, hub.conns[c].role)
    <3>1. Bound(hub.conns, c)
      BY <2>1 DEF Good, Owned, OwnedIn
    <3> QED BY <2>1, <2>2, <3>1, BoundSeat DEF Bound, SeatedBy, SeatOf
  <2>3. ASSUME NEW code \in Codes, NEW role \in Roles, Exists(hub, code),
               hub.rooms[code].seats[role].connected
        PROVE  \E c \in Conns : /\ SeatedBy(c, code, role)
                                /\ Speaks(hub.conns[c])
                                /\ hub.conns[c].room = code
                                /\ hub.conns[c].role = role
    <3> DEFINE c == hub.rooms[code].seats[role].conn
    <3>1. Backed(hub.conns, hub.rooms, {}, code, role)
      BY <2>1 DEF Good, Owned, OwnedIn
    <3>2. /\ hub.rooms[code].seats[role].present /\ c \in Conns
          /\ hub.conns[c].room = code /\ hub.conns[c].role = role
      BY <2>3, <3>1 DEF Backed, Exists
    <3>3. Speaks(hub.conns[c])
      BY <2>1, <3>2, NonesAssumption, BoundSeat
    <3>4. SeatedBy(c, code, role)
      BY <2>3, <3>2 DEF SeatedBy
    <3> HIDE DEF c
    <3> QED BY <3>2, <3>3, <3>4
  <2> QED BY <2>2, <2>3 DEF SeatOwnership
<1> QED BY <1>1, InitIInv, NextIInv, PTL DEF Spec

-----------------------------------------------------------------------------
(* The rooms: PhaseSeats, NoStranger, ResultRetained and HeldForGrace are   *)
(* one induction.  Kept relates a hub to what an operator makes of it, room *)
(* by room; it is reflexive and transitive, so what a handler does follows  *)
(* from what the operators it is composed of do.                            *)

\* PhaseSeats of one room; a code with no room promises nothing.
Phased(room) ==
  LET host == room.seats["Host"]
      join == room.seats["Join"]
  IN  room.phase # "None" =>
        /\ room.phase # "Ended" => host.present /\ host.admitted
        /\ room.phase = "Waiting" => ~join.present /\ ~host.ready
        /\ room.phase = "Admission" => /\ join.present /\ ~host.ready
                                       /\ ~join.admitted /\ ~join.ready
        /\ room.phase = "Selecting" => join.present /\ join.admitted
        /\ room.phase = "Active" => /\ join.present /\ join.admitted
                                    /\ host.ready /\ join.ready
        /\ room.phase = "Ended" <=> room.result # NoResult

SameHolder(old, new, role) ==
  /\ old.seats[role].present /\ new.seats[role].present
  /\ old.seats[role].token = new.seats[role].token

(* What becomes of a room that was there: the promise of its phase is kept;  *)
(* once a run started, the phase only moves on, nobody new sits down and the *)
(* result is not touched; only a seat of gone is given up while the room     *)
(* exists, and only with "Result" in gone is the result acknowledged or      *)
(* dropped.                                                                  *)
KeptRoom(old, new, gone) ==
  /\ Phased(old) => Phased(new)
  /\ old.phase = "None" => new.phase = "None"
  /\ old.phase \in {"Active", "Ended"} /\ new.phase # "None" =>
       /\ new.phase \in {old.phase, "Ended"}
       /\ \A role \in Roles :
            new.seats[role].present => SameHolder(old, new, role)
  /\ old.phase = "Ended" /\ new.phase # "None" =>
       new.result = old.result
  /\ old.phase = "Ended" /\ ~old.result_acked /\ "Result" \notin gone =>
       new.phase = "Ended" /\ ~new.result_acked
  /\ old.phase # "None" /\ new.phase # "None" =>
       \A role \in Roles \ gone :
         old.seats[role].present => SameHolder(old, new, role)

\* No room but the one of code has changed, and that one is kept.
Kept(h, g, code, gone) ==
  /\ HubType(g)
  /\ \A x \in Codes : x # code => g.rooms[x] = h.rooms[x]
  /\ code \in Codes => KeptRoom(h.rooms[code], g.rooms[code], gone)

LEMMA KeptRoomRefl ==
  ASSUME NEW room, NEW gone
  PROVE  KeptRoom(room, room, gone)
BY DEF KeptRoom, SameHolder

LEMMA KeptRoomTrans ==
  ASSUME NEW r1, NEW r2, NEW r3, NEW gone,
         KeptRoom(r1, r2, gone), KeptRoom(r2, r3, gone)
  PROVE  KeptRoom(r1, r3, gone)
<1> USE DEF KeptRoom, SameHolder
<1>1. Phased(r1) => Phased(r3)
  OBVIOUS
<1>2. r1.phase = "None" => r3.phase = "None"
  OBVIOUS
<1>3. ASSUME r1.phase \in {"Active", "Ended"}, r3.phase # "None"
      PROVE  /\ r3.phase \in {r1.phase, "Ended"}
             /\ r2.phase # "None" /\ r2.phase \in {r1.phase, "Ended"}
             /\ \A role \in Roles :
                  r3.seats[role].present => SameHolder(r1, r3, role)
  <2>1. r2.phase # "None" /\ r2.phase \in {r1.phase, "Ended"}
    BY <1>3
  <2> QED BY <1>3, <2>1
<1>4. r1.phase = "Ended" /\ r3.phase # "None" => r3.result = r1.result
  BY <1>3
<1>5. r1.phase = "Ended" /\ ~r1.result_acked /\ "Result" \notin gone =>
        r3.phase = "Ended" /\ ~r3.result_acked
  OBVIOUS
<1>6. r1.phase # "None" /\ r3.phase # "None" =>
        \A role \in Roles \ gone :
          r1.seats[role].present => SameHolder(r1, r3, role)
  <2>1. r3.phase # "None" => r2.phase # "None"
    OBVIOUS
  <2> QED BY <2>1
<1> QED BY <1>1, <1>2, <1>3, <1>4, <1>5, <1>6

\* Nothing a property of this module reads.
SameSeats(new, old) ==
  /\ new.phase = old.phase /\ new.result = old.result
  /\ new.result_acked = old.result_acked
  /\ \A role \in Roles :
       /\ new.seats[role].present = old.seats[role].present
       /\ new.seats[role].token = old.seats[role].token
       /\ new.seats[role].ready = old.seats[role].ready
       /\ new.seats[role].admitted = old.seats[role].admitted

LEMMA SameSeatsKept ==
  ASSUME NEW old \in Room, NEW new \in Room, SameSeats(new, old), NEW gone
  PROVE  KeptRoom(old, new, gone)
<1>1. "Host" \in Roles /\ "Join" \in Roles
  BY DEF Roles
<1>2. Phased(old) => Phased(new)
  BY <1>1 DEF SameSeats, Phased
<1>3. \A role \in Roles : old.seats[role].present =>
        SameHolder(old, new, role)
  BY DEF SameSeats, SameHolder
<1> QED BY <1>2, <1>3 DEF KeptRoom, SameSeats

LEMMA KeptSame ==
  ASSUME NEW h, NEW g, HubType(g), g.rooms = h.rooms, NEW code, NEW gone
  PROVE  Kept(h, g, code, gone)
BY KeptRoomRefl DEF Kept

LEMMA KeptTrans ==
  ASSUME NEW h, NEW g, NEW f, NEW code, NEW gone,
         Kept(h, g, code, gone), Kept(g, f, code, gone)
  PROVE  Kept(h, f, code, gone)
<1>1. code \in Codes => KeptRoom(h.rooms[code], f.rooms[code], gone)
  BY KeptRoomTrans DEF Kept
<1> QED BY <1>1 DEF Kept

\* One room is replaced by another.
LEMMA KeptEdit ==
  ASSUME NEW h, HubType(h), NEW code \in Codes, NEW room \in Room, NEW gone,
         KeptRoom(h.rooms[code], room, gone)
  PROVE  LET g == [h EXCEPT !.rooms[code] = room]
         IN  Kept(h, g, code, gone) /\ g.conns = h.conns /\ g.rooms[code] = room
<1> DEFINE g == [h EXCEPT !.rooms[code] = room]
<1>1. /\ HubType(g) /\ g.conns = h.conns
      /\ g.rooms = [h.rooms EXCEPT ![code] = room]
  BY RoomType
<1>2. DOMAIN h.rooms = Codes
  BY DEF HubType
<1> HIDE DEF g
<1>3. g.rooms[code] = room /\ \A x \in Codes : x # code => g.rooms[x] = h.rooms[x]
  BY <1>1, <1>2
<1> QED BY <1>1, <1>3 DEF Kept, g

-----------------------------------------------------------------------------
(* Operators that touch no room *)

LEMMA SendKept ==
  ASSUME NEW h, HubType(h), NEW c, NEW m, NEW code, NEW gone
  PROVE  HubType(Send(h, c, m)) /\ Kept(h, Send(h, c, m), code, gone)
BY SendSame, KeptSame DEF Same

LEMMA SendToKept ==
  ASSUME NEW h, HubType(h), NEW x, NEW role, NEW m, NEW code, NEW gone
  PROVE  /\ HubType(SendTo(h, x, role, m))
         /\ Kept(h, SendTo(h, x, role, m), code, gone)
BY SendToSame, KeptSame DEF Same

LEMMA BroadcastLobbyKept ==
  ASSUME NEW h, HubType(h), NEW x, NEW code, NEW gone
  PROVE  /\ HubType(BroadcastLobby(h, x))
         /\ Kept(h, BroadcastLobby(h, x), code, gone)
BY BroadcastLobbySame, KeptSame DEF Same

\* Connections are only ever taken off their seats.
Loosened(h, g) ==
  \A x \in Conns : g.conns[x].room = h.conns[x].room \/ g.conns[x].room = NoCode

LEMMA DroppedLoosened ==
  ASSUME NEW h, HubType(h), NEW g, NEW c \in Conns, Dropped(g, h, c)
  PROVE  HubType(g) /\ g.rooms = h.rooms /\ Loosened(h, g)
BY DEF Dropped, HubType, Conn, Loosened

LEMMA CloseConnRooms ==
  ASSUME NEW h, HubType(h), NEW c \in Conns, NEW code
  PROVE  /\ HubType(CloseConn(h, c, code))
         /\ CloseConn(h, c, code).rooms = h.rooms
<1> DEFINE conn == [h.conns[c] EXCEPT !.closing = TRUE]
           g == [h EXCEPT !.conns[c] = conn]
<1>1. h.conns[c] \in Conn
  BY Members
<1>2. conn \in Conn
  BY <1>1 DEF Conn
<1>3. g = [h EXCEPT !.conns[c].closing = TRUE]
  BY DEF HubType
<1> HIDE DEF conn
<1>4. HubType(g) /\ g.rooms = h.rooms
  BY <1>2, ConnType
<1> HIDE DEF g
<1>5. \A a : Same(Emit(g, a), g)
  BY <1>4, EmitSame
<1> QED BY <1>3, <1>4, <1>5 DEF CloseConn, Same

\* The connection of a seat, dropped or not there.
LEMMA SeatConnType ==
  ASSUME NEW h, HubType(h), NEW code \in Codes, NEW role \in Roles
  PROVE  SeatConn(h, code, role) \in Conns \cup {NoConn}
<1>1. h.rooms[code].seats[role] \in Seat
  BY Members
<1> QED BY <1>1 DEF SeatConn, Seat

LEMMA CloseSeatRooms ==
  ASSUME NEW h, HubType(h), NEW code \in Codes, NEW role \in Roles, NEW error
  PROVE  /\ HubType(CloseSeat(h, code, role, error))
         /\ CloseSeat(h, code, role, error).rooms = h.rooms
         /\ Loosened(h, CloseSeat(h, code, role, error))
<1> DEFINE c == SeatConn(h, code, role)
<1>1. c \in Conns \cup {NoConn}
  BY SeatConnType
<1> HIDE DEF c
<1>2. c \in Conns =>
        /\ Dropped(CloseConn(Detach(h, c), c, "normal"), h, c)
        /\ Dropped(FatalUnbound(Detach(h, c), c, error), h, c)
  BY DropClose
<1>3. \/ CloseSeat(h, code, role, error) = h
      \/ /\ c # NoConn
         /\ \/ CloseSeat(h, code, role, error) = CloseConn(Detach(h, c), c, "normal")
            \/ CloseSeat(h, code, role, error) = FatalUnbound(Detach(h, c), c, error)
  BY DEF CloseSeat, c
<1>4. ASSUME NEW g, g = h \/ \E x \in Conns : Dropped(g, h, x)
      PROVE  HubType(g) /\ g.rooms = h.rooms /\ Loosened(h, g)
  <2>1. CASE g = h
    BY <2>1 DEF Loosened
  <2>2. CASE \E x \in Conns : Dropped(g, h, x)
    BY <2>2, DroppedLoosened
  <2> QED BY <1>4, <2>1, <2>2
<1>5. LET g == CloseSeat(h, code, role, error)
      IN  g = h \/ \E x \in Conns : Dropped(g, h, x)
  BY <1>1, <1>2, <1>3
<1> QED BY <1>4, <1>5

-----------------------------------------------------------------------------
(* Departures *)

\* A room may go, unless it still owes its joiner a result.
LEMMA RoomGone ==
  ASSUME NEW old, NEW gone,
         old.phase = "Ended" /\ ~old.result_acked => "Result" \in gone
  PROVE  KeptRoom(old, NoRoom, gone)
BY NoRoomType DEF KeptRoom, Phased

\* The room of code has been replaced, and no other.
LEMMA Replaced ==
  ASSUME NEW h, HubType(h), NEW g, HubType(g), NEW code \in Codes, NEW room,
         g.rooms = [h.rooms EXCEPT ![code] = room]
  PROVE  /\ g.rooms[code] = room
         /\ \A gone : KeptRoom(h.rooms[code], room, gone) => Kept(h, g, code, gone)
<1>1. DOMAIN h.rooms = Codes
  BY DEF HubType
<1>2. g.rooms[code] = room /\ \A x \in Codes : x # code => g.rooms[x] = h.rooms[x]
  BY <1>1
<1> QED BY <1>2 DEF Kept

LEMMA CloseRoomRooms ==
  ASSUME NEW h, HubType(h), NEW code \in Codes, NEW error
  PROVE  /\ HubType(CloseRoom(h, code, error))
         /\ CloseRoom(h, code, error).rooms = [h.rooms EXCEPT ![code] = NoRoom]
         /\ Loosened(h, CloseRoom(h, code, error))
<1> DEFINE h1 == CloseSeat(h, code, "Host", error)
           h2 == CloseSeat(h1, code, "Join", error)
           h3 == [h2 EXCEPT !.rooms[code] = NoRoom]
           source == h.rooms[code].source
<1>1. "Host" \in Roles /\ "Join" \in Roles
  BY DEF Roles
<1>2. CloseRoom(h, code, error) = SourceAdjust(h3, source, 0, -1)
  BY DEF CloseRoom
<1>3. HubType(h1) /\ h1.rooms = h.rooms /\ Loosened(h, h1)
  BY <1>1, CloseSeatRooms
<1> HIDE DEF h1
<1>4. HubType(h2) /\ h2.rooms = h.rooms /\ Loosened(h1, h2)
  BY <1>1, <1>3, CloseSeatRooms
<1> HIDE DEF h2
<1>5. /\ HubType(h3) /\ h3.rooms = [h.rooms EXCEPT ![code] = NoRoom]
      /\ h3.conns = h2.conns
  BY <1>4, NoRoomType, RoomType
<1> HIDE DEF h3
<1>6. source \in Sources \cup {NoSource}
  BY Members DEF Room
<1>7. 0 \in Int /\ -1 \in Int
  OBVIOUS
<1> HIDE DEF source
<1>8. /\ HubType(SourceAdjust(h3, source, 0, -1))
      /\ SourceAdjust(h3, source, 0, -1).rooms = h3.rooms
      /\ SourceAdjust(h3, source, 0, -1).conns = h3.conns
  BY <1>5, <1>6, <1>7, SourceAdjustType
<1>9. Loosened(h, SourceAdjust(h3, source, 0, -1))
  BY <1>3, <1>4, <1>5, <1>8 DEF Loosened
<1> QED BY <1>2, <1>5, <1>8, <1>9

LEMMA CloseRoomKept ==
  ASSUME NEW h, HubType(h), NEW code \in Codes, NEW error, NEW gone,
         h.rooms[code].phase = "Ended" /\ ~h.rooms[code].result_acked =>
           "Result" \in gone
  PROVE  /\ Kept(h, CloseRoom(h, code, error), code, gone)
         /\ Loosened(h, CloseRoom(h, code, error))
<1>1. KeptRoom(h.rooms[code], NoRoom, gone)
  BY RoomGone
<1> QED BY <1>1, CloseRoomRooms, Replaced

LEMMA VacateSeatRooms ==
  ASSUME NEW h, HubType(h), NEW code \in Codes, NEW role \in Roles
  PROVE  LET g == VacateSeat(h, code, role)
             room == [h.rooms[code] EXCEPT !.seats[role] = EmptySeat]
         IN  /\ HubType(g) /\ room \in Room
             /\ g.rooms = [h.rooms EXCEPT ![code] = room]
             /\ g.rooms[code] = room /\ Loosened(h, g)
<1> DEFINE c == SeatConn(h, code, role)
           closed == IF c = NoConn THEN h
                     ELSE CloseConn(Detach(h, c), c, "normal")
           room == [h.rooms[code] EXCEPT !.seats[role] = EmptySeat]
           g == [closed EXCEPT !.rooms[code] = room]
<1>1. HubType(closed) /\ closed.rooms = h.rooms /\ Loosened(h, closed)
  <2>1. closed = CloseSeat(h, code, role, "None")
    BY DEF CloseSeat
  <2> HIDE DEF closed
  <2> QED BY <2>1, CloseSeatRooms
<1>2. VacateSeat(h, code, role) = [closed EXCEPT !.rooms[code].seats[role] = EmptySeat]
  BY DEF VacateSeat
<1> HIDE DEF closed
<1>3. room \in Room
  <2>1. h.rooms[code] \in Room
    BY Members
  <2> QED BY <2>1, RoomConstants DEF Room
<1>4. VacateSeat(h, code, role) = g
  BY <1>1, <1>2 DEF HubType
<1>5. DOMAIN h.rooms = Codes
  BY DEF HubType
<1> HIDE DEF room
<1>6. HubType(g) /\ g.rooms = [h.rooms EXCEPT ![code] = room] /\ g.conns = closed.conns
  BY <1>1, <1>3, RoomType
<1> HIDE DEF g
<1>7. g.rooms[code] = room
  BY <1>5, <1>6
<1>8. Loosened(h, g)
  BY <1>1, <1>6 DEF Loosened
<1> QED BY <1>3, <1>4, <1>6, <1>7, <1>8 DEF room

\* What may go with a role: the joiner takes its claim to the result along.
Leaving(role) == IF role = "Join" THEN {"Join", "Result"} ELSE {"Host"}

LEMMA SeatDepartedKept ==
  ASSUME NEW h, HubType(h), NEW code \in Codes, NEW role \in Roles,
         h.rooms[code].phase # "None", NEW reason,
         NEW gone, Leaving(role) \subseteq gone
  PROVE  /\ Kept(h, SeatDeparted(h, code, role, reason), code, gone)
         /\ Loosened(h, SeatDeparted(h, code, role, reason))
<1> DEFINE room    == h.rooms[code]
           vacated == VacateSeat(h, code, role)
           acked   == GiveUpResult(vacated, code, role)
           why     == IF role = "Host" THEN "host_left" ELSE reason
           told    == SendTo(vacated, code, Partner(role), PartnerLeft(why))
           opened  == ReopenRoom(vacated, code)
           asked   == SendTo(opened, code, "Host", PartnerLeft(reason))
           empty   == [room EXCEPT !.seats[role] = EmptySeat]
<1>1. /\ room \in Room /\ role \in {"Host", "Join"} /\ DOMAIN h.rooms = Codes
      /\ role \in gone
      /\ role = "Join" => "Result" \in gone
  BY Members DEF Roles, HubType, Leaving
<1>2. /\ empty \in Room /\ empty.phase = room.phase /\ empty.result = room.result
      /\ empty.result_acked = room.result_acked
      /\ empty.result_age = room.result_age
      /\ empty.seats = [room.seats EXCEPT ![role] = EmptySeat]
      /\ DOMAIN room.seats = Roles /\ ~empty.seats[role].present
      /\ \A r \in Roles \ {role} : empty.seats[r] = room.seats[r]
  BY <1>1, RoomConstants DEF Room, EmptySeat
<1>3. /\ HubType(vacated) /\ vacated.rooms = [h.rooms EXCEPT ![code] = empty]
      /\ vacated.rooms[code] = empty /\ Loosened(h, vacated)
  BY VacateSeatRooms
<1>4. SeatDeparted(h, code, role, reason) =
        IF ~room.seats[role].present THEN h
        ELSE IF room.phase = "Ended"
        THEN IF acked.rooms[code].result_acked
             THEN CloseRoom(acked, code, "None") ELSE acked
        ELSE IF EndsRoom(room, role) THEN CloseRoom(told, code, "None")
        ELSE BroadcastLobby(asked, code)
  BY DEF SeatDeparted
<1> HIDE DEF vacated, empty
<1>5. CASE ~room.seats[role].present
  BY <1>4, <1>5, KeptSame DEF Loosened
<1>6. CASE room.seats[role].present /\ room.phase = "Ended"
  <2> DEFINE given == [empty EXCEPT !.result_acked = TRUE]
             last  == IF role = "Join" THEN given ELSE empty
  <2>1. /\ last \in Room /\ last.phase = "Ended" /\ last.result = room.result
        /\ last.result_age = room.result_age /\ last.seats = empty.seats
        /\ role = "Join" \/ last.result_acked = room.result_acked
    BY <1>2, <1>6 DEF Room
  <2>2. acked = [vacated EXCEPT !.rooms[code] = last]
    BY <1>3 DEF GiveUpResult, HubType
  <2> HIDE DEF last, acked
  <2>3. /\ HubType(acked) /\ acked.rooms = [vacated.rooms EXCEPT ![code] = last]
        /\ acked.conns = vacated.conns
    BY <1>3, <2>1, <2>2, RoomType
  <2>4. acked.rooms = [h.rooms EXCEPT ![code] = last]
    BY <1>1, <1>3, <2>3
  <2>5. KeptRoom(room, last, gone)
    BY <1>1, <1>2, <1>6, <2>1 DEF KeptRoom, Phased, SameHolder
  <2>6. Kept(h, acked, code, gone) /\ acked.rooms[code] = last
    BY <2>3, <2>4, <2>5, Replaced
  <2>7. acked.rooms[code].result_acked =>
          /\ Kept(acked, CloseRoom(acked, code, "None"), code, gone)
          /\ Loosened(acked, CloseRoom(acked, code, "None"))
    BY <2>3, CloseRoomKept
  <2>8. \A g : Loosened(acked, g) => Loosened(h, g)
    BY <1>3, <2>3 DEF Loosened
  <2>9. Loosened(acked, acked)
    BY DEF Loosened
  <2> QED BY <1>4, <1>6, <2>6, <2>7, <2>8, <2>9, KeptTrans
<1>7. CASE room.seats[role].present /\ room.phase # "Ended" /\ EndsRoom(room, role)
  <2>1. HubType(told) /\ told.rooms = vacated.rooms /\ told.conns = vacated.conns
    BY <1>3, SendToSame DEF Same
  <2> HIDE DEF told
  <2>2. /\ HubType(CloseRoom(told, code, "None"))
        /\ CloseRoom(told, code, "None").rooms = [told.rooms EXCEPT ![code] = NoRoom]
        /\ Loosened(told, CloseRoom(told, code, "None"))
    BY <2>1, CloseRoomRooms
  <2>3. CloseRoom(told, code, "None").rooms = [h.rooms EXCEPT ![code] = NoRoom]
    BY <1>1, <1>3, <2>1, <2>2
  <2>4. KeptRoom(room, NoRoom, gone)
    BY <1>7, RoomGone
  <2>5. Kept(h, CloseRoom(told, code, "None"), code, gone)
    BY <2>2, <2>3, <2>4, Replaced
  <2>6. Loosened(h, CloseRoom(told, code, "None"))
    BY <1>3, <2>1, <2>2 DEF Loosened
  <2> QED BY <1>4, <1>7, <2>5, <2>6
<1>8. CASE room.seats[role].present /\ room.phase # "Ended" /\ ~EndsRoom(room, role)
  <2> DEFINE host  == [empty.seats["Host"] EXCEPT !.ready = FALSE]
             seats == [empty.seats EXCEPT !["Host"] = host]
             last  == [empty EXCEPT !.phase = "Waiting", !.idle = 0, !.seats = seats]
  <2>1. role = "Join" /\ room.phase # "Active" /\ "Host" \in Roles
    BY <1>1, <1>8 DEF EndsRoom, Roles
  <2>2. /\ host \in Seat /\ host.present = room.seats["Host"].present
        /\ host.token = room.seats["Host"].token
        /\ host.admitted = room.seats["Host"].admitted /\ ~host.ready
    <3>1. empty.seats["Host"] = room.seats["Host"] /\ room.seats["Host"] \in Seat
      BY <1>1, <1>2, <2>1 DEF Room
    <3> QED BY <3>1 DEF Seat
  <2> HIDE DEF host
  <2>3. /\ seats \in [Roles -> Seat] /\ seats["Host"] = host
        /\ ~seats["Join"].present
    BY <1>2, <2>1, <2>2 DEF Room
  <2>4. [empty EXCEPT !.phase = "Waiting", !.idle = 0,
                      !.seats["Host"].ready = FALSE] = last
    BY <1>2 DEF Room, host
  <2> HIDE DEF seats
  <2>5. /\ last \in Room /\ last.phase = "Waiting" /\ last.seats = seats
        /\ last.result = room.result /\ last.result_acked = room.result_acked
    BY <1>2, <2>3 DEF Room, Phases
  <2>6. opened = [vacated EXCEPT !.rooms[code] = last]
    <3> HIDE DEF last
    <3>1. opened = [vacated EXCEPT !.rooms[code] =
                     [vacated.rooms[code] EXCEPT !.phase = "Waiting", !.idle = 0,
                                                 !.seats["Host"].ready = FALSE]]
      BY <1>3 DEF ReopenRoom, HubType
    <3> QED BY <1>3, <2>4, <3>1
  <2> HIDE DEF last, opened
  <2>7. /\ HubType(opened) /\ opened.rooms = [vacated.rooms EXCEPT ![code] = last]
        /\ opened.conns = vacated.conns
    BY <1>3, <2>5, <2>6, RoomType
  <2>8. opened.rooms = [h.rooms EXCEPT ![code] = last]
    BY <1>1, <1>3, <2>7
  <2>9. KeptRoom(room, last, gone)
    <3>1. Phased(room) => Phased(last)
      BY <1>1, <1>8, <2>1, <2>2, <2>3, <2>5 DEF Phased, Room, Phases
    <3> QED
      BY <1>1, <1>8, <2>1, <2>2, <2>3, <2>5, <3>1
      DEF KeptRoom, SameHolder, Roles
  <2>10. Kept(h, opened, code, gone)
    BY <2>7, <2>8, <2>9, Replaced
  <2>11. HubType(asked) /\ Kept(opened, asked, code, gone)
    BY <2>7, SendToKept
  <2>12. asked.conns = opened.conns
    BY <2>7, SendToSame DEF Same
  <2> HIDE DEF asked
  <2>13. BroadcastLobby(asked, code).conns = asked.conns
    BY <2>11, BroadcastLobbySame DEF Same
  <2>14. Loosened(h, BroadcastLobby(asked, code))
    BY <1>3, <2>7, <2>12, <2>13 DEF Loosened
  <2>15. Kept(asked, BroadcastLobby(asked, code), code, gone)
    BY <2>11, BroadcastLobbyKept
  <2> QED BY <1>4, <1>8, <2>10, <2>11, <2>14, <2>15, KeptTrans
<1> QED BY <1>5, <1>6, <1>7, <1>8

\* The seat a connection is bound to leaves with it.
LEMMA FatalKept ==
  ASSUME NEW h, HubType(h), NEW c \in Conns, NEW reason, NEW gone,
         Exists(h, h.conns[c].room) =>
           h.conns[c].role \in Roles /\ Leaving(h.conns[c].role) \subseteq gone
  PROVE  Kept(h, Fatal(h, c, reason), h.conns[c].room, gone)
<1> DEFINE code  == h.conns[c].room
           role  == h.conns[c].role
           ended == FatalUnbound(Detach(h, c), c, reason)
           left  == [ended EXCEPT !.rooms[code].seats[role].connected = FALSE]
<1>1. code \in Codes \cup {NoCode}
  BY Members DEF Conn
<1>2. HubType(ended) /\ ended.rooms = h.rooms
  BY DropClose DEF Dropped
<1> HIDE DEF ended
<1>3. Kept(h, ended, code, gone)
  BY <1>2, KeptSame
<1>4. \/ Fatal(h, c, reason) = h
      \/ Fatal(h, c, reason) = ended
      \/ /\ Exists(h, code)
         /\ Fatal(h, c, reason) = SeatDeparted(left, code, role, "left")
  BY DEF Fatal, ended
<1>5. ASSUME Exists(h, code)
      PROVE  Kept(h, SeatDeparted(left, code, role, "left"), code, gone)
  <2> DEFINE old   == h.rooms[code]
             seat  == [old.seats[role] EXCEPT !.connected = FALSE]
             seats == [old.seats EXCEPT ![role] = seat]
             room  == [old EXCEPT !.seats = seats]
  <2>1. code \in Codes /\ role \in Roles /\ Leaving(role) \subseteq gone
    BY <1>1, <1>5 DEF Exists
  <2>2. /\ old \in Room /\ old.seats \in [Roles -> Seat] /\ old.seats[role] \in Seat
        /\ old.phase # "None"
    BY <1>5, <2>1, Members DEF Exists, Room
  <2>3. left = [ended EXCEPT !.rooms[code] = room]
    <3>1. left = [ended EXCEPT !.rooms[code] =
                   [ended.rooms[code] EXCEPT !.seats[role].connected = FALSE]]
      BY <1>2, <2>1 DEF HubType
    <3> DEFINE r0 == [old EXCEPT !.seats[role].connected = FALSE]
    <3>2. r0 = room
      <4> HIDE DEF old
      <4> QED BY <2>1, <2>2 DEF Room
    <3>3. left = [ended EXCEPT !.rooms[code] = r0]
      BY <1>2, <3>1
    <3> HIDE DEF r0, room, left
    <3> QED BY <3>2, <3>3
  <2> HIDE DEF left, code, role
  <2>4. /\ seat \in Seat /\ seat.present = old.seats[role].present
        /\ seat.token = old.seats[role].token /\ seat.ready = old.seats[role].ready
        /\ seat.admitted = old.seats[role].admitted
    BY <2>2 DEF Seat
  <2> HIDE DEF seat
  <2>5. SameSeats(room, old) /\ room \in Room /\ room.phase # "None"
    BY <2>1, <2>2, <2>4 DEF SameSeats, Room
  <2> HIDE DEF room
  <2>6. HubType(left) /\ left.rooms = [h.rooms EXCEPT ![code] = room]
    BY <1>2, <2>1, <2>3, <2>5, RoomType
  <2>7. Kept(h, left, code, gone) /\ left.rooms[code] = room
    <3>1. KeptRoom(old, room, gone)
      BY <2>2, <2>5, SameSeatsKept
    <3> QED BY <2>1, <2>6, <3>1, Replaced
  <2>8. Kept(left, SeatDeparted(left, code, role, "left"), code, gone)
    BY <2>1, <2>5, <2>6, <2>7, SeatDepartedKept
  <2> QED BY <2>7, <2>8, KeptTrans
<1> QED
  <2>1. Kept(h, h, code, gone)
    BY KeptSame
  <2> HIDE DEF left, code, role
  <2> QED BY <1>3, <1>4, <1>5, <2>1 DEF code

LEMMA NoteInvalidKept ==
  ASSUME NEW h, HubType(h), NEW c \in Conns, NEW gone,
         Exists(h, h.conns[c].room) =>
           h.conns[c].role \in Roles /\ Leaving(h.conns[c].role) \subseteq gone
  PROVE  Kept(h, NoteInvalid(h, c), h.conns[c].room, gone)
<1> DEFINE conn == [h.conns[c] EXCEPT !.invalid = @ + 1]
           counted == [h EXCEPT !.conns[c] = conn]
<1>1. h.conns[c] \in Conn
  BY Members
<1>2. conn \in Conn /\ conn.room = h.conns[c].room /\ conn.role = h.conns[c].role
  BY <1>1 DEF Conn
<1>3. counted = [h EXCEPT !.conns[c].invalid = @ + 1]
  BY DEF HubType
<1> HIDE DEF conn
<1>4. /\ HubType(counted) /\ counted.rooms = h.rooms
      /\ counted.conns = [h.conns EXCEPT ![c] = conn]
  BY <1>2, ConnType
<1>5. DOMAIN h.conns = Conns
  BY DEF HubType
<1> HIDE DEF counted
<1>6. counted.conns[c] = conn
  BY <1>4, <1>5
<1>7. /\ Kept(h, counted, h.conns[c].room, gone)
      /\ \A reason : Kept(counted, Fatal(counted, c, reason), h.conns[c].room, gone)
  BY <1>2, <1>4, <1>6, KeptSame, FatalKept DEF Exists
<1>8. \/ NoteInvalid(h, c) = counted
      \/ NoteInvalid(h, c) = Fatal(counted, c, "Bad_Msg")
  BY <1>3 DEF NoteInvalid
<1> QED BY <1>7, <1>8, KeptTrans

LEMMA RejectKept ==
  ASSUME NEW h, HubType(h), NEW c \in Conns, NEW reason, NEW gone,
         Exists(h, h.conns[c].room) =>
           h.conns[c].role \in Roles /\ Leaving(h.conns[c].role) \subseteq gone
  PROVE  Kept(h, Reject(h, c, reason), h.conns[c].room, gone)
<1> DEFINE sent == Send(h, c, Error(reason, FALSE))
<1>1. HubType(sent) /\ sent.conns = h.conns /\ sent.rooms = h.rooms
  BY SendSame DEF Same
<1> HIDE DEF sent
<1>2. Kept(h, sent, h.conns[c].room, gone)
  BY <1>1, KeptSame
<1>3. Kept(sent, NoteInvalid(sent, c), h.conns[c].room, gone)
  BY <1>1, NoteInvalidKept DEF Exists
<1> QED BY <1>2, <1>3, KeptTrans DEF Reject, sent

-----------------------------------------------------------------------------
(* Edits of one seat and of one room *)

LEMMA SeatSet ==
  ASSUME NEW h, HubType(h), NEW code \in Codes, NEW role \in Roles,
         NEW seat \in Seat
  PROVE  LET g    == SetSeat(h, code, role, seat)
             room == g.rooms[code]
             old  == h.rooms[code]
         IN  /\ HubType(g) /\ g.conns = h.conns
             /\ g.rooms = [h.rooms EXCEPT ![code] = room]
             /\ room \in Room /\ room.seats[role] = seat
             /\ \A r \in Roles : r # role => room.seats[r] = old.seats[r]
             /\ room.phase = old.phase /\ room.result = old.result
             /\ room.result_acked = old.result_acked
             /\ room.result_age = old.result_age
<1> DEFINE old  == h.rooms[code]
           room == [old EXCEPT !.seats[role] = seat]
           g    == [h EXCEPT !.rooms[code] = room]
<1>1. SetSeat(h, code, role, seat) = g
  BY DEF SetSeat, HubType
<1>2. old \in Room
  BY Members
<1>3. /\ room \in Room /\ room.seats[role] = seat
      /\ \A r \in Roles : r # role => room.seats[r] = old.seats[r]
      /\ room.phase = old.phase /\ room.result = old.result
      /\ room.result_acked = old.result_acked
      /\ room.result_age = old.result_age
  <2> HIDE DEF old
  <2> QED BY <1>2 DEF Room
<1>4. /\ HubType(g) /\ g.conns = h.conns
      /\ g.rooms = [h.rooms EXCEPT ![code] = room]
  <2> HIDE DEF room
  <2> QED BY <1>3, RoomType
<1>5. g.rooms[code] = room
  <2>1. DOMAIN h.rooms = Codes
    BY DEF HubType
  <2> HIDE DEF g, room
  <2> QED BY <1>4, <2>1
<1> HIDE DEF g, room
<1> QED BY <1>1, <1>3, <1>4, <1>5

LEMMA TouchKept ==
  ASSUME NEW h, HubType(h), NEW code \in Codes, NEW gone
  PROVE  /\ HubType(Touch(h, code)) /\ Touch(h, code).conns = h.conns
         /\ Kept(h, Touch(h, code), code, gone)
         /\ Touch(h, code).rooms[code] \in Room
         /\ Touch(h, code).rooms[code].seats = h.rooms[code].seats
         /\ Touch(h, code).rooms[code].phase = h.rooms[code].phase
<1> DEFINE room == [h.rooms[code] EXCEPT !.idle = 0]
<1>1. h.rooms[code] \in Room
  BY Members
<1>2. /\ room \in Room /\ SameSeats(room, h.rooms[code])
      /\ room.phase = h.rooms[code].phase /\ room.seats = h.rooms[code].seats
  BY <1>1 DEF Room, SameSeats
<1>3. Touch(h, code) = [h EXCEPT !.rooms[code] = room]
  BY DEF Touch, HubType
<1> HIDE DEF room
<1>4. KeptRoom(h.rooms[code], room, gone)
  BY <1>1, <1>2, SameSeatsKept
<1>5. LET g == [h EXCEPT !.rooms[code] = room]
      IN  Kept(h, g, code, gone) /\ g.conns = h.conns /\ g.rooms[code] = room
  BY <1>2, <1>4, KeptEdit
<1> QED BY <1>2, <1>3, <1>5 DEF Kept

LEMMA SeatLostKept ==
  ASSUME NEW h, HubType(h), NEW code \in Codes, NEW role \in Roles, NEW gone
  PROVE  Kept(h, SeatLost(h, code, role), code, gone)
<1> DEFINE seat == [h.rooms[code].seats[role] EXCEPT
                      !.connected = FALSE, !.conn = NoConn, !.lost = 0]
           held == SetSeat(h, code, role, seat)
           told == SendTo(held, code, Partner(role),
                          [t |-> "partner_disconnected"])
           room == held.rooms[code]
<1>1. h.rooms[code].seats[role] \in Seat /\ h.rooms[code] \in Room
  BY Members
<1>2. /\ seat \in Seat /\ seat.present = h.rooms[code].seats[role].present
      /\ seat.token = h.rooms[code].seats[role].token
      /\ seat.ready = h.rooms[code].seats[role].ready
      /\ seat.admitted = h.rooms[code].seats[role].admitted
  BY <1>1 DEF Seat
<1>3. held = [h EXCEPT !.rooms[code].seats[role] =
                [@ EXCEPT !.connected = FALSE, !.conn = NoConn, !.lost = 0]]
  BY DEF SetSeat, HubType, Room
<1>4. \/ SeatLost(h, code, role) = held
      \/ SeatLost(h, code, role) = told
      \/ SeatLost(h, code, role) = BroadcastLobby(told, code)
  BY <1>3 DEF SeatLost
<1> HIDE DEF seat
<1>5. /\ HubType(held) /\ held.rooms = [h.rooms EXCEPT ![code] = room]
      /\ room \in Room /\ SameSeats(room, h.rooms[code])
  BY SMTT(30), <1>2, SeatSet DEF SameSeats
<1> HIDE DEF room, held
<1>6. Kept(h, held, code, gone)
  <2>1. KeptRoom(h.rooms[code], room, gone)
    BY <1>1, <1>5, SameSeatsKept
  <2> QED BY <1>5, <2>1, Replaced
<1>7. HubType(told) /\ Kept(held, told, code, gone)
  BY <1>5, SendToKept
<1> HIDE DEF told
<1>8. Kept(told, BroadcastLobby(told, code), code, gone)
  BY <1>7, BroadcastLobbyKept
<1> QED BY <1>4, <1>6, <1>7, <1>8, KeptTrans

\* A run starts between players who are both there.
LEMMA StartOrBroadcastKept ==
  ASSUME NEW h, HubType(h), NEW code \in Codes, NEW gone
  PROVE  Kept(h, StartOrBroadcast(h, code), code, gone)
<1> DEFINE old    == h.rooms[code]
           room   == [old EXCEPT !.phase = "Active"]
           active == [h EXCEPT !.rooms[code] = room]
           told   == Send(active, old.seats["Host"].conn, StartOf(old))
           both   == Send(told, old.seats["Join"].conn, StartOf(old))
<1>1. old \in Room
  BY Members
<1>2. active = [h EXCEPT !.rooms[code].phase = "Active"]
  BY DEF HubType
<1>3. StartOrBroadcast(h, code) =
        IF MayStart(old) THEN both ELSE BroadcastLobby(h, code)
  BY <1>2 DEF StartOrBroadcast
<1>4. MayStart(old) => Kept(h, active, code, gone)
  <2>1. /\ room \in Room /\ room.phase = "Active" /\ room.seats = old.seats
        /\ room.result = old.result /\ room.result_acked = old.result_acked
    BY <1>1 DEF Room, Phases
  <2> HIDE DEF old, room
  <2>2. ASSUME MayStart(old) PROVE KeptRoom(old, room, gone)
    <3>1. /\ old.phase = "Selecting"
          /\ old.seats["Host"].present /\ old.seats["Host"].admitted
          /\ old.seats["Host"].ready
          /\ old.seats["Join"].present /\ old.seats["Join"].admitted
          /\ old.seats["Join"].ready
      BY <2>2 DEF MayStart, Roles
    <3> QED BY <2>1, <3>1 DEF KeptRoom, Phased, SameHolder
  <2> QED BY <2>1, <2>2, KeptEdit DEF old
<1> HIDE DEF active
<1>5. MayStart(old) => HubType(active)
  BY <1>4 DEF Kept
<1>6. MayStart(old) => HubType(told) /\ Kept(active, told, code, gone)
  BY <1>5, SendKept
<1> HIDE DEF told
<1>7. MayStart(old) => Kept(told, both, code, gone)
  BY <1>6, SendKept
<1> HIDE DEF both
<1>8. Kept(h, BroadcastLobby(h, code), code, gone)
  BY BroadcastLobbyKept
<1> QED BY <1>3, <1>4, <1>6, <1>7, <1>8, KeptTrans

-----------------------------------------------------------------------------
(* Hello *)

RoomsAre(g, h) == HubType(g) /\ g.rooms = h.rooms

LEMMA BindRooms ==
  ASSUME NEW h, HubType(h), NEW c \in Conns, NEW code \in Codes,
         NEW role \in Roles, NEW resumed
  PROVE  RoomsAre(Bind(h, c, code, role, resumed), h)
<1> DEFINE conn == [h.conns[c] EXCEPT !.hello_done = TRUE, !.room = code,
                                      !.role = role]
           b == [h EXCEPT !.conns[c] = conn]
           welcome == [t |-> "welcome", room |-> code, role |-> role,
                       token |-> h.rooms[code].seats[role].token,
                       resumed |-> resumed, phase |-> h.rooms[code].phase]
<1>1. h.conns[c] \in Conn
  BY Members
<1>2. conn \in Conn
  BY <1>1 DEF Conn
<1>3. Bind(h, c, code, role, resumed) = Send(b, c, welcome)
  BY DEF Bind, HubType
<1> HIDE DEF conn, welcome
<1>4. HubType(b) /\ b.rooms = h.rooms
  BY <1>2, ConnType
<1> HIDE DEF b
<1>5. Same(Send(b, c, welcome), b)
  BY <1>4, SendSame
<1> QED BY <1>3, <1>4, <1>5 DEF Same, RoomsAre

\* A room that was there is kept, and a new one starts by the book.
MovedRoom(old, new, gone) ==
  KeptRoom(old, new, gone) \/ (old.phase = "None" /\ Phased(new))

Moved(h, g, code, gone) ==
  /\ HubType(g)
  /\ \A x \in Codes : x # code => g.rooms[x] = h.rooms[x]
  /\ code \in Codes => MovedRoom(h.rooms[code], g.rooms[code], gone)

LEMMA KeptMoved ==
  ASSUME NEW h, NEW g, NEW code, NEW gone, Kept(h, g, code, gone)
  PROVE  Moved(h, g, code, gone)
BY DEF Kept, Moved, MovedRoom

LEMMA HostHelloMoved ==
  ASSUME NEW h, HubType(h), NEW c \in Conns,
         NEW hello, hello.room \in Codes, hello.game \in Games,
         ~Exists(h, hello.room), NEW gone
  PROVE  Moved(h, HostHello(h, c, hello), hello.room, gone)
<1> DEFINE code == hello.room
<1>1. PICK room \in Room : \E g : OpenedFor(h, c, hello, room, g)
  BY HostHelloRoom
<1>2. PICK g : OpenedFor(h, c, hello, room, g)
  BY <1>1
<1> DEFINE bound == Bind(g, c, code, "Host", FALSE)
<1>3. HubType(bound) /\ bound.rooms = [h.rooms EXCEPT ![code] = room]
  <2>1. HubType(g) /\ g.rooms = [h.rooms EXCEPT ![code] = room] /\ "Host" \in Roles
    BY <1>2 DEF OpenedFor, Roles
  <2>2. RoomsAre(bound, g)
    BY <2>1, BindRooms
  <2> HIDE DEF bound
  <2> QED BY <2>1, <2>2 DEF RoomsAre
<1> HIDE DEF bound
<1>4. /\ HubType(BroadcastLobby(bound, code))
      /\ BroadcastLobby(bound, code).rooms = [h.rooms EXCEPT ![code] = room]
  BY <1>3, BroadcastLobbySame DEF Same
<1>5. HostHello(h, c, hello) = BroadcastLobby(bound, code)
  BY <1>2 DEF OpenedFor, bound
<1>6. h.rooms[code].phase = "None" /\ Phased(room)
  <2>1. h.rooms[code].phase = "None"
    BY NonesAssumption DEF Exists
  <2> HIDE DEF code
  <2> QED BY <1>2, <2>1 DEF OpenedFor, Phased
<1>7. DOMAIN h.rooms = Codes
  BY DEF HubType
<1> QED BY <1>4, <1>5, <1>6, <1>7 DEF Moved, MovedRoom

LEMMA JoinHelloKept ==
  ASSUME NEW h, HubType(h), NEW c \in Conns,
         NEW hello, hello.room \in Codes, Exists(h, hello.room),
         h.rooms[hello.room].phase = "Waiting",
         ~h.rooms[hello.room].seats["Join"].present, NEW gone
  PROVE  Kept(h, JoinHello(h, c, hello), hello.room, gone)
<1> DEFINE code == hello.room
           old  == h.rooms[code]
<1>1. PICK room \in Room : \E g : KnockedBy(h, c, hello, room, g)
  BY JoinHelloRoom
<1>2. PICK g : KnockedBy(h, c, hello, room, g)
  BY <1>1
<1> DEFINE bound == Bind(g, c, code, "Join", FALSE)
<1>3. HubType(bound) /\ bound.rooms = [h.rooms EXCEPT ![code] = room]
  <2>1. HubType(g) /\ g.rooms = [h.rooms EXCEPT ![code] = room] /\ "Join" \in Roles
    BY <1>2 DEF KnockedBy, Roles
  <2>2. RoomsAre(bound, g)
    BY <2>1, BindRooms
  <2> HIDE DEF bound
  <2> QED BY <2>1, <2>2 DEF RoomsAre
<1> HIDE DEF bound
<1>4. /\ HubType(BroadcastLobby(bound, code))
      /\ BroadcastLobby(bound, code).rooms = [h.rooms EXCEPT ![code] = room]
  BY <1>3, BroadcastLobbySame DEF Same
<1>5. JoinHello(h, c, hello) = BroadcastLobby(bound, code)
  BY <1>2 DEF KnockedBy, bound
<1>6. KeptRoom(old, room, gone)
  <2>1. /\ room.phase = "Admission" /\ room.result = old.result
        /\ room.seats["Join"].present /\ ~room.seats["Join"].admitted
        /\ ~room.seats["Join"].ready /\ ~room.seats["Host"].ready
        /\ room.seats["Host"].present = old.seats["Host"].present
        /\ room.seats["Host"].token = old.seats["Host"].token
        /\ room.seats["Host"].admitted = old.seats["Host"].admitted
    BY <1>2 DEF KnockedBy
  <2>2. old.phase = "Waiting" /\ ~old.seats["Join"].present
    OBVIOUS
  <2> HIDE DEF old
  <2> QED BY <2>1, <2>2 DEF KeptRoom, Phased, SameHolder, Roles
<1> HIDE DEF code
<1> QED BY <1>4, <1>5, <1>6, Replaced DEF code

LEMMA SupersedeRooms ==
  ASSUME NEW h, HubType(h), NEW code \in Codes, NEW role \in Roles
  PROVE  /\ HubType(Supersede(h, code, role))
         /\ Supersede(h, code, role).rooms = h.rooms
<1> DEFINE c == SeatConn(h, code, role)
<1>1. c \in Conns \cup {NoConn}
  BY SeatConnType
<1>2. Supersede(h, code, role) =
        IF c = NoConn THEN h ELSE CloseConn(Detach(h, c), c, "superseded")
  BY DEF Supersede
<1> HIDE DEF c
<1>3. c \in Conns => Dropped(CloseConn(Detach(h, c), c, "superseded"), h, c)
  BY DropClose
<1> QED BY <1>1, <1>2, <1>3 DEF Dropped

\* A reclaimed seat keeps its token, its place in the lobby and its readiness.
LEMMA ResumeKept ==
  ASSUME NEW h, HubType(h), NEW c \in Conns,
         NEW hello, hello.room \in Codes, hello.role \in Roles, NEW gone
  PROVE  Kept(h, Resume(h, c, hello), hello.room, gone)
<1> DEFINE code   == hello.room
           role   == hello.role
           old    == h.rooms[code]
           freed  == Supersede(h, code, role)
           seat   == [freed.rooms[code].seats[role] EXCEPT
                        !.connected = TRUE, !.conn = c, !.lost = 0]
           seats  == [old.seats EXCEPT ![role] = seat]
           room   == [old EXCEPT !.idle = 0, !.seats = seats]
           seated == [freed EXCEPT !.rooms[code] =
                        [@ EXCEPT !.idle = 0, !.seats[role] = seat]]
           bind   == Bind(seated, c, code, role, TRUE)
           bound  == SendTo(bind, code, Partner(role), [t |-> "partner_rejoined"])
           result == [t |-> "run_ended", result |-> bound.rooms[code].result]
<1>1. /\ old \in Room /\ old.seats \in [Roles -> Seat] /\ old.seats[role] \in Seat
      /\ DOMAIN h.rooms = Codes
  BY Members DEF HubType, Room
<1>2. freed.rooms = h.rooms /\ HubType(freed)
  BY SupersedeRooms
<1>3. \/ Resume(h, c, hello) = StartOrBroadcast(bound, code)
      \/ Resume(h, c, hello) = Send(bound, c, result)
      \/ Resume(h, c, hello) = bound
  BY DEF Resume
<1> HIDE DEF freed
<1>4. /\ seat \in Seat /\ seat.present = old.seats[role].present
      /\ seat.token = old.seats[role].token
      /\ seat.ready = old.seats[role].ready
      /\ seat.admitted = old.seats[role].admitted
  BY <1>1, <1>2 DEF Seat
<1> HIDE DEF seat
<1>5. /\ seats \in [Roles -> Seat] /\ seats[role] = seat
      /\ \A r \in Roles \ {role} : seats[r] = old.seats[r]
  BY <1>1, <1>4
<1>6. seated = [freed EXCEPT !.rooms[code] = room]
  <2>1. [old EXCEPT !.idle = 0, !.seats[role] = seat] = room
    BY <1>1 DEF Room
  <2>2. seated = [freed EXCEPT !.rooms[code] =
                    [freed.rooms[code] EXCEPT !.idle = 0, !.seats[role] = seat]]
    BY <1>2 DEF HubType
  <2> HIDE DEF room, seated
  <2> QED BY <1>2, <2>1, <2>2
<1> HIDE DEF seats
<1>7. room \in Room /\ SameSeats(room, old)
  BY <1>1, <1>4, <1>5 DEF Room, SameSeats
<1> HIDE DEF room, seated
<1>8. HubType(seated) /\ seated.rooms = [h.rooms EXCEPT ![code] = room]
  BY <1>2, <1>6, <1>7, RoomType
<1>9. Kept(h, seated, code, gone)
  <2>1. KeptRoom(old, room, gone)
    BY <1>1, <1>7, SameSeatsKept
  <2> HIDE DEF code
  <2> QED BY <1>8, <2>1, Replaced DEF code
<1>10. HubType(bind) /\ bind.rooms = seated.rooms
  <2>1. RoomsAre(bind, seated)
    BY <1>8, BindRooms
  <2> HIDE DEF bind
  <2> QED BY <2>1 DEF RoomsAre
<1> HIDE DEF bind
<1>11. Kept(seated, bind, code, gone)
  BY <1>10, KeptSame
<1>12. HubType(bound) /\ Kept(bind, bound, code, gone)
  BY <1>10, SendToKept
<1> HIDE DEF bound, result
<1>13. /\ Kept(bound, StartOrBroadcast(bound, code), code, gone)
       /\ Kept(bound, Send(bound, c, result), code, gone)
  BY <1>12, StartOrBroadcastKept, SendKept
<1> QED BY <1>3, <1>9, <1>11, <1>12, <1>13, KeptTrans

LEMMA FatalUnseated ==
  ASSUME NEW h, HubType(h), NEW c \in Conns, h.conns[c].room = NoCode,
         NEW reason, NEW code, NEW gone
  PROVE  Kept(h, Fatal(h, c, reason), code, gone)
<1> DEFINE ended == FatalUnbound(Detach(h, c), c, reason)
<1>1. HubType(ended) /\ ended.rooms = h.rooms
  BY DropClose DEF Dropped
<1>2. Fatal(h, c, reason) = h \/ Fatal(h, c, reason) = ended
  BY DEF Fatal, Exists
<1> HIDE DEF ended
<1> QED BY <1>1, <1>2, KeptSame

\* A token whose seat has outlived its grace expires the seat.
LEMMA ReclaimKept ==
  ASSUME NEW h, HubType(h), NEW c \in Conns, h.conns[c].room = NoCode,
         NEW hello, hello.room \in Codes, hello.role \in Roles, NEW gone,
         GraceOver(h.rooms[hello.room].seats[hello.role]) =>
           Leaving(hello.role) \subseteq gone
  PROVE  Kept(h, Reclaim(h, c, hello), hello.room, gone)
<1> DEFINE refusal == ReclaimRefusal(h, hello)
           code == hello.room
           left == SeatDeparted(h, code, hello.role, "timeout")
<1>1. refusal = "Expired" =>
        /\ h.rooms[code].phase # "None"
        /\ GraceOver(h.rooms[code].seats[hello.role])
  BY DEF ReclaimRefusal, Exists, Claims, GraceOver
<1>2. \/ Reclaim(h, c, hello) = Resume(h, c, hello)
      \/ /\ refusal = "Expired"
         /\ Reclaim(h, c, hello) = Fatal(left, c, "Run_Not_Found")
      \/ Reclaim(h, c, hello) = Fatal(h, c, refusal)
  BY DEF Reclaim
<1> HIDE DEF refusal
<1>3. refusal = "Expired" => Kept(h, left, code, gone) /\ Loosened(h, left)
  BY <1>1, SeatDepartedKept
<1> HIDE DEF left
<1>4. refusal = "Expired" => Kept(left, Fatal(left, c, "Run_Not_Found"), code, gone)
  <2>1. refusal = "Expired" => left.conns[c].room = NoCode /\ HubType(left)
    BY <1>3 DEF Loosened, Kept
  <2> QED BY <2>1, FatalUnseated
<1>5. /\ Kept(h, Resume(h, c, hello), code, gone)
      /\ Kept(h, Fatal(h, c, refusal), code, gone)
  BY ResumeKept, FatalUnseated
<1> QED BY <1>2, <1>3, <1>4, <1>5, KeptTrans

LEMMA HandleHelloMoved ==
  ASSUME NEW h, HubType(h), NEW c \in Conns, h.conns[c].room = NoCode,
         NEW hello, hello.room \in Codes \cup {NoCode}, hello.role \in Roles,
         hello.game \in Games, NEW gone,
         hello.room \in Codes /\ GraceOver(h.rooms[hello.room].seats[hello.role])
           => Leaving(hello.role) \subseteq gone
  PROVE  Moved(h, HandleHello(h, c, hello), hello.room, gone)
<1> DEFINE code == hello.room
           refusal == IF hello.role = "Host" THEN HostRefusal(h, c, hello)
                      ELSE JoinRefusal(h, hello)
<1>1. \A reason : Kept(h, Fatal(h, c, reason), code, gone)
  BY FatalUnseated
<1>2. \/ \E reason : HandleHello(h, c, hello) = Fatal(h, c, reason)
      \/ code # NoCode /\ HandleHello(h, c, hello) = Reclaim(h, c, hello)
      \/ /\ code # NoCode /\ HostRefusal(h, c, hello) = "None"
         /\ HandleHello(h, c, hello) = HostHello(h, c, hello)
      \/ /\ code # NoCode /\ JoinRefusal(h, hello) = "None"
         /\ HandleHello(h, c, hello) = JoinHello(h, c, hello)
  BY DEF HandleHello
<1>3. HostRefusal(h, c, hello) = "None" => ~Exists(h, code)
  BY DEF HostRefusal
<1>4. JoinRefusal(h, hello) = "None" =>
        /\ Exists(h, code) /\ h.rooms[code].phase = "Waiting"
        /\ ~h.rooms[code].seats["Join"].present
  BY DEF JoinRefusal
<1>5. code # NoCode => Kept(h, Reclaim(h, c, hello), code, gone)
  BY ReclaimKept
<1>6. code # NoCode /\ HostRefusal(h, c, hello) = "None" =>
        Moved(h, HostHello(h, c, hello), code, gone)
  BY <1>3, HostHelloMoved
<1>7. code # NoCode /\ JoinRefusal(h, hello) = "None" =>
        Kept(h, JoinHello(h, c, hello), code, gone)
  BY <1>4, JoinHelloKept
<1> QED BY <1>1, <1>2, <1>5, <1>6, <1>7, KeptMoved

-----------------------------------------------------------------------------
(* The messages of a greeted connection *)

\* c speaks for a seat of a room, and may give that seat up.
Speaker(h, c, gone) ==
  /\ HubType(h) /\ h.conns[c].room \in Codes /\ h.conns[c].role \in Roles
  /\ h.rooms[h.conns[c].room].phase # "None"
  /\ Leaving(h.conns[c].role) \subseteq gone

LEMMA SpeakerRejects ==
  ASSUME NEW h, NEW c \in Conns, NEW gone, Speaker(h, c, gone)
  PROVE  /\ \A reason : Kept(h, Reject(h, c, reason), h.conns[c].room, gone)
         /\ \A reason : Kept(h, Fatal(h, c, reason), h.conns[c].room, gone)
         /\ Kept(h, NoteInvalid(h, c), h.conns[c].room, gone)
BY RejectKept, FatalKept, NoteInvalidKept DEF Speaker

\* Before the start a choice may be changed and readiness taken back, and
\* readiness may be declared while both select.
LEMMA ChoiceKept ==
  ASSUME NEW old, NEW room, NEW role \in Roles, NEW gone,
         room.phase = old.phase, room.result = old.result, PreStart(old),
         room.seats[role].present = old.seats[role].present,
         room.seats[role].token = old.seats[role].token,
         room.seats[role].admitted = old.seats[role].admitted,
         ~room.seats[role].ready \/ old.phase = "Selecting",
         \A r \in Roles : r # role => room.seats[r] = old.seats[r]
  PROVE  KeptRoom(old, room, gone)
<1>1. role \in {"Host", "Join"} /\ {"Host", "Join"} = Roles
  BY DEF Roles
<1>2. old.phase \in {"Waiting", "Admission", "Selecting"}
  BY DEF PreStart
<1>3. \A r \in Roles : /\ room.seats[r].present = old.seats[r].present
                       /\ room.seats[r].token = old.seats[r].token
                       /\ room.seats[r].admitted = old.seats[r].admitted
                       /\ \/ ~room.seats[r].ready \/ old.phase = "Selecting"
                          \/ room.seats[r].ready = old.seats[r].ready
  OBVIOUS
<1>4. Phased(old) => Phased(room)
  BY <1>1, <1>2, <1>3 DEF Phased
<1> QED BY <1>2, <1>3, <1>4 DEF KeptRoom, SameHolder

LEMMA ReplacedBroadcast ==
  ASSUME NEW h, NEW g, NEW code \in Codes, NEW gone, Kept(h, g, code, gone)
  PROVE  /\ Kept(h, BroadcastLobby(Touch(g, code), code), code, gone)
         /\ Kept(h, StartOrBroadcast(Touch(g, code), code), code, gone)
<1>1. HubType(g)
  BY DEF Kept
<1>2. HubType(Touch(g, code)) /\ Kept(g, Touch(g, code), code, gone)
  BY <1>1, TouchKept
<1>3. /\ Kept(Touch(g, code), BroadcastLobby(Touch(g, code), code), code, gone)
      /\ Kept(Touch(g, code), StartOrBroadcast(Touch(g, code), code), code, gone)
  BY <1>2, BroadcastLobbyKept, StartOrBroadcastKept
<1> QED BY <1>2, <1>3, KeptTrans

LEMMA HandleSelectKept ==
  ASSUME NEW h, NEW c \in Conns, NEW gone, Speaker(h, c, gone),
         NEW m, m.archetype \in Archetypes
  PROVE  Kept(h, HandleSelect(h, c, m), h.conns[c].room, gone)
<1> DEFINE code   == h.conns[c].room
           role   == h.conns[c].role
           old    == h.rooms[code]
           seat   == [old.seats[role] EXCEPT !.archetype = m.archetype, !.ready = FALSE]
           picked == SetSeat(h, code, role, seat)
           room   == picked.rooms[code]
<1>1. /\ HubType(h) /\ code \in Codes /\ role \in Roles
      /\ old.seats[role] \in Seat
  BY Members DEF Speaker
<1>2. /\ seat \in Seat /\ seat.present = old.seats[role].present
      /\ seat.token = old.seats[role].token
      /\ seat.admitted = old.seats[role].admitted /\ ~seat.ready
  BY <1>1 DEF Seat
<1>3. picked = [h EXCEPT !.rooms[code].seats[role] =
                  [@ EXCEPT !.archetype = m.archetype, !.ready = FALSE]]
  BY <1>1 DEF SetSeat, HubType, Room
<1>4. \/ HandleSelect(h, c, m) = Reject(h, c, "Bad_State")
      \/ HandleSelect(h, c, m) = BroadcastLobby(Touch(h, code), code)
      \/ /\ PreStart(old)
         /\ HandleSelect(h, c, m) = BroadcastLobby(Touch(picked, code), code)
  BY <1>3 DEF HandleSelect
<1> HIDE DEF seat
<1>5. /\ HubType(picked) /\ picked.rooms = [h.rooms EXCEPT ![code] = room]
      /\ room.seats[role] = seat /\ room.phase = old.phase
      /\ room.result = old.result
      /\ \A r \in Roles : r # role => room.seats[r] = old.seats[r]
  <2> HIDE DEF code, role
  <2>1. /\ HubType(h) /\ code \in Codes /\ role \in Roles /\ seat \in Seat
    BY <1>1, <1>2
  <2> QED BY <2>1, SeatSet
<1> HIDE DEF room, picked
<1>6. PreStart(old) => Kept(h, picked, code, gone)
  <2>1. PreStart(old) => KeptRoom(old, room, gone)
    BY <1>1, <1>2, <1>5, ChoiceKept
  <2> QED BY <1>1, <1>5, <2>1, Replaced
<1>7. Kept(h, h, code, gone)
  BY <1>1, KeptSame
<1>8. Kept(h, Reject(h, c, "Bad_State"), code, gone)
  BY SpeakerRejects
<1> QED BY <1>1, <1>4, <1>6, <1>7, <1>8, ReplacedBroadcast

LEMMA HandleReadyKept ==
  ASSUME NEW h, NEW c \in Conns, NEW gone, Speaker(h, c, gone),
         NEW m, m.ready \in BOOLEAN
  PROVE  Kept(h, HandleReady(h, c, m), h.conns[c].room, gone)
<1> DEFINE code  == h.conns[c].room
           role  == h.conns[c].role
           old   == h.rooms[code]
           seat  == [old.seats[role] EXCEPT !.ready = m.ready]
           ready == SetSeat(h, code, role, seat)
           room  == ready.rooms[code]
           refusal == ReadyRefusal(h, c, m)
<1>1. /\ HubType(h) /\ code \in Codes /\ role \in Roles
      /\ old.seats[role] \in Seat
  BY Members DEF Speaker
<1>2. /\ seat \in Seat /\ seat.present = old.seats[role].present
      /\ seat.token = old.seats[role].token
      /\ seat.admitted = old.seats[role].admitted
  BY <1>1 DEF Seat
<1>3. ready = [h EXCEPT !.rooms[code].seats[role].ready = m.ready]
  BY <1>1 DEF SetSeat, HubType, Room
<1>4. \/ HandleReady(h, c, m) = Reject(h, c, refusal)
      \/ /\ old.phase = "Selecting"
         /\ HandleReady(h, c, m) = StartOrBroadcast(Touch(ready, code), code)
  BY <1>3 DEF HandleReady, ReadyRefusal
<1> HIDE DEF seat, refusal
<1>5. /\ HubType(ready) /\ ready.rooms = [h.rooms EXCEPT ![code] = room]
      /\ room.seats[role] = seat /\ room.phase = old.phase
      /\ room.result = old.result
      /\ \A r \in Roles : r # role => room.seats[r] = old.seats[r]
  <2> HIDE DEF code, role
  <2>1. /\ HubType(h) /\ code \in Codes /\ role \in Roles /\ seat \in Seat
    BY <1>1, <1>2
  <2> QED BY <2>1, SeatSet
<1> HIDE DEF room, ready
<1>6. old.phase = "Selecting" => Kept(h, ready, code, gone)
  <2>1. old.phase = "Selecting" => KeptRoom(old, room, gone)
    BY <1>1, <1>2, <1>5, ChoiceKept DEF PreStart
  <2> QED BY <1>1, <1>5, <2>1, Replaced
<1>7. Kept(h, Reject(h, c, refusal), code, gone)
  BY SpeakerRejects
<1> QED BY <1>1, <1>4, <1>6, <1>7, ReplacedBroadcast

LEMMA HandleSettingsKept ==
  ASSUME NEW h, NEW c \in Conns, NEW gone, Speaker(h, c, gone),
         NEW m, m.settings \in Settings
  PROVE  Kept(h, HandleSettings(h, c, m), h.conns[c].room, gone)
<1> DEFINE code    == h.conns[c].room
           old     == h.rooms[code]
           seat    == [old.seats["Join"] EXCEPT !.ready = FALSE]
           seats   == [old.seats EXCEPT !["Join"] = seat]
           room    == [old EXCEPT !.settings = m.settings, !.seats = seats]
           changed == [h EXCEPT !.rooms[code] = room]
<1>1. /\ HubType(h) /\ code \in Codes /\ "Join" \in Roles /\ old \in Room
      /\ old.seats \in [Roles -> Seat] /\ old.seats["Join"] \in Seat
  BY Members DEF Speaker, Roles, Room
<1>2. /\ seat \in Seat /\ seat.present = old.seats["Join"].present
      /\ seat.token = old.seats["Join"].token
      /\ seat.admitted = old.seats["Join"].admitted /\ ~seat.ready
  BY <1>1 DEF Seat
<1>3. [old EXCEPT !.settings = m.settings, !.seats["Join"].ready = FALSE] = room
  BY <1>1 DEF Room
<1>4. changed = [h EXCEPT !.rooms[code] =
                  [@ EXCEPT !.settings = m.settings, !.seats["Join"].ready = FALSE]]
  <2> DEFINE r1 == [old EXCEPT !.settings = m.settings, !.seats["Join"].ready = FALSE]
  <2>1. [h EXCEPT !.rooms[code] =
           [@ EXCEPT !.settings = m.settings, !.seats["Join"].ready = FALSE]]
          = [h EXCEPT !.rooms[code] = r1]
    BY <1>1 DEF HubType
  <2> HIDE DEF room, r1
  <2> QED BY <1>3, <2>1 DEF r1
<1>5. \/ HandleSettings(h, c, m) = Reject(h, c, "Bad_State")
      \/ HandleSettings(h, c, m) = BroadcastLobby(Touch(h, code), code)
      \/ /\ PreStart(old)
         /\ HandleSettings(h, c, m) = BroadcastLobby(Touch(changed, code), code)
  <2> HIDE DEF changed
  <2> QED BY <1>4 DEF HandleSettings
<1> HIDE DEF seat
<1>6. /\ seats \in [Roles -> Seat] /\ seats["Join"] = seat
      /\ \A r \in Roles : r # "Join" => seats[r] = old.seats[r]
  BY <1>1, <1>2
<1> HIDE DEF seats
<1>7. /\ room \in Room /\ room.seats = seats /\ room.phase = old.phase
      /\ room.result = old.result
  <2> HIDE DEF old
  <2> QED BY <1>1, <1>6 DEF Room
<1> HIDE DEF room
<1>8. HubType(changed) /\ changed.rooms = [h.rooms EXCEPT ![code] = room]
  BY <1>1, <1>7, RoomType
<1> HIDE DEF changed
<1>9. PreStart(old) => Kept(h, changed, code, gone)
  <2>1. \A role \in Roles : role = "Join" /\ PreStart(old) => KeptRoom(old, room, gone)
    <3> HIDE DEF old
    <3> QED BY <1>1, <1>2, <1>6, <1>7, ChoiceKept
  <2> QED BY <1>1, <1>8, <2>1, Replaced
<1>10. Kept(h, h, code, gone)
  BY <1>1, KeptSame
<1>11. Kept(h, Reject(h, c, "Bad_State"), code, gone)
  BY SpeakerRejects
<1> QED BY <1>1, <1>5, <1>9, <1>10, <1>11, ReplacedBroadcast

LEMMA HandleAdmitKept ==
  ASSUME NEW h, NEW c \in Conns, NEW gone, Speaker(h, c, gone), NEW m
  PROVE  Kept(h, HandleAdmit(h, c, m), h.conns[c].room, gone)
<1> DEFINE code     == h.conns[c].room
           old      == h.rooms[code]
           seat     == [old.seats["Join"] EXCEPT !.admitted = TRUE]
           seats    == [old.seats EXCEPT !["Join"] = seat]
           room     == [old EXCEPT !.phase = "Selecting", !.seats = seats]
           admitted == [h EXCEPT !.rooms[code] = room]
<1>1. /\ HubType(h) /\ code \in Codes /\ "Join" \in Roles /\ "Host" \in Roles
      /\ old \in Room
      /\ old.seats \in [Roles -> Seat] /\ old.seats["Join"] \in Seat
  BY Members DEF Speaker, Roles, Room
<1>2. /\ seat \in Seat /\ seat.present = old.seats["Join"].present
      /\ seat.token = old.seats["Join"].token /\ seat.admitted
  BY <1>1 DEF Seat
<1>3. [old EXCEPT !.phase = "Selecting", !.seats["Join"].admitted = TRUE] = room
  BY <1>1 DEF Room
<1>4. admitted = [h EXCEPT !.rooms[code] =
                   [@ EXCEPT !.phase = "Selecting", !.seats["Join"].admitted = TRUE]]
  <2> DEFINE r1 == [old EXCEPT !.phase = "Selecting", !.seats["Join"].admitted = TRUE]
  <2>1. [h EXCEPT !.rooms[code] =
           [@ EXCEPT !.phase = "Selecting", !.seats["Join"].admitted = TRUE]]
          = [h EXCEPT !.rooms[code] = r1]
    BY <1>1 DEF HubType
  <2> HIDE DEF room, r1
  <2> QED BY <1>3, <2>1 DEF r1
<1>5. \/ HandleAdmit(h, c, m) = Reject(h, c, "Bad_State")
      \/ /\ old.phase = "Admission" /\ old.seats["Join"].present
         /\ HandleAdmit(h, c, m) = BroadcastLobby(Touch(admitted, code), code)
  <2> HIDE DEF admitted
  <2> QED BY <1>4 DEF HandleAdmit
<1> HIDE DEF seat
<1>6. /\ seats \in [Roles -> Seat] /\ seats["Join"] = seat
      /\ seats["Host"] = old.seats["Host"]
      /\ \A r \in Roles : r # "Join" => seats[r] = old.seats[r]
  BY <1>1, <1>2
<1> HIDE DEF seats
<1>7. /\ room \in Room /\ room.seats = seats /\ room.phase = "Selecting"
      /\ room.result = old.result
  <2> HIDE DEF old
  <2> QED BY <1>1, <1>6 DEF Room, Phases
<1> HIDE DEF room
<1>8. HubType(admitted) /\ admitted.rooms = [h.rooms EXCEPT ![code] = room]
  BY <1>1, <1>7, RoomType
<1> HIDE DEF admitted
<1>9. ASSUME old.phase = "Admission", old.seats["Join"].present
      PROVE  Kept(h, admitted, code, gone)
  <2>1. KeptRoom(old, room, gone)
    <3> HIDE DEF old
    <3>1. Phased(old) => Phased(room)
      BY <1>2, <1>6, <1>7, <1>9 DEF Phased
    <3> QED BY <1>1, <1>2, <1>6, <1>7, <1>9, <3>1 DEF KeptRoom, SameHolder
  <2> QED BY <1>1, <1>8, <2>1, Replaced
<1>10. Kept(h, Reject(h, c, "Bad_State"), code, gone)
  BY SpeakerRejects
<1> QED BY <1>1, <1>5, <1>9, <1>10, ReplacedBroadcast

-----------------------------------------------------------------------------
(* What a hub says *)

\* The actions of a hub are a sequence, and a is one of them.
Listed(h)  == \E S : h.out \in Seq(S)
Says(h, a) == \E i \in DOMAIN h.out : h.out[i] = a

\* g says what h says, and maybe more.
Louder(h, g) == Listed(h) => Listed(g) /\ \A a : Says(h, a) => Says(g, a)

LEMMA LouderTrans ==
  ASSUME NEW f, NEW g, NEW h, Louder(f, g), Louder(g, h)
  PROVE  Louder(f, h)
BY DEF Louder

LEMMA SameLouder ==
  ASSUME NEW h, NEW g, g.out = h.out
  PROVE  Louder(h, g)
BY DEF Louder, Listed, Says

LEMMA EmitLouder ==
  ASSUME NEW h, HubType(h), NEW a
  PROVE  /\ Louder(h, Emit(h, a))
         /\ Listed(h) => Says(Emit(h, a), a)
<1> DEFINE g == Emit(h, a)
<1>1. g.out = Append(h.out, a)
  BY DEF Emit, HubType
<1> HIDE DEF g
<1>2. SUFFICES ASSUME Listed(h)
               PROVE  Listed(g) /\ Says(g, a) /\ \A b : Says(h, b) => Says(g, b)
  BY DEF Louder, g
<1>3. PICK S : h.out \in Seq(S)
  BY <1>2 DEF Listed
<1> DEFINE T == S \cup {a}
<1>4. h.out \in Seq(T) /\ a \in T
  <2>1. S \subseteq T
    OBVIOUS
  <2> QED BY <1>3, <2>1, SeqMonotonic
<1> HIDE DEF T
<1>5. /\ Len(h.out) \in Nat /\ DOMAIN h.out = 1..Len(h.out)
      /\ g.out \in Seq(T) /\ Len(g.out) = Len(h.out) + 1
      /\ \A i \in 1..Len(h.out) : g.out[i] = h.out[i]
      /\ g.out[Len(h.out) + 1] = a
  BY <1>1, <1>4, AppendProperties, LenProperties
<1>6. DOMAIN g.out = 1..(Len(h.out) + 1)
  BY <1>5, LenProperties
<1>7. /\ 1..Len(h.out) \subseteq DOMAIN g.out
      /\ Len(h.out) + 1 \in DOMAIN g.out
  BY <1>5, <1>6
<1>8. Listed(g) /\ Says(g, a)
  BY <1>5, <1>7 DEF Listed, Says
<1>9. \A b : Says(h, b) => Says(g, b)
  BY <1>5, <1>7 DEF Says
<1> QED BY <1>8, <1>9

LEMMA SendLouder ==
  ASSUME NEW h, HubType(h), NEW c, NEW m
  PROVE  /\ Louder(h, Send(h, c, m))
         /\ Listed(h) => Says(Send(h, c, m), [kind |-> "send", conn |-> c, msg |-> m])
BY EmitLouder DEF Send

LEMMA SendToLouder ==
  ASSUME NEW h, HubType(h), NEW code, NEW role, NEW m
  PROVE  Louder(h, SendTo(h, code, role, m))
<1>1. Louder(h, h)
  BY DEF Louder
<1> QED BY <1>1, SendLouder DEF SendTo

LEMMA BroadcastLobbyLouder ==
  ASSUME NEW h, HubType(h), NEW code
  PROVE  Louder(h, BroadcastLobby(h, code))
<1> DEFINE view == LobbyView(h.rooms[code])
           host == SendTo(h, code, "Host", view)
<1>1. BroadcastLobby(h, code) = SendTo(host, code, "Join", view)
  BY DEF BroadcastLobby
<1> HIDE DEF view
<1>2. HubType(host) /\ Louder(h, host)
  BY SendToSame, SendToLouder DEF Same
<1> HIDE DEF host
<1>3. Louder(host, SendTo(host, code, "Join", view))
  BY <1>2, SendToLouder
<1> QED BY <1>1, <1>2, <1>3, LouderTrans

LEMMA CloseConnLouder ==
  ASSUME NEW h, HubType(h), NEW c \in Conns, NEW code
  PROVE  Louder(h, CloseConn(h, c, code))
<1> DEFINE conn == [h.conns[c] EXCEPT !.closing = TRUE]
           g == [h EXCEPT !.conns[c] = conn]
<1>1. h.conns[c] \in Conn
  BY Members
<1>2. conn \in Conn
  BY <1>1 DEF Conn
<1>3. g = [h EXCEPT !.conns[c].closing = TRUE]
  BY DEF HubType
<1> HIDE DEF conn
<1>4. HubType(g)
  BY <1>2, ConnType
<1>5. g.out = h.out
  BY DEF HubType
<1> HIDE DEF g
<1>6. \A a : Louder(h, Emit(g, a))
  BY <1>4, <1>5, EmitLouder, SameLouder, LouderTrans
<1>7. Louder(h, h)
  BY DEF Louder
<1> QED BY <1>3, <1>6, <1>7 DEF CloseConn

LEMMA DetachType ==
  ASSUME NEW h, HubType(h), NEW c \in Conns
  PROVE  HubType(Detach(h, c)) /\ Detach(h, c).out = h.out
<1> DEFINE free == [h.conns[c] EXCEPT !.room = NoCode, !.role = "None"]
<1>1. h.conns[c] \in Conn
  BY Members
<1>2. free \in Conn
  BY <1>1 DEF Conn
<1>3. Detach(h, c) = [h EXCEPT !.conns[c] = free]
  BY DEF Detach, HubType
<1> HIDE DEF free
<1>4. HubType([h EXCEPT !.conns[c] = free])
  BY <1>2, ConnType
<1> QED BY <1>3, <1>4 DEF HubType

LEMMA FatalUnboundLouder ==
  ASSUME NEW h, HubType(h), NEW c \in Conns, NEW code
  PROVE  Louder(h, FatalUnbound(h, c, code))
<1> DEFINE sent == Send(h, c, Error(code, TRUE))
<1>1. HubType(sent) /\ Louder(h, sent)
  BY SendSame, SendLouder DEF Same
<1>2. \/ FatalUnbound(h, c, code) = h
      \/ FatalUnbound(h, c, code) = CloseConn(sent, c, "policy")
  BY DEF FatalUnbound
<1> HIDE DEF sent
<1>3. Louder(sent, CloseConn(sent, c, "policy"))
  BY <1>1, CloseConnLouder
<1>4. Louder(h, h)
  BY DEF Louder
<1> QED BY <1>1, <1>2, <1>3, <1>4, LouderTrans

\* The host is told that it kicked the occupant, and the room waits again.
Kicked(g, code) ==
  /\ g.rooms[code].phase = "Waiting" /\ ~g.rooms[code].seats["Join"].present
  /\ \E a : Says(g, a) /\ a.kind = "send" /\ a.msg = PartnerLeft("kicked")

\* A kick gives the joiner's seat up, and says so.
LEMMA HandleKickKept ==
  ASSUME NEW h, NEW c \in Conns, NEW gone, Speaker(h, c, gone),
         "Join" \in gone, Listed(h), NEW m
  PROVE  \/ HandleKick(h, c, m) = Reject(h, c, "Bad_State")
         \/ /\ Kept(h, HandleKick(h, c, m), h.conns[c].room, gone)
            /\ Kicked(HandleKick(h, c, m), h.conns[c].room)
<1> DEFINE code   == h.conns[c].room
           old    == h.rooms[code]
           joiner == SeatConn(h, code, "Join")
           turned == IF joiner = NoConn THEN h
                     ELSE FatalUnbound(Detach(h, joiner), joiner, "Kicked")
           vacant == SetSeat(turned, code, "Join", EmptySeat)
           empty  == vacant.rooms[code]
           host   == [empty.seats["Host"] EXCEPT !.ready = FALSE]
           seats  == [empty.seats EXCEPT !["Host"] = host]
           room   == [empty EXCEPT !.phase = "Waiting", !.idle = 0, !.seats = seats]
           opened == ReopenRoom(vacant, code)
           told   == Send(opened, c, PartnerLeft("kicked"))
<1>1. /\ HubType(h) /\ code \in Codes /\ "Join" \in Roles /\ "Host" \in Roles
      /\ old \in Room /\ old.seats["Host"] \in Seat /\ DOMAIN h.rooms = Codes
      /\ old.phase # "None"
  BY Members DEF Speaker, Roles, HubType
<1>2. HandleKick(h, c, m) =
        IF \/ ~PreStart(old) \/ ~old.seats["Join"].present
           \/ m.seat_gen # old.seat_gen
        THEN Reject(h, c, "Bad_State") ELSE BroadcastLobby(told, code)
  BY DEF HandleKick, SetSeat
<1>3. HubType(turned) /\ turned.rooms = h.rooms /\ Listed(turned)
  <2>1. joiner \in Conns \cup {NoConn}
    BY <1>1, SeatConnType
  <2> HIDE DEF joiner
  <2>2. joiner \in Conns =>
          Dropped(FatalUnbound(Detach(h, joiner), joiner, "Kicked"), h, joiner)
    BY <1>1, DropClose
  <2>3. joiner \in Conns => Listed(FatalUnbound(Detach(h, joiner), joiner, "Kicked"))
    <3>1. joiner \in Conns =>
            /\ HubType(Detach(h, joiner)) /\ Louder(h, Detach(h, joiner))
            /\ Louder(Detach(h, joiner),
                      FatalUnbound(Detach(h, joiner), joiner, "Kicked"))
      BY <1>1, DetachType, SameLouder, FatalUnboundLouder
    <3> QED BY <3>1 DEF Louder
  <2> QED BY <1>1, <2>1, <2>2, <2>3 DEF Dropped
<1> HIDE DEF turned
<1>4. /\ HubType(vacant) /\ vacant.rooms = [h.rooms EXCEPT ![code] = empty]
      /\ empty \in Room /\ empty.seats["Join"] = EmptySeat
      /\ empty.seats["Host"] = old.seats["Host"]
      /\ empty.result = old.result
  <2>1. EmptySeat \in Seat
    BY RoomConstants
  <2> DEFINE role == "Join"
             x == SetSeat(turned, code, role, EmptySeat)
             r == x.rooms[code]
  <2>2. role \in Roles /\ "Host" # role
    BY <1>1
  <2> HIDE DEF code, role
  <2>3. /\ HubType(x) /\ x.rooms = [turned.rooms EXCEPT ![code] = r]
        /\ r \in Room /\ r.seats[role] = EmptySeat
        /\ r.seats["Host"] = turned.rooms[code].seats["Host"]
        /\ r.result = turned.rooms[code].result
    BY <1>1, <1>3, <2>1, <2>2, SeatSet
  <2>4. x = vacant /\ r = empty
    BY DEF role
  <2>5. [turned.rooms EXCEPT ![code] = r] = [h.rooms EXCEPT ![code] = r]
    BY <1>3
  <2>6. turned.rooms[code] = old
    BY <1>3
  <2> HIDE DEF x, r, vacant, empty, old
  <2>7. r.seats["Join"] = EmptySeat
    BY <2>3 DEF role
  <2> QED BY <2>3, <2>4, <2>5, <2>6, <2>7
<1> HIDE DEF empty
<1>5. /\ host \in Seat /\ host.present = old.seats["Host"].present
      /\ host.token = old.seats["Host"].token
      /\ host.admitted = old.seats["Host"].admitted /\ ~host.ready
  BY <1>1, <1>4 DEF Seat
<1>6. [empty EXCEPT !.phase = "Waiting", !.idle = 0,
                    !.seats["Host"].ready = FALSE] = room
  BY <1>4 DEF Room
<1>7. opened = [vacant EXCEPT !.rooms[code] = room]
  <2> HIDE DEF room
  <2> DEFINE waiting == [empty EXCEPT !.phase = "Waiting", !.idle = 0,
                                      !.seats["Host"].ready = FALSE]
  <2>1. opened = [vacant EXCEPT !.rooms[code] = waiting]
    BY <1>1, <1>4 DEF ReopenRoom, HubType, empty
  <2>2. waiting = room
    BY <1>6
  <2> HIDE DEF waiting, opened, vacant, code
  <2> QED BY <2>1, <2>2
<1> HIDE DEF opened, host
<1>8. /\ seats \in [Roles -> Seat] /\ seats["Host"] = host
      /\ ~seats["Join"].present
  BY SMTT(30), <1>1, <1>4, <1>5 DEF Room, EmptySeat
<1> HIDE DEF seats
<1>9. /\ room \in Room /\ room.phase = "Waiting" /\ room.seats = seats
      /\ room.result = old.result
  BY <1>4, <1>8 DEF Room, Phases
<1> HIDE DEF room
<1>10. HubType(opened) /\ opened.rooms = [vacant.rooms EXCEPT ![code] = room]
  BY SMTT(30), <1>1, <1>4, <1>7, <1>9, RoomType
<1>11. opened.rooms = [h.rooms EXCEPT ![code] = room]
  BY <1>1, <1>4, <1>10
<1>12. PreStart(old) => Kept(h, opened, code, gone)
  <2>1. ASSUME PreStart(old) PROVE KeptRoom(old, room, gone)
    <3> HIDE DEF old
    <3>1. Phased(old) => Phased(room)
      BY <1>5, <1>8, <1>9, <2>1 DEF Phased, PreStart
    <3> QED
      BY <1>1, <1>5, <1>8, <1>9, <2>1, <3>1
      DEF KeptRoom, SameHolder, PreStart, Roles
  <2> HIDE DEF code
  <2> QED BY <1>1, <1>10, <1>11, <2>1, Replaced
<1>13. /\ HubType(told) /\ Kept(opened, told, code, gone)
       /\ told.rooms = opened.rooms
  BY <1>10, SendKept, SendSame DEF Same
<1> DEFINE notice == [kind |-> "send", conn |-> c, msg |-> PartnerLeft("kicked")]
<1>14. Listed(told) /\ Says(told, notice)
  <2>1. opened.out = vacant.out /\ vacant.out = turned.out
    <3>1. vacant.out = turned.out
      BY <1>3 DEF SetSeat, HubType
    <3> HIDE DEF vacant
    <3> QED BY <1>4, <1>7, <3>1 DEF HubType
  <2>2. Listed(opened)
    BY <1>3, <2>1 DEF Listed
  <2> QED BY <1>10, <2>2, SendLouder DEF Louder
<1> HIDE DEF told
<1>15. /\ Kept(told, BroadcastLobby(told, code), code, gone)
       /\ BroadcastLobby(told, code).rooms = told.rooms
       /\ Says(BroadcastLobby(told, code), notice)
  BY <1>13, <1>14, BroadcastLobbyKept, BroadcastLobbySame, BroadcastLobbyLouder
  DEF Same, Louder
<1>16. Kicked(BroadcastLobby(told, code), code)
  <2>1. BroadcastLobby(told, code).rooms[code] = room
    BY <1>1, <1>11, <1>13, <1>15
  <2> QED BY <1>8, <1>9, <1>15, <2>1 DEF Kicked
<1>17. HandleKick(h, c, m) # Reject(h, c, "Bad_State") =>
         PreStart(old) /\ HandleKick(h, c, m) = BroadcastLobby(told, code)
  BY <1>2
<1> QED BY <1>12, <1>13, <1>15, <1>16, <1>17, KeptTrans

LEMMA HandlePingKept ==
  ASSUME NEW h, NEW c \in Conns, NEW gone, Speaker(h, c, gone)
  PROVE  Kept(h, HandlePing(h, c), h.conns[c].room, gone)
<1> DEFINE touched == Touch(h, h.conns[c].room)
<1>1. HubType(touched) /\ Kept(h, touched, h.conns[c].room, gone)
  BY TouchKept DEF Speaker
<1> HIDE DEF touched
<1>2. Kept(touched, Send(touched, c, [t |-> "pong"]), h.conns[c].room, gone)
  BY <1>1, SendKept
<1> QED BY <1>1, <1>2, KeptTrans DEF HandlePing, touched

LEMMA HandleByeKept ==
  ASSUME NEW h, NEW c \in Conns, NEW gone, Speaker(h, c, gone)
  PROVE  Kept(h, HandleBye(h, c), h.conns[c].room, gone)
<1> DEFINE code   == h.conns[c].room
           role   == h.conns[c].role
           closed == CloseConn(Detach(h, c), c, "normal")
<1>1. /\ HubType(h) /\ code \in Codes /\ role \in Roles
      /\ h.rooms[code].phase # "None" /\ Leaving(role) \subseteq gone
  BY DEF Speaker
<1>2. HubType(closed) /\ closed.rooms = h.rooms
  <2>1. Dropped(closed, h, c)
    BY <1>1, DropClose
  <2> QED BY <2>1 DEF Dropped
<1>3. HandleBye(h, c) = SeatDeparted(closed, code, role, "left")
  BY DEF HandleBye
<1> HIDE DEF closed, code, role
<1>4. Kept(h, closed, code, gone)
  BY <1>2, KeptSame
<1>5. Kept(closed, SeatDeparted(closed, code, role, "left"), code, gone)
  BY <1>1, <1>2, SeatDepartedKept
<1> QED BY <1>3, <1>4, <1>5, KeptTrans DEF code

LEMMA HandleSuspendKept ==
  ASSUME NEW h, NEW c \in Conns, NEW gone, Speaker(h, c, gone)
  PROVE  Kept(h, HandleSuspend(h, c), h.conns[c].room, gone)
<1> DEFINE code   == h.conns[c].room
           role   == h.conns[c].role
           closed == CloseConn(Detach(h, c), c, "suspended")
<1>1. HubType(h) /\ code \in Codes /\ role \in Roles
  BY DEF Speaker
<1>2. HubType(closed) /\ closed.rooms = h.rooms
  <2>1. Dropped(closed, h, c)
    BY <1>1, DropClose
  <2> QED BY <2>1 DEF Dropped
<1>3. \/ HandleSuspend(h, c) = SeatLost(closed, code, role)
      \/ HandleSuspend(h, c) = closed
  BY DEF HandleSuspend
<1> HIDE DEF closed, code, role
<1>4. Kept(h, closed, code, gone)
  BY <1>2, KeptSame
<1>5. Kept(closed, SeatLost(closed, code, role), code, gone)
  BY <1>1, <1>2, SeatLostKept
<1> QED BY <1>3, <1>4, <1>5, KeptTrans DEF code

\* Only the joiner acknowledges.
LEMMA HandleResultAckKept ==
  ASSUME NEW h, NEW c \in Conns, NEW gone, Speaker(h, c, gone),
         h.conns[c].role = "Join", NEW m
  PROVE  Kept(h, HandleResultAck(h, c, m), h.conns[c].room, gone)
<1> DEFINE code  == h.conns[c].room
           old   == h.rooms[code]
           room  == [old EXCEPT !.result_acked = TRUE]
           acked == [h EXCEPT !.rooms[code] = room]
<1>1. /\ HubType(h) /\ code \in Codes /\ old \in Room /\ "Result" \in gone
  BY Members DEF Speaker, Leaving
<1>2. acked = [h EXCEPT !.rooms[code].result_acked = TRUE]
  BY <1>1 DEF HubType
<1>3. \/ HandleResultAck(h, c, m) = Reject(h, c, "Bad_State")
      \/ HandleResultAck(h, c, m) = Touch(acked, code)
  BY <1>2 DEF HandleResultAck
<1>4. /\ room \in Room /\ room.phase = old.phase /\ room.seats = old.seats
      /\ room.result = old.result /\ room.result_age = old.result_age
  BY <1>1 DEF Room
<1> HIDE DEF room
<1>5. KeptRoom(old, room, gone)
  <2> HIDE DEF old
  <2> QED BY <1>1, <1>4 DEF KeptRoom, Phased, SameHolder
<1>6. Kept(h, acked, code, gone)
  BY <1>1, <1>4, <1>5, KeptEdit
<1> HIDE DEF acked
<1>7. Kept(acked, Touch(acked, code), code, gone)
  BY <1>1, <1>6, TouchKept DEF Kept
<1>8. Kept(h, Reject(h, c, "Bad_State"), code, gone)
  BY SpeakerRejects
<1> QED BY <1>3, <1>6, <1>7, <1>8, KeptTrans

LEMMA HandlePassthroughKept ==
  ASSUME NEW h, NEW c \in Conns, NEW gone, Speaker(h, c, gone),
         NEW m, m.t = "run_ended" => m.result \in Results \cup {NoResult}
  PROVE  Kept(h, HandlePassthrough(h, c, m), h.conns[c].room, gone)
<1> DEFINE code    == h.conns[c].room
           touched == Touch(h, code)
           room    == [touched.rooms[code] EXCEPT
                         !.phase = "Ended", !.result = m.result, !.result_age = 0]
           ended   == [touched EXCEPT !.rooms[code] = room]
           to      == Partner(h.conns[c].role)
<1>1. HubType(h) /\ code \in Codes
  BY DEF Speaker
<1>2. /\ HubType(touched) /\ touched.conns = h.conns
      /\ Kept(h, touched, code, gone)
      /\ touched.rooms[code] \in Room
      /\ touched.rooms[code].phase = h.rooms[code].phase
  BY <1>1, TouchKept
<1>3. \/ HandlePassthrough(h, c, m) = Reject(h, c, "Bad_State")
      \/ HandlePassthrough(h, c, m) = SendTo(touched, code, to, m)
      \/ HandlePassthrough(h, c, m) = Reject(touched, c, "Bad_Msg")
      \/ /\ m.t = "run_ended" /\ m.result # NoResult
         /\ h.rooms[code].phase = "Active"
         /\ HandlePassthrough(h, c, m) = SendTo(ended, code, to, m)
  <2>1. ended = [touched EXCEPT !.rooms[code] =
                   [@ EXCEPT !.phase = "Ended", !.result = m.result,
                             !.result_age = 0]]
    <3> HIDE DEF touched
    <3> QED BY <1>1, <1>2 DEF HubType
  <2> HIDE DEF ended
  <2> QED BY <2>1 DEF HandlePassthrough
<1> HIDE DEF touched
<1>4. ASSUME m.t = "run_ended", m.result # NoResult, h.rooms[code].phase = "Active"
      PROVE  Kept(touched, ended, code, gone)
  <2> DEFINE old == touched.rooms[code]
  <2>1. /\ room \in Room /\ room.phase = "Ended" /\ room.seats = old.seats
        /\ room.result = m.result
    BY <1>2, <1>4 DEF Room, Phases
  <2>2. old.phase = "Active"
    BY <1>2, <1>4
  <2> HIDE DEF room
  <2>3. KeptRoom(old, room, gone)
    <3> HIDE DEF old
    <3> QED BY <1>4, <2>1, <2>2 DEF KeptRoom, Phased, SameHolder
  <2> QED BY <1>1, <1>2, <2>1, <2>3, KeptEdit
<1> HIDE DEF ended, to
<1>5. m.t = "run_ended" /\ m.result # NoResult /\ h.rooms[code].phase = "Active" =>
        Kept(ended, SendTo(ended, code, to, m), code, gone)
  <2>1. Kept(touched, ended, code, gone) => HubType(ended)
    BY DEF Kept
  <2> QED BY <1>4, <2>1, SendToKept
<1>6. /\ Kept(touched, SendTo(touched, code, to, m), code, gone)
      /\ Kept(h, Reject(h, c, "Bad_State"), code, gone)
  BY <1>2, SendToKept, SpeakerRejects
<1>7. Kept(touched, Reject(touched, c, "Bad_Msg"), code, gone)
  <2>1. Speaker(touched, c, gone)
    BY <1>2 DEF Speaker
  <2> QED BY <1>2, <2>1, SpeakerRejects
<1> QED BY <1>2, <1>3, <1>4, <1>5, <1>6, <1>7, KeptTrans

LEMMA DispatchKept ==
  ASSUME NEW h, NEW c \in Conns, NEW gone, Speaker(h, c, gone),
         NEW m, WellFormed(m), MsgAllowedFrom(m.t, h.conns[c].role),
         m.t \notin {"hello", "flood", "malformed", "unknown", "kick"}
  PROVE  Kept(h, Dispatch(h, c, m), h.conns[c].room, gone)
<1>1. CASE m.t = "select"
  <2>1. Dispatch(h, c, m) = HandleSelect(h, c, m)
    BY <1>1 DEF Dispatch, Passthrough
  <2> QED BY <1>1, <2>1, HandleSelectKept DEF WellFormed
<1>2. CASE m.t = "ready"
  <2>1. Dispatch(h, c, m) = HandleReady(h, c, m)
    BY <1>2 DEF Dispatch, Passthrough
  <2> QED BY <1>2, <2>1, HandleReadyKept DEF WellFormed
<1>3. CASE m.t = "settings"
  <2>1. Dispatch(h, c, m) = HandleSettings(h, c, m)
    BY <1>3 DEF Dispatch, Passthrough
  <2> QED BY <1>3, <2>1, HandleSettingsKept DEF WellFormed
<1>4. CASE m.t = "admit"
  <2>1. Dispatch(h, c, m) = HandleAdmit(h, c, m)
    BY <1>4 DEF Dispatch, Passthrough
  <2> QED BY <2>1, HandleAdmitKept
<1>5. CASE m.t = "ping"
  <2>1. Dispatch(h, c, m) = HandlePing(h, c)
    BY <1>5 DEF Dispatch, Passthrough
  <2> QED BY <2>1, HandlePingKept
<1>6. CASE m.t = "bye"
  <2>1. Dispatch(h, c, m) = HandleBye(h, c)
    BY <1>6 DEF Dispatch, Passthrough
  <2> QED BY <2>1, HandleByeKept
<1>7. CASE m.t = "suspend"
  <2>1. Dispatch(h, c, m) = HandleSuspend(h, c)
    BY <1>7 DEF Dispatch, Passthrough
  <2> QED BY <2>1, HandleSuspendKept
<1>8. CASE m.t = "result_ack"
  <2>1. Dispatch(h, c, m) = HandleResultAck(h, c, m)
    BY <1>8 DEF Dispatch, Passthrough
  <2>2. h.conns[c].role = "Join"
    BY <1>8 DEF MsgAllowedFrom, JoinOnly
  <2> QED BY <2>1, <2>2, HandleResultAckKept
<1>9. CASE m.t \in Passthrough
  <2>1. m.t \in {"world", "intent", "run_ended"}
    BY <1>9 DEF Passthrough
  <2>2. Dispatch(h, c, m) = HandlePassthrough(h, c, m)
    BY <2>1 DEF Dispatch, Passthrough
  <2> QED BY <2>2, HandlePassthroughKept DEF WellFormed
<1> QED
  BY <1>1, <1>2, <1>3, <1>4, <1>5, <1>6, <1>7, <1>8, <1>9
  DEF WellFormed, Passthrough

-----------------------------------------------------------------------------
(* What a step does to one room *)

(* Why a seat was given up or a result dropped.  old is the room before,    *)
(* g the hub after the step, heard the connections a message came from.     *)
Allowed(old, g, code, heard, gone) ==
  /\ \A role \in Roles \cap gone :
       \/ old.seats[role].connected
       \/ GraceOver(old.seats[role])
       \/ role = "Join" /\ Kicked(g, code)
  /\ "Result" \in gone =>
       \/ DeliveryOver(old)
       \/ GraceOver(old.seats["Join"])
       \/ old.seats["Join"].connected /\ old.seats["Join"].conn \in heard

Stepped(h, g, heard) ==
  /\ HubType(g)
  /\ \A code \in Codes : \E gone :
       /\ MovedRoom(h.rooms[code], g.rooms[code], gone)
       /\ Allowed(h.rooms[code], g, code, heard, gone)

LEMMA NothingGone ==
  ASSUME NEW old, NEW g, NEW code, NEW heard
  PROVE  Allowed(old, g, code, heard, {})
BY DEF Allowed

\* A handler that moves one room, with what it lets go accounted for.
LEMMA MovedSteps ==
  ASSUME NEW h, NEW g, NEW code, NEW gone, NEW heard, Moved(h, g, code, gone),
         code \in Codes => Allowed(h.rooms[code], g, code, heard, gone)
  PROVE  Stepped(h, g, heard)
<1> DEFINE none == {}
<1>1. ASSUME NEW x \in Codes, x # code
      PROVE  /\ MovedRoom(h.rooms[x], g.rooms[x], none)
             /\ Allowed(h.rooms[x], g, x, heard, none)
  <2>1. g.rooms[x] = h.rooms[x]
    BY <1>1 DEF Moved
  <2> QED BY <2>1, KeptRoomRefl, NothingGone DEF MovedRoom
<1> HIDE DEF none
<1>2. code \in Codes => MovedRoom(h.rooms[code], g.rooms[code], gone)
  BY DEF Moved
<1>3. HubType(g)
  BY DEF Moved
<1> QED BY <1>1, <1>2, <1>3 DEF Stepped

LEMMA KeptSteps ==
  ASSUME NEW h, NEW g, NEW code, NEW gone, NEW heard, Kept(h, g, code, gone),
         code \in Codes => Allowed(h.rooms[code], g, code, heard, gone)
  PROVE  Stepped(h, g, heard)
BY KeptMoved, MovedSteps

LEMMA SameSteps ==
  ASSUME NEW h, NEW g, HubType(g), g.rooms = h.rooms, NEW heard
  PROVE  Stepped(h, g, heard)
<1> DEFINE none == {}
<1>1. ASSUME NEW x \in Codes
      PROVE  /\ MovedRoom(h.rooms[x], g.rooms[x], none)
             /\ Allowed(h.rooms[x], g, x, heard, none)
  BY KeptRoomRefl, NothingGone DEF MovedRoom
<1> HIDE DEF none
<1> QED BY <1>1 DEF Stepped

\* What the speaker of a connected seat gives up is allowed.
LEMMA SpeakerAllowed ==
  ASSUME NEW h, Good(h), NEW c \in Conns, h.conns[c].room # NoCode, NEW g
  PROVE  LET code == h.conns[c].room
             gone == Leaving(h.conns[c].role)
         IN  /\ Speaker(h, c, gone) /\ code \in Codes
             /\ Allowed(h.rooms[code], g, code, {c}, gone)
             /\ Kicked(g, code) =>
                  /\ Speaker(h, c, gone \cup {"Join"})
                  /\ Allowed(h.rooms[code], g, code, {c}, gone \cup {"Join"})
<1> DEFINE code == h.conns[c].room
           role == h.conns[c].role
           old  == h.rooms[code]
<1>1. /\ HubType(h) /\ code \in Codes /\ role \in Roles /\ old.phase # "None"
      /\ old.seats[role].connected /\ old.seats[role].conn = c
  BY BoundSeat DEF Good, SeatOf
<1>2. Leaving(role) = IF role = "Join" THEN {"Join", "Result"} ELSE {"Host"}
  BY DEF Leaving
<1>3. /\ Speaker(h, c, Leaving(role))
      /\ Speaker(h, c, Leaving(role) \cup {"Join"})
  BY <1>1 DEF Speaker
<1> HIDE DEF code, role, old
<1>4. Allowed(old, g, code, {c}, Leaving(role))
  BY <1>1, <1>2 DEF Allowed, Roles
<1>5. Kicked(g, code) => Allowed(old, g, code, {c}, Leaving(role) \cup {"Join"})
  BY <1>1, <1>2 DEF Allowed, Roles
<1> QED BY <1>1, <1>3, <1>4, <1>5 DEF code, role, old

LEMMA HubReceiveSteps ==
  ASSUME NEW h, Good(h), Listed(h), NEW c \in Conns, h.conns[c].open,
         ~h.conns[c].closing, NEW m, WellFormed(m)
  PROVE  Stepped(h, HubReceive(h, c, m), {c})
<1> DEFINE conn  == [h.conns[c] EXCEPT !.silent = 0]
           heard == [h EXCEPT !.conns[c] = conn]
<1>1. h.conns[c] \in Conn
  BY Members DEF Good
<1>2. /\ conn \in Conn /\ conn.open = h.conns[c].open
      /\ conn.hello_done = h.conns[c].hello_done
      /\ conn.closing = h.conns[c].closing /\ conn.room = h.conns[c].room
      /\ conn.role = h.conns[c].role
  BY <1>1 DEF Conn
<1>3. HubReceive(h, c, m) =
        IF m.t = "flood" THEN Fatal(heard, c, "Rate_Limited")
        ELSE IF h.conns[c].hello_done THEN ReceiveGreeted(heard, c, m)
        ELSE ReceiveFirst(heard, c, m)
  BY DEF HubReceive, Good, HubType
<1>4. heard.conns[c] = conn /\ heard.rooms = h.rooms /\ Listed(heard)
  BY DEF Good, HubType, Listed
<1> HIDE DEF conn
<1>5. Good(heard)
  BY <1>2, ConnKept
<1> HIDE DEF heard
<1>6. ASSUME NEW g, Stepped(heard, g, {c}) PROVE Stepped(h, g, {c})
  BY <1>4, <1>6 DEF Stepped
<1>7. HubType(heard)
  BY <1>5 DEF Good
<1> DEFINE code == heard.conns[c].room
           gone == Leaving(heard.conns[c].role)
<1>8. CASE code = NoCode
  <2>1. ~h.conns[c].hello_done
    <3>1. Bound(heard.conns, c)
      BY <1>5 DEF Good, Owned, OwnedIn
    <3> QED BY <1>2, <1>4, <1>8, <3>1 DEF Bound, Speaks
  <2>2. ASSUME NEW reason PROVE Stepped(heard, Fatal(heard, c, reason), {c})
    <3>1. Kept(heard, Fatal(heard, c, reason), NoCode, {})
      BY <1>7, <1>8, FatalUnseated
    <3> QED BY <3>1, KeptSteps, NonesAssumption
  <2>3. ASSUME m.t = "hello" PROVE Stepped(heard, HandleHello(heard, c, m), {c})
    <3> DEFINE seat == heard.rooms[m.room].seats[m.role]
               over == m.room \in Codes /\ GraceOver(seat)
               left == IF over THEN Leaving(m.role) ELSE {}
               g    == HandleHello(heard, c, m)
    <3>1. m.room \in Codes \cup {NoCode} /\ m.role \in Roles /\ m.game \in Games
      BY <2>3 DEF WellFormed
    <3>2. m.room \in Codes /\ GraceOver(seat) => Leaving(m.role) \subseteq left
      OBVIOUS
    <3>3. Allowed(heard.rooms[m.room], g, m.room, {c}, left)
      BY <3>1 DEF Allowed, Leaving, Roles
    <3> HIDE DEF left
    <3>4. Moved(heard, g, m.room, left)
      BY <1>7, <1>8, <3>1, <3>2, HandleHelloMoved
    <3> HIDE DEF g
    <3> QED BY <3>3, <3>4, MovedSteps DEF g
  <2>4. \/ HubReceive(h, c, m) = Fatal(heard, c, "Rate_Limited")
        \/ HubReceive(h, c, m) = Fatal(heard, c, "Bad_Msg")
        \/ m.t = "hello" /\ HubReceive(h, c, m) = HandleHello(heard, c, m)
    BY <1>3, <2>1 DEF ReceiveFirst
  <2> QED BY <1>6, <2>2, <2>3, <2>4
<1>9. CASE code # NoCode
  <2>1. /\ Speaker(heard, c, gone) /\ code \in Codes
        /\ \A g : Allowed(heard.rooms[code], g, code, {c}, gone)
        /\ \A g : Kicked(g, code) =>
             /\ Speaker(heard, c, gone \cup {"Join"})
             /\ Allowed(heard.rooms[code], g, code, {c}, gone \cup {"Join"})
    BY <1>5, <1>9, SpeakerAllowed
  <2>2. h.conns[c].hello_done
    <3>1. Speaks(heard.conns[c])
      BY <1>5, <1>9, BoundSeat
    <3> QED BY <1>2, <1>4, <3>1 DEF Speaks
  <2> HIDE DEF gone, code
  <2>3. ASSUME NEW g, Kept(heard, g, code, gone) PROVE Stepped(heard, g, {c})
    BY <2>1, <2>3, KeptSteps
  <2>4. /\ \A reason : Stepped(heard, Reject(heard, c, reason), {c})
        /\ \A reason : Stepped(heard, Fatal(heard, c, reason), {c})
        /\ Stepped(heard, NoteInvalid(heard, c), {c})
    BY <2>1, <2>3, SpeakerRejects DEF code
  <2>5. CASE m.t = "flood"
    BY <1>3, <1>6, <2>4, <2>5
  <2>6. CASE m.t \in {"malformed", "unknown", "hello"}
    <3>1. \/ ReceiveGreeted(heard, c, m) = NoteInvalid(heard, c)
          \/ \E reason : ReceiveGreeted(heard, c, m) = Reject(heard, c, reason)
      BY <2>6 DEF ReceiveGreeted, MessageRefusal
    <3> QED BY <1>3, <1>6, <2>2, <2>4, <2>6, <3>1
  <2>7. CASE m.t \notin {"flood", "malformed", "unknown", "hello"}
    <3>1. \/ \E reason : ReceiveGreeted(heard, c, m) = Fatal(heard, c, reason)
          \/ \E reason : ReceiveGreeted(heard, c, m) = Reject(heard, c, reason)
          \/ /\ MsgAllowedFrom(m.t, heard.conns[c].role)
             /\ ReceiveGreeted(heard, c, m) = Dispatch(heard, c, m)
      BY <2>7 DEF ReceiveGreeted, MessageRefusal
    <3>2. ASSUME MsgAllowedFrom(m.t, heard.conns[c].role)
          PROVE  Stepped(heard, Dispatch(heard, c, m), {c})
      <4>1. CASE m.t = "kick"
        <5> DEFINE g == HandleKick(heard, c, m)
        <5>1. Dispatch(heard, c, m) = g
          BY <4>1 DEF Dispatch, Passthrough
        <5>2. "Join" \in gone \cup {"Join"}
          OBVIOUS
        <5>3. ASSUME Speaker(heard, c, gone \cup {"Join"})
              PROVE  \/ g = Reject(heard, c, "Bad_State")
                     \/ Kept(heard, g, code, gone \cup {"Join"}) /\ Kicked(g, code)
          BY <1>4, <5>2, <5>3, HandleKickKept DEF code
        <5>4. Speaker(heard, c, gone \cup {"Join"})
          BY <2>1 DEF Speaker
        <5> HIDE DEF g
        <5>5. Kept(heard, g, code, gone \cup {"Join"}) /\ Kicked(g, code) =>
                Stepped(heard, g, {c})
          BY <2>1, KeptSteps
        <5> QED BY <2>4, <5>1, <5>3, <5>4, <5>5
      <4>2. CASE m.t # "kick"
        BY <2>1, <2>3, <2>7, <3>2, <4>2, DispatchKept DEF code
      <4> QED BY <4>1, <4>2
    <3> QED BY <1>3, <1>6, <2>2, <2>4, <2>7, <3>1, <3>2
  <2> QED BY <2>5, <2>6, <2>7
<1> QED BY <1>8, <1>9

LEMMA CloseConnRole ==
  ASSUME NEW h, HubType(h), NEW c \in Conns, NEW code
  PROVE  /\ CloseConn(h, c, code).conns[c].room = h.conns[c].room
         /\ CloseConn(h, c, code).conns[c].role = h.conns[c].role
<1> DEFINE conn == [h.conns[c] EXCEPT !.closing = TRUE]
           g == [h EXCEPT !.conns[c] = conn]
<1>1. h.conns[c] \in Conn
  BY Members
<1>2. /\ conn \in Conn /\ conn.room = h.conns[c].room
      /\ conn.role = h.conns[c].role
  BY <1>1 DEF Conn
<1>3. g = [h EXCEPT !.conns[c].closing = TRUE]
  BY DEF HubType
<1> HIDE DEF conn
<1>4. HubType(g) /\ g.conns[c] = conn
  BY <1>2, ConnType DEF HubType
<1> HIDE DEF g
<1>5. \A a : Emit(g, a).conns = g.conns
  BY <1>4, EmitSame DEF Same
<1> QED BY <1>2, <1>3, <1>4, <1>5 DEF CloseConn

LEMMA HubOpenSteps ==
  ASSUME NEW h, Good(h), NEW c \in Conns, ~h.conns[c].open,
         NEW source \in Sources \cup {NoSource}, NEW heard
  PROVE  Stepped(h, HubOpen(h, c, source), heard)
<1> DEFINE conn   == OpenedConn(source)
           new    == [h EXCEPT !.conns[c] = conn]
           opened == SourceAdjust(new, source, 1, 0)
<1>1. conn \in Conn /\ HubType(h)
  BY RoomConstants DEF OpenedConn, Good
<1>2. HubOpen(h, c, source) = opened \/ HubOpen(h, c, source) = CloseConn(opened, c, "policy")
  BY DEF HubOpen
<1> HIDE DEF conn
<1>3. HubType(new) /\ new.rooms = h.rooms
  BY <1>1, ConnType
<1> HIDE DEF new
<1>4. HubType(opened) /\ opened.rooms = h.rooms
  <2>1. 0 \in Int /\ 1 \in Int
    OBVIOUS
  <2> QED BY <1>3, <2>1, SourceAdjustType
<1> HIDE DEF opened
<1>5. /\ HubType(CloseConn(opened, c, "policy"))
      /\ CloseConn(opened, c, "policy").rooms = h.rooms
  BY <1>4, CloseConnRooms
<1> QED BY <1>2, <1>4, <1>5, SameSteps

LEMMA HubClosedSteps ==
  ASSUME NEW h, HubType(h), NEW c \in Conns,
         h.conns[c].room # NoCode => h.conns[c].role \in Roles, NEW heard
  PROVE  Stepped(h, HubClosed(h, c), heard)
<1> DEFINE code    == h.conns[c].room
           role    == h.conns[c].role
           source  == h.conns[c].source
           new     == [h EXCEPT !.conns[c] = ClosedConn]
           dropped == SourceAdjust(new, source, -1, 0)
           none    == {}
<1>1. /\ ClosedConn \in Conn /\ source \in Sources \cup {NoSource}
      /\ code \in Codes \cup {NoCode}
  BY RoomConstants, Members DEF Conn
<1>2. \/ HubClosed(h, c) = dropped
      \/ code # NoCode /\ HubClosed(h, c) = SeatLost(dropped, code, role)
  BY DEF HubClosed, Exists
<1>3. HubType(new) /\ new.rooms = h.rooms
  BY <1>1, ConnType
<1> HIDE DEF new, source
<1>4. HubType(dropped) /\ dropped.rooms = h.rooms
  <2>1. 0 \in Int /\ -1 \in Int
    OBVIOUS
  <2> QED BY <1>1, <1>3, <2>1, SourceAdjustType
<1> HIDE DEF dropped, none
<1>5. code # NoCode => Kept(h, SeatLost(dropped, code, role), code, none)
  <2>1. Kept(h, dropped, code, none)
    BY <1>4, KeptSame
  <2>2. code # NoCode => Kept(dropped, SeatLost(dropped, code, role), code, none)
    BY <1>1, <1>4, SeatLostKept
  <2> QED BY <2>1, <2>2, KeptTrans
<1>6. \A g : Allowed(h.rooms[code], g, code, heard, none)
  BY NothingGone DEF none
<1>7. Stepped(h, dropped, heard)
  BY <1>4, SameSteps
<1> HIDE DEF code, role
<1>8. code # NoCode => Stepped(h, SeatLost(dropped, code, role), heard)
  BY <1>5, <1>6, KeptSteps
<1> QED BY <1>2, <1>7, <1>8

LEMMA TickConnSteps ==
  ASSUME NEW h, Good(h), NEW c \in Conns, NEW heard
  PROVE  Stepped(h, TickConn(h, c), heard)
<1> DEFINE shut == CloseConn(h, c, "policy")
           none == {}
<1>1. HubType(h)
  BY DEF Good
<1>2. Stepped(h, h, heard)
  BY <1>1, SameSteps
<1>3. ~h.conns[c].hello_done => Stepped(h, Fatal(h, c, "Timeout"), heard)
  <2>1. ~h.conns[c].hello_done => h.conns[c].room = NoCode
    BY BoundSeat DEF Speaks
  <2>2. ~h.conns[c].hello_done => Kept(h, Fatal(h, c, "Timeout"), NoCode, none)
    BY <1>1, <2>1, FatalUnseated
  <2> HIDE DEF none
  <2> QED BY <2>2, KeptSteps, NonesAssumption
<1>4. Stepped(h, HubClosed(shut, c), heard)
  <2>1. HubType(shut) /\ shut.rooms = h.rooms
    BY <1>1, CloseConnRooms
  <2>2. shut.conns[c].room # NoCode => shut.conns[c].role \in Roles
    BY <1>1, CloseConnRole, BoundSeat
  <2> HIDE DEF shut
  <2>3. Stepped(shut, HubClosed(shut, c), heard)
    BY <2>1, <2>2, HubClosedSteps
  <2> QED BY <2>1, <2>3 DEF Stepped
<1> QED BY <1>2, <1>3, <1>4 DEF TickConn

\* A departed host leaves the joiner's seat and the result as they are.
LEMMA HostDeparted ==
  ASSUME NEW h, HubType(h), NEW code \in Codes, NEW reason,
         NEW role \in Roles \ {"Join"}
  PROVE  LET old == h.rooms[code]
             new == SeatDeparted(h, code, role, reason).rooms[code]
         IN  new.phase # "None" =>
               /\ new.phase = old.phase /\ new.seats["Join"] = old.seats["Join"]
               /\ new.result_acked = old.result_acked
               /\ new.result_age = old.result_age
<1> DEFINE old     == h.rooms[code]
           vacated == VacateSeat(h, code, role)
           told    == SendTo(vacated, code, Partner(role), PartnerLeft("host_left"))
           empty   == [old EXCEPT !.seats[role] = EmptySeat]
<1>1. old \in Room /\ role \in Roles /\ "Join" \in Roles
  BY Members DEF Roles
<1>2. /\ HubType(vacated) /\ empty \in Room
      /\ vacated.rooms = [h.rooms EXCEPT ![code] = empty]
      /\ vacated.rooms[code] = empty /\ Loosened(h, vacated)
  BY <1>1, VacateSeatRooms
<1>3. /\ empty.phase = old.phase /\ empty.seats["Join"] = old.seats["Join"]
      /\ empty.result_acked = old.result_acked
      /\ empty.result_age = old.result_age
  <2> HIDE DEF old
  <2> QED BY <1>1 DEF Room
<1>4. \/ SeatDeparted(h, code, role, reason) = h
      \/ SeatDeparted(h, code, role, reason) = vacated
      \/ \E error : SeatDeparted(h, code, role, reason) = CloseRoom(vacated, code, error)
      \/ \E error : SeatDeparted(h, code, role, reason) = CloseRoom(told, code, error)
  BY DEF SeatDeparted, EndsRoom, GiveUpResult, Roles
<1> HIDE DEF vacated, empty
<1>5. HubType(told)
  BY <1>2, SendToSame DEF Same
<1> HIDE DEF told
<1>6. ASSUME NEW g, HubType(g), NEW error
      PROVE  CloseRoom(g, code, error).rooms[code].phase = "None"
  <2>1. DOMAIN g.rooms = Codes
    BY <1>6 DEF HubType
  <2>2. CloseRoom(g, code, error).rooms = [g.rooms EXCEPT ![code] = NoRoom]
    BY <1>6, CloseRoomRooms
  <2> QED BY <2>1, <2>2, NoRoomType
<1> DEFINE left == SeatDeparted(h, code, role, reason)
<1>7. \/ left = h \/ left = vacated \/ left.rooms[code].phase = "None"
  BY <1>2, <1>4, <1>5, <1>6
<1> HIDE DEF left
<1> QED BY <1>2, <1>3, <1>7 DEF left

LEMMA TickRoomSteps ==
  ASSUME NEW h, Good(h), NEW code \in Codes, NEW heard
  PROVE  Stepped(h, TickRoom(h, code), heard)
<1> DEFINE first == ExpireSeat(h, code, "Host")
           swept == ExpireSeat(first, code, "Join")
           old   == h.rooms[code]
           host  == GraceOver(old.seats["Host"])
           join  == GraceOver(old.seats["Join"])
           over  == DeliveryOver(old)
           gone  == (IF host THEN {"Host"} ELSE {})
                      \cup (IF join THEN {"Join", "Result"} ELSE {})
                      \cup (IF over THEN {"Result"} ELSE {})
           g     == TickRoom(h, code)
<1>1. HubType(h) /\ "Host" \in Roles /\ "Join" \in Roles
  BY DEF Good, Roles
<1>2. /\ host => Leaving("Host") \subseteq gone
      /\ join => Leaving("Join") \subseteq gone
      /\ over => "Result" \in gone
  BY DEF Leaving
<1>3. Allowed(old, g, code, heard, gone)
  <2>1. /\ "Host" \in gone => host
        /\ "Join" \in gone => join
        /\ "Result" \in gone => join \/ over
    OBVIOUS
  <2> HIDE DEF g, old, gone
  <2> QED BY <2>1 DEF Allowed, Roles
<1> HIDE DEF gone
<1>4. /\ HubType(first) /\ Kept(h, first, code, gone)
      /\ first.rooms[code].phase # "None" =>
           /\ first.rooms[code].phase = old.phase
           /\ first.rooms[code].seats["Join"] = old.seats["Join"]
           /\ first.rooms[code].result_acked = old.result_acked
           /\ first.rooms[code].result_age = old.result_age
  <2>1. \/ first = h
        \/ /\ old.phase # "None" /\ host
           /\ first = SeatDeparted(h, code, "Host", "timeout")
    BY DEF ExpireSeat, Exists
  <2> HIDE DEF first, old, host, join, over
  <2>2. CASE first = h
    BY <1>1, <2>2, KeptSame DEF old
  <2>3. CASE /\ old.phase # "None" /\ host
             /\ first = SeatDeparted(h, code, "Host", "timeout")
    <3>1. Kept(h, first, code, gone)
      BY <1>1, <1>2, <2>3, SeatDepartedKept DEF old
    <3>2. HubType(first)
      BY <3>1 DEF Kept
    <3> QED BY <1>1, <2>3, <3>1, <3>2, HostDeparted DEF old
  <2> QED BY <2>1, <2>2, <2>3
<1> HIDE DEF first
<1>5. /\ HubType(swept) /\ Kept(h, swept, code, gone)
      /\ \/ swept = first
         \/ join
  <2>1. \/ swept = first
        \/ /\ first.rooms[code].phase # "None"
           /\ GraceOver(first.rooms[code].seats["Join"])
           /\ swept = SeatDeparted(first, code, "Join", "timeout")
    BY DEF ExpireSeat, Exists
  <2>2. first.rooms[code].phase # "None"
          /\ GraceOver(first.rooms[code].seats["Join"]) => join
    BY <1>4
  <2> HIDE DEF swept, join
  <2>3. CASE swept = first
    BY <1>4, <2>3
  <2>4. CASE /\ first.rooms[code].phase # "None" /\ join
             /\ swept = SeatDeparted(first, code, "Join", "timeout")
    <3>1. Kept(first, swept, code, gone)
      BY <1>1, <1>2, <1>4, <2>4, SeatDepartedKept
    <3>2. HubType(swept)
      BY <3>1 DEF Kept
    <3> QED BY <1>4, <2>4, <3>1, <3>2, KeptTrans
  <2> QED BY <2>1, <2>2, <2>3, <2>4
<1>6. \/ g = swept
      \/ /\ swept.rooms[code].phase = "Ended" /\ DeliveryOver(swept.rooms[code])
         /\ g = CloseRoom(swept, code, "None")
      \/ /\ swept.rooms[code].phase # "Ended"
         /\ g = CloseRoom(swept, code, "Timeout")
  BY DEF TickRoom, first
<1> HIDE DEF swept, g
<1>7. swept.rooms[code].phase = "Ended" /\ DeliveryOver(swept.rooms[code]) =>
        "Result" \in gone
  <2>1. join => "Result" \in gone
    BY <1>2 DEF Leaving
  <2>2. swept = first /\ swept.rooms[code].phase = "Ended"
          /\ DeliveryOver(swept.rooms[code]) => over
    BY <1>4 DEF DeliveryOver
  <2> QED BY <1>2, <1>5, <2>1, <2>2
<1>8. Kept(h, g, code, gone)
  <2>1. swept.rooms[code].phase = "Ended" /\ DeliveryOver(swept.rooms[code]) =>
          Kept(swept, CloseRoom(swept, code, "None"), code, gone)
    BY <1>5, <1>7, CloseRoomKept
  <2>2. swept.rooms[code].phase # "Ended" =>
          Kept(swept, CloseRoom(swept, code, "Timeout"), code, gone)
    BY <1>5, CloseRoomKept
  <2> QED BY <1>5, <1>6, <2>1, <2>2, KeptTrans
<1> HIDE DEF old
<1> QED BY <1>3, <1>8, KeptSteps DEF g, old

LEMMA OlderRoomSame ==
  ASSUME NEW room \in Room
  PROVE  OlderRoom(room) \in Room /\ SameSeats(OlderRoom(room), room)
<1> DEFINE seats == [role \in Roles |-> OlderSeat(room.seats[role])]
           aged  == [room EXCEPT !.seats = seats]
           over  == Older(room.result_age, ResultDelivery)
           idle  == Older(room.idle, IdleTimeout)
           age   == Older(room.age, WaitingMax)
<1>1. \A role \in Roles : room.seats[role] \in Seat
  BY DEF Room
<1>2. \A role \in Roles :
        /\ seats[role].present = room.seats[role].present
        /\ seats[role].token = room.seats[role].token
        /\ seats[role].ready = room.seats[role].ready
        /\ seats[role].admitted = room.seats[role].admitted
  <2>1. ASSUME NEW role \in Roles
        PROVE  LET seat == room.seats[role]
                   old  == OlderSeat(seat)
               IN  /\ old.present = seat.present /\ old.token = seat.token
                   /\ old.ready = seat.ready /\ old.admitted = seat.admitted
    BY <1>1 DEF OlderSeat, Seat
  <2> QED BY <2>1
<1> HIDE DEF seats
<1>3. /\ aged.seats = seats /\ aged.phase = room.phase
      /\ aged.result = room.result /\ aged.result_acked = room.result_acked
      /\ aged.result_age = room.result_age /\ aged.idle = room.idle
      /\ aged.age = room.age
  BY DEF Room
<1>4. \/ OlderRoom(room) = room
      \/ OlderRoom(room) = [aged EXCEPT !.result_age = over]
      \/ OlderRoom(room) = [aged EXCEPT !.idle = idle, !.age = age]
  BY <1>3 DEF OlderRoom, seats
<1>5. OlderRoom(room) \in Room
  BY OlderRoomKept
<1> HIDE DEF over, idle, age
<1>6. LET new == OlderRoom(room)
      IN  /\ new.phase = room.phase /\ new.result = room.result
          /\ new.result_acked = room.result_acked
          /\ new.seats = room.seats \/ new.seats = seats
  BY <1>3, <1>4 DEF Room
<1> QED BY <1>2, <1>5, <1>6 DEF SameSeats

\* Every step treats every room as Stepped says; the connections of heard are
\* those whose message it is about.
LEMMA NextSteps ==
  ASSUME IInv, [Next]_vars
  PROVE  \E heard : /\ Stepped(hub, hub', heard)
                    /\ \A c \in heard : \E m \in Messages(hub) : Receive(c, m)
<1> DEFINE none == {}
           Goal == \E heard : /\ Stepped(hub, hub', heard)
                              /\ \A c \in heard : \E m \in Messages(hub) : Receive(c, m)
<1>1. Good(hub) /\ Good(Flushed) /\ Flushed.conns = hub.conns /\ Flushed.rooms = hub.rooms
  BY FlushedGood DEF IInv
<1>2. Listed(Flushed)
  <2>1. Flushed.out = <<>>
    BY <1>1 DEF Flushed, Good, HubType
  <2>2. <<>> \in Seq({})
    BY EmptySeq
  <2> QED BY <2>1, <2>2 DEF Listed
<1>3. ASSUME NEW heard, Stepped(Flushed, hub', heard)
      PROVE  Stepped(hub, hub', heard)
  BY <1>1, <1>3 DEF Stepped
<1>4. \A c \in none : \E m \in Messages(hub) : Receive(c, m)
  OBVIOUS
<1> HIDE DEF none
<1>5. ASSUME NEW c \in Conns, NEW source \in Sources \cup {NoSource}, Open(c, source)
      PROVE  Stepped(hub, hub', none)
  <2>1. hub' = HubOpen(Flushed, c, source) /\ ~Flushed.conns[c].open
    BY <1>1, <1>5 DEF Open
  <2>2. Stepped(Flushed, HubOpen(Flushed, c, source), none)
    BY <1>1, <2>1, HubOpenSteps
  <2> QED BY <1>3, <2>1, <2>2
<1>6. ASSUME NEW c \in Conns, Closed(c)
      PROVE  Stepped(hub, hub', none)
  <2>1. hub' = HubClosed(Flushed, c)
    BY <1>6 DEF Closed
  <2>2. Flushed.conns[c].room # NoCode => Flushed.conns[c].role \in Roles
    BY <1>1, BoundSeat
  <2>3. Stepped(Flushed, HubClosed(Flushed, c), none)
    BY <1>1, <2>2, HubClosedSteps DEF Good
  <2> QED BY <1>3, <2>1, <2>3
<1>7. ASSUME NEW c \in Conns, NEW m \in Messages(hub), Receive(c, m)
      PROVE  Stepped(hub, hub', {c})
  <2>1. /\ hub' = HubReceive(Flushed, c, m)
        /\ Flushed.conns[c].open /\ ~Flushed.conns[c].closing
    BY <1>1, <1>7 DEF Receive
  <2>2. WellFormed(m)
    BY MessagesWellFormed
  <2>3. Stepped(Flushed, HubReceive(Flushed, c, m), {c})
    BY <1>1, <1>2, <2>1, <2>2, HubReceiveSteps
  <2> QED BY <1>3, <2>1, <2>3
<1>8. ASSUME TimePasses
      PROVE  Stepped(hub, hub', none)
  <2> DEFINE rooms == [code \in Codes |-> OlderRoom(hub.rooms[code])]
             conns == [c \in Conns |-> OlderConn(hub.conns[c])]
  <2>1. HubType(hub')
    BY <1>1, <1>8, TimePassesGood DEF Good
  <2>2. \A code \in Codes : hub'.rooms[code] = OlderRoom(hub.rooms[code])
    <3>1. hub' = [Flushed EXCEPT !.conns = conns, !.rooms = rooms]
      BY <1>8 DEF TimePasses
    <3> HIDE DEF conns, rooms
    <3>2. hub'.rooms = rooms
      BY <1>1, <3>1 DEF Good, HubType
    <3> QED BY <3>2 DEF rooms
  <2>3. ASSUME NEW code \in Codes
        PROVE  /\ MovedRoom(hub.rooms[code], hub'.rooms[code], none)
               /\ Allowed(hub.rooms[code], hub', code, none, none)
    <3>1. hub.rooms[code] \in Room
      BY <1>1, Members DEF Good
    <3>2. /\ OlderRoom(hub.rooms[code]) \in Room
          /\ SameSeats(OlderRoom(hub.rooms[code]), hub.rooms[code])
      BY <3>1, OlderRoomSame
    <3>3. KeptRoom(hub.rooms[code], OlderRoom(hub.rooms[code]), none)
      BY <3>1, <3>2, SameSeatsKept
    <3> QED BY <2>2, <3>3, NothingGone DEF MovedRoom, none
  <2> QED BY <2>1, <2>3 DEF Stepped
<1>9. ASSUME HubTick \/ UNCHANGED vars
      PROVE  Stepped(hub, hub', none)
  <2>1. HubType(hub') /\ hub'.rooms = hub.rooms
    BY <1>1, <1>9 DEF HubTick, Good, vars
  <2> QED BY <2>1, SameSteps
<1>10. ASSUME NEW c \in Conns, SweepConn(c)
       PROVE  Stepped(hub, hub', none)
  <2>1. hub' = TickConn(Flushed, c)
    BY <1>10 DEF SweepConn
  <2>2. Stepped(Flushed, TickConn(Flushed, c), none)
    BY <1>1, TickConnSteps
  <2> QED BY <1>3, <2>1, <2>2
<1>11. ASSUME NEW code \in Codes, SweepRoom(code)
       PROVE  Stepped(hub, hub', none)
  <2>1. hub' = TickRoom(Flushed, code)
    BY <1>11 DEF SweepRoom
  <2>2. Stepped(Flushed, TickRoom(Flushed, code), none)
    BY <1>1, TickRoomSteps
  <2> QED BY <1>3, <2>1, <2>2
<1>12. CASE \E c \in Conns, m \in Messages(hub) : Receive(c, m)
  <2>1. PICK c \in Conns : \E m \in Messages(hub) : Receive(c, m)
    BY <1>12
  <2>2. Stepped(hub, hub', {c})
    BY <1>7, <2>1
  <2>3. \A x \in {c} : \E m \in Messages(hub) : Receive(x, m)
    BY <2>1
  <2> QED BY <2>2, <2>3
<1>13. CASE Stepped(hub, hub', none)
  BY <1>4, <1>13
<1> QED
  BY <1>5, <1>6, <1>8, <1>9, <1>10, <1>11, <1>12, <1>13
  DEF Next, Events, Timers, Sweep

-----------------------------------------------------------------------------
(* The theorems *)

PhasesKept == IInv /\ \A code \in Codes : Phased(hub.rooms[code])

LEMMA InitPhases == Init => PhasesKept
<1> SUFFICES ASSUME Init PROVE \A code \in Codes : Phased(hub.rooms[code])
  BY InitIInv DEF PhasesKept
<1>1. \A code \in Codes : hub.rooms[code] = NoRoom
  BY DEF Init
<1> QED BY <1>1, NoRoomType DEF Phased

LEMMA NextPhases == PhasesKept /\ [Next]_vars => PhasesKept'
<1> SUFFICES ASSUME PhasesKept, [Next]_vars
             PROVE  \A code \in Codes : Phased(hub'.rooms[code])
  BY NextIInv DEF PhasesKept
<1>1. PICK heard : Stepped(hub, hub', heard)
  BY NextSteps DEF PhasesKept
<1>2. \A code \in Codes : \E gone : MovedRoom(hub.rooms[code], hub'.rooms[code], gone)
  BY <1>1 DEF Stepped
<1>3. \A code \in Codes : Phased(hub.rooms[code])
  BY DEF PhasesKept
<1> QED BY <1>2, <1>3 DEF MovedRoom, KeptRoom

\* Nobody is ready or admitted before the host answered the present occupant,
\* a run is active only between two admitted and ready players, and a room has
\* ended exactly when it keeps a result.
THEOREM PhaseSeatsHolds == Spec => []PhaseSeats
<1>1. PhasesKept => PhaseSeats
  BY DEF PhasesKept, PhaseSeats, OpenRooms, Exists, Phased
<1> QED BY <1>1, InitPhases, NextPhases, PTL DEF Spec

\* Stated of one step, from a hub that satisfies the invariant.
LEMMA StepOfRoom ==
  ASSUME IInv, [Next]_vars, NEW code \in Codes, hub.rooms[code].phase # "None"
  PROVE  \E heard, gone :
           /\ KeptRoom(hub.rooms[code], hub'.rooms[code], gone)
           /\ Allowed(hub.rooms[code], hub', code, heard, gone)
           /\ \A c \in heard : \E m \in Messages(hub) : Receive(c, m)
<1>1. PICK heard : /\ Stepped(hub, hub', heard)
                   /\ \A c \in heard : \E m \in Messages(hub) : Receive(c, m)
  BY NextSteps
<1>2. PICK gone : /\ MovedRoom(hub.rooms[code], hub'.rooms[code], gone)
                  /\ Allowed(hub.rooms[code], hub', code, heard, gone)
  BY <1>1 DEF Stepped
<1>3. KeptRoom(hub.rooms[code], hub'.rooms[code], gone)
  BY <1>2 DEF MovedRoom
<1> QED BY <1>1, <1>2, <1>3

\* An active run never accepts a replacement stranger: whoever sits in a
\* started room holds the token that started it.
THEOREM NoStrangerHolds == Spec => NoStranger
<1> DEFINE A == \A code \in Codes, role \in Roles :
                  LET seat  == hub.rooms[code].seats[role]
                      seat1 == hub'.rooms[code].seats[role]
                  IN  /\ hub.rooms[code].phase \in {"Active", "Ended"}
                      /\ Exists(hub', code) /\ seat1.present
                      => seat.present /\ seat.token = seat1.token
<1>1. IInv /\ [Next]_vars => A
  <2> SUFFICES ASSUME IInv, [Next]_vars, NEW code \in Codes, NEW role \in Roles,
                      hub.rooms[code].phase \in {"Active", "Ended"},
                      Exists(hub', code), hub'.rooms[code].seats[role].present
               PROVE  /\ hub.rooms[code].seats[role].present
                      /\ hub.rooms[code].seats[role].token =
                           hub'.rooms[code].seats[role].token
    OBVIOUS
  <2>1. PICK gone : KeptRoom(hub.rooms[code], hub'.rooms[code], gone)
    BY StepOfRoom
  <2>2. hub'.rooms[code].phase # "None"
    BY DEF Exists
  <2> QED BY <2>1, <2>2 DEF KeptRoom, SameHolder
<1>2. IInv /\ [Next]_vars => [A]_vars
  BY <1>1
<1> QED BY <1>2, InitIInv, NextIInv, PTL DEF Spec, NoStranger

\* Before the delivery deadline only the joiner's own message, or its absence
\* past the grace window, drops a result or changes it.
THEOREM ResultRetainedHolds == Spec => ResultRetained
<1> DEFINE A == \A code \in Codes :
                  LET room == hub.rooms[code]
                      join == room.seats["Join"]
                  IN  /\ room.phase = "Ended" /\ ~room.result_acked
                      /\ room.result_age <= ResultDelivery
                      /\ join.present /\ ~GraceOver(join)
                      => \/ /\ hub'.rooms[code].phase = "Ended"
                            /\ hub'.rooms[code].result = room.result
                         \/ join.connected /\ \E m \in Messages(hub) : Receive(join.conn, m)
<1>1. IInv /\ [Next]_vars => A
  <2> SUFFICES ASSUME IInv, [Next]_vars, NEW code \in Codes,
                      hub.rooms[code].phase = "Ended",
                      ~hub.rooms[code].result_acked,
                      hub.rooms[code].result_age <= ResultDelivery,
                      ~GraceOver(hub.rooms[code].seats["Join"])
               PROVE  \/ /\ hub'.rooms[code].phase = "Ended"
                         /\ hub'.rooms[code].result = hub.rooms[code].result
                      \/ /\ hub.rooms[code].seats["Join"].connected
                         /\ \E m \in Messages(hub) :
                              Receive(hub.rooms[code].seats["Join"].conn, m)
    OBVIOUS
  <2>1. PICK heard, gone :
           /\ KeptRoom(hub.rooms[code], hub'.rooms[code], gone)
           /\ Allowed(hub.rooms[code], hub', code, heard, gone)
           /\ \A c \in heard : \E m \in Messages(hub) : Receive(c, m)
    BY StepOfRoom
  <2>2. hub.rooms[code].result_age \in Nat /\ ResultDelivery \in Nat
    BY Members, ConfigAssumption DEF IInv, Good, Room
  <2>3. ~DeliveryOver(hub.rooms[code])
    BY <2>2 DEF DeliveryOver
  <2>4. CASE "Result" \notin gone
    BY <2>1, <2>4 DEF KeptRoom
  <2>5. CASE "Result" \in gone
    <3>1. /\ hub.rooms[code].seats["Join"].connected
          /\ hub.rooms[code].seats["Join"].conn \in heard
      BY <2>1, <2>3, <2>5 DEF Allowed
    <3> QED BY <2>1, <3>1
  <2> QED BY <2>4, <2>5
<1>2. IInv /\ [Next]_vars => [A]_vars
  BY <1>1
<1> QED BY <1>2, InitIInv, NextIInv, PTL DEF Spec, ResultRetained

\* A seat inside its grace window is given up only with its room, or by a kick
\* the host is told of.
THEOREM HeldForGraceHolds == Spec => HeldForGrace
<1> DEFINE A == \A code \in Codes, role \in Roles :
                  LET seat  == hub.rooms[code].seats[role]
                      seat1 == hub'.rooms[code].seats[role]
                  IN  /\ Exists(hub, code) /\ seat.present /\ ~seat.connected
                      /\ ~GraceOver(seat) /\ Exists(hub', code)
                      => \/ seat1.present /\ seat1.token = seat.token
                         \/ /\ ~seat1.present /\ hub'.rooms[code].phase = "Waiting"
                            /\ \E i \in DOMAIN hub'.out :
                                 hub'.out[i].kind = "send" /\ hub'.out[i].msg = PartnerLeft("kicked")
<1>1. IInv /\ [Next]_vars => A
  <2> SUFFICES ASSUME IInv, [Next]_vars, NEW code \in Codes, NEW role \in Roles,
                      Exists(hub, code), Exists(hub', code),
                      hub.rooms[code].seats[role].present,
                      ~hub.rooms[code].seats[role].connected,
                      ~GraceOver(hub.rooms[code].seats[role])
               PROVE  \/ /\ hub'.rooms[code].seats[role].present
                         /\ hub'.rooms[code].seats[role].token =
                              hub.rooms[code].seats[role].token
                      \/ /\ ~hub'.rooms[code].seats[role].present
                         /\ hub'.rooms[code].phase = "Waiting"
                         /\ \E i \in DOMAIN hub'.out :
                              hub'.out[i].kind = "send" /\ hub'.out[i].msg = PartnerLeft("kicked")
    OBVIOUS
  <2>1. hub.rooms[code].phase # "None" /\ hub'.rooms[code].phase # "None"
    BY DEF Exists
  <2>2. PICK heard, gone :
           /\ KeptRoom(hub.rooms[code], hub'.rooms[code], gone)
           /\ Allowed(hub.rooms[code], hub', code, heard, gone)
    BY <2>1, StepOfRoom
  <2>3. CASE role \notin gone
    BY <2>1, <2>2, <2>3 DEF KeptRoom, SameHolder
  <2>4. CASE role \in gone
    <3>1. role = "Join" /\ Kicked(hub', code)
      BY <2>2, <2>4 DEF Allowed
    <3> QED BY <3>1 DEF Kicked, Says
  <2> QED BY <2>3, <2>4
<1>2. IInv /\ [Next]_vars => [A]_vars
  BY <1>1
<1> QED BY <1>2, InitIInv, NextIInv, PTL DEF Spec, HeldForGrace

=============================================================================
