------------------------------ MODULE RelayHub ------------------------------
(***************************************************************************)
(* The relay's room reducer, src/tools/relay/core/hub.odin.                *)
(*                                                                         *)
(* The reducer is single threaded: the relay's main loop hands it one      *)
(* transport event or one tick at a time and then flushes the send and     *)
(* close actions it produced.  A hub is a record; a procedure of the       *)
(* source that takes ^Hub is an operator from a hub to a hub with the name *)
(* of the procedure; an entry point (hub_open, hub_closed, hub_receive,    *)
(* hub_tick) is an action.                                                 *)
(*                                                                         *)
(* Abstractions.                                                           *)
(*  - A timestamp t is the age now - t, which is the only way the code     *)
(*    reads it; an age stops growing one past the limit it is compared     *)
(*    with, so the clock needs no bound.                                   *)
(*  - A token is the ordinal of the draw that produced it: the relay's     *)
(*    random source never repeats one.  Names, seeds, sessions and the     *)
(*    bytes of a gameplay message are left out.                            *)
(*  - m.fresh says whether m.seq is above the connection's last_seq.       *)
(*  - The token bucket of rate_take is a choice: "flood" is the message    *)
(*    that finds it empty.                                                 *)
(*                                                                         *)
(* An operator whose comment begins "Mutant" is no part of the model: it   *)
(* is the next definition with one mistake in it, kept to show that a      *)
(* property notices.                                                       *)
(***************************************************************************)
EXTENDS Integers, Sequences, FiniteSets

CONSTANTS
  Conns, NoConn,              \* connection ids of the transport; 0 in the code
  Codes, NoCode,              \* normalised room codes; the empty string
  Sources, NoSource,          \* client addresses; the empty string
  Games,                      \* release strings
  Archetypes, NoArchetype,    \* archetype keys; the empty string
  Settings, DefaultSettings,  \* difficulty and story, taken together
  Results, NoResult           \* identities of terminal results

\* The Config of the hub.
CONSTANTS
  MaxRooms, MaxConnsPerSource, MaxRoomsPerSource, MaxInvalid,
  HelloTimeout, Liveness, Grace, IdleTimeout, WaitingMax, ResultDelivery

\* Bound on the number of tokens the relay draws in one behaviour.
CONSTANT MaxTokens

ASSUME NonesAssumption ==
  /\ NoConn \notin Conns
  /\ NoCode \notin Codes
  /\ NoSource \notin Sources
  /\ NoArchetype \notin Archetypes
  /\ NoResult \notin Results
  /\ DefaultSettings \in Settings
  /\ Games # {}

ASSUME ConfigAssumption ==
  /\ MaxInvalid \in Nat \ {0}
  /\ {MaxRooms, MaxConnsPerSource, MaxRoomsPerSource} \subseteq Nat
  /\ {HelloTimeout, Liveness, Grace, IdleTimeout, WaitingMax, ResultDelivery}
       \subseteq Nat
  /\ MaxTokens \in Nat

VARIABLES
  hub,    \* [conns, rooms, sources, issued, out], see TypeOK
  sweep   \* what is left of the hub_tick call in progress

vars == <<hub, sweep>>

-----------------------------------------------------------------------------
(* Records *)

Roles   == {"Host", "Join"}
Phases  == {"Waiting", "Admission", "Selecting", "Active", "Ended"}
NoToken == 0

Conn == [open: BOOLEAN, hello_done: BOOLEAN, closing: BOOLEAN,
         room: Codes \cup {NoCode}, role: Roles \cup {"None"},
         invalid: Nat, silent: Nat, source: Sources \cup {NoSource}]

Seat == [present: BOOLEAN, connected: BOOLEAN, conn: Conns \cup {NoConn},
         token: Nat, archetype: Archetypes \cup {NoArchetype},
         ready: BOOLEAN, admitted: BOOLEAN, lost: Nat]

Room == [phase: Phases \cup {"None"}, game: Games, seat_gen: Nat,
         seats: [Roles -> Seat], settings: Settings, idle: Nat, age: Nat,
         source: Sources \cup {NoSource},
         result: Results \cup {NoResult}, result_acked: BOOLEAN,
         result_age: Nat]

ClosedConn ==
  [open |-> FALSE, hello_done |-> FALSE, closing |-> FALSE, room |-> NoCode,
   role |-> "None", invalid |-> 0, silent |-> 0, source |-> NoSource]

OpenedConn(source) == [ClosedConn EXCEPT !.open = TRUE, !.source = source]

EmptySeat ==
  [present |-> FALSE, connected |-> FALSE, conn |-> NoConn, token |-> NoToken,
   archetype |-> NoArchetype, ready |-> FALSE, admitted |-> FALSE, lost |-> 0]

NewRoom(game, source) ==
  [phase |-> "Waiting", game |-> game, seat_gen |-> 0,
   seats |-> [role \in Roles |-> EmptySeat], settings |-> DefaultSettings,
   idle |-> 0, age |-> 0, source |-> source,
   result |-> NoResult, result_acked |-> FALSE, result_age |-> 0]

\* A code with no room: what is not in hub.rooms.
NoRoom == [NewRoom(CHOOSE game \in Games : TRUE, NoSource)
             EXCEPT !.phase = "None"]

Exists(h, code)   == code # NoCode /\ h.rooms[code].phase # "None"
OpenRooms(h)      == {code \in Codes : Exists(h, code)}
PreStart(room)    == room.phase \in {"Waiting", "Admission", "Selecting"}
Partner(role)     == IF role = "Host" THEN "Join" ELSE "Host"
SeatOf(h, c)      == h.rooms[h.conns[c].room].seats[h.conns[c].role]

-----------------------------------------------------------------------------
(* Output and bookkeeping *)

Emit(h, action) == [h EXCEPT !.out = Append(@, action)]

Send(h, c, m) == Emit(h, [kind |-> "send", conn |-> c, msg |-> m])

Error(code, isFatal) == [t |-> "error", code |-> code, fatal |-> isFatal]

CloseConn(h, c, code) ==
  IF h.conns[c].closing THEN h
  ELSE Emit([h EXCEPT !.conns[c].closing = TRUE],
            [kind |-> "close", conn |-> c, code |-> code])

Detach(h, c) ==
  [h EXCEPT !.conns[c] = [@ EXCEPT !.room = NoCode, !.role = "None"]]

Clamp(n) == IF n < 0 THEN 0 ELSE n

SourceAdjust(h, source, conns, rooms) ==
  IF source = NoSource THEN h
  ELSE [h EXCEPT !.sources[source] =
         [conns |-> Clamp(@.conns + conns), rooms |-> Clamp(@.rooms + rooms)]]

\* The live connection of a seat, NoConn when there is none.
SeatConn(h, code, role) ==
  LET seat == h.rooms[code].seats[role]
  IN  IF seat.present /\ seat.connected /\ h.conns[seat.conn].open
      THEN seat.conn ELSE NoConn

SendTo(h, code, role, m) ==
  IF SeatConn(h, code, role) = NoConn THEN h
  ELSE Send(h, SeatConn(h, code, role), m)

LobbyView(room) ==
  LET view(seat) == [present |-> seat.present, connected |-> seat.connected,
                     admitted |-> seat.admitted, ready |-> seat.ready,
                     archetype |-> seat.archetype]
  IN  [t |-> "lobby", phase |-> room.phase, seat_gen |-> room.seat_gen,
       host |-> view(room.seats["Host"]), join |-> view(room.seats["Join"]),
       settings |-> room.settings]

BroadcastLobby(h, code) ==
  LET view == LobbyView(h.rooms[code])
  IN  SendTo(SendTo(h, code, "Host", view), code, "Join", view)

-----------------------------------------------------------------------------
(* Departures *)

\* Mutant: the error follows the close.
ErrorAfterClose(h, c, code) ==
  IF h.conns[c].closing THEN h
  ELSE Send(CloseConn(h, c, "policy"), c, Error(code, TRUE))

\* fatal on a connection that is bound to no room.
FatalUnbound(h, c, code) ==
  IF h.conns[c].closing THEN h
  ELSE CloseConn(Send(h, c, Error(code, TRUE)), c, "policy")

\* One round of close_room's loop over the seats.
CloseSeat(h, code, role, error) ==
  LET c == SeatConn(h, code, role)
  IN  IF c = NoConn THEN h
      ELSE IF error = "None" THEN CloseConn(Detach(h, c), c, "normal")
      ELSE FatalUnbound(Detach(h, c), c, error)

\* Mutant: the source keeps paying for a room that is gone.
CloseRoomUncounted(h, code, error) ==
  LET closed == CloseSeat(CloseSeat(h, code, "Host", error), code, "Join", error)
  IN  [closed EXCEPT !.rooms[code] = NoRoom]

CloseRoom(h, code, error) ==
  LET closed == CloseSeat(CloseSeat(h, code, "Host", error), code, "Join", error)
  IN  SourceAdjust([closed EXCEPT !.rooms[code] = NoRoom],
                   h.rooms[code].source, 0, -1)

PartnerLeft(reason) == [t |-> "partner_left", reason |-> reason]

\* The seat is emptied, its socket (if any) closed first.
VacateSeat(h, code, role) ==
  LET c      == SeatConn(h, code, role)
      closed == IF c = NoConn THEN h ELSE CloseConn(Detach(h, c), c, "normal")
  IN  [closed EXCEPT !.rooms[code].seats[role] = EmptySeat]

\* Mutant: the host stays ready for whoever knocks next.
ReopenStillReady(h, code) ==
  [h EXCEPT !.rooms[code] = [@ EXCEPT !.phase = "Waiting", !.idle = 0]]

ReopenRoom(h, code) ==
  [h EXCEPT !.rooms[code] = [@ EXCEPT !.phase = "Waiting", !.idle = 0,
                                      !.seats["Host"].ready = FALSE]]

\* Mutant: any departure counts as the acknowledgement.
AnyoneGivesUpResult(h, code, role) ==
  [h EXCEPT !.rooms[code].result_acked = TRUE]

\* Nobody is left to deliver to once the joiner departs.
GiveUpResult(h, code, role) ==
  IF role = "Join" THEN [h EXCEPT !.rooms[code].result_acked = TRUE] ELSE h

\* A room cannot outlive its host, nor an active run either player.
EndsRoom(room, role) == role = "Host" \/ room.phase = "Active"

SeatDeparted(h, code, role, reason) ==
  LET room    == h.rooms[code]
      vacated == VacateSeat(h, code, role)
      acked   == GiveUpResult(vacated, code, role)
      why     == IF role = "Host" THEN "host_left" ELSE reason
  IN  IF ~room.seats[role].present THEN h
      ELSE IF room.phase = "Ended"
      THEN IF acked.rooms[code].result_acked
           THEN CloseRoom(acked, code, "None") ELSE acked
      ELSE IF EndsRoom(room, role)
      THEN CloseRoom(SendTo(vacated, code, Partner(role), PartnerLeft(why)),
                     code, "None")
      ELSE BroadcastLobby(SendTo(ReopenRoom(vacated, code), code, "Host",
                                 PartnerLeft(reason)), code)

Fatal(h, c, code) ==
  LET conn  == h.conns[c]
      ended == FatalUnbound(Detach(h, c), c, code)
  IN  IF conn.closing THEN h
      ELSE IF Exists(h, conn.room) /\ SeatOf(h, c).present
                                   /\ SeatOf(h, c).conn = c
      THEN SeatDeparted([ended EXCEPT
                           !.rooms[conn.room].seats[conn.role].connected = FALSE],
                        conn.room, conn.role, "left")
      ELSE ended

NoteInvalid(h, c) ==
  LET counted == [h EXCEPT !.conns[c].invalid = @ + 1]
  IN  IF counted.conns[c].invalid >= MaxInvalid
      THEN Fatal(counted, c, "Bad_Msg") ELSE counted

Reject(h, c, code) == NoteInvalid(Send(h, c, Error(code, FALSE)), c)

\* Unexpected loss: the seat is held for the grace window.
SeatLost(h, code, role) ==
  LET held == [h EXCEPT !.rooms[code].seats[role] =
                 [@ EXCEPT !.connected = FALSE, !.conn = NoConn, !.lost = 0]]
      told == SendTo(held, code, Partner(role), [t |-> "partner_disconnected"])
  IN  IF h.rooms[code].phase = "Ended" THEN held
      ELSE IF PreStart(h.rooms[code]) THEN BroadcastLobby(told, code)
      ELSE told

-----------------------------------------------------------------------------
(* Hello: a fresh seat, or a token's claim on the seat it was issued for *)

Bind(h, c, code, role, resumed) ==
  LET room == h.rooms[code]
  IN  Send([h EXCEPT !.conns[c] = [@ EXCEPT !.hello_done = TRUE, !.room = code,
                                            !.role = role]],
           c, [t |-> "welcome", room |-> code, role |-> role,
               token |-> room.seats[role].token, resumed |-> resumed,
               phase |-> room.phase])

\* A fresh occupant: every field of the seat is reset and a token is drawn.
SeatFill(h, code, role, c) ==
  [h EXCEPT !.rooms[code].seats[role] =
              [EmptySeat EXCEPT !.present = TRUE, !.connected = TRUE,
                                !.conn = c, !.token = h.issued + 1],
            !.issued = @ + 1]

HostRefusal(h, c, hello) ==
  LET source == h.conns[c].source
  IN  IF Exists(h, hello.room) THEN "Run_Id_In_Use"
      ELSE IF Cardinality(OpenRooms(h)) >= MaxRooms THEN "Server_Full"
      ELSE IF /\ source # NoSource
              /\ MaxRoomsPerSource > 0
              /\ h.sources[source].rooms >= MaxRoomsPerSource
      THEN "Server_Full"
      ELSE "None"

HostHello(h, c, hello) ==
  LET code    == hello.room
      source  == h.conns[c].source
      created == SourceAdjust(
                   [h EXCEPT !.rooms[code] = NewRoom(hello.game, source)],
                   source, 0, 1)
      filled  == SeatFill(created, code, "Host", c)
      host    == [filled EXCEPT !.rooms[code].seats["Host"].admitted = TRUE]
  IN  BroadcastLobby(Bind(host, c, code, "Host", FALSE), code)

\* Mutant: somebody else may step in for the partner an active run lost.
JoinInstead(h, hello) ==
  LET room == h.rooms[hello.room]
  IN  IF ~Exists(h, hello.room) THEN "Run_Not_Found"
      ELSE IF \/ room.phase \notin {"Waiting", "Active"}
              \/ room.seats["Join"].connected THEN "Run_Full"
      ELSE IF hello.game # room.game THEN "Bad_Revision"
      ELSE "None"

JoinRefusal(h, hello) ==
  LET room == h.rooms[hello.room]
  IN  IF ~Exists(h, hello.room) THEN "Run_Not_Found"
      ELSE IF room.phase # "Waiting" \/ room.seats["Join"].present THEN "Run_Full"
      ELSE IF hello.game # room.game THEN "Bad_Revision"
      ELSE "None"

JoinHello(h, c, hello) ==
  LET code    == hello.room
      filled  == SeatFill(h, code, "Join", c)
      knocked == [filled EXCEPT !.rooms[code] =
                    [@ EXCEPT !.seat_gen = @ + 1, !.phase = "Admission",
                              !.idle = 0, !.seats["Host"].ready = FALSE]]
  IN  BroadcastLobby(Bind(knocked, c, code, "Join", FALSE), code)

\* Mutant: a ready player may be away.
MayStartAlone(room) ==
  /\ room.phase = "Selecting"
  /\ \A role \in Roles : /\ room.seats[role].admitted
                         /\ room.seats[role].ready

MayStart(room) ==
  /\ room.phase = "Selecting"
  /\ \A role \in Roles : LET seat == room.seats[role]
                         IN  /\ seat.present /\ seat.connected
                             /\ seat.admitted /\ seat.ready
                             /\ seat.archetype # NoArchetype

StartOf(room) ==
  [t |-> "start", settings |-> room.settings,
   host |-> room.seats["Host"].archetype, join |-> room.seats["Join"].archetype]

\* maybe_start, and the lobby broadcast every caller makes when it declines.
StartOrBroadcast(h, code) ==
  LET room   == h.rooms[code]
      active == [h EXCEPT !.rooms[code].phase = "Active"]
      told   == Send(active, room.seats["Host"].conn, StartOf(room))
  IN  IF MayStart(room) THEN Send(told, room.seats["Join"].conn, StartOf(room))
      ELSE BroadcastLobby(h, code)

Claims(room, role, hello) ==
  room.seats[role].present /\ room.seats[role].token = hello.token

ReclaimRefusal(h, hello) ==
  LET room == h.rooms[hello.room]
      seat == room.seats[hello.role]
  IN  IF ~Exists(h, hello.room) \/ ~Claims(room, hello.role, hello)
      THEN "Run_Not_Found"
      ELSE IF ~seat.connected /\ seat.lost > Grace THEN "Expired"
      ELSE IF hello.game # room.game THEN "Bad_Revision"
      ELSE IF room.phase = "Ended" /\ (hello.role # "Join" \/ room.result_acked)
      THEN "Run_Not_Found"
      ELSE "None"

\* Mutant: the old socket is left as it is.
SupersedeNothing(h, code, role) == h

Supersede(h, code, role) ==
  LET old == SeatConn(h, code, role)
  IN  IF old = NoConn THEN h ELSE CloseConn(Detach(h, old), old, "superseded")

Resume(h, c, hello) ==
  LET code   == hello.room
      role   == hello.role
      freed  == Supersede(h, code, role)
      seat   == [freed.rooms[code].seats[role] EXCEPT
                   !.connected = TRUE, !.conn = c, !.lost = 0]
      seated == [freed EXCEPT !.rooms[code] =
                   [@ EXCEPT !.idle = 0, !.seats[role] = seat]]
      bound  == SendTo(Bind(seated, c, code, role, TRUE), code, Partner(role),
                       [t |-> "partner_rejoined"])
      room   == bound.rooms[code]
  IN  IF PreStart(room) THEN StartOrBroadcast(bound, code)
      ELSE IF room.phase = "Ended" /\ room.result # NoResult
      THEN Send(bound, c, [t |-> "run_ended", result |-> room.result])
      ELSE bound

Reclaim(h, c, hello) ==
  LET refusal == ReclaimRefusal(h, hello)
  IN  IF refusal = "None" THEN Resume(h, c, hello)
      ELSE IF refusal = "Expired"
      THEN Fatal(SeatDeparted(h, hello.room, hello.role, "timeout"), c,
                 "Run_Not_Found")
      ELSE Fatal(h, c, refusal)

HandleHello(h, c, hello) ==
  LET refusal == IF hello.role = "Host" THEN HostRefusal(h, c, hello)
                 ELSE JoinRefusal(h, hello)
  IN  IF ~hello.supported THEN Fatal(h, c, "Bad_Version")
      ELSE IF hello.room = NoCode
      THEN Fatal(h, c, IF hello.role = "Join" THEN "Run_Not_Found" ELSE "Bad_Msg")
      ELSE IF hello.token # NoToken THEN Reclaim(h, c, hello)
      ELSE IF refusal # "None" THEN Fatal(h, c, refusal)
      ELSE IF hello.role = "Host" THEN HostHello(h, c, hello)
      ELSE JoinHello(h, c, hello)

-----------------------------------------------------------------------------
(* Lobby messages.  c is bound to the seat SeatOf(h, c). *)

Touch(h, code) == [h EXCEPT !.rooms[code].idle = 0]

HandleSelect(h, c, m) ==
  LET code   == h.conns[c].room
      role   == h.conns[c].role
      chosen == IF SeatOf(h, c).archetype = m.archetype THEN h
                ELSE [h EXCEPT !.rooms[code].seats[role] =
                        [@ EXCEPT !.archetype = m.archetype, !.ready = FALSE]]
  IN  IF ~PreStart(h.rooms[code]) \/ ~SeatOf(h, c).admitted
      THEN Reject(h, c, "Bad_State")
      ELSE BroadcastLobby(Touch(chosen, code), code)

\* The host's readiness carries the run's seed, the joiner's must not.
ReadyRefusal(h, c, m) ==
  IF h.rooms[h.conns[c].room].phase # "Selecting" \/ ~SeatOf(h, c).admitted
  THEN "Bad_State"
  ELSE IF ~m.ready THEN "None"
  ELSE IF SeatOf(h, c).archetype = NoArchetype THEN "Bad_State"
  ELSE IF h.conns[c].role = "Host" /\ ~m.seeded THEN "Bad_Msg"
  ELSE IF h.conns[c].role = "Join" /\ m.seeded THEN "Role_Forbidden"
  ELSE "None"

HandleReady(h, c, m) ==
  LET code  == h.conns[c].room
      ready == [h EXCEPT !.rooms[code].seats[h.conns[c].role].ready = m.ready]
  IN  IF ReadyRefusal(h, c, m) # "None" THEN Reject(h, c, ReadyRefusal(h, c, m))
      ELSE StartOrBroadcast(Touch(ready, code), code)

HandleSettings(h, c, m) ==
  LET code    == h.conns[c].room
      changed == IF h.rooms[code].settings = m.settings THEN h
                 ELSE [h EXCEPT !.rooms[code] =
                        [@ EXCEPT !.settings = m.settings,
                                  !.seats["Join"].ready = FALSE]]
  IN  IF ~PreStart(h.rooms[code]) THEN Reject(h, c, "Bad_State")
      ELSE BroadcastLobby(Touch(changed, code), code)

HandleAdmit(h, c, m) ==
  LET code == h.conns[c].room
      room == h.rooms[code]
      admitted == [h EXCEPT !.rooms[code] =
                     [@ EXCEPT !.phase = "Selecting",
                               !.seats["Join"].admitted = TRUE]]
  IN  IF \/ room.phase # "Admission"
         \/ ~room.seats["Join"].present
         \/ m.seat_gen # room.seat_gen
      THEN Reject(h, c, "Bad_State")
      ELSE BroadcastLobby(Touch(admitted, code), code)

HandleKick(h, c, m) ==
  LET code   == h.conns[c].room
      room   == h.rooms[code]
      joiner == SeatConn(h, code, "Join")
      turned == IF joiner = NoConn THEN h
                ELSE FatalUnbound(Detach(h, joiner), joiner, "Kicked")
      vacant == [turned EXCEPT !.rooms[code].seats["Join"] = EmptySeat]
  IN  IF \/ ~PreStart(room)
         \/ ~room.seats["Join"].present
         \/ m.seat_gen # room.seat_gen
      THEN Reject(h, c, "Bad_State")
      ELSE BroadcastLobby(Send(ReopenRoom(vacant, code), c, PartnerLeft("kicked")),
                          code)

HandlePing(h, c) ==
  Send(Touch(h, h.conns[c].room), c, [t |-> "pong"])

HandleBye(h, c) ==
  SeatDeparted(CloseConn(Detach(h, c), c, "normal"),
               h.conns[c].room, h.conns[c].role, "left")

HandleSuspend(h, c) ==
  LET closed == CloseConn(Detach(h, c), c, "suspended")
  IN  IF SeatOf(h, c).present /\ SeatOf(h, c).connected
      THEN SeatLost(closed, h.conns[c].room, h.conns[c].role)
      ELSE closed

HandleResultAck(h, c, m) ==
  LET code == h.conns[c].room
      room == h.rooms[code]
  IN  IF room.phase # "Ended" \/ m.result # room.result
      THEN Reject(h, c, "Bad_State")
      ELSE Touch([h EXCEPT !.rooms[code].result_acked = TRUE], code)

\* Gameplay is forwarded verbatim; run_ended also ends the room and is kept.
HandlePassthrough(h, c, m) ==
  LET code    == h.conns[c].room
      touched == Touch(h, code)
      ended   == [touched EXCEPT !.rooms[code] =
                    [@ EXCEPT !.phase = "Ended", !.result = m.result,
                              !.result_age = 0]]
  IN  IF h.rooms[code].phase # "Active" THEN Reject(h, c, "Bad_State")
      ELSE IF m.t # "run_ended"
      THEN SendTo(touched, code, Partner(h.conns[c].role), m)
      ELSE IF m.result = NoResult THEN Reject(touched, c, "Bad_Msg")
      ELSE SendTo(ended, code, Partner(h.conns[c].role), m)

-----------------------------------------------------------------------------
(* hub_receive *)

Sequenced == {"select", "ready", "settings", "admit", "kick", "ping"}

HostOnly  == {"settings", "admit", "kick", "world", "run_ended"}
JoinOnly  == {"intent", "result_ack"}

\* world and intent stand for the gameplay messages of the host and the joiner.
Passthrough == {"world", "intent", "run_ended"}

MsgAllowedFrom(t, role) ==
  /\ t \in HostOnly => role = "Host"
  /\ t \in JoinOnly => role = "Join"

Dispatch(h, c, m) ==
  CASE m.t = "select"      -> HandleSelect(h, c, m)
    [] m.t = "ready"       -> HandleReady(h, c, m)
    [] m.t = "settings"    -> HandleSettings(h, c, m)
    [] m.t = "admit"       -> HandleAdmit(h, c, m)
    [] m.t = "kick"        -> HandleKick(h, c, m)
    [] m.t = "ping"        -> HandlePing(h, c)
    [] m.t = "bye"         -> HandleBye(h, c)
    [] m.t = "suspend"     -> HandleSuspend(h, c)
    [] m.t = "result_ack"  -> HandleResultAck(h, c, m)
    [] m.t \in Passthrough -> HandlePassthrough(h, c, m)

\* What a greeted connection's well-formed message is refused with.
MessageRefusal(h, c, m) ==
  IF m.t = "hello" THEN "Bad_State"
  ELSE IF ~MsgAllowedFrom(m.t, h.conns[c].role) THEN "Role_Forbidden"
  ELSE IF m.t \in Sequenced /\ ~m.fresh THEN "Bad_Msg"
  ELSE "None"

ReceiveGreeted(h, c, m) ==
  IF m.t = "malformed" THEN Reject(h, c, "Bad_Msg")
  ELSE IF m.t = "unknown" THEN NoteInvalid(h, c)
  ELSE IF m.t # "hello" /\ ~Exists(h, h.conns[c].room)
  THEN Fatal(h, c, "Bad_State")
  ELSE IF MessageRefusal(h, c, m) # "None"
  THEN Reject(h, c, MessageRefusal(h, c, m))
  ELSE Dispatch(h, c, m)

ReceiveFirst(h, c, m) ==
  IF m.t = "hello" THEN HandleHello(h, c, m) ELSE Fatal(h, c, "Bad_Msg")

HubReceive(h, c, m) ==
  LET heard == [h EXCEPT !.conns[c].silent = 0]
  IN  IF m.t = "flood" THEN Fatal(heard, c, "Rate_Limited")
      ELSE IF h.conns[c].hello_done THEN ReceiveGreeted(heard, c, m)
      ELSE ReceiveFirst(heard, c, m)

-----------------------------------------------------------------------------
(* The transport's events *)

OverConnCap(h, source) ==
  /\ source # NoSource
  /\ MaxConnsPerSource > 0
  /\ h.sources[source].conns > MaxConnsPerSource

HubOpen(h, c, source) ==
  LET opened == SourceAdjust([h EXCEPT !.conns[c] = OpenedConn(source)],
                             source, 1, 0)
  IN  IF OverConnCap(opened, source) THEN CloseConn(opened, c, "policy")
      ELSE opened

HubClosed(h, c) ==
  LET conn    == h.conns[c]
      dropped == SourceAdjust([h EXCEPT !.conns[c] = ClosedConn],
                              conn.source, -1, 0)
  IN  IF /\ Exists(h, conn.room)
         /\ SeatOf(h, c).present /\ SeatOf(h, c).connected
         /\ SeatOf(h, c).conn = c
      THEN SeatLost(dropped, conn.room, conn.role) ELSE dropped

-----------------------------------------------------------------------------
(* hub_tick, one connection and one room at a time *)

Overdue(conn) ==
  /\ conn.open /\ ~conn.closing
  /\ conn.silent > IF conn.hello_done THEN Liveness ELSE HelloTimeout

TickConn(h, c) ==
  IF ~h.conns[c].open THEN h
  ELSE IF ~h.conns[c].hello_done THEN Fatal(h, c, "Timeout")
  ELSE HubClosed(CloseConn(h, c, "policy"), c)

GraceOver(seat) == seat.present /\ ~seat.connected /\ seat.lost > Grace

\* Mutant: a lost seat goes at the first tick.
ExpireAtOnce(h, code, role) ==
  IF Exists(h, code) /\ h.rooms[code].seats[role].present
                     /\ ~h.rooms[code].seats[role].connected
  THEN SeatDeparted(h, code, role, "timeout") ELSE h

\* Mutant: before the start nobody's grace runs out.
ExpireOnceStarted(h, code, role) ==
  IF /\ Exists(h, code) /\ ~PreStart(h.rooms[code])
     /\ GraceOver(h.rooms[code].seats[role])
  THEN SeatDeparted(h, code, role, "timeout") ELSE h

ExpireSeat(h, code, role) ==
  IF Exists(h, code) /\ GraceOver(h.rooms[code].seats[role])
  THEN SeatDeparted(h, code, role, "timeout") ELSE h

\* Mutant: no limit on waiting.
IdleTimeoutOnly(room) == room.idle > IdleTimeout

RoomTimeout(room) ==
  \/ room.idle > IdleTimeout
  \/ room.phase = "Waiting" /\ WaitingMax > 0 /\ room.age > WaitingMax

DeliveryOver(room) == room.result_acked \/ room.result_age > ResultDelivery

TickRoom(h, code) ==
  LET swept == ExpireSeat(ExpireSeat(h, code, "Host"), code, "Join")
      room  == swept.rooms[code]
  IN  IF ~Exists(swept, code) THEN swept
      ELSE IF room.phase = "Ended"
      THEN IF DeliveryOver(room) THEN CloseRoom(swept, code, "None") ELSE swept
      ELSE IF RoomTimeout(room) THEN CloseRoom(swept, code, "Timeout")
      ELSE swept

Older(age, limit) == IF age > limit THEN age ELSE age + 1

OlderConn(conn) ==
  IF ~conn.open \/ conn.closing THEN conn
  ELSE [conn EXCEPT !.silent =
          Older(@, IF conn.hello_done THEN Liveness ELSE HelloTimeout)]

OlderSeat(seat) ==
  IF seat.present /\ ~seat.connected
  THEN [seat EXCEPT !.lost = Older(@, Grace)] ELSE seat

OlderRoom(room) ==
  LET aged == [room EXCEPT !.seats =
                 [role \in Roles |-> OlderSeat(room.seats[role])]]
  IN  IF room.phase = "None" THEN room
      ELSE IF room.phase = "Ended"
      THEN [aged EXCEPT !.result_age = Older(@, ResultDelivery)]
      ELSE [aged EXCEPT !.idle = Older(@, IdleTimeout),
                        !.age = Older(@, WaitingMax)]

-----------------------------------------------------------------------------
(* The specification *)

\* Any role, room, release and token the relay may have issued, or none; one
\* hello of another protocol, and one without a room code.
Hellos(h) ==
  LET hello == [t: {"hello"}, role: Roles, room: Codes, token: 0..h.issued,
                game: Games, supported: {TRUE}]
  IN  hello \cup {[m EXCEPT !.supported = FALSE] : m \in hello}
            \cup {[m EXCEPT !.room = NoCode] : m \in hello}

\* The refusal of a repeated sequence number is the same for every sequenced
\* type: a stale ping stands for them.
LobbyMessages ==
  [t: {"select"}, fresh: {TRUE}, archetype: Archetypes]
    \cup [t: {"ready"}, fresh: {TRUE}, ready: BOOLEAN, seeded: BOOLEAN]
    \cup [t: {"settings"}, fresh: {TRUE}, settings: Settings]
    \cup [t: {"admit", "kick"}, fresh: {TRUE}, seat_gen: 1..MaxTokens]
    \cup [t: {"ping"}, fresh: BOOLEAN]

RunMessages ==
  [t: {"result_ack"}, result: Results]
    \cup [t: {"run_ended"}, result: Results \cup {NoResult}]
    \cup [t: {"world", "intent"}]

OtherMessages == [t: {"bye", "suspend", "flood", "malformed", "unknown"}]

Messages(h) ==
  UNION {Hellos(h), LobbyMessages, RunMessages, OtherMessages}

Init ==
  /\ hub = [conns   |-> [c \in Conns |-> ClosedConn],
            rooms   |-> [code \in Codes |-> NoRoom],
            sources |-> [source \in Sources |-> [conns |-> 0, rooms |-> 0]],
            issued  |-> 0,
            out     |-> <<>>]
  /\ sweep = [conns |-> {}, rooms |-> {}]

\* The main loop flushes hub.out to the transport between two events.
Flushed == [hub EXCEPT !.out = <<>>]

\* No hub_tick call is in progress.
Quiet == sweep.conns = {} /\ sweep.rooms = {}

Open(c, source) ==
  /\ Quiet /\ ~hub.conns[c].open
  /\ hub' = HubOpen(Flushed, c, source)
  /\ UNCHANGED sweep

Closed(c) ==
  /\ Quiet /\ hub.conns[c].open
  /\ hub' = HubClosed(Flushed, c)
  /\ UNCHANGED sweep

\* A message on a connection the hub is closing is ignored.
Receive(c, m) ==
  /\ Quiet /\ hub.conns[c].open /\ ~hub.conns[c].closing
  /\ m.t = "hello" => hub.issued < MaxTokens \/ m.token # NoToken
  /\ hub' = HubReceive(Flushed, c, m)
  /\ UNCHANGED sweep

TimePasses ==
  /\ Quiet
  /\ hub' = [Flushed EXCEPT
              !.conns = [c \in Conns |-> OlderConn(hub.conns[c])],
              !.rooms = [code \in Codes |-> OlderRoom(hub.rooms[code])]]
  /\ UNCHANGED sweep

(* hub_tick collects the overdue connections and the rooms and handles them  *)
(* one by one, in the order of a map.  No event comes in between: the other  *)
(* actions wait for Quiet.                                                   *)
HubTick ==
  /\ Quiet
  /\ sweep' = [conns |-> {c \in Conns : Overdue(hub.conns[c])},
               rooms |-> OpenRooms(hub)]
  /\ hub' = Flushed

SweepConn(c) ==
  /\ c \in sweep.conns
  /\ hub' = TickConn(Flushed, c)
  /\ sweep' = [sweep EXCEPT !.conns = @ \ {c}]

SweepRoom(code) ==
  /\ sweep.conns = {} /\ code \in sweep.rooms
  /\ hub' = TickRoom(Flushed, code)
  /\ sweep' = [sweep EXCEPT !.rooms = @ \ {code}]

Events ==
  \E c \in Conns :
    \/ \E source \in Sources \cup {NoSource} : Open(c, source)
    \/ Closed(c)
    \/ \E m \in Messages(hub) : Receive(c, m)

Sweep == (\E c \in Conns : SweepConn(c)) \/ (\E code \in Codes : SweepRoom(code))

Timers == TimePasses \/ HubTick \/ Sweep

Next == Events \/ Timers

Spec == Init /\ [][Next]_vars

\* The clock runs, and the main loop ticks and finishes a tick it began.  Nothing
\* is assumed of the peers or of the transport.
SweepProgress ==
  \/ \E c \in sweep.conns : sweep' = [sweep EXCEPT !.conns = @ \ {c}]
  \/ \E code \in sweep.rooms : sweep' = [sweep EXCEPT !.rooms = @ \ {code}]

Fairness == SF_vars(TimePasses) /\ WF_vars(HubTick) /\ WF_sweep(SweepProgress)

FairSpec == Spec /\ Fairness

-----------------------------------------------------------------------------
(* Properties *)

\* A hub is a record of five fields; what it sends is not typed.
HubType(h) ==
  h \in [conns: [Conns -> Conn], rooms: [Codes -> Room],
         sources: [Sources -> [conns: Nat, rooms: Nat]], issued: Nat,
         out: {h.out}]

\* The state is a hub and what is left of a tick.
TypeOK ==
  /\ HubType(hub)
  /\ sweep \in [conns: SUBSET Conns, rooms: SUBSET Codes]

(* A connection the hub listens to and a seat that counts as connected name  *)
(* each other.  Superseding, kicking, suspending, closing a room and a late  *)
(* close event all move the two ends separately; if they drift apart, a      *)
(* socket speaks for a seat that is somebody else's, or a seat waits for a   *)
(* socket that is gone ("its later close event is ignored because it no      *)
(* longer owns the seat").                                                   *)
SeatedBy(c, code, role) ==
  /\ Exists(hub, code)
  /\ hub.rooms[code].seats[role].present
  /\ hub.rooms[code].seats[role].connected
  /\ hub.rooms[code].seats[role].conn = c

Speaks(conn) == conn.open /\ conn.hello_done /\ ~conn.closing

SeatOwnership ==
  /\ \A c \in Conns : Speaks(hub.conns[c]) =>
       SeatedBy(c, hub.conns[c].room, hub.conns[c].role)
  /\ \A code \in Codes, role \in Roles :
       Exists(hub, code) /\ hub.rooms[code].seats[role].connected =>
         \E c \in Conns : /\ SeatedBy(c, code, role)
                          /\ Speaks(hub.conns[c])
                          /\ hub.conns[c].room = code
                          /\ hub.conns[c].role = role

(* What each phase promises about the two seats.  "A new knock always needs  *)
(* fresh host consent and fresh readiness": nobody is ready or admitted       *)
(* before the host answered the present occupant, and a run is active only   *)
(* between two admitted and ready players.                                   *)
PhaseSeats ==
  \A code \in OpenRooms(hub) :
    LET room == hub.rooms[code]
        host == room.seats["Host"]
        join == room.seats["Join"]
    IN  /\ room.phase # "Ended" => host.present /\ host.admitted
        /\ room.phase = "Waiting" => ~join.present /\ ~host.ready
        /\ room.phase = "Admission" => /\ join.present /\ ~host.ready
                                       /\ ~join.admitted /\ ~join.ready
        /\ room.phase = "Selecting" => join.present /\ join.admitted
        /\ room.phase = "Active" => /\ join.present /\ join.admitted
                                    /\ host.ready /\ join.ready
        /\ room.phase = "Ended" <=> room.result # NoResult

(* "Counted so the close event balances the books": the per-source counts    *)
(* are the connections and rooms that exist, whatever order sockets, seats   *)
(* and rooms go away in, so an address is neither locked out for good nor    *)
(* let past its caps.                                                        *)
SourceBooks ==
  \A source \in Sources :
    /\ hub.sources[source].conns =
         Cardinality({c \in Conns : /\ hub.conns[c].open
                                    /\ hub.conns[c].source = source})
    /\ hub.sources[source].rooms =
         Cardinality({code \in OpenRooms(hub) :
                        hub.rooms[code].source = source})

\* "An active run never accepts a replacement stranger": from the start of a
\* run to the end of its room, a seat is held by the token that started it.
NoStranger ==
  [][\A code \in Codes, role \in Roles :
       LET seat  == hub.rooms[code].seats[role]
           seat1 == hub'.rooms[code].seats[role]
       IN  /\ hub.rooms[code].phase \in {"Active", "Ended"}
           /\ Exists(hub', code) /\ seat1.present
           => seat.present /\ seat.token = seat1.token]_vars

\* A seat inside its grace window is given up only with its room, or by the
\* host's kick.
HeldForGrace ==
  [][\A code \in Codes, role \in Roles :
       LET seat  == hub.rooms[code].seats[role]
           seat1 == hub'.rooms[code].seats[role]
       IN  /\ Exists(hub, code) /\ seat.present /\ ~seat.connected
           /\ ~GraceOver(seat) /\ Exists(hub', code)
           => \/ seat1.present /\ seat1.token = seat.token
              \/ /\ ~seat1.present /\ hub'.rooms[code].phase = "Waiting"
                 /\ \E i \in DOMAIN hub'.out :
                      hub'.out[i].kind = "send" /\ hub'.out[i].msg = PartnerLeft("kicked")
    ]_vars

\* "The immutable result survives host departure until the joiner
\* acknowledges it or the delivery deadline passes": before the deadline, only
\* the joiner's own message, or its absence past the grace, drops the room.
ResultRetained ==
  [][\A code \in Codes :
       LET room == hub.rooms[code]
           join == room.seats["Join"]
       IN  /\ room.phase = "Ended" /\ ~room.result_acked
           /\ room.result_age <= ResultDelivery
           /\ join.present /\ ~GraceOver(join)
           => \/ /\ hub'.rooms[code].phase = "Ended"
                 /\ hub'.rooms[code].result = room.result
              \/ join.connected /\ \E m \in Messages(hub) : Receive(join.conn, m)
    ]_vars

\* The transport is never asked to send on a connection after its close.
NothingAfterClose ==
  [][\A i \in DOMAIN hub'.out :
       LET c == hub'.out[i].conn
       IN  hub'.out[i].kind = "send" /\ c \in Conns =>
             /\ hub.conns[c].open /\ ~hub.conns[c].closing
             /\ \A j \in 1..(i - 1) :
                  ~(hub'.out[j].kind = "close" /\ hub'.out[j].conn = c)]_vars

\* A start is one message to each player, the same for both.
StartReachesBoth ==
  [][\A code \in Codes :
       LET seats  == hub'.rooms[code].seats
           starts == {i \in DOMAIN hub'.out : /\ hub'.out[i].kind = "send"
                                              /\ hub'.out[i].msg.t = "start"}
       IN  hub'.rooms[code].phase = "Active" /\ hub.rooms[code].phase # "Active" =>
             /\ {hub'.out[i].conn : i \in starts} =
                  {seats[role].conn : role \in Roles}
             /\ \A role \in Roles : /\ seats[role].conn \in Conns
                                    /\ Speaks(hub'.conns[seats[role].conn])
             /\ Cardinality(starts) = 2
             /\ \A i \in starts : hub'.out[i].msg = StartOf(hub.rooms[code])]_vars

\* "Reserve the seat for the grace window", and no longer: a lost seat is taken
\* back by its owner or given up, however busy the partner keeps the room.
LostSeatsResolve ==
  \A code \in Codes, role \in Roles :
    LET seat == hub.rooms[code].seats[role]
    IN  seat.present /\ ~seat.connected ~> ~seat.present \/ seat.connected

\* "Idle-refresh traffic cannot park a room forever", whatever the traffic; nor
\* does a result outlive its delivery window.
RoomsEnd ==
  \A code \in Codes :
    /\ hub.rooms[code].phase = "Waiting" ~> hub.rooms[code].phase # "Waiting"
    /\ hub.rooms[code].phase = "Ended" ~> hub.rooms[code].phase = "None"

=============================================================================
