----------------------------- MODULE CoopRelay -----------------------------
(***************************************************************************)
(* The relay of the Python edition: RoomHub of server/room.py, for one run *)
(* code, as functions on its state.  server/server.py calls the hub from   *)
(* one asyncio loop, so every handler is one step; CoopSession supplies    *)
(* the sockets and the clients and says when each handler runs.            *)
(*                                                                         *)
(* A value of the relay is a record:                                       *)
(*   live     the connections of hub.connections                           *)
(*   seat     the seat a connection is bound to, or "none" before hello    *)
(*   state    the state of the room, "none" while the code has no room     *)
(*   started  Room.started                                                 *)
(*   slots    the seats of the room, a function on a set of roles          *)
(*   floor, snap   the retained floor and snapshot, empty or one message    *)
(*   issued   how many reconnect tokens were generated                     *)
(*   out      what the handler running now has sent to each connection     *)
(*                                                                         *)
(* Left out: ready_ack and pong, which change nothing but a label and a    *)
(* clock, and with them the sequence number of ready, kick and ping, which *)
(* a client only ever increases over an ordered connection; names,         *)
(* archetypes and revisions; the seed of the run, which is set and cleared *)
(* with the host's ready flag.                                             *)
(***************************************************************************)
EXTENDS Naturals, Sequences, FiniteSets

CONSTANTS
    Conns,      \* the sockets of a behaviour, numbered from 1 as they are opened
    MaxRooms    \* ServerConfig.max_rooms as far as this code sees it: 0 when
                \* other codes may fill the relay, 1 when it has room for this one

ASSUME ConnsAssumption == IsFiniteSet(Conns) /\ Conns \subseteq Nat \ {0}
ASSUME RoomsAssumption == MaxRooms \in {0, 1}

NoConn == 0
Roles == {"host", "join"}
Partner(r) == IF r = "host" THEN "join" ELSE "host"

HostOnly == {"kick", "floor", "snapshot", "run_ended"}
RoleAllowed(t, r) == t \in HostOnly => r = "host"

Silent == [c \in Conns |-> <<>>]

InitRelay ==
    [live |-> {}, seat |-> [c \in Conns |-> "none"], state |-> "none",
     started |-> FALSE, slots |-> <<>>, floor |-> <<>>, snap |-> <<>>,
     issued |-> 0, out |-> Silent]

-----------------------------------------------------------------------------
(* Seats and sends *)

NewSlot(who, token) ==
    [who |-> who, ready |-> FALSE, token |-> token, conn |-> NoConn,
     lost |-> FALSE, left |-> FALSE]

Connected(s) == s.conn # NoConn
Reserved(s) == ~s.left /\ ~Connected(s) /\ s.lost
Occupied(R) == {r \in DOMAIN R.slots : Connected(R.slots[r]) \/ Reserved(R.slots[r])}

SendAll(R, c, msgs) == IF c \in R.live THEN [R EXCEPT !.out[c] = @ \o msgs] ELSE R
Send(R, c, m) == SendAll(R, c, <<m>>)

SendPartner(R, r, m) ==
    IF Partner(r) \in DOMAIN R.slots THEN Send(R, R.slots[Partner(r)].conn, m) ELSE R

HardClose(R, c) ==
    [R EXCEPT !.live = @ \ {c}, !.seat = [x \in Conns |-> IF x = c THEN "none" ELSE @[x]]]

Accept(R, c) == [R EXCEPT !.live = @ \cup {c}]

-----------------------------------------------------------------------------
(* Departures.  A room cannot outlive its host; a joiner that leaves before *)
(* the start frees its seat.                                                *)

CloseRoom(R) ==
    [R EXCEPT !.state = "none", !.started = FALSE, !.slots = <<>>,
              !.floor = <<>>, !.snap = <<>>,
              !.live = @ \ {R.slots[r].conn : r \in DOMAIN R.slots},
              !.seat = [c \in Conns |->
                          IF \E r \in DOMAIN R.slots : R.slots[r].conn = c
                            THEN "none" ELSE @[c]]]

MaybeCloseRoom(R) == IF Occupied(R) = {} THEN CloseRoom(R) ELSE R

\* Mutant: a host that leaves is a departure like any other.
DepartAsJoiner(R, r) ==
    LET s == R.slots[r]
    IN  MaybeCloseRoom([HardClose(R, s.conn) EXCEPT
            !.slots[r] = [s EXCEPT !.left = TRUE, !.lost = FALSE, !.conn = NoConn]])

\* The seat's own connection is closed too: by the caller right after, when
\* it is the one that says bye or is refused, here otherwise.
FinalizeSlotDeparture(R, r) ==
    LET s    == R.slots[r]
        gone == [HardClose(R, s.conn) EXCEPT
                    !.slots[r] = [s EXCEPT !.left = TRUE, !.lost = FALSE, !.conn = NoConn]]
        told == IF s.left THEN gone ELSE SendPartner(gone, r, [t |-> "partner_left"])
    IN  CASE r = "host" -> CloseRoom(told)
          [] r = "join" /\ ~R.started ->
                MaybeCloseRoom([told EXCEPT
                    !.slots = [x \in DOMAIN @ \ {"join"} |-> @[x]], !.state = "waiting"])
          [] OTHER -> MaybeCloseRoom(told)

ReplyError(R, c, code) == Send(R, c, [t |-> "error", code |-> code, fatal |-> FALSE])

Fatal(R, c, code) ==
    LET said == Send(R, c, [t |-> "error", code |-> code, fatal |-> TRUE])
        r    == R.seat[c]
    IN  IF r \in DOMAIN R.slots /\ R.slots[r].conn = c
          THEN FinalizeSlotDeparture(said, r)
          ELSE HardClose(said, c)

-----------------------------------------------------------------------------
(* hello: create the room, join it, or reclaim a seat with its token *)

Bind(R, c, r) ==
    LET p == Partner(r)
        partner == IF p \in Occupied(R) THEN R.slots[p].who ELSE "nobody"
    IN  Send([R EXCEPT !.seat[c] = r, !.slots[r].conn = c, !.slots[r].lost = FALSE],
             c, [t |-> "welcome", role |-> r, token |-> R.slots[r].token,
                 partner |-> partner])

\* Mutant: the old socket keeps its place in the room.
ReclaimBeside(R, c, r) ==
    SendPartner(Bind(R, c, r), r, [t |-> "partner_rejoined"])

\* The token's holder is authoritative: a socket that still sits in the seat
\* is closed and forgotten.
Reclaim(R, c, r) ==
    LET bound == Bind(HardClose(R, R.slots[r].conn), c, r)
        told  == SendPartner(bound, r, [t |-> "partner_rejoined"])
    IN  IF r = "join" /\ R.started THEN SendAll(told, c, R.floor \o R.snap) ELSE told

CreateRoom(R, c, who) ==
    Bind([R EXCEPT !.state = "waiting", !.issued = @ + 1,
                   !.slots = [r \in {"host"} |-> NewSlot(who, R.issued + 1)]], c, "host")

JoinRoom(R, c, who) ==
    LET seated == [R EXCEPT !.state = "selecting", !.issued = @ + 1,
                     !.slots = [r \in Roles |-> IF r = "join" THEN NewSlot(who, R.issued + 1)
                                                              ELSE @[r]]]
    IN  SendPartner(Bind(seated, c, "join"), "join", [t |-> "partner_joined", who |-> who])

Claimed(R, token) ==
    {r \in DOMAIN R.slots : token # 0 /\ R.slots[r].token = token /\ ~R.slots[r].left}

HandleHello(R, c, m) ==
    LET mine == Claimed(R, m.token)
    IN  CASE mine # {} -> Reclaim(R, c, CHOOSE r \in mine : TRUE)
          [] mine = {} /\ m.role = "host" ->
                CASE R.state # "none" -> Fatal(R, c, "run_id_in_use")
                  [] R.state = "none" /\ MaxRooms = 0 -> Fatal(R, c, "server_full")
                  [] OTHER -> CreateRoom(R, c, m.who)
          [] OTHER ->
                CASE R.state = "none" -> Fatal(R, c, "run_not_found")
                  [] R.state # "none" /\ (R.state # "waiting" \/ Cardinality(Occupied(R)) # 1) ->
                        Fatal(R, c, "run_full")
                  [] OTHER -> JoinRoom(R, c, m.who)

-----------------------------------------------------------------------------
(* The lobby *)

MaybeStart(R) ==
    IF \/ R.started
       \/ Roles # DOMAIN R.slots
       \/ \E r \in Roles : ~R.slots[r].ready \/ ~Connected(R.slots[r])
      THEN R
      ELSE LET on == [R EXCEPT !.started = TRUE, !.state = "active"]
               m  == [t |-> "start", joiner |-> R.slots["join"].who]
           IN  Send(Send(on, R.slots["host"].conn, m), R.slots["join"].conn, m)

HandleReady(R, c, r) ==
    IF R.state \notin {"waiting", "selecting"}
      THEN ReplyError(R, c, "bad_state")
      ELSE MaybeStart([R EXCEPT !.slots[r].ready = TRUE])

\* The host turns the joiner away; its own readiness is reset.
HandleKick(R, c) ==
    IF R.started \/ R.state # "selecting" \/ "join" \notin DOMAIN R.slots
      THEN ReplyError(R, c, "bad_state")
      ELSE LET j   == R.slots["join"].conn
               out == IF j # NoConn THEN Fatal(R, j, "kicked")
                                    ELSE FinalizeSlotDeparture(R, "join")
           IN  IF "host" \in DOMAIN out.slots
                 THEN [out EXCEPT !.slots["host"].ready = FALSE] ELSE out

-----------------------------------------------------------------------------
(* World traffic is relayed; the latest floor and snapshot are retained *)

HandleFloor(R, m) == SendPartner([R EXCEPT !.floor = <<m>>, !.snap = <<>>], "host", m)
HandleSnapshot(R, m) == SendPartner([R EXCEPT !.snap = <<m>>], "host", m)
HandleRunEnded(R, m) == SendPartner(R, "host", m)
HandleBye(R, r) == FinalizeSlotDeparture(R, r)

HandleMessage(R, c, m) ==
    LET r == R.seat[c]
    IN  CASE r = "none" /\ m.t = "hello" -> HandleHello(R, c, m)
          [] r = "none" /\ m.t # "hello" -> Fatal(R, c, "bad_msg")
          [] r # "none" /\ ~RoleAllowed(m.t, r) -> ReplyError(R, c, "role_forbidden")
          [] r # "none" /\ m.t = "ready" -> HandleReady(R, c, r)
          [] r = "host" /\ m.t = "kick" -> HandleKick(R, c)
          [] r = "host" /\ m.t = "floor" -> HandleFloor(R, m)
          [] r = "host" /\ m.t = "snapshot" -> HandleSnapshot(R, m)
          [] r = "host" /\ m.t = "run_ended" -> HandleRunEnded(R, m)
          [] OTHER -> HandleBye(R, r)

-----------------------------------------------------------------------------
(* The transport lost a peer, and the timers of tick *)

\* The shell reports every socket that ends; one the hub closed itself has
\* no room any more and nothing follows.
Disconnect(R, c) ==
    LET r    == R.seat[c]
        gone == HardClose(R, c)
    IN  IF r \in DOMAIN R.slots /\ R.slots[r].conn = c
          THEN SendPartner([gone EXCEPT !.slots[r].conn = NoConn, !.slots[r].lost = TRUE],
                           r, [t |-> "partner_disconnected"])
          ELSE gone

GraceExpired(R, r) == FinalizeSlotDeparture(R, r)

HelloTimeout(R, c) == Fatal(R, c, "timeout")

IdleTimeout(R) ==
    LET m == [t |-> "error", code |-> "timeout", fatal |-> TRUE]
        tell(Q, r) == IF r \in DOMAIN R.slots THEN Send(Q, R.slots[r].conn, m) ELSE Q
    IN  CloseRoom(tell(tell(R, "host"), "join"))

=============================================================================
