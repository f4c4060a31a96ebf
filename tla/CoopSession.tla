---------------------------- MODULE CoopSession ----------------------------
(***************************************************************************)
(* Co-op sessions of the Python edition: the clients of net/mixin.py, each *)
(* with the sockets of net/client.py, around the relay of CoopRelay.       *)
(*                                                                         *)
(* A connection is a pair of ordered queues.  It ends when a side closes   *)
(* it, after what was sent has been read, or when it is cut, which loses   *)
(* any suffix of what is under way in each direction; each end notices     *)
(* when it has read what is left.  A client writes into the queue of its   *)
(* socket from the moment it dials (MultiplayerClient._outbound), and its  *)
(* hello is written when the poll of the main thread sees ConnectionUp.    *)
(*                                                                         *)
(* Snapshots, intents and what they carry are CoopWorld's; here a floor    *)
(* stands for the world of the run.                                        *)
(*                                                                         *)
(* Time is a choice: a grace period, a hello timeout, an idle timeout and  *)
(* a client's own deadline may pass whenever they run.                     *)
(*                                                                         *)
(* The host hosts one session under its code (a new session draws a new    *)
(* code); a joiner may knock again.  Bounds: the connections dialled, the  *)
(* floors the host builds, and the faults: a cut, a restart of the relay,  *)
(* a room closed for being idle.                                           *)
(***************************************************************************)
EXTENDS CoopRelay

CONSTANTS Host, Joiners, MaxFloors, MaxFaults

ASSUME PlayersAssumption == Host \notin Joiners /\ "nobody" \notin {Host} \cup Joiners
ASSUME BoundsAssumption == MaxFloors \in Nat /\ MaxFaults \in Nat

VARIABLES
    relay,      \* the relay, a record as CoopRelay describes
    up, down,   \* what is under way on each connection, to and from the relay
    sock,       \* the client's end: "unused", "dialing", "open" or "closed"
    owner,      \* who dialled it
    cut,        \* the connections the network has cut
    client,     \* each player's session and screen
    faults      \* how many faults have happened

vars == <<relay, up, down, sock, owner, cut, client, faults>>
Players == {Host} \cup Joiners
RoleOf(p) == IF p = Host THEN "host" ELSE "join"

\* MpSession and the parts of the game it drives.  phase is "off" without a
\* session; active is mp_active; knocking is
\* partner_pending_accept.
Offline ==
    [screen |-> "menu", phase |-> "off", conn |-> NoConn, token |-> 0,
     partner |-> "nobody", knocking |-> FALSE,
     ready |-> FALSE, started |-> FALSE, active |-> FALSE,
     reconnecting |-> FALSE, awaiting |-> FALSE, rev |-> 0]

Init ==
    /\ relay = InitRelay
    /\ up = [c \in Conns |-> <<>>]
    /\ down = [c \in Conns |-> <<>>]
    /\ sock = [c \in Conns |-> "unused"]
    /\ owner = [c \in Conns |-> "nobody"]
    /\ cut = {}
    /\ client = [p \in Players |-> Offline]
    /\ faults = 0

-----------------------------------------------------------------------------
(* Sockets *)

Unused == {c \in Conns : sock[c] = "unused"}
NextConn == CHOOSE c \in Unused : \A d \in Unused : c <= d

\* What a client queues; a connection that has ended swallows it.
Written(c, msgs) ==
    IF c \in Conns \ cut /\ (sock[c] = "dialing" \/ c \in relay.live)
      THEN [up EXCEPT ![c] = @ \o msgs] ELSE up

\* MultiplayerClient.close: flush what is queued, then close.
Closed(c) == [d \in Conns |-> IF d = c THEN "closed" ELSE sock[d]]
Emptied(c) == [d \in Conns |-> IF d = c THEN <<>> ELSE down[d]]

\* The relay has become R: what it sent is under way, what it closed is not
\* read any further.
Relayed(R) ==
    /\ relay' = [R EXCEPT !.out = Silent]
    /\ down' = [c \in Conns |-> IF sock[c] = "open" /\ c \notin cut
                                THEN down[c] \o R.out[c] ELSE down[c]]

Fault == faults < MaxFaults /\ faults' = faults + 1

-----------------------------------------------------------------------------
(* The relay's loop *)

RelayReads(c) ==
    /\ c \in relay.live
    /\ up[c] # <<>>
    /\ LET R == HandleMessage(relay, c, Head(up[c]))
       IN  /\ Relayed(R)
           /\ up' = [d \in Conns |-> CASE d \notin R.live /\ d \in relay.live -> <<>>
                                       [] d = c /\ c \in R.live -> Tail(up[c])
                                       [] OTHER -> up[d]]
    /\ UNCHANGED <<sock, owner, cut, client, faults>>

RelaySeesEnd(c) ==
    /\ c \in relay.live
    /\ up[c] = <<>>
    /\ sock[c] = "closed" \/ c \in cut
    /\ Relayed(Disconnect(relay, c))
    /\ UNCHANGED <<up, sock, owner, cut, client, faults>>

\* A timer of tick, with the connections it closes no longer read.
Closes(R) ==
    /\ Relayed(R)
    /\ up' = [d \in Conns |-> IF d \notin R.live /\ d \in relay.live THEN <<>> ELSE up[d]]
    /\ UNCHANGED <<sock, owner, cut, client>>

Timer(R) == Closes(R) /\ UNCHANGED faults

GraceEnds(r) ==
    /\ r \in DOMAIN relay.slots
    /\ Reserved(relay.slots[r])
    /\ Timer(GraceExpired(relay, r))

NoHello(c) ==
    /\ c \in relay.live
    /\ relay.seat[c] = "none"
    /\ Timer(HelloTimeout(relay, c))

Idle ==
    /\ relay.state # "none"
    /\ Fault
    /\ Closes(IdleTimeout(relay))

-----------------------------------------------------------------------------
(* Faults *)

Cut(c) ==
    /\ Fault
    /\ sock[c] = "open" /\ c \notin cut
    /\ cut' = cut \cup {c}
    /\ \E i \in 0..Len(up[c]), j \in 0..Len(down[c]) :
         /\ up' = [up EXCEPT ![c] = SubSeq(@, 1, i)]
         /\ down' = [down EXCEPT ![c] = SubSeq(@, 1, j)]
    /\ UNCHANGED <<relay, sock, owner, client>>

\* The relay keeps its rooms in memory only.  Tokens are random: one that was
\* issued before is never drawn again.
Restart ==
    /\ Fault
    /\ relay' = [InitRelay EXCEPT !.issued = relay.issued]
    /\ cut' = cut \cup {c \in Conns : sock[c] = "open"}
    /\ up' = [c \in Conns |-> <<>>]
    /\ UNCHANGED <<down, sock, owner, client>>

-----------------------------------------------------------------------------
(* The client: opening, reconnecting and closing *)

\* _mp_connect: a new client object and its thread, for the session s.
Dial(p, s) ==
    /\ Unused # {}
    /\ sock' = [sock EXCEPT ![NextConn] = "dialing"]
    /\ owner' = [owner EXCEPT ![NextConn] = p]
    /\ client' = [client EXCEPT ![p] = [s EXCEPT !.conn = NextConn]]
    /\ UNCHANGED <<relay, up, down, cut, faults>>

OpenSession(p) ==
    /\ client[p].phase = "off" /\ client[p].screen = "menu"
    /\ p = Host => ~ \E c \in Conns : owner[c] = Host /\ sock[c] = "closed"
    /\ Dial(p, [Offline EXCEPT !.phase = "setup"])

\* The host confirms its code again while the first client is at work: that
\* one is dropped and a second one dials.
OpenAgain ==
    LET c == client[Host].conn
    IN  /\ client[Host].phase = "setup" /\ c # NoConn /\ Unused # {}
        /\ sock' = [Closed(c) EXCEPT ![NextConn] = "dialing"]
        /\ up' = IF sock[c] = "dialing" THEN [up EXCEPT ![c] = <<>>] ELSE up
        /\ down' = Emptied(c)
        /\ owner' = [owner EXCEPT ![NextConn] = Host]
        /\ client' = [client EXCEPT ![Host].conn = NextConn]
        /\ UNCHANGED <<relay, cut, faults>>

DriveReconnect(p) ==
    /\ client[p].reconnecting /\ client[p].conn = NoConn
    /\ Dial(p, client[p])

\* The player keeps the session s; its socket is closed, after `last`.
Close(p, s, last) ==
    LET c == client[p].conn
    IN  /\ client' = [client EXCEPT ![p] = [s EXCEPT !.conn = NoConn]]
        /\ sock' = Closed(c)
        /\ up' = IF c # NoConn /\ sock[c] = "dialing"
                    THEN [up EXCEPT ![c] = <<>>] ELSE Written(c, last)
        /\ down' = Emptied(c)
        /\ UNCHANGED <<relay, owner, cut, faults>>

Bye == <<[t |-> "bye"]>>

\* mp_end_session_to_title, mp_leave_lobby and return_to_main_menu.
ShutDown(p) == Close(p, Offline, Bye)
\* _mp_fail_session: only a session that plays says bye.
Fail(p) == Close(p, Offline, IF client[p].active THEN Bye ELSE <<>>)

ConnectionUp(p) ==
    LET c == client[p].conn
    IN  /\ c # NoConn /\ sock[c] = "dialing"
        /\ sock' = [sock EXCEPT ![c] = "open"]
        /\ relay' = Accept(relay, c)
        /\ up' = Written(c, <<[t |-> "hello", who |-> p, role |-> RoleOf(p),
                               token |-> client[p].token]>>)
        /\ UNCHANGED <<down, owner, cut, client, faults>>

ConnectionFailed(p) ==
    /\ client[p].conn # NoConn /\ sock[client[p].conn] = "dialing"
    /\ Close(p, IF client[p].reconnecting THEN client[p] ELSE Offline, <<>>)

\* Everything the socket brought has been read and it has ended.
ConnectionLost(p) ==
    LET c == client[p].conn
        s == client[p]
    IN  /\ c # NoConn /\ sock[c] = "open" /\ down[c] = <<>>
        /\ c \in cut \/ c \notin relay.live
        /\ IF s.token # 0 /\ (s.started \/ s.phase = "lobby")
             THEN Close(p, [s EXCEPT !.reconnecting = TRUE], <<>>)
             ELSE Fail(p)

DeadlinePasses(p) == client[p].reconnecting /\ Fail(p)

-----------------------------------------------------------------------------
(* The client: what the relay sends *)

\* The next message of p's socket is read: the session becomes s, and msgs
\* are queued.
Keep(p, s, msgs) ==
    /\ client' = [client EXCEPT ![p] = s]
    /\ up' = Written(client[p].conn, msgs)
    /\ down' = [down EXCEPT ![client[p].conn] = Tail(@)]
    /\ UNCHANGED <<relay, sock, owner, cut, faults>>

\* mp_send_floor: a new revision.
WithFloor(s) == [s EXCEPT !.rev = @ + 1]
FloorMsg(s) == <<[t |-> "floor", rev |-> s.rev + 1]>>
KeepAndSendFloor(p, s) == Keep(p, WithFloor(s), FloorMsg(s))

\* Mutant: a host that is back waits for its next staircase.
WelcomeBackOnly(p, m) ==
    LET s == [client[p] EXCEPT !.reconnecting = FALSE, !.token = m.token]
    IN  IF client[p].reconnecting
          THEN Keep(p, [s EXCEPT !.awaiting = @ \/ (s.started /\ p # Host)], <<>>)
          ELSE Keep(p, [s EXCEPT !.phase = "lobby", !.screen = "lobby"], <<>>)

OnWelcome(p, m) ==
    LET s == [client[p] EXCEPT !.reconnecting = FALSE, !.token = m.token,
                               !.partner = IF m.partner = "nobody" THEN @ ELSE m.partner]
        back == client[p].reconnecting
    IN  \/ ~back /\ Keep(p, [s EXCEPT !.phase = "lobby", !.screen = "lobby"], <<>>)
        \/ back /\ ~s.started /\ Keep(p, s, <<>>)
        \/ back /\ s.started /\ p = Host /\ KeepAndSendFloor(p, s)
        \/ back /\ s.started /\ p # Host /\ Keep(p, [s EXCEPT !.awaiting = TRUE], <<>>)

OnPartnerJoined(p, m) ==
    Keep(p, [client[p] EXCEPT !.partner = m.who,
                              !.knocking = IF p = Host /\ ~client[p].started THEN TRUE ELSE @],
         <<>>)

OnStart(p, m) ==
    LET s == [client[p] EXCEPT !.started = TRUE, !.phase = "active"]
    IN  CASE client[p].started -> Keep(p, client[p], <<>>)
          [] ~client[p].started /\ p = Host ->
               KeepAndSendFloor(p, [s EXCEPT !.partner = m.joiner, !.active = TRUE,
                                             !.screen = "playing"])
          [] OTHER -> Keep(p, [s EXCEPT !.partner = Host, !.awaiting = TRUE], <<>>)

\* Mutant: only a floor that was waited for is taken.
TakeAwaited(p, m) ==
    Keep(p, IF client[p].awaiting
              THEN [client[p] EXCEPT !.rev = m.rev, !.awaiting = FALSE, !.active = TRUE,
                                     !.screen = "playing"]
              ELSE client[p], <<>>)

OnFloor(p, m) ==
    Keep(p, [client[p] EXCEPT !.rev = m.rev, !.awaiting = FALSE,
                              !.active = TRUE, !.screen = "playing"], <<>>)

OnPartnerRejoined(p) ==
    LET s == client[p]
    IN  IF p = Host /\ s.started THEN KeepAndSendFloor(p, s) ELSE Keep(p, s, <<>>)

OnPartnerLeft(p) ==
    LET s == client[p]
    IN  CASE s.active -> ShutDown(p)
          [] ~s.active /\ s.phase = "lobby" /\ p # Host -> ShutDown(p)
          [] ~s.active /\ s.phase = "lobby" /\ p = Host ->
               Keep(p, [s EXCEPT !.partner = "nobody", !.knocking = FALSE], <<>>)
          [] OTHER -> Keep(p, s, <<>>)

OnRunEnded(p) ==
    Keep(p, [client[p] EXCEPT !.screen = IF client[p].active THEN "over" ELSE @], <<>>)

\* Outside a run every error, fatal or not, drops the session without a bye.
OnError(p, m) ==
    LET s == client[p]
    IN  CASE s.active /\ m.fatal -> ShutDown(p)
          [] ~m.fatal /\ (s.started \/ s.active) -> Keep(p, s, <<>>)
          [] OTHER -> Close(p, Offline, <<>>)

ClientReads(p) ==
    LET c == client[p].conn
        m == Head(down[c])
    IN  /\ c # NoConn /\ sock[c] = "open" /\ down[c] # <<>>
        /\ \/ m.t = "welcome" /\ OnWelcome(p, m)
           \/ m.t = "partner_joined" /\ OnPartnerJoined(p, m)
           \/ m.t = "start" /\ OnStart(p, m)
           \/ m.t = "floor" /\ OnFloor(p, m)
           \/ m.t = "partner_disconnected" /\ Keep(p, client[p], <<>>)
           \/ m.t = "partner_rejoined" /\ OnPartnerRejoined(p)
           \/ m.t = "partner_left" /\ OnPartnerLeft(p)
           \/ m.t = "run_ended" /\ OnRunEnded(p)
           \/ m.t = "error" /\ OnError(p, m)

-----------------------------------------------------------------------------
(* The client: what the player does *)

\* The session becomes s and msgs are queued on the client object, whether its
\* hello has been written or not; without a client nothing is queued.
Act(p, s, msgs) ==
    /\ client' = [client EXCEPT ![p] = s]
    /\ up' = Written(client[p].conn, msgs)
    /\ UNCHANGED <<relay, down, sock, owner, cut, faults>>

InLobby(p) == client[p].screen = "lobby"

Admit ==
    /\ InLobby(Host) /\ client[Host].knocking
    /\ Act(Host, [client[Host] EXCEPT !.knocking = FALSE], <<>>)

TurnAway ==
    /\ InLobby(Host) /\ client[Host].knocking
    /\ client[Host].conn # NoConn
    /\ Act(Host, [client[Host] EXCEPT !.knocking = FALSE, !.partner = "nobody"],
           <<[t |-> "kick"]>>)

ReadyUp(p) ==
    /\ InLobby(p) /\ ~client[p].ready
    /\ client[p].conn # NoConn
    /\ p = Host => client[p].partner # "nobody" /\ ~client[p].knocking
    /\ Act(p, [client[p] EXCEPT !.ready = TRUE], <<[t |-> "ready"]>>)

\* Leaving a lobby, a run or a summary, and mp_shutdown when the program exits.
Leave(p) ==
    /\ client[p].screen # "menu"
    /\ ShutDown(p)

\* Backing out while the first hello is under way sends no bye.
BackOut(p) ==
    /\ client[p].phase = "setup" /\ client[p].screen = "menu"
    /\ Close(p, Offline, <<>>)

\* The host takes the stairs and sends the new floor.  Without a client nothing
\* is sent or counted: the welcome back sends the floor it then plays.
Descend ==
    LET s == client[Host]
    IN  /\ s.active /\ s.screen = "playing" /\ s.rev < MaxFloors
        /\ s.conn # NoConn
        /\ Act(Host, WithFloor(s), FloorMsg(s))

\* Victory, or the last player's death.
EndRun ==
    LET s == client[Host]
    IN  /\ s.active /\ s.screen = "playing"
        /\ Act(Host, [s EXCEPT !.screen = "over"],
               IF s.conn = NoConn THEN <<>> ELSE <<[t |-> "run_ended"]>>)

-----------------------------------------------------------------------------
Loop(p) ==
    \/ ConnectionUp(p) \/ ConnectionLost(p) \/ DriveReconnect(p) \/ DeadlinePasses(p)
    \/ ClientReads(p)

User(p) == OpenSession(p) \/ ReadyUp(p) \/ Leave(p) \/ BackOut(p)
HostActs == OpenAgain \/ Admit \/ TurnAway \/ Descend \/ EndRun

\* What runs without anybody's decision: the relay's loop and timers, the
\* clients' main loops, and the end of a network operation.
Work ==
    \/ \E c \in Conns : RelayReads(c) \/ RelaySeesEnd(c) \/ NoHello(c)
    \/ \E r \in Roles : GraceEnds(r)
    \/ \E p \in Players : Loop(p)

Next ==
    \/ Work
    \/ \E c \in Conns : Cut(c)
    \/ Idle \/ Restart
    \/ \E p \in Players : ConnectionFailed(p) \/ User(p)
    \/ HostActs

\* What players and the network's faults do is never owed.  Every behaviour of
\* an instance is finite, so that fairness of the whole is fairness of each.
Fairness == WF_vars(Work)

Spec == Init /\ [][Next]_vars
FairSpec == Spec /\ Fairness

-----------------------------------------------------------------------------
(* Properties *)

\* A connection that may act in the room is the one its seat points at, and it
\* was dialled by the player the seat was given to: no socket that was
\* replaced, kicked or lost still speaks for a seat (RoomHub.connections).
SeatOwned ==
    \A c \in relay.live : relay.seat[c] # "none" =>
        /\ relay.seat[c] \in DOMAIN relay.slots
        /\ relay.slots[relay.seat[c]].conn = c
        /\ relay.slots[relay.seat[c]].who = owner[c]

\* Nothing is under way between p and the relay, and both ends think so.
Settled(p) ==
    LET c == client[p].conn
    IN  /\ c \in relay.live \ cut /\ sock[c] = "open"
        /\ up[c] = <<>> /\ down[c] = <<>>
        /\ RoleOf(p) \in DOMAIN relay.slots /\ relay.slots[RoleOf(p)].conn = c

\* When nothing is under way in a run, the joiner shows the floor the host
\* plays and waits for nothing, after any reconnection of either side
\* (mp_send_floor, the replay of _try_reconnect, awaiting_floor).
FloorAgreed ==
    \A j \in Joiners :
        /\ relay.started /\ Settled(Host) /\ Settled(j) /\ client[Host].active
        => ~client[j].awaiting /\ client[j].rev = client[Host].rev

\* While the host plays and the relay keeps the run, a joiner that waits for a
\* floor gets one or leaves the session (awaiting_floor gates its input).
FloorArrives ==
    \A j \in Joiners : (client[j].awaiting /\ client[Host].started /\ relay.started)
                          ~> (~client[j].awaiting \/ ~relay.started)

\* A room cannot outlive its host: once the host's session has ended, no
\* joiner stays in a run.
HostEndReachesJoiner ==
    \A j \in Joiners : (client[Host].phase = "off" /\ client[j].started)
                          ~> (client[j].phase = "off")

=============================================================================
