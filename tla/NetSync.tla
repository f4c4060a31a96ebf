------------------------------ MODULE NetSync ------------------------------
(***************************************************************************)
(* A co-op run of the Odin program from the relay's Start to its end: the  *)
(* session of each player (net_session.odin), the synchronisation of host  *)
(* and joiner (net_sync.odin), the screens they drive (net_lobby.odin) and *)
(* the part of the relay (hub.odin) that carries an active run.            *)
(*                                                                         *)
(* A socket delivers in order.  It may be cut: any suffix of what is under *)
(* way is lost each way, and the two ends notice it in their own time, the *)
(* relay perhaps after the token has come back on another socket.          *)
(*                                                                         *)
(* The world is how often it has moved and the floor it is on; a           *)
(* checkpoint travels as two chunks.  Positions, prediction, pauses of the *)
(* host's menus, the joiner's shop (which holds the host for 120 s), slow  *)
(* sections, sounds and the resync of a checkpoint that does not decode    *)
(* are left out.  Time is a choice: throttles and grace periods run out at *)
(* any moment, the 20 s for an acknowledgement at a quiet one.             *)
(*                                                                         *)
(* Bounds: MaxMoves, MaxEpoch, MaxSteps of one stream, MaxActions,         *)
(* MaxFaults (a socket cut, or a chunk that a full send queue refuses),    *)
(* Window snapshots or intents under way.                                  *)
(***************************************************************************)
EXTENDS Integers, Sequences, FiniteSets

CONSTANTS
    Backlog,        \* COOP_HOST_QUEUE_TARGET + 2
    QueueMax,       \* COOP_HOST_QUEUE_MAX
    Refill,         \* COOP_HOST_REFILL
    MaxMoves, MaxEpoch, MaxSteps, MaxActions, MaxFaults, Window

ASSUME NetSyncAssumption ==
    {Backlog, QueueMax, Refill, MaxMoves, MaxEpoch, MaxSteps, MaxActions, MaxFaults, Window}
      \subseteq Nat

VARIABLES
    relay,    \* the room: phase, the socket of each seat, result_acked
    sock,     \* each player's socket: open, dead (cut or closed), none
    up, down, \* what is under way on it
    stale,    \* what the relay still has to read from the one before
    session,  \* Net_Session: phase, partner_connected
    screen,   \* App_Mode: Lobby, Wait, Play, Over (the end of a run), Out
    host,     \* the host's half of Coop_State, and its run
    join,     \* the joiner's half
    faults,   \* cuts and refusals of a full send queue so far
    history   \* floors: the move each began with; acted: the last action
              \* applied; ids: the checkpoint ids drawn so far

vars == <<relay, sock, up, down, stale, session, screen, host, join, faults, history>>
net == <<sock, up, down, stale>>

Roles == {"Host", "Join"}
Other(r) == IF r = "Host" THEN "Join" ELSE "Host"

Msg(t) == [t |-> t]

\* op over the elements of seq, from the first to the last.
Folded(op(_, _), base, seq) ==
    LET after[i \in 0..Len(seq)] == IF i = 0 THEN base ELSE op(after[i - 1], seq[i])
    IN  after[Len(seq)]

-----------------------------------------------------------------------------
(* The relay *)

\* What reaches r of messages sent to it; the rest goes to a dead socket.
Down(d, r, msgs) ==
    IF relay.seat[r] = "cur" /\ sock[r] = "open" THEN [d EXCEPT ![r] = @ \o msgs] ELSE d

CloseRoom ==
    /\ relay' = [relay EXCEPT !.phase = "Closed", !.seat = [q \in Roles |-> "gone"]]
    /\ sock' = [q \in Roles |-> IF relay.seat[q] = "cur" /\ sock[q] = "open"
                                  THEN "dead" ELSE sock[q]]
    /\ up' = [q \in Roles |-> IF relay.seat[q] = "cur" THEN <<>> ELSE up[q]]
    /\ stale' = [q \in Roles |-> <<>>]

Passed(r, m) ==
    /\ relay' = IF m.t = "run_ended" THEN [relay EXCEPT !.phase = "Ended"] ELSE relay
    /\ down' = Down(down, Other(r), <<m>>)

\* seat_lost: the seat is reserved.
SeatLost(r) ==
    /\ relay' = [relay EXCEPT !.seat[r] = "lost"]
    /\ down' = IF relay.phase = "Active"
                 THEN Down(down, Other(r), <<Msg("partner_disconnected")>>) ELSE down

\* seat_departed, of a seat whose socket is detached.
SeatDeparted(r) ==
    LET acked == relay.acked \/ r = "Join"
    IN  IF relay.phase = "Ended" /\ ~acked
          THEN /\ relay' = [relay EXCEPT !.seat[r] = "gone"]
               /\ stale' = [stale EXCEPT ![r] = <<>>]
               /\ UNCHANGED <<sock, up, down>>
          ELSE /\ down' = IF relay.phase = "Active"
                            THEN Down(down, Other(r), <<Msg("partner_left")>>) ELSE down
               /\ CloseRoom

\* The first message of a socket is the hello with the token.
MayReclaim(r) ==
    /\ relay.phase # "Closed" /\ relay.seat[r] # "gone"
    /\ relay.phase = "Ended" => r = "Join" /\ ~relay.acked

\* The token holder supersedes the old socket.
SupersededNot(r) == stale
Superseded(r) == [stale EXCEPT ![r] = <<>>]

Reclaim(r) ==
    IF MayReclaim(r)
      THEN /\ relay' = [relay EXCEPT !.seat[r] = "cur"]
           /\ stale' = Superseded(r)
           /\ LET answer == <<[t |-> "welcome", phase |-> relay.phase]>>
                              \o (IF relay.phase = "Ended" THEN <<Msg("run_ended")>> ELSE <<>>)
                  told == Down(down, Other(r), <<Msg("partner_rejoined")>>)
              IN  down' = IF sock[r] = "open" THEN [told EXCEPT ![r] = @ \o answer] ELSE told
           /\ UNCHANGED sock
      ELSE /\ down' = [down EXCEPT ![r] = Append(@, Msg("error"))]
           /\ sock' = [sock EXCEPT ![r] = "dead"]
           /\ UNCHANGED <<relay, stale>>

\* A message of a socket that holds its seat.
Handled(r, m) ==
    CASE m.t = "bye" -> SeatDeparted(r)
      [] m.t = "result_ack" ->
           /\ relay' = [relay EXCEPT !.acked = @ \/ relay.phase = "Ended"]
           /\ UNCHANGED <<sock, down>>
      [] OTHER -> IF relay.phase = "Active" THEN Passed(r, m) /\ UNCHANGED sock
                  ELSE UNCHANGED <<relay, sock, down>>

RelayReads(r) ==
    /\ up[r] # <<>>
    /\ LET m == Head(up[r])
       IN  IF m.t = "hello" THEN Reclaim(r) /\ up' = [up EXCEPT ![r] = Tail(@)]
           ELSE IF relay.seat[r] # "cur"
             THEN up' = [up EXCEPT ![r] = Tail(@)] /\ UNCHANGED <<relay, sock, down, stale>>
           ELSE IF m.t = "bye" THEN Handled(r, m)
           ELSE Handled(r, m) /\ up' = [up EXCEPT ![r] = Tail(@)] /\ UNCHANGED stale
    /\ UNCHANGED <<session, screen, host, join, faults, history>>

RelayReadsStale(r) ==
    /\ stale[r] # <<>>
    /\ LET m == Head(stale[r])
       IN  IF m.t = "bye" THEN Handled(r, m)
           ELSE Handled(r, m) /\ stale' = [stale EXCEPT ![r] = Tail(@)] /\ UNCHANGED up
    /\ UNCHANGED <<session, screen, host, join, faults, history>>

\* hub_closed, or the liveness timeout.
RelayNotices(r) ==
    /\ \/ relay.seat[r] = "old" /\ stale[r] = <<>>
       \/ relay.seat[r] = "cur" /\ sock[r] = "dead" /\ up[r] = <<>>
    /\ SeatLost(r)
    /\ UNCHANGED <<sock, up, stale, session, screen, host, join, faults, history>>

GraceExpires(r) ==
    /\ relay.seat[r] = "lost"
    /\ SeatDeparted(r)
    /\ UNCHANGED <<session, screen, host, join, faults, history>>

\* An acknowledged result closes the room; so does its deadline, which is as
\* long as the grace of a joiner that is away.
ResultDelivered ==
    /\ relay.phase = "Ended" /\ relay.acked
    /\ CloseRoom
    /\ UNCHANGED <<down, session, screen, host, join, faults, history>>

-----------------------------------------------------------------------------
(* Sockets, as a player sees them *)

Sends(r, msgs) == up' = IF sock[r] = "open" THEN [up EXCEPT ![r] = @ \o msgs] ELSE up

\* The player's end of the socket goes; what it has sent is still read.
HangUp(r, queue) ==
    /\ sock' = [sock EXCEPT ![r] = "none"]
    /\ up' = [up EXCEPT ![r] = <<>>] /\ down' = [down EXCEPT ![r] = <<>>]
    /\ relay' = IF relay.seat[r] = "cur" THEN [relay EXCEPT !.seat[r] = "old"] ELSE relay
    /\ stale' = IF relay.seat[r] = "cur" THEN [stale EXCEPT ![r] = queue] ELSE stale

Cut(r) ==
    /\ sock[r] = "open" /\ faults < MaxFaults
    /\ faults' = faults + 1
    /\ sock' = [sock EXCEPT ![r] = "dead"]
    /\ \E n \in 0..Len(up[r]), k \in 0..Len(down[r]) :
         /\ up' = [up EXCEPT ![r] = SubSeq(@, 1, n)]
         /\ down' = [down EXCEPT ![r] = SubSeq(@, 1, k)]
    /\ UNCHANGED <<relay, stale, session, screen, host, join, history>>

\* coop_leave: the socket, the session, the screen and the run are gone.
NoHost ==
    [need |-> FALSE, synced |-> FALSE, ckpt |-> 0, ckptEpoch |-> 0, epoch |-> 1, world |-> 0,
     ended |-> FALSE, resolved |-> 0, seen |-> 0, seenAct |-> 0, cmds |-> <<>>, acts |-> <<>>,
     refilling |-> FALSE, late |-> FALSE]
NoJoiner ==
    [have |-> FALSE, base |-> 0, epoch |-> 0, shown |-> 0, seq |-> 0, acted |-> 0, part |-> 0,
     ended |-> FALSE]

Departs(r, queue) ==
    /\ HangUp(r, queue)
    /\ session' = [session EXCEPT ![r] = [phase |-> "Idle", partner |-> FALSE]]
    /\ screen' = [screen EXCEPT ![r] = "Out"]
    /\ host' = IF r = "Host" THEN NoHost ELSE host
    /\ join' = IF r = "Join" THEN NoJoiner ELSE join

\* connection_lost; a hello that was not answered is tried again.
PlayerNotices(r) ==
    /\ sock[r] = "dead"
    /\ HangUp(r, up[r])
    /\ session' = [session EXCEPT ![r].phase =
                     IF @ \in {"Lobby", "Active"} THEN "Reconnecting" ELSE @]
    /\ UNCHANGED <<screen, host, join, faults, history>>

Reconnect(r) ==
    /\ session[r].phase = "Reconnecting" /\ sock[r] = "none"
    /\ sock' = [sock EXCEPT ![r] = "open"]
    /\ up' = [up EXCEPT ![r] = <<Msg("hello")>>]
    /\ UNCHANGED <<relay, down, stale, session, screen, host, join, faults, history>>

\* The grace deadline: fail, and coop_update_screens leaves.
GiveUp(r) ==
    /\ session[r].phase = "Reconnecting"
    /\ Departs(r, up[r])
    /\ UNCHANGED <<faults, history>>

\* coop_leave by the player's choice.
Leave(r) ==
    /\ screen[r] # "Out"
    /\ Departs(r, IF session[r].phase \in {"Lobby", "Active"} /\ sock[r] = "open"
                    THEN Append(up[r], Msg("bye")) ELSE up[r])
    /\ UNCHANGED <<faults, history>>

-----------------------------------------------------------------------------
(* What a frame does with the messages that have come in: the session takes *)
(* them first, then its events are handled, then the traffic of the run.    *)

Traffic == {"chunk", "snapshot", "intent", "checkpoint_ack", "run_ended"}

\* The phase a session resumes in, from the phase of the room.
ResumedActiveOnly(phase) == IF phase = "Active" THEN "Active" ELSE "Lobby"
Resumed(phase) == IF phase \in {"Active", "Ended"} THEN "Active" ELSE "Lobby"

\* handle_message, on what a frame has so far.
Took(in, m) ==
    LET Set(phase, partner, event) ==
          [in EXCEPT !.phase = phase, !.partner = partner, !.events = Append(@, event)]
    IN  CASE m.t \in Traffic ->
               IF in.phase \in {"Active", "Ended"} THEN [in EXCEPT !.inbox = Append(@, m)] ELSE in
          [] m.t = "welcome" -> Set(Resumed(m.phase), TRUE, "reconnected")
          [] m.t = "start" -> Set("Active", in.partner, "started")
          [] m.t = "partner_disconnected" -> Set(in.phase, FALSE, m.t)
          [] m.t = "partner_rejoined" -> Set(in.phase, TRUE, m.t)
          [] m.t = "partner_left" ->
               Set(IF in.phase = "Active" THEN "Ended" ELSE in.phase, FALSE, m.t)
          [] m.t = "error" -> [in EXCEPT !.phase = "Failed"]

\* A session that has failed or ended stops the loop.
Goes(r, n) ==
    Folded(Took, [phase |-> session[r].phase, partner |-> session[r].partner,
                  events |-> <<>>, inbox |-> <<>>], SubSeq(down[r], 1, n))
Readable(r, n) ==
    /\ session[r].phase \notin {"Idle", "Failed"} /\ sock[r] # "none"
    /\ \A k \in 1..(n - 1) : Goes(r, k).phase \notin {"Failed", "Ended"}

\* coop_update_screens, at the end of the frame.
Leaves(phase, ended) == phase = "Failed" \/ (phase = "Ended" /\ ~ended)

\* The frame of player r: in is what its session took of n messages, next its
\* screen, out what it sends, h and j what host and joiner make of it.
FrameEnds(r, n, in, next, out, h, j) ==
    IF Leaves(in.phase, (IF r = "Host" THEN h ELSE j).ended)
      THEN Departs(r, up[r])
      ELSE /\ Sends(r, out)
           /\ down' = [down EXCEPT ![r] = SubSeq(@, n + 1, Len(@))]
           /\ session' = [session EXCEPT ![r] = [phase |-> in.phase, partner |-> in.partner]]
           /\ screen' = [screen EXCEPT ![r] = next]
           /\ host' = h /\ join' = j
           /\ UNCHANGED <<relay, sock, stale>>

-----------------------------------------------------------------------------
(* The host *)

Cleared(h) == [h EXCEPT !.cmds = <<>>, !.acts = <<>>]
Unsynced(h) == [h EXCEPT !.need = TRUE, !.synced = FALSE]

HostEventOwn(phase, h, event) ==
    IF event = "reconnected" /\ phase = "Active" THEN Unsynced(h) ELSE h
HostEvent(phase, h, event) ==
    CASE event \in {"partner_rejoined", "reconnected"} /\ phase = "Active" -> Unsynced(h)
      [] event = "partner_disconnected" -> [h EXCEPT !.synced = FALSE]
      [] OTHER -> h

\* coop_host_receive_intent: what was seen, or came before the baseline was
\* acknowledged, is left; the oldest steps go when the queue is full.
AcceptedAnyway(h, m) == TRUE
Accepted(h, m) == h.synced

\* Numbers rise from the first step or action of an intent to the last, so that
\* those already seen come first.
Unseen(seq, known) == SubSeq(seq, Cardinality(known) + 1, Len(seq))

ReceiveIntent(h, m) ==
    LET new == Unseen(m.cmds, {i \in DOMAIN m.cmds : m.cmds[i].seq <= h.seen})
        all == h.cmds \o new
        over == IF Len(all) > QueueMax THEN Len(all) - QueueMax ELSE 0
        acts == Unseen(m.acts, {i \in DOMAIN m.acts : m.acts[i].id <= h.seenAct})
    IN  IF ~Accepted(h, m) THEN h
        ELSE [h EXCEPT
                !.cmds = SubSeq(all, over + 1, Len(all)),
                !.seen = IF new = <<>> THEN @ ELSE new[Len(new)].seq,
                !.resolved = IF over = 0 THEN @ ELSE all[over].seq,
                !.acts = @ \o acts,
                !.seenAct = IF acts = <<>> THEN @ ELSE acts[Len(acts)].id]

HostReceive(h, m) ==
    CASE m.t = "intent" -> ReceiveIntent(h, m)
      [] m.t = "checkpoint_ack" -> IF m.id = h.ckpt THEN Cleared([h EXCEPT !.synced = TRUE]) ELSE h
      [] OTHER -> h

HostTold(phase, h, events) == Folded(LAMBDA x, e : HostEvent(phase, x, e), h, events)

HostFrame(n) ==
    /\ Readable("Host", n)
    /\ \E in \in {Goes("Host", n)} :
         \E h \in {Folded(HostReceive, HostTold(in.phase, host, in.events), in.inbox)} :
           FrameEnds("Host", n, in, screen["Host"], <<>>, h, join)
    /\ UNCHANGED <<faults, history>>

Chunk(id, i, h) == [t |-> "chunk", id |-> id, i |-> i, epoch |-> h.epoch, world |-> h.world]
Pulse(h) == [t |-> "snapshot", epoch |-> h.epoch, ack |-> h.resolved, world |-> h.world]
Latest == history.ids + 1

\* coop_host_send_checkpoint: with both chunks queued the command stream
\* starts anew.
Baseline(h) ==
    Cleared([h EXCEPT !.ckpt = Latest, !.ckptEpoch = h.epoch, !.need = FALSE,
                      !.synced = FALSE, !.resolved = 0, !.seen = 0, !.seenAct = 0,
                      !.refilling = FALSE])

\* The host as the attempt leaves it, with k chunks queued.
Tried(h, k) == IF k = 2 THEN Baseline(h) ELSE h
Queued(h, k) == SubSeq(<<Chunk(Latest, 0, h), Chunk(Latest, 1, h)>>, 1, k)
Attempt(k, past) ==
    /\ k < 2 => faults < MaxFaults
    /\ faults' = IF k < 2 THEN faults + 1 ELSE faults
    /\ history' = [past EXCEPT !.ids = Latest]

HostIsUp == session["Host"].phase = "Active" /\ ~host.ended

\* The timer of a due checkpoint, within the frame.
HostCheckpoint ==
    /\ HostIsUp /\ host.need /\ session["Host"].partner
    /\ \E k \in 0..2 :
         /\ Attempt(k, history)
         /\ host' = [Tried(host, k) EXCEPT !.late = FALSE]
         /\ Sends("Host", Queued(host, k))
    /\ UNCHANGED <<relay, sock, down, stale, session, screen, join>>

\* coop_host_send_snapshot, and more behind it: a floor the joiner has no
\* checkpoint of goes first.
Snapshot(h, past, more) ==
    \/ /\ h.epoch # h.ckptEpoch
       /\ \E k \in 0..2 :
            /\ Attempt(k, past)
            /\ LET tried == Tried(Cleared(Unsynced(h)), k)
               IN  host' = tried /\ Sends("Host", Queued(h, k) \o <<Pulse(tried)>> \o more)
    \/ /\ h.epoch = h.ckptEpoch
       /\ host' = h /\ Sends("Host", <<Pulse(h)>> \o more)
       /\ history' = past /\ UNCHANGED faults

InFlight(r, t) == Len(SelectSeq(up[r] \o down[Other(r)], LAMBDA m : m.t = t))

HostSnapshot ==
    /\ HostIsUp /\ InFlight("Host", "snapshot") < Window
    /\ Snapshot(host, history, <<>>)
    /\ UNCHANGED <<relay, sock, down, stale, session, screen, join>>

\* coop_host_sim_blocked
AckNeverOverdue == FALSE
AckOverdue == host.ckpt # 0 /\ ~host.need /\ host.late
SimBlocked ==
    \/ ~session["Host"].partner
    \/ ~host.synced /\ ~AckOverdue

\* The 20 s are longer than the liveness timeout: what was sent has reached
\* the relay by then, or its sender and the relay know that it has not.
AckTimePasses ==
    /\ host.ckpt # 0 /\ ~host.late
    /\ \A r \in Roles : up[r] = <<>> /\ sock[r] # "dead" /\ relay.seat[r] # "old"
    /\ host' = [host EXCEPT !.late = TRUE]
    /\ UNCHANGED <<relay, net, session, screen, join, faults, history>>

\* coop_host_next_input: a step beyond the backlog is dropped, the next one is
\* taken unless the queue is refilling, and the actions due by then resolve.
Trimmed(h) ==
    IF Len(h.cmds) > Backlog
      THEN [h EXCEPT !.resolved = Head(h.cmds).seq, !.cmds = Tail(@)] ELSE h
Stepped(h) ==
    IF h.cmds # <<>> /\ (h.refilling => Len(h.cmds) >= Refill)
      THEN [h EXCEPT !.resolved = Head(h.cmds).seq, !.cmds = Tail(@), !.refilling = FALSE]
      ELSE [h EXCEPT !.refilling = @ \/ h.cmds = <<>>]
Due(h) == Cardinality({i \in DOMAIN h.acts : \A j \in 1..i : h.acts[j].at <= h.resolved})
NextInput(h) == Stepped(Trimmed(h))
Acted(h) == [h EXCEPT !.acts = SubSeq(@, Due(h) + 1, Len(@))]

\* A tick of the host's app_tick.  An action, or the host itself, may take the
\* stairs; the run may end, and coop_host_publish_result sends the result if
\* the session is up.
Ticks(h, moves, deeper, ends) ==
    LET lived == [Acted(h) EXCEPT !.world = @ + moves, !.epoch = @ + deeper, !.ended = ends]
        noted == [history EXCEPT
                    !.acted = IF Due(h) = 0 THEN @ ELSE h.acts[Due(h)].id,
                    !.floors = IF deeper = 1 THEN Append(@, lived.world) ELSE @]
    IN  IF ends /\ session["Host"].phase = "Active"
          THEN Snapshot(lived, noted, <<Msg("run_ended")>>)
          ELSE host' = lived /\ history' = noted /\ UNCHANGED <<up, faults>>

HostTick ==
    /\ screen["Host"] = "Play" /\ ~SimBlocked
    /\ \E ends \in BOOLEAN, deeper \in {0, 1} : \E moves \in deeper..1 :
         /\ host.epoch + deeper <= MaxEpoch /\ host.world + moves <= MaxMoves
         /\ Ticks(NextInput(host), moves, deeper, ends)
         /\ screen' = [screen EXCEPT !["Host"] = IF ends THEN "Over" ELSE @]
    /\ UNCHANGED <<relay, sock, stale, down, session, join>>

-----------------------------------------------------------------------------
(* The joiner *)

\* An event or a message of a frame, on the joiner's state, its screen and
\* what it answers.
JoinEvent(phase, a, event) ==
    CASE event = "started" ->
           [a EXCEPT !.j.have = FALSE, !.j.seq = 0, !.screen = "Wait"]
      [] event = "reconnected" /\ phase = "Active" ->
           [a EXCEPT !.j.have = FALSE, !.screen = IF @ = "Play" THEN "Wait" ELSE @]
      [] OTHER -> a

Answer(a, active, m) == IF active THEN [a EXCEPT !.out = Append(@, m)] ELSE a

\* The second chunk of the checkpoint the first one began completes it.
ReceiveChunk(a, active, m) ==
    CASE m.i = 0 -> [a EXCEPT !.j.part = m.id]
      [] m.i = 1 /\ m.id = a.j.part ->
           Answer([a EXCEPT !.j = [@ EXCEPT !.have = TRUE, !.base = m.id, !.epoch = m.epoch,
                                            !.shown = m.world, !.seq = 0, !.part = 0],
                            !.screen = IF @ = "Wait" THEN "Play" ELSE @],
                  active, [t |-> "checkpoint_ack", id |-> m.id])
      [] OTHER -> a

OfAnyFloor(j, m) == TRUE
OfFloor(j, m) == m.epoch = j.epoch

ReceiveSnapshot(a, m) ==
    IF a.j.have /\ OfFloor(a.j, m) /\ m.ack <= a.j.seq
      THEN [a EXCEPT !.j.shown = m.world] ELSE a

JoinReceive(active, a, m) ==
    CASE m.t = "chunk" -> ReceiveChunk(a, active, m)
      [] m.t = "snapshot" -> ReceiveSnapshot(a, m)
      [] m.t = "run_ended" ->
           Answer([a EXCEPT !.j.ended = TRUE, !.screen = IF a.j.ended THEN @ ELSE "Over"],
                  TRUE, Msg("result_ack"))
      [] OTHER -> a

JoinTold(phase, a, events) == Folded(LAMBDA x, e : JoinEvent(phase, x, e), a, events)
JoinHeard(phase, a, inbox) ==
    Folded(LAMBDA x, m : JoinReceive(phase = "Active", x, m), a, inbox)

\* The joiner as a frame finds it.
Seat == [j |-> join, screen |-> screen["Join"], out |-> <<>>]

JoinerFrame(n) ==
    /\ Readable("Join", n)
    /\ \E in \in {Goes("Join", n)} :
         \E a \in {JoinHeard(in.phase, JoinTold(in.phase, Seat, in.events), in.inbox)} :
           FrameEnds("Join", n, in, a.screen, a.out, host, a.j)
    /\ UNCHANGED <<faults, history>>

\* Two ticks of coop_joiner_app_tick: steps of movement unless it is paused,
\* and an action, which is ordered with the step that comes next; then all of
\* it is flushed.  What is done while the session is away is never sent.
Intent(steps, acts) ==
    [t |-> "intent", acts |-> acts,
     cmds |-> [i \in 1..steps |-> [seq |-> join.seq + i, base |-> join.base]]]

JoinerTick ==
    /\ join.have /\ session["Join"].phase = "Active" /\ InFlight("Join", "intent") < Window
    /\ \E steps \in 0..2, k \in 0..1 :
         /\ steps + k > 0 /\ join.seq + steps <= MaxSteps /\ join.acted + k <= MaxActions
         /\ \E at \in ((join.seq + steps)..(join.seq + steps + 1)) \cap ((join.seq + 1)..(join.seq + 2)) :
              /\ k = 0 => at = join.seq + 1 \/ steps = 2
              /\ Sends("Join", <<Intent(steps, [i \in 1..k |->
                          [id |-> join.acted + 1, at |-> at, base |-> join.base]])>>)
         /\ join' = [join EXCEPT !.seq = @ + steps, !.acted = @ + k]
    /\ UNCHANGED <<relay, sock, down, stale, session, screen, host, faults, history>>

-----------------------------------------------------------------------------
\* The host has taken its Start (coop_begin_run); the joiner's is under way.
Init ==
    /\ relay = [phase |-> "Active", seat |-> [r \in Roles |-> "cur"], acked |-> FALSE]
    /\ sock = [r \in Roles |-> "open"]
    /\ up = [r \in Roles |-> <<>>] /\ stale = [r \in Roles |-> <<>>]
    /\ down = [r \in Roles |-> IF r = "Host" THEN <<>> ELSE <<Msg("start")>>]
    /\ session = [r \in Roles |-> [phase |-> IF r = "Host" THEN "Active" ELSE "Lobby",
                                   partner |-> TRUE]]
    /\ screen = [r \in Roles |-> IF r = "Host" THEN "Play" ELSE "Lobby"]
    /\ host = [NoHost EXCEPT !.need = TRUE] /\ join = NoJoiner
    /\ faults = 0
    /\ history = [ids |-> 0, floors |-> <<0>>, acted |-> 0]

Frame(r, n) == IF r = "Host" THEN HostFrame(n) ELSE JoinerFrame(n)
Frames(r) == \E n \in 1..Len(down[r]) : Frame(r, n)

Next ==
    \/ \E r \in Roles :
         \/ RelayReads(r) \/ RelayReadsStale(r) \/ RelayNotices(r) \/ GraceExpires(r)
         \/ Cut(r) \/ PlayerNotices(r) \/ Reconnect(r) \/ GiveUp(r) \/ Leave(r)
         \/ Frames(r)
    \/ ResultDelivered
    \/ HostCheckpoint \/ HostSnapshot \/ HostTick \/ AckTimePasses
    \/ JoinerTick

Spec == Init /\ [][Next]_vars

\* The relay and the host's program run and sockets deliver or break, whatever
\* the joiner does.
Runs(r) ==
    /\ WF_vars(Frames(r)) /\ WF_vars(PlayerNotices(r))
    /\ WF_vars(Reconnect(r)) /\ WF_vars(GiveUp(r))
FairSpec ==
    /\ Spec
    /\ \A r \in Roles :
         /\ WF_vars(RelayReads(r)) /\ WF_vars(RelayReadsStale(r)) /\ WF_vars(RelayNotices(r))
         /\ WF_vars(GraceExpires(r))
    /\ WF_vars(ResultDelivered) /\ WF_vars(HostCheckpoint) /\ WF_vars(AckTimePasses)
    /\ Runs("Host")

-----------------------------------------------------------------------------
(* Properties *)

\* The host applies the joiner's steps in order and each once, and only those
\* of the baseline in force ("nothing from the previous stream is applied"),
\* whatever was cut, sent again or still under way; so for its actions.
StreamInOrder ==
    screen["Host"] = "Play" =>
      /\ \A i \in DOMAIN host.cmds :
           host.cmds[i] = [seq |-> host.resolved + i, base |-> host.ckpt]
      /\ \A i \in DOMAIN host.acts :
           /\ host.acts[i].base = host.ckpt
           /\ host.acts[i].id > (IF i = 1 THEN history.acted ELSE host.acts[i - 1].id)
      /\ (host.synced /\ join.have /\ join.base = host.ckpt) => host.seen <= join.seq

\* What the joiner shows is a moment of the floor it shows.
ShownIsOfFloor ==
    join.have =>
      /\ join.epoch \in DOMAIN history.floors
      /\ history.floors[join.epoch] <= join.shown
      /\ join.epoch < Len(history.floors) => join.shown < history.floors[join.epoch + 1]

\* The joiner's world never goes back, over lost sockets and new baselines.
NeverBack == [][screen'["Join"] # "Out" => join'.shown >= join.shown]_vars

\* A joiner that runs and waits for the world gets it, or the run is over,
\* whichever sockets were lost and whichever checkpoint with them.
JoinerCatchesUp ==
    Runs("Join") =>
      (screen["Join"] = "Wait" /\ screen["Host"] = "Play")
        ~> (screen["Join"] # "Wait" \/ screen["Host"] # "Play")

\* Nothing the joiner does, or fails to do, holds the host's world for good:
\* "a hostile or stuck partner cannot freeze the host".
HostReleased == (screen["Host"] = "Play" /\ SimBlocked) ~> (screen["Host"] # "Play" \/ ~SimBlocked)

\* A result the relay has taken reaches a joiner that runs and stays.
ResultArrives == Runs("Join") => (relay.phase = "Ended" ~> (join.ended \/ screen["Join"] = "Out"))

=============================================================================
