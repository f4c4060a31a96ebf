----------------------------- MODULE CoopWorld -----------------------------
(***************************************************************************)
(* What the joiner of a co-op run sees: net/sync.py between the host's     *)
(* world and the joiner's copy, through the relay of CoopRelay, from the   *)
(* moment the run has started.                                             *)
(*                                                                         *)
(* A floor descriptor carries a whole floor.  A snapshot carries changes:  *)
(* the enemies that have not been sent, the tiles that differ from those   *)
(* sent, a short window of numbered effects and, every few ticks, the      *)
(* sections that differ from those sent.  The host counts all of this as   *)
(* sent when it builds the message.                                        *)
(*                                                                         *)
(* Every queue on the way (MultiplayerClient on both sides, AsyncioPeer)   *)
(* replaces a snapshot that waits at its end by a newer one.  Here it      *)
(* always does: where both are read, the first is read before the second   *)
(* is queued.  The compact updates of enemies are the names it updates,    *)
(* items stand for every section of the slow part, and the spawn records   *)
(* for the tile patches, which are sent once in the same way.  The area of *)
(* interest is left out: it freezes an enemy and never removes one.        *)
(*                                                                         *)
(* What the host sends is at the relay at once: a later arrival differs by *)
(* what is replaced on the way, and the way on does that too.              *)
(*                                                                         *)
(* Ticks go round: the copy compares them within one floor only, and one   *)
(* connection keeps their order.  Bounds: the enemies, versions of the     *)
(* items, floors, and one cut of the joiner's connection.  *)
(***************************************************************************)
EXTENDS CoopRelay, SequencesExt

CONSTANTS
    Enemies,        \* the enemies of the run, each spawned at most once
    SlowEvery,      \* SLOW_PAYLOAD_EVERY_TICKS
    FullEvery,      \* SLOW_FULL_REFRESH_TICKS
    ReplayTicks,    \* _FX_REPLAY_TICKS
    MaxItems, MaxFloors

ASSUME TicksAssumption ==
    /\ SlowEvery \in Nat \ {0} /\ FullEvery \in Nat \ {0} /\ FullEvery % SlowEvery = 0
    /\ ReplayTicks \in Nat
ASSUME WorldBoundsAssumption == {MaxItems, MaxFloors} \subseteq Nat
ASSUME SocketsAssumption == {1, 2, 3} \subseteq Conns

VARIABLES
    relay,      \* the relay, a record as CoopRelay describes
    host,       \* the world of the host and what it counts as sent
    copy,       \* the joiner's copy
    toJoiner, toHost    \* what the relay has sent

vars == <<relay, host, copy, toJoiner, toHost>>

HostConn == 1
FirstConn == 2      \* the joiner's first connection,
SecondConn == 3     \* and the one it comes back with

\* A relay in a started run, by its own handlers.
StartedRelay ==
    LET knock(R, c, p, role) ==
            HandleMessage(Accept(R, c), c, [t |-> "hello", who |-> p, role |-> role, token |-> 0])
        both == knock(knock(InitRelay, HostConn, "p1", "host"), FirstConn, "p2", "join")
        on   == HandleMessage(HandleMessage(both, HostConn, [t |-> "ready"]),
                              FirstConn, [t |-> "ready"])
    IN  [on EXCEPT !.out = Silent]

-----------------------------------------------------------------------------
(* The host: the floor descriptor and the snapshot *)

\* An effect is numbered, and ages with every snapshot that carries it.
Effect(h, what) == [age |-> 0, seq |-> h.seq + 1, what |-> what]
Record(h, what) == [h EXCEPT !.seq = @ + 1, !.fx = Append(@, Effect(h, what))]
RecordAll(h, whats) == FoldLeft(Record, h, whats)

\* mp_send_floor and build_floor_state: everything counts as sent.
FloorBuilt(h) ==
    [h EXCEPT !.rev = @ + 1, !.tick = 0, !.fx = <<>>, !.sent = h.alive,
              !.before = h.alive, !.cache = <<>>]

FloorOf(h) ==
    [t |-> "floor", rev |-> h.rev, enemies |-> h.alive, items |-> h.items]

\* _mp_send_snapshot and build_snapshot_state: the ticks, then the enemies that
\* are gone since the last snapshot, the window, and the sections.
Ticked(h) == [h EXCEPT !.tick = (h.tick + 1) % FullEvery, !.resized = FALSE]
IsFull(h) == Ticked(h).tick = 0 \/ h.resized
IsSlow(h) == IsFull(h) \/ Ticked(h).tick % SlowEvery = 0

Aged(fx) ==
    SelectSeq([i \in DOMAIN fx |-> [fx[i] EXCEPT !.age = @ + 1]],
              LAMBDA e : e.age <= ReplayTicks)

Gone(h) == [i \in 1..Cardinality(h.before \ h.alive) |->
              [gone |-> SetToSeq(h.before \ h.alive)[i]]]

\* Mutant: a section goes out only when it has changed.
SendsChangedItems(h) == IsSlow(h) /\ h.cache # <<h.items>>

SendsItems(h) == IsFull(h) \/ (IsSlow(h) /\ h.cache # <<h.items>>)

SnapshotBuilt(h) ==
    RecordAll([Ticked(h) EXCEPT !.sent = @ \cup h.alive, !.before = h.alive,
                                !.fx = Aged(@),
                                !.cache = IF SendsItems(h) THEN <<h.items>> ELSE @],
              Gone(h))

SnapshotOf(h, built) ==
    [t |-> "snapshot", rev |-> h.rev, spawns |-> h.alive \ h.sent, updates |-> h.alive,
     fx |-> [i \in DOMAIN built.fx |-> [seq |-> built.fx[i].seq, what |-> built.fx[i].what]],
     eids |-> IF IsSlow(h) THEN <<h.alive>> ELSE <<>>,
     items |-> IF SendsItems(h) THEN <<h.items>> ELSE <<>>, full |-> IsFull(h)]

\* Mutant: whatever waits at the end is replaced.
CoalesceAny(q, m) ==
    IF m.t = "snapshot" /\ q # <<>> THEN [q EXCEPT ![Len(q)] = m] ELSE Append(q, m)

\* A queue whose last message is a snapshot has it replaced.
Coalesce(q, m) ==
    IF m.t = "snapshot" /\ q # <<>> /\ q[Len(q)].t = "snapshot"
      THEN [q EXCEPT ![Len(q)] = m] ELSE Append(q, m)

-----------------------------------------------------------------------------
(* The joiner: what it does with a floor and with a snapshot *)

\* apply_floor_state and _mp_on_floor.
FloorApplied(c, m) ==
    [c EXCEPT !.awaiting = FALSE, !.rev = m.rev, !.shown = m.enemies,
              !.items = m.items, !.mark = 0]

NewEffects(c, m) == SelectSeq(m.fx, LAMBDA e : e.seq > c.mark)

\* Mutant: nothing corrects the loss of a "gone".
GoneOnly(c, m) ==
    (c.shown \cup m.spawns) \ {e \in Enemies : \E i \in DOMAIN NewEffects(c, m) :
                                 NewEffects(c, m)[i].what = [gone |-> e]}

Shown(c, m) ==
    GoneOnly(c, m) \cap (IF m.eids = <<>> THEN Enemies ELSE m.eids[1])

\* apply_snapshot_state, for a copy that has the floor.
SnapshotApplied(c, m) ==
    LET new == NewEffects(c, m)
    IN  [c EXCEPT
            !.shown = Shown(c, m),
            !.items = IF m.items = <<>> THEN @ ELSE m.items[1],
            !.mark  = IF new = <<>> THEN @ ELSE new[Len(new)].seq]

\* _mp_on_snapshot.
OnSnapshot(c, m) ==
    IF c.awaiting \/ m.rev # c.rev THEN c ELSE SnapshotApplied(c, m)

-----------------------------------------------------------------------------
(* What passes the relay *)

SentTo(R, c) == IF c \in Conns THEN R.out[c] ELSE <<>>
Delivered(q, sent) == FoldLeft(Coalesce, q, sent)

\* The relay becomes Q; a connection that is cut brings nothing.
Relayed(Q, conn) ==
    \E R \in {Q} :
        /\ relay' = [R EXCEPT !.out = Silent]
        /\ toHost' = Delivered(toHost, SentTo(R, HostConn))
        /\ toJoiner' = Delivered(toJoiner, SentTo(R, conn))

\* The host is h and has sent m.
HostSends(h, m) ==
    /\ host' = h
    /\ Relayed(HandleMessage(relay, HostConn, m), copy.conn)
    /\ UNCHANGED copy

-----------------------------------------------------------------------------
Init ==
    LET h0 == FloorBuilt([rev |-> 0, tick |-> 0, alive |-> {}, made |-> {}, sent |-> {},
                          before |-> {}, items |-> 0, cache |-> <<>>, resized |-> TRUE,
                          fx |-> <<>>, seq |-> 0])
    IN  /\ host = h0
        /\ relay = [HandleMessage(StartedRelay, HostConn, FloorOf(h0)) EXCEPT !.out = Silent]
        /\ copy = [conn |-> FirstConn, awaiting |-> TRUE, rev |-> 0, shown |-> {},
                   items |-> 0, mark |-> 0]
        /\ toJoiner = <<FloorOf(h0)>>
        /\ toHost = <<>>

(* The host *)

World == UNCHANGED <<relay, copy, toJoiner, toHost>>

Spawn(e) ==
    /\ e \notin host.made
    /\ host' = [host EXCEPT !.alive = @ \cup {e}, !.made = @ \cup {e}]
    /\ World

\* Its death has a burst (kill_enemy, add_impact), recorded at once.
Kill(e) ==
    /\ e \in host.alive
    /\ host' = [Record(host, [burst |-> e]) EXCEPT !.alive = @ \ {e}]
    /\ World

\* Items change, with their number or without.
ChangeItems ==
    /\ host.items < MaxItems
    /\ \E more \in BOOLEAN :
         host' = [host EXCEPT !.items = @ + 1, !.resized = @ \/ more]
    /\ World

\* The stairs: a floor without its enemies yet, sent at once.
Descend ==
    /\ host.rev < MaxFloors
    /\ \E h \in {FloorBuilt([host EXCEPT !.alive = {}])} : HostSends(h, FloorOf(h))

SendSnapshot == \E h \in {SnapshotBuilt(host)} : HostSends(h, SnapshotOf(host, h))

HostReads ==
    /\ toHost # <<>>
    /\ toHost' = Tail(toHost)
    /\ UNCHANGED copy
    /\ IF Head(toHost).t = "partner_rejoined"
         THEN \E h \in {FloorBuilt(host)} :
              \E R \in {HandleMessage(relay, HostConn, FloorOf(h))} :
                  /\ host' = h
                  /\ relay' = [R EXCEPT !.out = Silent]
                  /\ toJoiner' = Delivered(toJoiner, SentTo(R, copy.conn))
         ELSE UNCHANGED <<host, relay, toJoiner>>

(* The joiner *)

JoinerReads ==
    /\ toJoiner # <<>>
    /\ LET m == Head(toJoiner)
       IN  copy' = CASE m.t = "floor" -> FloorApplied(copy, m)
                     [] m.t = "snapshot" -> OnSnapshot(copy, m)
                     [] m.t = "welcome" -> [copy EXCEPT !.awaiting = TRUE]
                     [] OTHER -> copy
    /\ toJoiner' = Tail(toJoiner)
    /\ UNCHANGED <<relay, host, toHost>>

ReadsRefresh ==
    /\ toJoiner # <<>>
    /\ Head(toJoiner).t = "snapshot" /\ Head(toJoiner).full
    /\ JoinerReads

\* The joiner's first connection is cut, with what is under way on it.
Cut ==
    /\ copy.conn = FirstConn
    /\ copy' = [copy EXCEPT !.conn = NoConn]
    /\ toJoiner' = <<>>
    /\ UNCHANGED <<relay, host, toHost>>

RelaySeesEnd ==
    /\ copy.conn # FirstConn /\ FirstConn \in relay.live
    /\ Relayed(Disconnect(relay, FirstConn), copy.conn)
    /\ UNCHANGED <<copy, host>>

\* It comes back on a new one, with its token, before its grace ends.
Rejoin ==
    /\ copy.conn = NoConn
    /\ copy' = [copy EXCEPT !.conn = SecondConn]
    /\ Relayed(HandleMessage(Accept(relay, SecondConn), SecondConn,
                 [t |-> "hello", who |-> "p2", role |-> "join",
                  token |-> relay.slots["join"].token]), SecondConn)
    /\ UNCHANGED host

-----------------------------------------------------------------------------
Changes == ChangeItems \/ Descend \/ \E e \in Enemies : Spawn(e) \/ Kill(e)

Next ==
    \/ Changes \/ SendSnapshot \/ HostReads
    \/ RelaySeesEnd \/ JoinerReads
    \/ Cut \/ Rejoin

\* The host sends at its rate and the joiner reads; it is not always too late
\* for the snapshot that repeats everything.
Fairness ==
    /\ WF_vars(SendSnapshot) /\ WF_vars(HostReads \/ RelaySeesEnd \/ Rejoin)
    /\ WF_vars(JoinerReads)
    /\ SF_vars(ReadsRefresh)

Spec == Init /\ [][Next]_vars
FairSpec == Spec /\ Fairness

-----------------------------------------------------------------------------
(* Properties *)

\* A dead enemy never stays on the joiner's screen, whatever snapshots were
\* replaced and whenever the connection was lost (the window and the eids list).
GhostsGo == \A e \in Enemies : (e \in copy.shown \ host.alive) ~> e \notin copy.shown

\* Nor is a change of the items missed for good (the cache and the refresh).
ItemsCatchUp == \A v \in 1..MaxItems : (host.items = v) ~> (copy.items = v \/ host.items # v)

\* Once it has read everything, the joiner is on the host's floor.
FloorCatchesUp == \A f \in 1..MaxFloors : (host.rev = f) ~> (copy.rev = f \/ host.rev # f)

=============================================================================
