------------------------------ MODULE MiniGame ------------------------------
(***************************************************************************)
(* The cooperative mini-games of the Python edition: the model of          *)
(* story/minigames.py, the run around it (story/runtime.py), the guest     *)
(* that plays through a socket (net/mixin.py) and the save file that has   *)
(* to survive it (save_system.py).                                         *)
(*                                                                         *)
(* A party of one plays solo, and its run is saved; a party of two plays   *)
(* through the host, and nothing is saved.  The guest sees snapshots, of   *)
(* which only the latest is kept on the way, and sends intents, in order.  *)
(*                                                                         *)
(* Time is counted in beats: the preview and the result card last one, a   *)
(* game Limit of them, and a wrong answer costs one.  Which bloom wakes    *)
(* next is a choice.  Titles, colours, contributions and the count of      *)
(* mistakes are left out.  Each kind of game has one place on the floor.   *)
(*                                                                         *)
(* Bounds: the games played, the revisions the presses reach, the intents  *)
(* under way, and the faults: a lost connection, a crash, a failed save.   *)
(***************************************************************************)
EXTENDS Integers, Sequences, FiniteSets

CONSTANTS Kinds, Goal, Limit, MaxGames, MaxRevision, MaxUnderWay, MaxFaults

ASSUME Sizes == Goal \in Nat \ {0} /\ Limit \in Nat \ {0}

VARIABLES
    party,    \* who plays: {"p1"} or {"p1", "p2"}
    game,     \* active_mini_game of the host
    count,    \* _mini_game_instance_counter
    world,    \* what the run keeps: outcomes, boons, choices
    disk,     \* the saved run: a world and a game
    up,       \* the guest's intents under way
    inputs,   \* intent_mini_game_inputs
    actions,  \* intent_actions
    chain,    \* the guest's ordered burst: instance, wire and state revision
    mirror,   \* active_mini_game of the guest
    away,     \* the guest's connection is lost
    over,     \* the partner has left: the shared run is over
    faults,
    log       \* who made each revision of the game, and from which one

vars == <<party, game, count, world, disk, up, inputs, actions, chain,
          mirror, away, over, faults, log>>
guest == <<up, mirror, away, over>>
queues == <<inputs, actions, chain>>

NoGame == [id |-> 0, phase |-> "none"]
NoChain == [instance |-> 0, wire |-> -1, state |-> -1]

Coop == party = {"p1", "p2"}

\* The sequence to repeat is 1, 2, ..; the mate of seal i is seal i + Goal.
Board(kind) == IF kind = "soul" THEN 1..(2 * Goal) ELSE 1..Goal
Mates(a, b) == a - b \in {Goal, 0 - Goal}

-----------------------------------------------------------------------------
(* The game: story/minigames.py *)

Created(kind, id) ==
    [id |-> id, kind |-> kind, phase |-> "ready", required |-> party, ready |-> {},
     rev |-> 0, left |-> 0, score |-> 0, active |-> 1, revealed |-> {}, matched |-> {},
     locked |-> FALSE, outcome |-> "open"]

\* Each change of the revision goes with a line of the log.
By(who, wire) == [who |-> who, wire |-> wire]
State(g, l) == [game |-> g, log |-> l]
Revised(g, l, line) == State([g EXCEPT !.rev = @ + 1], Append(l, line))

Finished(S, won) ==
    IF S.game.outcome # "open" THEN S
    ELSE Revised([S.game EXCEPT !.outcome = IF won THEN "won" ELSE "lost",
                                !.phase = "result", !.active = 0, !.locked = FALSE],
                 S.log, By("end", 0))

Confirms(g, player) ==
    g.phase = "ready" /\ g.outcome = "open" /\ player \in g.required \ g.ready

Confirmed(S, player) ==
    LET g == [S.game EXCEPT !.ready = @ \cup {player}]
    IN  IF ~ Confirms(S.game, player) THEN S
        ELSE Revised([g EXCEPT !.phase = IF g.required \subseteq g.ready
                                           THEN "preview" ELSE "ready"],
                     S.log, By(player, 0))

\* Story and garden: the one cell that is right, or the wrong one at a price.
Scored(g) == [g EXCEPT !.score = @ + 1]
Spent(g) == [g EXCEPT !.left = IF @ = 0 THEN 0 ELSE @ - 1]
Right(g) == IF g.kind = "story" THEN g.score + 1 ELSE g.active

\* Soul: two seals at a time, and a mismatch locks the board for a beat.
Turns(g, cell) == ~ g.locked /\ cell \notin g.matched \cup g.revealed
Turned(g, cell) ==
    CASE g.revealed = {} -> [g EXCEPT !.revealed = {cell}]
      [] \E first \in g.revealed : Mates(first, cell) ->
           [Scored(g) EXCEPT !.matched = @ \cup g.revealed \cup {cell}, !.revealed = {}]
      [] OTHER -> [g EXCEPT !.revealed = @ \cup {cell}, !.locked = TRUE]

Accepts(g, cell, expected) ==
    /\ g.phase = "play" /\ g.outcome = "open" /\ expected = g.rev
    /\ cell \in Board(g.kind)
    /\ g.kind = "soul" => Turns(g, cell)

\* A press that has been accepted; `next` is the bloom that wakes if it hits.
Pressed(S, cell, line, next) ==
    LET g == S.game
        h == CASE g.kind = "soul" -> Turned(g, cell)
               [] g.kind # "soul" /\ cell = Right(g) -> [Scored(g) EXCEPT !.active = next]
               [] OTHER -> Spent(g)
        P == Revised(h, S.log, line)
    IN  IF h.score >= Goal THEN Finished(P, TRUE) ELSE P

\* One beat of the authoritative clock.  `wake` is the bloom that replaces one
\* that has folded, or 0.
Aged(S, wake) ==
    LET g == S.game
    IN  CASE g.kind = "garden" /\ wake # 0 ->
               Revised([Spent(g) EXCEPT !.active = wake], S.log, By("clock", 0))
          [] g.kind = "soul" /\ g.locked ->
               Revised([Spent(g) EXCEPT !.locked = FALSE, !.revealed = {}], S.log, By("clock", 0))
          [] OTHER -> State(Spent(g), S.log)

OutOnTheStroke(g, h) == g.left = 1
TimeIsUp(g, h) == h.left = 0

Beat(S, wake) ==
    LET g == S.game
        T == Aged(S, wake)
    IN  CASE g.phase = "preview" ->
               Revised([g EXCEPT !.phase = "play", !.left = Limit], S.log, By("clock", 0))
          [] g.phase = "play" ->
               IF TimeIsUp(g, T.game) THEN Finished(T, T.game.score >= Goal) ELSE T
          [] OTHER -> S

\* MiniGameState.from_dict: what a saved or received game becomes.
Ingested(g) ==
    IF g = NoGame \/ (g.phase = "result") # (g.outcome # "open") THEN NoGame
    ELSE CASE g.phase # "ready" -> [g EXCEPT !.ready = g.required]
           [] g.phase = "ready" /\ g.required \subseteq g.ready -> [g EXCEPT !.phase = "preview"]
           [] OTHER -> g

-----------------------------------------------------------------------------
(* The run: story/runtime.py *)

\* save_run, refused in a shared run; it may fail, and is then tried again.
Saves(w, g) ==
    \/ ~ Coop /\ disk' = [world |-> w, game |-> g] /\ UNCHANGED faults
    \/ ~ Coop /\ faults < MaxFaults /\ faults' = faults + 1 /\ UNCHANGED disk
    \/ Coop /\ UNCHANGED <<disk, faults>>

Starts(kind) ==
    /\ game = NoGame
    /\ count < MaxGames
    /\ game' = Created(kind, count + 1)
    /\ count' = count + 1
    /\ log' = <<>>
    /\ Saves(world, game')

Playing == ~ over

\* choose_story_relic_path: the page must be bound before the path is taken.
ChoosePath ==
    /\ Playing /\ "story" \in Kinds /\ ~ world.path
    /\ IF world.done["story"] = "open"
         THEN Starts("story") /\ UNCHANGED world
         ELSE /\ game = NoGame
              /\ world' = [world EXCEPT !.path = TRUE]
              /\ Saves(world', game)
              /\ UNCHANGED <<game, count, log>>
    /\ UNCHANGED <<party, guest, queues>>

\* talk_to_garden_frog, for the host.
TalkToFrog ==
    /\ Playing /\ "garden" \in Kinds /\ world.done["garden"] = "open"
    /\ Starts("garden")
    /\ UNCHANGED <<party, world, guest, queues>>

\* talk_to_lossless_soul and resolve_lossless_soul_choice.
FaceSoul ==
    /\ Playing /\ "soul" \in Kinds /\ ~ world.soul
    /\ IF world.done["soul"] = "open"
         THEN Starts("soul") /\ UNCHANGED world
         ELSE /\ game = NoGame
              /\ world' = [world EXCEPT !.soul = TRUE]
              /\ Saves(world', game)
              /\ UNCHANGED <<game, count, log>>
    /\ UNCHANGED <<party, guest, queues>>

Becomes(S) == game' = S.game /\ log' = S.log

ConfirmReady ==
    /\ Playing /\ game # NoGame /\ Confirms(game, "p1")
    /\ Becomes(Confirmed(State(game, log), "p1"))
    /\ Saves(world, game')
    /\ UNCHANGED <<party, count, world, guest, queues>>

Press(cell, next) ==
    /\ Playing /\ game # NoGame /\ game.rev < MaxRevision
    /\ Accepts(game, cell, game.rev)
    /\ Becomes(Pressed(State(game, log), cell, By("p1", game.rev), next))
    /\ UNCHANGED <<party, count, world, disk, guest, queues, faults>>

\* finalize_active_mini_game: mark the outcome, close the game, grant the boon
\* once, go on with the story, save.
Marked(w, g) == IF w.done[g.kind] = "open" THEN [w EXCEPT !.done[g.kind] = g.outcome] ELSE w
Granted(w, g) ==
    IF w.done[g.kind] = "open" /\ g.outcome = "won"
      THEN [Marked(w, g) EXCEPT !.boons[g.kind] = @ + 1] ELSE Marked(w, g)
Continued(w, g) == IF g.kind = "story" THEN [w EXCEPT !.path = TRUE] ELSE w

SavesBeforeClosing == Saves(Marked(world, game), game)
SavesAfterClosing == Saves(world', NoGame)

Finalize ==
    /\ world' = Continued(Granted(world, game), game)
    /\ game' = NoGame
    /\ SavesAfterClosing

-----------------------------------------------------------------------------
(* A frame of the host: Game.update and mp_apply_remote_intents *)

\* A guest's press: its revision must be the current one, or continue a burst
\* that nobody else has interrupted.
ChainedByWire(c, g, m) ==
    /\ g.kind \in {"story", "soul"}
    /\ c.instance = m.id /\ c.wire = m.rev

Chained(c, g, m) ==
    /\ g.kind \in {"story", "soul"}
    /\ c.instance = m.id /\ c.wire = m.rev /\ c.state = g.rev

Addressed(g, m, c) == m.id = g.id /\ (m.rev = g.rev \/ Chained(c, g, m))

AppliedPress(A, m, next) ==
    LET P == Pressed(State(A.game, A.log), m.cell, By("p2", m.rev), next)
    IN  IF ~ Addressed(A.game, m, A.chain) THEN A
        ELSE IF ~ Accepts(A.game, m.cell, A.game.rev) THEN [A EXCEPT !.chain = NoChain]
        ELSE [game |-> P.game, log |-> P.log,
              chain |-> [instance |-> m.id, wire |-> m.rev, state |-> P.game.rev]]

AppliedReady(A, m) ==
    LET R == IF m.id = A.game.id THEN Confirmed(State(A.game, A.log), "p2")
                                 ELSE State(A.game, A.log)
    IN  [game |-> R.game, log |-> R.log, chain |-> NoChain]

AppliedOne(A, m, next) ==
    IF m.t = "ready" THEN AppliedReady(A, m) ELSE AppliedPress(A, m, next)

\* The intents that wait, one after the other.
Applied(next) ==
    LET after[i \in 0..Len(inputs)] ==
            IF i = 0 THEN [game |-> game, log |-> log, chain |-> chain]
            ELSE AppliedOne(after[i - 1], inputs[i], next)
    IN  after[Len(inputs)]

\* What a frame of a game leaves of the guest's world actions.
NeutralisedNothing == actions
Neutralised == <<>>

\* The guest's intents first, then the clock, then the end of the result card.
FrameInGame(beats, next, wake) ==
    /\ Playing /\ game # NoGame
    /\ inputs # <<>> \/ actions # <<>> \/ beats = 1
    /\ inputs' = <<>> /\ actions' = Neutralised
    /\ \E A \in {Applied(next)} :
         /\ chain' = A.chain
         /\ IF game.phase = "result" /\ beats = 1
              THEN Finalize /\ log' = <<>>
              ELSE /\ \E S \in {IF beats = 1 THEN Beat(A, wake) ELSE A} : Becomes(S)
                   /\ UNCHANGED <<world, disk, faults>>
    /\ UNCHANGED <<party, count, guest>>

\* The guest's actor may hail the frog: the actions behind it in the queue are
\* still carried out.
FrameInWorld ==
    /\ Playing /\ game = NoGame
    /\ inputs # <<>> \/ actions # <<>> \/ chain # NoChain
    /\ inputs' = <<>> /\ actions' = <<>> /\ chain' = NoChain
    /\ IF /\ \E i \in DOMAIN actions : actions[i].t = "talk"
          /\ "garden" \in Kinds /\ world.done["garden"] = "open" /\ count < MaxGames
         THEN Starts("garden")
         ELSE UNCHANGED <<game, count, log, disk, faults>>
    /\ UNCHANGED <<party, world, guest>>

-----------------------------------------------------------------------------
(* The guest: net/mixin.py *)

\* How many games have been closed: what a world action of the guest was
\* sampled against.
Closed == count - (IF game = NoGame THEN 0 ELSE 1)

Sends(m) ==
    /\ Coop /\ Playing /\ ~ away
    /\ Len(up) + Len(inputs) < MaxUnderWay
    /\ up' = Append(up, m)
    /\ UNCHANGED <<party, game, count, world, disk, queues, mirror, away, over, faults, log>>

GuestActs ==
    /\ mirror = NoGame /\ actions = <<>>
    /\ \E t \in {"strike", "talk"} : Sends([t |-> t, at |-> Closed])
GuestReady ==
    /\ mirror.phase = "ready" /\ "p2" \notin mirror.ready
    /\ Sends([t |-> "ready", id |-> mirror.id])
GuestPresses ==
    /\ mirror.phase = "play" /\ Len(log) < MaxRevision
    /\ \E cell \in Board(mirror.kind) :
         Sends([t |-> "press", id |-> mirror.id, rev |-> mirror.rev, cell |-> cell])

\* _mp_on_intent: what the guest did before it saw the game is dropped.
OnIntent ==
    /\ Playing /\ up # <<>>
    /\ up' = Tail(up)
    /\ \/ /\ Head(up).t \in {"press", "ready"}
          /\ inputs' = Append(inputs, Head(up)) /\ UNCHANGED actions
       \/ /\ Head(up).t \in {"strike", "talk"}
          /\ actions' = IF game # NoGame THEN <<>> ELSE Append(actions, Head(up))
          /\ UNCHANGED inputs
    /\ UNCHANGED <<party, game, count, world, disk, chain, mirror, away, over, faults, log>>

\* build_snapshot_state and apply_snapshot_state.  Only the latest snapshot is
\* kept on the way, so it is read here as it is built: a slow network is a
\* guest that goes on without one.  Clocks are left out.
SeenIfOn == IF game = NoGame THEN mirror ELSE Ingested([game EXCEPT !.left = 0])
Seen == IF game = NoGame THEN NoGame ELSE Ingested([game EXCEPT !.left = 0])

Snapshot ==
    /\ Coop /\ Playing /\ ~ away
    /\ mirror' = Seen
    /\ UNCHANGED <<party, game, count, world, disk, up, queues, away, over, faults, log>>

Fault == faults < MaxFaults /\ faults' = faults + 1

\* Some of what is under way still arrives.
Cut ==
    /\ Coop /\ Playing /\ ~ away /\ Fault
    /\ away' = TRUE
    /\ \E n \in 0..Len(up) : up' = SubSeq(up, 1, n)
    /\ UNCHANGED <<party, game, count, world, disk, queues, mirror, over, log>>

\* The floor comes first and clears the guest's copy.
Rejoin ==
    /\ away /\ Playing
    /\ away' = FALSE
    /\ mirror' = NoGame
    /\ UNCHANGED <<party, game, count, world, disk, up, queues, over, faults, log>>

\* The grace of the guest's seat ends, or it says goodbye: the host's run is
\* over, and what was under way goes with the session.
PartnerLeaves ==
    /\ Coop /\ Playing
    /\ over' = TRUE
    /\ game' = NoGame /\ mirror' = NoGame /\ log' = <<>> /\ away' = FALSE
    /\ up' = <<>> /\ inputs' = <<>> /\ actions' = <<>> /\ chain' = NoChain
    /\ UNCHANGED <<party, count, world, disk, faults>>

-----------------------------------------------------------------------------
(* Saving and resuming a solo run *)

\* A checkpoint, a suspension or the exit confirmation.
Checkpoint ==
    /\ ~ Coop /\ Playing
    /\ Saves(world, game)
    /\ UNCHANGED <<party, game, count, world, guest, queues, log>>

\* restore_run_state: the game is read again as it was saved, and the counter
\* follows it.
CrashAndResume ==
    /\ ~ Coop /\ Fault
    /\ world' = disk.world
    /\ game' = Ingested(disk.game)
    /\ count' = disk.game.id
    /\ log' = [r \in 1..(IF disk.game = NoGame THEN 0 ELSE disk.game.rev) |-> By("disk", 0)]
    /\ UNCHANGED <<party, disk, guest, queues>>

-----------------------------------------------------------------------------

Fresh == [done |-> [k \in Kinds |-> "open"], boons |-> [k \in Kinds |-> 0],
          path |-> FALSE, soul |-> FALSE]

Init ==
    /\ party \in {{"p1"}, {"p1", "p2"}}
    /\ game = NoGame /\ count = 0 /\ log = <<>>
    /\ world = Fresh
    /\ disk = [world |-> Fresh, game |-> NoGame]
    /\ up = <<>> /\ inputs = <<>> /\ actions = <<>> /\ chain = NoChain
    /\ mirror = NoGame
    /\ away = FALSE /\ over = FALSE /\ faults = 0

\* The blooms that may wake next, if this is the garden.
Wakes == IF game # NoGame /\ game.kind = "garden" THEN Board("garden") \ {game.active} ELSE {0}

FrameWith(beats) == \E next \in Wakes, wake \in Wakes \cup {0} : FrameInGame(beats, next, wake)

Next ==
    \/ ChoosePath \/ TalkToFrog \/ FaceSoul \/ ConfirmReady
    \/ \E cell \in 1..(2 * Goal), next \in Wakes : Press(cell, next)
    \/ FrameInWorld \/ \E beats \in 0..1 : FrameWith(beats)
    \/ GuestActs \/ GuestReady \/ GuestPresses
    \/ OnIntent \/ Snapshot
    \/ Cut \/ Rejoin \/ PartnerLeaves
    \/ Checkpoint \/ CrashAndResume

Spec == Init /\ [][Next]_vars

\* The frames go on, the host's clock and the network with them; both players
\* confirm a game that waits for them; a lost guest comes back or its grace
\* ends.  Nobody has to answer right, or at all.
Fairness ==
    /\ WF_vars(FrameInWorld)
    /\ WF_vars(FrameWith(1))
    /\ WF_vars(ConfirmReady) /\ WF_vars(GuestReady)
    /\ WF_vars(OnIntent) /\ WF_vars(Snapshot)
    /\ WF_vars(away /\ (Rejoin \/ PartnerLeaves))

FairSpec == Spec /\ Fairness

-----------------------------------------------------------------------------
(* What must hold *)

\* A press of the guest is judged against the board the guest saw, or against
\* what its own presses have made of it since: no press of the host, no bloom
\* that folded and no unlocked seal lies in between, and for the garden
\* nothing at all (mixin.py:1315-1349).
PressIsFresh ==
    game # NoGame =>
        \A r \in DOMAIN log : log[r].who = "p2" /\ log[r].wire > 0 =>
            /\ \A q \in log[r].wire + 1..r - 1 : log[q] = log[r]
            /\ game.kind = "garden" => log[r].wire = r - 1

\* In memory and on disk alike, a boon is granted for a won game, once, and a
\* game that is on has no outcome yet: neither a crash nor a repeated
\* finalisation doubles or swallows it (runtime.py:418-473).
Rewarded ==
    \A run \in {[world |-> world, game |-> game], disk} :
        /\ \A k \in Kinds :
             run.world.boons[k] = (IF run.world.done[k] = "won" THEN 1 ELSE 0)
        /\ run.game # NoGame => run.world.done[run.game.kind] = "open"

\* What the guest did in the dungeon before it saw a game does not happen when
\* the game is over (mixin.py:1253-1257), as long as its connection holds.
NothingLeaks ==
    [][faults = 0 /\ ~ over' /\ game = NoGame /\ actions' = <<>> =>
         \A i \in DOMAIN actions : actions[i].at = Closed]_vars

\* A game that is on comes to its end: no lost confirmation, absent guest or
\* restored save keeps the dungeon paused for good.
GameEnds == game # NoGame ~> game = NoGame \/ over

\* The guest's screen leaves a game that the host has closed.
GuestReleased == game = NoGame ~> mirror = NoGame \/ game # NoGame \/ over

=============================================================================
