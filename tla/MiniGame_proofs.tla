-------------------------- MODULE MiniGame_proofs --------------------------
(***************************************************************************)
(* MiniGame for every set of kinds, every size of the boards and any       *)
(* faults: a press of the guest is fresh, a boon is granted once, and what *)
(* the guest did before a game does not happen after it.                   *)
(*                                                                         *)
(* Why a press is fresh: the host accepts it at the revision the guest saw *)
(* or where the guest's own burst has come to since, and all the lines of  *)
(* the log in between are the burst's (Bursting).  A press that waits for  *)
(* a frame is applied behind others, so that what holds of the game is     *)
(* shown to hold after each intent of the queue (AppliedKeeps).            *)
(***************************************************************************)
EXTENDS MiniGame, WellFoundedInduction, TLAPS

-----------------------------------------------------------------------------
(* The types *)

Players == {"p1", "p2"}
Results == {"open", "won", "lost"}

Games ==
  [id: Nat \ {0}, kind: Kinds, phase: {"ready", "preview", "play", "result"},
   required: SUBSET Players, ready: SUBSET Players, rev: Nat, left: Nat, score: Nat,
   active: Nat, revealed: SUBSET Nat, matched: SUBSET Nat, locked: BOOLEAN,
   outcome: Results]

GamesOrNone == Games \cup {NoGame}

Lines == [who: Players \cup {"clock", "end", "disk"}, wire: Nat]

Presses == [t: {"press"}, id: Nat, rev: Nat, cell: Nat]
Answers == Presses \cup [t: {"ready"}, id: Nat]
Deeds == [t: {"strike", "talk"}, at: Int]

Chains == [instance: Nat, wire: Int, state: Int]

Worlds == [done: [Kinds -> Results], boons: [Kinds -> Nat], path: BOOLEAN, soul: BOOLEAN]

TypeOK ==
  /\ party \in {{"p1"}, {"p1", "p2"}}
  /\ game \in GamesOrNone /\ mirror \in GamesOrNone
  /\ count \in Nat /\ faults \in Nat
  /\ world \in Worlds /\ disk \in [world: Worlds, game: GamesOrNone]
  /\ up \in Seq(Answers \cup Deeds) /\ inputs \in Seq(Answers) /\ actions \in Seq(Deeds)
  /\ chain \in Chains /\ log \in Seq(Lines)
  /\ away \in BOOLEAN /\ over \in BOOLEAN

-----------------------------------------------------------------------------
(* The invariant *)

\* Who plays alone sends and receives nothing.
Alone == ~ Coop => up = <<>> /\ inputs = <<>> /\ chain = NoChain

\* PressIsFresh of one game and its log.
FreshIn(g, l) ==
  \A r \in DOMAIN l : l[r].who = "p2" /\ l[r].wire > 0 =>
    /\ \A q \in l[r].wire + 1..r - 1 : l[q] = l[r]
    /\ g.kind = "garden" => l[r].wire = r - 1

\* A game with its log: a line for every revision.
Sound(S) ==
  /\ S.game \in Games /\ S.log \in Seq(Lines) /\ Len(S.log) = S.game.rev
  /\ FreshIn(S.game, S.log)

\* All that happened in the game from where the burst began to where it has come
\* to is the burst's.
Bursting(S, c) ==
  c.instance = S.game.id /\ S.game.phase # "result" =>
    /\ c.wire >= 0 /\ c.state <= S.game.rev
    /\ \A q \in c.wire + 1..c.state : S.log[q] = By("p2", c.wire)

\* Instances are numbered in the order they begin.
Numbered ==
  /\ chain.instance <= count
  /\ game # NoGame => game.id <= count

Current == State(game, log)

Logged == game # NoGame => Sound(Current) /\ Bursting(Current, chain)

\* Rewarded of one run.
RewardedIn(w, g) ==
  /\ \A k \in Kinds : w.boons[k] = (IF w.done[k] = "won" THEN 1 ELSE 0)
  /\ g # NoGame => w.done[g.kind] = "open"

Paid == RewardedIn(world, game) /\ RewardedIn(disk.world, disk.game)

IInv == TypeOK /\ Alone /\ Numbered /\ Logged /\ Paid

-----------------------------------------------------------------------------
(* The parts of a game *)

LEMMA GameFields ==
  ASSUME NEW g \in Games
  PROVE  /\ g.id \in Nat /\ g.id # 0 /\ g.kind \in Kinds
         /\ g.phase \in {"ready", "preview", "play", "result"}
         /\ g.required \in SUBSET Players /\ g.ready \in SUBSET Players
         /\ g.rev \in Nat /\ g.left \in Nat /\ g.score \in Nat /\ g.active \in Nat
         /\ g.revealed \in SUBSET Nat /\ g.matched \in SUBSET Nat
         /\ g.locked \in BOOLEAN /\ g.outcome \in Results
BY DEF Games

LEMMA NoGameFacts == NoGame \notin Games /\ NoGame.id = 0 /\ NoGame.phase = "none"
BY DEF NoGame, Games

LEMMA CreatedFacts ==
  ASSUME NEW kind \in Kinds, NEW id \in Nat \ {0}, party \in SUBSET Players
  PROVE  /\ Created(kind, id) \in Games /\ Created(kind, id).id = id
         /\ Created(kind, id).kind = kind /\ Created(kind, id).rev = 0
         /\ Created(kind, id).phase = "ready"
BY DEF Created, Games, Results

\* A step of a game keeps who it is, and adds one line.
LEMMA RevisedFacts ==
  ASSUME NEW g \in Games, NEW l, NEW line
  PROVE  /\ Revised(g, l, line).game \in Games
         /\ Revised(g, l, line).game.id = g.id /\ Revised(g, l, line).game.kind = g.kind
         /\ Revised(g, l, line).game.rev = g.rev + 1
         /\ Revised(g, l, line).game.phase = g.phase
         /\ Revised(g, l, line).game.outcome = g.outcome
         /\ Revised(g, l, line).log = Append(l, line)
BY DEF Revised, State, Games

LEMMA SpentFacts ==
  ASSUME NEW g \in Games
  PROVE  /\ Spent(g) \in Games /\ Spent(g).id = g.id /\ Spent(g).kind = g.kind
         /\ Spent(g).rev = g.rev /\ Spent(g).phase = g.phase /\ Spent(g).outcome = g.outcome
         /\ Spent(g).score = g.score
BY DEF Spent, Games

LEMMA ScoredFacts ==
  ASSUME NEW g \in Games
  PROVE  /\ Scored(g) \in Games /\ Scored(g).id = g.id /\ Scored(g).kind = g.kind
         /\ Scored(g).rev = g.rev /\ Scored(g).phase = g.phase /\ Scored(g).outcome = g.outcome
BY DEF Scored, Games

LEMMA TurnedFacts ==
  ASSUME NEW g \in Games, NEW cell \in Nat
  PROVE  /\ Turned(g, cell) \in Games /\ Turned(g, cell).id = g.id
         /\ Turned(g, cell).kind = g.kind /\ Turned(g, cell).rev = g.rev
         /\ Turned(g, cell).phase = g.phase /\ Turned(g, cell).outcome = g.outcome
<1>1. CASE g.revealed = {}
  BY <1>1 DEF Turned, Games
<1>2. CASE g.revealed # {} /\ \E first \in g.revealed : Mates(first, cell)
  <2> DEFINE s == Scored(g)
             h == [s EXCEPT !.matched = @ \cup g.revealed \cup {cell}, !.revealed = {}]
  <2>1. Turned(g, cell) = h
    BY <1>2 DEF Turned
  <2>2. s \in Games /\ s.id = g.id /\ s.kind = g.kind /\ s.rev = g.rev /\ s.phase = g.phase
        /\ s.outcome = g.outcome
    BY ScoredFacts
  <2>3. g.revealed \in SUBSET Nat
    BY GameFields
  <2> HIDE DEF s
  <2>4. h \in Games /\ h.id = s.id /\ h.kind = s.kind /\ h.rev = s.rev /\ h.phase = s.phase
        /\ h.outcome = s.outcome
    BY <2>2, <2>3 DEF Games
  <2> QED
    BY <2>1, <2>2, <2>4
<1>3. CASE g.revealed # {} /\ ~ \E first \in g.revealed : Mates(first, cell)
  <2> DEFINE h == [g EXCEPT !.revealed = @ \cup {cell}, !.locked = TRUE]
  <2>1. Turned(g, cell) = h
    BY <1>3 DEF Turned
  <2>2. h \in Games /\ h.id = g.id /\ h.kind = g.kind /\ h.rev = g.rev /\ h.phase = g.phase
        /\ h.outcome = g.outcome
    BY DEF Games
  <2> QED
    BY <2>1, <2>2
<1> QED
  BY <1>1, <1>2, <1>3

\* What is read again is the same game, or none.
LEMMA IngestedFacts ==
  ASSUME NEW g \in GamesOrNone
  PROVE  /\ Ingested(g) \in GamesOrNone
         /\ Ingested(g) # NoGame =>
              /\ g \in Games /\ Ingested(g) \in Games
              /\ Ingested(g).id = g.id /\ Ingested(g).kind = g.kind /\ Ingested(g).rev = g.rev
<1>1. CASE g = NoGame
  BY <1>1 DEF Ingested, GamesOrNone
<1>2. CASE g \in Games
  <2>1. g # NoGame
    BY <1>2, NoGameFacts
  <2>2. \/ Ingested(g) = NoGame
        \/ Ingested(g) = [g EXCEPT !.ready = g.required]
        \/ Ingested(g) = [g EXCEPT !.phase = "preview"]
        \/ Ingested(g) = g
    BY <2>1 DEF Ingested
  <2>3. /\ [g EXCEPT !.ready = g.required] \in Games
        /\ [g EXCEPT !.ready = g.required].id = g.id
        /\ [g EXCEPT !.ready = g.required].kind = g.kind
        /\ [g EXCEPT !.ready = g.required].rev = g.rev
    BY <1>2 DEF Games
  <2>4. /\ [g EXCEPT !.phase = "preview"] \in Games
        /\ [g EXCEPT !.phase = "preview"].id = g.id
        /\ [g EXCEPT !.phase = "preview"].kind = g.kind
        /\ [g EXCEPT !.phase = "preview"].rev = g.rev
    BY <1>2 DEF Games
  <2> QED
    BY <1>2, <2>2, <2>3, <2>4 DEF GamesOrNone
<1> QED
  BY <1>1, <1>2 DEF GamesOrNone

-----------------------------------------------------------------------------
(* What every step of a game does to its log *)

\* T comes of S: the same game, its log continued.
Follows(S, T) ==
  /\ Sound(T)
  /\ T.game.id = S.game.id /\ T.game.kind = S.game.kind
  /\ Len(S.log) <= Len(T.log) /\ \A q \in 1..Len(S.log) : T.log[q] = S.log[q]
  /\ T.game.phase # "result" => S.game.phase # "result"

LEMMA FollowsSelf ==
  ASSUME NEW S, Sound(S)
  PROVE  Follows(S, S)
BY DEF Follows, Sound

LEMMA FollowsOn ==
  ASSUME NEW S, NEW T, NEW U, Sound(S), Follows(S, T), Follows(T, U)
  PROVE  Follows(S, U)
<1>1. Len(S.log) \in Nat /\ Len(T.log) \in Nat /\ Len(U.log) \in Nat
  BY DEF Follows, Sound
<1>2. \A q \in 1..Len(S.log) : q \in 1..Len(T.log)
  BY <1>1 DEF Follows
<1> QED
  BY <1>1, <1>2 DEF Follows

\* A burst stays what it is.
LEMMA FollowsBursting ==
  ASSUME NEW S, NEW T, NEW c \in Chains, Sound(S), Follows(S, T), Bursting(S, c)
  PROVE  Bursting(T, c)
<1> SUFFICES ASSUME c.instance = T.game.id, T.game.phase # "result"
             PROVE  /\ c.wire >= 0 /\ c.state <= T.game.rev
                    /\ \A q \in c.wire + 1..c.state : T.log[q] = By("p2", c.wire)
  BY DEF Bursting
<1>1. /\ c.wire >= 0 /\ c.state <= S.game.rev
      /\ \A q \in c.wire + 1..c.state : S.log[q] = By("p2", c.wire)
  BY DEF Bursting, Follows
<1>2. c.state \in Int /\ c.wire \in Int
  BY DEF Chains
<1>3. S.game.rev \in Nat /\ T.game.rev \in Nat
      /\ Len(S.log) = S.game.rev /\ Len(T.log) = T.game.rev /\ Len(S.log) <= Len(T.log)
      /\ \A q \in 1..Len(S.log) : T.log[q] = S.log[q]
  BY GameFields DEF Follows, Sound
<1>4. \A q \in c.wire + 1..c.state : q \in 1..Len(S.log)
  BY <1>1, <1>2, <1>3
<1> QED
  BY <1>1, <1>2, <1>3, <1>4

\* No line of the guest's presses.
Plain(line) == line \in Lines /\ (line.who # "p2" \/ line.wire = 0)

LEMMA PlainLines ==
  /\ Plain(By("end", 0)) /\ Plain(By("clock", 0)) /\ \A p \in Players : Plain(By(p, 0))
  /\ \A r \in Nat : Plain(By("p1", r))
BY DEF Plain, By, Lines, Players

LEMMA AppendFacts ==
  ASSUME NEW l \in Seq(Lines), NEW line \in Lines
  PROVE  /\ Append(l, line) \in Seq(Lines) /\ Len(Append(l, line)) = Len(l) + 1
         /\ DOMAIN Append(l, line) = 1..Len(l) + 1
         /\ \A q \in 1..Len(l) : Append(l, line)[q] = l[q]
         /\ Append(l, line)[Len(l) + 1] = line
OBVIOUS

\* A line more: fresh, if what it continues is its own.
LEMMA LineAdded ==
  ASSUME NEW S, Sound(S), NEW h \in Games, NEW line \in Lines,
         h.id = S.game.id, h.kind = S.game.kind, h.rev = S.game.rev,
         h.phase # "result" => S.game.phase # "result",
         line.who = "p2" /\ line.wire > 0 =>
           /\ \A q \in line.wire + 1..S.game.rev : S.log[q] = line
           /\ S.game.kind = "garden" => line.wire = S.game.rev
  PROVE  Follows(S, Revised(h, S.log, line))
<1> DEFINE l == S.log
           T == Revised(h, l, line)
           m == Append(l, line)
<1>1. l \in Seq(Lines) /\ Len(l) = S.game.rev /\ S.game.rev \in Nat
  BY GameFields DEF Sound
<1>2. /\ T.game \in Games /\ T.game.id = S.game.id /\ T.game.kind = S.game.kind
      /\ T.game.rev = S.game.rev + 1 /\ T.log = m
      /\ T.game.phase # "result" => S.game.phase # "result"
  BY RevisedFacts
<1>3. /\ m \in Seq(Lines) /\ Len(m) = Len(l) + 1
      /\ DOMAIN m = 1..Len(l) + 1
      /\ \A q \in 1..Len(l) : m[q] = l[q]
      /\ m[Len(l) + 1] = line
  BY <1>1, AppendFacts
<1>4. \A q \in DOMAIN l : l[q].wire \in Nat
  <2> SUFFICES ASSUME NEW q \in DOMAIN l PROVE l[q].wire \in Nat
    OBVIOUS
  <2>1. l[q] \in Lines
    BY <1>1
  <2> QED
    BY <2>1 DEF Lines
<1>5. line.wire \in Nat
  BY DEF Lines
<1>6. DOMAIN l = 1..Len(l)
  BY <1>1
<1> HIDE DEF l, m, T
<1>7. FreshIn(T.game, m)
  <2> SUFFICES ASSUME NEW r \in 1..Len(l) + 1, m[r].who = "p2", m[r].wire > 0
               PROVE  /\ \A q \in m[r].wire + 1..r - 1 : m[q] = m[r]
                      /\ S.game.kind = "garden" => m[r].wire = r - 1
    BY <1>2, <1>3 DEF FreshIn
  <2>1. CASE r \in 1..Len(l)
    <3>1. m[r] = l[r] /\ r \in DOMAIN l /\ l[r].wire \in Nat
      BY <1>3, <1>4, <1>6, <2>1
    <3>2. /\ \A q \in l[r].wire + 1..r - 1 : l[q] = l[r]
          /\ S.game.kind = "garden" => l[r].wire = r - 1
      BY <3>1 DEF Sound, FreshIn, l
    <3>3. \A q \in l[r].wire + 1..r - 1 : m[q] = l[q]
      BY SMTT(30), <1>1, <1>3, <2>1, <3>1
    <3> QED
      BY <3>1, <3>2, <3>3
  <2>2. CASE r = Len(l) + 1
    <3>1. m[r] = line /\ r - 1 = S.game.rev
      BY <1>1, <1>3, <2>2
    <3>2. /\ \A q \in line.wire + 1..S.game.rev : l[q] = line
          /\ S.game.kind = "garden" => line.wire = S.game.rev
      BY <3>1 DEF l
    <3>3. \A q \in line.wire + 1..S.game.rev : m[q] = l[q]
      BY <1>1, <1>3, <1>5
    <3> QED
      BY <3>1, <3>2, <3>3
  <2> QED
    BY <1>1, <2>1, <2>2
<1>8. Sound(T)
  BY <1>1, <1>2, <1>3, <1>7 DEF Sound
<1> QED
  BY <1>1, <1>2, <1>3, <1>8 DEF Follows, l, T

LEMMA PlainAdded ==
  ASSUME NEW S, Sound(S), NEW h \in Games, NEW line, Plain(line),
         h.id = S.game.id, h.kind = S.game.kind, h.rev = S.game.rev,
         h.phase # "result" => S.game.phase # "result"
  PROVE  Follows(S, Revised(h, S.log, line))
<1>1. line \in Lines /\ ~ (line.who = "p2" /\ line.wire > 0)
  BY DEF Plain, Lines
<1> QED
  BY <1>1, LineAdded

-----------------------------------------------------------------------------
(* The steps of a game *)

LEMMA FinishedFollows ==
  ASSUME NEW S, Sound(S), NEW won \in BOOLEAN
  PROVE  Follows(S, Finished(S, won))
<1>1. CASE S.game.outcome # "open"
  BY <1>1, FollowsSelf DEF Finished
<1>2. CASE S.game.outcome = "open"
  <2> DEFINE h == [S.game EXCEPT !.outcome = IF won THEN "won" ELSE "lost",
                                 !.phase = "result", !.active = 0, !.locked = FALSE]
  <2>1. Finished(S, won) = Revised(h, S.log, By("end", 0))
    BY <1>2 DEF Finished
  <2>2. S.game \in Games
    BY DEF Sound
  <2>3. h \in Games /\ h.id = S.game.id /\ h.kind = S.game.kind /\ h.rev = S.game.rev
        /\ h.phase = "result"
    BY <2>2 DEF Games, Results
  <2> HIDE DEF h
  <2> QED
    BY <2>1, <2>3, PlainAdded, PlainLines
<1> QED
  BY <1>1, <1>2

LEMMA ConfirmedFollows ==
  ASSUME NEW S, Sound(S), NEW player \in Players
  PROVE  Follows(S, Confirmed(S, player))
<1>1. CASE ~ Confirms(S.game, player)
  BY <1>1, FollowsSelf DEF Confirmed
<1>2. CASE Confirms(S.game, player)
  <2> DEFINE g == [S.game EXCEPT !.ready = @ \cup {player}]
             h == [g EXCEPT !.phase = IF g.required \subseteq g.ready THEN "preview" ELSE "ready"]
  <2>1. Confirmed(S, player) = Revised(h, S.log, By(player, 0))
    BY <1>2 DEF Confirmed
  <2>2. S.game \in Games /\ S.game.phase = "ready"
    BY <1>2 DEF Sound, Confirms
  <2>3. g \in Games /\ g.id = S.game.id /\ g.kind = S.game.kind /\ g.rev = S.game.rev
    BY <2>2 DEF Games
  <2> HIDE DEF g
  <2>4. h \in Games /\ h.id = g.id /\ h.kind = g.kind /\ h.rev = g.rev
    BY <2>3 DEF Games
  <2> HIDE DEF h
  <2> QED
    BY <2>1, <2>2, <2>3, <2>4, PlainAdded, PlainLines
<1> QED
  BY <1>1, <1>2

\* A press adds the line it brings, and the end of the game if it was the last.
LEMMA PressedFollows ==
  ASSUME NEW S, Sound(S), NEW cell \in Nat, NEW next \in Nat, NEW line \in Lines,
         S.game.phase = "play",
         line.who = "p2" /\ line.wire > 0 =>
           /\ \A q \in line.wire + 1..S.game.rev : S.log[q] = line
           /\ S.game.kind = "garden" => line.wire = S.game.rev
  PROVE  LET T == Pressed(S, cell, line, next)
         IN  /\ Follows(S, T) /\ T.log[S.game.rev + 1] = line
             /\ S.game.rev + 1 <= T.game.rev
             /\ T.game.phase # "result" => T.game.rev = S.game.rev + 1
<1> DEFINE g == S.game
           s == Scored(g)
           h == CASE g.kind = "soul" -> Turned(g, cell)
                  [] g.kind # "soul" /\ cell = Right(g) -> [s EXCEPT !.active = next]
                  [] OTHER -> Spent(g)
           P == Revised(h, S.log, line)
           T == Pressed(S, cell, line, next)
<1>1. g \in Games
  BY DEF Sound
<1>2. T = IF h.score >= Goal THEN Finished(P, TRUE) ELSE P
  BY DEF Pressed
<1>3. h \in Games /\ h.id = g.id /\ h.kind = g.kind /\ h.rev = g.rev /\ h.phase = g.phase
  <2>1. CASE g.kind = "soul"
    <3>1. h = Turned(g, cell)
      BY <2>1
    <3> HIDE DEF h
    <3> QED
      BY <1>1, <3>1, TurnedFacts
  <2>2. CASE g.kind # "soul" /\ cell = Right(g)
    <3>1. h = [s EXCEPT !.active = next]
      BY <2>2
    <3>2. s \in Games /\ s.id = g.id /\ s.kind = g.kind /\ s.rev = g.rev /\ s.phase = g.phase
      BY <1>1, ScoredFacts
    <3> HIDE DEF h, s
    <3> QED
      BY <3>1, <3>2 DEF Games
  <2>3. CASE g.kind # "soul" /\ cell # Right(g)
    <3>1. h = Spent(g)
      BY <2>3
    <3> HIDE DEF h
    <3> QED
      BY <1>1, <3>1, SpentFacts
  <2> QED
    BY <2>1, <2>2, <2>3
<1> HIDE DEF h
<1>4. Follows(S, P)
  BY <1>3, LineAdded
<1>5. P.game.rev = g.rev + 1 /\ P.log = Append(S.log, line) /\ P.game.phase = "play"
  BY <1>3, RevisedFacts
<1>6. S.log \in Seq(Lines) /\ Len(S.log) = g.rev /\ g.rev \in Nat
  BY <1>1, GameFields DEF Sound
<1>7. P.log[g.rev + 1] = line /\ Len(P.log) = g.rev + 1
  BY <1>5, <1>6, AppendFacts
<1>8. Sound(P)
  BY <1>4 DEF Follows
<1> HIDE DEF P
<1>9. CASE h.score >= Goal
  <2>1. T = Finished(P, TRUE)
    BY <1>2, <1>9
  <2>2. Follows(P, T)
    BY <1>8, <2>1, FinishedFollows
  <2>3. Follows(S, T)
    BY <1>4, <2>2, FollowsOn
  <2>4. T.log[g.rev + 1] = line
    <3>1. \A q \in 1..Len(P.log) : T.log[q] = P.log[q]
      BY <2>2 DEF Follows
    <3>2. g.rev + 1 \in 1..Len(P.log)
      BY <1>6, <1>7
    <3> HIDE DEF T
    <3> QED
      BY <1>7, <3>1, <3>2
  <2>5. Len(T.log) = T.game.rev /\ T.game.rev \in Nat
    BY <2>2, GameFields DEF Follows, Sound
  <2>6. g.rev + 1 <= T.game.rev
    BY <1>6, <1>7, <2>2, <2>5 DEF Follows
  <2>7. T.game.phase = "result" \/ T = P
    <3>1. P.game \in Games
      BY <1>8 DEF Sound
    <3>2. CASE P.game.outcome # "open"
      BY <2>1, <3>2 DEF Finished
    <3>3. CASE P.game.outcome = "open"
      <4> DEFINE e == [P.game EXCEPT !.outcome = "won",
                                     !.phase = "result", !.active = 0, !.locked = FALSE]
      <4>1. T = Revised(e, P.log, By("end", 0))
        BY <2>1, <3>3 DEF Finished
      <4>2. e \in Games /\ e.phase = "result"
        BY <3>1 DEF Games, Results
      <4> HIDE DEF e
      <4> QED
        BY <4>1, <4>2, RevisedFacts
    <3> QED
      BY <3>2, <3>3
  <2> HIDE DEF T
  <2> QED
    BY <1>5, <2>3, <2>4, <2>6, <2>7 DEF T
<1>10. CASE ~ (h.score >= Goal)
  <2>1. T = P
    BY <1>2, <1>10
  <2> HIDE DEF T
  <2>2. g.rev + 1 <= T.game.rev
    BY <1>5, <1>6, <2>1
  <2> QED
    BY <1>4, <1>5, <1>7, <2>1, <2>2 DEF T
<1> QED
  BY <1>9, <1>10

LEMMA AgedFollows ==
  ASSUME NEW S, Sound(S), NEW wake \in Nat
  PROVE  Follows(S, Aged(S, wake))
<1> DEFINE g == S.game
<1>1. g \in Games
  BY DEF Sound
<1>2. CASE g.kind = "garden" /\ wake # 0
  <2> DEFINE s == Spent(g)
             h == [s EXCEPT !.active = wake]
  <2>1. Aged(S, wake) = Revised(h, S.log, By("clock", 0))
    BY <1>2 DEF Aged
  <2>2. s \in Games /\ s.id = g.id /\ s.kind = g.kind /\ s.rev = g.rev /\ s.phase = g.phase
    BY <1>1, SpentFacts
  <2> HIDE DEF s
  <2>3. h \in Games /\ h.id = s.id /\ h.kind = s.kind /\ h.rev = s.rev /\ h.phase = s.phase
    BY <2>2 DEF Games
  <2> HIDE DEF h
  <2> QED
    BY <2>1, <2>2, <2>3, PlainAdded, PlainLines
<1>3. CASE g.kind = "soul" /\ g.locked
  <2> DEFINE s == Spent(g)
             h == [s EXCEPT !.locked = FALSE, !.revealed = {}]
  <2>1. Aged(S, wake) = Revised(h, S.log, By("clock", 0))
    BY <1>3 DEF Aged
  <2>2. s \in Games /\ s.id = g.id /\ s.kind = g.kind /\ s.rev = g.rev /\ s.phase = g.phase
    BY <1>1, SpentFacts
  <2> HIDE DEF s
  <2>3. h \in Games /\ h.id = s.id /\ h.kind = s.kind /\ h.rev = s.rev /\ h.phase = s.phase
    BY <2>2 DEF Games
  <2> HIDE DEF h
  <2> QED
    BY <2>1, <2>2, <2>3, PlainAdded, PlainLines
<1>4. CASE ~ (g.kind = "garden" /\ wake # 0) /\ ~ (g.kind = "soul" /\ g.locked)
  <2>1. Aged(S, wake) = State(Spent(g), S.log)
    BY <1>4 DEF Aged
  <2>2. /\ Spent(g) \in Games /\ Spent(g).id = g.id /\ Spent(g).kind = g.kind
        /\ Spent(g).rev = g.rev /\ Spent(g).phase = g.phase
    BY <1>1, SpentFacts
  <2>3. State(Spent(g), S.log).game = Spent(g) /\ State(Spent(g), S.log).log = S.log
    BY DEF State
  <2>4. Len(S.log) \in Nat
    BY DEF Sound
  <2>5. FreshIn(Spent(g), S.log)
    BY <2>2 DEF Sound, FreshIn
  <2>6. Sound(State(Spent(g), S.log))
    BY <2>2, <2>3, <2>5 DEF Sound
  <2> QED
    BY <2>1, <2>2, <2>3, <2>4, <2>6 DEF Follows
<1> QED
  BY <1>2, <1>3, <1>4

LEMMA BeatFollows ==
  ASSUME NEW S, Sound(S), NEW wake \in Nat
  PROVE  Follows(S, Beat(S, wake))
<1> DEFINE g == S.game
           A == Aged(S, wake)
<1>1. g \in Games
  BY DEF Sound
<1>2. CASE g.phase = "preview"
  <2> DEFINE h == [g EXCEPT !.phase = "play", !.left = Limit]
  <2>1. Beat(S, wake) = Revised(h, S.log, By("clock", 0))
    BY <1>2 DEF Beat
  <2>2. h \in Games /\ h.id = g.id /\ h.kind = g.kind /\ h.rev = g.rev
    BY <1>1, Sizes DEF Games
  <2> HIDE DEF h
  <2> QED
    BY <1>2, <2>1, <2>2, PlainAdded, PlainLines
<1>3. CASE g.phase = "play"
  <2>1. Follows(S, A)
    BY AgedFollows
  <2>2. Beat(S, wake) = IF TimeIsUp(g, A.game) THEN Finished(A, A.game.score >= Goal) ELSE A
    BY <1>3 DEF Beat
  <2>3. Sound(A) /\ (A.game.score >= Goal) \in BOOLEAN
    BY <2>1 DEF Follows
  <2> HIDE DEF A
  <2>4. Follows(A, Finished(A, A.game.score >= Goal))
    BY <2>3, FinishedFollows
  <2> QED
    BY <2>1, <2>2, <2>4, FollowsOn
<1>4. CASE g.phase # "preview" /\ g.phase # "play"
  BY <1>4, FollowsSelf DEF Beat
<1> QED
  BY <1>2, <1>3, <1>4

-----------------------------------------------------------------------------
(* The intents of a frame *)

\* A game, its log and the guest's burst, as a frame has them.
Steady(A) ==
  /\ A \in [game: Games, log: Seq(Lines), chain: Chains]
  /\ Sound(A) /\ Bursting(A, A.chain)

\* B comes of A by an intent: the same game, its log continued.
Leads(A, B) ==
  /\ Steady(B) /\ Follows(A, B)
  /\ B.chain.instance \in {A.chain.instance, 0, A.game.id}

LEMMA AnswerFields ==
  ASSUME NEW m \in Answers
  PROVE  /\ m.t \in {"press", "ready"} /\ m.id \in Nat
         /\ m.t = "press" => m.rev \in Nat /\ m.cell \in Nat
BY DEF Answers, Presses

\* The guest confirms: its burst is over.
LEMMA ReadyLeads ==
  ASSUME NEW A, Steady(A), NEW m
  PROVE  Leads(A, AppliedReady(A, m))
<1> DEFINE S == State(A.game, A.log)
           R == IF m.id = A.game.id THEN Confirmed(S, "p2") ELSE S
           B == AppliedReady(A, m)
<1>1. S.game = A.game /\ S.log = A.log
  BY DEF State
<1>2. Sound(S)
  BY <1>1 DEF Sound, Steady
<1>3. Follows(S, R)
  BY <1>2, FollowsSelf, ConfirmedFollows DEF Players
<1>4. B = [game |-> R.game, log |-> R.log, chain |-> NoChain]
  BY DEF AppliedReady
<1> HIDE DEF S, R, B
<1>5. B.game = R.game /\ B.log = R.log /\ B.chain = NoChain
  BY <1>4
<1>6. Sound(R)
  BY <1>3 DEF Follows
<1>7. Sound(B)
  BY <1>5, <1>6 DEF Sound
<1>8. Follows(A, B)
  BY <1>1, <1>3, <1>5, <1>7 DEF Follows
<1>9. NoChain \in Chains /\ NoChain.instance = 0
  BY DEF NoChain, Chains
<1>10. B \in [game: Games, log: Seq(Lines), chain: Chains]
  BY <1>4, <1>6, <1>9 DEF Sound
<1>11. Bursting(B, B.chain)
  <2>1. B.game.id # 0
    BY <1>5, <1>6, GameFields DEF Sound
  <2> QED
    BY <1>5, <1>9, <2>1 DEF Bursting
<1> QED
  BY <1>5, <1>7, <1>8, <1>9, <1>10, <1>11 DEF Leads, Steady, B

\* A press that is accepted begins a burst or goes on with one.
LEMMA PressLeads ==
  ASSUME NEW A, Steady(A), NEW m \in Presses, NEW next \in Nat
  PROVE  Leads(A, AppliedPress(A, m, next))
<1> DEFINE S == State(A.game, A.log)
           line == By("p2", m.rev)
           P == Pressed(S, m.cell, line, next)
           c == [instance |-> m.id, wire |-> m.rev, state |-> P.game.rev]
           B == AppliedPress(A, m, next)
<1>1. /\ m.id \in Nat /\ m.rev \in Nat /\ m.cell \in Nat
  BY DEF Presses
<1>2. A.game \in Games /\ A.log \in Seq(Lines) /\ A.chain \in Chains /\ Sound(A)
      /\ Bursting(A, A.chain)
  BY DEF Steady
<1>3. S.game = A.game /\ S.log = A.log
  BY DEF State
<1>4. Sound(S)
  BY <1>2, <1>3 DEF Sound
<1>5. NoChain \in Chains /\ NoChain.instance = 0
  BY DEF NoChain, Chains
<1>6. A.game.id # 0
  BY <1>2, GameFields
<1>7. CASE ~ Addressed(A.game, m, A.chain)
  <2>1. B = A
    BY <1>7 DEF AppliedPress
  <2> HIDE DEF B
  <2>2. Follows(A, A)
    BY <1>2, FollowsSelf
  <2> QED
    BY <2>1, <2>2 DEF Leads, B
<1>8. CASE Addressed(A.game, m, A.chain) /\ ~ Accepts(A.game, m.cell, A.game.rev)
  <2>1. B = [A EXCEPT !.chain = NoChain]
    BY <1>8 DEF AppliedPress
  <2> HIDE DEF B
  <2>2. B \in [game: Games, log: Seq(Lines), chain: Chains]
        /\ B.game = A.game /\ B.log = A.log /\ B.chain = NoChain
    BY <1>5, <2>1 DEF Steady
  <2>3. Sound(B)
    BY <1>2, <2>2 DEF Sound
  <2>4. Follows(A, B)
    <3>1. Follows(A, A)
      BY <1>2, FollowsSelf
    <3> QED
      BY <2>2, <2>3, <3>1 DEF Follows
  <2>5. Bursting(B, B.chain)
    BY <1>5, <1>6, <2>2 DEF Bursting
  <2> QED
    BY <1>5, <2>2, <2>3, <2>4, <2>5 DEF Leads, Steady, B
<1>9. CASE Addressed(A.game, m, A.chain) /\ Accepts(A.game, m.cell, A.game.rev)
  <2>1. B = [game |-> P.game, log |-> P.log, chain |-> c]
    BY <1>9 DEF AppliedPress
  <2>2. A.game.phase = "play" /\ m.id = A.game.id
    BY <1>9 DEF Addressed, Accepts
  <2>3. A.game.rev \in Nat
    BY <1>2, GameFields
  <2>4. line \in Lines /\ line.wire = m.rev
    BY <1>1 DEF Lines, By, Players
  <2>5. m.rev <= A.game.rev \/ m.rev > A.game.rev
    BY <1>1, <2>3
  <2>6. /\ \A q \in m.rev + 1..A.game.rev : A.log[q] = line
        /\ A.game.kind = "garden" => m.rev = A.game.rev
    <3>1. CASE m.rev = A.game.rev
      BY <1>1, <2>3, <3>1
    <3>2. CASE m.rev # A.game.rev
      <4>1. Chained(A.chain, A.game, m)
        BY <1>9, <3>2 DEF Addressed
      <4>2. /\ A.game.kind # "garden"
            /\ A.chain.instance = A.game.id /\ A.chain.wire = m.rev
            /\ A.chain.state = A.game.rev
        BY <2>2, <4>1 DEF Chained
      <4> QED
        BY <1>2, <2>2, <4>2 DEF Bursting
    <3> QED
      BY <3>1, <3>2
  <2> HIDE DEF S, B, line, P
  <2>7. /\ Follows(S, P) /\ P.log[A.game.rev + 1] = line
        /\ A.game.rev + 1 <= P.game.rev
        /\ P.game.phase # "result" => P.game.rev = A.game.rev + 1
    <3>1. /\ S.game.phase = "play"
          /\ \A q \in line.wire + 1..S.game.rev : S.log[q] = line
          /\ S.game.kind = "garden" => line.wire = S.game.rev
      BY <1>3, <2>2, <2>4, <2>6
    <3> HIDE DEF c
    <3>2. /\ Follows(S, P) /\ P.log[S.game.rev + 1] = line
          /\ S.game.rev + 1 <= P.game.rev
          /\ P.game.phase # "result" => P.game.rev = S.game.rev + 1
      BY <1>1, <1>4, <2>4, <3>1, PressedFollows DEF P
    <3> QED
      BY <1>3, <3>2
  <2>8. Sound(P) /\ P.game.id = A.game.id
    BY <1>3, <2>7 DEF Follows
  <2>9. P.game \in Games /\ P.log \in Seq(Lines) /\ P.game.rev \in Nat
    BY <2>8, GameFields DEF Sound
  <2>10. c \in Chains
    BY <1>1, <2>9 DEF Chains
  <2>11. B.game = P.game /\ B.log = P.log /\ B.chain = c
    BY <2>1
  <2>12. B \in [game: Games, log: Seq(Lines), chain: Chains]
    <3> HIDE DEF c
    <3> QED
      BY <2>1, <2>9, <2>10
  <2>13. Sound(B)
    BY <2>8, <2>11 DEF Sound
  <2>14. Follows(A, B)
    BY <1>3, <2>7, <2>11, <2>13 DEF Follows
  <2>15. Bursting(B, c)
    <3> SUFFICES ASSUME P.game.phase # "result"
                 PROVE  /\ c.wire >= 0 /\ c.state <= P.game.rev
                        /\ \A q \in c.wire + 1..c.state : P.log[q] = line
      <4>1. By("p2", c.wire) = line
        BY DEF line
      <4> HIDE DEF c
      <4> QED
        BY <2>11, <4>1 DEF Bursting
    <3>1. c.wire = m.rev /\ c.state = P.game.rev
      OBVIOUS
    <3> HIDE DEF c
    <3>2. c.state = A.game.rev + 1
      BY <2>7, <3>1
    <3>3. \A q \in m.rev + 1..A.game.rev : P.log[q] = line
      <4>1. Len(A.log) = A.game.rev
        BY <1>2 DEF Sound
      <4>2. \A q \in 1..Len(A.log) : P.log[q] = A.log[q]
        BY <1>3, <2>7 DEF Follows
      <4>3. \A q \in m.rev + 1..A.game.rev : q \in 1..Len(A.log)
        BY <1>1, <2>3, <4>1
      <4> QED
        BY <2>6, <4>2, <4>3
    <3>4. \A q \in m.rev + 1..A.game.rev + 1 : q = A.game.rev + 1 \/ q \in m.rev + 1..A.game.rev
      BY <1>1, <2>3
    <3> QED
      BY <1>1, <2>3, <2>7, <2>9, <3>1, <3>2, <3>3, <3>4
  <2>16. c.instance = A.game.id
    BY <2>2
  <2> HIDE DEF c
  <2> QED
    BY <2>11, <2>12, <2>13, <2>14, <2>15, <2>16 DEF Leads, Steady, B
<1> QED
  BY <1>7, <1>8, <1>9

LEMMA OneLeads ==
  ASSUME NEW A, Steady(A), NEW m \in Answers, NEW next \in Nat
  PROVE  Leads(A, AppliedOne(A, m, next))
<1>1. CASE m.t = "ready"
  BY <1>1, ReadyLeads DEF AppliedOne
<1>2. CASE m.t # "ready"
  <2>1. m \in Presses
    BY <1>2 DEF Answers
  <2> QED
    BY <1>2, <2>1, PressLeads DEF AppliedOne
<1> QED
  BY <1>1, <1>2

-----------------------------------------------------------------------------
(* Induction on the queue *)

\* A set that has 0, and the next of each number it has, has them all.
LEMMA NaturalSet ==
  ASSUME NEW S, 0 \in S, \A n \in Nat : n \in S => n + 1 \in S
  PROVE  Nat \subseteq S
<1> DEFINE T == Nat \ S
<1>1. T \subseteq Nat
  OBVIOUS
<1>2. SUFFICES ASSUME T # {} PROVE FALSE
  OBVIOUS
<1>3. \E x \in T : \A y \in T : ~ (<<y, x>> \in OpToRel(<, Nat))
  <2> HIDE DEF T
  <2> QED
    BY <1>1, <1>2, NatLessThanWellFounded, WFMin, Zenon
<1>4. PICK x \in T : \A y \in T : ~ (<<y, x>> \in OpToRel(<, Nat))
  BY <1>3
<1>5. \A y \in T : ~ (y < x)
  <2> HIDE DEF T
  <2> QED
    BY <1>1, <1>4, Zenon DEF OpToRel
<1>6. x \in Nat /\ x # 0 /\ x \notin S
  BY <1>4
<1>7. x - 1 \in Nat /\ x - 1 < x /\ (x - 1) + 1 = x
  BY <1>6
<1>8. x - 1 \notin T
  BY <1>5, <1>7
<1> QED
  BY <1>6, <1>7, <1>8

Before == [game |-> game, log |-> log, chain |-> chain]

\* f is what is left of the frame after each of the first n intents.
Trail(f, n, next) ==
  f = [i \in 0..n |-> IF i = 0 THEN Before ELSE AppliedOne(f[i - 1], inputs[i], next)]

LEMMA TrailExists ==
  ASSUME NEW n \in Nat, NEW next
  PROVE  \E f : Trail(f, n, next)
<1> DEFINE S == {k \in Nat : \E f : Trail(f, k, next)}
<1>1. 0 \in S
  <2> DEFINE f == [i \in 0..0 |-> Before]
  <2>1. f = [i \in 0..0 |-> IF i = 0 THEN Before ELSE AppliedOne(f[i - 1], inputs[i], next)]
    OBVIOUS
  <2>2. Trail(f, 0, next)
    BY <2>1 DEF Trail
  <2> QED
    BY <2>2
<1>2. ASSUME NEW k \in Nat, k \in S
      PROVE  k + 1 \in S
  <2>1. PICK f : Trail(f, k, next)
    BY <1>2
  <2>2. \A i \in 0..k : f[i] = IF i = 0 THEN Before ELSE AppliedOne(f[i - 1], inputs[i], next)
    BY <2>1 DEF Trail
  <2> DEFINE g == [i \in 0..k + 1 |->
                     IF i = k + 1 THEN AppliedOne(f[k], inputs[k + 1], next) ELSE f[i]]
             h == [i \in 0..k + 1 |->
                     IF i = 0 THEN Before ELSE AppliedOne(g[i - 1], inputs[i], next)]
  <2>3. ASSUME NEW i \in 0..k + 1
        PROVE  g[i] = h[i]
    <3>1. CASE i = 0
      BY <2>2, <3>1
    <3>2. CASE i = k + 1
      BY <3>2
    <3>3. CASE i # 0 /\ i # k + 1
      <4>1. i \in 0..k /\ i - 1 \in 0..k + 1 /\ i - 1 # k + 1
        BY <3>3
      <4>2. g[i] = f[i] /\ g[i - 1] = f[i - 1]
        BY <3>3, <4>1
      <4>3. h[i] = AppliedOne(g[i - 1], inputs[i], next)
        BY <3>3
      <4> QED
        BY <2>2, <3>3, <4>1, <4>2, <4>3
    <3> QED
      BY <3>1, <3>2, <3>3
  <2>4. g = h
    BY <2>3
  <2>5. Trail(g, k + 1, next)
    BY <2>4 DEF Trail
  <2> QED
    BY <2>5
<1> HIDE DEF S
<1>3. Nat \subseteq S
  BY <1>1, <1>2, NaturalSet
<1> QED
  BY <1>3 DEF S

LEMMA AppliedTrail ==
  ASSUME NEW next, Len(inputs) \in Nat
  PROVE  \E f : Trail(f, Len(inputs), next) /\ Applied(next) = f[Len(inputs)]
<1> DEFINE P(g) == Trail(g, Len(inputs), next)
           h == CHOOSE g : P(g)
<1>1. Applied(next) = h[Len(inputs)]
  BY DEF Applied, Trail, Before
<1>2. \E g : P(g)
  BY TrailExists
<1>3. P(h)
  <2> HIDE DEF P
  <2> QED
    BY <1>2
<1> QED
  BY <1>1, <1>3

\* After all the intents of a frame the game is the one it was, its log continued.
LEMMA AppliedKeeps ==
  ASSUME inputs \in Seq(Answers), NEW next \in Nat, Steady(Before)
  PROVE  Leads(Before, Applied(next)) \/ Applied(next) = Before
<1>1. Len(inputs) \in Nat /\ \A i \in 1..Len(inputs) : inputs[i] \in Answers
  OBVIOUS
<1>2. PICK f : Trail(f, Len(inputs), next) /\ Applied(next) = f[Len(inputs)]
  BY <1>1, AppliedTrail
<1>3. \A i \in 0..Len(inputs) :
        f[i] = IF i = 0 THEN Before ELSE AppliedOne(f[i - 1], inputs[i], next)
  BY <1>2 DEF Trail
<1> DEFINE S == {k \in Nat : k \in 1..Len(inputs) => Leads(Before, f[k])}
<1>4. 0 \in S
  OBVIOUS
<1>5. ASSUME NEW k \in Nat, k \in S
      PROVE  k + 1 \in S
  <2> SUFFICES ASSUME k + 1 \in 1..Len(inputs)
               PROVE  Leads(Before, f[k + 1])
    OBVIOUS
  <2>1. f[k + 1] = AppliedOne(f[k], inputs[k + 1], next) /\ inputs[k + 1] \in Answers
    BY <1>1, <1>3
  <2>2. CASE k = 0
    <3>1. f[k] = Before
      BY <1>1, <1>3, <2>2
    <3> QED
      BY <2>1, <3>1, OneLeads
  <2>3. CASE k # 0
    <3>1. Leads(Before, f[k])
      BY <1>1, <1>5, <2>3
    <3>2. Leads(f[k], f[k + 1])
      BY <2>1, <3>1, OneLeads DEF Leads
    <3>3. Follows(Before, f[k + 1])
      BY <3>1, <3>2, FollowsOn DEF Leads, Steady
    <3>4. f[k].game.id = Before.game.id
      BY <3>1 DEF Leads, Follows
    <3> QED
      BY <3>1, <3>2, <3>3, <3>4 DEF Leads
  <2> QED
    BY <2>2, <2>3
<1> HIDE DEF S
<1>6. Nat \subseteq S
  BY <1>4, <1>5, NaturalSet
<1>7. CASE Len(inputs) = 0
  BY <1>2, <1>3, <1>7
<1>8. CASE Len(inputs) # 0
  BY <1>1, <1>2, <1>6, <1>8 DEF S
<1> QED
  BY <1>7, <1>8

-----------------------------------------------------------------------------
(* The run *)

LEMMA WorldFields ==
  ASSUME NEW w \in Worlds
  PROVE  /\ w.done \in [Kinds -> Results] /\ w.boons \in [Kinds -> Nat]
         /\ w.path \in BOOLEAN /\ w.soul \in BOOLEAN
BY DEF Worlds

LEMMA PartyFacts ==
  ASSUME TypeOK
  PROVE  party \in SUBSET Players
BY DEF TypeOK, Players

\* What is saved is as it should be, and what was saved is.
LEMMA SavesKeeps ==
  ASSUME IInv, NEW w \in Worlds, NEW g \in GamesOrNone, RewardedIn(w, g), Saves(w, g)
  PROVE  /\ disk' \in [world: Worlds, game: GamesOrNone] /\ faults' \in Nat
         /\ RewardedIn(disk'.world, disk'.game)
<1>1. disk \in [world: Worlds, game: GamesOrNone] /\ faults \in Nat
      /\ RewardedIn(disk.world, disk.game)
  BY DEF IInv, TypeOK, Paid
<1>2. CASE disk' = [world |-> w, game |-> g] /\ UNCHANGED faults
  <2>1. disk'.world = w /\ disk'.game = g
    BY <1>2
  <2> QED
    BY <1>1, <1>2, <2>1
<1>3. CASE UNCHANGED disk /\ (UNCHANGED faults \/ faults' = faults + 1)
  BY <1>1, <1>3
<1> QED
  BY <1>2, <1>3 DEF Saves

\* A world that differs in what has no reward.
LEMMA WorldKeeps ==
  ASSUME IInv, NEW w \in Worlds, w.done = world.done, w.boons = world.boons
  PROVE  RewardedIn(w, game)
BY DEF IInv, Paid, RewardedIn

\* The game that begins is not the one a burst is of.
LEMMA StartsKeeps ==
  ASSUME IInv, NEW kind \in Kinds, world.done[kind] = "open", Starts(kind),
         chain' = chain \/ chain' = NoChain
  PROVE  /\ game' \in GamesOrNone /\ count' \in Nat /\ log' \in Seq(Lines)
         /\ chain' \in Chains /\ faults' \in Nat
         /\ disk' \in [world: Worlds, game: GamesOrNone]
         /\ Numbered' /\ Logged'
         /\ RewardedIn(world, game') /\ RewardedIn(disk'.world, disk'.game)
<1>1. /\ game' = Created(kind, count + 1) /\ count' = count + 1 /\ log' = <<>>
      /\ Saves(world, game')
  BY DEF Starts
<1>2. /\ count \in Nat /\ chain \in Chains /\ world \in Worlds /\ party \in SUBSET Players
      /\ chain.instance <= count
      /\ \A k \in Kinds : world.boons[k] = (IF world.done[k] = "won" THEN 1 ELSE 0)
  BY PartyFacts DEF IInv, TypeOK, Numbered, Paid, RewardedIn
<1>3. count + 1 \in Nat \ {0}
  BY <1>2
<1>4. /\ game' \in Games /\ game'.id = count + 1 /\ game'.kind = kind /\ game'.rev = 0
  BY <1>1, <1>2, <1>3, CreatedFacts
<1>5. NoChain \in Chains /\ NoChain.instance = 0
  BY DEF NoChain, Chains
<1>6. chain' \in Chains /\ chain'.instance <= count
  BY <1>2, <1>5
<1>7. chain'.instance \in Nat
  BY <1>6 DEF Chains
<1>8. log' \in Seq(Lines) /\ Len(log') = 0 /\ DOMAIN log' = {}
  BY <1>1
<1>9. Numbered'
  BY <1>1, <1>2, <1>4, <1>6, <1>7 DEF Numbered
<1>10. Current'.game = game' /\ Current'.log = log'
  BY DEF Current, State
<1>11. FreshIn(game', log')
  BY <1>8 DEF FreshIn
<1>12. Sound(Current')
  BY <1>4, <1>8, <1>10, <1>11 DEF Sound
<1>13. Bursting(Current', chain')
  BY <1>2, <1>4, <1>6, <1>7, <1>10 DEF Bursting
<1>14. Logged'
  BY <1>12, <1>13 DEF Logged
<1>15. RewardedIn(world, game')
  BY <1>2, <1>4 DEF RewardedIn
<1>16. game' \in GamesOrNone
  BY <1>4 DEF GamesOrNone
<1>17. /\ disk' \in [world: Worlds, game: GamesOrNone] /\ faults' \in Nat
       /\ RewardedIn(disk'.world, disk'.game)
  BY <1>1, <1>2, <1>15, <1>16, SavesKeeps
<1> QED
  BY <1>1, <1>2, <1>6, <1>8, <1>9, <1>14, <1>15, <1>16, <1>17

\* Nothing of the game changes.
LEMMA GameStays ==
  ASSUME Numbered, Logged, UNCHANGED <<game, log, count, chain>>
  PROVE  Numbered' /\ Logged'
<1>1. Current' = Current
  BY DEF Current
<1>2. Sound(Current)' = Sound(Current) /\ Bursting(Current, chain)' = Bursting(Current, chain)
  BY <1>1 DEF Sound, Bursting
<1> QED
  BY <1>2 DEF Numbered, Logged

\* Starts of ChoosePath, TalkToFrog and FaceSoul.
LEMMA StartStep ==
  ASSUME IInv, NEW kind \in Kinds, world.done[kind] = "open", Starts(kind),
         UNCHANGED <<party, world, guest, queues>>
  PROVE  IInv'
<1>1. chain' = chain
  BY DEF queues
<1>2. /\ game' \in GamesOrNone /\ count' \in Nat /\ log' \in Seq(Lines)
      /\ chain' \in Chains /\ faults' \in Nat
      /\ disk' \in [world: Worlds, game: GamesOrNone]
      /\ Numbered' /\ Logged'
      /\ RewardedIn(world, game') /\ RewardedIn(disk'.world, disk'.game)
  BY <1>1, StartsKeeps
<1>3. TypeOK'
  BY <1>2 DEF IInv, TypeOK, guest, queues
<1>4. Alone'
  BY DEF IInv, Alone, Coop, guest, queues
<1>5. Paid'
  BY <1>2 DEF Paid
<1> QED
  BY <1>2, <1>3, <1>4, <1>5 DEF IInv

\* The story goes on: the world changes, without a game.
LEMMA StoryStep ==
  ASSUME IInv, NEW w \in Worlds, w.done = world.done, w.boons = world.boons,
         world' = w, Saves(world', game),
         UNCHANGED <<game, count, log>>, UNCHANGED <<party, guest, queues>>
  PROVE  IInv'
<1>1. RewardedIn(w, game)
  BY WorldKeeps
<1>2. game \in GamesOrNone
  BY DEF IInv, TypeOK
<1>3. /\ disk' \in [world: Worlds, game: GamesOrNone] /\ faults' \in Nat
      /\ RewardedIn(disk'.world, disk'.game)
  BY <1>1, <1>2, SavesKeeps
<1>4. TypeOK'
  BY <1>3 DEF IInv, TypeOK, guest, queues
<1>5. Alone'
  BY DEF IInv, Alone, Coop, guest, queues
<1>6. Numbered' /\ Logged'
  BY GameStays DEF IInv, queues
<1>7. Paid'
  BY <1>1, <1>3 DEF Paid
<1> QED
  BY <1>4, <1>5, <1>6, <1>7 DEF IInv

LEMMA ChoosePathKeeps ==
  ASSUME IInv, ChoosePath
  PROVE  IInv'
<1>1. CASE world.done["story"] = "open"
  BY <1>1, StartStep DEF ChoosePath
<1>2. CASE world.done["story"] # "open"
  <2> DEFINE w == [world EXCEPT !.path = TRUE]
  <2>1. world \in Worlds
    BY DEF IInv, TypeOK
  <2>2. w \in Worlds /\ w.done = world.done /\ w.boons = world.boons
    BY <2>1 DEF Worlds
  <2>3. /\ world' = w /\ Saves(world', game)
        /\ UNCHANGED <<game, count, log>> /\ UNCHANGED <<party, guest, queues>>
    BY <1>2 DEF ChoosePath
  <2> HIDE DEF w
  <2> QED
    BY <2>2, <2>3, StoryStep
<1> QED
  BY <1>1, <1>2

LEMMA TalkToFrogKeeps ==
  ASSUME IInv, TalkToFrog
  PROVE  IInv'
BY StartStep DEF TalkToFrog

LEMMA FaceSoulKeeps ==
  ASSUME IInv, FaceSoul
  PROVE  IInv'
<1>1. CASE world.done["soul"] = "open"
  BY <1>1, StartStep DEF FaceSoul
<1>2. CASE world.done["soul"] # "open"
  <2> DEFINE w == [world EXCEPT !.soul = TRUE]
  <2>1. world \in Worlds
    BY DEF IInv, TypeOK
  <2>2. w \in Worlds /\ w.done = world.done /\ w.boons = world.boons
    BY <2>1 DEF Worlds
  <2>3. /\ world' = w /\ Saves(world', game)
        /\ UNCHANGED <<game, count, log>> /\ UNCHANGED <<party, guest, queues>>
    BY <1>2 DEF FaceSoul
  <2> HIDE DEF w
  <2> QED
    BY <2>2, <2>3, StoryStep
<1> QED
  BY <1>1, <1>2

-----------------------------------------------------------------------------
(* A player presses and confirms, and the frames of the host *)

\* What IInv says of a game that is on.
LEMMA GameOn ==
  ASSUME IInv, game # NoGame
  PROVE  /\ game \in Games /\ game.id # 0 /\ game.id \in Nat /\ game.kind \in Kinds
         /\ Sound(Current) /\ Current.game = game /\ Current.log = log
         /\ Steady(Before) /\ Before.game = game /\ Before.log = log /\ Before.chain = chain
         /\ world.done[game.kind] = "open"
<1>1. game \in Games /\ log \in Seq(Lines) /\ chain \in Chains
  BY DEF IInv, TypeOK, GamesOrNone
<1>2. Current.game = game /\ Current.log = log
  BY DEF Current, State
<1>3. Before \in [game: Games, log: Seq(Lines), chain: Chains]
      /\ Before.game = game /\ Before.log = log /\ Before.chain = chain
  BY <1>1 DEF Before
<1>4. Sound(Current) /\ Bursting(Current, chain)
  BY DEF IInv, Logged
<1>5. Steady(Before)
  BY <1>2, <1>3, <1>4 DEF Steady, Sound, Bursting
<1>6. world.done[game.kind] = "open"
  BY DEF IInv, Paid, RewardedIn
<1> QED
  BY <1>1, <1>2, <1>3, <1>4, <1>5, <1>6, GameFields

\* A game that has gone on is the game the rewards are open for.
LEMMA GameGoesOn ==
  ASSUME IInv, game # NoGame, NEW T, Sound(T), T.game.id = game.id,
         T.game.kind = game.kind, NEW c \in Chains, Bursting(T, c),
         c.instance \in {chain.instance, 0, game.id},
         game' = T.game, log' = T.log, chain' = c, UNCHANGED count
  PROVE  /\ game' \in Games /\ log' \in Seq(Lines) /\ chain' \in Chains
         /\ Numbered' /\ Logged' /\ RewardedIn(world, game')
<1>1. game \in Games /\ game.id # 0 /\ game.id \in Nat /\ world.done[game.kind] = "open"
  BY GameOn
<1>2. game.id <= count /\ chain.instance <= count /\ count \in Nat
  BY DEF IInv, TypeOK, Numbered
<1>3. game' \in Games /\ log' \in Seq(Lines) /\ game'.id = game.id /\ game'.kind = game.kind
  BY DEF Sound
<1>4. Numbered'
  BY <1>1, <1>2, <1>3 DEF Numbered
<1>5. Current'.game = game' /\ Current'.log = log'
  BY DEF Current, State
<1>6. Sound(Current')
  BY <1>5 DEF Sound
<1>7. Bursting(Current', chain')
  BY <1>5 DEF Bursting
<1>8. Logged'
  BY <1>6, <1>7 DEF Logged
<1>9. RewardedIn(world, game')
  BY <1>1, <1>3 DEF IInv, Paid, RewardedIn
<1> QED
  BY <1>3, <1>4, <1>8, <1>9

\* A step of the game that leaves the guest's burst as it was.
LEMMA PlayStep ==
  ASSUME IInv, game # NoGame, NEW T, Follows(Current, T), Becomes(T), UNCHANGED <<chain, count>>
  PROVE  /\ game' \in Games /\ log' \in Seq(Lines) /\ chain' \in Chains
         /\ Numbered' /\ Logged' /\ RewardedIn(world, game')
<1>1. /\ Sound(Current) /\ Current.game = game /\ chain \in Chains
      /\ Bursting(Current, chain)
  BY GameOn DEF IInv, TypeOK, Logged
<1>2. Bursting(T, chain) /\ Sound(T) /\ T.game.id = game.id /\ T.game.kind = game.kind
  BY <1>1, FollowsBursting DEF Follows
<1> QED
  BY <1>1, <1>2, GameGoesOn DEF Becomes

LEMMA ConfirmReadyKeeps ==
  ASSUME IInv, ConfirmReady
  PROVE  IInv'
<1> DEFINE T == Confirmed(State(game, log), "p1")
<1>1. game # NoGame /\ Becomes(T) /\ Saves(world, game')
      /\ UNCHANGED <<party, count, world, guest, queues>>
  BY DEF ConfirmReady
<1>2. Follows(Current, T)
  BY <1>1, GameOn, ConfirmedFollows DEF Current, Players
<1> HIDE DEF T
<1>3. /\ game' \in Games /\ log' \in Seq(Lines) /\ chain' \in Chains
      /\ Numbered' /\ Logged' /\ RewardedIn(world, game')
  BY <1>1, <1>2, PlayStep DEF queues
<1>4. world \in Worlds /\ game' \in GamesOrNone
  BY <1>3 DEF IInv, TypeOK, GamesOrNone
<1>5. /\ disk' \in [world: Worlds, game: GamesOrNone] /\ faults' \in Nat
      /\ RewardedIn(disk'.world, disk'.game)
  BY <1>1, <1>3, <1>4, SavesKeeps
<1>6. TypeOK'
  BY <1>1, <1>3, <1>4, <1>5 DEF IInv, TypeOK, guest, queues
<1>7. Alone'
  BY <1>1 DEF IInv, Alone, Coop, guest, queues
<1>8. Paid'
  BY <1>1, <1>3, <1>5 DEF Paid
<1> QED
  BY <1>3, <1>6, <1>7, <1>8 DEF IInv

LEMMA WakesFacts ==
  ASSUME IInv
  PROVE  Wakes \subseteq Nat
BY Sizes DEF Wakes, Board

LEMMA PressKeeps ==
  ASSUME IInv, NEW cell \in 1..(2 * Goal), NEW next \in Wakes, Press(cell, next)
  PROVE  IInv'
<1> DEFINE line == By("p1", game.rev)
           T == Pressed(State(game, log), cell, line, next)
<1>1. /\ game # NoGame /\ Accepts(game, cell, game.rev) /\ Becomes(T)
      /\ UNCHANGED <<party, count, world, disk, guest, queues, faults>>
  BY DEF Press
<1>2. game \in Games /\ Sound(Current) /\ Current = State(game, log) /\ Current.game = game
  BY <1>1, GameOn DEF Current
<1>3. game.rev \in Nat /\ game.phase = "play"
  BY <1>1, <1>2, GameFields DEF Accepts
<1>4. line \in Lines /\ line.who # "p2"
  BY <1>3 DEF By, Lines, Players
<1>5. cell \in Nat /\ next \in Nat
  BY Sizes, WakesFacts
<1>6. Follows(Current, T)
  <2>1. T = Pressed(Current, cell, line, next)
    BY <1>2
  <2> HIDE DEF T, line
  <2> QED
    BY <1>2, <1>3, <1>4, <1>5, <2>1, PressedFollows
<1> HIDE DEF T
<1>7. /\ game' \in Games /\ log' \in Seq(Lines) /\ chain' \in Chains
      /\ Numbered' /\ Logged' /\ RewardedIn(world, game')
  BY <1>1, <1>6, PlayStep DEF queues
<1>8. TypeOK'
  BY <1>1, <1>7 DEF IInv, TypeOK, guest, queues, GamesOrNone
<1>9. Alone'
  BY <1>1 DEF IInv, Alone, Coop, guest, queues
<1>10. Paid'
  BY <1>1, <1>7 DEF IInv, Paid
<1> QED
  BY <1>7, <1>8, <1>9, <1>10 DEF IInv

\* The end of a game: its outcome is marked, and rewarded if it was won.
LEMMA FinalizeKeeps ==
  ASSUME IInv, game # NoGame, Finalize
  PROVE  /\ world' \in Worlds /\ game' = NoGame /\ RewardedIn(world', game')
         /\ disk' \in [world: Worlds, game: GamesOrNone] /\ faults' \in Nat
         /\ RewardedIn(disk'.world, disk'.game)
<1> DEFINE k == game.kind
           m == [world EXCEPT !.done[k] = game.outcome]
           g == IF game.outcome = "won" THEN [m EXCEPT !.boons[k] = @ + 1] ELSE m
           c == IF k = "story" THEN [g EXCEPT !.path = TRUE] ELSE g
<1>1. /\ game \in Games /\ k \in Kinds /\ world.done[k] = "open" /\ game.outcome \in Results
  BY GameOn, GameFields
<1>2. /\ world \in Worlds
      /\ \A j \in Kinds : world.boons[j] = (IF world.done[j] = "won" THEN 1 ELSE 0)
  BY DEF IInv, TypeOK, Paid, RewardedIn
<1>3. world' = c
  BY <1>1 DEF Finalize, Continued, Granted, Marked
<1>4. world.boons[k] = 0
  BY <1>1, <1>2
<1> HIDE DEF k
<1>5. /\ m \in Worlds /\ m.done = [world.done EXCEPT ![k] = game.outcome]
      /\ m.boons = world.boons
  BY <1>1, <1>2 DEF Worlds
<1> HIDE DEF m
<1>6. /\ g \in Worlds /\ g.done = m.done
      /\ g.boons = IF game.outcome = "won" THEN [m.boons EXCEPT ![k] = @ + 1] ELSE m.boons
  BY <1>1, <1>5 DEF Worlds
<1> HIDE DEF g
<1>7. c \in Worlds /\ c.done = g.done /\ c.boons = g.boons
  BY <1>6 DEF Worlds
<1> HIDE DEF c
<1>8. \A j \in Kinds : c.boons[j] = (IF c.done[j] = "won" THEN 1 ELSE 0)
  <2>1. world.done \in [Kinds -> Results] /\ world.boons \in [Kinds -> Nat]
    BY <1>2, WorldFields
  <2> SUFFICES ASSUME NEW j \in Kinds
               PROVE  c.boons[j] = (IF c.done[j] = "won" THEN 1 ELSE 0)
    OBVIOUS
  <2>2. CASE j = k
    BY <1>1, <1>4, <1>5, <1>6, <1>7, <2>1, <2>2
  <2>3. CASE j # k
    BY <1>1, <1>2, <1>5, <1>6, <1>7, <2>1, <2>3
  <2> QED
    BY <2>2, <2>3
<1>9. game' = NoGame /\ Saves(world', NoGame)
  BY DEF Finalize, SavesAfterClosing
<1>10. RewardedIn(c, NoGame)
  BY <1>8 DEF RewardedIn
<1>11. NoGame \in GamesOrNone
  BY DEF GamesOrNone
<1>12. Saves(c, NoGame)
  BY <1>3, <1>9
<1> QED
  BY <1>3, <1>7, <1>9, <1>10, <1>11, <1>12, SavesKeeps

LEMMA FrameInGameKeeps ==
  ASSUME IInv, NEW beats \in 0..1, NEW next \in Wakes, NEW wake \in Wakes \cup {0},
         FrameInGame(beats, next, wake)
  PROVE  IInv'
<1> DEFINE A == Applied(next)
           S == IF beats = 1 THEN Beat(A, wake) ELSE A
<1>1. /\ game # NoGame /\ inputs' = <<>> /\ actions' = <<>> /\ chain' = A.chain
      /\ UNCHANGED <<party, count, guest>>
  BY DEF FrameInGame, Neutralised
<1>2. \/ Finalize /\ log' = <<>>
      \/ Becomes(S) /\ UNCHANGED <<world, disk, faults>>
  BY DEF FrameInGame
<1>3. next \in Nat /\ wake \in Nat
  BY WakesFacts
<1>4. /\ Steady(Before) /\ Before.game = game /\ Before.log = log /\ Before.chain = chain
      /\ inputs \in Seq(Answers)
  BY <1>1, GameOn DEF IInv, TypeOK
<1>5. Leads(Before, A) \/ A = Before
  BY <1>3, <1>4, AppliedKeeps
<1>6. /\ Steady(A) /\ Follows(Before, A)
      /\ A.chain.instance \in {chain.instance, 0, game.id}
  BY <1>4, <1>5, FollowsSelf DEF Leads, Steady
<1> HIDE DEF A
<1>7. Sound(A) /\ Bursting(A, A.chain) /\ A.chain \in Chains
  BY <1>6 DEF Steady
<1>8. Follows(A, S)
  BY <1>3, <1>7, FollowsSelf, BeatFollows
<1> HIDE DEF S
<1>9. /\ inputs' \in Seq(Answers) /\ actions' \in Seq(Deeds)
  BY <1>1
<1>10. chain' \in Chains
  BY <1>1, <1>7
<1>11. Alone'
  <2> SUFFICES ASSUME ~ Coop
               PROVE  up' = <<>> /\ inputs' = <<>> /\ chain' = NoChain
    BY <1>1 DEF Alone, Coop
  <2>1. up = <<>> /\ inputs = <<>> /\ chain = NoChain
    BY DEF IInv, Alone
  <2>2. A = Before
    <3>1. Len(inputs) = 0
      BY <2>1
    <3>2. PICK f : Trail(f, Len(inputs), next) /\ Applied(next) = f[Len(inputs)]
      BY <3>1, AppliedTrail
    <3> QED
      BY <3>1, <3>2 DEF Trail, A
  <2> QED
    BY <1>1, <1>4, <2>1, <2>2 DEF guest
<1>12. CASE Finalize /\ log' = <<>>
  <2>1. /\ world' \in Worlds /\ game' = NoGame /\ RewardedIn(world', game')
        /\ disk' \in [world: Worlds, game: GamesOrNone] /\ faults' \in Nat
        /\ RewardedIn(disk'.world, disk'.game)
    BY <1>1, <1>12, FinalizeKeeps
  <2>2. game' \in GamesOrNone /\ log' \in Seq(Lines)
    BY <1>12, <2>1 DEF GamesOrNone
  <2>3. TypeOK'
    BY <1>1, <1>9, <1>10, <2>1, <2>2 DEF IInv, TypeOK, guest
  <2>4. Numbered'
    <3>1. chain.instance <= count /\ game.id <= count /\ count \in Nat
      BY <1>1 DEF IInv, TypeOK, Numbered
    <3> QED
      BY <1>1, <1>6, <2>1, <3>1 DEF Numbered
  <2>5. Logged' /\ Paid'
    BY <2>1 DEF Logged, Paid
  <2> QED
    BY <1>11, <2>3, <2>4, <2>5 DEF IInv
<1>13. CASE Becomes(S) /\ UNCHANGED <<world, disk, faults>>
  <2>1. Bursting(S, A.chain) /\ Sound(S)
    BY <1>7, <1>8, FollowsBursting DEF Follows
  <2>2. S.game.id = game.id /\ S.game.kind = game.kind
    BY <1>4, <1>6, <1>8 DEF Follows
  <2>3. /\ game' \in Games /\ log' \in Seq(Lines)
        /\ Numbered' /\ Logged' /\ RewardedIn(world, game')
    BY <1>1, <1>6, <1>7, <1>13, <2>1, <2>2, GameGoesOn DEF Becomes
  <2>4. TypeOK'
    BY <1>1, <1>9, <1>10, <1>13, <2>3 DEF IInv, TypeOK, guest, GamesOrNone
  <2>5. Paid'
    BY <1>13, <2>3 DEF IInv, Paid
  <2> QED
    BY <1>11, <2>3, <2>4, <2>5 DEF IInv
<1> QED
  BY <1>2, <1>12, <1>13

LEMMA FrameInWorldKeeps ==
  ASSUME IInv, FrameInWorld
  PROVE  IInv'
<1>1. /\ game = NoGame /\ inputs' = <<>> /\ actions' = <<>> /\ chain' = NoChain
      /\ UNCHANGED <<party, world, guest>>
  BY DEF FrameInWorld
<1>2. inputs' \in Seq(Answers) /\ actions' \in Seq(Deeds)
  BY <1>1
<1>3. Alone'
  BY <1>1 DEF IInv, Alone, Coop, guest
<1>4. \/ world.done["garden"] = "open" /\ "garden" \in Kinds /\ Starts("garden")
      \/ UNCHANGED <<game, count, log, disk, faults>>
  BY DEF FrameInWorld
<1>5. CASE world.done["garden"] = "open" /\ "garden" \in Kinds /\ Starts("garden")
  <2>1. /\ game' \in GamesOrNone /\ count' \in Nat /\ log' \in Seq(Lines)
        /\ chain' \in Chains /\ faults' \in Nat
        /\ disk' \in [world: Worlds, game: GamesOrNone]
        /\ Numbered' /\ Logged'
        /\ RewardedIn(world, game') /\ RewardedIn(disk'.world, disk'.game)
    BY <1>1, <1>5, StartsKeeps
  <2>2. TypeOK'
    BY <1>1, <1>2, <2>1 DEF IInv, TypeOK, guest
  <2>3. Paid'
    BY <1>1, <2>1 DEF Paid
  <2> QED
    BY <1>3, <2>1, <2>2, <2>3 DEF IInv
<1>6. CASE UNCHANGED <<game, count, log, disk, faults>>
  <2>1. NoChain \in Chains /\ NoChain.instance = 0
    BY DEF NoChain, Chains
  <2>2. TypeOK'
    BY <1>1, <1>2, <1>6, <2>1 DEF IInv, TypeOK, guest
  <2>3. Numbered' /\ Logged'
    <3>1. count \in Nat
      BY DEF IInv, TypeOK
    <3> QED
      BY <1>1, <1>6, <2>1, <3>1 DEF Numbered, Logged
  <2>4. Paid'
    BY <1>1, <1>6 DEF IInv, Paid
  <2> QED
    BY <1>3, <2>2, <2>3, <2>4 DEF IInv
<1> QED
  BY <1>4, <1>5, <1>6

-----------------------------------------------------------------------------
(* The guest, its connection, and the save *)

\* An action of the guest and the network, which does not touch the run.
LEMMA GuestStep ==
  ASSUME IInv, UNCHANGED <<party, game, count, world, disk, chain, log>>,
         mirror' \in GamesOrNone, faults' \in Nat,
         up' \in Seq(Answers \cup Deeds), inputs' \in Seq(Answers), actions' \in Seq(Deeds),
         away' \in BOOLEAN, over' \in BOOLEAN,
         ~ Coop => up' = <<>> /\ inputs' = <<>>
  PROVE  IInv'
<1>1. TypeOK'
  BY DEF IInv, TypeOK
<1>2. Alone'
  BY DEF IInv, Alone, Coop
<1>3. Numbered' /\ Logged'
  BY GameStays DEF IInv
<1>4. Paid'
  BY DEF IInv, Paid
<1> QED
  BY <1>1, <1>2, <1>3, <1>4 DEF IInv

\* The types of what a guest's step may change.
LEMMA GuestTypes ==
  ASSUME IInv
  PROVE  /\ mirror \in GamesOrNone /\ faults \in Nat /\ count \in Nat
         /\ up \in Seq(Answers \cup Deeds) /\ inputs \in Seq(Answers) /\ actions \in Seq(Deeds)
         /\ away \in BOOLEAN /\ over \in BOOLEAN
         /\ ~ Coop => up = <<>> /\ inputs = <<>>
BY DEF IInv, TypeOK, Alone

LEMMA SendsKeeps ==
  ASSUME IInv, NEW m \in Answers \cup Deeds, Sends(m)
  PROVE  IInv'
<1>1. Coop /\ up' = Append(up, m)
      /\ UNCHANGED <<party, game, count, world, disk, queues, mirror, away, over, faults, log>>
  BY DEF Sends
<1>2. up' \in Seq(Answers \cup Deeds)
  BY <1>1, GuestTypes
<1> QED
  BY <1>1, <1>2, GuestTypes, GuestStep DEF queues

LEMMA GuestActsKeeps ==
  ASSUME IInv, GuestActs
  PROVE  IInv'
<1>1. PICK t \in {"strike", "talk"} : Sends([t |-> t, at |-> Closed])
  BY DEF GuestActs
<1>2. Closed \in Int
  BY GuestTypes DEF Closed
<1>3. [t |-> t, at |-> Closed] \in Deeds
  BY <1>2 DEF Deeds
<1> QED
  BY <1>1, <1>3, SendsKeeps

LEMMA GuestReadyKeeps ==
  ASSUME IInv, GuestReady
  PROVE  IInv'
<1>1. mirror.id \in Nat
  BY GuestTypes, GameFields, NoGameFacts DEF GamesOrNone
<1>2. [t |-> "ready", id |-> mirror.id] \in Answers
  BY <1>1 DEF Answers
<1> QED
  BY <1>2, SendsKeeps DEF GuestReady

LEMMA GuestPressesKeeps ==
  ASSUME IInv, GuestPresses
  PROVE  IInv'
<1>1. PICK cell \in Board(mirror.kind) :
        Sends([t |-> "press", id |-> mirror.id, rev |-> mirror.rev, cell |-> cell])
  BY DEF GuestPresses
<1>2. mirror \in Games
  BY GuestTypes, NoGameFacts DEF GamesOrNone, GuestPresses
<1>3. mirror.id \in Nat /\ mirror.rev \in Nat
  BY <1>2, GameFields
<1>4. cell \in Nat
  BY Sizes DEF Board
<1>5. [t |-> "press", id |-> mirror.id, rev |-> mirror.rev, cell |-> cell] \in Answers
  BY <1>3, <1>4 DEF Answers, Presses
<1> QED
  BY <1>1, <1>5, SendsKeeps

LEMMA OnIntentKeeps ==
  ASSUME IInv, OnIntent
  PROVE  IInv'
<1>1. /\ up # <<>> /\ up' = Tail(up)
      /\ UNCHANGED <<party, game, count, world, disk, chain, mirror, away, over, faults, log>>
  BY DEF OnIntent
<1>2. up' \in Seq(Answers \cup Deeds) /\ Head(up) \in Answers \cup Deeds
  BY <1>1, GuestTypes
<1>3. Coop
  BY <1>1, GuestTypes
<1>4. inputs' \in Seq(Answers) /\ actions' \in Seq(Deeds)
  <2>1. CASE /\ Head(up).t \in {"press", "ready"}
             /\ inputs' = Append(inputs, Head(up)) /\ UNCHANGED actions
    <3>1. Head(up) \in Answers
      BY <1>2, <2>1 DEF Deeds
    <3> QED
      BY <2>1, <3>1, GuestTypes
  <2>2. CASE /\ Head(up).t \in {"strike", "talk"} /\ UNCHANGED inputs
             /\ actions' = IF game # NoGame THEN <<>> ELSE Append(actions, Head(up))
    <3>1. Head(up) \in Deeds
      BY <1>2, <2>2 DEF Answers, Presses
    <3> QED
      BY <2>2, <3>1, GuestTypes
  <2> QED
    BY <2>1, <2>2 DEF OnIntent
<1> QED
  BY <1>1, <1>2, <1>3, <1>4, GuestTypes, GuestStep

LEMMA SnapshotKeeps ==
  ASSUME IInv, Snapshot
  PROVE  IInv'
<1>1. mirror' \in GamesOrNone
  <2>1. CASE game = NoGame
    BY <2>1 DEF Snapshot, Seen, GamesOrNone
  <2>2. CASE game # NoGame
    <3> DEFINE g == [game EXCEPT !.left = 0]
    <3>1. g \in Games
      BY <2>2, GameOn DEF Games
    <3> HIDE DEF g
    <3>2. Ingested(g) \in GamesOrNone
      BY <3>1, IngestedFacts DEF GamesOrNone
    <3> QED
      BY <2>2, <3>2 DEF Snapshot, Seen, g
  <2> QED
    BY <2>1, <2>2
<1>2. UNCHANGED <<party, game, count, world, disk, up, queues, away, over, faults, log>>
  BY DEF Snapshot
<1> QED
  BY <1>1, <1>2, GuestTypes, GuestStep DEF queues

LEMMA CutKeeps ==
  ASSUME IInv, Cut
  PROVE  IInv'
<1>1. PICK n \in 0..Len(up) : up' = SubSeq(up, 1, n)
  BY DEF Cut
<1>2. /\ Coop /\ away' = TRUE /\ faults' = faults + 1
      /\ UNCHANGED <<party, game, count, world, disk, queues, mirror, over, log>>
  BY DEF Cut, Fault
<1>3. up' \in Seq(Answers \cup Deeds)
  BY <1>1, GuestTypes
<1>4. faults' \in Nat
  BY <1>2, GuestTypes
<1> QED
  BY <1>2, <1>3, <1>4, GuestTypes, GuestStep DEF queues

LEMMA RejoinKeeps ==
  ASSUME IInv, Rejoin
  PROVE  IInv'
<1>1. mirror' \in GamesOrNone /\ away' \in BOOLEAN
  BY DEF Rejoin, GamesOrNone
<1>2. UNCHANGED <<party, game, count, world, disk, up, queues, over, faults, log>>
  BY DEF Rejoin
<1> QED
  BY <1>1, <1>2, GuestTypes, GuestStep DEF queues

LEMMA PartnerLeavesKeeps ==
  ASSUME IInv, PartnerLeaves
  PROVE  IInv'
<1>1. /\ over' = TRUE /\ game' = NoGame /\ mirror' = NoGame /\ log' = <<>> /\ away' = FALSE
      /\ up' = <<>> /\ inputs' = <<>> /\ actions' = <<>> /\ chain' = NoChain
      /\ UNCHANGED <<party, count, world, disk, faults>>
  BY DEF PartnerLeaves
<1>2. NoChain \in Chains /\ NoChain.instance = 0 /\ NoGame \in GamesOrNone
  BY DEF NoChain, Chains, GamesOrNone
<1>3. /\ log' \in Seq(Lines) /\ up' \in Seq(Answers \cup Deeds) /\ inputs' \in Seq(Answers)
      /\ actions' \in Seq(Deeds)
  BY <1>1
<1>4. TypeOK'
  BY <1>1, <1>2, <1>3 DEF IInv, TypeOK
<1>5. Alone'
  BY <1>1 DEF Alone
<1>6. Numbered' /\ Logged'
  <2>1. count \in Nat
    BY DEF IInv, TypeOK
  <2> QED
    BY <1>1, <1>2, <2>1 DEF Numbered, Logged
<1>7. Paid'
  BY <1>1 DEF IInv, Paid, RewardedIn
<1> QED
  BY <1>4, <1>5, <1>6, <1>7 DEF IInv

LEMMA CheckpointKeeps ==
  ASSUME IInv, Checkpoint
  PROVE  IInv'
<1>1. Saves(world, game) /\ UNCHANGED <<party, game, count, world, guest, queues, log>>
  BY DEF Checkpoint
<1>2. world \in Worlds /\ game \in GamesOrNone /\ RewardedIn(world, game)
  BY DEF IInv, TypeOK, Paid
<1> QED
  BY <1>1, <1>2, StoryStep

\* The run is read again: it is the one that was saved, and so is its log.
LEMMA CrashAndResumeKeeps ==
  ASSUME IInv, CrashAndResume
  PROVE  IInv'
<1> DEFINE g == disk.game
           n == IF g = NoGame THEN 0 ELSE g.rev
<1>1. /\ ~ Coop /\ faults' = faults + 1
      /\ world' = disk.world /\ game' = Ingested(g) /\ count' = g.id
      /\ log' = [r \in 1..n |-> By("disk", 0)]
      /\ UNCHANGED <<party, disk, guest, queues>>
  BY DEF CrashAndResume, Fault
<1>2. /\ disk.world \in Worlds /\ g \in GamesOrNone /\ RewardedIn(disk.world, g)
      /\ up = <<>> /\ inputs = <<>> /\ chain = NoChain
  BY <1>1 DEF IInv, TypeOK, Paid, Alone
<1>3. g \in Games => g.id \in Nat /\ g.id # 0 /\ g.rev \in Nat
  BY GameFields
<1>4. g.id \in Nat /\ n \in Nat
  BY <1>2, <1>3, NoGameFacts DEF GamesOrNone
<1>5. /\ game' \in GamesOrNone
      /\ game' # NoGame =>
           /\ g \in Games /\ game' \in Games
           /\ game'.id = g.id /\ game'.kind = g.kind /\ game'.rev = g.rev
  BY <1>1, <1>2, IngestedFacts
<1>6. By("disk", 0) \in Lines /\ By("disk", 0).who # "p2"
  BY DEF By, Lines, Players
<1> HIDE DEF g, n
<1>7. log' \in Seq(Lines) /\ Len(log') = n /\ \A r \in DOMAIN log' : log'[r].who # "p2"
  BY <1>1, <1>4, <1>6
<1>8. NoChain \in Chains /\ NoChain.instance = 0
  BY DEF NoChain, Chains
<1>9. TypeOK'
  BY <1>1, <1>2, <1>4, <1>5, <1>7 DEF IInv, TypeOK, guest, queues
<1>10. Alone'
  BY <1>1, <1>2 DEF Alone, Coop, guest, queues
<1>11. Numbered'
  BY <1>1, <1>2, <1>4, <1>5, <1>8 DEF Numbered, queues
<1>12. Logged'
  <2> SUFFICES ASSUME game' # NoGame
               PROVE  Sound(Current') /\ Bursting(Current', chain')
    BY DEF Logged
  <2>1. Current'.game = game' /\ Current'.log = log'
    BY DEF Current, State
  <2>2. FreshIn(game', log')
    BY <1>7 DEF FreshIn
  <2>3. n = game'.rev
    BY <1>5, NoGameFacts DEF n
  <2>4. Sound(Current')
    BY <1>5, <1>7, <2>1, <2>2, <2>3 DEF Sound
  <2>5. chain'.instance = 0 /\ game'.id # 0
    BY <1>1, <1>2, <1>3, <1>5, <1>8 DEF queues
  <2> QED
    BY <2>1, <2>4, <2>5 DEF Bursting
<1>13. RewardedIn(world', game')
  BY <1>1, <1>2, <1>5, NoGameFacts DEF RewardedIn
<1>14. Paid'
  BY <1>1, <1>2, <1>13 DEF Paid, g
<1> QED
  BY <1>9, <1>10, <1>11, <1>12, <1>14 DEF IInv

-----------------------------------------------------------------------------
(* The invariant holds *)

LEMMA InitHolds ==
  ASSUME Init
  PROVE  IInv
<1>1. /\ party \in {{"p1"}, {"p1", "p2"}}
      /\ game = NoGame /\ count = 0 /\ log = <<>> /\ world = Fresh
      /\ disk = [world |-> Fresh, game |-> NoGame]
      /\ up = <<>> /\ inputs = <<>> /\ actions = <<>> /\ chain = NoChain
      /\ mirror = NoGame /\ away = FALSE /\ over = FALSE /\ faults = 0
  BY DEF Init
<1>2. /\ Fresh \in Worlds /\ \A k \in Kinds : Fresh.done[k] = "open" /\ Fresh.boons[k] = 0
  BY DEF Fresh, Worlds, Results
<1>3. NoChain \in Chains /\ NoChain.instance = 0 /\ NoGame \in GamesOrNone
  BY DEF NoChain, Chains, GamesOrNone
<1>4. /\ log \in Seq(Lines) /\ up \in Seq(Answers \cup Deeds) /\ inputs \in Seq(Answers)
      /\ actions \in Seq(Deeds)
  BY <1>1
<1>5. disk \in [world: Worlds, game: GamesOrNone] /\ disk.world = Fresh /\ disk.game = NoGame
  BY <1>1, <1>2, <1>3
<1>6. TypeOK
  BY <1>1, <1>2, <1>3, <1>4, <1>5 DEF TypeOK
<1>7. RewardedIn(Fresh, NoGame)
  BY <1>2 DEF RewardedIn
<1>8. Paid
  BY <1>1, <1>5, <1>7 DEF Paid
<1>9. Alone /\ Numbered /\ Logged
  BY <1>1, <1>3 DEF Alone, Numbered, Logged
<1> QED
  BY <1>6, <1>8, <1>9 DEF IInv

LEMMA StutterHolds ==
  ASSUME IInv, UNCHANGED vars
  PROVE  IInv'
BY GuestTypes, GuestStep DEF vars

LEMMA StepHolds == IInv /\ [Next]_vars => IInv'
<1> SUFFICES ASSUME IInv, [Next]_vars PROVE IInv'
  OBVIOUS
<1>1. CASE ChoosePath \/ TalkToFrog \/ FaceSoul \/ ConfirmReady
  BY <1>1, ChoosePathKeeps, TalkToFrogKeeps, FaceSoulKeeps, ConfirmReadyKeeps
<1>2. CASE \E cell \in 1..(2 * Goal), next \in Wakes : Press(cell, next)
  BY <1>2, PressKeeps
<1>3. CASE FrameInWorld
  BY <1>3, FrameInWorldKeeps
<1>4. CASE \E beats \in 0..1 : FrameWith(beats)
  BY <1>4, FrameInGameKeeps DEF FrameWith
<1>5. CASE GuestActs \/ GuestReady \/ GuestPresses
  BY <1>5, GuestActsKeeps, GuestReadyKeeps, GuestPressesKeeps
<1>6. CASE OnIntent \/ Snapshot \/ Cut \/ Rejoin \/ PartnerLeaves
  BY <1>6, OnIntentKeeps, SnapshotKeeps, CutKeeps, RejoinKeeps, PartnerLeavesKeeps
<1>7. CASE Checkpoint \/ CrashAndResume
  BY <1>7, CheckpointKeeps, CrashAndResumeKeeps
<1>8. CASE UNCHANGED vars
  BY <1>8, StutterHolds
<1> QED
  BY <1>1, <1>2, <1>3, <1>4, <1>5, <1>6, <1>7, <1>8 DEF Next

LEMMA SpecHolds == Spec => []IInv
<1>1. Init => IInv
  BY InitHolds
<1> QED
  BY <1>1, StepHolds, PTL DEF Spec

-----------------------------------------------------------------------------
(* What the guest does before it sees a game *)

Did(m) == m.t \in {"strike", "talk"}
Asks(m, id) == m.t = "ready" /\ m.id = id

\* The guest's part in a game.
Proper(g) ==
  /\ "p2" \in g.required
  /\ g.phase # "ready" => "p2" \in g.ready
  /\ (g.phase = "result") = (g.outcome # "open")

\* The guest has seen a game, and of what it did before nothing is under way.
Told == mirror # NoGame /\ \A i \in DOMAIN up : ~ Did(up[i])

\* It can confirm only what has begun.
KnownIds ==
  /\ mirror.id <= count
  /\ \A i \in DOMAIN up : up[i].t = "ready" => up[i].id <= count
  /\ \A i \in DOMAIN inputs : inputs[i].t = "ready" => inputs[i].id <= count

\* No game has been closed since it did what has not been carried out.
Sampled ==
  /\ \A i \in DOMAIN actions : actions[i].at = Closed
  /\ \A i \in DOMAIN up : Did(up[i]) => up[i].at = Closed

\* A game cannot go on before the guest confirms it, and its confirmation comes
\* behind all it did before.
Answered ==
  game # NoGame =>
    /\ game.id = count /\ Proper(game)
    /\ "p2" \in game.ready => Told
    /\ \A i \in DOMAIN inputs : Asks(inputs[i], game.id) => Told
    /\ \A i \in DOMAIN up : Asks(up[i], game.id) =>
         mirror # NoGame /\ \A j \in DOMAIN up : j > i => ~ Did(up[j])

LInv ==
  /\ ~ Coop => actions = <<>>
  /\ Coop /\ faults = 0 => ~ away /\ KnownIds /\ Sampled /\ Answered

(* The steps of a game *)

SameTerms(g, h) ==
  /\ h.id = g.id /\ h.required = g.required /\ h.ready = g.ready
  /\ h.phase = g.phase /\ h.outcome = g.outcome

\* h comes of g, without a confirmation of the guest.
Alike(g, h) ==
  /\ h.id = g.id
  /\ Proper(g) => Proper(h)
  /\ "p2" \in h.ready => "p2" \in g.ready

LEMMA TermsAlike ==
  ASSUME NEW g, NEW h, SameTerms(g, h)
  PROVE  Alike(g, h)
BY DEF SameTerms, Alike, Proper

LEMMA AlikeOn ==
  ASSUME NEW g, NEW h, NEW k, Alike(g, h), Alike(h, k)
  PROVE  Alike(g, k)
BY DEF Alike

LEMMA RevisedTerms ==
  ASSUME NEW g \in Games, NEW l, NEW line
  PROVE  SameTerms(g, Revised(g, l, line).game)
BY DEF Revised, State, Games, SameTerms

LEMMA SpentTerms ==
  ASSUME NEW g \in Games
  PROVE  SameTerms(g, Spent(g))
BY DEF Spent, Games, SameTerms

LEMMA ScoredTerms ==
  ASSUME NEW g \in Games
  PROVE  SameTerms(g, Scored(g))
BY DEF Scored, Games, SameTerms

LEMMA TurnedTerms ==
  ASSUME NEW g \in Games, NEW cell \in Nat
  PROVE  SameTerms(g, Turned(g, cell))
<1>1. CASE g.revealed = {}
  <2> DEFINE h == [g EXCEPT !.revealed = {cell}]
  <2>1. Turned(g, cell) = h
    BY <1>1 DEF Turned
  <2>2. SameTerms(g, h)
    BY DEF Games, SameTerms
  <2> QED
    BY <2>1, <2>2
<1>2. CASE g.revealed # {} /\ \E first \in g.revealed : Mates(first, cell)
  <2> DEFINE s == Scored(g)
             h == [s EXCEPT !.matched = @ \cup g.revealed \cup {cell}, !.revealed = {}]
  <2>1. Turned(g, cell) = h
    BY <1>2 DEF Turned
  <2>2. s \in Games /\ SameTerms(g, s)
    BY ScoredFacts, ScoredTerms
  <2> HIDE DEF s
  <2>3. SameTerms(s, h)
    BY <2>2 DEF Games, SameTerms
  <2> HIDE DEF h
  <2> QED
    BY <2>1, <2>2, <2>3 DEF SameTerms
<1>3. CASE g.revealed # {} /\ ~ \E first \in g.revealed : Mates(first, cell)
  <2> DEFINE h == [g EXCEPT !.revealed = @ \cup {cell}, !.locked = TRUE]
  <2>1. Turned(g, cell) = h
    BY <1>3 DEF Turned
  <2>2. SameTerms(g, h)
    BY DEF Games, SameTerms
  <2> QED
    BY <2>1, <2>2
<1> QED
  BY <1>1, <1>2, <1>3

LEMMA FinishedAlike ==
  ASSUME NEW S, S.game \in Games, S.game.phase # "ready", NEW won \in BOOLEAN
  PROVE  Alike(S.game, Finished(S, won).game)
<1>1. CASE S.game.outcome # "open"
  BY <1>1 DEF Finished, Alike
<1>2. CASE S.game.outcome = "open"
  <2> DEFINE g == S.game
             h == [g EXCEPT !.outcome = IF won THEN "won" ELSE "lost",
                            !.phase = "result", !.active = 0, !.locked = FALSE]
             T == Finished(S, won)
  <2>1. T = Revised(h, S.log, By("end", 0))
    BY <1>2 DEF Finished
  <2>2. /\ h \in Games /\ h.id = g.id /\ h.required = g.required /\ h.ready = g.ready
        /\ h.phase = "result" /\ h.outcome # "open"
    BY DEF Games, Results
  <2> HIDE DEF h
  <2>3. SameTerms(h, T.game)
    BY <2>1, <2>2, RevisedTerms
  <2> HIDE DEF T
  <2> QED
    BY <2>2, <2>3 DEF Alike, SameTerms, Proper, T
<1> QED
  BY <1>1, <1>2

LEMMA PressedAlike ==
  ASSUME NEW S, S.game \in Games, S.game.phase = "play",
         NEW cell \in Nat, NEW next \in Nat, NEW line
  PROVE  Alike(S.game, Pressed(S, cell, line, next).game)
<1> DEFINE g == S.game
           s == Scored(g)
           h == CASE g.kind = "soul" -> Turned(g, cell)
                  [] g.kind # "soul" /\ cell = Right(g) -> [s EXCEPT !.active = next]
                  [] OTHER -> Spent(g)
           P == Revised(h, S.log, line)
           T == Pressed(S, cell, line, next)
<1>1. g \in Games
  OBVIOUS
<1>2. T = IF h.score >= Goal THEN Finished(P, TRUE) ELSE P
  BY DEF Pressed
<1>3. h \in Games /\ SameTerms(g, h)
  <2>1. CASE g.kind = "soul"
    <3>1. h = Turned(g, cell)
      BY <2>1
    <3> HIDE DEF h
    <3> QED
      BY <1>1, <3>1, TurnedFacts, TurnedTerms
  <2>2. CASE g.kind # "soul" /\ cell = Right(g)
    <3>1. h = [s EXCEPT !.active = next]
      BY <2>2
    <3>2. s \in Games /\ SameTerms(g, s)
      BY <1>1, ScoredFacts, ScoredTerms
    <3> HIDE DEF h, s
    <3>3. h \in Games /\ SameTerms(s, h)
      BY <3>1, <3>2 DEF Games, SameTerms
    <3> QED
      BY <3>2, <3>3 DEF SameTerms
  <2>3. CASE g.kind # "soul" /\ cell # Right(g)
    <3>1. h = Spent(g)
      BY <2>3
    <3> HIDE DEF h
    <3> QED
      BY <1>1, <3>1, SpentFacts, SpentTerms
  <2> QED
    BY <2>1, <2>2, <2>3
<1> HIDE DEF h
<1>4. P.game \in Games /\ SameTerms(h, P.game)
  BY <1>3, RevisedFacts, RevisedTerms
<1>5. SameTerms(g, P.game) /\ P.game.phase = "play"
  BY <1>3, <1>4 DEF SameTerms
<1>6. Alike(g, P.game)
  BY <1>5, TermsAlike
<1> HIDE DEF P
<1>7. Alike(P.game, Finished(P, TRUE).game)
  BY <1>4, <1>5, FinishedAlike
<1>8. Alike(g, Finished(P, TRUE).game)
  BY <1>6, <1>7, AlikeOn
<1> HIDE DEF T
<1>9. Alike(g, T.game)
  BY <1>2, <1>6, <1>8
<1> QED
  BY <1>9 DEF T

LEMMA AgedTerms ==
  ASSUME NEW S, S.game \in Games, NEW wake \in Nat
  PROVE  SameTerms(S.game, Aged(S, wake).game)
<1> DEFINE g == S.game
           s == Spent(g)
           A == Aged(S, wake)
<1>1. s \in Games /\ SameTerms(g, s)
  BY SpentFacts, SpentTerms
<1>2. CASE g.kind = "garden" /\ wake # 0
  <2> DEFINE h == [s EXCEPT !.active = wake]
  <2>1. A = Revised(h, S.log, By("clock", 0))
    BY <1>2 DEF Aged
  <2> HIDE DEF s, A
  <2>2. h \in Games /\ SameTerms(s, h)
    BY <1>1 DEF Games, SameTerms
  <2> HIDE DEF h
  <2>3. SameTerms(h, A.game)
    BY <2>1, <2>2, RevisedTerms
  <2> QED
    BY <1>1, <2>2, <2>3 DEF SameTerms, A
<1>3. CASE g.kind = "soul" /\ g.locked
  <2> DEFINE h == [s EXCEPT !.locked = FALSE, !.revealed = {}]
  <2>1. A = Revised(h, S.log, By("clock", 0))
    BY <1>3 DEF Aged
  <2> HIDE DEF s, A
  <2>2. h \in Games /\ SameTerms(s, h)
    BY <1>1 DEF Games, SameTerms
  <2> HIDE DEF h
  <2>3. SameTerms(h, A.game)
    BY <2>1, <2>2, RevisedTerms
  <2> QED
    BY <1>1, <2>2, <2>3 DEF SameTerms, A
<1>4. CASE ~ (g.kind = "garden" /\ wake # 0) /\ ~ (g.kind = "soul" /\ g.locked)
  <2>1. A = State(s, S.log)
    BY <1>4 DEF Aged
  <2>2. State(s, S.log).game = s
    BY DEF State
  <2> HIDE DEF s, A
  <2>3. A.game = s
    BY <2>1, <2>2
  <2> QED
    BY <1>1, <2>3 DEF A
<1> QED
  BY <1>2, <1>3, <1>4

LEMMA BeatAlike ==
  ASSUME NEW S, Sound(S), NEW wake \in Nat
  PROVE  Alike(S.game, Beat(S, wake).game)
<1> DEFINE g == S.game
           A == Aged(S, wake)
           B == Beat(S, wake)
<1>1. g \in Games
  BY DEF Sound
<1>2. CASE g.phase = "preview"
  <2> DEFINE h == [g EXCEPT !.phase = "play", !.left = Limit]
  <2>1. B = Revised(h, S.log, By("clock", 0))
    BY <1>2 DEF Beat
  <2>2. /\ h \in Games /\ h.id = g.id /\ h.required = g.required /\ h.ready = g.ready
        /\ h.phase = "play" /\ h.outcome = g.outcome
    BY <1>1, Sizes DEF Games
  <2> HIDE DEF h
  <2>3. SameTerms(h, B.game)
    BY <2>1, <2>2, RevisedTerms
  <2>4. Alike(g, h)
    BY <1>2, <2>2 DEF Alike, Proper
  <2>5. Alike(h, B.game)
    BY <2>3, TermsAlike
  <2> QED
    BY <2>4, <2>5, AlikeOn DEF B
<1>3. CASE g.phase = "play"
  <2>1. B = IF TimeIsUp(g, A.game) THEN Finished(A, A.game.score >= Goal) ELSE A
    BY <1>3 DEF Beat
  <2>2. A.game \in Games /\ SameTerms(g, A.game)
    BY <1>1, AgedFollows, AgedTerms DEF Follows, Sound
  <2>3. A.game.phase # "ready" /\ Alike(g, A.game)
    BY <1>3, <2>2, TermsAlike DEF SameTerms
  <2> DEFINE won == A.game.score >= Goal
  <2>4. won \in BOOLEAN
    OBVIOUS
  <2> HIDE DEF A, won
  <2>5. Alike(A.game, Finished(A, won).game)
    BY <2>2, <2>3, <2>4, FinishedAlike
  <2>6. Alike(g, Finished(A, won).game)
    BY <2>3, <2>5, AlikeOn
  <2> HIDE DEF B
  <2>7. Alike(g, B.game)
    BY <2>1, <2>3, <2>6 DEF won
  <2> QED
    BY <2>7 DEF B
<1>4. CASE g.phase # "preview" /\ g.phase # "play"
  BY <1>4 DEF Beat, Alike
<1> QED
  BY <1>2, <1>3, <1>4

\* Only the guest confirms for the guest.
LEMMA ConfirmedTells ==
  ASSUME NEW S, S.game \in Games, NEW player \in Players
  PROVE  /\ Confirmed(S, player).game.id = S.game.id
         /\ Proper(S.game) => Proper(Confirmed(S, player).game)
         /\ player # "p2" => Alike(S.game, Confirmed(S, player).game)
<1>1. CASE ~ Confirms(S.game, player)
  BY <1>1 DEF Confirmed, Alike
<1>2. CASE Confirms(S.game, player)
  <2> DEFINE f == S.game
             g == [f EXCEPT !.ready = @ \cup {player}]
             h == [g EXCEPT !.phase = IF g.required \subseteq g.ready THEN "preview" ELSE "ready"]
             T == Confirmed(S, player)
  <2>1. T = Revised(h, S.log, By(player, 0))
    BY <1>2 DEF Confirmed
  <2>2. f.phase = "ready" /\ f.outcome = "open"
    BY <1>2 DEF Confirms
  <2>3. /\ g \in Games /\ g.id = f.id /\ g.required = f.required
        /\ g.ready = f.ready \cup {player} /\ g.outcome = f.outcome
    BY DEF Games
  <2> HIDE DEF g
  <2>4. /\ h \in Games /\ h.id = g.id /\ h.required = g.required
        /\ h.ready = g.ready /\ h.outcome = g.outcome
        /\ h.phase \in {"preview", "ready"}
        /\ h.phase = "preview" => g.required \subseteq g.ready
    BY <2>3 DEF Games
  <2> HIDE DEF h
  <2>5. SameTerms(h, T.game)
    BY <2>1, <2>4, RevisedTerms
  <2> HIDE DEF T
  <2>6. T.game.id = f.id /\ (Proper(f) => Proper(T.game))
    BY <2>2, <2>3, <2>4, <2>5 DEF SameTerms, Proper
  <2>7. player # "p2" => Alike(f, T.game)
    BY <2>3, <2>4, <2>5, <2>6 DEF SameTerms, Alike
  <2> QED
    BY <2>6, <2>7 DEF T
<1> QED
  BY <1>1, <1>2

\* One intent: what it may make of the guest's confirmation.
LEMMA OneTells ==
  ASSUME NEW A, Steady(A), NEW m \in Answers, NEW next \in Nat
  PROVE  /\ AppliedOne(A, m, next).game.id = A.game.id
         /\ Proper(A.game) => Proper(AppliedOne(A, m, next).game)
         /\ "p2" \in AppliedOne(A, m, next).game.ready =>
              "p2" \in A.game.ready \/ Asks(m, A.game.id)
<1> DEFINE S == State(A.game, A.log)
           B == AppliedOne(A, m, next)
<1>1. S.game = A.game
  BY DEF State
<1>2. A.game \in Games
  BY DEF Steady
<1>3. CASE m.t = "ready"
  <2> DEFINE R == IF m.id = A.game.id THEN Confirmed(S, "p2") ELSE S
  <2>1. B = [game |-> R.game, log |-> R.log, chain |-> NoChain]
    BY <1>3 DEF AppliedOne, AppliedReady
  <2>2. /\ Confirmed(S, "p2").game.id = A.game.id
        /\ Proper(A.game) => Proper(Confirmed(S, "p2").game)
    <3> HIDE DEF S
    <3> QED
      BY <1>1, <1>2, ConfirmedTells DEF Players
  <2>3. /\ R.game.id = A.game.id
        /\ Proper(A.game) => Proper(R.game)
        /\ m.id # A.game.id => R.game = A.game
    <3> HIDE DEF S
    <3> QED
      BY <1>1, <2>2
  <2> HIDE DEF R, B
  <2>4. B.game = R.game
    BY <2>1
  <2> QED
    BY <1>3, <2>3, <2>4 DEF Asks, B
<1>4. CASE m.t # "ready"
  <2>1. m \in Presses
    BY <1>4 DEF Answers
  <2>2. m.cell \in Nat
    BY <2>1 DEF Presses
  <2> DEFINE P == Pressed(S, m.cell, By("p2", m.rev), next)
  <2>3. \/ B = A
        \/ B = [A EXCEPT !.chain = NoChain]
        \/ /\ Accepts(A.game, m.cell, A.game.rev)
           /\ B = [game |-> P.game, log |-> P.log,
                   chain |-> [instance |-> m.id, wire |-> m.rev, state |-> P.game.rev]]
    BY <1>4 DEF AppliedOne, AppliedPress
  <2>4. Accepts(A.game, m.cell, A.game.rev) => Alike(A.game, P.game)
    <3> SUFFICES ASSUME Accepts(A.game, m.cell, A.game.rev)
                 PROVE  Alike(A.game, P.game)
      OBVIOUS
    <3>1. A.game.phase = "play"
      BY DEF Accepts
    <3> HIDE DEF S
    <3> DEFINE line == By("p2", m.rev)
    <3> HIDE DEF line
    <3>2. Alike(S.game, Pressed(S, m.cell, line, next).game)
      BY <1>1, <1>2, <2>2, <3>1, PressedAlike
    <3> QED
      BY <1>1, <3>2 DEF line
  <2>5. Alike(A.game, A.game)
    BY DEF Alike
  <2> HIDE DEF P, B
  <2>6. [A EXCEPT !.chain = NoChain].game = A.game
    BY DEF Steady
  <2>7. \/ B.game = A.game
        \/ Accepts(A.game, m.cell, A.game.rev) /\ B.game = P.game
    <3> DEFINE c == [instance |-> m.id, wire |-> m.rev, state |-> P.game.rev]
    <3> HIDE DEF c
    <3>1. [game |-> P.game, log |-> P.log, chain |-> c].game = P.game
      OBVIOUS
    <3> QED
      BY <2>3, <2>6, <3>1 DEF c
  <2>8. Alike(A.game, B.game)
    BY <2>4, <2>5, <2>7
  <2> QED
    BY <2>8 DEF Alike, B
<1> QED
  BY <1>3, <1>4

\* All the intents of a frame.
LEMMA AppliedTells ==
  ASSUME inputs \in Seq(Answers), NEW next \in Nat, Steady(Before)
  PROVE  /\ Applied(next).game.id = game.id
         /\ Proper(game) => Proper(Applied(next).game)
         /\ "p2" \in Applied(next).game.ready =>
              \/ "p2" \in game.ready
              \/ \E i \in DOMAIN inputs : Asks(inputs[i], game.id)
<1>1. /\ Len(inputs) \in Nat /\ \A i \in 1..Len(inputs) : inputs[i] \in Answers
      /\ DOMAIN inputs = 1..Len(inputs)
  OBVIOUS
<1>2. PICK f : Trail(f, Len(inputs), next) /\ Applied(next) = f[Len(inputs)]
  BY <1>1, AppliedTrail
<1>3. \A i \in 0..Len(inputs) :
        f[i] = IF i = 0 THEN Before ELSE AppliedOne(f[i - 1], inputs[i], next)
  BY <1>2 DEF Trail
<1> DEFINE Tells(A) ==
             /\ Steady(A)
             /\ A.game.id = game.id
             /\ Proper(game) => Proper(A.game)
             /\ "p2" \in A.game.ready =>
                  \/ "p2" \in game.ready
                  \/ \E i \in DOMAIN inputs : Asks(inputs[i], game.id)
           S == {k \in Nat : k \in 0..Len(inputs) => Tells(f[k])}
<1>4. 0 \in S
  <2>1. f[0] = Before /\ Before.game = game
    BY <1>1, <1>3 DEF Before
  <2> QED
    BY <2>1
<1>5. ASSUME NEW k \in Nat, k \in S
      PROVE  k + 1 \in S
  <2> SUFFICES ASSUME k + 1 \in 0..Len(inputs)
               PROVE  Tells(f[k + 1])
    OBVIOUS
  <2>1. f[k + 1] = AppliedOne(f[k], inputs[k + 1], next) /\ inputs[k + 1] \in Answers
        /\ k + 1 \in DOMAIN inputs
    BY <1>1, <1>3
  <2>2. Tells(f[k])
    BY <1>1, <1>5
  <2>3. Steady(f[k + 1])
    BY <2>1, <2>2, OneLeads DEF Leads
  <2>4. /\ f[k + 1].game.id = f[k].game.id
        /\ Proper(f[k].game) => Proper(f[k + 1].game)
        /\ "p2" \in f[k + 1].game.ready =>
             "p2" \in f[k].game.ready \/ Asks(inputs[k + 1], f[k].game.id)
    BY <2>1, <2>2, OneTells
  <2> QED
    BY <2>1, <2>2, <2>3, <2>4
<1> HIDE DEF S
<1>6. Nat \subseteq S
  BY <1>4, <1>5, NaturalSet
<1> QED
  BY <1>1, <1>2, <1>6 DEF S

(* The steps of the run *)

\* Without a fault there was none before.
LEMMA FaultsOnlyGrow ==
  ASSUME IInv, faults' \in {faults, faults + 1}, faults' = 0
  PROVE  faults = 0
BY DEF IInv, TypeOK

LEMMA SavesFaults ==
  ASSUME NEW w, NEW g, Saves(w, g)
  PROVE  faults' \in {faults, faults + 1}
BY DEF Saves

\* Nothing of all this changes.
LEMMA SameLeaks ==
  ASSUME IInv, LInv, faults' \in {faults, faults + 1},
         UNCHANGED <<party, game, count, up, inputs, actions, mirror, away>>
  PROVE  LInv'
<1>1. faults' = 0 => faults = 0
  BY FaultsOnlyGrow
<1>2. KnownIds' = KnownIds
  BY DEF KnownIds
<1>3. Sampled' = Sampled
  BY DEF Sampled, Closed
<1>4. Answered' = Answered
  BY DEF Answered, Told
<1> QED
  BY <1>1, <1>2, <1>3, <1>4 DEF LInv, Coop

\* A game begins: none of what is under way is about it.
LEMMA StartLeaks ==
  ASSUME IInv, LInv, NEW kind \in Kinds, Starts(kind), UNCHANGED <<party, guest>>,
         inputs' = inputs \/ inputs' = <<>>, actions' = actions \/ actions' = <<>>
  PROVE  LInv'
<1>1. /\ game = NoGame /\ game' = Created(kind, count + 1) /\ count' = count + 1
      /\ Saves(world, game')
  BY DEF Starts
<1>2. UNCHANGED <<party, up, mirror, away>>
  BY DEF guest
<1>3. /\ count \in Nat /\ party \in SUBSET Players /\ mirror \in GamesOrNone
      /\ up \in Seq(Answers \cup Deeds) /\ inputs \in Seq(Answers) /\ actions \in Seq(Deeds)
  BY PartyFacts DEF IInv, TypeOK
<1>4. count + 1 \in Nat \ {0}
  BY <1>3
<1>5. /\ game' \in Games /\ game'.id = count + 1
  BY <1>1, <1>3, <1>4, CreatedFacts
<1>6. game'.ready = {} /\ game'.required = party /\ game'.phase = "ready"
      /\ game'.outcome = "open"
  BY <1>1 DEF Created
<1>7. game' # NoGame
  BY <1>5, NoGameFacts
<1>8. ~ Coop' => actions' = <<>>
  BY <1>2 DEF LInv, Coop
<1> SUFFICES ASSUME Coop', faults' = 0
             PROVE  ~ away' /\ KnownIds' /\ Sampled' /\ Answered'
  BY <1>8 DEF LInv
<1>9. Coop /\ "p2" \in party
  BY <1>2 DEF Coop
<1>10. ~ away /\ KnownIds /\ Sampled
  <2>1. faults = 0
    BY <1>1, SavesFaults, FaultsOnlyGrow
  <2> QED
    BY <1>9, <2>1 DEF LInv
<1>11. Closed' = Closed
  BY <1>1, <1>3, <1>7 DEF Closed
<1>12. /\ mirror.id \in Nat
       /\ \A i \in DOMAIN up : up[i].t = "ready" => up[i].id \in Nat
       /\ \A i \in DOMAIN inputs : inputs[i].t = "ready" => inputs[i].id \in Nat
  <2>1. mirror.id \in Nat
    BY <1>3, GameFields, NoGameFacts DEF GamesOrNone
  <2>2. \A i \in DOMAIN up : up[i] \in Answers \cup Deeds
    BY <1>3
  <2>3. \A m \in Answers \cup Deeds : m.t = "ready" => m.id \in Nat
    BY DEF Answers, Presses, Deeds
  <2>4. \A i \in DOMAIN inputs : inputs[i] \in Answers
    BY <1>3
  <2> QED
    BY <2>1, <2>2, <2>3, <2>4
<1>13. /\ DOMAIN inputs' \subseteq DOMAIN inputs
       /\ \A i \in DOMAIN inputs' : inputs'[i] = inputs[i]
  OBVIOUS
<1>14. /\ DOMAIN actions' \subseteq DOMAIN actions
       /\ \A i \in DOMAIN actions' : actions'[i] = actions[i]
  OBVIOUS
<1>15. KnownIds'
  <2>1. mirror'.id <= count'
    BY <1>1, <1>2, <1>3, <1>10, <1>12 DEF KnownIds
  <2>2. \A i \in DOMAIN up' : up'[i].t = "ready" => up'[i].id <= count'
    BY <1>1, <1>2, <1>3, <1>10, <1>12 DEF KnownIds
  <2>3. ASSUME NEW i \in DOMAIN inputs', inputs'[i].t = "ready"
        PROVE  inputs'[i].id <= count'
    <3>1. i \in DOMAIN inputs /\ inputs'[i] = inputs[i]
      BY <1>13
    <3>2. inputs[i].t = "ready"
      BY <2>3, <3>1
    <3>3. inputs[i].id \in Nat
      BY <1>12, <3>1, <3>2
    <3>4. inputs[i].id <= count
      BY <1>10, <3>1, <3>2 DEF KnownIds
    <3> QED
      BY <1>1, <1>3, <3>1, <3>3, <3>4
  <2> QED
    BY <2>1, <2>2, <2>3 DEF KnownIds
<1>16. Sampled'
  BY <1>2, <1>10, <1>11, <1>14 DEF Sampled
<1>17. /\ \A i \in DOMAIN up' : ~ Asks(up'[i], game'.id)
       /\ \A i \in DOMAIN inputs' : ~ Asks(inputs'[i], game'.id)
  BY <1>2, <1>3, <1>5, <1>10, <1>12, <1>13 DEF KnownIds, Asks
<1>18. Proper(game')
  BY <1>6, <1>9 DEF Proper
<1>19. Answered'
  BY <1>1, <1>5, <1>6, <1>17, <1>18 DEF Answered
<1> QED
  BY <1>2, <1>10, <1>15, <1>16, <1>19

\* The game goes on without a word of the guest.
LEMMA AlikeLeaks ==
  ASSUME IInv, LInv, game # NoGame, game' # NoGame, Alike(game, game'),
         faults' \in {faults, faults + 1}, UNCHANGED <<party, count, guest, queues>>
  PROVE  LInv'
<1>1. UNCHANGED <<party, count, up, inputs, actions, mirror, away>>
  BY DEF guest, queues
<1>2. faults' = 0 => faults = 0
  BY FaultsOnlyGrow
<1>3. KnownIds' = KnownIds
  BY <1>1 DEF KnownIds
<1>4. Sampled' = Sampled
  BY <1>1 DEF Sampled, Closed
<1>5. Told' = Told
  BY <1>1 DEF Told
<1>6. Answered => Answered'
  BY <1>1, <1>5 DEF Answered, Alike
<1> QED
  BY <1>1, <1>2, <1>3, <1>4, <1>6 DEF LInv, Coop

LEMMA HostLeaks ==
  ASSUME IInv, LInv, ChoosePath \/ TalkToFrog \/ FaceSoul
  PROVE  LInv'
<1>1. CASE \E kind \in Kinds : Starts(kind) /\ UNCHANGED <<party, guest, queues>>
  BY <1>1, StartLeaks DEF queues
<1>2. CASE /\ game = NoGame /\ Saves(world', game)
           /\ UNCHANGED <<game, count, log>> /\ UNCHANGED <<party, guest, queues>>
  <2>1. faults' \in {faults, faults + 1}
    BY <1>2, SavesFaults
  <2> QED
    BY <1>2, <2>1, SameLeaks DEF guest, queues
<1> QED
  BY <1>1, <1>2 DEF ChoosePath, TalkToFrog, FaceSoul

LEMMA ConfirmReadyLeaks ==
  ASSUME IInv, LInv, ConfirmReady
  PROVE  LInv'
<1> DEFINE S == State(game, log)
<1>1. /\ game # NoGame /\ Becomes(Confirmed(S, "p1")) /\ Saves(world, game')
      /\ UNCHANGED <<party, count, guest, queues>>
  BY DEF ConfirmReady
<1>2. S.game = game /\ game \in Games
  BY <1>1, GameOn DEF State
<1>3. game' = Confirmed(S, "p1").game
  BY <1>1 DEF Becomes
<1> HIDE DEF S
<1>4. Alike(game, game')
  BY <1>2, <1>3, ConfirmedTells DEF Players
<1>5. game' # NoGame
  BY <1>2, <1>4, GameFields, NoGameFacts DEF Alike
<1>6. faults' \in {faults, faults + 1}
  BY <1>1, SavesFaults
<1> QED
  BY <1>1, <1>4, <1>5, <1>6, AlikeLeaks

LEMMA PressLeaks ==
  ASSUME IInv, LInv, NEW cell \in 1..(2 * Goal), NEW next \in Wakes, Press(cell, next)
  PROVE  LInv'
<1> DEFINE S == State(game, log)
           line == By("p1", game.rev)
<1>1. /\ game # NoGame /\ Accepts(game, cell, game.rev)
      /\ Becomes(Pressed(S, cell, line, next))
      /\ UNCHANGED <<party, count, guest, queues, faults>>
  BY DEF Press
<1>2. S.game = game /\ game \in Games /\ game.phase = "play"
  BY <1>1, GameOn DEF State, Accepts
<1>3. game' = Pressed(S, cell, line, next).game
  BY <1>1 DEF Becomes
<1>4. cell \in Nat /\ next \in Nat
  BY Sizes, WakesFacts
<1> HIDE DEF S, line
<1>5. Alike(game, game')
  BY <1>2, <1>3, <1>4, PressedAlike
<1>6. game' # NoGame
  BY <1>2, <1>5, GameFields, NoGameFacts DEF Alike
<1> QED
  BY <1>1, <1>5, <1>6, AlikeLeaks

\* The frame's game is over, and nothing the guest did before it is left; or it goes on.
LEMMA FrameInGameLeaks ==
  ASSUME IInv, LInv, NEW beats \in 0..1, NEW next \in Wakes, NEW wake \in Wakes \cup {0},
         FrameInGame(beats, next, wake)
  PROVE  LInv'
<1> DEFINE A == Applied(next)
           S == IF beats = 1 THEN Beat(A, wake) ELSE A
<1>1. /\ game # NoGame /\ inputs' = <<>> /\ actions' = <<>>
      /\ UNCHANGED <<party, count, up, mirror, away>>
  BY DEF FrameInGame, Neutralised, guest
<1>2. \/ game.phase = "result" /\ Finalize
      \/ Becomes(S) /\ UNCHANGED faults
  BY DEF FrameInGame
<1>3. next \in Nat /\ wake \in Nat
  BY WakesFacts
<1>4. /\ Steady(Before) /\ Before.game = game /\ game \in Games /\ game.id # 0
      /\ inputs \in Seq(Answers)
  BY <1>1, GameOn DEF IInv, TypeOK
<1>5. Leads(Before, A) \/ A = Before
  BY <1>3, <1>4, AppliedKeeps
<1>6. Sound(A)
  BY <1>4, <1>5 DEF Leads, Steady
<1>7. /\ A.game.id = game.id
      /\ Proper(game) => Proper(A.game)
      /\ "p2" \in A.game.ready =>
           \/ "p2" \in game.ready
           \/ \E i \in DOMAIN inputs : Asks(inputs[i], game.id)
  BY <1>3, <1>4, AppliedTells
<1> HIDE DEF A
<1>8. Alike(A.game, S.game)
  <2>1. Alike(A.game, A.game)
    BY DEF Alike
  <2> QED
    BY <1>3, <1>6, <2>1, BeatAlike
<1> HIDE DEF S
<1>9. faults' \in {faults, faults + 1}
  BY <1>2, SavesFaults DEF Finalize, SavesAfterClosing
<1> SUFFICES ASSUME Coop', faults' = 0
             PROVE  ~ away' /\ KnownIds' /\ Sampled' /\ Answered'
  BY <1>1 DEF LInv
<1>10. Coop /\ faults = 0
  BY <1>1, <1>9, FaultsOnlyGrow DEF Coop
<1>11. ~ away /\ KnownIds /\ Sampled /\ Answered
  BY <1>10 DEF LInv
<1>12. KnownIds'
  BY <1>1, <1>11 DEF KnownIds
<1>13. "p2" \in A.game.ready => Told
  BY <1>1, <1>7, <1>11 DEF Answered
<1>14. CASE game.phase = "result" /\ Finalize
  <2>1. game' = NoGame
    BY <1>14 DEF Finalize
  <2>2. Told
    BY <1>1, <1>11, <1>14 DEF Answered, Proper
  <2>3. Sampled'
    BY <1>1, <2>2 DEF Sampled, Told
  <2>4. Answered'
    BY <2>1 DEF Answered
  <2> QED
    BY <1>1, <1>11, <1>12, <2>3, <2>4
<1>15. CASE Becomes(S) /\ UNCHANGED faults
  <2>1. game' = S.game
    BY <1>15 DEF Becomes
  <2>2. game'.id = game.id /\ Proper(game') /\ ("p2" \in game'.ready => Told)
    BY <1>1, <1>7, <1>8, <1>11, <1>13, <2>1 DEF Alike, Answered
  <2>3. game' # NoGame
    BY <1>4, <2>2, NoGameFacts
  <2>4. Closed' = Closed
    BY <1>1, <2>3 DEF Closed
  <2>5. Sampled'
    BY <1>1, <1>11, <2>4 DEF Sampled
  <2>6. Told' = Told
    BY <1>1 DEF Told
  <2>7. Answered'
    BY <1>1, <1>11, <2>2, <2>6 DEF Answered
  <2> QED
    BY <1>1, <1>11, <1>12, <2>5, <2>7
<1> QED
  BY <1>2, <1>14, <1>15

LEMMA FrameInWorldLeaks ==
  ASSUME IInv, LInv, FrameInWorld
  PROVE  LInv'
<1>1. /\ game = NoGame /\ inputs' = <<>> /\ actions' = <<>>
      /\ UNCHANGED <<party, guest>>
  BY DEF FrameInWorld
<1>2. CASE "garden" \in Kinds /\ Starts("garden")
  BY <1>1, <1>2, StartLeaks
<1>3. CASE UNCHANGED <<game, count, log, disk, faults>>
  <2>1. UNCHANGED <<party, game, count, up, mirror, away, faults>>
    BY <1>1, <1>3 DEF guest
  <2>2. KnownIds => KnownIds'
    BY <1>1, <2>1 DEF KnownIds
  <2>3. Sampled => Sampled'
    BY <1>1, <2>1 DEF Sampled, Closed
  <2>4. Answered'
    BY <1>1, <2>1 DEF Answered
  <2> QED
    BY <1>1, <2>1, <2>2, <2>3, <2>4 DEF LInv, Coop
<1> QED
  BY <1>2, <1>3 DEF FrameInWorld

(* The steps of the guest and its connection *)

\* What the guest sends fits what it has seen.
LEMMA SendsLeaks ==
  ASSUME IInv, LInv, NEW m \in Answers \cup Deeds, Sends(m),
         m.t = "ready" => m.id <= count,
         Did(m) => mirror = NoGame /\ m.at = Closed,
         m.t = "ready" => mirror # NoGame
  PROVE  LInv'
<1>1. /\ Coop /\ up' = Append(up, m)
      /\ UNCHANGED <<party, game, count, inputs, actions, mirror, away, faults>>
  BY DEF Sends, queues
<1>2. up \in Seq(Answers \cup Deeds) /\ Len(up) \in Nat
  BY GuestTypes
<1>3. /\ DOMAIN up' = 1..Len(up) + 1 /\ DOMAIN up = 1..Len(up)
      /\ \A i \in 1..Len(up) : up'[i] = up[i]
      /\ up'[Len(up) + 1] = m
  BY <1>1, <1>2
<1>4. \A i \in DOMAIN up' : i \in DOMAIN up \/ i = Len(up) + 1
  BY <1>2, <1>3
<1>5. KnownIds => KnownIds'
  <2> SUFFICES ASSUME KnownIds, NEW i \in DOMAIN up', up'[i].t = "ready"
               PROVE  up'[i].id <= count
    BY <1>1 DEF KnownIds
  <2> QED
    BY <1>3, <1>4 DEF KnownIds
<1>6. Closed' = Closed
  BY <1>1 DEF Closed
<1>7. Sampled => Sampled'
  <2> SUFFICES ASSUME Sampled, NEW i \in DOMAIN up', Did(up'[i])
               PROVE  up'[i].at = Closed
    BY <1>1, <1>6 DEF Sampled
  <2> QED
    BY <1>3, <1>4 DEF Sampled
<1>8. ASSUME Answered
      PROVE  Answered'
  <2> SUFFICES ASSUME game # NoGame
               PROVE  Answered'
    BY <1>1 DEF Answered
  <2>1. mirror # NoGame => ~ Did(m)
    OBVIOUS
  <2>2. Told => Told'
    <3> SUFFICES ASSUME Told, NEW i \in DOMAIN up'
                 PROVE  ~ Did(up'[i])
      BY <1>1 DEF Told
    <3> QED
      BY <1>3, <1>4, <2>1 DEF Told
  <2>3. ASSUME NEW i \in DOMAIN up', Asks(up'[i], game.id)
        PROVE  mirror # NoGame /\ \A j \in DOMAIN up' : j > i => ~ Did(up'[j])
    <3>1. CASE i \in DOMAIN up
      <4>1. Asks(up[i], game.id)
        BY <1>3, <2>3, <3>1
      <4>2. mirror # NoGame /\ \A j \in DOMAIN up : j > i => ~ Did(up[j])
        BY <1>8, <3>1, <4>1 DEF Answered
      <4> QED
        BY <1>3, <1>4, <2>1, <4>2
    <3>2. CASE i = Len(up) + 1
      <4>1. mirror # NoGame
        BY <1>3, <2>3, <3>2 DEF Asks
      <4>2. \A j \in DOMAIN up' : ~ (j > i)
        BY <1>2, <1>3, <3>2
      <4> QED
        BY <4>1, <4>2
    <3> QED
      BY <1>4, <3>1, <3>2
  <2> QED
    BY <1>1, <1>8, <2>2, <2>3 DEF Answered
<1> QED
  BY <1>1, <1>5, <1>7, <1>8 DEF LInv, Coop

LEMMA GuestActsLeaks ==
  ASSUME IInv, LInv, GuestActs
  PROVE  LInv'
<1>1. PICK t \in {"strike", "talk"} : Sends([t |-> t, at |-> Closed])
  BY DEF GuestActs
<1> DEFINE m == [t |-> t, at |-> Closed]
<1>2. Closed \in Int
  BY GuestTypes DEF Closed
<1>3. m \in Deeds /\ m.t # "ready" /\ m.at = Closed
  BY <1>2 DEF Deeds
<1>4. mirror = NoGame
  BY DEF GuestActs
<1> HIDE DEF m
<1> QED
  BY <1>1, <1>3, <1>4, SendsLeaks DEF m

LEMMA GuestReadyLeaks ==
  ASSUME IInv, LInv, GuestReady
  PROVE  LInv'
<1> DEFINE m == [t |-> "ready", id |-> mirror.id]
<1>1. Sends(m) /\ mirror.phase = "ready"
  BY DEF GuestReady
<1>2. mirror # NoGame
  BY <1>1, NoGameFacts
<1>3. mirror.id \in Nat
  BY GuestTypes, GameFields, NoGameFacts DEF GamesOrNone
<1>4. m \in Answers /\ m.t = "ready" /\ m.id = mirror.id /\ ~ Did(m)
  BY <1>3 DEF Answers, Did
<1>5. CASE Coop /\ faults = 0
  <2>1. mirror.id <= count
    BY <1>5 DEF LInv, KnownIds
  <2> HIDE DEF m
  <2> QED
    BY <1>1, <1>2, <1>4, <2>1, SendsLeaks
<1>6. CASE ~ (Coop /\ faults = 0)
  BY <1>1, <1>6 DEF Sends, LInv, Coop
<1> QED
  BY <1>5, <1>6

LEMMA GuestPressesLeaks ==
  ASSUME IInv, LInv, GuestPresses
  PROVE  LInv'
<1>1. PICK cell \in Board(mirror.kind) :
        Sends([t |-> "press", id |-> mirror.id, rev |-> mirror.rev, cell |-> cell])
  BY DEF GuestPresses
<1> DEFINE m == [t |-> "press", id |-> mirror.id, rev |-> mirror.rev, cell |-> cell]
<1>2. mirror \in Games
  BY GuestTypes, NoGameFacts DEF GamesOrNone, GuestPresses
<1>3. mirror.id \in Nat /\ mirror.rev \in Nat
  BY <1>2, GameFields
<1>4. cell \in Nat
  BY Sizes DEF Board
<1>5. m \in Answers /\ m.t = "press" /\ ~ Did(m)
  BY <1>3, <1>4 DEF Answers, Presses, Did
<1> HIDE DEF m
<1> QED
  BY <1>1, <1>5, SendsLeaks DEF m

LEMMA OnIntentLeaks ==
  ASSUME IInv, LInv, OnIntent
  PROVE  LInv'
<1> DEFINE m == Head(up)
<1>1. /\ up # <<>> /\ up' = Tail(up)
      /\ UNCHANGED <<party, game, count, mirror, away, faults>>
  BY DEF OnIntent
<1>2. /\ up \in Seq(Answers \cup Deeds) /\ inputs \in Seq(Answers) /\ actions \in Seq(Deeds)
  BY GuestTypes
<1>3. Coop
  BY <1>1, GuestTypes
<1>4. /\ 1 \in DOMAIN up /\ m = up[1] /\ m \in Answers \cup Deeds
      /\ \A i \in DOMAIN up' : i + 1 \in DOMAIN up /\ up'[i] = up[i + 1] /\ i + 1 > 1 /\ i \in Nat
  BY <1>1, <1>2
<1>5. Closed' = Closed
  BY <1>1 DEF Closed
<1> HIDE DEF m
<1>6. CASE m.t \in {"press", "ready"} /\ inputs' = Append(inputs, m) /\ UNCHANGED actions
  <2>1. /\ m \in Answers /\ Len(inputs) \in Nat
        /\ DOMAIN inputs' = 1..Len(inputs) + 1 /\ DOMAIN inputs = 1..Len(inputs)
        /\ \A i \in 1..Len(inputs) : inputs'[i] = inputs[i]
        /\ inputs'[Len(inputs) + 1] = m
    BY <1>2, <1>4, <1>6 DEF Deeds
  <2>2. \A i \in DOMAIN inputs' : i \in DOMAIN inputs \/ i = Len(inputs) + 1
    BY <2>1
  <2>3. KnownIds => KnownIds'
    <3> SUFFICES ASSUME KnownIds
                 PROVE  KnownIds'
      OBVIOUS
    <3>1. mirror'.id <= count'
      BY <1>1 DEF KnownIds
    <3>2. \A i \in DOMAIN up' : up'[i].t = "ready" => up'[i].id <= count'
      BY <1>1, <1>4 DEF KnownIds
    <3>3. ASSUME NEW i \in DOMAIN inputs', inputs'[i].t = "ready"
          PROVE  inputs'[i].id <= count'
      <4>1. CASE i \in DOMAIN inputs
        BY <1>1, <2>1, <3>3, <4>1 DEF KnownIds
      <4>2. CASE i = Len(inputs) + 1
        <5>1. up[1].t = "ready" /\ inputs'[i] = up[1]
          BY <1>4, <2>1, <3>3, <4>2
        <5> QED
          BY <1>1, <1>4, <5>1 DEF KnownIds
      <4> QED
        BY <2>2, <4>1, <4>2
    <3> QED
      BY <3>1, <3>2, <3>3 DEF KnownIds
  <2>4. Sampled => Sampled'
    BY <1>1, <1>4, <1>5, <1>6 DEF Sampled
  <2>5. Told => Told'
    BY <1>1, <1>4 DEF Told
  <2>6. ASSUME Answered, game # NoGame
        PROVE  Answered'
    <3>1. /\ game'.id = count' /\ Proper(game')
          /\ "p2" \in game'.ready => Told'
      BY <1>1, <2>5, <2>6 DEF Answered
    <3>2. ASSUME NEW i \in DOMAIN inputs', Asks(inputs'[i], game.id)
          PROVE  Told'
      <4>1. CASE i \in DOMAIN inputs
        BY <2>1, <2>5, <2>6, <3>2, <4>1 DEF Answered
      <4>2. CASE i = Len(inputs) + 1
        <5>1. Asks(up[1], game.id)
          BY <1>4, <2>1, <3>2, <4>2
        <5>2. mirror # NoGame /\ \A j \in DOMAIN up : j > 1 => ~ Did(up[j])
          BY <1>4, <2>6, <5>1 DEF Answered
        <5> QED
          BY <1>1, <1>4, <5>2 DEF Told
      <4> QED
        BY <2>2, <4>1, <4>2
    <3>3. ASSUME NEW i \in DOMAIN up', Asks(up'[i], game.id)
          PROVE  mirror # NoGame /\ \A j \in DOMAIN up' : j > i => ~ Did(up'[j])
      <4>1. i + 1 \in DOMAIN up /\ Asks(up[i + 1], game.id) /\ i \in Nat
        BY <1>4, <3>3
      <4>2. mirror # NoGame /\ \A j \in DOMAIN up : j > i + 1 => ~ Did(up[j])
        BY <2>6, <4>1 DEF Answered
      <4>3. \A j \in DOMAIN up' : j > i => j + 1 > i + 1
        BY <1>4, <4>1
      <4> QED
        BY <1>4, <4>2, <4>3
    <3> QED
      BY <1>1, <3>1, <3>2, <3>3 DEF Answered
  <2>7. Answered => Answered'
    <3>1. CASE game = NoGame
      BY <1>1, <3>1 DEF Answered
    <3> QED
      BY <2>6, <3>1
  <2> QED
    BY <1>1, <1>3, <2>3, <2>4, <2>7 DEF LInv, Coop
<1>7. CASE /\ m.t \in {"strike", "talk"} /\ UNCHANGED inputs
           /\ actions' = IF game # NoGame THEN <<>> ELSE Append(actions, m)
  <2>1. KnownIds => KnownIds'
    BY <1>1, <1>4, <1>7 DEF KnownIds
  <2>2. m \in Deeds /\ Did(m)
    BY <1>4, <1>7 DEF Answers, Presses, Did
  <2>3. Sampled => Sampled'
    <3> SUFFICES ASSUME Sampled
                 PROVE  Sampled'
      OBVIOUS
    <3>1. \A i \in DOMAIN up' : Did(up'[i]) => up'[i].at = Closed
      BY <1>4 DEF Sampled
    <3>2. m.at = Closed
      BY <1>4, <2>2 DEF Sampled
    <3>3. ASSUME NEW i \in DOMAIN actions'
          PROVE  actions'[i].at = Closed
      <4>1. CASE game # NoGame
        BY <1>7, <3>3, <4>1
      <4>2. CASE game = NoGame
        <5>1. actions' = Append(actions, m)
          BY <1>7, <4>2
        <5>2. CASE i \in DOMAIN actions
          <6>1. actions'[i] = actions[i]
            BY <1>2, <2>2, <5>1, <5>2
          <6> QED
            BY <5>2, <6>1 DEF Sampled
        <5>3. CASE i \notin DOMAIN actions
          <6>1. actions'[i] = m
            BY <1>2, <2>2, <3>3, <5>1, <5>3
          <6> QED
            BY <3>2, <6>1
        <5> QED
          BY <5>2, <5>3
      <4> QED
        BY <4>1, <4>2
    <3> QED
      BY <1>5, <3>1, <3>3 DEF Sampled
  <2>4. Told => Told'
    BY <1>1, <1>4 DEF Told
  <2>5. ASSUME Answered, game # NoGame
        PROVE  Answered'
    <3>1. /\ game'.id = count' /\ Proper(game')
          /\ "p2" \in game'.ready => Told'
          /\ \A i \in DOMAIN inputs' : Asks(inputs'[i], game'.id) => Told'
      BY <1>1, <1>7, <2>4, <2>5 DEF Answered
    <3>2. ASSUME NEW i \in DOMAIN up', Asks(up'[i], game.id)
          PROVE  mirror # NoGame /\ \A j \in DOMAIN up' : j > i => ~ Did(up'[j])
      <4>1. i + 1 \in DOMAIN up /\ Asks(up[i + 1], game.id) /\ i \in Nat
        BY <1>4, <3>2
      <4>2. mirror # NoGame /\ \A j \in DOMAIN up : j > i + 1 => ~ Did(up[j])
        BY <2>5, <4>1 DEF Answered
      <4>3. \A j \in DOMAIN up' : j > i => j + 1 > i + 1
        BY <1>4, <4>1
      <4> QED
        BY <1>4, <4>2, <4>3
    <3> QED
      BY <1>1, <3>1, <3>2 DEF Answered
  <2>6. Answered => Answered'
    <3>1. CASE game = NoGame
      BY <1>1, <3>1 DEF Answered
    <3> QED
      BY <2>5, <3>1
  <2> QED
    BY <1>1, <1>3, <2>1, <2>3, <2>6 DEF LInv, Coop
<1> QED
  BY <1>6, <1>7 DEF OnIntent, m

\* The guest sees the game that is on.
LEMMA IngestedOn ==
  ASSUME NEW g \in Games, (g.phase = "result") = (g.outcome # "open")
  PROVE  Ingested(g) # NoGame
<1>1. g # NoGame
  BY NoGameFacts
<1>2. \/ Ingested(g) = [g EXCEPT !.ready = g.required]
      \/ Ingested(g) = [g EXCEPT !.phase = "preview"]
      \/ Ingested(g) = g
  BY <1>1 DEF Ingested
<1>3. [g EXCEPT !.ready = g.required] \in Games /\ [g EXCEPT !.phase = "preview"] \in Games
  BY DEF Games
<1> QED
  BY <1>2, <1>3, NoGameFacts

LEMMA SnapshotLeaks ==
  ASSUME IInv, LInv, Snapshot
  PROVE  LInv'
<1>1. /\ Coop /\ mirror' = Seen
      /\ UNCHANGED <<party, game, count, up, inputs, actions, away, faults>>
  BY DEF Snapshot, queues
<1>2. Sampled' = Sampled
  BY <1>1 DEF Sampled, Closed
<1>3. CASE game = NoGame
  <2>1. mirror' = NoGame
    BY <1>1, <1>3 DEF Seen
  <2>2. KnownIds => KnownIds'
    BY <1>1, <2>1, NoGameFacts, GuestTypes DEF KnownIds
  <2>3. Answered'
    BY <1>1, <1>3 DEF Answered
  <2> QED
    BY <1>1, <1>2, <2>2, <2>3 DEF LInv, Coop
<1>4. CASE game # NoGame
  <2> DEFINE g == [game EXCEPT !.left = 0]
  <2>1. g \in Games /\ g.id = game.id /\ g.phase = game.phase /\ g.outcome = game.outcome
    BY <1>4, GameOn DEF Games
  <2>2. mirror' = Ingested(g)
    BY <1>1, <1>4 DEF Seen
  <2> HIDE DEF g
  <2>3. Answered => mirror' # NoGame
    BY <1>4, <2>1, <2>2, IngestedOn DEF Answered, Proper
  <2>4. mirror' # NoGame => mirror'.id = game.id
    BY <2>1, <2>2, IngestedFacts DEF GamesOrNone
  <2>5. Answered => mirror'.id <= count
    BY <1>4, <2>3, <2>4, GuestTypes DEF Answered
  <2>6. KnownIds /\ Answered => KnownIds'
    BY <1>1, <2>5 DEF KnownIds
  <2>7. Answered => (Told => Told')
    BY <1>1, <2>3 DEF Told
  <2>8. Answered => Answered'
    BY <1>1, <1>4, <2>3, <2>7 DEF Answered
  <2> QED
    BY <1>1, <1>2, <2>6, <2>8 DEF LInv, Coop
<1> QED
  BY <1>3, <1>4

\* After a fault nothing is claimed of a shared run.
LEMMA FaultLeaks ==
  ASSUME IInv, LInv, faults' = faults + 1, UNCHANGED <<party, actions>>
  PROVE  LInv'
<1>1. faults' # 0
  BY DEF IInv, TypeOK
<1> QED
  BY <1>1 DEF LInv, Coop

LEMMA RejoinLeaks ==
  ASSUME IInv, LInv, Rejoin
  PROVE  LInv'
<1>1. away /\ UNCHANGED <<party, actions, faults>>
  BY DEF Rejoin, queues
<1> QED
  BY <1>1 DEF LInv, Coop

LEMMA PartnerLeavesLeaks ==
  ASSUME IInv, LInv, PartnerLeaves
  PROVE  LInv'
<1>1. /\ game' = NoGame /\ mirror' = NoGame /\ away' = FALSE
      /\ up' = <<>> /\ inputs' = <<>> /\ actions' = <<>> /\ count' = count
  BY DEF PartnerLeaves
<1>2. KnownIds'
  BY <1>1, NoGameFacts, GuestTypes DEF KnownIds
<1>3. Sampled'
  BY <1>1 DEF Sampled
<1>4. Answered'
  BY <1>1 DEF Answered
<1> QED
  BY <1>1, <1>2, <1>3, <1>4 DEF LInv

-----------------------------------------------------------------------------
(* This invariant holds too *)

LEMMA InitLeaks ==
  ASSUME Init
  PROVE  LInv
<1>1. /\ game = NoGame /\ count = 0 /\ up = <<>> /\ inputs = <<>> /\ actions = <<>>
      /\ mirror = NoGame /\ away = FALSE
  BY DEF Init
<1> QED
  BY <1>1, NoGameFacts DEF LInv, KnownIds, Sampled, Answered

LEMMA StepLeaks == IInv /\ LInv /\ [Next]_vars => LInv'
<1> SUFFICES ASSUME IInv, LInv, [Next]_vars PROVE LInv'
  OBVIOUS
<1>1. CASE ChoosePath \/ TalkToFrog \/ FaceSoul \/ ConfirmReady
  BY <1>1, HostLeaks, ConfirmReadyLeaks
<1>2. CASE \E cell \in 1..(2 * Goal), next \in Wakes : Press(cell, next)
  BY <1>2, PressLeaks
<1>3. CASE FrameInWorld
  BY <1>3, FrameInWorldLeaks
<1>4. CASE \E beats \in 0..1 : FrameWith(beats)
  BY <1>4, FrameInGameLeaks DEF FrameWith
<1>5. CASE GuestActs \/ GuestReady \/ GuestPresses
  BY <1>5, GuestActsLeaks, GuestReadyLeaks, GuestPressesLeaks
<1>6. CASE OnIntent \/ Snapshot \/ Rejoin \/ PartnerLeaves
  BY <1>6, OnIntentLeaks, SnapshotLeaks, RejoinLeaks, PartnerLeavesLeaks
<1>7. CASE Cut \/ CrashAndResume
  BY <1>7, FaultLeaks DEF Cut, CrashAndResume, Fault, queues
<1>8. CASE Checkpoint
  <2>1. faults' \in {faults, faults + 1}
    BY <1>8, SavesFaults DEF Checkpoint
  <2> QED
    BY <1>8, <2>1, SameLeaks DEF Checkpoint, guest, queues
<1>9. CASE UNCHANGED vars
  BY <1>9, SameLeaks DEF vars
<1> QED
  BY <1>1, <1>2, <1>3, <1>4, <1>5, <1>6, <1>7, <1>8, <1>9 DEF Next

-----------------------------------------------------------------------------
(* The theorems *)

\* The game, its log, the messages and the save keep their shapes, whatever the players
\* do and however often a connection is lost or a run is read again.
THEOREM TypeCorrect == Spec => []TypeOK
<1>1. IInv => TypeOK
  BY DEF IInv
<1> QED
  BY <1>1, SpecHolds, PTL

\* A press of the guest is judged against the board the guest saw, or against what its
\* own presses have made of it since (mixin.py:1315-1349).
THEOREM PressIsFreshHolds == Spec => []PressIsFresh
<1>1. IInv => PressIsFresh
  BY GameOn DEF IInv, PressIsFresh, Sound, FreshIn
<1> QED
  BY <1>1, SpecHolds, PTL

\* A boon is granted for a won game, once, in memory and on disk (runtime.py:418-473).
THEOREM RewardedHolds == Spec => []Rewarded
<1>1. IInv => Rewarded
  BY DEF IInv, Paid, RewardedIn, Rewarded
<1> QED
  BY <1>1, SpecHolds, PTL

\* What the guest did in the dungeon before it saw a game does not happen when the game
\* is over (mixin.py:1253-1257), as long as its connection holds.
THEOREM NothingLeaksHolds == Spec => NothingLeaks
<1> DEFINE A == faults = 0 /\ ~ over' /\ game = NoGame /\ actions' = <<>> =>
                  \A i \in DOMAIN actions : actions[i].at = Closed
<1>1. Init => LInv
  BY InitLeaks
<1>2. LInv => A
  BY DEF LInv, Sampled
<1>3. NothingLeaks <=> [][A]_vars
  BY DEF NothingLeaks
<1> HIDE DEF A
<1> QED
  BY <1>1, <1>2, <1>3, StepLeaks, SpecHolds, PTL DEF Spec

=============================================================================
