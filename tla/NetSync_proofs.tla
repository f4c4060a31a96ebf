---------------------------- MODULE NetSync_proofs ----------------------------
(***************************************************************************)
(* Proofs about the synchronisation of a co-op run: the host applies the   *)
(* joiner's stream in order and each step once (StreamInOrder), what the   *)
(* joiner shows is of the floor it shows (ShownIsOfFloor) and never goes   *)
(* back (NeverBack).                                                       *)
(*                                                                         *)
(* The three are one induction, NInv.  Wires says what may be under way    *)
(* where; Worlds orders the moments on the way to the joiner between what  *)
(* it shows and what the host has; Stream follows the joiner's steps from  *)
(* what the host has read, over the socket, the relay and the socket, to   *)
(* what the joiner has written; Awaited says that the steps of a           *)
(* checkpoint are not started over by a late acknowledgement.              *)
(*                                                                         *)
(* Every step of the relay and the sockets is one of Network, which says   *)
(* what may be lost; a frame is followed message by message (Trail).       *)
(***************************************************************************)
EXTENDS NetSync, FiniteSetTheorems, SequenceTheorems, WellFoundedInduction, TLAPS

-----------------------------------------------------------------------------
(* Types *)

Steps   == [seq: Nat, base: Nat]
Deeds   == [id: Nat, at: Nat, base: Nat]
Chunks  == [t: {"chunk"}, id: Nat, i: {0, 1}, epoch: Nat, world: Nat]
Pulses  == [t: {"snapshot"}, epoch: Nat, ack: Nat, world: Nat]
Acks    == [t: {"checkpoint_ack"}, id: Nat]
Intents == [t: {"intent"}, acts: Seq(Deeds), cmds: Seq(Steps)]
Ends    == [t: {"run_ended"}]

\* What the relay passes on, what a player sends and leaves behind, and what the
\* relay sends.
Carried  == Chunks \cup Pulses \cup Acks \cup Intents \cup Ends
Sent     == Carried \cup [t: {"hello", "result_ack"}]
Left     == Carried \cup [t: {"bye", "result_ack"}]
Welcomes == [t: {"welcome"}, phase: {"Active", "Ended"}]
Notices  == [t: {"partner_disconnected", "partner_rejoined", "partner_left", "error", "start"}]
Told     == Carried \cup Welcomes \cup Notices

Events  == {"reconnected", "started", "partner_disconnected", "partner_rejoined", "partner_left"}
Phases  == {"Lobby", "Active", "Reconnecting", "Ended", "Failed", "Idle"}
Screens == {"Lobby", "Wait", "Play", "Over", "Out"}

Hosts ==
  [need: BOOLEAN, synced: BOOLEAN, ckpt: Nat, ckptEpoch: Nat, epoch: Nat, world: Nat,
   ended: BOOLEAN, resolved: Nat, seen: Nat, seenAct: Nat, cmds: Seq(Steps), acts: Seq(Deeds),
   refilling: BOOLEAN, late: BOOLEAN]
Joiners ==
  [have: BOOLEAN, base: Nat, epoch: Nat, shown: Nat, seq: Nat, acted: Nat, part: Nat,
   ended: BOOLEAN]

\* A frame of a session, and of the joiner.
Ins   == [phase: Phases, partner: BOOLEAN, events: Seq(Events), inbox: Seq(Carried)]
Seats == [j: Joiners, screen: Screens, out: Seq(Sent)]

Rooms == [phase: {"Active", "Ended", "Closed"},
          seat: [Roles -> {"cur", "old", "lost", "gone"}], acked: BOOLEAN]

TypeOK ==
  /\ relay \in Rooms
  /\ sock \in [Roles -> {"open", "dead", "none"}]
  /\ up \in [Roles -> Seq(Sent)] /\ down \in [Roles -> Seq(Told)]
  /\ stale \in [Roles -> Seq(Left)]
  /\ session \in [Roles -> [phase: Phases, partner: BOOLEAN]]
  /\ screen \in [Roles -> Screens]
  /\ host \in Hosts /\ join \in Joiners
  /\ faults \in Nat
  /\ history \in [ids: Nat, floors: Seq(Nat), acted: Nat]

-----------------------------------------------------------------------------
(* The sockets *)

\* A socket that does not hold its seat has said hello and no more, and what is
\* left of the one before is read first, or not at all.
Greets(r) == Len(up[r]) = 1 /\ up[r][1].t = "hello"

Wired(r) ==
  /\ relay.seat[r] = "cur" => stale[r] = <<>>
  /\ sock[r] = "none" => up[r] = <<>> /\ down[r] = <<>> /\ relay.seat[r] # "cur"
  /\ sock[r] = "open" /\ relay.seat[r] # "cur" => Greets(r)
  /\ \A i \in DOMAIN up[r] : up[r][i].t = "hello" =>
       /\ Len(up[r]) = 1 /\ relay.seat[r] # "cur"
       /\ down[r] = <<>> /\ session[r].phase = "Reconnecting"
  /\ stale[r] # <<>> => relay.seat[r] = "old"
  /\ relay.seat[r] # "cur" /\ (relay.phase = "Active" \/ stale[r] # <<>>) =>
       up[r] = <<>> \/ Greets(r)

\* The host plays while its session lasts, and hears of its return before all else.
Playing == screen["Host"] = "Play"

Hosting ==
  /\ Playing => session["Host"].phase \in {"Active", "Reconnecting"} /\ ~host.ended
  /\ session["Host"].phase \in {"Lobby", "Active", "Reconnecting"} /\ ~host.ended => Playing
  /\ \A i \in DOMAIN down["Host"] :
       /\ down["Host"][i].t # "start"
       /\ down["Host"][i].t = "welcome" => i = 1 /\ session["Host"].phase = "Reconnecting"
  /\ session["Host"].phase = "Reconnecting" =>
       \/ down["Host"] = <<>> /\ ~(relay.seat["Host"] = "cur" /\ sock["Host"] = "open")
       \/ down["Host"] # <<>> /\ down["Host"][1].t \in {"welcome", "error"}

\* A joiner that has left is in no session.
Joining == screen["Join"] = "Out" => session["Join"].phase = "Idle" /\ join = NoJoiner

Wires == TypeOK /\ (\A r \in Roles : Wired(r)) /\ Hosting /\ Joining

-----------------------------------------------------------------------------
(* From the host to the joiner *)

\* What the relay is still to read of r, and what the joiner may still receive.
Line(r) == stale[r] \o up[r]
Way == down["Join"] \o Line("Host")

Worldly(m) == m.t \in {"chunk", "snapshot"}
Completes(m) == m.t = "chunk" /\ m.i = 1

\* A moment of a floor.
Placed(epoch, world, floors) ==
  /\ epoch \in DOMAIN floors
  /\ floors[epoch] <= world
  /\ epoch < Len(floors) => world < floors[epoch + 1]

\* They are moments in their order, none before the joiner's, none after the
\* host's; checkpoints complete in the order of their ids, each once.
Ascends(m, n) ==
  /\ Worldly(m) /\ Worldly(n) => m.world <= n.world
  /\ Completes(m) /\ Completes(n) => m.id < n.id

Worlds ==
  /\ \A i \in DOMAIN Way : Worldly(Way[i]) =>
       /\ Placed(Way[i].epoch, Way[i].world, history.floors)
       /\ join.shown <= Way[i].world
       /\ Playing => Way[i].world <= host.world
  /\ \A i \in DOMAIN Way : Completes(Way[i]) =>
       /\ join.base < Way[i].id
       /\ Playing => Way[i].id <= host.ckpt
  /\ \A j \in DOMAIN Way : \A i \in 1..(j - 1) : Ascends(Way[i], Way[j])
  /\ Playing =>
       /\ host.epoch = Len(history.floors) /\ host.epoch >= 1
       /\ history.floors[host.epoch] <= host.world
       /\ join.shown <= host.world
       /\ join.base <= host.ckpt /\ host.ckpt <= history.ids
  /\ join.have => Placed(join.epoch, join.shown, history.floors)

-----------------------------------------------------------------------------
(* From the joiner to the host *)

Passing ==
  relay.phase = "Active" /\ relay.seat["Host"] = "cur" /\ sock["Host"] = "open"

\* Where the joiner's stream is: the baseline, the last step, the last action.
Marks == [base: Nat, seq: Nat, act: Nat]

Upto(x, y) ==
  /\ x.act <= y.act
  /\ x.base < y.base \/ (x.base = y.base /\ x.seq <= y.seq)

Moves(x, m, y) ==
  /\ m.t = "intent" =>
       /\ y.base = x.base /\ y.seq = x.seq + Len(m.cmds) /\ x.act <= y.act
       /\ \A i \in DOMAIN m.cmds : m.cmds[i] = [seq |-> x.seq + i, base |-> x.base]
       /\ Len(m.acts) <= 1
       /\ \A i \in DOMAIN m.acts : /\ m.acts[i].base = x.base
                                   /\ x.act < m.acts[i].id /\ m.acts[i].id <= y.act
  /\ m.t = "checkpoint_ack" => x.base < m.id /\ y = [base |-> m.id, seq |-> 0, act |-> x.act]
  /\ m.t = "welcome" => Upto(x, y)
  /\ m.t \notin {"intent", "checkpoint_ack", "welcome"} => y = x

Flow(q, f) ==
  /\ f \in [0..Len(q) -> Marks]
  /\ \A k \in 1..Len(q) : Moves(f[k - 1], q[k], f[k])

Flows(q, x, y) == \E f : Flow(q, f) /\ f[0] = x /\ f[Len(q)] = y

\* From x, over what the host is to read of d and the relay of p, to y; nothing
\* is missing between the two when they are one line.
Along(d, p, x, y, whole) ==
  \E u, v \in Marks : /\ Flows(d, x, u) /\ Flows(p, v, y)
                      /\ Upto(u, v)
                      /\ whole => u = v

\* The host has applied nothing of its last checkpoint's stream.
Fresh(h) ==
  ~h.synced /\ h.cmds = <<>> /\ h.acts = <<>> /\ h.resolved = 0 /\ h.seen = 0 /\ h.seenAct = 0

\* What the host has queued is what follows.
Queue(h, acted) ==
  /\ \A i \in DOMAIN h.cmds : h.cmds[i] = [seq |-> h.resolved + i, base |-> h.ckpt]
  /\ h.synced => h.seen = h.resolved + Len(h.cmds)
  /\ \A i \in DOMAIN h.acts :
       h.acts[i].base = h.ckpt /\ h.acts[i].id > (IF i = 1 THEN acted ELSE h.acts[i - 1].id)

\* It is read up to x.
Read(h, acted, x) ==
  /\ h.synced => x.base = h.ckpt /\ x.seq = h.seen
  /\ acted <= x.act /\ h.seenAct <= x.act
  /\ \A i \in DOMAIN h.acts : h.acts[i].id <= x.act

\* The joiner sends.
Live == session["Join"].phase = "Active" /\ sock["Join"] = "open" /\ join.have

\* And it is written up to y.
Written(y) ==
  /\ \A i \in DOMAIN Way : Completes(Way[i]) => y.base < Way[i].id
  /\ Playing => y.base <= host.ckpt
  /\ screen["Join"] # "Out" => y.base <= join.base /\ y.act <= join.acted
  /\ Live => y.base = join.base /\ y.seq = join.seq
  /\ join.have /\ y.base = join.base => y.seq <= join.seq

Stream ==
  \E x, y \in Marks :
    /\ Along(down["Host"], Line("Join"), x, y, Passing)
    /\ Playing => Read(host, history.acted, x)
    /\ Written(y)

\* The last checkpoint: the host has not been told of it, or will not be again.
NoAck(q, c) == \A i \in DOMAIN q : q[i].t = "checkpoint_ack" => q[i].id # c

Unheard(c) ==
  /\ \A i \in DOMAIN Way : Completes(Way[i]) => Way[i].id # c
  /\ NoAck(down["Host"], c) /\ NoAck(Line("Join"), c)

Awaited == Playing => Queue(host, history.acted) /\ (Fresh(host) \/ Unheard(host.ckpt))

NInv == Wires /\ Worlds /\ Stream /\ Awaited

-----------------------------------------------------------------------------
(* What the network does to what is under way *)

\* It is nothing of the world and nothing of the stream.
Control(m) == m.t \notin {"chunk", "snapshot", "intent", "checkpoint_ack"}

\* What the relay is still to read of a player loses its end or its beginning,
\* or a word of control; or the player says one.
Shrinks(p, q, whole, live) ==
  \/ q = p
  \/ ~live /\ \E n \in 0..Len(p) : q = SubSeq(p, 1, n)
  \/ ~whole /\ \E n \in 0..Len(p) : q = SubSeq(p, n + 1, Len(p))
  \/ p # <<>> /\ Control(p[1]) /\ p[1].t # "welcome" /\ q = Tail(p)
  \/ \E m \in Left \cup Sent : Control(m) /\ q = Append(p, m)

\* What its partner is still to read loses its end, or the relay says something.
Hears(d, e, was, whole) ==
  \/ e = d /\ (whole => was)
  \/ ~whole /\ \E n \in 0..Len(d) : e = SubSeq(d, 1, n)
  \/ \E m \in Told : Control(m) /\ m.t # "welcome" /\ (whole => was) /\ e = Append(d, m)
  \/ \E m \in Welcomes : e = Append(d, m)
  \/ ~whole /\ \E m \in Welcomes, n \in Ends : e = Append(Append(d, m), n)

Passes(d, p, e, q) == p # <<>> /\ e = Append(d, p[1]) /\ q = Tail(p)

Carries(r) ==
  \/ /\ r = "Join" => Passing
     /\ Passes(down[Other(r)], Line(r), down[Other(r)]', Line(r)')
  \/ /\ Shrinks(Line(r), Line(r)', r = "Join" /\ Passing', r = "Join" /\ Live')
     /\ Hears(down[Other(r)], down[Other(r)]', r = "Host" \/ Passing, r = "Join" /\ Passing')

Network ==
  /\ history' = history
  /\ Playing' => Playing /\ host' = host
  /\ \/ join' = join /\ screen["Join"]' = screen["Join"]
     \/ join' = NoJoiner /\ screen["Join"]' = "Out"
  /\ Live' => Live
  /\ \A r \in Roles : Carries(r)

-----------------------------------------------------------------------------
(* Folds *)

\* A set that has 0, and the next of each number it has, has them all.
LEMMA NaturalSet ==
  ASSUME NEW S, 0 \in S, \A n \in Nat : n \in S => n + 1 \in S
  PROVE  Nat \subseteq S
<1> DEFINE T == Nat \ S
<1>1. T \subseteq Nat
  OBVIOUS
<1>2. SUFFICES ASSUME T # {} PROVE FALSE
  OBVIOUS
<1>3. \E x \in T : \A y \in T : ~ (<<y, x>> \in OpToRel(<, Nat))
  <2> HIDE DEF T
  <2> QED
    BY <1>1, <1>2, NatLessThanWellFounded, WFMin, Zenon
<1>4. PICK x \in T : \A y \in T : ~ (<<y, x>> \in OpToRel(<, Nat))
  BY <1>3
<1>5. \A y \in T : ~ (y < x)
  <2> HIDE DEF T
  <2> QED
    BY <1>1, <1>4, Zenon DEF OpToRel
<1>6. x \in Nat /\ x # 0 /\ x \notin S
  BY <1>4
<1>7. x - 1 \in Nat /\ x - 1 < x /\ (x - 1) + 1 = x
  BY <1>6
<1>8. x - 1 \notin T
  BY <1>5, <1>7
<1> QED
  BY <1>6, <1>7, <1>8

FoldsTo(f, G, b, s, St) ==
  /\ f \in [0..Len(s) -> St] /\ f[0] = b
  /\ \A i \in 1..Len(s) : f[i] = G[<<f[i - 1], s[i]>>]

\* What is folded with a function is a sequence of states.
LEMMA FoldExists ==
  ASSUME NEW St, NEW Ms, NEW G \in [St \X Ms -> St], NEW b \in St, NEW s \in Seq(Ms)
  PROVE  \E f : FoldsTo(f, G, b, s, St)
<1> DEFINE Good(f, k) == f[0] = b /\ \A i \in 1..k : f[i] = G[<<f[i - 1], s[i]>>]
           S == {k \in Nat : k <= Len(s) => \E f \in [0..k -> St] : Good(f, k)}
<1>1. 0 \in S
  <2> DEFINE f == [i \in 0..0 |-> b]
  <2>1. f \in [0..0 -> St] /\ Good(f, 0)
    OBVIOUS
  <2> QED
    BY <2>1
<1>2. ASSUME NEW k \in Nat, k \in S PROVE k + 1 \in S
  <2> SUFFICES ASSUME k + 1 <= Len(s) PROVE \E f \in [0..(k + 1) -> St] : Good(f, k + 1)
    OBVIOUS
  <2>1. PICK f \in [0..k -> St] : Good(f, k)
    BY <1>2
  <2> DEFINE g == [i \in 0..(k + 1) |-> IF i <= k THEN f[i] ELSE G[<<f[k], s[k + 1]>>]]
  <2>2. s[k + 1] \in Ms /\ f[k] \in St
    OBVIOUS
  <2>3. G[<<f[k], s[k + 1]>>] \in St
    BY <2>2
  <2>4. g \in [0..(k + 1) -> St]
    BY <2>3
  <2>5. g[k + 1] = G[<<f[k], s[k + 1]>>] /\ \A i \in 0..k : g[i] = f[i]
    OBVIOUS
  <2>6. g[0] = b
    BY <2>1, <2>5
  <2>7. ASSUME NEW i \in 1..(k + 1) PROVE g[i] = G[<<g[i - 1], s[i]>>]
    <3>1. CASE i = k + 1
      <4>1. i - 1 = k /\ g[k] = f[k]
        BY <2>5, <3>1
      <4> HIDE DEF g
      <4> QED
        BY <2>5, <3>1, <4>1
    <3>2. CASE i \in 1..k
      <4>1. i - 1 \in 0..k /\ i \in 0..k
        BY <3>2
      <4>2. g[i] = f[i] /\ g[i - 1] = f[i - 1]
        BY <2>5, <4>1
      <4> HIDE DEF g
      <4> QED
        BY <2>1, <3>2, <4>2
    <3> QED
      BY <3>1, <3>2
  <2> HIDE DEF g
  <2> QED
    BY <2>4, <2>6, <2>7
<1> HIDE DEF S
<1>3. Nat \subseteq S
  BY <1>1, <1>2, NaturalSet
<1>4. Len(s) \in S /\ Len(s) \in Nat
  BY <1>3
<1>5. \E f \in [0..Len(s) -> St] : Good(f, Len(s))
  BY <1>4 DEF S
<1> QED
  BY <1>5 DEF FoldsTo

\* What 0 has, and each number below n hands to the next, all up to n have.
LEMMA Climbs ==
  ASSUME NEW n \in Nat, NEW S, 0 \in S, \A k \in 0..(n - 1) : k \in S => k + 1 \in S
  PROVE  \A k \in 0..n : k \in S
<1> DEFINE T == {k \in Nat : k <= n => k \in S}
<1>1. 0 \in T
  OBVIOUS
<1>2. ASSUME NEW k \in Nat, k \in T PROVE k + 1 \in T
  <2>1. CASE k + 1 <= n
    <3>1. k \in S /\ k \in 0..(n - 1)
      BY <1>2, <2>1
    <3> QED
      BY <3>1
  <2>2. CASE ~(k + 1 <= n)
    BY <2>2
  <2> QED
    BY <2>1, <2>2
<1> HIDE DEF T
<1>3. Nat \subseteq T
  BY <1>1, <1>2, NaturalSet
<1> QED
  BY <1>3 DEF T

\* There is one such sequence.
Alike(f, g, n) == \A i \in 1..n : f[i - 1] = g[i - 1] => f[i] = g[i]

LEMMA FoldOnce ==
  ASSUME NEW n \in Nat, NEW f, NEW g, f[0] = g[0], Alike(f, g, n)
  PROVE  \A i \in 0..n : f[i] = g[i]
<1> DEFINE S == {k \in Nat : f[k] = g[k]}
<1>1. 0 \in S
  OBVIOUS
<1>2. ASSUME NEW k \in 0..(n - 1), k \in S PROVE k + 1 \in S
  <2>1. f[k] = g[k] /\ k + 1 \in 1..n /\ (k + 1) - 1 = k
    BY <1>2
  <2>2. f[k + 1] = g[k + 1]
    BY <2>1 DEF Alike
  <2> QED
    BY <2>2
<1> HIDE DEF S
<1>3. \A k \in 0..n : k \in S
  BY <1>1, <1>2, Climbs
<1> QED
  BY <1>3 DEF S

LEMMA SumOf ==
  ASSUME NEW M, NEW s \in Seq(M), NEW t \in Seq(M), NEW a, a = s \o t
  PROVE  /\ a \in Seq(M) /\ Len(a) = Len(s) + Len(t) /\ DOMAIN a = 1..(Len(s) + Len(t))
         /\ Len(s) \in Nat /\ Len(t) \in Nat /\ DOMAIN s = 1..Len(s) /\ DOMAIN t = 1..Len(t)
         /\ \A i \in 1..Len(s) : a[i] = s[i]
         /\ \A i \in 1..Len(t) : a[Len(s) + i] = t[i]
OBVIOUS

LEMMA AppendKeeps ==
  ASSUME NEW M, NEW s \in Seq(M), NEW e, NEW t, t = Append(s, e)
  PROVE  \A i \in DOMAIN s : i \in DOMAIN t /\ t[i] = s[i]
OBVIOUS

-----------------------------------------------------------------------------
(* Sequences, messages and sockets *)

LEMMA RolesTwo == \A r \in Roles : Other(r) \in Roles /\ Other(r) # r /\ Other(Other(r)) = r
BY DEF Roles, Other

\* The parts of a typed state.
LEMMA Parts ==
  ASSUME TypeOK, NEW r \in Roles
  PROVE  /\ relay.phase \in {"Active", "Ended", "Closed"} /\ relay.acked \in BOOLEAN
         /\ relay.seat[r] \in {"cur", "old", "lost", "gone"}
         /\ sock[r] \in {"open", "dead", "none"}
         /\ up[r] \in Seq(Sent) /\ down[r] \in Seq(Told) /\ stale[r] \in Seq(Left)
         /\ session[r].phase \in Phases /\ session[r].partner \in BOOLEAN
         /\ screen[r] \in Screens
BY DEF TypeOK, Rooms

LEMMA HeadOf ==
  ASSUME NEW M, NEW s \in Seq(M), s # <<>>
  PROVE  Head(s) = s[1] /\ s[1] \in M /\ 1 \in DOMAIN s /\ Len(s) \in Nat \ {0} /\ DOMAIN s = 1..Len(s)
OBVIOUS

LEMMA TailOf ==
  ASSUME NEW M, NEW s \in Seq(M), s # <<>>
  PROVE  /\ Tail(s) \in Seq(M) /\ Len(Tail(s)) = Len(s) - 1
         /\ \A i \in 1..(Len(s) - 1) : Tail(s)[i] = s[i + 1]
OBVIOUS

\* The kinds of a message, by its tag.
LEMMA Kinds ==
  ASSUME NEW m, m \in Sent \cup Left \cup Told
  PROVE  /\ m.t = "chunk" => m \in Chunks
         /\ m.t = "snapshot" => m \in Pulses
         /\ m.t = "checkpoint_ack" => m \in Acks
         /\ m.t = "intent" => m \in Intents
         /\ m.t = "welcome" => m \in Welcomes
BY DEF Sent, Left, Told, Carried, Chunks, Pulses, Acks, Intents, Ends, Welcomes, Notices

LEMMA Words ==
  /\ \A t \in {"hello", "result_ack"} : Msg(t) \in Sent /\ Msg(t).t = t
  /\ \A t \in {"bye", "result_ack"} : Msg(t) \in Left /\ Msg(t).t = t
  /\ \A t \in {"partner_disconnected", "partner_rejoined", "partner_left", "error", "start"} :
       Msg(t) \in Told /\ Msg(t).t = t
  /\ Msg("run_ended") \in Ends /\ Msg("run_ended").t = "run_ended"
  /\ \A p \in {"Active", "Ended"} : [t |-> "welcome", phase |-> p] \in Welcomes
  /\ Welcomes \subseteq Told /\ Ends \subseteq Told /\ Ends \subseteq Sent
BY DEF Msg, Sent, Left, Told, Notices, Ends, Carried, Welcomes

\* What is sent and is no hello is left behind as it is.
LEMMA SentLeft ==
  ASSUME NEW m \in Sent, m.t # "hello"
  PROVE  m \in Left
BY DEF Sent, Left, Carried, Chunks, Pulses, Acks, Intents, Ends

LEMMA SentAllLeft ==
  ASSUME NEW s \in Seq(Sent), \A i \in DOMAIN s : s[i].t # "hello"
  PROVE  s \in Seq(Left)
<1>1. \A i \in 1..Len(s) : s[i] \in Left
  BY SentLeft
<1> QED
  BY <1>1

\* What is left behind, and is no bye and no acknowledgement of the result, is
\* passed on as it is.
LEMMA LeftTold ==
  ASSUME NEW m, m \in Left \cup Sent, m.t \notin {"bye", "hello", "result_ack"}
  PROVE  m \in Told /\ m \in Carried
BY DEF Sent, Left, Told, Carried, Chunks, Pulses, Acks, Intents, Ends

\* One message down: it reaches a socket that holds its seat.
LEMMA DownOne ==
  ASSUME NEW d \in [Roles -> Seq(Told)], NEW r \in Roles, NEW m \in Told
  PROVE  /\ Down(d, r, <<m>>) \in [Roles -> Seq(Told)]
         /\ \A q \in Roles : q # r => Down(d, r, <<m>>)[q] = d[q]
         /\ relay.seat[r] = "cur" /\ sock[r] = "open" => Down(d, r, <<m>>)[r] = Append(d[r], m)
         /\ ~(relay.seat[r] = "cur" /\ sock[r] = "open") => Down(d, r, <<m>>)[r] = d[r]
<1>1. d[r] \o <<m>> = Append(d[r], m) /\ Append(d[r], m) \in Seq(Told)
  BY AppendIsConcat
<1> QED
  BY <1>1 DEF Down

-----------------------------------------------------------------------------
(* What a step leaves of the sockets *)

\* A socket and its seat are as they were, but for what has come in.
LEMMA WiredKept ==
  ASSUME Wires, NEW r \in Roles, relay.seat[r]' = relay.seat[r], sock[r]' = sock[r],
         up[r]' = up[r], stale[r]' = stale[r], session[r]' = session[r],
         relay.phase' = "Active" => relay.phase = "Active",
         down[r]' = down[r] \/ (relay.seat[r] = "cur" /\ sock[r] = "open")
  PROVE  Wired(r)'
<1>1. Wired(r)
  BY DEF Wires
<1> QED
  BY <1>1 DEF Wired, Greets

LEMMA HostingKept ==
  ASSUME Wires, screen["Host"]' = screen["Host"], session["Host"]' = session["Host"],
         host' = host,
         relay.seat["Host"]' = "cur" /\ sock["Host"]' = "open" =>
           relay.seat["Host"] = "cur" /\ sock["Host"] = "open",
         \/ down["Host"]' = down["Host"]
         \/ /\ relay.seat["Host"] = "cur" /\ sock["Host"] = "open"
            /\ \E m \in Told : m.t \notin {"start", "welcome"} /\ down["Host"]' = Append(down["Host"], m)
  PROVE  Hosting'
<1>1. down["Host"] \in Seq(Told)
  BY Parts DEF Wires, Roles
<1>2. CASE down["Host"]' = down["Host"]
  BY <1>2 DEF Wires, Hosting, Playing
<1>3. ASSUME NEW m \in Told, m.t \notin {"start", "welcome"}, down["Host"]' = Append(down["Host"], m),
             relay.seat["Host"] = "cur", sock["Host"] = "open"
      PROVE  Hosting'
  <2>1. /\ down["Host"]' # <<>> /\ DOMAIN (down["Host"]') = 1..(Len(down["Host"]) + 1)
        /\ \A i \in DOMAIN down["Host"] : down["Host"]'[i] = down["Host"][i] /\ i \in 1..Len(down["Host"])
        /\ down["Host"]'[Len(down["Host"]) + 1] = m
        /\ \A i \in 1..(Len(down["Host"]) + 1) : i \in DOMAIN down["Host"] \/ i = Len(down["Host"]) + 1
        /\ down["Host"] # <<>> => 1 \in DOMAIN down["Host"]
    BY <1>1, <1>3
  <2> QED
    BY <1>1, <1>3, <2>1 DEF Wires, Hosting, Playing
<1> QED
  BY <1>2, <1>3

LEMMA JoiningKept ==
  ASSUME Wires, screen["Join"]' = screen["Join"], session["Join"]' = session["Join"], join' = join
  PROVE  Joining'
BY DEF Wires, Joining, NoJoiner

-----------------------------------------------------------------------------
(* The steps of the relay *)

LEMMA LineType ==
  ASSUME TypeOK, NEW r \in Roles
  PROVE  Line(r) \in Seq(Left \cup Sent)
<1>1. stale[r] \in Seq(Left \cup Sent) /\ up[r] \in Seq(Left \cup Sent)
  BY Parts
<1> QED
  BY <1>1 DEF Line

LEMMA LineAlone ==
  ASSUME TypeOK, NEW r \in Roles
  PROVE  /\ stale[r] = <<>> => Line(r) = up[r]
         /\ up[r] = <<>> => Line(r) = stale[r]
BY Parts, ConcatEmptySeq DEF Line

LEMMA LineAlonePrimed ==
  ASSUME TypeOK', NEW r \in Roles
  PROVE  /\ stale'[r] = <<>> => Line(r)' = up'[r]
         /\ up'[r] = <<>> => Line(r)' = stale'[r]
<1>1. stale'[r] \in Seq(Left) /\ up'[r] \in Seq(Sent)
  BY DEF TypeOK
<1> QED
  BY <1>1, ConcatEmptySeq DEF Line

\* A step of the relay leaves both players' programs alone.
Quiet == UNCHANGED <<session, screen, host, join, faults, history>>

LEMMA QuietNetwork ==
  ASSUME Quiet, sock["Join"]' = "open" => sock["Join"] = "open", \A r \in Roles : Carries(r)
  PROVE  Network
BY DEF Quiet, Network, Playing, Live

\* Nothing is taken from what is under way of r; its partner has heard one word
\* of the relay or none.
LEMMA CarriesWord ==
  ASSUME NEW r \in Roles, Line(r)' = Line(r), r = "Join" => (Passing' => Passing),
         \/ down[Other(r)]' = down[Other(r)]
         \/ \E m \in Told : /\ Control(m) /\ m.t # "welcome"
                            /\ down[Other(r)]' = Append(down[Other(r)], m)
  PROVE  Carries(r)
<1>1. Shrinks(Line(r), Line(r)', r = "Join" /\ Passing', r = "Join" /\ Live')
  BY DEF Shrinks
<1>2. Hears(down[Other(r)], down[Other(r)]', r = "Host" \/ Passing, r = "Join" /\ Passing')
  BY DEF Hears, Roles
<1> QED
  BY <1>1, <1>2 DEF Carries

\* The hello of a token that may come back.
LEMMA ReclaimedTypes ==
  ASSUME Wires, NEW r \in Roles, up[r] # <<>>, up[r][1].t = "hello", MayReclaim(r),
         Reclaim(r), up' = [up EXCEPT ![r] = Tail(@)], Quiet
  PROVE  /\ TypeOK' /\ sock' = sock
         /\ relay' = [relay EXCEPT !.seat[r] = "cur"]
         /\ stale'[r] = <<>> /\ up'[r] = <<>> /\ down[r] = <<>>
         /\ \A q \in Roles : q # r => stale'[q] = stale[q] /\ up'[q] = up[q]
         /\ LET w == [t |-> "welcome", phase |-> relay.phase]
            IN  /\ sock[r] = "open" => \/ down'[r] = Append(down[r], w)
                                       \/ /\ relay.phase = "Ended"
                                          /\ down'[r] = Append(Append(down[r], w), Msg("run_ended"))
                /\ sock[r] # "open" => down'[r] = down[r]
         /\ LET q == Other(r)
            IN  /\ down'[q] = Append(down[q], Msg("partner_rejoined")) \/ down'[q] = down[q]
                /\ ~(relay.seat[q] = "cur" /\ sock[q] = "open") => down'[q] = down[q]
         /\ session[r].phase = "Reconnecting" /\ relay.phase \in {"Active", "Ended"}
         /\ Line(r)' = SubSeq(Line(r), 1, 0)
<1> DEFINE w == [t |-> "welcome", phase |-> relay.phase]
           told == Down(down, Other(r), <<Msg("partner_rejoined")>>)
           answer == <<w>> \o (IF relay.phase = "Ended" THEN <<Msg("run_ended")>> ELSE <<>>)
<1> USE DEF Wires
<1>1. TypeOK /\ Wired(r)
  OBVIOUS
<1>2. up[r] \in Seq(Sent) /\ 1 \in DOMAIN up[r]
  BY <1>1, Parts, HeadOf
<1>3. Len(up[r]) = 1 /\ down[r] = <<>> /\ session[r].phase = "Reconnecting"
  BY <1>1, <1>2 DEF Wired
<1>4. relay.phase \in {"Active", "Ended"}
  BY <1>1, Parts DEF MayReclaim
<1>5. w \in Welcomes /\ w \in Told /\ Msg("run_ended") \in Told
  BY <1>4, Words
<1>6. down \in [Roles -> Seq(Told)] /\ Other(r) \in Roles /\ Other(r) # r /\ Msg("partner_rejoined") \in Told
  BY <1>1, RolesTwo, Words DEF TypeOK
<1>7. /\ told \in [Roles -> Seq(Told)] /\ told[r] = down[r]
      /\ told[Other(r)] \in {down[Other(r)], Append(down[Other(r)], Msg("partner_rejoined"))}
      /\ ~(relay.seat[Other(r)] = "cur" /\ sock[Other(r)] = "open") => told[Other(r)] = down[Other(r)]
  BY <1>6, DownOne
<1>8. /\ relay' = [relay EXCEPT !.seat[r] = "cur"] /\ stale' = [stale EXCEPT ![r] = <<>>]
      /\ down' = (IF sock[r] = "open" THEN [told EXCEPT ![r] = @ \o answer] ELSE told)
      /\ sock' = sock
  BY DEF Reclaim, Superseded
<1> HIDE DEF told
<1>9. /\ relay.phase = "Active" => down[r] \o answer = Append(down[r], w)
      /\ relay.phase = "Ended" => down[r] \o answer = Append(Append(down[r], w), Msg("run_ended"))
      /\ down[r] \o answer \in Seq(Told)
  <2> HIDE DEF w
  <2>1. down[r] \in Seq(Told) /\ <<w>> \in Seq(Told) /\ <<Msg("run_ended")>> \in Seq(Told)
    BY <1>5, <1>6
  <2>2. down[r] \o <<w>> = Append(down[r], w) /\ Append(down[r], w) \in Seq(Told)
    BY <1>5, <2>1, AppendIsConcat
  <2>3. Append(down[r], w) \o <<Msg("run_ended")>> = Append(Append(down[r], w), Msg("run_ended"))
    BY <1>5, <2>2, AppendIsConcat
  <2>4. <<w>> \o <<>> = <<w>>
    BY <2>1, ConcatEmptySeq
  <2>5. down[r] \o (<<w>> \o <<Msg("run_ended")>>) = (down[r] \o <<w>>) \o <<Msg("run_ended")>>
    BY <2>1, ConcatAssociative
  <2>6. CASE relay.phase = "Active"
    BY <2>2, <2>4, <2>6
  <2>7. CASE relay.phase = "Ended"
    BY <1>5, <2>2, <2>3, <2>5, <2>7
  <2> QED
    BY <1>4, <2>6, <2>7
<1> HIDE DEF answer
<1>10. /\ down' \in [Roles -> Seq(Told)] /\ \A q \in Roles : q # r => down'[q] = told[q]
       /\ down'[r] = (IF sock[r] = "open" THEN down[r] \o answer ELSE down[r])
  BY <1>7, <1>8, <1>9
<1>11. Tail(up[r]) = <<>> /\ SubSeq(Line(r), 1, 0) = <<>> /\ <<>> \in Seq(Sent) /\ <<>> \in Seq(Left)
  <2>1. Line(r) \in Seq(Left \cup Sent)
    BY <1>1, LineType
  <2>2. Tail(up[r]) \in Seq(Sent) /\ Len(Tail(up[r])) = 0
    BY <1>2, <1>3, TailOf
  <2>3. SubSeq(Line(r), 1, 0) = <<>>
    BY <2>1
  <2> QED
    BY <2>2, <2>3, EmptySeq
<1>12. /\ up' \in [Roles -> Seq(Sent)] /\ up'[r] = <<>> /\ stale' \in [Roles -> Seq(Left)] /\ stale'[r] = <<>>
       /\ \A q \in Roles : q # r => up'[q] = up[q] /\ stale'[q] = stale[q]
  BY <1>1, <1>8, <1>11 DEF TypeOK
<1>13. relay' \in Rooms
  BY <1>1, <1>8 DEF TypeOK, Rooms
<1>14. TypeOK'
  BY <1>1, <1>8, <1>10, <1>12, <1>13 DEF TypeOK, Quiet
<1>15. Line(r)' = SubSeq(Line(r), 1, 0)
  BY <1>11, <1>12, <1>14, LineAlonePrimed
<1>16. /\ sock[r] = "open" => \/ down'[r] = Append(down[r], w)
                             \/ /\ relay.phase = "Ended"
                                /\ down'[r] = Append(Append(down[r], w), Msg("run_ended"))
       /\ sock[r] # "open" => down'[r] = down[r]
  <2> HIDE DEF w
  <2> QED
    BY <1>4, <1>9, <1>10
<1>17. /\ down'[Other(r)] = Append(down[Other(r)], Msg("partner_rejoined")) \/ down'[Other(r)] = down[Other(r)]
       /\ ~(relay.seat[Other(r)] = "cur" /\ sock[Other(r)] = "open") => down'[Other(r)] = down[Other(r)]
  BY <1>6, <1>7, <1>10
<1> QED
  BY <1>3, <1>4, <1>8, <1>12, <1>14, <1>15, <1>16, <1>17

LEMMA ReclaimedStep ==
  ASSUME Wires, NEW r \in Roles, up[r] # <<>>, up[r][1].t = "hello", MayReclaim(r),
         Reclaim(r), up' = [up EXCEPT ![r] = Tail(@)], Quiet
  PROVE  Wires' /\ Network
<1> DEFINE w == [t |-> "welcome", phase |-> relay.phase]
           q == Other(r)
<1>1. /\ TypeOK' /\ sock' = sock
      /\ relay' = [relay EXCEPT !.seat[r] = "cur"]
      /\ stale'[r] = <<>> /\ up'[r] = <<>> /\ down[r] = <<>>
      /\ \A p \in Roles : p # r => stale'[p] = stale[p] /\ up'[p] = up[p]
      /\ sock[r] = "open" => \/ down'[r] = Append(down[r], w)
                             \/ /\ relay.phase = "Ended"
                                /\ down'[r] = Append(Append(down[r], w), Msg("run_ended"))
      /\ sock[r] # "open" => down'[r] = down[r]
      /\ down'[q] = Append(down[q], Msg("partner_rejoined")) \/ down'[q] = down[q]
      /\ ~(relay.seat[q] = "cur" /\ sock[q] = "open") => down'[q] = down[q]
      /\ session[r].phase = "Reconnecting" /\ relay.phase \in {"Active", "Ended"}
      /\ Line(r)' = SubSeq(Line(r), 1, 0)
  BY ReclaimedTypes
<1>2. TypeOK /\ Wired(r) /\ Wired(q) /\ Hosting /\ Joining /\ q \in Roles /\ q # r
  BY RolesTwo DEF Wires
<1>3. /\ relay'.phase = relay.phase /\ relay'.seat[r] = "cur" /\ relay'.seat[q] = relay.seat[q]
      /\ \A p \in Roles : p # r => relay'.seat[p] = relay.seat[p]
  BY <1>1, <1>2 DEF TypeOK, Rooms
<1>4. w \in Welcomes /\ w \in Told /\ w.t = "welcome" /\ Msg("partner_rejoined") \in Told
      /\ Msg("partner_rejoined").t = "partner_rejoined" /\ Msg("run_ended") \in Ends
      /\ Msg("run_ended") \in Told /\ Msg("run_ended").t = "run_ended"
  BY <1>1, Words
<1>5. Wired(r)'
  <2>1. sock[r] # "none"
    <3>1. up[r] # <<>>
      OBVIOUS
    <3> QED
      BY <1>2, <3>1 DEF Wired
  <2>2. /\ relay.seat'[r] = "cur" /\ stale[r]' = <<>> /\ up[r]' = <<>> /\ sock[r]' # "none"
        /\ session[r]' = session[r]
    BY <1>1, <1>3, <2>1 DEF Quiet
  <2> QED
    BY <2>2 DEF Wired
<1>6. Wired(q)'
  <2>1. /\ relay.seat[q]' = relay.seat[q] /\ sock[q]' = sock[q] /\ up[q]' = up[q]
        /\ stale[q]' = stale[q] /\ session[q]' = session[q] /\ relay.phase' = relay.phase
        /\ down[q]' = down[q] \/ (relay.seat[q] = "cur" /\ sock[q] = "open")
    BY <1>1, <1>2, <1>3 DEF Quiet
  <2> QED
    BY <1>2, <2>1, WiredKept
<1>7. \A p \in Roles : Wired(p)'
  BY <1>5, <1>6 DEF Roles, Other
<1>8. Hosting'
  <2>1. CASE r = "Host"
    <3>1. down["Host"] = <<>> /\ session["Host"].phase = "Reconnecting"
      BY <1>1, <2>1
    <3>2. CASE sock[r] # "open"
      <4>1. down'["Host"] = <<>> /\ sock'["Host"] # "open"
        BY <1>1, <2>1, <3>1, <3>2
      <4> QED
        BY <1>2, <3>1, <4>1 DEF Hosting, Playing, Quiet
    <3>3. CASE sock[r] = "open"
      <4>1. /\ down'["Host"][1].t = "welcome"
            /\ \A i \in DOMAIN down'["Host"] :
                 /\ down'["Host"][i].t # "start"
                 /\ down'["Host"][i].t = "welcome" => i = 1
        <5>1. CASE down'["Host"] = Append(<<>>, w)
          BY <1>4, <5>1
        <5>2. CASE down'["Host"] = Append(Append(<<>>, w), Msg("run_ended"))
          BY <1>4, <5>2
        <5>3. \/ down'["Host"] = Append(<<>>, w)
              \/ down'["Host"] = Append(Append(<<>>, w), Msg("run_ended"))
          <6> HIDE DEF w
          <6>1. \/ down'[r] = Append(down[r], w)
                \/ down'[r] = Append(Append(down[r], w), Msg("run_ended"))
            BY <1>1, <3>3
          <6> QED
            BY <2>1, <3>1, <6>1
        <5> HIDE DEF w
        <5> QED
          BY <5>1, <5>2, <5>3
      <4>2. session' = session /\ screen' = screen /\ host' = host
        BY DEF Quiet
      <4>5. session'["Host"].phase = "Reconnecting"
        BY <3>1, <4>2
      <4>3. ASSUME NEW i \in DOMAIN down'["Host"]
            PROVE  /\ down'["Host"][i].t # "start"
                   /\ down'["Host"][i].t = "welcome" => i = 1 /\ session'["Host"].phase = "Reconnecting"
        BY <4>1, <4>5
      <4>4. down'["Host"] # <<>>
        <5> HIDE DEF w
        <5>1. \A m, n : Append(<<>>, m) # <<>> /\ Append(Append(<<>>, m), n) # <<>>
          OBVIOUS
        <5> QED
          BY <1>1, <2>1, <3>1, <3>3, <5>1
      <4> QED
        BY <1>2, <4>1, <4>2, <4>3, <4>4 DEF Hosting, Playing
    <3> QED
      BY <3>2, <3>3
  <2>2. CASE r # "Host"
    <3>1. q = "Host"
      BY <1>2, <2>2 DEF Roles
    <3>2. \/ down["Host"]' = down["Host"]
          \/ /\ relay.seat["Host"] = "cur" /\ sock["Host"] = "open"
             /\ \E m \in Told : m.t \notin {"start", "welcome"} /\ down["Host"]' = Append(down["Host"], m)
      BY <1>1, <1>4, <3>1
    <3> QED
      BY <1>1, <1>3, <3>1, <3>2, HostingKept DEF Quiet
  <2> QED
    BY <2>1, <2>2
<1>9. Joining'
  BY JoiningKept DEF Quiet
<1>10. Carries(r)
  <2>1. ~(r = "Join" /\ Live')
    BY <1>1 DEF Live, Quiet
  <2>2. Shrinks(Line(r), Line(r)', r = "Join" /\ Passing', r = "Join" /\ Live')
    <3>1. 0 \in 0..Len(Line(r))
      BY <1>2, LineType
    <3> QED
      BY <1>1, <2>1, <3>1 DEF Shrinks
  <2>3. r = "Join" /\ Passing' => Passing
    BY <1>1, <1>2, <1>3 DEF Passing, Roles
  <2>4. Hears(down[q], down[q]', r = "Host" \/ Passing, r = "Join" /\ Passing')
    BY <1>1, <1>2, <1>4, <2>3 DEF Hears, Control, Roles
  <2> QED
    BY <2>2, <2>4 DEF Carries
<1>11. Carries(q)
  <2>1. Other(q) = r /\ Line(q)' = Line(q)
    BY <1>1, <1>2, RolesTwo DEF Line
  <2>2. Shrinks(Line(q), Line(q)', q = "Join" /\ Passing', q = "Join" /\ Live')
    BY <2>1 DEF Shrinks
  <2>3. CASE sock[r] # "open"
    <3>1. ~(q = "Join" /\ Passing') /\ down'[r] = down[r]
      BY <1>1, <1>2, <2>1, <2>3 DEF Passing, Roles
    <3> QED
      BY <2>1, <2>2, <3>1 DEF Carries, Hears
  <2>4. CASE sock[r] = "open"
    <3>1. Hears(down[r], down'[r], q = "Host" \/ Passing, q = "Join" /\ Passing')
      <4>1. CASE down'[r] = Append(down[r], w)
        BY <1>4, <4>1 DEF Hears
      <4>2. CASE relay.phase = "Ended" /\ down'[r] = Append(Append(down[r], w), Msg("run_ended"))
        BY <1>3, <1>4, <4>2 DEF Hears, Passing
      <4> QED
        BY <1>1, <2>4, <4>1, <4>2
    <3> QED
      BY <2>1, <2>2, <3>1 DEF Carries
  <2> QED
    BY <2>3, <2>4
<1>12. \A p \in Roles : Carries(p)
  BY <1>10, <1>11 DEF Roles, Other
<1>13. Network
  BY <1>1, <1>12, QuietNetwork
<1> QED
  BY <1>1, <1>7, <1>8, <1>9, <1>13 DEF Wires

LEMMA PrefixOf ==
  ASSUME NEW M, NEW s \in Seq(M), NEW t \in Seq(M)
  PROVE  SubSeq(s \o t, 1, Len(s)) = s /\ Len(s) \in 0..Len(s \o t)
<1>1. /\ Len(SubSeq(s \o t, 1, Len(s))) = Len(s)
      /\ \A i \in 1..Len(s) : SubSeq(s \o t, 1, Len(s))[i] = s[i]
      /\ SubSeq(s \o t, 1, Len(s)) \in Seq(M)
  OBVIOUS
<1>2. Len(s) \in 0..Len(s \o t)
  OBVIOUS
<1> QED
  BY <1>1, <1>2, SeqEqual

\* What was sent on a socket is gone, and what was left before it is not.
LEMMA UpLost ==
  ASSUME TypeOK, NEW r \in Roles, up'[r] = <<>>, stale'[r] = stale[r]
  PROVE  \E n \in 0..Len(Line(r)) : Line(r)' = SubSeq(Line(r), 1, n)
<1>1. stale[r] \in Seq(Left \cup Sent) /\ up[r] \in Seq(Left \cup Sent)
  BY Parts
<1>2. Line(r)' = stale[r]
  BY <1>1, ConcatEmptySeq DEF Line
<1>3. stale[r] = SubSeq(stale[r] \o up[r], 1, Len(stale[r])) /\ Len(stale[r]) \in 0..Len(stale[r] \o up[r])
  BY <1>1, PrefixOf
<1> QED
  BY <1>2, <1>3 DEF Line

\* The hello of a token that may not.
LEMMA RefusedStep ==
  ASSUME Wires, NEW r \in Roles, up[r] # <<>>, up[r][1].t = "hello", ~MayReclaim(r),
         Reclaim(r), up' = [up EXCEPT ![r] = Tail(@)], Quiet
  PROVE  Wires' /\ Network
<1> DEFINE q == Other(r)
<1>1. TypeOK /\ Wired(r) /\ Wired(q) /\ Hosting /\ Joining /\ q \in Roles /\ q # r /\ Other(q) = r
  BY RolesTwo DEF Wires
<1>2. up[r] \in Seq(Sent) /\ 1 \in DOMAIN up[r]
  BY <1>1, Parts, HeadOf
<1>3. Len(up[r]) = 1 /\ down[r] = <<>> /\ session[r].phase = "Reconnecting" /\ relay.seat[r] # "cur"
  BY <1>1, <1>2 DEF Wired
<1>4. Tail(up[r]) = <<>>
  <2>1. Tail(up[r]) \in Seq(Sent) /\ Len(Tail(up[r])) = 0
    BY <1>2, <1>3, TailOf
  <2> QED
    BY <2>1, EmptySeq
<1>5. Msg("error") \in Told /\ Msg("error").t = "error"
  BY Words
<1>6. /\ relay' = relay /\ stale' = stale /\ sock' = [sock EXCEPT ![r] = "dead"]
      /\ down' = [down EXCEPT ![r] = Append(@, Msg("error"))]
  BY DEF Reclaim
<1>7. /\ up' \in [Roles -> Seq(Sent)] /\ up'[r] = <<>> /\ up'[q] = up[q]
      /\ sock'[r] = "dead" /\ sock'[q] = sock[q] /\ sock' \in [Roles -> {"open", "dead", "none"}]
  <2>1. <<>> \in Seq(Sent)
    BY EmptySeq
  <2> QED
    BY <1>1, <1>4, <1>6, <2>1 DEF TypeOK
<1>8. down' \in [Roles -> Seq(Told)] /\ down'[r] = Append(down[r], Msg("error")) /\ down'[q] = down[q]
  <2>1. down[r] \in Seq(Told) /\ Append(down[r], Msg("error")) \in Seq(Told)
    BY <1>1, <1>5, Parts
  <2> QED
    BY <1>1, <1>6, <2>1 DEF TypeOK
<1>9. TypeOK'
  BY <1>1, <1>6, <1>7, <1>8 DEF TypeOK, Quiet
<1>10. Wired(r)'
  BY <1>1, <1>3, <1>6, <1>7 DEF Wired, Quiet
<1>11. Wired(q)'
  BY <1>1, <1>6, <1>7, <1>8, WiredKept DEF Quiet
<1>12. \A p \in Roles : Wired(p)'
  BY <1>10, <1>11 DEF Roles, Other
<1>13. session' = session /\ screen' = screen /\ host' = host
  BY DEF Quiet
<1>14. Hosting'
  <2>1. CASE r = "Host"
    <3>1. down'["Host"] = Append(<<>>, Msg("error"))
      BY <1>3, <1>8, <2>1
    <3>2. /\ down'["Host"][1].t = "error"
          /\ \A i \in DOMAIN down'["Host"] : i = 1
      BY <1>5, <3>1
    <3>3. down'["Host"] # <<>>
      BY <3>1
    <3> QED
      BY <1>1, <1>13, <3>2, <3>3 DEF Hosting, Playing
  <2>2. CASE r # "Host"
    <3>1. q = "Host"
      BY <1>1, <2>2 DEF Roles
    <3> QED
      BY <1>6, <1>7, <1>8, <1>13, <3>1, HostingKept
  <2> QED
    BY <2>1, <2>2
<1>15. Joining'
  BY JoiningKept DEF Quiet
<1>16. Carries(r)
  <2>1. Shrinks(Line(r), Line(r)', r = "Join" /\ Passing', r = "Join" /\ Live')
    <3>1. ~(r = "Join" /\ Live')
      BY <1>7 DEF Live
    <3>2. \E n \in 0..Len(Line(r)) : Line(r)' = SubSeq(Line(r), 1, n)
      BY <1>1, <1>6, <1>7, UpLost
    <3> QED
      BY <3>1, <3>2 DEF Shrinks
  <2>2. Hears(down[q], down[q]', r = "Host" \/ Passing, r = "Join" /\ Passing')
    <3>1. r = "Join" /\ Passing' => Passing
      BY <1>1, <1>6, <1>7 DEF Passing, Roles
    <3> QED
      BY <1>1, <1>8, <3>1 DEF Hears, Roles
  <2> QED
    BY <2>1, <2>2 DEF Carries
<1>17. Carries(q)
  <2>1. Line(q)' = Line(q)
    BY <1>6, <1>7 DEF Line
  <2>2. q = "Join" => (Passing' => Passing)
    BY <1>1, <1>6, <1>7 DEF Passing, Roles
  <2> QED
    BY <1>1, <1>5, <1>8, <2>1, <2>2, CarriesWord DEF Control
<1>18. \A p \in Roles : Carries(p)
  BY <1>16, <1>17 DEF Roles, Other
<1>19. Network
  <2>1. sock'["Join"] = "open" => sock["Join"] = "open"
    BY <1>6, <1>7, <1>1 DEF Roles
  <2> QED
    BY <1>18, <2>1, QuietNetwork
<1> QED
  BY <1>9, <1>12, <1>14, <1>15, <1>19 DEF Wires

\* A message, but the bye, of a socket that holds its seat: m is the next of r.
LEMMA HandledStep ==
  ASSUME Wires, NEW r \in Roles, NEW m \in Left \cup Sent, m.t \notin {"hello", "bye"},
         Handled(r, m), Quiet, Line(r) # <<>>, Line(r)[1] = m, Line(r)' = Tail(Line(r)),
         up'[Other(r)] = up[Other(r)], stale'[Other(r)] = stale[Other(r)]
  PROVE  /\ relay' \in Rooms /\ relay'.seat = relay.seat
         /\ relay'.phase = "Active" => relay.phase = "Active"
         /\ sock' = sock /\ down' \in [Roles -> Seq(Told)] /\ down'[r] = down[r]
         /\ Wired(Other(r))' /\ Hosting' /\ Joining' /\ Network
<1> DEFINE q == Other(r)
<1>1. TypeOK /\ q \in Roles /\ q # r /\ Other(q) = r
  BY RolesTwo DEF Wires
<1>2. /\ relay \in Rooms /\ relay.phase \in {"Active", "Ended", "Closed"} /\ relay.acked \in BOOLEAN
      /\ down \in [Roles -> Seq(Told)] /\ Line(r) \in Seq(Left \cup Sent)
  BY <1>1, Parts, LineType DEF TypeOK
<1>3. Line(q)' = Line(q)
  BY DEF Line
<1>4. Tail(Line(r)) = SubSeq(Line(r), 1 + 1, Len(Line(r))) /\ 1 \in 0..Len(Line(r))
  BY <1>2
<1> DEFINE Room == /\ relay' \in Rooms /\ relay'.seat = relay.seat /\ sock' = sock
                   /\ relay'.phase = "Active" => relay.phase = "Active"
           Told1 == \/ down' = down
                    \/ /\ m \in Told /\ m.t \notin {"start", "welcome"} /\ relay.phase = "Active"
                       /\ relay.seat[q] = "cur" /\ sock[q] = "open"
                       /\ down' \in [Roles -> Seq(Told)] /\ down'[r] = down[r]
                       /\ down'[q] = Append(down[q], m)
           Lost == ~(r = "Join" /\ Passing') \/ (Control(m) /\ m.t # "welcome")
<1>5. Room /\ Told1 /\ (down' = down => Lost)
  <2>1. CASE m.t = "result_ack"
    <3>1. /\ relay' = [relay EXCEPT !.acked = @ \/ relay.phase = "Ended"]
          /\ UNCHANGED <<sock, down>>
      <4> HIDE DEF Room, Told1, Lost
      <4> QED
        BY <2>1, Zenon DEF Handled
    <3>2. (relay.acked \/ relay.phase = "Ended") \in BOOLEAN
      BY <1>2
    <3>3. Room
      BY <1>2, <3>1, <3>2 DEF Rooms
    <3>4. Lost
      BY <2>1 DEF Control
    <3> QED
      BY <3>1, <3>3, <3>4
  <2>2. CASE m.t # "result_ack" /\ relay.phase = "Active"
    <3>1. Passed(r, m) /\ sock' = sock
      BY <2>2 DEF Handled
    <3>2. m \in Told /\ m.t \notin {"start", "welcome"}
      BY <2>2, LeftTold DEF Carried, Chunks, Pulses, Acks, Intents, Ends
    <3>3. Room
      <4>1. relay' = relay \/ relay' = [relay EXCEPT !.phase = "Ended"]
        BY <3>1 DEF Passed
      <4> QED
        BY <1>2, <3>1, <4>1 DEF Rooms
    <3>4. down' = Down(down, q, <<m>>)
      BY <3>1 DEF Passed
    <3>5. CASE relay.seat[q] = "cur" /\ sock[q] = "open"
      <4>1. down' \in [Roles -> Seq(Told)] /\ down'[q] = Append(down[q], m) /\ down'[r] = down[r]
        <5>1. /\ Down(down, q, <<m>>) \in [Roles -> Seq(Told)]
              /\ \A p \in Roles : p # q => Down(down, q, <<m>>)[p] = down[p]
              /\ Down(down, q, <<m>>)[q] = Append(down[q], m)
          BY <1>1, <1>2, <3>2, <3>5, DownOne
        <5> QED
          BY <1>1, <3>4, <5>1
      <4>2. down' # down
        <5>1. Len(down'[q]) = Len(down[q]) + 1 /\ Len(down[q]) \in Nat
          BY <1>1, <1>2, <3>2, <4>1
        <5> QED
          BY <5>1
      <4> QED
        BY <2>2, <3>2, <3>3, <3>5, <4>1, <4>2
    <3>6. CASE ~(relay.seat[q] = "cur" /\ sock[q] = "open")
      <4>1. down' = down
        BY <3>4, <3>6 DEF Down
      <4>2. Lost
        <5>1. r = "Join" => q = "Host"
          BY <1>1 DEF Roles
        <5> QED
          BY <3>3, <3>6, <5>1 DEF Passing
      <4> QED
        BY <3>3, <4>1, <4>2
    <3> QED
      BY <3>5, <3>6
  <2>3. CASE m.t # "result_ack" /\ relay.phase # "Active"
    <3>1. relay' = relay /\ sock' = sock /\ down' = down
      BY <2>3 DEF Handled
    <3> QED
      BY <1>2, <2>3, <3>1 DEF Passing
  <2> QED
    BY <2>1, <2>2, <2>3
<1>6. down' \in [Roles -> Seq(Told)] /\ down'[r] = down[r]
  BY <1>2, <1>5
<1>7. Wired(q)'
  BY <1>1, <1>5, WiredKept DEF Quiet
<1>8. Hosting'
  <2>1. screen' = screen /\ session' = session /\ host' = host
    BY DEF Quiet
  <2>2. \/ down["Host"]' = down["Host"]
        \/ /\ relay.seat["Host"] = "cur" /\ sock["Host"] = "open"
           /\ \E x \in Told : x.t \notin {"start", "welcome"} /\ down["Host"]' = Append(down["Host"], x)
    BY <1>1, <1>5 DEF Roles
  <2> QED
    BY <1>5, <2>1, <2>2, HostingKept
<1>9. Joining'
  BY JoiningKept DEF Quiet
<1>10. Carries(r)
  <2>1. CASE down' = down
    <3>1. Shrinks(Line(r), Line(r)', r = "Join" /\ Passing', r = "Join" /\ Live')
      BY <1>4, <1>5, <2>1 DEF Shrinks
    <3>2. Hears(down[q], down[q]', r = "Host" \/ Passing, r = "Join" /\ Passing')
      BY <1>1, <1>5, <2>1 DEF Hears, Passing, Roles
    <3> QED
      BY <3>1, <3>2 DEF Carries
  <2>2. CASE down' # down
    <3>1. r = "Join" => Passing
      BY <1>1, <1>5, <2>2 DEF Passing, Roles
    <3> QED
      BY <1>5, <2>2, <3>1 DEF Carries, Passes
  <2> QED
    BY <2>1, <2>2
<1>11. Carries(q)
  <2>1. q = "Join" => (Passing' => Passing)
    BY <1>5 DEF Passing
  <2> QED
    BY <1>1, <1>3, <1>6, <2>1, CarriesWord
<1>12. \A p \in Roles : Carries(p)
  BY <1>10, <1>11 DEF Roles, Other
<1>13. Network
  BY <1>5, <1>12, QuietNetwork
<1> QED
  BY <1>5, <1>6, <1>7, <1>8, <1>9, <1>13

LEMMA SuffixOf ==
  ASSUME NEW M, NEW s \in Seq(M), NEW t \in Seq(M)
  PROVE  SubSeq(s \o t, Len(s) + 1, Len(s \o t)) = t /\ Len(s) \in 0..Len(s \o t)
<1>1. /\ Len(SubSeq(s \o t, Len(s) + 1, Len(s \o t))) = Len(t)
      /\ \A i \in 1..Len(t) : SubSeq(s \o t, Len(s) + 1, Len(s \o t))[i] = t[i]
      /\ SubSeq(s \o t, Len(s) + 1, Len(s \o t)) \in Seq(M)
  OBVIOUS
<1>2. Len(s) \in 0..Len(s \o t)
  OBVIOUS
<1> QED
  BY <1>1, <1>2, SeqEqual

LEMMA TailOfLine ==
  ASSUME NEW M, NEW s \in Seq(M), NEW t \in Seq(M), s # <<>>
  PROVE  Tail(s \o t) = Tail(s) \o t /\ (s \o t)[1] = s[1] /\ s \o t # <<>>
<1>1. /\ Len(Tail(s \o t)) = Len(Tail(s) \o t)
      /\ \A i \in 1..Len(Tail(s \o t)) : Tail(s \o t)[i] = (Tail(s) \o t)[i]
      /\ Tail(s \o t) \in Seq(M) /\ Tail(s) \o t \in Seq(M)
  OBVIOUS
<1>2. (s \o t)[1] = s[1] /\ s \o t # <<>>
  OBVIOUS
<1> QED
  BY <1>1, <1>2, SeqEqual

\* What was left behind goes, and what came after it does not.
LEMMA StaleLost ==
  ASSUME TypeOK, NEW r \in Roles, stale'[r] = <<>>, up'[r] = up[r]
  PROVE  \E n \in 0..Len(Line(r)) : Line(r)' = SubSeq(Line(r), n + 1, Len(Line(r)))
<1>1. stale[r] \in Seq(Left \cup Sent) /\ up[r] \in Seq(Left \cup Sent)
  BY Parts
<1>2. Line(r)' = up[r]
  BY <1>1, ConcatEmptySeq DEF Line
<1>3. SubSeq(stale[r] \o up[r], Len(stale[r]) + 1, Len(stale[r] \o up[r])) = up[r]
      /\ Len(stale[r]) \in 0..Len(stale[r] \o up[r])
  BY <1>1, SuffixOf
<1> QED
  BY <1>2, <1>3 DEF Line

\* The room closes; it may have told r's partner.
LEMMA CloseRoomStep ==
  ASSUME Wires, NEW r \in Roles, CloseRoom, Quiet,
         \/ down' = down
         \/ down' = Down(down, Other(r), <<Msg("partner_left")>>)
  PROVE  Wires' /\ Network
<1> DEFINE q == Other(r)
<1>1. TypeOK /\ q \in Roles /\ q # r /\ Other(q) = r /\ Hosting /\ Joining
  BY RolesTwo DEF Wires
<1>2. relay' \in Rooms /\ relay'.phase = "Closed" /\ \A p \in Roles : relay'.seat[p] = "gone"
  <2>1. relay' = [relay EXCEPT !.phase = "Closed", !.seat = [p \in Roles |-> "gone"]] /\ relay \in Rooms
    BY <1>1 DEF CloseRoom, TypeOK
  <2> QED
    BY <2>1 DEF Rooms
<1>3. ASSUME NEW p \in Roles
      PROVE  /\ stale'[p] = <<>>
             /\ sock'[p] = IF relay.seat[p] = "cur" /\ sock[p] = "open" THEN "dead" ELSE sock[p]
             /\ up'[p] = IF relay.seat[p] = "cur" THEN <<>> ELSE up[p]
  BY DEF CloseRoom
<1>4. Msg("partner_left") \in Told /\ Msg("partner_left").t = "partner_left"
  BY Words
<1>5. down \in [Roles -> Seq(Told)]
  BY <1>1 DEF TypeOK
<1>6. /\ down' \in [Roles -> Seq(Told)]
      /\ \A p \in Roles :
           \/ down'[p] = down[p]
           \/ /\ relay.seat[p] = "cur" /\ sock[p] = "open"
              /\ down'[p] = Append(down[p], Msg("partner_left"))
  <2> DEFINE d == Down(down, q, <<Msg("partner_left")>>)
  <2>1. /\ d \in [Roles -> Seq(Told)]
        /\ \A p \in Roles : p # q => d[p] = down[p]
        /\ relay.seat[q] = "cur" /\ sock[q] = "open" => d[q] = Append(down[q], Msg("partner_left"))
        /\ ~(relay.seat[q] = "cur" /\ sock[q] = "open") => d[q] = down[q]
    BY <1>1, <1>4, <1>5, DownOne
  <2>2. down' = down \/ down' = d
    OBVIOUS
  <2> HIDE DEF d
  <2> QED
    BY <1>1, <1>5, <2>1, <2>2
<1>7. TypeOK'
  <2>1. <<>> \in Seq(Sent) /\ <<>> \in Seq(Left)
    BY EmptySeq
  <2>2. up' \in [Roles -> Seq(Sent)] /\ stale' \in [Roles -> Seq(Left)]
        /\ sock' \in [Roles -> {"open", "dead", "none"}]
    BY <1>1, <2>1 DEF CloseRoom, TypeOK
  <2> QED
    BY <1>1, <1>2, <1>6, <2>2 DEF TypeOK, Quiet
<1>8. ASSUME NEW p \in Roles PROVE Wired(p)'
  <2>1. Wired(p)
    BY DEF Wires
  <2>2. session' = session
    BY DEF Quiet
  <2>3. relay'.seat[p] = "gone" /\ relay'.phase = "Closed" /\ stale'[p] = <<>>
    BY <1>2, <1>3
  <2>4. sock'[p] = "none" => up'[p] = <<>> /\ down'[p] = <<>>
    BY <1>3, <1>6, <2>1 DEF Wired
  <2>5. sock'[p] = "open" => Greets(p)'
    BY <1>3, <2>1 DEF Wired, Greets
  <2>6. ASSUME NEW i \in DOMAIN up'[p], up'[p][i].t = "hello"
        PROVE  Len(up'[p]) = 1 /\ down'[p] = <<>> /\ session'[p].phase = "Reconnecting"
    <3>1. CASE relay.seat[p] = "cur"
      <4>1. DOMAIN up'[p] = {}
        BY <1>3, <3>1
      <4> QED
        BY <4>1
    <3>2. CASE relay.seat[p] # "cur"
      <4>1. up'[p] = up[p] /\ down'[p] = down[p]
        BY <1>3, <1>6, <3>2
      <4> QED
        BY <2>1, <2>2, <2>6, <4>1 DEF Wired
    <3> QED
      BY <3>1, <3>2
  <2> QED
    BY <2>3, <2>4, <2>5, <2>6 DEF Wired
<1>9. Hosting'
  <2>1. screen' = screen /\ session' = session /\ host' = host
    BY DEF Quiet
  <2>2. relay'.seat["Host"] # "cur"
    BY <1>2 DEF Roles
  <2>3. \/ down["Host"]' = down["Host"]
        \/ /\ relay.seat["Host"] = "cur" /\ sock["Host"] = "open"
           /\ \E x \in Told : x.t \notin {"start", "welcome"} /\ down["Host"]' = Append(down["Host"], x)
    BY <1>4, <1>6 DEF Roles
  <2> QED
    BY <2>1, <2>2, <2>3, HostingKept
<1>10. Joining'
  BY JoiningKept DEF Quiet
<1>11. ASSUME NEW p \in Roles PROVE Carries(p)
  <2>1. ~Passing'
    BY <1>2 DEF Passing
  <2>2. Shrinks(Line(p), Line(p)', p = "Join" /\ Passing', p = "Join" /\ Live')
    <3>1. CASE relay.seat[p] = "cur"
      <4>1. ~(p = "Join" /\ Live')
        BY <1>1, <1>3, <3>1 DEF Live
      <4>2. stale'[p] = stale[p] /\ up'[p] = <<>>
        BY <1>3, <3>1 DEF Wires, Wired
      <4>3. \E n \in 0..Len(Line(p)) : Line(p)' = SubSeq(Line(p), 1, n)
        BY <1>1, <4>2, UpLost
      <4> QED
        BY <4>1, <4>3 DEF Shrinks
    <3>2. CASE relay.seat[p] # "cur"
      <4>1. \E n \in 0..Len(Line(p)) : Line(p)' = SubSeq(Line(p), n + 1, Len(Line(p)))
        BY <1>1, <1>3, <3>2, StaleLost
      <4> QED
        BY <2>1, <4>1 DEF Shrinks
    <3> QED
      BY <3>1, <3>2
  <2>3. Hears(down[Other(p)], down[Other(p)]', p = "Host" \/ Passing, p = "Join" /\ Passing')
    <3>1. Other(p) \in Roles
      BY RolesTwo
    <3> QED
      BY <1>4, <1>6, <2>1, <3>1 DEF Hears, Control
  <2> QED
    BY <2>2, <2>3 DEF Carries
<1>12. Network
  <2>1. sock'["Join"] = "open" => sock["Join"] = "open"
    BY <1>3 DEF Roles
  <2> QED
    BY <1>11, <2>1, QuietNetwork
<1> QED
  BY <1>7, <1>8, <1>9, <1>10, <1>12 DEF Wires

\* A seat whose socket is detached is given up.
LEMMA SeatDepartedStep ==
  ASSUME Wires, NEW r \in Roles, relay.seat[r] # "cur", SeatDeparted(r), Quiet
  PROVE  Wires' /\ Network
<1> DEFINE q == Other(r)
<1>1. TypeOK /\ q \in Roles /\ q # r /\ Other(q) = r /\ Hosting /\ Joining /\ Wired(r)
  BY RolesTwo DEF Wires
<1>2. CASE ~(relay.phase = "Ended" /\ ~(relay.acked \/ r = "Join"))
  <2>1. CloseRoom /\ (\/ down' = down \/ down' = Down(down, Other(r), <<Msg("partner_left")>>))
    BY <1>2 DEF SeatDeparted
  <2> QED
    BY <2>1, CloseRoomStep
<1>3. CASE relay.phase = "Ended" /\ ~(relay.acked \/ r = "Join")
  <2>1. /\ relay' = [relay EXCEPT !.seat[r] = "gone"] /\ stale' = [stale EXCEPT ![r] = <<>>]
        /\ UNCHANGED <<sock, up, down>>
    BY <1>3 DEF SeatDeparted
  <2>2. /\ relay' \in Rooms /\ relay'.phase = "Ended" /\ relay'.seat[r] = "gone"
        /\ relay'.seat[q] = relay.seat[q]
    BY <1>1, <1>3, <2>1 DEF TypeOK, Rooms
  <2>3. stale' \in [Roles -> Seq(Left)] /\ stale'[r] = <<>> /\ stale'[q] = stale[q]
    <3>1. <<>> \in Seq(Left)
      BY EmptySeq
    <3> QED
      BY <1>1, <2>1, <3>1 DEF TypeOK
  <2>4. TypeOK'
    BY <1>1, <2>1, <2>2, <2>3 DEF TypeOK, Quiet
  <2>5. Wired(r)'
    BY <1>1, <2>1, <2>2, <2>3 DEF Wired, Greets, Quiet
  <2>6. Wired(q)'
    BY <1>1, <1>3, <2>1, <2>2, <2>3, WiredKept DEF Quiet
  <2>7. \A p \in Roles : Wired(p)'
    BY <2>5, <2>6 DEF Roles, Other
  <2>8. Hosting'
    <3>1. screen' = screen /\ session' = session /\ host' = host /\ sock' = sock /\ down' = down
      BY <2>1 DEF Quiet
    <3>2. relay'.seat["Host"] = "cur" => relay.seat["Host"] = "cur"
      BY <1>1, <2>2 DEF Roles
    <3> QED
      BY <3>1, <3>2, HostingKept
  <2>9. Joining'
    BY JoiningKept DEF Quiet
  <2>10. Carries(r)
    <3>1. ~Passing'
      BY <2>2 DEF Passing
    <3>2. \E n \in 0..Len(Line(r)) : Line(r)' = SubSeq(Line(r), n + 1, Len(Line(r)))
      BY <1>1, <2>1, <2>3, StaleLost
    <3>3. Shrinks(Line(r), Line(r)', r = "Join" /\ Passing', r = "Join" /\ Live')
      BY <3>1, <3>2 DEF Shrinks
    <3>4. Hears(down[q], down[q]', r = "Host" \/ Passing, r = "Join" /\ Passing')
      BY <2>1, <3>1 DEF Hears
    <3> QED
      BY <3>3, <3>4 DEF Carries
  <2>11. Carries(q)
    <3>1. ~Passing' /\ Line(q)' = Line(q)
      BY <2>1, <2>2, <2>3 DEF Passing, Line
    <3> QED
      BY <1>1, <2>1, <3>1, CarriesWord
  <2>12. \A p \in Roles : Carries(p)
    BY <2>10, <2>11 DEF Roles, Other
  <2>13. Network
    BY <2>1, <2>12, QuietNetwork
  <2> QED
    BY <2>4, <2>7, <2>8, <2>9, <2>13 DEF Wires
<1> QED
  BY <1>2, <1>3

LEMMA SentKinds ==
  /\ \A m \in Sent : m.t # "bye" /\ m.t # "welcome"
  /\ \A m \in Left : m.t # "hello" /\ m.t # "welcome"
BY DEF Sent, Left, Carried, Chunks, Pulses, Acks, Intents, Ends

LEMMA RelayReadsStep ==
  ASSUME Wires, NEW r \in Roles, RelayReads(r)
  PROVE  Wires' /\ Network
<1> DEFINE q == Other(r)
           m == up[r][1]
<1>1. TypeOK /\ q \in Roles /\ q # r /\ Other(q) = r /\ Wired(r) /\ Wired(q) /\ Hosting /\ Joining
  BY RolesTwo DEF Wires
<1>2. Quiet /\ up[r] # <<>>
  BY DEF RelayReads, Quiet
<1>3. up[r] \in Seq(Sent) /\ Head(up[r]) = m /\ m \in Sent /\ 1 \in DOMAIN up[r] /\ Len(up[r]) \in Nat \ {0}
  BY <1>1, <1>2, Parts, HeadOf
<1>4. m.t # "bye"
  BY <1>3, SentKinds
<1>5. Tail(up[r]) \in Seq(Sent) /\ Len(Tail(up[r])) = Len(up[r]) - 1
      /\ \A i \in 1..(Len(up[r]) - 1) : Tail(up[r])[i] = up[r][i + 1]
  BY <1>2, <1>3, TailOf
<1>6. CASE m.t = "hello"
  <2>1. Reclaim(r) /\ up' = [up EXCEPT ![r] = Tail(@)]
    BY <1>3, <1>6 DEF RelayReads
  <2> QED
    BY <1>2, <1>6, <2>1, ReclaimedStep, RefusedStep
<1>7. ASSUME m.t # "hello", up' = [up EXCEPT ![r] = Tail(@)]
      PROVE  /\ up' \in [Roles -> Seq(Sent)] /\ up'[r] = Tail(up[r]) /\ up'[q] = up[q]
             /\ \A i \in DOMAIN up'[r] : up'[r][i].t # "hello"
  <2>1. up' \in [Roles -> Seq(Sent)] /\ up'[r] = Tail(up[r]) /\ up'[q] = up[q]
    BY <1>1, <1>5, <1>7 DEF TypeOK
  <2>2. ASSUME NEW i \in DOMAIN Tail(up[r]), Tail(up[r])[i].t = "hello" PROVE FALSE
    <3>1. i \in 1..(Len(up[r]) - 1) /\ i + 1 \in DOMAIN up[r]
      BY <1>3, <1>5, <2>2
    <3>2. up[r][i + 1].t = "hello"
      BY <1>5, <2>2, <3>1
    <3>3. Len(up[r]) = 1
      BY <1>1, <3>1, <3>2 DEF Wired
    <3> QED
      BY <3>1, <3>3
  <2> QED
    BY <2>1, <2>2
<1>8. CASE m.t # "hello" /\ relay.seat[r] # "cur"
  <2>1. up' = [up EXCEPT ![r] = Tail(@)] /\ UNCHANGED <<relay, sock, down, stale>>
    BY <1>3, <1>8 DEF RelayReads
  <2>2. up' \in [Roles -> Seq(Sent)] /\ up'[r] = Tail(up[r]) /\ up'[q] = up[q]
        /\ \A i \in DOMAIN up'[r] : up'[r][i].t # "hello"
    BY <1>7, <1>8, <2>1
  <2>3. TypeOK'
    BY <1>1, <1>2, <2>1, <2>2 DEF TypeOK, Quiet
  <2>4. ~Greets(r)
    BY <1>8 DEF Greets
  <2>5. relay.phase # "Active" /\ stale[r] = <<>> /\ sock[r] # "open" /\ sock[r] # "none"
    BY <1>1, <1>2, <1>8, <2>4 DEF Wired
  <2>6. Wired(r)'
    BY <1>8, <2>1, <2>2, <2>5 DEF Wired
  <2>7. Wired(q)'
    BY <1>1, <1>2, <2>1, <2>2, WiredKept DEF Quiet
  <2>8. \A p \in Roles : Wired(p)'
    BY <2>6, <2>7 DEF Roles, Other
  <2>9. Hosting' /\ Joining'
    BY <1>2, <2>1, HostingKept, JoiningKept DEF Quiet
  <2>10. Carries(r)
    <3>1. Line(r) = up[r] /\ Line(r)' = Tail(up[r])
      BY <1>1, <2>1, <2>2, <2>3, <2>5, LineAlone, LineAlonePrimed
    <3>2. Tail(up[r]) = SubSeq(up[r], 1 + 1, Len(up[r])) /\ 1 \in 0..Len(up[r])
      BY <1>3
    <3>3. ~Passing'
      BY <2>1, <2>5 DEF Passing
    <3>4. Shrinks(Line(r), Line(r)', r = "Join" /\ Passing', r = "Join" /\ Live')
      BY <3>1, <3>2, <3>3 DEF Shrinks
    <3>5. Hears(down[q], down[q]', r = "Host" \/ Passing, r = "Join" /\ Passing')
      BY <2>1, <3>3 DEF Hears
    <3> QED
      BY <3>4, <3>5 DEF Carries
  <2>11. Carries(q)
    <3>1. ~Passing' /\ Line(q)' = Line(q)
      BY <2>1, <2>2, <2>5 DEF Passing, Line
    <3> QED
      BY <1>1, <2>1, <3>1, CarriesWord
  <2>12. \A p \in Roles : Carries(p)
    BY <2>10, <2>11 DEF Roles, Other
  <2>13. Network
    BY <1>2, <2>1, <2>12, QuietNetwork
  <2> QED
    BY <2>3, <2>8, <2>9, <2>13 DEF Wires
<1>9. CASE m.t # "hello" /\ relay.seat[r] = "cur"
  <2>1. Handled(r, m) /\ up' = [up EXCEPT ![r] = Tail(@)] /\ UNCHANGED stale
    BY <1>3, <1>4, <1>9 DEF RelayReads
  <2>2. up' \in [Roles -> Seq(Sent)] /\ up'[r] = Tail(up[r]) /\ up'[q] = up[q]
        /\ \A i \in DOMAIN up'[r] : up'[r][i].t # "hello"
    BY <1>7, <1>9, <2>1
  <2>3. stale[r] = <<>>
    BY <1>1, <1>9 DEF Wired
  <2>4. Line(r) = up[r]
    BY <1>1, <2>3, LineAlone
  <2>5. Line(r)' = Tail(up[r])
    <3>1. Tail(up[r]) \in Seq(Sent)
      BY <1>5
    <3>2. stale'[r] = <<>>
      BY <2>1, <2>3
    <3> QED
      BY <2>2, <3>1, <3>2, ConcatEmptySeq DEF Line
  <2>6. /\ relay' \in Rooms /\ relay'.seat = relay.seat
        /\ relay'.phase = "Active" => relay.phase = "Active"
        /\ sock' = sock /\ down' \in [Roles -> Seq(Told)] /\ down'[r] = down[r]
        /\ Wired(q)' /\ Hosting' /\ Joining' /\ Network
    <3>1. Line(r) # <<>> /\ Line(r)[1] = m /\ Line(r)' = Tail(Line(r))
      BY <1>2, <2>4, <2>5
    <3>2. up'[Other(r)] = up[Other(r)] /\ stale'[Other(r)] = stale[Other(r)]
      BY <2>1, <2>2
    <3>3. m \in Left \cup Sent /\ m.t \notin {"hello", "bye"}
      BY <1>3, <1>4, <1>9
    <3> HIDE DEF m
    <3> QED
      BY <1>2, <2>1, <3>1, <3>2, <3>3, HandledStep
  <2>7. TypeOK'
    BY <1>1, <1>2, <2>1, <2>2, <2>6 DEF TypeOK, Quiet
  <2>8. Wired(r)'
    <3>1. relay'.seat[r] = "cur" /\ stale'[r] = <<>> /\ sock'[r] # "none"
      BY <1>1, <1>9, <2>1, <2>3, <2>6 DEF Wired
    <3> QED
      BY <2>2, <3>1 DEF Wired
  <2>9. \A p \in Roles : Wired(p)'
    BY <2>6, <2>8 DEF Roles, Other
  <2> QED
    BY <2>6, <2>7, <2>9 DEF Wires
<1> QED
  BY <1>6, <1>8, <1>9

LEMMA RelayReadsStaleStep ==
  ASSUME Wires, NEW r \in Roles, RelayReadsStale(r)
  PROVE  Wires' /\ Network
<1> DEFINE q == Other(r)
           m == stale[r][1]
<1>1. TypeOK /\ q \in Roles /\ q # r /\ Other(q) = r /\ Wired(r) /\ Wired(q)
  BY RolesTwo DEF Wires
<1>2. Quiet /\ stale[r] # <<>>
  BY DEF RelayReadsStale, Quiet
<1>3. stale[r] \in Seq(Left) /\ Head(stale[r]) = m /\ m \in Left /\ m.t # "hello"
  BY <1>1, <1>2, Parts, HeadOf, SentKinds
<1>4. relay.seat[r] = "old"
  BY <1>1, <1>2 DEF Wired
<1>5. CASE m.t = "bye"
  <2>1. SeatDeparted(r)
    BY <1>3, <1>5 DEF RelayReadsStale, Handled
  <2> QED
    BY <1>2, <1>4, <2>1, SeatDepartedStep
<1>6. CASE m.t # "bye"
  <2>1. Handled(r, m) /\ stale' = [stale EXCEPT ![r] = Tail(@)] /\ UNCHANGED up
    BY <1>3, <1>6 DEF RelayReadsStale
  <2>2. stale' \in [Roles -> Seq(Left)] /\ stale'[r] = Tail(stale[r]) /\ stale'[q] = stale[q]
    <3>1. Tail(stale[r]) \in Seq(Left)
      BY <1>2, <1>3, TailOf
    <3> QED
      BY <1>1, <2>1, <3>1 DEF TypeOK
  <2>3. Line(r) # <<>> /\ Line(r)[1] = m /\ Line(r)' = Tail(Line(r))
    <3>1. stale[r] \in Seq(Left \cup Sent) /\ up[r] \in Seq(Left \cup Sent)
      BY <1>1, Parts
    <3>2. /\ Tail(stale[r] \o up[r]) = Tail(stale[r]) \o up[r] /\ (stale[r] \o up[r])[1] = m
          /\ stale[r] \o up[r] # <<>>
      BY <1>2, <3>1, TailOfLine
    <3> QED
      BY <2>1, <2>2, <3>2 DEF Line
  <2>4. /\ relay' \in Rooms /\ relay'.seat = relay.seat
        /\ relay'.phase = "Active" => relay.phase = "Active"
        /\ sock' = sock /\ down' \in [Roles -> Seq(Told)] /\ down'[r] = down[r]
        /\ Wired(q)' /\ Hosting' /\ Joining' /\ Network
    <3>1. up'[Other(r)] = up[Other(r)] /\ stale'[Other(r)] = stale[Other(r)]
      BY <2>1, <2>2
    <3>2. m \in Left \cup Sent /\ m.t \notin {"hello", "bye"}
      BY <1>3, <1>6
    <3> HIDE DEF m
    <3> QED
      BY <1>2, <2>1, <2>3, <3>1, <3>2, HandledStep
  <2>5. TypeOK'
    BY <1>1, <1>2, <2>1, <2>2, <2>4 DEF TypeOK, Quiet
  <2>6. Wired(r)'
    <3>1. /\ relay'.seat[r] = "old" /\ sock'[r] = sock[r] /\ up'[r] = up[r] /\ down'[r] = down[r]
          /\ session'[r] = session[r]
      BY <1>2, <1>4, <2>1, <2>4 DEF Quiet
    <3> QED
      BY <1>1, <1>2, <1>4, <2>4, <3>1 DEF Wired, Greets
  <2>7. \A p \in Roles : Wired(p)'
    BY <2>4, <2>6 DEF Roles, Other
  <2> QED
    BY <2>4, <2>5, <2>7 DEF Wires
<1> QED
  BY <1>5, <1>6

LEMMA RelayNoticesStep ==
  ASSUME Wires, NEW r \in Roles, RelayNotices(r)
  PROVE  Wires' /\ Network
<1> DEFINE q == Other(r)
           m == Msg("partner_disconnected")
<1>1. TypeOK /\ q \in Roles /\ q # r /\ Other(q) = r /\ Wired(r) /\ Wired(q)
  BY RolesTwo DEF Wires
<1>2. Quiet /\ UNCHANGED <<sock, up, stale>> /\ SeatLost(r)
  BY DEF RelayNotices, Quiet
<1>3. \/ relay.seat[r] = "old" /\ stale[r] = <<>>
      \/ relay.seat[r] = "cur" /\ sock[r] = "dead" /\ up[r] = <<>>
  BY DEF RelayNotices
<1>4. /\ relay' \in Rooms /\ relay'.seat[r] = "lost" /\ relay'.seat[q] = relay.seat[q]
      /\ relay'.phase = relay.phase
  BY <1>1, <1>2 DEF SeatLost, TypeOK, Rooms
<1>5. m \in Told /\ m.t = "partner_disconnected"
  BY Words
<1>6. /\ down' \in [Roles -> Seq(Told)] /\ down'[r] = down[r]
      /\ \/ down'[q] = down[q]
         \/ relay.seat[q] = "cur" /\ sock[q] = "open" /\ down'[q] = Append(down[q], m)
  <2> DEFINE d == Down(down, q, <<m>>)
  <2>1. down \in [Roles -> Seq(Told)]
    BY <1>1 DEF TypeOK
  <2>2. /\ d \in [Roles -> Seq(Told)]
        /\ \A p \in Roles : p # q => d[p] = down[p]
        /\ relay.seat[q] = "cur" /\ sock[q] = "open" => d[q] = Append(down[q], m)
        /\ ~(relay.seat[q] = "cur" /\ sock[q] = "open") => d[q] = down[q]
    BY <1>1, <1>5, <2>1, DownOne
  <2>3. down' = down \/ down' = d
    BY <1>2 DEF SeatLost
  <2> HIDE DEF d
  <2> QED
    BY <1>1, <2>1, <2>2, <2>3
<1>7. TypeOK'
  BY <1>1, <1>2, <1>4, <1>6 DEF TypeOK, Quiet
<1>8. Wired(r)'
  BY <1>1, <1>2, <1>3, <1>4, <1>6 DEF Wired, Greets, Quiet
<1>9. Wired(q)'
  BY <1>1, <1>2, <1>4, <1>6, WiredKept DEF Quiet
<1>10. \A p \in Roles : Wired(p)'
  BY <1>8, <1>9 DEF Roles, Other
<1>11. Hosting'
  <2>1. screen' = screen /\ session' = session /\ host' = host /\ sock' = sock
    BY <1>2 DEF Quiet
  <2>2. relay'.seat["Host"] = "cur" => relay.seat["Host"] = "cur"
    BY <1>1, <1>4 DEF Roles
  <2>3. \/ down["Host"]' = down["Host"]
        \/ /\ relay.seat["Host"] = "cur" /\ sock["Host"] = "open"
           /\ \E x \in Told : x.t \notin {"start", "welcome"} /\ down["Host"]' = Append(down["Host"], x)
    BY <1>1, <1>5, <1>6 DEF Roles
  <2> QED
    BY <2>1, <2>2, <2>3, HostingKept
<1>12. Joining'
  BY <1>2, JoiningKept DEF Quiet
<1>13. ASSUME NEW p \in Roles PROVE Carries(p)
  <2>1. Line(p)' = Line(p)
    BY <1>2 DEF Line
  <2>2. Passing' => Passing
    BY <1>1, <1>2, <1>4 DEF Passing, Roles
  <2>3. \/ down[Other(p)]' = down[Other(p)]
        \/ Control(m) /\ m.t # "welcome" /\ down[Other(p)]' = Append(down[Other(p)], m)
    <3>1. Other(p) = r \/ Other(p) = q
      BY DEF Roles, Other
    <3> QED
      BY <1>5, <1>6, <3>1 DEF Control
  <2> HIDE DEF m
  <2> QED
    BY <1>5, <2>1, <2>2, <2>3, CarriesWord
<1>14. Network
  BY <1>2, <1>13, QuietNetwork
<1> QED
  BY <1>7, <1>10, <1>11, <1>12, <1>14 DEF Wires

LEMMA GraceExpiresStep ==
  ASSUME Wires, NEW r \in Roles, GraceExpires(r)
  PROVE  Wires' /\ Network
<1>1. Quiet /\ relay.seat[r] # "cur" /\ SeatDeparted(r)
  BY DEF GraceExpires, Quiet
<1> QED
  BY <1>1, SeatDepartedStep

LEMMA ResultDeliveredStep ==
  ASSUME Wires, ResultDelivered
  PROVE  Wires' /\ Network
<1>1. Quiet /\ CloseRoom /\ down' = down
  BY DEF ResultDelivered, Quiet
<1>2. "Host" \in Roles
  BY DEF Roles
<1> QED
  BY <1>1, <1>2, CloseRoomStep

-----------------------------------------------------------------------------
(* The steps of the sockets *)

LEMMA Shorter ==
  ASSUME NEW M, NEW s \in Seq(M), NEW n \in 0..Len(s)
  PROVE  /\ SubSeq(s, 1, n) \in Seq(M) /\ Len(SubSeq(s, 1, n)) = n
         /\ \A i \in 1..n : SubSeq(s, 1, n)[i] = s[i]
OBVIOUS

LEMMA ShorterLine ==
  ASSUME NEW M, NEW s \in Seq(M), NEW t \in Seq(M), NEW n \in 0..Len(t)
  PROVE  \E k \in 0..Len(s \o t) : s \o SubSeq(t, 1, n) = SubSeq(s \o t, 1, k)
<1>1. Len(s) + n \in 0..Len(s \o t)
  OBVIOUS
<1>2. /\ Len(s \o SubSeq(t, 1, n)) = Len(SubSeq(s \o t, 1, Len(s) + n))
      /\ \A i \in 1..(Len(s) + n) : (s \o SubSeq(t, 1, n))[i] = SubSeq(s \o t, 1, Len(s) + n)[i]
      /\ Len(s \o SubSeq(t, 1, n)) = Len(s) + n
  OBVIOUS
<1>3. s \o SubSeq(t, 1, n) \in Seq(M) /\ SubSeq(s \o t, 1, Len(s) + n) \in Seq(M)
  OBVIOUS
<1>4. s \o SubSeq(t, 1, n) = SubSeq(s \o t, 1, Len(s) + n)
  BY <1>2, <1>3, SeqEqual
<1> QED
  BY <1>1, <1>4

LEMMA CutStep ==
  ASSUME Wires, NEW r \in Roles, Cut(r)
  PROVE  Wires' /\ Network
<1> DEFINE q == Other(r)
<1>1. TypeOK /\ q \in Roles /\ q # r /\ Other(q) = r /\ Wired(r) /\ Wired(q) /\ Hosting
  BY RolesTwo DEF Wires
<1>2. /\ sock[r] = "open" /\ sock' = [sock EXCEPT ![r] = "dead"] /\ faults' = faults + 1
      /\ UNCHANGED <<relay, stale, session, screen, host, join, history>>
  BY DEF Cut
<1>3. PICK n \in 0..Len(up[r]), k \in 0..Len(down[r]) :
        /\ up' = [up EXCEPT ![r] = SubSeq(@, 1, n)]
        /\ down' = [down EXCEPT ![r] = SubSeq(@, 1, k)]
  BY DEF Cut
<1>4. up[r] \in Seq(Sent) /\ down[r] \in Seq(Told) /\ stale[r] \in Seq(Left)
  BY <1>1, Parts
<1>5. /\ SubSeq(up[r], 1, n) \in Seq(Sent) /\ Len(SubSeq(up[r], 1, n)) = n
      /\ \A i \in 1..n : SubSeq(up[r], 1, n)[i] = up[r][i]
      /\ SubSeq(down[r], 1, k) \in Seq(Told) /\ Len(SubSeq(down[r], 1, k)) = k
      /\ \A i \in 1..k : SubSeq(down[r], 1, k)[i] = down[r][i]
  BY <1>4, Shorter
<1>6. /\ up' \in [Roles -> Seq(Sent)] /\ down' \in [Roles -> Seq(Told)]
      /\ sock' \in [Roles -> {"open", "dead", "none"}] /\ sock'[r] = "dead" /\ sock'[q] = sock[q]
      /\ up'[r] = SubSeq(up[r], 1, n) /\ up'[q] = up[q]
      /\ down'[r] = SubSeq(down[r], 1, k) /\ down'[q] = down[q]
  BY <1>1, <1>2, <1>3, <1>5 DEF TypeOK
<1>7. TypeOK'
  BY <1>1, <1>2, <1>6 DEF TypeOK
<1>8. Wired(r)'
  <2>1. ASSUME NEW i \in DOMAIN up'[r]
        PROVE  i \in DOMAIN up[r] /\ up'[r][i] = up[r][i] /\ i \in 1..n
    BY <1>4, <1>5, <1>6, <2>1
  <2>2. (up[r] = <<>> => up'[r] = <<>>) /\ (down[r] = <<>> => down'[r] = <<>>)
    BY <1>4, <1>5, <1>6, EmptySeq
  <2>3. ASSUME NEW i \in DOMAIN up'[r], up'[r][i].t = "hello"
        PROVE  Len(up'[r]) = 1 /\ relay.seat[r] # "cur" /\ down'[r] = <<>>
               /\ session[r].phase = "Reconnecting"
    <3>1. Len(up[r]) = 1 /\ relay.seat[r] # "cur" /\ down[r] = <<>> /\ session[r].phase = "Reconnecting"
      BY <1>1, <2>1, <2>3 DEF Wired
    <3>2. Len(up'[r]) = 1
      BY <1>4, <1>5, <1>6, <2>1, <2>3, <3>1
    <3> QED
      BY <2>2, <3>1, <3>2
  <2>4. Greets(r) => up'[r] = <<>> \/ Greets(r)'
    <3>1. CASE n = 0
      BY <1>4, <1>5, <1>6, <3>1, EmptySeq
    <3>2. CASE n # 0
      <4>1. Greets(r) => n = 1 /\ Len(up'[r]) = 1 /\ up'[r][1] = up[r][1]
        BY <1>4, <1>5, <1>6, <3>2 DEF Greets
      <4> QED
        BY <4>1 DEF Greets
    <3> QED
      BY <3>1, <3>2
  <2>5. relay.seat[r] # "cur" /\ (relay.phase = "Active" \/ stale[r] # <<>>) =>
          up'[r] = <<>> \/ Greets(r)'
    BY <1>1, <2>2, <2>4 DEF Wired
  <2> QED
    BY <1>1, <1>2, <1>6, <2>3, <2>5 DEF Wired
<1>9. Wired(q)'
  BY <1>1, <1>2, <1>6, WiredKept
<1>10. \A p \in Roles : Wired(p)'
  BY <1>8, <1>9 DEF Roles, Other
<1>11. Hosting'
  <2>1. CASE r = "Host"
    <3>1. down["Host"] \in Seq(Told) /\ sock'["Host"] = "dead"
      BY <1>4, <1>6, <2>1
    <3>2. ASSUME NEW i \in DOMAIN down'["Host"]
          PROVE  i \in DOMAIN down["Host"] /\ down'["Host"][i] = down["Host"][i]
      BY <1>4, <1>5, <1>6, <2>1, <3>2
    <3>3. down'["Host"] # <<>> => 1 \in DOMAIN down'["Host"]
      BY <1>4, <1>5, <1>6, <2>1, EmptySeq
    <3>4. session["Host"].phase = "Reconnecting" /\ down'["Host"] # <<>> =>
            down'["Host"][1].t \in {"welcome", "error"}
      <4>1. down'["Host"] # <<>> => 1 \in DOMAIN down["Host"] /\ down'["Host"][1] = down["Host"][1] /\ down["Host"] # <<>>
        BY <3>2, <3>3, <1>4, <2>1
      <4> QED
        BY <1>1, <4>1 DEF Hosting
    <3> QED
      BY <1>1, <1>2, <3>1, <3>2, <3>4 DEF Hosting, Playing
  <2>2. CASE r # "Host"
    <3>1. q = "Host"
      BY <1>1, <2>2 DEF Roles
    <3> QED
      BY <1>2, <1>6, <3>1, HostingKept
  <2> QED
    BY <2>1, <2>2
<1>12. Joining'
  BY <1>2, JoiningKept
<1>13. Carries(r)
  <2>1. ~(r = "Join" /\ Live')
    BY <1>6 DEF Live
  <2>2. \E x \in 0..Len(Line(r)) : Line(r)' = SubSeq(Line(r), 1, x)
    <3>1. stale[r] \in Seq(Left \cup Sent) /\ up[r] \in Seq(Left \cup Sent)
      BY <1>4
    <3>2. \E x \in 0..Len(stale[r] \o up[r]) : stale[r] \o SubSeq(up[r], 1, n) = SubSeq(stale[r] \o up[r], 1, x)
      BY <3>1, ShorterLine
    <3> QED
      BY <1>2, <1>6, <3>2 DEF Line
  <2>3. Shrinks(Line(r), Line(r)', r = "Join" /\ Passing', r = "Join" /\ Live')
    BY <2>1, <2>2 DEF Shrinks
  <2>4. r = "Join" /\ Passing' => Passing
    BY <1>1, <1>2, <1>6 DEF Passing, Roles
  <2>5. Hears(down[q], down[q]', r = "Host" \/ Passing, r = "Join" /\ Passing')
    BY <1>6, <2>4 DEF Hears
  <2> QED
    BY <2>3, <2>5 DEF Carries
<1>14. Carries(q)
  <2>1. Line(q)' = Line(q)
    BY <1>2, <1>6 DEF Line
  <2>2. ~(q = "Join" /\ Passing')
    BY <1>1, <1>6 DEF Passing, Roles
  <2>3. Shrinks(Line(q), Line(q)', q = "Join" /\ Passing', q = "Join" /\ Live')
    BY <2>1 DEF Shrinks
  <2>4. Hears(down[r], down[r]', q = "Host" \/ Passing, q = "Join" /\ Passing')
    BY <1>6, <2>2 DEF Hears
  <2> QED
    BY <1>1, <2>3, <2>4 DEF Carries
<1>15. \A p \in Roles : Carries(p)
  BY <1>13, <1>14 DEF Roles, Other
<1>16. Live' => Live
  BY <1>1, <1>2, <1>6 DEF Live, Roles
<1>17. Network
  BY <1>2, <1>15, <1>16 DEF Network, Playing
<1> QED
  BY <1>7, <1>10, <1>11, <1>12, <1>17 DEF Wires

\* A player's end of its socket goes, and it is in no session that sends.
LEMMA HungUp ==
  ASSUME Wires, NEW r \in Roles, NEW queue, HangUp(r, queue),
         queue = up[r] \/ queue = Append(up[r], Msg("bye")),
         session[Other(r)]' = session[Other(r)]
  PROVE  /\ relay' \in Rooms /\ sock' \in [Roles -> {"open", "dead", "none"}]
         /\ up' \in [Roles -> Seq(Sent)] /\ down' \in [Roles -> Seq(Told)]
         /\ stale' \in [Roles -> Seq(Left)]
         /\ sock'[r] = "none" /\ sock'[Other(r)] = sock[Other(r)]
         /\ down'[r] = <<>> /\ down'[Other(r)] = down[Other(r)]
         /\ relay'.phase = relay.phase /\ relay'.seat[r] # "cur"
         /\ relay'.seat[Other(r)] = relay.seat[Other(r)]
         /\ (\A p \in Roles : Wired(p)') /\ (\A p \in Roles : Carries(p))
<1> DEFINE q == Other(r)
<1>1. TypeOK /\ q \in Roles /\ q # r /\ Other(q) = r /\ Wired(r) /\ Wired(q)
  BY RolesTwo DEF Wires
<1>2. up[r] \in Seq(Sent) /\ down[r] \in Seq(Told) /\ stale[r] \in Seq(Left)
  BY <1>1, Parts
<1>3. <<>> \in Seq(Sent) /\ <<>> \in Seq(Told) /\ <<>> \in Seq(Left)
  BY EmptySeq
<1>4. /\ sock' = [sock EXCEPT ![r] = "none"]
      /\ up' = [up EXCEPT ![r] = <<>>] /\ down' = [down EXCEPT ![r] = <<>>]
      /\ relay' = IF relay.seat[r] = "cur" THEN [relay EXCEPT !.seat[r] = "old"] ELSE relay
      /\ stale' = IF relay.seat[r] = "cur" THEN [stale EXCEPT ![r] = queue] ELSE stale
  BY DEF HangUp
<1>5. /\ sock' \in [Roles -> {"open", "dead", "none"}] /\ sock'[r] = "none" /\ sock'[q] = sock[q]
      /\ up' \in [Roles -> Seq(Sent)] /\ up'[r] = <<>> /\ up'[q] = up[q]
      /\ down' \in [Roles -> Seq(Told)] /\ down'[r] = <<>> /\ down'[q] = down[q]
  BY <1>1, <1>3, <1>4 DEF TypeOK
<1>6. /\ relay' \in Rooms /\ relay'.phase = relay.phase /\ relay'.seat[q] = relay.seat[q]
      /\ relay'.seat[r] = IF relay.seat[r] = "cur" THEN "old" ELSE relay.seat[r]
  BY <1>1, <1>4 DEF TypeOK, Rooms
<1>7. Msg("bye") \in Left /\ Control(Msg("bye"))
  BY Words DEF Control
<1>8. relay.seat[r] = "cur" => queue \in Seq(Left) /\ up[r] \in Seq(Left) /\ stale[r] = <<>>
  <2>1. SUFFICES ASSUME relay.seat[r] = "cur" PROVE queue \in Seq(Left) /\ up[r] \in Seq(Left) /\ stale[r] = <<>>
    OBVIOUS
  <2>2. up[r] \in Seq(Left)
    BY <1>1, <1>2, <2>1, SentAllLeft DEF Wired
  <2>3. queue \in Seq(Left)
    BY <1>7, <2>2
  <2> QED
    BY <1>1, <2>1, <2>2, <2>3 DEF Wired
<1>9. /\ stale' \in [Roles -> Seq(Left)] /\ stale'[q] = stale[q]
      /\ stale'[r] = IF relay.seat[r] = "cur" THEN queue ELSE stale[r]
  BY <1>1, <1>4, <1>8 DEF TypeOK
<1>10. Wired(r)'
  <2>1. \A i \in DOMAIN up'[r] : FALSE
    BY <1>5
  <2>2. relay'.seat[r] # "cur" /\ (stale'[r] # <<>> => relay'.seat[r] = "old")
    BY <1>1, <1>6, <1>8, <1>9 DEF Wired
  <2> QED
    BY <1>5, <2>1, <2>2 DEF Wired
<1>11. Wired(q)'
  BY <1>1, <1>5, <1>6, <1>9, WiredKept
<1>12. Carries(r)
  <2>1. ~(r = "Join" /\ Live')
    BY <1>5 DEF Live
  <2>2. Line(r)' = stale'[r]
    BY <1>5, <1>9, ConcatEmptySeq DEF Line
  <2>3. Shrinks(Line(r), Line(r)', r = "Join" /\ Passing', r = "Join" /\ Live')
    <3>1. CASE relay.seat[r] = "cur"
      <4>1. Line(r) = up[r] /\ Line(r)' = queue
        BY <1>1, <1>8, <1>9, <2>2, <3>1, LineAlone
      <4> QED
        BY <1>7, <4>1 DEF Shrinks
    <3>2. CASE relay.seat[r] # "cur"
      <4>1. \E n \in 0..Len(Line(r)) : Line(r)' = SubSeq(Line(r), 1, n)
        BY <1>1, <1>5, <1>9, <3>2, UpLost
      <4> QED
        BY <2>1, <4>1 DEF Shrinks
    <3> QED
      BY <3>1, <3>2
  <2>4. r = "Join" /\ Passing' => Passing
    BY <1>1, <1>5, <1>6 DEF Passing, Roles
  <2>5. Hears(down[q], down[q]', r = "Host" \/ Passing, r = "Join" /\ Passing')
    BY <1>5, <2>4 DEF Hears
  <2> QED
    BY <2>3, <2>5 DEF Carries
<1>13. Carries(q)
  <2>1. Line(q)' = Line(q)
    BY <1>5, <1>9 DEF Line
  <2>2. ~(q = "Join" /\ Passing')
    BY <1>1, <1>5 DEF Passing, Roles
  <2>3. Shrinks(Line(q), Line(q)', q = "Join" /\ Passing', q = "Join" /\ Live')
    BY <2>1 DEF Shrinks
  <2>4. down[r]' = SubSeq(down[r], 1, 0) /\ 0 \in 0..Len(down[r])
    BY <1>2, <1>5
  <2>5. Hears(down[r], down[r]', q = "Host" \/ Passing, q = "Join" /\ Passing')
    BY <2>2, <2>4 DEF Hears
  <2> QED
    BY <1>1, <2>3, <2>5 DEF Carries
<1>14. (\A p \in Roles : Wired(p)') /\ (\A p \in Roles : Carries(p))
  BY <1>10, <1>11, <1>12, <1>13 DEF Roles, Other
<1>15. relay'.seat[r] # "cur"
  BY <1>6
<1> QED
  BY <1>5, <1>6, <1>9, <1>14, <1>15

LEMMA PlayerNoticesStep ==
  ASSUME Wires, NEW r \in Roles, PlayerNotices(r)
  PROVE  Wires' /\ Network
<1> DEFINE q == Other(r)
<1>1. TypeOK /\ q \in Roles /\ q # r /\ Other(q) = r /\ Hosting /\ Joining
  BY RolesTwo DEF Wires
<1>2. /\ HangUp(r, up[r]) /\ UNCHANGED <<screen, host, join, faults, history>>
      /\ session' = [session EXCEPT ![r].phase =
                       IF @ \in {"Lobby", "Active"} THEN "Reconnecting" ELSE @]
  BY DEF PlayerNotices
<1>3. /\ session' \in [Roles -> [phase: Phases, partner: BOOLEAN]] /\ session'[q] = session[q]
      /\ session'[r].phase = IF session[r].phase \in {"Lobby", "Active"} THEN "Reconnecting" ELSE session[r].phase
  BY <1>1, <1>2 DEF TypeOK, Phases
<1>4. /\ relay' \in Rooms /\ sock' \in [Roles -> {"open", "dead", "none"}]
      /\ up' \in [Roles -> Seq(Sent)] /\ down' \in [Roles -> Seq(Told)]
      /\ stale' \in [Roles -> Seq(Left)]
      /\ sock'[r] = "none" /\ sock'[q] = sock[q]
      /\ down'[r] = <<>> /\ down'[q] = down[q]
      /\ relay'.phase = relay.phase /\ relay'.seat[r] # "cur" /\ relay'.seat[q] = relay.seat[q]
      /\ (\A p \in Roles : Wired(p)') /\ (\A p \in Roles : Carries(p))
  BY <1>2, <1>3, HungUp
<1>5. TypeOK'
  BY <1>1, <1>2, <1>3, <1>4 DEF TypeOK
<1>6. Hosting'
  <2>1. CASE r = "Host"
    <3>1. \A i \in DOMAIN down'["Host"] : FALSE
      BY <1>4, <2>1
    <3> QED
      BY <1>1, <1>2, <1>3, <1>4, <2>1, <3>1 DEF Hosting, Playing
  <2>2. CASE r # "Host"
    <3>1. q = "Host"
      BY <1>1, <2>2 DEF Roles
    <3> QED
      BY <1>2, <1>3, <1>4, <3>1, HostingKept
  <2> QED
    BY <2>1, <2>2
<1>7. \/ session'["Join"].phase = session["Join"].phase
      \/ session'["Join"].phase = "Reconnecting" /\ session["Join"].phase \in {"Lobby", "Active"}
  BY <1>1, <1>3 DEF Roles
<1>8. Joining'
  BY <1>1, <1>2, <1>7 DEF Joining, NoJoiner
<1>9. Live' => Live
  BY <1>1, <1>2, <1>4, <1>7 DEF Live, Roles
<1>10. Network
  BY <1>2, <1>4, <1>9 DEF Network, Playing
<1> QED
  BY <1>4, <1>5, <1>6, <1>8, <1>10 DEF Wires

LEMMA ReconnectStep ==
  ASSUME Wires, NEW r \in Roles, Reconnect(r)
  PROVE  Wires' /\ Network
<1> DEFINE q == Other(r)
           m == Msg("hello")
<1>1. TypeOK /\ q \in Roles /\ q # r /\ Other(q) = r /\ Hosting /\ Wired(r) /\ Wired(q)
  BY RolesTwo DEF Wires
<1>2. /\ session[r].phase = "Reconnecting" /\ sock[r] = "none"
      /\ sock' = [sock EXCEPT ![r] = "open"] /\ up' = [up EXCEPT ![r] = <<m>>]
      /\ UNCHANGED <<relay, down, stale, session, screen, host, join, faults, history>>
  BY DEF Reconnect
<1>3. up[r] = <<>> /\ down[r] = <<>> /\ relay.seat[r] # "cur"
  BY <1>1, <1>2 DEF Wired
<1>4. m \in Sent /\ m.t = "hello" /\ Control(m) /\ <<m>> \in Seq(Sent) /\ Len(<<m>>) = 1 /\ <<m>>[1] = m
  BY Words DEF Control
<1>5. /\ sock' \in [Roles -> {"open", "dead", "none"}] /\ sock'[r] = "open" /\ sock'[q] = sock[q]
      /\ up' \in [Roles -> Seq(Sent)] /\ up'[r] = <<m>> /\ up'[q] = up[q]
  BY <1>1, <1>2, <1>4 DEF TypeOK
<1>6. TypeOK'
  BY <1>1, <1>2, <1>5 DEF TypeOK
<1>7. Wired(r)'
  <2>1. Greets(r)' /\ Len(up'[r]) = 1
    BY <1>4, <1>5 DEF Greets
  <2> QED
    BY <1>1, <1>2, <1>3, <1>5, <2>1 DEF Wired
<1>8. Wired(q)'
  BY <1>1, <1>2, <1>5, WiredKept
<1>9. \A p \in Roles : Wired(p)'
  BY <1>7, <1>8 DEF Roles, Other
<1>10. Hosting'
  <2>1. relay'.seat["Host"] = "cur" /\ sock'["Host"] = "open" => relay.seat["Host"] = "cur" /\ sock["Host"] = "open"
    BY <1>1, <1>2, <1>3, <1>5 DEF Roles
  <2> QED
    BY <1>2, <2>1, HostingKept
<1>11. Joining'
  BY <1>2, JoiningKept
<1>12. Passing' => Passing
  BY <1>1, <1>2, <1>3, <1>5 DEF Passing, Roles
<1>13. Carries(r)
  <2>1. Line(r) = stale[r]
    BY <1>1, <1>3, LineAlone
  <2>2. stale[r] \in Seq(Left \cup Sent) /\ m \in Left \cup Sent
    BY <1>1, <1>4, Parts
  <2>3. Line(r)' = Append(stale[r], m)
    BY <1>2, <1>5, <2>2, AppendIsConcat DEF Line
  <2>4. Shrinks(Line(r), Line(r)', r = "Join" /\ Passing', r = "Join" /\ Live')
    BY <1>4, <2>1, <2>3 DEF Shrinks
  <2>5. Hears(down[q], down[q]', r = "Host" \/ Passing, r = "Join" /\ Passing')
    BY <1>2, <1>12 DEF Hears
  <2> QED
    BY <2>4, <2>5 DEF Carries
<1>14. Carries(q)
  <2>1. Line(q)' = Line(q)
    BY <1>2, <1>5 DEF Line
  <2> QED
    BY <1>1, <1>2, <1>12, <2>1, CarriesWord
<1>15. \A p \in Roles : Carries(p)
  BY <1>13, <1>14 DEF Roles, Other
<1>16. Live' => Live
  BY <1>1, <1>2, <1>5 DEF Live, Roles
<1>17. Network
  BY <1>2, <1>15, <1>16 DEF Network, Playing
<1> QED
  BY <1>6, <1>9, <1>10, <1>11, <1>17 DEF Wires

LEMMA NoneTyped == NoHost \in Hosts /\ NoJoiner \in Joiners
<1>1. <<>> \in Seq(Steps) /\ <<>> \in Seq(Deeds)
  BY EmptySeq
<1> QED
  BY <1>1 DEF NoHost, NoJoiner, Hosts, Joiners

LEMMA DepartsStep ==
  ASSUME Wires, NEW r \in Roles, NEW queue, Departs(r, queue),
         queue = up[r] \/ queue = Append(up[r], Msg("bye")), UNCHANGED <<faults, history>>
  PROVE  Wires' /\ Network
<1> DEFINE q == Other(r)
<1>1. TypeOK /\ q \in Roles /\ q # r /\ Other(q) = r /\ Hosting /\ Joining
  BY RolesTwo DEF Wires
<1>2. /\ HangUp(r, queue)
      /\ session' = [session EXCEPT ![r] = [phase |-> "Idle", partner |-> FALSE]]
      /\ screen' = [screen EXCEPT ![r] = "Out"]
      /\ host' = IF r = "Host" THEN NoHost ELSE host
      /\ join' = IF r = "Join" THEN NoJoiner ELSE join
  BY DEF Departs
<1>3. /\ session' \in [Roles -> [phase: Phases, partner: BOOLEAN]] /\ session'[q] = session[q]
      /\ session'[r].phase = "Idle"
      /\ screen' \in [Roles -> Screens] /\ screen'[r] = "Out" /\ screen'[q] = screen[q]
  BY <1>1, <1>2 DEF TypeOK, Phases, Screens
<1>4. /\ relay' \in Rooms /\ sock' \in [Roles -> {"open", "dead", "none"}]
      /\ up' \in [Roles -> Seq(Sent)] /\ down' \in [Roles -> Seq(Told)]
      /\ stale' \in [Roles -> Seq(Left)]
      /\ sock'[r] = "none" /\ sock'[q] = sock[q]
      /\ down'[r] = <<>> /\ down'[q] = down[q]
      /\ relay'.phase = relay.phase /\ relay'.seat[r] # "cur" /\ relay'.seat[q] = relay.seat[q]
      /\ (\A p \in Roles : Wired(p)') /\ (\A p \in Roles : Carries(p))
  BY <1>2, <1>3, HungUp
<1>5. TypeOK'
  <2>1. host' \in Hosts /\ join' \in Joiners
    BY <1>1, <1>2, NoneTyped DEF TypeOK
  <2> QED
    BY <1>1, <1>3, <1>4, <2>1 DEF TypeOK
<1>6. Hosting'
  <2>1. CASE r = "Host"
    <3>1. \A i \in DOMAIN down'["Host"] : FALSE
      BY <1>4, <2>1
    <3> QED
      BY <1>3, <2>1, <3>1 DEF Hosting, Playing
  <2>2. CASE r # "Host"
    <3>1. q = "Host" /\ r # "Host"
      BY <1>1, <2>2 DEF Roles
    <3> QED
      BY <1>2, <1>3, <1>4, <3>1, HostingKept
  <2> QED
    BY <2>1, <2>2
<1>7. Joining'
  <2>1. CASE r = "Join"
    BY <1>2, <1>3, <2>1 DEF Joining, NoJoiner
  <2>2. CASE r # "Join"
    <3>1. q = "Join"
      BY <1>1, <2>2 DEF Roles
    <3> QED
      BY <1>2, <1>3, <2>2, <3>1, JoiningKept
  <2> QED
    BY <2>1, <2>2
<1>8. Live' => Live
  BY <1>1, <1>2, <1>3, <1>4 DEF Live, Roles
<1>9. Playing' => Playing /\ host' = host
  BY <1>1, <1>2, <1>3 DEF Playing, Roles
<1>10. \/ join' = join /\ screen["Join"]' = screen["Join"]
       \/ join' = NoJoiner /\ screen["Join"]' = "Out"
  BY <1>1, <1>2, <1>3 DEF Roles
<1>11. Network
  BY <1>4, <1>8, <1>9, <1>10 DEF Network
<1> QED
  BY <1>4, <1>5, <1>6, <1>7, <1>11 DEF Wires

LEMMA GiveUpStep ==
  ASSUME Wires, NEW r \in Roles, GiveUp(r)
  PROVE  Wires' /\ Network
<1>1. Departs(r, up[r]) /\ UNCHANGED <<faults, history>>
  BY DEF GiveUp
<1> QED
  BY <1>1, DepartsStep

LEMMA LeaveStep ==
  ASSUME Wires, NEW r \in Roles, Leave(r)
  PROVE  Wires' /\ Network
<1> DEFINE queue == IF session[r].phase \in {"Lobby", "Active"} /\ sock[r] = "open"
                      THEN Append(up[r], Msg("bye")) ELSE up[r]
<1>1. Departs(r, queue) /\ UNCHANGED <<faults, history>>
  BY DEF Leave
<1>2. queue = up[r] \/ queue = Append(up[r], Msg("bye"))
  OBVIOUS
<1> HIDE DEF queue
<1> QED
  BY <1>1, <1>2, DepartsStep

-----------------------------------------------------------------------------
(* What a frame makes of its messages *)

LEMMA TookTyped ==
  ASSUME NEW in \in Ins, NEW m \in Told
  PROVE  Took(in, m) \in Ins
<1>1. m.t \in Traffic \/ m \in Welcomes \/ m \in Notices
  BY DEF Told, Carried, Chunks, Pulses, Acks, Intents, Ends, Traffic
<1>2. CASE m.t \in Traffic
  <2>1. m \in Carried
    BY <1>2 DEF Told, Notices, Welcomes, Traffic
  <2>2. Took(in, m) = in \/ Took(in, m) = [in EXCEPT !.inbox = Append(@, m)]
    BY <1>2 DEF Took, Traffic
  <2> QED
    BY <2>1, <2>2 DEF Ins
<1>3. CASE m \in Welcomes
  <2>1. Took(in, m) = [in EXCEPT !.phase = "Active", !.partner = TRUE,
                                 !.events = Append(@, "reconnected")]
    BY <1>3 DEF Took, Traffic, Welcomes, Resumed
  <2>2. Append(in.events, "reconnected") \in Seq(Events)
    BY DEF Ins, Events
  <2> QED
    BY <2>1, <2>2 DEF Ins, Phases
<1>4. CASE m \in Notices
  <2>1. \/ Took(in, m) = [in EXCEPT !.phase = "Failed"]
        \/ \E p \in Phases, w \in BOOLEAN, e \in Events :
             Took(in, m) = [in EXCEPT !.phase = p, !.partner = w, !.events = Append(@, e)]
    <3>1. m.t \in {"partner_disconnected", "partner_rejoined", "partner_left", "error", "start"}
      BY <1>4 DEF Notices
    <3>2. in.phase \in Phases /\ in.partner \in BOOLEAN
      BY DEF Ins
    <3>3. "Active" \in Phases /\ "Ended" \in Phases
      BY DEF Phases
    <3>4. CASE m.t = "error"
      BY <3>4 DEF Took, Traffic
    <3>5. CASE m.t = "start"
      <4>1. Took(in, m) = [in EXCEPT !.phase = "Active", !.partner = in.partner, !.events = Append(@, "started")]
        BY <3>5 DEF Took, Traffic
      <4>2. "started" \in Events
        BY DEF Events
      <4> QED
        BY <3>2, <3>3, <4>1, <4>2
    <3>6. CASE m.t = "partner_disconnected"
      <4>1. Took(in, m) = [in EXCEPT !.phase = in.phase, !.partner = FALSE, !.events = Append(@, "partner_disconnected")]
        BY <3>6 DEF Took, Traffic
      <4>2. "partner_disconnected" \in Events
        BY DEF Events
      <4> QED
        BY <3>2, <4>1, <4>2
    <3>7. CASE m.t = "partner_rejoined"
      <4>1. Took(in, m) = [in EXCEPT !.phase = in.phase, !.partner = TRUE, !.events = Append(@, "partner_rejoined")]
        BY <3>7 DEF Took, Traffic
      <4>2. "partner_rejoined" \in Events
        BY DEF Events
      <4> QED
        BY <3>2, <4>1, <4>2
    <3>8. CASE m.t = "partner_left"
      <4>1. PICK p \in Phases :
              Took(in, m) = [in EXCEPT !.phase = p, !.partner = FALSE, !.events = Append(@, "partner_left")]
        BY <3>2, <3>3, <3>8 DEF Took, Traffic
      <4>2. "partner_left" \in Events
        BY DEF Events
      <4> QED
        BY <4>1, <4>2
    <3> QED
      BY <3>1, <3>4, <3>5, <3>6, <3>7, <3>8
  <2>2. \A e \in Events : Append(in.events, e) \in Seq(Events)
    BY DEF Ins
  <2> QED
    BY <2>1, <2>2 DEF Ins, Phases
<1> QED
  BY <1>1, <1>2, <1>3, <1>4

\* The messages of a frame, one after the other.
LEMMA TookFold ==
  ASSUME NEW b \in Ins, NEW s \in Seq(Told)
  PROVE  \E f \in [0..Len(s) -> Ins] :
           /\ f[0] = b /\ \A i \in 1..Len(s) : f[i] = Took(f[i - 1], s[i])
           /\ Folded(Took, b, s) = f[Len(s)]
<1> DEFINE G == [p \in Ins \X Told |-> Took(p[1], p[2])]
           P(g) == g = [i \in 0..Len(s) |-> IF i = 0 THEN b ELSE Took(g[i - 1], s[i])]
           h == CHOOSE g : P(g)
<1>1. \A x \in Ins, y \in Told : Took(x, y) \in Ins
  BY TookTyped
<1>2. G \in [Ins \X Told -> Ins] /\ \A x \in Ins, y \in Told : G[<<x, y>>] = Took(x, y)
  BY <1>1
<1> HIDE DEF G
<1>3. PICK f : f \in [0..Len(s) -> Ins] /\ f[0] = b /\ \A i \in 1..Len(s) : f[i] = G[<<f[i - 1], s[i]>>]
  <2> HIDE DEF P, h
  <2>1. G \in [Ins \X Told -> Ins]
    BY <1>2
  <2>2. \E f : FoldsTo(f, G, b, s, Ins)
    BY <2>1, FoldExists
  <2> QED
    BY <2>2 DEF FoldsTo
<1>4. ASSUME NEW i \in 1..Len(s) PROVE f[i] = Took(f[i - 1], s[i])
  <2>1. i - 1 \in 0..Len(s) /\ s[i] \in Told
    OBVIOUS
  <2>2. f[i - 1] \in Ins
    BY <1>3, <2>1
  <2> QED
    BY <1>2, <1>3, <2>1, <2>2
<1>5. P(f)
  <2>1. \A i \in 0..Len(s) : f[i] = IF i = 0 THEN b ELSE Took(f[i - 1], s[i])
    BY <1>3, <1>4
  <2> QED
    BY <1>3, <2>1
<1>6. P(h)
  <2> HIDE DEF P
  <2> QED
    BY <1>5
<1>7. Folded(Took, b, s) = h[Len(s)]
  BY DEF Folded, HostTold, JoinTold, JoinHeard
<1> HIDE DEF h
<1>8. \A i \in 0..Len(s) : h[i] = f[i]
  <2>1. h[0] = f[0]
    BY <1>3, <1>6
  <2>2. ASSUME NEW i \in 1..Len(s), h[i - 1] = f[i - 1] PROVE h[i] = f[i]
    BY <1>4, <1>6, <2>2
  <2>3. Len(s) \in Nat
    OBVIOUS
  <2>4. Alike(h, f, Len(s))
    BY <2>2 DEF Alike
  <2> QED
    BY <2>1, <2>3, <2>4, FoldOnce
<1> QED
  BY <1>3, <1>4, <1>7, <1>8

LEMMA Cards ==
  ASSUME NEW n \in Nat, NEW K, K \subseteq 1..n
  PROVE  Cardinality(K) \in 0..n /\ IsFiniteSet(K)
<1>1. IsFiniteSet(1..n) /\ Cardinality(1..n) = n
  BY FS_Interval
<1>2. IsFiniteSet(K) /\ Cardinality(K) \in Nat /\ Cardinality(K) <= n
  BY <1>1, FS_Subset, FS_CardinalityType
<1> QED
  BY <1>2

LEMMA UnseenOf ==
  ASSUME NEW S, NEW s \in Seq(S), NEW K, K \subseteq DOMAIN s
  PROVE  /\ Unseen(s, K) \in Seq(S) /\ Len(Unseen(s, K)) <= Len(s)
         /\ K = {} => Unseen(s, K) = s
         /\ DOMAIN s # {} /\ K = DOMAIN s => Unseen(s, K) = <<>>
<1>1. K \subseteq 1..Len(s) /\ Len(s) \in Nat /\ DOMAIN s = 1..Len(s)
  OBVIOUS
<1>2. Cardinality(K) \in 0..Len(s)
  BY <1>1, Cards
<1>3. Unseen(s, K) = SubSeq(s, Cardinality(K) + 1, Len(s))
  BY DEF Unseen
<1>4. Unseen(s, K) \in Seq(S) /\ Len(Unseen(s, K)) <= Len(s)
  BY <1>1, <1>2, <1>3
<1>5. ASSUME K = {} PROVE Unseen(s, K) = s
  <2>1. Cardinality(K) = 0
    BY <1>5, FS_EmptySet
  <2>2. SubSeq(s, 1, Len(s)) = s
    OBVIOUS
  <2> QED
    BY <1>3, <2>1, <2>2
<1>6. ASSUME K = DOMAIN s PROVE Unseen(s, K) = <<>>
  <2>1. Cardinality(K) = Len(s)
    BY <1>1, <1>6, FS_Interval
  <2>2. SubSeq(s, Len(s) + 1, Len(s)) = <<>>
    OBVIOUS
  <2> QED
    BY <1>3, <2>1, <2>2
<1> QED
  BY <1>4, <1>5, <1>6

LEMMA HostEventTyped ==
  ASSUME NEW phase, NEW h \in Hosts, NEW e \in Events
  PROVE  HostEvent(phase, h, e) \in Hosts
BY DEF HostEvent, Unsynced, Hosts, Events

LEMMA ReceiveIntentTyped ==
  ASSUME NEW h \in Hosts, NEW m \in Intents
  PROVE  ReceiveIntent(h, m) \in Hosts
<1> DEFINE new == Unseen(m.cmds, {i \in DOMAIN m.cmds : m.cmds[i].seq <= h.seen})
           all == h.cmds \o new
           over == IF Len(all) > QueueMax THEN Len(all) - QueueMax ELSE 0
           acts == Unseen(m.acts, {i \in DOMAIN m.acts : m.acts[i].id <= h.seenAct})
           cmds2 == SubSeq(all, over + 1, Len(all))
           seen2 == IF new = <<>> THEN h.seen ELSE new[Len(new)].seq
           resolved2 == IF over = 0 THEN h.resolved ELSE all[over].seq
           acts2 == h.acts \o acts
           seenAct2 == IF acts = <<>> THEN h.seenAct ELSE acts[Len(acts)].id
<1>1. m.cmds \in Seq(Steps) /\ m.acts \in Seq(Deeds) /\ QueueMax \in Nat
  BY NetSyncAssumption DEF Intents
<1>2. new \in Seq(Steps) /\ acts \in Seq(Deeds)
  BY <1>1, UnseenOf
<1> HIDE DEF new, acts
<1>3. all \in Seq(Steps) /\ h.cmds \in Seq(Steps) /\ h.acts \in Seq(Deeds)
  BY <1>2 DEF Hosts
<1>4. over \in 0..Len(all)
  BY <1>1, <1>3
<1> HIDE DEF all
<1>5. cmds2 \in Seq(Steps) /\ acts2 \in Seq(Deeds)
  BY <1>2, <1>3, <1>4
<1>6. resolved2 \in Nat
  <2>1. over # 0 => all[over] \in Steps
    BY <1>3, <1>4
  <2> QED
    BY <2>1 DEF Hosts, Steps
<1>7. seen2 \in Nat
  <2>1. new # <<>> => new[Len(new)] \in Steps
    BY <1>2
  <2> QED
    BY <2>1 DEF Hosts, Steps
<1>8. seenAct2 \in Nat
  <2>1. acts # <<>> => acts[Len(acts)] \in Deeds
    BY <1>2
  <2> QED
    BY <2>1 DEF Hosts, Deeds
<1>9. ReceiveIntent(h, m) = IF ~Accepted(h, m) THEN h
        ELSE [h EXCEPT !.cmds = cmds2, !.seen = seen2, !.resolved = resolved2,
                       !.acts = acts2, !.seenAct = seenAct2]
  BY DEF ReceiveIntent, new, all, acts
<1> HIDE DEF cmds2, seen2, resolved2, acts2, seenAct2, over
<1> QED
  BY <1>5, <1>6, <1>7, <1>8, <1>9 DEF Hosts

LEMMA HostReceiveTyped ==
  ASSUME NEW h \in Hosts, NEW m \in Carried
  PROVE  HostReceive(h, m) \in Hosts
<1>1. CASE m.t = "intent"
  <2>1. m \in Intents
    BY <1>1, Kinds DEF Sent
  <2>2. HostReceive(h, m) = ReceiveIntent(h, m)
    BY <1>1 DEF HostReceive
  <2> QED
    BY <2>1, <2>2, ReceiveIntentTyped
<1>2. CASE m.t = "checkpoint_ack"
  <2>1. HostReceive(h, m) = h \/ HostReceive(h, m) = Cleared([h EXCEPT !.synced = TRUE])
    BY <1>2 DEF HostReceive
  <2>2. <<>> \in Seq(Steps) /\ <<>> \in Seq(Deeds)
    BY EmptySeq
  <2> QED
    BY <2>1, <2>2 DEF Cleared, Hosts
<1>3. CASE m.t \notin {"intent", "checkpoint_ack"}
  BY <1>3 DEF HostReceive
<1> QED
  BY <1>1, <1>2, <1>3

LEMMA JoinEventTyped ==
  ASSUME NEW phase, NEW a \in Seats, NEW e \in Events
  PROVE  JoinEvent(phase, a, e) \in Seats
<1> DEFINE s2 == IF a.screen = "Play" THEN "Wait" ELSE a.screen
<1>1. \/ JoinEvent(phase, a, e) = a
      \/ JoinEvent(phase, a, e) = [a EXCEPT !.j.have = FALSE, !.j.seq = 0, !.screen = "Wait"]
      \/ JoinEvent(phase, a, e) = [a EXCEPT !.j.have = FALSE, !.screen = s2]
  BY DEF JoinEvent
<1>2. s2 \in Screens /\ "Wait" \in Screens
  BY DEF Seats, Screens
<1> HIDE DEF s2
<1>3. [a EXCEPT !.j.have = FALSE, !.j.seq = 0, !.screen = "Wait"] \in Seats
  BY <1>2 DEF Seats, Joiners
<1>4. [a EXCEPT !.j.have = FALSE, !.screen = s2] \in Seats
  BY <1>2 DEF Seats, Joiners
<1> QED
  BY <1>1, <1>3, <1>4

LEMMA ChunkTyped ==
  ASSUME NEW a \in Seats, NEW active \in BOOLEAN, NEW m \in Chunks
  PROVE  ReceiveChunk(a, active, m) \in Seats
<1> DEFINE ack == [t |-> "checkpoint_ack", id |-> m.id]
           j2 == [a.j EXCEPT !.have = TRUE, !.base = m.id, !.epoch = m.epoch,
                             !.shown = m.world, !.seq = 0, !.part = 0]
           b == [a EXCEPT !.j = j2, !.screen = IF @ = "Wait" THEN "Play" ELSE @]
<1>1. ack \in Sent
  BY DEF Sent, Carried, Acks, Chunks
<1>2. j2 \in Joiners
  BY DEF Seats, Joiners, Chunks
<1>3. b \in Seats
  <2> HIDE DEF j2
  <2> QED
    BY <1>2 DEF Seats, Screens
<1>4. Append(b.out, ack) \in Seq(Sent)
  <2> HIDE DEF b, ack
  <2> QED
    BY <1>1, <1>3 DEF Seats
<1>5. Answer(b, active, ack) \in Seats
  <2> HIDE DEF b, ack
  <2> QED
    BY <1>3, <1>4 DEF Answer, Seats
<1>6. [a EXCEPT !.j.part = m.id] \in Seats
  BY DEF Seats, Joiners, Chunks
<1>7. ReceiveChunk(a, active, m) \in {a, [a EXCEPT !.j.part = m.id], Answer(b, active, ack)}
  BY DEF ReceiveChunk, Chunks
<1> QED
  BY <1>5, <1>6, <1>7

LEMMA JoinReceiveTyped ==
  ASSUME NEW a \in Seats, NEW active \in BOOLEAN, NEW m \in Carried
  PROVE  JoinReceive(active, a, m) \in Seats
<1>1. CASE m.t = "chunk"
  <2>1. m \in Chunks
    BY <1>1, Kinds DEF Sent
  <2> QED
    BY <1>1, <2>1, ChunkTyped DEF JoinReceive
<1>2. CASE m.t = "snapshot"
  <2>1. m \in Pulses
    BY <1>2, Kinds DEF Sent
  <2>2. JoinReceive(active, a, m) \in {a, [a EXCEPT !.j.shown = m.world]}
    BY <1>2 DEF JoinReceive, ReceiveSnapshot
  <2> QED
    BY <2>1, <2>2 DEF Seats, Joiners, Pulses
<1>3. CASE m.t = "run_ended"
  <2> DEFINE b == [a EXCEPT !.j.ended = TRUE, !.screen = IF a.j.ended THEN @ ELSE "Over"]
  <2>1. b \in Seats /\ Msg("result_ack") \in Sent
    BY Words DEF Seats, Joiners, Screens
  <2>2. JoinReceive(active, a, m) = [b EXCEPT !.out = Append(@, Msg("result_ack"))]
    BY <1>3 DEF JoinReceive, Answer
  <2> HIDE DEF b
  <2>3. Append(b.out, Msg("result_ack")) \in Seq(Sent)
    BY <2>1 DEF Seats
  <2> QED
    BY <2>1, <2>2, <2>3 DEF Seats
<1>4. CASE m.t \notin {"chunk", "snapshot", "run_ended"}
  BY <1>4 DEF JoinReceive
<1> QED
  BY <1>1, <1>2, <1>3, <1>4

\* The events of a frame of the host.
LEMMA HostEventFold ==
  ASSUME NEW phase, NEW b \in Hosts, NEW s \in Seq(Events)
  PROVE  \E f \in [0..Len(s) -> Hosts] :
           /\ f[0] = b /\ \A i \in 1..Len(s) : f[i] = HostEvent(phase, f[i - 1], s[i])
           /\ HostTold(phase, b, s) = f[Len(s)]
<1> DEFINE G == [p \in Hosts \X Events |-> HostEvent(phase, p[1], p[2])]
           P(g) == g = [i \in 0..Len(s) |-> IF i = 0 THEN b ELSE HostEvent(phase, g[i - 1], s[i])]
           h == CHOOSE g : P(g)
<1>1. \A x \in Hosts, y \in Events : HostEvent(phase, x, y) \in Hosts
  BY HostEventTyped
<1>2. G \in [Hosts \X Events -> Hosts] /\ \A x \in Hosts, y \in Events : G[<<x, y>>] = HostEvent(phase, x, y)
  BY <1>1
<1> HIDE DEF G
<1>3. PICK f : f \in [0..Len(s) -> Hosts] /\ f[0] = b /\ \A i \in 1..Len(s) : f[i] = G[<<f[i - 1], s[i]>>]
  <2> HIDE DEF P, h
  <2>1. G \in [Hosts \X Events -> Hosts]
    BY <1>2
  <2>2. \E f : FoldsTo(f, G, b, s, Hosts)
    BY <2>1, FoldExists
  <2> QED
    BY <2>2 DEF FoldsTo
<1>4. ASSUME NEW i \in 1..Len(s) PROVE f[i] = HostEvent(phase, f[i - 1], s[i])
  <2>1. i - 1 \in 0..Len(s) /\ s[i] \in Events
    OBVIOUS
  <2>2. f[i - 1] \in Hosts
    BY <1>3, <2>1
  <2> QED
    BY <1>2, <1>3, <2>1, <2>2
<1>5. P(f)
  <2>1. \A i \in 0..Len(s) : f[i] = IF i = 0 THEN b ELSE HostEvent(phase, f[i - 1], s[i])
    BY <1>3, <1>4
  <2> QED
    BY <1>3, <2>1
<1>6. P(h)
  <2> HIDE DEF P
  <2> QED
    BY <1>5
<1>7. HostTold(phase, b, s) = h[Len(s)]
  BY DEF Folded, HostTold, JoinTold, JoinHeard
<1> HIDE DEF h
<1>8. \A i \in 0..Len(s) : h[i] = f[i]
  <2>1. h[0] = f[0]
    BY <1>3, <1>6
  <2>2. ASSUME NEW i \in 1..Len(s), h[i - 1] = f[i - 1] PROVE h[i] = f[i]
    BY <1>4, <1>6, <2>2
  <2>3. Len(s) \in Nat
    OBVIOUS
  <2>4. Alike(h, f, Len(s))
    BY <2>2 DEF Alike
  <2> QED
    BY <2>1, <2>3, <2>4, FoldOnce
<1> QED
  BY <1>3, <1>4, <1>7, <1>8

\* The traffic of a frame of the host.
LEMMA HostReceiveFold ==
  ASSUME NEW b \in Hosts, NEW s \in Seq(Carried)
  PROVE  \E f \in [0..Len(s) -> Hosts] :
           /\ f[0] = b /\ \A i \in 1..Len(s) : f[i] = HostReceive(f[i - 1], s[i])
           /\ Folded(HostReceive, b, s) = f[Len(s)]
<1> DEFINE G == [p \in Hosts \X Carried |-> HostReceive(p[1], p[2])]
           P(g) == g = [i \in 0..Len(s) |-> IF i = 0 THEN b ELSE HostReceive(g[i - 1], s[i])]
           h == CHOOSE g : P(g)
<1>1. \A x \in Hosts, y \in Carried : HostReceive(x, y) \in Hosts
  BY HostReceiveTyped
<1>2. G \in [Hosts \X Carried -> Hosts] /\ \A x \in Hosts, y \in Carried : G[<<x, y>>] = HostReceive(x, y)
  BY <1>1
<1> HIDE DEF G
<1>3. PICK f : f \in [0..Len(s) -> Hosts] /\ f[0] = b /\ \A i \in 1..Len(s) : f[i] = G[<<f[i - 1], s[i]>>]
  <2> HIDE DEF P, h
  <2>1. G \in [Hosts \X Carried -> Hosts]
    BY <1>2
  <2>2. \E f : FoldsTo(f, G, b, s, Hosts)
    BY <2>1, FoldExists
  <2> QED
    BY <2>2 DEF FoldsTo
<1>4. ASSUME NEW i \in 1..Len(s) PROVE f[i] = HostReceive(f[i - 1], s[i])
  <2>1. i - 1 \in 0..Len(s) /\ s[i] \in Carried
    OBVIOUS
  <2>2. f[i - 1] \in Hosts
    BY <1>3, <2>1
  <2> QED
    BY <1>2, <1>3, <2>1, <2>2
<1>5. P(f)
  <2>1. \A i \in 0..Len(s) : f[i] = IF i = 0 THEN b ELSE HostReceive(f[i - 1], s[i])
    BY <1>3, <1>4
  <2> QED
    BY <1>3, <2>1
<1>6. P(h)
  <2> HIDE DEF P
  <2> QED
    BY <1>5
<1>7. Folded(HostReceive, b, s) = h[Len(s)]
  BY DEF Folded, HostTold, JoinTold, JoinHeard
<1> HIDE DEF h
<1>8. \A i \in 0..Len(s) : h[i] = f[i]
  <2>1. h[0] = f[0]
    BY <1>3, <1>6
  <2>2. ASSUME NEW i \in 1..Len(s), h[i - 1] = f[i - 1] PROVE h[i] = f[i]
    BY <1>4, <1>6, <2>2
  <2>3. Len(s) \in Nat
    OBVIOUS
  <2>4. Alike(h, f, Len(s))
    BY <2>2 DEF Alike
  <2> QED
    BY <2>1, <2>3, <2>4, FoldOnce
<1> QED
  BY <1>3, <1>4, <1>7, <1>8

\* The events of a frame of the joiner.
LEMMA JoinEventFold ==
  ASSUME NEW phase, NEW b \in Seats, NEW s \in Seq(Events)
  PROVE  \E f \in [0..Len(s) -> Seats] :
           /\ f[0] = b /\ \A i \in 1..Len(s) : f[i] = JoinEvent(phase, f[i - 1], s[i])
           /\ JoinTold(phase, b, s) = f[Len(s)]
<1> DEFINE G == [p \in Seats \X Events |-> JoinEvent(phase, p[1], p[2])]
           P(g) == g = [i \in 0..Len(s) |-> IF i = 0 THEN b ELSE JoinEvent(phase, g[i - 1], s[i])]
           h == CHOOSE g : P(g)
<1>1. \A x \in Seats, y \in Events : JoinEvent(phase, x, y) \in Seats
  BY JoinEventTyped
<1>2. G \in [Seats \X Events -> Seats] /\ \A x \in Seats, y \in Events : G[<<x, y>>] = JoinEvent(phase, x, y)
  BY <1>1
<1> HIDE DEF G
<1>3. PICK f : f \in [0..Len(s) -> Seats] /\ f[0] = b /\ \A i \in 1..Len(s) : f[i] = G[<<f[i - 1], s[i]>>]
  <2> HIDE DEF P, h
  <2>1. G \in [Seats \X Events -> Seats]
    BY <1>2
  <2>2. \E f : FoldsTo(f, G, b, s, Seats)
    BY <2>1, FoldExists
  <2> QED
    BY <2>2 DEF FoldsTo
<1>4. ASSUME NEW i \in 1..Len(s) PROVE f[i] = JoinEvent(phase, f[i - 1], s[i])
  <2>1. i - 1 \in 0..Len(s) /\ s[i] \in Events
    OBVIOUS
  <2>2. f[i - 1] \in Seats
    BY <1>3, <2>1
  <2> QED
    BY <1>2, <1>3, <2>1, <2>2
<1>5. P(f)
  <2>1. \A i \in 0..Len(s) : f[i] = IF i = 0 THEN b ELSE JoinEvent(phase, f[i - 1], s[i])
    BY <1>3, <1>4
  <2> QED
    BY <1>3, <2>1
<1>6. P(h)
  <2> HIDE DEF P
  <2> QED
    BY <1>5
<1>7. JoinTold(phase, b, s) = h[Len(s)]
  BY DEF Folded, HostTold, JoinTold, JoinHeard
<1> HIDE DEF h
<1>8. \A i \in 0..Len(s) : h[i] = f[i]
  <2>1. h[0] = f[0]
    BY <1>3, <1>6
  <2>2. ASSUME NEW i \in 1..Len(s), h[i - 1] = f[i - 1] PROVE h[i] = f[i]
    BY <1>4, <1>6, <2>2
  <2>3. Len(s) \in Nat
    OBVIOUS
  <2>4. Alike(h, f, Len(s))
    BY <2>2 DEF Alike
  <2> QED
    BY <2>1, <2>3, <2>4, FoldOnce
<1> QED
  BY <1>3, <1>4, <1>7, <1>8

\* The traffic of a frame of the joiner.
JoinTook(phase, a, m) == JoinReceive(phase = "Active", a, m)

LEMMA JoinReceiveFold ==
  ASSUME NEW phase, NEW b \in Seats, NEW s \in Seq(Carried)
  PROVE  \E f \in [0..Len(s) -> Seats] :
           /\ f[0] = b /\ \A i \in 1..Len(s) : f[i] = JoinTook(phase, f[i - 1], s[i])
           /\ JoinHeard(phase, b, s) = f[Len(s)]
<1> DEFINE G == [p \in Seats \X Carried |-> JoinTook(phase, p[1], p[2])]
           P(g) == g = [i \in 0..Len(s) |-> IF i = 0 THEN b ELSE JoinTook(phase, g[i - 1], s[i])]
           h == CHOOSE g : P(g)
<1>1. \A x \in Seats, y \in Carried : JoinTook(phase, x, y) \in Seats
  BY JoinReceiveTyped DEF JoinTook
<1>2. G \in [Seats \X Carried -> Seats] /\ \A x \in Seats, y \in Carried : G[<<x, y>>] = JoinTook(phase, x, y)
  BY <1>1
<1> HIDE DEF G
<1>3. PICK f : f \in [0..Len(s) -> Seats] /\ f[0] = b /\ \A i \in 1..Len(s) : f[i] = G[<<f[i - 1], s[i]>>]
  <2> HIDE DEF P, h
  <2>1. G \in [Seats \X Carried -> Seats]
    BY <1>2
  <2>2. \E f : FoldsTo(f, G, b, s, Seats)
    BY <2>1, FoldExists
  <2> QED
    BY <2>2 DEF FoldsTo
<1>4. ASSUME NEW i \in 1..Len(s) PROVE f[i] = JoinTook(phase, f[i - 1], s[i])
  <2>1. i - 1 \in 0..Len(s) /\ s[i] \in Carried
    OBVIOUS
  <2>2. f[i - 1] \in Seats
    BY <1>3, <2>1
  <2> QED
    BY <1>2, <1>3, <2>1, <2>2
<1>5. P(f)
  <2>1. \A i \in 0..Len(s) : f[i] = IF i = 0 THEN b ELSE JoinTook(phase, f[i - 1], s[i])
    BY <1>3, <1>4
  <2> QED
    BY <1>3, <2>1
<1>6. P(h)
  <2> HIDE DEF P
  <2> QED
    BY <1>5
<1>7. JoinHeard(phase, b, s) = h[Len(s)]
  BY DEF Folded, JoinHeard, JoinTook
<1> HIDE DEF h
<1>8. \A i \in 0..Len(s) : h[i] = f[i]
  <2>1. h[0] = f[0]
    BY <1>3, <1>6
  <2>2. ASSUME NEW i \in 1..Len(s), h[i - 1] = f[i - 1] PROVE h[i] = f[i]
    BY <1>4, <1>6, <2>2
  <2>3. Len(s) \in Nat
    OBVIOUS
  <2>4. Alike(h, f, Len(s))
    BY <2>2 DEF Alike
  <2> QED
    BY <2>1, <2>3, <2>4, FoldOnce
<1> QED
  BY <1>3, <1>4, <1>7, <1>8

-----------------------------------------------------------------------------
(* A frame, message by message *)

Begins(r) == [phase |-> session[r].phase, partner |-> session[r].partner,
              events |-> <<>>, inbox |-> <<>>]

Trail(r, n, I) ==
  /\ I \in [0..n -> Ins] /\ I[0] = Begins(r)
  /\ \A k \in 1..n : I[k] = Took(I[k - 1], down[r][k])
  /\ \A k \in 0..n : Goes(r, k) = I[k]

LEMMA BeginsTyped ==
  ASSUME TypeOK, NEW r \in Roles
  PROVE  Begins(r) \in Ins
<1>1. session[r].phase \in Phases /\ session[r].partner \in BOOLEAN
  BY Parts
<1>2. <<>> \in Seq(Events) /\ <<>> \in Seq(Carried)
  BY EmptySeq
<1> QED
  BY <1>1, <1>2 DEF Begins, Ins

\* What a session takes, after each message.
LEMMA TrailExists ==
  ASSUME TypeOK, NEW r \in Roles, NEW n \in 0..Len(down[r])
  PROVE  \E I : Trail(r, n, I)
<1> DEFINE s(k) == SubSeq(down[r], 1, k)
<1>1. down[r] \in Seq(Told) /\ Begins(r) \in Ins /\ n \in Nat
  BY Parts, BeginsTyped
<1>2. ASSUME NEW k \in 0..n
      PROVE  s(k) \in Seq(Told) /\ Len(s(k)) = k /\ \A i \in 1..k : s(k)[i] = down[r][i]
  BY <1>1, Shorter
<1>3. ASSUME NEW k \in 0..n
      PROVE  Goes(r, k) = Folded(Took, Begins(r), s(k))
  BY DEF Goes, Begins
<1> HIDE DEF s
<1>4. ASSUME NEW k \in 0..n
      PROVE  \E f \in [0..k -> Ins] : /\ f[0] = Begins(r)
                                      /\ \A i \in 1..k : f[i] = Took(f[i - 1], down[r][i])
                                      /\ Goes(r, k) = f[k]
  <2>1. PICK f \in [0..Len(s(k)) -> Ins] :
           /\ f[0] = Begins(r) /\ \A i \in 1..Len(s(k)) : f[i] = Took(f[i - 1], s(k)[i])
           /\ Folded(Took, Begins(r), s(k)) = f[Len(s(k))]
    BY <1>1, <1>2, TookFold
  <2> QED
    BY <1>2, <1>3, <2>1
<1>5. n \in 0..n
  BY <1>1
<1>6. PICK I : /\ I \in [0..n -> Ins] /\ I[0] = Begins(r)
               /\ \A i \in 1..n : I[i] = Took(I[i - 1], down[r][i])
               /\ Goes(r, n) = I[n]
  BY <1>4, <1>5
<1>7. ASSUME NEW k \in 0..n PROVE Goes(r, k) = I[k]
  <2>1. PICK f : /\ f[0] = Begins(r)
                 /\ \A i \in 1..k : f[i] = Took(f[i - 1], down[r][i])
                 /\ Goes(r, k) = f[k]
    BY <1>4
  <2>2. k \in Nat /\ f[0] = I[0]
    BY <1>6, <2>1
  <2>3. ASSUME NEW i \in 1..k, f[i - 1] = I[i - 1] PROVE f[i] = I[i]
    BY <1>6, <2>1, <2>3
  <2>4. Alike(f, I, k)
    BY <2>3 DEF Alike
  <2>5. \A i \in 0..k : f[i] = I[i]
    <3> HIDE DEF s
    <3> QED
      BY ONLY <2>2, <2>4, FoldOnce
  <2> QED
    BY <2>1, <2>2, <2>5
<1> QED
  BY <1>6, <1>7 DEF Trail

LEMMA TookStep ==
  ASSUME NEW in \in Ins, NEW m \in Told
  PROVE  /\ m.t \in Traffic => Took(in, m).phase = in.phase /\ Took(in, m).events = in.events
         /\ m.t \in Traffic /\ in.phase \in {"Active", "Ended"} =>
              Took(in, m).inbox = Append(in.inbox, m)
         /\ m.t \in Traffic /\ in.phase \notin {"Active", "Ended"} => Took(in, m) = in
         /\ m.t \notin Traffic => Took(in, m).inbox = in.inbox
         /\ m.t = "welcome" => /\ Took(in, m).phase = "Active"
                               /\ Took(in, m).events = Append(in.events, "reconnected")
         /\ m.t = "start" => /\ Took(in, m).phase = "Active"
                             /\ Took(in, m).events = Append(in.events, "started")
         /\ m.t = "error" => Took(in, m).phase = "Failed" /\ Took(in, m).events = in.events
         /\ m.t \in {"partner_disconnected", "partner_rejoined", "partner_left"} =>
              Took(in, m).events = Append(in.events, m.t)
         /\ m.t \in {"partner_disconnected", "partner_rejoined"} => Took(in, m).phase = in.phase
         /\ m.t = "partner_left" =>
              Took(in, m).phase = IF in.phase = "Active" THEN "Ended" ELSE in.phase
<1>1. CASE m.t \in Traffic
  <2>1. m.t \notin {"welcome", "start", "error", "partner_disconnected", "partner_rejoined", "partner_left"}
    BY <1>1 DEF Traffic
  <2>2. Took(in, m) = IF in.phase \in {"Active", "Ended"} THEN [in EXCEPT !.inbox = Append(@, m)] ELSE in
    BY <1>1 DEF Took, Traffic
  <2> QED
    BY <1>1, <2>1, <2>2 DEF Ins
<1>2. CASE m.t = "welcome"
  <2>1. m \in Welcomes
    BY <1>2, Kinds
  <2>2. Took(in, m) = [in EXCEPT !.phase = "Active", !.partner = TRUE,
                                 !.events = Append(@, "reconnected")]
    BY <1>2, <2>1 DEF Took, Traffic, Welcomes, Resumed
  <2> QED
    BY <1>2, <2>2 DEF Ins, Traffic
<1>3. CASE m.t = "start"
  BY <1>3 DEF Took, Traffic, Ins
<1>4. CASE m.t = "error"
  BY <1>4 DEF Took, Traffic, Ins
<1>5. CASE m.t = "partner_left"
  BY <1>5 DEF Took, Traffic, Ins
<1>6. CASE m.t = "partner_disconnected"
  BY <1>6 DEF Took, Traffic, Ins
<1>7. CASE m.t = "partner_rejoined"
  BY <1>7 DEF Took, Traffic, Ins
<1>8. CASE m.t \notin Traffic \cup {"welcome", "start", "error", "partner_disconnected",
                                     "partner_rejoined", "partner_left"}
  BY <1>8 DEF Told, Carried, Chunks, Pulses, Acks, Intents, Ends, Welcomes, Notices, Traffic
<1> QED
  BY <1>1, <1>2, <1>3, <1>4, <1>5, <1>6, <1>7, <1>8

Begun(s, t) == Len(s) <= Len(t) /\ \A i \in 1..Len(s) : t[i] = s[i]

LEMMA AppendBegun ==
  ASSUME NEW M, NEW a \in Seq(M), NEW b, b = a \/ \E e : b = Append(a, e)
  PROVE  Begun(a, b)
<1>1. CASE b = a
  BY <1>1 DEF Begun
<1>2. CASE \E e : b = Append(a, e)
  <2>1. PICK e : b = Append(a, e)
    BY <1>2
  <2> QED
    BY <2>1 DEF Begun
<1> QED
  BY <1>1, <1>2

\* What has been taken stays taken.
LEMMA TrailGrows ==
  ASSUME TypeOK, NEW r \in Roles, NEW n \in 0..Len(down[r]), NEW I, Trail(r, n, I)
  PROVE  \A k \in 0..n : Begun(I[k].inbox, I[n].inbox) /\ Begun(I[k].events, I[n].events)
<1> DEFINE S == {j \in 0..n : Begun(I[n - j].inbox, I[n].inbox) /\ Begun(I[n - j].events, I[n].events)}
<1>1. n \in Nat /\ down[r] \in Seq(Told)
  BY Parts
<1>2. I \in [0..n -> Ins]
  BY DEF Trail
<1>3. 0 \in S
  <2>1. I[n] \in Ins /\ n - 0 = n
    BY <1>1, <1>2
  <2> QED
    BY <1>1, <2>1 DEF Begun, Ins
<1>4. ASSUME NEW j \in 0..(n - 1), j \in S PROVE j + 1 \in S
  <2> DEFINE k == n - j
  <2>1. k \in 1..n /\ k - 1 = n - (j + 1) /\ k - 1 \in 0..n /\ k \in 0..n /\ j + 1 \in 0..n
    BY <1>1
  <2>2. Begun(I[k].inbox, I[n].inbox) /\ Begun(I[k].events, I[n].events)
    BY <1>4
  <2> HIDE DEF k
  <2>3. I[k] = Took(I[k - 1], down[r][k]) /\ I[k - 1] \in Ins /\ I[k] \in Ins /\ down[r][k] \in Told
    BY <1>1, <1>2, <2>1 DEF Trail
  <2>4. Begun(I[k - 1].inbox, I[k].inbox) /\ Begun(I[k - 1].events, I[k].events)
    <3> DEFINE m == down[r][k]
    <3>1. I[k].inbox = I[k - 1].inbox \/ I[k].inbox = Append(I[k - 1].inbox, m)
      <4>1. I[k] = I[k - 1] \/ I[k].inbox = I[k - 1].inbox \/ I[k].inbox = Append(I[k - 1].inbox, m)
        BY <2>3, TookStep
      <4> QED
        BY <4>1
    <3>2. I[k].events = I[k - 1].events \/ \E e : I[k].events = Append(I[k - 1].events, e)
      <4>1. m.t \in Traffic \cup {"welcome", "start", "error", "partner_disconnected",
                                   "partner_rejoined", "partner_left"}
        BY <2>3 DEF Told, Carried, Chunks, Pulses, Acks, Intents, Ends, Welcomes, Notices, Traffic
      <4>2. CASE m.t \in Traffic \cup {"error"}
        BY <2>3, <4>2, TookStep
      <4>3. CASE m.t \in {"partner_disconnected", "partner_rejoined", "partner_left"}
        <5>1. I[k] = Took(I[k - 1], m) /\ m \in Told /\ I[k - 1] \in Ins
          BY <2>3
        <5>2. I[k].events = Append(I[k - 1].events, m.t)
          <6> HIDE DEF m
          <6> QED
            BY ONLY <5>1, <4>3, TookStep
        <5> QED
          BY <5>2
      <4>4. CASE m.t = "welcome"
        <5>1. I[k] = Took(I[k - 1], m) /\ m \in Told /\ I[k - 1] \in Ins
          BY <2>3
        <5>2. I[k].events = Append(I[k - 1].events, "reconnected")
          <6> HIDE DEF m
          <6> QED
            BY ONLY <5>1, <4>4, TookStep
        <5> QED
          BY <5>2
      <4>5. CASE m.t = "start"
        <5>1. I[k] = Took(I[k - 1], m) /\ m \in Told /\ I[k - 1] \in Ins
          BY <2>3
        <5>2. I[k].events = Append(I[k - 1].events, "started")
          <6> HIDE DEF m
          <6> QED
            BY ONLY <5>1, <4>5, TookStep
        <5> QED
          BY <5>2
      <4> QED
        BY <4>1, <4>2, <4>3, <4>4, <4>5
    <3>3. I[k - 1].inbox \in Seq(Carried) /\ I[k - 1].events \in Seq(Events)
      BY <2>3 DEF Ins
    <3> HIDE DEF m
    <3>4. Begun(I[k - 1].inbox, I[k].inbox)
      <4> DEFINE a == I[k - 1].inbox
                 b == I[k].inbox
      <4>1. a \in Seq(Carried) /\ (b = a \/ b = Append(a, m))
        BY <3>1, <3>3
      <4> HIDE DEF a, b
      <4>2. Begun(a, b)
        BY <4>1, AppendBegun
      <4> QED
        BY <4>2 DEF a, b
    <3>5. Begun(I[k - 1].events, I[k].events)
      <4> DEFINE a == I[k - 1].events
                 b == I[k].events
      <4>1. a \in Seq(Events) /\ (b = a \/ \E e : b = Append(a, e))
        BY <3>2, <3>3
      <4> HIDE DEF a, b
      <4>2. Begun(a, b)
        BY <4>1, AppendBegun
      <4> QED
        BY <4>2 DEF a, b
    <3> QED
      BY <3>4, <3>5
  <2>5. I[n] \in Ins
    BY <1>1, <1>2
  <2>6. Begun(I[k - 1].inbox, I[n].inbox)
    BY <2>2, <2>3, <2>4, <2>5 DEF Begun, Ins
  <2>7. Begun(I[k - 1].events, I[n].events)
    BY <2>2, <2>3, <2>4, <2>5 DEF Begun, Ins
  <2> QED
    BY <2>1, <2>6, <2>7
<1>5. ASSUME NEW k \in 0..n
      PROVE  Begun(I[k].inbox, I[n].inbox) /\ Begun(I[k].events, I[n].events)
  <2> HIDE DEF S
  <2>1. \A j \in 0..n : j \in S
    BY <1>1, <1>3, <1>4, Climbs
  <2>2. n - k \in S /\ n - (n - k) = k
    BY <1>1, <2>1
  <2> QED
    BY <2>2 DEF S
<1> QED
  BY <1>5

\* A message is left, or is the next that is handled.
LEMMA TrailCounts ==
  ASSUME TypeOK, NEW r \in Roles, NEW n \in 0..Len(down[r]), NEW I, Trail(r, n, I),
         NEW k \in 1..n
  PROVE  /\ down[r][k] \in Told /\ I[k - 1] \in Ins /\ I[k] \in Ins /\ I[n] \in Ins
         /\ Len(I[0].inbox) = 0
         /\ Len(I[k].inbox) \in 0..Len(I[n].inbox) /\ Len(I[k - 1].inbox) \in 0..Len(I[n].inbox)
         /\ \/ /\ Len(I[k].inbox) = Len(I[k - 1].inbox)
               /\ \/ down[r][k].t \notin Traffic
                  \/ I[k - 1].phase \notin {"Active", "Ended"}
            \/ /\ Len(I[k].inbox) = Len(I[k - 1].inbox) + 1
               /\ I[n].inbox[Len(I[k].inbox)] = down[r][k]
<1> DEFINE m == down[r][k]
<1>1. m \in Told /\ n \in Nat /\ I[k - 1] \in Ins /\ I[k] \in Ins /\ I[n] \in Ins
  <2>1. down[r] \in Seq(Told)
    BY Parts
  <2> QED
    BY <2>1 DEF Trail
<1>2. I[k] = Took(I[k - 1], m)
  BY DEF Trail
<1>3. Begun(I[k].inbox, I[n].inbox) /\ Begun(I[k - 1].inbox, I[n].inbox)
  BY <1>1, TrailGrows
<1>4. I[k].inbox \in Seq(Carried) /\ I[k - 1].inbox \in Seq(Carried) /\ I[n].inbox \in Seq(Carried)
  BY <1>1 DEF Ins
<1>5. Len(I[0].inbox) = 0
  BY DEF Trail, Begins
<1>6. Len(I[k].inbox) \in 0..Len(I[n].inbox) /\ Len(I[k - 1].inbox) \in 0..Len(I[n].inbox)
  BY <1>3, <1>4 DEF Begun
<1>7. CASE m.t \in Traffic /\ I[k - 1].phase \in {"Active", "Ended"}
  <2> HIDE DEF m
  <2>1. I[k].inbox = Append(I[k - 1].inbox, m)
    BY <1>1, <1>2, <1>7, TookStep
  <2>2. Len(I[k].inbox) = Len(I[k - 1].inbox) + 1 /\ I[k].inbox[Len(I[k].inbox)] = m
    BY <2>1, <1>4
  <2>3. I[n].inbox[Len(I[k].inbox)] = I[k].inbox[Len(I[k].inbox)]
    <3>1. Len(I[k].inbox) \in 1..Len(I[k].inbox)
      BY <1>4, <2>2
    <3> QED
      BY <1>3, <3>1 DEF Begun
  <2>4. I[n].inbox[Len(I[k].inbox)] = m
    BY <2>2, <2>3
  <2> QED
    BY <1>1, <1>5, <1>6, <2>2, <2>4 DEF m
<1>8. CASE ~(m.t \in Traffic /\ I[k - 1].phase \in {"Active", "Ended"})
  <2> HIDE DEF m
  <2>1. I[k] = I[k - 1] \/ I[k].inbox = I[k - 1].inbox
    BY <1>1, <1>2, <1>8, TookStep
  <2>2. Len(I[k].inbox) = Len(I[k - 1].inbox)
    BY <2>1
  <2> QED
    BY <1>1, <1>5, <1>6, <1>8, <2>2 DEF m
<1> QED
  BY <1>7, <1>8

HostReads(n, I, R) ==
  /\ R \in [0..n -> Hosts] /\ R[0] = HostTold(I[n].phase, host, I[n].events)
  /\ R[n] = Folded(HostReceive, R[0], I[n].inbox)
  /\ \A k \in 1..n :
       \/ R[k] = HostReceive(R[k - 1], down["Host"][k])
       \/ /\ R[k] = R[k - 1]
          /\ down["Host"][k].t \notin Traffic \/ I[k - 1].phase \notin {"Active", "Ended"}

JoinReads(n, I, R) ==
  /\ R \in [0..n -> Seats] /\ R[0] = JoinTold(I[n].phase, Seat, I[n].events)
  /\ R[n] = JoinHeard(I[n].phase, R[0], I[n].inbox)
  /\ \A k \in 1..n :
       \/ R[k] = JoinTook(I[n].phase, R[k - 1], down["Join"][k])
       \/ /\ R[k] = R[k - 1]
          /\ down["Join"][k].t \notin Traffic \/ I[k - 1].phase \notin {"Active", "Ended"}

LEMMA HostToldTyped ==
  ASSUME NEW phase, NEW b \in Hosts, NEW s \in Seq(Events)
  PROVE  HostTold(phase, b, s) \in Hosts
<1>1. PICK f \in [0..Len(s) -> Hosts] : HostTold(phase, b, s) = f[Len(s)]
  BY HostEventFold
<1> QED
  BY <1>1

LEMMA JoinToldTyped ==
  ASSUME NEW phase, NEW b \in Seats, NEW s \in Seq(Events)
  PROVE  JoinTold(phase, b, s) \in Seats
<1>1. PICK f \in [0..Len(s) -> Seats] : JoinTold(phase, b, s) = f[Len(s)]
  BY JoinEventFold
<1> QED
  BY <1>1

LEMMA SeatTyped ==
  ASSUME TypeOK
  PROVE  Seat \in Seats
<1>1. screen["Join"] \in Screens /\ join \in Joiners /\ <<>> \in Seq(Sent)
  BY Parts, EmptySeq DEF TypeOK, Roles
<1> QED
  BY <1>1 DEF Seat, Seats

\* The host, after each message.
LEMMA HostReadsExists ==
  ASSUME TypeOK, NEW n \in 0..Len(down["Host"]), NEW I, Trail("Host", n, I)
  PROVE  \E R : HostReads(n, I, R)
<1> DEFINE c(k) == Len(I[k].inbox)
           b == HostTold(I[n].phase, host, I[n].events)
           s == I[n].inbox
<1>1. "Host" \in Roles /\ n \in Nat /\ host \in Hosts /\ I[n] \in Ins /\ I[0] \in Ins
  <2>1. "Host" \in Roles /\ n \in Nat
    BY Parts DEF Roles
  <2> QED
    BY <2>1 DEF Trail, TypeOK
<1>2. b \in Hosts /\ s \in Seq(Carried)
  BY <1>1, HostToldTyped DEF Ins
<1>3. ASSUME NEW k \in 1..n
      PROVE  /\ c(k) \in 0..Len(s) /\ c(k - 1) \in 0..Len(s)
             /\ \/ /\ c(k) = c(k - 1)
                   /\ \/ down["Host"][k].t \notin Traffic
                      \/ I[k - 1].phase \notin {"Active", "Ended"}
                \/ /\ c(k) = c(k - 1) + 1
                   /\ s[c(k)] = down["Host"][k]
  BY <1>1, TrailCounts
<1>4. c(0) = 0 /\ c(n) = Len(s)
  BY DEF Trail, Begins
<1> HIDE DEF b, s, c
<1>5. PICK F \in [0..Len(s) -> Hosts] :
               /\ F[0] = b /\ \A i \in 1..Len(s) : F[i] = HostReceive(F[i - 1], s[i])
               /\ Folded(HostReceive, b, s) = F[Len(s)]
  BY <1>2, HostReceiveFold
<1> DEFINE R == [k \in 0..n |-> F[c(k)]]
<1>6. ASSUME NEW k \in 0..n PROVE c(k) \in 0..Len(s)
  <2>1. k = 0 \/ k \in 1..n
    BY <1>1
  <2>2. 0 \in 0..Len(s)
    BY <1>2
  <2> QED
    BY <1>3, <1>4, <2>1, <2>2
<1>7. R \in [0..n -> Hosts]
  BY <1>5, <1>6
<1>8. R[0] = b /\ R[n] = F[Len(s)]
  BY <1>1, <1>4, <1>5
<1>9. ASSUME NEW k \in 1..n
      PROVE  \/ R[k] = HostReceive(R[k - 1], down["Host"][k])
             \/ /\ R[k] = R[k - 1]
                /\ down["Host"][k].t \notin Traffic \/ I[k - 1].phase \notin {"Active", "Ended"}
  <2>1. k - 1 \in 0..n /\ k \in 0..n
    BY <1>1
  <2>2. R[k] = F[c(k)] /\ R[k - 1] = F[c(k - 1)]
    BY <2>1
  <2>3. c(k) \in 0..Len(s) /\ c(k - 1) \in 0..Len(s)
    BY <1>3
  <2>4. CASE c(k) = c(k - 1) + 1 /\ s[c(k)] = down["Host"][k]
    <3>1. c(k) \in 1..Len(s) /\ c(k) - 1 = c(k - 1)
      BY <1>2, <2>3, <2>4
    <3>2. F[c(k)] = HostReceive(F[c(k - 1)], down["Host"][k])
      BY <1>5, <2>4, <3>1
    <3> HIDE DEF R
    <3> QED
      BY <2>2, <3>2
  <2> HIDE DEF R
  <2> QED
    BY <1>3, <2>2, <2>4
<1> HIDE DEF R
<1>10. HostReads(n, I, R)
  BY <1>5, <1>7, <1>8, <1>9 DEF HostReads, b, s
<1> QED
  BY <1>10

\* The joiner, after each message.
LEMMA JoinReadsExists ==
  ASSUME TypeOK, NEW n \in 0..Len(down["Join"]), NEW I, Trail("Join", n, I)
  PROVE  \E R : JoinReads(n, I, R)
<1> DEFINE c(k) == Len(I[k].inbox)
           p == I[n].phase
           b == JoinTold(I[n].phase, Seat, I[n].events)
           s == I[n].inbox
<1>1. "Join" \in Roles /\ n \in Nat /\ Seat \in Seats /\ I[n] \in Ins /\ I[0] \in Ins
  <2>1. "Join" \in Roles /\ n \in Nat
    BY Parts DEF Roles
  <2> QED
    BY <2>1, SeatTyped DEF Trail
<1>2. b \in Seats /\ s \in Seq(Carried)
  BY <1>1, JoinToldTyped DEF Ins
<1>3. ASSUME NEW k \in 1..n
      PROVE  /\ c(k) \in 0..Len(s) /\ c(k - 1) \in 0..Len(s)
             /\ \/ /\ c(k) = c(k - 1)
                   /\ \/ down["Join"][k].t \notin Traffic
                      \/ I[k - 1].phase \notin {"Active", "Ended"}
                \/ /\ c(k) = c(k - 1) + 1
                   /\ s[c(k)] = down["Join"][k]
  BY <1>1, TrailCounts
<1>4. c(0) = 0 /\ c(n) = Len(s)
  BY DEF Trail, Begins
<1> HIDE DEF b, s, c, p
<1>5. PICK F \in [0..Len(s) -> Seats] :
               /\ F[0] = b /\ \A i \in 1..Len(s) : F[i] = JoinTook(p, F[i - 1], s[i])
               /\ JoinHeard(p, b, s) = F[Len(s)]
  BY <1>2, JoinReceiveFold
<1> DEFINE R == [k \in 0..n |-> F[c(k)]]
<1>6. ASSUME NEW k \in 0..n PROVE c(k) \in 0..Len(s)
  <2>1. k = 0 \/ k \in 1..n
    BY <1>1
  <2>2. 0 \in 0..Len(s)
    BY <1>2
  <2> QED
    BY <1>3, <1>4, <2>1, <2>2
<1>7. R \in [0..n -> Seats]
  BY <1>5, <1>6
<1>8. R[0] = b /\ R[n] = F[Len(s)]
  BY <1>1, <1>4, <1>5
<1>9. ASSUME NEW k \in 1..n
      PROVE  \/ R[k] = JoinTook(p, R[k - 1], down["Join"][k])
             \/ /\ R[k] = R[k - 1]
                /\ down["Join"][k].t \notin Traffic \/ I[k - 1].phase \notin {"Active", "Ended"}
  <2>1. k - 1 \in 0..n /\ k \in 0..n
    BY <1>1
  <2>2. R[k] = F[c(k)] /\ R[k - 1] = F[c(k - 1)]
    BY <2>1
  <2>3. c(k) \in 0..Len(s) /\ c(k - 1) \in 0..Len(s)
    BY <1>3
  <2>4. CASE c(k) = c(k - 1) + 1 /\ s[c(k)] = down["Join"][k]
    <3>1. c(k) \in 1..Len(s) /\ c(k) - 1 = c(k - 1)
      BY <1>2, <2>3, <2>4
    <3>2. F[c(k)] = JoinTook(p, F[c(k - 1)], down["Join"][k])
      BY <1>5, <2>4, <3>1
    <3> HIDE DEF R
    <3> QED
      BY <2>2, <3>2
  <2> HIDE DEF R
  <2> QED
    BY <1>3, <2>2, <2>4
<1> HIDE DEF R
<1>10. JoinReads(n, I, R)
  BY <1>5, <1>7, <1>8, <1>9 DEF JoinReads, b, s, p
<1> QED
  BY <1>10

-----------------------------------------------------------------------------
(* What a player sends, and what it makes of what it reads *)

\* What is sent to an open socket follows what is under way on it.
LEMMA Sending ==
  ASSUME Wires, NEW r \in Roles, NEW msgs \in Seq(Sent), \A i \in DOMAIN msgs : msgs[i].t # "hello",
         NEW n \in 0..Len(down[r]), n # 0 \/ session[r].phase # "Reconnecting",
         Sends(r, msgs), UNCHANGED <<relay, sock, stale>>,
         down'[r] = SubSeq(down[r], n + 1, Len(down[r])),
         down'[Other(r)] = down[Other(r)], session'[Other(r)] = session[Other(r)]
  PROVE  /\ up' \in [Roles -> Seq(Sent)] /\ (\A p \in Roles : Wired(p)')
         /\ sock[r] = "open" => /\ relay.seat[r] = "cur" /\ stale[r] = <<>>
                                /\ Line(r)' = Line(r) \o msgs
         /\ sock[r] # "open" => Line(r)' = Line(r)
         /\ Line(Other(r))' = Line(Other(r))
<1>1. /\ up \in [Roles -> Seq(Sent)] /\ up[r] \in Seq(Sent) /\ down[r] \in Seq(Told)
      /\ stale[r] \in Seq(Left) /\ TypeOK
  BY Parts DEF Wires, TypeOK
<1>2. \A i \in DOMAIN up[r] : up[r][i].t # "hello"
  BY <1>1 DEF Wires, Wired
<1>3. sock[r] = "open" => relay.seat[r] = "cur" /\ stale[r] = <<>>
  BY <1>1, <1>2 DEF Wires, Wired, Greets
<1>4. Other(r) \in Roles /\ Other(r) # r /\ \A p \in Roles : p = r \/ p = Other(r)
  BY RolesTwo DEF Roles, Other
<1>5. up' \in [Roles -> Seq(Sent)] /\ up'[Other(r)] = up[Other(r)]
  BY <1>1, <1>4 DEF Sends
<1>6. sock[r] = "open" => up'[r] = up[r] \o msgs
  BY <1>1 DEF Sends
<1>7. sock[r] # "open" => up'[r] = up[r]
  BY <1>1 DEF Sends
<1>8. \A i \in DOMAIN up'[r] : up'[r][i].t # "hello"
  <2>1. CASE sock[r] = "open"
    <3> DEFINE u == up[r]
    <3>1. u \in Seq(Sent) /\ up'[r] = u \o msgs /\ \A i \in DOMAIN u : u[i].t # "hello"
      BY <1>1, <1>2, <1>6, <2>1
    <3> HIDE DEF u
    <3> QED
      BY <3>1
  <2> QED
    BY <1>2, <1>7, <2>1
<1>9. Wired(r)'
  <2>1. sock[r] = "none" => down'[r] = <<>>
    BY <1>1 DEF Wires, Wired
  <2>2. relay.seat[r] # "cur" => up'[r] = up[r]
    BY <1>3, <1>7
  <2>3. sock[r] = "none" => up'[r] = up[r]
    BY <1>7
  <2>4. (relay.seat[r] = "cur" => stale[r] = <<>>)'
    BY DEF Wires, Wired
  <2>5. (sock[r] = "none" => up[r] = <<>> /\ down[r] = <<>> /\ relay.seat[r] # "cur")'
    BY <2>1, <2>3 DEF Wires, Wired
  <2>6. (sock[r] = "open" /\ relay.seat[r] # "cur" => Greets(r))'
    BY <1>3
  <2>7. (relay.seat[r] # "cur" /\ (relay.phase = "Active" \/ stale[r] # <<>>) =>
           up[r] = <<>> \/ Greets(r))'
    BY <2>2 DEF Wires, Wired, Greets
  <2>8. (stale[r] # <<>> => relay.seat[r] = "old")'
    BY DEF Wires, Wired
  <2> QED
    BY <1>8, <2>4, <2>5, <2>6, <2>7, <2>8 DEF Wired
<1>10. Wired(Other(r))'
  BY <1>4, <1>5, WiredKept
<1>11. Line(Other(r))' = Line(Other(r))
  BY <1>5 DEF Line
<1>12. sock[r] # "open" => Line(r)' = Line(r)
  BY <1>7 DEF Line
<1>13. sock[r] = "open" => Line(r)' = Line(r) \o msgs
  <2> SUFFICES ASSUME sock[r] = "open" PROVE Line(r)' = Line(r) \o msgs
    OBVIOUS
  <2>1. stale[r] = <<>> /\ stale'[r] = <<>> /\ up'[r] \in Seq(Sent)
    BY <1>3, <1>5
  <2>2. Line(r) = up[r]
    BY <1>1, <2>1, LineAlone
  <2>3. Line(r)' = up'[r]
    <3>1. Line(r)' = <<>> \o up'[r]
      BY <2>1 DEF Line
    <3> QED
      BY <2>1, <3>1, ConcatEmptySeq
  <2> QED
    BY <1>6, <2>2, <2>3
<1> QED
  BY <1>3, <1>4, <1>5, <1>9, <1>10, <1>11, <1>12, <1>13

LEMMA PhaseMoves ==
  ASSUME NEW in \in Ins, NEW m \in Told
  PROVE  \/ Took(in, m).phase = in.phase
         \/ Took(in, m).phase = "Active" /\ m.t \in {"welcome", "start"}
         \/ Took(in, m).phase = "Failed"
         \/ Took(in, m).phase = "Ended" /\ in.phase = "Active"
<1>1. m.t \in Traffic \cup {"welcome", "start", "error", "partner_disconnected",
                            "partner_rejoined", "partner_left"}
  BY DEF Told, Carried, Chunks, Pulses, Acks, Intents, Ends, Welcomes, Notices, Traffic
<1>2. CASE m.t \in Traffic
  BY <1>2, TookStep
<1>3. CASE m.t \in {"welcome", "start"}
  BY <1>3, TookStep
<1>4. CASE m.t \in {"error", "partner_left"}
  BY <1>4, TookStep
<1>5. CASE m.t \in {"partner_disconnected", "partner_rejoined"}
  BY <1>5, TookStep
<1> QED
  BY <1>1, <1>2, <1>3, <1>4, <1>5

\* The events of a frame: the host.
Retold(b, h) == h = [b EXCEPT !.need = h.need, !.synced = h.synced]

LEMMA HostToldIs ==
  ASSUME NEW phase, NEW b \in Hosts, NEW s \in Seq(Events), NEW h, h = HostTold(phase, b, s)
  PROVE  /\ h \in Hosts /\ Retold(b, h)
         /\ h.synced => b.synced
         /\ h.synced /\ phase = "Active" => \A i \in DOMAIN s : s[i] # "reconnected"
<1>1. PICK f \in [0..Len(s) -> Hosts] :
        /\ f[0] = b /\ \A i \in 1..Len(s) : f[i] = HostEvent(phase, f[i - 1], s[i])
        /\ HostTold(phase, b, s) = f[Len(s)]
  BY HostEventFold
<1> DEFINE Good(k) == /\ f[k] = [b EXCEPT !.need = f[k].need, !.synced = f[k].synced]
                      /\ f[k].synced => b.synced
                      /\ f[k].synced /\ phase = "Active" => \A i \in 1..k : s[i] # "reconnected"
           S == {k \in 0..Len(s) : Good(k)}
<1>2. 0 \in S
  <2>1. b = [b EXCEPT !.need = b.need, !.synced = b.synced]
    BY DEF Hosts
  <2>2. f[0] = b /\ 0 \in 0..Len(s) /\ 1..0 = {}
    BY <1>1
  <2>3. Good(0)
    BY <2>1, <2>2
  <2> HIDE DEF Good
  <2> QED
    BY <2>2, <2>3
<1>3. ASSUME NEW k \in 0..(Len(s) - 1), k \in S PROVE k + 1 \in S
  <2> DEFINE x == f[k]
             y == f[k + 1]
             e == s[k + 1]
  <2>1. x \in Hosts /\ y \in Hosts /\ y = HostEvent(phase, x, e) /\ k + 1 \in 0..Len(s)
    BY <1>1
  <2>2. Good(k)
    BY <1>3
  <2>3. \/ y = x /\ (phase = "Active" => e # "reconnected")
        \/ y = [x EXCEPT !.need = TRUE, !.synced = FALSE]
        \/ y = [x EXCEPT !.synced = FALSE]
    BY <2>1 DEF HostEvent, Unsynced
  <2>4. \A i \in 1..(k + 1) : i \in 1..k \/ i = k + 1
    OBVIOUS
  <2>5. \/ y = x /\ (phase = "Active" => e # "reconnected")
        \/ ~y.synced /\ y = [x EXCEPT !.need = y.need, !.synced = y.synced]
    <3> HIDE DEF x, y, e
    <3> QED
      BY <2>1, <2>3 DEF Hosts
  <2>6. x = [b EXCEPT !.need = x.need, !.synced = x.synced]
    BY <2>2
  <2>7. y = [b EXCEPT !.need = y.need, !.synced = y.synced]
    <3> HIDE DEF x, y, e
    <3> QED
      BY <2>1, <2>5, <2>6 DEF Hosts
  <2>8. y.synced => b.synced
    BY <2>2, <2>5
  <2>9. y.synced /\ phase = "Active" => \A i \in 1..(k + 1) : s[i] # "reconnected"
    BY <2>2, <2>4, <2>5
  <2>10. Good(k + 1)
    BY <2>7, <2>8, <2>9
  <2> HIDE DEF Good
  <2> QED
    BY <2>1, <2>10
<1> HIDE DEF S
<1>4. Len(s) \in Nat /\ DOMAIN s = 1..Len(s)
  OBVIOUS
<1>5. Len(s) \in S
  <2>1. \A k \in 0..Len(s) : k \in S
    BY <1>2, <1>3, <1>4, Climbs
  <2> QED
    BY <1>4, <2>1
<1> QED
  BY <1>1, <1>4, <1>5 DEF S, Retold

\* And the joiner.
Reseated(b, a) == a.j = [b.j EXCEPT !.have = a.j.have, !.seq = a.j.seq]

LEMMA SeqAsBefore ==
  ASSUME NEW q \in Joiners, NEW z, z = [q EXCEPT !.have = FALSE]
  PROVE  ~z.have /\ z = [q EXCEPT !.have = z.have, !.seq = z.seq]
<1>1. z.have = FALSE /\ z.seq = q.seq
  BY DEF Joiners
<1>2. z = [q EXCEPT !.have = FALSE, !.seq = q.seq]
  BY DEF Joiners
<1> QED
  BY <1>1, <1>2

LEMMA JoinToldIs ==
  ASSUME NEW phase, NEW b \in Seats, NEW s \in Seq(Events), NEW a, a = JoinTold(phase, b, s)
  PROVE  /\ a \in Seats /\ a.out = b.out /\ (a.screen = "Out" => b.screen = "Out")
         /\ Reseated(b, a)
         /\ a.j.have => /\ b.j.have /\ a.j.seq = b.j.seq
                        /\ \A i \in DOMAIN s : /\ s[i] # "started"
                                               /\ phase = "Active" => s[i] # "reconnected"
<1>1. PICK f \in [0..Len(s) -> Seats] :
        /\ f[0] = b /\ \A i \in 1..Len(s) : f[i] = JoinEvent(phase, f[i - 1], s[i])
        /\ JoinTold(phase, b, s) = f[Len(s)]
  BY JoinEventFold
<1> DEFINE Good(k) == /\ f[k].out = b.out /\ (f[k].screen = "Out" => b.screen = "Out")
                      /\ f[k].j = [b.j EXCEPT !.have = f[k].j.have, !.seq = f[k].j.seq]
                      /\ f[k].j.have => /\ b.j.have /\ f[k].j.seq = b.j.seq
                                        /\ \A i \in 1..k : /\ s[i] # "started"
                                                           /\ phase = "Active" => s[i] # "reconnected"
           S == {k \in 0..Len(s) : Good(k)}
<1>2. 0 \in S
  <2>1. b.j = [b.j EXCEPT !.have = b.j.have, !.seq = b.j.seq]
    BY DEF Seats, Joiners
  <2>2. f[0] = b /\ 0 \in 0..Len(s) /\ 1..0 = {}
    BY <1>1
  <2>3. Good(0)
    BY <2>1, <2>2
  <2> HIDE DEF Good
  <2> QED
    BY <2>2, <2>3
<1>3. ASSUME NEW k \in 0..(Len(s) - 1), k \in S PROVE k + 1 \in S
  <2> DEFINE x == f[k]
             y == f[k + 1]
             e == s[k + 1]
  <2>1. x \in Seats /\ y \in Seats /\ y = JoinEvent(phase, x, e) /\ k + 1 \in 0..Len(s)
    BY <1>1
  <2>2. Good(k)
    BY <1>3
  <2>3. \/ y = x /\ e # "started" /\ (phase = "Active" => e # "reconnected")
        \/ y = [x EXCEPT !.j.have = FALSE, !.j.seq = 0, !.screen = "Wait"]
        \/ y = [x EXCEPT !.j.have = FALSE, !.screen = IF @ = "Play" THEN "Wait" ELSE @]
    BY <2>1 DEF JoinEvent
  <2>4. \A i \in 1..(k + 1) : i \in 1..k \/ i = k + 1
    OBVIOUS
  <2>5. \/ y = x /\ e # "started" /\ (phase = "Active" => e # "reconnected")
        \/ /\ ~y.j.have /\ y.j = [x.j EXCEPT !.have = y.j.have, !.seq = y.j.seq]
           /\ y.out = x.out /\ (y.screen = "Out" => x.screen = "Out")
    <3> HIDE DEF x, y, e
    <3>1. ASSUME y = [x EXCEPT !.j.have = FALSE, !.j.seq = 0, !.screen = "Wait"]
          PROVE  /\ ~y.j.have /\ y.j = [x.j EXCEPT !.have = y.j.have, !.seq = y.j.seq]
                 /\ y.out = x.out /\ y.screen = "Wait"
      <4>1. x.j \in Joiners /\ y = [x EXCEPT !.j = [x.j EXCEPT !.have = FALSE, !.seq = 0], !.screen = "Wait"]
        BY <2>1, <3>1 DEF Seats
      <4>2. y.j = [x.j EXCEPT !.have = FALSE, !.seq = 0] /\ y.out = x.out /\ y.screen = "Wait"
        BY <2>1, <4>1 DEF Seats
      <4>3. y.j.have = FALSE /\ y.j.seq = 0
        BY <4>1, <4>2 DEF Joiners
      <4> QED
        BY <4>2, <4>3
    <3>2. ASSUME y = [x EXCEPT !.j.have = FALSE, !.screen = IF @ = "Play" THEN "Wait" ELSE @]
          PROVE  /\ ~y.j.have /\ y.j = [x.j EXCEPT !.have = y.j.have, !.seq = y.j.seq]
                 /\ y.out = x.out /\ y.screen \in {x.screen, "Wait"}
      <4>1. /\ x.j \in Joiners
            /\ y = [x EXCEPT !.j = [x.j EXCEPT !.have = FALSE], !.screen = IF @ = "Play" THEN "Wait" ELSE @]
        BY <2>1, <3>2 DEF Seats
      <4>2. y.j = [x.j EXCEPT !.have = FALSE] /\ y.out = x.out /\ y.screen \in {x.screen, "Wait"}
        BY <2>1, <4>1 DEF Seats
      <4>3. ~y.j.have /\ y.j = [x.j EXCEPT !.have = y.j.have, !.seq = y.j.seq]
        <5> DEFINE q == x.j
                   z == y.j
        <5>1. q \in Joiners /\ z = [q EXCEPT !.have = FALSE]
          BY <4>1, <4>2
        <5> SUFFICES ~z.have /\ z = [q EXCEPT !.have = z.have, !.seq = z.seq]
          OBVIOUS
        <5> HIDE DEF q, z
        <5> QED
          BY <5>1, SeqAsBefore
      <4> QED
        BY <4>2, <4>3
    <3> QED
      BY <2>3, <3>1, <3>2
  <2>6. x.j = [b.j EXCEPT !.have = x.j.have, !.seq = x.j.seq]
    BY <2>2
  <2>7. y.j = [b.j EXCEPT !.have = y.j.have, !.seq = y.j.seq]
    <3> HIDE DEF x, y, e
    <3> QED
      BY <2>1, <2>5, <2>6 DEF Seats, Joiners
  <2>8. y.out = b.out /\ (y.screen = "Out" => b.screen = "Out")
    BY <2>2, <2>5
  <2>9. y.j.have => b.j.have /\ y.j.seq = b.j.seq
    BY <2>2, <2>5
  <2>10. y.j.have => \A i \in 1..(k + 1) : /\ s[i] # "started"
                                           /\ phase = "Active" => s[i] # "reconnected"
    BY <2>2, <2>4, <2>5
  <2>11. Good(k + 1)
    BY <2>7, <2>8, <2>9, <2>10
  <2> HIDE DEF Good
  <2> QED
    BY <2>1, <2>11
<1> HIDE DEF S
<1>4. Len(s) \in Nat /\ DOMAIN s = 1..Len(s)
  OBVIOUS
<1>5. Len(s) \in S
  <2>1. \A k \in 0..Len(s) : k \in S
    BY <1>2, <1>3, <1>4, Climbs
  <2> QED
    BY <1>4, <2>1
<1> QED
  BY <1>1, <1>4, <1>5 DEF S, Reseated

-----------------------------------------------------------------------------
(* The frame of the host *)

Steady(a, b) ==
  /\ a.ckpt = b.ckpt /\ a.ckptEpoch = b.ckptEpoch /\ a.epoch = b.epoch
  /\ a.world = b.world /\ a.ended = b.ended

LEMMA HostReceiveSteady ==
  ASSUME NEW h \in Hosts, NEW m
  PROVE  Steady(HostReceive(h, m), h)
<1>1. HostReceive(h, m) \in {h, Cleared([h EXCEPT !.synced = TRUE]), ReceiveIntent(h, m)}
  BY DEF HostReceive
<1>2. Steady(Cleared([h EXCEPT !.synced = TRUE]), h)
  BY DEF Cleared, Hosts, Steady
<1>3. Steady(ReceiveIntent(h, m), h)
  <2> DEFINE new == Unseen(m.cmds, {i \in DOMAIN m.cmds : m.cmds[i].seq <= h.seen})
             all == h.cmds \o new
             over == IF Len(all) > QueueMax THEN Len(all) - QueueMax ELSE 0
             acts == Unseen(m.acts, {i \in DOMAIN m.acts : m.acts[i].id <= h.seenAct})
             cmds2 == SubSeq(all, over + 1, Len(all))
             seen2 == IF new = <<>> THEN h.seen ELSE new[Len(new)].seq
             resolved2 == IF over = 0 THEN h.resolved ELSE all[over].seq
             acts2 == h.acts \o acts
             seenAct2 == IF acts = <<>> THEN h.seenAct ELSE acts[Len(acts)].id
  <2>1. ReceiveIntent(h, m) = IF ~Accepted(h, m) THEN h
          ELSE [h EXCEPT !.cmds = cmds2, !.seen = seen2, !.resolved = resolved2,
                         !.acts = acts2, !.seenAct = seenAct2]
    BY DEF ReceiveIntent
  <2> HIDE DEF new, all, over, acts, cmds2, seen2, resolved2, acts2, seenAct2
  <2> QED
    BY <2>1 DEF Hosts, Steady
<1>4. Steady(h, h)
  BY DEF Steady
<1> QED
  BY <1>1, <1>2, <1>3, <1>4

LEMMA HostSteady ==
  ASSUME TypeOK, NEW n \in 0..Len(down["Host"]), NEW I, Trail("Host", n, I), NEW R, HostReads(n, I, R)
  PROVE  \A k \in 0..n : R[k] \in Hosts /\ Steady(R[k], host)
<1> DEFINE S == {k \in 0..n : Steady(R[k], host)}
<1>1. n \in Nat /\ host \in Hosts
  <2>1. "Host" \in Roles
    BY DEF Roles
  <2> QED
    BY <2>1, Parts DEF TypeOK
<1>2. R \in [0..n -> Hosts]
  BY DEF HostReads
<1>3. 0 \in S
  <2>1. I[n].events \in Seq(Events)
    BY <1>1 DEF Trail, Ins
  <2>2. R[0] = HostTold(I[n].phase, host, I[n].events)
    BY DEF HostReads
  <2>3. Retold(host, R[0])
    BY <1>1, <2>1, <2>2, HostToldIs
  <2>4. Steady(R[0], host)
    BY <1>1, <2>3 DEF Steady, Hosts, Retold
  <2> QED
    BY <1>1, <2>4
<1>4. ASSUME NEW k \in 0..(n - 1), k \in S PROVE k + 1 \in S
  <2>1. k + 1 \in 1..n /\ (k + 1) - 1 = k /\ k + 1 \in 0..n
    BY <1>1
  <2>2. R[k + 1] = HostReceive(R[k], down["Host"][k + 1]) \/ R[k + 1] = R[k]
    BY <2>1 DEF HostReads
  <2>3. R[k] \in Hosts
    BY <1>2, <2>1
  <2>4. Steady(R[k + 1], R[k])
    BY <2>2, <2>3, HostReceiveSteady DEF Steady
  <2> QED
    BY <1>4, <2>1, <2>4 DEF Steady
<1> HIDE DEF S
<1>5. \A k \in 0..n : k \in S
  BY <1>1, <1>3, <1>4, Climbs
<1> QED
  BY <1>2, <1>5 DEF S

\* The host's frame, message by message.
HostFramed(n, I, R) ==
  /\ Trail("Host", n, I) /\ HostReads(n, I, R) /\ Readable("Host", n)
  /\ FrameEnds("Host", n, I[n], screen["Host"], <<>>, R[n], join)
  /\ UNCHANGED <<faults, history>>

LEMMA HostFrameIs ==
  ASSUME TypeOK, NEW n \in 1..Len(down["Host"]), HostFrame(n)
  PROVE  \E I, R : HostFramed(n, I, R)
<1>1. n \in 0..Len(down["Host"]) /\ n \in Nat /\ "Host" \in Roles
  BY DEF Roles
<1>2. PICK I : Trail("Host", n, I)
  BY <1>1, TrailExists
<1>3. PICK R : HostReads(n, I, R)
  BY <1>1, <1>2, HostReadsExists
<1>4. Goes("Host", n) = I[n]
  BY <1>1, <1>2 DEF Trail
<1> DEFINE h == Folded(HostReceive, HostTold(I[n].phase, host, I[n].events), I[n].inbox)
<1>5. h = R[n]
  BY <1>3 DEF HostReads
<1>6. /\ Readable("Host", n) /\ UNCHANGED <<faults, history>>
      /\ FrameEnds("Host", n, I[n], screen["Host"], <<>>, h, join)
  BY <1>4 DEF HostFrame
<1>7. HostFramed(n, I, R)
  <2> HIDE DEF h
  <2> QED
    BY <1>2, <1>3, <1>5, <1>6 DEF HostFramed
<1> QED
  BY <1>7

\* A session does not get stuck, or lose its way, in its frame.
LEMMA HostPhases ==
  ASSUME Wires, NEW n \in 1..Len(down["Host"]), NEW I, Trail("Host", n, I), Readable("Host", n)
  PROVE  \A k \in 1..n :
           /\ Playing => I[k].phase \in {"Active", "Ended", "Failed"}
           /\ Playing /\ down["Host"][k].t \in Traffic => I[k - 1].phase = "Active"
           /\ I[k].phase # "Reconnecting"
           /\ session["Host"].phase \in {"Ended", "Failed", "Idle"} =>
                I[k].phase \in {"Ended", "Failed", "Idle"}
<1> DEFINE d == down["Host"]
           p == session["Host"].phase
           S == {k \in 0..n : /\ Playing /\ k > 0 => I[k].phase \in {"Active", "Ended", "Failed"}
                              /\ k > 0 => I[k].phase # "Reconnecting"
                              /\ p \in {"Ended", "Failed", "Idle"} =>
                                   I[k].phase \in {"Ended", "Failed", "Idle"}}
<1>1. d \in Seq(Told) /\ n \in Nat /\ n <= Len(d) /\ p \in Phases /\ n \in 0..Len(down["Host"])
  BY Parts DEF Roles, Wires
<1>2. /\ I[0].phase = p
      /\ \A k \in 1..n : /\ I[k - 1] \in Ins /\ d[k] \in Told
                         /\ I[k] = Took(I[k - 1], d[k])
  <2>1. I[0].phase = p
    BY DEF Trail, Begins
  <2>2. ASSUME NEW k \in 1..n
        PROVE  I[k - 1] \in Ins /\ d[k] \in Told /\ I[k] = Took(I[k - 1], d[k])
    BY <1>1 DEF Trail
  <2> QED
    BY <2>1, <2>2
<1>3. ASSUME NEW k \in 1..(n - 1) PROVE I[k].phase \notin {"Failed", "Ended"}
  <2>1. Goes("Host", k).phase \notin {"Failed", "Ended"}
    BY DEF Readable
  <2>2. k \in 0..n
    BY <1>1
  <2> QED
    BY <2>1, <2>2 DEF Trail
<1>4. /\ Playing => p \in {"Active", "Reconnecting"}
      /\ \A i \in 1..n : d[i].t # "start" /\ (d[i].t = "welcome" => i = 1 /\ p = "Reconnecting")
      /\ p = "Reconnecting" => d[1].t \in {"welcome", "error"}
  <2>1. Hosting /\ d # <<>> /\ DOMAIN d = 1..Len(d)
    BY <1>1 DEF Wires
  <2> QED
    BY <1>1, <2>1 DEF Hosting
<1>5. ASSUME NEW k \in 1..n
      PROVE  \/ I[k].phase = I[k - 1].phase /\ (k = 1 => p # "Reconnecting")
             \/ I[k].phase = "Active" /\ d[k].t = "welcome"
             \/ I[k].phase = "Failed"
             \/ I[k].phase = "Ended" /\ I[k - 1].phase = "Active"
  <2>1. I[k - 1] \in Ins /\ d[k] \in Told /\ I[k] = Took(I[k - 1], d[k]) /\ d[k].t # "start"
    BY <1>2, <1>4
  <2> HIDE DEF d, p
  <2>2. \/ I[k].phase = I[k - 1].phase
        \/ I[k].phase = "Active" /\ d[k].t = "welcome"
        \/ I[k].phase = "Failed"
        \/ I[k].phase = "Ended" /\ I[k - 1].phase = "Active"
    BY <2>1, PhaseMoves
  <2>3. d[k].t = "welcome" => I[k].phase = "Active"
    BY <2>1, TookStep
  <2>4. d[k].t = "error" => I[k].phase = "Failed"
    BY <2>1, TookStep
  <2> QED
    BY <1>4, <2>2, <2>3, <2>4
<1> HIDE DEF d, p
<1>6. 0 \in S
  BY <1>1, <1>2
<1>7. ASSUME NEW k \in 0..(n - 1), k \in S PROVE k + 1 \in S
  <2>1. k + 1 \in 1..n /\ (k + 1) - 1 = k /\ k + 1 \in 0..n
    BY <1>1
  <2>2. \/ I[k + 1].phase = I[k].phase /\ (k = 0 => p # "Reconnecting")
        \/ I[k + 1].phase = "Active" /\ d[k + 1].t = "welcome"
        \/ I[k + 1].phase = "Failed"
        \/ I[k + 1].phase = "Ended" /\ I[k].phase = "Active"
    BY <1>5, <2>1
  <2>3. d[k + 1].t = "welcome" => p = "Reconnecting"
    BY <1>4, <2>1
  <2>4. k = 0 => I[k].phase = p
    BY <1>2
  <2>5. Playing => I[k + 1].phase \in {"Active", "Ended", "Failed"}
    BY <1>4, <1>7, <2>2, <2>4
  <2>6. I[k + 1].phase # "Reconnecting"
    BY <1>7, <2>2, <2>4
  <2>7. p \in {"Ended", "Failed", "Idle"} => I[k + 1].phase \in {"Ended", "Failed", "Idle"}
    BY <1>7, <2>2, <2>3
  <2> QED
    BY <2>1, <2>5, <2>6, <2>7
<1> HIDE DEF S
<1>8. \A k \in 0..n : k \in S
  BY <1>1, <1>6, <1>7, Climbs
<1>9. ASSUME NEW k \in 1..n
      PROVE  /\ Playing => I[k].phase \in {"Active", "Ended", "Failed"}
             /\ I[k].phase # "Reconnecting"
             /\ p \in {"Ended", "Failed", "Idle"} => I[k].phase \in {"Ended", "Failed", "Idle"}
  <2>1. k \in 0..n /\ k > 0
    OBVIOUS
  <2>2. k \in S
    BY <1>8, <2>1
  <2> QED
    BY <2>1, <2>2 DEF S
<1>10. ASSUME NEW k \in 1..n, Playing, d[k].t \in Traffic PROVE I[k - 1].phase = "Active"
  <2>1. CASE k = 1
    <3>1. d[1].t \notin {"welcome", "error"}
      BY <1>10, <2>1 DEF Traffic
    <3> QED
      BY <1>2, <1>4, <1>10, <2>1, <3>1
  <2>2. CASE k # 1
    <3>1. k - 1 \in 1..(n - 1) /\ k - 1 \in 1..n
      BY <1>1, <2>2
    <3> QED
      BY <1>3, <1>9, <1>10, <3>1
  <2> QED
    BY <2>1, <2>2
<1> QED
  BY <1>9, <1>10 DEF d, p

LEMMA SuffixAt ==
  ASSUME NEW M, NEW s \in Seq(M), NEW n \in 0..Len(s)
  PROVE  /\ SubSeq(s, n + 1, Len(s)) \in Seq(M) /\ Len(SubSeq(s, n + 1, Len(s))) = Len(s) - n
         /\ \A i \in 1..(Len(s) - n) : SubSeq(s, n + 1, Len(s))[i] = s[n + i]
BY SMT

\* What a frame that stays in the game leaves under way.
Framed(r, n, out) ==
  /\ Sends(r, out)
  /\ down' = [down EXCEPT ![r] = SubSeq(@, n + 1, Len(@))]
  /\ UNCHANGED <<relay, sock, stale, faults, history>>

LEMMA FramedTypes ==
  ASSUME Wires, NEW r \in Roles, NEW n \in 1..Len(down[r]), NEW out \in Seq(Sent),
         \A i \in DOMAIN out : out[i].t # "hello",
         Framed(r, n, out), session'[Other(r)] = session[Other(r)]
  PROVE  /\ up' \in [Roles -> Seq(Sent)] /\ down' \in [Roles -> Seq(Told)]
         /\ (\A p \in Roles : Wired(p)')
         /\ Len(down'[r]) = Len(down[r]) - n /\ down'[Other(r)] = down[Other(r)]
         /\ \A i \in 1..(Len(down[r]) - n) : down'[r][i] = down[r][n + i]
         /\ sock[r] = "open" => /\ relay.seat[r] = "cur" /\ stale[r] = <<>>
                                /\ Line(r)' = Line(r) \o out
         /\ sock[r] # "open" => Line(r)' = Line(r)
         /\ Line(Other(r))' = Line(Other(r))
<1>1. down[r] \in Seq(Told) /\ n \in 0..Len(down[r]) /\ n # 0 /\ down \in [Roles -> Seq(Told)]
  BY Parts DEF Wires, TypeOK
<1>2. Other(r) \in Roles /\ Other(r) # r
  BY RolesTwo
<1>3. down'[r] = SubSeq(down[r], n + 1, Len(down[r])) /\ down'[Other(r)] = down[Other(r)]
  BY <1>1, <1>2 DEF Framed
<1>4. /\ up' \in [Roles -> Seq(Sent)] /\ (\A p \in Roles : Wired(p)')
      /\ sock[r] = "open" => /\ relay.seat[r] = "cur" /\ stale[r] = <<>>
                             /\ Line(r)' = Line(r) \o out
      /\ sock[r] # "open" => Line(r)' = Line(r)
      /\ Line(Other(r))' = Line(Other(r))
  BY <1>1, <1>3, Sending DEF Framed
<1>5. /\ SubSeq(down[r], n + 1, Len(down[r])) \in Seq(Told)
      /\ Len(SubSeq(down[r], n + 1, Len(down[r]))) = Len(down[r]) - n
      /\ \A i \in 1..(Len(down[r]) - n) : SubSeq(down[r], n + 1, Len(down[r]))[i] = down[r][n + i]
  BY <1>1, SuffixAt
<1>6. down' \in [Roles -> Seq(Told)]
  <2> DEFINE s == SubSeq(down[r], n + 1, Len(down[r]))
  <2>1. down' = [down EXCEPT ![r] = s] /\ s \in Seq(Told)
    BY <1>1, <1>5 DEF Framed
  <2> HIDE DEF s
  <2> QED
    BY <1>1, <2>1
<1> QED
  BY <1>3, <1>4, <1>5, <1>6

\* A host that leaves.
LEMMA HostFrameLeaves ==
  ASSUME Wires, NEW n, NEW I, NEW R, HostFramed(n, I, R), Leaves(I[n].phase, R[n].ended)
  PROVE  Wires' /\ Network
<1>1. Departs("Host", up["Host"]) /\ UNCHANGED <<faults, history>>
  BY DEF HostFramed, FrameEnds
<1>2. "Host" \in Roles
  BY DEF Roles
<1> QED
  BY <1>1, <1>2, DepartsStep

\* What the host's frame does when it stays.
LEMMA HostFrameKeeps ==
  ASSUME Wires, NEW n \in 1..Len(down["Host"]), NEW I, NEW R, HostFramed(n, I, R),
         ~Leaves(I[n].phase, R[n].ended)
  PROVE  /\ Wires' /\ host' = R[n] /\ join' = join /\ history' = history
         /\ (Playing' <=> Playing) /\ (Passing' <=> Passing) /\ (Live' <=> Live) /\ Way' = Way
         /\ screen' = screen
         /\ Len(down'["Host"]) = Len(down["Host"]) - n
         /\ \A i \in 1..(Len(down["Host"]) - n) : down'["Host"][i] = down["Host"][n + i]
         /\ Line("Join")' = Line("Join")
         /\ Playing => \A k \in 1..n : down["Host"][k].t \in Traffic => I[k - 1].phase = "Active"
         /\ Playing => I[n].phase = "Active"
<1>1. /\ "Host" \in Roles /\ "Join" \in Roles /\ Other("Host") = "Join" /\ Other("Join") = "Host"
      /\ down["Host"] \in Seq(Told) /\ n \in Nat /\ n <= Len(down["Host"]) /\ TypeOK
      /\ screen \in [Roles -> Screens] /\ session \in [Roles -> [phase: Phases, partner: BOOLEAN]]
      /\ n \in 0..Len(down["Host"]) /\ n \in 0..n
  BY Parts DEF Roles, Other, Wires, TypeOK
<1>2. /\ Sends("Host", <<>>)
      /\ down' = [down EXCEPT !["Host"] = SubSeq(@, n + 1, Len(@))]
      /\ session' = [session EXCEPT !["Host"] = [phase |-> I[n].phase, partner |-> I[n].partner]]
      /\ screen' = [screen EXCEPT !["Host"] = screen["Host"]]
      /\ host' = R[n] /\ join' = join
      /\ UNCHANGED <<relay, sock, stale, faults, history>>
  BY DEF HostFramed, FrameEnds
<1>3. Trail("Host", n, I) /\ HostReads(n, I, R) /\ Readable("Host", n)
  BY DEF HostFramed
<1>4. I[n] \in Ins
  BY <1>1, <1>3 DEF Trail
<1>5. R[n] \in Hosts /\ R[n].ended = host.ended
  BY <1>1, <1>3, HostSteady DEF Steady
<1>6. screen' = screen
  BY <1>1, <1>2
<1>7. session'["Host"].phase = I[n].phase /\ session'["Join"] = session["Join"]
      /\ session' \in [Roles -> [phase: Phases, partner: BOOLEAN]]
  BY <1>1, <1>2, <1>4 DEF Ins
<1>8. <<>> \in Seq(Sent) /\ DOMAIN <<>> = {}
  BY EmptySeq
<1>9. /\ up' \in [Roles -> Seq(Sent)] /\ down' \in [Roles -> Seq(Told)]
      /\ (\A p \in Roles : Wired(p)')
      /\ Len(down'["Host"]) = Len(down["Host"]) - n /\ down'["Join"] = down["Join"]
      /\ \A i \in 1..(Len(down["Host"]) - n) : down'["Host"][i] = down["Host"][n + i]
      /\ sock["Host"] = "open" => Line("Host")' = Line("Host") \o <<>>
      /\ sock["Host"] # "open" => Line("Host")' = Line("Host")
      /\ Line("Join")' = Line("Join")
  <2> DEFINE e == <<>>
  <2>1. Framed("Host", n, e) /\ e \in Seq(Sent) /\ \A i \in DOMAIN e : e[i].t # "hello"
    BY <1>2, <1>8 DEF Framed
  <2> HIDE DEF e
  <2>2. /\ up' \in [Roles -> Seq(Sent)] /\ down' \in [Roles -> Seq(Told)]
        /\ (\A p \in Roles : Wired(p)')
        /\ Len(down'["Host"]) = Len(down["Host"]) - n /\ down'["Join"] = down["Join"]
        /\ \A i \in 1..(Len(down["Host"]) - n) : down'["Host"][i] = down["Host"][n + i]
        /\ sock["Host"] = "open" => Line("Host")' = Line("Host") \o e
        /\ sock["Host"] # "open" => Line("Host")' = Line("Host")
        /\ Line("Join")' = Line("Join")
    BY <1>1, <1>7, <2>1, FramedTypes
  <2> QED
    BY <2>2 DEF e
<1>10. Line("Host")' = Line("Host")
  <2>1. Line("Host") \in Seq(Left \cup Sent)
    BY <1>1, LineType
  <2>2. Line("Host") \o <<>> = Line("Host")
    BY <2>1, ConcatEmptySeq
  <2> QED
    BY <1>9, <2>2
<1>11. TypeOK'
  BY <1>1, <1>2, <1>5, <1>6, <1>7, <1>9 DEF TypeOK
<1>12. \A k \in 1..n :
           /\ Playing => I[k].phase \in {"Active", "Ended", "Failed"}
           /\ Playing /\ down["Host"][k].t \in Traffic => I[k - 1].phase = "Active"
           /\ I[k].phase # "Reconnecting"
           /\ session["Host"].phase \in {"Ended", "Failed", "Idle"} =>
                I[k].phase \in {"Ended", "Failed", "Idle"}
  BY <1>3, HostPhases
<1>13. n \in 1..n
  BY <1>1
<1>14. ASSUME Playing PROVE I[n].phase = "Active"
  <2>1. ~host.ended
    BY <1>14 DEF Wires, Hosting
  <2>2. I[n].phase \in {"Active", "Ended", "Failed"}
    BY <1>12, <1>13, <1>14
  <2> QED
    BY <1>5, <2>1, <2>2 DEF Leaves
<1>15. Hosting'
  <2>1. (Playing => session["Host"].phase \in {"Active", "Reconnecting"} /\ ~host.ended)'
    BY <1>2, <1>5, <1>6, <1>7, <1>14 DEF Playing, Wires, Hosting
  <2>2. (session["Host"].phase \in {"Lobby", "Active", "Reconnecting"} /\ ~host.ended => Playing)'
    <3>1. SUFFICES ASSUME I[n].phase \in {"Lobby", "Active", "Reconnecting"}, ~host.ended PROVE Playing
      BY <1>2, <1>5, <1>6, <1>7 DEF Playing
    <3>2. session["Host"].phase \in Phases /\ session["Host"].phase \notin {"Ended", "Failed", "Idle"}
      BY <1>1, <1>12, <1>13, <3>1, Parts
    <3> QED
      BY <3>1, <3>2 DEF Wires, Hosting, Phases
  <2>3. ASSUME NEW i \in DOMAIN down'["Host"]
        PROVE  down'["Host"][i].t # "start" /\ down'["Host"][i].t # "welcome"
    <3>1. down'["Host"] \in Seq(Told)
      BY <1>1, <1>9
    <3>2. i \in 1..(Len(down["Host"]) - n)
      BY <1>9, <3>1
    <3>3. down'["Host"][i] = down["Host"][n + i] /\ n + i \in DOMAIN down["Host"] /\ n + i # 1
      <4>1. down'["Host"][i] = down["Host"][n + i]
        BY <1>9, <3>2
      <4>2. DOMAIN down["Host"] = 1..Len(down["Host"]) /\ Len(down["Host"]) \in Nat
        BY <1>1
      <4>3. n + i \in 1..Len(down["Host"]) /\ n + i # 1
        BY <3>2, <4>2
      <4> QED
        BY <4>1, <4>2, <4>3
    <3> QED
      BY <3>3 DEF Wires, Hosting
  <2>4. session'["Host"].phase # "Reconnecting"
    BY <1>7, <1>12, <1>13
  <2> QED
    BY <2>1, <2>2, <2>3, <2>4 DEF Hosting
<1>16. Joining'
  BY <1>2, <1>6, <1>7 DEF Wires, Joining
<1>17. Wires'
  BY <1>9, <1>11, <1>15, <1>16 DEF Wires
<1>18. (Playing' <=> Playing) /\ (Passing' <=> Passing) /\ (Live' <=> Live)
  BY <1>2, <1>6, <1>7 DEF Playing, Passing, Live
<1>19. Way' = Way
  BY <1>9, <1>10 DEF Way
<1> QED
  BY <1>2, <1>6, <1>9, <1>12, <1>14, <1>17, <1>18, <1>19

-----------------------------------------------------------------------------
(* The frame of the joiner *)

\* A checkpoint is complete, a snapshot is shown, or the joiner is as it was.
Completed(phase, a, m, b) ==
  /\ Completes(m)
  /\ b.j.have /\ b.j.base = m.id /\ b.j.epoch = m.epoch /\ b.j.shown = m.world /\ b.j.seq = 0
  /\ phase = "Active" => b.out = Append(a.out, [t |-> "checkpoint_ack", id |-> m.id])
  /\ phase # "Active" => b.out = a.out

Showed(a, m, b) ==
  /\ m.t = "snapshot" /\ a.j.have /\ m.epoch = a.j.epoch
  /\ b.j.have /\ b.j.base = a.j.base /\ b.j.epoch = a.j.epoch /\ b.j.shown = m.world
  /\ b.j.seq = a.j.seq /\ b.out = a.out

AsBefore(a, b) ==
  /\ b.j.have = a.j.have /\ b.j.base = a.j.base /\ b.j.epoch = a.j.epoch
  /\ b.j.shown = a.j.shown /\ b.j.seq = a.j.seq
  /\ b.out = a.out \/ b.out = Append(a.out, Msg("result_ack"))

JoinStep(phase, a, m, b) ==
  /\ Completed(phase, a, m, b) \/ Showed(a, m, b) \/ AsBefore(a, b)
  /\ b.j.acted = a.j.acted
  /\ b.screen = "Out" => a.screen = "Out"

LEMMA JoinTookIs ==
  ASSUME NEW phase, NEW a \in Seats, NEW m \in Told
  PROVE  JoinStep(phase, a, m, JoinTook(phase, a, m))
<1> DEFINE b == JoinTook(phase, a, m)
<1> SUFFICES JoinStep(phase, a, m, b)
  OBVIOUS
<1>1. b = JoinReceive(phase = "Active", a, m)
  BY DEF JoinTook
<1>2. CASE m.t = "chunk"
  <2>1. m \in Chunks
    BY <1>2, Kinds
  <2>2. b = ReceiveChunk(a, phase = "Active", m)
    BY <1>1, <1>2 DEF JoinReceive
  <2>3. CASE m.i = 0
    <3>1. b = [a EXCEPT !.j.part = m.id]
      BY <2>2, <2>3 DEF ReceiveChunk
    <3> HIDE DEF b
    <3> QED
      BY <3>1 DEF JoinStep, AsBefore, Seats, Joiners
  <2>4. CASE m.i = 1 /\ m.id = a.j.part
    <3> DEFINE c == [a EXCEPT !.j = [@ EXCEPT !.have = TRUE, !.base = m.id, !.epoch = m.epoch,
                                              !.shown = m.world, !.seq = 0, !.part = 0],
                              !.screen = IF @ = "Wait" THEN "Play" ELSE @]
               w == [t |-> "checkpoint_ack", id |-> m.id]
    <3>1. b = IF phase = "Active" THEN [c EXCEPT !.out = Append(@, w)] ELSE c
      <4>1. b = Answer(c, phase = "Active", w)
        BY <2>2, <2>4 DEF ReceiveChunk
      <4> HIDE DEF b, c, w
      <4> QED
        BY <4>1 DEF Answer
    <3>2. /\ c.j.have /\ c.j.base = m.id /\ c.j.epoch = m.epoch /\ c.j.shown = m.world
          /\ c.j.seq = 0 /\ c.j.acted = a.j.acted /\ c.out = a.out
          /\ c.screen = "Out" => a.screen = "Out"
      BY DEF Seats, Joiners
    <3>3. c \in [j: Joiners, screen: Screens, out: Seq(Sent)]
      <4>1. "Play" \in Screens /\ 0 \in Nat /\ m.id \in Nat /\ m.epoch \in Nat /\ m.world \in Nat
        BY <2>1 DEF Chunks, Screens
      <4>2. [a.j EXCEPT !.have = TRUE, !.base = m.id, !.epoch = m.epoch,
                        !.shown = m.world, !.seq = 0, !.part = 0] \in Joiners
        BY <4>1 DEF Seats, Joiners
      <4> QED
        BY <4>1, <4>2 DEF Seats
    <3> HIDE DEF c
    <3>4. /\ b.j = c.j /\ b.screen = c.screen
          /\ phase = "Active" => b.out = Append(a.out, w)
          /\ phase # "Active" => b.out = a.out
      <4> HIDE DEF b, w
      <4> QED
        BY <3>1, <3>2, <3>3
    <3> HIDE DEF b
    <3>5. Completed(phase, a, m, b)
      BY <1>2, <2>4, <3>2, <3>4 DEF Completed, Completes
    <3> QED
      BY <3>2, <3>4, <3>5 DEF JoinStep
  <2>5. CASE m.i = 1 /\ m.id # a.j.part
    <3>1. b = a
      BY <2>2, <2>5 DEF ReceiveChunk
    <3> QED
      BY <3>1 DEF JoinStep, AsBefore
  <2> QED
    BY <2>1, <2>3, <2>4, <2>5 DEF Chunks
<1>3. CASE m.t = "snapshot"
  <2>1. b = ReceiveSnapshot(a, m)
    BY <1>1, <1>3 DEF JoinReceive
  <2>2. CASE a.j.have /\ OfFloor(a.j, m) /\ m.ack <= a.j.seq
    <3>1. b = [a EXCEPT !.j.shown = m.world]
      BY <2>1, <2>2 DEF ReceiveSnapshot
    <3> HIDE DEF b
    <3> QED
      BY <1>3, <2>2, <3>1 DEF JoinStep, Showed, OfFloor, Seats, Joiners
  <2>3. CASE ~(a.j.have /\ OfFloor(a.j, m) /\ m.ack <= a.j.seq)
    <3>1. b = a
      BY <2>1, <2>3 DEF ReceiveSnapshot
    <3> QED
      BY <3>1 DEF JoinStep, AsBefore
  <2> QED
    BY <2>2, <2>3
<1>4. CASE m.t = "run_ended"
  <2> DEFINE c == [a EXCEPT !.j.ended = TRUE, !.screen = IF a.j.ended THEN @ ELSE "Over"]
  <2>1. b = [c EXCEPT !.out = Append(@, Msg("result_ack"))]
    BY <1>1, <1>4 DEF JoinReceive, Answer
  <2>2. c \in Seats /\ c.out = a.out /\ (c.screen = "Out" => a.screen = "Out")
        /\ c.j.have = a.j.have /\ c.j.base = a.j.base /\ c.j.epoch = a.j.epoch
        /\ c.j.shown = a.j.shown /\ c.j.seq = a.j.seq /\ c.j.acted = a.j.acted
    BY DEF Seats, Joiners, Screens
  <2> HIDE DEF c, b
  <2>3. b.j = c.j /\ b.screen = c.screen /\ b.out = Append(a.out, Msg("result_ack"))
    BY <2>1, <2>2 DEF Seats
  <2> QED
    BY <2>2, <2>3 DEF JoinStep, AsBefore
<1>5. CASE m.t \notin {"chunk", "snapshot", "run_ended"}
  <2>1. b = a
    BY <1>1, <1>5 DEF JoinReceive
  <2> QED
    BY <2>1 DEF JoinStep, AsBefore
<1> QED
  BY <1>2, <1>3, <1>4, <1>5

\* Each message of the frame takes such a step, or none at all.
LEMMA JoinSteps ==
  ASSUME TypeOK, NEW n \in 0..Len(down["Join"]), NEW I, NEW R, JoinReads(n, I, R), NEW k \in 1..n
  PROVE  /\ down["Join"][k] \in Told /\ R[k - 1] \in Seats /\ R[k] \in Seats
         /\ JoinStep(I[n].phase, R[k - 1], down["Join"][k], R[k])
<1>1. down["Join"] \in Seq(Told) /\ n \in Nat /\ n <= Len(down["Join"])
  BY Parts DEF Roles
<1>2. down["Join"][k] \in Told /\ R[k - 1] \in Seats /\ R[k] \in Seats
  BY <1>1 DEF JoinReads
<1>3. R[k] = JoinTook(I[n].phase, R[k - 1], down["Join"][k]) \/ R[k] = R[k - 1]
  BY DEF JoinReads
<1>4. CASE R[k] = JoinTook(I[n].phase, R[k - 1], down["Join"][k])
  BY <1>2, <1>4, JoinTookIs
<1>5. CASE R[k] = R[k - 1]
  BY <1>2, <1>5 DEF JoinStep, AsBefore
<1> QED
  BY <1>2, <1>3, <1>4, <1>5

Answers(a) == \A i \in DOMAIN a.out : a.out[i].t \in {"checkpoint_ack", "result_ack"}

LEMMA JoinAnswers ==
  ASSUME TypeOK, NEW n \in 0..Len(down["Join"]), NEW I, Trail("Join", n, I),
         NEW R, JoinReads(n, I, R), screen["Join"] # "Out"
  PROVE  \A k \in 0..n : Answers(R[k]) /\ R[k].screen # "Out"
<1> DEFINE S == {k \in 0..n : Answers(R[k]) /\ R[k].screen # "Out"}
<1>1. n \in Nat /\ "Join" \in Roles
  BY Parts DEF Roles
<1>2. 0 \in S
  <2>1. I[n].events \in Seq(Events) /\ Seat \in Seats
    BY <1>1, SeatTyped DEF Trail, Ins
  <2>2. R[0].out = Seat.out /\ (R[0].screen = "Out" => Seat.screen = "Out")
    BY <2>1, JoinToldIs DEF JoinReads
  <2> QED
    BY <1>1, <2>2 DEF Seat, Answers
<1>3. ASSUME NEW k \in 0..(n - 1), k \in S PROVE k + 1 \in S
  <2> DEFINE m == down["Join"][k + 1]
  <2>1. k + 1 \in 1..n /\ (k + 1) - 1 = k /\ k + 1 \in 0..n
    BY <1>1
  <2>2. m \in Told /\ R[k] \in Seats /\ R[k + 1] \in Seats /\ JoinStep(I[n].phase, R[k], m, R[k + 1])
    BY <2>1, JoinSteps
  <2> HIDE DEF m
  <2>3. \/ R[k + 1].out = R[k].out
        \/ R[k + 1].out = Append(R[k].out, Msg("result_ack"))
        \/ R[k + 1].out = Append(R[k].out, [t |-> "checkpoint_ack", id |-> m.id])
    BY <2>2 DEF JoinStep, Completed, Showed, AsBefore
  <2>4. R[k + 1].screen # "Out"
    BY <1>3, <2>2 DEF JoinStep
  <2>5. R[k].out \in Seq(Sent)
    BY <2>2 DEF Seats
  <2>6. Answers(R[k + 1])
    <3> DEFINE o == R[k].out
               p == R[k + 1].out
    <3>1. o \in Seq(Sent) /\ \A i \in DOMAIN o : o[i].t \in {"checkpoint_ack", "result_ack"}
      BY <1>3, <2>5 DEF Answers
    <3>2. p = o \/ \E w : w.t \in {"checkpoint_ack", "result_ack"} /\ p = Append(o, w)
      <4>1. Msg("result_ack").t = "result_ack"
        BY DEF Msg
      <4>2. [t |-> "checkpoint_ack", id |-> m.id].t = "checkpoint_ack"
        OBVIOUS
      <4> DEFINE w1 == Msg("result_ack")
                 w2 == [t |-> "checkpoint_ack", id |-> m.id]
      <4>3. p = o \/ p = Append(o, w1) \/ p = Append(o, w2)
        BY <2>3
      <4> HIDE DEF w1, w2, o, p
      <4>4. w1.t \in {"checkpoint_ack", "result_ack"} /\ w2.t \in {"checkpoint_ack", "result_ack"}
        BY <4>1, <4>2 DEF w1, w2
      <4> QED
        BY <4>3, <4>4
    <3> HIDE DEF o, p
    <3>3. \A i \in DOMAIN p : p[i].t \in {"checkpoint_ack", "result_ack"}
      BY <3>1, <3>2
    <3> QED
      BY <3>3 DEF p, Answers
  <2> QED
    BY <2>1, <2>4, <2>6
<1> HIDE DEF S
<1>4. \A k \in 0..n : k \in S
  BY <1>1, <1>2, <1>3, Climbs
<1> QED
  BY <1>4 DEF S

\* A session that is active was so before the frame, or it came back.
LEMMA ActiveAgain ==
  ASSUME TypeOK, NEW r \in Roles, NEW n \in 0..Len(down[r]), NEW I, Trail(r, n, I),
         I[n].phase = "Active"
  PROVE  \/ session[r].phase = "Active"
         \/ \E i \in DOMAIN I[n].events : I[n].events[i] \in {"reconnected", "started"}
<1> DEFINE Good(k) == \/ session[r].phase = "Active"
                      \/ \E i \in DOMAIN I[k].events : I[k].events[i] \in {"reconnected", "started"}
           S == {k \in 0..n : I[k].phase = "Active" => Good(k)}
<1>1. n \in Nat /\ down[r] \in Seq(Told) /\ n <= Len(down[r])
  BY Parts
<1>2. 0 \in S
  BY <1>1 DEF Trail, Begins
<1>3. ASSUME NEW k \in 0..(n - 1), k \in S PROVE k + 1 \in S
  <2> DEFINE m == down[r][k + 1]
             x == I[k]
             y == I[k + 1]
  <2>1. k + 1 \in 1..n /\ (k + 1) - 1 = k /\ k + 1 \in 0..n
    BY <1>1
  <2>2. m \in Told /\ x \in Ins /\ y \in Ins /\ y = Took(x, m)
    BY <1>1, <2>1 DEF Trail
  <2>3. x.phase = "Active" => Good(k)
    BY <1>3
  <2> SUFFICES ASSUME y.phase = "Active" PROVE Good(k + 1)
    BY <2>1
  <2>4. x.phase = "Active" \/ m.t \in {"welcome", "start"}
    <3> HIDE DEF m, x, y
    <3> QED
      BY <2>2, PhaseMoves
  <2>5. x.events \in Seq(Events) /\ (y.events = x.events \/ \E e \in {"reconnected", "started", m.t} : y.events = Append(x.events, e))
    <3>1. m.t \in Traffic \cup {"welcome", "start", "error", "partner_disconnected",
                                 "partner_rejoined", "partner_left"}
      BY <2>2 DEF Told, Carried, Chunks, Pulses, Acks, Intents, Ends, Welcomes, Notices, Traffic
    <3> HIDE DEF m, x, y
    <3>2. CASE m.t \in Traffic \cup {"error"}
      BY <2>2, <3>2, TookStep DEF Ins
    <3>3. CASE m.t = "welcome"
      <4>1. y.events = Append(x.events, "reconnected")
        BY <2>2, <3>3, TookStep
      <4> QED
        BY <2>2, <4>1 DEF Ins
    <3>4. CASE m.t = "start"
      <4>1. y.events = Append(x.events, "started")
        BY <2>2, <3>4, TookStep
      <4> QED
        BY <2>2, <4>1 DEF Ins
    <3>5. CASE m.t \in {"partner_disconnected", "partner_rejoined", "partner_left"}
      <4>1. y.events = Append(x.events, m.t)
        BY <2>2, <3>5, TookStep
      <4> QED
        BY <2>2, <4>1 DEF Ins
    <3> QED
      BY <3>1, <3>2, <3>3, <3>4, <3>5
  <2>6. CASE x.phase = "Active"
    <3>1. Good(k)
      BY <2>3, <2>6
    <3>2. \A i \in DOMAIN x.events : i \in DOMAIN y.events /\ y.events[i] = x.events[i]
      <4> DEFINE s == x.events
                 t == y.events
      <4>1. s \in Seq(Events) /\ (t = s \/ \E e : t = Append(s, e))
        BY <2>5
      <4> HIDE DEF m, x, y, s, t
      <4>4. \A i \in DOMAIN s : i \in DOMAIN t /\ t[i] = s[i]
        BY <4>1, AppendKeeps
      <4> QED
        BY <4>4 DEF s, t
    <3> QED
      BY <3>1, <3>2
  <2>7. CASE m.t = "welcome"
    <3> HIDE DEF m, x, y
    <3>1. y.events = Append(x.events, "reconnected") /\ x.events \in Seq(Events)
      BY <2>2, <2>7, TookStep DEF Ins
    <3>2. Len(x.events) + 1 \in DOMAIN y.events /\ y.events[Len(x.events) + 1] = "reconnected"
      BY <3>1
    <3> QED
      BY <3>2 DEF y
  <2>8. CASE m.t = "start"
    <3> HIDE DEF m, x, y
    <3>1. y.events = Append(x.events, "started") /\ x.events \in Seq(Events)
      BY <2>2, <2>8, TookStep DEF Ins
    <3>2. Len(x.events) + 1 \in DOMAIN y.events /\ y.events[Len(x.events) + 1] = "started"
      BY <3>1
    <3> QED
      BY <3>2 DEF y
  <2> QED
    BY <2>4, <2>6, <2>7, <2>8
<1> HIDE DEF S
<1>4. \A k \in 0..n : k \in S
  BY <1>1, <1>2, <1>3, Climbs
<1>5. n \in 0..n
  BY <1>1
<1> QED
  BY <1>4, <1>5 DEF S

\* The joiner's frame, message by message.
JoinFramed(n, I, R) ==
  /\ Trail("Join", n, I) /\ JoinReads(n, I, R) /\ Readable("Join", n)
  /\ FrameEnds("Join", n, I[n], R[n].screen, R[n].out, host, R[n].j)
  /\ UNCHANGED <<faults, history>>

LEMMA JoinFrameIs ==
  ASSUME TypeOK, NEW n \in 1..Len(down["Join"]), JoinerFrame(n)
  PROVE  \E I, R : JoinFramed(n, I, R)
<1>1. n \in 0..Len(down["Join"]) /\ n \in Nat /\ "Join" \in Roles
  BY DEF Roles
<1>2. PICK I : Trail("Join", n, I)
  BY <1>1, TrailExists
<1>3. PICK R : JoinReads(n, I, R)
  BY <1>1, <1>2, JoinReadsExists
<1>4. Goes("Join", n) = I[n]
  BY <1>1, <1>2 DEF Trail
<1> DEFINE a == JoinHeard(I[n].phase, JoinTold(I[n].phase, Seat, I[n].events), I[n].inbox)
<1>5. a = R[n]
  BY <1>3 DEF JoinReads
<1>6. /\ Readable("Join", n) /\ UNCHANGED <<faults, history>>
      /\ FrameEnds("Join", n, I[n], a.screen, a.out, host, a.j)
  BY <1>4 DEF JoinerFrame
<1>7. JoinFramed(n, I, R)
  <2> HIDE DEF a
  <2> QED
    BY <1>2, <1>3, <1>5, <1>6 DEF JoinFramed
<1> QED
  BY <1>7

\* A joiner that leaves.
LEMMA JoinFrameLeaves ==
  ASSUME Wires, NEW n, NEW I, NEW R, JoinFramed(n, I, R), Leaves(I[n].phase, R[n].j.ended)
  PROVE  Wires' /\ Network
<1>1. Departs("Join", up["Join"]) /\ UNCHANGED <<faults, history>>
  BY DEF JoinFramed, FrameEnds
<1>2. "Join" \in Roles
  BY DEF Roles
<1> QED
  BY <1>1, <1>2, DepartsStep

\* What the joiner's frame does when it stays.
LEMMA JoinFrameKeeps ==
  ASSUME Wires, NEW n \in 1..Len(down["Join"]), NEW I, NEW R, JoinFramed(n, I, R),
         ~Leaves(I[n].phase, R[n].j.ended)
  PROVE  /\ Wires' /\ host' = host /\ join' = R[n].j /\ history' = history
         /\ (Playing' <=> Playing) /\ (Passing' <=> Passing)
         /\ screen["Join"] # "Out" /\ screen'["Join"] # "Out" /\ screen'["Host"] = screen["Host"]
         /\ Len(down'["Join"]) = Len(down["Join"]) - n /\ down'["Host"] = down["Host"]
         /\ \A i \in 1..(Len(down["Join"]) - n) : down'["Join"][i] = down["Join"][n + i]
         /\ Line("Host")' = Line("Host")
         /\ sock["Join"] = "open" => Line("Join")' = Line("Join") \o R[n].out
         /\ sock["Join"] # "open" => Line("Join")' = Line("Join")
         /\ Live' <=> I[n].phase = "Active" /\ sock["Join"] = "open" /\ R[n].j.have
<1>1. /\ "Host" \in Roles /\ "Join" \in Roles /\ Other("Host") = "Join" /\ Other("Join") = "Host"
      /\ down["Join"] \in Seq(Told) /\ n \in Nat /\ n <= Len(down["Join"]) /\ TypeOK
      /\ screen \in [Roles -> Screens] /\ session \in [Roles -> [phase: Phases, partner: BOOLEAN]]
      /\ n \in 0..Len(down["Join"]) /\ n \in 0..n
  BY Parts DEF Roles, Other, Wires, TypeOK
<1>2. /\ Sends("Join", R[n].out)
      /\ down' = [down EXCEPT !["Join"] = SubSeq(@, n + 1, Len(@))]
      /\ session' = [session EXCEPT !["Join"] = [phase |-> I[n].phase, partner |-> I[n].partner]]
      /\ screen' = [screen EXCEPT !["Join"] = R[n].screen]
      /\ host' = host /\ join' = R[n].j
      /\ UNCHANGED <<relay, sock, stale, faults, history>>
  BY DEF JoinFramed, FrameEnds
<1>3. Trail("Join", n, I) /\ JoinReads(n, I, R) /\ Readable("Join", n)
  BY DEF JoinFramed
<1>4. I[n] \in Ins /\ R[n] \in Seats
  BY <1>1, <1>3 DEF Trail, JoinReads
<1>5. screen["Join"] # "Out"
  BY <1>3 DEF Readable, Wires, Joining
<1>6. Answers(R[n]) /\ R[n].screen # "Out"
  BY <1>1, <1>3, <1>5, JoinAnswers
<1>7. /\ session'["Join"].phase = I[n].phase /\ session'["Host"] = session["Host"]
      /\ session' \in [Roles -> [phase: Phases, partner: BOOLEAN]]
  BY <1>1, <1>2, <1>4 DEF Ins
<1>8. screen'["Join"] = R[n].screen /\ screen'["Host"] = screen["Host"] /\ screen' \in [Roles -> Screens]
  BY <1>1, <1>2, <1>4 DEF Seats
<1>9. /\ up' \in [Roles -> Seq(Sent)] /\ down' \in [Roles -> Seq(Told)]
      /\ (\A p \in Roles : Wired(p)')
      /\ Len(down'["Join"]) = Len(down["Join"]) - n /\ down'["Host"] = down["Host"]
      /\ \A i \in 1..(Len(down["Join"]) - n) : down'["Join"][i] = down["Join"][n + i]
      /\ sock["Join"] = "open" => Line("Join")' = Line("Join") \o R[n].out
      /\ sock["Join"] # "open" => Line("Join")' = Line("Join")
      /\ Line("Host")' = Line("Host")
  <2> DEFINE e == R[n].out
  <2>1. Framed("Join", n, e) /\ e \in Seq(Sent) /\ \A i \in DOMAIN e : e[i].t # "hello"
    <3>1. \A i \in DOMAIN e : e[i].t # "hello"
      BY <1>6 DEF Answers
    <3> QED
      BY <1>2, <1>4, <3>1 DEF Framed, Seats
  <2> HIDE DEF e
  <2>2. /\ up' \in [Roles -> Seq(Sent)] /\ down' \in [Roles -> Seq(Told)]
        /\ (\A p \in Roles : Wired(p)')
        /\ Len(down'["Join"]) = Len(down["Join"]) - n /\ down'["Host"] = down["Host"]
        /\ \A i \in 1..(Len(down["Join"]) - n) : down'["Join"][i] = down["Join"][n + i]
        /\ sock["Join"] = "open" => Line("Join")' = Line("Join") \o e
        /\ sock["Join"] # "open" => Line("Join")' = Line("Join")
        /\ Line("Host")' = Line("Host")
    BY <1>1, <1>7, <2>1, FramedTypes
  <2> QED
    BY <2>2 DEF e
<1>10. TypeOK'
  BY <1>1, <1>2, <1>4, <1>7, <1>8, <1>9 DEF TypeOK, Seats
<1>11. Hosting'
  <2>1. down'["Host"] = down["Host"] /\ screen'["Host"] = screen["Host"]
    BY <1>8, <1>9
  <2> QED
    BY <1>1, <1>2, <1>7, <2>1, HostingKept
<1>12. Joining'
  BY <1>6, <1>8 DEF Joining
<1>13. Wires'
  BY <1>9, <1>10, <1>11, <1>12 DEF Wires
<1>14. /\ (Playing' <=> Playing) /\ (Passing' <=> Passing)
       /\ Live' <=> I[n].phase = "Active" /\ sock["Join"] = "open" /\ R[n].j.have
  BY <1>2, <1>7, <1>8 DEF Playing, Passing, Live
<1> QED
  BY <1>2, <1>5, <1>6, <1>8, <1>9, <1>13, <1>14

-----------------------------------------------------------------------------
(* What the players send of their own accord *)

\* Of a player that says something, and does nothing else to the network.
LEMMA Speaks ==
  ASSUME Wires, NEW r \in Roles, NEW msgs \in Seq(Sent), \A i \in DOMAIN msgs : msgs[i].t # "hello",
         session[r].phase # "Reconnecting", Sends(r, msgs), UNCHANGED <<relay, sock, stale, down, session>>
  PROVE  /\ up' \in [Roles -> Seq(Sent)] /\ (\A p \in Roles : Wired(p)')
         /\ sock[r] = "open" => Line(r)' = Line(r) \o msgs
         /\ sock[r] # "open" => Line(r)' = Line(r)
         /\ Line(Other(r))' = Line(Other(r))
<1>1. down[r] \in Seq(Told)
  BY Parts DEF Wires
<1>2. SubSeq(down[r], 0 + 1, Len(down[r])) = down[r] /\ 0 \in 0..Len(down[r])
  BY <1>1
<1>3. down'[r] = SubSeq(down[r], 0 + 1, Len(down[r])) /\ down'[Other(r)] = down[Other(r)]
      /\ session'[Other(r)] = session[Other(r)]
  BY <1>2
<1> QED
  BY <1>2, <1>3, Sending

LEMMA BaselineTyped ==
  ASSUME TypeOK, NEW h \in Hosts
  PROVE  /\ Baseline(h) \in Hosts /\ Fresh(Baseline(h)) /\ Baseline(h).ckpt = Latest
         /\ Baseline(h).epoch = h.epoch /\ Baseline(h).world = h.world
         /\ Baseline(h).ended = h.ended /\ Latest \in Nat /\ Latest = history.ids + 1
<1>1. Latest \in Nat /\ Latest = history.ids + 1
  BY DEF TypeOK, Latest
<1>2. <<>> \in Seq(Steps) /\ <<>> \in Seq(Deeds)
  BY EmptySeq
<1> HIDE DEF Latest
<1>3. Baseline(h) \in Hosts /\ Baseline(h).ckpt = Latest
      /\ Baseline(h).epoch = h.epoch /\ Baseline(h).world = h.world /\ Baseline(h).ended = h.ended
  BY <1>1, <1>2 DEF Baseline, Cleared, Hosts
<1>4. Fresh(Baseline(h))
  BY <1>1, <1>2 DEF Baseline, Cleared, Hosts, Fresh
<1> QED
  BY <1>1, <1>3, <1>4

LEMMA ClearedTyped ==
  ASSUME NEW h \in Hosts
  PROVE  /\ Cleared(Unsynced(h)) \in Hosts /\ Steady(Cleared(Unsynced(h)), h)
         /\ ~Cleared(Unsynced(h)).synced /\ Cleared(Unsynced(h)).cmds = <<>>
         /\ Cleared(Unsynced(h)).acts = <<>>
         /\ Cleared(Unsynced(h)).resolved = h.resolved /\ Cleared(Unsynced(h)).seen = h.seen
         /\ Cleared(Unsynced(h)).seenAct = h.seenAct
<1>1. <<>> \in Seq(Steps) /\ <<>> \in Seq(Deeds)
  BY EmptySeq
<1> QED
  BY <1>1 DEF Cleared, Unsynced, Hosts, Steady

\* The world as the host describes it, and nothing else of the stream.
Tells(msgs, h) ==
  /\ \A i \in DOMAIN msgs : /\ msgs[i].t \in {"chunk", "snapshot", "run_ended"}
                            /\ Worldly(msgs[i]) => msgs[i].epoch = h.epoch /\ msgs[i].world = h.world
                            /\ Completes(msgs[i]) => msgs[i].id = Latest
  /\ \A j \in DOMAIN msgs : \A i \in 1..(j - 1) : ~(Completes(msgs[i]) /\ Completes(msgs[j]))

\* They complete a checkpoint.
Whole(s) == \E i \in DOMAIN s : Completes(s[i])

LEMMA QueuedIs ==
  ASSUME TypeOK, NEW h \in Hosts, NEW k \in 0..2
  PROVE  /\ Queued(h, k) \in Seq(Sent) /\ Len(Queued(h, k)) = k /\ Tells(Queued(h, k), h)
         /\ Whole(Queued(h, k)) => k = 2
<1> DEFINE c(i) == Chunk(Latest, i, h)
           q == <<c(0), c(1)>>
<1>1. Latest \in Nat
  BY BaselineTyped
<1> HIDE DEF Latest
<1>2. \A i \in {0, 1} : c(i) \in Sent /\ c(i).t = "chunk" /\ c(i).i = i /\ c(i).id = Latest
                        /\ c(i).epoch = h.epoch /\ c(i).world = h.world
  BY <1>1 DEF Chunk, Sent, Carried, Chunks, Hosts
<1> HIDE DEF c
<1>3. q \in Seq(Sent) /\ Len(q) = 2 /\ q[1] = c(0) /\ q[2] = c(1)
  BY <1>2
<1>4. Queued(h, k) = SubSeq(q, 1, k)
  BY DEF Queued, c
<1> HIDE DEF q
<1>5. Queued(h, k) \in Seq(Sent) /\ Len(Queued(h, k)) = k /\ \A i \in 1..k : Queued(h, k)[i] = q[i]
  BY <1>3, <1>4
<1>6. DOMAIN Queued(h, k) = 1..k
  BY <1>5
<1>7. \A i \in 1..k : i \in {1, 2}
  OBVIOUS
<1>8. ASSUME NEW i \in DOMAIN Queued(h, k)
      PROVE  /\ Queued(h, k)[i].t = "chunk"
             /\ Queued(h, k)[i].epoch = h.epoch /\ Queued(h, k)[i].world = h.world
             /\ Queued(h, k)[i].id = Latest /\ (Completes(Queued(h, k)[i]) => i = 2)
  <2>1. i \in {1, 2} /\ Queued(h, k)[i] = q[i]
    BY <1>5, <1>6, <1>7
  <2> QED
    BY <1>2, <1>3, <2>1 DEF Completes
<1>9. ASSUME NEW j \in DOMAIN Queued(h, k), NEW i \in 1..(j - 1)
      PROVE  ~(Completes(Queued(h, k)[i]) /\ Completes(Queued(h, k)[j]))
  <2>1. i \in DOMAIN Queued(h, k) /\ i # j
    BY <1>6
  <2> QED
    BY <1>8, <2>1
<1> QED
  BY <1>5, <1>6, <1>8, <1>9 DEF Tells, Whole

\* Behind them there is nothing that completes a checkpoint.
LEMMA TellsMore ==
  ASSUME NEW s \in Seq(Sent), NEW m \in Sent, NEW h, Tells(s, h), m.t \in {"snapshot", "run_ended"},
         m.t = "snapshot" => m.epoch = h.epoch /\ m.world = h.world
  PROVE  /\ Append(s, m) \in Seq(Sent) /\ Tells(Append(s, m), h)
         /\ Whole(Append(s, m)) => Whole(s)
<1> DEFINE u == Append(s, m)
<1>1. u \in Seq(Sent) /\ Len(u) = Len(s) + 1 /\ u[Len(s) + 1] = m /\ \A i \in 1..Len(s) : u[i] = s[i]
  OBVIOUS
<1>2. DOMAIN u = 1..(Len(s) + 1) /\ DOMAIN s = 1..Len(s) /\ Len(s) \in Nat
  BY <1>1
<1> HIDE DEF u
<1>3. ~Completes(m) /\ (Worldly(m) => m.t = "snapshot")
  BY DEF Completes, Worldly
<1>4. ASSUME NEW i \in DOMAIN u
      PROVE  /\ u[i].t \in {"chunk", "snapshot", "run_ended"}
             /\ Worldly(u[i]) => u[i].epoch = h.epoch /\ u[i].world = h.world
             /\ Completes(u[i]) => u[i].id = Latest /\ i \in DOMAIN s /\ u[i] = s[i]
  <2>1. (i \in DOMAIN s /\ u[i] = s[i]) \/ u[i] = m
    BY <1>1, <1>2
  <2> QED
    BY <1>3, <2>1 DEF Tells
<1>5. ASSUME NEW j \in DOMAIN u, NEW i \in 1..(j - 1) PROVE ~(Completes(u[i]) /\ Completes(u[j]))
  <2>1. i \in DOMAIN u
    BY <1>2
  <2> QED
    BY <1>4, <2>1 DEF Tells
<1>6. Tells(u, h) /\ (Whole(u) => Whole(s))
  BY <1>4, <1>5 DEF Tells, Whole
<1> QED
  BY <1>1, <1>6 DEF u

LEMMA PulseIs ==
  ASSUME NEW h \in Hosts
  PROVE  Pulse(h) \in Sent /\ Pulse(h).t = "snapshot" /\ Pulse(h).epoch = h.epoch /\ Pulse(h).world = h.world
BY DEF Pulse, Sent, Carried, Pulses, Hosts

-----------------------------------------------------------------------------
(* The actions of the host *)

\* What is queued stays in order, and is read as far as it was.
KeepsUp(h, acted, g, after) ==
  /\ Fresh(h) => Fresh(g)
  /\ Queue(h, acted) => Queue(g, after)
  /\ \A x \in Marks : Read(h, acted, x) => Read(g, after, x)

\* The host sends msgs of a world it is in, ids and floors only grow, and what
\* it does not begin anew it keeps up.
Says(msgs, h, past) ==
  /\ msgs \in Seq(Sent) /\ Tells(msgs, h)
  /\ (session["Host"].phase = "Active" /\ Sends("Host", msgs)) \/ up' = up
  /\ host' \in Hosts /\ history' \in [ids: Nat, floors: Seq(Nat), acted: Nat] /\ faults' \in Nat
  /\ history'.floors = past.floors /\ history'.acted = past.acted
  /\ host'.epoch = h.epoch /\ host'.world = h.world /\ host'.ended = h.ended
  /\ history'.ids \in {history.ids, Latest}
  /\ Whole(msgs) => history'.ids = Latest /\ host'.ckpt = Latest /\ Fresh(host')
  /\ \/ host'.ckpt = Latest /\ history'.ids = Latest /\ Fresh(host')
     \/ host'.ckpt = h.ckpt /\ KeepsUp(h, past.acted, host', past.acted)

LEMMA FreshReads ==
  ASSUME NEW h, Fresh(h), NEW acted
  PROVE  /\ Queue(h, acted)
         /\ \A x \in Marks : acted <= x.act => Read(h, acted, x)
BY DEF Fresh, Queue, Read, Marks

LEMMA ClearedKeepsUp ==
  ASSUME NEW h \in Hosts, NEW acted \in Nat
  PROVE  KeepsUp(h, acted, Cleared(Unsynced(h)), acted)
<1> DEFINE g == Cleared(Unsynced(h))
<1>1. /\ ~g.synced /\ g.cmds = <<>> /\ g.acts = <<>>
      /\ g.resolved = h.resolved /\ g.seen = h.seen /\ g.seenAct = h.seenAct
  BY ClearedTyped
<1> SUFFICES KeepsUp(h, acted, g, acted)
  OBVIOUS
<1> HIDE DEF g
<1>2. Fresh(h) => Fresh(g)
  BY <1>1 DEF Fresh
<1>3. Queue(g, acted)
  BY <1>1 DEF Queue
<1>4. ASSUME NEW x \in Marks, Read(h, acted, x) PROVE Read(g, acted, x)
  BY <1>1, <1>4 DEF Read
<1> QED
  BY <1>2, <1>3, <1>4 DEF KeepsUp

LEMMA SteadyKeepsUp ==
  ASSUME NEW h, NEW acted
  PROVE  KeepsUp(h, acted, h, acted)
BY DEF KeepsUp

LEMMA AttemptIs ==
  ASSUME TypeOK, NEW k \in 0..2, NEW past \in [ids: Nat, floors: Seq(Nat), acted: Nat], Attempt(k, past)
  PROVE  /\ history' \in [ids: Nat, floors: Seq(Nat), acted: Nat] /\ faults' \in Nat
         /\ history'.floors = past.floors /\ history'.acted = past.acted /\ history'.ids = Latest
<1>1. Latest \in Nat /\ faults \in Nat
  BY BaselineTyped DEF TypeOK
<1>2. history' = [past EXCEPT !.ids = Latest] /\ faults' \in {faults, faults + 1}
  BY DEF Attempt
<1> HIDE DEF Latest
<1> QED
  BY <1>1, <1>2

LEMMA TriedIs ==
  ASSUME TypeOK, NEW h \in Hosts, NEW k \in 0..2, NEW g, g = Tried(h, k)
  PROVE  /\ g \in Hosts /\ g.epoch = h.epoch /\ g.world = h.world /\ g.ended = h.ended
         /\ \/ g.ckpt = Latest /\ Fresh(g)
            \/ g = h /\ k # 2
<1>1. CASE k = 2
  <2>1. g = Baseline(h)
    BY <1>1 DEF Tried
  <2> QED
    BY <2>1, BaselineTyped
<1>2. CASE k # 2
  BY <1>2 DEF Tried
<1> QED
  BY <1>1, <1>2

LEMMA TellsPulse ==
  ASSUME TypeOK, NEW s \in Seq(Sent), NEW h \in Hosts, NEW g \in Hosts, Tells(s, h),
         g.epoch = h.epoch, g.world = h.world,
         NEW more, more \in {<<>>, <<Msg("run_ended")>>}
  PROVE  /\ s \o <<Pulse(g)>> \o more \in Seq(Sent) /\ Tells(s \o <<Pulse(g)>> \o more, h)
         /\ Whole(s \o <<Pulse(g)>> \o more) => Whole(s)
<1> DEFINE p == Pulse(g)
           e == Msg("run_ended")
           u == Append(s, p)
<1>1. p \in Sent /\ p.t = "snapshot" /\ p.epoch = h.epoch /\ p.world = h.world
  BY PulseIs
<1>2. e \in Sent /\ e.t = "run_ended"
  BY Words
<1> HIDE DEF p, e
<1>3. u \in Seq(Sent) /\ Tells(u, h) /\ (Whole(u) => Whole(s))
  BY <1>1, TellsMore
<1>4. Append(u, e) \in Seq(Sent) /\ Tells(Append(u, e), h) /\ (Whole(Append(u, e)) => Whole(u))
  <2> HIDE DEF u
  <2> QED
    BY <1>2, <1>3, TellsMore
<1>5. s \o <<p>> = u
  BY AppendIsConcat
<1>6. u \o <<e>> = Append(u, e)
  <2> HIDE DEF u
  <2> QED
    BY <1>3, AppendIsConcat
<1>7. u \o <<>> = u
  <2> HIDE DEF u
  <2> QED
    BY <1>3, ConcatEmptySeq
<1>8. more = <<>> \/ more = <<e>>
  BY DEF e
<1> HIDE DEF u
<1>9. /\ s \o <<p>> \o more \in Seq(Sent) /\ Tells(s \o <<p>> \o more, h)
      /\ Whole(s \o <<p>> \o more) => Whole(s)
  BY <1>3, <1>4, <1>5, <1>6, <1>7, <1>8
<1> QED
  BY <1>9 DEF p

LEMMA SnapshotSays ==
  ASSUME TypeOK, NEW h \in Hosts, NEW past \in [ids: Nat, floors: Seq(Nat), acted: Nat],
         past.ids = history.ids, session["Host"].phase = "Active",
         NEW more, more \in {<<>>, <<Msg("run_ended")>>}, Snapshot(h, past, more)
  PROVE  \E msgs : Says(msgs, h, past)
<1>1. <<>> \in Seq(Sent) /\ Tells(<<>>, h) /\ ~Whole(<<>>)
  BY EmptySeq DEF Tells, Whole
<1>2. CASE h.epoch = h.ckptEpoch
  <2>1. host' = h /\ Sends("Host", <<Pulse(h)>> \o more) /\ history' = past /\ faults' = faults
    BY <1>2 DEF Snapshot
  <2> DEFINE msgs == <<>> \o <<Pulse(h)>> \o more
  <2>2. msgs \in Seq(Sent) /\ Tells(msgs, h) /\ ~Whole(msgs)
    <3> DEFINE s == <<>>
    <3>1. s \in Seq(Sent) /\ Tells(s, h) /\ ~Whole(s)
      BY <1>1
    <3> HIDE DEF s
    <3>2. /\ s \o <<Pulse(h)>> \o more \in Seq(Sent) /\ Tells(s \o <<Pulse(h)>> \o more, h)
          /\ Whole(s \o <<Pulse(h)>> \o more) => Whole(s)
      BY <3>1, TellsPulse
    <3> QED
      BY <3>1, <3>2 DEF s
  <2>3. <<>> \o <<Pulse(h)>> = <<Pulse(h)>>
    <3>1. <<Pulse(h)>> \in Seq(Sent)
      BY PulseIs
    <3> QED
      BY <3>1, ConcatEmptySeq
  <2>4. Sends("Host", msgs)
    BY <2>1, <2>3
  <2>6. KeepsUp(h, past.acted, h, past.acted) /\ faults \in Nat
    BY SteadyKeepsUp DEF TypeOK
  <2> HIDE DEF msgs
  <2>7. Says(msgs, h, past)
    BY <2>1, <2>2, <2>4, <2>6 DEF Says
  <2> QED
    BY <2>7
<1>3. CASE h.epoch # h.ckptEpoch
  <2> DEFINE c == Cleared(Unsynced(h))
  <2>1. PICK k \in 0..2 : /\ Attempt(k, past) /\ host' = Tried(c, k)
                          /\ Sends("Host", Queued(h, k) \o <<Pulse(Tried(c, k))>> \o more)
    BY <1>3 DEF Snapshot
  <2>2. c \in Hosts /\ Steady(c, h) /\ KeepsUp(h, past.acted, c, past.acted)
    BY ClearedTyped, ClearedKeepsUp
  <2> HIDE DEF c
  <2> DEFINE g == Tried(c, k)
  <2>3. /\ g \in Hosts /\ g.epoch = h.epoch /\ g.world = h.world /\ g.ended = h.ended
        /\ (g.ckpt = Latest /\ Fresh(g)) \/ (g = c /\ k # 2)
    <3> HIDE DEF g
    <3>1. g = Tried(c, k)
      BY DEF g
    <3>2. /\ g \in Hosts /\ g.epoch = c.epoch /\ g.world = c.world /\ g.ended = c.ended
          /\ (g.ckpt = Latest /\ Fresh(g)) \/ (g = c /\ k # 2)
      BY <2>2, <3>1, TriedIs
    <3> QED
      BY <2>2, <3>2 DEF Steady
  <2>4. host' = g /\ Sends("Host", Queued(h, k) \o <<Pulse(g)>> \o more)
    BY <2>1
  <2> HIDE DEF g
  <2>5. Queued(h, k) \in Seq(Sent) /\ Tells(Queued(h, k), h) /\ (Whole(Queued(h, k)) => k = 2)
    BY QueuedIs
  <2> DEFINE msgs == Queued(h, k) \o <<Pulse(g)>> \o more
  <2>6. msgs \in Seq(Sent) /\ Tells(msgs, h) /\ (Whole(msgs) => Whole(Queued(h, k)))
    BY <2>3, <2>5, TellsPulse
  <2>7. /\ history' \in [ids: Nat, floors: Seq(Nat), acted: Nat] /\ faults' \in Nat
        /\ history'.floors = past.floors /\ history'.acted = past.acted /\ history'.ids = Latest
    BY <2>1, AttemptIs
  <2> HIDE DEF msgs
  <2>8. Sends("Host", msgs)
    BY <2>4 DEF msgs
  <2>9. \/ host'.ckpt = Latest /\ Fresh(host')
        \/ host'.ckpt = h.ckpt /\ KeepsUp(h, past.acted, host', past.acted) /\ k # 2
    BY <2>2, <2>3, <2>4 DEF Steady
  <2>10. Says(msgs, h, past)
    BY <2>3, <2>4, <2>5, <2>6, <2>7, <2>8, <2>9 DEF Says
  <2> QED
    BY <2>10
<1> QED
  BY <1>2, <1>3

\* The first step is taken or dropped.
Popped(h) == [h EXCEPT !.resolved = Head(h.cmds).seq, !.cmds = Tail(@)]

LEMMA PoppedKeepsUp ==
  ASSUME NEW h \in Hosts, h.cmds # <<>>, NEW acted \in Nat, NEW g,
         g = Popped(h) \/ g = [Popped(h) EXCEPT !.refilling = FALSE]
  PROVE  /\ g \in Hosts /\ Steady(g, h) /\ KeepsUp(h, acted, g, acted)
         /\ (Queue(h, acted) => g.seenAct = h.seenAct)
<1>1. h.cmds \in Seq(Steps) /\ Head(h.cmds) = h.cmds[1] /\ h.cmds[1] \in Steps
      /\ 1 \in DOMAIN h.cmds /\ Len(h.cmds) \in Nat \ {0} /\ DOMAIN h.cmds = 1..Len(h.cmds)
  <2>1. h.cmds \in Seq(Steps)
    BY DEF Hosts
  <2> QED
    BY <2>1, HeadOf
<1>2. /\ Tail(h.cmds) \in Seq(Steps) /\ Len(Tail(h.cmds)) = Len(h.cmds) - 1
      /\ \A i \in 1..(Len(h.cmds) - 1) : Tail(h.cmds)[i] = h.cmds[i + 1]
  BY <1>1, TailOf
<1> DEFINE r2 == Head(h.cmds).seq
           c2 == Tail(h.cmds)
<1>3. r2 \in Nat
  BY <1>1 DEF Steps
<1>4. g = [h EXCEPT !.resolved = r2, !.cmds = c2]
      \/ g = [h EXCEPT !.resolved = r2, !.cmds = c2, !.refilling = FALSE]
  BY DEF Popped
<1>30. c2 \in Seq(Steps)
  BY <1>2
<1> HIDE DEF r2, c2
<1>5. /\ g \in Hosts /\ Steady(g, h) /\ g.resolved = r2 /\ g.cmds = c2 /\ g.synced = h.synced
      /\ g.seen = h.seen /\ g.seenAct = h.seenAct /\ g.acts = h.acts /\ g.ckpt = h.ckpt
  <2>1. CASE g = [h EXCEPT !.resolved = r2, !.cmds = c2]
    BY <1>3, <1>30, <2>1 DEF Hosts, Steady
  <2>2. CASE g = [h EXCEPT !.resolved = r2, !.cmds = c2, !.refilling = FALSE]
    BY <1>3, <1>30, <2>2 DEF Hosts, Steady
  <2> QED
    BY <1>4, <2>1, <2>2
<1>6. ~Fresh(h)
  BY DEF Fresh
<1>7. ASSUME NEW x \in Marks, Read(h, acted, x) PROVE Read(g, acted, x)
  BY <1>5, <1>7 DEF Read
<1>8. ASSUME Queue(h, acted) PROVE Queue(g, acted)
  <2>1. h.cmds[1] = [seq |-> h.resolved + 1, base |-> h.ckpt]
    BY <1>1, <1>8 DEF Queue
  <2>2. r2 = h.resolved + 1
    BY <1>1, <2>1 DEF r2
  <2>3. ASSUME NEW i \in DOMAIN g.cmds
        PROVE  g.cmds[i] = [seq |-> g.resolved + i, base |-> g.ckpt]
    <3>1. i \in 1..(Len(h.cmds) - 1)
      BY <1>1, <1>2, <1>5 DEF c2
    <3>2. g.cmds[i] = h.cmds[i + 1] /\ i + 1 \in DOMAIN h.cmds
      BY <1>1, <1>2, <1>5, <3>1 DEF c2
    <3>3. h.cmds[i + 1] = [seq |-> h.resolved + (i + 1), base |-> h.ckpt]
      BY <1>8, <3>2 DEF Queue
    <3>4. h.resolved + (i + 1) = g.resolved + i
      BY <1>5, <2>2, <3>1 DEF Hosts
    <3> QED
      BY <1>5, <3>2, <3>3, <3>4
  <2>4. g.synced => g.seen = g.resolved + Len(g.cmds)
    <3>1. h.synced => h.seen = h.resolved + Len(h.cmds)
      BY <1>8 DEF Queue
    <3>2. Len(g.cmds) = Len(h.cmds) - 1
      BY <1>2, <1>5 DEF c2
    <3> QED
      BY <1>1, <1>5, <2>2, <3>1, <3>2 DEF Hosts
  <2>5. \A i \in DOMAIN g.acts :
          g.acts[i].base = g.ckpt /\ g.acts[i].id > (IF i = 1 THEN acted ELSE g.acts[i - 1].id)
    BY <1>5, <1>8 DEF Queue
  <2> QED
    BY <2>3, <2>4, <2>5 DEF Queue
<1> QED
  BY <1>5, <1>6, <1>7, <1>8 DEF KeepsUp

LEMMA KeepsUpTwice ==
  ASSUME NEW f, NEW g, NEW h, NEW a, NEW b, NEW c, KeepsUp(f, a, g, b), KeepsUp(g, b, h, c)
  PROVE  KeepsUp(f, a, h, c)
BY DEF KeepsUp

LEMMA RefillingKeepsUp ==
  ASSUME NEW h \in Hosts, NEW acted \in Nat, NEW b \in BOOLEAN
  PROVE  /\ [h EXCEPT !.refilling = b] \in Hosts /\ Steady([h EXCEPT !.refilling = b], h)
         /\ KeepsUp(h, acted, [h EXCEPT !.refilling = b], acted)
<1> DEFINE g == [h EXCEPT !.refilling = b]
<1>1. /\ g \in Hosts /\ Steady(g, h) /\ g.resolved = h.resolved /\ g.cmds = h.cmds /\ g.synced = h.synced
      /\ g.seen = h.seen /\ g.seenAct = h.seenAct /\ g.acts = h.acts /\ g.ckpt = h.ckpt
  BY DEF Hosts, Steady
<1> HIDE DEF g
<1>2. KeepsUp(h, acted, g, acted)
  BY <1>1 DEF KeepsUp, Fresh, Queue, Read
<1> QED
  BY <1>1, <1>2 DEF g

LEMMA NextInputKeepsUp ==
  ASSUME NEW h \in Hosts, NEW acted \in Nat
  PROVE  NextInput(h) \in Hosts /\ Steady(NextInput(h), h) /\ KeepsUp(h, acted, NextInput(h), acted)
<1> DEFINE g == Trimmed(h)
           f == Stepped(g)
<1>1. NextInput(h) = f
  BY DEF NextInput
<1>2. g \in Hosts /\ Steady(g, h) /\ KeepsUp(h, acted, g, acted)
  <2>1. CASE Len(h.cmds) > Backlog
    <3>1. g = Popped(h)
      BY <2>1 DEF Trimmed, Popped
    <3>2. h.cmds # <<>>
      <4>1. h.cmds \in Seq(Steps) /\ Backlog \in Nat
        BY NetSyncAssumption DEF Hosts
      <4> QED
        BY <2>1, <4>1
    <3> HIDE DEF g
    <3> QED
      BY <3>1, <3>2, PoppedKeepsUp
  <2>2. CASE ~(Len(h.cmds) > Backlog)
    <3>1. g = h
      BY <2>2 DEF Trimmed
    <3> QED
      BY <3>1, SteadyKeepsUp DEF Steady
  <2> QED
    BY <2>1, <2>2
<1> HIDE DEF g
<1>3. f \in Hosts /\ Steady(f, g) /\ KeepsUp(g, acted, f, acted)
  <2>1. CASE g.cmds # <<>> /\ (g.refilling => Len(g.cmds) >= Refill)
    <3>1. f = [g EXCEPT !.resolved = Head(g.cmds).seq, !.cmds = Tail(@), !.refilling = FALSE]
      BY <2>1 DEF Stepped
    <3>2. f = [Popped(g) EXCEPT !.refilling = FALSE]
      BY <1>2, <3>1 DEF Popped, Hosts
    <3> HIDE DEF f
    <3> QED
      BY <1>2, <2>1, <3>2, PoppedKeepsUp
  <2>2. CASE ~(g.cmds # <<>> /\ (g.refilling => Len(g.cmds) >= Refill))
    <3> DEFINE b == g.refilling \/ g.cmds = <<>>
    <3>1. f = [g EXCEPT !.refilling = b] /\ b \in BOOLEAN
      BY <1>2, <2>2 DEF Stepped
    <3> HIDE DEF b, f
    <3> QED
      BY <1>2, <3>1, RefillingKeepsUp
  <2> QED
    BY <2>1, <2>2
<1> HIDE DEF f
<1>4. Steady(f, h) /\ KeepsUp(h, acted, f, acted)
  BY <1>2, <1>3, KeepsUpTwice DEF Steady
<1> QED
  BY <1>1, <1>3, <1>4

\* The actions that are due come first.
After(h, acted) == IF Due(h) = 0 THEN acted ELSE h.acts[Due(h)].id

LEMMA ActedKeepsUp ==
  ASSUME NEW h \in Hosts, NEW acted \in Nat
  PROVE  /\ Acted(h) \in Hosts /\ Steady(Acted(h), h) /\ After(h, acted) \in Nat
         /\ KeepsUp(h, acted, Acted(h), After(h, acted))
<1> DEFINE g == Acted(h)
           n == Due(h)
           a2 == SubSeq(h.acts, n + 1, Len(h.acts))
           b == After(h, acted)
<1>1. h.acts \in Seq(Deeds) /\ Len(h.acts) \in Nat /\ DOMAIN h.acts = 1..Len(h.acts)
  BY DEF Hosts
<1>2. n \in 0..Len(h.acts)
  <2> DEFINE K == {i \in DOMAIN h.acts : \A j \in 1..i : h.acts[j].at <= h.resolved}
  <2>1. n = Cardinality(K) /\ K \subseteq 1..Len(h.acts)
    BY <1>1 DEF Due
  <2> HIDE DEF n, K
  <2> QED
    BY <1>1, <2>1, Cards
<1>3. g = [h EXCEPT !.acts = a2]
  BY DEF Acted
<1>4. b = IF n = 0 THEN acted ELSE h.acts[n].id
  BY DEF After
<1> HIDE DEF n, b
<1>5. a2 \in Seq(Deeds) /\ Len(a2) = Len(h.acts) - n /\ \A i \in 1..(Len(h.acts) - n) : a2[i] = h.acts[n + i]
  BY <1>1, <1>2, SuffixAt
<1> HIDE DEF a2
<1>6. /\ g \in Hosts /\ Steady(g, h) /\ g.resolved = h.resolved /\ g.cmds = h.cmds /\ g.synced = h.synced
      /\ g.seen = h.seen /\ g.seenAct = h.seenAct /\ g.acts = a2 /\ g.ckpt = h.ckpt
  BY <1>3, <1>5 DEF Hosts, Steady
<1>7. b \in Nat
  <2>1. n # 0 => h.acts[n] \in Deeds
    BY <1>1, <1>2
  <2> QED
    BY <1>4, <2>1 DEF Deeds
<1> HIDE DEF g
<1>8. ASSUME Fresh(h) PROVE Fresh(g)
  <2>1. h.acts = <<>> /\ Len(h.acts) = 0
    BY <1>8 DEF Fresh
  <2>2. a2 = <<>>
    BY <1>2, <1>5, <2>1
  <2> QED
    BY <1>6, <1>8, <2>2 DEF Fresh
<1>9. ASSUME NEW x \in Marks, Read(h, acted, x) PROVE Read(g, b, x)
  <2>1. b <= x.act
    <3>1. n # 0 => n \in DOMAIN h.acts
      BY <1>1, <1>2
    <3> QED
      BY <1>4, <1>9, <3>1 DEF Read
  <2>2. \A i \in DOMAIN g.acts : g.acts[i].id <= x.act
    <3>1. ASSUME NEW i \in DOMAIN g.acts PROVE g.acts[i].id <= x.act
      <4>1. i \in 1..(Len(h.acts) - n)
        BY <1>5, <1>6
      <4>2. g.acts[i] = h.acts[n + i]
        BY <1>5, <1>6, <4>1
      <4>3. n + i \in DOMAIN h.acts
        BY <1>1, <1>2, <4>1
      <4> QED
        BY <1>9, <4>2, <4>3 DEF Read
    <3> QED
      BY <3>1
  <2> QED
    BY <1>6, <1>9, <2>1, <2>2 DEF Read
<1>10. ASSUME Queue(h, acted) PROVE Queue(g, b)
  <2>1. ASSUME NEW i \in DOMAIN g.acts
        PROVE  g.acts[i].base = g.ckpt /\ g.acts[i].id > (IF i = 1 THEN b ELSE g.acts[i - 1].id)
    <3>1. i \in 1..(Len(h.acts) - n)
      BY <1>5, <1>6
    <3>2. g.acts[i] = h.acts[n + i]
      BY <1>5, <1>6, <3>1
    <3>3. n + i \in DOMAIN h.acts
      BY <1>1, <1>2, <3>1
    <3>4. h.acts[n + i].base = h.ckpt
          /\ h.acts[n + i].id > (IF n + i = 1 THEN acted ELSE h.acts[(n + i) - 1].id)
      BY <1>10, <3>3 DEF Queue
    <3>5. CASE i = 1
      <4>1. (n + i) - 1 = n /\ (n + i = 1 <=> n = 0)
        BY <1>2, <3>5
      <4> QED
        BY <1>4, <1>6, <3>2, <3>4, <3>5, <4>1
    <3>6. CASE i # 1
      <4>1. i - 1 \in 1..(Len(h.acts) - n) /\ n + (i - 1) = (n + i) - 1 /\ n + i # 1
        BY <1>1, <1>2, <3>1, <3>6
      <4>2. g.acts[i - 1] = h.acts[(n + i) - 1]
        BY <1>5, <1>6, <4>1
      <4> QED
        BY <1>6, <3>2, <3>4, <3>6, <4>1, <4>2
    <3> QED
      BY <3>5, <3>6
  <2>2. (\A i \in DOMAIN g.cmds : g.cmds[i] = [seq |-> g.resolved + i, base |-> g.ckpt])
        /\ (g.synced => g.seen = g.resolved + Len(g.cmds))
    BY <1>6, <1>10 DEF Queue
  <2> QED
    BY <2>1, <2>2 DEF Queue
<1> QED
  BY <1>6, <1>7, <1>8, <1>9, <1>10 DEF KeepsUp, g, b

\* Time does not matter to what is queued.
LEMMA LaterKeepsUp ==
  ASSUME NEW g \in Hosts, NEW acted \in Nat, NEW b \in BOOLEAN, NEW l, l = [g EXCEPT !.late = b]
  PROVE  l \in Hosts /\ Steady(l, g) /\ KeepsUp(g, acted, l, acted)
<1>1. /\ l \in Hosts /\ l.resolved = g.resolved /\ l.cmds = g.cmds /\ l.synced = g.synced
      /\ l.seen = g.seen /\ l.seenAct = g.seenAct /\ l.acts = g.acts /\ l.ckpt = g.ckpt
      /\ Steady(l, g)
  BY DEF Hosts, Steady
<1>2. KeepsUp(g, acted, l, acted)
  BY <1>1 DEF KeepsUp, Fresh, Queue, Read
<1> QED
  BY <1>1, <1>2

\* The world goes on, on its floor or down to the next.
Proceeds(h, floors) ==
  \/ h.epoch = host.epoch /\ floors = history.floors /\ host.world <= h.world
  \/ /\ h.epoch = host.epoch + 1 /\ host.world < h.world
     /\ floors = Append(history.floors, h.world)

HostActs(msgs) ==
  /\ Playing /\ screen' \in [Roles -> Screens] /\ screen'["Join"] = screen["Join"]
  /\ UNCHANGED <<relay, sock, stale, down, session, join>>
  /\ Playing' <=> ~host'.ended
  /\ msgs \in Seq(Sent) /\ Tells(msgs, host')
  /\ (session["Host"].phase = "Active" /\ Sends("Host", msgs)) \/ up' = up
  /\ host' \in Hosts /\ history' \in [ids: Nat, floors: Seq(Nat), acted: Nat] /\ faults' \in Nat
  /\ Proceeds(host', history'.floors)
  /\ history'.ids \in {history.ids, Latest}
  /\ Whole(msgs) => history'.ids = Latest /\ host'.ckpt = Latest /\ Fresh(host')
  /\ \A x \in Marks : Read(host, history.acted, x) => history'.acted <= x.act
  /\ \/ host'.ckpt = Latest /\ history'.ids = Latest /\ Fresh(host')
     \/ host'.ckpt = host.ckpt /\ KeepsUp(host, history.acted, host', history'.acted)

LEMMA SaysActs ==
  ASSUME TypeOK, Playing, NEW h, NEW past, NEW msgs, Says(msgs, h, past), h.ckpt = host.ckpt,
         KeepsUp(host, history.acted, h, past.acted), Proceeds(h, past.floors),
         screen' \in [Roles -> Screens], screen'["Join"] = screen["Join"], Playing' <=> ~h.ended,
         UNCHANGED <<relay, sock, stale, down, session, join>>
  PROVE  HostActs(msgs)
<1>1. Tells(msgs, host')
  BY DEF Says, Tells
<1>2. Proceeds(host', history'.floors)
  BY DEF Says, Proceeds
<1>3. ASSUME NEW x \in Marks, Read(host, history.acted, x) PROVE history'.acted <= x.act
  <2>1. Read(h, past.acted, x)
    BY <1>3 DEF KeepsUp
  <2> QED
    BY <2>1 DEF Read, Says
<1>4. \/ host'.ckpt = Latest /\ history'.ids = Latest /\ Fresh(host')
      \/ host'.ckpt = host.ckpt /\ KeepsUp(host, history.acted, host', history'.acted)
  <2>1. CASE host'.ckpt = Latest /\ history'.ids = Latest /\ Fresh(host')
    BY <2>1
  <2>2. CASE host'.ckpt = h.ckpt /\ KeepsUp(h, past.acted, host', past.acted)
    BY <2>2, KeepsUpTwice DEF Says
  <2> QED
    BY <2>1, <2>2 DEF Says
<1> QED
  BY <1>1, <1>2, <1>3, <1>4 DEF HostActs, Says

LEMMA HostCheckpointActs ==
  ASSUME Wires, HostCheckpoint
  PROVE  \E msgs : HostActs(msgs)
<1>1. Playing /\ ~host.ended /\ session["Host"].phase = "Active" /\ TypeOK /\ host \in Hosts
      /\ history \in [ids: Nat, floors: Seq(Nat), acted: Nat]
  BY DEF HostCheckpoint, HostIsUp, Wires, Hosting, TypeOK
<1>2. PICK k \in 0..2 : /\ Attempt(k, history) /\ host' = [Tried(host, k) EXCEPT !.late = FALSE]
                        /\ Sends("Host", Queued(host, k))
  BY DEF HostCheckpoint
<1> DEFINE g == Tried(host, k)
           msgs == Queued(host, k)
<1>3. /\ g \in Hosts /\ g.epoch = host.epoch /\ g.world = host.world /\ g.ended = host.ended
      /\ (g.ckpt = Latest /\ Fresh(g)) \/ (g = host /\ k # 2)
  BY <1>1, TriedIs
<1>4. host' = [g EXCEPT !.late = FALSE]
  BY <1>2
<1> HIDE DEF g
<1>5. /\ host' \in Hosts /\ Steady(host', g) /\ KeepsUp(g, history.acted, host', history.acted)
  <2> DEFINE l == [g EXCEPT !.late = FALSE]
  <2>1. l \in Hosts /\ Steady(l, g) /\ KeepsUp(g, history.acted, l, history.acted)
    BY <1>1, <1>3, LaterKeepsUp
  <2> HIDE DEF l
  <2>2. host' = l
    BY <1>4 DEF l
  <2> QED
    BY <2>1, <2>2
<1>6. msgs \in Seq(Sent) /\ Tells(msgs, host) /\ Sends("Host", msgs) /\ (Whole(msgs) => k = 2)
  BY <1>1, <1>2, QueuedIs
<1>7. /\ history' \in [ids: Nat, floors: Seq(Nat), acted: Nat] /\ faults' \in Nat
      /\ history'.floors = history.floors /\ history'.acted = history.acted /\ history'.ids = Latest
  BY <1>1, <1>2, AttemptIs
<1> HIDE DEF msgs
<1>8. \/ host'.ckpt = Latest /\ Fresh(host')
      \/ host'.ckpt = host.ckpt /\ KeepsUp(host, history.acted, host', history.acted) /\ k # 2
  <2>1. CASE g.ckpt = Latest /\ Fresh(g)
    BY <1>5, <2>1 DEF Steady, KeepsUp
  <2>2. CASE g = host /\ k # 2
    BY <1>5, <2>2 DEF Steady
  <2> QED
    BY <1>3, <2>1, <2>2
<1>9. Says(msgs, host, history)
  BY <1>1, <1>3, <1>5, <1>6, <1>7, <1>8 DEF Says, Steady
<1>10. screen' = screen /\ screen \in [Roles -> Screens] /\ (Playing' <=> Playing)
       /\ UNCHANGED <<relay, sock, stale, down, session, join>>
  BY <1>1 DEF HostCheckpoint, TypeOK, Playing
<1>11. KeepsUp(host, history.acted, host, history.acted) /\ Proceeds(host, history.floors)
  BY <1>1, SteadyKeepsUp DEF Proceeds, Hosts
<1>12. HostActs(msgs)
  BY <1>1, <1>9, <1>10, <1>11, SaysActs
<1> QED
  BY <1>12

LEMMA HostSnapshotActs ==
  ASSUME Wires, HostSnapshot
  PROVE  \E msgs : HostActs(msgs)
<1>1. Playing /\ ~host.ended /\ session["Host"].phase = "Active" /\ TypeOK /\ host \in Hosts
      /\ history \in [ids: Nat, floors: Seq(Nat), acted: Nat]
  BY DEF HostSnapshot, HostIsUp, Wires, Hosting, TypeOK
<1>2. PICK msgs : Says(msgs, host, history)
  <2> DEFINE more == <<>>
  <2>1. Snapshot(host, history, more) /\ more \in {<<>>, <<Msg("run_ended")>>}
    BY DEF HostSnapshot
  <2> HIDE DEF more
  <2> QED
    BY <1>1, <2>1, SnapshotSays
<1>3. screen' = screen /\ screen \in [Roles -> Screens] /\ (Playing' <=> Playing)
       /\ UNCHANGED <<relay, sock, stale, down, session, join>>
  BY <1>1 DEF HostSnapshot, TypeOK, Playing
<1>4. KeepsUp(host, history.acted, host, history.acted) /\ Proceeds(host, history.floors)
  BY <1>1, SteadyKeepsUp DEF Proceeds, Hosts
<1>5. HostActs(msgs)
  BY <1>1, <1>2, <1>3, <1>4, SaysActs
<1> QED
  BY <1>5

LEMMA HostTickActs ==
  ASSUME Wires, HostTick
  PROVE  \E msgs : HostActs(msgs)
<1>1. Playing /\ ~host.ended /\ TypeOK /\ host \in Hosts /\ screen \in [Roles -> Screens]
      /\ history \in [ids: Nat, floors: Seq(Nat), acted: Nat]
      /\ UNCHANGED <<relay, sock, stale, down, session, join>>
  BY DEF HostTick, Playing, Wires, Hosting, TypeOK
<1> DEFINE h == NextInput(host)
           g == Acted(h)
           after == After(h, history.acted)
<1>2. PICK ends \in BOOLEAN, deeper \in {0, 1} : \E moves \in deeper..1 :
        /\ Ticks(h, moves, deeper, ends)
        /\ screen' = [screen EXCEPT !["Host"] = IF ends THEN "Over" ELSE @]
  BY DEF HostTick
<1>3. PICK moves \in deeper..1 :
        /\ Ticks(h, moves, deeper, ends)
        /\ screen' = [screen EXCEPT !["Host"] = IF ends THEN "Over" ELSE @]
  BY <1>2
<1> DEFINE lived == [g EXCEPT !.world = @ + moves, !.epoch = @ + deeper, !.ended = ends]
           floors == IF deeper = 1 THEN Append(history.floors, lived.world) ELSE history.floors
           noted == [history EXCEPT !.acted = after,
                       !.floors = IF deeper = 1 THEN Append(@, lived.world) ELSE @]
<1>8. /\ IF ends /\ session["Host"].phase = "Active"
           THEN Snapshot(lived, noted, <<Msg("run_ended")>>)
           ELSE host' = lived /\ history' = noted /\ UNCHANGED <<up, faults>>
      /\ screen' = [screen EXCEPT !["Host"] = IF ends THEN "Over" ELSE @]
  <2>1. noted = [history EXCEPT !.acted = IF Due(h) = 0 THEN @ ELSE h.acts[Due(h)].id,
                   !.floors = IF deeper = 1 THEN Append(@, lived.world) ELSE @]
    BY DEF After
  <2>2. Ticks(h, moves, deeper, ends) /\ screen' = [screen EXCEPT !["Host"] = IF ends THEN "Over" ELSE @]
    BY <1>3
  <2> HIDE DEF noted, h
  <2> QED
    BY <2>1, <2>2 DEF Ticks
<1>4. h \in Hosts /\ Steady(h, host) /\ KeepsUp(host, history.acted, h, history.acted)
  BY <1>1, NextInputKeepsUp
<1>5. g \in Hosts /\ Steady(g, h) /\ after \in Nat /\ KeepsUp(h, history.acted, g, after)
  <2> HIDE DEF h
  <2> QED
    BY <1>1, <1>4, ActedKeepsUp
<1>6. Steady(g, host) /\ KeepsUp(host, history.acted, g, after)
  <2> HIDE DEF h, g, after
  <2> QED
    BY <1>4, <1>5, KeepsUpTwice DEF Steady
<1> HIDE DEF g, after
<1>7. /\ lived \in Hosts /\ lived.world = host.world + moves /\ lived.epoch = host.epoch + deeper
      /\ lived.ended = ends /\ lived.ckpt = host.ckpt /\ KeepsUp(g, after, lived, after)
  <2> DEFINE w == host.world + moves
             e == host.epoch + deeper
  <2>0. moves \in Nat /\ deeper \in Nat /\ host.world \in Nat /\ host.epoch \in Nat
        /\ g.world = host.world /\ g.epoch = host.epoch
    BY <1>1, <1>6 DEF Hosts, Steady
  <2>1. lived = [g EXCEPT !.world = w, !.epoch = e, !.ended = ends] /\ w \in Nat /\ e \in Nat
    BY <2>0
  <2> HIDE DEF lived, w, e
  <2>2. /\ lived \in Hosts /\ lived.world = w /\ lived.epoch = e /\ lived.ended = ends
        /\ lived.ckpt = g.ckpt /\ KeepsUp(g, after, lived, after)
    <3>1. /\ lived \in Hosts /\ lived.resolved = g.resolved /\ lived.cmds = g.cmds
          /\ lived.synced = g.synced /\ lived.seen = g.seen /\ lived.seenAct = g.seenAct
          /\ lived.acts = g.acts /\ lived.ckpt = g.ckpt
          /\ lived.world = w /\ lived.epoch = e /\ lived.ended = ends
      BY <1>5, <2>1 DEF Hosts
    <3>2. KeepsUp(g, after, lived, after)
      BY <3>1 DEF KeepsUp, Fresh, Queue, Read
    <3> QED
      BY <3>1, <3>2
  <2> QED
    BY <1>6, <2>2 DEF w, e, Steady
<1> HIDE DEF lived
<1>9. KeepsUp(host, history.acted, lived, after)
  BY <1>6, <1>7, KeepsUpTwice
<1>10. /\ noted \in [ids: Nat, floors: Seq(Nat), acted: Nat] /\ noted.ids = history.ids
       /\ noted.acted = after /\ noted.floors = floors
  <2>1. lived.world \in Nat
    BY <1>7 DEF Hosts
  <2>2. floors \in Seq(Nat) /\ noted = [history EXCEPT !.acted = after, !.floors = floors]
    BY <1>1, <2>1
  <2> HIDE DEF floors, noted
  <2> QED
    BY <1>1, <1>5, <2>2
<1>11. Proceeds(lived, floors)
  <2>1. host.world \in Nat /\ host.epoch \in Nat
    BY <1>1 DEF Hosts
  <2>2. CASE deeper = 0
    <3>1. moves \in 0..1
      BY <2>2
    <3> QED
      BY <1>7, <2>1, <2>2, <3>1 DEF Proceeds
  <2>3. CASE deeper = 1
    <3>1. moves \in 1..1
      BY <2>3
    <3> QED
      BY <1>7, <2>1, <2>3, <3>1 DEF Proceeds
  <2> QED
    BY <2>2, <2>3
<1> HIDE DEF floors, noted
<1>12. \E msgs : Says(msgs, lived, noted)
  <2>1. CASE ends /\ session["Host"].phase = "Active"
    <3> DEFINE more == <<Msg("run_ended")>>
    <3>1. Snapshot(lived, noted, more) /\ more \in {<<>>, <<Msg("run_ended")>>}
      BY <1>8, <2>1
    <3> HIDE DEF more
    <3> QED
      BY <1>1, <1>7, <1>10, <2>1, <3>1, SnapshotSays
  <2>2. CASE ~(ends /\ session["Host"].phase = "Active")
    <3>1. host' = lived /\ history' = noted /\ up' = up /\ faults' = faults
      BY <1>8, <2>2
    <3> DEFINE e == <<>>
    <3>2. e \in Seq(Sent) /\ Tells(e, lived) /\ DOMAIN e = {} /\ ~Whole(e)
      BY EmptySeq DEF Tells, Whole
    <3> HIDE DEF e
    <3>3. KeepsUp(lived, noted.acted, lived, noted.acted) /\ faults \in Nat
      BY <1>1, SteadyKeepsUp DEF TypeOK
    <3>4. Says(e, lived, noted)
      BY <1>7, <1>10, <3>1, <3>2, <3>3 DEF Says
    <3> QED
      BY <3>4
  <2> QED
    BY <2>1, <2>2
<1>13. PICK msgs : Says(msgs, lived, noted)
  BY <1>12
<1>14. /\ screen' \in [Roles -> Screens] /\ screen'["Join"] = screen["Join"]
       /\ Playing' <=> ~lived.ended
  BY <1>1, <1>7, <1>8 DEF Playing, Screens, Roles
<1>15. HostActs(msgs)
  BY <1>1, <1>7, <1>9, <1>10, <1>11, <1>13, <1>14, SaysActs
<1> QED
  BY <1>15

LEMMA Regroup ==
  ASSUME NEW M, NEW a \in Seq(M), NEW b \in Seq(M), NEW c \in Seq(M)
  PROVE  (a \o b) \o c = a \o (b \o c)
BY ConcatAssociative

LEMMA WayType ==
  ASSUME TypeOK
  PROVE  /\ Line("Host") \in Seq(Left \cup Sent \cup Told) /\ Line("Join") \in Seq(Left \cup Sent \cup Told)
         /\ down["Join"] \in Seq(Left \cup Sent \cup Told) /\ down["Host"] \in Seq(Left \cup Sent \cup Told)
         /\ Way \in Seq(Left \cup Sent \cup Told)
<1>1. "Host" \in Roles /\ "Join" \in Roles
  BY DEF Roles
<1>2. /\ Line("Host") \in Seq(Left \cup Sent) /\ Line("Join") \in Seq(Left \cup Sent)
      /\ down["Join"] \in Seq(Told) /\ down["Host"] \in Seq(Told)
  BY <1>1, LineType, Parts
<1> DEFINE l == Line("Host")
           k == Line("Join")
           d == down["Join"]
           e == down["Host"]
<1>3. l \in Seq(Left \cup Sent \cup Told) /\ k \in Seq(Left \cup Sent \cup Told)
      /\ d \in Seq(Left \cup Sent \cup Told) /\ e \in Seq(Left \cup Sent \cup Told)
  <2> HIDE DEF l, k, d, e
  <2> QED
    BY <1>2 DEF l, k, d, e
<1> QED
  BY <1>3 DEF Way

\* What the host's own actions leave.
LEMMA HostActsKeeps ==
  ASSUME Wires, NEW msgs, HostActs(msgs)
  PROVE  /\ Wires' /\ (Passing' <=> Passing) /\ (Live' <=> Live) /\ Line("Join")' = Line("Join")
         /\ Way' = Way \o msgs \/ Way' = Way
<1>1. /\ "Host" \in Roles /\ "Join" \in Roles /\ Other("Host") = "Join" /\ Other("Join") = "Host"
      /\ TypeOK /\ msgs \in Seq(Sent) /\ UNCHANGED <<relay, sock, stale, down, session, join>>
  BY DEF Roles, Other, Wires, HostActs
<1>2. \A i \in DOMAIN msgs : msgs[i].t # "hello"
  BY DEF HostActs, Tells
<1>3. /\ up' \in [Roles -> Seq(Sent)] /\ (\A p \in Roles : Wired(p)')
      /\ Line("Host")' = Line("Host") \o msgs \/ Line("Host")' = Line("Host")
      /\ Line("Join")' = Line("Join")
  <2>1. CASE session["Host"].phase = "Active" /\ Sends("Host", msgs)
    <3>1. /\ up' \in [Roles -> Seq(Sent)] /\ (\A p \in Roles : Wired(p)')
          /\ sock["Host"] = "open" => Line("Host")' = Line("Host") \o msgs
          /\ sock["Host"] # "open" => Line("Host")' = Line("Host")
          /\ Line("Join")' = Line("Join")
      BY <1>1, <1>2, <2>1, Speaks
    <3> QED
      BY <3>1
  <2>2. CASE up' = up
    BY <1>1, <2>2, WiredKept DEF Line, TypeOK
  <2> QED
    BY <2>1, <2>2 DEF HostActs
<1>4. TypeOK'
  BY <1>1, <1>3 DEF TypeOK, HostActs
<1>5. Hosting'
  BY <1>1 DEF Wires, Hosting, HostActs
<1>6. Joining'
  BY <1>1 DEF Wires, Joining, HostActs
<1>7. (Passing' <=> Passing) /\ (Live' <=> Live)
  BY <1>1 DEF Passing, Live
<1>8. Way' = Way \o msgs \/ Way' = Way
  <2> DEFINE M == Left \cup Sent \cup Told
  <2>1. down["Join"] \in Seq(M) /\ Line("Host") \in Seq(M) /\ msgs \in Seq(M)
    <3>1. msgs \in Seq(M)
      BY <1>1
    <3> QED
      BY <1>1, <3>1, WayType
  <2> HIDE DEF M
  <2>2. CASE Line("Host")' = Line("Host") \o msgs
    <3>1. down["Join"] \o (Line("Host") \o msgs) = (down["Join"] \o Line("Host")) \o msgs
      <4>1. ASSUME NEW a \in Seq(M), NEW b \in Seq(M), NEW c \in Seq(M)
            PROVE  a \o (b \o c) = (a \o b) \o c
        BY Regroup
      <4> HIDE DEF M
      <4>2. \A a \in Seq(M), b \in Seq(M), c \in Seq(M) : a \o (b \o c) = (a \o b) \o c
        BY <4>1
      <4> QED
        BY <2>1, <4>2
    <3> QED
      BY <1>1, <2>2, <3>1 DEF Way
  <2>3. CASE Line("Host")' = Line("Host")
    BY <1>1, <2>3 DEF Way
  <2> QED
    BY <1>3, <2>2, <2>3
<1> QED
  BY <1>3, <1>4, <1>5, <1>6, <1>7, <1>8 DEF Wires

\* The joiner's ticks.
JoinActs(m, steps, deeds) ==
  /\ join.have /\ steps \in Nat /\ m \in Intents
  /\ Len(m.cmds) = steps /\ \A i \in 1..steps : m.cmds[i] = [seq |-> join.seq + i, base |-> join.base]
  /\ Len(m.acts) = deeds /\ deeds \in {0, 1}
  /\ \A i \in 1..deeds : m.acts[i].base = join.base /\ m.acts[i].id = join.acted + 1
  /\ join' = [join EXCEPT !.seq = @ + steps, !.acted = @ + deeds]
  /\ Sends("Join", <<m>>) /\ session["Join"].phase = "Active"
  /\ UNCHANGED <<relay, sock, down, stale, session, screen, host, faults, history>>

LEMMA JoinerTickActs ==
  ASSUME Wires, JoinerTick
  PROVE  \E m, steps, deeds : JoinActs(m, steps, deeds)
<1>1. join \in Joiners
  BY DEF Wires, TypeOK
<1>2. /\ join.have /\ session["Join"].phase = "Active"
      /\ UNCHANGED <<relay, sock, down, stale, session, screen, host, faults, history>>
  BY DEF JoinerTick
<1>3. PICK steps \in 0..2, k \in 0..1 :
         /\ \E at \in ((join.seq + steps)..(join.seq + steps + 1)) \cap ((join.seq + 1)..(join.seq + 2)) :
              Sends("Join", <<Intent(steps, [i \in 1..k |->
                          [id |-> join.acted + 1, at |-> at, base |-> join.base]])>>)
         /\ join' = [join EXCEPT !.seq = @ + steps, !.acted = @ + k]
  BY DEF JoinerTick
<1>4. PICK at \in ((join.seq + steps)..(join.seq + steps + 1)) \cap ((join.seq + 1)..(join.seq + 2)) :
              Sends("Join", <<Intent(steps, [i \in 1..k |->
                          [id |-> join.acted + 1, at |-> at, base |-> join.base]])>>)
  BY <1>3
<1> DEFINE d == [id |-> join.acted + 1, at |-> at, base |-> join.base]
           acts == [i \in 1..k |-> d]
           cmds == [i \in 1..steps |-> [seq |-> join.seq + i, base |-> join.base]]
           m == Intent(steps, acts)
<1>5. k \in Nat /\ steps \in Nat /\ k \in {0, 1} /\ join.seq \in Nat /\ join.base \in Nat /\ join.acted \in Nat
      /\ at \in Nat
  BY <1>1 DEF Joiners
<1>6. d \in Deeds /\ d.base = join.base /\ d.id = join.acted + 1
  BY <1>5 DEF Deeds
<1> HIDE DEF d
<1>7. acts \in Seq(Deeds) /\ Len(acts) = k /\ \A i \in 1..k : acts[i] = d
  BY <1>5, <1>6
<1>8. cmds \in Seq(Steps) /\ Len(cmds) = steps
      /\ \A i \in 1..steps : cmds[i] = [seq |-> join.seq + i, base |-> join.base]
  <2>1. \A i \in 1..steps : [seq |-> join.seq + i, base |-> join.base] \in Steps
    BY <1>5 DEF Steps
  <2>2. cmds \in Seq(Steps)
    BY <1>5, <2>1
  <2> QED
    BY <1>5, <2>2
<1>9. m = [t |-> "intent", acts |-> acts, cmds |-> cmds]
  BY DEF Intent
<1>10. Sends("Join", <<m>>)
  BY <1>4 DEF d
<1> HIDE DEF acts, cmds, m
<1>11. m \in Intents /\ m.cmds = cmds /\ m.acts = acts
  BY <1>7, <1>8, <1>9 DEF Intents
<1>12. JoinActs(m, steps, k)
  BY <1>2, <1>3, <1>5, <1>6, <1>7, <1>8, <1>10, <1>11 DEF JoinActs
<1> QED
  BY <1>12

LEMMA JoinActsKeeps ==
  ASSUME Wires, NEW m, NEW steps, NEW deeds, JoinActs(m, steps, deeds)
  PROVE  /\ Wires' /\ Way' = Way /\ (Passing' <=> Passing) /\ (Playing' <=> Playing)
         /\ join'.have /\ join'.base = join.base /\ join'.epoch = join.epoch /\ join'.shown = join.shown
         /\ join'.seq = join.seq + steps /\ join'.acted = join.acted + deeds
         /\ sock["Join"] = "open" => Live /\ Line("Join")' = Append(Line("Join"), m)
         /\ sock["Join"] # "open" => ~Live' /\ Line("Join")' = Line("Join")
<1>1. /\ "Host" \in Roles /\ "Join" \in Roles /\ Other("Host") = "Join" /\ Other("Join") = "Host"
      /\ TypeOK /\ m \in Sent /\ m.t = "intent" /\ session["Join"].phase = "Active" /\ join \in Joiners
      /\ UNCHANGED <<relay, sock, down, stale, session, screen, host, faults, history>>
  BY DEF Roles, Other, Wires, JoinActs, Sent, Carried, Intents, TypeOK
<1> DEFINE msgs == <<m>>
<1>2. msgs \in Seq(Sent) /\ (\A i \in DOMAIN msgs : msgs[i].t # "hello") /\ Sends("Join", msgs)
  BY <1>1 DEF JoinActs
<1> HIDE DEF msgs
<1>3. /\ up' \in [Roles -> Seq(Sent)] /\ (\A p \in Roles : Wired(p)')
      /\ sock["Join"] = "open" => Line("Join")' = Line("Join") \o msgs
      /\ sock["Join"] # "open" => Line("Join")' = Line("Join")
      /\ Line("Host")' = Line("Host")
  BY <1>1, <1>2, Speaks
<1>4. Line("Join") \o msgs = Append(Line("Join"), m)
  <2>1. Line("Join") \in Seq(Left \cup Sent)
    BY <1>1, LineType
  <2> QED
    BY <2>1, AppendIsConcat DEF msgs
<1>5. /\ join' \in Joiners /\ join'.have /\ join'.base = join.base /\ join'.epoch = join.epoch
      /\ join'.shown = join.shown /\ join'.seq = join.seq + steps /\ join'.acted = join.acted + deeds
  <2> DEFINE a == join.seq + steps
             b == join.acted + deeds
  <2>1. a \in Nat /\ b \in Nat
    <3>1. join.seq \in Nat /\ join.acted \in Nat /\ steps \in Nat /\ deeds \in Nat
      BY <1>1 DEF JoinActs, Joiners
    <3> QED
      BY <3>1
  <2>2. join' = [join EXCEPT !.seq = a, !.acted = b] /\ join.have
    BY DEF JoinActs
  <2> HIDE DEF a, b
  <2>3. /\ join' \in Joiners /\ join'.have /\ join'.base = join.base /\ join'.epoch = join.epoch
        /\ join'.shown = join.shown /\ join'.seq = a /\ join'.acted = b
    BY <1>1, <2>1, <2>2 DEF Joiners
  <2> QED
    BY <2>3 DEF a, b
<1>6. TypeOK'
  BY <1>1, <1>3, <1>5 DEF TypeOK
<1>7. Hosting'
  BY <1>1, HostingKept
<1>8. Joining'
  BY <1>1 DEF Wires, Joining, JoinActs, NoJoiner
<1>9. Way' = Way /\ (Passing' <=> Passing) /\ (Playing' <=> Playing)
  BY <1>1, <1>3 DEF Way, Passing, Playing
<1> QED
  BY <1>1, <1>3, <1>4, <1>5, <1>6, <1>7, <1>8, <1>9 DEF Wires, Live, JoinActs

\* The time an acknowledgement takes.
LEMMA AckTimeKeeps ==
  ASSUME Wires, AckTimePasses
  PROVE  /\ Wires' /\ Way' = Way /\ (Passing' <=> Passing) /\ (Playing' <=> Playing) /\ (Live' <=> Live)
         /\ Steady(host', host) /\ KeepsUp(host, history.acted, host', history.acted)
         /\ Line("Join")' = Line("Join")
         /\ UNCHANGED <<relay, net, session, screen, join, faults, history>>
<1>1. UNCHANGED <<relay, sock, up, down, stale, session, screen, join, faults, history>>
  BY DEF AckTimePasses, net
<1>2. host \in Hosts /\ history.acted \in Nat /\ TypeOK
  BY DEF Wires, TypeOK
<1>3. host' \in Hosts /\ Steady(host', host) /\ KeepsUp(host, history.acted, host', history.acted)
  <2>1. host' = [host EXCEPT !.late = TRUE]
    BY DEF AckTimePasses
  <2> QED
    BY <1>2, <2>1, LaterKeepsUp
<1>4. TypeOK'
  BY <1>1, <1>2, <1>3 DEF TypeOK
<1>5. Wired("Host")' /\ Wired("Join")'
  BY <1>1 DEF Wires, Wired, Roles, Greets
<1>6. Hosting'
  BY <1>1, <1>3 DEF Wires, Hosting, Playing, Steady
<1>7. Joining'
  BY <1>1 DEF Wires, Joining
<1> QED
  BY <1>1, <1>3, <1>4, <1>5, <1>6, <1>7 DEF Wires, Roles, Way, Line, Passing, Playing, Live, net

-----------------------------------------------------------------------------
(* The world, message by message *)

\* What w tells of the world, v tells in the same order, or leaves out.
Thin(v, w) ==
  /\ \A j \in DOMAIN v : Worldly(v[j]) => \E a \in DOMAIN w : v[j] = w[a]
  /\ \A j \in DOMAIN v : \A i \in 1..(j - 1) : Worldly(v[i]) /\ Worldly(v[j]) =>
       \E a, b \in DOMAIN w : a < b /\ v[i] = w[a] /\ v[j] = w[b]

LEMMA ThinSelf ==
  ASSUME NEW M, NEW w \in Seq(M)
  PROVE  Thin(w, w)
<1>1. DOMAIN w = 1..Len(w) /\ Len(w) \in Nat
  OBVIOUS
<1>2. ASSUME NEW j \in DOMAIN w, NEW i \in 1..(j - 1) PROVE i \in DOMAIN w /\ i < j
  BY <1>1
<1> QED
  BY <1>2 DEF Thin

LEMMA ThinThin ==
  ASSUME NEW M, NEW u \in Seq(M), NEW v \in Seq(M), NEW w \in Seq(M), Thin(u, v), Thin(v, w)
  PROVE  Thin(u, w)
<1>1. DOMAIN u = 1..Len(u) /\ DOMAIN v = 1..Len(v) /\ DOMAIN w = 1..Len(w) /\ Len(u) \in Nat /\ Len(v) \in Nat
  OBVIOUS
<1>2. ASSUME NEW j \in DOMAIN u, Worldly(u[j]) PROVE \E a \in DOMAIN w : u[j] = w[a]
  <2>1. PICK b \in DOMAIN v : u[j] = v[b]
    BY <1>2 DEF Thin
  <2> QED
    BY <1>2, <2>1 DEF Thin
<1>3. ASSUME NEW j \in DOMAIN u, NEW i \in 1..(j - 1), Worldly(u[i]), Worldly(u[j])
      PROVE  \E a, b \in DOMAIN w : a < b /\ u[i] = w[a] /\ u[j] = w[b]
  <2>1. PICK a, b \in DOMAIN v : a < b /\ u[i] = v[a] /\ u[j] = v[b]
    BY <1>3 DEF Thin
  <2>2. a \in 1..(b - 1) /\ Worldly(v[a]) /\ Worldly(v[b])
    BY <1>1, <1>3, <2>1
  <2>3. \E c, d \in DOMAIN w : c < d /\ v[a] = w[c] /\ v[b] = w[d]
    BY <2>2 DEF Thin
  <2> QED
    BY <2>1, <2>3
<1> QED
  BY <1>2, <1>3 DEF Thin

LEMMA ThinConcat ==
  ASSUME NEW M, NEW p \in Seq(M), NEW q \in Seq(M), NEW v \in Seq(M), NEW w \in Seq(M),
         Thin(p, v), Thin(q, w)
  PROVE  Thin(p \o q, v \o w)
<1> DEFINE s == p \o q
           t == v \o w
<1>1. /\ DOMAIN p = 1..Len(p) /\ DOMAIN q = 1..Len(q) /\ DOMAIN v = 1..Len(v) /\ DOMAIN w = 1..Len(w)
      /\ Len(p) \in Nat /\ Len(q) \in Nat /\ Len(v) \in Nat /\ Len(w) \in Nat
      /\ DOMAIN s = 1..(Len(p) + Len(q)) /\ DOMAIN t = 1..(Len(v) + Len(w))
  OBVIOUS
<1>2. /\ \A i \in DOMAIN p : s[i] = p[i]
      /\ \A i \in 1..(Len(p) + Len(q)) : i > Len(p) => i - Len(p) \in DOMAIN q /\ s[i] = q[i - Len(p)]
      /\ \A a \in DOMAIN v : t[a] = v[a] /\ a \in DOMAIN t
      /\ \A a \in DOMAIN w : t[Len(v) + a] = w[a] /\ Len(v) + a \in DOMAIN t
  OBVIOUS
<1> HIDE DEF s, t
<1>3. ASSUME NEW j \in DOMAIN s, Worldly(s[j])
      PROVE  /\ j <= Len(p) => \E a \in DOMAIN v : a \in DOMAIN t /\ s[j] = t[a] /\ a <= Len(v)
             /\ j > Len(p) => \E a \in DOMAIN t : s[j] = t[a] /\ a > Len(v)
  <2>1. CASE j <= Len(p)
    <3>1. j \in DOMAIN p /\ s[j] = p[j]
      BY <1>1, <1>2, <2>1
    <3>2. PICK a \in DOMAIN v : p[j] = v[a]
      BY <1>3, <3>1 DEF Thin
    <3> QED
      BY <1>1, <1>2, <2>1, <3>1, <3>2
  <2>2. CASE j > Len(p)
    <3>1. j - Len(p) \in DOMAIN q /\ s[j] = q[j - Len(p)]
      BY <1>1, <1>2, <2>2
    <3>2. PICK a \in DOMAIN w : q[j - Len(p)] = w[a]
      BY <1>3, <3>1 DEF Thin
    <3>3. Len(v) + a \in DOMAIN t /\ t[Len(v) + a] = w[a] /\ Len(v) + a > Len(v)
      BY <1>1, <1>2
    <3> QED
      BY <1>1, <2>2, <3>1, <3>2, <3>3
  <2> QED
    BY <1>1, <2>1, <2>2
<1>4. ASSUME NEW j \in DOMAIN s, NEW i \in 1..(j - 1), Worldly(s[i]), Worldly(s[j])
      PROVE  \E a, b \in DOMAIN t : a < b /\ s[i] = t[a] /\ s[j] = t[b]
  <2>1. i \in DOMAIN s /\ i < j /\ i \in Nat /\ j \in Nat
    BY <1>1
  <2>2. CASE j <= Len(p)
    <3>1. j \in DOMAIN p /\ i \in DOMAIN p /\ s[j] = p[j] /\ s[i] = p[i]
      BY <1>1, <1>2, <2>1, <2>2
    <3>2. PICK a, b \in DOMAIN v : a < b /\ p[i] = v[a] /\ p[j] = v[b]
      BY <1>4, <3>1 DEF Thin
    <3> QED
      BY <1>2, <3>1, <3>2
  <2>3. CASE i > Len(p)
    <3>1. /\ j - Len(p) \in DOMAIN q /\ i - Len(p) \in DOMAIN q
          /\ s[j] = q[j - Len(p)] /\ s[i] = q[i - Len(p)] /\ i - Len(p) \in 1..((j - Len(p)) - 1)
      <4>1. /\ i \in 1..(Len(p) + Len(q)) /\ j \in 1..(Len(p) + Len(q)) /\ i > Len(p) /\ j > Len(p)
        BY <1>1, <2>1, <2>3
      <4>2. i - Len(p) \in 1..((j - Len(p)) - 1)
        BY <1>1, <2>1, <2>3
      <4>3. j - Len(p) \in DOMAIN q /\ s[j] = q[j - Len(p)]
        BY <1>2, <4>1
      <4>4. i - Len(p) \in DOMAIN q /\ s[i] = q[i - Len(p)]
        BY <1>2, <4>1
      <4> QED
        BY <4>2, <4>3, <4>4
    <3>2. PICK a, b \in DOMAIN w : a < b /\ q[i - Len(p)] = w[a] /\ q[j - Len(p)] = w[b]
      BY <1>4, <3>1 DEF Thin
    <3>3. Len(v) + a < Len(v) + b
      BY <1>1, <3>2
    <3> QED
      BY <1>2, <3>1, <3>2, <3>3
  <2>4. CASE i <= Len(p) /\ j > Len(p)
    <3>1. PICK a \in DOMAIN v : a \in DOMAIN t /\ s[i] = t[a] /\ a <= Len(v)
      BY <1>3, <1>4, <2>1, <2>4
    <3>2. PICK b \in DOMAIN t : s[j] = t[b] /\ b > Len(v)
      BY <1>3, <1>4, <2>4
    <3>3. a < b
      BY <1>1, <3>1, <3>2
    <3> QED
      BY <3>1, <3>2, <3>3
  <2> QED
    BY <1>1, <2>1, <2>2, <2>3, <2>4
<1>5. Thin(s, t)
  BY <1>3, <1>4, <1>1 DEF Thin
<1> QED
  BY <1>5 DEF s, t

\* A part of a sequence, and one word of control behind it.
LEMMA ThinPart ==
  ASSUME NEW M, NEW p \in Seq(M), NEW k \in 0..Len(p), NEW n \in 0..Len(p)
  PROVE  Thin(SubSeq(p, k + 1, n), p) /\ SubSeq(p, k + 1, n) \in Seq(M)
<1> DEFINE q == SubSeq(p, k + 1, n)
<1>1. /\ q \in Seq(M) /\ DOMAIN p = 1..Len(p) /\ Len(p) \in Nat /\ DOMAIN q = 1..Len(q) /\ Len(q) \in Nat
      /\ \A i \in DOMAIN q : q[i] = p[k + i] /\ k + i \in DOMAIN p
  BY SMT
<1> HIDE DEF q
<1>2. ASSUME NEW j \in DOMAIN q, NEW i \in 1..(j - 1) PROVE i \in DOMAIN q /\ k + i < k + j
  BY <1>1
<1>3. Thin(q, p)
  BY <1>1, <1>2 DEF Thin
<1> QED
  BY <1>1, <1>3 DEF q

LEMMA ThinWord ==
  ASSUME NEW M, NEW p \in Seq(M), NEW m \in M, Control(m)
  PROVE  Thin(Append(p, m), p) /\ Append(p, m) \in Seq(M)
<1> DEFINE q == Append(p, m)
<1>1. /\ q \in Seq(M) /\ DOMAIN p = 1..Len(p) /\ Len(p) \in Nat /\ DOMAIN q = 1..(Len(p) + 1)
      /\ \A i \in DOMAIN p : q[i] = p[i]
      /\ q[Len(p) + 1] = m
  OBVIOUS
<1>2. ~Worldly(m)
  BY DEF Control, Worldly
<1> HIDE DEF q
<1>3. \A i \in DOMAIN q : Worldly(q[i]) => i \in DOMAIN p /\ q[i] = p[i]
  BY <1>1, <1>2
<1>4. ASSUME NEW j \in DOMAIN q, NEW i \in 1..(j - 1) PROVE i \in DOMAIN q /\ i < j
  BY <1>1
<1>5. Thin(q, p)
  BY <1>3, <1>4 DEF Thin
<1> QED
  BY <1>1, <1>5 DEF q

\* What the network leaves of what is under way.
LEMMA ShrinksThin ==
  ASSUME NEW p \in Seq(Left \cup Sent), NEW q, NEW whole, NEW live, Shrinks(p, q, whole, live)
  PROVE  Thin(q, p) /\ q \in Seq(Left \cup Sent)
<1> DEFINE M == Left \cup Sent
<1>1. p \in Seq(M) /\ Len(p) \in Nat
  OBVIOUS
<1>2. CASE q = p
  BY <1>2, ThinSelf
<1>3. CASE \E n \in 0..Len(p) : q = SubSeq(p, 1, n)
  <2>1. PICK n \in 0..Len(p) : q = SubSeq(p, 1, n)
    BY <1>3
  <2> HIDE DEF M
  <2>2. Thin(SubSeq(p, 0 + 1, n), p) /\ SubSeq(p, 0 + 1, n) \in Seq(M)
    <3>1. 0 \in 0..Len(p)
      BY <1>1
    <3> QED
      BY <1>1, <3>1, ThinPart
  <2> QED
    BY <2>1, <2>2 DEF M
<1>4. CASE \E n \in 0..Len(p) : q = SubSeq(p, n + 1, Len(p))
  <2>1. PICK n \in 0..Len(p) : q = SubSeq(p, n + 1, Len(p))
    BY <1>4
  <2> HIDE DEF M
  <2>2. Thin(SubSeq(p, n + 1, Len(p)), p) /\ SubSeq(p, n + 1, Len(p)) \in Seq(M)
    <3>1. Len(p) \in 0..Len(p)
      BY <1>1
    <3> QED
      BY <1>1, <3>1, ThinPart
  <2> QED
    BY <2>1, <2>2 DEF M
<1>5. CASE p # <<>> /\ q = Tail(p)
  <2> HIDE DEF M
  <2>1. Tail(p) = SubSeq(p, 1 + 1, Len(p)) /\ 1 \in 0..Len(p) /\ Len(p) \in 0..Len(p)
    BY <1>1, <1>5
  <2>2. Thin(SubSeq(p, 1 + 1, Len(p)), p) /\ SubSeq(p, 1 + 1, Len(p)) \in Seq(M)
    BY <1>1, <2>1, ThinPart
  <2> QED
    BY <1>5, <2>1, <2>2 DEF M
<1>6. CASE \E m \in Left \cup Sent : Control(m) /\ q = Append(p, m)
  <2>1. PICK m \in M : Control(m) /\ q = Append(p, m)
    BY <1>6
  <2> HIDE DEF M
  <2> QED
    BY <1>1, <2>1, ThinWord DEF M
<1> QED
  BY <1>2, <1>3, <1>4, <1>5, <1>6 DEF Shrinks

LEMMA HearsThin ==
  ASSUME NEW d \in Seq(Told), NEW e, NEW was, NEW whole, Hears(d, e, was, whole)
  PROVE  Thin(e, d) /\ e \in Seq(Told)
<1>1. Len(d) \in Nat /\ Welcomes \subseteq Told /\ Ends \subseteq Told
  BY Words
<1>2. \A m \in Welcomes \cup Ends : Control(m)
  BY DEF Welcomes, Ends, Control
<1>3. CASE e = d
  BY <1>3, ThinSelf
<1>4. CASE \E n \in 0..Len(d) : e = SubSeq(d, 1, n)
  <2>1. PICK n \in 0..Len(d) : e = SubSeq(d, 1, n)
    BY <1>4
  <2>2. Thin(SubSeq(d, 0 + 1, n), d) /\ SubSeq(d, 0 + 1, n) \in Seq(Told)
    <3>1. 0 \in 0..Len(d)
      BY <1>1
    <3> QED
      BY <3>1, ThinPart
  <2> QED
    BY <2>1, <2>2
<1>5. ASSUME NEW m \in Told, Control(m), e = Append(d, m) PROVE Thin(e, d) /\ e \in Seq(Told)
  BY <1>5, ThinWord
<1>6. CASE \E m \in Welcomes, n \in Ends : e = Append(Append(d, m), n)
  <2>1. PICK m \in Welcomes, n \in Ends : e = Append(Append(d, m), n)
    BY <1>6
  <2>2. m \in Told /\ n \in Told /\ Control(m) /\ Control(n)
    BY <1>1, <1>2
  <2> DEFINE c == Append(d, m)
  <2>3. Thin(c, d) /\ c \in Seq(Told)
    BY <2>2, ThinWord
  <2> HIDE DEF c
  <2>4. Thin(Append(c, n), c) /\ Append(c, n) \in Seq(Told)
    BY <2>2, <2>3, ThinWord
  <2>5. Thin(Append(c, n), d)
    BY <2>3, <2>4, ThinThin
  <2> QED
    BY <2>1, <2>4, <2>5 DEF c
<1>7. CASE \E m \in Welcomes : e = Append(d, m)
  BY <1>1, <1>2, <1>5, <1>7
<1>8. CASE \E m \in Told : Control(m) /\ e = Append(d, m)
  BY <1>5, <1>8
<1> QED
  BY <1>3, <1>4, <1>6, <1>7, <1>8 DEF Hears

\* What is passed on is where it was, between the two.
LEMMA PassesWhole ==
  ASSUME NEW M, NEW d \in Seq(M), NEW p \in Seq(M), NEW e, NEW q, Passes(d, p, e, q)
  PROVE  e \o q = d \o p
<1>1. p # <<>> /\ e = Append(d, p[1]) /\ q = Tail(p) /\ p[1] \in M
  BY HeadOf DEF Passes
<1>2. e \in Seq(M) /\ q \in Seq(M) /\ d \o p \in Seq(M) /\ e \o q \in Seq(M)
  BY <1>1
<1>3. Len(e \o q) = Len(d \o p)
  BY <1>1
<1>4. \A i \in 1..Len(e \o q) : (e \o q)[i] = (d \o p)[i]
  BY <1>1
<1> QED
  BY <1>2, <1>3, <1>4, SeqEqual

LEMMA NetworkThin ==
  ASSUME TypeOK, TypeOK', Network
  PROVE  Thin(Way', Way)
<1>1. "Host" \in Roles /\ "Join" \in Roles /\ Other("Host") = "Join" /\ Other("Join") = "Host"
  BY DEF Roles, Other
<1> DEFINE M == Left \cup Sent \cup Told
           d == down["Join"]
           p == Line("Host")
           e == down'["Join"]
           q == Line("Host")'
<1>2. d \in Seq(Told) /\ p \in Seq(Left \cup Sent) /\ d \in Seq(M) /\ p \in Seq(M) /\ d \o p \in Seq(M)
  <2>1. d \in Seq(Told) /\ p \in Seq(Left \cup Sent) /\ d \in Seq(M) /\ p \in Seq(M)
    BY <1>1, Parts, LineType, WayType
  <2> HIDE DEF d, p, M
  <2> QED
    BY <2>1
<1>3. Way = d \o p /\ Way' = e \o q
  BY DEF Way
<1>4. CASE Passes(d, p, e, q)
  <2> HIDE DEF d, p, e, q, M
  <2>1. e \o q = d \o p
    BY <1>2, <1>4, PassesWhole
  <2> QED
    BY <1>2, <1>3, <2>1, ThinSelf
<1>5. ASSUME NEW whole, NEW live, NEW was, NEW full, Shrinks(p, q, whole, live), Hears(d, e, was, full)
      PROVE  Thin(Way', Way)
  <2> HIDE DEF d, p, e, q
  <2>1. Thin(q, p) /\ q \in Seq(Left \cup Sent) /\ Thin(e, d) /\ e \in Seq(Told)
    BY <1>2, <1>5, ShrinksThin, HearsThin
  <2>2. q \in Seq(M) /\ e \in Seq(M)
    BY <2>1
  <2> HIDE DEF M
  <2> QED
    BY <1>2, <1>3, <2>1, <2>2, ThinConcat
<1>6. Carries("Host")
  BY <1>1 DEF Network
<1>7. Passes(d, p, e, q) \/ \E whole, live, was, full : Shrinks(p, q, whole, live) /\ Hears(d, e, was, full)
  BY <1>1, <1>6 DEF Carries
<1> HIDE DEF d, p, e, q
<1> QED
  BY <1>4, <1>5, <1>7

\* What leaves the world as it is.
LEMMA WorldsKept ==
  ASSUME TypeOK, Worlds, Thin(Way', Way), history' = history,
         Playing' => Playing /\ Steady(host', host),
         \/ join'.have = join.have /\ join'.base = join.base /\ join'.epoch = join.epoch /\ join'.shown = join.shown
         \/ join' = NoJoiner
  PROVE  Worlds'
<1>1. /\ join'.shown <= join.shown /\ join'.base <= join.base
      /\ join'.have => join.have /\ join'.epoch = join.epoch /\ join'.shown = join.shown
      /\ join.shown \in Nat /\ join.base \in Nat /\ join'.shown \in Nat /\ join'.base \in Nat
  BY DEF TypeOK, Joiners, NoJoiner
<1>2. Way \in Seq(Left \cup Sent \cup Told)
  BY WayType
<1> DEFINE v == Way'
           w == Way
<1>3. /\ \A j \in DOMAIN v : Worldly(v[j]) => \E a \in DOMAIN w : v[j] = w[a]
      /\ \A j \in DOMAIN v : \A i \in 1..(j - 1) : Worldly(v[i]) /\ Worldly(v[j]) =>
           \E a, b \in DOMAIN w : a < b /\ v[i] = w[a] /\ v[j] = w[b]
  BY DEF Thin
<1>4. /\ \A i \in DOMAIN w : Worldly(w[i]) =>
           /\ Placed(w[i].epoch, w[i].world, history.floors)
           /\ join.shown <= w[i].world
           /\ Playing => w[i].world <= host.world
      /\ \A i \in DOMAIN w : Completes(w[i]) =>
           /\ join.base < w[i].id
           /\ Playing => w[i].id <= host.ckpt
      /\ \A j \in DOMAIN w : \A i \in 1..(j - 1) : Ascends(w[i], w[j])
  BY DEF Worlds
<1>5. \A i \in DOMAIN w : w[i] \in Left \cup Sent \cup Told
  <2> HIDE DEF w
  <2>1. w \in Seq(Left \cup Sent \cup Told)
    BY <1>2 DEF w
  <2> QED
    BY <2>1
<1>7. DOMAIN w = 1..Len(w)
  BY <1>2
<1>8. Way' = v
  OBVIOUS
<1> HIDE DEF v, w
<1>9. ASSUME NEW i \in DOMAIN v, Worldly(v[i])
      PROVE  /\ Placed(v[i].epoch, v[i].world, history.floors)
             /\ join'.shown <= v[i].world
             /\ Playing' => v[i].world <= host'.world
             /\ Completes(v[i]) => /\ join'.base < v[i].id
                                   /\ Playing' => v[i].id <= host'.ckpt
  <2>1. PICK a \in DOMAIN w : v[i] = w[a]
    BY <1>3, <1>9
  <2>2. w[a] \in Left \cup Sent \cup Told
    BY <1>5
  <2>3. /\ w[a].world \in Nat /\ (Completes(w[a]) => w[a].id \in Nat)
    <3> DEFINE m == w[a]
    <3>1. m \in Left \cup Sent \cup Told /\ Worldly(m)
      BY <1>9, <2>1, <2>2
    <3> HIDE DEF m
    <3>2. m.world \in Nat /\ (Completes(m) => m.id \in Nat)
      BY <3>1, Kinds DEF Worldly, Completes, Chunks, Pulses
    <3> QED
      BY <3>2 DEF m
  <2>4. /\ Placed(w[a].epoch, w[a].world, history.floors)
        /\ join.shown <= w[a].world
        /\ Playing => w[a].world <= host.world
    BY <1>4, <1>9, <2>1
  <2>5. join'.shown <= w[a].world
    BY <1>1, <2>3, <2>4
  <2>6. Completes(w[a]) => join'.base < w[a].id
    BY <1>1, <1>4, <2>3
  <2>7. Playing' => w[a].world <= host'.world /\ (Completes(w[a]) => w[a].id <= host'.ckpt)
    BY <1>4, <2>4 DEF Steady
  <2> QED
    BY <2>1, <2>4, <2>5, <2>6, <2>7
<1>10. ASSUME NEW j \in DOMAIN v, NEW i \in 1..(j - 1) PROVE Ascends(v[i], v[j])
  <2>1. SUFFICES ASSUME Worldly(v[i]) /\ Worldly(v[j]) PROVE Ascends(v[i], v[j])
    BY DEF Ascends, Worldly, Completes
  <2>2. PICK a, b \in DOMAIN w : a < b /\ v[i] = w[a] /\ v[j] = w[b]
    BY <1>3, <2>1
  <2>3. a \in 1..(b - 1)
    BY <1>7, <2>2
  <2> QED
    BY <1>4, <2>2, <2>3
<1>11. \A i \in DOMAIN v : Completes(v[i]) => Worldly(v[i])
  BY DEF Completes, Worldly
<1>12. Playing' =>
           /\ host'.epoch = Len(history.floors) /\ host'.epoch >= 1
           /\ history.floors[host'.epoch] <= host'.world
           /\ join'.shown <= host'.world
           /\ join'.base <= host'.ckpt /\ host'.ckpt <= history.ids
  <2>1. SUFFICES ASSUME Playing' PROVE
           /\ host'.epoch = Len(history.floors) /\ host'.epoch >= 1
           /\ history.floors[host'.epoch] <= host'.world
           /\ join'.shown <= host'.world
           /\ join'.base <= host'.ckpt /\ host'.ckpt <= history.ids
    OBVIOUS
  <2>2. host'.epoch = host.epoch /\ host'.world = host.world /\ host'.ckpt = host.ckpt /\ Playing
    BY <2>1 DEF Steady
  <2>3. host.world \in Nat /\ host.ckpt \in Nat
    BY DEF TypeOK, Hosts
  <2>4. /\ host.epoch = Len(history.floors) /\ host.epoch >= 1
        /\ history.floors[host.epoch] <= host.world
        /\ join.shown <= host.world
        /\ join.base <= host.ckpt /\ host.ckpt <= history.ids
    BY <2>2 DEF Worlds
  <2>5. join'.shown <= host.world /\ join'.base <= host.ckpt
    BY <1>1, <2>3, <2>4
  <2> QED
    BY <2>2, <2>4, <2>5
<1>13. join'.have => Placed(join'.epoch, join'.shown, history.floors)
  BY <1>1 DEF Worlds
<1> QED
  BY <1>8, <1>9, <1>10, <1>11, <1>12, <1>13 DEF Worlds

-----------------------------------------------------------------------------
(* The world goes on *)

\* A moment of a floor stays one, when the world goes on behind it.
LEMMA PlacedStill ==
  ASSUME TypeOK, Worlds, Playing, NEW h \in Hosts, NEW floors, Proceeds(h, floors), NEW e \in Nat, NEW w \in Nat,
         Placed(e, w, history.floors), w <= host.world
  PROVE  Placed(e, w, floors) /\ w <= h.world
<1>1. /\ history.floors \in Seq(Nat) /\ host.world \in Nat /\ host.epoch \in Nat /\ h.world \in Nat
      /\ host.epoch = Len(history.floors)
  BY DEF TypeOK, Hosts, Worlds
<1> DEFINE f == history.floors
<1>2. f \in Seq(Nat) /\ DOMAIN f = 1..Len(f) /\ Len(f) \in Nat
  BY <1>1
<1> HIDE DEF f
<1>3. Placed(e, w, f)
  BY DEF f
<1>4. CASE floors = f /\ host.world <= h.world
  BY <1>1, <1>3, <1>4
<1>5. CASE host.world < h.world /\ floors = Append(f, h.world)
  <2>1. /\ DOMAIN floors = 1..(Len(f) + 1) /\ Len(floors) = Len(f) + 1 /\ floors[Len(f) + 1] = h.world
        /\ \A i \in 1..Len(f) : floors[i] = f[i]
    BY <1>1, <1>2, <1>5
  <2>2. e \in 1..Len(f) /\ f[e] <= w /\ (e < Len(f) => w < f[e + 1])
    BY <1>2, <1>3 DEF Placed
  <2>3. e \in DOMAIN floors /\ floors[e] <= w
    BY <1>2, <2>1, <2>2
  <2>4. w < h.world
    BY <1>1, <1>5
  <2>5. e < Len(floors) => w < floors[e + 1]
    <3>1. CASE e < Len(f)
      <4>1. e + 1 \in 1..Len(f)
        BY <1>2, <2>2, <3>1
      <4> QED
        BY <2>1, <2>2, <3>1, <4>1
    <3>2. CASE e = Len(f)
      BY <2>1, <2>4, <3>2
    <3>3. e < Len(f) \/ e = Len(f)
      <4>1. e \in 1..Len(f)
        BY <2>2
      <4>2. Len(f) \in Nat
        BY <1>2
      <4> QED
        BY <4>1, <4>2
    <3> QED
      BY <3>1, <3>2, <3>3
  <2> QED
    BY <1>1, <2>3, <2>4, <2>5 DEF Placed
<1> QED
  BY <1>1, <1>4, <1>5 DEF Proceeds, f

\* It is where its last floor is.
LEMMA GoesPlaced ==
  ASSUME TypeOK, Worlds, Playing, NEW h \in Hosts, NEW floors, Proceeds(h, floors)
  PROVE  /\ Placed(h.epoch, h.world, floors)
         /\ h.epoch = Len(floors) /\ h.epoch >= 1 /\ floors[h.epoch] <= h.world
<1>1. /\ history.floors \in Seq(Nat) /\ host.world \in Nat /\ host.epoch \in Nat /\ h.world \in Nat
      /\ host.epoch = Len(history.floors) /\ host.epoch >= 1 /\ history.floors[host.epoch] <= host.world
  BY DEF TypeOK, Hosts, Worlds
<1> DEFINE f == history.floors
<1>2. f \in Seq(Nat) /\ DOMAIN f = 1..Len(f) /\ Len(f) \in Nat /\ \A i \in 1..Len(f) : f[i] \in Nat
  BY <1>1
<1>3. host.epoch = Len(f) /\ host.epoch >= 1 /\ f[host.epoch] <= host.world
  BY <1>1
<1>4. \/ h.epoch = host.epoch /\ floors = f /\ host.world <= h.world
      \/ h.epoch = host.epoch + 1 /\ host.world < h.world /\ floors = Append(f, h.world)
  BY DEF Proceeds
<1> HIDE DEF f
<1>5. CASE h.epoch = host.epoch /\ floors = f /\ host.world <= h.world
  <2>1. host.epoch \in 1..Len(f) /\ f[host.epoch] \in Nat
    BY <1>1, <1>2, <1>3
  <2>2. h.epoch = Len(floors) /\ h.epoch >= 1 /\ h.epoch \in DOMAIN floors /\ floors[h.epoch] <= h.world
    BY <1>1, <1>2, <1>3, <1>5, <2>1
  <2>3. ~(h.epoch < Len(floors))
    BY <1>2, <2>2, <1>5
  <2> QED
    BY <2>2, <2>3 DEF Placed
<1>6. CASE h.epoch = host.epoch + 1 /\ host.world < h.world /\ floors = Append(f, h.world)
  <2>1. /\ DOMAIN floors = 1..(Len(f) + 1) /\ Len(floors) = Len(f) + 1 /\ floors[Len(f) + 1] = h.world
    BY <1>1, <1>2, <1>6
  <2>2. h.epoch = Len(floors) /\ h.epoch >= 1 /\ h.epoch \in DOMAIN floors /\ floors[h.epoch] = h.world
    BY <1>1, <1>2, <1>3, <1>6, <2>1
  <2>3. ~(h.epoch < Len(floors))
    BY <1>2, <2>1, <2>2
  <2> QED
    BY <1>1, <2>2, <2>3 DEF Placed
<1> QED
  BY <1>4, <1>5, <1>6

\* What the host's own actions leave of the world.
LEMMA HostActsWorlds ==
  ASSUME Wires, Worlds, NEW msgs, HostActs(msgs)
  PROVE  Worlds'
<1> DEFINE w == Way
           v == Way'
           floors == history'.floors
           h == host'
<1>1. /\ TypeOK /\ Playing /\ h \in Hosts /\ Proceeds(h, floors) /\ join' = join
      /\ history.ids \in Nat /\ Latest = history.ids + 1 /\ history'.ids \in {history.ids, Latest}
      /\ host.ckpt \in Nat /\ host.world \in Nat /\ h.world \in Nat /\ h.epoch \in Nat /\ h.ckpt \in Nat
      /\ join.shown \in Nat /\ join.base \in Nat /\ join.epoch \in Nat
      /\ msgs \in Seq(Sent)
      /\ (h.ckpt = Latest /\ history'.ids = Latest) \/ h.ckpt = host.ckpt
      /\ Whole(msgs) => h.ckpt = Latest
      /\ Tells(msgs, h)
  BY DEF HostActs, Wires, TypeOK, Hosts, Latest, Joiners
<1>2. v = w \o msgs \/ v = w
  BY HostActsKeeps
<1>3. w \in Seq(Left \cup Sent \cup Told)
  BY <1>1, WayType
<1>4. /\ \A i \in DOMAIN w : Worldly(w[i]) =>
           /\ Placed(w[i].epoch, w[i].world, history.floors)
           /\ join.shown <= w[i].world /\ w[i].world <= host.world
      /\ \A i \in DOMAIN w : Completes(w[i]) => join.base < w[i].id /\ w[i].id <= host.ckpt
      /\ \A j \in DOMAIN w : \A i \in 1..(j - 1) : Ascends(w[i], w[j])
  BY <1>1 DEF Worlds
<1>5. /\ join.shown <= host.world /\ join.base <= host.ckpt /\ host.ckpt <= history.ids
      /\ join.have => Placed(join.epoch, join.shown, history.floors)
  BY <1>1 DEF Worlds
<1>6. v = Way' /\ floors = history'.floors
  OBVIOUS
<1> HIDE DEF w, v, floors
<1>7. /\ DOMAIN w = 1..Len(w) /\ Len(w) \in Nat /\ DOMAIN msgs = 1..Len(msgs) /\ Len(msgs) \in Nat
      /\ \A i \in DOMAIN w : w[i] \in Left \cup Sent \cup Told
  BY <1>1, <1>3
<1>8. /\ DOMAIN v = 1..Len(v) /\ Len(v) \in Nat
      /\ \A i \in DOMAIN v : \/ i \in DOMAIN w /\ v[i] = w[i]
                             \/ i > Len(w) /\ i - Len(w) \in DOMAIN msgs /\ v[i] = msgs[i - Len(w)]
  <2>1. CASE v = w
    BY <1>7, <2>1
  <2>2. CASE v = w \o msgs
    <3> DEFINE M == Left \cup Sent \cup Told
    <3>1. msgs \in Seq(M) /\ w \in Seq(M)
      BY <1>1, <1>3
    <3> HIDE DEF M
    <3>2. /\ DOMAIN v = 1..(Len(w) + Len(msgs)) /\ Len(v) = Len(w) + Len(msgs)
          /\ \A i \in 1..Len(w) : v[i] = w[i]
          /\ \A i \in 1..Len(msgs) : v[Len(w) + i] = msgs[i]
      BY <2>2, <3>1, SumOf
    <3>3. ASSUME NEW i \in DOMAIN v
          PROVE  \/ i \in DOMAIN w /\ v[i] = w[i]
                 \/ i > Len(w) /\ i - Len(w) \in DOMAIN msgs /\ v[i] = msgs[i - Len(w)]
      <4>1. CASE i <= Len(w)
        BY <1>7, <3>2, <4>1
      <4>2. CASE i > Len(w)
        <5>1. i - Len(w) \in 1..Len(msgs) /\ Len(w) + (i - Len(w)) = i
          BY <1>7, <3>2, <4>2
        <5>2. v[Len(w) + (i - Len(w))] = msgs[i - Len(w)]
          BY <3>2, <5>1
        <5> QED
          BY <1>7, <4>2, <5>1, <5>2
      <4> QED
        BY <1>7, <3>2, <4>1, <4>2
    <3> QED
      BY <1>7, <3>2, <3>3
  <2> QED
    BY <1>2, <2>1, <2>2
<1>9. host.world <= h.world /\ host.ckpt <= h.ckpt /\ h.ckpt <= history'.ids /\ host.ckpt < Latest
  BY <1>1, <1>5 DEF Proceeds
<1>10. /\ Placed(h.epoch, h.world, floors)
       /\ h.epoch = Len(floors) /\ h.epoch >= 1 /\ floors[h.epoch] <= h.world
  BY <1>1, GoesPlaced
<1>11. ASSUME NEW i \in DOMAIN w, Worldly(w[i])
       PROVE  /\ Placed(w[i].epoch, w[i].world, floors) /\ join.shown <= w[i].world /\ w[i].world <= host.world
              /\ w[i].world <= h.world /\ w[i].world \in Nat
  <2> DEFINE m == w[i]
  <2>1. m \in Left \cup Sent \cup Told /\ Worldly(m)
    BY <1>7, <1>11
  <2>2. Placed(m.epoch, m.world, history.floors) /\ join.shown <= m.world /\ m.world <= host.world
    BY <1>4, <1>11
  <2> HIDE DEF m
  <2>3. m.epoch \in Nat /\ m.world \in Nat
    BY <2>1, Kinds DEF Worldly, Chunks, Pulses
  <2>4. Placed(m.epoch, m.world, floors) /\ m.world <= h.world
    BY <1>1, <2>2, <2>3, PlacedStill
  <2> QED
    BY <2>2, <2>3, <2>4 DEF m
<1>12. ASSUME NEW i \in DOMAIN w, Completes(w[i])
       PROVE  join.base < w[i].id /\ w[i].id <= host.ckpt /\ w[i].id <= h.ckpt /\ w[i].id < Latest
  <2> DEFINE m == w[i]
  <2>1. m \in Left \cup Sent \cup Told /\ Completes(m) /\ join.base < m.id /\ m.id <= host.ckpt
    BY <1>4, <1>7, <1>12
  <2> HIDE DEF m
  <2>2. m.id \in Nat
    BY <2>1, Kinds DEF Completes, Chunks
  <2>3. m.id <= h.ckpt /\ m.id < Latest
    BY <1>1, <1>9, <2>1, <2>2
  <2> QED
    BY <2>1, <2>3 DEF m
<1>13. ASSUME NEW i \in DOMAIN msgs
       PROVE  /\ Worldly(msgs[i]) => msgs[i].epoch = h.epoch /\ msgs[i].world = h.world
              /\ Completes(msgs[i]) => msgs[i].id = Latest /\ h.ckpt = Latest
  BY <1>1 DEF Tells, Whole
<1>14. join.shown <= h.world /\ join.base <= h.ckpt /\ join.base < Latest
  BY <1>1, <1>5, <1>9
<1>15. \A i \in DOMAIN v : Worldly(v[i]) =>
         /\ Placed(v[i].epoch, v[i].world, floors)
         /\ join.shown <= v[i].world /\ v[i].world <= h.world
  <2> SUFFICES ASSUME NEW i \in DOMAIN v, Worldly(v[i])
      PROVE /\ Placed(v[i].epoch, v[i].world, floors)
            /\ join.shown <= v[i].world /\ v[i].world <= h.world
    OBVIOUS
  <2>1. CASE i \in DOMAIN w /\ v[i] = w[i]
    BY <1>11, <2>1
  <2>2. CASE i - Len(w) \in DOMAIN msgs /\ v[i] = msgs[i - Len(w)]
    <3>1. v[i].epoch = h.epoch /\ v[i].world = h.world
      BY <1>13, <2>2
    <3> QED
      BY <1>1, <1>10, <1>14, <3>1
  <2> QED
    BY <1>8, <2>1, <2>2
<1>16. \A i \in DOMAIN v : Completes(v[i]) => join.base < v[i].id /\ v[i].id <= h.ckpt
  <2> SUFFICES ASSUME NEW i \in DOMAIN v, Completes(v[i]) PROVE join.base < v[i].id /\ v[i].id <= h.ckpt
    OBVIOUS
  <2>1. CASE i \in DOMAIN w /\ v[i] = w[i]
    BY <1>12, <2>1
  <2>2. CASE i - Len(w) \in DOMAIN msgs /\ v[i] = msgs[i - Len(w)]
    <3>1. v[i].id = Latest /\ h.ckpt = Latest
      BY <1>13, <2>2
    <3> QED
      BY <1>1, <1>14, <3>1
  <2> QED
    BY <1>8, <2>1, <2>2
<1>17. \A j \in DOMAIN v : \A i \in 1..(j - 1) : Ascends(v[i], v[j])
  <2> SUFFICES ASSUME NEW j \in DOMAIN v, NEW i \in 1..(j - 1) PROVE Ascends(v[i], v[j])
    OBVIOUS
  <2>1. i \in DOMAIN v /\ i < j /\ i \in Nat /\ j \in Nat
    BY <1>8
  <2>2. CASE j \in DOMAIN w /\ v[j] = w[j]
    <3>1. i \in DOMAIN w /\ v[i] = w[i]
      BY <1>7, <1>8, <2>1, <2>2
    <3> QED
      BY <1>4, <2>2, <3>1
  <2>3. CASE j > Len(w) /\ j - Len(w) \in DOMAIN msgs /\ v[j] = msgs[j - Len(w)]
    <3>1. CASE i \in DOMAIN w /\ v[i] = w[i]
      <4>1. Worldly(v[i]) /\ Worldly(v[j]) => v[i].world <= v[j].world
        BY <1>11, <1>13, <2>3, <3>1
      <4>2. Completes(v[i]) /\ Completes(v[j]) => v[i].id < v[j].id
        BY <1>12, <1>13, <2>3, <3>1
      <4> QED
        BY <4>1, <4>2 DEF Ascends
    <3>2. CASE i > Len(w) /\ i - Len(w) \in DOMAIN msgs /\ v[i] = msgs[i - Len(w)]
      <4>1. i - Len(w) \in 1..((j - Len(w)) - 1)
        BY <1>7, <2>1, <3>2
      <4>2. ~(Completes(v[i]) /\ Completes(v[j]))
        BY <1>1, <2>3, <3>2, <4>1 DEF Tells
      <4>3. Worldly(v[i]) /\ Worldly(v[j]) => v[i].world <= v[j].world
        BY <1>1, <1>13, <2>3, <3>2
      <4> QED
        BY <4>2, <4>3 DEF Ascends
    <3> QED
      BY <1>8, <2>1, <3>1, <3>2
  <2> QED
    BY <1>8, <2>2, <2>3
<1>18. join.have => Placed(join.epoch, join.shown, floors)
  BY <1>1, <1>5, PlacedStill
<1> QED
  BY <1>1, <1>6, <1>9, <1>10, <1>14, <1>15, <1>16, <1>17, <1>18 DEF Worlds

\* The joiner after k messages, on the way the rest of them take.
WorldAt(a, k) ==
  /\ \A i \in DOMAIN Way : i > k =>
       /\ Worldly(Way[i]) => a.shown <= Way[i].world
       /\ Completes(Way[i]) => a.base < Way[i].id
  /\ Playing => a.shown <= host.world /\ a.base <= host.ckpt
  /\ a.have => Placed(a.epoch, a.shown, history.floors)
  /\ join.shown <= a.shown /\ join.base <= a.base

LEMMA JoinReadsWorlds ==
  ASSUME TypeOK, Worlds, NEW n \in 0..Len(down["Join"]), NEW I, NEW R, Trail("Join", n, I), JoinReads(n, I, R)
  PROVE  \A k \in 0..n : WorldAt(R[k].j, k)
<1> DEFINE S == {k \in 0..n : WorldAt(R[k].j, k)}
           w == Way
           d == down["Join"]
           l == Line("Host")
           M == Left \cup Sent \cup Told
<1>1. "Join" \in Roles /\ "Host" \in Roles /\ n \in Nat /\ join \in Joiners
  BY Parts DEF Roles, TypeOK
<1>2. d \in Seq(M) /\ l \in Seq(M) /\ w = d \o l /\ w \in Seq(M)
  <2>1. d \in Seq(M) /\ l \in Seq(M) /\ w \in Seq(M)
    BY WayType
  <2> QED
    BY <2>1 DEF Way
<1>3. /\ \A i \in DOMAIN w : Worldly(w[i]) =>
           /\ Placed(w[i].epoch, w[i].world, history.floors)
           /\ join.shown <= w[i].world
           /\ Playing => w[i].world <= host.world
      /\ \A i \in DOMAIN w : Completes(w[i]) =>
           /\ join.base < w[i].id
           /\ Playing => w[i].id <= host.ckpt
      /\ \A j \in DOMAIN w : \A i \in 1..(j - 1) : Ascends(w[i], w[j])
  BY DEF Worlds
<1>4. /\ DOMAIN w = 1..Len(w) /\ Len(w) \in Nat /\ n <= Len(w) /\ \A i \in 1..n : w[i] = d[i] /\ i \in DOMAIN w
      /\ \A i \in DOMAIN w : w[i] \in M
  <2> HIDE DEF w, d, l, M
  <2>1. n \in 0..Len(d)
    BY DEF d
  <2> QED
    BY <1>2, <2>1
<1>5. w = Way
  OBVIOUS
<1> HIDE DEF w
<1>6. 0 \in S
  <2>1. I[n].events \in Seq(Events) /\ Seat \in Seats
    BY <1>1, SeatTyped DEF Trail, Ins
  <2>2. R[0] \in Seats /\ Reseated(Seat, R[0]) /\ (R[0].j.have => Seat.j.have)
    BY <2>1, JoinToldIs DEF JoinReads
  <2>3. R[0].j.shown = join.shown /\ R[0].j.base = join.base /\ R[0].j.epoch = join.epoch
        /\ (R[0].j.have => join.have)
    BY <1>1, <2>2 DEF Reseated, Seat, Joiners
  <2>4. WorldAt(R[0].j, 0)
    <3>1. join.shown \in Nat /\ join.base \in Nat
      BY <1>1 DEF Joiners
    <3> QED
      BY <2>3, <3>1 DEF WorldAt, Worlds
  <2> QED
    BY <1>1, <2>4
<1>7. ASSUME NEW k \in 0..(n - 1), k \in S PROVE k + 1 \in S
  <2> DEFINE m == down["Join"][k + 1]
             a == R[k]
             b == R[k + 1]
  <2>1. k + 1 \in 1..n /\ (k + 1) - 1 = k /\ k + 1 \in 0..n /\ k \in Nat
    BY <1>1
  <2>2. m \in Told /\ a \in Seats /\ b \in Seats /\ JoinStep(I[n].phase, a, m, b)
    <3>1. /\ down["Join"][k + 1] \in Told /\ R[(k + 1) - 1] \in Seats /\ R[k + 1] \in Seats
          /\ JoinStep(I[n].phase, R[(k + 1) - 1], down["Join"][k + 1], R[k + 1])
      BY <2>1, JoinSteps
    <3> QED
      BY <2>1, <3>1
  <2>3. w[k + 1] = m /\ k + 1 \in DOMAIN w
    BY <1>4, <2>1
  <2>4. WorldAt(a.j, k)
    BY <1>7
  <2>5. /\ a.j.shown \in Nat /\ a.j.base \in Nat /\ join.shown \in Nat /\ join.base \in Nat
    BY <1>1, <2>2 DEF Seats, Joiners
  <2> SUFFICES WorldAt(b.j, k + 1)
    BY <2>1
  <2> HIDE DEF m, a, b
  <2>6. /\ \A i \in DOMAIN w : i > k =>
             /\ Worldly(w[i]) => a.j.shown <= w[i].world
             /\ Completes(w[i]) => a.j.base < w[i].id
        /\ Playing => a.j.shown <= host.world /\ a.j.base <= host.ckpt
        /\ a.j.have => Placed(a.j.epoch, a.j.shown, history.floors)
        /\ join.shown <= a.j.shown /\ join.base <= a.j.base
    BY <1>5, <2>4 DEF WorldAt
  <2>7. \A i \in DOMAIN w : i > k + 1 => i > k /\ Ascends(w[k + 1], w[i])
    <3> TAKE i \in DOMAIN w
    <3> HAVE i > k + 1
    <3>1. k + 1 \in 1..(i - 1) /\ i > k
      BY <1>4, <2>1
    <3> QED
      BY <1>3, <3>1
  <2>8. k + 1 > k
    BY <2>1
  <2>9. CASE Worldly(m) /\ b.j.have /\ b.j.shown = m.world /\ b.j.epoch = m.epoch
             /\ (b.j.base = a.j.base \/ (Completes(m) /\ b.j.base = m.id))
    <3>1. m \in M /\ m.world \in Nat /\ (Completes(m) => m.id \in Nat)
      <4>1. m \in Left \cup Sent \cup Told
        BY <2>2
      <4> QED
        BY <2>9, <4>1, Kinds DEF Worldly, Completes, Chunks, Pulses
    <3>2. /\ Placed(m.epoch, m.world, history.floors) /\ (Playing => m.world <= host.world)
          /\ a.j.shown <= m.world
          /\ Completes(m) => a.j.base < m.id /\ (Playing => m.id <= host.ckpt)
      BY <1>3, <2>3, <2>6, <2>8, <2>9
    <3>3. ASSUME NEW i \in DOMAIN w, i > k + 1
          PROVE  /\ Worldly(w[i]) => b.j.shown <= w[i].world
                 /\ Completes(w[i]) => b.j.base < w[i].id
      <4>1. Ascends(m, w[i]) /\ i > k
        BY <2>3, <2>7, <3>3
      <4>2. Worldly(w[i]) => m.world <= w[i].world
        BY <2>9, <4>1 DEF Ascends
      <4>3. Completes(m) /\ Completes(w[i]) => m.id < w[i].id
        BY <4>1 DEF Ascends
      <4>4. Completes(w[i]) => a.j.base < w[i].id
        BY <2>6, <4>1
      <4> QED
        BY <2>9, <4>2, <4>3, <4>4
    <3>4. join.shown <= b.j.shown /\ join.base <= b.j.base
      BY <2>5, <2>6, <2>9, <3>1, <3>2
    <3>5. /\ Playing => b.j.shown <= host.world /\ b.j.base <= host.ckpt
          /\ b.j.have => Placed(b.j.epoch, b.j.shown, history.floors)
      BY <2>6, <2>9, <3>2
    <3> QED
      BY <1>5, <3>3, <3>4, <3>5 DEF WorldAt
  <2>10. CASE AsBefore(a, b)
    <3>1. /\ b.j.have = a.j.have /\ b.j.base = a.j.base /\ b.j.epoch = a.j.epoch /\ b.j.shown = a.j.shown
      BY <2>10 DEF AsBefore
    <3> QED
      BY <1>5, <2>6, <2>7, <3>1 DEF WorldAt
  <2>11. CASE Completed(I[n].phase, a, m, b)
    BY <2>9, <2>11 DEF Completed, Completes, Worldly
  <2>12. CASE Showed(a, m, b)
    BY <2>9, <2>12 DEF Showed, Worldly
  <2> QED
    BY <2>2, <2>10, <2>11, <2>12 DEF JoinStep
<1> HIDE DEF S
<1>8. \A k \in 0..n : k \in S
  BY <1>1, <1>6, <1>7, Climbs
<1> QED
  BY <1>8 DEF S

\* What the joiner's frame leaves of the world.
LEMMA JoinFrameWorlds ==
  ASSUME Wires, Worlds, NEW n \in 1..Len(down["Join"]), NEW I, NEW R, JoinFramed(n, I, R),
         ~Leaves(I[n].phase, R[n].j.ended)
  PROVE  /\ Worlds' /\ join'.shown >= join.shown
         /\ Len(Way') = Len(Way) - n /\ \A i \in 1..(Len(Way) - n) : Way'[i] = Way[n + i]
         /\ \A i \in 1..n : Way[i] = down["Join"][i] /\ i \in DOMAIN Way
<1> DEFINE w == Way
           v == Way'
           d == down["Join"]
           e == down'["Join"]
           l == Line("Host")
           M == Left \cup Sent \cup Told
<1>1. /\ host' = host /\ join' = R[n].j /\ history' = history /\ (Playing' <=> Playing)
      /\ Len(e) = Len(d) - n /\ \A i \in 1..(Len(d) - n) : e[i] = d[n + i]
      /\ Line("Host")' = l /\ Wires'
  BY JoinFrameKeeps
<1>2. n \in Nat /\ n \in 0..Len(d) /\ n \in 0..n /\ TypeOK /\ TypeOK' /\ join \in Joiners /\ join' \in Joiners
  <2>1. TypeOK /\ TypeOK'
    BY <1>1 DEF Wires
  <2>2. "Join" \in Roles
    BY DEF Roles
  <2>3. n \in Nat /\ n \in 0..Len(d) /\ n \in 0..n
    BY <2>1, <2>2, Parts
  <2> QED
    BY <2>1, <2>3 DEF TypeOK
<1>3. WorldAt(join', n)
  <2>1. Trail("Join", n, I) /\ JoinReads(n, I, R)
    BY DEF JoinFramed
  <2>2. \A k \in 0..n : WorldAt(R[k].j, k)
    BY <1>2, <2>1, JoinReadsWorlds DEF Wires
  <2> QED
    BY <1>1, <1>2, <2>2
<1>4. d \in Seq(M) /\ l \in Seq(M) /\ w = d \o l /\ w \in Seq(M) /\ e \in Seq(M) /\ v = e \o l /\ v \in Seq(M)
  <2>1. d \in Seq(M) /\ l \in Seq(M) /\ w \in Seq(M)
    BY <1>2, WayType
  <2>2. e \in Seq(M)
    <3>1. e \in Seq(Told)
      BY <1>2 DEF TypeOK, Roles
    <3> HIDE DEF e
    <3> QED
      BY <3>1
  <2>3. w = d \o l /\ v = e \o l
    BY <1>1 DEF Way
  <2> HIDE DEF w, v, d, e, l, M
  <2> QED
    BY <2>1, <2>2, <2>3
<1>5. /\ v = Way' /\ w = Way /\ d = down["Join"]
  OBVIOUS
<1> HIDE DEF w, v, d, e, l, M
<1>6. /\ Len(v) = Len(w) - n /\ Len(w) \in Nat /\ Len(v) \in Nat
      /\ DOMAIN v = 1..(Len(w) - n) /\ DOMAIN w = 1..Len(w)
      /\ \A i \in 1..n : w[i] = d[i] /\ i \in DOMAIN w
  <2>1. Len(d) \in Nat /\ Len(l) \in Nat /\ Len(e) \in Nat /\ n <= Len(d) /\ Len(e) = Len(d) - n
    BY <1>1, <1>2, <1>4
  <2>2. Len(w) = Len(d) + Len(l) /\ Len(v) = Len(e) + Len(l) /\ DOMAIN v = 1..Len(v) /\ DOMAIN w = 1..Len(w)
    BY <1>4
  <2>3. Len(v) = Len(w) - n /\ Len(w) \in Nat /\ Len(v) \in Nat
    BY <1>2, <2>1, <2>2
  <2>4. ASSUME NEW i \in 1..n PROVE w[i] = d[i] /\ i \in DOMAIN w
    <3>1. i \in 1..Len(d)
      BY <1>2, <2>1
    <3> QED
      BY <1>4, <3>1
  <2> QED
    BY <2>2, <2>3, <2>4
<1>7. \A i \in 1..(Len(w) - n) : v[i] = w[n + i]
  <2> TAKE i \in 1..(Len(w) - n)
  <2>0. Len(d) \in Nat /\ Len(l) \in Nat /\ Len(w) = Len(d) + Len(l)
    BY <1>4
  <2>1. CASE i <= Len(d) - n
    <3>1. i \in 1..(Len(d) - n) /\ n + i \in 1..Len(d)
      BY <1>2, <2>0, <2>1
    <3>2. e[i] = d[n + i] /\ i \in 1..Len(e)
      BY <1>1, <3>1
    <3> QED
      BY <1>4, <3>1, <3>2
  <2>2. CASE i > Len(d) - n
    <3>1. i - Len(e) \in 1..Len(l) /\ i - Len(e) = (n + i) - Len(d)
      BY <1>1, <1>2, <2>0, <2>2
    <3>2. PICK k \in 1..Len(l) : k = i - Len(e) /\ k = (n + i) - Len(d)
      BY <3>1
    <3>3. Len(e) + k = i /\ Len(d) + k = n + i
      BY <1>1, <1>2, <2>0, <3>2
    <3>4. v[Len(e) + k] = l[k]
      <4>1. \A j \in 1..Len(l) : v[Len(e) + j] = l[j]
        <5>1. e \in Seq(M) /\ l \in Seq(M) /\ v = e \o l
          BY <1>4
        <5> QED
          BY ONLY <5>1, SumOf
      <4> QED
        BY <4>1
    <3>5. w[Len(d) + k] = l[k]
      <4>1. \A j \in 1..Len(l) : w[Len(d) + j] = l[j]
        <5>1. d \in Seq(M) /\ l \in Seq(M) /\ w = d \o l
          BY <1>4
        <5> QED
          BY ONLY <5>1, SumOf
      <4> QED
        BY <4>1
    <3> QED
      BY <3>3, <3>4, <3>5
  <2> QED
    BY <1>2, <2>0, <2>1, <2>2
<1>8. ASSUME NEW i \in DOMAIN v PROVE n + i \in DOMAIN w /\ n + i > n /\ v[i] = w[n + i]
  BY <1>2, <1>6, <1>7
<1>9. /\ \A i \in DOMAIN w : Worldly(w[i]) =>
           /\ Placed(w[i].epoch, w[i].world, history.floors)
           /\ Playing => w[i].world <= host.world
      /\ \A i \in DOMAIN w : Completes(w[i]) => (Playing => w[i].id <= host.ckpt)
      /\ \A j \in DOMAIN w : \A i \in 1..(j - 1) : Ascends(w[i], w[j])
  BY <1>5 DEF Worlds
<1>10. /\ \A i \in DOMAIN w : i > n =>
            /\ Worldly(w[i]) => join'.shown <= w[i].world
            /\ Completes(w[i]) => join'.base < w[i].id
       /\ Playing => join'.shown <= host.world /\ join'.base <= host.ckpt
       /\ join'.have => Placed(join'.epoch, join'.shown, history.floors)
       /\ join.shown <= join'.shown
  BY <1>3, <1>5 DEF WorldAt
<1>11. \A i \in DOMAIN v : Worldly(v[i]) =>
            /\ Placed(v[i].epoch, v[i].world, history.floors)
            /\ join'.shown <= v[i].world
            /\ Playing => v[i].world <= host.world
  BY <1>8, <1>9, <1>10
<1>12. \A i \in DOMAIN v : Completes(v[i]) => join'.base < v[i].id /\ (Playing => v[i].id <= host.ckpt)
  BY <1>8, <1>9, <1>10
<1>13. ASSUME NEW j \in DOMAIN v, NEW i \in 1..(j - 1) PROVE Ascends(v[i], v[j])
  <2>1. i \in DOMAIN v /\ n + i \in 1..((n + j) - 1)
    BY <1>2, <1>6
  <2>2. Ascends(w[n + i], w[n + j])
    BY <1>8, <1>9, <2>1
  <2> QED
    BY <1>8, <2>1, <2>2
<1>14. Playing => /\ host.epoch = Len(history.floors) /\ host.epoch >= 1
                  /\ history.floors[host.epoch] <= host.world /\ host.ckpt <= history.ids
  BY DEF Worlds
<1>15. Worlds'
  BY <1>1, <1>5, <1>10, <1>11, <1>12, <1>13, <1>14 DEF Worlds
<1>16. join'.shown >= join.shown
  <2>1. join'.shown \in Nat /\ join.shown \in Nat
    BY <1>2 DEF Joiners
  <2> QED
    BY <1>10, <2>1
<1> QED
  BY <1>5, <1>6, <1>7, <1>15, <1>16

-----------------------------------------------------------------------------
(* The stream *)

Any == Left \cup Sent \cup Told

LEMMA UptoUpto ==
  ASSUME NEW x \in Marks, NEW y \in Marks, NEW z \in Marks, Upto(x, y), Upto(y, z)
  PROVE  Upto(x, z)
BY DEF Marks, Upto

LEMMA UptoSelf ==
  ASSUME NEW x \in Marks
  PROVE  Upto(x, x)
BY DEF Marks, Upto

LEMMA MovesUpto ==
  ASSUME NEW x \in Marks, NEW m \in Any, NEW y \in Marks, Moves(x, m, y)
  PROVE  Upto(x, y)
<1>1. CASE m.t = "intent"
  <2>1. m \in Intents
    BY <1>1, Kinds DEF Any
  <2>2. Len(m.cmds) \in Nat
    BY <2>1 DEF Intents
  <2>3. y.base = x.base /\ y.seq = x.seq + Len(m.cmds) /\ x.act <= y.act
    BY <1>1 DEF Moves
  <2> QED
    BY <2>2, <2>3 DEF Upto, Marks
<1>2. CASE m.t = "checkpoint_ack"
  <2>1. x.base < m.id /\ y = [base |-> m.id, seq |-> 0, act |-> x.act]
    BY <1>2 DEF Moves
  <2> QED
    BY <2>1 DEF Upto, Marks
<1>3. CASE m.t = "welcome"
  BY <1>3 DEF Moves
<1>4. CASE m.t \notin {"intent", "checkpoint_ack", "welcome"}
  <2>1. y = x
    BY <1>4 DEF Moves
  <2> QED
    BY <2>1, UptoSelf
<1> QED
  BY <1>1, <1>2, <1>3, <1>4

\* It only goes on.
LEMMA FlowUpto ==
  ASSUME NEW q \in Seq(Any), NEW f, Flow(q, f), NEW n \in 0..Len(q)
  PROVE  \A k \in 0..n : f[k] \in Marks /\ f[n] \in Marks /\ Upto(f[k], f[n])
<1>1. Len(q) \in Nat /\ n \in Nat /\ f \in [0..Len(q) -> Marks]
  BY DEF Flow
<1> DEFINE S == {k \in 0..n : Upto(f[n - k], f[n])}
<1>2. \A k \in 0..n : f[k] \in Marks /\ f[n] \in Marks
  BY <1>1
<1>3. 0 \in S
  <2>1. n - 0 = n /\ n \in 0..n /\ 0 \in 0..n
    BY <1>1
  <2> QED
    BY <1>2, <2>1, UptoSelf
<1>4. ASSUME NEW k \in 0..(n - 1), k \in S PROVE k + 1 \in S
  <2>1. n - k \in 1..Len(q) /\ (n - k) - 1 = n - (k + 1) /\ n - k \in 0..n /\ n - (k + 1) \in 0..n
        /\ k + 1 \in 0..n /\ n \in 0..n
    BY <1>1
  <2>2. Moves(f[(n - k) - 1], q[n - k], f[n - k]) /\ q[n - k] \in Any
    BY <2>1 DEF Flow
  <2>3. Upto(f[(n - k) - 1], f[n - k])
    BY <1>2, <2>1, <2>2, MovesUpto
  <2>4. Upto(f[n - k], f[n])
    BY <1>4
  <2>5. Upto(f[n - (k + 1)], f[n])
    <3> DEFINE a == f[n - (k + 1)]
               b == f[n - k]
               c == f[n]
    <3>1. a \in Marks /\ b \in Marks /\ c \in Marks /\ Upto(a, b) /\ Upto(b, c)
      BY <1>2, <2>1, <2>3, <2>4
    <3> HIDE DEF a, b, c
    <3>2. Upto(a, c)
      BY <3>1, UptoUpto
    <3> QED
      BY <3>2 DEF a, c
  <2> QED
    BY <2>1, <2>5
<1> HIDE DEF S
<1>5. \A k \in 0..n : k \in S
  BY <1>1, <1>3, <1>4, Climbs
<1>6. ASSUME NEW k \in 0..n PROVE Upto(f[k], f[n])
  <2>1. n - k \in 0..n /\ n - (n - k) = k
    BY <1>1
  <2>2. n - k \in S
    BY <1>5, <2>1
  <2>3. Upto(f[n - (n - k)], f[n])
    BY <2>2 DEF S
  <2> QED
    BY <2>1, <2>3
<1> QED
  BY <1>2, <1>6

\* What flows over a sequence flows over its parts,
LEMMA FlowPart ==
  ASSUME NEW q \in Seq(Any), NEW f, Flow(q, f), NEW n \in 0..Len(q), NEW k \in 0..n,
         NEW s, s = SubSeq(q, k + 1, n)
  PROVE  s \in Seq(Any) /\ Flows(s, f[k], f[n])
<1>1. Len(q) \in Nat /\ n \in Nat /\ k \in Nat /\ k <= n /\ n <= Len(q) /\ f \in [0..Len(q) -> Marks]
  BY DEF Flow
<1>2. s \in Seq(Any) /\ Len(s) = n - k /\ \A i \in 1..(n - k) : s[i] = q[k + i]
  BY <1>1
<1> DEFINE g == [i \in 0..(n - k) |-> f[k + i]]
<1>3. \A i \in 0..(n - k) : k + i \in 0..Len(q)
  BY <1>1
<1>4. g \in [0..Len(s) -> Marks] /\ \A i \in 0..(n - k) : g[i] = f[k + i]
  BY <1>1, <1>2, <1>3
<1> HIDE DEF g
<1>5. ASSUME NEW i \in 1..Len(s) PROVE Moves(g[i - 1], s[i], g[i])
  <2>1. /\ i \in 0..(n - k) /\ i - 1 \in 0..(n - k) /\ k + i \in 1..Len(q) /\ k + (i - 1) = (k + i) - 1
        /\ i \in 1..(n - k)
    BY <1>1, <1>2
  <2>2. g[i] = f[k + i] /\ g[i - 1] = f[(k + i) - 1] /\ s[i] = q[k + i]
    BY <1>2, <1>4, <2>1
  <2>3. Moves(f[(k + i) - 1], q[k + i], f[k + i])
    BY <2>1 DEF Flow
  <2> QED
    BY <2>2, <2>3
<1>6. g[0] = f[k] /\ g[Len(s)] = f[n]
  <2>1. 0 \in 0..(n - k) /\ n - k \in 0..(n - k) /\ k + 0 = k /\ k + (n - k) = n
    BY <1>1
  <2> QED
    BY <1>2, <1>4, <2>1
<1>7. Flow(s, g)
  BY <1>4, <1>5 DEF Flow
<1>8. Flows(s, f[k], f[n])
  BY <1>6, <1>7 DEF Flows
<1> QED
  BY <1>2, <1>8

LEMMA FlowsUpto ==
  ASSUME NEW q \in Seq(Any), NEW x, NEW y, Flows(q, x, y)
  PROVE  x \in Marks /\ y \in Marks /\ Upto(x, y)
<1>1. PICK f : Flow(q, f) /\ f[0] = x /\ f[Len(q)] = y
  BY DEF Flows
<1>2. 0 \in 0..Len(q) /\ Len(q) \in 0..Len(q)
  OBVIOUS
<1>3. \A k \in 0..Len(q) : f[k] \in Marks /\ f[Len(q)] \in Marks /\ Upto(f[k], f[Len(q)])
  BY <1>1, <1>2, FlowUpto
<1> QED
  BY <1>1, <1>2, <1>3

LEMMA FlowsPrefix ==
  ASSUME NEW q \in Seq(Any), NEW x, NEW y, Flows(q, x, y), NEW n \in 0..Len(q), NEW s, s = SubSeq(q, 1, n)
  PROVE  s \in Seq(Any) /\ \E z \in Marks : Flows(s, x, z) /\ Upto(z, y)
<1>1. PICK f : Flow(q, f) /\ f[0] = x /\ f[Len(q)] = y
  BY DEF Flows
<1>2. 0 \in 0..n /\ Len(q) \in 0..Len(q) /\ s = SubSeq(q, 0 + 1, n)
  OBVIOUS
<1>3. s \in Seq(Any) /\ Flows(s, f[0], f[n])
  BY <1>1, <1>2, FlowPart
<1>4. \A k \in 0..Len(q) : f[k] \in Marks /\ f[Len(q)] \in Marks /\ Upto(f[k], f[Len(q)])
  BY <1>1, <1>2, FlowUpto
<1> QED
  BY <1>1, <1>3, <1>4

LEMMA FlowsSuffix ==
  ASSUME NEW q \in Seq(Any), NEW x, NEW y, Flows(q, x, y), NEW n \in 0..Len(q), NEW s, s = SubSeq(q, n + 1, Len(q))
  PROVE  s \in Seq(Any) /\ \E z \in Marks : Flows(s, z, y) /\ Upto(x, z)
<1>1. PICK f : Flow(q, f) /\ f[0] = x /\ f[Len(q)] = y
  BY DEF Flows
<1>2. 0 \in 0..n /\ Len(q) \in 0..Len(q)
  OBVIOUS
<1>3. s \in Seq(Any) /\ Flows(s, f[n], f[Len(q)])
  BY <1>1, <1>2, FlowPart
<1>4. \A k \in 0..n : f[k] \in Marks /\ f[n] \in Marks /\ Upto(f[k], f[n])
  BY <1>1, FlowUpto
<1> QED
  BY <1>1, <1>2, <1>3, <1>4

LEMMA FlowsTail ==
  ASSUME NEW q \in Seq(Any), NEW x, NEW y, Flows(q, x, y), q # <<>>, NEW s, s = Tail(q)
  PROVE  s \in Seq(Any) /\ \E z \in Marks : Flows(s, z, y) /\ Moves(x, q[1], z)
<1>1. PICK f : Flow(q, f) /\ f[0] = x /\ f[Len(q)] = y
  BY DEF Flows
<1>2. 1 \in 0..Len(q) /\ 1 \in 1..Len(q) /\ Len(q) \in 0..Len(q) /\ s = SubSeq(q, 1 + 1, Len(q)) /\ 1 - 1 = 0
  OBVIOUS
<1>3. s \in Seq(Any) /\ Flows(s, f[1], f[Len(q)])
  BY <1>1, <1>2, FlowPart
<1>4. Moves(f[1 - 1], q[1], f[1]) /\ f[1] \in Marks
  BY <1>1, <1>2 DEF Flow
<1> QED
  BY <1>1, <1>2, <1>3, <1>4

LEMMA FlowsNone ==
  ASSUME NEW x \in Marks
  PROVE  Flows(<<>>, x, x)
<1> DEFINE f == [i \in 0..0 |-> x]
<1>1. f \in [0..0 -> Marks] /\ f[0] = x
  OBVIOUS
<1> HIDE DEF f
<1>2. Len(<<>>) = 0 /\ 1..0 = {}
  OBVIOUS
<1>3. Flow(<<>>, f)
  BY <1>1, <1>2 DEF Flow
<1> QED
  BY <1>1, <1>2, <1>3 DEF Flows

\* and over what goes on from its end.
LEMMA FlowsMore ==
  ASSUME NEW q \in Seq(Any), NEW x, NEW y, Flows(q, x, y), NEW m \in Any, NEW z \in Marks, Moves(y, m, z),
         NEW s, s = Append(q, m)
  PROVE  s \in Seq(Any) /\ Flows(s, x, z)
<1>0. PICK f : Flow(q, f) /\ f[0] = x /\ f[Len(q)] = y
  BY DEF Flows
<1>1. /\ Len(q) \in Nat /\ f \in [0..Len(q) -> Marks]
      /\ s \in Seq(Any) /\ Len(s) = Len(q) + 1 /\ s[Len(q) + 1] = m /\ \A i \in 1..Len(q) : s[i] = q[i]
  BY <1>0 DEF Flow
<1> DEFINE g == [i \in 0..(Len(q) + 1) |-> IF i <= Len(q) THEN f[i] ELSE z]
<1>2. g \in [0..Len(s) -> Marks] /\ g[Len(q) + 1] = z /\ \A i \in 0..Len(q) : g[i] = f[i]
  BY <1>1
<1> HIDE DEF g
<1>3. ASSUME NEW i \in 1..Len(s) PROVE Moves(g[i - 1], s[i], g[i])
  <2>1. CASE i = Len(q) + 1
    <3>1. i - 1 = Len(q) /\ Len(q) \in 0..Len(q)
      BY <1>1, <2>1
    <3>2. g[i - 1] = y /\ s[i] = m /\ g[i] = z
      BY <1>0, <1>1, <1>2, <2>1, <3>1
    <3> QED
      BY <3>2
  <2>2. CASE i \in 1..Len(q)
    <3>1. i \in 0..Len(q) /\ i - 1 \in 0..Len(q)
      BY <1>1, <2>2
    <3>2. g[i - 1] = f[i - 1] /\ s[i] = q[i] /\ g[i] = f[i]
      BY <1>1, <1>2, <2>2, <3>1
    <3>3. Moves(f[i - 1], q[i], f[i])
      BY <1>0, <2>2 DEF Flow
    <3> QED
      BY <3>2, <3>3
  <2> QED
    BY <1>1, <2>1, <2>2
<1>4. Flow(s, g)
  BY <1>2, <1>3 DEF Flow
<1>5. g[0] = x /\ g[Len(s)] = z
  BY <1>0, <1>1, <1>2
<1>6. Flows(s, x, z)
  BY <1>4, <1>5 DEF Flows
<1> QED
  BY <1>1, <1>6

LEMMA FlowsConcat ==
  ASSUME NEW q \in Seq(Any), NEW x, NEW y, Flows(q, x, y), NEW o \in Seq(Any), NEW z, Flows(o, y, z),
         NEW s, s = q \o o
  PROVE  s \in Seq(Any) /\ Flows(s, x, z)
<1>0. PICK f : Flow(q, f) /\ f[0] = x /\ f[Len(q)] = y
  BY DEF Flows
<1>00. PICK h : Flow(o, h) /\ h[0] = y /\ h[Len(o)] = z
  BY DEF Flows
<1>1. /\ Len(q) \in Nat /\ Len(o) \in Nat /\ f \in [0..Len(q) -> Marks] /\ h \in [0..Len(o) -> Marks]
      /\ s \in Seq(Any) /\ Len(s) = Len(q) + Len(o) /\ \A i \in 1..Len(q) : s[i] = q[i]
      /\ \A i \in 1..Len(o) : s[Len(q) + i] = o[i]
  BY <1>0, <1>00 DEF Flow
<1> DEFINE g == [i \in 0..(Len(q) + Len(o)) |-> IF i <= Len(q) THEN f[i] ELSE h[i - Len(q)]]
<1>2. \A i \in 0..(Len(q) + Len(o)) : i > Len(q) => i - Len(q) \in 1..Len(o) /\ i - Len(q) \in 0..Len(o)
  BY <1>1
<1>3. g \in [0..Len(s) -> Marks]
  BY <1>1, <1>2
<1>4. \A i \in 0..Len(q) : g[i] = f[i]
  BY <1>1
<1>5. \A i \in 0..Len(o) : g[Len(q) + i] = h[i]
  <2> TAKE i \in 0..Len(o)
  <2>1. CASE i = 0
    <3>1. Len(q) + i = Len(q) /\ Len(q) \in 0..Len(q)
      BY <1>1, <2>1
    <3> HIDE DEF g
    <3> QED
      BY <1>0, <1>00, <1>4, <2>1, <3>1
  <2>2. CASE i > 0
    <3>1. Len(q) + i \in 0..(Len(q) + Len(o)) /\ ~(Len(q) + i <= Len(q)) /\ (Len(q) + i) - Len(q) = i
      BY <1>1, <2>2
    <3> QED
      BY <3>1
  <2> QED
    BY <1>1, <2>1, <2>2
<1> HIDE DEF g
<1>6. ASSUME NEW i \in 1..Len(s) PROVE Moves(g[i - 1], s[i], g[i])
  <2>1. CASE i \in 1..Len(q)
    <3>1. i \in 0..Len(q) /\ i - 1 \in 0..Len(q)
      BY <1>1, <2>1
    <3>2. g[i - 1] = f[i - 1] /\ s[i] = q[i] /\ g[i] = f[i]
      BY <1>1, <1>4, <2>1, <3>1
    <3>3. Moves(f[i - 1], q[i], f[i])
      BY <1>0, <2>1 DEF Flow
    <3> QED
      BY <3>2, <3>3
  <2>2. CASE i > Len(q)
    <3> DEFINE j == i - Len(q)
    <3>1. j \in 1..Len(o) /\ j \in 0..Len(o) /\ j - 1 \in 0..Len(o) /\ i = Len(q) + j /\ i - 1 = Len(q) + (j - 1)
      BY <1>1, <2>2
    <3> HIDE DEF j
    <3>2. g[i - 1] = h[j - 1] /\ s[i] = o[j] /\ g[i] = h[j]
      BY <1>1, <1>5, <3>1
    <3>3. Moves(h[j - 1], o[j], h[j])
      BY <1>00, <3>1 DEF Flow
    <3> QED
      BY <3>2, <3>3
  <2> QED
    BY <1>1, <2>1, <2>2
<1>7. Flow(s, g)
  BY <1>3, <1>6 DEF Flow
<1>8. g[0] = x /\ g[Len(s)] = z
  <2>1. 0 \in 0..Len(q) /\ Len(o) \in 0..Len(o)
    BY <1>1
  <2> QED
    BY <1>0, <1>00, <1>1, <1>4, <1>5, <2>1
<1>9. Flows(s, x, z)
  BY <1>7, <1>8 DEF Flows
<1> QED
  BY <1>1, <1>9

\* What the network leaves of the stream, on its way to the relay,
Shrunk(q, x, y, whole, live) ==
  \E a, b \in Marks : /\ Flows(q, a, b) /\ Upto(x, a) /\ Upto(b, y)
                      /\ whole => a = x
                      /\ live => b = y

LEMMA ShrinksFlow ==
  ASSUME NEW p \in Seq(Any), NEW x, NEW y, Flows(p, x, y), NEW q, NEW whole, NEW live, Shrinks(p, q, whole, live)
  PROVE  q \in Seq(Any) /\ Shrunk(q, x, y, whole, live)
<1>1. Len(p) \in Nat /\ x \in Marks /\ y \in Marks /\ Upto(x, y) /\ Upto(x, x) /\ Upto(y, y)
  BY FlowsUpto, UptoSelf
<1>2. CASE q = p
  BY <1>1, <1>2 DEF Shrunk
<1>3. CASE ~live /\ \E n \in 0..Len(p) : q = SubSeq(p, 1, n)
  <2>1. PICK n \in 0..Len(p) : q = SubSeq(p, 1, n)
    BY <1>3
  <2>2. q \in Seq(Any) /\ \E z \in Marks : Flows(q, x, z) /\ Upto(z, y)
    BY <2>1, FlowsPrefix
  <2> QED
    BY <1>1, <1>3, <2>2 DEF Shrunk
<1>4. CASE ~whole /\ \E n \in 0..Len(p) : q = SubSeq(p, n + 1, Len(p))
  <2>1. PICK n \in 0..Len(p) : q = SubSeq(p, n + 1, Len(p))
    BY <1>4
  <2>2. q \in Seq(Any) /\ \E z \in Marks : Flows(q, z, y) /\ Upto(x, z)
    BY <2>1, FlowsSuffix
  <2> QED
    BY <1>1, <1>4, <2>2 DEF Shrunk
<1>5. CASE p # <<>> /\ Control(p[1]) /\ p[1].t # "welcome" /\ q = Tail(p)
  <2>1. q \in Seq(Any) /\ \E z \in Marks : Flows(q, z, y) /\ Moves(x, p[1], z)
    BY <1>5, FlowsTail
  <2>2. PICK z \in Marks : Flows(q, z, y) /\ Moves(x, p[1], z)
    BY <2>1
  <2>3. z = x
    BY <1>5, <2>2 DEF Control, Moves
  <2> QED
    BY <1>1, <2>1, <2>2, <2>3 DEF Shrunk
<1>6. CASE \E m \in Left \cup Sent : Control(m) /\ q = Append(p, m)
  <2>1. PICK m \in Left \cup Sent : Control(m) /\ q = Append(p, m)
    BY <1>6
  <2>2. m \in Any /\ Moves(y, m, y)
    BY <1>1, <2>1 DEF Any, Control, Moves
  <2>3. q \in Seq(Any) /\ Flows(q, x, y)
    BY <1>1, <2>1, <2>2, FlowsMore
  <2> QED
    BY <1>1, <2>3 DEF Shrunk
<1> QED
  BY <1>2, <1>3, <1>4, <1>5, <1>6 DEF Shrinks

\* and to the host: v is where what follows begins.
Heard(e, x, v, whole) == \E u \in Marks : Flows(e, x, u) /\ Upto(u, v) /\ (whole => u = v)

LEMMA HearsFlow ==
  ASSUME NEW d \in Seq(Any), NEW x, NEW u, Flows(d, x, u), NEW e, NEW was, NEW whole, Hears(d, e, was, whole),
         NEW v \in Marks, Upto(u, v), whole /\ was => u = v
  PROVE  e \in Seq(Any) /\ Heard(e, x, v, whole)
<1>1. Len(d) \in Nat /\ x \in Marks /\ u \in Marks /\ Upto(u, u) /\ Upto(v, v)
  BY FlowsUpto, UptoSelf
<1>3. Welcomes \subseteq Any /\ Ends \subseteq Any /\ Told \subseteq Any
  BY Words DEF Any
<1>4. CASE e = d /\ (whole => was)
  BY <1>1, <1>4 DEF Heard
<1>5. CASE ~whole /\ \E n \in 0..Len(d) : e = SubSeq(d, 1, n)
  <2>1. PICK n \in 0..Len(d) : e = SubSeq(d, 1, n)
    BY <1>5
  <2>2. e \in Seq(Any) /\ \E z \in Marks : Flows(e, x, z) /\ Upto(z, u)
    BY <2>1, FlowsPrefix
  <2>3. PICK z \in Marks : Flows(e, x, z) /\ Upto(z, u)
    BY <2>2
  <2>4. Upto(z, v)
    BY <1>1, <2>3, UptoUpto
  <2> QED
    BY <1>5, <2>2, <2>3, <2>4 DEF Heard
<1>6. CASE \E m \in Told : Control(m) /\ m.t # "welcome" /\ (whole => was) /\ e = Append(d, m)
  <2>1. PICK m \in Told : Control(m) /\ m.t # "welcome" /\ (whole => was) /\ e = Append(d, m)
    BY <1>6
  <2>2. m \in Any /\ Moves(u, m, u)
    BY <1>3, <2>1 DEF Control, Moves
  <2>3. e \in Seq(Any) /\ Flows(e, x, u)
    BY <1>1, <2>1, <2>2, FlowsMore
  <2> QED
    BY <1>1, <2>1, <2>3 DEF Heard
<1>7. CASE \E m \in Welcomes : e = Append(d, m)
  <2>1. PICK m \in Welcomes : e = Append(d, m)
    BY <1>7
  <2>2. m \in Any /\ Moves(u, m, v)
    BY <1>1, <1>3 DEF Welcomes, Moves
  <2>3. e \in Seq(Any) /\ Flows(e, x, v)
    BY <1>1, <2>1, <2>2, FlowsMore
  <2> QED
    BY <1>1, <2>3 DEF Heard
<1>8. CASE ~whole /\ \E m \in Welcomes, n \in Ends : e = Append(Append(d, m), n)
  <2>1. PICK m \in Welcomes, n \in Ends : e = Append(Append(d, m), n)
    BY <1>8
  <2> DEFINE c == Append(d, m)
  <2>2. m \in Any /\ n \in Any /\ Moves(u, m, u) /\ Moves(u, n, u) /\ e = Append(c, n) /\ c = Append(d, m)
    BY <1>1, <1>3, <2>1 DEF Welcomes, Ends, Moves
  <2> HIDE DEF c
  <2>3. c \in Seq(Any) /\ Flows(c, x, u)
    BY <1>1, <2>2, FlowsMore
  <2>4. e \in Seq(Any) /\ Flows(e, x, u)
    BY <1>1, <2>2, <2>3, FlowsMore
  <2> QED
    BY <1>1, <1>8, <2>4 DEF Heard
<1> QED
  BY <1>4, <1>5, <1>6, <1>7, <1>8 DEF Hears

\* What the relay passes on is still under way.
LEMMA PassesFlow ==
  ASSUME NEW d \in Seq(Any), NEW p \in Seq(Any), NEW x, NEW u, NEW y, Flows(d, x, u), Flows(p, u, y),
         NEW e, NEW q, Passes(d, p, e, q), NEW whole
  PROVE  Along(e, q, x, y, whole)
<1>1. p # <<>> /\ e = Append(d, p[1]) /\ q = Tail(p) /\ p[1] \in Any
  BY HeadOf DEF Passes
<1>2. q \in Seq(Any) /\ \E z \in Marks : Flows(q, z, y) /\ Moves(u, p[1], z)
  BY <1>1, FlowsTail
<1>3. PICK z \in Marks : Flows(q, z, y) /\ Moves(u, p[1], z)
  BY <1>2
<1>4. e \in Seq(Any) /\ Flows(e, x, z)
  BY <1>1, <1>3, FlowsMore
<1> QED
  BY <1>3, <1>4, UptoSelf DEF Along

\* What the network does to the joiner's stream.
LEMMA NetworkAlong ==
  ASSUME TypeOK, Network, NEW x, NEW y, Along(down["Host"], Line("Join"), x, y, Passing)
  PROVE  \E z \in Marks : /\ Along(down'["Host"], Line("Join")', x, z, Passing')
                          /\ Upto(z, y) /\ (Live' => z = y)
<1>1. "Host" \in Roles /\ "Join" \in Roles /\ Other("Host") = "Join" /\ Other("Join") = "Host"
  BY DEF Roles, Other
<1> DEFINE d == down["Host"]
           p == Line("Join")
           e == down'["Host"]
           q == Line("Join")'
<1>2. d \in Seq(Any) /\ p \in Seq(Any)
  BY WayType DEF Any
<1>3. PICK u \in Marks, v \in Marks : Flows(d, x, u) /\ Flows(p, v, y) /\ Upto(u, v) /\ (Passing => u = v)
  BY DEF Along
<1>4. y \in Marks /\ Upto(y, y)
  <2> HIDE DEF d, p
  <2> QED
    BY <1>2, <1>3, FlowsUpto, UptoSelf
<1>5. CASE Passing /\ Passes(d, p, e, q)
  <2> HIDE DEF d, p, e, q
  <2>1. Along(e, q, x, y, Passing')
    BY <1>2, <1>3, <1>5, PassesFlow
  <2> QED
    BY <1>4, <2>1 DEF e, q
<1>6. CASE Shrinks(p, q, Passing', Live') /\ Hears(d, e, Passing, Passing')
  <2> HIDE DEF d, p, e, q
  <2>1. q \in Seq(Any) /\ Shrunk(q, v, y, Passing', Live')
    BY <1>2, <1>3, <1>6, ShrinksFlow
  <2>2. PICK a \in Marks, b \in Marks : /\ Flows(q, a, b) /\ Upto(v, a) /\ Upto(b, y)
                                        /\ Passing' => a = v
                                        /\ Live' => b = y
    BY <2>1 DEF Shrunk
  <2>3. Upto(u, a) /\ (Passing' /\ Passing => u = a)
    BY <1>3, <2>2, UptoUpto
  <2>4. e \in Seq(Any) /\ Heard(e, x, a, Passing')
    BY <1>2, <1>3, <1>6, <2>2, <2>3, HearsFlow
  <2>5. Along(e, q, x, b, Passing')
    BY <2>2, <2>4 DEF Heard, Along
  <2> QED
    BY <2>2, <2>5 DEF e, q
<1>7. Carries("Join")
  BY <1>1 DEF Network
<1>8. (Passing /\ Passes(d, p, e, q)) \/ (Shrinks(p, q, Passing', Live') /\ Hears(d, e, Passing, Passing'))
  BY <1>1, <1>7 DEF Carries, Shrinks, Hears
<1> HIDE DEF d, p, e, q
<1> QED
  BY <1>5, <1>6, <1>8

-----------------------------------------------------------------------------
(* The stream, over the network *)

LEMMA CompleteIds ==
  ASSUME TypeOK, NEW i \in DOMAIN Way, Completes(Way[i])
  PROVE  Way[i].id \in Nat
<1> DEFINE w == Way
           m == w[i]
<1>1. w \in Seq(Left \cup Sent \cup Told) /\ i \in DOMAIN w
  BY WayType
<1>2. m \in Left \cup Sent \cup Told
  <2> HIDE DEF w
  <2> QED
    BY <1>1
<1>3. m.t = "chunk"
  BY DEF Completes
<1> HIDE DEF m
<1>4. m.id \in Nat
  BY <1>2, <1>3, Kinds DEF Chunks
<1> QED
  BY <1>4 DEF m

\* What is left of the way completes no other checkpoint.
LEMMA ThinCompletes ==
  ASSUME NEW v, NEW w, Thin(v, w), NEW j \in DOMAIN v, Completes(v[j])
  PROVE  \E a \in DOMAIN w : v[j] = w[a]
BY DEF Thin, Completes, Worldly

LEMMA NoAckPart ==
  ASSUME NEW q \in Seq(Any), NEW c, NoAck(q, c), NEW k \in 0..Len(q), NEW n \in 0..Len(q)
  PROVE  NoAck(SubSeq(q, k + 1, n), c)
<1> DEFINE s == SubSeq(q, k + 1, n)
<1>1. ASSUME NEW i \in DOMAIN s PROVE \E j \in DOMAIN q : s[i] = q[j]
  <2>1. i \in 1..(n - k) /\ s[i] = q[i + k] /\ i + k \in 1..Len(q)
    OBVIOUS
  <2> QED
    BY <2>1
<1> HIDE DEF s
<1>2. NoAck(s, c)
  BY <1>1 DEF NoAck
<1> QED
  BY <1>2 DEF s

LEMMA NoAckMore ==
  ASSUME NEW q \in Seq(Any), NEW c, NoAck(q, c), NEW m \in Any, m.t = "checkpoint_ack" => m.id # c
  PROVE  NoAck(Append(q, m), c)
<1>1. ASSUME NEW i \in DOMAIN Append(q, m)
      PROVE  Append(q, m)[i] = m \/ \E j \in DOMAIN q : Append(q, m)[i] = q[j]
  <2>1. Len(q) \in Nat /\ i \in 1..(Len(q) + 1)
    OBVIOUS
  <2>2. CASE i = Len(q) + 1
    BY <2>1, <2>2
  <2>3. CASE i # Len(q) + 1
    <3>1. i \in 1..Len(q)
      BY <2>1, <2>3
    <3> QED
      BY <3>1
  <2> QED
    BY <2>2, <2>3
<1> DEFINE s == Append(q, m)
<1> HIDE DEF s
<1>2. NoAck(s, c)
  BY <1>1 DEF NoAck, s
<1> QED
  BY <1>2 DEF s

LEMMA NoAckConcat ==
  ASSUME NEW q \in Seq(Any), NEW p \in Seq(Any), NEW c, NoAck(q, c), NoAck(p, c)
  PROVE  NoAck(q \o p, c)
<1> DEFINE s == q \o p
<1>1. ASSUME NEW i \in DOMAIN s
      PROVE  (\E j \in DOMAIN q : s[i] = q[j]) \/ \E j \in DOMAIN p : s[i] = p[j]
  <2>1. Len(q) \in Nat /\ Len(p) \in Nat /\ i \in 1..(Len(q) + Len(p))
    OBVIOUS
  <2>2. CASE i <= Len(q)
    BY <2>1, <2>2
  <2>3. CASE i > Len(q)
    <3>1. i - Len(q) \in 1..Len(p) /\ s[i] = p[i - Len(q)]
      BY <2>1, <2>3
    <3> QED
      BY <3>1
  <2> QED
    BY <2>1, <2>2, <2>3
<1> HIDE DEF s
<1>2. NoAck(s, c)
  BY <1>1 DEF NoAck
<1> QED
  BY <1>2 DEF s

LEMMA ShrinksNoAck ==
  ASSUME NEW p \in Seq(Any), NEW c, NoAck(p, c), NEW q, NEW whole, NEW live, Shrinks(p, q, whole, live)
  PROVE  NoAck(q, c)
<1>0. Len(p) \in Nat /\ Len(p) \in 0..Len(p) /\ 0 \in 0..Len(p)
  OBVIOUS
<1>1. ASSUME NEW n \in 0..Len(p), q = SubSeq(p, 1, n) PROVE NoAck(q, c)
  <2>1. NoAck(SubSeq(p, 0 + 1, n), c)
    BY <1>0, NoAckPart
  <2> QED
    BY <1>1, <2>1
<1>2. ASSUME NEW n \in 0..Len(p), q = SubSeq(p, n + 1, Len(p)) PROVE NoAck(q, c)
  BY <1>0, <1>2, NoAckPart
<1>3. CASE p # <<>> /\ q = Tail(p)
  <2>1. 1 \in 0..Len(p) /\ q = SubSeq(p, 1 + 1, Len(p))
    BY <1>0, <1>3
  <2> QED
    BY <1>2, <2>1
<1>4. ASSUME NEW m \in Left \cup Sent, Control(m), q = Append(p, m) PROVE NoAck(q, c)
  <2>1. m \in Any /\ m.t # "checkpoint_ack"
    BY <1>4 DEF Any, Control
  <2> QED
    BY <1>4, <2>1, NoAckMore
<1> QED
  BY <1>1, <1>2, <1>3, <1>4 DEF Shrinks

LEMMA HearsNoAck ==
  ASSUME NEW d \in Seq(Any), NEW c, NoAck(d, c), NEW e, NEW was, NEW whole, Hears(d, e, was, whole)
  PROVE  NoAck(e, c)
<1>0. Len(d) \in Nat /\ 0 \in 0..Len(d)
  OBVIOUS
<1>1. ASSUME NEW n \in 0..Len(d), e = SubSeq(d, 1, n) PROVE NoAck(e, c)
  <2>1. NoAck(SubSeq(d, 0 + 1, n), c)
    BY <1>0, NoAckPart
  <2> QED
    BY <1>1, <2>1
<1>2. Welcomes \subseteq Any /\ Ends \subseteq Any /\ Told \subseteq Any
  BY Words DEF Any
<1>3. ASSUME NEW m \in Told, Control(m), e = Append(d, m) PROVE NoAck(e, c)
  <2>1. m \in Any /\ m.t # "checkpoint_ack"
    BY <1>2, <1>3 DEF Control
  <2> QED
    BY <1>3, <2>1, NoAckMore
<1>4. ASSUME NEW m \in Welcomes PROVE Append(d, m) \in Seq(Any) /\ NoAck(Append(d, m), c)
  <2>1. m \in Any /\ m.t # "checkpoint_ack"
    BY <1>2 DEF Welcomes
  <2> QED
    BY <2>1, NoAckMore
<1>5. ASSUME NEW m \in Welcomes, NEW n \in Ends, e = Append(Append(d, m), n) PROVE NoAck(e, c)
  <2> DEFINE s == Append(d, m)
  <2>1. s \in Seq(Any) /\ NoAck(s, c) /\ e = Append(s, n)
    BY <1>4, <1>5
  <2>2. n \in Any /\ n.t # "checkpoint_ack"
    BY <1>2 DEF Ends
  <2> HIDE DEF s
  <2> QED
    BY <2>1, <2>2, NoAckMore
<1> QED
  BY <1>1, <1>3, <1>4, <1>5 DEF Hears

LEMMA PassesNoAck ==
  ASSUME NEW d \in Seq(Any), NEW p \in Seq(Any), NEW c, NoAck(d, c), NoAck(p, c), NEW e, NEW q, Passes(d, p, e, q)
  PROVE  NoAck(e, c) /\ NoAck(q, c)
<1>1. p # <<>> /\ e = Append(d, p[1]) /\ q = Tail(p) /\ p[1] \in Any /\ 1 \in DOMAIN p
  BY HeadOf DEF Passes
<1>2. NoAck(e, c)
  <2>1. p[1].t = "checkpoint_ack" => p[1].id # c
    BY <1>1 DEF NoAck
  <2> QED
    BY <1>1, <2>1, NoAckMore
<1>3. NoAck(q, c)
  <2>1. 1 \in 0..Len(p) /\ q = SubSeq(p, 1 + 1, Len(p)) /\ Len(p) \in 0..Len(p)
    BY <1>1
  <2> QED
    BY <2>1, NoAckPart
<1> QED
  BY <1>2, <1>3

\* What is written up to y is written up to an earlier mark.
LEMMA NetworkWritten ==
  ASSUME Wires, Wires', Network, Thin(Way', Way), NEW y \in Marks, NEW z \in Marks,
         Written(y), Upto(z, y), Live' => z = y
  PROVE  Written(z)'
<1>1. join \in Joiners /\ host \in Hosts /\ z.base \in Nat /\ y.base \in Nat /\ z.act \in Nat /\ y.act \in Nat
      /\ z.seq \in Nat /\ y.seq \in Nat /\ TypeOK
  BY DEF Wires, TypeOK, Marks
<1>2. z.base <= y.base /\ z.act <= y.act /\ (z.base = y.base => z.seq <= y.seq)
  BY <1>1 DEF Upto
<1>3. \A i \in DOMAIN Way' : Completes(Way'[i]) => z.base < Way'[i].id
  <2> TAKE i \in DOMAIN Way'
  <2> HAVE Completes(Way'[i])
  <2>1. PICK a \in DOMAIN Way : Way'[i] = Way[a]
    BY ThinCompletes
  <2>2. Completes(Way[a])
    BY <2>1
  <2>3. Way[a].id \in Nat /\ y.base < Way[a].id
    BY <1>1, <2>2, CompleteIds DEF Written
  <2> QED
    BY <1>1, <1>2, <2>1, <2>3
<1>4. Playing' => z.base <= host'.ckpt
  <2> HAVE Playing'
  <2>1. Playing /\ host' = host
    BY DEF Network
  <2> QED
    BY <1>1, <1>2, <2>1 DEF Written, Hosts
<1>5. screen'["Join"] # "Out" => join' = join /\ screen["Join"] # "Out"
  BY DEF Network
<1>6. screen'["Join"] # "Out" => z.base <= join'.base /\ z.act <= join'.acted
  BY <1>1, <1>2, <1>5 DEF Written, Joiners
<1>7. join'.have => join' = join /\ screen["Join"] # "Out"
  <2>1. NoJoiner.have = FALSE
    BY DEF NoJoiner
  <2>2. join'.have => join' = join
    BY <2>1 DEF Network
  <2>3. join.have => screen["Join"] # "Out"
    BY <2>1 DEF Wires, Joining
  <2> QED
    BY <2>2, <2>3
<1>8. Live' => z.base = join'.base /\ z.seq = join'.seq
  <2> HAVE Live'
  <2>1. Live /\ join' = join
    BY <1>7 DEF Network, Live
  <2> QED
    BY <2>1 DEF Written
<1>9. join'.have /\ z.base = join'.base => z.seq <= join'.seq
  <2> HAVE join'.have /\ z.base = join'.base
  <2>1. join' = join /\ y.base <= join.base /\ z.base = join.base /\ join.base \in Nat /\ join.seq \in Nat
    BY <1>1, <1>7 DEF Written, Joiners
  <2>2. y.base = join.base /\ y.base = z.base
    BY <1>1, <1>2, <2>1
  <2>3. y.seq <= join.seq
    BY <1>7, <2>2 DEF Written
  <2> QED
    BY <1>1, <1>2, <2>1, <2>2, <2>3
<1> QED
  BY <1>3, <1>4, <1>6, <1>8, <1>9 DEF Written

LEMMA NetworkStream ==
  ASSUME Wires, Wires', Network, Stream
  PROVE  Stream'
<1>1. PICK x \in Marks, y \in Marks : /\ Along(down["Host"], Line("Join"), x, y, Passing)
                                      /\ Playing => Read(host, history.acted, x)
                                      /\ Written(y)
  BY DEF Stream
<1>2. TypeOK /\ TypeOK' /\ Thin(Way', Way)
  BY NetworkThin DEF Wires
<1>3. PICK z \in Marks : /\ Along(down'["Host"], Line("Join")', x, z, Passing')
                         /\ Upto(z, y) /\ (Live' => z = y)
  BY <1>1, <1>2, NetworkAlong
<1>4. Written(z)'
  BY <1>1, <1>2, <1>3, NetworkWritten
<1>5. Playing' => Read(host', history'.acted, x)
  <2>1. Playing' => Playing /\ host' = host
    BY DEF Network
  <2>2. history' = history
    BY DEF Network
  <2> QED
    BY <1>1, <2>1, <2>2
<1> QED
  BY <1>3, <1>4, <1>5 DEF Stream

LEMMA NetworkAwaited ==
  ASSUME Wires, Wires', Network, Awaited
  PROVE  Awaited'
<1>1. TypeOK /\ TypeOK' /\ Thin(Way', Way)
  BY NetworkThin DEF Wires
<1>2. "Host" \in Roles /\ "Join" \in Roles /\ Other("Host") = "Join" /\ Other("Join") = "Host"
  BY DEF Roles, Other
<1>3. ASSUME NEW c, Unheard(c) PROVE Unheard(c)'
  <2>1. \A i \in DOMAIN Way' : Completes(Way'[i]) => Way'[i].id # c
    <3> TAKE i \in DOMAIN Way'
    <3> HAVE Completes(Way'[i])
    <3>1. PICK a \in DOMAIN Way : Way'[i] = Way[a]
      BY <1>1, ThinCompletes
    <3> QED
      BY <1>3, <3>1 DEF Unheard
  <2> DEFINE d == down["Host"]
             p == Line("Join")
             e == down'["Host"]
             q == Line("Join")'
  <2>2. d \in Seq(Any) /\ p \in Seq(Any) /\ NoAck(d, c) /\ NoAck(p, c)
    BY <1>1, <1>3, WayType DEF Any, Unheard
  <2>3. Passes(d, p, e, q) \/ ((\E a, b : Shrinks(p, q, a, b)) /\ (\E a, b : Hears(d, e, a, b)))
    <3>1. Carries("Join")
      BY <1>2 DEF Network
    <3>2. CASE Passes(down[Other("Join")], p, down[Other("Join")]', q)
      BY <1>2, <3>2
    <3>3. CASE /\ Shrinks(p, q, "Join" = "Join" /\ Passing', "Join" = "Join" /\ Live')
               /\ Hears(down[Other("Join")], down[Other("Join")]', "Join" = "Host" \/ Passing, "Join" = "Join" /\ Passing')
      <4>1. \E a, b : Shrinks(p, q, a, b)
        BY <3>3
      <4>2. down[Other("Join")] = d /\ down[Other("Join")]' = e
        BY <1>2
      <4>3. \E a, b : Hears(d, e, a, b)
        BY <3>3, <4>2
      <4> QED
        BY <4>1, <4>3
    <3> QED
      BY <3>1, <3>2, <3>3 DEF Carries
  <2>4. NoAck(e, c) /\ NoAck(q, c)
    <3> HIDE DEF d, p, e, q
    <3> QED
      BY <2>2, <2>3, PassesNoAck, ShrinksNoAck, HearsNoAck
  <2> QED
    BY <2>1, <2>4 DEF Unheard
<1>4. Playing' => Playing /\ host' = host
  BY DEF Network
<1>5. history' = history
  BY DEF Network
<1> QED
  BY <1>3, <1>4, <1>5 DEF Awaited

-----------------------------------------------------------------------------
(* The stream, as host and joiner act *)

\* What is between the two is what it was.
LEMMA AlongKept ==
  ASSUME NEW x, NEW y, Along(down["Host"], Line("Join"), x, y, Passing),
         down'["Host"] = down["Host"], Line("Join")' = Line("Join"), Passing' <=> Passing
  PROVE  Along(down'["Host"], Line("Join")', x, y, Passing')
<1>1. PICK u \in Marks, v \in Marks : /\ Flows(down["Host"], x, u) /\ Flows(Line("Join"), v, y)
                                      /\ Upto(u, v) /\ (Passing => u = v)
  BY DEF Along
<1>2. Flows(down'["Host"], x, u) /\ Flows(Line("Join")', v, y) /\ (Passing' => u = v)
  BY <1>1
<1> QED
  BY <1>1, <1>2 DEF Along

LEMMA HostActsStream ==
  ASSUME Wires, Worlds, Stream, NEW msgs, HostActs(msgs)
  PROVE  Stream'
<1>1. PICK x \in Marks, y \in Marks : /\ Along(down["Host"], Line("Join"), x, y, Passing)
                                      /\ Playing => Read(host, history.acted, x)
                                      /\ Written(y)
  BY DEF Stream
<1>2. /\ Wires' /\ (Passing' <=> Passing) /\ (Live' <=> Live) /\ Line("Join")' = Line("Join")
      /\ Way' = Way \o msgs \/ Way' = Way
  BY HostActsKeeps
<1>3. /\ down' = down /\ join' = join /\ screen'["Join"] = screen["Join"] /\ Playing
      /\ msgs \in Seq(Sent) /\ Tells(msgs, host')
      /\ host'.ckpt \in {host.ckpt, Latest}
  BY DEF HostActs
<1>4. Along(down'["Host"], Line("Join")', x, y, Passing')
  BY <1>1, <1>2, <1>3, AlongKept
<1>5. /\ history.acted \in Nat /\ host.ckpt \in Nat /\ history.ids \in Nat /\ y.base \in Nat /\ TypeOK
      /\ host.ckpt <= history.ids /\ y.base <= host.ckpt /\ y.base < Latest /\ Latest \in Nat
  <2>1. /\ history.acted \in Nat /\ host.ckpt \in Nat /\ history.ids \in Nat /\ y.base \in Nat /\ TypeOK
    BY DEF Wires, TypeOK, Hosts, Marks
  <2>2. host.ckpt <= history.ids /\ y.base <= host.ckpt
    BY <1>1, <1>3 DEF Worlds, Written
  <2> QED
    BY <2>1, <2>2 DEF Latest
<1>6. Read(host', history'.acted, x)
  <2>1. Read(host, history.acted, x)
    BY <1>1, <1>3
  <2>2. history'.acted <= x.act
    BY <2>1 DEF HostActs
  <2>3. CASE Fresh(host')
    BY <2>2, <2>3, FreshReads
  <2>4. CASE KeepsUp(host, history.acted, host', history'.acted)
    BY <2>1, <2>4 DEF KeepsUp
  <2> QED
    BY <2>3, <2>4 DEF HostActs
<1>7. \A i \in DOMAIN Way' : Completes(Way'[i]) => y.base < Way'[i].id
  <2> DEFINE w == Way
             v == Way'
  <2>1. \A i \in DOMAIN w : Completes(w[i]) => y.base < w[i].id
    BY <1>1 DEF Written
  <2>2. \A i \in DOMAIN msgs : Completes(msgs[i]) => y.base < msgs[i].id
    BY <1>3, <1>5 DEF Tells
  <2>3. w \in Seq(Any) /\ msgs \in Seq(Any) /\ (v = w \o msgs \/ v = w)
    <3>1. Sent \subseteq Any
      BY DEF Any
    <3> QED
      BY <1>2, <1>3, <1>5, <3>1, WayType DEF Any
  <2> SUFFICES \A i \in DOMAIN v : Completes(v[i]) => y.base < v[i].id
    OBVIOUS
  <2> HIDE DEF w, v
  <2>4. CASE v = w
    BY <2>1, <2>4
  <2>5. CASE v = w \o msgs
    <3> TAKE i \in DOMAIN v
    <3>1. Len(w) \in Nat /\ Len(msgs) \in Nat /\ i \in 1..(Len(w) + Len(msgs))
      BY <2>3, <2>5
    <3>2. CASE i <= Len(w)
      <4>1. i \in DOMAIN w /\ v[i] = w[i]
        BY <2>3, <2>5, <3>1, <3>2
      <4> QED
        BY <2>1, <4>1
    <3>3. CASE i > Len(w)
      <4>1. i - Len(w) \in DOMAIN msgs /\ v[i] = msgs[i - Len(w)]
        BY <2>3, <2>5, <3>1, <3>3
      <4> QED
        BY <2>2, <4>1
    <3> QED
      BY <3>1, <3>2, <3>3
  <2> QED
    BY <2>3, <2>4, <2>5
<1>8. y.base <= host'.ckpt
  BY <1>3, <1>5
<1>9. Written(y)'
  BY <1>1, <1>2, <1>3, <1>7, <1>8 DEF Written
<1> QED
  BY <1>4, <1>6, <1>9 DEF Stream

LEMMA HostActsAwaited ==
  ASSUME Wires, Awaited, NEW msgs, HostActs(msgs)
  PROVE  Awaited'
<1>1. /\ Line("Join")' = Line("Join") /\ (Way' = Way \o msgs \/ Way' = Way)
  BY HostActsKeeps
<1>2. /\ down' = down /\ Playing /\ msgs \in Seq(Sent)
      /\ Whole(msgs) => Fresh(host')
      /\ \/ Fresh(host')
         \/ host'.ckpt = host.ckpt /\ KeepsUp(host, history.acted, host', history'.acted)
  BY DEF HostActs
<1>3. CASE Fresh(host')
  BY <1>3, FreshReads DEF Awaited
<1>4. CASE ~Fresh(host')
  <2>1. host'.ckpt = host.ckpt /\ KeepsUp(host, history.acted, host', history'.acted) /\ ~Whole(msgs)
    BY <1>2, <1>4
  <2>2. Queue(host', history'.acted) /\ Unheard(host.ckpt)
    BY <1>2, <1>4, <2>1 DEF Awaited, KeepsUp
  <2> DEFINE w == Way
             v == Way'
  <2>3. \A i \in DOMAIN w : Completes(w[i]) => w[i].id # host.ckpt
    BY <2>2 DEF Unheard
  <2>4. \A i \in DOMAIN msgs : ~Completes(msgs[i])
    BY <2>1 DEF Whole
  <2>5. w \in Seq(Any) /\ msgs \in Seq(Any) /\ (v = w \o msgs \/ v = w)
    <3>1. Sent \subseteq Any
      BY DEF Any
    <3> QED
      BY <1>1, <1>2, <3>1, WayType DEF Any, Wires
  <2>6. \A i \in DOMAIN v : Completes(v[i]) => v[i].id # host.ckpt
    <3> HIDE DEF w, v
    <3>1. CASE v = w
      BY <2>3, <3>1
    <3>2. CASE v = w \o msgs
      <4> TAKE i \in DOMAIN v
      <4>1. Len(w) \in Nat /\ Len(msgs) \in Nat /\ i \in 1..(Len(w) + Len(msgs))
        BY <2>5, <3>2
      <4>2. CASE i <= Len(w)
        <5>1. i \in DOMAIN w /\ v[i] = w[i]
          BY <2>5, <3>2, <4>1, <4>2
        <5> QED
          BY <2>3, <5>1
      <4>3. CASE i > Len(w)
        <5>1. i - Len(w) \in DOMAIN msgs /\ v[i] = msgs[i - Len(w)]
          BY <2>5, <3>2, <4>1, <4>3
        <5> QED
          BY <2>4, <5>1
      <4> QED
        BY <4>1, <4>2, <4>3
    <3> QED
      BY <2>5, <3>1, <3>2
  <2>7. Unheard(host.ckpt)'
    BY <1>1, <1>2, <2>1, <2>2, <2>6 DEF Unheard
  <2> QED
    BY <2>2, <2>7 DEF Awaited
<1> QED
  BY <1>3, <1>4

LEMMA AckTimeStream ==
  ASSUME Wires, Stream, Awaited, AckTimePasses
  PROVE  Stream' /\ Awaited'
<1>1. /\ Way' = Way /\ (Passing' <=> Passing) /\ (Playing' <=> Playing) /\ (Live' <=> Live)
      /\ host'.ckpt = host.ckpt /\ KeepsUp(host, history.acted, host', history.acted)
      /\ Line("Join")' = Line("Join") /\ down' = down /\ join' = join /\ screen' = screen
      /\ history' = history
  BY AckTimeKeeps DEF Steady, net
<1>2. PICK x \in Marks, y \in Marks : /\ Along(down["Host"], Line("Join"), x, y, Passing)
                                      /\ Playing => Read(host, history.acted, x)
                                      /\ Written(y)
  BY DEF Stream
<1>3. Along(down'["Host"], Line("Join")', x, y, Passing')
  BY <1>1, <1>2, AlongKept
<1>4. Written(y)'
  BY <1>1, <1>2 DEF Written
<1>5. Stream'
  BY <1>1, <1>2, <1>3, <1>4 DEF Stream, KeepsUp
<1>6. Awaited'
  BY <1>1 DEF Awaited, KeepsUp, Unheard
<1> QED
  BY <1>5, <1>6

LEMMA JoinActsStream ==
  ASSUME Wires, Stream, Awaited, NEW m, NEW steps, NEW deeds, JoinActs(m, steps, deeds)
  PROVE  Stream' /\ Awaited'
<1>1. /\ Way' = Way /\ (Passing' <=> Passing) /\ (Playing' <=> Playing)
      /\ join'.have /\ join'.base = join.base /\ join'.seq = join.seq + steps
      /\ join'.acted = join.acted + deeds
      /\ sock["Join"] = "open" => Live /\ Line("Join")' = Append(Line("Join"), m)
      /\ sock["Join"] # "open" => ~Live' /\ Line("Join")' = Line("Join")
  BY JoinActsKeeps
<1>2. /\ down' = down /\ host' = host /\ history' = history /\ screen' = screen
      /\ join.have /\ steps \in Nat /\ m \in Intents
      /\ Len(m.cmds) = steps /\ \A i \in 1..steps : m.cmds[i] = [seq |-> join.seq + i, base |-> join.base]
      /\ Len(m.acts) = deeds /\ deeds \in {0, 1}
      /\ \A i \in 1..deeds : m.acts[i].base = join.base /\ m.acts[i].id = join.acted + 1
  BY DEF JoinActs
<1>3. PICK x \in Marks, y \in Marks : /\ Along(down["Host"], Line("Join"), x, y, Passing)
                                      /\ Playing => Read(host, history.acted, x)
                                      /\ Written(y)
  BY DEF Stream
<1>4. TypeOK /\ join.base \in Nat /\ join.seq \in Nat /\ join.acted \in Nat /\ m \in Any /\ m.t = "intent"
      /\ m.cmds \in Seq(Steps) /\ m.acts \in Seq(Deeds) /\ screen["Join"] # "Out"
      /\ y.base \in Nat /\ y.seq \in Nat /\ y.act \in Nat /\ deeds \in Nat
  <2>1. TypeOK /\ join.base \in Nat /\ join.seq \in Nat /\ join.acted \in Nat
    BY DEF Wires, TypeOK, Joiners
  <2>2. m \in Any /\ m.t = "intent" /\ m.cmds \in Seq(Steps) /\ m.acts \in Seq(Deeds)
    BY <1>2 DEF Any, Sent, Carried, Intents
  <2>3. screen["Join"] # "Out"
    BY <1>2 DEF Wires, Joining, NoJoiner
  <2> QED
    BY <1>2, <2>1, <2>2, <2>3 DEF Marks
<1>5. CASE sock["Join"] = "open"
  <2>1. Live /\ Line("Join")' = Append(Line("Join"), m) /\ y.base = join.base /\ y.seq = join.seq /\ y.act <= join.acted
    BY <1>1, <1>3, <1>4, <1>5 DEF Written
  <2>0. [base |-> join.base, seq |-> join.seq + steps, act |-> join.acted + deeds] \in Marks
    BY <1>2, <1>4 DEF Marks
  <2>2. PICK z \in Marks : z.base = join.base /\ z.seq = join.seq + steps /\ z.act = join.acted + deeds
    BY <2>0
  <2>3. Moves(y, m, z)
    <3>1. z.base = y.base /\ z.seq = y.seq + Len(m.cmds) /\ y.act <= z.act
      BY <1>2, <1>4, <2>1, <2>2
    <3>2. \A i \in DOMAIN m.cmds : m.cmds[i] = [seq |-> y.seq + i, base |-> y.base]
      <4>1. DOMAIN m.cmds = 1..steps
        BY <1>2, <1>4
      <4> QED
        BY <1>2, <2>1, <4>1
    <3>3. Len(m.acts) <= 1
      BY <1>2
    <3>4. \A i \in DOMAIN m.acts : m.acts[i].base = y.base /\ y.act < m.acts[i].id /\ m.acts[i].id <= z.act
      <4>1. DOMAIN m.acts = 1..deeds
        BY <1>2, <1>4
      <4> TAKE i \in DOMAIN m.acts
      <4>2. deeds = 1 /\ m.acts[i].base = join.base /\ m.acts[i].id = join.acted + 1
        BY <1>2, <4>1
      <4> QED
        BY <1>4, <2>1, <2>2, <4>2
    <3> QED
      BY <1>4, <3>1, <3>2, <3>3, <3>4 DEF Moves
  <2> DEFINE d == down["Host"]
             p == Line("Join")
             q == Line("Join")'
  <2>4. d \in Seq(Any) /\ p \in Seq(Any) /\ q = Append(p, m)
    BY <1>4, <2>1, WayType DEF Any
  <2>5. PICK u \in Marks, v \in Marks : Flows(d, x, u) /\ Flows(p, v, y) /\ Upto(u, v) /\ (Passing => u = v)
    BY <1>3 DEF Along
  <2>6. Flows(q, v, z)
    <3> HIDE DEF d, p, q
    <3> QED
      BY <1>4, <2>2, <2>3, <2>4, <2>5, FlowsMore
  <2>7. Along(down'["Host"], Line("Join")', x, z, Passing')
    BY <1>1, <1>2, <2>5, <2>6 DEF Along
  <2>8. Written(z)'
    <3>1. \A i \in DOMAIN Way' : Completes(Way'[i]) => z.base < Way'[i].id
      BY <1>1, <1>3, <2>1, <2>2 DEF Written
    <3>2. Playing' => z.base <= host'.ckpt
      BY <1>1, <1>2, <1>3, <2>1, <2>2 DEF Written
    <3>3. z.base = join'.base /\ z.seq = join'.seq /\ z.act = join'.acted
      BY <1>1, <2>2
    <3>4. z.base <= join'.base /\ z.act <= join'.acted /\ z.seq <= join'.seq
      BY <2>2, <3>3 DEF Marks
    <3> QED
      BY <3>1, <3>2, <3>3, <3>4 DEF Written
  <2>9. Stream'
    BY <1>1, <1>2, <1>3, <2>2, <2>7, <2>8 DEF Stream
  <2>10. Awaited'
    <3>1. ASSUME NEW c, NoAck(p, c) PROVE NoAck(q, c)
      <4> HIDE DEF p, q
      <4> QED
        BY <1>4, <2>4, <3>1, NoAckMore
    <3> QED
      BY <1>1, <1>2, <3>1 DEF Awaited, Unheard
  <2> QED
    BY <2>9, <2>10
<1>6. CASE sock["Join"] # "open"
  <2>1. ~Live' /\ Line("Join")' = Line("Join")
    BY <1>1, <1>6
  <2>2. Along(down'["Host"], Line("Join")', x, y, Passing')
    BY <1>1, <1>2, <1>3, <2>1, AlongKept
  <2>3. Written(y)'
    <3>1. y.base <= join.base /\ y.act <= join.acted /\ (y.base = join.base => y.seq <= join.seq)
      BY <1>2, <1>3, <1>4 DEF Written
    <3>2. y.base <= join'.base /\ y.act <= join'.acted /\ (y.base = join'.base => y.seq <= join'.seq)
      BY <1>1, <1>2, <1>4, <3>1
    <3>3. /\ \A i \in DOMAIN Way' : Completes(Way'[i]) => y.base < Way'[i].id
          /\ Playing' => y.base <= host'.ckpt
      BY <1>1, <1>2, <1>3 DEF Written
    <3> QED
      BY <2>1, <3>2, <3>3 DEF Written
  <2>4. Stream'
    BY <1>1, <1>2, <1>3, <2>2, <2>3 DEF Stream
  <2>5. Awaited'
    BY <1>1, <1>2, <2>1 DEF Awaited, Unheard
  <2> QED
    BY <2>4, <2>5
<1> QED
  BY <1>5, <1>6

-----------------------------------------------------------------------------
(* The stream, as the host reads it *)

\* What an intent says of the stream.
LEMMA IntentMoves ==
  ASSUME NEW x, NEW m, NEW z, Moves(x, m, z), m.t = "intent"
  PROVE  /\ z.base = x.base /\ z.seq = x.seq + Len(m.cmds) /\ x.act <= z.act
         /\ \A i \in DOMAIN m.cmds : m.cmds[i] = [seq |-> x.seq + i, base |-> x.base]
         /\ Len(m.acts) <= 1
         /\ \A i \in DOMAIN m.acts : m.acts[i].base = x.base
         /\ \A i \in DOMAIN m.acts : x.act < m.acts[i].id /\ m.acts[i].id <= z.act
BY DEF Moves

LEMMA IntentTypes ==
  ASSUME NEW m \in Intents
  PROVE  m.t = "intent" /\ m.cmds \in Seq(Steps) /\ m.acts \in Seq(Deeds)
BY DEF Intents

LEMMA HostTypes ==
  ASSUME NEW h \in Hosts
  PROVE  /\ h.cmds \in Seq(Steps) /\ h.acts \in Seq(Deeds) /\ h.seen \in Nat /\ h.seenAct \in Nat
         /\ h.resolved \in Nat /\ h.ckpt \in Nat
BY DEF Hosts

LEMMA MarkTypes ==
  ASSUME NEW x \in Marks
  PROVE  x.base \in Nat /\ x.seq \in Nat /\ x.act \in Nat
BY DEF Marks

\* What the host has not seen of an intent it accepts is all of it.
LEMMA StepsKnown ==
  ASSUME NEW cs \in Seq(Steps), NEW s \in Nat, NEW b,
         \A i \in DOMAIN cs : cs[i] = [seq |-> s + i, base |-> b]
  PROVE  Unseen(cs, {i \in DOMAIN cs : cs[i].seq <= s}) = cs
<1>1. {i \in DOMAIN cs : cs[i].seq <= s} = {}
  <2> SUFFICES ASSUME NEW i \in DOMAIN cs, cs[i].seq <= s PROVE FALSE
    OBVIOUS
  <2>1. i \in Nat \ {0}
    OBVIOUS
  <2>2. cs[i] = [seq |-> s + i, base |-> b]
    OBVIOUS
  <2>3. cs[i].seq = s + i
    BY <2>2
  <2> QED
    BY <2>1, <2>3
<1>2. {} \subseteq DOMAIN cs
  OBVIOUS
<1> QED
  BY <1>1, <1>2, UnseenOf

Above(q, a) == \A i \in DOMAIN q : a < q[i].id
Below(q, a) == \A i \in DOMAIN q : q[i].id <= a
Based(q, b) == \A i \in DOMAIN q : q[i].base = b

LEMMA Between == \A p, q, a \in Nat : p <= a /\ a < q => q > p
OBVIOUS

LEMMA LastOf ==
  ASSUME NEW M, NEW s \in Seq(M), s # <<>>
  PROVE  Len(s) \in DOMAIN s
OBVIOUS

LEMMA DeedsIds ==
  ASSUME NEW q \in Seq(Deeds)
  PROVE  \A i \in DOMAIN q : q[i].id \in Nat
<1> TAKE i \in DOMAIN q
<1>1. q[i] \in Deeds
  OBVIOUS
<1> QED
  BY <1>1 DEF Deeds

LEMMA DeedsKnown ==
  ASSUME NEW ds \in Seq(Deeds), NEW k \in Nat, NEW a \in Nat, k <= a, Above(ds, a)
  PROVE  Unseen(ds, {i \in DOMAIN ds : ds[i].id <= k}) = ds
<1>1. {i \in DOMAIN ds : ds[i].id <= k} = {}
  <2>1. ASSUME NEW i \in DOMAIN ds PROVE ~(ds[i].id <= k)
    <3>1. ds[i].id \in Nat
      BY DeedsIds
    <3>2. a < ds[i].id
      BY DEF Above
    <3> QED
      BY <3>1, <3>2
  <2> QED
    BY <2>1
<1>2. {} \subseteq DOMAIN ds
  OBVIOUS
<1> QED
  BY <1>1, <1>2, UnseenOf

\* Its steps are queued behind the others.
Numbered(q, r, b) == \A i \in 1..Len(q) : q[i] = [seq |-> r + i, base |-> b]

IsSum(a, s, t) == a = s \o t

LEMMA StepsJoined ==
  ASSUME NEW hc \in Seq(Steps), NEW cs \in Seq(Steps), NEW r \in Nat, NEW s \in Nat, s = r + Len(hc), NEW b,
         Numbered(hc, r, b), Numbered(cs, s, b),
         NEW all, IsSum(all, hc, cs)
  PROVE  /\ all \in Seq(Steps) /\ Len(all) = Len(hc) + Len(cs) /\ Len(all) \in Nat
         /\ Numbered(all, r, b)
         /\ s + Len(cs) = r + Len(all)
<1>1. /\ all \in Seq(Steps) /\ Len(all) = Len(hc) + Len(cs)
      /\ Len(hc) \in Nat /\ Len(cs) \in Nat /\ DOMAIN hc = 1..Len(hc) /\ DOMAIN cs = 1..Len(cs)
      /\ \A i \in 1..Len(hc) : all[i] = hc[i]
      /\ \A i \in 1..Len(cs) : all[Len(hc) + i] = cs[i]
  BY SumOf DEF IsSum
<1>2. ASSUME NEW i \in 1..(Len(hc) + Len(cs)) PROVE all[i] = [seq |-> r + i, base |-> b]
  <2>1. CASE i <= Len(hc)
    <3>1. i \in 1..Len(hc)
      BY <1>1, <2>1
    <3> QED
      BY <1>1, <3>1 DEF Numbered
  <2>2. CASE i > Len(hc)
    <3>1. PICK k \in 1..Len(cs) : i = Len(hc) + k
      <4>1. i - Len(hc) \in 1..Len(cs) /\ i = Len(hc) + (i - Len(hc))
        BY <1>1, <2>2
      <4> QED
        BY <4>1
    <3>2. all[i] = cs[k] /\ cs[k] = [seq |-> s + k, base |-> b]
      BY <1>1, <3>1 DEF Numbered
    <3>3. s + k = r + i
      BY <1>1, <3>1
    <3> QED
      BY <3>2, <3>3
  <2> QED
    BY <1>1, <2>1, <2>2
<1>3. s + Len(cs) = r + (Len(hc) + Len(cs))
  BY <1>1
<1>4. Numbered(all, r, b)
  BY <1>1, <1>2 DEF Numbered
<1>5. Len(all) \in Nat
  BY <1>1
<1> QED
  BY <1>1, <1>3, <1>4, <1>5

\* The oldest may have to go.
Skipped(q, over, r) == IF over = 0 THEN r ELSE q[over].seq

LEMMA StepsLeft ==
  ASSUME NEW all \in Seq(Steps), NEW r \in Nat, NEW b, Numbered(all, r, b),
         NEW over \in 0..Len(all), NEW late, late = SubSeq(all, over + 1, Len(all)),
         NEW done, done = Skipped(all, over, r)
  PROVE  /\ done = r + over /\ done \in Nat /\ Len(late) = Len(all) - over /\ Len(all) = over + Len(late)
         /\ \A i \in DOMAIN late : late[i] = [seq |-> done + i, base |-> b]
<1>1. Len(all) \in Nat /\ over \in Nat /\ over <= Len(all)
  OBVIOUS
<1>2. done = r + over
  <2>1. CASE over = 0
    BY <2>1 DEF Skipped
  <2>2. CASE over # 0
    <3>1. over \in 1..Len(all)
      BY <1>1, <2>2
    <3>2. all[over] = [seq |-> r + over, base |-> b]
      BY <3>1 DEF Numbered
    <3> QED
      BY <2>2, <3>2 DEF Skipped
  <2> QED
    BY <2>1, <2>2
<1>3. Len(late) = Len(all) - over /\ \A i \in 1..(Len(all) - over) : late[i] = all[over + i]
  BY SuffixAt
<1>4. late \in Seq(Steps) /\ DOMAIN late = 1..(Len(all) - over)
  <2>1. late \in Seq(Steps)
    BY SuffixAt
  <2> QED
    BY <1>3, <2>1
<1>5. ASSUME NEW i \in DOMAIN late PROVE late[i] = [seq |-> done + i, base |-> b]
  <2>1. late[i] = all[over + i] /\ i \in Nat
    BY <1>3, <1>4
  <2>2. over + i \in 1..Len(all)
    BY <1>1, <1>4
  <2>3. all[over + i] = [seq |-> r + (over + i), base |-> b]
    BY <2>2 DEF Numbered
  <2>4. r + (over + i) = done + i
    BY <1>1, <1>2, <2>1
  <2> QED
    BY <2>1, <2>3, <2>4
<1>6. done \in Nat /\ Len(all) = over + Len(late)
  BY <1>1, <1>2, <1>3
<1> QED
  BY <1>2, <1>3, <1>5, <1>6

\* Its action follows those the host has queued.
InTurn(q, acted, b) ==
  \A i \in DOMAIN q : q[i].base = b /\ q[i].id > (IF i = 1 THEN acted ELSE q[i - 1].id)

LEMMA DeedsQueued ==
  ASSUME NEW ha \in Seq(Deeds), NEW ds \in Seq(Deeds), NEW a \in Nat, NEW z \in Nat, NEW acted \in Nat, NEW b,
         InTurn(ha, acted, b), acted <= a, a <= z, Len(ds) <= 1,
         Below(ha, a), Based(ds, b), Above(ds, a), Below(ds, z),
         NEW both, both = ha \o ds
  PROVE  InTurn(both, acted, b) /\ Below(both, z)
<1>1. /\ both \in Seq(Deeds) /\ DOMAIN both = 1..(Len(ha) + Len(ds))
      /\ Len(ha) \in Nat /\ Len(ds) \in Nat /\ DOMAIN ha = 1..Len(ha) /\ DOMAIN ds = 1..Len(ds)
      /\ \A k \in 1..Len(ha) : both[k] = ha[k]
      /\ \A k \in 1..Len(ds) : both[Len(ha) + k] = ds[k]
  BY SumOf
<1>2. \A k \in DOMAIN both : both[k].id \in Nat
  BY <1>1, DeedsIds
<1>3. ASSUME NEW i \in DOMAIN both
      PROVE  /\ both[i].id <= z /\ both[i].base = b
             /\ both[i].id > (IF i = 1 THEN acted ELSE both[i - 1].id)
  <2>0. i \in 1..(Len(ha) + Len(ds)) /\ i \in Nat
    BY <1>1
  <2>1. CASE i <= Len(ha)
    <3>1. i \in 1..Len(ha)
      BY <1>1, <2>0, <2>1
    <3>2. both[i] = ha[i] /\ both[i].id \in Nat /\ i \in DOMAIN ha
      BY <1>1, <1>2, <3>1
    <3>3. ha[i].base = b /\ ha[i].id > (IF i = 1 THEN acted ELSE ha[i - 1].id)
      BY <3>2 DEF InTurn
    <3>4. i # 1 => both[i - 1] = ha[i - 1]
      <4>1. i # 1 => i - 1 \in 1..Len(ha)
        BY <1>1, <3>1
      <4> QED
        BY <1>1, <4>1
    <3>5. both[i].id <= a
      BY <3>2 DEF Below
    <3>6. both[i].id <= z
      BY <3>2, <3>5
    <3> QED
      BY <3>2, <3>3, <3>4, <3>6
  <2>2. CASE i > Len(ha)
    <3>1. Len(ds) = 1 /\ i = Len(ha) + 1
      BY <1>1, <2>0, <2>2
    <3>2. 1 \in 1..Len(ds) /\ 1 \in DOMAIN ds
      BY <1>1, <3>1
    <3>3. both[i] = ds[1] /\ both[i].id \in Nat
      BY <1>1, <1>2, <3>1, <3>2
    <3>4. ds[1].base = b /\ a < ds[1].id /\ ds[1].id <= z
      BY <3>2 DEF Based, Above, Below
    <3>5. both[i].id > acted
      <4>1. a < both[i].id
        BY <3>3, <3>4
      <4> QED
        BY <3>3, <4>1
    <3>6. i # 1 => both[i].id > both[i - 1].id
      <4> HAVE i # 1
      <4>1. i - 1 \in 1..Len(ha)
        BY <1>1, <3>1
      <4>2. both[i - 1] = ha[i - 1] /\ i - 1 \in DOMAIN ha /\ i - 1 \in DOMAIN both
        BY <1>1, <2>0, <4>1
      <4>3. both[i - 1].id \in Nat /\ both[i - 1].id <= a /\ a < both[i].id
        BY <1>2, <3>3, <3>4, <4>2 DEF Below
      <4> QED
        BY <3>3, <4>3, Between
    <3> QED
      BY <3>3, <3>4, <3>5, <3>6
  <2> QED
    BY <1>1, <2>0, <2>1, <2>2
<1> QED
  BY <1>3 DEF InTurn, Below

LEMMA IntentReads ==
  ASSUME NEW h \in Hosts, NEW m \in Intents, NEW x \in Marks, NEW z \in Marks, NEW acted \in Nat,
         Moves(x, m, z), Read(h, acted, x), Queue(h, acted), h.synced,
         NEW g, g = ReceiveIntent(h, m)
  PROVE  Read(g, acted, z) /\ Queue(g, acted)
<1> DEFINE cs == m.cmds
           ds == m.acts
           hc == h.cmds
           ha == h.acts
           sn == h.seen
           sa == h.seenAct
           r == h.resolved
           c == h.ckpt
           xa == x.act
           za == z.act
           new == Unseen(cs, {i \in DOMAIN cs : cs[i].seq <= sn})
           all == hc \o new
           over == IF Len(all) > QueueMax THEN Len(all) - QueueMax ELSE 0
           acts == Unseen(ds, {i \in DOMAIN ds : ds[i].id <= sa})
           late == SubSeq(all, over + 1, Len(all))
           both == ha \o acts
           seen == IF new = <<>> THEN sn ELSE new[Len(new)].seq
           done == IF over = 0 THEN r ELSE all[over].seq
           known == IF acts = <<>> THEN sa ELSE acts[Len(acts)].id
<1>1. g = [h EXCEPT !.cmds = late, !.seen = seen, !.resolved = done, !.acts = both, !.seenAct = known]
  BY DEF ReceiveIntent, Accepted
<1> HIDE DEF late, seen, done, both, known
<1>2. /\ g.cmds = late /\ g.seen = seen /\ g.resolved = done /\ g.acts = both /\ g.seenAct = known
      /\ g.ckpt = c
  BY <1>1 DEF Hosts
<1>3. cs \in Seq(Steps) /\ ds \in Seq(Deeds) /\ m.t = "intent"
  BY IntentTypes
<1>4. hc \in Seq(Steps) /\ ha \in Seq(Deeds) /\ sn \in Nat /\ sa \in Nat /\ r \in Nat /\ c \in Nat
  BY HostTypes
<1>5. xa \in Nat /\ za \in Nat
  BY MarkTypes
<1>6. x.base = c /\ x.seq = sn /\ acted <= xa /\ sa <= xa
  BY DEF Read
<1>7. Below(ha, xa)
  BY DEF Read, Below
<1>8. sn = r + Len(hc) /\ InTurn(ha, acted, c)
  BY DEF Queue, InTurn
<1>9. \A i \in DOMAIN hc : hc[i] = [seq |-> r + i, base |-> c]
  BY DEF Queue
<1>10. z.base = x.base /\ z.seq = x.seq + Len(cs) /\ xa <= za /\ Len(ds) <= 1
  BY <1>3, IntentMoves
<1>11. \A i \in DOMAIN cs : cs[i] = [seq |-> sn + i, base |-> c]
  <2>1. \A i \in DOMAIN cs : cs[i] = [seq |-> x.seq + i, base |-> x.base]
    BY <1>3, IntentMoves
  <2> HIDE DEF cs, sn, c
  <2> QED
    BY <1>6, <2>1
<1>12. Based(ds, c)
  <2>1. \A i \in DOMAIN ds : ds[i].base = x.base
    BY <1>3, IntentMoves
  <2> HIDE DEF ds, c
  <2> QED
    BY <1>6, <2>1 DEF Based
<1>13. Above(ds, xa) /\ Below(ds, za)
  BY <1>3, IntentMoves DEF Above, Below
<1>14. z.base = c /\ z.seq = sn + Len(cs)
  BY <1>6, <1>10
<1> HIDE DEF cs, ds, hc, ha, sn, sa, r, c, xa, za
<1>15. new = cs
  BY <1>3, <1>4, <1>11, StepsKnown
<1>16. acts = ds
  BY <1>3, <1>4, <1>5, <1>6, <1>13, DeedsKnown
<1> HIDE DEF new, acts
<1>17. /\ all \in Seq(Steps) /\ Len(all) = Len(hc) + Len(cs) /\ Len(all) \in Nat
       /\ Numbered(all, r, c)
       /\ sn + Len(cs) = r + Len(all)
  <2>1. IsSum(all, hc, cs)
    BY <1>15 DEF IsSum
  <2> HIDE DEF all
  <2>2. hc \in Seq(Steps) /\ cs \in Seq(Steps) /\ r \in Nat /\ sn \in Nat /\ sn = r + Len(hc)
    BY <1>3, <1>4, <1>8
  <2>3. Numbered(hc, r, c) /\ Numbered(cs, sn, c)
    <3>1. DOMAIN hc = 1..Len(hc) /\ DOMAIN cs = 1..Len(cs)
      BY <2>2
    <3> QED
      BY <1>9, <1>11, <3>1 DEF Numbered
  <2> QED
    BY <2>1, <2>2, <2>3, StepsJoined
<1> HIDE DEF all
<1>18. over \in 0..Len(all)
  <2>1. QueueMax \in Nat
    BY NetSyncAssumption
  <2> QED
    BY <1>17, <2>1
<1> HIDE DEF over
<1>19. /\ done = r + over /\ done \in Nat /\ Len(late) = Len(all) - over /\ Len(all) = over + Len(late)
       /\ \A i \in DOMAIN late : late[i] = [seq |-> done + i, base |-> c]
  <2>1. late = SubSeq(all, over + 1, Len(all))
    BY DEF late
  <2>2. done = Skipped(all, over, r)
    BY DEF done, Skipped
  <2> HIDE DEF late, done
  <2>3. all \in Seq(Steps) /\ r \in Nat /\ Numbered(all, r, c) /\ over \in 0..Len(all)
    BY <1>4, <1>17, <1>18
  <2> QED
    BY <2>1, <2>2, <2>3, StepsLeft
<1>20. seen = z.seq
  <2>0. seen = IF cs = <<>> THEN sn ELSE cs[Len(cs)].seq
    BY <1>15 DEF seen
  <2>1. CASE cs = <<>>
    <3>1. Len(cs) = 0
      BY <2>1
    <3> QED
      BY <1>4, <1>14, <2>0, <2>1, <3>1
  <2>2. CASE cs # <<>>
    <3>1. Len(cs) \in DOMAIN cs
      BY <1>3, <2>2
    <3>2. cs[Len(cs)] = [seq |-> sn + Len(cs), base |-> c]
      BY <1>11, <3>1
    <3> QED
      BY <1>14, <2>0, <2>2, <3>2
  <2> QED
    BY <2>1, <2>2
<1>21. seen = done + Len(late)
  <2>1. Len(late) \in Nat /\ over \in Nat
    BY <1>17, <1>18, <1>19
  <2>2. seen = r + (over + Len(late))
    BY <1>14, <1>17, <1>19, <1>20
  <2> QED
    BY <1>4, <1>19, <2>1, <2>2
<1>22. known <= za
  <2>0. known = IF ds = <<>> THEN sa ELSE ds[Len(ds)].id
    BY <1>16 DEF known
  <2>1. CASE ds = <<>>
    BY <1>4, <1>5, <1>6, <1>10, <2>0, <2>1
  <2>2. CASE ds # <<>>
    <3>1. Len(ds) \in DOMAIN ds
      BY <1>3, <2>2, LastOf
    <3> QED
      BY <1>13, <2>0, <2>2, <3>1 DEF Below
  <2> QED
    BY <2>1, <2>2
<1>23. InTurn(both, acted, c) /\ Below(both, za)
  <2>1. both = ha \o ds
    BY <1>16 DEF both
  <2>2. acted <= xa /\ xa <= za /\ Len(ds) <= 1 /\ InTurn(ha, acted, c)
    BY <1>6, <1>8, <1>10
  <2> QED
    BY <1>3, <1>4, <1>5, <1>7, <1>12, <1>13, <2>1, <2>2, DeedsQueued
<1>24. acted <= za
  BY <1>5, <1>6, <1>10
<1>25. Read(g, acted, z)
  <2>1. \A i \in DOMAIN g.acts : g.acts[i].id <= z.act
    BY <1>2, <1>23 DEF za, Below
  <2>2. acted <= z.act /\ g.seenAct <= z.act
    BY <1>2, <1>22, <1>24 DEF za
  <2>3. z.base = g.ckpt /\ z.seq = g.seen
    BY <1>2, <1>14, <1>20
  <2> QED
    BY <2>1, <2>2, <2>3 DEF Read
<1>26. Queue(g, acted)
  <2>1. g.seen = g.resolved + Len(g.cmds)
    BY <1>2, <1>21
  <2>2. \A i \in DOMAIN g.cmds : g.cmds[i] = [seq |-> g.resolved + i, base |-> g.ckpt]
    BY <1>2, <1>19
  <2>3. InTurn(g.acts, acted, g.ckpt)
    BY <1>2, <1>23
  <2> QED
    BY <2>1, <2>2, <2>3 DEF Queue, InTurn
<1> QED
  BY <1>25, <1>26

\* Any message of the host's line.
LEMMA HostReceiveReads ==
  ASSUME NEW h \in Hosts, NEW m \in Told, NEW x \in Marks, NEW z \in Marks, NEW acted \in Nat,
         Moves(x, m, z), Read(h, acted, x), Queue(h, acted), z.base <= h.ckpt,
         m.t = "welcome" => ~h.synced,
         m.t = "checkpoint_ack" /\ m.id = h.ckpt => Fresh(h),
         NEW g, g = HostReceive(h, m)
  PROVE  /\ Read(g, acted, z) /\ Queue(g, acted)
         /\ Fresh(h) => Fresh(g) \/ z.base = h.ckpt
<1>1. h.ckpt \in Nat /\ x.base \in Nat /\ z.base \in Nat /\ x.act \in Nat /\ z.act \in Nat /\ h.seenAct \in Nat
  BY HostTypes, MarkTypes
<1>2. \A i \in DOMAIN h.acts : h.acts[i].id \in Nat
  <2>1. h.acts \in Seq(Deeds)
    BY HostTypes
  <2> QED
    BY <2>1, DeedsIds
<1>3. ASSUME g = h, x.act <= z.act, h.synced => z = x PROVE Read(g, acted, z) /\ Queue(g, acted)
  BY <1>1, <1>2, <1>3 DEF Read
<1>4. CASE m.t = "intent"
  <2>1. m \in Intents
    BY <1>4, Kinds
  <2>2. g = ReceiveIntent(h, m)
    BY <1>4 DEF HostReceive
  <2>3. CASE h.synced
    BY <2>1, <2>2, <2>3, IntentReads DEF Fresh
  <2>4. CASE ~h.synced
    <3>1. g = h
      BY <2>2, <2>4 DEF ReceiveIntent, Accepted
    <3>2. x.act <= z.act
      BY <1>4 DEF Moves
    <3> QED
      BY <1>3, <2>4, <3>1, <3>2
  <2> QED
    BY <2>3, <2>4
<1>5. CASE m.t = "checkpoint_ack"
  <2>1. m \in Acks /\ m.id \in Nat
    BY <1>5, Kinds DEF Acks
  <2>2. x.base < m.id /\ z = [base |-> m.id, seq |-> 0, act |-> x.act]
    BY <1>5 DEF Moves
  <2>3. z.base = m.id /\ z.seq = 0 /\ z.act = x.act
    BY <2>2
  <2>4. CASE m.id = h.ckpt
    <3> DEFINE c == [h EXCEPT !.synced = TRUE]
    <3>1. g = [c EXCEPT !.cmds = <<>>, !.acts = <<>>]
      BY <1>5, <2>4 DEF HostReceive, Cleared
    <3>2. Fresh(h)
      BY <1>5, <2>4
    <3>3. g.cmds = <<>> /\ g.acts = <<>> /\ g.resolved = 0 /\ g.seen = 0 /\ g.seenAct = 0 /\ g.ckpt = h.ckpt
      BY <3>1, <3>2 DEF Hosts, Fresh
    <3>4. Read(g, acted, z)
      BY <1>1, <2>3, <2>4, <3>3 DEF Read
    <3>5. Queue(g, acted)
      BY <3>3 DEF Queue
    <3> QED
      BY <2>3, <2>4, <3>4, <3>5
  <2>5. CASE m.id # h.ckpt
    <3>1. g = h
      BY <1>5, <2>5 DEF HostReceive
    <3>2. ~h.synced
      <4>1. h.synced => x.base = h.ckpt
        BY DEF Read
      <4> QED
        BY <1>1, <2>1, <2>2, <2>3, <2>5, <4>1
    <3>3. x.act <= z.act
      BY <1>1, <2>3
    <3> QED
      BY <1>3, <3>1, <3>2, <3>3
  <2> QED
    BY <2>4, <2>5
<1>6. CASE m.t \notin {"intent", "checkpoint_ack"}
  <2>1. g = h
    BY <1>6 DEF HostReceive
  <2>2. CASE m.t = "welcome"
    <3>1. Upto(x, z) /\ ~h.synced
      BY <2>2 DEF Moves
    <3> QED
      BY <1>3, <2>1, <3>1 DEF Upto
  <2>3. CASE m.t # "welcome"
    <3>1. z = x
      BY <1>6, <2>3 DEF Moves
    <3> QED
      BY <1>1, <1>3, <2>1, <3>1
  <2> QED
    BY <2>2, <2>3
<1> QED
  BY <1>4, <1>5, <1>6

LEMMA UptoBase ==
  ASSUME NEW x \in Marks, NEW y \in Marks, Upto(x, y)
  PROVE  x.base \in Nat /\ y.base \in Nat /\ x.base <= y.base
<1>1. x.base \in Nat /\ y.base \in Nat
  BY MarkTypes
<1> QED
  BY <1>1 DEF Upto

\* What follows a mark acknowledges only what comes after it.
LEMMA FlowsNoAck ==
  ASSUME NEW q \in Seq(Any), NEW x, NEW y, Flows(q, x, y), NEW c \in Nat, c <= x.base
  PROVE  NoAck(q, c)
<1>1. PICK f : Flow(q, f) /\ f[0] = x /\ f[Len(q)] = y
  BY DEF Flows
<1>2. ASSUME NEW i \in DOMAIN q, q[i].t = "checkpoint_ack" PROVE q[i].id # c
  <2>1. i \in 1..Len(q) /\ Len(q) \in Nat /\ q[i] \in Any /\ i - 1 \in 0..Len(q) /\ i - 1 \in 0..(i - 1) /\ 0 \in 0..(i - 1)
    OBVIOUS
  <2>2. Moves(f[i - 1], q[i], f[i])
    BY <1>1, <2>1 DEF Flow
  <2>3. \A k \in 0..(i - 1) : f[k] \in Marks /\ f[i - 1] \in Marks /\ Upto(f[k], f[i - 1])
    BY <1>1, <2>1, FlowUpto
  <2>4. f[0] \in Marks /\ f[i - 1] \in Marks /\ Upto(f[0], f[i - 1])
    BY <2>1, <2>3
  <2>5. f[0].base \in Nat /\ f[i - 1].base \in Nat
    BY <2>4, MarkTypes
  <2>6. f[0].base <= f[i - 1].base
    BY <2>4, <2>5 DEF Upto
  <2> DEFINE m == q[i]
  <2>7. m.id \in Nat
    <3>1. m \in Left \cup Sent \cup Told /\ m.t = "checkpoint_ack"
      BY <1>2, <2>1 DEF Any
    <3> HIDE DEF m
    <3> QED
      BY <3>1, Kinds DEF Acks
  <2>8. f[i - 1].base < m.id
    BY <1>2, <2>2 DEF Moves
  <2> HIDE DEF m
  <2>9. m.id # c
    BY <1>1, <2>5, <2>6, <2>7, <2>8
  <2> QED
    BY <2>9 DEF m
<1> QED
  BY <1>2 DEF NoAck

\* A host that plays and is told it is connected again holds its partner out of
\* step; nothing else of its line says so.
LEMMA HostToldUnsynced ==
  ASSUME Wires, Playing, NEW n \in 1..Len(down["Host"]), NEW I, Trail("Host", n, I), I[n].phase = "Active",
         NEW k \in 1..n, down["Host"][k].t = "welcome", NEW h, h = HostTold(I[n].phase, host, I[n].events)
  PROVE  k = 1 /\ ~h.synced
<1>1. "Host" \in Roles /\ TypeOK /\ host \in Hosts /\ n \in 0..Len(down["Host"]) /\ down["Host"] \in Seq(Told)
      /\ n \in Nat /\ Len(down["Host"]) \in Nat
  <2>1. "Host" \in Roles /\ TypeOK
    BY DEF Roles, Wires
  <2>2. down["Host"] \in Seq(Told)
    BY <2>1, Parts
  <2> QED
    BY <2>1, <2>2 DEF TypeOK
<1>2. k \in DOMAIN down["Host"] /\ 1 \in 0..n /\ 1 \in 1..n /\ 0 \in 0..n /\ n \in 0..n
  BY <1>1
<1>3. k = 1
  BY <1>2 DEF Wires, Hosting
<1>4. I[0] \in Ins /\ I[1] \in Ins /\ I[n] \in Ins /\ down["Host"][1] \in Told /\ I[1] = Took(I[0], down["Host"][1])
  <2>1. I \in [0..n -> Ins] /\ \A i \in 1..n : I[i] = Took(I[i - 1], down["Host"][i])
    BY DEF Trail
  <2>2. I[1] = Took(I[1 - 1], down["Host"][1])
    BY <1>2, <2>1
  <2>3. 1 \in DOMAIN down["Host"]
    BY <1>2, <1>3
  <2> QED
    BY <1>1, <1>2, <2>1, <2>2, <2>3
<1>5. I[1].events = Append(I[0].events, "reconnected") /\ I[0].events \in Seq(Events) /\ I[n].events \in Seq(Events)
      /\ I[1].events \in Seq(Events)
  <2>1. \A i \in Ins : i.events \in Seq(Events)
    BY DEF Ins
  <2>2. down["Host"][1].t = "welcome"
    BY <1>3
  <2>3. I[1].events = Append(I[0].events, "reconnected")
    BY <1>4, <2>2, TookStep
  <2> QED
    BY <1>4, <2>1, <2>3
<1>6. Begun(I[1].events, I[n].events)
  BY <1>1, <1>2, TrailGrows
<1>7. \E i \in DOMAIN I[n].events : I[n].events[i] = "reconnected"
  <2> DEFINE a == I[0].events
             b == I[1].events
             c == I[n].events
  <2>1. b = Append(a, "reconnected") /\ a \in Seq(Events) /\ c \in Seq(Events) /\ Begun(b, c)
    BY <1>5, <1>6
  <2> HIDE DEF a, b, c
  <2>2. Len(b) = Len(a) + 1 /\ Len(a) \in Nat /\ b[Len(a) + 1] = "reconnected" /\ Len(c) \in Nat /\ DOMAIN c = 1..Len(c)
    BY <2>1
  <2>3. Len(a) + 1 \in 1..Len(b) /\ Len(b) <= Len(c)
    BY <2>1, <2>2 DEF Begun
  <2>4. c[Len(a) + 1] = "reconnected" /\ Len(a) + 1 \in DOMAIN c
    BY <2>1, <2>2, <2>3 DEF Begun
  <2>5. \E i \in DOMAIN c : c[i] = "reconnected"
    BY <2>4
  <2> QED
    BY <2>5 DEF c
<1>8. h.synced => \A i \in DOMAIN I[n].events : I[n].events[i] # "reconnected"
  BY <1>1, <1>5, HostToldIs
<1> QED
  BY <1>3, <1>7, <1>8

\* The host after k messages, at the mark they leave.
HostAt(h, x) ==
  /\ Read(h, history.acted, x) /\ Queue(h, history.acted)
  /\ Fresh(h) \/ host.ckpt <= x.base \/ Unheard(host.ckpt)

LEMMA HostReadsStream ==
  ASSUME Wires, Awaited, Playing, NEW n \in 1..Len(down["Host"]), NEW I, NEW R, HostFramed(n, I, R),
         ~Leaves(I[n].phase, R[n].ended),
         NEW f, Flow(down["Host"], f), Read(host, history.acted, f[0]),
         f[Len(down["Host"])].base <= host.ckpt
  PROVE  HostAt(R[n], f[n])
<1> DEFINE d == down["Host"]
           S == {k \in 0..n : HostAt(R[k], f[k])}
           L == Len(d)
<1>1. "Host" \in Roles /\ TypeOK /\ host \in Hosts /\ d \in Seq(Told) /\ d \in Seq(Any) /\ host.ckpt \in Nat
      /\ history.acted \in Nat
  <2>1. "Host" \in Roles /\ TypeOK
    BY DEF Roles, Wires
  <2>2. d \in Seq(Told) /\ d \in Seq(Any)
    BY <2>1, Parts, WayType DEF Any
  <2>3. host \in Hosts /\ history.acted \in Nat
    BY <2>1 DEF TypeOK
  <2> QED
    BY <2>1, <2>2, <2>3, HostTypes
<1>2. n \in Nat /\ L \in Nat /\ n \in 0..L /\ n \in 0..n /\ 0 \in 0..n /\ L \in 0..L
  BY <1>1
<1>3. Trail("Host", n, I) /\ HostReads(n, I, R)
  BY DEF HostFramed
<1>4. I[n].phase = "Active" /\ \A k \in 1..n : d[k].t \in Traffic => I[k - 1].phase = "Active"
  BY HostFrameKeeps
<1>5. \A k \in 0..L : f[k] \in Marks /\ f[L] \in Marks /\ Upto(f[k], f[L])
  BY <1>1, <1>2, FlowUpto
<1>6. \A k \in 0..L : f[k].base <= host.ckpt
  <2> TAKE k \in 0..L
  <2>0. f[k] \in Marks /\ f[L] \in Marks /\ Upto(f[k], f[L])
    BY <1>5
  <2>1. f[k].base \in Nat /\ f[L].base \in Nat /\ f[k].base <= f[L].base
    BY <2>0, UptoBase
  <2> QED
    BY <1>1, <2>1
<1>7. \A k \in 0..n : R[k] \in Hosts /\ Steady(R[k], host)
  BY <1>1, <1>2, <1>3, HostSteady
<1>8. R[0] = HostTold(I[n].phase, host, I[n].events) /\ I[n].events \in Seq(Events)
  BY <1>2, <1>3 DEF HostReads, Trail, Ins
<1>9. Retold(host, R[0]) /\ (R[0].synced => host.synced)
  BY <1>1, <1>8, HostToldIs
<1>10. 0 \in S
  <2>1. /\ R[0].ckpt = host.ckpt /\ R[0].resolved = host.resolved /\ R[0].seen = host.seen
        /\ R[0].seenAct = host.seenAct /\ R[0].cmds = host.cmds /\ R[0].acts = host.acts
    BY <1>1, <1>9 DEF Retold, Hosts
  <2>2. Read(R[0], history.acted, f[0])
    BY <1>9, <2>1 DEF Read
  <2>3. Queue(host, history.acted) /\ (Fresh(host) \/ Unheard(host.ckpt))
    BY DEF Awaited
  <2>4. Queue(R[0], history.acted)
    BY <1>9, <2>1, <2>3 DEF Queue
  <2>5. Fresh(host) => Fresh(R[0])
    BY <1>9, <2>1 DEF Fresh
  <2> QED
    BY <1>2, <2>2, <2>3, <2>4, <2>5 DEF HostAt
<1>11. ASSUME NEW k \in 0..(n - 1), k \in S PROVE k + 1 \in S
  <2> DEFINE m == d[k + 1]
             h == R[k]
             g == R[k + 1]
             x == f[k]
             z == f[k + 1]
  <2>1. k + 1 \in 1..n /\ (k + 1) - 1 = k /\ k + 1 \in 0..n /\ k \in 0..n /\ k \in 0..L /\ k + 1 \in 0..L /\ k + 1 \in 1..L
    BY <1>2
  <2>2. m \in Told /\ h \in Hosts /\ g \in Hosts /\ x \in Marks /\ z \in Marks /\ h.ckpt = host.ckpt
    <3>1. m \in Told
      BY <1>1, <2>1
    <3>2. h \in Hosts /\ g \in Hosts /\ Steady(h, host)
      BY <1>7, <2>1
    <3>3. x \in Marks /\ z \in Marks
      BY <1>5, <2>1
    <3> QED
      BY <3>1, <3>2, <3>3 DEF Steady
  <2>3. Moves(x, m, z)
    <3>1. \A j \in 1..L : Moves(f[j - 1], d[j], f[j])
      BY DEF Flow
    <3>2. Moves(f[(k + 1) - 1], d[k + 1], f[k + 1])
      BY <2>1, <3>1
    <3> QED
      BY <2>1, <3>2
  <2>4. g = HostReceive(h, m)
    <3>1. \/ R[k + 1] = HostReceive(R[(k + 1) - 1], d[k + 1])
          \/ /\ R[k + 1] = R[(k + 1) - 1]
             /\ d[k + 1].t \notin Traffic \/ I[(k + 1) - 1].phase \notin {"Active", "Ended"}
      BY <1>3, <2>1 DEF HostReads
    <3>2. m.t \in Traffic => I[(k + 1) - 1].phase = "Active"
      BY <1>4, <2>1
    <3>3. CASE R[k + 1] = HostReceive(R[(k + 1) - 1], d[k + 1])
      BY <2>1, <3>3
    <3>4. CASE R[k + 1] = R[(k + 1) - 1] /\ m.t \notin Traffic
      <4>1. g = h /\ m.t # "intent" /\ m.t # "checkpoint_ack"
        BY <2>1, <3>4 DEF Traffic
      <4>2. HostReceive(h, m) = h
        BY <4>1 DEF HostReceive
      <4> QED
        BY <4>1, <4>2
    <3> QED
      BY <3>1, <3>2, <3>3, <3>4
  <2>5. m.t = "welcome" => ~h.synced
    <3> HAVE m.t = "welcome"
    <3>1. k + 1 = 1 /\ ~R[0].synced
      BY <1>3, <1>4, <1>8, <2>1, HostToldUnsynced
    <3>2. k = 0
      BY <2>1, <3>1
    <3> QED
      BY <3>1, <3>2
  <2>6. HostAt(h, x)
    BY <1>11
  <2>7. Read(h, history.acted, x) /\ Queue(h, history.acted)
        /\ (Fresh(h) \/ host.ckpt <= x.base \/ Unheard(host.ckpt))
    BY <2>6 DEF HostAt
  <2>8. z.base <= h.ckpt
    BY <1>6, <2>1, <2>2
  <2>9. k + 1 \in DOMAIN d
    BY <1>1, <2>1
  <2>10. Unheard(host.ckpt) => (m.t = "checkpoint_ack" => m.id # host.ckpt)
    BY <2>9 DEF Unheard, NoAck
  <2>11. Upto(x, z)
    BY <2>2, <2>3, MovesUpto DEF Any
  <2> SUFFICES HostAt(g, z)
    BY <2>1
  <2> HIDE DEF m, h, g, x, z
  <2>12. x.base \in Nat /\ z.base \in Nat /\ x.base <= z.base
    BY <2>2, <2>11, MarkTypes DEF Upto
  <2>13. m.t = "checkpoint_ack" => m.id \in Nat
    BY <2>2, Kinds DEF Acks
  <2>14. m.t = "checkpoint_ack" /\ m.id = h.ckpt => Fresh(h)
    <3> HAVE m.t = "checkpoint_ack" /\ m.id = h.ckpt
    <3>1. x.base < m.id
      BY <2>3 DEF Moves
    <3>2. ~(host.ckpt <= x.base)
      BY <1>1, <2>2, <2>12, <3>1
    <3> QED
      BY <2>2, <2>7, <2>10, <3>2
  <2>15. Read(g, history.acted, z) /\ Queue(g, history.acted) /\ (Fresh(h) => Fresh(g) \/ z.base = h.ckpt)
    BY <1>1, <2>2, <2>3, <2>4, <2>5, <2>7, <2>8, <2>14, HostReceiveReads
  <2>16. Fresh(g) \/ host.ckpt <= z.base \/ Unheard(host.ckpt)
    <3>1. z.base = h.ckpt => host.ckpt <= z.base
      BY <1>1, <2>2
    <3>2. host.ckpt <= x.base => host.ckpt <= z.base
      BY <1>1, <2>12
    <3> QED
      BY <2>7, <2>15, <3>1, <3>2
  <2> QED
    BY <2>15, <2>16 DEF HostAt
<1> HIDE DEF S
<1>12. \A k \in 0..n : k \in S
  BY <1>2, <1>10, <1>11, Climbs
<1> QED
  BY <1>2, <1>12 DEF S

\* What the host's frame leaves of the stream.
LEMMA HostFrameStream ==
  ASSUME Wires, Stream, Awaited, NEW n \in 1..Len(down["Host"]), NEW I, NEW R, HostFramed(n, I, R),
         ~Leaves(I[n].phase, R[n].ended)
  PROVE  Stream' /\ Awaited'
<1> DEFINE d == down["Host"]
           e == down'["Host"]
           p == Line("Join")
           q == Line("Join")'
<1>1. /\ Wires' /\ host' = R[n] /\ join' = join /\ history' = history
      /\ (Playing' <=> Playing) /\ (Passing' <=> Passing) /\ (Live' <=> Live) /\ Way' = Way
      /\ screen' = screen
      /\ Len(e) = Len(d) - n /\ \A i \in 1..(Len(d) - n) : e[i] = d[n + i]
      /\ q = p
  BY HostFrameKeeps
<1>2. TypeOK /\ TypeOK' /\ host \in Hosts /\ host.ckpt \in Nat
  BY <1>1, HostTypes DEF Wires, TypeOK
<1>3. d \in Seq(Any) /\ p \in Seq(Any) /\ e \in Seq(Any)
  <2>1. d \in Seq(Any) /\ p \in Seq(Any)
    BY <1>2, WayType DEF Any
  <2>2. e \in Seq(Told) /\ Told \subseteq Any
    BY <1>2 DEF TypeOK, Roles, Any
  <2> HIDE DEF e
  <2>3. e \in Seq(Any)
    BY <2>2
  <2> QED
    BY <2>1, <2>3
<1>4. PICK x \in Marks, y \in Marks : /\ Along(d, p, x, y, Passing)
                                      /\ Playing => Read(host, history.acted, x)
                                      /\ Written(y)
  BY DEF Stream
<1>5. PICK u \in Marks, v \in Marks : Flows(d, x, u) /\ Flows(p, v, y) /\ Upto(u, v) /\ (Passing => u = v)
  BY <1>4 DEF Along
<1>6. PICK f : Flow(d, f) /\ f[0] = x /\ f[Len(d)] = u
  BY <1>5 DEF Flows
<1>7. n \in Nat /\ Len(d) \in Nat /\ n \in 0..Len(d) /\ Len(d) \in 0..Len(d)
  BY <1>3
<1>8. e = SubSeq(d, n + 1, Len(d))
  <2> DEFINE s == SubSeq(d, n + 1, Len(d))
  <2>1. s \in Seq(Any) /\ Len(s) = Len(d) - n /\ \A i \in 1..(Len(d) - n) : s[i] = d[n + i]
    BY <1>3, <1>7, SuffixAt
  <2> HIDE DEF s, e
  <2>2. e = s
    BY <1>1, <1>3, <2>1, SeqEqual
  <2> QED
    BY <2>2 DEF s
<1>9. e \in Seq(Any) /\ Flows(e, f[n], u) /\ f[n] \in Marks
  <2>1. Flows(e, f[n], f[Len(d)])
    BY <1>3, <1>6, <1>7, <1>8, FlowPart
  <2>2. f[n] \in Marks
    BY <1>6, <1>7 DEF Flow
  <2> QED
    BY <1>3, <1>6, <2>1, <2>2
<1>10. Along(e, q, f[n], y, Passing')
  BY <1>1, <1>5, <1>9 DEF Along
<1>11. Upto(f[n], u) /\ Upto(v, y)
  BY <1>3, <1>5, <1>9, FlowsUpto
<1>12. u.base <= y.base /\ f[n].base <= y.base /\ f[n].base <= v.base /\ y.base \in Nat /\ f[n].base \in Nat
       /\ v.base \in Nat /\ u.base \in Nat
  <2>1. u.base \in Nat /\ v.base \in Nat /\ u.base <= v.base
    BY <1>5, UptoBase
  <2>2. f[n].base \in Nat /\ f[n].base <= u.base /\ v.base <= y.base /\ y.base \in Nat
    BY <1>4, <1>5, <1>9, <1>11, UptoBase
  <2> QED
    BY <2>1, <2>2
<1>13. Playing => y.base <= host.ckpt
  BY <1>4 DEF Written
<1>14. Playing => HostAt(host', f[n])
  <2> HAVE Playing
  <2>1. f[Len(d)].base <= host.ckpt
    BY <1>2, <1>6, <1>12, <1>13
  <2>2. Read(host, history.acted, f[0])
    BY <1>4, <1>6
  <2> QED
    BY <1>1, <1>6, <2>1, <2>2, HostReadsStream
<1>15. host'.ckpt = host.ckpt
  <2>1. n \in 0..n /\ Trail("Host", n, I) /\ HostReads(n, I, R)
    BY <1>7 DEF HostFramed
  <2>2. \A k \in 0..n : R[k] \in Hosts /\ Steady(R[k], host)
    BY <1>2, <1>7, <2>1, HostSteady
  <2> QED
    BY <1>1, <2>1, <2>2 DEF Steady
<1>16. Written(y)'
  BY <1>1, <1>4, <1>15 DEF Written
<1>17. Stream'
  <2>1. Playing' => Read(host', history'.acted, f[n])
    BY <1>1, <1>14 DEF HostAt
  <2> QED
    BY <1>1, <1>4, <1>9, <1>10, <1>16, <2>1 DEF Stream
<1>18. Awaited'
  <2> SUFFICES ASSUME Playing'
               PROVE  Queue(host', history'.acted) /\ (Fresh(host') \/ Unheard(host.ckpt)')
    BY DEF Awaited
  <2>1. Queue(host', history.acted) /\ (Fresh(host') \/ host.ckpt <= f[n].base \/ Unheard(host.ckpt))
    BY <1>1, <1>14 DEF HostAt
  <2>2. CASE host.ckpt <= f[n].base
    <3>1. NoAck(e, host.ckpt)
      BY <1>2, <1>9, <2>2, FlowsNoAck
    <3>2. host.ckpt <= v.base /\ host.ckpt <= y.base
      BY <1>2, <1>12, <2>2
    <3>3. NoAck(p, host.ckpt)
      BY <1>2, <1>3, <1>5, <3>2, FlowsNoAck
    <3>4. \A i \in DOMAIN Way : Completes(Way[i]) => Way[i].id # host.ckpt
      <4> TAKE i \in DOMAIN Way
      <4> HAVE Completes(Way[i])
      <4>1. y.base < Way[i].id /\ Way[i].id \in Nat
        BY <1>2, <1>4, CompleteIds DEF Written
      <4> QED
        BY <1>2, <1>12, <3>2, <4>1
    <3>5. Unheard(host.ckpt)'
      BY <1>1, <1>15, <3>1, <3>3, <3>4 DEF Unheard
    <3> QED
      BY <1>1, <2>1, <3>5
  <2>3. CASE Unheard(host.ckpt)
    <3>1. NoAck(e, host.ckpt)
      <4>1. NoAck(d, host.ckpt)
        BY <2>3 DEF Unheard
      <4> QED
        BY <1>3, <1>7, <1>8, <4>1, NoAckPart
    <3>2. Unheard(host.ckpt)'
      BY <1>1, <1>15, <2>3, <3>1 DEF Unheard
    <3> QED
      BY <1>1, <2>1, <3>2
  <2> QED
    BY <1>1, <2>1, <2>2, <2>3
<1> QED
  BY <1>17, <1>18

-----------------------------------------------------------------------------
(* The stream, as the joiner answers *)

\* The joiner within a frame that found it at r: what it has answered so far
\* takes its stream from y to z.
Answered(a, r, phase, y, z) ==
  /\ Flows(a.out, y, z) /\ z.act = y.act /\ z.base <= a.j.base /\ (phase # "Active" => z = y)
  /\ a.j.acted = join.acted
  /\ \/ a.j.base = join.base /\ z = y /\ (a.j.have => r.j.have) /\ a.j.seq = r.j.seq
     \/ join.base < a.j.base /\ a.j.seq = 0 /\ (phase = "Active" => z.base = a.j.base /\ z.seq = 0)

AnsweredAt(a, r, phase, y) == \E z \in Marks : Answered(a, r, phase, y, z)

LEMMA SeatTypes ==
  ASSUME NEW a \in Seats
  PROVE  a.out \in Seq(Any) /\ a.j.base \in Nat /\ a.j.seq \in Nat /\ a.j.acted \in Nat /\ a.j \in Joiners
<1>1. a.out \in Seq(Sent) /\ a.j \in Joiners
  BY DEF Seats
<1>2. Sent \subseteq Any
  BY DEF Any
<1> DEFINE o == a.out
           j == a.j
<1>3. o \in Seq(Sent) /\ j \in Joiners
  BY <1>1
<1> HIDE DEF o, j
<1>4. o \in Seq(Any) /\ j.base \in Nat /\ j.seq \in Nat /\ j.acted \in Nat
  BY <1>2, <1>3 DEF Joiners
<1> QED
  BY <1>3, <1>4 DEF o, j

\* One message.
LEMMA AnswerStep ==
  ASSUME NEW phase, NEW a \in Seats, NEW b \in Seats, NEW m \in Told, JoinStep(phase, a, m, b),
         NEW r, NEW y \in Marks, AnsweredAt(a, r, phase, y), join.base \in Nat, join.base <= a.j.base,
         Completes(m) => a.j.base < m.id
  PROVE  AnsweredAt(b, r, phase, y)
<1>1. PICK z \in Marks : Answered(a, r, phase, y, z)
  BY DEF AnsweredAt
<1>2. /\ Flows(a.out, y, z) /\ z.act = y.act /\ z.base <= a.j.base /\ (phase # "Active" => z = y)
      /\ a.j.acted = join.acted
      /\ \/ a.j.base = join.base /\ z = y /\ (a.j.have => r.j.have) /\ a.j.seq = r.j.seq
         \/ join.base < a.j.base /\ a.j.seq = 0 /\ (phase = "Active" => z.base = a.j.base /\ z.seq = 0)
  BY <1>1 DEF Answered
<1>3. a.out \in Seq(Any) /\ a.j.base \in Nat /\ z.base \in Nat
  BY SeatTypes, MarkTypes
<1>4. b.j.acted = a.j.acted
  BY DEF JoinStep
<1>5. CASE Completed(phase, a, m, b)
  <2>1. m.t = "chunk" /\ a.j.base < m.id /\ b.j.base = m.id /\ b.j.seq = 0
    BY <1>5 DEF Completed, Completes
  <2>2. m.id \in Nat
    BY <2>1, Kinds DEF Chunks
  <2>3. join.base < b.j.base /\ z.base <= b.j.base /\ z.base < m.id
    BY <1>2, <1>3, <2>1, <2>2
  <2>4. CASE phase = "Active"
    <3> DEFINE w == [t |-> "checkpoint_ack", id |-> m.id]
    <3>1. w \in Any /\ w.t = "checkpoint_ack" /\ w.id = m.id
      BY <2>2 DEF Any, Sent, Carried, Acks
    <3>2. b.out = Append(a.out, w)
      BY <1>5, <2>4 DEF Completed
    <3> HIDE DEF w
    <3>3. [base |-> m.id, seq |-> 0, act |-> z.act] \in Marks
      BY <2>2, MarkTypes DEF Marks
    <3>4. PICK v \in Marks : v = [base |-> m.id, seq |-> 0, act |-> z.act]
      BY <3>3
    <3>5. Moves(z, w, v)
      BY <2>3, <3>1, <3>4 DEF Moves
    <3>6. Flows(b.out, y, v)
      BY <1>2, <1>3, <3>1, <3>2, <3>5, FlowsMore
    <3>7. v.base = m.id /\ v.seq = 0 /\ v.act = z.act
      BY <3>4
    <3>8. v.base <= b.j.base
      BY <2>1, <2>2, <3>7
    <3>9. Answered(b, r, phase, y, v)
      BY <1>2, <1>4, <2>1, <2>3, <2>4, <3>6, <3>7, <3>8 DEF Answered
    <3> QED
      BY <3>9 DEF AnsweredAt
  <2>5. CASE phase # "Active"
    <3>1. b.out = a.out
      BY <1>5, <2>5 DEF Completed
    <3>2. Answered(b, r, phase, y, z)
      BY <1>2, <1>4, <2>1, <2>3, <2>5, <3>1 DEF Answered
    <3> QED
      BY <3>2 DEF AnsweredAt
  <2> QED
    BY <2>4, <2>5
<1>6. CASE /\ (b.j.have => a.j.have) /\ b.j.base = a.j.base /\ b.j.seq = a.j.seq
           /\ b.out = a.out \/ b.out = Append(a.out, Msg("result_ack"))
  <2>1. Flows(b.out, y, z)
    <3>1. CASE b.out = a.out
      BY <1>2, <3>1
    <3>2. CASE b.out = Append(a.out, Msg("result_ack"))
      <4> DEFINE w == Msg("result_ack")
      <4>1. w \in Any /\ w.t = "result_ack"
        BY Words DEF Any
      <4> HIDE DEF w
      <4>2. Moves(z, w, z)
        BY <4>1 DEF Moves
      <4> QED
        BY <1>2, <1>3, <3>2, <4>1, <4>2, FlowsMore DEF w
    <3> QED
      BY <1>6, <3>1, <3>2
  <2>2. Answered(b, r, phase, y, z)
    BY <1>2, <1>4, <1>6, <2>1 DEF Answered
  <2> QED
    BY <2>2 DEF AnsweredAt
<1>7. CASE Showed(a, m, b)
  BY <1>6, <1>7 DEF Showed
<1>8. CASE AsBefore(a, b)
  BY <1>6, <1>8 DEF AsBefore
<1> QED
  BY <1>5, <1>7, <1>8 DEF JoinStep

LEMMA JoinReadsStream ==
  ASSUME Wires, Worlds, NEW n \in 0..Len(down["Join"]), NEW I, NEW R, Trail("Join", n, I), JoinReads(n, I, R),
         NEW y \in Marks, y.base <= join.base
  PROVE  AnsweredAt(R[n], R[0], I[n].phase, y)
<1> DEFINE S == {k \in 0..n : AnsweredAt(R[k], R[0], I[n].phase, y)}
           w == Way
           d == down["Join"]
           l == Line("Host")
<1>1. TypeOK /\ "Join" \in Roles /\ n \in Nat /\ n \in 0..n /\ join \in Joiners /\ join.base \in Nat /\ 0 \in 0..n
  <2>1. TypeOK /\ "Join" \in Roles
    BY DEF Roles, Wires
  <2>2. d \in Seq(Told)
    BY <2>1, Parts
  <2>3. n \in Nat /\ n \in 0..n /\ 0 \in 0..n
    BY <2>2
  <2>4. join \in Joiners
    BY <2>1 DEF TypeOK
  <2> QED
    BY <2>1, <2>3, <2>4 DEF Joiners
<1>2. \A k \in 0..n : WorldAt(R[k].j, k)
  BY <1>1, JoinReadsWorlds
<1>3. \A i \in 1..n : i \in DOMAIN w /\ w[i] = d[i]
  <2>1. d \in Seq(Any) /\ l \in Seq(Any)
    BY <1>1, WayType DEF Any
  <2>2. w = d \o l /\ n \in 0..Len(d)
    BY DEF Way
  <2> HIDE DEF w, d, l
  <2> QED
    BY <2>1, <2>2
<1>4. 0 \in S
  <2>1. I[n].events \in Seq(Events) /\ Seat \in Seats
    BY <1>1, SeatTyped DEF Trail, Ins
  <2>2. R[0] \in Seats /\ Reseated(Seat, R[0]) /\ R[0].out = Seat.out
    BY <2>1, JoinToldIs DEF JoinReads
  <2>3. R[0].j.base = join.base /\ R[0].j.acted = join.acted /\ R[0].out = <<>>
    BY <1>1, <2>2 DEF Reseated, Seat, Joiners
  <2>4. Flows(R[0].out, y, y)
    BY <2>3, FlowsNone
  <2>5. Answered(R[0], R[0], I[n].phase, y, y)
    BY <2>3, <2>4 DEF Answered
  <2> QED
    BY <1>1, <2>5 DEF AnsweredAt
<1>5. ASSUME NEW k \in 0..(n - 1), k \in S PROVE k + 1 \in S
  <2> DEFINE m == d[k + 1]
             a == R[k]
             b == R[k + 1]
  <2>1. k + 1 \in 1..n /\ (k + 1) - 1 = k /\ k + 1 \in 0..n /\ k \in 0..n /\ k + 1 > k
    BY <1>1
  <2>2. m \in Told /\ a \in Seats /\ b \in Seats /\ JoinStep(I[n].phase, a, m, b)
    <3>1. /\ d[k + 1] \in Told /\ R[(k + 1) - 1] \in Seats /\ R[k + 1] \in Seats
          /\ JoinStep(I[n].phase, R[(k + 1) - 1], d[k + 1], R[k + 1])
      BY <1>1, <2>1, JoinSteps
    <3> QED
      BY <2>1, <3>1
  <2>3. WorldAt(a.j, k)
    BY <1>2, <2>1
  <2>4. w[k + 1] = m /\ k + 1 \in DOMAIN w
    BY <1>3, <2>1
  <2>5. join.base <= a.j.base
    BY <2>3 DEF WorldAt
  <2>6. Completes(m) => a.j.base < m.id
    <3>1. \A i \in DOMAIN w : i > k => (Completes(w[i]) => a.j.base < w[i].id)
      BY <2>3 DEF WorldAt
    <3> QED
      BY <2>1, <2>4, <3>1
  <2>7. AnsweredAt(a, R[0], I[n].phase, y)
    BY <1>5
  <2> SUFFICES AnsweredAt(b, R[0], I[n].phase, y)
    BY <2>1
  <2> HIDE DEF m, a, b
  <2> QED
    BY <1>1, <2>2, <2>5, <2>6, <2>7, AnswerStep
<1> HIDE DEF S
<1>6. \A k \in 0..n : k \in S
  BY <1>1, <1>4, <1>5, Climbs
<1> QED
  BY <1>1, <1>6 DEF S

\* It acknowledges only what it was sent.
LEMMA JoinReadsNoAck ==
  ASSUME TypeOK, NEW n \in 0..Len(down["Join"]), NEW I, NEW R, Trail("Join", n, I), JoinReads(n, I, R),
         NEW c, \A i \in DOMAIN Way : Completes(Way[i]) => Way[i].id # c
  PROVE  NoAck(R[n].out, c)
<1> DEFINE S == {k \in 0..n : NoAck(R[k].out, c)}
           w == Way
           d == down["Join"]
           l == Line("Host")
<1>1. "Join" \in Roles /\ n \in Nat /\ n \in 0..n /\ 0 \in 0..n
  <2>1. "Join" \in Roles
    BY DEF Roles
  <2>2. d \in Seq(Told)
    BY <2>1, Parts
  <2> QED
    BY <2>1, <2>2
<1>3. \A i \in 1..n : i \in DOMAIN w /\ w[i] = d[i]
  <2>1. d \in Seq(Any) /\ l \in Seq(Any)
    BY <1>1, WayType DEF Any
  <2>2. w = d \o l /\ n \in 0..Len(d)
    BY DEF Way
  <2> HIDE DEF w, d, l
  <2> QED
    BY <2>1, <2>2
<1>4. 0 \in S
  <2>1. I[n].events \in Seq(Events) /\ Seat \in Seats
    BY <1>1, SeatTyped DEF Trail, Ins
  <2>2. R[0].out = <<>>
    BY <2>1, JoinToldIs DEF JoinReads, Seat
  <2>3. NoAck(R[0].out, c)
    BY <2>2 DEF NoAck
  <2> QED
    BY <1>1, <2>3
<1>5. ASSUME NEW k \in 0..(n - 1), k \in S PROVE k + 1 \in S
  <2> DEFINE m == d[k + 1]
             a == R[k]
             b == R[k + 1]
             phase == I[n].phase
  <2>1. k + 1 \in 1..n /\ (k + 1) - 1 = k /\ k + 1 \in 0..n /\ k \in 0..n /\ k + 1 > k
    BY <1>1
  <2>2. m \in Told /\ a \in Seats /\ b \in Seats /\ JoinStep(phase, a, m, b)
    <3>1. /\ d[k + 1] \in Told /\ R[(k + 1) - 1] \in Seats /\ R[k + 1] \in Seats
          /\ JoinStep(I[n].phase, R[(k + 1) - 1], d[k + 1], R[k + 1])
      BY <1>1, <2>1, JoinSteps
    <3> QED
      BY <2>1, <3>1
  <2>3. w[k + 1] = m /\ k + 1 \in DOMAIN w
    BY <1>3, <2>1
  <2>4. Completes(m) => m.id # c
    BY <2>3
  <2>5. NoAck(a.out, c)
    BY <1>5
  <2> SUFFICES NoAck(b.out, c)
    BY <2>1
  <2> HIDE DEF m, a, b, phase
  <2>6. a.out \in Seq(Any)
    BY <2>2, SeatTypes
  <2>7. CASE Completed(phase, a, m, b)
    <3>1. Completes(m) /\ m.id \in Nat
      <4>1. Completes(m) /\ m.t = "chunk"
        BY <2>7 DEF Completed, Completes
      <4> QED
        BY <2>2, <4>1, Kinds DEF Chunks
    <3> DEFINE v == [t |-> "checkpoint_ack", id |-> m.id]
    <3>2. v \in Any /\ v.id # c
      BY <2>4, <3>1 DEF Any, Sent, Carried, Acks
    <3>3. b.out = a.out \/ b.out = Append(a.out, v)
      BY <2>7 DEF Completed
    <3> HIDE DEF v
    <3> QED
      BY <2>5, <2>6, <3>2, <3>3, NoAckMore
  <2>8. CASE AsBefore(a, b)
    <3> DEFINE v == Msg("result_ack")
    <3>1. v \in Any /\ v.t = "result_ack"
      BY Words DEF Any
    <3>2. b.out = a.out \/ b.out = Append(a.out, v)
      BY <2>8 DEF AsBefore
    <3> HIDE DEF v
    <3> QED
      BY <2>5, <2>6, <3>1, <3>2, NoAckMore
  <2>9. CASE Showed(a, m, b)
    BY <2>5, <2>9 DEF Showed
  <2> QED
    BY <2>2, <2>7, <2>8, <2>9 DEF JoinStep
<1> HIDE DEF S
<1>6. \A k \in 0..n : k \in S
  BY <1>1, <1>4, <1>5, Climbs
<1> QED
  BY <1>1, <1>6 DEF S

\* What the joiner's frame adds to the stream.
LEMMA JoinFrameStream ==
  ASSUME Wires, Worlds, Stream, Awaited, NEW n \in 1..Len(down["Join"]), NEW I, NEW R, JoinFramed(n, I, R),
         ~Leaves(I[n].phase, R[n].j.ended)
  PROVE  Stream' /\ Awaited'
<1> DEFINE p == Line("Join")
           q == Line("Join")'
           o == R[n].out
           phase == I[n].phase
<1>1. /\ host' = host /\ join' = R[n].j /\ history' = history
      /\ (Playing' <=> Playing) /\ (Passing' <=> Passing)
      /\ screen["Join"] # "Out" /\ screen'["Join"] # "Out"
      /\ down'["Host"] = down["Host"]
      /\ sock["Join"] = "open" => q = p \o o
      /\ sock["Join"] # "open" => q = p
      /\ Live' => phase = "Active" /\ sock["Join"] = "open" /\ R[n].j.have
  BY JoinFrameKeeps
<1>2. /\ Worlds' /\ Len(Way') = Len(Way) - n /\ \A i \in 1..(Len(Way) - n) : Way'[i] = Way[n + i]
      /\ Wires'
  BY JoinFrameWorlds, JoinFrameKeeps
<1>3. /\ TypeOK /\ TypeOK' /\ n \in Nat /\ n \in 0..Len(down["Join"]) /\ n \in 0..n /\ 0 \in 0..n
      /\ "Join" \in Roles
  <2>1. TypeOK /\ TypeOK' /\ "Join" \in Roles
    BY <1>2 DEF Wires, Roles
  <2>2. down["Join"] \in Seq(Told)
    BY <2>1, Parts
  <2> QED
    BY <2>1, <2>2
<1>4. Trail("Join", n, I) /\ JoinReads(n, I, R)
  BY DEF JoinFramed
<1>5. /\ join \in Joiners /\ join.base \in Nat /\ join.seq \in Nat /\ R[n] \in Seats /\ o \in Seq(Any)
      /\ R[n].j.base \in Nat
  <2>1. join \in Joiners /\ R[n] \in Seats
    BY <1>3, <1>4 DEF TypeOK, JoinReads
  <2>2. join.base \in Nat /\ join.seq \in Nat
    BY <2>1 DEF Joiners
  <2> QED
    BY <2>1, <2>2, SeatTypes
<1>6. PICK x \in Marks, y \in Marks : /\ Along(down["Host"], p, x, y, Passing)
                                      /\ Playing => Read(host, history.acted, x)
                                      /\ Written(y)
  BY DEF Stream
<1>7. PICK u \in Marks, v \in Marks : Flows(down["Host"], x, u) /\ Flows(p, v, y) /\ Upto(u, v) /\ (Passing => u = v)
  BY <1>6 DEF Along
<1>8. /\ y.base <= join.base /\ y.act <= join.acted /\ y.base \in Nat /\ y.seq \in Nat
      /\ (Live => y.base = join.base /\ y.seq = join.seq)
      /\ (join.have /\ y.base = join.base => y.seq <= join.seq)
  BY <1>1, <1>6, MarkTypes DEF Written
<1>9. AnsweredAt(R[n], R[0], phase, y)
  BY <1>3, <1>4, <1>8, JoinReadsStream
<1>10. PICK z \in Marks : Answered(R[n], R[0], phase, y, z)
  BY <1>9 DEF AnsweredAt
<1>11. /\ Flows(o, y, z) /\ z.act = y.act /\ z.base <= R[n].j.base /\ (phase # "Active" => z = y)
       /\ R[n].j.acted = join.acted
       /\ \/ R[n].j.base = join.base /\ z = y /\ (R[n].j.have => R[0].j.have) /\ R[n].j.seq = R[0].j.seq
          \/ join.base < R[n].j.base /\ R[n].j.seq = 0 /\ (phase = "Active" => z.base = R[n].j.base /\ z.seq = 0)
  BY <1>10 DEF Answered
<1>12. R[0].j.have => /\ join.have /\ R[0].j.seq = join.seq
                      /\ \A i \in DOMAIN I[n].events : /\ I[n].events[i] # "started"
                                                       /\ phase = "Active" => I[n].events[i] # "reconnected"
  <2>1. I[n].events \in Seq(Events) /\ Seat \in Seats
    BY <1>3, <1>4, SeatTyped DEF Trail, Ins
  <2>2. R[0] = JoinTold(phase, Seat, I[n].events) /\ Seat.j = join
    BY <1>4 DEF JoinReads, Seat
  <2> HIDE DEF phase
  <2> QED
    BY <2>1, <2>2, JoinToldIs
<1>13. R[0].j.have /\ phase = "Active" => session["Join"].phase = "Active"
  BY <1>3, <1>4, <1>12, ActiveAgain
<1>14. p \in Seq(Any)
  BY <1>3, WayType DEF Any
<1> HIDE DEF p, q, o, phase
<1>15. \A i \in DOMAIN Way' : Completes(Way'[i]) => R[n].j.base < Way'[i].id
  BY <1>1, <1>2 DEF Worlds
<1>21. \A i \in DOMAIN Way' : n + i \in DOMAIN Way /\ Way'[i] = Way[n + i]
  <2> DEFINE w == Way
             w1 == Way'
             e == down'["Join"]
             l == Line("Host")'
  <2>1. w \in Seq(Any)
    BY <1>3, WayType DEF Any
  <2>2. e \in Seq(Any) /\ l \in Seq(Any) /\ w1 = e \o l
    <3>1. e \in Seq(Told)
      BY <1>3 DEF TypeOK
    <3>2. l = Line("Host") /\ Line("Host") \in Seq(Any)
      BY <1>3, JoinFrameKeeps, WayType DEF Any
    <3>3. Told \subseteq Any /\ w1 = e \o l
      BY DEF Any, Way
    <3> HIDE DEF e, l, w1
    <3> QED
      BY <3>1, <3>2, <3>3
  <2>3. Len(w1) = Len(w) - n /\ \A i \in 1..(Len(w) - n) : w1[i] = w[n + i]
    BY <1>2
  <2> HIDE DEF w, w1, e, l
  <2>4. \A i \in DOMAIN w1 : n + i \in DOMAIN w /\ w1[i] = w[n + i]
    <3>1. n \in Nat
      BY <1>3
    <3>2. w1 \in Seq(Any)
      BY <2>2
    <3>3. /\ Len(w) \in Nat /\ DOMAIN w = 1..Len(w)
          /\ Len(w1) \in Nat /\ DOMAIN w1 = 1..Len(w1)
      BY <2>1, <3>2
    <3>4. ASSUME NEW i \in DOMAIN w1
          PROVE  i \in 1..(Len(w) - n) /\ n + i \in 1..Len(w)
      BY <2>3, <3>1, <3>3
    <3> QED
      BY <2>3, <3>3, <3>4
  <2> QED
    BY <2>4 DEF w, w1
<1>16. \A i \in DOMAIN Way' : Completes(Way'[i]) => Way'[i].id \in Nat
  <2> TAKE i \in DOMAIN Way'
  <2> HAVE Completes(Way'[i])
  <2>1. n + i \in DOMAIN Way /\ Way'[i] = Way[n + i]
    BY <1>21
  <2>2. \A k \in DOMAIN Way : Completes(Way[k]) => Way[k].id \in Nat
    BY <1>3, CompleteIds
  <2> QED
    BY <2>1, <2>2
<1>17. Playing' => R[n].j.base <= host.ckpt
  BY <1>1, <1>2 DEF Worlds
<1>18. ASSUME NEW m \in Marks, m = z \/ m = y, sock["Join"] = "open" => m = z
       PROVE  Written(m)'
  <2>1. m.base <= R[n].j.base /\ m.act <= R[n].j.acted /\ m.base \in Nat
    BY <1>5, <1>8, <1>11, <1>18, MarkTypes
  <2>2. \A i \in DOMAIN Way' : Completes(Way'[i]) => m.base < Way'[i].id
    BY <1>5, <1>15, <1>16, <2>1
  <2>3. Playing' => m.base <= host'.ckpt
    <3> HAVE Playing'
    <3>1. R[n].j.base <= host.ckpt /\ host.ckpt \in Nat
      BY <1>3, <1>17, HostTypes DEF TypeOK
    <3> QED
      BY <1>1, <1>5, <2>1, <3>1
  <2>4. Live' => m.base = join'.base /\ m.seq = join'.seq
    <3> HAVE Live'
    <3>1. phase = "Active" /\ sock["Join"] = "open" /\ R[n].j.have /\ m = z
      BY <1>1, <1>18
    <3>2. CASE R[n].j.base = join.base /\ z = y /\ (R[n].j.have => R[0].j.have) /\ R[n].j.seq = R[0].j.seq
      <4>1. Live
        BY <1>12, <1>13, <3>1, <3>2 DEF Live
      <4> QED
        BY <1>1, <1>8, <1>12, <3>1, <3>2, <4>1
    <3>3. CASE join.base < R[n].j.base /\ R[n].j.seq = 0 /\ (phase = "Active" => z.base = R[n].j.base /\ z.seq = 0)
      BY <1>1, <3>1, <3>3
    <3> QED
      BY <1>11, <3>2, <3>3
  <2>5. join'.have /\ m.base = join'.base => m.seq <= join'.seq
    <3> SUFFICES ASSUME R[n].j.have, m.base = R[n].j.base PROVE m.seq <= R[n].j.seq
      BY <1>1
    <3>2. CASE R[n].j.base = join.base /\ z = y /\ (R[n].j.have => R[0].j.have) /\ R[n].j.seq = R[0].j.seq
      BY <1>8, <1>12, <1>18, <3>2
    <3>3. CASE join.base < R[n].j.base /\ R[n].j.seq = 0 /\ (phase = "Active" => z.base = R[n].j.base /\ z.seq = 0)
      <4>1. m # y
        BY <1>5, <1>8, <3>3
      <4>2. m = z /\ phase = "Active"
        BY <1>11, <1>18, <4>1
      <4> QED
        BY <3>3, <4>2
    <3> QED
      BY <1>11, <3>2, <3>3
  <2> QED
    BY <1>1, <2>1, <2>2, <2>3, <2>4, <2>5 DEF Written
<1>19. Stream'
  <2>1. Playing' => Read(host', history'.acted, x)
    BY <1>1, <1>6
  <2>2. CASE sock["Join"] = "open"
    <3>1. q = p \o o
      BY <1>1, <2>2
    <3>2. Flows(q, v, z)
      BY <1>5, <1>7, <1>11, <1>14, <3>1, FlowsConcat
    <3>3. Along(down'["Host"], q, x, z, Passing')
      BY <1>1, <1>7, <3>2 DEF Along
    <3>4. Written(z)'
      BY <1>18
    <3> QED
      BY <1>6, <2>1, <3>3, <3>4 DEF Stream, q
  <2>3. CASE sock["Join"] # "open"
    <3>1. Along(down'["Host"], q, x, y, Passing')
      BY <1>1, <1>7, <2>3 DEF Along
    <3>2. Written(y)'
      BY <1>18, <2>3
    <3> QED
      BY <1>6, <2>1, <3>1, <3>2 DEF Stream, q
  <2> QED
    BY <2>2, <2>3
<1>20. Awaited'
  <2> SUFFICES ASSUME Playing'
               PROVE  Queue(host', history'.acted) /\ (Fresh(host') \/ Unheard(host.ckpt)')
    BY <1>1 DEF Awaited
  <2>1. Queue(host', history'.acted) /\ (Fresh(host') \/ Unheard(host.ckpt))
    BY <1>1 DEF Awaited
  <2>2. CASE Unheard(host.ckpt)
    <3>1. /\ \A i \in DOMAIN Way : Completes(Way[i]) => Way[i].id # host.ckpt
          /\ NoAck(down["Host"], host.ckpt) /\ NoAck(p, host.ckpt)
      BY <2>2 DEF Unheard, p
    <3>2. NoAck(o, host.ckpt)
      BY <1>3, <1>4, <3>1, JoinReadsNoAck DEF o
    <3>3. NoAck(q, host.ckpt)
      BY <1>1, <1>5, <1>14, <3>1, <3>2, NoAckConcat
    <3>4. \A i \in DOMAIN Way' : Completes(Way'[i]) => Way'[i].id # host.ckpt
      BY <1>21, <3>1
    <3>5. Unheard(host.ckpt)'
      BY <1>1, <3>1, <3>3, <3>4 DEF Unheard, q
    <3> QED
      BY <2>1, <3>5
  <2> QED
    BY <2>1, <2>2
<1> QED
  BY <1>19, <1>20

-----------------------------------------------------------------------------
(* Every step *)

\* The invariant again, and a joiner's world that has not gone back.
Rising == screen'["Join"] # "Out" => join'.shown >= join.shown
Advances == NInv' /\ Rising

LEMMA Unmoved ==
  ASSUME TypeOK, join' = join \/ screen'["Join"] = "Out"
  PROVE  Rising
<1>1. join.shown \in Nat
  BY DEF TypeOK, Joiners
<1> QED
  BY <1>1 DEF Rising

LEMMA NetworkKeeps ==
  ASSUME NInv, Wires', Network
  PROVE  Advances
<1>1. Wires /\ Worlds /\ Stream /\ Awaited /\ TypeOK /\ TypeOK'
  BY DEF NInv, Wires
<1>2. Thin(Way', Way)
  BY <1>1, NetworkThin
<1>3. /\ history' = history
      /\ Playing' => Playing /\ host' = host
      /\ \/ join' = join /\ screen'["Join"] = screen["Join"]
         \/ join' = NoJoiner /\ screen'["Join"] = "Out"
  BY DEF Network
<1>4. Playing' => Playing /\ Steady(host', host)
  BY <1>3 DEF Steady
<1>5. Worlds'
  BY <1>1, <1>2, <1>3, <1>4, WorldsKept
<1>6. Stream' /\ Awaited'
  BY <1>1, NetworkStream, NetworkAwaited
<1>7. Rising
  BY <1>1, <1>3, Unmoved
<1> QED
  BY <1>5, <1>6, <1>7 DEF NInv, Advances

LEMMA HostFrameGoes ==
  ASSUME NInv, NEW n \in 1..Len(down["Host"]), HostFrame(n)
  PROVE  Advances
<1>1. Wires /\ Worlds /\ Stream /\ Awaited /\ TypeOK
  BY DEF NInv, Wires
<1>2. PICK I, R : HostFramed(n, I, R)
  BY <1>1, HostFrameIs
<1>3. CASE Leaves(I[n].phase, R[n].ended)
  BY <1>1, <1>2, <1>3, HostFrameLeaves, NetworkKeeps
<1>4. CASE ~Leaves(I[n].phase, R[n].ended)
  <2>1. /\ Wires' /\ host' = R[n] /\ join' = join /\ history' = history
        /\ (Playing' <=> Playing) /\ Way' = Way
    BY <1>1, <1>2, <1>4, HostFrameKeeps
  <2>2. Thin(Way', Way)
    <3>1. Way \in Seq(Left \cup Sent \cup Told)
      BY <1>1, WayType
    <3>2. Thin(Way, Way)
      BY <3>1, ThinSelf
    <3> QED
      BY <2>1, <3>2
  <2>3. Steady(host', host)
    <3>1. host \in Hosts /\ n \in 0..n /\ n \in 0..Len(down["Host"])
      <4>1. down["Host"] \in Seq(Told)
        BY <1>1, Parts DEF Roles
      <4> QED
        BY <1>1, <4>1 DEF TypeOK
    <3>2. Trail("Host", n, I) /\ HostReads(n, I, R)
      BY <1>2 DEF HostFramed
    <3>3. \A k \in 0..n : R[k] \in Hosts /\ Steady(R[k], host)
      BY <1>1, <3>1, <3>2, HostSteady
    <3> QED
      BY <2>1, <3>1, <3>3
  <2>4. Worlds'
    BY <1>1, <2>1, <2>2, <2>3, WorldsKept
  <2>5. Stream' /\ Awaited'
    BY <1>1, <1>2, <1>4, HostFrameStream
  <2>6. Rising
    BY <1>1, <2>1, Unmoved
  <2> QED
    BY <2>1, <2>4, <2>5, <2>6 DEF NInv, Advances
<1> QED
  BY <1>3, <1>4

LEMMA JoinerFrameGoes ==
  ASSUME NInv, NEW n \in 1..Len(down["Join"]), JoinerFrame(n)
  PROVE  Advances
<1>1. Wires /\ Worlds /\ Stream /\ Awaited /\ TypeOK
  BY DEF NInv, Wires
<1>2. PICK I, R : JoinFramed(n, I, R)
  BY <1>1, JoinFrameIs
<1>3. CASE Leaves(I[n].phase, R[n].j.ended)
  BY <1>1, <1>2, <1>3, JoinFrameLeaves, NetworkKeeps
<1>4. CASE ~Leaves(I[n].phase, R[n].j.ended)
  <2>1. Wires'
    BY <1>1, <1>2, <1>4, JoinFrameKeeps
  <2>2. Worlds' /\ join'.shown >= join.shown
    BY <1>1, <1>2, <1>4, JoinFrameWorlds
  <2>3. Stream' /\ Awaited'
    BY <1>1, <1>2, <1>4, JoinFrameStream
  <2> QED
    BY <2>1, <2>2, <2>3 DEF NInv, Rising, Advances
<1> QED
  BY <1>3, <1>4

LEMMA HostGoes ==
  ASSUME NInv, NEW msgs, HostActs(msgs)
  PROVE  Advances
<1>1. Wires /\ Worlds /\ Stream /\ Awaited /\ TypeOK
  BY DEF NInv, Wires
<1>2. Wires'
  BY <1>1, HostActsKeeps
<1>3. Worlds' /\ Stream' /\ Awaited'
  BY <1>1, HostActsWorlds, HostActsStream, HostActsAwaited
<1>4. Rising
  BY <1>1, Unmoved DEF HostActs
<1> QED
  BY <1>2, <1>3, <1>4 DEF NInv, Advances

\* What changes nothing the world depends on.
LEMMA QuietWorlds ==
  ASSUME TypeOK, Worlds, Way' = Way, history' = history, Playing' <=> Playing, Steady(host', host),
         join'.have = join.have, join'.base = join.base, join'.epoch = join.epoch, join'.shown = join.shown
  PROVE  Worlds' /\ Rising
<1>1. Way \in Seq(Left \cup Sent \cup Told)
  BY WayType
<1>2. Thin(Way', Way)
  BY <1>1, ThinSelf
<1>3. join.shown \in Nat
  BY DEF TypeOK, Joiners
<1> QED
  BY <1>2, <1>3, WorldsKept DEF Rising

LEMMA JoinerTickGoes ==
  ASSUME NInv, JoinerTick
  PROVE  Advances
<1>1. Wires /\ Worlds /\ Stream /\ Awaited /\ TypeOK
  BY DEF NInv, Wires
<1>2. PICK m, steps, deeds : JoinActs(m, steps, deeds)
  BY <1>1, JoinerTickActs
<1>3. /\ Wires' /\ Way' = Way /\ (Playing' <=> Playing)
      /\ join'.have /\ join'.base = join.base /\ join'.epoch = join.epoch /\ join'.shown = join.shown
  BY <1>1, <1>2, JoinActsKeeps
<1>4. join.have /\ host' = host /\ history' = history
  BY <1>2 DEF JoinActs
<1>5. Steady(host', host)
  BY <1>4 DEF Steady
<1>6. join'.have = join.have
  BY <1>3, <1>4, <1>1 DEF TypeOK, Joiners, Wires
<1>7. Worlds' /\ Rising
  BY <1>1, <1>3, <1>4, <1>5, <1>6, QuietWorlds
<1>8. Stream' /\ Awaited'
  BY <1>1, <1>2, JoinActsStream
<1> QED
  BY <1>3, <1>7, <1>8 DEF NInv, Advances

LEMMA AckTimeGoes ==
  ASSUME NInv, AckTimePasses
  PROVE  Advances
<1>1. Wires /\ Worlds /\ Stream /\ Awaited /\ TypeOK
  BY DEF NInv, Wires
<1>2. /\ Wires' /\ Way' = Way /\ (Playing' <=> Playing) /\ Steady(host', host)
      /\ join' = join /\ history' = history
  BY <1>1, AckTimeKeeps
<1>3. Worlds' /\ Rising
  BY <1>1, <1>2, QuietWorlds
<1>4. Stream' /\ Awaited'
  BY <1>1, AckTimeStream
<1> QED
  BY <1>2, <1>3, <1>4 DEF NInv, Advances

LEMMA Stays ==
  ASSUME NInv, UNCHANGED vars
  PROVE  Advances
<1>1. UNCHANGED <<relay, sock, up, down, stale, session, screen, host, join, faults, history>>
  BY DEF vars
<1>2. Wires'
  <2>1. TypeOK /\ (\A r \in Roles : Wired(r)) /\ Hosting /\ Joining
    BY DEF NInv, Wires
  <2>2. TypeOK'
    BY <1>1, <2>1 DEF TypeOK
  <2>3. \A r \in Roles : Wired(r)'
    BY <1>1, <2>1 DEF Wired, Greets
  <2>4. Hosting' /\ Joining'
    BY <1>1, <2>1 DEF Hosting, Playing, Joining
  <2> QED
    BY <2>2, <2>3, <2>4 DEF Wires
<1>3. Line("Host")' = Line("Host") /\ Line("Join")' = Line("Join") /\ Way' = Way
  BY <1>1 DEF Line, Way
<1>4. Worlds'
  BY <1>1, <1>3 DEF NInv, Worlds, Playing
<1>5. Stream'
  <2>1. (Live' <=> Live) /\ (Passing' <=> Passing) /\ (Playing' <=> Playing)
    BY <1>1 DEF Live, Passing, Playing
  <2>2. PICK x \in Marks, y \in Marks : /\ Along(down["Host"], Line("Join"), x, y, Passing)
                                        /\ Playing => Read(host, history.acted, x)
                                        /\ Written(y)
    BY DEF NInv, Stream
  <2>3. Written(y)'
    BY <1>1, <1>3, <2>1, <2>2 DEF Written
  <2>4. Along(down'["Host"], Line("Join")', x, y, Passing')
    BY <1>1, <1>3, <2>1, <2>2 DEF Along
  <2> QED
    BY <1>1, <2>1, <2>2, <2>3, <2>4 DEF Stream
<1>6. Awaited'
  BY <1>1, <1>3 DEF NInv, Awaited, Unheard, Playing
<1>7. Rising
  BY <1>1, Unmoved DEF NInv, Wires
<1> QED
  BY <1>2, <1>4, <1>5, <1>6, <1>7 DEF NInv, Advances

LEMMA StepGoes ==
  ASSUME NInv, [Next]_vars
  PROVE  Advances
<1>1. Wires
  BY DEF NInv
<1>2. ASSUME NEW r \in Roles,
             \/ RelayReads(r) \/ RelayReadsStale(r) \/ RelayNotices(r) \/ GraceExpires(r)
             \/ Cut(r) \/ PlayerNotices(r) \/ Reconnect(r) \/ GiveUp(r) \/ Leave(r)
      PROVE  Advances
  <2>1. Wires' /\ Network
    BY <1>1, <1>2, RelayReadsStep, RelayReadsStaleStep, RelayNoticesStep, GraceExpiresStep,
       CutStep, PlayerNoticesStep, ReconnectStep, GiveUpStep, LeaveStep
  <2> QED
    BY <2>1, NetworkKeeps
<1>3. ASSUME NEW r \in Roles, Frames(r)
      PROVE  Advances
  <2>1. PICK n \in 1..Len(down[r]) : Frame(r, n)
    BY <1>3 DEF Frames
  <2>2. CASE r = "Host"
    BY <2>1, <2>2, HostFrameGoes DEF Frame
  <2>3. CASE r # "Host"
    <3>1. r = "Join"
      BY <2>3 DEF Roles
    <3> QED
      BY <2>1, <3>1, JoinerFrameGoes DEF Frame
  <2> QED
    BY <2>2, <2>3
<1>4. CASE ResultDelivered
  BY <1>1, <1>4, ResultDeliveredStep, NetworkKeeps
<1>5. CASE HostCheckpoint
  BY <1>1, <1>5, HostCheckpointActs, HostGoes
<1>6. CASE HostSnapshot
  BY <1>1, <1>6, HostSnapshotActs, HostGoes
<1>7. CASE HostTick
  BY <1>1, <1>7, HostTickActs, HostGoes
<1>8. CASE AckTimePasses
  BY <1>8, AckTimeGoes
<1>9. CASE JoinerTick
  BY <1>9, JoinerTickGoes
<1>10. CASE UNCHANGED vars
  BY <1>10, Stays
<1> QED
  BY <1>2, <1>3, <1>4, <1>5, <1>6, <1>7, <1>8, <1>9, <1>10 DEF Next

-----------------------------------------------------------------------------
(* From the first state on *)

LEMMA AtInit ==
  ASSUME Init
  PROVE  /\ TypeOK /\ \A r \in Roles : Line(r) = <<>>
         /\ Way = <<Msg("start")>> /\ down["Host"] = <<>> /\ down["Join"] = <<Msg("start")>>
<1>1. /\ relay = [phase |-> "Active", seat |-> [r \in Roles |-> "cur"], acked |-> FALSE]
      /\ sock = [r \in Roles |-> "open"]
      /\ up = [r \in Roles |-> <<>>] /\ stale = [r \in Roles |-> <<>>]
      /\ down = [r \in Roles |-> IF r = "Host" THEN <<>> ELSE <<Msg("start")>>]
      /\ session = [r \in Roles |-> [phase |-> IF r = "Host" THEN "Active" ELSE "Lobby",
                                     partner |-> TRUE]]
      /\ screen = [r \in Roles |-> IF r = "Host" THEN "Play" ELSE "Lobby"]
      /\ host = [NoHost EXCEPT !.need = TRUE] /\ join = NoJoiner
      /\ faults = 0
      /\ history = [ids |-> 0, floors |-> <<0>>, acted |-> 0]
  BY DEF Init
<1> DEFINE m == Msg("start")
<1>2. m \in Told
  BY DEF Told, Notices, Msg
<1> HIDE DEF m
<1>3. <<m>> \in Seq(Told) /\ <<>> \in Seq(Told) /\ <<>> \in Seq(Sent) /\ <<>> \in Seq(Left)
      /\ <<0>> \in Seq(Nat)
  BY <1>2, EmptySeq
<1>4. "Host" \in Roles /\ "Join" \in Roles
  BY DEF Roles
<1>5. down["Host"] = <<>> /\ down["Join"] = <<m>> /\ \A r \in Roles : up[r] = <<>> /\ stale[r] = <<>>
  BY <1>1, <1>4 DEF m
<1>6. down \in [Roles -> Seq(Told)]
  BY <1>1, <1>3 DEF m
<1>7. up \in [Roles -> Seq(Sent)] /\ stale \in [Roles -> Seq(Left)]
  BY <1>1, <1>3
<1>8. relay \in Rooms
  BY <1>1 DEF Rooms
<1>9. sock \in [Roles -> {"open", "dead", "none"}]
      /\ session \in [Roles -> [phase: Phases, partner: BOOLEAN]] /\ screen \in [Roles -> Screens]
  BY <1>1 DEF Phases, Screens
<1>10. host \in Hosts
  <2>1. <<>> \in Seq(Steps) /\ <<>> \in Seq(Deeds)
    BY EmptySeq
  <2> DEFINE none == <<>>
  <2>2. none \in Seq(Steps) /\ none \in Seq(Deeds)
    BY <2>1
  <2>3. host = [need |-> TRUE, synced |-> FALSE, ckpt |-> 0, ckptEpoch |-> 0, epoch |-> 1, world |-> 0,
                ended |-> FALSE, resolved |-> 0, seen |-> 0, seenAct |-> 0, cmds |-> none, acts |-> none,
                refilling |-> FALSE, late |-> FALSE]
    BY <1>1 DEF NoHost
  <2> HIDE DEF none
  <2> QED
    BY <2>2, <2>3 DEF Hosts
<1>11. join \in Joiners
  BY <1>1 DEF NoJoiner, Joiners
<1>12. faults \in Nat
  BY <1>1
<1>13. history \in [ids: Nat, floors: Seq(Nat), acted: Nat]
  <2> DEFINE one == <<0>>
  <2>1. one \in Seq(Nat)
    BY <1>3
  <2>2. history = [ids |-> 0, floors |-> one, acted |-> 0]
    BY <1>1
  <2> HIDE DEF one
  <2> QED
    BY <2>1, <2>2
<1>14. TypeOK
  BY <1>6, <1>7, <1>8, <1>9, <1>10, <1>11, <1>12, <1>13 DEF TypeOK
<1>15. \A r \in Roles : Line(r) = <<>>
  BY <1>5 DEF Line
<1>16. Way = <<m>>
  BY <1>4, <1>5, <1>15, <1>3, ConcatEmptySeq DEF Way
<1> QED
  BY <1>5, <1>14, <1>15, <1>16 DEF m

LEMMA InitWires ==
  ASSUME Init
  PROVE  Wires
<1>1. TypeOK /\ down["Host"] = <<>> /\ down["Join"] = <<Msg("start")>>
  BY AtInit
<1>2. "Host" \in Roles /\ "Join" \in Roles
  BY DEF Roles
<1>3. /\ relay.phase = "Active" /\ \A r \in Roles : relay.seat[r] = "cur" /\ sock[r] = "open"
      /\ \A r \in Roles : up[r] = <<>> /\ stale[r] = <<>>
      /\ session["Host"].phase = "Active" /\ session["Join"].phase = "Lobby"
      /\ screen["Host"] = "Play" /\ screen["Join"] = "Lobby" /\ ~host.ended
  BY <1>2 DEF Init, NoHost
<1>4. \A r \in Roles : Wired(r)
  <2> TAKE r \in Roles
  <2>1. relay.seat[r] = "cur" /\ sock[r] = "open" /\ stale[r] = <<>> /\ up[r] = <<>>
    BY <1>3
  <2>2. DOMAIN up[r] = {}
    BY <2>1
  <2> QED
    BY <2>1, <2>2 DEF Wired
<1>5. DOMAIN down["Host"] = {}
  BY <1>1
<1>6. Hosting
  BY <1>3, <1>5 DEF Hosting, Playing
<1>7. Joining
  BY <1>3 DEF Joining
<1> QED
  BY <1>1, <1>4, <1>6, <1>7 DEF Wires

LEMMA InitWorlds ==
  ASSUME Init
  PROVE  Worlds
<1> DEFINE w == Way
           m == Msg("start")
<1>1. w = <<m>> /\ m.t = "start"
  BY AtInit DEF Msg
<1> HIDE DEF m
<1>2. DOMAIN w = {1} /\ w[1] = m
  BY <1>1
<1>3. \A i \in DOMAIN w : ~Worldly(w[i]) /\ ~Completes(w[i])
  BY <1>1, <1>2 DEF Worldly, Completes
<1>4. \A j \in DOMAIN w : \A i \in 1..(j - 1) : Ascends(w[i], w[j])
  BY <1>2
<1>5. /\ host.epoch = 1 /\ host.world = 0 /\ host.ckpt = 0 /\ join.shown = 0 /\ join.base = 0 /\ ~join.have
      /\ history.ids = 0 /\ history.floors = <<0>>
  BY DEF Init, NoHost, NoJoiner
<1>6. Len(history.floors) = 1 /\ history.floors[1] = 0
  BY <1>5
<1> HIDE DEF w
<1> QED
  BY <1>3, <1>4, <1>5, <1>6 DEF Worlds, w

LEMMA InitStream ==
  ASSUME Init
  PROVE  Stream /\ Awaited
<1> DEFINE z == [base |-> 0, seq |-> 0, act |-> 0]
<1>1. z \in Marks /\ z.base = 0 /\ z.seq = 0 /\ z.act = 0
  BY DEF Marks
<1> HIDE DEF z
<1>2. down["Host"] = <<>> /\ Line("Join") = <<>> /\ Way = <<Msg("start")>> /\ TypeOK
  BY AtInit DEF Roles
<1>3. Flows(<<>>, z, z)
  BY <1>1, FlowsNone
<1>4. Upto(z, z)
  BY <1>1, UptoSelf
<1>5. Along(down["Host"], Line("Join"), z, z, Passing)
  BY <1>1, <1>2, <1>3, <1>4 DEF Along
<1>6. /\ host.ckpt = 0 /\ ~host.synced /\ host.cmds = <<>> /\ host.acts = <<>> /\ host.resolved = 0
      /\ host.seen = 0 /\ host.seenAct = 0 /\ history.acted = 0
      /\ join.base = 0 /\ join.acted = 0 /\ ~join.have
  BY DEF Init, NoHost, NoJoiner
<1>7. DOMAIN host.cmds = {} /\ DOMAIN host.acts = {}
  BY <1>6
<1>8. Read(host, history.acted, z)
  BY <1>1, <1>6, <1>7 DEF Read
<1>9. \A i \in DOMAIN Way : ~Completes(Way[i])
  <2> DEFINE w == Way
             m == Msg("start")
  <2>1. w = <<m>> /\ m.t = "start"
    BY <1>2 DEF Msg
  <2> HIDE DEF m, w
  <2>2. \A i \in DOMAIN w : ~Completes(w[i])
    BY <2>1 DEF Completes
  <2> QED
    BY <2>2 DEF w
<1>10. Written(z)
  BY <1>1, <1>6, <1>9 DEF Written, Live
<1>11. Queue(host, history.acted) /\ Fresh(host)
  BY <1>6, <1>7 DEF Queue, Fresh
<1> QED
  BY <1>1, <1>5, <1>8, <1>10, <1>11 DEF Stream, Awaited

LEMMA InvHolds == Spec => []NInv
<1>1. Init => NInv
  BY InitWires, InitWorlds, InitStream DEF NInv
<1>2. NInv /\ [Next]_vars => NInv'
  BY StepGoes DEF Advances
<1> QED
  BY <1>1, <1>2, PTL DEF Spec

\* What the host is given of the joiner's stream is what the joiner sent, in
\* order, each step once, and of the baseline in force.
LEMMA InOrder ==
  ASSUME NInv
  PROVE  StreamInOrder
<1> SUFFICES ASSUME Playing PROVE
      /\ \A i \in DOMAIN host.cmds :
           host.cmds[i] = [seq |-> host.resolved + i, base |-> host.ckpt]
      /\ \A i \in DOMAIN host.acts :
           /\ host.acts[i].base = host.ckpt
           /\ host.acts[i].id > (IF i = 1 THEN history.acted ELSE host.acts[i - 1].id)
      /\ (host.synced /\ join.have /\ join.base = host.ckpt) => host.seen <= join.seq
  BY DEF StreamInOrder, Playing
<1>1. Wires /\ Stream /\ Awaited /\ TypeOK
  BY DEF NInv, Wires
<1>2. Queue(host, history.acted)
  BY <1>1 DEF Awaited
<1>3. ASSUME host.synced, join.have, join.base = host.ckpt
      PROVE  host.seen <= join.seq
  <2>1. PICK x \in Marks, y \in Marks : /\ Along(down["Host"], Line("Join"), x, y, Passing)
                                        /\ Read(host, history.acted, x)
                                        /\ Written(y)
    BY <1>1 DEF Stream
  <2>2. PICK u \in Marks, v \in Marks : Flows(down["Host"], x, u) /\ Flows(Line("Join"), v, y) /\ Upto(u, v)
    BY <2>1 DEF Along
  <2>3. down["Host"] \in Seq(Any) /\ Line("Join") \in Seq(Any)
    BY <1>1, WayType DEF Any
  <2>4. Upto(x, u) /\ Upto(v, y)
    BY <2>1, <2>2, <2>3, FlowsUpto
  <2>5. Upto(x, y)
    BY <2>1, <2>2, <2>4, UptoUpto
  <2>6. x.base = host.ckpt /\ x.seq = host.seen
    BY <1>3, <2>1 DEF Read
  <2>7. y.base <= host.ckpt /\ (y.base = join.base => y.seq <= join.seq)
    BY <1>3, <2>1 DEF Written
  <2>8. x.base \in Nat /\ y.base \in Nat /\ x.seq \in Nat /\ y.seq \in Nat
    BY <2>1, MarkTypes
  <2>9. y.base = host.ckpt /\ x.seq <= y.seq
    BY <2>5, <2>6, <2>7, <2>8 DEF Upto
  <2>10. join.seq \in Nat
    BY <1>1 DEF TypeOK, Joiners
  <2> QED
    BY <1>3, <2>6, <2>7, <2>8, <2>9, <2>10
<1> QED
  BY <1>2, <1>3 DEF Queue

\* The host applies the joiner's steps in order and each once, and only those of
\* the baseline in force; so for its actions: coop_host_receive_intent,
\* coop_host_next_input and coop_joiner_flush, whatever the sockets lose.
THEOREM StreamInOrderHolds == Spec => []StreamInOrder
<1>1. NInv => StreamInOrder
  BY InOrder
<1> QED
  BY <1>1, InvHolds, PTL

\* What the joiner shows is a moment of the floor it shows, as
\* coop_joiner_receive_snapshot and the checkpoint leave it.
THEOREM ShownIsOfFloorHolds == Spec => []ShownIsOfFloor
<1>1. NInv => ShownIsOfFloor
  BY DEF NInv, Worlds, Placed, ShownIsOfFloor
<1> QED
  BY <1>1, InvHolds, PTL

\* No step takes the world that a joiner shows back, short of its leaving.
THEOREM NeverBackHolds == Spec => NeverBack
<1>1. NInv /\ [Next]_vars => (screen'["Join"] # "Out" => join'.shown >= join.shown)
  BY StepGoes DEF Advances, Rising
<1>2. NInv /\ [Next]_vars => [screen'["Join"] # "Out" => join'.shown >= join.shown]_vars
  BY <1>1
<1> QED
  BY <1>2, InvHolds, PTL DEF Spec, NeverBack

=============================================================================
