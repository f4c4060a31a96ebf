-------------------------- MODULE RelayBooks_proofs --------------------------
(***************************************************************************)
(* Proofs about what the relay's reducer counts and what it says: the      *)
(* books of every source balance (SourceBooks), nothing is sent on a       *)
(* connection after its close (NothingAfterClose), and a start reaches     *)
(* both players and nobody else (StartReachesBoth).                        *)
(*                                                                         *)
(* The three are one induction over the operators.  Does relates a hub to  *)
(* what an operator makes of it; it is reflexive and transitive.  Only     *)
(* maybe_start is not of that kind: Begun says what it does when it starts *)
(* a run, and every handler that calls it calls it last.                   *)
(***************************************************************************)
EXTENDS RelayHub_proofs, FiniteSetTheorems

-----------------------------------------------------------------------------
(* The books *)

OpenFrom(h, source) ==
  {c \in Conns : h.conns[c].open /\ h.conns[c].source = source}

RoomsFrom(h, source) ==
  {code \in Codes : h.rooms[code].phase # "None" /\ h.rooms[code].source = source}

\* The books of one source: what is counted is finite, and is what was noted.
BalancedFor(h, source) ==
  /\ IsFiniteSet(OpenFrom(h, source)) /\ IsFiniteSet(RoomsFrom(h, source))
  /\ h.sources[source].conns = Cardinality(OpenFrom(h, source))
  /\ h.sources[source].rooms = Cardinality(RoomsFrom(h, source))

Balanced(h) == \A source \in Sources : BalancedFor(h, source)

\* Nothing that is counted has changed, nor the counts.
Level(h, g) ==
  /\ \A c \in Conns : /\ g.conns[c].open = h.conns[c].open
                      /\ g.conns[c].source = h.conns[c].source
  /\ \A code \in Codes : /\ g.rooms[code].phase = "None" <=> h.rooms[code].phase = "None"
                         /\ g.rooms[code].source = h.rooms[code].source
  /\ g.sources = h.sources

LEMMA LevelBalanced ==
  ASSUME NEW h, NEW g, Level(h, g), Balanced(h)
  PROVE  Balanced(g)
<1>1. ASSUME NEW source \in Sources
      PROVE  /\ OpenFrom(g, source) = OpenFrom(h, source)
             /\ RoomsFrom(g, source) = RoomsFrom(h, source)
  BY DEF Level, OpenFrom, RoomsFrom
<1> QED BY <1>1 DEF Level, Balanced, BalancedFor

-----------------------------------------------------------------------------
(* What is said *)

IsSend(a)     == a.kind = "send"
IsClose(a, c) == a.kind = "close" /\ a.conn = c

\* A connection the hub still listens to.
Heard(h, c) == h.conns[c].open /\ ~h.conns[c].closing

\* What is sent goes to connections of S, and none of them was closed before.
Orderly(S, h) ==
  \A i \in DOMAIN h.out :
    IsSend(h.out[i]) /\ h.out[i].conn \in Conns =>
      /\ h.out[i].conn \in S
      /\ \A j \in 1..(i - 1) : ~IsClose(h.out[j], h.out[i].conn)

\* Nor was a connection the hub still listens to.
Said(S, h) ==
  /\ Listed(h) /\ Orderly(S, h)
  /\ \A c \in Conns : Heard(h, c) =>
       c \in S /\ \A i \in DOMAIN h.out : ~IsClose(h.out[i], c)

IsStart(a) == IsSend(a) /\ a.msg.t = "start"

\* No run was started.
Plain(h) == Listed(h) /\ \A i \in DOMAIN h.out : ~IsStart(h.out[i])

-----------------------------------------------------------------------------
(* The relation *)

Booked(h, g) == HubType(g) /\ (Balanced(h) => Balanced(g))
Spoken(h, g) == \A S : Said(S, h) => Said(S, g)

Calm(h, g) ==
  /\ Plain(h) => Plain(g)
  /\ \A code \in Codes :
       g.rooms[code].phase = "Active" => h.rooms[code].phase = "Active"

Does(h, g) == Booked(h, g) /\ Spoken(h, g) /\ Calm(h, g)

LEMMA DoesRefl ==
  ASSUME NEW h, HubType(h)
  PROVE  Does(h, h)
BY DEF Does, Booked, Spoken, Calm

LEMMA DoesTrans ==
  ASSUME NEW f, NEW g, NEW h, Does(f, g), Does(g, h)
  PROVE  Does(f, h)
BY DEF Does, Booked, Spoken, Calm

LEMMA DoesType ==
  ASSUME NEW h, NEW g, Does(h, g)
  PROVE  HubType(g)
BY DEF Does, Booked

\* One room is edited: it neither comes nor goes, starts or changes its source.
MildRoom(old, new) ==
  /\ new.phase = "None" <=> old.phase = "None"
  /\ new.phase = "Active" => old.phase = "Active"
  /\ new.source = old.source

LEMMA SilentDoes ==
  ASSUME NEW h, NEW g, HubType(g),
         g.out = h.out, g.sources = h.sources,
         \A c \in Conns : /\ g.conns[c].open = h.conns[c].open
                          /\ g.conns[c].source = h.conns[c].source
                          /\ h.conns[c].closing => g.conns[c].closing,
         \A code \in Codes : MildRoom(h.rooms[code], g.rooms[code])
  PROVE  Does(h, g)
<1>1. Level(h, g)
  BY DEF Level, MildRoom
<1>2. \A S : Said(S, h) => Said(S, g)
  BY DEF Said, Listed, Orderly, Heard
<1>3. Calm(h, g)
  BY DEF Calm, Plain, Listed, MildRoom
<1> QED BY <1>1, <1>2, <1>3, LevelBalanced DEF Does, Booked, Spoken

LEMMA EditDoes ==
  ASSUME NEW h, HubType(h), NEW code \in Codes, NEW room \in Room,
         MildRoom(h.rooms[code], room)
  PROVE  LET g == [h EXCEPT !.rooms[code] = room]
         IN  /\ Does(h, g) /\ HubType(g)
             /\ g.conns = h.conns /\ g.out = h.out /\ g.sources = h.sources
             /\ g.rooms = [h.rooms EXCEPT ![code] = room]
             /\ g.rooms[code] = room
<1> DEFINE g == [h EXCEPT !.rooms[code] = room]
<1>1. /\ HubType(g) /\ g.rooms = [h.rooms EXCEPT ![code] = room]
      /\ g.conns = h.conns /\ g.sources = h.sources
  BY RoomType
<1>2. g.out = h.out /\ DOMAIN h.rooms = Codes
  BY DEF HubType
<1> HIDE DEF g
<1>3. g.rooms[code] = room /\ \A x \in Codes : x # code => g.rooms[x] = h.rooms[x]
  BY <1>1, <1>2
<1>4. \A x \in Codes : MildRoom(h.rooms[x], g.rooms[x])
  BY <1>3 DEF MildRoom
<1>5. Does(h, g)
  BY <1>1, <1>2, <1>4, SilentDoes
<1> QED BY <1>1, <1>2, <1>3, <1>5 DEF g

LEMMA ConnDoes ==
  ASSUME NEW h, HubType(h), NEW c \in Conns, NEW conn \in Conn,
         conn.open = h.conns[c].open, conn.source = h.conns[c].source,
         h.conns[c].closing => conn.closing
  PROVE  LET g == [h EXCEPT !.conns[c] = conn]
         IN  /\ Does(h, g) /\ HubType(g)
             /\ g.rooms = h.rooms /\ g.out = h.out /\ g.sources = h.sources
             /\ g.conns = [h.conns EXCEPT ![c] = conn]
             /\ g.conns[c] = conn
<1> DEFINE g == [h EXCEPT !.conns[c] = conn]
<1>1. /\ HubType(g) /\ g.conns = [h.conns EXCEPT ![c] = conn]
      /\ g.rooms = h.rooms /\ g.sources = h.sources
  BY ConnType
<1>2. g.out = h.out /\ DOMAIN h.conns = Conns
  BY DEF HubType
<1> HIDE DEF g
<1>3. g.conns[c] = conn /\ \A x \in Conns : x # c => g.conns[x] = h.conns[x]
  BY <1>1, <1>2
<1>4. \A x \in Conns : /\ g.conns[x].open = h.conns[x].open
                       /\ g.conns[x].source = h.conns[x].source
                       /\ h.conns[x].closing => g.conns[x].closing
  BY <1>3
<1>5. \A x \in Codes : MildRoom(h.rooms[x], g.rooms[x])
  BY <1>1 DEF MildRoom
<1>6. Does(h, g)
  BY <1>1, <1>2, <1>4, <1>5, SilentDoes
<1> QED BY <1>1, <1>2, <1>3, <1>6 DEF g

-----------------------------------------------------------------------------
(* One more action *)

LEMMA EmitOut ==
  ASSUME NEW h, HubType(h), NEW a, Listed(h)
  PROVE  LET g == Emit(h, a)
             n == Len(h.out)
         IN  /\ Listed(g) /\ n \in Nat
             /\ DOMAIN h.out = 1..n /\ DOMAIN g.out = 1..(n + 1)
             /\ \A i \in 1..n : g.out[i] = h.out[i]
             /\ g.out[n + 1] = a
<1> DEFINE g == Emit(h, a)
<1>1. g.out = Append(h.out, a)
  BY DEF Emit, HubType
<1> HIDE DEF g
<1>3. PICK S : h.out \in Seq(S)
  BY DEF Listed
<1> DEFINE T == S \cup {a}
<1>4. h.out \in Seq(T) /\ a \in T
  <2>1. S \subseteq T
    OBVIOUS
  <2> QED BY <1>3, <2>1, SeqMonotonic
<1> HIDE DEF T
<1>5. /\ Len(h.out) \in Nat /\ DOMAIN h.out = 1..Len(h.out)
      /\ g.out \in Seq(T) /\ Len(g.out) = Len(h.out) + 1
      /\ \A i \in 1..Len(h.out) : g.out[i] = h.out[i]
      /\ g.out[Len(h.out) + 1] = a
  BY <1>1, <1>4, AppendProperties, LenProperties
<1>6. DOMAIN g.out = 1..(Len(h.out) + 1)
  BY <1>5, LenProperties
<1> QED BY <1>5, <1>6 DEF Listed, g

\* A message, other than a start, to a connection the hub listens to.
LEMMA SendDoes ==
  ASSUME NEW h, HubType(h), NEW c, c \in Conns => Heard(h, c), NEW m
  PROVE  /\ HubType(Send(h, c, m)) /\ Same(Send(h, c, m), h)
         /\ Booked(h, Send(h, c, m)) /\ Spoken(h, Send(h, c, m))
         /\ m.t # "start" => Does(h, Send(h, c, m))
<1> DEFINE a == [kind |-> "send", conn |-> c, msg |-> m]
           g == Emit(h, a)
           n == Len(h.out)
<1>1. Same(g, h)
  BY EmitSame
<1>2. IsSend(a) /\ a.conn = c /\ a.msg = m /\ \A x : ~IsClose(a, x)
  BY DEF IsSend, IsClose
<1>3. Listed(h) => /\ Listed(g) /\ n \in Nat
                   /\ DOMAIN h.out = 1..n /\ DOMAIN g.out = 1..(n + 1)
                   /\ \A i \in 1..n : g.out[i] = h.out[i]
                   /\ g.out[n + 1] = a
  BY EmitOut
<1>0. Send(h, c, m) = g
  BY DEF Send
<1> HIDE DEF a, g, n
<1>4. Level(h, g) /\ HubType(g)
  BY <1>1 DEF Same, Level
<1>5. ASSUME NEW S, Said(S, h)
      PROVE  Said(S, g)
  <2>1. /\ Listed(g) /\ n \in Nat
        /\ DOMAIN h.out = 1..n /\ DOMAIN g.out = 1..(n + 1)
        /\ \A i \in 1..n : g.out[i] = h.out[i]
        /\ g.out[n + 1] = a
    BY <1>3, <1>5 DEF Said
  <2>2. \A x \in Conns : Heard(g, x) = Heard(h, x)
    BY <1>1 DEF Same, Heard
  <2>3. ASSUME NEW x \in Conns, Heard(h, x)
        PROVE  x \in S /\ \A i \in 1..(n + 1) : ~IsClose(g.out[i], x)
    <3>1. x \in S /\ \A i \in 1..n : ~IsClose(h.out[i], x)
      BY <1>5, <2>1, <2>3 DEF Said
    <3>2. ASSUME NEW i \in 1..(n + 1)
          PROVE  ~IsClose(g.out[i], x)
      <4>1. CASE i = n + 1
        BY <1>2, <2>1, <4>1
      <4>2. CASE i # n + 1
        <5>1. i \in 1..n
          BY <2>1, <4>2
        <5> QED BY <2>1, <3>1, <5>1
      <4> QED BY <4>1, <4>2
    <3> QED BY <3>1, <3>2
  <2>4. Orderly(S, g)
    <3>1. ASSUME NEW i \in 1..(n + 1), IsSend(g.out[i]), g.out[i].conn \in Conns
          PROVE  /\ g.out[i].conn \in S
                 /\ \A j \in 1..(i - 1) : ~IsClose(g.out[j], g.out[i].conn)
      <4>1. CASE i = n + 1
        <5>1. g.out[i].conn = c /\ c \in Conns /\ Heard(h, c)
          BY <1>2, <2>1, <3>1, <4>1
        <5>2. \A j \in 1..(i - 1) : j \in 1..(n + 1)
          BY <2>1
        <5> QED BY <2>3, <5>1, <5>2
      <4>2. CASE i # n + 1
        <5>1. i \in 1..n /\ \A j \in 1..(i - 1) : j \in 1..n
          BY <2>1, <4>2
        <5>2. g.out[i] = h.out[i] /\ \A j \in 1..(i - 1) : g.out[j] = h.out[j]
          BY <2>1, <5>1
        <5>3. Orderly(S, h)
          BY <1>5 DEF Said
        <5> QED BY <2>1, <3>1, <5>1, <5>2, <5>3 DEF Orderly
      <4> QED BY <4>1, <4>2
    <3> QED BY <2>1, <3>1 DEF Orderly
  <2> QED BY <2>1, <2>2, <2>3, <2>4 DEF Said
<1>6. ASSUME m.t # "start"
      PROVE  Calm(h, g)
  <2>1. ~IsStart(a)
    BY <1>2, <1>6 DEF IsStart
  <2>2. ASSUME Plain(h) PROVE Plain(g)
    <3>1. /\ Listed(g) /\ n \in Nat /\ DOMAIN g.out = 1..(n + 1)
          /\ \A i \in 1..n : g.out[i] = h.out[i] /\ ~IsStart(h.out[i])
          /\ g.out[n + 1] = a
      BY <1>3, <2>2 DEF Plain
    <3>2. \A i \in 1..(n + 1) : i = n + 1 \/ i \in 1..n
      BY <3>1
    <3>3. \A i \in 1..(n + 1) : ~IsStart(g.out[i])
      BY <2>1, <3>1, <3>2
    <3> QED BY <3>1, <3>3 DEF Plain
  <2> QED BY <1>1, <2>2 DEF Calm, Same
<1> QED BY <1>0, <1>1, <1>4, <1>5, <1>6, LevelBalanced DEF Does, Booked, Spoken

LEMMA CloseConnDoes ==
  ASSUME NEW h, HubType(h), NEW c \in Conns, NEW code
  PROVE  LET g == CloseConn(h, c, code)
         IN  /\ Does(h, g) /\ HubType(g)
             /\ g.rooms = h.rooms /\ g.sources = h.sources
             /\ g.conns = [h.conns EXCEPT ![c] = [@ EXCEPT !.closing = TRUE]]
<1> DEFINE conn == [h.conns[c] EXCEPT !.closing = TRUE]
           shut == [h EXCEPT !.conns[c] = conn]
           a    == [kind |-> "close", conn |-> c, code |-> code]
           g    == Emit(shut, a)
           n    == Len(h.out)
<1>0. h.conns[c] \in Conn /\ h.conns \in [Conns -> Conn]
  BY Members DEF HubType
<1>1. CASE h.conns[c].closing
  <2>1. h.conns = [h.conns EXCEPT ![c] = [@ EXCEPT !.closing = TRUE]]
    BY <1>0, <1>1 DEF Conn
  <2> QED BY <1>1, <2>1, DoesRefl DEF CloseConn
<1>2. CASE ~h.conns[c].closing
  <2>1. CloseConn(h, c, code) = g
    <3>1. shut = [h EXCEPT !.conns[c].closing = TRUE]
      BY DEF HubType
    <3> HIDE DEF shut
    <3> QED BY <1>2, <3>1 DEF CloseConn
  <2>2. /\ conn \in Conn /\ conn.open = h.conns[c].open /\ conn.closing
        /\ conn.source = h.conns[c].source
    BY <1>0 DEF Conn
  <2> HIDE DEF conn
  <2>3. /\ Does(h, shut) /\ HubType(shut)
        /\ shut.rooms = h.rooms /\ shut.out = h.out /\ shut.sources = h.sources
        /\ shut.conns = [h.conns EXCEPT ![c] = conn]
        /\ shut.conns[c] = conn
    BY <2>2, ConnDoes
  <2> HIDE DEF shut
  <2>4. Same(g, shut)
    BY <2>3, EmitSame
  <2>5. ~IsSend(a) /\ a.conn = c /\ \A x : IsClose(a, x) => x = c
    BY DEF IsSend, IsClose
  <2>6. Listed(shut) => /\ Listed(g) /\ n \in Nat
                        /\ DOMAIN shut.out = 1..n /\ DOMAIN g.out = 1..(n + 1)
                        /\ \A i \in 1..n : g.out[i] = shut.out[i]
                        /\ g.out[n + 1] = a
    BY <2>3, EmitOut
  <2> HIDE DEF a, g, n
  <2>7. ASSUME NEW S, Said(S, shut)
        PROVE  Said(S, g)
    <3>1. /\ Listed(g) /\ n \in Nat
          /\ DOMAIN shut.out = 1..n /\ DOMAIN g.out = 1..(n + 1)
          /\ \A i \in 1..n : g.out[i] = shut.out[i]
          /\ g.out[n + 1] = a
      BY <2>6, <2>7 DEF Said
    <3>2. \A x \in Conns : Heard(g, x) => Heard(shut, x) /\ x # c
      BY <2>2, <2>3, <2>4 DEF Same, Heard
    <3>3. ASSUME NEW x \in Conns, Heard(g, x)
          PROVE  x \in S /\ \A i \in 1..(n + 1) : ~IsClose(g.out[i], x)
      <4>1. x # c /\ x \in S /\ \A i \in 1..n : ~IsClose(shut.out[i], x)
        BY <2>7, <3>1, <3>2, <3>3 DEF Said
      <4>2. \A i \in 1..(n + 1) : i = n + 1 \/ i \in 1..n
        BY <3>1
      <4> QED BY <2>5, <3>1, <4>1, <4>2
    <3>4. Orderly(S, g)
      <4>1. ASSUME NEW i \in 1..(n + 1), IsSend(g.out[i]), g.out[i].conn \in Conns
            PROVE  /\ g.out[i].conn \in S
                   /\ \A j \in 1..(i - 1) : ~IsClose(g.out[j], g.out[i].conn)
        <5>0. i # n + 1
          BY <2>5, <3>1, <4>1
        <5>1. i \in 1..n /\ \A j \in 1..(i - 1) : j \in 1..n
          BY <3>1, <5>0
        <5>2. g.out[i] = shut.out[i] /\ \A j \in 1..(i - 1) : g.out[j] = shut.out[j]
          BY <3>1, <5>1
        <5>3. Orderly(S, shut)
          BY <2>7 DEF Said
        <5> QED BY <3>1, <4>1, <5>1, <5>2, <5>3 DEF Orderly
      <4> QED BY <3>1, <4>1 DEF Orderly
    <3> QED BY <3>1, <3>3, <3>4 DEF Said
  <2>8. Calm(shut, g)
    <3>1. ~IsStart(a)
      BY <2>5 DEF IsStart
    <3>2. ASSUME Plain(shut) PROVE Plain(g)
      <4>1. /\ Listed(g) /\ n \in Nat /\ DOMAIN g.out = 1..(n + 1)
            /\ \A i \in 1..n : g.out[i] = shut.out[i] /\ ~IsStart(shut.out[i])
            /\ g.out[n + 1] = a
        BY <2>6, <3>2 DEF Plain
      <4>2. \A i \in 1..(n + 1) : i = n + 1 \/ i \in 1..n
        BY <4>1
      <4>3. \A i \in 1..(n + 1) : ~IsStart(g.out[i])
        BY <3>1, <4>1, <4>2
      <4> QED BY <4>1, <4>3 DEF Plain
    <3> QED BY <2>4, <3>2 DEF Calm, Same
  <2>9. Does(shut, g)
    <3>1. Level(shut, g) /\ HubType(g)
      BY <2>4 DEF Same, Level
    <3> QED BY <2>7, <2>8, <3>1, LevelBalanced DEF Does, Booked, Spoken
  <2>10. /\ g.rooms = h.rooms /\ g.sources = h.sources /\ HubType(g)
         /\ g.conns = [h.conns EXCEPT ![c] = conn]
    BY <2>3, <2>4 DEF Same
  <2> QED BY <2>1, <2>3, <2>9, <2>10, DoesTrans DEF conn
<1> QED BY <1>1, <1>2

LEMMA DetachDoes ==
  ASSUME NEW h, HubType(h), NEW c \in Conns
  PROVE  LET g == Detach(h, c)
         IN  /\ Does(h, g) /\ HubType(g)
             /\ g.rooms = h.rooms /\ g.sources = h.sources
             /\ g.conns[c].open = h.conns[c].open
             /\ g.conns[c].closing = h.conns[c].closing
<1> DEFINE free == [h.conns[c] EXCEPT !.room = NoCode, !.role = "None"]
<1>1. h.conns[c] \in Conn
  BY Members
<1>2. /\ free \in Conn /\ free.open = h.conns[c].open
      /\ free.closing = h.conns[c].closing /\ free.source = h.conns[c].source
  BY <1>1 DEF Conn
<1>3. Detach(h, c) = [h EXCEPT !.conns[c] = free]
  BY DEF Detach, HubType
<1> HIDE DEF free
<1>4. LET g == [h EXCEPT !.conns[c] = free]
      IN  /\ Does(h, g) /\ HubType(g)
          /\ g.rooms = h.rooms /\ g.sources = h.sources /\ g.conns[c] = free
  BY <1>2, ConnDoes
<1> QED BY <1>2, <1>3, <1>4

LEMMA FatalUnboundDoes ==
  ASSUME NEW h, HubType(h), NEW c \in Conns, h.conns[c].open, NEW code
  PROVE  LET g == FatalUnbound(h, c, code)
         IN  Does(h, g) /\ HubType(g) /\ g.rooms = h.rooms /\ g.sources = h.sources
<1> DEFINE m == Error(code, TRUE)
           sent == Send(h, c, m)
           why  == "policy"
<1>1. CASE h.conns[c].closing
  BY <1>1, DoesRefl DEF FatalUnbound
<1>2. CASE ~h.conns[c].closing
  <2>1. m.t # "start" /\ Heard(h, c)
    BY <1>2 DEF Error, Heard
  <2>2. FatalUnbound(h, c, code) = CloseConn(sent, c, why)
    BY <1>2 DEF FatalUnbound
  <2> HIDE DEF m, why
  <2>3. HubType(sent) /\ Same(sent, h) /\ Does(h, sent)
    BY <2>1, SendDoes
  <2> HIDE DEF sent
  <2>4. LET g == CloseConn(sent, c, why)
        IN  /\ Does(sent, g) /\ HubType(g)
            /\ g.rooms = sent.rooms /\ g.sources = sent.sources
            /\ g.conns = [sent.conns EXCEPT ![c] = [@ EXCEPT !.closing = TRUE]]
    BY <2>3, CloseConnDoes
  <2> QED BY <2>2, <2>3, <2>4, DoesTrans DEF Same
<1> QED BY <1>1, <1>2

\* A socket is taken off its seat and told to close.
LEMMA DropDoes ==
  ASSUME NEW h, HubType(h), NEW c \in Conns, NEW code
  PROVE  /\ Does(h, CloseConn(Detach(h, c), c, code))
         /\ h.conns[c].open => Does(h, FatalUnbound(Detach(h, c), c, code))
<1> DEFINE free == Detach(h, c)
<1>1. Does(h, free) /\ HubType(free) /\ free.conns[c].open = h.conns[c].open
  BY DetachDoes
<1> HIDE DEF free
<1>2. /\ Does(free, CloseConn(free, c, code))
      /\ free.conns[c].open => Does(free, FatalUnbound(free, c, code))
  BY <1>1, CloseConnDoes, FatalUnboundDoes
<1> QED BY <1>1, <1>2, DoesTrans DEF free

\* The seat's live connection, if it has one, is heard.
Heeded(h, code, role) ==
  SeatConn(h, code, role) \in Conns => Heard(h, SeatConn(h, code, role))

LEMMA SendToDoes ==
  ASSUME NEW h, HubType(h), NEW code, NEW role, Heeded(h, code, role),
         NEW m, m.t # "start"
  PROVE  /\ Does(h, SendTo(h, code, role, m))
         /\ HubType(SendTo(h, code, role, m)) /\ Same(SendTo(h, code, role, m), h)
<1>1. HubType(h) => Same(h, h)
  BY DEF Same
<1> QED BY <1>1, SendDoes, DoesRefl DEF SendTo, Heeded

LEMMA SameHeeded ==
  ASSUME NEW g, NEW h, Same(g, h), NEW code, NEW role, Heeded(h, code, role)
  PROVE  Heeded(g, code, role)
BY DEF Same, Heeded, SeatConn, Heard

LEMMA BroadcastLobbyDoes ==
  ASSUME NEW h, HubType(h), NEW code,
         Heeded(h, code, "Host"), Heeded(h, code, "Join")
  PROVE  /\ Does(h, BroadcastLobby(h, code))
         /\ HubType(BroadcastLobby(h, code))
<1> DEFINE view == LobbyView(h.rooms[code])
           host == SendTo(h, code, "Host", view)
<1>1. view.t # "start"
  BY DEF LobbyView
<1>2. BroadcastLobby(h, code) = SendTo(host, code, "Join", view)
  BY DEF BroadcastLobby
<1> HIDE DEF view
<1>3. Does(h, host) /\ HubType(host) /\ Same(host, h)
  BY <1>1, SendToDoes
<1> HIDE DEF host
<1>4. Heeded(host, code, "Join")
  BY <1>3, SameHeeded
<1>5. Does(host, SendTo(host, code, "Join", view)) /\ HubType(SendTo(host, code, "Join", view))
  BY <1>1, <1>3, <1>4, SendToDoes
<1> QED BY <1>2, <1>3, <1>5, DoesTrans

\* Whoever has a seat that is not being vacated is heard.
LEMMA OwnedHeeded ==
  ASSUME NEW h, HubType(h), NEW excused, Owned(h, excused),
         NEW code \in Codes, NEW role \in Roles, <<code, role>> \notin excused,
         h.rooms[code].phase # "None"
  PROVE  Heeded(h, code, role)
<1> DEFINE c == SeatConn(h, code, role)
<1>1. Sits(h, excused, code, role, c)
  BY SeatConnIs
<1> HIDE DEF c
<1>2. ASSUME c \in Conns
      PROVE  Heard(h, c)
  <2>1. h.conns[c].room = code /\ code # NoCode
    BY <1>1, <1>2, NonesAssumption DEF Sits
  <2>2. Seated(h.conns, h.rooms, c)
    BY <1>2 DEF Owned, OwnedIn
  <2> QED BY <2>1, <2>2 DEF Seated, Speaks, Heard
<1> QED BY <1>2 DEF Heeded, c

LEMMA GoodHeeded ==
  ASSUME NEW h, Good(h), NEW code \in Codes, h.rooms[code].phase # "None"
  PROVE  /\ \A role \in Roles : Heeded(h, code, role)
         /\ Heeded(h, code, "Host") /\ Heeded(h, code, "Join")
<1> DEFINE none == {}
<1>1. HubType(h) /\ Owned(h, none)
  BY DEF Good
<1>2. \A role : <<code, role>> \notin none
  OBVIOUS
<1> HIDE DEF none
<1>3. \A role \in Roles : Heeded(h, code, role)
  BY <1>1, <1>2, OwnedHeeded
<1> QED BY <1>3 DEF Roles

-----------------------------------------------------------------------------
(* Departures *)

LEMMA CloseSeatDoes ==
  ASSUME NEW h, HubType(h), NEW code \in Codes, NEW role \in Roles, NEW error
  PROVE  Does(h, CloseSeat(h, code, role, error))
<1> DEFINE c == SeatConn(h, code, role)
<1>1. c \in Conns \cup {NoConn} /\ (c # NoConn => h.conns[c].open)
  BY SeatConnType DEF SeatConn
<1>2. \/ CloseSeat(h, code, role, error) = h
      \/ /\ c # NoConn
         /\ \/ CloseSeat(h, code, role, error) = CloseConn(Detach(h, c), c, "normal")
            \/ CloseSeat(h, code, role, error) = FatalUnbound(Detach(h, c), c, error)
  BY DEF CloseSeat
<1> HIDE DEF c
<1> QED BY <1>1, <1>2, DropDoes, DoesRefl

LEMMA SourceAdjusted ==
  ASSUME NEW h, HubType(h), NEW source \in Sources \cup {NoSource},
         NEW conns \in Int, NEW rooms \in Int
  PROVE  LET g == SourceAdjust(h, source, conns, rooms)
         IN  /\ HubType(g) /\ g.out = h.out
             /\ g.conns = h.conns /\ g.rooms = h.rooms
             /\ \A x \in Sources :
                  /\ g.sources[x].conns =
                       IF x = source THEN Clamp(h.sources[x].conns + conns)
                       ELSE h.sources[x].conns
                  /\ g.sources[x].rooms =
                       IF x = source THEN Clamp(h.sources[x].rooms + rooms)
                       ELSE h.sources[x].rooms
<1> DEFINE g == SourceAdjust(h, source, conns, rooms)
<1>1. HubType(g) /\ g.conns = h.conns /\ g.rooms = h.rooms
  BY SourceAdjustType
<1>2. CASE source = NoSource
  BY <1>2, NonesAssumption DEF SourceAdjust
<1>3. CASE source # NoSource
  <2> DEFINE e == h.sources[source]
             v == [conns |-> Clamp(e.conns + conns), rooms |-> Clamp(e.rooms + rooms)]
  <2>1. source \in Sources /\ h.sources \in [Sources -> [conns: Nat, rooms: Nat]]
    BY <1>3 DEF HubType
  <2>2. g = [h EXCEPT !.sources[source] = v]
    BY <1>3, <2>1 DEF SourceAdjust, HubType
  <2>3. v.conns = Clamp(e.conns + conns) /\ v.rooms = Clamp(e.rooms + rooms)
    OBVIOUS
  <2> HIDE DEF v
  <2>4. g.sources = [h.sources EXCEPT ![source] = v] /\ g.out = h.out
    BY <2>2 DEF HubType
  <2> HIDE DEF g
  <2>5. g.sources[source] = v /\ \A x \in Sources : x # source => g.sources[x] = h.sources[x]
    BY <2>1, <2>4
  <2> QED BY <1>1, <2>3, <2>4, <2>5 DEF g
<1> QED BY <1>2, <1>3

\* The room of code is gone, and its source does not pay for it any more.
LEMMA OneRoomLess ==
  ASSUME NEW h, NEW g, HubType(h), HubType(g), NEW code \in Codes,
         h.rooms[code].phase # "None", Balanced(h),
         g.conns = h.conns, g.rooms = [h.rooms EXCEPT ![code] = NoRoom],
         \A x \in Sources :
           /\ g.sources[x].conns = h.sources[x].conns
           /\ g.sources[x].rooms =
                IF x = h.rooms[code].source THEN Clamp(h.sources[x].rooms + (-1))
                ELSE h.sources[x].rooms
  PROVE  Balanced(g)
<1>1. DOMAIN h.rooms = Codes /\ NoRoom.phase = "None"
  BY NoRoomType DEF HubType
<1>2. g.rooms[code].phase = "None" /\ \A x \in Codes : x # code => g.rooms[x] = h.rooms[x]
  BY <1>1
<1>3. ASSUME NEW source \in Sources
      PROVE  BalancedFor(g, source)
  <2> DEFINE S == RoomsFrom(h, source)
             n == Cardinality(S)
  <2>1. BalancedFor(h, source)
    BY DEF Balanced
  <2>2. OpenFrom(g, source) = OpenFrom(h, source)
    BY DEF OpenFrom
  <2>3. IsFiniteSet(S) /\ n \in Nat /\ h.sources[source].rooms = n
    BY <2>1, FS_CardinalityType DEF BalancedFor
  <2>4. RoomsFrom(g, source) = S \ {code}
    BY <1>2 DEF RoomsFrom
  <2>5. code \in S <=> source = h.rooms[code].source
    BY DEF RoomsFrom
  <2> HIDE DEF S, n
  <2>6. /\ IsFiniteSet(S \ {code})
        /\ Cardinality(S \ {code}) = IF code \in S THEN n - 1 ELSE n
    BY <2>3, FS_RemoveElement DEF n
  <2>7. code \in S => n # 0
    <3>1. S = {} => code \notin S
      OBVIOUS
    <3> QED BY <2>3, <3>1, FS_EmptySet DEF n
  <2>8. g.sources[source].rooms = Cardinality(S \ {code})
    <3>1. CASE code \in S
      <4>1. g.sources[source].rooms = Clamp(n + (-1))
        BY <2>3, <2>5, <3>1
      <4> QED BY <2>3, <2>6, <2>7, <3>1, <4>1 DEF Clamp
    <3>2. CASE code \notin S
      BY <2>3, <2>5, <2>6, <3>2
    <3> QED BY <3>1, <3>2
  <2> QED BY <2>1, <2>2, <2>4, <2>6, <2>8 DEF BalancedFor
<1> QED BY <1>3 DEF Balanced

LEMMA CloseRoomDoes ==
  ASSUME NEW h, HubType(h), NEW code \in Codes, h.rooms[code].phase # "None",
         NEW error
  PROVE  Does(h, CloseRoom(h, code, error))
<1> DEFINE h1 == CloseSeat(h, code, "Host", error)
           h2 == CloseSeat(h1, code, "Join", error)
           h3 == [h2 EXCEPT !.rooms[code] = NoRoom]
           source == h.rooms[code].source
           g  == SourceAdjust(h3, source, 0, -1)
<1>1. "Host" \in Roles /\ "Join" \in Roles
  BY DEF Roles
<1>2. CloseRoom(h, code, error) = g
  BY DEF CloseRoom
<1>3. HubType(h1) /\ h1.rooms = h.rooms /\ Does(h, h1)
  BY <1>1, CloseSeatRooms, CloseSeatDoes
<1> HIDE DEF h1
<1>4. HubType(h2) /\ h2.rooms = h.rooms /\ Does(h1, h2)
  BY <1>1, <1>3, CloseSeatRooms, CloseSeatDoes
<1> HIDE DEF h2
<1>5. /\ HubType(h3) /\ h3.rooms = [h2.rooms EXCEPT ![code] = NoRoom]
      /\ h3.conns = h2.conns /\ h3.sources = h2.sources
  BY <1>4, NoRoomType, RoomType
<1>6. h3.out = h2.out
  BY <1>4 DEF HubType
<1> HIDE DEF h3
<1>7. source \in Sources \cup {NoSource} /\ source = h2.rooms[code].source
  BY <1>4, Members DEF Room
<1>8. 0 \in Int /\ -1 \in Int
  OBVIOUS
<1> HIDE DEF source
<1>9. /\ HubType(g) /\ g.out = h3.out
      /\ g.conns = h3.conns /\ g.rooms = h3.rooms
      /\ \A x \in Sources :
           /\ g.sources[x].conns =
                IF x = source THEN Clamp(h3.sources[x].conns + 0)
                ELSE h3.sources[x].conns
           /\ g.sources[x].rooms =
                IF x = source THEN Clamp(h3.sources[x].rooms + (-1))
                ELSE h3.sources[x].rooms
  BY <1>5, <1>7, <1>8, SourceAdjusted
<1> HIDE DEF g
<1>10. \A x \in Sources : h2.sources[x].conns \in Nat
  BY <1>4 DEF HubType
<1>11. \A x \in Sources : g.sources[x].conns = h2.sources[x].conns
  BY <1>5, <1>9, <1>10 DEF Clamp
<1>12. \A x \in Sources :
         g.sources[x].rooms = IF x = h2.rooms[code].source
                              THEN Clamp(h2.sources[x].rooms + (-1))
                              ELSE h2.sources[x].rooms
  BY <1>5, <1>7, <1>9
<1>13. Balanced(h2) => Balanced(g)
  BY <1>4, <1>5, <1>9, <1>11, <1>12, OneRoomLess
<1>14. \A S : Said(S, h2) => Said(S, g)
  BY <1>5, <1>6, <1>9 DEF Said, Listed, Orderly, Heard
<1>15. Calm(h2, g)
  <2>1. DOMAIN h2.rooms = Codes /\ NoRoom.phase # "Active"
    BY <1>4, NoRoomType DEF HubType
  <2>2. \A x \in Codes : g.rooms[x] = NoRoom \/ g.rooms[x] = h2.rooms[x]
    BY <1>5, <1>9, <2>1
  <2> QED BY <1>6, <1>9, <2>1, <2>2 DEF Calm, Plain, Listed
<1>16. Does(h2, g)
  BY <1>9, <1>13, <1>14, <1>15 DEF Does, Booked, Spoken
<1> QED BY <1>2, <1>3, <1>4, <1>16, DoesTrans

\* One seat is edited.
LEMMA SetSeatDoes ==
  ASSUME NEW h, HubType(h), NEW code \in Codes, NEW role \in Roles,
         NEW seat \in Seat
  PROVE  LET g == SetSeat(h, code, role, seat)
         IN  /\ Does(h, g) /\ HubType(g) /\ g.conns = h.conns
             /\ g.rooms[code].phase = h.rooms[code].phase
             /\ g.rooms[code].settings = h.rooms[code].settings
             /\ g.rooms[code].seats[role] = seat
             /\ \A r \in Roles : r # role =>
                  g.rooms[code].seats[r] = h.rooms[code].seats[r]
<1> DEFINE old  == h.rooms[code]
           room == [old EXCEPT !.seats[role] = seat]
           g    == [h EXCEPT !.rooms[code] = room]
<1>1. SetSeat(h, code, role, seat) = g
  BY DEF SetSeat, HubType
<1>2. old \in Room
  BY Members
<1>3. /\ room \in Room /\ MildRoom(old, room) /\ room.phase = old.phase
      /\ room.settings = old.settings /\ room.seats[role] = seat
      /\ \A r \in Roles : r # role => room.seats[r] = old.seats[r]
  <2> HIDE DEF old
  <2> QED BY <1>2 DEF Room, MildRoom
<1> HIDE DEF room
<1>4. Does(h, g) /\ HubType(g) /\ g.conns = h.conns /\ g.rooms[code] = room
  BY <1>3, EditDoes
<1> HIDE DEF g
<1> QED BY <1>1, <1>3, <1>4

LEMMA VacateSeatDoes ==
  ASSUME NEW h, HubType(h), NEW code \in Codes, NEW role \in Roles
  PROVE  Does(h, VacateSeat(h, code, role))
<1> DEFINE closed == CloseSeat(h, code, role, "None")
           empty  == EmptySeat
           g      == SetSeat(closed, code, role, empty)
<1>1. VacateSeat(h, code, role) = g
  BY DEF VacateSeat, CloseSeat, SetSeat
<1>2. Does(h, closed) /\ HubType(closed)
  BY CloseSeatDoes, DoesType
<1>3. empty \in Seat
  BY RoomConstants
<1> HIDE DEF closed, empty
<1>4. Does(closed, SetSeat(closed, code, role, empty))
  BY <1>2, <1>3, SetSeatDoes
<1> QED BY <1>1, <1>2, <1>4, DoesTrans

LEMMA ReopenRoomDoes ==
  ASSUME NEW h, Good(h), NEW code \in Codes, h.rooms[code].phase # "None"
  PROVE  /\ Does(h, ReopenRoom(h, code)) /\ Good(ReopenRoom(h, code))
         /\ ReopenRoom(h, code).rooms[code].phase # "None"
<1> DEFINE old  == h.rooms[code]
           room == [old EXCEPT !.phase = "Waiting", !.idle = 0,
                               !.seats["Host"].ready = FALSE]
           g    == [h EXCEPT !.rooms[code] = room]
<1>0. HubType(h) /\ old \in Room /\ "Host" \in Roles
  BY Members DEF Good, Roles
<1>1. ReopenRoom(h, code) = g
  BY <1>0 DEF ReopenRoom, HubType
<1>2. /\ room.phase = "Waiting" /\ room.source = old.source /\ old.phase # "None"
  BY <1>0 DEF Room
<1>3. room \in Room
  <2> DEFINE host  == [old.seats["Host"] EXCEPT !.ready = FALSE]
             seats == [old.seats EXCEPT !["Host"] = host]
  <2>1. old.seats["Host"] \in Seat /\ old.seats \in [Roles -> Seat]
    BY <1>0, Members DEF Room
  <2>2. host \in Seat
    BY <2>1 DEF Seat
  <2>3. seats \in [Roles -> Seat]
    <3> HIDE DEF host
    <3> QED BY <2>1, <2>2
  <2>4. room = [old EXCEPT !.phase = "Waiting", !.idle = 0, !.seats = seats]
    <3> HIDE DEF old
    <3> QED BY <1>0, <2>1 DEF Room
  <2> HIDE DEF old, seats
  <2> QED BY <1>0, <2>3, <2>4 DEF Room, Phases
<1>4. MildRoom(old, room)
  <2> HIDE DEF old, room
  <2> QED BY <1>2 DEF MildRoom
<1> HIDE DEF room
<1>5. Does(h, g) /\ g.rooms[code] = room
  BY <1>0, <1>3, <1>4, EditDoes
<1> HIDE DEF g
<1> QED BY <1>1, <1>2, <1>5, ReopenRoomGood

LEMMA GiveUpResultDoes ==
  ASSUME NEW h, HubType(h), NEW code \in Codes, NEW role
  PROVE  Does(h, GiveUpResult(h, code, role))
<1> DEFINE old  == h.rooms[code]
           room == [old EXCEPT !.result_acked = TRUE]
           g    == [h EXCEPT !.rooms[code] = room]
<1>1. old \in Room
  BY Members
<1>2. room \in Room /\ MildRoom(old, room)
  <2> HIDE DEF old
  <2> QED BY <1>1 DEF Room, MildRoom
<1>3. [h EXCEPT !.rooms[code].result_acked = TRUE] = g
  BY DEF HubType
<1> HIDE DEF room
<1>4. Does(h, g)
  BY <1>2, EditDoes
<1> HIDE DEF g
<1> QED BY <1>3, <1>4, DoesRefl DEF GiveUpResult

LEMMA SeatDepartedDoes ==
  ASSUME NEW h, HubType(h), NEW code \in Codes, NEW role \in Roles,
         h.rooms[code].phase # "None", Owned(h, {<<code, role>>}), NEW reason
  PROVE  Does(h, SeatDeparted(h, code, role, reason))
<1> DEFINE room    == h.rooms[code]
           vacated == VacateSeat(h, code, role)
           acked   == GiveUpResult(vacated, code, role)
           why     == IF role = "Host" THEN "host_left" ELSE reason
           told    == SendTo(vacated, code, Partner(role), PartnerLeft(why))
           reopen  == ReopenRoom(vacated, code)
           opened  == SendTo(reopen, code, "Host", PartnerLeft(reason))
<1>0. SeatDeparted(h, code, role, reason) =
        IF ~room.seats[role].present THEN h
        ELSE IF room.phase = "Ended"
        THEN IF acked.rooms[code].result_acked
             THEN CloseRoom(acked, code, "None") ELSE acked
        ELSE IF EndsRoom(room, role) THEN CloseRoom(told, code, "None")
        ELSE BroadcastLobby(opened, code)
  BY DEF SeatDeparted
<1>1. /\ Good(vacated) /\ vacated.rooms[code].phase # "None"
      /\ Does(h, vacated) /\ HubType(vacated)
  <2>1. Good(vacated) /\ vacated.rooms[code] =
                           [h.rooms[code] EXCEPT !.seats[role] = EmptySeat]
    BY VacateSeatGood
  <2>2. h.rooms[code] \in Room
    BY Members
  <2> QED BY <2>1, <2>2, VacateSeatDoes DEF Room, Good
<1> HIDE DEF vacated
<1>2. \A x : PartnerLeft(x).t # "start"
  BY DEF PartnerLeft
<1>3. Does(vacated, acked) /\ Does(vacated, CloseRoom(acked, code, "None"))
  <2>1. /\ Does(vacated, acked) /\ HubType(acked)
        /\ acked.rooms[code].phase # "None"
    BY <1>1, GiveUpResultDoes, GiveUpResultGood, DoesType
  <2> HIDE DEF acked
  <2> QED BY <1>1, <2>1, CloseRoomDoes, DoesTrans
<1>4. Does(vacated, CloseRoom(told, code, "None"))
  <2>1. Partner(role) \in Roles
    BY DEF Partner, Roles
  <2>2. Heeded(vacated, code, Partner(role))
    BY <1>1, <2>1, GoodHeeded
  <2>3. Does(vacated, told) /\ HubType(told) /\ Same(told, vacated)
    BY <1>1, <1>2, <2>2, SendToDoes
  <2>4. told.rooms[code].phase # "None"
    BY <1>1, <2>3 DEF Same
  <2> HIDE DEF told
  <2> QED BY <2>3, <2>4, CloseRoomDoes, DoesTrans
<1>5. Does(vacated, BroadcastLobby(opened, code))
  <2>1. /\ Does(vacated, reopen) /\ Good(reopen)
        /\ reopen.rooms[code].phase # "None" /\ HubType(reopen)
    BY <1>1, ReopenRoomDoes DEF Good
  <2> HIDE DEF reopen
  <2>2. Heeded(reopen, code, "Host") /\ Heeded(reopen, code, "Join")
    BY <2>1, GoodHeeded
  <2>3. Does(reopen, opened) /\ HubType(opened) /\ Same(opened, reopen)
    BY <1>2, <2>1, <2>2, SendToDoes
  <2> HIDE DEF opened
  <2>4. Heeded(opened, code, "Host") /\ Heeded(opened, code, "Join")
    BY <2>2, <2>3, SameHeeded
  <2>5. Does(opened, BroadcastLobby(opened, code))
    BY <2>3, <2>4, BroadcastLobbyDoes
  <2> QED BY <2>1, <2>3, <2>5, DoesTrans
<1>6. Does(h, h)
  BY DoesRefl
<1> HIDE DEF acked, told, opened, room
<1> QED BY <1>0, <1>1, <1>3, <1>4, <1>5, <1>6, DoesTrans

LEMMA FatalDoes ==
  ASSUME NEW h, Good(h), NEW c \in Conns, h.conns[c].open, NEW code
  PROVE  Does(h, Fatal(h, c, code))
<1> DEFINE room  == h.conns[c].room
           role  == h.conns[c].role
           ended == FatalUnbound(Detach(h, c), c, code)
<1>0. HubType(h) /\ Does(h, ended) /\ Dropped(ended, h, c)
  BY DropDoes, DropClose DEF Good
<1>1. CASE h.conns[c].closing
  BY <1>0, <1>1, DoesRefl DEF Fatal
<1>2. CASE ~h.conns[c].closing /\ room = NoCode
  <2>2. ~Exists(h, room)
    BY <1>2 DEF Exists
  <2> QED BY <1>0, <1>2, <2>2 DEF Fatal
<1>3. CASE ~h.conns[c].closing /\ room # NoCode
  <2> DEFINE seat == [ended.rooms[room].seats[role] EXCEPT !.connected = FALSE]
             left == SetSeat(ended, room, role, seat)
             few  == {<<room, role>>}
  <2>1. /\ room \in Codes /\ role \in Roles /\ h.rooms[room].phase # "None"
        /\ Exists(h, room) /\ SeatOf(h, c).present /\ SeatOf(h, c).conn = c
    BY <1>3, BoundSeat
  <2>2. Fatal(h, c, code) =
          SeatDeparted([ended EXCEPT !.rooms[room].seats[role].connected = FALSE],
                       room, role, "left")
    BY <1>3, <2>1 DEF Fatal
  <2> HIDE DEF ended
  <2>3. /\ HubType(ended) /\ ended.rooms = h.rooms
        /\ Owned(ended, few) /\ Unbound(ended, room, role)
    BY <1>0, <1>3, DroppedSeat
  <2>4. seat \in Seat /\ ~seat.connected
    <3>1. ended.rooms[room].seats[role] \in Seat
      BY <2>1, <2>3, Members
    <3> QED BY <3>1 DEF Seat
  <2>5. left = [ended EXCEPT !.rooms[room].seats[role].connected = FALSE]
    <3>1. /\ ended.rooms \in [Codes -> Room] /\ ended.rooms[room] \in Room
      BY <2>1, <2>3 DEF HubType
    <3> QED BY <3>1 DEF SetSeat
  <2> HIDE DEF seat, room, role
  <2>6. /\ HubType(left)
        /\ Owned(left, few \ {<<room, role>>})
    <3>1. HubType(ended) /\ Owned(ended, few) /\ Unbound(ended, room, role)
      BY <2>3
    <3> HIDE DEF few
    <3> QED BY <2>1, <2>4, <3>1, SeatFreed DEF left
  <2>7. Does(ended, left) /\ left.rooms[room].phase # "None"
    <3>1. HubType(ended) /\ room \in Codes /\ role \in Roles /\ seat \in Seat
      BY <2>1, <2>3, <2>4
    <3>2. Does(ended, SetSeat(ended, room, role, seat))
      BY <3>1, SetSeatDoes
    <3>3. SetSeat(ended, room, role, seat).rooms[room].phase = ended.rooms[room].phase
      BY <3>1, SetSeatDoes
    <3> QED BY <2>1, <2>3, <3>2, <3>3
  <2> HIDE DEF left
  <2>8. Owned(left, few)
    <3>1. few \ {<<room, role>>} \subseteq few
      OBVIOUS
    <3> HIDE DEF few
    <3> QED BY <2>6, <3>1, OwnedMore
  <2>9. Does(left, SeatDeparted(left, room, role, "left"))
    BY <2>1, <2>6, <2>7, <2>8, SeatDepartedDoes
  <2> QED BY <1>0, <2>2, <2>5, <2>7, <2>9, DoesTrans
<1> QED BY <1>1, <1>2, <1>3

LEMMA NoteInvalidDoes ==
  ASSUME NEW h, Good(h), NEW c \in Conns, h.conns[c].open
  PROVE  Does(h, NoteInvalid(h, c))
<1> DEFINE n == h.conns[c].invalid + 1
           conn == [h.conns[c] EXCEPT !.invalid = n]
           counted == [h EXCEPT !.conns[c] = conn]
<1>1. h.conns[c] \in Conn /\ HubType(h)
  BY Members DEF Good
<1>0. n \in Nat
  BY <1>1 DEF Conn
<1>2. /\ conn \in Conn /\ conn.open = h.conns[c].open
      /\ conn.hello_done = h.conns[c].hello_done
      /\ conn.closing = h.conns[c].closing /\ conn.room = h.conns[c].room
      /\ conn.role = h.conns[c].role
  <2> HIDE DEF n
  <2> QED BY <1>0, <1>1 DEF Conn
<1>8. conn.source = h.conns[c].source /\ (h.conns[c].closing => conn.closing)
  <2> HIDE DEF n
  <2> QED BY <1>1 DEF Conn
<1>3. counted = [h EXCEPT !.conns[c].invalid = @ + 1]
  BY <1>1 DEF HubType
<1> HIDE DEF conn
<1>4. Good(counted)
  BY <1>2, ConnKept
<1>5. Does(h, counted)
  BY <1>1, <1>2, <1>8, ConnDoes
<1>9. counted.conns[c] = conn
  BY <1>1 DEF HubType
<1> HIDE DEF counted
<1>6. Does(counted, Fatal(counted, c, "Bad_Msg"))
  BY <1>2, <1>4, <1>9, FatalDoes
<1>7. \/ NoteInvalid(h, c) = counted
      \/ NoteInvalid(h, c) = Fatal(counted, c, "Bad_Msg")
  BY <1>3 DEF NoteInvalid
<1> QED BY <1>5, <1>6, <1>7, DoesTrans

LEMMA RejectDoes ==
  ASSUME NEW h, Good(h), NEW c \in Conns, Heard(h, c), NEW code
  PROVE  Does(h, Reject(h, c, code))
<1> DEFINE m == Error(code, FALSE)
           sent == Send(h, c, m)
<1>1. m.t # "start" /\ HubType(h) /\ h.conns[c].open
  BY DEF Error, Good, Heard
<1>2. Reject(h, c, code) = NoteInvalid(sent, c)
  BY DEF Reject
<1> HIDE DEF m
<1>3. Does(h, sent) /\ Same(sent, h) /\ Good(sent)
  BY <1>1, SendDoes, SendGood
<1> HIDE DEF sent
<1>4. Does(sent, NoteInvalid(sent, c))
  BY <1>1, <1>3, NoteInvalidDoes DEF Same
<1> QED BY <1>2, <1>3, <1>4, DoesTrans

LEMMA SeatLostDoes ==
  ASSUME NEW h, HubType(h), NEW code \in Codes, NEW role \in Roles,
         h.rooms[code].phase # "None",
         Owned(h, {<<code, role>>}), Unbound(h, code, role)
  PROVE  Does(h, SeatLost(h, code, role))
<1> DEFINE seat == [h.rooms[code].seats[role] EXCEPT
                      !.connected = FALSE, !.conn = NoConn, !.lost = 0]
           held == SetSeat(h, code, role, seat)
           m    == [t |-> "partner_disconnected"]
           told == SendTo(held, code, Partner(role), m)
           few  == {<<code, role>>}
<1>1. h.rooms[code].seats[role] \in Seat
  BY Members
<1>2. seat \in Seat /\ ~seat.connected
  BY <1>1 DEF Seat
<1>3. held = [h EXCEPT !.rooms[code].seats[role] =
                [@ EXCEPT !.connected = FALSE, !.conn = NoConn, !.lost = 0]]
  BY DEF SetSeat, HubType, Room
<1>4. \/ SeatLost(h, code, role) = held
      \/ SeatLost(h, code, role) = told
      \/ SeatLost(h, code, role) = BroadcastLobby(told, code)
  BY <1>3 DEF SeatLost
<1> HIDE DEF seat
<1>5. few \ {<<code, role>>} = {} /\ Owned(h, few)
  OBVIOUS
<1> HIDE DEF few
<1>6. Good(held)
  <2>1. HubType(held) /\ Owned(held, few \ {<<code, role>>})
    BY <1>2, <1>5, SeatFreed
  <2> HIDE DEF held
  <2> QED BY <1>5, <2>1 DEF Good
<1>7. Does(h, held) /\ held.rooms[code].phase # "None"
  <2>1. Does(h, held)
    BY <1>2, SetSeatDoes
  <2>2. held.rooms[code].phase = h.rooms[code].phase
    BY <1>2, SetSeatDoes
  <2> QED BY <2>1, <2>2
<1> HIDE DEF held
<1>8. Partner(role) \in Roles /\ m.t # "start"
  BY DEF Partner, Roles
<1> HIDE DEF m
<1>9. /\ Heeded(held, code, Partner(role))
      /\ Heeded(held, code, "Host") /\ Heeded(held, code, "Join")
  BY <1>6, <1>7, <1>8, GoodHeeded
<1>10. Does(held, told) /\ HubType(told) /\ Same(told, held)
  BY <1>6, <1>8, <1>9, SendToDoes DEF Good
<1> HIDE DEF told
<1>11. Heeded(told, code, "Host") /\ Heeded(told, code, "Join")
  BY <1>9, <1>10, SameHeeded
<1>12. Does(told, BroadcastLobby(told, code))
  BY <1>10, <1>11, BroadcastLobbyDoes
<1> QED BY <1>4, <1>7, <1>10, <1>12, DoesTrans

-----------------------------------------------------------------------------
(* The start of a run *)

\* The seats and settings a start is made of are the same.
SameTerms(h, g) ==
  \A code \in Codes : StartOf(g.rooms[code]) = StartOf(h.rooms[code])

\* The last two things sent are the starts of a room, and the only ones.
TwoStarts(room, out) ==
  \E n \in Nat :
    /\ DOMAIN out = 1..(n + 2)
    /\ \A i \in 1..n : ~IsStart(out[i])
    /\ out[n + 1] = [kind |-> "send", conn |-> room.seats["Host"].conn,
                     msg |-> StartOf(room)]
    /\ out[n + 2] = [kind |-> "send", conn |-> room.seats["Join"].conn,
                     msg |-> StartOf(room)]

Begun(h, g, code) ==
  /\ MayStart(h.rooms[code])
  /\ \A x \in Codes : x # code => g.rooms[x] = h.rooms[x]
  /\ g.rooms[code].seats = h.rooms[code].seats
  /\ Plain(h) => TwoStarts(h.rooms[code], g.out)

\* What a whole step does: it starts no run, or it ends with the start of one.
Acts(h, g) ==
  /\ Booked(h, g) /\ Spoken(h, g)
  /\ \/ Calm(h, g)
     \/ \E code \in Codes : \E mid :
          Calm(h, mid) /\ SameTerms(h, mid) /\ Begun(mid, g, code)

LEMMA DoesActs ==
  ASSUME NEW h, NEW g, Does(h, g)
  PROVE  Acts(h, g)
BY DEF Does, Acts

LEMMA ActsAfter ==
  ASSUME NEW f, NEW g, NEW h, Does(f, g), SameTerms(f, g), Acts(g, h)
  PROVE  Acts(f, h)
<1>1. Booked(f, h) /\ Spoken(f, h)
  BY DEF Does, Acts, Booked, Spoken
<1>2. CASE Calm(g, h)
  BY <1>1, <1>2 DEF Does, Acts, Calm
<1>3. ASSUME NEW code \in Codes, NEW mid,
             Calm(g, mid), SameTerms(g, mid), Begun(mid, h, code)
      PROVE  Acts(f, h)
  <2>1. Calm(f, mid)
    BY <1>3 DEF Does, Calm
  <2>2. SameTerms(f, mid)
    BY <1>3 DEF SameTerms
  <2> QED BY <1>1, <1>3, <2>1, <2>2 DEF Acts
<1> QED BY <1>2, <1>3 DEF Acts

\* Who sits in a connected seat is heard.
LEMMA SeatHeard ==
  ASSUME NEW h, Good(h), NEW code \in Codes, NEW role \in Roles,
         h.rooms[code].phase # "None", h.rooms[code].seats[role].connected
  PROVE  LET c == h.rooms[code].seats[role].conn
         IN  c \in Conns /\ Heard(h, c) /\ Speaks(h.conns[c])
<1> DEFINE c == h.rooms[code].seats[role].conn
<1>1. Backed(h.conns, h.rooms, {}, code, role)
  BY DEF Good, Owned, OwnedIn
<1>2. c \in Conns /\ h.conns[c].room = code
  BY <1>1 DEF Backed
<1>3. Speaks(h.conns[c])
  BY <1>2, NonesAssumption, BoundSeat
<1> QED BY <1>2, <1>3 DEF Heard, Speaks

LEMMA StartOrBroadcastActs ==
  ASSUME NEW h, Good(h), NEW code \in Codes, h.rooms[code].phase # "None"
  PROVE  Acts(h, StartOrBroadcast(h, code))
<1> DEFINE room   == h.rooms[code]
           active == [h EXCEPT !.rooms[code].phase = "Active"]
           m      == StartOf(room)
           host   == room.seats["Host"].conn
           join   == room.seats["Join"].conn
           told   == Send(active, host, m)
           g      == Send(told, join, m)
<1>0. HubType(h) /\ room \in Room /\ "Host" \in Roles /\ "Join" \in Roles
  BY Members DEF Good, Roles
<1>1. CASE ~MayStart(room)
  <2>1. StartOrBroadcast(h, code) = BroadcastLobby(h, code)
    BY <1>1 DEF StartOrBroadcast
  <2>2. Does(h, BroadcastLobby(h, code))
    BY <1>0, GoodHeeded, BroadcastLobbyDoes
  <2> QED BY <2>1, <2>2, DoesActs
<1>2. CASE MayStart(room)
  <2> DEFINE run == [room EXCEPT !.phase = "Active"]
  <2>1. /\ run \in Room /\ run.seats = room.seats /\ run.source = room.source
        /\ run.phase = "Active" /\ room.phase # "None"
    BY <1>0 DEF Room, Phases
  <2>2. active = [h EXCEPT !.rooms[code] = run]
    BY <1>0 DEF HubType
  <2>3. StartOrBroadcast(h, code) = g
    BY <1>2 DEF StartOrBroadcast
  <2>4. /\ host \in Conns /\ Heard(h, host)
        /\ join \in Conns /\ Heard(h, join)
    BY <1>0, <1>2, SeatHeard DEF MayStart
  <2> HIDE DEF run, active
  <2>5. /\ HubType(active) /\ active.rooms = [h.rooms EXCEPT ![code] = run]
        /\ active.conns = h.conns /\ active.sources = h.sources
    BY <1>0, <2>1, <2>2, RoomType
  <2>6. active.out = h.out /\ DOMAIN h.rooms = Codes
    BY <1>0, <2>2 DEF HubType
  <2>7. /\ active.rooms[code] = run
        /\ \A x \in Codes : x # code => active.rooms[x] = h.rooms[x]
    BY <2>5, <2>6
  <2>8. Level(h, active)
    <3>1. \A x \in Codes : /\ active.rooms[x].phase = "None" <=> h.rooms[x].phase = "None"
                           /\ active.rooms[x].source = h.rooms[x].source
      BY <2>1, <2>7
    <3> QED BY <2>5, <3>1 DEF Level
  <2>9. Booked(h, active) /\ Spoken(h, active)
    <3>1. \A S : Said(S, h) => Said(S, active)
      BY <2>5, <2>6 DEF Said, Listed, Orderly, Heard
    <3> QED BY <2>5, <2>8, <3>1, LevelBalanced DEF Booked, Spoken
  <2> HIDE DEF host, join, m
  <2>10. /\ HubType(told) /\ Same(told, active)
         /\ Booked(active, told) /\ Spoken(active, told)
    BY <2>4, <2>5, SendDoes DEF Heard
  <2>11. /\ HubType(g) /\ Same(g, told) /\ Booked(told, g) /\ Spoken(told, g)
    <3> HIDE DEF told
    <3>1. join \in Conns => Heard(told, join)
      BY <2>4, <2>5, <2>10 DEF Heard, Same
    <3> QED BY <2>10, <3>1, SendDoes
  <2>12. Booked(h, g) /\ Spoken(h, g)
    <3> HIDE DEF told, g
    <3> QED BY <2>9, <2>10, <2>11 DEF Booked, Spoken
  <2>13. ASSUME Plain(h) PROVE TwoStarts(room, g.out)
    <3> DEFINE a == [kind |-> "send", conn |-> host, msg |-> m]
               b == [kind |-> "send", conn |-> join, msg |-> m]
               n == Len(h.out)
    <3>1. /\ told = Emit(active, a) /\ g = Emit(told, b)
      BY DEF Send
    <3>2. Listed(h) /\ \A i \in DOMAIN h.out : ~IsStart(h.out[i])
      BY <2>13 DEF Plain
    <3>3. Listed(active)
      BY <2>6, <3>2 DEF Listed
    <3> HIDE DEF a, b, told, g
    <3>4. /\ Listed(told) /\ n \in Nat
          /\ DOMAIN h.out = 1..n /\ DOMAIN told.out = 1..(n + 1)
          /\ \A i \in 1..n : told.out[i] = h.out[i]
          /\ told.out[n + 1] = a
      BY <2>5, <2>6, <3>1, <3>3, EmitOut
    <3>5. Len(told.out) = n + 1
      <4>1. PICK S : told.out \in Seq(S)
        BY <3>4 DEF Listed
      <4>2. Len(told.out) \in Nat /\ DOMAIN told.out = 1..Len(told.out)
        BY <4>1, LenProperties
      <4> DEFINE k == Len(told.out)
      <4>3. k \in Nat /\ 1..k = 1..(n + 1)
        BY <3>4, <4>2
      <4> HIDE DEF k, n
      <4>4. k = n + 1
        <5>1. n + 1 \in 1..(n + 1)
          BY <3>4
        <5>2. n + 1 \in 1..k
          BY <4>3, <5>1
        <5>3. k \in 1..k
          BY <5>2, <3>4, <4>3
        <5>4. k \in 1..(n + 1)
          BY <4>3, <5>3
        <5> QED BY <5>2, <5>4, <3>4, <4>3
      <4> QED BY <4>4 DEF k
    <3>6. /\ DOMAIN g.out = 1..((n + 1) + 1)
          /\ \A i \in 1..(n + 1) : g.out[i] = told.out[i]
          /\ g.out[(n + 1) + 1] = b
      BY <2>10, <3>1, <3>4, <3>5, EmitOut
    <3> HIDE DEF n
    <3>7. (n + 1) + 1 = n + 2 /\ n + 1 \in 1..(n + 1) /\ \A i \in 1..n : i \in 1..(n + 1)
      BY <3>4
    <3>8. /\ n \in Nat /\ DOMAIN g.out = 1..(n + 2)
          /\ g.out[n + 1] = a /\ g.out[n + 2] = b
          /\ \A i \in 1..n : ~IsStart(g.out[i])
      BY <3>2, <3>4, <3>6, <3>7
    <3> QED BY <3>8 DEF TwoStarts, a, b, host, join, m
  <2>14. Begun(h, g, code)
    <3> HIDE DEF told, g, room
    <3>1. g.rooms = active.rooms
      BY <2>10, <2>11 DEF Same
    <3> QED BY <1>2, <2>1, <2>7, <2>13, <3>1 DEF Begun, room
  <2>15. Calm(h, h) /\ SameTerms(h, h)
    BY DEF Calm, SameTerms
  <2> HIDE DEF g
  <2> QED BY <2>3, <2>12, <2>14, <2>15 DEF Acts
<1> QED BY <1>1, <1>2

-----------------------------------------------------------------------------
(* Messages of a seated connection *)

LEMMA TouchDoes ==
  ASSUME NEW h, HubType(h), NEW code \in Codes
  PROVE  LET g == Touch(h, code)
         IN  /\ Does(h, g) /\ HubType(g) /\ g.conns = h.conns
             /\ SameTerms(h, g)
             /\ g.rooms[code].phase = h.rooms[code].phase
<1> DEFINE old  == h.rooms[code]
           room == [old EXCEPT !.idle = 0]
           g    == [h EXCEPT !.rooms[code] = room]
<1>1. old \in Room
  BY Members
<1>2. /\ room \in Room /\ MildRoom(old, room) /\ room.phase = old.phase
      /\ StartOf(room) = StartOf(old)
  <2> HIDE DEF old
  <2> QED BY <1>1 DEF Room, MildRoom, StartOf
<1>3. Touch(h, code) = g
  BY DEF Touch, HubType
<1> HIDE DEF room
<1>4. /\ Does(h, g) /\ HubType(g) /\ g.conns = h.conns /\ g.rooms[code] = room
      /\ g.rooms = [h.rooms EXCEPT ![code] = room]
  BY <1>2, EditDoes
<1> HIDE DEF g
<1>5. SameTerms(h, g)
  BY <1>2, <1>4 DEF SameTerms, HubType
<1> QED BY <1>2, <1>3, <1>4, <1>5

\* A handler that edits the room and shows both players the lobby.
LEMMA ShowDoes ==
  ASSUME NEW h, NEW g, Does(h, g), Good(g), NEW code \in Codes,
         g.rooms[code].phase # "None"
  PROVE  Does(h, BroadcastLobby(Touch(g, code), code))
<1> DEFINE touched == Touch(g, code)
<1>1. /\ Does(g, touched) /\ Good(touched) /\ HubType(touched)
      /\ touched.rooms[code].phase # "None"
  BY TouchDoes, TouchGood DEF Good
<1> HIDE DEF touched
<1>2. Does(touched, BroadcastLobby(touched, code))
  BY <1>1, GoodHeeded, BroadcastLobbyDoes
<1> QED BY <1>1, <1>2, DoesTrans DEF touched

LEMMA HandleSelectDoes ==
  ASSUME NEW h, Good(h), NEW c \in Conns, h.conns[c].room # NoCode,
         Heard(h, c), NEW m, m.archetype \in Archetypes
  PROVE  Does(h, HandleSelect(h, c, m))
<1> DEFINE code   == h.conns[c].room
           role   == h.conns[c].role
           seat   == [SeatOf(h, c) EXCEPT !.archetype = m.archetype,
                                          !.ready = FALSE]
           picked == SetSeat(h, code, role, seat)
           chosen == IF SeatOf(h, c).archetype = m.archetype THEN h ELSE picked
<1>1. /\ code \in Codes /\ role \in Roles /\ HubType(h)
      /\ h.rooms[code].phase # "None"
      /\ SeatOf(h, c) = h.rooms[code].seats[role]
  BY BoundSeat DEF SeatOf, Good
<1>2. SeatOf(h, c) \in Seat
  BY <1>1, Members
<1>3. /\ seat \in Seat /\ seat.present = SeatOf(h, c).present
      /\ seat.connected = SeatOf(h, c).connected
      /\ seat.conn = SeatOf(h, c).conn
  BY <1>2 DEF Seat
<1>4. SetSeat(h, code, role, seat) =
        [h EXCEPT !.rooms[code].seats[role] =
                    [@ EXCEPT !.archetype = m.archetype, !.ready = FALSE]]
  BY <1>1 DEF SetSeat, HubType, Room
<1>5. HandleSelect(h, c, m) =
        IF ~PreStart(h.rooms[code]) \/ ~SeatOf(h, c).admitted
        THEN Reject(h, c, "Bad_State")
        ELSE BroadcastLobby(Touch(chosen, code), code)
  BY <1>4 DEF HandleSelect
<1> HIDE DEF seat, code, role
<1>6. /\ Good(picked) /\ Does(h, picked)
      /\ picked.rooms[code].phase = h.rooms[code].phase
  <2>1. Good(picked)
    BY <1>1, <1>3, SeatEdited
  <2>2. LET g == SetSeat(h, code, role, seat)
        IN  /\ Does(h, g) /\ HubType(g) /\ g.conns = h.conns
            /\ g.rooms[code].phase = h.rooms[code].phase
            /\ g.rooms[code].settings = h.rooms[code].settings
            /\ g.rooms[code].seats[role] = seat
            /\ \A r \in Roles : r # role =>
                 g.rooms[code].seats[r] = h.rooms[code].seats[r]
    BY <1>1, <1>3, SetSeatDoes
  <2> QED BY <2>1, <2>2
<1> HIDE DEF picked
<1>7. Good(chosen) /\ Does(h, chosen) /\ chosen.rooms[code].phase # "None"
  BY <1>1, <1>6, DoesRefl
<1> HIDE DEF chosen
<1>8. Does(h, BroadcastLobby(Touch(chosen, code), code))
  BY <1>1, <1>7, ShowDoes
<1> QED BY <1>5, <1>8, RejectDoes

LEMMA HandleSettingsDoes ==
  ASSUME NEW h, Good(h), NEW c \in Conns, h.conns[c].room # NoCode,
         Heard(h, c), NEW m, m.settings \in Settings
  PROVE  Does(h, HandleSettings(h, c, m))
<1> DEFINE code == h.conns[c].room
           old  == h.rooms[code]
           seat == [old.seats["Join"] EXCEPT !.ready = FALSE]
           room == [old EXCEPT !.phase = old.phase, !.settings = m.settings,
                               !.seats["Join"] = seat]
           edited  == [h EXCEPT !.rooms[code] = room]
           changed == IF old.settings = m.settings THEN h ELSE edited
<1>1. code \in Codes /\ old.phase # "None" /\ "Join" \in Roles /\ HubType(h)
  BY BoundSeat DEF Roles, Good
<1>2. old \in Room /\ old.seats["Join"] \in Seat /\ old.phase \in Phases
  BY <1>1, Members DEF Room
<1>3. /\ seat \in Seat /\ seat.present = old.seats["Join"].present
      /\ seat.connected = old.seats["Join"].connected
      /\ seat.conn = old.seats["Join"].conn
  BY <1>2 DEF Seat
<1>4. edited = [h EXCEPT !.rooms[code] =
                  [@ EXCEPT !.settings = m.settings, !.seats["Join"].ready = FALSE]]
  <2>1. room = [old EXCEPT !.settings = m.settings, !.seats["Join"].ready = FALSE]
    BY <1>1, <1>2 DEF Room
  <2> HIDE DEF room
  <2> QED BY <1>1, <2>1 DEF HubType
<1>5. HandleSettings(h, c, m) =
        IF ~PreStart(old) THEN Reject(h, c, "Bad_State")
        ELSE BroadcastLobby(Touch(changed, code), code)
  BY <1>4 DEF HandleSettings
<1>6. Good(edited)
  <2> HIDE DEF seat, code
  <2> QED BY <1>1, <1>2, <1>3, JoinSeatEdited
<1>7. Does(h, edited) /\ edited.rooms[code].phase # "None"
  <2>1. room \in Room /\ MildRoom(old, room) /\ room.phase = old.phase
    <3> DEFINE seats == [old.seats EXCEPT !["Join"] = seat]
    <3>1. seats \in [Roles -> Seat]
      BY <1>2, <1>3 DEF Room
    <3>2. room = [old EXCEPT !.settings = m.settings, !.seats = seats]
      BY <1>2 DEF Room
    <3> HIDE DEF seats, old, room
    <3> QED BY <1>2, <3>1, <3>2 DEF Room, MildRoom
  <2> HIDE DEF room, code
  <2>2. Does(h, edited) /\ edited.rooms[code] = room
    BY <1>1, <2>1, EditDoes
  <2> QED BY <1>1, <2>1, <2>2
<1> HIDE DEF edited
<1>8. Good(changed) /\ Does(h, changed) /\ changed.rooms[code].phase # "None"
  BY <1>1, <1>6, <1>7, DoesRefl
<1> HIDE DEF changed, code
<1>9. Does(h, BroadcastLobby(Touch(changed, code), code))
  BY <1>1, <1>8, ShowDoes
<1> QED BY <1>5, <1>9, RejectDoes

LEMMA HandleAdmitDoes ==
  ASSUME NEW h, Good(h), NEW c \in Conns, h.conns[c].room # NoCode,
         Heard(h, c), NEW m
  PROVE  Does(h, HandleAdmit(h, c, m))
<1> DEFINE code == h.conns[c].room
           old  == h.rooms[code]
           seat == [old.seats["Join"] EXCEPT !.admitted = TRUE]
           room == [old EXCEPT !.phase = "Selecting", !.settings = old.settings,
                               !.seats["Join"] = seat]
           admitted == [h EXCEPT !.rooms[code] = room]
<1>1. /\ code \in Codes /\ old.phase # "None" /\ "Join" \in Roles
      /\ "Selecting" \in Phases /\ HubType(h)
  BY BoundSeat DEF Roles, Phases, Good
<1>2. old \in Room /\ old.seats["Join"] \in Seat /\ old.settings \in Settings
  BY <1>1, Members DEF Room
<1>3. /\ seat \in Seat /\ seat.present = old.seats["Join"].present
      /\ seat.connected = old.seats["Join"].connected
      /\ seat.conn = old.seats["Join"].conn
  BY <1>2 DEF Seat
<1>4. admitted = [h EXCEPT !.rooms[code] =
                    [@ EXCEPT !.phase = "Selecting",
                              !.seats["Join"].admitted = TRUE]]
  <2>1. room = [old EXCEPT !.phase = "Selecting", !.seats["Join"].admitted = TRUE]
    BY <1>1, <1>2 DEF Room
  <2> HIDE DEF room
  <2> QED BY <1>1, <2>1 DEF HubType
<1>5. \/ HandleAdmit(h, c, m) = Reject(h, c, "Bad_State")
      \/ HandleAdmit(h, c, m) = BroadcastLobby(Touch(admitted, code), code)
  BY <1>4 DEF HandleAdmit
<1>6. Good(admitted)
  <2> HIDE DEF seat, code
  <2> QED BY <1>1, <1>2, <1>3, JoinSeatEdited
<1>7. Does(h, admitted) /\ admitted.rooms[code].phase # "None"
  <2>1. room \in Room /\ MildRoom(old, room) /\ room.phase = "Selecting"
    <3> DEFINE seats == [old.seats EXCEPT !["Join"] = seat]
    <3>1. seats \in [Roles -> Seat]
      BY <1>2, <1>3 DEF Room
    <3>2. room = [old EXCEPT !.phase = "Selecting", !.seats = seats]
      BY <1>2 DEF Room
    <3> HIDE DEF seats, old, room
    <3> QED BY <1>1, <1>2, <3>1, <3>2 DEF Room, MildRoom
  <2> HIDE DEF room, code
  <2>2. Does(h, admitted) /\ admitted.rooms[code] = room
    BY <1>1, <2>1, EditDoes
  <2> QED BY <2>1, <2>2
<1> HIDE DEF admitted, code
<1>8. Does(h, BroadcastLobby(Touch(admitted, code), code))
  BY <1>1, <1>6, <1>7, ShowDoes
<1> QED BY <1>5, <1>8, RejectDoes

LEMMA HandleReadyActs ==
  ASSUME NEW h, Good(h), NEW c \in Conns, h.conns[c].room # NoCode,
         Heard(h, c), NEW m, m.ready \in BOOLEAN
  PROVE  Acts(h, HandleReady(h, c, m))
<1> DEFINE code  == h.conns[c].room
           role  == h.conns[c].role
           seat  == [h.rooms[code].seats[role] EXCEPT !.ready = m.ready]
           ready == SetSeat(h, code, role, seat)
           touched == Touch(ready, code)
           refusal == ReadyRefusal(h, c, m)
<1>1. code \in Codes /\ role \in Roles /\ h.rooms[code].phase # "None" /\ HubType(h)
  BY BoundSeat DEF Good
<1>2. h.rooms[code].seats[role] \in Seat /\ h.rooms[code] \in Room
  BY <1>1, Members
<1>3. /\ seat \in Seat /\ seat.present = h.rooms[code].seats[role].present
      /\ seat.connected = h.rooms[code].seats[role].connected
      /\ seat.conn = h.rooms[code].seats[role].conn
      /\ seat.archetype = h.rooms[code].seats[role].archetype
  BY <1>2 DEF Seat
<1>4. HandleReady(h, c, m) = IF refusal # "None" THEN Reject(h, c, refusal)
                             ELSE StartOrBroadcast(touched, code)
  BY <1>1 DEF HandleReady, SetSeat, HubType, Room
<1>5. \A x \in Codes : x # code => ready.rooms[x] = h.rooms[x]
  BY <1>1 DEF SetSeat, HubType
<1> HIDE DEF seat, code, role
<1>6. /\ Good(ready) /\ Does(h, ready) /\ HubType(ready)
      /\ ready.rooms[code].phase = h.rooms[code].phase
      /\ ready.rooms[code].settings = h.rooms[code].settings
      /\ ready.rooms[code].seats[role] = seat
      /\ \A r \in Roles : r # role =>
           ready.rooms[code].seats[r] = h.rooms[code].seats[r]
  <2>1. Good(ready)
    BY <1>1, <1>3, SeatEdited
  <2>2. LET g == SetSeat(h, code, role, seat)
        IN  /\ Does(h, g) /\ HubType(g) /\ g.conns = h.conns
            /\ g.rooms[code].phase = h.rooms[code].phase
            /\ g.rooms[code].settings = h.rooms[code].settings
            /\ g.rooms[code].seats[role] = seat
            /\ \A r \in Roles : r # role =>
                 g.rooms[code].seats[r] = h.rooms[code].seats[r]
    BY <1>1, <1>3, SetSeatDoes
  <2> QED BY <2>1, <2>2
<1> HIDE DEF ready, refusal
<1>7. SameTerms(h, ready)
  <2>1. ready.rooms[code].seats["Host"].archetype = h.rooms[code].seats["Host"].archetype
    BY <1>3, <1>6 DEF Roles
  <2>2. ready.rooms[code].seats["Join"].archetype = h.rooms[code].seats["Join"].archetype
    BY <1>3, <1>6 DEF Roles
  <2> QED BY <1>5, <1>6, <2>1, <2>2 DEF SameTerms, StartOf
<1>8. /\ Does(ready, touched) /\ SameTerms(ready, touched) /\ Good(touched)
      /\ touched.rooms[code].phase # "None"
  BY <1>1, <1>6, TouchDoes, TouchGood
<1> HIDE DEF touched
<1>9. Acts(touched, StartOrBroadcast(touched, code))
  BY <1>1, <1>8, StartOrBroadcastActs
<1>10. Acts(h, StartOrBroadcast(touched, code))
  BY <1>6, <1>7, <1>8, <1>9, ActsAfter
<1> QED BY <1>4, <1>10, RejectDoes, DoesActs

LEMMA HandleResultAckDoes ==
  ASSUME NEW h, Good(h), NEW c \in Conns, h.conns[c].room # NoCode,
         Heard(h, c), NEW m
  PROVE  Does(h, HandleResultAck(h, c, m))
<1> DEFINE code  == h.conns[c].room
           acked == GiveUpResult(h, code, "Join")
<1>1. code \in Codes /\ HubType(h)
  BY BoundSeat DEF Good
<1>2. acked = [h EXCEPT !.rooms[code].result_acked = TRUE]
  BY DEF GiveUpResult
<1>3. \/ HandleResultAck(h, c, m) = Reject(h, c, "Bad_State")
      \/ HandleResultAck(h, c, m) = Touch(acked, code)
  BY <1>2 DEF HandleResultAck
<1>4. Does(h, acked) /\ HubType(acked)
  BY <1>1, GiveUpResultDoes, DoesType
<1> HIDE DEF acked
<1>5. Does(h, Touch(acked, code))
  BY <1>1, <1>4, TouchDoes, DoesTrans
<1> QED BY <1>3, <1>5, RejectDoes

LEMMA HandlePassthroughDoes ==
  ASSUME NEW h, Good(h), NEW c \in Conns, h.conns[c].room # NoCode,
         Heard(h, c), NEW m, m.t \in Passthrough,
         m.t = "run_ended" => m.result \in Results \cup {NoResult}
  PROVE  Does(h, HandlePassthrough(h, c, m))
<1> DEFINE code    == h.conns[c].room
           touched == Touch(h, code)
           room    == [touched.rooms[code] EXCEPT
                         !.phase = "Ended", !.result = m.result, !.result_age = 0]
           ended   == [touched EXCEPT !.rooms[code] = room]
           to      == Partner(h.conns[c].role)
<1>1. /\ code \in Codes /\ h.rooms[code].phase # "None" /\ HubType(h)
      /\ to \in Roles /\ m.t # "start"
  BY BoundSeat DEF Good, Partner, Roles, Passthrough
<1>2. /\ Good(touched) /\ Does(h, touched) /\ HubType(touched)
      /\ touched.rooms[code].phase # "None" /\ touched.conns = h.conns
  BY <1>1, TouchGood, TouchDoes
<1>3. \/ HandlePassthrough(h, c, m) = Reject(h, c, "Bad_State")
      \/ HandlePassthrough(h, c, m) = SendTo(touched, code, to, m)
      \/ HandlePassthrough(h, c, m) = Reject(touched, c, "Bad_Msg")
      \/ /\ m.t = "run_ended"
         /\ HandlePassthrough(h, c, m) = SendTo(ended, code, to, m)
  <2>1. ended = [touched EXCEPT !.rooms[code] =
                   [@ EXCEPT !.phase = "Ended", !.result = m.result,
                             !.result_age = 0]]
    <3> HIDE DEF touched
    <3> QED BY <1>2 DEF HubType
  <2> HIDE DEF ended
  <2> QED BY <2>1 DEF HandlePassthrough
<1> HIDE DEF touched, to, code
<1>4. Heard(touched, c) /\ Heeded(touched, code, to)
  BY <1>1, <1>2, GoodHeeded DEF Heard
<1>5. ASSUME m.t = "run_ended"
      PROVE  /\ Good(ended) /\ Does(touched, ended) /\ HubType(ended)
             /\ ended.rooms[code].phase # "None"
  <2>1. touched.rooms[code] \in Room
    BY <1>1, <1>2, Members
  <2>2. /\ room \in Room /\ SameSeating(room, touched.rooms[code])
        /\ MildRoom(touched.rooms[code], room) /\ room.phase = "Ended"
    BY <1>2, <1>5, <2>1 DEF Room, Phases, SameSeating, MildRoom
  <2> HIDE DEF room
  <2>3. Good(ended)
    BY <1>1, <1>2, <2>2, SeatingKept
  <2>4. Does(touched, ended) /\ HubType(ended) /\ ended.rooms[code] = room
    BY <1>1, <1>2, <2>2, EditDoes
  <2> QED BY <2>2, <2>3, <2>4
<1> HIDE DEF ended
<1>6. Does(h, SendTo(touched, code, to, m))
  BY <1>1, <1>2, <1>4, SendToDoes, DoesTrans
<1>7. Does(h, Reject(touched, c, "Bad_Msg"))
  BY <1>2, <1>4, RejectDoes, DoesTrans
<1>8. m.t = "run_ended" => Does(h, SendTo(ended, code, to, m))
  <2>1. m.t = "run_ended" => Heeded(ended, code, to)
    BY <1>1, <1>5, GoodHeeded
  <2>2. m.t = "run_ended" => Does(ended, SendTo(ended, code, to, m))
    BY <1>1, <1>5, <2>1, SendToDoes
  <2> QED BY <1>2, <1>5, <2>2, DoesTrans
<1> QED BY <1>3, <1>6, <1>7, <1>8, RejectDoes

LEMMA HandlePingDoes ==
  ASSUME NEW h, Good(h), NEW c \in Conns, h.conns[c].room # NoCode, Heard(h, c)
  PROVE  Does(h, HandlePing(h, c))
<1> DEFINE code    == h.conns[c].room
           touched == Touch(h, code)
           m       == [t |-> "pong"]
<1>1. code \in Codes /\ HubType(h)
  BY BoundSeat DEF Good
<1>2. Does(h, touched) /\ HubType(touched) /\ touched.conns = h.conns
  BY <1>1, TouchDoes
<1>3. HandlePing(h, c) = Send(touched, c, m) /\ m.t # "start"
  BY DEF HandlePing
<1> HIDE DEF touched, m
<1>4. Heard(touched, c)
  BY <1>2 DEF Heard
<1>5. Does(touched, Send(touched, c, m))
  BY <1>2, <1>3, <1>4, SendDoes
<1> QED BY <1>2, <1>3, <1>5, DoesTrans

\* The host is told after the joiner's socket is gone, and is still there.
LEMMA HandleKickDoes ==
  ASSUME NEW h, Good(h), NEW c \in Conns, h.conns[c].room # NoCode,
         h.conns[c].role = "Host", Heard(h, c), NEW m
  PROVE  Does(h, HandleKick(h, c, m))
<1> DEFINE code   == h.conns[c].room
           joiner == SeatConn(h, code, "Join")
           turned == CloseSeat(h, code, "Join", "Kicked")
           empty  == EmptySeat
           vacant == SetSeat(turned, code, "Join", empty)
           reopened == ReopenRoom(vacant, code)
           left   == PartnerLeft("kicked")
           told   == Send(reopened, c, left)
           none   == {}
           few    == none \cup {<<code, "Join">>}
<1>1. /\ code \in Codes /\ h.rooms[code].phase # "None" /\ "Join" \in Roles
      /\ HubType(h) /\ Owned(h, none) /\ left.t # "start"
  BY BoundSeat DEF Roles, Good, PartnerLeft
<1>2. \/ HandleKick(h, c, m) = Reject(h, c, "Bad_State")
      \/ HandleKick(h, c, m) = BroadcastLobby(told, code)
  BY DEF HandleKick, CloseSeat, SetSeat
<1>3. turned.conns[c] = h.conns[c]
  <2>1. CASE joiner = NoConn
    BY <2>1 DEF CloseSeat
  <2>2. CASE joiner # NoConn
    <3>1. turned = FatalUnbound(Detach(h, joiner), joiner, "Kicked")
      BY <2>2 DEF CloseSeat
    <3>2. Sits(h, none, code, "Join", joiner)
      <4> HIDE DEF none, code, joiner
      <4> QED BY <1>1, SeatConnIs DEF joiner
    <3> HIDE DEF turned, joiner
    <3>3. joiner \in Conns /\ h.conns[joiner].role = "Join"
      BY <2>2, <3>2 DEF Sits
    <3>4. Dropped(turned, h, joiner)
      BY <1>1, <3>1, <3>3, DropClose
    <3> QED BY <1>1, <3>3, <3>4 DEF Dropped, HubType
  <2> QED BY <2>1, <2>2
<1>4. few \ {<<code, "Join">>} = {}
  OBVIOUS
<1> HIDE DEF none, code, joiner
<1>5. /\ Released(turned, h) /\ Owned(turned, few) /\ Unbound(turned, code, "Join")
      /\ HubType(turned)
  BY <1>1, CloseSeatReleases DEF Released
<1>6. Does(h, turned)
  BY <1>1, CloseSeatDoes
<1> HIDE DEF few, turned
<1>7. empty \in Seat /\ ~empty.connected
  BY RoomConstants DEF EmptySeat
<1> HIDE DEF empty
<1>8. Good(vacant)
  <2>1. HubType(vacant) /\ Owned(vacant, few \ {<<code, "Join">>})
    BY <1>1, <1>5, <1>7, SeatFreed
  <2> QED BY <1>4, <2>1 DEF Good
<1>9. /\ Does(turned, vacant) /\ vacant.conns = turned.conns
      /\ vacant.rooms[code].phase # "None"
  <2>1. turned.rooms[code] = h.rooms[code]
    BY <1>1, <1>5 DEF Released
  <2>2. LET g == SetSeat(turned, code, "Join", empty)
        IN  /\ Does(turned, g) /\ HubType(g) /\ g.conns = turned.conns
            /\ g.rooms[code].phase = turned.rooms[code].phase
    BY <1>1, <1>5, <1>7, SetSeatDoes
  <2> QED BY <1>1, <2>1, <2>2
<1> HIDE DEF vacant
<1>10. /\ Good(reopened) /\ Does(vacant, reopened) /\ HubType(reopened)
       /\ reopened.rooms[code].phase # "None"
  BY <1>1, <1>8, <1>9, ReopenRoomDoes DEF Good
<1>11. reopened.conns = vacant.conns
  BY <1>8 DEF ReopenRoom, Good, HubType
<1> HIDE DEF reopened, left
<1>12. Heard(reopened, c)
  BY <1>3, <1>9, <1>11 DEF Heard
<1>13. /\ Does(reopened, told) /\ HubType(told) /\ Same(told, reopened)
       /\ Good(told)
  BY <1>1, <1>10, <1>12, SendDoes, SendGood
<1> HIDE DEF told
<1>14. told.rooms[code].phase # "None"
  BY <1>10, <1>13 DEF Same
<1>15. Does(told, BroadcastLobby(told, code))
  BY <1>1, <1>13, <1>14, GoodHeeded, BroadcastLobbyDoes
<1>16. Does(h, told)
  BY <1>6, <1>9, <1>10, <1>13, DoesTrans
<1> QED BY <1>2, <1>15, <1>16, DoesTrans, RejectDoes

LEMMA HandleByeDoes ==
  ASSUME NEW h, Good(h), NEW c \in Conns, h.conns[c].room # NoCode
  PROVE  Does(h, HandleBye(h, c))
<1> DEFINE g    == CloseConn(Detach(h, c), c, "normal")
           code == h.conns[c].room
           role == h.conns[c].role
<1>1. /\ Free(g, code, role) /\ g.rooms[code].phase # "None"
      /\ code \in Codes /\ role \in Roles
  BY OwnDrop
<1>2. HandleBye(h, c) = SeatDeparted(g, code, role, "left") /\ Does(h, g)
  BY DropDoes DEF HandleBye, Good
<1> HIDE DEF g, code, role
<1>3. Does(g, SeatDeparted(g, code, role, "left"))
  BY <1>1, SeatDepartedDoes DEF Free
<1> QED BY <1>2, <1>3, DoesTrans

LEMMA HandleSuspendDoes ==
  ASSUME NEW h, Good(h), NEW c \in Conns, h.conns[c].room # NoCode
  PROVE  Does(h, HandleSuspend(h, c))
<1> DEFINE g    == CloseConn(Detach(h, c), c, "suspended")
           code == h.conns[c].room
           role == h.conns[c].role
<1>1. /\ Free(g, code, role) /\ g.rooms[code].phase # "None"
      /\ code \in Codes /\ role \in Roles
  BY OwnDrop
<1>2. HandleSuspend(h, c) = SeatLost(g, code, role) /\ Does(h, g)
  BY BoundSeat, DropDoes DEF HandleSuspend, Good
<1> HIDE DEF g, code, role
<1>3. Does(g, SeatLost(g, code, role))
  BY <1>1, SeatLostDoes DEF Free
<1> QED BY <1>2, <1>3, DoesTrans

-----------------------------------------------------------------------------
(* Hello *)

LEMMA BindDoes ==
  ASSUME NEW h, HubType(h), NEW c \in Conns, Heard(h, c), NEW code \in Codes,
         NEW role \in Roles, NEW resumed
  PROVE  /\ Does(h, Bind(h, c, code, role, resumed))
         /\ HubType(Bind(h, c, code, role, resumed))
         /\ Bind(h, c, code, role, resumed).rooms = h.rooms
         /\ Heard(Bind(h, c, code, role, resumed), c)
<1> DEFINE conn == [h.conns[c] EXCEPT !.hello_done = TRUE, !.room = code,
                                      !.role = role]
           b == [h EXCEPT !.conns[c] = conn]
           welcome == [t |-> "welcome", room |-> code, role |-> role,
                       token |-> h.rooms[code].seats[role].token,
                       resumed |-> resumed, phase |-> h.rooms[code].phase]
<1>1. h.conns[c] \in Conn
  BY Members
<1>2. /\ conn \in Conn /\ conn.open = h.conns[c].open
      /\ conn.closing = h.conns[c].closing /\ conn.source = h.conns[c].source
  BY <1>1 DEF Conn
<1>3. Bind(h, c, code, role, resumed) = Send(b, c, welcome) /\ welcome.t # "start"
  BY DEF Bind, HubType
<1> HIDE DEF conn, welcome
<1>4. /\ Does(h, b) /\ HubType(b) /\ b.rooms = h.rooms /\ b.conns[c] = conn
  BY <1>2, ConnDoes
<1> HIDE DEF b
<1>5. Heard(b, c)
  BY <1>2, <1>4 DEF Heard
<1>6. LET g == Send(b, c, welcome)
      IN  Does(b, g) /\ HubType(g) /\ Same(g, b)
  BY <1>3, <1>4, <1>5, SendDoes
<1>7. Heard(Send(b, c, welcome), c)
  BY <1>5, <1>6 DEF Same, Heard
<1> QED BY <1>3, <1>4, <1>6, <1>7, DoesTrans DEF Same

LEMMA SeatFillOut ==
  ASSUME NEW h, HubType(h), NEW code, NEW role, NEW c
  PROVE  SeatFill(h, code, role, c).out = h.out
BY DEF SeatFill, HubType

\* A room is opened, and the source it is opened from pays for it.
LEMMA OneRoomMore ==
  ASSUME NEW h, NEW g, HubType(h), HubType(g), NEW code \in Codes,
         NEW source, h.rooms[code].phase = "None", Balanced(h),
         g.conns = h.conns,
         g.rooms[code].phase # "None", g.rooms[code].source = source,
         \A x \in Codes : x # code => g.rooms[x] = h.rooms[x],
         \A x \in Sources :
           /\ g.sources[x].conns = h.sources[x].conns
           /\ g.sources[x].rooms =
                IF x = source THEN Clamp(h.sources[x].rooms + 1)
                ELSE h.sources[x].rooms
  PROVE  Balanced(g)
<1>1. ASSUME NEW x \in Sources
      PROVE  BalancedFor(g, x)
  <2> DEFINE S == RoomsFrom(h, x)
             n == Cardinality(S)
  <2>1. BalancedFor(h, x)
    BY DEF Balanced
  <2>2. OpenFrom(g, x) = OpenFrom(h, x)
    BY DEF OpenFrom
  <2>3. IsFiniteSet(S) /\ n \in Nat /\ h.sources[x].rooms = n
    BY <2>1, FS_CardinalityType DEF BalancedFor
  <2>4. code \notin S
    BY DEF RoomsFrom
  <2>5. CASE x # source
    <3>1. RoomsFrom(g, x) = S
      BY <2>5 DEF RoomsFrom
    <3> HIDE DEF S
    <3>2. /\ g.sources[x].conns = h.sources[x].conns
          /\ g.sources[x].rooms = h.sources[x].rooms
      BY <2>5
    <3> QED BY <2>1, <2>2, <2>3, <3>1, <3>2 DEF BalancedFor
  <2>6. CASE x = source
    <3>1. RoomsFrom(g, x) = S \cup {code}
      BY <2>6 DEF RoomsFrom
    <3> HIDE DEF S
    <3>2. /\ IsFiniteSet(S \cup {code})
          /\ Cardinality(S \cup {code}) = n + 1
      BY <2>3, <2>4, FS_AddElement
    <3>3. /\ g.sources[x].conns = h.sources[x].conns
          /\ g.sources[x].rooms = Clamp(n + 1)
      BY <2>3, <2>6
    <3>4. Clamp(n + 1) = n + 1
      <4> HIDE DEF n
      <4> QED BY <2>3 DEF Clamp
    <3> HIDE DEF n
    <3> QED BY <2>1, <2>2, <3>1, <3>2, <3>3, <3>4 DEF BalancedFor
  <2> QED BY <2>5, <2>6
<1> QED BY <1>1 DEF Balanced

LEMMA OpenedBooks ==
  ASSUME NEW h, HubType(h), NEW c \in Conns,
         NEW hello, hello.room \in Codes, hello.game \in Games
  PROVE  LET g == Opened(h, c, hello)
             source == h.conns[c].source
         IN  /\ g.out = h.out /\ g.rooms[hello.room].source = source
             /\ \A x \in Sources :
                  /\ g.sources[x].conns = h.sources[x].conns
                  /\ g.sources[x].rooms =
                       IF x = source THEN Clamp(h.sources[x].rooms + 1)
                       ELSE h.sources[x].rooms
<1> DEFINE code    == hello.room
           source  == h.conns[c].source
           new     == NewRoom(hello.game, source)
           opened  == [h EXCEPT !.rooms[code] = new]
           created == SourceAdjust(opened, source, 0, 1)
           filled  == SeatFill(created, code, "Host", c)
           g       == [filled EXCEPT !.rooms[code].seats["Host"].admitted = TRUE]
<1>1. source \in Sources \cup {NoSource} /\ "Host" \in Roles
  BY Members DEF Conn, Roles
<1>2. new \in Room /\ new.source = source
  BY <1>1, RoomConstants DEF NewRoom
<1>3. Opened(h, c, hello) = g
  BY DEF Opened
<1> HIDE DEF new, source
<1>4. /\ HubType(opened) /\ opened.conns = h.conns /\ opened.sources = h.sources
      /\ opened.rooms = [h.rooms EXCEPT ![code] = new] /\ opened.out = h.out
  <2>1. /\ HubType(opened) /\ opened.conns = h.conns /\ opened.sources = h.sources
        /\ opened.rooms = [h.rooms EXCEPT ![code] = new]
    BY <1>2, RoomType
  <2>2. opened.out = h.out
    BY DEF HubType
  <2> QED BY <2>1, <2>2
<1> HIDE DEF opened
<1>5. /\ HubType(created) /\ created.out = opened.out
      /\ created.rooms = opened.rooms
      /\ \A x \in Sources :
           /\ created.sources[x].conns =
                IF x = source THEN Clamp(opened.sources[x].conns + 0)
                ELSE opened.sources[x].conns
           /\ created.sources[x].rooms =
                IF x = source THEN Clamp(opened.sources[x].rooms + 1)
                ELSE opened.sources[x].rooms
  <2>1. 0 \in Int /\ 1 \in Int
    OBVIOUS
  <2> QED BY <1>1, <1>4, <2>1, SourceAdjusted
<1> HIDE DEF created
<1>6. /\ HubType(filled) /\ filled.sources = created.sources
      /\ filled.rooms = [created.rooms EXCEPT ![code] =
           [created.rooms[code] EXCEPT !.seats["Host"] = FreshSeat(created, c)]]
  BY <1>1, <1>5, SeatFillType
<1>7. filled.out = created.out
  BY <1>5, SeatFillOut
<1>8. filled.rooms[code].source = source
  <2>1. created.rooms[code] = new /\ DOMAIN created.rooms = Codes
    BY <1>4, <1>5 DEF HubType
  <2> DEFINE fresh == FreshSeat(created, c)
  <2> HIDE DEF fresh
  <2>2. filled.rooms[code] = [new EXCEPT !.seats["Host"] = fresh]
    BY <1>6, <2>1 DEF fresh
  <2> QED BY <1>2, <2>2 DEF Room
<1> HIDE DEF filled
<1>9. g.out = filled.out /\ g.sources = filled.sources
  BY <1>6 DEF HubType
<1>10. g.rooms[code].source = source
  <2>1. filled.rooms[code] \in Room
    BY <1>6, Members
  <2>2. g.rooms[code] = [filled.rooms[code] EXCEPT !.seats["Host"].admitted = TRUE]
    BY <1>6 DEF HubType
  <2> QED BY <1>8, <2>1, <2>2 DEF Room
<1> HIDE DEF g
<1>11. \A x \in Sources : Clamp(h.sources[x].conns + 0) = h.sources[x].conns
  <2>1. ASSUME NEW n \in Nat PROVE Clamp(n + 0) = n
    BY DEF Clamp
  <2>2. \A x \in Sources : h.sources[x].conns \in Nat
    BY DEF HubType
  <2> QED BY <2>1, <2>2
<1>12. \A x \in Sources :
         /\ g.sources[x].conns = h.sources[x].conns
         /\ g.sources[x].rooms = IF x = source THEN Clamp(h.sources[x].rooms + 1)
                                 ELSE h.sources[x].rooms
  BY <1>4, <1>5, <1>6, <1>9, <1>11
<1> QED BY <1>3, <1>4, <1>5, <1>7, <1>9, <1>10, <1>12 DEF source

\* A greeting and the lobby, once the room is as it will be.
LEMMA GreetDoes ==
  ASSUME NEW h, NEW g, Does(h, g), HubType(g), NEW c \in Conns, Heard(g, c),
         NEW code \in Codes, NEW role \in Roles,
         g.rooms[code].phase # "None",
         Good(Bind(g, c, code, role, FALSE))
  PROVE  Does(h, BroadcastLobby(Bind(g, c, code, role, FALSE), code))
<1> DEFINE resumed == FALSE
           bound   == Bind(g, c, code, role, resumed)
<1> HIDE DEF resumed
<1>1. Does(g, bound) /\ bound.rooms = g.rooms
  BY BindDoes
<1> HIDE DEF bound
<1>2. Good(bound) /\ HubType(bound)
  BY DEF bound, resumed, Good
<1>3. Does(bound, BroadcastLobby(bound, code))
  BY <1>1, <1>2, GoodHeeded, BroadcastLobbyDoes
<1> QED BY <1>1, <1>3, DoesTrans DEF bound, resumed

LEMMA HostHelloDoes ==
  ASSUME NEW h, Good(h), NEW c \in Conns, Unseated(h.conns[c]),
         NEW hello, hello.room \in Codes, hello.game \in Games,
         ~Exists(h, hello.room)
  PROVE  Does(h, HostHello(h, c, hello))
<1> DEFINE code   == hello.room
           source == h.conns[c].source
<1>1. PICK room \in Room : \E g : OpenedFor(h, c, hello, room, g)
  BY HostHelloRoom DEF Good
<1>2. PICK g : OpenedFor(h, c, hello, room, g)
  BY <1>1
<1>3. /\ HostHello(h, c, hello) = BroadcastLobby(Bind(g, c, code, "Host", FALSE), code)
      /\ HubType(g) /\ HubType(h) /\ g.conns = h.conns
      /\ g.rooms = [h.rooms EXCEPT ![code] = room]
      /\ room.phase = "Waiting" /\ g = Opened(h, c, hello)
  BY <1>2 DEF OpenedFor, Good
<1>4. /\ g.out = h.out /\ g.rooms[code].source = source
      /\ \A x \in Sources :
           /\ g.sources[x].conns = h.sources[x].conns
           /\ g.sources[x].rooms = IF x = source THEN Clamp(h.sources[x].rooms + 1)
                                   ELSE h.sources[x].rooms
  <2>1. LET f == Opened(h, c, hello)
            from == h.conns[c].source
        IN  /\ f.out = h.out /\ f.rooms[hello.room].source = from
            /\ \A x \in Sources :
                 /\ f.sources[x].conns = h.sources[x].conns
                 /\ f.sources[x].rooms =
                      IF x = from THEN Clamp(h.sources[x].rooms + 1)
                      ELSE h.sources[x].rooms
    BY <1>3, OpenedBooks
  <2> QED BY <1>3, <2>1
<1>5. Good(Bind(g, c, code, "Host", FALSE))
  BY <1>2, OpenedGood
<1> HIDE DEF source, code
<1>6. /\ code \in Codes /\ h.rooms[code].phase = "None" /\ "Host" \in Roles
      /\ DOMAIN h.rooms = Codes
  BY <1>3, NonesAssumption DEF Exists, code, HubType, Roles
<1>7. /\ g.rooms[code] = room
      /\ \A x \in Codes : x # code => g.rooms[x] = h.rooms[x]
  BY <1>3, <1>6
<1>8. Does(h, g)
  <2>1. Balanced(h) => Balanced(g)
    BY <1>3, <1>4, <1>6, <1>7, OneRoomMore
  <2>2. \A S : Said(S, h) => Said(S, g)
    BY <1>3, <1>4 DEF Said, Listed, Orderly, Heard
  <2>3. Calm(h, g)
    BY <1>3, <1>4, <1>7 DEF Calm, Plain, Listed
  <2> QED BY <1>3, <2>1, <2>2, <2>3 DEF Does, Booked, Spoken
<1>9. Heard(g, c) /\ g.rooms[code].phase # "None"
  BY <1>3, <1>7 DEF Heard, Unseated
<1> DEFINE role == "Host"
<1>10. Good(Bind(g, c, code, role, FALSE)) /\ role \in Roles
  BY <1>5, <1>6
<1> HIDE DEF role
<1>11. Does(h, BroadcastLobby(Bind(g, c, code, role, FALSE), code))
  BY <1>3, <1>6, <1>8, <1>9, <1>10, GreetDoes
<1> QED BY <1>3, <1>11 DEF role

LEMMA KnockedBooks ==
  ASSUME NEW h, HubType(h), NEW c \in Conns, NEW hello, hello.room \in Codes
  PROVE  LET g == Knocked(h, c, hello)
         IN  /\ g.out = h.out /\ g.sources = h.sources
             /\ g.rooms[hello.room].source = h.rooms[hello.room].source
<1> DEFINE code   == hello.room
           old    == h.rooms[code]
           fresh  == FreshSeat(h, c)
           filled == SeatFill(h, code, "Join", c)
           g      == Knocked(h, c, hello)
<1>1. "Join" \in Roles /\ old \in Room
  BY Members DEF Roles
<1>2. /\ HubType(filled) /\ filled.sources = h.sources
      /\ filled.rooms = [h.rooms EXCEPT ![code] =
           [old EXCEPT !.seats["Join"] = fresh]]
  BY <1>1, SeatFillType
<1>3. filled.out = h.out
  BY SeatFillOut
<1>4. g = [filled EXCEPT !.rooms[code] =
             [@ EXCEPT !.seat_gen = @ + 1, !.phase = "Admission", !.idle = 0,
                       !.seats["Host"].ready = FALSE]]
  BY DEF Knocked
<1> HIDE DEF filled, fresh, g
<1>5. filled.rooms[code].source = old.source
  <2>1. filled.rooms[code] = [old EXCEPT !.seats["Join"] = fresh]
    BY <1>2 DEF HubType
  <2> HIDE DEF old
  <2> QED BY <1>1, <2>1 DEF Room
<1>6. g.out = filled.out /\ g.sources = filled.sources
  BY <1>2, <1>4 DEF HubType
<1>7. g.rooms[code].source = filled.rooms[code].source
  <2> DEFINE r0 == filled.rooms[code]
             r1 == [r0 EXCEPT !.seat_gen = @ + 1, !.phase = "Admission",
                              !.idle = 0, !.seats["Host"].ready = FALSE]
  <2>1. r0 \in Room /\ DOMAIN filled.rooms = Codes
    BY <1>2, Members DEF HubType
  <2>2. g = [filled EXCEPT !.rooms[code] = r1]
    BY <1>2, <1>4 DEF HubType
  <2> HIDE DEF r0
  <2>3. r1.source = r0.source
    BY <2>1 DEF Room
  <2> HIDE DEF r1
  <2>4. g.rooms[code] = r1
    BY <1>2, <2>1, <2>2 DEF HubType
  <2> QED BY <2>3, <2>4 DEF r0
<1> QED BY <1>2, <1>3, <1>5, <1>6, <1>7 DEF g

LEMMA JoinHelloDoes ==
  ASSUME NEW h, Good(h), NEW c \in Conns, Unseated(h.conns[c]),
         NEW hello, hello.room \in Codes, Exists(h, hello.room),
         ~h.rooms[hello.room].seats["Join"].present
  PROVE  Does(h, JoinHello(h, c, hello))
<1> DEFINE code == hello.room
<1>1. PICK room \in Room : \E g : KnockedBy(h, c, hello, room, g)
  BY JoinHelloRoom DEF Good
<1>2. PICK g : KnockedBy(h, c, hello, room, g)
  BY <1>1
<1>3. /\ JoinHello(h, c, hello) = BroadcastLobby(Bind(g, c, code, "Join", FALSE), code)
      /\ HubType(g) /\ HubType(h) /\ g.conns = h.conns
      /\ g.rooms = [h.rooms EXCEPT ![code] = room]
      /\ room.phase = "Admission" /\ g = Knocked(h, c, hello)
  BY <1>2 DEF KnockedBy, Good
<1>4. /\ g.out = h.out /\ g.sources = h.sources
      /\ g.rooms[code].source = h.rooms[code].source
  BY <1>3, KnockedBooks
<1>5. Good(Bind(g, c, code, "Join", FALSE))
  BY <1>2, KnockedGood
<1>6. /\ code \in Codes /\ h.rooms[code].phase # "None" /\ "Join" \in Roles
      /\ DOMAIN h.rooms = Codes
  BY <1>3 DEF Exists, HubType, Roles
<1> HIDE DEF code
<1>7. /\ g.rooms[code] = room
      /\ \A x \in Codes : x # code => g.rooms[x] = h.rooms[x]
  BY <1>3, <1>6
<1>8. \A x \in Codes : MildRoom(h.rooms[x], g.rooms[x])
  BY <1>3, <1>4, <1>6, <1>7 DEF MildRoom
<1>9. Does(h, g)
  BY <1>3, <1>4, <1>8, SilentDoes
<1>10. Heard(g, c) /\ g.rooms[code].phase # "None"
  BY <1>3, <1>7 DEF Heard, Unseated
<1> DEFINE role == "Join"
<1>11. Good(Bind(g, c, code, role, FALSE)) /\ role \in Roles
  BY <1>5, <1>6
<1> HIDE DEF role
<1>12. Does(h, BroadcastLobby(Bind(g, c, code, role, FALSE), code))
  BY <1>3, <1>6, <1>9, <1>10, <1>11, GreetDoes
<1> QED BY <1>3, <1>12 DEF role

LEMMA SupersedeDoes ==
  ASSUME NEW h, HubType(h), NEW code \in Codes, NEW role \in Roles
  PROVE  Does(h, Supersede(h, code, role))
<1> DEFINE old == SeatConn(h, code, role)
<1>1. old \in Conns \cup {NoConn}
  BY SeatConnType
<1>2. \/ Supersede(h, code, role) = h
      \/ old # NoConn /\ Supersede(h, code, role) =
                           CloseConn(Detach(h, old), old, "superseded")
  BY DEF Supersede
<1> HIDE DEF old
<1> QED BY <1>1, <1>2, DropDoes, DoesRefl

LEMMA ReseatedDoes ==
  ASSUME NEW h, Good(h), NEW c \in Conns, Unseated(h.conns[c]),
         NEW hello, hello.room \in Codes, hello.role \in Roles,
         h.rooms[hello.room].phase # "None",
         h.rooms[hello.room].seats[hello.role].present
  PROVE  LET bind == Bind(Reseated(h, c, hello), c, hello.room, hello.role, TRUE)
         IN  /\ Does(h, bind) /\ SameTerms(h, bind) /\ Good(bind)
             /\ Heard(bind, c) /\ bind.rooms[hello.room].phase # "None"
<1> DEFINE code  == hello.room
           role  == hello.role
           g     == Reseated(h, c, hello)
           freed == Supersede(h, code, role)
           bind  == Bind(g, c, code, role, TRUE)
           room  == g.rooms[code]
<1>1. /\ Good(bind) /\ bind.rooms = g.rooms
      /\ HubType(g) /\ HubType(freed) /\ freed.rooms = h.rooms
      /\ g.conns = freed.conns /\ g.conns[c] = h.conns[c]
      /\ ReseatedRoom(room, h.rooms[code])
      /\ g = [freed EXCEPT !.rooms[code] = room]
  <2>1. ReseatedFor(h, c, hello)
    BY ReseatedGood
  <2> QED BY <2>1 DEF ReseatedFor
<1>2. Does(h, freed)
  BY SupersedeDoes DEF Good
<1>3. code \in Codes /\ role \in Roles /\ DOMAIN h.rooms = Codes
  BY DEF Good, HubType
<1> HIDE DEF freed, bind
<1>4. /\ room \in Room /\ room.phase = h.rooms[code].phase
      /\ MildRoom(freed.rooms[code], room) /\ StartOf(room) = StartOf(h.rooms[code])
  BY <1>1 DEF ReseatedRoom, MildRoom, StartOf, Roles
<1>5. Does(freed, g) /\ \A x \in Codes : x # code => g.rooms[x] = h.rooms[x]
  <2> HIDE DEF g, room
  <2>1. LET f == [freed EXCEPT !.rooms[code] = room]
        IN  /\ Does(freed, f) /\ HubType(f)
            /\ f.conns = freed.conns /\ f.out = freed.out
            /\ f.sources = freed.sources
            /\ f.rooms = [freed.rooms EXCEPT ![code] = room]
            /\ f.rooms[code] = room
    BY <1>1, <1>3, <1>4, EditDoes
  <2>2. Does(freed, g) /\ g.rooms = [freed.rooms EXCEPT ![code] = room]
    BY <1>1, <2>1
  <2> QED BY <1>1, <1>3, <2>2
<1>6. Heard(g, c)
  BY <1>1 DEF Heard, Unseated
<1> HIDE DEF g, code, role
<1>7. Does(g, bind) /\ Heard(bind, c)
  BY <1>1, <1>3, <1>6, BindDoes DEF bind
<1>8. SameTerms(h, bind)
  BY <1>1, <1>4, <1>5 DEF SameTerms
<1>9. bind.rooms[code].phase # "None"
  BY <1>1, <1>4 DEF code
<1> QED BY <1>1, <1>2, <1>5, <1>7, <1>8, <1>9, DoesTrans DEF bind, g, code, role

LEMMA ResumeActs ==
  ASSUME NEW h, Good(h), NEW c \in Conns, Unseated(h.conns[c]),
         NEW hello, hello.room \in Codes, hello.role \in Roles,
         h.rooms[hello.room].phase # "None",
         h.rooms[hello.room].seats[hello.role].present
  PROVE  Acts(h, Resume(h, c, hello))
<1> DEFINE code   == hello.room
           role   == hello.role
           bind   == Bind(Reseated(h, c, hello), c, code, role, TRUE)
           m      == [t |-> "partner_rejoined"]
           bound  == SendTo(bind, code, Partner(role), m)
           result == [t |-> "run_ended", result |-> bound.rooms[code].result]
<1>1. /\ Does(h, bind) /\ SameTerms(h, bind) /\ Good(bind)
      /\ Heard(bind, c) /\ bind.rooms[code].phase # "None"
  BY ReseatedDoes
<1>2. \/ Resume(h, c, hello) = StartOrBroadcast(bound, code)
      \/ Resume(h, c, hello) = Send(bound, c, result)
      \/ Resume(h, c, hello) = bound
  BY DEF Resume, Reseated
<1>3. m.t # "start" /\ result.t # "start" /\ Partner(role) \in Roles
  BY DEF Partner, Roles
<1> HIDE DEF bind, m
<1>4. Heeded(bind, code, Partner(role)) /\ HubType(bind)
  BY <1>1, <1>3, GoodHeeded DEF Good
<1>5. Does(bind, bound) /\ Same(bound, bind) /\ Good(bound)
  BY <1>1, <1>3, <1>4, SendToDoes, SendToGood
<1> HIDE DEF bound
<1>6. /\ SameTerms(bind, bound) /\ Heard(bound, c)
      /\ bound.rooms[code].phase # "None" /\ HubType(bound)
  BY <1>1, <1>5 DEF Same, SameTerms, Heard
<1>7. Acts(bound, StartOrBroadcast(bound, code))
  BY <1>5, <1>6, StartOrBroadcastActs
<1> HIDE DEF result
<1>8. Does(bound, Send(bound, c, result))
  BY <1>3, <1>6, SendDoes
<1>9. Does(h, bound) /\ SameTerms(h, bound)
  BY <1>1, <1>5, <1>6, DoesTrans DEF SameTerms
<1>10. Acts(h, StartOrBroadcast(bound, code))
  BY <1>7, <1>9, ActsAfter
<1>11. Acts(h, Send(bound, c, result)) /\ Acts(h, bound)
  BY <1>8, <1>9, DoesTrans, DoesActs
<1> QED BY <1>2, <1>10, <1>11

\* No operator of a departure opens or closes a connection's own socket.
OpenKept(h, g) == \A x \in Conns : g.conns[x].open = h.conns[x].open

LEMMA CloseSeatOpen ==
  ASSUME NEW h, HubType(h), NEW code \in Codes, NEW role \in Roles, NEW error
  PROVE  OpenKept(h, CloseSeat(h, code, role, error))
<1> DEFINE c == SeatConn(h, code, role)
           g == CloseSeat(h, code, role, error)
<1>1. c \in Conns \cup {NoConn}
  BY SeatConnType
<1>2. \/ g = h
      \/ /\ c # NoConn
         /\ \/ g = CloseConn(Detach(h, c), c, "normal")
            \/ g = FatalUnbound(Detach(h, c), c, error)
  BY DEF CloseSeat
<1> HIDE DEF c, g
<1>3. CASE g # h
  <2>1. c \in Conns /\ Dropped(g, h, c)
    BY <1>1, <1>2, <1>3, DropClose
  <2>2. Released(g, h)
    BY <2>1, DroppedReleased
  <2> QED BY <2>2 DEF Released, OpenKept, g
<1> QED BY <1>3 DEF OpenKept, g

LEMMA SeatDepartedOpen ==
  ASSUME NEW h, Good(h), NEW code \in Codes, NEW role \in Roles,
         h.rooms[code].phase # "None", NEW reason
  PROVE  OpenKept(h, SeatDeparted(h, code, role, reason))
<1> DEFINE room    == h.rooms[code]
           vacated == VacateSeat(h, code, role)
           acked   == GiveUpResult(vacated, code, role)
           why     == IF role = "Host" THEN "host_left" ELSE reason
           told    == SendTo(vacated, code, Partner(role), PartnerLeft(why))
           reopen  == ReopenRoom(vacated, code)
           opened  == SendTo(reopen, code, "Host", PartnerLeft(reason))
           seated  == BroadcastLobby(opened, code)
<1>1. \/ SeatDeparted(h, code, role, reason) \in {h, acked, seated}
      \/ SeatDeparted(h, code, role, reason) = CloseRoom(acked, code, "None")
      \/ SeatDeparted(h, code, role, reason) = CloseRoom(told, code, "None")
  BY DEF SeatDeparted
<1>2. /\ Good(vacated) /\ vacated.rooms[code].phase # "None"
      /\ OpenKept(h, vacated)
  <2> DEFINE few == {<<code, role>>}
             closed == CloseSeat(h, code, role, "None")
  <2>1. HubType(h) /\ Owned(h, few) /\ h.rooms[code] \in Room
    BY OwnedMore, Members DEF Good
  <2>2. LET g == VacateSeat(h, code, role)
        IN  /\ Good(g)
            /\ g.rooms[code] = [h.rooms[code] EXCEPT !.seats[role] = EmptySeat]
            /\ g.sources = h.sources /\ g.issued = h.issued
    BY <2>1, VacateSeatGood
  <2>3. vacated.rooms[code].phase # "None"
    BY <2>1, <2>2 DEF Room
  <2>4. vacated = [closed EXCEPT !.rooms[code].seats[role] = EmptySeat]
    BY DEF VacateSeat, CloseSeat
  <2>5. OpenKept(h, closed) /\ HubType(closed)
    BY <2>1, CloseSeatOpen, CloseSeatDoes, DoesType
  <2> HIDE DEF closed, vacated
  <2>6. vacated.conns = closed.conns
    BY <2>4, <2>5 DEF HubType
  <2> QED BY <2>2, <2>3, <2>5, <2>6 DEF OpenKept, vacated
<1> HIDE DEF vacated
<1>3. HubType(vacated) /\ vacated.rooms[code].phase # "None"
  BY <1>2 DEF Good
<1>4. acked.conns = vacated.conns /\ HubType(acked)
  <2>1. acked.conns = vacated.conns
    BY <1>3 DEF GiveUpResult, HubType
  <2> QED BY <1>3, <2>1, GiveUpResultDoes, DoesType
<1>5. Same(told, vacated)
  BY <1>3, SendToSame
<1>6. reopen.conns = vacated.conns /\ HubType(reopen)
  <2>1. reopen.conns = vacated.conns
    BY <1>3 DEF ReopenRoom, HubType
  <2> QED BY <1>2, <2>1, ReopenRoomGood DEF Good
<1> HIDE DEF acked, told, reopen
<1>7. Same(opened, reopen)
  BY <1>6, SendToSame
<1> HIDE DEF opened
<1>8. Same(seated, opened)
  BY <1>7, BroadcastLobbySame DEF Same
<1> HIDE DEF seated
<1>9. ASSUME NEW f, HubType(f), f.conns = vacated.conns
      PROVE  OpenKept(h, CloseRoom(f, code, "None"))
  <2> DEFINE none   == "None"
             h1     == CloseSeat(f, code, "Host", none)
             h2     == CloseSeat(h1, code, "Join", none)
             h3     == [h2 EXCEPT !.rooms[code] = NoRoom]
             source == f.rooms[code].source
             g      == SourceAdjust(h3, source, 0, -1)
  <2>1. CloseRoom(f, code, "None") = g
    BY DEF CloseRoom
  <2>2. "Host" \in Roles /\ "Join" \in Roles /\ source \in Sources \cup {NoSource}
    BY <1>9, Members DEF Roles, Room
  <2> HIDE DEF source, none
  <2>3. HubType(h1) /\ OpenKept(f, h1)
    BY <1>9, <2>2, CloseSeatOpen, CloseSeatDoes, DoesType
  <2> HIDE DEF h1
  <2>4. HubType(h2) /\ OpenKept(h1, h2)
    BY <2>2, <2>3, CloseSeatOpen, CloseSeatDoes, DoesType
  <2> HIDE DEF h2
  <2>5. HubType(h3) /\ h3.conns = h2.conns
    BY <2>4, NoRoomType, RoomType
  <2> HIDE DEF h3
  <2>6. -1 \in Int /\ 0 \in Int
    OBVIOUS
  <2>7. g.conns = h3.conns
    BY <2>2, <2>5, <2>6, SourceAdjustType
  <2> HIDE DEF g
  <2> QED BY <1>2, <1>9, <2>1, <2>3, <2>4, <2>5, <2>7 DEF OpenKept
<1>10. OpenKept(h, acked) /\ OpenKept(h, seated) /\ OpenKept(h, h)
  BY <1>2, <1>4, <1>6, <1>7, <1>8 DEF OpenKept, Same
<1>11. OpenKept(h, CloseRoom(acked, code, "None"))
  BY <1>4, <1>9
<1>12. OpenKept(h, CloseRoom(told, code, "None"))
  BY <1>5, <1>9 DEF Same
<1> QED BY <1>1, <1>10, <1>11, <1>12

LEMMA ReclaimActs ==
  ASSUME NEW h, Good(h), NEW c \in Conns, Unseated(h.conns[c]),
         NEW hello, hello.room \in Codes, hello.role \in Roles
  PROVE  Acts(h, Reclaim(h, c, hello))
<1> DEFINE refusal == ReclaimRefusal(h, hello)
           left    == SeatDeparted(h, hello.room, hello.role, "timeout")
           few     == {<<hello.room, hello.role>>}
<1>0. h.conns[c].open /\ HubType(h)
  BY DEF Unseated, Good
<1>1. refusal \in {"None", "Expired"} =>
        /\ h.rooms[hello.room].phase # "None"
        /\ h.rooms[hello.room].seats[hello.role].present
  BY DEF ReclaimRefusal, Exists, Claims
<1> HIDE DEF refusal
<1>2. refusal = "None" => Acts(h, Resume(h, c, hello))
  BY <1>1, ResumeActs
<1>3. refusal = "Expired" => /\ Good(left) /\ Does(h, left)
                             /\ left.conns[c].open
  <2>1. Owned(h, few)
    BY OwnedMore DEF Good
  <2>2. refusal = "Expired" => Good(left)
    BY <1>0, <1>1, <2>1, SeatDepartedGood
  <2>3. refusal = "Expired" => Does(h, left)
    BY <1>0, <1>1, <2>1, SeatDepartedDoes
  <2>4. refusal = "Expired" => OpenKept(h, left)
    BY <1>1, SeatDepartedOpen
  <2> QED BY <1>0, <2>2, <2>3, <2>4 DEF OpenKept
<1> HIDE DEF left
<1>4. refusal = "Expired" => Does(h, Fatal(left, c, "Run_Not_Found"))
  BY <1>3, FatalDoes, DoesTrans
<1>5. Does(h, Fatal(h, c, refusal))
  BY <1>0, FatalDoes
<1> QED BY <1>2, <1>4, <1>5, DoesActs DEF Reclaim, refusal, left

LEMMA HandleHelloActs ==
  ASSUME NEW h, Good(h), NEW c \in Conns, Unseated(h.conns[c]),
         NEW hello, hello.room \in Codes \cup {NoCode}, hello.role \in Roles,
         hello.game \in Games
  PROVE  Acts(h, HandleHello(h, c, hello))
<1>1. \A code : Acts(h, Fatal(h, c, code))
  BY FatalDoes, DoesActs DEF Unseated
<1>2. CASE ~hello.supported \/ hello.room = NoCode
  BY <1>1, <1>2 DEF HandleHello
<1>3. CASE hello.supported /\ hello.room # NoCode
  <2>1. Acts(h, Reclaim(h, c, hello))
    BY <1>3, ReclaimActs
  <2>2. CASE hello.role = "Host"
    <3>1. HostRefusal(h, c, hello) = "None" => ~Exists(h, hello.room)
      BY DEF HostRefusal
    <3>2. HostRefusal(h, c, hello) = "None" => Acts(h, HostHello(h, c, hello))
      BY <1>3, <3>1, HostHelloDoes, DoesActs
    <3> QED BY <1>1, <1>3, <2>1, <2>2, <3>2 DEF HandleHello
  <2>3. CASE hello.role # "Host"
    <3>1. JoinRefusal(h, hello) = "None" =>
            Exists(h, hello.room) /\ ~h.rooms[hello.room].seats["Join"].present
      BY DEF JoinRefusal
    <3>2. JoinRefusal(h, hello) = "None" => Acts(h, JoinHello(h, c, hello))
      BY <1>3, <3>1, JoinHelloDoes, DoesActs
    <3> QED BY <1>1, <1>3, <2>1, <2>3, <3>2 DEF HandleHello
  <2> QED BY <2>2, <2>3
<1> QED BY <1>2, <1>3

-----------------------------------------------------------------------------
(* hub_receive *)

LEMMA DispatchActs ==
  ASSUME NEW h, Good(h), NEW c \in Conns, h.conns[c].room # NoCode,
         Heard(h, c), NEW m, WellFormed(m), MsgAllowedFrom(m.t, h.conns[c].role),
         m.t \notin {"hello", "flood", "malformed", "unknown"}
  PROVE  Acts(h, Dispatch(h, c, m))
<1>1. CASE m.t = "select"
  <2>1. Dispatch(h, c, m) = HandleSelect(h, c, m)
    BY <1>1 DEF Dispatch, Passthrough
  <2> QED BY <1>1, <2>1, HandleSelectDoes, DoesActs DEF WellFormed
<1>2. CASE m.t = "ready"
  <2>1. Dispatch(h, c, m) = HandleReady(h, c, m)
    BY <1>2 DEF Dispatch, Passthrough
  <2> QED BY <1>2, <2>1, HandleReadyActs DEF WellFormed
<1>3. CASE m.t = "settings"
  <2>1. Dispatch(h, c, m) = HandleSettings(h, c, m)
    BY <1>3 DEF Dispatch, Passthrough
  <2> QED BY <1>3, <2>1, HandleSettingsDoes, DoesActs DEF WellFormed
<1>4. CASE m.t = "admit"
  <2>1. Dispatch(h, c, m) = HandleAdmit(h, c, m)
    BY <1>4 DEF Dispatch, Passthrough
  <2> QED BY <1>4, <2>1, HandleAdmitDoes, DoesActs
<1>5. CASE m.t = "kick"
  <2>1. Dispatch(h, c, m) = HandleKick(h, c, m)
    BY <1>5 DEF Dispatch, Passthrough
  <2>2. h.conns[c].role = "Host"
    BY <1>5 DEF MsgAllowedFrom, HostOnly
  <2> QED BY <1>5, <2>1, <2>2, HandleKickDoes, DoesActs
<1>6. CASE m.t = "ping"
  <2>1. Dispatch(h, c, m) = HandlePing(h, c)
    BY <1>6 DEF Dispatch, Passthrough
  <2> QED BY <1>6, <2>1, HandlePingDoes, DoesActs
<1>7. CASE m.t = "bye"
  <2>1. Dispatch(h, c, m) = HandleBye(h, c)
    BY <1>7 DEF Dispatch, Passthrough
  <2> QED BY <1>7, <2>1, HandleByeDoes, DoesActs
<1>8. CASE m.t = "suspend"
  <2>1. Dispatch(h, c, m) = HandleSuspend(h, c)
    BY <1>8 DEF Dispatch, Passthrough
  <2> QED BY <1>8, <2>1, HandleSuspendDoes, DoesActs
<1>9. CASE m.t = "result_ack"
  <2>1. Dispatch(h, c, m) = HandleResultAck(h, c, m)
    BY <1>9 DEF Dispatch, Passthrough
  <2> QED BY <1>9, <2>1, HandleResultAckDoes, DoesActs
<1>10. CASE m.t \in Passthrough
  <2>1. m.t \in {"world", "intent", "run_ended"}
    BY <1>10 DEF Passthrough
  <2>2. Dispatch(h, c, m) = HandlePassthrough(h, c, m)
    BY <2>1 DEF Dispatch, Passthrough
  <2> QED BY <1>10, <2>2, HandlePassthroughDoes, DoesActs DEF WellFormed
<1> QED
  BY <1>1, <1>2, <1>3, <1>4, <1>5, <1>6, <1>7, <1>8, <1>9, <1>10
  DEF WellFormed, Passthrough

LEMMA HubReceiveActs ==
  ASSUME NEW h, Good(h), NEW c \in Conns, Heard(h, c), NEW m, WellFormed(m)
  PROVE  Acts(h, HubReceive(h, c, m))
<1> DEFINE conn  == [h.conns[c] EXCEPT !.silent = 0]
           heard == [h EXCEPT !.conns[c] = conn]
           refusal == MessageRefusal(heard, c, m)
           g == HubReceive(h, c, m)
<1>1. h.conns[c] \in Conn /\ HubType(h)
  BY Members DEF Good
<1>2. /\ conn \in Conn /\ conn.open = h.conns[c].open
      /\ conn.hello_done = h.conns[c].hello_done
      /\ conn.closing = h.conns[c].closing /\ conn.room = h.conns[c].room
      /\ conn.role = h.conns[c].role /\ conn.source = h.conns[c].source
  BY <1>1 DEF Conn
<1>3. g = IF m.t = "flood" THEN Fatal(heard, c, "Rate_Limited")
          ELSE IF h.conns[c].hello_done THEN ReceiveGreeted(heard, c, m)
          ELSE ReceiveFirst(heard, c, m)
  BY <1>1 DEF HubReceive, HubType
<1> HIDE DEF conn
<1>4. Good(heard)
  BY <1>2, ConnKept
<1>5. /\ Does(h, heard) /\ heard.rooms = h.rooms /\ heard.conns[c] = conn
      /\ SameTerms(h, heard)
  <2>1. Does(h, heard) /\ heard.rooms = h.rooms /\ heard.conns[c] = conn
    BY <1>1, <1>2, ConnDoes
  <2> HIDE DEF heard
  <2> QED BY <2>1 DEF SameTerms
<1> HIDE DEF heard, g
<1>6. Heard(heard, c) /\ heard.conns[c].open
  BY <1>2, <1>5 DEF Heard
<1>7. \A code : Acts(heard, Fatal(heard, c, code)) /\ Acts(heard, Reject(heard, c, code))
  BY <1>4, <1>6, FatalDoes, RejectDoes, DoesActs
<1>8. Acts(heard, NoteInvalid(heard, c))
  BY <1>4, <1>6, NoteInvalidDoes, DoesActs
<1>9. ASSUME h.conns[c].hello_done /\ m.t # "flood"
      PROVE  Acts(heard, g)
  <2>1. heard.conns[c].room # NoCode
    <3>1. Bound(heard.conns, c)
      BY <1>4 DEF Good, Owned, OwnedIn
    <3> QED BY <1>2, <1>5, <1>6, <1>9, <3>1 DEF Bound, Speaks, Heard
  <2>2. g = ReceiveGreeted(heard, c, m)
    BY <1>3, <1>9
  <2>3. CASE m.t \in {"malformed", "unknown"}
    <3>1. \/ g = Reject(heard, c, "Bad_Msg")
          \/ g = NoteInvalid(heard, c)
      BY <2>2, <2>3 DEF ReceiveGreeted
    <3> QED BY <1>7, <1>8, <3>1
  <2>4. CASE m.t \notin {"malformed", "unknown"}
    <3>1. refusal = "None" => m.t # "hello" /\ MsgAllowedFrom(m.t, heard.conns[c].role)
      BY DEF MessageRefusal
    <3>2. \/ g = Fatal(heard, c, "Bad_State")
          \/ g = Reject(heard, c, refusal)
          \/ refusal = "None" /\ g = Dispatch(heard, c, m)
      BY <2>2, <2>4 DEF ReceiveGreeted
    <3> HIDE DEF refusal
    <3>3. refusal = "None" => Acts(heard, Dispatch(heard, c, m))
      BY <1>4, <1>6, <1>9, <2>1, <2>4, <3>1, DispatchActs
    <3> QED BY <1>7, <3>2, <3>3
  <2> QED BY <2>3, <2>4
<1>10. ASSUME ~h.conns[c].hello_done /\ m.t # "flood"
       PROVE  Acts(heard, g)
  <2>1. heard.conns[c].room = NoCode
    <3>1. Seated(heard.conns, heard.rooms, c)
      BY <1>4 DEF Good, Owned, OwnedIn
    <3> QED BY <1>2, <1>5, <1>10, <3>1 DEF Seated, Speaks
  <2>2. Unseated(heard.conns[c])
    BY <1>6, <2>1 DEF Unseated, Heard
  <2>3. m.t = "hello" => Acts(heard, HandleHello(heard, c, m))
    BY <1>4, <2>2, HandleHelloActs DEF WellFormed
  <2>4. Acts(heard, ReceiveFirst(heard, c, m))
    BY <1>7, <2>3 DEF ReceiveFirst
  <2> QED BY <1>3, <1>10, <2>4
<1>11. ASSUME m.t = "flood"
       PROVE  Acts(heard, g)
  <2> QED BY <1>3, <1>7, <1>11
<1>12. Acts(h, g)
  BY <1>5, <1>9, <1>10, <1>11, ActsAfter
<1> QED BY <1>12 DEF g

-----------------------------------------------------------------------------
(* Connections come and go *)

\* source pays for one more connection, or for one less, and nothing else.
PaidMore(h, g, source) ==
  \A x \in Sources :
    /\ g.sources[x].rooms = h.sources[x].rooms
    /\ g.sources[x].conns = IF x = source THEN Clamp(h.sources[x].conns + 1)
                            ELSE h.sources[x].conns

PaidLess(h, g, source) ==
  \A x \in Sources :
    /\ g.sources[x].rooms = h.sources[x].rooms
    /\ g.sources[x].conns = IF x = source THEN Clamp(h.sources[x].conns + (-1))
                            ELSE h.sources[x].conns

\* c opens or closes, and its source pays for it or does not any more.
LEMMA OneConnMore ==
  ASSUME NEW h, NEW g, HubType(h), HubType(g), NEW c \in Conns, NEW source,
         ~h.conns[c].open, Balanced(h), g.rooms = h.rooms,
         g.conns[c].open, g.conns[c].source = source,
         \A x \in Conns : x # c => g.conns[x] = h.conns[x],
         PaidMore(h, g, source)
  PROVE  Balanced(g)
<1>1. ASSUME NEW x \in Sources
      PROVE  BalancedFor(g, x)
  <2> DEFINE S == OpenFrom(h, x)
             n == Cardinality(S)
  <2>1. BalancedFor(h, x)
    BY DEF Balanced
  <2>2. RoomsFrom(g, x) = RoomsFrom(h, x)
    BY DEF RoomsFrom
  <2>3. IsFiniteSet(S) /\ n \in Nat /\ h.sources[x].conns = n
    BY <2>1, FS_CardinalityType DEF BalancedFor
  <2>4. c \notin S
    BY DEF OpenFrom
  <2>5. CASE x = source
    <3>1. OpenFrom(g, x) = S \cup {c}
      BY <2>5 DEF OpenFrom
    <3> HIDE DEF S, n
    <3>2. IsFiniteSet(S \cup {c}) /\ Cardinality(S \cup {c}) = n + 1
      BY <2>3, <2>4, FS_AddElement DEF n
    <3>3. g.sources[x].conns = n + 1
      BY <2>3, <2>5 DEF PaidMore, Clamp
    <3> QED BY <2>1, <2>2, <3>1, <3>2, <3>3 DEF BalancedFor, PaidMore
  <2>6. CASE x # source
    <3>1. OpenFrom(g, x) = S
      BY <2>6 DEF OpenFrom
    <3> QED BY <2>1, <2>2, <2>6, <3>1 DEF BalancedFor, PaidMore
  <2> QED BY <2>5, <2>6
<1> QED BY <1>1 DEF Balanced

LEMMA OneConnLess ==
  ASSUME NEW h, NEW g, HubType(h), HubType(g), NEW c \in Conns, NEW source,
         h.conns[c].open, h.conns[c].source = source, Balanced(h),
         g.rooms = h.rooms, ~g.conns[c].open,
         \A x \in Conns : x # c => g.conns[x] = h.conns[x],
         PaidLess(h, g, source)
  PROVE  Balanced(g)
<1>1. ASSUME NEW x \in Sources
      PROVE  BalancedFor(g, x)
  <2> DEFINE S == OpenFrom(h, x)
             n == Cardinality(S)
  <2>1. BalancedFor(h, x)
    BY DEF Balanced
  <2>2. RoomsFrom(g, x) = RoomsFrom(h, x)
    BY DEF RoomsFrom
  <2>3. IsFiniteSet(S) /\ n \in Nat /\ h.sources[x].conns = n
    BY <2>1, FS_CardinalityType DEF BalancedFor
  <2>4. OpenFrom(g, x) = S \ {c}
    BY DEF OpenFrom
  <2>5. c \in S <=> x = source
    BY DEF OpenFrom
  <2> HIDE DEF S, n
  <2>6. /\ IsFiniteSet(S \ {c})
        /\ Cardinality(S \ {c}) = IF c \in S THEN n - 1 ELSE n
    BY <2>3, FS_RemoveElement DEF n
  <2>7. c \in S => n # 0
    <3>1. S = {} => c \notin S
      OBVIOUS
    <3> QED BY <2>3, <3>1, FS_EmptySet DEF n
  <2>8. g.sources[x].conns = Cardinality(S \ {c})
    <3>1. CASE c \in S
      <4>1. g.sources[x].conns = Clamp(n + (-1))
        BY <2>3, <2>5, <3>1 DEF PaidLess
      <4> QED BY <2>3, <2>6, <2>7, <3>1, <4>1 DEF Clamp
    <3>2. CASE c \notin S
      BY <2>3, <2>5, <2>6, <3>2 DEF PaidLess
    <3> QED BY <3>1, <3>2
  <2> QED BY <2>1, <2>2, <2>4, <2>6, <2>8 DEF BalancedFor, PaidLess
<1> QED BY <1>1 DEF Balanced

\* hub_open sends nothing, and starts nothing.
LEMMA HubOpenDoes ==
  ASSUME NEW h, HubType(h), NEW c \in Conns, ~h.conns[c].open,
         NEW source \in Sources \cup {NoSource}, Plain(h),
         \A i \in DOMAIN h.out : ~IsSend(h.out[i])
  PROVE  LET g == HubOpen(h, c, source)
         IN  /\ Booked(h, g) /\ g.rooms = h.rooms
             /\ Plain(g) /\ \A i \in DOMAIN g.out : ~IsSend(g.out[i])
<1> DEFINE conn   == OpenedConn(source)
           new    == [h EXCEPT !.conns[c] = conn]
           opened == SourceAdjust(new, source, 1, 0)
           shut   == CloseConn(opened, c, "policy")
           g      == HubOpen(h, c, source)
<1>1. conn \in Conn /\ conn.open /\ conn.source = source /\ ~conn.closing
  BY RoomConstants DEF OpenedConn, ClosedConn
<1>2. g = IF OverConnCap(opened, source) THEN shut ELSE opened
  BY DEF HubOpen
<1> HIDE DEF conn
<1>3. /\ HubType(new) /\ new.conns = [h.conns EXCEPT ![c] = conn]
      /\ new.rooms = h.rooms /\ new.sources = h.sources
  BY <1>1, ConnType
<1>4. new.out = h.out /\ DOMAIN h.conns = Conns
  BY DEF HubType
<1> HIDE DEF new
<1>5. /\ HubType(opened) /\ opened.out = h.out
      /\ opened.conns = [h.conns EXCEPT ![c] = conn]
      /\ opened.rooms = h.rooms
      /\ PaidMore(h, opened, source)
  <2>1. 1 \in Int /\ 0 \in Int
    OBVIOUS
  <2>2. /\ HubType(opened) /\ opened.out = new.out
        /\ opened.conns = new.conns /\ opened.rooms = new.rooms
        /\ \A x \in Sources :
             /\ opened.sources[x].conns =
                  IF x = source THEN Clamp(new.sources[x].conns + 1)
                  ELSE new.sources[x].conns
             /\ opened.sources[x].rooms =
                  IF x = source THEN Clamp(new.sources[x].rooms + 0)
                  ELSE new.sources[x].rooms
    BY <1>3, <2>1, SourceAdjusted
  <2>3. \A x \in Sources : Clamp(h.sources[x].rooms + 0) = h.sources[x].rooms
    BY DEF HubType, Clamp
  <2> HIDE DEF opened
  <2> QED BY <1>3, <1>4, <2>2, <2>3 DEF PaidMore
<1> HIDE DEF opened
<1>6. opened.conns[c] = conn /\ \A x \in Conns : x # c => opened.conns[x] = h.conns[x]
  BY <1>4, <1>5
<1>7. Booked(h, opened)
  <2>1. opened.conns[c].open /\ opened.conns[c].source = source
    BY <1>1, <1>6
  <2>2. HubType(opened) /\ opened.rooms = h.rooms /\ PaidMore(h, opened, source)
    BY <1>5
  <2>3. \A x \in Conns : x # c => opened.conns[x] = h.conns[x]
    BY <1>6
  <2>4. Balanced(h) => Balanced(opened)
    BY <2>1, <2>2, <2>3, OneConnMore
  <2> QED BY <2>2, <2>4 DEF Booked
<1>8. /\ Plain(opened) /\ \A i \in DOMAIN opened.out : ~IsSend(opened.out[i])
  BY <1>5 DEF Plain, Listed
<1>9. /\ Booked(h, shut) /\ shut.rooms = h.rooms
      /\ Plain(shut) /\ \A i \in DOMAIN shut.out : ~IsSend(shut.out[i])
  <2> DEFINE cut == [opened EXCEPT !.conns[c].closing = TRUE]
             a   == [kind |-> "close", conn |-> c, code |-> "policy"]
             n   == Len(cut.out)
  <2> DEFINE why == "policy"
  <2> HIDE DEF why
  <2>0. HubType(opened)
    BY <1>5
  <2>1. Does(opened, shut) /\ shut.rooms = opened.rooms
    <3>1. LET s == CloseConn(opened, c, why)
          IN  /\ Does(opened, s) /\ HubType(s)
              /\ s.rooms = opened.rooms /\ s.sources = opened.sources
              /\ s.conns = [opened.conns EXCEPT ![c] = [@ EXCEPT !.closing = TRUE]]
      BY <2>0, CloseConnDoes
    <3> QED BY <3>1 DEF why
  <2>2. shut = Emit(cut, a)
    BY <1>1, <1>6 DEF CloseConn
  <2>3. cut.out = opened.out /\ HubType(cut)
    <3>1. [conn EXCEPT !.closing = TRUE] \in Conn
      BY <1>1 DEF Conn
    <3>2. cut = [opened EXCEPT !.conns[c] = [conn EXCEPT !.closing = TRUE]]
      BY <1>5, <1>6 DEF HubType
    <3>3. cut.out = opened.out
      BY <1>5 DEF HubType
    <3> QED BY <1>5, <3>1, <3>2, <3>3, ConnType
  <2>4. ~IsSend(a)
    BY DEF IsSend
  <2> HIDE DEF cut, a, n
  <2>5. Listed(cut)
    BY <1>8, <2>3 DEF Plain, Listed
  <2>6. LET e == Emit(cut, a)
        IN  /\ Listed(e) /\ Len(cut.out) \in Nat
            /\ DOMAIN cut.out = 1..Len(cut.out)
            /\ DOMAIN e.out = 1..(Len(cut.out) + 1)
            /\ \A i \in 1..Len(cut.out) : e.out[i] = cut.out[i]
            /\ e.out[Len(cut.out) + 1] = a
    BY <2>3, <2>5, EmitOut
  <2>7. /\ n \in Nat /\ DOMAIN cut.out = 1..n /\ DOMAIN shut.out = 1..(n + 1)
        /\ \A i \in 1..n : shut.out[i] = cut.out[i]
        /\ shut.out[n + 1] = a
    BY <2>2, <2>6 DEF n
  <2>8. \A i \in DOMAIN shut.out : ~IsSend(shut.out[i])
    <3>1. \A i \in 1..(n + 1) : i = n + 1 \/ i \in 1..n
      BY <2>7
    <3> QED BY <1>8, <2>3, <2>4, <2>7, <3>1
  <2>9. Booked(h, shut)
    BY <1>7, <2>1 DEF Does, Booked
  <2>10. Plain(shut)
    BY <1>8, <2>1 DEF Does, Calm
  <2> QED BY <1>5, <2>1, <2>8, <2>9, <2>10
<1> HIDE DEF shut
<1>10. /\ Booked(h, g) /\ g.rooms = h.rooms
       /\ Plain(g) /\ \A i \in DOMAIN g.out : ~IsSend(g.out[i])
  BY <1>2, <1>5, <1>7, <1>8, <1>9
<1> QED BY <1>10

ConnGone(h, c, source) ==
  SourceAdjust([h EXCEPT !.conns[c] = ClosedConn], source, -1, 0)

Gone(h, g, c) ==
  /\ Does(h, g) /\ HubType(g) /\ g.rooms = h.rooms
  /\ g.conns = [h.conns EXCEPT ![c] = ClosedConn]

\* A connection is gone: nobody listens to it, and its source pays no more.
LEMMA ConnGoneDoes ==
  ASSUME NEW h, HubType(h), NEW c \in Conns, h.conns[c].open,
         NEW source \in Sources \cup {NoSource}, h.conns[c].source = source
  PROVE  Gone(h, ConnGone(h, c, source), c)
<1> DEFINE new     == [h EXCEPT !.conns[c] = ClosedConn]
           dropped == SourceAdjust(new, source, -1, 0)
<1>1. ClosedConn \in Conn /\ ~ClosedConn.open
  BY RoomConstants DEF ClosedConn
<1>3. /\ HubType(new) /\ new.rooms = h.rooms /\ new.sources = h.sources
      /\ new.conns = [h.conns EXCEPT ![c] = ClosedConn]
  BY <1>1, ConnType
<1>4. new.out = h.out /\ DOMAIN h.conns = Conns
  BY DEF HubType
<1> HIDE DEF new
<1>6. /\ HubType(dropped) /\ dropped.rooms = h.rooms /\ dropped.out = h.out
      /\ dropped.conns = [h.conns EXCEPT ![c] = ClosedConn]
      /\ PaidLess(h, dropped, source)
  <2>1. -1 \in Int /\ 0 \in Int
    OBVIOUS
  <2>2. /\ HubType(dropped) /\ dropped.out = new.out
        /\ dropped.conns = new.conns /\ dropped.rooms = new.rooms
        /\ \A x \in Sources :
             /\ dropped.sources[x].conns =
                  IF x = source THEN Clamp(new.sources[x].conns + (-1))
                  ELSE new.sources[x].conns
             /\ dropped.sources[x].rooms =
                  IF x = source THEN Clamp(new.sources[x].rooms + 0)
                  ELSE new.sources[x].rooms
    BY <1>3, <2>1, SourceAdjusted
  <2>3. \A x \in Sources : Clamp(h.sources[x].rooms + 0) = h.sources[x].rooms
    BY DEF HubType, Clamp
  <2> HIDE DEF dropped
  <2> QED BY <1>3, <1>4, <2>2, <2>3 DEF PaidLess
<1> HIDE DEF dropped
<1>7. /\ dropped.conns[c] = ClosedConn
      /\ \A x \in Conns : x # c => dropped.conns[x] = h.conns[x]
  BY <1>4, <1>6
<1>8. Does(h, dropped)
  <2>1. Booked(h, dropped)
    <3>2. ~dropped.conns[c].open
      BY <1>1, <1>7
    <3>3. Balanced(h) => Balanced(dropped)
      BY <1>6, <1>7, <3>2, OneConnLess
    <3> QED BY <1>6, <3>3 DEF Booked
  <2>2. \A x \in Conns : Heard(dropped, x) => Heard(h, x)
    BY <1>1, <1>7 DEF Heard
  <2>3. Spoken(h, dropped)
    BY <1>6, <2>2 DEF Spoken, Said, Listed, Orderly
  <2>4. Calm(h, dropped)
    BY <1>6 DEF Calm, Plain, Listed
  <2> QED BY <2>1, <2>3, <2>4 DEF Does
<1>9. /\ Does(h, dropped) /\ HubType(dropped) /\ dropped.rooms = h.rooms
      /\ dropped.conns = [h.conns EXCEPT ![c] = ClosedConn]
  BY <1>6, <1>8
<1> QED BY <1>9 DEF new, dropped, ConnGone, Gone

\* h may have marked the socket as closing already, as hub_tick does.
LEMMA HubClosedDoes ==
  ASSUME NEW h0, Good(h0), NEW h, HubType(h), NEW c \in Conns, NEW conn \in Conn,
         h.conns = [h0.conns EXCEPT ![c] = conn], h.rooms = h0.rooms,
         conn.room = h0.conns[c].room, conn.role = h0.conns[c].role, conn.open
  PROVE  Does(h, HubClosed(h, c))
<1> DEFINE code    == conn.room
           role    == conn.role
           source  == conn.source
           dropped == ConnGone(h, c, source)
           none    == {}
           few     == none \cup {<<code, role>>}
<1>1. /\ ClosedConn \in Conn /\ ClosedConn.room = NoCode /\ ~Speaks(ClosedConn)
      /\ ~ClosedConn.open
  BY RoomConstants DEF ClosedConn, Speaks
<1>2. /\ HubType(h0) /\ Owned(h0, none) /\ h.conns[c] = conn
      /\ source \in Sources \cup {NoSource}
  BY DEF Good, HubType, Conn
<1> HIDE DEF none
<1>5. HubClosed(h, c) =
        IF /\ Exists(h, code) /\ SeatOf(h, c).present /\ SeatOf(h, c).connected
           /\ SeatOf(h, c).conn = c
        THEN SeatLost(dropped, code, role) ELSE dropped
  BY <1>2 DEF HubClosed, ConnGone
<1>6. /\ Does(h, dropped) /\ HubType(dropped) /\ dropped.rooms = h.rooms
      /\ dropped.conns = [h.conns EXCEPT ![c] = ClosedConn]
  <2>1. h.conns[c].open /\ h.conns[c].source = source
    BY <1>2
  <2> HIDE DEF source
  <2>2. Gone(h, ConnGone(h, c, source), c)
    BY <1>2, <2>1, ConnGoneDoes
  <2>3. Gone(h, dropped, c)
    BY <2>2
  <2> HIDE DEF dropped
  <2> QED BY <2>3 DEF Gone
<1> HIDE DEF dropped
<1>7. /\ dropped.conns[c] = ClosedConn
      /\ dropped.conns = [h0.conns EXCEPT ![c] = ClosedConn]
      /\ dropped.rooms = h0.rooms
  BY <1>2, <1>6 DEF HubType
<1>8. Does(h, dropped)
  BY <1>6
<1>9. CASE code = NoCode
  <2>1. ~Exists(h, code)
    BY <1>9 DEF Exists
  <2> QED BY <1>5, <1>8, <2>1
<1>10. CASE code # NoCode
  <2>1. /\ code \in Codes /\ role \in Roles
        /\ Exists(h0, code)
        /\ SeatOf(h0, c).present /\ SeatOf(h0, c).connected
        /\ SeatOf(h0, c).conn = c
    BY <1>10, BoundSeat
  <2>2. Exists(h, code) /\ SeatOf(h, c) = SeatOf(h0, c)
    BY <1>2, <2>1 DEF Exists, SeatOf
  <2>3. Owned(dropped, few)
    BY <1>1, <1>2, <1>7, <2>1, ReplacedOwned
  <2>4. few = {<<code, role>>}
    BY DEF none
  <2>5. Unbound(dropped, code, role)
    <3>1. ASSUME NEW x \in Conns, dropped.conns[x].room = code,
                 dropped.conns[x].role = role
          PROVE  FALSE
      <4>1. x # c
        BY <1>1, <1>7, <1>10, <3>1
      <4>2. h0.conns[x] = dropped.conns[x]
        BY <1>2, <1>7, <4>1 DEF HubType
      <4>3. SeatOf(h0, x).conn = x
        BY <1>10, <3>1, <4>2, BoundSeat
      <4>4. SeatOf(h0, x) = SeatOf(h0, c)
        BY <3>1, <4>2 DEF SeatOf
      <4> QED BY <2>1, <4>1, <4>3, <4>4
    <3> QED BY <3>1 DEF Unbound
  <2>6. dropped.rooms[code].phase # "None"
    BY <1>6, <2>2 DEF Exists
  <2>7. Does(dropped, SeatLost(dropped, code, role))
    BY <1>6, <2>1, <2>3, <2>4, <2>5, <2>6, SeatLostDoes
  <2>8. HubClosed(h, c) = SeatLost(dropped, code, role)
    BY <1>5, <2>1, <2>2
  <2> QED BY <1>8, <2>7, <2>8, DoesTrans
<1> QED BY <1>9, <1>10

-----------------------------------------------------------------------------
(* hub_tick and the clock *)

LEMMA TickConnDoes ==
  ASSUME NEW h, Good(h), NEW c \in Conns
  PROVE  Does(h, TickConn(h, c))
<1> DEFINE conn == [h.conns[c] EXCEPT !.closing = TRUE]
           g    == CloseConn(h, c, "policy")
<1>1. h.conns[c] \in Conn /\ HubType(h)
  BY Members DEF Good
<1>2. conn \in Conn /\ conn.room = h.conns[c].room /\ conn.role = h.conns[c].role
      /\ conn.open = h.conns[c].open
  BY <1>1 DEF Conn
<1>3. /\ Does(h, g) /\ HubType(g) /\ g.rooms = h.rooms
      /\ g.conns = [h.conns EXCEPT ![c] = conn]
  BY <1>1, CloseConnDoes
<1>4. TickConn(h, c) = IF ~h.conns[c].open THEN h
                       ELSE IF ~h.conns[c].hello_done THEN Fatal(h, c, "Timeout")
                       ELSE HubClosed(g, c)
  BY DEF TickConn
<1> HIDE DEF g, conn
<1>5. CASE ~h.conns[c].open
  BY <1>1, <1>4, <1>5, DoesRefl
<1>6. CASE h.conns[c].open /\ ~h.conns[c].hello_done
  BY <1>4, <1>6, FatalDoes
<1>7. CASE h.conns[c].open /\ h.conns[c].hello_done
  <2>1. Does(g, HubClosed(g, c))
    BY <1>2, <1>3, <1>7, HubClosedDoes
  <2> QED BY <1>3, <1>4, <1>7, <2>1, DoesTrans
<1> QED BY <1>5, <1>6, <1>7

LEMMA ExpireSeatDoes ==
  ASSUME NEW h, Good(h), NEW code \in Codes, NEW role \in Roles
  PROVE  Does(h, ExpireSeat(h, code, role))
<1> DEFINE few == {<<code, role>>}
<1>1. Owned(h, few) /\ HubType(h)
  BY OwnedMore DEF Good
<1>2. CASE h.rooms[code].phase # "None"
  <2>1. Does(h, SeatDeparted(h, code, role, "timeout"))
    BY <1>1, <1>2, SeatDepartedDoes
  <2> QED BY <1>1, <2>1, DoesRefl DEF ExpireSeat
<1>3. CASE h.rooms[code].phase = "None"
  BY <1>1, <1>3, DoesRefl DEF ExpireSeat, Exists
<1> QED BY <1>2, <1>3

LEMMA TickRoomDoes ==
  ASSUME NEW h, Good(h), NEW code \in Codes
  PROVE  Does(h, TickRoom(h, code))
<1> DEFINE first == ExpireSeat(h, code, "Host")
           swept == ExpireSeat(first, code, "Join")
<1>1. Good(first) /\ Does(h, first)
  BY ExpireSeatGood, ExpireSeatDoes DEF Roles
<1> HIDE DEF first
<1>2. Does(first, swept)
  BY <1>1, ExpireSeatDoes DEF Roles
<1>3. \/ TickRoom(h, code) = swept
      \/ Exists(swept, code) /\ TickRoom(h, code) = CloseRoom(swept, code, "None")
      \/ Exists(swept, code) /\ TickRoom(h, code) = CloseRoom(swept, code, "Timeout")
  BY DEF TickRoom, first
<1> HIDE DEF swept
<1>4. Does(h, swept) /\ HubType(swept)
  BY <1>1, <1>2, DoesTrans, DoesType
<1>5. ASSUME Exists(swept, code), NEW error
      PROVE  Does(h, CloseRoom(swept, code, error))
  <2>1. Does(swept, CloseRoom(swept, code, error))
    BY <1>4, <1>5, CloseRoomDoes DEF Exists
  <2> QED BY <1>4, <2>1, DoesTrans
<1> QED BY <1>3, <1>4, <1>5

LEMMA OlderLevel ==
  /\ \A conn \in Conn : /\ OlderConn(conn).open = conn.open
                        /\ OlderConn(conn).source = conn.source
                        /\ OlderConn(conn).closing = conn.closing
  /\ \A room \in Room : MildRoom(room, OlderRoom(room))
<1>1. ASSUME NEW conn \in Conn
      PROVE  /\ OlderConn(conn).open = conn.open
             /\ OlderConn(conn).source = conn.source
             /\ OlderConn(conn).closing = conn.closing
  <2> DEFINE age == Older(conn.silent,
                          IF conn.hello_done THEN Liveness ELSE HelloTimeout)
  <2>1. OlderConn(conn) \in {conn, [conn EXCEPT !.silent = age]}
    BY DEF OlderConn
  <2> HIDE DEF age
  <2> QED BY <2>1 DEF Conn
<1>2. ASSUME NEW room \in Room
      PROVE  MildRoom(room, OlderRoom(room))
  <2> DEFINE seats == [role \in Roles |-> OlderSeat(room.seats[role])]
             aged  == [room EXCEPT !.seats = seats]
             over  == Older(room.result_age, ResultDelivery)
             idle  == Older(room.idle, IdleTimeout)
             age   == Older(room.age, WaitingMax)
  <2>0. seats \in [Roles -> Seat]
    BY OlderSeatKept DEF Room
  <2>1. /\ aged \in Room
        /\ aged.phase = room.phase /\ aged.source = room.source
        /\ aged.result_age = room.result_age /\ aged.idle = room.idle
        /\ aged.age = room.age
    <3> HIDE DEF seats
    <3> QED BY <2>0 DEF Room
  <2>2. \/ OlderRoom(room) = room
        \/ OlderRoom(room) = [aged EXCEPT !.result_age = over]
        \/ OlderRoom(room) = [aged EXCEPT !.idle = idle, !.age = age]
    BY <2>1 DEF OlderRoom
  <2> HIDE DEF over, idle, age, aged
  <2>3. OlderRoom(room).phase = room.phase /\ OlderRoom(room).source = room.source
    BY <2>1, <2>2 DEF Room
  <2> QED BY <2>3 DEF MildRoom
<1> QED BY <1>1, <1>2

-----------------------------------------------------------------------------
(* One step of the relay *)

Listening(h) == {c \in Conns : Heard(h, c)}

\* The room of code starts, and both its players are told; no other room does.
Starts(h, g, code, mid) ==
  /\ \A x \in Codes : mid.rooms[x].phase = "Active" => h.rooms[x].phase = "Active"
  /\ SameTerms(h, mid) /\ MayStart(mid.rooms[code])
  /\ \A x \in Codes : x # code => g.rooms[x] = mid.rooms[x]
  /\ g.rooms[code].seats = mid.rooms[code].seats
  /\ TwoStarts(mid.rooms[code], g.out)

Tells(h, g) ==
  /\ Orderly(Listening(h), g)
  /\ \/ \A x \in Codes : g.rooms[x].phase = "Active" => h.rooms[x].phase = "Active"
     \/ \E code \in Codes : \E mid : Starts(h, g, code, mid)

LEMMA ActsTells ==
  ASSUME NEW h, NEW g, Acts(h, g), Plain(h), Said(Listening(h), h)
  PROVE  Tells(h, g)
<1>1. Orderly(Listening(h), g)
  BY DEF Acts, Spoken, Said
<1>2. CASE Calm(h, g)
  BY <1>1, <1>2 DEF Tells, Calm
<1>3. ASSUME NEW code \in Codes, NEW mid,
             Calm(h, mid), SameTerms(h, mid), Begun(mid, g, code)
      PROVE  Tells(h, g)
  <2>1. Starts(h, g, code, mid)
    BY <1>3 DEF Starts, Calm, Begun
  <2> QED BY <1>1, <2>1 DEF Tells
<1> QED BY <1>2, <1>3 DEF Acts

LEMMA FlushedSilent ==
  ASSUME Good(hub)
  PROVE  /\ Plain(Flushed) /\ Said(Listening(Flushed), Flushed)
         /\ Booked(hub, Flushed) /\ \A i \in DOMAIN Flushed.out : FALSE
         /\ \A g : Tells(Flushed, g) => Tells(hub, g)
<1>1. /\ Good(Flushed) /\ Flushed.conns = hub.conns /\ Flushed.rooms = hub.rooms
  BY FlushedGood
<1>2. Flushed.out = <<>> /\ Flushed.sources = hub.sources
  BY DEF Flushed, Good, HubType
<1>3. \A i \in DOMAIN Flushed.out : FALSE
  BY <1>2
<1>4. Listed(Flushed)
  <2>1. <<>> \in Seq({})
    BY EmptySeq
  <2> QED BY <1>2, <2>1 DEF Listed
<1>5. Plain(Flushed)
  BY <1>3, <1>4 DEF Plain
<1>6. Said(Listening(Flushed), Flushed)
  BY <1>3, <1>4 DEF Said, Orderly, Listening
<1>7. Booked(hub, Flushed)
  <2>1. Level(hub, Flushed)
    BY <1>1, <1>2 DEF Level
  <2> QED BY <1>1, <2>1, LevelBalanced DEF Booked, Good
<1>8. ASSUME NEW g, Tells(Flushed, g)
      PROVE  Tells(hub, g)
  <2>1. Listening(hub) = Listening(Flushed)
    BY <1>1 DEF Listening, Heard
  <2>2. \A code, mid : Starts(Flushed, g, code, mid) => Starts(hub, g, code, mid)
    BY <1>1 DEF Starts, SameTerms
  <2> QED BY <1>1, <1>8, <2>1, <2>2 DEF Tells
<1> QED BY <1>3, <1>5, <1>6, <1>7, <1>8

\* The books are kept by every step, and what it says is in order.
LEMMA NextTells ==
  ASSUME IInv, [Next]_vars
  PROVE  Booked(hub, hub') /\ (UNCHANGED vars \/ Tells(hub, hub'))
<1> DEFINE Goal == Booked(hub, hub') /\ (UNCHANGED vars \/ Tells(hub, hub'))
<1>1. /\ Good(hub) /\ Good(Flushed)
      /\ Flushed.conns = hub.conns /\ Flushed.rooms = hub.rooms
  BY FlushedGood DEF IInv
<1>2. /\ Plain(Flushed) /\ Said(Listening(Flushed), Flushed)
      /\ Booked(hub, Flushed) /\ \A i \in DOMAIN Flushed.out : FALSE
      /\ \A g : Tells(Flushed, g) => Tells(hub, g)
  BY <1>1, FlushedSilent
<1>3. ASSUME Acts(Flushed, hub')
      PROVE  Goal
  <2>1. Booked(hub, hub')
    BY <1>2, <1>3 DEF Acts, Booked
  <2>2. Tells(Flushed, hub')
    BY <1>2, <1>3, ActsTells
  <2> QED BY <1>2, <2>1, <2>2
<1>4. ASSUME NEW c \in Conns, NEW source \in Sources \cup {NoSource}, Open(c, source)
      PROVE  Goal
  <2> DEFINE g == HubOpen(Flushed, c, source)
  <2>1. hub' = g /\ ~Flushed.conns[c].open
    BY <1>1, <1>4 DEF Open
  <2>2. /\ Booked(Flushed, g) /\ g.rooms = Flushed.rooms
        /\ Plain(g) /\ \A i \in DOMAIN g.out : ~IsSend(g.out[i])
    BY <1>1, <1>2, <2>1, HubOpenDoes DEF Good
  <2> HIDE DEF g
  <2>3. Booked(hub, g)
    BY <1>2, <2>2 DEF Booked
  <2>4. Tells(Flushed, g)
    BY <2>2 DEF Tells, Orderly
  <2> QED BY <1>2, <2>1, <2>3, <2>4
<1>5. ASSUME NEW c \in Conns, Closed(c)
      PROVE  Goal
  <2>1. /\ HubType(Flushed) /\ Flushed.conns[c] \in Conn /\ Flushed.conns[c].open
        /\ Flushed.conns = [Flushed.conns EXCEPT ![c] = Flushed.conns[c]]
    BY <1>1, <1>5, Members DEF Good, HubType, Closed
  <2>2. Does(Flushed, HubClosed(Flushed, c))
    BY <1>1, <2>1, HubClosedDoes
  <2>3. hub' = HubClosed(Flushed, c)
    BY <1>5 DEF Closed
  <2> QED BY <1>3, <2>2, <2>3, DoesActs
<1>6. ASSUME NEW c \in Conns, NEW m \in Messages(hub), Receive(c, m)
      PROVE  Goal
  <2>1. WellFormed(m)
    BY MessagesWellFormed
  <2>2. Heard(Flushed, c) /\ hub' = HubReceive(Flushed, c, m)
    BY <1>1, <1>6 DEF Receive, Heard
  <2>3. Acts(Flushed, HubReceive(Flushed, c, m))
    BY <1>1, <2>1, <2>2, HubReceiveActs
  <2> QED BY <1>3, <2>2, <2>3
<1>7. CASE TimePasses
  <2> DEFINE conns == [c \in Conns |-> OlderConn(hub.conns[c])]
             rooms == [code \in Codes |-> OlderRoom(hub.rooms[code])]
             g     == [Flushed EXCEPT !.conns = conns, !.rooms = rooms]
  <2>1. /\ \A c \in Conns : hub.conns[c] \in Conn
        /\ \A code \in Codes : hub.rooms[code] \in Room
    BY <1>1, Members DEF Good
  <2>2. /\ \A c \in Conns : /\ conns[c].open = hub.conns[c].open
                            /\ conns[c].source = hub.conns[c].source
                            /\ hub.conns[c].closing => conns[c].closing
        /\ \A code \in Codes : MildRoom(hub.rooms[code], rooms[code])
    BY <2>1, OlderLevel
  <2>3. hub' = g
    BY <1>7 DEF TimePasses
  <2>4. HubType(hub')
    BY <1>1, <1>7, TimePassesGood DEF Good
  <2> HIDE DEF conns, rooms
  <2>5. /\ g.conns = conns /\ g.rooms = rooms
        /\ g.out = Flushed.out /\ g.sources = Flushed.sources
    BY <1>1 DEF Good, HubType
  <2> HIDE DEF g
  <2>6. Does(Flushed, g)
    BY <1>1, <2>2, <2>3, <2>4, <2>5, SilentDoes
  <2> QED BY <1>3, <2>3, <2>6, DoesActs
<1>8. CASE HubTick
  <2>1. Does(Flushed, Flushed)
    BY <1>1, DoesRefl DEF Good
  <2> QED BY <1>3, <1>8, <2>1, DoesActs DEF HubTick
<1>9. ASSUME NEW c \in Conns, SweepConn(c)
      PROVE  Goal
  <2>1. Does(Flushed, TickConn(Flushed, c))
    BY <1>1, TickConnDoes
  <2> QED BY <1>3, <1>9, <2>1, DoesActs DEF SweepConn
<1>10. ASSUME NEW code \in Codes, SweepRoom(code)
       PROVE  Goal
  <2>1. Does(Flushed, TickRoom(Flushed, code))
    BY <1>1, TickRoomDoes
  <2> QED BY <1>3, <1>10, <2>1, DoesActs DEF SweepRoom
<1>11. CASE UNCHANGED vars
  <2>1. hub' = hub
    BY <1>11 DEF vars
  <2> QED BY <1>1, <1>11, <2>1 DEF Booked, Good
<1> QED
  BY <1>4, <1>5, <1>6, <1>7, <1>8, <1>9, <1>10, <1>11
  DEF Next, Events, Timers, Sweep

-----------------------------------------------------------------------------
(* The theorems *)

\* The invariant of the books: finite, and balanced.
KeptBooks == IInv /\ Balanced(hub)

LEMMA InitBooks == Init => KeptBooks
<1> SUFFICES ASSUME Init PROVE Balanced(hub)
  BY InitIInv DEF KeptBooks
<1>1. ASSUME NEW source \in Sources
      PROVE  BalancedFor(hub, source)
  <2>1. /\ OpenFrom(hub, source) = {} /\ RoomsFrom(hub, source) = {}
        /\ hub.sources[source] = [conns |-> 0, rooms |-> 0]
    BY NoRoomType DEF Init, OpenFrom, RoomsFrom, ClosedConn
  <2> QED BY <2>1, FS_EmptySet DEF BalancedFor
<1> QED BY <1>1 DEF Balanced

LEMMA NextBooks == KeptBooks /\ [Next]_vars => KeptBooks'
<1> SUFFICES ASSUME KeptBooks, [Next]_vars PROVE KeptBooks'
  OBVIOUS
<1>1. IInv'
  BY NextIInv DEF KeptBooks
<1>2. Balanced(hub')
  BY NextTells DEF KeptBooks, Booked
<1> QED BY <1>1, <1>2 DEF KeptBooks

\* Every source pays for exactly the connections and the rooms it has, so no cap
\* locks anybody out for what is long gone.
THEOREM SourceBooksHolds == Spec => []SourceBooks
<1>1. KeptBooks => SourceBooks
  <2> SUFFICES ASSUME KeptBooks, NEW source \in Sources
               PROVE  /\ hub.sources[source].conns =
                           Cardinality({c \in Conns : /\ hub.conns[c].open
                                                      /\ hub.conns[c].source = source})
                      /\ hub.sources[source].rooms =
                           Cardinality({code \in OpenRooms(hub) :
                                          hub.rooms[code].source = source})
    BY DEF SourceBooks
  <2>1. {code \in OpenRooms(hub) : hub.rooms[code].source = source}
          = RoomsFrom(hub, source)
    BY NonesAssumption DEF OpenRooms, Exists, RoomsFrom
  <2> QED BY <2>1 DEF KeptBooks, Balanced, BalancedFor, OpenFrom
<1> QED BY <1>1, InitBooks, NextBooks, PTL DEF Spec

\* The transport is asked to send only on connections that were open and not
\* being closed when the step began, and never after their close.
THEOREM NothingAfterCloseHolds == Spec => NothingAfterClose
<1> DEFINE A == \A i \in DOMAIN hub'.out :
                  LET c == hub'.out[i].conn
                  IN  hub'.out[i].kind = "send" /\ c \in Conns =>
                        /\ hub.conns[c].open /\ ~hub.conns[c].closing
                        /\ \A j \in 1..(i - 1) :
                             ~(hub'.out[j].kind = "close" /\ hub'.out[j].conn = c)
<1>1. IInv /\ [Next]_vars => [A]_vars
  <2> SUFFICES ASSUME IInv, [Next]_vars, ~UNCHANGED vars PROVE A
    OBVIOUS
  <2>1. Orderly(Listening(hub), hub')
    BY NextTells DEF Tells
  <2> QED BY <2>1 DEF Orderly, Listening, Heard, IsSend, IsClose
<1> QED BY <1>1, InitIInv, NextIInv, PTL DEF Spec, NothingAfterClose

StartIsTold(h, g, code) ==
  LET seats  == g.rooms[code].seats
      starts == {i \in DOMAIN g.out : IsStart(g.out[i])}
  IN  /\ {g.out[i].conn : i \in starts} = {seats[role].conn : role \in Roles}
      /\ \A role \in Roles : /\ seats[role].conn \in Conns
                             /\ Speaks(g.conns[seats[role].conn])
      /\ Cardinality(starts) = 2
      /\ \A i \in starts : g.out[i].msg = StartOf(h.rooms[code])

\* The last two things a step that starts a run says are the starts.
LEMMA StartsOf ==
  ASSUME NEW h, NEW g, Tells(h, g), Good(g), NEW code \in Codes,
         g.rooms[code].phase = "Active", h.rooms[code].phase # "Active"
  PROVE  StartIsTold(h, g, code)
<1> DEFINE seats  == g.rooms[code].seats
           starts == {i \in DOMAIN g.out : IsStart(g.out[i])}
           terms  == StartOf(h.rooms[code])
<1>1. PICK mid : Starts(h, g, code, mid)
  <2>1. PICK x \in Codes : \E mid : Starts(h, g, x, mid)
    BY DEF Tells
  <2>2. PICK mid : Starts(h, g, x, mid)
    BY <2>1
  <2>3. x = code
    BY <2>2 DEF Starts
  <2> QED BY <2>2, <2>3
<1>2. /\ seats = mid.rooms[code].seats /\ TwoStarts(mid.rooms[code], g.out)
      /\ StartOf(mid.rooms[code]) = terms
      /\ \A role \in Roles : seats[role].connected
  BY <1>1 DEF Starts, SameTerms, MayStart
<1>3. terms.t = "start"
  BY DEF StartOf
<1>4. ASSUME NEW role \in Roles
      PROVE  seats[role].conn \in Conns /\ Speaks(g.conns[seats[role].conn])
  BY <1>2, SeatHeard
<1> DEFINE host == seats["Host"].conn
           join == seats["Join"].conn
<1>5. {seats[role].conn : role \in Roles} = {host, join}
  BY DEF Roles
<1>6. PICK n \in Nat :
        /\ DOMAIN g.out = 1..(n + 2)
        /\ \A i \in 1..n : ~IsStart(g.out[i])
        /\ g.out[n + 1] = [kind |-> "send", conn |-> host, msg |-> terms]
        /\ g.out[n + 2] = [kind |-> "send", conn |-> join, msg |-> terms]
  BY <1>2 DEF TwoStarts
<1> HIDE DEF seats, terms, host, join
<1>7. /\ IsStart(g.out[n + 1]) /\ g.out[n + 1].conn = host /\ g.out[n + 1].msg = terms
      /\ IsStart(g.out[n + 2]) /\ g.out[n + 2].conn = join /\ g.out[n + 2].msg = terms
  BY <1>3, <1>6 DEF IsStart, IsSend
<1>8. starts = {n + 1, n + 2}
  <2>1. \A i \in 1..(n + 2) : i \in 1..n \/ i = n + 1 \/ i = n + 2
    OBVIOUS
  <2>2. n + 1 \in 1..(n + 2) /\ n + 2 \in 1..(n + 2)
    OBVIOUS
  <2> QED BY <1>6, <1>7, <2>1, <2>2
<1> HIDE DEF starts
<1>9. Cardinality(starts) = 2
  <2> DEFINE i == n + 1
             j == n + 2
  <2>1. starts = {i} \cup {j} /\ j \notin {i}
    BY <1>8
  <2> HIDE DEF i, j
  <2>2. IsFiniteSet({i}) /\ Cardinality({i}) = 1
    BY FS_Singleton
  <2>3. Cardinality({i} \cup {j}) = Cardinality({i}) + 1
    BY <2>1, <2>2, FS_AddElement
  <2> QED BY <2>1, <2>2, <2>3
<1>10. {g.out[i].conn : i \in starts} = {host, join}
  BY <1>7, <1>8
<1>11. \A i \in starts : g.out[i].msg = terms
  BY <1>7, <1>8
<1> QED BY <1>4, <1>5, <1>9, <1>10, <1>11 DEF seats, starts, terms, StartIsTold

\* A run starts with one message to each player, the same for both, on the
\* socket that speaks for the seat; nobody else is told a start.
THEOREM StartReachesBothHolds == Spec => StartReachesBoth
<1> DEFINE A == \A code \in Codes :
                  LET seats  == hub'.rooms[code].seats
                      starts == {i \in DOMAIN hub'.out :
                                   /\ hub'.out[i].kind = "send"
                                   /\ hub'.out[i].msg.t = "start"}
                  IN  hub'.rooms[code].phase = "Active"
                        /\ hub.rooms[code].phase # "Active" =>
                        /\ {hub'.out[i].conn : i \in starts} =
                             {seats[role].conn : role \in Roles}
                        /\ \A role \in Roles :
                             /\ seats[role].conn \in Conns
                             /\ Speaks(hub'.conns[seats[role].conn])
                        /\ Cardinality(starts) = 2
                        /\ \A i \in starts : hub'.out[i].msg = StartOf(hub.rooms[code])
<1>1. IInv /\ [Next]_vars => [A]_vars
  <2> SUFFICES ASSUME IInv, [Next]_vars, ~UNCHANGED vars PROVE A
    OBVIOUS
  <2>1. Tells(hub, hub')
    BY NextTells
  <2>2. Good(hub')
    BY NextIInv DEF IInv
  <2>3. ASSUME NEW code \in Codes, hub'.rooms[code].phase = "Active",
               hub.rooms[code].phase # "Active"
        PROVE  StartIsTold(hub, hub', code)
    BY <2>1, <2>2, <2>3, StartsOf
  <2>4. \A i \in DOMAIN hub'.out :
          IsStart(hub'.out[i]) <=> /\ hub'.out[i].kind = "send"
                                   /\ hub'.out[i].msg.t = "start"
    BY DEF IsStart, IsSend
  <2>5. {i \in DOMAIN hub'.out : IsStart(hub'.out[i])}
          = {i \in DOMAIN hub'.out : /\ hub'.out[i].kind = "send"
                                     /\ hub'.out[i].msg.t = "start"}
    BY <2>4
  <2> QED BY <2>3, <2>5 DEF StartIsTold
<1> QED BY <1>1, InitIInv, NextIInv, PTL DEF Spec, StartReachesBoth
=============================================================================
