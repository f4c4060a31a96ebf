------------------------- MODULE CoopSession_proofs -------------------------
(***************************************************************************)
(* CoopSession for any number of connections, joiners, floors and faults:  *)
(* its type invariant, SeatOwned and FloorAgreed.                          *)
(*                                                                         *)
(* That a seat's connection and its player agree rests on the reconnect    *)
(* token: a hello with a token takes a seat over, so the token must be one *)
(* that only the seat's player ever held.  The invariant IInv follows each *)
(* token from the hello that drew it, through the welcome, the client and  *)
(* the hellos it sends on later connections, past cuts and restarts of the *)
(* relay; `drawn' says whom each token was drawn for.                      *)
(*                                                                         *)
(* That the floors agree in the end rests on what is under way before: the *)
(* invariant FInv says which floor is the last one in each queue, that a   *)
(* floor follows whatever makes a joiner wait for one, and that a run      *)
(* starts once, because its host says ready once.                          *)
(*                                                                         *)
(* The lemmas go from the fields of a relay to its helpers (Send, Bind,    *)
(* the departures), its handlers, its steps, and the clients' steps, for   *)
(* IInv first and then for FInv.                                           *)
(***************************************************************************)
EXTENDS CoopSession, WellFoundedInduction, TLAPS

(* Types *)

Nobody == "nobody"
People == Players \cup {Nobody}
Ends == Conns \cup {NoConn}

Codes == {"run_id_in_use", "server_full", "run_not_found", "run_full", "bad_msg", "bad_state",
          "role_forbidden", "kicked", "timeout"}

FloorMsgs == [t: {"floor"}, rev: Nat]

UpMsgs ==
         [t: {"hello"}, who: Players, role: Roles, token: Nat]
    \cup [t: {"bye", "kick", "ready", "run_ended"}]
    \cup FloorMsgs

DownMsgs ==
         [t: {"welcome"}, role: Roles, token: Nat, partner: People]
    \cup [t: {"partner_joined"}, who: Players]
    \cup [t: {"start"}, joiner: Players]
    \cup FloorMsgs
    \cup [t: {"partner_disconnected", "partner_rejoined", "partner_left", "run_ended"}]
    \cup [t: {"error"}, code: Codes, fatal: BOOLEAN]

Slots == [who: Players, ready: BOOLEAN, token: Nat, conn: Ends, lost: BOOLEAN, left: BOOLEAN]

Relays ==
    [live: SUBSET Conns, seat: [Conns -> Roles \cup {"none"}],
     state: {"none", "waiting", "selecting", "active"}, started: BOOLEAN,
     slots: UNION {[rs -> Slots] : rs \in SUBSET Roles},
     floor: Seq(FloorMsgs), snap: {<<>>}, issued: Nat, out: [Conns -> Seq(DownMsgs)]]

Clients ==
    [screen: {"menu", "lobby", "playing", "over"}, phase: {"off", "setup", "lobby", "active"},
     conn: Ends, token: Nat, partner: People, knocking: BOOLEAN,
     ready: BOOLEAN, started: BOOLEAN, active: BOOLEAN,
     reconnecting: BOOLEAN, awaiting: BOOLEAN, rev: Nat]

TypeOK ==
    /\ relay \in Relays
    /\ up \in [Conns -> Seq(UpMsgs)]
    /\ down \in [Conns -> Seq(DownMsgs)]
    /\ sock \in [Conns -> {"unused", "dialing", "open", "closed"}]
    /\ owner \in [Conns -> People]
    /\ cut \subseteq Conns
    /\ client \in [Players -> Clients]
    /\ faults \in Nat

(* Seats *)

\* The seats a room has in each of its states.
Shape(R) ==
    DOMAIN R.slots = CASE R.state = "none" -> {} [] R.state = "waiting" -> {"host"} [] OTHER -> Roles

\* A bound connection and the seat it is bound to name each other.
Paired(R) ==
    /\ \A c \in Conns : R.seat[c] # "none" =>
         /\ c \in R.live /\ R.seat[c] \in DOMAIN R.slots
         /\ R.slots[R.seat[c]].conn = c
    /\ \A r \in DOMAIN R.slots : R.slots[r].conn # NoConn =>
         /\ R.slots[r].conn \in R.live /\ R.seat[R.slots[r].conn] = r

\* drawn says whom each token was made for.
Made(drawn, token, p) == token \in DOMAIN drawn /\ drawn[token] = p

\* The tokens of the room and of what it sends; somebody dialled what is live.
Traced(R, drawn, own) ==
    /\ \A c \in R.live : own[c] \in Players
    /\ \A r \in DOMAIN R.slots :
         /\ Made(drawn, R.slots[r].token, R.slots[r].who)
         /\ R.slots[r].conn # NoConn => R.slots[r].who = own[R.slots[r].conn]
    /\ \A c \in Conns : \A i \in DOMAIN R.out[c] :
         R.out[c][i].t = "welcome" => Made(drawn, R.out[c][i].token, own[c])

Drawn(n) == [1..n -> Players]

Good(R, drawn, own) ==
    R \in Relays /\ Shape(R) /\ Paired(R) /\ drawn \in Drawn(R.issued) /\ Traced(R, drawn, own)

(* Sockets and clients *)

Linked ==
    /\ \A p \in Players : client[p].conn # NoConn =>
         owner[client[p].conn] = p /\ sock[client[p].conn] \in {"dialing", "open"}
    /\ \A c \in Conns : sock[c] = "unused" => up[c] = <<>> /\ down[c] = <<>>
    /\ \A c \in Conns : owner[c] \in Players => sock[c] # "unused"

\* The tokens in transit and in the clients' hands.
Tokens(drawn) ==
    /\ \A p \in Players : client[p].token # 0 => Made(drawn, client[p].token, p)
    /\ \A c \in Conns : \A i \in DOMAIN up[c] : up[c][i].t = "hello" =>
         /\ up[c][i].who = owner[c]
         /\ up[c][i].token # 0 => Made(drawn, up[c][i].token, owner[c])
    /\ \A c \in Conns : \A i \in DOMAIN down[c] :
         down[c][i].t = "welcome" => Made(drawn, down[c][i].token, owner[c])

IInv ==
    /\ TypeOK /\ Linked /\ relay.out = Silent
    /\ \E drawn \in Drawn(relay.issued) : Good(relay, drawn, owner) /\ Tokens(drawn)

-----------------------------------------------------------------------------
(* Shapes *)

SlotMaps == UNION {[rs -> Slots] : rs \in SUBSET Roles}

LEMMA ConnFacts == NoConn \notin Conns /\ Ends = Conns \cup {NoConn}
BY ConnsAssumption DEF NoConn, Ends

LEMMA SlotMapFacts ==
    ASSUME NEW m \in SlotMaps
    PROVE  /\ DOMAIN m \subseteq Roles
           /\ \A r \in DOMAIN m : m[r] \in Slots
           /\ m = [r \in DOMAIN m |-> m[r]]
BY DEF SlotMaps

LEMMA SlotMapIs ==
    ASSUME NEW rs \in SUBSET Roles, NEW m \in [rs -> Slots]
    PROVE  m \in SlotMaps
BY DEF SlotMaps

\* A seat changes.
LEMMA SlotMapChanged ==
    ASSUME NEW m \in SlotMaps, NEW r \in DOMAIN m, NEW s \in Slots
    PROVE  /\ [m EXCEPT ![r] = s] \in SlotMaps
           /\ DOMAIN [m EXCEPT ![r] = s] = DOMAIN m
           /\ [m EXCEPT ![r] = s][r] = s
           /\ \A x \in DOMAIN m \ {r} : [m EXCEPT ![r] = s][x] = m[x]
<1>1. m \in [DOMAIN m -> Slots] /\ DOMAIN m \in SUBSET Roles
  BY SlotMapFacts
<1>2. [m EXCEPT ![r] = s] \in [DOMAIN m -> Slots]
  BY <1>1
<1> QED
  BY <1>1, <1>2, SlotMapIs

LEMMA ElementIn ==
    ASSUME NEW S, NEW q \in Seq(S), NEW i \in DOMAIN q
    PROVE  q[i] \in S
OBVIOUS

\* The fields of a relay.
LEMMA RelayFields ==
    ASSUME NEW R \in Relays
    PROVE  /\ R.live \subseteq Conns /\ R.seat \in [Conns -> Roles \cup {"none"}]
           /\ R.slots \in SlotMaps /\ R.issued \in Nat /\ R.started \in BOOLEAN
           /\ R.state \in {"none", "waiting", "selecting", "active"}
           /\ R.floor \in Seq(FloorMsgs) /\ R.snap = <<>>
           /\ R.out \in [Conns -> Seq(DownMsgs)]
BY DEF Relays, SlotMaps

\* R and Q differ in what they send only.
Alike(R, Q) ==
    /\ Q.live = R.live /\ Q.seat = R.seat /\ Q.slots = R.slots /\ Q.issued = R.issued
    /\ Q.state = R.state /\ Q.started = R.started /\ Q.floor = R.floor /\ Q.snap = R.snap

-----------------------------------------------------------------------------
(* What the helpers keep *)

\* Messages without tokens, or the welcome of the one who holds the token.
Fit(msgs, c, drawn, own) ==
    /\ msgs \in Seq(DownMsgs)
    /\ \A i \in DOMAIN msgs : msgs[i].t = "welcome" =>
         c \in Conns /\ Made(drawn, msgs[i].token, own[c])

LEMMA OutReplaced ==
    ASSUME NEW R \in Relays, NEW out \in [Conns -> Seq(DownMsgs)]
    PROVE  /\ [R EXCEPT !.out = out] \in Relays /\ [R EXCEPT !.out = out].out = out
           /\ Alike(R, [R EXCEPT !.out = out])
BY DEF Relays, Alike

LEMMA SendAllGood ==
    ASSUME NEW R, NEW drawn, NEW own, NEW c \in Ends, NEW msgs,
           Good(R, drawn, own), Fit(msgs, c, drawn, own)
    PROVE  Good(SendAll(R, c, msgs), drawn, own) /\ Alike(R, SendAll(R, c, msgs))
<1> DEFINE Q == SendAll(R, c, msgs)
<1>1. R \in Relays
  BY DEF Good
<1>2. CASE c \notin R.live
  BY <1>2 DEF SendAll, Alike
<1>3. CASE c \in R.live
  <2>1. c \in Conns
    BY <1>1, <1>3, RelayFields
  <2>2. Q = [R EXCEPT !.out[c] = @ \o msgs]
    BY <1>3 DEF SendAll
  <2>3. R.out[c] \o msgs \in Seq(DownMsgs)
    BY <1>1, <2>1, RelayFields DEF Fit
  <2> DEFINE out == [R.out EXCEPT ![c] = @ \o msgs]
  <2>7. out \in [Conns -> Seq(DownMsgs)]
    BY <1>1, <2>1, <2>3, RelayFields
  <2>8. Q = [R EXCEPT !.out = out]
    BY <2>2
  <2>4. Q \in Relays /\ Alike(R, Q) /\ Q.out = [R.out EXCEPT ![c] = @ \o msgs]
    <3> HIDE DEF Q, out
    <3>1. Q \in Relays /\ Alike(R, Q) /\ Q.out = out
      BY <1>1, <2>7, <2>8, OutReplaced
    <3> QED
      BY <3>1 DEF out
  <2>5. Shape(Q) /\ Paired(Q) /\ drawn \in Drawn(Q.issued)
    BY <2>4 DEF Good, Shape, Paired, Alike
  <2>6. ASSUME NEW d \in Conns, NEW i \in DOMAIN Q.out[d], Q.out[d][i].t = "welcome"
        PROVE  Made(drawn, Q.out[d][i].token, own[d])
    <3>1. CASE d # c
      BY <1>1, <2>1, <2>4, <2>6, <3>1, RelayFields DEF Good, Traced
    <3>2. CASE d = c
      <4>1. Q.out[c] = R.out[c] \o msgs
        BY <1>1, <2>1, <2>4, RelayFields
      <4>2. R.out[c] \in Seq(DownMsgs) /\ msgs \in Seq(DownMsgs)
        BY <1>1, <2>1, RelayFields DEF Fit
      <4>3. \/ i \in DOMAIN R.out[c] /\ Q.out[c][i] = R.out[c][i]
            \/ i - Len(R.out[c]) \in DOMAIN msgs /\ Q.out[c][i] = msgs[i - Len(R.out[c])]
        BY <3>2, <4>1, <4>2
      <4> QED
        BY <2>1, <2>6, <3>2, <4>3 DEF Good, Traced, Fit
    <3> QED
      BY <3>1, <3>2
  <2> QED
    BY <2>4, <2>5, <2>6 DEF Good, Traced, Alike
<1> QED
  BY <1>2, <1>3

\* A message other than a welcome.
LEMMA SendGood ==
    ASSUME NEW R, NEW drawn, NEW own, NEW c \in Ends, NEW m \in DownMsgs, m.t # "welcome",
           Good(R, drawn, own)
    PROVE  Good(Send(R, c, m), drawn, own) /\ Alike(R, Send(R, c, m))
<1>1. Fit(<<m>>, c, drawn, own)
  BY DEF Fit
<1> QED
  BY <1>1, SendAllGood DEF Send

LEMMA SendPartnerGood ==
    ASSUME NEW R, NEW drawn, NEW own, NEW r, NEW m \in DownMsgs, m.t # "welcome",
           Good(R, drawn, own)
    PROVE  Good(SendPartner(R, r, m), drawn, own) /\ Alike(R, SendPartner(R, r, m))
<1>1. R \in Relays
  BY DEF Good
<1>2. CASE Partner(r) \in DOMAIN R.slots
  <2>1. R.slots[Partner(r)].conn \in Ends
    BY <1>1, <1>2, RelayFields, SlotMapFacts DEF Slots
  <2> QED
    BY <1>2, <2>1, SendGood DEF SendPartner
<1>3. CASE Partner(r) \notin DOMAIN R.slots
  BY <1>3 DEF SendPartner, Alike
<1> QED
  BY <1>2, <1>3

\* The messages of the relay.
LEMMA MessageFacts ==
    /\ \A t \in {"partner_disconnected", "partner_rejoined", "partner_left", "run_ended"} :
         [t |-> t] \in DownMsgs
    /\ \A p \in Players : [t |-> "partner_joined", who |-> p] \in DownMsgs
                          /\ [t |-> "start", joiner |-> p] \in DownMsgs
    /\ \A n \in Nat : [t |-> "floor", rev |-> n] \in FloorMsgs
    /\ \A code \in Codes, f \in BOOLEAN : [t |-> "error", code |-> code, fatal |-> f] \in DownMsgs
    /\ \A r \in Roles, n \in Nat, p \in People :
         [t |-> "welcome", role |-> r, token |-> n, partner |-> p] \in DownMsgs
BY DEF DownMsgs, FloorMsgs

\* The room is gone.
LEMMA CloseRoomGood ==
    ASSUME NEW R, NEW drawn, NEW own, Good(R, drawn, own)
    PROVE  Good(CloseRoom(R), drawn, own) /\ CloseRoom(R).issued = R.issued
<1> DEFINE Q == CloseRoom(R)
<1>1. R \in Relays
  BY DEF Good
<1>2. /\ Q.slots = <<>> /\ Q.state = "none" /\ Q.issued = R.issued /\ Q.out = R.out
      /\ Q.live = R.live \ {R.slots[r].conn : r \in DOMAIN R.slots}
      /\ \A c \in Conns : Q.seat[c] = IF \E r \in DOMAIN R.slots : R.slots[r].conn = c
                                        THEN "none" ELSE R.seat[c]
  BY <1>1 DEF CloseRoom, Relays
<1>3. <<>> \in SlotMaps /\ DOMAIN <<>> = {} /\ <<>> \in Seq(FloorMsgs)
  <2>1. <<>> \in [{} -> Slots]
    OBVIOUS
  <2>2. <<>> \in SlotMaps
    BY <2>1, SlotMapIs
  <2>3. DOMAIN <<>> = {}
    OBVIOUS
  <2>4. <<>> \in Seq(FloorMsgs)
    OBVIOUS
  <2> QED
    BY <2>2, <2>3, <2>4
<1>4. Q \in Relays
  BY <1>1, <1>3 DEF CloseRoom, Relays, SlotMaps
<1>5. \A c \in Conns : Q.seat[c] = "none"
  BY <1>1, <1>2 DEF Good, Paired
<1> HIDE DEF Q
<1>6. Paired(Q) /\ Shape(Q)
  BY <1>2, <1>3, <1>5 DEF Paired, Shape
<1>7. Traced(Q, drawn, own)
  BY <1>2, <1>3 DEF Good, Traced
<1> QED
  BY <1>2, <1>4, <1>6, <1>7 DEF Good, Q

LEMMA MaybeCloseRoomGood ==
    ASSUME NEW R, NEW drawn, NEW own, Good(R, drawn, own)
    PROVE  Good(MaybeCloseRoom(R), drawn, own) /\ MaybeCloseRoom(R).issued = R.issued
BY CloseRoomGood DEF MaybeCloseRoom

-----------------------------------------------------------------------------
(* Departures *)

\* The seat r is left by its connection and becomes s.
Vacated(R, r, s) == [HardClose(R, R.slots[r].conn) EXCEPT !.slots[r] = s]

LEMMA VacatedGood ==
    ASSUME NEW R, NEW drawn, NEW own, NEW r \in DOMAIN R.slots, Good(R, drawn, own),
           NEW s \in Slots, s.conn = NoConn, s.who = R.slots[r].who,
           s.token = R.slots[r].token
    PROVE  /\ Good(Vacated(R, r, s), drawn, own)
           /\ Vacated(R, r, s).issued = R.issued
           /\ DOMAIN Vacated(R, r, s).slots = DOMAIN R.slots
           /\ Vacated(R, r, s).slots[r] = s
<1> DEFINE Q == Vacated(R, r, s)
           old == R.slots[r].conn
<1>1. R \in Relays
  BY DEF Good
<1>2. R.slots \in SlotMaps /\ R.slots[r] \in Slots /\ DOMAIN R.slots \subseteq Roles
  BY <1>1, RelayFields, SlotMapFacts
<1> DEFINE slots == [R.slots EXCEPT ![r] = s]
           seat == [x \in Conns |-> IF x = old THEN "none" ELSE R.seat[x]]
<1>4. /\ slots \in SlotMaps /\ DOMAIN slots = DOMAIN R.slots /\ slots[r] = s
      /\ \A x \in DOMAIN R.slots \ {r} : slots[x] = R.slots[x]
  BY <1>2, SlotMapChanged
<1>5. seat \in [Conns -> Roles \cup {"none"}]
  BY <1>1, RelayFields
<1>6. Q = [R EXCEPT !.live = @ \ {old}, !.seat = seat, !.slots = slots]
  BY <1>1 DEF Vacated, HardClose, Relays
<1>7. /\ Q \in Relays /\ Q.slots = slots /\ Q.seat = seat /\ Q.live = R.live \ {old}
      /\ Q.issued = R.issued /\ Q.out = R.out /\ Q.state = R.state
  <2> HIDE DEF seat, slots, Q
  <2> QED
    BY <1>1, <1>4, <1>5, <1>6 DEF Relays, SlotMaps
<1>8. \A c \in Conns : seat[c] = IF c = old THEN "none" ELSE R.seat[c]
  OBVIOUS
<1> HIDE DEF Q, seat, slots
<1>9. Paired(Q)
  <2>1. ASSUME NEW c \in Conns, Q.seat[c] # "none"
        PROVE  c \in Q.live /\ Q.seat[c] \in DOMAIN Q.slots /\ Q.slots[Q.seat[c]].conn = c
    <3>1. c # old /\ Q.seat[c] = R.seat[c]
      BY <1>7, <1>8, <2>1
    <3>2. c \in R.live /\ R.seat[c] \in DOMAIN R.slots /\ R.slots[R.seat[c]].conn = c
      BY <2>1, <3>1 DEF Good, Paired
    <3> QED
      BY <1>4, <1>7, <3>1, <3>2
  <2>2. ASSUME NEW x \in DOMAIN Q.slots, Q.slots[x].conn # NoConn
        PROVE  Q.slots[x].conn \in Q.live /\ Q.seat[Q.slots[x].conn] = x
    <3>1. x # r /\ x \in DOMAIN R.slots /\ Q.slots[x] = R.slots[x]
      BY <1>4, <1>7, <2>2
    <3>2. R.slots[x].conn \in R.live /\ R.seat[R.slots[x].conn] = x
      BY <2>2, <3>1 DEF Good, Paired
    <3>3. old # NoConn => R.seat[old] = r
      BY DEF Good, Paired
    <3>4. R.slots[x].conn # old
      BY <2>2, <3>1, <3>2, <3>3
    <3> QED
      BY <1>1, <1>7, <1>8, <3>1, <3>2, <3>4, RelayFields
  <2> QED
    BY <2>1, <2>2 DEF Paired
<1>10. Traced(Q, drawn, own)
  <2>1. ASSUME NEW x \in DOMAIN Q.slots
        PROVE  /\ Made(drawn, Q.slots[x].token, Q.slots[x].who)
               /\ Q.slots[x].conn # NoConn => Q.slots[x].who = own[Q.slots[x].conn]
    <3>1. x \in DOMAIN R.slots
      BY <1>4, <1>7
    <3> QED
      BY <1>4, <1>7, <3>1 DEF Good, Traced
  <2> QED
    BY <1>7, <2>1 DEF Good, Traced
<1>11. Shape(Q)
  BY <1>4, <1>7 DEF Good, Shape
<1> QED
  BY <1>4, <1>7, <1>9, <1>10, <1>11 DEF Good, Q

\* A joiner that never started frees its seat.
LEMMA FreedGood ==
    ASSUME NEW R, NEW drawn, NEW own, Good(R, drawn, own), "join" \in DOMAIN R.slots,
           R.slots["join"].conn = NoConn
    PROVE  LET Q == [R EXCEPT !.slots = [x \in DOMAIN @ \ {"join"} |-> @[x]],
                              !.state = "waiting"]
           IN  Good(Q, drawn, own) /\ Q.issued = R.issued
<1> DEFINE slots == [x \in DOMAIN R.slots \ {"join"} |-> R.slots[x]]
           Q == [R EXCEPT !.slots = slots, !.state = "waiting"]
<1>1. R \in Relays /\ R.slots \in SlotMaps
  BY RelayFields DEF Good
<1>2. slots \in SlotMaps
  <2>1. DOMAIN R.slots \ {"join"} \in SUBSET Roles
    BY <1>1, SlotMapFacts
  <2>2. slots \in [DOMAIN R.slots \ {"join"} -> Slots]
    BY <1>1, SlotMapFacts
  <2> QED
    BY <2>1, <2>2, SlotMapIs
<1>3. /\ DOMAIN slots = DOMAIN R.slots \ {"join"}
      /\ \A x \in DOMAIN slots : slots[x] = R.slots[x]
  OBVIOUS
<1> HIDE DEF slots
<1>4. /\ Q \in Relays /\ Q.slots = slots /\ Q.seat = R.seat /\ Q.live = R.live
      /\ Q.issued = R.issued /\ Q.out = R.out /\ Q.state = "waiting"
  BY <1>1, <1>2 DEF Relays, SlotMaps
<1>5. Paired(Q)
  <2>1. ASSUME NEW c \in Conns, Q.seat[c] # "none"
        PROVE  c \in Q.live /\ Q.seat[c] \in DOMAIN Q.slots /\ Q.slots[Q.seat[c]].conn = c
    <3>1. c \in R.live /\ R.seat[c] \in DOMAIN R.slots /\ R.slots[R.seat[c]].conn = c
      BY <1>4, <2>1 DEF Good, Paired
    <3> QED
      BY <1>3, <1>4, <3>1, ConnFacts
  <2> QED
    BY <1>3, <1>4, <2>1 DEF Good, Paired
<1>6. Traced(Q, drawn, own)
  BY <1>3, <1>4 DEF Good, Traced
<1>7. Shape(Q)
  BY <1>3, <1>4 DEF Good, Shape, Roles
<1> QED
  BY <1>4, <1>5, <1>6, <1>7 DEF Good, slots

\* A seat is given up for good, by bye, kick, grace or a fatal error.
LEMMA FinalizeSlotDepartureGood ==
    ASSUME NEW R, NEW drawn, NEW own, NEW r \in DOMAIN R.slots, Good(R, drawn, own)
    PROVE  /\ Good(FinalizeSlotDeparture(R, r), drawn, own)
           /\ FinalizeSlotDeparture(R, r).issued = R.issued
<1> DEFINE s == [R.slots[r] EXCEPT !.left = TRUE, !.lost = FALSE, !.conn = NoConn]
           gone == Vacated(R, r, s)
           told == IF R.slots[r].left THEN gone
                                      ELSE SendPartner(gone, r, [t |-> "partner_left"])
<1>8. s \in Slots /\ s.conn = NoConn /\ s.who = R.slots[r].who /\ s.token = R.slots[r].token
  <2>1. R \in Relays
    BY DEF Good
  <2>2. R.slots[r] \in Slots
    BY <2>1, RelayFields, SlotMapFacts
  <2> QED
    BY <2>2 DEF Slots, Ends
<1>4. FinalizeSlotDeparture(R, r) =
        CASE r = "host" -> CloseRoom(told)
          [] r = "join" /\ ~R.started ->
               MaybeCloseRoom([told EXCEPT
                  !.slots = [x \in DOMAIN @ \ {"join"} |-> @[x]], !.state = "waiting"])
          [] OTHER -> MaybeCloseRoom(told)
  BY DEF FinalizeSlotDeparture, Vacated
<1> HIDE DEF s
<1>1. Good(gone, drawn, own) /\ gone.issued = R.issued /\ DOMAIN gone.slots = DOMAIN R.slots
  BY <1>8, VacatedGood
<1>2. gone.slots[r].conn = NoConn
  <2>1. gone.slots[r] = s
    BY ZenonT(30), <1>8, VacatedGood
  <2> QED
    BY <1>8, <2>1
<1> HIDE DEF gone
<1>3. Good(told, drawn, own) /\ Alike(gone, told)
  <2>1. [t |-> "partner_left"] \in DownMsgs /\ [t |-> "partner_left"].t # "welcome"
    BY MessageFacts
  <2>2. CASE R.slots[r].left
    BY <1>1, <2>2 DEF Alike
  <2>3. CASE ~R.slots[r].left
    <3>1. told = SendPartner(gone, r, [t |-> "partner_left"])
      BY <2>3
    <3> QED
      BY <1>1, <2>1, <3>1, SendPartnerGood
  <2> QED
    BY <2>2, <2>3
<1> HIDE DEF told
<1>5. CASE r = "host"
  BY <1>1, <1>3, <1>4, <1>5, CloseRoomGood DEF Alike
<1>6. CASE r = "join" /\ ~R.started
  <2> DEFINE Q == [told EXCEPT !.slots = [x \in DOMAIN @ \ {"join"} |-> @[x]],
                               !.state = "waiting"]
  <2>1. Good(Q, drawn, own) /\ Q.issued = told.issued
    BY <1>1, <1>2, <1>3, <1>6, FreedGood DEF Alike
  <2>2. FinalizeSlotDeparture(R, r) = MaybeCloseRoom(Q)
    BY <1>4, <1>6
  <2> HIDE DEF Q
  <2> QED
    BY <1>1, <1>3, <2>1, <2>2, MaybeCloseRoomGood DEF Alike
<1>7. CASE r # "host" /\ ~(r = "join" /\ ~R.started)
  BY <1>1, <1>3, <1>4, <1>7, MaybeCloseRoomGood DEF Alike
<1> QED
  BY <1>5, <1>6, <1>7

\* A connection without a seat is closed.
LEMMA HardCloseGood ==
    ASSUME NEW R, NEW drawn, NEW own, NEW c \in Conns, Good(R, drawn, own), R.seat[c] = "none"
    PROVE  Good(HardClose(R, c), drawn, own) /\ HardClose(R, c).issued = R.issued
<1> DEFINE Q == HardClose(R, c)
<1>1. R \in Relays
  BY DEF Good
<1>2. /\ Q.live = R.live \ {c} /\ Q.seat = R.seat /\ Q.slots = R.slots /\ Q.issued = R.issued
      /\ Q.out = R.out /\ Q.state = R.state /\ Q \in Relays
  <2>1. [x \in Conns |-> IF x = c THEN "none" ELSE R.seat[x]] = R.seat
    BY <1>1, RelayFields
  <2>2. Q = [R EXCEPT !.live = @ \ {c}]
    BY <1>1, <2>1 DEF HardClose, Relays
  <2> HIDE DEF Q
  <2> QED
    BY <1>1, <2>2 DEF Relays
<1> HIDE DEF Q
<1>3. Paired(Q)
  <2>1. "none" \notin DOMAIN R.slots
    BY <1>1, RelayFields, SlotMapFacts DEF Roles
  <2> QED
    BY <1>2, <2>1 DEF Good, Paired
<1> QED
  BY <1>2, <1>3 DEF Good, Traced, Shape, Q

LEMMA FatalGood ==
    ASSUME NEW R, NEW drawn, NEW own, NEW c \in Conns, NEW code \in Codes, Good(R, drawn, own)
    PROVE  Good(Fatal(R, c, code), drawn, own) /\ Fatal(R, c, code).issued = R.issued
<1> DEFINE said == Send(R, c, [t |-> "error", code |-> code, fatal |-> TRUE])
<1>1. [t |-> "error", code |-> code, fatal |-> TRUE] \in DownMsgs
  BY MessageFacts
<1>2. Good(said, drawn, own) /\ Alike(R, said)
  BY <1>1, SendGood, ConnFacts
<1> HIDE DEF said
<1>3. CASE R.seat[c] = "none"
  <2>1. R.seat[c] \notin DOMAIN R.slots
    BY <1>3, RelayFields, SlotMapFacts DEF Good, Roles
  <2>2. Fatal(R, c, code) = HardClose(said, c)
    BY <2>1 DEF Fatal, said
  <2> QED
    BY <1>2, <1>3, <2>2, HardCloseGood DEF Alike
<1>4. CASE R.seat[c] # "none"
  <2>1. R.seat[c] \in DOMAIN R.slots /\ R.slots[R.seat[c]].conn = c
    BY <1>4 DEF Good, Paired
  <2>2. Fatal(R, c, code) = FinalizeSlotDeparture(said, R.seat[c])
    BY <2>1 DEF Fatal, said
  <2> QED
    BY <1>2, <2>1, <2>2, FinalizeSlotDepartureGood DEF Alike
<1> QED
  BY <1>3, <1>4

-----------------------------------------------------------------------------
(* Bindings *)

\* All is well but for the seat r, which c may take.
Ready(R, c, r, drawn, own) ==
    /\ R \in Relays /\ Shape(R) /\ drawn \in Drawn(R.issued)
    /\ c \in R.live /\ R.seat[c] = "none" /\ \A d \in R.live : own[d] \in Players
    /\ r \in DOMAIN R.slots /\ R.slots[r].who = own[c]
    /\ \A d \in Conns : R.seat[d] # "none" =>
         /\ d \in R.live /\ R.seat[d] \in DOMAIN R.slots \ {r}
         /\ R.slots[R.seat[d]].conn = d
    /\ \A x \in DOMAIN R.slots \ {r} : R.slots[x].conn # NoConn =>
         /\ R.slots[x].conn \in R.live /\ R.seat[R.slots[x].conn] = x
         /\ R.slots[x].who = own[R.slots[x].conn]
    /\ \A x \in DOMAIN R.slots : Made(drawn, R.slots[x].token, R.slots[x].who)
    /\ \A d \in Conns : \A i \in DOMAIN R.out[d] :
         R.out[d][i].t = "welcome" => Made(drawn, R.out[d][i].token, own[d])

\* A hello is answered: c takes the seat and is welcomed with its token.
LEMMA BindGood ==
    ASSUME NEW R, NEW drawn, NEW own, NEW c, NEW r, Ready(R, c, r, drawn, own)
    PROVE  /\ Good(Bind(R, c, r), drawn, own) /\ Bind(R, c, r).issued = R.issued
           /\ Bind(R, c, r).floor = R.floor /\ Bind(R, c, r).snap = R.snap
<1> DEFINE s == [R.slots[r] EXCEPT !.conn = c, !.lost = FALSE]
           slots == [R.slots EXCEPT ![r] = s]
           seat == [R.seat EXCEPT ![c] = r]
           Q == [R EXCEPT !.seat = seat, !.slots = slots]
           p == Partner(r)
           partner == IF p \in Occupied(R) THEN R.slots[p].who ELSE "nobody"
           m == [t |-> "welcome", role |-> r, token |-> R.slots[r].token, partner |-> partner]
<1>1. /\ R \in Relays /\ R.slots \in SlotMaps /\ R.slots[r] \in Slots
      /\ DOMAIN R.slots \subseteq Roles /\ r \in DOMAIN R.slots
      /\ c \in Conns /\ R.seat \in [Conns -> Roles \cup {"none"}]
  BY RelayFields, SlotMapFacts DEF Ready
<1>2. /\ s \in Slots /\ s.conn = c /\ s.who = R.slots[r].who /\ s.token = R.slots[r].token
  BY <1>1 DEF Slots, Ends
<1>3. Bind(R, c, r) = Send(Q, c, m)
  <2>1. [R EXCEPT !.seat[c] = r, !.slots[r].conn = c, !.slots[r].lost = FALSE] = Q
    <3>1. [[R.slots EXCEPT ![r].conn = c] EXCEPT ![r].lost = FALSE] = slots
      BY <1>1, SlotMapFacts DEF Slots
    <3> HIDE DEF slots
    <3> QED
      BY <1>1, <3>1 DEF Relays
  <2> HIDE DEF Q
  <2> QED
    BY <2>1 DEF Bind
<1>4. m \in DownMsgs
  <2>1. partner \in People
    BY <1>1, SlotMapFacts DEF Occupied, People, Nobody, Slots
  <2>2. R.slots[r].token \in Nat /\ r \in Roles
    BY <1>1 DEF Slots
  <2> HIDE DEF partner
  <2> QED
    BY <2>1, <2>2, MessageFacts
<1>5. /\ slots \in SlotMaps /\ DOMAIN slots = DOMAIN R.slots /\ slots[r] = s
      /\ \A x \in DOMAIN R.slots \ {r} : slots[x] = R.slots[x]
  BY <1>1, <1>2, SlotMapChanged
<1>6. /\ seat \in [Conns -> Roles \cup {"none"}] /\ seat[c] = r
      /\ \A d \in Conns \ {c} : seat[d] = R.seat[d]
  BY <1>1
<1>10. m.t = "welcome" /\ m.token = R.slots[r].token
  OBVIOUS
<1> HIDE DEF s, slots, seat, m
<1>7. /\ Q \in Relays /\ Q.slots = slots /\ Q.seat = seat /\ Q.live = R.live
      /\ Q.issued = R.issued /\ Q.out = R.out /\ Q.floor = R.floor /\ Q.snap = R.snap
      /\ Q.state = R.state
  BY <1>1, <1>5, <1>6 DEF Relays, SlotMaps
<1> HIDE DEF Q
<1>8. Paired(Q)
  <2>1. ASSUME NEW d \in Conns, Q.seat[d] # "none"
        PROVE  d \in Q.live /\ Q.seat[d] \in DOMAIN Q.slots /\ Q.slots[Q.seat[d]].conn = d
    <3>1. CASE d = c
      BY <1>2, <1>5, <1>6, <1>7, <3>1, <1>1 DEF Ready
    <3>2. CASE d # c
      BY <1>5, <1>6, <1>7, <2>1, <3>2 DEF Ready
    <3> QED
      BY <3>1, <3>2
  <2>2. ASSUME NEW x \in DOMAIN Q.slots, Q.slots[x].conn # NoConn
        PROVE  Q.slots[x].conn \in Q.live /\ Q.seat[Q.slots[x].conn] = x
    <3>1. CASE x = r
      BY <1>2, <1>5, <1>6, <1>7, <3>1 DEF Ready
    <3>2. CASE x # r
      <4>1. Q.slots[x] = R.slots[x] /\ x \in DOMAIN R.slots \ {r}
        BY <1>5, <1>7, <3>2
      <4>2. R.slots[x].conn \in R.live /\ R.seat[R.slots[x].conn] = x
        BY <2>2, <4>1 DEF Ready
      <4>3. R.slots[x].conn \in Conns \ {c}
        BY <1>1, <4>1, <4>2, RelayFields DEF Ready, Roles
      <4> QED
        BY <1>6, <1>7, <4>1, <4>2, <4>3
    <3> QED
      BY <3>1, <3>2
  <2> QED
    BY <2>1, <2>2 DEF Paired
<1>9. Traced(Q, drawn, own) /\ drawn \in Drawn(Q.issued)
  <2>1. ASSUME NEW x \in DOMAIN Q.slots
        PROVE  /\ Made(drawn, Q.slots[x].token, Q.slots[x].who)
               /\ Q.slots[x].conn # NoConn => Q.slots[x].who = own[Q.slots[x].conn]
    <3>1. x \in DOMAIN R.slots
      BY <1>5, <1>7
    <3>2. CASE x = r
      BY <1>2, <1>5, <1>7, <3>1, <3>2 DEF Ready
    <3>3. CASE x # r
      BY <1>5, <1>7, <3>1, <3>3 DEF Ready
    <3> QED
      BY <3>2, <3>3
  <2> QED
    BY <1>7, <2>1 DEF Ready, Traced
<1>11. Good(Q, drawn, own)
  BY <1>5, <1>7, <1>8, <1>9 DEF Good, Ready, Shape
<1>12. Fit(<<m>>, c, drawn, own)
  <2>1. Made(drawn, m.token, own[c])
    BY <1>10 DEF Ready
  <2> QED
    BY <1>1, <1>4, <2>1 DEF Fit
<1>13. Good(SendAll(Q, c, <<m>>), drawn, own) /\ Alike(Q, SendAll(Q, c, <<m>>))
  BY <1>1, <1>11, <1>12, SendAllGood, ConnFacts
<1> QED
  BY <1>3, <1>7, <1>13 DEF Send, Alike

-----------------------------------------------------------------------------
(* hello *)

\* Whoever a token was made for, it is made for still.
Grown(drawn, more) == \A t \in DOMAIN drawn : t \in DOMAIN more /\ more[t] = drawn[t]

\* A token more.
LEMMA DrawnGrows ==
    ASSUME NEW n \in Nat, NEW drawn \in Drawn(n), NEW who \in Players
    PROVE  \E more \in Drawn(n + 1) : Grown(drawn, more) /\ Made(more, n + 1, who)
<1> DEFINE more == [i \in 1..(n + 1) |-> IF i = n + 1 THEN who ELSE drawn[i]]
<1>1. more \in Drawn(n + 1)
  BY DEF Drawn
<1>2. Grown(drawn, more)
  BY DEF Drawn, Grown
<1>3. Made(more, n + 1, who)
  BY DEF Made
<1> QED
  BY <1>1, <1>2, <1>3

\* A token drawn for somebody stays theirs.
LEMMA GrownKeeps ==
    ASSUME NEW drawn, NEW more, Grown(drawn, more)
    PROVE  \A t, p : Made(drawn, t, p) => Made(more, t, p)
BY DEF Grown, Made

\* A handler has turned R into Q.
Handled(Q, drawn, own) == \E more \in Drawn(Q.issued) : Grown(drawn, more) /\ Good(Q, more, own)

LEMMA GoodHandled ==
    ASSUME NEW R, NEW Q, NEW drawn \in Drawn(R.issued), NEW own, Good(Q, drawn, own),
           Q.issued = R.issued
    PROVE  Handled(Q, drawn, own)
BY DEF Handled, Grown

\* The holder of the token takes the seat over from a socket that is still bound.
LEMMA ReclaimGood ==
    ASSUME NEW R, NEW drawn, NEW own, NEW c \in R.live, NEW r \in DOMAIN R.slots,
           Good(R, drawn, own), R.seat[c] = "none", R.slots[r].who = own[c]
    PROVE  Good(Reclaim(R, c, r), drawn, own) /\ Reclaim(R, c, r).issued = R.issued
<1> DEFINE old == R.slots[r].conn
           Q == HardClose(R, old)
           bound == Bind(Q, c, r)
           told == SendPartner(bound, r, [t |-> "partner_rejoined"])
<1>1. /\ R \in Relays /\ c \in Conns /\ DOMAIN R.slots \subseteq Roles
      /\ R.seat \in [Conns -> Roles \cup {"none"}]
  BY RelayFields, SlotMapFacts DEF Good
<1>2. /\ Q.live = R.live \ {old} /\ Q.slots = R.slots /\ Q.issued = R.issued
      /\ Q.out = R.out /\ Q.floor = R.floor /\ Q.snap = R.snap /\ Q.state = R.state
      /\ \A d \in Conns : Q.seat[d] = IF d = old THEN "none" ELSE R.seat[d]
  BY <1>1 DEF HardClose, Relays
<1>3. Q \in Relays
  BY <1>1 DEF HardClose, Relays
<1> HIDE DEF Q
<1>4. old # NoConn => R.seat[old] = r /\ old \in R.live
  BY DEF Good, Paired
<1>5. c # old
  BY <1>1, <1>4, ConnFacts DEF Roles
<1>6. Ready(Q, c, r, drawn, own)
  <2>1. ASSUME NEW d \in Conns, Q.seat[d] # "none"
        PROVE  /\ d \in Q.live /\ Q.seat[d] \in DOMAIN Q.slots \ {r}
               /\ Q.slots[Q.seat[d]].conn = d
    <3>1. d # old /\ Q.seat[d] = R.seat[d]
      BY <1>2, <2>1
    <3>2. d \in R.live /\ R.seat[d] \in DOMAIN R.slots /\ R.slots[R.seat[d]].conn = d
      BY <2>1, <3>1 DEF Good, Paired
    <3> QED
      BY <1>2, <3>1, <3>2
  <2>2. ASSUME NEW x \in DOMAIN Q.slots \ {r}, Q.slots[x].conn # NoConn
        PROVE  /\ Q.slots[x].conn \in Q.live /\ Q.seat[Q.slots[x].conn] = x
               /\ Q.slots[x].who = own[Q.slots[x].conn]
    <3>1. R.slots[x].conn \in R.live /\ R.seat[R.slots[x].conn] = x
      BY <1>2, <2>2 DEF Good, Paired
    <3>2. R.slots[x].conn # old
      BY <1>4, <3>1, <2>2, <1>2
    <3> QED
      BY <1>1, <1>2, <2>2, <3>1, <3>2, RelayFields DEF Good, Traced
  <2> QED
    BY <1>1, <1>2, <1>3, <1>5, <2>1, <2>2 DEF Ready, Good, Traced, Shape
<1>7. Good(bound, drawn, own) /\ bound.issued = R.issued
  BY <1>2, <1>6, BindGood
<1> HIDE DEF bound
<1>8. Good(told, drawn, own) /\ told.issued = R.issued
  <2>1. [t |-> "partner_rejoined"] \in DownMsgs /\ [t |-> "partner_rejoined"].t # "welcome"
    BY MessageFacts
  <2> QED
    BY <1>7, <2>1, SendPartnerGood DEF Alike
<1>9. Fit(R.floor \o R.snap, c, drawn, own)
  <2>1. R.floor \in Seq(FloorMsgs) /\ R.snap \in Seq(FloorMsgs)
    <3>1. <<>> \in Seq(FloorMsgs)
      OBVIOUS
    <3> QED
      BY <1>1, <3>1, RelayFields
  <2>3. R.floor \o R.snap \in Seq(FloorMsgs)
    BY <2>1
  <2>4. \A i \in DOMAIN (R.floor \o R.snap) : (R.floor \o R.snap)[i] \in FloorMsgs
    BY <2>3, ElementIn
  <2>2. FloorMsgs \subseteq DownMsgs /\ \A m \in FloorMsgs : m.t # "welcome"
    BY DEF DownMsgs, FloorMsgs
  <2>5. R.floor \o R.snap \in Seq(DownMsgs)
    BY <2>2, <2>3
  <2> QED
    BY <2>2, <2>4, <2>5 DEF Fit
<1>10. Reclaim(R, c, r) = IF r = "join" /\ R.started THEN SendAll(told, c, R.floor \o R.snap)
                                                     ELSE told
  BY <1>2 DEF Reclaim, Q, bound
<1> HIDE DEF told
<1>11. Good(SendAll(told, c, R.floor \o R.snap), drawn, own)
       /\ SendAll(told, c, R.floor \o R.snap).issued = R.issued
  BY <1>1, <1>8, <1>9, SendAllGood, ConnFacts DEF Alike
<1> QED
  BY <1>8, <1>10, <1>11

LEMMA NewSlotIs ==
    ASSUME NEW who \in Players, NEW token \in Nat
    PROVE  /\ NewSlot(who, token) \in Slots /\ NewSlot(who, token).conn = NoConn
           /\ NewSlot(who, token).who = who /\ NewSlot(who, token).token = token
BY DEF NewSlot, Slots, Ends

\* A room with a host.
LEMMA CreateRoomGood ==
    ASSUME NEW R, NEW drawn, NEW own, NEW c \in R.live, Good(R, drawn, own),
           R.seat[c] = "none", R.state = "none", own[c] \in Players
    PROVE  Handled(CreateRoom(R, c, own[c]), drawn, own)
<1> DEFINE s == NewSlot(own[c], R.issued + 1)
           slots == [r \in {"host"} |-> s]
           Q == [R EXCEPT !.state = "waiting", !.issued = @ + 1, !.slots = slots]
<1>1. R \in Relays /\ R.issued \in Nat /\ DOMAIN R.slots = {} /\ drawn \in Drawn(R.issued)
  BY RelayFields DEF Good, Shape
<1>2. PICK more \in Drawn(R.issued + 1) : Grown(drawn, more) /\ Made(more, R.issued + 1, own[c])
  BY <1>1, DrawnGrows
<1>3. /\ s \in Slots /\ s.conn = NoConn /\ s.who = own[c] /\ s.token = R.issued + 1
  BY <1>1, NewSlotIs
<1> HIDE DEF s
<1>4. slots \in SlotMaps /\ DOMAIN slots = {"host"} /\ slots["host"] = s
  <2>1. slots \in [{"host"} -> Slots]
    BY <1>3
  <2> QED
    BY <2>1, SlotMapIs DEF Roles
<1> HIDE DEF slots
<1>5. /\ Q \in Relays /\ Q.slots = slots /\ Q.seat = R.seat /\ Q.live = R.live
      /\ Q.issued = R.issued + 1 /\ Q.out = R.out /\ Q.state = "waiting"
  <2> DEFINE n == R.issued + 1
  <2>1. n \in Nat
    BY <1>1
  <2> HIDE DEF n
  <2>2. [R EXCEPT !.state = "waiting", !.issued = n, !.slots = slots] = Q
    BY DEF n
  <2> HIDE DEF Q
  <2>3. /\ Q \in Relays /\ Q.slots = slots /\ Q.seat = R.seat /\ Q.live = R.live
        /\ Q.issued = n /\ Q.out = R.out /\ Q.state = "waiting"
    BY <1>1, <1>4, <2>1, <2>2 DEF Relays, SlotMaps
  <2> QED
    BY <2>3 DEF n
<1> HIDE DEF Q
<1>6. Ready(Q, c, "host", more, own)
  <2>3. \A d \in Q.live : own[d] \in Players
    BY <1>5 DEF Good, Traced
  <2>1. \A d \in Conns : Q.seat[d] = "none"
    BY <1>1, <1>5 DEF Good, Paired
  <2>2. \A d \in Conns : \A i \in DOMAIN Q.out[d] :
          Q.out[d][i].t = "welcome" => Made(more, Q.out[d][i].token, own[d])
    BY <1>2, <1>5, GrownKeeps DEF Good, Traced
  <2> QED
    BY <1>1, <1>2, <1>3, <1>4, <1>5, <2>1, <2>2, <2>3, RelayFields DEF Ready, Shape
<1>7. CreateRoom(R, c, own[c]) = Bind(Q, c, "host")
  BY DEF CreateRoom, Q, slots, s
<1> QED
  BY <1>2, <1>5, <1>6, <1>7, BindGood DEF Handled

\* A joiner's seat.
LEMMA JoinRoomGood ==
    ASSUME NEW R, NEW drawn, NEW own, NEW c \in R.live, Good(R, drawn, own),
           R.seat[c] = "none", R.state = "waiting", own[c] \in Players
    PROVE  Handled(JoinRoom(R, c, own[c]), drawn, own)
<1> DEFINE s == NewSlot(own[c], R.issued + 1)
           slots == [r \in Roles |-> IF r = "join" THEN s ELSE R.slots[r]]
           Q == [R EXCEPT !.state = "selecting", !.issued = @ + 1, !.slots = slots]
           bound == Bind(Q, c, "join")
<1>1. /\ R \in Relays /\ R.issued \in Nat /\ DOMAIN R.slots = {"host"}
      /\ R.slots["host"] \in Slots /\ drawn \in Drawn(R.issued)
  BY RelayFields, SlotMapFacts DEF Good, Shape
<1>2. PICK more \in Drawn(R.issued + 1) : Grown(drawn, more) /\ Made(more, R.issued + 1, own[c])
  BY <1>1, DrawnGrows
<1>3. /\ s \in Slots /\ s.conn = NoConn /\ s.who = own[c] /\ s.token = R.issued + 1
  BY <1>1, NewSlotIs
<1> HIDE DEF s
<1>4. /\ slots \in SlotMaps /\ DOMAIN slots = Roles /\ slots["join"] = s
      /\ slots["host"] = R.slots["host"]
  <2>1. slots \in [Roles -> Slots]
    BY <1>1, <1>3 DEF Roles
  <2>2. slots \in SlotMaps
    BY <2>1, SlotMapIs
  <2> QED
    BY <2>2 DEF Roles
<1> HIDE DEF slots
<1>5. /\ Q \in Relays /\ Q.slots = slots /\ Q.seat = R.seat /\ Q.live = R.live
      /\ Q.issued = R.issued + 1 /\ Q.out = R.out /\ Q.state = "selecting"
  <2> DEFINE n == R.issued + 1
  <2>1. n \in Nat
    BY <1>1
  <2> HIDE DEF n
  <2>2. [R EXCEPT !.state = "selecting", !.issued = n, !.slots = slots] = Q
    BY DEF n
  <2> HIDE DEF Q
  <2>3. /\ Q \in Relays /\ Q.slots = slots /\ Q.seat = R.seat /\ Q.live = R.live
        /\ Q.issued = n /\ Q.out = R.out /\ Q.state = "selecting"
    BY <1>1, <1>4, <2>1, <2>2 DEF Relays, SlotMaps
  <2> QED
    BY <2>3 DEF n
<1> HIDE DEF Q
<1>6. Ready(Q, c, "join", more, own)
  <2>1. \A d \in Conns : R.seat[d] # "none" =>
          d \in R.live /\ R.seat[d] = "host" /\ R.slots["host"].conn = d
    BY <1>1 DEF Good, Paired
  <2>2. \A d \in Conns : \A i \in DOMAIN Q.out[d] :
          Q.out[d][i].t = "welcome" => Made(more, Q.out[d][i].token, own[d])
    BY <1>2, <1>5, GrownKeeps DEF Good, Traced
  <2>5. \A d \in Q.live : own[d] \in Players
    BY <1>5 DEF Good, Traced
  <2>3. /\ Made(more, slots["host"].token, slots["host"].who)
        /\ Made(more, slots["join"].token, slots["join"].who)
    BY <1>1, <1>2, <1>3, <1>4, GrownKeeps DEF Good, Traced
  <2>4. R.slots["host"].conn # NoConn =>
          /\ R.slots["host"].conn \in R.live /\ R.seat[R.slots["host"].conn] = "host"
          /\ R.slots["host"].who = own[R.slots["host"].conn]
    BY <1>1 DEF Good, Paired, Traced
  <2> QED
    BY <1>1, <1>2, <1>3, <1>4, <1>5, <2>1, <2>2, <2>3, <2>4, <2>5 DEF Ready, Shape, Roles
<1>7. Good(bound, more, own) /\ bound.issued = R.issued + 1
  BY <1>5, <1>6, BindGood
<1>8. JoinRoom(R, c, own[c]) =
        SendPartner(bound, "join", [t |-> "partner_joined", who |-> own[c]])
  BY DEF JoinRoom, Q, slots, s
<1> HIDE DEF bound
<1>9. [t |-> "partner_joined", who |-> own[c]] \in DownMsgs
  BY MessageFacts
<1>10. /\ Good(JoinRoom(R, c, own[c]), more, own)
       /\ JoinRoom(R, c, own[c]).issued = R.issued + 1
  BY <1>7, <1>8, <1>9, SendPartnerGood DEF Alike
<1> QED
  BY <1>2, <1>10 DEF Handled

\* The hello of the player who dialled c, with no token or one drawn for them.
LEMMA HandleHelloGood ==
    ASSUME NEW R, NEW drawn, NEW own, NEW c \in R.live, NEW m, Good(R, drawn, own),
           R.seat[c] = "none", own[c] \in Players, m.who = own[c],
           m.token # 0 => Made(drawn, m.token, own[c])
    PROVE  Handled(HandleHello(R, c, m), drawn, own)
<1> DEFINE mine == Claimed(R, m.token)
<1>0. c \in Conns /\ drawn \in Drawn(R.issued)
  BY RelayFields DEF Good
<1>1. CASE mine # {}
  <2> DEFINE r == CHOOSE x \in mine : TRUE
  <2>1. r \in mine
    BY <1>1
  <2>2. HandleHello(R, c, m) = Reclaim(R, c, r)
    BY <1>1 DEF HandleHello
  <2> HIDE DEF r
  <2>3. r \in DOMAIN R.slots /\ R.slots[r].token = m.token /\ m.token # 0
    BY <2>1 DEF Claimed
  <2>4. R.slots[r].who = own[c]
    BY <2>3 DEF Good, Traced, Made
  <2> QED
    BY <1>0, <2>2, <2>3, <2>4, ReclaimGood, GoodHandled
<1>2. \A code \in Codes : Handled(Fatal(R, c, code), drawn, own)
  BY <1>0, FatalGood, GoodHandled
<1>3. CASE mine = {} /\ m.role = "host"
  <2>1. CASE R.state # "none"
    <3>1. HandleHello(R, c, m) = Fatal(R, c, "run_id_in_use")
      BY <1>3, <2>1 DEF HandleHello
    <3> QED
      BY <1>2, <3>1 DEF Codes
  <2>2. CASE R.state = "none" /\ MaxRooms = 0
    <3>1. HandleHello(R, c, m) = Fatal(R, c, "server_full")
      BY <1>3, <2>2 DEF HandleHello
    <3> QED
      BY <1>2, <3>1 DEF Codes
  <2>3. CASE R.state = "none" /\ MaxRooms # 0
    <3>1. HandleHello(R, c, m) = CreateRoom(R, c, own[c])
      BY <1>3, <2>3 DEF HandleHello
    <3> QED
      BY <2>3, <3>1, CreateRoomGood
  <2> QED
    BY <2>1, <2>2, <2>3
<1>4. CASE mine = {} /\ m.role # "host"
  <2>1. CASE R.state = "none"
    <3>1. HandleHello(R, c, m) = Fatal(R, c, "run_not_found")
      BY <1>4, <2>1 DEF HandleHello
    <3> QED
      BY <1>2, <3>1 DEF Codes
  <2>2. CASE R.state # "none" /\ (R.state # "waiting" \/ Cardinality(Occupied(R)) # 1)
    <3>1. HandleHello(R, c, m) = Fatal(R, c, "run_full")
      BY <1>4, <2>2 DEF HandleHello
    <3> QED
      BY <1>2, <3>1 DEF Codes
  <2>3. CASE R.state = "waiting" /\ Cardinality(Occupied(R)) = 1
    <3>1. HandleHello(R, c, m) = JoinRoom(R, c, own[c])
      BY <1>4, <2>3 DEF HandleHello
    <3> QED
      BY <2>3, <3>1, JoinRoomGood
  <2> QED
    BY <2>1, <2>2, <2>3
<1> QED
  BY <1>1, <1>3, <1>4

-----------------------------------------------------------------------------
(* The other handlers *)

\* A seat keeps its connection, its player and its token.
LEMMA ReadyGood ==
    ASSUME NEW R, NEW drawn, NEW own, NEW r \in DOMAIN R.slots, Good(R, drawn, own),
           NEW s \in Slots, s.conn = R.slots[r].conn, s.who = R.slots[r].who,
           s.token = R.slots[r].token
    PROVE  LET Q == [R EXCEPT !.slots = [R.slots EXCEPT ![r] = s]]
           IN  Good(Q, drawn, own) /\ Q.issued = R.issued
<1> DEFINE slots == [R.slots EXCEPT ![r] = s]
           Q == [R EXCEPT !.slots = slots]
<1>1. R \in Relays /\ R.slots \in SlotMaps /\ R.slots[r] \in Slots
  BY RelayFields, SlotMapFacts DEF Good
<1>4. /\ slots \in SlotMaps /\ DOMAIN slots = DOMAIN R.slots /\ slots[r] = s
      /\ \A x \in DOMAIN R.slots \ {r} : slots[x] = R.slots[x]
  BY <1>1, SlotMapChanged
<1> HIDE DEF slots
<1>5. /\ Q \in Relays /\ Q.slots = slots /\ Q.seat = R.seat /\ Q.live = R.live
      /\ Q.issued = R.issued /\ Q.out = R.out /\ Q.state = R.state
  BY <1>1, <1>4 DEF Relays, SlotMaps
<1> HIDE DEF Q
<1>6. \A x \in DOMAIN R.slots : /\ Q.slots[x].conn = R.slots[x].conn
                                /\ Q.slots[x].who = R.slots[x].who
                                /\ Q.slots[x].token = R.slots[x].token
  BY <1>4, <1>5
<1>7. DOMAIN Q.slots = DOMAIN R.slots
  BY <1>4, <1>5
<1> QED
  BY <1>5, <1>6, <1>7 DEF Good, Shape, Paired, Traced, Q, slots

LEMMA MaybeStartGood ==
    ASSUME NEW R, NEW drawn, NEW own, Good(R, drawn, own)
    PROVE  Good(MaybeStart(R), drawn, own) /\ MaybeStart(R).issued = R.issued
<1> DEFINE on == [R EXCEPT !.started = TRUE, !.state = "active"]
           m == [t |-> "start", joiner |-> R.slots["join"].who]
           first == Send(on, R.slots["host"].conn, m)
           none == \/ R.started
                   \/ Roles # DOMAIN R.slots
                   \/ \E r \in Roles : ~R.slots[r].ready \/ ~Connected(R.slots[r])
<1>1. MaybeStart(R) = IF none THEN R ELSE Send(first, R.slots["join"].conn, m)
  BY DEF MaybeStart
<1>2. CASE none
  BY <1>1, <1>2
<1>3. CASE ~none
  <2>1. Roles = DOMAIN R.slots /\ R \in Relays
    BY <1>3 DEF Good
  <2>2. R.slots["host"] \in Slots /\ R.slots["join"] \in Slots
    BY <2>1, RelayFields, SlotMapFacts DEF Roles
  <2>3. m \in DownMsgs /\ m.t # "welcome"
    BY <2>2, MessageFacts DEF Slots
  <2>4. /\ on \in Relays /\ on.slots = R.slots /\ on.seat = R.seat /\ on.live = R.live
        /\ on.issued = R.issued /\ on.out = R.out /\ on.state = "active"
    BY <2>1 DEF Relays
  <2> HIDE DEF on, m
  <2>5. Good(on, drawn, own)
    BY <2>1, <2>4 DEF Good, Shape, Paired, Traced
  <2>6. R.slots["host"].conn \in Ends /\ R.slots["join"].conn \in Ends
    BY <2>2 DEF Slots
  <2>7. Good(first, drawn, own) /\ first.issued = R.issued
    BY SMTT(30), <2>3, <2>4, <2>5, <2>6, SendGood DEF Alike
  <2> HIDE DEF first
  <2> QED
    BY <1>1, <1>3, <2>3, <2>6, <2>7, SendGood DEF Alike
<1> QED
  BY <1>2, <1>3

LEMMA ReplyErrorGood ==
    ASSUME NEW R, NEW drawn, NEW own, NEW c \in Conns, NEW code \in Codes, Good(R, drawn, own)
    PROVE  Good(ReplyError(R, c, code), drawn, own) /\ ReplyError(R, c, code).issued = R.issued
<1>1. [t |-> "error", code |-> code, fatal |-> FALSE] \in DownMsgs
  BY MessageFacts
<1> QED
  BY <1>1, SendGood, ConnFacts DEF ReplyError, Alike

LEMMA HandleReadyGood ==
    ASSUME NEW R, NEW drawn, NEW own, NEW c \in Conns, NEW r \in DOMAIN R.slots,
           Good(R, drawn, own)
    PROVE  Good(HandleReady(R, c, r), drawn, own) /\ HandleReady(R, c, r).issued = R.issued
<1>1. CASE R.state \notin {"waiting", "selecting"}
  <2>1. HandleReady(R, c, r) = ReplyError(R, c, "bad_state") /\ "bad_state" \in Codes
    BY <1>1 DEF HandleReady, Codes
  <2> QED
    BY <2>1, ReplyErrorGood
<1>2. CASE R.state \in {"waiting", "selecting"}
  <2> DEFINE Q == [R EXCEPT !.slots[r].ready = TRUE]
  <2>1. HandleReady(R, c, r) = MaybeStart(Q)
    BY <1>2 DEF HandleReady
  <2> HIDE DEF Q
  <2>2. Good(Q, drawn, own) /\ Q.issued = R.issued
    <3> DEFINE s == [R.slots[r] EXCEPT !.ready = TRUE]
    <3>1. /\ s \in Slots /\ s.conn = R.slots[r].conn /\ s.who = R.slots[r].who
          /\ s.token = R.slots[r].token
      <4>1. R.slots[r] \in Slots
        BY RelayFields, SlotMapFacts DEF Good
      <4> QED
        BY <4>1 DEF Slots
    <3>2. Q = [R EXCEPT !.slots = [R.slots EXCEPT ![r] = s]]
      BY DEF Q
    <3> HIDE DEF s
    <3> QED
      BY <3>1, <3>2, ReadyGood
  <2> QED
    BY <2>1, <2>2, MaybeStartGood
<1> QED
  BY <1>1, <1>2

LEMMA HandleKickGood ==
    ASSUME NEW R, NEW drawn, NEW own, NEW c \in Conns, Good(R, drawn, own)
    PROVE  Good(HandleKick(R, c), drawn, own) /\ HandleKick(R, c).issued = R.issued
<1> DEFINE refused == R.started \/ R.state # "selecting" \/ "join" \notin DOMAIN R.slots
           j == R.slots["join"].conn
           out == IF j # NoConn THEN Fatal(R, j, "kicked") ELSE FinalizeSlotDeparture(R, "join")
<1>1. CASE refused
  <2>1. HandleKick(R, c) = ReplyError(R, c, "bad_state") /\ "bad_state" \in Codes
    BY <1>1 DEF HandleKick, Codes
  <2> QED
    BY <2>1, ReplyErrorGood
<1>2. CASE ~refused
  <2>1. "join" \in DOMAIN R.slots /\ R \in Relays
    BY <1>2 DEF Good
  <2>2. j \in Ends
    BY <2>1, RelayFields, SlotMapFacts DEF Slots
  <2>3. Good(out, drawn, own) /\ out.issued = R.issued
    <3>1. CASE j # NoConn
      <4>1. j \in Conns /\ "kicked" \in Codes
        BY <2>2, <3>1 DEF Ends, Codes
      <4> HIDE DEF j
      <4>2. out = Fatal(R, j, "kicked")
        BY <3>1
      <4> QED
        BY <4>1, <4>2, FatalGood
    <3>2. CASE j = NoConn
      BY <2>1, <3>2, FinalizeSlotDepartureGood
    <3> QED
      BY <3>1, <3>2
  <2>4. HandleKick(R, c) = IF "host" \in DOMAIN out.slots
                             THEN [out EXCEPT !.slots["host"].ready = FALSE] ELSE out
    BY <1>2 DEF HandleKick
  <2> HIDE DEF out
  <2>5. CASE "host" \in DOMAIN out.slots
    <3> DEFINE Q == [out EXCEPT !.slots["host"].ready = FALSE]
               s == [out.slots["host"] EXCEPT !.ready = FALSE]
    <3>2. HandleKick(R, c) = Q
      BY <2>4, <2>5
    <3>3. /\ s \in Slots /\ s.conn = out.slots["host"].conn /\ s.who = out.slots["host"].who
          /\ s.token = out.slots["host"].token
      <4>1. out.slots["host"] \in Slots
        BY <2>3, <2>5, RelayFields, SlotMapFacts DEF Good
      <4> QED
        BY <4>1 DEF Slots
    <3>4. Q = [out EXCEPT !.slots = [out.slots EXCEPT !["host"] = s]]
      OBVIOUS
    <3> HIDE DEF s, Q
    <3>1. Good(Q, drawn, own) /\ Q.issued = out.issued
      BY <2>3, <2>5, <3>3, <3>4, ReadyGood
    <3> QED
      BY <2>3, <3>1, <3>2
  <2>6. CASE "host" \notin DOMAIN out.slots
    BY <2>3, <2>4, <2>6
  <2> QED
    BY <2>5, <2>6
<1> QED
  BY <1>1, <1>2

LEMMA HandleFloorGood ==
    ASSUME NEW R, NEW drawn, NEW own, NEW m \in FloorMsgs, Good(R, drawn, own)
    PROVE  Good(HandleFloor(R, m), drawn, own) /\ HandleFloor(R, m).issued = R.issued
<1> DEFINE Q == [R EXCEPT !.floor = <<m>>, !.snap = <<>>]
<1>1. R \in Relays /\ <<m>> \in Seq(FloorMsgs)
  BY DEF Good
<1>2. /\ Q \in Relays /\ Q.slots = R.slots /\ Q.seat = R.seat /\ Q.live = R.live
      /\ Q.issued = R.issued /\ Q.out = R.out /\ Q.state = R.state
  BY <1>1 DEF Relays
<1> HIDE DEF Q
<1>3. Good(Q, drawn, own)
  BY <1>2 DEF Good, Shape, Paired, Traced
<1>4. m \in DownMsgs /\ m.t # "welcome"
  BY DEF DownMsgs, FloorMsgs
<1>5. HandleFloor(R, m) = SendPartner(Q, "host", m)
  BY DEF HandleFloor, Q
<1> QED
  BY <1>2, <1>3, <1>4, <1>5, SendPartnerGood DEF Alike

\* A message of a connection that is read, whoever it is from.
LEMMA HandleMessageGood ==
    ASSUME NEW R, NEW drawn, NEW own, NEW c \in R.live, NEW m \in UpMsgs, Good(R, drawn, own),
           own[c] \in Players,
           m.t = "hello" => m.who = own[c] /\ (m.token # 0 => Made(drawn, m.token, own[c]))
    PROVE  Handled(HandleMessage(R, c, m), drawn, own)
<1> DEFINE r == R.seat[c]
           Q == HandleMessage(R, c, m)
<1>1. c \in Conns /\ R \in Relays /\ drawn \in Drawn(R.issued) /\ r \in Roles \cup {"none"}
  BY RelayFields DEF Good
<1>2. r # "none" => r \in DOMAIN R.slots
  BY <1>1 DEF Good, Paired
<1>3. CASE r = "none" /\ m.t = "hello"
  <2>1. Q = HandleHello(R, c, m)
    BY <1>3 DEF HandleMessage
  <2> QED
    BY <1>3, <2>1, HandleHelloGood
<1>4. CASE r = "none" /\ m.t # "hello"
  <2>1. Q = Fatal(R, c, "bad_msg") /\ "bad_msg" \in Codes
    BY <1>4 DEF HandleMessage, Codes
  <2> QED
    BY <1>1, <2>1, FatalGood, GoodHandled
<1>5. CASE r # "none" /\ ~RoleAllowed(m.t, r)
  <2>1. Q = ReplyError(R, c, "role_forbidden") /\ "role_forbidden" \in Codes
    BY <1>5 DEF HandleMessage, Codes, RoleAllowed, HostOnly
  <2> QED
    BY <1>1, <2>1, ReplyErrorGood, GoodHandled
<1>6. CASE r # "none" /\ RoleAllowed(m.t, r) /\ m.t = "ready"
  <2>1. Q = HandleReady(R, c, r)
    BY <1>6 DEF HandleMessage
  <2> QED
    BY <1>1, <1>2, <1>6, <2>1, HandleReadyGood, GoodHandled
<1>7. CASE r # "none" /\ RoleAllowed(m.t, r) /\ m.t = "kick"
  <2>1. Q = HandleKick(R, c)
    BY <1>7 DEF HandleMessage, RoleAllowed, HostOnly
  <2> QED
    BY <1>1, <2>1, HandleKickGood, GoodHandled
<1>8. CASE r # "none" /\ RoleAllowed(m.t, r) /\ m.t = "floor"
  <2>1. Q = HandleFloor(R, m)
    BY <1>8 DEF HandleMessage, RoleAllowed, HostOnly
  <2>2. m \in FloorMsgs
    BY <1>8 DEF UpMsgs, FloorMsgs
  <2> QED
    BY <1>1, <2>1, <2>2, HandleFloorGood, GoodHandled
<1>9. CASE r # "none" /\ RoleAllowed(m.t, r) /\ m.t = "run_ended"
  <2>1. Q = SendPartner(R, "host", m)
    BY <1>9 DEF HandleMessage, RoleAllowed, HostOnly, HandleRunEnded
  <2>2. m \in DownMsgs
    BY <1>9 DEF UpMsgs, DownMsgs, FloorMsgs
  <2>3. Good(Q, drawn, own) /\ Q.issued = R.issued
    BY <1>9, <2>1, <2>2, SendPartnerGood DEF Alike
  <2> QED
    BY <1>1, <2>3, GoodHandled
<1>10. CASE /\ r # "none" /\ RoleAllowed(m.t, r)
            /\ m.t \notin {"ready", "kick", "floor", "run_ended", "snapshot"}
  <2>1. Q = FinalizeSlotDeparture(R, r)
    BY <1>10 DEF HandleMessage, HandleBye
  <2> QED
    BY <1>1, <1>2, <1>10, <2>1, FinalizeSlotDepartureGood, GoodHandled
<1>11. m.t # "snapshot"
  BY DEF UpMsgs, FloorMsgs
<1> QED
  BY <1>3, <1>4, <1>5, <1>6, <1>7, <1>8, <1>9, <1>10, <1>11

\* The socket has ended; the seat is kept for the grace period.
LEMMA DisconnectGood ==
    ASSUME NEW R, NEW drawn, NEW own, NEW c \in Conns, Good(R, drawn, own)
    PROVE  Good(Disconnect(R, c), drawn, own) /\ Disconnect(R, c).issued = R.issued
<1> DEFINE r == R.seat[c]
<1>1. R \in Relays /\ R.slots \in SlotMaps
  BY RelayFields DEF Good
<1>2. CASE r = "none"
  <2>1. r \notin DOMAIN R.slots
    BY <1>1, <1>2, SlotMapFacts DEF Roles
  <2>2. Disconnect(R, c) = HardClose(R, c)
    BY <2>1 DEF Disconnect
  <2> QED
    BY <1>2, <2>2, HardCloseGood
<1>3. CASE r # "none"
  <2> DEFINE s == [R.slots[r] EXCEPT !.conn = NoConn, !.lost = TRUE]
             Q == Vacated(R, r, s)
  <2>1. r \in DOMAIN R.slots /\ R.slots[r].conn = c
    BY <1>3 DEF Good, Paired
  <2>2. R.slots[r] \in Slots
    BY <1>1, <2>1, SlotMapFacts
  <2>3. /\ s \in Slots /\ s.conn = NoConn /\ s.who = R.slots[r].who
        /\ s.token = R.slots[r].token
    BY <2>2 DEF Slots, Ends
  <2>4. [HardClose(R, c) EXCEPT !.slots[r].conn = NoConn, !.slots[r].lost = TRUE] = Q
    <3> DEFINE H == HardClose(R, c)
    <3>1. H.slots = R.slots /\ H = [f \in DOMAIN H |-> H[f]] /\ "slots" \in DOMAIN H
      BY <1>1 DEF HardClose, Relays
    <3> HIDE DEF H
    <3>2. [[R.slots EXCEPT ![r].conn = NoConn] EXCEPT ![r].lost = TRUE] = [R.slots EXCEPT ![r] = s]
      BY <1>1, <2>1, <2>2, SlotMapFacts DEF Slots
    <3>3. [H EXCEPT !.slots = [[R.slots EXCEPT ![r].conn = NoConn] EXCEPT ![r].lost = TRUE]]
            = [H EXCEPT !.slots = [R.slots EXCEPT ![r] = s]]
      BY <3>2
    <3>4. Q = [H EXCEPT !.slots = [R.slots EXCEPT ![r] = s]]
      BY <2>1, <3>1 DEF Vacated, H
    <3> QED
      BY <3>1, <3>3, <3>4 DEF H
  <2>5. Disconnect(R, c) = SendPartner(Q, r, [t |-> "partner_disconnected"])
    <3> HIDE DEF s, Q
    <3> QED
      BY <2>1, <2>4 DEF Disconnect
  <2> HIDE DEF s
  <2>6. Good(Q, drawn, own) /\ Q.issued = R.issued
    BY <2>1, <2>3, VacatedGood
  <2> HIDE DEF Q
  <2>7. [t |-> "partner_disconnected"] \in DownMsgs
    BY MessageFacts
  <2> QED
    BY <2>5, <2>6, <2>7, SendPartnerGood DEF Alike
<1> QED
  BY <1>2, <1>3

LEMMA IdleTimeoutGood ==
    ASSUME NEW R, NEW drawn, NEW own, Good(R, drawn, own)
    PROVE  Good(IdleTimeout(R), drawn, own) /\ IdleTimeout(R).issued = R.issued
<1> DEFINE m == [t |-> "error", code |-> "timeout", fatal |-> TRUE]
           tell(Q, r) == IF r \in DOMAIN R.slots THEN Send(Q, R.slots[r].conn, m) ELSE Q
<1>1. m \in DownMsgs /\ m.t # "welcome"
  <2>1. "timeout" \in Codes
    BY DEF Codes
  <2> QED
    BY <2>1, MessageFacts
<1>2. IdleTimeout(R) = CloseRoom(tell(tell(R, "host"), "join"))
  BY DEF IdleTimeout
<1> HIDE DEF m
<1>3. ASSUME NEW Q, NEW r, Good(Q, drawn, own)
      PROVE  Good(tell(Q, r), drawn, own) /\ tell(Q, r).issued = Q.issued
  <2>1. r \in DOMAIN R.slots => R.slots[r].conn \in Ends
    BY RelayFields, SlotMapFacts DEF Good, Slots
  <2> QED
    BY <1>1, <1>3, <2>1, SendGood DEF Alike
<1> HIDE DEF tell
<1>4. Good(tell(R, "host"), drawn, own) /\ tell(R, "host").issued = R.issued
  BY <1>3
<1>5. /\ Good(tell(tell(R, "host"), "join"), drawn, own)
      /\ tell(tell(R, "host"), "join").issued = R.issued
  BY <1>3, <1>4
<1> QED
  BY <1>2, <1>5, CloseRoomGood

-----------------------------------------------------------------------------
(* Queues *)

\* Everything in q was in r.
Within(q, r) == \A i \in DOMAIN q : \E j \in DOMAIN r : q[i] = r[j]

LEMMA WithinItself == \A q : Within(q, q) /\ Within(<<>>, q)
BY DEF Within

LEMMA WithinEmpty ==
    ASSUME NEW S, NEW q \in Seq(S), Within(q, <<>>)
    PROVE  q = <<>>
<1>1. DOMAIN <<>> = {}
  OBVIOUS
<1>2. DOMAIN q = {}
  BY <1>1 DEF Within
<1>3. Len(q) \in Nat /\ DOMAIN q = 1..Len(q)
  OBVIOUS
<1>4. Len(q) = 0
  BY <1>2, <1>3
<1> QED
  BY <1>4

LEMMA HeadTail ==
    ASSUME NEW S, NEW q \in Seq(S), q # <<>>
    PROVE  /\ Tail(q) \in Seq(S) /\ Within(Tail(q), q)
           /\ 1 \in DOMAIN q /\ Head(q) = q[1] /\ Head(q) \in S
<1>1. Len(q) \in Nat /\ Len(q) >= 1 /\ DOMAIN q = 1..Len(q)
  OBVIOUS
<1>2. Tail(q) \in Seq(S) /\ Len(Tail(q)) = Len(q) - 1
  BY <1>1
<1>3. \A i \in 1..(Len(q) - 1) : Tail(q)[i] = q[i + 1]
  BY <1>1
<1>4. Within(Tail(q), q)
  BY <1>1, <1>2, <1>3 DEF Within
<1> QED
  BY <1>1, <1>2, <1>4

LEMMA PrefixWithin ==
    ASSUME NEW S, NEW q \in Seq(S), NEW n \in 0..Len(q)
    PROVE  SubSeq(q, 1, n) \in Seq(S) /\ Within(SubSeq(q, 1, n), q)
BY DEF Within

LEMMA AppendedWithin ==
    ASSUME NEW S, NEW q \in Seq(S), NEW r \in Seq(S)
    PROVE  /\ q \o r \in Seq(S)
           /\ \A i \in DOMAIN (q \o r) : \/ \E j \in DOMAIN q : (q \o r)[i] = q[j]
                                        \/ \E j \in DOMAIN r : (q \o r)[i] = r[j]
<1>1. q \o r \in Seq(S) /\ Len(q \o r) = Len(q) + Len(r) /\ DOMAIN (q \o r) = 1..(Len(q) + Len(r))
  OBVIOUS
<1>2. ASSUME NEW i \in DOMAIN (q \o r)
      PROVE  \/ \E j \in DOMAIN q : (q \o r)[i] = q[j]
             \/ \E j \in DOMAIN r : (q \o r)[i] = r[j]
  <2>1. CASE i <= Len(q)
    BY <1>1, <2>1
  <2>2. CASE i > Len(q)
    <3>1. i - Len(q) \in DOMAIN r /\ (q \o r)[i] = r[i - Len(q)]
      BY <1>1, <1>2, <2>2
    <3> QED
      BY <3>1
  <2> QED
    BY <1>1, <2>1, <2>2
<1> QED
  BY <1>1, <1>2

LEMMA AppendedDown ==
    \A q, r \in Seq(DownMsgs) : \A k \in DOMAIN (q \o r) :
       (\E j \in DOMAIN q : (q \o r)[k] = q[j]) \/ (\E j \in DOMAIN r : (q \o r)[k] = r[j])
BY AppendedWithin

-----------------------------------------------------------------------------
(* The steps of the relay *)

\* What the invariant says of a state, with the tokens drawn so far.
Holds(drawn) == Good(relay, drawn, owner) /\ Tokens(drawn)

Safe == TypeOK /\ Linked /\ relay.out = Silent

LEMMA SilentIs == Silent \in [Conns -> Seq(DownMsgs)] /\ \A c \in Conns : Silent[c] = <<>>
<1>1. <<>> \in Seq(DownMsgs)
  OBVIOUS
<1> QED
  BY <1>1 DEF Silent

\* A relay that has sent what it had to send.
LEMMA SilentGood ==
    ASSUME NEW R, NEW drawn, NEW own, Good(R, drawn, own)
    PROVE  Good([R EXCEPT !.out = Silent], drawn, own) /\ [R EXCEPT !.out = Silent].out = Silent
<1> DEFINE Q == [R EXCEPT !.out = Silent]
<1>1. R \in Relays
  BY DEF Good
<1>2. Q \in Relays /\ Q.out = Silent /\ Alike(R, Q)
  BY <1>1, SilentIs, OutReplaced
<1> HIDE DEF Q
<1>3. \A c \in Conns : DOMAIN Q.out[c] = {}
  BY <1>2, SilentIs
<1> QED
  BY <1>2, <1>3 DEF Good, Shape, Paired, Traced, Alike, Q

\* A handler has made R of the relay, and only takes from what it reads.
LEMMA RelayStep ==
    ASSUME Safe, NEW drawn \in Drawn(relay.issued), Holds(drawn),
           NEW R, Handled(R, drawn, owner), Relayed(R),
           up' \in [Conns -> Seq(UpMsgs)], \A c \in Conns : Within(up'[c], up[c]),
           UNCHANGED <<sock, owner, cut, client>>, faults' \in Nat
    PROVE  IInv'
<1>1. PICK more \in Drawn(R.issued) : Grown(drawn, more) /\ Good(R, more, owner)
  BY DEF Handled
<1>2. R \in Relays /\ R.out \in [Conns -> Seq(DownMsgs)]
  BY <1>1, RelayFields DEF Good
<1>3. Good(relay', more, owner') /\ relay'.out = Silent /\ relay'.issued = R.issued
  <2>1. relay' = [R EXCEPT !.out = Silent] /\ owner' = owner
    BY DEF Relayed
  <2>2. [R EXCEPT !.out = Silent].issued = R.issued
    BY <1>2 DEF Relays
  <2> QED
    BY <1>1, <2>1, <2>2, SilentGood
<1>4. down' \in [Conns -> Seq(DownMsgs)]
  <2>1. \A c \in Conns : down[c] \in Seq(DownMsgs) /\ R.out[c] \in Seq(DownMsgs)
    BY <1>2 DEF Safe, TypeOK
  <2>2. \A c \in Conns : down[c] \o R.out[c] \in Seq(DownMsgs)
    BY <2>1
  <2> QED
    BY <2>1, <2>2 DEF Relayed
<1>5. \A c \in Conns : down'[c] \in {down[c], down[c] \o R.out[c]}
                       /\ (sock[c] # "open" => down'[c] = down[c])
  BY DEF Relayed
<1>6. TypeOK'
  BY <1>3, <1>4 DEF Safe, TypeOK, Good
<1>7. Linked'
  <2>1. \A c \in Conns : sock[c] = "unused" => up'[c] = <<>> /\ down'[c] = <<>>
    <3>1. \A c \in Conns : up'[c] \in Seq(UpMsgs)
      OBVIOUS
    <3>2. ASSUME NEW c \in Conns, up[c] = <<>> PROVE up'[c] = <<>>
      <4>1. Within(up'[c], <<>>)
        BY <3>2
      <4> QED
        BY <3>1, <4>1, WithinEmpty
    <3> QED
      BY <1>5, <3>2 DEF Safe, Linked
  <2> QED
    BY <2>1 DEF Safe, Linked
<1>8. (Tokens(more))'
  <2>1. \A t, p : Made(drawn, t, p) => Made(more, t, p)
    BY <1>1, GrownKeeps
  <2>2. \A p \in Players : client'[p].token # 0 => Made(more, client'[p].token, p)
    BY <2>1 DEF Holds, Tokens
  <2>3. ASSUME NEW c \in Conns, NEW i \in DOMAIN up'[c], up'[c][i].t = "hello"
        PROVE  /\ up'[c][i].who = owner'[c]
               /\ up'[c][i].token # 0 => Made(more, up'[c][i].token, owner'[c])
    <3>1. PICK j \in DOMAIN up[c] : up'[c][i] = up[c][j]
      BY DEF Within
    <3> QED
      BY <2>1, <2>3, <3>1 DEF Holds, Tokens
  <2>4. ASSUME NEW c \in Conns, NEW i \in DOMAIN down'[c], down'[c][i].t = "welcome"
        PROVE  Made(more, down'[c][i].token, owner'[c])
    <3>1. (\E j \in DOMAIN down[c] : down'[c][i] = down[c][j])
            \/ (\E j \in DOMAIN R.out[c] : down'[c][i] = R.out[c][j])
      <4> DEFINE q == down[c]
                 r == R.out[c]
      <4>1. q \in Seq(DownMsgs) /\ r \in Seq(DownMsgs)
        BY <1>2 DEF Safe, TypeOK
      <4>2. down'[c] = q \/ down'[c] = q \o r
        BY <1>5
      <4> HIDE DEF q, r
      <4>3. \A k \in DOMAIN (q \o r) : \/ \E j \in DOMAIN q : (q \o r)[k] = q[j]
                                      \/ \E j \in DOMAIN r : (q \o r)[k] = r[j]
        BY <4>1, AppendedDown
      <4>4. (\E j \in DOMAIN q : down'[c][i] = q[j]) \/ (\E j \in DOMAIN r : down'[c][i] = r[j])
        <5>1. CASE down'[c] = q
          BY <2>4, <5>1
        <5>2. CASE down'[c] = q \o r
          BY <2>4, <4>3, <5>2
        <5> QED
          BY <4>2, <5>1, <5>2
      <4> QED
        BY <4>4 DEF q, r
    <3>2. CASE \E j \in DOMAIN down[c] : down'[c][i] = down[c][j]
      BY <2>1, <2>4, <3>2 DEF Holds, Tokens
    <3>3. CASE \E j \in DOMAIN R.out[c] : down'[c][i] = R.out[c][j]
      BY <1>1, <2>4, <3>3 DEF Good, Traced
    <3> QED
      BY <3>1, <3>2, <3>3
  <2> QED
    BY <2>2, <2>3, <2>4 DEF Tokens
<1> QED
  BY <1>1, <1>3, <1>6, <1>7, <1>8 DEF IInv

\* What a relay step needs of the invariant.
LEMMA IInvParts ==
    ASSUME IInv
    PROVE  Safe /\ \E drawn \in Drawn(relay.issued) : Holds(drawn)
BY DEF IInv, Safe, Holds

LEMMA RelayReadsInv ==
    ASSUME IInv, NEW c \in Conns, RelayReads(c)
    PROVE  IInv'
<1> DEFINE R == HandleMessage(relay, c, Head(up[c]))
<1>1. PICK drawn \in Drawn(relay.issued) : Holds(drawn)
  BY IInvParts
<1>2. Safe
  BY IInvParts
<1>3. up[c] \in Seq(UpMsgs) /\ up[c] # <<>> /\ c \in relay.live
  BY <1>2 DEF Safe, TypeOK, RelayReads
<1>4. Head(up[c]) \in UpMsgs /\ 1 \in DOMAIN up[c] /\ Head(up[c]) = up[c][1]
  BY <1>3, HeadTail
<1>5. Handled(R, drawn, owner)
  <2>1. owner[c] \in Players /\ Good(relay, drawn, owner)
    BY <1>1, <1>3 DEF Holds, Good, Traced
  <2>2. Head(up[c]).t = "hello" =>
          /\ Head(up[c]).who = owner[c]
          /\ Head(up[c]).token # 0 => Made(drawn, Head(up[c]).token, owner[c])
    BY <1>1, <1>4 DEF Holds, Tokens
  <2> QED
    BY <1>3, <1>4, <2>1, <2>2, HandleMessageGood
<1>6. /\ Relayed(R) /\ UNCHANGED <<sock, owner, cut, client, faults>>
      /\ up' = [d \in Conns |-> CASE d \notin R.live /\ d \in relay.live -> <<>>
                                  [] d = c /\ c \in R.live -> Tail(up[c])
                                  [] OTHER -> up[d]]
  BY DEF RelayReads
<1> HIDE DEF R
<1>7. up' \in [Conns -> Seq(UpMsgs)] /\ \A d \in Conns : Within(up'[d], up[d])
  <2>1. Tail(up[c]) \in Seq(UpMsgs) /\ Within(Tail(up[c]), up[c])
    BY <1>3, HeadTail
  <2>2. <<>> \in Seq(UpMsgs)
    OBVIOUS
  <2>3. \A d \in Conns : up[d] \in Seq(UpMsgs)
    BY <1>2 DEF Safe, TypeOK
  <2>4. \A d \in Conns : \/ up'[d] = <<>> \/ up'[d] = up[d]
                         \/ d = c /\ up'[d] = Tail(up[c])
    BY <1>3, <1>6
  <2>5. up' = [d \in Conns |-> up'[d]]
    BY <1>6
  <2> QED
    BY <2>1, <2>2, <2>3, <2>4, <2>5, WithinItself
<1>8. faults' \in Nat
  BY <1>2, <1>6 DEF Safe, TypeOK
<1> QED
  BY <1>1, <1>2, <1>5, <1>6, <1>7, <1>8, RelayStep

LEMMA RelaySeesEndInv ==
    ASSUME IInv, NEW c \in Conns, RelaySeesEnd(c)
    PROVE  IInv'
<1>1. PICK drawn \in Drawn(relay.issued) : Holds(drawn)
  BY IInvParts
<1>2. Safe
  BY IInvParts
<1> DEFINE R == Disconnect(relay, c)
<1>3. Handled(R, drawn, owner)
  BY <1>1, DisconnectGood, GoodHandled DEF Holds
<1>4. Relayed(R) /\ UNCHANGED <<up, sock, owner, cut, client, faults>>
  BY DEF RelaySeesEnd
<1> HIDE DEF R
<1> QED
  BY <1>1, <1>2, <1>3, <1>4, RelayStep, WithinItself DEF Safe, TypeOK

\* A handler of the relay's timers.
LEMMA ClosesInv ==
    ASSUME IInv, NEW R, Closes(R), faults' \in Nat,
           \A drawn \in Drawn(relay.issued) : Holds(drawn) => Handled(R, drawn, owner)
    PROVE  IInv'
<1>1. PICK drawn \in Drawn(relay.issued) : Holds(drawn)
  BY IInvParts
<1>2. Safe
  BY IInvParts
<1>3. /\ Relayed(R) /\ UNCHANGED <<sock, owner, cut, client>>
      /\ up' = [d \in Conns |-> IF d \notin R.live /\ d \in relay.live THEN <<>> ELSE up[d]]
  BY DEF Closes
<1>4. up' \in [Conns -> Seq(UpMsgs)] /\ \A d \in Conns : Within(up'[d], up[d])
  <2>1. <<>> \in Seq(UpMsgs)
    OBVIOUS
  <2>2. \A d \in Conns : up[d] \in Seq(UpMsgs)
    BY <1>2 DEF Safe, TypeOK
  <2> QED
    BY <1>3, <2>1, <2>2, WithinItself
<1> QED
  BY <1>1, <1>2, <1>3, <1>4, RelayStep

LEMMA TimersInv ==
    ASSUME IInv, \/ \E r \in Roles : GraceEnds(r)
                 \/ \E c \in Conns : NoHello(c)
                 \/ Idle
    PROVE  IInv'
<1>1. faults \in Nat
  BY IInvParts DEF Safe, TypeOK
<1>2. ASSUME NEW r \in Roles, GraceEnds(r) PROVE IInv'
  <2> DEFINE R == FinalizeSlotDeparture(relay, r)
  <2>1. r \in DOMAIN relay.slots /\ Closes(R) /\ faults' = faults
    BY <1>2 DEF GraceEnds, GraceExpired, Timer
  <2>2. ASSUME NEW drawn \in Drawn(relay.issued), Holds(drawn) PROVE Handled(R, drawn, owner)
    BY <2>1, <2>2, FinalizeSlotDepartureGood, GoodHandled DEF Holds
  <2> HIDE DEF R
  <2> QED
    BY <1>1, <2>1, <2>2, ClosesInv
<1>3. ASSUME NEW c \in Conns, NoHello(c) PROVE IInv'
  <2> DEFINE R == Fatal(relay, c, "timeout")
  <2>1. "timeout" \in Codes /\ Closes(R) /\ faults' = faults
    BY <1>3 DEF NoHello, HelloTimeout, Timer, Codes
  <2>2. ASSUME NEW drawn \in Drawn(relay.issued), Holds(drawn) PROVE Handled(R, drawn, owner)
    BY <2>1, <2>2, FatalGood, GoodHandled DEF Holds
  <2> HIDE DEF R
  <2> QED
    BY <1>1, <2>1, <2>2, ClosesInv
<1>4. CASE Idle
  <2> DEFINE R == IdleTimeout(relay)
  <2>1. Closes(R) /\ faults' \in Nat
    BY <1>1, <1>4 DEF Idle, Fault
  <2>2. ASSUME NEW drawn \in Drawn(relay.issued), Holds(drawn) PROVE Handled(R, drawn, owner)
    BY <2>2, IdleTimeoutGood, GoodHandled DEF Holds
  <2> HIDE DEF R
  <2> QED
    BY <2>1, <2>2, ClosesInv
<1> QED
  BY <1>2, <1>3, <1>4

-----------------------------------------------------------------------------
(* The steps of the clients, and the faults *)

\* A step in which the relay handles nothing.
LEMMA QuietStep ==
    ASSUME IInv, TypeOK', Linked', relay'.out = Silent, relay'.issued = relay.issued,
           \A drawn : Good(relay, drawn, owner) => Good(relay', drawn, owner'),
           \A c \in Conns : owner'[c] = owner[c] \/ (up'[c] = <<>> /\ down'[c] = <<>>),
           \A p \in Players : client'[p].token # 0 =>
             \/ client'[p].token = client[p].token
             \/ \E c \in Conns : \E i \in DOMAIN down[c] :
                  /\ down[c][i].t = "welcome" /\ down[c][i].token = client'[p].token
                  /\ owner[c] = p,
           \A c \in Conns : \A i \in DOMAIN up'[c] : up'[c][i].t = "hello" =>
             \/ \E j \in DOMAIN up[c] : up'[c][i] = up[c][j]
             \/ /\ owner[c] \in Players /\ up'[c][i].who = owner[c]
                /\ up'[c][i].token = client[owner[c]].token,
           \A c \in Conns : Within(down'[c], down[c])
    PROVE  IInv'
<1>1. PICK drawn \in Drawn(relay.issued) : Holds(drawn)
  BY IInvParts
<1>2. Good(relay', drawn, owner') /\ drawn \in Drawn(relay'.issued)
  BY <1>1 DEF Holds
<1>3. \A p \in Players : client'[p].token # 0 => Made(drawn, client'[p].token, p)
  BY <1>1 DEF Holds, Tokens
<1>4. ASSUME NEW c \in Conns, NEW i \in DOMAIN up'[c], up'[c][i].t = "hello"
      PROVE  /\ up'[c][i].who = owner'[c]
             /\ up'[c][i].token # 0 => Made(drawn, up'[c][i].token, owner'[c])
  <2>1. owner'[c] = owner[c]
    <3>1. CASE up'[c] = <<>>
      <4>1. DOMAIN <<>> = {}
        OBVIOUS
      <4> QED
        BY <1>4, <3>1, <4>1
    <3> QED
      BY <3>1
  <2>2. CASE \E j \in DOMAIN up[c] : up'[c][i] = up[c][j]
    BY <1>1, <1>4, <2>1, <2>2 DEF Holds, Tokens
  <2>3. CASE /\ owner[c] \in Players /\ up'[c][i].who = owner[c]
             /\ up'[c][i].token = client[owner[c]].token
    BY <1>1, <2>1, <2>3 DEF Holds, Tokens
  <2> QED
    BY <1>4, <2>2, <2>3
<1>5. ASSUME NEW c \in Conns, NEW i \in DOMAIN down'[c], down'[c][i].t = "welcome"
      PROVE  Made(drawn, down'[c][i].token, owner'[c])
  <2>1. owner'[c] = owner[c]
    <3>1. CASE down'[c] = <<>>
      <4>1. DOMAIN <<>> = {}
        OBVIOUS
      <4> QED
        BY <1>5, <3>1, <4>1
    <3> QED
      BY <3>1
  <2>2. PICK j \in DOMAIN down[c] : down'[c][i] = down[c][j]
    BY <1>5 DEF Within
  <2> QED
    BY <1>1, <1>5, <2>1, <2>2 DEF Holds, Tokens
<1> QED
  BY <1>2, <1>3, <1>4, <1>5 DEF IInv, Tokens

\* A connection the relay has not accepted gets an owner.
LEMMA OwnersGood ==
    ASSUME NEW R, NEW drawn, NEW own, NEW now, Good(R, drawn, own), R.out = Silent,
           \A c \in R.live : now[c] = own[c]
    PROVE  Good(R, drawn, now)
<1>1. \A c \in Conns : DOMAIN R.out[c] = {}
  BY SilentIs
<1>2. \A r \in DOMAIN R.slots : R.slots[r].conn # NoConn =>
        now[R.slots[r].conn] = own[R.slots[r].conn]
  BY DEF Good, Paired
<1> QED
  BY <1>1, <1>2 DEF Good, Traced

LEMMA AcceptGood ==
    ASSUME NEW R, NEW drawn, NEW own, NEW c \in Conns, Good(R, drawn, own),
           own[c] \in Players
    PROVE  Good(Accept(R, c), drawn, own) /\ Accept(R, c).issued = R.issued
           /\ Accept(R, c).out = R.out
<1>1. R \in Relays
  BY DEF Good
<1>2. /\ Accept(R, c) \in Relays /\ Accept(R, c).live = R.live \cup {c}
      /\ Accept(R, c).seat = R.seat /\ Accept(R, c).slots = R.slots
      /\ Accept(R, c).issued = R.issued /\ Accept(R, c).out = R.out
      /\ Accept(R, c).state = R.state
  BY <1>1 DEF Accept, Relays
<1> QED
  BY <1>2 DEF Good, Shape, Paired, Traced

\* What a client queues.
Saids == {m \in UpMsgs : m.t # "hello"}

LEMMA WrittenFacts ==
    ASSUME TypeOK, NEW c \in Ends, NEW msgs \in Seq(UpMsgs)
    PROVE  /\ Written(c, msgs) \in [Conns -> Seq(UpMsgs)]
           /\ \A d \in Conns : sock[d] = "unused" => (c # d => Written(c, msgs)[d] = up[d])
           /\ \A d \in Conns : \A i \in DOMAIN Written(c, msgs)[d] :
                \/ \E j \in DOMAIN up[d] : Written(c, msgs)[d][i] = up[d][j]
                \/ d = c /\ \E j \in DOMAIN msgs : Written(c, msgs)[d][i] = msgs[j]
<1>1. up \in [Conns -> Seq(UpMsgs)]
  BY DEF TypeOK
<1>2. CASE Written(c, msgs) = up
  BY <1>1, <1>2
<1>3. CASE Written(c, msgs) # up
  <2>1. c \in Conns /\ Written(c, msgs) = [up EXCEPT ![c] = @ \o msgs]
    BY <1>3 DEF Written
  <2>2. up[c] \in Seq(UpMsgs)
    BY <1>1, <2>1
  <2>3. /\ up[c] \o msgs \in Seq(UpMsgs)
        /\ \A i \in DOMAIN (up[c] \o msgs) :
             \/ \E j \in DOMAIN up[c] : (up[c] \o msgs)[i] = up[c][j]
             \/ \E j \in DOMAIN msgs : (up[c] \o msgs)[i] = msgs[j]
    BY <2>2, AppendedWithin
  <2>4. /\ Written(c, msgs)[c] = up[c] \o msgs
        /\ \A d \in Conns \ {c} : Written(c, msgs)[d] = up[d]
    BY <1>1, <2>1
  <2> QED
    BY ZenonT(30), <1>1, <2>1, <2>3, <2>4
<1> QED
  BY <1>2, <1>3

LEMMA Said ==
    ASSUME NEW m \in Saids
    PROVE  /\ <<m>> \in Seq(UpMsgs)
           /\ \A i \in DOMAIN <<m>> : <<m>>[i].t # "hello"
BY DEF Saids

LEMMA SaidNothing == <<>> \in Seq(UpMsgs) /\ \A i \in DOMAIN <<>> : <<>>[i].t # "hello"
OBVIOUS

\* The socket of a client is its own and nobody else's.
LEMMA ConnOf ==
    ASSUME Safe, NEW p \in Players
    PROVE  /\ client[p] \in Clients /\ client[p].conn \in Ends
           /\ client[p].conn # NoConn =>
                /\ client[p].conn \in Conns /\ owner[client[p].conn] = p
                /\ sock[client[p].conn] \in {"dialing", "open"}
           /\ \A q \in Players \ {p} : client[p].conn # NoConn => client[q].conn # client[p].conn
BY DEF Safe, TypeOK, Linked, Clients, Ends

\* p closes its socket, after `last'.
LEMMA CloseInv ==
    ASSUME IInv, NEW p \in Players, NEW s \in Clients, NEW last \in Seq(UpMsgs),
           \A i \in DOMAIN last : last[i].t # "hello",
           s.token \in {0, client[p].token}, Close(p, s, last)
    PROVE  IInv'
<1> DEFINE c == client[p].conn
           t == [s EXCEPT !.conn = NoConn]
<1>1. Safe
  BY IInvParts
<1>2. /\ client' = [client EXCEPT ![p] = t] /\ sock' = Closed(c)
      /\ up' = IF c # NoConn /\ sock[c] = "dialing" THEN [up EXCEPT ![c] = <<>>]
                                                    ELSE Written(c, last)
      /\ down' = Emptied(c)
      /\ UNCHANGED <<relay, owner, cut, faults>>
  BY DEF Close
<1>3. t \in Clients /\ t.conn = NoConn /\ t.token = s.token
  BY DEF Clients, Ends
<1>4. /\ c \in Ends /\ (c # NoConn => c \in Conns /\ owner[c] = p /\ sock[c] # "unused")
      /\ \A q \in Players \ {p} : c # NoConn => client[q].conn # c
  BY <1>1, ConnOf
<1> HIDE DEF t, c
<1>5. client' \in [Players -> Clients] /\ client'[p] = t
      /\ \A q \in Players \ {p} : client'[q] = client[q]
  BY <1>1, <1>2, <1>3 DEF Safe, TypeOK
<1>6. /\ \A d \in Conns : sock'[d] = IF d = c THEN "closed" ELSE sock[d]
      /\ sock' \in [Conns -> {"unused", "dialing", "open", "closed"}]
  BY <1>1, <1>2 DEF Closed, Safe, TypeOK
<1>7. /\ down' \in [Conns -> Seq(DownMsgs)]
      /\ \A d \in Conns : down'[d] = IF d = c THEN <<>> ELSE down[d]
  <2>1. <<>> \in Seq(DownMsgs)
    OBVIOUS
  <2> QED
    BY <1>1, <1>2, <2>1 DEF Emptied, Safe, TypeOK
<1>8. /\ up' \in [Conns -> Seq(UpMsgs)]
      /\ \A d \in Conns : sock[d] = "unused" => up'[d] = up[d]
      /\ \A d \in Conns : \A i \in DOMAIN up'[d] : up'[d][i].t = "hello" =>
           \E j \in DOMAIN up[d] : up'[d][i] = up[d][j]
  <2>1. CASE c # NoConn /\ sock[c] = "dialing"
    <3>1. <<>> \in Seq(UpMsgs) /\ DOMAIN <<>> = {}
      <4>1. <<>> \in Seq(UpMsgs)
        OBVIOUS
      <4>2. DOMAIN <<>> = {}
        OBVIOUS
      <4> QED
        BY <4>1, <4>2
    <3>2. up' = [up EXCEPT ![c] = <<>>] /\ c \in Conns /\ up \in [Conns -> Seq(UpMsgs)]
      BY <1>1, <1>2, <1>4, <2>1 DEF Safe, TypeOK
    <3>3. up'[c] = <<>> /\ \A d \in Conns \ {c} : up'[d] = up[d]
      BY <3>2
    <3> QED
      BY <2>1, <3>1, <3>2, <3>3
  <2>2. CASE ~(c # NoConn /\ sock[c] = "dialing")
    <3>1. up' = Written(c, last)
      BY <1>2, <2>2
    <3>2. TypeOK
      BY <1>1 DEF Safe
    <3>3. /\ Written(c, last) \in [Conns -> Seq(UpMsgs)]
          /\ \A d \in Conns : sock[d] = "unused" => (c # d => Written(c, last)[d] = up[d])
          /\ \A d \in Conns : \A i \in DOMAIN Written(c, last)[d] :
               \/ \E j \in DOMAIN up[d] : Written(c, last)[d][i] = up[d][j]
               \/ d = c /\ \E j \in DOMAIN last : Written(c, last)[d][i] = last[j]
      BY <1>4, <3>2, WrittenFacts
    <3> QED
      BY SMTT(30), <1>4, <3>1, <3>3, ConnFacts
  <2> QED
    BY <2>1, <2>2
<1>9. TypeOK'
  BY <1>1, <1>2, <1>5, <1>6, <1>7, <1>8 DEF Safe, TypeOK
<1>10. Linked'
  <2>1. ASSUME NEW q \in Players, client'[q].conn # NoConn
        PROVE  owner'[client'[q].conn] = q /\ sock'[client'[q].conn] \in {"dialing", "open"}
    <3>1. q # p /\ client'[q] = client[q]
      BY <1>3, <1>5, <2>1
    <3>2. client[q].conn \in Conns /\ owner[client[q].conn] = q
          /\ sock[client[q].conn] \in {"dialing", "open"}
      BY <1>1, <2>1, <3>1, ConnOf
    <3>3. client[q].conn # c
      BY <1>4, <3>1, <3>2, ConnFacts
    <3> QED
      BY <1>2, <1>6, <3>1, <3>2, <3>3
  <2>2. ASSUME NEW d \in Conns, sock'[d] = "unused" PROVE up'[d] = <<>> /\ down'[d] = <<>>
    <3>1. d # c /\ sock[d] = "unused"
      BY <1>6, <2>2
    <3>2. up[d] = <<>> /\ down[d] = <<>>
      BY <1>1, <3>1 DEF Safe, Linked
    <3> QED
      BY <1>7, <1>8, <3>1, <3>2
  <2>3. \A d \in Conns : owner'[d] \in Players => sock'[d] # "unused"
    BY <1>1, <1>2, <1>6 DEF Safe, Linked
  <2> QED
    BY <2>1, <2>2, <2>3 DEF Linked
<1>11. \A d \in Conns : Within(down'[d], down[d])
  BY <1>7, WithinItself
<1>12. relay' = relay /\ owner' = owner
  BY <1>2
<1>13. \A q \in Players : client'[q].token # 0 => client'[q].token = client[q].token
  BY <1>3, <1>5
<1>14. relay'.out = Silent /\ relay'.issued = relay.issued
  BY <1>1, <1>12 DEF Safe
<1>15. \A drawn : Good(relay, drawn, owner) => Good(relay', drawn, owner')
  BY <1>12
<1> QED
  BY <1>8, <1>9, <1>10, <1>11, <1>12, <1>13, <1>14, <1>15, QuietStep

\* p's session becomes s, messages are queued, and perhaps one was read.
LEMMA TalkInv ==
    ASSUME IInv, NEW p \in Players, NEW s \in Clients, NEW msgs \in Seq(UpMsgs),
           \A i \in DOMAIN msgs : msgs[i].t # "hello",
           s.conn = client[p].conn,
           client' = [client EXCEPT ![p] = s], up' = Written(client[p].conn, msgs),
           UNCHANGED <<relay, sock, owner, cut, faults>>,
           down' \in [Conns -> Seq(DownMsgs)], \A d \in Conns : Within(down'[d], down[d]),
           s.token # 0 => \/ s.token = client[p].token
                          \/ \E c \in Conns : \E i \in DOMAIN down[c] :
                               /\ down[c][i].t = "welcome" /\ down[c][i].token = s.token
                               /\ owner[c] = p
    PROVE  IInv'
<1> DEFINE c == client[p].conn
<1>1. Safe
  BY IInvParts
<1>2. /\ c \in Ends /\ (c # NoConn => c \in Conns /\ owner[c] = p /\ sock[c] # "unused")
  BY <1>1, ConnOf
<1>3. client' \in [Players -> Clients] /\ client'[p] = s
      /\ \A q \in Players \ {p} : client'[q] = client[q]
  BY <1>1 DEF Safe, TypeOK
<1>4. TypeOK
  BY <1>1 DEF Safe
<1> HIDE DEF c
<1>5. /\ up' \in [Conns -> Seq(UpMsgs)]
      /\ \A d \in Conns : sock[d] = "unused" => up'[d] = up[d]
      /\ \A d \in Conns : \A i \in DOMAIN up'[d] : up'[d][i].t = "hello" =>
           \E j \in DOMAIN up[d] : up'[d][i] = up[d][j]
  <2>1. up' = Written(c, msgs)
    BY DEF c
  <2>2. /\ Written(c, msgs) \in [Conns -> Seq(UpMsgs)]
        /\ \A d \in Conns : sock[d] = "unused" => (c # d => Written(c, msgs)[d] = up[d])
        /\ \A d \in Conns : \A i \in DOMAIN Written(c, msgs)[d] :
             \/ \E j \in DOMAIN up[d] : Written(c, msgs)[d][i] = up[d][j]
             \/ d = c /\ \E j \in DOMAIN msgs : Written(c, msgs)[d][i] = msgs[j]
    BY <1>2, <1>4, WrittenFacts
  <2> QED
    BY SMTT(30), <1>2, <2>1, <2>2, ConnFacts
<1>6. TypeOK'
  BY <1>1, <1>3, <1>5 DEF Safe, TypeOK
<1>7. Linked'
  <2>1. \A q \in Players : client'[q].conn = client[q].conn
    BY <1>3
  <2>2. \A d \in Conns : sock[d] = "unused" => down'[d] = <<>>
    <3>1. ASSUME NEW d \in Conns, sock[d] = "unused" PROVE down'[d] = <<>>
      <4>1. down[d] = <<>>
        BY <1>1, <3>1 DEF Safe, Linked
      <4>2. Within(down'[d], <<>>) /\ down'[d] \in Seq(DownMsgs)
        BY <4>1
      <4> QED
        BY <4>2, WithinEmpty
    <3> QED
      BY <3>1
  <2>3. owner' = owner /\ sock' = sock
    OBVIOUS
  <2>4. ASSUME NEW q \in Players, client'[q].conn # NoConn
        PROVE  owner'[client'[q].conn] = q /\ sock'[client'[q].conn] \in {"dialing", "open"}
    BY <1>1, <2>1, <2>3, <2>4 DEF Safe, Linked
  <2>5. \A d \in Conns : sock'[d] = "unused" => up'[d] = <<>> /\ down'[d] = <<>>
    BY <1>1, <1>5, <2>2, <2>3 DEF Safe, Linked
  <2>6. \A d \in Conns : owner'[d] \in Players => sock'[d] # "unused"
    BY <1>1, <2>3 DEF Safe, Linked
  <2> QED
    BY <2>4, <2>5, <2>6 DEF Linked
<1>8. relay'.out = Silent /\ relay'.issued = relay.issued
  BY <1>1 DEF Safe
<1>9. \A q \in Players : client'[q].token # 0 =>
         \/ client'[q].token = client[q].token
         \/ \E d \in Conns : \E i \in DOMAIN down[d] :
              /\ down[d][i].t = "welcome" /\ down[d][i].token = client'[q].token
              /\ owner[d] = q
  <2>1. ASSUME NEW q \in Players \ {p} PROVE client'[q].token = client[q].token
    BY <1>3
  <2> QED
    BY <1>3, <2>1
<1> QED
  BY <1>5, <1>6, <1>7, <1>8, <1>9, QuietStep

-----------------------------------------------------------------------------
(* Dialling *)

\* The least unused connection exists.
LEMMA NextConnFacts ==
    ASSUME Unused # {}
    PROVE  NextConn \in Conns /\ sock[NextConn] = "unused"
<1>1. Unused \subseteq Nat
  BY ConnsAssumption DEF Unused
<1>2. \E c \in Unused : \A d \in Unused : ~(<<d, c>> \in OpToRel(<, Nat))
  <2> HIDE DEF Unused
  <2> QED
    BY <1>1, NatLessThanWellFounded, WFMin
<1>3. PICK c \in Unused : \A d \in Unused : ~(<<d, c>> \in OpToRel(<, Nat))
  BY <1>2
<1>4. \A d \in Unused : c <= d
  <2>1. ASSUME NEW d \in Unused PROVE c <= d
    <3>1. c \in Nat /\ d \in Nat
      BY <1>1
    <3>2. ~(d < c)
      BY <1>3, <3>1 DEF OpToRel
    <3> QED
      BY <3>1, <3>2
  <2> QED
    BY <2>1
<1>5. NextConn \in Unused
  <2> HIDE DEF Unused
  <2> QED
    BY <1>4 DEF NextConn
<1> QED
  BY <1>5 DEF Unused

\* p dials n with the session s; its former socket may be closed.
LEMMA DialledInv ==
    ASSUME IInv, NEW p \in Players, NEW s \in Clients, NEW n \in Conns, sock[n] = "unused",
           s.conn = n, s.token \in {0, client[p].token},
           sock' \in [Conns -> {"unused", "dialing", "open", "closed"}], sock'[n] = "dialing",
           \A d \in Conns \ {n} : \/ sock'[d] = sock[d]
                                  \/ sock'[d] = "closed" /\ d = client[p].conn,
           owner' = [owner EXCEPT ![n] = p], client' = [client EXCEPT ![p] = s],
           up' \in [Conns -> Seq(UpMsgs)], \A d \in Conns : up'[d] \in {up[d], <<>>},
           down' \in [Conns -> Seq(DownMsgs)], \A d \in Conns : down'[d] \in {down[d], <<>>},
           UNCHANGED <<relay, cut, faults>>
    PROVE  IInv'
<1>1. Safe
  BY IInvParts
<1>2. /\ owner' \in [Conns -> People] /\ owner'[n] = p
      /\ \A d \in Conns \ {n} : owner'[d] = owner[d]
  BY <1>1 DEF Safe, TypeOK, People
<1>3. /\ client' \in [Players -> Clients] /\ client'[p] = s
      /\ \A q \in Players \ {p} : client'[q] = client[q]
  BY <1>1 DEF Safe, TypeOK
<1>4. TypeOK'
  BY <1>1, <1>2, <1>3 DEF Safe, TypeOK
<1>5. Linked'
  <2>1. ASSUME NEW q \in Players, client'[q].conn # NoConn
        PROVE  owner'[client'[q].conn] = q /\ sock'[client'[q].conn] \in {"dialing", "open"}
    <3>1. CASE q = p
      BY <1>2, <1>3, <3>1
    <3>2. CASE q # p
      <4>1. client'[q] = client[q]
        BY <1>3, <3>2
      <4>2. /\ client[q].conn \in Conns /\ owner[client[q].conn] = q
            /\ sock[client[q].conn] \in {"dialing", "open"}
        BY <1>1, <2>1, <4>1, ConnOf
      <4>3. client[q].conn # client[p].conn
        BY <1>1, <3>2, <4>2, ConnOf, ConnFacts
      <4>4. client[q].conn # n
        BY <4>2
      <4> QED
        BY <1>2, <4>1, <4>2, <4>3, <4>4
    <3> QED
      BY <3>1, <3>2
  <2>2. ASSUME NEW d \in Conns, sock'[d] = "unused" PROVE up'[d] = <<>> /\ down'[d] = <<>>
    <3>1. sock[d] = "unused"
      BY <2>2
    <3>2. up[d] = <<>> /\ down[d] = <<>>
      BY <1>1, <3>1 DEF Safe, Linked
    <3> QED
      BY <3>2
  <2>3. ASSUME NEW d \in Conns, owner'[d] \in Players PROVE sock'[d] # "unused"
    <3>1. d # n => sock[d] # "unused"
      BY <1>1, <1>2, <2>3 DEF Safe, Linked
    <3> QED
      BY <3>1
  <2> QED
    BY <2>1, <2>2, <2>3 DEF Linked
<1>6. relay' = relay /\ relay.out = Silent
  BY <1>1 DEF Safe
<1>7. ASSUME NEW drawn, Good(relay, drawn, owner)
      PROVE  Good(relay', drawn, owner')
  <2>1. n \notin relay.live
    BY <1>1, <1>7 DEF Safe, Linked, Good, Traced
  <2>2. \A c \in relay.live : owner'[c] = owner[c]
    BY <1>2, <1>7, <2>1, RelayFields DEF Good
  <2>3. Good(relay, drawn, owner')
    BY <1>6, <1>7, <2>2, OwnersGood
  <2> QED
    BY <1>6, <2>3
<1>8. \A c \in Conns : owner'[c] = owner[c] \/ (up'[c] = <<>> /\ down'[c] = <<>>)
  <2>1. up[n] = <<>> /\ down[n] = <<>>
    BY <1>1 DEF Safe, Linked
  <2> QED
    BY <1>2, <2>1
<1>9. \A q \in Players : client'[q].token # 0 => client'[q].token = client[q].token
  BY <1>3
<1>10. ASSUME NEW c \in Conns, NEW i \in DOMAIN up'[c]
       PROVE  \E j \in DOMAIN up[c] : up'[c][i] = up[c][j]
  <2>1. Within(up'[c], up[c])
    BY WithinItself
  <2> QED
    BY <1>10, <2>1 DEF Within
<1>11. \A c \in Conns : Within(down'[c], down[c])
  BY WithinItself
<1>12. relay'.out = Silent /\ relay'.issued = relay.issued
  BY <1>6
<1> QED
  BY <1>4, <1>5, <1>7, <1>8, <1>9, <1>10, <1>11, <1>12, QuietStep

LEMMA OfflineIs == Offline \in Clients /\ Offline.token = 0 /\ Offline.conn = NoConn
BY DEF Offline, Clients, Ends, People, Nobody

LEMMA DialInv ==
    ASSUME IInv, NEW p \in Players, NEW s \in Clients, s.token \in {0, client[p].token},
           Dial(p, s)
    PROVE  IInv'
<1> DEFINE n == NextConn
           t == [s EXCEPT !.conn = n]
<1>1. Safe
  BY IInvParts
<1>2. n \in Conns /\ sock[n] = "unused"
  BY NextConnFacts DEF Dial
<1>3. /\ sock' = [sock EXCEPT ![n] = "dialing"] /\ owner' = [owner EXCEPT ![n] = p]
      /\ client' = [client EXCEPT ![p] = t] /\ UNCHANGED <<relay, up, down, cut, faults>>
  BY DEF Dial
<1> HIDE DEF n
<1>4. t \in Clients /\ t.conn = n /\ t.token = s.token
  BY <1>2 DEF Clients, Ends
<1> HIDE DEF t
<1>5. /\ sock' \in [Conns -> {"unused", "dialing", "open", "closed"}]
      /\ sock'[n] = "dialing" /\ \A d \in Conns \ {n} : sock'[d] = sock[d]
  BY <1>1, <1>2, <1>3 DEF Safe, TypeOK
<1>6. /\ up' \in [Conns -> Seq(UpMsgs)] /\ \A d \in Conns : up'[d] \in {up[d], <<>>}
      /\ down' \in [Conns -> Seq(DownMsgs)] /\ \A d \in Conns : down'[d] \in {down[d], <<>>}
  BY <1>1, <1>3 DEF Safe, TypeOK
<1> QED
  BY <1>2, <1>3, <1>4, <1>5, <1>6, DialledInv

LEMMA OpenSessionInv ==
    ASSUME IInv, NEW p \in Players, OpenSession(p)
    PROVE  IInv'
<1> DEFINE s == [Offline EXCEPT !.phase = "setup"]
<1>1. s \in Clients /\ s.token = 0
  BY DEF Offline, Clients, Ends, People, Nobody
<1>2. Dial(p, s)
  BY DEF OpenSession
<1> HIDE DEF s
<1> QED
  BY <1>1, <1>2, DialInv

LEMMA DriveReconnectInv ==
    ASSUME IInv, NEW p \in Players, DriveReconnect(p)
    PROVE  IInv'
<1>1. client[p] \in Clients
  BY IInvParts, ConnOf
<1> QED
  BY <1>1, DialInv DEF DriveReconnect

LEMMA OpenAgainInv ==
    ASSUME IInv, OpenAgain
    PROVE  IInv'
<1> DEFINE n == NextConn
           c == client[Host].conn
           t == [client[Host] EXCEPT !.conn = n]
<1>1. Safe /\ Host \in Players
  BY IInvParts DEF Players
<1>2. n \in Conns /\ sock[n] = "unused"
  BY NextConnFacts DEF OpenAgain
<1>3. /\ c # NoConn
      /\ sock' = [Closed(c) EXCEPT ![n] = "dialing"]
      /\ up' = IF sock[c] = "dialing" THEN [up EXCEPT ![c] = <<>>] ELSE up
      /\ down' = Emptied(c)
      /\ owner' = [owner EXCEPT ![n] = Host]
      /\ client' = [client EXCEPT ![Host] = t]
      /\ UNCHANGED <<relay, cut, faults>>
  BY DEF OpenAgain
<1> HIDE DEF n
<1>4. client[Host] \in Clients /\ c \in Conns
  BY <1>1, <1>3, ConnOf
<1>5. t \in Clients /\ t.conn = n /\ t.token = client[Host].token
  BY <1>2, <1>4 DEF Clients, Ends
<1> HIDE DEF t
<1>6. /\ sock' \in [Conns -> {"unused", "dialing", "open", "closed"}]
      /\ sock'[n] = "dialing"
      /\ \A d \in Conns \ {n} : sock'[d] = sock[d] \/ (sock'[d] = "closed" /\ d = c)
  BY <1>1, <1>2, <1>3 DEF Safe, TypeOK, Closed
<1>7. <<>> \in Seq(UpMsgs) /\ <<>> \in Seq(DownMsgs)
  OBVIOUS
<1>8. up' \in [Conns -> Seq(UpMsgs)] /\ \A d \in Conns : up'[d] \in {up[d], <<>>}
  BY <1>1, <1>3, <1>4, <1>7 DEF Safe, TypeOK
<1>9. down' \in [Conns -> Seq(DownMsgs)] /\ \A d \in Conns : down'[d] \in {down[d], <<>>}
  BY <1>1, <1>3, <1>7 DEF Safe, TypeOK, Emptied
<1> QED
  BY <1>1, <1>2, <1>3, <1>5, <1>6, <1>8, <1>9, DialledInv

LEMMA ConnectionUpInv ==
    ASSUME IInv, NEW p \in Players, ConnectionUp(p)
    PROVE  IInv'
<1> DEFINE c == client[p].conn
           m == [t |-> "hello", who |-> p, role |-> RoleOf(p), token |-> client[p].token]
<1>1. Safe
  BY IInvParts
<1>2. /\ c \in Conns /\ owner[c] = p /\ client[p] \in Clients
      /\ \A q \in Players \ {p} : client[q].conn # c
  BY <1>1, ConnOf DEF ConnectionUp
<1>3. /\ sock' = [sock EXCEPT ![c] = "open"] /\ relay' = Accept(relay, c)
      /\ up' = Written(c, <<m>>) /\ UNCHANGED <<down, owner, cut, client, faults>>
  BY DEF ConnectionUp
<1>4. m \in UpMsgs /\ m.t = "hello" /\ m.who = p /\ m.token = client[p].token
  BY <1>2 DEF UpMsgs, RoleOf, Roles, Clients
<1> HIDE DEF m, c
<1>5. <<m>> \in Seq(UpMsgs) /\ TypeOK /\ c \in Ends
  BY <1>1, <1>2, <1>4 DEF Safe, Ends
<1>6. /\ up' \in [Conns -> Seq(UpMsgs)]
      /\ \A d \in Conns : sock[d] = "unused" => (c # d => up'[d] = up[d])
      /\ \A d \in Conns : \A i \in DOMAIN up'[d] :
           \/ \E j \in DOMAIN up[d] : up'[d][i] = up[d][j]
           \/ d = c /\ up'[d][i] = m
  <2>1. /\ Written(c, <<m>>) \in [Conns -> Seq(UpMsgs)]
        /\ \A d \in Conns : sock[d] = "unused" => (c # d => Written(c, <<m>>)[d] = up[d])
        /\ \A d \in Conns : \A i \in DOMAIN Written(c, <<m>>)[d] :
             \/ \E j \in DOMAIN up[d] : Written(c, <<m>>)[d][i] = up[d][j]
             \/ d = c /\ \E j \in DOMAIN <<m>> : Written(c, <<m>>)[d][i] = <<m>>[j]
    BY <1>5, WrittenFacts
  <2>2. \A j \in DOMAIN <<m>> : <<m>>[j] = m
    OBVIOUS
  <2> QED
    BY <1>3, <2>1, <2>2
<1>7. /\ sock' \in [Conns -> {"unused", "dialing", "open", "closed"}] /\ sock'[c] = "open"
      /\ \A d \in Conns \ {c} : sock'[d] = sock[d]
  BY <1>1, <1>2, <1>3 DEF Safe, TypeOK
<1>8. ASSUME NEW drawn, Good(relay, drawn, owner)
      PROVE  /\ Good(relay', drawn, owner') /\ relay'.issued = relay.issued
             /\ relay'.out = Silent
  BY <1>1, <1>2, <1>3, <1>8, AcceptGood DEF Safe
<1>9. PICK drawn \in Drawn(relay.issued) : Holds(drawn)
  BY IInvParts
<1>10. relay' \in Relays /\ relay'.issued = relay.issued /\ relay'.out = Silent
  BY <1>8, <1>9 DEF Holds, Good
<1>11. TypeOK'
  BY <1>1, <1>3, <1>6, <1>7, <1>10 DEF Safe, TypeOK
<1>12. Linked'
  <2>1. ASSUME NEW q \in Players, client'[q].conn # NoConn
        PROVE  owner'[client'[q].conn] = q /\ sock'[client'[q].conn] \in {"dialing", "open"}
    <3>1. /\ client[q].conn \in Conns /\ owner[client[q].conn] = q
          /\ sock[client[q].conn] \in {"dialing", "open"}
      BY <1>1, <1>3, <2>1, ConnOf
    <3> QED
      BY <1>3, <1>7, <3>1
  <2>2. ASSUME NEW d \in Conns, sock'[d] = "unused" PROVE up'[d] = <<>> /\ down'[d] = <<>>
    <3>1. d # c /\ sock[d] = "unused"
      BY <1>7, <2>2
    <3> QED
      BY <1>1, <1>3, <1>6, <3>1 DEF Safe, Linked
  <2>3. ASSUME NEW d \in Conns, owner'[d] \in Players PROVE sock'[d] # "unused"
    BY <1>1, <1>3, <1>7, <2>3 DEF Safe, Linked
  <2> QED
    BY <2>1, <2>2, <2>3 DEF Linked
<1>13. \A d \in Conns : Within(down'[d], down[d])
  BY <1>3, WithinItself
<1>14. ASSUME NEW d \in Conns, NEW i \in DOMAIN up'[d]
       PROVE  \/ \E j \in DOMAIN up[d] : up'[d][i] = up[d][j]
              \/ /\ owner[d] \in Players /\ up'[d][i].who = owner[d]
                 /\ up'[d][i].token = client[owner[d]].token
  BY <1>2, <1>4, <1>6, <1>14
<1>15. owner' = owner /\ client' = client
  BY <1>3
<1> QED
  BY <1>8, <1>10, <1>11, <1>12, <1>13, <1>14, <1>15, QuietStep

-----------------------------------------------------------------------------
(* Closing *)

LEMMA EndInv ==
    ASSUME IInv, NEW p \in Players, NEW last \in {Bye, <<>>}, Close(p, Offline, last)
    PROVE  IInv'
<1>1. last \in Seq(UpMsgs) /\ \A i \in DOMAIN last : last[i].t # "hello"
  <2>1. CASE last = Bye
    <3>1. [t |-> "bye"] \in Saids
      BY DEF Saids, UpMsgs
    <3> QED
      BY <2>1, <3>1, Said DEF Bye
  <2>2. CASE last = <<>>
    BY <2>2, SaidNothing
  <2> QED
    BY <2>1, <2>2
<1> QED
  BY <1>1, OfflineIs, CloseInv

LEMMA ShutDownInv ==
    ASSUME IInv, NEW p \in Players, ShutDown(p) \/ Fail(p)
    PROVE  IInv'
BY EndInv DEF ShutDown, Fail

LEMMA ConnectionFailedInv ==
    ASSUME IInv, NEW p \in Players, ConnectionFailed(p)
    PROVE  IInv'
<1>1. client[p] \in Clients
  BY IInvParts, ConnOf
<1>2. CASE client[p].reconnecting
  <2>1. Close(p, client[p], <<>>)
    BY <1>2 DEF ConnectionFailed
  <2> QED
    BY <1>1, <2>1, SaidNothing, CloseInv
<1>3. CASE ~client[p].reconnecting
  BY <1>3, EndInv DEF ConnectionFailed
<1> QED
  BY <1>2, <1>3

LEMMA ConnectionLostInv ==
    ASSUME IInv, NEW p \in Players, ConnectionLost(p)
    PROVE  IInv'
<1> DEFINE s == [client[p] EXCEPT !.reconnecting = TRUE]
<1>1. client[p] \in Clients
  BY IInvParts, ConnOf
<1>2. s \in Clients /\ s.token = client[p].token
  BY <1>1 DEF Clients
<1>3. Close(p, s, <<>>) \/ Fail(p)
  BY DEF ConnectionLost
<1> HIDE DEF s
<1> QED
  BY <1>2, <1>3, SaidNothing, CloseInv, ShutDownInv

-----------------------------------------------------------------------------
(* Reading and talking *)

\* What a client sends besides hello.
Talk(msgs) == msgs \in Seq(UpMsgs) /\ \A i \in DOMAIN msgs : msgs[i].t # "hello"

LEMMA TalkFacts ==
    /\ Talk(<<>>)
    /\ \A m \in Saids : Talk(<<m>>)
    /\ \A t \in {"bye", "kick", "ready", "run_ended"} : [t |-> t] \in Saids
    /\ \A n \in Nat : [t |-> "floor", rev |-> n] \in Saids
<1>1. Talk(<<>>)
  BY SaidNothing DEF Talk
<1>2. \A m \in Saids : Talk(<<m>>)
  BY Said DEF Talk
<1>3. /\ \A t \in {"bye", "kick", "ready", "run_ended"} : [t |-> t] \in Saids
      /\ \A n \in Nat : [t |-> "floor", rev |-> n] \in Saids
  BY DEF Saids, UpMsgs, FloorMsgs
<1> QED
  BY <1>1, <1>2, <1>3

\* The session s with a new floor.
LEMMA FloorFacts ==
    ASSUME NEW s \in Clients
    PROVE  /\ WithFloor(s) \in Clients /\ WithFloor(s).conn = s.conn
           /\ WithFloor(s).token = s.token /\ Talk(FloorMsg(s))
<1>1. s.rev + 1 \in Nat
  BY DEF Clients
<1>2. WithFloor(s) \in Clients /\ WithFloor(s).conn = s.conn /\ WithFloor(s).token = s.token
  BY <1>1 DEF Clients, WithFloor
<1>3. [t |-> "floor", rev |-> s.rev + 1] \in Saids
  BY <1>1, TalkFacts
<1>4. Talk(FloorMsg(s))
  BY <1>3, TalkFacts DEF FloorMsg
<1> QED
  BY <1>2, <1>4

\* Nothing is read.
LEMMA ActInv ==
    ASSUME IInv, NEW p \in Players, NEW s \in Clients, NEW msgs, Talk(msgs),
           s.conn = client[p].conn, s.token = client[p].token, Act(p, s, msgs)
    PROVE  IInv'
<1>1. down' = down /\ down \in [Conns -> Seq(DownMsgs)]
  BY IInvParts DEF Act, Safe, TypeOK
<1>2. down' \in [Conns -> Seq(DownMsgs)] /\ \A d \in Conns : Within(down'[d], down[d])
  BY <1>1, WithinItself
<1>3. /\ client' = [client EXCEPT ![p] = s] /\ up' = Written(client[p].conn, msgs)
      /\ UNCHANGED <<relay, sock, owner, cut, faults>>
  BY DEF Act
<1> QED
  BY <1>2, <1>3, TalkInv DEF Talk

\* A message is read.
Read(p, s) ==
    /\ client[p].conn # NoConn /\ down[client[p].conn] # <<>>
    /\ s \in Clients /\ s.conn = client[p].conn
    /\ \/ s.token = client[p].token
       \/ /\ Head(down[client[p].conn]).t = "welcome"
          /\ Head(down[client[p].conn]).token = s.token

LEMMA KeepInv ==
    ASSUME IInv, NEW p \in Players, NEW s, NEW msgs, Talk(msgs), Read(p, s), Keep(p, s, msgs)
    PROVE  IInv'
<1> DEFINE c == client[p].conn
<1>1. Safe
  BY IInvParts
<1>2. c \in Conns /\ owner[c] = p
  BY <1>1, ConnOf DEF Read
<1>3. down[c] \in Seq(DownMsgs) /\ down[c] # <<>> /\ down \in [Conns -> Seq(DownMsgs)]
  BY <1>1, <1>2 DEF Safe, TypeOK, Read
<1>4. /\ Tail(down[c]) \in Seq(DownMsgs) /\ Within(Tail(down[c]), down[c])
      /\ 1 \in DOMAIN down[c] /\ Head(down[c]) = down[c][1]
  BY <1>3, HeadTail
<1>5. /\ client' = [client EXCEPT ![p] = s] /\ up' = Written(client[p].conn, msgs)
      /\ down' = [down EXCEPT ![c] = Tail(@)]
      /\ UNCHANGED <<relay, sock, owner, cut, faults>>
  BY DEF Keep
<1>6. down' \in [Conns -> Seq(DownMsgs)] /\ \A d \in Conns : Within(down'[d], down[d])
  BY <1>2, <1>3, <1>4, <1>5, WithinItself
<1>7. \/ s.token = client[p].token
      \/ \E d \in Conns : \E i \in DOMAIN down[d] :
           /\ down[d][i].t = "welcome" /\ down[d][i].token = s.token
           /\ owner[d] = p
  BY <1>2, <1>4 DEF Read
<1>8. s \in Clients /\ s.conn = client[p].conn
  BY DEF Read
<1> HIDE DEF c
<1> QED
  BY <1>5, <1>6, <1>7, <1>8, TalkInv DEF Talk

\* A session that keeps its socket and its token reads a message.
LEMMA SameInv ==
    ASSUME IInv, NEW p \in Players, NEW s \in Clients, s.conn = client[p].conn,
           s.token = client[p].token, client[p].conn # NoConn, down[client[p].conn] # <<>>,
           Keep(p, s, <<>>) \/ KeepAndSendFloor(p, s)
    PROVE  IInv'
<1>1. CASE Keep(p, s, <<>>)
  <2>1. Read(p, s) /\ Talk(<<>>)
    BY TalkFacts DEF Read
  <2> QED
    BY <1>1, <2>1, KeepInv
<1>2. CASE KeepAndSendFloor(p, s)
  <2>1. Read(p, WithFloor(s)) /\ Talk(FloorMsg(s))
    BY FloorFacts DEF Read
  <2> QED
    BY <1>2, <2>1, KeepInv DEF KeepAndSendFloor
<1> QED
  BY <1>1, <1>2

-----------------------------------------------------------------------------
(* What the clients do with what they read *)

LEMMA OnWelcomeInv ==
    ASSUME IInv, NEW p \in Players, client[p].conn # NoConn, down[client[p].conn] # <<>>,
           Head(down[client[p].conn]).t = "welcome",
           OnWelcome(p, Head(down[client[p].conn]))
    PROVE  IInv'
<1> DEFINE m == Head(down[client[p].conn])
           s == [client[p] EXCEPT !.reconnecting = FALSE, !.token = m.token,
                                  !.partner = IF m.partner = "nobody" THEN @ ELSE m.partner]
           lobby == [s EXCEPT !.phase = "lobby", !.screen = "lobby"]
           waits == [s EXCEPT !.awaiting = TRUE]
<1>1. client[p] \in Clients /\ client[p].conn \in Conns
  BY IInvParts, ConnOf
<1>2. m \in DownMsgs /\ m.t = "welcome"
  <2>1. down[client[p].conn] \in Seq(DownMsgs)
    BY <1>1, IInvParts DEF Safe, TypeOK
  <2> QED
    BY <2>1, HeadTail
<1>3. m.token \in Nat /\ m.partner \in People
  BY <1>2 DEF DownMsgs, FloorMsgs
<1>4. Keep(p, lobby, <<>>) \/ Keep(p, s, <<>>) \/ KeepAndSendFloor(p, s) \/ Keep(p, waits, <<>>)
  BY DEF OnWelcome
<1>5. s \in Clients /\ s.conn = client[p].conn /\ s.token = m.token
  BY <1>1, <1>3 DEF Clients
<1> HIDE DEF s
<1>6. /\ lobby \in Clients /\ lobby.conn = client[p].conn /\ lobby.token = m.token
      /\ waits \in Clients /\ waits.conn = client[p].conn /\ waits.token = m.token
  BY <1>5 DEF Clients
<1>7. Read(p, s) /\ Read(p, lobby) /\ Read(p, waits)
  BY <1>2, <1>5, <1>6 DEF Read
<1>8. Read(p, WithFloor(s)) /\ Talk(FloorMsg(s))
  BY <1>2, <1>5, FloorFacts DEF Read
<1> HIDE DEF m, lobby, waits
<1>9. Keep(p, lobby, <<>>) \/ Keep(p, s, <<>>) \/ Keep(p, waits, <<>>)
        \/ Keep(p, WithFloor(s), FloorMsg(s))
  BY <1>4 DEF KeepAndSendFloor
<1> QED
  BY <1>7, <1>8, <1>9, KeepInv, TalkFacts

LEMMA OnPartnerJoinedInv ==
    ASSUME IInv, NEW p \in Players, client[p].conn # NoConn, down[client[p].conn] # <<>>,
           NEW m \in DownMsgs, m.t = "partner_joined", OnPartnerJoined(p, m)
    PROVE  IInv'
<1> DEFINE s == [client[p] EXCEPT !.partner = m.who,
                    !.knocking = IF p = Host /\ ~client[p].started THEN TRUE ELSE @]
<1>1. client[p] \in Clients /\ m.who \in People
  BY IInvParts, ConnOf DEF DownMsgs, FloorMsgs, People
<1>2. s \in Clients /\ s.conn = client[p].conn /\ s.token = client[p].token
  BY <1>1 DEF Clients
<1>3. Keep(p, s, <<>>)
  BY DEF OnPartnerJoined
<1> HIDE DEF s
<1> QED
  BY <1>2, <1>3, SameInv

LEMMA OnStartInv ==
    ASSUME IInv, NEW p \in Players, client[p].conn # NoConn, down[client[p].conn] # <<>>,
           NEW m \in DownMsgs, m.t = "start", OnStart(p, m)
    PROVE  IInv'
<1> DEFINE s == [client[p] EXCEPT !.started = TRUE, !.phase = "active"]
           plays == [s EXCEPT !.partner = m.joiner, !.active = TRUE, !.screen = "playing"]
           waits == [s EXCEPT !.partner = Host, !.awaiting = TRUE]
<1>1. client[p] \in Clients /\ m.joiner \in People /\ Host \in People
  BY IInvParts, ConnOf DEF DownMsgs, FloorMsgs, People, Players
<1>2. s \in Clients /\ s.conn = client[p].conn /\ s.token = client[p].token
  BY <1>1 DEF Clients
<1>3. Keep(p, client[p], <<>>) \/ KeepAndSendFloor(p, plays) \/ Keep(p, waits, <<>>)
  BY DEF OnStart
<1> HIDE DEF s
<1>4. /\ plays \in Clients /\ plays.conn = client[p].conn /\ plays.token = client[p].token
      /\ waits \in Clients /\ waits.conn = client[p].conn /\ waits.token = client[p].token
  BY <1>1, <1>2 DEF Clients
<1> HIDE DEF plays, waits
<1> QED
  BY <1>1, <1>3, <1>4, SameInv

LEMMA OnFloorInv ==
    ASSUME IInv, NEW p \in Players, client[p].conn # NoConn, down[client[p].conn] # <<>>,
           NEW m \in DownMsgs, m.t = "floor", OnFloor(p, m)
    PROVE  IInv'
<1> DEFINE s == [client[p] EXCEPT !.rev = m.rev, !.awaiting = FALSE,
                                  !.active = TRUE, !.screen = "playing"]
<1>1. client[p] \in Clients /\ m.rev \in Nat
  BY IInvParts, ConnOf DEF DownMsgs, FloorMsgs
<1>2. s \in Clients /\ s.conn = client[p].conn /\ s.token = client[p].token
  BY <1>1 DEF Clients
<1>3. Keep(p, s, <<>>)
  BY DEF OnFloor
<1> HIDE DEF s
<1> QED
  BY <1>2, <1>3, SameInv

LEMMA OnPartnerLeftInv ==
    ASSUME IInv, NEW p \in Players, client[p].conn # NoConn, down[client[p].conn] # <<>>,
           OnPartnerLeft(p)
    PROVE  IInv'
<1> DEFINE s == [client[p] EXCEPT !.partner = "nobody", !.knocking = FALSE]
<1>1. client[p] \in Clients
  BY IInvParts, ConnOf
<1>2. s \in Clients /\ s.conn = client[p].conn /\ s.token = client[p].token
  BY <1>1 DEF Clients, People, Nobody
<1>3. ShutDown(p) \/ Keep(p, s, <<>>) \/ Keep(p, client[p], <<>>)
  BY DEF OnPartnerLeft
<1> HIDE DEF s
<1> QED
  BY <1>1, <1>2, <1>3, SameInv, ShutDownInv

LEMMA OnRunEndedInv ==
    ASSUME IInv, NEW p \in Players, client[p].conn # NoConn, down[client[p].conn] # <<>>,
           OnRunEnded(p)
    PROVE  IInv'
<1> DEFINE s == [client[p] EXCEPT !.screen = IF client[p].active THEN "over" ELSE @]
<1>1. client[p] \in Clients
  BY IInvParts, ConnOf
<1>2. s \in Clients /\ s.conn = client[p].conn /\ s.token = client[p].token
  BY <1>1 DEF Clients
<1>3. Keep(p, s, <<>>)
  BY DEF OnRunEnded
<1> HIDE DEF s
<1> QED
  BY <1>2, <1>3, SameInv

LEMMA ClientReadsInv ==
    ASSUME IInv, NEW p \in Players, ClientReads(p)
    PROVE  IInv'
<1> DEFINE c == client[p].conn
           m == Head(down[c])
<1>1. client[p] \in Clients /\ c # NoConn /\ down[c] # <<>>
  BY IInvParts, ConnOf DEF ClientReads
<1>2. m \in DownMsgs
  <2>1. c \in Conns
    BY <1>1, IInvParts, ConnOf
  <2>2. down[c] \in Seq(DownMsgs)
    BY <2>1, IInvParts DEF Safe, TypeOK
  <2> QED
    BY <1>1, <2>2, HeadTail
<1>3. CASE m.t = "welcome" /\ OnWelcome(p, m)
  BY <1>1, <1>3, OnWelcomeInv
<1>4. CASE m.t = "partner_disconnected" /\ Keep(p, client[p], <<>>)
  BY <1>1, <1>4, SameInv
<1>5. CASE m.t = "partner_rejoined" /\ OnPartnerRejoined(p)
  <2>1. KeepAndSendFloor(p, client[p]) \/ Keep(p, client[p], <<>>)
    BY <1>5 DEF OnPartnerRejoined
  <2> QED
    BY <1>1, <2>1, SameInv
<1>6. CASE m.t = "error" /\ OnError(p, m)
  <2>1. ShutDown(p) \/ Keep(p, client[p], <<>>) \/ Close(p, Offline, <<>>)
    BY <1>6 DEF OnError
  <2> QED
    BY <1>1, <2>1, SameInv, ShutDownInv, EndInv
<1>7. CASE m.t = "partner_left" /\ OnPartnerLeft(p)
  BY <1>1, <1>7, OnPartnerLeftInv
<1>8. CASE m.t = "run_ended" /\ OnRunEnded(p)
  BY <1>1, <1>8, OnRunEndedInv
<1>9. \/ m.t = "welcome" /\ OnWelcome(p, m)
      \/ m.t = "partner_joined" /\ OnPartnerJoined(p, m)
      \/ m.t = "start" /\ OnStart(p, m)
      \/ m.t = "floor" /\ OnFloor(p, m)
      \/ m.t = "partner_disconnected" /\ Keep(p, client[p], <<>>)
      \/ m.t = "partner_rejoined" /\ OnPartnerRejoined(p)
      \/ m.t = "partner_left" /\ OnPartnerLeft(p)
      \/ m.t = "run_ended" /\ OnRunEnded(p)
      \/ m.t = "error" /\ OnError(p, m)
  BY DEF ClientReads
<1> HIDE DEF m
<1>10. CASE m.t = "partner_joined" /\ OnPartnerJoined(p, m)
  BY <1>1, <1>2, <1>10, OnPartnerJoinedInv
<1>11. CASE m.t = "start" /\ OnStart(p, m)
  BY <1>1, <1>2, <1>11, OnStartInv
<1>12. CASE m.t = "floor" /\ OnFloor(p, m)
  BY <1>1, <1>2, <1>12, OnFloorInv
<1> QED
  BY <1>3, <1>4, <1>5, <1>6, <1>7, <1>8, <1>9, <1>10, <1>11, <1>12

\* What the players do in a lobby and in a run.
LEMMA ActsInv ==
    ASSUME IInv, Admit \/ TurnAway \/ Descend \/ EndRun \/ \E p \in Players : ReadyUp(p)
    PROVE  IInv'
<1>1. Host \in Players /\ client[Host] \in Clients
  BY IInvParts, ConnOf DEF Players
<1>2. CASE Admit
  <2> DEFINE s == [client[Host] EXCEPT !.knocking = FALSE]
  <2>1. s \in Clients /\ s.conn = client[Host].conn /\ s.token = client[Host].token
    BY <1>1 DEF Clients
  <2>2. Act(Host, s, <<>>)
    BY <1>2 DEF Admit
  <2> HIDE DEF s
  <2> QED
    BY <1>1, <2>1, <2>2, ActInv, TalkFacts
<1>3. CASE TurnAway
  <2> DEFINE s == [client[Host] EXCEPT !.knocking = FALSE, !.partner = "nobody"]
  <2>1. s \in Clients /\ s.conn = client[Host].conn /\ s.token = client[Host].token
    BY <1>1 DEF Clients, People, Nobody
  <2>2. Act(Host, s, <<[t |-> "kick"]>>)
    BY <1>3 DEF TurnAway
  <2>3. Talk(<<[t |-> "kick"]>>)
    BY TalkFacts
  <2> HIDE DEF s
  <2> QED
    BY <1>1, <2>1, <2>2, <2>3, ActInv
<1>4. CASE Descend
  <2> DEFINE s == client[Host]
  <2>1. Act(Host, WithFloor(s), FloorMsg(s))
    BY <1>4 DEF Descend
  <2>2. /\ WithFloor(s) \in Clients /\ WithFloor(s).conn = s.conn
        /\ WithFloor(s).token = s.token /\ Talk(FloorMsg(s))
    BY <1>1, FloorFacts
  <2> QED
    BY <1>1, <2>1, <2>2, ActInv
<1>5. CASE EndRun
  <2> DEFINE s == [client[Host] EXCEPT !.screen = "over"]
             msgs == IF client[Host].conn = NoConn THEN <<>> ELSE <<[t |-> "run_ended"]>>
  <2>1. s \in Clients /\ s.conn = client[Host].conn /\ s.token = client[Host].token
    BY <1>1 DEF Clients
  <2>2. Act(Host, s, msgs)
    BY <1>5 DEF EndRun
  <2>3. Talk(msgs)
    BY TalkFacts
  <2> HIDE DEF s, msgs
  <2> QED
    BY <1>1, <2>1, <2>2, <2>3, ActInv
<1>6. ASSUME NEW p \in Players, ReadyUp(p) PROVE IInv'
  <2> DEFINE s == [client[p] EXCEPT !.ready = TRUE]
  <2>1. s \in Clients /\ s.conn = client[p].conn /\ s.token = client[p].token
    <3>1. client[p] \in Clients
      BY IInvParts, ConnOf
    <3> QED
      BY <3>1 DEF Clients
  <2>2. Act(p, s, <<[t |-> "ready"]>>)
    BY <1>6 DEF ReadyUp
  <2>3. Talk(<<[t |-> "ready"]>>)
    BY TalkFacts
  <2> HIDE DEF s
  <2> QED
    BY <2>1, <2>2, <2>3, ActInv
<1> QED
  BY <1>2, <1>3, <1>4, <1>5, <1>6

-----------------------------------------------------------------------------
(* Faults, and the whole *)

\* A relay that starts.
LEMMA FreshGood ==
    ASSUME NEW R \in Relays, R.live = {}, R.seat = [c \in Conns |-> "none"],
           R.state = "none", R.slots = <<>>, R.out = Silent,
           NEW drawn \in Drawn(R.issued), NEW own
    PROVE  Good(R, drawn, own)
<1>1. DOMAIN R.slots = {}
  OBVIOUS
<1>2. \A c \in Conns : R.seat[c] = "none" /\ DOMAIN R.out[c] = {}
  BY SilentIs
<1> QED
  BY <1>1, <1>2 DEF Good, Shape, Paired, Traced

LEMMA FreshFacts ==
    ASSUME NEW n \in Nat
    PROVE  /\ [InitRelay EXCEPT !.issued = n] \in Relays
           /\ [InitRelay EXCEPT !.issued = n].issued = n
           /\ [InitRelay EXCEPT !.issued = n].out = Silent
           /\ \A own : \A drawn \in Drawn(n) : Good([InitRelay EXCEPT !.issued = n], drawn, own)
<1> DEFINE R == [InitRelay EXCEPT !.issued = n]
<1>1. <<>> \in SlotMaps /\ <<>> \in Seq(FloorMsgs)
  <2>1. <<>> \in [{} -> Slots]
    OBVIOUS
  <2>2. <<>> \in SlotMaps
    BY <2>1, SlotMapIs
  <2>3. <<>> \in Seq(FloorMsgs)
    OBVIOUS
  <2> QED
    BY <2>2, <2>3
<1>2. /\ R.live = {} /\ R.seat = [c \in Conns |-> "none"] /\ R.state = "none"
      /\ R.slots = <<>> /\ R.out = Silent /\ R.issued = n
  BY DEF InitRelay
<1>3. R \in Relays
  BY <1>1, SilentIs DEF InitRelay, Relays, SlotMaps
<1> HIDE DEF R
<1>4. \A own : \A drawn \in Drawn(n) : Good(R, drawn, own)
  BY <1>2, <1>3, FreshGood
<1> QED
  BY <1>2, <1>3, <1>4 DEF R

LEMMA CutInv ==
    ASSUME IInv, NEW c \in Conns, Cut(c)
    PROVE  IInv'
<1>1. Safe
  BY IInvParts
<1>2. /\ sock[c] = "open" /\ cut' = cut \cup {c} /\ UNCHANGED <<relay, sock, owner, client>>
      /\ faults' = faults + 1
  BY DEF Cut, Fault
<1>3. PICK i \in 0..Len(up[c]), j \in 0..Len(down[c]) :
         /\ up' = [up EXCEPT ![c] = SubSeq(@, 1, i)]
         /\ down' = [down EXCEPT ![c] = SubSeq(@, 1, j)]
  BY DEF Cut
<1>4. up[c] \in Seq(UpMsgs) /\ down[c] \in Seq(DownMsgs)
  BY <1>1 DEF Safe, TypeOK
<1>5. /\ SubSeq(up[c], 1, i) \in Seq(UpMsgs) /\ Within(SubSeq(up[c], 1, i), up[c])
      /\ SubSeq(down[c], 1, j) \in Seq(DownMsgs) /\ Within(SubSeq(down[c], 1, j), down[c])
  BY <1>4, PrefixWithin
<1>6. /\ up' \in [Conns -> Seq(UpMsgs)] /\ \A d \in Conns : Within(up'[d], up[d])
      /\ \A d \in Conns \ {c} : up'[d] = up[d]
  BY <1>1, <1>3, <1>5, WithinItself DEF Safe, TypeOK
<1>7. /\ down' \in [Conns -> Seq(DownMsgs)] /\ \A d \in Conns : Within(down'[d], down[d])
      /\ \A d \in Conns \ {c} : down'[d] = down[d]
  BY <1>1, <1>3, <1>5, WithinItself DEF Safe, TypeOK
<1>8. TypeOK'
  BY <1>1, <1>2, <1>6, <1>7 DEF Safe, TypeOK
<1>9. Linked'
  <2>1. \A d \in Conns : sock[d] = "unused" => up'[d] = up[d] /\ down'[d] = down[d]
    BY <1>2, <1>6, <1>7
  <2> QED
    BY <1>1, <1>2, <2>1 DEF Safe, Linked
<1>10. relay'.out = Silent /\ relay'.issued = relay.issued
  BY <1>1, <1>2 DEF Safe
<1>11. \A d \in Conns : \A k \in DOMAIN up'[d] : \E l \in DOMAIN up[d] : up'[d][k] = up[d][l]
  BY <1>6 DEF Within
<1> QED
  BY <1>2, <1>7, <1>8, <1>9, <1>10, <1>11, QuietStep

LEMMA RestartInv ==
    ASSUME IInv, Restart
    PROVE  IInv'
<1>1. Safe /\ relay.issued \in Nat
  BY IInvParts, RelayFields DEF Safe, TypeOK
<1>2. /\ relay' = [InitRelay EXCEPT !.issued = relay.issued]
      /\ cut' = cut \cup {c \in Conns : sock[c] = "open"}
      /\ up' = [c \in Conns |-> <<>>] /\ UNCHANGED <<down, sock, owner, client>>
      /\ faults' = faults + 1
  BY DEF Restart, Fault
<1>3. /\ relay' \in Relays /\ relay'.issued = relay.issued /\ relay'.out = Silent
      /\ \A own : \A drawn \in Drawn(relay.issued) : Good(relay', drawn, own)
  <2> DEFINE n == relay.issued
  <2> HIDE DEF n
  <2>1. n \in Nat /\ relay' = [InitRelay EXCEPT !.issued = n]
    BY <1>1, <1>2 DEF n
  <2>2. /\ relay' \in Relays /\ relay'.issued = n /\ relay'.out = Silent
        /\ \A own : \A drawn \in Drawn(n) : Good(relay', drawn, own)
    BY <2>1, FreshFacts
  <2> QED
    BY <2>2 DEF n
<1>4. up' \in [Conns -> Seq(UpMsgs)] /\ \A c \in Conns : up'[c] = <<>>
  <2>1. <<>> \in Seq(UpMsgs)
    OBVIOUS
  <2> QED
    BY <1>2, <2>1
<1>5. TypeOK'
  BY <1>1, <1>2, <1>3, <1>4 DEF Safe, TypeOK
<1>6. Linked'
  <2>1. down' = down /\ sock' = sock /\ owner' = owner /\ client' = client
    BY <1>2
  <2> QED
    BY <1>1, <1>4, <2>1 DEF Safe, Linked
<1>7. \A c \in Conns : DOMAIN up'[c] = {}
  <2>1. DOMAIN <<>> = {}
    OBVIOUS
  <2> QED
    BY <1>4, <2>1
<1>8. \A drawn : Good(relay, drawn, owner) => Good(relay', drawn, owner')
  BY <1>3 DEF Good
<1>9. \A c \in Conns : Within(down'[c], down[c])
  BY <1>2, WithinItself
<1> QED
  BY <1>2, <1>3, <1>5, <1>6, <1>7, <1>8, <1>9, QuietStep

LEMMA InitIInv == Init => IInv
<1> SUFFICES ASSUME Init PROVE IInv
  OBVIOUS
<1>1. /\ relay.live = {} /\ relay.seat = [c \in Conns |-> "none"] /\ relay.state = "none"
      /\ relay.slots = <<>> /\ relay.out = Silent /\ relay.issued = 0
  BY DEF Init, InitRelay
<1>2. /\ relay \in Relays
      /\ \A own : \A drawn \in Drawn(0) : Good(relay, drawn, own)
  <2>1. <<>> \in SlotMaps /\ <<>> \in Seq(FloorMsgs)
    <3>1. <<>> \in [{} -> Slots]
      OBVIOUS
    <3>2. <<>> \in SlotMaps
      BY <3>1, SlotMapIs
    <3>3. <<>> \in Seq(FloorMsgs)
      OBVIOUS
    <3> QED
      BY <3>2, <3>3
  <2>2. relay \in Relays
    BY <2>1, SilentIs DEF Init, InitRelay, Relays, SlotMaps
  <2> QED
    BY <1>1, <2>2, FreshGood
<1>3. <<>> \in Seq(UpMsgs) /\ <<>> \in Seq(DownMsgs) /\ DOMAIN <<>> = {}
  <2>1. <<>> \in Seq(UpMsgs) /\ <<>> \in Seq(DownMsgs)
    OBVIOUS
  <2>2. DOMAIN <<>> = {}
    OBVIOUS
  <2> QED
    BY <2>1, <2>2
<1>4. TypeOK
  <2>1. client \in [Players -> Clients]
    BY OfflineIs DEF Init
  <2>2. owner \in [Conns -> People]
    BY DEF Init, People, Nobody
  <2> QED
    BY <1>2, <1>3, <2>1, <2>2 DEF Init, TypeOK
<1>5. "nobody" \notin Players
  BY PlayersAssumption DEF Players
<1>6. Linked
  BY <1>5, OfflineIs DEF Init, Linked
<1>7. \A drawn : Tokens(drawn)
  BY <1>3, OfflineIs DEF Init, Tokens
<1>8. \E drawn : drawn \in Drawn(0)
  <2>1. [i \in 1..0 |-> Host] \in Drawn(0)
    BY DEF Drawn, Players
  <2> QED
    BY <2>1
<1> QED
  BY <1>1, <1>2, <1>4, <1>6, <1>7, <1>8 DEF IInv

LEMMA NextIInv == IInv /\ [Next]_vars => IInv'
<1> SUFFICES ASSUME IInv, [Next]_vars PROVE IInv'
  OBVIOUS
<1>1. ASSUME NEW c \in Conns, RelayReads(c) \/ RelaySeesEnd(c) \/ NoHello(c) \/ Cut(c)
      PROVE  IInv'
  BY <1>1, RelayReadsInv, RelaySeesEndInv, TimersInv, CutInv
<1>2. CASE (\E r \in Roles : GraceEnds(r)) \/ Idle \/ Restart
  BY <1>2, TimersInv, RestartInv
<1>3. ASSUME NEW p \in Players, Loop(p) PROVE IInv'
  BY <1>3, ConnectionUpInv, ConnectionLostInv, DriveReconnectInv, ShutDownInv, ClientReadsInv
     DEF Loop, DeadlinePasses
<1>4. ASSUME NEW p \in Players, ConnectionFailed(p) \/ User(p) PROVE IInv'
  BY <1>4, ConnectionFailedInv, OpenSessionInv, ActsInv, ShutDownInv, EndInv
     DEF User, Leave, BackOut
<1>5. CASE HostActs
  BY <1>5, OpenAgainInv, ActsInv DEF HostActs
<1>6. CASE UNCHANGED vars
  BY <1>6 DEF IInv, vars, TypeOK, Linked, Tokens
<1> QED
  BY <1>1, <1>2, <1>3, <1>4, <1>5, <1>6 DEF Next, Work

-----------------------------------------------------------------------------
(* Theorems *)

\* Every state of a behaviour satisfies the invariant: seats and connections
\* name each other (RoomHub._bind, _finalize_slot_departure, _hard_close) and
\* every token is in the hands of the player it was drawn for.
THEOREM Invariance == Spec => []IInv
BY InitIInv, NextIInv, PTL DEF Spec

\* The relay, the queues, the sockets and the clients keep their types: only
\* messages of the protocol are ever under way (server/room.py, net/mixin.py).
THEOREM TypeCorrect == Spec => []TypeOK
<1>1. IInv => TypeOK
  BY DEF IInv
<1> QED
  BY <1>1, Invariance, PTL

\* A connection that may act in the room is the one its seat points at, and the
\* player who dialled it is the one the seat was given to, after any sequence
\* of reconnections, kicks, cuts and restarts (RoomHub.handle_message acts on
\* the binding of the connection, _try_reconnect moves it).
THEOREM SeatOwnedHolds == Spec => []SeatOwned
<1>1. IInv => SeatOwned
  <2> SUFFICES ASSUME IInv, NEW c \in relay.live, relay.seat[c] # "none"
               PROVE  /\ relay.seat[c] \in DOMAIN relay.slots
                      /\ relay.slots[relay.seat[c]].conn = c
                      /\ relay.slots[relay.seat[c]].who = owner[c]
    BY DEF SeatOwned
  <2>1. PICK drawn : Good(relay, drawn, owner)
    BY DEF IInv
  <2>2. c \in Conns
    BY <2>1, RelayFields DEF Good
  <2> QED
    BY <2>1, <2>2, ConnFacts DEF Good, Paired, Traced
<1> QED
  BY <1>1, Invariance, PTL

-----------------------------------------------------------------------------
(* The floor: what is under way *)

\* A message of the kind t is under way on q; there is one at most.
Has(q, t) == \E i \in DOMAIN q : q[i].t = t
Once(q, t) == \A i, k \in DOMAIN q : q[i].t = t /\ q[k].t = t => i = k

\* The last floor of q is of revision n.
LastFloor(q, n) ==
    \A i \in DOMAIN q : q[i].t = "floor" /\ (\A k \in DOMAIN q : k > i => q[k].t # "floor")
                        => q[i].rev = n

\* A floor follows each message of q that makes a joiner wait for one.
Followed(q) ==
    \A i \in DOMAIN q : q[i].t \in {"welcome", "start"} =>
        \E k \in DOMAIN q : k > i /\ q[k].t = "floor"

HostSocks == {c \in Conns : owner[c] = Host}
NoneClosed == \A c \in HostSocks : sock[c] # "closed"

\* p's socket is the connection of its seat, and both ends think so.
Link(p) ==
    LET c == client[p].conn
    IN  /\ c \in relay.live \ cut /\ sock[c] = "open"
        /\ RoleOf(p) \in DOMAIN relay.slots /\ relay.slots[RoleOf(p)].conn = c

-----------------------------------------------------------------------------
(* The invariant, in parts *)

\* Who sits where; a run that has started is active; one floor is retained.
Roled(R) == \A r \in DOMAIN R.slots : RoleOf(R.slots[r].who) = r
Orderly(R) == (R.started => R.state = "active") /\ Len(R.floor) <= 1

Seated ==
    /\ Roled(relay) /\ Orderly(relay)
    /\ \A c \in Conns : \A i \in DOMAIN up[c] :
         up[c][i].t = "hello" => up[c][i].role = RoleOf(up[c][i].who)

\* A socket that is being dialled has brought nothing and said no hello.
Fresh ==
    \A c \in Conns : sock[c] \in {"unused", "dialing"} =>
        c \notin relay.live /\ down[c] = <<>> /\ ~Has(up[c], "hello")

\* A socket says one hello, and nothing is granted to it before.
Hellos ==
    \A c \in Conns :
        /\ Once(up[c], "hello")
        /\ relay.seat[c] # "none" \/ Has(down[c], "welcome") \/ Has(down[c], "start")
             => ~Has(up[c], "hello")

\* The host's session, from its fields.
HostSession ==
    LET s == client[Host]
    IN  /\ s.phase = "off" => /\ s.conn = NoConn /\ s.screen = "menu"
                              /\ ~s.started /\ ~s.ready /\ ~s.reconnecting
        /\ s.phase = "setup" => ~s.started
        /\ s.active => s.started
        /\ s.phase # "off" /\ s.conn = NoConn => ~NoneClosed

\* Floors go to joiners.
FloorsGoOut == \A c \in HostSocks : ~Has(down[c], "floor")

\* The host is ready once: its ready is read before the run begins, and what
\* is ready then starts with the run or not at all.
HostReady == "host" \in DOMAIN relay.slots /\ relay.slots["host"].ready
Waiting == \E c \in HostSocks : Has(up[c], "ready")
Begun ==
    \/ relay.started \/ relay.floor # <<>> \/ client[Host].started
    \/ \E c \in HostSocks : Has(down[c], "start") \/ Has(up[c], "floor")
ReadyOnce ==
    \A c, d \in HostSocks : \A i \in DOMAIN up[c], k \in DOMAIN up[d] :
        up[c][i].t = "ready" /\ up[d][k].t = "ready" => c = d /\ i = k
MayReady == ~client[Host].ready /\ (client[Host].phase # "off" \/ NoneClosed)

Lobby ==
    /\ ReadyOnce
    /\ Waiting => ~Begun /\ ~HostReady
    /\ HostReady /\ Begun => relay.started
    /\ MayReady => ~Waiting /\ ~Begun /\ ~HostReady

\* A host whose seat is reclaimed is about to be told; one that plays has its
\* hello behind it.
Back ==
    LET s == client[Host]
    IN  /\ Link(Host) /\ s.reconnecting => Has(down[s.conn], "welcome")
        /\ s.active /\ ~s.reconnecting /\ s.conn # NoConn =>
             sock[s.conn] = "open" /\ ~Has(up[s.conn], "hello")

\* The relay has the host's floor or is about to read it ...
Sent ==
    LET s == client[Host]
        q == up[s.conn]
    IN  relay.started /\ Link(Host) /\ s.active /\ ~s.reconnecting =>
          /\ LastFloor(q, s.rev)
          /\ ~Has(q, "floor") => relay.floor # <<>> /\ relay.floor[1].rev = s.rev

\* ... and a joiner shows the relay's floor or is about to read it.
Caught(q, n, s) ==
    /\ Followed(q) /\ LastFloor(q, n)
    /\ ~Has(q, "floor") => s.rev = n /\ ~s.awaiting

Shown ==
    \A j \in Joiners : relay.started /\ Link(j) /\ relay.floor # <<>> =>
        Caught(down[client[j].conn], relay.floor[1].rev, client[j])

FInv ==
    /\ Seated /\ Fresh /\ Hellos /\ HostSession /\ FloorsGoOut
    /\ Lobby /\ Back /\ Sent /\ Shown

-----------------------------------------------------------------------------
(* Queues *)

\* What a joiner may be sent without waiting for a floor, or getting one.
Marks == {"welcome", "start", "floor"}
Quiet(q) == \A i \in DOMAIN q : q[i].t \notin Marks

\* r has no message of the kind t that q has not, in the order of q.
Thin(r, q, t) ==
    \E o \in Nat : \A i \in DOMAIN r : r[i].t = t =>
        i + o \in DOMAIN q /\ q[i + o] = r[i]

\* The last of what is sent is the floor of revision n.
Closing(q, n) == q # <<>> /\ q[Len(q)].t = "floor" /\ q[Len(q)].rev = n

LEMMA ThinHas ==
    ASSUME NEW q, NEW r, NEW t, Thin(r, q, t)
    PROVE  Has(r, t) => Has(q, t)
BY DEF Thin, Has

LEMMA ThinOnce ==
    ASSUME NEW S, NEW q \in Seq(S), NEW r \in Seq(S), NEW t, Thin(r, q, t), Once(q, t)
    PROVE  Once(r, t)
<1>1. PICK o \in Nat : \A i \in DOMAIN r : r[i].t = t => i + o \in DOMAIN q /\ q[i + o] = r[i]
  BY DEF Thin
<1>2. ASSUME NEW i \in DOMAIN r, NEW k \in DOMAIN r, r[i].t = t, r[k].t = t
      PROVE  i = k
  <2>1. i + o \in DOMAIN q /\ q[i + o].t = t /\ k + o \in DOMAIN q /\ q[k + o].t = t
    BY <1>1, <1>2
  <2>2. i + o = k + o
    BY <2>1 DEF Once
  <2>3. i \in Nat /\ k \in Nat
    OBVIOUS
  <2> QED
    BY <2>2, <2>3
<1> QED
  BY <1>2 DEF Once

LEMMA ThinSame ==
    ASSUME NEW S, NEW q \in Seq(S), NEW t
    PROVE  Thin(q, q, t) /\ Thin(<<>>, q, t)
<1>1. \A i \in DOMAIN q : i + 0 \in DOMAIN q /\ q[i + 0] = q[i]
  OBVIOUS
<1>2. DOMAIN <<>> = {} /\ 0 \in Nat
  OBVIOUS
<1> QED
  BY <1>1, <1>2 DEF Thin

LEMMA ThinTail ==
    ASSUME NEW S, NEW q \in Seq(S), q # <<>>, NEW t
    PROVE  Thin(Tail(q), q, t)
<1>1. \A i \in DOMAIN Tail(q) : i + 1 \in DOMAIN q /\ Tail(q)[i] = q[i + 1]
  OBVIOUS
<1> QED
  BY <1>1 DEF Thin

LEMMA ThinPrefix ==
    ASSUME NEW S, NEW q \in Seq(S), NEW n \in 0..Len(q), NEW t
    PROVE  Thin(SubSeq(q, 1, n), q, t)
<1>1. \A i \in DOMAIN SubSeq(q, 1, n) : i + 0 \in DOMAIN q /\ SubSeq(q, 1, n)[i] = q[i + 0]
  OBVIOUS
<1> QED
  BY <1>1 DEF Thin

LEMMA ThinAppend ==
    ASSUME NEW S, NEW q \in Seq(S), NEW e \in Seq(S), NEW t, ~Has(e, t)
    PROVE  Thin(q \o e, q, t)
<1>1. ASSUME NEW i \in DOMAIN (q \o e), (q \o e)[i].t = t
      PROVE  i + 0 \in DOMAIN q /\ q[i + 0] = (q \o e)[i]
  <2>1. CASE i <= Len(q)
    BY <2>1
  <2>2. CASE i > Len(q)
    <3>1. i - Len(q) \in DOMAIN e /\ (q \o e)[i] = e[i - Len(q)]
      BY <2>2
    <3> QED
      BY <1>1, <3>1 DEF Has
  <2> QED
    BY <2>1, <2>2
<1> QED
  BY <1>1 DEF Thin

LEMMA HasAppend ==
    ASSUME NEW S, NEW q \in Seq(S), NEW e \in Seq(S), NEW t
    PROVE  /\ Has(q, t) => Has(q \o e, t)
           /\ Has(e, t) => Has(q \o e, t)
           /\ Has(q \o e, t) => Has(q, t) \/ Has(e, t)
<1>1. ASSUME NEW i \in DOMAIN q, q[i].t = t  PROVE Has(q \o e, t)
  <2>1. i \in DOMAIN (q \o e) /\ (q \o e)[i] = q[i]
    OBVIOUS
  <2> QED
    BY <1>1, <2>1 DEF Has
<1>2. ASSUME NEW i \in DOMAIN e, e[i].t = t  PROVE Has(q \o e, t)
  <2>1. i + Len(q) \in DOMAIN (q \o e) /\ (q \o e)[i + Len(q)] = e[i]
    OBVIOUS
  <2> QED
    BY <1>2, <2>1 DEF Has
<1>3. ASSUME NEW i \in DOMAIN (q \o e), (q \o e)[i].t = t  PROVE Has(q, t) \/ Has(e, t)
  <2>1. \/ i \in DOMAIN q /\ (q \o e)[i] = q[i]
        \/ i - Len(q) \in DOMAIN e /\ (q \o e)[i] = e[i - Len(q)]
    OBVIOUS
  <2> QED
    BY <1>3, <2>1 DEF Has
<1> QED
  BY <1>1, <1>2, <1>3 DEF Has

LEMMA HasTail ==
    ASSUME NEW S, NEW q \in Seq(S), q # <<>>, NEW t
    PROVE  /\ Has(Tail(q), t) => Has(q, t)
           /\ Has(q, t) /\ Head(q).t # t => Has(Tail(q), t)
           /\ Once(q, t) /\ Head(q).t = t => ~Has(Tail(q), t)
<1>1. Has(Tail(q), t) => Has(q, t)
  BY ThinTail, ThinHas
<1>2. ASSUME NEW i \in DOMAIN q, q[i].t = t, Head(q).t # t  PROVE Has(Tail(q), t)
  <2>1. i # 1
    BY <1>2
  <2>2. i - 1 \in DOMAIN Tail(q) /\ Tail(q)[i - 1] = q[i]
    BY <2>1
  <2> QED
    BY <1>2, <2>2 DEF Has
<1>3. ASSUME NEW i \in DOMAIN Tail(q), Tail(q)[i].t = t, Once(q, t), Head(q).t = t  PROVE FALSE
  <2>1. i + 1 \in DOMAIN q /\ q[i + 1].t = t /\ 1 \in DOMAIN q /\ q[1].t = t /\ i + 1 # 1
    BY <1>3
  <2> QED
    BY <1>3, <2>1 DEF Once
<1> QED
  BY <1>1, <1>2, <1>3 DEF Has

LEMMA QuietHas ==
    ASSUME NEW q, Quiet(q)
    PROVE  ~Has(q, "welcome") /\ ~Has(q, "start") /\ ~Has(q, "floor")
BY DEF Quiet, Has, Marks

\* The last floor of a queue that something is appended to ...
LEMMA LastFloorAppend ==
    ASSUME NEW S, NEW q \in Seq(S), NEW e \in Seq(S), NEW n, LastFloor(q, n), ~Has(e, "floor")
    PROVE  LastFloor(q \o e, n)
<1>1. ASSUME NEW i \in DOMAIN (q \o e), (q \o e)[i].t = "floor",
             \A k \in DOMAIN (q \o e) : k > i => (q \o e)[k].t # "floor"
      PROVE  (q \o e)[i].rev = n
  <2>1. \/ i \in DOMAIN q /\ (q \o e)[i] = q[i]
        \/ i - Len(q) \in DOMAIN e /\ (q \o e)[i] = e[i - Len(q)]
    OBVIOUS
  <2>2. i \in DOMAIN q /\ (q \o e)[i] = q[i]
    BY <1>1, <2>1 DEF Has
  <2>3. \A k \in DOMAIN q : k \in DOMAIN (q \o e) /\ (q \o e)[k] = q[k]
    OBVIOUS
  <2> QED
    BY <1>1, <2>2, <2>3 DEF LastFloor
<1> QED
  BY <1>1 DEF LastFloor

LEMMA FollowedAppend ==
    ASSUME NEW S, NEW q \in Seq(S), NEW e \in Seq(S), Followed(q), Quiet(e)
    PROVE  Followed(q \o e)
<1>1. ASSUME NEW i \in DOMAIN (q \o e), (q \o e)[i].t \in {"welcome", "start"}
      PROVE  \E k \in DOMAIN (q \o e) : k > i /\ (q \o e)[k].t = "floor"
  <2>1. \/ i \in DOMAIN q /\ (q \o e)[i] = q[i]
        \/ i - Len(q) \in DOMAIN e /\ (q \o e)[i] = e[i - Len(q)]
    OBVIOUS
  <2>2. i \in DOMAIN q /\ q[i].t \in {"welcome", "start"}
    BY <1>1, <2>1 DEF Quiet, Marks
  <2>3. PICK k \in DOMAIN q : k > i /\ q[k].t = "floor"
    BY <2>2 DEF Followed
  <2>4. k \in DOMAIN (q \o e) /\ (q \o e)[k] = q[k]
    OBVIOUS
  <2> QED
    BY <2>3, <2>4
<1> QED
  BY <1>1 DEF Followed

\* ... or a floor comes last of ...
LEMMA ClosingAppend ==
    ASSUME NEW S, NEW q \in Seq(S), NEW e \in Seq(S), NEW n, Closing(e, n)
    PROVE  Followed(q \o e) /\ LastFloor(q \o e, n) /\ Has(q \o e, "floor")
<1> DEFINE z == Len(q) + Len(e)
<1>1. Len(e) \in DOMAIN e /\ z \in DOMAIN (q \o e) /\ (q \o e)[z] = e[Len(e)]
  BY DEF Closing
<1>2. (q \o e)[z].t = "floor" /\ (q \o e)[z].rev = n
  BY <1>1 DEF Closing
<1>3. \A i \in DOMAIN (q \o e) : i \in Nat /\ (i = z \/ z > i)
  OBVIOUS
<1>4. z \in Nat
  OBVIOUS
<1> HIDE DEF z
<1>5. LastFloor(q \o e, n)
  BY <1>1, <1>2, <1>3 DEF LastFloor
<1>6. Followed(q \o e)
  BY <1>1, <1>2, <1>3 DEF Followed
<1>7. Has(q \o e, "floor")
  BY <1>1, <1>2 DEF Has
<1> QED
  BY <1>5, <1>6, <1>7

\* ... or that is read.
LEMMA LastFloorTail ==
    ASSUME NEW S, NEW q \in Seq(S), q # <<>>, NEW n, LastFloor(q, n)
    PROVE  /\ LastFloor(Tail(q), n)
           /\ Head(q).t = "floor" /\ ~Has(Tail(q), "floor") => Head(q).rev = n
<1>1. \A i \in DOMAIN Tail(q) : i + 1 \in DOMAIN q /\ Tail(q)[i] = q[i + 1]
  OBVIOUS
<1>2. \A k \in DOMAIN q : k = 1 \/ (k - 1 \in DOMAIN Tail(q) /\ q[k] = Tail(q)[k - 1])
  OBVIOUS
<1>3. ASSUME NEW i \in DOMAIN Tail(q), Tail(q)[i].t = "floor",
             \A k \in DOMAIN Tail(q) : k > i => Tail(q)[k].t # "floor"
      PROVE  Tail(q)[i].rev = n
  <2>1. i \in Nat /\ i + 1 \in DOMAIN q /\ q[i + 1] = Tail(q)[i]
    BY <1>1
  <2>2. ASSUME NEW k \in DOMAIN q, k > i + 1  PROVE q[k].t # "floor"
    <3>1. k \in Nat /\ k - 1 \in DOMAIN Tail(q) /\ q[k] = Tail(q)[k - 1] /\ k - 1 > i
      BY <1>2, <2>1, <2>2
    <3> QED
      BY <1>3, <3>1
  <2> QED
    BY <1>3, <2>1, <2>2 DEF LastFloor
<1>4. ASSUME Head(q).t = "floor", ~Has(Tail(q), "floor")  PROVE Head(q).rev = n
  <2>1. 1 \in DOMAIN q /\ q[1] = Head(q)
    OBVIOUS
  <2>2. ASSUME NEW k \in DOMAIN q, k > 1  PROVE q[k].t # "floor"
    <3>1. k - 1 \in DOMAIN Tail(q) /\ q[k] = Tail(q)[k - 1]
      BY <2>2
    <3> QED
      BY <1>4, <3>1 DEF Has
  <2> QED
    BY <1>4, <2>1, <2>2 DEF LastFloor
<1> QED
  BY <1>3, <1>4 DEF LastFloor

LEMMA FollowedTail ==
    ASSUME NEW S, NEW q \in Seq(S), q # <<>>, Followed(q)
    PROVE  /\ Followed(Tail(q))
           /\ Head(q).t \in {"welcome", "start"} => Has(Tail(q), "floor")
<1>1. \A i \in DOMAIN Tail(q) : i + 1 \in DOMAIN q /\ Tail(q)[i] = q[i + 1]
  OBVIOUS
<1>2. ASSUME NEW i \in DOMAIN Tail(q), Tail(q)[i].t \in {"welcome", "start"}
      PROVE  \E k \in DOMAIN Tail(q) : k > i /\ Tail(q)[k].t = "floor"
  <2>1. i \in Nat /\ i + 1 \in DOMAIN q /\ q[i + 1].t \in {"welcome", "start"}
    BY <1>1, <1>2
  <2>2. PICK k \in DOMAIN q : k > i + 1 /\ q[k].t = "floor"
    BY <2>1 DEF Followed
  <2>3. k - 1 \in DOMAIN Tail(q) /\ k - 1 > i /\ Tail(q)[k - 1] = q[k]
    BY <2>1, <2>2
  <2> QED
    BY <2>2, <2>3
<1>3. ASSUME Head(q).t \in {"welcome", "start"}  PROVE Has(Tail(q), "floor")
  <2>1. 1 \in DOMAIN q /\ q[1] = Head(q)
    OBVIOUS
  <2>2. PICK k \in DOMAIN q : k > 1 /\ q[k].t = "floor"
    BY <1>3, <2>1 DEF Followed
  <2>3. k - 1 \in DOMAIN Tail(q) /\ Tail(q)[k - 1] = q[k]
    BY <2>2
  <2> QED
    BY <2>2, <2>3 DEF Has
<1> QED
  BY <1>2, <1>3 DEF Followed

-----------------------------------------------------------------------------
(* The relay's handlers, as far as the floor depends on them *)

\* Nobody gets a seat, no run begins, and nothing sent makes a joiner wait.
Mild(R, Q) ==
    /\ Q.live \subseteq R.live
    /\ \A c \in Conns : Q.seat[c] \in {R.seat[c], "none"}
    /\ Q.started => R.started /\ Q.floor = R.floor
    /\ R.started => Q.started \/ DOMAIN Q.slots = {}
    /\ Q.floor \in {R.floor, <<>>}
    /\ DOMAIN Q.slots \subseteq DOMAIN R.slots
    /\ \A r \in DOMAIN Q.slots :
         /\ Q.slots[r].who = R.slots[r].who
         /\ Q.slots[r].ready => R.slots[r].ready
         /\ Q.slots[r].conn \in {R.slots[r].conn, NoConn}
    /\ \A c \in Conns : Quiet(R.out[c]) => Quiet(Q.out[c])
    /\ Orderly(R) => Orderly(Q)

LEMMA MildSame ==
    ASSUME NEW R, NEW Q, Alike(R, Q), \A c \in Conns : Quiet(R.out[c]) => Quiet(Q.out[c])
    PROVE  Mild(R, Q)
BY DEF Mild, Alike, Orderly

LEMMA MildTrans ==
    ASSUME NEW R, NEW P, NEW Q, Mild(R, P), Mild(P, Q)
    PROVE  Mild(R, Q)
<1>1. /\ Q.live \subseteq R.live
      /\ \A c \in Conns : Q.seat[c] \in {R.seat[c], "none"}
      /\ Q.floor \in {R.floor, <<>>}
  BY DEF Mild
<1>2. Q.started => R.started /\ Q.floor = R.floor
  BY DEF Mild
<1>3. R.started => Q.started \/ DOMAIN Q.slots = {}
  BY DEF Mild
<1>4. DOMAIN Q.slots \subseteq DOMAIN R.slots
  BY DEF Mild
<1>5. ASSUME NEW r \in DOMAIN Q.slots
      PROVE  /\ Q.slots[r].who = R.slots[r].who
             /\ Q.slots[r].ready => R.slots[r].ready
             /\ Q.slots[r].conn \in {R.slots[r].conn, NoConn}
  <2>1. r \in DOMAIN P.slots
    BY DEF Mild
  <2> QED
    BY <2>1 DEF Mild
<1>6. \A c \in Conns : Quiet(R.out[c]) => Quiet(Q.out[c])
  BY DEF Mild
<1>7. Orderly(R) => Orderly(Q)
  BY DEF Mild
<1> QED
  BY <1>1, <1>2, <1>3, <1>4, <1>5, <1>6, <1>7 DEF Mild

LEMMA QuietAppend ==
    ASSUME NEW S, NEW q \in Seq(S), NEW e \in Seq(S), Quiet(q), Quiet(e)
    PROVE  Quiet(q \o e)
<1>1. ASSUME NEW i \in DOMAIN (q \o e)  PROVE (q \o e)[i].t \notin Marks
  <2>1. \/ i \in DOMAIN q /\ (q \o e)[i] = q[i]
        \/ i - Len(q) \in DOMAIN e /\ (q \o e)[i] = e[i - Len(q)]
    OBVIOUS
  <2> QED
    BY <2>1 DEF Quiet
<1> QED
  BY <1>1 DEF Quiet

\* What a send changes.
LEMMA SendAllIs ==
    ASSUME NEW R \in Relays, NEW c \in Ends, NEW msgs \in Seq(DownMsgs)
    PROVE  /\ SendAll(R, c, msgs) \in Relays /\ Alike(R, SendAll(R, c, msgs))
           /\ \A d \in Conns : SendAll(R, c, msgs).out[d] =
                IF d = c /\ c \in R.live THEN R.out[d] \o msgs ELSE R.out[d]
<1> DEFINE Q == SendAll(R, c, msgs)
<1>1. CASE c \notin R.live
  BY <1>1 DEF SendAll, Alike
<1>2. CASE c \in R.live
  <2>1. c \in Conns
    BY <1>2, RelayFields
  <2> DEFINE out == [R.out EXCEPT ![c] = @ \o msgs]
  <2>2. R.out[c] \o msgs \in Seq(DownMsgs) /\ R.out \in [Conns -> Seq(DownMsgs)]
    BY <2>1, RelayFields
  <2>3. out \in [Conns -> Seq(DownMsgs)]
    BY <2>2
  <2>4. \A d \in Conns : out[d] = IF d = c THEN R.out[d] \o msgs ELSE R.out[d]
    BY <2>2
  <2>5. Q = [R EXCEPT !.out = out]
    BY <1>2 DEF SendAll
  <2> HIDE DEF Q, out
  <2>6. Q \in Relays /\ Alike(R, Q) /\ Q.out = out
    BY <2>3, <2>5, OutReplaced
  <2> QED
    BY <1>2, <2>4, <2>6 DEF Q
<1> QED
  BY <1>1, <1>2

LEMMA SendIs ==
    ASSUME NEW R \in Relays, NEW c \in Ends, NEW m \in DownMsgs
    PROVE  /\ Send(R, c, m) \in Relays /\ Alike(R, Send(R, c, m))
           /\ \A d \in Conns : Send(R, c, m).out[d] =
                IF d = c /\ c \in R.live THEN R.out[d] \o <<m>> ELSE R.out[d]
<1>1. <<m>> \in Seq(DownMsgs)
  OBVIOUS
<1> QED
  BY <1>1, SendAllIs DEF Send

LEMMA QuietOne ==
    ASSUME NEW m, m.t \notin Marks
    PROVE  Quiet(<<m>>)
BY DEF Quiet

LEMMA SendMild ==
    ASSUME NEW R \in Relays, NEW c \in Ends, NEW m \in DownMsgs, m.t \notin Marks
    PROVE  Send(R, c, m) \in Relays /\ Alike(R, Send(R, c, m)) /\ Mild(R, Send(R, c, m))
<1> DEFINE Q == Send(R, c, m)
<1>1. /\ Q \in Relays /\ Alike(R, Q)
      /\ \A d \in Conns : Q.out[d] = IF d = c /\ c \in R.live THEN R.out[d] \o <<m>> ELSE R.out[d]
  BY SendIs
<1> HIDE DEF Q
<1>2. ASSUME NEW d \in Conns, Quiet(R.out[d])  PROVE Quiet(Q.out[d])
  <2>1. R.out[d] \in Seq(DownMsgs) /\ <<m>> \in Seq(DownMsgs) /\ Quiet(<<m>>)
    BY RelayFields, QuietOne
  <2>2. Quiet(R.out[d] \o <<m>>)
    BY <1>2, <2>1, QuietAppend
  <2> QED
    BY <1>1, <1>2, <2>2
<1>3. Mild(R, Q)
  BY <1>1, <1>2, MildSame
<1> QED
  BY <1>1, <1>3 DEF Q

LEMMA SendPartnerMild ==
    ASSUME NEW R \in Relays, NEW r, NEW m \in DownMsgs, m.t \notin Marks
    PROVE  /\ SendPartner(R, r, m) \in Relays /\ Alike(R, SendPartner(R, r, m))
           /\ Mild(R, SendPartner(R, r, m))
<1>1. CASE Partner(r) \in DOMAIN R.slots
  <2>1. R.slots[Partner(r)].conn \in Ends
    BY <1>1, RelayFields, SlotMapFacts DEF Slots
  <2> QED
    BY <1>1, <2>1, SendMild DEF SendPartner
<1>2. CASE Partner(r) \notin DOMAIN R.slots
  <2>1. SendPartner(R, r, m) = R
    BY <1>2 DEF SendPartner
  <2>2. Alike(R, R)
    BY DEF Alike
  <2> QED
    BY <2>1, <2>2, MildSame
<1> QED
  BY <1>1, <1>2

LEMMA HardCloseMild ==
    ASSUME NEW R \in Relays, NEW c
    PROVE  Mild(R, HardClose(R, c))
<1> DEFINE Q == HardClose(R, c)
<1>1. /\ Q.live = R.live \ {c} /\ Q.slots = R.slots /\ Q.started = R.started
      /\ Q.out = R.out /\ Q.state = R.state /\ Q.floor = R.floor
      /\ Q.seat = [x \in Conns |-> IF x = c THEN "none" ELSE R.seat[x]]
  BY DEF HardClose, Relays
<1> HIDE DEF Q
<1>2. \A d \in Conns : Q.seat[d] \in {R.seat[d], "none"}
  BY <1>1
<1>3. Mild(R, Q)
  BY <1>1, <1>2 DEF Mild, Orderly
<1> QED
  BY <1>3 DEF Q

LEMMA CloseRoomMild ==
    ASSUME NEW R \in Relays
    PROVE  Mild(R, CloseRoom(R)) /\ Mild(R, MaybeCloseRoom(R))
<1> DEFINE Q == CloseRoom(R)
<1>1. /\ Q.slots = <<>> /\ Q.state = "none" /\ ~Q.started /\ Q.floor = <<>> /\ Q.out = R.out
      /\ Q.live = R.live \ {R.slots[r].conn : r \in DOMAIN R.slots}
      /\ \A c \in Conns : Q.seat[c] = IF \E r \in DOMAIN R.slots : R.slots[r].conn = c
                                        THEN "none" ELSE R.seat[c]
  BY DEF CloseRoom, Relays
<1> HIDE DEF Q
<1>2. DOMAIN Q.slots = {} /\ Len(<<>>) <= 1
  BY <1>1
<1>3. Mild(R, Q)
  BY <1>1, <1>2 DEF Mild, Orderly
<1>4. Mild(R, R)
  BY MildSame DEF Alike
<1> QED
  BY <1>3, <1>4 DEF Q, MaybeCloseRoom

LEMMA VacatedMild ==
    ASSUME NEW R \in Relays, NEW r \in DOMAIN R.slots, NEW s \in Slots, s.conn = NoConn,
           s.who = R.slots[r].who, s.ready => R.slots[r].ready
    PROVE  Mild(R, Vacated(R, r, s)) /\ Vacated(R, r, s).started = R.started
<1> DEFINE Q == Vacated(R, r, s)
           old == R.slots[r].conn
           slots == [R.slots EXCEPT ![r] = s]
           seat == [x \in Conns |-> IF x = old THEN "none" ELSE R.seat[x]]
<1>1. R.slots \in SlotMaps
  BY RelayFields
<1>2. /\ DOMAIN slots = DOMAIN R.slots /\ slots[r] = s
      /\ \A x \in DOMAIN R.slots \ {r} : slots[x] = R.slots[x]
  BY <1>1, SlotMapChanged
<1>3. Q = [R EXCEPT !.live = @ \ {old}, !.seat = seat, !.slots = slots]
  BY DEF Vacated, HardClose, Relays
<1>4. \A c \in Conns : seat[c] \in {R.seat[c], "none"}
  OBVIOUS
<1> HIDE DEF Q, seat, slots
<1>5. /\ Q.slots = slots /\ Q.seat = seat /\ Q.live = R.live \ {old} /\ Q.started = R.started
      /\ Q.out = R.out /\ Q.state = R.state /\ Q.floor = R.floor
  BY <1>3 DEF Relays
<1>6. \A x \in DOMAIN Q.slots :
        /\ Q.slots[x].who = R.slots[x].who
        /\ Q.slots[x].ready => R.slots[x].ready
        /\ Q.slots[x].conn \in {R.slots[x].conn, NoConn}
  BY <1>2, <1>5
<1>7. Mild(R, Q)
  BY <1>2, <1>4, <1>5, <1>6 DEF Mild, Orderly
<1> QED
  BY <1>5, <1>7 DEF Q

LEMMA FreedMild ==
    ASSUME NEW R \in Relays, ~R.started
    PROVE  Mild(R, [R EXCEPT !.slots = [x \in DOMAIN @ \ {"join"} |-> @[x]], !.state = "waiting"])
<1> DEFINE slots == [x \in DOMAIN R.slots \ {"join"} |-> R.slots[x]]
           Q == [R EXCEPT !.slots = slots, !.state = "waiting"]
<1>1. /\ DOMAIN slots = DOMAIN R.slots \ {"join"}
      /\ \A x \in DOMAIN slots : slots[x] = R.slots[x]
  OBVIOUS
<1> HIDE DEF slots
<1>2. /\ Q.slots = slots /\ Q.seat = R.seat /\ Q.live = R.live /\ Q.started = R.started
      /\ Q.out = R.out /\ Q.floor = R.floor
  BY DEF Relays
<1> HIDE DEF Q
<1>3. Mild(R, Q)
  BY <1>1, <1>2 DEF Mild, Orderly
<1> QED
  BY <1>3 DEF Q, slots

\* A seat of the room is given a new record, with the same player and socket.
LEMMA ReseatedMild ==
    ASSUME NEW R \in Relays, NEW r \in DOMAIN R.slots, NEW s \in Slots,
           s.conn = R.slots[r].conn, s.who = R.slots[r].who, s.ready => R.slots[r].ready
    PROVE  Mild(R, [R EXCEPT !.slots = [R.slots EXCEPT ![r] = s]])
<1> DEFINE slots == [R.slots EXCEPT ![r] = s]
           Q == [R EXCEPT !.slots = slots]
<1>1. R.slots \in SlotMaps
  BY RelayFields
<1>2. /\ DOMAIN slots = DOMAIN R.slots /\ slots[r] = s
      /\ \A x \in DOMAIN R.slots \ {r} : slots[x] = R.slots[x]
  BY <1>1, SlotMapChanged
<1> HIDE DEF slots
<1>3. /\ Q.slots = slots /\ Q.seat = R.seat /\ Q.live = R.live /\ Q.started = R.started
      /\ Q.out = R.out /\ Q.state = R.state /\ Q.floor = R.floor
  BY DEF Relays
<1> HIDE DEF Q
<1>4. Mild(R, Q)
  BY <1>2, <1>3 DEF Mild, Orderly
<1> QED
  BY <1>4 DEF Q, slots

LEMMA QuietMessages ==
    /\ \A t \in {"partner_disconnected", "partner_rejoined", "partner_left", "run_ended"} :
         [t |-> t] \in DownMsgs /\ [t |-> t].t \notin Marks
    /\ \A p \in Players : [t |-> "partner_joined", who |-> p] \in DownMsgs
                          /\ [t |-> "partner_joined", who |-> p].t \notin Marks
    /\ \A code \in Codes, f \in BOOLEAN :
         /\ [t |-> "error", code |-> code, fatal |-> f] \in DownMsgs
         /\ [t |-> "error", code |-> code, fatal |-> f].t \notin Marks
BY MessageFacts DEF Marks

LEMMA FinalizeMild ==
    ASSUME NEW R, NEW drawn, NEW own, NEW r \in DOMAIN R.slots, Good(R, drawn, own)
    PROVE  Mild(R, FinalizeSlotDeparture(R, r))
<1> DEFINE s == [R.slots[r] EXCEPT !.left = TRUE, !.lost = FALSE, !.conn = NoConn]
           gone == Vacated(R, r, s)
           told == IF R.slots[r].left THEN gone
                                      ELSE SendPartner(gone, r, [t |-> "partner_left"])
<1>1. R \in Relays
  BY DEF Good
<1>2. /\ s \in Slots /\ s.conn = NoConn /\ s.who = R.slots[r].who /\ s.token = R.slots[r].token
      /\ s.ready = R.slots[r].ready
  <2>2. R.slots[r] \in Slots
    BY <1>1, RelayFields, SlotMapFacts
  <2> QED
    BY <2>2 DEF Slots, Ends
<1>3. FinalizeSlotDeparture(R, r) =
        CASE r = "host" -> CloseRoom(told)
          [] r = "join" /\ ~R.started ->
               MaybeCloseRoom([told EXCEPT
                  !.slots = [x \in DOMAIN @ \ {"join"} |-> @[x]], !.state = "waiting"])
          [] OTHER -> MaybeCloseRoom(told)
  BY DEF FinalizeSlotDeparture, Vacated
<1> HIDE DEF s
<1>4. Mild(R, gone) /\ gone.started = R.started
  BY <1>1, <1>2, VacatedMild
<1>5. Good(gone, drawn, own) /\ DOMAIN gone.slots = DOMAIN R.slots /\ gone.slots[r] = s
  <2>1. Good(gone, drawn, own) /\ DOMAIN gone.slots = DOMAIN R.slots
    BY <1>2, VacatedGood
  <2>2. gone.slots[r] = s
    <3>1. R.slots \in SlotMaps /\ r \in DOMAIN R.slots
      BY <1>1, RelayFields
    <3> QED
      BY <1>1, <3>1 DEF Vacated, HardClose, Relays, SlotMaps
  <2> QED
    BY <2>1, <2>2
<1> HIDE DEF gone
<1>6. gone \in Relays
  BY <1>5 DEF Good
<1>7. Good(told, drawn, own) /\ Alike(gone, told) /\ Mild(gone, told) /\ told \in Relays
  <2>1. [t |-> "partner_left"] \in DownMsgs /\ [t |-> "partner_left"].t \notin Marks
    BY QuietMessages
  <2>2. CASE R.slots[r].left
    BY <1>5, <1>6, <2>2, MildSame DEF Alike
  <2>3. CASE ~R.slots[r].left
    <3>1. told = SendPartner(gone, r, [t |-> "partner_left"])
      BY <2>3
    <3>2. [t |-> "partner_left"].t # "welcome"
      OBVIOUS
    <3>3. Good(told, drawn, own)
      BY <1>5, <2>1, <3>1, <3>2, SendPartnerGood
    <3>4. told \in Relays /\ Alike(gone, told) /\ Mild(gone, told)
      BY <1>6, <2>1, <3>1, SendPartnerMild
    <3> QED
      BY <3>3, <3>4
  <2> QED
    BY <2>2, <2>3
<1> HIDE DEF told
<1>8. Mild(R, told)
  BY <1>4, <1>7, MildTrans
<1>9. CASE r = "host"
  <2>1. FinalizeSlotDeparture(R, r) = CloseRoom(told)
    BY <1>3, <1>9
  <2> QED
    BY <1>7, <1>8, <2>1, CloseRoomMild, MildTrans
<1>10. CASE r = "join" /\ ~R.started
  <2> DEFINE Q == [told EXCEPT !.slots = [x \in DOMAIN @ \ {"join"} |-> @[x]],
                               !.state = "waiting"]
  <2>1. ~told.started /\ "join" \in DOMAIN told.slots /\ told.slots["join"].conn = NoConn
    BY <1>2, <1>4, <1>5, <1>7, <1>10 DEF Alike
  <2>2. Mild(told, Q)
    BY <1>7, <2>1, FreedMild
  <2>3. Good(Q, drawn, own)
    BY <1>7, <2>1, FreedGood
  <2>4. FinalizeSlotDeparture(R, r) = MaybeCloseRoom(Q)
    BY <1>3, <1>10
  <2> HIDE DEF Q
  <2>5. Q \in Relays
    BY <2>3 DEF Good
  <2>6. Mild(Q, MaybeCloseRoom(Q))
    BY <2>5, CloseRoomMild
  <2>7. Mild(R, Q)
    BY <1>8, <2>2, MildTrans
  <2> QED
    BY <2>4, <2>6, <2>7, MildTrans
<1>11. CASE r # "host" /\ ~(r = "join" /\ ~R.started)
  <2>1. FinalizeSlotDeparture(R, r) = MaybeCloseRoom(told)
    BY <1>3, <1>11
  <2> QED
    BY <1>7, <1>8, <2>1, CloseRoomMild, MildTrans
<1> QED
  BY <1>9, <1>10, <1>11

LEMMA FatalMild ==
    ASSUME NEW R, NEW drawn, NEW own, NEW c \in Conns, NEW code \in Codes, Good(R, drawn, own)
    PROVE  Mild(R, Fatal(R, c, code))
<1> DEFINE said == Send(R, c, [t |-> "error", code |-> code, fatal |-> TRUE])
<1>1. /\ [t |-> "error", code |-> code, fatal |-> TRUE] \in DownMsgs
      /\ [t |-> "error", code |-> code, fatal |-> TRUE].t \notin Marks
      /\ [t |-> "error", code |-> code, fatal |-> TRUE].t # "welcome"
  BY QuietMessages
<1>2. R \in Relays
  BY DEF Good
<1>3. said \in Relays /\ Alike(R, said) /\ Mild(R, said)
  BY <1>1, <1>2, SendMild, ConnFacts
<1>4. Good(said, drawn, own)
  BY <1>1, SendGood, ConnFacts
<1>5. CASE R.seat[c] \in DOMAIN R.slots /\ R.slots[R.seat[c]].conn = c
  <2>1. Fatal(R, c, code) = FinalizeSlotDeparture(said, R.seat[c])
    BY <1>5 DEF Fatal
  <2> HIDE DEF said
  <2>2. Mild(said, FinalizeSlotDeparture(said, R.seat[c]))
    BY <1>3, <1>4, <1>5, FinalizeMild DEF Alike
  <2> QED
    BY <1>3, <2>1, <2>2, MildTrans
<1>6. CASE ~(R.seat[c] \in DOMAIN R.slots /\ R.slots[R.seat[c]].conn = c)
  <2>1. Fatal(R, c, code) = HardClose(said, c)
    BY <1>6 DEF Fatal
  <2> HIDE DEF said
  <2>2. Mild(said, HardClose(said, c))
    BY <1>3, HardCloseMild
  <2> QED
    BY <1>3, <2>1, <2>2, MildTrans
<1> QED
  BY <1>5, <1>6

LEMMA ReplyErrorMild ==
    ASSUME NEW R \in Relays, NEW c \in Conns, NEW code \in Codes
    PROVE  Mild(R, ReplyError(R, c, code))
<1>1. /\ [t |-> "error", code |-> code, fatal |-> FALSE] \in DownMsgs
      /\ [t |-> "error", code |-> code, fatal |-> FALSE].t \notin Marks
  BY QuietMessages
<1> QED
  BY <1>1, SendMild, ConnFacts DEF ReplyError

LEMMA HandleKickMild ==
    ASSUME NEW R, NEW drawn, NEW own, NEW c \in Conns, Good(R, drawn, own)
    PROVE  Mild(R, HandleKick(R, c))
<1> DEFINE refused == R.started \/ R.state # "selecting" \/ "join" \notin DOMAIN R.slots
           j == R.slots["join"].conn
           out == IF j # NoConn THEN Fatal(R, j, "kicked") ELSE FinalizeSlotDeparture(R, "join")
<1>0. R \in Relays
  BY DEF Good
<1>1. CASE refused
  <2>1. HandleKick(R, c) = ReplyError(R, c, "bad_state") /\ "bad_state" \in Codes
    BY <1>1 DEF HandleKick, Codes
  <2> QED
    BY <1>0, <2>1, ReplyErrorMild
<1>2. CASE ~refused
  <2>1. "join" \in DOMAIN R.slots
    BY <1>2
  <2>2. j \in Ends
    BY <1>0, <2>1, RelayFields, SlotMapFacts DEF Slots
  <2>3. Good(out, drawn, own) /\ Mild(R, out)
    <3>1. CASE j # NoConn
      <4>1. j \in Conns /\ "kicked" \in Codes
        BY <2>2, <3>1 DEF Ends, Codes
      <4> HIDE DEF j
      <4>2. out = Fatal(R, j, "kicked")
        BY <3>1
      <4> QED
        BY <4>1, <4>2, FatalGood, FatalMild
    <3>2. CASE j = NoConn
      BY <2>1, <3>2, FinalizeSlotDepartureGood, FinalizeMild
    <3> QED
      BY <3>1, <3>2
  <2>4. HandleKick(R, c) = IF "host" \in DOMAIN out.slots
                             THEN [out EXCEPT !.slots["host"].ready = FALSE] ELSE out
    BY <1>2 DEF HandleKick
  <2> HIDE DEF out
  <2>5. CASE "host" \in DOMAIN out.slots
    <3> DEFINE Q == [out EXCEPT !.slots["host"].ready = FALSE]
               s == [out.slots["host"] EXCEPT !.ready = FALSE]
    <3>1. out \in Relays
      BY <2>3 DEF Good
    <3>2. HandleKick(R, c) = Q
      BY <2>4, <2>5
    <3>3. /\ s \in Slots /\ s.conn = out.slots["host"].conn /\ s.who = out.slots["host"].who
          /\ s.ready = FALSE
      <4>1. out.slots["host"] \in Slots
        BY <2>5, <3>1, RelayFields, SlotMapFacts
      <4> QED
        BY <4>1 DEF Slots
    <3>4. Q = [out EXCEPT !.slots = [out.slots EXCEPT !["host"] = s]]
      OBVIOUS
    <3> HIDE DEF s, Q
    <3>5. Mild(out, Q)
      BY <2>5, <3>1, <3>3, <3>4, ReseatedMild
    <3> QED
      BY <2>3, <3>2, <3>5, MildTrans
  <2>6. CASE "host" \notin DOMAIN out.slots
    BY <2>3, <2>4, <2>6
  <2> QED
    BY <2>5, <2>6
<1> QED
  BY <1>1, <1>2

LEMMA DisconnectMild ==
    ASSUME NEW R, NEW drawn, NEW own, NEW c \in Conns, Good(R, drawn, own)
    PROVE  Mild(R, Disconnect(R, c))
<1> DEFINE r == R.seat[c]
<1>1. R \in Relays /\ R.slots \in SlotMaps
  BY RelayFields DEF Good
<1>2. CASE r = "none"
  <2>1. r \notin DOMAIN R.slots
    BY <1>1, <1>2, SlotMapFacts DEF Roles
  <2>2. Disconnect(R, c) = HardClose(R, c)
    BY <2>1 DEF Disconnect
  <2> QED
    BY <1>1, <2>2, HardCloseMild
<1>3. CASE r # "none"
  <2> DEFINE s == [R.slots[r] EXCEPT !.conn = NoConn, !.lost = TRUE]
             Q == Vacated(R, r, s)
  <2>1. r \in DOMAIN R.slots /\ R.slots[r].conn = c
    BY <1>3 DEF Good, Paired
  <2>2. R.slots[r] \in Slots
    BY <1>1, <2>1, SlotMapFacts
  <2>3. /\ s \in Slots /\ s.conn = NoConn /\ s.who = R.slots[r].who
        /\ s.token = R.slots[r].token /\ s.ready = R.slots[r].ready
    BY <2>2 DEF Slots, Ends
  <2>4. [HardClose(R, c) EXCEPT !.slots[r].conn = NoConn, !.slots[r].lost = TRUE] = Q
    <3> DEFINE H == HardClose(R, c)
    <3>1. H.slots = R.slots /\ H = [f \in DOMAIN H |-> H[f]] /\ "slots" \in DOMAIN H
      BY <1>1 DEF HardClose, Relays
    <3> HIDE DEF H
    <3>2. [[R.slots EXCEPT ![r].conn = NoConn] EXCEPT ![r].lost = TRUE] = [R.slots EXCEPT ![r] = s]
      BY <1>1, <2>1, <2>2, SlotMapFacts DEF Slots
    <3>3. [H EXCEPT !.slots = [[R.slots EXCEPT ![r].conn = NoConn] EXCEPT ![r].lost = TRUE]]
            = [H EXCEPT !.slots = [R.slots EXCEPT ![r] = s]]
      BY <3>2
    <3>4. Q = [H EXCEPT !.slots = [R.slots EXCEPT ![r] = s]]
      BY <2>1, <3>1 DEF Vacated, H
    <3> QED
      BY <3>1, <3>3, <3>4 DEF H
  <2>5. Disconnect(R, c) = SendPartner(Q, r, [t |-> "partner_disconnected"])
    <3> HIDE DEF s, Q
    <3> QED
      BY <2>1, <2>4 DEF Disconnect
  <2> HIDE DEF s
  <2>6. Good(Q, drawn, own) /\ Mild(R, Q)
    BY <1>1, <2>1, <2>3, VacatedGood, VacatedMild
  <2> HIDE DEF Q
  <2>7. [t |-> "partner_disconnected"] \in DownMsgs /\ [t |-> "partner_disconnected"].t \notin Marks
    BY QuietMessages
  <2>8. Mild(Q, Disconnect(R, c))
    BY <2>5, <2>6, <2>7, SendPartnerMild DEF Good
  <2> QED
    BY <2>6, <2>8, MildTrans
<1> QED
  BY <1>2, <1>3

LEMMA IdleTimeoutMild ==
    ASSUME NEW R \in Relays
    PROVE  Mild(R, IdleTimeout(R))
<1> DEFINE m == [t |-> "error", code |-> "timeout", fatal |-> TRUE]
           tell(Q, r) == IF r \in DOMAIN R.slots THEN Send(Q, R.slots[r].conn, m) ELSE Q
<1>1. m \in DownMsgs /\ m.t \notin Marks
  <2>1. "timeout" \in Codes
    BY DEF Codes
  <2> QED
    BY <2>1, QuietMessages
<1>2. IdleTimeout(R) = CloseRoom(tell(tell(R, "host"), "join"))
  BY DEF IdleTimeout
<1> HIDE DEF m
<1>3. ASSUME NEW Q \in Relays, NEW r, Mild(R, Q)
      PROVE  tell(Q, r) \in Relays /\ Mild(R, tell(Q, r))
  <2>1. CASE r \in DOMAIN R.slots
    <3>1. R.slots[r].conn \in Ends
      BY <2>1, RelayFields, SlotMapFacts DEF Slots
    <3>2. Send(Q, R.slots[r].conn, m) \in Relays /\ Mild(Q, Send(Q, R.slots[r].conn, m))
      BY <1>1, <3>1, SendMild
    <3> QED
      BY <1>3, <2>1, <3>2, MildTrans
  <2>2. CASE r \notin DOMAIN R.slots
    BY <1>3, <2>2
  <2> QED
    BY <2>1, <2>2
<1> HIDE DEF tell
<1>4. Mild(R, R)
  BY MildSame DEF Alike
<1>5. tell(R, "host") \in Relays /\ Mild(R, tell(R, "host"))
  BY <1>3, <1>4
<1>6. tell(tell(R, "host"), "join") \in Relays /\ Mild(R, tell(tell(R, "host"), "join"))
  BY <1>3, <1>5
<1> QED
  BY <1>2, <1>6, CloseRoomMild, MildTrans

\* The seat r has said that it is ready; when both have, the run starts.
Readied(R, Q, r) ==
    /\ Q.live = R.live /\ Q.seat = R.seat /\ Q.floor = R.floor
    /\ DOMAIN Q.slots = DOMAIN R.slots
    /\ \A x \in DOMAIN R.slots :
         /\ Q.slots[x].who = R.slots[x].who /\ Q.slots[x].conn = R.slots[x].conn
         /\ Q.slots[x].ready => R.slots[x].ready \/ x = r
    /\ Orderly(R) => Orderly(Q)
    /\ \/ Q.started = R.started /\ \A c \in Conns : Quiet(Q.out[c])
       \/ /\ ~R.started /\ Q.started
          /\ "host" \in DOMAIN Q.slots /\ Q.slots["host"].ready
          /\ \A c \in Conns :
               /\ ~Has(Q.out[c], "welcome") /\ ~Has(Q.out[c], "floor")
               /\ Has(Q.out[c], "start") => R.seat[c] # "none"

\* The host's floor m is retained and passed on.
Floored(R, Q, m) ==
    /\ Q.live = R.live /\ Q.seat = R.seat /\ Q.slots = R.slots /\ Q.started = R.started
    /\ Q.state = R.state /\ Q.floor = <<m>>
    /\ \A c \in Conns :
         Q.out[c] = IF "join" \in DOMAIN R.slots /\ R.slots["join"].conn = c
                      THEN <<m>> ELSE <<>>

\* c has said hello and takes the seat r ...
Greeted(R, Q, c, r) ==
    /\ Q.live \subseteq R.live /\ Q.started = R.started /\ Q.floor = R.floor
    /\ \A d \in Conns \ {c} : Q.seat[d] \in {R.seat[d], "none"}
    /\ r \in DOMAIN Q.slots /\ Q.slots[r].conn = c
    /\ \A x \in DOMAIN Q.slots :
         /\ x # r => /\ x \in DOMAIN R.slots /\ Q.slots[x].conn = R.slots[x].conn
         /\ Q.slots[x].ready => x \in DOMAIN R.slots /\ R.slots[x].ready
    /\ Roled(Q) /\ Orderly(Q)
    /\ Has(Q.out[c], "welcome") /\ ~Has(Q.out[c], "start")
    /\ \A d \in Conns \ {c} : Quiet(Q.out[d])

\* ... and a joiner that is back gets the floor.
Bound(R, Q, c, r) ==
    /\ Greeted(R, Q, c, r)
    /\ Has(Q.out[c], "floor") => r = "join"
    /\ r = "join" /\ R.started /\ R.floor # <<>> => Closing(Q.out[c], R.floor[1].rev)

LEMMA SilentQuiet == \A c \in Conns : Silent[c] = <<>> /\ Quiet(Silent[c])
BY DEF Silent, Quiet

LEMMA OneMessage ==
    ASSUME NEW m \in DownMsgs, NEW t
    PROVE  /\ <<m>> \in Seq(DownMsgs) /\ <<>> \o <<m>> = <<m>> /\ <<m>> # <<>>
           /\ Has(<<m>>, t) <=> m.t = t
BY DEF Has

LEMMA NoMessage ==
    ASSUME NEW t
    PROVE  ~Has(<<>>, t) /\ Quiet(<<>>) /\ <<>> \in Seq(DownMsgs)
BY DEF Has, Quiet

\* The same message to both.
LEMMA SendBothIs ==
    ASSUME NEW R \in Relays, NEW c \in Ends, NEW d \in Ends, NEW m \in DownMsgs, R.out = Silent,
           m.t \notin {"welcome", "floor"}
    PROVE  /\ Send(Send(R, c, m), d, m) \in Relays /\ Alike(R, Send(Send(R, c, m), d, m))
           /\ \A e \in Conns : LET q == Send(Send(R, c, m), d, m).out[e]
                               IN  /\ ~Has(q, "welcome") /\ ~Has(q, "floor")
                                   /\ q # <<>> => e \in {c, d}
<1> DEFINE P == Send(R, c, m)
           Q == Send(P, d, m)
<1>1. /\ P \in Relays /\ Alike(R, P)
      /\ \A e \in Conns : P.out[e] = IF e = c /\ c \in R.live THEN R.out[e] \o <<m>> ELSE R.out[e]
  BY SendIs
<1> HIDE DEF P
<1>2. /\ Q \in Relays /\ Alike(P, Q)
      /\ \A e \in Conns : Q.out[e] = IF e = d /\ d \in P.live THEN P.out[e] \o <<m>> ELSE P.out[e]
  BY <1>1, SendIs
<1> HIDE DEF Q
<1>3. Alike(R, Q)
  BY <1>1, <1>2 DEF Alike
<1>4. ASSUME NEW e \in Conns
      PROVE  /\ ~Has(Q.out[e], "welcome") /\ ~Has(Q.out[e], "floor")
             /\ Q.out[e] # <<>> => e \in {c, d}
  <2>1. R.out[e] = <<>>
    BY SilentQuiet
  <2>2. P.out[e] = IF e = c /\ c \in R.live THEN <<m>> ELSE <<>>
    BY <1>1, <2>1, OneMessage
  <2>3. \A t \in {"welcome", "floor"} : ~Has(P.out[e], t) /\ ~Has(<<m>>, t)
    BY <2>2, OneMessage, NoMessage
  <2>4. P.out[e] \in Seq(DownMsgs) /\ <<m>> \in Seq(DownMsgs)
    BY <2>2, OneMessage, NoMessage
  <2>5. \A t \in {"welcome", "floor"} : ~Has(P.out[e] \o <<m>>, t)
    BY <2>3, <2>4, HasAppend
  <2> QED
    BY <1>2, <2>2, <2>3, <2>5
<1> QED
  BY <1>2, <1>3, <1>4 DEF P, Q

LEMMA MaybeStartReadied ==
    ASSUME NEW R, NEW P, NEW drawn, NEW own, NEW r, Good(P, drawn, own), P.out = Silent,
           Readied(R, P, r), P.started = R.started, P.seat = R.seat
    PROVE  Readied(R, MaybeStart(P), r)
<1> DEFINE on == [P EXCEPT !.started = TRUE, !.state = "active"]
           m == [t |-> "start", joiner |-> P.slots["join"].who]
           none == \/ P.started
                   \/ Roles # DOMAIN P.slots
                   \/ \E x \in Roles : ~P.slots[x].ready \/ ~Connected(P.slots[x])
           Q == Send(Send(on, P.slots["host"].conn, m), P.slots["join"].conn, m)
<1>1. MaybeStart(P) = IF none THEN P ELSE Q
  BY DEF MaybeStart
<1>2. CASE none
  BY <1>1, <1>2
<1>3. CASE ~none
  <2>1. /\ Roles = DOMAIN P.slots /\ P \in Relays /\ ~P.started
        /\ \A x \in Roles : P.slots[x].ready /\ P.slots[x].conn # NoConn
    BY <1>3 DEF Good, Connected
  <2>2. P.slots["host"] \in Slots /\ P.slots["join"] \in Slots
    BY <2>1, RelayFields, SlotMapFacts DEF Roles
  <2>3. m \in DownMsgs /\ m.t = "start"
    BY <2>2, MessageFacts DEF Slots
  <2>4. /\ on \in Relays /\ on.slots = P.slots /\ on.seat = P.seat /\ on.live = P.live
        /\ on.out = P.out /\ on.state = "active" /\ on.started /\ on.floor = P.floor
    BY <2>1 DEF Relays
  <2> HIDE DEF on, m
  <2>5. P.slots["host"].conn \in Ends /\ P.slots["join"].conn \in Ends
    BY <2>2 DEF Slots
  <2>6. /\ Alike(on, Q)
        /\ \A e \in Conns :
             /\ ~Has(Q.out[e], "welcome") /\ ~Has(Q.out[e], "floor")
             /\ Q.out[e] # <<>> => e \in {P.slots["host"].conn, P.slots["join"].conn}
    BY <2>3, <2>4, <2>5, SendBothIs
  <2> HIDE DEF Q
  <2>7. ASSUME NEW e \in Conns, Has(Q.out[e], "start")  PROVE R.seat[e] # "none"
    <3>1. Q.out[e] # <<>>
      BY <2>7, NoMessage
    <3>2. PICK x \in Roles : e = P.slots[x].conn
      BY <2>6, <3>1 DEF Roles
    <3>3. P.seat[e] = x
      BY <2>1, <3>2 DEF Good, Paired
    <3> QED
      BY <3>2, <3>3 DEF Roles
  <2>8. /\ Q.live = P.live /\ Q.seat = P.seat /\ Q.slots = P.slots /\ Q.floor = P.floor
        /\ Q.started /\ Q.state = "active"
    BY <2>4, <2>6 DEF Alike
  <2>9. Orderly(R) => Orderly(Q)
    BY <2>8 DEF Readied, Orderly
  <2>10. "host" \in DOMAIN Q.slots /\ Q.slots["host"].ready
    BY <2>1, <2>8 DEF Roles
  <2>11. MaybeStart(P) = Q
    BY <1>1, <1>3
  <2>12. Readied(R, Q, r)
    BY <2>1, <2>6, <2>7, <2>8, <2>9, <2>10 DEF Readied
  <2> QED
    BY <2>11, <2>12
<1> QED
  BY <1>2, <1>3

LEMMA HandleReadyIs ==
    ASSUME NEW R, NEW drawn, NEW own, NEW c \in Conns, NEW r \in DOMAIN R.slots,
           Good(R, drawn, own), R.out = Silent
    PROVE  Mild(R, HandleReady(R, c, r)) \/ Readied(R, HandleReady(R, c, r), r)
<1>1. R \in Relays /\ R.slots \in SlotMaps /\ R.slots[r] \in Slots
  BY RelayFields, SlotMapFacts DEF Good
<1>2. CASE R.state \notin {"waiting", "selecting"}
  <2>1. HandleReady(R, c, r) = ReplyError(R, c, "bad_state") /\ "bad_state" \in Codes
    BY <1>2 DEF HandleReady, Codes
  <2> QED
    BY <1>1, <2>1, ReplyErrorMild
<1>3. CASE R.state \in {"waiting", "selecting"}
  <2> DEFINE s == [R.slots[r] EXCEPT !.ready = TRUE]
             slots == [R.slots EXCEPT ![r] = s]
             P == [R EXCEPT !.slots = slots]
  <2>1. /\ s \in Slots /\ s.conn = R.slots[r].conn /\ s.who = R.slots[r].who
        /\ s.token = R.slots[r].token
    BY <1>1 DEF Slots
  <2>2. HandleReady(R, c, r) = MaybeStart(P)
    <3>1. [R EXCEPT !.slots[r].ready = TRUE] = P
      OBVIOUS
    <3> HIDE DEF P
    <3> QED
      BY <1>3, <3>1 DEF HandleReady
  <2> HIDE DEF s
  <2>3. Good(P, drawn, own)
    BY <2>1, ReadyGood
  <2>4. /\ DOMAIN slots = DOMAIN R.slots /\ slots[r] = s
        /\ \A x \in DOMAIN R.slots \ {r} : slots[x] = R.slots[x]
    BY <1>1, <2>1, SlotMapChanged
  <2> HIDE DEF slots
  <2>5. /\ P.slots = slots /\ P.seat = R.seat /\ P.live = R.live /\ P.started = R.started
        /\ P.out = R.out /\ P.state = R.state /\ P.floor = R.floor
    BY <1>1 DEF Relays
  <2> HIDE DEF P
  <2>6. Readied(R, P, r)
    BY <2>1, <2>4, <2>5, SilentQuiet DEF Readied, Orderly
  <2> QED
    BY <2>2, <2>3, <2>5, <2>6, MaybeStartReadied
<1> QED
  BY <1>2, <1>3

LEMMA HandleFloorIs ==
    ASSUME NEW R, NEW drawn, NEW own, NEW m \in FloorMsgs, Good(R, drawn, own), R.out = Silent
    PROVE  Floored(R, HandleFloor(R, m), m)
<1> DEFINE P == [R EXCEPT !.floor = <<m>>, !.snap = <<>>]
           Q == HandleFloor(R, m)
<1>1. R \in Relays /\ <<m>> \in Seq(FloorMsgs)
  BY DEF Good
<1>2. /\ P \in Relays /\ P.slots = R.slots /\ P.seat = R.seat /\ P.live = R.live
      /\ P.out = R.out /\ P.state = R.state /\ P.started = R.started /\ P.floor = <<m>>
  BY <1>1 DEF Relays
<1>3. Q = SendPartner(P, "host", m)
  BY DEF HandleFloor
<1> HIDE DEF P
<1>4. m \in DownMsgs
  BY DEF DownMsgs
<1> HIDE DEF Q
<1>5. CASE "join" \in DOMAIN R.slots
  <2> DEFINE d == R.slots["join"].conn
  <2>1. Q = Send(P, d, m) /\ d \in Ends
    BY <1>1, <1>2, <1>3, <1>5, RelayFields, SlotMapFacts DEF SendPartner, Partner, Slots
  <2>2. d # NoConn => d \in R.live
    BY <1>5 DEF Good, Paired
  <2> HIDE DEF d
  <2>3. /\ Alike(P, Q)
        /\ \A e \in Conns : Q.out[e] = IF e = d /\ d \in P.live THEN P.out[e] \o <<m>> ELSE P.out[e]
    BY <1>2, <1>4, <2>1, SendIs
  <2>4. ASSUME NEW e \in Conns  PROVE Q.out[e] = IF e = d THEN <<m>> ELSE <<>>
    <3>1. P.out[e] = <<>> /\ e # NoConn /\ <<>> \o <<m>> = <<m>>
      BY <1>2, <1>4, SilentQuiet, ConnFacts, OneMessage
    <3> QED
      BY <1>2, <2>2, <2>3, <3>1
  <2> QED
    BY <1>2, <1>5, <2>3, <2>4 DEF Alike, Floored, d, Q
<1>6. CASE "join" \notin DOMAIN R.slots
  <2>1. Q = P
    BY <1>2, <1>3, <1>6 DEF SendPartner, Partner
  <2> QED
    BY <1>2, <1>6, <2>1, SilentQuiet DEF Floored, Q
<1> QED
  BY <1>5, <1>6

\* c alone is sent something, a welcome.
Welcomes(Q, c) ==
    \E w \in DownMsgs :
        w.t = "welcome" /\ \A d \in Conns : Q.out[d] = IF d = c THEN <<w>> ELSE <<>>

\* A seat is bound to c and c is welcomed.
LEMMA BindIs ==
    ASSUME NEW R \in Relays, NEW c \in R.live, NEW r \in DOMAIN R.slots, R.out = Silent
    PROVE  /\ Bind(R, c, r) \in Relays
           /\ Bind(R, c, r).live = R.live /\ Bind(R, c, r).started = R.started
           /\ Bind(R, c, r).state = R.state /\ Bind(R, c, r).floor = R.floor
           /\ Bind(R, c, r).snap = R.snap
           /\ \A d \in Conns : Bind(R, c, r).seat[d] = IF d = c THEN r ELSE R.seat[d]
           /\ DOMAIN Bind(R, c, r).slots = DOMAIN R.slots
           /\ Bind(R, c, r).slots[r].conn = c
           /\ \A x \in DOMAIN R.slots :
                /\ Bind(R, c, r).slots[x].who = R.slots[x].who
                /\ Bind(R, c, r).slots[x].ready = R.slots[x].ready
                /\ x # r => Bind(R, c, r).slots[x].conn = R.slots[x].conn
           /\ Welcomes(Bind(R, c, r), c)
<1> DEFINE s == [R.slots[r] EXCEPT !.conn = c, !.lost = FALSE]
           slots == [R.slots EXCEPT ![r] = s]
           seat == [R.seat EXCEPT ![c] = r]
           P == [R EXCEPT !.seat = seat, !.slots = slots]
           p == Partner(r)
           partner == IF p \in Occupied(R) THEN R.slots[p].who ELSE "nobody"
           m == [t |-> "welcome", role |-> r, token |-> R.slots[r].token, partner |-> partner]
           Q == Bind(R, c, r)
<1>1. /\ R.slots \in SlotMaps /\ R.slots[r] \in Slots /\ DOMAIN R.slots \subseteq Roles
      /\ c \in Conns /\ R.seat \in [Conns -> Roles \cup {"none"}]
  BY RelayFields, SlotMapFacts
<1>2. /\ s \in Slots /\ s.conn = c /\ s.who = R.slots[r].who /\ s.ready = R.slots[r].ready
  BY <1>1 DEF Slots, Ends
<1>3. Bind(R, c, r) = Send(P, c, m)
  <2>1. [R EXCEPT !.seat[c] = r, !.slots[r].conn = c, !.slots[r].lost = FALSE] = P
    <3>1. [[R.slots EXCEPT ![r].conn = c] EXCEPT ![r].lost = FALSE] = slots
      BY <1>1, SlotMapFacts DEF Slots
    <3> HIDE DEF slots
    <3> QED
      BY <1>1, <3>1 DEF Relays
  <2> HIDE DEF P
  <2> QED
    BY <2>1 DEF Bind
<1>4. m \in DownMsgs
  <2>1. partner \in People
    BY <1>1, SlotMapFacts DEF Occupied, People, Nobody, Slots
  <2>2. R.slots[r].token \in Nat /\ r \in Roles
    BY <1>1 DEF Slots
  <2> HIDE DEF partner
  <2> QED
    BY <2>1, <2>2, MessageFacts
<1>5. /\ slots \in SlotMaps /\ DOMAIN slots = DOMAIN R.slots /\ slots[r] = s
      /\ \A x \in DOMAIN R.slots \ {r} : slots[x] = R.slots[x]
  BY <1>1, <1>2, SlotMapChanged
<1>6. /\ seat \in [Conns -> Roles \cup {"none"}]
      /\ \A d \in Conns : seat[d] = IF d = c THEN r ELSE R.seat[d]
  BY <1>1
<1>7. m.t = "welcome"
  OBVIOUS
<1> HIDE DEF s, slots, seat, m
<1>8. /\ P \in Relays /\ P.slots = slots /\ P.seat = seat /\ P.live = R.live
      /\ P.started = R.started /\ P.out = R.out /\ P.floor = R.floor /\ P.snap = R.snap
      /\ P.state = R.state
  BY <1>1, <1>5, <1>6 DEF Relays, SlotMaps
<1> HIDE DEF P, Q
<1>9. /\ Q \in Relays /\ Alike(P, Q)
      /\ \A d \in Conns : Q.out[d] = IF d = c /\ c \in P.live THEN P.out[d] \o <<m>> ELSE P.out[d]
  BY <1>1, <1>3, <1>4, <1>8, SendIs, ConnFacts DEF Q
<1>10. ASSUME NEW d \in Conns  PROVE Q.out[d] = IF d = c THEN <<m>> ELSE <<>>
  <2>1. P.out[d] = <<>> /\ <<>> \o <<m>> = <<m>>
    BY <1>4, <1>8, SilentQuiet, OneMessage
  <2> QED
    BY <1>8, <1>9, <2>1
<1>11. /\ Q.live = R.live /\ Q.started = R.started /\ Q.state = R.state /\ Q.floor = R.floor
       /\ Q.snap = R.snap /\ Q.seat = seat /\ Q.slots = slots
  BY <1>8, <1>9 DEF Alike
<1>12. \A x \in DOMAIN R.slots :
         /\ Q.slots[x].who = R.slots[x].who /\ Q.slots[x].ready = R.slots[x].ready
         /\ x # r => Q.slots[x].conn = R.slots[x].conn
  BY <1>2, <1>5, <1>11
<1>13. DOMAIN Q.slots = DOMAIN R.slots /\ Q.slots[r].conn = c
  BY <1>2, <1>5, <1>11
<1>14. Welcomes(Q, c)
  BY <1>4, <1>7, <1>10 DEF Welcomes
<1>15. \A d \in Conns : Q.seat[d] = IF d = c THEN r ELSE R.seat[d]
  BY <1>6, <1>11
<1> QED
  BY <1>9, <1>11, <1>12, <1>13, <1>14, <1>15 DEF Q

\* c is welcomed into the seat r, of a room that is as R but for what only the
\* new seat shows; the partner may be told.
LEMMA WelcomedIn ==
    ASSUME NEW R, NEW P \in Relays, NEW c \in P.live, NEW r \in DOMAIN P.slots,
           R.out = Silent, P.out = Silent, P.live \subseteq R.live, P.started = R.started,
           P.floor = R.floor, Roled(P), Orderly(P),
           \A d \in Conns \ {c} : P.seat[d] \in {R.seat[d], "none"},
           \A x \in DOMAIN P.slots :
             /\ x # r => /\ x \in DOMAIN R.slots /\ P.slots[x].conn = R.slots[x].conn
                         /\ P.slots[x].conn # c
             /\ P.slots[x].ready => x \in DOMAIN R.slots /\ R.slots[x].ready,
           NEW note \in DownMsgs, note.t \notin Marks
    PROVE  LET B == Bind(P, c, r)
               Q == SendPartner(B, r, note)
           IN  /\ B.out[c] \in Seq(DownMsgs) /\ ~Has(B.out[c], "floor")
               /\ Q \in Relays /\ Q.live = P.live /\ Q.out[c] = B.out[c]
               /\ Greeted(R, B, c, r) /\ Greeted(R, Q, c, r)
<1> DEFINE B == Bind(P, c, r)
           Q == SendPartner(B, r, note)
<1>1. /\ B \in Relays /\ B.live = P.live /\ B.started = P.started
      /\ B.state = P.state /\ B.floor = P.floor
      /\ \A d \in Conns : B.seat[d] = IF d = c THEN r ELSE P.seat[d]
      /\ DOMAIN B.slots = DOMAIN P.slots /\ B.slots[r].conn = c
      /\ \A x \in DOMAIN P.slots :
           /\ B.slots[x].who = P.slots[x].who /\ B.slots[x].ready = P.slots[x].ready
           /\ x # r => B.slots[x].conn = P.slots[x].conn
  BY BindIs
<1>9. Welcomes(B, c)
  BY BindIs
<1> HIDE DEF B
<1>2. PICK w \in DownMsgs :
        w.t = "welcome" /\ \A d \in Conns : B.out[d] = IF d = c THEN <<w>> ELSE <<>>
  BY <1>9 DEF Welcomes
<1>0. c \in Conns
  BY RelayFields
<1>3. B.out[c] = <<w>> /\ \A d \in Conns \ {c} : B.out[d] = <<>>
  BY <1>0, <1>2
<1>4. /\ Has(B.out[c], "welcome") /\ ~Has(B.out[c], "start") /\ ~Has(B.out[c], "floor")
      /\ \A d \in Conns \ {c} : Quiet(B.out[d])
      /\ B.out[c] \in Seq(DownMsgs)
  BY <1>2, <1>3, OneMessage, NoMessage
<1>5. Roled(B) /\ Orderly(B)
  BY <1>1 DEF Roled, Orderly
<1>6. Greeted(R, B, c, r)
  <2>1. \A x \in DOMAIN B.slots :
          /\ x # r => /\ x \in DOMAIN R.slots /\ B.slots[x].conn = R.slots[x].conn
          /\ B.slots[x].ready => x \in DOMAIN R.slots /\ R.slots[x].ready
    BY <1>1
  <2>2. \A d \in Conns \ {c} : B.seat[d] \in {R.seat[d], "none"}
    BY <1>1
  <2> QED
    BY <1>1, <1>4, <1>5, <2>1, <2>2 DEF Greeted
<1>7. Q \in Relays /\ Alike(B, Q) /\ Q.out[c] = B.out[c]
      /\ \A d \in Conns : Quiet(B.out[d]) => Quiet(Q.out[d])
  <2>1. Q \in Relays /\ Alike(B, Q) /\ Mild(B, Q)
    BY <1>1, SendPartnerMild
  <2>2. Q.out[c] = B.out[c]
    <3>1. CASE Partner(r) \notin DOMAIN B.slots
      BY <3>1 DEF SendPartner
    <3>2. CASE Partner(r) \in DOMAIN B.slots
      <4> DEFINE d == B.slots[Partner(r)].conn
      <4>1. Partner(r) # r
        BY DEF Partner
      <4>2. d # c /\ d \in Ends
        BY <1>1, <3>2, <4>1, RelayFields, SlotMapFacts DEF Slots
      <4>3. Q = Send(B, d, note)
        BY <3>2 DEF SendPartner
      <4> HIDE DEF d, Q
      <4>4. \A e \in Conns : Q.out[e] = IF e = d /\ d \in B.live THEN B.out[e] \o <<note>>
                                                                ELSE B.out[e]
        BY <1>1, <4>2, <4>3, SendIs
      <4> QED
        BY <1>0, <4>2, <4>4
    <3> QED
      BY <3>1, <3>2
  <2> HIDE DEF Q
  <2> QED
    BY <2>1, <2>2 DEF Mild
<1> HIDE DEF Q
<1>8. Greeted(R, Q, c, r)
  <2>1. Roled(Q) /\ Orderly(Q)
    BY <1>5, <1>7 DEF Alike, Roled, Orderly
  <2> QED
    BY <1>4, <1>6, <1>7, <2>1 DEF Alike, Greeted
<1> QED
  BY <1>1, <1>4, <1>6, <1>7, <1>8 DEF Alike, Q, B

LEMMA Greeting ==
    ASSUME NEW R, NEW Q, NEW c, NEW r, Greeted(R, Q, c, r), ~Has(Q.out[c], "floor"),
           r = "join" => ~R.started \/ R.floor = <<>>
    PROVE  Bound(R, Q, c, r)
BY DEF Bound

LEMMA CreateRoomIs ==
    ASSUME NEW R, NEW drawn, NEW own, NEW c \in R.live, Good(R, drawn, own), R.out = Silent,
           R.seat[c] = "none", R.state = "none", NEW who \in Players, RoleOf(who) = "host",
           Orderly(R)
    PROVE  Bound(R, CreateRoom(R, c, who), c, "host")
<1> DEFINE s == NewSlot(who, R.issued + 1)
           slots == [r \in {"host"} |-> s]
           P == [R EXCEPT !.state = "waiting", !.issued = @ + 1, !.slots = slots]
<1>1. R \in Relays /\ R.issued \in Nat
  BY RelayFields DEF Good
<1>2. s \in Slots /\ s.conn = NoConn /\ s.who = who /\ ~s.ready
  BY <1>1, NewSlotIs DEF NewSlot
<1> HIDE DEF s
<1>3. slots \in SlotMaps /\ DOMAIN slots = {"host"} /\ slots["host"] = s
  <2>1. slots \in [{"host"} -> Slots]
    BY <1>2
  <2> QED
    BY <2>1, SlotMapIs DEF Roles
<1> HIDE DEF slots
<1>4. /\ P \in Relays /\ P.slots = slots /\ P.seat = R.seat /\ P.live = R.live
      /\ P.out = R.out /\ P.state = "waiting" /\ P.started = R.started /\ P.floor = R.floor
  <2> DEFINE n == R.issued + 1
  <2>1. n \in Nat
    BY <1>1
  <2> HIDE DEF n
  <2>2. [R EXCEPT !.state = "waiting", !.issued = n, !.slots = slots] = P
    BY DEF n
  <2> HIDE DEF P
  <2> QED
    BY <1>1, <1>3, <2>1, <2>2 DEF Relays, SlotMaps
<1>5. CreateRoom(R, c, who) = Bind(P, c, "host")
  BY DEF CreateRoom, slots, s
<1> HIDE DEF P
<1>6. Roled(P) /\ Orderly(P)
  BY <1>2, <1>3, <1>4 DEF Roled, Orderly
<1> DEFINE note == [t |-> "partner_rejoined"]
<1>7. note \in DownMsgs /\ note.t \notin Marks
  BY QuietMessages
<1> HIDE DEF note
<1>8. \A x \in DOMAIN P.slots :
        /\ x # "host" => /\ x \in DOMAIN R.slots /\ P.slots[x].conn = R.slots[x].conn
                         /\ P.slots[x].conn # c
        /\ P.slots[x].ready => x \in DOMAIN R.slots /\ R.slots[x].ready
  BY <1>2, <1>3, <1>4
<1>9. "host" \in DOMAIN P.slots /\ c \in P.live /\ P.live \subseteq R.live /\ P.out = Silent
      /\ \A d \in Conns \ {c} : P.seat[d] \in {R.seat[d], "none"}
  BY <1>3, <1>4
<1>10. Greeted(R, Bind(P, c, "host"), c, "host") /\ ~Has(Bind(P, c, "host").out[c], "floor")
  BY <1>4, <1>6, <1>7, <1>8, <1>9, WelcomedIn
<1> QED
  BY <1>5, <1>10, Greeting

LEMMA JoinRoomIs ==
    ASSUME NEW R, NEW drawn, NEW own, NEW c \in R.live, Good(R, drawn, own), R.out = Silent,
           R.seat[c] = "none", R.state = "waiting", NEW who \in Players, RoleOf(who) = "join",
           Orderly(R), Roled(R)
    PROVE  Bound(R, JoinRoom(R, c, who), c, "join")
<1> DEFINE s == NewSlot(who, R.issued + 1)
           slots == [r \in Roles |-> IF r = "join" THEN s ELSE R.slots[r]]
           P == [R EXCEPT !.state = "selecting", !.issued = @ + 1, !.slots = slots]
           note == [t |-> "partner_joined", who |-> who]
<1>1. /\ R \in Relays /\ R.issued \in Nat /\ DOMAIN R.slots = {"host"}
      /\ R.slots["host"] \in Slots
  BY RelayFields, SlotMapFacts DEF Good, Shape
<1>2. s \in Slots /\ s.conn = NoConn /\ s.who = who /\ ~s.ready
  BY <1>1, NewSlotIs DEF NewSlot
<1> HIDE DEF s
<1>3. /\ slots \in SlotMaps /\ DOMAIN slots = Roles /\ slots["join"] = s
      /\ slots["host"] = R.slots["host"]
  <2>1. slots \in [Roles -> Slots]
    BY <1>1, <1>2 DEF Roles
  <2>2. slots \in SlotMaps
    BY <2>1, SlotMapIs
  <2> QED
    BY <2>2 DEF Roles
<1> HIDE DEF slots
<1>4. /\ P \in Relays /\ P.slots = slots /\ P.seat = R.seat /\ P.live = R.live
      /\ P.out = R.out /\ P.state = "selecting" /\ P.started = R.started /\ P.floor = R.floor
  <2> DEFINE n == R.issued + 1
  <2>1. n \in Nat
    BY <1>1
  <2> HIDE DEF n
  <2>2. [R EXCEPT !.state = "selecting", !.issued = n, !.slots = slots] = P
    BY DEF n
  <2> HIDE DEF P
  <2> QED
    BY <1>1, <1>3, <2>1, <2>2 DEF Relays, SlotMaps
<1>5. JoinRoom(R, c, who) = SendPartner(Bind(P, c, "join"), "join", note)
  BY DEF JoinRoom, slots, s
<1> HIDE DEF P
<1>11. ~R.started
  BY DEF Orderly
<1>6. Roled(P) /\ Orderly(P)
  BY <1>1, <1>2, <1>3, <1>4, <1>11 DEF Roled, Orderly, Roles
<1>7. note \in DownMsgs /\ note.t \notin Marks
  BY QuietMessages
<1> HIDE DEF note
<1>12. R.slots["host"].conn # c
  <2>1. R.slots["host"].conn # NoConn => R.seat[R.slots["host"].conn] = "host"
    BY <1>1 DEF Good, Paired
  <2>2. c # NoConn
    BY <1>1, RelayFields, ConnFacts
  <2> QED
    BY <2>1, <2>2
<1>8. \A x \in DOMAIN P.slots :
        /\ x # "join" => /\ x \in DOMAIN R.slots /\ P.slots[x].conn = R.slots[x].conn
                         /\ P.slots[x].conn # c
        /\ P.slots[x].ready => x \in DOMAIN R.slots /\ R.slots[x].ready
  BY <1>1, <1>2, <1>3, <1>4, <1>12 DEF Roles
<1>9. "join" \in DOMAIN P.slots /\ c \in P.live /\ P.live \subseteq R.live /\ P.out = Silent
      /\ \A d \in Conns \ {c} : P.seat[d] \in {R.seat[d], "none"}
  BY <1>3, <1>4 DEF Roles
<1> DEFINE Q == SendPartner(Bind(P, c, "join"), "join", note)
<1>10. /\ Greeted(R, Q, c, "join") /\ Q.out[c] = Bind(P, c, "join").out[c]
       /\ ~Has(Bind(P, c, "join").out[c], "floor")
  BY <1>4, <1>6, <1>7, <1>8, <1>9, WelcomedIn
<1> HIDE DEF Q
<1>13. Bound(R, Q, c, "join")
  BY <1>10, <1>11, Greeting
<1> QED
  BY <1>5, <1>13 DEF Q

LEMMA ClosingFloor ==
    ASSUME NEW q \in Seq(DownMsgs), NEW f \in Seq(FloorMsgs), f # <<>>
    PROVE  /\ q \o f \in Seq(DownMsgs) /\ Closing(q \o f, f[Len(f)].rev)
           /\ ~Has(f, "welcome") /\ ~Has(f, "start")
<1>1. FloorMsgs \subseteq DownMsgs /\ \A m \in FloorMsgs : m.t = "floor"
  BY DEF DownMsgs, FloorMsgs
<1>2. f \in Seq(DownMsgs) /\ Len(f) \in DOMAIN f /\ \A i \in DOMAIN f : f[i].t = "floor"
  BY <1>1, ElementIn
<1>3. q \o f \in Seq(DownMsgs)
  BY <1>2
<1>4. q \o f # <<>> /\ (q \o f)[Len(q \o f)] = f[Len(f)]
  BY <1>2
<1>5. Closing(q \o f, f[Len(f)].rev)
  BY <1>2, <1>4 DEF Closing
<1>6. ~Has(f, "welcome") /\ ~Has(f, "start")
  BY <1>2 DEF Has
<1> QED
  BY <1>3, <1>5, <1>6

LEMMA OneLong ==
    ASSUME NEW S, NEW q \in Seq(S), q # <<>>, Len(q) <= 1
    PROVE  Len(q) = 1
<1>1. 1 \in DOMAIN q /\ Len(q) \in Nat
  BY HeadTail
<1>2. DOMAIN q = 1..Len(q)
  OBVIOUS
<1> DEFINE n == Len(q)
<1>3. n \in Nat /\ n <= 1 /\ 1 \in 1..n
  BY <1>1, <1>2
<1> HIDE DEF n
<1>4. n = 1
  BY <1>3
<1> QED
  BY <1>4 DEF n

LEMMA ReclaimIs ==
    ASSUME NEW R, NEW drawn, NEW own, NEW c \in R.live, NEW r \in DOMAIN R.slots,
           Good(R, drawn, own), R.out = Silent, R.seat[c] = "none", Orderly(R), Roled(R)
    PROVE  Bound(R, Reclaim(R, c, r), c, r)
<1> DEFINE old == R.slots[r].conn
           P == HardClose(R, old)
           note == [t |-> "partner_rejoined"]
           B == Bind(P, c, r)
           told == SendPartner(B, r, note)
<1>1. /\ R \in Relays /\ c \in Conns /\ DOMAIN R.slots \subseteq Roles
      /\ R.seat \in [Conns -> Roles \cup {"none"}]
  BY RelayFields, SlotMapFacts DEF Good
<1>2. /\ P \in Relays /\ P.live = R.live \ {old} /\ P.slots = R.slots /\ P.started = R.started
      /\ P.out = R.out /\ P.floor = R.floor /\ P.snap = R.snap /\ P.state = R.state
      /\ \A d \in Conns : P.seat[d] \in {R.seat[d], "none"}
  BY <1>1 DEF HardClose, Relays
<1>3. \A x \in DOMAIN R.slots : R.slots[x].conn # c
  <2>1. \A x \in DOMAIN R.slots : R.slots[x].conn # NoConn => R.seat[R.slots[x].conn] = x
    BY DEF Good, Paired
  <2>2. "none" \notin DOMAIN R.slots
    BY <1>1 DEF Roles
  <2> QED
    BY <1>1, <2>1, <2>2, ConnFacts
<1>4. Reclaim(R, c, r) = IF r = "join" /\ R.started THEN SendAll(told, c, R.floor \o R.snap)
                                                    ELSE told
  BY DEF Reclaim
<1> HIDE DEF P
<1>5. note \in DownMsgs /\ note.t \notin Marks
  BY QuietMessages
<1> HIDE DEF note
<1>6. Roled(P) /\ Orderly(P)
  BY <1>2 DEF Roled, Orderly
<1>7. \A x \in DOMAIN P.slots :
        /\ x # r => /\ x \in DOMAIN R.slots /\ P.slots[x].conn = R.slots[x].conn
                    /\ P.slots[x].conn # c
        /\ P.slots[x].ready => x \in DOMAIN R.slots /\ R.slots[x].ready
  BY <1>2, <1>3
<1>8. r \in DOMAIN P.slots /\ c \in P.live /\ P.live \subseteq R.live /\ P.out = Silent
      /\ \A d \in Conns \ {c} : P.seat[d] \in {R.seat[d], "none"}
  BY <1>2, <1>3
<1>9. /\ B.out[c] \in Seq(DownMsgs) /\ ~Has(B.out[c], "floor")
      /\ told \in Relays /\ told.live = P.live /\ told.out[c] = B.out[c]
      /\ Greeted(R, told, c, r)
  <2>1. P \in Relays /\ P.started = R.started /\ P.floor = R.floor
    BY <1>2
  <2> QED
    BY <1>5, <1>6, <1>7, <1>8, <2>1, WelcomedIn
<1> HIDE DEF told, B
<1>10. R.floor \in Seq(FloorMsgs) /\ R.snap = <<>> /\ Len(R.floor) <= 1
  BY <1>1, RelayFields DEF Orderly
<1>11. CASE ~(r = "join" /\ R.started /\ R.floor # <<>>)
  <2>1. CASE ~(r = "join" /\ R.started)
    BY <1>4, <1>9, <2>1, Greeting
  <2>2. CASE r = "join" /\ R.started /\ R.floor = <<>>
    <3>1. R.floor \o R.snap = <<>> /\ <<>> \in Seq(DownMsgs)
      BY <1>10, <2>2
    <3> DEFINE none == R.floor \o R.snap
               Q == SendAll(told, c, none)
    <3>2. Reclaim(R, c, r) = Q
      BY <1>4, <2>2
    <3>8. none = <<>> /\ none \in Seq(DownMsgs)
      BY <3>1
    <3> HIDE DEF none
    <3>3. /\ Alike(told, Q)
          /\ \A d \in Conns : Q.out[d] = IF d = c /\ c \in told.live THEN told.out[d] \o none
                                                                   ELSE told.out[d]
      <4>1. none \in Seq(DownMsgs) /\ c \in Ends /\ told \in Relays
        BY <1>1, <1>9, <3>8, ConnFacts
      <4> QED
        BY <4>1, SendAllIs
    <3> HIDE DEF Q
    <3>4. told.out \in [Conns -> Seq(DownMsgs)]
      BY <1>9, RelayFields
    <3>5. \A d \in Conns : told.out[d] \o none = told.out[d]
      BY <3>4, <3>8
    <3>6. \A d \in Conns : Q.out[d] = told.out[d]
      BY <3>3, <3>5
    <3>7. Greeted(R, Q, c, r)
      BY <1>1, <1>9, <3>3, <3>6 DEF Greeted, Alike, Roled, Orderly
    <3> QED
      BY <1>1, <1>9, <2>2, <3>2, <3>6, <3>7, Greeting
  <2> QED
    BY <1>11, <2>1, <2>2
<1>12. CASE r = "join" /\ R.started /\ R.floor # <<>>
  <2> DEFINE Q == SendAll(told, c, R.floor)
  <2>1. R.floor \o R.snap = R.floor
    BY <1>10
  <2>2. Reclaim(R, c, r) = Q
    BY <1>4, <1>12, <2>1
  <2>3. R.floor \in Seq(DownMsgs)
    <3>1. FloorMsgs \subseteq DownMsgs
      BY DEF DownMsgs
    <3> QED
      BY <1>10, <3>1
  <2>4. /\ Alike(told, Q)
        /\ \A d \in Conns : Q.out[d] = IF d = c /\ c \in told.live THEN told.out[d] \o R.floor
                                                                 ELSE told.out[d]
    BY <1>1, <1>9, <2>3, SendAllIs, ConnFacts
  <2> HIDE DEF Q
  <2>5. Q.out[c] = B.out[c] \o R.floor /\ \A d \in Conns \ {c} : Q.out[d] = told.out[d]
    BY <1>1, <1>8, <1>9, <2>4
  <2>6. /\ Closing(Q.out[c], R.floor[Len(R.floor)].rev)
        /\ ~Has(R.floor, "welcome") /\ ~Has(R.floor, "start")
    BY <1>9, <1>10, <1>12, <2>5, ClosingFloor
  <2>7. Len(R.floor) = 1
    BY <1>10, <1>12, OneLong
  <2>8. Has(B.out[c], "welcome") /\ ~Has(B.out[c], "start")
    BY <1>9 DEF Greeted
  <2>9. Has(Q.out[c], "welcome") /\ ~Has(Q.out[c], "start")
    BY <1>9, <2>3, <2>5, <2>6, <2>8, HasAppend
  <2>10. Greeted(R, Q, c, r)
    BY <1>9, <2>4, <2>5, <2>9 DEF Greeted, Alike, Roled, Orderly
  <2> QED
    BY <1>12, <2>2, <2>6, <2>7, <2>10 DEF Bound
<1> QED
  BY <1>11, <1>12

\* A hello takes a seat or is refused.
LEMMA HandleHelloIs ==
    ASSUME NEW R, NEW drawn, NEW own, NEW c \in R.live, Good(R, drawn, own), R.out = Silent,
           R.seat[c] = "none", Orderly(R), Roled(R),
           NEW m, m.who \in Players, m.role = RoleOf(m.who)
    PROVE  Mild(R, HandleHello(R, c, m)) \/ \E r \in Roles : Bound(R, HandleHello(R, c, m), c, r)
<1> DEFINE mine == Claimed(R, m.token)
<1>0. c \in Conns /\ DOMAIN R.slots \subseteq Roles
  BY RelayFields, SlotMapFacts DEF Good
<1>2. \A code \in Codes : Mild(R, Fatal(R, c, code))
  BY <1>0, FatalMild
<1>1. CASE mine # {}
  <2> DEFINE r == CHOOSE x \in mine : TRUE
  <2>1. r \in mine
    BY <1>1
  <2>2. HandleHello(R, c, m) = Reclaim(R, c, r)
    BY <1>1 DEF HandleHello
  <2> HIDE DEF r
  <2>3. r \in DOMAIN R.slots
    BY <2>1 DEF Claimed
  <2>4. Bound(R, Reclaim(R, c, r), c, r)
    BY <2>3, ReclaimIs
  <2> QED
    BY <1>0, <2>2, <2>3, <2>4
<1>3. CASE mine = {} /\ m.role = "host"
  <2>1. CASE R.state # "none"
    <3>1. HandleHello(R, c, m) = Fatal(R, c, "run_id_in_use")
      BY <1>3, <2>1 DEF HandleHello
    <3> QED
      BY <1>2, <3>1 DEF Codes
  <2>2. CASE R.state = "none" /\ MaxRooms = 0
    <3>1. HandleHello(R, c, m) = Fatal(R, c, "server_full")
      BY <1>3, <2>2 DEF HandleHello
    <3> QED
      BY <1>2, <3>1 DEF Codes
  <2>3. CASE R.state = "none" /\ MaxRooms # 0
    <3>1. HandleHello(R, c, m) = CreateRoom(R, c, m.who)
      BY <1>3, <2>3 DEF HandleHello
    <3>2. Bound(R, CreateRoom(R, c, m.who), c, "host")
      BY <1>3, <2>3, CreateRoomIs
    <3> QED
      BY <3>1, <3>2 DEF Roles
  <2> QED
    BY <2>1, <2>2, <2>3
<1>4. CASE mine = {} /\ m.role # "host"
  <2>1. CASE R.state = "none"
    <3>1. HandleHello(R, c, m) = Fatal(R, c, "run_not_found")
      BY <1>4, <2>1 DEF HandleHello
    <3> QED
      BY <1>2, <3>1 DEF Codes
  <2>2. CASE R.state # "none" /\ (R.state # "waiting" \/ Cardinality(Occupied(R)) # 1)
    <3>1. HandleHello(R, c, m) = Fatal(R, c, "run_full")
      BY <1>4, <2>2 DEF HandleHello
    <3> QED
      BY <1>2, <3>1 DEF Codes
  <2>3. CASE R.state = "waiting" /\ Cardinality(Occupied(R)) = 1
    <3>1. HandleHello(R, c, m) = JoinRoom(R, c, m.who)
      BY <1>4, <2>3 DEF HandleHello
    <3>2. RoleOf(m.who) = "join"
      BY <1>4 DEF RoleOf
    <3>3. Bound(R, JoinRoom(R, c, m.who), c, "join")
      BY <2>3, <3>2, JoinRoomIs
    <3> QED
      BY <3>1, <3>3 DEF Roles
  <2> QED
    BY <2>1, <2>2, <2>3
<1> QED
  BY <1>1, <1>3, <1>4

\* The relay R becomes Q when it reads m from c.
Heard(R, Q, c, m) ==
    \/ Mild(R, Q) /\ ~(m.t = "floor" /\ R.seat[c] = "host")
    \/ m.t = "ready" /\ R.seat[c] \in DOMAIN R.slots /\ Readied(R, Q, R.seat[c])
    \/ m.t = "floor" /\ R.seat[c] = "host" /\ Floored(R, Q, m)
    \/ m.t = "hello" /\ R.seat[c] = "none" /\ \E r \in Roles : Bound(R, Q, c, r)

LEMMA HandleMessageIs ==
    ASSUME NEW R, NEW drawn, NEW own, NEW c \in R.live, NEW m \in UpMsgs, Good(R, drawn, own),
           R.out = Silent, Orderly(R), Roled(R),
           m.t = "hello" => m.who \in Players /\ m.role = RoleOf(m.who)
    PROVE  Heard(R, HandleMessage(R, c, m), c, m)
<1> DEFINE r == R.seat[c]
           Q == HandleMessage(R, c, m)
<1>1. c \in Conns /\ R \in Relays /\ r \in Roles \cup {"none"}
  BY RelayFields DEF Good
<1>2. r # "none" => r \in DOMAIN R.slots
  BY <1>1 DEF Good, Paired
<1>3. CASE r = "none" /\ m.t = "hello"
  <2>1. Q = HandleHello(R, c, m)
    BY <1>3 DEF HandleMessage
  <2>2. Mild(R, Q) \/ \E x \in Roles : Bound(R, Q, c, x)
    BY <1>3, <2>1, HandleHelloIs
  <2> QED
    BY <1>3, <2>2 DEF Heard
<1>4. CASE r = "none" /\ m.t # "hello"
  <2>1. Q = Fatal(R, c, "bad_msg") /\ "bad_msg" \in Codes
    BY <1>4 DEF HandleMessage, Codes
  <2>2. Mild(R, Q)
    BY <1>1, <2>1, FatalMild
  <2> QED
    BY <1>4, <2>2 DEF Heard
<1>5. CASE r # "none" /\ ~RoleAllowed(m.t, r)
  <2>1. Q = ReplyError(R, c, "role_forbidden") /\ "role_forbidden" \in Codes
    BY <1>5 DEF HandleMessage, Codes, RoleAllowed, HostOnly
  <2>2. Mild(R, Q)
    BY <1>1, <2>1, ReplyErrorMild
  <2> QED
    BY <1>5, <2>2 DEF Heard, RoleAllowed
<1>6. CASE r # "none" /\ RoleAllowed(m.t, r) /\ m.t = "ready"
  <2>1. Q = HandleReady(R, c, r)
    BY <1>6 DEF HandleMessage
  <2>2. Mild(R, Q) \/ Readied(R, Q, r)
    BY <1>1, <1>2, <1>6, <2>1, HandleReadyIs
  <2> QED
    BY <1>2, <1>6, <2>2 DEF Heard
<1>7. CASE r # "none" /\ RoleAllowed(m.t, r) /\ m.t = "kick"
  <2>1. Q = HandleKick(R, c)
    BY <1>7 DEF HandleMessage, RoleAllowed, HostOnly
  <2>2. Mild(R, Q)
    BY <1>1, <2>1, HandleKickMild
  <2> QED
    BY <1>7, <2>2 DEF Heard
<1>8. CASE r # "none" /\ RoleAllowed(m.t, r) /\ m.t = "floor"
  <2>1. Q = HandleFloor(R, m) /\ r = "host"
    BY <1>8 DEF HandleMessage, RoleAllowed, HostOnly
  <2>2. m \in FloorMsgs
    BY <1>8 DEF UpMsgs, FloorMsgs
  <2>3. Floored(R, Q, m)
    BY <2>1, <2>2, HandleFloorIs
  <2> QED
    BY <1>8, <2>1, <2>3 DEF Heard
<1>9. CASE r # "none" /\ RoleAllowed(m.t, r) /\ m.t = "run_ended"
  <2>1. Q = SendPartner(R, "host", m)
    BY <1>9 DEF HandleMessage, RoleAllowed, HostOnly, HandleRunEnded
  <2>2. m \in DownMsgs /\ m.t \notin Marks
    BY <1>9 DEF UpMsgs, DownMsgs, FloorMsgs, Marks
  <2>3. Mild(R, Q)
    BY <1>1, <2>1, <2>2, SendPartnerMild
  <2> QED
    BY <1>9, <2>3 DEF Heard
<1>10. CASE /\ r # "none" /\ RoleAllowed(m.t, r)
            /\ m.t \notin {"ready", "kick", "floor", "run_ended", "snapshot"}
  <2>1. Q = FinalizeSlotDeparture(R, r)
    BY <1>10 DEF HandleMessage, HandleBye
  <2>2. Mild(R, Q)
    BY <1>2, <1>10, <2>1, FinalizeMild
  <2> QED
    BY <1>10, <2>2 DEF Heard
<1>11. m.t # "snapshot"
  BY DEF UpMsgs, FloorMsgs
<1> QED
  BY <1>3, <1>4, <1>5, <1>6, <1>7, <1>8, <1>9, <1>10, <1>11

-----------------------------------------------------------------------------
(* The steps of the relay *)

\* The relay becomes R and has read the head of what c sent, if it has read
\* anything; what it closed it does not read any further.
Moves(R, c) ==
    /\ R \in Relays /\ Alike(R, relay')
    /\ UNCHANGED <<sock, owner, cut, client>>
    /\ \A d \in Conns : down'[d] = IF sock[d] = "open" /\ d \notin cut
                                     THEN down[d] \o R.out[d] ELSE down[d]
    /\ \A d \in Conns : up'[d] \in {<<>>, IF d = c THEN Tail(up[d]) ELSE up[d]}
    /\ \A d \in relay.live \cap R.live : up'[d] = IF d = c THEN Tail(up[d]) ELSE up[d]
    /\ c \in Conns => up[c] # <<>>

Turn(R, c) ==
    \/ /\ Mild(relay, R)
       /\ c \in Conns => ~(Head(up[c]).t = "floor" /\ relay.seat[c] = "host")
    \/ /\ c \in Conns /\ Head(up[c]).t = "ready"
       /\ relay.seat[c] \in DOMAIN relay.slots /\ Readied(relay, R, relay.seat[c])
    \/ /\ c \in Conns /\ Head(up[c]).t = "floor" /\ relay.seat[c] = "host"
       /\ Floored(relay, R, Head(up[c]))
    \/ /\ c \in Conns /\ Head(up[c]).t = "hello" /\ relay.seat[c] = "none"
       /\ \E r \in Roles : Bound(relay, R, c, r)

\* The queues before and after.
LEMMA Queues ==
    ASSUME IInv
    PROVE  \A d \in Conns : up[d] \in Seq(UpMsgs) /\ down[d] \in Seq(DownMsgs)
BY DEF IInv, TypeOK

LEMMA MovesUp ==
    ASSUME IInv, NEW R, NEW c, Moves(R, c), NEW d \in Conns
    PROVE  \A t : Thin(up'[d], up[d], t)
<1>1. up[d] \in Seq(UpMsgs)
  BY Queues
<1>2. up'[d] = <<>> \/ up'[d] = up[d] \/ (up[d] # <<>> /\ up'[d] = Tail(up[d]))
  BY DEF Moves
<1>3. ASSUME NEW t PROVE Thin(up'[d], up[d], t)
  <2>1. CASE up'[d] = <<>>
    BY <1>1, <2>1, ThinSame
  <2>2. CASE up'[d] = up[d]
    BY <1>1, <2>2, ThinSame
  <2>3. CASE up[d] # <<>> /\ up'[d] = Tail(up[d])
    BY <1>1, <2>3, ThinTail
  <2> QED
    BY <1>2, <2>1, <2>2, <2>3
<1> QED
  BY <1>3

LEMMA MovesDown ==
    ASSUME IInv, NEW R, NEW c, Moves(R, c), NEW d \in Conns
    PROVE  \A t : /\ Has(down'[d], t) => \/ Has(down[d], t)
                                         \/ sock[d] = "open" /\ Has(R.out[d], t)
                  /\ Has(down[d], t) => Has(down'[d], t)
<1>1. down[d] \in Seq(DownMsgs) /\ R.out[d] \in Seq(DownMsgs)
  BY Queues, RelayFields DEF Moves
<1>2. \/ down'[d] = down[d]
      \/ sock[d] = "open" /\ down'[d] = down[d] \o R.out[d]
  BY DEF Moves
<1> DEFINE e == R.out[d]
<1> HIDE DEF e
<1>3. e \in Seq(DownMsgs) /\ (down'[d] = down[d] \/ (sock[d] = "open" /\ down'[d] = down[d] \o e))
  BY <1>1, <1>2 DEF e
<1>4. \A t : /\ Has(down[d], t) => Has(down[d] \o e, t)
             /\ Has(down[d] \o e, t) => Has(down[d], t) \/ Has(e, t)
  BY <1>1, <1>3, HasAppend
<1>5. \A t : /\ Has(down'[d], t) => Has(down[d], t) \/ (sock[d] = "open" /\ Has(e, t))
             /\ Has(down[d], t) => Has(down'[d], t)
  BY <1>3, <1>4
<1> QED
  BY <1>5 DEF e

\* Who sits in the seats.
LEMMA SeatsOf ==
    ASSUME NEW R, NEW drawn, NEW own, Good(R, drawn, own), Roled(R)
    PROVE  /\ R \in Relays /\ DOMAIN R.slots \subseteq Roles /\ R.live \subseteq Conns
           /\ \A c \in Conns : R.seat[c] # "none" =>
                /\ c \in R.live /\ R.seat[c] \in DOMAIN R.slots
                /\ R.slots[R.seat[c]].conn = c /\ RoleOf(own[c]) = R.seat[c]
           /\ \A r \in DOMAIN R.slots : R.slots[r].conn \in Conns =>
                /\ R.slots[r].conn \in R.live /\ R.seat[R.slots[r].conn] = r
                /\ RoleOf(own[R.slots[r].conn]) = r
<1>1. R \in Relays /\ DOMAIN R.slots \subseteq Roles /\ R.live \subseteq Conns
  BY RelayFields, SlotMapFacts DEF Good
<1>2. ASSUME NEW r \in DOMAIN R.slots, R.slots[r].conn \in Conns
      PROVE  /\ R.slots[r].conn \in R.live /\ R.seat[R.slots[r].conn] = r
             /\ RoleOf(own[R.slots[r].conn]) = r
  <2>1. R.slots[r].conn # NoConn
    BY <1>2, ConnFacts
  <2>2. R.slots[r].who = own[R.slots[r].conn] /\ RoleOf(R.slots[r].who) = r
    BY <2>1 DEF Good, Traced, Roled
  <2> QED
    BY <2>1, <2>2 DEF Good, Paired
<1>3. ASSUME NEW c \in Conns, R.seat[c] # "none"
      PROVE  /\ c \in R.live /\ R.seat[c] \in DOMAIN R.slots
             /\ R.slots[R.seat[c]].conn = c /\ RoleOf(own[c]) = R.seat[c]
  <2>1. c \in R.live /\ R.seat[c] \in DOMAIN R.slots /\ R.slots[R.seat[c]].conn = c
    BY <1>3 DEF Good, Paired
  <2> QED
    BY <1>2, <2>1
<1> QED
  BY <1>1, <1>2, <1>3

LEMMA SeatsNow ==
    ASSUME IInv, Roled(relay)
    PROVE  /\ relay \in Relays /\ DOMAIN relay.slots \subseteq Roles /\ relay.live \subseteq Conns
           /\ \A c \in Conns : relay.seat[c] # "none" =>
                /\ c \in relay.live /\ relay.seat[c] \in DOMAIN relay.slots
                /\ relay.slots[relay.seat[c]].conn = c /\ RoleOf(owner[c]) = relay.seat[c]
           /\ \A r \in DOMAIN relay.slots : relay.slots[r].conn \in Conns =>
                /\ relay.slots[r].conn \in relay.live /\ relay.seat[relay.slots[r].conn] = r
                /\ RoleOf(owner[relay.slots[r].conn]) = r
<1>1. \E drawn : Good(relay, drawn, owner)
  BY DEF IInv
<1> QED
  BY <1>1, SeatsOf

LEMMA SeatsThen ==
    ASSUME IInv', Roled(relay')
    PROVE  /\ relay' \in Relays /\ DOMAIN relay'.slots \subseteq Roles /\ relay'.live \subseteq Conns
           /\ \A c \in Conns : relay'.seat[c] # "none" =>
                /\ c \in relay'.live /\ relay'.seat[c] \in DOMAIN relay'.slots
                /\ relay'.slots[relay'.seat[c]].conn = c /\ RoleOf(owner'[c]) = relay'.seat[c]
           /\ \A r \in DOMAIN relay'.slots : relay'.slots[r].conn \in Conns =>
                /\ relay'.slots[r].conn \in relay'.live /\ relay'.seat[relay'.slots[r].conn] = r
                /\ RoleOf(owner'[relay'.slots[r].conn]) = r
<1>1. \E drawn : Good(relay', drawn, owner')
  BY DEF IInv
<1> QED
  BY <1>1, SeatsOf

LEMMA RoleFacts == /\ RoleOf(Host) = "host" /\ \A p : RoleOf(p) = "host" <=> p = Host
                   /\ \A j \in Joiners : RoleOf(j) = "join"
BY PlayersAssumption DEF RoleOf

\* A hello is read by a connection without a seat, the others by the seat's.
LEMMA MovesSeated ==
    ASSUME IInv, FInv, IInv', NEW R, NEW c, Moves(R, c), Turn(R, c)
    PROVE  Seated'
<1>1. Roled(relay) /\ Orderly(relay)
  BY DEF FInv, Seated
<1>2. Roled(R) /\ Orderly(R)
  <2>1. CASE Mild(relay, R)
    BY <1>1, <2>1 DEF Mild, Roled
  <2>2. CASE \E r : Readied(relay, R, r)
    BY <1>1, <2>2 DEF Readied, Roled
  <2>3. CASE \E m : Floored(relay, R, m)
    <3>1. PICK m : Floored(relay, R, m)
      BY <2>3
    <3>2. Len(<<m>>) <= 1
      OBVIOUS
    <3> QED
      BY <1>1, <3>1, <3>2 DEF Floored, Roled, Orderly
  <2>4. CASE \E r : Bound(relay, R, c, r)
    BY <2>4 DEF Bound, Greeted
  <2> QED
    BY <2>1, <2>2, <2>3, <2>4 DEF Turn
<1>3. Roled(relay') /\ Orderly(relay')
  BY <1>2 DEF Moves, Alike, Roled, Orderly
<1>4. ASSUME NEW d \in Conns, NEW i \in DOMAIN up'[d], up'[d][i].t = "hello"
      PROVE  up'[d][i].role = RoleOf(up'[d][i].who)
  <2>1. Thin(up'[d], up[d], "hello")
    BY MovesUp
  <2>2. PICK k \in DOMAIN up[d] : up'[d][i] = up[d][k]
    BY <1>4, <2>1 DEF Thin
  <2> QED
    BY <1>4, <2>2 DEF FInv, Seated
<1> QED
  BY <1>3, <1>4 DEF Seated

\* The connections a relay has are no more than it had.
LEMMA MovesLive ==
    ASSUME NEW R, NEW c, Moves(R, c), Turn(R, c)
    PROVE  relay'.live \subseteq relay.live
<1>1. R.live \subseteq relay.live
  BY DEF Turn, Mild, Readied, Floored, Bound, Greeted
<1> QED
  BY <1>1 DEF Moves, Alike

LEMMA MovesFresh ==
    ASSUME IInv, FInv, NEW R, NEW c, Moves(R, c), Turn(R, c)
    PROVE  Fresh'
<1>1. ASSUME NEW d \in Conns, sock'[d] \in {"unused", "dialing"}
      PROVE  d \notin relay'.live /\ down'[d] = <<>> /\ ~Has(up'[d], "hello")
  <2>1. sock[d] # "open" /\ sock[d] \in {"unused", "dialing"}
    BY <1>1 DEF Moves
  <2>2. d \notin relay.live /\ down[d] = <<>> /\ ~Has(up[d], "hello")
    BY <2>1 DEF FInv, Fresh
  <2>3. down'[d] = down[d]
    BY <2>1 DEF Moves
  <2>4. ~Has(up'[d], "hello")
    BY <2>2, MovesUp, ThinHas
  <2> QED
    BY <2>2, <2>3, <2>4, MovesLive
<1> QED
  BY <1>1 DEF Fresh

\* What is sent tells who is welcome, who starts and who gets a floor.
LEMMA TurnOut ==
    ASSUME IInv, NEW R, NEW c, Moves(R, c), Turn(R, c), NEW d \in Conns
    PROVE  /\ Has(R.out[d], "welcome") => c = d /\ Head(up[c]).t = "hello"
           /\ Has(R.out[d], "start") => relay.seat[d] # "none"
           /\ R.seat[d] # "none" =>
                relay.seat[d] # "none" \/ (c = d /\ Head(up[c]).t = "hello")
<1>1. relay.out = Silent
  BY DEF IInv
<1>2. CASE Mild(relay, R)
  <2>1. Quiet(R.out[d]) /\ R.seat[d] \in {relay.seat[d], "none"}
    BY <1>1, <1>2, SilentQuiet DEF Mild
  <2> QED
    BY <2>1, QuietHas
<1>3. CASE \E r : Readied(relay, R, r)
  <2>1. R.seat = relay.seat
    BY <1>3 DEF Readied
  <2>2. \/ Quiet(R.out[d])
        \/ /\ ~Has(R.out[d], "welcome") /\ ~Has(R.out[d], "floor")
           /\ Has(R.out[d], "start") => relay.seat[d] # "none"
    BY <1>3 DEF Readied
  <2> QED
    BY <2>1, <2>2, QuietHas
<1>4. CASE c \in Conns /\ Head(up[c]).t = "floor" /\ Floored(relay, R, Head(up[c]))
  <2> DEFINE m == Head(up[c])
  <2>1. m \in DownMsgs /\ m.t = "floor"
    <3>1. m \in UpMsgs
      BY <1>4, Queues, HeadTail DEF Moves
    <3> QED
      BY <1>4, <3>1 DEF UpMsgs, DownMsgs, FloorMsgs
  <2>2. R.out[d] \in {<<m>>, <<>>} /\ R.seat = relay.seat
    BY <1>4 DEF Floored
  <2> HIDE DEF m
  <2>3. \A t : t # "floor" => ~Has(R.out[d], t)
    BY <2>1, <2>2, OneMessage, NoMessage
  <2> QED
    BY <2>2, <2>3
<1>5. CASE Head(up[c]).t = "hello" /\ \E r \in Roles : Bound(relay, R, c, r)
  <2>1. PICK r \in Roles : Greeted(relay, R, c, r)
    BY <1>5 DEF Bound
  <2>2. d = c => ~Has(R.out[d], "start")
    BY <2>1 DEF Greeted
  <2>3. d # c => Quiet(R.out[d]) /\ R.seat[d] \in {relay.seat[d], "none"}
    BY <2>1 DEF Greeted
  <2> QED
    BY <1>5, <2>2, <2>3, QuietHas
<1> QED
  BY <1>2, <1>3, <1>4, <1>5 DEF Turn

LEMMA MovesHellos ==
    ASSUME IInv, FInv, NEW R, NEW c, Moves(R, c), Turn(R, c)
    PROVE  Hellos'
<1>1. ASSUME NEW d \in Conns PROVE Once(up'[d], "hello")
  <2>1. Thin(up'[d], up[d], "hello") /\ Once(up[d], "hello") /\ up[d] \in Seq(UpMsgs)
    BY MovesUp, Queues DEF FInv, Hellos
  <2>2. up'[d] \in Seq(UpMsgs)
    <3>1. up'[d] = <<>> \/ up'[d] = up[d] \/ (up[d] # <<>> /\ up'[d] = Tail(up[d]))
      BY DEF Moves
    <3>2. <<>> \in Seq(UpMsgs)
      OBVIOUS
    <3> QED
      BY <2>1, <3>1, <3>2, HeadTail
  <2> QED
    BY <2>1, <2>2, ThinOnce
<1>2. ASSUME NEW d \in Conns,
             relay'.seat[d] # "none" \/ Has(down'[d], "welcome") \/ Has(down'[d], "start")
      PROVE  ~Has(up'[d], "hello")
  <2>1. CASE c = d /\ Head(up[c]).t = "hello"
    <3>1. up[d] # <<>> /\ up[d] \in Seq(UpMsgs) /\ Once(up[d], "hello")
      BY <2>1, Queues DEF Moves, FInv, Hellos
    <3>2. ~Has(Tail(up[d]), "hello")
      BY <2>1, <3>1, HasTail
    <3>3. up'[d] = <<>> \/ up'[d] = Tail(up[d])
      BY <2>1 DEF Moves
    <3> QED
      BY <3>2, <3>3, NoMessage
  <2>2. CASE ~(c = d /\ Head(up[c]).t = "hello")
    <3>1. relay'.seat[d] = R.seat[d]
      BY DEF Moves, Alike
    <3>2. relay.seat[d] # "none" \/ Has(down[d], "welcome") \/ Has(down[d], "start")
      BY <1>2, <2>2, <3>1, TurnOut, MovesDown
    <3>3. ~Has(up[d], "hello")
      BY <3>2 DEF FInv, Hellos
    <3> QED
      BY <3>3, MovesUp, ThinHas
  <2> QED
    BY <2>1, <2>2
<1> QED
  BY <1>1, <1>2 DEF Hellos

LEMMA MovesHostSession ==
    ASSUME FInv, NEW R, NEW c, Moves(R, c)
    PROVE  HostSession' /\ (NoneClosed' <=> NoneClosed) /\ (MayReady' <=> MayReady)
           /\ HostSocks' = HostSocks
<1>1. sock' = sock /\ owner' = owner /\ client' = client
  BY DEF Moves
<1>2. HostSocks' = HostSocks
  BY <1>1 DEF HostSocks
<1>3. NoneClosed' <=> NoneClosed
  BY <1>1, <1>2 DEF NoneClosed
<1> QED
  BY <1>1, <1>2, <1>3 DEF FInv, HostSession, MayReady

LEMMA MovesFloorsGoOut ==
    ASSUME IInv, FInv, IInv', NEW R, NEW c, Moves(R, c), Turn(R, c)
    PROVE  FloorsGoOut'
<1>1. Roled(relay) /\ Roled(relay')
  BY MovesSeated DEF FInv, Seated
<1>2. ASSUME NEW d \in HostSocks, Has(R.out[d], "floor") PROVE FALSE
  <2>1. d \in Conns /\ owner[d] = Host /\ RoleOf(owner[d]) = "host" /\ owner' = owner
    BY RoleFacts DEF HostSocks, Moves
  <2>2. CASE Mild(relay, R)
    BY <1>2, <2>1, <2>2, SilentQuiet, QuietHas DEF Mild, IInv
  <2>3. CASE \E r : Readied(relay, R, r)
    BY <1>2, <2>1, <2>3, QuietHas DEF Readied
  <2>4. CASE \E m : Floored(relay, R, m)
    <3>1. PICK m : Floored(relay, R, m)
      BY <2>4
    <3>2. "join" \in DOMAIN relay.slots /\ relay.slots["join"].conn = d
      BY <1>2, <2>1, <3>1, NoMessage DEF Floored
    <3> QED
      BY <1>1, <2>1, <3>2, SeatsNow
  <2>5. CASE \E r \in Roles : Bound(relay, R, c, r)
    <3>1. PICK r \in Roles : Bound(relay, R, c, r)
      BY <2>5
    <3>2. d = c /\ r = "join"
      BY <1>2, <2>1, <3>1, QuietHas DEF Bound, Greeted
    <3>3. "join" \in DOMAIN relay'.slots /\ relay'.slots["join"].conn = d
      BY <3>1, <3>2 DEF Bound, Greeted, Moves, Alike
    <3> QED
      BY <1>1, <2>1, <3>3, SeatsThen
  <2> QED
    BY <2>2, <2>3, <2>4, <2>5 DEF Turn
<1>3. HostSocks' = HostSocks
  BY MovesHostSession
<1>4. ASSUME NEW d \in HostSocks PROVE ~Has(down'[d], "floor")
  <2>1. d \in Conns /\ ~Has(down[d], "floor") /\ ~Has(R.out[d], "floor")
    BY <1>2 DEF FInv, FloorsGoOut, HostSocks
  <2> QED
    BY <2>1, MovesDown
<1> QED
  BY <1>3, <1>4 DEF FloorsGoOut

\* What cannot become true of the lobby unless somebody says ready.
LEMMA LobbyFrame ==
    ASSUME FInv, ReadyOnce', Waiting' => Waiting, Begun' => Begun, HostReady' => HostReady,
           MayReady' => MayReady, HostReady' /\ Begun' /\ relay.started => relay'.started
    PROVE  Lobby'
BY DEF FInv, Lobby

LEMMA ThinReady ==
    ASSUME IInv, IInv', FInv,
           \A c \in HostSocks' : up'[c] # <<>> => c \in HostSocks /\ Thin(up'[c], up[c], "ready")
    PROVE  ReadyOnce' /\ (Waiting' => Waiting)
<1>1. ReadyOnce /\ HostSocks' \subseteq Conns
  BY DEF FInv, Lobby, HostSocks
<1>2. ASSUME NEW a \in HostSocks', NEW b \in HostSocks',
             NEW i \in DOMAIN up'[a], NEW k \in DOMAIN up'[b],
             up'[a][i].t = "ready", up'[b][k].t = "ready"
      PROVE  a = b /\ i = k
  <2>1. up'[a] \in Seq(UpMsgs) /\ up'[b] \in Seq(UpMsgs)
    BY <1>1 DEF IInv, TypeOK
  <2>2. a \in HostSocks /\ b \in HostSocks /\ i \in Nat /\ k \in Nat
    <3>1. DOMAIN <<>> = {}
      OBVIOUS
    <3>2. up'[a] # <<>> /\ up'[b] # <<>>
      BY <1>2, <3>1
    <3>3. DOMAIN up'[a] \subseteq Nat /\ DOMAIN up'[b] \subseteq Nat
      BY <2>1
    <3> QED
      BY <1>2, <3>2, <3>3
  <2>3. up'[a] # <<>> /\ up'[b] # <<>>
    <3>1. DOMAIN <<>> = {}
      OBVIOUS
    <3> QED
      BY <1>2, <3>1
  <2>4. PICK x \in Nat : \A n \in DOMAIN up'[a] : up'[a][n].t = "ready" =>
                           n + x \in DOMAIN up[a] /\ up[a][n + x] = up'[a][n]
    BY <1>2, <2>3 DEF Thin
  <2>5. PICK y \in Nat : \A n \in DOMAIN up'[b] : up'[b][n].t = "ready" =>
                           n + y \in DOMAIN up[b] /\ up[b][n + y] = up'[b][n]
    BY <1>2, <2>3 DEF Thin
  <2>6. i + x \in DOMAIN up[a] /\ up[a][i + x].t = "ready"
    BY <1>2, <2>4
  <2>7. k + y \in DOMAIN up[b] /\ up[b][k + y].t = "ready"
    BY <1>2, <2>5
  <2>8. a = b
    BY <1>1, <2>2, <2>6, <2>7 DEF ReadyOnce
  <2>9. k + x \in DOMAIN up[a] /\ up[a][k + x].t = "ready"
    BY <1>2, <2>4, <2>8
  <2>10. i + x = k + x
    BY <1>1, <2>2, <2>6, <2>9 DEF ReadyOnce
  <2> QED
    BY <2>2, <2>8, <2>10
<1>3. ReadyOnce'
  BY <1>2 DEF ReadyOnce
<1>4. ASSUME NEW a \in HostSocks', Has(up'[a], "ready") PROVE Waiting
  <2>1. up'[a] # <<>>
    BY <1>4, NoMessage
  <2> QED
    BY <1>4, <2>1, ThinHas DEF Waiting
<1> QED
  BY <1>3, <1>4 DEF Waiting

LEMMA MovesReady ==
    ASSUME IInv, FInv, IInv', NEW R, NEW c, Moves(R, c), Turn(R, c)
    PROVE  ReadyOnce' /\ (Waiting' => Waiting)
           /\ (c \in HostSocks /\ Head(up[c]).t = "ready" => ~Waiting')
<1>1. HostSocks' = HostSocks /\ HostSocks \subseteq Conns
  BY MovesHostSession DEF HostSocks
<1>2. ReadyOnce
  BY DEF FInv, Lobby
<1>3. ReadyOnce' /\ (Waiting' => Waiting)
  BY <1>1, MovesUp, ThinReady
<1>5. ASSUME c \in HostSocks, Head(up[c]).t = "ready", NEW d \in HostSocks, Has(up'[d], "ready")
      PROVE  FALSE
  <2>1. up[c] # <<>> /\ up[c] \in Seq(UpMsgs)
    BY <1>1, <1>5, Queues DEF Moves
  <2>2. 1 \in DOMAIN up[c] /\ up[c][1].t = "ready"
    BY <1>5, <2>1, HeadTail
  <2>3. Has(up[d], "ready")
    BY <1>1, <1>5, MovesUp, ThinHas
  <2>4. d = c
    BY <1>2, <1>5, <2>2, <2>3 DEF ReadyOnce, Has
  <2>5. up'[d] = <<>> \/ up'[d] = Tail(up[c])
    BY <1>1, <2>4 DEF Moves
  <2>6. Once(up[c], "ready")
    BY <1>2, <1>5 DEF ReadyOnce, Once
  <2> QED
    BY <1>5, <2>1, <2>5, <2>6, HasTail, NoMessage
<1> QED
  BY <1>1, <1>3, <1>5 DEF Waiting

\* What begins a run: the relay starts it, and all else follows.
LEMMA MovesBegun ==
    ASSUME IInv, FInv, IInv', NEW R, NEW c, Moves(R, c), Turn(R, c), Begun'
    PROVE  Begun \/ (~relay.started /\ relay'.started)
<1>1. SUFFICES ASSUME ~Begun, relay'.started => relay.started PROVE FALSE
  OBVIOUS
<1>2. /\ ~relay.started /\ relay.floor = <<>> /\ ~client[Host].started /\ relay.out = Silent
      /\ \A d \in HostSocks : ~Has(down[d], "start") /\ ~Has(up[d], "floor")
  BY <1>1 DEF Begun, IInv
<1>3. ~relay'.started /\ client' = client /\ R.started = relay'.started /\ R.floor = relay'.floor
  BY <1>1, <1>2 DEF Moves, Alike
<1>4. HostSocks' = HostSocks /\ HostSocks \subseteq Conns
  BY MovesHostSession DEF HostSocks
<1>5. \A d \in HostSocks : ~Has(up'[d], "floor")
  BY <1>2, <1>4, MovesUp, ThinHas
<1>6. relay'.floor = <<>> /\ \A d \in Conns : ~Has(R.out[d], "start")
  <2>1. CASE Mild(relay, R)
    BY <1>2, <1>3, <2>1, SilentQuiet, QuietHas DEF Mild
  <2>2. CASE \E r : Readied(relay, R, r)
    BY <1>2, <1>3, <2>2, QuietHas DEF Readied
  <2>3. CASE c \in Conns /\ Head(up[c]).t = "floor" /\ relay.seat[c] = "host"
    <3>1. owner[c] = Host
      BY <2>3, SeatsNow, RoleFacts DEF FInv, Seated
    <3>2. up[c] \in Seq(UpMsgs) /\ up[c] # <<>>
      BY <2>3, Queues DEF Moves
    <3>3. Has(up[c], "floor")
      BY <2>3, <3>2, HeadTail DEF Has
    <3> QED
      BY <1>2, <2>3, <3>1, <3>3 DEF HostSocks
  <2>4. CASE \E r \in Roles : Bound(relay, R, c, r)
    BY <1>2, <1>3, <2>4, QuietHas DEF Bound, Greeted
  <2> QED
    BY <2>1, <2>2, <2>3, <2>4 DEF Turn
<1>7. \A d \in HostSocks : ~Has(down'[d], "start")
  BY <1>2, <1>4, <1>6, MovesDown
<1> QED
  BY <1>2, <1>3, <1>4, <1>5, <1>6, <1>7 DEF Begun

\* The relay starts a run when the host has been ready, and nothing has begun.
LEMMA MovesStart ==
    ASSUME IInv, FInv, IInv', NEW R, NEW c, Moves(R, c), Turn(R, c), ~relay.started, relay'.started
    PROVE  ~Begun /\ ~Waiting' /\ ~MayReady
<1>1. R.started
  BY DEF Moves, Alike
<1>2. PICK r : /\ c \in Conns /\ Head(up[c]).t = "ready" /\ r = relay.seat[c]
               /\ r \in DOMAIN relay.slots /\ Readied(relay, R, r)
  BY <1>1 DEF Turn, Mild, Floored, Bound, Greeted
<1>3. "host" \in DOMAIN relay.slots /\ (relay.slots["host"].ready \/ r = "host")
  BY <1>1, <1>2 DEF Readied
<1>4. CASE relay.slots["host"].ready
  BY <1>3, <1>4, MovesReady DEF FInv, Lobby, HostReady
<1>5. CASE r = "host"
  <2>3. c \in Conns /\ relay.seat[c] = "host"
    BY <1>2, <1>5
  <2>1. owner[c] = Host
    BY <2>3, SeatsNow, RoleFacts DEF FInv, Seated
  <2>2. c \in HostSocks /\ up[c] \in Seq(UpMsgs) /\ up[c] # <<>>
    BY <1>2, <2>1, Queues DEF HostSocks, Moves
  <2>4. Has(up[c], "ready")
    BY <1>2, <2>2, HeadTail DEF Has
  <2> QED
    BY <1>2, <2>2, <2>4, MovesReady DEF FInv, Lobby, Waiting
<1> QED
  BY <1>3, <1>4, <1>5

LEMMA MovesLobby ==
    ASSUME IInv, FInv, IInv', NEW R, NEW c, Moves(R, c), Turn(R, c)
    PROVE  Lobby'
<1>1. /\ ReadyOnce' /\ (Waiting' => Waiting) /\ (MayReady' <=> MayReady)
      /\ relay'.started = R.started /\ relay'.slots = R.slots
  BY MovesReady, MovesHostSession DEF Moves, Alike
<1>2. CASE ~relay.started /\ relay'.started
  BY <1>1, <1>2, MovesStart DEF Lobby
<1>3. CASE relay'.started => relay.started
  <2>1. Begun' => Begun
    BY <1>3, MovesBegun
  <2>2. CASE /\ c \in Conns /\ Head(up[c]).t = "ready" /\ relay.seat[c] = "host"
             /\ Readied(relay, R, "host")
    <3>1. owner[c] = Host
      BY <2>2, SeatsNow, RoleFacts DEF FInv, Seated, Roles
    <3>2. c \in HostSocks /\ up[c] \in Seq(UpMsgs) /\ up[c] # <<>>
      BY <2>2, <3>1, Queues DEF HostSocks, Moves
    <3>3. Has(up[c], "ready")
      BY <2>2, <3>2, HeadTail DEF Has
    <3>4. Waiting /\ ~Waiting'
      BY <2>2, <3>2, <3>3, MovesReady DEF Waiting
    <3> QED
      BY <1>1, <2>1, <3>4 DEF FInv, Lobby
  <2>3. CASE /\ HostReady' => HostReady
             /\ HostReady' /\ relay.started => relay'.started
    BY <1>1, <2>1, <2>3, LobbyFrame
  <2>4. CASE Mild(relay, R)
    BY <1>1, <2>3, <2>4 DEF Mild, HostReady
  <2>5. CASE \E r : r # "host" /\ Readied(relay, R, r)
    BY <1>1, <2>3, <2>5 DEF Readied, HostReady
  <2>6. CASE \E m : Floored(relay, R, m)
    BY <1>1, <2>3, <2>6 DEF Floored, HostReady
  <2>7. CASE \E r \in Roles : Bound(relay, R, c, r)
    BY <1>1, <2>3, <2>7 DEF Bound, Greeted, HostReady
  <2> QED
    BY <2>2, <2>4, <2>5, <2>6, <2>7 DEF Turn
<1> QED
  BY <1>2, <1>3

\* A seat's connection was its connection already, unless it has just said hello.
LEMMA MovesLink ==
    ASSUME IInv, FInv, IInv', NEW R, NEW c, Moves(R, c), Turn(R, c),
           NEW p \in Players, NEW d, d = client[p].conn,
           d \in relay'.live \ cut, sock[d] = "open",
           RoleOf(p) \in DOMAIN relay'.slots, relay'.slots[RoleOf(p)].conn = d
    PROVE  /\ d \in Conns \ cut /\ d \in relay.live \cap R.live
           /\ \/ Link(p)
              \/ d = c /\ Head(up[c]).t = "hello" /\ Bound(relay, R, c, RoleOf(p))
<1> DEFINE r == RoleOf(p)
<1>1. client' = client /\ cut' = cut /\ sock' = sock
      /\ R.live = relay'.live /\ R.slots = relay'.slots /\ R.seat = relay'.seat
  BY DEF Moves, Alike
<1>2. /\ d \in R.live \ cut /\ sock[d] = "open"
      /\ r \in DOMAIN R.slots /\ R.slots[r].conn = d
  BY <1>1
<1>3. d \in relay.live /\ relay.live \subseteq Conns
  BY <1>1, <1>2, MovesLive, SeatsNow DEF FInv, Seated
<1>4. d # NoConn
  BY <1>3, ConnFacts
<1>6. \/ r \in DOMAIN relay.slots /\ relay.slots[r].conn = d
      \/ d = c /\ Head(up[c]).t = "hello" /\ Bound(relay, R, c, r)
  <2>1. CASE Mild(relay, R)
    BY <1>2, <1>4, <2>1 DEF Mild
  <2>2. CASE \E x : Readied(relay, R, x)
    BY <1>2, <2>2 DEF Readied
  <2>3. CASE \E m : Floored(relay, R, m)
    BY <1>2, <2>3 DEF Floored
  <2>4. CASE Head(up[c]).t = "hello" /\ \E x \in Roles : Bound(relay, R, c, x)
    <3>1. PICK x \in Roles : Bound(relay, R, c, x)
      BY <2>4
    <3>2. CASE x = r
      BY <1>2, <2>4, <3>1, <3>2 DEF Bound, Greeted
    <3>3. CASE x # r
      BY <1>2, <3>1, <3>3 DEF Bound, Greeted
    <3> QED
      BY <3>2, <3>3
  <2> QED
    BY <2>1, <2>2, <2>3, <2>4 DEF Turn
<1>7. Link(p) \/ (d = c /\ Head(up[c]).t = "hello" /\ Bound(relay, R, c, r))
  BY <1>2, <1>3, <1>6 DEF Link
<1> QED
  BY <1>1, <1>2, <1>3, <1>7

LEMMA MovesBack ==
    ASSUME IInv, FInv, IInv', NEW R, NEW c, Moves(R, c), Turn(R, c)
    PROVE  Back'
<1> DEFINE s == client[Host]
           d == client[Host].conn
<1>0. Host \in Players
  BY DEF Players
<1>1. client' = client /\ sock' = sock /\ Host \in Players /\ RoleOf(Host) = "host"
  BY RoleFacts DEF Moves, Players
<1>2. ASSUME Link(Host)', s.reconnecting PROVE Has(down'[d], "welcome")
  <2>4. /\ d \in relay'.live \ cut /\ sock[d] = "open"
        /\ RoleOf(Host) \in DOMAIN relay'.slots /\ relay'.slots[RoleOf(Host)].conn = d
    BY <1>1, <1>2 DEF Link, Moves
  <2>1. /\ d \in Conns \ cut
        /\ \/ Link(Host)
           \/ d = c /\ Bound(relay, R, c, RoleOf(Host))
    BY <1>0, <2>4, MovesLink
  <2>2. CASE Link(Host)
    <3>1. Has(down[d], "welcome")
      BY <1>2, <2>2 DEF FInv, Back
    <3> QED
      BY <2>1, <3>1, MovesDown
  <2>3. CASE d = c /\ Bound(relay, R, c, RoleOf(Host))
    <3>1. Has(R.out[d], "welcome")
      BY <2>3 DEF Bound, Greeted
    <3>2. down[d] \in Seq(DownMsgs) /\ R.out[d] \in Seq(DownMsgs)
      BY <2>1, Queues, RelayFields DEF Moves
    <3>3. down'[d] = down[d] \o R.out[d]
      BY <2>1, <2>4 DEF Moves
    <3> QED
      BY <3>1, <3>2, <3>3, HasAppend
  <2> QED
    BY <2>1, <2>2, <2>3
<1>3. ASSUME s.active, ~s.reconnecting, d # NoConn
      PROVE  sock[d] = "open" /\ ~Has(up'[d], "hello")
  <2>1. sock[d] = "open" /\ ~Has(up[d], "hello")
    BY <1>3 DEF FInv, Back
  <2>2. d \in Conns
    BY <1>1, <1>3, ConnOf, IInvParts
  <2> QED
    BY <2>1, <2>2, MovesUp, ThinHas
<1> QED
  BY <1>1, <1>2, <1>3 DEF Back

LEMMA MovesSent ==
    ASSUME IInv, FInv, IInv', NEW R, NEW c, Moves(R, c), Turn(R, c)
    PROVE  Sent'
<1> DEFINE s == client[Host]
           d == client[Host].conn
<1>0. Host \in Players
  BY DEF Players
<1>1. client' = client /\ Host \in Players /\ RoleOf(Host) = "host"
      /\ R.started = relay'.started /\ R.floor = relay'.floor
  BY RoleFacts DEF Moves, Players, Alike
<1>2. SUFFICES ASSUME R.started, Link(Host)', s.active, ~s.reconnecting
               PROVE  /\ LastFloor(up'[d], s.rev)
                      /\ ~Has(up'[d], "floor") => R.floor # <<>> /\ R.floor[1].rev = s.rev
  BY <1>1 DEF Sent
<1>13. /\ d \in relay'.live \ cut /\ sock[d] = "open"
       /\ RoleOf(Host) \in DOMAIN relay'.slots /\ relay'.slots[RoleOf(Host)].conn = d
  BY <1>1, <1>2 DEF Link, Moves
<1>14. /\ d \in Conns /\ d \in relay.live \cap R.live
       /\ Link(Host) \/ (d = c /\ Head(up[c]).t = "hello")
  BY <1>0, <1>13, MovesLink
<1>3. /\ d \in Conns /\ sock[d] = "open"
      /\ d # c => up'[d] = up[d]
      /\ d = c => up'[d] = Tail(up[d])
      /\ Link(Host) \/ (d = c /\ Head(up[c]).t = "hello")
  BY <1>13, <1>14 DEF Moves
<1>4. d # NoConn /\ up[d] \in Seq(UpMsgs)
  BY <1>3, ConnFacts, Queues
<1>5. ~Has(up[d], "hello")
  BY <1>2, <1>4 DEF FInv, Back
<1>6. d = c => up[d] # <<>> /\ Has(up[d], Head(up[d]).t)
  <2>1. ASSUME d = c PROVE up[d] # <<>>
    BY <1>3, <2>1 DEF Moves
  <2> QED
    BY <1>4, <2>1, HeadTail DEF Has
<1>7. Link(Host) /\ (d = c => Head(up[d]).t # "hello")
  BY <1>3, <1>5, <1>6
<1>8. relay.started
  <2>1. CASE ~relay.started
    <3>1. ~Begun
      BY <1>1, <1>2, <2>1, MovesStart
    <3> QED
      BY <1>2, <3>1 DEF Begun, FInv, HostSession
  <2> QED
    BY <2>1
<1>9. /\ LastFloor(up[d], s.rev)
      /\ ~Has(up[d], "floor") => relay.floor # <<>> /\ relay.floor[1].rev = s.rev
  BY <1>2, <1>7, <1>8 DEF FInv, Sent
<1>10. relay.seat[d] = "host" /\ relay.slots["host"].conn = d
  <2>1. "host" \in DOMAIN relay.slots /\ relay.slots["host"].conn = d
    BY <1>1, <1>7 DEF Link
  <2> QED
    BY <1>3, <2>1, SeatsNow DEF FInv, Seated
<1>11. CASE d = c /\ Head(up[d]).t = "floor"
  <2>1. Floored(relay, R, Head(up[d]))
    BY <1>3, <1>10, <1>11 DEF Turn
  <2>2. R.floor # <<>> /\ R.floor[1].rev = Head(up[d]).rev
    BY <2>1 DEF Floored
  <2> QED
    BY <1>3, <1>4, <1>6, <1>9, <1>11, <2>2, LastFloorTail
<1>12. CASE ~(d = c /\ Head(up[d]).t = "floor")
  <2>1. LastFloor(up'[d], s.rev)
    BY <1>3, <1>4, <1>6, <1>9, LastFloorTail
  <2>2. Has(up[d], "floor") => Has(up'[d], "floor")
    BY <1>3, <1>4, <1>6, <1>12, HasTail
  <2>3. R.floor = relay.floor
    <3>1. CASE Mild(relay, R)
      BY <1>2, <3>1 DEF Mild
    <3>2. CASE \E x : Readied(relay, R, x)
      BY <3>2 DEF Readied
    <3>3. CASE \E r : Bound(relay, R, c, r)
      BY <3>3 DEF Bound, Greeted
    <3>4. CASE c \in Conns /\ relay.seat[c] = "host" /\ Head(up[c]).t = "floor"
      <4>1. c = d
        BY <1>3, <1>10, <3>4, SeatsNow DEF FInv, Seated
      <4> QED
        BY <1>12, <3>4, <4>1
    <3> QED
      BY <3>1, <3>2, <3>3, <3>4 DEF Turn
  <2> QED
    BY <1>9, <2>1, <2>2, <2>3
<1> QED
  BY <1>11, <1>12

\* A queue that a floor ends, or that nothing of interest is added to.
LEMMA CaughtClosing ==
    ASSUME NEW S, NEW q \in Seq(S), NEW e \in Seq(S), NEW n, NEW s, Closing(e, n)
    PROVE  Caught(q \o e, n, s)
BY ClosingAppend DEF Caught

LEMMA CaughtQuiet ==
    ASSUME NEW S, NEW q \in Seq(S), NEW e \in Seq(S), NEW n, NEW s, Caught(q, n, s), Quiet(e)
    PROVE  Caught(q \o e, n, s)
<1>1. Followed(q) /\ LastFloor(q, n) /\ (~Has(q, "floor") => s.rev = n /\ ~s.awaiting)
  BY DEF Caught
<1>2. ~Has(e, "floor")
  BY QuietHas
<1>3. Followed(q \o e) /\ LastFloor(q \o e, n)
  BY <1>1, <1>2, FollowedAppend, LastFloorAppend
<1>4. Has(q, "floor") => Has(q \o e, "floor")
  BY HasAppend
<1> QED
  BY <1>1, <1>3, <1>4 DEF Caught

LEMMA MovesShown ==
    ASSUME IInv, FInv, IInv', NEW R, NEW c, Moves(R, c), Turn(R, c)
    PROVE  Shown'
<1>1. client' = client /\ R.started = relay'.started /\ R.floor = relay'.floor
      /\ relay.out = Silent
  BY DEF Moves, Alike, IInv
<1>2. SUFFICES ASSUME NEW j \in Joiners, R.started, Link(j)', R.floor # <<>>
               PROVE  Caught(down'[client[j].conn], R.floor[1].rev, client[j])
  BY <1>1 DEF Shown
<1> DEFINE s == client[j]
           d == client[j].conn
           e == R.out[d]
<1>0. j \in Players
  BY DEF Players
<1>3. j \in Players /\ RoleOf(j) = "join"
  BY RoleFacts DEF Players
<1>10. /\ d \in relay'.live \ cut /\ sock[d] = "open"
       /\ RoleOf(j) \in DOMAIN relay'.slots /\ relay'.slots[RoleOf(j)].conn = d
  BY <1>1, <1>2 DEF Link, Moves
<1>11. /\ d \in Conns \ cut
       /\ Link(j) \/ (d = c /\ Bound(relay, R, c, RoleOf(j)))
  BY <1>0, <1>10, MovesLink
<1>4. /\ d \in Conns
      /\ down'[d] = down[d] \o e
      /\ Link(j) \/ (d = c /\ Bound(relay, R, c, RoleOf(j)))
  BY <1>10, <1>11 DEF Moves
<1>5. down[d] \in Seq(DownMsgs) /\ e \in Seq(DownMsgs)
  BY <1>4, Queues, RelayFields DEF Moves
<1> HIDE DEF e
<1>6. ASSUME NEW n, Closing(e, n), n = R.floor[1].rev PROVE Caught(down'[d], R.floor[1].rev, s)
  BY <1>4, <1>5, <1>6, CaughtClosing
<1>7. ASSUME relay.started, Link(j), R.floor = relay.floor, Quiet(e)
      PROVE  Caught(down'[d], R.floor[1].rev, s)
  <2>1. Caught(down[d], R.floor[1].rev, s)
    BY <1>2, <1>7 DEF FInv, Shown
  <2> QED
    BY <1>4, <1>5, <1>7, <2>1, CaughtQuiet
<1>8. CASE d = c /\ Bound(relay, R, c, RoleOf(j))
  <2>3. Bound(relay, R, d, "join")
    BY <1>3, <1>8
  <2>1. relay.started /\ relay.floor = R.floor
    BY <1>2, <2>3 DEF Bound, Greeted
  <2>2. Closing(e, R.floor[1].rev)
    BY <1>2, <2>1, <2>3 DEF Bound, e
  <2> QED
    BY <1>6, <2>2
<1>9. CASE Link(j)
  <2>1. "join" \in DOMAIN relay.slots /\ relay.slots["join"].conn = d /\ relay.seat[d] = "join"
    <3>1. "join" \in DOMAIN relay.slots /\ relay.slots["join"].conn = d
      BY <1>3, <1>9 DEF Link
    <3> QED
      BY <1>4, <3>1, SeatsNow DEF FInv, Seated
  <2>2. CASE Mild(relay, R)
    <3>1. Quiet(e)
      BY <1>1, <1>4, <2>2, SilentQuiet DEF Mild, e
    <3> QED
      BY <1>2, <1>7, <1>9, <2>2, <3>1 DEF Mild
  <2>3. CASE \E x : Readied(relay, R, x)
    <3>1. CASE relay.started
      <4>1. Quiet(e) /\ R.floor = relay.floor
        BY <1>4, <2>3, <3>1 DEF Readied, e
      <4> QED
        BY <1>7, <1>9, <3>1, <4>1
    <3>2. CASE ~relay.started
      <4>1. ~Begun /\ R.floor = relay.floor
        BY <1>1, <1>2, <2>3, <3>2, MovesStart DEF Readied
      <4> QED
        BY <1>2, <4>1 DEF Begun
    <3> QED
      BY <3>1, <3>2
  <2>4. CASE /\ c \in Conns /\ Head(up[c]).t = "floor" /\ Floored(relay, R, Head(up[c]))
    <3> DEFINE m == Head(up[c])
    <3>1. e = <<m>> /\ R.floor = <<m>>
      BY <1>4, <2>1, <2>4 DEF Floored, e
    <3>2. Closing(e, m.rev) /\ R.floor[1].rev = m.rev
      BY <2>4, <3>1 DEF Closing
    <3> QED
      BY <1>6, <3>2
  <2>5. CASE Head(up[c]).t = "hello" /\ relay.seat[c] = "none" /\ \E r \in Roles : Bound(relay, R, c, r)
    <3>1. PICK r \in Roles : Bound(relay, R, c, r)
      BY <2>5
    <3>2. c # d
      BY <2>1, <2>5
    <3>3. Quiet(e) /\ relay.started /\ relay.floor = R.floor
      BY <1>2, <1>4, <3>1, <3>2 DEF Bound, Greeted, e
    <3> QED
      BY <1>7, <1>9, <3>3
  <2> QED
    BY <2>2, <2>3, <2>4, <2>5 DEF Turn
<1> QED
  BY <1>4, <1>8, <1>9

LEMMA MovesFInv ==
    ASSUME IInv, FInv, IInv', NEW R, NEW c, Moves(R, c), Turn(R, c)
    PROVE  FInv'
BY MovesSeated, MovesFresh, MovesHellos, MovesHostSession, MovesFloorsGoOut, MovesLobby,
   MovesBack, MovesSent, MovesShown DEF FInv

\* The relay becomes what a handler has made of it.
LEMMA RelayedAlike ==
    ASSUME NEW R \in Relays, Relayed(R)
    PROVE  Alike(R, relay')
BY SilentIs, OutReplaced DEF Relayed

LEMMA RelayReadsFloor ==
    ASSUME IInv, FInv, IInv', NEW c \in Conns, RelayReads(c)
    PROVE  FInv'
<1> DEFINE m == Head(up[c])
           R == HandleMessage(relay, c, m)
<1>1. PICK drawn \in Drawn(relay.issued) : Good(relay, drawn, owner) /\ Tokens(drawn)
  BY DEF IInv
<1>2. up[c] \in Seq(UpMsgs) /\ up[c] # <<>> /\ c \in relay.live /\ relay.out = Silent
  BY Queues DEF RelayReads, IInv
<1>3. m \in UpMsgs /\ 1 \in DOMAIN up[c] /\ m = up[c][1]
  BY <1>2, HeadTail
<1>4. owner[c] \in Players
  BY <1>1, <1>2 DEF Good, Traced
<1>5. m.t = "hello" => /\ m.who = owner[c] /\ (m.token # 0 => Made(drawn, m.token, owner[c]))
                       /\ m.role = RoleOf(m.who)
  BY <1>1, <1>3 DEF Tokens, FInv, Seated
<1>6. Orderly(relay) /\ Roled(relay)
  BY DEF FInv, Seated
<1>7. /\ Relayed(R) /\ UNCHANGED <<sock, owner, cut, client>>
      /\ up' = [d \in Conns |-> CASE d \notin R.live /\ d \in relay.live -> <<>>
                                  [] d = c /\ c \in R.live -> Tail(up[c])
                                  [] OTHER -> up[d]]
  BY DEF RelayReads
<1> HIDE DEF m
<1>8. Handled(R, drawn, owner)
  BY <1>1, <1>2, <1>3, <1>4, <1>5, HandleMessageGood
<1>9. Heard(relay, R, c, m)
  BY <1>1, <1>2, <1>3, <1>4, <1>5, <1>6, HandleMessageIs
<1> HIDE DEF R
<1>10. R \in Relays
  BY <1>8 DEF Handled, Good
<1>11. Moves(R, c)
  <2>1. Alike(R, relay')
    BY <1>7, <1>10, RelayedAlike
  <2>2. \A d \in Conns : down'[d] = IF sock[d] = "open" /\ d \notin cut
                                      THEN down[d] \o R.out[d] ELSE down[d]
    BY <1>7 DEF Relayed
  <2>3. \A d \in Conns : up'[d] \in {<<>>, IF d = c THEN Tail(up[d]) ELSE up[d]}
    BY <1>2, <1>7
  <2>4. \A d \in relay.live \cap R.live : up'[d] = IF d = c THEN Tail(up[d]) ELSE up[d]
    <3>1. R.live \subseteq Conns
      BY <1>10, RelayFields
    <3> QED
      BY <1>7, <3>1
  <2> QED
    BY <1>2, <1>7, <1>10, <2>1, <2>2, <2>3, <2>4 DEF Moves
<1>12. Turn(R, c)
  BY <1>9 DEF Turn, Heard, m
<1> QED
  BY <1>11, <1>12, MovesFInv

\* A handler that reads nothing.
LEMMA UnreadFloor ==
    ASSUME IInv, FInv, IInv', NEW R \in Relays, Relayed(R), Mild(relay, R),
           UNCHANGED <<sock, owner, cut, client>>,
           \A d \in Conns : up'[d] \in {<<>>, up[d]},
           \A d \in relay.live \cap R.live : up'[d] = up[d]
    PROVE  FInv'
<1>1. NoConn \notin Conns /\ R.live \subseteq Conns
  BY ConnFacts, RelayFields
<1>2. Alike(R, relay')
  BY RelayedAlike
<1>3. \A d \in Conns : down'[d] = IF sock[d] = "open" /\ d \notin cut
                                    THEN down[d] \o R.out[d] ELSE down[d]
  BY DEF Relayed
<1>4. Moves(R, NoConn)
  BY <1>1, <1>2, <1>3 DEF Moves
<1>5. Turn(R, NoConn)
  BY <1>1 DEF Turn
<1> QED
  BY <1>4, <1>5, MovesFInv

LEMMA RelaySeesEndFloor ==
    ASSUME IInv, FInv, IInv', NEW c \in Conns, RelaySeesEnd(c)
    PROVE  FInv'
<1> DEFINE R == Disconnect(relay, c)
<1>1. \E drawn \in Drawn(relay.issued) : Good(relay, drawn, owner)
  BY DEF IInv
<1>2. R \in Relays
  BY <1>1, DisconnectGood DEF Good
<1>3. Mild(relay, R)
  BY <1>1, DisconnectMild DEF Good
<1>4. Relayed(R) /\ UNCHANGED <<up, sock, owner, cut, client>>
  BY DEF RelaySeesEnd
<1> HIDE DEF R
<1> QED
  BY <1>2, <1>3, <1>4, UnreadFloor

LEMMA TimersFloor ==
    ASSUME IInv, FInv, IInv', \/ \E r \in Roles : GraceEnds(r)
                              \/ \E c \in Conns : NoHello(c)
                              \/ Idle
    PROVE  FInv'
<1>1. PICK drawn \in Drawn(relay.issued) : Good(relay, drawn, owner)
  BY DEF IInv
<1>2. ASSUME NEW R \in Relays, Mild(relay, R), Closes(R) PROVE FInv'
  <2>1. Relayed(R) /\ UNCHANGED <<sock, owner, cut, client>>
    BY <1>2 DEF Closes
  <2>2. /\ \A d \in Conns : up'[d] \in {<<>>, up[d]}
        /\ \A d \in relay.live \cap R.live : up'[d] = up[d]
    <3>1. R.live \subseteq Conns
      BY RelayFields
    <3> QED
      BY <1>2, <3>1 DEF Closes
  <2> QED
    BY <1>2, <2>1, <2>2, UnreadFloor
<1>3. ASSUME NEW r \in Roles, GraceEnds(r) PROVE FInv'
  <2> DEFINE R == FinalizeSlotDeparture(relay, r)
  <2>1. r \in DOMAIN relay.slots /\ Closes(R)
    BY <1>3 DEF GraceEnds, GraceExpired, Timer
  <2>2. R \in Relays /\ Mild(relay, R)
    BY <1>1, <2>1, FinalizeSlotDepartureGood, FinalizeMild DEF Good
  <2> HIDE DEF R
  <2> QED
    BY <1>2, <2>1, <2>2
<1>4. ASSUME NEW c \in Conns, NoHello(c) PROVE FInv'
  <2> DEFINE R == Fatal(relay, c, "timeout")
  <2>1. "timeout" \in Codes /\ Closes(R)
    BY <1>4 DEF NoHello, HelloTimeout, Timer, Codes
  <2>2. R \in Relays /\ Mild(relay, R)
    BY <1>1, <2>1, FatalGood, FatalMild DEF Good
  <2> HIDE DEF R
  <2> QED
    BY <1>2, <2>1, <2>2
<1>5. CASE Idle
  <2> DEFINE R == IdleTimeout(relay)
  <2>1. Closes(R)
    BY <1>5 DEF Idle
  <2>2. R \in Relays /\ Mild(relay, R)
    BY <1>1, IdleTimeoutGood, IdleTimeoutMild DEF Good
  <2> HIDE DEF R
  <2> QED
    BY <1>2, <2>1, <2>2
<1> QED
  BY <1>3, <1>4, <1>5

-----------------------------------------------------------------------------
(* What the steps of the clients and the faults leave alone *)

\* Nothing is sent to a client, no hello is said, and nobody sits down.
Unsaid ==
    /\ relay'.live \subseteq relay.live /\ Roled(relay') /\ Orderly(relay')
    /\ \A c \in Conns :
         /\ relay'.seat[c] # "none" => relay.seat[c] # "none"
         /\ Thin(up'[c], up[c], "hello")
         /\ \A t : Has(down'[c], t) => Has(down[c], t)
         /\ sock'[c] \in {"unused", "dialing"} => /\ sock[c] \in {"unused", "dialing"}
                                                  /\ down'[c] \in {down[c], <<>>}
         /\ owner'[c] = Host => owner[c] = Host \/ down'[c] = <<>>

LEMMA UnsaidFrame ==
    ASSUME IInv, FInv, IInv', Unsaid
    PROVE  Seated' /\ Fresh' /\ Hellos' /\ FloorsGoOut'
<1>1. ASSUME NEW c \in Conns, NEW i \in DOMAIN up'[c], up'[c][i].t = "hello"
      PROVE  up'[c][i].role = RoleOf(up'[c][i].who)
  <2>1. Thin(up'[c], up[c], "hello")
    BY DEF Unsaid
  <2>2. PICK k \in DOMAIN up[c] : up'[c][i] = up[c][k]
    BY <1>1, <2>1 DEF Thin
  <2> QED
    BY <1>1, <2>2 DEF FInv, Seated
<1>2. \A c \in Conns : Has(up'[c], "hello") => Has(up[c], "hello")
  BY ThinHas DEF Unsaid
<1>3. Fresh'
  <2>1. ASSUME NEW c \in Conns, sock'[c] \in {"unused", "dialing"}
        PROVE  c \notin relay'.live /\ down'[c] = <<>> /\ ~Has(up'[c], "hello")
    <3>1. sock[c] \in {"unused", "dialing"} /\ down'[c] \in {down[c], <<>>}
      BY <2>1 DEF Unsaid
    <3>2. c \notin relay.live /\ down[c] = <<>> /\ ~Has(up[c], "hello")
      BY <3>1 DEF FInv, Fresh
    <3> QED
      BY <1>2, <3>1, <3>2 DEF Unsaid
  <2> QED
    BY <2>1 DEF Fresh
<1>4. Hellos'
  <2>1. ASSUME NEW c \in Conns PROVE Once(up'[c], "hello")
    <3>1. /\ Thin(up'[c], up[c], "hello") /\ Once(up[c], "hello")
          /\ up[c] \in Seq(UpMsgs) /\ up'[c] \in Seq(UpMsgs)
      BY DEF Unsaid, FInv, Hellos, IInv, TypeOK
    <3> QED
      BY <3>1, ThinOnce
  <2>2. ASSUME NEW c \in Conns,
               relay'.seat[c] # "none" \/ Has(down'[c], "welcome") \/ Has(down'[c], "start")
        PROVE  ~Has(up'[c], "hello")
    <3>1. relay.seat[c] # "none" \/ Has(down[c], "welcome") \/ Has(down[c], "start")
      BY <2>2 DEF Unsaid
    <3> QED
      BY <1>2, <3>1 DEF FInv, Hellos
  <2> QED
    BY <2>1, <2>2 DEF Hellos
<1>5. FloorsGoOut'
  <2>1. ASSUME NEW c \in Conns, owner'[c] = Host PROVE ~Has(down'[c], "floor")
    <3>1. CASE owner[c] = Host
      <4>1. ~Has(down[c], "floor")
        BY <3>1 DEF FInv, FloorsGoOut, HostSocks
      <4> QED
        BY <4>1 DEF Unsaid
    <3>2. CASE down'[c] = <<>>
      BY <3>2, NoMessage
    <3> QED
      BY <2>1, <3>1, <3>2 DEF Unsaid
  <2> QED
    BY <2>1 DEF FloorsGoOut, HostSocks
<1> QED
  BY <1>1, <1>3, <1>4, <1>5 DEF Seated, Unsaid

\* The room stays as it is, but for a connection that is accepted.
Room(R, Q) ==
    /\ Q.slots = R.slots /\ Q.started = R.started /\ Q.state = R.state /\ Q.floor = R.floor
    /\ Q.seat = R.seat

\* The host, its sockets and its link are left alone.
LEMMA HostAlone ==
    ASSUME FInv, Room(relay, relay'), client'[Host] = client[Host], HostSocks' = HostSocks,
           \A c \in HostSocks : /\ sock'[c] = sock[c] /\ up'[c] = up[c] /\ down'[c] = down[c]
                                /\ c \in relay'.live \ cut' => c \in relay.live \ cut,
           client[Host].conn = NoConn \/ client[Host].conn \in HostSocks, NoConn \notin relay'.live
    PROVE  HostSession' /\ Lobby' /\ Back' /\ Sent'
<1> DEFINE s == client[Host]
           d == client[Host].conn
<1>1. NoneClosed' <=> NoneClosed
  BY DEF NoneClosed
<1>2. HostSession'
  BY <1>1 DEF FInv, HostSession
<1>3. Lobby'
  <2>1. ReadyOnce'
    BY DEF FInv, Lobby, ReadyOnce
  <2>2. (Waiting' => Waiting) /\ (Begun' => Begun) /\ (HostReady' => HostReady)
    BY DEF Waiting, Begun, HostReady, Room
  <2>3. MayReady' => MayReady
    BY <1>1 DEF MayReady
  <2>4. relay'.started = relay.started
    BY DEF Room
  <2> QED
    BY <2>1, <2>2, <2>3, <2>4, LobbyFrame
<1>4. Link(Host)' => Link(Host) /\ d \in HostSocks
  BY DEF Link, Room
<1>5. Back'
  <2>1. ASSUME Link(Host)', s.reconnecting PROVE Has(down'[d], "welcome")
    <3>1. Link(Host) /\ d \in HostSocks
      BY <1>4, <2>1
    <3>2. Has(down[d], "welcome")
      BY <2>1, <3>1 DEF FInv, Back
    <3> QED
      BY <3>1, <3>2
  <2>2. ASSUME s.active, ~s.reconnecting, d # NoConn
        PROVE  sock'[d] = "open" /\ ~Has(up'[d], "hello")
    <3>1. sock[d] = "open" /\ ~Has(up[d], "hello") /\ d \in HostSocks
      BY <2>2 DEF FInv, Back
    <3> QED
      BY <3>1
  <2> QED
    BY <2>1, <2>2 DEF Back
<1>6. Sent'
  <2>1. ASSUME relay'.started, Link(Host)', s.active, ~s.reconnecting
        PROVE  /\ LastFloor(up'[d], s.rev)
               /\ ~Has(up'[d], "floor") => relay'.floor # <<>> /\ relay'.floor[1].rev = s.rev
    <3>1. Link(Host) /\ d \in HostSocks /\ relay.started /\ relay'.floor = relay.floor
      BY <1>4, <2>1 DEF Room
    <3>2. /\ LastFloor(up[d], s.rev)
          /\ ~Has(up[d], "floor") => relay.floor # <<>> /\ relay.floor[1].rev = s.rev
      BY <2>1, <3>1 DEF FInv, Sent
    <3>3. up'[d] = up[d]
      BY <3>1
    <3> QED
      BY <3>1, <3>2, <3>3
  <2> QED
    BY <2>1 DEF Sent
<1> QED
  BY <1>2, <1>3, <1>5, <1>6

\* A joiner that still sits where it sat shows what it showed.
LEMMA ShownFrame ==
    ASSUME FInv, Room(relay, relay'),
           \A j \in Joiners, n \in Nat : Link(j)' =>
             /\ Link(j)
             /\ Caught(down[client[j].conn], n, client[j])
                  => Caught(down'[client'[j].conn], n, client'[j]),
           relay.floor \in Seq(FloorMsgs)
    PROVE  Shown'
<1>1. ASSUME NEW j \in Joiners, relay'.started, Link(j)', relay'.floor # <<>>
      PROVE  Caught(down'[client'[j].conn], relay'.floor[1].rev, client'[j])
  <2>1. relay.started /\ relay'.floor = relay.floor /\ relay.floor # <<>>
    BY <1>1 DEF Room
  <2>2. relay.floor[1].rev \in Nat
    <3>1. 1 \in DOMAIN relay.floor /\ Head(relay.floor) = relay.floor[1] /\ Head(relay.floor) \in FloorMsgs
      BY <2>1, HeadTail
    <3> QED
      BY <3>1 DEF FloorMsgs
  <2>3. Link(j) /\ (Caught(down[client[j].conn], relay.floor[1].rev, client[j])
                      => Caught(down'[client'[j].conn], relay.floor[1].rev, client'[j]))
    BY <1>1, <2>2
  <2>4. Caught(down[client[j].conn], relay.floor[1].rev, client[j])
    BY <2>1, <2>3 DEF FInv, Shown
  <2> QED
    BY <2>1, <2>3, <2>4
<1> QED
  BY <1>1 DEF Shown

-----------------------------------------------------------------------------
(* A player talks, or reads a message and answers *)

\* What is queued on c adds to what is under way.
LEMMA WrittenIs ==
    ASSUME IInv, NEW c \in Ends, NEW msgs \in Seq(UpMsgs), up' = Written(c, msgs), NEW d \in Conns
    PROVE  /\ d # c => up'[d] = up[d]
           /\ \A t : ~Has(msgs, t) => Thin(up'[d], up[d], t)
           /\ \A t : Has(up'[d], t) => Has(up[d], t) \/ Has(msgs, t)
           /\ \A t : Has(up[d], t) => Has(up'[d], t)
           /\ \A n : LastFloor(up[d], n) /\ ~Has(msgs, "floor") => LastFloor(up'[d], n)
           /\ \A n : d = c /\ c \in relay.live \ cut /\ Closing(msgs, n) =>
                       LastFloor(up'[d], n) /\ Has(up'[d], "floor")
<1>1. up \in [Conns -> Seq(UpMsgs)] /\ up[d] \in Seq(UpMsgs)
  BY DEF IInv, TypeOK
<1>2. CASE up'[d] = up[d] /\ ~(d = c /\ c \in relay.live \ cut)
  BY <1>1, <1>2, ThinSame
<1>3. CASE d = c /\ up'[d] = up[d] \o msgs
  <2> DEFINE q == up[d]
  <2> HIDE DEF q
  <2>1. q \in Seq(UpMsgs) /\ up'[d] = q \o msgs
    BY <1>1, <1>3 DEF q
  <2>2. \A t : ~Has(msgs, t) => Thin(q \o msgs, q, t)
    BY <2>1, ThinAppend
  <2>3. \A t : /\ Has(q, t) => Has(q \o msgs, t)
               /\ Has(q \o msgs, t) => Has(q, t) \/ Has(msgs, t)
    BY <2>1, HasAppend
  <2>4. \A n : LastFloor(q, n) /\ ~Has(msgs, "floor") => LastFloor(q \o msgs, n)
    BY <2>1, LastFloorAppend
  <2>5. \A n : Closing(msgs, n) => LastFloor(q \o msgs, n) /\ Has(q \o msgs, "floor")
    BY <2>1, ClosingAppend
  <2> QED
    BY <1>3, <2>1, <2>2, <2>3, <2>4, <2>5 DEF q
<1>4. \/ up'[d] = up[d] /\ ~(d = c /\ c \in relay.live \ cut)
      \/ d = c /\ up'[d] = up[d] \o msgs
  BY <1>1 DEF Written
<1> QED
  BY <1>2, <1>3, <1>4

\* What p says becomes of its session s.
Speaks(p, s, msgs) ==
    /\ s \in Clients /\ Talk(msgs) /\ s.conn = client[p].conn
    /\ client' = [client EXCEPT ![p] = s]
    /\ up' = Written(client[p].conn, msgs)
    /\ UNCHANGED <<relay, sock, owner, cut>>

Says(p, s, msgs) == Speaks(p, s, msgs) /\ down' = down

Reads(p, s, msgs) ==
    LET c == client[p].conn
    IN  /\ Speaks(p, s, msgs)
        /\ c \in Conns /\ sock[c] = "open" /\ down[c] # <<>>
        /\ down' = [down EXCEPT ![c] = Tail(@)]

LEMMA SpeaksIs ==
    ASSUME IInv, NEW p \in Players, NEW s, NEW msgs, Speaks(p, s, msgs)
    PROVE  /\ client'[p] = s /\ \A q \in Players \ {p} : client'[q] = client[q]
           /\ msgs \in Seq(UpMsgs) /\ ~Has(msgs, "hello")
           /\ client[p].conn \in Ends
<1>1. client \in [Players -> Clients]
  BY DEF IInv, TypeOK
<1>2. client[p].conn \in Ends
  BY <1>1 DEF Clients
<1> QED
  BY <1>1, <1>2 DEF Speaks, Talk, Has

\* What is left under way to a client that reads.
LEMMA ReadIs ==
    ASSUME IInv, NEW p \in Players, NEW s, NEW msgs,
           Says(p, s, msgs) \/ Reads(p, s, msgs), NEW d \in Conns
    PROVE  /\ d # client[p].conn => down'[d] = down[d]
           /\ \A t : Has(down'[d], t) => Has(down[d], t)
           /\ sock[d] # "open" => down'[d] = down[d]
<1>1. down[d] \in Seq(DownMsgs) /\ down \in [Conns -> Seq(DownMsgs)]
  BY DEF IInv, TypeOK
<1>2. \/ down'[d] = down[d]
      \/ /\ d = client[p].conn /\ sock[d] = "open" /\ down[d] # <<>>
         /\ down'[d] = Tail(down[d])
  BY <1>1 DEF Says, Reads
<1>3. down[d] # <<>> => \A t : Has(Tail(down[d]), t) => Has(down[d], t)
  BY <1>1, HasTail
<1> QED
  BY <1>2, <1>3

LEMMA TalkUnsaid ==
    ASSUME IInv, FInv, NEW p \in Players, NEW s, NEW msgs,
           Says(p, s, msgs) \/ Reads(p, s, msgs)
    PROVE  Unsaid
<1>1. Speaks(p, s, msgs)
  BY DEF Says, Reads
<1>2. relay' = relay /\ sock' = sock /\ owner' = owner /\ up' = Written(client[p].conn, msgs)
  BY <1>1 DEF Speaks
<1>3. client[p].conn \in Ends /\ msgs \in Seq(UpMsgs) /\ ~Has(msgs, "hello")
  BY <1>1, SpeaksIs
<1>4. \A c \in Conns : Thin(up'[c], up[c], "hello")
  BY <1>2, <1>3, WrittenIs
<1>5. \A c \in Conns : /\ \A t : Has(down'[c], t) => Has(down[c], t)
                       /\ sock[c] # "open" => down'[c] = down[c]
  BY ReadIs
<1>6. Roled(relay) /\ Orderly(relay)
  BY DEF FInv, Seated
<1>7. \A c \in Conns : sock'[c] \in {"unused", "dialing"} => sock[c] \in {"unused", "dialing"}
                                                             /\ down'[c] \in {down[c], <<>>}
  BY <1>2, <1>5
<1>8. \A c \in Conns : owner'[c] = Host => owner[c] = Host
  BY <1>2
<1> QED
  BY <1>2, <1>4, <1>5, <1>6, <1>7, <1>8 DEF Unsaid

LEMMA CaughtTail ==
    ASSUME NEW q \in Seq(DownMsgs), q # <<>>, NEW n, NEW s, NEW now, Caught(q, n, s),
           \/ Head(q).t \in {"welcome", "start"}
           \/ Head(q).t = "floor" /\ now.rev = Head(q).rev /\ ~now.awaiting
           \/ Head(q).t # "floor" /\ now.rev = s.rev /\ (now.awaiting => s.awaiting)
    PROVE  Caught(Tail(q), n, now)
<1>1. Followed(q) /\ LastFloor(q, n) /\ (~Has(q, "floor") => s.rev = n /\ ~s.awaiting)
  BY DEF Caught
<1>2. Followed(Tail(q)) /\ LastFloor(Tail(q), n)
  BY <1>1, FollowedTail, LastFloorTail
<1>3. Head(q).t \in {"welcome", "start"} => Has(Tail(q), "floor")
  BY <1>1, FollowedTail
<1>4. Head(q).t = "floor" /\ ~Has(Tail(q), "floor") => Head(q).rev = n
  BY <1>1, LastFloorTail
<1>5. Head(q).t # "floor" /\ Has(q, "floor") => Has(Tail(q), "floor")
  BY HasTail
<1> QED
  BY <1>1, <1>2, <1>3, <1>4, <1>5 DEF Caught

\* A joiner takes the floors it reads, and waits only when one is on its way.
Shows(p, s) ==
    LET m == Head(down[client[p].conn])
    IN  \/ m.t \in {"welcome", "start"}
        \/ m.t = "floor" /\ s.rev = m.rev /\ ~s.awaiting
        \/ m.t # "floor" /\ s.rev = client[p].rev /\ (s.awaiting => client[p].awaiting)

\* Sockets of others, and the player's own.
LEMMA OwnSockets ==
    ASSUME IInv, NEW p \in Players
    PROVE  /\ client[p].conn # NoConn => client[p].conn \in Conns /\ owner[client[p].conn] = p
           /\ client[p].conn \in Ends /\ client[p] \in Clients
           /\ relay.live \subseteq Conns /\ NoConn \notin relay.live
           /\ \A q \in Players : client[q].conn = client[p].conn => q = p \/ client[p].conn = NoConn
<1>1. relay \in Relays
  BY DEF IInv, TypeOK
<1>2. relay.live \subseteq Conns
  BY <1>1, RelayFields
<1> QED
  BY <1>2, ConnOf, IInvParts, ConnFacts

LEMMA JoinerTalks ==
    ASSUME IInv, FInv, IInv', NEW p \in Joiners, NEW s, NEW msgs,
           \/ Says(p, s, msgs) /\ s.rev = client[p].rev /\ (s.awaiting => client[p].awaiting)
           \/ Reads(p, s, msgs) /\ Shows(p, s)
    PROVE  FInv'
<1> DEFINE c == client[p].conn
<1>1. p \in Players /\ p # Host /\ Host \in Players
  BY PlayersAssumption DEF Players
<1>2. Speaks(p, s, msgs) /\ (Says(p, s, msgs) \/ Reads(p, s, msgs))
  BY DEF Says, Reads
<1>3. /\ client'[p] = s /\ \A q \in Players \ {p} : client'[q] = client[q]
      /\ msgs \in Seq(UpMsgs) /\ client[p].conn \in Ends
  BY <1>1, <1>2, SpeaksIs
<1>4. Seated' /\ Fresh' /\ Hellos' /\ FloorsGoOut'
  BY <1>1, <1>2, TalkUnsaid, UnsaidFrame
<1>5. /\ relay' = relay /\ sock' = sock /\ owner' = owner /\ cut' = cut /\ s.conn = client[p].conn
      /\ up' = Written(client[p].conn, msgs)
  BY <1>2 DEF Speaks
<1>6. HostSession' /\ Lobby' /\ Back' /\ Sent'
  <2>1. ASSUME NEW d \in HostSocks PROVE up'[d] = up[d] /\ down'[d] = down[d]
    <3>1. d \in Conns /\ d # client[p].conn
      BY <1>1, OwnSockets, ConnFacts DEF HostSocks
    <3>2. up'[d] = up[d]
      BY <1>3, <1>5, <3>1, WrittenIs
    <3> QED
      BY <1>1, <1>2, <3>1, <3>2, ReadIs
  <2>2. HostSocks' = HostSocks /\ Room(relay, relay') /\ client'[Host] = client[Host]
    BY <1>1, <1>3, <1>5 DEF HostSocks, Room
  <2>3. client[Host].conn = NoConn \/ client[Host].conn \in HostSocks
    BY <1>1, OwnSockets DEF HostSocks
  <2>4. NoConn \notin relay'.live
    BY <1>1, <1>5, OwnSockets
  <2> QED
    BY <1>5, <2>1, <2>2, <2>3, <2>4, HostAlone
<1>7. Shown'
  <2>1. relay.floor \in Seq(FloorMsgs) /\ Room(relay, relay')
    BY <1>5, RelayFields DEF IInv, TypeOK, Room
  <2>2. ASSUME NEW j \in Joiners, NEW n \in Nat, Link(j)'
        PROVE  Link(j) /\ client'[j].conn = client[j].conn /\ client[j].conn \in Conns
    <3>1. j \in Players
      BY DEF Players
    <3>2. client'[j].conn = client[j].conn
      BY <1>1, <1>3, <1>5, <3>1
    <3>3. Link(j)
      BY <1>5, <2>2, <3>2 DEF Link
    <3> QED
      BY <3>1, <3>2, <3>3, OwnSockets DEF Link
  <2>3. ASSUME NEW j \in Joiners, NEW n \in Nat, Link(j)',
               Caught(down[client[j].conn], n, client[j])
        PROVE  Caught(down'[client'[j].conn], n, client'[j])
    <3>1. j \in Players /\ client'[j].conn = client[j].conn /\ client[j].conn \in Conns
      BY <2>2, <2>3 DEF Players
    <3>2. CASE j # p
      <4>1. down'[client[j].conn] = down[client[j].conn] /\ client'[j] = client[j]
        BY <1>1, <1>2, <1>3, <3>1, <3>2, ReadIs, OwnSockets, ConnFacts
      <4> QED
        BY <2>3, <4>1
    <3>3. CASE j = p /\ Says(p, s, msgs) /\ s.rev = client[p].rev /\ (s.awaiting => client[p].awaiting)
      BY <1>3, <2>3, <3>1, <3>3 DEF Says, Caught
    <3>4. CASE j = p /\ Reads(p, s, msgs) /\ Shows(p, s)
      <4> DEFINE q == down[c]
      <4>1. q \in Seq(DownMsgs) /\ q # <<>> /\ down'[c] = Tail(q) /\ client'[p] = s
        BY <1>3, <3>1, <3>4 DEF Reads, IInv, TypeOK
      <4>2. \/ Head(q).t \in {"welcome", "start"}
            \/ Head(q).t = "floor" /\ s.rev = Head(q).rev /\ ~s.awaiting
            \/ Head(q).t # "floor" /\ s.rev = client[p].rev /\ (s.awaiting => client[p].awaiting)
        BY <3>4 DEF Shows
      <4>3. Caught(q, n, client[p])
        BY <2>3, <3>4
      <4> HIDE DEF q
      <4>4. Caught(Tail(q), n, s)
        BY <4>1, <4>2, <4>3, CaughtTail
      <4> QED
        BY <3>1, <3>4, <4>1, <4>4
    <3> QED
      BY <3>2, <3>3, <3>4
  <2> QED
    BY <2>1, <2>2, <2>3, ShownFrame
<1> QED
  BY <1>4, <1>6, <1>7 DEF FInv

LEMMA AppendedIs ==
    ASSUME NEW S, NEW q \in Seq(S), NEW e \in Seq(S)
    PROVE  /\ q \o e \in Seq(S) /\ Len(q \o e) = Len(q) + Len(e)
           /\ \A i \in DOMAIN q : i \in DOMAIN (q \o e) /\ (q \o e)[i] = q[i]
           /\ \A i \in DOMAIN (q \o e) : i \in DOMAIN q \/ i - Len(q) \in DOMAIN e
<1>1. q \o e \in Seq(S) /\ Len(q \o e) = Len(q) + Len(e)
  OBVIOUS
<1>2. \A i \in DOMAIN q : i \in DOMAIN (q \o e) /\ (q \o e)[i] = q[i]
  OBVIOUS
<1>3. \A i \in DOMAIN (q \o e) : i \in DOMAIN q \/ i - Len(q) \in DOMAIN e
  OBVIOUS
<1> QED
  BY <1>1, <1>2, <1>3

LEMMA OnceAppend ==
    ASSUME NEW S, NEW q \in Seq(S), NEW e \in Seq(S), NEW t, ~Has(q, t), DOMAIN e = {1}
    PROVE  Once(q \o e, t)
<1> DEFINE r == q \o e
           n == Len(q)
<1>1. /\ \A i \in DOMAIN q : r[i] = q[i]
      /\ \A i \in DOMAIN r : i \in DOMAIN q \/ i - n \in {1}
      /\ r \in Seq(S)
  BY AppendedIs
<1>2. n \in Nat /\ \A i \in DOMAIN r : i \in Nat
  BY <1>1
<1> HIDE DEF r, n
<1>3. ASSUME NEW i \in DOMAIN r, r[i].t = t PROVE i = n + 1
  <2>1. i \notin DOMAIN q
    BY <1>1, <1>3 DEF Has
  <2> QED
    BY <1>1, <1>2, <2>1
<1> QED
  BY <1>3 DEF Once, r

\* One message of a kind that is not under way yet.
LEMMA WrittenOnce ==
    ASSUME IInv, NEW c \in Conns, NEW msgs \in Seq(UpMsgs), up' = Written(c, msgs), Len(msgs) = 1,
           NEW t, ~Has(up[c], t)
    PROVE  Once(up'[c], t)
<1>1. up \in [Conns -> Seq(UpMsgs)] /\ up[c] \in Seq(UpMsgs)
  BY DEF IInv, TypeOK
<1>2. CASE up'[c] = up[c]
  BY <1>2 DEF Has, Once
<1>3. CASE up'[c] = up[c] \o msgs
  <2>1. DOMAIN msgs = {1}
    OBVIOUS
  <2> QED
    BY <1>1, <1>3, <2>1, OnceAppend
<1>4. up'[c] = up[c] \/ up'[c] = up[c] \o msgs
  BY <1>1 DEF Written
<1> QED
  BY <1>2, <1>3, <1>4

\* The session the host keeps is one that it may have.
Sound(s) == s.phase # "off" /\ (s.phase = "setup" => ~s.started) /\ (s.active => s.started)

\* A host that plays, and knows the relay's side of it, has been told so.
Told(s, msgs) ==
    LET now == client[Host]
        c == now.conn
    IN  /\ s.started \/ Has(msgs, "floor") =>
             now.started \/ (c \in Conns /\ Has(down[c], "start"))
        /\ s.reconnecting =>
             now.reconnecting /\ (c \in Conns /\ Has(down[c], "welcome") => Has(down'[c], "welcome"))
        /\ s.active /\ ~s.reconnecting =>
             \/ now.active /\ ~now.reconnecting
             \/ /\ c \in Conns /\ sock[c] = "open"
                /\ Has(down[c], "welcome") \/ Has(down[c], "start")

\* It sends the floor it plays, or plays the floor it sent.
Sends(s, msgs) ==
    LET now == client[Host]
    IN  \/ Closing(msgs, s.rev)
        \/ /\ ~Has(msgs, "floor") /\ s.rev = now.rev
           /\ s.active /\ ~s.reconnecting => now.active /\ ~now.reconnecting

\* It says ready once.
Readies(s, msgs) ==
    LET now == client[Host]
    IN  \/ ~Has(msgs, "ready") /\ s.ready = now.ready
        \/ /\ ~now.ready /\ s.ready /\ now.conn \in Conns
           /\ Len(msgs) = 1 /\ ~Has(msgs, "floor")

LEMMA HostTalksLobby ==
    ASSUME IInv, FInv, IInv', NEW s, NEW msgs, Says(Host, s, msgs) \/ Reads(Host, s, msgs),
           client[Host].phase # "off", Sound(s), Told(s, msgs), Readies(s, msgs)
    PROVE  Lobby'
<1> DEFINE now == client[Host]
           c == client[Host].conn
<1>1. Host \in Players /\ Speaks(Host, s, msgs)
  BY DEF Players, Says, Reads
<1>2. client'[Host] = s /\ msgs \in Seq(UpMsgs) /\ c \in Ends
  BY <1>1, SpeaksIs
<1>3. /\ relay' = relay /\ sock' = sock /\ owner' = owner /\ s.conn = c
      /\ up' = Written(c, msgs)
  BY <1>1 DEF Speaks
<1>4. HostSocks' = HostSocks /\ HostSocks \subseteq Conns /\ (NoneClosed' <=> NoneClosed)
  BY <1>3 DEF HostSocks, NoneClosed
<1>5. c \in Conns => c \in HostSocks
  BY <1>1, OwnSockets, ConnFacts DEF HostSocks
<1>6. \A d \in Conns : /\ d # c => up'[d] = up[d]
                       /\ \A t : Has(up'[d], t) => Has(up[d], t) \/ Has(msgs, t)
                       /\ \A t : ~Has(msgs, t) => Thin(up'[d], up[d], t)
  BY <1>2, <1>3, WrittenIs
<1>7. \A d \in Conns : \A t : Has(down'[d], t) => Has(down[d], t)
  BY <1>1, ReadIs
<1>8. Begun' => Begun
  <2>1. ASSUME s.started \/ Has(msgs, "floor") PROVE Begun
    BY <1>5, <2>1 DEF Told, Begun
  <2>2. ASSUME NEW d \in HostSocks, Has(down'[d], "start") \/ Has(up'[d], "floor") PROVE Begun
    <3>1. Has(down[d], "start") \/ Has(up[d], "floor") \/ Has(msgs, "floor")
      BY <1>4, <1>6, <1>7, <2>2
    <3> QED
      BY <2>1, <3>1 DEF Begun
  <2> QED
    BY <1>2, <1>3, <1>4, <2>1, <2>2 DEF Begun
<1>9. HostReady' <=> HostReady
  BY <1>3 DEF HostReady
<1>10. CASE ~Has(msgs, "ready") /\ s.ready = now.ready
  <2>1. ReadyOnce' /\ (Waiting' => Waiting)
    BY <1>4, <1>6, <1>10, ThinReady
  <2>2. MayReady' => MayReady
    BY <1>2, <1>10 DEF MayReady
  <2> QED
    BY <1>3, <1>8, <1>9, <2>1, <2>2, LobbyFrame
<1>11. CASE /\ ~now.ready /\ s.ready /\ c \in Conns
            /\ Len(msgs) = 1 /\ ~Has(msgs, "floor")
  <2>1. ~Waiting /\ ~Begun /\ ~HostReady
    BY <1>11 DEF FInv, Lobby, MayReady
  <2>2. \A d \in HostSocks : ~Has(up[d], "ready")
    BY <2>1 DEF Waiting
  <2>3. Once(up'[c], "ready")
    BY <1>2, <1>3, <1>5, <1>11, <2>2, WrittenOnce
  <2>4. \A d \in HostSocks : d # c => ~Has(up'[d], "ready")
    BY <1>4, <1>6, <2>2
  <2>5. ReadyOnce'
    BY <1>4, <2>3, <2>4 DEF ReadyOnce, Once, Has
  <2>6. ~MayReady'
    BY <1>2, <1>11 DEF MayReady
  <2> QED
    BY <1>8, <1>9, <2>1, <2>5, <2>6 DEF Lobby
<1> QED
  BY <1>10, <1>11 DEF Readies

LEMMA HostTalksSent ==
    ASSUME IInv, FInv, IInv', NEW s, NEW msgs, Says(Host, s, msgs) \/ Reads(Host, s, msgs),
           Told(s, msgs), Sends(s, msgs)
    PROVE  Back' /\ Sent'
<1> DEFINE now == client[Host]
           c == client[Host].conn
<1>1. Host \in Players /\ Speaks(Host, s, msgs)
  BY DEF Players, Says, Reads
<1>2. client'[Host] = s /\ msgs \in Seq(UpMsgs) /\ c \in Ends /\ ~Has(msgs, "hello")
  BY <1>1, SpeaksIs
<1>3. /\ relay' = relay /\ sock' = sock /\ cut' = cut /\ s.conn = c
      /\ up' = Written(c, msgs)
  BY <1>1 DEF Speaks
<1>4. ASSUME Link(Host)' PROVE Link(Host) /\ c \in Conns /\ c \in relay.live \ cut
  <2>1. Link(Host) /\ c \in relay.live \ cut
    BY <1>2, <1>3, <1>4 DEF Link
  <2> QED
    BY <1>1, <2>1, OwnSockets
<1>5. ASSUME c \in Conns, Has(up'[c], "hello") PROVE Has(up[c], "hello")
  <2>1. \A t : Has(up'[c], t) => Has(up[c], t) \/ Has(msgs, t)
    BY <1>2, <1>3, <1>5, WrittenIs
  <2> QED
    BY <1>2, <1>5, <2>1
<1>6. ASSUME s.active, ~s.reconnecting, c # NoConn
      PROVE  sock[c] = "open" /\ ~Has(up[c], "hello") /\ c \in Conns
  <2>1. c \in Conns
    BY <1>1, <1>6, OwnSockets
  <2>2. CASE now.active /\ ~now.reconnecting
    BY <1>6, <2>1, <2>2 DEF FInv, Back
  <2>3. CASE /\ sock[c] = "open"
             /\ Has(down[c], "welcome") \/ Has(down[c], "start")
    BY <2>1, <2>3 DEF FInv, Hellos
  <2> QED
    BY <1>6, <2>2, <2>3 DEF Told
<1>7. ASSUME Link(Host)', s.reconnecting PROVE Has(down'[c], "welcome")
  <2>1. Link(Host) /\ c \in Conns
    BY <1>4, <1>7
  <2>2. now.reconnecting /\ (Has(down[c], "welcome") => Has(down'[c], "welcome"))
    BY <1>7, <2>1 DEF Told
  <2>3. Has(down[c], "welcome")
    BY <2>1, <2>2 DEF FInv, Back
  <2> QED
    BY <2>2, <2>3
<1>8. Back'
  BY <1>2, <1>3, <1>5, <1>6, <1>7 DEF Back
<1>9. ASSUME relay.started, Link(Host)', s.active, ~s.reconnecting
      PROVE  /\ LastFloor(up'[c], s.rev)
             /\ ~Has(up'[c], "floor") => relay.floor # <<>> /\ relay.floor[1].rev = s.rev
  <2>1. Link(Host) /\ c \in Conns /\ c \in relay.live \ cut
    BY <1>4, <1>9
  <2>2. CASE Closing(msgs, s.rev)
    BY <1>2, <1>3, <2>1, <2>2, WrittenIs
  <2>3. CASE /\ ~Has(msgs, "floor") /\ s.rev = now.rev
             /\ s.active /\ ~s.reconnecting => now.active /\ ~now.reconnecting
    <3>1. /\ LastFloor(up[c], s.rev)
          /\ ~Has(up[c], "floor") => relay.floor # <<>> /\ relay.floor[1].rev = s.rev
      BY <1>9, <2>1, <2>3 DEF FInv, Sent
    <3> QED
      BY <1>2, <1>3, <2>1, <2>3, <3>1, WrittenIs
  <2> QED
    BY <2>2, <2>3 DEF Sends
<1>10. Sent'
  BY <1>2, <1>3, <1>9 DEF Sent
<1> QED
  BY <1>8, <1>10

LEMMA HostTalks ==
    ASSUME IInv, FInv, IInv', NEW s, NEW msgs, Says(Host, s, msgs) \/ Reads(Host, s, msgs),
           client[Host].phase # "off", Sound(s), Told(s, msgs), Sends(s, msgs), Readies(s, msgs)
    PROVE  FInv'
<1>1. Host \in Players /\ Speaks(Host, s, msgs)
  BY DEF Players, Says, Reads
<1>2. /\ client'[Host] = s /\ \A q \in Players \ {Host} : client'[q] = client[q]
  BY <1>1, SpeaksIs
<1>3. /\ relay' = relay /\ sock' = sock /\ owner' = owner /\ cut' = cut
      /\ s.conn = client[Host].conn
  BY <1>1 DEF Speaks
<1>4. Seated' /\ Fresh' /\ Hellos' /\ FloorsGoOut'
  BY <1>1, TalkUnsaid, UnsaidFrame
<1>5. HostSession'
  <2>1. NoneClosed' <=> NoneClosed
    BY <1>3 DEF NoneClosed, HostSocks
  <2>2. client[Host].conn = NoConn => ~NoneClosed
    BY DEF FInv, HostSession
  <2> QED
    BY <1>2, <1>3, <2>1, <2>2 DEF HostSession, Sound
<1>6. Shown'
  <2>1. relay.floor \in Seq(FloorMsgs) /\ Room(relay, relay')
    BY <1>3, RelayFields DEF IInv, TypeOK, Room
  <2>2. ASSUME NEW j \in Joiners, NEW n \in Nat, Link(j)'
        PROVE  /\ Link(j)
               /\ Caught(down[client[j].conn], n, client[j])
                    => Caught(down'[client'[j].conn], n, client'[j])
    <3>1. j \in Players /\ j # Host
      BY PlayersAssumption DEF Players
    <3>2. client'[j] = client[j]
      BY <1>2, <3>1
    <3>3. Link(j)
      BY <1>3, <2>2, <3>2 DEF Link
    <3>4. client[j].conn \in Conns /\ client[j].conn # client[Host].conn
      BY <1>1, <3>1, <3>3, OwnSockets, ConnFacts DEF Link
    <3>5. down'[client[j].conn] = down[client[j].conn]
      BY <1>1, <3>4, ReadIs
    <3> QED
      BY <3>2, <3>3, <3>5
  <2> QED
    BY <2>1, <2>2, ShownFrame
<1> QED
  BY <1>4, <1>5, <1>6, HostTalksLobby, HostTalksSent DEF FInv

-----------------------------------------------------------------------------
(* A player closes its socket *)

Dropped(s) == [s EXCEPT !.conn = NoConn]

LEMMA DroppedIs ==
    ASSUME NEW s \in Clients
    PROVE  /\ Dropped(s) \in Clients /\ Dropped(s).conn = NoConn
           /\ Dropped(s).phase = s.phase /\ Dropped(s).screen = s.screen
           /\ Dropped(s).started = s.started /\ Dropped(s).ready = s.ready
           /\ Dropped(s).active = s.active /\ Dropped(s).reconnecting = s.reconnecting
BY DEF Clients, Ends, Dropped

\* What is said last.
Lasts == {Bye, <<>>}

LEMMA LastIs ==
    ASSUME NEW last \in Lasts
    PROVE  last \in Seq(UpMsgs) /\ \A t : t # "bye" => ~Has(last, t)
<1>1. [t |-> "bye"] \in Saids
  BY DEF Saids, UpMsgs
<1>2. Bye \in Seq(UpMsgs) /\ <<>> \in Seq(UpMsgs)
  BY <1>1, Said, SaidNothing DEF Bye
<1>3. \A t : t # "bye" => ~Has(Bye, t)
  BY DEF Bye, Has
<1> QED
  BY <1>2, <1>3, NoMessage DEF Lasts

LEMMA CloseIs ==
    ASSUME IInv, NEW p \in Players, NEW s, NEW last \in Lasts, Close(p, s, last), NEW d \in Conns
    PROVE  /\ d # client[p].conn => sock'[d] = sock[d] /\ up'[d] = up[d] /\ down'[d] = down[d]
           /\ d = client[p].conn => sock'[d] = "closed" /\ down'[d] = <<>>
           /\ \A t : t # "bye" => Thin(up'[d], up[d], t)
<1> DEFINE c == client[p].conn
<1>1. up \in [Conns -> Seq(UpMsgs)] /\ up[d] \in Seq(UpMsgs) /\ c \in Ends
  BY OwnSockets DEF IInv, TypeOK
<1>2. /\ d # c => sock'[d] = sock[d] /\ down'[d] = down[d]
      /\ d = c => sock'[d] = "closed" /\ down'[d] = <<>>
  BY DEF Close, Closed, Emptied
<1>3. last \in Seq(UpMsgs) /\ \A t : t # "bye" => ~Has(last, t)
  BY LastIs
<1>4. CASE up' = Written(c, last)
  <2>1. (d # c => up'[d] = up[d]) /\ \A t : ~Has(last, t) => Thin(up'[d], up[d], t)
    BY <1>1, <1>3, <1>4, WrittenIs
  <2> QED
    BY <1>2, <1>3, <2>1
<1>5. CASE up' = [up EXCEPT ![c] = <<>>]
  <2>1. up'[d] = IF d = c THEN <<>> ELSE up[d]
    BY <1>1, <1>5
  <2>2. \A t : Thin(up[d], up[d], t) /\ Thin(<<>>, up[d], t)
    BY <1>1, ThinSame
  <2>3. \A t : Thin(up'[d], up[d], t)
    BY <2>1, <2>2
  <2> QED
    BY <1>2, <2>1, <2>3
<1> QED
  BY <1>4, <1>5 DEF Close

LEMMA CloseFrame ==
    ASSUME IInv, NEW p \in Players, NEW s \in Clients, NEW last, Close(p, s, last)
    PROVE  /\ relay' = relay /\ owner' = owner /\ cut' = cut
           /\ client'[p] = Dropped(s) /\ \A q \in Players \ {p} : client'[q] = client[q]
<1>1. client \in [Players -> Clients]
  BY DEF IInv, TypeOK
<1> QED
  BY <1>1 DEF Close, Dropped

LEMMA CloseUnsaid ==
    ASSUME IInv, FInv, NEW p \in Players, NEW s \in Clients, NEW last \in Lasts, Close(p, s, last)
    PROVE  Unsaid
<1>1. relay' = relay /\ owner' = owner
  BY CloseFrame
<1>2. Roled(relay) /\ Orderly(relay)
  BY DEF FInv, Seated
<1>3. ASSUME NEW c \in Conns
      PROVE  /\ Thin(up'[c], up[c], "hello")
             /\ \A t : Has(down'[c], t) => Has(down[c], t)
             /\ sock'[c] \in {"unused", "dialing"} => /\ sock[c] \in {"unused", "dialing"}
                                                      /\ down'[c] \in {down[c], <<>>}
  BY CloseIs, NoMessage
<1> QED
  BY <1>1, <1>2, <1>3 DEF Unsaid

\* Nobody else loses its place, and the one that closes has none.
LEMMA CloseShown ==
    ASSUME IInv, FInv, NEW p \in Players, NEW s \in Clients, NEW last \in Lasts, Close(p, s, last)
    PROVE  Shown'
<1>1. relay' = relay /\ cut' = cut /\ client'[p] = Dropped(s)
      /\ \A q \in Players \ {p} : client'[q] = client[q]
  BY CloseFrame
<1>2. relay.floor \in Seq(FloorMsgs) /\ Room(relay, relay')
  BY <1>1, RelayFields DEF IInv, TypeOK, Room
<1>3. ASSUME NEW j \in Joiners, NEW n \in Nat, Link(j)'
      PROVE  /\ Link(j)
             /\ Caught(down[client[j].conn], n, client[j])
                  => Caught(down'[client'[j].conn], n, client'[j])
  <2>1. j \in Players
    BY DEF Players
  <2>2. client'[j].conn \in relay.live
    BY <1>1, <1>3 DEF Link
  <2>3. j # p
    BY <1>1, <2>2, DroppedIs, OwnSockets
  <2>4. client'[j] = client[j] /\ client[j].conn \in Conns /\ client[j].conn # client[p].conn
    BY <1>1, <2>1, <2>2, <2>3, OwnSockets, ConnFacts
  <2>5. sock'[client[j].conn] = sock[client[j].conn] /\ down'[client[j].conn] = down[client[j].conn]
    BY <2>4, CloseIs
  <2>6. Link(j)
    BY <1>1, <1>3, <2>4, <2>5 DEF Link
  <2> QED
    BY <2>4, <2>5, <2>6
<1> QED
  BY <1>2, <1>3, ShownFrame

LEMMA JoinerCloses ==
    ASSUME IInv, FInv, IInv', NEW p \in Joiners, NEW s \in Clients, NEW last \in Lasts,
           Close(p, s, last)
    PROVE  FInv'
<1>1. p \in Players /\ p # Host /\ Host \in Players
  BY PlayersAssumption DEF Players
<1>2. Seated' /\ Fresh' /\ Hellos' /\ FloorsGoOut'
  BY <1>1, CloseUnsaid, UnsaidFrame
<1>3. Shown'
  BY <1>1, CloseShown
<1>4. relay' = relay /\ owner' = owner /\ cut' = cut /\ client'[Host] = client[Host]
  BY <1>1, CloseFrame
<1>5. ASSUME NEW d \in HostSocks
      PROVE  sock'[d] = sock[d] /\ up'[d] = up[d] /\ down'[d] = down[d]
  <2>1. d \in Conns /\ d # client[p].conn
    BY <1>1, OwnSockets, ConnFacts DEF HostSocks
  <2> QED
    BY <1>1, <2>1, CloseIs
<1>6. HostSocks' = HostSocks /\ Room(relay, relay')
  BY <1>4 DEF HostSocks, Room
<1>7. client[Host].conn = NoConn \/ client[Host].conn \in HostSocks
  BY <1>1, OwnSockets DEF HostSocks
<1>8. NoConn \notin relay'.live
  BY <1>1, <1>4, OwnSockets
<1>9. HostSession' /\ Lobby' /\ Back' /\ Sent'
  BY <1>4, <1>5, <1>6, <1>7, <1>8, HostAlone
<1> QED
  BY <1>2, <1>3, <1>9 DEF FInv

\* What is left of the session of a host that closes its socket.
Keeps(s) ==
    LET now == client[Host]
    IN  /\ now.conn # NoConn /\ now.phase # "off"
        /\ s.phase = now.phase /\ s.started = now.started /\ s.ready = now.ready
        /\ s.active = now.active

LEMMA HostCloses ==
    ASSUME IInv, FInv, IInv', NEW s \in Clients, NEW last \in Lasts, Close(Host, s, last),
           s = Offline \/ Keeps(s)
    PROVE  FInv'
<1> DEFINE now == client[Host]
           c == client[Host].conn
<1>1. Host \in Players
  BY DEF Players
<1>2. Seated' /\ Fresh' /\ Hellos' /\ FloorsGoOut'
  BY <1>1, CloseUnsaid, UnsaidFrame
<1>3. Shown'
  BY <1>1, CloseShown
<1>4. relay' = relay /\ owner' = owner /\ client'[Host] = Dropped(s)
  BY <1>1, CloseFrame
<1>5. HostSocks' = HostSocks /\ HostSocks \subseteq Conns
  BY <1>4 DEF HostSocks
<1>6. c # NoConn => ~NoneClosed'
  <2>1. c # NoConn => c \in HostSocks
    BY <1>1, OwnSockets DEF HostSocks
  <2> QED
    BY <1>1, <1>5, <2>1, CloseIs DEF NoneClosed
<1>7. c = NoConn => (NoneClosed' <=> NoneClosed)
  <2>1. ASSUME c = NoConn, NEW d \in HostSocks PROVE sock'[d] = sock[d]
    BY <1>1, <1>5, <2>1, CloseIs, ConnFacts
  <2> QED
    BY <1>5, <2>1 DEF NoneClosed
<1>8. HostSession'
  <2>1. CASE s = Offline
    BY <1>4, <2>1, DroppedIs DEF HostSession, Offline
  <2>2. CASE Keeps(s)
    BY <1>4, <1>6, <2>2, DroppedIs DEF HostSession, FInv, Keeps
  <2> QED
    BY <2>1, <2>2
<1>9. Lobby'
  <2>1. ReadyOnce' /\ (Waiting' => Waiting)
    <3>1. \A d \in HostSocks : Thin(up'[d], up[d], "ready")
      BY <1>1, <1>5, CloseIs
    <3> QED
      BY <1>5, <3>1, ThinReady
  <2>2. Begun' => Begun
    <3>1. ASSUME NEW d \in HostSocks, Has(down'[d], "start") \/ Has(up'[d], "floor")
          PROVE  Has(down[d], "start") \/ Has(up[d], "floor")
      <4>1. d \in Conns
        BY <1>5
      <4>2. down'[d] = <<>> \/ down'[d] = down[d]
        BY <1>1, <4>1, CloseIs
      <4>3. Thin(up'[d], up[d], "floor")
        BY <1>1, <4>1, CloseIs
      <4> QED
        BY <3>1, <4>2, <4>3, ThinHas, NoMessage
    <3>2. client'[Host].started => now.started
      BY <1>4, DroppedIs DEF Keeps, Offline
    <3> QED
      BY <1>4, <1>5, <3>1, <3>2 DEF Begun
  <2>3. (HostReady' => HostReady) /\ relay'.started = relay.started
    BY <1>4 DEF HostReady
  <2>4. MayReady' => MayReady
    <3>1. CASE Keeps(s)
      BY <1>4, <3>1, DroppedIs DEF MayReady, Keeps
    <3>2. CASE s = Offline
      <4>1. MayReady' => NoneClosed'
        BY <1>4, <3>2, DroppedIs DEF MayReady, Offline
      <4>2. c = NoConn /\ NoneClosed => now.phase = "off" /\ ~now.ready
        BY DEF FInv, HostSession
      <4> QED
        BY <1>6, <1>7, <4>1, <4>2 DEF MayReady
    <3> QED
      BY <3>1, <3>2
  <2> QED
    BY <2>1, <2>2, <2>3, <2>4, LobbyFrame
<1>10. Back' /\ Sent'
  <2>1. client'[Host].conn = NoConn /\ NoConn \notin relay'.live
    BY <1>1, <1>4, DroppedIs, OwnSockets
  <2>2. ~Link(Host)'
    BY <2>1 DEF Link
  <2> QED
    BY <2>1, <2>2 DEF Back, Sent
<1> QED
  BY <1>2, <1>3, <1>8, <1>9, <1>10 DEF FInv

\* Every way a session ends or loses its socket.
LEMMA ClosesFloor ==
    ASSUME IInv, FInv, IInv', NEW p \in Players, NEW s \in Clients, NEW last \in Lasts,
           Close(p, s, last), p = Host => s = Offline \/ Keeps(s)
    PROVE  FInv'
BY JoinerCloses, HostCloses DEF Players

LEMMA EndsFloor ==
    ASSUME IInv, FInv, IInv', NEW p \in Players,
           ShutDown(p) \/ Fail(p) \/ Close(p, Offline, <<>>)
    PROVE  FInv'
<1>1. PICK last \in Lasts : Close(p, Offline, last)
  BY DEF ShutDown, Fail, Lasts
<1> QED
  BY <1>1, OfflineIs, ClosesFloor

LEMMA ConnectionFailedFloor ==
    ASSUME IInv, FInv, IInv', NEW p \in Players, ConnectionFailed(p)
    PROVE  FInv'
<1>1. client[p] \in Clients /\ <<>> \in Lasts
  BY OwnSockets DEF Lasts
<1>2. CASE client[p].reconnecting
  <2>1. Close(p, client[p], <<>>) /\ client[p].conn # NoConn
    BY <1>2 DEF ConnectionFailed
  <2>2. p = Host => Keeps(client[p])
    BY <1>2, <2>1 DEF FInv, HostSession, Keeps
  <2> QED
    BY <1>1, <2>1, <2>2, ClosesFloor
<1>3. CASE ~client[p].reconnecting
  BY <1>3, EndsFloor DEF ConnectionFailed
<1> QED
  BY <1>2, <1>3

LEMMA ConnectionLostFloor ==
    ASSUME IInv, FInv, IInv', NEW p \in Players, ConnectionLost(p)
    PROVE  FInv'
<1> DEFINE s == [client[p] EXCEPT !.reconnecting = TRUE]
<1>1. client[p] \in Clients /\ <<>> \in Lasts
  BY OwnSockets DEF Lasts
<1>2. /\ s \in Clients /\ s.phase = client[p].phase /\ s.started = client[p].started
      /\ s.ready = client[p].ready /\ s.active = client[p].active
  BY <1>1 DEF Clients
<1>3. (Close(p, s, <<>>) \/ Fail(p)) /\ client[p].conn # NoConn
  BY DEF ConnectionLost
<1> HIDE DEF s
<1>4. p = Host => Keeps(s)
  BY <1>2, <1>3 DEF FInv, HostSession, Keeps
<1> QED
  BY <1>1, <1>2, <1>3, <1>4, ClosesFloor, EndsFloor

-----------------------------------------------------------------------------
(* What a player says *)

LEMMA ActSays ==
    ASSUME NEW p, NEW s \in Clients, NEW msgs, Talk(msgs), s.conn = client[p].conn, Act(p, s, msgs)
    PROVE  Says(p, s, msgs)
BY DEF Act, Says, Speaks

\* What is said in one word.
LEMMA WordIs ==
    ASSUME NEW t \in {"kick", "ready", "run_ended"}
    PROVE  /\ Talk(<<[t |-> t]>>) /\ Len(<<[t |-> t]>>) = 1
           /\ \A k : Has(<<[t |-> t]>>, k) => k = t
BY TalkFacts DEF Has

LEMMA NoWord == Talk(<<>>) /\ \A k : ~Has(<<>>, k)
BY TalkFacts, NoMessage

\* A floor is sent, and it is the one the session shows.
LEMMA FloorSaid ==
    ASSUME NEW s \in Clients
    PROVE  /\ Closing(FloorMsg(s), WithFloor(s).rev) /\ \A k : Has(FloorMsg(s), k) => k = "floor"
           /\ WithFloor(s).phase = s.phase /\ WithFloor(s).started = s.started
           /\ WithFloor(s).ready = s.ready /\ WithFloor(s).active = s.active
           /\ WithFloor(s).reconnecting = s.reconnecting
<1> DEFINE n == s.rev + 1
<1>1. WithFloor(s).rev = n /\ FloorMsg(s) = <<[t |-> "floor", rev |-> n]>>
  BY DEF WithFloor, FloorMsg, Clients
<1>2. /\ WithFloor(s).phase = s.phase /\ WithFloor(s).started = s.started
      /\ WithFloor(s).ready = s.ready /\ WithFloor(s).active = s.active
      /\ WithFloor(s).reconnecting = s.reconnecting
  BY DEF WithFloor, Clients
<1> HIDE DEF n
<1>3. Closing(FloorMsg(s), WithFloor(s).rev)
  BY <1>1 DEF Closing
<1>4. \A k : Has(FloorMsg(s), k) => k = "floor"
  BY <1>1 DEF Has
<1> QED
  BY <1>2, <1>3, <1>4

\* The session stays what it is, but for what a floor does not depend on.
Same(s) ==
    LET now == client[Host]
    IN  /\ s.phase = now.phase /\ s.started = now.started /\ s.active = now.active
        /\ s.reconnecting = now.reconnecting /\ s.rev = now.rev

LEMMA HostSays ==
    ASSUME IInv, FInv, IInv', NEW s \in Clients, NEW msgs, Talk(msgs), Act(Host, s, msgs),
           s.conn = client[Host].conn, Same(s), ~Has(msgs, "floor"), client[Host].phase # "off",
           Readies(s, msgs)
    PROVE  FInv'
<1>1. Says(Host, s, msgs)
  BY ActSays
<1>2. down' = down
  BY DEF Act
<1>3. Sound(s)
  BY DEF Sound, Same, FInv, HostSession
<1>4. Told(s, msgs)
  BY <1>2 DEF Told, Same
<1>5. Sends(s, msgs)
  BY DEF Sends, Same
<1> QED
  BY <1>1, <1>3, <1>4, <1>5, HostTalks

LEMMA ReadyUpFloor ==
    ASSUME IInv, FInv, IInv', NEW p \in Players, ReadyUp(p)
    PROVE  FInv'
<1> DEFINE s == [client[p] EXCEPT !.ready = TRUE]
           msgs == <<[t |-> "ready"]>>
<1>1. client[p] \in Clients /\ client[p].conn # NoConn /\ client[p].screen = "lobby"
      /\ ~client[p].ready
  BY OwnSockets DEF ReadyUp, InLobby
<1>2. /\ s \in Clients /\ s.conn = client[p].conn /\ s.phase = client[p].phase
      /\ s.started = client[p].started /\ s.active = client[p].active /\ s.ready
      /\ s.reconnecting = client[p].reconnecting /\ s.rev = client[p].rev
      /\ s.awaiting = client[p].awaiting
  BY <1>1 DEF Clients
<1>3. Talk(msgs) /\ Len(msgs) = 1 /\ ~Has(msgs, "floor")
  BY WordIs
<1>4. Act(p, s, msgs)
  BY DEF ReadyUp
<1> HIDE DEF s, msgs
<1>5. CASE p \in Joiners
  <2>1. Says(p, s, msgs)
    BY <1>2, <1>3, <1>4, ActSays
  <2> QED
    BY <1>2, <1>5, <2>1, JoinerTalks
<1>6. CASE p = Host
  <2>1. Same(s)
    BY <1>2, <1>6 DEF Same
  <2>2. client[Host].phase # "off"
    BY <1>1, <1>6 DEF FInv, HostSession
  <2>3. client[Host].conn \in Conns
    BY <1>1, <1>6, OwnSockets
  <2>4. Readies(s, msgs)
    BY <1>1, <1>2, <1>3, <1>6, <2>3 DEF Readies
  <2> QED
    BY <1>2, <1>3, <1>4, <1>6, <2>1, <2>2, <2>4, HostSays
<1> QED
  BY <1>5, <1>6 DEF Players

\* Admit, TurnAway, Descend and EndRun.
LEMMA HostActsFloor ==
    ASSUME IInv, FInv, IInv', Admit \/ TurnAway \/ Descend \/ EndRun
    PROVE  FInv'
<1> DEFINE now == client[Host]
<1>1. Host \in Players /\ now \in Clients
  BY OwnSockets DEF Players
<1>2. CASE Admit
  <2> DEFINE s == [client[Host] EXCEPT !.knocking = FALSE]
  <2>1. /\ s \in Clients /\ s.conn = now.conn /\ s.phase = now.phase /\ s.started = now.started
        /\ s.active = now.active /\ s.ready = now.ready
        /\ s.reconnecting = now.reconnecting /\ s.rev = now.rev
    BY <1>1 DEF Clients
  <2>2. Act(Host, s, <<>>) /\ now.screen = "lobby"
    BY <1>2 DEF Admit, InLobby
  <2> HIDE DEF s
  <2>3. Same(s) /\ now.phase # "off"
    BY <2>1, <2>2 DEF Same, FInv, HostSession
  <2>4. Readies(s, <<>>)
    BY <2>1, NoWord DEF Readies
  <2> QED
    BY <2>1, <2>2, <2>3, <2>4, NoWord, HostSays
<1>3. CASE TurnAway
  <2> DEFINE s == [client[Host] EXCEPT !.knocking = FALSE, !.partner = "nobody"]
             msgs == <<[t |-> "kick"]>>
  <2>1. /\ s \in Clients /\ s.conn = now.conn /\ s.phase = now.phase /\ s.started = now.started
        /\ s.active = now.active /\ s.ready = now.ready
        /\ s.reconnecting = now.reconnecting /\ s.rev = now.rev
    BY <1>1 DEF Clients, People, Nobody
  <2>2. Act(Host, s, msgs) /\ now.screen = "lobby"
    BY <1>3 DEF TurnAway, InLobby
  <2>3. Talk(msgs) /\ ~Has(msgs, "floor") /\ ~Has(msgs, "ready")
    BY WordIs
  <2> HIDE DEF s, msgs
  <2>4. Same(s) /\ now.phase # "off"
    BY <2>1, <2>2 DEF Same, FInv, HostSession
  <2>5. Readies(s, msgs)
    BY <2>1, <2>3 DEF Readies
  <2> QED
    BY <2>1, <2>2, <2>3, <2>4, <2>5, HostSays
<1>4. CASE Descend
  <2> DEFINE s == WithFloor(now)
             msgs == FloorMsg(now)
  <2>1. Act(Host, s, msgs) /\ now.active
    BY <1>4 DEF Descend
  <2>2. s \in Clients /\ s.conn = now.conn /\ Talk(msgs)
    BY <1>1, FloorFacts
  <2>3. /\ Closing(msgs, s.rev) /\ ~Has(msgs, "ready")
        /\ s.phase = now.phase /\ s.started = now.started
        /\ s.ready = now.ready /\ s.active = now.active /\ s.reconnecting = now.reconnecting
    BY <1>1, FloorSaid
  <2>4. down' = down
    BY <2>1 DEF Act
  <2> HIDE DEF s, msgs
  <2>5. now.started /\ now.phase # "off" /\ (now.phase = "setup" => ~now.started)
    BY <2>1 DEF FInv, HostSession
  <2>6. Says(Host, s, msgs)
    BY <2>1, <2>2, ActSays
  <2>7. Sound(s) /\ Sends(s, msgs) /\ Readies(s, msgs)
    BY <2>1, <2>3, <2>5 DEF Sound, Sends, Readies
  <2>8. Told(s, msgs)
    BY <2>3, <2>4, <2>5 DEF Told
  <2> QED
    BY <2>5, <2>6, <2>7, <2>8, HostTalks
<1>5. CASE EndRun
  <2> DEFINE s == [client[Host] EXCEPT !.screen = "over"]
             msgs == IF client[Host].conn = NoConn THEN <<>> ELSE <<[t |-> "run_ended"]>>
  <2>1. /\ s \in Clients /\ s.conn = now.conn /\ s.phase = now.phase /\ s.started = now.started
        /\ s.active = now.active /\ s.ready = now.ready
        /\ s.reconnecting = now.reconnecting /\ s.rev = now.rev
    BY <1>1 DEF Clients
  <2>2. Act(Host, s, msgs) /\ now.active
    BY <1>5 DEF EndRun
  <2>3. Talk(msgs) /\ ~Has(msgs, "floor") /\ ~Has(msgs, "ready")
    <3>1. Talk(<<[t |-> "run_ended"]>>) /\ \A k : Has(<<[t |-> "run_ended"]>>, k) => k = "run_ended"
      BY WordIs
    <3> QED
      BY <3>1, NoWord
  <2> HIDE DEF s, msgs
  <2>4. Same(s) /\ now.phase # "off"
    BY <2>1, <2>2 DEF Same, FInv, HostSession
  <2>5. Readies(s, msgs)
    BY <2>1, <2>3 DEF Readies
  <2> QED
    BY <2>1, <2>2, <2>3, <2>4, <2>5, HostSays
<1> QED
  BY <1>2, <1>3, <1>4, <1>5

-----------------------------------------------------------------------------
(* What a player reads *)

\* There is a message to read.
AtHand(p) ==
    /\ client[p].conn # NoConn /\ sock[client[p].conn] = "open"
    /\ down[client[p].conn] # <<>>

LEMMA AtHandIs ==
    ASSUME IInv, NEW p \in Players, AtHand(p)
    PROVE  /\ client[p] \in Clients /\ client[p].conn \in Conns /\ owner[client[p].conn] = p
           /\ down[client[p].conn] \in Seq(DownMsgs) /\ Head(down[client[p].conn]) \in DownMsgs
           /\ Has(down[client[p].conn], Head(down[client[p].conn]).t)
<1> DEFINE q == down[client[p].conn]
<1>1. client[p] \in Clients /\ client[p].conn \in Conns /\ owner[client[p].conn] = p
  BY OwnSockets DEF AtHand
<1>2. q \in Seq(DownMsgs) /\ q # <<>>
  BY <1>1 DEF AtHand, IInv, TypeOK
<1> HIDE DEF q
<1>3. Head(q) \in DownMsgs /\ 1 \in DOMAIN q /\ Head(q) = q[1]
  BY <1>2, HeadTail
<1>4. Has(q, Head(q).t)
  BY <1>3 DEF Has
<1> QED
  BY <1>1, <1>2, <1>3, <1>4 DEF q

LEMMA KeepReads ==
    ASSUME IInv, NEW p \in Players, NEW s \in Clients, NEW msgs, Talk(msgs),
           s.conn = client[p].conn, AtHand(p), Keep(p, s, msgs)
    PROVE  Reads(p, s, msgs)
BY AtHandIs DEF Keep, Reads, Speaks, AtHand

LEMMA JoinerKeeps ==
    ASSUME IInv, FInv, IInv', NEW p \in Joiners, NEW s \in Clients, s.conn = client[p].conn,
           AtHand(p), Keep(p, s, <<>>), Shows(p, s)
    PROVE  FInv'
<1>1. p \in Players
  BY DEF Players
<1>2. Reads(p, s, <<>>)
  BY <1>1, KeepReads, NoWord
<1> QED
  BY <1>2, JoinerTalks

\* The host reads a message that is not about its floor.
LEMMA HostKeeps ==
    ASSUME IInv, FInv, IInv', NEW s \in Clients, s.conn = client[Host].conn, AtHand(Host),
           Keep(Host, s, <<>>), Head(down[client[Host].conn]).t # "welcome",
           Same(s), s.ready = client[Host].ready
    PROVE  FInv'
<1> DEFINE c == client[Host].conn
<1>1. Host \in Players
  BY DEF Players
<1>2. Reads(Host, s, <<>>)
  BY <1>1, KeepReads, NoWord
<1>3. c \in Conns /\ down[c] \in Seq(DownMsgs) /\ down[c] # <<>> /\ down \in [Conns -> Seq(DownMsgs)]
  BY <1>1, AtHandIs DEF AtHand, IInv, TypeOK
<1>4. down'[c] = Tail(down[c])
  BY <1>3 DEF Keep
<1>5. Has(down[c], "welcome") => Has(down'[c], "welcome")
  BY <1>3, <1>4, HasTail
<1>6. client[Host].phase # "off"
  BY DEF FInv, HostSession, AtHand
<1>7. Sound(s)
  BY <1>6 DEF Sound, Same, FInv, HostSession
<1>8. Told(s, <<>>)
  BY <1>5, NoWord DEF Told, Same
<1>9. Sends(s, <<>>) /\ Readies(s, <<>>)
  BY NoWord DEF Sends, Readies, Same
<1> QED
  BY <1>2, <1>6, <1>7, <1>8, <1>9, HostTalks

\* It reads one that makes it send its floor.
LEMMA HostKeepsAndSends ==
    ASSUME IInv, FInv, IInv', NEW s \in Clients, s.conn = client[Host].conn, AtHand(Host),
           KeepAndSendFloor(Host, s), s.phase # "off", s.phase # "setup", s.started,
           s.ready = client[Host].ready,
           client[Host].started \/ Head(down[client[Host].conn]).t = "start",
           s.reconnecting => /\ client[Host].reconnecting
                             /\ Head(down[client[Host].conn]).t # "welcome",
           \/ s.active = client[Host].active /\ s.reconnecting = client[Host].reconnecting
           \/ Head(down[client[Host].conn]).t \in {"welcome", "start"}
    PROVE  FInv'
<1> DEFINE c == client[Host].conn
           now == client[Host]
           z == WithFloor(s)
           msgs == FloorMsg(s)
<1>1. Host \in Players
  BY DEF Players
<1>2. z \in Clients /\ z.conn = c /\ Talk(msgs)
  BY FloorFacts
<1>3. /\ Closing(msgs, z.rev) /\ ~Has(msgs, "ready")
      /\ z.phase = s.phase /\ z.started = s.started
      /\ z.ready = s.ready /\ z.active = s.active /\ z.reconnecting = s.reconnecting
  BY FloorSaid
<1>4. Keep(Host, z, msgs)
  BY DEF KeepAndSendFloor
<1> HIDE DEF z, msgs
<1>5. Reads(Host, z, msgs)
  BY <1>1, <1>2, <1>4, KeepReads
<1>6. c \in Conns /\ down[c] \in Seq(DownMsgs) /\ down[c] # <<>> /\ down \in [Conns -> Seq(DownMsgs)]
      /\ Has(down[c], Head(down[c]).t) /\ sock[c] = "open"
  BY <1>1, AtHandIs DEF AtHand, IInv, TypeOK
<1>7. down'[c] = Tail(down[c])
  BY <1>4, <1>6 DEF Keep
<1>8. Head(down[c]).t # "welcome" /\ Has(down[c], "welcome") => Has(down'[c], "welcome")
  BY <1>6, <1>7, HasTail
<1>9. client[Host].phase # "off"
  BY DEF FInv, HostSession, AtHand
<1>10. Sound(z)
  BY <1>3 DEF Sound
<1>11. Told(z, msgs)
  <2>1. z.started \/ Has(msgs, "floor") => now.started \/ (c \in Conns /\ Has(down[c], "start"))
    BY <1>6
  <2>2. z.reconnecting => now.reconnecting /\ (Has(down[c], "welcome") => Has(down'[c], "welcome"))
    BY <1>3, <1>8
  <2>3. z.active /\ ~z.reconnecting =>
          \/ now.active /\ ~now.reconnecting
          \/ Has(down[c], "welcome") \/ Has(down[c], "start")
    BY <1>3, <1>6
  <2> QED
    BY <1>6, <2>1, <2>2, <2>3 DEF Told
<1>12. Sends(z, msgs) /\ Readies(z, msgs)
  BY <1>3 DEF Sends, Readies
<1> QED
  BY <1>5, <1>9, <1>10, <1>11, <1>12, HostTalks

LEMMA OnWelcomeFloor ==
    ASSUME IInv, FInv, IInv', NEW p \in Players, AtHand(p), NEW m \in DownMsgs,
           m = Head(down[client[p].conn]), m.t = "welcome", OnWelcome(p, m)
    PROVE  FInv'
<1> DEFINE now == client[p]
           c == client[p].conn
           s == [client[p] EXCEPT !.reconnecting = FALSE, !.token = m.token,
                                  !.partner = IF m.partner = "nobody" THEN @ ELSE m.partner]
           lobby == [s EXCEPT !.phase = "lobby", !.screen = "lobby"]
           waits == [s EXCEPT !.awaiting = TRUE]
<1>1. now \in Clients /\ m.token \in Nat /\ m.partner \in People
  BY AtHandIs DEF DownMsgs, FloorMsgs
<1>2. /\ s \in Clients /\ s.conn = c /\ ~s.reconnecting /\ s.phase = now.phase
      /\ s.started = now.started /\ s.active = now.active /\ s.ready = now.ready /\ s.rev = now.rev
  BY <1>1 DEF Clients
<1>3. \/ ~now.reconnecting /\ Keep(p, lobby, <<>>)
      \/ now.reconnecting /\ ~s.started /\ Keep(p, s, <<>>)
      \/ now.reconnecting /\ s.started /\ p = Host /\ KeepAndSendFloor(p, s)
      \/ now.reconnecting /\ s.started /\ p # Host /\ Keep(p, waits, <<>>)
  BY DEF OnWelcome
<1> HIDE DEF s
<1>4. /\ lobby \in Clients /\ lobby.conn = c /\ ~lobby.reconnecting /\ lobby.phase = "lobby"
      /\ lobby.started = s.started /\ lobby.active = s.active /\ lobby.ready = s.ready
      /\ lobby.rev = s.rev
      /\ waits \in Clients /\ waits.conn = c
  BY <1>2 DEF Clients
<1> HIDE DEF lobby, waits
<1>5. CASE p \in Joiners
  <2>1. p # Host
    BY <1>5, PlayersAssumption
  <2>2. PICK z \in Clients : z.conn = c /\ Keep(p, z, <<>>)
    BY <1>2, <1>3, <1>4, <2>1
  <2>3. Shows(p, z)
    BY DEF Shows
  <2> QED
    BY <1>5, <2>2, <2>3, JoinerKeeps
<1>6. CASE p = Host
  <2>1. now.phase # "off" /\ (now.active => now.started) /\ (now.phase = "setup" => ~now.started)
    BY <1>6 DEF FInv, HostSession, AtHand
  <2>2. CASE now.reconnecting /\ s.started /\ KeepAndSendFloor(Host, s)
    BY <1>2, <1>6, <2>1, <2>2, HostKeepsAndSends
  <2>3. ASSUME NEW z \in Clients, z.conn = c, Keep(Host, z, <<>>), ~z.reconnecting,
               z.phase \in {now.phase, "lobby"}, z.started = now.started, z.active = now.active,
               z.ready = now.ready, z.rev = now.rev, z.active => ~now.reconnecting
        PROVE  FInv'
    <3>1. Reads(Host, z, <<>>)
      BY <1>6, <2>3, KeepReads, NoWord
    <3>2. Sound(z)
      BY <2>1, <2>3 DEF Sound
    <3>3. Told(z, <<>>)
      BY <1>6, <2>3, NoWord DEF Told
    <3>4. Sends(z, <<>>) /\ Readies(z, <<>>)
      BY <1>6, <2>3, NoWord DEF Sends, Readies
    <3> QED
      BY <1>6, <2>1, <3>1, <3>2, <3>3, <3>4, HostTalks
  <2>4. CASE ~now.reconnecting /\ Keep(p, lobby, <<>>)
    BY <1>2, <1>4, <1>6, <2>3, <2>4
  <2>5. CASE ~s.started /\ Keep(p, s, <<>>)
    BY <1>2, <1>6, <2>1, <2>3, <2>5
  <2> QED
    BY <1>3, <1>6, <2>2, <2>4, <2>5
<1> QED
  BY <1>5, <1>6 DEF Players

\* What a message that is not about floors leaves as it is.
Unmoved(p, s) ==
    LET now == client[p]
    IN  /\ s.conn = now.conn /\ s.phase = now.phase /\ s.started = now.started
        /\ s.active = now.active /\ s.reconnecting = now.reconnecting /\ s.rev = now.rev
        /\ s.ready = now.ready /\ s.awaiting = now.awaiting

LEMMA PassesFloor ==
    ASSUME IInv, FInv, IInv', NEW p \in Players, AtHand(p), NEW s \in Clients, Unmoved(p, s),
           Keep(p, s, <<>>), Head(down[client[p].conn]).t \notin {"welcome", "floor"}
    PROVE  FInv'
<1>1. s.conn = client[p].conn
  BY DEF Unmoved
<1>2. CASE p \in Joiners
  <2>1. Shows(p, s)
    BY DEF Shows, Unmoved
  <2> QED
    BY <1>1, <1>2, <2>1, JoinerKeeps
<1>3. CASE p = Host
  <2>1. Same(s) /\ s.ready = client[Host].ready
    BY <1>3 DEF Same, Unmoved
  <2> QED
    BY <1>1, <1>3, <2>1, HostKeeps
<1> QED
  BY <1>2, <1>3 DEF Players

LEMMA OnPartnerJoinedFloor ==
    ASSUME IInv, FInv, IInv', NEW p \in Players, AtHand(p), NEW m \in DownMsgs,
           m = Head(down[client[p].conn]), m.t = "partner_joined", OnPartnerJoined(p, m)
    PROVE  FInv'
<1> DEFINE s == [client[p] EXCEPT !.partner = m.who,
                    !.knocking = IF p = Host /\ ~client[p].started THEN TRUE ELSE @]
<1>1. client[p] \in Clients /\ m.who \in People
  BY AtHandIs DEF DownMsgs, FloorMsgs, People
<1>2. s \in Clients /\ Unmoved(p, s)
  BY <1>1 DEF Clients, Unmoved
<1>3. Keep(p, s, <<>>)
  BY DEF OnPartnerJoined
<1> HIDE DEF s
<1> QED
  BY <1>2, <1>3, PassesFloor

LEMMA OnStartFloor ==
    ASSUME IInv, FInv, IInv', NEW p \in Players, AtHand(p), NEW m \in DownMsgs,
           m = Head(down[client[p].conn]), m.t = "start", OnStart(p, m)
    PROVE  FInv'
<1> DEFINE s == [client[p] EXCEPT !.started = TRUE, !.phase = "active"]
           plays == [s EXCEPT !.partner = m.joiner, !.active = TRUE, !.screen = "playing"]
           waits == [s EXCEPT !.partner = Host, !.awaiting = TRUE]
<1>1. client[p] \in Clients /\ m.joiner \in People /\ Host \in People
  BY AtHandIs DEF DownMsgs, FloorMsgs, People, Players
<1>2. /\ s \in Clients /\ s.conn = client[p].conn /\ s.started /\ s.phase = "active"
      /\ s.ready = client[p].ready /\ s.reconnecting = client[p].reconnecting
  BY <1>1 DEF Clients
<1>3. \/ client[p].started /\ Keep(p, client[p], <<>>)
      \/ p = Host /\ KeepAndSendFloor(p, plays)
      \/ p # Host /\ Keep(p, waits, <<>>)
  BY DEF OnStart
<1> HIDE DEF s
<1>4. /\ plays \in Clients /\ plays.conn = client[p].conn /\ plays.started
      /\ plays.phase = "active" /\ plays.ready = client[p].ready
      /\ plays.reconnecting = client[p].reconnecting
      /\ waits \in Clients /\ waits.conn = client[p].conn
  BY <1>1, <1>2 DEF Clients
<1> HIDE DEF plays, waits
<1>5. CASE Keep(p, client[p], <<>>)
  <2>1. Unmoved(p, client[p])
    BY DEF Unmoved
  <2> QED
    BY <1>1, <1>5, <2>1, PassesFloor
<1>6. CASE p = Host /\ KeepAndSendFloor(p, plays)
  BY <1>4, <1>6, HostKeepsAndSends
<1>7. CASE p # Host /\ Keep(p, waits, <<>>)
  <2>1. p \in Joiners
    BY <1>7 DEF Players
  <2>2. Shows(p, waits)
    BY DEF Shows
  <2> QED
    BY <1>4, <1>7, <2>1, <2>2, JoinerKeeps
<1> QED
  BY <1>3, <1>5, <1>6, <1>7

LEMMA OnFloorFloor ==
    ASSUME IInv, FInv, IInv', NEW p \in Players, AtHand(p), NEW m \in DownMsgs,
           m = Head(down[client[p].conn]), m.t = "floor", OnFloor(p, m)
    PROVE  FInv'
<1> DEFINE s == [client[p] EXCEPT !.rev = m.rev, !.awaiting = FALSE,
                                  !.active = TRUE, !.screen = "playing"]
<1>1. client[p] \in Clients /\ m.rev \in Nat
  BY AtHandIs DEF DownMsgs, FloorMsgs
<1>2. s \in Clients /\ s.conn = client[p].conn /\ s.rev = m.rev /\ ~s.awaiting
  BY <1>1 DEF Clients
<1>3. Keep(p, s, <<>>)
  BY DEF OnFloor
<1> HIDE DEF s
<1>4. p # Host
  BY AtHandIs DEF FInv, FloorsGoOut, HostSocks
<1>5. p \in Joiners
  BY <1>4 DEF Players
<1>6. Shows(p, s)
  BY <1>2 DEF Shows
<1> QED
  BY <1>2, <1>3, <1>5, <1>6, JoinerKeeps

LEMMA OnPartnerRejoinedFloor ==
    ASSUME IInv, FInv, IInv', NEW p \in Players, AtHand(p),
           Head(down[client[p].conn]).t = "partner_rejoined", OnPartnerRejoined(p)
    PROVE  FInv'
<1>1. client[p] \in Clients /\ Unmoved(p, client[p])
  BY AtHandIs DEF Unmoved
<1>2. CASE Keep(p, client[p], <<>>)
  BY <1>1, <1>2, PassesFloor
<1>3. CASE p = Host /\ client[p].started /\ KeepAndSendFloor(p, client[p])
  <2>1. client[Host].phase # "off" /\ client[Host].phase # "setup"
    BY <1>3 DEF FInv, HostSession, AtHand
  <2> QED
    BY <1>1, <1>3, <2>1, HostKeepsAndSends
<1> QED
  BY <1>2, <1>3 DEF OnPartnerRejoined

LEMMA OnPartnerLeftFloor ==
    ASSUME IInv, FInv, IInv', NEW p \in Players, AtHand(p),
           Head(down[client[p].conn]).t = "partner_left", OnPartnerLeft(p)
    PROVE  FInv'
<1> DEFINE s == [client[p] EXCEPT !.partner = "nobody", !.knocking = FALSE]
<1>1. client[p] \in Clients /\ Unmoved(p, client[p])
  BY AtHandIs DEF Unmoved
<1>2. s \in Clients /\ Unmoved(p, s)
  BY <1>1 DEF Clients, People, Nobody, Unmoved
<1>3. ShutDown(p) \/ Keep(p, s, <<>>) \/ Keep(p, client[p], <<>>)
  BY DEF OnPartnerLeft
<1> HIDE DEF s
<1> QED
  BY <1>1, <1>2, <1>3, PassesFloor, EndsFloor

LEMMA OnRunEndedFloor ==
    ASSUME IInv, FInv, IInv', NEW p \in Players, AtHand(p),
           Head(down[client[p].conn]).t = "run_ended", OnRunEnded(p)
    PROVE  FInv'
<1> DEFINE s == [client[p] EXCEPT !.screen = IF client[p].active THEN "over" ELSE @]
<1>1. client[p] \in Clients
  BY AtHandIs
<1>2. s \in Clients /\ Unmoved(p, s)
  BY <1>1 DEF Clients, Unmoved
<1>3. Keep(p, s, <<>>)
  BY DEF OnRunEnded
<1> HIDE DEF s
<1> QED
  BY <1>2, <1>3, PassesFloor

LEMMA ClientReadsFloor ==
    ASSUME IInv, FInv, IInv', NEW p \in Players, ClientReads(p)
    PROVE  FInv'
<1> DEFINE m == Head(down[client[p].conn])
<1>1. AtHand(p)
  BY DEF ClientReads, AtHand
<1>2. m \in DownMsgs /\ client[p] \in Clients /\ Unmoved(p, client[p])
  BY <1>1, AtHandIs DEF Unmoved
<1>3. CASE m.t = "partner_disconnected" /\ Keep(p, client[p], <<>>)
  BY <1>1, <1>2, <1>3, PassesFloor
<1>4. CASE m.t = "error" /\ OnError(p, m)
  <2>1. ShutDown(p) \/ Keep(p, client[p], <<>>) \/ Close(p, Offline, <<>>)
    BY <1>4 DEF OnError
  <2> QED
    BY <1>1, <1>2, <1>4, <2>1, PassesFloor, EndsFloor
<1>5. CASE m.t = "partner_rejoined" /\ OnPartnerRejoined(p)
  BY <1>1, <1>5, OnPartnerRejoinedFloor
<1>6. CASE m.t = "partner_left" /\ OnPartnerLeft(p)
  BY <1>1, <1>6, OnPartnerLeftFloor
<1>7. CASE m.t = "run_ended" /\ OnRunEnded(p)
  BY <1>1, <1>7, OnRunEndedFloor
<1>8. \/ m.t = "welcome" /\ OnWelcome(p, m)
      \/ m.t = "partner_joined" /\ OnPartnerJoined(p, m)
      \/ m.t = "start" /\ OnStart(p, m)
      \/ m.t = "floor" /\ OnFloor(p, m)
      \/ m.t = "partner_disconnected" /\ Keep(p, client[p], <<>>)
      \/ m.t = "partner_rejoined" /\ OnPartnerRejoined(p)
      \/ m.t = "partner_left" /\ OnPartnerLeft(p)
      \/ m.t = "run_ended" /\ OnRunEnded(p)
      \/ m.t = "error" /\ OnError(p, m)
  BY DEF ClientReads
<1>9. CASE m.t = "welcome" /\ OnWelcome(p, m)
  BY <1>1, <1>2, <1>9, OnWelcomeFloor
<1>10. CASE m.t = "partner_joined" /\ OnPartnerJoined(p, m)
  BY <1>1, <1>2, <1>10, OnPartnerJoinedFloor
<1>11. CASE m.t = "start" /\ OnStart(p, m)
  BY <1>1, <1>2, <1>11, OnStartFloor
<1>12. CASE m.t = "floor" /\ OnFloor(p, m)
  BY <1>1, <1>2, <1>12, OnFloorFloor
<1> QED
  BY <1>3, <1>4, <1>5, <1>6, <1>7, <1>8, <1>9, <1>10, <1>11, <1>12

-----------------------------------------------------------------------------
(* A player dials *)

\* p dials n with the session s; its former socket, if it has one, is closed.
Dials(p, n, s) ==
    /\ n \in Conns /\ sock[n] = "unused" /\ sock'[n] = "dialing" /\ s.conn = n
    /\ \A d \in Conns \ {n} : \/ sock'[d] = sock[d]
                              \/ sock'[d] = "closed" /\ d = client[p].conn
    /\ \A d \in Conns : /\ up'[d] \in {up[d], <<>>} /\ down'[d] \in {down[d], <<>>}
                        /\ d # client[p].conn => up'[d] = up[d] /\ down'[d] = down[d]
    /\ client'[p] = s /\ \A q \in Players \ {p} : client'[q] = client[q]
    /\ owner'[n] = p /\ \A d \in Conns \ {n} : owner'[d] = owner[d]
    /\ UNCHANGED <<relay, cut>>

LEMMA UnusedIs ==
    ASSUME IInv, NEW n \in Conns, sock[n] = "unused"
    PROVE  /\ up[n] = <<>> /\ down[n] = <<>> /\ owner[n] \notin Players
           /\ \A q \in Players : client[q].conn # n
<1>1. up[n] = <<>> /\ down[n] = <<>> /\ owner[n] \notin Players
  BY DEF IInv, Linked
<1>2. \A q \in Players : client[q].conn # n
  BY ConnFacts DEF IInv, Linked
<1> QED
  BY <1>1, <1>2

LEMMA DialsUnsaid ==
    ASSUME IInv, FInv, NEW p \in Players, NEW n, NEW s, Dials(p, n, s)
    PROVE  Unsaid
<1>1. relay' = relay /\ n \in Conns /\ up[n] = <<>> /\ down[n] = <<>>
  BY UnusedIs DEF Dials
<1>2. Roled(relay) /\ Orderly(relay)
  BY DEF FInv, Seated
<1>3. ASSUME NEW c \in Conns
      PROVE  /\ Thin(up'[c], up[c], "hello")
             /\ \A t : Has(down'[c], t) => Has(down[c], t)
             /\ sock'[c] \in {"unused", "dialing"} => /\ sock[c] \in {"unused", "dialing"}
                                                      /\ down'[c] \in {down[c], <<>>}
             /\ owner'[c] = Host => owner[c] = Host \/ down'[c] = <<>>
  <2>1. up[c] \in Seq(UpMsgs)
    BY DEF IInv, TypeOK
  <2>2. up'[c] \in {up[c], <<>>} /\ down'[c] \in {down[c], <<>>}
    BY DEF Dials
  <2>3. Thin(up'[c], up[c], "hello")
    BY <2>1, <2>2, ThinSame
  <2>4. \A t : Has(down'[c], t) => Has(down[c], t)
    BY <2>2, NoMessage
  <2>5. sock'[c] \in {"unused", "dialing"} => sock[c] \in {"unused", "dialing"}
    BY DEF Dials
  <2>6. owner'[c] = Host => owner[c] = Host \/ down'[c] = <<>>
    BY <1>1, <2>2 DEF Dials
  <2> QED
    BY <2>2, <2>3, <2>4, <2>5, <2>6
<1> QED
  BY <1>1, <1>2, <1>3 DEF Unsaid

LEMMA DialsShown ==
    ASSUME IInv, FInv, NEW p \in Players, NEW n, NEW s, Dials(p, n, s)
    PROVE  Shown' /\ ~Link(p)'
<1>1. ~Link(p)'
  BY DEF Dials, Link
<1>2. relay' = relay /\ cut' = cut /\ n \in Conns /\ sock[n] = "unused"
  BY DEF Dials
<1>3. relay.floor \in Seq(FloorMsgs) /\ Room(relay, relay')
  BY <1>2, RelayFields DEF IInv, TypeOK, Room
<1>4. ASSUME NEW j \in Joiners, NEW k \in Nat, Link(j)'
      PROVE  /\ Link(j)
             /\ Caught(down[client[j].conn], k, client[j])
                  => Caught(down'[client'[j].conn], k, client'[j])
  <2>1. j \in Players /\ j # p
    BY <1>1, <1>4 DEF Players
  <2>2. client'[j] = client[j]
    BY <2>1 DEF Dials
  <2>3. client[j].conn \in relay.live
    BY <1>2, <1>4, <2>2 DEF Link
  <2>4. client[j].conn \in Conns /\ client[j].conn # client[p].conn /\ client[j].conn # n
    BY <1>2, <2>1, <2>3, OwnSockets, UnusedIs
  <2>5. sock'[client[j].conn] = sock[client[j].conn] /\ down'[client[j].conn] = down[client[j].conn]
    BY <2>4 DEF Dials
  <2>6. Link(j)
    BY <1>2, <1>4, <2>2, <2>5 DEF Link
  <2> QED
    BY <2>2, <2>5, <2>6
<1>5. Shown'
  BY <1>3, <1>4, ShownFrame
<1> QED
  BY <1>1, <1>5

LEMMA JoinerDials ==
    ASSUME IInv, FInv, IInv', NEW p \in Joiners, NEW n, NEW s, Dials(p, n, s)
    PROVE  FInv'
<1>1. p \in Players /\ p # Host /\ Host \in Players
  BY PlayersAssumption DEF Players
<1>2. Seated' /\ Fresh' /\ Hellos' /\ FloorsGoOut'
  BY <1>1, DialsUnsaid, UnsaidFrame
<1>3. Shown'
  BY <1>1, DialsShown
<1>4. relay' = relay /\ cut' = cut /\ client'[Host] = client[Host] /\ n \in Conns
      /\ owner'[n] = p /\ \A d \in Conns \ {n} : owner'[d] = owner[d]
  BY <1>1 DEF Dials
<1>5. owner[n] # Host
  BY <1>1, UnusedIs DEF Dials
<1>6. HostSocks' = HostSocks /\ Room(relay, relay')
  BY <1>1, <1>4, <1>5 DEF HostSocks, Room
<1>7. ASSUME NEW d \in HostSocks
      PROVE  sock'[d] = sock[d] /\ up'[d] = up[d] /\ down'[d] = down[d]
  <2>1. d \in Conns /\ d # client[p].conn /\ d # n
    BY <1>1, <1>5, OwnSockets, ConnFacts DEF HostSocks
  <2> QED
    BY <2>1 DEF Dials
<1>8. client[Host].conn = NoConn \/ client[Host].conn \in HostSocks
  BY <1>1, OwnSockets DEF HostSocks
<1>9. NoConn \notin relay'.live
  BY <1>1, <1>4, OwnSockets
<1>10. HostSession' /\ Lobby' /\ Back' /\ Sent'
  BY <1>4, <1>6, <1>7, <1>8, <1>9, HostAlone
<1> QED
  BY <1>2, <1>3, <1>10 DEF FInv

LEMMA HostDials ==
    ASSUME IInv, FInv, IInv', NEW n, NEW s, Dials(Host, n, s), Sound(s),
           s.started => client[Host].started, ~s.ready => MayReady, s.active => s.reconnecting
    PROVE  FInv'
<1>1. Host \in Players
  BY DEF Players
<1>2. Seated' /\ Fresh' /\ Hellos' /\ FloorsGoOut'
  BY <1>1, DialsUnsaid, UnsaidFrame
<1>3. Shown' /\ ~Link(Host)'
  BY <1>1, DialsShown
<1>4. relay' = relay /\ client'[Host] = s /\ n \in Conns /\ s.conn = n
      /\ owner'[n] = Host /\ \A d \in Conns \ {n} : owner'[d] = owner[d]
  BY DEF Dials
<1>5. HostSocks' = HostSocks \cup {n} /\ HostSocks \subseteq Conns
  BY <1>4 DEF HostSocks
<1>6. n # NoConn
  BY <1>4, ConnFacts
<1>7. HostSession'
  BY <1>4, <1>6 DEF HostSession, Sound
<1>8. up'[n] = <<>> /\ down'[n] = <<>>
  BY UnusedIs DEF Dials
<1>9. ReadyOnce' /\ (Waiting' => Waiting)
  <2>1. ASSUME NEW d \in HostSocks', up'[d] # <<>>
        PROVE  d \in HostSocks /\ Thin(up'[d], up[d], "ready")
    <3>1. d \in HostSocks /\ d \in Conns
      BY <1>5, <1>8, <2>1
    <3>2. up'[d] = up[d] /\ up[d] \in Seq(UpMsgs)
      BY <2>1, <3>1 DEF Dials, IInv, TypeOK
    <3> QED
      BY <3>1, <3>2, ThinSame
  <2> QED
    BY <2>1, ThinReady
<1>10. Begun' => Begun
  <2>1. ASSUME NEW d \in HostSocks', Has(down'[d], "start") \/ Has(up'[d], "floor")
        PROVE  Begun
    <3>1. d # n
      BY <1>8, <2>1, NoMessage
    <3>2. d \in HostSocks /\ d \in Conns
      BY <1>5, <3>1
    <3>3. up'[d] \in {up[d], <<>>} /\ down'[d] \in {down[d], <<>>}
      BY <3>2 DEF Dials
    <3>4. Has(down[d], "start") \/ Has(up[d], "floor")
      BY <2>1, <3>3, NoMessage
    <3> QED
      BY <3>2, <3>4 DEF Begun
  <2>2. client'[Host].started => Begun
    BY <1>4 DEF Begun
  <2> QED
    BY <1>4, <2>1, <2>2 DEF Begun
<1>11. Lobby'
  <2>1. (HostReady' => HostReady) /\ relay'.started = relay.started
    BY <1>4 DEF HostReady
  <2>2. MayReady' => MayReady
    BY <1>4 DEF MayReady
  <2> QED
    BY <1>9, <1>10, <2>1, <2>2, LobbyFrame
<1>12. Back' /\ Sent'
  BY <1>3, <1>4 DEF Back, Sent
<1> QED
  BY <1>2, <1>3, <1>7, <1>11, <1>12 DEF FInv

\* The socket the client object of p dials.
LEMMA DialIs ==
    ASSUME IInv, NEW p \in Players, NEW s \in Clients, Dial(p, s)
    PROVE  \E t : /\ Dials(p, NextConn, t)
                  /\ t.phase = s.phase /\ t.started = s.started /\ t.ready = s.ready
                  /\ t.active = s.active /\ t.reconnecting = s.reconnecting
<1> DEFINE n == NextConn
           t == [s EXCEPT !.conn = n]
<1>1. n \in Conns /\ sock[n] = "unused"
  BY NextConnFacts DEF Dial
<1>2. /\ sock' = [sock EXCEPT ![n] = "dialing"] /\ owner' = [owner EXCEPT ![n] = p]
      /\ client' = [client EXCEPT ![p] = t] /\ UNCHANGED <<relay, up, down, cut>>
  BY DEF Dial
<1>3. t.conn = n /\ t.phase = s.phase /\ t.started = s.started /\ t.ready = s.ready
      /\ t.active = s.active /\ t.reconnecting = s.reconnecting
  BY DEF Clients
<1> HIDE DEF n, t
<1>4. Dials(p, n, t)
  BY <1>1, <1>2, <1>3 DEF Dials, IInv, TypeOK
<1> QED
  BY <1>3, <1>4 DEF n

LEMMA OpenSessionFloor ==
    ASSUME IInv, FInv, IInv', NEW p \in Players, OpenSession(p)
    PROVE  FInv'
<1> DEFINE s == [Offline EXCEPT !.phase = "setup"]
<1>1. s \in Clients /\ s.phase = "setup" /\ ~s.started /\ ~s.ready /\ ~s.active
  BY DEF Offline, Clients, Ends, People, Nobody
<1>2. Dial(p, s)
  BY DEF OpenSession
<1> HIDE DEF s
<1>3. PICK t : /\ Dials(p, NextConn, t)
               /\ t.phase = s.phase /\ t.started = s.started /\ t.ready = s.ready
               /\ t.active = s.active /\ t.reconnecting = s.reconnecting
  BY <1>1, <1>2, DialIs
<1>4. CASE p \in Joiners
  BY <1>3, <1>4, JoinerDials
<1>5. CASE p = Host
  <2>1. client[Host].phase = "off" /\ NoneClosed
    BY <1>5 DEF OpenSession, NoneClosed, HostSocks
  <2>2. MayReady
    BY <2>1 DEF MayReady, FInv, HostSession
  <2>3. Sound(t)
    BY <1>1, <1>3 DEF Sound
  <2> QED
    BY <1>1, <1>3, <1>5, <2>2, <2>3, HostDials
<1> QED
  BY <1>4, <1>5 DEF Players

LEMMA DriveReconnectFloor ==
    ASSUME IInv, FInv, IInv', NEW p \in Players, DriveReconnect(p)
    PROVE  FInv'
<1> DEFINE s == client[p]
<1>1. s \in Clients /\ s.reconnecting /\ Dial(p, s)
  BY OwnSockets DEF DriveReconnect
<1>2. PICK t : /\ Dials(p, NextConn, t)
               /\ t.phase = s.phase /\ t.started = s.started /\ t.ready = s.ready
               /\ t.active = s.active /\ t.reconnecting = s.reconnecting
  BY <1>1, DialIs
<1>3. CASE p \in Joiners
  BY <1>2, <1>3, JoinerDials
<1>4. CASE p = Host
  <2>1. s.phase # "off" /\ (s.phase = "setup" => ~s.started) /\ (s.active => s.started)
    BY <1>1, <1>4 DEF FInv, HostSession
  <2>2. ~t.ready => MayReady
    BY <1>2, <1>4, <2>1 DEF MayReady
  <2>3. Sound(t)
    BY <1>2, <2>1 DEF Sound
  <2> QED
    BY <1>1, <1>2, <1>4, <2>2, <2>3, HostDials
<1> QED
  BY <1>3, <1>4 DEF Players

LEMMA OpenAgainFloor ==
    ASSUME IInv, FInv, IInv', OpenAgain
    PROVE  FInv'
<1> DEFINE n == NextConn
           c == client[Host].conn
           now == client[Host]
           t == [client[Host] EXCEPT !.conn = n]
<1>1. Host \in Players /\ now \in Clients
  BY OwnSockets DEF Players
<1>2. n \in Conns /\ sock[n] = "unused" /\ now.phase = "setup" /\ c # NoConn
  BY NextConnFacts DEF OpenAgain
<1>3. /\ sock' = [Closed(c) EXCEPT ![n] = "dialing"]
      /\ up' = IF sock[c] = "dialing" THEN [up EXCEPT ![c] = <<>>] ELSE up
      /\ down' = Emptied(c)
      /\ owner' = [owner EXCEPT ![n] = Host]
      /\ client' = [client EXCEPT ![Host] = t]
      /\ UNCHANGED <<relay, cut>>
  BY DEF OpenAgain
<1>4. t.conn = n /\ t.phase = now.phase /\ t.started = now.started /\ t.ready = now.ready
      /\ t.active = now.active /\ t.reconnecting = now.reconnecting
  BY <1>1 DEF Clients
<1> HIDE DEF n, t
<1>5. /\ sock'[n] = "dialing"
      /\ \A d \in Conns \ {n} : sock'[d] = sock[d] \/ (sock'[d] = "closed" /\ d = c)
  BY <1>2, <1>3 DEF Closed
<1>6. \A d \in Conns : /\ up'[d] \in {up[d], <<>>} /\ down'[d] \in {down[d], <<>>}
                       /\ d # c => up'[d] = up[d] /\ down'[d] = down[d]
  BY <1>3 DEF Emptied, IInv, TypeOK
<1>7. /\ client'[Host] = t /\ \A q \in Players \ {Host} : client'[q] = client[q]
      /\ owner'[n] = Host /\ \A d \in Conns \ {n} : owner'[d] = owner[d]
  BY <1>1, <1>2, <1>3 DEF IInv, TypeOK
<1>8. Dials(Host, n, t)
  BY <1>2, <1>3, <1>4, <1>5, <1>6, <1>7 DEF Dials
<1>9. ~now.started /\ ~now.active
  BY <1>2 DEF FInv, HostSession
<1>10. Sound(t) /\ (~t.ready => MayReady)
  BY <1>2, <1>4, <1>9 DEF Sound, MayReady
<1> QED
  BY <1>4, <1>8, <1>9, <1>10, HostDials

-----------------------------------------------------------------------------
(* A socket comes up and says hello *)

Greets(p, c, msgs) ==
    /\ c = client[p].conn /\ c \in Conns /\ sock[c] = "dialing"
    /\ sock' = [sock EXCEPT ![c] = "open"] /\ relay' = Accept(relay, c)
    /\ up' = Written(c, msgs)
    /\ msgs \in Seq(UpMsgs) /\ Len(msgs) = 1 /\ \A k : Has(msgs, k) => k = "hello"
    /\ \A i \in DOMAIN msgs : msgs[i].role = RoleOf(msgs[i].who)
    /\ UNCHANGED <<down, owner, cut, client>>

LEMMA GreetsIs ==
    ASSUME IInv, FInv, NEW p \in Players, NEW c, NEW msgs, Greets(p, c, msgs)
    PROVE  /\ Room(relay, relay') /\ relay'.live = relay.live \cup {c}
           /\ sock'[c] = "open" /\ \A d \in Conns \ {c} : sock'[d] = sock[d] /\ up'[d] = up[d]
           /\ c \notin relay.live /\ down[c] = <<>> /\ ~Has(up[c], "hello")
           /\ relay.seat[c] = "none" /\ \A r \in DOMAIN relay.slots : relay.slots[r].conn # c
           /\ \A d \in Conns : \A t : Has(up'[d], t) => Has(up[d], t) \/ (d = c /\ t = "hello")
<1>1. relay \in Relays /\ c \in Conns /\ c \in Ends
  BY OwnSockets DEF IInv, TypeOK, Greets
<1>2. Room(relay, relay') /\ relay'.live = relay.live \cup {c}
  BY <1>1 DEF Greets, Accept, Relays, Room
<1>3. c \notin relay.live /\ down[c] = <<>> /\ ~Has(up[c], "hello")
  BY DEF Greets, FInv, Fresh
<1>4. relay.seat[c] = "none" /\ \A r \in DOMAIN relay.slots : relay.slots[r].conn # c
  <2>1. Roled(relay)
    BY DEF FInv, Seated
  <2> QED
    BY <1>1, <1>3, <2>1, SeatsNow
<1>5. sock'[c] = "open" /\ \A d \in Conns \ {c} : sock'[d] = sock[d]
  BY DEF Greets, IInv, TypeOK
<1>6. up' = Written(c, msgs) /\ msgs \in Seq(UpMsgs) /\ \A k : Has(msgs, k) => k = "hello"
  BY DEF Greets
<1>7. ASSUME NEW d \in Conns
      PROVE  /\ d # c => up'[d] = up[d]
             /\ \A t : Has(up'[d], t) => Has(up[d], t) \/ Has(msgs, t)
  BY <1>1, <1>6, WrittenIs
<1>8. ASSUME NEW d \in Conns, NEW t, Has(up'[d], t) PROVE Has(up[d], t) \/ (d = c /\ t = "hello")
  BY <1>6, <1>7, <1>8
<1> QED
  BY <1>2, <1>3, <1>4, <1>5, <1>7, <1>8

LEMMA GreetsSeated ==
    ASSUME IInv, FInv, NEW p \in Players, NEW c, NEW msgs, Greets(p, c, msgs)
    PROVE  Seated' /\ Fresh' /\ Hellos' /\ FloorsGoOut'
<1>1. /\ Room(relay, relay') /\ relay'.live = relay.live \cup {c}
      /\ sock'[c] = "open" /\ \A d \in Conns \ {c} : sock'[d] = sock[d] /\ up'[d] = up[d]
      /\ c \notin relay.live /\ down[c] = <<>> /\ ~Has(up[c], "hello")
      /\ relay.seat[c] = "none"
  BY GreetsIs
<1>2. /\ c \in Conns /\ down' = down /\ owner' = owner /\ up' = Written(c, msgs)
      /\ msgs \in Seq(UpMsgs) /\ Len(msgs) = 1
      /\ \A i \in DOMAIN msgs : msgs[i].role = RoleOf(msgs[i].who)
  BY DEF Greets
<1>3. Roled(relay') /\ Orderly(relay')
  BY <1>1 DEF FInv, Seated, Roled, Orderly, Room
<1>4. ASSUME NEW d \in Conns, NEW i \in DOMAIN up'[d], up'[d][i].t = "hello"
      PROVE  up'[d][i].role = RoleOf(up'[d][i].who)
  <2>1. TypeOK /\ c \in Ends
    BY <1>2 DEF IInv, Ends
  <2>2. \/ \E j \in DOMAIN up[d] : up'[d][i] = up[d][j]
        \/ d = c /\ \E j \in DOMAIN msgs : up'[d][i] = msgs[j]
    BY <1>2, <2>1, WrittenFacts
  <2>3. CASE \E j \in DOMAIN up[d] : up'[d][i] = up[d][j]
    BY <1>4, <2>3 DEF FInv, Seated
  <2>4. CASE \E j \in DOMAIN msgs : up'[d][i] = msgs[j]
    BY <1>2, <2>4
  <2> QED
    BY <2>2, <2>3, <2>4
<1>5. Fresh'
  BY <1>1, <1>2 DEF FInv, Fresh
<1>6. Hellos'
  <2>1. ASSUME NEW d \in Conns, d # c
        PROVE  /\ Once(up'[d], "hello")
               /\ relay'.seat[d] # "none" \/ Has(down'[d], "welcome") \/ Has(down'[d], "start")
                    => ~Has(up'[d], "hello")
    <3>1. up'[d] = up[d] /\ down'[d] = down[d] /\ relay'.seat[d] = relay.seat[d]
      BY <1>1, <1>2, <2>1 DEF Room
    <3> QED
      BY <3>1 DEF FInv, Hellos
  <2>2. Once(up'[c], "hello")
    BY <1>1, <1>2, WrittenOnce
  <2>3. ~(relay'.seat[c] # "none" \/ Has(down'[c], "welcome") \/ Has(down'[c], "start"))
    BY <1>1, <1>2, NoMessage DEF Room
  <2> QED
    BY <2>1, <2>2, <2>3 DEF Hellos
<1>7. FloorsGoOut'
  BY <1>2 DEF FInv, FloorsGoOut, HostSocks
<1> QED
  BY <1>3, <1>4, <1>5, <1>6, <1>7 DEF Seated

LEMMA GreetsShown ==
    ASSUME IInv, FInv, NEW p \in Players, NEW c, NEW msgs, Greets(p, c, msgs)
    PROVE  Shown' /\ ~Link(p)'
<1>1. /\ Room(relay, relay') /\ relay'.live = relay.live \cup {c}
      /\ \A d \in Conns \ {c} : sock'[d] = sock[d] /\ up'[d] = up[d]
      /\ \A r \in DOMAIN relay.slots : relay.slots[r].conn # c
  BY GreetsIs
<1>2. c = client[p].conn /\ down' = down /\ client' = client /\ cut' = cut /\ c \in Conns
  BY DEF Greets
<1>3. ~Link(p)'
  BY <1>1, <1>2 DEF Link, Room
<1>4. relay.floor \in Seq(FloorMsgs)
  BY RelayFields DEF IInv, TypeOK
<1>5. ASSUME NEW j \in Joiners, NEW n \in Nat, Link(j)'
      PROVE  /\ Link(j)
             /\ Caught(down[client[j].conn], n, client[j])
                  => Caught(down'[client'[j].conn], n, client'[j])
  <2>1. j \in Players /\ j # p
    BY <1>3, <1>5 DEF Players
  <2>2. client[j].conn # c
    BY <1>2, <2>1, OwnSockets, ConnFacts
  <2>3. client[j].conn \in relay.live /\ client[j].conn \in Conns
    BY <1>1, <1>2, <1>5, <2>1, <2>2, OwnSockets DEF Link
  <2>4. Link(j)
    BY <1>1, <1>2, <1>5, <2>2, <2>3 DEF Link, Room
  <2> QED
    BY <1>2, <2>4
<1>6. Shown'
  BY <1>1, <1>4, <1>5, ShownFrame
<1> QED
  BY <1>3, <1>6

LEMMA GreetsFloor ==
    ASSUME IInv, FInv, IInv', NEW p \in Players, NEW c, NEW msgs, Greets(p, c, msgs)
    PROVE  FInv'
<1>1. Seated' /\ Fresh' /\ Hellos' /\ FloorsGoOut'
  BY GreetsSeated
<1>2. Shown' /\ ~Link(p)'
  BY GreetsShown
<1>3. /\ Room(relay, relay') /\ relay'.live = relay.live \cup {c}
      /\ sock'[c] = "open" /\ \A d \in Conns \ {c} : sock'[d] = sock[d] /\ up'[d] = up[d]
      /\ \A d \in Conns : \A t : Has(up'[d], t) => Has(up[d], t) \/ (d = c /\ t = "hello")
  BY GreetsIs
<1>4. /\ c = client[p].conn /\ c \in Conns /\ sock[c] = "dialing"
      /\ down' = down /\ owner' = owner /\ client' = client /\ cut' = cut
  BY DEF Greets
<1>5. HostSocks' = HostSocks /\ HostSocks \subseteq Conns /\ Host \in Players
  BY <1>4 DEF HostSocks, Players
<1>6. CASE p # Host
  <2>1. owner[c] = p
    BY <1>4, OwnSockets, ConnFacts
  <2>2. \A d \in HostSocks : d # c
    BY <1>6, <2>1 DEF HostSocks
  <2>3. \A d \in HostSocks : /\ sock'[d] = sock[d] /\ up'[d] = up[d] /\ down'[d] = down[d]
                             /\ d \in relay'.live \ cut' => d \in relay.live \ cut
    BY <1>3, <1>4, <1>5, <2>2
  <2>4. client[Host].conn = NoConn \/ client[Host].conn \in HostSocks
    BY <1>5, OwnSockets DEF HostSocks
  <2>5. NoConn \notin relay'.live /\ client'[Host] = client[Host]
    BY <1>3, <1>4, <1>5, OwnSockets, ConnFacts
  <2>6. HostSession' /\ Lobby' /\ Back' /\ Sent'
    BY <1>3, <1>5, <2>3, <2>4, <2>5, HostAlone
  <2> QED
    BY <1>1, <1>2, <2>6 DEF FInv
<1>7. CASE p = Host
  <2>1. NoneClosed' <=> NoneClosed
    BY <1>3, <1>4, <1>5 DEF NoneClosed
  <2>2. HostSession'
    BY <1>4, <2>1 DEF FInv, HostSession
  <2>3. ReadyOnce' /\ (Waiting' => Waiting)
    <3>1. up' = Written(c, msgs) /\ msgs \in Seq(UpMsgs) /\ ~Has(msgs, "ready") /\ c \in Ends
      BY <1>4 DEF Greets, Ends
    <3>2. \A d \in Conns : \A t : ~Has(msgs, t) => Thin(up'[d], up[d], t)
      BY <3>1, WrittenIs
    <3> QED
      BY <1>5, <3>1, <3>2, ThinReady
  <2>4. Begun' => Begun
    BY <1>3, <1>4, <1>5 DEF Begun, Room
  <2>5. (HostReady' => HostReady) /\ relay'.started = relay.started
    BY <1>3 DEF HostReady, Room
  <2>6. MayReady' => MayReady
    BY <1>4, <2>1 DEF MayReady
  <2>7. Lobby'
    BY <2>3, <2>4, <2>5, <2>6, LobbyFrame
  <2>8. ~(client[Host].active /\ ~client[Host].reconnecting)
    BY <1>4, <1>7, ConnFacts DEF FInv, Back
  <2>9. Back' /\ Sent'
    BY <1>2, <1>4, <1>7, <2>8 DEF Back, Sent
  <2> QED
    BY <1>1, <1>2, <2>2, <2>7, <2>9 DEF FInv
<1> QED
  BY <1>6, <1>7

LEMMA ConnectionUpFloor ==
    ASSUME IInv, FInv, IInv', NEW p \in Players, ConnectionUp(p)
    PROVE  FInv'
<1> DEFINE c == client[p].conn
           m == [t |-> "hello", who |-> p, role |-> RoleOf(p), token |-> client[p].token]
           msgs == <<m>>
<1>1. /\ c \in Conns /\ sock[c] = "dialing" /\ sock' = [sock EXCEPT ![c] = "open"]
      /\ relay' = Accept(relay, c) /\ up' = Written(c, msgs)
      /\ UNCHANGED <<down, owner, cut, client>>
  BY OwnSockets DEF ConnectionUp
<1>2. m \in UpMsgs /\ m.t = "hello" /\ m.role = RoleOf(m.who)
  <2>1. client[p].token \in Nat
    BY OwnSockets DEF Clients
  <2> QED
    BY <2>1 DEF UpMsgs, RoleOf, Roles
<1> HIDE DEF m
<1>3. msgs \in Seq(UpMsgs) /\ Len(msgs) = 1 /\ \A i \in DOMAIN msgs : msgs[i] = m
  BY <1>2
<1>4. \A k : Has(msgs, k) => k = "hello"
  BY <1>2, <1>3 DEF Has
<1>5. \A i \in DOMAIN msgs : msgs[i].role = RoleOf(msgs[i].who)
  BY <1>2, <1>3
<1> HIDE DEF msgs
<1>6. Greets(p, c, msgs)
  BY <1>1, <1>3, <1>4, <1>5 DEF Greets
<1> QED
  BY <1>6, GreetsFloor

-----------------------------------------------------------------------------
(* Faults, and the whole *)

LEMMA CutFloor ==
    ASSUME IInv, FInv, IInv', NEW c \in Conns, Cut(c)
    PROVE  FInv'
<1>1. relay' = relay /\ sock' = sock /\ owner' = owner /\ client' = client
      /\ cut' = cut \cup {c} /\ Host \in Players
  BY DEF Cut, Players
<1>2. PICK a \in 0..Len(up[c]), b \in 0..Len(down[c]) :
         /\ up' = [up EXCEPT ![c] = SubSeq(@, 1, a)]
         /\ down' = [down EXCEPT ![c] = SubSeq(@, 1, b)]
  BY DEF Cut
<1>3. up[c] \in Seq(UpMsgs) /\ down[c] \in Seq(DownMsgs)
  BY DEF IInv, TypeOK
<1>4. \A t : Thin(SubSeq(up[c], 1, a), up[c], t) /\ Thin(SubSeq(down[c], 1, b), down[c], t)
  BY <1>3, ThinPrefix
<1>5. ASSUME NEW d \in Conns
      PROVE  /\ d # c => up'[d] = up[d] /\ down'[d] = down[d]
             /\ \A t : Thin(up'[d], up[d], t) /\ Thin(down'[d], down[d], t)
  <2>1. up \in [Conns -> Seq(UpMsgs)] /\ down \in [Conns -> Seq(DownMsgs)]
        /\ up[d] \in Seq(UpMsgs) /\ down[d] \in Seq(DownMsgs)
    BY DEF IInv, TypeOK
  <2>2. CASE d = c
    <3>1. up'[d] = SubSeq(up[c], 1, a) /\ down'[d] = SubSeq(down[c], 1, b)
      BY <1>2, <2>1, <2>2
    <3> QED
      BY <1>4, <2>2, <3>1
  <2>3. CASE d # c
    <3>1. up'[d] = up[d] /\ down'[d] = down[d]
      BY <1>2, <2>1, <2>3
    <3> QED
      BY <2>1, <3>1, ThinSame
  <2> QED
    BY <2>2, <2>3
<1>6. \A d \in Conns : \A t : /\ Has(up'[d], t) => Has(up[d], t)
                              /\ Has(down'[d], t) => Has(down[d], t)
  BY <1>5, ThinHas
<1>7. Unsaid
  <2>1. Roled(relay) /\ Orderly(relay)
    BY DEF FInv, Seated
  <2>2. \A d \in Conns : sock'[d] \in {"unused", "dialing"} => down'[d] \in {down[d], <<>>}
    BY <1>1, <1>5 DEF Cut
  <2> QED
    BY <1>1, <1>5, <1>6, <2>1, <2>2 DEF Unsaid
<1>8. Seated' /\ Fresh' /\ Hellos' /\ FloorsGoOut'
  BY <1>7, UnsaidFrame
<1>9. HostSocks' = HostSocks /\ HostSocks \subseteq Conns /\ (NoneClosed' <=> NoneClosed)
  BY <1>1 DEF HostSocks, NoneClosed
<1>10. HostSession'
  BY <1>1, <1>9 DEF FInv, HostSession
<1>11. Lobby'
  <2>1. ReadyOnce' /\ (Waiting' => Waiting)
    BY <1>5, <1>9, ThinReady
  <2>2. Begun' => Begun
    BY <1>1, <1>6, <1>9 DEF Begun
  <2>3. (HostReady' => HostReady) /\ relay'.started = relay.started
    BY <1>1 DEF HostReady
  <2>4. MayReady' => MayReady
    BY <1>1, <1>9 DEF MayReady
  <2> QED
    BY <2>1, <2>2, <2>3, <2>4, LobbyFrame
<1>12. ASSUME NEW p \in Players, Link(p)'
       PROVE  /\ Link(p) /\ client[p].conn \in Conns
              /\ up'[client[p].conn] = up[client[p].conn]
              /\ down'[client[p].conn] = down[client[p].conn]
  <2>1. Link(p) /\ client[p].conn \in relay.live /\ client[p].conn # c
    BY <1>1, <1>12 DEF Link
  <2>2. client[p].conn \in Conns
    BY <2>1, OwnSockets
  <2> QED
    BY <1>5, <2>1, <2>2
<1>13. Back' /\ Sent'
  <2> DEFINE s == client[Host]
  <2>1. ASSUME Link(Host)', s.reconnecting PROVE Has(down'[s.conn], "welcome")
    BY <1>1, <1>12, <2>1 DEF FInv, Back
  <2>2. ASSUME s.active, ~s.reconnecting, s.conn # NoConn
        PROVE  sock'[s.conn] = "open" /\ ~Has(up'[s.conn], "hello")
    <3>1. s.conn \in Conns
      BY <1>1, <2>2, OwnSockets
    <3> QED
      BY <1>1, <1>6, <2>2, <3>1 DEF FInv, Back
  <2>3. ASSUME relay.started, Link(Host)', s.active, ~s.reconnecting
        PROVE  /\ LastFloor(up'[s.conn], s.rev)
               /\ ~Has(up'[s.conn], "floor") => relay.floor # <<>> /\ relay.floor[1].rev = s.rev
    <3>1. Link(Host) /\ up'[s.conn] = up[s.conn]
      BY <1>1, <1>12, <2>3
    <3> QED
      BY <2>3, <3>1 DEF FInv, Sent
  <2> QED
    BY <1>1, <2>1, <2>2, <2>3 DEF Back, Sent
<1>14. Shown'
  <2>1. relay.floor \in Seq(FloorMsgs) /\ Room(relay, relay')
    BY <1>1, RelayFields DEF IInv, TypeOK, Room
  <2>2. ASSUME NEW j \in Joiners, NEW n \in Nat, Link(j)'
        PROVE  /\ Link(j)
               /\ Caught(down[client[j].conn], n, client[j])
                    => Caught(down'[client'[j].conn], n, client'[j])
    BY <1>1, <1>12, <2>2 DEF Players
  <2> QED
    BY <2>1, <2>2, ShownFrame
<1> QED
  BY <1>8, <1>10, <1>11, <1>13, <1>14 DEF FInv

LEMMA RestartFloor ==
    ASSUME IInv, FInv, IInv', Restart
    PROVE  FInv'
<1>1. /\ sock' = sock /\ owner' = owner /\ client' = client /\ down' = down
      /\ \A c \in Conns : up'[c] = <<>>
  BY DEF Restart
<1>2. /\ relay'.live = {} /\ relay'.slots = <<>> /\ relay'.floor = <<>> /\ ~relay'.started
      /\ \A c \in Conns : relay'.seat[c] = "none"
  BY DEF Restart, InitRelay
<1>3. DOMAIN relay'.slots = {} /\ Len(relay'.floor) <= 1
  <2>1. DOMAIN <<>> = {} /\ Len(<<>>) <= 1
    OBVIOUS
  <2> QED
    BY <1>2, <2>1
<1>4. \A c \in Conns : \A t : Thin(up'[c], up[c], t) /\ ~Has(up'[c], t)
  BY <1>1, ThinSame, NoMessage DEF IInv, TypeOK
<1>5. Roled(relay') /\ Orderly(relay')
  BY <1>2, <1>3 DEF Roled, Orderly
<1>6. Unsaid
  BY <1>1, <1>2, <1>4, <1>5 DEF Unsaid
<1>7. Seated' /\ Fresh' /\ Hellos' /\ FloorsGoOut'
  BY <1>6, UnsaidFrame
<1>8. HostSocks' = HostSocks /\ HostSocks \subseteq Conns /\ (NoneClosed' <=> NoneClosed)
  BY <1>1 DEF HostSocks, NoneClosed
<1>9. HostSession'
  BY <1>1, <1>8 DEF FInv, HostSession
<1>10. ~HostReady'
  BY <1>3 DEF HostReady
<1>11. Lobby'
  <2>1. ReadyOnce' /\ (Waiting' => Waiting)
    BY <1>4, <1>8, ThinReady
  <2>2. Begun' => Begun
    BY <1>1, <1>2, <1>4, <1>8 DEF Begun
  <2>3. MayReady' => MayReady
    BY <1>1, <1>8 DEF MayReady
  <2> QED
    BY <1>10, <2>1, <2>2, <2>3, LobbyFrame
<1>12. \A p : ~Link(p)'
  BY <1>2 DEF Link
<1>13. Back'
  <2> DEFINE s == client[Host]
  <2>1. ASSUME s.active, ~s.reconnecting, s.conn # NoConn
        PROVE  sock'[s.conn] = "open" /\ ~Has(up'[s.conn], "hello")
    <3>1. s.conn \in Conns
      BY <2>1, OwnSockets DEF Players
    <3> QED
      BY <1>1, <1>4, <2>1, <3>1 DEF FInv, Back
  <2> QED
    BY <1>1, <1>12, <2>1 DEF Back
<1>14. Sent' /\ Shown'
  BY <1>12 DEF Sent, Shown
<1> QED
  BY <1>7, <1>9, <1>11, <1>13, <1>14 DEF FInv

LEMMA InitFInv == Init => FInv
<1> SUFFICES ASSUME Init PROVE FInv
  OBVIOUS
<1>1. /\ relay.live = {} /\ relay.slots = <<>> /\ relay.floor = <<>> /\ ~relay.started
      /\ \A c \in Conns : relay.seat[c] = "none"
      /\ \A c \in Conns : /\ up[c] = <<>> /\ down[c] = <<>> /\ sock[c] = "unused"
                          /\ owner[c] = "nobody"
      /\ client[Host] = Offline
  BY DEF Init, InitRelay, Players
<1>2. DOMAIN <<>> = {} /\ Len(<<>>) <= 1
  OBVIOUS
<1>3. \A c \in Conns : \A t : ~Has(up[c], t) /\ ~Has(down[c], t)
  BY <1>1, NoMessage
<1>4. HostSocks = {}
  BY <1>1, PlayersAssumption DEF HostSocks
<1>5. Seated
  BY <1>1, <1>2 DEF Seated, Roled, Orderly
<1>6. Fresh /\ Hellos /\ FloorsGoOut
  <2>1. \A c \in Conns : Once(up[c], "hello")
    BY <1>1, <1>2 DEF Once
  <2> QED
    BY <1>1, <1>3, <1>4, <2>1 DEF Fresh, Hellos, FloorsGoOut
<1>7. HostSession
  BY <1>1 DEF HostSession, Offline
<1>8. \A p : ~Link(p)
  BY <1>1 DEF Link
<1>9. Lobby
  <2>1. ~Waiting /\ ReadyOnce
    BY <1>4 DEF Waiting, ReadyOnce
  <2>2. ~Begun /\ ~HostReady
    BY <1>1, <1>2, <1>4 DEF Begun, HostReady, Offline
  <2> QED
    BY <2>1, <2>2 DEF Lobby
<1>10. Back /\ Sent /\ Shown
  BY <1>1, <1>8 DEF Back, Sent, Shown, Offline
<1> QED
  BY <1>5, <1>6, <1>7, <1>9, <1>10 DEF FInv

LEMMA NextFInv == IInv /\ FInv /\ [Next]_vars => FInv'
<1> SUFFICES ASSUME IInv, FInv, [Next]_vars PROVE FInv'
  OBVIOUS
<1>1. IInv'
  BY NextIInv
<1>2. ASSUME NEW c \in Conns, RelayReads(c) \/ RelaySeesEnd(c) \/ NoHello(c) \/ Cut(c)
      PROVE  FInv'
  BY <1>1, <1>2, RelayReadsFloor, RelaySeesEndFloor, TimersFloor, CutFloor
<1>3. CASE (\E r \in Roles : GraceEnds(r)) \/ Idle \/ Restart
  BY <1>1, <1>3, TimersFloor, RestartFloor
<1>4. ASSUME NEW p \in Players, Loop(p) PROVE FInv'
  BY <1>1, <1>4, ConnectionUpFloor, ConnectionLostFloor, DriveReconnectFloor, EndsFloor,
     ClientReadsFloor DEF Loop, DeadlinePasses
<1>5. ASSUME NEW p \in Players, ConnectionFailed(p) \/ User(p) PROVE FInv'
  BY <1>1, <1>5, ConnectionFailedFloor, OpenSessionFloor, ReadyUpFloor, EndsFloor
     DEF User, Leave, BackOut
<1>6. CASE HostActs
  BY <1>1, <1>6, OpenAgainFloor, HostActsFloor DEF HostActs
<1>7. CASE UNCHANGED vars
  <2>1. /\ relay' = relay /\ up' = up /\ down' = down /\ sock' = sock /\ owner' = owner
        /\ cut' = cut /\ client' = client
    BY <1>7 DEF vars
  <2>2. Seated' /\ Fresh' /\ Hellos' /\ FloorsGoOut'
    BY <2>1 DEF FInv, Seated, Fresh, Hellos, FloorsGoOut, HostSocks
  <2>3. HostSession' /\ Back' /\ Sent' /\ Shown'
    BY <2>1 DEF FInv, HostSession, NoneClosed, HostSocks, Back, Sent, Shown, Link
  <2>4. Lobby'
    BY <2>1 DEF FInv, Lobby, ReadyOnce, Waiting, Begun, HostReady, MayReady, NoneClosed, HostSocks
  <2> QED
    BY <2>2, <2>3, <2>4 DEF FInv
<1> QED
  BY <1>2, <1>3, <1>4, <1>5, <1>6, <1>7 DEF Next, Work

LEMMA AgreedNow ==
    ASSUME IInv, FInv
    PROVE  FloorAgreed
<1> SUFFICES ASSUME NEW j \in Joiners, relay.started, Settled(Host), Settled(j),
                    client[Host].active
             PROVE  ~client[j].awaiting /\ client[j].rev = client[Host].rev
  BY DEF FloorAgreed
<1>1. Link(Host) /\ Link(j)
  BY DEF Settled, Link
<1>2. up[client[Host].conn] = <<>> /\ down[client[Host].conn] = <<>> /\ down[client[j].conn] = <<>>
  BY DEF Settled
<1>3. ~client[Host].reconnecting
  BY <1>1, <1>2, NoMessage DEF FInv, Back
<1>4. relay.floor # <<>> /\ relay.floor[1].rev = client[Host].rev
  BY <1>1, <1>2, <1>3, NoMessage DEF FInv, Sent
<1>5. Caught(down[client[j].conn], relay.floor[1].rev, client[j])
  BY <1>1, <1>4 DEF FInv, Shown
<1>6. client[j].rev = relay.floor[1].rev /\ ~client[j].awaiting
  BY <1>2, <1>5, NoMessage DEF Caught
<1> QED
  BY <1>4, <1>6

\* When nothing is under way in a run, the joiner shows the floor the host plays
\* and waits for nothing: after any cut, crash of the relay and reconnection of
\* either side, the floor the host sends on Start, on the stairs and on the
\* partner's return (mp_send_floor), the one the relay retains and replays
\* (RoomHub._try_reconnect) and the joiner's awaiting_floor agree again.
THEOREM FloorAgreedHolds == Spec => []FloorAgreed
<1>1. Init => IInv /\ FInv
  BY InitIInv, InitFInv
<1>2. IInv /\ FInv /\ [Next]_vars => (IInv /\ FInv)'
  BY NextIInv, NextFInv
<1>3. IInv /\ FInv => FloorAgreed
  BY AgreedNow
<1> QED
  BY <1>1, <1>2, <1>3, PTL DEF Spec

=============================================================================
