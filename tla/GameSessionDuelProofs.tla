------------------------- MODULE GameSessionDuelProofs -------------------------
(***************************************************************************)
(* Two players who stay play one game: one turn, one board, one winner,    *)
(* for any size of the armies and any number of turns.  The invariant      *)
(* follows the packets that one client has on their way to the other       *)
(* through its queue, the server and the queue of the other client.        *)
(***************************************************************************)
EXTENDS GameSessionDuel, GameSessionProofs, FiniteSetTheorems

Clients == {0, 1}
Mate(c) == 1 - c

LEMMA ClientFacts ==
    ASSUME TwoPlayers
    PROVE  /\ Clients \subseteq Uids
           /\ \A c \in Clients : /\ Mate(c) \in Clients /\ Mate(c) # c /\ Mate(Mate(c)) = c
                                 /\ c + 1 \in Teams /\ Other(c + 1) = Mate(c) + 1
                                 /\ \A d \in Clients : d = c \/ d = Mate(c)
  BY SessionAssumption DEF TwoPlayers, Clients, Mate, Uids, Teams, Other

--------------------------------------------------------------------------------
(* The unit packets on their way to d, in the order in which d applies them.  *)

UnitOf == [p \in Packets |-> IF p.type = "unit" THEN <<p.msg>> ELSE <<>>]

UnitFrom(c) == [e \in ClientEvents |-> IF e.type = "receive" /\ e.client = c
                                       THEN UnitOf[e.msg] ELSE <<>>]

CameOf == [e \in ClientEvents |-> IF e.type = "connect" THEN <<e.client>> ELSE <<>>]

Join(q, x, y, z) == ((q \o x) \o y) \o z

Flow(d) == Join(comp[d].unit_update_queue, Extract(UnitOf, inbox[d]),
                Extract(UnitFrom(Mate(d)), events), Extract(UnitOf, outbox[Mate(d)]))

LEMMA UnitOfType ==
    /\ Maps(UnitOf, Packets, UnitMsgs)
    /\ \A p \in Packets : UnitOf[p] = IF p.type = "unit" THEN <<p.msg>> ELSE <<>>
<1>1. \A p \in Packets : p.type = "unit" => p.msg \in UnitMsgs
  BY DEF Packets, FromClients, ToClients, Forwardable
<1>2. \A p \in Packets : (IF p.type = "unit" THEN <<p.msg>> ELSE <<>>) \in Seq(UnitMsgs)
  <2> TAKE p \in Packets
  <2>1. <<>> \in Seq(UnitMsgs)
    OBVIOUS
  <2>2. \A m \in UnitMsgs : <<m>> \in Seq(UnitMsgs)
    OBVIOUS
  <2> QED
    BY <1>1, <2>1, <2>2
<1> QED
  BY <1>2 DEF UnitOf, Maps

LEMMA UnitFromType ==
    ASSUME NEW c
    PROVE  /\ Maps(UnitFrom(c), ClientEvents, UnitMsgs)
           /\ \A e \in ClientEvents :
                 UnitFrom(c)[e] = IF e.type = "receive" /\ e.client = c
                                  THEN UnitOf[e.msg] ELSE <<>>
<1>1. \A e \in ClientEvents : e.type = "receive" => e.msg \in Packets
  BY DEF ClientEvents, Packets
<1>2. \A e \in ClientEvents : (IF e.type = "receive" /\ e.client = c
                               THEN UnitOf[e.msg] ELSE <<>>) \in Seq(UnitMsgs)
  <2> TAKE e \in ClientEvents
  <2>1. <<>> \in Seq(UnitMsgs)
    OBVIOUS
  <2>2. \A p \in Packets : UnitOf[p] \in Seq(UnitMsgs)
    BY UnitOfType DEF Maps
  <2> QED
    BY <1>1, <2>1, <2>2
<1> QED
  BY <1>2 DEF UnitFrom, Maps

LEMMA CameOfType ==
    /\ Maps(CameOf, ClientEvents, Uids)
    /\ \A e \in ClientEvents : CameOf[e] = IF e.type = "connect" THEN <<e.client>> ELSE <<>>
<1>1. \A e \in ClientEvents : e.client \in Uids
  BY DEF ClientEvents
<1>2. \A e \in ClientEvents : (IF e.type = "connect" THEN <<e.client>> ELSE <<>>) \in Seq(Uids)
  <2> TAKE e \in ClientEvents
  <2>1. <<>> \in Seq(Uids)
    OBVIOUS
  <2>2. \A u \in Uids : <<u>> \in Seq(Uids)
    OBVIOUS
  <2> QED
    BY <1>1, <2>1, <2>2
<1> QED
  BY <1>2 DEF CameOf, Maps

LEMMA JoinTyped ==
    ASSUME NEW S, NEW q \in Seq(S), NEW x \in Seq(S), NEW y \in Seq(S), NEW z \in Seq(S)
    PROVE  Join(q, x, y, z) \in Seq(S)
<1>1. q \o x \in Seq(S)
  OBVIOUS
<1>2. (q \o x) \o y \in Seq(S)
  BY <1>1
<1> QED
  BY <1>2 DEF Join

Cat(a, b) == a \o b

LEMMA CatFacts ==
    ASSUME NEW S
    PROVE  \A a, b, c \in Seq(S) : /\ Cat(Cat(a, b), c) = Cat(a, Cat(b, c))
                                   /\ Cat(a, b) \in Seq(S) /\ Cat(<<>>, a) = a
<1> TAKE a, b, c \in Seq(S)
<1>1. (a \o b) \o c = a \o (b \o c)
  BY Associative
<1>2. a \o b \in Seq(S)
  OBVIOUS
<1>3. <<>> \o a = a
  BY ConcatEmptySeq
<1> QED
  BY <1>1, <1>2, <1>3 DEF Cat

(* What leaves one place enters the next. *)
LEMMA JoinShifts ==
    ASSUME NEW S, NEW q \in Seq(S), NEW x \in Seq(S), NEW y \in Seq(S), NEW z \in Seq(S),
           NEW u \in Seq(S)
    PROVE  /\ Join(q \o u, x, y, z) = Join(q, u \o x, y, z)
           /\ Join(q, x \o u, y, z) = Join(q, x, u \o y, z)
           /\ Join(q, x, y \o u, z) = Join(q, x, y, u \o z)
           /\ Join(q, x, y, z \o u) = Join(q, x, y, z) \o u
           /\ Join(q, x, y, z) = q \o Join(<<>>, x, y, z)
<1>1. \A a, b, c \in Seq(S) : /\ Cat(Cat(a, b), c) = Cat(a, Cat(b, c))
                              /\ Cat(a, b) \in Seq(S) /\ Cat(<<>>, a) = a
  BY CatFacts
<1>2. Cat(Cat(q, u), x) = Cat(q, Cat(u, x))
  BY <1>1
<1>3. Cat(Cat(q, Cat(x, u)), y) = Cat(Cat(q, x), Cat(u, y))
  BY <1>1
<1>4. Cat(Cat(Cat(q, x), Cat(y, u)), z) = Cat(Cat(Cat(q, x), y), Cat(u, z))
  BY <1>1
<1>5. Cat(Cat(Cat(q, x), y), Cat(z, u)) = Cat(Cat(Cat(Cat(q, x), y), z), u)
  <2>1. Cat(Cat(q, x), y) \in Seq(S)
    BY <1>1
  <2> QED
    BY <1>1, <2>1
<1>6. Cat(Cat(Cat(q, x), y), z) = Cat(q, Cat(Cat(Cat(<<>>, x), y), z))
  BY <1>1
<1> QED
  BY <1>2, <1>3, <1>4, <1>5, <1>6 DEF Join, Cat

LEMMA JoinEmpty ==
    ASSUME NEW S, NEW q \in Seq(S), NEW x \in Seq(S), NEW y \in Seq(S), NEW z \in Seq(S)
    PROVE  Join(q, x, y, z) = <<>> <=> q = <<>> /\ x = <<>> /\ y = <<>> /\ z = <<>>
<1>1. \A a, b \in Seq(S) : a \o b \in Seq(S) /\ (a \o b = <<>> <=> a = <<>> /\ b = <<>>)
  <2> TAKE a, b \in Seq(S)
  <2>1. a \o b \in Seq(S) /\ Len(a \o b) = Len(a) + Len(b)
    OBVIOUS
  <2>2. \A s \in Seq(S) : Len(s) \in Nat /\ (s = <<>> <=> Len(s) = 0)
    OBVIOUS
  <2>3. (a \o b = <<>> <=> Len(a \o b) = 0) /\ (a = <<>> <=> Len(a) = 0)
        /\ (b = <<>> <=> Len(b) = 0) /\ Len(a) \in Nat /\ Len(b) \in Nat
    BY <2>1, <2>2
  <2> QED
    BY <2>1, <2>3
<1>2. q \o x \in Seq(S) /\ (q \o x) \o y \in Seq(S)
  BY <1>1
<1> QED
  BY <1>1, <1>2 DEF Join

(* The four parts of a flow. *)
LEMMA FlowParts ==
    ASSUME TwoPlayers, Typed, NEW d \in Clients
    PROVE  /\ comp[d].unit_update_queue \in Seq(UnitMsgs)
           /\ Extract(UnitOf, inbox[d]) \in Seq(UnitMsgs)
           /\ Extract(UnitFrom(Mate(d)), events) \in Seq(UnitMsgs)
           /\ Extract(UnitOf, outbox[Mate(d)]) \in Seq(UnitMsgs)
           /\ inbox[d] \in Seq(Packets) /\ outbox[Mate(d)] \in Seq(Packets)
           /\ events \in Seq(ClientEvents)
           /\ Flow(d) \in Seq(UnitMsgs)
<1>1. d \in Uids /\ Mate(d) \in Uids
  BY ClientFacts
<1>2. /\ comp[d].unit_update_queue \in Seq(UnitMsgs)
      /\ inbox[d] \in Seq(ToClients) /\ outbox[Mate(d)] \in Seq(FromClients)
      /\ events \in Seq(ClientEvents)
  BY <1>1 DEF Typed, TransportTyped, ClientsTyped, Components
<1>3. inbox[d] \in Seq(Packets) /\ outbox[Mate(d)] \in Seq(Packets)
  <2>1. \A A, B : \A s \in Seq(A) : A \subseteq B => s \in Seq(B)
    OBVIOUS
  <2>2. FromClients \subseteq Packets /\ ToClients \subseteq Packets
    BY DEF Packets
  <2> QED
    BY <1>2, <2>1, <2>2
<1>4. Extract(UnitOf, inbox[d]) \in Seq(UnitMsgs)
  BY <1>3, UnitOfType, ExtractType
<1>5. Extract(UnitOf, outbox[Mate(d)]) \in Seq(UnitMsgs)
  BY <1>3, UnitOfType, ExtractType
<1>6. Extract(UnitFrom(Mate(d)), events) \in Seq(UnitMsgs)
  BY <1>2, UnitFromType, ExtractType
<1>7. Flow(d) \in Seq(UnitMsgs)
  BY <1>2, <1>4, <1>5, <1>6, JoinTyped DEF Flow
<1> QED
  BY <1>2, <1>3, <1>4, <1>5, <1>6, <1>7

--------------------------------------------------------------------------------
(* As long as nobody leaves: two clients at most, known to the server in the  *)
(* order in which they came, and a game as soon as there are two.             *)

Gathered ==
    /\ breaking = {} /\ nextUid \in 0 .. 2 /\ live = 0 .. nextUid - 1
    /\ connected \o Extract(CameOf, events) = [i \in 1 .. nextUid |-> i - 1]
    /\ gameActive <=> Len(connected) = 2
    /\ \A i \in 1 .. Len(events) :
          /\ events[i].type # "disconnect"
          /\ events[i].type = "receive" => Len(connected) = 2 /\ events[i].msg.type = "unit"

(* No client is replaced: the packets are those of a game and of its start.   *)
(* A client takes the side of its id, or side 2 (AssignTeamLate).             *)
Welcome(n, c, p) == \/ p.type = "init" /\ p.msg = c
                    \/ p.type = "start" /\ n = 2
                    \/ p.type = "unit"

Plain(c) ==
    /\ \A i \in 1 .. Len(inbox[c]) : Welcome(Len(connected), c, inbox[c][i])
    /\ \A i \in 1 .. Len(outbox[c]) : outbox[c][i].type = "unit"
    /\ outbox[c] # <<>> \/ ~comp[c].is_lobby => Len(connected) = 2
    /\ comp[c].user_ID \in {-1, c}
    /\ ~comp[c].is_reconnecting /\ ~comp[c].update_complete
    /\ main[c] \in {"top", "began"}
    /\ scene[c].assigned_team \in {0, c + 1, 2}
    /\ c \notin live => scene[c] = FreshScene

Meeting == Gathered /\ \A c \in Clients : Plain(c)

(* The turn: one client has it and nothing is on its way, or a client has     *)
(* ended its turn and the packets of that turn are on their way to the other, *)
(* the one that ends the turn last.  The first client has the turn before it  *)
(* has a side, and nobody moves it before that side is 1.                     *)

EndsLast(f) == f # <<>> /\ \A i \in 1 .. Len(f) : f[i].name = "endturn" <=> i = Len(f)

Sided(a) == scene[0].assigned_team = 1 /\ scene[a].assigned_team = a + 1

HasTurn(a) ==
    /\ scene[a].player_turn = a + 1 /\ scene[Mate(a)].player_turn = a + 1
    /\ Flow(a) = <<>> /\ Flow(Mate(a)) = <<>>
    /\ Sided(a) \/ a = 0

PassesTurn(a) ==
    /\ scene[a].player_turn = Mate(a) + 1 /\ scene[Mate(a)].player_turn = a + 1
    /\ Flow(a) = <<>> /\ EndsLast(Flow(Mate(a)))
    /\ Sided(a)
    /\ Clients \subseteq live

Turned == \E a \in Clients : HasTurn(a) \/ PassesTurn(a)

(* Nobody has left. *)
Counted == leaves \in Nat /\ turns \in Nat

(* The handlers meet the clients in the order of their ids. *)
LEMMA ArrivalOrder ==
    ASSUME TwoPlayers, Typed, Gathered
    PROVE  /\ Len(connected) \in Nat /\ Len(connected) <= nextUid
           /\ \A i \in 1 .. Len(connected) : connected[i] = i - 1
           /\ Extract(CameOf, events) \in Seq(Uids)
           /\ NextEventIs("connect") =>
                 Head(events).client = Len(connected) /\ Len(connected) < nextUid
<1> DEFINE n == Len(connected)
           x == Extract(CameOf, events)
           w == connected \o x
<1>1. connected \in Seq(Uids) /\ events \in Seq(ClientEvents) /\ nextUid \in Nat
  BY DEF Typed, TransportTyped, Gathered
<1>2. x \in Seq(Uids)
  BY <1>1, CameOfType, ExtractType
<1>3. w = [i \in 1 .. nextUid |-> i - 1]
  BY DEF Gathered
<1>4. NextEventIs("connect") => x = <<Head(events).client>> \o Extract(CameOf, Tail(events))
  <2> SUFFICES ASSUME NextEventIs("connect")
               PROVE  x = <<Head(events).client>> \o Extract(CameOf, Tail(events))
    OBVIOUS
  <2>1. events # <<>> /\ Head(events) \in ClientEvents /\ Head(events).type = "connect"
    BY <1>1 DEF NextEventIs
  <2>2. Extract(CameOf, events) = CameOf[Head(events)] \o Extract(CameOf, Tail(events))
    BY <1>1, <2>1, CameOfType, ExtractCons
  <2>3. CameOf[Head(events)] = <<Head(events).client>>
    BY <2>1, CameOfType
  <2> QED
    BY <2>2, <2>3
<1>5. NextEventIs("connect") => Len(x) >= 1 /\ x[1] = Head(events).client
  <2> SUFFICES ASSUME NextEventIs("connect") PROVE Len(x) >= 1 /\ x[1] = Head(events).client
    OBVIOUS
  <2> DEFINE c == Head(events).client
             y == Extract(CameOf, Tail(events))
  <2>1. Tail(events) \in Seq(ClientEvents) /\ c \in Uids
    <3>1. Head(events) \in ClientEvents /\ Tail(events) \in Seq(ClientEvents)
      BY <1>1 DEF NextEventIs
    <3> QED
      BY <3>1 DEF ClientEvents
  <2>2. y \in Seq(Uids)
    BY <2>1, CameOfType, ExtractType
  <2> HIDE DEF c, y
  <2>3. Len(<<c>> \o y) >= 1 /\ (<<c>> \o y)[1] = c
    BY <2>1, <2>2
  <2> QED
    BY <1>4, <2>3 DEF c, y
<1> HIDE DEF x, n
<1>6. /\ Len(w) = Len(connected) + Len(x) /\ Len(connected) \in Nat /\ Len(x) \in Nat
      /\ \A i \in 1 .. Len(connected) : w[i] = connected[i]
      /\ Len(x) >= 1 => w[Len(connected) + 1] = x[1]
  <2>1. /\ Len(w) = Len(connected) + Len(x) /\ Len(connected) \in Nat /\ Len(x) \in Nat
        /\ \A i \in 1 .. Len(connected) + Len(x) :
              w[i] = IF i <= Len(connected) THEN connected[i] ELSE x[i - Len(connected)]
    BY <1>1, <1>2, ConcatProperties
  <2> QED
    BY <2>1
<1>7. Len(w) = nextUid /\ \A i \in 1 .. nextUid : w[i] = i - 1
  BY <1>1, <1>3
<1> HIDE DEF w
<1>8. /\ Len(connected) \in Nat /\ Len(connected) <= nextUid
      /\ \A i \in 1 .. Len(connected) : connected[i] = i - 1
  BY <1>1, <1>6, <1>7
<1>9. Len(x) >= 1 => x[1] = Len(connected) /\ Len(connected) < nextUid
  BY <1>1, <1>6, <1>7
<1> QED
  BY <1>2, <1>5, <1>8, <1>9 DEF x

LEMMA UpFacts ==
    ASSUME TwoPlayers, Typed, Gathered
    PROVE  /\ Up = live /\ live \subseteq Clients /\ live \subseteq Uids
           /\ Len(connected) = 2 => nextUid = 2 /\ live = Clients
<1>1. Up = live /\ live \subseteq Clients
  BY DEF Gathered, Up, Clients
<1>2. Len(connected) = 2 => nextUid = 2 /\ live = Clients
  BY ArrivalOrder DEF Gathered, Clients
<1> QED
  BY <1>1, <1>2, ClientFacts

--------------------------------------------------------------------------------
(* What the handlers send when nobody has left.                               *)

(* Of two clients, all but one is the other. *)
LEMMA ToTheMate ==
    ASSUME TwoPlayers, NEW clients \in Seq(Uids), Len(clients) = 2,
           \A i \in 1 .. Len(clients) : clients[i] = i - 1,
           NEW c \in Clients, NEW M, NEW m \in M
    PROVE  ToOthers(c, clients, m) = To(Mate(c), m)
<1> DEFINE part(i) == IF clients[i] = c THEN <<>> ELSE To(clients[i], m)
           parts == [i \in DOMAIN clients |-> part(i)]
<1>1. clients[1] = 0 /\ clients[2] = 1 /\ DOMAIN clients = 1 .. 2
  OBVIOUS
<1>2. parts = <<part(1), part(2)>>
  BY <1>1
<1>3. \A u \in Uids : To(u, m) \in Seq(Sends(M))
  <2> TAKE u \in Uids
  <2>1. [to |-> u, msg |-> m] \in Sends(M)
    BY DEF Sends
  <2> QED
    BY <2>1 DEF To
<1>4. part(1) \in Seq(Sends(M)) /\ part(2) \in Seq(Sends(M))
  <2>1. clients[1] \in Uids /\ clients[2] \in Uids
    BY <1>1, ClientFacts DEF Clients
  <2>2. <<>> \in Seq(Sends(M))
    OBVIOUS
  <2> QED
    BY <1>3, <2>1, <2>2
<1>5. ToOthers(c, clients, m) = part(1) \o part(2)
  <2> HIDE DEF part
  <2>1. FlattenSeq(<<part(1), part(2)>>) = part(1) \o part(2)
    BY <1>4, FlattenTwo
  <2> QED
    BY <1>2, <2>1 DEF ToOthers, part
<1>6. \A s \in Seq(Sends(M)) : <<>> \o s = s /\ s \o <<>> = s
  BY ConcatEmptySeq
<1>7. CASE c = 0
  <2>1. part(1) = <<>> /\ part(2) = To(Mate(c), m)
    BY <1>1, <1>7 DEF Mate
  <2> HIDE DEF part
  <2> QED
    BY <1>4, <1>5, <1>6, <2>1
<1>8. CASE c = 1
  <2>1. part(1) = To(Mate(c), m) /\ part(2) = <<>>
    BY <1>1, <1>8 DEF Mate
  <2> HIDE DEF part
  <2> QED
    BY <1>4, <1>5, <1>6, <2>1
<1> QED
  BY <1>7, <1>8 DEF Clients

(* The packets of a handler join those that are on their way. *)
LEMMA Delivered ==
    ASSUME TwoPlayers, TransportTyped, NEW sends \in Seq(Sends(ToClients)), Post(sends),
           NEW n, NEW u \in Clients,
           \A i \in 1 .. Len(sends) : Welcome(n, sends[i].to, sends[i].msg),
           \A i \in 1 .. Len(inbox[u]) : Welcome(n, u, inbox[u][i])
    PROVE  \A i \in 1 .. Len(inbox'[u]) : Welcome(n, u, inbox'[u][i])
<1>1. u \in Uids
  BY ClientFacts
<1>2. CASE u \notin live
  BY <1>1, <1>2 DEF Post
<1>3. CASE u \in live
  <2> DEFINE a == inbox[u]
             b == MsgsTo(u, sends)
             ab == inbox'[u]
  <2>1. ab = a \o b /\ a \in Seq(ToClients) /\ b \in Seq(ToClients)
    BY <1>3, Posted
  <2>2. \A k \in 1 .. Len(b) : Welcome(n, u, b[k])
    <3> TAKE k \in 1 .. Len(b)
    <3>1. PICK i \in 1 .. Len(sends) : sends[i].to = u /\ b[k] = sends[i].msg
      BY MsgsToFrom
    <3> QED
      BY <3>1
  <2> HIDE DEF a, b, ab
  <2>3. /\ Len(ab) = Len(a) + Len(b) /\ Len(a) \in Nat /\ Len(b) \in Nat
        /\ \A i \in 1 .. Len(a) + Len(b) : ab[i] = IF i <= Len(a) THEN a[i] ELSE b[i - Len(a)]
    BY <2>1, ConcatProperties
  <2>4. \A i \in 1 .. Len(ab) : Welcome(n, u, ab[i])
    <3> TAKE i \in 1 .. Len(ab)
    <3>1. CASE i <= Len(a)
      <4>1. i \in 1 .. Len(a)
        BY <2>3, <3>1
      <4> QED
        BY <2>3, <3>1, <4>1 DEF a
    <3>2. CASE ~(i <= Len(a))
      <4>1. i - Len(a) \in 1 .. Len(b)
        BY <2>3, <3>2
      <4> QED
        BY <2>2, <2>3, <3>2, <4>1
    <3> QED
      BY <3>1, <3>2
  <2> QED
    BY <2>4 DEF ab
<1> QED
  BY <1>2, <1>3

(* The first two clients are greeted, and started together. *)
LEMMA Greeted ==
    ASSUME TwoPlayers, Typed, Gathered, OnClientConnect
    PROVE  /\ Head(events).client = Len(connected)
           /\ Len(connected) \in {0, 1} /\ Len(connected) # 2
           /\ Len(connected') = Len(connected) + 1
           /\ gameActive' <=> Len(connected') = 2
           /\ \E sends \in Seq(Sends(ToClients)) :
                 /\ DispatchConnect(sends)
                 /\ \A i \in 1 .. Len(sends) :
                       /\ Welcome(Len(connected'), sends[i].to, sends[i].msg)
                       /\ sends[i].msg.type # "unit"
           /\ UNCHANGED <<serverUp, clientVars, bounds>>
<1> DEFINE c == Head(events).client
           clients == AddClient(c)
           init == Packet("init", AssignClientLocalID(c, clients))
           start == Packet("start", 0)
           starts == To(clients[1], start) \o To(clients[2], start)
           sends == To(c, init) \o IF gameActive' THEN starts ELSE <<>>
<1> USE DEF Typed
<1>1. NextEventIs("connect") /\ c = Len(connected) /\ Len(connected) < nextUid
  BY ArrivalOrder DEF OnClientConnect
<1>2. Len(connected) \in {0, 1} /\ c \in Uids /\ ~gameActive
  <2>1. Len(connected) \in Nat /\ nextUid \in 0 .. 2 /\ (gameActive <=> Len(connected) = 2)
    BY ArrivalOrder DEF Gathered
  <2>2. Len(connected) < nextUid
    BY <1>1
  <2>3. \A n : n \in Nat /\ n < nextUid => n \in {0, 1}
    BY <2>1
  <2>4. Len(connected) \in {0, 1}
    BY <2>1, <2>2, <2>3, Zenon
  <2> HIDE DEF c
  <2> QED
    BY <1>1, <2>1, <2>4, ClientFacts DEF Clients
<1>3. /\ gameActive' => Len(clients) >= 2
      /\ ~gameActive' => ~(Len(clients) >= 2)
      /\ DispatchConnect(sends)
      /\ UNCHANGED <<serverUp, clientVars, bounds>>
  BY <1>2 DEF OnClientConnect
<1>4. /\ connected \in Seq(Uids) /\ clients = Append(connected, c)
      /\ connected' = clients
  BY <1>3 DEF TransportTyped, AddClient, DispatchConnect
<1>5. /\ Len(clients) = Len(connected) + 1 /\ clients[Len(connected) + 1] = c
      /\ \A i \in 1 .. Len(connected) : clients[i] = connected[i]
      /\ DOMAIN clients = 1 .. Len(clients)
  <2> HIDE DEF c
  <2> QED
    BY <1>2, <1>4
<1>6. \A i \in DOMAIN clients : clients[i] = i - 1
  BY <1>1, <1>2, <1>5, ArrivalOrder
<1> HIDE DEF clients
<1>7. AssignClientLocalID(c, clients) = c
  <2>1. CASE Len(connected) = 0
    <3>1. \A i \in DOMAIN clients : clients[i] = c
      BY <1>1, <1>5, <1>6, <2>1
    <3> QED
      BY <1>1, <2>1, <3>1 DEF AssignClientLocalID
  <2>2. CASE Len(connected) = 1
    <3>1. 1 \in DOMAIN clients /\ clients[1] = 0 /\ c = 1
      BY <1>1, <1>5, <1>6, <2>2
    <3>2. clients[1] % 2 = 0 /\ clients[1] # c
      BY <3>1
    <3> QED
      BY <3>1, <3>2 DEF AssignClientLocalID
  <2> QED
    BY <1>2, <2>1, <2>2
<1>8. /\ init \in ToClients /\ start \in ToClients /\ c \in {0, 1}
      /\ init.type = "init" /\ init.msg = c /\ start.type = "start"
  BY <1>1, <1>2, <1>7, PacketKinds DEF Packet
<1>9. /\ To(c, init) \in Seq(Sends(ToClients))
      /\ gameActive' => clients[1] \in Uids /\ clients[2] \in Uids
  <2>1. gameActive' => clients[1] = 0 /\ clients[2] = 1
    BY <1>2, <1>3, <1>5, <1>6
  <2> QED
    BY <1>2, <1>8, <2>1, ToTyped, ClientFacts DEF Clients
<1> DEFINE good(q) == \A i \in 1 .. Len(q) :
                         /\ Welcome(Len(connected'), q[i].to, q[i].msg)
                         /\ q[i].msg.type # "unit"
<1>10. \A a, b \in Seq(Sends(ToClients)) : good(a) /\ good(b) =>
          a \o b \in Seq(Sends(ToClients)) /\ good(a \o b)
  <2> DEFINE ok(x) == Welcome(Len(connected'), x.to, x.msg) /\ x.msg.type # "unit"
  <2> HIDE DEF ok
  <2>1. ASSUME NEW a \in Seq(Sends(ToClients)), NEW b \in Seq(Sends(ToClients)),
               \A i \in 1 .. Len(a) : ok(a[i]), \A i \in 1 .. Len(b) : ok(b[i])
        PROVE  \A i \in 1 .. Len(a \o b) : ok((a \o b)[i])
    <3>1. /\ Len(a \o b) = Len(a) + Len(b) /\ Len(a) \in Nat /\ Len(b) \in Nat
          /\ \A i \in 1 .. Len(a) + Len(b) :
                (a \o b)[i] = IF i <= Len(a) THEN a[i] ELSE b[i - Len(a)]
      BY ConcatProperties
    <3> TAKE i \in 1 .. Len(a \o b)
    <3>2. CASE i <= Len(a)
      BY <2>1, <3>1, <3>2
    <3>3. CASE ~(i <= Len(a))
      <4>1. i - Len(a) \in 1 .. Len(b)
        BY <3>1, <3>3
      <4> QED
        BY <2>1, <3>1, <3>3, <4>1
    <3> QED
      BY <3>2, <3>3
  <2>2. \A a, b \in Seq(Sends(ToClients)) : a \o b \in Seq(Sends(ToClients))
    BY ConcatProperties
  <2> QED
    BY <2>1, <2>2 DEF ok
<1>11. good(To(c, init)) /\ (gameActive' => \A u : good(To(u, start)))
  <2>1. gameActive' => Len(connected') = 2
    BY <1>2, <1>3, <1>4, <1>5
  <2>2. \A u, p : /\ Len(To(u, p)) = 1 /\ To(u, p)[1].to = u /\ To(u, p)[1].msg = p
    BY DEF To
  <2> HIDE DEF init, start, c
  <2> QED
    BY <1>8, <2>1, <2>2 DEF Welcome
<1> HIDE DEF good
<1>12. sends \in Seq(Sends(ToClients)) /\ good(sends)
  <2>1. CASE gameActive'
    <3> DEFINE s1 == To(clients[1], start)
               s2 == To(clients[2], start)
    <3>1. /\ s1 \in Seq(Sends(ToClients)) /\ s2 \in Seq(Sends(ToClients))
          /\ good(s1) /\ good(s2)
      BY <1>8, <1>9, <1>11, <2>1, ToTyped
    <3>2. sends = To(c, init) \o (s1 \o s2)
      BY <2>1
    <3> HIDE DEF s1, s2, sends, init
    <3>3. s1 \o s2 \in Seq(Sends(ToClients)) /\ good(s1 \o s2)
      BY <3>1, <1>10
    <3> QED
      BY <1>9, <1>10, <1>11, <3>2, <3>3
  <2>2. CASE ~gameActive'
    <3> DEFINE s0 == To(c, init)
    <3>0. s0 \in Seq(Sends(ToClients)) /\ good(s0) /\ sends = s0 \o <<>>
      BY <1>9, <1>11, <2>2
    <3> HIDE DEF s0, sends
    <3>1. s0 \o <<>> = s0
      BY <3>0, ConcatEmptySeq
    <3> QED
      BY <3>0, <3>1
  <2> QED
    BY <2>1, <2>2
<1>13. gameActive' <=> Len(connected') = 2
  <2>0. \A n \in {0, 1} : \A m : m = n + 1 => m = 1 \/ m = 2
    OBVIOUS
  <2>1. Len(clients) = 1 \/ Len(clients) = 2
    BY <1>2, <1>5, <2>0, Zenon
  <2> QED
    BY <1>3, <1>4, <2>1
<1>14. Len(connected) # 2
  <2>1. \A n \in {0, 1} : n # 2
    OBVIOUS
  <2> QED
    BY <1>2, <2>1
<1> HIDE DEF sends
<1> QED
  BY <1>1, <1>2, <1>3, <1>4, <1>5, <1>12, <1>13, <1>14 DEF good

--------------------------------------------------------------------------------
(* Every step keeps the meeting together, as long as nobody leaves.           *)

LEMMA UidsAssociative == \A a, b, c \in Seq(Uids) : (a \o b) \o c = a \o (b \o c)
  BY Associative

LEMMA PlainSame ==
    ASSUME NEW c \in Clients, Plain(c), connected' = connected, live \subseteq live',
           inbox'[c] = inbox[c], outbox'[c] = outbox[c], comp'[c] = comp[c],
           scene'[c] = scene[c], main'[c] = main[c]
    PROVE  Plain(c)'
  BY DEF Plain

LEMMA MeetLaunch ==
    ASSUME TwoPlayers, Typed, Meeting, Launch
    PROVE  Meeting'
<1> USE DEF Typed, TransportTyped, Meeting
<1>1. /\ nextUid' = nextUid + 1 /\ live' = live \cup {nextUid} /\ Cardinality(live) < 2
      /\ events' = Append(events, Event("connect", nextUid, NoMsg)) /\ nextUid < MaxUid
      /\ UNCHANGED <<breaking, connected, inbox, gameActive, outbox, comp, scene, main>>
  BY DEF Launch, Connect, serverVars, clientVars, TwoPlayers
<1>2. nextUid < 2 /\ nextUid \in 0 .. 2
  <2>1. nextUid \in Nat /\ nextUid \in 0 .. 2 /\ live = 0 .. nextUid - 1
    BY DEF Gathered
  <2>2. Cardinality(0 .. nextUid - 1) = IF 0 > nextUid - 1 THEN 0 ELSE (nextUid - 1) - 0 + 1
    BY <2>1, FS_Interval
  <2>3. Cardinality(live) = nextUid
    BY <2>1, <2>2
  <2> QED
    BY <1>1, <2>1, <2>3
<1>3. Event("connect", nextUid, NoMsg) \in ClientEvents
  BY <1>1, <1>2, SessionAssumption DEF Event, ClientEvents, Uids
<1>4. Gathered'
  <2> DEFINE e == Event("connect", nextUid, NoMsg)
             r == <<nextUid>>
             x == Extract(CameOf, events)
  <2>1. Extract(CameOf, Append(events, e)) = x \o CameOf[e]
    BY <1>3, CameOfType, ExtractAppend
  <2>2. CameOf[e] = r
    BY <1>3, CameOfType DEF Event
  <2>3. e.type = "connect"
    BY DEF Event
  <2>4. x \in Seq(Uids) /\ r \in Seq(Uids) /\ connected \in Seq(Uids)
    <3>1. nextUid \in Uids
      BY <1>1, <1>2, SessionAssumption DEF Uids
    <3>2. r \in Seq(Uids)
      BY <3>1
    <3> QED
      BY <3>2, CameOfType, ExtractType
  <2> HIDE DEF e, x
  <2>5. connected \o (x \o r) = (connected \o x) \o r
    <3> HIDE DEF r
    <3> QED
      BY <2>4, UidsAssociative, Zenon
  <2>6. (connected \o x) \o r = [i \in 1 .. nextUid + 1 |-> i - 1]
    <3> DEFINE w == [i \in 1 .. nextUid |-> i - 1]
    <3>1. w \in Seq(Int) /\ Len(w) = nextUid /\ \A i \in 1 .. nextUid : w[i] = i - 1
      BY <1>2
    <3>2. connected \o x = w
      BY DEF Gathered, x
    <3> HIDE DEF w
    <3>3. w \o r = Append(w, nextUid)
      BY <1>2, <3>1, AppendIsConcat
    <3>4. /\ Append(w, nextUid) \in Seq(Int) /\ Len(Append(w, nextUid)) = nextUid + 1
          /\ \A i \in 1 .. nextUid + 1 : Append(w, nextUid)[i] = i - 1
      BY <1>2, <3>1
    <3> QED
      BY <1>2, <3>2, <3>3, <3>4
  <2>7. connected' \o Extract(CameOf, events') = [i \in 1 .. nextUid' |-> i - 1]
    BY <1>1, <2>1, <2>2, <2>5, <2>6 DEF e
  <2>8. \A i \in 1 .. Len(events') :
            /\ events'[i].type # "disconnect"
            /\ events'[i].type = "receive" => Len(connected') = 2 /\ events'[i].msg.type = "unit"
    <3> TAKE i \in 1 .. Len(events')
    <3>0. e \in ClientEvents /\ events \in Seq(ClientEvents) /\ events' = Append(events, e)
      BY <1>1, <1>3 DEF e
    <3>1. i \in 1 .. Len(events) + 1 /\ Len(events) \in Nat
          /\ events'[i] = IF i <= Len(events) THEN events[i] ELSE e
      BY <3>0
    <3>2. CASE i <= Len(events)
      <4>1. i \in 1 .. Len(events)
        BY <3>1, <3>2
      <4> QED
        BY <1>1, <3>1, <3>2, <4>1 DEF Gathered
    <3>3. CASE ~(i <= Len(events))
      BY <2>3, <3>1, <3>3
    <3> QED
      BY <3>2, <3>3
  <2>9. live' = 0 .. nextUid' - 1
    BY <1>1, <1>2 DEF Gathered
  <2> QED
    BY <1>1, <1>2, <2>7, <2>8, <2>9 DEF Gathered
<1>5. \A c \in Clients : Plain(c)'
  BY <1>1, PlainSame
<1> QED
  BY <1>4, <1>5

LEMMA MeetArrival ==
    ASSUME TwoPlayers, Typed, Meeting, OnClientConnect
    PROVE  Meeting'
<1> DEFINE c == Head(events).client
           n == Len(connected')
<1> USE DEF Typed, Meeting
<1>1. /\ c = Len(connected) /\ Len(connected) # 2 /\ n = Len(connected) + 1
      /\ gameActive' <=> n = 2
      /\ UNCHANGED <<outbox, comp, scene, main>>
  BY Greeted DEF clientVars
<1>2. PICK sends \in Seq(Sends(ToClients)) :
         /\ DispatchConnect(sends)
         /\ \A i \in 1 .. Len(sends) : Welcome(n, sends[i].to, sends[i].msg)
  BY Greeted
<1>3. /\ NextEventIs("connect") /\ events' = Tail(events) /\ Post(sends)
      /\ connected' = Append(connected, c) /\ UNCHANGED <<nextUid, live, breaking>>
  BY <1>2 DEF DispatchConnect, AddClient
<1>4. events \in Seq(ClientEvents) /\ events # <<>> /\ connected \in Seq(Uids)
      /\ Head(events) \in ClientEvents /\ c \in Uids
  BY <1>3, HeadTyped DEF TransportTyped, NextEventIs
<1>5. Gathered'
  <2> DEFINE x == Extract(CameOf, events)
             y == Extract(CameOf, Tail(events))
             r == <<c>>
  <2>1. x = CameOf[Head(events)] \o y
    BY <1>4, CameOfType, ExtractCons
  <2>2. CameOf[Head(events)] = r
    BY <1>3, <1>4, CameOfType DEF NextEventIs
  <2>3. y \in Seq(Uids) /\ r \in Seq(Uids) /\ Append(connected, c) = connected \o r
    <3>1. Tail(events) \in Seq(ClientEvents)
      BY <1>4
    <3>2. r \in Seq(Uids) /\ Append(connected, c) = connected \o r
      BY <1>4, AppendIsConcat
    <3> QED
      BY <3>1, <3>2, CameOfType, ExtractType
  <2>4. connected' \o Extract(CameOf, events') = (connected \o r) \o y
    BY <1>3, <2>3
  <2> HIDE DEF r, y, c
  <2>5. connected' \o Extract(CameOf, events') = connected \o (r \o y)
    <3> QED
      BY <1>4, <2>3, <2>4, UidsAssociative, Zenon
  <2>6. connected' \o Extract(CameOf, events') = [i \in 1 .. nextUid' |-> i - 1]
    BY <1>3, <2>1, <2>2, <2>5 DEF Gathered
  <2>7. \A i \in 1 .. Len(events') : /\ events'[i].type # "disconnect"
                                     /\ events'[i].type # "receive"
    <3> TAKE i \in 1 .. Len(events')
    <3>1. i + 1 \in 1 .. Len(events) /\ events'[i] = events[i + 1]
      BY <1>3, <1>4
    <3> QED
      BY <1>1, <3>1 DEF Gathered
  <2> QED
    BY <1>1, <1>3, <2>6, <2>7 DEF Gathered
<1>6. ASSUME NEW u \in Clients PROVE Plain(u)'
  <2> HIDE DEF c
  <2>1. \A i \in 1 .. Len(inbox[u]) : Welcome(n, u, inbox[u][i])
    BY <1>1 DEF Plain, Welcome
  <2>2. \A i \in 1 .. Len(inbox'[u]) : Welcome(n, u, inbox'[u][i])
    BY <1>2, <1>3, <2>1, Delivered
  <2>3. outbox[u] = <<>> /\ comp[u].is_lobby
    BY <1>1 DEF Plain
  <2> QED
    BY <1>1, <1>3, <2>2, <2>3 DEF Plain
<1> QED
  BY <1>5, <1>6

(* The server forwards a packet of a client to the other. *)
LEMMA Relayed ==
    ASSUME TwoPlayers, Typed, Gathered, ForwardData
    PROVE  LET c == Head(events).client
               m == Head(events).msg
           IN  /\ events # <<>> /\ Head(events) \in ClientEvents /\ Head(events).type = "receive"
               /\ c \in Uids /\ m \in FromClients /\ m \in ToClients
               /\ m.type = "unit" /\ Len(connected) = 2
               /\ c \in Clients => DispatchReceive(To(Mate(c), m))
<1> DEFINE c == Head(events).client
           m == Head(events).msg
<1> USE DEF Typed
<1>1. NextEventIs("receive") /\ DispatchReceive(ToOthers(c, connected, m))
  BY DEF ForwardData
<1>2. /\ events # <<>> /\ Head(events) \in ClientEvents /\ Head(events).type = "receive"
      /\ c \in Uids /\ m \in FromClients
  BY <1>1, HeadTyped DEF NextEventIs
<1>3. m.type = "unit" /\ Len(connected) = 2
  <2>1. events \in Seq(ClientEvents) /\ 1 \in 1 .. Len(events) /\ Head(events) = events[1]
    BY <1>2 DEF TransportTyped
  <2> QED
    BY <1>2, <2>1 DEF Gathered
<1>4. m \in ToClients
  BY ForwardSends, PacketKinds DEF ForwardData
<1>5. ASSUME c \in Clients PROVE ToOthers(c, connected, m) = To(Mate(c), m)
  <2>1. connected \in Seq(Uids) /\ \A i \in 1 .. Len(connected) : connected[i] = i - 1
    BY ArrivalOrder DEF TransportTyped
  <2> HIDE DEF c, m
  <2> QED
    BY <1>3, <1>4, <1>5, <2>1, ToTheMate
<1> QED
  BY <1>1, <1>2, <1>3, <1>4, <1>5

LEMMA MeetForward ==
    ASSUME TwoPlayers, Typed, Meeting, ForwardData
    PROVE  Meeting'
<1> DEFINE c == Head(events).client
           m == Head(events).msg
           sends == ToOthers(c, connected, m)
           n == Len(connected)
<1> USE DEF Typed, Meeting
<1>1. /\ events # <<>> /\ Head(events) \in ClientEvents /\ Head(events).type = "receive"
      /\ c \in Uids /\ m \in ToClients /\ m.type = "unit"
  BY Relayed
<1>2. /\ events' = Tail(events) /\ Post(sends)
      /\ UNCHANGED <<nextUid, live, breaking, connected, gameActive, outbox, comp, scene, main>>
  BY DEF ForwardData, DispatchReceive, serverVars, clientVars
<1>3. sends \in Seq(Sends(ToClients))
  <2>1. connected \in Seq(Uids)
    BY DEF TransportTyped
  <2> QED
    BY <1>1, <2>1, ToOthersType
<1>4. ASSUME NEW i \in 1 .. Len(sends) PROVE sends[i].msg = m
  <2>1. connected \in Seq(Uids)
    BY DEF TransportTyped
  <2>2. ToOthers(c, connected, m) \in Seq(Sends({m}))
    BY <2>1, ToOthersType
  <2>3. sends[i] \in Sends({m})
    BY <2>2
  <2> QED
    BY <2>3 DEF Sends
<1> HIDE DEF sends
<1>5. Gathered'
  <2>1. events \in Seq(ClientEvents) /\ Tail(events) \in Seq(ClientEvents)
    BY <1>1 DEF TransportTyped
  <2>2. Extract(CameOf, events) = Extract(CameOf, Tail(events))
    <3>1. Extract(CameOf, events) = CameOf[Head(events)] \o Extract(CameOf, Tail(events))
      BY <1>1, <2>1, CameOfType, ExtractCons
    <3>2. CameOf[Head(events)] = <<>>
      BY <1>1, CameOfType
    <3>3. Extract(CameOf, Tail(events)) \in Seq(Uids)
      BY <2>1, CameOfType, ExtractType
    <3> QED
      BY <3>1, <3>2, <3>3, ConcatEmptySeq
  <2>3. \A i \in 1 .. Len(events') : i + 1 \in 1 .. Len(events) /\ events'[i] = events[i + 1]
    BY <1>1, <1>2, <2>1
  <2> QED
    BY <1>2, <2>2, <2>3 DEF Gathered
<1>6. ASSUME NEW u \in Clients PROVE Plain(u)'
  <2>1. \A i \in 1 .. Len(sends) : Welcome(n, sends[i].to, sends[i].msg)
    BY <1>1, <1>4 DEF Welcome
  <2>2. \A i \in 1 .. Len(inbox'[u]) : Welcome(n, u, inbox'[u][i])
    BY <1>2, <1>3, <2>1, Delivered DEF Plain
  <2> QED
    BY <1>2, <2>2 DEF Plain
<1> QED
  BY <1>5, <1>6

(* Packets that leave a queue. *)
LEMMA TailFrom ==
    ASSUME NEW M, NEW q \in Seq(M), q # <<>>
    PROVE  /\ Tail(q) \in Seq(M) /\ Head(q) \in M
           /\ 1 \in 1 .. Len(q) /\ Head(q) = q[1]
           /\ \A i \in 1 .. Len(Tail(q)) : i + 1 \in 1 .. Len(q) /\ Tail(q)[i] = q[i + 1]
  OBVIOUS

LEMMA MeetFlush ==
    ASSUME TwoPlayers, Typed, Meeting, NEW c \in Up, Flush(c)
    PROVE  Meeting'
<1> DEFINE p == Head(outbox[c])
           e == Event("receive", c, p)
<1> USE DEF Typed, Meeting
<1>1. c \in Clients /\ c \in Uids
  BY UpFacts, ClientFacts
<1>2. /\ outbox[c] # <<>> /\ outbox[c] \in Seq(FromClients) /\ events' = Append(events, e)
      /\ outbox' = [outbox EXCEPT ![c] = Tail(outbox[c])] /\ outbox \in [Uids -> Seq(FromClients)]
      /\ UNCHANGED <<nextUid, live, breaking, connected, inbox, gameActive, comp, scene, main>>
  BY <1>1 DEF Flush, Receive, serverVars, ClientsTyped
<1>3. /\ p \in FromClients /\ p.type = "unit" /\ Len(connected) = 2
      /\ \A i \in 1 .. Len(Tail(outbox[c])) : Tail(outbox[c])[i].type = "unit"
  BY <1>1, <1>2, TailFrom DEF Plain
<1>4. e \in ClientEvents /\ e.type = "receive" /\ e.msg = p
  BY <1>1, <1>3 DEF Event, ClientEvents
<1> HIDE DEF e, p
<1>5. Gathered'
  <2>1. events \in Seq(ClientEvents)
    BY DEF TransportTyped
  <2>2. Extract(CameOf, events') = Extract(CameOf, events)
    <3>1. Extract(CameOf, events') = Extract(CameOf, events) \o CameOf[e]
      BY <1>2, <1>4, <2>1, CameOfType, ExtractAppend
    <3>2. CameOf[e] = <<>>
      BY <1>4, CameOfType
    <3>3. Extract(CameOf, events) \in Seq(Uids)
      BY <2>1, CameOfType, ExtractType
    <3> QED
      BY <3>1, <3>2, <3>3, ConcatEmptySeq
  <2>3. \A i \in 1 .. Len(events') : \/ i \in 1 .. Len(events) /\ events'[i] = events[i]
                                     \/ events'[i] = e
    BY <1>2, <1>4, <2>1
  <2> QED
    BY <1>2, <1>3, <1>4, <2>2, <2>3 DEF Gathered
<1>6. ASSUME NEW u \in Clients PROVE Plain(u)'
  <2>1. CASE u = c
    BY <1>1, <1>2, <1>3, <2>1 DEF Plain
  <2>2. CASE u # c
    <3>1. outbox'[u] = outbox[u]
      BY <1>2, <2>2
    <3> QED
      BY <1>2, <3>1, PlainSame
  <2> QED
    BY <2>1, <2>2
<1> QED
  BY <1>5, <1>6

LEMMA MeetConsume ==
    ASSUME TwoPlayers, Typed, Meeting, NEW c \in Up, Consume(c)
    PROVE  Meeting'
<1> DEFINE p == Head(inbox[c])
<1> USE DEF Typed, Meeting
<1>1. c \in Clients /\ c \in Uids
  BY UpFacts, ClientFacts
<1>2. /\ inbox[c] # <<>> /\ inbox[c] \in Seq(ToClients) /\ inbox \in [Uids -> Seq(ToClients)]
      /\ inbox' = [inbox EXCEPT ![c] = Tail(inbox[c])]
      /\ comp \in [Uids -> Components] /\ comp' = [comp EXCEPT ![c] = ProcessReceived(comp[c], p)]
      /\ UNCHANGED <<nextUid, live, breaking, events, connected, gameActive, outbox, scene, main>>
  BY <1>1 DEF Consume, Take, serverVars, ClientsTyped, TransportTyped
<1>3. /\ Welcome(Len(connected), c, p)
      /\ \A i \in 1 .. Len(Tail(inbox[c])) : Welcome(Len(connected), c, Tail(inbox[c])[i])
  BY <1>1, <1>2, TailFrom DEF Plain
<1>4. Gathered'
  BY <1>2 DEF Gathered
<1> HIDE DEF p
<1>5. ASSUME NEW u \in Clients PROVE Plain(u)'
  <2>1. CASE u = c
    <3>1. inbox'[c] = Tail(inbox[c]) /\ comp'[c] = ProcessReceived(comp[c], p)
      BY <1>1, <1>2
    <3>2. comp[c] \in Components
      BY <1>1, <1>2
    <3>3. /\ comp'[c].is_lobby = IF p.type = "start" THEN FALSE ELSE comp[c].is_lobby
          /\ comp'[c].user_ID = IF p.type = "init" THEN p.msg ELSE comp[c].user_ID
          /\ comp'[c].is_reconnecting = comp[c].is_reconnecting
          /\ comp'[c].update_complete = comp[c].update_complete
      BY <1>3, <3>1, <3>2 DEF Welcome, ProcessReceived, Components
    <3>4. /\ p.type = "start" => Len(connected) = 2
          /\ p.type = "init" => p.msg = c
      BY <1>3 DEF Welcome
    <3> QED
      BY <1>1, <1>2, <1>3, <2>1, <3>1, <3>3, <3>4 DEF Plain
  <2>2. CASE u # c
    <3>1. inbox'[u] = inbox[u] /\ comp'[u] = comp[u]
      BY <1>2, <2>2
    <3> QED
      BY <1>2, <3>1, PlainSame
  <2> QED
    BY <2>1, <2>2
<1> QED
  BY <1>4, <1>5

(* unitNetworkUpdate keeps the team, and gives the turn away with the packet *)
(* that ends it.                                                              *)
LEMMA UpdateTurns ==
    ASSUME NEW s \in Scenes, NEW q \in Seq(UnitMsgs),
           \A i \in 1 .. Len(q) : q[i].name = "endturn" => i = Len(q)
    PROVE  UnitNetworkUpdate(s, q).player_turn =
              IF q # <<>> /\ q[Len(q)].name = "endturn" THEN Other(s.player_turn)
              ELSE s.player_turn
<1>1. PICK f \in [0 .. Len(q) -> Scenes] :
              /\ f[0] = s
              /\ \A i \in 1 .. Len(q) : f[i] = ApplyUnit(f[i - 1], q[i])
              /\ UnitNetworkUpdate(s, q) = f[Len(q)]
  BY UnitNetworkUpdateSteps
<1> DEFINE n == Len(q)
           K == {i \in 0 .. n : i < n => f[i].player_turn = s.player_turn}
<1>2. n \in Nat /\ (q # <<>> <=> n # 0)
  OBVIOUS
<1>3. \A r \in Scenes : \A m :
         /\ m.name # "endturn" => ApplyUnit(r, m).player_turn = r.player_turn
         /\ m.name = "endturn" => ApplyUnit(r, m).player_turn = Other(r.player_turn)
  BY DEF ApplyUnit, Scenes
<1>4. 0 \in K
  BY <1>1, <1>2
<1>5. \A i \in 1 .. n : i - 1 \in K => i \in K
  <2> SUFFICES ASSUME NEW i \in 1 .. n, i - 1 \in K, i < n PROVE f[i].player_turn = s.player_turn
    BY <1>2
  <2>1. f[i] = ApplyUnit(f[i - 1], q[i]) /\ f[i - 1] \in Scenes /\ q[i].name # "endturn"
    BY <1>1, <1>2
  <2>2. f[i - 1].player_turn = s.player_turn
    BY <1>2
  <2> QED
    BY <1>3, <2>1, <2>2
<1> HIDE DEF K, n
<1>6. n # 0 => n - 1 \in K
  <2>1. 0 .. n \subseteq K
    BY <1>2, <1>4, <1>5, StepInduction
  <2> QED
    BY <1>2, <2>1
<1>7. CASE n = 0
  BY <1>1, <1>2, <1>7 DEF n
<1>8. CASE n # 0
  <2>1. f[n] = ApplyUnit(f[n - 1], q[n]) /\ f[n - 1] \in Scenes
    BY <1>1, <1>2, <1>8 DEF n
  <2>2. f[n - 1].player_turn = s.player_turn
    BY <1>2, <1>6, <1>8 DEF K
  <2> QED
    BY <1>1, <1>2, <1>3, <1>8, <2>1, <2>2 DEF n
<1> QED
  BY <1>7, <1>8

(* What a frame assigns: the side of the own id, or nothing. *)
LEMMA OwnSide ==
    ASSUME TwoPlayers, Typed, NEW c \in Clients, Plain(c), InUpdate(c)
    PROVE  /\ AssignTeam(c) \in Scenes
           /\ AssignTeam(c).assigned_team \in {0, c + 1, 2}
           /\ scene[c].assigned_team # 0 => AssignTeam(c).assigned_team = scene[c].assigned_team
           /\ AssignTeam(c).player_turn = scene[c].player_turn
           /\ AssignTeam(c).squads = scene[c].squads
           /\ AssignTeam(c).dead = scene[c].dead
           /\ AssignTeam(c).changed = scene[c].changed
           /\ AssignTeam(c).game_finished = scene[c].game_finished
           /\ AssignTeam(c).winning_player = scene[c].winning_player
<1>1. c \in Uids
  BY ClientFacts
<1>2. AssignTeam(c) \in Scenes /\ scene[c] \in Scenes
  BY <1>1, AssignTeamTyped DEF Typed, ClientsTyped
<1>3. CASE main[c] = "top" /\ scene[c].assigned_team = 0
  <2>1. comp[c].user_ID = c
    BY <1>3 DEF InUpdate, Plain
  <2>2. (c % 2) + 1 = c + 1
    BY DEF Clients
  <2>3. AssignTeam(c) = [scene[c] EXCEPT !.assigned_team = c + 1]
    BY <1>3, <2>1, <2>2 DEF AssignTeam
  <2> QED
    BY <1>2, <1>3, <2>3 DEF Scenes
<1>4. CASE ~(main[c] = "top" /\ scene[c].assigned_team = 0)
  BY <1>2, <1>4 DEF AssignTeam, Plain
<1> QED
  BY <1>3, <1>4

(* A frame of the main thread, before and after the packets are applied. *)
LEMMA Framed ==
    ASSUME TwoPlayers, Typed, NEW c \in Clients, Plain(c), PlayFrame(c)
    PROVE  LET s == UnitsUpdate(AssignTeam(c))
               q == comp[c].unit_update_queue
           IN  /\ s \in Scenes /\ q \in Seq(UnitMsgs)
               /\ s.assigned_team \in {0, c + 1, 2}
               /\ scene[c].assigned_team # 0 => s.assigned_team = scene[c].assigned_team
               /\ s.player_turn = scene[c].player_turn
               /\ s.squads = scene[c].squads
               /\ s.dead = scene[c].dead \cup {t \in Teams : scene[c].squads[t] = 0}
               /\ s.changed = scene[c].changed
               /\ s.game_finished = scene[c].game_finished
               /\ s.winning_player = scene[c].winning_player
               /\ Listening(s) <=> s.assigned_team = Mate(scene[c].player_turn - 1) + 1
               /\ scene'[c] = IF Listening(s) THEN UnitNetworkUpdate(s, q) ELSE s
               /\ comp'[c].unit_update_queue = IF Listening(s) THEN <<>> ELSE q
               /\ comp'[c].user_ID = comp[c].user_ID /\ comp'[c].is_lobby = comp[c].is_lobby
               /\ comp'[c].is_reconnecting = comp[c].is_reconnecting
               /\ comp'[c].update_complete = comp[c].update_complete
               /\ \A u \in Clients : u # c => scene'[u] = scene[u] /\ comp'[u] = comp[u]
<1> DEFINE s == UnitsUpdate(AssignTeam(c))
           q == comp[c].unit_update_queue
<1>1. c \in Uids
  BY ClientFacts
<1>2. /\ AssignTeam(c) \in Scenes
      /\ AssignTeam(c).assigned_team \in {0, c + 1, 2}
      /\ scene[c].assigned_team # 0 => AssignTeam(c).assigned_team = scene[c].assigned_team
      /\ AssignTeam(c).player_turn = scene[c].player_turn
      /\ AssignTeam(c).squads = scene[c].squads
      /\ AssignTeam(c).dead = scene[c].dead
      /\ AssignTeam(c).changed = scene[c].changed
      /\ AssignTeam(c).game_finished = scene[c].game_finished
      /\ AssignTeam(c).winning_player = scene[c].winning_player
  BY OwnSide DEF PlayFrame
<1>3. \A a \in Scenes : LET b == UnitsUpdate(a) IN
         /\ b \in Scenes
         /\ b.assigned_team = a.assigned_team /\ b.player_turn = a.player_turn
         /\ b.squads = a.squads /\ b.changed = a.changed
         /\ b.dead = a.dead \cup {t \in Teams : a.squads[t] = 0}
         /\ b.game_finished = a.game_finished /\ b.winning_player = a.winning_player
  BY DEF UnitsUpdate, Scenes
<1>4. /\ s \in Scenes
      /\ s.assigned_team \in {0, c + 1, 2}
      /\ scene[c].assigned_team # 0 => s.assigned_team = scene[c].assigned_team
      /\ s.player_turn = scene[c].player_turn
      /\ s.squads = scene[c].squads
      /\ s.dead = scene[c].dead \cup {t \in Teams : scene[c].squads[t] = 0}
      /\ s.changed = scene[c].changed
      /\ s.game_finished = scene[c].game_finished
      /\ s.winning_player = scene[c].winning_player
  BY <1>2, <1>3
<1>5. /\ scene' = [scene EXCEPT ![c] = IF Listening(s) THEN UnitNetworkUpdate(s, q) ELSE s]
      /\ comp' = IF Listening(s) THEN [comp EXCEPT ![c].unit_update_queue = <<>>] ELSE comp
      /\ scene \in [Uids -> Scenes] /\ comp \in [Uids -> Components]
  BY DEF PlayFrame, Typed, ClientsTyped
<1> HIDE DEF s
<1>6. Listening(s) <=> s.assigned_team = Mate(scene[c].player_turn - 1) + 1
  <2>1. scene[c].player_turn \in {1, 2}
    BY <1>1, <1>5 DEF Scenes, Teams
  <2>2. Other(scene[c].player_turn) = Mate(scene[c].player_turn - 1) + 1
    BY <2>1 DEF Other, Mate
  <2> QED
    BY <1>4, <2>2 DEF Listening
<1>7. q \in Seq(UnitMsgs) /\ \A u \in Clients : u \in Uids
  BY <1>1, <1>5, ClientFacts DEF Components
<1>8. scene'[c] = IF Listening(s) THEN UnitNetworkUpdate(s, q) ELSE s
  BY <1>1, <1>5
<1>9. /\ comp'[c].unit_update_queue = IF Listening(s) THEN <<>> ELSE q
      /\ comp'[c].user_ID = comp[c].user_ID /\ comp'[c].is_lobby = comp[c].is_lobby
      /\ comp'[c].is_reconnecting = comp[c].is_reconnecting
      /\ comp'[c].update_complete = comp[c].update_complete
  BY <1>1, <1>5 DEF Components
<1>10. \A u \in Clients : u # c => scene'[u] = scene[u] /\ comp'[u] = comp[u]
  BY <1>1, <1>5, <1>7
<1> HIDE DEF q
<1> QED
  BY <1>4, <1>6, <1>7, <1>8, <1>9, <1>10 DEF s, q

(* Nobody is replaced: the main threads do no more than play. *)
Plays(c) == BeginUpdate(c) \/ AssignTeamLate(c) \/ PlayFrame(c) \/ IdleFrame(c)

LEMMA MainPlays ==
    ASSUME TwoPlayers, Typed, Meeting, NEW c \in Uids, MainThread(c)
    PROVE  c \in Clients /\ c \in live /\ Plays(c)
<1>1. c \in Clients /\ c \in live
  BY UpFacts DEF MainThread, Meeting
<1>2. Plain(c)
  BY <1>1 DEF Meeting
<1> QED
  BY <1>1, <1>2 DEF MainThread, Plain, Plays, UpdateReconnectee, ResetReadyToSend,
                    ResumeFromSnapshot, Sending, Resuming

LEMMA MeetMain ==
    ASSUME TwoPlayers, Typed, Meeting, NEW c \in Uids, MainThread(c)
    PROVE  Meeting'
<1> USE DEF Meeting
<1>1. c \in Clients /\ c \in live /\ Plays(c)
  BY MainPlays
<1>2. UNCHANGED <<nextUid, live, breaking, events, connected, inbox, gameActive, outbox>>
  BY <1>1 DEF Plays, BeginUpdate, AssignTeamLate, PlayFrame, IdleFrame, transportVars, serverVars
<1>3. Gathered'
  BY <1>2 DEF Gathered
<1>4. /\ main \in [Uids -> {"top", "began", "sent"}] /\ scene \in [Uids -> Scenes]
      /\ \A u \in Clients : u \in Uids
  BY ClientFacts DEF Typed, ClientsTyped
<1>5. \A u \in Clients : u # c => scene'[u] = scene[u] /\ comp'[u] = comp[u] /\ main'[u] = main[u]
  <2>1. CASE BeginUpdate(c)
    BY <1>4, <2>1 DEF BeginUpdate
  <2>2. CASE PlayFrame(c)
    <3>1. \A u \in Clients : u # c => scene'[u] = scene[u] /\ comp'[u] = comp[u]
      BY <1>1, <2>2, Framed
    <3> QED
      BY <1>4, <2>2, <3>1 DEF PlayFrame
  <2>3. CASE IdleFrame(c)
    BY <1>4, <2>3 DEF IdleFrame
  <2>4. CASE AssignTeamLate(c)
    BY <1>4, <2>4 DEF AssignTeamLate
  <2> QED
    BY <1>1, <2>1, <2>2, <2>3, <2>4 DEF Plays
<1>6. /\ main'[c] \in {"top", "began"}
      /\ scene'[c].assigned_team \in {0, c + 1, 2}
      /\ comp'[c].user_ID = comp[c].user_ID /\ comp'[c].is_lobby = comp[c].is_lobby
      /\ comp'[c].is_reconnecting = comp[c].is_reconnecting
      /\ comp'[c].update_complete = comp[c].update_complete
  <2>1. CASE BeginUpdate(c)
    BY <1>1, <1>4, <2>1 DEF BeginUpdate, Plain
  <2>2. CASE PlayFrame(c)
    <3> DEFINE s == UnitsUpdate(AssignTeam(c))
               q == comp[c].unit_update_queue
    <3>1. /\ s \in Scenes /\ q \in Seq(UnitMsgs) /\ s.assigned_team \in {0, c + 1, 2}
          /\ scene'[c] = IF Listening(s) THEN UnitNetworkUpdate(s, q) ELSE s
      BY <1>1, <2>2, Framed
    <3> HIDE DEF s, q
    <3>2. UnitNetworkUpdate(s, q).assigned_team = s.assigned_team
      BY <3>1, UpdateKeeps
    <3>3. scene'[c].assigned_team \in {0, c + 1, 2}
      BY <3>1, <3>2
    <3>4. main'[c] = "top"
      BY <1>4, <2>2 DEF PlayFrame
    <3> QED
      BY <1>1, <2>2, <3>3, <3>4, Framed
  <2>3. CASE IdleFrame(c)
    <3>1. AssignTeam(c).assigned_team \in {0, c + 1, 2}
      BY <1>1, <2>3, OwnSide DEF IdleFrame
    <3> QED
      BY <1>4, <2>3, <3>1 DEF IdleFrame
  <2>4. CASE AssignTeamLate(c)
    <3>1. scene'[c].assigned_team = 2
      BY <1>1, <1>4, <2>4 DEF AssignTeamLate, Scenes
    <3> QED
      BY <1>1, <1>4, <2>4, <3>1 DEF AssignTeamLate, Plain
  <2> QED
    BY <1>1, <2>1, <2>2, <2>3, <2>4 DEF Plays
<1>7. ASSUME NEW u \in Clients PROVE Plain(u)'
  <2>1. CASE u = c
    BY <1>1, <1>2, <1>6, <2>1 DEF Plain
  <2>2. CASE u # c
    BY <1>2, <1>5, <2>2, PlainSame
  <2> QED
    BY <2>1, <2>2
<1> QED
  BY <1>3, <1>7

(* Whoever plays has a side, and the game has started. *)
LEMMA Clicked ==
    ASSUME TwoPlayers, Typed, Meeting, Turned, NEW c \in Uids, Player(c)
    PROVE  /\ c \in Clients /\ c \in live /\ Len(connected) = 2
           /\ scene[c].player_turn = c + 1 /\ scene[c].assigned_team = c + 1
<1>1. c \in Up /\ Playing(c) /\ scene[c].player_turn = scene[c].assigned_team
  BY DEF Player, Move, Attack, NextTurnPressed, HasUnit, MayClick
<1>2. c \in Clients /\ c \in live
  BY <1>1, UpFacts DEF Meeting
<1>3. Plain(c) /\ scene[c].player_turn \in {1, 2}
  BY <1>2 DEF Meeting, Typed, ClientsTyped, Scenes, Teams
<1>4. scene[c].assigned_team = c + 1
  <2>1. c = 0 => scene[c].player_turn # 2 \/ scene[c].assigned_team # 2
    BY DEF Turned, HasTurn, PassesTurn, Sided, Clients, Mate
  <2> QED
    BY <1>1, <1>2, <1>3, <2>1 DEF Plain, Clients
<1> QED
  BY <1>1, <1>2, <1>3, <1>4 DEF Plain, Playing

--------------------------------------------------------------------------------
(* What nextTurnPressed sends: the armies that have changed, the packet that  *)
(* ends the game if it is won, and the packet that ends the turn.             *)

LEMMA OneMore ==
    ASSUME NEW S, NEW a \in Seq(S), NEW z, Short(S, z)
    PROVE  /\ a \o z \in Seq(S) /\ Len(a \o z) \in Nat
           /\ \A i \in 1 .. Len(a \o z) : \/ i \in 1 .. Len(a) /\ (a \o z)[i] = a[i]
                                          \/ z # <<>> /\ i = Len(a \o z) /\ (a \o z)[i] = z[1]
           /\ \A i \in 1 .. Len(a) : i \in 1 .. Len(a \o z) /\ (a \o z)[i] = a[i]
           /\ z # <<>> => /\ Len(a \o z) = Len(a) + 1
                          /\ Len(a \o z) \in 1 .. Len(a \o z)
                          /\ (a \o z)[Len(a \o z)] = z[1]
<1>2. CASE z = <<>>
  <2>1. a \o z = a
    BY <1>2, ConcatEmptySeq
  <2>2. Len(a) \in Nat
    OBVIOUS
  <2> QED
    BY <1>2, <2>1, <2>2
<1>3. CASE z # <<>>
  <2> DEFINE e == z[1]
  <2>1. z = <<e>> /\ e \in S
    BY <1>3 DEF Short
  <2> HIDE DEF e
  <2>2. a \o z = Append(a, e)
    BY <2>1, AppendIsConcat
  <2>3. /\ Append(a, e) \in Seq(S) /\ Len(Append(a, e)) = Len(a) + 1 /\ Len(a) \in Nat
        /\ \A i \in 1 .. Len(a) : Append(a, e)[i] = a[i]
        /\ Append(a, e)[Len(a) + 1] = e
    BY <2>1
  <2>4. z[1] = e
    BY DEF e
  <2> HIDE DEF e
  <2> DEFINE w == Append(a, e)
             n == Len(a)
  <2>5. /\ \A i \in 1 .. n + 1 : i \in 1 .. n \/ i = n + 1
        /\ \A i \in 1 .. n : i \in 1 .. n + 1
        /\ n + 1 \in 1 .. n + 1 /\ n + 1 \in Nat
    BY <2>3
  <2> HIDE DEF w, n
  <2>6. /\ w \in Seq(S) /\ Len(w) = n + 1
        /\ \A i \in 1 .. n : w[i] = a[i]
        /\ w[n + 1] = z[1] /\ a \o z = w
    BY <2>2, <2>3, <2>4 DEF w, n
  <2> QED
    BY <1>3, <2>5, <2>6 DEF n
<1> QED
  BY <1>2, <1>3

Chain(x, y, z, e) == ((x \o y) \o z) \o <<e>>

Chained(w, x, y, z, e) ==
    /\ Len(w) \in Nat /\ Len(w) >= 1 /\ w[Len(w)] = e
    /\ \A i \in 1 .. Len(w) - 1 : \/ x # <<>> /\ w[i] = x[1]
                                  \/ y # <<>> /\ w[i] = y[1]
                                  \/ z # <<>> /\ w[i] = z[1] /\ i = Len(w) - 1
    /\ x # <<>> => \E i \in 1 .. Len(w) - 1 : w[i] = x[1]
    /\ y # <<>> => \E i \in 1 .. Len(w) - 1 : w[i] = y[1]

LEMMA ThreeAndOne ==
    ASSUME NEW S, NEW x, NEW y, NEW z, NEW e \in S,
           Short(S, x), Short(S, y), Short(S, z)
    PROVE  /\ Chain(x, y, z, e) \in Seq(S)
           /\ Chained(Chain(x, y, z, e), x, y, z, e)
<1> DEFINE a == x \o y
           b == a \o z
           r == <<e>>
           v == b \o r
           w == Chain(x, y, z, e)
<1>1. /\ \A i \in 1 .. Len(x) : i = 1 /\ x # <<>>
      /\ x # <<>> => 1 \in 1 .. Len(x)
      /\ x \in Seq(S)
  <2>1. CASE x = <<>>
    BY <2>1
  <2>2. CASE x # <<>>
    <3> DEFINE f == x[1]
    <3>1. f \in S /\ x = <<f>>
      BY <2>2 DEF Short
    <3> HIDE DEF f
    <3> QED
      BY <3>1
  <2> QED
    BY <2>1, <2>2
<1>2. Short(S, r) /\ r # <<>> /\ r[1] = e
  BY DEF Short
<1> HIDE DEF r
<1>3. /\ a \in Seq(S)
      /\ \A i \in 1 .. Len(a) : \/ i \in 1 .. Len(x) /\ a[i] = x[i]
                                \/ y # <<>> /\ a[i] = y[1]
      /\ \A i \in 1 .. Len(x) : i \in 1 .. Len(a) /\ a[i] = x[i]
      /\ y # <<>> => Len(a) \in 1 .. Len(a) /\ a[Len(a)] = y[1]
  BY <1>1, OneMore
<1> HIDE DEF a
<1>4. /\ b \in Seq(S) /\ Len(b) \in Nat
      /\ \A i \in 1 .. Len(b) : \/ i \in 1 .. Len(a) /\ b[i] = a[i]
                                \/ z # <<>> /\ i = Len(b) /\ b[i] = z[1]
      /\ \A i \in 1 .. Len(a) : i \in 1 .. Len(b) /\ b[i] = a[i]
  BY <1>3, OneMore
<1> HIDE DEF b
<1>5. /\ v \in Seq(S) /\ Len(v) = Len(b) + 1 /\ v[Len(v)] = e
      /\ \A i \in 1 .. Len(b) : v[i] = b[i]
  <2>1. /\ v \in Seq(S)
        /\ \A i \in 1 .. Len(b) : i \in 1 .. Len(v) /\ v[i] = b[i]
        /\ r # <<>> => /\ Len(v) = Len(b) + 1
                       /\ Len(v) \in 1 .. Len(v)
                       /\ v[Len(v)] = r[1]
    BY <1>2, <1>4, OneMore, ZenonT(60)
  <2> HIDE DEF v
  <2> QED
    BY <1>2, <2>1
<1>6. w = v
  BY DEF a, b, r, Chain
<1> HIDE DEF v, w
<1>7. Len(w) - 1 = Len(b) /\ Len(w) \in Nat /\ Len(w) >= 1
  BY <1>4, <1>5, <1>6
<1>8. \A i \in 1 .. Len(b) : \/ x # <<>> /\ w[i] = x[1]
                             \/ y # <<>> /\ w[i] = y[1]
                             \/ z # <<>> /\ w[i] = z[1] /\ i = Len(b)
  BY <1>1, <1>3, <1>4, <1>5, <1>6, Zenon
<1>9. /\ x # <<>> => \E i \in 1 .. Len(b) : w[i] = x[1]
      /\ y # <<>> => \E i \in 1 .. Len(b) : w[i] = y[1]
  BY <1>1, <1>3, <1>4, <1>5, <1>6, Zenon
<1> QED
  BY <1>5, <1>6, <1>7, <1>8, <1>9 DEF Chained, w

LEMMA ExtractOptional ==
    ASSUME NEW p, NEW m \in UnitMsgs
    PROVE  Extract(UnitOf, Optional(p, Packet("unit", m))) = Optional(p, m)
<1> DEFINE e == Packet("unit", m)
<1>1. e \in Packets /\ UnitOf[e] = <<m>>
  <2>1. e \in Packets /\ e.type = "unit" /\ e.msg = m
    BY PacketKinds DEF Packets, Packet
  <2> QED
    BY <2>1, UnitOfType
<1> HIDE DEF e
<1>2. Extract(UnitOf, <<e>>) = <<m>>
  BY <1>1, UnitOfType, ExtractOne
<1> QED
  BY <1>2, ExtractEmpty DEF Optional, e

(* The messages that a client sends with the end of its turn. *)
Ended(s, won) == Extract(UnitOf, TurnPackets(s, won))

LEMMA EndedShape ==
    ASSUME NEW s \in Scenes, NEW won \in BOOLEAN
    PROVE  LET w == Ended(s, won) IN
           /\ w \in Seq(UnitMsgs) /\ Len(w) \in Nat /\ Len(w) >= 1 /\ w[Len(w)] = EndMsg
           /\ \A i \in 1 .. Len(w) - 1 : \/ \E t \in s.changed : w[i] = SquadMsg(s, t)
                                         \/ won /\ w[i] = WonMsg(s) /\ i = Len(w) - 1
           /\ \A t \in s.changed : \E i \in 1 .. Len(w) - 1 : w[i] = SquadMsg(s, t)
<1> DEFINE x == Optional(1 \in s.changed, Packet("unit", SquadMsg(s, 1)))
           y == Optional(2 \in s.changed, Packet("unit", SquadMsg(s, 2)))
           z == Optional(won, Packet("unit", WonMsg(s)))
           r == Optional(TRUE, Packet("unit", EndMsg))
           xx == Optional(1 \in s.changed, SquadMsg(s, 1))
           yy == Optional(2 \in s.changed, SquadMsg(s, 2))
           zz == Optional(won, WonMsg(s))
           rr == <<EndMsg>>
           w == Ended(s, won)
<1>1. SquadMsg(s, 1) \in UnitMsgs /\ SquadMsg(s, 2) \in UnitMsgs
      /\ WonMsg(s) \in UnitMsgs /\ EndMsg \in UnitMsgs
  BY TurnMsgs DEF Teams
<1>2. /\ x \in Seq(Packets) /\ y \in Seq(Packets) /\ z \in Seq(Packets) /\ r \in Seq(Packets)
  <2>1. \A m \in UnitMsgs : Packet("unit", m) \in Packets
    BY PacketKinds DEF Packets
  <2> QED
    BY <1>1, <2>1, OptionalFacts
<1>3. /\ Extract(UnitOf, x) = xx /\ Extract(UnitOf, y) = yy
      /\ Extract(UnitOf, z) = zz /\ Extract(UnitOf, r) = Optional(TRUE, EndMsg)
  BY <1>1, ExtractOptional
<1>4. /\ xx \in Seq(UnitMsgs) /\ yy \in Seq(UnitMsgs) /\ zz \in Seq(UnitMsgs)
      /\ Short(UnitMsgs, xx) /\ Short(UnitMsgs, yy) /\ Short(UnitMsgs, zz)
      /\ xx # <<>> => 1 \in s.changed /\ xx[1] = SquadMsg(s, 1)
      /\ yy # <<>> => 2 \in s.changed /\ yy[1] = SquadMsg(s, 2)
      /\ zz # <<>> => won /\ zz[1] = WonMsg(s)
      /\ (1 \in s.changed => xx # <<>>) /\ (2 \in s.changed => yy # <<>>)
  BY <1>1, OptionalFacts
<1>5. Optional(TRUE, EndMsg) = rr
  BY DEF Optional
<1>6. TurnPackets(s, won) = ((x \o y) \o z) \o r
  BY TurnPacketsShape
<1> HIDE DEF x, y, z, r, xx, yy, zz, rr
<1>7. w = ((xx \o yy) \o zz) \o rr
  <2>1. \A a, b \in Seq(Packets) : /\ a \o b \in Seq(Packets)
                                   /\ Extract(UnitOf, a \o b) = Extract(UnitOf, a) \o Extract(UnitOf, b)
    <3>1. \A a, b \in Seq(Packets) : a \o b \in Seq(Packets)
      BY ConcatProperties
    <3> QED
      BY <3>1, UnitOfType, ExtractConcat
  <2>2. x \o y \in Seq(Packets) /\ (x \o y) \o z \in Seq(Packets)
    BY <1>2, <2>1
  <2>3. Extract(UnitOf, x \o y) = xx \o yy
    BY <1>2, <1>3, <2>1
  <2>4. Extract(UnitOf, (x \o y) \o z) = Extract(UnitOf, x \o y) \o Extract(UnitOf, z)
    BY <1>2, <2>1, <2>2
  <2>5. Extract(UnitOf, ((x \o y) \o z) \o r)
           = Extract(UnitOf, (x \o y) \o z) \o Extract(UnitOf, r)
    BY <1>2, <2>1, <2>2
  <2> QED
    BY <1>3, <1>5, <1>6, <2>3, <2>4, <2>5, Zenon DEF Ended
<1> HIDE DEF w
<1>8. /\ w \in Seq(UnitMsgs) /\ Len(w) \in Nat /\ Len(w) >= 1 /\ w[Len(w)] = EndMsg
      /\ \A i \in 1 .. Len(w) - 1 : \/ xx # <<>> /\ w[i] = xx[1]
                                    \/ yy # <<>> /\ w[i] = yy[1]
                                    \/ zz # <<>> /\ w[i] = zz[1] /\ i = Len(w) - 1
      /\ xx # <<>> => \E i \in 1 .. Len(w) - 1 : w[i] = xx[1]
      /\ yy # <<>> => \E i \in 1 .. Len(w) - 1 : w[i] = yy[1]
  <2>1. Chain(xx, yy, zz, EndMsg) \in Seq(UnitMsgs)
        /\ Chained(Chain(xx, yy, zz, EndMsg), xx, yy, zz, EndMsg)
    BY <1>1, <1>4, ThreeAndOne
  <2>2. w = Chain(xx, yy, zz, EndMsg)
    BY <1>7 DEF Chain, rr
  <2> QED
    BY <2>1, <2>2 DEF Chained
<1>9. \A t \in s.changed : t = 1 \/ t = 2
  BY DEF Scenes, Teams
<1>10. \A i \in 1 .. Len(w) - 1 : \/ \E t \in s.changed : w[i] = SquadMsg(s, t)
                                  \/ won /\ w[i] = WonMsg(s) /\ i = Len(w) - 1
  BY <1>4, <1>8
<1>11. \A t \in s.changed : \E i \in 1 .. Len(w) - 1 : w[i] = SquadMsg(s, t)
  BY <1>4, <1>8, <1>9
<1> QED
  BY <1>8, <1>10, <1>11 DEF w

EndsWith(c, s, won) ==
    /\ s = IF Depleted(scene[c]) THEN Finish(scene[c]) ELSE scene[c]
    /\ Depleted(scene[c]) => won
    /\ won /\ TRUE \notin EndgameFallthrough => Depleted(scene[c])
    /\ s.assigned_team = scene[c].assigned_team
    /\ s.player_turn = scene[c].player_turn
    /\ s.squads = scene[c].squads
    /\ s.dead = scene[c].dead /\ s.changed = scene[c].changed
    /\ outbox' = [outbox EXCEPT ![c] = outbox[c] \o TurnPackets(s, won)]
    /\ scene' = [scene EXCEPT ![c] =
                    [s EXCEPT !.changed = {}, !.player_turn = Other(s.player_turn)]]
    /\ turns' = turns + 1
    /\ UNCHANGED <<transportVars, serverVars, comp, main, leaves>>

LEMMA TurnEnded ==
    ASSUME Typed, NEW c \in Uids, NextTurnPressed(c)
    PROVE  \E s \in Scenes, won \in BOOLEAN : EndsWith(c, s, won)
<1> DEFINE s == IF Depleted(scene[c]) THEN Finish(scene[c]) ELSE scene[c]
<1>1. PICK fell \in EndgameFallthrough :
         /\ outbox' = [outbox EXCEPT ![c] =
                          outbox[c] \o TurnPackets(s, Depleted(scene[c]) \/ fell)]
         /\ scene' = [scene EXCEPT ![c] =
                         [s EXCEPT !.changed = {}, !.player_turn = Other(s.player_turn)]]
  BY DEF NextTurnPressed
<1>2. fell \in BOOLEAN /\ scene[c] \in Scenes
  BY SessionAssumption DEF Typed, ClientsTyped
<1>3. /\ s \in Scenes
      /\ s.assigned_team = scene[c].assigned_team
      /\ s.player_turn = scene[c].player_turn
      /\ s.squads = scene[c].squads
      /\ s.dead = scene[c].dead /\ s.changed = scene[c].changed
  BY <1>2 DEF Finish, Scenes
<1>4. turns' = turns + 1 /\ UNCHANGED <<transportVars, serverVars, comp, main, leaves>>
  BY DEF NextTurnPressed
<1>5. \E won \in BOOLEAN : /\ won <=> Depleted(scene[c]) \/ fell
                           /\ won = (Depleted(scene[c]) \/ fell)
  OBVIOUS
<1>6. PICK won \in BOOLEAN : /\ won <=> Depleted(scene[c]) \/ fell
                             /\ won = (Depleted(scene[c]) \/ fell)
  BY <1>5
<1>7. won /\ TRUE \notin EndgameFallthrough => Depleted(scene[c])
  BY <1>1, <1>2, <1>6
<1>8. s = IF Depleted(scene[c]) THEN Finish(scene[c]) ELSE scene[c]
  OBVIOUS
<1>9. outbox' = [outbox EXCEPT ![c] = outbox[c] \o TurnPackets(s, won)]
  BY <1>1, <1>6
<1>10. Depleted(scene[c]) => won
  BY <1>6
<1> HIDE DEF s
<1> QED
  BY <1>1, <1>3, <1>4, <1>7, <1>8, <1>9, <1>10 DEF EndsWith

(* Moves and attacks change the board and nothing else. *)
LEMMA BoardPlayed ==
    ASSUME Typed, NEW c \in Uids, Move(c) \/ Attack(c)
    PROVE  /\ \A u \in Uids : u # c => scene'[u] = scene[u]
           /\ scene'[c].assigned_team = scene[c].assigned_team
           /\ scene'[c].player_turn = scene[c].player_turn
           /\ scene'[c].dead = scene[c].dead
           /\ scene'[c].game_finished = scene[c].game_finished
           /\ scene'[c].winning_player = scene[c].winning_player
           /\ UNCHANGED <<transportVars, serverVars, outbox, comp, main, bounds>>
<1>1. scene \in [Uids -> Scenes] /\ scene[c] \in Scenes
  BY DEF Typed, ClientsTyped
<1>2. CASE Move(c)
  BY <1>1, <1>2 DEF Move, Scenes
<1>3. CASE Attack(c)
  <2>1. PICK left : scene' = [scene EXCEPT
                       ![c].squads[Other(scene[c].assigned_team)] = left,
                       ![c].changed = @ \cup {Other(scene[c].assigned_team)}]
    BY <1>3 DEF Attack
  <2> QED
    BY <1>1, <1>3, <2>1 DEF Attack, Scenes
<1> QED
  BY <1>2, <1>3

LEMMA MeetPlayer ==
    ASSUME TwoPlayers, Typed, Meeting, Turned, NEW c \in Uids, Player(c)
    PROVE  Meeting'
<1> USE DEF Meeting
<1>1. c \in Clients /\ c \in live /\ Len(connected) = 2 /\ scene[c].assigned_team = c + 1
  BY Clicked
<1>2. \A u \in Clients : u \in Uids
  BY ClientFacts
<1>3. CASE Move(c) \/ Attack(c)
  <2>1. /\ \A u \in Uids : u # c => scene'[u] = scene[u]
        /\ scene'[c].assigned_team = scene[c].assigned_team
        /\ UNCHANGED <<nextUid, live, breaking, events, connected, inbox, gameActive,
                       outbox, comp, main>>
    BY <1>3, BoardPlayed DEF transportVars, serverVars
  <2>2. Gathered'
    BY <2>1 DEF Gathered
  <2>3. ASSUME NEW u \in Clients PROVE Plain(u)'
    <3>1. CASE u = c
      BY <1>1, <2>1, <3>1 DEF Plain
    <3>2. CASE u # c
      BY <1>2, <2>1, <3>2, PlainSame
    <3> QED
      BY <3>1, <3>2
  <2> QED
    BY <2>2, <2>3
<1>4. CASE NextTurnPressed(c)
  <2>0. PICK s \in Scenes, won \in BOOLEAN : EndsWith(c, s, won)
    BY <1>4, TurnEnded
  <2>1. /\ s.assigned_team = scene[c].assigned_team
        /\ outbox' = [outbox EXCEPT ![c] = outbox[c] \o TurnPackets(s, won)]
        /\ scene' = [scene EXCEPT ![c] =
                        [s EXCEPT !.changed = {}, !.player_turn = Other(s.player_turn)]]
        /\ UNCHANGED <<nextUid, live, breaking, events, connected, inbox, gameActive,
                       comp, main>>
    BY <2>0 DEF EndsWith, transportVars, serverVars
  <2>2. scene \in [Uids -> Scenes] /\ outbox \in [Uids -> Seq(FromClients)]
    BY DEF Typed, ClientsTyped
  <2>3. /\ \A u \in Clients : u # c => scene'[u] = scene[u] /\ outbox'[u] = outbox[u]
        /\ scene'[c].assigned_team = c + 1
        /\ outbox'[c] = outbox[c] \o TurnPackets(s, won)
    BY <1>1, <1>2, <2>1, <2>2 DEF Scenes
  <2>4. \A i \in 1 .. Len(outbox'[c]) : outbox'[c][i].type = "unit"
    <3> DEFINE a == outbox[c]
               b == TurnPackets(s, won)
    <3>1. a \in Seq(FromClients) /\ b \in Seq(FromClients)
      <4>1. \A q \in Seq(Forwardable) : q \in Seq(FromClients)
        BY DEF FromClients
      <4> QED
        BY <2>2, <4>1, TurnPacketsUnits
    <3>2. /\ \A i \in 1 .. Len(a) : a[i].type = "unit"
          /\ \A i \in 1 .. Len(b) : b[i].type = "unit"
      BY <1>1, TurnPacketsUnits DEF Plain
    <3> HIDE DEF a, b
    <3>3. /\ Len(a \o b) = Len(a) + Len(b) /\ Len(a) \in Nat /\ Len(b) \in Nat
          /\ \A i \in 1 .. Len(a) + Len(b) :
                (a \o b)[i] = IF i <= Len(a) THEN a[i] ELSE b[i - Len(a)]
      BY <3>1, ConcatProperties
    <3>4. \A i \in 1 .. Len(a \o b) : (a \o b)[i].type = "unit"
      BY <3>2, <3>3
    <3> QED
      BY <2>3, <3>4 DEF a, b
  <2>5. Gathered'
    BY <2>1 DEF Gathered
  <2>6. ASSUME NEW u \in Clients PROVE Plain(u)'
    <3>1. CASE u = c
      BY <1>1, <2>1, <2>3, <2>4, <3>1 DEF Plain
    <3>2. CASE u # c
      BY <2>1, <2>3, <3>2, PlainSame
    <3> QED
      BY <3>1, <3>2
  <2> QED
    BY <2>5, <2>6
<1> QED
  BY <1>3, <1>4 DEF Player

(* Nobody leaves, resumes or is replaced. *)
LEMMA NobodyLeaves ==
    ASSUME TwoPlayers, Typed, Meeting, leaves \in Nat, leaves' = 0, Next
    PROVE  \/ OnClientConnect
           \/ ForwardData
           \/ Launch
           \/ \E c \in Up : Flush(c) \/ Consume(c)
           \/ \E c \in Uids : MainThread(c) \/ Player(c)
<1>1. ~OnClientDisconnect /\ ~ResumeBoth /\ ~ResumePastEnd
  <2>1. ASSUME events # <<>>
        PROVE  Head(events).type # "disconnect"
               /\ (Head(events).type = "receive" => Head(events).msg.type # "resume")
    <3>1. 1 \in 1 .. Len(events) /\ Head(events) = events[1]
      BY <2>1 DEF Typed, TransportTyped
    <3> QED
      BY <3>1 DEF Meeting, Gathered
  <2> QED
    BY <2>1 DEF OnClientDisconnect, ResumeBoth, ResumePastEnd, NextEventIs
<1>2. ~ \E c \in live : Detect(c)
  BY DEF Detect, Disconnect, Meeting, Gathered
<1>3. ~ \E c \in Uids : Leave(c)
  BY DEF Leave
<1> QED
  BY <1>1, <1>2, <1>3 DEF Next, Server, ConsumerThread

LEMMA MeetSteps ==
    ASSUME TwoPlayers, Typed, Meeting, Turned, leaves \in Nat, leaves' = 0, [Next]_vars
    PROVE  Meeting'
<1>1. CASE UNCHANGED vars
  BY <1>1 DEF vars, transportVars, serverVars, clientVars, Meeting, Gathered, Plain
<1>2. CASE Next
  BY <1>2, NobodyLeaves, MeetLaunch, MeetArrival, MeetForward, MeetFlush, MeetConsume,
     MeetMain, MeetPlayer
<1> QED
  BY <1>1, <1>2

--------------------------------------------------------------------------------
(* The flow of unit packets: on their way they keep their order, none is lost *)
(* and none is added.                                                         *)

LEMMA FlowSame ==
    ASSUME NEW d, comp'[d].unit_update_queue = comp[d].unit_update_queue,
           inbox'[d] = inbox[d], events' = events, outbox'[Mate(d)] = outbox[Mate(d)]
    PROVE  Flow(d)' = Flow(d)
  BY DEF Flow, Join, Extract, Yields, UnitFrom, Mate

LEMMA FlowLaunch ==
    ASSUME TwoPlayers, Typed, Meeting, Launch, NEW d \in Clients
    PROVE  Flow(d)' = Flow(d)
<1> DEFINE e == Event("connect", nextUid, NoMsg)
           y == Extract(UnitFrom(Mate(d)), events)
<1>1. /\ events' = Append(events, e) /\ nextUid < MaxUid /\ nextUid \in Nat
      /\ UNCHANGED <<inbox, outbox, comp>>
  BY DEF Launch, Connect, clientVars, Meeting, Gathered
<1>2. e \in ClientEvents /\ e.type = "connect"
  BY <1>1, SessionAssumption DEF Event, ClientEvents, Uids
<1> HIDE DEF e
<1>3. events \in Seq(ClientEvents) /\ y \in Seq(UnitMsgs)
  BY FlowParts
<1>4. Extract(UnitFrom(Mate(d)), events') = y
  <2>1. Extract(UnitFrom(Mate(d)), Append(events, e)) = y \o UnitFrom(Mate(d))[e]
    BY <1>2, <1>3, UnitFromType, ExtractAppend
  <2>2. UnitFrom(Mate(d))[e] = <<>>
    BY <1>2, UnitFromType
  <2> QED
    BY <1>1, <1>3, <2>1, <2>2, ConcatEmptySeq
<1> QED
  BY <1>1, <1>4 DEF Flow

LEMMA FlowFlush ==
    ASSUME TwoPlayers, Typed, Meeting, NEW c \in Up, Flush(c), NEW d \in Clients
    PROVE  Flow(d)' = Flow(d)
<1> DEFINE p == Head(outbox[c])
           e == Event("receive", c, p)
           q == comp[d].unit_update_queue
           x == Extract(UnitOf, inbox[d])
           y == Extract(UnitFrom(Mate(d)), events)
           z == Extract(UnitOf, outbox[Mate(d)])
           u == UnitOf[p]
           v == Extract(UnitOf, Tail(outbox[c]))
<1>1. c \in Clients /\ c \in Uids /\ Mate(d) \in Clients /\ Mate(d) \in Uids
  BY UpFacts, ClientFacts DEF Meeting
<1>2. /\ outbox[c] # <<>> /\ outbox[c] \in Seq(FromClients) /\ events' = Append(events, e)
      /\ outbox' = [outbox EXCEPT ![c] = Tail(outbox[c])] /\ outbox \in [Uids -> Seq(FromClients)]
      /\ UNCHANGED <<inbox, comp>>
  BY <1>1 DEF Flush, Receive, Typed, ClientsTyped
<1>3. p \in FromClients /\ p \in Packets
  BY <1>2 DEF Packets
<1>4. e \in ClientEvents /\ e.type = "receive" /\ e.msg = p /\ e.client = c
  BY <1>1, <1>3 DEF Event, ClientEvents
<1>5. /\ q \in Seq(UnitMsgs) /\ x \in Seq(UnitMsgs) /\ y \in Seq(UnitMsgs) /\ z \in Seq(UnitMsgs)
      /\ events \in Seq(ClientEvents) /\ outbox[Mate(d)] \in Seq(Packets)
      /\ Flow(d) = Join(q, x, y, z)
  BY FlowParts DEF Flow
<1> HIDE DEF e, p, q, x, y, z
<1>6. Extract(UnitFrom(Mate(d)), events') = y \o UnitFrom(Mate(d))[e]
  BY <1>2, <1>4, <1>5, UnitFromType, ExtractAppend DEF y
<1>7. CASE c = Mate(d)
  <2>1. UnitFrom(Mate(d))[e] = u
    BY <1>4, <1>7, UnitFromType
  <2>2. z = u \o v /\ Tail(outbox[c]) \in Seq(Packets)
    <3>1. outbox[c] \in Seq(Packets) /\ z = Extract(UnitOf, outbox[c])
      BY <1>5, <1>7 DEF z
    <3>2. Extract(UnitOf, outbox[c])
             = UnitOf[Head(outbox[c])] \o Extract(UnitOf, Tail(outbox[c]))
      BY <1>2, <3>1, UnitOfType, ExtractCons
    <3>3. Tail(outbox[c]) \in Seq(Packets)
      BY <1>2, <3>1, TailFrom
    <3> QED
      BY <3>1, <3>2, <3>3 DEF p
  <2>3. u \in Seq(UnitMsgs) /\ v \in Seq(UnitMsgs)
    <3>1. u \in Seq(UnitMsgs)
      BY <1>3, UnitOfType DEF Maps
    <3> QED
      BY <2>2, <3>1, UnitOfType, ExtractType
  <2>4. outbox'[Mate(d)] = Tail(outbox[c])
    BY <1>1, <1>2, <1>7
  <2>5. Flow(d)' = Join(q, x, y \o u, v)
    BY <1>2, <1>6, <2>1, <2>4 DEF Flow, q, x
  <2> HIDE DEF u, v
  <2>6. Join(q, x, y \o u, v) = Join(q, x, y, u \o v)
    BY <1>5, <2>3, JoinShifts
  <2> QED
    BY <1>5, <2>2, <2>5, <2>6
<1>8. CASE c # Mate(d)
  <2>1. UnitFrom(Mate(d))[e] = <<>>
    BY <1>4, <1>8, UnitFromType
  <2>2. outbox'[Mate(d)] = outbox[Mate(d)]
    BY <1>1, <1>2, <1>8
  <2>3. Extract(UnitFrom(Mate(d)), events') = y
    BY <1>5, <1>6, <2>1, ConcatEmptySeq
  <2> QED
    BY <1>2, <2>2, <2>3 DEF Flow, y
<1> QED
  BY <1>7, <1>8

LEMMA FlowConsume ==
    ASSUME TwoPlayers, Typed, Meeting, NEW c \in Up, Consume(c), NEW d \in Clients
    PROVE  Flow(d)' = Flow(d)
<1> DEFINE p == Head(inbox[c])
           q == comp[d].unit_update_queue
           x == Extract(UnitOf, inbox[d])
           y == Extract(UnitFrom(Mate(d)), events)
           z == Extract(UnitOf, outbox[Mate(d)])
           u == UnitOf[p]
           v == Extract(UnitOf, Tail(inbox[c]))
<1>1. c \in Clients /\ c \in Uids /\ d \in Uids
  BY UpFacts, ClientFacts DEF Meeting
<1>2. /\ inbox[c] # <<>> /\ inbox[c] \in Seq(ToClients) /\ inbox \in [Uids -> Seq(ToClients)]
      /\ inbox' = [inbox EXCEPT ![c] = Tail(inbox[c])]
      /\ comp \in [Uids -> Components] /\ comp' = [comp EXCEPT ![c] = ProcessReceived(comp[c], p)]
      /\ UNCHANGED <<events, outbox>>
  BY <1>1 DEF Consume, Take, Typed, ClientsTyped, TransportTyped
<1>3. p \in ToClients /\ p \in Packets
  BY <1>2 DEF Packets
<1>4. /\ q \in Seq(UnitMsgs) /\ x \in Seq(UnitMsgs) /\ y \in Seq(UnitMsgs) /\ z \in Seq(UnitMsgs)
      /\ inbox[d] \in Seq(Packets)
      /\ Flow(d) = Join(q, x, y, z)
  BY FlowParts DEF Flow
<1>5. CASE c # d
  <2>1. inbox'[d] = inbox[d] /\ comp'[d] = comp[d]
    BY <1>1, <1>2, <1>5
  <2> QED
    BY <1>2, <2>1, FlowSame
<1>6. CASE c = d
  <2>1. Welcome(Len(connected), c, p)
    BY <1>1, <1>2, TailFrom DEF Meeting, Plain
  <2>2. x = u \o v /\ Tail(inbox[c]) \in Seq(Packets)
    <3>1. inbox[c] \in Seq(Packets) /\ x = Extract(UnitOf, inbox[c])
      BY <1>4, <1>6
    <3>2. Extract(UnitOf, inbox[c])
             = UnitOf[Head(inbox[c])] \o Extract(UnitOf, Tail(inbox[c]))
      BY <1>2, <3>1, UnitOfType, ExtractCons
    <3>3. Tail(inbox[c]) \in Seq(Packets)
      BY <1>2, <3>1, TailFrom
    <3> QED
      BY <3>1, <3>2, <3>3
  <2>3. u \in Seq(UnitMsgs) /\ v \in Seq(UnitMsgs)
    <3>1. u \in Seq(UnitMsgs)
      BY <1>3, UnitOfType DEF Maps
    <3> QED
      BY <2>2, <3>1, UnitOfType, ExtractType
  <2>4. comp'[d].unit_update_queue = q \o u
    <3>1. comp[c] \in Components /\ comp'[c] = ProcessReceived(comp[c], p)
      BY <1>1, <1>2
    <3>2. u = IF p.type = "unit" THEN <<p.msg>> ELSE <<>>
      BY <1>3, UnitOfType
    <3>3. CASE p.type = "unit"
      <4>1. comp'[c].unit_update_queue = Append(q, p.msg)
        BY <1>6, <3>1, <3>3 DEF ProcessReceived, Components
      <4>2. p.msg \in UnitMsgs
        BY <1>3, <3>3 DEF ToClients, Forwardable
      <4>3. Append(q, p.msg) = q \o <<p.msg>>
        <5> HIDE DEF q
        <5> QED
          BY <1>4, <4>2, AppendIsConcat
      <4> QED
        BY <1>6, <3>2, <3>3, <4>1, <4>3
    <3>4. CASE p.type # "unit"
      <4>1. comp'[c].unit_update_queue = q
        BY <1>6, <2>1, <3>1, <3>4 DEF ProcessReceived, Components, Welcome
      <4> HIDE DEF q
      <4> QED
        BY <1>4, <1>6, <3>2, <3>4, <4>1, ConcatEmptySeq
    <3> QED
      BY <3>3, <3>4
  <2>5. inbox'[d] = Tail(inbox[c])
    BY <1>1, <1>2, <1>6
  <2>6. Flow(d)' = Join(q \o u, v, y, z)
    BY <1>2, <2>4, <2>5 DEF Flow
  <2> HIDE DEF q, x, y, z, u, v
  <2>7. Join(q \o u, v, y, z) = Join(q, u \o v, y, z)
    BY <1>4, <2>3, JoinShifts
  <2> QED
    BY <1>4, <2>2, <2>6, <2>7
<1> QED
  BY <1>5, <1>6

(* The event that is handled is the first that is extracted. *)
LEMMA HandledFlow ==
    ASSUME TwoPlayers, Typed, events # <<>>, NEW d \in Clients
    PROVE  /\ UnitFrom(Mate(d))[Head(events)] \in Seq(UnitMsgs)
           /\ Extract(UnitFrom(Mate(d)), Tail(events)) \in Seq(UnitMsgs)
           /\ Extract(UnitFrom(Mate(d)), events)
                 = UnitFrom(Mate(d))[Head(events)] \o Extract(UnitFrom(Mate(d)), Tail(events))
<1>1. events \in Seq(ClientEvents)
  BY DEF Typed, TransportTyped
<1>2. Tail(events) \in Seq(ClientEvents) /\ Head(events) \in ClientEvents
  BY <1>1, TailFrom
<1>3. UnitFrom(Mate(d))[Head(events)] \in Seq(UnitMsgs)
  BY <1>2, UnitFromType DEF Maps
<1>4. Extract(UnitFrom(Mate(d)), Tail(events)) \in Seq(UnitMsgs)
  BY <1>2, UnitFromType, ExtractType
<1> QED
  BY <1>1, <1>3, <1>4, UnitFromType, ExtractCons

(* The packets of a handler join those on their way to a client. *)
LEMMA DeliveredFlow ==
    ASSUME TwoPlayers, Typed, NEW sends \in Seq(Sends(ToClients)), Post(sends),
           NEW d \in Clients, d \in live
    PROVE  /\ Extract(UnitOf, MsgsTo(d, sends)) \in Seq(UnitMsgs)
           /\ Extract(UnitOf, inbox'[d])
                 = Extract(UnitOf, inbox[d]) \o Extract(UnitOf, MsgsTo(d, sends))
<1>1. inbox'[d] = inbox[d] \o MsgsTo(d, sends) /\ MsgsTo(d, sends) \in Seq(ToClients)
  BY Posted DEF Typed
<1>2. inbox[d] \in Seq(Packets) /\ MsgsTo(d, sends) \in Seq(Packets)
  <2>1. \A q \in Seq(ToClients) : q \in Seq(Packets)
    BY DEF Packets
  <2> QED
    BY <1>1, <2>1, FlowParts
<1> QED
  BY <1>1, <1>2, UnitOfType, ExtractType, ExtractConcat

LEMMA FlowArrival ==
    ASSUME TwoPlayers, Typed, Meeting, OnClientConnect, NEW d \in Clients
    PROVE  Flow(d)' = Flow(d)
<1>1. PICK sends \in Seq(Sends(ToClients)) :
         /\ DispatchConnect(sends)
         /\ \A i \in 1 .. Len(sends) : sends[i].msg.type # "unit"
  BY Greeted DEF Meeting
<1>2. /\ events # <<>> /\ Head(events).type = "connect" /\ events' = Tail(events) /\ Post(sends)
      /\ UNCHANGED <<outbox, comp>>
  BY <1>1, Greeted DEF DispatchConnect, NextEventIs, clientVars, Meeting
<1>3. Extract(UnitFrom(Mate(d)), events') = Extract(UnitFrom(Mate(d)), events)
  <2>1. Head(events) \in ClientEvents
    BY <1>2, HeadTyped DEF Typed
  <2>2. UnitFrom(Mate(d))[Head(events)] = <<>>
    BY <1>2, <2>1, UnitFromType
  <2> QED
    BY <1>2, <2>2, HandledFlow, ConcatEmptySeq
<1>4. Extract(UnitOf, inbox'[d]) = Extract(UnitOf, inbox[d])
  <2>1. CASE d \notin live
    BY <1>2, <2>1, ClientFacts DEF Post
  <2>2. CASE d \in live
    <3> DEFINE b == MsgsTo(d, sends)
    <3>1. b \in Seq(ToClients)
      BY MsgsToType
    <3>2. \A k \in 1 .. Len(b) : b[k].type # "unit" /\ b[k] \in Packets
      <4> TAKE k \in 1 .. Len(b)
      <4>1. PICK i \in 1 .. Len(sends) : b[k] = sends[i].msg
        BY MsgsToFrom
      <4>2. b[k] \in ToClients
        BY <3>1
      <4> QED
        BY <1>1, <4>1, <4>2 DEF Packets
    <3> HIDE DEF b
    <3>3. b \in Seq(Packets)
      BY <3>1 DEF Packets
    <3>4. Extract(UnitOf, b) = <<>>
      BY <3>2, <3>3, UnitOfType, ExtractNothing
    <3>5. Extract(UnitOf, inbox[d]) \in Seq(UnitMsgs)
      BY FlowParts
    <3> QED
      BY <1>2, <2>2, <3>4, <3>5, DeliveredFlow, ConcatEmptySeq DEF b
  <2> QED
    BY <2>1, <2>2
<1> QED
  BY <1>2, <1>3, <1>4 DEF Flow

LEMMA FlowForward ==
    ASSUME TwoPlayers, Typed, KnownIds, Meeting, ForwardData, NEW d \in Clients
    PROVE  Flow(d)' = Flow(d)
<1> DEFINE c == Head(events).client
           m == Head(events).msg
           sends == To(Mate(c), m)
           q == comp[d].unit_update_queue
           x == Extract(UnitOf, inbox[d])
           y == Extract(UnitFrom(Mate(d)), Tail(events))
           z == Extract(UnitOf, outbox[Mate(d)])
           u == UnitFrom(Mate(d))[Head(events)]
           v == Extract(UnitOf, MsgsTo(d, sends))
<1>1. /\ events # <<>> /\ Head(events) \in ClientEvents /\ Head(events).type = "receive"
      /\ c \in Uids /\ m \in FromClients /\ m \in ToClients
      /\ Len(connected) = 2
      /\ c \in Clients => DispatchReceive(sends)
  BY Relayed DEF Meeting
<1>2. c \in Clients
  <2>1. 1 \in 1 .. Len(events) /\ Head(events) = events[1]
    BY <1>1 DEF Typed, TransportTyped
  <2>2. c < nextUid /\ nextUid <= 2
    BY <2>1 DEF KnownIds, Meeting, Gathered
  <2>3. \A i \in Uids : i < nextUid => i \in Clients
    BY <2>2, SessionAssumption DEF Uids, Clients, Meeting, Gathered
  <2> QED
    BY <1>1, <2>2, <2>3
<1>3. events' = Tail(events) /\ Post(sends) /\ UNCHANGED <<outbox, comp>>
  BY <1>1, <1>2 DEF DispatchReceive, ForwardData, clientVars
<1>4. Mate(c) \in Clients /\ Mate(c) \in Uids /\ d \in live /\ sends \in Seq(Sends(ToClients))
      /\ m \in Packets
  <2>1. Mate(c) \in Clients /\ Mate(c) \in Uids /\ d \in live
    BY <1>1, <1>2, ClientFacts, UpFacts DEF Meeting
  <2> HIDE DEF c
  <2> QED
    BY <1>1, <2>1, ToTyped DEF Packets
<1>5. v = u
  <2>1. CASE c = Mate(d)
    <3>1. Mate(c) = d
      BY <2>1, ClientFacts
    <3>2. MsgsTo(d, sends) = <<m>>
      BY <1>1, <3>1, MsgsToOne
    <3>3. u = UnitOf[m]
      BY <1>1, <2>1, UnitFromType
    <3> HIDE DEF m
    <3> QED
      BY <1>4, <3>2, <3>3, UnitOfType, ExtractOne
  <2>2. CASE c # Mate(d)
    <3>1. Mate(c) # d
      BY <1>2, <2>2, ClientFacts
    <3>2. MsgsTo(d, sends) = <<>>
      BY <1>1, <3>1, MsgsToOne
    <3>3. u = <<>>
      BY <1>1, <2>2, UnitFromType
    <3> QED
      BY <3>2, <3>3, ExtractEmpty
  <2> QED
    BY <2>1, <2>2
<1>6. u \in Seq(UnitMsgs) /\ y \in Seq(UnitMsgs)
      /\ Extract(UnitFrom(Mate(d)), events) = u \o y
  BY <1>1, HandledFlow
<1>7. Extract(UnitOf, inbox'[d]) = x \o v
  BY <1>3, <1>4, DeliveredFlow
<1>8. q \in Seq(UnitMsgs) /\ x \in Seq(UnitMsgs) /\ z \in Seq(UnitMsgs)
  BY FlowParts
<1>9. Flow(d)' = Join(q, x \o v, y, z)
  BY <1>3, <1>7 DEF Flow
<1>10. Flow(d) = Join(q, x, u \o y, z)
  BY <1>6 DEF Flow
<1> HIDE DEF q, x, y, z, u, v
<1> QED
  BY <1>5, <1>6, <1>8, <1>9, <1>10, JoinShifts

LEMMA JoinEnds ==
    \A q, x, y, z, u \in Seq(UnitMsgs) : Join(q, x, y, Cat(z, u)) = Cat(Join(q, x, y, z), u)
<1> DEFINE S == UnitMsgs
<1> HIDE DEF S
<1> SUFFICES \A q, x, y, z, u \in Seq(S) : Join(q, x, y, Cat(z, u)) = Cat(Join(q, x, y, z), u)
  BY DEF S
<1> TAKE q, x, y, z, u \in Seq(S)
<1> DEFINE a == Cat(Cat(q, x), y)
<1>1. \A f, g, h \in Seq(S) : Cat(Cat(f, g), h) = Cat(f, Cat(g, h)) /\ Cat(f, g) \in Seq(S)
  BY CatFacts
<1>2. a \in Seq(S)
  BY <1>1
<1> HIDE DEF a
<1>3. Cat(a, Cat(z, u)) = Cat(Cat(a, z), u)
  BY <1>1, <1>2
<1>4. Join(q, x, y, z) = Cat(a, z) /\ Join(q, x, y, Cat(z, u)) = Cat(a, Cat(z, u))
  BY DEF Join, Cat, a
<1> QED
  BY <1>3, <1>4

LEMMA FlowGrows ==
    ASSUME TwoPlayers, Typed, NEW d \in Clients, NEW w \in Seq(UnitMsgs),
           UNCHANGED <<inbox, events, comp>>,
           Extract(UnitOf, outbox'[Mate(d)]) = Extract(UnitOf, outbox[Mate(d)]) \o w
    PROVE  Flow(d)' = Flow(d) \o w
<1> DEFINE q == comp[d].unit_update_queue
           x == Extract(UnitOf, inbox[d])
           y == Extract(UnitFrom(Mate(d)), events)
           z == Extract(UnitOf, outbox[Mate(d)])
<1>1. q \in Seq(UnitMsgs) /\ x \in Seq(UnitMsgs) /\ y \in Seq(UnitMsgs) /\ z \in Seq(UnitMsgs)
  BY FlowParts
<1>2. Flow(d)' = Join(q, x, y, z \o w)
  BY DEF Flow
<1>3. Flow(d) = Join(q, x, y, z)
  BY DEF Flow
<1> HIDE DEF q, x, y, z
<1>4. Join(q, x, y, Cat(z, w)) = Cat(Join(q, x, y, z), w)
  BY <1>1, JoinEnds
<1> QED
  BY <1>2, <1>3, <1>4 DEF Cat

(* The end of a turn sends its packets to the other client. *)
LEMMA FlowEnded ==
    ASSUME TwoPlayers, Typed, NEW a \in Clients, NEW s \in Scenes, NEW won \in BOOLEAN,
           EndsWith(a, s, won)
    PROVE  /\ Flow(a)' = Flow(a)
           /\ Flow(Mate(a))' = Flow(Mate(a)) \o Ended(s, won)
<1> DEFINE d == Mate(a)
           p == TurnPackets(s, won)
           w == Ended(s, won)
           z == Extract(UnitOf, outbox[Mate(d)])
<1>1. a \in Uids /\ d \in Clients /\ d \in Uids /\ d # a /\ Mate(d) = a
  BY ClientFacts
<1>2. /\ outbox' = [outbox EXCEPT ![a] = outbox[a] \o p] /\ outbox \in [Uids -> Seq(FromClients)]
      /\ UNCHANGED <<inbox, events, comp>>
  BY DEF EndsWith, transportVars, Typed, ClientsTyped
<1>3. Flow(a)' = Flow(a)
  <2>1. outbox'[Mate(a)] = outbox[Mate(a)]
    BY <1>1, <1>2
  <2> QED
    BY <1>2, <2>1, FlowSame
<1>4. Extract(UnitOf, outbox'[Mate(d)]) = z \o w
  <2>1. outbox'[Mate(d)] = outbox[Mate(d)] \o p
    BY <1>1, <1>2
  <2>2. p \in Seq(Packets)
    <3>1. \A r \in Seq(Forwardable) : r \in Seq(Packets)
      BY DEF Packets, FromClients
    <3> QED
      BY <3>1, TurnPacketsUnits
  <2>3. outbox[Mate(d)] \in Seq(Packets)
    BY <1>1, FlowParts
  <2> HIDE DEF p
  <2>4. Extract(UnitOf, outbox[Mate(d)] \o p) = z \o Extract(UnitOf, p)
    BY <2>2, <2>3, UnitOfType, ExtractConcat
  <2> QED
    BY <2>1, <2>4 DEF Ended, p
<1>5. w \in Seq(UnitMsgs)
  BY EndedShape
<1> HIDE DEF w
<1>6. Flow(d)' = Flow(d) \o w
  BY <1>1, <1>2, <1>4, <1>5, FlowGrows
<1> QED
  BY <1>3, <1>6 DEF w, d

LEMMA JoinStarts ==
    \A q, x, y, z \in Seq(UnitMsgs) : Join(q, x, y, z) = Cat(q, Join(<<>>, x, y, z))
<1> DEFINE S == UnitMsgs
<1> HIDE DEF S
<1> SUFFICES \A q, x, y, z \in Seq(S) : Join(q, x, y, z) = Cat(q, Join(<<>>, x, y, z))
  BY DEF S
<1> TAKE q, x, y, z \in Seq(S)
<1>1. \A a, b, c \in Seq(S) : /\ Cat(Cat(a, b), c) = Cat(a, Cat(b, c))
                              /\ Cat(a, b) \in Seq(S) /\ Cat(<<>>, a) = a
  BY CatFacts
<1>2. Cat(Cat(Cat(q, x), y), z) = Cat(q, Cat(Cat(Cat(<<>>, x), y), z))
  BY <1>1
<1> QED
  BY <1>2 DEF Join, Cat

(* A turn on the opponent's scene applies what has arrived, and empties the    *)
(* queue.                                                                     *)
LEMMA FlowPlayed ==
    ASSUME TwoPlayers, Typed, NEW c \in Clients, Plain(c), PlayFrame(c)
    PROVE  LET q == comp[c].unit_update_queue
           IN  \E rest \in Seq(UnitMsgs) :
                 /\ q \in Seq(UnitMsgs) /\ Flow(c) = q \o rest
                 /\ Flow(c)' = IF Listening(UnitsUpdate(AssignTeam(c))) THEN rest ELSE Flow(c)
                 /\ Flow(Mate(c))' = Flow(Mate(c))
<1> DEFINE q == comp[c].unit_update_queue
           x == Extract(UnitOf, inbox[c])
           y == Extract(UnitFrom(Mate(c)), events)
           z == Extract(UnitOf, outbox[Mate(c)])
           rest == Join(<<>>, x, y, z)
           k == comp'[c].unit_update_queue
           listens == Listening(UnitsUpdate(AssignTeam(c)))
<1>1. /\ k = IF listens THEN <<>> ELSE q
      /\ comp'[Mate(c)] = comp[Mate(c)]
  BY Framed, ClientFacts
<1>2. UNCHANGED <<inbox, events, outbox>>
  BY DEF PlayFrame, transportVars
<1>3. Flow(Mate(c))' = Flow(Mate(c))
  BY <1>1, <1>2, FlowSame
<1>4. q \in Seq(UnitMsgs) /\ x \in Seq(UnitMsgs) /\ y \in Seq(UnitMsgs) /\ z \in Seq(UnitMsgs)
      /\ <<>> \in Seq(UnitMsgs)
  BY FlowParts
<1>5. Flow(c)' = Join(k, x, y, z) /\ Flow(c) = Join(q, x, y, z)
  BY <1>2 DEF Flow
<1> HIDE DEF q, x, y, z, k, listens
<1>6. rest \in Seq(UnitMsgs)
  BY <1>4, JoinTyped
<1>7. Join(q, x, y, z) = q \o rest
  <2>1. Join(q, x, y, z) = Cat(q, rest)
    BY <1>4, JoinStarts
  <2> QED
    BY <2>1 DEF Cat
<1>8. Flow(c)' = IF listens THEN rest ELSE Flow(c)
  BY <1>1, <1>5
<1> HIDE DEF rest
<1> QED
  BY <1>3, <1>4, <1>5, <1>6, <1>7, <1>8 DEF q, listens

--------------------------------------------------------------------------------
(* How the steps keep the turn.                                               *)

(* What the other steps leave as it is. *)
LEMMA TurnRests ==
    ASSUME TwoPlayers, Turned, live \subseteq live',
           \A d \in Clients : /\ Flow(d)' = Flow(d)
                              /\ scene'[d].player_turn = scene[d].player_turn
                              /\ scene[d].assigned_team # 0 =>
                                    scene'[d].assigned_team = scene[d].assigned_team
    PROVE  Turned'
<1>1. PICK a \in Clients : HasTurn(a) \/ PassesTurn(a)
  BY DEF Turned
<1>2. a \in Clients /\ Mate(a) \in Clients /\ 0 \in Clients /\ a + 1 # 0
  BY ClientFacts DEF Clients
<1>3. CASE HasTurn(a)
  <2>1. HasTurn(a)'
    BY <1>2, <1>3 DEF HasTurn, Sided
  <2> QED
    BY <1>2, <2>1 DEF Turned
<1>4. CASE PassesTurn(a)
  <2>1. PassesTurn(a)'
    BY <1>2, <1>4 DEF PassesTurn, EndsLast, Sided
  <2> QED
    BY <1>2, <2>1 DEF Turned
<1> QED
  BY <1>1, <1>3, <1>4

(* The packets of a turn: the last one ends it, and no other does. *)
LEMMA EndedLast ==
    ASSUME NEW s \in Scenes, NEW won \in BOOLEAN
    PROVE  EndsLast(Ended(s, won))
<1> DEFINE w == Ended(s, won)
<1>1. /\ Len(w) \in Nat /\ Len(w) >= 1 /\ w[Len(w)] = EndMsg
      /\ \A i \in 1 .. Len(w) - 1 : \/ \E t \in s.changed : w[i] = SquadMsg(s, t)
                                    \/ won /\ w[i] = WonMsg(s) /\ i = Len(w) - 1
  BY EndedShape
<1>2. EndMsg.name = "endturn" /\ WonMsg(s).name # "endturn"
      /\ \A t \in Teams : SquadMsg(s, t).name # "endturn"
  BY DEF EndMsg, WonMsg, SquadMsg, RefName, Teams
<1>3. s.changed \subseteq Teams
  BY DEF Scenes
<1> HIDE DEF w
<1>4. w # <<>>
  BY <1>1
<1>5. \A i \in 1 .. Len(w) : i = Len(w) \/ i \in 1 .. Len(w) - 1
  BY <1>1
<1>6. \A i \in 1 .. Len(w) - 1 : w[i].name # "endturn" /\ i # Len(w)
  BY <1>1, <1>2, <1>3
<1> QED
  BY <1>1, <1>2, <1>4, <1>5, <1>6 DEF EndsLast, w

LEMMA TurnPlayer ==
    ASSUME TwoPlayers, Typed, Meeting, Turned, NEW c \in Uids, Player(c)
    PROVE  Turned'
<1>1. /\ c \in Clients /\ Mate(c) \in Clients /\ Mate(c) # c /\ Mate(Mate(c)) = c
      /\ scene[c].player_turn = c + 1 /\ scene[c].assigned_team = c + 1
      /\ Other(c + 1) = Mate(c) + 1 /\ \A u \in Clients : u \in Uids
      /\ \A d \in Clients : d = c \/ d = Mate(c)
  BY Clicked, ClientFacts
<1>2. CASE Move(c) \/ Attack(c)
  <2>1. \A d \in Clients : /\ scene'[d].player_turn = scene[d].player_turn
                           /\ scene'[d].assigned_team = scene[d].assigned_team
    BY <1>1, <1>2, BoardPlayed
  <2>2. UNCHANGED <<live, inbox, events, outbox, comp>>
    BY <1>2, BoardPlayed DEF transportVars
  <2>3. \A d \in Clients : Flow(d)' = Flow(d)
    BY <2>2, FlowSame
  <2> QED
    BY <2>1, <2>2, <2>3, TurnRests
<1>3. CASE NextTurnPressed(c)
  <2>1. PICK s \in Scenes, won \in BOOLEAN : EndsWith(c, s, won)
    BY <1>3, TurnEnded
  <2>2. HasTurn(c)
    <3>1. PICK a \in Clients : HasTurn(a) \/ PassesTurn(a)
      BY DEF Turned
    <3>2. a + 1 # Mate(a) + 1 /\ (a = c \/ Mate(a) = c)
      BY <1>1, <3>1 DEF Clients, Mate
    <3> QED
      BY <1>1, <3>1, <3>2 DEF HasTurn, PassesTurn
  <2>3. /\ Flow(c)' = <<>> /\ Flow(Mate(c))' = Ended(s, won)
    <3>1. Flow(c)' = Flow(c) /\ Flow(Mate(c))' = Flow(Mate(c)) \o Ended(s, won)
      BY <1>1, <2>1, FlowEnded
    <3>2. Ended(s, won) \in Seq(UnitMsgs)
      BY EndedShape
    <3>3. <<>> \o Ended(s, won) = Ended(s, won)
      BY <3>2, ConcatEmptySeq
    <3> QED
      BY <2>2, <3>1, <3>3 DEF HasTurn
  <2>4. /\ scene'[c].player_turn = Mate(c) + 1 /\ scene'[c].assigned_team = c + 1
        /\ scene'[Mate(c)].player_turn = c + 1
    <3>1. scene \in [Uids -> Scenes]
      BY DEF Typed, ClientsTyped
    <3>2. /\ scene' = [scene EXCEPT ![c] = [s EXCEPT !.changed = {},
                                                     !.player_turn = Other(s.player_turn)]]
          /\ s.assigned_team = scene[c].assigned_team /\ s.player_turn = scene[c].player_turn
      BY <2>1 DEF EndsWith
    <3>3. scene'[Mate(c)] = scene[Mate(c)]
      BY <1>1, <3>1, <3>2
    <3>4. /\ scene'[c].player_turn = Other(s.player_turn)
          /\ scene'[c].assigned_team = s.assigned_team
      BY <1>1, <3>1, <3>2 DEF Scenes
    <3> QED
      BY <1>1, <2>2, <3>2, <3>3, <3>4 DEF HasTurn
  <2>5. EndsLast(Ended(s, won))
    BY EndedLast
  <2>7. Sided(c)'
    <3>1. c # 0 => scene'[0].assigned_team = 1
      <4>1. c # 0 => Mate(c) = 0 /\ scene[0].assigned_team = 1
        BY <1>1, <2>2 DEF HasTurn, Sided, Clients, Mate
      <4>2. scene'[Mate(c)] = scene[Mate(c)]
        BY <1>1, <2>1 DEF EndsWith, Typed, ClientsTyped
      <4> QED
        BY <4>1, <4>2
    <3> QED
      BY <1>1, <2>4, <3>1 DEF Sided, Clients
  <2>6. PassesTurn(c)'
    <3>1. EndsLast(Flow(Mate(c))')
      BY <2>3, <2>5
    <3>2. (EndsLast(Flow(Mate(c))))'
      BY <3>1 DEF EndsLast
    <3>3. Clients \subseteq live'
      BY <2>1, Clicked, UpFacts DEF Meeting, EndsWith, transportVars
    <3> QED
      BY <2>3, <2>4, <2>7, <3>2, <3>3 DEF PassesTurn
  <2> QED
    BY <1>1, <2>6 DEF Turned
<1> QED
  BY <1>2, <1>3 DEF Player

(* What is left when a part of the packets of a turn has been applied. *)
LEMMA EndsSplit ==
    ASSUME NEW S, NEW q \in Seq(S), NEW rest \in Seq(S), EndsLast(q \o rest)
    PROVE  /\ rest = <<>> => EndsLast(q)
           /\ rest # <<>> => EndsLast(rest) /\ \A i \in 1 .. Len(q) : q[i].name # "endturn"
<1> DEFINE f == q \o rest
<1>1. /\ Len(f) = Len(q) + Len(rest) /\ Len(q) \in Nat /\ Len(rest) \in Nat
      /\ \A i \in 1 .. Len(q) : f[i] = q[i]
      /\ \A i \in 1 .. Len(rest) : f[Len(q) + i] = rest[i]
  <2>1. /\ Len(f) = Len(q) + Len(rest) /\ Len(q) \in Nat /\ Len(rest) \in Nat
        /\ \A i \in 1 .. Len(q) + Len(rest) :
              f[i] = IF i <= Len(q) THEN q[i] ELSE rest[i - Len(q)]
    BY ConcatProperties
  <2> HIDE DEF f
  <2>2. \A i \in 1 .. Len(q) : i \in 1 .. Len(q) + Len(rest) /\ i <= Len(q)
    BY <2>1
  <2>3. \A i \in 1 .. Len(rest) : /\ Len(q) + i \in 1 .. Len(q) + Len(rest)
                                  /\ ~(Len(q) + i <= Len(q))
                                  /\ (Len(q) + i) - Len(q) = i
    BY <2>1
  <2> QED
    BY <2>1, <2>2, <2>3
<1>2. rest = <<>> => f = q
  BY ConcatEmptySeq
<1>3. \A i \in 1 .. Len(f) : f[i].name = "endturn" <=> i = Len(f)
  BY DEF EndsLast
<1>4. rest # <<>> => Len(rest) > 0
  BY <1>1
<1> HIDE DEF f
<1>5. ASSUME rest # <<>>
      PROVE  EndsLast(rest) /\ \A i \in 1 .. Len(q) : q[i].name # "endturn"
  <2>1. \A i \in 1 .. Len(q) : i \in 1 .. Len(f) /\ i # Len(f)
    BY <1>1, <1>4, <1>5
  <2>2. \A i \in 1 .. Len(rest) : /\ Len(q) + i \in 1 .. Len(f)
                                  /\ Len(q) + i = Len(f) <=> i = Len(rest)
    BY <1>1
  <2>3. \A i \in 1 .. Len(rest) : rest[i].name = "endturn" <=> i = Len(rest)
    BY <1>1, <1>3, <2>2
  <2> QED
    BY <1>1, <1>3, <1>5, <2>1, <2>3 DEF EndsLast
<1> QED
  BY <1>2, <1>5 DEF f

LEMMA TurnFrame ==
    ASSUME TwoPlayers, Typed, Meeting, Turned, NEW c \in Clients, PlayFrame(c)
    PROVE  Turned'
<1> DEFINE s == UnitsUpdate(AssignTeam(c))
           q == comp[c].unit_update_queue
           r == UnitNetworkUpdate(s, q)
<1>0. Plain(c)
  BY DEF Meeting
<1>1. /\ s \in Scenes /\ q \in Seq(UnitMsgs)
      /\ s.assigned_team \in {0, c + 1, 2}
      /\ scene[c].assigned_team # 0 => s.assigned_team = scene[c].assigned_team
      /\ s.player_turn = scene[c].player_turn
      /\ Listening(s) <=> s.assigned_team = Mate(scene[c].player_turn - 1) + 1
      /\ scene'[c] = IF Listening(s) THEN r ELSE s
      /\ \A u \in Clients : u # c => scene'[u] = scene[u]
  BY <1>0, Framed
<1>2. PICK rest \in Seq(UnitMsgs) : /\ Flow(c) = q \o rest
                                    /\ Flow(c)' = IF Listening(s) THEN rest ELSE Flow(c)
                                    /\ Flow(Mate(c))' = Flow(Mate(c))
  BY <1>0, FlowPlayed
<1>3. /\ Mate(c) \in Clients /\ Mate(c) # c /\ Mate(Mate(c)) = c /\ c + 1 # 0
      /\ Other(c + 1) = Mate(c) + 1 /\ Other(Mate(c) + 1) = c + 1
      /\ \A d \in Clients : d = c \/ d = Mate(c)
  BY ClientFacts DEF Clients
<1>4. r.assigned_team = s.assigned_team
  BY <1>1, UpdateKeeps
<1>5. (\A i \in 1 .. Len(q) : q[i].name = "endturn" => i = Len(q)) =>
         r.player_turn = IF q # <<>> /\ q[Len(q)].name = "endturn" THEN Other(s.player_turn)
                         ELSE s.player_turn
  BY <1>1, UpdateTurns
<1>6. scene[c].player_turn \in {1, 2} /\ live' = live
  BY ClientFacts DEF Typed, ClientsTyped, Scenes, Teams, PlayFrame, transportVars
<1> HIDE DEF s, q, r
<1>7. ASSUME \/ ~Listening(s)
             \/ q = <<>> /\ rest = <<>>
      PROVE  Turned'
  <2>1. /\ Flow(c)' = Flow(c) /\ Flow(Mate(c))' = Flow(Mate(c))
        /\ scene'[c].player_turn = scene[c].player_turn
        /\ scene[c].assigned_team # 0 => scene'[c].assigned_team = scene[c].assigned_team
    <3>1. CASE ~Listening(s)
      BY <1>1, <1>2, <3>1
    <3>2. CASE q = <<>> /\ rest = <<>>
      <4>1. r.player_turn = s.player_turn
        BY <1>5, <3>2
      <4>2. Flow(c) = <<>> /\ Flow(c)' = <<>>
        <5>1. <<>> \o rest = <<>>
          BY <3>2, ConcatEmptySeq
        <5> QED
          BY <1>2, <3>2, <5>1
      <4> QED
        BY <1>1, <1>2, <1>4, <4>1, <4>2
    <3> QED
      BY <1>7, <3>1, <3>2
  <2>2. \A d \in Clients : /\ Flow(d)' = Flow(d)
                           /\ scene'[d].player_turn = scene[d].player_turn
                           /\ scene[d].assigned_team # 0 =>
                                 scene'[d].assigned_team = scene[d].assigned_team
    BY <1>1, <1>2, <1>3, <2>1
  <2> QED
    BY <1>6, <2>2, TurnRests
<1>8. Flow(c) = <<>> => q = <<>> /\ rest = <<>>
  <2>1. Len(q \o rest) = Len(q) + Len(rest) /\ Len(q) \in Nat /\ Len(rest) \in Nat
    BY <1>1, ConcatProperties
  <2>2. Flow(c) = <<>> => Len(q) = 0 /\ Len(rest) = 0
    BY <1>2, <2>1
  <2> QED
    BY <1>1, <2>2
<1>9. ASSUME Listening(s), Flow(c) # <<>>
      PROVE  Turned'
  <2> DEFINE a == Mate(c)
  <2>2. PassesTurn(a)
    <3>1. PICK b \in Clients : HasTurn(b) \/ PassesTurn(b)
      BY DEF Turned
    <3> QED
      BY <1>3, <1>9, <3>1 DEF HasTurn, PassesTurn
  <2>1. s.assigned_team = c + 1 /\ scene[c].player_turn = a + 1
    <3>1. scene[c].player_turn = a + 1
      BY <1>3, <2>2 DEF PassesTurn
    <3>2. Mate((a + 1) - 1) + 1 = c + 1
      BY DEF Mate, Clients
    <3> QED
      BY <1>1, <1>9, <3>1, <3>2
  <2>3. /\ scene'[c].assigned_team = c + 1 /\ scene'[c] = r
        /\ scene'[a].player_turn = c + 1 /\ scene'[a].assigned_team = a + 1
        /\ Flow(a)' = <<>> /\ Flow(c)' = rest /\ EndsLast(Flow(c))
        /\ Clients \subseteq live'
    BY <1>1, <1>2, <1>3, <1>4, <1>6, <1>9, <2>1, <2>2 DEF PassesTurn, Sided
  <2>6. Sided(a)' /\ Sided(c)'
    BY <1>3, <2>3 DEF Sided, Clients, Mate
  <2>4. CASE rest = <<>>
    <3>1. EndsLast(q)
      BY <1>1, <1>2, <2>3, <2>4, EndsSplit
    <3>2. q # <<>> /\ \A i \in 1 .. Len(q) : q[i].name = "endturn" <=> i = Len(q)
      BY <3>1 DEF EndsLast
    <3>3. Len(q) \in 1 .. Len(q)
      BY <1>1, <3>2
    <3>4. r.player_turn = c + 1
      BY <1>1, <1>3, <1>5, <2>1, <3>2, <3>3
    <3>5. HasTurn(c)'
      BY <1>3, <2>3, <2>4, <2>6, <3>4 DEF HasTurn
    <3> QED
      BY <3>5 DEF Turned
  <2>5. CASE rest # <<>>
    <3>1. EndsLast(rest) /\ \A i \in 1 .. Len(q) : q[i].name # "endturn"
      BY <1>1, <1>2, <2>3, <2>5, EndsSplit
    <3>2. r.player_turn = a + 1
      <4>1. q # <<>> => Len(q) \in 1 .. Len(q)
        BY <1>1
      <4> QED
        BY <1>1, <1>5, <2>1, <3>1, <4>1
    <3>3. (EndsLast(Flow(c)))'
      BY <2>3, <3>1 DEF EndsLast
    <3>4. PassesTurn(a)'
      BY <1>3, <2>3, <2>6, <3>2, <3>3 DEF PassesTurn
    <3> QED
      BY <1>3, <3>4 DEF Turned
  <2> QED
    BY <2>4, <2>5
<1> QED
  BY <1>7, <1>8, <1>9

LEMMA TurnMain ==
    ASSUME TwoPlayers, Typed, Meeting, Turned, NEW c \in Uids, MainThread(c)
    PROVE  Turned'
<1>1. c \in Clients /\ Plays(c)
  BY MainPlays
<1>2. CASE PlayFrame(c)
  BY <1>1, <1>2, TurnFrame
<1>3. CASE BeginUpdate(c) \/ AssignTeamLate(c) \/ IdleFrame(c)
  <2>1. UNCHANGED <<live, inbox, events, outbox, comp>>
    BY <1>3 DEF BeginUpdate, AssignTeamLate, IdleFrame, transportVars
  <2>2. \A d \in Clients : Flow(d)' = Flow(d)
    BY <2>1, FlowSame
  <2>3. \A d \in Clients : /\ scene'[d].player_turn = scene[d].player_turn
                           /\ scene[d].assigned_team # 0 =>
                                 scene'[d].assigned_team = scene[d].assigned_team
    <3>1. CASE BeginUpdate(c)
      BY <3>1 DEF BeginUpdate
    <3>2. CASE IdleFrame(c)
      <4>1. /\ AssignTeam(c).player_turn = scene[c].player_turn
            /\ scene[c].assigned_team # 0 =>
                  AssignTeam(c).assigned_team = scene[c].assigned_team
        BY <1>1, <3>2, OwnSide DEF IdleFrame, Meeting
      <4>2. /\ scene' = [scene EXCEPT ![c] = AssignTeam(c)]
            /\ scene \in [Uids -> Scenes] /\ \A d \in Clients : d \in Uids
        BY <3>2, ClientFacts DEF IdleFrame, Typed, ClientsTyped
      <4> HIDE DEF AssignTeam
      <4> QED
        BY <4>1, <4>2
    <3>3. CASE AssignTeamLate(c)
      BY <1>1, <3>3, ClientFacts DEF AssignTeamLate, Typed, ClientsTyped, Scenes
    <3> QED
      BY <1>3, <3>1, <3>2, <3>3
  <2> QED
    BY <2>1, <2>2, <2>3, TurnRests
<1> QED
  BY <1>1, <1>2, <1>3 DEF Plays

LEMMA TurnSteps ==
    ASSUME TwoPlayers, Typed, KnownIds, Meeting, Turned, leaves \in Nat, leaves' = 0,
           [Next]_vars
    PROVE  Turned'
<1>1. CASE UNCHANGED <<live, scene, comp, inbox, events, outbox>>
  <2>1. \A d \in Clients : Flow(d)' = Flow(d)
    BY <1>1, FlowSame
  <2> QED
    BY <1>1, <2>1, TurnRests
<1>2. CASE \/ OnClientConnect \/ ForwardData \/ Launch
           \/ \E c \in Up : Flush(c) \/ Consume(c)
  <2>1. \A d \in Clients : Flow(d)' = Flow(d)
    BY <1>2, FlowArrival, FlowForward, FlowLaunch, FlowFlush, FlowConsume
  <2>2. scene' = scene
    BY <1>2 DEF OnClientConnect, ForwardData, Launch, Flush, Consume, clientVars
  <2>3. live \subseteq live'
    BY <1>2 DEF OnClientConnect, ForwardData, Launch, Flush, Consume, Connect,
                DispatchConnect, DispatchReceive, Receive, Take
  <2> QED
    BY <2>1, <2>2, <2>3, TurnRests
<1>3. CASE \E c \in Uids : MainThread(c) \/ Player(c)
  BY <1>3, TurnMain, TurnPlayer
<1>4. CASE UNCHANGED vars
  BY <1>1, <1>4 DEF vars, clientVars, transportVars
<1> QED
  BY <1>2, <1>3, <1>4, NobodyLeaves

(* The session before anyone has come. *)
LEMMA FirstTurn ==
    ASSUME TwoPlayers, Init
    PROVE  Meeting /\ HasTurn(0)
<1>1. /\ nextUid = 0 /\ live = {} /\ breaking = {} /\ events = <<>> /\ connected = <<>>
      /\ gameActive = FALSE
      /\ \A c \in Clients : /\ c \in Uids
                            /\ inbox[c] = <<>> /\ outbox[c] = <<>>
                            /\ comp[c] = FreshComponent /\ scene[c] = FreshScene
                            /\ main[c] = "top"
  BY ClientFacts DEF Init, TransportInit
<1>2. \A F : Extract(F, <<>>) = <<>>
  BY ExtractEmpty
<1>3. Gathered
  <2>1. connected \o Extract(CameOf, events) = <<>>
    BY <1>1, <1>2
  <2>2. [i \in 1 .. nextUid |-> i - 1] = <<>> /\ live = 0 .. nextUid - 1
    BY <1>1
  <2> QED
    BY <1>1, <2>1, <2>2 DEF Gathered
<1>4. ASSUME NEW c \in Clients PROVE Plain(c)
  <2>1. /\ FreshComponent.user_ID = -1 /\ FreshComponent.is_lobby
        /\ ~FreshComponent.is_reconnecting /\ ~FreshComponent.update_complete
        /\ FreshScene.assigned_team = 0
    BY DEF FreshComponent, FreshScene
  <2>2. Len(<<>>) = 0
    OBVIOUS
  <2> QED
    BY <1>1, <2>1, <2>2 DEF Plain
<1>5. ASSUME NEW c \in Clients PROVE Flow(c) = <<>>
  <2>1. Mate(c) \in Clients
    BY ClientFacts
  <2>2. Flow(c) = Join(<<>>, <<>>, <<>>, <<>>)
    BY <1>1, <1>2, <2>1 DEF Flow, FreshComponent
  <2> QED
    BY <2>2 DEF Join
<1>6. HasTurn(0)
  BY <1>1, <1>5, ClientFacts DEF HasTurn, FreshScene, Clients, Mate
<1> QED
  BY <1>3, <1>4, <1>6 DEF Meeting

--------------------------------------------------------------------------------
(* Where the packet that ends the turn is.                                    *)

NoEnds(f) == \A i \in 1 .. Len(f) : f[i].name # "endturn"

Singles(F, E) == \A e \in E : F[e] = <<>> \/ F[e] = <<F[e][1]>>
Ending(F, e) == F[e] # <<>> /\ F[e][1].name = "endturn"

LEMMA EndParts ==
    ASSUME NEW S, NEW q \in Seq(S), NEW x \in Seq(S), NEW y \in Seq(S), NEW z \in Seq(S),
           EndsLast(Join(q, x, y, z))
    PROVE  \/ EndsLast(q) /\ NoEnds(x) /\ NoEnds(y) /\ NoEnds(z)
           \/ NoEnds(q) /\ EndsLast(x) /\ NoEnds(y) /\ NoEnds(z)
           \/ NoEnds(q) /\ NoEnds(x) /\ EndsLast(y) /\ NoEnds(z)
           \/ NoEnds(q) /\ NoEnds(x) /\ NoEnds(y) /\ EndsLast(z)
<1>1. \A f, g \in Seq(S) : NoEnds(f \o g) => NoEnds(f) /\ NoEnds(g)
  <2> TAKE f, g \in Seq(S)
  <2>1. /\ Len(f \o g) = Len(f) + Len(g) /\ Len(f) \in Nat /\ Len(g) \in Nat
        /\ \A i \in 1 .. Len(f) + Len(g) :
              (f \o g)[i] = IF i <= Len(f) THEN f[i] ELSE g[i - Len(f)]
    BY ConcatProperties
  <2>2. \A i \in 1 .. Len(f) : i \in 1 .. Len(f \o g) /\ (f \o g)[i] = f[i]
    BY <2>1
  <2>3. \A i \in 1 .. Len(g) : /\ Len(f) + i \in 1 .. Len(f \o g)
                               /\ (f \o g)[Len(f) + i] = g[i]
    <3> TAKE i \in 1 .. Len(g)
    <3>1. /\ Len(f) + i \in 1 .. Len(f) + Len(g) /\ ~(Len(f) + i <= Len(f))
          /\ (Len(f) + i) - Len(f) = i
      BY <2>1
    <3> QED
      BY <2>1, <3>1
  <2> QED
    BY <2>2, <2>3 DEF NoEnds
<1>2. \A f, g \in Seq(S) : f \o g \in Seq(S) /\ (EndsLast(f \o g) =>
                              (EndsLast(f) /\ NoEnds(g)) \/ (NoEnds(f) /\ EndsLast(g)))
  <2> TAKE f, g \in Seq(S)
  <2>1. f \o g \in Seq(S)
    BY ConcatProperties
  <2>2. CASE EndsLast(f \o g)
    <3>1. /\ g = <<>> => EndsLast(f)
          /\ g # <<>> => EndsLast(g) /\ \A i \in 1 .. Len(f) : f[i].name # "endturn"
      BY <2>2, EndsSplit
    <3>2. g = <<>> => NoEnds(g)
      BY DEF NoEnds
    <3> QED
      BY <2>1, <3>1, <3>2 DEF NoEnds
  <2> QED
    BY <2>1, <2>2
<1>3. q \o x \in Seq(S) /\ (q \o x) \o y \in Seq(S)
  BY <1>2
<1>4. \/ EndsLast((q \o x) \o y) /\ NoEnds(z)
      \/ NoEnds((q \o x) \o y) /\ EndsLast(z)
  BY <1>2, <1>3 DEF Join
<1>5. NoEnds((q \o x) \o y) => NoEnds(q) /\ NoEnds(x) /\ NoEnds(y)
  BY <1>1, <1>3
<1>6. EndsLast((q \o x) \o y) => \/ EndsLast(q \o x) /\ NoEnds(y)
                                 \/ NoEnds(q \o x) /\ EndsLast(y)
  BY <1>2, <1>3
<1>7. NoEnds(q \o x) => NoEnds(q) /\ NoEnds(x)
  BY <1>1
<1>8. EndsLast(q \o x) => (EndsLast(q) /\ NoEnds(x)) \/ (NoEnds(q) /\ EndsLast(x))
  BY <1>2
<1> QED
  BY <1>4, <1>5, <1>6, <1>7, <1>8, Zenon

(* What one element yields is a part of what the sequence yields. *)
LEMMA EndingAt ==
    ASSUME NEW E, NEW T, NEW F, Maps(F, E, T), Singles(F, E), NEW p \in Seq(E),
           NEW i \in 1 .. Len(p), Ending(F, p[i])
    PROVE  /\ ~NoEnds(Extract(F, p))
           /\ EndsLast(Extract(F, p)) => \A j \in i + 1 .. Len(p) : ~Ending(F, p[j])
<1> DEFINE a == Extract(F, Before(p, i))
           m == F[p[i]]
           v == m[1]
           b == Extract(F, Behind(p, i))
           q == a \o m
<1>1. /\ Before(p, i) \in Seq(E) /\ Behind(p, i) \in Seq(E)
      /\ Len(Behind(p, i)) = Len(p) - i
      /\ \A j \in 1 .. Len(p) - i : Behind(p, i)[j] = p[i + j]
      /\ p[i] \in E /\ Len(p) \in Nat
  <2>1. p[i] \in E /\ Len(p) \in Nat
    OBVIOUS
  <2>2. /\ Before(p, i) \in Seq(E) /\ Behind(p, i) \in Seq(E)
        /\ Len(Behind(p, i)) = Len(p) - i
        /\ \A j \in 1 .. Len(p) - i : Behind(p, i)[j] = p[i + j]
    BY SplitShape
  <2> QED
    BY <2>1, <2>2
<1>2. a \in Seq(T) /\ b \in Seq(T)
  BY <1>1, ExtractType
<1>3. m \in Seq(T) /\ m = <<v>> /\ m # <<>> /\ v.name = "endturn"
  BY <1>1 DEF Maps, Singles, Ending
<1>4. Extract(F, p) = q \o b
  BY ExtractSplit
<1>5. b = <<>> => \A j \in i + 1 .. Len(p) : ~Ending(F, p[j])
  <2> SUFFICES ASSUME b = <<>>, NEW j \in i + 1 .. Len(p) PROVE ~Ending(F, p[j])
    OBVIOUS
  <2>1. \A k \in 1 .. Len(Behind(p, i)) : F[Behind(p, i)[k]] = <<>>
    BY <1>1, ExtractNothing
  <2>2. j - i \in 1 .. Len(p) - i /\ i + (j - i) = j
    BY <1>1
  <2>3. Behind(p, i)[j - i] = p[i + (j - i)] /\ F[Behind(p, i)[j - i]] = <<>>
    BY <1>1, <2>1, <2>2
  <2> QED
    BY <2>2, <2>3 DEF Ending
<1> HIDE DEF a, b, m, v
<1>6. /\ q \in Seq(T) /\ Len(q) \in Nat /\ Len(q) \in 1 .. Len(q)
      /\ q[Len(q)].name = "endturn"
  <2>1. v \in T
    BY <1>3
  <2>2. q = Append(a, v)
    BY <1>2, <1>3, <2>1, AppendIsConcat
  <2>3. Append(a, v) \in Seq(T) /\ Len(Append(a, v)) = Len(a) + 1 /\ Len(a) \in Nat
        /\ Append(a, v)[Len(a) + 1] = v
    BY <1>2, <2>1
  <2> QED
    BY <1>3, <2>2, <2>3
<1> HIDE DEF q
<1>7. Len(q) \in 1 .. Len(q \o b) /\ (q \o b)[Len(q)] = q[Len(q)]
  <2>1. /\ Len(q \o b) = Len(q) + Len(b) /\ Len(b) \in Nat
        /\ \A k \in 1 .. Len(q) + Len(b) :
              (q \o b)[k] = IF k <= Len(q) THEN q[k] ELSE b[k - Len(q)]
    BY <1>2, <1>6, ConcatProperties
  <2> QED
    BY <1>6, <2>1
<1>8. EndsLast(q \o b) => b = <<>>
  BY <1>2, <1>6, EndsSplit
<1> QED
  BY <1>4, <1>5, <1>6, <1>7, <1>8 DEF NoEnds

LEMMA EndOnce ==
    ASSUME NEW E, NEW T, NEW F, Maps(F, E, T), Singles(F, E), NEW p \in Seq(E)
    PROVE  /\ NoEnds(Extract(F, p)) => \A i \in 1 .. Len(p) : ~Ending(F, p[i])
           /\ EndsLast(Extract(F, p)) =>
                 \E i \in 1 .. Len(p) : \A j \in 1 .. Len(p) : Ending(F, p[j]) <=> j = i
<1> DEFINE x == Extract(F, p)
<1>1. NoEnds(x) => \A i \in 1 .. Len(p) : ~Ending(F, p[i])
  BY EndingAt
<1>2. ASSUME EndsLast(x)
      PROVE  \E i \in 1 .. Len(p) : \A j \in 1 .. Len(p) : Ending(F, p[j]) <=> j = i
  <2>1. x \in Seq(T)
    BY ExtractType
  <2>2. Len(x) \in 1 .. Len(x) /\ x[Len(x)].name = "endturn"
    <3> HIDE DEF x
    <3>1. Len(x) \in 1 .. Len(x)
      BY <1>2, <2>1 DEF EndsLast
    <3> QED
      BY <1>2, <3>1 DEF EndsLast
  <2>3. PICK i \in 1 .. Len(p) : \E j \in 1 .. Len(F[p[i]]) : x[Len(x)] = F[p[i]][j]
    BY <2>2, ExtractFrom
  <2>4. Ending(F, p[i])
    <3> DEFINE m == F[p[i]]
               v == m[1]
    <3>1. p[i] \in E /\ m \in Seq(T)
      BY DEF Maps
    <3>2. PICK j \in 1 .. Len(m) : x[Len(x)] = m[j]
      BY <2>3
    <3>3. m # <<>>
      BY <3>2
    <3>4. m = <<v>>
      BY <3>1, <3>3 DEF Singles
    <3> HIDE DEF m, v
    <3>5. j = 1 /\ m[1] = v
      BY <3>2, <3>4
    <3>6. m # <<>> /\ m[1].name = "endturn"
      BY <2>2, <3>2, <3>3, <3>5
    <3> QED
      BY <3>6 DEF Ending, m
  <2>5. ASSUME NEW j \in 1 .. Len(p), Ending(F, p[j]) PROVE j = i
    <3>1. ~(i < j)
      <4>1. \A k \in i + 1 .. Len(p) : ~Ending(F, p[k])
        BY <1>2, <2>4, EndingAt
      <4> QED
        BY <2>5, <4>1
    <3>2. ~(j < i)
      <4>1. \A k \in j + 1 .. Len(p) : ~Ending(F, p[k])
        BY <1>2, <2>5, EndingAt
      <4> QED
        BY <2>4, <4>1
    <3> QED
      BY <3>1, <3>2
  <2> QED
    BY <2>4, <2>5
<1> QED
  BY <1>1, <1>2

LEMMA UnitEnds ==
    /\ Singles(UnitOf, Packets)
    /\ \A p \in Packets : Ending(UnitOf, p) <=> EndsTurn(p)
    /\ \A c : /\ Singles(UnitFrom(c), ClientEvents)
              /\ \A e \in ClientEvents :
                    Ending(UnitFrom(c), e) <=>
                       e.type = "receive" /\ e.client = c /\ EndsTurn(e.msg)
<1>1. \A p \in Packets : \/ p.type = "unit" /\ UnitOf[p] = <<p.msg>>
                         \/ p.type # "unit" /\ UnitOf[p] = <<>>
  BY UnitOfType
<1>2. \A m : <<m>> # <<>> /\ <<m>>[1] = m
  OBVIOUS
<1>3. \A p \in Packets : /\ UnitOf[p] = <<>> \/ UnitOf[p] = <<UnitOf[p][1]>>
                         /\ Ending(UnitOf, p) <=> EndsTurn(p)
  BY <1>1, <1>2 DEF Ending, EndsTurn
<1>4. ASSUME NEW c, NEW e \in ClientEvents
      PROVE  /\ UnitFrom(c)[e] = <<>> \/ UnitFrom(c)[e] = <<UnitFrom(c)[e][1]>>
             /\ Ending(UnitFrom(c), e) <=>
                   e.type = "receive" /\ e.client = c /\ EndsTurn(e.msg)
  <2>1. UnitFrom(c)[e] = IF e.type = "receive" /\ e.client = c THEN UnitOf[e.msg] ELSE <<>>
    BY UnitFromType
  <2>2. CASE e.type = "receive" /\ e.client = c
    <3>1. e.msg \in Packets
      BY <2>2 DEF ClientEvents, Packets
    <3>2. UnitFrom(c)[e] = UnitOf[e.msg]
      BY <2>1, <2>2
    <3>3. Ending(UnitFrom(c), e) <=> Ending(UnitOf, e.msg)
      BY <3>2 DEF Ending
    <3> QED
      BY <1>3, <2>2, <3>1, <3>2, <3>3
  <2>3. CASE ~(e.type = "receive" /\ e.client = c)
    BY <2>1, <2>3 DEF Ending
  <2> QED
    BY <2>2, <2>3
<1> QED
  BY <1>3, <1>4 DEF Singles

QueueEnds(c) == {i \in DOMAIN comp[c].unit_update_queue :
                   comp[c].unit_update_queue[i].name = "endturn"}
ServerEnds(c) == {i \in DOMAIN events : /\ events[i].type = "receive" /\ events[i].client = c
                                        /\ EndsTurn(events[i].msg)}

(* One of four sets has one element, the others have none. *)
OneOfFour(A, B, C, D) ==
    \E i : \/ A = {i} /\ B = {} /\ C = {} /\ D = {}
           \/ A = {} /\ B = {i} /\ C = {} /\ D = {}
           \/ A = {} /\ B = {} /\ C = {i} /\ D = {}
           \/ A = {} /\ B = {} /\ C = {} /\ D = {i}

LEMMA FlowEnds ==
    ASSUME TwoPlayers, Typed, NEW d \in Clients
    PROVE  /\ Flow(d) = <<>> =>
                 /\ QueueEnds(d) = {} /\ EndsIn(inbox[d]) = {}
                 /\ ServerEnds(Mate(d)) = {} /\ EndsIn(outbox[Mate(d)]) = {}
           /\ EndsLast(Flow(d)) =>
                 OneOfFour(QueueEnds(d), EndsIn(inbox[d]),
                           ServerEnds(Mate(d)), EndsIn(outbox[Mate(d)]))
<1> DEFINE q == comp[d].unit_update_queue
           x == Extract(UnitOf, inbox[d])
           y == Extract(UnitFrom(Mate(d)), events)
           z == Extract(UnitOf, outbox[Mate(d)])
           One(A, f) == /\ NoEnds(f) => A = {}
                        /\ EndsLast(f) => \E i : A = {i}
<1>1. /\ q \in Seq(UnitMsgs) /\ x \in Seq(UnitMsgs) /\ y \in Seq(UnitMsgs) /\ z \in Seq(UnitMsgs)
      /\ inbox[d] \in Seq(Packets) /\ outbox[Mate(d)] \in Seq(Packets)
      /\ events \in Seq(ClientEvents)
  BY FlowParts
<1>2. \A p \in Seq(Packets) : DOMAIN p = 1 .. Len(p) /\ \A i \in 1 .. Len(p) : p[i] \in Packets
  OBVIOUS
<1>3. ASSUME NEW p \in Seq(Packets) PROVE One(EndsIn(p), Extract(UnitOf, p))
  <2>1. /\ NoEnds(Extract(UnitOf, p)) => \A i \in 1 .. Len(p) : ~Ending(UnitOf, p[i])
        /\ EndsLast(Extract(UnitOf, p)) =>
              \E i \in 1 .. Len(p) : \A j \in 1 .. Len(p) : Ending(UnitOf, p[j]) <=> j = i
    BY UnitOfType, UnitEnds, EndOnce
  <2>2. EndsIn(p) = {i \in 1 .. Len(p) : Ending(UnitOf, p[i])}
    BY <1>2, UnitEnds DEF EndsIn
  <2> QED
    BY <2>1, <2>2
<1>4. One(ServerEnds(Mate(d)), y)
  <2> DEFINE F == UnitFrom(Mate(d))
  <2>1. Maps(F, ClientEvents, UnitMsgs) /\ Singles(F, ClientEvents)
    BY UnitFromType, UnitEnds
  <2>2. ServerEnds(Mate(d)) = {i \in 1 .. Len(events) : Ending(F, events[i])}
    <3>1. DOMAIN events = 1 .. Len(events) /\ \A i \in 1 .. Len(events) : events[i] \in ClientEvents
      BY <1>1
    <3> QED
      BY <3>1, UnitEnds DEF ServerEnds
  <2>3. y = Extract(F, events)
    OBVIOUS
  <2> HIDE DEF F, y
  <2>4. /\ NoEnds(y) => \A i \in 1 .. Len(events) : ~Ending(F, events[i])
        /\ EndsLast(y) =>
              \E i \in 1 .. Len(events) :
                 \A j \in 1 .. Len(events) : Ending(F, events[j]) <=> j = i
    BY <1>1, <2>1, <2>3, EndOnce
  <2>5. NoEnds(y) => ServerEnds(Mate(d)) = {}
    BY <2>2, <2>4
  <2>6. ASSUME EndsLast(y) PROVE \E i : ServerEnds(Mate(d)) = {i}
    <3>1. PICK i \in 1 .. Len(events) :
             \A j \in 1 .. Len(events) : Ending(F, events[j]) <=> j = i
      BY <2>4, <2>6
    <3>2. ServerEnds(Mate(d)) = {i}
      BY <2>2, <3>1
    <3> QED
      BY <3>2
  <2> QED
    BY <2>5, <2>6
<1>5. One(QueueEnds(d), q)
  <2>1. DOMAIN q = 1 .. Len(q) /\ Len(q) \in Nat
    BY <1>1
  <2>2. EndsLast(q) => Len(q) \in 1 .. Len(q)
    BY <1>1 DEF EndsLast
  <2>3. QueueEnds(d) = {i \in 1 .. Len(q) : q[i].name = "endturn"}
    BY <2>1 DEF QueueEnds
  <2> HIDE DEF q
  <2>4. NoEnds(q) => QueueEnds(d) = {}
    BY <2>3 DEF NoEnds
  <2>5. EndsLast(q) => QueueEnds(d) = {Len(q)}
    BY <2>2, <2>3 DEF EndsLast
  <2> QED
    BY <2>4, <2>5
<1>6. One(EndsIn(inbox[d]), x) /\ One(EndsIn(outbox[Mate(d)]), z)
  BY <1>1, <1>3
<1>7. Flow(d) = <<>> => NoEnds(q) /\ NoEnds(x) /\ NoEnds(y) /\ NoEnds(z)
  <2>1. Flow(d) = Join(q, x, y, z)
    BY DEF Flow
  <2> HIDE DEF q, x, y, z
  <2>2. Join(q, x, y, z) = <<>> => q = <<>> /\ x = <<>> /\ y = <<>> /\ z = <<>>
    BY <1>1, JoinEmpty
  <2>3. NoEnds(<<>>)
    BY DEF NoEnds
  <2> QED
    BY <2>1, <2>2, <2>3
<1>8. EndsLast(Flow(d)) =>
         \/ EndsLast(q) /\ NoEnds(x) /\ NoEnds(y) /\ NoEnds(z)
         \/ NoEnds(q) /\ EndsLast(x) /\ NoEnds(y) /\ NoEnds(z)
         \/ NoEnds(q) /\ NoEnds(x) /\ EndsLast(y) /\ NoEnds(z)
         \/ NoEnds(q) /\ NoEnds(x) /\ NoEnds(y) /\ EndsLast(z)
  <2>1. Flow(d) = Join(q, x, y, z)
    BY DEF Flow
  <2> HIDE DEF q, x, y, z
  <2> QED
    BY <1>1, <2>1, EndParts
<1> HIDE DEF q, x, y, z
<1> QED
  BY <1>4, <1>5, <1>6, <1>7, <1>8 DEF OneOfFour

Places(c) ==
    EndsAt("outbox", c, EndsIn(outbox[c])) \cup EndsAt("server", c, ServerEnds(c))
    \cup EndsAt("inbox", c, EndsIn(inbox[c])) \cup EndsAt("queue", c, QueueEnds(c))

Spot(place, c, i) == <<place, c, i>>

LEMMA EndsAtOne == \A place, c, i : EndsAt(place, c, {i}) = {Spot(place, c, i)}
  BY DEF EndsAt, Spot

LEMMA AtMostOne ==
    ASSUME NEW A, A = {} \/ \E x : A = {x}
    PROVE  Cardinality(A) <= 1
<1>1. CASE A = {}
  BY <1>1, FS_EmptySet
<1>2. CASE \E x : A = {x}
  BY <1>2, FS_Singleton
<1> QED
  BY <1>1, <1>2

LEMMA TurnAround ==
    ASSUME TwoPlayers, Typed, Meeting, Turned
    PROVE  /\ Cardinality(TurnsAround) <= 1
           /\ \A c \in Up : comp[c].user_ID = 0 /\ scene[c].assigned_team # 0 =>
                 (TurnsAround # {} <=> scene[c].assigned_team = 1)
<1>1. /\ EndsTravelling = UNION {Places(c) : c \in Up}
      /\ \A place, c : EndsAt(place, c, {}) = {}
  BY DEF EndsTravelling, Places, QueueEnds, ServerEnds, EndsAt
<1>2. Up = live /\ Up \subseteq Clients
  BY UpFacts DEF Meeting
<1>3. \A c \in Clients : /\ Mate(c) \in Clients /\ Mate(c) # c /\ Mate(Mate(c)) = c
                         /\ c + 1 # Mate(c) + 1 /\ c + 1 # 0
                         /\ \A d \in Clients : /\ d = c \/ d = Mate(c)
                                               /\ d + 1 = c + 1 => d = c
  BY ClientFacts DEF Clients, Mate
<1>4. \A c \in Clients : /\ scene[c].assigned_team \in {0, c + 1, 2}
                         /\ c \notin live => scene[c].assigned_team = 0
                         /\ comp[c].user_ID = 0 => c = 0
  BY DEF Meeting, Plain, FreshScene, Clients
<1>5. \A c \in Clients : Flow(c) = <<>> =>
         /\ QueueEnds(c) = {} /\ EndsIn(inbox[c]) = {}
         /\ ServerEnds(Mate(c)) = {} /\ EndsIn(outbox[Mate(c)]) = {}
  BY FlowEnds
<1>6. PICK a \in Clients : HasTurn(a) \/ PassesTurn(a)
  BY DEF Turned
<1>7. CASE HasTurn(a)
  <2>1. \A c \in Clients : Flow(c) = <<>>
    BY <1>3, <1>7 DEF HasTurn
  <2>2. \A c \in Clients : /\ QueueEnds(c) = {} /\ EndsIn(inbox[c]) = {}
                           /\ ServerEnds(c) = {} /\ EndsIn(outbox[c]) = {}
    BY <1>3, <1>5, <2>1
  <2>3. \A c \in Clients : Places(c) = {}
    BY <1>1, <2>2 DEF Places
  <2>4. EndsTravelling = {}
    BY <1>1, <1>2, <2>3
  <2>5. \A c \in Clients : scene[c].player_turn = a + 1
    BY <1>3, <1>6, <1>7 DEF HasTurn
  <2>6. /\ Holders = {} \/ Holders = {a}
        /\ Holders = {a} <=> a \in Up /\ scene[a].assigned_team = a + 1
    <3>1. \A c \in Up : scene[c].assigned_team = a + 1 => c = a
      BY <1>2, <1>4, <1>7 DEF HasTurn, Sided, Clients
    <3> QED
      BY <1>2, <2>5, <3>1 DEF Holders
  <2>7. TurnsAround = {} \/ TurnsAround = {Spot("scene", 0, a)}
    <3>1. EndsAt("scene", 0, {a}) = {Spot("scene", 0, a)}
      BY EndsAtOne
    <3> QED
      BY <1>1, <2>4, <2>6, <3>1 DEF TurnsAround
  <2>8. ASSUME NEW c \in Up, comp[c].user_ID = 0, scene[c].assigned_team # 0
        PROVE  Holders = {a} <=> scene[c].assigned_team = 1
    <3>1. c = 0
      BY <1>2, <1>4, <2>8
    <3>2. a # 0 => scene[0].assigned_team = 1 /\ scene[a].assigned_team = a + 1
      BY <1>7 DEF HasTurn, Sided
    <3>3. scene[a].assigned_team = a + 1 => a \in Up
      BY <1>2, <1>3, <1>4
    <3> QED
      BY <2>6, <2>8, <3>1, <3>2, <3>3
  <2>9. Holders = {a} <=> TurnsAround # {}
    <3>1. EndsAt("scene", 0, {a}) = {Spot("scene", 0, a)}
      BY EndsAtOne
    <3> QED
      BY <1>1, <2>4, <2>6, <3>1 DEF TurnsAround
  <2> QED
    BY <2>7, <2>8, <2>9, AtMostOne
<1>8. CASE PassesTurn(a)
  <2> DEFINE d == Mate(a)
  <2>1. /\ d \in Clients /\ Mate(d) = a /\ Up = {a, d}
        /\ scene[a].player_turn = d + 1 /\ scene[d].player_turn = a + 1
        /\ Sided(a) /\ Flow(a) = <<>> /\ EndsLast(Flow(d))
    BY <1>2, <1>3, <1>6, <1>8 DEF PassesTurn
  <2>2. Holders = {}
    BY <1>3, <1>4, <2>1 DEF Holders, Sided, Clients, Mate
  <2>3. /\ QueueEnds(a) = {} /\ EndsIn(inbox[a]) = {}
        /\ ServerEnds(d) = {} /\ EndsIn(outbox[d]) = {}
    BY <1>5, <2>1
  <2>4. OneOfFour(QueueEnds(d), EndsIn(inbox[d]), ServerEnds(a), EndsIn(outbox[a]))
    BY <2>1, FlowEnds
  <2> HIDE DEF d
  <2>5. /\ Places(a) = EndsAt("outbox", a, EndsIn(outbox[a])) \cup EndsAt("server", a, ServerEnds(a))
        /\ Places(d) = EndsAt("inbox", d, EndsIn(inbox[d])) \cup EndsAt("queue", d, QueueEnds(d))
    BY <1>1, <2>3 DEF Places
  <2>6. TurnsAround = Places(a) \cup Places(d)
    BY <1>1, <2>1, <2>2 DEF TurnsAround
  <2>7. \E x : TurnsAround = {x}
    <3>1. PICK i : \/ /\ QueueEnds(d) = {i} /\ EndsIn(inbox[d]) = {}
                      /\ ServerEnds(a) = {} /\ EndsIn(outbox[a]) = {}
                   \/ /\ QueueEnds(d) = {} /\ EndsIn(inbox[d]) = {i}
                      /\ ServerEnds(a) = {} /\ EndsIn(outbox[a]) = {}
                   \/ /\ QueueEnds(d) = {} /\ EndsIn(inbox[d]) = {}
                      /\ ServerEnds(a) = {i} /\ EndsIn(outbox[a]) = {}
                   \/ /\ QueueEnds(d) = {} /\ EndsIn(inbox[d]) = {}
                      /\ ServerEnds(a) = {} /\ EndsIn(outbox[a]) = {i}
      BY <2>4 DEF OneOfFour
    <3>2. \A A : A \cup {} = A /\ {} \cup A = A
      OBVIOUS
    <3>3. \/ TurnsAround = EndsAt("queue", d, {i}) \/ TurnsAround = EndsAt("inbox", d, {i})
          \/ TurnsAround = EndsAt("server", a, {i}) \/ TurnsAround = EndsAt("outbox", a, {i})
      BY <1>1, <2>5, <2>6, <3>1, <3>2, Zenon
    <3>4. \/ TurnsAround = {Spot("queue", d, i)} \/ TurnsAround = {Spot("inbox", d, i)}
          \/ TurnsAround = {Spot("server", a, i)} \/ TurnsAround = {Spot("outbox", a, i)}
      BY <3>3, EndsAtOne
    <3> QED
      BY <3>4
  <2>8. ASSUME NEW c \in Up, comp[c].user_ID = 0 PROVE scene[c].assigned_team = 1
    BY <1>2, <1>4, <2>1, <2>8 DEF Sided
  <2> QED
    BY <2>7, <2>8, AtMostOne
<1> QED
  BY <1>6, <1>7, <1>8

(* The invariant of two players who stay. *)
TurnInv == leaves \in Nat /\ (leaves = 0 => Meeting /\ Turned)

LEMMA LeavesCount ==
    ASSUME [Next]_vars, leaves \in Nat
    PROVE  leaves' \in Nat /\ (leaves' = 0 => leaves = 0)
<1>1. \/ leaves' = leaves
      \/ leaves' = leaves + 1
  BY DEF Next, vars, bounds, Server, OnClientConnect, ForwardData, ResumeBoth, ResumePastEnd,
         OnClientDisconnect, Detect, Launch, ConsumerThread, Flush, Consume, MainThread,
         BeginUpdate, AssignTeamLate, UpdateReconnectee, ResetReadyToSend,
         ResumeFromSnapshot, PlayFrame, IdleFrame, Player, Move, Attack, NextTurnPressed, Leave
<1> QED
  BY <1>1

LEMMA TurnHolds ==
    ASSUME TwoPlayers
    PROVE  Spec => []TurnInv
<1>1. Init => TurnInv
  <2> SUFFICES ASSUME Init PROVE TurnInv
    OBVIOUS
  <2>1. Meeting /\ HasTurn(0) /\ 0 \in Clients
    BY FirstTurn DEF Clients
  <2>2. leaves \in Nat
    BY DEF Init
  <2> QED
    BY <2>1, <2>2 DEF TurnInv, Turned
<1>2. SessionInv /\ TurnInv /\ [Next]_vars => TurnInv'
  <2> SUFFICES ASSUME SessionInv, TurnInv, [Next]_vars PROVE TurnInv'
    OBVIOUS
  <2>1. leaves \in Nat /\ leaves' \in Nat /\ (leaves' = 0 => leaves = 0)
    BY LeavesCount DEF TurnInv
  <2>2. leaves' = 0 => Meeting' /\ Turned'
    BY <2>1, MeetSteps, TurnSteps DEF TurnInv, SessionInv
  <2> QED
    BY <2>1, <2>2 DEF TurnInv
<1> QED
  BY <1>1, <1>2, SessionHolds, PTL DEF Spec

(* Two players who stay: with the packets of nextTurnPressed on their way     *)
(* through the client, the server and the queue of the other client, there is *)
(* never more than one place where the turn is.  There is one if the client   *)
(* with id 0 has taken side 1, and there is none if the two loads of line 179 *)
(* have put it on side 2: nothing that happens later then makes a turn.       *)
THEOREM TurnIsOne == TwoPlayers => (Spec => []OneTurn)
<1> SUFFICES ASSUME TwoPlayers PROVE Spec => []OneTurn
  OBVIOUS
<1>1. SessionInv /\ TurnInv => OneTurn
  BY TurnAround DEF SessionInv, TurnInv, OneTurn
<1> QED
  BY <1>1, TurnHolds, SessionHolds, PTL
================================================================================
