--------------------------- MODULE GameSessionProofs ---------------------------
(***************************************************************************)
(* The safety of GameSession, for any number of connections, clients at a  *)
(* time, squads, departures and turns; and at the end what the modules     *)
(* about two players at a time share.                                      *)
(***************************************************************************)
EXTENDS GameSession, SequenceLemmas

(* What a handler sends to u, out of all that it sends. *)
For(u, p) == IF p.to = u THEN <<p.msg>> ELSE <<>>

Sends(M) == [to : Uids, msg : M]

Parts(u, q) == [i \in DOMAIN q |-> For(u, q[i])]

LEMMA MsgsToShape ==
    ASSUME NEW M, NEW u, NEW q \in Seq(Sends(M))
    PROVE  /\ Parts(u, q) \in Seq(Seq(M))
           /\ Len(Parts(u, q)) = Len(q)
           /\ \A i \in 1 .. Len(q) : Parts(u, q)[i] = For(u, q[i])
           /\ MsgsTo(u, q) = FlattenSeq(Parts(u, q))
<1>1. ASSUME NEW i \in 1 .. Len(q) PROVE For(u, q[i]) \in Seq(M)
  <2>1. q[i] \in Sends(M)
    OBVIOUS
  <2>2. <<q[i].msg>> \in Seq(M)
    BY <2>1 DEF Sends
  <2> QED
    BY <2>2 DEF For
<1>2. /\ Parts(u, q) \in [1 .. Len(q) -> Seq(M)]
      /\ \A i \in 1 .. Len(q) : Parts(u, q)[i] = For(u, q[i])
  BY <1>1 DEF Parts
<1>3. Len(q) \in Nat
  OBVIOUS
<1> QED
  <2>1. MsgsTo(u, q) = FlattenSeq(Parts(u, q))
    BY DEF MsgsTo, For, Parts
  <2> QED
    BY <1>2, <1>3, <2>1

LEMMA MsgsToType ==
    ASSUME NEW M, NEW u, NEW q \in Seq(Sends(M))
    PROVE  MsgsTo(u, q) \in Seq(M)
  BY MsgsToShape, FlattenType

LEMMA MsgsToNobody == \A u : MsgsTo(u, <<>>) = <<>>
<1> TAKE u
<1>1. [i \in DOMAIN <<>> |-> IF <<>>[i].to = u THEN <<<<>>[i].msg>> ELSE <<>>] = <<>>
  OBVIOUS
<1> QED
  BY <1>1, FlattenEmpty DEF MsgsTo

LEMMA MsgsToOne ==
    ASSUME NEW M, NEW u, NEW c, NEW m \in M
    PROVE  MsgsTo(u, To(c, m)) = IF c = u THEN <<m>> ELSE <<>>
<1> DEFINE p == [to |-> c, msg |-> m]
<1>1. [i \in DOMAIN <<p>> |-> IF <<p>>[i].to = u THEN <<<<p>>[i].msg>> ELSE <<>>]
         = <<IF c = u THEN <<m>> ELSE <<>>>>
  OBVIOUS
<1>2. MsgsTo(u, To(c, m)) = FlattenSeq(<<IF c = u THEN <<m>> ELSE <<>>>>)
  BY <1>1 DEF MsgsTo, To
<1>3. (IF c = u THEN <<m>> ELSE <<>>) \in Seq(M)
  OBVIOUS
<1> QED
  BY <1>2, <1>3, FlattenOne

LEMMA PartsConcat ==
    ASSUME NEW M, NEW aa \in Seq(Seq(M)), NEW bb \in Seq(Seq(M))
    PROVE  /\ aa \o bb \in Seq(Seq(M)) /\ Len(aa \o bb) = Len(aa) + Len(bb)
           /\ \A i \in 1 .. Len(aa) + Len(bb) :
                 (aa \o bb)[i] = IF i <= Len(aa) THEN aa[i] ELSE bb[i - Len(aa)]
  BY ConcatProperties

LEMMA MsgsToConcat ==
    ASSUME NEW M, NEW u, NEW a \in Seq(Sends(M)), NEW b \in Seq(Sends(M))
    PROVE  MsgsTo(u, a \o b) = MsgsTo(u, a) \o MsgsTo(u, b)
<1> DEFINE ab == a \o b
           aa == Parts(u, a)
           bb == Parts(u, b)
           cc == Parts(u, ab)
<1>1. /\ ab \in Seq(Sends(M)) /\ Len(ab) = Len(a) + Len(b)
      /\ Len(a) \in Nat /\ Len(b) \in Nat
      /\ \A i \in 1 .. Len(a) + Len(b) :
            ab[i] = IF i <= Len(a) THEN a[i] ELSE b[i - Len(a)]
  BY ConcatProperties
<1> HIDE DEF ab
<1>2. /\ aa \in Seq(Seq(M)) /\ Len(aa) = Len(a) /\ MsgsTo(u, a) = FlattenSeq(aa)
      /\ \A i \in 1 .. Len(a) : aa[i] = For(u, a[i])
  BY MsgsToShape
<1>3. /\ bb \in Seq(Seq(M)) /\ Len(bb) = Len(b) /\ MsgsTo(u, b) = FlattenSeq(bb)
      /\ \A i \in 1 .. Len(b) : bb[i] = For(u, b[i])
  BY MsgsToShape
<1>4. /\ cc \in Seq(Seq(M)) /\ Len(cc) = Len(ab) /\ MsgsTo(u, ab) = FlattenSeq(cc)
      /\ \A i \in 1 .. Len(ab) : cc[i] = For(u, ab[i])
  BY <1>1, MsgsToShape
<1> HIDE DEF aa, bb, cc
<1>5. cc = aa \o bb
  <2>1. /\ aa \o bb \in Seq(Seq(M)) /\ Len(aa \o bb) = Len(aa) + Len(bb)
        /\ \A i \in 1 .. Len(aa) + Len(bb) :
              (aa \o bb)[i] = IF i <= Len(aa) THEN aa[i] ELSE bb[i - Len(aa)]
    <3>1. aa \in Seq(Seq(M)) /\ bb \in Seq(Seq(M))
      BY <1>2, <1>3
    <3> QED
      BY <3>1, PartsConcat
  <2>2. ASSUME NEW i \in 1 .. Len(a) + Len(b) PROVE cc[i] = (aa \o bb)[i]
    <3>1. CASE i <= Len(a)
      <4>1. i \in 1 .. Len(a)
        BY <1>1, <3>1
      <4> QED
        BY <1>1, <1>2, <1>3, <1>4, <2>1, <3>1, <4>1
    <3>2. CASE ~(i <= Len(a))
      <4>1. i - Len(a) \in 1 .. Len(b)
        BY <1>1, <3>2
      <4> QED
        BY <1>1, <1>2, <1>3, <1>4, <2>1, <3>2, <4>1
    <3> QED
      BY <3>1, <3>2
  <2> QED
    BY <1>1, <1>2, <1>3, <1>4, <2>1, <2>2, SeqEqual
<1>6. FlattenSeq(aa \o bb) = FlattenSeq(aa) \o FlattenSeq(bb)
  BY <1>2, <1>3, FlattenConcat
<1> QED
  BY <1>2, <1>3, <1>4, <1>5, <1>6 DEF ab

(* What is sent to all but one client. *)
LEMMA ToOthersType ==
    ASSUME NEW M, NEW c, NEW clients \in Seq(Uids), NEW m \in M
    PROVE  ToOthers(c, clients, m) \in Seq(Sends(M))
<1> DEFINE tt == [i \in DOMAIN clients |-> IF clients[i] = c THEN <<>> ELSE To(clients[i], m)]
<1>1. \A i \in 1 .. Len(clients) :
         (IF clients[i] = c THEN <<>> ELSE To(clients[i], m)) \in Seq(Sends(M))
  <2> TAKE i \in 1 .. Len(clients)
  <2>1. [to |-> clients[i], msg |-> m] \in Sends(M)
    BY DEF Sends
  <2> QED
    BY <2>1 DEF To
<1>2. tt \in [1 .. Len(clients) -> Seq(Sends(M))] /\ Len(clients) \in Nat
  BY <1>1
<1>3. tt \in Seq(Seq(Sends(M)))
  <2> HIDE DEF tt
  <2> QED
    BY <1>2
<1>4. FlattenSeq(tt) \in Seq(Sends(M))
  <2> HIDE DEF tt
  <2> QED
    BY <1>3, FlattenType
<1> QED
  BY <1>4 DEF ToOthers

--------------------------------------------------------------------------------
(* The types, as far as the handlers need them: which packets clients send,  *)
(* which packets they get, and what is in them.                              *)

UnitMsgs == [name : {"army1", "army2"}, value : 0 .. Army]
            \cup [name : {"endturn"}, value : {0}]
            \cup [name : {"endgame"}, value : Teams]

Forwardable == [type : {"unit"}, msg : UnitMsgs]
               \cup [type : {"turn", "player"}, msg : Teams]
               \cup [type : {"update_complete"}, msg : {0}]

FromClients == Forwardable \cup [type : {"resume"}, msg : {0}]

ToClients == Forwardable
             \cup [type : {"init"}, msg : {0, 1}]
             \cup [type : {"start", "data_sender", "ready"}, msg : {0}]
             \cup [type : {"reconnect"}, msg : BOOLEAN]

ClientEvents == [type : {"connect", "disconnect"}, client : Uids, msg : {NoMsg}]
                \cup [type : {"receive"}, client : Uids, msg : FromClients]

Components ==
    [user_ID : {-1, 0, 1}, is_lobby : BOOLEAN, is_reconnecting : BOOLEAN,
     data_sender : BOOLEAN, ready_to_send : BOOLEAN, update_complete : BOOLEAN,
     player_turn : {-1} \cup Teams, assigned_player : {-1} \cup Teams,
     unit_update_queue : Seq(UnitMsgs)]

Scenes ==
    [assigned_team : {0} \cup Teams, player_turn : Teams, game_finished : BOOLEAN,
     winning_player : {0} \cup Teams, squads : [Teams -> 0 .. Army],
     dead : SUBSET Teams, changed : SUBSET Teams]

TransportTyped ==
    /\ nextUid \in 0 .. MaxUid
    /\ breaking \subseteq live /\ live \subseteq 0 .. nextUid - 1
    /\ events \in Seq(ClientEvents)
    /\ connected \in Seq(Uids)
    /\ inbox \in [Uids -> Seq(ToClients)]

ClientsTyped ==
    /\ outbox \in [Uids -> Seq(FromClients)]
    /\ comp \in [Uids -> Components]
    /\ scene \in [Uids -> Scenes]
    /\ main \in [Uids -> {"top", "began", "sent"}]

Typed == TransportTyped /\ ClientsTyped /\ gameActive \in BOOLEAN

LEMMA TypedImpliesTypeOK == Typed => TypeOK
<1> SUFFICES ASSUME Typed PROVE TypeOK
  OBVIOUS
<1>1. \A m \in UnitMsgs : IsUnitMsg(m)
  BY SessionAssumption DEF UnitMsgs, IsUnitMsg
<1>2. \A p \in FromClients \cup ToClients : IsPacket(p)
  BY <1>1 DEF FromClients, ToClients, Forwardable, IsPacket, PacketTypes
<1>3. \A i \in DOMAIN events : events[i].type = "receive" => IsPacket(events[i].msg)
  <2> SUFFICES ASSUME NEW i \in DOMAIN events, events[i].type = "receive"
               PROVE  IsPacket(events[i].msg)
    OBVIOUS
  <2>1. events[i] \in ClientEvents
    BY DEF Typed, TransportTyped
  <2>2. events[i].msg \in FromClients
    BY <2>1 DEF ClientEvents
  <2> QED
    BY <1>2, <2>2
<1>4. ASSUME NEW u \in Uids
      PROVE  /\ \A i \in DOMAIN inbox[u] : IsPacket(inbox[u][i])
             /\ \A i \in DOMAIN outbox[u] : IsPacket(outbox[u][i])
             /\ \A j \in DOMAIN comp[u].unit_update_queue :
                   IsUnitMsg(comp[u].unit_update_queue[j])
  <2>1. /\ inbox[u] \in Seq(ToClients) /\ outbox[u] \in Seq(FromClients)
        /\ comp[u].unit_update_queue \in Seq(UnitMsgs)
    BY DEF Typed, TransportTyped, ClientsTyped, Components
  <2>2. \A i \in DOMAIN inbox[u] : inbox[u][i] \in ToClients
    BY <2>1
  <2>3. \A i \in DOMAIN outbox[u] : outbox[u][i] \in FromClients
    BY <2>1
  <2>4. \A j \in DOMAIN comp[u].unit_update_queue : comp[u].unit_update_queue[j] \in UnitMsgs
    BY <2>1
  <2> QED
    BY <1>1, <1>2, <2>2, <2>3, <2>4
<1>5. ASSUME NEW u \in Uids
      PROVE  /\ main[u] \in {"top", "began", "sent"}
             /\ comp[u].user_ID \in {-1, 0, 1}
             /\ comp[u].player_turn \in {-1} \cup Teams
             /\ comp[u].assigned_player \in {-1} \cup Teams
             /\ scene[u].assigned_team \in {0} \cup Teams
             /\ scene[u].player_turn \in Teams
             /\ scene[u].winning_player \in {0} \cup Teams
             /\ scene[u].squads \in [Teams -> 0 .. Army]
             /\ scene[u].dead \subseteq Teams /\ scene[u].changed \subseteq Teams
  <2>1. main[u] \in {"top", "began", "sent"} /\ comp[u] \in Components /\ scene[u] \in Scenes
    BY DEF Typed, ClientsTyped
  <2> QED
    BY <2>1 DEF Components, Scenes
<1> QED
  BY <1>3, <1>4, <1>5 DEF TypeOK, Typed, TransportTyped

LEMMA PacketKinds ==
    /\ \A m \in UnitMsgs : Packet("unit", m) \in Forwardable
    /\ \A t \in Teams : Packet("turn", t) \in Forwardable /\ Packet("player", t) \in Forwardable
    /\ Packet("update_complete", 0) \in Forwardable
    /\ Forwardable \subseteq FromClients /\ Forwardable \subseteq ToClients
    /\ Packet("resume", 0) \in FromClients
    /\ \A i \in {0, 1} : Packet("init", i) \in ToClients
    /\ \A type \in {"start", "data_sender", "ready"} : Packet(type, 0) \in ToClients
    /\ \A b \in BOOLEAN : Packet("reconnect", b) \in ToClients
  BY DEF Packet, Forwardable, FromClients, ToClients

LEMMA UnitKinds ==
    /\ \A t \in Teams, n \in 0 .. Army : [name |-> RefName[t], value |-> n] \in UnitMsgs
    /\ [name |-> "endturn", value |-> 0] \in UnitMsgs
    /\ \A t \in Teams : [name |-> "endgame", value |-> t] \in UnitMsgs
<1>1. \A t \in Teams : RefName[t] \in {"army1", "army2"}
  BY DEF Teams, RefName
<1> QED
  BY <1>1 DEF UnitMsgs

--------------------------------------------------------------------------------
(* The transport keeps its types. *)

LEMMA PostTyped ==
    ASSUME TransportTyped, NEW sends \in Seq(Sends(ToClients)), Post(sends)
    PROVE  inbox' \in [Uids -> Seq(ToClients)]
<1>1. \A u \in Uids : MsgsTo(u, sends) \in Seq(ToClients)
  BY MsgsToType
<1>2. \A u \in Uids : (IF u \in live THEN inbox[u] \o MsgsTo(u, sends) ELSE inbox[u])
                          \in Seq(ToClients)
  BY <1>1, ConcatProperties DEF TransportTyped
<1> QED
  BY <1>2 DEF Post

(* Removing a client from the list leaves a part of the list. *)
LEMMA RemoveFirstType ==
    ASSUME NEW S, NEW q \in Seq(S), NEW e
    PROVE  /\ RemoveFirst(q, e) \in Seq(S)
           /\ \A c : InSeq(c, RemoveFirst(q, e)) => InSeq(c, q)
           /\ Len(RemoveFirst(q, e)) <= Len(q)
<1>1. CASE ~ \E i \in 1 .. Len(q) : q[i] = e
  BY <1>1 DEF RemoveFirst
<1>2. CASE \E i \in 1 .. Len(q) : q[i] = e
  <2> DEFINE I == {i \in 1 .. Len(q) : q[i] = e}
  <2>1. PICK i \in I : \A j \in I : i <= j
    <3>1. I \subseteq Nat /\ I # {}
      BY <1>2
    <3> HIDE DEF I
    <3> QED
      BY <3>1, LeastNat
  <2>2. Min(I) = i
    <3>1. \A k \in I : (\A j \in I : k <= j) => k = i
      BY <2>1
    <3> HIDE DEF I
    <3> QED
      BY <2>1, <3>1 DEF Min
  <2>3. i \in 1 .. Len(q) /\ Len(q) \in Nat
    BY <2>1
  <2> DEFINE before == SubSeq(q, 1, i - 1)
             behind == SubSeq(q, i + 1, Len(q))
  <2>4. RemoveFirst(q, e) = before \o behind
    BY <1>2, <2>2 DEF RemoveFirst, SelectInSeq, RemoveAt
  <2> HIDE DEF I
  <2>5. /\ before \in Seq(S) /\ Len(before) = i - 1 /\ \A j \in 1 .. i - 1 : before[j] = q[j]
        /\ behind \in Seq(S) /\ Len(behind) = Len(q) - i
        /\ \A j \in 1 .. Len(q) - i : behind[j] = q[i + j]
    BY <2>3
  <2> HIDE DEF before, behind
  <2>6. /\ before \o behind \in Seq(S) /\ Len(before \o behind) = Len(before) + Len(behind)
        /\ \A j \in 1 .. Len(before) + Len(behind) : (before \o behind)[j] =
              IF j <= Len(before) THEN before[j] ELSE behind[j - Len(before)]
    BY <2>5, ConcatProperties, Zenon
  <2>7. ASSUME NEW j \in 1 .. Len(before \o behind)
        PROVE  \E k \in 1 .. Len(q) : (before \o behind)[j] = q[k]
    <3>1. CASE j <= i - 1
      BY <2>3, <2>5, <2>6, <3>1
    <3>2. CASE ~(j <= i - 1)
      <4>1. j \in 1 .. Len(before) + Len(behind)
        BY <2>6
      <4>2. Len(before) = i - 1 /\ Len(behind) = Len(q) - i /\ i \in Nat /\ Len(q) \in Nat
        BY <2>3, <2>5
      <4>3. j - (i - 1) \in 1 .. Len(q) - i /\ i + (j - (i - 1)) \in 1 .. Len(q)
        BY <4>1, <4>2, <3>2
      <4>4. (before \o behind)[j] = behind[j - (i - 1)]
        BY <2>3, <2>5, <2>6, <3>2
      <4> QED
        BY <2>5, <4>3, <4>4
    <3> QED
      BY <3>1, <3>2
  <2>8. Len(before \o behind) <= Len(q)
    BY <2>3, <2>5, <2>6
  <2>9. ASSUME NEW c, InSeq(c, before \o behind) PROVE InSeq(c, q)
    BY <2>6, <2>7, <2>9 DEF InSeq
  <2> QED
    BY <2>4, <2>6, <2>8, <2>9
<1> QED
  BY <1>1, <1>2

LEMMA HeadTyped ==
    ASSUME TransportTyped, events # <<>>
    PROVE  /\ Tail(events) \in Seq(ClientEvents)
           /\ Head(events) \in ClientEvents
           /\ Head(events).client \in Uids
           /\ Head(events).type = "receive" => Head(events).msg \in FromClients
<1>1. Tail(events) \in Seq(ClientEvents) /\ Head(events) \in ClientEvents
  BY DEF TransportTyped
<1> QED
  BY <1>1 DEF ClientEvents

LEMMA DispatchTyped ==
    ASSUME TransportTyped, NEW sends \in Seq(Sends(ToClients)),
           DispatchConnect(sends) \/ DispatchReceive(sends) \/ DispatchDisconnect(sends)
    PROVE  TransportTyped'
<1>1. events # <<>> /\ events' = Tail(events) /\ Post(sends) /\ UNCHANGED <<nextUid, live, breaking>>
  BY DEF DispatchConnect, DispatchReceive, DispatchDisconnect, NextEventIs
<1>2. inbox' \in [Uids -> Seq(ToClients)] /\ events' \in Seq(ClientEvents)
  BY <1>1, PostTyped, HeadTyped
<1>3. connected' \in Seq(Uids)
  <2>1. connected \in Seq(Uids) /\ Head(events).client \in Uids
    BY <1>1, HeadTyped DEF TransportTyped
  <2>2. RemoveFirst(connected, Head(events).client) \in Seq(Uids)
    BY <2>1, RemoveFirstType
  <2>3. \/ connected' = Append(connected, Head(events).client)
        \/ connected' = connected
        \/ connected' = RemoveFirst(connected, Head(events).client)
    BY DEF DispatchConnect, DispatchReceive, DispatchDisconnect, AddClient, DropClient
  <2>4. Append(connected, Head(events).client) \in Seq(Uids)
    BY <2>1
  <2> QED
    BY <2>1, <2>2, <2>3, <2>4, Zenon
<1> QED
  BY <1>1, <1>2, <1>3 DEF TransportTyped

--------------------------------------------------------------------------------
(* Applying the packets of the opponent. *)

LEMMA ApplyUnitTyped ==
    ASSUME NEW s \in Scenes, NEW m \in UnitMsgs
    PROVE  ApplyUnit(s, m) \in Scenes
<1>1. CASE m.name = "endturn"
  BY <1>1 DEF ApplyUnit, Scenes, Other, Teams
<1>2. CASE m.name = "endgame"
  <2>1. m.value \in Teams
    BY <1>2 DEF UnitMsgs
  <2> QED
    BY <1>2, <2>1 DEF ApplyUnit, Scenes
<1>3. CASE m.name \notin {"endturn", "endgame"}
  <2>1. m.value \in 0 .. Army
    BY <1>3 DEF UnitMsgs
  <2>2. [t \in Teams |-> IF m.name = RefName[t] THEN m.value ELSE s.squads[t]]
            \in [Teams -> 0 .. Army]
    BY <2>1 DEF Scenes
  <2>3. ApplyUnit(s, m) = [s EXCEPT !.squads =
            [t \in Teams |-> IF m.name = RefName[t] THEN m.value ELSE s.squads[t]]]
    BY <1>3 DEF ApplyUnit, Scenes
  <2> QED
    BY <2>2, <2>3 DEF Scenes
<1> QED
  BY <1>1, <1>2, <1>3

(* UnitNetworkUpdate applies the packets one after the other. *)
LEMMA UnitNetworkUpdateSteps ==
    ASSUME NEW s \in Scenes, NEW q \in Seq(UnitMsgs)
    PROVE  \E f \in [0 .. Len(q) -> Scenes] :
              /\ f[0] = s
              /\ \A i \in 1 .. Len(q) : f[i] = ApplyUnit(f[i - 1], q[i])
              /\ UnitNetworkUpdate(s, q) = f[Len(q)]
<1> DEFINE A == [p \in Scenes \X UnitMsgs |-> ApplyUnit(p[1], p[2])]
           n == Len(q)
           D(f) == [i \in 0 .. Len(q) |-> IF i = 0 THEN s ELSE ApplyUnit(f[i - 1], q[i])]
           g == CHOOSE f : f = D(f)
<1>1. n \in Nat /\ \A i \in 1 .. n : q[i] \in UnitMsgs
  OBVIOUS
<1>2. \A r \in Scenes, m \in UnitMsgs : A[<<r, m>>] = ApplyUnit(r, m) /\ A[<<r, m>>] \in Scenes
  BY ApplyUnitTyped
<1>3. UnitNetworkUpdate(s, q) = g[n]
  BY DEF UnitNetworkUpdate
<1>4. A \in [Scenes \X UnitMsgs -> Scenes]
  BY ApplyUnitTyped
<1>5. \E f : RunsThrough(f, A, s, q, Scenes)
  <2> HIDE DEF A
  <2> QED
    BY <1>4, FoldExists
<1>6. PICK f \in [0 .. n -> Scenes] :
         f[0] = s /\ \A i \in 1 .. n : f[i] = A[<<f[i - 1], q[i]>>]
  <2> HIDE DEF A
  <2> QED
    BY <1>5 DEF RunsThrough
<1>7. ASSUME NEW i \in 1 .. n PROVE f[i] = ApplyUnit(f[i - 1], q[i])
  <2>1. i - 1 \in 0 .. n
    BY <1>1
  <2>2. f[i - 1] \in Scenes /\ q[i] \in UnitMsgs
    BY <1>1, <1>6, <2>1
  <2> HIDE DEF A
  <2> QED
    BY <1>2, <1>6, <2>2
<1>8. f = D(f)
  <2>1. \A i \in 0 .. n : f[i] = IF i = 0 THEN s ELSE ApplyUnit(f[i - 1], q[i])
    <3> TAKE i \in 0 .. n
    <3>1. CASE i = 0
      BY <1>6, <3>1
    <3>2. CASE i # 0
      <4>1. i \in 1 .. n
        BY <3>2
      <4> QED
        BY <1>7, <3>2, <4>1, Zenon
    <3> QED
      BY <3>1, <3>2
  <2> HIDE DEF A
  <2> QED
    BY <1>6, <2>1
<1>9. g = D(g)
  <2> HIDE DEF D
  <2> QED
    BY <1>8
<1> HIDE DEF g, A
<1>10. g[0] = s
  BY <1>1, <1>9
<1>11. \A i \in 1 .. n : g[i] = ApplyUnit(g[i - 1], q[i])
  <2> TAKE i \in 1 .. n
  <2>1. i \in 0 .. n /\ i # 0
    BY <1>1
  <2> QED
    BY <1>9, <2>1, Zenon
<1>12. \A i \in 0 .. n : f[i] = g[i]
  <2> DEFINE K == {i \in Nat : i <= n => f[i] = g[i]}
  <2>1. 0 \in K
    BY <1>6, <1>10
  <2>2. ASSUME NEW i \in Nat, i \in K PROVE i + 1 \in K
    <3>1. CASE i + 1 <= n
      <4>1. i + 1 \in 1 .. n /\ (i + 1) - 1 = i /\ f[i] = g[i]
        BY <1>1, <2>2, <3>1
      <4>2. f[i + 1] = ApplyUnit(f[(i + 1) - 1], q[i + 1])
            /\ g[i + 1] = ApplyUnit(g[(i + 1) - 1], q[i + 1])
        BY <1>7, <1>11, <4>1, Zenon
      <4> QED
        BY <4>1, <4>2
    <3>2. CASE ~(i + 1 <= n)
      BY <3>2
    <3> QED
      BY <3>1, <3>2
  <2>3. Nat \subseteq K
    <3> HIDE DEF K
    <3> QED
      BY <2>1, <2>2, SetInduction
  <2> QED
    BY <1>1, <2>3
<1>13. UnitNetworkUpdate(s, q) = f[n]
  <2>1. n \in 0 .. n
    BY <1>1
  <2> QED
    BY <1>3, <1>12, <2>1, Zenon
<1> QED
  BY <1>6, <1>7, <1>13

LEMMA UnitNetworkUpdateTyped ==
    ASSUME NEW s \in Scenes, NEW q \in Seq(UnitMsgs)
    PROVE  UnitNetworkUpdate(s, q) \in Scenes
<1>1. Len(q) \in 0 .. Len(q)
  OBVIOUS
<1> QED
  BY <1>1, UnitNetworkUpdateSteps

LEMMA UnitsUpdateTyped == \A s \in Scenes : UnitsUpdate(s) \in Scenes
  BY DEF UnitsUpdate, Scenes

LEMMA AssignTeamTyped ==
    ASSUME ClientsTyped, NEW c \in Uids, InUpdate(c)
    PROVE  AssignTeam(c) \in Scenes
<1>1. scene[c] \in Scenes /\ comp[c].user_ID \in {-1, 0, 1}
  BY DEF ClientsTyped, Components
<1>2. CASE main[c] = "top" /\ scene[c].assigned_team = 0
  <2>1. comp[c].user_ID \in {0, 1}
    BY <1>1, <1>2 DEF InUpdate
  <2>2. (comp[c].user_ID % 2) + 1 \in Teams
    BY <2>1 DEF Teams
  <2> QED
    BY <1>1, <1>2, <2>2 DEF AssignTeam, Scenes
<1>3. CASE ~(main[c] = "top" /\ scene[c].assigned_team = 0)
  BY <1>1, <1>3 DEF AssignTeam
<1> QED
  BY <1>2, <1>3

--------------------------------------------------------------------------------
(* Every action keeps the types.  First the parts that the actions share. *)

LEMMA LiveIsUid ==
    ASSUME TransportTyped, NEW c \in live
    PROVE  c \in Uids
  BY SessionAssumption DEF TransportTyped, Uids

LEMMA NobodyTyped ==
    ASSUME NEW M, NEW f \in [Uids -> Seq(M)], NEW u
    PROVE  [f EXCEPT ![u] = <<>>] \in [Uids -> Seq(M)]
<1>1. \A T : \A g \in [Uids -> T], e \in T : [g EXCEPT ![u] = e] \in [Uids -> T]
  OBVIOUS
<1>2. <<>> \in Seq(M)
  OBVIOUS
<1> QED
  BY <1>1, <1>2

LEMMA OpenTyped ==
    ASSUME TransportTyped, NEW c,
           Connect \/ Disconnect(c) \/ (Break(c) /\ inbox'[c] = <<>>)
    PROVE  TransportTyped'
<1> USE DEF TransportTyped
<1>1. CASE Connect
  <2>1. nextUid \in Uids /\ nextUid + 1 \in 0 .. MaxUid
    BY <1>1, SessionAssumption DEF Connect, Uids
  <2>2. Event("connect", nextUid, NoMsg) \in ClientEvents
    BY <2>1 DEF Event, ClientEvents
  <2>3. events' \in Seq(ClientEvents)
    BY <1>1, <2>2 DEF Connect
  <2>4. breaking' \subseteq live' /\ live' \subseteq 0 .. nextUid' - 1
    BY <1>1, <2>1 DEF Connect
  <2> QED
    BY <1>1, <2>1, <2>3, <2>4 DEF Connect
<1>2. CASE Disconnect(c)
  <2>1. c \in Uids
    BY <1>2, LiveIsUid DEF Disconnect
  <2>2. Event("disconnect", c, NoMsg) \in ClientEvents
    BY <2>1 DEF Event, ClientEvents
  <2>3. events' \in Seq(ClientEvents)
    BY <1>2, <2>2 DEF Disconnect
  <2>4. inbox' \in [Uids -> Seq(ToClients)]
    BY <1>2, NobodyTyped DEF Disconnect
  <2> QED
    BY <1>2, <2>3, <2>4 DEF Disconnect
<1>3. CASE Break(c) /\ inbox'[c] = <<>>
  <2>1. c \in Uids
    BY <1>3, LiveIsUid DEF Break
  <2>2. PICK rest : inbox' = [inbox EXCEPT ![c] = rest]
    BY <1>3 DEF Break
  <2>3. rest = <<>>
    BY <1>3, <2>1, <2>2
  <2>4. inbox' \in [Uids -> Seq(ToClients)]
    BY <2>2, <2>3, NobodyTyped
  <2> QED
    BY <1>3, <2>4 DEF Break
<1> QED
  BY <1>1, <1>2, <1>3

LEMMA ReceiveTyped ==
    ASSUME TransportTyped, NEW c, NEW m \in FromClients, Receive(c, m)
    PROVE  TransportTyped'
<1>1. c \in Uids
  BY LiveIsUid DEF Receive
<1>2. Event("receive", c, m) \in ClientEvents
  BY <1>1 DEF Event, ClientEvents
<1>3. events' \in Seq(ClientEvents)
  BY <1>2 DEF Receive, TransportTyped
<1> QED
  BY <1>3 DEF Receive, TransportTyped

LEMMA TakeTyped ==
    ASSUME TransportTyped, NEW c \in Uids, Take(c)
    PROVE  TransportTyped' /\ Head(inbox[c]) \in ToClients
<1>1. inbox[c] \in Seq(ToClients) /\ inbox[c] # <<>>
  BY DEF TransportTyped, Take
<1>2. Tail(inbox[c]) \in Seq(ToClients) /\ Head(inbox[c]) \in ToClients
  BY <1>1
<1>3. inbox' \in [Uids -> Seq(ToClients)]
  BY <1>2 DEF TransportTyped, Take
<1> QED
  BY <1>2, <1>3 DEF TransportTyped, Take

LEMMA ToTyped ==
    ASSUME NEW c \in Uids, NEW p \in ToClients
    PROVE  To(c, p) \in Seq(Sends(ToClients))
<1>1. [to |-> c, msg |-> p] \in Sends(ToClients)
  BY DEF Sends
<1> QED
  BY <1>1 DEF To

--------------------------------------------------------------------------------
(* What each handler of the server sends. *)

LEMMA ConnectSends ==
    ASSUME TransportTyped, NEW c \in Uids
    PROVE  /\ AddClient(c) \in Seq(Uids)
           /\ To(c, Packet("reconnect", TRUE)) \o ToOthers(c, AddClient(c), Packet("ready", 0))
                 \in Seq(Sends(ToClients))
           /\ To(c, Packet("init", AssignClientLocalID(c, AddClient(c))))
                 \in Seq(Sends(ToClients))
           /\ To(c, Packet("init", AssignClientLocalID(c, AddClient(c)))) \o <<>>
                 \in Seq(Sends(ToClients))
           /\ Len(AddClient(c)) >= 2 =>
                 LET starts == To(AddClient(c)[1], Packet("start", 0))
                               \o To(AddClient(c)[2], Packet("start", 0))
                 IN  /\ starts \in Seq(Sends(ToClients))
                     /\ To(c, Packet("init", AssignClientLocalID(c, AddClient(c)))) \o starts
                           \in Seq(Sends(ToClients))
<1> DEFINE M == Sends(ToClients)
           clients == AddClient(c)
           init == To(c, Packet("init", AssignClientLocalID(c, AddClient(c))))
<1>1. clients \in Seq(Uids)
  BY DEF AddClient, TransportTyped
<1>2. /\ Packet("reconnect", TRUE) \in ToClients /\ Packet("ready", 0) \in ToClients
      /\ Packet("start", 0) \in ToClients
  BY PacketKinds
<1>3. Packet("init", AssignClientLocalID(c, AddClient(c))) \in ToClients
  <2>1. AssignClientLocalID(c, AddClient(c)) \in {0, 1}
    BY DEF AssignClientLocalID
  <2> QED
    BY <2>1, PacketKinds
<1>4. To(c, Packet("reconnect", TRUE)) \in Seq(M) /\ init \in Seq(M)
  BY <1>2, <1>3, ToTyped
<1>5. ToOthers(c, clients, Packet("ready", 0)) \in Seq(M)
  <2> HIDE DEF clients
  <2> QED
    BY <1>1, <1>2, ToOthersType
<1>6. Len(clients) >= 2 => clients[1] \in Uids /\ clients[2] \in Uids
  <2> HIDE DEF clients
  <2> QED
    BY <1>1
<1>7. Len(clients) >= 2 => /\ To(clients[1], Packet("start", 0)) \in Seq(M)
                           /\ To(clients[2], Packet("start", 0)) \in Seq(M)
  BY <1>2, <1>6, ToTyped
<1> HIDE DEF M, init
<1>8. \A a, b \in Seq(M) : a \o b \in Seq(M)
  BY ConcatProperties
<1>9. init \o <<>> \in Seq(M)
  BY <1>4
<1> QED
  BY <1>1, <1>4, <1>5, <1>7, <1>8, <1>9 DEF M, init

LEMMA ForwardSends ==
    ASSUME TransportTyped, NextEventIs("receive"), Head(events).msg.type \in Forwarded
    PROVE  /\ Head(events).msg \in Forwardable
           /\ ToOthers(Head(events).client, connected, Head(events).msg)
                 \in Seq(Sends(ToClients))
<1>1. Head(events).msg \in FromClients
  BY HeadTyped DEF NextEventIs
<1>2. Head(events).msg \in Forwardable
  BY <1>1 DEF FromClients, Forwarded
<1>3. Head(events).msg \in ToClients
  BY <1>2, PacketKinds
<1>4. connected \in Seq(Uids)
  BY DEF TransportTyped
<1>5. ToOthers(Head(events).client, connected, Head(events).msg) \in Seq(Sends(ToClients))
  BY <1>3, <1>4, ToOthersType
<1> QED
  BY <1>2, <1>5

LEMMA ResumeSends ==
    ASSUME TransportTyped, Len(connected) >= 2
    PROVE  To(connected[1], Packet("reconnect", FALSE))
           \o To(connected[2], Packet("reconnect", FALSE)) \in Seq(Sends(ToClients))
<1>1. connected[1] \in Uids /\ connected[2] \in Uids
  BY DEF TransportTyped
<1>2. Packet("reconnect", FALSE) \in ToClients
  BY PacketKinds
<1>3. /\ To(connected[1], Packet("reconnect", FALSE)) \in Seq(Sends(ToClients))
      /\ To(connected[2], Packet("reconnect", FALSE)) \in Seq(Sends(ToClients))
  BY <1>1, <1>2, ToTyped
<1> QED
  BY <1>3, ConcatProperties

LEMMA DisconnectSends ==
    ASSUME TransportTyped, NEW c
    PROVE  /\ DropClient(c) \in Seq(Uids)
           /\ DropClient(c) # <<>> =>
                 To(DropClient(c)[1], Packet("data_sender", 0)) \in Seq(Sends(ToClients))
<1>1. DropClient(c) \in Seq(Uids)
  BY RemoveFirstType DEF DropClient, TransportTyped
<1>2. DropClient(c) # <<>> => DropClient(c)[1] \in Uids
  BY <1>1
<1>3. Packet("data_sender", 0) \in ToClients
  BY PacketKinds
<1>4. DropClient(c) # <<>> =>
         To(DropClient(c)[1], Packet("data_sender", 0)) \in Seq(Sends(ToClients))
  BY <1>2, <1>3, ToTyped
<1> QED
  BY <1>1, <1>4

--------------------------------------------------------------------------------
(* What the threads of a client make of its state. *)

LEMMA ProcessReceivedTyped ==
    ASSUME NEW k \in Components, NEW p \in ToClients
    PROVE  ProcessReceived(k, p) \in Components
<1>1. CASE p.type = "init"
  <2>1. p.msg \in {0, 1}
    BY <1>1 DEF ToClients, Forwardable
  <2> QED
    BY <1>1, <2>1 DEF ProcessReceived, Components
<1>2. CASE p.type = "unit"
  <2>1. p.msg \in UnitMsgs
    BY <1>2 DEF ToClients, Forwardable
  <2>2. Append(k.unit_update_queue, p.msg) \in Seq(UnitMsgs)
    BY <2>1 DEF Components
  <2>3. ProcessReceived(k, p)
           = [k EXCEPT !.unit_update_queue = Append(k.unit_update_queue, p.msg)]
    BY <1>2 DEF ProcessReceived
  <2> QED
    BY <2>2, <2>3 DEF Components
<1>3. CASE p.type \in {"turn", "player"}
  <2>1. p.msg \in Teams
    BY <1>3 DEF ToClients, Forwardable
  <2> QED
    BY <1>3, <2>1 DEF ProcessReceived, Components
<1>4. CASE p.type \in {"start", "data_sender", "ready", "update_complete"}
  BY <1>4 DEF ProcessReceived, Components
<1>5. CASE p.type = "reconnect"
  <2>1. p.msg \in BOOLEAN
    BY <1>5 DEF ToClients, Forwardable
  <2>2. CASE p.msg = TRUE
    BY <1>5, <2>2 DEF ProcessReceived, Components
  <2>3. CASE p.msg = FALSE
    BY <1>5, <2>3 DEF ProcessReceived, Components
  <2> QED
    BY <2>1, <2>2, <2>3
<1>6. p.type \in {"init", "unit", "turn", "player", "start", "data_sender", "ready",
                   "update_complete", "reconnect"}
  BY DEF ToClients, Forwardable
<1> QED
  BY <1>1, <1>2, <1>3, <1>4, <1>5, <1>6

LEMMA SquadPacketTyped ==
    ASSUME NEW s \in Scenes, NEW t \in Teams
    PROVE  SquadPacket(s, t) \in Forwardable
<1>1. s.squads[t] \in 0 .. Army
  BY DEF Scenes
<1> QED
  BY <1>1, UnitKinds, PacketKinds DEF SquadPacket, UnitPacket

LEMMA SnapshotTyped ==
    ASSUME NEW s \in Scenes
    PROVE  Snapshot(s) \in Seq(Forwardable)
<1>1. /\ Packet("turn", s.player_turn) \in Forwardable
      /\ Packet("player", IF s.assigned_team = 1 THEN 2 ELSE 1) \in Forwardable
      /\ Packet("update_complete", 0) \in Forwardable
  BY PacketKinds DEF Scenes, Teams
<1>2. SquadPacket(s, 1) \in Forwardable /\ SquadPacket(s, 2) \in Forwardable
  BY SquadPacketTyped DEF Teams
<1> QED
  BY <1>1, <1>2 DEF Snapshot

LEMMA ChangedPacketsTyped ==
    ASSUME NEW s \in Scenes
    PROVE  ChangedPackets(s) \in Seq(Forwardable)
<1> DEFINE parts == [t \in 1 .. 2 |-> IF t \in s.changed THEN <<SquadPacket(s, t)>> ELSE <<>>]
<1>1. \A t \in 1 .. 2 : (IF t \in s.changed THEN <<SquadPacket(s, t)>> ELSE <<>>)
                            \in Seq(Forwardable)
  <2> TAKE t \in 1 .. 2
  <2>1. SquadPacket(s, t) \in Forwardable
    BY SquadPacketTyped DEF Teams
  <2> QED
    BY <2>1
<1>2. parts \in [1 .. 2 -> Seq(Forwardable)]
  BY <1>1
<1>3. parts \in Seq(Seq(Forwardable))
  <2>1. \A T : \A n \in Nat : [1 .. n -> T] \subseteq Seq(T)
    OBVIOUS
  <2> HIDE DEF parts
  <2> QED
    BY <1>2, <2>1
<1>4. FlattenSeq(parts) \in Seq(Forwardable)
  <2> HIDE DEF parts
  <2> QED
    BY <1>3, FlattenType
<1> QED
  BY <1>4 DEF ChangedPackets

LEMMA TurnPacketsTyped ==
    ASSUME NEW s \in Scenes, NEW won \in BOOLEAN
    PROVE  TurnPackets(s, won) \in Seq(Forwardable)
<1>1. UnitPacket("endgame", Victor(s)) \in Forwardable
  BY UnitKinds, PacketKinds DEF UnitPacket, Victor, Teams
<1>2. UnitPacket("endturn", 0) \in Forwardable
  BY UnitKinds, PacketKinds DEF UnitPacket
<1>3. (IF won THEN <<UnitPacket("endgame", Victor(s))>> ELSE <<>>) \in Seq(Forwardable)
  BY <1>1
<1>4. <<UnitPacket("endturn", 0)>> \in Seq(Forwardable)
  BY <1>2
<1>5. \A a, b, c \in Seq(Forwardable) : a \o b \o c \in Seq(Forwardable)
  BY ConcatProperties
<1> QED
  BY <1>3, <1>4, <1>5, ChangedPacketsTyped DEF TurnPackets

LEMMA SentTyped ==
    ASSUME ClientsTyped, NEW c \in Uids, NEW packets \in Seq(Forwardable)
    PROVE  [outbox EXCEPT ![c] = @ \o packets] \in [Uids -> Seq(FromClients)]
<1>1. packets \in Seq(FromClients)
  <2>1. \A i \in 1 .. Len(packets) : packets[i] \in FromClients
    BY DEF FromClients
  <2>2. packets \in [1 .. Len(packets) -> FromClients] /\ Len(packets) \in Nat
    BY <2>1
  <2> QED
    BY <2>2
<1>2. outbox[c] \o packets \in Seq(FromClients)
  BY <1>1, ConcatProperties DEF ClientsTyped
<1> QED
  BY <1>2 DEF ClientsTyped

--------------------------------------------------------------------------------
(* Every action keeps the types. *)

LEMMA ServerTyped ==
    ASSUME Typed,
           \/ Server \/ Launch
    PROVE  Typed'
<1> USE DEF Typed
<1>1. CASE OnClientConnect
  <2> DEFINE c == Head(events).client
             clients == AddClient(c)
             init == To(c, Packet("init", AssignClientLocalID(c, clients)))
             starts == To(clients[1], Packet("start", 0)) \o To(clients[2], Packet("start", 0))
  <2>1. c \in Uids
    BY <1>1, HeadTyped DEF OnClientConnect, NextEventIs
  <2>2. \E sends \in Seq(Sends(ToClients)) : DispatchConnect(sends)
    <3>1. CASE gameActive
      <4>1. DispatchConnect(To(c, Packet("reconnect", TRUE))
                            \o ToOthers(c, clients, Packet("ready", 0)))
        BY <1>1, <3>1 DEF OnClientConnect
      <4> QED
        BY <2>1, <4>1, ConnectSends
    <3>2. CASE ~gameActive /\ Len(clients) >= 2
      <4>1. DispatchConnect(init \o starts)
        BY <1>1, <3>2 DEF OnClientConnect
      <4> QED
        BY <2>1, <3>2, <4>1, ConnectSends
    <3>3. CASE ~gameActive /\ ~(Len(clients) >= 2)
      <4>1. DispatchConnect(init \o <<>>)
        BY <1>1, <3>3 DEF OnClientConnect
      <4> QED
        BY <2>1, <4>1, ConnectSends
    <3> QED
      BY <3>1, <3>2, <3>3
  <2>3. TransportTyped'
    BY <2>2, DispatchTyped
  <2>4. gameActive' \in BOOLEAN
    <3>1. gameActive' = gameActive \/ gameActive' = (Len(clients) >= 2)
      BY <1>1, Zenon DEF OnClientConnect
    <3>2. (Len(clients) >= 2) \in BOOLEAN
      OBVIOUS
    <3> QED
      BY <3>1, <3>2
  <2>5. UNCHANGED clientVars
    BY <1>1 DEF OnClientConnect
  <2> QED
    BY <2>3, <2>4, <2>5 DEF ClientsTyped, clientVars
<1>2. CASE ForwardData
  <2>1. TransportTyped'
    BY <1>2, ForwardSends, DispatchTyped DEF ForwardData
  <2> QED
    BY <1>2, <2>1 DEF ForwardData, ClientsTyped, clientVars, serverVars
<1>3. CASE ResumeBoth
  <2>1. TransportTyped'
    BY <1>3, ResumeSends, DispatchTyped DEF ResumeBoth
  <2> QED
    BY <1>3, <2>1 DEF ResumeBoth, ClientsTyped, clientVars, serverVars
<1>4. CASE ResumePastEnd
  BY <1>4 DEF ResumePastEnd, TransportTyped, transportVars, ClientsTyped, clientVars
<1>5. CASE OnClientDisconnect
  <2> DEFINE c == Head(events).client
  <2>1. \E sends \in Seq(Sends(ToClients)) : DispatchDisconnect(sends)
    <3>1. CASE gameActive'
      <4>1. DispatchDisconnect(To(DropClient(c)[1], Packet("data_sender", 0)))
            /\ DropClient(c) # <<>>
        BY <1>5, <3>1 DEF OnClientDisconnect
      <4> QED
        BY <4>1, DisconnectSends
    <3>2. CASE ~gameActive'
      <4>1. DispatchDisconnect(<<>>)
        BY <1>5, <3>2 DEF OnClientDisconnect
      <4>2. <<>> \in Seq(Sends(ToClients))
        OBVIOUS
      <4> QED
        BY <4>1, <4>2
    <3> QED
      BY <3>1, <3>2
  <2>2. TransportTyped'
    BY <2>1, DispatchTyped
  <2>3. gameActive' \in BOOLEAN /\ UNCHANGED clientVars
    BY <1>5 DEF OnClientDisconnect
  <2> QED
    BY <2>2, <2>3 DEF ClientsTyped, clientVars
<1>6. CASE \E c \in live : Detect(c)
  <2>1. TransportTyped'
    BY <1>6, OpenTyped DEF Detect
  <2> QED
    BY <1>6, <2>1 DEF Detect, ClientsTyped, clientVars, serverVars
<1>7. CASE Launch
  <2>1. TransportTyped'
    BY <1>7, OpenTyped DEF Launch
  <2> QED
    BY <1>7, <2>1 DEF Launch, ClientsTyped, clientVars, serverVars
<1> QED
  BY <1>1, <1>2, <1>3, <1>4, <1>5, <1>6, <1>7 DEF Server

LEMMA FreshTyped == FreshComponent \in Components /\ FreshScene \in Scenes
<1>1. <<>> \in Seq(UnitMsgs) /\ Army \in 0 .. Army
  BY SessionAssumption
<1> QED
  BY <1>1 DEF FreshComponent, Components, FreshScene, Scenes, Teams

LEMMA LeaveTyped ==
    ASSUME Typed, NEW c \in Uids, Leave(c)
    PROVE  Typed'
<1>1. TransportTyped'
  BY OpenTyped DEF Leave, Typed
<1>2. outbox' \in [Uids -> Seq(FromClients)]
  BY NobodyTyped DEF Leave, Typed, ClientsTyped
<1>3. comp' \in [Uids -> Components] /\ scene' \in [Uids -> Scenes]
  BY FreshTyped DEF Leave, Typed, ClientsTyped
<1>4. main' \in [Uids -> {"top", "began", "sent"}] /\ gameActive' = gameActive
  BY DEF Leave, Typed, ClientsTyped, serverVars
<1> QED
  BY <1>1, <1>2, <1>3, <1>4 DEF Typed, ClientsTyped

LEMMA ConsumerTyped ==
    ASSUME Typed, NEW c \in Uids, ConsumerThread(c)
    PROVE  Typed'
<1> USE DEF Typed
<1>1. CASE Flush(c)
  <2>1. outbox[c] \in Seq(FromClients) /\ outbox[c] # <<>>
    BY <1>1 DEF Flush, ClientsTyped
  <2>2. Head(outbox[c]) \in FromClients /\ Tail(outbox[c]) \in Seq(FromClients)
    BY <2>1
  <2>3. TransportTyped'
    BY <1>1, <2>2, ReceiveTyped DEF Flush
  <2>4. outbox' \in [Uids -> Seq(FromClients)]
    BY <1>1, <2>2 DEF Flush, ClientsTyped
  <2> QED
    BY <1>1, <2>3, <2>4 DEF Flush, ClientsTyped, serverVars
<1>2. CASE Consume(c)
  <2>1. TransportTyped' /\ Head(inbox[c]) \in ToClients
    BY <1>2, TakeTyped DEF Consume
  <2>2. ProcessReceived(comp[c], Head(inbox[c])) \in Components
    BY <2>1, ProcessReceivedTyped DEF ClientsTyped
  <2>3. comp' \in [Uids -> Components]
    BY <1>2, <2>2 DEF Consume, ClientsTyped
  <2> QED
    BY <1>2, <2>1, <2>3 DEF Consume, ClientsTyped, serverVars
<1> QED
  BY <1>1, <1>2 DEF ConsumerThread

LEMMA MainThreadTyped ==
    ASSUME Typed, NEW c \in Uids, MainThread(c)
    PROVE  Typed'
<1> USE DEF Typed
<1>1. /\ comp[c] \in Components /\ scene[c] \in Scenes
      /\ outbox[c] \in Seq(FromClients) /\ comp[c].unit_update_queue \in Seq(UnitMsgs)
  BY DEF ClientsTyped, Components
<1>2. InUpdate(c) => AssignTeam(c) \in Scenes
  BY AssignTeamTyped
<1>3. <<>> \in Seq(UnitMsgs)
  OBVIOUS
<1>4. \A s \in Scenes : [scene EXCEPT ![c] = s] \in [Uids -> Scenes]
  BY DEF ClientsTyped
<1>5. \A m \in {"top", "began", "sent"} :
         [main EXCEPT ![c] = m] \in [Uids -> {"top", "began", "sent"}]
  BY DEF ClientsTyped
<1>6. CASE BeginUpdate(c)
  BY <1>5, <1>6 DEF BeginUpdate, ClientsTyped, TransportTyped, transportVars, serverVars
<1>12. CASE AssignTeamLate(c)
  <2>1. [scene[c] EXCEPT !.assigned_team = 2] \in Scenes
    BY <1>1 DEF Scenes, Teams
  <2>2. scene' \in [Uids -> Scenes]
    BY <1>4, <1>12, <2>1 DEF AssignTeamLate
  <2> QED
    BY <1>12, <2>2
    DEF AssignTeamLate, ClientsTyped, TransportTyped, transportVars, serverVars
<1>7. CASE UpdateReconnectee(c)
  <2>1. Snapshot(AssignTeam(c)) \in Seq(Forwardable)
    BY <1>2, <1>7, SnapshotTyped DEF UpdateReconnectee
  <2>2. outbox' \in [Uids -> Seq(FromClients)]
    BY <1>7, <2>1, SentTyped DEF UpdateReconnectee
  <2>3. scene' \in [Uids -> Scenes]
    BY <1>2, <1>4, <1>7 DEF UpdateReconnectee
  <2> QED
    BY <1>5, <1>7, <2>2, <2>3
    DEF UpdateReconnectee, ClientsTyped, TransportTyped, transportVars, serverVars
<1>8. CASE ResetReadyToSend(c)
  <2>1. [comp[c] EXCEPT !.ready_to_send = FALSE] \in Components
    BY <1>1 DEF Components
  <2>2. comp' \in [Uids -> Components]
    BY <1>8, <2>1 DEF ResetReadyToSend, ClientsTyped
  <2> QED
    BY <1>5, <1>8, <2>2
    DEF ResetReadyToSend, ClientsTyped, TransportTyped, transportVars, serverVars
<1>9. CASE ResumeFromSnapshot(c)
  <2> DEFINE k == comp[c]
             turned == IF k.player_turn = -1 THEN AssignTeam(c)
                       ELSE [AssignTeam(c) EXCEPT !.player_turn = k.player_turn]
             teamed == IF k.assigned_player = -1 THEN turned
                       ELSE [turned EXCEPT !.assigned_team = k.assigned_player]
             user == IF k.assigned_player = -1 THEN k.user_ID ELSE k.assigned_player - 1
  <2>1. AssignTeam(c) \in Scenes
    BY <1>2, <1>9 DEF ResumeFromSnapshot
  <2>2. teamed \in Scenes
    <3>1. turned \in Scenes
      BY <1>1, <2>1 DEF Components, Scenes
    <3> HIDE DEF turned
    <3> QED
      BY <1>1, <3>1 DEF Components, Scenes
  <2>3. scene' = [scene EXCEPT ![c] = UnitsUpdate(UnitNetworkUpdate(teamed, k.unit_update_queue))]
    BY <1>9 DEF ResumeFromSnapshot
  <2>4. UnitsUpdate(UnitNetworkUpdate(teamed, k.unit_update_queue)) \in Scenes
    <3> HIDE DEF teamed
    <3> QED
      BY <1>1, <2>2, UnitNetworkUpdateTyped, UnitsUpdateTyped
  <2>5. scene' \in [Uids -> Scenes]
    <3> HIDE DEF teamed
    <3> QED
      BY <1>4, <2>3, <2>4
  <2>6. comp' = [comp EXCEPT ![c] = [@ EXCEPT !.user_ID = user, !.unit_update_queue = <<>>,
                                              !.update_complete = FALSE]]
    BY <1>9 DEF ResumeFromSnapshot, ClientsTyped
  <2>7. [k EXCEPT !.user_ID = user, !.unit_update_queue = <<>>, !.update_complete = FALSE]
           \in Components
    <3>1. user \in {-1, 0, 1}
      BY <1>1 DEF Components, Teams
    <3> HIDE DEF user
    <3> QED
      BY <1>1, <1>3, <3>1 DEF Components
  <2>8. comp' \in [Uids -> Components]
    <3> HIDE DEF user
    <3> QED
      BY <2>6, <2>7 DEF ClientsTyped
  <2>9. outbox' \in [Uids -> Seq(FromClients)]
    <3>1. Append(outbox[c], Packet("resume", 0)) \in Seq(FromClients)
      BY <1>1, PacketKinds
    <3> QED
      BY <1>9, <3>1 DEF ResumeFromSnapshot, ClientsTyped
  <2> QED
    BY <1>5, <1>9, <2>5, <2>8, <2>9
    DEF ResumeFromSnapshot, ClientsTyped, TransportTyped, transportVars, serverVars
<1>10. CASE PlayFrame(c)
  <2> DEFINE s == UnitsUpdate(AssignTeam(c))
             q == comp[c].unit_update_queue
             t == IF Listening(s) THEN UnitNetworkUpdate(s, q) ELSE s
  <2>1. s \in Scenes
    BY <1>2, <1>10, UnitsUpdateTyped DEF PlayFrame
  <2>2. scene' = [scene EXCEPT ![c] = t]
    BY <1>10 DEF PlayFrame
  <2>3. t \in Scenes
    <3> HIDE DEF s
    <3> QED
      BY <1>1, <2>1, UnitNetworkUpdateTyped
  <2>4. scene' \in [Uids -> Scenes]
    <3> HIDE DEF t
    <3> QED
      BY <1>4, <2>2, <2>3
  <2>5. [comp[c] EXCEPT !.unit_update_queue = <<>>] \in Components
    BY <1>1, <1>3 DEF Components
  <2>6. comp' = comp \/ comp' = [comp EXCEPT ![c].unit_update_queue = <<>>]
    BY <1>10 DEF PlayFrame
  <2>7. comp' \in [Uids -> Components]
    BY <2>5, <2>6 DEF ClientsTyped
  <2> QED
    BY <1>5, <1>10, <2>4, <2>7
    DEF PlayFrame, ClientsTyped, TransportTyped, transportVars, serverVars
<1>11. CASE IdleFrame(c)
  <2>1. scene' \in [Uids -> Scenes]
    BY <1>2, <1>4, <1>11 DEF IdleFrame
  <2> QED
    BY <1>5, <1>11, <2>1
    DEF IdleFrame, ClientsTyped, TransportTyped, transportVars, serverVars
<1> QED
  BY <1>6, <1>7, <1>8, <1>9, <1>10, <1>11, <1>12 DEF MainThread

LEMMA PlayerTyped ==
    ASSUME Typed, NEW c \in Uids, Player(c)
    PROVE  Typed'
<1> USE DEF Typed
<1>1. scene[c] \in Scenes
  BY DEF ClientsTyped
<1>2. \A s \in Scenes : [scene EXCEPT ![c] = s] \in [Uids -> Scenes]
  BY DEF ClientsTyped
<1>3. CASE Move(c)
  <2>1. scene[c].assigned_team \in Teams
    BY <1>1, <1>3 DEF Move, HasUnit, Scenes
  <2>2. [scene[c] EXCEPT !.changed = @ \cup {scene[c].assigned_team}] \in Scenes
    BY <1>1, <2>1 DEF Scenes
  <2>3. scene' = [scene EXCEPT ![c] =
                     [scene[c] EXCEPT !.changed = @ \cup {scene[c].assigned_team}]]
    BY <1>3 DEF Move, ClientsTyped
  <2> QED
    BY <1>2, <1>3, <2>2, <2>3 DEF Move, ClientsTyped, TransportTyped, transportVars, serverVars
<1>4. CASE Attack(c)
  <2> DEFINE target == Other(scene[c].assigned_team)
  <2>1. target \in Teams
    BY <1>1, <1>4 DEF Attack, HasUnit, Scenes, Other, Teams
  <2>2. PICK left \in 0 .. scene[c].squads[target] :
           scene' = [scene EXCEPT ![c].squads[target] = left,
                                  ![c].changed = @ \cup {target}]
    BY <1>4 DEF Attack
  <2> HIDE DEF target
  <2>3. left \in 0 .. Army
    BY <1>1, <2>1, SessionAssumption DEF Scenes
  <2>4. [scene[c] EXCEPT !.squads = [@ EXCEPT ![target] = left],
                         !.changed = @ \cup {target}] \in Scenes
    BY <1>1, <2>1, <2>3 DEF Scenes
  <2>5. scene' = [scene EXCEPT ![c] =
                     [scene[c] EXCEPT !.squads = [@ EXCEPT ![target] = left],
                                      !.changed = @ \cup {target}]]
    BY <2>2 DEF ClientsTyped
  <2>6. scene' \in [Uids -> Scenes]
    BY <1>2, <2>4, <2>5
  <2> QED
    BY <1>4, <2>6 DEF Attack, ClientsTyped, TransportTyped, transportVars, serverVars
<1>5. CASE NextTurnPressed(c)
  <2> DEFINE s == IF Depleted(scene[c]) THEN Finish(scene[c]) ELSE scene[c]
             next == [s EXCEPT !.changed = {}, !.player_turn = Other(@)]
  <2>1. PICK fell \in EndgameFallthrough :
           /\ outbox' = [outbox EXCEPT ![c] =
                            @ \o TurnPackets(s, Depleted(scene[c]) \/ fell)]
           /\ scene' = [scene EXCEPT ![c] = next]
    BY <1>5 DEF NextTurnPressed
  <2>2. s \in Scenes
    BY <1>1, <1>5 DEF Finish, Scenes, NextTurnPressed
  <2>3. (Depleted(scene[c]) \/ fell) \in BOOLEAN
    BY SessionAssumption DEF Depleted
  <2>4. TurnPackets(s, Depleted(scene[c]) \/ fell) \in Seq(Forwardable)
    <3> HIDE DEF s
    <3> QED
      BY <2>2, <2>3, TurnPacketsTyped
  <2>5. outbox' \in [Uids -> Seq(FromClients)]
    <3> HIDE DEF s
    <3> QED
      BY <2>1, <2>4, SentTyped
  <2>6. next \in Scenes
    <3> HIDE DEF s
    <3>1. Other(s.player_turn) \in Teams /\ {} \in SUBSET Teams
      BY <2>2 DEF Scenes, Other, Teams
    <3>2. \A t \in Teams : [s EXCEPT !.changed = {}, !.player_turn = t] \in Scenes
      BY <2>2 DEF Scenes
    <3> QED
      BY <3>1, <3>2
  <2>7. scene' \in [Uids -> Scenes]
    <3> HIDE DEF next
    <3> QED
      BY <1>2, <2>1, <2>6
  <2> QED
    BY <1>5, <2>5, <2>7
    DEF NextTurnPressed, ClientsTyped, TransportTyped, transportVars, serverVars
<1> QED
  BY <1>3, <1>4, <1>5 DEF Player

LEMMA InitTyped == Init => Typed
<1> SUFFICES ASSUME Init PROVE Typed
  OBVIOUS
<1>1. /\ <<>> \in Seq(ClientEvents) /\ <<>> \in Seq(Uids)
      /\ <<>> \in Seq(ToClients) /\ <<>> \in Seq(FromClients)
  OBVIOUS
<1>2. TransportTyped
  BY <1>1, SessionAssumption DEF Init, TransportInit, TransportTyped
<1>3. ClientsTyped
  BY <1>1, FreshTyped DEF Init, ClientsTyped
<1> QED
  BY <1>2, <1>3 DEF Init, Typed

LEMMA TypedSteps == Typed /\ [Next]_vars => Typed'
<1> SUFFICES ASSUME Typed, [Next]_vars PROVE Typed'
  OBVIOUS
<1>1. CASE UNCHANGED vars
  BY <1>1 DEF vars, Typed, TransportTyped, ClientsTyped, transportVars, serverVars, clientVars
<1>2. CASE Next
  BY <1>2, ServerTyped, ConsumerTyped, MainThreadTyped, PlayerTyped, LeaveTyped DEF Next
<1> QED
  BY <1>1, <1>2

LEMMA TypedHolds == Spec => []Typed
  BY InitTyped, TypedSteps, PTL DEF Spec

(* Every packet, flag and scene of a session is one that the handlers know    *)
(* how to treat: what is on its way in either direction, and what a client    *)
(* has queued, has a type and a value that the switches of onClientData,       *)
(* processRecievedPackets and unitNetworkUpdate have a case for.              *)
THEOREM TypeHolds == Spec => []TypeOK
  BY TypedHolds, TypedImpliesTypeOK, PTL

--------------------------------------------------------------------------------
(* Who is in the game: the clients of the server and the packets that take   *)
(* them from the lobby to the game and, when one of them is lost, make the    *)
(* other one wait.                                                            *)

(* No id is handed out ahead of next_uid. *)
KnownIds ==
    /\ \A i \in 1 .. Len(events) : events[i].client < nextUid
    /\ \A c : InSeq(c, connected) => c < nextUid

(* A game is active as long as it has a client; without one there is at most  *)
(* one client, which waits in the lobby.                                      *)
GameNeedsClients == IF gameActive THEN connected # <<>> ELSE Len(connected) <= 1

SessionInv ==
    Typed /\ KnownIds /\ GameNeedsClients /\ LobbyRelease /\ SurvivorWaits

(* A packet on the way takes the client out of the lobby. *)
Releases(q) == \E i \in DOMAIN q : ReleasedBy(q[i])

LEMMA ReleasesConcat ==
    ASSUME NEW M, NEW a \in Seq(M), NEW b \in Seq(M), Releases(a) \/ Releases(b)
    PROVE  Releases(a \o b)
<1>1. /\ a \o b \in Seq(M) /\ Len(a \o b) = Len(a) + Len(b)
      /\ Len(a) \in Nat /\ Len(b) \in Nat
      /\ \A i \in 1 .. Len(a) : (a \o b)[i] = a[i]
      /\ \A i \in 1 .. Len(b) : (a \o b)[Len(a) + i] = b[i]
  <2>1. /\ a \o b \in Seq(M) /\ Len(a \o b) = Len(a) + Len(b)
        /\ Len(a) \in Nat /\ Len(b) \in Nat
        /\ \A i \in 1 .. Len(a) + Len(b) :
              (a \o b)[i] = IF i <= Len(a) THEN a[i] ELSE b[i - Len(a)]
    BY ConcatProperties
  <2> QED
    BY <2>1
<1>2. CASE Releases(a)
  <2>1. PICK i \in 1 .. Len(a) : ReleasedBy(a[i])
    BY <1>2 DEF Releases
  <2>2. i \in 1 .. Len(a \o b) /\ (a \o b)[i] = a[i]
    BY <1>1, <2>1
  <2> QED
    BY <1>1, <2>1, <2>2 DEF Releases
<1>3. CASE Releases(b)
  <2>1. PICK i \in 1 .. Len(b) : ReleasedBy(b[i])
    BY <1>3 DEF Releases
  <2>2. Len(a) + i \in 1 .. Len(a \o b) /\ (a \o b)[Len(a) + i] = b[i]
    BY <1>1, <2>1
  <2> QED
    BY <1>1, <2>1, <2>2 DEF Releases
<1> QED
  BY <1>2, <1>3

LEMMA ReleasesTail ==
    ASSUME NEW M, NEW q \in Seq(M), q # <<>>, Releases(q), ~ReleasedBy(Head(q))
    PROVE  Releases(Tail(q))
<1>1. PICK i \in 1 .. Len(q) : ReleasedBy(q[i])
  BY DEF Releases
<1>2. i # 1
  BY <1>1
<1>3. i - 1 \in 1 .. Len(Tail(q)) /\ Tail(q)[i - 1] = q[i]
  BY <1>1, <1>2
<1>4. i - 1 \in DOMAIN Tail(q) /\ ReleasedBy(Tail(q)[i - 1])
  BY <1>1, <1>3
<1> QED
  BY <1>4, Zenon DEF Releases

(* What is sent behind it does not end the waiting, unless it resumes. *)
LEMMA WaitsConcat ==
    ASSUME NEW k, NEW M, NEW a \in Seq(M), NEW b \in Seq(M), Waits(k, a),
           \A i \in 1 .. Len(b) : b[i].type # "reconnect"
    PROVE  Waits(k, a \o b)
<1>1. /\ a \o b \in Seq(M) /\ Len(a \o b) = Len(a) + Len(b)
      /\ Len(a) \in Nat /\ Len(b) \in Nat
      /\ \A i \in 1 .. Len(a) + Len(b) :
            (a \o b)[i] = IF i <= Len(a) THEN a[i] ELSE b[i - Len(a)]
  BY ConcatProperties
<1>2. ASSUME NEW i \in 1 .. Len(a \o b)
      PROVE  \/ i \in 1 .. Len(a) /\ (a \o b)[i] = a[i]
             \/ (a \o b)[i].type # "reconnect"
  <2>1. CASE i <= Len(a)
    BY <1>1, <2>1
  <2>2. CASE ~(i <= Len(a))
    <3>1. i - Len(a) \in 1 .. Len(b)
      BY <1>1, <2>2
    <3> QED
      BY <1>1, <2>2, <3>1
  <2> QED
    BY <2>1, <2>2
<1>3. CASE k.is_reconnecting /\ \A i \in DOMAIN a : a[i].type = "reconnect" => a[i].msg
  <2>1. \A i \in 1 .. Len(a \o b) : (a \o b)[i].type = "reconnect" => (a \o b)[i].msg
    BY <1>2, <1>3
  <2> QED
    BY <1>1, <1>3, <2>1 DEF Waits
<1>4. CASE \E i \in DOMAIN a : /\ a[i].type = "data_sender"
                               /\ \A j \in i + 1 .. Len(a) : a[j].type # "reconnect"
  <2>1. PICK i \in 1 .. Len(a) : /\ a[i].type = "data_sender"
                                 /\ \A j \in i + 1 .. Len(a) : a[j].type # "reconnect"
    BY <1>4
  <2>2. i \in 1 .. Len(a \o b) /\ (a \o b)[i] = a[i]
    BY <1>1, <2>1
  <2>3. ASSUME NEW j \in i + 1 .. Len(a \o b) PROVE (a \o b)[j].type # "reconnect"
    <3>1. j \in 1 .. Len(a \o b) /\ j > i
      BY <1>1, <2>1
    <3>2. j \in 1 .. Len(a) => j \in i + 1 .. Len(a)
      BY <1>1, <2>1, <3>1
    <3> QED
      BY <1>2, <2>1, <3>1, <3>2
  <2> QED
    BY <1>1, <2>1, <2>2, <2>3 DEF Waits
<1> QED
  BY <1>3, <1>4 DEF Waits

(* The client goes on to wait when it takes its next packet. *)
LEMMA WaitsConsumed ==
    ASSUME NEW k \in Components, NEW q \in Seq(ToClients), q # <<>>, Waits(k, q)
    PROVE  Waits(ProcessReceived(k, Head(q)), Tail(q))
<1> DEFINE p == Head(q)
           r == Tail(q)
<1>1. /\ p \in ToClients /\ p = q[1] /\ Len(q) \in Nat \ {0}
      /\ r \in Seq(ToClients) /\ Len(r) = Len(q) - 1
      /\ \A i \in 1 .. Len(q) - 1 : r[i] = q[i + 1]
  OBVIOUS
<1>2. /\ p.type = "data_sender" => ProcessReceived(k, p).is_reconnecting
      /\ p.type = "reconnect" /\ p.msg => ProcessReceived(k, p).is_reconnecting
      /\ p.type # "reconnect" /\ k.is_reconnecting => ProcessReceived(k, p).is_reconnecting
  BY <1>1 DEF ProcessReceived, Components, ToClients, Forwardable
<1> HIDE DEF p, r
<1>3. CASE k.is_reconnecting /\ \A i \in DOMAIN q : q[i].type = "reconnect" => q[i].msg
  <2>1. \A i \in 1 .. Len(q) - 1 : i + 1 \in 1 .. Len(q)
    BY <1>1
  <2>2. \A i \in 1 .. Len(r) : r[i].type = "reconnect" => r[i].msg
    BY <1>1, <1>3, <2>1
  <2>3. 1 \in DOMAIN q
    BY <1>1
  <2>4. ProcessReceived(k, p).is_reconnecting
    BY <1>1, <1>2, <1>3, <2>3
  <2> QED
    BY <1>1, <2>2, <2>4 DEF Waits, p, r
<1>4. CASE \E i \in DOMAIN q : /\ q[i].type = "data_sender"
                               /\ \A j \in i + 1 .. Len(q) : q[j].type # "reconnect"
  <2>1. PICK i \in 1 .. Len(q) : /\ q[i].type = "data_sender"
                                 /\ \A j \in i + 1 .. Len(q) : q[j].type # "reconnect"
    BY <1>4
  <2>2. CASE i = 1
    <3>1. ProcessReceived(k, p).is_reconnecting
      BY <1>1, <1>2, <2>1, <2>2
    <3>2. \A j \in 1 .. Len(q) - 1 : j + 1 \in 2 .. Len(q)
      BY <1>1
    <3>3. \A j \in 1 .. Len(r) : r[j].type # "reconnect"
      BY <1>1, <2>1, <2>2, <3>2
    <3> QED
      BY <1>1, <3>1, <3>3 DEF Waits, p, r
  <2>3. CASE i # 1
    <3>1. i - 1 \in 1 .. Len(q) - 1 /\ (i - 1) + 1 = i
      BY <1>1, <2>1, <2>3
    <3>2. r[i - 1] = q[i]
      BY <1>1, <3>1
    <3>3. ASSUME NEW j \in (i - 1) + 1 .. Len(r) PROVE r[j].type # "reconnect"
      <4>1. j \in 1 .. Len(q) - 1 /\ j + 1 \in i + 1 .. Len(q)
        BY <1>1, <2>1, <3>1
      <4> QED
        BY <1>1, <2>1, <4>1
    <3>4. i - 1 \in DOMAIN r /\ r[i - 1].type = "data_sender"
      BY <1>1, <2>1, <3>1, <3>2
    <3>5. Waits(ProcessReceived(k, p), r)
      BY <3>3, <3>4, Zenon DEF Waits
    <3> QED
      BY <3>5 DEF p, r
  <2> QED
    BY <2>2, <2>3
<1> QED
  BY <1>3, <1>4 DEF Waits

(* Most steps of a client leave the game and its members alone. *)
Quiet ==
    /\ UNCHANGED <<nextUid, live, breaking, connected, inbox, gameActive>>
    /\ \A u \in Uids : /\ comp'[u].is_lobby = comp[u].is_lobby
                       /\ comp'[u].is_reconnecting = comp[u].is_reconnecting
    /\ \/ events' = events
       \/ \E c \in live : \E m : events' = Append(events, Event("receive", c, m))

LEMMA QuietKeeps ==
    ASSUME SessionInv, Quiet
    PROVE  KnownIds' /\ GameNeedsClients' /\ LobbyRelease' /\ SurvivorWaits'
<1>1. Up' = Up /\ Up \subseteq Uids
  BY LiveIsUid DEF Quiet, Up, SessionInv, Typed
<1>2. KnownIds'
  <2>1. \A c : InSeq(c, connected)' <=> InSeq(c, connected)
    BY DEF Quiet, InSeq
  <2>2. \A i \in 1 .. Len(events') : events'[i].client < nextUid
    <3>1. CASE events' = events
      BY <3>1 DEF SessionInv, KnownIds
    <3>2. CASE \E c \in live : \E m : events' = Append(events, Event("receive", c, m))
      <4>0. PICK c \in live : \E m : events' = Append(events, Event("receive", c, m))
        BY <3>2
      <4>1. PICK m : events' = Append(events, Event("receive", c, m))
        BY <4>0
      <4>2. c < nextUid
        BY DEF SessionInv, Typed, TransportTyped
      <4>3. events \in Seq(ClientEvents) /\ \A i \in 1 .. Len(events) : events[i].client < nextUid
        BY DEF SessionInv, Typed, TransportTyped, KnownIds
      <4>4. \A i \in 1 .. Len(events') :
               \/ i \in 1 .. Len(events) /\ events'[i] = events[i]
               \/ events'[i] = Event("receive", c, m)
        BY <4>1, <4>3
      <4> QED
        BY <4>2, <4>3, <4>4 DEF Event
    <3> QED
      BY <3>1, <3>2 DEF Quiet
  <2> QED
    BY <2>1, <2>2 DEF KnownIds, SessionInv, Quiet
<1>3. GameNeedsClients'
  BY DEF GameNeedsClients, SessionInv, Quiet
<1>4. LobbyRelease'
  <2> SUFFICES ASSUME gameActive', NEW c \in Up', InSeq(c, connected)'
               PROVE  ~comp'[c].is_lobby \/ \E i \in DOMAIN inbox'[c] : ReleasedBy(inbox'[c][i])
    BY DEF LobbyRelease
  <2>1. c \in Up /\ c \in Uids /\ InSeq(c, connected) /\ gameActive
    BY <1>1 DEF InSeq, Quiet
  <2> QED
    BY <2>1 DEF LobbyRelease, SessionInv, Quiet
<1>5. SurvivorWaits'
  <2> SUFFICES ASSUME NEW c \in Up', gameActive', connected' = <<c>>
               PROVE  Waits(comp'[c], inbox'[c])
    BY DEF SurvivorWaits
  <2>1. c \in Uids /\ Waits(comp[c], inbox[c])
    BY <1>1 DEF SurvivorWaits, SessionInv, Quiet
  <2>2. inbox' = inbox /\ comp'[c].is_reconnecting = comp[c].is_reconnecting
    BY <2>1 DEF Quiet
  <2> QED
    BY <2>1, <2>2 DEF Waits
<1> QED
  BY <1>2, <1>3, <1>4, <1>5

LEMMA QuietSteps ==
    ASSUME Typed, NEW c \in Uids,
           \/ c \in Up /\ Flush(c)
           \/ MainThread(c)
           \/ Player(c)
    PROVE  Quiet
<1>1. comp \in [Uids -> Components]
  BY DEF Typed, ClientsTyped
<1>2. CASE c \in Up /\ Flush(c)
  BY <1>2 DEF Flush, Receive, Quiet, serverVars, Up
<1>3. CASE MainThread(c)
  <2>1. CASE BeginUpdate(c) \/ AssignTeamLate(c) \/ UpdateReconnectee(c) \/ IdleFrame(c)
    BY <2>1 DEF BeginUpdate, AssignTeamLate, UpdateReconnectee, IdleFrame, Quiet,
                transportVars, serverVars
  <2>2. CASE ResetReadyToSend(c)
    BY <1>1, <2>2 DEF ResetReadyToSend, Quiet, transportVars, serverVars, Components
  <2>3. CASE ResumeFromSnapshot(c)
    <3>1. PICK user, queue : comp' = [comp EXCEPT ![c].user_ID = user,
                                                  ![c].unit_update_queue = queue,
                                                  ![c].update_complete = FALSE]
      BY <2>3 DEF ResumeFromSnapshot
    <3>2. \A u \in Uids : /\ comp'[u].is_lobby = comp[u].is_lobby
                          /\ comp'[u].is_reconnecting = comp[u].is_reconnecting
      BY <1>1, <3>1 DEF Components
    <3> QED
      BY <2>3, <3>2 DEF ResumeFromSnapshot, Quiet, transportVars, serverVars
  <2>4. CASE PlayFrame(c)
    <3>1. comp' = comp \/ comp' = [comp EXCEPT ![c].unit_update_queue = <<>>]
      BY <2>4 DEF PlayFrame
    <3>2. \A u \in Uids : /\ comp'[u].is_lobby = comp[u].is_lobby
                          /\ comp'[u].is_reconnecting = comp[u].is_reconnecting
      BY <1>1, <3>1, SMTT(30) DEF Components
    <3> QED
      BY <2>4, <3>2 DEF PlayFrame, Quiet, transportVars, serverVars
  <2> QED
    BY <1>3, <2>1, <2>2, <2>3, <2>4 DEF MainThread
<1>4. CASE Player(c)
  BY <1>4 DEF Player, Move, Attack, NextTurnPressed, Quiet, transportVars, serverVars
<1> QED
  BY <1>2, <1>3, <1>4

LEMMA ConsumeKeeps ==
    ASSUME SessionInv, NEW c \in Up, Consume(c)
    PROVE  KnownIds' /\ GameNeedsClients' /\ LobbyRelease' /\ SurvivorWaits'
<1>1. /\ c \in Uids /\ inbox \in [Uids -> Seq(ToClients)] /\ comp \in [Uids -> Components]
      /\ Up \subseteq Uids
  BY LiveIsUid DEF SessionInv, Typed, TransportTyped, ClientsTyped, Up
<1>2. /\ inbox[c] # <<>> /\ inbox' = [inbox EXCEPT ![c] = Tail(@)]
      /\ comp' = [comp EXCEPT ![c] = ProcessReceived(@, Head(inbox[c]))]
      /\ UNCHANGED <<nextUid, live, breaking, events, connected, gameActive>>
  BY DEF Consume, Take, serverVars
<1>3. \A u \in Uids : u # c => inbox'[u] = inbox[u] /\ comp'[u] = comp[u]
  BY <1>1, <1>2
<1>4. inbox'[c] = Tail(inbox[c]) /\ comp'[c] = ProcessReceived(comp[c], Head(inbox[c]))
  BY <1>1, <1>2
<1>5. Head(inbox[c]) \in ToClients
  BY <1>1, <1>2
<1>6. KnownIds' /\ GameNeedsClients' /\ Up' = Up
  BY <1>2 DEF KnownIds, GameNeedsClients, InSeq, SessionInv, Up
<1>7. LobbyRelease'
  <2> SUFFICES ASSUME gameActive', NEW d \in Up', InSeq(d, connected)'
               PROVE  ~comp'[d].is_lobby \/ Releases(inbox'[d])
    BY DEF LobbyRelease, Releases
  <2>1. d \in Uids /\ (~comp[d].is_lobby \/ Releases(inbox[d]))
    BY <1>1, <1>2, <1>6 DEF LobbyRelease, Releases, SessionInv, InSeq
  <2>2. CASE d # c
    BY <1>3, <2>1, <2>2
  <2>3. CASE d = c
    <3>1. ReleasedBy(Head(inbox[c])) => ~ProcessReceived(comp[c], Head(inbox[c])).is_lobby
      BY <1>1, <1>5 DEF ReleasedBy, ProcessReceived, Components, ToClients, Forwardable
    <3>2. ~comp[c].is_lobby => ~ProcessReceived(comp[c], Head(inbox[c])).is_lobby
      BY <1>1, <1>5 DEF ProcessReceived, Components, ToClients, Forwardable
    <3>3. inbox[c] \in Seq(ToClients)
      BY <1>1
    <3>4. Releases(inbox[c]) /\ ~ReleasedBy(Head(inbox[c])) => Releases(Tail(inbox[c]))
      BY <1>2, <3>3, ReleasesTail
    <3> QED
      BY <1>4, <2>1, <2>3, <3>1, <3>2, <3>4
  <2> QED
    BY <2>2, <2>3
<1>8. SurvivorWaits'
  <2> SUFFICES ASSUME NEW d \in Up', gameActive', connected' = <<d>>
               PROVE  Waits(comp'[d], inbox'[d])
    BY DEF SurvivorWaits
  <2>1. d \in Uids /\ Waits(comp[d], inbox[d])
    BY <1>1, <1>2, <1>6 DEF SurvivorWaits, SessionInv
  <2>2. CASE d # c
    BY <1>3, <2>1, <2>2
  <2>3. CASE d = c
    BY <1>1, <1>2, <1>4, <2>1, <2>3, WaitsConsumed
  <2> QED
    BY <2>2, <2>3
<1> QED
  BY <1>6, <1>7, <1>8

LEMMA OpenKeeps ==
    ASSUME SessionInv, NEW c,
           \/ Launch \/ (c \in live /\ Detect(c)) \/ (c \in Uids /\ Leave(c))
    PROVE  KnownIds' /\ GameNeedsClients' /\ LobbyRelease' /\ SurvivorWaits'
<1> USE DEF SessionInv
<1>1. /\ nextUid \in Nat /\ events \in Seq(ClientEvents) /\ live \subseteq Uids
      /\ \A u \in live : u < nextUid
      /\ inbox \in [Uids -> Seq(ToClients)] /\ comp \in [Uids -> Components]
      /\ breaking \subseteq live
  BY LiveIsUid DEF Typed, TransportTyped, ClientsTyped
<1>2. /\ connected' = connected /\ gameActive' = gameActive
      /\ nextUid' \in Nat /\ nextUid <= nextUid'
  BY <1>1 DEF Launch, Connect, Detect, Disconnect, Leave, Break, serverVars
<1>3. \/ events' = events
      \/ \E e : /\ events' = Append(events, e)
                /\ e.client < nextUid'
  <2>1. CASE Launch
    BY <1>1, <2>1 DEF Launch, Connect, Event
  <2>2. CASE c \in live /\ Detect(c)
    BY <1>1, <2>2 DEF Detect, Disconnect, Event
  <2>3. CASE Leave(c)
    BY <2>3 DEF Leave, Break
  <2> QED
    BY <2>1, <2>2, <2>3
<1>4. KnownIds'
  <2>1. \A i \in 1 .. Len(events) : events[i].client < nextUid'
    <3>1. \A i \in 1 .. Len(events) : events[i].client \in Nat
      BY <1>1 DEF ClientEvents, Uids
    <3> QED
      BY <1>2, <1>1, <3>1 DEF KnownIds
  <2>2. \A i \in 1 .. Len(events') : events'[i].client < nextUid'
    <3>1. CASE events' = events
      BY <2>1, <3>1
    <3>2. CASE \E e : events' = Append(events, e) /\ e.client < nextUid'
      <4>1. PICK e : events' = Append(events, e) /\ e.client < nextUid'
        BY <3>2
      <4>2. \A i \in 1 .. Len(events') :
               \/ i \in 1 .. Len(events) /\ events'[i] = events[i]
               \/ events'[i] = e
        BY <1>1, <4>1
      <4> QED
        BY <2>1, <4>1, <4>2
    <3> QED
      BY <1>3, <3>1, <3>2
  <2>3. ASSUME NEW d, InSeq(d, connected) PROVE d < nextUid'
    <3>1. d < nextUid /\ d \in Nat
      <4>1. connected \in Seq(Uids)
        BY DEF Typed, TransportTyped
      <4>2. \A i \in DOMAIN connected : connected[i] \in Uids
        BY <4>1
      <4>3. d \in Uids
        BY <2>3, <4>2 DEF InSeq
      <4> QED
        BY <2>3, <4>3 DEF KnownIds, Uids
    <3> QED
      BY <1>1, <1>2, <3>1
  <2> QED
    BY <1>2, <2>2, <2>3 DEF KnownIds, InSeq
<1>5. GameNeedsClients'
  BY <1>2 DEF GameNeedsClients
<1>6. ASSUME NEW d \in Up', InSeq(d, connected)
      PROVE  d \in Up /\ d \in Uids /\ inbox'[d] = inbox[d] /\ comp'[d] = comp[d]
  <2>1. d # nextUid
    BY <1>1, <1>6 DEF KnownIds
  <2>2. CASE Launch
    BY <1>1, <1>6, <2>1, <2>2 DEF Launch, Connect, Up, clientVars
  <2>3. CASE c \in live /\ Detect(c)
    <3>1. d # c /\ d \in Up
      BY <1>6, <2>3 DEF Detect, Disconnect, Up
    <3> QED
      BY <1>1, <2>3, <3>1 DEF Detect, Disconnect, Up, clientVars
  <2>4. CASE c \in Uids /\ Leave(c)
    <3>1. d # c /\ d \in Up
      BY <1>6, <2>4 DEF Leave, Break, Up
    <3>2. d \in Uids
      BY <1>1, <3>1 DEF Up
    <3>3. PICK rest : inbox' = [inbox EXCEPT ![c] = rest]
      BY <2>4 DEF Leave, Break
    <3> QED
      BY <1>1, <2>4, <3>1, <3>2, <3>3 DEF Leave
  <2> QED
    BY <2>2, <2>3, <2>4
<1>7. LobbyRelease'
  <2> SUFFICES ASSUME gameActive', NEW d \in Up', InSeq(d, connected)'
               PROVE  ~comp'[d].is_lobby \/ \E i \in DOMAIN inbox'[d] : ReleasedBy(inbox'[d][i])
    BY DEF LobbyRelease
  <2>1. InSeq(d, connected) /\ gameActive
    BY <1>2 DEF InSeq
  <2> QED
    BY <1>6, <2>1 DEF LobbyRelease
<1>8. SurvivorWaits'
  <2> SUFFICES ASSUME NEW d \in Up', gameActive', connected' = <<d>>
               PROVE  Waits(comp'[d], inbox'[d])
    BY DEF SurvivorWaits
  <2>1. InSeq(d, connected) /\ gameActive /\ connected = <<d>>
    <3>1. connected = <<d>> /\ gameActive
      BY <1>2
    <3> QED
      BY <3>1 DEF InSeq
  <2> QED
    BY <1>6, <2>1 DEF SurvivorWaits
<1> QED
  BY <1>4, <1>5, <1>7, <1>8

--------------------------------------------------------------------------------
(* The handlers of the server. *)

(* What the invariant needs to know of the handling of an event. *)
LEMMA HandledKeeps ==
    ASSUME SessionInv, events # <<>>, events' = Tail(events),
           UNCHANGED <<nextUid, live, breaking, clientVars>>,
           \A d : InSeq(d, connected') => InSeq(d, connected) \/ d = Head(events).client
    PROVE  /\ KnownIds' /\ Up' = Up /\ Up \subseteq live
           /\ Head(events).client < nextUid /\ ClientsTyped'
<1>1. /\ events \in Seq(ClientEvents)
      /\ \A i \in 1 .. Len(events) : events[i].client < nextUid
  BY DEF SessionInv, Typed, TransportTyped, KnownIds
<1>2. Head(events).client < nextUid
  BY <1>1
<1>3. \A i \in 1 .. Len(Tail(events)) : Tail(events)[i].client < nextUid
  BY <1>1
<1>4. \A d : InSeq(d, connected') => d < nextUid
  BY <1>2 DEF SessionInv, KnownIds
<1>5. KnownIds'
  BY <1>3, <1>4 DEF KnownIds, InSeq
<1> QED
  BY <1>2, <1>5 DEF Up, SessionInv, Typed, ClientsTyped, clientVars

LEMMA Posted ==
    ASSUME TransportTyped, NEW sends \in Seq(Sends(ToClients)), Post(sends), NEW u \in live
    PROVE  /\ inbox'[u] = inbox[u] \o MsgsTo(u, sends)
           /\ inbox[u] \in Seq(ToClients) /\ MsgsTo(u, sends) \in Seq(ToClients)
<1>1. u \in Uids
  BY LiveIsUid
<1>2. MsgsTo(u, sends) \in Seq(ToClients)
  BY MsgsToType
<1> QED
  BY <1>1, <1>2 DEF Post, TransportTyped

(* The packets of a handler that starts nothing and resumes nothing leave    *)
(* both properties as they are, for the clients that stay.                   *)
LEMMA ForwardKeeps ==
    ASSUME SessionInv, serverUp, ForwardData
    PROVE  KnownIds' /\ GameNeedsClients' /\ LobbyRelease' /\ SurvivorWaits'
<1> DEFINE p == Head(events).msg
           sends == ToOthers(Head(events).client, connected, p)
<1> USE DEF SessionInv, Typed
<1>1. DispatchReceive(sends) /\ gameActive' = gameActive /\ UNCHANGED clientVars
  BY DEF ForwardData, serverVars
<1>2. /\ p \in Forwardable /\ sends \in Seq(Sends(ToClients)) /\ sends \in Seq(Sends({p}))
  <2>1. p \in Forwardable /\ sends \in Seq(Sends(ToClients))
    BY ForwardSends DEF ForwardData
  <2>2. connected \in Seq(Uids) /\ p \in {p}
    BY DEF TransportTyped
  <2>3. sends \in Seq(Sends({p}))
    <3> HIDE DEF p
    <3> QED
      BY <2>2, ToOthersType
  <2> QED
    BY <2>1, <2>3
<1>3. /\ events # <<>> /\ events' = Tail(events) /\ Post(sends) /\ connected' = connected
      /\ UNCHANGED <<nextUid, live, breaking>>
  BY <1>1 DEF DispatchReceive, NextEventIs
<1>4. KnownIds' /\ Up' = Up /\ Up \subseteq live
  BY <1>1, <1>3, HandledKeeps DEF InSeq
<1> HIDE DEF sends
<1>5. ASSUME NEW d \in Up
      PROVE  /\ inbox'[d] = inbox[d] \o MsgsTo(d, sends)
             /\ inbox[d] \in Seq(ToClients) /\ MsgsTo(d, sends) \in Seq(ToClients)
             /\ \A i \in 1 .. Len(MsgsTo(d, sends)) : MsgsTo(d, sends)[i].type # "reconnect"
  <2>1. d \in live
    BY DEF Up
  <2>2. MsgsTo(d, sends) \in Seq({p})
    <3> HIDE DEF p
    <3> QED
      BY <1>2, MsgsToType
  <2>3. \A i \in 1 .. Len(MsgsTo(d, sends)) : MsgsTo(d, sends)[i] = p
    BY <2>2
  <2>4. p.type # "reconnect"
    BY <1>2 DEF Forwardable
  <2> QED
    BY <1>2, <1>3, <2>1, <2>3, <2>4, Posted
<1>6. GameNeedsClients'
  BY <1>1, <1>3 DEF GameNeedsClients
<1>7. LobbyRelease'
  <2> SUFFICES ASSUME gameActive', NEW d \in Up', InSeq(d, connected)'
               PROVE  ~comp'[d].is_lobby \/ Releases(inbox'[d])
    BY DEF LobbyRelease, Releases
  <2>1. d \in Up /\ (~comp[d].is_lobby \/ Releases(inbox[d]))
    BY <1>1, <1>3, <1>4 DEF LobbyRelease, Releases, InSeq
  <2>2. Releases(inbox[d]) => Releases(inbox'[d])
    BY <1>5, <2>1, ReleasesConcat
  <2> QED
    BY <1>1, <2>1, <2>2 DEF clientVars
<1>8. SurvivorWaits'
  <2> SUFFICES ASSUME NEW d \in Up', gameActive', connected' = <<d>>
               PROVE  Waits(comp'[d], inbox'[d])
    BY DEF SurvivorWaits
  <2>1. d \in Up /\ Waits(comp[d], inbox[d])
    BY <1>1, <1>3, <1>4 DEF SurvivorWaits
  <2>2. Waits(comp[d], inbox'[d])
    BY <1>5, <2>1, WaitsConcat
  <2> QED
    BY <1>1, <2>2 DEF clientVars
<1> QED
  BY <1>4, <1>6, <1>7, <1>8

LEMMA ResumeKeeps ==
    ASSUME SessionInv, ResumeBoth \/ ResumePastEnd
    PROVE  KnownIds' /\ GameNeedsClients' /\ LobbyRelease' /\ SurvivorWaits'
<1> USE DEF SessionInv, Typed
<1>1. CASE ResumePastEnd
  <2>1. Quiet
    BY <1>1 DEF ResumePastEnd, Quiet, transportVars, clientVars
  <2> QED
    BY <2>1, QuietKeeps
<1>2. CASE ResumeBoth
  <2> DEFINE sends == To(connected[1], Packet("reconnect", FALSE))
                      \o To(connected[2], Packet("reconnect", FALSE))
  <2>1. /\ DispatchReceive(sends) /\ Len(connected) >= 2
        /\ gameActive' = gameActive /\ UNCHANGED clientVars
    BY <1>2 DEF ResumeBoth, serverVars
  <2>2. sends \in Seq(Sends(ToClients))
    BY <2>1, ResumeSends
  <2> HIDE DEF sends
  <2>3. /\ events # <<>> /\ events' = Tail(events) /\ Post(sends) /\ connected' = connected
        /\ UNCHANGED <<nextUid, live, breaking>>
    BY <2>1 DEF DispatchReceive, NextEventIs
  <2>4. KnownIds' /\ Up' = Up /\ Up \subseteq live
    BY <2>1, <2>3, HandledKeeps DEF InSeq
  <2>5. GameNeedsClients'
    BY <2>1, <2>3 DEF GameNeedsClients
  <2>6. LobbyRelease'
    <3> SUFFICES ASSUME gameActive', NEW d \in Up', InSeq(d, connected)'
                 PROVE  ~comp'[d].is_lobby \/ Releases(inbox'[d])
      BY DEF LobbyRelease, Releases
    <3>1. d \in live /\ (~comp[d].is_lobby \/ Releases(inbox[d]))
      BY <2>1, <2>3, <2>4 DEF LobbyRelease, Releases, InSeq
    <3>2. Releases(inbox[d]) => Releases(inbox'[d])
      BY <2>2, <2>3, <3>1, Posted, ReleasesConcat
    <3> QED
      BY <2>1, <3>1, <3>2 DEF clientVars
  <2>7. SurvivorWaits'
    BY <2>1, <2>3 DEF SurvivorWaits
  <2> QED
    BY <2>4, <2>5, <2>6, <2>7
<1> QED
  BY <1>1, <1>2

(* The one that is left is told to wait. *)
LEMMA DepartureKeeps ==
    ASSUME SessionInv, OnClientDisconnect
    PROVE  KnownIds' /\ GameNeedsClients' /\ LobbyRelease' /\ SurvivorWaits'
<1> DEFINE c == Head(events).client
           clients == DropClient(c)
           told == To(clients[1], Packet("data_sender", 0))
           sends == IF gameActive' THEN told ELSE <<>>
<1> USE DEF SessionInv, Typed
<1>1. /\ DispatchDisconnect(sends) /\ UNCHANGED clientVars
      /\ gameActive' = (gameActive /\ clients # <<>>)
  BY DEF OnClientDisconnect
<1>2. sends \in Seq(Sends(ToClients))
  <2>1. <<>> \in Seq(Sends(ToClients))
    OBVIOUS
  <2>2. gameActive' => told \in Seq(Sends(ToClients))
    BY <1>1, DisconnectSends
  <2> HIDE DEF told
  <2> QED
    BY <2>1, <2>2
<1>3. /\ clients \in Seq(Uids) /\ Len(clients) <= Len(connected)
      /\ \A d : InSeq(d, clients) => InSeq(d, connected)
  <2>1. connected \in Seq(Uids)
    BY DEF TransportTyped
  <2> QED
    BY <2>1, RemoveFirstType DEF DropClient
<1> HIDE DEF clients, sends
<1>4. /\ events # <<>> /\ events' = Tail(events) /\ Post(sends) /\ connected' = clients
      /\ UNCHANGED <<nextUid, live, breaking>>
  BY <1>1 DEF DispatchDisconnect, NextEventIs, clients
<1>5. KnownIds' /\ Up' = Up /\ Up \subseteq live
  BY <1>1, <1>3, <1>4, HandledKeeps
<1>6. GameNeedsClients'
  <2>1. clients = <<>> => Len(clients) <= 1
    BY <1>3
  <2>2. Len(connected) <= 1 => Len(clients) <= 1
    <3>1. connected \in Seq(Uids)
      BY DEF TransportTyped
    <3> QED
      BY <1>3, <3>1
  <2> QED
    BY <1>1, <1>4, <2>1, <2>2 DEF GameNeedsClients
<1>7. LobbyRelease'
  <2> SUFFICES ASSUME gameActive', NEW d \in Up', InSeq(d, connected)'
               PROVE  ~comp'[d].is_lobby \/ Releases(inbox'[d])
    BY DEF LobbyRelease, Releases
  <2>1. InSeq(d, connected)
    BY <1>3, <1>4 DEF InSeq
  <2>2. d \in live /\ (~comp[d].is_lobby \/ Releases(inbox[d]))
    BY <1>1, <1>5, <2>1 DEF LobbyRelease, Releases
  <2>3. Releases(inbox[d]) => Releases(inbox'[d])
    BY <1>2, <1>4, <2>2, Posted, ReleasesConcat
  <2> QED
    BY <1>1, <2>2, <2>3 DEF clientVars
<1>8. SurvivorWaits'
  <2> SUFFICES ASSUME NEW d \in Up', gameActive', connected' = <<d>>
               PROVE  Waits(comp'[d], inbox'[d])
    BY DEF SurvivorWaits
  <2> DEFINE p == Packet("data_sender", 0)
  <2>1. d \in live /\ clients[1] = d /\ sends = To(d, p)
    <3>1. clients = <<d>>
      BY <1>4
    <3>2. clients[1] = d
      BY <3>1
    <3> QED
      BY <1>5, <3>2 DEF sends
  <2>2. p \in ToClients
    BY PacketKinds
  <2>3. MsgsTo(d, sends) = <<p>>
    BY <2>1, <2>2, MsgsToOne
  <2>4. /\ inbox'[d] = inbox[d] \o <<p>> /\ inbox[d] \in Seq(ToClients)
    BY <1>2, <1>4, <2>1, <2>3, Posted
  <2>5. p.type = "data_sender"
    BY DEF Packet
  <2> HIDE DEF p
  <2>6. /\ Len(inbox'[d]) \in DOMAIN inbox'[d] /\ inbox'[d][Len(inbox'[d])] = p
        /\ Len(inbox'[d]) \in Nat
    BY <2>2, <2>4
  <2>7. \A j \in Len(inbox'[d]) + 1 .. Len(inbox'[d]) : inbox'[d][j].type # "reconnect"
    BY <2>6
  <2> QED
    BY <2>5, <2>6, <2>7, Zenon DEF Waits
<1> QED
  BY <1>5, <1>6, <1>7, <1>8

(* Whoever enters the game is told so. *)
LEMMA ArrivalKeeps ==
    ASSUME SessionInv, OnClientConnect
    PROVE  KnownIds' /\ GameNeedsClients' /\ LobbyRelease' /\ SurvivorWaits'
<1> DEFINE c == Head(events).client
           clients == AddClient(c)
           rejoin == Packet("reconnect", TRUE)
           start == Packet("start", 0)
           ready == ToOthers(c, clients, Packet("ready", 0))
           init == To(c, Packet("init", AssignClientLocalID(c, clients)))
           starts == To(clients[1], start) \o To(clients[2], start)
           sends == IF gameActive THEN To(c, rejoin) \o ready
                    ELSE IF gameActive' THEN init \o starts ELSE init \o <<>>
<1> USE DEF SessionInv, Typed
<1>1. /\ DispatchConnect(sends) /\ UNCHANGED clientVars
      /\ gameActive => gameActive'
      /\ ~gameActive /\ gameActive' => Len(clients) >= 2
      /\ ~gameActive' => ~(Len(clients) >= 2)
  BY DEF OnClientConnect
<1>2. /\ events # <<>> /\ events' = Tail(events) /\ Post(sends) /\ connected' = clients
      /\ UNCHANGED <<nextUid, live, breaking>>
  BY <1>1 DEF DispatchConnect, NextEventIs
<1>3. c \in Uids
  BY <1>2, HeadTyped
<1>4. sends \in Seq(Sends(ToClients))
  BY <1>1, <1>3, ConnectSends
<1>5. /\ connected \in Seq(Uids) /\ clients = Append(connected, c)
      /\ Len(clients) = Len(connected) + 1 /\ Len(connected) \in Nat
      /\ clients[Len(connected) + 1] = c
      /\ \A i \in 1 .. Len(connected) : clients[i] = connected[i]
  <2>1. connected \in Seq(Uids)
    BY DEF TransportTyped
  <2> QED
    BY <1>3, <2>1 DEF AddClient
<1>6. \A d : InSeq(d, clients) <=> InSeq(d, connected) \/ d = c
  <2> HIDE DEF c
  <2> QED
    BY <1>3, <1>5 DEF InSeq
<1> HIDE DEF clients, sends
<1>7. KnownIds' /\ Up' = Up /\ Up \subseteq live
  BY <1>1, <1>2, <1>6, HandledKeeps
<1>8. Len(connected) = 0 <=> connected = <<>>
  BY <1>5
<1>9. GameNeedsClients'
  <2>1. clients # <<>>
    BY <1>5
  <2>2. ~gameActive' => Len(clients) <= 1
    BY <1>1, <1>5
  <2> QED
    BY <1>2, <2>1, <2>2 DEF GameNeedsClients
<1>10. SurvivorWaits'
  <2> SUFFICES ASSUME NEW d, gameActive', clients = <<d>>
               PROVE  FALSE
    BY <1>2 DEF SurvivorWaits
  <2>1. Len(clients) = 1
    OBVIOUS
  <2>2. gameActive => Len(connected) # 0
    BY <1>8 DEF GameNeedsClients
  <2> QED
    BY <1>1, <1>5, <2>1, <2>2
<1>11. LobbyRelease'
  <2> SUFFICES ASSUME gameActive', NEW d \in Up', InSeq(d, connected)'
               PROVE  ~comp'[d].is_lobby \/ Releases(inbox'[d])
    BY DEF LobbyRelease, Releases
  <2>1. d \in Up /\ d \in live /\ InSeq(d, clients) /\ d \in Uids
    BY <1>2, <1>7, LiveIsUid DEF InSeq
  <2>2. /\ inbox'[d] = inbox[d] \o MsgsTo(d, sends)
        /\ inbox[d] \in Seq(ToClients) /\ MsgsTo(d, sends) \in Seq(ToClients)
    BY <1>2, <1>4, <2>1, Posted
  <2>3. comp'[d] = comp[d]
    BY <1>1 DEF clientVars
  <2>4. /\ rejoin \in ToClients /\ start \in ToClients
        /\ Releases(<<rejoin>>) /\ Releases(<<start>>)
        /\ <<rejoin>> \in Seq(ToClients) /\ <<start>> \in Seq(ToClients)
    <3>1. rejoin \in ToClients /\ start \in ToClients /\ ReleasedBy(rejoin) /\ ReleasedBy(start)
      BY PacketKinds DEF ReleasedBy, Packet
    <3> HIDE DEF rejoin, start
    <3>2. /\ 1 \in DOMAIN <<rejoin>> /\ <<rejoin>>[1] = rejoin
          /\ 1 \in DOMAIN <<start>> /\ <<start>>[1] = start
          /\ <<rejoin>> \in Seq(ToClients) /\ <<start>> \in Seq(ToClients)
      BY <3>1
    <3> QED
      BY <3>1, <3>2 DEF Releases
  <2> HIDE DEF rejoin, start
  <2>5. CASE gameActive /\ InSeq(d, connected)
    <3>1. ~comp[d].is_lobby \/ Releases(inbox[d])
      BY <2>1, <2>5 DEF LobbyRelease, Releases
    <3>2. Releases(inbox[d]) => Releases(inbox'[d])
      BY <2>2, ReleasesConcat
    <3> QED
      BY <2>3, <3>1, <3>2
  <2>6. CASE gameActive /\ d = c
    <3>1. To(c, rejoin) \in Seq(Sends(ToClients)) /\ ready \in Seq(Sends(ToClients))
      <4>1. clients \in Seq(Uids)
        BY <1>3, <1>5
      <4> QED
        BY <1>3, <2>4, <4>1, PacketKinds, ToTyped, ToOthersType
    <3> HIDE DEF ready, c
    <3>2. MsgsTo(d, sends) = MsgsTo(d, To(c, rejoin)) \o MsgsTo(d, ready)
      BY <2>6, <3>1, MsgsToConcat DEF sends
    <3>3. MsgsTo(d, To(c, rejoin)) = <<rejoin>>
      BY <2>4, <2>6, MsgsToOne
    <3>4. MsgsTo(d, ready) \in Seq(ToClients)
      BY <3>1, MsgsToType
    <3>5. Releases(MsgsTo(d, sends))
      BY <2>4, <3>2, <3>3, <3>4, ReleasesConcat
    <3> QED
      BY <2>2, <3>5, ReleasesConcat
  <2>7. CASE ~gameActive
    <3> DEFINE s1 == To(clients[1], start)
               s2 == To(clients[2], start)
    <3>1. Len(clients) = 2 /\ clients[1] \in Uids /\ clients[2] \in Uids
      BY <1>1, <1>3, <1>5, <2>7 DEF GameNeedsClients
    <3>2. /\ init \in Seq(Sends(ToClients)) /\ s1 \in Seq(Sends(ToClients))
          /\ s2 \in Seq(Sends(ToClients)) /\ s1 \o s2 \in Seq(Sends(ToClients))
      <4>1. init \in Seq(Sends(ToClients))
        BY <1>3, ConnectSends DEF clients
      <4>2. s1 \in Seq(Sends(ToClients)) /\ s2 \in Seq(Sends(ToClients))
        BY <2>4, <3>1, ToTyped
      <4> HIDE DEF s1, s2
      <4> QED
        BY <4>1, <4>2, ConcatProperties
    <3>3. /\ MsgsTo(d, s1) = IF clients[1] = d THEN <<start>> ELSE <<>>
          /\ MsgsTo(d, s2) = IF clients[2] = d THEN <<start>> ELSE <<>>
      BY <2>4, MsgsToOne
    <3>4. clients[1] = d \/ clients[2] = d
      <4>1. \E i \in DOMAIN clients : clients[i] = d
        BY <2>1 DEF InSeq
      <4>2. DOMAIN clients = 1 .. 2
        BY <1>3, <1>5, <3>1
      <4> QED
        BY <4>1, <4>2
    <3>5. sends = init \o (s1 \o s2)
      BY <2>7 DEF sends
    <3> HIDE DEF init, s1, s2
    <3>6. MsgsTo(d, sends) = MsgsTo(d, init) \o MsgsTo(d, s1 \o s2)
      <4> DEFINE both == s1 \o s2
      <4>1. init \in Seq(Sends(ToClients)) /\ both \in Seq(Sends(ToClients))
        BY <3>2
      <4> HIDE DEF both
      <4>2. MsgsTo(d, init \o both) = MsgsTo(d, init) \o MsgsTo(d, both)
        BY <4>1, MsgsToConcat
      <4> QED
        BY <3>5, <4>2 DEF both
    <3>7. MsgsTo(d, s1 \o s2) = MsgsTo(d, s1) \o MsgsTo(d, s2)
      BY <3>2, MsgsToConcat
    <3>8. /\ MsgsTo(d, init) \in Seq(ToClients) /\ MsgsTo(d, s1) \in Seq(ToClients)
          /\ MsgsTo(d, s2) \in Seq(ToClients)
          /\ MsgsTo(d, s1 \o s2) \in Seq(ToClients)
      BY <3>2, MsgsToType
    <3>9. Releases(MsgsTo(d, s1)) \/ Releases(MsgsTo(d, s2))
      BY <2>4, <3>3, <3>4
    <3>10. Releases(MsgsTo(d, s1) \o MsgsTo(d, s2))
      BY <3>8, <3>9, ReleasesConcat
    <3>11. Releases(MsgsTo(d, sends))
      BY <3>6, <3>7, <3>8, <3>10, ReleasesConcat
    <3> QED
      BY <2>2, <3>11, ReleasesConcat
  <2> QED
    BY <1>6, <2>1, <2>5, <2>6, <2>7
<1> QED
  BY <1>7, <1>9, <1>10, <1>11

--------------------------------------------------------------------------------
LEMMA SessionHolds == Spec => []SessionInv
<1>1. Init => SessionInv
  <2> SUFFICES ASSUME Init PROVE SessionInv
    OBVIOUS
  <2>1. Typed
    BY InitTyped
  <2>2. KnownIds /\ GameNeedsClients
    BY DEF Init, TransportInit, KnownIds, GameNeedsClients, InSeq
  <2>3. LobbyRelease /\ SurvivorWaits
    BY DEF Init, LobbyRelease, SurvivorWaits
  <2> QED
    BY <2>1, <2>2, <2>3 DEF SessionInv
<1>2. SessionInv /\ [Next]_vars => SessionInv'
  <2> SUFFICES ASSUME SessionInv, [Next]_vars PROVE SessionInv'
    OBVIOUS
  <2>1. Typed'
    BY TypedSteps DEF SessionInv
  <2>2. KnownIds' /\ GameNeedsClients' /\ LobbyRelease' /\ SurvivorWaits'
    <3>1. CASE UNCHANGED vars
      <4>1. Quiet
        BY <3>1 DEF vars, Quiet, transportVars, serverVars, clientVars
      <4> QED
        BY <4>1, QuietKeeps
    <3>2. CASE Server
      BY <3>2, ArrivalKeeps, ForwardKeeps, ResumeKeeps, DepartureKeeps, OpenKeeps
      DEF Server, ForwardData
    <3>3. CASE Launch
      BY <3>3, OpenKeeps
    <3>4. ASSUME NEW c \in Uids, ConsumerThread(c) \/ MainThread(c) \/ Player(c)
          PROVE  KnownIds' /\ GameNeedsClients' /\ LobbyRelease' /\ SurvivorWaits'
      <4>1. CASE c \in Up /\ Consume(c)
        BY <4>1, ConsumeKeeps
      <4>2. CASE (c \in Up /\ Flush(c)) \/ MainThread(c) \/ Player(c)
        BY <4>2, QuietSteps, QuietKeeps DEF SessionInv
      <4> QED
        BY <3>4, <4>1, <4>2 DEF ConsumerThread
    <3>5. ASSUME NEW c \in Uids, Leave(c)
          PROVE  KnownIds' /\ GameNeedsClients' /\ LobbyRelease' /\ SurvivorWaits'
      BY <3>5, OpenKeeps
    <3> QED
      BY <3>1, <3>2, <3>3, <3>4, <3>5 DEF Next
  <2> QED
    BY <2>1, <2>2 DEF SessionInv
<1> QED
  BY <1>1, <1>2, PTL DEF Spec

(* No client of a running game is left in the lobby: it has left it, or the  *)
(* packet that takes it out of it (start for the first two, reconnect for a   *)
(* replacement: Server::onClientConnect) is on its way, whoever else comes,   *)
(* leaves or breaks meanwhile.                                                *)
THEOREM LobbyReleased == Spec => []LobbyRelease
  BY SessionHolds, PTL DEF SessionInv

(* The last client of a running game does not play on by itself: the packet   *)
(* of Server::onClientDisconnect stops it, and no late reconnect packet that   *)
(* the server sent before lets it go on.                                      *)
THEOREM SurvivorMadeToWait == Spec => []SurvivorWaits
  BY SessionHolds, PTL DEF SessionInv

--------------------------------------------------------------------------------
(* What two players need, whether they stay or one of them leaves.           *)

(* MAX_CLIENT_COUNT of the server; the game starts with two clients. *)
TwoPlayers == MaxClients = 2 /\ MaxUid >= 2

Packets == FromClients \cup ToClients

(* Whatever reaches u has been sent to u. *)
LEMMA MsgsToFrom ==
    ASSUME NEW M, NEW u, NEW q \in Seq(Sends(M)), NEW k \in 1 .. Len(MsgsTo(u, q))
    PROVE  \E i \in 1 .. Len(q) : q[i].to = u /\ MsgsTo(u, q)[k] = q[i].msg
<1> DEFINE parts == Parts(u, q)
<1>1. /\ parts \in Seq(Seq(M)) /\ Len(parts) = Len(q) /\ MsgsTo(u, q) = FlattenSeq(parts)
      /\ \A i \in 1 .. Len(q) : parts[i] = For(u, q[i])
  BY MsgsToShape
<1> HIDE DEF parts
<1>2. k \in 1 .. Len(FlattenSeq(parts))
  BY <1>1
<1>3. PICK i \in 1 .. Len(parts) : \E j \in 1 .. Len(parts[i]) : FlattenSeq(parts)[k] = parts[i][j]
  BY <1>1, <1>2, FlattenFrom
<1>4. PICK j \in 1 .. Len(For(u, q[i])) : FlattenSeq(parts)[k] = For(u, q[i])[j]
  BY <1>1, <1>3
<1>5. q[i].to = u /\ For(u, q[i])[j] = q[i].msg
  BY <1>4 DEF For
<1> QED
  BY <1>1, <1>3, <1>4, <1>5

(* Up to n, from 0. *)
LEMMA StepInduction ==
    ASSUME NEW n \in Nat, NEW K, 0 \in K, \A i \in 1 .. n : i - 1 \in K => i \in K
    PROVE  0 .. n \subseteq K
<1> DEFINE L == {i \in Nat : i <= n => i \in K}
<1>1. 0 \in L
  OBVIOUS
<1>2. \A i \in Nat : i \in L => i + 1 \in L
  OBVIOUS
<1> HIDE DEF L
<1>3. Nat \subseteq L
  BY <1>1, <1>2, SetInduction
<1> QED
  BY <1>3 DEF L

(* unitNetworkUpdate keeps the side, and what has changed here. *)
LEMMA UpdateKeeps ==
    ASSUME NEW s \in Scenes, NEW q \in Seq(UnitMsgs)
    PROVE  /\ UnitNetworkUpdate(s, q) \in Scenes
           /\ UnitNetworkUpdate(s, q).assigned_team = s.assigned_team
           /\ UnitNetworkUpdate(s, q).changed = s.changed
           /\ UnitNetworkUpdate(s, q).dead = s.dead
<1>1. PICK f \in [0 .. Len(q) -> Scenes] :
              /\ f[0] = s
              /\ \A i \in 1 .. Len(q) : f[i] = ApplyUnit(f[i - 1], q[i])
              /\ UnitNetworkUpdate(s, q) = f[Len(q)]
  BY UnitNetworkUpdateSteps
<1> DEFINE n == Len(q)
           K == {i \in 0 .. n : /\ f[i].assigned_team = s.assigned_team
                                /\ f[i].changed = s.changed
                                /\ f[i].dead = s.dead}
<1>2. n \in Nat
  OBVIOUS
<1>3. \A r \in Scenes : \A m :
         /\ ApplyUnit(r, m).assigned_team = r.assigned_team
         /\ ApplyUnit(r, m).changed = r.changed
         /\ ApplyUnit(r, m).dead = r.dead
  BY DEF ApplyUnit, Scenes
<1>4. 0 \in K
  BY <1>1, <1>2
<1>5. \A i \in 1 .. n : i - 1 \in K => i \in K
  <2> SUFFICES ASSUME NEW i \in 1 .. n, i - 1 \in K PROVE i \in K
    OBVIOUS
  <2>1. f[i] = ApplyUnit(f[i - 1], q[i]) /\ f[i - 1] \in Scenes
    BY <1>1, <1>2
  <2> QED
    BY <1>2, <1>3, <2>1
<1> HIDE DEF K, n
<1>6. n \in K
  BY <1>2, <1>4, <1>5, StepInduction, SMTT(30)
<1> QED
  BY <1>1, <1>2, <1>6 DEF K, n

(* A sequence of one element at most. *)
Short(S, z) == z = <<>> \/ (z[1] \in S /\ z = <<z[1]>>)

(* A list that has an element only if a condition holds. *)
Optional(p, e) == IF p THEN <<e>> ELSE <<>>

LEMMA OptionalFacts ==
    ASSUME NEW S, NEW p, NEW e \in S
    PROVE  /\ Optional(p, e) \in Seq(S) /\ Short(S, Optional(p, e))
           /\ Optional(p, e) # <<>> => p /\ Optional(p, e)[1] = e
           /\ p => Optional(p, e) # <<>>
  BY DEF Optional, Short

(* What nextTurnPressed sends, in its order: the armies that have changed, the *)
(* packet that ends the game if it is won, and the packet that ends the turn.  *)
SquadMsg(s, t) == [name |-> RefName[t], value |-> s.squads[t]]
EndMsg == [name |-> "endturn", value |-> 0]
WonMsg(s) == [name |-> "endgame", value |-> Victor(s)]

LEMMA TurnMsgs ==
    ASSUME NEW s \in Scenes
    PROVE  /\ \A t \in Teams : SquadMsg(s, t) \in UnitMsgs
           /\ EndMsg \in UnitMsgs /\ WonMsg(s) \in UnitMsgs
<1>1. \A t \in Teams : s.squads[t] \in 0 .. Army
  BY DEF Scenes
<1> QED
  BY <1>1, UnitKinds DEF SquadMsg, EndMsg, WonMsg, Victor, Teams

LEMMA TurnPacketsShape ==
    ASSUME NEW s \in Scenes, NEW won \in BOOLEAN
    PROVE  TurnPackets(s, won) =
              ((Optional(1 \in s.changed, Packet("unit", SquadMsg(s, 1)))
                \o Optional(2 \in s.changed, Packet("unit", SquadMsg(s, 2))))
               \o Optional(won, Packet("unit", WonMsg(s))))
              \o Optional(TRUE, Packet("unit", EndMsg))
<1> DEFINE c1 == Optional(1 \in s.changed, Packet("unit", SquadMsg(s, 1)))
           c2 == Optional(2 \in s.changed, Packet("unit", SquadMsg(s, 2)))
           part(t) == IF t \in s.changed THEN <<SquadPacket(s, t)>> ELSE <<>>
<1>1. part(1) = c1 /\ part(2) = c2
  BY DEF Optional, SquadPacket, UnitPacket, SquadMsg
<1>2. c1 \in Seq(Forwardable) /\ c2 \in Seq(Forwardable)
  <2>1. \A t \in Teams : Packet("unit", SquadMsg(s, t)) \in Forwardable
    BY TurnMsgs, PacketKinds
  <2> QED
    BY <2>1, OptionalFacts DEF Teams
<1> HIDE DEF c1, c2, part
<1>3. [t \in 1 .. 2 |-> part(t)] = <<c1, c2>>
  BY <1>1
<1>4. ChangedPackets(s) = c1 \o c2
  <2>1. ChangedPackets(s) = FlattenSeq([t \in 1 .. 2 |-> part(t)])
    BY DEF ChangedPackets, part
  <2> QED
    BY <1>2, <1>3, <2>1, FlattenTwo
<1> QED
  BY <1>4 DEF TurnPackets, Optional, UnitPacket, WonMsg, EndMsg, c1, c2

LEMMA TurnPacketsUnits ==
    ASSUME NEW s \in Scenes, NEW won \in BOOLEAN
    PROVE  /\ TurnPackets(s, won) \in Seq(Forwardable)
           /\ \A i \in 1 .. Len(TurnPackets(s, won)) : TurnPackets(s, won)[i].type = "unit"
<1> DEFINE F == {p \in Forwardable : p.type = "unit"}
           x == Optional(1 \in s.changed, Packet("unit", SquadMsg(s, 1)))
           y == Optional(2 \in s.changed, Packet("unit", SquadMsg(s, 2)))
           z == Optional(won, Packet("unit", WonMsg(s)))
           r == Optional(TRUE, Packet("unit", EndMsg))
<1>1. \A m \in UnitMsgs : Packet("unit", m) \in F
  BY PacketKinds DEF Packet
<1>2. /\ x \in Seq(F) /\ y \in Seq(F) /\ z \in Seq(F) /\ r \in Seq(F)
  BY <1>1, TurnMsgs, OptionalFacts DEF Teams
<1> HIDE DEF F, x, y, z, r
<1>3. TurnPackets(s, won) \in Seq(F)
  <2>1. TurnPackets(s, won) = ((x \o y) \o z) \o r
    BY TurnPacketsShape DEF x, y, z, r
  <2>2. \A a, b \in Seq(F) : a \o b \in Seq(F)
    BY ConcatProperties
  <2> QED
    BY <1>2, <2>1, <2>2
<1>4. \A i \in 1 .. Len(TurnPackets(s, won)) : TurnPackets(s, won)[i] \in F
  BY <1>3
<1> QED
  BY <1>4, TurnPacketsTyped DEF F

================================================================================
