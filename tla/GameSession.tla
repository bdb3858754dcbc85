------------------------------ MODULE GameSession ------------------------------
(***************************************************************************)
(* A session of the game: the handlers of the server (Source/Server/       *)
(* Server.cpp) on top of ServerTransport, and for each client its consumer *)
(* thread (ClientNetworking.cpp), its main thread (GameScene::update) and  *)
(* its player (GameScene::clickHandler).                                   *)
(*                                                                         *)
(* A client is named by the uid of its connection; a player that leaves    *)
(* and comes back is a new client with a new uid.  Teams are 1 and 2       *)
(* (PlayerTurn::PLAYER1 and PLAYER2), 0 is PlayerTurn::NONE.  The units of *)
(* a team are one army, whose squads only shrink.                          *)
(***************************************************************************)
EXTENDS ServerTransport

CONSTANTS
    Army,                \* squads of an army at the start
    EndgameFallthrough,  \* what endgame_check yields where it returns nothing
    MaxLeaves,           \* bound: clients that leave
    MaxTurns             \* bound: turns that are ended

ASSUME SessionAssumption ==
    MaxUid \in Nat /\ Army \in Nat /\ EndgameFallthrough \subseteq BOOLEAN

Teams == {1, 2}
Other(t) == 3 - t
RefName == <<"army1", "army2">>

VARIABLES
    gameActive,   \* Server::game_active
    serverUp,     \* the server has not run into undefined behaviour
    outbox,       \* sending_queue of a client, then its connection to the server
    comp,         \* the ClientComponent of a client, which three threads share
    scene,        \* the GameScene of a client
    main,         \* where the main thread of a client is in GameScene::update
    leaves, turns \* counters of the bounds

clientVars == <<outbox, comp, scene, main>>
serverVars == <<gameActive, serverUp>>
bounds == <<leaves, turns>>
vars == <<transportVars, serverVars, clientVars, bounds>>

(* CustomPacket: a type and a message. *)
Packet(type, msg) == [type |-> type, msg |-> msg]
UnitPacket(name, value) == Packet("unit", [name |-> name, value |-> value])

FreshComponent ==
    [user_ID |-> -1, is_lobby |-> TRUE, is_reconnecting |-> FALSE,
     data_sender |-> FALSE, ready_to_send |-> FALSE, update_complete |-> FALSE,
     player_turn |-> -1, assigned_player |-> -1, unit_update_queue |-> <<>>]

FreshScene ==
    [assigned_team |-> 0, player_turn |-> 1, game_finished |-> FALSE,
     winning_player |-> 0, squads |-> [t \in Teams |-> Army],
     dead |-> {}, changed |-> {}]

Init ==
    /\ TransportInit
    /\ gameActive = FALSE
    /\ serverUp = TRUE
    /\ outbox = [u \in Uids |-> <<>>]
    /\ comp = [u \in Uids |-> FreshComponent]
    /\ scene = [u \in Uids |-> FreshScene]
    /\ main = [u \in Uids |-> "top"]
    /\ leaves = 0
    /\ turns = 0

(* The clients that run and have a connection. *)
Up == live \ breaking

--------------------------------------------------------------------------------
(* Starting and losing a client.                                            *)

(* A player opens the game scene; the server accepts the connection. *)
Launch ==
    /\ serverUp
    /\ Connect
    /\ UNCHANGED <<serverVars, clientVars, bounds>>

(* A client is closed, crashes or loses its link: its state and the packets *)
(* that have not reached the server are gone.                                *)
Leave(c) ==
    /\ leaves < MaxLeaves
    /\ leaves' = leaves + 1
    /\ Break(c)
    /\ inbox'[c] = <<>>
    /\ outbox' = [outbox EXCEPT ![c] = <<>>]
    /\ comp' = [comp EXCEPT ![c] = FreshComponent]
    /\ scene' = [scene EXCEPT ![c] = FreshScene]
    /\ main' = [main EXCEPT ![c] = "top"]
    /\ UNCHANGED <<serverVars, turns>>

Detect(c) ==
    /\ serverUp
    /\ Disconnect(c)
    /\ UNCHANGED <<serverVars, clientVars, bounds>>

--------------------------------------------------------------------------------
(* The server: one event per step of consume_events.                        *)

To(c, packet) == <<[to |-> c, msg |-> packet]>>

(* Mutant: the sender gets its own packets back. *)
ToOthersEchoes(c, clients, packet) ==
    [i \in DOMAIN clients |-> [to |-> clients[i], msg |-> packet]]

(* send_packet_to_all_if with the predicate of every handler: all but c. *)
ToOthers(c, clients, packet) ==
    FlattenSeq([i \in DOMAIN clients |->
                   IF clients[i] = c THEN <<>> ELSE To(clients[i], packet)])

InSeq(c, q) == \E i \in DOMAIN q : q[i] = c

(* Mutant: the client is told the uid of its connection. *)
AssignClientLocalIDIsUid(c, clients) == c

(* assignClientLocalID *)
AssignClientLocalID(c, clients) ==
    IF \E i \in DOMAIN clients : clients[i] % 2 = 0 /\ clients[i] # c THEN 1 ELSE 0

(* Mutant: only the newcomer is told to start. *)
OnClientConnectStartsOne ==
    /\ serverUp /\ NextEventIs("connect")
    /\ LET c == Head(events).client
           clients == AddClient(c)
       IN  IF gameActive
           THEN /\ DispatchConnect(To(c, Packet("reconnect", TRUE))
                                   \o ToOthers(c, clients, Packet("ready", 0)))
                /\ UNCHANGED gameActive
           ELSE /\ gameActive' = (Len(clients) >= 2)
                /\ DispatchConnect(
                      To(c, Packet("init", AssignClientLocalID(c, clients)))
                      \o IF gameActive' THEN To(c, Packet("start", 0)) ELSE <<>>)
    /\ UNCHANGED <<serverUp, clientVars, bounds>>

(* onClientConnect: the second client starts the game; whoever connects to   *)
(* a running game is a replacement.                                          *)
OnClientConnect ==
    /\ serverUp
    /\ NextEventIs("connect")
    /\ LET c == Head(events).client
           clients == AddClient(c)
       IN  IF gameActive
           THEN /\ DispatchConnect(To(c, Packet("reconnect", TRUE))
                                   \o ToOthers(c, clients, Packet("ready", 0)))
                /\ UNCHANGED gameActive
           ELSE /\ gameActive' = (Len(clients) >= 2)
                /\ DispatchConnect(
                      To(c, Packet("init", AssignClientLocalID(c, clients)))
                      \o IF gameActive' THEN To(clients[1], Packet("start", 0))
                                             \o To(clients[2], Packet("start", 0))
                                        ELSE <<>>)
    /\ UNCHANGED <<serverUp, clientVars, bounds>>

Forwarded == {"unit", "turn", "player", "update_complete"}

(* onClientData: game packets are forwarded to the other clients. *)
ForwardData ==
    /\ serverUp
    /\ NextEventIs("receive")
    /\ Head(events).msg.type \in Forwarded
    /\ DispatchReceive(ToOthers(Head(events).client, connected, Head(events).msg))
    /\ UNCHANGED <<serverVars, clientVars, bounds>>

(* Mutant: only the client that asked for it resumes. *)
ResumeBothAskerOnly ==
    /\ serverUp
    /\ NextEventIs("receive")
    /\ Head(events).msg.type = "resume"
    /\ Len(connected) >= 2
    /\ DispatchReceive(To(Head(events).client, Packet("reconnect", FALSE)))
    /\ UNCHANGED <<serverVars, clientVars, bounds>>

(* onClientData: a replacement has been brought up to date, both clients    *)
(* resume.                                                                   *)
ResumeBoth ==
    /\ serverUp
    /\ NextEventIs("receive")
    /\ Head(events).msg.type = "resume"
    /\ Len(connected) >= 2
    /\ DispatchReceive(To(connected[1], Packet("reconnect", FALSE))
                       \o To(connected[2], Packet("reconnect", FALSE)))
    /\ UNCHANGED <<serverVars, clientVars, bounds>>

(* onClientData with a single client: clients[1] is past the end of the     *)
(* vector, and nothing is known of the server any more.                     *)
ResumePastEnd ==
    /\ serverUp
    /\ NextEventIs("receive")
    /\ Head(events).msg.type = "resume"
    /\ Len(connected) < 2
    /\ serverUp' = FALSE
    /\ UNCHANGED <<transportVars, gameActive, clientVars, bounds>>

(* The last client that leaves a game ends it; the first of those that are   *)
(* left is to bring a replacement up to date.                               *)
OnClientDisconnect ==
    /\ serverUp
    /\ NextEventIs("disconnect")
    /\ LET c == Head(events).client
           clients == DropClient(c)
       IN  /\ gameActive' = (gameActive /\ clients # <<>>)
           /\ DispatchDisconnect(
                 IF gameActive' THEN To(clients[1], Packet("data_sender", 0))
                                ELSE <<>>)
    /\ UNCHANGED <<serverUp, clientVars, bounds>>

--------------------------------------------------------------------------------
(* The consumer thread of a client.                                         *)

(* sendFrontOfQueue, and the way of the packet to the server. *)
Flush(c) ==
    /\ serverUp
    /\ outbox[c] # <<>>
    /\ Receive(c, Head(outbox[c]))
    /\ outbox' = [outbox EXCEPT ![c] = Tail(@)]
    /\ UNCHANGED <<serverVars, comp, scene, main, bounds>>

(* Mutant: the data sender does not stop to play while it waits. *)
ProcessReceivedPlaysOn(k, p) ==
    CASE p.type = "init" -> [k EXCEPT !.user_ID = p.msg]
      [] p.type = "start" -> [k EXCEPT !.is_lobby = FALSE]
      [] p.type = "data_sender" -> [k EXCEPT !.data_sender = TRUE]
      [] p.type = "ready" -> [k EXCEPT !.ready_to_send = TRUE]
      [] p.type = "unit" -> [k EXCEPT !.unit_update_queue = Append(@, p.msg)]
      [] p.type = "turn" -> [k EXCEPT !.player_turn = p.msg]
      [] p.type = "player" -> [k EXCEPT !.assigned_player = p.msg]
      [] p.type = "update_complete" -> [k EXCEPT !.update_complete = TRUE]
      [] p.type = "reconnect" /\ p.msg ->
            [k EXCEPT !.is_reconnecting = TRUE, !.is_lobby = FALSE]
      [] p.type = "reconnect" /\ ~p.msg ->
            [k EXCEPT !.is_reconnecting = FALSE, !.data_sender = FALSE]

(* processRecievedPackets *)
ProcessReceived(k, p) ==
    CASE p.type = "init" -> [k EXCEPT !.user_ID = p.msg]
      [] p.type = "start" -> [k EXCEPT !.is_lobby = FALSE]
      [] p.type = "unit" -> [k EXCEPT !.unit_update_queue = Append(@, p.msg)]
      [] p.type = "turn" -> [k EXCEPT !.player_turn = p.msg]
      [] p.type = "player" -> [k EXCEPT !.assigned_player = p.msg]
      [] p.type = "update_complete" -> [k EXCEPT !.update_complete = TRUE]
      [] p.type = "ready" -> [k EXCEPT !.ready_to_send = TRUE]
      [] p.type = "data_sender" ->
            [k EXCEPT !.data_sender = TRUE, !.is_reconnecting = TRUE]
      [] p.type = "reconnect" /\ p.msg ->
            [k EXCEPT !.is_reconnecting = TRUE, !.is_lobby = FALSE]
      [] p.type = "reconnect" /\ ~p.msg ->
            [k EXCEPT !.is_reconnecting = FALSE, !.data_sender = FALSE]

Consume(c) ==
    /\ Take(c)
    /\ comp' = [comp EXCEPT ![c] = ProcessReceived(@, Head(inbox[c]))]
    /\ UNCHANGED <<serverVars, outbox, scene, main, bounds>>

--------------------------------------------------------------------------------
(* The main thread of a client: GameScene::update.  It loads user_ID up to    *)
(* four times (lines 175-182) and the other flags after that, while the      *)
(* consumer thread goes on writing them.  A load of line 175 that finds the   *)
(* id assigns the team of the id.  An iteration whose loads of user_ID % 2    *)
(* have come before the id is main[c] = "began": -1 is odd, and only the last *)
(* load of line 179 is left.                                                 *)

BeginUpdate(c) ==
    /\ main[c] = "top"
    /\ comp[c].user_ID = -1
    /\ scene[c].assigned_team = 0
    /\ main' = [main EXCEPT ![c] = "began"]
    /\ UNCHANGED <<transportVars, serverVars, outbox, comp, scene, bounds>>

(* The id arrives between the two loads of line 179: -1 was odd, and the id   *)
(* is not -1 any more.  Whatever it is, the client becomes PLAYER2.           *)
AssignTeamLate(c) ==
    /\ main[c] = "began"
    /\ scene[c].assigned_team = 0
    /\ comp[c].user_ID # -1
    /\ scene' = [scene EXCEPT ![c].assigned_team = 2]
    /\ UNCHANGED <<transportVars, serverVars, outbox, comp, main, bounds>>

InUpdate(c) == main[c] = "began" \/ (main[c] = "top" /\ comp[c].user_ID # -1)
                                 \/ (main[c] = "top" /\ scene[c].assigned_team # 0)

AssignTeam(c) ==
    IF main[c] = "top" /\ scene[c].assigned_team = 0
    THEN [scene[c] EXCEPT !.assigned_team = (comp[c].user_ID % 2) + 1]
    ELSE scene[c]

Playing(c) == ~comp[c].is_lobby /\ ~comp[c].is_reconnecting
Sending(c) == comp[c].is_reconnecting /\ comp[c].data_sender /\ comp[c].ready_to_send
Resuming(c) == comp[c].is_reconnecting /\ comp[c].update_complete

(* unitsUpdate: a unit whose squad is gone leaves the board. *)
UnitsUpdate(s) == [s EXCEPT !.dead = @ \cup {t \in Teams : s.squads[t] = 0}]

(* One packet of unitNetworkUpdate. *)
ApplyUnit(s, m) ==
    CASE m.name = "endturn" -> [s EXCEPT !.player_turn = Other(@)]
      [] m.name = "endgame" -> [s EXCEPT !.winning_player = m.value, !.game_finished = TRUE]
      [] OTHER -> [s EXCEPT !.squads = [t \in Teams |-> IF m.name = RefName[t]
                                                         THEN m.value ELSE @[t]]]

UnitNetworkUpdate(s, queue) ==
    LET after[n \in 0 .. Len(queue)] ==
            IF n = 0 THEN s ELSE ApplyUnit(after[n - 1], queue[n])
    IN  after[Len(queue)]

SquadPacket(s, t) == UnitPacket(RefName[t], s.squads[t])

(* Mutant: the units are sent after the packet that completes the update. *)
SnapshotUnordered(s) ==
    LET opponent == IF s.assigned_team = 1 THEN 2 ELSE 1
    IN  <<Packet("turn", s.player_turn), SquadPacket(s, 1),
          Packet("update_complete", 0), SquadPacket(s, 2), Packet("player", opponent)>>

(* What updateReconnectee sends. *)
Snapshot(s) ==
    LET opponent == IF s.assigned_team = 1 THEN 2 ELSE 1
    IN  <<Packet("player", opponent),
          Packet("turn", s.player_turn),
          SquadPacket(s, 1), SquadPacket(s, 2),
          Packet("update_complete", 0)>>

UpdateReconnectee(c) ==
    /\ InUpdate(c)
    /\ Sending(c)
    /\ scene' = [scene EXCEPT ![c] = AssignTeam(c)]
    /\ outbox' = [outbox EXCEPT ![c] = @ \o Snapshot(AssignTeam(c))]
    /\ main' = [main EXCEPT ![c] = "sent"]
    /\ UNCHANGED <<transportVars, serverVars, comp, bounds>>

ResetReadyToSend(c) ==
    /\ main[c] = "sent"
    /\ comp' = [comp EXCEPT ![c].ready_to_send = FALSE]
    /\ main' = [main EXCEPT ![c] = "top"]
    /\ UNCHANGED <<transportVars, serverVars, outbox, scene, bounds>>

(* The branch that ends a reconnection on the replacement (206-230). *)
ResumeFromSnapshot(c) ==
    LET k == comp[c]
        turned == IF k.player_turn = -1 THEN AssignTeam(c)
                  ELSE [AssignTeam(c) EXCEPT !.player_turn = k.player_turn]
        teamed == IF k.assigned_player = -1 THEN turned
                  ELSE [turned EXCEPT !.assigned_team = k.assigned_player]
    IN  /\ InUpdate(c)
        /\ ~Sending(c)
        /\ Resuming(c)
        /\ scene' = [scene EXCEPT ![c] =
                        UnitsUpdate(UnitNetworkUpdate(teamed, k.unit_update_queue))]
        /\ comp' = [comp EXCEPT
                        ![c].user_ID = IF k.assigned_player = -1 THEN @
                                       ELSE k.assigned_player - 1,
                        ![c].unit_update_queue = <<>>,
                        ![c].update_complete = FALSE]
        /\ outbox' = [outbox EXCEPT ![c] = Append(@, Packet("resume", 0))]
        /\ main' = [main EXCEPT ![c] = "top"]
        /\ UNCHANGED <<transportVars, serverVars, bounds>>

(* Mutant: the packets are applied on the turn of player 2 only. *)
ListeningToPlayer2(s) == s.player_turn = 2 /\ s.assigned_team = 1

(* The packets of the opponent are applied on the opponent's turn. *)
Listening(s) == s.assigned_team = Other(s.player_turn)

(* The other branch (233-250): the units and, on the opponent's turn, what   *)
(* the opponent has sent.                                                    *)
PlayFrame(c) ==
    LET s == UnitsUpdate(AssignTeam(c))
    IN  /\ InUpdate(c)
        /\ Playing(c)
        /\ ~scene[c].game_finished
        /\ scene' = [scene EXCEPT ![c] =
                        IF Listening(s) THEN UnitNetworkUpdate(s, comp[c].unit_update_queue)
                                     ELSE s]
        /\ comp' = IF Listening(s) THEN [comp EXCEPT ![c].unit_update_queue = <<>>]
                                ELSE comp
        /\ main' = [main EXCEPT ![c] = "top"]
        /\ UNCHANGED <<transportVars, serverVars, outbox, bounds>>

(* An update in which no branch has anything to do. *)
IdleFrame(c) ==
    /\ InUpdate(c)
    /\ ~Sending(c) /\ ~Resuming(c)
    /\ Playing(c) => scene[c].game_finished
    /\ scene' = [scene EXCEPT ![c] = AssignTeam(c)]
    /\ main' = [main EXCEPT ![c] = "top"]
    /\ UNCHANGED <<transportVars, serverVars, outbox, comp, bounds>>

--------------------------------------------------------------------------------
(* The player: clickHandler.                                                *)

MayClick(c) == c \in Up /\ Playing(c)

(* A unit is selected on the own turn and as long as there are units left;    *)
(* ending the turn deselects it.                                             *)
HasUnit(c) ==
    /\ scene[c].player_turn = scene[c].assigned_team
    /\ scene[c].squads[scene[c].assigned_team] > 0

(* placeUnitAtClick: where the unit goes is left out, not that it changes.   *)
Move(c) ==
    /\ MayClick(c)
    /\ HasUnit(c)
    /\ scene' = [scene EXCEPT ![c].changed = @ \cup {scene[c].assigned_team}]
    /\ UNCHANGED <<transportVars, serverVars, outbox, comp, main, bounds>>

(* attackClickedUnit: a unit that has left the board cannot be hit.  No      *)
(* squad left is 0: nothing in the code tells 0 from less.                   *)
Attack(c) ==
    LET target == Other(scene[c].assigned_team)
    IN  /\ MayClick(c)
        /\ HasUnit(c)
        /\ target \notin scene[c].dead
        /\ \E left \in 0 .. scene[c].squads[target] :
              scene' = [scene EXCEPT ![c].squads[target] = left,
                                     ![c].changed = @ \cup {target}]
        /\ UNCHANGED <<transportVars, serverVars, outbox, comp, main, bounds>>

(* endgame_check: the army of the opponent is dead, or the end of the       *)
(* function is reached without a return.                                    *)
Depleted(s) == Other(s.assigned_team) \in s.dead

Finish(s) == [s EXCEPT !.game_finished = TRUE, !.winning_player = s.assigned_team]

(* Mutant: the victor is the team that the packet is sent to. *)
VictorSwapped(s) == IF s.winning_player = 1 THEN 2 ELSE 1

Victor(s) == IF s.winning_player = 1 THEN 1 ELSE 2

ChangedPackets(s) ==
    FlattenSeq([t \in 1 .. 2 |-> IF t \in s.changed THEN <<SquadPacket(s, t)>> ELSE <<>>])

(* Mutants: the packet that ends the turn is queued before the units, or     *)
(* before the packet that ends the game.                                     *)
TurnPacketsEndFirst(s, won) ==
    <<UnitPacket("endturn", 0)>> \o ChangedPackets(s)
    \o (IF won THEN <<UnitPacket("endgame", Victor(s))>> ELSE <<>>)

TurnPacketsEndgameLast(s, won) ==
    ChangedPackets(s)
    \o <<UnitPacket("endturn", 0)>>
    \o (IF won THEN <<UnitPacket("endgame", Victor(s))>> ELSE <<>>)

(* What nextTurnPressed pushes. *)
TurnPackets(s, won) ==
    ChangedPackets(s)
    \o (IF won THEN <<UnitPacket("endgame", Victor(s))>> ELSE <<>>)
    \o <<UnitPacket("endturn", 0)>>

(* Mutant: the end of the turn is sent, and the turn is kept. *)
NextTurnPressedKeeps(c) ==
    /\ MayClick(c)
    /\ scene[c].player_turn = scene[c].assigned_team
    /\ turns < MaxTurns /\ turns' = turns + 1
    /\ \E fell \in EndgameFallthrough :
          LET won == Depleted(scene[c]) \/ fell
              s == IF Depleted(scene[c]) THEN Finish(scene[c]) ELSE scene[c]
          IN  /\ outbox' = [outbox EXCEPT ![c] = @ \o TurnPackets(s, won)]
              /\ scene' = [scene EXCEPT ![c] = [s EXCEPT !.changed = {}]]
    /\ UNCHANGED <<transportVars, serverVars, comp, main, leaves>>

NextTurnPressed(c) ==
    /\ MayClick(c)
    /\ scene[c].player_turn = scene[c].assigned_team
    /\ turns < MaxTurns
    /\ turns' = turns + 1
    /\ \E fell \in EndgameFallthrough :
          LET won == Depleted(scene[c]) \/ fell
              s == IF Depleted(scene[c]) THEN Finish(scene[c]) ELSE scene[c]
          IN  /\ outbox' = [outbox EXCEPT ![c] = @ \o TurnPackets(s, won)]
              /\ scene' = [scene EXCEPT ![c] =
                              [s EXCEPT !.changed = {}, !.player_turn = Other(@)]]
    /\ UNCHANGED <<transportVars, serverVars, comp, main, leaves>>

--------------------------------------------------------------------------------
Server ==
    \/ OnClientConnect
    \/ ForwardData
    \/ ResumeBoth
    \/ ResumePastEnd
    \/ OnClientDisconnect
    \/ \E c \in live : Detect(c)

ConsumerThread(c) == c \in Up /\ (Flush(c) \/ Consume(c))

MainThread(c) ==
    /\ c \in Up
    /\ \/ BeginUpdate(c)
       \/ AssignTeamLate(c)
       \/ UpdateReconnectee(c)
       \/ ResetReadyToSend(c)
       \/ ResumeFromSnapshot(c)
       \/ PlayFrame(c)
       \/ IdleFrame(c)

Player(c) == Move(c) \/ Attack(c) \/ NextTurnPressed(c)

Next ==
    \/ Server
    \/ Launch
    \/ \E c \in Uids : ConsumerThread(c) \/ MainThread(c) \/ Player(c) \/ Leave(c)

Spec == Init /\ [][Next]_vars

(* The threads and the server take their next step sooner or later; players *)
(* do what they like, and a lost client is noticed.                          *)
Fairness ==
    /\ WF_vars(OnClientConnect) /\ WF_vars(OnClientDisconnect)
    /\ WF_vars(ForwardData) /\ WF_vars(ResumeBoth)
    /\ \A c \in Uids :
          /\ WF_vars(Detect(c))
          /\ WF_vars(c \in Up /\ Flush(c))
          /\ WF_vars(c \in Up /\ Consume(c))
          /\ WF_vars(MainThread(c))

FairSpec == Spec /\ Fairness

--------------------------------------------------------------------------------
(***************************************************************************)
(* Properties.                                                             *)
(***************************************************************************)

PacketTypes == {"init", "start", "reconnect", "data_sender", "ready", "unit",
                "turn", "player", "update_complete", "resume"}

IsUnitMsg(m) == /\ m.name \in {"army1", "army2", "endturn", "endgame"}
                /\ m.value \in 0 .. Army \cup Teams
IsPacket(p) == p.type \in PacketTypes /\ (p.type = "unit" => IsUnitMsg(p.msg))

TypeOK ==
    /\ nextUid \in 0 .. MaxUid
    /\ breaking \subseteq live /\ live \subseteq 0 .. nextUid - 1
    /\ \A i \in DOMAIN events : events[i].type = "receive" => IsPacket(events[i].msg)
    /\ \A u \in Uids :
          /\ \A i \in DOMAIN inbox[u] : IsPacket(inbox[u][i])
          /\ \A i \in DOMAIN outbox[u] : IsPacket(outbox[u][i])
          /\ main[u] \in {"top", "began", "sent"}
          /\ comp[u].user_ID \in {-1, 0, 1}
          /\ comp[u].player_turn \in {-1} \cup Teams
          /\ comp[u].assigned_player \in {-1} \cup Teams
          /\ \A j \in DOMAIN comp[u].unit_update_queue :
                IsUnitMsg(comp[u].unit_update_queue[j])
          /\ scene[u].assigned_team \in {0} \cup Teams
          /\ scene[u].player_turn \in Teams
          /\ scene[u].winning_player \in {0} \cup Teams
          /\ scene[u].squads \in [Teams -> 0 .. Army]
          /\ scene[u].dead \subseteq Teams /\ scene[u].changed \subseteq Teams

Holders == {c \in Up : scene[c].player_turn = scene[c].assigned_team}

(* Where the end-of-turn packets are between the client that has sent them   *)
(* and the scene that applies them.                                          *)
EndsTurn(p) == p.type = "unit" /\ p.msg.name = "endturn"
EndsIn(packets) == {i \in DOMAIN packets : EndsTurn(packets[i])}
EndsAt(place, c, indices) == {<<place, c, i>> : i \in indices}
EndsTravelling ==
    UNION {EndsAt("outbox", c, EndsIn(outbox[c]))
           \cup EndsAt("server", c, {i \in DOMAIN events :
                   /\ events[i].type = "receive" /\ events[i].client = c
                   /\ EndsTurn(events[i].msg)})
           \cup EndsAt("inbox", c, EndsIn(inbox[c]))
           \cup EndsAt("queue", c, {i \in DOMAIN comp[c].unit_update_queue :
                   comp[c].unit_update_queue[i].name = "endturn"}) : c \in Up}

(* As long as nobody leaves, the turn is never doubled, and it is lost in one *)
(* way only: once the first client, with id 0, has a side, either that side   *)
(* is 1 and the turn is with one client or in one packet that carries it to   *)
(* the other, or the client is on side 2 (AssignTeamLate), and the turn is    *)
(* nowhere.  That the second case occurs is what OpposingTeams shows.        *)
TurnsAround == EndsAt("scene", 0, Holders) \cup EndsTravelling
OneTurn ==
    leaves = 0 =>
        /\ Cardinality(TurnsAround) <= 1
        /\ \A c \in Up : comp[c].user_ID = 0 /\ scene[c].assigned_team # 0 =>
              (TurnsAround # {} <=> scene[c].assigned_team = 1)

(* As long as nobody leaves, the two clients never show different winners,   *)
(* and the loser's army really is gone.                                      *)
HonestVictory ==
    leaves = 0 =>
        \A c \in Up : scene[c].game_finished =>
            /\ scene[c].squads[Other(scene[c].winning_player)] = 0
            /\ \A d \in Up : scene[d].game_finished =>
                                scene[c].winning_player = scene[d].winning_player

(* A client that is connected while a game runs has left the lobby screen,   *)
(* or the packet that takes it out of it is on its way.                      *)
ReleasedBy(p) == p.type = "start" \/ (p.type = "reconnect" /\ p.msg)
LobbyRelease ==
    gameActive => \A c \in Up : InSeq(c, connected) =>
        ~comp[c].is_lobby \/ \E i \in DOMAIN inbox[c] : ReleasedBy(inbox[c][i])

(* Whoever is left alone in a running game stops to play: it waits for a     *)
(* replacement, or the packet that makes it wait is on its way, and nothing   *)
(* behind that packet lets it resume.                                        *)
Waits(k, packets) ==
    \/ /\ k.is_reconnecting
       /\ \A i \in DOMAIN packets : packets[i].type = "reconnect" => packets[i].msg
    \/ \E i \in DOMAIN packets :
          /\ packets[i].type = "data_sender"
          /\ \A j \in i + 1 .. Len(packets) : packets[j].type # "reconnect"
SurvivorWaits ==
    \A c \in Up : gameActive /\ connected = <<c>> => Waits(comp[c], inbox[c])

(* update_complete says that all update packets have been sent: a            *)
(* replacement that has it has the turn, its team and every army.            *)
SnapshotWhole ==
    \A c \in Up : comp[c].update_complete =>
        /\ comp[c].player_turn # -1
        /\ comp[c].assigned_player # -1
        /\ \A t \in Teams : \E i \in DOMAIN comp[c].unit_update_queue :
              comp[c].unit_update_queue[i].name = RefName[t]

(* The server tells the two players of a running game different ids, from    *)
(* which they take their sides.                                              *)
DifferentIds ==
    \A c, d \in Up :
        c # d /\ Playing(c) /\ Playing(d) /\ comp[c].user_ID # -1 =>
            comp[c].user_ID # comp[d].user_ID

(* The two players of a running game are on different sides.                 *)
OpposingTeams ==
    \A c, d \in Up :
        c # d /\ Playing(c) /\ Playing(d) /\ scene[c].assigned_team # 0 =>
            scene[c].assigned_team # scene[d].assigned_team

(* The players take it in turns: never both sides at once. *)
TurnExclusive ==
    \A c, d \in Holders :
        Playing(c) /\ Playing(d) => scene[c].assigned_team = scene[d].assigned_team

(* When two clients on different sides play and no packet is on its way, one *)
(* of them has the turn.                                                     *)
TurnHeld ==
    (/\ Cardinality(Up) = 2
     /\ {scene[c].assigned_team : c \in Up} = Teams
     /\ \A c \in Up : /\ Playing(c) /\ ~scene[c].game_finished
                      /\ inbox[c] = <<>> /\ outbox[c] = <<>>
                      /\ comp[c].unit_update_queue = <<>>
     /\ events = <<>>) => Holders # {}

(* A client never changes sides. *)
TeamStable ==
    [][\A c \in Up : c \in Up' /\ scene[c].assigned_team # 0 =>
          scene'[c].assigned_team = scene[c].assigned_team]_vars

(* A resume is handled while both clients are there. *)
ResumeHasBothClients == serverUp

(* An ended turn reaches the opponent, unless the game is over. *)
TurnArrives ==
    EndsTravelling # {} ~>
        (EndsTravelling = {} \/ \E c \in Up : scene[c].game_finished)

(* When one client has won, the other comes to show it. *)
VictorySpreads ==
    (\E c \in Up : scene[c].game_finished) ~> (\A c \in Up : scene[c].game_finished)

(* When a replacement has come in, both clients play on sooner or later. *)
ReconnectCompletes ==
    (gameActive /\ Cardinality(Up) = 2) ~>
        (Cardinality(Up) # 2 \/ \A c \in Up : Playing(c))
================================================================================
