# The Gathering Storm: a verification project

TLA+ models of the networked game in `Source/` and of the part of
`Libs/enetpp` that it runs on, checked with TLC, with the safety of the
network server, of the session, of the battle and of the client program proved with
TLAPS. Paths below are relative to the repository.

## The system

Two players fight a turn-based battle. Each runs a client; a server accepts
two connections and forwards packets between them. A player who leaves can be
replaced: the player who stayed sends a snapshot of the game.

| component | state | operations | hard because |
|---|---|---|---|
| `enetpp::server` (`server.h`) as `ServerComponent` configures it | peer map, `peer->data`, event queue, packet queue, `_connected_clients`, heap-allocated clients, `next_uid` | network thread: connect, receive, disconnect, send queued packets, exit; application: `consume_events`, `send_packet_to[_all_if]`, `stop_listening` | two threads hand raw pointers to each other; the application may lag behind; shutdown at any moment |
| `enetpp::client` (`client.h`) | event and packet queue, thread, connection flag | `connect`, `disconnect`, `send_packet`, `consume_events` | `disconnect` from two threads, asserts on state of the other thread |
| `Server` (`Server.cpp`) | `game_active` | `onClientConnect`, `onClientData`, `onClientDisconnect`, `assignClientLocalID` | events of several connections in any order; assumptions about how many clients there are |
| `ClientComponent` (`ClientNetworking.cpp`) | flags (`is_lobby`, `is_reconnecting`, `data_sender`, `ready_to_send`, `update_complete`, `player_turn`, `assigned_player`, `user_ID`), three queues | consumer thread: `consumeEvents`, `processRecievedPackets`, `sendFrontOfQueue` | one thread writes flags one by one, another reads several of them in a frame |
| `GameScene` (`GameScene.cpp`) | side, turn, winner, units, selection, chat line | `update` and its parts, `clickHandler` and its parts, `keyHandler`, `nextTurnPressed`, `endgame_check` | main loop, callbacks and consumer at once; both clients keep a copy of the game |
| `Unit`, `UnitType` | squad size, health, action points, position, `is_dead`, `has_changed` | `update`, `takeDamage`, setters, `load`, `find` | integer arithmetic, derived flags that lag behind |
| board: `Collision`, `gridSnapping`, selection | sprite positions, selection flags | click tests, snapping, moving, attacking | pixel boundaries, stacked units |
| `SceneManager`, menu and connect scenes | stack of scenes, pending transition | add, remove, update, key and click handlers | callbacks of scenes that are being removed |
| `CustomPacket` | three strings | join and split at a separator | separators inside a message |
| chat | local and remote messages | typing, sending, showing | shared queue with different locks |
| shell, rendering, `Tracer`, vendored libraries | - | drawing, logging | not part of the game's logic |

What each must guarantee: the server never follows a pointer to a deleted
client, sends a packet to nobody but its addressee, keeps the order, frees
everything once; the session gives the two players different sides, releases
both from the lobby, has one turn at a time, spreads each turn and the victory
to both, stops the survivor when the other leaves and brings a replacement up
to date; combat arithmetic keeps units within their statistics and the board
keeps them on it; scenes are not used after they are gone.

## Modules

| module | models | relation |
|---|---|---|
| `ServerTransport` | what the handlers of `Server.cpp` may assume of `enetpp::server` | abstract specification |
| `EnetServer` | the two threads of `enetpp::server` | implements `ServerTransport` |
| `EnetServerRefinement` | the refinement mapping | `INSTANCE ServerTransport WITH ...` |
| `EnetServerProofs` | theorems about `EnetServer`, and that it implements `ServerTransport` | extends `EnetServerRefinement`, `SequenceLemmas` |
| `GameSession` | server handlers, and per client its consumer thread, main thread and player | extends `ServerTransport` |
| `TurnDuel` | the game as the players see it | abstract specification |
| `GameSessionProofs` | theorems about `GameSession` | extends `GameSession`, `SequenceLemmas` |
| `GameSessionReplacementProofs` | theorems about two players of whom one leaves | extends `GameSessionProofs` |
| `GameSessionDuel` | two undisturbed clients implement `TurnDuel` | `INSTANCE TurnDuel WITH ...` |
| `GameSessionDuelProofs` | theorems about the turn of two players who stay | extends `GameSessionDuel`, `GameSessionProofs` |
| `GameSessionBoardProofs` | theorems about their boards and the winner | extends `GameSessionDuelProofs` |
| `Combat` | what a unit can do and suffer, the geometry of the board | operators |
| `Skirmish` | two connected clients that fight: clicks in steps, frames, packets | extends `Combat` |
| `SkirmishMC` | three units in each other's line of fire | instance for TLC |
| `SkirmishProofs` | theorems about `Skirmish` | extends `Skirmish`, `TLAPS` |
| `EnetClient` | `enetpp::client`: its network thread, `disconnect` by two threads, the server beyond | actions for `ClientApp` |
| `ClientApp` | one client program: scenes, callbacks, main and consumer thread | extends `EnetClient` |
| `ClientAppProofs` | theorems about `ClientApp` | extends `ClientApp`, `SequenceLemmas` |
| `SequenceLemmas` | what `FlattenSeq` and left folds return, for every sequence | lemmas for the proofs |

Three views of the client share no state and meet in what they promise.
`GameSession` takes the way of a packet between a client's queues and the
server as an ordered stream; `ClientApp` has the threads and queues behind it and
shows that order (`SendsInOrder`, `ReceivesInOrder`). `GameSession` takes an
army as its squads; `Skirmish` has units, cells and clicks, and takes the session
as two ordered streams between clients that stay.

`PROJECT.json` maps every definition to the lines it stands for.

### EnetServer

A client object is named by its uid; `objects` is the set of those allocated.
The network thread's actions are `CaptureConnect`, `CaptureReceive`,
`CaptureDisconnect`, `SendPacket`/`DropPacket` (one round of the loop of
`send_queued_packets_in_thread`) and `NetExit`; the application's are
`DispatchConnect`, `DispatchReceive`, `DispatchDisconnect`, `RequestStop` and
`StopCleanup`. Each of them holds the mutex of the queue that it touches or
works on what its thread owns, which is why it is one step; `stop_listening`
is two, around the join. `PeerLost` and `Deliver` are ENet's doing, which runs inside the
network thread. `eventQueue` is `_event_queue_copy` followed by
`_event_queue`: the application takes from the front, the network thread
appends. The handler's packet is chosen freely (`Enqueue`).

`next_uid` is `static` in a header, so `ServerNetworking.cpp` and `Server.cpp`
have one each: the reset in `Server.cpp:199` never reaches the counter
that assigns uids, and the model has no such reset. That is fortunate: the
mutant `DispatchDisconnectResetsUids` shows that with a shared counter a
uid could be reused while events of its former owner are queued.

### GameSession

A client is the uid of its connection; a replacement is a new one. Per
client there are `outbox` (its sending queue and its way to the server),
`comp` (the flags and `unit_update_queue` of `ClientComponent`), `scene` (side,
turn, winner and armies of `GameScene`) and `main` (where the main thread is
inside `update`). `events`, `connected`, `inbox` come from `ServerTransport`.

* Server: `OnClientConnect`, `ForwardData`, `ResumeBoth`, `ResumePastEnd`,
  `OnClientDisconnect`; each is the dispatch of one event with its whole handler.
* Consumer thread: `Consume` is one packet of `processRecievedPackets`,
  `Flush` one of `sendFrontOfQueue`.
* Main thread: `update` reads `user_ID` in lines 175-182, up to four times, and
  the other flags from 196 on. `BeginUpdate` stands for an iteration that read the id
  before it arrived, and `AssignTeamLate` for one that did so at the first load of
  line 179 (`% 2 != 0`, true of -1) and not at the second (`!= -1`), which makes the
  client `PLAYER2` whatever its id; the rest of the iteration is `UpdateReconnectee` followed by
  `ResetReadyToSend`, `ResumeFromSnapshot`, `PlayFrame` or `IdleFrame`.
* Player: `Move`, `Attack`, `NextTurnPressed` with the guards of
  `clickHandler`.

The eight units are one army per side and an army is its number of squads:
what the packets carry and what the end of the game depends on. Where units
stand and how much health is left are left out here, so `Attack` may take any
number of squads, none included. `dead` is `is_dead`, set by the next
`PlayFrame`: a victory can be missed by one turn, as in the code.
`endgame_check` runs off its end when the opponent's army stands; what the
caller sees then is a choice from the constant `EndgameFallthrough`: `{FALSE}`
for a build that yields false, `{TRUE, FALSE}` for any build.

### Combat and Skirmish

`Combat` has the arithmetic of `takeDamage` (the divisions round towards zero,
and `armour / 100` is one of them), action points, `Unit::update`, the test of
a click against a sprite, the move and attack sprites of each kind, and
`gridSnapping`. The floats of the source hold whole numbers of a few hundred.

In `Skirmish` each client has its own copy `unit[t]` of the units, its selection
flags, turn and winner. `MyNetGame.cpp:31` makes ASGE run callbacks in threads of
their own, so that a click is a sequence of steps, one per handler that
`clickHandler` calls: `ClickHandler` or `NextTurnPressed` and `FlipTurn`,
then `PlaceUnitAtClick`, `AttackClickedUnit`, `SetSelected`. The main thread has
`Frame` (`unitsUpdate`), `ApplyPacket` (one packet of `unitNetworkUpdate`) and
`FrameEnd`. `Unit::update` reads the place of a unit and writes it back, so
that a move may lose either coordinate to a frame (`Outcomes`).

The selection flags of a player are the set of units selected. Several units in
one cell are hit, and toggled, together. `Callbacks` are the clicks that one poll
of the input can deliver: a person delivers one. A callback is started again
only when it has ended, so with one callback (`OneClickPerPoll`) the clicks of
successive polls do not overlap either: a handler takes less time than a person
takes to the next click.

### EnetClient and ClientApp

`EnetClient` has the state of `enetpp::client` with one action per section under
a mutex or access to what threads share without one: `_should_exit_thread` and
the pointer `_thread`, which `disconnect` tests, joins and releases in three
steps, on the main thread, on the consumer thread or on both. What C++ leaves
undefined (a second join, a released pointer) is a choice between going on and a
`fault`; so are the asserts, which only a debug build has.

`ClientApp` has the rest of the program: `stack`, `switcher`, `next` and `last`
(`game_scenes`, `scene_switcher`, each scene's `next_scene` and the one
`last_scene` that is set), `calls` (callbacks that have passed their guard and
not acted yet, which the main thread may overtake), the detached consumer thread
(`CheckLoop`, `TakeEvents`, `HandleEvent`, `EndOfEvents`, `SendFrontOfQueue`,
`Emplace`, `Sleep`), and the frames of the main thread, with the shutdown of
`gameSceneReset` and `~GameScene`. Messages of the server and packets of the player
are numbered, so that a gap, a double or a swap shows. `RunOnFreed` is the
consumer thread on the memory of a scene that is gone: it may end quietly or be
the fault `freed`.

One game is played per run of the program: a second one would be a second
component. What is typed, the address and the closing of the window are left out.
`recieved_queue` is not a variable, since only the consumer thread touches it;
`handled` is what has passed through it. What the component held is reset when it
is destroyed, for it is of no more interest.

### Abstract specifications

`ServerTransport`: ids are never reused, at most `MaxClients` connections,
one event stream that is ordered per connection, packets that reach their
connection or nobody, in order. `TurnDuel`: one board, one turn, and a winner
whose opponent has nothing left.

## Runs

| run | module | question | bounds |
|---|---|---|---|
| `enet_server` | `EnetServerRefinement` | are client objects, peer map and queues sound, and is `ServerTransport` implemented, whatever the two threads do? | 2 peers (the code's number), 3 connections so that a peer is used again while its former client is still queued, 3 events of lag, 2 messages in flight and told apart |
| `undisturbed` | `GameSessionDuel` | do two players who stay play one game? | 2 squads per army, 6 turns: each side can be beaten slowly or at once |
| `reconnect` | `GameSession` | one departure at any moment: is the replacement brought up to date, do both play on? | 3 connections, 2 turns, so that packets of a turn of each side are around |
| `reconnect_twice` | `GameSession` | are lobby and waiting right with two departures? | 4 connections, no turns: the flags involved do not depend on them |
| `opposing_teams` | `GameSession` | violated: both players can be `PLAYER2` | 2 connections, no departure |
| `different_ids` | `GameSession` | violated: both players can be told the same id | a departure from the lobby |
| `turn_exclusive` | `GameSession` | violated: both sides have the turn after a reconnection | 1 departure, 2 turns |
| `turn_held` | `GameSession` | violated: nobody has the turn after a reconnection | 1 departure, 2 turns |
| `resume_needs_both` | `GameSession` | violated: a resume is handled with one client left | 2 departures |
| `endgame_fallthrough` | `GameSession` | violated: a victory is announced while the army stands | 2 turns, any build |
| `skirmish` | `SkirmishMC` | do hits, moves, selections and turns keep both boards sound and alike while frames and packets come in between? | 3 units, 2 of them in one cell, so that either side can be destroyed; 7 places to click (each cell, the cell below, the gap between cells, above the board, its lower edge y = 603, the button), 2 turns ended, one click at a time |
| `client_app` | `ClientApp` | does a client program pass messages in order, end every thread and remove its scenes, whatever the server and late callbacks do? | 2 messages, 2 packets (order shows), one late callback (a run of the invariants with two late callbacks found nothing else), one game |

`client_app` checks deadlock: the step `~Runs` stands for a program that has
ended, and anything else that stops is an error. The other runs do not: the
bounds, a stopped server and clients that are all gone are proper ends. `MaxUid`,
`MaxLeaves`, `MaxTurns`, `MaxEvents`, `MaxPackets`, `MaxServed`, `MaxSaid` and
`MaxCalls` are the bounds, each in the guard of an action.

### What the runs show

As long as nobody leaves, and the two players have different sides, the protocol
is right: one turn, one board, one winner, each turn arrives. `ImplementsDuel`
depends on the order in which `nextTurnPressed` queues its packets: units, endgame,
endturn. But the sides may be the same from the start: a first client whose id 0
arrives between two loads of line 179 becomes `PLAYER2`, like the second, and then
the turn, which begins with player 1, is with nobody and stays there
(`opposing_teams`). `OneTurn` says that this is the only way to lose it.

With one departure the snapshot is whole, sides are stable and both play on,
but the turn may be doubled (the survivor still has an endturn queued that the
snapshot does not contain) or lost (the endturn reaches the replacement as
well as the snapshot that already has it), and two players can have one id, and so
one side, from the start when someone left the lobby before (`different_ids`).

With two departures `SnapshotWhole` and `TeamStable` of the run `reconnect` fail
as well: the server forwards the tail of the first snapshot to the second
replacement, which resumes without its side or turn. `Reconnect.cfg` with
`MaxLeaves = 2`, `MaxUid = 4` and `MaxTurns = 0` shows that. `ReconnectCompletes` fails there too: the
ready for the second replacement (`Server.cpp:173`) may be consumed before the
`resetReadyToSend` that belongs to the first (`GameScene.cpp:203`), and both clients
wait for ever. The properties `LobbyRelease` and
`SurvivorWaits` hold there too.

A victory is not part of a snapshot either. Within the bounds of `reconnect` TLC
reaches a state in which both clients play, nothing is on its way, and one
of them shows the winner while the other, a replacement, does not: player 1 wins
and ends the turn, the server forwards the endgame after player 2 has left, the
replacement gets units and turn. No run is spent on it.

In a battle the two boards agree whenever everything has been sent and applied,
although changes wait for the end of the turn and frames undo halves of moves.
Armour never mitigates anything: `armour / 100` is a division of ints, and the damage
is the raw damage for every unit (lemma `DamageType`), against the comments of lines 275
and 276 of `Unit.cpp`. `HitsCount` asks for the damage that these comments
leave, and the code takes that or more. `gridSnapping` lets units
onto two rows that are not of the board: at y = -117 from any click above
y = 3, since its correction waits for eight selections at once, and at y = 603 from a
click at 603 exactly, where `> 5` (line 787) skips the clamp to 483. The run
`skirmish` reaches both; `UnitsOnGrid` names them and says that there are no others, and
that no other click leads there. And two units in one cell are hit together, for
two action points each. With two clicks in one poll (`Callbacks` of two)
`SelectionFollowsTurn` is violated: the first click has deselected all units and
not yet flipped the turn when the second selects one, which can then act on the
opponent's turn. `SkirmishMC` gives one click, and the theorems say where they
need that.

The client program is sound while a game is played: no assert fails, and nobody
uses memory that is gone. Once the server is lost or the player has left that is no
longer so: the consumer, back from its own `disconnect`, sends what is queued
through the assert of `send_packet`; two threads may join one; and the detached
thread may run on a scene that is freed. `PlayIsSafe` states the first and
leaves out the second, `LeavesNoThread` and `EscapeLeaves` say that shutdown
nevertheless comes to its end.

### Fairness

`FairSpec` of `GameSession` has weak fairness on the handlers of the server
(`Server::run` polls for ever), on each client's consumer thread and main loop
(loops with a sleep or a frame) and on the notice of a lost connection (ENet
times out). Nothing is assumed of players, who may never click, leave or come.
`Flush` and `Consume` are separate conjuncts since each loop empties its queue
before the next round. `ResumePastEnd` has no fairness. `EnetServer` and `Skirmish` have
only safety properties.

`FairSpec` of `ClientApp` has weak fairness on the network thread, the consumer
thread and the main thread, each of which is a loop that the system schedules, and
on the clock that ends the wait for the server's answer. The server need not
answer, and the player need not do anything.

## Proofs

`EnetServerProofs` proves, for any finite set of peers, any number of
connections and any bounds on the queues:

* `TypeCorrect`: `Spec => []TypeOK`.
* `Safe`: `Spec => []SafeInv`, the inductive invariant.
* `ClientsNeverDangle`, `DispatchesInOrder`, `MapAndPeersAgree`,
  `ClientsFreedOnce`: `NoDanglingClient`, `DispatchFindsClient`,
  `PeerMapAgrees` and `EachObjectFreedOnce`, as checked by the run
  `enet_server`, follow from it.
* `CapacityHolds`: `WithinCapacity`, by `CapacityInv`. A client keeps its slot until
  its disconnect is queued (`SlotHeld`), and if two clients have had one slot, the
  disconnect of the first is queued ahead of the connect of the second
  (`SlotHandedOver`): they are never in the list together, so that the list maps
  into the slots one to one.

They rest on the four assumptions on the constants in `EnetServer`
(`SlotsAssumption`, `UidAssumption`, `MsgAssumption`, `BoundAssumption`).
The four properties are not inductive alone. A delete is safe only if nothing
behind the disconnect event mentions the client: `DisconnectIsLast` says that
it is the last event of its client, which has left the peer map. A new object
is not mistaken for an old one since objects have uids below `next_uid`
(`FreshUids`). And `stop_listening` may delete everything since no peer keeps a
client once the network thread has gone (`HostGone`). Each action has a lemma;
the three that only move packets or flags share `QuietSafe`, the two that append
an event share `AppendSafe`, the three dispatches share `PopFacts`.

`SkirmishProofs` proves, for any units of the four kinds, any places to click and
any number of turns:

* `TypeCorrect`, `HealthStaysPositive`, `EveryHitCounts`: `TypeOK`,
  `HealthPositive` and `HitsCount` (the whole attack, and so what mitigation should have
  left of it, `MitigatedFacts`), from `UnitAssumption`, `PlaceAssumption` and
  `BoundAssumption`. Health stays positive because a remainder is smaller than
  the health it is taken from, with packets carrying positive health as well
  (`Base`). A hit counts since `(s - q)(h - r)` is at most `sh - (qh + r)` as long
  as `q < s`, squads being gone otherwise; the arithmetic is in lemmas of its own,
  and `OneSelected` makes the attacker of a hit unique.
* `SelectionSafe`, `TurnsStartFresh`, `AlwaysOnGrid`: `SelectionFollowsTurn`,
  `TurnStartsFresh` and `UnitsOnGrid`, with `OneClickPerPoll` as a hypothesis.
  Neither is inductive alone. `TurnInv` looks at the turn each client is about to
  have once a callback that has sent its endturn also flips the turn: either one
  client holds the turn and no packet is on the way, or it is being passed and an
  endturn is the last packet of what is on the way, and the only one. A client at
  rest, which has flipped or is about to, has nothing selected and full action
  points. `GridInv` adds that what is on the wire is on the grid, and that a
  living unit that is selected stands on a cell of the board or in an edge row, from
  where a move leads to another; `Aimed` that a click under way is at one of the
  `Points`, so that an edge row is only entered if somebody clicks where it is let
  through (`SnapFacts`).
* `BoardsSettle`: `SettledBoardsAgree` as long as no client shows a winner
  (`Unfinished`), with `OneClickPerPoll` as a hypothesis. Of each unit there are two
  copies: the one on the foe's client, which is hit, and the one on the owner's,
  which is moved. `Related` says for each copy what the two may differ in: what is
  noted to be sent, what is on its way, and a death that one of them has seen
  and the next frame of the other will find. That frame is why the proof needs
  `BoardInv` on top of `TurnInv`: with one click per poll a frame
  comes between a click and the end of the turn (`Paced`), so a hit is noted, and its
  squads counted, before the unit is sent. `Agree` is stated on units and packets and has
  lemmas of its own (`AgreeHit`, `AgreeSendMove`, `AgreeHearHit`...); the actions only
  cite them. Once a winner is shown frames do nothing more, while clicks go on, and the argument
  ends; what happens then is in the run only.

`ClientAppProofs` proves, for any number of messages, packets and late callbacks:

* `Safe`: `Spec => []SafeInv`, the inductive invariant. `StackInv` says what the
  stack of scenes can be and who is in `disconnect` when; `ThreadInv` that past
  the join, by either thread, the network thread is done; `NoticeInv` that no
  queue has a notice of disconnection while the connection is not down, so that
  the consumer does not disconnect during play (`PlayInv`).
* `LeavesCleanly`, `RemovalsSafe`, `PlaySafe`: `LeavesNoThread`,
  `RemovesWhatIsThere` and `PlayIsSafe` follow from it.
* `SendsArrive`: `SendsInOrder`, by `OrderInv` on top of `SafeInv`. Its core is
  `LobbyInv`: before the connection is up there is no packet anywhere, nor a
  message that could end the lobby. The rest is the algebra of four
  concatenated queues.

* `ReceivesArrive`: `ReceivesInOrder`, by `StreamInv`: what is handled, copied, in
  the event queue and on the wire, with the notices left out, counts from one
  without a gap. The consumer empties its copy before it takes another, the notice
  of the end is the last event there will be, and a network thread that is done has
  left nothing on the wire: that is why clearing either queue costs only a tail.
* `TypeHolds`: `TypeOK`, by `TypesInv` on top of the two others; the bound on the
  callbacks needs the cardinality of the set of those under way.

They rest on `ServedAssumption` and `AppAssumption`: that the bounds are numbers.

`EnetServerProofs` also proves the step simulation, for any slots, connections
and bounds:

* `ServerImplementsTransport`: `Spec => ImplementsTransport`. Captures, dispatches,
  the loss of a peer and ENet's delivery are actions of `ServerTransport`, with
  what a handler queues as part of its dispatch; `RequestStop` is a stutter, the end
  of the network thread loses what was queued. Sending a packet is a stutter too: it
  moves the head of the packet queue to the end of the wire of its peer, and the
  inbox is one after the other; a packet that is dropped was addressed to nobody, or is
  lost. `TransportInv` adds to `SafeInv` that a peer that is not connected has nothing on
  its wire, and that nothing is queued for an id not yet given out, so that the inbox of a new
  connection is empty.

`GameSessionProofs` proves, for any number of connections, clients at a time,
squads, departures and turns, and any `EndgameFallthrough`:

* `TypeHolds`: `TypeOK`, by `Typed`, which says of every queue which packets it
  may hold. The induction over a queue of unit packets in `UnitNetworkUpdate` is
  `UnitNetworkUpdateSteps`.
* `LobbyReleased`, `SurvivorMadeToWait`: `LobbyRelease` and `SurvivorWaits`, by
  `SessionInv`. Neither is inductive alone: nobody is released before it connects
  (`KnownIds`), and a game that is not active has at most one client, an active
  one at least one (`GameNeedsClients`), so that the handler that starts the game
  reaches both. A survivor waits since the handler of a departure is the last that
  sends to it, and only a second client can make the server send it a resume.

They rest on `SessionAssumption` alone.

`GameSessionDuelProofs` proves, for two clients at a time (`TwoPlayers`: the code's
`MAX_CLIENT_COUNT`), any armies and turns, and any `EndgameFallthrough`:

* `TurnIsOne`: `OneTurn`, by `TurnInv`. As long as nobody has left there are the
  clients 0 and 1 (`Meeting`). Client 0 has no side yet, side 1 or, by the torn
  read, side 2; client 1 has none or side 2. The turn begins with player 1, and `Sided`,
  without which nobody hands it on, says that client 0 is on side 1: if it is on side 2
  both flows stay empty and nobody is player 1. `OneTurn` is stated accordingly: the
  turn is in at most one place, and, once client 0 has a side, in one if and only if
  that is side 1. `Flow(d)` is all that travels to `d`, in
  the order in which `d` applies it: its queue, its inbox, the events of the
  server, the other's outbox. Consumer and server only move packets from one part to the next, and
  the flow stays as it is; a client that ends its turn appends to it, a frame
  empties its front. Either a client has the turn and both flows carry no endturn, or
  it is being passed and the flow to the other ends with an endturn, its only
  one (`Turned`).

`GameSessionBoardProofs` goes on from there, under `FairEnd` as well: armies are not
empty, and `EndgameFallthrough` lacks `TRUE`. The second is what a build must
do for the code to be right: in any other the run `endgame_fallthrough` shows the violation.

* `VictoryIsHonest`: `HonestVictory`, by `BoardInv`, which ties both boards to the flow
  (`Boarded`). The client with the turn leads (`Leads`): the other has the same board
  but for the armies the leader has noted to tell at the end of the turn. While the
  turn is passed the flow tells these armies, and a victory comes behind them, in
  front of the endturn. `nextTurnPressed` turns the notes into such a
  flow (`BoardEnd`). A frame polls any front part of the flow, perhaps an army
  without the victory, and what it applies brings its board nearer to the
  leader's, with the rest of the flow still telling what is missing
  (`TwoParts`, `BoardApplied`). A victory is never in front of the army that has fallen.
* `DuelImplemented`: `ImplementsDuel`, for behaviours in which nobody leaves. Every
  step is one of four (`Story`): the boards rest, the player whose turn it is
  hits, the turn is passed, or packets arrive. The first and the last are
  stutters of `TurnDuel`, the others `Hit` and `EndTurn`.

`GameSessionReplacementProofs` proves, for two clients at a time (`TwoPlayers`), armies of
any size, any number of turns and any `EndgameFallthrough`:

* `SnapshotsWhole`: `Spec => [](leaves <= 1 => SnapshotWhole)`. As long as at most one
  client has left, a replacement with `update_complete` has the turn, its side and
  both armies.
* `SidesStay`: `TeamStable`, if at most one client may leave.

Both rest on `ReplacedInv`. Neither property is inductive: what a replacement has
depends on what is still on its way to it, on nobody else sending parts of a
snapshot, and on the snapshot being sent once. `Census` says who comes and goes:
with one departure the third client is the only one that can be a replacement, it
is met after the server has handled the departure, and clients are met in the
order of their ids. `Attended` goes through four phases:

* `Early`: the third client has not been met, and there is no ready, resume or
  update_complete packet anywhere.
* `Waiting`: it has been met (`Joined`: it and the one that stayed are the
  clients, and no notice is open). The survivor has at most one ready packet to
  come, and has not sent the snapshot.
* `Underway`: `Way` is all that the third client is yet to get from the other: its inbox, the
  events of the server and the other's outbox, as one sequence. `ForwardData` and
  `Flush` move packets along it and leave it as it is, `Consume` takes its head.
  `Telling` says of it that update_complete comes once, and that each of the four
  parts is held already or comes before it.
* `Over`: the replacement has resumed, and both packets are used up.

With two departures both properties fail: the second replacement gets the tail of
a snapshot that was meant for the first (see what the runs show).

`SequenceLemmas` has the inductions these proofs share. Filters on queues are
written with `FlattenSeq` in the models, not recursively, and the lemmas say that
it is the one function with `f[0] = <<>>` and `f[n] = f[n - 1] \o s[n]`, how it meets
`Append`, `\o`, `Head` and `Tail`, and what a left fold returns. Induction over
lengths goes through sets: the least counterexample, by `WFMin` of the library.

Model-checked only: `SettledBoardsAgree` of `Skirmish` once a winner is shown, and liveness
(`EscapeLeaves`, `ConsumerEnds`, `TurnArrives`, `VictorySpreads`,
`ReconnectCompletes`), which the prover does not handle.

## Not modelled

* `Libs/` apart from `enetpp`: jsoncons, irrKlang and ASGE are nine tenths of the
  lines of the repository. jsoncons parses one file of constants, which are the
  constants of `Combat`; irrKlang plays sounds; ASGE draws, delivers input and
  schedules callbacks, which the models take as choices. They have no logic of
  the game, and most of the share of lines that no definition covers is theirs.
* A network that is down while both processes of a session run on: in
  `GameSession` a client that leaves loses its state in the same step.
  `ClientApp` has the client's side of it.
* Chat: its packets are the player's packets of `ClientApp`; what is typed, the
  username, the timer and the local queue are left out, and with them two
  defects that are visible in the source: DELETE pops from an empty string
  (`GameScene.cpp:1090`), and `chatRender` locks another mutex than the writers of its queue (line 440).
* The text of packets: `CustomPacket` joins and splits at NUL and `&`, which the
  game's own packets contain in no field.
* The connect scene's text and address. `connect_ip` is cleared before it is used
  (`ServerConnectScene.cpp:74`): the program always connects to `localhost`.
* A second game in one run of the program, with the consumer thread of the first
  one still asleep on memory that may be used again.
* Reconnection in the middle of a battle of `Skirmish`: the session's side is in
  `GameSession`, on armies.
* Rendering, sound, fonts, `Tracer`.

## Plan

1. (done) `ServerTransport`, `EnetServer`, `GameSession`, `TurnDuel`, the
   refinements, the safety proofs of `EnetServer`.
2. (done) `Combat` and `Skirmish` with the safety proofs.
3. (done) `EnetClient` and `ClientApp` with the safety proofs.
4. (done) The refinement of `ServerTransport`, `WithinCapacity`, the type invariants of
   `GameSession` and `ClientApp`, `LobbyRelease`, `SurvivorWaits`, `ReceivesInOrder`, `OneTurn`,
   `HonestVictory`, the refinement of `TurnDuel`, `SettledBoardsAgree`.
5. (done) `SnapshotWhole` and `TeamStable` for one departure.
6. A run of `ClientApp` with two components, one after the other.
