------------------------------ MODULE ClientApp ------------------------------
(***************************************************************************)
(* One client program: the stack of scenes that the main thread updates    *)
(* once per frame (SceneManager, MenuScene, ServerConnectScene, GameScene),*)
(* the callbacks that ASGE runs on threads of their own, the detached      *)
(* consumer thread of ClientComponent, and enetpp::client underneath.      *)
(* One game is played: Start, an address, the game, Escape, the menu.      *)
(***************************************************************************)
EXTENDS EnetClient, FiniteSets

CONSTANTS
  MaxSaid,      \* bound: packets that the player's callbacks queue
  MaxCalls      \* bound: callbacks that run at the same time

ASSUME AppAssumption == MaxSaid \in Nat /\ MaxCalls \in Nat

VARIABLES
  stack,        \* game_scenes
  switcher,     \* scene_switcher
  last,         \* the scene whose last_scene is set, if any
  next,         \* next_scene of each scene
  calls,        \* callbacks that have passed their guard and not yet acted
  component,    \* the game scene and its ClientComponent
  kill,         \* kill_thread
  handled,      \* messages that processRecievedPackets has been given
  sending,      \* sending_queue
  going,        \* the packet that send_packet was called with, if any
  said          \* packets queued so far

sceneVars == <<stack, switcher, last, next>>
compVars  == <<handled, sending, going, said>>
vars == <<clientVars, sceneVars, calls, component, kill, compVars>>

Scenes == {"menu", "connect", "game"}
Transitions == {"NONE", "TO_CONNECT", "TO_GAME", "TO_MENU", "TO_EXIT"}
Transition(s, to) == next' = [next EXCEPT ![s] = to]
Top == stack[Len(stack)]
Shown(s) == stack # <<>> /\ Top = s

Init ==
  /\ ClientInit
  /\ pc = [t \in Threads |-> IF t = "main" THEN "frame" ELSE "none"]
  /\ ret = [t \in Threads |-> "none"]
  /\ stack = <<"menu">> /\ switcher = "IDLE" /\ last = "none"
  /\ next = [s \in Scenes |-> "NONE"]
  /\ calls = {}
  /\ component = "none" /\ kill = FALSE
  /\ handled = <<>> /\ sending = <<>> /\ going = <<>> /\ said = 0

-----------------------------------------------------------------------------
(* Callbacks: a guard, and an action that the main thread may overtake *)

\* A handler is registered from its scene's constructor until the scene is
\* left, the menu's until it is destroyed.
Registered(s) ==
  CASE s = "menu"    -> stack # <<>>
    [] s = "connect" -> Shown("connect")
    [] s = "game"    -> Shown("game") /\ ~kill

\* Mutant: the game's handlers do not ask for the lobby.
PassesInLobby(s, what) ==
  \/ s = "menu" /\ last = "menu" /\ what = "TO_CONNECT" /\ component = "none"
  \/ s = "connect" /\ last = "connect" /\ what = "TO_GAME" /\ component = "none"
  \/ s = "game" /\ what = "say" /\ said + Cardinality(calls) < MaxSaid

\* What the handlers let pass.  In the game only Escape does without
\* last_scene, and the rest waits for the server's first message, the lobby's
\* end.  The bound of one game is here: Start and Enter only lead to it.
Passes(s, what) ==
  CASE s = "menu"    -> /\ last = "menu"
                        /\ what \in {"TO_CONNECT", "TO_EXIT"}
                        /\ what = "TO_CONNECT" => component = "none"
    [] s = "connect" -> /\ last = "connect"
                        /\ what \in {"TO_GAME", "TO_MENU"}
                        /\ what = "TO_GAME" => component = "none"
    [] s = "game"    -> \/ what = "TO_MENU"
                        \/ /\ what = "say" /\ last = "game" /\ handled # <<>>
                           /\ said + Cardinality(calls) < MaxSaid

Callback(s, what) ==
  /\ Cardinality(calls) < MaxCalls
  /\ Registered(s) /\ Passes(s, what)
  /\ calls' = calls \cup {[scene |-> s, does |-> what]}
  /\ UNCHANGED <<clientVars, sceneVars, component, kill, compVars>>

Exists(s) == \E i \in DOMAIN stack : stack[i] = s

\* The rest of the handler.  One whose scene is gone writes to freed memory.
\* What a handler of the connect scene stores under the game is never read: the
\* two scenes are removed together.
Act(c) ==
  /\ c \in calls
  /\ calls' = calls \ {c}
  /\ \/ /\ Exists(c.scene) /\ c.does \in Transitions
        /\ IF c.scene = "connect" /\ Exists("game")
           THEN UNCHANGED next
           ELSE Transition(c.scene, c.does)
        /\ UNCHANGED <<sending, said, fault>>
     \/ /\ Exists(c.scene) /\ c.does = "say"
        /\ said' = said + 1
        /\ sending' = Append(sending, said')
        /\ UNCHANGED <<next, fault>>
     \/ /\ ~Exists(c.scene)
        /\ fault' \in {"none", "freed"}
        /\ UNCHANGED <<next, sending, said>>
  /\ UNCHANGED <<pc, ret, thread, exiting, netVars, events, copy, dropped,
                 packets, peerVars, stack, switcher, last, component, kill,
                 handled, going>>

-----------------------------------------------------------------------------
(* The consumer thread: ClientComponent::consumeEvents *)

Consumer(l) == pc["consumer"] = l /\ component = "live"

\* Mutant: the loop looks at kill_thread only.
CheckLoopKillOnly ==
  /\ Consumer("check")
  /\ GoTo("consumer", IF ~kill THEN "consume" ELSE "exited")
  /\ UNCHANGED <<events, copy, dropped, packets, fault, compVars, ret>>

CheckLoop ==
  /\ Consumer("check")
  /\ GoTo("consumer", IF thread # "null" /\ ~kill THEN "consume" ELSE "exited")
  /\ UNCHANGED <<events, copy, dropped, packets, fault, compVars, ret>>

\* Mutant: _event_queue is copied and not emptied.
TakeEventsKept ==
  /\ Consumer("consume")
  /\ copy' = events /\ events' = events /\ dropped' = FALSE
  /\ GoTo("consumer", "handle")
  /\ UNCHANGED <<packets, fault, compVars, ret>>

TakeEvents ==
  /\ Consumer("consume")
  /\ copy' = events /\ events' = <<>> /\ dropped' = FALSE
  /\ GoTo("consumer", "handle")
  /\ UNCHANGED <<packets, fault, compVars, ret>>

\* One event of the copy; a received packet goes through recieved_queue,
\* which no other thread touches, to processRecievedPackets.
HandleEvent ==
  /\ Consumer("handle") /\ copy # <<>>
  /\ copy' = Tail(copy)
  /\ handled' = IF Head(copy).type = "RECEIVE"
                THEN Append(handled, Head(copy).data)
                ELSE handled
  /\ dropped' = (dropped \/ Head(copy).type = "DISCONNECT")
  /\ UNCHANGED <<pc, ret, events, packets, fault, sending, going, said>>

EndOfEvents ==
  /\ Consumer("handle") /\ copy = <<>>
  /\ GoTo("consumer", IF dropped THEN "disconnect" ELSE "send")
  /\ ret' = [ret EXCEPT !["consumer"] = "send"]
  /\ UNCHANGED <<events, copy, dropped, packets, fault, compVars>>

\* sendFrontOfQueue and the test of _thread in send_packet, where a debug
\* build asserts it.
SendFrontOfQueue ==
  /\ Consumer("send") /\ sending # <<>>
  /\ sending' = Tail(sending)
  /\ \/ /\ thread # "null"
        /\ going' = <<Head(sending)>> /\ GoTo("consumer", "emplace")
        /\ UNCHANGED fault
     \/ /\ thread = "null"
        /\ fault' \in {"none", "send_packet"}
        /\ UNCHANGED <<pc, going>>
  /\ UNCHANGED <<ret, events, copy, dropped, packets, handled, said>>

Emplace ==
  /\ Consumer("emplace")
  /\ packets' = packets \o going /\ going' = <<>>
  /\ GoTo("consumer", "send")
  /\ UNCHANGED <<ret, events, copy, dropped, fault, handled, sending, said>>

Sleep ==
  /\ Consumer("send") /\ sending = <<>>
  /\ GoTo("consumer", "check")
  /\ UNCHANGED <<ret, events, copy, dropped, packets, fault, compVars>>

\* The thread is detached: it can run when the component is gone, on memory
\* that may still look as it did.
RunOnFreed ==
  /\ pc["consumer"] # "none" /\ pc["consumer"] # "exited"
  /\ component = "freed"
  /\ GoTo("consumer", "exited")
  /\ fault' \in {"none", "freed"}
  /\ UNCHANGED <<ret, events, copy, dropped, packets, compVars>>

ConsumerStep ==
  \/ /\ \/ CheckLoop \/ TakeEvents \/ HandleEvent \/ EndOfEvents
        \/ SendFrontOfQueue \/ Emplace \/ Sleep \/ RunOnFreed
     /\ UNCHANGED <<thread, exiting, netVars, peerVars, sceneVars, calls,
                    component, kill>>
  \/ /\ component = "live" /\ Disconnect("consumer")
     /\ UNCHANGED <<sceneVars, calls, component, kill, compVars>>

-----------------------------------------------------------------------------
(* The main thread *)

Main(l) == pc["main"] = l

Without(n) == SubSeq(stack, 1, Len(stack) - n)

\* Mutant: the removed scene is not told that it was the last.
RemoveScenesSilently ==
  /\ Main("frame")
  /\ \/ /\ switcher = "REMOVE_SCENE"
        /\ stack' = Without(1) /\ switcher' = "IDLE"
        /\ UNCHANGED <<pc, ret>>
     \/ /\ switcher = "REMOVE_2_SCENES"
        /\ GoTo("main", "disconnect")
        /\ ret' = [ret EXCEPT !["main"] = "destroy"]
        /\ UNCHANGED <<stack, switcher>>
  /\ UNCHANGED <<thread, exiting, net, fault, last, next, component, kill>>

\* SceneManager::update, first the scenes to remove; ~GameScene disconnects.
RemoveScenes ==
  /\ Main("frame")
  /\ \/ /\ switcher = "REMOVE_SCENE"
        /\ stack' = Without(1) /\ switcher' = "IDLE" /\ last' = "none"
        /\ UNCHANGED <<pc, ret>>
     \/ /\ switcher = "REMOVE_2_SCENES"
        /\ GoTo("main", "disconnect")
        /\ ret' = [ret EXCEPT !["main"] = "destroy"]
        /\ UNCHANGED <<stack, switcher, last>>
  /\ UNCHANGED <<thread, exiting, net, fault, next, component, kill>>

\* Mutant: scene_switcher stays as it was.
DestroyGameAgain ==
  /\ Main("destroy")
  /\ component' = "freed"
  /\ stack' = Without(2) /\ last' = "none"
  /\ GoTo("main", "frame")
  /\ UNCHANGED <<ret, thread, exiting, netVars, events, copy, dropped, packets,
                 fault, peerVars, switcher, next, calls, kill, compVars>>

\* The rest of ~GameScene, with the asserts of ~client, and of the removal.
\* What the component held is of no more interest.
DestroyGame ==
  /\ Main("destroy")
  /\ fault' \in IF NothingLeft THEN {"none"} ELSE {"none", "~client"}
  /\ component' = "freed"
  /\ stack' = Without(2) /\ switcher' = "IDLE" /\ last' = "none"
  /\ calls' = {[c EXCEPT !.scene = IF @ = "menu" THEN @ ELSE "gone"] : c \in calls}
  /\ GoTo("main", "frame")
  /\ handled' = <<>> /\ sending' = <<>> /\ going' = <<>> /\ said' = 0
  /\ copy' = <<>> /\ events' = <<>> /\ packets' = <<>> /\ dropped' = FALSE
  /\ served' = 0 /\ out' = <<>>
  /\ UNCHANGED <<ret, thread, exiting, netVars, wire, link, next, kill>>

\* Then the update of the scene on top; it clears its next_scene at the end.
Updates == Main("frame") /\ switcher = "IDLE"

ExitGame ==
  /\ Updates /\ stack = <<>>
  /\ GoTo("main", "exited")
  /\ UNCHANGED <<ret, thread, exiting, net, fault, sceneVars, component, kill>>

Serves(s, to) == Updates /\ Shown(s) /\ next[s] = to

ClearLater(s) ==
  /\ GoTo("main", "clear")
  /\ ret' = [ret EXCEPT !["main"] = s]

UpdateNothing ==
  /\ Updates /\ stack # <<>>
  /\ \/ next[Top] = "NONE"
     \* the branch for TO_MENU is behind the break of TO_GAME
     \/ Top = "connect" /\ next[Top] = "TO_MENU"
  /\ last' = Top
  /\ UNCHANGED <<pc, ret, thread, exiting, net, fault, stack, switcher, next,
                 component, kill>>

MenuToConnect ==
  /\ Serves("menu", "TO_CONNECT")
  /\ last' = "none"
  /\ stack' = Append(stack, "connect")
  /\ ClearLater("menu")
  /\ Transition("connect", "NONE")    \* a new scene
  /\ UNCHANGED <<thread, exiting, net, fault, switcher, component, kill>>

MenuToExit ==
  /\ Serves("menu", "TO_EXIT")
  /\ last' = "menu"
  /\ switcher' = "REMOVE_SCENE"
  /\ ClearLater("menu")
  /\ UNCHANGED <<thread, exiting, net, fault, stack, next, component, kill>>

\* Mutant: the game takes the place of the connect scene.
ConnectToGameReplacing ==
  /\ Serves("connect", "TO_GAME") /\ component = "none"
  /\ last' = "none"
  /\ Connect
  /\ component' = "live"
  /\ pc' = [pc EXCEPT !["main"] = "clear", !["consumer"] = "check"]
  /\ ret' = [ret EXCEPT !["main"] = "connect"]
  /\ stack' = <<"menu", "game">>
  /\ UNCHANGED <<fault, switcher, next, kill>>

\* The constructor of GameScene connects and starts the consumer thread.  One
\* game is modelled: a second would be a new component.
ConnectToGame ==
  /\ Serves("connect", "TO_GAME") /\ component = "none"
  /\ last' = "none"
  /\ Connect
  /\ component' = "live"
  /\ pc' = [pc EXCEPT !["main"] = "clear", !["consumer"] = "check"]
  /\ ret' = [ret EXCEPT !["main"] = "connect"]
  /\ stack' = Append(stack, "game")
  /\ UNCHANGED <<fault, switcher, next, kill>>

\* gameSceneReset
LeaveGame ==
  /\ Serves("game", "TO_MENU")
  /\ last' = "none"
  /\ kill' = TRUE
  /\ GoTo("main", "disconnect")
  /\ ret' = [ret EXCEPT !["main"] = "leave"]
  /\ UNCHANGED <<thread, exiting, net, fault, stack, switcher, next, component>>

RemoveTwoScenes ==
  /\ Main("leave")
  /\ switcher' = "REMOVE_2_SCENES"
  /\ ClearLater("game")
  /\ UNCHANGED <<thread, exiting, net, fault, stack, last, next, component, kill>>

ClearNextScene ==
  /\ Main("clear")
  /\ Transition(ret["main"], "NONE")
  /\ GoTo("main", "frame")
  /\ UNCHANGED <<ret, thread, exiting, net, fault, stack, switcher, last,
                 component, kill>>

MainStep ==
  \/ /\ \/ RemoveScenes \/ ExitGame \/ UpdateNothing
        \/ MenuToConnect \/ MenuToExit \/ ConnectToGame \/ LeaveGame
        \/ RemoveTwoScenes \/ ClearNextScene
     /\ UNCHANGED <<closing, overdue, events, copy, dropped, packets, peerVars,
                    calls, compVars>>
  \/ DestroyGame
  \/ Disconnect("main") /\ UNCHANGED <<sceneVars, calls, component, kill, compVars>>

-----------------------------------------------------------------------------

Runs == fault = "none" /\ pc["main"] # "exited"

Network == NetStep /\ UNCHANGED <<sceneVars, calls, component, kill, compVars>>

Clock == NetClock /\ UNCHANGED <<sceneVars, calls, component, kill, compVars>>

World == Peer /\ UNCHANGED <<sceneVars, calls, component, kill, compVars>>

Player ==
  \/ \E s \in Scenes : \E what \in Transitions \cup {"say"} :
       Callback(s, what)
  \/ \E c \in calls : Act(c)

Next ==
  \/ Runs /\ Network
  \/ Runs /\ Clock
  \/ Runs /\ World
  \/ Runs /\ Player
  \/ Runs /\ ConsumerStep
  \/ Runs /\ MainStep
  \/ ~Runs /\ UNCHANGED vars      \* the program has ended

Spec == Init /\ [][Next]_vars

\* Each thread is a loop that the system schedules, and time passes; nothing
\* is assumed of the player or the server.
FairSpec ==
  /\ Spec
  /\ WF_vars(Runs /\ Network)
  /\ WF_vars(Runs /\ Clock)
  /\ WF_vars(Runs /\ ConsumerStep)
  /\ WF_vars(Runs /\ MainStep)

-----------------------------------------------------------------------------
(* Properties *)

TypeOK ==
  /\ pc["main"] \in {"frame", "clear", "disconnect", "join", "release",
                     "destroyPackets", "destroyEvents", "leave", "destroy", "exited"}
  /\ pc["consumer"] \in {"none", "check", "consume", "handle", "send", "emplace",
                         "disconnect", "join", "release", "destroyPackets",
                         "destroyEvents", "exited"}
  /\ ret["main"] \in {"none", "leave", "destroy"} \cup Scenes
  /\ ret["consumer"] \in {"none", "send"}
  /\ thread \in {"null", "joinable", "joined"} /\ exiting \in BOOLEAN
  /\ net \in {"none", "start", "loop", "poll", "done"}
  /\ closing \in BOOLEAN /\ overdue \in BOOLEAN /\ dropped \in BOOLEAN
  /\ events \in Seq(Events) /\ copy \in Seq(Events) /\ wire \in Seq(Events)
  /\ packets \in Seq(1..MaxSaid) /\ out \in Seq(1..MaxSaid)
  /\ fault \in Faults /\ link \in Links /\ served \in 0..MaxServed
  /\ stack \in Seq(Scenes) /\ last \in {stack[i] : i \in DOMAIN stack} \cup {"none"}
  /\ switcher \in {"IDLE", "REMOVE_SCENE", "REMOVE_2_SCENES"}
  /\ next \in [Scenes -> Transitions]
  /\ Cardinality(calls) <= MaxCalls
  /\ component \in {"none", "live", "freed"} /\ kill \in BOOLEAN
  /\ handled \in Seq(1..MaxServed) /\ said \in 0..MaxSaid
  /\ sending \in Seq(1..MaxSaid) /\ going \in Seq(1..MaxSaid)

Count(n) == [i \in 1..n |-> i]

\* What the consumer thread handles is what the server sent, from the first
\* message on, without gap, double or swap, whatever the three threads do with
\* the two event queues; as long as the connection is up nothing is missing.
ReceivesInOrder ==
  LET taken  == handled \o Data(copy) \o Data(events)
      stream == taken \o Data(wire)
  IN /\ taken = Count(Len(taken))
     /\ link = "up" => stream = Count(served)

\* While the connection is up, every packet the player's callbacks queued is
\* somewhere between the sending queue and ENet, once and in order: none is
\* lost between the two queues, and none reaches a peer that is not connected
\* yet and refuses it.
SendsInOrder ==
  link = "up" => out \o packets \o going \o sending = Count(said)

\* When gameSceneReset has disconnected, before enet_deinitialize and the
\* removal of the scene, no network thread is left, nor an event of it, even if
\* the consumer thread disconnected at the same time.
LeavesNoThread ==
  pc["main"] \in {"leave", "destroy"} => net = "done" /\ thread = "null" /\ events = <<>>

\* Scenes are only removed from a stack that has them: SceneManager::update
\* calls back() and pop_back() without looking.
RemovesWhatIsThere ==
  /\ switcher = "REMOVE_SCENE" => stack = <<"menu">>
  /\ switcher = "REMOVE_2_SCENES" => stack = <<"menu", "connect", "game">>

\* During play - from the constructor of the game until Escape or the loss of
\* the server - no assert fails, no thread is joined twice and no freed memory
\* is used, whatever callbacks are under way.
PlayIsSafe ==
  component = "live" /\ ~kill /\ link \in {"idle", "connecting", "up"} => fault = "none"

\* Escape in the game brings the menu back: disconnect() returns although the
\* server may be silent and the consumer may be disconnecting as well.
EscapeLeaves ==
  (Shown("game") /\ next["game"] = "TO_MENU") ~> (~Exists("game") \/ fault # "none")

\* The consumer thread ends once it is told to or the connection is lost.
ConsumerEnds ==
  (kill \/ (component = "live" /\ net = "done" /\ link = "down"))
     ~> (pc["consumer"] = "exited" \/ fault # "none" \/ pc["main"] = "exited")

=============================================================================
