-------------------------- MODULE ClientAppProofs --------------------------
(***************************************************************************)
(* The client program, for any number of messages, packets and callbacks:  *)
(* SafeInv says who may be where in disconnect() while the network thread  *)
(* still runs, and what the stack of scenes looks like; OrderInv follows a *)
(* packet from the player to ENet, StreamInv a message from the server to  *)
(* the consumer; TypesInv is the type invariant.                           *)
(***************************************************************************)
EXTENDS ClientApp, SequenceLemmas, FiniteSetTheorems

Calling == {"disconnect", "join", "release", "destroyPackets", "destroyEvents"}
Joined  == {"release", "destroyPackets", "destroyEvents", "leave", "destroy"}
Leaving == Calling \cup {"leave", "destroy"}
Full    == <<"menu", "connect", "game">>
Stacks  == {<<>>, <<"menu">>, <<"menu", "connect">>, Full}

Labels  == Leaving \cup {"frame", "clear", "exited", "none", "check", "consume",
                         "handle", "send", "emplace"}

\* The stack of scenes only ever grows and shrinks along Full, and whoever
\* leaves the game has told the consumer.
StackInv ==
  /\ pc \in [Threads -> Labels] /\ ret \in [Threads -> Labels \cup Scenes]
  /\ stack \in Stacks
  /\ component \in {"none", "live", "freed"}
  /\ kill \in BOOLEAN
  /\ component = "live" <=> stack = Full
  /\ RemovesWhatIsThere
  /\ switcher = "REMOVE_2_SCENES" => kill
  /\ pc["main"] \in Leaving => stack = Full /\ kill
  /\ pc["main"] \in Calling => ret["main"] \in {"leave", "destroy"}
  /\ pc["main"] = "clear" => ret["main"] \in Scenes
  /\ pc["consumer"] \in Calling => ret["consumer"] = "send"

\* Past the join, by either thread, the network thread has ended.
ThreadInv ==
  /\ thread \in {"null", "joinable", "joined"}
  /\ component = "none" => net = "none" /\ pc["consumer"] = "none"
  /\ thread = "joined" => net = "done"
  /\ component # "none" /\ thread = "null" => net = "done"
  /\ \A t \in Threads : pc[t] \in Joined => net = "done"
  /\ pc["main"] \in Joined \ {"release"} => thread = "null"
  /\ pc["main"] \in {"leave", "destroy"} => events = <<>>

Lacks(q, type) == \A i \in DOMAIN q : q[i].type # type

NoNotice(q) == Lacks(q, "DISCONNECT")

\* Unless the connection is down, no notice of its end is in any queue: so the
\* consumer does not disconnect during play.
NoticeInv ==
  /\ events \in Seq(Events) /\ wire \in Seq(Events) /\ copy \in Seq(Events)
  /\ dropped \in BOOLEAN /\ link \in Links
  /\ served \in 0..MaxServed
  /\ net \in {"none", "start"} => /\ wire = <<>> /\ events = <<>> /\ copy = <<>>
                                  /\ ~dropped /\ link = "idle"
  /\ link # "down" => NoNotice(wire) /\ NoNotice(events) /\ NoNotice(copy) /\ ~dropped

PlayInv ==
  /\ component = "live" /\ pc["consumer"] \in Calling => dropped
  /\ component = "live" /\ ~kill /\ thread # "joinable" => link = "down"
  /\ \A c \in calls : c.scene \in Scenes \/ component = "freed"
  /\ PlayIsSafe

SafeInv == StackInv /\ ThreadInv /\ NoticeInv /\ PlayInv

-----------------------------------------------------------------------------
(* Queues of events *)

LEMMA QueueTail ==
  ASSUME NEW q \in Seq(Events), q # <<>>
  PROVE  /\ Tail(q) \in Seq(Events) /\ Head(q) \in Events
         /\ \A type : Lacks(q, type) => Lacks(Tail(q), type) /\ Head(q).type # type
<1>1. Tail(q) \in Seq(Events) /\ Head(q) \in Events /\ Head(q) = q[1] /\ 1 \in DOMAIN q
  OBVIOUS
<1>2. \A i \in DOMAIN Tail(q) : Tail(q)[i] = q[i + 1] /\ i + 1 \in DOMAIN q
  OBVIOUS
<1> QED
  BY <1>1, <1>2 DEF Lacks

LEMMA QueueAppend ==
  ASSUME NEW q \in Seq(Events), NEW e \in Events
  PROVE  /\ Append(q, e) \in Seq(Events)
         /\ \A type : Lacks(q, type) /\ e.type # type => Lacks(Append(q, e), type)
<1> DEFINE r == Append(q, e)
<1>1. \A i \in 1..Len(q) + 1 : r[i] = IF i <= Len(q) THEN q[i] ELSE e
  OBVIOUS
<1>2. DOMAIN r = 1..Len(q) + 1 /\ DOMAIN q = 1..Len(q) /\ Len(q) \in Nat /\ r \in Seq(Events)
  OBVIOUS
<1> HIDE DEF r
<1>3. \A type : Lacks(q, type) /\ e.type # type => Lacks(r, type)
  BY <1>1, <1>2 DEF Lacks
<1> QED
  BY <1>2, <1>3 DEF r

LEMMA QueueEmpty == <<>> \in Seq(Events) /\ \A type : Lacks(<<>>, type)
BY DEF Lacks

LEMMA NoticeTail ==
  ASSUME NEW q \in Seq(Events), q # <<>>
  PROVE  /\ Tail(q) \in Seq(Events) /\ Head(q) \in Events
         /\ NoNotice(q) => NoNotice(Tail(q)) /\ Head(q).type # "DISCONNECT"
BY QueueTail DEF NoNotice

LEMMA NoticeMoves ==
  ASSUME NEW q \in Seq(Events), NEW e \in Events
  PROVE  /\ Append(q, e) \in Seq(Events)
         /\ NoNotice(q) /\ e.type # "DISCONNECT" => NoNotice(Append(q, e))
BY QueueAppend DEF NoNotice

LEMMA EventTyped ==
  ASSUME NEW type \in {"CONNECT", "RECEIVE", "DISCONNECT"}, NEW n \in 0..MaxServed
  PROVE  Event(type, n) \in Events /\ Event(type, n).type = type
BY DEF Event, Events

LEMMA NoticeEmpty == <<>> \in Seq(Events) /\ NoNotice(<<>>)
BY QueueEmpty DEF NoNotice

-----------------------------------------------------------------------------
(* The network thread, the server and the player *)

LEMMA InitSafe == Init => SafeInv
<1> SUFFICES ASSUME Init PROVE SafeInv
  OBVIOUS
<1> USE DEF Init, ClientInit
<1>1. StackInv
  <2>1. <<"menu">> # Full
    BY DEF Full
  <2>2. /\ pc \in [Threads -> Labels] /\ ret \in [Threads -> Labels \cup Scenes]
        /\ pc["main"] = "frame" /\ pc["consumer"] = "none"
    BY DEF Threads, Labels
  <2>3. stack \in Stacks /\ stack # Full
    BY <2>1 DEF Stacks
  <2>4. RemovesWhatIsThere /\ switcher = "IDLE"
    BY DEF RemovesWhatIsThere
  <2> HIDE DEF Init
  <2>5. component = "none" /\ kill = FALSE
    BY DEF Init
  <2> QED
    BY <2>2, <2>3, <2>4, <2>5 DEF StackInv, Leaving, Calling
<1>2. ThreadInv
  BY DEF ThreadInv, Joined, Threads
<1>3. NoticeInv
  <2>1. /\ events \in Seq(Events) /\ wire \in Seq(Events) /\ copy \in Seq(Events)
        /\ NoNotice(wire) /\ NoNotice(events) /\ NoNotice(copy)
    BY NoticeEmpty
  <2>2. served \in 0..MaxServed
    BY ServedAssumption
  <2> QED
    BY <2>1, <2>2 DEF NoticeInv, Links
<1>4. PlayInv
  BY DEF PlayInv, PlayIsSafe, Calling
<1> QED
  BY <1>1, <1>2, <1>3, <1>4 DEF SafeInv

LEMMA NetworkSafe ==
  ASSUME SafeInv, Runs, Network
  PROVE  SafeInv'
<1> USE DEF SafeInv, Network, NetStep, sceneVars, compVars
<1>1. StackInv'
  BY DEF StackInv, RemovesWhatIsThere
<1>2. ThreadInv'
  BY DEF StartHost, CheckExit, SendQueuedPackets, CheckEvents, ThreadInv,
         StackInv, Leaving, Joined, Calling, Threads
<1>3. NoticeInv'
  <2>1. CASE StartHost
    BY <2>1, NoticeEmpty DEF StartHost, NoticeInv, Links
  <2>2. CASE SendQueuedPackets
    BY <2>2 DEF SendQueuedPackets, NoticeInv
  <2>3. CASE CheckExit
    BY <2>3, NoticeEmpty DEF CheckExit, PeerDisconnect, peerVars, NoticeInv, Links
  <2>4. CASE CheckEvents
    BY <2>4, NoticeTail, NoticeMoves DEF CheckEvents, NoticeInv
  <2> QED BY <2>1, <2>2, <2>3, <2>4
<1>4. PlayInv'
  <2>1. CASE StartHost
    BY <2>1 DEF StartHost, PlayInv, PlayIsSafe, NoticeInv, ThreadInv, StackInv, Runs
  <2>2. CASE SendQueuedPackets
    BY <2>2 DEF SendQueuedPackets, PlayInv, PlayIsSafe, NoticeInv, ThreadInv, Runs
  <2>3. CASE CheckExit
    BY <2>3 DEF CheckExit, PeerDisconnect, peerVars, PlayInv, PlayIsSafe, NoticeInv, ThreadInv, Runs
  <2>4. CASE CheckEvents
    BY <2>4 DEF CheckEvents, PlayInv, PlayIsSafe, NoticeInv, ThreadInv, Runs
  <2> QED BY <2>1, <2>2, <2>3, <2>4
<1> QED BY <1>1, <1>2, <1>3, <1>4

LEMMA ClockSafe ==
  ASSUME SafeInv, Runs, Clock
  PROVE  SafeInv'
BY DEF SafeInv, Clock, NetClock, TimePasses, sceneVars, compVars, peerVars,
       StackInv, RemovesWhatIsThere, ThreadInv, NoticeInv, NoNotice, PlayInv,
       PlayIsSafe

LEMMA WorldSafe ==
  ASSUME SafeInv, Runs, World
  PROVE  SafeInv'
<1> USE DEF SafeInv, World, Peer, sceneVars, compVars, netVars
<1>1. StackInv'
  BY DEF StackInv, RemovesWhatIsThere
<1>2. ThreadInv'
  BY DEF ThreadInv
<1>3. NoticeInv'
  <2>0. /\ 0 \in 0..MaxServed
        /\ served < MaxServed => served + 1 \in 0..MaxServed
    BY ServedAssumption DEF NoticeInv
  <2>1. CASE Accept
    <3>1. /\ Append(wire, Event("CONNECT", 0)) \in Seq(Events)
          /\ NoNotice(wire) => NoNotice(Append(wire, Event("CONNECT", 0)))
      BY <2>0, EventTyped, NoticeMoves DEF NoticeInv
    <3> QED
      BY <2>1, <3>1 DEF Accept, NoticeInv, Links
  <2>2. CASE Serve
    <3>1. /\ Append(wire, Event("RECEIVE", served')) \in Seq(Events)
          /\ NoNotice(wire) => NoNotice(Append(wire, Event("RECEIVE", served')))
      BY <2>0, <2>2, EventTyped, NoticeMoves DEF NoticeInv, Serve
    <3> QED
      BY <2>0, <2>2, <3>1 DEF Serve, NoticeInv, Links
  <2>3. CASE LoseServer \/ AnswerDisconnect
    <3>1. /\ Append(wire, Event("DISCONNECT", 0)) \in Seq(Events)
          /\ Append(<<>>, Event("DISCONNECT", 0)) \in Seq(Events)
      BY <2>0, EventTyped, NoticeMoves, NoticeEmpty DEF NoticeInv
    <3> QED
      BY <2>3, <3>1 DEF LoseServer, AnswerDisconnect, NoticeInv, Links
  <2> QED
    BY <2>1, <2>2, <2>3
<1>4. PlayInv'
  BY DEF PlayInv, PlayIsSafe, Runs, Accept, Serve, LoseServer, AnswerDisconnect
<1> QED BY <1>1, <1>2, <1>3, <1>4

LEMMA PlayerSafe ==
  ASSUME SafeInv, Runs, Player
  PROVE  SafeInv'
<1> USE DEF SafeInv
<1>1. CASE \E s \in Scenes : \E what \in Transitions \cup {"say"} : Callback(s, what)
  BY <1>1 DEF Callback, clientVars, sceneVars, compVars, netVars, peerVars,
       StackInv, RemovesWhatIsThere, ThreadInv, NoticeInv, NoNotice, PlayInv,
       PlayIsSafe
<1>2. CASE \E c \in calls : Act(c)
  <2> PICK c \in calls : Act(c)
    BY <1>2
  <2>1. PlayInv'
    <3>1. component = "live" => Exists("menu") /\ Exists("connect") /\ Exists("game")
      BY DEF StackInv, Full, Exists
    <3>2. component = "live" => Exists(c.scene)
      <4>1. component = "live" => c.scene \in Scenes
        BY DEF PlayInv
      <4> QED
        BY <3>1, <4>1 DEF Scenes
    <3> QED
      BY <3>2 DEF Act, PlayInv, PlayIsSafe, Runs, peerVars, netVars
  <2> QED
  BY <2>1 DEF Act, clientVars, sceneVars, compVars, netVars, peerVars,
       StackInv, RemovesWhatIsThere, ThreadInv, NoticeInv, NoNotice
<1> QED BY <1>1, <1>2 DEF Player

-----------------------------------------------------------------------------
(* disconnect() *)

LEMMA GoToTyped ==
  ASSUME pc \in [Threads -> Labels], NEW t \in Threads, NEW l \in Labels, GoTo(t, l)
  PROVE  /\ pc' \in [Threads -> Labels]
         /\ pc'[t] = l
         /\ \A u \in Threads : u # t => pc'[u] = pc[u]
BY DEF GoTo

LEMMA DisconnectSafe ==
  ASSUME SafeInv, Runs, NEW t \in Threads, Disconnect(t), component = "live",
         t = "main" => pc[t] \in Calling,
         UNCHANGED <<sceneVars, calls, component, kill, compVars>>
  PROVE  SafeInv'
<1> USE DEF SafeInv, Disconnect, sceneVars, compVars, netVars, peerVars
<1>0. /\ pc \in [Threads -> Labels] /\ pc[t] \in Calling
      /\ Calling \subseteq Labels /\ "leave" \in Labels /\ "destroy" \in Labels /\ "send" \in Labels
  BY DEF StackInv, Calling, Labels, Leaving, BeginDisconnect, Join, Release,
         DestroyQueuedPackets, DestroyQueuedEvents
<1>1. /\ pc' \in [Threads -> Labels]
      /\ \A u \in Threads : u # t => pc'[u] = pc[u]
      /\ pc'[t] \in Calling \/ (pc[t] = "destroyEvents" /\ pc'[t] = ret[t])
  BY <1>0, GoToTyped DEF BeginDisconnect, Join, Release, DestroyQueuedPackets,
     DestroyQueuedEvents, Calling, StackInv, Threads
<1>2. ret' = ret /\ UNCHANGED <<stack, component, kill, switcher>>
  BY DEF BeginDisconnect, Join, Release, DestroyQueuedPackets, DestroyQueuedEvents
<1>3. ret["main"] \in {"leave", "destroy"} \/ t # "main"
  BY <1>0 DEF StackInv
<1>4. ret["consumer"] = "send" \/ t # "consumer"
  BY <1>0 DEF StackInv
<1>5. StackInv'
  BY <1>0, <1>1, <1>2, <1>3, <1>4 DEF StackInv, RemovesWhatIsThere, Threads, Leaving, Calling
<1>6. ThreadInv'
  <2>1. CASE BeginDisconnect(t)
    BY <1>0, <1>1, <1>2, <2>1 DEF BeginDisconnect, GoTo, ThreadInv, Threads, Joined, Calling
  <2>2. CASE Join(t)
    BY <1>0, <1>1, <1>2, <2>2 DEF Join, GoTo, ThreadInv, Threads, Joined, Calling
  <2>3. CASE Release(t)
    BY <1>0, <1>1, <1>2, <2>3 DEF Release, GoTo, ThreadInv, Threads, Joined, Calling
  <2>4. CASE DestroyQueuedPackets(t)
    BY <1>0, <1>1, <1>2, <2>4 DEF DestroyQueuedPackets, GoTo, ThreadInv, Threads, Joined, Calling
  <2>5. CASE DestroyQueuedEvents(t)
    BY <1>0, <1>1, <1>2, <1>3, <1>4, <2>5 DEF DestroyQueuedEvents, GoTo, ThreadInv, Threads, Joined, Calling
  <2> QED
    BY <2>1, <2>2, <2>3, <2>4, <2>5
<1>7. NoticeInv'
  BY NoticeEmpty DEF NoticeInv, BeginDisconnect, Join, Release, DestroyQueuedPackets, DestroyQueuedEvents
<1>8. PlayInv'
  <2>1. kill \/ link = "down"
    BY <1>0 DEF StackInv, PlayInv, NoticeInv, Threads, Leaving
  <2> QED
    BY <1>0, <1>1, <1>2, <2>1 DEF PlayInv, PlayIsSafe, Threads, BeginDisconnect, Join, Release, DestroyQueuedPackets, DestroyQueuedEvents, Calling
<1> QED BY <1>5, <1>6, <1>7, <1>8

-----------------------------------------------------------------------------
(* The consumer thread *)

LEMMA ConsumerSafe ==
  ASSUME SafeInv, Runs, ConsumerStep
  PROVE  SafeInv'
<1> USE DEF SafeInv
<1>1. CASE /\ component = "live" /\ Disconnect("consumer")
           /\ UNCHANGED <<sceneVars, calls, component, kill, compVars>>
  BY <1>1, DisconnectSafe DEF Threads
<1>2. CASE /\ \/ CheckLoop \/ TakeEvents \/ HandleEvent \/ EndOfEvents
              \/ SendFrontOfQueue \/ Emplace \/ Sleep \/ RunOnFreed
           /\ UNCHANGED <<thread, exiting, netVars, peerVars, sceneVars, calls,
                          component, kill>>
  <2> USE <1>2 DEF sceneVars, compVars, netVars, peerVars
  <2>0. pc \in [Threads -> Labels] /\ "main" \in Threads /\ "consumer" \in Threads
    BY DEF StackInv, Threads
  <2>1. /\ pc' \in [Threads -> Labels]
        /\ pc'["main"] = pc["main"]
    BY <2>0 DEF CheckLoop, TakeEvents, HandleEvent, EndOfEvents, SendFrontOfQueue, Emplace, Sleep, RunOnFreed, GoTo, Labels, Leaving, Calling, Threads
  <2>2. /\ component # "none" /\ UNCHANGED <<stack, component, kill, switcher, thread, net, link, served, calls>>
    BY DEF CheckLoop, TakeEvents, HandleEvent, EndOfEvents, SendFrontOfQueue, Emplace, Sleep, RunOnFreed, Consumer, ThreadInv, StackInv
  <2>3. /\ pc'["consumer"] \notin Joined
        /\ pc'["consumer"] \in Calling => EndOfEvents /\ dropped
    BY <2>0 DEF CheckLoop, TakeEvents, HandleEvent, EndOfEvents, SendFrontOfQueue, Emplace, Sleep, RunOnFreed, GoTo, Joined, Calling, Threads, Consumer
  <2>4. /\ ret' \in [Threads -> Labels \cup Scenes] /\ ret'["main"] = ret["main"]
        /\ EndOfEvents => ret'["consumer"] = "send"
    BY <2>0 DEF CheckLoop, TakeEvents, HandleEvent, EndOfEvents, SendFrontOfQueue, Emplace, Sleep, RunOnFreed, Labels, StackInv, Threads
  <2>5. StackInv'
    BY <2>0, <2>1, <2>2, <2>3, <2>4 DEF StackInv, RemovesWhatIsThere, Leaving
  <2>6. events' = events \/ events' = <<>>
    BY DEF CheckLoop, TakeEvents, HandleEvent, EndOfEvents, SendFrontOfQueue, Emplace, Sleep, RunOnFreed
  <2>7. ThreadInv'
    BY <2>0, <2>1, <2>2, <2>3, <2>6 DEF ThreadInv, Threads
  <2>8. NoticeInv'
    <3>1. CASE TakeEvents
      BY <3>1, NoticeEmpty DEF TakeEvents, NoticeInv
    <3>2. CASE HandleEvent
      BY <3>2, NoticeTail DEF HandleEvent, NoticeInv
    <3>3. CASE UNCHANGED <<events, copy, dropped>>
      BY <3>3 DEF NoticeInv
    <3> QED
      BY <3>1, <3>2, <3>3 DEF CheckLoop, EndOfEvents, SendFrontOfQueue, Emplace, Sleep, RunOnFreed
  <2>9. PlayInv'
    <3>1. component = "live" /\ pc'["consumer"] \in Calling => dropped'
      BY <2>3 DEF EndOfEvents
    <3>2. component = "live" /\ ~kill /\ link # "down" => fault' = fault
      BY DEF CheckLoop, TakeEvents, HandleEvent, EndOfEvents, SendFrontOfQueue, Emplace, Sleep, RunOnFreed, PlayInv
    <3> QED
      BY <2>2, <3>1, <3>2 DEF PlayInv, PlayIsSafe, Runs
  <2> QED BY <2>5, <2>7, <2>8, <2>9
<1> QED BY <1>1, <1>2 DEF ConsumerStep

-----------------------------------------------------------------------------
(* The main thread *)

LEMMA StackLengths ==
  /\ Len(Full) = 3 /\ Len(<<"menu", "connect">>) = 2
  /\ Len(<<"menu">>) = 1 /\ Len(<<>>) = 0
BY DEF Full

LEMMA StacksDiffer ==
  /\ Full # <<>> /\ Full # <<"menu">> /\ Full # <<"menu", "connect">>
  /\ <<"menu">> # <<"menu", "connect">> /\ <<"menu">> # <<>>
<1>1. Full # <<>>
  BY StackLengths
<1>2. Full # <<"menu">>
  BY StackLengths
<1>3. Full # <<"menu", "connect">>
  BY StackLengths
<1>4. <<"menu">> # <<"menu", "connect">>
  BY StackLengths
<1>5. <<"menu">> # <<>>
  OBVIOUS
<1> QED
  BY <1>1, <1>2, <1>3, <1>4, <1>5

LEMMA PushConnect == Append(<<"menu">>, "connect") = <<"menu", "connect">>
<1> DEFINE s == Append(<<"menu">>, "connect")
           r == <<"menu", "connect">>
<1>1. s \in Seq(Scenes) /\ Len(s) = 2
  BY DEF Scenes
<1>2. s[1] = "menu" /\ s[2] = "connect" /\ r[1] = "menu" /\ r[2] = "connect"
  OBVIOUS
<1>3. r \in Seq(Scenes) /\ Len(r) = 2
  BY DEF Scenes
<1> HIDE DEF s, r
<1>4. \A i \in 1..Len(s) : s[i] = r[i]
  BY <1>1, <1>2
<1>5. s = r
  BY <1>1, <1>3, <1>4, SeqEqual
<1> QED
  BY <1>5 DEF s, r

LEMMA PushGame == Append(<<"menu", "connect">>, "game") = Full
<1> DEFINE s == Append(<<"menu", "connect">>, "game")
<1>1. s \in Seq(Scenes) /\ Len(s) = 3
  BY DEF Scenes
<1>2. s[1] = "menu" /\ s[2] = "connect" /\ s[3] = "game"
  OBVIOUS
<1>3. Full \in Seq(Scenes) /\ Len(Full) = 3
  BY DEF Full, Scenes
<1>4. Full[1] = "menu" /\ Full[2] = "connect" /\ Full[3] = "game"
  BY DEF Full
<1> HIDE DEF s
<1>5. \A i \in 1..Len(s) : s[i] = Full[i]
  BY <1>1, <1>2, <1>4
<1>6. s = Full
  BY <1>1, <1>3, <1>5, SeqEqual
<1> QED
  BY <1>6 DEF s

LEMMA PopTwo == SubSeq(Full, 1, 1) = <<"menu">>
<1> DEFINE s == SubSeq(Full, 1, 1)
<1>1. Full \in Seq(Scenes) /\ Len(Full) = 3 /\ Full[1] = "menu"
  BY DEF Full, Scenes
<1>2. s \in Seq(Scenes) /\ Len(s) = 1 /\ s[1] = "menu"
  BY <1>1
<1>3. <<"menu">> \in Seq(Scenes) /\ Len(<<"menu">>) = 1 /\ <<"menu">>[1] = "menu"
  BY DEF Scenes
<1> HIDE DEF s
<1>4. s = <<"menu">>
  BY <1>2, <1>3, SeqEqual
<1> QED
  BY <1>4 DEF s

LEMMA PopOne == SubSeq(<<"menu">>, 1, 0) = <<>>
<1>1. SubSeq(<<"menu">>, 1, 0) \in Seq({"menu"}) /\ Len(SubSeq(<<"menu">>, 1, 0)) = 0
  OBVIOUS
<1> QED
  BY <1>1

LEMMA StackShapes ==
  ASSUME stack \in Stacks
  PROVE  /\ Shown("game") => stack = Full
         /\ Shown("connect") => stack = <<"menu", "connect">>
         /\ Shown("menu") => stack = <<"menu">>
         /\ Append(<<"menu">>, "connect") = <<"menu", "connect">>
         /\ stack = Full => Without(2) = <<"menu">>
         /\ stack = <<"menu">> => Without(1) = <<>>
<1>1. Append(<<"menu">>, "connect") = <<"menu", "connect">>
  BY PushConnect
<1>2. /\ Shown("game") => stack = Full
      /\ Shown("connect") => stack = <<"menu", "connect">>
      /\ Shown("menu") => stack = <<"menu">>
  BY DEF Stacks, Full, Shown, Top
<1>3. stack = Full => Without(2) = <<"menu">>
  <2> SUFFICES ASSUME stack = Full
               PROVE  SubSeq(Full, 1, Len(Full) - 2) = <<"menu">>
    BY DEF Without
  <2>1. Len(Full) - 2 = 1
    BY StackLengths
  <2> QED
    BY <2>1, PopTwo
<1>4. stack = <<"menu">> => Without(1) = <<>>
  <2> SUFFICES ASSUME stack = <<"menu">>
               PROVE  SubSeq(<<"menu">>, 1, Len(<<"menu">>) - 1) = <<>>
    BY DEF Without
  <2>1. Len(<<"menu">>) - 1 = 0
    BY StackLengths
  <2> QED
    BY <2>1, PopOne
<1> QED
  BY <1>1, <1>2, <1>3, <1>4

LEMMA MainSafe ==
  ASSUME SafeInv, Runs, MainStep
  PROVE  SafeInv'
<1> USE DEF SafeInv
<1>1. CASE /\ Disconnect("main")
           /\ UNCHANGED <<sceneVars, calls, component, kill, compVars>>
  <2>1. pc["main"] \in Calling
    BY <1>1 DEF Disconnect, BeginDisconnect, Join, Release, DestroyQueuedPackets, DestroyQueuedEvents, Calling
  <2>2. component = "live"
    BY <2>1 DEF StackInv, Leaving
  <2> QED
    BY <1>1, <2>1, <2>2, DisconnectSafe DEF Threads
<1>2. CASE DestroyGame
  <2> USE <1>2 DEF DestroyGame, Main, netVars
  <2>0. /\ pc \in [Threads -> Labels] /\ "main" \in Threads /\ "consumer" \in Threads
        /\ "frame" \in Labels /\ stack = Full
    BY DEF StackInv, Threads, Labels, Leaving
  <2>1. /\ pc' \in [Threads -> Labels]
        /\ pc'["main"] = "frame" /\ pc'["consumer"] = pc["consumer"]
    BY <2>0, GoToTyped DEF Threads
  <2>2. stack' = <<"menu">> /\ component' = "freed" /\ switcher' = "IDLE"
    BY <2>0, StackShapes DEF StackInv
  <2>3. StackInv'
    BY <2>0, <2>1, <2>2, StackShapes, StacksDiffer DEF StackInv, RemovesWhatIsThere, Leaving, Calling, Stacks
  <2>4. ThreadInv'
    BY <2>0, <2>1, <2>2 DEF ThreadInv, Threads, Joined
  <2>5. NoticeInv'
    <3>1. events' = <<>> /\ copy' = <<>> /\ dropped' = FALSE /\ UNCHANGED <<net, wire, link>>
      OBVIOUS
    <3>2. served' \in 0..MaxServed
      BY ServedAssumption
    <3> QED
      BY <3>1, <3>2, NoticeEmpty DEF NoticeInv
  <2>6. PlayInv'
    BY <2>2 DEF PlayInv, PlayIsSafe
  <2> QED BY <2>3, <2>4, <2>5, <2>6
<1>3. CASE /\ \/ RemoveScenes \/ ExitGame \/ UpdateNothing
              \/ MenuToConnect \/ MenuToExit \/ ConnectToGame \/ LeaveGame
              \/ RemoveTwoScenes \/ ClearNextScene
           /\ UNCHANGED <<closing, overdue, events, copy, dropped, packets,
                          peerVars, calls, compVars>>
  <2> USE <1>3 DEF peerVars, compVars
  <2>0. /\ pc \in [Threads -> Labels] /\ ret \in [Threads -> Labels \cup Scenes]
        /\ stack \in Stacks
    BY DEF StackInv
  <2>1. StackInv'
    <3> USE <2>0, StackShapes, StacksDiffer, PushGame DEF StackInv, RemovesWhatIsThere, Leaving, Calling, Main, GoTo, Updates, Serves, ClearLater, Threads, Scenes, Labels
    <3>1. CASE RemoveScenes
      <4>1. CASE switcher = "REMOVE_SCENE"
        BY <3>1, <4>1 DEF RemoveScenes, Stacks
      <4>2. CASE switcher # "REMOVE_SCENE"
        BY <3>1, <4>2 DEF RemoveScenes
      <4> QED
        BY <4>1, <4>2
    <3>2. CASE ExitGame
      BY <3>2 DEF ExitGame, sceneVars
    <3>3. CASE UpdateNothing
      BY <3>3 DEF UpdateNothing
    <3>4. CASE MenuToConnect
      BY <3>4 DEF MenuToConnect, Stacks
    <3>5. CASE MenuToExit
      BY <3>5 DEF MenuToExit
    <3>6. CASE ConnectToGame
      BY <3>6 DEF ConnectToGame, Stacks
    <3>7. CASE LeaveGame
      BY <3>7 DEF LeaveGame
    <3>8. CASE RemoveTwoScenes
      BY <3>8 DEF RemoveTwoScenes
    <3>9. CASE ClearNextScene
      BY <3>9 DEF ClearNextScene
    <3> QED BY <3>1, <3>2, <3>3, <3>4, <3>5, <3>6, <3>7, <3>8, <3>9
  <2>2. ThreadInv'
    <3> USE <2>0 DEF ThreadInv, Joined, Main, GoTo, Updates, Serves, ClearLater, Threads
    <3>1. CASE ConnectToGame
      BY <3>1 DEF ConnectToGame, Connect, StackInv
    <3>2. CASE ~ConnectToGame
      BY <3>2 DEF RemoveScenes, ExitGame, UpdateNothing, MenuToConnect, MenuToExit, LeaveGame, RemoveTwoScenes, ClearNextScene, StackInv
    <3> QED BY <3>1, <3>2
  <2>3. NoticeInv'
    <3>1. CASE ConnectToGame
      BY <3>1, NoticeEmpty DEF ConnectToGame, Connect, NoticeInv, ThreadInv
    <3>2. CASE net' = net
      BY <3>2 DEF NoticeInv
    <3> QED
      BY <3>1, <3>2 DEF RemoveScenes, ExitGame, UpdateNothing, MenuToConnect, MenuToExit, LeaveGame, RemoveTwoScenes, ClearNextScene
  <2>4. PlayInv'
    <3> USE <2>0 DEF PlayInv, PlayIsSafe, Main, GoTo, Updates, Serves, ClearLater, Threads, Runs, Calling
    <3>1. CASE ConnectToGame
      BY <3>1 DEF ConnectToGame, Connect
    <3>2. CASE ~ConnectToGame
      BY <3>2 DEF RemoveScenes, ExitGame, UpdateNothing, MenuToConnect, MenuToExit, LeaveGame, RemoveTwoScenes, ClearNextScene
    <3> QED BY <3>1, <3>2
  <2> QED BY <2>1, <2>2, <2>3, <2>4
<1> QED BY <1>1, <1>2, <1>3 DEF MainStep

-----------------------------------------------------------------------------

LEMMA StutterSafe ==
  ASSUME SafeInv, UNCHANGED vars
  PROVE  SafeInv'
BY DEF vars, clientVars, sceneVars, compVars, netVars, peerVars, SafeInv,
       StackInv, RemovesWhatIsThere, ThreadInv, NoticeInv, NoNotice, PlayInv, PlayIsSafe

(* SafeInv holds, whatever the server, the player and the scheduler do. *)
THEOREM Safe == Spec => []SafeInv
<1>1. Init => SafeInv
  BY InitSafe
<1>2. SafeInv /\ [Next]_vars => SafeInv'
  BY NetworkSafe, ClockSafe, WorldSafe, PlayerSafe, ConsumerSafe, MainSafe, StutterSafe DEF Next
<1> QED
  BY <1>1, <1>2, PTL DEF Spec

(* When gameSceneReset comes back from disconnect(), the network thread has   *)
(* ended and nothing of it is queued, even if the consumer was disconnecting  *)
(* at the same time.                                                         *)
THEOREM LeavesCleanly == Spec => []LeavesNoThread
<1>1. SafeInv => LeavesNoThread
  BY DEF SafeInv, ThreadInv, LeavesNoThread, Joined, Threads
<1> QED
  BY <1>1, Safe, PTL

(* SceneManager never removes a scene that is not there, whichever callbacks  *)
(* the main thread overtakes.                                                *)
THEOREM RemovalsSafe == Spec => []RemovesWhatIsThere
<1>1. SafeInv => RemovesWhatIsThere
  BY DEF SafeInv, StackInv
<1> QED
  BY <1>1, Safe, PTL

(* While a game is played no assert fails, no thread is joined twice and no   *)
(* freed memory is used.                                                     *)
THEOREM PlaySafe == Spec => []PlayIsSafe
<1>1. SafeInv => PlayIsSafe
  BY DEF SafeInv, PlayInv
<1> QED
  BY <1>1, Safe, PTL

-----------------------------------------------------------------------------
(* The way of a packet *)

\* Before the connection is up nothing has been said: handlers ask for the
\* lobby's end, which is the server's first message.
LobbyInv ==
  link \in {"idle", "connecting"} =>
    /\ handled = <<>> /\ said = 0
    /\ out = <<>> /\ packets = <<>> /\ going = <<>> /\ sending = <<>>
    /\ Lacks(wire, "RECEIVE") /\ Lacks(events, "RECEIVE") /\ Lacks(copy, "RECEIVE")
    /\ \A c \in calls : c.does # "say"

Calls == [scene : Scenes \cup {"gone"}, does : Transitions \cup {"say"}]

PacketsTyped ==
  /\ out \in Seq(Nat) /\ packets \in Seq(Nat) /\ going \in Seq(Nat)
  /\ sending \in Seq(Nat) /\ said \in Nat

OrderInv ==
  /\ PacketsTyped
  /\ calls \in SUBSET Calls
  /\ (component = "live" /\ pc["consumer"] = "emplace") \/ going = <<>>
  /\ net = "done" => link \in {"idle", "down"}
  /\ LobbyInv
  /\ SendsInOrder

LEMMA CountZero == Count(0) = <<>>
BY DEF Count

LEMMA CountNext == ASSUME NEW n \in Nat PROVE Append(Count(n), n + 1) = Count(n + 1)
<1> DEFINE s == Append(Count(n), n + 1)
<1>1. Count(n) \in Seq(Nat) /\ Len(Count(n)) = n /\ Count(n + 1) \in Seq(Nat)
      /\ Len(Count(n + 1)) = n + 1
  BY DEF Count
<1>2. s \in Seq(Nat) /\ Len(s) = n + 1
  BY <1>1
<1>3. \A i \in 1..n + 1 : s[i] = i
  BY <1>1 DEF Count
<1>4. \A i \in 1..n + 1 : Count(n + 1)[i] = i
  BY DEF Count
<1> HIDE DEF s
<1>5. s = Count(n + 1)
  BY <1>1, <1>2, <1>3, <1>4, SeqEqual
<1> QED
  BY <1>5 DEF s

LEMMA Flushed ==
  ASSUME NEW o \in Seq(Nat), NEW p \in Seq(Nat), NEW g \in Seq(Nat), NEW s \in Seq(Nat)
  PROVE  (o \o p) \o <<>> \o g \o s = o \o p \o g \o s
BY ConcatProperties, ConcatEmptySeq

LEMMA ConcatTyped ==
  ASSUME NEW a \in Seq(Nat), NEW b \in Seq(Nat)
  PROVE  a \o b \in Seq(Nat)
BY ConcatProperties

LEMMA Regrouped ==
  ASSUME NEW a \in Seq(Nat), NEW b \in Seq(Nat), NEW c \in Seq(Nat)
  PROVE  (a \o b) \o c = a \o (b \o c)
BY ConcatAssociative

LEMMA NilRight == ASSUME NEW a \in Seq(Nat) PROVE a \o <<>> = a
BY ConcatEmptySeq

LEMMA NilNil == <<>> \o <<>> = <<>>
BY ConcatEmptySeq

LEMMA HeadAndTail ==
  ASSUME NEW s \in Seq(Nat), s # <<>>
  PROVE  Head(s) \in Nat /\ Tail(s) \in Seq(Nat) /\ <<Head(s)>> \o Tail(s) = s
<1>1. Len(s) \in Nat \ {0}
  BY EmptySeq
<1>2. SubSeq(s, 1, Len(s)) = <<s[1]>> \o SubSeq(s, 2, Len(s))
  <2>1. 1 \in 1..Len(s) /\ Len(s) \in 1..Len(s) /\ 1 + 1 = 2
    BY <1>1
  <2> HIDE <1>1
  <2>2. SubSeq(s, 1, Len(s)) = <<s[1]>> \o SubSeq(s, 1 + 1, Len(s))
    BY <2>1, SubSeqRecursiveFirst
  <2> QED
    BY <2>1, <2>2
<1>3. SubSeq(s, 1, Len(s)) = s
  BY SubSeqFull
<1>4. Tail(s) = SubSeq(s, 2, Len(s))
  BY TailIsSubSeq
<1>5. Head(s) = s[1]
  OBVIOUS
<1>6. Head(s) \in Nat /\ Tail(s) \in Seq(Nat)
  BY HeadTailProperties
<1> QED
  BY <1>2, <1>3, <1>4, <1>5, <1>6

LEMMA Popped ==
  ASSUME NEW o \in Seq(Nat), NEW p \in Seq(Nat), NEW s \in Seq(Nat), s # <<>>
  PROVE  o \o p \o <<Head(s)>> \o Tail(s) = o \o p \o <<>> \o s
<1>1. Head(s) \in Nat /\ Tail(s) \in Seq(Nat) /\ <<Head(s)>> \o Tail(s) = s
  BY HeadAndTail
<1>2. <<Head(s)>> \in Seq(Nat)
  BY <1>1
<1>3. o \o p \in Seq(Nat)
  BY ConcatTyped
<1>4. (o \o p) \o <<Head(s)>> \o Tail(s) = (o \o p) \o (<<Head(s)>> \o Tail(s))
  BY <1>1, <1>2, <1>3, Regrouped
<1>5. (o \o p) \o <<>> = o \o p
  BY <1>3, NilRight
<1> QED
  BY <1>1, <1>4, <1>5

LEMMA AppendToLast ==
  ASSUME NEW a \in Seq(Nat), NEW s \in Seq(Nat), NEW n \in Nat
  PROVE  a \o Append(s, n) = Append(a \o s, n)
<1>1. <<n>> \in Seq(Nat)
  OBVIOUS
<1>2. a \o s \in Seq(Nat)
  BY ConcatTyped
<1>3. Append(s, n) = s \o <<n>>
  BY AppendIsConcat
<1>4. Append(a \o s, n) = (a \o s) \o <<n>>
  BY <1>2, AppendIsConcat
<1> DEFINE l == <<n>>
<1> HIDE DEF l
<1>5. (a \o s) \o l = a \o (s \o l)
  <2>1. l \in Seq(Nat)
    BY <1>1 DEF l
  <2> QED
    BY <2>1, Regrouped
<1> QED
  BY <1>3, <1>4, <1>5 DEF l

LEMMA SayKeeps ==
  ASSUME PacketsTyped
  PROVE  out \o packets \o going \o Append(sending, said + 1)
           = Append(out \o packets \o going \o sending, said + 1)
<1>1. out \in Seq(Nat) /\ packets \in Seq(Nat) /\ going \in Seq(Nat)
  BY DEF PacketsTyped
<1>2. sending \in Seq(Nat) /\ said + 1 \in Nat
  BY DEF PacketsTyped
<1>3. out \o packets \in Seq(Nat)
  BY <1>1, ConcatTyped
<1>4. out \o packets \o going \in Seq(Nat)
  BY <1>1, <1>3, ConcatTyped
<1> QED
  BY <1>2, <1>4, AppendToLast

LEMMA EmplaceKeeps ==
  ASSUME PacketsTyped
  PROVE  out \o (packets \o going) \o <<>> \o sending = out \o packets \o going \o sending
<1>1. out \in Seq(Nat) /\ packets \in Seq(Nat) /\ going \in Seq(Nat)
  BY DEF PacketsTyped
<1>2. out \o (packets \o going) = out \o packets \o going
  BY <1>1, Regrouped
<1>3. out \o packets \in Seq(Nat)
  BY <1>1, ConcatTyped
<1>4. out \o packets \o going \in Seq(Nat)
  BY <1>1, <1>3, ConcatTyped
<1>5. (out \o packets \o going) \o <<>> = out \o packets \o going
  BY <1>4, NilRight
<1> QED
  BY <1>2, <1>5

LEMMA MovedCalls ==
  ASSUME NEW C \in SUBSET Calls, NEW D,
         D = {[c EXCEPT !.scene = IF @ = "menu" THEN @ ELSE "gone"] : c \in C}
  PROVE  D \in SUBSET Calls /\ \A d \in D : \E c \in C : d.does = c.does
BY DEF Calls

-----------------------------------------------------------------------------
(* No step loses or swaps a packet *)

LEMMA InitOrder == Init => OrderInv
<1> SUFFICES ASSUME Init PROVE OrderInv
  OBVIOUS
<1>1. PacketsTyped /\ going = <<>> /\ link = "idle" /\ net = "none"
  BY DEF Init, ClientInit, PacketsTyped
<1>2. LobbyInv
  BY QueueEmpty DEF Init, ClientInit, LobbyInv
<1> QED
  BY <1>1, <1>2 DEF OrderInv, SendsInOrder, Init

LEMMA NetworkOrder == ASSUME SafeInv, OrderInv, Network PROVE OrderInv'
<1> USE DEF Network, NetStep, netVars, peerVars, compVars, sceneVars
<1> USE DEF SafeInv, NoticeInv, OrderInv
<1>1. CASE StartHost
  BY <1>1 DEF StartHost, PacketsTyped, LobbyInv, SendsInOrder
<1>2. CASE CheckExit
  BY <1>2, QueueEmpty DEF CheckExit, PeerDisconnect, PacketsTyped, LobbyInv, SendsInOrder
<1>3. CASE SendQueuedPackets
  <2>1. PacketsTyped'
    BY <1>3, ConcatTyped DEF SendQueuedPackets, PacketsTyped
  <2>2. LobbyInv'
    BY <1>3 DEF SendQueuedPackets, LobbyInv
  <2>3. SendsInOrder'
    BY <1>3, Flushed, SMTT(30) DEF SendQueuedPackets, PacketsTyped, SendsInOrder
  <2> QED
    BY <1>3, <2>1, <2>2, <2>3 DEF SendQueuedPackets
<1>4. CASE CheckEvents
  <2>1. LobbyInv'
    <3>1. CASE wire = <<>>
      BY <1>4, <3>1 DEF CheckEvents, LobbyInv
    <3>2. CASE wire # <<>>
      <4>1. /\ Tail(wire) \in Seq(Events) /\ Head(wire) \in Events
            /\ Lacks(wire, "RECEIVE") => Lacks(Tail(wire), "RECEIVE") /\ Head(wire).type # "RECEIVE"
        BY <3>2, QueueTail
      <4>2. Lacks(events, "RECEIVE") /\ Head(wire).type # "RECEIVE"
              => Lacks(Append(events, Head(wire)), "RECEIVE")
        BY <4>1, QueueAppend
      <4>3. events' = Append(events, Head(wire)) /\ wire' = Tail(wire)
        BY <1>4, <3>2 DEF CheckEvents
      <4> QED
        BY <1>4, <4>1, <4>2, <4>3 DEF CheckEvents, LobbyInv
    <3> QED
      BY <3>1, <3>2
  <2>2. net' = "done" => link' \in {"idle", "down"}
    BY <1>4, NoticeTail DEF CheckEvents, Links
  <2> QED
    BY <1>4, <2>1, <2>2 DEF CheckEvents, PacketsTyped, SendsInOrder
<1> QED
  BY <1>1, <1>2, <1>3, <1>4

LEMMA ClockOrder == ASSUME SafeInv, OrderInv, Clock PROVE OrderInv'
BY DEF Clock, NetClock, TimePasses, peerVars, compVars, sceneVars,
       OrderInv, PacketsTyped, LobbyInv, SendsInOrder

LEMMA WorldOrder == ASSUME SafeInv, OrderInv, World PROVE OrderInv'
<1> USE DEF World, Peer, netVars, compVars, sceneVars, OrderInv
<1>1. CASE Accept
  <2>1. PacketsTyped /\ SendsInOrder'
    BY <1>1, CountZero, NilRight DEF Accept, LobbyInv, PacketsTyped, SendsInOrder
  <2> QED
    BY <1>1, <2>1 DEF Accept, LobbyInv, PacketsTyped
<1>2. CASE Serve
  BY <1>2 DEF Serve, PacketsTyped, LobbyInv, SendsInOrder
<1>3. CASE LoseServer
  BY <1>3 DEF LoseServer, PacketsTyped, LobbyInv, SendsInOrder
<1>4. CASE AnswerDisconnect
  BY <1>4 DEF AnswerDisconnect, PacketsTyped, LobbyInv, SendsInOrder
<1> QED
  BY <1>1, <1>2, <1>3, <1>4

LEMMA PlayerOrder == ASSUME SafeInv, OrderInv, Player PROVE OrderInv'
<1> USE DEF OrderInv
<1>1. ASSUME NEW s \in Scenes, NEW what \in Transitions \cup {"say"}, Callback(s, what)
      PROVE  OrderInv'
  <2> USE <1>1 DEF Callback, clientVars, netVars, peerVars, compVars
  <2>1. LobbyInv'
    <3>1. what = "say" => handled # <<>>
      BY DEF Passes, Scenes
    <3> QED
      BY <3>1 DEF LobbyInv
  <2>2. calls' \in SUBSET Calls
    BY DEF Calls
  <2> QED
    BY <2>1, <2>2 DEF PacketsTyped, SendsInOrder
<1>2. ASSUME NEW c \in calls, Act(c)
      PROVE  OrderInv'
  <2> USE <1>2 DEF Act, netVars, peerVars
  <2>1. LobbyInv'
    BY DEF LobbyInv
  <2>2. CASE sending' = sending /\ said' = said
    BY <2>1, <2>2 DEF PacketsTyped, SendsInOrder
  <2>3. CASE said' = said + 1 /\ sending' = Append(sending, said')
    <3>1. PacketsTyped'
      BY <2>3 DEF PacketsTyped
    <3>2. SendsInOrder'
      <4>1. link' = link /\ out' = out /\ packets' = packets /\ going' = going
        OBVIOUS
      <4>2. SUFFICES ASSUME link = "up"
                     PROVE  out \o packets \o going \o Append(sending, said + 1) = Count(said + 1)
        BY <2>3, <4>1 DEF SendsInOrder
      <4>3. out \o packets \o going \o sending = Count(said)
        BY <4>2 DEF SendsInOrder
      <4>4. out \o packets \o going \o Append(sending, said + 1)
              = Append(out \o packets \o going \o sending, said + 1)
        BY SayKeeps
      <4> QED
        BY <4>3, <4>4, CountNext DEF PacketsTyped
    <3> QED
      BY <2>1, <3>1, <3>2
  <2> QED
    BY <2>2, <2>3
<1> QED
  BY <1>1, <1>2 DEF Player

LEMMA DisconnectOrder ==
  ASSUME SafeInv, OrderInv, NEW t \in Threads, Disconnect(t),
         component = "live",
         UNCHANGED <<sceneVars, calls, component, kill, compVars>>
  PROVE  OrderInv'
<1> USE DEF Disconnect, netVars, peerVars, compVars, sceneVars, OrderInv
<1>1. pc \in [Threads -> Labels] /\ pc[t] # "emplace"
  BY DEF SafeInv, StackInv, BeginDisconnect, Join, Release, DestroyQueuedPackets,
         DestroyQueuedEvents
<1>2. pc[t] = "destroyPackets" => link # "up"
  BY DEF SafeInv, ThreadInv, Joined
<1>3. \A u \in Threads : u # t => pc'[u] = pc[u]
  BY <1>1 DEF BeginDisconnect, Join, Release, DestroyQueuedPackets,
              DestroyQueuedEvents, GoTo
<1>4. (component' = "live" /\ pc'["consumer"] = "emplace") \/ going' = <<>>
  BY <1>1, <1>3 DEF Threads
<1>5. /\ packets' \in {packets, <<>>} /\ events' \in {events, <<>>}
      /\ packets' = packets \/ link # "up"
  BY <1>2 DEF BeginDisconnect, Join, Release, DestroyQueuedPackets, DestroyQueuedEvents
<1>6. LobbyInv'
  BY <1>5, QueueEmpty DEF LobbyInv
<1>7. PacketsTyped'
  <2>1. packets' \in Seq(Nat)
    <3>1. CASE packets' = packets
      BY <3>1 DEF PacketsTyped
    <3>2. CASE packets' = <<>>
      BY <3>2
    <3> QED
      BY <1>5, <3>1, <3>2
  <2>2. /\ out' = out /\ going' = going /\ sending' = sending /\ said' = said
    OBVIOUS
  <2> QED
    BY <2>1, <2>2 DEF PacketsTyped
<1>8. SendsInOrder'
  BY <1>5 DEF SendsInOrder
<1> QED
  BY <1>4, <1>6, <1>7, <1>8

LEMMA ConsumerOrder == ASSUME SafeInv, OrderInv, ConsumerStep PROVE OrderInv'
<1> USE DEF OrderInv
<1>1. CASE /\ component = "live" /\ Disconnect("consumer")
           /\ UNCHANGED <<sceneVars, calls, component, kill, compVars>>
  BY <1>1, DisconnectOrder DEF Threads
<1>2. CASE /\ \/ CheckLoop \/ TakeEvents \/ HandleEvent \/ EndOfEvents
              \/ SendFrontOfQueue \/ Emplace \/ Sleep \/ RunOnFreed
           /\ UNCHANGED <<thread, exiting, netVars, peerVars, sceneVars, calls,
                          component, kill>>
  <2> USE <1>2 DEF sceneVars, compVars, netVars, peerVars, Consumer
  <2>0. pc \in [Threads -> Labels] /\ "consumer" \in Threads
    BY DEF SafeInv, StackInv, Threads
  <2>1. CASE CheckLoop \/ EndOfEvents \/ Sleep \/ RunOnFreed
    BY <2>0, <2>1 DEF CheckLoop, EndOfEvents, Sleep, RunOnFreed, GoTo, PacketsTyped, LobbyInv, SendsInOrder
  <2>2. CASE TakeEvents
    BY <2>0, <2>2, QueueEmpty DEF TakeEvents, GoTo, PacketsTyped, LobbyInv, SendsInOrder
  <2>3. CASE HandleEvent
    <3>1. /\ Lacks(copy, "RECEIVE") =>
               Lacks(Tail(copy), "RECEIVE") /\ Head(copy).type # "RECEIVE"
      BY <2>3, QueueTail DEF HandleEvent, SafeInv, NoticeInv
    <3>2. LobbyInv'
      BY <2>3, <3>1 DEF HandleEvent, LobbyInv
    <3> QED
      BY <2>3, <3>2 DEF HandleEvent, PacketsTyped, SendsInOrder
  <2>4. CASE SendFrontOfQueue
    <3>1. going = <<>> /\ Head(sending) \in Nat /\ Tail(sending) \in Seq(Nat)
      BY <2>4, HeadAndTail DEF SendFrontOfQueue, PacketsTyped
    <3>2. LobbyInv'
      BY <2>4, <3>1 DEF SendFrontOfQueue, LobbyInv
    <3>3. CASE thread # "null"
      <4>0. pc'["consumer"] = "emplace"
        BY <2>0, <2>4, <3>3 DEF SendFrontOfQueue, GoTo
      <4>1. PacketsTyped'
        <5>1. sending' = Tail(sending) /\ going' = <<Head(sending)>>
          BY <2>4, <3>3 DEF SendFrontOfQueue
        <5>2. going' \in Seq(Nat) /\ sending' \in Seq(Nat)
          BY <3>1, <5>1
        <5> QED
          BY <2>4, <5>2 DEF SendFrontOfQueue, PacketsTyped
      <4>2. out \o packets \o <<Head(sending)>> \o Tail(sending)
              = out \o packets \o going \o sending
        <5>1. out \in Seq(Nat) /\ packets \in Seq(Nat) /\ sending \in Seq(Nat)
          BY DEF PacketsTyped
        <5>2. sending # <<>>
          BY <2>4 DEF SendFrontOfQueue
        <5>3. out \o packets \o <<Head(sending)>> \o Tail(sending)
                = out \o packets \o <<>> \o sending
          BY <5>1, <5>2, Popped
        <5> QED
          BY <3>1, <5>3
      <4>3. SendsInOrder'
        BY <2>4, <3>3, <4>2 DEF SendFrontOfQueue, SendsInOrder
      <4> QED
        BY <2>4, <3>2, <4>0, <4>1, <4>3 DEF SendFrontOfQueue
    <3>4. CASE thread = "null"
      <4>1. link # "up"
        BY <2>4, <3>4 DEF SendFrontOfQueue, SafeInv, ThreadInv
      <4> QED
        BY <2>4, <3>1, <3>2, <3>4, <4>1 DEF SendFrontOfQueue, PacketsTyped, SendsInOrder
    <3> QED
      BY <3>3, <3>4
  <2>5. CASE Emplace
    <3>1. PacketsTyped'
      BY <2>5, ConcatTyped DEF Emplace, PacketsTyped
    <3>2. out \o (packets \o going) \o <<>> \o sending = out \o packets \o going \o sending
      BY EmplaceKeeps
    <3>3. SendsInOrder'
      BY <2>5, <3>2 DEF Emplace, SendsInOrder
    <3>4. LobbyInv'
      BY <2>5, NilNil DEF Emplace, LobbyInv
    <3> QED
      BY <2>5, <3>1, <3>3, <3>4 DEF Emplace
  <2> QED
    BY <2>1, <2>2, <2>3, <2>4, <2>5
<1> QED
  BY <1>1, <1>2 DEF ConsumerStep

LEMMA MainOrder == ASSUME SafeInv, OrderInv, MainStep PROVE OrderInv'
<1> USE DEF OrderInv, compVars, sceneVars, peerVars, netVars
<1>0. pc \in [Threads -> Labels] /\ "main" \in Threads /\ "consumer" \in Threads
  BY DEF SafeInv, StackInv, Threads
<1>1. CASE Disconnect("main") /\ UNCHANGED <<sceneVars, calls, component, kill, compVars>>
  <2>1. pc["main"] \in Calling
    BY <1>1 DEF Disconnect, BeginDisconnect, Join, Release, DestroyQueuedPackets,
                DestroyQueuedEvents, Calling
  <2>2. component = "live"
    BY <2>1 DEF SafeInv, StackInv, Leaving
  <2> QED
    BY <1>0, <1>1, <2>2, DisconnectOrder
<1>2. CASE DestroyGame
  <2>1. net = "done"
    BY <1>2 DEF DestroyGame, Main, SafeInv, ThreadInv, Joined, Threads
  <2>2. calls' \in SUBSET Calls /\ \A c \in calls' : \E d \in calls : c.does = d.does
    BY <1>2, MovedCalls DEF DestroyGame
  <2>3. LobbyInv'
    BY <1>2, <2>2, QueueEmpty DEF DestroyGame, LobbyInv
  <2> QED
    BY <1>2, <2>1, <2>2, <2>3 DEF DestroyGame, PacketsTyped, SendsInOrder
<1>3. CASE /\ \/ RemoveScenes \/ ExitGame \/ UpdateNothing
              \/ MenuToConnect \/ MenuToExit \/ ConnectToGame \/ LeaveGame
              \/ RemoveTwoScenes \/ ClearNextScene
           /\ UNCHANGED <<closing, overdue, events, copy, dropped, packets, peerVars,
                          calls, compVars>>
  <2>1. CASE ConnectToGame
    <3>1. going = <<>>
      BY <2>1 DEF ConnectToGame
    <3> QED
      BY <1>3, <2>1, <3>1 DEF ConnectToGame, Connect, PacketsTyped, LobbyInv, SendsInOrder
  <2>2. CASE ~ConnectToGame
    <3>1. net' = net /\ component' = component /\ pc'["consumer"] = pc["consumer"]
      BY <1>0, <1>3, <2>2 DEF RemoveScenes, ExitGame, UpdateNothing, MenuToConnect,
         MenuToExit, LeaveGame, RemoveTwoScenes, ClearNextScene, ClearLater, GoTo, Serves, Updates
    <3> QED
      BY <1>3, <3>1 DEF PacketsTyped, LobbyInv, SendsInOrder
  <2> QED
    BY <2>1, <2>2
<1> QED
  BY <1>1, <1>2, <1>3 DEF MainStep

LEMMA StutterOrder == ASSUME OrderInv, UNCHANGED vars PROVE OrderInv'
BY DEF vars, clientVars, sceneVars, compVars, netVars, peerVars,
       OrderInv, PacketsTyped, LobbyInv, SendsInOrder

(* OrderInv holds: a packet is in one queue at a time, and in its place.      *)
THEOREM OrderHolds == Spec => []OrderInv
<1>1. Init => OrderInv
  BY InitOrder
<1>2. SafeInv /\ OrderInv /\ [Next]_vars => OrderInv'
  BY NetworkOrder, ClockOrder, WorldOrder, PlayerOrder, ConsumerOrder, MainOrder,
     StutterOrder DEF Next
<1> QED
  BY <1>1, <1>2, Safe, PTL DEF Spec

(* While the connection is up, every packet the player queued is on its way,  *)
(* once and in order, whatever the network thread and the consumer do with it.*)
THEOREM SendsArrive == Spec => []SendsInOrder
<1>1. OrderInv => SendsInOrder
  BY DEF OrderInv
<1> QED
  BY <1>1, OrderHolds, PTL

-----------------------------------------------------------------------------
(* The way of a message: what Data makes of the queues of events. *)

\* What one event contributes to the messages.
Part(e) == IF e.type = "RECEIVE" THEN <<e.data>> ELSE <<>>
PartsOf(q) == [i \in DOMAIN q |-> Part(q[i])]

LEMMA PartTyped ==
  ASSUME NEW e \in Events
  PROVE  Part(e) \in Seq(Nat)
<1>1. e.data \in Nat
  BY ServedAssumption DEF Events
<1>2. <<e.data>> \in Seq(Nat) /\ <<>> \in Seq(Nat)
  BY <1>1
<1> QED
  BY <1>2 DEF Part

LEMMA DataShape ==
  ASSUME NEW q \in Seq(Events)
  PROVE  /\ Data(q) = FlattenSeq(PartsOf(q))
         /\ PartsOf(q) \in Seq(Seq(Nat)) /\ Len(PartsOf(q)) = Len(q)
         /\ \A i \in 1..Len(q) : PartsOf(q)[i] = Part(q[i])
<1>1. \A i \in 1..Len(q) : Part(q[i]) \in Seq(Nat)
  BY PartTyped
<1>2. /\ PartsOf(q) \in [1..Len(q) -> Seq(Nat)]
      /\ \A i \in 1..Len(q) : PartsOf(q)[i] = Part(q[i])
  BY <1>1 DEF PartsOf
<1>3. Len(q) \in Nat
  OBVIOUS
<1>4. Data(q) = FlattenSeq(PartsOf(q))
  BY DEF Data, PartsOf, Part
<1> QED
  BY <1>2, <1>3, <1>4

LEMMA DataTyped ==
  ASSUME NEW q \in Seq(Events)
  PROVE  Data(q) \in Seq(Nat)
BY DataShape, FlattenType

LEMMA DataEmpty == Data(<<>>) = <<>>
<1>1. [i \in DOMAIN <<>> |-> IF <<>>[i].type = "RECEIVE" THEN <<<<>>[i].data>> ELSE <<>>] = <<>>
  OBVIOUS
<1> QED
  BY <1>1, FlattenEmpty DEF Data

LEMMA DataAppend ==
  ASSUME NEW q \in Seq(Events), NEW e \in Events
  PROVE  Data(Append(q, e)) = Data(q) \o Part(e)
<1> DEFINE r == Append(q, e)
           a == PartsOf(q)
           b == PartsOf(r)
<1>1. /\ r \in Seq(Events) /\ Len(r) = Len(q) + 1 /\ Len(q) \in Nat
      /\ \A i \in 1..Len(q) : r[i] = q[i]
      /\ r[Len(q) + 1] = e
  OBVIOUS
<1>2. Part(e) \in Seq(Nat)
  BY PartTyped
<1>3. /\ Data(q) = FlattenSeq(a) /\ a \in Seq(Seq(Nat)) /\ Len(a) = Len(q)
      /\ \A i \in 1..Len(q) : a[i] = Part(q[i])
  BY DataShape
<1> HIDE DEF r
<1>4. /\ Data(r) = FlattenSeq(b) /\ b \in Seq(Seq(Nat)) /\ Len(b) = Len(r)
      /\ \A i \in 1..Len(r) : b[i] = Part(r[i])
  BY <1>1, DataShape
<1> HIDE DEF a, b
<1>5. b = Append(a, Part(e))
  <2> DEFINE c == Append(a, Part(e))
  <2>1. /\ c \in Seq(Seq(Nat)) /\ Len(c) = Len(a) + 1
        /\ \A i \in 1..Len(a) : c[i] = a[i]
        /\ c[Len(a) + 1] = Part(e)
    BY <1>2, <1>3, AppendProperties
  <2> HIDE DEF c
  <2>2. ASSUME NEW i \in 1..Len(q) + 1 PROVE b[i] = c[i]
    <3>1. CASE i \in 1..Len(q)
      BY <1>1, <1>3, <1>4, <2>1, <3>1
    <3>2. CASE i = Len(q) + 1
      BY <1>1, <1>3, <1>4, <2>1, <3>2
    <3> QED
      BY <1>1, <3>1, <3>2
  <2>3. b = c
    BY <1>1, <1>3, <1>4, <2>1, <2>2, SeqEqual
  <2> QED
    BY <2>3 DEF c
<1>6. FlattenSeq(Append(a, Part(e))) = FlattenSeq(a) \o Part(e)
  BY <1>2, <1>3, FlattenAppend
<1> QED
  BY <1>3, <1>4, <1>5, <1>6 DEF r

LEMMA DataFirst ==
  ASSUME NEW q \in Seq(Events), q # <<>>
  PROVE  Data(q) = Part(Head(q)) \o Data(Tail(q))
<1> DEFINE r == Tail(q)
           a == PartsOf(q)
           b == PartsOf(r)
<1>1. /\ r \in Seq(Events) /\ Len(r) = Len(q) - 1 /\ Len(q) \in Nat \ {0}
      /\ \A i \in 1..Len(q) - 1 : r[i] = q[i + 1]
      /\ Head(q) = q[1]
  OBVIOUS
<1> HIDE DEF r
<1>2. /\ Data(q) = FlattenSeq(a) /\ a \in Seq(Seq(Nat)) /\ Len(a) = Len(q)
      /\ \A i \in 1..Len(q) : a[i] = Part(q[i])
  BY DataShape
<1>3. /\ Data(r) = FlattenSeq(b) /\ b \in Seq(Seq(Nat)) /\ Len(b) = Len(r)
      /\ \A i \in 1..Len(r) : b[i] = Part(r[i])
  BY <1>1, DataShape
<1> HIDE DEF a, b
<1>4. a # <<>> /\ Head(a) = Part(Head(q))
  BY <1>1, <1>2
<1>5. Tail(a) = b
  <2> DEFINE c == Tail(a)
  <2>1. c \in Seq(Seq(Nat)) /\ Len(c) = Len(a) - 1 /\ \A i \in 1..Len(a) - 1 : c[i] = a[i + 1]
    BY <1>2, <1>4
  <2> HIDE DEF c
  <2>2. ASSUME NEW i \in 1..Len(q) - 1 PROVE b[i] = c[i]
    <3>1. i + 1 \in 1..Len(q)
      BY <1>1
    <3> QED
      BY <1>1, <1>2, <1>3, <2>1, <3>1
  <2>3. b = c
    BY <1>1, <1>2, <1>3, <2>1, <2>2, SeqEqual
  <2> QED
    BY <2>3 DEF c
<1>6. FlattenSeq(a) = Head(a) \o FlattenSeq(Tail(a))
  BY <1>2, <1>4, FlattenCons
<1> QED
  BY <1>2, <1>3, <1>4, <1>5, <1>6 DEF r

LEMMA DataLacking ==
  ASSUME NEW q \in Seq(Events), Lacks(q, "RECEIVE")
  PROVE  Data(q) = <<>>
<1>1. \A i \in 1..Len(q) : q[i].type # "RECEIVE"
  BY DEF Lacks
<1>2. \A i \in 1..Len(q) : Part(q[i]) = <<>>
  BY <1>1 DEF Part
<1>3. /\ PartsOf(q) \in Seq(Seq(Nat)) /\ Data(q) = FlattenSeq(PartsOf(q))
      /\ \A i \in 1..Len(PartsOf(q)) : PartsOf(q)[i] = <<>>
  BY <1>2, DataShape
<1> QED
  BY <1>3, FlattenNothing

\* The beginning of the first n numbers is the first m numbers.
LEMMA CountPrefix ==
  ASSUME NEW a \in Seq(Nat), NEW b \in Seq(Nat), NEW n \in Nat, a \o b = Count(n)
  PROVE  a = Count(Len(a))
<1>1. /\ Len(a \o b) = Len(a) + Len(b) /\ Len(a) \in Nat /\ Len(b) \in Nat
      /\ \A i \in 1..Len(a) : (a \o b)[i] = a[i]
  OBVIOUS
<1>2. /\ Count(n) \in Seq(Nat) /\ Len(Count(n)) = n /\ \A i \in 1..n : Count(n)[i] = i
      /\ Count(Len(a)) \in Seq(Nat) /\ Len(Count(Len(a))) = Len(a)
      /\ \A i \in 1..Len(a) : Count(Len(a))[i] = i
  BY <1>1 DEF Count
<1>3. \A i \in 1..Len(a) : a[i] = Count(Len(a))[i]
  BY <1>1, <1>2
<1> QED
  BY <1>1, <1>2, <1>3, SeqEqual

-----------------------------------------------------------------------------
(* The way of a message *)

Taken  == handled \o Data(copy) \o Data(events)
Stream == Taken \o Data(wire)

NoticeLast(q) == \A i \in DOMAIN q : q[i].type = "DISCONNECT" => i = Len(q)

\* What is on its way is what the server sent, from the first message on; the
\* consumer empties its copy before it takes another; the notice of the end is
\* the last event, so that the network thread leaves nothing behind.
StreamInv ==
  /\ handled \in Seq(Nat)
  /\ component = "live" /\ pc["consumer"] # "handle" => copy = <<>>
  /\ net = "done" => wire = <<>>
  /\ NoticeLast(wire)
  /\ link \in {"idle", "connecting"} => served = 0
  /\ Stream = Count(Len(Stream))
  /\ link = "up" => Stream = Count(served)

LEMMA WaysTyped ==
  ASSUME NEW h \in Seq(Nat), NEW c \in Seq(Events), NEW e \in Seq(Events),
         NEW w \in Seq(Events)
  PROVE  /\ Data(c) \in Seq(Nat) /\ Data(e) \in Seq(Nat) /\ Data(w) \in Seq(Nat)
         /\ h \o Data(c) \in Seq(Nat)
         /\ h \o Data(c) \o Data(e) \in Seq(Nat)
         /\ h \o Data(c) \o Data(e) \o Data(w) \in Seq(Nat)
<1>1. Data(c) \in Seq(Nat) /\ Data(e) \in Seq(Nat) /\ Data(w) \in Seq(Nat)
  BY DataTyped
<1>2. h \o Data(c) \in Seq(Nat)
  BY <1>1, ConcatTyped
<1>3. h \o Data(c) \o Data(e) \in Seq(Nat)
  BY <1>1, <1>2, ConcatTyped
<1>4. h \o Data(c) \o Data(e) \o Data(w) \in Seq(Nat)
  BY <1>1, <1>3, ConcatTyped
<1> QED
  BY <1>1, <1>2, <1>3, <1>4

LEMMA NoticeLastTail ==
  ASSUME NEW q \in Seq(Events), q # <<>>, NoticeLast(q)
  PROVE  /\ NoticeLast(Tail(q))
         /\ Head(q).type = "DISCONNECT" => Tail(q) = <<>>
<1> DEFINE r == Tail(q)
<1>1. /\ r \in Seq(Events) /\ Len(r) = Len(q) - 1 /\ Len(q) \in Nat \ {0}
      /\ \A i \in 1..Len(q) - 1 : r[i] = q[i + 1]
      /\ Head(q) = q[1] /\ DOMAIN q = 1..Len(q) /\ DOMAIN r = 1..Len(r)
  OBVIOUS
<1> HIDE DEF r
<1>2. \A i \in 1..Len(q) : q[i].type = "DISCONNECT" => i = Len(q)
  BY <1>1 DEF NoticeLast
<1>3. ASSUME NEW i \in DOMAIN r, r[i].type = "DISCONNECT" PROVE i = Len(r)
  <2>1. i \in 1..Len(q) - 1 /\ i + 1 \in 1..Len(q) /\ q[i + 1].type = "DISCONNECT"
    BY <1>1, <1>3
  <2>2. i + 1 = Len(q)
    BY <1>2, <2>1
  <2> QED
    BY <1>1, <2>1, <2>2
<1>4. NoticeLast(r)
  BY <1>3 DEF NoticeLast
<1>5. Head(q).type = "DISCONNECT" => Len(r) = 0
  <2>1. 1 \in 1..Len(q)
    BY <1>1
  <2> QED
    BY <1>1, <1>2, <2>1
<1>6. Len(r) = 0 => r = <<>>
  BY <1>1, EmptySeq
<1> QED
  BY <1>4, <1>5, <1>6 DEF r

\* The network thread moves an event from ENet to _event_queue.
LEMMA EventMoves ==
  ASSUME NEW a \in Seq(Nat), NEW e \in Seq(Events), NEW w \in Seq(Events), w # <<>>
  PROVE  a \o Data(Append(e, Head(w))) \o Data(Tail(w)) = a \o Data(e) \o Data(w)
<1> DEFINE p == Part(Head(w))
           t == Data(Tail(w))
           d == Data(e)
<1>1. Head(w) \in Events /\ Tail(w) \in Seq(Events)
  BY QueueTail
<1>2. /\ Data(Append(e, Head(w))) = d \o p
      /\ Data(w) = p \o t
      /\ p \in Seq(Nat) /\ t \in Seq(Nat) /\ d \in Seq(Nat)
  BY <1>1, DataAppend, DataFirst, PartTyped, DataTyped
<1> HIDE DEF p, t, d
<1>3. a \o d \in Seq(Nat)
  BY <1>2, ConcatTyped
<1>4. a \o (d \o p) = (a \o d) \o p
  BY <1>2, Regrouped
<1>5. ((a \o d) \o p) \o t = (a \o d) \o (p \o t)
  BY <1>2, <1>3, Regrouped
<1> QED
  BY <1>2, <1>4, <1>5 DEF d, t

\* The consumer handles the first event of its copy.
LEMMA EventHandled ==
  ASSUME NEW h \in Seq(Nat), NEW c \in Seq(Events), c # <<>>
  PROVE  h \o Part(Head(c)) \o Data(Tail(c)) = h \o Data(c)
<1> DEFINE p == Part(Head(c))
           t == Data(Tail(c))
<1>1. Head(c) \in Events /\ Tail(c) \in Seq(Events)
  BY QueueTail
<1>2. Data(c) = p \o t /\ p \in Seq(Nat) /\ t \in Seq(Nat)
  BY <1>1, DataFirst, PartTyped, DataTyped
<1> HIDE DEF p, t
<1>3. h \o p \o t = h \o (p \o t)
  BY <1>2, Regrouped
<1> QED
  BY <1>2, <1>3 DEF p, t

LEMMA HandledTyped ==
  ASSUME NEW h \in Seq(Nat), NEW e \in Events
  PROVE  /\ (IF e.type = "RECEIVE" THEN Append(h, e.data) ELSE h) = h \o Part(e)
         /\ h \o Part(e) \in Seq(Nat)
<1>1. Part(e) \in Seq(Nat)
  BY PartTyped
<1>2. h \o Part(e) \in Seq(Nat)
  BY <1>1, ConcatTyped
<1>3. CASE e.type = "RECEIVE"
  <2>1. e.data \in Nat
    BY ServedAssumption DEF Events
  <2>2. Append(h, e.data) = h \o <<e.data>>
    BY <2>1, AppendIsConcat
  <2> QED
    BY <1>2, <1>3, <2>2 DEF Part
<1>4. CASE e.type # "RECEIVE"
  BY <1>2, <1>4, NilRight DEF Part
<1> QED
  BY <1>3, <1>4

\* What was taken is a beginning of what the server sent.
LEMMA TakenFirst ==
  ASSUME NoticeInv, StreamInv
  PROVE  /\ Taken = Count(Len(Taken))
         /\ handled \o Data(copy) = Count(Len(handled \o Data(copy)))
<1> DEFINE a == handled \o Data(copy)
           d == Data(events)
           w == Data(wire)
<1>1. /\ a \in Seq(Nat) /\ d \in Seq(Nat) /\ w \in Seq(Nat) /\ Taken \in Seq(Nat)
      /\ Stream \in Seq(Nat)
  BY WaysTyped DEF NoticeInv, StreamInv, Stream, Taken
<1>2. Taken = a \o d /\ Stream = Taken \o w
  BY DEF Stream, Taken
<1>3. Stream = Count(Len(Stream)) /\ Len(Stream) \in Nat
  BY <1>1 DEF StreamInv
<1> HIDE DEF a, d, w
<1>4. Taken = Count(Len(Taken)) /\ Len(Taken) \in Nat
  <2>1. Taken \o w = Count(Len(Stream)) /\ Len(Stream) \in Nat
    BY <1>2, <1>3
  <2>2. Taken \in Seq(Nat) /\ w \in Seq(Nat)
    BY <1>1
  <2>3. Taken = Count(Len(Taken))
    BY <2>1, <2>2, CountPrefix
  <2> QED
    BY <2>2, <2>3
<1>5. a = Count(Len(a))
  BY <1>1, <1>2, <1>4, CountPrefix
<1> QED
  BY <1>4, <1>5 DEF a

\* Nothing has been sent before the connection is up.
LEMMA StreamSilent ==
  ASSUME NoticeInv, LobbyInv, link \in {"idle", "connecting"}
  PROVE  Stream = <<>>
<1>1. Data(copy) = <<>> /\ Data(events) = <<>> /\ Data(wire) = <<>> /\ handled = <<>>
  BY DataLacking DEF NoticeInv, LobbyInv
<1> QED
  BY <1>1, NilNil DEF Stream, Taken

LEMMA StreamEmpty ==
  ASSUME handled = <<>>, copy = <<>>, events = <<>>, wire = <<>>
  PROVE  Stream = <<>>
BY DataEmpty, NilNil DEF Stream, Taken

LEMMA CountLength == ASSUME NEW n \in Nat PROVE Count(n) \in Seq(Nat) /\ Len(Count(n)) = n
BY DEF Count


-----------------------------------------------------------------------------
(* No step loses, doubles or swaps a message *)

LEMMA InitStream == Init => StreamInv
<1> SUFFICES ASSUME Init PROVE StreamInv
  OBVIOUS
<1>1. Stream = <<>>
  BY StreamEmpty DEF Init, ClientInit
<1>2. Stream = Count(0) /\ Len(Stream) = 0
  BY <1>1, CountZero
<1>3. /\ handled = <<>> /\ copy = <<>> /\ wire = <<>> /\ link = "idle" /\ served = 0
  BY DEF Init, ClientInit
<1> QED
  BY <1>2, <1>3 DEF StreamInv, NoticeLast

LEMMA NetworkStream ==
  ASSUME SafeInv, OrderInv, StreamInv, NoticeInv', LobbyInv', Network
  PROVE  StreamInv'
<1> USE DEF Network, NetStep, netVars, peerVars, compVars, sceneVars, SafeInv
<1>1. UNCHANGED <<pc, component, copy, handled, served>>
  BY DEF StartHost, CheckExit, SendQueuedPackets, CheckEvents, PeerDisconnect
<1>2. /\ handled \in Seq(Nat) /\ copy \in Seq(Events) /\ events \in Seq(Events)
      /\ wire \in Seq(Events) /\ NoticeLast(wire)
  BY DEF NoticeInv, StreamInv
<1>3. ASSUME wire' = wire, events' = events, net' = "done" => wire = <<>>,
             link' \in {link, "connecting"},
             link' = "connecting" => link \in {"idle", "connecting"}
      PROVE  StreamInv'
  BY <1>1, <1>3 DEF StreamInv, Stream, Taken
<1>4. ASSUME wire' = <<>>, events' = events, link' \notin {"idle", "connecting", "up"}
      PROVE  StreamInv'
  <2>1. Stream' = Taken
    <3>1. Stream' = Taken \o <<>> /\ Taken \in Seq(Nat)
      BY <1>1, <1>2, <1>4, DataEmpty, WaysTyped DEF Stream, Taken
    <3> QED
      BY <3>1, NilRight
  <2>2. NoticeLast(<<>>)
    BY DEF NoticeLast
  <2>3. Stream' = Count(Len(Stream'))
    BY <2>1, TakenFirst
  <2> QED
    BY <1>1, <1>4, <2>2, <2>3 DEF StreamInv
<1>5. CASE StartHost
  <2>1. net' = "done" => wire = <<>>
    BY <1>5 DEF StartHost, NoticeInv
  <2>2. link = "idle"
    BY <1>5 DEF StartHost, NoticeInv
  <2> QED
    BY <1>3, <1>5, <2>1, <2>2 DEF StartHost
<1>6. CASE SendQueuedPackets
  BY <1>3, <1>6 DEF SendQueuedPackets
<1>7. CASE CheckExit
  <2>1. CASE ~closing /\ net' = "poll" /\ PeerDisconnect
    <3>1. CASE link = "down"
      BY <1>3, <1>7, <2>1, <3>1 DEF CheckExit, PeerDisconnect
    <3>2. CASE link # "down"
      BY <1>4, <1>7, <2>1, <3>2 DEF CheckExit, PeerDisconnect
    <3> QED
      BY <3>1, <3>2
  <2>2. CASE net' = "poll" /\ UNCHANGED peerVars
    BY <1>3, <1>7, <2>2 DEF CheckExit
  <2>3. CASE net' = "done" /\ link' = "down" /\ wire' = <<>>
    BY <1>4, <1>7, <2>3 DEF CheckExit
  <2> QED
    BY <1>7, <2>1, <2>2, <2>3 DEF CheckExit
<1>8. CASE CheckEvents
  <2>1. CASE wire = <<>>
    BY <1>3, <1>8, <2>1 DEF CheckEvents
  <2>2. CASE wire # <<>>
    <3>1. /\ events' = Append(events, Head(wire)) /\ wire' = Tail(wire) /\ link' = link
          /\ net' = IF Head(wire).type = "DISCONNECT" THEN "done" ELSE "poll"
      BY <1>8, <2>2 DEF CheckEvents
    <3>2. Stream' = Stream
      <4>1. handled \o Data(copy) \in Seq(Nat)
        BY <1>2, WaysTyped
      <4>2. handled \o Data(copy) \o Data(Append(events, Head(wire))) \o Data(Tail(wire))
              = handled \o Data(copy) \o Data(events) \o Data(wire)
        BY <1>2, <2>2, <4>1, EventMoves
      <4> QED
        BY <1>1, <3>1, <4>2 DEF Stream, Taken
    <3>3. /\ NoticeLast(Tail(wire))
          /\ Head(wire).type = "DISCONNECT" => Tail(wire) = <<>>
      BY <1>2, <2>2, NoticeLastTail
    <3> QED
      BY <1>1, <3>1, <3>2, <3>3 DEF StreamInv
  <2> QED
    BY <2>1, <2>2
<1> QED
  BY <1>5, <1>6, <1>7, <1>8

LEMMA ClockStream == ASSUME StreamInv, Clock PROVE StreamInv'
BY DEF Clock, NetClock, TimePasses, peerVars, compVars, sceneVars, StreamInv, Stream, Taken

LEMMA WorldStream ==
  ASSUME SafeInv, OrderInv, StreamInv, World
  PROVE  StreamInv'
<1> USE DEF World, Peer, netVars, compVars, sceneVars, SafeInv
<1>1. UNCHANGED <<pc, component, copy, handled, events, net>>
  OBVIOUS
<1>2. /\ handled \in Seq(Nat) /\ copy \in Seq(Events) /\ events \in Seq(Events)
      /\ wire \in Seq(Events) /\ served \in Nat /\ 0 \in 0..MaxServed
      /\ Taken \in Seq(Nat) /\ Stream \in Seq(Nat)
      /\ served < MaxServed => served + 1 \in 0..MaxServed
  BY ServedAssumption, WaysTyped DEF NoticeInv, StreamInv, Taken, Stream
<1>3. net = "done" => link \in {"idle", "down"}
  BY DEF OrderInv
<1>4. ASSUME NEW e \in Events, NEW w \in Seq(Events),
             wire' = Append(w, e), NoNotice(w)
      PROVE  /\ NoticeLast(wire')
             /\ Stream' = (Taken \o Data(w)) \o Part(e)
  <2>1. \A i \in 1..Len(w) + 1 : Append(w, e)[i] = IF i <= Len(w) THEN w[i] ELSE e
    BY <1>4
  <2>2. /\ DOMAIN Append(w, e) = 1..Len(w) + 1 /\ DOMAIN w = 1..Len(w) /\ Len(w) \in Nat
        /\ Len(Append(w, e)) = Len(w) + 1
    BY <1>4
  <2>3. NoticeLast(Append(w, e))
    BY <1>4, <2>1, <2>2 DEF NoticeLast, NoNotice, Lacks
  <2>4. Data(Append(w, e)) = Data(w) \o Part(e)
    BY DataAppend
  <2>5. Taken \o (Data(w) \o Part(e)) = (Taken \o Data(w)) \o Part(e)
    <3>1. Data(w) \in Seq(Nat) /\ Part(e) \in Seq(Nat)
      BY DataTyped, PartTyped
    <3> QED
      BY <1>2, <3>1, Regrouped
  <2> QED
    BY <1>1, <1>4, <2>3, <2>4, <2>5 DEF Stream, Taken
<1>5. CASE Accept
  <2>1. Event("CONNECT", 0) \in Events /\ Event("CONNECT", 0).type = "CONNECT"
    BY <1>2, EventTyped
  <2>2. NoticeLast(wire') /\ Stream' = Stream \o Part(Event("CONNECT", 0))
    BY <1>2, <1>4, <1>5, <2>1 DEF Accept, NoticeInv, Stream
  <2>3. Stream' = <<>>
    <3>1. Stream = <<>> /\ Part(Event("CONNECT", 0)) = <<>>
      BY <1>5, <2>1, StreamSilent DEF Accept, Part, OrderInv
    <3> QED
      BY <2>2, <3>1, NilNil
  <2>4. Stream' = Count(Len(Stream')) /\ Stream' = Count(served')
    <3>1. served' = 0
      BY <1>5 DEF Accept, StreamInv
    <3> QED
      BY <2>3, <3>1, CountZero
  <2> QED
    BY <1>1, <1>3, <1>5, <2>2, <2>4 DEF Accept, StreamInv
<1>6. CASE Serve
  <2> DEFINE e == Event("RECEIVE", served + 1)
  <2>1. e \in Events /\ e.type = "RECEIVE" /\ e.data = served + 1
    BY <1>2, <1>6, EventTyped DEF Serve, Event
  <2> HIDE DEF e
  <2>2. wire' = Append(wire, e) /\ NoNotice(wire) /\ served' = served + 1 /\ link = "up"
        /\ link' = "up"
    BY <1>6 DEF Serve, NoticeInv, e
  <2>3. NoticeLast(wire') /\ Stream' = Stream \o Part(e)
    BY <1>2, <1>4, <2>1, <2>2 DEF Stream
  <2>4. Stream' = Count(served')
    <3>1. Part(e) = <<served + 1>> /\ served + 1 \in Nat
      BY <1>2, <2>1 DEF Part
    <3>2. Stream \o <<served + 1>> = Append(Stream, served + 1)
      BY <1>2, <3>1, AppendIsConcat
    <3>3. Stream = Count(served)
      BY <2>2 DEF StreamInv
    <3> QED
      BY <1>2, <2>2, <2>3, <3>1, <3>2, <3>3, CountNext
  <2>5. Len(Stream') = served'
    BY <1>2, <2>2, <2>4, CountLength
  <2> QED
    BY <1>1, <1>3, <2>2, <2>3, <2>4, <2>5 DEF StreamInv
<1>7. ASSUME NEW w \in {wire, <<>>}, wire' = Append(w, Event("DISCONNECT", 0)),
             link # "down", link # "idle", link' = "down"
      PROVE  StreamInv'
  <2>1. /\ Event("DISCONNECT", 0) \in Events /\ Event("DISCONNECT", 0).type = "DISCONNECT"
    BY <1>2, EventTyped
  <2>2. w \in Seq(Events) /\ NoNotice(w)
    <3>1. CASE w = wire
      BY <1>2, <1>7, <3>1 DEF NoticeInv
    <3>2. CASE w = <<>>
      BY <3>2, NoticeEmpty
    <3> QED
      BY <3>1, <3>2
  <2>3. NoticeLast(wire') /\ Stream' = (Taken \o Data(w)) \o Part(Event("DISCONNECT", 0))
    BY <1>4, <1>7, <2>1, <2>2
  <2>4. Stream' = Taken \o Data(w)
    <3>1. Part(Event("DISCONNECT", 0)) = <<>>
      BY <2>1 DEF Part
    <3>2. Taken \o Data(w) \in Seq(Nat)
      BY <1>2, <2>2, DataTyped, ConcatTyped
    <3> QED
      BY <2>3, <3>1, <3>2, NilRight
  <2>5. Stream' = Count(Len(Stream'))
    <3>1. CASE w = wire
      BY <2>4, <3>1 DEF Stream, StreamInv
    <3>2. CASE w = <<>>
      <4>1. Stream' = Taken
        BY <1>2, <2>4, <3>2, DataEmpty, NilRight
      <4> QED
        BY <4>1, TakenFirst
    <3> QED
      BY <3>1, <3>2
  <2> QED
    BY <1>1, <1>3, <1>7, <2>3, <2>5 DEF StreamInv
<1>8. CASE LoseServer
  <2>1. PICK arrived \in {wire, <<>>} : wire' = Append(arrived, Event("DISCONNECT", 0))
    BY <1>8 DEF LoseServer
  <2> QED
    BY <1>7, <1>8, <2>1 DEF LoseServer
<1>9. CASE AnswerDisconnect
  BY <1>7, <1>9 DEF AnswerDisconnect
<1> QED
  BY <1>5, <1>6, <1>8, <1>9

LEMMA PlayerStream == ASSUME StreamInv, Player PROVE StreamInv'
<1>1. UNCHANGED <<copy, handled, events, wire, served, link, net, component, pc>>
  BY DEF Player, Callback, Act, clientVars, netVars, peerVars, compVars
<1> QED
  BY <1>1 DEF StreamInv, Stream, Taken

LEMMA DisconnectStream ==
  ASSUME SafeInv, OrderInv, StreamInv, NEW t \in Threads, Disconnect(t),
         component = "live", pc[t] \in Calling,
         UNCHANGED <<sceneVars, calls, component, kill, compVars>>
  PROVE  StreamInv'
<1> USE DEF Disconnect, netVars, peerVars, compVars, sceneVars, SafeInv
<1>1. UNCHANGED <<copy, handled, wire, served, link, net, component>>
  OBVIOUS
<1>2. /\ handled \in Seq(Nat) /\ copy \in Seq(Events)
  BY DEF NoticeInv, StreamInv
<1>3. component = "live" /\ pc'["consumer"] # "handle" => copy = <<>>
  <2>1. CASE t = "consumer"
    BY <2>1 DEF StreamInv, Calling
  <2>2. CASE t = "main"
    BY <2>2 DEF StreamInv, StackInv, BeginDisconnect, Join, Release, DestroyQueuedPackets,
                DestroyQueuedEvents, GoTo, Threads
  <2> QED
    BY <2>1, <2>2 DEF Threads
<1>4. CASE events' = events
  BY <1>1, <1>3, <1>4 DEF StreamInv, Stream, Taken
<1>5. CASE DestroyQueuedEvents(t)
  <2>1. events' = <<>> /\ net = "done"
    BY <1>5 DEF DestroyQueuedEvents, ThreadInv, Joined
  <2>2. wire = <<>> /\ link # "up"
    BY <2>1 DEF OrderInv, StreamInv
  <2>3. Stream' = handled \o Data(copy)
    <3>1. Stream' = ((handled \o Data(copy)) \o <<>>) \o <<>>
      BY <1>1, <2>1, <2>2, DataEmpty DEF Stream, Taken
    <3>2. handled \o Data(copy) \in Seq(Nat)
      BY <1>2, DataTyped, ConcatTyped
    <3> QED
      BY <3>1, <3>2, NilRight
  <2>4. Stream' = Count(Len(Stream'))
    BY <2>3, TakenFirst
  <2> QED
    BY <1>1, <1>3, <2>2, <2>4 DEF StreamInv
<1> QED
  BY <1>4, <1>5 DEF BeginDisconnect, Join, Release, DestroyQueuedPackets

LEMMA ConsumerStream ==
  ASSUME SafeInv, OrderInv, StreamInv, ConsumerStep
  PROVE  StreamInv'
<1> USE DEF SafeInv
<1>1. CASE /\ component = "live" /\ Disconnect("consumer")
           /\ UNCHANGED <<sceneVars, calls, component, kill, compVars>>
  <2>1. pc["consumer"] \in Calling /\ "consumer" \in Threads
    BY <1>1 DEF Disconnect, BeginDisconnect, Join, Release, DestroyQueuedPackets,
                DestroyQueuedEvents, Calling, Threads
  <2> QED
    BY <1>1, <2>1, DisconnectStream
<1>2. CASE /\ \/ CheckLoop \/ TakeEvents \/ HandleEvent \/ EndOfEvents
              \/ SendFrontOfQueue \/ Emplace \/ Sleep \/ RunOnFreed
           /\ UNCHANGED <<thread, exiting, netVars, peerVars, sceneVars, calls,
                          component, kill>>
  <2> USE <1>2 DEF sceneVars, compVars, netVars, peerVars, Consumer
  <2>1. /\ pc \in [Threads -> Labels] /\ "consumer" \in Threads
        /\ UNCHANGED <<wire, served, link, net, component>>
    BY DEF StackInv, Threads
  <2>2. /\ handled \in Seq(Nat) /\ copy \in Seq(Events) /\ events \in Seq(Events)
    BY DEF NoticeInv, StreamInv
  <2>3. CASE CheckLoop \/ EndOfEvents \/ SendFrontOfQueue \/ Emplace \/ Sleep \/ RunOnFreed
    <3>1. UNCHANGED <<copy, handled, events>>
      BY <2>3 DEF CheckLoop, EndOfEvents, SendFrontOfQueue, Emplace, Sleep, RunOnFreed
    <3>2. component = "live" /\ pc'["consumer"] # "handle" => copy = <<>>
      BY <2>1, <2>3 DEF CheckLoop, EndOfEvents, SendFrontOfQueue, Emplace, Sleep,
                        RunOnFreed, StreamInv
    <3> QED
      BY <2>1, <3>1, <3>2 DEF StreamInv, Stream, Taken
  <2>4. CASE TakeEvents
    <3>1. /\ copy = <<>> /\ copy' = events /\ events' = <<>> /\ handled' = handled
          /\ pc'["consumer"] = "handle"
      BY <2>1, <2>4 DEF TakeEvents, GoTo, StreamInv
    <3>2. Stream' = Stream
      <4>1. (handled \o Data(events)) \o <<>> = (handled \o <<>>) \o Data(events)
        BY <2>2, DataTyped, ConcatTyped, NilRight
      <4> QED
        BY <2>1, <3>1, <4>1, DataEmpty DEF Stream, Taken
    <3> QED
      BY <2>1, <3>1, <3>2 DEF StreamInv
  <2>5. CASE HandleEvent
    <3>1. copy # <<>> /\ copy' = Tail(copy) /\ pc' = pc /\ events' = events
      BY <2>5 DEF HandleEvent
    <3>2. Head(copy) \in Events
      BY <2>2, <3>1, QueueTail
    <3>3. handled' = handled \o Part(Head(copy)) /\ handled' \in Seq(Nat)
      BY <2>2, <2>5, <3>2, HandledTyped DEF HandleEvent
    <3>4. handled' \o Data(Tail(copy)) = handled \o Data(copy)
      BY <2>2, <3>1, <3>3, EventHandled
    <3>5. Stream' = Stream
      BY <2>1, <3>1, <3>4 DEF Stream, Taken
    <3> QED
      BY <2>1, <2>5, <3>1, <3>3, <3>5 DEF StreamInv, HandleEvent
  <2> QED
    BY <2>3, <2>4, <2>5
<1> QED
  BY <1>1, <1>2 DEF ConsumerStep

LEMMA MainStream ==
  ASSUME SafeInv, OrderInv, StreamInv, MainStep
  PROVE  StreamInv'
<1> USE DEF SafeInv
<1>0. pc \in [Threads -> Labels] /\ "main" \in Threads /\ "consumer" \in Threads
  BY DEF StackInv, Threads
<1>1. CASE Disconnect("main") /\ UNCHANGED <<sceneVars, calls, component, kill, compVars>>
  <2>1. pc["main"] \in Calling
    BY <1>1 DEF Disconnect, BeginDisconnect, Join, Release, DestroyQueuedPackets,
                DestroyQueuedEvents, Calling
  <2>2. component = "live"
    BY <2>1 DEF StackInv, Leaving
  <2> QED
    BY <1>0, <1>1, <2>1, <2>2, DisconnectStream
<1>2. CASE DestroyGame
  <2>1. /\ copy' = <<>> /\ handled' = <<>> /\ events' = <<>> /\ served' = 0
        /\ wire' = wire /\ link' = link /\ net' = net
    BY <1>2 DEF DestroyGame, netVars
  <2>2. net = "done" /\ wire = <<>> /\ link # "up"
    BY <1>0, <1>2 DEF DestroyGame, Main, ThreadInv, Joined, StreamInv, OrderInv
  <2>3. Stream' = <<>>
    BY <2>1, <2>2, DataEmpty, NilNil DEF Stream, Taken
  <2>4. Stream' = Count(Len(Stream'))
    BY <2>3, CountZero
  <2>5. handled' \in Seq(Nat)
    BY <2>1
  <2> QED
    BY <2>1, <2>2, <2>4, <2>5 DEF StreamInv
<1>3. CASE /\ \/ RemoveScenes \/ ExitGame \/ UpdateNothing
              \/ MenuToConnect \/ MenuToExit \/ ConnectToGame \/ LeaveGame
              \/ RemoveTwoScenes \/ ClearNextScene
           /\ UNCHANGED <<closing, overdue, events, copy, dropped, packets, peerVars,
                          calls, compVars>>
  <2>1. UNCHANGED <<copy, handled, events, wire, served, link>>
    BY <1>3 DEF peerVars, compVars
  <2>2. CASE ConnectToGame
    <3>1. copy = <<>> /\ net' = "start"
      BY <2>2 DEF ConnectToGame, Connect, ThreadInv, NoticeInv
    <3> QED
      BY <2>1, <3>1 DEF StreamInv, Stream, Taken
  <2>3. CASE ~ConnectToGame
    <3>1. net' = net /\ component' = component /\ pc'["consumer"] = pc["consumer"]
      BY <1>0, <1>3, <2>3 DEF RemoveScenes, ExitGame, UpdateNothing, MenuToConnect,
         MenuToExit, LeaveGame, RemoveTwoScenes, ClearNextScene, ClearLater, GoTo, Serves, Updates
    <3> QED
      BY <2>1, <3>1 DEF StreamInv, Stream, Taken
  <2> QED
    BY <2>2, <2>3
<1> QED
  BY <1>1, <1>2, <1>3 DEF MainStep

LEMMA StutterStream == ASSUME StreamInv, UNCHANGED vars PROVE StreamInv'
BY DEF vars, clientVars, compVars, netVars, peerVars, StreamInv, Stream, Taken

(* StreamInv holds: a message is in one place at a time, and in its turn.     *)
THEOREM StreamHolds == Spec => []StreamInv
<1>1. Init => StreamInv
  BY InitStream
<1>2. /\ SafeInv /\ SafeInv' /\ OrderInv /\ OrderInv' /\ StreamInv /\ [Next]_vars
      => StreamInv'
  BY NetworkStream, ClockStream, WorldStream, PlayerStream, ConsumerStream, MainStream,
     StutterStream DEF Next, SafeInv, OrderInv
<1> QED
  BY <1>1, <1>2, Safe, OrderHolds, PTL DEF Spec

(* The consumer handles what the server sent, from the first message on,      *)
(* without gap, double or swap, and as long as the connection is up nothing   *)
(* is missing from what it has and what is on its way.                        *)
THEOREM ReceivesArrive == Spec => []ReceivesInOrder
<1>1. SafeInv /\ StreamInv => ReceivesInOrder
  BY TakenFirst DEF SafeInv, StreamInv, ReceivesInOrder, Taken, Stream
<1> QED
  BY <1>1, Safe, StreamHolds, PTL

-----------------------------------------------------------------------------
(* Types, and the bounds of the callbacks *)

MainLabels == {"frame", "clear", "disconnect", "join", "release", "destroyPackets",
               "destroyEvents", "leave", "destroy", "exited"}
ConsumerLabels == {"none", "check", "consume", "handle", "send", "emplace",
                   "disconnect", "join", "release", "destroyPackets",
                   "destroyEvents", "exited"}

PlacesTyped ==
  /\ pc["main"] \in MainLabels /\ pc["consumer"] \in ConsumerLabels
  /\ ret["main"] \in {"none", "leave", "destroy"} \cup Scenes
  /\ ret["consumer"] \in {"none", "send"}
  /\ exiting \in BOOLEAN /\ net \in {"none", "start", "loop", "poll", "done"}
  /\ closing \in BOOLEAN /\ overdue \in BOOLEAN /\ fault \in Faults

ScenesTyped ==
  /\ last \in {stack[i] : i \in DOMAIN stack} \cup {"none"}
  /\ switcher \in {"IDLE", "REMOVE_SCENE", "REMOVE_2_SCENES"}
  /\ next \in [Scenes -> Transitions]

QueuesTyped ==
  /\ packets \in Seq(1..MaxSaid) /\ out \in Seq(1..MaxSaid)
  /\ sending \in Seq(1..MaxSaid) /\ going \in Seq(1..MaxSaid)
  /\ handled \in Seq(0..MaxServed)

Saying(C) == {c \in C : c.does = "say"}

\* A callback that will queue a packet has its number already.
CallsBounded ==
  /\ IsFiniteSet(calls) /\ Cardinality(calls) <= MaxCalls
  /\ said \in Nat /\ said + Cardinality(Saying(calls)) <= MaxSaid

TypesInv == PlacesTyped /\ ScenesTyped /\ QueuesTyped /\ CallsBounded

LEMMA InitTypes == Init => TypesInv
<1> SUFFICES ASSUME Init PROVE TypesInv
  OBVIOUS
<1> USE DEF Init, ClientInit
<1>1. PlacesTyped
  BY DEF PlacesTyped, MainLabels, ConsumerLabels, Threads, Faults
<1>2. ScenesTyped
  BY DEF ScenesTyped, Transitions
<1>3. QueuesTyped
  BY DEF QueuesTyped
<1>4. Saying(calls) = {}
  BY DEF Saying
<1>5. CallsBounded
  <2>1. IsFiniteSet({}) /\ Cardinality({}) = 0
    BY FS_EmptySet
  <2>2. calls = {} /\ said = 0
    OBVIOUS
  <2>3. IsFiniteSet(calls) /\ Cardinality(calls) = 0 /\ Cardinality(Saying(calls)) = 0
    BY <1>4, <2>1, <2>2
  <2> QED
    BY <2>2, <2>3, AppAssumption DEF CallsBounded
<1> QED
  BY <1>1, <1>2, <1>3, <1>5 DEF TypesInv

LEMMA DisconnectPlaces ==
  ASSUME SafeInv, PlacesTyped, NEW t \in Threads, Disconnect(t), t = "main" => pc[t] \in Calling
  PROVE  PlacesTyped'
<1> USE DEF Disconnect, netVars, peerVars, PlacesTyped
<1>0. /\ pc \in [Threads -> Labels] /\ pc[t] \in Calling
      /\ t \in {"main", "consumer"} /\ DOMAIN pc = {"main", "consumer"}
  BY DEF SafeInv, StackInv, BeginDisconnect, Join, Release, DestroyQueuedPackets,
         DestroyQueuedEvents, Calling, Threads
<1>1. UNCHANGED <<ret, net, closing, overdue>> /\ exiting' \in BOOLEAN /\ fault' \in Faults
  BY DEF BeginDisconnect, Join, Release, DestroyQueuedPackets, DestroyQueuedEvents, Faults
<1>2. CASE t = "main"
  <2>1. /\ pc'["consumer"] = pc["consumer"]
        /\ pc'["main"] \in Calling \cup {ret["main"]} \cup {pc["main"]}
    BY <1>0, <1>2 DEF BeginDisconnect, Join, Release, DestroyQueuedPackets,
       DestroyQueuedEvents, GoTo, Calling
  <2>2. ret["main"] \in {"leave", "destroy"}
    BY <1>0, <1>2 DEF SafeInv, StackInv
  <2> QED
    BY <1>1, <2>1, <2>2 DEF MainLabels, Calling
<1>3. CASE t = "consumer"
  <2>1. /\ pc'["main"] = pc["main"]
        /\ pc'["consumer"] \in Calling \cup {ret["consumer"]} \cup {pc["consumer"]}
    BY <1>0, <1>3 DEF BeginDisconnect, Join, Release, DestroyQueuedPackets,
       DestroyQueuedEvents, GoTo, Calling
  <2> QED
    BY <1>1, <2>1 DEF ConsumerLabels, Calling
<1> QED
  BY <1>0, <1>2, <1>3

LEMMA PlacesStep ==
  ASSUME SafeInv, PlacesTyped, [Next]_vars
  PROVE  PlacesTyped'
<1> USE DEF netVars, peerVars, compVars, sceneVars
<1>0. pc \in [Threads -> Labels] /\ ret \in [Threads -> Labels \cup Scenes]
      /\ Threads = {"main", "consumer"}
  BY DEF SafeInv, StackInv, Threads
<1>1. CASE Network
  BY <1>1 DEF Network, NetStep, StartHost, CheckExit, SendQueuedPackets, CheckEvents, PlacesTyped
<1>2. CASE Clock
  BY <1>2 DEF Clock, NetClock, TimePasses, PlacesTyped
<1>3. CASE World
  BY <1>3 DEF World, Peer, PlacesTyped
<1>4. CASE Player
  BY <1>4 DEF Player, Callback, Act, clientVars, PlacesTyped, Faults
<1>5. CASE Disconnect("consumer")
  BY <1>0, <1>5, DisconnectPlaces
<1>6. CASE /\ \/ CheckLoop \/ TakeEvents \/ HandleEvent \/ EndOfEvents
              \/ SendFrontOfQueue \/ Emplace \/ Sleep \/ RunOnFreed
           /\ UNCHANGED <<thread, exiting, netVars, peerVars, sceneVars, calls,
                          component, kill>>
  <2>1. /\ pc'["main"] = pc["main"] /\ ret'["main"] = ret["main"]
        /\ pc'["consumer"] \in ConsumerLabels /\ ret'["consumer"] \in {"none", "send"}
        /\ fault' \in Faults
    BY <1>0, <1>6 DEF CheckLoop, TakeEvents, HandleEvent, EndOfEvents, SendFrontOfQueue,
       Emplace, Sleep, RunOnFreed, GoTo, ConsumerLabels, PlacesTyped, Faults
  <2> QED
    BY <1>6, <2>1 DEF PlacesTyped
<1>7. CASE Disconnect("main")
  <2>1. pc["main"] \in Calling
    BY <1>7 DEF Disconnect, BeginDisconnect, Join, Release, DestroyQueuedPackets,
                DestroyQueuedEvents, Calling
  <2> QED
    BY <1>0, <1>7, <2>1, DisconnectPlaces
<1>8. CASE DestroyGame
  BY <1>0, <1>8 DEF DestroyGame, GoTo, PlacesTyped, MainLabels, Faults
<1>9. CASE /\ \/ RemoveScenes \/ ExitGame \/ UpdateNothing
              \/ MenuToConnect \/ MenuToExit \/ ConnectToGame \/ LeaveGame
              \/ RemoveTwoScenes \/ ClearNextScene
           /\ UNCHANGED <<closing, overdue, events, copy, dropped, packets, peerVars,
                          calls, compVars>>
  <2>1. CASE ConnectToGame
    BY <1>0, <1>9, <2>1 DEF ConnectToGame, Connect, PlacesTyped, MainLabels, ConsumerLabels, Scenes
  <2>2. CASE ~ConnectToGame
    <3>1. /\ UNCHANGED <<exiting, net, fault>>
          /\ pc'["consumer"] = pc["consumer"] /\ ret'["consumer"] = ret["consumer"]
          /\ pc'["main"] \in {"disconnect", "exited", "clear", "frame", pc["main"]}
          /\ ret'["main"] \in {"destroy", "leave", ret["main"]} \cup Scenes
      BY <1>0, <1>9, <2>2 DEF RemoveScenes, ExitGame, UpdateNothing, MenuToConnect,
         MenuToExit, LeaveGame, RemoveTwoScenes, ClearNextScene, ClearLater, GoTo, Scenes
    <3> QED
      BY <1>9, <3>1 DEF PlacesTyped, MainLabels
  <2> QED
    BY <2>1, <2>2
<1>10. CASE UNCHANGED vars
  BY <1>10 DEF vars, clientVars, PlacesTyped
<1> QED
  BY <1>1, <1>2, <1>3, <1>4, <1>5, <1>6, <1>7, <1>8, <1>9, <1>10
     DEF Next, ConsumerStep, MainStep

LEMMA ScenesStep ==
  ASSUME SafeInv, OrderInv, ScenesTyped, [Next]_vars
  PROVE  ScenesTyped'
<1> USE DEF netVars, peerVars, compVars, sceneVars
<1>1. CASE UNCHANGED sceneVars
  BY <1>1 DEF ScenesTyped
<1>2. CASE \E c \in calls : Act(c)
  <2>1. PICK c \in calls : Act(c)
    BY <1>2
  <2>2. UNCHANGED <<stack, switcher, last>>
    BY <2>1 DEF Act
  <2>3. next' \in [Scenes -> Transitions]
    <3>1. next' = next \/ (Transition(c.scene, c.does) /\ c.does \in Transitions)
      BY <2>1 DEF Act
    <3> QED
      BY <3>1 DEF Transition, ScenesTyped
  <2> QED
    BY <2>2, <2>3 DEF ScenesTyped
<1>3. CASE DestroyGame
  BY <1>3 DEF DestroyGame, ScenesTyped
<1>4. CASE \/ RemoveScenes \/ ExitGame \/ UpdateNothing
           \/ MenuToConnect \/ MenuToExit \/ ConnectToGame \/ LeaveGame
           \/ RemoveTwoScenes \/ ClearNextScene
  <2>1. next' \in [Scenes -> Transitions]
    <3>1. "NONE" \in Transitions
      BY DEF Transitions
    <3>2. next' = next \/ \E s : next' = [next EXCEPT ![s] = "NONE"]
      BY <1>4, Zenon DEF RemoveScenes, ExitGame, UpdateNothing, MenuToConnect, MenuToExit,
         ConnectToGame, LeaveGame, RemoveTwoScenes, ClearNextScene, Transition
    <3> QED
      BY <3>1, <3>2 DEF ScenesTyped
  <2>2. switcher' \in {"IDLE", "REMOVE_SCENE", "REMOVE_2_SCENES"}
    BY <1>4 DEF RemoveScenes, ExitGame, UpdateNothing, MenuToConnect, MenuToExit,
         ConnectToGame, LeaveGame, RemoveTwoScenes, ClearNextScene, ScenesTyped
  <2>3. last' \in {stack'[i] : i \in DOMAIN stack'} \cup {"none"}
    <3>0. ASSUME NEW s, Shown(s) PROVE s \in {stack[i] : i \in DOMAIN stack}
      <4>1. stack \in Stacks
        BY DEF SafeInv, StackInv
      <4>2. Len(stack) \in DOMAIN stack
        BY <3>0, <4>1 DEF Shown, Stacks, Full
      <4> QED
        BY <3>0, <4>2 DEF Shown, Top
    <3>1. CASE last' = "none"
      BY <3>1
    <3>2. CASE UpdateNothing
      <4>1. Shown(Top) /\ last' = Top /\ stack' = stack
        BY <3>2 DEF UpdateNothing, Shown
      <4> QED
        BY <3>0, <4>1
    <3>3. CASE MenuToExit
      BY <3>0, <3>3 DEF MenuToExit, Serves
    <3>4. CASE last' = last /\ stack' = stack
      BY <3>4 DEF ScenesTyped
    <3> QED
      BY <1>4, <3>1, <3>2, <3>3, <3>4 DEF RemoveScenes, ExitGame, MenuToConnect,
         ConnectToGame, LeaveGame, RemoveTwoScenes, ClearNextScene
  <2> QED
    BY <2>1, <2>2, <2>3 DEF ScenesTyped
<1> QED
  BY <1>1, <1>2, <1>3, <1>4 DEF Next, Network, Clock, World, Player, Callback, ConsumerStep,
     MainStep, vars

LEMMA QueuesStep ==
  ASSUME SafeInv, OrderInv, QueuesTyped, CallsBounded, [Next]_vars
  PROVE  QueuesTyped'
<1> USE DEF netVars, peerVars, compVars
<1>1. CASE UNCHANGED <<packets, out, sending, going, handled>>
  BY <1>1 DEF QueuesTyped
<1>2. CASE SendQueuedPackets /\ UNCHANGED <<sending, going, handled>>
  <2>0. out \o packets \in Seq(1..MaxSaid)
    BY ConcatProperties DEF QueuesTyped
  <2>1. out' \in {out, out \o packets} /\ packets' = <<>>
    BY <1>2 DEF SendQueuedPackets
  <2>2. out' \in Seq(1..MaxSaid)
    BY <2>0, <2>1 DEF QueuesTyped
  <2>3. packets' \in Seq(1..MaxSaid)
    BY <2>1
  <2> QED
    BY <1>2, <2>2, <2>3 DEF QueuesTyped
<1>3. CASE \E c \in calls : Act(c)
  <2>1. PICK c \in calls : Act(c)
    BY <1>3
  <2>2. CASE sending' = sending
    BY <1>1, <2>1, <2>2 DEF Act
  <2>3. CASE c.does = "say" /\ said' = said + 1 /\ sending' = Append(sending, said')
    <3>1. c \in Saying(calls) /\ Saying(calls) \in SUBSET calls
      BY <2>3 DEF Saying
    <3>2. IsFiniteSet(Saying(calls)) /\ Cardinality(Saying(calls)) \in Nat
      BY <3>1, FS_Subset, FS_CardinalityType DEF CallsBounded
    <3>3. Cardinality(Saying(calls)) # 0
      BY <3>1, <3>2, FS_EmptySet
    <3>4. said' \in 1..MaxSaid
      BY <2>3, <3>2, <3>3, AppAssumption DEF CallsBounded
    <3>5. sending' \in Seq(1..MaxSaid)
      BY <2>3, <3>4 DEF QueuesTyped
    <3> QED
      BY <2>1, <3>5 DEF Act, QueuesTyped
  <2> QED
    BY <2>1, <2>2, <2>3 DEF Act
<1>4. CASE HandleEvent /\ UNCHANGED out
  <2>1. Head(copy) \in Events
    BY <1>4, QueueTail DEF HandleEvent, SafeInv, NoticeInv
  <2>2. handled' \in Seq(0..MaxServed)
    <3>1. Head(copy).data \in 0..MaxServed
      BY <2>1 DEF Events
    <3>2. Append(handled, Head(copy).data) \in Seq(0..MaxServed)
      BY <3>1, AppendProperties DEF QueuesTyped
    <3> QED
      BY <1>4, <3>2 DEF HandleEvent, QueuesTyped
  <2> QED
    BY <1>4, <2>2 DEF HandleEvent, QueuesTyped
<1>5. CASE SendFrontOfQueue /\ UNCHANGED <<out, packets, handled>>
  <2>1. sending # <<>> /\ sending' = Tail(sending) /\ (going' = going \/ going' = <<Head(sending)>>)
    BY <1>5 DEF SendFrontOfQueue
  <2>2. Tail(sending) \in Seq(1..MaxSaid) /\ Head(sending) \in 1..MaxSaid
    BY <2>1, HeadTailProperties DEF QueuesTyped
  <2>3. <<Head(sending)>> \in Seq(1..MaxSaid)
    BY <2>2
  <2> QED
    BY <1>5, <2>1, <2>2, <2>3 DEF QueuesTyped
<1>6. CASE Emplace /\ UNCHANGED <<out, sending, handled>>
  BY <1>6, ConcatProperties DEF Emplace, QueuesTyped
<1>7. CASE DestroyGame
  BY <1>7 DEF DestroyGame, QueuesTyped
<1>8. CASE packets' = <<>> /\ UNCHANGED <<out, sending, going, handled>>
  BY <1>8 DEF QueuesTyped
<1>10. CASE Network
  BY <1>1, <1>2, <1>10 DEF Network, NetStep, StartHost, CheckExit, PeerDisconnect,
     SendQueuedPackets, CheckEvents
<1>11. CASE Clock \/ World
  BY <1>1, <1>11 DEF Clock, NetClock, TimePasses, World, Peer, Accept, Serve, LoseServer,
     AnswerDisconnect
<1>12. CASE Player
  BY <1>1, <1>3, <1>12 DEF Player, Callback, clientVars
<1>13. ASSUME NEW t \in Threads, Disconnect(t), UNCHANGED compVars PROVE QueuesTyped'
  BY <1>1, <1>8, <1>13 DEF Disconnect, BeginDisconnect, Join, Release, DestroyQueuedPackets,
     DestroyQueuedEvents
<1>14. CASE ConsumerStep
  BY <1>1, <1>4, <1>5, <1>6, <1>13, <1>14 DEF ConsumerStep, CheckLoop, TakeEvents, HandleEvent,
     EndOfEvents, SendFrontOfQueue, Emplace, Sleep, RunOnFreed, Threads
<1>15. CASE MainStep
  BY <1>1, <1>7, <1>13, <1>15 DEF MainStep, Threads
<1>16. CASE UNCHANGED vars
  BY <1>1, <1>16 DEF vars, clientVars
<1> QED
  BY <1>10, <1>11, <1>12, <1>14, <1>15, <1>16 DEF Next

LEMMA SetGrows ==
  ASSUME NEW S, NEW x, IsFiniteSet(S)
  PROVE  /\ IsFiniteSet(S \cup {x}) /\ Cardinality(S \cup {x}) \in Nat
         /\ Cardinality(S \cup {x}) <= Cardinality(S) + 1
<1>1. Cardinality(S) \in Nat
  BY FS_CardinalityType
<1>2. /\ IsFiniteSet(S \cup {x})
      /\ Cardinality(S \cup {x}) = Cardinality(S) \/ Cardinality(S \cup {x}) = Cardinality(S) + 1
  BY FS_AddElement
<1> QED
  BY <1>1, <1>2

LEMMA SetShrinks ==
  ASSUME NEW S, NEW x, IsFiniteSet(S)
  PROVE  /\ IsFiniteSet(S \ {x}) /\ Cardinality(S \ {x}) \in Nat
         /\ Cardinality(S \ {x}) <= Cardinality(S)
         /\ x \in S => Cardinality(S \ {x}) = Cardinality(S) - 1
<1>1. Cardinality(S) \in Nat
  BY FS_CardinalityType
<1>2. /\ IsFiniteSet(S \ {x})
      /\ x \in S => Cardinality(S \ {x}) = Cardinality(S) - 1
      /\ x \notin S => Cardinality(S \ {x}) = Cardinality(S)
  BY FS_RemoveElement
<1>3. Cardinality(S \ {x}) \in Nat
  BY <1>2, FS_CardinalityType
<1> QED
  BY <1>1, <1>2, <1>3

LEMMA ImageBounded ==
  ASSUME NEW S, IsFiniteSet(S), NEW f, NEW T, T = {f[x] : x \in S}
  PROVE  /\ IsFiniteSet(T) /\ Cardinality(T) \in Nat
         /\ Cardinality(T) <= Cardinality(S)
<1> DEFINE g == [x \in S |-> f[x]]
<1>1. g \in Surjection(S, T)
  BY DEF Surjection
<1> HIDE DEF g
<1>2. IsFiniteSet(T) /\ Cardinality(T) <= Cardinality(S)
  BY <1>1, FS_Surjection
<1> QED
  BY <1>2, FS_CardinalityType

LEMMA CallsStep ==
  ASSUME SafeInv, OrderInv, CallsBounded, [Next]_vars
  PROVE  CallsBounded'
<1>0. /\ MaxSaid \in Nat /\ MaxCalls \in Nat
      /\ IsFiniteSet(calls) /\ Cardinality(calls) \in Nat
      /\ IsFiniteSet(Saying(calls)) /\ Cardinality(Saying(calls)) \in Nat
      /\ Cardinality(Saying(calls)) <= Cardinality(calls)
  <2>1. Saying(calls) \in SUBSET calls
    BY DEF Saying
  <2> QED
    BY <2>1, FS_Subset, FS_CardinalityType, AppAssumption DEF CallsBounded
<1>1. CASE UNCHANGED <<calls, said>>
  BY <1>1 DEF CallsBounded, Saying
<1>2. ASSUME NEW s \in Scenes, NEW what \in Transitions \cup {"say"}, Callback(s, what)
      PROVE  CallsBounded'
  <2> DEFINE c == [scene |-> s, does |-> what]
  <2>1. /\ Cardinality(calls) < MaxCalls /\ said' = said /\ calls' = calls \cup {c}
        /\ c.does = what
    BY <1>2 DEF Callback, compVars
  <2> HIDE DEF c
  <2>2. IsFiniteSet(calls') /\ Cardinality(calls') <= MaxCalls
    <3>1. /\ IsFiniteSet(calls') /\ Cardinality(calls') \in Nat
          /\ Cardinality(calls') <= Cardinality(calls) + 1
      BY <1>0, <2>1, SetGrows
    <3> QED
      BY <1>0, <2>1, <3>1
  <2>3. CASE what = "say"
    <3>1. said + Cardinality(calls) < MaxSaid
      BY <1>2, <2>3 DEF Callback, Passes, Scenes
    <3>2. Saying(calls') = Saying(calls) \cup {c}
      BY <2>1, <2>3 DEF Saying
    <3>3. /\ Cardinality(Saying(calls')) <= Cardinality(Saying(calls)) + 1
          /\ Cardinality(Saying(calls')) \in Nat
      BY <1>0, <3>2, SetGrows
    <3> QED
      BY <1>0, <2>1, <2>2, <3>1, <3>3 DEF CallsBounded
  <2>4. CASE what # "say"
    <3>1. Saying(calls') = Saying(calls)
      BY <2>1, <2>4 DEF Saying
    <3> QED
      BY <2>1, <2>2, <3>1 DEF CallsBounded
  <2> QED
    BY <2>3, <2>4
<1>3. ASSUME NEW c \in calls, Act(c) PROVE CallsBounded'
  <2>1. calls' = calls \ {c}
    BY <1>3 DEF Act
  <2>2. IsFiniteSet(calls') /\ Cardinality(calls') <= MaxCalls
    <3>1. /\ IsFiniteSet(calls') /\ Cardinality(calls') \in Nat
          /\ Cardinality(calls') <= Cardinality(calls)
      BY <1>0, <2>1, SetShrinks
    <3> QED
      BY <1>0, <3>1 DEF CallsBounded
  <2>3. Saying(calls') = Saying(calls) \ {c}
    BY <2>1 DEF Saying
  <2>4. /\ Cardinality(Saying(calls')) \in Nat
        /\ Cardinality(Saying(calls')) <= Cardinality(Saying(calls))
        /\ c \in Saying(calls)
             => Cardinality(Saying(calls')) = Cardinality(Saying(calls)) - 1
    BY <1>0, <2>3, SetShrinks
  <2>5. said' = said \/ (said' = said + 1 /\ c \in Saying(calls))
    BY <1>3 DEF Act, Saying
  <2> QED
    BY <1>0, <2>2, <2>4, <2>5 DEF CallsBounded
<1>4. CASE DestroyGame
  <2> DEFINE moved == [c \in calls |-> [c EXCEPT !.scene = IF @ = "menu" THEN @ ELSE "gone"]]
  <2>1. calls' = {moved[c] : c \in calls} /\ said' = 0
    BY <1>4 DEF DestroyGame
  <2>2. \A c \in calls : moved[c].does = c.does
    BY DEF OrderInv, Calls
  <2> HIDE DEF moved
  <2>3. Saying(calls') = {moved[c] : c \in Saying(calls)}
    BY <2>1, <2>2 DEF Saying
  <2>4. IsFiniteSet(calls') /\ Cardinality(calls') <= Cardinality(calls)
        /\ Cardinality(calls') \in Nat
    BY <1>0, <2>1, ImageBounded
  <2>5. /\ Cardinality(Saying(calls')) <= Cardinality(Saying(calls))
        /\ Cardinality(Saying(calls')) \in Nat
    BY <1>0, <2>3, ImageBounded
  <2> QED
    BY <1>0, <2>1, <2>4, <2>5 DEF CallsBounded
<1>5. CASE UNCHANGED vars
  BY <1>1, <1>5 DEF vars, compVars
<1>6. CASE ConsumerStep
  BY <1>1, <1>6 DEF ConsumerStep, CheckLoop, TakeEvents, HandleEvent, EndOfEvents,
     SendFrontOfQueue, Emplace, Sleep, RunOnFreed, compVars
<1> QED
  BY <1>1, <1>2, <1>3, <1>4, <1>5, <1>6
     DEF Next, Network, Clock, World, Player, MainStep, compVars

(* Every variable keeps its type and stays in its bounds.                     *)
THEOREM TypeHolds == Spec => []TypeOK
<1>1. Init => TypesInv
  BY InitTypes
<1>2. SafeInv /\ OrderInv /\ TypesInv /\ [Next]_vars => TypesInv'
  BY PlacesStep, ScenesStep, QueuesStep, CallsStep DEF TypesInv
<1>3. SafeInv /\ OrderInv /\ StreamInv /\ TypesInv => TypeOK
  <2> SUFFICES ASSUME SafeInv, OrderInv, StreamInv, TypesInv PROVE TypeOK
    OBVIOUS
  <2> USE DEF SafeInv, TypesInv
  <2>1. stack \in Seq(Scenes)
    <3>1. <<>> \in Seq(Scenes)
      OBVIOUS
    <3>2. <<"menu">> \in Seq(Scenes) /\ <<"menu", "connect">> \in Seq(Scenes)
          /\ Full \in Seq(Scenes)
      BY DEF Full, Scenes
    <3> QED
      BY <3>1, <3>2 DEF StackInv, Stacks
  <2>2. handled \in Seq(1..MaxServed)
    <3>1. handled = Count(Len(handled)) /\ Len(handled) \in Nat
      <4> DEFINE a == handled \o Data(copy)
                 d == Data(copy)
      <4>1. /\ handled \in Seq(Nat) /\ d \in Seq(Nat) /\ a \in Seq(Nat) /\ a = handled \o d
            /\ a = Count(Len(a))
        BY WaysTyped, TakenFirst DEF StreamInv, NoticeInv
      <4> HIDE DEF a, d
      <4>2. handled \o d = Count(Len(a)) /\ Len(a) \in Nat
        BY <4>1
      <4>3. handled = Count(Len(handled))
        BY <4>1, <4>2, CountPrefix
      <4> QED
        BY <4>1, <4>3
    <3>2. \A i \in 1..Len(handled) : handled[i] \in 0..MaxServed /\ handled[i] = i
      <4>1. handled \in Seq(0..MaxServed)
        BY DEF QueuesTyped
      <4>2. \A i \in 1..Len(handled) : handled[i] \in 0..MaxServed
        BY <4>1, ElementOfSeq
      <4>3. \A i \in 1..Len(handled) : Count(Len(handled))[i] = i
        BY DEF Count
      <4> QED
        BY <3>1, <4>2, <4>3
    <3>3. \A i \in 1..Len(handled) : handled[i] \in 1..MaxServed
      BY <3>1, <3>2, ServedAssumption
    <3>4. \A T : \A n \in Nat : [1..n -> T] \subseteq Seq(T)
      OBVIOUS
    <3>5. handled \in [1..Len(handled) -> 1..MaxServed]
      BY <3>3 DEF StreamInv
    <3> QED
      BY <3>1, <3>4, <3>5
  <2>3. said \in 0..MaxSaid
    <3>1. Saying(calls) \in SUBSET calls
      BY DEF Saying
    <3>2. Cardinality(Saying(calls)) \in Nat
      BY <3>1, FS_Subset, FS_CardinalityType DEF CallsBounded
    <3> QED
      BY <3>2, AppAssumption DEF CallsBounded
  <2> QED
    BY <2>1, <2>2, <2>3 DEF TypeOK, PlacesTyped, ScenesTyped, QueuesTyped, CallsBounded,
       MainLabels, ConsumerLabels, StackInv, ThreadInv, NoticeInv
<1> QED
  BY <1>1, <1>2, <1>3, Safe, OrderHolds, StreamHolds, PTL DEF Spec

=============================================================================
