----------------------------- MODULE EnetClient -----------------------------
(***************************************************************************)
(* enetpp::client (Libs/enetpp/include/enetpp/client.h): the network       *)
(* thread of run_in_thread, and disconnect, consume_events and send_packet *)
(* which the main thread and the consumer thread call while it runs.       *)
(*                                                                         *)
(* A step is a section under one mutex, or one access to what the threads  *)
(* share without one: _should_exit_thread and the pointer _thread.         *)
(*                                                                         *)
(* The server's messages are 1, 2, ..., in the order in which it sends     *)
(* them, and so are the packets of this client.  wire, link, served and    *)
(* out belong to ENet and the server.                                      *)
(***************************************************************************)
EXTENDS Naturals, SequencesExt

CONSTANT MaxServed      \* bound: messages the server sends

ASSUME ServedAssumption == MaxServed \in Nat

VARIABLES
  pc,           \* where the main and the consumer thread are
  ret,          \* where each continues when its disconnect() returns
  thread,       \* _thread: "null", or its std::thread "joinable" or "joined"
  exiting,      \* _should_exit_thread
  net,          \* where run_in_thread is
  closing,      \* is_disconnecting, its local
  overdue,      \* enet_time_get() - disconnect_start_time > 1000
  events,       \* _event_queue
  copy,         \* _event_queue_copy
  dropped,      \* is_disconnected, local of consume_events
  packets,      \* _packet_queue
  fault,        \* how the program died, if it has
  wire,         \* events that ENet has for the host
  link,         \* the connection
  served,       \* messages the server has sent
  out           \* packets handed to ENet

netVars  == <<net, closing, overdue>>
peerVars == <<wire, link, served, out>>
clientVars == <<pc, ret, thread, exiting, netVars, events, copy, dropped,
                packets, fault, peerVars>>

Threads == {"main", "consumer"}
Links   == {"idle", "connecting", "up", "closing", "down"}
Faults  == {"none", "join", "send_packet", "~client", "freed"}

Event(type, data) == [type |-> type, data |-> data]
Events == [type : {"CONNECT", "RECEIVE", "DISCONNECT"}, data : 0..MaxServed]

\* The messages among the events es, in order.
Data(es) ==
  FlattenSeq([i \in DOMAIN es |->
                IF es[i].type = "RECEIVE" THEN <<es[i].data>> ELSE <<>>])

GoTo(t, l) == pc' = [pc EXCEPT ![t] = l]

ClientInit ==
  /\ thread = "null" /\ exiting = FALSE
  /\ net = "none" /\ closing = FALSE /\ overdue = FALSE
  /\ events = <<>> /\ copy = <<>> /\ dropped = FALSE /\ packets = <<>>
  /\ fault = "none"
  /\ wire = <<>> /\ link = "idle" /\ served = 0 /\ out = <<>>

\* connect(): starts the network thread.
Connect ==
  /\ exiting' = FALSE
  /\ thread' = "joinable"
  /\ net' = "start"

-----------------------------------------------------------------------------
(* The server and ENet *)

Accept ==
  /\ link = "connecting"
  /\ link' = "up"
  /\ wire' = Append(wire, Event("CONNECT", 0))
  /\ UNCHANGED <<served, out>>

Serve ==
  /\ link = "up"
  /\ served < MaxServed
  /\ served' = served + 1
  /\ wire' = Append(wire, Event("RECEIVE", served'))
  /\ UNCHANGED <<link, out>>

\* The server goes away, or the connection times out; what has arrived and is
\* not dispatched may go with it.
LoseServer ==
  /\ link \in {"connecting", "up"}
  /\ link' = "down"
  /\ \E arrived \in {wire, <<>>} :
       wire' = Append(arrived, Event("DISCONNECT", 0))
  /\ UNCHANGED <<served, out>>

\* The server's answer to enet_peer_disconnect.
AnswerDisconnect ==
  /\ link = "closing"
  /\ link' = "down"
  /\ wire' = Append(wire, Event("DISCONNECT", 0))
  /\ UNCHANGED <<served, out>>

Peer ==
  /\ Accept \/ Serve \/ LoseServer \/ AnswerDisconnect
  /\ UNCHANGED <<pc, ret, thread, exiting, netVars, events, copy, dropped,
                 packets, fault>>

\* enet_peer_disconnect forgets what has not been dispatched; a peer that is
\* not connected yet is reset and never answers.
PeerDisconnect ==
  /\ wire' = IF link = "down" THEN wire ELSE <<>>
  /\ link' = IF link = "up" THEN "closing" ELSE "down"
  /\ UNCHANGED <<served, out>>

-----------------------------------------------------------------------------
(* The network thread *)

StartHost ==
  /\ net = "start"
  /\ \/ net' = "loop" /\ link' = "connecting"
     \/ net' = "done" /\ UNCHANGED link   \* enet_host_create failed
  /\ UNCHANGED <<closing, overdue, events, packets, wire, served, out>>

\* enet_peer_send refuses unless the peer is connected; the packet is
\* destroyed either way.
SendQueuedPackets ==
  /\ net = "loop" /\ ~exiting
  /\ net' = "poll"
  /\ packets' = <<>>
  /\ out' = IF link = "up" THEN out \o packets ELSE out
  /\ UNCHANGED <<closing, overdue, events, wire, link, served>>

\* Mutant: the thread waits for the server's answer as long as it takes.
CheckExitNoTimeout ==
  /\ net = "loop" /\ exiting
  /\ closing' = TRUE /\ net' = "poll"
  /\ \/ ~closing /\ PeerDisconnect
     \/ closing /\ UNCHANGED peerVars
  /\ UNCHANGED <<overdue, events, packets>>

\* The round of the loop that begins when it has to exit: the first one
\* disconnects, one that finds the server too slow gives up.
CheckExit ==
  /\ net = "loop" /\ exiting
  /\ closing' = TRUE
  /\ \/ ~closing /\ net' = "poll" /\ PeerDisconnect
     \/ closing /\ ~overdue /\ net' = "poll" /\ UNCHANGED peerVars
     \/ /\ closing /\ overdue
        /\ net' = "done" /\ link' = "down" /\ wire' = <<>>
        /\ UNCHANGED <<served, out>>
  /\ UNCHANGED <<overdue, events, packets>>

TimePasses ==
  /\ closing /\ ~overdue /\ net # "done"
  /\ overdue' = TRUE
  /\ UNCHANGED <<net, closing, events, packets, peerVars>>

CheckEvents ==
  /\ net = "poll"
  /\ \/ /\ wire = <<>>
        /\ net' = "loop"
        /\ UNCHANGED <<events, wire>>
     \/ /\ wire # <<>>
        /\ events' = Append(events, Head(wire))
        /\ wire' = Tail(wire)
        /\ net' = IF Head(wire).type = "DISCONNECT" THEN "done" ELSE "poll"
  /\ UNCHANGED <<closing, overdue, packets, link, served, out>>

NetStep ==
  /\ StartHost \/ CheckExit \/ SendQueuedPackets \/ CheckEvents
  /\ UNCHANGED <<pc, ret, thread, exiting, copy, dropped, fault>>

NetClock ==
  /\ TimePasses
  /\ UNCHANGED <<pc, ret, thread, exiting, copy, dropped, fault>>

-----------------------------------------------------------------------------
(* disconnect(), by thread t *)

\* Mutant: disconnect() does not wait for the thread.
BeginDisconnectNoJoin(t) ==
  /\ pc[t] = "disconnect"
  /\ exiting' = TRUE /\ GoTo(t, "release")
  /\ UNCHANGED <<ret, thread, events, packets, fault>>

BeginDisconnect(t) ==
  /\ pc[t] = "disconnect"
  /\ IF thread # "null"
     THEN exiting' = TRUE /\ GoTo(t, "join")
     ELSE GoTo(t, "destroyPackets") /\ UNCHANGED exiting
  /\ UNCHANGED <<ret, thread, events, packets, fault>>

\* join(): waits for the network thread.  When another thread has joined it or
\* released the pointer since this one tested it, nothing in the code says
\* what happens: the join may fail or return.
Join(t) ==
  /\ pc[t] = "join"
  /\ \/ /\ thread = "joinable" /\ net = "done"
        /\ thread' = "joined" /\ GoTo(t, "release")
        /\ UNCHANGED fault
     \/ /\ thread = "joined"
        /\ GoTo(t, "release")
        /\ UNCHANGED <<thread, fault>>
     \/ /\ thread # "joinable"
        /\ fault' = "join"
        /\ UNCHANGED <<pc, thread>>
  /\ UNCHANGED <<ret, exiting, events, packets>>

Release(t) ==
  /\ pc[t] = "release"
  /\ thread' = "null"
  /\ GoTo(t, "destroyPackets")
  /\ UNCHANGED <<ret, exiting, events, packets, fault>>

DestroyQueuedPackets(t) ==
  /\ pc[t] = "destroyPackets"
  /\ packets' = <<>>
  /\ GoTo(t, "destroyEvents")
  /\ UNCHANGED <<ret, thread, exiting, events, fault>>

DestroyQueuedEvents(t) ==
  /\ pc[t] = "destroyEvents"
  /\ events' = <<>>
  /\ GoTo(t, ret[t])
  /\ UNCHANGED <<ret, thread, exiting, packets, fault>>

Disconnect(t) ==
  /\ \/ BeginDisconnect(t) \/ Join(t) \/ Release(t)
     \/ DestroyQueuedPackets(t) \/ DestroyQueuedEvents(t)
  /\ UNCHANGED <<netVars, copy, dropped, peerVars>>

\* The state that ~client asserts.
NothingLeft ==
  thread = "null" /\ packets = <<>> /\ events = <<>> /\ copy = <<>>

=============================================================================
