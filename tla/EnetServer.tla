------------------------------ MODULE EnetServer ------------------------------
(***************************************************************************)
(* enetpp::server (Libs/enetpp/include/enetpp/server.h) as the game server *)
(* configures it (Source/Server/ServerNetworking.cpp).  Two threads: the   *)
(* network thread owns the ENet host and the peer map; the application     *)
(* thread calls consume_events and stop_listening.  They share the event   *)
(* queue and the packet queue, each behind its mutex, and pass each other  *)
(* pointers to heap allocated client objects.                              *)
(*                                                                         *)
(* A client object is named by its uid.  eventQueue stands for             *)
(* _event_queue_copy followed by _event_queue: only the application pops   *)
(* the front and only the network thread appends.  wire[s] is what ENet    *)
(* holds for the peer in slot s.                                           *)
(***************************************************************************)
EXTENDS Naturals, Sequences, FiniteSets

CONSTANTS
    Slots,       \* the peers of the ENet host: MAX_CLIENT_COUNT of them
    MaxUid,      \* bound: connections accepted over one behaviour
    Msg,         \* packets
    NoMsg,       \* the packet field of connect and disconnect events
    NoClient,    \* e.peer->data == nullptr
    NoPeer,      \* the uid is not a key of _thread_peer_map
    MaxEvents,   \* bound: length of the event queue
    MaxPackets   \* bound: length of the packet queue and of each wire

Uids == 0 .. MaxUid - 1

ASSUME SlotsAssumption == IsFiniteSet(Slots) /\ NoPeer \notin Slots
ASSUME UidAssumption == MaxUid \in Nat /\ NoClient \notin Uids
ASSUME MsgAssumption == NoMsg \notin Msg
ASSUME BoundAssumption == MaxEvents \in Nat /\ MaxPackets \in Nat

VARIABLES
    phase,       \* progress of stop_listening
    nextUid,     \* next_uid, the copy that init_client_func increments
    peerState,   \* peer->state of each slot, which ENet owns
    peerData,    \* peer->data of each slot
    peerMap,     \* _thread_peer_map
    objects,     \* client objects that are allocated
    peerOf,      \* history: the slot a client object was made for
    eventQueue, packetQueue, connected, wire

netVars == <<nextUid, peerState, peerData, peerMap, peerOf>>
vars == <<phase, nextUid, peerState, peerData, peerMap, objects, peerOf,
          eventQueue, packetQueue, connected, wire>>

Phases == {"listening", "exiting", "exited", "stopped"}
Events == [type : {"connect", "receive", "disconnect"},
           client : Uids, msg : Msg \cup {NoMsg}]
Packets == [to : Uids, msg : Msg]

Event(type, c, m) == [type |-> type, client |-> c, msg |-> m]

Init ==
    /\ phase = "listening"
    /\ nextUid = 0
    /\ peerState = [s \in Slots |-> "free"]
    /\ peerData = [s \in Slots |-> NoClient]
    /\ peerMap = [u \in Uids |-> NoPeer]
    /\ objects = {}
    /\ peerOf = [u \in Uids |-> NoPeer]
    /\ eventQueue = <<>>
    /\ packetQueue = <<>>
    /\ connected = <<>>
    /\ wire = [s \in Slots |-> <<>>]

--------------------------------------------------------------------------------
(* The network thread.  It runs until it sees _should_exit_thread.          *)

NetRunning == phase \in {"listening", "exiting"}

(* handle_connect_event_in_thread on a free peer of the host. *)
CaptureConnect(s) ==
    /\ NetRunning
    /\ peerState[s] = "free"
    /\ nextUid < MaxUid
    /\ Len(eventQueue) < MaxEvents
    /\ peerState' = [peerState EXCEPT ![s] = "connected"]
    /\ nextUid' = nextUid + 1
    /\ peerData' = [peerData EXCEPT ![s] = nextUid]
    /\ peerMap' = [peerMap EXCEPT ![nextUid] = s]
    /\ objects' = objects \cup {nextUid}
    /\ peerOf' = [peerOf EXCEPT ![nextUid] = s]
    /\ eventQueue' = Append(eventQueue, Event("connect", nextUid, NoMsg))
    /\ UNCHANGED <<phase, packetQueue, connected, wire>>

(* handle_receive_event_in_thread: dropped when the peer has no client. *)
CaptureReceive(s, m) ==
    /\ NetRunning
    /\ peerState[s] = "connected"
    /\ peerData[s] # NoClient
    /\ Len(eventQueue) < MaxEvents
    /\ eventQueue' = Append(eventQueue, Event("receive", peerData[s], m))
    /\ UNCHANGED <<phase, netVars, objects, packetQueue, connected, wire>>

(* ENet gives up a peer, or its client says goodbye: its queues are reset   *)
(* and it stays a zombie until the event is captured (external).            *)
PeerLost(s) ==
    /\ NetRunning
    /\ peerState[s] = "connected"
    /\ peerState' = [peerState EXCEPT ![s] = "zombie"]
    /\ wire' = [wire EXCEPT ![s] = <<>>]
    /\ UNCHANGED <<phase, nextUid, peerData, peerMap, peerOf, objects,
                   eventQueue, packetQueue, connected>>

(* Mutants of the next action.  The object is deleted by the network thread *)
(* as soon as it notices the disconnect; the peer keeps its client; the      *)
(* client is read from the peer after it has been cleared.                   *)
CaptureDisconnectDeletes(s) ==
    /\ NetRunning /\ peerState[s] = "zombie" /\ peerData[s] # NoClient
    /\ Len(eventQueue) < MaxEvents
    /\ peerState' = [peerState EXCEPT ![s] = "free"]
    /\ peerData' = [peerData EXCEPT ![s] = NoClient]
    /\ peerMap' = [peerMap EXCEPT ![peerData[s]] = NoPeer]
    /\ eventQueue' = Append(eventQueue, Event("disconnect", peerData[s], NoMsg))
    /\ objects' = objects \ {peerData[s]}
    /\ UNCHANGED <<phase, nextUid, peerOf, packetQueue, connected, wire>>

CaptureDisconnectKeepsData(s) ==
    /\ NetRunning /\ peerState[s] = "zombie" /\ peerData[s] # NoClient
    /\ Len(eventQueue) < MaxEvents
    /\ peerState' = [peerState EXCEPT ![s] = "free"]
    /\ peerMap' = [peerMap EXCEPT ![peerData[s]] = NoPeer]
    /\ eventQueue' = Append(eventQueue, Event("disconnect", peerData[s], NoMsg))
    /\ UNCHANGED <<phase, nextUid, peerOf, objects, packetQueue, connected, wire, peerData>>

CaptureDisconnectReadsLate(s) ==
    /\ NetRunning /\ peerState[s] = "zombie" /\ peerData[s] # NoClient
    /\ Len(eventQueue) < MaxEvents
    /\ peerState' = [peerState EXCEPT ![s] = "free"]
    /\ peerData' = [peerData EXCEPT ![s] = NoClient]
    /\ peerMap' = [peerMap EXCEPT ![peerData[s]] = NoPeer]
    /\ eventQueue' = Append(eventQueue, Event("disconnect", peerData'[s], NoMsg))
    /\ UNCHANGED <<phase, nextUid, peerOf, objects, packetQueue, connected, wire>>

(* handle_disconnect_event_in_thread: the peer is free again. *)
CaptureDisconnect(s) ==
    /\ NetRunning
    /\ peerState[s] = "zombie"
    /\ peerData[s] # NoClient
    /\ Len(eventQueue) < MaxEvents
    /\ peerState' = [peerState EXCEPT ![s] = "free"]
    /\ peerData' = [peerData EXCEPT ![s] = NoClient]
    /\ peerMap' = [peerMap EXCEPT ![peerData[s]] = NoPeer]
    /\ eventQueue' = Append(eventQueue, Event("disconnect", peerData[s], NoMsg))
    /\ UNCHANGED <<phase, nextUid, peerOf, objects, packetQueue, connected, wire>>

Reachable(u) == peerMap[u] # NoPeer /\ peerState[peerMap[u]] = "connected"

(* Mutant: the packet goes to the peer its uid was first mapped to. *)
SendPacketToOldPeer ==
    /\ NetRunning
    /\ packetQueue # <<>>
    /\ packetQueue' = Tail(packetQueue)
    /\ LET p == Head(packetQueue)
           s == peerOf[p.to]
       IN  /\ Len(wire[s]) < MaxPackets
           /\ wire' = [wire EXCEPT ![s] = Append(@, p.msg)]
    /\ UNCHANGED <<phase, netVars, objects, eventQueue, connected>>

(* One round of the loop of send_queued_packets_in_thread: the packet is    *)
(* handed to ENet, or dropped when its uid has left the map or its peer is   *)
(* not connected.                                                            *)
SendPacket ==
    /\ NetRunning
    /\ packetQueue # <<>>
    /\ Reachable(Head(packetQueue).to)
    /\ packetQueue' = Tail(packetQueue)
    /\ LET p == Head(packetQueue)
           s == peerMap[p.to]
       IN  /\ Len(wire[s]) < MaxPackets
           /\ wire' = [wire EXCEPT ![s] = Append(@, p.msg)]
    /\ UNCHANGED <<phase, netVars, objects, eventQueue, connected>>

DropPacket ==
    /\ NetRunning
    /\ packetQueue # <<>>
    /\ ~Reachable(Head(packetQueue).to)
    /\ packetQueue' = Tail(packetQueue)
    /\ UNCHANGED <<phase, netVars, objects, eventQueue, connected, wire>>

(* ENet delivers the next packet of slot s to its client (external). *)
Deliver(s) ==
    /\ wire[s] # <<>>
    /\ wire' = [wire EXCEPT ![s] = Tail(@)]
    /\ UNCHANGED <<phase, netVars, objects, eventQueue, packetQueue, connected>>

(* The branch of run_in_thread taken once _should_exit_thread is set:       *)
(* disconnect_all_peers_in_thread, and the host is destroyed.               *)
NetExit ==
    /\ phase = "exiting"
    /\ phase' = "exited"
    /\ peerState' = [s \in Slots |-> "free"]
    /\ peerData' = [s \in Slots |-> NoClient]
    /\ peerMap' = [u \in Uids |-> NoPeer]
    /\ wire' = [s \in Slots |-> <<>>]
    /\ UNCHANGED <<nextUid, objects, peerOf, eventQueue, packetQueue, connected>>

--------------------------------------------------------------------------------
(* The application thread: consume_events, one event at a time.  A handler  *)
(* calls send_packet_to with at most one packet here; GameSession has the   *)
(* real handlers.                                                           *)

InSeq(c, q) == \E i \in 1 .. Len(q) : q[i] = c

Enqueue ==
    \/ UNCHANGED packetQueue
    \/ /\ Len(packetQueue) < MaxPackets
       /\ \E c \in Uids, m \in Msg :
             /\ InSeq(c, connected')
             /\ packetQueue' = Append(packetQueue, [to |-> c, msg |-> m])

NextEventIs(type) == eventQueue # <<>> /\ Head(eventQueue).type = type

DispatchConnect ==
    /\ phase = "listening"
    /\ NextEventIs("connect")
    /\ eventQueue' = Tail(eventQueue)
    /\ connected' = Append(connected, Head(eventQueue).client)
    /\ Enqueue
    /\ UNCHANGED <<phase, netVars, objects, wire>>

DispatchReceive ==
    /\ phase = "listening"
    /\ NextEventIs("receive")
    /\ eventQueue' = Tail(eventQueue)
    /\ UNCHANGED connected
    /\ Enqueue
    /\ UNCHANGED <<phase, netVars, objects, wire>>

EraseAt(q, i) == [j \in 1 .. Len(q) - 1 |-> IF j < i THEN q[j] ELSE q[j + 1]]

(* Mutants of the next action: the client is not erased; its object is not  *)
(* deleted; the reset of Server::onClientDisconnect reaches the next_uid     *)
(* that the network thread counts with.                                      *)
DispatchDisconnectKeepsEntry ==
    /\ phase = "listening" /\ NextEventIs("disconnect")
    /\ eventQueue' = Tail(eventQueue)
    /\ UNCHANGED <<connected, objects>>
    /\ Enqueue
    /\ UNCHANGED <<phase, netVars, wire>>

DispatchDisconnectLeaks ==
    /\ phase = "listening" /\ NextEventIs("disconnect")
    /\ eventQueue' = Tail(eventQueue)
    /\ \E i \in 1 .. Len(connected) :
          connected[i] = Head(eventQueue).client /\ connected' = EraseAt(connected, i)
    /\ Enqueue
    /\ UNCHANGED <<phase, netVars, objects, wire>>

DispatchDisconnectResetsUids ==
    /\ phase = "listening" /\ NextEventIs("disconnect")
    /\ eventQueue' = Tail(eventQueue)
    /\ \E i \in 1 .. Len(connected) :
          connected[i] = Head(eventQueue).client /\ connected' = EraseAt(connected, i)
    /\ objects' = objects \ {Head(eventQueue).client}
    /\ nextUid' = IF connected' = <<>> THEN 0 ELSE nextUid
    /\ Enqueue
    /\ UNCHANGED <<phase, peerState, peerData, peerMap, peerOf, wire>>

(* std::find, erase, delete, and only then the handler. *)
DispatchDisconnect ==
    /\ phase = "listening"
    /\ NextEventIs("disconnect")
    /\ eventQueue' = Tail(eventQueue)
    /\ \E i \in 1 .. Len(connected) :
          /\ connected[i] = Head(eventQueue).client
          /\ \A j \in 1 .. i - 1 : connected[j] # Head(eventQueue).client
          /\ connected' = EraseAt(connected, i)
    /\ objects' = objects \ {Head(eventQueue).client}
    /\ Enqueue
    /\ UNCHANGED <<phase, netVars, wire>>

(* stop_listening: raise the flag and join the network thread, then destroy *)
(* the queues and delete the clients they and _connected_clients point to.  *)
RequestStop ==
    /\ phase = "listening"
    /\ phase' = "exiting"
    /\ UNCHANGED <<netVars, objects, eventQueue, packetQueue, connected, wire>>

PendingConnects ==
    {c \in Uids : \E i \in 1 .. Len(eventQueue) :
                     eventQueue[i].type = "connect" /\ eventQueue[i].client = c}

ConnectedSet == {c \in Uids : InSeq(c, connected)}

StopCleanup ==
    /\ phase = "exited"
    /\ phase' = "stopped"
    /\ packetQueue' = <<>>
    /\ eventQueue' = <<>>
    /\ objects' = objects \ (PendingConnects \cup ConnectedSet)
    /\ connected' = <<>>
    /\ UNCHANGED <<netVars, wire>>

NetThread ==
    \/ \E s \in Slots : CaptureConnect(s)
    \/ \E s \in Slots, m \in Msg : CaptureReceive(s, m)
    \/ \E s \in Slots : CaptureDisconnect(s)
    \/ SendPacket
    \/ DropPacket
    \/ NetExit

AppThread ==
    \/ DispatchConnect
    \/ DispatchReceive
    \/ DispatchDisconnect
    \/ RequestStop
    \/ StopCleanup

Network == \E s \in Slots : PeerLost(s) \/ Deliver(s)

Next == NetThread \/ AppThread \/ Network

Spec == Init /\ [][Next]_vars

--------------------------------------------------------------------------------
(***************************************************************************)
(* Properties.                                                             *)
(***************************************************************************)

TypeOK ==
    /\ phase \in Phases
    /\ nextUid \in 0 .. MaxUid
    /\ peerState \in [Slots -> {"free", "connected", "zombie"}]
    /\ peerData \in [Slots -> Uids \cup {NoClient}]
    /\ peerMap \in [Uids -> Slots \cup {NoPeer}]
    /\ objects \subseteq Uids
    /\ peerOf \in [Uids -> Slots \cup {NoPeer}]
    /\ eventQueue \in Seq(Events)
    /\ packetQueue \in Seq(Packets)
    /\ connected \in Seq(Uids)
    /\ wire \in [Slots -> Seq(Msg)]

(* Every raw client pointer that is still going to be followed - in an      *)
(* event, in _connected_clients, in peer->data - points to an object that   *)
(* has not been deleted, although one thread deletes what the other queued. *)
NoDanglingClient ==
    /\ \A i \in 1 .. Len(eventQueue) : eventQueue[i].client \in objects
    /\ \A i \in 1 .. Len(connected) : connected[i] \in objects
    /\ \A s \in Slots : peerData[s] # NoClient => peerData[s] \in objects

ConnectsBefore(c, i) ==
    \E j \in 1 .. i - 1 : /\ eventQueue[j].type = "connect"
                          /\ eventQueue[j].client = c

(* When a packet or a disconnect is dispatched its client is among          *)
(* _connected_clients (the assert of consume_events, server.h:142), however *)
(* far the application lags behind: it is there already or its connect      *)
(* event is queued in front.                                                *)
DispatchFindsClient ==
    \A i \in 1 .. Len(eventQueue) :
        LET c == eventQueue[i].client
        IN  IF eventQueue[i].type = "connect"
            THEN ~InSeq(c, connected) /\ ~ConnectsBefore(c, i)
            ELSE InSeq(c, connected) \/ ConnectsBefore(c, i)

(* The asserts of the network thread: a free peer carries no client         *)
(* (server.h:280), and the map and peer->data name each other (295, 296),   *)
(* so that a packet can only be sent to the connection it was meant for.    *)
PeerMapAgrees ==
    /\ \A s \in Slots : peerState[s] = "free" <=> peerData[s] = NoClient
    /\ \A s \in Slots : peerData[s] # NoClient => peerMap[peerData[s]] = s
    /\ \A c \in Uids : peerMap[c] # NoPeer => peerData[peerMap[c]] = c

(* The handlers of Server.cpp rely on two clients at most: clients that     *)
(* have left are still in _connected_clients until their event is handled,  *)
(* and yet the list never outgrows the number of peers.                     *)
WithinCapacity == Len(connected) <= Cardinality(Slots)

(* Whenever the server is stopped, every client object is deleted exactly   *)
(* once: by its pending connect event or as a connected client, never both, *)
(* and none is left over.                                                   *)
EachObjectFreedOnce ==
    /\ PendingConnects \cap ConnectedSet = {}
    /\ objects = PendingConnects \cup ConnectedSet
    /\ \A i, j \in 1 .. Len(connected) : connected[i] = connected[j] => i = j
================================================================================
