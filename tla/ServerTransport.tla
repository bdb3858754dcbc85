---------------------------- MODULE ServerTransport ----------------------------
(***************************************************************************)
(* What enetpp::server promises to the code above it (Server.cpp), without *)
(* its threads, locks and queues:                                          *)
(*   - every accepted connection gets an id of its own, never used again;  *)
(*   - at most MaxClients connections are open at a time;                  *)
(*   - the application sees one stream of events; those of one connection  *)
(*     are its connect, then its packets in order, then its disconnect;    *)
(*   - a packet sent to an id reaches that connection or nobody, in order. *)
(* EnetServerRefinement shows that EnetServer implements this module, and  *)
(* GameSession is built on it.                                             *)
(***************************************************************************)
EXTENDS Naturals, FiniteSets, SequencesExt

CONSTANTS
    MaxUid,      \* bound: connections accepted over one behaviour
    MaxClients,  \* ServerComponent::MAX_CLIENT_COUNT
    Msg,         \* packets
    NoMsg        \* the packet field of connect and disconnect events

Uids == 0 .. MaxUid - 1

VARIABLES
    nextUid,     \* next_uid: the id of the next connection
    live,        \* connections that are open
    breaking,    \* those whose loss is not noticed yet
    events,      \* events the application has not handled yet
    connected,   \* _connected_clients, in the order of their connect events
    inbox        \* packets on their way to each open connection

transportVars == <<nextUid, live, breaking, events, connected, inbox>>

Event(type, c, m) == [type |-> type, client |-> c, msg |-> m]

TransportInit ==
    /\ nextUid = 0
    /\ live = {}
    /\ breaking = {}
    /\ events = <<>>
    /\ connected = <<>>
    /\ inbox = [u \in Uids |-> <<>>]

(* A connection is accepted. *)
Connect ==
    /\ nextUid < MaxUid
    /\ Cardinality(live) < MaxClients
    /\ nextUid' = nextUid + 1
    /\ live' = live \cup {nextUid}
    /\ events' = Append(events, Event("connect", nextUid, NoMsg))
    /\ UNCHANGED <<breaking, connected, inbox>>

(* A packet of an open connection arrives. *)
Receive(c, m) ==
    /\ c \in live \ breaking
    /\ events' = Append(events, Event("receive", c, m))
    /\ UNCHANGED <<nextUid, live, breaking, connected, inbox>>

(* A connection breaks, and with it the packets that are on their way; those *)
(* that are sent to it from now on are lost, some at once, the last of them  *)
(* when the loss is noticed.                                                 *)
Break(c) ==
    /\ c \in live \ breaking
    /\ breaking' = breaking \cup {c}
    /\ \E n \in 0 .. Len(inbox[c]) :
          inbox' = [inbox EXCEPT ![c] = SubSeq(@, n + 1, Len(@))]
    /\ UNCHANGED <<nextUid, live, events, connected>>

Lose(c) ==
    /\ c \in breaking
    /\ inbox[c] # <<>>
    /\ inbox' = [inbox EXCEPT ![c] = Tail(@)]
    /\ UNCHANGED <<nextUid, live, breaking, events, connected>>

Disconnect(c) ==
    /\ c \in breaking
    /\ live' = live \ {c}
    /\ breaking' = breaking \ {c}
    /\ events' = Append(events, Event("disconnect", c, NoMsg))
    /\ inbox' = [inbox EXCEPT ![c] = <<>>]
    /\ UNCHANGED <<nextUid, connected>>

(* The packets of sends, a sequence of [to, msg], that are addressed to u. *)
MsgsTo(u, sends) ==
    FlattenSeq([i \in DOMAIN sends |-> IF sends[i].to = u THEN <<sends[i].msg>> ELSE <<>>])

Post(sends) ==
    inbox' = [u \in Uids |-> IF u \in live THEN inbox[u] \o MsgsTo(u, sends)
                                           ELSE inbox[u]]

NextEventIs(type) == events # <<>> /\ Head(events).type = type

AddClient(c) == Append(connected, c)
DropClient(c) == RemoveFirst(connected, c)

(* The application handles the next event; its handler sends packets. *)
DispatchConnect(sends) ==
    /\ NextEventIs("connect")
    /\ events' = Tail(events)
    /\ connected' = AddClient(Head(events).client)
    /\ Post(sends)
    /\ UNCHANGED <<nextUid, live, breaking>>

DispatchReceive(sends) ==
    /\ NextEventIs("receive")
    /\ events' = Tail(events)
    /\ Post(sends)
    /\ UNCHANGED <<nextUid, live, breaking, connected>>

DispatchDisconnect(sends) ==
    /\ NextEventIs("disconnect")
    /\ events' = Tail(events)
    /\ connected' = DropClient(Head(events).client)
    /\ Post(sends)
    /\ UNCHANGED <<nextUid, live, breaking>>

(* The client at the other end of c takes its next packet. *)
Take(c) ==
    /\ c \notin breaking
    /\ inbox[c] # <<>>
    /\ inbox' = [inbox EXCEPT ![c] = Tail(@)]
    /\ UNCHANGED <<nextUid, live, breaking, events, connected>>

(* The server stops: its connections end without an event, then what it    *)
(* still held is thrown away.                                              *)
CloseAll ==
    /\ live' = {}
    /\ breaking' = {}
    /\ inbox' = [u \in Uids |-> <<>>]
    /\ UNCHANGED <<nextUid, events, connected>>

Discard ==
    /\ live = {}
    /\ events' = <<>>
    /\ connected' = <<>>
    /\ UNCHANGED <<nextUid, live, breaking, inbox>>

--------------------------------------------------------------------------------
(* The transport on its own, under an application whose handlers send at   *)
(* most one packet, to anybody.                                            *)
OneSend == {<<>>} \cup {<<[to |-> c, msg |-> m]>> : c \in Uids, m \in Msg}

TransportNext ==
    \/ Connect
    \/ \E c \in live, m \in Msg : Receive(c, m)
    \/ \E c \in live : Break(c) \/ Lose(c) \/ Disconnect(c) \/ Take(c)
    \/ \E sends \in OneSend :
          \/ DispatchConnect(sends)
          \/ DispatchReceive(sends)
          \/ DispatchDisconnect(sends)
    \/ CloseAll
    \/ Discard

TransportSpec == TransportInit /\ [][TransportNext]_transportVars
================================================================================
