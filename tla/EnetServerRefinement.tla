-------------------------- MODULE EnetServerRefinement --------------------------
(***************************************************************************)
(* enetpp::server implements ServerTransport.  A connection is open as     *)
(* long as its uid is in the peer map, it breaks when ENet turns its peer  *)
(* into a zombie, and its inbox is what ENet holds for its peer followed   *)
(* by what the packet queue holds for its uid.                             *)
(***************************************************************************)
EXTENDS EnetServer, SequencesExt

Live == {u \in Uids : peerMap[u] # NoPeer}

(* The packets of a queue that are addressed to u. *)
QueuedFor(u, queue) ==
    FlattenSeq([i \in DOMAIN queue |->
                   IF queue[i].to = u THEN <<queue[i].msg>> ELSE <<>>])

Breaking == {u \in Live : peerState[peerMap[u]] = "zombie"}

Inbox == [u \in Uids |-> IF u \in Live THEN wire[peerMap[u]] \o QueuedFor(u, packetQueue)
                                       ELSE <<>>]

Transport == INSTANCE ServerTransport WITH
    MaxClients <- Cardinality(Slots),
    live <- Live,
    breaking <- Breaking,
    events <- eventQueue,
    inbox <- Inbox

(* Through its two threads, its queues and its shutdown the server keeps    *)
(* the promise of ServerTransport: in particular no packet reaches another  *)
(* connection than the one it was sent to, and none overtakes another.      *)
ImplementsTransport == Transport!TransportSpec
================================================================================
