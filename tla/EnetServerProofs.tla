---------------------------- MODULE EnetServerProofs ----------------------------
(***************************************************************************)
(* The safety of EnetServer, and that it implements ServerTransport, for   *)
(* any number of slots, connections and queued packets.                    *)
(***************************************************************************)
EXTENDS EnetServerRefinement, SequenceLemmas, FiniteSetTheorems

(* What Append, Tail and EraseAt do to a sequence, for the steps that move   *)
(* an event or a client from one place to another.                           *)
LEMMA AppendFacts ==
    ASSUME NEW S, NEW q \in Seq(S), NEW e \in S
    PROVE  /\ Append(q, e) \in Seq(S)
           /\ Len(Append(q, e)) = Len(q) + 1
           /\ \A i \in 1 .. Len(q) : Append(q, e)[i] = q[i]
           /\ Append(q, e)[Len(q) + 1] = e
  OBVIOUS

LEMMA TailFacts ==
    ASSUME NEW S, NEW q \in Seq(S), q # <<>>
    PROVE  /\ Tail(q) \in Seq(S)
           /\ Len(q) \in Nat \ {0}
           /\ Len(Tail(q)) = Len(q) - 1
           /\ Head(q) = q[1] /\ Head(q) \in S
           /\ \A i \in 1 .. Len(q) - 1 : Tail(q)[i] = q[i + 1]
  OBVIOUS

LEMMA EraseFacts ==
    ASSUME NEW S, NEW q \in Seq(S), NEW i \in 1 .. Len(q)
    PROVE  /\ EraseAt(q, i) \in Seq(S)
           /\ Len(EraseAt(q, i)) = Len(q) - 1
           /\ \A j \in 1 .. Len(q) - 1 :
                 EraseAt(q, i)[j] = IF j < i THEN q[j] ELSE q[j + 1]
<1>1. EraseAt(q, i) \in [1 .. Len(q) - 1 -> S]
  BY DEF EraseAt
<1>2. Len(q) - 1 \in Nat
  OBVIOUS
<1>3. Len(EraseAt(q, i)) = Len(q) - 1 /\ EraseAt(q, i) \in Seq(S)
  BY <1>1, <1>2
<1> QED
  BY <1>3 DEF EraseAt

--------------------------------------------------------------------------------
(* Type correctness.                                                        *)

LEMMA EnqueueType ==
    ASSUME TypeOK, Enqueue
    PROVE  packetQueue' \in Seq(Packets)
<1>1. CASE UNCHANGED packetQueue
  BY <1>1 DEF TypeOK
<1>2. ASSUME NEW c \in Uids, NEW m \in Msg,
             packetQueue' = Append(packetQueue, [to |-> c, msg |-> m])
      PROVE  packetQueue' \in Seq(Packets)
  <2>1. [to |-> c, msg |-> m] \in Packets
    BY DEF Packets
  <2> QED
    BY <1>2, <2>1, AppendFacts DEF TypeOK
<1> QED
  BY <1>1, <1>2 DEF Enqueue

LEMMA EventType ==
    ASSUME NEW c \in Uids
    PROVE  /\ Event("connect", c, NoMsg) \in Events
           /\ Event("disconnect", c, NoMsg) \in Events
           /\ \A m \in Msg : Event("receive", c, m) \in Events
  BY DEF Event, Events

LEMMA InitType == Init => TypeOK
  BY UidAssumption DEF Init, TypeOK, Phases, Uids

LEMMA NetThreadType == TypeOK /\ NetThread => TypeOK'
<1> SUFFICES ASSUME TypeOK, NetThread PROVE TypeOK'
  OBVIOUS
<1> USE DEF TypeOK, netVars
<1>1. ASSUME NEW s \in Slots, CaptureConnect(s) PROVE TypeOK'
  <2>1. nextUid \in Uids /\ nextUid + 1 \in 0 .. MaxUid
    BY <1>1, UidAssumption DEF CaptureConnect, Uids
  <2>2. eventQueue' \in Seq(Events)
    BY <1>1, <2>1, EventType, AppendFacts DEF CaptureConnect
  <2> QED
    BY <1>1, <2>1, <2>2 DEF CaptureConnect
<1>2. ASSUME NEW s \in Slots, NEW m \in Msg, CaptureReceive(s, m) PROVE TypeOK'
  <2>1. eventQueue' \in Seq(Events)
    BY <1>2, EventType, AppendFacts DEF CaptureReceive
  <2> QED
    BY <1>2, <2>1 DEF CaptureReceive
<1>3. ASSUME NEW s \in Slots, CaptureDisconnect(s) PROVE TypeOK'
  <2>1. eventQueue' \in Seq(Events)
    BY <1>3, EventType, AppendFacts DEF CaptureDisconnect
  <2> QED
    BY <1>3, <2>1 DEF CaptureDisconnect
<1>4. CASE SendPacket
  <2> DEFINE p == Head(packetQueue)
  <2>1. p \in Packets /\ packetQueue' \in Seq(Packets)
    BY <1>4, TailFacts DEF SendPacket
  <2>2. peerMap[p.to] \in Slots /\ p.msg \in Msg
    BY <1>4, <2>1 DEF SendPacket, Reachable, Packets
  <2>3. wire' \in [Slots -> Seq(Msg)]
    BY <1>4, <2>2, AppendFacts DEF SendPacket
  <2> QED
    BY <1>4, <2>1, <2>3 DEF SendPacket
<1>5. CASE DropPacket
  BY <1>5, TailFacts DEF DropPacket
<1>6. CASE NetExit
  BY <1>6 DEF NetExit, Phases
<1> QED
  BY <1>1, <1>2, <1>3, <1>4, <1>5, <1>6 DEF NetThread

LEMMA AppThreadType == TypeOK /\ AppThread => TypeOK'
<1> SUFFICES ASSUME TypeOK, AppThread PROVE TypeOK'
  OBVIOUS
<1> USE DEF TypeOK, netVars
<1>1. CASE DispatchConnect
  <2>1. eventQueue' \in Seq(Events) /\ Head(eventQueue) \in Events
    BY <1>1, TailFacts DEF DispatchConnect, NextEventIs
  <2>3. Head(eventQueue).client \in Uids
    BY <2>1 DEF Events
  <2>2. packetQueue' \in Seq(Packets)
    BY <1>1, EnqueueType DEF DispatchConnect
  <2> QED
    BY <1>1, <2>1, <2>2, <2>3, AppendFacts DEF DispatchConnect
<1>2. CASE DispatchReceive
  BY <1>2, TailFacts, EnqueueType DEF DispatchReceive, NextEventIs
<1>3. CASE DispatchDisconnect
  <2>1. eventQueue' \in Seq(Events)
    BY <1>3, TailFacts DEF DispatchDisconnect, NextEventIs
  <2>2. connected' \in Seq(Uids)
    BY <1>3, EraseFacts DEF DispatchDisconnect
  <2> QED
    BY <1>3, <2>1, <2>2, EnqueueType DEF DispatchDisconnect
<1>4. CASE RequestStop
  BY <1>4 DEF RequestStop, Phases
<1>5. CASE StopCleanup
  BY <1>5 DEF StopCleanup, Phases
<1> QED
  BY <1>1, <1>2, <1>3, <1>4, <1>5 DEF AppThread

LEMMA NetworkType == TypeOK /\ Network => TypeOK'
<1> SUFFICES ASSUME TypeOK, NEW s \in Slots, PeerLost(s) \/ Deliver(s)
             PROVE  TypeOK'
  BY DEF Network
<1> USE DEF TypeOK, netVars
<1>1. CASE PeerLost(s)
  BY <1>1 DEF PeerLost
<1>2. CASE Deliver(s)
  <2>1. Tail(wire[s]) \in Seq(Msg)
    BY <1>2, TailFacts DEF Deliver
  <2> QED
    BY <1>2, <2>1 DEF Deliver
<1> QED
  BY <1>1, <1>2

(* Every variable of enetpp::server keeps its type, whatever the two         *)
(* threads do.                                                               *)
THEOREM TypeCorrect == Spec => []TypeOK
<1>1. TypeOK /\ [Next]_vars => TypeOK'
  <2> SUFFICES ASSUME TypeOK, [Next]_vars PROVE TypeOK'
    OBVIOUS
  <2>1. CASE Next
    BY <2>1, NetThreadType, AppThreadType, NetworkType DEF Next
  <2>2. CASE UNCHANGED vars
    BY <2>2 DEF vars, TypeOK
  <2> QED
    BY <2>1, <2>2
<1> QED
  BY InitType, <1>1, PTL DEF Spec

--------------------------------------------------------------------------------
(* The inductive invariant behind the safety of the event queue.  A uid is   *)
(* fresh until its object is made; a disconnect is the last event of its     *)
(* client, which has left the peer map; a host that is gone has no clients.  *)

FreshUids == objects \subseteq 0 .. nextUid - 1

DisconnectIsLast ==
    \A i \in 1 .. Len(eventQueue) : eventQueue[i].type = "disconnect" =>
        /\ peerMap[eventQueue[i].client] = NoPeer
        /\ \A j \in i + 1 .. Len(eventQueue) :
              eventQueue[j].client # eventQueue[i].client

HostGone == ~NetRunning => \A s \in Slots : peerData[s] = NoClient

SafeInv ==
    /\ TypeOK
    /\ PeerMapAgrees
    /\ NoDanglingClient
    /\ DispatchFindsClient
    /\ EachObjectFreedOnce
    /\ FreshUids
    /\ DisconnectIsLast
    /\ HostGone

LEMMA InitSafe == Init => SafeInv
  BY InitType, SlotsAssumption
  DEF Init, SafeInv, TypeOK, PeerMapAgrees, NoDanglingClient, DispatchFindsClient,
      EachObjectFreedOnce, PendingConnects, ConnectedSet, InSeq, FreshUids,
      DisconnectIsLast, HostGone, NetRunning

(* Steps that leave the clients and the events alone. *)
LEMMA QuietSafe ==
    ASSUME SafeInv, TypeOK', HostGone',
           UNCHANGED <<nextUid, peerData, peerMap, objects, eventQueue, connected>>,
           \A s \in Slots : peerState'[s] = "free" <=> peerState[s] = "free"
    PROVE  SafeInv'
<1>1. PeerMapAgrees'
  BY DEF SafeInv, PeerMapAgrees
<1>2. NoDanglingClient' /\ DispatchFindsClient' /\ EachObjectFreedOnce' /\ FreshUids'
      /\ DisconnectIsLast'
  BY DEF SafeInv, NoDanglingClient, DispatchFindsClient, EachObjectFreedOnce,
         FreshUids, DisconnectIsLast, PendingConnects, ConnectedSet, InSeq, ConnectsBefore
<1> QED
  BY <1>1, <1>2 DEF SafeInv

LEMMA CaptureConnectSafe ==
    ASSUME SafeInv, TypeOK', NEW s \in Slots, CaptureConnect(s)
    PROVE  SafeInv'
<1> DEFINE c == nextUid
           n == Len(eventQueue)
<1> USE DEF SafeInv
<1>1. /\ c \in Uids /\ c \notin objects /\ n \in Nat
      /\ objects \subseteq Uids
      /\ eventQueue \in Seq(Events) /\ connected \in Seq(Uids)
      /\ Event("connect", c, NoMsg) \in Events
  BY UidAssumption, EventType DEF CaptureConnect, FreshUids, TypeOK, Uids
<1>2. /\ eventQueue' = Append(eventQueue, Event("connect", c, NoMsg))
      /\ Len(eventQueue') = n + 1
      /\ \A i \in 1 .. n : eventQueue'[i] = eventQueue[i]
      /\ eventQueue'[n + 1] = Event("connect", c, NoMsg)
  BY <1>1, AppendFacts DEF CaptureConnect
<1>3. /\ eventQueue'[n + 1].type = "connect"
      /\ eventQueue'[n + 1].client = c
  BY <1>2 DEF Event
<1>4. /\ \A i \in 1 .. n : eventQueue[i].client \in objects
      /\ \A i \in 1 .. Len(connected) : connected[i] \in objects
      /\ \A t \in Slots : peerData[t] # c
      /\ peerMap[c] = NoPeer
  BY <1>1, UidAssumption DEF NoDanglingClient, PeerMapAgrees, TypeOK
<1>5. /\ peerState' = [peerState EXCEPT ![s] = "connected"]
      /\ peerData' = [peerData EXCEPT ![s] = c]
      /\ peerMap' = [peerMap EXCEPT ![c] = s]
      /\ objects' = objects \cup {c} /\ nextUid' = nextUid + 1
      /\ connected' = connected /\ phase' = phase /\ peerState[s] = "free"
  BY DEF CaptureConnect
<1>6. PeerMapAgrees'
  <2>1. peerData[s] = NoClient /\ c # NoClient /\ s # NoPeer
    BY <1>1, <1>5, UidAssumption, SlotsAssumption DEF PeerMapAgrees
  <2>2. \A t \in Slots : peerState'[t] = "free" <=> peerData'[t] = NoClient
    BY <1>5, <2>1 DEF PeerMapAgrees, TypeOK
  <2>3. \A t \in Slots : peerData'[t] # NoClient => peerMap'[peerData'[t]] = t
    BY <1>1, <1>4, <1>5, <2>1 DEF PeerMapAgrees, TypeOK
  <2>4. \A d \in Uids : peerMap'[d] # NoPeer => peerData'[peerMap'[d]] = d
    <3> SUFFICES ASSUME NEW d \in Uids, peerMap'[d] # NoPeer
                 PROVE  peerData'[peerMap'[d]] = d
      OBVIOUS
    <3>1. CASE d = c
      BY <1>1, <1>5, <3>1 DEF TypeOK
    <3>2. CASE d # c
      <4>1. peerMap'[d] = peerMap[d] /\ peerData[peerMap[d]] = d /\ peerMap[d] \in Slots
        BY <1>1, <1>5, <3>2 DEF PeerMapAgrees, TypeOK
      <4>2. peerMap[d] # s
        BY <2>1, <4>1, UidAssumption
      <4> QED
        BY <1>5, <4>1, <4>2 DEF TypeOK
    <3> QED
      BY <3>1, <3>2
  <2> QED
    BY <2>2, <2>3, <2>4 DEF PeerMapAgrees
<1>7. NoDanglingClient'
  <2>1. \A i \in 1 .. Len(eventQueue') : eventQueue'[i].client \in objects'
    BY <1>1, <1>2, <1>3, <1>4, <1>5
  <2>2. \A t \in Slots : peerData'[t] # NoClient => peerData'[t] \in objects'
    BY <1>5 DEF NoDanglingClient, TypeOK
  <2> QED
    BY <1>4, <1>5, <2>1, <2>2 DEF NoDanglingClient
<1>8. DispatchFindsClient'
  <2> SUFFICES ASSUME NEW i \in 1 .. n + 1
               PROVE  IF eventQueue'[i].type = "connect"
                      THEN ~InSeq(eventQueue'[i].client, connected)
                           /\ \A j \in 1 .. i - 1 :
                                 ~(/\ eventQueue'[j].type = "connect"
                                   /\ eventQueue'[j].client = eventQueue'[i].client)
                      ELSE InSeq(eventQueue'[i].client, connected)
                           \/ \E j \in 1 .. i - 1 :
                                 /\ eventQueue'[j].type = "connect"
                                 /\ eventQueue'[j].client = eventQueue'[i].client
    BY <1>2, <1>5 DEF DispatchFindsClient, ConnectsBefore, InSeq
  <2>1. CASE i = n + 1
    BY <1>1, <1>2, <1>3, <1>4, <2>1 DEF InSeq
  <2>2. CASE i \in 1 .. n
    <3>1. \A j \in 1 .. i : eventQueue'[j] = eventQueue[j]
      BY <1>1, <1>2, <2>2
    <3> QED
      BY <1>1, <2>2, <3>1 DEF DispatchFindsClient, ConnectsBefore
  <2> QED
    BY <1>1, <2>1, <2>2
<1>9. EachObjectFreedOnce'
  <2>1. PendingConnects' = PendingConnects \cup {c}
    BY <1>1, <1>2, <1>3 DEF PendingConnects
  <2>2. ConnectedSet' = ConnectedSet /\ c \notin ConnectedSet
    BY <1>1, <1>4, <1>5 DEF ConnectedSet, InSeq
  <2> QED
    BY <1>5, <2>1, <2>2 DEF EachObjectFreedOnce
<1>10. FreshUids'
  BY <1>1, <1>5 DEF FreshUids, TypeOK
<1>11. DisconnectIsLast'
  <2> SUFFICES ASSUME NEW i \in 1 .. n + 1, eventQueue'[i].type = "disconnect"
               PROVE  /\ peerMap'[eventQueue'[i].client] = NoPeer
                      /\ \A j \in i + 1 .. n + 1 :
                            eventQueue'[j].client # eventQueue'[i].client
    BY <1>2 DEF DisconnectIsLast
  <2>1. i \in 1 .. n /\ eventQueue'[i] = eventQueue[i]
    BY <1>1, <1>2, <1>3
  <2>2. eventQueue[i].client \in objects /\ eventQueue[i].client # c
    BY <1>1, <1>4, <2>1
  <2>3. peerMap'[eventQueue[i].client] = NoPeer
    BY <1>1, <1>5, <2>1, <2>2 DEF DisconnectIsLast, TypeOK
  <2>4. \A j \in i + 1 .. n + 1 : eventQueue'[j].client # eventQueue[i].client
    BY <1>1, <1>2, <1>3, <2>1, <2>2 DEF DisconnectIsLast
  <2> QED
    BY <2>1, <2>3, <2>4
<1>12. HostGone'
  BY <1>5 DEF HostGone, NetRunning, CaptureConnect
<1> QED
  BY <1>6, <1>7, <1>8, <1>9, <1>10, <1>11, <1>12

(* The network thread appends an event, not a connect, of an allocated       *)
(* client whose disconnect is not queued yet.                                *)
LEMMA AppendSafe ==
    ASSUME SafeInv, NEW e \in Events, e.type # "connect", e.client \in objects,
           UNCHANGED <<nextUid, objects, connected>>,
           eventQueue' = Append(eventQueue, e)
    PROVE  /\ DispatchFindsClient' /\ EachObjectFreedOnce' /\ FreshUids'
           /\ \A i \in 1 .. Len(eventQueue') : eventQueue'[i].client \in objects'
<1> DEFINE n == Len(eventQueue)
<1>1. /\ n \in Nat /\ Len(eventQueue') = n + 1 /\ eventQueue'[n + 1] = e
      /\ \A i \in 1 .. n : eventQueue'[i] = eventQueue[i]
  BY AppendFacts DEF SafeInv, TypeOK
<1>2. PendingConnects' = PendingConnects /\ ConnectedSet' = ConnectedSet
  BY <1>1 DEF PendingConnects, ConnectedSet, InSeq
<1>3. EachObjectFreedOnce' /\ FreshUids'
  BY <1>2 DEF SafeInv, EachObjectFreedOnce, FreshUids
<1>4. \A i \in 1 .. Len(eventQueue') : eventQueue'[i].client \in objects'
  BY <1>1 DEF SafeInv, NoDanglingClient
<1>5. DispatchFindsClient'
  <2> SUFFICES ASSUME NEW i \in 1 .. n + 1
               PROVE  IF eventQueue'[i].type = "connect"
                      THEN ~InSeq(eventQueue'[i].client, connected)
                           /\ \A j \in 1 .. i - 1 :
                                 ~(/\ eventQueue'[j].type = "connect"
                                   /\ eventQueue'[j].client = eventQueue'[i].client)
                      ELSE InSeq(eventQueue'[i].client, connected)
                           \/ \E j \in 1 .. i - 1 :
                                 /\ eventQueue'[j].type = "connect"
                                 /\ eventQueue'[j].client = eventQueue'[i].client
    BY <1>1 DEF DispatchFindsClient, ConnectsBefore, InSeq
  <2>1. CASE i = n + 1
    <3>1. e.client \in PendingConnects \cup ConnectedSet
      BY DEF SafeInv, EachObjectFreedOnce
    <3> QED
      BY <1>1, <2>1, <3>1 DEF PendingConnects, ConnectedSet
  <2>2. CASE i \in 1 .. n
    <3>1. \A j \in 1 .. i : eventQueue'[j] = eventQueue[j]
      BY <1>1, <2>2
    <3> QED
      BY <1>1, <2>2, <3>1 DEF SafeInv, DispatchFindsClient, ConnectsBefore
  <2> QED
    BY <1>1, <2>1, <2>2
<1> QED
  BY <1>3, <1>4, <1>5

(* A client that is still a peer's has no disconnect event queued. *)
LEMMA NotDisconnected ==
    ASSUME SafeInv, NEW s \in Slots, peerData[s] # NoClient
    PROVE  /\ peerData[s] \in Uids /\ peerData[s] \in objects
           /\ peerMap[peerData[s]] = s
           /\ \A i \in 1 .. Len(eventQueue) :
                 eventQueue[i].client = peerData[s] => eventQueue[i].type # "disconnect"
<1>1. /\ peerData[s] \in Uids /\ peerData[s] \in objects
      /\ peerMap[peerData[s]] = s /\ s # NoPeer
  BY SlotsAssumption DEF SafeInv, TypeOK, NoDanglingClient, PeerMapAgrees
<1> QED
  BY <1>1 DEF SafeInv, DisconnectIsLast

LEMMA CaptureReceiveSafe ==
    ASSUME SafeInv, TypeOK', NEW s \in Slots, NEW m \in Msg, CaptureReceive(s, m)
    PROVE  SafeInv'
<1> DEFINE e == Event("receive", peerData[s], m)
           n == Len(eventQueue)
<1>1. /\ e \in Events /\ e.type = "receive" /\ e.client = peerData[s]
      /\ e.client \in objects /\ eventQueue' = Append(eventQueue, e)
      /\ n \in Nat
  BY NotDisconnected, EventType DEF CaptureReceive, Event, SafeInv, TypeOK
<1>2. UNCHANGED <<phase, netVars, objects, connected>>
  BY DEF CaptureReceive
<1>3. /\ DispatchFindsClient' /\ EachObjectFreedOnce' /\ FreshUids'
      /\ \A i \in 1 .. Len(eventQueue') : eventQueue'[i].client \in objects'
  BY <1>1, <1>2, AppendSafe DEF netVars
<1>4. PeerMapAgrees' /\ NoDanglingClient' /\ HostGone'
  BY <1>2, <1>3 DEF netVars, SafeInv, PeerMapAgrees, NoDanglingClient, HostGone, NetRunning
<1>5. DisconnectIsLast'
  <2>1. /\ Len(eventQueue') = n + 1 /\ eventQueue'[n + 1] = e
        /\ \A i \in 1 .. n : eventQueue'[i] = eventQueue[i]
    BY <1>1, AppendFacts DEF SafeInv, TypeOK
  <2>2. ASSUME NEW i \in 1 .. n, eventQueue[i].type = "disconnect"
        PROVE  eventQueue[i].client # e.client
    BY <1>1, <2>2, NotDisconnected DEF CaptureReceive
  <2> SUFFICES ASSUME NEW i \in 1 .. n + 1, eventQueue'[i].type = "disconnect"
               PROVE  /\ peerMap'[eventQueue'[i].client] = NoPeer
                      /\ \A j \in i + 1 .. n + 1 :
                            eventQueue'[j].client # eventQueue'[i].client
    BY <2>1 DEF DisconnectIsLast
  <2>3. i \in 1 .. n /\ eventQueue'[i] = eventQueue[i]
    BY <1>1, <2>1
  <2>4. \A j \in i + 1 .. n + 1 : eventQueue'[j].client # eventQueue[i].client
    BY <1>1, <2>1, <2>2, <2>3 DEF SafeInv, DisconnectIsLast
  <2> QED
    BY <1>2, <2>3, <2>4 DEF netVars, SafeInv, DisconnectIsLast
<1> QED
  BY <1>3, <1>4, <1>5 DEF SafeInv

LEMMA CaptureDisconnectSafe ==
    ASSUME SafeInv, TypeOK', NEW s \in Slots, CaptureDisconnect(s)
    PROVE  SafeInv'
<1> DEFINE c == peerData[s]
           e == Event("disconnect", c, NoMsg)
           n == Len(eventQueue)
<1>1. /\ c \in Uids /\ c # NoClient /\ peerMap[c] = s /\ n \in Nat
      /\ e \in Events /\ e.type = "disconnect" /\ e.client = c
      /\ e.client \in objects /\ eventQueue' = Append(eventQueue, e)
  BY NotDisconnected, EventType DEF CaptureDisconnect, Event, SafeInv, TypeOK
<1>2. /\ UNCHANGED <<phase, nextUid, objects, connected>>
      /\ peerState' = [peerState EXCEPT ![s] = "free"]
      /\ peerData' = [peerData EXCEPT ![s] = NoClient]
      /\ peerMap' = [peerMap EXCEPT ![c] = NoPeer]
  BY DEF CaptureDisconnect
<1>3. /\ DispatchFindsClient' /\ EachObjectFreedOnce' /\ FreshUids'
      /\ \A i \in 1 .. Len(eventQueue') : eventQueue'[i].client \in objects'
  BY <1>1, <1>2, AppendSafe
<1>4. PeerMapAgrees'
  <2>1. \A t \in Slots : peerState'[t] = "free" <=> peerData'[t] = NoClient
    BY <1>2 DEF SafeInv, PeerMapAgrees, TypeOK
  <2>2. ASSUME NEW t \in Slots, peerData'[t] # NoClient
        PROVE  peerMap'[peerData'[t]] = t
    <3>1. t # s /\ peerData'[t] = peerData[t] /\ peerData[t] \in Uids
          /\ peerMap[peerData[t]] = t
      BY <1>2, <2>2 DEF SafeInv, PeerMapAgrees, TypeOK
    <3> QED
      BY <1>1, <1>2, <3>1 DEF SafeInv, TypeOK
  <2>3. ASSUME NEW d \in Uids, peerMap'[d] # NoPeer
        PROVE  peerData'[peerMap'[d]] = d
    <3>1. d # c /\ peerMap'[d] = peerMap[d]
      BY <1>1, <1>2, <2>3 DEF SafeInv, TypeOK
    <3>2. peerData[peerMap[d]] = d /\ peerMap[d] \in Slots
      BY <2>3, <3>1 DEF SafeInv, PeerMapAgrees, TypeOK
    <3> QED
      BY <1>2, <3>1, <3>2 DEF SafeInv, TypeOK
  <2> QED
    BY <2>1, <2>2, <2>3 DEF PeerMapAgrees
<1>5. NoDanglingClient'
  <2>1. \A t \in Slots : peerData'[t] # NoClient => peerData'[t] \in objects'
    BY <1>2 DEF SafeInv, NoDanglingClient, TypeOK
  <2> QED
    BY <1>2, <1>3, <2>1 DEF SafeInv, NoDanglingClient
<1>6. HostGone'
  BY <1>2 DEF SafeInv, HostGone, NetRunning, CaptureDisconnect
<1>7. DisconnectIsLast'
  <2>1. /\ Len(eventQueue') = n + 1 /\ eventQueue'[n + 1] = e
        /\ \A i \in 1 .. n : eventQueue'[i] = eventQueue[i]
    BY <1>1, AppendFacts DEF SafeInv, TypeOK
  <2>2. ASSUME NEW i \in 1 .. n, eventQueue[i].type = "disconnect"
        PROVE  eventQueue[i].client # e.client
    BY <1>1, <2>2, NotDisconnected
  <2> SUFFICES ASSUME NEW i \in 1 .. n + 1, eventQueue'[i].type = "disconnect"
               PROVE  /\ peerMap'[eventQueue'[i].client] = NoPeer
                      /\ \A j \in i + 1 .. n + 1 :
                            eventQueue'[j].client # eventQueue'[i].client
    BY <2>1 DEF DisconnectIsLast
  <2>3. CASE i = n + 1
    BY <1>1, <1>2, <2>1, <2>3 DEF SafeInv, TypeOK
  <2>4. CASE i \in 1 .. n
    <3>1. eventQueue'[i] = eventQueue[i] /\ eventQueue[i].client # c
      BY <1>1, <2>1, <2>2, <2>4
    <3>2. eventQueue[i].client \in Uids /\ peerMap[eventQueue[i].client] = NoPeer
      BY <2>1, <2>4, <3>1 DEF SafeInv, DisconnectIsLast, NoDanglingClient, TypeOK
    <3>3. \A j \in i + 1 .. n + 1 : eventQueue'[j].client # eventQueue[i].client
      BY <1>1, <2>1, <2>4, <3>1 DEF SafeInv, DisconnectIsLast
    <3> QED
      BY <1>2, <3>1, <3>2, <3>3 DEF SafeInv, TypeOK
  <2> QED
    BY <1>1, <2>3, <2>4
<1> QED
  BY <1>3, <1>4, <1>5, <1>6, <1>7 DEF SafeInv

LEMMA NetExitSafe ==
    ASSUME SafeInv, TypeOK', NetExit
    PROVE  SafeInv'
<1>1. /\ UNCHANGED <<nextUid, objects, eventQueue, connected>>
      /\ peerState' = [s \in Slots |-> "free"]
      /\ peerData' = [s \in Slots |-> NoClient]
      /\ peerMap' = [u \in Uids |-> NoPeer]
  BY DEF NetExit
<1>2. PeerMapAgrees' /\ HostGone'
  BY <1>1 DEF PeerMapAgrees, HostGone
<1>3. NoDanglingClient' /\ DispatchFindsClient' /\ EachObjectFreedOnce' /\ FreshUids'
  BY <1>1 DEF SafeInv, NoDanglingClient, DispatchFindsClient, EachObjectFreedOnce,
              FreshUids, PendingConnects, ConnectedSet, InSeq, ConnectsBefore
<1>4. \A i \in 1 .. Len(eventQueue) : eventQueue[i].client \in Uids
  BY DEF SafeInv, NoDanglingClient, TypeOK
<1>5. DisconnectIsLast'
  BY <1>1, <1>4 DEF SafeInv, DisconnectIsLast
<1> QED
  BY <1>2, <1>3, <1>5 DEF SafeInv

--------------------------------------------------------------------------------
(* The application thread takes the first event. *)
LEMMA PopFacts ==
    ASSUME SafeInv, eventQueue # <<>>, eventQueue' = Tail(eventQueue), UNCHANGED netVars
    PROVE  /\ Len(eventQueue) \in Nat \ {0}
           /\ Len(eventQueue') = Len(eventQueue) - 1
           /\ Head(eventQueue) = eventQueue[1]
           /\ eventQueue[1].client \in Uids /\ eventQueue[1].client \in objects
           /\ \A i \in 1 .. Len(eventQueue) - 1 : eventQueue'[i] = eventQueue[i + 1]
           /\ PeerMapAgrees' /\ DisconnectIsLast'
<1> DEFINE n == Len(eventQueue)
<1>1. /\ n \in Nat \ {0} /\ Len(eventQueue') = n - 1
      /\ Head(eventQueue) = eventQueue[1]
      /\ \A i \in 1 .. n - 1 : eventQueue'[i] = eventQueue[i + 1]
  BY TailFacts DEF SafeInv, TypeOK
<1>2. eventQueue[1].client \in objects /\ eventQueue[1].client \in Uids
  BY <1>1 DEF SafeInv, NoDanglingClient, TypeOK
<1>3. PeerMapAgrees'
  BY DEF SafeInv, PeerMapAgrees, netVars
<1>4. DisconnectIsLast'
  <2> SUFFICES ASSUME NEW i \in 1 .. n - 1, eventQueue'[i].type = "disconnect"
               PROVE  /\ peerMap[eventQueue'[i].client] = NoPeer
                      /\ \A j \in i + 1 .. n - 1 :
                            eventQueue'[j].client # eventQueue'[i].client
    BY <1>1 DEF DisconnectIsLast, netVars
  <2>1. i + 1 \in 1 .. n /\ eventQueue'[i] = eventQueue[i + 1]
    BY <1>1
  <2>2. \A j \in i + 1 .. n - 1 : /\ j + 1 \in (i + 1) + 1 .. n
                                 /\ eventQueue'[j] = eventQueue[j + 1]
    BY <1>1
  <2> QED
    BY <2>1, <2>2 DEF SafeInv, DisconnectIsLast
<1> QED
  BY <1>1, <1>2, <1>3, <1>4

LEMMA DispatchConnectSafe ==
    ASSUME SafeInv, TypeOK', DispatchConnect
    PROVE  SafeInv'
<1> DEFINE c == eventQueue[1].client
           n == Len(eventQueue)
<1>1. /\ n \in Nat \ {0} /\ Len(eventQueue') = n - 1
      /\ \A i \in 1 .. n - 1 : eventQueue'[i] = eventQueue[i + 1]
      /\ c \in Uids /\ c \in objects /\ eventQueue[1].type = "connect"
      /\ connected' = Append(connected, c)
      /\ PeerMapAgrees' /\ DisconnectIsLast'
  BY PopFacts DEF DispatchConnect, NextEventIs
<1>2. /\ Len(connected) \in Nat /\ Len(connected') = Len(connected) + 1
      /\ connected'[Len(connected) + 1] = c
      /\ \A i \in 1 .. Len(connected) : connected'[i] = connected[i]
  BY <1>1, AppendFacts DEF SafeInv, TypeOK
<1>3. ~InSeq(c, connected)
  BY <1>1 DEF SafeInv, DispatchFindsClient
<1>4. \A d : InSeq(d, connected') <=> InSeq(d, connected) \/ d = c
  BY <1>2 DEF InSeq
<1>5. UNCHANGED <<phase, netVars, objects>>
  BY DEF DispatchConnect
<1>6. NoDanglingClient'
  BY <1>1, <1>2, <1>5 DEF SafeInv, NoDanglingClient, netVars
<1>7. DispatchFindsClient'
  <2> SUFFICES ASSUME NEW i \in 1 .. n - 1
               PROVE  IF eventQueue'[i].type = "connect"
                      THEN ~InSeq(eventQueue'[i].client, connected')
                           /\ \A j \in 1 .. i - 1 :
                                 ~(/\ eventQueue'[j].type = "connect"
                                   /\ eventQueue'[j].client = eventQueue'[i].client)
                      ELSE InSeq(eventQueue'[i].client, connected')
                           \/ \E j \in 1 .. i - 1 :
                                 /\ eventQueue'[j].type = "connect"
                                 /\ eventQueue'[j].client = eventQueue'[i].client
    BY <1>1 DEF DispatchFindsClient, ConnectsBefore, InSeq
  <2> DEFINE d == eventQueue[i + 1].client
  <2>1. i + 1 \in 1 .. n /\ eventQueue'[i] = eventQueue[i + 1]
    BY <1>1
  <2>2. \A j \in 1 .. i - 1 : j + 1 \in 1 .. (i + 1) - 1 /\ eventQueue'[j] = eventQueue[j + 1]
    BY <1>1
  <2>3. CASE eventQueue[i + 1].type = "connect"
    <3>1. ~InSeq(d, connected) /\ ~ConnectsBefore(d, i + 1)
      BY <2>1, <2>3 DEF SafeInv, DispatchFindsClient
    <3>2. d # c
      BY <1>1, <2>1, <3>1 DEF ConnectsBefore
    <3>3. \A j \in 1 .. i - 1 : ~(/\ eventQueue'[j].type = "connect"
                                 /\ eventQueue'[j].client = d)
      BY <2>2, <3>1 DEF ConnectsBefore
    <3> QED
      BY <1>4, <2>1, <2>3, <3>1, <3>2, <3>3
  <2>4. CASE eventQueue[i + 1].type # "connect"
    <3>1. CASE InSeq(d, connected)
      BY <1>4, <2>1, <2>4, <3>1
    <3>2. CASE ConnectsBefore(d, i + 1)
      <4>1. PICK j \in 1 .. i : eventQueue[j].type = "connect" /\ eventQueue[j].client = d
        BY <3>2 DEF ConnectsBefore
      <4>2. CASE j = 1
        BY <1>4, <2>1, <2>4, <4>1, <4>2
      <4>3. CASE j # 1
        <5>1. j - 1 \in 1 .. i - 1 /\ eventQueue'[j - 1] = eventQueue[j]
          BY <1>1, <4>3
        <5> QED
          BY <2>1, <2>4, <4>1, <5>1
      <4> QED
        BY <4>2, <4>3
    <3> QED
      BY <2>1, <2>4, <3>1, <3>2 DEF SafeInv, DispatchFindsClient
  <2> QED
    BY <2>3, <2>4
<1>8. EachObjectFreedOnce'
  <2>1. ConnectedSet' = ConnectedSet \cup {c}
    BY <1>1, <1>4 DEF ConnectedSet
  <2>2. c \notin PendingConnects'
    <3> SUFFICES ASSUME NEW i \in 1 .. n - 1, eventQueue'[i].type = "connect",
                        eventQueue'[i].client = c
                 PROVE  FALSE
      BY <1>1 DEF PendingConnects
    <3>1. i + 1 \in 1 .. n /\ 1 \in 1 .. (i + 1) - 1 /\ eventQueue'[i] = eventQueue[i + 1]
      BY <1>1
    <3> QED
      BY <1>1, <3>1 DEF SafeInv, DispatchFindsClient, ConnectsBefore
  <2>3. PendingConnects' \subseteq PendingConnects
    <3>1. \A i \in 1 .. n - 1 : i + 1 \in 1 .. n /\ eventQueue'[i] = eventQueue[i + 1]
      BY <1>1
    <3> QED
      BY <1>1, <3>1 DEF PendingConnects
  <2>4. PendingConnects \subseteq PendingConnects' \cup {c}
    <3> SUFFICES ASSUME NEW i \in 1 .. n, eventQueue[i].type = "connect",
                        eventQueue[i].client \in Uids, i # 1
                 PROVE  eventQueue[i].client \in PendingConnects'
      BY <1>1 DEF PendingConnects
    <3>1. i - 1 \in 1 .. n - 1 /\ eventQueue'[i - 1] = eventQueue[i]
      BY <1>1
    <3> QED
      BY <1>1, <3>1 DEF PendingConnects
  <2>5. \A i, j \in 1 .. Len(connected') : connected'[i] = connected'[j] => i = j
    BY <1>2, <1>3 DEF SafeInv, EachObjectFreedOnce, InSeq
  <2>6. c \notin ConnectedSet
    BY <1>3 DEF ConnectedSet
  <2>7. PendingConnects' \cap ConnectedSet' = {}
    BY <2>1, <2>2, <2>3 DEF SafeInv, EachObjectFreedOnce
  <2>8. objects' = PendingConnects' \cup ConnectedSet'
    BY <1>1, <1>5, <2>1, <2>3, <2>4 DEF SafeInv, EachObjectFreedOnce
  <2> QED
    BY <2>5, <2>7, <2>8 DEF EachObjectFreedOnce
<1>9. FreshUids' /\ HostGone'
  BY <1>5 DEF SafeInv, FreshUids, HostGone, NetRunning, netVars
<1> QED
  BY <1>1, <1>6, <1>7, <1>8, <1>9 DEF SafeInv

(* Taking an event that is not a connect keeps what waits behind it. *)
LEMMA PopKeepsPending ==
    ASSUME SafeInv, eventQueue # <<>>, eventQueue' = Tail(eventQueue), UNCHANGED netVars,
           eventQueue[1].type # "connect"
    PROVE  /\ PendingConnects' = PendingConnects
           /\ \A i \in 1 .. Len(eventQueue) - 1, d \in Uids :
                 ConnectsBefore(d, i + 1) <=> \E j \in 1 .. i - 1 :
                                                 /\ eventQueue'[j].type = "connect"
                                                 /\ eventQueue'[j].client = d
<1> DEFINE n == Len(eventQueue)
<1>1. /\ n \in Nat \ {0} /\ Len(eventQueue') = n - 1
      /\ \A i \in 1 .. n - 1 : eventQueue'[i] = eventQueue[i + 1]
  BY PopFacts
<1>2. \A k \in 1 .. n : k # 1 => k - 1 \in 1 .. n - 1 /\ eventQueue'[k - 1] = eventQueue[k]
  BY <1>1
<1>3. PendingConnects' \subseteq PendingConnects
  BY <1>1 DEF PendingConnects
<1>4. PendingConnects \subseteq PendingConnects'
  BY <1>1, <1>2 DEF PendingConnects
<1>5. ASSUME NEW i \in 1 .. n - 1, NEW d \in Uids
      PROVE  ConnectsBefore(d, i + 1) <=> \E j \in 1 .. i - 1 :
                                             /\ eventQueue'[j].type = "connect"
                                             /\ eventQueue'[j].client = d
  <2>1. ASSUME NEW k \in 1 .. i, eventQueue[k].type = "connect", eventQueue[k].client = d
        PROVE  \E j \in 1 .. i - 1 : /\ eventQueue'[j].type = "connect"
                                      /\ eventQueue'[j].client = d
    <3>1. k # 1 /\ k \in 1 .. n /\ k - 1 \in 1 .. i - 1
      BY <1>1, <2>1
    <3> QED
      BY <1>2, <2>1, <3>1
  <2>2. ASSUME NEW j \in 1 .. i - 1, eventQueue'[j].type = "connect", eventQueue'[j].client = d
        PROVE  ConnectsBefore(d, i + 1)
    <3>1. j + 1 \in 1 .. (i + 1) - 1 /\ eventQueue'[j] = eventQueue[j + 1]
      BY <1>1
    <3> QED
      BY <2>2, <3>1 DEF ConnectsBefore
  <2>3. (i + 1) - 1 = i
    OBVIOUS
  <2> QED
    BY <2>1, <2>2, <2>3 DEF ConnectsBefore
<1> QED
  BY <1>3, <1>4, <1>5

LEMMA DispatchReceiveSafe ==
    ASSUME SafeInv, TypeOK', DispatchReceive
    PROVE  SafeInv'
<1> DEFINE n == Len(eventQueue)
<1>1. /\ n \in Nat \ {0} /\ Len(eventQueue') = n - 1
      /\ \A i \in 1 .. n - 1 : eventQueue'[i] = eventQueue[i + 1]
      /\ eventQueue[1].type # "connect"
      /\ UNCHANGED <<phase, netVars, objects, connected>>
      /\ PeerMapAgrees' /\ DisconnectIsLast'
  BY PopFacts DEF DispatchReceive, NextEventIs
<1>2. /\ PendingConnects' = PendingConnects
      /\ \A i \in 1 .. n - 1, d \in Uids :
            ConnectsBefore(d, i + 1) <=> \E j \in 1 .. i - 1 :
                                            /\ eventQueue'[j].type = "connect"
                                            /\ eventQueue'[j].client = d
  BY <1>1, PopKeepsPending DEF DispatchReceive, NextEventIs
<1>3. NoDanglingClient' /\ FreshUids' /\ HostGone'
  BY <1>1 DEF SafeInv, NoDanglingClient, FreshUids, HostGone, NetRunning, netVars
<1>4. EachObjectFreedOnce'
  BY <1>1, <1>2 DEF SafeInv, EachObjectFreedOnce, ConnectedSet, InSeq
<1>5. DispatchFindsClient'
  <2> SUFFICES ASSUME NEW i \in 1 .. n - 1
               PROVE  IF eventQueue'[i].type = "connect"
                      THEN ~InSeq(eventQueue'[i].client, connected)
                           /\ ~(\E j \in 1 .. i - 1 :
                                   /\ eventQueue'[j].type = "connect"
                                   /\ eventQueue'[j].client = eventQueue'[i].client)
                      ELSE InSeq(eventQueue'[i].client, connected)
                           \/ \E j \in 1 .. i - 1 :
                                 /\ eventQueue'[j].type = "connect"
                                 /\ eventQueue'[j].client = eventQueue'[i].client
    BY <1>1 DEF DispatchFindsClient, ConnectsBefore, InSeq
  <2>1. i + 1 \in 1 .. n /\ eventQueue'[i] = eventQueue[i + 1]
        /\ eventQueue[i + 1].client \in Uids
    BY <1>1 DEF SafeInv, NoDanglingClient, TypeOK
  <2> QED
    BY <1>2, <2>1 DEF SafeInv, DispatchFindsClient
<1> QED
  BY <1>1, <1>3, <1>4, <1>5 DEF SafeInv

LEMMA DispatchDisconnectSafe ==
    ASSUME SafeInv, TypeOK', DispatchDisconnect
    PROVE  SafeInv'
<1> DEFINE n == Len(eventQueue)
           c == eventQueue[1].client
<1>1. /\ n \in Nat \ {0} /\ Len(eventQueue') = n - 1
      /\ \A i \in 1 .. n - 1 : eventQueue'[i] = eventQueue[i + 1]
      /\ eventQueue[1].type = "disconnect" /\ c \in Uids
      /\ UNCHANGED <<phase, netVars>> /\ objects' = objects \ {c}
      /\ PeerMapAgrees' /\ DisconnectIsLast'
  BY PopFacts DEF DispatchDisconnect, NextEventIs
<1>2. /\ PendingConnects' = PendingConnects
      /\ \A i \in 1 .. n - 1, d \in Uids :
            ConnectsBefore(d, i + 1) <=> \E j \in 1 .. i - 1 :
                                            /\ eventQueue'[j].type = "connect"
                                            /\ eventQueue'[j].client = d
  BY <1>1, PopKeepsPending DEF DispatchDisconnect, NextEventIs
<1>3. PICK k \in 1 .. Len(connected) : connected[k] = c /\ connected' = EraseAt(connected, k)
  BY PopFacts DEF DispatchDisconnect, NextEventIs
<1>4. /\ Len(connected) \in Nat \ {0} /\ Len(connected') = Len(connected) - 1
      /\ \A j \in 1 .. Len(connected) - 1 :
            connected'[j] = IF j < k THEN connected[j] ELSE connected[j + 1]
      /\ \A i, j \in 1 .. Len(connected) : connected[i] = connected[j] => i = j
  <2>1. connected \in Seq(Uids)
    BY DEF SafeInv, TypeOK
  <2>2. /\ Len(connected') = Len(connected) - 1
        /\ \A j \in 1 .. Len(connected) - 1 :
              connected'[j] = IF j < k THEN connected[j] ELSE connected[j + 1]
    BY <1>3, <2>1, EraseFacts
  <2>3. \A i, j \in 1 .. Len(connected) : connected[i] = connected[j] => i = j
    BY DEF SafeInv, EachObjectFreedOnce
  <2>4. Len(connected) \in Nat \ {0}
    BY <1>3, <2>1
  <2> QED
    BY <2>2, <2>3, <2>4
<1>5. ~InSeq(c, connected')
  BY <1>3, <1>4 DEF InSeq
<1>6. \A d : InSeq(d, connected') => InSeq(d, connected)
  BY <1>4 DEF InSeq
<1>7. \A d : InSeq(d, connected) /\ d # c => InSeq(d, connected')
  <2> SUFFICES ASSUME NEW i \in 1 .. Len(connected), connected[i] # c
               PROVE  \E j \in 1 .. Len(connected') : connected'[j] = connected[i]
    BY DEF InSeq
  <2>1. CASE i < k
    BY <1>4, <2>1
  <2>2. CASE i > k
    <3>1. i - 1 \in 1 .. Len(connected') /\ connected'[i - 1] = connected[i]
      BY <1>4, <2>2
    <3> QED
      BY <3>1
  <2> QED
    BY <1>3, <2>1, <2>2
<1>8. ConnectedSet' = ConnectedSet \ {c} /\ c \in ConnectedSet
  <2>1. InSeq(c, connected)
    BY <1>3 DEF InSeq
  <2>2. \A d \in Uids : InSeq(d, connected') <=> InSeq(d, connected) /\ d # c
    BY <1>5, <1>6, <1>7
  <2> QED
    BY <1>1, <2>1, <2>2 DEF ConnectedSet
<1>9. EachObjectFreedOnce'
  <2>1. c \notin PendingConnects
    BY <1>8 DEF SafeInv, EachObjectFreedOnce
  <2>2. \A i, j \in 1 .. Len(connected') : connected'[i] = connected'[j] => i = j
    BY <1>4
  <2> QED
    BY <1>1, <1>2, <1>8, <2>1, <2>2 DEF SafeInv, EachObjectFreedOnce
<1>10. \A i \in 1 .. n - 1 : /\ i + 1 \in 1 .. n /\ eventQueue'[i] = eventQueue[i + 1]
                            /\ eventQueue[i + 1].client \in objects \ {c}
                            /\ eventQueue[i + 1].client \in Uids
  <2> SUFFICES ASSUME NEW i \in 1 .. n - 1
               PROVE  /\ i + 1 \in 1 .. n /\ eventQueue'[i] = eventQueue[i + 1]
                      /\ eventQueue[i + 1].client \in objects \ {c}
                      /\ eventQueue[i + 1].client \in Uids
    OBVIOUS
  <2>1. 1 \in 1 .. n /\ i + 1 \in 1 .. n /\ i + 1 \in 1 + 1 .. n
    BY <1>1
  <2>2. eventQueue[i + 1].client # c
    BY <1>1, <2>1 DEF SafeInv, DisconnectIsLast
  <2>3. eventQueue[i + 1].client \in objects /\ objects \subseteq Uids
    BY <2>1 DEF SafeInv, NoDanglingClient, TypeOK
  <2> QED
    BY <1>1, <2>1, <2>2, <2>3
<1>11. NoDanglingClient'
  <2>1. \A i \in 1 .. Len(connected') : connected'[i] \in objects'
    <3> SUFFICES ASSUME NEW i \in 1 .. Len(connected') PROVE connected'[i] \in objects'
      OBVIOUS
    <3>1. connected'[i] # c
      BY <1>5 DEF InSeq
    <3>2. InSeq(connected'[i], connected)
      BY <1>6 DEF InSeq
    <3> QED
      BY <1>1, <3>1, <3>2 DEF SafeInv, NoDanglingClient, InSeq
  <2>2. \A s \in Slots : peerData[s] # NoClient => peerData[s] \in objects \ {c}
    BY <1>1, NotDisconnected
  <2> QED
    BY <1>1, <1>10, <2>1, <2>2 DEF NoDanglingClient, netVars
<1>12. DispatchFindsClient'
  <2> SUFFICES ASSUME NEW i \in 1 .. n - 1
               PROVE  IF eventQueue'[i].type = "connect"
                      THEN ~InSeq(eventQueue'[i].client, connected')
                           /\ ~(\E j \in 1 .. i - 1 :
                                   /\ eventQueue'[j].type = "connect"
                                   /\ eventQueue'[j].client = eventQueue'[i].client)
                      ELSE InSeq(eventQueue'[i].client, connected')
                           \/ \E j \in 1 .. i - 1 :
                                 /\ eventQueue'[j].type = "connect"
                                 /\ eventQueue'[j].client = eventQueue'[i].client
    BY <1>1 DEF DispatchFindsClient, ConnectsBefore, InSeq
  <2> DEFINE d == eventQueue[i + 1].client
  <2>1. /\ i + 1 \in 1 .. n /\ d # c /\ d \in Uids
        /\ eventQueue'[i] = eventQueue[i + 1]
    BY <1>10
  <2>2. InSeq(d, connected') <=> InSeq(d, connected)
    BY <1>6, <1>7, <2>1
  <2>3. IF eventQueue[i + 1].type = "connect"
        THEN ~InSeq(d, connected) /\ ~ConnectsBefore(d, i + 1)
        ELSE InSeq(d, connected) \/ ConnectsBefore(d, i + 1)
    BY <2>1 DEF SafeInv, DispatchFindsClient
  <2> QED
    BY <1>2, <2>1, <2>2, <2>3
<1>13. FreshUids' /\ HostGone'
  BY <1>1 DEF SafeInv, FreshUids, HostGone, NetRunning, netVars
<1> QED
  BY <1>1, <1>9, <1>11, <1>12, <1>13 DEF SafeInv

LEMMA StopCleanupSafe ==
    ASSUME SafeInv, TypeOK', StopCleanup
    PROVE  SafeInv'
<1>1. /\ UNCHANGED netVars /\ eventQueue' = <<>> /\ connected' = <<>>
      /\ objects' = objects \ (PendingConnects \cup ConnectedSet)
      /\ \A s \in Slots : peerData[s] = NoClient
  BY DEF StopCleanup, SafeInv, HostGone, NetRunning
<1>2. objects' = {}
  BY <1>1 DEF SafeInv, EachObjectFreedOnce
<1>3. PeerMapAgrees' /\ HostGone'
  BY <1>1 DEF SafeInv, PeerMapAgrees, HostGone, netVars
<1> QED
  BY <1>1, <1>2, <1>3
  DEF SafeInv, NoDanglingClient, DispatchFindsClient, EachObjectFreedOnce, FreshUids,
      DisconnectIsLast, PendingConnects, ConnectedSet, InSeq, netVars

LEMMA NetThreadSafe == SafeInv /\ TypeOK' /\ NetThread => SafeInv'
<1> SUFFICES ASSUME SafeInv, TypeOK', NetThread PROVE SafeInv'
  OBVIOUS
<1>1. CASE SendPacket
  <2>1. HostGone'
    BY <1>1 DEF SendPacket, netVars, SafeInv, HostGone, NetRunning
  <2> QED
    BY <1>1, <2>1, QuietSafe DEF SendPacket, netVars
<1>2. CASE DropPacket
  <2>1. HostGone'
    BY <1>2 DEF DropPacket, netVars, SafeInv, HostGone, NetRunning
  <2> QED
    BY <1>2, <2>1, QuietSafe DEF DropPacket, netVars
<1> QED
  BY <1>1, <1>2, CaptureConnectSafe, CaptureReceiveSafe, CaptureDisconnectSafe, NetExitSafe
  DEF NetThread

LEMMA AppThreadSafe == SafeInv /\ TypeOK' /\ AppThread => SafeInv'
<1> SUFFICES ASSUME SafeInv, TypeOK', AppThread PROVE SafeInv'
  OBVIOUS
<1>1. CASE RequestStop
  <2>1. HostGone'
    BY <1>1 DEF RequestStop, HostGone, NetRunning
  <2> QED
    BY <1>1, <2>1, QuietSafe DEF RequestStop, netVars
<1> QED
  BY <1>1, DispatchConnectSafe, DispatchReceiveSafe, DispatchDisconnectSafe, StopCleanupSafe
  DEF AppThread

LEMMA NetworkSafe == SafeInv /\ TypeOK' /\ Network => SafeInv'
<1> SUFFICES ASSUME SafeInv, TypeOK', NEW s \in Slots, PeerLost(s) \/ Deliver(s)
             PROVE  SafeInv'
  BY DEF Network
<1>1. CASE PeerLost(s)
  <2>1. HostGone'
    BY <1>1 DEF PeerLost, HostGone, NetRunning
  <2>2. \A t \in Slots : peerState'[t] = "free" <=> peerState[t] = "free"
    BY <1>1 DEF PeerLost, SafeInv, TypeOK
  <2> QED
    BY <1>1, <2>1, <2>2, QuietSafe DEF PeerLost
<1>2. CASE Deliver(s)
  <2>1. HostGone'
    BY <1>2 DEF Deliver, netVars, SafeInv, HostGone, NetRunning
  <2> QED
    BY <1>2, <2>1, QuietSafe DEF Deliver, netVars
<1> QED
  BY <1>1, <1>2

(* The invariant is inductive. *)
THEOREM Safe == Spec => []SafeInv
<1>1. SafeInv /\ [Next]_vars => SafeInv'
  <2> SUFFICES ASSUME SafeInv, [Next]_vars PROVE SafeInv'
    OBVIOUS
  <2>1. CASE Next
    <3>1. TypeOK'
      BY <2>1, NetThreadType, AppThreadType, NetworkType DEF Next, SafeInv
    <3> QED
      BY <2>1, <3>1, NetThreadSafe, AppThreadSafe, NetworkSafe DEF Next
  <2>2. CASE UNCHANGED vars
    <3>1. TypeOK' /\ HostGone'
      BY <2>2 DEF vars, SafeInv, TypeOK, HostGone, NetRunning
    <3> QED
      BY <2>2, <3>1, QuietSafe DEF vars
  <2> QED
    BY <2>1, <2>2
<1> QED
  BY InitSafe, <1>1, PTL DEF Spec

(* No thread ever follows a pointer to a deleted client, in any queue, list  *)
(* or peer.                                                                  *)
THEOREM ClientsNeverDangle == Spec => []NoDanglingClient
<1>1. SafeInv => NoDanglingClient
  BY DEF SafeInv
<1> QED
  BY <1>1, Safe, PTL

(* The assert of consume_events never fires: an event is dispatched between  *)
(* the connect and the disconnect of its client.                             *)
THEOREM DispatchesInOrder == Spec => []DispatchFindsClient
<1>1. SafeInv => DispatchFindsClient
  BY DEF SafeInv
<1> QED
  BY <1>1, Safe, PTL

(* The asserts of the network thread never fire: peers and uids name each    *)
(* other.                                                                    *)
THEOREM MapAndPeersAgree == Spec => []PeerMapAgrees
<1>1. SafeInv => PeerMapAgrees
  BY DEF SafeInv
<1> QED
  BY <1>1, Safe, PTL

(* At any moment stop_listening would delete every client once. *)
THEOREM ClientsFreedOnce == Spec => []EachObjectFreedOnce
<1>1. SafeInv => EachObjectFreedOnce
  BY DEF SafeInv
<1> QED
  BY <1>1, Safe, PTL

--------------------------------------------------------------------------------
(* The capacity of _connected_clients.  Two clients that are allocated at    *)
(* the same time may have been made for one slot; then the disconnect of the *)
(* older and behind it the connect of the younger are still queued, so that  *)
(* they are never in the list together.                                      *)

DisconnectsOf(q, c) == {i \in 1 .. Len(q) : q[i].type = "disconnect" /\ q[i].client = c}

ConnectsOf(q, c) == {i \in 1 .. Len(q) : q[i].type = "connect" /\ q[i].client = c}

SlotHandedOver ==
    \A c, d \in objects : c < d /\ peerOf[c] = peerOf[d] =>
        \E i \in DisconnectsOf(eventQueue, c), j \in ConnectsOf(eventQueue, d) : i < j

SlotHeld ==
    \A c \in objects :
        /\ peerOf[c] \in Slots
        /\ NetRunning => peerMap[c] = peerOf[c] \/ DisconnectsOf(eventQueue, c) # {}

CapacityInv == SafeInv /\ SlotHandedOver /\ SlotHeld

(* Steps that append to the event queue, or leave it alone. *)
LEMMA GrowKeepsSlots ==
    ASSUME CapacityInv, SafeInv', UNCHANGED <<objects, peerOf>>,
           Len(eventQueue) <= Len(eventQueue'),
           \A i \in 1 .. Len(eventQueue) : eventQueue'[i] = eventQueue[i],
           NetRunning' => NetRunning,
           NetRunning' => \A c \in objects : peerMap'[c] = peerMap[c]
                                             \/ DisconnectsOf(eventQueue', c) # {}
    PROVE  CapacityInv'
<1>1. Len(eventQueue) \in Nat /\ Len(eventQueue') \in Nat
  BY DEF CapacityInv, SafeInv, TypeOK
<1>2. \A c : /\ DisconnectsOf(eventQueue, c) \subseteq DisconnectsOf(eventQueue', c)
            /\ ConnectsOf(eventQueue, c) \subseteq ConnectsOf(eventQueue', c)
  BY <1>1 DEF DisconnectsOf, ConnectsOf
<1>3. SlotHandedOver'
  BY <1>2 DEF CapacityInv, SlotHandedOver
<1>4. SlotHeld'
  BY <1>2 DEF CapacityInv, SlotHeld
<1> QED
  BY <1>3, <1>4 DEF CapacityInv

(* A client whose disconnect is not queued holds its slot: the slot of a new *)
(* connection was left by all that had it before.                            *)
LEMMA CaptureConnectSlots ==
    ASSUME CapacityInv, SafeInv', NEW s \in Slots, CaptureConnect(s)
    PROVE  CapacityInv'
<1> DEFINE d == nextUid
           n == Len(eventQueue)
<1>1. /\ d \in Uids /\ d \notin objects /\ n \in Nat
      /\ \A c \in objects : c \in Uids /\ c \in Nat /\ c < d
  BY UidAssumption DEF CaptureConnect, CapacityInv, SafeInv, FreshUids, TypeOK, Uids
<1>2. /\ Len(eventQueue') = n + 1
      /\ \A i \in 1 .. n : eventQueue'[i] = eventQueue[i]
      /\ eventQueue'[n + 1].type = "connect" /\ eventQueue'[n + 1].client = d
  <2>1. Event("connect", d, NoMsg) \in Events /\ eventQueue \in Seq(Events)
    BY <1>1, EventType DEF CapacityInv, SafeInv, TypeOK
  <2>2. /\ eventQueue' = Append(eventQueue, Event("connect", d, NoMsg))
        /\ Event("connect", d, NoMsg).type = "connect"
        /\ Event("connect", d, NoMsg).client = d
    BY DEF CaptureConnect, Event
  <2> QED
    BY <2>1, <2>2, AppendFacts
<1>3. \A c : /\ DisconnectsOf(eventQueue, c) \subseteq DisconnectsOf(eventQueue', c)
            /\ ConnectsOf(eventQueue, c) \subseteq ConnectsOf(eventQueue', c)
            /\ DisconnectsOf(eventQueue, c) \subseteq 1 .. n
  BY <1>1, <1>2 DEF DisconnectsOf, ConnectsOf
<1>4. /\ NetRunning /\ NetRunning' /\ peerState[s] = "free"
      /\ objects' = objects \cup {d}
      /\ peerOf' = [peerOf EXCEPT ![d] = s]
      /\ peerMap' = [peerMap EXCEPT ![d] = s]
  BY DEF CaptureConnect, NetRunning
<1>5. /\ peerOf'[d] = s /\ peerMap'[d] = s
      /\ \A c \in objects : peerOf'[c] = peerOf[c] /\ peerMap'[c] = peerMap[c]
  BY <1>1, <1>4 DEF CapacityInv, SafeInv, TypeOK
<1>6. n + 1 \in ConnectsOf(eventQueue', d)
  BY <1>1, <1>2 DEF ConnectsOf
<1>7. ASSUME NEW c \in objects, peerOf[c] = s
      PROVE  \E i \in DisconnectsOf(eventQueue', c), j \in ConnectsOf(eventQueue', d) : i < j
  <2>1. peerMap[c] # s
    BY <1>1, <1>4, UidAssumption, SlotsAssumption DEF CapacityInv, SafeInv, PeerMapAgrees
  <2>2. PICK i \in DisconnectsOf(eventQueue, c) : TRUE
    BY <1>4, <1>7, <2>1 DEF CapacityInv, SlotHeld
  <2>3. i \in DisconnectsOf(eventQueue', c) /\ i < n + 1 /\ n + 1 \in Nat
    BY <1>1, <1>3, <2>2
  <2> QED
    BY <1>6, <2>3
<1>8. SlotHandedOver'
  <2> SUFFICES ASSUME NEW b \in objects', NEW c \in objects', b < c, peerOf'[b] = peerOf'[c]
               PROVE  \E i \in DisconnectsOf(eventQueue', b),
                         j \in ConnectsOf(eventQueue', c) : i < j
    BY DEF SlotHandedOver
  <2>0. d \in Nat
    BY <1>1 DEF Uids
  <2>1. b \in objects
    BY <1>1, <1>4, <2>0
  <2>2. CASE c = d
    BY <1>5, <1>7, <2>1, <2>2
  <2>3. CASE c \in objects
    BY <1>3, <1>5, <2>1, <2>3 DEF CapacityInv, SlotHandedOver
  <2> QED
    BY <1>4, <2>2, <2>3
<1>9. SlotHeld'
  <2> SUFFICES ASSUME NEW c \in objects'
               PROVE  /\ peerOf'[c] \in Slots
                      /\ peerMap'[c] = peerOf'[c] \/ DisconnectsOf(eventQueue', c) # {}
    BY DEF SlotHeld
  <2>1. CASE c = d
    BY <1>5, <2>1
  <2>2. CASE c \in objects
    BY <1>3, <1>4, <1>5, <2>2 DEF CapacityInv, SlotHeld
  <2> QED
    BY <1>4, <2>1, <2>2
<1> QED
  BY <1>8, <1>9 DEF CapacityInv

(* The application takes an event; a client leaves with its disconnect. *)
LEMMA PopKeepsSlots ==
    ASSUME CapacityInv, SafeInv', eventQueue # <<>>, eventQueue' = Tail(eventQueue),
           UNCHANGED <<phase, netVars>>, objects' \subseteq objects,
           eventQueue[1].type = "disconnect" => eventQueue[1].client \notin objects'
    PROVE  CapacityInv'
<1> DEFINE n == Len(eventQueue)
<1>1. /\ n \in Nat \ {0} /\ Len(eventQueue') = n - 1
      /\ \A i \in 1 .. n - 1 : eventQueue'[i] = eventQueue[i + 1]
  BY PopFacts DEF CapacityInv
<1>2. ASSUME NEW c, NEW i \in DisconnectsOf(eventQueue, c), c \in objects'
      PROVE  i > 1 /\ i - 1 \in DisconnectsOf(eventQueue', c)
  <2>1. i \in 1 .. n /\ i # 1
    BY <1>2 DEF DisconnectsOf
  <2>2. i - 1 \in 1 .. n - 1 /\ eventQueue'[i - 1] = eventQueue[i]
    BY <1>1, <2>1
  <2> QED
    BY <1>1, <1>2, <2>1, <2>2 DEF DisconnectsOf
<1>3. ASSUME NEW c, NEW i \in ConnectsOf(eventQueue, c), i > 1
      PROVE  i - 1 \in ConnectsOf(eventQueue', c)
  <2>1. i \in 1 .. n
    BY <1>3 DEF ConnectsOf
  <2>2. i - 1 \in 1 .. n - 1 /\ eventQueue'[i - 1] = eventQueue[i]
    BY <1>1, <1>3, <2>1
  <2> QED
    BY <1>1, <1>3, <2>2 DEF ConnectsOf
<1>4. SlotHandedOver'
  <2> SUFFICES ASSUME NEW b \in objects', NEW c \in objects', b < c, peerOf[b] = peerOf[c]
               PROVE  \E i \in DisconnectsOf(eventQueue', b),
                         j \in ConnectsOf(eventQueue', c) : i < j
    BY DEF SlotHandedOver, netVars
  <2>1. PICK i \in DisconnectsOf(eventQueue, b),
                j \in ConnectsOf(eventQueue, c) : i < j
    BY DEF CapacityInv, SlotHandedOver
  <2>2. i > 1 /\ i - 1 \in DisconnectsOf(eventQueue', b)
    BY <1>2, <2>1
  <2>3. i \in Nat /\ j \in Nat
    BY <1>1 DEF DisconnectsOf, ConnectsOf
  <2>4. j > 1 /\ i - 1 < j - 1
    BY <2>1, <2>2, <2>3
  <2>5. j - 1 \in ConnectsOf(eventQueue', c)
    BY <1>3, <2>4
  <2> QED
    BY <2>2, <2>4, <2>5
<1>5. SlotHeld'
  <2> SUFFICES ASSUME NEW c \in objects'
               PROVE  /\ peerOf[c] \in Slots
                      /\ NetRunning => peerMap[c] = peerOf[c]
                                       \/ DisconnectsOf(eventQueue', c) # {}
    BY DEF SlotHeld, netVars, NetRunning
  <2>1. peerOf[c] \in Slots
    BY DEF CapacityInv, SlotHeld
  <2>2. ASSUME NetRunning, peerMap[c] # peerOf[c]
        PROVE  DisconnectsOf(eventQueue', c) # {}
    <3>1. PICK i \in DisconnectsOf(eventQueue, c) : TRUE
      BY <2>2 DEF CapacityInv, SlotHeld
    <3>2. i > 1 /\ i - 1 \in DisconnectsOf(eventQueue', c)
      BY <1>2, <3>1
    <3> QED
      BY <3>2
  <2> QED
    BY <2>1, <2>2
<1> QED
  BY <1>4, <1>5 DEF CapacityInv

LEMMA CaptureDisconnectSlots ==
    ASSUME CapacityInv, SafeInv', NEW s \in Slots, CaptureDisconnect(s)
    PROVE  CapacityInv'
<1> DEFINE c == peerData[s]
           n == Len(eventQueue)
<1>1. c \in Uids /\ n \in Nat /\ eventQueue \in Seq(Events)
      /\ Event("disconnect", c, NoMsg) \in Events
      /\ eventQueue' = Append(eventQueue, Event("disconnect", c, NoMsg))
  BY EventType DEF CaptureDisconnect, CapacityInv, SafeInv, TypeOK
<1>2. Len(eventQueue') = n + 1 /\ \A i \in 1 .. n : eventQueue'[i] = eventQueue[i]
  BY <1>1, AppendFacts
<1>3. eventQueue'[n + 1].type = "disconnect" /\ eventQueue'[n + 1].client = c
  BY <1>1, AppendFacts DEF Event
<1>4. DisconnectsOf(eventQueue', c) # {}
  <2>1. n + 1 \in Nat /\ n + 1 \in DisconnectsOf(eventQueue', c)
    BY <1>1, <1>2, <1>3 DEF DisconnectsOf
  <2> QED
    BY <2>1
<1>5. \A d \in Uids : d # c => peerMap'[d] = peerMap[d]
  BY DEF CaptureDisconnect, CapacityInv, SafeInv, TypeOK
<1>6. /\ UNCHANGED <<objects, peerOf>>
      /\ NetRunning' => NetRunning
      /\ objects \subseteq Uids
  BY DEF CaptureDisconnect, NetRunning, CapacityInv, SafeInv, TypeOK
<1>7. \A d \in objects : \/ peerMap'[d] = peerMap[d]
                          \/ DisconnectsOf(eventQueue', d) # {}
  BY <1>4, <1>5, <1>6
<1>8. Len(eventQueue) <= Len(eventQueue')
  BY <1>1, <1>2
<1> QED
  BY <1>2, <1>6, <1>7, <1>8, GrowKeepsSlots

LEMMA NextKeepsSlots ==
    ASSUME CapacityInv, SafeInv', Next
    PROVE  CapacityInv'
<1>1. eventQueue \in Seq(Events) /\ Len(eventQueue) \in Nat
  BY DEF CapacityInv, SafeInv, TypeOK
<1>2. ASSUME NEW s \in Slots, NEW m \in Msg, CaptureReceive(s, m) PROVE CapacityInv'
  <2>1. Event("receive", peerData[s], m) \in Events
    BY <1>2, EventType DEF CaptureReceive, CapacityInv, SafeInv, TypeOK
  <2>2. /\ Len(eventQueue') = Len(eventQueue) + 1
        /\ \A i \in 1 .. Len(eventQueue) : eventQueue'[i] = eventQueue[i]
    BY <1>1, <1>2, <2>1, AppendFacts DEF CaptureReceive
  <2> QED
    BY <1>1, <1>2, <2>2, GrowKeepsSlots DEF CaptureReceive, netVars, NetRunning
<1>3. CASE SendPacket \/ DropPacket \/ RequestStop
           \/ \E s \in Slots : PeerLost(s) \/ Deliver(s)
  BY <1>1, <1>3, GrowKeepsSlots
  DEF SendPacket, DropPacket, RequestStop, PeerLost, Deliver, netVars, NetRunning
<1>4. CASE NetExit
  BY <1>1, <1>4, GrowKeepsSlots DEF NetExit, NetRunning
<1>5. CASE DispatchConnect \/ DispatchReceive
  BY <1>1, <1>5, TailFacts, PopKeepsSlots DEF DispatchConnect, DispatchReceive, NextEventIs
<1>6. CASE DispatchDisconnect
  BY <1>1, <1>6, TailFacts, PopKeepsSlots DEF DispatchDisconnect, NextEventIs
<1>7. CASE StopCleanup
  <2>1. objects' = {}
    BY <1>7 DEF StopCleanup, CapacityInv, SafeInv, EachObjectFreedOnce
  <2> QED
    BY <2>1 DEF CapacityInv, SlotHandedOver, SlotHeld
<1> QED
  BY <1>2, <1>3, <1>4, <1>5, <1>6, <1>7, CaptureConnectSlots, CaptureDisconnectSlots
  DEF Next, NetThread, AppThread, Network

(* Clients that are in the list together have slots of their own. *)
LEMMA CapacityBound == CapacityInv => WithinCapacity
<1> SUFFICES ASSUME CapacityInv PROVE Len(connected) <= Cardinality(Slots)
  BY DEF WithinCapacity
<1> DEFINE n == Len(connected)
           f == [i \in 1 .. n |-> peerOf[connected[i]]]
<1>0. connected \in Seq(Uids) /\ n \in Nat /\ Uids \subseteq Nat
  BY UidAssumption DEF CapacityInv, SafeInv, TypeOK, Uids
<1>1. \A i \in 1 .. n : /\ connected[i] \in objects /\ connected[i] \in Nat
                         /\ connected[i] \in ConnectedSet
  <2> SUFFICES ASSUME NEW i \in 1 .. n
               PROVE  /\ connected[i] \in objects /\ connected[i] \in Nat
                      /\ connected[i] \in ConnectedSet
    OBVIOUS
  <2>1. connected[i] \in Uids /\ InSeq(connected[i], connected)
    BY <1>0 DEF InSeq
  <2>2. connected[i] \in objects
    BY DEF CapacityInv, SafeInv, NoDanglingClient
  <2> QED
    BY <1>0, <2>1, <2>2 DEF ConnectedSet
<1>2. \A i \in 1 .. n : ConnectsOf(eventQueue, connected[i]) = {}
  BY <1>1 DEF CapacityInv, SafeInv, EachObjectFreedOnce, PendingConnects, ConnectsOf, ConnectedSet
<1>3. ASSUME NEW i \in 1 .. n, NEW j \in 1 .. n,
             peerOf[connected[i]] = peerOf[connected[j]]
      PROVE  i = j
  <2>1. ~(connected[i] < connected[j]) /\ ~(connected[j] < connected[i])
    BY <1>1, <1>2, <1>3 DEF CapacityInv, SlotHandedOver
  <2>2. connected[i] = connected[j]
    BY <1>1, <2>1
  <2> QED
    BY <2>2 DEF CapacityInv, SafeInv, EachObjectFreedOnce
<1>4. f \in Injection(1 .. n, Slots)
  <2>1. f \in [1 .. n -> Slots]
    BY <1>1 DEF CapacityInv, SlotHeld
  <2>2. \A i, j \in 1 .. n : f[i] = f[j] => i = j
    BY <1>3
  <2> HIDE DEF f
  <2> QED
    BY <2>1, <2>2 DEF Injection, IsInjective
<1>5. Cardinality(1 .. n) <= Cardinality(Slots)
  <2> HIDE DEF f
  <2> QED
    BY <1>4, FS_Injection, SlotsAssumption
<1> QED
  BY <1>1, <1>5, FS_Interval

(* However far the application lags behind, and whatever slots were used     *)
(* again meanwhile, it never has more clients than the host has peers.       *)
THEOREM CapacityHolds == Spec => []WithinCapacity
<1>1. Init => CapacityInv
  BY InitSafe DEF Init, CapacityInv, SlotHandedOver, SlotHeld
<1>2. CapacityInv /\ SafeInv' /\ [Next]_vars => CapacityInv'
  <2> SUFFICES ASSUME CapacityInv, SafeInv', UNCHANGED vars PROVE CapacityInv'
    BY NextKeepsSlots
  <2> QED
    BY DEF vars, CapacityInv, SlotHandedOver, SlotHeld, NetRunning, DisconnectsOf, ConnectsOf
<1> QED
  BY <1>1, <1>2, Safe, CapacityBound, PTL DEF Spec

--------------------------------------------------------------------------------
(* EnetServer implements ServerTransport: its initial states are initial      *)
(* states of ServerTransport, and each of its steps is a step of              *)
(* ServerTransport or leaves the connections, events and inboxes alone.       *)

(* A packet that is queued for u, as a sequence. *)
For(u, p) == IF p.to = u THEN <<p.msg>> ELSE <<>>

LEMMA ForType ==
    ASSUME NEW u, NEW p \in Packets
    PROVE  For(u, p) \in Seq(Msg)
  BY DEF For, Packets

LEMMA QueueShape ==
    ASSUME NEW u, NEW q \in Seq(Packets)
    PROVE  /\ [i \in DOMAIN q |-> For(u, q[i])] \in Seq(Seq(Msg))
           /\ Len([i \in DOMAIN q |-> For(u, q[i])]) = Len(q)
           /\ QueuedFor(u, q) = FlattenSeq([i \in DOMAIN q |-> For(u, q[i])])
<1>1. \A i \in 1 .. Len(q) : For(u, q[i]) \in Seq(Msg)
  BY ForType
<1>2. [i \in DOMAIN q |-> For(u, q[i])] \in [1 .. Len(q) -> Seq(Msg)]
  BY <1>1
<1>3. Len(q) \in Nat
  OBVIOUS
<1> QED
  BY <1>2, <1>3 DEF QueuedFor, For

LEMMA QueuedType ==
    ASSUME NEW u, NEW q \in Seq(Packets)
    PROVE  QueuedFor(u, q) \in Seq(Msg)
  BY QueueShape, FlattenType

LEMMA QueuedAppend ==
    ASSUME NEW u, NEW q \in Seq(Packets), NEW p \in Packets
    PROVE  QueuedFor(u, Append(q, p)) = QueuedFor(u, q) \o For(u, p)
<1> DEFINE qp == Append(q, p)
           ss == [i \in DOMAIN q |-> For(u, q[i])]
           tt == [i \in DOMAIN qp |-> For(u, qp[i])]
<1>1. /\ qp \in Seq(Packets) /\ Len(qp) = Len(q) + 1 /\ Len(q) \in Nat
      /\ \A i \in 1 .. Len(q) : qp[i] = q[i]
      /\ qp[Len(q) + 1] = p
  BY AppendFacts
<1>2. ss \in Seq(Seq(Msg)) /\ Len(ss) = Len(q) /\ QueuedFor(u, q) = FlattenSeq(ss)
  BY QueueShape
<1>3. tt \in Seq(Seq(Msg)) /\ Len(tt) = Len(qp) /\ QueuedFor(u, qp) = FlattenSeq(tt)
  <2> HIDE DEF qp
  <2> QED
    BY <1>1, QueueShape
<1>4. \A i \in 1 .. Len(q) : ss[i] = For(u, q[i]) /\ tt[i] = For(u, q[i])
  BY <1>1
<1>5. tt[Len(q) + 1] = For(u, p)
  BY <1>1
<1>6. For(u, p) \in Seq(Msg)
  BY ForType
<1>7. tt = Append(ss, For(u, p))
  <2> HIDE DEF ss, tt, qp
  <2>1. /\ Append(ss, For(u, p)) \in Seq(Seq(Msg))
        /\ Len(Append(ss, For(u, p))) = Len(q) + 1
        /\ \A i \in 1 .. Len(q) : Append(ss, For(u, p))[i] = ss[i]
        /\ Append(ss, For(u, p))[Len(q) + 1] = For(u, p)
    BY <1>2, <1>6, AppendFacts
  <2>2. \A i \in 1 .. Len(q) + 1 : i = Len(q) + 1 \/ i \in 1 .. Len(q)
    BY <1>1
  <2> QED
    BY <1>1, <1>3, <1>4, <1>5, <2>1, <2>2, SeqEqual
<1> QED
  <2> HIDE DEF ss, tt, qp
  <2>1. QueuedFor(u, qp) = QueuedFor(u, q) \o For(u, p)
    BY <1>2, <1>3, <1>6, <1>7, FlattenAppend
  <2> QED
    BY <2>1 DEF qp

LEMMA QueuedHead ==
    ASSUME NEW u, NEW q \in Seq(Packets), q # <<>>
    PROVE  QueuedFor(u, q) = For(u, Head(q)) \o QueuedFor(u, Tail(q))
<1> DEFINE tl == Tail(q)
           ss == [i \in DOMAIN q |-> For(u, q[i])]
           tt == [i \in DOMAIN tl |-> For(u, tl[i])]
<1>1. /\ tl \in Seq(Packets) /\ Len(tl) = Len(q) - 1 /\ Len(q) \in Nat \ {0}
      /\ \A i \in 1 .. Len(q) - 1 : tl[i] = q[i + 1]
      /\ Head(q) = q[1]
  BY TailFacts
<1>2. ss \in Seq(Seq(Msg)) /\ Len(ss) = Len(q) /\ QueuedFor(u, q) = FlattenSeq(ss)
  BY QueueShape
<1>3. tt \in Seq(Seq(Msg)) /\ Len(tt) = Len(tl) /\ QueuedFor(u, tl) = FlattenSeq(tt)
  <2> HIDE DEF tl
  <2> QED
    BY <1>1, QueueShape
<1>4. ss # <<>> /\ Head(ss) = For(u, Head(q))
  BY <1>1, <1>2
<1>5. Tail(ss) = tt
  <2>1. \A i \in 1 .. Len(q) - 1 : tt[i] = For(u, q[i + 1]) /\ ss[i + 1] = For(u, q[i + 1])
    BY <1>1
  <2> HIDE DEF ss, tt, tl
  <2>2. /\ Tail(ss) \in Seq(Seq(Msg)) /\ Len(Tail(ss)) = Len(q) - 1
        /\ \A i \in 1 .. Len(q) - 1 : Tail(ss)[i] = ss[i + 1]
    BY <1>2, <1>4, TailFacts
  <2>3. \A i \in 1 .. Len(q) - 1 : Tail(ss)[i] = tt[i]
    BY <2>1, <2>2
  <2>4. tt \in Seq(Seq(Msg)) /\ Len(tt) = Len(q) - 1
    BY <1>1, <1>3
  <2> QED
    BY <2>2, <2>3, <2>4, SeqEqual
<1> QED
  <2> HIDE DEF ss, tt, tl
  <2>1. QueuedFor(u, q) = For(u, Head(q)) \o QueuedFor(u, tl)
    BY <1>2, <1>3, <1>4, <1>5, FlattenCons
  <2> QED
    BY <2>1 DEF tl

LEMMA QueuedNone ==
    ASSUME NEW u, NEW q \in Seq(Packets), \A i \in 1 .. Len(q) : q[i].to # u
    PROVE  QueuedFor(u, q) = <<>>
<1> DEFINE ss == [i \in DOMAIN q |-> For(u, q[i])]
<1>1. ss \in Seq(Seq(Msg)) /\ Len(ss) = Len(q) /\ QueuedFor(u, q) = FlattenSeq(ss)
  BY QueueShape
<1>2. \A i \in 1 .. Len(q) : ss[i] = <<>>
  BY DEF For
<1> HIDE DEF ss
<1> QED
  BY <1>1, <1>2, FlattenNothing

(* What a handler sends, as ServerTransport sees it. *)
LEMMA SentNothing == \A u : Transport!MsgsTo(u, <<>>) = <<>>
<1> TAKE u
<1>1. [i \in DOMAIN <<>> |-> IF <<>>[i].to = u THEN <<<<>>[i].msg>> ELSE <<>>] = <<>>
  OBVIOUS
<1> QED
  BY <1>1 DEF Transport!MsgsTo, Transport!FlattenSeq

LEMMA SentOne ==
    ASSUME NEW u, NEW p \in Packets
    PROVE  Transport!MsgsTo(u, <<p>>) = For(u, p)
<1>1. [i \in DOMAIN <<p>> |-> IF <<p>>[i].to = u THEN <<<<p>>[i].msg>> ELSE <<>>]
         = <<For(u, p)>>
  BY DEF For
<1>2. Transport!MsgsTo(u, <<p>>) = FlattenSeq(<<For(u, p)>>)
  BY <1>1 DEF Transport!MsgsTo, Transport!FlattenSeq, FlattenSeq
<1> QED
  BY <1>2, ForType, FlattenOne

--------------------------------------------------------------------------------
(* The invariant: ENet holds packets for connected peers only, and packets   *)
(* are addressed to connections that have been accepted.                     *)

WireOfConnected == \A s \in Slots : wire[s] # <<>> => peerState[s] = "connected"

SentToKnown == \A i \in 1 .. Len(packetQueue) : packetQueue[i].to < nextUid

TransportInv == SafeInv /\ WireOfConnected /\ SentToKnown

LEMMA WireKept ==
    ASSUME TypeOK, WireOfConnected, Next
    PROVE  WireOfConnected'
<1>0. /\ wire \in [Slots -> Seq(Msg)] /\ peerMap \in [Uids -> Slots \cup {NoPeer}]
      /\ peerState \in [Slots -> {"free", "connected", "zombie"}]
  BY DEF TypeOK
<1>1. ASSUME UNCHANGED <<peerState, wire>> PROVE WireOfConnected'
  BY <1>1 DEF WireOfConnected
<1>2. ASSUME NEW s \in Slots, CaptureConnect(s) PROVE WireOfConnected'
  BY <1>0, <1>2 DEF CaptureConnect, WireOfConnected
<1>3. ASSUME NEW s \in Slots, CaptureDisconnect(s) PROVE WireOfConnected'
  BY <1>0, <1>3 DEF CaptureDisconnect, WireOfConnected
<1>4. ASSUME NEW s \in Slots, PeerLost(s) PROVE WireOfConnected'
  BY <1>0, <1>4 DEF PeerLost, WireOfConnected
<1>5. CASE SendPacket
  <2>1. PICK u \in Uids : Reachable(u) /\ \A s \in Slots :
                              s # peerMap[u] => wire'[s] = wire[s]
    <3>1. Head(packetQueue) \in Packets
      BY <1>5 DEF SendPacket, TypeOK
    <3>2. Head(packetQueue).to \in Uids
      BY <3>1 DEF Packets
    <3> QED
      BY <1>0, <1>5, <3>2 DEF SendPacket
  <2>2. peerState' = peerState
    BY <1>5 DEF SendPacket, netVars
  <2> QED
    BY <2>1, <2>2 DEF WireOfConnected, Reachable
<1>6. ASSUME NEW s \in Slots, Deliver(s) PROVE WireOfConnected'
  BY <1>0, <1>6 DEF Deliver, WireOfConnected, netVars
<1>7. CASE NetExit
  BY <1>7 DEF NetExit, WireOfConnected
<1> QED
  BY <1>1, <1>2, <1>3, <1>4, <1>5, <1>6, <1>7
  DEF Next, NetThread, AppThread, Network, CaptureReceive, DropPacket, DispatchConnect,
      DispatchReceive, DispatchDisconnect, RequestStop, StopCleanup, netVars

LEMMA SentKept ==
    ASSUME SafeInv, SafeInv', SentToKnown, Next
    PROVE  SentToKnown'
<1>0. /\ packetQueue \in Seq(Packets) /\ packetQueue' \in Seq(Packets)
      /\ nextUid \in Nat /\ nextUid' \in Nat /\ Uids \subseteq Nat
      /\ \A i \in 1 .. Len(packetQueue) : packetQueue[i].to \in Nat
  <2>1. Uids \subseteq Nat /\ \A p \in Packets : p.to \in Nat
    BY UidAssumption DEF Uids, Packets
  <2>2. packetQueue \in Seq(Packets) /\ packetQueue' \in Seq(Packets)
    BY DEF SafeInv, TypeOK
  <2>3. nextUid \in Nat /\ nextUid' \in Nat
    BY UidAssumption DEF SafeInv, TypeOK
  <2> QED
    BY <2>1, <2>2, <2>3
<1>1. nextUid <= nextUid'
  BY <1>0
  DEF Next, NetThread, AppThread, Network, CaptureConnect, CaptureReceive, CaptureDisconnect,
      SendPacket, DropPacket, NetExit, DispatchConnect, DispatchReceive, DispatchDisconnect,
      RequestStop, StopCleanup, PeerLost, Deliver, netVars
<1>2. ASSUME UNCHANGED packetQueue PROVE SentToKnown'
  BY <1>0, <1>1, <1>2 DEF SentToKnown
<1>3. ASSUME packetQueue # <<>>, packetQueue' = Tail(packetQueue) PROVE SentToKnown'
  <2>1. /\ Len(packetQueue) \in Nat \ {0}
        /\ Len(packetQueue') = Len(packetQueue) - 1
        /\ \A i \in 1 .. Len(packetQueue) - 1 : packetQueue'[i] = packetQueue[i + 1]
    BY <1>0, <1>3, TailFacts
  <2>2. ASSUME NEW i \in 1 .. Len(packetQueue') PROVE packetQueue'[i].to < nextUid'
    <3>1. i \in 1 .. Len(packetQueue) - 1 /\ i + 1 \in 1 .. Len(packetQueue)
      BY <2>1
    <3>2. packetQueue[i + 1].to < nextUid /\ packetQueue[i + 1].to \in Nat
      BY <1>0, <3>1 DEF SentToKnown
    <3> QED
      BY <1>0, <1>1, <2>1, <3>1, <3>2
  <2> QED
    BY <2>2 DEF SentToKnown
<1>4. ASSUME Enqueue PROVE SentToKnown'
  <2>1. CASE UNCHANGED packetQueue
    BY <1>2, <2>1
  <2>2. ASSUME NEW c \in Uids, NEW m \in Msg, InSeq(c, connected'),
               packetQueue' = Append(packetQueue, [to |-> c, msg |-> m])
        PROVE  SentToKnown'
    <3>0. c \in objects'
      BY <2>2 DEF SafeInv, NoDanglingClient, InSeq
    <3>1. c < nextUid' /\ c \in Nat
      <4>1. c \in 0 .. nextUid' - 1
        BY <3>0 DEF SafeInv, FreshUids
      <4>2. nextUid' \in Nat
        BY <1>0
      <4>3. \A n \in Nat : \A d \in 0 .. n - 1 : d < n /\ d \in Nat
        OBVIOUS
      <4> QED
        BY <4>1, <4>2, <4>3, Zenon
    <3>2. [to |-> c, msg |-> m] \in Packets
      BY DEF Packets
    <3>3. /\ Len(packetQueue') = Len(packetQueue) + 1
          /\ \A i \in 1 .. Len(packetQueue) : packetQueue'[i] = packetQueue[i]
          /\ packetQueue'[Len(packetQueue) + 1] = [to |-> c, msg |-> m]
      BY <1>0, <2>2, <3>2, AppendFacts
    <3>4. \A i \in 1 .. Len(packetQueue) + 1 :
             i = Len(packetQueue) + 1 \/ i \in 1 .. Len(packetQueue)
      BY <1>0
    <3> QED
      BY <1>0, <1>1, <3>1, <3>3, <3>4 DEF SentToKnown
  <2> QED
    BY <1>4, <2>1, <2>2 DEF Enqueue
<1>5. CASE StopCleanup
  BY <1>5 DEF StopCleanup, SentToKnown
<1> QED
  BY <1>2, <1>3, <1>4, <1>5
  DEF Next, NetThread, AppThread, Network, CaptureConnect, CaptureReceive, CaptureDisconnect,
      SendPacket, DropPacket, NetExit, DispatchConnect, DispatchReceive, DispatchDisconnect,
      RequestStop, PeerLost, Deliver, netVars

LEMMA TransportInvHolds == Spec => []TransportInv
<1>1. Init => WireOfConnected /\ SentToKnown
  BY DEF Init, WireOfConnected, SentToKnown
<1>2. SafeInv /\ SafeInv' /\ WireOfConnected /\ SentToKnown /\ [Next]_vars
         => WireOfConnected' /\ SentToKnown'
  <2>1. SafeInv => TypeOK
    BY DEF SafeInv
  <2>2. WireOfConnected /\ SentToKnown /\ UNCHANGED vars => WireOfConnected' /\ SentToKnown'
    BY DEF WireOfConnected, SentToKnown, vars
  <2> QED
    BY <2>1, <2>2, WireKept, SentKept
<1> QED
  BY <1>1, <1>2, Safe, PTL DEF Spec, TransportInv

--------------------------------------------------------------------------------
(* The steps.  An open connection has a slot of its own, and what is on its  *)
(* way to it is what ENet holds for that slot, then what is queued.          *)

LEMMA LiveFacts ==
    ASSUME TransportInv
    PROVE  \A u \in Live : /\ u \in Uids /\ peerMap[u] \in Slots /\ peerData[peerMap[u]] = u
                           /\ peerState[peerMap[u]] \in {"connected", "zombie"}
                           /\ u < nextUid
<1> SUFFICES ASSUME NEW u \in Live
             PROVE  /\ u \in Uids /\ peerMap[u] \in Slots /\ peerData[peerMap[u]] = u
                    /\ peerState[peerMap[u]] \in {"connected", "zombie"}
                    /\ u < nextUid
  OBVIOUS
<1>1. u \in Uids /\ peerMap[u] \in Slots /\ peerData[peerMap[u]] = u
  BY DEF Live, TransportInv, SafeInv, TypeOK, PeerMapAgrees
<1>2. peerState[peerMap[u]] \in {"connected", "zombie"}
  BY <1>1, UidAssumption DEF TransportInv, SafeInv, TypeOK, PeerMapAgrees
<1>3. u \in objects
  BY <1>1, UidAssumption DEF TransportInv, SafeInv, NoDanglingClient
<1>4. u \in 0 .. nextUid - 1 /\ nextUid \in Nat
  BY <1>3, UidAssumption DEF TransportInv, SafeInv, FreshUids, TypeOK
<1>5. \A n \in Nat : \A d \in 0 .. n - 1 : d < n
  OBVIOUS
<1>6. u < nextUid
  BY <1>4, <1>5, Zenon
<1> QED
  BY <1>1, <1>2, <1>6

LEMMA InboxFacts ==
    ASSUME TypeOK
    PROVE  /\ Inbox \in [Uids -> Seq(Msg)]
           /\ \A u \in Uids : QueuedFor(u, packetQueue) \in Seq(Msg)
           /\ \A u \in Live : wire[peerMap[u]] \in Seq(Msg)
<1>1. \A u \in Live : u \in Uids /\ wire[peerMap[u]] \in Seq(Msg)
  BY DEF TypeOK, Live
<1>2. \A u \in Uids : QueuedFor(u, packetQueue) \in Seq(Msg)
  BY QueuedType DEF TypeOK
<1>3. \A u \in Uids : (IF u \in Live THEN wire[peerMap[u]] \o QueuedFor(u, packetQueue)
                                     ELSE <<>>) \in Seq(Msg)
  BY <1>1, <1>2, ConcatProperties
<1> QED
  BY <1>1, <1>2, <1>3 DEF Inbox

LEMMA InboxType == TypeOK => Inbox \in [Uids -> Seq(Msg)]
  BY InboxFacts

LEMMA InboxNext ==
    ASSUME TypeOK'
    PROVE  /\ Inbox' \in [Uids -> Seq(Msg)]
           /\ \A u \in Uids : Inbox'[u] =
                 IF u \in Live' THEN wire'[peerMap'[u]] \o QueuedFor(u, packetQueue')
                                ELSE <<>>
<1>1. (Inbox \in [Uids -> Seq(Msg)])'
  BY InboxType, PTL
<1>2. \A u \in Uids : Inbox'[u] =
          IF u \in Live' THEN wire'[peerMap'[u]] \o QueuedFor(u, packetQueue')
                         ELSE <<>>
  BY DEF Inbox
<1> QED
  BY <1>1, <1>2

LEMMA SameCardinality == \A S : Transport!Cardinality(S) = Cardinality(S)
  BY DEF Cardinality, Transport!Cardinality

(* A new connection takes a free slot, so that there is room for it, and     *)
(* nothing has been sent to it yet.                                          *)
LEMMA ConnectStep ==
    ASSUME TransportInv, TransportInv', NEW s \in Slots, CaptureConnect(s)
    PROVE  Transport!Connect
<1> DEFINE c == nextUid
<1>0. /\ TypeOK /\ TypeOK' /\ c \in Nat /\ c \in Uids
  BY UidAssumption DEF CaptureConnect, TransportInv, SafeInv, TypeOK, Uids
<1>1. /\ peerMap' = [peerMap EXCEPT ![c] = s]
      /\ peerState' = [peerState EXCEPT ![s] = "connected"]
      /\ peerState[s] = "free"
      /\ UNCHANGED <<packetQueue, connected, wire>>
  BY DEF CaptureConnect
<1>2. peerMap[c] = NoPeer
  <2>1. c \notin Live
    BY <1>0, LiveFacts
  <2> QED
    BY <1>0, <2>1 DEF Live
<1>3. Live' = Live \cup {c}
  BY <1>0, <1>1, <1>2, SlotsAssumption DEF Live, TypeOK
<1>4. \A u \in Live : peerMap[u] \in Slots \ {s} /\ peerMap'[u] = peerMap[u]
  BY <1>0, <1>1, <1>2, LiveFacts DEF Live, TypeOK
<1>5. Breaking' = Breaking
  BY <1>0, <1>1, <1>3, <1>4 DEF Breaking, TypeOK
<1>6. Inbox' = Inbox
  <2>1. wire[s] = <<>>
    BY <1>1 DEF TransportInv, WireOfConnected
  <2>2. QueuedFor(c, packetQueue) = <<>>
    <3>1. \A i \in 1 .. Len(packetQueue) : packetQueue[i].to # c
      BY <1>0 DEF TransportInv, SentToKnown
    <3> QED
      BY <1>0, <3>1, QueuedNone DEF TypeOK
  <2>3. \A u \in Live : Inbox'[u] = Inbox[u]
    BY <1>1, <1>3, <1>4 DEF Inbox, Live
  <2>4. Inbox'[c] = Inbox[c]
    <3>1. Inbox[c] = <<>>
      BY <1>0, <1>2 DEF Inbox, Live
    <3>2. Inbox'[c] = wire[s] \o QueuedFor(c, packetQueue)
      BY <1>0, <1>1, <1>3, InboxNext DEF TypeOK
    <3> QED
      BY <2>1, <2>2, <3>1, <3>2
  <2>5. \A u \in Uids : u \notin Live \cup {c} => Inbox'[u] = Inbox[u]
    BY <1>3 DEF Inbox
  <2>6. \A u \in Uids : Inbox'[u] = Inbox[u]
    BY <2>3, <2>4, <2>5
  <2>7. Inbox \in [Uids -> Seq(Msg)] /\ Inbox' \in [Uids -> Seq(Msg)]
    BY <1>0, InboxFacts, InboxNext
  <2> QED
    BY <2>6, <2>7
<1>7. Cardinality(Live) < Cardinality(Slots)
  <2> DEFINE f == [u \in Live |-> peerMap[u]]
  <2>1. f \in [Live -> Slots \ {s}]
    BY <1>4
  <2>2. \A u, v \in Live : f[u] = f[v] => u = v
    BY LiveFacts
  <2>3. f \in Injection(Live, Slots \ {s})
    <3> HIDE DEF f
    <3> QED
      BY <2>1, <2>2 DEF Injection, IsInjective
  <2>4. IsFiniteSet(Slots \ {s}) /\ Cardinality(Slots \ {s}) = Cardinality(Slots) - 1
        /\ Cardinality(Slots) \in Nat
    BY SlotsAssumption, FS_RemoveElement, FS_CardinalityType
  <2>5. IsFiniteSet(Live) /\ Cardinality(Live) <= Cardinality(Slots \ {s})
    <3> HIDE DEF f
    <3> QED
      BY <2>3, <2>4, FS_Injection
  <2> QED
    BY <2>4, <2>5, FS_CardinalityType
<1>8. eventQueue' = Append(eventQueue, Transport!Event("connect", c, NoMsg))
  BY DEF CaptureConnect, Event, Transport!Event
<1>9. c < MaxUid /\ nextUid' = c + 1 /\ UNCHANGED connected
  BY DEF CaptureConnect
<1> QED
  BY <1>3, <1>5, <1>6, <1>7, <1>8, <1>9, SameCardinality DEF Transport!Connect

LEMMA ReceiveStep ==
    ASSUME TransportInv, NEW s \in Slots, NEW m \in Msg, CaptureReceive(s, m)
    PROVE  \E c \in Live : Transport!Receive(c, m)
<1> DEFINE c == peerData[s]
<1>1. c \in Uids /\ peerMap[c] = s
  BY DEF CaptureReceive, TransportInv, SafeInv, TypeOK, PeerMapAgrees
<1>2. c \in Live \ Breaking
  BY <1>1, SlotsAssumption DEF CaptureReceive, Live, Breaking
<1>3. UNCHANGED <<Live, Breaking, Inbox>>
  BY DEF CaptureReceive, netVars, Live, Breaking, Inbox
<1> QED
  BY <1>2, <1>3 DEF CaptureReceive, netVars, Transport!Receive, Event, Transport!Event

(* A connection breaks with its peer: what ENet held is lost at once. *)
LEMMA BreakStep ==
    ASSUME TransportInv, TypeOK', NEW s \in Slots, PeerLost(s)
    PROVE  \E c \in Live : Transport!Break(c)
<1> DEFINE c == peerData[s]
           n == Len(wire[s])
<1>0. TypeOK /\ wire[s] \in Seq(Msg) /\ n \in Nat
  BY DEF TransportInv, SafeInv, TypeOK
<1>1. /\ peerState[s] = "connected" /\ peerState' = [peerState EXCEPT ![s] = "zombie"]
      /\ wire' = [wire EXCEPT ![s] = <<>>]
      /\ UNCHANGED <<nextUid, peerMap, eventQueue, packetQueue, connected>>
  BY DEF PeerLost
<1>2. c \in Uids /\ peerMap[c] = s
  BY <1>1 DEF TransportInv, SafeInv, TypeOK, PeerMapAgrees
<1>3. c \in Live \ Breaking
  BY <1>1, <1>2, SlotsAssumption DEF Live, Breaking
<1>4. \A u \in Live : peerMap[u] \in Slots /\ (peerMap[u] = s => u = c)
  BY LiveFacts
<1>5. Live' = Live
  BY <1>1 DEF Live
<1>6. Breaking' = Breaking \cup {c}
  BY <1>0, <1>1, <1>2, <1>3, <1>4, <1>5 DEF Breaking, TypeOK
<1>7. Inbox' = [Inbox EXCEPT ![c] = SubSeq(Inbox[c], n + 1, Len(Inbox[c]))]
  <2>1. \A u \in Uids : u # c => Inbox'[u] = Inbox[u]
    BY <1>0, <1>1, <1>4, <1>5, InboxNext DEF TypeOK, Inbox
  <2>2. Inbox'[c] = QueuedFor(c, packetQueue)
    <3>1. Inbox'[c] = wire'[s] \o QueuedFor(c, packetQueue)
      BY <1>1, <1>2, <1>3, <1>5, InboxNext
    <3>2. wire'[s] = <<>>
      BY <1>0, <1>1 DEF TypeOK
    <3> QED
      BY <1>0, <1>2, <3>1, <3>2, InboxFacts, ConcatEmptySeq
  <2>3. Inbox[c] = wire[s] \o QueuedFor(c, packetQueue)
    BY <1>2, <1>3 DEF Inbox
  <2>4. SubSeq(Inbox[c], n + 1, Len(Inbox[c])) = QueuedFor(c, packetQueue)
    BY <1>0, <1>2, <2>3, InboxFacts, DropOfConcat
  <2>5. Inbox \in [Uids -> Seq(Msg)] /\ Inbox' \in [Uids -> Seq(Msg)]
    BY <1>0, InboxFacts, InboxNext
  <2>6. Inbox'[c] = SubSeq(Inbox[c], n + 1, Len(Inbox[c]))
    BY <2>2, <2>4
  <2> QED
    BY <2>1, <2>5, <2>6
<1>8. n \in 0 .. Len(Inbox[c])
  <2>1. Inbox[c] = wire[s] \o QueuedFor(c, packetQueue)
    BY <1>2, <1>3 DEF Inbox
  <2>2. QueuedFor(c, packetQueue) \in Seq(Msg)
    BY <1>0, <1>2, InboxFacts
  <2>3. Len(QueuedFor(c, packetQueue)) \in Nat
    BY <2>2, LenProperties
  <2>4. Len(Inbox[c]) = n + Len(QueuedFor(c, packetQueue))
    BY <1>0, <2>1, <2>2, ConcatProperties
  <2> HIDE DEF n
  <2> QED
    BY <1>0, <2>3, <2>4
<1> QED
  <2> HIDE DEF c, n
  <2> QED
    BY <1>1, <1>3, <1>5, <1>6, <1>7, <1>8 DEF Transport!Break

LEMMA DisconnectStep ==
    ASSUME TransportInv, TypeOK', NEW s \in Slots, CaptureDisconnect(s)
    PROVE  \E c \in Live : Transport!Disconnect(c)
<1> DEFINE c == peerData[s]
<1>0. TypeOK
  BY DEF TransportInv, SafeInv
<1>1. /\ peerState[s] = "zombie" /\ peerState' = [peerState EXCEPT ![s] = "free"]
      /\ peerMap' = [peerMap EXCEPT ![c] = NoPeer]
      /\ UNCHANGED <<nextUid, packetQueue, connected, wire>>
  BY DEF CaptureDisconnect
<1>2. c \in Uids /\ peerMap[c] = s
  BY DEF CaptureDisconnect, TransportInv, SafeInv, TypeOK, PeerMapAgrees
<1>3. c \in Live /\ c \in Breaking
  BY <1>1, <1>2, SlotsAssumption DEF Live, Breaking
<1>4. \A u \in Live : peerMap[u] \in Slots /\ (peerMap[u] = s => u = c)
  BY LiveFacts
<1>5. Live' = Live \ {c}
  BY <1>0, <1>1, <1>2 DEF Live, TypeOK
<1>6. \A u \in Live' : peerMap'[u] = peerMap[u] /\ peerMap[u] # s
  BY <1>0, <1>1, <1>2, <1>4, <1>5 DEF TypeOK, Live
<1>7. Breaking' = Breaking \ {c}
  BY <1>0, <1>1, <1>4, <1>5, <1>6 DEF Breaking, TypeOK
<1>8. Inbox' = [Inbox EXCEPT ![c] = <<>>]
  <2>1. \A u \in Uids : u # c => Inbox'[u] = Inbox[u]
    BY <1>1, <1>5, <1>6, InboxNext DEF Inbox
  <2>2. Inbox'[c] = <<>>
    BY <1>2, <1>5, InboxNext
  <2>3. Inbox \in [Uids -> Seq(Msg)] /\ Inbox' \in [Uids -> Seq(Msg)]
    BY <1>0, InboxFacts, InboxNext
  <2> QED
    BY <2>1, <2>2, <2>3
<1>9. eventQueue' = Append(eventQueue, Transport!Event("disconnect", c, NoMsg))
  BY DEF CaptureDisconnect, Event, Transport!Event
<1> QED
  <2> HIDE DEF c
  <2> QED
    BY <1>1, <1>3, <1>5, <1>7, <1>8, <1>9 DEF Transport!Disconnect

(* A queued packet that is handed to ENet stays in the same inbox. *)
LEMMA SendStep ==
    ASSUME TransportInv, TypeOK', SendPacket
    PROVE  UNCHANGED <<Live, Breaking, Inbox>>
<1> DEFINE p == Head(packetQueue)
           s == peerMap[p.to]
<1>0. TypeOK /\ packetQueue \in Seq(Packets)
  BY DEF TransportInv, SafeInv, TypeOK
<1>1. /\ packetQueue # <<>> /\ packetQueue' = Tail(packetQueue)
      /\ wire' = [wire EXCEPT ![s] = Append(@, p.msg)]
      /\ UNCHANGED <<peerMap, peerState>>
  BY DEF SendPacket, netVars
<1>2. p \in Packets /\ Tail(packetQueue) \in Seq(Packets)
  BY <1>0, <1>1
<1>3. p.to \in Uids /\ p.to \in Live /\ p.msg \in Msg
  BY <1>2 DEF SendPacket, Reachable, Live, Packets
<1>4. Live' = Live /\ Breaking' = Breaking
  BY <1>1 DEF Live, Breaking
<1>5. ASSUME NEW u \in Live PROVE Inbox'[u] = Inbox[u]
  <2> DEFINE rest == QueuedFor(u, Tail(packetQueue))
             w == wire[peerMap[u]]
  <2>1. u \in Uids /\ peerMap[u] \in Slots
    BY LiveFacts
  <2>2. w \in Seq(Msg) /\ rest \in Seq(Msg) /\ For(u, p) \in Seq(Msg)
    BY <1>0, <1>2, <2>1, QueuedType, ForType DEF TypeOK
  <2>3. Inbox[u] = w \o (For(u, p) \o rest)
    <3>1. QueuedFor(u, packetQueue) = For(u, p) \o rest
      BY <1>0, <1>1, QueuedHead
    <3> QED
      BY <2>1, <3>1 DEF Inbox
  <2>4. Inbox'[u] = wire'[peerMap[u]] \o rest
    BY <1>1, <1>4, <2>1, InboxNext
  <2>5. wire'[peerMap[u]] = w \o For(u, p)
    <3>1. CASE u = p.to
      <4>1. wire'[peerMap[u]] = Append(w, p.msg)
        BY <1>0, <1>1, <2>1, <3>1 DEF TypeOK
      <4>2. For(u, p) = <<p.msg>>
        BY <3>1 DEF For
      <4> QED
        BY <1>3, <2>2, <4>1, <4>2, AppendIsConcat
    <3>2. CASE u # p.to
      <4>1. peerMap[u] # s
        BY <1>3, <3>2, LiveFacts
      <4>2. For(u, p) = <<>>
        BY <3>2 DEF For
      <4>3. wire'[peerMap[u]] = w
        BY <1>0, <1>1, <2>1, <4>1 DEF TypeOK
      <4> QED
        BY <2>2, <4>2, <4>3, ConcatEmptySeq
    <3> QED
      BY <3>1, <3>2
  <2>6. (w \o For(u, p)) \o rest = w \o (For(u, p) \o rest)
    <3> HIDE DEF w, rest, p
    <3> QED
      BY <2>2, Associative
  <2> QED
    BY <2>3, <2>4, <2>5, <2>6
<1>6. \A u \in Uids : u \notin Live => Inbox'[u] = Inbox[u]
  BY <1>4 DEF Inbox
<1>7. Inbox \in [Uids -> Seq(Msg)] /\ Inbox' \in [Uids -> Seq(Msg)]
  BY <1>0, InboxFacts, InboxNext
<1>8. \A u \in Uids : Inbox'[u] = Inbox[u]
  BY <1>5, <1>6
<1> QED
  BY <1>4, <1>7, <1>8

(* One that is dropped was addressed to a connection that is gone, or to one *)
(* that is breaking.                                                         *)
LEMMA DropStep ==
    ASSUME TransportInv, TypeOK', DropPacket
    PROVE  \/ UNCHANGED <<Live, Breaking, Inbox>>
           \/ \E c \in Live : Transport!Lose(c)
<1> DEFINE p == Head(packetQueue)
           c == p.to
<1>0. TypeOK /\ packetQueue \in Seq(Packets)
  BY DEF TransportInv, SafeInv, TypeOK
<1>1. /\ packetQueue # <<>> /\ packetQueue' = Tail(packetQueue)
      /\ UNCHANGED <<peerMap, peerState, wire>>
  BY DEF DropPacket, netVars
<1>2. p \in Packets /\ Tail(packetQueue) \in Seq(Packets)
  BY <1>0, <1>1
<1>3. c \in Uids /\ p.msg \in Msg
  BY <1>2 DEF Packets
<1>4. Live' = Live /\ Breaking' = Breaking
  BY <1>1 DEF Live, Breaking
<1>5. \A u \in Uids : u # c => Inbox'[u] = Inbox[u]
  <2> SUFFICES ASSUME NEW u \in Uids, u # c PROVE Inbox'[u] = Inbox[u]
    OBVIOUS
  <2>1. For(u, p) = <<>>
    BY DEF For
  <2>2. QueuedFor(u, packetQueue) = QueuedFor(u, Tail(packetQueue))
    <3>1. QueuedFor(u, packetQueue) = For(u, p) \o QueuedFor(u, Tail(packetQueue))
      BY <1>0, <1>1, QueuedHead
    <3>2. QueuedFor(u, Tail(packetQueue)) \in Seq(Msg)
      BY <1>2, QueuedType
    <3> HIDE DEF p
    <3> QED
      BY <2>1, <3>1, <3>2, ConcatEmptySeq
  <2> QED
    BY <1>1, <1>4, <2>2, InboxNext DEF Inbox
<1>6. Inbox \in [Uids -> Seq(Msg)] /\ Inbox' \in [Uids -> Seq(Msg)]
  BY <1>0, InboxFacts, InboxNext
<1>7. CASE c \notin Live
  <2>1. \A u \in Uids : Inbox'[u] = Inbox[u]
    BY <1>4, <1>5, <1>7 DEF Inbox
  <2> QED
    BY <1>4, <1>6, <2>1
<1>8. CASE c \in Live
  <2> DEFINE rest == QueuedFor(c, Tail(packetQueue))
  <2>1. peerMap[c] \in Slots /\ peerState[peerMap[c]] = "zombie"
    BY <1>8, LiveFacts DEF DropPacket, Reachable, Live
  <2>2. c \in Breaking /\ wire[peerMap[c]] = <<>>
    BY <1>8, <2>1 DEF Breaking, TransportInv, WireOfConnected
  <2>3. rest \in Seq(Msg) /\ <<p.msg>> \in Seq(Msg)
    <3>1. rest \in Seq(Msg)
      BY <1>2, QueuedType
    <3> HIDE DEF p
    <3> QED
      BY <1>3, <3>1
  <2>4. Inbox[c] = <<p.msg>> \o rest
    <3>1. QueuedFor(c, packetQueue) = <<p.msg>> \o rest
      BY <1>0, <1>1, QueuedHead DEF For
    <3>2. <<p.msg>> \o rest \in Seq(Msg)
      BY <2>3, ConcatProperties
    <3> QED
      BY <1>3, <1>8, <2>2, <3>1, <3>2, ConcatEmptySeq DEF Inbox
  <2>5. Inbox'[c] = rest
    BY <1>1, <1>3, <1>4, <1>8, <2>2, <2>3, InboxNext, ConcatEmptySeq
  <2>6. Inbox[c] # <<>> /\ Tail(Inbox[c]) = rest
    BY <2>3, <2>4
  <2>7. Inbox' = [Inbox EXCEPT ![c] = Tail(Inbox[c])]
    BY <1>5, <1>6, <2>5, <2>6
  <2>8. Transport!Lose(c)
    <3> HIDE DEF c
    <3> QED
      BY <1>4, <2>2, <2>6, <2>7 DEF Transport!Lose, DropPacket, netVars
  <2> QED
    BY <1>8, <2>8
<1> QED
  BY <1>7, <1>8

LEMMA TakeStep ==
    ASSUME TransportInv, TypeOK', NEW s \in Slots, Deliver(s)
    PROVE  \E c \in Live : Transport!Take(c)
<1> DEFINE c == peerData[s]
<1>0. TypeOK
  BY DEF TransportInv, SafeInv
<1>1. /\ wire[s] # <<>> /\ wire' = [wire EXCEPT ![s] = Tail(@)]
      /\ UNCHANGED <<nextUid, peerMap, peerState, packetQueue, eventQueue, connected>>
  BY DEF Deliver, netVars
<1>2. peerState[s] = "connected"
  BY <1>1 DEF TransportInv, WireOfConnected
<1>3. c \in Uids /\ peerMap[c] = s
  BY <1>2 DEF TransportInv, SafeInv, TypeOK, PeerMapAgrees
<1>4. c \in Live /\ c \notin Breaking
  BY <1>2, <1>3, SlotsAssumption DEF Live, Breaking
<1>5. Live' = Live /\ Breaking' = Breaking
  BY <1>1 DEF Live, Breaking
<1>6. \A u \in Uids : u # c => Inbox'[u] = Inbox[u]
  <2>1. \A u \in Live : u # c => wire'[peerMap[u]] = wire[peerMap[u]]
    BY <1>0, <1>1, LiveFacts DEF TypeOK
  <2> QED
    BY <1>1, <1>5, <2>1, InboxNext DEF Inbox
<1>7. Inbox[c] = wire[s] \o QueuedFor(c, packetQueue)
      /\ Inbox'[c] = Tail(wire[s]) \o QueuedFor(c, packetQueue)
  <2>1. wire'[s] = Tail(wire[s])
    BY <1>0, <1>1 DEF TypeOK
  <2> QED
    BY <1>1, <1>3, <1>4, <1>5, <2>1, InboxNext DEF Inbox
<1>8. Inbox[c] # <<>> /\ Inbox'[c] = Tail(Inbox[c])
  <2>1. wire[s] \in Seq(Msg) /\ QueuedFor(c, packetQueue) \in Seq(Msg)
    BY <1>0, <1>3, InboxFacts DEF TypeOK
  <2> QED
    BY <1>1, <1>7, <2>1, TailOfConcat
<1>9. Inbox' = [Inbox EXCEPT ![c] = Tail(Inbox[c])]
  <2>1. Inbox \in [Uids -> Seq(Msg)] /\ Inbox' \in [Uids -> Seq(Msg)]
    BY <1>0, InboxFacts, InboxNext
  <2> QED
    BY <1>6, <1>8, <2>1
<1> QED
  <2> HIDE DEF c
  <2> QED
    BY <1>1, <1>4, <1>5, <1>8, <1>9 DEF Transport!Take

(* The end of the network thread, and what stop_listening clears after it. *)
LEMMA StopSteps ==
    ASSUME TransportInv, TypeOK', NetExit \/ StopCleanup
    PROVE  Transport!CloseAll \/ Transport!Discard
<1>0. TypeOK /\ Inbox \in [Uids -> Seq(Msg)] /\ Inbox' \in [Uids -> Seq(Msg)]
  BY InboxFacts, InboxNext DEF TransportInv, SafeInv
<1>1. Transport!Uids = Uids
  BY DEF Uids, Transport!Uids
<1>2. CASE NetExit
  <2>1. Live' = {} /\ Breaking' = {} /\ Inbox' = [u \in Uids |-> <<>>]
    BY <1>2 DEF NetExit, Live, Breaking, Inbox
  <2>2. UNCHANGED <<nextUid, eventQueue, connected>>
    BY <1>2 DEF NetExit
  <2> QED
    BY <1>1, <2>1, <2>2 DEF Transport!CloseAll
<1>3. CASE StopCleanup
  <2>1. peerMap' = peerMap /\ peerState' = peerState /\ nextUid' = nextUid
        /\ eventQueue' = <<>> /\ connected' = <<>>
    BY <1>3 DEF StopCleanup, netVars
  <2>2. \A s \in Slots : peerData[s] = NoClient
    BY <1>3 DEF StopCleanup, TransportInv, SafeInv, HostGone, NetRunning
  <2>3. Live = {}
    BY <2>2, LiveFacts, UidAssumption
  <2>4. Live' = Live /\ Breaking' = Breaking
    BY <2>1 DEF Live, Breaking
  <2>5. Inbox' = Inbox
    BY <2>3, <2>4 DEF Inbox
  <2> QED
    BY <2>1, <2>3, <2>4, <2>5 DEF Transport!Discard
<1> QED
  BY <1>2, <1>3

(* What a handler queues lies behind everything else that is on its way. *)
LEMMA PostStep ==
    ASSUME TypeOK, TypeOK', Enqueue, UNCHANGED <<peerMap, wire>>
    PROVE  \E sends \in Transport!OneSend : Transport!Post(sends)
<1>0. /\ packetQueue \in Seq(Packets) /\ Transport!Uids = Uids /\ Live' = Live
      /\ Inbox \in [Uids -> Seq(Msg)]
  BY InboxFacts DEF TypeOK, Uids, Transport!Uids, Live
<1>1. CASE UNCHANGED packetQueue
  <2>1. \A u \in Uids : Inbox'[u] = IF u \in Live THEN Inbox[u] \o <<>> ELSE Inbox[u]
    <3> SUFFICES ASSUME NEW u \in Uids
                 PROVE  Inbox'[u] = IF u \in Live THEN Inbox[u] \o <<>> ELSE Inbox[u]
      OBVIOUS
    <3>1. Inbox'[u] = Inbox[u]
      BY <1>0, <1>1, InboxNext DEF Inbox
    <3>2. Inbox[u] \o <<>> = Inbox[u]
      BY <1>0, ConcatEmptySeq
    <3> QED
      BY <3>1, <3>2
  <2>2. Inbox' = [u \in Uids |-> IF u \in Live THEN Inbox[u] \o Transport!MsgsTo(u, <<>>)
                                              ELSE Inbox[u]]
    <3>1. Inbox' = [u \in Uids |-> Inbox'[u]]
      BY InboxNext
    <3> QED
      BY <2>1, <3>1, SentNothing
  <2>3. Transport!Post(<<>>)
    BY <1>0, <2>2 DEF Transport!Post
  <2> QED
    BY <2>3 DEF Transport!OneSend
<1>2. ASSUME NEW c \in Uids, NEW m \in Msg,
             packetQueue' = Append(packetQueue, [to |-> c, msg |-> m])
      PROVE  \E sends \in Transport!OneSend : Transport!Post(sends)
  <2> DEFINE p == [to |-> c, msg |-> m]
  <2>1. p \in Packets
    BY DEF Packets
  <2>2. \A u \in Uids : Inbox'[u] = IF u \in Live THEN Inbox[u] \o For(u, p) ELSE Inbox[u]
    <3> SUFFICES ASSUME NEW u \in Uids
                 PROVE  Inbox'[u] = IF u \in Live THEN Inbox[u] \o For(u, p) ELSE Inbox[u]
      OBVIOUS
    <3>1. CASE u \notin Live
      BY <1>0, <3>1, InboxNext DEF Inbox
    <3>2. CASE u \in Live
      <4> DEFINE w == wire[peerMap[u]]
                 queued == QueuedFor(u, packetQueue)
      <4>1. w \in Seq(Msg) /\ queued \in Seq(Msg) /\ For(u, p) \in Seq(Msg)
        BY <2>1, <3>2, InboxFacts, ForType
      <4>2. QueuedFor(u, packetQueue') = queued \o For(u, p)
        BY <1>0, <1>2, <2>1, QueuedAppend
      <4>3. Inbox'[u] = w \o (queued \o For(u, p)) /\ Inbox[u] = w \o queued
        BY <1>0, <3>2, <4>2, InboxNext DEF Inbox
      <4>4. (w \o queued) \o For(u, p) = w \o (queued \o For(u, p))
        <5> HIDE DEF w, queued, p
        <5> QED
          BY <4>1, Associative
      <4> QED
        BY <3>2, <4>3, <4>4
    <3> QED
      BY <3>1, <3>2
  <2>3. \A u \in Uids : Transport!MsgsTo(u, <<p>>) = For(u, p)
    BY <2>1, SentOne
  <2>4. Inbox' = [u \in Uids |-> IF u \in Live THEN Inbox[u] \o Transport!MsgsTo(u, <<p>>)
                                              ELSE Inbox[u]]
    <3>1. Inbox' = [u \in Uids |-> Inbox'[u]]
      BY InboxNext
    <3> HIDE DEF p
    <3> QED
      BY <2>2, <2>3, <3>1
  <2>5. Transport!Post(<<p>>)
    BY <1>0, <2>4 DEF Transport!Post
  <2>6. <<p>> \in Transport!OneSend
    BY <1>0 DEF Transport!OneSend
  <2> QED
    BY <2>5, <2>6
<1> QED
  BY <1>1, <1>2 DEF Enqueue

(* A client is in the list once: RemoveFirst and EraseAt erase the same. *)
LEMMA ErasedFirst ==
    ASSUME NEW S, NEW q \in Seq(S), NEW c, NEW i \in 1 .. Len(q), q[i] = c,
           \A j \in 1 .. i - 1 : q[j] # c
    PROVE  Transport!RemoveFirst(q, c) = EraseAt(q, i)
<1> DEFINE I == {j \in 1 .. Len(q) : q[j] = c}
           before == SubSeq(q, 1, i - 1)
           behind == SubSeq(q, i + 1, Len(q))
<1>1. Transport!Min(I) = i
  <2>1. i \in I /\ \A j \in I : i <= j
    BY SMT
  <2>2. \A k \in I : (\A j \in I : k <= j) => k = i
    BY <2>1
  <2> HIDE DEF I
  <2> QED
    BY <2>1, <2>2 DEF Transport!Min
<1>2. Transport!RemoveFirst(q, c) = before \o behind
  BY <1>1 DEF Transport!RemoveFirst, Transport!SelectInSeq, Transport!RemoveAt
<1>3. EraseAt(q, i) \in Seq(S) /\ Len(EraseAt(q, i)) = Len(q) - 1
      /\ \A j \in 1 .. Len(q) - 1 : EraseAt(q, i)[j] = IF j < i THEN q[j] ELSE q[j + 1]
  BY EraseFacts
<1>4. /\ before \in Seq(S) /\ Len(before) = i - 1 /\ \A j \in 1 .. i - 1 : before[j] = q[j]
      /\ behind \in Seq(S) /\ Len(behind) = Len(q) - i
      /\ \A j \in 1 .. Len(q) - i : behind[j] = q[i + j]
  OBVIOUS
<1>5. /\ before \o behind \in Seq(S) /\ Len(before \o behind) = Len(q) - 1
      /\ \A j \in 1 .. Len(q) - 1 : (before \o behind)[j] =
             IF j < i THEN q[j] ELSE q[j + 1]
  <2> HIDE DEF before, behind
  <2>0. /\ before \o behind \in Seq(S) /\ Len(before \o behind) = Len(before) + Len(behind)
        /\ \A j \in 1 .. Len(before) + Len(behind) : (before \o behind)[j] =
               IF j <= Len(before) THEN before[j] ELSE behind[j - Len(before)]
    BY <1>4, ConcatProperties, Zenon
  <2>1. /\ before \o behind \in Seq(S) /\ Len(before \o behind) = (i - 1) + (Len(q) - i)
        /\ \A j \in 1 .. (i - 1) + (Len(q) - i) : (before \o behind)[j] =
               IF j <= i - 1 THEN before[j] ELSE behind[j - (i - 1)]
    BY <1>4, <2>0, Zenon
  <2>2. (i - 1) + (Len(q) - i) = Len(q) - 1
    OBVIOUS
  <2>3. ASSUME NEW j \in 1 .. Len(q) - 1
        PROVE  (before \o behind)[j] = IF j < i THEN q[j] ELSE q[j + 1]
    <3>1. CASE j < i
      <4>1. j \in 1 .. i - 1 /\ j <= i - 1
        BY <3>1
      <4> QED
        BY <1>4, <2>1, <2>2, <3>1, <4>1
    <3>2. CASE ~(j < i)
      <4>1. j - (i - 1) \in 1 .. Len(q) - i /\ i + (j - (i - 1)) = j + 1 /\ ~(j <= i - 1)
        BY <3>2
      <4>2. behind[j - (i - 1)] = q[i + (j - (i - 1))]
        BY <1>4, <4>1
      <4> QED
        BY <2>1, <2>2, <3>2, <4>1, <4>2
    <3> QED
      BY <3>1, <3>2
  <2> QED
    BY <2>1, <2>2, <2>3
<1> QED
  <2> DEFINE r == Transport!RemoveFirst(q, c)
             e == EraseAt(q, i)
  <2>1. r \in Seq(S) /\ e \in Seq(S) /\ Len(r) = Len(e)
    BY <1>2, <1>3, <1>5
  <2>2. \A j \in 1 .. Len(e) : r[j] = e[j]
    BY <1>2, <1>3, <1>5
  <2> HIDE DEF r, e
  <2>3. r = e
    BY <2>1, <2>2, SeqEqual
  <2> QED
    BY <2>3 DEF r, e

LEMMA DispatchStep ==
    ASSUME TransportInv, TypeOK', DispatchConnect \/ DispatchReceive \/ DispatchDisconnect
    PROVE  \E sends \in Transport!OneSend :
              \/ Transport!DispatchConnect(sends)
              \/ Transport!DispatchReceive(sends)
              \/ Transport!DispatchDisconnect(sends)
<1>0. /\ TypeOK /\ Enqueue
      /\ eventQueue' = Tail(eventQueue)
      /\ UNCHANGED <<nextUid, peerMap, peerState, wire>>
  BY DEF TransportInv, SafeInv, DispatchConnect, DispatchReceive, DispatchDisconnect, netVars
<1>1. Live' = Live /\ Breaking' = Breaking
  BY <1>0 DEF Live, Breaking
<1>2. PICK sends \in Transport!OneSend : Transport!Post(sends)
  BY <1>0, PostStep
<1>3. CASE DispatchConnect
  <2>1. Transport!DispatchConnect(sends)
    BY <1>0, <1>1, <1>2, <1>3
    DEF DispatchConnect, NextEventIs, Transport!DispatchConnect, Transport!NextEventIs,
        Transport!AddClient
  <2> QED
    BY <2>1
<1>4. CASE DispatchReceive
  <2>1. Transport!DispatchReceive(sends)
    BY <1>0, <1>1, <1>2, <1>4
    DEF DispatchReceive, NextEventIs, Transport!DispatchReceive, Transport!NextEventIs
  <2> QED
    BY <2>1
<1>5. CASE DispatchDisconnect
  <2> DEFINE c == Head(eventQueue).client
  <2>1. PICK i \in 1 .. Len(connected) :
           /\ connected[i] = c
           /\ \A j \in 1 .. i - 1 : connected[j] # c
           /\ connected' = EraseAt(connected, i)
    BY <1>5 DEF DispatchDisconnect
  <2>2. connected' = Transport!RemoveFirst(connected, c)
    <3>1. connected \in Seq(Uids)
      BY <1>0 DEF TypeOK
    <3>2. Transport!RemoveFirst(connected, c) = EraseAt(connected, i)
      BY <2>1, <3>1, ErasedFirst
    <3> QED
      BY <2>1, <3>2
  <2>3. Transport!DispatchDisconnect(sends)
    BY <1>0, <1>1, <1>2, <1>5, <2>2
    DEF DispatchDisconnect, NextEventIs, Transport!DispatchDisconnect, Transport!NextEventIs,
        Transport!DropClient
  <2> QED
    BY <2>3
<1> QED
  BY <1>3, <1>4, <1>5

LEMMA EachStep ==
    ASSUME TransportInv, TransportInv', Next
    PROVE  Transport!TransportNext \/ UNCHANGED Transport!transportVars
<1>0. TypeOK'
  BY DEF TransportInv, SafeInv
<1>1. ASSUME NEW s \in Slots, CaptureConnect(s) PROVE Transport!TransportNext
  BY <1>1, ConnectStep DEF Transport!TransportNext
<1>2. ASSUME NEW s \in Slots, NEW m \in Msg, CaptureReceive(s, m)
      PROVE  Transport!TransportNext
  BY <1>2, ReceiveStep DEF Transport!TransportNext
<1>3. ASSUME NEW s \in Slots, CaptureDisconnect(s) PROVE Transport!TransportNext
  BY <1>0, <1>3, DisconnectStep DEF Transport!TransportNext
<1>4. ASSUME SendPacket \/ DropPacket
      PROVE  Transport!TransportNext \/ UNCHANGED Transport!transportVars
  <2>1. UNCHANGED <<nextUid, eventQueue, connected>>
    BY <1>4 DEF SendPacket, DropPacket, netVars
  <2>2. UNCHANGED <<Live, Breaking, Inbox>> \/ \E c \in Live : Transport!Lose(c)
    BY <1>0, <1>4, SendStep, DropStep
  <2> QED
    BY <2>1, <2>2 DEF Transport!TransportNext, Transport!transportVars
<1>5. ASSUME NetExit \/ StopCleanup PROVE Transport!TransportNext
  BY <1>0, <1>5, StopSteps DEF Transport!TransportNext
<1>6. ASSUME DispatchConnect \/ DispatchReceive \/ DispatchDisconnect
      PROVE  Transport!TransportNext
  BY <1>0, <1>6, DispatchStep DEF Transport!TransportNext
<1>7. ASSUME RequestStop PROVE UNCHANGED Transport!transportVars
  BY <1>7 DEF RequestStop, netVars, Transport!transportVars, Live, Breaking, Inbox
<1>8. ASSUME NEW s \in Slots, PeerLost(s) PROVE Transport!TransportNext
  BY <1>0, <1>8, BreakStep DEF Transport!TransportNext
<1>9. ASSUME NEW s \in Slots, Deliver(s) PROVE Transport!TransportNext
  BY <1>0, <1>9, TakeStep DEF Transport!TransportNext
<1> QED
  BY <1>1, <1>2, <1>3, <1>4, <1>5, <1>6, <1>7, <1>8, <1>9
  DEF Next, NetThread, AppThread, Network

(* Through its two threads, its queues and its shutdown enetpp::server does   *)
(* only what ServerTransport allows: each connection has its own id, its      *)
(* events in order, and of the packets that were sent to it a part, in order. *)
THEOREM ServerImplementsTransport == Spec => ImplementsTransport
<1>1. Init => Transport!TransportInit
  <2> SUFFICES ASSUME Init PROVE Transport!TransportInit
    OBVIOUS
  <2>1. Live = {} /\ Transport!Uids = Uids
    BY DEF Init, Live, Uids, Transport!Uids
  <2>2. Breaking = {} /\ Inbox = [u \in Uids |-> <<>>]
    BY <2>1 DEF Breaking, Inbox
  <2> QED
    BY <2>1, <2>2 DEF Init, Transport!TransportInit
<1>2. TransportInv /\ TransportInv' /\ [Next]_vars
         => [Transport!TransportNext]_(Transport!transportVars)
  <2>1. UNCHANGED vars => UNCHANGED Transport!transportVars
    BY DEF vars, Transport!transportVars, Live, Breaking, Inbox
  <2> QED
    BY <2>1, EachStep
<1> QED
  BY <1>1, <1>2, TransportInvHolds, PTL DEF Spec, ImplementsTransport, Transport!TransportSpec

================================================================================
