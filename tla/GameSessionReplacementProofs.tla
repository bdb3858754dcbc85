--------------------- MODULE GameSessionReplacementProofs ----------------------
(***************************************************************************)
(* Two players of whom one at most leaves: the client that takes its place *)
(* is brought up to date once, by a snapshot that is whole, and nobody     *)
(* changes sides.  The invariant follows the snapshot from the client that *)
(* sends it through the server to the replacement.  It holds for any size  *)
(* of the armies and any number of turns.                                  *)
(***************************************************************************)
EXTENDS GameSessionProofs, FiniteSetTheorems

(* As long as at most one client leaves, the third is the only one that can   *)
(* be a replacement, and its snapshot is sent once.  First who comes and goes. *)

Third == 2

Opens(i) == i \in 1 .. Len(events) /\ events[i].type = "connect"
Closes(i) == i \in 1 .. Len(events) /\ events[i].type = "disconnect"
Opening(c) == \E i : Opens(i) /\ events[i].client = c
Closing(c) == \E i : Closes(i) /\ events[i].client = c

(* Two clients at a time, and one that breaks, then is gone. *)
Peopled ==
    /\ leaves \in {0, 1}
    /\ leaves = 0 => (breaking = {} /\ live = 0 .. nextUid - 1 /\ nextUid <= 2)
    /\ leaves = 1 => \E g \in {0, 1} :
          /\ g < nextUid
          /\ \/ breaking = {g} /\ live = 0 .. nextUid - 1 /\ nextUid <= 2
             \/ breaking = {} /\ live = (0 .. nextUid - 1) \ {g} /\ nextUid <= 3

Rising(q) == \A i, j \in 1 .. Len(q) : i < j => q[i] < q[j]

(* Clients are met in the order of their ids, the third one after the other   *)
(* has gone; there is no game before the second one is met, and whoever has   *)
(* gone is taken off the list.                                                *)
InOrder ==
    /\ Rising(connected)
    /\ \A i, j : Opens(i) /\ Opens(j) /\ i < j => events[i].client < events[j].client
    /\ \A i, c : Opens(i) /\ InSeq(c, connected) => c < events[i].client

Departed ==
    /\ \A i, j : Opens(i) /\ events[i].client = Third /\ Closes(j) => j < i
    /\ \A i, j : Opens(i) /\ Closes(j) /\ events[i].client = events[j].client => i < j
    /\ \A c : InSeq(c, connected) \/ Opening(c) => c \in live \/ Closing(c)

Played ==
    /\ \A i : Opens(i) /\ gameActive => events[i].client >= 2
    /\ gameActive => nextUid >= 2

Census == Peopled /\ InOrder /\ Departed /\ Played

--------------------------------------------------------------------------------
(* What is on its way.                                                        *)

Done == Packet("update_complete", 0)
Ready == Packet("ready", 0)
Resumption == {Packet("resume", 0), Packet("reconnect", FALSE)}
Greetings == {Packet("start", 0), Packet("init", 0), Packet("init", 1)}

Lacks(q, X) == \A i \in 1 .. Len(q) : q[i] \notin X
Unheard(X) == \A i \in 1 .. Len(events) : events[i].type = "receive" => events[i].msg \notin X

Absent(X) ==
    /\ Unheard(X)
    /\ \A u \in Uids : Lacks(inbox[u], X) /\ Lacks(outbox[u], X)

LEMMA LacksConcat ==
    ASSUME NEW M, NEW a \in Seq(M), NEW b \in Seq(M), NEW X
    PROVE  Lacks(a \o b, X) <=> Lacks(a, X) /\ Lacks(b, X)
<1>1. /\ Len(a \o b) = Len(a) + Len(b) /\ Len(a) \in Nat /\ Len(b) \in Nat
      /\ \A i \in 1 .. Len(a) + Len(b) :
            (a \o b)[i] = IF i <= Len(a) THEN a[i] ELSE b[i - Len(a)]
  BY ConcatProperties
<1>2. /\ \A i \in 1 .. Len(a) : i \in 1 .. Len(a \o b) /\ (a \o b)[i] = a[i]
      /\ \A i \in 1 .. Len(b) : Len(a) + i \in 1 .. Len(a \o b) /\ (a \o b)[Len(a) + i] = b[i]
  BY <1>1
<1>3. ASSUME NEW i \in 1 .. Len(a \o b)
      PROVE  \/ i \in 1 .. Len(a) /\ (a \o b)[i] = a[i]
             \/ i - Len(a) \in 1 .. Len(b) /\ (a \o b)[i] = b[i - Len(a)]
  <2>1. CASE i <= Len(a)
    BY <1>1, <2>1
  <2>2. CASE ~(i <= Len(a))
    BY <1>1, <2>2
  <2> QED
    BY <2>1, <2>2
<1>4. Lacks(a, X) /\ Lacks(b, X) => Lacks(a \o b, X)
  BY <1>3 DEF Lacks
<1>5. ASSUME Lacks(a \o b, X) PROVE Lacks(a, X) /\ Lacks(b, X)
  <2>1. \A i \in 1 .. Len(a) : a[i] \notin X
    BY <1>2, <1>5 DEF Lacks
  <2>2. \A i \in 1 .. Len(b) : b[i] \notin X
    BY <1>2, <1>5 DEF Lacks
  <2> QED
    BY <2>1, <2>2 DEF Lacks
<1> QED
  BY <1>4, <1>5

LEMMA LacksTail ==
    ASSUME NEW M, NEW q \in Seq(M), q # <<>>, NEW X
    PROVE  /\ Lacks(q, X) <=> Head(q) \notin X /\ Lacks(Tail(q), X)
           /\ Lacks(<<>>, X)
<1>1. /\ Len(q) \in Nat \ {0} /\ Head(q) = q[1] /\ Tail(q) \in Seq(M)
      /\ Len(Tail(q)) = Len(q) - 1 /\ \A i \in 1 .. Len(q) - 1 : Tail(q)[i] = q[i + 1]
  OBVIOUS
<1>2. Lacks(q, X) => Head(q) \notin X /\ Lacks(Tail(q), X)
  BY <1>1 DEF Lacks
<1>3. ASSUME Head(q) \notin X, Lacks(Tail(q), X), NEW i \in 1 .. Len(q) PROVE q[i] \notin X
  <2>1. CASE i = 1
    BY <1>1, <1>3, <2>1
  <2>2. CASE i # 1
    <3>1. i - 1 \in 1 .. Len(q) - 1 /\ q[i] = Tail(q)[i - 1]
      BY <1>1, <2>2
    <3> QED
      BY <1>1, <1>3, <3>1 DEF Lacks
  <2> QED
    BY <2>1, <2>2
<1> QED
  BY <1>2, <1>3 DEF Lacks

LEMMA LacksSome ==
    ASSUME NEW M, NEW q \in Seq(M), NEW X, M \cap X = {}
    PROVE  Lacks(q, X)
<1>1. \A i \in 1 .. Len(q) : q[i] \in M
  OBVIOUS
<1> QED
  BY <1>1 DEF Lacks

LEMMA LacksSent ==
    ASSUME NEW M, NEW sends \in Seq(Sends(M)), NEW X, NEW u,
           \A i \in 1 .. Len(sends) : sends[i].msg \notin X
    PROVE  Lacks(MsgsTo(u, sends), X)
  BY MsgsToFrom DEF Lacks

(* Nothing reaches a client that nothing is sent to. *)
LEMMA NothingSent ==
    ASSUME NEW M, NEW sends \in Seq(Sends(M)), NEW u,
           \A i \in 1 .. Len(sends) : sends[i].to # u
    PROVE  MsgsTo(u, sends) = <<>>
<1>1. MsgsTo(u, sends) \in Seq(M)
  BY MsgsToType
<1>2. ~ \E k : k \in 1 .. Len(MsgsTo(u, sends))
  BY MsgsToFrom
<1>3. \A q \in Seq(M) : (~ \E k : k \in 1 .. Len(q)) => q = <<>>
  <2> TAKE q \in Seq(M)
  <2>1. Len(q) \in Nat /\ (Len(q) # 0 => 1 \in 1 .. Len(q)) /\ (Len(q) = 0 => q = <<>>)
    OBVIOUS
  <2> QED
    BY <2>1
<1> QED
  BY <1>1, <1>2, <1>3

(* Whatever is sent to the others is sent to one of the list. *)
LEMMA SentToOthers ==
    ASSUME NEW M, NEW c, NEW clients \in Seq(Uids), NEW m \in M,
           NEW k \in 1 .. Len(ToOthers(c, clients, m))
    PROVE  /\ ToOthers(c, clients, m)[k].msg = m
           /\ InSeq(ToOthers(c, clients, m)[k].to, clients)
<1> DEFINE tt == [i \in DOMAIN clients |-> IF clients[i] = c THEN <<>> ELSE To(clients[i], m)]
<1>1. \A i \in 1 .. Len(clients) :
         (IF clients[i] = c THEN <<>> ELSE To(clients[i], m)) \in Seq(Sends(M))
  <2> TAKE i \in 1 .. Len(clients)
  <2>1. [to |-> clients[i], msg |-> m] \in Sends(M)
    BY DEF Sends
  <2> QED
    BY <2>1 DEF To
<1>2. /\ tt \in [1 .. Len(clients) -> Seq(Sends(M))] /\ Len(clients) \in Nat
      /\ \A i \in 1 .. Len(clients) :
            tt[i] = IF clients[i] = c THEN <<>> ELSE To(clients[i], m)
  BY <1>1
<1>3. ToOthers(c, clients, m) = FlattenSeq(tt)
  BY DEF ToOthers
<1> HIDE DEF tt
<1>4. tt \in Seq(Seq(Sends(M))) /\ Len(tt) = Len(clients)
  BY <1>2
<1>5. PICK i \in 1 .. Len(tt) : \E j \in 1 .. Len(tt[i]) : FlattenSeq(tt)[k] = tt[i][j]
  BY <1>3, <1>4, FlattenFrom
<1>6. PICK j \in 1 .. Len(tt[i]) : FlattenSeq(tt)[k] = tt[i][j]
  BY <1>5
<1>7. clients[i] # c /\ tt[i] = To(clients[i], m)
  BY <1>2, <1>4, <1>6
<1>8. FlattenSeq(tt)[k] = [to |-> clients[i], msg |-> m]
  BY <1>6, <1>7 DEF To
<1>9. i \in DOMAIN clients
  BY <1>2, <1>4
<1>10. InSeq(clients[i], clients)
  BY <1>9 DEF InSeq
<1> QED
  BY <1>3, <1>8, <1>10

(* What the others get when there are two. *)
LEMMA TwoOthers ==
    ASSUME NEW M, NEW m \in M, NEW c, NEW a \in Uids, NEW b \in Uids, a # b, NEW u
    PROVE  MsgsTo(u, ToOthers(c, <<a, b>>, m)) = IF u # c /\ u \in {a, b} THEN <<m>> ELSE <<>>
<1> DEFINE part(v) == IF v = c THEN <<>> ELSE To(v, m)
           both == <<a, b>>
<1>1. [i \in DOMAIN both |-> IF both[i] = c THEN <<>> ELSE To(both[i], m)]
         = <<part(a), part(b)>>
  OBVIOUS
<1>2. \A v \in Uids : part(v) \in Seq(Sends(M))
  <2> TAKE v \in Uids
  <2>1. [to |-> v, msg |-> m] \in Sends(M)
    BY DEF Sends
  <2> QED
    BY <2>1 DEF To
<1>3. \A v \in Uids : MsgsTo(u, part(v)) = IF u # c /\ u = v THEN <<m>> ELSE <<>>
  <2> TAKE v \in Uids
  <2>1. CASE v = c
    BY <2>1, MsgsToNobody
  <2>2. CASE v # c
    <3>1. MsgsTo(u, To(v, m)) = IF v = u THEN <<m>> ELSE <<>>
      BY MsgsToOne
    <3> QED
      BY <2>2, <3>1
  <2> QED
    BY <2>1, <2>2
<1>4. ToOthers(c, both, m) = FlattenSeq(<<part(a), part(b)>>)
  BY <1>1 DEF ToOthers
<1> HIDE DEF part, both
<1>5. ToOthers(c, both, m) = part(a) \o part(b)
  BY <1>2, <1>4, FlattenTwo
<1>6. MsgsTo(u, ToOthers(c, both, m)) = MsgsTo(u, part(a)) \o MsgsTo(u, part(b))
  BY <1>2, <1>5, MsgsToConcat
<1>7. <<m>> \in Seq(M)
  OBVIOUS
<1>8. \A q \in Seq(M) : q \o <<>> = q /\ <<>> \o q = q
  BY ConcatEmptySeq
<1>9. <<>> \o <<>> = <<>>
  OBVIOUS
<1>10. MsgsTo(u, ToOthers(c, both, m)) = IF u # c /\ u \in {a, b} THEN <<m>> ELSE <<>>
  <2>1. CASE u # c /\ u = a
    BY <1>3, <1>6, <1>7, <1>8, <2>1
  <2>2. CASE u # c /\ u = b
    BY <1>3, <1>6, <1>7, <1>8, <2>2
  <2>3. CASE ~(u # c /\ u \in {a, b})
    BY <1>3, <1>6, <1>9, <2>3
  <2> QED
    BY <2>1, <2>2, <2>3
<1> QED
  BY <1>10 DEF both

--------------------------------------------------------------------------------
(* What is not on its way stays away unless somebody sends it.                *)

LEMMA HeadUnheard ==
    ASSUME TransportTyped, events # <<>>, NEW X, Unheard(X)
    PROVE  /\ Head(events).type = "receive" => Head(events).msg \notin X
           /\ events' = Tail(events) => Unheard(X)'
<1>1. /\ Len(events) \in Nat \ {0} /\ Head(events) = events[1]
      /\ Len(Tail(events)) = Len(events) - 1
      /\ \A i \in 1 .. Len(events) - 1 : Tail(events)[i] = events[i + 1]
  BY DEF TransportTyped
<1>2. Head(events).type = "receive" => Head(events).msg \notin X
  BY <1>1 DEF Unheard
<1>3. ASSUME events' = Tail(events), NEW i \in 1 .. Len(events'), events'[i].type = "receive"
      PROVE  events'[i].msg \notin X
  <2>1. i + 1 \in 1 .. Len(events) /\ events'[i] = events[i + 1]
    BY <1>1, <1>3
  <2> QED
    BY <1>3, <2>1 DEF Unheard
<1>4. events' = Tail(events) => Unheard(X)'
  BY <1>3 DEF Unheard
<1> QED
  BY <1>2, <1>4

LEMMA MoreUnheard ==
    ASSUME TransportTyped, NEW X, NEW e, events' = Append(events, e), Unheard(X),
           e.type = "receive" => e.msg \notin X
    PROVE  Unheard(X)'
<1>1. /\ Len(events') = Len(events) + 1 /\ Len(events) \in Nat
      /\ \A i \in 1 .. Len(events) : events'[i] = events[i]
      /\ events'[Len(events) + 1] = e
  BY DEF TransportTyped
<1>2. \A i \in 1 .. Len(events') : i \in 1 .. Len(events) \/ i = Len(events) + 1
  BY <1>1
<1> QED
  BY <1>1, <1>2 DEF Unheard

LEMMA PostedAll ==
    ASSUME TransportTyped, NEW sends \in Seq(Sends(ToClients)), Post(sends), NEW u \in Uids
    PROVE  /\ inbox[u] \in Seq(ToClients) /\ MsgsTo(u, sends) \in Seq(ToClients)
           /\ inbox'[u] = IF u \in live THEN inbox[u] \o MsgsTo(u, sends) ELSE inbox[u]
<1>1. MsgsTo(u, sends) \in Seq(ToClients)
  BY MsgsToType
<1> QED
  BY <1>1 DEF Post, TransportTyped

LEMMA AbsentPosted ==
    ASSUME Typed, NEW sends \in Seq(Sends(ToClients)), Post(sends), NEW X, Absent(X),
           events # <<>>, events' = Tail(events), outbox' = outbox,
           \A i \in 1 .. Len(sends) : sends[i].msg \notin X
    PROVE  Absent(X)'
<1>1. Unheard(X)'
  BY HeadUnheard DEF Typed, Absent
<1>2. ASSUME NEW u \in Uids PROVE Lacks(inbox'[u], X) /\ Lacks(outbox'[u], X)
  <2>1. Lacks(inbox[u], X) /\ Lacks(outbox[u], X)
    BY DEF Absent
  <2>2. Lacks(MsgsTo(u, sends), X)
    BY LacksSent
  <2>3. /\ inbox[u] \in Seq(ToClients) /\ MsgsTo(u, sends) \in Seq(ToClients)
        /\ inbox'[u] = IF u \in live THEN inbox[u] \o MsgsTo(u, sends) ELSE inbox[u]
    BY PostedAll DEF Typed
  <2>4. Lacks(inbox[u] \o MsgsTo(u, sends), X)
    BY <2>1, <2>2, <2>3, LacksConcat
  <2> QED
    BY <2>1, <2>3, <2>4
<1> QED
  BY <1>1, <1>2 DEF Absent

LEMMA AbsentFlush ==
    ASSUME Typed, NEW c \in Uids, Flush(c), NEW X, Absent(X)
    PROVE  /\ Absent(X)' /\ Head(outbox[c]) \notin X
           /\ Head(outbox[c]) \in FromClients /\ outbox[c] # <<>>
           /\ events' = Append(events, Event("receive", c, Head(outbox[c])))
           /\ outbox'[c] = Tail(outbox[c])
           /\ \A u \in Uids : u # c => outbox'[u] = outbox[u]
           /\ UNCHANGED <<comp, scene, main, gameActive, inbox, nextUid, live, breaking,
                          connected, leaves>>
<1>1. /\ outbox[c] # <<>> /\ outbox[c] \in Seq(FromClients)
      /\ events' = Append(events, Event("receive", c, Head(outbox[c])))
      /\ outbox' = [outbox EXCEPT ![c] = Tail(@)]
      /\ UNCHANGED <<comp, scene, main, gameActive, inbox, nextUid, live, breaking,
                     connected, leaves>>
  BY DEF Flush, Receive, serverVars, bounds, Typed, ClientsTyped
<1>2. /\ outbox'[c] = Tail(outbox[c]) /\ Head(outbox[c]) \in FromClients
      /\ \A u \in Uids : u # c => outbox'[u] = outbox[u]
  BY <1>1 DEF Typed, ClientsTyped
<1>3. Lacks(outbox[c], X)
  BY DEF Absent
<1>4. Head(outbox[c]) \notin X /\ Lacks(Tail(outbox[c]), X)
  BY <1>1, <1>3, LacksTail
<1>5. Unheard(X)'
  <2> DEFINE e == Event("receive", c, Head(outbox[c]))
  <2>1. e.msg \notin X
    BY <1>4 DEF Event
  <2> HIDE DEF e
  <2>2. events' = Append(events, e)
    BY <1>1 DEF e
  <2> QED
    BY <2>1, <2>2, MoreUnheard DEF Absent, Typed
<1>6. \A u \in Uids : Lacks(inbox'[u], X) /\ Lacks(outbox'[u], X)
  BY <1>1, <1>2, <1>4 DEF Absent
<1> QED
  BY <1>1, <1>2, <1>4, <1>5, <1>6 DEF Absent

LEMMA AbsentConsume ==
    ASSUME Typed, NEW c \in Uids, Consume(c), NEW X, Absent(X)
    PROVE  /\ Absent(X)' /\ Head(inbox[c]) \notin X
           /\ Head(inbox[c]) \in ToClients /\ inbox[c] # <<>>
           /\ inbox'[c] = Tail(inbox[c])
           /\ comp'[c] = ProcessReceived(comp[c], Head(inbox[c]))
           /\ \A u \in Uids : u # c => inbox'[u] = inbox[u] /\ comp'[u] = comp[u]
           /\ UNCHANGED <<scene, main, gameActive, outbox, events, nextUid, live, breaking,
                          connected, leaves>>
<1>1. /\ inbox[c] # <<>> /\ inbox[c] \in Seq(ToClients)
      /\ inbox' = [inbox EXCEPT ![c] = Tail(@)]
      /\ comp' = [comp EXCEPT ![c] = ProcessReceived(@, Head(inbox[c]))]
      /\ UNCHANGED <<scene, main, gameActive, outbox, events, nextUid, live, breaking,
                     connected, leaves>>
  BY DEF Consume, Take, serverVars, bounds, Typed, TransportTyped
<1>2. /\ inbox'[c] = Tail(inbox[c]) /\ Head(inbox[c]) \in ToClients
      /\ comp'[c] = ProcessReceived(comp[c], Head(inbox[c]))
      /\ \A u \in Uids : u # c => inbox'[u] = inbox[u] /\ comp'[u] = comp[u]
  BY <1>1 DEF Typed, TransportTyped, ClientsTyped
<1>3. Lacks(inbox[c], X)
  BY DEF Absent
<1>4. Head(inbox[c]) \notin X /\ Lacks(Tail(inbox[c]), X)
  BY <1>1, <1>3, LacksTail
<1>5. \A u \in Uids : Lacks(inbox'[u], X) /\ Lacks(outbox'[u], X)
  BY <1>1, <1>2, <1>4 DEF Absent
<1> QED
  BY <1>1, <1>2, <1>4, <1>5 DEF Absent, Unheard

(* The main thread of a client and its player change nothing but the client. *)
Local(c, new) ==
    /\ UNCHANGED <<transportVars, gameActive, leaves>>
    /\ outbox'[c] = outbox[c] \o new
    /\ \A u \in Uids : u # c => /\ outbox'[u] = outbox[u] /\ comp'[u] = comp[u]
                                /\ scene'[u] = scene[u] /\ main'[u] = main[u]

LEMMA AbsentLocal ==
    ASSUME Typed, NEW c \in Uids, NEW new \in Seq(FromClients), Local(c, new), NEW X, Absent(X),
           Lacks(new, X)
    PROVE  Absent(X)'
<1>1. outbox[c] \in Seq(FromClients) /\ Lacks(outbox[c], X)
  BY DEF Typed, ClientsTyped, Absent
<1>2. Lacks(outbox'[c], X)
  BY <1>1, LacksConcat DEF Local
<1>3. UNCHANGED <<events, inbox>>
  BY DEF Local, transportVars
<1> QED
  BY <1>2, <1>3 DEF Local, Absent, Unheard

(* Connections that open, break or end bring no packets. *)
LEMMA Emptied ==
    ASSUME Typed, NEW c, Launch \/ (c \in live /\ Detect(c)) \/ (c \in Uids /\ Leave(c))
    PROVE  /\ \A u \in Uids : /\ inbox'[u] \in {inbox[u], <<>>}
                              /\ outbox'[u] \in {outbox[u], <<>>}
                              /\ comp'[u] \in {comp[u], FreshComponent}
                              /\ scene'[u] \in {scene[u], FreshScene}
                              /\ main'[u] \in {main[u], "top"}
           /\ connected' = connected /\ gameActive' = gameActive
           /\ events' = events \/ \E e : /\ events' = Append(events, e)
                                         /\ e.type # "receive"
<1>1. /\ inbox \in [Uids -> Seq(ToClients)] /\ outbox \in [Uids -> Seq(FromClients)]
      /\ comp \in [Uids -> Components] /\ scene \in [Uids -> Scenes]
      /\ main \in [Uids -> {"top", "began", "sent"}]
  BY DEF Typed, TransportTyped, ClientsTyped
<1>2. CASE Launch
  <2>1. events' = Append(events, Event("connect", nextUid, NoMsg))
    BY <1>2 DEF Launch, Connect
  <2>2. Event("connect", nextUid, NoMsg).type # "receive"
    BY DEF Event
  <2>3. UNCHANGED <<inbox, connected, gameActive, outbox, comp, scene, main>>
    BY <1>2 DEF Launch, Connect, clientVars, serverVars
  <2> QED
    BY <2>1, <2>2, <2>3
<1>3. CASE c \in live /\ Detect(c)
  <2>1. events' = Append(events, Event("disconnect", c, NoMsg))
    BY <1>3 DEF Detect, Disconnect
  <2>2. Event("disconnect", c, NoMsg).type # "receive"
    BY DEF Event
  <2>3. /\ UNCHANGED <<connected, gameActive, outbox, comp, scene, main>>
        /\ inbox' = [inbox EXCEPT ![c] = <<>>]
    BY <1>3 DEF Detect, Disconnect, clientVars, serverVars
  <2>4. \A u \in Uids : inbox'[u] \in {inbox[u], <<>>}
    BY <1>1, <2>3
  <2> QED
    BY <2>1, <2>2, <2>3, <2>4
<1>4. CASE c \in Uids /\ Leave(c)
  <2>1. PICK rest : inbox' = [inbox EXCEPT ![c] = rest]
    BY <1>4 DEF Leave, Break
  <2>2. rest = <<>>
    BY <1>1, <1>4, <2>1 DEF Leave
  <2>3. \A u \in Uids : inbox'[u] \in {inbox[u], <<>>}
    BY <1>1, <2>1, <2>2
  <2> QED
    BY <1>1, <1>4, <2>3 DEF Leave, Break, serverVars
<1> QED
  BY <1>2, <1>3, <1>4

LEMMA AbsentOpen ==
    ASSUME Typed, NEW c, Launch \/ (c \in live /\ Detect(c)) \/ (c \in Uids /\ Leave(c)),
           NEW X, Absent(X)
    PROVE  Absent(X)'
<1>1. \A u \in Uids : /\ inbox'[u] \in {inbox[u], <<>>}
                      /\ outbox'[u] \in {outbox[u], <<>>}
  BY Emptied
<1>2. Lacks(<<>>, X)
  BY DEF Lacks
<1>3. \A u \in Uids : Lacks(inbox'[u], X) /\ Lacks(outbox'[u], X)
  BY <1>1, <1>2 DEF Absent
<1>4. Unheard(X)'
  <2>1. CASE events' = events
    BY <2>1 DEF Unheard, Absent
  <2>2. CASE \E e : events' = Append(events, e) /\ e.type # "receive"
    <3>1. PICK e : events' = Append(events, e) /\ e.type # "receive"
      BY <2>2
    <3> QED
      BY <3>1, MoreUnheard DEF Absent, Typed
  <2> QED
    BY <2>1, <2>2, Emptied
<1> QED
  BY <1>3, <1>4 DEF Absent

--------------------------------------------------------------------------------
(* Who comes and who goes, in every step.                                     *)

LEMMA EventsMore ==
    ASSUME Typed, NEW e, events' = Append(events, e)
    PROVE  LET n == Len(events) + 1 IN
           /\ Len(events) \in Nat /\ events'[n] = e
           /\ \A i \in 1 .. Len(events) : events'[i] = events[i]
           /\ \A i : Opens(i)' <=> Opens(i) \/ (i = n /\ e.type = "connect")
           /\ \A i : Closes(i)' <=> Closes(i) \/ (i = n /\ e.type = "disconnect")
<1>1. /\ Len(events') = Len(events) + 1 /\ Len(events) \in Nat
      /\ \A i \in 1 .. Len(events) : events'[i] = events[i]
      /\ events'[Len(events) + 1] = e
  BY DEF Typed, TransportTyped
<1>2. \A i : i \in 1 .. Len(events') <=> i \in 1 .. Len(events) \/ i = Len(events) + 1
  BY <1>1
<1>3. \A i : i \in 1 .. Len(events) => i # Len(events) + 1
  BY <1>1
<1> QED
  BY <1>1, <1>2, <1>3 DEF Opens, Closes

LEMMA EventsLess ==
    ASSUME Typed, events # <<>>, events' = Tail(events)
    PROVE  /\ Len(events) \in Nat \ {0} /\ Head(events) = events[1] /\ 1 \in 1 .. Len(events)
           /\ \A i : Opens(i)' => i \in Nat /\ i > 0 /\ Opens(i + 1) /\ events'[i] = events[i + 1]
           /\ \A i : Closes(i)' => i \in Nat /\ i > 0 /\ Closes(i + 1) /\ events'[i] = events[i + 1]
           /\ \A i : Closes(i) => i = 1 \/ (Closes(i - 1)' /\ events'[i - 1] = events[i])
<1>1. /\ Len(events) \in Nat \ {0} /\ Head(events) = events[1] /\ 1 \in 1 .. Len(events)
      /\ Len(events') = Len(events) - 1
      /\ \A i \in 1 .. Len(events) - 1 : events'[i] = events[i + 1]
  BY DEF Typed, TransportTyped
<1>2. ASSUME NEW i, i \in 1 .. Len(events')
      PROVE  i \in Nat /\ i > 0 /\ i + 1 \in 1 .. Len(events) /\ events'[i] = events[i + 1]
  BY <1>1, <1>2
<1>3. ASSUME NEW i, i \in 1 .. Len(events), i # 1
      PROVE  i - 1 \in 1 .. Len(events') /\ events'[i - 1] = events[i]
  <2>1. i - 1 \in 1 .. Len(events) - 1 /\ (i - 1) + 1 = i
    BY <1>1, <1>3
  <2> QED
    BY <1>1, <2>1
<1>4. \A i : Opens(i)' => i \in Nat /\ i > 0 /\ Opens(i + 1) /\ events'[i] = events[i + 1]
  BY <1>2 DEF Opens
<1>5. \A i : Closes(i)' => i \in Nat /\ i > 0 /\ Closes(i + 1) /\ events'[i] = events[i + 1]
  BY <1>2 DEF Closes
<1>6. \A i : Closes(i) => i = 1 \/ (Closes(i - 1)' /\ events'[i - 1] = events[i])
  BY <1>3 DEF Closes
<1> QED
  BY <1>1, <1>4, <1>5, <1>6

(* The list of clients without one of them. *)
LEMMA RemoveFirstRising ==
    ASSUME NEW q \in Seq(Uids), NEW e, Rising(q)
    PROVE  Rising(RemoveFirst(q, e)) /\ ~InSeq(e, RemoveFirst(q, e))
<1>0. \A i \in 1 .. Len(q) : q[i] \in Nat
  <2>1. \A i \in 1 .. Len(q) : q[i] \in Uids
    OBVIOUS
  <2> QED
    BY <2>1, SessionAssumption DEF Uids
<1>1. CASE ~ \E i \in 1 .. Len(q) : q[i] = e
  BY <1>1 DEF RemoveFirst, InSeq
<1>2. CASE \E i \in 1 .. Len(q) : q[i] = e
  <2> DEFINE I == {i \in 1 .. Len(q) : q[i] = e}
  <2>1. PICK i \in I : \A j \in I : i <= j
    <3>1. I \subseteq Nat /\ I # {}
      BY <1>2
    <3> HIDE DEF I
    <3> QED
      BY <3>1, LeastNat
  <2>2. Min(I) = i
    <3>1. \A k \in I : (\A j \in I : k <= j) => k = i
      BY <2>1
    <3> HIDE DEF I
    <3> QED
      BY <2>1, <3>1 DEF Min
  <2>3. i \in 1 .. Len(q) /\ Len(q) \in Nat /\ q[i] = e
    BY <2>1
  <2> DEFINE before == Before(q, i)
             behind == Behind(q, i)
             r == before \o behind
  <2>4. RemoveFirst(q, e) = r
    BY <1>2, <2>2 DEF RemoveFirst, SelectInSeq, RemoveAt, Before, Behind
  <2> HIDE DEF I
  <2>5. /\ before \in Seq(Uids) /\ Len(before) = i - 1 /\ \A j \in 1 .. i - 1 : before[j] = q[j]
        /\ behind \in Seq(Uids) /\ Len(behind) = Len(q) - i
        /\ \A j \in 1 .. Len(q) - i : behind[j] = q[i + j]
    BY <2>3, SplitShape
  <2> HIDE DEF before, behind
  <2>6. /\ r \in Seq(Uids) /\ Len(r) = Len(before) + Len(behind)
        /\ \A j \in 1 .. Len(before) + Len(behind) :
              r[j] = IF j <= Len(before) THEN before[j] ELSE behind[j - Len(before)]
    BY <2>5, ConcatProperties, Zenon
  <2> HIDE DEF r
  <2>7. Len(r) = Len(q) - 1
    BY <2>3, <2>5, <2>6
  <2>8. ASSUME NEW j \in 1 .. Len(r)
        PROVE  \/ j < i /\ j \in 1 .. Len(q) /\ r[j] = q[j]
               \/ i <= j /\ j + 1 \in 1 .. Len(q) /\ r[j] = q[j + 1]
    <3>1. CASE j < i
      <4>1. j \in 1 .. i - 1 /\ j \in 1 .. Len(before) + Len(behind) /\ j <= Len(before)
        BY <2>3, <2>5, <2>6, <3>1
      <4> QED
        BY <2>3, <2>5, <2>6, <3>1, <4>1
    <3>2. CASE ~(j < i)
      <4>1. /\ j \in 1 .. Len(before) + Len(behind) /\ ~(j <= Len(before))
            /\ j - (i - 1) \in 1 .. Len(q) - i /\ i + (j - (i - 1)) = j + 1
        BY <2>3, <2>5, <2>6, <3>2
      <4> QED
        BY <2>3, <2>5, <2>6, <3>2, <4>1
    <3> QED
      BY <3>1, <3>2
  <2>9. ASSUME NEW j \in 1 .. Len(r), NEW k \in 1 .. Len(r), j < k PROVE r[j] < r[k]
    <3>1. \A a, b \in 1 .. Len(q) : a < b => q[a] < q[b]
      BY DEF Rising
    <3>2. j \in Nat /\ k \in Nat /\ i \in Nat
      BY <2>3, <2>7
    <3>3. PICK a \in 1 .. Len(q) : r[j] = q[a] /\ (a = j \/ (a = j + 1 /\ i <= j)) /\ (j < i => a = j)
      BY <2>8, <3>2
    <3>4. PICK b \in 1 .. Len(q) : r[k] = q[b] /\ (b = k \/ b = k + 1) /\ (i <= k => b = k + 1)
      BY <2>8, <3>2
    <3>5. a < b
      BY <2>9, <3>2, <3>3, <3>4
    <3> QED
      BY <3>1, <3>3, <3>4, <3>5
  <2>10. ASSUME NEW j \in 1 .. Len(r) PROVE r[j] # e
    <3>1. PICK a \in 1 .. Len(q) : r[j] = q[a] /\ a # i
      <4>1. j \in Nat /\ i \in Nat
        BY <2>3, <2>7
      <4> QED
        BY <2>8, <4>1
    <3>2. a \in Nat /\ i \in Nat
      BY <2>3
    <3>3. a < i \/ i < a
      BY <3>1, <3>2
    <3>4. q[a] < q[i] \/ q[i] < q[a]
      BY <2>3, <3>3 DEF Rising
    <3>5. q[a] \in Nat /\ q[i] \in Nat
      BY <1>0, <2>3
    <3> QED
      BY <2>3, <3>1, <3>4, <3>5
  <2>11. Rising(r)
    BY <2>9 DEF Rising
  <2>12. ~InSeq(e, r)
    BY <2>6, <2>10 DEF InSeq
  <2> QED
    BY <2>4, <2>11, <2>12
<1> QED
  BY <1>1, <1>2

LEMMA CensusQuiet ==
    ASSUME Census, UNCHANGED <<nextUid, live, breaking, connected, leaves, gameActive>>,
           \A i : /\ Opens(i)' <=> Opens(i)
                  /\ Closes(i)' <=> Closes(i)
                  /\ Opens(i) \/ Closes(i) => events'[i] = events[i]
    PROVE  Census'
<1>1. \A c : /\ InSeq(c, connected)' <=> InSeq(c, connected)
             /\ Opening(c)' <=> Opening(c)
             /\ Closing(c)' <=> Closing(c)
  BY DEF InSeq, Opening, Closing
<1>2. Peopled'
  BY DEF Census, Peopled
<1>3. InOrder'
  <2>1. Rising(connected)'
    BY DEF Census, InOrder
  <2>2. ASSUME NEW i, NEW j, Opens(i)', Opens(j)', i < j
        PROVE  events'[i].client < events'[j].client
    BY <2>2 DEF Census, InOrder
  <2>3. ASSUME NEW i, NEW c, Opens(i)', InSeq(c, connected)' PROVE c < events'[i].client
    BY <1>1, <2>3 DEF Census, InOrder
  <2> QED
    BY <2>1, <2>2, <2>3 DEF InOrder
<1>4. Departed'
  <2>1. ASSUME NEW i, NEW j, Opens(i)', Closes(j)'
        PROVE  /\ events'[i].client = Third => j < i
               /\ events'[i].client = events'[j].client => i < j
    BY <2>1 DEF Census, Departed
  <2>2. ASSUME NEW c, InSeq(c, connected)' \/ Opening(c)'
        PROVE  c \in live' \/ Closing(c)'
    BY <1>1, <2>2 DEF Census, Departed
  <2> QED
    BY <2>1, <2>2 DEF Departed
<1>5. Played'
  BY DEF Census, Played
<1> QED
  BY <1>2, <1>3, <1>4, <1>5 DEF Census

LEMMA CensusArrived ==
    ASSUME Typed, Census, UNCHANGED <<nextUid, live, breaking, connected, leaves, gameActive>>,
           NEW e, events' = Append(events, e), e.type = "receive"
    PROVE  Census'
<1>1. /\ Len(events) \in Nat
      /\ \A i \in 1 .. Len(events) : events'[i] = events[i]
      /\ \A i : Opens(i)' <=> Opens(i)
      /\ \A i : Closes(i)' <=> Closes(i)
  BY EventsMore
<1>2. \A i : Opens(i) \/ Closes(i) => events'[i] = events[i]
  BY <1>1 DEF Opens, Closes
<1> QED
  BY <1>1, <1>2, CensusQuiet

(* An event is handled; whoever it has brought or taken is on the list or not. *)
LEMMA CensusHandled ==
    ASSUME Typed, Census, events # <<>>, events' = Tail(events),
           UNCHANGED <<nextUid, live, breaking, leaves>>,
           \A c : InSeq(c, connected') =>
                     \/ InSeq(c, connected)
                     \/ Head(events).type = "connect" /\ c = Head(events).client,
           Rising(connected'),
           Head(events).type = "disconnect" => ~InSeq(Head(events).client, connected'),
           gameActive' => /\ nextUid >= 2
                          /\ \A i : Opens(i)' => events'[i].client >= 2
    PROVE  Census'
<1>1. /\ Len(events) \in Nat \ {0} /\ Head(events) = events[1] /\ 1 \in 1 .. Len(events)
      /\ \A i : Opens(i)' => i \in Nat /\ i > 0 /\ Opens(i + 1) /\ events'[i] = events[i + 1]
      /\ \A i : Closes(i)' => i \in Nat /\ i > 0 /\ Closes(i + 1) /\ events'[i] = events[i + 1]
      /\ \A i : Closes(i) => i = 1 \/ (Closes(i - 1)' /\ events'[i - 1] = events[i])
  BY EventsLess
<1>2. Head(events).type = "connect" => Opens(1)
  BY <1>1 DEF Opens
<1>3. Head(events).type = "disconnect" => Closes(1)
  BY <1>1 DEF Closes
<1>4. Peopled'
  BY DEF Census, Peopled
<1>5. InOrder'
  <2>1. ASSUME NEW i, NEW j, Opens(i)', Opens(j)', i < j
        PROVE  events'[i].client < events'[j].client
    <3>1. /\ i \in Nat /\ Opens(i + 1) /\ events'[i] = events[i + 1]
          /\ j \in Nat /\ Opens(j + 1) /\ events'[j] = events[j + 1]
      BY <1>1, <2>1
    <3>2. i + 1 < j + 1
      BY <2>1, <3>1
    <3> QED
      BY <3>1, <3>2 DEF Census, InOrder
  <2>2. ASSUME NEW i, NEW c, Opens(i)', InSeq(c, connected') PROVE c < events'[i].client
    <3>1. i \in Nat /\ i > 0 /\ Opens(i + 1) /\ events'[i] = events[i + 1]
      BY <1>1, <2>2
    <3>2. CASE InSeq(c, connected)
      BY <3>1, <3>2 DEF Census, InOrder
    <3>3. CASE Head(events).type = "connect" /\ c = Head(events).client
      <4>1. Opens(1) /\ c = events[1].client /\ 1 < i + 1
        BY <1>1, <1>2, <3>1, <3>3
      <4> QED
        BY <3>1, <4>1 DEF Census, InOrder
    <3> QED
      BY <2>2, <3>2, <3>3
  <2> QED
    BY <2>1, <2>2 DEF InOrder, InSeq
<1>6. Departed'
  <2>1. ASSUME NEW i, NEW j, Opens(i)', Closes(j)'
        PROVE  /\ events'[i].client = Third => j < i
               /\ events'[i].client = events'[j].client => i < j
    <3>1. /\ i \in Nat /\ Opens(i + 1) /\ events'[i] = events[i + 1]
          /\ j \in Nat /\ Closes(j + 1) /\ events'[j] = events[j + 1]
      BY <1>1, <2>1
    <3>2. /\ events'[i].client = Third => j + 1 < i + 1
          /\ events'[i].client = events'[j].client => i + 1 < j + 1
      BY <3>1 DEF Census, Departed
    <3>3. i \in Nat /\ j \in Nat
      BY <3>1
    <3>4. j + 1 < i + 1 => j < i
      BY <3>3
    <3>5. i + 1 < j + 1 => i < j
      BY <3>3
    <3> QED
      BY <3>2, <3>4, <3>5, Zenon
  <2>2. ASSUME NEW c, InSeq(c, connected') \/ Opening(c)'
        PROVE  c \in live' \/ Closing(c)'
    <3>1. InSeq(c, connected) \/ Opening(c)
      <4>1. CASE InSeq(c, connected')
        BY <1>1, <1>2, <4>1 DEF Opening
      <4>2. CASE Opening(c)'
        <5>1. PICK i : Opens(i)' /\ events'[i].client = c
          BY <4>2 DEF Opening
        <5>2. Opens(i + 1) /\ events[i + 1].client = c
          BY <1>1, <5>1
        <5> QED
          BY <5>2 DEF Opening
      <4> QED
        BY <2>2, <4>1, <4>2
    <3>2. c \in live \/ Closing(c)
      BY <3>1 DEF Census, Departed
    <3>3. ASSUME Closing(c), ~Closing(c)' PROVE FALSE
      <4>1. PICK i : Closes(i) /\ events[i].client = c
        BY <3>3 DEF Closing
      <4>2. i = 1
        BY <1>1, <3>3, <4>1 DEF Closing
      <4>3. Head(events).type = "disconnect" /\ Head(events).client = c /\ Closes(1)
        BY <1>1, <4>1, <4>2 DEF Closes
      <4>4. Opening(c)'
        BY <2>2, <4>3
      <4>5. PICK j : Opens(j)' /\ events'[j].client = c
        BY <4>4 DEF Opening
      <4>6. j \in Nat /\ j > 0 /\ Opens(j + 1) /\ events[j + 1].client = c
        BY <1>1, <4>5
      <4>7. j + 1 < 1
        BY <1>1, <4>3, <4>6 DEF Census, Departed
      <4> QED
        BY <4>6, <4>7
    <3> QED
      BY <3>2, <3>3
  <2> QED
    BY <2>1, <2>2 DEF Departed, InSeq
<1>7. Played'
  BY DEF Played
<1> QED
  BY <1>4, <1>5, <1>6, <1>7 DEF Census

(* With one client left there is room for one, with two for none. *)
LEMMA Room ==
    ASSUME TwoPlayers, Typed, Peopled, Cardinality(live) < MaxClients
    PROVE  /\ breaking = {} \/ nextUid < 2
           /\ leaves = 0 => nextUid < 2
           /\ leaves = 1 /\ breaking = {} => nextUid <= 2
<1>1. nextUid \in Nat /\ MaxClients = 2
  BY SessionAssumption DEF Typed, TransportTyped, TwoPlayers
<1> DEFINE all == 0 .. nextUid - 1
<1>2. IsFiniteSet(all) /\ Cardinality(all) = nextUid
  <2>1. 0 \in Int /\ nextUid - 1 \in Int
    BY <1>1
  <2>2. /\ IsFiniteSet(0 .. nextUid - 1)
        /\ Cardinality(0 .. nextUid - 1) =
              IF 0 > nextUid - 1 THEN 0 ELSE nextUid - 1 - 0 + 1
    BY <2>1, FS_Interval
  <2> QED
    BY <1>1, <2>2
<1>3. \A g \in all : Cardinality(all \ {g}) = nextUid - 1
  <2> HIDE DEF all
  <2> QED
    BY <1>2, FS_RemoveElement
<1>4. CASE leaves = 0
  BY <1>1, <1>2, <1>4 DEF Peopled
<1>5. CASE leaves = 1
  <2>1. PICK g \in {0, 1} :
           /\ g < nextUid
           /\ \/ breaking = {g} /\ live = all /\ nextUid <= 2
              \/ breaking = {} /\ live = all \ {g} /\ nextUid <= 3
    BY <1>5 DEF Peopled
  <2>2. g \in all
    BY <1>1, <2>1
  <2> HIDE DEF all
  <2>3. Cardinality(live) = nextUid \/ (breaking = {} /\ Cardinality(live) = nextUid - 1)
    BY <1>2, <1>3, <2>1, <2>2
  <2> QED
    BY <1>1, <1>5, <2>1, <2>3
<1> QED
  BY <1>4, <1>5 DEF Peopled

LEMMA CensusLaunch ==
    ASSUME TwoPlayers, SessionInv, Census, Launch
    PROVE  Census'
<1>1. /\ nextUid' = nextUid + 1 /\ live' = live \cup {nextUid}
      /\ events' = Append(events, Event("connect", nextUid, NoMsg))
      /\ Cardinality(live) < MaxClients
      /\ UNCHANGED <<breaking, connected, inbox, leaves, gameActive>>
  BY DEF Launch, Connect, serverVars, bounds
<1> DEFINE e == Event("connect", nextUid, NoMsg)
           n == Len(events) + 1
<1>2. e.type = "connect" /\ e.client = nextUid
  BY DEF Event
<1> HIDE DEF e
<1>3. /\ Len(events) \in Nat /\ events'[n] = e
      /\ \A i \in 1 .. Len(events) : events'[i] = events[i]
      /\ \A i : Opens(i)' <=> Opens(i) \/ (i = n /\ e.type = "connect")
      /\ \A i : Closes(i)' <=> Closes(i) \/ (i = n /\ e.type = "disconnect")
  BY <1>1, EventsMore DEF e, SessionInv
<1>4. /\ \A i : Opens(i)' <=> Opens(i) \/ i = n
      /\ \A i : Closes(i)' <=> Closes(i)
      /\ \A i : Opens(i) \/ Closes(i) =>
            /\ i \in Nat /\ i < n /\ events'[i] = events[i] /\ events[i].client < nextUid
      /\ events'[n].client = nextUid /\ nextUid \in Nat /\ n \in Nat
  <2>1. nextUid \in Nat
    BY SessionAssumption DEF SessionInv, Typed, TransportTyped
  <2>2. \A i \in 1 .. Len(events) : i \in Nat /\ i < n
    BY <1>3
  <2>3. \A i \in 1 .. Len(events) : events[i].client < nextUid
    BY DEF SessionInv, KnownIds
  <2>4. n \in Nat
    BY <1>3
  <2>5. \A i : Opens(i) \/ Closes(i) =>
            /\ i \in Nat /\ i < n /\ events'[i] = events[i] /\ events[i].client < nextUid
    <3> HIDE DEF n
    <3> QED
      BY <1>3, <2>2, <2>3 DEF Opens, Closes
  <2> QED
    BY <1>2, <1>3, <2>1, <2>4, <2>5
<1>5. \A c : InSeq(c, connected) => c < nextUid
  BY DEF SessionInv, KnownIds
<1> HIDE DEF n
<1>6. Peopled'
  <2>1. /\ Peopled /\ (breaking = {} \/ nextUid < 2)
        /\ leaves = 0 => nextUid < 2
        /\ leaves = 1 /\ breaking = {} => nextUid <= 2
    BY <1>1, Room DEF SessionInv, Census
  <2>2. CASE leaves = 0
    BY <1>1, <1>4, <2>1, <2>2 DEF Peopled
  <2>3. CASE leaves = 1
    <3>1. PICK g \in {0, 1} :
             /\ g < nextUid
             /\ \/ breaking = {g} /\ live = 0 .. nextUid - 1 /\ nextUid <= 2
                \/ breaking = {} /\ live = (0 .. nextUid - 1) \ {g} /\ nextUid <= 3
      BY <2>1, <2>3 DEF Peopled
    <3>2. CASE breaking = {g} /\ live = 0 .. nextUid - 1
      <4>1. nextUid < 2
        BY <2>1, <3>2
      <4> QED
        BY <1>1, <1>4, <2>3, <3>1, <3>2, <4>1 DEF Peopled
    <3>3. CASE breaking = {} /\ live = (0 .. nextUid - 1) \ {g}
      <4>1. nextUid <= 2 /\ nextUid # g /\ g \in Nat
        BY <1>4, <2>1, <2>3, <3>1, <3>3
      <4>2. /\ g < nextUid' /\ nextUid' <= 3 /\ breaking' = {} /\ leaves' = 1
            /\ live' = (0 .. nextUid' - 1) \ {g}
        BY <1>1, <1>4, <2>3, <3>1, <3>3, <4>1
      <4> QED
        BY <4>2 DEF Peopled
    <3> QED
      BY <3>1, <3>2, <3>3
  <2> QED
    BY <2>1, <2>2, <2>3 DEF Peopled
<1>7. InOrder'
  <2>1. Rising(connected)'
    BY <1>1 DEF Census, InOrder
  <2>2. ASSUME NEW i, NEW j, Opens(i)', Opens(j)', i < j
        PROVE  events'[i].client < events'[j].client
    <3>1. CASE Opens(j)
      <4>1. i # n
        BY <1>4, <2>2, <3>1
      <4> QED
        BY <1>4, <2>2, <3>1, <4>1 DEF Census, InOrder
    <3>2. CASE ~Opens(j)
      <4>1. j = n /\ Opens(i)
        BY <1>4, <2>2, <3>2
      <4> QED
        BY <1>4, <4>1
    <3> QED
      BY <3>1, <3>2
  <2>3. ASSUME NEW i, NEW c, Opens(i)', InSeq(c, connected) PROVE c < events'[i].client
    BY <1>4, <1>5, <2>3 DEF Census, InOrder
  <2> QED
    BY <1>1, <2>1, <2>2, <2>3 DEF InOrder, InSeq
<1>8. Departed'
  <2>1. ASSUME NEW i, NEW j, Opens(i)', Closes(j)'
        PROVE  /\ events'[i].client = Third => j < i
               /\ events'[i].client = events'[j].client => i < j
    <3>1. Closes(j) /\ events'[j] = events[j] /\ j < n /\ events[j].client < nextUid
      BY <1>4, <2>1
    <3>2. CASE Opens(i)
      BY <1>4, <3>1, <3>2 DEF Census, Departed
    <3>3. CASE ~Opens(i)
      <4>1. i = n /\ events'[i].client = nextUid
        BY <1>4, <2>1, <3>3
      <4>2. events'[i].client # events'[j].client
        BY <1>4, <3>1, <4>1
      <4> QED
        BY <3>1, <4>1, <4>2
    <3> QED
      BY <3>2, <3>3
  <2>2. ASSUME NEW c, InSeq(c, connected) \/ Opening(c)'
        PROVE  c \in live' \/ Closing(c)'
    <3>1. CASE c = nextUid
      BY <1>1, <3>1
    <3>2. CASE c # nextUid
      <4>1. InSeq(c, connected) \/ Opening(c)
        BY <1>4, <2>2, <3>2 DEF Opening
      <4>2. c \in live \/ Closing(c)
        BY <4>1 DEF Census, Departed
      <4> QED
        BY <1>1, <1>4, <4>2 DEF Closing
    <3> QED
      BY <3>1, <3>2
  <2> QED
    BY <1>1, <2>1, <2>2 DEF Departed, InSeq
<1>9. Played'
  <2>1. gameActive => nextUid >= 2 /\ nextUid' >= 2
    BY <1>1, <1>4 DEF Census, Played
  <2>2. ASSUME NEW i, Opens(i)', gameActive PROVE events'[i].client >= 2
    <3>1. CASE Opens(i)
      BY <1>4, <2>2, <3>1 DEF Census, Played
    <3>2. CASE i = n
      <4>1. events'[i].client = nextUid
        BY <1>4, <3>2
      <4> QED
        BY <2>1, <2>2, <4>1
    <3> QED
      BY <1>4, <2>2, <3>1, <3>2
  <2> QED
    BY <1>1, <2>1, <2>2 DEF Played
<1> QED
  BY <1>6, <1>7, <1>8, <1>9 DEF Census

LEMMA CensusLeave ==
    ASSUME SessionInv, Census, NEW c \in Uids, Leave(c), leaves' <= 1
    PROVE  Census'
<1>1. /\ leaves' = leaves + 1 /\ c \in live \ breaking /\ breaking' = breaking \cup {c}
      /\ UNCHANGED <<nextUid, live, events, connected, gameActive>>
  BY DEF Leave, Break, serverVars
<1>2. leaves = 0 /\ nextUid \in Nat
  BY <1>1, SessionAssumption DEF Census, Peopled, SessionInv, Typed, TransportTyped
<1>3. breaking' = {c} /\ live = 0 .. nextUid - 1 /\ nextUid <= 2
  BY <1>1, <1>2 DEF Census, Peopled
<1>4. c \in {0, 1} /\ c < nextUid
  BY <1>1, <1>2, <1>3
<1>5. Peopled'
  BY <1>1, <1>2, <1>3, <1>4 DEF Peopled
<1>6. InOrder' /\ Departed' /\ Played'
  BY <1>1 DEF Census, InOrder, Departed, Played, Opens, Closes, Opening, Closing, InSeq
<1> QED
  BY <1>5, <1>6 DEF Census

LEMMA CensusDetect ==
    ASSUME SessionInv, Census, NEW c, Detect(c)
    PROVE  Census'
<1>1. /\ c \in breaking /\ live' = live \ {c} /\ breaking' = breaking \ {c}
      /\ events' = Append(events, Event("disconnect", c, NoMsg))
      /\ UNCHANGED <<nextUid, connected, leaves, gameActive>>
  BY DEF Detect, Disconnect, serverVars, bounds
<1> DEFINE e == Event("disconnect", c, NoMsg)
           n == Len(events) + 1
<1>2. e.type = "disconnect" /\ e.client = c
  BY DEF Event
<1> HIDE DEF e
<1>3. /\ Len(events) \in Nat /\ events'[n] = e
      /\ \A i \in 1 .. Len(events) : events'[i] = events[i]
      /\ \A i : Opens(i)' <=> Opens(i) \/ (i = n /\ e.type = "connect")
      /\ \A i : Closes(i)' <=> Closes(i) \/ (i = n /\ e.type = "disconnect")
  BY <1>1, EventsMore DEF e, SessionInv
<1>4. /\ \A i : Opens(i)' <=> Opens(i)
      /\ \A i : Closes(i)' <=> Closes(i) \/ i = n
      /\ \A i : Opens(i) \/ Closes(i) =>
            /\ i \in Nat /\ i < n /\ events'[i] = events[i] /\ events[i].client < nextUid
      /\ events'[n].client = c /\ nextUid \in Nat
  <2>1. nextUid \in Nat
    BY SessionAssumption DEF SessionInv, Typed, TransportTyped
  <2>2. \A i \in 1 .. Len(events) : i \in Nat /\ i < n
    BY <1>3
  <2>3. \A i \in 1 .. Len(events) : events[i].client < nextUid
    BY DEF SessionInv, KnownIds
  <2>4. \A i : Opens(i) \/ Closes(i) =>
            /\ i \in Nat /\ i < n /\ events'[i] = events[i] /\ events[i].client < nextUid
    <3> HIDE DEF n
    <3> QED
      BY <1>3, <2>2, <2>3 DEF Opens, Closes
  <2> QED
    BY <1>2, <1>3, <2>1, <2>4
<1> HIDE DEF n
<1>5. Peopled' /\ nextUid <= 2
  <2>1. leaves = 1
    BY <1>1 DEF Census, Peopled
  <2>2. PICK g \in {0, 1} :
           /\ g < nextUid
           /\ \/ breaking = {g} /\ live = 0 .. nextUid - 1 /\ nextUid <= 2
              \/ breaking = {} /\ live = (0 .. nextUid - 1) \ {g} /\ nextUid <= 3
    BY <2>1 DEF Census, Peopled
  <2>3. breaking = {g} /\ c = g /\ live = 0 .. nextUid - 1 /\ nextUid <= 2
    BY <1>1, <2>2
  <2>4. breaking' = {} /\ live' = (0 .. nextUid - 1) \ {g} /\ nextUid' <= 3
    BY <1>1, <1>4, <2>3
  <2> QED
    BY <1>1, <2>1, <2>2, <2>3, <2>4 DEF Peopled
<1>6. InOrder'
  <2>1. Rising(connected)'
    BY <1>1 DEF Census, InOrder
  <2>2. ASSUME NEW i, NEW j, Opens(i)', Opens(j)', i < j
        PROVE  events'[i].client < events'[j].client
    BY <1>4, <2>2 DEF Census, InOrder
  <2>3. ASSUME NEW i, NEW d, Opens(i)', InSeq(d, connected) PROVE d < events'[i].client
    BY <1>4, <2>3 DEF Census, InOrder
  <2> QED
    BY <1>1, <2>1, <2>2, <2>3 DEF InOrder, InSeq
<1>7. Departed'
  <2>1. ASSUME NEW i, NEW j, Opens(i)', Closes(j)'
        PROVE  /\ events'[i].client = Third => j < i
               /\ events'[i].client = events'[j].client => i < j
    <3>1. /\ Opens(i) /\ events'[i] = events[i] /\ i < n /\ events[i].client < nextUid
          /\ (Closes(j) /\ events'[j] = events[j]) \/ j = n
      BY <1>4, <2>1
    <3>2. events'[i].client # Third
      <4>1. nextUid \in Nat /\ nextUid <= 2 /\ events'[i].client < nextUid
        BY <1>4, <1>5, <3>1
      <4>2. ~(2 < nextUid)
        BY <4>1
      <4> QED
        BY <4>1, <4>2 DEF Third
    <3> QED
      BY <3>1, <3>2 DEF Census, Departed
  <2>2. ASSUME NEW d, InSeq(d, connected) \/ Opening(d)'
        PROVE  d \in live' \/ Closing(d)'
    <3>1. InSeq(d, connected) \/ Opening(d)
      BY <1>4, <2>2 DEF Opening
    <3>2. d \in live \/ Closing(d)
      BY <3>1 DEF Census, Departed
    <3>3. Closing(d) => Closing(d)'
      BY <1>4 DEF Closing
    <3>4. d = c => Closing(d)'
      BY <1>4 DEF Closing
    <3> QED
      BY <1>1, <3>2, <3>3, <3>4
  <2> QED
    BY <1>1, <2>1, <2>2 DEF Departed, InSeq
<1>8. Played'
  BY <1>1, <1>4 DEF Census, Played
<1> QED
  BY <1>5, <1>6, <1>7, <1>8 DEF Census

(* A handler that leaves the game as it is. *)
LEMMA StillPlayed ==
    ASSUME Typed, Census, events # <<>>, events' = Tail(events), nextUid' = nextUid,
           gameActive' => gameActive
    PROVE  gameActive' => nextUid >= 2 /\ \A i : Opens(i)' => events'[i].client >= 2
<1>1. \A i : Opens(i)' => Opens(i + 1) /\ events'[i] = events[i + 1]
  BY EventsLess
<1> QED
  BY <1>1 DEF Census, Played

LEMMA CensusArrival ==
    ASSUME SessionInv, Census, OnClientConnect
    PROVE  Census'
<1> DEFINE c == Head(events).client
           clients == AddClient(c)
<1>1. /\ events # <<>> /\ Head(events).type = "connect" /\ events' = Tail(events)
      /\ connected' = clients
      /\ UNCHANGED <<nextUid, live, breaking, leaves>>
      /\ (~gameActive /\ gameActive') => Len(clients) >= 2
  BY DEF OnClientConnect, DispatchConnect, NextEventIs, bounds
<1>2. c \in Uids /\ connected \in Seq(Uids) /\ c < nextUid /\ Typed
      /\ c \in Nat /\ nextUid \in Nat
  <2>1. c \in Uids /\ connected \in Seq(Uids)
    BY <1>1, HeadTyped DEF SessionInv, Typed, TransportTyped
  <2>2. Len(events) \in Nat \ {0} /\ Head(events) = events[1] /\ 1 \in 1 .. Len(events)
    BY <1>1, EventsLess DEF SessionInv
  <2> QED
    BY <2>1, <2>2, SessionAssumption DEF SessionInv, KnownIds, Typed, TransportTyped, Uids
<1>3. /\ Len(clients) = Len(connected) + 1 /\ Len(connected) \in Nat
      /\ \A i \in 1 .. Len(connected) : clients[i] = connected[i]
      /\ clients[Len(connected) + 1] = c
  BY <1>2 DEF AddClient
<1>4. Opens(1) /\ Head(events) = events[1]
  BY <1>1, EventsLess DEF SessionInv, Opens
<1>5. \A d : InSeq(d, connected) => d < c
  BY <1>4 DEF Census, InOrder
<1> HIDE DEF clients
<1>6. \A i \in 1 .. Len(clients) :
         \/ i \in 1 .. Len(connected) /\ clients[i] = connected[i]
         \/ i = Len(connected) + 1 /\ clients[i] = c
  BY <1>3
<1>7. \A d : InSeq(d, connected') => InSeq(d, connected) \/ d = c
  <2>1. clients \in Seq(Uids)
    BY <1>2 DEF clients, AddClient
  <2>2. DOMAIN clients = 1 .. Len(clients) /\ DOMAIN connected = 1 .. Len(connected)
    BY <1>2, <2>1
  <2> QED
    BY <1>1, <1>6, <2>2 DEF InSeq
<1>8. Rising(connected')
  <2>1. ASSUME NEW i \in 1 .. Len(clients), NEW j \in 1 .. Len(clients), i < j
        PROVE  clients[i] < clients[j]
    <3>1. i \in 1 .. Len(connected) /\ clients[i] = connected[i]
      BY <1>3, <1>6, <2>1
    <3>2. InSeq(connected[i], connected)
      <4>1. i \in DOMAIN connected
        BY <1>2, <3>1
      <4> QED
        BY <4>1 DEF InSeq
    <3>3. CASE j \in 1 .. Len(connected) /\ clients[j] = connected[j]
      BY <2>1, <3>1, <3>3 DEF Census, InOrder, Rising
    <3>4. CASE clients[j] = c
      BY <1>5, <3>1, <3>2, <3>4
    <3> QED
      BY <1>6, <3>3, <3>4
  <2> QED
    BY <1>1, <2>1 DEF Rising
<1>9. gameActive' => /\ nextUid >= 2
                     /\ \A i : Opens(i)' => events'[i].client >= 2
  <2>1. CASE gameActive
    <3>1. nextUid' = nextUid
      BY <1>1
    <3> QED
      BY <1>1, <1>2, <2>1, <3>1, StillPlayed
  <2>2. CASE ~gameActive
    <3> SUFFICES ASSUME gameActive'
                 PROVE  nextUid >= 2 /\ \A i : Opens(i)' => events'[i].client >= 2
      OBVIOUS
    <3>1. Len(connected) >= 1
      BY <1>1, <1>3, <2>2
    <3>2. 1 \in DOMAIN connected /\ connected[1] \in Nat
      <4>1. connected[1] \in Uids /\ 1 \in DOMAIN connected
        BY <1>2, <3>1
      <4> QED
        BY <4>1, SessionAssumption DEF Uids
    <3>3. connected[1] < c
      BY <1>5, <3>2 DEF InSeq
    <3>4. c >= 1 /\ nextUid >= 2
      BY <1>2, <3>2, <3>3
    <3>5. ASSUME NEW i, Opens(i)' PROVE events'[i].client >= 2
      <4>1. i \in Nat /\ i > 0 /\ Opens(i + 1) /\ events'[i] = events[i + 1]
        BY <1>1, <1>2, <3>5, EventsLess
      <4>2. c < events[i + 1].client
        BY <1>4, <4>1 DEF Census, InOrder
      <4>3. events[i + 1].client \in Nat
        <5>1. events[i + 1] \in ClientEvents
          BY <4>1 DEF Opens, SessionInv, Typed, TransportTyped
        <5>2. events[i + 1].client \in Uids
          BY <5>1 DEF ClientEvents
        <5> QED
          BY <5>2, SessionAssumption DEF Uids
      <4> QED
        BY <1>2, <3>4, <4>1, <4>2, <4>3
    <3> QED
      BY <3>4, <3>5
  <2> QED
    BY <2>1, <2>2
<1>10. Head(events).type # "disconnect"
  BY <1>1
<1> HIDE DEF c
<1> QED
  BY <1>1, <1>2, <1>7, <1>8, <1>9, <1>10, CensusHandled DEF c

LEMMA CensusDeparture ==
    ASSUME SessionInv, Census, OnClientDisconnect
    PROVE  Census'
<1>1. /\ events # <<>> /\ Head(events).type = "disconnect" /\ events' = Tail(events)
      /\ connected' = RemoveFirst(connected, Head(events).client)
      /\ UNCHANGED <<nextUid, live, breaking, leaves>>
      /\ gameActive' => gameActive
  BY DEF OnClientDisconnect, DispatchDisconnect, NextEventIs, DropClient, bounds
<1>2. connected \in Seq(Uids) /\ Typed /\ Rising(connected)
  BY DEF SessionInv, Typed, TransportTyped, Census, InOrder
<1>3. /\ Rising(connected') /\ ~InSeq(Head(events).client, connected')
      /\ \A c : InSeq(c, connected') => InSeq(c, connected)
  BY <1>1, <1>2, RemoveFirstRising, RemoveFirstType
<1>4. gameActive' => nextUid >= 2 /\ \A i : Opens(i)' => events'[i].client >= 2
  <2>1. nextUid' = nextUid
    BY <1>1
  <2> QED
    BY <1>1, <1>2, <2>1, StillPlayed
<1> QED
  BY <1>1, <1>2, <1>3, <1>4, CensusHandled

LEMMA CensusRelay ==
    ASSUME SessionInv, Census, ForwardData \/ ResumeBoth
    PROVE  Census'
<1>1. /\ events # <<>> /\ Head(events).type = "receive" /\ events' = Tail(events)
      /\ UNCHANGED <<nextUid, live, breaking, leaves, connected, gameActive>>
  BY DEF ForwardData, ResumeBoth, DispatchReceive, NextEventIs, serverVars, bounds
<1>2. connected \in Seq(Uids) /\ Typed /\ Rising(connected')
  BY <1>1 DEF SessionInv, Typed, TransportTyped, Census, InOrder
<1>3. \A c : InSeq(c, connected') => InSeq(c, connected)
  BY <1>1
<1>4. gameActive' => nextUid >= 2 /\ \A i : Opens(i)' => events'[i].client >= 2
  <2>1. nextUid' = nextUid /\ (gameActive' => gameActive)
    BY <1>1
  <2> QED
    BY <1>1, <1>2, <2>1, StillPlayed
<1>5. Head(events).type # "disconnect"
  BY <1>1
<1>6. UNCHANGED <<nextUid, live, breaking, leaves>>
  BY <1>1
<1> QED
  BY <1>1, <1>2, <1>3, <1>4, <1>5, <1>6, CensusHandled

(* Neither the threads of a client nor its player meet anybody. *)
LEMMA CensusPlain ==
    ASSUME SessionInv, Census,
           UNCHANGED <<nextUid, live, breaking, connected, leaves, gameActive, events>>
    PROVE  Census'
<1>1. \A i : /\ Opens(i)' <=> Opens(i)
             /\ Closes(i)' <=> Closes(i)
             /\ Opens(i) \/ Closes(i) => events'[i] = events[i]
  BY DEF Opens, Closes
<1> QED
  BY <1>1, CensusQuiet

--------------------------------------------------------------------------------
(* The third client is brought up to date once.                               *)

Four == {"player", "turn", "army1", "army2"}
KindOf(p) == IF p.type = "unit" THEN p.msg.name ELSE p.type

(* Which of the four parts of a snapshot a client has. *)
Has(k, part) ==
    \/ part = "turn" /\ k.player_turn # -1
    \/ part = "player" /\ k.assigned_player # -1
    \/ \E i \in 1 .. Len(k.unit_update_queue) : k.unit_update_queue[i].name = part

Complete(k) == \A part \in Four : Has(k, part)

(* The update is completed once, and no earlier than by its last part. *)
Telling(k, q) ==
    \A i \in 1 .. Len(q) : q[i] = Done =>
        /\ \A part \in Four : Has(k, part) \/ \E j \in 1 .. i - 1 : KindOf(q[j]) = part
        /\ \A j \in i + 1 .. Len(q) : q[j] # Done

(* What the third client is yet to get of what the others send. *)
Heard == [e \in ClientEvents |->
             IF e.type = "receive" /\ e.client # Third THEN <<e.msg>> ELSE <<>>]
Way(s) == (inbox[Third] \o Extract(Heard, events)) \o outbox[s]

Once(q) == \A i, j \in 1 .. Len(q) : q[i] = Ready /\ q[j] = Ready => i = j

Newborn ==
    Third \in Uids /\ (nextUid <= Third \/ Opening(Third)) =>
        /\ inbox[Third] = <<>> /\ comp[Third].is_lobby
        /\ comp[Third].user_ID = -1 /\ scene[Third].assigned_team = 0

Calm == \A u \in Uids : ~comp[u].update_complete
Told(u) == comp[u].ready_to_send => main[u] = "sent"

Early ==
    /\ Absent({Done, Ready} \cup Resumption) /\ Newborn /\ Calm
    /\ \A u \in Uids : ~comp[u].ready_to_send /\ main[u] # "sent"

Joined(s) ==
    /\ nextUid = 3 /\ leaves = 1 /\ live = {s, Third} /\ breaking = {}
    /\ connected = <<s, Third>>
    /\ \A i : ~Opens(i) /\ ~Closes(i)
    /\ ~comp[Third].ready_to_send /\ main[Third] # "sent"

(* The third client waits for its side and what is on the board. *)
Held ==
    /\ comp[Third].is_reconnecting \/ comp[Third].is_lobby
    /\ Lacks(inbox[Third], Greetings)
    /\ comp[Third].user_ID = -1 /\ scene[Third].assigned_team = 0

Waiting(s) ==
    /\ Absent({Done} \cup Resumption) /\ Calm /\ Held
    /\ main[s] # "sent"
    /\ \A u \in Uids : u # s => Lacks(inbox[u], {Ready})
    /\ Once(inbox[s]) /\ (comp[s].ready_to_send => Lacks(inbox[s], {Ready}))

Underway(s) ==
    /\ Absent({Ready} \cup Resumption) /\ Held /\ Told(s)
    /\ \A u \in Uids : u # Third => Lacks(inbox[u], {Done}) /\ ~comp[u].update_complete
    /\ \A u \in Uids : u # s => Lacks(outbox[u], {Done})
    /\ \A i \in 1 .. Len(events) :
          events[i].type = "receive" /\ events[i].client # s => events[i].msg # Done
    /\ Telling(comp[Third], Way(s))
    /\ comp[Third].update_complete => Complete(comp[Third]) /\ Lacks(Way(s), {Done})

Over(s) == Absent({Done, Ready}) /\ Calm /\ Told(s)

Stage(s) == Joined(s) /\ (Waiting(s) \/ Underway(s) \/ Over(s))

LEMMA Packed ==
    ASSUME NEW p \in ToClients \cup FromClients
    PROVE  /\ p = Done <=> p.type = "update_complete"
           /\ p = Ready <=> p.type = "ready"
           /\ p = Packet("resume", 0) <=> p.type = "resume"
           /\ p = Packet("reconnect", FALSE) <=> p.type = "reconnect" /\ ~p.msg
           /\ p \in Greetings <=> p.type \in {"start", "init"}
           /\ p.type = "unit" => p.msg \in UnitMsgs
           /\ p.type \in {"turn", "player"} => p.msg \in Teams
  BY DEF ToClients, FromClients, Forwardable, Done, Ready, Greetings, Packet

(* What a packet does to the flags of the component that takes it. *)
LEMMA Processed ==
    ASSUME NEW k \in Components, NEW p \in ToClients
    PROVE  LET w == ProcessReceived(k, p) IN
           /\ w.update_complete <=> k.update_complete \/ p = Done
           /\ w.ready_to_send <=> k.ready_to_send \/ p = Ready
           /\ p \notin Greetings => w.user_ID = k.user_ID
           /\ p \notin Greetings \cup Resumption /\ (k.is_reconnecting \/ k.is_lobby) =>
                 w.is_reconnecting \/ w.is_lobby
           /\ \A part : Has(k, part) => Has(w, part)
           /\ KindOf(p) \in Four => Has(w, KindOf(p))
<1> DEFINE w == ProcessReceived(k, p)
<1> USE Packed
<1> HIDE DEF w
<1>1. p.type \in {"init", "unit", "turn", "player", "start", "data_sender", "ready",
                  "update_complete", "reconnect"}
  BY DEF ToClients, Forwardable
<1>2. p.type = "reconnect" => p.msg \in BOOLEAN
  BY DEF ToClients, Forwardable
<1>3. /\ w.update_complete <=> k.update_complete \/ p.type = "update_complete"
      /\ w.ready_to_send <=> k.ready_to_send \/ p.type = "ready"
      /\ p.type # "init" => w.user_ID = k.user_ID
      /\ /\ p.type # "start" /\ ~(p.type = "reconnect" /\ ~p.msg)
         /\ k.is_reconnecting \/ k.is_lobby
         => w.is_reconnecting \/ w.is_lobby
      /\ w.player_turn = IF p.type = "turn" THEN p.msg ELSE k.player_turn
      /\ w.assigned_player = IF p.type = "player" THEN p.msg ELSE k.assigned_player
      /\ w.unit_update_queue = IF p.type = "unit" THEN Append(k.unit_update_queue, p.msg)
                                                  ELSE k.unit_update_queue
  <2>1. CASE p.type = "init"
    BY <2>1 DEF w, ProcessReceived, Components
  <2>2. CASE p.type = "start"
    BY <2>2 DEF w, ProcessReceived, Components
  <2>3. CASE p.type = "unit"
    BY <2>3 DEF w, ProcessReceived, Components
  <2>4. CASE p.type \in {"turn", "player"}
    BY <2>4 DEF w, ProcessReceived, Components
  <2>5. CASE p.type \in {"data_sender", "ready", "update_complete"}
    BY <2>5 DEF w, ProcessReceived, Components
  <2>6. CASE p.type = "reconnect"
    BY <1>2, <2>6 DEF w, ProcessReceived, Components
  <2> QED
    BY <1>1, <2>1, <2>2, <2>3, <2>4, <2>5, <2>6
<1>4. k.unit_update_queue \in Seq(UnitMsgs)
  BY DEF Components
<1>5. p.type = "unit" =>
         LET n == Len(k.unit_update_queue) + 1 IN
         /\ n \in 1 .. Len(w.unit_update_queue) /\ w.unit_update_queue[n] = p.msg
         /\ \A i \in 1 .. Len(k.unit_update_queue) :
               i \in 1 .. Len(w.unit_update_queue)
               /\ w.unit_update_queue[i] = k.unit_update_queue[i]
  <2> DEFINE q == k.unit_update_queue
             r == Append(q, p.msg)
  <2>1. /\ Len(r) = Len(q) + 1 /\ Len(q) \in Nat /\ r[Len(q) + 1] = p.msg
        /\ \A i \in 1 .. Len(q) : r[i] = q[i]
    BY <1>4
  <2> HIDE DEF r
  <2>2. Len(q) + 1 \in 1 .. Len(r) /\ \A i \in 1 .. Len(q) : i \in 1 .. Len(r)
    BY <2>1
  <2>3. p.type = "unit" => w.unit_update_queue = r
    BY <1>3 DEF r
  <2> QED
    BY <2>1, <2>2, <2>3
<1>6. \A part : Has(k, part) => Has(w, part)
  <2> SUFFICES ASSUME NEW part, Has(k, part) PROVE Has(w, part)
    OBVIOUS
  <2>1. -1 \notin Teams
    BY DEF Teams
  <2>2. k.player_turn # -1 => w.player_turn # -1
    BY <1>3, <2>1
  <2>3. k.assigned_player # -1 => w.assigned_player # -1
    BY <1>3, <2>1
  <2>4. ASSUME NEW i \in 1 .. Len(k.unit_update_queue), k.unit_update_queue[i].name = part
        PROVE  \E j \in 1 .. Len(w.unit_update_queue) : w.unit_update_queue[j].name = part
    BY <1>3, <1>5, <2>4
  <2> QED
    BY <2>2, <2>3, <2>4 DEF Has
<1>7. KindOf(p) \in Four => Has(w, KindOf(p))
  <2>1. -1 \notin Teams
    BY DEF Teams
  <2>2. CASE p.type = "unit"
    BY <1>5, <2>2 DEF Has, KindOf
  <2>3. CASE p.type \in {"turn", "player"}
    BY <1>3, <2>1, <2>3 DEF Has, KindOf
  <2>4. CASE p.type \notin {"unit", "turn", "player"}
    BY <1>1, <2>4 DEF KindOf, Four
  <2> QED
    BY <2>2, <2>3, <2>4
<1>8. /\ w.update_complete <=> k.update_complete \/ p = Done
      /\ w.ready_to_send <=> k.ready_to_send \/ p = Ready
      /\ p \notin Greetings => w.user_ID = k.user_ID
      /\ p \notin Greetings \cup Resumption /\ (k.is_reconnecting \/ k.is_lobby) =>
            w.is_reconnecting \/ w.is_lobby
  BY <1>3 DEF Resumption
<1> QED
  BY <1>6, <1>7, <1>8 DEF w

LEMMA TellingStep ==
    ASSUME NEW M, NEW q \in Seq(M), q # <<>>, NEW k, NEW w, Telling(k, q),
           \A part : Has(k, part) => Has(w, part),
           KindOf(Head(q)) \in Four => Has(w, KindOf(Head(q)))
    PROVE  /\ Telling(w, Tail(q))
           /\ Head(q) = Done => Complete(k) /\ Lacks(Tail(q), {Done})
<1>1. /\ Len(q) \in Nat \ {0} /\ Head(q) = q[1] /\ 1 \in 1 .. Len(q)
      /\ Len(Tail(q)) = Len(q) - 1 /\ \A i \in 1 .. Len(q) - 1 : Tail(q)[i] = q[i + 1]
  OBVIOUS
<1>2. ASSUME NEW i \in 1 .. Len(Tail(q)), Tail(q)[i] = Done
      PROVE  /\ \A part \in Four : Has(w, part) \/ \E j \in 1 .. i - 1 : KindOf(Tail(q)[j]) = part
             /\ \A j \in i + 1 .. Len(Tail(q)) : Tail(q)[j] # Done
  <2>1. i + 1 \in 1 .. Len(q) /\ q[i + 1] = Done /\ i \in Nat
    BY <1>1, <1>2
  <2>2. ASSUME NEW part \in Four, ~Has(w, part)
        PROVE  \E j \in 1 .. i - 1 : KindOf(Tail(q)[j]) = part
    <3>1. PICK j \in 1 .. i + 1 - 1 : KindOf(q[j]) = part
      BY <2>1, <2>2 DEF Telling
    <3>2. j # 1
      BY <1>1, <2>2, <3>1
    <3>3. j - 1 \in 1 .. i - 1 /\ j - 1 \in 1 .. Len(q) - 1 /\ (j - 1) + 1 = j
      BY <1>1, <2>1, <3>1, <3>2
    <3> QED
      BY <1>1, <3>1, <3>3
  <2>3. ASSUME NEW j \in i + 1 .. Len(Tail(q)) PROVE Tail(q)[j] # Done
    <3>1. j + 1 \in (i + 1) + 1 .. Len(q) /\ j \in 1 .. Len(q) - 1
      BY <1>1, <2>1
    <3> QED
      BY <1>1, <2>1, <3>1 DEF Telling
  <2> QED
    BY <2>2, <2>3
<1>3. ASSUME Head(q) = Done PROVE Complete(k) /\ Lacks(Tail(q), {Done})
  <2>1. \A part \in Four : Has(k, part) \/ \E j \in 1 .. 1 - 1 : KindOf(q[j]) = part
    BY <1>1, <1>3 DEF Telling
  <2>2. \A j \in 1 + 1 .. Len(q) : q[j] # Done
    BY <1>1, <1>3 DEF Telling
  <2>3. \A j \in 1 .. Len(Tail(q)) : j + 1 \in 1 + 1 .. Len(q) /\ Tail(q)[j] = q[j + 1]
    BY <1>1
  <2>4. Lacks(Tail(q), {Done})
    BY <2>2, <2>3 DEF Lacks
  <2>5. 1 .. 1 - 1 = {}
    OBVIOUS
  <2> QED
    BY <2>1, <2>4, <2>5 DEF Complete
<1> QED
  BY <1>2, <1>3 DEF Telling

LEMMA TellingMore ==
    ASSUME NEW M, NEW q \in Seq(M), NEW new \in Seq(M), NEW k, Telling(k, q),
           Lacks(new, {Done})
    PROVE  Telling(k, q \o new)
<1> DEFINE r == q \o new
<1>1. /\ Len(r) = Len(q) + Len(new) /\ Len(q) \in Nat /\ Len(new) \in Nat
      /\ \A i \in 1 .. Len(q) + Len(new) : r[i] = IF i <= Len(q) THEN q[i] ELSE new[i - Len(q)]
  BY ConcatProperties
<1> HIDE DEF r
<1>2. ASSUME NEW i \in 1 .. Len(r), r[i] = Done PROVE i \in 1 .. Len(q) /\ q[i] = Done
  <2>1. CASE i <= Len(q)
    BY <1>1, <1>2, <2>1
  <2>2. CASE ~(i <= Len(q))
    <3>1. i - Len(q) \in 1 .. Len(new) /\ new[i - Len(q)] = Done
      BY <1>1, <1>2, <2>2
    <3> QED
      BY <3>1 DEF Lacks
  <2> QED
    BY <2>1, <2>2
<1>3. ASSUME NEW i \in 1 .. Len(r), r[i] = Done
      PROVE  /\ \A part \in Four : Has(k, part) \/ \E j \in 1 .. i - 1 : KindOf(r[j]) = part
             /\ \A j \in i + 1 .. Len(r) : r[j] # Done
  <2>1. i \in 1 .. Len(q) /\ q[i] = Done
    BY <1>2, <1>3
  <2>2. \A j \in 1 .. i - 1 : r[j] = q[j]
    BY <1>1, <2>1
  <2>3. \A part \in Four : Has(k, part) \/ \E j \in 1 .. i - 1 : KindOf(q[j]) = part
    BY <2>1 DEF Telling
  <2>4. ASSUME NEW j \in i + 1 .. Len(r), r[j] = Done PROVE FALSE
    <3>1. j \in 1 .. Len(r)
      BY <1>1, <2>1
    <3>2. j \in 1 .. Len(q) /\ q[j] = Done
      BY <1>2, <2>4, <3>1
    <3>3. j \in i + 1 .. Len(q)
      BY <1>1, <2>1, <3>2
    <3> QED
      BY <2>1, <3>2, <3>3 DEF Telling
  <2> QED
    BY <2>2, <2>3, <2>4
<1> QED
  BY <1>3 DEF Telling, r

LEMMA TellingNew ==
    ASSUME NEW M, Forwardable \subseteq M, NEW q \in Seq(M), Lacks(q, {Done}), NEW k,
           NEW s \in Scenes
    PROVE  Telling(k, q \o Snapshot(s))
<1> DEFINE new == Snapshot(s)
           r == q \o new
<1>1. /\ Len(new) = 5 /\ new \in Seq(M)
      /\ KindOf(new[1]) = "player" /\ KindOf(new[2]) = "turn"
      /\ KindOf(new[3]) = "army1" /\ KindOf(new[4]) = "army2"
      /\ \A i \in 1 .. 4 : new[i] # Done
  <2>1. new \in Seq(M)
    <3>1. new \in Seq(Forwardable)
      BY SnapshotTyped
    <3>2. \A p \in Seq(Forwardable) : p \in Seq(M)
      OBVIOUS
    <3> QED
      BY <3>1, <3>2
  <2>2. /\ Len(new) = 5
        /\ new[1].type = "player" /\ new[2].type = "turn"
        /\ new[3] = SquadPacket(s, 1) /\ new[4] = SquadPacket(s, 2)
    BY DEF Snapshot, Packet
  <2>3. /\ SquadPacket(s, 1).type = "unit" /\ SquadPacket(s, 1).msg.name = "army1"
        /\ SquadPacket(s, 2).type = "unit" /\ SquadPacket(s, 2).msg.name = "army2"
    BY DEF SquadPacket, UnitPacket, Packet, RefName
  <2>4. Done.type = "update_complete"
    BY DEF Done, Packet
  <2>5. \A i \in 1 .. 4 : i = 1 \/ i = 2 \/ i = 3 \/ i = 4
    OBVIOUS
  <2> HIDE DEF new
  <2> QED
    BY <2>1, <2>2, <2>3, <2>4, <2>5 DEF KindOf
<1> HIDE DEF new
<1>2. /\ Len(r) = Len(q) + 5 /\ Len(q) \in Nat
      /\ \A i \in 1 .. Len(q) + 5 : r[i] = IF i <= Len(q) THEN q[i] ELSE new[i - Len(q)]
  <2>1. new \in Seq(M)
    BY <1>1
  <2>2. /\ Len(r) = Len(q) + Len(new) /\ Len(q) \in Nat
        /\ \A i \in 1 .. Len(q) + Len(new) :
              r[i] = IF i <= Len(q) THEN q[i] ELSE new[i - Len(q)]
    BY <2>1, ConcatProperties
  <2> HIDE DEF r
  <2> QED
    BY <1>1, <2>2
<1> HIDE DEF r
<1>3. \A i \in 1 .. 5 : Len(q) + i \in 1 .. Len(r) /\ r[Len(q) + i] = new[i]
  BY <1>2
<1>4. ASSUME NEW i \in 1 .. Len(r), r[i] = Done PROVE i = Len(q) + 5
  <2>1. CASE i <= Len(q)
    BY <1>2, <1>4, <2>1 DEF Lacks
  <2>2. CASE ~(i <= Len(q))
    <3>1. i - Len(q) \in 1 .. 5 /\ new[i - Len(q)] = Done
      BY <1>2, <1>4, <2>2
    <3>2. i - Len(q) = 5
      BY <1>1, <3>1
    <3> QED
      BY <1>2, <3>2
  <2> QED
    BY <2>1, <2>2
<1>5. ASSUME NEW i \in 1 .. Len(r), r[i] = Done
      PROVE  /\ \A part \in Four : Has(k, part) \/ \E j \in 1 .. i - 1 : KindOf(r[j]) = part
             /\ \A j \in i + 1 .. Len(r) : r[j] # Done
  <2>1. i = Len(q) + 5
    BY <1>4, <1>5
  <2>2. \A j \in 1 .. 4 : Len(q) + j \in 1 .. i - 1 /\ r[Len(q) + j] = new[j]
    BY <1>2, <1>3, <2>1
  <2>3. \A part \in Four : \E j \in 1 .. 4 : KindOf(new[j]) = part
    BY <1>1 DEF Four
  <2>4. i + 1 .. Len(r) = {}
    BY <1>2, <2>1
  <2> QED
    BY <2>2, <2>3, <2>4
<1> QED
  BY <1>5 DEF Telling, r, new

(* It is told to whoever knows more. *)
LEMMA TellingKept ==
    ASSUME NEW k, NEW w, NEW q, Telling(k, q), \A part : Has(k, part) => Has(w, part)
    PROVE  Telling(w, q) /\ (Complete(k) => Complete(w))
  BY DEF Telling, Complete

--------------------------------------------------------------------------------
(* What the main thread and the player of a client do to it.                  *)

(* Nothing of what the snapshot is about. *)
Tame(c) ==
    /\ comp'[c].update_complete = comp[c].update_complete
    /\ comp'[c].is_lobby = comp[c].is_lobby
    /\ comp'[c].is_reconnecting = comp[c].is_reconnecting
    /\ comp'[c].user_ID = comp[c].user_ID
    /\ \/ comp'[c] = comp[c] /\ main'[c] = main[c]
       \/ ~comp'[c].ready_to_send /\ main'[c] # "sent"
       \/ comp'[c].ready_to_send = comp[c].ready_to_send /\ main[c] # "sent" /\ main'[c] # "sent"
    /\ Playing(c) \/ (\A part : Has(comp[c], part) => Has(comp'[c], part))
    /\ scene'[c].assigned_team # scene[c].assigned_team =>
          scene[c].assigned_team = 0 /\ comp[c].user_ID # -1

Snapped(c, new) ==
    /\ new = Snapshot(AssignTeam(c)) /\ AssignTeam(c) \in Scenes
    /\ Sending(c) /\ main[c] # "sent"
    /\ comp'[c] = comp[c] /\ main'[c] = "sent"
    /\ scene'[c].assigned_team # scene[c].assigned_team =>
          scene[c].assigned_team = 0 /\ comp[c].user_ID # -1

Resumed(c, new) ==
    /\ new = <<Packet("resume", 0)>>
    /\ comp[c].update_complete /\ ~comp'[c].update_complete
    /\ comp'[c].ready_to_send = comp[c].ready_to_send
    /\ main[c] # "sent" /\ main'[c] # "sent"

LEMMA AssignedOnce ==
    ASSUME Typed, NEW c \in Uids, InUpdate(c)
    PROVE  /\ AssignTeam(c) \in Scenes /\ main[c] # "sent"
           /\ AssignTeam(c).assigned_team # scene[c].assigned_team =>
                 scene[c].assigned_team = 0 /\ comp[c].user_ID # -1
<1>1. AssignTeam(c) \in Scenes /\ scene[c] \in Scenes
  BY AssignTeamTyped DEF Typed, ClientsTyped
<1>2. main[c] # "sent"
  BY DEF InUpdate
<1>3. AssignTeam(c).assigned_team # scene[c].assigned_team =>
         scene[c].assigned_team = 0 /\ comp[c].user_ID # -1
  BY DEF InUpdate, AssignTeam
<1> QED
  BY <1>1, <1>2, <1>3

LEMMA ComponentsOf ==
    ASSUME Typed, NEW c \in Uids
    PROVE  /\ comp[c] \in Components /\ scene[c] \in Scenes
           /\ outbox[c] \in Seq(FromClients) /\ inbox[c] \in Seq(ToClients)
           /\ comp[c].unit_update_queue \in Seq(UnitMsgs)
           /\ comp \in [Uids -> Components] /\ scene \in [Uids -> Scenes]
           /\ outbox \in [Uids -> Seq(FromClients)]
           /\ main \in [Uids -> {"top", "began", "sent"}]
  BY DEF Typed, ClientsTyped, TransportTyped, Components

LEMMA MainLocal ==
    ASSUME Typed, NEW c \in Uids, MainThread(c)
    PROVE  \E new \in Seq(FromClients) :
              /\ Local(c, new)
              /\ \/ Tame(c) /\ new = <<>>
                 \/ Snapped(c, new)
                 \/ Resumed(c, new)
<1>1. /\ comp[c] \in Components /\ scene[c] \in Scenes
      /\ outbox[c] \in Seq(FromClients) /\ comp[c].unit_update_queue \in Seq(UnitMsgs)
      /\ comp \in [Uids -> Components] /\ scene \in [Uids -> Scenes]
      /\ outbox \in [Uids -> Seq(FromClients)]
      /\ main \in [Uids -> {"top", "began", "sent"}]
  BY ComponentsOf
<1>2. /\ <<>> \in Seq(FromClients) /\ outbox[c] \o <<>> = outbox[c]
  BY <1>1, ConcatEmptySeq
<1>3. InUpdate(c) =>
         /\ AssignTeam(c) \in Scenes /\ main[c] # "sent"
         /\ AssignTeam(c).assigned_team # scene[c].assigned_team =>
               scene[c].assigned_team = 0 /\ comp[c].user_ID # -1
  BY AssignedOnce
<1>4. CASE BeginUpdate(c)
  <2>1. Tame(c)
    BY <1>1, <1>4 DEF BeginUpdate, Tame
  <2>2. Local(c, <<>>)
    BY <1>1, <1>2, <1>4 DEF BeginUpdate, Local, serverVars, bounds
  <2> QED
    BY <1>2, <2>1, <2>2
<1>10. CASE AssignTeamLate(c)
  <2>1. Tame(c)
    BY <1>1, <1>10 DEF AssignTeamLate, Tame
  <2>2. [scene[c] EXCEPT !.assigned_team = 2] \in Scenes
    BY <1>1 DEF Scenes, Teams
  <2>3. Local(c, <<>>)
    BY <1>1, <1>2, <1>10, <2>2 DEF AssignTeamLate, Local, serverVars, bounds
  <2> QED
    BY <1>2, <2>1, <2>3
<1>5. CASE UpdateReconnectee(c)
  <2> DEFINE new == Snapshot(AssignTeam(c))
  <2>1. AssignTeam(c) \in Scenes /\ main[c] # "sent" /\ Sending(c)
    BY <1>3, <1>5 DEF UpdateReconnectee
  <2>2. new \in Seq(FromClients)
    <3>1. new \in Seq(Forwardable)
      BY <2>1, SnapshotTyped
    <3>2. \A p \in Seq(Forwardable) : p \in Seq(FromClients)
      BY DEF FromClients
    <3> QED
      BY <3>1, <3>2
  <2>3. Snapped(c, new)
    BY <1>1, <1>3, <1>5, <2>1 DEF UpdateReconnectee, Snapped
  <2> HIDE DEF new
  <2>4. Local(c, new)
    <3>1. /\ outbox' = [outbox EXCEPT ![c] = outbox[c] \o new]
          /\ UNCHANGED <<transportVars, gameActive, comp, leaves>>
          /\ scene' = [scene EXCEPT ![c] = AssignTeam(c)] /\ main' = [main EXCEPT ![c] = "sent"]
      BY <1>1, <1>5 DEF UpdateReconnectee, serverVars, bounds, new
    <3> QED
      BY <1>1, <3>1 DEF Local
  <2> QED
    BY <2>2, <2>3, <2>4
<1>6. CASE ResetReadyToSend(c)
  <2>0. comp'[c] = [comp[c] EXCEPT !.ready_to_send = FALSE] /\ main'[c] = "top"
    BY <1>1, <1>6 DEF ResetReadyToSend
  <2>1. Tame(c)
    <3>1. scene' = scene
      BY <1>6 DEF ResetReadyToSend
    <3> QED
      BY <1>1, <2>0, <3>1 DEF Tame, Components, Has
  <2>2. Local(c, <<>>)
    BY <1>1, <1>2, <1>6 DEF ResetReadyToSend, Local, serverVars, bounds
  <2> QED
    BY <1>2, <2>1, <2>2
<1>7. CASE ResumeFromSnapshot(c)
  <2> DEFINE new == <<Packet("resume", 0)>>
  <2>1. Packet("resume", 0) \in FromClients
    BY PacketKinds
  <2>2. /\ Append(outbox[c], Packet("resume", 0)) = outbox[c] \o new
        /\ new \in Seq(FromClients)
    BY <1>1, <2>1
  <2>3. \E user, queue, s :
           /\ comp' = [comp EXCEPT ![c].user_ID = user, ![c].unit_update_queue = queue,
                                   ![c].update_complete = FALSE]
           /\ scene' = [scene EXCEPT ![c] = s]
    BY <1>7 DEF ResumeFromSnapshot
  <2>4. PICK user, queue, s :
           /\ comp' = [comp EXCEPT ![c].user_ID = user, ![c].unit_update_queue = queue,
                                   ![c].update_complete = FALSE]
           /\ scene' = [scene EXCEPT ![c] = s]
    BY <2>3
  <2>5. /\ ~comp'[c].update_complete /\ comp'[c].ready_to_send = comp[c].ready_to_send
        /\ \A u \in Uids : u # c => comp'[u] = comp[u] /\ scene'[u] = scene[u]
    BY <1>1, <2>4 DEF Components
  <2>6. /\ UNCHANGED <<transportVars, gameActive, leaves>>
        /\ main' = [main EXCEPT ![c] = "top"]
        /\ outbox' = [outbox EXCEPT ![c] = Append(@, Packet("resume", 0))]
        /\ comp[c].update_complete /\ main[c] # "sent"
    BY <1>3, <1>7 DEF ResumeFromSnapshot, serverVars, bounds, Resuming
  <2>7. Resumed(c, new)
    BY <1>1, <2>5, <2>6 DEF Resumed
  <2>8. Local(c, new)
    <3>1. outbox'[c] = outbox[c] \o new /\ \A u \in Uids : u # c => outbox'[u] = outbox[u]
      BY <1>1, <2>2, <2>6
    <3>2. \A u \in Uids : u # c => main'[u] = main[u]
      BY <1>1, <2>6
    <3> QED
      BY <2>5, <2>6, <3>1, <3>2 DEF Local
  <2> QED
    BY <2>2, <2>7, <2>8
<1>8. CASE PlayFrame(c)
  <2> DEFINE s == UnitsUpdate(AssignTeam(c))
             q == comp[c].unit_update_queue
             t == IF Listening(s) THEN UnitNetworkUpdate(s, q) ELSE s
  <2>1. /\ scene' = [scene EXCEPT ![c] = t] /\ main' = [main EXCEPT ![c] = "top"]
        /\ InUpdate(c) /\ Playing(c)
        /\ comp' = comp \/ comp' = [comp EXCEPT ![c].unit_update_queue = <<>>]
        /\ UNCHANGED <<transportVars, gameActive, outbox, leaves>>
    BY <1>8 DEF PlayFrame, serverVars, bounds
  <2>2. s \in Scenes /\ s.assigned_team = AssignTeam(c).assigned_team
    BY <1>3, <2>1, UnitsUpdateTyped DEF UnitsUpdate, Scenes
  <2> HIDE DEF s
  <2>3. t.assigned_team = AssignTeam(c).assigned_team
    BY <1>1, <2>2, UpdateKeeps
  <2> HIDE DEF t
  <2>4. Tame(c)
    BY <1>1, <1>3, <2>1, <2>3 DEF Tame, Components
  <2>5. Local(c, <<>>)
    BY <1>1, <1>2, <2>1 DEF Local
  <2> QED
    BY <1>2, <2>4, <2>5
<1>9. CASE IdleFrame(c)
  <2>1. Tame(c)
    BY <1>1, <1>3, <1>9 DEF IdleFrame, Tame
  <2>2. Local(c, <<>>)
    BY <1>1, <1>2, <1>9 DEF IdleFrame, Local, serverVars, bounds
  <2> QED
    BY <1>2, <2>1, <2>2
<1> QED
  BY <1>4, <1>5, <1>6, <1>7, <1>8, <1>9, <1>10 DEF MainThread

LEMMA PlayerLocal ==
    ASSUME Typed, NEW c \in Uids, Player(c)
    PROVE  \E new \in Seq(FromClients) :
              /\ Local(c, new) /\ Tame(c) /\ c \in Up /\ Playing(c)
              /\ Lacks(new, {Done, Ready} \cup Resumption)
<1> DEFINE X == {Done, Ready} \cup Resumption
<1>1. /\ comp[c] \in Components /\ scene[c] \in Scenes
      /\ outbox[c] \in Seq(FromClients)
      /\ comp \in [Uids -> Components] /\ scene \in [Uids -> Scenes]
      /\ outbox \in [Uids -> Seq(FromClients)]
  BY ComponentsOf
<1>2. /\ <<>> \in Seq(FromClients) /\ outbox[c] \o <<>> = outbox[c] /\ Lacks(<<>>, X)
  BY <1>1, ConcatEmptySeq DEF Lacks
<1>3. MayClick(c) /\ UNCHANGED <<transportVars, gameActive, comp, main, leaves>>
  BY DEF Player, Move, Attack, NextTurnPressed, serverVars, bounds
<1>4. c \in Up /\ Playing(c)
  BY <1>3 DEF MayClick
<1>5. CASE Move(c) \/ Attack(c)
  <2>1. UNCHANGED outbox
    BY <1>5 DEF Move, Attack
  <2>2. \E s : scene' = [scene EXCEPT ![c] = s] /\ s.assigned_team = scene[c].assigned_team
    <3>1. CASE Move(c)
      <4>1. scene' = [scene EXCEPT ![c] =
                         [scene[c] EXCEPT !.changed = @ \cup {scene[c].assigned_team}]]
        BY <1>1, <3>1 DEF Move
      <4>2. [scene[c] EXCEPT !.changed = @ \cup {scene[c].assigned_team}].assigned_team
               = scene[c].assigned_team
        BY <1>1 DEF Scenes
      <4> QED
        BY <4>1, <4>2
    <3>2. CASE Attack(c)
      <4> DEFINE target == Other(scene[c].assigned_team)
      <4>1. PICK left : scene' = [scene EXCEPT ![c].squads[target] = left,
                                                ![c].changed = @ \cup {target}]
        BY <3>2 DEF Attack
      <4> HIDE DEF target
      <4> DEFINE s == [scene[c] EXCEPT !.squads = [@ EXCEPT ![target] = left],
                                       !.changed = @ \cup {target}]
      <4>2. scene' = [scene EXCEPT ![c] = s]
        BY <1>1, <4>1
      <4>3. s.assigned_team = scene[c].assigned_team
        BY <1>1 DEF Scenes
      <4> QED
        BY <4>2, <4>3
    <3> QED
      BY <1>5, <3>1, <3>2
  <2>3. Tame(c)
    BY <1>1, <1>3, <1>4, <2>2 DEF Tame
  <2>4. Local(c, <<>>)
    BY <1>1, <1>2, <1>3, <2>1, <2>2 DEF Local
  <2> QED
    BY <1>2, <1>4, <2>3, <2>4
<1>6. CASE NextTurnPressed(c)
  <2> DEFINE s == IF Depleted(scene[c]) THEN Finish(scene[c]) ELSE scene[c]
             next == [s EXCEPT !.changed = {}, !.player_turn = Other(@)]
  <2>1. PICK fell \in EndgameFallthrough :
           /\ outbox' = [outbox EXCEPT ![c] =
                            @ \o TurnPackets(s, Depleted(scene[c]) \/ fell)]
           /\ scene' = [scene EXCEPT ![c] = next]
    BY <1>6 DEF NextTurnPressed
  <2> DEFINE won == Depleted(scene[c]) \/ fell
             new == TurnPackets(s, won)
  <2>2. s \in Scenes /\ s.assigned_team = scene[c].assigned_team
    BY <1>1, <1>6 DEF Finish, Scenes, NextTurnPressed
  <2>3. won \in BOOLEAN
    BY SessionAssumption DEF Depleted
  <2>4. /\ new \in Seq(Forwardable)
        /\ \A i \in 1 .. Len(new) : new[i].type = "unit"
    <3> HIDE DEF s, won
    <3> QED
      BY <2>2, <2>3, TurnPacketsUnits
  <2>5. next.assigned_team = scene[c].assigned_team
    <3> HIDE DEF s
    <3> QED
      BY <2>2 DEF Scenes
  <2>6. outbox' = [outbox EXCEPT ![c] = @ \o new] /\ scene' = [scene EXCEPT ![c] = next]
    BY <2>1
  <2> HIDE DEF s, won, new, next
  <2>7. new \in Seq(FromClients)
    <3>1. \A p \in Seq(Forwardable) : p \in Seq(FromClients)
      BY DEF FromClients
    <3> QED
      BY <2>4, <3>1
  <2>8. Lacks(new, X)
    <3>1. \A p \in X : p.type # "unit"
      BY DEF Done, Ready, Resumption, Packet
    <3> QED
      BY <2>4, <3>1 DEF Lacks
  <2>9. Tame(c)
    BY <1>1, <1>3, <1>4, <2>5, <2>6 DEF Tame
  <2>10. Local(c, new)
    BY <1>1, <1>3, <2>6 DEF Local
  <2> QED
    BY <1>4, <2>7, <2>8, <2>9, <2>10
<1> QED
  BY <1>5, <1>6 DEF Player

--------------------------------------------------------------------------------
(* Before the third client is met there is no snapshot.                       *)

Untold == {Done, Ready} \cup Resumption

LEMMA EarlyLocal ==
    ASSUME SessionInv, Early, NEW c \in Uids, MainThread(c) \/ Player(c)
    PROVE  Early'
<1>0. Typed
  BY DEF SessionInv
<1>1. Absent(Untold) /\ Newborn /\ Calm /\ ~comp[c].ready_to_send /\ ~comp[c].update_complete
  BY DEF Early, Untold, Calm
<1>2. PICK new \in Seq(FromClients) : Local(c, new) /\ Tame(c) /\ Lacks(new, Untold)
  <2>1. CASE MainThread(c)
    <3>1. PICK new \in Seq(FromClients) :
              /\ Local(c, new)
              /\ \/ Tame(c) /\ new = <<>>
                 \/ Snapped(c, new)
                 \/ Resumed(c, new)
      BY <1>0, <2>1, MainLocal
    <3>2. ~Snapped(c, new) /\ ~Resumed(c, new)
      BY <1>1 DEF Snapped, Resumed, Sending
    <3> QED
      BY <3>1, <3>2 DEF Lacks
  <2>2. CASE Player(c)
    BY <1>0, <2>2, PlayerLocal DEF Untold
  <2> QED
    BY <2>1, <2>2
<1>3. Absent(Untold)'
  BY <1>0, <1>1, <1>2, AbsentLocal
<1>4. /\ \A u \in Uids : u # c => comp'[u] = comp[u] /\ scene'[u] = scene[u] /\ main'[u] = main[u]
      /\ UNCHANGED <<events, inbox, nextUid>>
  BY <1>2 DEF Local, transportVars
<1>5. ~comp'[c].update_complete /\ ~comp'[c].ready_to_send /\ main'[c] # "sent"
  BY <1>1, <1>2 DEF Tame, Early
<1>6. Newborn'
  <2> SUFFICES ASSUME Third \in Uids, nextUid' <= Third \/ Opening(Third)'
               PROVE  /\ inbox'[Third] = <<>> /\ comp'[Third].is_lobby
                      /\ comp'[Third].user_ID = -1 /\ scene'[Third].assigned_team = 0
    BY DEF Newborn
  <2>1. nextUid <= Third \/ Opening(Third)
    BY <1>4 DEF Opening, Opens
  <2>2. /\ inbox[Third] = <<>> /\ comp[Third].is_lobby
        /\ comp[Third].user_ID = -1 /\ scene[Third].assigned_team = 0
    BY <1>1, <2>1 DEF Newborn
  <2> QED
    BY <1>2, <1>4, <2>2 DEF Tame
<1> QED
  BY <1>1, <1>3, <1>4, <1>5, <1>6 DEF Early, Calm, Untold

LEMMA EarlyConsumer ==
    ASSUME SessionInv, Early, NEW c \in Uids, ConsumerThread(c)
    PROVE  Early'
<1>0. Typed
  BY DEF SessionInv
<1>1. Absent(Untold) /\ Newborn /\ Calm
  BY DEF Early, Untold
<1>2. CASE Flush(c)
  <2>1. /\ Absent(Untold)'
        /\ events' = Append(events, Event("receive", c, Head(outbox[c])))
        /\ UNCHANGED <<comp, scene, main, inbox, nextUid>>
    BY <1>0, <1>1, <1>2, AbsentFlush
  <2> DEFINE e == Event("receive", c, Head(outbox[c]))
  <2>2. e.type = "receive"
    BY DEF Event
  <2> HIDE DEF e
  <2>3. /\ Len(events) \in Nat
        /\ \A i \in 1 .. Len(events) : events'[i] = events[i]
        /\ \A i : Opens(i)' <=> Opens(i)
    BY <1>0, <2>1, <2>2, EventsMore DEF e
  <2>4. Opening(Third)' => Opening(Third)
    BY <2>3 DEF Opening, Opens
  <2> QED
    BY <2>1, <2>4 DEF Early, Newborn, Calm, Untold
<1>3. CASE Consume(c)
  <2>1. /\ Absent(Untold)' /\ Head(inbox[c]) \notin Untold
        /\ Head(inbox[c]) \in ToClients /\ inbox[c] # <<>>
        /\ comp'[c] = ProcessReceived(comp[c], Head(inbox[c]))
        /\ \A u \in Uids : u # c => inbox'[u] = inbox[u] /\ comp'[u] = comp[u]
        /\ UNCHANGED <<scene, main, events, nextUid>>
    BY <1>0, <1>1, <1>3, AbsentConsume
  <2>2. comp[c] \in Components
    BY <1>0, ComponentsOf
  <2>3. ~comp'[c].update_complete /\ ~comp'[c].ready_to_send
    BY <1>1, <2>1, <2>2, Processed DEF Untold, Early, Calm
  <2>4. Newborn'
    <3> SUFFICES ASSUME Third \in Uids, nextUid <= Third \/ Opening(Third)
                 PROVE  /\ inbox'[Third] = <<>> /\ comp'[Third].is_lobby
                        /\ comp'[Third].user_ID = -1 /\ scene'[Third].assigned_team = 0
      BY <2>1 DEF Newborn, Opening, Opens
    <3>1. /\ inbox[Third] = <<>> /\ comp[Third].is_lobby
          /\ comp[Third].user_ID = -1 /\ scene[Third].assigned_team = 0
      BY <1>1 DEF Newborn
    <3> QED
      BY <2>1, <3>1
  <2> QED
    BY <2>1, <2>3, <2>4 DEF Early, Calm, Untold
<1> QED
  BY <1>2, <1>3 DEF ConsumerThread

LEMMA EarlyOpen ==
    ASSUME SessionInv, Early, NEW c, Launch \/ (c \in live /\ Detect(c)) \/ (c \in Uids /\ Leave(c))
    PROVE  Early'
<1>0. Typed
  BY DEF SessionInv
<1>1. Absent(Untold) /\ Newborn /\ Calm
  BY DEF Early, Untold
<1>2. Absent(Untold)'
  BY <1>0, <1>1, AbsentOpen
<1>3. \A u \in Uids : /\ inbox'[u] \in {inbox[u], <<>>}
                      /\ comp'[u] \in {comp[u], FreshComponent}
                      /\ scene'[u] \in {scene[u], FreshScene}
                      /\ main'[u] \in {main[u], "top"}
  BY <1>0, Emptied
<1>4. /\ FreshComponent.is_lobby /\ FreshComponent.user_ID = -1
      /\ ~FreshComponent.ready_to_send /\ ~FreshComponent.update_complete
      /\ FreshScene.assigned_team = 0
  BY DEF FreshComponent, FreshScene
<1>5. nextUid' <= Third \/ Opening(Third)' => nextUid <= Third \/ Opening(Third)
  <2>1. CASE Launch
    <3>1. /\ nextUid' = nextUid + 1
          /\ events' = Append(events, Event("connect", nextUid, NoMsg))
      BY <2>1 DEF Launch, Connect
    <3>2. nextUid \in Nat
      BY <1>0, SessionAssumption DEF Typed, TransportTyped
    <3> DEFINE e == Event("connect", nextUid, NoMsg)
               n == Len(events) + 1
    <3>3. e.client = nextUid
      BY DEF Event
    <3> HIDE DEF e
    <3>4. /\ events'[n] = e
          /\ \A i \in 1 .. Len(events) : events'[i] = events[i]
          /\ \A i : Opens(i)' => Opens(i) \/ i = n
      BY <1>0, <3>1, EventsMore DEF e
    <3> HIDE DEF n
    <3>5. ASSUME Opening(Third)', ~Opening(Third) PROVE nextUid <= Third
      <4>1. PICK i : Opens(i)' /\ events'[i].client = Third
        BY <3>5 DEF Opening
      <4>2. i = n
        BY <3>4, <3>5, <4>1 DEF Opening, Opens
      <4> QED
        BY <3>2, <3>3, <3>4, <4>1, <4>2
    <3> QED
      BY <3>1, <3>2, <3>5 DEF Third
  <2>2. CASE c \in live /\ Detect(c)
    <3>1. /\ nextUid' = nextUid
          /\ events' = Append(events, Event("disconnect", c, NoMsg))
      BY <2>2 DEF Detect, Disconnect
    <3> DEFINE e == Event("disconnect", c, NoMsg)
    <3>2. e.type = "disconnect"
      BY DEF Event
    <3> HIDE DEF e
    <3>3. /\ \A i \in 1 .. Len(events) : events'[i] = events[i]
          /\ \A i : Opens(i)' => Opens(i)
      BY <1>0, <3>1, <3>2, EventsMore DEF e
    <3> QED
      BY <3>1, <3>3 DEF Opening, Opens
  <2>3. CASE c \in Uids /\ Leave(c)
    <3>1. UNCHANGED <<nextUid, events>>
      BY <2>3 DEF Leave, Break
    <3> QED
      BY <3>1 DEF Opening, Opens
  <2> QED
    BY <2>1, <2>2, <2>3
<1>6. Newborn'
  BY <1>1, <1>3, <1>4, <1>5 DEF Newborn
<1> QED
  BY <1>2, <1>3, <1>4, <1>6 DEF Early, Calm, Untold

LEMMA EarlyServed ==
    ASSUME SessionInv, Census, Early, events # <<>>, events' = Tail(events),
           NEW sends \in Seq(Sends(ToClients)), Post(sends),
           UNCHANGED <<nextUid, outbox, comp, scene, main>>,
           \A i \in 1 .. Len(sends) :
              /\ sends[i].msg \notin Untold
              /\ \/ InSeq(sends[i].to, connected)
                 \/ Head(events).type = "connect" /\ sends[i].to = Head(events).client
    PROVE  Early'
<1>0. Typed
  BY DEF SessionInv
<1>1. Absent(Untold) /\ Newborn /\ Calm
  BY DEF Early, Untold
<1>2. Absent(Untold)'
  BY <1>0, <1>1, AbsentPosted
<1>3. /\ Len(events) \in Nat \ {0} /\ Head(events) = events[1] /\ 1 \in 1 .. Len(events)
      /\ \A i : Opens(i)' => i \in Nat /\ i > 0 /\ Opens(i + 1) /\ events'[i] = events[i + 1]
  BY <1>0, EventsLess
<1>4. Newborn'
  <2> SUFFICES ASSUME Third \in Uids, nextUid <= Third \/ Opening(Third)'
               PROVE  /\ inbox'[Third] = <<>> /\ comp[Third].is_lobby
                      /\ comp[Third].user_ID = -1 /\ scene[Third].assigned_team = 0
    BY DEF Newborn
  <2>1. ASSUME Opening(Third)'
        PROVE  \E i : /\ Opens(i) /\ i \in Nat /\ 1 < i /\ events[i].client = Third
    <3>1. PICK i : Opens(i)' /\ events'[i].client = Third
      BY <2>1 DEF Opening
    <3>2. i \in Nat /\ i > 0 /\ Opens(i + 1) /\ events[i + 1].client = Third
      BY <1>3, <3>1
    <3>3. i + 1 \in Nat /\ 1 < i + 1
      BY <3>2
    <3> QED
      BY <3>2, <3>3
  <2>2. nextUid <= Third \/ Opening(Third)
    BY <2>1 DEF Opening
  <2>3. /\ inbox[Third] = <<>> /\ comp[Third].is_lobby
        /\ comp[Third].user_ID = -1 /\ scene[Third].assigned_team = 0
    BY <1>1, <2>2 DEF Newborn
  <2>4. nextUid \in Nat /\ Third \in Nat /\ ~(Third < Third)
    BY <1>0, SessionAssumption DEF Typed, TransportTyped, Third
  <2>5. ~InSeq(Third, connected)
    <3>1. CASE nextUid <= Third
      <4>1. InSeq(Third, connected) => Third < nextUid
        BY DEF SessionInv, KnownIds
      <4> QED
        BY <2>4, <3>1, <4>1
    <3>2. CASE Opening(Third)
      BY <2>4, <3>2 DEF Opening, Census, InOrder
    <3> QED
      BY <2>2, <3>1, <3>2
  <2>6. Head(events).type = "connect" => Head(events).client # Third
    <3> SUFFICES ASSUME Head(events).type = "connect", Head(events).client = Third PROVE FALSE
      OBVIOUS
    <3>1. Opens(1)
      BY <1>3 DEF Opens
    <3>2. CASE nextUid <= Third
      <4>1. Third < nextUid
        BY <1>3 DEF SessionInv, KnownIds
      <4> QED
        BY <2>4, <3>2, <4>1
    <3>3. CASE Opening(Third)'
      <4>1. PICK i : Opens(i) /\ i \in Nat /\ 1 < i /\ events[i].client = Third
        BY <2>1, <3>3
      <4>2. events[1].client < events[i].client
        BY <3>1, <4>1 DEF Census, InOrder
      <4> QED
        BY <1>3, <2>4, <4>1, <4>2
    <3> QED
      BY <3>2, <3>3
  <2>7. MsgsTo(Third, sends) = <<>>
    <3>1. \A i \in 1 .. Len(sends) : sends[i].to # Third
      BY <2>5, <2>6
    <3> QED
      BY <3>1, NothingSent
  <2>8. inbox'[Third] = <<>>
    <3>1. inbox'[Third] = IF Third \in live THEN inbox[Third] \o MsgsTo(Third, sends)
                                           ELSE inbox[Third]
      BY DEF Post
    <3>2. <<>> \o <<>> = <<>>
      OBVIOUS
    <3> QED
      BY <2>3, <2>7, <3>1, <3>2
  <2> QED
    BY <2>3, <2>8
<1> QED
  BY <1>2, <1>4 DEF Early, Calm, Untold

(* What may be sent before: none of the packets above, and to nobody that the *)
(* server has not met.                                                        *)
Harmless ==
    {x \in Sends(ToClients) :
        /\ x.msg \notin Untold
        /\ \/ InSeq(x.to, connected)
           \/ Head(events).type = "connect" /\ x.to = Head(events).client}

LEMMA HarmlessTo ==
    ASSUME NEW u \in Uids, NEW p \in ToClients, p \notin Untold,
           InSeq(u, connected) \/ (Head(events).type = "connect" /\ u = Head(events).client)
    PROVE  To(u, p) \in Seq(Harmless)
<1>1. [to |-> u, msg |-> p] \in Harmless
  BY DEF Harmless, Sends
<1> QED
  BY <1>1 DEF To

LEMMA HarmlessServed ==
    ASSUME SessionInv, Census, Early, events # <<>>, events' = Tail(events),
           NEW sends \in Seq(Harmless), Post(sends),
           UNCHANGED <<nextUid, outbox, comp, scene, main>>
    PROVE  Early'
<1>1. \A i \in 1 .. Len(sends) : sends[i] \in Harmless
  OBVIOUS
<1>2. sends \in Seq(Sends(ToClients))
  <2>1. \A x \in Harmless : x \in Sends(ToClients)
    BY DEF Harmless
  <2> QED
    BY <2>1
<1>3. \A i \in 1 .. Len(sends) :
         /\ sends[i].msg \notin Untold
         /\ \/ InSeq(sends[i].to, connected)
            \/ Head(events).type = "connect" /\ sends[i].to = Head(events).client
  BY <1>1 DEF Harmless
<1> QED
  BY <1>2, <1>3, EarlyServed

LEMMA EarlyForward ==
    ASSUME SessionInv, Census, Early, ForwardData
    PROVE  Early'
<1> DEFINE c == Head(events).client
           p == Head(events).msg
           sends == ToOthers(c, connected, p)
<1>1. /\ events # <<>> /\ events' = Tail(events) /\ Post(sends)
      /\ NextEventIs("receive") /\ Head(events).type = "receive" /\ p.type \in Forwarded
      /\ UNCHANGED <<nextUid, outbox, comp, scene, main>>
  BY DEF ForwardData, DispatchReceive, NextEventIs, clientVars
<1>2. p \in Forwardable /\ p \in ToClients /\ connected \in Seq(Uids) /\ Typed /\ TransportTyped
  BY <1>1, ForwardSends, PacketKinds DEF SessionInv, Typed, TransportTyped
<1>3. p \notin Untold
  <2>1. Unheard(Untold)
    BY DEF Early, Absent, Untold
  <2> QED
    BY <1>1, <1>2, <2>1, HeadUnheard
<1> HIDE DEF c, p
<1>4. sends \in Seq(Sends(ToClients))
  BY <1>2, ToOthersType
<1>5. \A i \in 1 .. Len(sends) : sends[i].msg = p /\ InSeq(sends[i].to, connected)
  BY <1>2, SentToOthers
<1> HIDE DEF sends
<1>6. \A i \in 1 .. Len(sends) : sends[i].msg \notin Untold
  BY <1>3, <1>5
<1> QED
  BY <1>1, <1>4, <1>5, <1>6, EarlyServed

(* Nobody asks to be resumed. *)
LEMMA NotResumed ==
    ASSUME SessionInv, NEW X, Absent(X), Packet("resume", 0) \in X
    PROVE  ~ResumeBoth /\ ~ResumePastEnd
<1> SUFFICES ASSUME ResumeBoth \/ ResumePastEnd PROVE FALSE
  OBVIOUS
<1>1. /\ events # <<>> /\ Head(events).type = "receive" /\ Head(events).msg.type = "resume"
  BY DEF ResumeBoth, ResumePastEnd, NextEventIs
<1>2. TransportTyped
  BY DEF SessionInv, Typed
<1>3. Head(events).msg \in FromClients
  BY <1>1, <1>2, HeadTyped
<1>4. Head(events).msg = Packet("resume", 0)
  BY <1>1, <1>3, Packed
<1>5. Head(events).msg \notin X
  BY <1>1, <1>2, HeadUnheard DEF Absent
<1> QED
  BY <1>4, <1>5

LEMMA EarlyDeparture ==
    ASSUME SessionInv, Census, Early, OnClientDisconnect
    PROVE  Early'
<1> DEFINE c == Head(events).client
           clients == DropClient(c)
<1>1. PICK sends :
         /\ events # <<>> /\ events' = Tail(events) /\ Post(sends)
         /\ UNCHANGED <<nextUid, outbox, comp, scene, main>>
         /\ \/ sends = <<>>
            \/ clients # <<>> /\ sends = To(clients[1], Packet("data_sender", 0))
  <2>1. /\ events # <<>> /\ UNCHANGED <<nextUid, outbox, comp, scene, main>>
        /\ gameActive' = (gameActive /\ clients # <<>>)
        /\ DispatchDisconnect(IF gameActive' THEN To(clients[1], Packet("data_sender", 0))
                                             ELSE <<>>)
    BY DEF OnClientDisconnect, NextEventIs, clientVars, DispatchDisconnect
  <2>2. CASE gameActive'
    <3>1. DispatchDisconnect(To(clients[1], Packet("data_sender", 0)))
      BY <2>1, <2>2
    <3> QED
      BY <2>1, <2>2, <3>1 DEF DispatchDisconnect
  <2>3. CASE ~gameActive'
    <3>1. DispatchDisconnect(<<>>)
      BY <2>1, <2>3
    <3> QED
      BY <2>1, <3>1 DEF DispatchDisconnect
  <2> QED
    BY <2>2, <2>3
<1>2. sends \in Seq(Harmless)
  <2>1. CASE sends = <<>>
    BY <2>1
  <2>2. CASE clients # <<>> /\ sends = To(clients[1], Packet("data_sender", 0))
    <3>1. connected \in Seq(Uids)
      BY DEF SessionInv, Typed, TransportTyped
    <3>2. clients \in Seq(Uids) /\ \A d : InSeq(d, clients) => InSeq(d, connected)
      BY <3>1, RemoveFirstType DEF DropClient
    <3> HIDE DEF clients
    <3>3. clients[1] \in Uids /\ 1 \in DOMAIN clients
      BY <2>2, <3>2
    <3>4. InSeq(clients[1], connected)
      <4>1. InSeq(clients[1], clients)
        BY <3>3 DEF InSeq
      <4> QED
        BY <3>2, <4>1
    <3>5. Packet("data_sender", 0) \in ToClients
      BY PacketKinds
    <3>6. Packet("data_sender", 0) \notin Untold
      BY DEF Untold, Done, Ready, Resumption, Packet
    <3> QED
      BY <2>2, <3>3, <3>4, <3>5, <3>6, HarmlessTo
  <2> QED
    BY <1>1, <2>1, <2>2
<1> QED
  BY <1>1, <1>2, HarmlessServed

LEMMA EarlyArrival ==
    ASSUME SessionInv, Census, Early, OnClientConnect, ~gameActive
    PROVE  Early'
<1> DEFINE c == Head(events).client
           clients == AddClient(c)
           init == To(c, Packet("init", AssignClientLocalID(c, clients)))
           starts == To(clients[1], Packet("start", 0)) \o To(clients[2], Packet("start", 0))
<1>1. /\ events # <<>> /\ Head(events).type = "connect" /\ events' = Tail(events)
      /\ UNCHANGED <<nextUid, outbox, comp, scene, main>>
      /\ \/ Post(init \o <<>>)
         \/ Len(clients) >= 2 /\ Post(init \o starts)
  <2>1. /\ NextEventIs("connect") /\ UNCHANGED clientVars
        /\ gameActive' = (Len(clients) >= 2)
        /\ DispatchConnect(init \o IF gameActive' THEN starts ELSE <<>>)
    BY DEF OnClientConnect
  <2> HIDE DEF init, starts
  <2>2. CASE gameActive'
    <3>1. Len(clients) >= 2
      BY <2>1, <2>2
    <3>2. DispatchConnect(init \o starts)
      BY <2>1, <2>2
    <3> QED
      BY <2>1, <3>1, <3>2 DEF DispatchConnect, NextEventIs, clientVars
  <2>3. CASE ~gameActive'
    <3>1. DispatchConnect(init \o <<>>)
      BY <2>1, <2>3
    <3> QED
      BY <2>1, <3>1 DEF DispatchConnect, NextEventIs, clientVars
  <2> QED
    BY <2>2, <2>3
<1>2. c \in Uids /\ connected \in Seq(Uids)
  BY <1>1, HeadTyped DEF SessionInv, Typed, TransportTyped
<1>3. \A u \in Uids : InSeq(u, connected) \/ u = c =>
         \A p \in ToClients : p \notin Untold => To(u, p) \in Seq(Harmless)
  BY <1>1, HarmlessTo
<1>4. \A i \in 1 .. Len(clients) :
         clients[i] \in Uids /\ (InSeq(clients[i], connected) \/ clients[i] = c)
  <2>1. /\ clients \in Seq(Uids) /\ Len(clients) = Len(connected) + 1 /\ Len(connected) \in Nat
        /\ \A i \in 1 .. Len(connected) : clients[i] = connected[i]
        /\ clients[Len(connected) + 1] = c
    BY <1>2 DEF AddClient
  <2> HIDE DEF clients
  <2> SUFFICES ASSUME NEW i \in 1 .. Len(clients)
               PROVE  clients[i] \in Uids /\ (InSeq(clients[i], connected) \/ clients[i] = c)
    OBVIOUS
  <2>2. CASE i \in 1 .. Len(connected)
    <3>1. i \in DOMAIN connected
      BY <1>2, <2>2
    <3> QED
      BY <2>1, <2>2, <3>1 DEF InSeq
  <2>3. CASE i = Len(connected) + 1
    BY <1>2, <2>1, <2>3
  <2> QED
    BY <2>1, <2>2, <2>3
<1>5. init \in Seq(Harmless)
  <2>1. AssignClientLocalID(c, clients) \in {0, 1}
    BY DEF AssignClientLocalID
  <2>2. \A n \in {0, 1} : Packet("init", n) \in ToClients /\ Packet("init", n) \notin Untold
    BY PacketKinds DEF Untold, Done, Ready, Resumption, Packet
  <2> HIDE DEF c, clients
  <2> QED
    BY <1>2, <1>3, <2>1, <2>2
<1>6. ASSUME Len(clients) >= 2 PROVE starts \in Seq(Harmless)
  <2>1. Packet("start", 0) \in ToClients /\ Packet("start", 0) \notin Untold
    BY PacketKinds DEF Untold, Done, Ready, Resumption, Packet
  <2>2. 1 \in 1 .. Len(clients) /\ 2 \in 1 .. Len(clients)
    <3>1. clients \in Seq(Uids)
      BY <1>2 DEF AddClient
    <3> HIDE DEF clients
    <3> QED
      BY <1>6, <3>1
  <2> HIDE DEF c, clients
  <2>3. /\ To(clients[1], Packet("start", 0)) \in Seq(Harmless)
        /\ To(clients[2], Packet("start", 0)) \in Seq(Harmless)
    BY <1>3, <1>4, <2>1, <2>2
  <2>4. \A a, b \in Seq(Harmless) : a \o b \in Seq(Harmless)
    BY ConcatProperties
  <2> QED
    BY <2>3, <2>4
<1> HIDE DEF init, starts
<1>7. init \o <<>> \in Seq(Harmless)
  BY <1>5
<1>8. Len(clients) >= 2 => init \o starts \in Seq(Harmless)
  <2>1. \A a, b \in Seq(Harmless) : a \o b \in Seq(Harmless)
    BY ConcatProperties
  <2> QED
    BY <1>5, <1>6, <2>1
<1> QED
  BY <1>1, <1>7, <1>8, HarmlessServed

--------------------------------------------------------------------------------
(* The third client is met.                                                   *)

LEMMA AbsentLess ==
    ASSUME NEW X, NEW Y, Absent(Y), X \subseteq Y
    PROVE  Absent(X)
  BY DEF Absent, Unheard, Lacks

LEMMA LacksOne ==
    ASSUME NEW M, NEW p \in M, NEW X, p \notin X
    PROVE  Lacks(<<p>>, X)
<1> DEFINE q == <<p>>
<1>1. Len(q) = 1 /\ q[1] = p
  OBVIOUS
<1> HIDE DEF q
<1>2. Lacks(q, X)
  BY <1>1 DEF Lacks
<1> QED
  BY <1>2 DEF q

LEMMA OnceNew ==
    ASSUME NEW M, NEW q \in Seq(M), NEW new \in Seq(M)
    PROVE  /\ Once(q) /\ Lacks(new, {Ready}) => Once(q \o new)
           /\ Lacks(q, {Ready}) => Once(q) /\ Once(Append(q, Ready))
           /\ Once(q) /\ q # <<>> => /\ Once(Tail(q))
                                     /\ Head(q) = Ready => Lacks(Tail(q), {Ready})
<1>1. ASSUME Once(q), Lacks(new, {Ready}) PROVE Once(q \o new)
  <2> DEFINE r == q \o new
  <2>1. /\ Len(r) = Len(q) + Len(new) /\ Len(q) \in Nat /\ Len(new) \in Nat
        /\ \A i \in 1 .. Len(q) + Len(new) : r[i] = IF i <= Len(q) THEN q[i] ELSE new[i - Len(q)]
    BY ConcatProperties
  <2> HIDE DEF r
  <2>2. ASSUME NEW i \in 1 .. Len(r), r[i] = Ready PROVE i \in 1 .. Len(q) /\ q[i] = Ready
    <3>1. CASE i <= Len(q)
      BY <2>1, <2>2, <3>1
    <3>2. CASE ~(i <= Len(q))
      <4>1. i - Len(q) \in 1 .. Len(new) /\ new[i - Len(q)] = Ready
        BY <2>1, <2>2, <3>2
      <4> QED
        BY <1>1, <4>1 DEF Lacks
    <3> QED
      BY <3>1, <3>2
  <2>3. Once(r)
    BY <1>1, <2>2 DEF Once
  <2> QED
    BY <2>3 DEF r
<1>2. ASSUME Lacks(q, {Ready}) PROVE Once(q) /\ Once(Append(q, Ready))
  <2>1. \A i \in 1 .. Len(q) : q[i] # Ready
    BY <1>2 DEF Lacks
  <2>2. /\ Len(q) \in Nat /\ Len(Append(q, Ready)) = Len(q) + 1
        /\ \A i \in 1 .. Len(q) : Append(q, Ready)[i] = q[i]
    OBVIOUS
  <2>3. \A i \in 1 .. Len(q) + 1 : i \in 1 .. Len(q) \/ i = Len(q) + 1
    BY <2>2
  <2> QED
    BY <2>1, <2>2, <2>3 DEF Once
<1>3. ASSUME Once(q), q # <<>>
      PROVE  Once(Tail(q)) /\ (Head(q) = Ready => Lacks(Tail(q), {Ready}))
  <2>1. /\ Len(q) \in Nat \ {0} /\ Head(q) = q[1] /\ 1 \in 1 .. Len(q)
        /\ Len(Tail(q)) = Len(q) - 1
        /\ \A i \in 1 .. Len(q) - 1 : Tail(q)[i] = q[i + 1]
    BY <1>3
  <2>2. \A i \in 1 .. Len(q) - 1 : i \in Nat /\ i + 1 \in 1 .. Len(q) /\ i + 1 # 1
    BY <2>1
  <2>3. ASSUME NEW i \in 1 .. Len(q) - 1, NEW j \in 1 .. Len(q) - 1,
               q[i + 1] = Ready, q[j + 1] = Ready
        PROVE  i = j
    <3>1. i + 1 = j + 1
      BY <1>3, <2>2, <2>3 DEF Once
    <3> QED
      BY <2>2, <3>1
  <2>4. ASSUME Head(q) = Ready, NEW i \in 1 .. Len(q) - 1, q[i + 1] = Ready PROVE FALSE
    BY <1>3, <2>1, <2>2, <2>4 DEF Once
  <2> QED
    BY <2>1, <2>3, <2>4 DEF Once, Lacks
<1> QED
  BY <1>1, <1>2, <1>3

(* The clients that are there when it is. *)
LEMMA ThirdMet ==
    ASSUME SessionInv, Census, leaves <= 1, gameActive, NextEventIs("connect")
    PROVE  /\ Head(events).client = Third /\ Opening(Third) /\ Third \in Uids
           /\ nextUid = 3 /\ leaves = 1 /\ breaking = {}
           /\ events' = Tail(events) => \A i : ~Opens(i)' /\ ~Closes(i)'
           /\ \E s \in {0, 1} : live = {s, Third} /\ connected = <<s>>
<1> DEFINE c == Head(events).client
<1>1. events # <<>> /\ Head(events).type = "connect" /\ Typed
  BY DEF NextEventIs, SessionInv
<1>2. Len(events) \in Nat \ {0} /\ Head(events) = events[1] /\ 1 \in 1 .. Len(events)
  BY <1>1 DEF Typed, TransportTyped
<1>3. Opens(1) /\ events[1].client = c
  BY <1>1, <1>2 DEF Opens
<1>4. c >= 2 /\ c < nextUid /\ c \in Nat /\ nextUid \in Nat
  <2>1. events[1] \in ClientEvents
    BY <1>1, <1>2 DEF Typed, TransportTyped
  <2>2. c \in Nat /\ nextUid \in Nat
    BY <1>1, <1>2, <2>1, SessionAssumption DEF ClientEvents, Uids, Typed, TransportTyped
  <2>3. c < nextUid
    BY <1>2 DEF SessionInv, KnownIds
  <2>4. c >= 2
    BY <1>3 DEF Census, Played
  <2> QED
    BY <2>2, <2>3, <2>4
<1> HIDE DEF c
<1>5. leaves = 1
  BY <1>4 DEF Census, Peopled
<1>6. PICK g \in {0, 1} :
         /\ g < nextUid
         /\ \/ breaking = {g} /\ live = 0 .. nextUid - 1 /\ nextUid <= 2
            \/ breaking = {} /\ live = (0 .. nextUid - 1) \ {g} /\ nextUid <= 3
  BY <1>5 DEF Census, Peopled
<1>7. nextUid = 3 /\ c = 2 /\ breaking = {} /\ live = (0 .. 2) \ {g}
  BY <1>4, <1>6
<1> DEFINE s == 1 - g
<1>8. s \in {0, 1} /\ live = {s, Third}
  <2>1. g = 0 \/ g = 1
    OBVIOUS
  <2>2. \A x : x \in 0 .. 2 <=> x = 0 \/ x = 1 \/ x = 2
    OBVIOUS
  <2> QED
    BY <1>7, <2>1, <2>2 DEF Third
<1> HIDE DEF s
<1>9. \A j : ~Closes(j)
  <2> SUFFICES ASSUME NEW j, Closes(j) PROVE FALSE
    OBVIOUS
  <2>1. j < 1
    BY <1>3, <1>7 DEF Census, Departed, Third
  <2>2. j \in Nat /\ j >= 1
    BY <1>2 DEF Closes
  <2> QED
    BY <2>1, <2>2
<1>10. \A d : InSeq(d, connected) => d = s
  <2> SUFFICES ASSUME NEW d, InSeq(d, connected) PROVE d = s
    OBVIOUS
  <2>1. d \in live
    BY <1>9 DEF Census, Departed, Closing
  <2>2. d < 2
    BY <1>3, <1>7 DEF Census, InOrder
  <2> QED
    BY <1>8, <2>1, <2>2 DEF Third
<1>11. connected = <<s>>
  <2>1. connected \in Seq(Uids) /\ connected # <<>>
    BY <1>1 DEF Typed, TransportTyped, SessionInv, GameNeedsClients
  <2>2. \A i \in 1 .. Len(connected) : connected[i] = s
    <3> TAKE i \in 1 .. Len(connected)
    <3>1. i \in DOMAIN connected
      BY <2>1
    <3> QED
      BY <1>10, <3>1 DEF InSeq
  <2>3. Len(connected) = 1
    <3>1. Len(connected) \in Nat \ {0}
      BY <2>1
    <3>2. ASSUME Len(connected) >= 2 PROVE FALSE
      <4>1. 1 \in 1 .. Len(connected) /\ 2 \in 1 .. Len(connected)
        BY <3>1, <3>2
      <4>2. connected[1] < connected[2]
        BY <4>1 DEF Census, InOrder, Rising
      <4>3. s < s /\ s \in Nat
        BY <1>8, <2>2, <4>1, <4>2
      <4> QED
        BY <4>3
    <3>3. \A n \in Nat \ {0} : ~(n >= 2) => n = 1
      OBVIOUS
    <3> QED
      BY <3>1, <3>2, <3>3
  <2> QED
    BY <2>1, <2>2, <2>3
<1>12. ASSUME events' = Tail(events), NEW i PROVE ~Opens(i)' /\ ~Closes(i)'
  <2>1. /\ Opens(i)' => i \in Nat /\ i > 0 /\ Opens(i + 1)
        /\ Closes(i)' => Closes(i + 1)
    BY <1>1, <1>12, EventsLess
  <2>2. ASSUME Opens(i)' PROVE FALSE
    <3>1. i \in Nat /\ i > 0 /\ Opens(i + 1)
      BY <2>1, <2>2
    <3>2. 1 < i + 1
      BY <3>1
    <3>3. events[1].client < events[i + 1].client
      BY <1>3, <3>1, <3>2 DEF Census, InOrder
    <3>4. events[i + 1].client < nextUid /\ events[i + 1] \in ClientEvents
      BY <1>1, <3>1 DEF Opens, SessionInv, KnownIds, Typed, TransportTyped
    <3>5. events[i + 1].client \in Nat
      BY <3>4, SessionAssumption DEF ClientEvents, Uids
    <3> QED
      BY <1>3, <1>7, <3>3, <3>4, <3>5
  <2> QED
    BY <1>9, <2>1, <2>2
<1>13. Third \in Uids /\ Opening(Third) /\ Head(events).client = Third
  <2>1. Third \in live
    BY <1>8
  <2>2. c = Third
    BY <1>7 DEF Third
  <2> QED
    BY <1>1, <1>2, <1>3, <2>1, <2>2, LiveIsUid DEF Typed, Opening, c
<1> QED
  BY <1>5, <1>7, <1>8, <1>11, <1>12, <1>13

LEMMA ThirdArrives ==
    ASSUME SessionInv, Census, Early, leaves <= 1, OnClientConnect, gameActive
    PROVE  \E s \in {0, 1} : (Joined(s) /\ Waiting(s))'
<1> DEFINE clients == AddClient(Third)
           hello == Packet("reconnect", TRUE)
           greets == To(Third, hello)
           readies == ToOthers(Third, clients, Ready)
           sends == greets \o readies
           X == {Done} \cup Resumption
           M == {hello, Ready}
<1>1. NextEventIs("connect") /\ Typed /\ TransportTyped
  BY DEF OnClientConnect, SessionInv, Typed
<1>2. /\ Head(events).client = Third /\ Opening(Third) /\ Third \in Uids
      /\ nextUid = 3 /\ leaves = 1 /\ breaking = {}
      /\ events' = Tail(events) => \A i : ~Opens(i)' /\ ~Closes(i)'
      /\ \E s \in {0, 1} : live = {s, Third} /\ connected = <<s>>
  BY <1>1, ThirdMet
<1>3. /\ events # <<>> /\ events' = Tail(events) /\ connected' = clients /\ Post(sends)
      /\ UNCHANGED <<nextUid, live, breaking, leaves, outbox, comp, scene, main>>
  <2> DEFINE c == Head(events).client
             all == To(c, hello) \o ToOthers(c, AddClient(c), Ready)
  <2>1. DispatchConnect(all) /\ UNCHANGED <<clientVars, bounds>>
    BY DEF OnClientConnect, Ready
  <2>2. all = sends /\ AddClient(c) = clients
    BY <1>2
  <2> HIDE DEF all, sends, clients
  <2>3. DispatchConnect(sends) /\ AddClient(Head(events).client) = clients
    BY <2>1, <2>2
  <2> QED
    BY <2>1, <2>3 DEF DispatchConnect, NextEventIs, clientVars, bounds
<1>4. PICK s \in {0, 1} : live = {s, Third} /\ connected = <<s>>
  BY <1>2
<1>5. s \in Uids /\ s # Third /\ clients = <<s, Third>> /\ clients \in Seq(Uids)
  <2>1. s \in Uids /\ s # Third
    <3>1. s \in Uids
      BY <1>1, <1>4, LiveIsUid
    <3> QED
      BY <3>1 DEF Third
  <2>2. clients = Append(<<s>>, Third)
    BY <1>4 DEF AddClient
  <2>3. Append(<<s>>, Third) = <<s, Third>>
    <3> DEFINE q == Append(<<s>>, Third)
               r == <<s, Third>>
    <3>1. /\ q \in Seq(Uids) /\ r \in Seq(Uids)
          /\ Len(q) = 2 /\ Len(r) = 2 /\ q[1] = r[1] /\ q[2] = r[2]
      BY <1>2, <2>1
    <3>2. \A i \in 1 .. 2 : i = 1 \/ i = 2
      OBVIOUS
    <3> HIDE DEF q, r
    <3>3. \A i \in 1 .. Len(q) : q[i] = r[i]
      BY <3>1, <3>2
    <3>4. q = r
      BY <3>1, <3>3, SeqEqual
    <3> QED
      BY <3>4 DEF q, r
  <2>4. <<s, Third>> \in Seq(Uids)
    BY <1>2, <2>1
  <2> QED
    BY <2>1, <2>2, <2>3, <2>4
<1>6. /\ hello \in ToClients /\ Ready \in ToClients /\ hello \notin X /\ Ready \notin X
      /\ hello # Ready /\ hello \notin Greetings
  BY PacketKinds DEF Ready, Done, Resumption, Greetings, Packet
<1>7. /\ greets \in Seq(Sends(M)) /\ readies \in Seq(Sends(M))
      /\ \A u : MsgsTo(u, greets) = IF u = Third THEN <<hello>> ELSE <<>>
      /\ \A u : MsgsTo(u, readies) = IF u = s THEN <<Ready>> ELSE <<>>
  <2> HIDE DEF hello
  <2>1. greets \in Seq(Sends(M))
    <3>1. [to |-> Third, msg |-> hello] \in Sends(M)
      BY <1>2 DEF Sends
    <3> QED
      BY <3>1 DEF To
  <2>2. Ready \in M /\ hello \in M
    OBVIOUS
  <2> HIDE DEF M
  <2>3. readies \in Seq(Sends(M))
    <3> HIDE DEF clients
    <3> QED
      BY <1>5, <2>2, ToOthersType
  <2>4. \A u : MsgsTo(u, greets) = IF u = Third THEN <<hello>> ELSE <<>>
    BY <2>2, MsgsToOne
  <2>5. ASSUME NEW u PROVE MsgsTo(u, readies) = IF u = s THEN <<Ready>> ELSE <<>>
    <3>1. MsgsTo(u, ToOthers(Third, <<s, Third>>, Ready))
             = IF u # Third /\ u \in {s, Third} THEN <<Ready>> ELSE <<>>
      BY <1>2, <1>5, <2>2, TwoOthers
    <3> HIDE DEF clients
    <3> QED
      BY <1>5, <3>1
  <2> QED
    BY <2>1, <2>3, <2>4, <2>5
<1> HIDE DEF greets, readies, M
<1>8. \A u : MsgsTo(u, sends) = (IF u = Third THEN <<hello>> ELSE <<>>)
                                \o (IF u = s THEN <<Ready>> ELSE <<>>)
  <2> TAKE u
  <2>1. MsgsTo(u, greets \o readies) = MsgsTo(u, greets) \o MsgsTo(u, readies)
    BY <1>7, MsgsToConcat
  <2> QED
    BY <1>7, <2>1
<1>9. /\ sends \in Seq(Sends(ToClients))
      /\ \A i \in 1 .. Len(sends) : sends[i].msg \notin X
  <2>1. sends \in Seq(Sends(M))
    BY <1>7, ConcatProperties
  <2> HIDE DEF sends
  <2>2. \A i \in 1 .. Len(sends) : sends[i] \in Sends(M)
    BY <2>1
  <2>3. \A x \in Sends(M) : x \in Sends(ToClients) /\ x.msg \in M
    <3>1. \A p \in M : p \in ToClients
      BY <1>6 DEF M
    <3> QED
      BY <3>1 DEF Sends
  <2>a. \A p \in M : p \notin X
    BY <1>6 DEF M
  <2>4. sends \in Seq(Sends(ToClients))
    BY <2>1, <2>3
  <2>5. \A i \in 1 .. Len(sends) : sends[i].msg \in M
    BY <2>2, <2>3
  <2> QED
    BY <2>a, <2>4, <2>5
<1> HIDE DEF sends
<1>10. Absent(X)'
  <2>1. Absent(X)
    BY AbsentLess DEF Early
  <2> HIDE DEF X
  <2> QED
    BY <1>1, <1>3, <1>9, <2>1, AbsentPosted
<1>11. ASSUME NEW u \in Uids
       PROVE  /\ inbox'[u] = IF u = Third THEN <<hello>>
                             ELSE IF u = s THEN Append(inbox[s], Ready) ELSE inbox[u]
              /\ inbox[u] \in Seq(ToClients) /\ Lacks(inbox[u], {Ready})
  <2>1. /\ inbox[u] \in Seq(ToClients)
        /\ inbox'[u] = IF u \in live THEN inbox[u] \o MsgsTo(u, sends) ELSE inbox[u]
    BY <1>1, <1>3, <1>9, PostedAll
  <2>2. Lacks(inbox[u], {Ready})
    BY DEF Early, Absent, Lacks
  <2>3. CASE u = Third
    <3>1. inbox[Third] = <<>>
      BY <1>2 DEF Early, Newborn
    <3>2. MsgsTo(u, sends) = <<hello>> \o <<>>
      BY <1>5, <1>8, <2>3
    <3>3. <<>> \o (<<hello>> \o <<>>) = <<hello>>
      OBVIOUS
    <3> QED
      BY <1>4, <2>1, <2>2, <2>3, <3>1, <3>2, <3>3
  <2>4. CASE u = s
    <3>1. MsgsTo(u, sends) = <<>> \o <<Ready>>
      BY <1>5, <1>8, <2>4
    <3>2. \A q \in Seq(ToClients) : q \o (<<>> \o <<Ready>>) = Append(q, Ready)
      BY <1>6
    <3> QED
      BY <1>4, <1>5, <2>1, <2>2, <2>4, <3>1, <3>2
  <2>5. CASE u # s /\ u # Third
    BY <1>4, <2>1, <2>2, <2>5
  <2> QED
    BY <2>3, <2>4, <2>5
<1>12. Joined(s)'
  <2>1. ~comp[Third].ready_to_send /\ main[Third] # "sent"
    BY <1>2 DEF Early
  <2> QED
    BY <1>2, <1>3, <1>4, <1>5, <2>1 DEF Joined
<1>13. Held'
  <2>1. /\ comp[Third].is_lobby /\ comp[Third].user_ID = -1 /\ scene[Third].assigned_team = 0
    BY <1>2 DEF Early, Newborn
  <2>2. Lacks(<<hello>>, Greetings)
    BY <1>6, LacksOne
  <2>3. inbox'[Third] = <<hello>>
    BY <1>2, <1>11
  <2> QED
    BY <1>3, <2>1, <2>2, <2>3 DEF Held
<1>14. \A u \in Uids : u # s => Lacks(inbox'[u], {Ready})
  <2>1. Lacks(<<hello>>, {Ready})
    <3>1. hello \notin {Ready}
      BY <1>6
    <3> QED
      BY <1>6, <3>1, LacksOne
  <2> QED
    BY <1>11, <2>1
<1>15. Once(inbox'[s])
  BY <1>5, <1>11, OnceNew
<1>16. main[s] # "sent" /\ ~comp[s].ready_to_send /\ Calm'
  BY <1>3, <1>5 DEF Early, Calm
<1>17. Waiting(s)'
  BY <1>3, <1>10, <1>13, <1>14, <1>15, <1>16 DEF Waiting
<1> QED
  BY <1>12, <1>17

--------------------------------------------------------------------------------
(* The two that are left: what they and the server do from then on.           *)

LEMMA StagePeople ==
    ASSUME TwoPlayers, SessionInv, Census, NEW s \in {0, 1}, Joined(s)
    PROVE  /\ s \in Uids /\ Third \in Uids /\ s # Third /\ Up = {s, Third} /\ Typed
           /\ ~Launch /\ ~OnClientConnect /\ ~OnClientDisconnect /\ ~ResumePastEnd
           /\ \A c : ~Detect(c) /\ (Leave(c) => leaves' = 2)
<1>1. Typed /\ live = {s, Third} /\ breaking = {} /\ nextUid = 3 /\ leaves = 1
  BY DEF SessionInv, Joined
<1>2. s \in Uids /\ Third \in Uids
  BY <1>1, LiveIsUid DEF Typed
<1>3. s # Third /\ Up = {s, Third}
  BY <1>1 DEF Third, Up
<1>4. ~Launch
  <2>1. Launch => Cardinality(live) < MaxClients
    BY DEF Launch, Connect
  <2>2. Cardinality(live) < MaxClients => nextUid <= 2
    BY <1>1, Room DEF Census
  <2> QED
    BY <1>1, <2>1, <2>2
<1>5. events # <<>> => Head(events).type # "connect" /\ Head(events).type # "disconnect"
  <2> SUFFICES ASSUME events # <<>>
               PROVE  Head(events).type # "connect" /\ Head(events).type # "disconnect"
    OBVIOUS
  <2>1. 1 \in 1 .. Len(events) /\ Head(events) = events[1]
    BY <1>1 DEF Typed, TransportTyped
  <2> QED
    BY <2>1 DEF Joined, Opens, Closes
<1>6. ~OnClientConnect /\ ~OnClientDisconnect
  BY <1>5 DEF OnClientConnect, OnClientDisconnect, NextEventIs
<1>7. ~ResumePastEnd
  <2>1. Len(connected) = 2
    BY DEF Joined
  <2>2. ~(2 < 2)
    OBVIOUS
  <2> QED
    BY <2>1, <2>2 DEF ResumePastEnd
<1>8. ASSUME NEW c PROVE ~Detect(c) /\ (Leave(c) => leaves' = 2)
  <2>1. ~Detect(c)
    BY <1>1 DEF Detect, Disconnect
  <2>2. Leave(c) => leaves' = 1 + 1
    BY <1>1 DEF Leave
  <2> QED
    BY <2>1, <2>2
<1> QED
  BY <1>1, <1>2, <1>3, <1>4, <1>6, <1>7, <1>8

LEMMA JoinedStays ==
    ASSUME NEW s \in {0, 1}, Joined(s),
           UNCHANGED <<nextUid, leaves, live, breaking, connected>>,
           \A i : (Opens(i)' => \E j : Opens(j)) /\ (Closes(i)' => \E j : Closes(j)),
           ~comp'[Third].ready_to_send, main'[Third] # "sent"
    PROVE  Joined(s)'
  BY DEF Joined

(* A packet of one of them goes to the other one. *)
LEMMA StageForward ==
    ASSUME SessionInv, NEW s \in {0, 1}, Joined(s), s \in Uids, Third \in Uids, s # Third,
           ForwardData
    PROVE  LET d == Head(events).client
               p == Head(events).msg
           IN  /\ events # <<>> /\ events' = Tail(events) /\ Head(events) \in ClientEvents
               /\ Head(events).type = "receive" /\ p \in Forwardable
               /\ UNCHANGED <<nextUid, leaves, live, breaking, connected, gameActive,
                              outbox, comp, scene, main>>
               /\ \A u \in Uids : inbox'[u] = IF u # d /\ u \in {s, Third}
                                              THEN inbox[u] \o <<p>> ELSE inbox[u]
<1> DEFINE d == Head(events).client
           p == Head(events).msg
           sends == ToOthers(d, connected, p)
<1>1. /\ events # <<>> /\ events' = Tail(events) /\ Post(sends)
      /\ NextEventIs("receive") /\ Head(events).type = "receive" /\ p.type \in Forwarded
      /\ UNCHANGED <<nextUid, leaves, live, breaking, connected, gameActive,
                     outbox, comp, scene, main>>
  BY DEF ForwardData, DispatchReceive, NextEventIs, serverVars, clientVars, bounds
<1>2. /\ p \in Forwardable /\ p \in ToClients /\ connected \in Seq(Uids)
      /\ Typed /\ TransportTyped /\ Head(events) \in ClientEvents
  BY <1>1, ForwardSends, PacketKinds, HeadTyped DEF SessionInv, Typed, TransportTyped
<1> HIDE DEF d, p
<1>3. connected = <<s, Third>> /\ live = {s, Third}
  BY DEF Joined
<1>4. sends \in Seq(Sends(ToClients))
  BY <1>2, ToOthersType
<1>5. \A u : MsgsTo(u, sends) = IF u # d /\ u \in {s, Third} THEN <<p>> ELSE <<>>
  BY <1>2, <1>3, TwoOthers
<1> HIDE DEF sends
<1>6. ASSUME NEW u \in Uids
      PROVE  inbox'[u] = IF u # d /\ u \in {s, Third} THEN inbox[u] \o <<p>> ELSE inbox[u]
  <2>1. /\ inbox[u] \in Seq(ToClients)
        /\ inbox'[u] = IF u \in live THEN inbox[u] \o MsgsTo(u, sends) ELSE inbox[u]
    BY <1>1, <1>2, <1>4, PostedAll
  <2>2. inbox[u] \o <<>> = inbox[u]
    BY <2>1, ConcatEmptySeq
  <2> QED
    BY <1>3, <1>5, <2>1, <2>2
<1> QED
  BY <1>1, <1>2, <1>6 DEF d, p

(* When a game is resumed, both get the packet that says so. *)
LEMMA StageResume ==
    ASSUME SessionInv, ResumeBoth, NEW X, Absent(X), Resumption \cap X = {}
    PROVE  /\ events # <<>> /\ events' = Tail(events) /\ Absent(X)'
           /\ UNCHANGED <<nextUid, leaves, live, breaking, connected, gameActive,
                          outbox, comp, scene, main>>
<1> DEFINE p == Packet("reconnect", FALSE)
           a == To(connected[1], p)
           b == To(connected[2], p)
           sends == a \o b
<1>1. /\ events # <<>> /\ events' = Tail(events) /\ Post(sends) /\ Len(connected) >= 2
      /\ UNCHANGED <<nextUid, leaves, live, breaking, connected, gameActive,
                     outbox, comp, scene, main>>
  BY DEF ResumeBoth, DispatchReceive, NextEventIs, serverVars, clientVars, bounds
<1>2. Typed /\ TransportTyped
  BY DEF SessionInv, Typed
<1>3. sends \in Seq(Sends(ToClients))
  BY <1>1, <1>2, ResumeSends
<1>4. \A i \in 1 .. Len(sends) : sends[i].msg \notin X
  <2> DEFINE x == [to |-> connected[1], msg |-> p]
             y == [to |-> connected[2], msg |-> p]
  <2>0. a = <<x>> /\ b = <<y>> /\ x.msg = p /\ y.msg = p
    BY DEF To
  <2>2. p \notin X
    BY DEF Resumption
  <2> HIDE DEF x, y, a, b, p
  <2>1. /\ Len(a) = 1 /\ a[1].msg = p /\ Len(b) = 1 /\ b[1].msg = p
        /\ a \in Seq({x, y}) /\ b \in Seq({x, y})
    BY <2>0
  <2>a. /\ Len(sends) = Len(a) + Len(b)
        /\ \A i \in 1 .. Len(a) + Len(b) : sends[i] = IF i <= Len(a) THEN a[i] ELSE b[i - Len(a)]
    BY <2>1, ConcatProperties
  <2> HIDE DEF sends
  <2>3. \A i \in 1 .. 2 : sends[i] = IF i <= 1 THEN a[i] ELSE b[i - 1]
    BY <2>1, <2>a
  <2>4. Len(sends) = 2
    BY <2>1, <2>a
  <2>5. \A i \in 1 .. 2 : i = 1 \/ (i = 2 /\ i - 1 = 1)
    OBVIOUS
  <2>6. \A i \in 1 .. 2 : sends[i].msg = p
    BY <2>1, <2>3, <2>5
  <2> QED
    BY <2>2, <2>4, <2>6
<1> HIDE DEF sends
<1>5. Absent(X)'
  BY <1>1, <1>2, <1>3, <1>4, AbsentPosted
<1> QED
  BY <1>1, <1>5

--------------------------------------------------------------------------------
(* The way of a snapshot from one client through the server to the other.     *)

LEMMA HeardMaps ==
    /\ Maps(Heard, ClientEvents, Packets)
    /\ \A e \in ClientEvents :
          Heard[e] = IF e.type = "receive" /\ e.client # Third THEN <<e.msg>> ELSE <<>>
<1>1. ASSUME NEW e \in ClientEvents
      PROVE  (IF e.type = "receive" /\ e.client # Third THEN <<e.msg>> ELSE <<>>) \in Seq(Packets)
  <2>1. e.type = "receive" => e.msg \in Packets
    BY DEF ClientEvents, Packets
  <2>2. <<>> \in Seq(Packets) /\ \A m \in Packets : <<m>> \in Seq(Packets)
    OBVIOUS
  <2> QED
    BY <2>1, <2>2
<1> QED
  BY <1>1 DEF Heard, Maps

LEMMA WayTyped ==
    ASSUME Typed, NEW s \in Uids, Third \in Uids
    PROVE  /\ inbox[Third] \in Seq(Packets) /\ outbox[s] \in Seq(Packets)
           /\ Extract(Heard, events) \in Seq(Packets)
           /\ Way(s) \in Seq(Packets) /\ events \in Seq(ClientEvents)
           /\ inbox[Third] \o Extract(Heard, events) \in Seq(Packets)
<1>1. \A p \in Seq(ToClients) : p \in Seq(Packets)
  BY DEF Packets
<1>2. \A p \in Seq(FromClients) : p \in Seq(Packets)
  BY DEF Packets
<1>3. inbox[Third] \in Seq(Packets) /\ outbox[s] \in Seq(Packets) /\ events \in Seq(ClientEvents)
  BY <1>1, <1>2 DEF Typed, TransportTyped, ClientsTyped
<1>4. Extract(Heard, events) \in Seq(Packets)
  BY <1>3, HeardMaps, ExtractType
<1>5. \A p, q \in Seq(Packets) : p \o q \in Seq(Packets)
  BY ConcatProperties
<1> QED
  BY <1>3, <1>4, <1>5 DEF Way

LEMMA PacketsAssociative == \A u, v, w \in Seq(Packets) : (u \o v) \o w = u \o (v \o w)
  BY Associative

(* The front of a sequence moves on to the end of the one before. *)
LEMMA Shifted ==
    ASSUME NEW M, NEW a \in Seq(M), NEW b \in Seq(M), b # <<>>
    PROVE  (a \o <<Head(b)>>) \o Tail(b) = a \o b
<1> DEFINE h == <<Head(b)>>
           t == Tail(b)
<1>1. h \in Seq(M) /\ t \in Seq(M) /\ b = h \o t
  OBVIOUS
<1>2. \A u, v, w \in Seq(M) : (u \o v) \o w = u \o (v \o w)
  BY Associative, SMTT(60)
<1> HIDE DEF h, t
<1>3. (a \o h) \o t = a \o (h \o t)
  BY <1>1, <1>2
<1> QED
  BY <1>1, <1>3 DEF h, t

LEMMA WayFlush ==
    ASSUME Typed, NEW s \in Uids, Third \in Uids, s # Third, NEW c \in {s, Third}, Flush(c)
    PROVE  Way(s)' = Way(s)
<1> DEFINE e == Event("receive", c, Head(outbox[c]))
           a == inbox[Third]
           x == Extract(Heard, events)
           b == outbox[s]
<1>1. /\ outbox[c] # <<>> /\ Head(outbox[c]) \in FromClients /\ events' = Append(events, e)
      /\ outbox' = [outbox EXCEPT ![c] = Tail(@)] /\ inbox' = inbox
  BY DEF Flush, Receive, Typed, ClientsTyped
<1>2. e \in ClientEvents /\ e.type = "receive" /\ e.client = c /\ e.msg = Head(outbox[c])
  BY <1>1 DEF Event, ClientEvents
<1> HIDE DEF e
<1>3. /\ a \in Seq(Packets) /\ b \in Seq(Packets) /\ x \in Seq(Packets)
      /\ events \in Seq(ClientEvents) /\ outbox \in [Uids -> Seq(FromClients)]
      /\ a \o x \in Seq(Packets)
  BY WayTyped DEF Typed, ClientsTyped
<1>4. Extract(Heard, events)' = x \o Heard[e]
  <2>1. Extract(Heard, Append(events, e)) = x \o Heard[e]
    BY <1>2, <1>3, HeardMaps, ExtractAppend
  <2> QED
    BY <1>1, <2>1 DEF Heard
<1>5. Heard[e] = IF c # Third THEN <<Head(outbox[c])>> ELSE <<>>
  BY <1>2, HeardMaps
<1>6. Way(s)' = (a \o (x \o Heard[e])) \o outbox'[s]
  BY <1>1, <1>4 DEF Way
<1>7. Way(s) = (a \o x) \o b
  BY DEF Way
<1> HIDE DEF a, x
<1>8. CASE c = Third
  <2>1. outbox'[s] = b /\ Heard[e] = <<>>
    BY <1>1, <1>3, <1>5, <1>8
  <2>2. x \o <<>> = x
    BY <1>3, ConcatEmptySeq
  <2> QED
    BY <1>6, <1>7, <2>1, <2>2
<1>9. CASE c = s
  <2>1. outbox'[s] = Tail(b) /\ Heard[e] = <<Head(b)>> /\ b # <<>>
    BY <1>1, <1>3, <1>5, <1>9
  <2> HIDE DEF b
  <2>2. <<Head(b)>> \in Seq(Packets)
    BY <1>3, <2>1
  <2>3. (a \o x) \o <<Head(b)>> = a \o (x \o <<Head(b)>>)
    BY <1>3, <2>2, PacketsAssociative, SMTT(30)
  <2>4. ((a \o x) \o <<Head(b)>>) \o Tail(b) = (a \o x) \o b
    BY <1>3, <2>1, Shifted
  <2> QED
    BY <1>6, <1>7, <2>1, <2>3, <2>4
<1> QED
  BY <1>8, <1>9

LEMMA WayForward ==
    ASSUME SessionInv, NEW s \in {0, 1}, Joined(s), s \in Uids, Third \in Uids, s # Third,
           ForwardData
    PROVE  Way(s)' = Way(s)
<1> DEFINE d == Head(events).client
           p == Head(events).msg
           a == inbox[Third]
           x == Extract(Heard, events)
           y == Extract(Heard, Tail(events))
           b == outbox[s]
<1>1. /\ events # <<>> /\ events' = Tail(events) /\ Head(events) \in ClientEvents
      /\ Head(events).type = "receive" /\ p \in Forwardable /\ outbox' = outbox
      /\ inbox'[Third] = IF d # Third THEN a \o <<p>> ELSE a
  BY StageForward
<1>2. Typed
  BY DEF SessionInv
<1>3. /\ a \in Seq(Packets) /\ b \in Seq(Packets) /\ x \in Seq(Packets)
      /\ events \in Seq(ClientEvents)
  BY <1>2, WayTyped
<1>4. x = Heard[Head(events)] \o y
  BY <1>1, <1>3, HeardMaps, ExtractCons
<1>5. y \in Seq(Packets)
  <2>1. Tail(events) \in Seq(ClientEvents)
    BY <1>1, <1>2, HeadTyped DEF Typed
  <2> QED
    BY <2>1, HeardMaps, ExtractType
<1>6. Heard[Head(events)] = IF d # Third THEN <<p>> ELSE <<>>
  BY <1>1, HeardMaps
<1>7. Extract(Heard, events)' = y
  BY <1>1 DEF Heard
<1>8. Way(s) = (a \o x) \o b /\ Way(s)' = (inbox'[Third] \o y) \o b
  BY <1>1, <1>7 DEF Way
<1>9. <<p>> \in Seq(Packets)
  <2>1. p \in Packets
    BY <1>1, PacketKinds DEF Packets
  <2> QED
    BY <2>1
<1> HIDE DEF a, x, y, b, d, p
<1>10. CASE d # Third
  <2>1. (a \o <<p>>) \o y = a \o (<<p>> \o y)
    BY <1>3, <1>5, <1>9, PacketsAssociative, SMTT(30)
  <2> QED
    BY <1>1, <1>4, <1>6, <1>8, <1>10, <2>1
<1>11. CASE d = Third
  <2>1. <<>> \o y = y
    BY <1>5, ConcatEmptySeq
  <2> QED
    BY <1>1, <1>4, <1>6, <1>8, <1>11, <2>1
<1> QED
  BY <1>10, <1>11

LEMMA WayConsume ==
    ASSUME Typed, NEW s \in Uids, Third \in Uids, s # Third, NEW c \in Uids, Consume(c)
    PROVE  IF c = Third
           THEN Way(s) # <<>> /\ Head(Way(s)) = Head(inbox[Third]) /\ Way(s)' = Tail(Way(s))
           ELSE Way(s)' = Way(s)
<1> DEFINE a == inbox[Third]
           x == Extract(Heard, events)
           b == outbox[s]
<1>1. /\ inbox[c] # <<>> /\ inbox' = [inbox EXCEPT ![c] = Tail(@)]
      /\ events' = events /\ outbox' = outbox
  BY DEF Consume, Take
<1>2. /\ a \in Seq(Packets) /\ b \in Seq(Packets) /\ x \in Seq(Packets)
      /\ a \o x \in Seq(Packets) /\ inbox \in [Uids -> Seq(ToClients)]
  BY WayTyped DEF Typed, TransportTyped
<1>3. Way(s) = (a \o x) \o b /\ Way(s)' = (inbox'[Third] \o x) \o b
  BY <1>1 DEF Way, Heard
<1>4. CASE c = Third
  <2>1. inbox'[Third] = Tail(a) /\ a # <<>>
    BY <1>1, <1>2, <1>4
  <2> HIDE DEF a, x, b
  <2>2. a \o x # <<>> /\ Head(a \o x) = Head(a) /\ Tail(a \o x) = Tail(a) \o x
    BY <1>2, <2>1, TailOfConcat
  <2>3. /\ (a \o x) \o b # <<>> /\ Head((a \o x) \o b) = Head(a \o x)
        /\ Tail((a \o x) \o b) = Tail(a \o x) \o b
    BY <1>2, <2>2, TailOfConcat
  <2>4. Head(Way(s)) = Head(a) /\ Way(s) # <<>> /\ Way(s)' = Tail(Way(s))
    BY <1>3, <2>1, <2>2, <2>3
  <2> QED
    BY <1>4, <2>4 DEF a
<1>5. CASE c # Third
  <2>1. inbox'[Third] = a
    BY <1>1, <1>2, <1>5
  <2> QED
    BY <1>3, <1>5, <2>1
<1> QED
  BY <1>4, <1>5

LEMMA WayLocal ==
    ASSUME Typed, NEW s \in Uids, Third \in Uids, s # Third, NEW c \in Uids,
           NEW new \in Seq(FromClients), Local(c, new)
    PROVE  /\ new \in Seq(Packets)
           /\ Way(s)' = IF c = s THEN Way(s) \o new ELSE Way(s)
<1> DEFINE a == inbox[Third] \o Extract(Heard, events)
           b == outbox[s]
<1>1. /\ inbox' = inbox /\ events' = events
      /\ outbox'[s] = IF c = s THEN b \o new ELSE b
  BY DEF Local, transportVars
<1>2. a \in Seq(Packets) /\ b \in Seq(Packets)
  BY WayTyped
<1>3. Way(s) = a \o b /\ Way(s)' = a \o outbox'[s]
  BY <1>1 DEF Way, Heard
<1>4. new \in Seq(Packets)
  BY DEF Packets
<1> HIDE DEF a, b
<1>5. (a \o b) \o new = a \o (b \o new)
  BY <1>2, <1>4, Associative
<1> QED
  BY <1>1, <1>3, <1>4, <1>5

--------------------------------------------------------------------------------
(* What such a step leaves as it was.                                         *)

LEMMA WayLacks ==
    ASSUME Typed, NEW s \in Uids, Third \in Uids, NEW X
    PROVE  Lacks(Way(s), X) <=>
              /\ Lacks(inbox[Third], X) /\ Lacks(outbox[s], X)
              /\ \A i \in 1 .. Len(events) :
                    events[i].type = "receive" /\ events[i].client # Third => events[i].msg \notin X
<1> DEFINE a == inbox[Third]
           x == Extract(Heard, events)
           b == outbox[s]
           Free == \A i \in 1 .. Len(events) :
                     events[i].type = "receive" /\ events[i].client # Third =>
                        events[i].msg \notin X
<1>1. /\ a \in Seq(Packets) /\ b \in Seq(Packets) /\ x \in Seq(Packets)
      /\ a \o x \in Seq(Packets) /\ events \in Seq(ClientEvents)
      /\ Way(s) = (a \o x) \o b
  BY WayTyped DEF Way
<1>2. \A i \in 1 .. Len(events) :
         Heard[events[i]] = IF events[i].type = "receive" /\ events[i].client # Third
                            THEN <<events[i].msg>> ELSE <<>>
  <2>1. \A i \in 1 .. Len(events) : events[i] \in ClientEvents
    BY <1>1
  <2> QED
    BY <2>1, HeardMaps
<1>3. ASSUME Free PROVE Lacks(x, X)
  <2> SUFFICES ASSUME NEW k \in 1 .. Len(x) PROVE x[k] \notin X
    BY DEF Lacks
  <2>1. PICK i \in 1 .. Len(events) :
           \E j \in 1 .. Len(Heard[events[i]]) : x[k] = Heard[events[i]][j]
    BY <1>1, HeardMaps, ExtractFrom
  <2>2. events[i].type = "receive" /\ events[i].client # Third
    <3>1. 1 .. Len(<<>>) = {}
      OBVIOUS
    <3>2. Heard[events[i]] # <<>>
      BY <2>1, <3>1
    <3> QED
      BY <1>2, <3>2
  <2>3. Heard[events[i]] = <<events[i].msg>>
    BY <1>2, <2>2
  <2>4. x[k] = events[i].msg
    BY <2>1, <2>3
  <2> QED
    BY <1>3, <2>2, <2>4
<1>4. ASSUME Lacks(x, X), NEW i \in 1 .. Len(events),
             events[i].type = "receive", events[i].client # Third
      PROVE  events[i].msg \notin X
  <2> DEFINE u == Extract(Heard, Before(events, i))
             v == Extract(Heard, Behind(events, i))
             m == events[i].msg
  <2>1. x = (u \o Heard[events[i]]) \o v
    BY <1>1, HeardMaps, ExtractSplit
  <2>2. Heard[events[i]] = <<m>>
    BY <1>2, <1>4
  <2>3. u \in Seq(Packets) /\ v \in Seq(Packets)
    <3>1. Before(events, i) \in Seq(ClientEvents) /\ Behind(events, i) \in Seq(ClientEvents)
      BY <1>1, SplitShape
    <3> QED
      BY <3>1, HeardMaps, ExtractType
  <2>4. m \in Packets
    <3>1. events[i] \in ClientEvents
      BY <1>1
    <3> QED
      BY <1>4, <3>1 DEF ClientEvents, Packets
  <2> HIDE DEF u, v, m, x
  <2>5. <<m>> \in Seq(Packets) /\ u \o <<m>> \in Seq(Packets)
    <3>1. <<m>> \in Seq(Packets)
      BY <2>4
    <3>2. \A p, q \in Seq(Packets) : p \o q \in Seq(Packets)
      BY ConcatProperties
    <3> QED
      BY <2>3, <3>1, <3>2
  <2>6. Lacks(u \o <<m>>, X)
    BY <1>4, <2>1, <2>2, <2>3, <2>5, LacksConcat
  <2>7. Lacks(<<m>>, X)
    BY <2>3, <2>5, <2>6, LacksConcat
  <2>8. m \notin X
    BY <2>7 DEF Lacks
  <2> QED
    BY <2>8 DEF m
<1>5. Lacks(x, X) <=> Free
  BY <1>3, <1>4
<1> HIDE DEF a, x, b
<1>6. Lacks(Way(s), X) <=> (Lacks(a, X) /\ Lacks(x, X)) /\ Lacks(b, X)
  <2>1. Lacks(a \o x, X) <=> Lacks(a, X) /\ Lacks(x, X)
    BY <1>1, LacksConcat
  <2>2. Lacks((a \o x) \o b, X) <=> Lacks(a \o x, X) /\ Lacks(b, X)
    BY <1>1, LacksConcat
  <2> QED
    BY <1>1, <2>1, <2>2
<1> QED
  BY <1>5, <1>6 DEF a, b

LEMMA ForwardLacks ==
    ASSUME SessionInv, NEW s \in {0, 1}, Joined(s), s \in Uids, Third \in Uids, s # Third,
           ForwardData, NEW X
    PROVE  /\ Absent(X) => Absent(X)'
           /\ \A u \in Uids :
                 /\ Lacks(inbox[u], X)
                 /\ Head(events).msg \notin X \/ ~(u # Head(events).client /\ u \in {s, Third})
                 => Lacks(inbox'[u], X)
<1> DEFINE d == Head(events).client
           p == Head(events).msg
<1>1. /\ events # <<>> /\ events' = Tail(events) /\ Head(events).type = "receive"
      /\ p \in Forwardable /\ outbox' = outbox
      /\ \A u \in Uids : inbox'[u] = IF u # d /\ u \in {s, Third}
                                     THEN inbox[u] \o <<p>> ELSE inbox[u]
  BY StageForward
<1>2. TransportTyped /\ p \in ToClients
  BY <1>1, PacketKinds DEF SessionInv, Typed
<1> HIDE DEF d, p
<1>3. ASSUME NEW u \in Uids, Lacks(inbox[u], X), p \notin X \/ ~(u # d /\ u \in {s, Third})
      PROVE  Lacks(inbox'[u], X)
  <2>1. CASE u # d /\ u \in {s, Third}
    <3>1. inbox[u] \in Seq(ToClients) /\ <<p>> \in Seq(ToClients)
      BY <1>2 DEF TransportTyped
    <3>2. Lacks(<<p>>, X)
      BY <1>2, <1>3, <2>1, LacksOne
    <3>3. Lacks(inbox[u] \o <<p>>, X)
      BY <1>3, <3>1, <3>2, LacksConcat
    <3> QED
      BY <1>1, <2>1, <3>3
  <2>2. CASE ~(u # d /\ u \in {s, Third})
    BY <1>1, <1>3, <2>2
  <2> QED
    BY <2>1, <2>2
<1>4. ASSUME Absent(X) PROVE Absent(X)'
  <2>1. Unheard(X)' /\ p \notin X
    BY <1>1, <1>2, <1>4, HeadUnheard DEF Absent, p
  <2>2. \A u \in Uids : Lacks(inbox'[u], X) /\ Lacks(outbox'[u], X)
    BY <1>1, <1>3, <1>4, <2>1 DEF Absent
  <2> QED
    BY <2>1, <2>2 DEF Absent
<1> QED
  BY <1>3, <1>4 DEF d, p

LEMMA JoinedServed ==
    ASSUME Typed, NEW s \in {0, 1}, Joined(s), events # <<>>, events' = Tail(events),
           UNCHANGED <<nextUid, leaves, live, breaking, connected, comp, main>>
    PROVE  Joined(s)'
<1>1. \A i : (Opens(i)' => \E j : Opens(j)) /\ (Closes(i)' => \E j : Closes(j))
  BY EventsLess
<1>2. ~comp'[Third].ready_to_send /\ main'[Third] # "sent"
  BY DEF Joined
<1> QED
  BY <1>1, <1>2, JoinedStays

LEMMA JoinedFlush ==
    ASSUME Typed, NEW s \in {0, 1}, Joined(s), NEW c \in Uids, Flush(c)
    PROVE  Joined(s)'
<1> DEFINE e == Event("receive", c, Head(outbox[c]))
<1>1. /\ events' = Append(events, e)
      /\ UNCHANGED <<nextUid, leaves, live, breaking, connected, comp, main>>
  BY DEF Flush, Receive, bounds
<1>2. e.type = "receive"
  BY DEF Event
<1> HIDE DEF e
<1>3. /\ \A i : Opens(i)' <=> Opens(i) \/ (i = Len(events) + 1 /\ e.type = "connect")
      /\ \A i : Closes(i)' <=> Closes(i) \/ (i = Len(events) + 1 /\ e.type = "disconnect")
  BY <1>1, EventsMore
<1>4. \A i : (Opens(i)' => \E j : Opens(j)) /\ (Closes(i)' => \E j : Closes(j))
  BY <1>2, <1>3
<1>5. ~comp'[Third].ready_to_send /\ main'[Third] # "sent"
  BY <1>1 DEF Joined
<1> QED
  BY <1>1, <1>4, <1>5, JoinedStays

LEMMA JoinedConsume ==
    ASSUME Typed, NEW s \in {0, 1}, Joined(s), Third \in Uids, NEW c \in Uids, Consume(c),
           c = Third => Head(inbox[c]) # Ready
    PROVE  Joined(s)'
<1>1. /\ inbox[c] # <<>> /\ comp' = [comp EXCEPT ![c] = ProcessReceived(@, Head(inbox[c]))]
      /\ UNCHANGED <<nextUid, leaves, live, breaking, connected, events, main>>
  BY DEF Consume, Take, bounds
<1>2. comp[Third] \in Components /\ comp \in [Uids -> Components] /\ inbox[c] \in Seq(ToClients)
  BY ComponentsOf
<1>3. ~comp[Third].ready_to_send /\ main'[Third] # "sent"
  BY <1>1 DEF Joined
<1>4. ~comp'[Third].ready_to_send
  <2>1. CASE c = Third
    <3>1. Head(inbox[c]) \in ToClients
      BY <1>1, <1>2
    <3>2. comp'[Third] = ProcessReceived(comp[Third], Head(inbox[c]))
      BY <1>1, <1>2, <2>1
    <3> QED
      BY <1>2, <1>3, <2>1, <3>1, <3>2, Processed
  <2>2. CASE c # Third
    BY <1>1, <1>2, <1>3, <2>2
  <2> QED
    BY <2>1, <2>2
<1>5. \A i : (Opens(i)' => \E j : Opens(j)) /\ (Closes(i)' => \E j : Closes(j))
  BY <1>1 DEF Opens, Closes
<1> QED
  BY <1>1, <1>3, <1>4, <1>5, JoinedStays

LEMMA JoinedLocal ==
    ASSUME NEW s \in {0, 1}, Joined(s), Third \in Uids, NEW c \in Uids,
           NEW new, Local(c, new), Tame(c) \/ Resumed(c, new) \/ c # Third
    PROVE  Joined(s)'
<1>1. UNCHANGED <<nextUid, leaves, live, breaking, connected, events>>
  BY DEF Local, transportVars
<1>2. ~comp[Third].ready_to_send /\ main[Third] # "sent"
  BY DEF Joined
<1>3. ~comp'[Third].ready_to_send /\ main'[Third] # "sent"
  <2>1. CASE c # Third
    BY <1>2, <2>1 DEF Local
  <2>2. CASE c = Third /\ Tame(c)
    BY <1>2, <2>2 DEF Tame
  <2>3. CASE c = Third /\ Resumed(c, new)
    BY <1>2, <2>3 DEF Resumed
  <2> QED
    BY <2>1, <2>2, <2>3
<1>4. \A i : (Opens(i)' => \E j : Opens(j)) /\ (Closes(i)' => \E j : Closes(j))
  BY <1>1 DEF Opens, Closes
<1> QED
  BY <1>1, <1>3, <1>4, JoinedStays

--------------------------------------------------------------------------------
(* Until the snapshot is taken.                                               *)

LEMMA WaitingForward ==
    ASSUME SessionInv, NEW s \in {0, 1}, Joined(s), s \in Uids, Third \in Uids, s # Third,
           Waiting(s), ForwardData
    PROVE  Waiting(s)'
<1> DEFINE d == Head(events).client
           p == Head(events).msg
           X == {Done} \cup Resumption
<1>1. /\ events # <<>> /\ events' = Tail(events) /\ p \in Forwardable
      /\ UNCHANGED <<outbox, comp, scene, main>>
      /\ \A u \in Uids : inbox'[u] = IF u # d /\ u \in {s, Third}
                                     THEN inbox[u] \o <<p>> ELSE inbox[u]
  BY StageForward
<1>2. p \notin {Ready} /\ p \notin Greetings /\ p \in ToClients
  <2>1. p \in ToClients
    BY <1>1, PacketKinds
  <2>2. p.type \notin {"ready", "start", "init"}
    BY <1>1 DEF Forwardable
  <2> QED
    BY <2>1, <2>2, Packed
<1>3. Absent(X)'
  BY ForwardLacks DEF Waiting
<1>4. Held'
  <2>1. Lacks(inbox'[Third], Greetings)
    BY <1>2, ForwardLacks DEF Waiting, Held
  <2> QED
    BY <1>1, <2>1 DEF Waiting, Held
<1>5. \A u \in Uids : Lacks(inbox[u], {Ready}) => Lacks(inbox'[u], {Ready})
  BY <1>2, ForwardLacks
<1>6. Once(inbox'[s])
  <2>1. inbox[s] \in Seq(ToClients) /\ Once(inbox[s])
    BY ComponentsOf DEF SessionInv, Waiting
  <2> HIDE DEF p
  <2>2. <<p>> \in Seq(ToClients) /\ Lacks(<<p>>, {Ready})
    BY <1>2, LacksOne
  <2>3. Once(inbox[s] \o <<p>>)
    BY <2>1, <2>2, OnceNew
  <2> QED
    BY <1>1, <2>1, <2>3
<1> QED
  BY <1>1, <1>3, <1>4, <1>5, <1>6 DEF Waiting, Calm

LEMMA WaitingFlush ==
    ASSUME Typed, NEW s \in {0, 1}, Waiting(s), NEW c \in Uids, Flush(c)
    PROVE  Waiting(s)'
<1>1. Absent({Done} \cup Resumption)' /\ UNCHANGED <<inbox, comp, scene, main>>
  BY AbsentFlush DEF Waiting
<1> QED
  BY <1>1 DEF Waiting, Calm, Held

LEMMA WaitingConsume ==
    ASSUME Typed, NEW s \in {0, 1}, Waiting(s), s \in Uids, Third \in Uids, s # Third,
           NEW c \in Uids, Consume(c)
    PROVE  Waiting(s)' /\ (c = Third => Head(inbox[c]) # Ready)
<1> DEFINE p == Head(inbox[c])
           X == {Done} \cup Resumption
<1>1. /\ Absent(X)' /\ p \notin X /\ p \in ToClients /\ inbox[c] # <<>>
      /\ inbox'[c] = Tail(inbox[c]) /\ comp'[c] = ProcessReceived(comp[c], p)
      /\ \A u \in Uids : u # c => inbox'[u] = inbox[u] /\ comp'[u] = comp[u]
      /\ UNCHANGED <<scene, main>>
  BY AbsentConsume DEF Waiting
<1>2. comp[c] \in Components /\ inbox[c] \in Seq(ToClients)
  BY ComponentsOf
<1> HIDE DEF p
<1>3. /\ comp'[c].update_complete <=> comp[c].update_complete \/ p = Done
      /\ comp'[c].ready_to_send <=> comp[c].ready_to_send \/ p = Ready
      /\ p \notin Greetings => comp'[c].user_ID = comp[c].user_ID
      /\ p \notin Greetings \cup Resumption /\ (comp[c].is_reconnecting \/ comp[c].is_lobby) =>
            comp'[c].is_reconnecting \/ comp'[c].is_lobby
  BY <1>1, <1>2, Processed
<1>4. Calm'
  BY <1>1, <1>3 DEF Waiting, Calm
<1>5. \A Y : Lacks(inbox[c], Y) => Lacks(inbox'[c], Y) /\ p \notin Y
  BY <1>1, <1>2, LacksTail DEF p
<1>6. Held'
  <2>1. CASE c = Third
    <3>1. Lacks(inbox'[Third], Greetings) /\ p \notin Greetings
      BY <1>5, <2>1 DEF Waiting, Held
    <3>2. comp'[Third].is_reconnecting \/ comp'[Third].is_lobby
      BY <1>1, <1>3, <2>1, <3>1 DEF Waiting, Held
    <3>3. comp'[Third].user_ID = -1 /\ scene'[Third].assigned_team = 0
      BY <1>1, <1>3, <2>1, <3>1 DEF Waiting, Held
    <3> QED
      BY <3>1, <3>2, <3>3 DEF Held
  <2>2. CASE c # Third
    BY <1>1, <2>2 DEF Waiting, Held
  <2> QED
    BY <2>1, <2>2
<1>7. \A u \in Uids : u # s => Lacks(inbox'[u], {Ready})
  BY <1>1, <1>5 DEF Waiting
<1>8. c = Third => p # Ready
  BY <1>5 DEF Waiting
<1>9. Once(inbox'[s]) /\ (comp'[s].ready_to_send => Lacks(inbox'[s], {Ready}))
  <2>1. CASE c = s
    <3>1. Once(inbox[s]) /\ (comp[s].ready_to_send => Lacks(inbox[s], {Ready}))
      BY DEF Waiting
    <3>2. Once(inbox'[s]) /\ (p = Ready => Lacks(inbox'[s], {Ready}))
      BY <1>1, <1>2, <2>1, <3>1, OnceNew DEF p
    <3>3. comp'[s].ready_to_send => comp[s].ready_to_send \/ p = Ready
      BY <1>3, <2>1
    <3> QED
      BY <1>5, <2>1, <3>1, <3>2, <3>3
  <2>2. CASE c # s
    BY <1>1, <2>2 DEF Waiting
  <2> QED
    BY <2>1, <2>2
<1> QED
  BY <1>1, <1>4, <1>6, <1>7, <1>8, <1>9 DEF Waiting, p

LEMMA WaitingTame ==
    ASSUME Typed, NEW s \in {0, 1}, Waiting(s), s \in Uids, Third \in Uids, s # Third,
           NEW c \in Uids, NEW new \in Seq(FromClients), Local(c, new), Tame(c),
           Lacks(new, Untold)
    PROVE  Waiting(s)'
<1>1. Absent({Done} \cup Resumption)'
  <2>1. Lacks(new, {Done} \cup Resumption)
    BY DEF Lacks, Untold
  <2> QED
    BY <2>1, AbsentLocal DEF Waiting
<1>2. /\ inbox' = inbox
      /\ \A u \in Uids : u # c => comp'[u] = comp[u] /\ scene'[u] = scene[u] /\ main'[u] = main[u]
  BY DEF Local, transportVars
<1>3. Calm'
  BY <1>2 DEF Waiting, Calm, Tame
<1>4. Held'
  <2>1. CASE c = Third
    BY <1>2, <2>1 DEF Waiting, Held, Tame
  <2>2. CASE c # Third
    BY <1>2, <2>2 DEF Waiting, Held
  <2> QED
    BY <2>1, <2>2
<1>5. main'[s] # "sent" /\ (comp'[s].ready_to_send => comp[s].ready_to_send)
  <2>1. CASE c = s
    BY <2>1 DEF Waiting, Tame
  <2>2. CASE c # s
    BY <1>2, <2>2 DEF Waiting
  <2> QED
    BY <2>1, <2>2
<1> QED
  BY <1>1, <1>2, <1>3, <1>4, <1>5 DEF Waiting

LEMMA WaitingSnapped ==
    ASSUME Typed, NEW s \in {0, 1}, Waiting(s), s \in Uids, Third \in Uids, s # Third,
           NEW new \in Seq(FromClients), Local(s, new), Snapped(s, new)
    PROVE  Underway(s)'
<1> DEFINE X == {Ready} \cup Resumption
<1>1. /\ inbox' = inbox /\ events' = events
      /\ \A u \in Uids : u # s => comp'[u] = comp[u] /\ scene'[u] = scene[u] /\ main'[u] = main[u]
      /\ \A u \in Uids : u # s => outbox'[u] = outbox[u]
  BY DEF Local, transportVars
<1>2. /\ comp'[s] = comp[s] /\ main'[s] = "sent" /\ comp[s].ready_to_send
      /\ new = Snapshot(AssignTeam(s)) /\ AssignTeam(s) \in Scenes
  BY DEF Snapped, Sending
<1>3. Absent({Done}) /\ Absent(Resumption)
  <2>1. Absent({Done} \cup Resumption)
    BY DEF Waiting
  <2> QED
    BY <2>1, AbsentLess
<1>4. Ready \notin FromClients
  BY DEF Ready, Packet, FromClients, Forwardable
<1>5. Absent(X)
  <2>1. \A u \in Uids : Lacks(inbox[u], {Ready})
    BY <1>2 DEF Waiting
  <2>2. \A u \in Uids : Lacks(outbox[u], {Ready})
    <3> SUFFICES ASSUME NEW u \in Uids PROVE Lacks(outbox[u], {Ready})
      OBVIOUS
    <3>1. outbox[u] \in Seq(FromClients)
      BY ComponentsOf
    <3> QED
      BY <1>4, <3>1, LacksSome
  <2>3. Unheard({Ready})
    <3> SUFFICES ASSUME NEW i \in 1 .. Len(events), events[i].type = "receive"
                 PROVE  events[i].msg # Ready
      BY DEF Unheard
    <3>1. events[i] \in ClientEvents
      BY DEF Typed, TransportTyped
    <3>2. events[i].msg \in FromClients
      BY <3>1 DEF ClientEvents
    <3> QED
      BY <1>4, <3>2
  <2> QED
    BY <1>3, <2>1, <2>2, <2>3 DEF Absent, Unheard, Lacks
<1>6. Absent(X)'
  <2>1. new \in Seq(Forwardable)
    BY <1>2, SnapshotTyped
  <2>2. Forwardable \cap X = {}
    BY DEF Forwardable, Ready, Resumption, Packet
  <2>3. Lacks(new, X)
    BY <2>1, <2>2, LacksSome
  <2> HIDE DEF X
  <2> QED
    BY <1>5, <2>3, AbsentLocal
<1>7. Held'
  BY <1>1 DEF Waiting, Held
<1>8. Telling(comp[Third], Way(s))' /\ ~comp'[Third].update_complete
  <2>1. Way(s)' = Way(s) \o new /\ comp'[Third] = comp[Third]
    BY <1>1, WayLocal
  <2>2. Lacks(Way(s), {Done}) /\ Way(s) \in Seq(Packets)
    <3>1. /\ Lacks(inbox[Third], {Done}) /\ Lacks(outbox[s], {Done})
          /\ \A i \in 1 .. Len(events) :
                events[i].type = "receive" /\ events[i].client # Third =>
                   events[i].msg \notin {Done}
      BY <1>3 DEF Absent, Unheard
    <3> QED
      BY <3>1, WayLacks, WayTyped
  <2>3. Forwardable \subseteq Packets
    BY PacketKinds DEF Packets
  <2>4. Telling(comp[Third], Way(s) \o Snapshot(AssignTeam(s)))
    BY <1>2, <2>2, <2>3, TellingNew
  <2>5. ~comp[Third].update_complete
    BY DEF Waiting, Calm
  <2> QED
    BY <1>2, <2>1, <2>4, <2>5
<1>9. \A u \in Uids : u # Third => Lacks(inbox'[u], {Done}) /\ ~comp'[u].update_complete
  BY <1>1, <1>2, <1>3 DEF Absent, Waiting, Calm
<1>10. \A u \in Uids : u # s => Lacks(outbox'[u], {Done})
  BY <1>1, <1>3 DEF Absent
<1>11. \A i \in 1 .. Len(events') :
          events'[i].type = "receive" /\ events'[i].client # s => events'[i].msg # Done
  BY <1>1, <1>3 DEF Absent, Unheard
<1>12. Told(s)'
  BY <1>2 DEF Told
<1> QED
  BY <1>6, <1>7, <1>8, <1>9, <1>10, <1>11, <1>12 DEF Underway

--------------------------------------------------------------------------------
(* While the snapshot is on its way.                                          *)

(* Only the one that sends the snapshot has said that it is complete. *)
Sole(s) ==
    /\ \A u \in Uids : u # Third => Lacks(inbox[u], {Done}) /\ ~comp[u].update_complete
    /\ \A u \in Uids : u # s => Lacks(outbox[u], {Done})
    /\ \A i \in 1 .. Len(events) :
          events[i].type = "receive" /\ events[i].client # s => events[i].msg # Done

(* What the third client has of it, and what it is yet to get. *)
Tells(s) ==
    /\ Telling(comp[Third], Way(s))
    /\ comp[Third].update_complete => Complete(comp[Third]) /\ Lacks(Way(s), {Done})

LEMMA UnderwayParts ==
    ASSUME NEW s
    PROVE  Underway(s) <=>
              Absent({Ready} \cup Resumption) /\ Held /\ Told(s) /\ Sole(s) /\ Tells(s)
  BY DEF Underway, Sole, Tells

LEMMA UnderwayForward ==
    ASSUME SessionInv, NEW s \in {0, 1}, Joined(s), s \in Uids, Third \in Uids, s # Third,
           Underway(s), ForwardData
    PROVE  Underway(s)'
<1> DEFINE d == Head(events).client
           p == Head(events).msg
<1>1. /\ events # <<>> /\ events' = Tail(events) /\ p \in Forwardable
      /\ Head(events).type = "receive" /\ UNCHANGED <<outbox, comp, scene, main>>
  BY StageForward
<1>2. Absent({Ready} \cup Resumption) /\ Held /\ Told(s) /\ Sole(s) /\ Tells(s)
  BY UnderwayParts
<1>3. p \notin Greetings
  <2>1. p \in ToClients /\ p.type \notin {"start", "init"}
    BY <1>1, PacketKinds DEF Forwardable
  <2> QED
    BY <2>1, Packed
<1>4. Absent({Ready} \cup Resumption)'
  BY <1>2, ForwardLacks
<1>5. Held'
  <2>1. Lacks(inbox'[Third], Greetings)
    BY <1>2, <1>3, ForwardLacks DEF Held
  <2> QED
    BY <1>1, <1>2, <2>1 DEF Held
<1>6. /\ \A i \in 1 .. Len(events') : i + 1 \in 1 .. Len(events) /\ events'[i] = events[i + 1]
      /\ 1 \in 1 .. Len(events) /\ Head(events) = events[1]
  <2>1. /\ Len(events) \in Nat \ {0} /\ Len(Tail(events)) = Len(events) - 1
        /\ Head(events) = events[1]
        /\ \A i \in 1 .. Len(events) - 1 : Tail(events)[i] = events[i + 1]
    BY <1>1 DEF SessionInv, Typed, TransportTyped
  <2> QED
    BY <1>1, <2>1
<1>7. Sole(s)'
  <2>1. p = Done => d = s
    BY <1>1, <1>2, <1>6 DEF Sole
  <2>2. \A u \in Uids : u # Third => Lacks(inbox'[u], {Done})
    <3> SUFFICES ASSUME NEW u \in Uids, u # Third PROVE Lacks(inbox'[u], {Done})
      OBVIOUS
    <3>1. Lacks(inbox[u], {Done})
      BY <1>2 DEF Sole
    <3>2. p \notin {Done} \/ ~(u # d /\ u \in {s, Third})
      BY <2>1
    <3> QED
      BY <3>1, <3>2, ForwardLacks
  <2>3. \A i \in 1 .. Len(events') :
           events'[i].type = "receive" /\ events'[i].client # s => events'[i].msg # Done
    BY <1>2, <1>6 DEF Sole
  <2> QED
    BY <1>1, <1>2, <2>2, <2>3 DEF Sole
<1>8. Tells(s)'
  BY <1>1, <1>2, WayForward DEF Tells
<1>9. Told(s)'
  BY <1>1, <1>2 DEF Told
<1> QED
  BY <1>4, <1>5, <1>7, <1>8, <1>9, UnderwayParts DEF Underway, Sole, Tells

LEMMA UnderwayFlush ==
    ASSUME Typed, NEW s \in {0, 1}, Underway(s), s \in Uids, Third \in Uids, s # Third,
           NEW c \in {s, Third}, Flush(c)
    PROVE  Underway(s)'
<1> DEFINE e == Event("receive", c, Head(outbox[c]))
<1>1. Absent({Ready} \cup Resumption) /\ Held /\ Told(s) /\ Sole(s) /\ Tells(s)
  BY UnderwayParts
<1>2. /\ Absent({Ready} \cup Resumption)' /\ outbox[c] # <<>>
      /\ events' = Append(events, e) /\ outbox'[c] = Tail(outbox[c])
      /\ \A u \in Uids : u # c => outbox'[u] = outbox[u]
      /\ UNCHANGED <<comp, scene, main, inbox>>
  BY <1>1, AbsentFlush
<1>3. e.client = c /\ e.msg = Head(outbox[c])
  BY DEF Event
<1> HIDE DEF e
<1>4. /\ \A i \in 1 .. Len(events) : events'[i] = events[i]
      /\ events'[Len(events) + 1] = e
      /\ \A i \in 1 .. Len(events') : i \in 1 .. Len(events) \/ i = Len(events) + 1
  <2>1. /\ Len(events') = Len(events) + 1 /\ Len(events) \in Nat
        /\ \A i \in 1 .. Len(events) : events'[i] = events[i]
        /\ events'[Len(events) + 1] = e
    BY <1>2 DEF Typed, TransportTyped
  <2> QED
    BY <2>1
<1>5. c # s => Head(outbox[c]) # Done /\ Lacks(outbox'[c], {Done})
  <2>1. outbox[c] \in Seq(FromClients)
    BY ComponentsOf
  <2>2. c # s => Lacks(outbox[c], {Done})
    BY <1>1 DEF Sole
  <2> QED
    BY <1>2, <2>1, <2>2, LacksTail
<1>6. Sole(s)'
  <2>1. \A u \in Uids : u # Third => Lacks(inbox'[u], {Done}) /\ ~comp'[u].update_complete
    BY <1>1, <1>2 DEF Sole
  <2>2. \A u \in Uids : u # s => Lacks(outbox'[u], {Done})
    BY <1>1, <1>2, <1>5 DEF Sole
  <2>3. ASSUME NEW i \in 1 .. Len(events'), events'[i].client # s, events'[i].type = "receive"
        PROVE  events'[i].msg # Done
    BY <1>1, <1>3, <1>4, <1>5, <2>3 DEF Sole
  <2> QED
    BY <2>1, <2>2, <2>3 DEF Sole
<1>7. Tells(s)'
  BY <1>1, <1>2, WayFlush DEF Tells
<1>8. Held' /\ Told(s)'
  BY <1>1, <1>2 DEF Held, Told
<1> QED
  BY <1>2, <1>6, <1>7, <1>8 DEF Underway, Sole, Tells

LEMMA UnderwayConsume ==
    ASSUME Typed, NEW s \in {0, 1}, Underway(s), s \in Uids, Third \in Uids, s # Third,
           NEW c \in {s, Third}, Consume(c)
    PROVE  Underway(s)' /\ Head(inbox[c]) # Ready
<1> DEFINE p == Head(inbox[c])
           X == {Ready} \cup Resumption
<1>0. Absent(X) /\ Held /\ Told(s) /\ Sole(s) /\ Tells(s)
  BY UnderwayParts
<1>1. /\ Absent(X)' /\ p \notin X /\ p \in ToClients /\ inbox[c] # <<>>
      /\ inbox'[c] = Tail(inbox[c]) /\ comp'[c] = ProcessReceived(comp[c], p)
      /\ \A u \in Uids : u # c => inbox'[u] = inbox[u] /\ comp'[u] = comp[u]
      /\ UNCHANGED <<scene, main, outbox, events>>
  BY <1>0, AbsentConsume
<1>2. comp[c] \in Components /\ inbox[c] \in Seq(ToClients)
  BY ComponentsOf
<1>3. /\ comp'[c].update_complete <=> comp[c].update_complete \/ p = Done
      /\ comp'[c].ready_to_send <=> comp[c].ready_to_send \/ p = Ready
      /\ p \notin Greetings => comp'[c].user_ID = comp[c].user_ID
      /\ p \notin Greetings \cup Resumption /\ (comp[c].is_reconnecting \/ comp[c].is_lobby) =>
            comp'[c].is_reconnecting \/ comp'[c].is_lobby
      /\ \A part : Has(comp[c], part) => Has(comp'[c], part)
      /\ KindOf(p) \in Four => Has(comp'[c], KindOf(p))
  <2> HIDE DEF p
  <2> QED
    BY <1>1, <1>2, Processed
<1>4. \A Y : Lacks(inbox[c], Y) => Lacks(inbox'[c], Y) /\ p \notin Y
  BY <1>1, <1>2, LacksTail
<1>5. Told(s)'
  <2>1. comp'[s].ready_to_send => comp[s].ready_to_send
    BY <1>1, <1>3
  <2> QED
    BY <1>0, <1>1, <2>1 DEF Told
<1>6. CASE c = Third
  <2>1. Lacks(inbox'[Third], Greetings) /\ p \notin Greetings
    BY <1>0, <1>4, <1>6 DEF Held
  <2>2. Held'
    <3>1. comp'[Third].is_reconnecting \/ comp'[Third].is_lobby
      BY <1>0, <1>1, <1>3, <1>6, <2>1 DEF Held
    <3>2. comp'[Third].user_ID = -1 /\ scene'[Third].assigned_team = 0
      BY <1>0, <1>1, <1>3, <1>6, <2>1 DEF Held
    <3> QED
      BY <2>1, <3>1, <3>2 DEF Held
  <2>3. Sole(s)'
    BY <1>0, <1>1, <1>6 DEF Sole
  <2>4. Tells(s)'
    <3>1. Way(s) # <<>> /\ Head(Way(s)) = p /\ Way(s)' = Tail(Way(s)) /\ Way(s) \in Seq(Packets)
      BY <1>6, WayConsume, WayTyped
    <3> DEFINE q == Way(s)
               k == comp[Third]
               w == comp'[Third]
    <3>2. Telling(k, q) /\ (k.update_complete => Complete(k) /\ Lacks(q, {Done}))
      BY <1>0 DEF Tells
    <3> HIDE DEF p, q
    <3>3. /\ Telling(w, Tail(q))
          /\ p = Done => Complete(k) /\ Lacks(Tail(q), {Done})
      BY <1>3, <1>6, <3>1, <3>2, TellingStep DEF q
    <3>4. Complete(k) => Complete(w)
      BY <1>3, <1>6 DEF Complete
    <3>5. Lacks(q, {Done}) => Lacks(Tail(q), {Done})
      BY <3>1, LacksTail DEF q
    <3>6. w.update_complete => Complete(w) /\ Lacks(Tail(q), {Done})
      BY <1>3, <1>6, <3>2, <3>3, <3>4, <3>5
    <3> QED
      BY <3>1, <3>3, <3>6 DEF Tells, q
  <2> QED
    BY <1>1, <1>5, <2>2, <2>3, <2>4 DEF Underway, Sole, Tells
<1>7. CASE c = s
  <2>1. Held'
    BY <1>0, <1>1, <1>7 DEF Held
  <2>2. Lacks(inbox'[s], {Done}) /\ p # Done
    BY <1>0, <1>4, <1>7 DEF Sole
  <2>3. Sole(s)'
    BY <1>0, <1>1, <1>3, <1>7, <2>2 DEF Sole
  <2>4. Tells(s)'
    <3>1. Way(s)' = Way(s) /\ comp'[Third] = comp[Third]
      BY <1>1, <1>7, WayConsume
    <3> QED
      BY <1>0, <3>1 DEF Tells
  <2> QED
    BY <1>1, <1>5, <2>1, <2>3, <2>4 DEF Underway, Sole, Tells
<1> QED
  BY <1>1, <1>6, <1>7

LEMMA UnderwayTame ==
    ASSUME Typed, NEW s \in {0, 1}, Underway(s), s \in Uids, Third \in Uids, s # Third,
           NEW c \in {s, Third}, NEW new \in Seq(FromClients), Local(c, new), Tame(c),
           Lacks(new, Untold)
    PROVE  Underway(s)'
<1>0. Absent({Ready} \cup Resumption) /\ Held /\ Told(s) /\ Sole(s) /\ Tells(s)
  BY UnderwayParts
<1>1. Absent({Ready} \cup Resumption)'
  <2>1. Lacks(new, {Ready} \cup Resumption)
    BY DEF Lacks, Untold
  <2> QED
    BY <1>0, <2>1, AbsentLocal
<1>2. /\ inbox' = inbox /\ events' = events /\ outbox'[c] = outbox[c] \o new
      /\ \A u \in Uids : u # c => /\ comp'[u] = comp[u] /\ scene'[u] = scene[u]
                                  /\ main'[u] = main[u] /\ outbox'[u] = outbox[u]
  BY DEF Local, transportVars
<1>3. Lacks(new, {Done})
  BY DEF Lacks, Untold
<1>4. Held'
  <2>1. CASE c = Third
    BY <1>0, <1>2, <2>1 DEF Held, Tame
  <2>2. CASE c # Third
    BY <1>0, <1>2, <2>2 DEF Held
  <2> QED
    BY <2>1, <2>2
<1>5. Told(s)'
  <2>1. CASE c = s
    BY <1>0, <2>1 DEF Told, Tame
  <2>2. CASE c # s
    BY <1>0, <1>2, <2>2 DEF Told
  <2> QED
    BY <2>1, <2>2
<1>6. Sole(s)'
  <2>1. \A u \in Uids : comp'[u].update_complete = comp[u].update_complete
    BY <1>2 DEF Tame
  <2>2. c # s => Lacks(outbox'[c], {Done})
    <3>1. outbox[c] \in Seq(FromClients) /\ (c # s => Lacks(outbox[c], {Done}))
      BY <1>0, ComponentsOf DEF Sole
    <3> QED
      BY <1>2, <1>3, <3>1, LacksConcat
  <2> QED
    BY <1>0, <1>2, <2>1, <2>2 DEF Sole
<1>7. Tells(s)'
  <2> DEFINE q == Way(s)
             k == comp[Third]
             w == comp'[Third]
  <2>1. q \in Seq(Packets) /\ new \in Seq(Packets) /\ Way(s)' = IF c = s THEN q \o new ELSE q
    BY WayTyped, WayLocal
  <2>2. Telling(k, q) /\ (k.update_complete => Complete(k) /\ Lacks(q, {Done}))
    BY <1>0 DEF Tells
  <2>3. w.update_complete = k.update_complete /\ \A part : Has(k, part) => Has(w, part)
    <3>1. CASE c = Third
      <4>1. ~Playing(Third)
        BY <1>0 DEF Held, Playing
      <4> QED
        BY <3>1, <4>1 DEF Tame
    <3>2. CASE c # Third
      BY <1>2, <3>2
    <3> QED
      BY <3>1, <3>2
  <2> HIDE DEF q
  <2>4. Telling(k, Way(s)') /\ (Lacks(q, {Done}) => Lacks(Way(s)', {Done}))
    <3>1. CASE c = s
      <4>1. Telling(k, q \o new)
        BY <1>3, <2>1, <2>2, TellingMore
      <4>2. Lacks(q, {Done}) => Lacks(q \o new, {Done})
        BY <1>3, <2>1, LacksConcat
      <4> QED
        BY <2>1, <3>1, <4>1, <4>2
    <3>2. CASE c # s
      BY <2>1, <2>2, <3>2
    <3> QED
      BY <3>1, <3>2
  <2>5. Telling(w, Way(s)') /\ (Complete(k) => Complete(w))
    BY <2>3, <2>4, TellingKept
  <2> QED
    BY <2>2, <2>3, <2>4, <2>5 DEF Tells
<1> QED
  BY <1>1, <1>4, <1>5, <1>6, <1>7 DEF Underway, Sole, Tells

LEMMA UnderwayResumed ==
    ASSUME Typed, NEW s \in {0, 1}, Underway(s), s \in Uids, Third \in Uids, s # Third,
           NEW new \in Seq(FromClients), Local(Third, new), Resumed(Third, new)
    PROVE  Over(s)'
<1>0. Absent({Ready} \cup Resumption) /\ Told(s) /\ Sole(s) /\ Tells(s)
  BY UnderwayParts
<1>1. /\ comp[Third].update_complete /\ ~comp'[Third].update_complete
      /\ new = <<Packet("resume", 0)>>
      /\ \A u \in Uids : u # Third => comp'[u] = comp[u] /\ main'[u] = main[u]
  BY DEF Resumed, Local
<1>2. Lacks(Way(s), {Done})
  BY <1>0, <1>1 DEF Tells
<1>3. /\ Lacks(inbox[Third], {Done}) /\ Lacks(outbox[s], {Done})
      /\ \A i \in 1 .. Len(events) :
            events[i].type = "receive" /\ events[i].client # Third => events[i].msg \notin {Done}
  BY <1>2, WayLacks
<1>4. Absent({Done, Ready})
  <2>1. \A u \in Uids : Lacks(inbox[u], {Done})
    BY <1>0, <1>3 DEF Sole
  <2>2. \A u \in Uids : Lacks(outbox[u], {Done})
    BY <1>0, <1>3 DEF Sole
  <2>3. \A i \in 1 .. Len(events) : events[i].type = "receive" => events[i].msg # Done
    BY <1>0, <1>3 DEF Sole
  <2>4. Absent({Ready})
    BY <1>0, AbsentLess
  <2> QED
    BY <2>1, <2>2, <2>3, <2>4 DEF Absent, Unheard, Lacks
<1>5. Absent({Done, Ready})'
  <2>1. Packet("resume", 0) \notin {Done, Ready} /\ Packet("resume", 0) \in FromClients
    BY PacketKinds DEF Done, Ready, Packet
  <2>2. Lacks(new, {Done, Ready})
    BY <1>1, <2>1, LacksOne
  <2> QED
    BY <1>4, <2>2, AbsentLocal
<1>6. Calm' /\ Told(s)'
  BY <1>0, <1>1 DEF Calm, Sole, Told
<1> QED
  BY <1>5, <1>6 DEF Over

--------------------------------------------------------------------------------
(* When it is done, and all the way.                                          *)

LEMMA OverForward ==
    ASSUME SessionInv, NEW s \in {0, 1}, Joined(s), s \in Uids, Third \in Uids, s # Third,
           Over(s), ForwardData
    PROVE  Over(s)'
<1>1. UNCHANGED <<outbox, comp, scene, main>>
  BY StageForward
<1>2. Absent({Done, Ready})'
  BY ForwardLacks DEF Over
<1> QED
  BY <1>1, <1>2 DEF Over, Calm, Told

LEMMA OverResume ==
    ASSUME SessionInv, NEW s \in {0, 1}, Over(s), ResumeBoth
    PROVE  Over(s)'
<1>1. Resumption \cap {Done, Ready} = {}
  BY DEF Resumption, Done, Ready, Packet
<1>2. Absent({Done, Ready})' /\ UNCHANGED <<comp, main>>
  BY <1>1, StageResume DEF Over
<1> QED
  BY <1>2 DEF Over, Calm, Told

LEMMA OverFlush ==
    ASSUME Typed, NEW s \in {0, 1}, Over(s), NEW c \in Uids, Flush(c)
    PROVE  Over(s)'
<1>1. Absent({Done, Ready})' /\ UNCHANGED <<comp, main>>
  BY AbsentFlush DEF Over
<1> QED
  BY <1>1 DEF Over, Calm, Told

LEMMA OverConsume ==
    ASSUME Typed, NEW s \in {0, 1}, Over(s), s \in Uids, NEW c \in Uids, Consume(c)
    PROVE  Over(s)' /\ Head(inbox[c]) # Ready
<1> DEFINE p == Head(inbox[c])
<1>1. /\ Absent({Done, Ready})' /\ p \notin {Done, Ready} /\ p \in ToClients
      /\ comp'[c] = ProcessReceived(comp[c], p) /\ main' = main
      /\ \A u \in Uids : u # c => comp'[u] = comp[u]
  BY AbsentConsume DEF Over
<1>2. comp[c] \in Components
  BY ComponentsOf
<1> HIDE DEF p
<1>3. /\ comp'[c].update_complete <=> comp[c].update_complete
      /\ comp'[c].ready_to_send <=> comp[c].ready_to_send
  BY <1>1, <1>2, Processed
<1>4. Calm'
  BY <1>1, <1>3 DEF Over, Calm
<1>5. Told(s)'
  <2>1. CASE c = s
    BY <1>1, <1>3, <2>1 DEF Over, Told
  <2>2. CASE c # s
    BY <1>1, <2>2 DEF Over, Told
  <2> QED
    BY <2>1, <2>2
<1> QED
  BY <1>1, <1>4, <1>5 DEF Over, p

LEMMA OverTame ==
    ASSUME Typed, NEW s \in {0, 1}, Over(s), s \in Uids,
           NEW c \in Uids, NEW new \in Seq(FromClients), Local(c, new), Tame(c),
           Lacks(new, Untold)
    PROVE  Over(s)'
<1>1. Absent({Done, Ready})'
  <2>1. Lacks(new, {Done, Ready})
    BY DEF Lacks, Untold
  <2> QED
    BY <2>1, AbsentLocal DEF Over
<1>2. \A u \in Uids : u # c => comp'[u] = comp[u] /\ main'[u] = main[u]
  BY DEF Local
<1>3. Calm'
  BY <1>2 DEF Over, Calm, Tame
<1>4. Told(s)'
  <2>1. CASE c = s
    BY <2>1 DEF Over, Told, Tame
  <2>2. CASE c # s
    BY <1>2, <2>2 DEF Over, Told
  <2> QED
    BY <2>1, <2>2
<1> QED
  BY <1>1, <1>3, <1>4 DEF Over

(* What a client does by itself is to take a snapshot, to be resumed from one, *)
(* or neither.                                                                *)
LEMMA LocalKinds ==
    ASSUME Typed, NEW c \in Uids, MainThread(c) \/ Player(c)
    PROVE  c \in Up /\ \E new \in Seq(FromClients) :
              /\ Local(c, new)
              /\ \/ Tame(c) /\ Lacks(new, Untold)
                 \/ Snapped(c, new)
                 \/ Resumed(c, new)
<1>1. CASE MainThread(c)
  <2>1. Lacks(<<>>, Untold)
    BY DEF Lacks
  <2> QED
    BY <1>1, <2>1, MainLocal DEF MainThread
<1>2. CASE Player(c)
  BY <1>2, PlayerLocal DEF Untold
<1> QED
  BY <1>1, <1>2

LEMMA StageLocal ==
    ASSUME TwoPlayers, SessionInv, Census, NEW s \in {0, 1}, Stage(s), NEW c \in Uids,
           MainThread(c) \/ Player(c)
    PROVE  Stage(s)'
<1>1. /\ s \in Uids /\ Third \in Uids /\ s # Third /\ Up = {s, Third} /\ Typed
      /\ Joined(s) /\ (Waiting(s) \/ Underway(s) \/ Over(s))
  BY StagePeople DEF Stage
<1>2. PICK new \in Seq(FromClients) :
         /\ Local(c, new)
         /\ \/ Tame(c) /\ Lacks(new, Untold)
            \/ Snapped(c, new)
            \/ Resumed(c, new)
  BY <1>1, LocalKinds
<1>3. c \in {s, Third}
  BY <1>1, LocalKinds
<1>4. CASE Tame(c) /\ Lacks(new, Untold)
  <2>1. Joined(s)'
    BY <1>1, <1>2, <1>4, JoinedLocal
  <2>2. (Waiting(s) \/ Underway(s) \/ Over(s))'
    BY <1>1, <1>2, <1>3, <1>4, WaitingTame, UnderwayTame, OverTame
  <2> QED
    BY <2>1, <2>2 DEF Stage
<1>5. CASE Snapped(c, new)
  <2>1. c = s
    BY <1>1, <1>3, <1>5 DEF Joined, Snapped, Sending
  <2>2. Waiting(s)
    BY <1>1, <1>5, <2>1 DEF Underway, Over, Told, Snapped, Sending
  <2>3. Joined(s)'
    BY <1>1, <1>2, <2>1, JoinedLocal
  <2>4. Underway(s)'
    BY <1>1, <1>2, <1>5, <2>1, <2>2, WaitingSnapped
  <2> QED
    BY <2>3, <2>4 DEF Stage
<1>6. CASE Resumed(c, new)
  <2>1. c = Third /\ Underway(s)
    BY <1>1, <1>3, <1>6 DEF Waiting, Underway, Over, Calm, Resumed
  <2>2. Joined(s)'
    BY <1>1, <1>2, <1>6, JoinedLocal
  <2>3. Over(s)'
    BY <1>1, <1>2, <1>6, <2>1, UnderwayResumed
  <2> QED
    BY <2>2, <2>3 DEF Stage
<1> QED
  BY <1>2, <1>4, <1>5, <1>6

LEMMA StageConsumer ==
    ASSUME TwoPlayers, SessionInv, Census, NEW s \in {0, 1}, Stage(s), NEW c \in Uids,
           ConsumerThread(c)
    PROVE  Stage(s)'
<1>1. /\ s \in Uids /\ Third \in Uids /\ s # Third /\ Typed /\ c \in {s, Third}
      /\ Joined(s) /\ (Waiting(s) \/ Underway(s) \/ Over(s))
  BY StagePeople DEF Stage, ConsumerThread
<1>2. CASE Flush(c)
  <2>1. Joined(s)'
    BY <1>1, <1>2, JoinedFlush
  <2>2. (Waiting(s) \/ Underway(s) \/ Over(s))'
    BY <1>1, <1>2, WaitingFlush, UnderwayFlush, OverFlush
  <2> QED
    BY <2>1, <2>2 DEF Stage
<1>3. CASE Consume(c)
  <2>1. /\ (Waiting(s) \/ Underway(s) \/ Over(s))'
        /\ c = Third => Head(inbox[c]) # Ready
    BY <1>1, <1>3, WaitingConsume, UnderwayConsume, OverConsume
  <2>2. Joined(s)'
    BY <1>1, <1>3, <2>1, JoinedConsume
  <2> QED
    BY <2>1, <2>2 DEF Stage
<1> QED
  BY <1>2, <1>3 DEF ConsumerThread

LEMMA StageServed ==
    ASSUME TwoPlayers, SessionInv, Census, NEW s \in {0, 1}, Stage(s), ForwardData \/ ResumeBoth
    PROVE  Stage(s)'
<1>1. /\ s \in Uids /\ Third \in Uids /\ s # Third /\ Typed
      /\ Joined(s) /\ (Waiting(s) \/ Underway(s) \/ Over(s))
  BY StagePeople DEF Stage
<1>2. Joined(s)'
  <2>1. /\ events # <<>> /\ events' = Tail(events)
        /\ UNCHANGED <<nextUid, leaves, live, breaking, connected, comp, main>>
    BY DEF ForwardData, ResumeBoth, DispatchReceive, NextEventIs, clientVars, bounds
  <2> QED
    BY <1>1, <2>1, JoinedServed
<1>3. CASE ForwardData
  <2>1. (Waiting(s) \/ Underway(s) \/ Over(s))'
    BY <1>1, <1>3, WaitingForward, UnderwayForward, OverForward
  <2> QED
    BY <1>2, <2>1 DEF Stage
<1>4. CASE ResumeBoth
  <2>1. Packet("resume", 0) \in Resumption
    BY DEF Resumption
  <2>2. ~Absent({Done} \cup Resumption) /\ ~Absent({Ready} \cup Resumption)
    BY <1>4, <2>1, NotResumed
  <2>3. Over(s)
    BY <1>1, <2>2 DEF Waiting, Underway
  <2> QED
    BY <1>2, <1>4, <2>3, OverResume DEF Stage
<1> QED
  BY <1>3, <1>4

--------------------------------------------------------------------------------
(* The invariant of one departure.                                            *)

Attended == Early \/ \E s \in {0, 1} : Stage(s)
ReplacedInv == leaves \in Nat /\ (leaves <= 1 => Census /\ Attended)

LEMMA LeavesGrow ==
    ASSUME [Next]_vars, leaves \in Nat
    PROVE  leaves' \in Nat /\ leaves <= leaves'
<1>1. \/ leaves' = leaves
      \/ leaves' = leaves + 1
  BY Zenon DEF Next, vars, bounds, Server, OnClientConnect, ForwardData, ResumeBoth, ResumePastEnd,
         OnClientDisconnect, Detect, Launch, ConsumerThread, Flush, Consume, MainThread,
         BeginUpdate, AssignTeamLate, UpdateReconnectee, ResetReadyToSend,
         ResumeFromSnapshot, PlayFrame, IdleFrame, Player, Move, Attack, NextTurnPressed, Leave
<1> QED
  BY <1>1

LEMMA ReplacedInit == Init => ReplacedInv
<1> SUFFICES ASSUME Init PROVE ReplacedInv
  OBVIOUS
<1>1. /\ nextUid = 0 /\ live = {} /\ breaking = {} /\ leaves = 0 /\ gameActive = FALSE
      /\ events = <<>> /\ connected = <<>> /\ inbox = [u \in Uids |-> <<>>]
      /\ outbox = [u \in Uids |-> <<>>] /\ main = [u \in Uids |-> "top"]
      /\ comp = [u \in Uids |-> FreshComponent] /\ scene = [u \in Uids |-> FreshScene]
  BY DEF Init, TransportInit
<1>2. 1 .. Len(<<>>) = {} /\ 0 .. 0 - 1 = {}
  OBVIOUS
<1>3. \A i : ~Opens(i) /\ ~Closes(i)
  BY <1>1, <1>2 DEF Opens, Closes
<1>4. Census
  <2>1. Peopled
    BY <1>1, <1>2 DEF Peopled
  <2>2. \A c : ~InSeq(c, connected)
    <3>1. DOMAIN <<>> = {}
      OBVIOUS
    <3> QED
      BY <1>1, <3>1 DEF InSeq
  <2>3. InOrder /\ Departed /\ Played
    BY <1>1, <1>2, <1>3, <2>2 DEF InOrder, Departed, Played, Rising, Opening
  <2> QED
    BY <2>1, <2>3 DEF Census
<1>5. Early
  <2>1. Absent({Done, Ready} \cup Resumption)
    BY <1>1, <1>2 DEF Absent, Unheard, Lacks
  <2>2. /\ \A u \in Uids : comp[u] = FreshComponent /\ scene[u] = FreshScene /\ main[u] = "top"
        /\ \A u \in Uids : inbox[u] = <<>>
    BY <1>1
  <2>3. /\ FreshComponent.is_lobby /\ FreshComponent.user_ID = -1
        /\ ~FreshComponent.ready_to_send /\ ~FreshComponent.update_complete
        /\ FreshScene.assigned_team = 0
    BY DEF FreshComponent, FreshScene
  <2> QED
    BY <2>1, <2>2, <2>3 DEF Early, Newborn, Calm
<1> QED
  BY <1>1, <1>4, <1>5 DEF ReplacedInv, Attended

LEMMA CensusStep ==
    ASSUME TwoPlayers, SessionInv, Census, Next, leaves' <= 1
    PROVE  Census'
<1>0. Typed
  BY DEF SessionInv
<1>1. CASE OnClientConnect
  BY <1>1, CensusArrival
<1>2. CASE ForwardData \/ ResumeBoth
  BY <1>2, CensusRelay
<1>3. CASE ResumePastEnd
  BY <1>3, CensusPlain DEF ResumePastEnd, transportVars, bounds
<1>4. CASE OnClientDisconnect
  BY <1>4, CensusDeparture
<1>5. ASSUME NEW c \in live, Detect(c) PROVE Census'
  BY <1>5, CensusDetect
<1>6. CASE Launch
  BY <1>6, CensusLaunch
<1>7. ASSUME NEW c \in Uids, Flush(c) PROVE Census'
  <2> DEFINE e == Event("receive", c, Head(outbox[c]))
  <2>1. /\ events' = Append(events, e)
        /\ UNCHANGED <<nextUid, live, breaking, connected, leaves, gameActive>>
    BY <1>7 DEF Flush, Receive, serverVars, bounds
  <2>2. e.type = "receive"
    BY DEF Event
  <2> HIDE DEF e
  <2> QED
    BY <1>0, <2>1, <2>2, CensusArrived
<1>8. ASSUME NEW c \in Uids, Consume(c) PROVE Census'
  BY <1>8, CensusPlain DEF Consume, Take, serverVars, bounds
<1>9. ASSUME NEW c \in Uids, MainThread(c) \/ Player(c) PROVE Census'
  <2>1. UNCHANGED <<transportVars, gameActive, leaves>>
    BY <1>0, <1>9, LocalKinds DEF Local
  <2> QED
    BY <2>1, CensusPlain DEF transportVars
<1>10. ASSUME NEW c \in Uids, Leave(c) PROVE Census'
  BY <1>10, CensusLeave
<1> QED
  BY <1>1, <1>2, <1>3, <1>4, <1>5, <1>6, <1>7, <1>8, <1>9, <1>10
     DEF Next, Server, ConsumerThread

LEMMA EarlyStep ==
    ASSUME SessionInv, Census, Early, Next, leaves <= 1
    PROVE  Attended'
<1>1. CASE OnClientConnect
  <2>1. CASE gameActive
    <3>1. PICK s \in {0, 1} : (Joined(s) /\ Waiting(s))'
      BY <1>1, <2>1, ThirdArrives
    <3> QED
      BY <3>1 DEF Attended, Stage
  <2>2. CASE ~gameActive
    BY <1>1, <2>2, EarlyArrival DEF Attended
  <2> QED
    BY <2>1, <2>2
<1>2. CASE ForwardData
  BY <1>2, EarlyForward DEF Attended
<1>3. ~ResumeBoth /\ ~ResumePastEnd
  <2>1. Packet("resume", 0) \in Resumption
    BY DEF Resumption
  <2> QED
    BY <2>1, NotResumed DEF Early
<1>4. CASE OnClientDisconnect
  BY <1>4, EarlyDeparture DEF Attended
<1>5. ASSUME NEW c, Launch \/ (c \in live /\ Detect(c)) \/ (c \in Uids /\ Leave(c))
      PROVE  Attended'
  BY <1>5, EarlyOpen DEF Attended
<1>6. ASSUME NEW c \in Uids, ConsumerThread(c) PROVE Attended'
  BY <1>6, EarlyConsumer DEF Attended
<1>7. ASSUME NEW c \in Uids, MainThread(c) \/ Player(c) PROVE Attended'
  BY <1>7, EarlyLocal DEF Attended
<1> QED
  BY <1>1, <1>2, <1>3, <1>4, <1>5, <1>6, <1>7 DEF Next, Server

LEMMA StageStep ==
    ASSUME TwoPlayers, SessionInv, Census, NEW s \in {0, 1}, Stage(s), Next, leaves' <= 1
    PROVE  Stage(s)'
<1>1. /\ ~Launch /\ ~OnClientConnect /\ ~OnClientDisconnect /\ ~ResumePastEnd
      /\ \A c : ~Detect(c) /\ ~Leave(c)
  <2>1. /\ ~Launch /\ ~OnClientConnect /\ ~OnClientDisconnect /\ ~ResumePastEnd
        /\ \A c : ~Detect(c) /\ (Leave(c) => leaves' = 2)
    BY StagePeople DEF Stage
  <2>2. leaves' # 2
    OBVIOUS
  <2> QED
    BY <2>1, <2>2
<1>2. CASE ForwardData \/ ResumeBoth
  BY <1>2, StageServed
<1>3. ASSUME NEW c \in Uids, ConsumerThread(c) PROVE Stage(s)'
  BY <1>3, StageConsumer
<1>4. ASSUME NEW c \in Uids, MainThread(c) \/ Player(c) PROVE Stage(s)'
  BY <1>4, StageLocal
<1> QED
  BY <1>1, <1>2, <1>3, <1>4 DEF Next, Server

LEMMA ReplacedStays ==
    ASSUME ReplacedInv, UNCHANGED vars
    PROVE  ReplacedInv'
<1>1. UNCHANGED <<nextUid, live, breaking, events, connected, inbox, gameActive,
                  outbox, comp, scene, main, leaves>>
  BY DEF vars, transportVars, serverVars, clientVars, bounds
<1>2. \A i : (Opens(i)' <=> Opens(i)) /\ (Closes(i)' <=> Closes(i))
  BY <1>1 DEF Opens, Closes
<1>3. \A c : (Opening(c)' <=> Opening(c)) /\ (Closing(c)' <=> Closing(c))
  BY <1>1, <1>2 DEF Opening, Closing
<1>4. Census => Census'
  BY <1>1, <1>2, <1>3 DEF Census, Peopled, InOrder, Departed, Played
<1>5. \A X : Absent(X) => Absent(X)'
  BY <1>1 DEF Absent, Unheard
<1>6. Early => Early'
  BY <1>1, <1>3, <1>5 DEF Early, Newborn, Calm
<1>7. ASSUME NEW s \in {0, 1}, Stage(s) PROVE Stage(s)'
  <2>1. Joined(s)'
    BY <1>1, <1>2, <1>7 DEF Stage, Joined
  <2>2. Way(s)' = Way(s)
    BY <1>1 DEF Way, Heard
  <2>3. Held => Held'
    BY <1>1 DEF Held
  <2>4. Waiting(s) => Waiting(s)'
    BY <1>1, <1>5, <2>3 DEF Waiting, Calm
  <2>5. Underway(s) => Underway(s)'
    BY <1>1, <1>5, <2>2, <2>3 DEF Underway, Told
  <2>6. Over(s) => Over(s)'
    BY <1>1, <1>5 DEF Over, Told, Calm
  <2> QED
    BY <1>7, <2>1, <2>4, <2>5, <2>6 DEF Stage
<1> QED
  BY <1>1, <1>4, <1>6, <1>7 DEF ReplacedInv, Attended

LEMMA ReplacedHolds ==
    ASSUME TwoPlayers
    PROVE  Spec => []ReplacedInv
<1>1. SessionInv /\ ReplacedInv /\ [Next]_vars => ReplacedInv'
  <2> SUFFICES ASSUME SessionInv, ReplacedInv, [Next]_vars PROVE ReplacedInv'
    OBVIOUS
  <2>1. CASE UNCHANGED vars
    BY <2>1, ReplacedStays
  <2>2. CASE Next
    <3>1. leaves \in Nat /\ leaves' \in Nat /\ leaves <= leaves'
      BY LeavesGrow DEF ReplacedInv
    <3>2. ASSUME leaves' <= 1 PROVE Census' /\ Attended'
      <4>1. leaves <= 1
        BY <3>1, <3>2
      <4>2. Census /\ Attended
        BY <4>1 DEF ReplacedInv
      <4>3. Census'
        BY <2>2, <3>2, <4>2, CensusStep
      <4>4. Attended'
        <5>1. CASE Early
          BY <2>2, <4>1, <4>2, <5>1, EarlyStep
        <5>2. ASSUME NEW s \in {0, 1}, Stage(s) PROVE Attended'
          BY <2>2, <3>2, <4>2, <5>2, StageStep DEF Attended
        <5> QED
          BY <4>2, <5>1, <5>2 DEF Attended
      <4> QED
        BY <4>3, <4>4
    <3> QED
      BY <3>1, <3>2 DEF ReplacedInv
  <2> QED
    BY <2>1, <2>2
<1> QED
  BY <1>1, ReplacedInit, SessionHolds, PTL DEF Spec

(* A snapshot is whole.  As long as at most one client leaves, a replacement   *)
(* that has got update_complete has got its side, the turn and both armies     *)
(* before it: updateReconnectee sends them first, once, and they stay in order *)
(* through the outbox, the server and the inbox.                               *)
THEOREM SnapshotsWhole == TwoPlayers => (Spec => [](leaves <= 1 => SnapshotWhole))
<1> SUFFICES ASSUME TwoPlayers PROVE Spec => [](leaves <= 1 => SnapshotWhole)
  OBVIOUS
<1>1. SessionInv /\ ReplacedInv => (leaves <= 1 => SnapshotWhole)
  <2> SUFFICES ASSUME SessionInv, ReplacedInv, leaves <= 1, NEW c \in Up,
                      comp[c].update_complete
               PROVE  /\ comp[c].player_turn # -1
                      /\ comp[c].assigned_player # -1
                      /\ \A t \in Teams : \E i \in DOMAIN comp[c].unit_update_queue :
                            comp[c].unit_update_queue[i].name = RefName[t]
    BY DEF SnapshotWhole
  <2>1. Typed /\ Census /\ Attended /\ c \in Uids
    BY LiveIsUid DEF SessionInv, ReplacedInv, Typed, Up
  <2>2. Complete(comp[c])
    <3>1. ~Early
      BY <2>1 DEF Early, Calm
    <3>2. PICK s \in {0, 1} : Stage(s)
      BY <2>1, <3>1 DEF Attended
    <3> QED
      BY <2>1, <3>2 DEF Stage, Waiting, Underway, Over, Calm
  <2>3. comp[c].unit_update_queue \in Seq(UnitMsgs)
    BY <2>1, ComponentsOf
  <2>4. \A m \in UnitMsgs : m.name # "turn" /\ m.name # "player"
    BY DEF UnitMsgs
  <2>5. comp[c].player_turn # -1 /\ comp[c].assigned_player # -1
    <3>1. Has(comp[c], "turn") /\ Has(comp[c], "player")
      BY <2>2 DEF Complete, Four
    <3>2. \A i \in 1 .. Len(comp[c].unit_update_queue) :
             comp[c].unit_update_queue[i] \in UnitMsgs
      BY <2>3
    <3> QED
      BY <2>4, <3>1, <3>2 DEF Has
  <2>6. ASSUME NEW t \in Teams
        PROVE  \E i \in DOMAIN comp[c].unit_update_queue :
                  comp[c].unit_update_queue[i].name = RefName[t]
    <3>1. RefName[t] \in {"army1", "army2"}
      BY DEF Teams, RefName
    <3>2. Has(comp[c], RefName[t])
      BY <2>2, <3>1 DEF Complete, Four
    <3>3. \E i \in 1 .. Len(comp[c].unit_update_queue) :
             comp[c].unit_update_queue[i].name = RefName[t]
      BY <3>1, <3>2 DEF Has
    <3>4. DOMAIN comp[c].unit_update_queue = 1 .. Len(comp[c].unit_update_queue)
      BY <2>3
    <3> QED
      BY <3>3, <3>4
  <2> QED
    BY <2>5, <2>6
<1> QED
  BY <1>1, ReplacedHolds, SessionHolds, PTL

(* A client that stays is on the side that it has been told. *)
SideKept == \A c \in Up : c \in Up' /\ scene[c].assigned_team # 0 =>
               scene'[c].assigned_team = scene[c].assigned_team

LEMMA SideStays ==
    ASSUME SessionInv, ReplacedInv, leaves <= 1, [Next]_vars
    PROVE  SideKept
<1> SUFFICES ASSUME NEW c \in Up, c \in Up', scene[c].assigned_team # 0
             PROVE  scene'[c].assigned_team = scene[c].assigned_team
  BY DEF SideKept
<1>1. Typed /\ Attended /\ c \in Uids /\ scene \in [Uids -> Scenes]
  BY LiveIsUid DEF SessionInv, ReplacedInv, Typed, ClientsTyped, Up
<1>2. ASSUME NEW d \in Uids, MainThread(d) \/ Player(d)
      PROVE  scene'[c].assigned_team = scene[c].assigned_team
  <2>1. PICK new \in Seq(FromClients) :
           Local(d, new) /\ (Tame(d) \/ Snapped(d, new) \/ Resumed(d, new))
    BY <1>1, <1>2, LocalKinds
  <2>2. CASE d # c
    BY <1>1, <2>1, <2>2 DEF Local
  <2>3. CASE d = c /\ (Tame(d) \/ Snapped(d, new))
    BY <2>1, <2>3 DEF Tame, Snapped
  <2>4. CASE d = c /\ Resumed(d, new)
    <3>1. comp[c].update_complete
      BY <2>4 DEF Resumed
    <3>2. ~Early
      BY <1>1, <3>1 DEF Early, Calm
    <3>3. PICK s \in {0, 1} : Stage(s)
      BY <1>1, <3>2 DEF Attended
    <3>4. c = Third /\ Held
      BY <1>1, <3>1, <3>3 DEF Stage, Waiting, Underway, Over, Calm
    <3> QED
      BY <3>4 DEF Held
  <2> QED
    BY <2>1, <2>2, <2>3, <2>4
<1>3. ASSUME NEW d \in Uids, Leave(d) PROVE scene'[c].assigned_team = scene[c].assigned_team
  <2>1. d # c
    BY <1>3 DEF Leave, Break, Up
  <2> QED
    BY <1>1, <1>3, <2>1 DEF Leave
<1>4. CASE UNCHANGED scene
  BY <1>4
<1>5. \/ UNCHANGED scene
      \/ \E d \in Uids : MainThread(d) \/ Player(d) \/ Leave(d)
  BY DEF Next, vars, Server, OnClientConnect, ForwardData, ResumeBoth, ResumePastEnd,
         OnClientDisconnect, Detect, Launch, ConsumerThread, Flush, Consume, clientVars
<1> QED
  BY <1>2, <1>3, <1>4, <1>5

(* A client never changes sides, as long as at most one leaves: the one that   *)
(* is resumed from a snapshot has had none before.                             *)
THEOREM SidesStay == TwoPlayers /\ MaxLeaves \in 0 .. 1 => (Spec => TeamStable)
<1> SUFFICES ASSUME TwoPlayers, MaxLeaves \in 0 .. 1 PROVE Spec => TeamStable
  OBVIOUS
<1> DEFINE Few == leaves <= 1
<1>1. Init => Few
  BY DEF Init
<1>2. ReplacedInv /\ Few /\ [Next]_vars => Few'
  <2> SUFFICES ASSUME ReplacedInv, Few, [Next]_vars PROVE Few'
    OBVIOUS
  <2>1. leaves \in Nat
    BY DEF ReplacedInv
  <2>2. \/ leaves' = leaves
        \/ leaves < MaxLeaves /\ leaves' = leaves + 1
    BY Zenon DEF Next, vars, bounds, Server, OnClientConnect, ForwardData, ResumeBoth, ResumePastEnd,
           OnClientDisconnect, Detect, Launch, ConsumerThread, Flush, Consume, MainThread,
           BeginUpdate, AssignTeamLate, UpdateReconnectee, ResetReadyToSend,
           ResumeFromSnapshot, PlayFrame, IdleFrame, Player, Move, Attack, NextTurnPressed, Leave
  <2> QED
    BY <2>1, <2>2
<1>3. SessionInv /\ ReplacedInv /\ Few /\ [Next]_vars => [SideKept]_vars
  BY SideStays
<1> QED
  BY <1>1, <1>2, <1>3, ReplacedHolds, SessionHolds, PTL DEF Spec, TeamStable, SideKept

================================================================================
