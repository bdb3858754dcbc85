------------------------- MODULE GameSessionBoardProofs -------------------------
(***************************************************************************)
(* Two players who stay fight over one board: the board of the client that *)
(* has the turn, which the other catches up with when the packets of the   *)
(* turn arrive.  On top of GameSessionDuelProofs, which says who has it.   *)
(***************************************************************************)
EXTENDS GameSessionDuelProofs

(* What the handlers do to the armies of one client.                          *)

Speaks(q, name) == \E i \in 1 .. Len(q) : q[i].name = name
OnlySays(q, name, v) == \A i \in 1 .. Len(q) : q[i].name = name => q[i].value = v

(* An army whose packets all say the same is what they say. *)
LEMMA UpdateSquads ==
    ASSUME NEW s \in Scenes, NEW q \in Seq(UnitMsgs), NEW t \in Teams, NEW v,
           OnlySays(q, RefName[t], v)
    PROVE  UnitNetworkUpdate(s, q).squads[t] = IF Speaks(q, RefName[t]) THEN v ELSE s.squads[t]
<1>1. PICK f \in [0 .. Len(q) -> Scenes] :
              /\ f[0] = s
              /\ \A i \in 1 .. Len(q) : f[i] = ApplyUnit(f[i - 1], q[i])
              /\ UnitNetworkUpdate(s, q) = f[Len(q)]
  BY UnitNetworkUpdateSteps
<1> DEFINE n == Len(q)
           name == RefName[t]
           said(i) == \E j \in 1 .. i : q[j].name = name
           K == {i \in 0 .. n : f[i].squads[t] = IF said(i) THEN v ELSE s.squads[t]}
<1>2. n \in Nat
  OBVIOUS
<1>3. \A r \in Scenes : \A m :
         /\ m.name = name => ApplyUnit(r, m).squads[t] = m.value
         /\ m.name # name => ApplyUnit(r, m).squads[t] = r.squads[t]
  BY DEF ApplyUnit, Scenes, RefName, Teams
<1>4. \A i \in 1 .. n : q[i].name = name => q[i].value = v
  BY DEF OnlySays
<1> HIDE DEF name
<1>5. ~said(0) /\ \A i \in 1 .. n : said(i) <=> said(i - 1) \/ q[i].name = name
  <2>1. \A i \in 1 .. n : 1 .. i = 1 .. (i - 1) \cup {i}
    BY <1>2
  <2> QED
    BY <2>1
<1> HIDE DEF said
<1>6. 0 \in K
  BY <1>1, <1>2, <1>5
<1>7. \A i \in 1 .. n : i - 1 \in K => i \in K
  <2> SUFFICES ASSUME NEW i \in 1 .. n, i - 1 \in K PROVE i \in K
    OBVIOUS
  <2>1. f[i] = ApplyUnit(f[i - 1], q[i]) /\ f[i - 1] \in Scenes
    BY <1>1, <1>2
  <2>2. /\ q[i].name = name => f[i].squads[t] = q[i].value
        /\ q[i].name # name => f[i].squads[t] = f[i - 1].squads[t]
    BY <1>3, <2>1
  <2>3. f[i - 1].squads[t] = IF said(i - 1) THEN v ELSE s.squads[t]
    OBVIOUS
  <2> QED
    BY <1>2, <1>4, <1>5, <2>2, <2>3
<1> HIDE DEF K, n
<1>8. n \in K
  <2>1. 0 .. n \subseteq K
    BY <1>2, <1>6, <1>7, StepInduction
  <2> QED
    BY <1>2, <2>1
<1> QED
  BY <1>1, <1>8 DEF K, n, name, said, Speaks

(* A game whose packets all name one winner is won by it. *)
LEMMA UpdateWins ==
    ASSUME NEW s \in Scenes, NEW q \in Seq(UnitMsgs), NEW v,
           OnlySays(q, "endgame", v)
    PROVE  LET r == UnitNetworkUpdate(s, q)
               said == Speaks(q, "endgame")
           IN  /\ r.winning_player = IF said THEN v ELSE s.winning_player
               /\ r.game_finished <=> said \/ s.game_finished
<1>1. PICK f \in [0 .. Len(q) -> Scenes] :
              /\ f[0] = s
              /\ \A i \in 1 .. Len(q) : f[i] = ApplyUnit(f[i - 1], q[i])
              /\ UnitNetworkUpdate(s, q) = f[Len(q)]
  BY UnitNetworkUpdateSteps
<1> DEFINE n == Len(q)
           said(i) == \E j \in 1 .. i : q[j].name = "endgame"
           K == {i \in 0 .. n :
                    /\ f[i].winning_player = IF said(i) THEN v ELSE s.winning_player
                    /\ f[i].game_finished <=> said(i) \/ s.game_finished}
<1>2. n \in Nat
  OBVIOUS
<1>3. \A r \in Scenes : \A m :
         /\ m.name = "endgame" => /\ ApplyUnit(r, m).winning_player = m.value
                                  /\ ApplyUnit(r, m).game_finished
         /\ m.name # "endgame" => /\ ApplyUnit(r, m).winning_player = r.winning_player
                                  /\ ApplyUnit(r, m).game_finished = r.game_finished
  BY DEF ApplyUnit, Scenes
<1>4. \A i \in 1 .. n : q[i].name = "endgame" => q[i].value = v
  BY DEF OnlySays
<1>5. ~said(0) /\ \A i \in 1 .. n : said(i) <=> said(i - 1) \/ q[i].name = "endgame"
  <2>1. \A i \in 1 .. n : 1 .. i = 1 .. (i - 1) \cup {i}
    BY <1>2
  <2> QED
    BY <2>1
<1> HIDE DEF said
<1>6. 0 \in K
  BY <1>1, <1>2, <1>5
<1>7. \A i \in 1 .. n : i - 1 \in K => i \in K
  <2> SUFFICES ASSUME NEW i \in 1 .. n, i - 1 \in K PROVE i \in K
    OBVIOUS
  <2>1. f[i] = ApplyUnit(f[i - 1], q[i]) /\ f[i - 1] \in Scenes
    BY <1>1, <1>2
  <2>2. /\ f[i - 1].winning_player = IF said(i - 1) THEN v ELSE s.winning_player
        /\ f[i - 1].game_finished <=> said(i - 1) \/ s.game_finished
    OBVIOUS
  <2> QED
    BY <1>2, <1>3, <1>4, <1>5, <2>1, <2>2
<1> HIDE DEF K, n
<1>8. n \in K
  <2>1. 0 .. n \subseteq K
    BY <1>2, <1>6, <1>7, StepInduction
  <2> QED
    BY <1>2, <2>1
<1> QED
  BY <1>1, <1>8 DEF K, n, said, Speaks

--------------------------------------------------------------------------------
(* The boards of two clients: s is the scene of the one that acts, r the scene  *)
(* of the other, f what is on its way from the one to the other.               *)

(* The dead are gone, and so is the army of the loser. *)
Sound(s) ==
    /\ \A t \in s.dead : s.squads[t] = 0
    /\ s.game_finished => s.winning_player \in Teams /\ s.squads[Other(s.winning_player)] = 0
    /\ ~s.game_finished => s.winning_player = 0

(* The last squad of both cannot be lost, and no board regains any. *)
Leads(s, r) ==
    /\ \E t \in Teams : s.squads[t] > 0
    /\ \A t \in Teams : s.squads[t] <= r.squads[t]

(* On its turn a client notes the armies that the other has to hear of. *)
Acts(s, r) ==
    /\ Leads(s, r)
    /\ r.changed = {}
    /\ \A t \in Teams : t \in s.changed \/ s.squads[t] = r.squads[t]

(* The packets of a turn tell the armies of s, those in which r differs        *)
(* included, and a victory after them.                                         *)
Tells(f, s, r) ==
    /\ \A i \in 1 .. Len(f) : \A t \in Teams : f[i].name = RefName[t] => f[i].value = s.squads[t]
    /\ \A t \in Teams : \/ s.squads[t] = r.squads[t]
                        \/ \E i \in 1 .. Len(f) : f[i].name = RefName[t]
    /\ \A i \in 1 .. Len(f) : f[i].name = "endgame" =>
          i = Len(f) - 1 /\ s.game_finished /\ f[i].value = s.winning_player

Follows(f, s, r) == Leads(s, r) /\ s.changed = {} /\ r.changed = {} /\ Tells(f, s, r)

(* The end of a turn. *)
Concludes(s, s1, s2, won) ==
    /\ s1 = IF Depleted(s) THEN Finish(s) ELSE s
    /\ s2 = [s1 EXCEPT !.changed = {}, !.player_turn = Other(s1.player_turn)]
    /\ won <=> Depleted(s)

LEMMA EndsBoard ==
    ASSUME NEW s \in Scenes, NEW r \in Scenes, NEW s1 \in Scenes, NEW s2,
           NEW won \in BOOLEAN, Concludes(s, s1, s2, won),
           s.assigned_team \in Teams, Acts(s, r), Sound(s)
    PROVE  /\ Follows(Ended(s1, won), s2, r)
           /\ Sound(s2)
           /\ s2.squads = s.squads
           /\ \/ s2.winning_player = s.winning_player
              \/ s2.winning_player = s.assigned_team /\ s.squads[Other(s.assigned_team)] = 0
<1> DEFINE f == Ended(s1, won)
<1>1. /\ s1.squads = s.squads /\ s1.changed = s.changed /\ s1.dead = s.dead
      /\ s1.winning_player = IF Depleted(s) THEN s.assigned_team ELSE s.winning_player
      /\ s1.game_finished <=> Depleted(s) \/ s.game_finished
      /\ won <=> Depleted(s)
  BY DEF Concludes, Finish, Scenes
<1>2. /\ s2.squads = s.squads /\ s2.changed = {} /\ s2.dead = s.dead
      /\ s2.winning_player = s1.winning_player /\ s2.game_finished = s1.game_finished
  BY <1>1 DEF Concludes, Scenes
<1>3. Depleted(s) => s.squads[Other(s.assigned_team)] = 0
  BY DEF Depleted, Sound
<1>4. /\ Len(f) \in Nat /\ Len(f) >= 1 /\ f[Len(f)] = EndMsg
      /\ \A i \in 1 .. Len(f) - 1 : \/ \E t \in s1.changed : f[i] = SquadMsg(s1, t)
                                    \/ won /\ f[i] = WonMsg(s1) /\ i = Len(f) - 1
      /\ \A t \in s1.changed : \E i \in 1 .. Len(f) - 1 : f[i] = SquadMsg(s1, t)
  BY EndedShape
<1>5. /\ EndMsg.name = "endturn" /\ WonMsg(s1).name = "endgame"
      /\ WonMsg(s1).value = Victor(s1)
      /\ \A t \in Teams : /\ SquadMsg(s1, t).name = RefName[t]
                          /\ SquadMsg(s1, t).value = s.squads[t]
  BY <1>1 DEF EndMsg, WonMsg, SquadMsg
<1>6. /\ \A t \in Teams : RefName[t] # "endturn" /\ RefName[t] # "endgame"
      /\ \A t, u \in Teams : RefName[t] = RefName[u] => t = u
  BY DEF RefName, Teams
<1>7. won => Victor(s1) = s1.winning_player /\ s1.game_finished
  BY <1>1 DEF Victor, Teams
<1>8. s1.changed \subseteq Teams
  BY DEF Scenes
<1>9. Sound(s2)
  BY <1>1, <1>2, <1>3 DEF Sound
<1> HIDE DEF f
<1>10. \A i \in 1 .. Len(f) : i = Len(f) \/ i \in 1 .. Len(f) - 1
  BY <1>4
<1>11. \A i \in 1 .. Len(f) - 1 : i \in 1 .. Len(f)
  BY <1>4
<1>12. Tells(f, s2, r)
  <2>1. ASSUME NEW i \in 1 .. Len(f), NEW t \in Teams, f[i].name = RefName[t]
        PROVE  f[i].value = s2.squads[t]
    BY <1>2, <1>4, <1>5, <1>6, <1>8, <1>10, <2>1
  <2>2. ASSUME NEW t \in Teams, s2.squads[t] # r.squads[t]
        PROVE  \E i \in 1 .. Len(f) : f[i].name = RefName[t]
    <3>1. t \in s1.changed
      BY <1>1, <1>2, <2>2 DEF Acts
    <3> QED
      BY <1>4, <1>5, <1>11, <3>1
  <2>3. ASSUME NEW i \in 1 .. Len(f), f[i].name = "endgame"
        PROVE  i = Len(f) - 1 /\ s2.game_finished /\ f[i].value = s2.winning_player
    <3>1. i \in 1 .. Len(f) - 1
      BY <1>4, <1>5, <1>10, <2>3
    <3>2. \A t \in s1.changed : f[i] # SquadMsg(s1, t)
      BY <1>5, <1>6, <1>8, <2>3
    <3>3. won /\ f[i] = WonMsg(s1) /\ i = Len(f) - 1
      BY <1>4, <3>1, <3>2
    <3> QED
      BY <1>2, <1>5, <1>7, <3>3
  <2> QED
    BY <2>1, <2>2, <2>3 DEF Tells
<1>13. Leads(s2, r) /\ r.changed = {}
  BY <1>2 DEF Acts, Leads
<1>14. Follows(f, s2, r)
  BY <1>2, <1>12, <1>13 DEF Follows
<1>15. \/ s2.winning_player = s.winning_player
       \/ s2.winning_player = s.assigned_team /\ s.squads[Other(s.assigned_team)] = 0
  BY <1>1, <1>2, <1>3
<1> QED
  BY <1>2, <1>9, <1>14, <1>15 DEF f

(* The two parts of a sequence. *)
LEMMA TwoParts ==
    ASSUME NEW S, NEW q \in Seq(S), NEW rest \in Seq(S)
    PROVE  LET f == q \o rest
           IN  /\ Len(q) \in Nat /\ Len(rest) \in Nat /\ Len(f) = Len(q) + Len(rest)
               /\ \A i \in 1 .. Len(q) : i \in 1 .. Len(f) /\ f[i] = q[i]
               /\ \A i \in 1 .. Len(rest) : Len(q) + i \in 1 .. Len(f) /\ f[Len(q) + i] = rest[i]
               /\ \A i \in 1 .. Len(f) : \/ i \in 1 .. Len(q)
                                         \/ i - Len(q) \in 1 .. Len(rest) /\ f[i] = rest[i - Len(q)]
<1> DEFINE f == q \o rest
<1>1. /\ Len(f) = Len(q) + Len(rest) /\ Len(q) \in Nat /\ Len(rest) \in Nat
      /\ \A i \in 1 .. Len(q) + Len(rest) :
            f[i] = IF i <= Len(q) THEN q[i] ELSE rest[i - Len(q)]
  BY ConcatProperties
<1> HIDE DEF f
<1>2. \A i \in 1 .. Len(q) : i \in 1 .. Len(q) + Len(rest) /\ i <= Len(q)
  BY <1>1
<1>3. \A i \in 1 .. Len(rest) : /\ Len(q) + i \in 1 .. Len(q) + Len(rest)
                                /\ ~(Len(q) + i <= Len(q))
                                /\ (Len(q) + i) - Len(q) = i
  BY <1>1
<1>4. \A i \in 1 .. Len(q) + Len(rest) : \/ i \in 1 .. Len(q)
                                         \/ i - Len(q) \in 1 .. Len(rest) /\ ~(i <= Len(q))
  BY <1>1
<1> QED
  BY <1>1, <1>2, <1>3, <1>4 DEF f

(* A part of the packets of a turn is applied, in the order in which they were  *)
(* sent: a victory is shown by a client that has all the armies.               *)
LEMMA BoardApplied ==
    ASSUME NEW s \in Scenes, NEW r \in Scenes, NEW q \in Seq(UnitMsgs), NEW rest \in Seq(UnitMsgs),
           EndsLast(q \o rest), Follows(q \o rest, s, r), Sound(s), Sound(r)
    PROVE  LET u == UnitNetworkUpdate(r, q)
           IN  /\ Sound(u)
               /\ rest # <<>> => Follows(rest, s, u)
               /\ rest = <<>> => Acts(u, s) /\ u.squads = s.squads
               /\ \/ u.winning_player = r.winning_player
                  \/ s.game_finished /\ u.winning_player = s.winning_player
<1> DEFINE u == UnitNetworkUpdate(r, q)
           f == q \o rest
           said(t) == Speaks(q, RefName[t])
           wins == Speaks(q, "endgame")
<1>1. /\ Len(q) \in Nat /\ Len(rest) \in Nat /\ Len(f) = Len(q) + Len(rest)
      /\ \A i \in 1 .. Len(q) : i \in 1 .. Len(f) /\ f[i] = q[i]
      /\ \A i \in 1 .. Len(rest) : Len(q) + i \in 1 .. Len(f) /\ f[Len(q) + i] = rest[i]
      /\ \A i \in 1 .. Len(f) : \/ i \in 1 .. Len(q)
                                \/ i - Len(q) \in 1 .. Len(rest) /\ f[i] = rest[i - Len(q)]
  BY TwoParts
<1>2. /\ rest = <<>> <=> Len(rest) = 0
  BY EmptySeq, <1>1
<1>3. /\ \A i \in 1 .. Len(f) : \A t \in Teams : f[i].name = RefName[t] => f[i].value = s.squads[t]
      /\ \A t \in Teams : s.squads[t] = r.squads[t] \/ \E i \in 1 .. Len(f) : f[i].name = RefName[t]
      /\ \A i \in 1 .. Len(f) : f[i].name = "endgame" =>
            i = Len(f) - 1 /\ s.game_finished /\ f[i].value = s.winning_player
      /\ \A i \in 1 .. Len(f) : f[i].name = "endturn" <=> i = Len(f)
      /\ s.changed = {} /\ r.changed = {}
      /\ \A t \in Teams : s.squads[t] <= r.squads[t]
  BY DEF Follows, Tells, Leads, EndsLast
<1>4. u \in Scenes /\ u.changed = {} /\ u.dead = r.dead
  BY <1>3, UpdateKeeps
<1>5. s.squads \in [Teams -> 0 .. Army] /\ r.squads \in [Teams -> 0 .. Army]
      /\ u.squads \in [Teams -> 0 .. Army] /\ Army \in Nat /\ r.dead \subseteq Teams
  BY <1>4, SessionAssumption DEF Scenes
<1> HIDE DEF f
<1>6. ASSUME NEW t \in Teams
      PROVE  u.squads[t] = IF said(t) THEN s.squads[t] ELSE r.squads[t]
  <2>1. OnlySays(q, RefName[t], s.squads[t])
    BY <1>1, <1>3 DEF OnlySays
  <2> QED
    BY <2>1, UpdateSquads
<1>7. /\ u.winning_player = IF wins THEN s.winning_player ELSE r.winning_player
      /\ u.game_finished <=> wins \/ r.game_finished
  <2>1. OnlySays(q, "endgame", s.winning_player)
    BY <1>1, <1>3 DEF OnlySays
  <2> QED
    BY <2>1, UpdateWins
<1>8. wins => s.game_finished
  BY <1>1, <1>3 DEF Speaks
(* Behind the victory there is only the end of the turn. *)
<1>9. ASSUME wins, NEW t \in Teams PROVE u.squads[t] = s.squads[t]
  <2>1. Len(f) - 1 <= Len(q)
    <3>1. PICK i \in 1 .. Len(q) : q[i].name = "endgame"
      BY <1>9 DEF Speaks
    <3>2. i = Len(f) - 1
      BY <1>1, <1>3, <3>1
    <3> QED
      BY <1>1, <3>2
  <2>2. RefName[t] # "endturn"
    BY DEF RefName, Teams
  <2>3. ASSUME NEW i \in 1 .. Len(f), f[i].name = RefName[t] PROVE i \in 1 .. Len(q)
    BY <1>1, <1>3, <2>1, <2>2, <2>3
  <2>4. s.squads[t] = r.squads[t] \/ said(t)
    BY <1>1, <1>3, <2>3 DEF Speaks
  <2> QED
    BY <1>6, <2>4
<1> HIDE DEF u, wins, said
<1>10. \A t \in Teams : s.squads[t] <= u.squads[t] /\ u.squads[t] <= r.squads[t]
  BY <1>3, <1>5, <1>6
<1>11. Sound(u)
  <2>1. \A t \in u.dead : u.squads[t] = 0
    <3>1. ASSUME NEW t \in u.dead PROVE u.squads[t] = 0
      <4>1. t \in Teams /\ r.squads[t] = 0
        BY <1>4, <1>5, <3>1 DEF Sound
      <4> QED
        BY <1>5, <1>10, <4>1
    <3> QED
      BY <3>1
  <2>2. CASE wins
    <3>1. u.winning_player = s.winning_player /\ u.game_finished /\ s.game_finished
      BY <1>7, <1>8, <2>2
    <3>2. s.winning_player \in Teams /\ s.squads[Other(s.winning_player)] = 0
      BY <3>1 DEF Sound
    <3>3. Other(s.winning_player) \in Teams
      BY <3>2 DEF Other, Teams
    <3> QED
      BY <1>9, <2>1, <2>2, <3>1, <3>2, <3>3 DEF Sound
  <2>3. CASE ~wins
    <3>1. u.winning_player = r.winning_player /\ (u.game_finished <=> r.game_finished)
      BY <1>7, <2>3
    <3>2. \A t \in Teams : r.squads[t] = 0 => u.squads[t] = 0
      BY <1>5, <1>10
    <3>3. \A t \in Teams : Other(t) \in Teams
      BY DEF Other, Teams
    <3> QED
      BY <2>1, <3>1, <3>2, <3>3 DEF Sound
  <2> QED
    BY <2>2, <2>3
<1>12. Leads(s, u)
  BY <1>10 DEF Follows, Leads
<1>13. ASSUME rest # <<>> PROVE Follows(rest, s, u)
  <2>1. ASSUME NEW i \in 1 .. Len(rest), NEW t \in Teams, rest[i].name = RefName[t]
        PROVE  rest[i].value = s.squads[t]
    <3>1. Len(q) + i \in 1 .. Len(f) /\ f[Len(q) + i] = rest[i]
      BY <1>1
    <3> QED
      BY <1>3, <2>1, <3>1
  <2>2. ASSUME NEW t \in Teams, s.squads[t] # u.squads[t]
        PROVE  \E i \in 1 .. Len(rest) : rest[i].name = RefName[t]
    <3>1. ~said(t) /\ s.squads[t] # r.squads[t]
      BY <1>6, <2>2
    <3>2. PICK i \in 1 .. Len(f) : f[i].name = RefName[t]
      BY <1>3, <3>1
    <3>3. i \notin 1 .. Len(q)
      BY <1>1, <3>1, <3>2 DEF said, Speaks
    <3> QED
      BY <1>1, <3>2, <3>3
  <2>3. ASSUME NEW i \in 1 .. Len(rest), rest[i].name = "endgame"
        PROVE  i = Len(rest) - 1 /\ s.game_finished /\ rest[i].value = s.winning_player
    <3>1. Len(q) + i = Len(f) - 1 /\ s.game_finished /\ rest[i].value = s.winning_player
      BY <1>1, <1>3, <2>3
    <3> QED
      BY <1>1, <3>1
  <2>4. Tells(rest, s, u)
    BY <2>1, <2>2, <2>3 DEF Tells
  <2> QED
    BY <1>3, <1>4, <1>12, <2>4 DEF Follows
<1>14. ASSUME rest = <<>> PROVE Acts(u, s) /\ u.squads = s.squads
  <2>1. \A i \in 1 .. Len(f) : i \in 1 .. Len(q)
    BY <1>1, <1>2, <1>14
  <2>2. ASSUME NEW t \in Teams PROVE u.squads[t] = s.squads[t]
    <3>1. s.squads[t] = r.squads[t] \/ said(t)
      BY <1>1, <1>3, <2>1 DEF said, Speaks
    <3> QED
      BY <1>6, <3>1
  <2>3. u.squads = s.squads
    BY <1>5, <2>2
  <2>4. Leads(u, s)
    BY <1>5, <2>2 DEF Follows, Leads
  <2> QED
    BY <1>3, <2>2, <2>3, <2>4 DEF Acts
<1>15. \/ u.winning_player = r.winning_player
       \/ s.game_finished /\ u.winning_player = s.winning_player
  BY <1>7, <1>8
<1> QED
  BY <1>11, <1>13, <1>14, <1>15 DEF u

--------------------------------------------------------------------------------
(* The boards of the two clients, and how the steps change them.              *)

HasBoard(a) ==
    /\ HasTurn(a)
    /\ turns % 2 = a
    /\ scene[a].changed = {} \/ scene[a].assigned_team = a + 1
    /\ Acts(scene[a], scene[Mate(a)])

PassesBoard(a) ==
    /\ PassesTurn(a)
    /\ turns % 2 = Mate(a)
    /\ Follows(Flow(Mate(a)), scene[a], scene[Mate(a)])

Boarded ==
    /\ \E a \in Clients : HasBoard(a) \/ PassesBoard(a)
    /\ \A c \in Clients : Sound(scene[c])
    /\ turns \in Nat

(* The flow tells who passes the turn, and a scene who has it. *)
LEMMA WhoseTurn ==
    ASSUME TwoPlayers, Turned', NEW a \in Clients
    PROVE  /\ Flow(Mate(a))' # <<>> => PassesTurn(a)'
           /\ /\ Flow(a)' = <<>> /\ Flow(Mate(a))' = <<>>
              /\ scene'[a].player_turn = a + 1 \/ scene'[Mate(a)].player_turn = a + 1
              => HasTurn(a)'
<1>1. \E b \in Clients : (HasTurn(b) \/ PassesTurn(b))'
  BY DEF Turned
<1>2. \A b \in Clients : b = a \/ (b = Mate(a) /\ Mate(b) = a)
  BY ClientFacts
<1>3. (HasTurn(a) \/ PassesTurn(a))' \/ (HasTurn(Mate(a)) \/ PassesTurn(Mate(a)))'
  BY <1>1, <1>2, Zenon
<1>4. Mate(Mate(a)) = a /\ a + 1 # Mate(a) + 1
  BY ClientFacts DEF Clients, Mate
<1> QED
  BY <1>3, <1>4 DEF HasTurn, PassesTurn, EndsLast

(* A scene on which no army, no turn and no winner has changed. *)
Unmoved(s, r) ==
    /\ r.player_turn = s.player_turn
    /\ s.assigned_team # 0 => r.assigned_team = s.assigned_team
    /\ r.squads = s.squads /\ r.changed = s.changed
    /\ r.game_finished = s.game_finished /\ r.winning_player = s.winning_player
    /\ \A t \in r.dead : t \in s.dead \/ s.squads[t] = 0

LEMMA BoardRests ==
    ASSUME TwoPlayers, Boarded, Turned', turns' = turns,
           \A d \in Clients : Flow(d)' = Flow(d) /\ Unmoved(scene[d], scene'[d])
    PROVE  /\ Boarded'
           /\ \A a \in Clients : /\ HasBoard(a) => HasBoard(a)'
                                 /\ PassesBoard(a) => PassesBoard(a)'
<1>1. ASSUME NEW a \in Clients, HasBoard(a) PROVE HasBoard(a)'
  <2>1. /\ HasTurn(a) /\ turns' % 2 = a
        /\ scene[a].changed = {} \/ scene[a].assigned_team = a + 1
        /\ Acts(scene[a], scene[Mate(a)])
    BY <1>1 DEF HasBoard
  <2>2. /\ Unmoved(scene[a], scene'[a]) /\ Unmoved(scene[Mate(a)], scene'[Mate(a)])
        /\ Flow(a)' = Flow(a) /\ Flow(Mate(a))' = Flow(Mate(a)) /\ a + 1 # 0
    BY ClientFacts DEF Clients
  <2>3. HasTurn(a)'
    BY <2>1, <2>2, WhoseTurn DEF HasTurn, Unmoved
  <2>4. scene'[a].changed = {} \/ scene'[a].assigned_team = a + 1
    BY <2>1, <2>2 DEF Unmoved
  <2>5. Acts(scene'[a], scene'[Mate(a)])
    BY <2>1, <2>2 DEF Unmoved, Acts, Leads
  <2>6. Acts(scene[a], scene[Mate(a)])'
    BY <2>5 DEF Acts, Leads
  <2> QED
    BY <2>1, <2>3, <2>4, <2>6 DEF HasBoard
<1>2. ASSUME NEW a \in Clients, PassesBoard(a) PROVE PassesBoard(a)'
  <2>1. /\ PassesTurn(a) /\ turns' % 2 = Mate(a)
        /\ Follows(Flow(Mate(a)), scene[a], scene[Mate(a)])
    BY <1>2 DEF PassesBoard
  <2>2. /\ Unmoved(scene[a], scene'[a]) /\ Unmoved(scene[Mate(a)], scene'[Mate(a)])
        /\ Flow(Mate(a))' = Flow(Mate(a))
    BY ClientFacts
  <2>3. PassesTurn(a)'
    BY <2>1, <2>2, WhoseTurn DEF PassesTurn, EndsLast, Unmoved
  <2>4. Follows(Flow(Mate(a))', scene'[a], scene'[Mate(a)])
    BY <2>1, <2>2 DEF Unmoved, Follows, Leads, Tells
  <2>5. Follows(Flow(Mate(a)), scene[a], scene[Mate(a)])'
    BY <2>4 DEF Follows, Leads, Tells
  <2> QED
    BY <2>1, <2>3, <2>5 DEF PassesBoard
<1>3. ASSUME NEW c \in Clients PROVE Sound(scene'[c])
  BY DEF Boarded, Unmoved, Sound
<1>4. \A c \in Clients : Sound(scene[c])'
  BY <1>3 DEF Sound
<1> QED
  BY <1>1, <1>2, <1>4 DEF Boarded

(* Whoever has the board has the turn. *)
LEMMA BoardTurns ==
    ASSUME Boarded
    PROVE  Turned
  BY DEF Boarded, HasBoard, PassesBoard, Turned

(* Only a client that has the turn plays. *)
LEMMA PlayerActs ==
    ASSUME TwoPlayers, Typed, Meeting, Boarded, NEW c \in Uids, Player(c)
    PROVE  /\ c \in Clients /\ HasBoard(c)
           /\ scene[c].assigned_team = c + 1 /\ scene[c].player_turn = c + 1
<1>1. c \in Clients /\ scene[c].player_turn = c + 1 /\ scene[c].assigned_team = c + 1
  BY BoardTurns, Clicked
<1>2. PICK a \in Clients : HasBoard(a) \/ PassesBoard(a)
  BY DEF Boarded
<1>3. a + 1 # Mate(a) + 1 /\ (a = c \/ Mate(a) = c)
  BY <1>1, <1>2 DEF Clients, Mate
<1> QED
  BY <1>1, <1>2, <1>3 DEF HasBoard, PassesBoard, HasTurn, PassesTurn

(* Only the army of the opponent shrinks, and it is noted as changed. *)
LEMMA BoardHit ==
    ASSUME TwoPlayers, Typed, Meeting, Turned, NEW c \in Uids, Move(c) \/ Attack(c)
    PROVE  /\ scene[c].squads[c + 1] > 0
           /\ scene'[c].squads[Mate(c) + 1] \in 0 .. scene[c].squads[Mate(c) + 1]
           /\ scene'[c].squads =
                 [scene[c].squads EXCEPT ![Mate(c) + 1] = scene'[c].squads[Mate(c) + 1]]
           /\ \/ Mate(c) + 1 \in scene'[c].changed
              \/ scene'[c].squads[Mate(c) + 1] = scene[c].squads[Mate(c) + 1]
           /\ scene[c].changed \subseteq scene'[c].changed
<1> DEFINE own == c + 1
           target == Mate(c) + 1
<1>1. c \in Clients /\ scene[c].assigned_team = own
  <2>1. Player(c)
    BY DEF Player
  <2> QED
    BY <2>1, Clicked
<1>2. own \in Teams /\ target \in Teams /\ Other(own) = target
  BY <1>1, ClientFacts
<1>3. scene \in [Uids -> Scenes] /\ scene[c] \in Scenes
  BY DEF Typed, ClientsTyped
<1>4. scene[c].squads \in [Teams -> 0 .. Army] /\ scene[c].changed \subseteq Teams /\ Army \in Nat
  BY <1>3, SessionAssumption DEF Scenes
<1>5. scene[c].squads[own] > 0
  BY <1>1 DEF Move, Attack, HasUnit
<1> HIDE DEF own, target
<1>6. CASE Move(c)
  <2>1. scene' = [scene EXCEPT ![c].changed = @ \cup {own}]
    BY <1>1, <1>6 DEF Move
  <2>2. scene'[c].squads = scene[c].squads /\ scene[c].changed \subseteq scene'[c].changed
    BY <1>3, <2>1 DEF Scenes
  <2>3. scene[c].squads[target] \in 0 .. scene[c].squads[target]
    BY <1>2, <1>4
  <2>4. scene[c].squads = [scene[c].squads EXCEPT ![target] = scene[c].squads[target]]
    BY <1>2, <1>4
  <2> QED
    BY <1>5, <2>2, <2>3, <2>4 DEF own, target
<1>7. CASE Attack(c)
  <2>1. PICK left \in 0 .. scene[c].squads[target] :
           scene' = [scene EXCEPT ![c].squads[target] = left,
                                  ![c].changed = @ \cup {target}]
    BY <1>1, <1>2, <1>7 DEF Attack
  <2>2. /\ scene'[c].squads = [scene[c].squads EXCEPT ![target] = left]
        /\ scene'[c].changed = scene[c].changed \cup {target}
    BY <1>3, <2>1 DEF Scenes
  <2>3. scene'[c].squads[target] = left
    BY <1>2, <1>4, <2>2
  <2> QED
    BY <1>5, <2>2, <2>3 DEF own, target
<1> QED
  BY <1>6, <1>7

LEMMA BoardPlay ==
    ASSUME TwoPlayers, Typed, Meeting, Boarded, Turned', NEW c \in Uids, Move(c) \/ Attack(c)
    PROVE  Boarded' /\ HasBoard(c)'
<1> DEFINE d == Mate(c)
           s == scene[c]
           r == scene'[c]
<1>1. Player(c)
  BY DEF Player
<1>2. /\ c \in Clients /\ HasBoard(c) /\ s.assigned_team = c + 1 /\ s.player_turn = c + 1
  BY <1>1, PlayerActs
<1>3. /\ d \in Clients /\ d # c /\ d \in Uids /\ Other(c + 1) = d + 1 /\ d + 1 \in Teams
      /\ c + 1 \in Teams /\ \A e \in Clients : e = c \/ e = d
  BY <1>2, ClientFacts
<1>4. /\ s.squads[c + 1] > 0
      /\ r.squads[d + 1] \in 0 .. s.squads[d + 1]
      /\ r.squads = [s.squads EXCEPT ![d + 1] = r.squads[d + 1]]
      /\ d + 1 \in r.changed \/ r.squads[d + 1] = s.squads[d + 1]
      /\ s.changed \subseteq r.changed
  BY BoardHit, BoardTurns
<1>5. /\ scene'[d] = scene[d]
      /\ r.assigned_team = s.assigned_team /\ r.player_turn = s.player_turn
      /\ r.dead = s.dead /\ r.game_finished = s.game_finished
      /\ r.winning_player = s.winning_player
      /\ UNCHANGED <<transportVars, serverVars, outbox, comp, main, bounds>>
  BY <1>3, BoardPlayed
<1>6. s \in Scenes /\ scene[d] \in Scenes /\ s.squads \in [Teams -> 0 .. Army] /\ Army \in Nat
      /\ scene[d].squads \in [Teams -> 0 .. Army] /\ s.dead \subseteq Teams
  BY <1>2, <1>3, SessionAssumption DEF Typed, ClientsTyped, Scenes
<1>7. /\ turns % 2 = c /\ scene[d].player_turn = c + 1 /\ Acts(s, scene[d])
  BY <1>2 DEF HasBoard, HasTurn
<1> HIDE DEF s, r
<1>8. \A t \in Teams : r.squads[t] \in 0 .. s.squads[t] /\ (t = d + 1 \/ r.squads[t] = s.squads[t])
  BY <1>3, <1>4, <1>6
<1>9. r.squads[c + 1] > 0
  BY <1>3, <1>4, <1>6 DEF d, Clients, Mate
<1>10. Acts(r, scene[d])
  <2>1. Leads(r, scene[d])
    <3>1. \A t \in Teams : s.squads[t] <= scene[d].squads[t]
      BY <1>7 DEF Acts, Leads
    <3>2. \A t \in Teams : r.squads[t] <= scene[d].squads[t]
      BY <1>6, <1>8, <3>1
    <3> QED
      BY <1>3, <1>9, <3>2 DEF Leads
  <2>2. \A t \in Teams : t \in s.changed \/ s.squads[t] = scene[d].squads[t]
    BY <1>7 DEF Acts
  <2>3. \A t \in Teams : t \in r.changed \/ r.squads[t] = scene[d].squads[t]
    BY <1>4, <1>8, <2>2
  <2> QED
    BY <1>7, <2>1, <2>3 DEF Acts
<1>11. Sound(r)
  <2>1. Sound(s)
    BY <1>2 DEF Boarded, s
  <2>2. \A t \in Teams : s.squads[t] = 0 => r.squads[t] = 0
    BY <1>8
  <2>3. \A t \in Teams : Other(t) \in Teams
    BY DEF Other, Teams
  <2> QED
    BY <1>5, <1>6, <2>1, <2>2, <2>3 DEF Sound
<1>12. HasTurn(c)'
  <2>1. \A e \in Clients : Flow(e)' = Flow(e)
    BY <1>5, FlowSame DEF transportVars
  <2> QED
    BY <1>2, <1>3, <1>5, <2>1, WhoseTurn DEF HasBoard, HasTurn, s, r
<1>13. Acts(scene[c], scene[d])'
  BY <1>5, <1>10 DEF Acts, Leads, r
<1>14. turns' = turns
  BY <1>5 DEF bounds
<1>15. HasBoard(c)'
  BY <1>2, <1>5, <1>7, <1>12, <1>13, <1>14 DEF HasBoard, s, r
<1>16. \A e \in Clients : Sound(scene'[e])
  BY <1>3, <1>5, <1>11 DEF Boarded, r
<1>17. \A e \in Clients : Sound(scene[e])'
  BY <1>16 DEF Sound
<1> QED
  BY <1>2, <1>14, <1>15, <1>17 DEF Boarded

(* The end of a turn passes the board, and may show a winner. *)
LEMMA BoardEnd ==
    ASSUME TwoPlayers, TRUE \notin EndgameFallthrough, Typed, Meeting, Boarded, Turned',
           NEW c \in Uids, NextTurnPressed(c)
    PROVE  /\ Boarded' /\ PassesBoard(c)'
           /\ scene'[c].squads = scene[c].squads
           /\ scene'[Mate(c)] = scene[Mate(c)]
           /\ \/ scene'[c].winning_player = scene[c].winning_player
              \/ scene[c].squads[Mate(c) + 1] = 0 /\ scene'[c].winning_player = c + 1
<1> DEFINE d == Mate(c)
           r == scene'[c]
<1>1. Player(c)
  BY DEF Player
<1>2. /\ c \in Clients /\ HasBoard(c) /\ scene[c].assigned_team = c + 1
      /\ scene[c].player_turn = c + 1
  BY <1>1, PlayerActs
<1>3. /\ d \in Clients /\ d # c /\ d \in Uids /\ Other(c + 1) = d + 1 /\ d + 1 \in Teams
      /\ c + 1 \in Teams /\ \A e \in Clients : e = c \/ e = d
  BY <1>2, ClientFacts
<1>4. PICK s \in Scenes, won \in BOOLEAN : EndsWith(c, s, won)
  BY TurnEnded
<1>5. /\ s = IF Depleted(scene[c]) THEN Finish(scene[c]) ELSE scene[c]
      /\ won <=> Depleted(scene[c])
      /\ scene' = [scene EXCEPT ![c] = [s EXCEPT !.changed = {}, !.player_turn = Other(s.player_turn)]]
      /\ s.player_turn = c + 1 /\ turns' = turns + 1
  BY <1>2, <1>4 DEF EndsWith
<1>6. scene \in [Uids -> Scenes] /\ scene[c] \in Scenes /\ scene[d] \in Scenes
  BY <1>3 DEF Typed, ClientsTyped
<1>7. /\ r = [s EXCEPT !.changed = {}, !.player_turn = Other(s.player_turn)]
      /\ scene'[d] = scene[d] /\ r.player_turn = d + 1
  BY <1>2, <1>3, <1>5, <1>6 DEF Scenes
<1>8. /\ turns % 2 = c /\ turns \in Nat /\ scene[d].player_turn = c + 1
      /\ Flow(d) = <<>> /\ Acts(scene[c], scene[d])
      /\ Sound(scene[c]) /\ Sound(scene[d])
  BY <1>2, <1>3 DEF HasBoard, HasTurn, Boarded
<1>9. scene[c].assigned_team \in Teams /\ Concludes(scene[c], s, r, won)
  BY <1>2, <1>3, <1>5, <1>7 DEF Concludes
<1> HIDE DEF r
<1>10. /\ Follows(Ended(s, won), r, scene[d])
      /\ Sound(r) /\ r.squads = scene[c].squads
      /\ \/ r.winning_player = scene[c].winning_player
         \/ /\ r.winning_player = scene[c].assigned_team
            /\ scene[c].squads[Other(scene[c].assigned_team)] = 0
  BY <1>6, <1>8, <1>9, EndsBoard
<1>11. Flow(d)' = Ended(s, won)
  <2>1. Flow(d)' = Flow(d) \o Ended(s, won)
    BY <1>2, <1>4, FlowEnded
  <2>2. <<>> \o Ended(s, won) = Ended(s, won)
    BY EndedShape, ConcatEmptySeq
  <2> QED
    BY <1>8, <2>1, <2>2
<1>12. Ended(s, won) # <<>>
  BY EndedLast DEF EndsLast
<1>13. PassesTurn(c)'
  BY <1>2, <1>11, <1>12, WhoseTurn
<1>14. Follows(Flow(d), scene[c], scene[d])'
  <2>1. Follows(Flow(d)', scene'[c], scene'[d])
    BY <1>7, <1>10, <1>11 DEF r
  <2> QED
    BY <2>1 DEF Follows, Leads, Tells
<1>15. turns' % 2 = d /\ turns' \in Nat
  BY <1>2, <1>5, <1>8 DEF Clients, Mate
<1>16. PassesBoard(c)'
  BY <1>13, <1>14, <1>15 DEF PassesBoard
<1>17. \A e \in Clients : Sound(scene'[e])
  BY <1>3, <1>7, <1>8, <1>10 DEF r
<1>18. \A e \in Clients : Sound(scene[e])'
  BY <1>17 DEF Sound
<1>19. Boarded'
  BY <1>2, <1>15, <1>16, <1>18 DEF Boarded
<1>20. \/ scene'[c].winning_player = scene[c].winning_player
       \/ scene[c].squads[d + 1] = 0 /\ scene'[c].winning_player = c + 1
  BY <1>2, <1>3, <1>10 DEF r
<1> QED
  BY <1>7, <1>10, <1>16, <1>19, <1>20 DEF r

LEMMA UpdateNothing ==
    ASSUME NEW s \in Scenes
    PROVE  UnitNetworkUpdate(s, <<>>) = s
<1>1. <<>> \in Seq(UnitMsgs) /\ Len(<<>>) = 0
  OBVIOUS
<1>2. PICK f \in [0 .. Len(<<>>) -> Scenes] :
              f[0] = s /\ UnitNetworkUpdate(s, <<>>) = f[Len(<<>>)]
  BY <1>1, UnitNetworkUpdateSteps
<1> QED
  BY <1>1, <1>2

(* A frame leaves the boards as they are, or applies a part of the packets of   *)
(* the turn, or all of them.                                                   *)
LEMMA BoardFrame ==
    ASSUME TwoPlayers, Typed, Meeting, Boarded, Turned', NEW c \in Clients, PlayFrame(c)
    PROVE  /\ Boarded'
           /\ \/ /\ \A e \in Clients : Unmoved(scene[e], scene'[e])
                 /\ \A a \in Clients : /\ HasBoard(a) => HasBoard(a)'
                                       /\ PassesBoard(a) => PassesBoard(a)'
              \/ /\ PassesBoard(Mate(c)) /\ scene'[Mate(c)] = scene[Mate(c)]
                 /\ \/ PassesBoard(Mate(c))'
                    \/ HasBoard(c)' /\ scene'[c].squads = scene[Mate(c)].squads
                 /\ \/ scene'[c].winning_player = scene[c].winning_player
                    \/ /\ scene[Mate(c)].winning_player # 0
                       /\ scene'[c].winning_player = scene[Mate(c)].winning_player
<1> DEFINE a == Mate(c)
           s == UnitsUpdate(AssignTeam(c))
           q == comp[c].unit_update_queue
           r == UnitNetworkUpdate(s, q)
<1>0. Plain(c)
  BY DEF Meeting
<1>1. /\ s \in Scenes /\ q \in Seq(UnitMsgs)
      /\ s.assigned_team \in {0, c + 1, 2}
      /\ scene[c].assigned_team # 0 => s.assigned_team = scene[c].assigned_team
      /\ s.player_turn = scene[c].player_turn
      /\ s.squads = scene[c].squads
      /\ s.dead = scene[c].dead \cup {t \in Teams : scene[c].squads[t] = 0}
      /\ s.changed = scene[c].changed
      /\ s.game_finished = scene[c].game_finished
      /\ s.winning_player = scene[c].winning_player
      /\ Listening(s) <=> s.assigned_team = Mate(scene[c].player_turn - 1) + 1
      /\ scene'[c] = IF Listening(s) THEN r ELSE s
      /\ \A u \in Clients : u # c => scene'[u] = scene[u]
  BY <1>0, Framed
<1>2. PICK rest \in Seq(UnitMsgs) : /\ Flow(c) = q \o rest
                                    /\ Flow(c)' = IF Listening(s) THEN rest ELSE Flow(c)
                                    /\ Flow(a)' = Flow(a)
  BY <1>0, FlowPlayed
<1>3. /\ a \in Clients /\ a # c /\ Mate(a) = c /\ c + 1 # 0
      /\ Other(c + 1) = a + 1 /\ Other(a + 1) = c + 1
      /\ \A d \in Clients : d = c \/ d = a
  BY ClientFacts DEF Clients
<1>4. turns' = turns /\ scene[c].player_turn \in {1, 2}
  BY ClientFacts DEF PlayFrame, bounds, Typed, ClientsTyped, Scenes, Teams
<1>5. q = <<>> => r = s
  BY <1>1, UpdateNothing
<1>6. Unmoved(scene[c], s)
  BY <1>1 DEF Unmoved
<1>7. Unmoved(scene[a], scene'[a])
  BY <1>1, <1>3 DEF Unmoved
<1> HIDE DEF s, q, r
<1>8. ASSUME ~Listening(s) \/ (q = <<>> /\ rest = <<>>)
      PROVE  /\ Boarded'
             /\ \A e \in Clients : Unmoved(scene[e], scene'[e])
             /\ \A b \in Clients : /\ HasBoard(b) => HasBoard(b)'
                                   /\ PassesBoard(b) => PassesBoard(b)'
  <2>1. scene'[c] = s
    BY <1>1, <1>5, <1>8
  <2>2. Flow(c)' = Flow(c)
    <3>1. <<>> \o <<>> = <<>>
      BY ConcatEmptySeq
    <3> QED
      BY <1>2, <1>8, <3>1
  <2>3. \A e \in Clients : Flow(e)' = Flow(e) /\ Unmoved(scene[e], scene'[e])
    BY <1>2, <1>3, <1>6, <1>7, <2>1, <2>2
  <2> QED
    BY <1>4, <2>3, BoardRests
<1>9. Flow(c) = <<>> => q = <<>> /\ rest = <<>>
  <2>1. Len(q \o rest) = Len(q) + Len(rest) /\ Len(q) \in Nat /\ Len(rest) \in Nat
    BY <1>1, ConcatProperties
  <2>2. Flow(c) = <<>> => Len(q) = 0 /\ Len(rest) = 0
    BY <1>2, <2>1
  <2> QED
    BY <1>1, <2>2
<1>10. ASSUME Listening(s), Flow(c) # <<>>
       PROVE  /\ Boarded' /\ PassesBoard(a)
              /\ \/ PassesBoard(a)'
                 \/ HasBoard(c)' /\ scene'[c].squads = scene[a].squads
              /\ \/ scene'[c].winning_player = scene[c].winning_player
                 \/ /\ scene[a].winning_player # 0
                    /\ scene'[c].winning_player = scene[a].winning_player
  <2>1. PassesBoard(a)
    <3>1. PICK b \in Clients : HasBoard(b) \/ PassesBoard(b)
      BY DEF Boarded
    <3> QED
      BY <1>3, <1>10, <3>1 DEF HasBoard, PassesBoard, HasTurn, PassesTurn
  <2>2. /\ scene[a].player_turn = c + 1 /\ scene[c].player_turn = a + 1
        /\ EndsLast(q \o rest) /\ Follows(q \o rest, scene[a], scene[c])
        /\ turns % 2 = c /\ Sound(scene[a]) /\ Sound(scene[c]) /\ turns \in Nat
    BY <1>2, <1>3, <2>1 DEF PassesBoard, PassesTurn, Boarded
  <2>3. scene[a] \in Scenes /\ scene'[c] = r
    BY <1>1, <1>3, <1>10, ClientFacts DEF Typed, ClientsTyped
  <2>4. Follows(q \o rest, scene[a], s) /\ Sound(s)
    BY <1>6, <2>2 DEF Follows, Leads, Tells, Sound, Unmoved
  <2>5. /\ Sound(r)
        /\ rest # <<>> => Follows(rest, scene[a], r)
        /\ rest = <<>> => Acts(r, scene[a]) /\ r.squads = scene[a].squads
        /\ \/ r.winning_player = s.winning_player
           \/ scene[a].game_finished /\ r.winning_player = scene[a].winning_player
    BY <1>1, <2>2, <2>3, <2>4, BoardApplied DEF r
  <2>6. scene'[a] = scene[a] /\ Flow(c)' = rest
    BY <1>1, <1>2, <1>3, <1>10
  <2>7. Boarded' <=> \E b \in Clients : (HasBoard(b) \/ PassesBoard(b))'
    <3>1. \A e \in Clients : Sound(scene'[e])
      BY <1>3, <2>2, <2>3, <2>5, <2>6
    <3>2. \A e \in Clients : Sound(scene[e])'
      BY <3>1 DEF Sound
    <3> QED
      BY <1>4, <2>2, <3>2 DEF Boarded
  <2>8. \/ scene'[c].winning_player = scene[c].winning_player
        \/ /\ scene[a].winning_player # 0
           /\ scene'[c].winning_player = scene[a].winning_player
    BY <1>1, <2>2, <2>3, <2>5 DEF Sound, Teams
  <2>9. CASE rest = <<>>
    <3>1. Flow(a)' = <<>>
      BY <1>2, <2>1 DEF PassesBoard, PassesTurn
    <3>2. HasTurn(c)'
      BY <2>2, <2>6, <2>9, <3>1, WhoseTurn
    <3>3. scene'[c].changed = {}
      BY <1>1, <2>2, <2>3, UpdateKeeps DEF Follows, r
    <3>4. Acts(scene[c], scene[a])'
      <4>1. Acts(scene'[c], scene'[a])
        BY <2>3, <2>5, <2>6, <2>9
      <4> QED
        BY <4>1 DEF Acts, Leads
    <3>5. HasBoard(c)'
      BY <1>4, <2>2, <3>2, <3>3, <3>4 DEF HasBoard
    <3> QED
      BY <2>1, <2>3, <2>5, <2>7, <2>8, <2>9, <3>5
  <2>10. CASE rest # <<>>
    <3>1. PassesTurn(a)'
      BY <1>3, <2>6, <2>10, WhoseTurn
    <3>2. Follows(Flow(c), scene[a], scene[c])'
      <4>1. Follows(Flow(c)', scene'[a], scene'[c])
        BY <2>3, <2>5, <2>6, <2>10
      <4> QED
        BY <4>1 DEF Follows, Leads, Tells
    <3>3. PassesBoard(a)'
      BY <1>3, <1>4, <2>2, <3>1, <3>2 DEF PassesBoard
    <3> QED
      BY <1>3, <2>1, <2>7, <2>8, <3>3
  <2> QED
    BY <2>9, <2>10
<1> QED
  BY <1>1, <1>3, <1>8, <1>9, <1>10

(* What a step means for the two: nothing but a message on its way, a hit, the  *)
(* end of a turn, or the arrival of its last packet.                          *)

NoNewWinner ==
    \E e \in Clients :
        /\ scene'[e].winning_player = scene[e].winning_player
        /\ \A d \in Clients :
              \/ scene'[d].winning_player = scene[d].winning_player
              \/ /\ scene[e].winning_player # 0
                 /\ scene'[d].winning_player = scene[e].winning_player

Rests(a) ==
    /\ (HasBoard(a) /\ HasBoard(a)') \/ (PassesBoard(a) /\ PassesBoard(a)')
    /\ scene'[a].squads = scene[a].squads
    /\ NoNewWinner

Hits(a) ==
    /\ HasBoard(a) /\ HasBoard(a)'
    /\ scene[a].squads[a + 1] > 0
    /\ scene'[a].squads[Mate(a) + 1] \in 0 .. scene[a].squads[Mate(a) + 1]
    /\ scene'[a].squads = [scene[a].squads EXCEPT ![Mate(a) + 1] = scene'[a].squads[Mate(a) + 1]]
    /\ NoNewWinner

Passes(a) ==
    /\ HasBoard(a) /\ PassesBoard(a)'
    /\ scene'[a].squads = scene[a].squads
    /\ \/ NoNewWinner
       \/ scene[a].squads[Mate(a) + 1] = 0 /\ scene'[a].winning_player = a + 1

Arrives(a) ==
    /\ PassesBoard(a) /\ HasBoard(Mate(a))'
    /\ scene'[Mate(a)].squads = scene[a].squads
    /\ NoNewWinner

Story == \E a \in Clients : Rests(a) \/ Hits(a) \/ Passes(a) \/ Arrives(a)

LEMMA StoryRests ==
    ASSUME TwoPlayers, Boarded, Turned', turns' = turns,
           \A d \in Clients : Flow(d)' = Flow(d) /\ Unmoved(scene[d], scene'[d])
    PROVE  Boarded' /\ Story
<1>1. /\ Boarded'
      /\ \A a \in Clients : /\ HasBoard(a) => HasBoard(a)'
                            /\ PassesBoard(a) => PassesBoard(a)'
  BY BoardRests
<1>2. PICK a \in Clients : HasBoard(a) \/ PassesBoard(a)
  BY DEF Boarded
<1>3. \A d \in Clients : /\ scene'[d].squads = scene[d].squads
                         /\ scene'[d].winning_player = scene[d].winning_player
  BY DEF Unmoved
<1>4. Rests(a)
  BY <1>1, <1>2, <1>3 DEF Rests, NoNewWinner
<1> QED
  BY <1>1, <1>4 DEF Story

LEMMA StoryPlayer ==
    ASSUME TwoPlayers, TRUE \notin EndgameFallthrough, Typed, Meeting, Boarded, Turned',
           NEW c \in Uids, Player(c)
    PROVE  Boarded' /\ Story
<1>1. c \in Clients /\ HasBoard(c) /\ Mate(c) \in Clients
      /\ \A d \in Clients : d \in Uids /\ (d = c \/ d = Mate(c))
  BY PlayerActs, ClientFacts
<1>2. CASE Move(c) \/ Attack(c)
  <2>1. Boarded' /\ HasBoard(c)'
    BY <1>2, BoardPlay
  <2>2. /\ scene[c].squads[c + 1] > 0
        /\ scene'[c].squads[Mate(c) + 1] \in 0 .. scene[c].squads[Mate(c) + 1]
        /\ scene'[c].squads =
              [scene[c].squads EXCEPT ![Mate(c) + 1] = scene'[c].squads[Mate(c) + 1]]
    BY <1>2, BoardHit, BoardTurns
  <2>3. \A d \in Clients : scene'[d].winning_player = scene[d].winning_player
    BY <1>1, <1>2, BoardPlayed
  <2>4. Hits(c)
    BY <1>1, <2>1, <2>2, <2>3 DEF Hits, NoNewWinner
  <2> QED
    BY <1>1, <2>1, <2>4 DEF Story
<1>3. CASE NextTurnPressed(c)
  <2>1. /\ Boarded' /\ PassesBoard(c)'
        /\ scene'[c].squads = scene[c].squads
        /\ scene'[Mate(c)] = scene[Mate(c)]
        /\ \/ scene'[c].winning_player = scene[c].winning_player
           \/ scene[c].squads[Mate(c) + 1] = 0 /\ scene'[c].winning_player = c + 1
    BY <1>3, BoardEnd
  <2>2. Passes(c)
    BY <1>1, <2>1 DEF Passes, NoNewWinner
  <2> QED
    BY <1>1, <2>1, <2>2 DEF Story
<1> QED
  BY <1>2, <1>3 DEF Player

LEMMA StoryMain ==
    ASSUME TwoPlayers, Typed, Meeting, Boarded, Turned', NEW c \in Uids, MainThread(c)
    PROVE  Boarded' /\ Story
<1>1. c \in Clients /\ Plays(c)
      /\ Mate(c) \in Clients /\ Mate(Mate(c)) = c /\ \A d \in Clients : d = c \/ d = Mate(c)
  BY MainPlays, ClientFacts
<1>2. CASE PlayFrame(c)
  <2>1. /\ Boarded'
        /\ \/ /\ \A e \in Clients : Unmoved(scene[e], scene'[e])
              /\ \A a \in Clients : /\ HasBoard(a) => HasBoard(a)'
                                    /\ PassesBoard(a) => PassesBoard(a)'
           \/ /\ PassesBoard(Mate(c)) /\ scene'[Mate(c)] = scene[Mate(c)]
              /\ \/ PassesBoard(Mate(c))'
                 \/ HasBoard(c)' /\ scene'[c].squads = scene[Mate(c)].squads
              /\ \/ scene'[c].winning_player = scene[c].winning_player
                 \/ /\ scene[Mate(c)].winning_player # 0
                    /\ scene'[c].winning_player = scene[Mate(c)].winning_player
    BY <1>1, <1>2, BoardFrame
  <2>2. CASE /\ \A e \in Clients : Unmoved(scene[e], scene'[e])
             /\ \A a \in Clients : /\ HasBoard(a) => HasBoard(a)'
                                   /\ PassesBoard(a) => PassesBoard(a)'
    <3>1. PICK a \in Clients : HasBoard(a) \/ PassesBoard(a)
      BY DEF Boarded
    <3>2. Rests(a)
      BY <2>2, <3>1 DEF Rests, NoNewWinner, Unmoved
    <3> QED
      BY <2>1, <3>2 DEF Story
  <2>3. CASE /\ PassesBoard(Mate(c)) /\ scene'[Mate(c)] = scene[Mate(c)]
             /\ \/ PassesBoard(Mate(c))'
                \/ HasBoard(c)' /\ scene'[c].squads = scene[Mate(c)].squads
             /\ \/ scene'[c].winning_player = scene[c].winning_player
                \/ /\ scene[Mate(c)].winning_player # 0
                   /\ scene'[c].winning_player = scene[Mate(c)].winning_player
    <3>1. NoNewWinner
      BY <1>1, <2>3 DEF NoNewWinner
    <3>2. CASE PassesBoard(Mate(c))'
      <4>1. Rests(Mate(c))
        BY <2>3, <3>1, <3>2 DEF Rests
      <4> QED
        BY <1>1, <2>1, <4>1 DEF Story
    <3>3. CASE HasBoard(c)' /\ scene'[c].squads = scene[Mate(c)].squads
      <4>1. HasBoard(Mate(Mate(c)))' /\ scene'[Mate(Mate(c))].squads = scene[Mate(c)].squads
        BY <1>1, <3>3
      <4>2. Arrives(Mate(c))
        BY <2>3, <3>1, <4>1 DEF Arrives
      <4> QED
        BY <1>1, <2>1, <4>2 DEF Story
    <3> QED
      BY <2>3, <3>2, <3>3
  <2> QED
    BY <2>1, <2>2, <2>3
<1>3. CASE BeginUpdate(c) \/ AssignTeamLate(c) \/ IdleFrame(c)
  <2>1. /\ UNCHANGED <<live, inbox, events, outbox, comp>> /\ turns' = turns
    BY <1>3 DEF BeginUpdate, AssignTeamLate, IdleFrame, transportVars, bounds
  <2>2. \A d \in Clients : Flow(d)' = Flow(d)
    BY <2>1, FlowSame
  <2>3. \A d \in Clients : Unmoved(scene[d], scene'[d])
    <3>1. CASE BeginUpdate(c)
      BY <3>1 DEF BeginUpdate, Unmoved
    <3>2. CASE IdleFrame(c)
      <4>1. Unmoved(scene[c], AssignTeam(c))
        BY <1>1, <3>2, OwnSide DEF IdleFrame, Meeting, Unmoved
      <4>2. /\ scene' = [scene EXCEPT ![c] = AssignTeam(c)]
            /\ scene \in [Uids -> Scenes] /\ \A d \in Clients : d \in Uids
        BY <3>2, ClientFacts DEF IdleFrame, Typed, ClientsTyped
      <4>3. \A d \in Clients : Unmoved(scene[d], scene[d])
        BY DEF Unmoved
      <4> HIDE DEF AssignTeam
      <4> QED
        BY <4>1, <4>2, <4>3
    <3>3. CASE AssignTeamLate(c)
      <4>1. /\ scene' = [scene EXCEPT ![c].assigned_team = 2] /\ scene[c].assigned_team = 0
            /\ scene \in [Uids -> Scenes] /\ \A d \in Clients : d \in Uids
        BY <3>3, ClientFacts DEF AssignTeamLate, Typed, ClientsTyped
      <4>2. /\ \A d \in Clients : d # c => scene'[d] = scene[d]
            /\ scene'[c] = [scene[c] EXCEPT !.assigned_team = 2] /\ scene[c] \in Scenes
        BY <1>1, <4>1
      <4>3. Unmoved(scene[c], scene'[c])
        BY <4>1, <4>2 DEF Unmoved, Scenes
      <4>4. \A d \in Clients : Unmoved(scene[d], scene[d])
        BY DEF Unmoved
      <4> QED
        BY <4>2, <4>3, <4>4
    <3> QED
      BY <1>3, <3>1, <3>2, <3>3
  <2> QED
    BY <2>1, <2>2, <2>3, StoryRests
<1> QED
  BY <1>1, <1>2, <1>3 DEF Plays

LEMMA StorySteps ==
    ASSUME TwoPlayers, TRUE \notin EndgameFallthrough, Typed, KnownIds, Meeting, Boarded, Turned',
           leaves \in Nat, leaves' = 0, [Next]_vars
    PROVE  Boarded' /\ Story
<1>1. CASE UNCHANGED <<live, scene, comp, inbox, events, outbox, turns>>
  <2>1. \A d \in Clients : Flow(d)' = Flow(d)
    BY <1>1, FlowSame
  <2>2. \A d \in Clients : Unmoved(scene[d], scene'[d])
    BY <1>1 DEF Unmoved
  <2> QED
    BY <1>1, <2>1, <2>2, StoryRests
<1>2. CASE \/ OnClientConnect \/ ForwardData \/ Launch
           \/ \E c \in Up : Flush(c) \/ Consume(c)
  <2>1. \A d \in Clients : Flow(d)' = Flow(d)
    BY <1>2, FlowArrival, FlowForward, FlowLaunch, FlowFlush, FlowConsume
  <2>2. scene' = scene /\ turns' = turns
    BY <1>2 DEF OnClientConnect, ForwardData, Launch, Flush, Consume, clientVars, bounds
  <2>3. \A d \in Clients : Unmoved(scene[d], scene'[d])
    BY <2>2 DEF Unmoved
  <2> QED
    BY <2>1, <2>2, <2>3, StoryRests
<1>3. CASE \E c \in Uids : MainThread(c) \/ Player(c)
  BY <1>3, StoryMain, StoryPlayer
<1>4. CASE UNCHANGED vars
  BY <1>1, <1>4 DEF vars, clientVars, transportVars, bounds
<1> QED
  BY <1>2, <1>3, <1>4, NobodyLeaves

--------------------------------------------------------------------------------
(* Two winners would have left nobody with a squad. *)
LEMMA OneWinner ==
    ASSUME TwoPlayers, Typed, Boarded, NEW c \in Clients, NEW d \in Clients,
           scene[c].winning_player # 0, scene[d].winning_player # 0
    PROVE  /\ scene[c].winning_player = scene[d].winning_player
           /\ scene[c].winning_player \in Teams
           /\ scene[c].squads[Other(scene[c].winning_player)] = 0
<1>1. PICK a \in Clients : HasBoard(a) \/ PassesBoard(a)
  BY DEF Boarded
<1>2. Leads(scene[a], scene[Mate(a)])
  BY <1>1 DEF HasBoard, PassesBoard, Acts, Follows
<1>3. \A e \in Clients : scene[e].squads \in [Teams -> 0 .. Army] /\ (e = a \/ e = Mate(a))
  BY ClientFacts DEF Typed, ClientsTyped, Scenes
<1>4. Army \in Nat /\ Mate(a) \in Clients
  BY SessionAssumption, ClientFacts
<1>5. ASSUME NEW e \in Clients, NEW t \in Teams, scene[e].squads[t] = 0
      PROVE  scene[a].squads[t] = 0
  <2>1. scene[a].squads[t] <= scene[Mate(a)].squads[t]
    BY <1>2 DEF Leads
  <2>2. scene[a].squads[t] \in 0 .. Army
    BY <1>3
  <2> QED
    BY <1>3, <1>4, <1>5, <2>1, <2>2
<1>6. /\ scene[c].winning_player \in Teams /\ scene[c].squads[Other(scene[c].winning_player)] = 0
      /\ scene[d].winning_player \in Teams /\ scene[d].squads[Other(scene[d].winning_player)] = 0
  BY DEF Boarded, Sound
<1>7. /\ scene[a].squads[Other(scene[c].winning_player)] = 0
      /\ scene[a].squads[Other(scene[d].winning_player)] = 0
  BY <1>5, <1>6 DEF Other, Teams
<1>8. PICK t \in Teams : scene[a].squads[t] > 0
  BY <1>2 DEF Leads
<1> QED
  BY <1>6, <1>7, <1>8 DEF Other, Teams

(* The session before anyone has come: two armies. *)
LEMMA FirstBoard ==
    ASSUME TwoPlayers, Army > 0, Init
    PROVE  Boarded /\ HasBoard(0)
<1>1. HasTurn(0) /\ turns = 0 /\ 0 \in Clients /\ Mate(0) \in Clients
  BY FirstTurn, ClientFacts DEF Init, Clients
<1>2. \A c \in Clients : scene[c] = FreshScene
  BY ClientFacts DEF Init
<1>3. /\ FreshScene.changed = {} /\ FreshScene.dead = {} /\ ~FreshScene.game_finished
      /\ FreshScene.winning_player = 0
      /\ \A t \in Teams : FreshScene.squads[t] = Army
  BY DEF FreshScene
<1>4. Acts(FreshScene, FreshScene)
  BY <1>3, SessionAssumption DEF Acts, Leads, Teams
<1>5. Sound(FreshScene)
  BY <1>3 DEF Sound
<1>6. HasBoard(0)
  BY <1>1, <1>2, <1>3, <1>4 DEF HasBoard
<1> QED
  BY <1>1, <1>2, <1>5, <1>6 DEF Boarded

(* The code runs into the end of endgame_check only when nobody has lost:      *)
(* what it yields there must not count as a victory, or one is announced       *)
(* (EndgameFallthrough).                                                       *)
FairEnd == Army > 0 /\ TRUE \notin EndgameFallthrough

BoardInv == leaves = 0 => Boarded

LEMMA BoardHolds ==
    ASSUME TwoPlayers, FairEnd
    PROVE  Spec => []BoardInv
<1>1. Init => BoardInv
  BY FirstBoard DEF BoardInv, FairEnd
<1>2. SessionInv /\ TurnInv /\ TurnInv' /\ BoardInv /\ [Next]_vars => BoardInv'
  <2> SUFFICES ASSUME SessionInv, TurnInv, TurnInv', BoardInv, [Next]_vars, leaves' = 0
               PROVE  Boarded'
    BY DEF BoardInv
  <2>1. leaves \in Nat /\ leaves = 0
    BY LeavesCount DEF TurnInv
  <2> QED
    BY <2>1, StorySteps DEF TurnInv, SessionInv, BoardInv, FairEnd
<1> QED
  BY <1>1, <1>2, SessionHolds, TurnHolds, PTL DEF Spec

(* As long as nobody leaves, the two clients never show different winners, and *)
(* the loser's army really is gone: nextTurnPressed sends the armies before   *)
(* the victory, and a frame applies them in that order.                       *)
THEOREM VictoryIsHonest == TwoPlayers /\ FairEnd => (Spec => []HonestVictory)
<1> SUFFICES ASSUME TwoPlayers, FairEnd PROVE Spec => []HonestVictory
  OBVIOUS
<1>1. SessionInv /\ TurnInv /\ BoardInv => HonestVictory
  <2> SUFFICES ASSUME SessionInv, TurnInv, BoardInv, leaves = 0,
                      NEW c \in Up, scene[c].game_finished
               PROVE  /\ scene[c].squads[Other(scene[c].winning_player)] = 0
                      /\ \A d \in Up : scene[d].game_finished =>
                            scene[c].winning_player = scene[d].winning_player
    BY DEF HonestVictory
  <2>1. Typed /\ Meeting /\ Boarded
    BY DEF SessionInv, TurnInv, BoardInv
  <2>2. Up \subseteq Clients
    BY <2>1, UpFacts DEF Meeting
  <2>3. \A d \in Up : scene[d].game_finished => scene[d].winning_player # 0
    BY <2>1, <2>2 DEF Boarded, Sound, Teams
  <2> QED
    BY <2>1, <2>2, <2>3, OneWinner
<1> QED
  BY <1>1, SessionHolds, TurnHolds, BoardHolds, PTL

--------------------------------------------------------------------------------
(* The duel that the two clients show: the board of the client that has the    *)
(* turn or has just passed it.                                                 *)

Champion == IF Winners = {} THEN 0 ELSE CHOOSE w \in Winners : TRUE

Viewed ==
    /\ \A a \in Clients :
          /\ HasBoard(a) => Turn = a + 1 /\ scene[Actor].squads = scene[a].squads
          /\ PassesBoard(a) => Turn = Mate(a) + 1 /\ scene[Actor].squads = scene[a].squads
    /\ \A c \in Clients : scene[c].winning_player # 0 => Champion = scene[c].winning_player
    /\ (\A c \in Clients : scene[c].winning_player = 0) => Champion = 0

LEMMA BoardViewed ==
    ASSUME TwoPlayers, Typed, Meeting, Boarded
    PROVE  Viewed
<1>1. Up = live /\ live \subseteq Clients
  BY UpFacts DEF Meeting
<1>2. \A c \in Clients : /\ c \notin Up => scene[c] = FreshScene
                         /\ scene[c].assigned_team \in {0, c + 1, 2}
  BY <1>1 DEF Meeting, Plain
<1>3. FreshScene.winning_player = 0 /\ FreshScene.changed = {}
  BY DEF FreshScene
<1>4. \A c \in Clients : ClientOf(c + 1) = c /\ ClientOf(Other(c + 1)) = Mate(c)
                         /\ Mate(c) \in Clients /\ Mate(Mate(c)) = c /\ Other(Mate(c) + 1) = c + 1
  BY DEF ClientOf, Other, Clients, Mate
<1>5. ASSUME NEW a \in Clients, HasBoard(a)
      PROVE  Turn = a + 1 /\ scene[Actor].squads = scene[a].squads
  <2>1. Turn = a + 1
    BY <1>5 DEF HasBoard, Turn, Clients
  <2>2. Actor = IF a \in Holders THEN a ELSE Mate(a)
    BY <1>4, <2>1 DEF Actor
  <2>3. a \notin Holders => scene[a].changed = {}
    BY <1>2, <1>3, <1>5 DEF HasBoard, HasTurn, Holders
  <2>4. scene[a].changed = {} => scene[Mate(a)].squads = scene[a].squads
    <3>1. scene[a].squads \in [Teams -> 0 .. Army] /\ scene[Mate(a)].squads \in [Teams -> 0 .. Army]
      BY <1>4, ClientFacts DEF Typed, ClientsTyped, Scenes
    <3> QED
      BY <1>5, <3>1 DEF HasBoard, Acts
  <2> QED
    BY <2>1, <2>2, <2>3, <2>4
<1>6. ASSUME NEW a \in Clients, PassesBoard(a)
      PROVE  Turn = Mate(a) + 1 /\ scene[Actor].squads = scene[a].squads
  <2>1. Turn = Mate(a) + 1
    BY <1>4, <1>6 DEF PassesBoard, Turn, Clients
  <2>2. Mate(a) \notin Holders
    <3>1. scene[Mate(a)].player_turn = a + 1 /\ scene[Mate(a)].assigned_team # a + 1
      BY <1>2, <1>4, <1>6 DEF PassesBoard, PassesTurn, Sided, Clients, Mate
    <3> QED
      BY <3>1 DEF Holders, Clients, Mate
  <2>3. Actor = a
    BY <1>4, <2>1, <2>2 DEF Actor
  <2> QED
    BY <2>1, <2>3
<1>7. ASSUME NEW c \in Clients, scene[c].winning_player # 0
      PROVE  Champion = scene[c].winning_player
  <2>1. c \in Up
    BY <1>2, <1>3, <1>7
  <2>2. \A d \in Up : scene[d].winning_player # 0 =>
                         scene[d].winning_player = scene[c].winning_player
    BY <1>1, <1>7, OneWinner
  <2>3. Winners = {scene[c].winning_player}
    <3>1. scene[c].winning_player \in Winners
      BY <1>7, <2>1 DEF Winners
    <3>2. \A w \in Winners : w = scene[c].winning_player
      BY <2>2 DEF Winners
    <3> QED
      BY <3>1, <3>2
  <2>4. (CHOOSE w \in Winners : TRUE) \in Winners
    BY <2>3
  <2> QED
    BY <2>3, <2>4 DEF Champion
<1>8. ASSUME \A c \in Clients : scene[c].winning_player = 0
      PROVE  Champion = 0
  <2>1. Winners = {}
    BY <1>1, <1>8 DEF Winners
  <2> QED
    BY <2>1 DEF Champion
<1> QED
  BY <1>5, <1>6, <1>7, <1>8 DEF Viewed

LEMMA ChampionStays ==
    ASSUME Viewed, Viewed', NoNewWinner
    PROVE  Champion' = Champion
<1>1. PICK e \in Clients :
         /\ scene'[e].winning_player = scene[e].winning_player
         /\ \A d \in Clients :
               \/ scene'[d].winning_player = scene[d].winning_player
               \/ /\ scene[e].winning_player # 0
                  /\ scene'[d].winning_player = scene[e].winning_player
  BY DEF NoNewWinner
<1>2. CASE \E d \in Clients : scene'[d].winning_player # 0
  BY <1>1, <1>2 DEF Viewed
<1>3. CASE \A d \in Clients : scene'[d].winning_player = 0
  BY <1>1, <1>3 DEF Viewed
<1> QED
  BY <1>2, <1>3

LEMMA StoryDuel ==
    ASSUME TwoPlayers, Typed, Viewed, Viewed', Story
    PROVE  [Duel!DuelNext]_(Duel!duelVars)
<1> DEFINE t == Turn
           b == scene[Actor].squads
<1>1. PICK a \in Clients : Rests(a) \/ Hits(a) \/ Passes(a) \/ Arrives(a)
  BY DEF Story
<1>2. /\ Mate(a) \in Clients /\ a + 1 \in Teams /\ Mate(a) + 1 \in Teams
      /\ Mate(a) + 1 # a + 1 /\ Duel!Other(a + 1) = Mate(a) + 1
      /\ scene[a].squads \in [Teams -> 0 .. Army]
  <2>1. Mate(a) \in Clients /\ a + 1 \in Teams /\ Mate(a) + 1 \in Teams /\ a \in Uids
    BY ClientFacts
  <2>2. Mate(a) + 1 # a + 1 /\ Duel!Other(a + 1) = Mate(a) + 1
    BY DEF Clients, Mate, Duel!Other
  <2> QED
    BY <2>1, <2>2 DEF Typed, ClientsTyped, Scenes
<1>3. /\ HasBoard(a) => t = a + 1 /\ b = scene[a].squads
      /\ PassesBoard(a) => t = Mate(a) + 1 /\ b = scene[a].squads
  BY DEF Viewed
<1>4. /\ HasBoard(a)' => t' = a + 1 /\ b' = scene'[a].squads
      /\ PassesBoard(a)' => t' = Mate(a) + 1 /\ b' = scene'[a].squads
      /\ HasBoard(Mate(a))' => t' = Mate(a) + 1 /\ b' = scene'[Mate(a)].squads
  BY <1>2 DEF Viewed
<1> HIDE DEF t, b
<1>5. CASE Rests(a)
  <2>1. t' = t /\ b' = b /\ Champion' = Champion
    BY <1>3, <1>4, <1>5, ChampionStays DEF Rests
  <2> QED
    BY <2>1 DEF Duel!duelVars, Champion, t, b
<1>6. CASE Hits(a)
  <2>1. t = a + 1 /\ t' = t /\ b = scene[a].squads /\ b' = scene'[a].squads
        /\ Champion' = Champion
    BY <1>3, <1>4, <1>6, ChampionStays DEF Hits
  <2>2. /\ b[a + 1] > 0
        /\ b'[Mate(a) + 1] \in 0 .. b[Mate(a) + 1]
        /\ b' = [b EXCEPT ![Mate(a) + 1] = b'[Mate(a) + 1]]
    BY <1>6, <2>1 DEF Hits
  <2>3. CASE b'[Mate(a) + 1] = b[Mate(a) + 1]
    <3>1. b' = b
      BY <1>2, <2>1, <2>2, <2>3
    <3> QED
      BY <2>1, <3>1 DEF Duel!duelVars, Champion, t, b
  <2>4. CASE b'[Mate(a) + 1] # b[Mate(a) + 1]
    <3>1. b'[Mate(a) + 1] \in 0 .. b[Duel!Other(t)] - 1
      BY <1>2, <2>1, <2>2, <2>4
    <3>2. Duel!Hit
      BY <1>2, <2>1, <2>2, <3>1 DEF Duel!Hit, Champion, t, b
    <3> QED
      BY <3>2 DEF Duel!DuelNext
  <2> QED
    BY <2>3, <2>4
<1>7. CASE Passes(a)
  <2>1. t = a + 1 /\ t' = Mate(a) + 1 /\ b = scene[a].squads /\ b' = b
    BY <1>3, <1>4, <1>7 DEF Passes
  <2>2. \/ Champion' = Champion
        \/ b[Duel!Other(t)] = 0 /\ Champion' = t
    BY <1>2, <1>7, <2>1, ChampionStays DEF Passes, Viewed, Clients
  <2>3. Duel!EndTurn
    BY <1>2, <2>1, <2>2 DEF Duel!EndTurn, Champion, t, b
  <2> QED
    BY <2>3 DEF Duel!DuelNext
<1>8. CASE Arrives(a)
  <2>1. t' = t /\ b' = b /\ Champion' = Champion
    BY <1>3, <1>4, <1>8, ChampionStays DEF Arrives
  <2> QED
    BY <2>1 DEF Duel!duelVars, Champion, t, b
<1> QED
  BY <1>1, <1>5, <1>6, <1>7, <1>8

NobodyLeft == leaves = 0

(* As long as nobody leaves, two machines with packets between them show the   *)
(* game of TurnDuel: only the side whose turn it is changes the board, and     *)
(* each turn starts from the board that the last one has left.                 *)
THEOREM DuelImplemented ==
    TwoPlayers /\ FairEnd => (Spec /\ []NobodyLeft => ImplementsDuel)
<1> SUFFICES ASSUME TwoPlayers, FairEnd
             PROVE  Spec /\ []NobodyLeft => ImplementsDuel
  OBVIOUS
<1>1. SessionInv /\ TurnInv /\ BoardInv /\ NobodyLeft => Viewed
  BY BoardViewed DEF SessionInv, TurnInv, BoardInv, NobodyLeft
<1>2. Init /\ Viewed => Duel!DuelInit
  <2> SUFFICES ASSUME Init, Viewed PROVE Duel!DuelInit
    OBVIOUS
  <2>1. HasBoard(0) /\ 0 \in Clients
    BY FirstBoard DEF FairEnd, Clients
  <2>2. Turn = 1 /\ scene[Actor].squads = scene[0].squads
    BY <2>1 DEF Viewed
  <2>3. \A c \in Clients : scene[c] = FreshScene
    BY ClientFacts DEF Init
  <2>4. FreshScene.squads = [t \in Duel!Teams |-> Army] /\ FreshScene.winning_player = 0
    BY DEF FreshScene, Teams, Duel!Teams
  <2>5. Champion = 0
    BY <2>3, <2>4 DEF Viewed
  <2> QED
    BY <2>1, <2>2, <2>3, <2>4, <2>5 DEF Duel!DuelInit, Champion
<1>3. SessionInv /\ TurnInv /\ TurnInv' /\ BoardInv /\ Viewed /\ Viewed' /\ NobodyLeft
      /\ NobodyLeft' /\ [Next]_vars => [Duel!DuelNext]_(Duel!duelVars)
  <2> SUFFICES ASSUME SessionInv, TurnInv, TurnInv', BoardInv, Viewed, Viewed', NobodyLeft,
                      NobodyLeft', [Next]_vars
               PROVE  [Duel!DuelNext]_(Duel!duelVars)
    OBVIOUS
  <2>1. Story
    BY StorySteps DEF TurnInv, SessionInv, BoardInv, FairEnd, NobodyLeft
  <2> QED
    BY <2>1, StoryDuel DEF SessionInv
<1> QED
  BY <1>1, <1>2, <1>3, SessionHolds, TurnHolds, BoardHolds, PTL
     DEF Spec, ImplementsDuel, Duel!DuelSpec
================================================================================
