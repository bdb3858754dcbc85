-------------------------------- MODULE Skirmish --------------------------------
(***************************************************************************)
(* The battle itself: two connected clients, named by their teams 1 and 2, *)
(* each with its copy of the units, its clicks (GameScene::clickHandler)   *)
(* and its frames (GameScene::update).  What one client sends reaches the  *)
(* other in order; GameSession models how.  ASGE polls the input once per  *)
(* iteration of its main loop and runs each callback in a thread of its    *)
(* own (MyNetGame.cpp:31), so that a click takes several steps, with       *)
(* frames and other clicks in between.                                     *)
(***************************************************************************)
EXTENDS Combat, SequencesExt

CONSTANTS
    Units,               \* the units, named by their ref_name
    Kind,                \* the kind of each unit
    Team,                \* the team of each unit, 1 for is_enemy
    Start,               \* where each unit stands when the battle begins
    Points,              \* where players click
    Callbacks,           \* the clicks that one poll of the input delivers
    EndgameFallthrough,  \* what endgame_check yields where it returns nothing
    MaxTurns             \* bound: turns that are ended

Teams == {1, 2}
Other(t) == 3 - t

ASSUME UnitAssumption ==
    /\ IsFiniteSet(Units)
    /\ Units \cap {"endturn", "endgame"} = {}
    /\ Kind \in [Units -> Kinds]
    /\ Team \in [Units -> Teams]
    /\ \A u, v \in Units : Kind[u] = Kind[v] /\ Team[u] = Team[v] => u = v
ASSUME PlaceAssumption ==
    /\ Start \in [Units -> Columns \X Rows]
    /\ Points \subseteq Nat \X Nat
ASSUME BoundAssumption ==
    /\ EndgameFallthrough \subseteq BOOLEAN
    /\ MaxTurns \in Nat

(* Not needed for a run: what the theorems about turns assume. *)
OneClickPerPoll == \A j, k \in Callbacks : j = k

Army(t) == {u \in Units : Team[u] = t}

VARIABLES
    unit,       \* unit[t][u]: client t's copy of unit u
    selected,   \* selected[t]: the selection flags of client t that are set
    turn,       \* player_turn of each client
    winner,     \* winning_player of each client, 0 until its game is finished
    inFrame,    \* the main thread of a client is in unitNetworkUpdate
    polled,     \* callbacks that a client has started since its last frame
    click,      \* click[t][k]: what callback k of client t does next, and where
    wire,       \* packets on their way to a client, its unit_update_queue included
    turns       \* counter of the bound

vars == <<unit, selected, turn, winner, inFrame, polled, click, wire, turns>>

Idle == [pc |-> "idle", at |-> <<0, 0>>]

Init ==
    /\ unit = [t \in Teams |-> [u \in Units |-> NewUnit(Kind[u], Start[u])]]
    /\ selected = [t \in Teams |-> {}]
    /\ turn = [t \in Teams |-> 1]
    /\ winner = [t \in Teams |-> 0]
    /\ inFrame = [t \in Teams |-> FALSE]
    /\ polled = [t \in Teams |-> {}]
    /\ click = [t \in Teams |-> [k \in Callbacks |-> Idle]]
    /\ wire = [t \in Teams |-> <<>>]
    /\ turns = 0

UnitsAt(t, p) == {u \in Units : OnObjectSprite(p[1], p[2], unit[t][u])}

OnNextTurnButton(p) == MouseOnSprite(p[1], p[2], 1170, 610, 100, 100)

(* A step of callback k of client t that was at pc and goes on at next. *)
Step(t, k, pc, next) ==
    /\ click[t][k].pc = pc
    /\ click' = [click EXCEPT ![t][k].pc = next]

--------------------------------------------------------------------------------
(* clickHandler: the four handlers of a click, one after the other.         *)

(* A click begins with nextTurnPressed, which looks at the button on the     *)
(* player's turn; any other click goes on to the units.                     *)
ClickHandler(t, k) ==
    /\ click[t][k].pc = "idle"
    /\ k \notin polled[t]
    /\ polled' = [polled EXCEPT ![t] = @ \cup {k}]
    /\ \E p \in Points :
          /\ turn[t] # t \/ ~OnNextTurnButton(p)
          /\ click' = [click EXCEPT ![t][k] = [pc |-> "place", at |-> p]]
    /\ UNCHANGED <<unit, selected, turn, winner, inFrame, wire, turns>>

Packet(name, x, y, squad, health) ==
    [name |-> name, x |-> x, y |-> y, squad |-> squad, health |-> health]

ChangedPackets(t) ==
    LET changed == SetToSeq({u \in Units : unit[t][u].changed})
    IN  [i \in DOMAIN changed |->
            LET u == changed[i]
            IN  Packet(u, unit[t][u].x, unit[t][u].y, unit[t][u].squad, unit[t][u].health)]

(* endgame_check: the opponents are dead, or the function ends without a    *)
(* return.                                                                  *)
Depleted(t) == \A u \in Army(Other(t)) : unit[t][u].dead

Victor(t) == IF Depleted(t) THEN t ELSE winner[t]

(* What a client sends when it ends its turn. *)
TurnPackets(t, endgame) ==
    ChangedPackets(t)
    \o (IF endgame THEN <<Packet("endgame", IF Victor(t) = 1 THEN 1 ELSE 2, 0, 0, 0)>>
        ELSE <<>>)
    \o <<Packet("endturn", 0, 0, 0, 0)>>

(* nextTurnPressed up to line 995; the turn itself is flipped after that.   *)
NextTurnPressed(t, k) ==
    /\ turn[t] = t
    /\ click[t][k].pc = "idle"
    /\ k \notin polled[t]
    /\ polled' = [polled EXCEPT ![t] = @ \cup {k}]
    /\ \E p \in Points :
          /\ OnNextTurnButton(p)
          /\ click' = [click EXCEPT ![t][k] = [pc |-> "flip", at |-> p]]
    /\ turns < MaxTurns
    /\ turns' = turns + 1
    /\ selected' = [selected EXCEPT ![t] = {}]
    /\ unit' = [unit EXCEPT ![t] = [u \in Units |-> Rested(Kind[u], @[u])]]
    /\ winner' = [winner EXCEPT ![t] = Victor(t)]
    /\ \E fell \in EndgameFallthrough :
          wire' = [wire EXCEPT ![Other(t)] = @ \o TurnPackets(t, Depleted(t) \/ fell)]
    /\ UNCHANGED <<turn, inFrame>>

(* Mutant: the turn is counted on. *)
FlipTurnCounts(t, k) ==
    /\ Step(t, k, "flip", "place")
    /\ turn' = [turn EXCEPT ![t] = @ + 1]
    /\ UNCHANGED <<unit, selected, winner, inFrame, polled, wire, turns>>

FlipTurn(t, k) ==
    /\ Step(t, k, "flip", "place")
    /\ turn' = [turn EXCEPT ![t] = Other(@)]
    /\ UNCHANGED <<unit, selected, winner, inFrame, polled, wire, turns>>

OnBoard(p) == p[1] > 40 /\ p[1] < 1200

(* placeUnitAtClick, movingUnit: a click beside the units moves the one that *)
(* is selected, at the price of an action point.                            *)
Movers(t, p) == {u \in selected[t] : /\ OnMoveSprite(p[1], p[2], Kind[u], unit[t][u])
                                     /\ unit[t][u].ap > 0
                                     /\ OnBoard(p)}

(* Unit::update reads the place of a unit that is alive and writes it back:  *)
(* a frame at the same time may undo either coordinate of the move.          *)
Outcomes(t, u, new, old) ==
    IF winner[t] = 0 /\ ~unit[t][u].dead THEN {new, old} ELSE {new}

PlaceUnitAtClick(t, k) ==
    LET p == click[t][k].at
        all == Cardinality(selected[t]) = 8
    IN  /\ Step(t, k, "place", "attack")
        /\ IF UnitsAt(t, p) = {} /\ Movers(t, p) # {}
           THEN \E u \in Movers(t, p) :
                \E x \in Outcomes(t, u, SnapX(p[1], all), unit[t][u].x),
                   y \in Outcomes(t, u, SnapY(p[2], all), unit[t][u].y) :
                      unit' = [unit EXCEPT ![t][u] = Moved(@, x, y)]
           ELSE UNCHANGED unit
        /\ UNCHANGED <<selected, turn, winner, inFrame, polled, wire, turns>>

(* attackClickedUnit, attackingOtherUnit: every opponent under the click is  *)
(* hit, and each costs two action points.                                   *)
Attackers(t, p) == {u \in selected[t] :
                       /\ OnAttackSprite(p[1], p[2], Kind[u], Team[u] = 1, unit[t][u])
                       /\ unit[t][u].ap >= 2
                       /\ OnBoard(p)}

Targets(t, p, a) == {v \in UnitsAt(t, p) : Team[v] # Team[a]}

Hit(t, a, v) ==
    TakeDamage(unit[t][v],
               Damage(Kind[a], unit[t][a].squad, UnitType[Kind[v]].armour))

AfterAttack(t, p, a) ==
    [v \in Units |->
        IF v \in Targets(t, p, a) THEN Hit(t, a, v)
        ELSE IF v = a THEN Spend(unit[t][v], 2 * Cardinality(Targets(t, p, a)))
        ELSE unit[t][v]]

AttackClickedUnit(t, k) ==
    LET p == click[t][k].at
    IN  /\ Step(t, k, "attack", "select")
        /\ IF UnitsAt(t, p) # {} /\ Attackers(t, p) # {}
           THEN \E a \in Attackers(t, p) :
                   unit' = [unit EXCEPT ![t] = AfterAttack(t, p, a)]
           ELSE UNCHANGED unit
        /\ UNCHANGED <<selected, turn, winner, inFrame, polled, wire, turns>>

(* setSelected asks the kinds in this order; each hit toggles its own flag   *)
(* and clears the others.  Of several units the last is left selected.      *)
Rank == [Infantry |-> 1, Tank |-> 2, Sniper |-> 3, Artillery |-> 4]

Toggle(old, hits) ==
    IF hits = {} THEN old
    ELSE IF hits = old THEN {}
    ELSE {u \in hits : \A v \in hits : Rank[Kind[v]] <= Rank[Kind[u]]}

(* Mutant: the turn is not asked for. *)
SetSelectedAnyTurn(t, k) ==
    /\ click[t][k].pc = "select"
    /\ click' = [click EXCEPT ![t][k] = Idle]
    /\ selected' = [selected EXCEPT ![t] = Toggle(@, UnitsAt(t, click[t][k].at) \cap Army(t))]
    /\ UNCHANGED <<unit, turn, winner, inFrame, polled, wire, turns>>

SetSelected(t, k) ==
    /\ click[t][k].pc = "select"
    /\ click' = [click EXCEPT ![t][k] = Idle]
    /\ selected' = IF turn[t] # t THEN selected
                   ELSE [selected EXCEPT ![t] =
                            Toggle(@, UnitsAt(t, click[t][k].at) \cap Army(t))]
    /\ UNCHANGED <<unit, turn, winner, inFrame, polled, wire, turns>>

--------------------------------------------------------------------------------
(* update: a frame of the main thread; once the game is over it does nothing. *)

(* unitsUpdate; on the opponent's turn unitNetworkUpdate comes next.         *)
Frame(t) ==
    /\ ~inFrame[t]
    /\ polled' = [polled EXCEPT ![t] = {}]
    /\ IF winner[t] # 0 THEN UNCHANGED <<unit, inFrame>>
       ELSE /\ unit' = [unit EXCEPT ![t] = [u \in Units |-> Update(@[u])]]
            /\ inFrame' = [inFrame EXCEPT ![t] = (turn[t] # t)]
    /\ UNCHANGED <<selected, turn, winner, click, wire, turns>>

(* One packet of the loop of unitNetworkUpdate. *)
ApplyPacket(t) ==
    LET m == Head(wire[t])
    IN  /\ inFrame[t]
        /\ wire[t] # <<>>
        /\ wire' = [wire EXCEPT ![t] = Tail(@)]
        /\ turn' = IF m.name = "endturn" THEN [turn EXCEPT ![t] = Other(@)] ELSE turn
        /\ winner' = IF m.name = "endgame" THEN [winner EXCEPT ![t] = m.x] ELSE winner
        /\ unit' = IF m.name \in Units
                   THEN [unit EXCEPT ![t][m.name] = Told(@, m)]
                   ELSE unit
        /\ UNCHANGED <<selected, inFrame, polled, click, turns>>

(* The queue was empty: what is on its way arrives after this frame. *)
FrameEnd(t) ==
    /\ inFrame[t]
    /\ inFrame' = [inFrame EXCEPT ![t] = FALSE]
    /\ UNCHANGED <<unit, selected, turn, winner, polled, click, wire, turns>>

--------------------------------------------------------------------------------
Callback(t, k) ==
    \/ ClickHandler(t, k)
    \/ NextTurnPressed(t, k)
    \/ FlipTurn(t, k)
    \/ PlaceUnitAtClick(t, k)
    \/ AttackClickedUnit(t, k)
    \/ SetSelected(t, k)

MainThread(t) == Frame(t) \/ ApplyPacket(t) \/ FrameEnd(t)

Next == \E t \in Teams : MainThread(t) \/ \E k \in Callbacks : Callback(t, k)

Spec == Init /\ [][Next]_vars

--------------------------------------------------------------------------------
(***************************************************************************)
(* Properties.                                                             *)
(***************************************************************************)

Names == Units \cup {"endturn", "endgame"}
PCs == {"idle", "flip", "place", "attack", "select"}

UnitRecord == [x : Int, y : Int, atX : Int, atY : Int, squad : Int, health : Int,
               ap : Int, changed : BOOLEAN, dead : BOOLEAN]
PacketRecord == [name : Names, x : Int, y : Int, squad : Int, health : Int]

TypeOK ==
    /\ unit \in [Teams -> [Units -> UnitRecord]]
    /\ selected \in [Teams -> SUBSET Units]
    /\ turn \in [Teams -> Teams]
    /\ winner \in [Teams -> {0} \cup Teams]
    /\ inFrame \in [Teams -> BOOLEAN]
    /\ polled \in [Teams -> SUBSET Callbacks]
    /\ click \in [Teams -> [Callbacks -> [pc : PCs, at : Nat \X Nat]]]
    /\ wire \in [Teams -> Seq(PacketRecord)]
    /\ turns \in 0 .. MaxTurns

(* takeDamage divides by the health that earlier hits have left: it never    *)
(* reaches zero, on either client or in a packet.                            *)
HealthPositive ==
    \A t \in Teams :
        /\ \A u \in Units : unit[t][u].health >= 1
        /\ \A i \in DOMAIN wire[t] : wire[t][i].name \in Units => wire[t][i].health >= 1

(* A unit is selected only on its player's turn, and never on both clients   *)
(* at once.  That alone keeps the clicks of the other turn from moving or    *)
(* firing anything: the handlers that do so do not ask whose turn it is.     *)
SelectionFollowsTurn ==
    \A t \in Teams : selected[t] # {} => turn[t] = t /\ selected[Other(t)] = {}

(* Off its player's turn a unit has all its action points: they are reset    *)
(* when a turn is ended, not when one begins.                               *)
TurnStartsFresh ==
    \A t \in Teams : turn[t] # t =>
        \A u \in Army(t) : unit[t][u].ap = UnitType[Kind[u]].ap

(* Once everything that has changed has been sent and applied, the two       *)
(* clients show the same board.                                             *)
Settled ==
    \A t \in Teams : /\ wire[t] = <<>>
                     /\ \A u \in Units : /\ ~unit[t][u].changed
                                         /\ unit[t][u].squad <= 0 => unit[t][u].dead
Shown(v) == <<v.x, v.y, v.squad, v.health, v.dead>>
SettledBoardsAgree == Settled => \A u \in Units : Shown(unit[1][u]) = Shown(unit[2][u])

(* The two rows off the board that gridSnapping lets through: above it from  *)
(* a click above y = 3 (line 791 asks for all eight selections), below it    *)
(* from one at y = 603 exactly (line 787 has > 5, further down is clamped).  *)
EdgeRows == {-117 : p \in {q \in Points : q[2] < 3}}
            \cup {603 : p \in {q \in Points : q[2] = 603}}

(* Wherever players click and whichever half of a move a frame undoes, a     *)
(* unit stands in one of the ten columns and one of the five rows, or in one *)
(* of the two edge rows if somebody clicks where it is let through, or off   *)
(* the board where the dead go.                                             *)
UnitsOnGrid ==
    \A t \in Teams : \A u \in Units :
        \/ unit[t][u].x \in Columns /\ unit[t][u].y \in Rows \cup EdgeRows
        \/ unit[t][u].x = -200 /\ unit[t][u].y = -200

(* A hit as takeDamage makes it: callback k of client t ends its attack, and *)
(* v is under the click of attacker a, which is not dead.                    *)
IsHit(t, k, a, v) ==
    /\ click[t][k].pc = "attack" /\ click'[t][k].pc = "select"
    /\ a \in Attackers(t, click[t][k].at) /\ v \in Targets(t, click[t][k].at, a)
    /\ unit[t][a].squad > 0

(* The damage that the comments of takeDamage (lines 274-276) describe: the  *)
(* attack of all squads less the percentage of it that the armour mitigates. *)
MitigatedDamage(a, squad, v) ==
    LET raw == UnitType[Kind[a]].attack * squad
    IN  raw - (raw * UnitType[Kind[v]].armour) \div 100

(* What a player reads under a unit that survives a hit, health * squad,     *)
(* has gone down by the damage that is left after mitigation at least,       *)
(* however the hit was divided over squads and health.  It goes down by more *)
(* than that, since armour / 100 is zero and nothing is mitigated.           *)
Total(v) == v.squad * v.health
HitsCount ==
    [][\A t \in Teams, k \in Callbacks, a, v \in Units :
          IsHit(t, k, a, v) /\ unit'[t][v].squad > 0
          => Total(unit'[t][v])
                <= Total(unit[t][v]) - MitigatedDamage(a, unit[t][a].squad, v)]_vars
================================================================================
