----------------------------- MODULE SkirmishProofs -----------------------------
(***************************************************************************)
(* The battle, for any units, clicks and number of turns: types, the       *)
(* divisor of takeDamage, turns and selections, the grid, what hits take,  *)
(* and how the two boards agree.                                           *)
(***************************************************************************)
EXTENDS Skirmish, TLAPS, FiniteSetTheorems

LEMMA Division ==
    ASSUME NEW a \in Nat, NEW b \in Nat, b >= 1
    PROVE  /\ a \div b \in Nat
           /\ a - b * (a \div b) \in 0 .. b - 1
  OBVIOUS

LEMMA DivisionRoundsToZero ==
    ASSUME NEW a \in Int, NEW b \in Nat, b >= 1
    PROVE  /\ Quotient(a, b) \in Int
           /\ Remainder(a, b) \in Int
           /\ Remainder(a, b) < b
           /\ a = b * Quotient(a, b) + Remainder(a, b)
           /\ a >= 0 => Quotient(a, b) >= 0 /\ Remainder(a, b) >= 0
<1>1. CASE a >= 0
  <2>1. a \in Nat
    BY <1>1
  <2>2. Quotient(a, b) = a \div b
    BY <1>1 DEF Quotient
  <2>3. Remainder(a, b) = a - b * (a \div b)
    BY <2>2 DEF Remainder
  <2>4. b * (a \div b) \in Int
    BY <2>1, Division
  <2> QED
    BY <2>1, <2>2, <2>3, <2>4, Division
<1>2. CASE a < 0
  <2> DEFINE n == -a
  <2>1. n \in Nat
    BY <1>2
  <2>2. n \div b \in Nat /\ n - b * (n \div b) \in 0 .. b - 1
    BY <2>1, Division
  <2> DEFINE q == n \div b
  <2>3. q \in Nat /\ n - b * q \in 0 .. b - 1
    BY <2>2
  <2>4. Quotient(a, b) = -q
    BY <1>2 DEF Quotient
  <2> HIDE DEF q
  <2>5. Remainder(a, b) = a + b * q
    BY <2>3, <2>4 DEF Remainder
  <2>6. b * q \in Nat /\ b * (-q) = -(b * q)
    BY <2>3
  <2> QED
    BY <1>2, <2>3, <2>4, <2>5, <2>6
<1> QED
  BY <1>1, <1>2

LEMMA DamageType ==
    ASSUME NEW kind \in Kinds, NEW other \in Kinds, NEW squad \in Int
    PROVE  /\ UnitType[kind].attack \in Nat
           /\ UnitType[kind].armour \in 0 .. 99
           /\ Damage(kind, squad, UnitType[other].armour) = UnitType[kind].attack * squad
           /\ Damage(kind, squad, UnitType[other].armour) \in Int
<1>1. /\ UnitType[kind].attack \in Nat
      /\ UnitType[kind].armour \in 0 .. 99
      /\ UnitType[other].armour \in 0 .. 99
  BY DEF UnitType, Kinds
<1>2. UnitType[other].armour \div 100 = 0
  BY <1>1
<1>3. UnitType[kind].attack * squad \in Int
  BY <1>1
<1> QED
  BY <1>1, <1>2, <1>3 DEF Damage, Quotient

LEMMA TakeDamageFacts ==
    ASSUME NEW u \in UnitRecord, u.health >= 1, NEW d \in Int
    PROVE  /\ TakeDamage(u, d) \in UnitRecord
           /\ TakeDamage(u, d).health >= 1
           /\ TakeDamage(u, d).x = u.x /\ TakeDamage(u, d).y = u.y
           /\ TakeDamage(u, d).ap = u.ap /\ TakeDamage(u, d).dead = u.dead
           /\ d >= 0 /\ TakeDamage(u, d).squad > 0
                 => Total(TakeDamage(u, d)) <= Total(u) - d
<1> DEFINE q == Quotient(d, u.health)
           r == Remainder(d, u.health)
           v == TakeDamage(u, d)
<1>1. u.health \in Nat /\ u.squad \in Int
  BY DEF UnitRecord
<1>2. /\ q \in Int /\ r \in Int /\ r < u.health /\ d = u.health * q + r
      /\ d >= 0 => q >= 0 /\ r >= 0
  BY <1>1, DivisionRoundsToZero
<1> HIDE DEF q, r
<1>3. v = [u EXCEPT !.squad = @ - q, !.health = @ - r, !.changed = TRUE]
  BY DEF TakeDamage, q, r
<1> HIDE DEF v
<1>4. /\ v.squad = u.squad - q /\ v.health = u.health - r /\ v \in UnitRecord
      /\ v.x = u.x /\ v.y = u.y /\ v.ap = u.ap /\ v.dead = u.dead
  <2>1. u.squad - q \in Int /\ u.health - r \in Int
    BY <1>1, <1>2
  <2>2. u \in UnitRecord
    OBVIOUS
  <2> HIDE DEF v
  <2> QED
    BY <1>3, <2>1, <2>2 DEF UnitRecord
<1>5. ASSUME d >= 0, v.squad > 0 PROVE Total(v) <= Total(u) - d
  <2> DEFINE s == v.squad - 1
             h == u.health
  <2>1. s \in Nat /\ r \in Nat /\ q \in Nat /\ h \in Nat
    BY <1>1, <1>2, <1>4, <1>5
  <2>2. u.squad = s + 1 + q
    BY <1>1, <1>2, <1>4
  <2> HIDE DEF s, h
  <2>3. (s + 1) * (h - r) = (s + 1) * h - s * r - r
    BY <2>1
  <2>4. (s + 1 + q) * h = (s + 1) * h + h * q
    BY <2>1
  <2>5. s * r \in Nat /\ h * q \in Nat /\ (s + 1) * h \in Nat
    BY <2>1
  <2>6. Total(v) = (s + 1) * (h - r) /\ Total(u) = (s + 1 + q) * h /\ d = h * q + r
    BY <1>1, <1>2, <1>4, <2>2 DEF Total, s, h
  <2> QED
    BY <2>1, <2>3, <2>4, <2>5, <2>6
<1>6. v.health >= 1
  BY <1>1, <1>2, <1>4
<1> QED
  BY <1>4, <1>5, <1>6 DEF v

--------------------------------------------------------------------------------
(* The other operators on units.                                            *)

UnitRows == Rows \cup EdgeRows

OnGrid(x, y) == \/ x \in Columns /\ y \in UnitRows
                \/ x = -200 /\ y = -200

LEMMA NewUnitFacts ==
    ASSUME NEW kind \in Kinds, NEW pos \in Columns \X Rows
    PROVE  /\ NewUnit(kind, pos) \in UnitRecord
           /\ NewUnit(kind, pos).health >= 1
           /\ NewUnit(kind, pos).ap = UnitType[kind].ap
           /\ NewUnit(kind, pos).x \in Columns /\ NewUnit(kind, pos).y \in Rows
           /\ UnitType[kind].ap \in Int
<1>1. /\ UnitType[kind].squad \in Int
      /\ UnitType[kind].health \in Int /\ UnitType[kind].health >= 1
      /\ UnitType[kind].ap \in Int
  BY DEF UnitType, Kinds
<1>2. pos[1] \in Columns /\ pos[2] \in Rows
  OBVIOUS
<1>3. Columns \subseteq Int /\ Rows \subseteq Int
  BY DEF Columns, Rows
<1> QED
  BY <1>1, <1>2, <1>3 DEF NewUnit, UnitRecord

LEMMA UpdateFacts ==
    ASSUME NEW u \in UnitRecord
    PROVE  /\ Update(u) \in UnitRecord
           /\ Update(u).health = u.health /\ Update(u).ap = u.ap
           /\ \/ Update(u).x = u.x /\ Update(u).y = u.y /\ Update(u).dead = u.dead
              \/ Update(u).x = -200 /\ Update(u).y = -200 /\ Update(u).dead
<1>1. CASE u.squad <= 0 /\ ~u.dead
  <2> DEFINE gone == -200
  <2>1. gone \in Int
    OBVIOUS
  <2>2. Update(u) = [u EXCEPT !.x = gone, !.y = gone, !.dead = TRUE]
    BY <1>1 DEF Update
  <2> HIDE DEF gone
  <2>3. /\ Update(u) \in UnitRecord /\ Update(u).x = gone /\ Update(u).y = gone
        /\ Update(u).dead /\ Update(u).health = u.health /\ Update(u).ap = u.ap
    BY <2>1, <2>2 DEF UnitRecord
  <2> QED
    BY <2>3 DEF gone
<1>2. CASE ~(u.squad <= 0 /\ ~u.dead) /\ u.dead
  BY <1>2 DEF Update, UnitRecord
<1>3. CASE ~(u.squad <= 0 /\ ~u.dead) /\ ~u.dead
  BY <1>3 DEF Update, UnitRecord
<1> QED
  BY <1>1, <1>2, <1>3

LEMMA SnapFacts ==
    ASSUME NEW p \in Nat \X Nat, OnBoard(p), NEW all \in BOOLEAN
    PROVE  /\ SnapX(p[1], all) \in Columns
           /\ \/ SnapY(p[2], all) \in Rows
              \/ p[2] < 3 /\ SnapY(p[2], all) = -117
              \/ p[2] = 603 /\ SnapY(p[2], all) = 603
<1> DEFINE px == p[1]
           py == p[2]
           column == (px - 40) \div 120
           row == (py - 3) \div 120
<1>1. px \in 41 .. 1199 /\ py \in Nat
  BY DEF OnBoard
<1>2. column \in 0 .. 9
  BY <1>1, SMTT(30)
<1>3. py - 3 <= 600 => \/ row \in 0 .. 4
                       \/ py < 3 /\ row = -1
                       \/ py = 603 /\ row = 5
  BY <1>1
<1>4. row \in Int
  BY <1>1
<1>5. SnapX(px, all) = column * 120 + 40
  BY <1>1, <1>2, SMTT(30) DEF SnapX
<1>6. SnapY(py, all) = 3 \/ SnapY(py, all) = 483
         \/ (row \in 0 .. 4 /\ SnapY(py, all) = row * 120 + 3)
         \/ (py < 3 /\ SnapY(py, all) = -117)
         \/ (py = 603 /\ SnapY(py, all) = 603)
  BY <1>1, <1>3, <1>4 DEF SnapY
<1> HIDE DEF column, row
<1>7. column * 120 + 40 = 40 + 120 * column
  BY <1>2
<1>8. SnapX(px, all) \in Columns
  BY <1>2, <1>5, <1>7 DEF Columns
<1>9. \/ SnapY(py, all) \in Rows
      \/ py < 3 /\ SnapY(py, all) = -117
      \/ py = 603 /\ SnapY(py, all) = 603
  <2>1. 3 = 3 + 120 * 0 /\ 483 = 3 + 120 * 4
    OBVIOUS
  <2>2. row \in 0 .. 4 => row * 120 + 3 = 3 + 120 * row
    OBVIOUS
  <2> QED
    BY <1>6, <2>1, <2>2 DEF Rows
<1> QED
  BY <1>8, <1>9

LEMMA SetToSeqFacts ==
    ASSUME NEW S, IsFiniteSet(S)
    PROVE  SetToSeq(S) \in Seq(S)
<1> DEFINE n == Cardinality(S)
<1>1. n \in Nat
  BY FS_CardinalityType
<1>2. \E f \in [1 .. n -> S] : IsInjective(f)
  <2>1. PICK m \in Nat : ExistsBijection(1 .. m, S)
    BY FS_NatBijection
  <2>2. m = n
    BY <2>1, FS_CountingElements
  <2>3. PICK f : f \in Bijection(1 .. n, S)
    BY <2>1, <2>2 DEF ExistsBijection
  <2> QED
    BY <2>3 DEF Bijection, Injection, IsInjective
<1>3. SetToSeq(S) \in [1 .. n -> S]
  BY <1>2 DEF SetToSeq
<1> QED
  BY <1>1, <1>3

--------------------------------------------------------------------------------
(* Type correctness, and the health that takeDamage divides by.             *)

(* The winner that an endgame packet names is a team. *)
VictorNamed ==
    \A t \in Teams : \A i \in DOMAIN wire[t] :
        wire[t][i].name = "endgame" => wire[t][i].x \in Teams

Base == TypeOK /\ HealthPositive /\ VictorNamed

LEMMA TeamFacts ==
    /\ Teams = {1, 2}
    /\ \A t \in Teams : Other(t) \in Teams /\ Other(t) # t /\ Other(Other(t)) = t
    /\ \A t, o \in Teams : o = t \/ o = Other(t)
  BY DEF Teams, Other

(* TypeOK of the units of one client, and their health. *)
UnitsOK(board) == board \in [Units -> UnitRecord] /\ \A u \in Units : board[u].health >= 1
WireOK(q) ==
    /\ q \in Seq(PacketRecord)
    /\ \A i \in DOMAIN q : /\ q[i].name \in Units => q[i].health >= 1
                           /\ q[i].name = "endgame" => q[i].x \in Teams

LEMMA BaseParts ==
    Base <=> /\ unit \in [Teams -> [Units -> UnitRecord]]
             /\ \A t \in Teams : UnitsOK(unit[t])
             /\ wire \in [Teams -> Seq(PacketRecord)]
             /\ \A t \in Teams : WireOK(wire[t])
             /\ selected \in [Teams -> SUBSET Units]
             /\ turn \in [Teams -> Teams]
             /\ winner \in [Teams -> {0} \cup Teams]
             /\ inFrame \in [Teams -> BOOLEAN]
             /\ polled \in [Teams -> SUBSET Callbacks]
             /\ click \in [Teams -> [Callbacks -> [pc : PCs, at : Nat \X Nat]]]
             /\ turns \in 0 .. MaxTurns
  BY DEF Base, TypeOK, HealthPositive, VictorNamed, UnitsOK, WireOK

LEMMA BasePrimed ==
    ASSUME unit' \in [Teams -> [Units -> UnitRecord]],
           \A t \in Teams : UnitsOK(unit'[t]),
           wire' \in [Teams -> Seq(PacketRecord)],
           \A t \in Teams : WireOK(wire'[t]),
           selected' \in [Teams -> SUBSET Units],
           turn' \in [Teams -> Teams],
           winner' \in [Teams -> {0} \cup Teams],
           inFrame' \in [Teams -> BOOLEAN],
           polled' \in [Teams -> SUBSET Callbacks],
           click' \in [Teams -> [Callbacks -> [pc : PCs, at : Nat \X Nat]]],
           turns' \in 0 .. MaxTurns
    PROVE  Base'
  BY DEF Base, TypeOK, HealthPositive, VictorNamed, UnitsOK, WireOK

LEMMA BaseInit == Init => Base
<1> SUFFICES ASSUME Init PROVE Base
  OBVIOUS
<1>1. \A u \in Units : /\ Kind[u] \in Kinds /\ Start[u] \in Columns \X Rows
                       /\ NewUnit(Kind[u], Start[u]) \in UnitRecord
                       /\ NewUnit(Kind[u], Start[u]).health >= 1
  BY UnitAssumption, PlaceAssumption, NewUnitFacts
<1>2. \A t \in Teams : UnitsOK(unit[t])
  BY <1>1 DEF Init, UnitsOK
<1>3. unit \in [Teams -> [Units -> UnitRecord]]
  BY <1>1 DEF Init
<1>4. \A t \in Teams : WireOK(wire[t])
  BY DEF Init, WireOK
<1>5. Idle \in [pc : PCs, at : Nat \X Nat]
  BY DEF Idle, PCs
<1>6. turns \in 0 .. MaxTurns
  BY BoundAssumption DEF Init
<1>7. turn \in [Teams -> Teams]
  BY DEF Init, Teams
<1> QED
  BY <1>2, <1>3, <1>4, <1>5, <1>6, <1>7, BaseParts DEF Init

LEMMA ChangedPacketsFacts ==
    ASSUME Base, NEW t \in Teams
    PROVE  /\ WireOK(ChangedPackets(t))
           /\ \A i \in DOMAIN ChangedPackets(t) :
                 \E u \in Units : /\ ChangedPackets(t)[i].name = u /\ u # "endgame"
                                 /\ ChangedPackets(t)[i].x = unit[t][u].x
                                 /\ ChangedPackets(t)[i].y = unit[t][u].y
<1> DEFINE S == {u \in Units : unit[t][u].changed}
           c == SetToSeq(S)
           P(u) == Packet(u, unit[t][u].x, unit[t][u].y, unit[t][u].squad, unit[t][u].health)
<1>1. IsFiniteSet(S)
  BY UnitAssumption, FS_Subset
<1>2. c \in Seq(S)
  BY <1>1, SetToSeqFacts
<1> HIDE DEF c
<1>3. \A i \in DOMAIN c : c[i] \in Units
  BY <1>2
<1>4. ChangedPackets(t) = [i \in DOMAIN c |-> P(c[i])]
  BY DEF ChangedPackets, c
<1>5. ASSUME NEW u \in Units
      PROVE  /\ P(u) \in PacketRecord /\ P(u).health >= 1 /\ P(u).name = u
             /\ P(u).x = unit[t][u].x /\ P(u).y = unit[t][u].y
  <2>1. unit[t][u] \in UnitRecord /\ unit[t][u].health >= 1
    BY BaseParts DEF UnitsOK
  <2>2. u \in Names
    BY DEF Names
  <2> QED
    BY <2>1, <2>2 DEF Packet, PacketRecord, UnitRecord
<1> HIDE DEF P
<1>6. DOMAIN c = 1 .. Len(c) /\ Len(c) \in Nat
  BY <1>2
<1>7. ChangedPackets(t) \in Seq(PacketRecord) /\ DOMAIN ChangedPackets(t) = DOMAIN c
  BY <1>3, <1>4, <1>5, <1>6
<1>8. \A u \in Units : u # "endgame"
  BY UnitAssumption
<1> QED
  BY <1>3, <1>4, <1>5, <1>7, <1>8 DEF WireOK

LEMMA TurnPacketsFacts ==
    ASSUME Base, NEW t \in Teams, NEW endgame \in BOOLEAN
    PROVE  WireOK(TurnPackets(t, endgame))
<1> DEFINE final == Packet("endturn", 0, 0, 0, 0)
           news == Packet("endgame", IF Victor(t) = 1 THEN 1 ELSE 2, 0, 0, 0)
           n == IF endgame THEN <<news>> ELSE <<>>
<1>1. /\ final \in PacketRecord /\ final.name \notin Units
      /\ news \in PacketRecord /\ news.name \notin Units
      /\ final.name # "endgame" /\ news.x \in Teams
  BY UnitAssumption DEF Packet, PacketRecord, Names, Teams
<1>2. WireOK(<<final>>)
  BY <1>1 DEF WireOK
<1>3. WireOK(n)
  BY <1>1 DEF WireOK
<1>4. \A p, q : WireOK(p) /\ WireOK(q) => WireOK(p \o q)
  BY DEF WireOK
<1> QED
  BY <1>2, <1>3, <1>4, ChangedPacketsFacts DEF TurnPackets

(* A step of client t that changes only its own board, to a sound one. *)
LEMMA BoardStep ==
    ASSUME Base, NEW t \in Teams, NEW board, UnitsOK(board),
           unit' = [unit EXCEPT ![t] = board]
    PROVE  /\ unit' \in [Teams -> [Units -> UnitRecord]]
           /\ \A s \in Teams : UnitsOK(unit'[s])
  BY BaseParts DEF UnitsOK

LEMMA ClickStep ==
    ASSUME Base, NEW t \in Teams, NEW k \in Callbacks, NEW c \in [pc : PCs, at : Nat \X Nat],
           click' = [click EXCEPT ![t][k] = c]
    PROVE  click' \in [Teams -> [Callbacks -> [pc : PCs, at : Nat \X Nat]]]
  BY BaseParts

LEMMA StepFacts ==
    ASSUME Base, NEW t \in Teams, NEW k \in Callbacks, NEW pc, NEW next \in PCs,
           Step(t, k, pc, next)
    PROVE  click' \in [Teams -> [Callbacks -> [pc : PCs, at : Nat \X Nat]]]
<1> DEFINE c == [click[t][k] EXCEPT !.pc = next]
<1>0. click[t][k] \in [pc : PCs, at : Nat \X Nat]
  BY BaseParts
<1>1. c \in [pc : PCs, at : Nat \X Nat]
  BY <1>0
<1> HIDE DEF c
<1>2. click' = [click EXCEPT ![t][k] = c]
  BY DEF Step, c
<1> QED
  BY <1>1, <1>2, ClickStep

(* The board of a client after a click that moves, that hits, that ends the  *)
(* turn.                                                                    *)
LEMMA ReplacedOK ==
    ASSUME Base, NEW t \in Teams, NEW u \in Units, NEW w \in UnitRecord, w.health >= 1
    PROVE  UnitsOK([unit[t] EXCEPT ![u] = w])
  BY BaseParts DEF UnitsOK

LEMMA SpendFacts ==
    ASSUME NEW v \in UnitRecord, NEW n \in Int
    PROVE  /\ Spend(v, n) \in UnitRecord
           /\ Spend(v, n).health = v.health /\ Spend(v, n).dead = v.dead
           /\ Spend(v, n).x = v.x /\ Spend(v, n).y = v.y
<1> DEFINE m == v.ap - n
<1>1. m \in Int
  BY DEF UnitRecord
<1> HIDE DEF m
<1>2. Spend(v, n) = [v EXCEPT !.ap = m]
  BY DEF Spend, m
<1> QED
  BY <1>1, <1>2 DEF UnitRecord

LEMMA MovedFacts ==
    ASSUME NEW v \in UnitRecord, NEW x \in Int, NEW y \in Int
    PROVE  /\ Moved(v, x, y) \in UnitRecord
           /\ Moved(v, x, y).health = v.health /\ Moved(v, x, y).dead = v.dead
           /\ Moved(v, x, y).x = x /\ Moved(v, x, y).y = y
<1> DEFINE n == v.ap - 1
<1>1. n \in Int
  BY DEF UnitRecord
<1> HIDE DEF n
<1>2. Moved(v, x, y) = [v EXCEPT !.x = x, !.y = y, !.ap = n, !.changed = TRUE]
  BY DEF Moved, n
<1> QED
  BY <1>1, <1>2 DEF UnitRecord

LEMMA RestedFacts ==
    ASSUME NEW v \in UnitRecord, NEW kind \in Kinds
    PROVE  /\ Rested(kind, v) \in UnitRecord
           /\ Rested(kind, v).health = v.health /\ Rested(kind, v).dead = v.dead
           /\ Rested(kind, v).x = v.x /\ Rested(kind, v).y = v.y
           /\ Rested(kind, v).ap = UnitType[kind].ap
<1>1. UnitType[kind].ap \in Int
  BY DEF UnitType, Kinds
<1> DEFINE n == UnitType[kind].ap
<1> HIDE DEF n
<1>2. n \in Int /\ Rested(kind, v) = [v EXCEPT !.ap = n, !.changed = FALSE]
  BY <1>1 DEF Rested, n
<1>3. /\ Rested(kind, v) \in UnitRecord
      /\ Rested(kind, v).health = v.health /\ Rested(kind, v).dead = v.dead
      /\ Rested(kind, v).x = v.x /\ Rested(kind, v).y = v.y
      /\ Rested(kind, v).ap = n
  BY <1>2 DEF UnitRecord
<1> QED
  BY <1>3 DEF n

LEMMA ToldFacts ==
    ASSUME NEW v \in UnitRecord, NEW m \in PacketRecord
    PROVE  /\ Told(v, m) \in UnitRecord
           /\ Told(v, m).health = m.health /\ Told(v, m).dead = v.dead
           /\ Told(v, m).x = m.x /\ Told(v, m).y = m.y
           /\ Told(v, m).ap = v.ap
<1>1. m.x \in Int /\ m.y \in Int /\ m.squad \in Int /\ m.health \in Int
  BY DEF PacketRecord
<1> QED
  BY <1>1 DEF UnitRecord, Told

LEMMA HitFacts ==
    ASSUME Base, NEW t \in Teams, NEW a \in Units, NEW v \in Units
    PROVE  /\ Hit(t, a, v) \in UnitRecord
           /\ Hit(t, a, v).health >= 1
           /\ Hit(t, a, v).x = unit[t][v].x /\ Hit(t, a, v).y = unit[t][v].y
           /\ Hit(t, a, v).ap = unit[t][v].ap /\ Hit(t, a, v).dead = unit[t][v].dead
           /\ unit[t][a].squad > 0 /\ Hit(t, a, v).squad > 0
                 => Total(Hit(t, a, v)) <= Total(unit[t][v])
                                           - UnitType[Kind[a]].attack * unit[t][a].squad
<1> DEFINE d == Damage(Kind[a], unit[t][a].squad, UnitType[Kind[v]].armour)
<1>1. /\ unit[t][v] \in UnitRecord /\ unit[t][v].health >= 1
      /\ unit[t][a].squad \in Int
  BY BaseParts DEF UnitsOK, UnitRecord
<1>2. Kind[a] \in Kinds /\ Kind[v] \in Kinds
  BY UnitAssumption
<1>3. /\ d \in Int /\ d = UnitType[Kind[a]].attack * unit[t][a].squad
      /\ UnitType[Kind[a]].attack \in Nat
  BY <1>1, <1>2, DamageType
<1>4. unit[t][a].squad > 0 => d >= 0
  BY <1>1, <1>3
<1> HIDE DEF d
<1>5. Hit(t, a, v) = TakeDamage(unit[t][v], d)
  BY DEF Hit, d
<1>6. /\ Hit(t, a, v) \in UnitRecord
      /\ Hit(t, a, v).health >= 1
      /\ Hit(t, a, v).x = unit[t][v].x /\ Hit(t, a, v).y = unit[t][v].y
      /\ Hit(t, a, v).ap = unit[t][v].ap /\ Hit(t, a, v).dead = unit[t][v].dead
      /\ d >= 0 /\ Hit(t, a, v).squad > 0
            => Total(Hit(t, a, v)) <= Total(unit[t][v]) - d
  <2> DEFINE w == unit[t][v]
  <2>1. d \in Int /\ w \in UnitRecord /\ w.health >= 1
    BY <1>1, <1>3
  <2> HIDE DEF w
  <2>2. /\ TakeDamage(w, d) \in UnitRecord
        /\ TakeDamage(w, d).health >= 1
        /\ TakeDamage(w, d).x = w.x /\ TakeDamage(w, d).y = w.y
        /\ TakeDamage(w, d).ap = w.ap /\ TakeDamage(w, d).dead = w.dead
        /\ d >= 0 /\ TakeDamage(w, d).squad > 0
              => Total(TakeDamage(w, d)) <= Total(w) - d
    BY <2>1, TakeDamageFacts
  <2>3. Hit(t, a, v) = TakeDamage(w, d)
    BY <1>5 DEF w
  <2> QED
    BY <2>2, <2>3 DEF w
<1> QED
  BY <1>3, <1>4, <1>6

LEMMA AttackedOK ==
    ASSUME Base, NEW t \in Teams, NEW p, NEW a \in Units
    PROVE  UnitsOK(AfterAttack(t, p, a))
<1>1. IsFiniteSet(Targets(t, p, a))
  BY UnitAssumption, FS_Subset DEF Targets, UnitsAt
<1>2. 2 * Cardinality(Targets(t, p, a)) \in Int
  BY <1>1, FS_CardinalityType
<1>3. \A v \in Units : unit[t][v] \in UnitRecord /\ unit[t][v].health >= 1
  BY BaseParts DEF UnitsOK
<1>4. \A v \in Units : Hit(t, a, v) \in UnitRecord /\ Hit(t, a, v).health >= 1
  BY HitFacts
<1> QED
  BY <1>2, <1>3, <1>4, SpendFacts DEF UnitsOK, AfterAttack

LEMMA RestedOK ==
    ASSUME Base, NEW t \in Teams
    PROVE  UnitsOK([u \in Units |-> Rested(Kind[u], unit[t][u])])
<1>1. \A u \in Units : unit[t][u] \in UnitRecord /\ unit[t][u].health >= 1
  BY BaseParts DEF UnitsOK
<1> QED
  BY <1>1, UnitAssumption, RestedFacts DEF UnitsOK

LEMMA UpdatedOK ==
    ASSUME Base, NEW t \in Teams
    PROVE  UnitsOK([u \in Units |-> Update(unit[t][u])])
<1>1. \A u \in Units : unit[t][u] \in UnitRecord /\ unit[t][u].health >= 1
  BY BaseParts DEF UnitsOK
<1> QED
  BY <1>1, UpdateFacts DEF UnitsOK

LEMMA WireStep ==
    ASSUME Base, NEW t \in Teams, NEW q, WireOK(q), wire' = [wire EXCEPT ![t] = q]
    PROVE  wire' \in [Teams -> Seq(PacketRecord)] /\ \A s \in Teams : WireOK(wire'[s])
  BY BaseParts DEF WireOK

LEMMA ConcatOK ==
    ASSUME NEW p, NEW q, WireOK(p), WireOK(q)
    PROVE  WireOK(p \o q)
  BY DEF WireOK

(* What a step leaves alone keeps its part of Base. *)
LEMMA BaseStepClicks ==
    ASSUME Base, NEW t \in Teams, NEW k \in Callbacks, Callback(t, k)
    PROVE  Base'
<1>a. /\ unit \in [Teams -> [Units -> UnitRecord]]
      /\ \A s \in Teams : UnitsOK(unit[s])
      /\ wire \in [Teams -> Seq(PacketRecord)]
      /\ \A s \in Teams : WireOK(wire[s])
      /\ selected \in [Teams -> SUBSET Units]
      /\ turn \in [Teams -> Teams]
      /\ winner \in [Teams -> {0} \cup Teams]
      /\ inFrame \in [Teams -> BOOLEAN]
      /\ polled \in [Teams -> SUBSET Callbacks]
      /\ click \in [Teams -> [Callbacks -> [pc : PCs, at : Nat \X Nat]]]
      /\ turns \in 0 .. MaxTurns
  BY BaseParts
<1>b. /\ "place" \in PCs /\ "flip" \in PCs /\ "attack" \in PCs /\ "select" \in PCs
      /\ Idle \in [pc : PCs, at : Nat \X Nat]
      /\ \A p \in Points, pc \in PCs :
            [pc |-> pc, at |-> p] \in [pc : PCs, at : Nat \X Nat]
  BY PlaceAssumption DEF PCs, Idle
<1>1. CASE ClickHandler(t, k)
  <2>1. PICK p \in Points : click' = [click EXCEPT ![t][k] = [pc |-> "place", at |-> p]]
    BY <1>1 DEF ClickHandler
  <2>2. click' \in [Teams -> [Callbacks -> [pc : PCs, at : Nat \X Nat]]]
    BY <1>b, <2>1, ClickStep
  <2>3. polled' \in [Teams -> SUBSET Callbacks]
    BY <1>a, <1>1 DEF ClickHandler
  <2> QED
    BY <1>a, <1>1, <2>2, <2>3, BasePrimed DEF ClickHandler
<1>2. CASE NextTurnPressed(t, k)
  <2>1. PICK p \in Points : click' = [click EXCEPT ![t][k] = [pc |-> "flip", at |-> p]]
    BY <1>2 DEF NextTurnPressed
  <2>2. click' \in [Teams -> [Callbacks -> [pc : PCs, at : Nat \X Nat]]]
    BY <1>b, <2>1, ClickStep
  <2>3. unit' \in [Teams -> [Units -> UnitRecord]] /\ \A s \in Teams : UnitsOK(unit'[s])
    BY <1>2, RestedOK, BoardStep DEF NextTurnPressed
  <2>4. PICK fell \in BOOLEAN :
           wire' = [wire EXCEPT ![Other(t)] = @ \o TurnPackets(t, Depleted(t) \/ fell)]
    BY <1>2, BoundAssumption DEF NextTurnPressed
  <2>5. WireOK(wire[Other(t)] \o TurnPackets(t, Depleted(t) \/ fell))
    BY <1>a, TeamFacts, TurnPacketsFacts, ConcatOK
  <2>6. wire' \in [Teams -> Seq(PacketRecord)] /\ \A s \in Teams : WireOK(wire'[s])
    <3> DEFINE q == wire[Other(t)] \o TurnPackets(t, Depleted(t) \/ fell)
    <3>1. Other(t) \in Teams
      BY TeamFacts
    <3>2. wire' = [wire EXCEPT ![Other(t)] = q]
      BY <2>4
    <3>3. WireOK(q)
      BY <2>5
    <3> HIDE DEF q
    <3> QED
      BY <3>1, <3>2, <3>3, WireStep
  <2>7. winner' \in [Teams -> {0} \cup Teams]
    BY <1>a, <1>2 DEF NextTurnPressed, Victor
  <2>8. turns' \in 0 .. MaxTurns
    BY <1>a, <1>2, BoundAssumption DEF NextTurnPressed
  <2>9. selected' \in [Teams -> SUBSET Units]
    BY <1>a, <1>2 DEF NextTurnPressed
  <2>10. polled' \in [Teams -> SUBSET Callbacks]
    BY <1>a, <1>2 DEF NextTurnPressed
  <2>11. turn' = turn /\ inFrame' = inFrame
    BY <1>2 DEF NextTurnPressed
  <2> QED
    BY <1>a, <2>2, <2>3, <2>6, <2>7, <2>8, <2>9, <2>10, <2>11, BasePrimed
<1>3. CASE FlipTurn(t, k)
  <2>1. click' \in [Teams -> [Callbacks -> [pc : PCs, at : Nat \X Nat]]]
    BY <1>b, <1>3, StepFacts DEF FlipTurn
  <2>2. turn' \in [Teams -> Teams]
    BY <1>a, <1>3, TeamFacts DEF FlipTurn
  <2> QED
    BY <1>a, <1>3, <2>1, <2>2, BasePrimed DEF FlipTurn
<1>4. CASE PlaceUnitAtClick(t, k)
  <2> DEFINE p == click[t][k].at
  <2>1. click' \in [Teams -> [Callbacks -> [pc : PCs, at : Nat \X Nat]]]
    BY <1>b, <1>4, StepFacts DEF PlaceUnitAtClick
  <2>2. p \in Nat \X Nat
    <3>1. click[t][k] \in [pc : PCs, at : Nat \X Nat]
      BY <1>a
    <3> QED
      BY <3>1
  <2>3. ASSUME unit' # unit
        PROVE  unit' \in [Teams -> [Units -> UnitRecord]] /\ \A s \in Teams : UnitsOK(unit'[s])
    <3> DEFINE all == Cardinality(selected[t]) = 8
    <3>1. PICK u \in Movers(t, p) :
             \E x \in Outcomes(t, u, SnapX(p[1], all), unit[t][u].x),
                y \in Outcomes(t, u, SnapY(p[2], all), unit[t][u].y) :
                   unit' = [unit EXCEPT ![t][u] = Moved(@, x, y)]
      BY <1>4, <2>3 DEF PlaceUnitAtClick
    <3>2. u \in Units /\ OnBoard(p)
      BY <1>a DEF Movers
    <3>3. unit[t][u] \in UnitRecord /\ unit[t][u].health >= 1
      BY <1>a, <3>2 DEF UnitsOK
    <3>b. SnapX(p[1], all) \in Columns
          /\ \/ SnapY(p[2], all) \in Rows
             \/ p[2] < 3 /\ SnapY(p[2], all) = -117
             \/ p[2] = 603 /\ SnapY(p[2], all) = 603
      <4>1. all \in BOOLEAN
        OBVIOUS
      <4> HIDE DEF all, p
      <4> QED
        BY <2>2, <3>2, <4>1, SnapFacts
    <3>4. SnapX(p[1], all) \in Columns /\ SnapY(p[2], all) \in Rows \cup {-117, 603}
      BY <3>b
    <3>5. SnapX(p[1], all) \in Int /\ SnapY(p[2], all) \in Int
      BY <3>4 DEF Columns, Rows
    <3>6. unit[t][u].x \in Int /\ unit[t][u].y \in Int
      BY <3>3 DEF UnitRecord
    <3>7. PICK x \in Outcomes(t, u, SnapX(p[1], all), unit[t][u].x),
               y \in Outcomes(t, u, SnapY(p[2], all), unit[t][u].y) :
             unit' = [unit EXCEPT ![t][u] = Moved(@, x, y)]
      BY <3>1
    <3>71. x \in Int /\ y \in Int
      BY <3>5, <3>6 DEF Outcomes
    <3> DEFINE w == Moved(unit[t][u], x, y)
    <3>8. w \in UnitRecord /\ w.health >= 1
      BY <3>3, <3>71, MovedFacts
    <3>9. unit' = [unit EXCEPT ![t][u] = w]
      BY <3>7
    <3> HIDE DEF w
    <3>10. unit' = [unit EXCEPT ![t] = [unit[t] EXCEPT ![u] = w]]
      BY <1>a, <3>9
    <3> QED
      BY <3>2, <3>8, <3>10, ReplacedOK, BoardStep
  <2> QED
    BY <1>a, <1>4, <2>1, <2>3, BasePrimed DEF PlaceUnitAtClick
<1>5. CASE AttackClickedUnit(t, k)
  <2> DEFINE p == click[t][k].at
  <2>1. click' \in [Teams -> [Callbacks -> [pc : PCs, at : Nat \X Nat]]]
    BY <1>b, <1>5, StepFacts DEF AttackClickedUnit
  <2>2. ASSUME unit' # unit
        PROVE  unit' \in [Teams -> [Units -> UnitRecord]] /\ \A s \in Teams : UnitsOK(unit'[s])
    <3>1. PICK a \in Attackers(t, p) : unit' = [unit EXCEPT ![t] = AfterAttack(t, p, a)]
      BY <1>5, <2>2 DEF AttackClickedUnit
    <3>2. a \in Units
      BY <1>a DEF Attackers
    <3>3. UnitsOK(AfterAttack(t, p, a))
      BY <3>2, AttackedOK
    <3> QED
      BY <3>1, <3>3, BoardStep
  <2> QED
    BY <1>a, <1>5, <2>1, <2>2, BasePrimed DEF AttackClickedUnit
<1>6. CASE SetSelected(t, k)
  <2>1. click' \in [Teams -> [Callbacks -> [pc : PCs, at : Nat \X Nat]]]
    BY <1>b, <1>6, ClickStep DEF SetSelected
  <2>2. selected' \in [Teams -> SUBSET Units]
    BY <1>a, <1>6 DEF SetSelected, Toggle, Army
  <2> QED
    BY <1>a, <1>6, <2>1, <2>2, BasePrimed DEF SetSelected
<1> QED
  BY <1>1, <1>2, <1>3, <1>4, <1>5, <1>6 DEF Callback

LEMMA BaseStepFrames ==
    ASSUME Base, NEW t \in Teams, MainThread(t)
    PROVE  Base'
<1>a. /\ unit \in [Teams -> [Units -> UnitRecord]]
      /\ \A s \in Teams : UnitsOK(unit[s])
      /\ wire \in [Teams -> Seq(PacketRecord)]
      /\ \A s \in Teams : WireOK(wire[s])
      /\ selected \in [Teams -> SUBSET Units]
      /\ turn \in [Teams -> Teams]
      /\ winner \in [Teams -> {0} \cup Teams]
      /\ inFrame \in [Teams -> BOOLEAN]
      /\ polled \in [Teams -> SUBSET Callbacks]
      /\ click \in [Teams -> [Callbacks -> [pc : PCs, at : Nat \X Nat]]]
      /\ turns \in 0 .. MaxTurns
  BY BaseParts
<1>1. CASE Frame(t)
  <2>1. unit' \in [Teams -> [Units -> UnitRecord]] /\ \A s \in Teams : UnitsOK(unit'[s])
    BY <1>a, <1>1, UpdatedOK, BoardStep DEF Frame
  <2>2. inFrame' \in [Teams -> BOOLEAN] /\ polled' \in [Teams -> SUBSET Callbacks]
    BY <1>a, <1>1 DEF Frame
  <2> QED
    BY <1>a, <1>1, <2>1, <2>2, BasePrimed DEF Frame
<1>2. CASE ApplyPacket(t)
  <2> DEFINE m == Head(wire[t])
  <2>1. wire[t] \in Seq(PacketRecord) /\ wire[t] # <<>> /\ WireOK(wire[t])
    BY <1>a, <1>2 DEF ApplyPacket
  <2>2. /\ m \in PacketRecord
        /\ m.name \in Units => m.health >= 1
        /\ m.name = "endgame" => m.x \in Teams
        /\ WireOK(Tail(wire[t]))
    BY <2>1 DEF WireOK
  <2>3. wire' \in [Teams -> Seq(PacketRecord)] /\ \A s \in Teams : WireOK(wire'[s])
    BY <1>2, <2>2, WireStep DEF ApplyPacket
  <2>4. turn' \in [Teams -> Teams]
    BY <1>a, <1>2, TeamFacts DEF ApplyPacket
  <2>5. winner' \in [Teams -> {0} \cup Teams]
    BY <1>a, <1>2, <2>2 DEF ApplyPacket
  <2>6. unit' \in [Teams -> [Units -> UnitRecord]] /\ \A s \in Teams : UnitsOK(unit'[s])
    <3>1. CASE m.name \in Units
      <4> DEFINE w == Told(unit[t][m.name], m)
      <4>1. w \in UnitRecord /\ w.health >= 1
        BY <1>a, <2>2, <3>1, ToldFacts DEF UnitsOK
      <4>2. unit' = [unit EXCEPT ![t][m.name] = w]
        BY <1>2, <3>1 DEF ApplyPacket
      <4> HIDE DEF w
      <4>3. unit' = [unit EXCEPT ![t] = [unit[t] EXCEPT ![m.name] = w]]
        BY <1>a, <4>2
      <4> QED
        BY <3>1, <4>1, <4>3, ReplacedOK, BoardStep
    <3>2. CASE m.name \notin Units
      BY <1>a, <1>2, <3>2 DEF ApplyPacket
    <3> QED
      BY <3>1, <3>2
  <2> QED
    BY <1>a, <1>2, <2>3, <2>4, <2>5, <2>6, BasePrimed DEF ApplyPacket
<1>3. CASE FrameEnd(t)
  <2>1. inFrame' \in [Teams -> BOOLEAN]
    BY <1>a, <1>3 DEF FrameEnd
  <2> QED
    BY <1>a, <1>3, <2>1, BasePrimed DEF FrameEnd
<1> QED
  BY <1>1, <1>2, <1>3 DEF MainThread

LEMMA BaseStep == Base /\ [Next]_vars => Base'
<1> SUFFICES ASSUME Base, [Next]_vars PROVE Base'
  OBVIOUS
<1>1. CASE Next
  BY <1>1, BaseStepClicks, BaseStepFrames DEF Next
<1>2. CASE UNCHANGED vars
  BY <1>2 DEF vars, Base, TypeOK, HealthPositive, VictorNamed
<1> QED
  BY <1>1, <1>2

(* Base, the types and shapes the other proofs start from, is invariant.    *)
THEOREM BaseHolds == Spec => []Base
  BY BaseInit, BaseStep, PTL DEF Spec

(* Every variable of the battle keeps its type, and every unit and packet    *)
(* the shape of a unit, whatever is clicked where and whenever.              *)
THEOREM TypeCorrect == Spec => []TypeOK
<1>1. Base => TypeOK
  BY DEF Base
<1> QED
  BY <1>1, BaseHolds, PTL

(* takeDamage never divides by zero: no sequence of hits, of any size, on    *)
(* either client takes the health of a unit to zero.                        *)
THEOREM HealthStaysPositive == Spec => []HealthPositive
<1>1. Base => HealthPositive
  BY DEF Base
<1> QED
  BY <1>1, BaseHolds, PTL

--------------------------------------------------------------------------------
(* Whose turn it is.  A callback is between sending the endturn and flipping *)
(* the turn of its client, or it is not; with one callback at a time, the    *)
(* turn that a client is about to have, and what is on its way, say who      *)
(* holds the turn.                                                          *)

Flipping(t) == \E k \in Callbacks : click[t][k].pc = "flip"
Side(t) == IF Flipping(t) THEN Other(turn[t]) ELSE turn[t]
Resting(t) == turn[t] # t \/ Flipping(t)

EndsTurn(q) == q # <<>> /\ \A i \in DOMAIN q : q[i].name = "endturn" <=> i = Len(q)

Holds(t) == /\ Side(t) = t /\ Side(Other(t)) = t
            /\ wire[t] = <<>> /\ wire[Other(t)] = <<>>
Passing(t) == /\ Side(t) = Other(t) /\ Side(Other(t)) = t
              /\ wire[t] = <<>> /\ EndsTurn(wire[Other(t)])

TurnInv ==
    /\ \E t \in Teams : Holds(t) \/ Passing(t)
    /\ \A t \in Teams : Resting(t) =>
          selected[t] = {} /\ \A u \in Army(t) : unit[t][u].ap = UnitType[Kind[u]].ap

LEMMA TurnPacketsEndTurn ==
    ASSUME Base, NEW t \in Teams, NEW endgame \in BOOLEAN
    PROVE  EndsTurn(TurnPackets(t, endgame))
<1> DEFINE c == ChangedPackets(t)
           final == Packet("endturn", 0, 0, 0, 0)
           news == Packet("endgame", IF Victor(t) = 1 THEN 1 ELSE 2, 0, 0, 0)
           n == IF endgame THEN <<news>> ELSE <<>>
<1>1. c \in Seq(PacketRecord) /\ \A i \in 1 .. Len(c) : c[i].name # "endturn"
  <2>1. c \in Seq(PacketRecord)
    BY ChangedPacketsFacts DEF WireOK
  <2>2. \A i \in DOMAIN c : c[i].name \in Units
    BY ChangedPacketsFacts
  <2> QED
    BY <2>1, <2>2, UnitAssumption
<1>2. /\ final \in PacketRecord /\ final.name = "endturn"
      /\ news \in PacketRecord /\ news.name # "endturn"
  BY DEF Packet, PacketRecord, Names
<1>3. n \in Seq(PacketRecord) /\ \A i \in 1 .. Len(n) : n[i].name # "endturn"
  BY <1>2
<1>4. TurnPackets(t, endgame) = c \o n \o <<final>>
  BY DEF TurnPackets
<1> HIDE DEF c, n, final
<1> DEFINE d == c \o n
<1>5. d \in Seq(PacketRecord) /\ \A i \in 1 .. Len(d) : d[i].name # "endturn"
  BY <1>1, <1>3
<1> HIDE DEF d
<1>6. EndsTurn(d \o <<final>>)
  BY <1>2, <1>5 DEF EndsTurn
<1> QED
  BY <1>4, <1>6 DEF d

LEMMA TurnInit == Init => TurnInv
<1> SUFFICES ASSUME Init PROVE TurnInv
  OBVIOUS
<1>1. \A t \in Teams : ~Flipping(t)
  BY DEF Init, Flipping, Idle
<1>2. Holds(1)
  BY <1>1 DEF Init, Holds, Side, Other, Teams
<1>3. \A t \in Teams : selected[t] = {}
  BY DEF Init
<1>4. \A t \in Teams, u \in Units : unit[t][u].ap = UnitType[Kind[u]].ap
  BY UnitAssumption, PlaceAssumption, NewUnitFacts DEF Init
<1> QED
  BY <1>2, <1>3, <1>4 DEF TurnInv, Teams, Army

(* Not flipping, a client is resting exactly when its side is not its own.   *)
LEMMA SideFacts ==
    ASSUME Base, NEW t \in Teams
    PROVE  /\ Side(t) # t => Resting(t)
           /\ ~Resting(t) => Side(t) = t
           /\ Side(t) \in Teams
  BY BaseParts, TeamFacts DEF Side, Resting

(* A step of callback k of client t that neither begins nor ends a flip, and *)
(* leaves turns and wires alone, keeps TurnInv if it leaves a resting client *)
(* alone.                                                                   *)
LEMMA QuietStep ==
    ASSUME Base, TurnInv, UNCHANGED <<turn, wire>>,
           \A s \in Teams : (Flipping(s)' <=> Flipping(s)),
           \A s \in Teams : Resting(s) =>
               selected'[s] = {} /\ \A u \in Units : unit'[s][u].ap = unit[s][u].ap
    PROVE  TurnInv'
<1>1. \A s \in Teams : Side(s)' = Side(s) /\ (Resting(s)' <=> Resting(s))
  BY DEF Side, Resting
<1>2. \A s \in Teams : (Holds(s)' <=> Holds(s)) /\ (Passing(s)' <=> Passing(s))
  BY <1>1, TeamFacts DEF Holds, Passing
<1> QED
  BY <1>1, <1>2 DEF TurnInv, Army

LEMMA FlippingStep ==
    ASSUME OneClickPerPoll, Base, NEW t \in Teams, NEW k \in Callbacks,
           NEW c \in [pc : PCs, at : Nat \X Nat], click' = [click EXCEPT ![t][k] = c]
    PROVE  /\ Flipping(t) <=> click[t][k].pc = "flip"
           /\ Flipping(t)' <=> c.pc = "flip"
           /\ \A s \in Teams : s # t => (Flipping(s)' <=> Flipping(s))
<1>1. click \in [Teams -> [Callbacks -> [pc : PCs, at : Nat \X Nat]]]
  BY BaseParts
<1>2. \A j \in Callbacks : j = k
  BY DEF OneClickPerPoll
<1>3. click'[t][k] = c /\ \A s \in Teams : s # t => click'[s] = click[s]
  BY <1>1
<1> QED
  BY <1>2, <1>3 DEF Flipping

LEMMA StepIsClick ==
    ASSUME Base, NEW t \in Teams, NEW k \in Callbacks, NEW pc, NEW next \in PCs,
           Step(t, k, pc, next)
    PROVE  \E c \in [pc : PCs, at : Nat \X Nat] :
              /\ c.pc = next /\ c.at = click[t][k].at
              /\ click' = [click EXCEPT ![t][k] = c]
<1> DEFINE c == [click[t][k] EXCEPT !.pc = next]
<1>1. click[t][k] \in [pc : PCs, at : Nat \X Nat]
  BY BaseParts
<1>2. c \in [pc : PCs, at : Nat \X Nat] /\ c.pc = next /\ c.at = click[t][k].at
  BY <1>1
<1> HIDE DEF c
<1>3. click' = [click EXCEPT ![t][k] = c]
  BY DEF Step, c
<1> QED
  BY <1>2, <1>3

LEMMA TurnStepClicks ==
    ASSUME OneClickPerPoll, Base, TurnInv, NEW t \in Teams, NEW k \in Callbacks, Callback(t, k)
    PROVE  TurnInv'
<1>a. /\ unit \in [Teams -> [Units -> UnitRecord]]
      /\ wire \in [Teams -> Seq(PacketRecord)]
      /\ selected \in [Teams -> SUBSET Units]
      /\ turn \in [Teams -> Teams]
      /\ click \in [Teams -> [Callbacks -> [pc : PCs, at : Nat \X Nat]]]
  BY BaseParts
<1>b. /\ "place" \in PCs /\ "flip" \in PCs /\ "attack" \in PCs /\ "select" \in PCs
      /\ Idle \in [pc : PCs, at : Nat \X Nat] /\ Idle.pc # "flip"
      /\ \A p \in Points, pc \in PCs :
            [pc |-> pc, at |-> p] \in [pc : PCs, at : Nat \X Nat]
  BY PlaceAssumption DEF PCs, Idle
<1>1. CASE ClickHandler(t, k)
  <2>1. PICK p \in Points : click' = [click EXCEPT ![t][k] = [pc |-> "place", at |-> p]]
    BY <1>1 DEF ClickHandler
  <2>2. \A s \in Teams : (Flipping(s)' <=> Flipping(s))
    <3>1. click[t][k].pc = "idle"
      BY <1>1 DEF ClickHandler
    <3> DEFINE c == [pc |-> "place", at |-> p]
    <3>2. c \in [pc : PCs, at : Nat \X Nat] /\ c.pc = "place"
      BY <1>b
    <3>3. click' = [click EXCEPT ![t][k] = c]
      BY <2>1
    <3> HIDE DEF c
    <3> QED
      BY <3>1, <3>2, <3>3, FlippingStep
  <2> QED
    BY <1>1, <2>2, QuietStep DEF ClickHandler, TurnInv
<1>2. CASE NextTurnPressed(t, k)
  <2> DEFINE o == Other(t)
  <2>0. o \in Teams /\ o # t /\ Other(o) = t /\ \A s \in Teams : s = t \/ s = o
    BY TeamFacts
  <2>1. PICK p \in Points : click' = [click EXCEPT ![t][k] = [pc |-> "flip", at |-> p]]
    BY <1>2 DEF NextTurnPressed
  <2>2. ~Flipping(t) /\ Flipping(t)' /\ (Flipping(o)' <=> Flipping(o))
    <3>1. click[t][k].pc = "idle"
      BY <1>2 DEF NextTurnPressed
    <3> DEFINE c == [pc |-> "flip", at |-> p]
    <3>2. c \in [pc : PCs, at : Nat \X Nat] /\ c.pc = "flip"
      BY <1>b
    <3>3. click' = [click EXCEPT ![t][k] = c]
      BY <2>1
    <3> HIDE DEF c
    <3> QED
      BY <2>0, <3>1, <3>2, <3>3, FlippingStep
  <2>3. turn[t] = t /\ turn' = turn
    BY <1>2 DEF NextTurnPressed
  <2>4. Holds(t)
    <3>1. Side(t) = t
      BY <2>2, <2>3 DEF Side
    <3> QED
      BY <2>0, <3>1 DEF TurnInv, Holds, Passing
  <2>5. PICK fell \in BOOLEAN :
           wire' = [wire EXCEPT ![o] = @ \o TurnPackets(t, Depleted(t) \/ fell)]
    BY <1>2, BoundAssumption DEF NextTurnPressed
  <2> DEFINE sent == TurnPackets(t, Depleted(t) \/ fell)
  <2>6. EndsTurn(sent) /\ sent \in Seq(PacketRecord)
    BY TurnPacketsEndTurn, TurnPacketsFacts DEF WireOK
  <2> HIDE DEF sent
  <2>7. wire'[o] = sent /\ wire'[t] = <<>>
    <3>1. wire' = [wire EXCEPT ![o] = @ \o sent]
      BY <2>5 DEF sent
    <3>2. wire[o] = <<>> /\ wire[t] = <<>>
      BY <2>4 DEF Holds
    <3>3. <<>> \o sent = sent
      BY <2>6
    <3> QED
      BY <1>a, <2>0, <3>1, <3>2, <3>3
  <2>8. Passing(t)'
    BY <2>0, <2>2, <2>3, <2>4, <2>6, <2>7 DEF Passing, Side, Holds
  <2>9. selected'[t] = {} /\ selected'[o] = selected[o] /\ unit'[o] = unit[o]
    BY <1>2, <1>a, <2>0 DEF NextTurnPressed
  <2>10. \A u \in Units : unit'[t][u].ap = UnitType[Kind[u]].ap
    <3>1. \A u \in Units : unit'[t][u] = Rested(Kind[u], unit[t][u])
      BY <1>2, <1>a DEF NextTurnPressed
    <3> QED
      BY <1>a, <3>1, UnitAssumption, RestedFacts
  <2>11. (Resting(o)' <=> Resting(o))
    BY <2>2, <2>3 DEF Resting
  <2> QED
    BY <2>0, <2>8, <2>9, <2>10, <2>11 DEF TurnInv, Army
<1>3. CASE FlipTurn(t, k)
  <2>1. PICK c \in [pc : PCs, at : Nat \X Nat] :
           c.pc = "place" /\ click' = [click EXCEPT ![t][k] = c]
    BY <1>b, <1>3, StepIsClick DEF FlipTurn
  <2>2. /\ Flipping(t) /\ ~Flipping(t)'
        /\ \A s \in Teams : s # t => (Flipping(s)' <=> Flipping(s))
    <3>1. click[t][k].pc = "flip"
      BY <1>3 DEF FlipTurn, Step
    <3> QED
      BY <2>1, <3>1, FlippingStep
  <2>3. /\ turn'[t] = Other(turn[t])
        /\ \A s \in Teams : s # t => turn'[s] = turn[s]
        /\ UNCHANGED <<wire, selected, unit>>
    BY <1>3, <1>a DEF FlipTurn
  <2>4. \A s \in Teams : Side(s)' = Side(s)
    BY <2>2, <2>3 DEF Side
  <2>5. \A s \in Teams : (Holds(s)' <=> Holds(s)) /\ (Passing(s)' <=> Passing(s))
    BY <2>3, <2>4, TeamFacts DEF Holds, Passing
  <2>6. \A s \in Teams : Resting(s)' => Resting(s)
    BY <2>2, <2>3 DEF Resting
  <2> QED
    BY <2>3, <2>5, <2>6 DEF TurnInv
<1>4. CASE PlaceUnitAtClick(t, k)
  <2>1. PICK c \in [pc : PCs, at : Nat \X Nat] :
           c.pc = "attack" /\ click' = [click EXCEPT ![t][k] = c]
    BY <1>b, <1>4, StepIsClick DEF PlaceUnitAtClick
  <2>2. \A s \in Teams : (Flipping(s)' <=> Flipping(s))
    <3>1. click[t][k].pc = "place"
      BY <1>4 DEF PlaceUnitAtClick, Step
    <3> QED
      BY <2>1, <3>1, FlippingStep
  <2>3. UNCHANGED <<turn, wire, selected>>
    BY <1>4 DEF PlaceUnitAtClick
  <2>4. \A s \in Teams : Resting(s) => unit'[s] = unit[s]
    <3>1. \A s \in Teams : s # t => unit'[s] = unit[s]
      BY <1>4, <1>a DEF PlaceUnitAtClick
    <3>2. Resting(t) => unit' = unit
      BY <1>4 DEF TurnInv, PlaceUnitAtClick, Movers
    <3> QED
      BY <3>1, <3>2
  <2> QED
    BY <2>2, <2>3, <2>4, QuietStep DEF TurnInv
<1>5. CASE AttackClickedUnit(t, k)
  <2>1. PICK c \in [pc : PCs, at : Nat \X Nat] :
           c.pc = "select" /\ click' = [click EXCEPT ![t][k] = c]
    BY <1>b, <1>5, StepIsClick DEF AttackClickedUnit
  <2>2. \A s \in Teams : (Flipping(s)' <=> Flipping(s))
    <3>1. click[t][k].pc = "attack"
      BY <1>5 DEF AttackClickedUnit, Step
    <3> QED
      BY <2>1, <3>1, FlippingStep
  <2>3. UNCHANGED <<turn, wire, selected>>
    BY <1>5 DEF AttackClickedUnit
  <2>4. \A s \in Teams : Resting(s) => unit'[s] = unit[s]
    <3>1. \A s \in Teams : s # t => unit'[s] = unit[s]
      BY <1>5, <1>a DEF AttackClickedUnit
    <3>2. Resting(t) => unit' = unit
      BY <1>5 DEF TurnInv, AttackClickedUnit, Attackers
    <3> QED
      BY <3>1, <3>2
  <2> QED
    BY <2>2, <2>3, <2>4, QuietStep DEF TurnInv
<1>6. CASE SetSelected(t, k)
  <2>1. ~Flipping(t) /\ \A s \in Teams : (Flipping(s)' <=> Flipping(s))
    BY <1>b, <1>6, FlippingStep DEF SetSelected
  <2>2. UNCHANGED <<turn, wire, unit>>
    BY <1>6 DEF SetSelected
  <2>3. \A s \in Teams : Resting(s) => selected'[s] = selected[s]
    BY <1>6, <1>a, <2>1 DEF SetSelected, Resting
  <2> QED
    BY <2>1, <2>2, <2>3, QuietStep DEF TurnInv
<1> QED
  BY <1>1, <1>2, <1>3, <1>4, <1>5, <1>6 DEF Callback

LEMMA TailFacts ==
    ASSUME NEW S, NEW q \in Seq(S), q # <<>>
    PROVE  /\ Tail(q) \in Seq(S)
           /\ Len(q) \in Nat \ {0}
           /\ Len(Tail(q)) = Len(q) - 1
           /\ Head(q) = q[1] /\ Head(q) \in S
           /\ \A i \in 1 .. Len(q) - 1 : Tail(q)[i] = q[i + 1]
  OBVIOUS

LEMMA EndsTurnTail ==
    ASSUME NEW q \in Seq(PacketRecord), EndsTurn(q), Len(q) # 1
    PROVE  EndsTurn(Tail(q))
<1>0. /\ Tail(q) \in Seq(PacketRecord)
      /\ Len(q) \in Nat \ {0}
      /\ Len(Tail(q)) = Len(q) - 1
      /\ \A i \in 1 .. Len(q) - 1 : Tail(q)[i] = q[i + 1]
  BY TailFacts DEF EndsTurn
<1>1. Len(q) \in Nat /\ Len(q) > 1
  BY <1>0
<1>2. /\ Len(Tail(q)) = Len(q) - 1
      /\ DOMAIN Tail(q) = 1 .. Len(q) - 1 /\ Tail(q) # <<>>
      /\ \A i \in 1 .. Len(q) - 1 : Tail(q)[i] = q[i + 1]
  <2> DEFINE r == Tail(q)
  <2>1. r \in Seq(PacketRecord) /\ Len(r) = Len(q) - 1
    BY <1>0
  <2> HIDE DEF r
  <2>2. DOMAIN r = 1 .. Len(r)
    BY <2>1
  <2>3. r # <<>>
    <3>1. Len(r) # 0
      BY <1>1, <2>1
    <3> QED
      BY <3>1
  <2> QED
    BY <1>0, <2>1, <2>2, <2>3 DEF r
<1>3. \A i \in 1 .. Len(q) : q[i].name = "endturn" <=> i = Len(q)
  BY DEF EndsTurn
<1>4. ASSUME NEW i \in 1 .. Len(q) - 1
      PROVE  Tail(q)[i].name = "endturn" <=> i = Len(q) - 1
  <2>1. i + 1 \in 1 .. Len(q) /\ Tail(q)[i] = q[i + 1]
    BY <1>1, <1>2
  <2>2. q[i + 1].name = "endturn" <=> i + 1 = Len(q)
    BY <1>3, <2>1
  <2> QED
    BY <1>1, <2>1, <2>2
<1> QED
  BY <1>2, <1>4 DEF EndsTurn

LEMMA TurnStepFrames ==
    ASSUME Base, TurnInv, NEW t \in Teams, MainThread(t)
    PROVE  TurnInv'
<1>a. /\ unit \in [Teams -> [Units -> UnitRecord]]
      /\ wire \in [Teams -> Seq(PacketRecord)]
      /\ turn \in [Teams -> Teams]
  BY BaseParts
<1>1. CASE Frame(t)
  <2>1. UNCHANGED <<turn, wire, selected, click>>
    BY <1>1 DEF Frame
  <2>2. \A s \in Teams : Flipping(s)' <=> Flipping(s)
    BY <2>1 DEF Flipping
  <2>3. \A s \in Teams, u \in Units : unit'[s][u].ap = unit[s][u].ap
    <3>1. \A s \in Teams, u \in Units :
             unit'[s][u] = unit[s][u] \/ unit'[s][u] = Update(unit[s][u])
      <4>1. \/ unit' = unit
            \/ unit' = [unit EXCEPT ![t] = [u \in Units |-> Update(unit[t][u])]]
        BY <1>1 DEF Frame
      <4> QED
        BY <1>a, <4>1, SMTT(30)
    <3> QED
      BY <1>a, <3>1, UpdateFacts
  <2> QED
    BY <2>1, <2>2, <2>3, QuietStep DEF TurnInv
<1>2. CASE ApplyPacket(t)
  <2> DEFINE o == Other(t)
             m == Head(wire[t])
  <2>0. o \in Teams /\ o # t /\ Other(o) = t /\ \A s \in Teams : s = t \/ s = o
    BY TeamFacts
  <2>1. wire[t] # <<>> /\ wire' = [wire EXCEPT ![t] = Tail(@)] /\ UNCHANGED <<selected, click>>
    BY <1>2 DEF ApplyPacket
  <2>2. Passing(o)
    BY <2>0, <2>1 DEF TurnInv, Holds, Passing
  <2>3. \A s \in Teams : Flipping(s)' <=> Flipping(s)
    BY <2>1 DEF Flipping
  <2>4. Resting(t)
    BY <2>0, <2>2, SideFacts DEF Passing
  <2>5. \A s \in Teams, u \in Units : unit'[s][u].ap = unit[s][u].ap
    <3>1. m \in PacketRecord
      BY <1>a, <2>1
    <3>2. \A s \in Teams, u \in Units :
             unit'[s][u] = unit[s][u] \/ unit'[s][u] = Told(unit[s][u], m)
      BY <1>2, <1>a DEF ApplyPacket
    <3>3. \A s \in Teams, u \in Units : unit[s][u] \in UnitRecord
      BY <1>a
    <3>4. \A s \in Teams, u \in Units : Told(unit[s][u], m).ap = unit[s][u].ap
      BY <3>1, <3>3, ToldFacts
    <3> QED
      BY <3>2, <3>4
  <2>6. wire'[t] = Tail(wire[t]) /\ wire'[o] = <<>> /\ EndsTurn(wire[t])
    BY <1>a, <2>0, <2>1, <2>2 DEF Passing
  <2>7. CASE m.name = "endturn"
    <3>1. wire'[t] = <<>>
      BY <1>a, <2>1, <2>6, <2>7 DEF EndsTurn
    <3>2. turn'[t] = Other(turn[t]) /\ turn'[o] = turn[o]
      BY <1>2, <1>a, <2>0, <2>7 DEF ApplyPacket
    <3>3. Side(t)' = t /\ Side(o)' = t
      BY <1>a, <2>0, <2>2, <2>3, <3>2, TeamFacts DEF Side, Passing
    <3>4. Holds(t)'
      BY <2>6, <3>1, <3>3 DEF Holds
    <3>5. Resting(o)' => Resting(o)
      BY <2>0, <2>3, <3>2 DEF Resting
    <3> QED
      BY <2>0, <2>1, <2>4, <2>5, <3>4, <3>5 DEF TurnInv, Army
  <2>8. CASE m.name # "endturn"
    <3>1. EndsTurn(Tail(wire[t]))
      <4>1. wire[t] \in Seq(PacketRecord) /\ wire[t] # <<>> /\ m = wire[t][1]
        BY <1>a, <2>1
      <4>2. Len(wire[t]) # 1
        BY <2>6, <2>8, <4>1 DEF EndsTurn
      <4> QED
        BY <2>6, <4>1, <4>2, EndsTurnTail
    <3>2. turn' = turn
      BY <1>2, <2>8 DEF ApplyPacket
    <3>3. \A s \in Teams : Side(s)' = Side(s) /\ (Resting(s)' <=> Resting(s))
      BY <2>3, <3>2 DEF Side, Resting
    <3>4. Passing(o)'
      BY <2>0, <2>2, <2>6, <3>1, <3>3 DEF Passing
    <3> QED
      BY <2>0, <2>1, <2>5, <3>3, <3>4 DEF TurnInv, Army
  <2> QED
    BY <2>7, <2>8
<1>3. CASE FrameEnd(t)
  <2>1. UNCHANGED <<unit, selected, turn, click, wire>>
    BY <1>3 DEF FrameEnd
  <2>2. \A s \in Teams : Flipping(s)' <=> Flipping(s)
    BY <2>1 DEF Flipping
  <2> QED
    BY <2>1, <2>2, QuietStep DEF TurnInv
<1> QED
  BY <1>1, <1>2, <1>3 DEF MainThread

LEMMA TurnStep ==
    ASSUME OneClickPerPoll
    PROVE  Base /\ TurnInv /\ [Next]_vars => TurnInv'
<1> SUFFICES ASSUME Base, TurnInv, [Next]_vars PROVE TurnInv'
  OBVIOUS
<1>1. CASE Next
  BY <1>1, TurnStepClicks, TurnStepFrames DEF Next
<1>2. CASE UNCHANGED vars
  <2>1. UNCHANGED <<unit, selected, turn, click, wire>>
    BY <1>2 DEF vars
  <2>2. \A s \in Teams : Flipping(s)' <=> Flipping(s)
    BY <2>1 DEF Flipping
  <2> QED
    BY <2>1, <2>2, QuietStep DEF TurnInv
<1> QED
  BY <1>1, <1>2

LEMMA TurnGives ==
    ASSUME Base, TurnInv
    PROVE  SelectionFollowsTurn /\ TurnStartsFresh
<1>1. ASSUME NEW t \in Teams, selected[t] # {}
      PROVE  turn[t] = t /\ selected[Other(t)] = {}
  <2>1. ~Resting(t)
    BY <1>1 DEF TurnInv
  <2>2. turn[t] = t /\ Side(t) = t
    BY <2>1, SideFacts DEF Resting
  <2>3. Side(Other(t)) = t
    BY <2>2, TeamFacts DEF TurnInv, Holds, Passing
  <2>4. Resting(Other(t))
    BY <2>3, TeamFacts, SideFacts
  <2> QED
    BY <2>2, <2>4, TeamFacts DEF TurnInv
<1>2. TurnStartsFresh
  BY DEF TurnStartsFresh, TurnInv, Resting
<1> QED
  BY <1>1, <1>2 DEF SelectionFollowsTurn

(* With one click per poll of the input, no client ever has a unit selected  *)
(* off its turn or while the other has one: clickHandler may leave it at     *)
(* that.                                                                    *)
THEOREM SelectionSafe ==
    ASSUME OneClickPerPoll
    PROVE  Spec => []SelectionFollowsTurn
<1>1. Base /\ TurnInv => SelectionFollowsTurn
  BY TurnGives
<1>2. Base /\ TurnInv /\ [Next]_vars => TurnInv'
  BY TurnStep
<1> QED
  BY <1>1, <1>2, TurnInit, BaseHolds, PTL DEF Spec

(* With one click per poll of the input, a turn never begins with a unit     *)
(* that has fewer action points than its kind.                              *)
THEOREM TurnsStartFresh ==
    ASSUME OneClickPerPoll
    PROVE  Spec => []TurnStartsFresh
<1>1. Base /\ TurnInv => TurnStartsFresh
  BY TurnGives
<1>2. Base /\ TurnInv /\ [Next]_vars => TurnInv'
  BY TurnStep
<1> QED
  BY <1>1, <1>2, TurnInit, BaseHolds, PTL DEF Spec

--------------------------------------------------------------------------------
(* Where units are.                                                         *)

OnBoardUnit(v) == v.x \in Columns /\ v.y \in UnitRows

(* A click that is under way is at one of the places that are clicked.       *)
Aimed == \A t \in Teams, k \in Callbacks :
            click[t][k].pc # "idle" => click[t][k].at \in Points

LEMMA AimedInit == Init => Aimed
  BY DEF Init, Aimed, Idle

LEMMA AimedClick ==
    ASSUME Base, Aimed, NEW t \in Teams, NEW k \in Callbacks, NEW c,
           c.pc # "idle" => c.at \in Points,
           click' = [click EXCEPT ![t][k] = c]
    PROVE  Aimed'
<1>1. click \in [Teams -> [Callbacks -> [pc : PCs, at : Nat \X Nat]]]
  BY BaseParts
<1>2. \A s \in Teams, j \in Callbacks :
         click'[s][j] = IF s = t /\ j = k THEN c ELSE click[s][j]
  BY <1>1
<1> QED
  BY <1>2 DEF Aimed

LEMMA AimedStep == Base /\ Aimed /\ [Next]_vars => Aimed'
<1> SUFFICES ASSUME Base, Aimed, [Next]_vars PROVE Aimed'
  OBVIOUS
<1>1. ASSUME UNCHANGED click PROVE Aimed'
  BY <1>1 DEF Aimed
<1>2. ASSUME NEW t \in Teams, NEW k \in Callbacks, NEW pc, NEW next \in PCs,
             pc # "idle", Step(t, k, pc, next)
      PROVE  Aimed'
  <2>1. PICK c \in [pc : PCs, at : Nat \X Nat] :
           /\ c.pc = next /\ c.at = click[t][k].at
           /\ click' = [click EXCEPT ![t][k] = c]
    BY <1>2, StepIsClick
  <2>2. c.at \in Points
    BY <1>2, <2>1 DEF Aimed, Step
  <2> QED
    BY <2>1, <2>2, AimedClick
<1>3. ASSUME NEW t \in Teams, NEW k \in Callbacks, Callback(t, k) PROVE Aimed'
  <2>1. ASSUME ClickHandler(t, k) PROVE Aimed'
    <3>1. PICK p \in Points : click' = [click EXCEPT ![t][k] = [pc |-> "place", at |-> p]]
      BY <2>1 DEF ClickHandler
    <3> QED
      BY <3>1, AimedClick
  <2>2. ASSUME NextTurnPressed(t, k) PROVE Aimed'
    <3>1. PICK p \in Points : click' = [click EXCEPT ![t][k] = [pc |-> "flip", at |-> p]]
      BY <2>2 DEF NextTurnPressed
    <3> QED
      BY <3>1, AimedClick
  <2>3. ASSUME SetSelected(t, k) PROVE Aimed'
    <3>1. click' = [click EXCEPT ![t][k] = Idle]
      BY <2>3 DEF SetSelected
    <3>2. Idle.pc = "idle"
      BY DEF Idle
    <3> QED
      BY <3>1, <3>2, AimedClick
  <2>4. FlipTurn(t, k) => Aimed'
    BY <1>2 DEF FlipTurn, PCs
  <2>5. PlaceUnitAtClick(t, k) => Aimed'
    BY <1>2 DEF PlaceUnitAtClick, PCs
  <2>6. AttackClickedUnit(t, k) => Aimed'
    BY <1>2 DEF AttackClickedUnit, PCs
  <2> QED
    BY <1>3, <2>1, <2>2, <2>3, <2>4, <2>5, <2>6 DEF Callback
<1>4. ASSUME NEW t \in Teams, MainThread(t) PROVE UNCHANGED click
  BY <1>4 DEF MainThread, Frame, ApplyPacket, FrameEnd
<1>5. ASSUME UNCHANGED vars PROVE UNCHANGED click
  BY <1>5 DEF vars
<1> QED
  BY <1>1, <1>3, <1>4, <1>5 DEF Next

GridInv ==
    /\ \A t \in Teams, u \in Units :
          /\ OnGrid(unit[t][u].x, unit[t][u].y)
          /\ u \in selected[t] /\ ~unit[t][u].dead => OnBoardUnit(unit[t][u])
    /\ \A t \in Teams : \A i \in DOMAIN wire[t] :
          wire[t][i].name \in Units => OnGrid(wire[t][i].x, wire[t][i].y)

LEMMA GridInit == Init => GridInv
<1> SUFFICES ASSUME Init PROVE GridInv
  OBVIOUS
<1>1. \A t \in Teams, u \in Units : unit[t][u].x \in Columns /\ unit[t][u].y \in Rows
  BY UnitAssumption, PlaceAssumption, NewUnitFacts DEF Init
<1> QED
  BY <1>1 DEF Init, GridInv, OnGrid, OnBoardUnit, UnitRows

(* A step that moves no unit, sends nothing and selects nothing new.         *)
LEMMA GridQuiet ==
    ASSUME GridInv, UNCHANGED wire,
           \A t \in Teams : selected'[t] \subseteq selected[t],
           \A t \in Teams, u \in Units :
               /\ unit'[t][u].x = unit[t][u].x /\ unit'[t][u].y = unit[t][u].y
               /\ unit'[t][u].dead = unit[t][u].dead
    PROVE  GridInv'
  BY DEF GridInv, OnBoardUnit

(* A unit under a click is on the board. *)
LEMMA ClickedOnBoard ==
    ASSUME Base, GridInv, NEW t \in Teams, NEW p \in Nat \X Nat, NEW u \in UnitsAt(t, p)
    PROVE  u \in Units /\ OnBoardUnit(unit[t][u])
<1>1. u \in Units /\ p[1] \in Nat
  BY DEF UnitsAt
<1>2. unit[t][u].x \in Int
  BY <1>1, BaseParts DEF UnitsOK, UnitRecord
<1>3. p[1] \in unit[t][u].x .. unit[t][u].x + 117
  BY DEF UnitsAt, OnObjectSprite, MouseOnSprite
<1>4. unit[t][u].x # -200
  BY <1>1, <1>2, <1>3
<1> QED
  BY <1>1, <1>4 DEF GridInv, OnGrid, OnBoardUnit

LEMMA GridStepClicks ==
    ASSUME Base, Aimed, GridInv, NEW t \in Teams, NEW k \in Callbacks, Callback(t, k)
    PROVE  GridInv'
<1>a. /\ unit \in [Teams -> [Units -> UnitRecord]]
      /\ wire \in [Teams -> Seq(PacketRecord)]
      /\ selected \in [Teams -> SUBSET Units]
      /\ click \in [Teams -> [Callbacks -> [pc : PCs, at : Nat \X Nat]]]
  BY BaseParts
<1>b. click[t][k].at \in Nat \X Nat
  <2>1. click[t][k] \in [pc : PCs, at : Nat \X Nat]
    BY <1>a
  <2> QED
    BY <2>1
<1>1. CASE ClickHandler(t, k)
  BY <1>1, GridQuiet DEF ClickHandler
<1>2. CASE NextTurnPressed(t, k)
  <2>1. PICK fell \in BOOLEAN :
           wire' = [wire EXCEPT ![Other(t)] = @ \o TurnPackets(t, Depleted(t) \/ fell)]
    BY <1>2, BoundAssumption DEF NextTurnPressed
  <2>2. \A u \in Units : unit'[t][u] = Rested(Kind[u], unit[t][u])
    BY <1>2, <1>a DEF NextTurnPressed
  <2>3. \A s \in Teams : s # t => unit'[s] = unit[s] /\ selected'[s] = selected[s]
    BY <1>2, <1>a DEF NextTurnPressed
  <2>4. selected'[t] = {}
    BY <1>2, <1>a DEF NextTurnPressed
  <2>5. \A u \in Units : unit'[t][u].x = unit[t][u].x /\ unit'[t][u].y = unit[t][u].y
    BY <1>a, <2>2, UnitAssumption, RestedFacts
  <2> DEFINE sent == TurnPackets(t, Depleted(t) \/ fell)
  <2>6. /\ sent \in Seq(PacketRecord)
        /\ \A i \in DOMAIN sent : sent[i].name \in Units => OnGrid(sent[i].x, sent[i].y)
    <3> DEFINE c == ChangedPackets(t)
               final == Packet("endturn", 0, 0, 0, 0)
               news == Packet("endgame", IF Victor(t) = 1 THEN 1 ELSE 2, 0, 0, 0)
               n == IF Depleted(t) \/ fell THEN <<news>> ELSE <<>>
    <3>1. /\ c \in Seq(PacketRecord)
          /\ \A i \in 1 .. Len(c) : OnGrid(c[i].x, c[i].y)
      <4>1. c \in Seq(PacketRecord)
        BY ChangedPacketsFacts DEF WireOK
      <4>2. \A i \in DOMAIN c : \E u \in Units : c[i].x = unit[t][u].x /\ c[i].y = unit[t][u].y
        BY ChangedPacketsFacts
      <4> HIDE DEF c
      <4> QED
        BY <4>1, <4>2 DEF GridInv
    <3>2. /\ final \in PacketRecord /\ final.name \notin Units
          /\ news \in PacketRecord /\ news.name \notin Units
      BY UnitAssumption DEF Packet, PacketRecord, Names
    <3>3. n \in Seq(PacketRecord) /\ \A i \in 1 .. Len(n) : n[i].name \notin Units
      BY <3>2
    <3>4. sent = c \o n \o <<final>>
      BY DEF TurnPackets
    <3> HIDE DEF c, n, final, sent
    <3> DEFINE d == c \o n
    <3>5. /\ d \in Seq(PacketRecord)
          /\ \A i \in 1 .. Len(d) : d[i].name \in Units => OnGrid(d[i].x, d[i].y)
      BY <3>1, <3>3
    <3> HIDE DEF d
    <3>6. sent = d \o <<final>>
      BY <3>4 DEF d
    <3> QED
      BY <3>2, <3>5, <3>6
  <2> HIDE DEF sent
  <2>7. wire' = [wire EXCEPT ![Other(t)] = wire[Other(t)] \o sent]
    BY <2>1 DEF sent
  <2>8. \A s \in Teams : wire'[s] = wire[s] \/ wire'[s] = wire[s] \o sent
    BY <1>a, <2>7, TeamFacts
  <2>9. \A s \in Teams : \A i \in DOMAIN wire'[s] :
           wire'[s][i].name \in Units => OnGrid(wire'[s][i].x, wire'[s][i].y)
    <3> SUFFICES ASSUME NEW s \in Teams
                 PROVE  \A i \in DOMAIN wire'[s] :
                    wire'[s][i].name \in Units => OnGrid(wire'[s][i].x, wire'[s][i].y)
      OBVIOUS
    <3>1. CASE wire'[s] = wire[s]
      BY <3>1 DEF GridInv
    <3>2. CASE wire'[s] = wire[s] \o sent
      <4> DEFINE q == wire[s]
      <4>1. /\ q \in Seq(PacketRecord)
            /\ \A i \in DOMAIN q : q[i].name \in Units => OnGrid(q[i].x, q[i].y)
        BY <1>a DEF GridInv
      <4> HIDE DEF q
      <4>2. \A i \in DOMAIN (q \o sent) :
               (q \o sent)[i].name \in Units => OnGrid((q \o sent)[i].x, (q \o sent)[i].y)
        BY <4>1, <2>6
      <4> QED
        BY <3>2, <4>2 DEF q
    <3> QED
      BY <2>8, <3>1, <3>2
  <2> QED
    BY <2>3, <2>4, <2>5, <2>9 DEF GridInv
<1>3. CASE FlipTurn(t, k)
  BY <1>3, GridQuiet DEF FlipTurn
<1>4. CASE PlaceUnitAtClick(t, k)
  <2> DEFINE p == click[t][k].at
             all == Cardinality(selected[t]) = 8
  <2>1. CASE unit' = unit
    BY <1>4, <2>1, GridQuiet DEF PlaceUnitAtClick
  <2>2. CASE unit' # unit
    <3>1. PICK u \in Movers(t, p) :
             \E x \in Outcomes(t, u, SnapX(p[1], all), unit[t][u].x),
                y \in Outcomes(t, u, SnapY(p[2], all), unit[t][u].y) :
                   unit' = [unit EXCEPT ![t][u] = Moved(@, x, y)]
      BY <1>4, <2>2 DEF PlaceUnitAtClick
    <3>2. u \in Units /\ u \in selected[t] /\ OnBoard(p)
      BY <1>a DEF Movers
    <3>3. PICK x \in Outcomes(t, u, SnapX(p[1], all), unit[t][u].x),
               y \in Outcomes(t, u, SnapY(p[2], all), unit[t][u].y) :
             unit' = [unit EXCEPT ![t][u] = Moved(@, x, y)]
      BY <3>1
    <3>p. p \in Points
      BY <1>4 DEF PlaceUnitAtClick, Step, Aimed
    <3>b. SnapX(p[1], all) \in Columns
          /\ \/ SnapY(p[2], all) \in Rows
             \/ p[2] < 3 /\ SnapY(p[2], all) = -117
             \/ p[2] = 603 /\ SnapY(p[2], all) = 603
      <4>1. all \in BOOLEAN /\ p \in Nat \X Nat
        BY <1>b
      <4> HIDE DEF all, p
      <4> QED
        BY <3>2, <4>1, SnapFacts
    <3>4. SnapX(p[1], all) \in Columns /\ SnapY(p[2], all) \in UnitRows
      BY <3>b, <3>p DEF UnitRows, EdgeRows
    <3>5. ~unit[t][u].dead => unit[t][u].x \in Columns /\ unit[t][u].y \in UnitRows
      BY <3>2 DEF GridInv, OnBoardUnit
    <3>6. x \in Columns /\ y \in UnitRows
      BY <3>4, <3>5 DEF Outcomes
    <3>7. x \in Int /\ y \in Int
      BY <3>6 DEF Columns, UnitRows, Rows, EdgeRows
    <3>8. unit'[t][u] = Moved(unit[t][u], x, y)
      BY <1>a, <3>2, <3>3
    <3>9. \A s \in Teams, v \in Units : ~(s = t /\ v = u) => unit'[s][v] = unit[s][v]
      BY <1>a, <3>2, <3>3
    <3>10. unit'[t][u].x = x /\ unit'[t][u].y = y
      BY <1>a, <3>2, <3>7, <3>8, MovedFacts
    <3>11. wire' = wire /\ selected' = selected
      BY <1>4 DEF PlaceUnitAtClick
    <3> QED
      BY <3>6, <3>9, <3>10, <3>11 DEF GridInv, OnGrid, OnBoardUnit
  <2> QED
    BY <2>1, <2>2
<1>5. CASE AttackClickedUnit(t, k)
  <2> DEFINE p == click[t][k].at
  <2>1. CASE unit' = unit
    BY <1>5, <2>1, GridQuiet DEF AttackClickedUnit
  <2>2. CASE unit' # unit
    <3>1. PICK a \in Attackers(t, p) : unit' = [unit EXCEPT ![t] = AfterAttack(t, p, a)]
      BY <1>5, <2>2 DEF AttackClickedUnit
    <3>2. a \in Units
      BY <1>a DEF Attackers
    <3>3. 2 * Cardinality(Targets(t, p, a)) \in Int
      <4>1. IsFiniteSet(Targets(t, p, a))
        BY UnitAssumption, FS_Subset DEF Targets, UnitsAt
      <4> QED
        BY <4>1, FS_CardinalityType
    <3> DEFINE n == 2 * Cardinality(Targets(t, p, a))
    <3> HIDE DEF n
    <3>4. \A v \in Units : \/ unit'[t][v] = unit[t][v]
                           \/ unit'[t][v] = Hit(t, a, v)
                           \/ unit'[t][v] = Spend(unit[t][v], n)
      BY <1>a, <3>1 DEF AfterAttack, n
    <3>5. \A v \in Units :
             /\ unit'[t][v].x = unit[t][v].x /\ unit'[t][v].y = unit[t][v].y
             /\ unit'[t][v].dead = unit[t][v].dead
      <4> SUFFICES ASSUME NEW v \in Units
                   PROVE  /\ unit'[t][v].x = unit[t][v].x /\ unit'[t][v].y = unit[t][v].y
                          /\ unit'[t][v].dead = unit[t][v].dead
        OBVIOUS
      <4> DEFINE w == unit[t][v]
      <4>1. w \in UnitRecord
        BY <1>a
      <4>2. n \in Int
        BY <3>3 DEF n
      <4>3. /\ Hit(t, a, v).x = w.x /\ Hit(t, a, v).y = w.y
            /\ Hit(t, a, v).dead = w.dead
        BY <3>2, HitFacts
      <4> HIDE DEF w
      <4>4. Spend(w, n).x = w.x /\ Spend(w, n).y = w.y /\ Spend(w, n).dead = w.dead
        BY <4>1, <4>2, SpendFacts
      <4>5. unit'[t][v] = w \/ unit'[t][v] = Hit(t, a, v) \/ unit'[t][v] = Spend(w, n)
        BY <3>4 DEF w
      <4> QED
        BY <4>3, <4>4, <4>5 DEF w
    <3>6. \A s \in Teams : s # t => unit'[s] = unit[s]
      BY <1>a, <3>1
    <3>7. wire' = wire /\ selected' = selected
      BY <1>5 DEF AttackClickedUnit
    <3> QED
      BY <3>5, <3>6, <3>7, GridQuiet
  <2> QED
    BY <2>1, <2>2
<1>6. CASE SetSelected(t, k)
  <2> DEFINE p == click[t][k].at
  <2>1. unit' = unit /\ wire' = wire
    BY <1>6 DEF SetSelected
  <2>2. \A s \in Teams : s # t => selected'[s] = selected[s]
    BY <1>6, <1>a DEF SetSelected
  <2>3. selected'[t] \subseteq selected[t] \cup UnitsAt(t, p)
    BY <1>6, <1>a DEF SetSelected, Toggle
  <2>4. \A u \in UnitsAt(t, p) : OnBoardUnit(unit[t][u])
    BY <1>b, ClickedOnBoard
  <2> QED
    BY <2>1, <2>2, <2>3, <2>4 DEF GridInv
<1> QED
  BY <1>1, <1>2, <1>3, <1>4, <1>5, <1>6 DEF Callback

LEMMA GridStepFrames ==
    ASSUME Base, TurnInv, GridInv, NEW t \in Teams, MainThread(t)
    PROVE  GridInv'
<1>a. /\ unit \in [Teams -> [Units -> UnitRecord]]
      /\ wire \in [Teams -> Seq(PacketRecord)]
  BY BaseParts
<1>1. CASE Frame(t)
  <2>1. wire' = wire /\ selected' = selected
    BY <1>1 DEF Frame
  <2>2. \/ unit' = unit
        \/ unit' = [unit EXCEPT ![t] = [u \in Units |-> Update(unit[t][u])]]
    BY <1>1 DEF Frame
  <2>3. \A s \in Teams, u \in Units :
           unit'[s][u] = unit[s][u] \/ unit'[s][u] = Update(unit[s][u])
    BY <1>a, <2>2
  <2>4. \A s \in Teams, u \in Units :
           \/ /\ unit'[s][u].x = unit[s][u].x /\ unit'[s][u].y = unit[s][u].y
              /\ unit'[s][u].dead = unit[s][u].dead
           \/ unit'[s][u].x = -200 /\ unit'[s][u].y = -200 /\ unit'[s][u].dead
    <3> SUFFICES ASSUME NEW s \in Teams, NEW u \in Units
                 PROVE  \/ /\ unit'[s][u].x = unit[s][u].x /\ unit'[s][u].y = unit[s][u].y
                           /\ unit'[s][u].dead = unit[s][u].dead
                        \/ /\ unit'[s][u].x = -200 /\ unit'[s][u].y = -200
                           /\ unit'[s][u].dead
      OBVIOUS
    <3> DEFINE w == unit[s][u]
    <3>1. w \in UnitRecord
      BY <1>a
    <3>2. unit'[s][u] = w \/ unit'[s][u] = Update(w)
      BY <2>3
    <3> HIDE DEF w
    <3>3. \/ Update(w).x = w.x /\ Update(w).y = w.y /\ Update(w).dead = w.dead
          \/ Update(w).x = -200 /\ Update(w).y = -200 /\ Update(w).dead
      BY <3>1, UpdateFacts
    <3> QED
      BY <3>2, <3>3 DEF w
  <2> QED
    BY <2>1, <2>4 DEF GridInv, OnGrid, OnBoardUnit
<1>2. CASE ApplyPacket(t)
  <2> DEFINE m == Head(wire[t])
  <2>1. wire[t] # <<>> /\ wire' = [wire EXCEPT ![t] = Tail(@)] /\ selected' = selected
    BY <1>2 DEF ApplyPacket
  <2>2. selected[t] = {}
    <3>1. Side(t) # t
      BY <2>1, TeamFacts DEF TurnInv, Holds, Passing
    <3> QED
      BY <3>1, SideFacts DEF TurnInv
  <2>3. /\ Tail(wire[t]) \in Seq(PacketRecord) /\ m \in PacketRecord /\ m = wire[t][1]
        /\ Len(wire[t]) \in Nat \ {0}
        /\ Len(Tail(wire[t])) = Len(wire[t]) - 1
        /\ \A i \in 1 .. Len(wire[t]) - 1 : Tail(wire[t])[i] = wire[t][i + 1]
    BY <1>a, <2>1, TailFacts
  <2>4. m.name \in Units => OnGrid(m.x, m.y)
    BY <1>a, <2>3 DEF GridInv
  <2>5. \A s \in Teams : s # t => wire'[s] = wire[s] /\ unit'[s] = unit[s]
    BY <1>2, <1>a DEF ApplyPacket
  <2>6. \A u \in Units : \/ unit'[t][u] = unit[t][u]
                         \/ u = m.name /\ unit'[t][u] = Told(unit[t][u], m)
    <3>1. \/ unit' = unit
          \/ m.name \in Units /\ unit' = [unit EXCEPT ![t][m.name] = Told(@, m)]
      BY <1>2 DEF ApplyPacket
    <3> HIDE DEF m
    <3> QED
      BY <1>a, <3>1
  <2>7. \A u \in Units : OnGrid(unit'[t][u].x, unit'[t][u].y)
    <3> SUFFICES ASSUME NEW u \in Units PROVE OnGrid(unit'[t][u].x, unit'[t][u].y)
      OBVIOUS
    <3>1. CASE unit'[t][u] = unit[t][u]
      BY <3>1 DEF GridInv
    <3>2. CASE u = m.name /\ unit'[t][u] = Told(unit[t][u], m)
      <4>1. unit'[t][u].x = m.x /\ unit'[t][u].y = m.y
        BY <1>a, <2>3, <3>2, ToldFacts
      <4> QED
        BY <2>4, <3>2, <4>1
    <3> QED
      BY <2>6, <3>1, <3>2
  <2>8. \A i \in DOMAIN wire'[t] :
           wire'[t][i].name \in Units => OnGrid(wire'[t][i].x, wire'[t][i].y)
    <3>1. wire'[t] = Tail(wire[t]) /\ DOMAIN wire'[t] = 1 .. Len(wire[t]) - 1
      BY <1>a, <2>1, <2>3
    <3>2. \A i \in 1 .. Len(wire[t]) - 1 : i + 1 \in DOMAIN wire[t]
      BY <1>a, <2>3
    <3> QED
      BY <2>3, <3>1, <3>2 DEF GridInv
  <2> QED
    BY <2>1, <2>2, <2>5, <2>7, <2>8 DEF GridInv
<1>3. CASE FrameEnd(t)
  BY <1>3, GridQuiet DEF FrameEnd
<1> QED
  BY <1>1, <1>2, <1>3 DEF MainThread

LEMMA GridStep == Base /\ TurnInv /\ Aimed /\ GridInv /\ [Next]_vars => GridInv'
<1> SUFFICES ASSUME Base, TurnInv, Aimed, GridInv, [Next]_vars PROVE GridInv'
  OBVIOUS
<1>1. CASE Next
  BY <1>1, GridStepClicks, GridStepFrames DEF Next
<1>2. CASE UNCHANGED vars
  BY <1>2, GridQuiet DEF vars
<1> QED
  BY <1>1, <1>2

(* With one click per poll of the input, every unit on either client stands  *)
(* in a column and a row of the board, in the row above it only if somebody  *)
(* clicks above y = 3, in the one below it only if somebody clicks at        *)
(* y = 603, or where the dead go, whichever frame undoes half of a move.    *)
THEOREM AlwaysOnGrid ==
    ASSUME OneClickPerPoll
    PROVE  Spec => []UnitsOnGrid
<1>1. GridInv => UnitsOnGrid
  BY DEF GridInv, UnitsOnGrid, OnGrid, UnitRows
<1>2. Base /\ TurnInv /\ [Next]_vars => TurnInv'
  BY TurnStep
<1> QED
  BY <1>1, <1>2, GridStep, GridInit, AimedStep, AimedInit, TurnInit, BaseHolds, PTL DEF Spec

--------------------------------------------------------------------------------
(* What a hit takes.                                                        *)

(* At most one unit of a client is selected: the kinds of an army differ,    *)
(* and setSelected keeps the last.                                          *)
OneSelected ==
    \A t \in Teams : /\ selected[t] \subseteq Army(t)
                     /\ \A u, v \in selected[t] : u = v

LEMMA ToggleFacts ==
    ASSUME NEW t \in Teams, NEW old, NEW hits \in SUBSET Army(t),
           old \subseteq Army(t), \A u, v \in old : u = v
    PROVE  /\ Toggle(old, hits) \subseteq Army(t)
           /\ \A u, v \in Toggle(old, hits) : u = v
<1>1. \A a, b \in Kinds : Rank[a] \in Nat /\ (Rank[a] = Rank[b] => a = b)
  BY DEF Rank, Kinds
<1>2. \A u \in Army(t) : u \in Units /\ Kind[u] \in Kinds /\ Team[u] = t
  BY UnitAssumption DEF Army
<1>3. ASSUME NEW u \in hits, NEW v \in hits,
             Rank[Kind[v]] <= Rank[Kind[u]], Rank[Kind[u]] <= Rank[Kind[v]]
      PROVE  u = v
  <2>1. Kind[u] = Kind[v]
    BY <1>1, <1>2, <1>3
  <2> QED
    BY <1>2, <2>1, UnitAssumption
<1> QED
  BY <1>3 DEF Toggle

LEMMA OneSelectedInit == Init => OneSelected
  BY DEF Init, OneSelected

LEMMA OneSelectedStep == Base /\ OneSelected /\ [Next]_vars => OneSelected'
<1> SUFFICES ASSUME Base, OneSelected, [Next]_vars PROVE OneSelected'
  OBVIOUS
<1>a. selected \in [Teams -> SUBSET Units]
  BY BaseParts
<1>1. ASSUME UNCHANGED selected PROVE OneSelected'
  BY <1>1 DEF OneSelected
<1>2. ASSUME NEW t \in Teams, NEW k \in Callbacks, NextTurnPressed(t, k) PROVE OneSelected'
  BY <1>a, <1>2 DEF NextTurnPressed, OneSelected
<1>3. ASSUME NEW t \in Teams, NEW k \in Callbacks, SetSelected(t, k) PROVE OneSelected'
  <2> DEFINE hits == UnitsAt(t, click[t][k].at) \cap Army(t)
  <2>1. selected' = selected \/ selected' = [selected EXCEPT ![t] = Toggle(selected[t], hits)]
    BY <1>3 DEF SetSelected
  <2>2. /\ Toggle(selected[t], hits) \subseteq Army(t)
        /\ \A u, v \in Toggle(selected[t], hits) : u = v
    <3>1. selected[t] \subseteq Army(t) /\ \A u, v \in selected[t] : u = v
      BY DEF OneSelected
    <3>2. hits \in SUBSET Army(t)
      OBVIOUS
    <3> HIDE DEF hits
    <3> QED
      BY <3>1, <3>2, ToggleFacts
  <2> HIDE DEF hits
  <2> QED
    BY <1>a, <2>1, <2>2 DEF OneSelected
<1>4. CASE Next
  <2>1. ASSUME NEW t \in Teams, NEW k \in Callbacks, Callback(t, k)
        PROVE  UNCHANGED selected \/ NextTurnPressed(t, k) \/ SetSelected(t, k)
    BY <2>1 DEF Callback, ClickHandler, FlipTurn, PlaceUnitAtClick, AttackClickedUnit
  <2>2. ASSUME NEW t \in Teams, MainThread(t) PROVE UNCHANGED selected
    BY <2>2 DEF MainThread, Frame, ApplyPacket, FrameEnd
  <2> QED
    BY <1>1, <1>2, <1>3, <1>4, <2>1, <2>2 DEF Next
<1>5. CASE UNCHANGED vars
  BY <1>1, <1>5 DEF vars
<1> QED
  BY <1>4, <1>5

(* Only attackClickedUnit takes a callback from its attack to its selection. *)
LEMMA AttackSteps ==
    ASSUME Base, Next, NEW t \in Teams, NEW k \in Callbacks,
           click[t][k].pc = "attack", click'[t][k].pc = "select"
    PROVE  AttackClickedUnit(t, k)
<1>a. click \in [Teams -> [Callbacks -> [pc : PCs, at : Nat \X Nat]]]
  BY BaseParts
<1>1. PICK s \in Teams : MainThread(s) \/ \E j \in Callbacks : Callback(s, j)
  BY DEF Next
<1>2. ~MainThread(s)
  BY DEF MainThread, Frame, ApplyPacket, FrameEnd
<1>3. PICK j \in Callbacks : Callback(s, j)
  BY <1>1, <1>2
<1>4. ASSUME NEW c, click' = [click EXCEPT ![s][j] = c] PROVE s = t /\ j = k
  BY <1>a, <1>4
<1>5. ASSUME ClickHandler(s, j) PROVE FALSE
  <2>1. s = t /\ j = k
    BY <1>4, <1>5 DEF ClickHandler
  <2> QED
    BY <1>5, <2>1 DEF ClickHandler
<1>6. ASSUME NextTurnPressed(s, j) PROVE FALSE
  <2>1. s = t /\ j = k
    BY <1>4, <1>6 DEF NextTurnPressed
  <2> QED
    BY <1>6, <2>1 DEF NextTurnPressed
<1>7. ASSUME SetSelected(s, j) PROVE FALSE
  <2>1. s = t /\ j = k
    BY <1>4, <1>7 DEF SetSelected
  <2> QED
    BY <1>7, <2>1 DEF SetSelected
<1>8. ASSUME NEW pc, NEW next \in PCs, Step(s, j, pc, next) PROVE s = t /\ j = k /\ pc = "attack"
  <2>1. PICK c \in [pc : PCs, at : Nat \X Nat] : click' = [click EXCEPT ![s][j] = c]
    BY <1>8, StepIsClick
  <2>2. s = t /\ j = k
    BY <1>4, <2>1
  <2> QED
    BY <1>8, <2>2 DEF Step
<1>9. ASSUME FlipTurn(s, j) PROVE FALSE
  BY <1>8, <1>9 DEF FlipTurn, PCs
<1>10. ASSUME PlaceUnitAtClick(s, j) PROVE FALSE
  BY <1>8, <1>10 DEF PlaceUnitAtClick, PCs
<1>11. ASSUME AttackClickedUnit(s, j) PROVE s = t /\ j = k
  BY <1>8, <1>11 DEF AttackClickedUnit, PCs
<1> QED
  BY <1>3, <1>5, <1>6, <1>7, <1>9, <1>10, <1>11 DEF Callback

(* Mitigation takes nothing below the attack and adds nothing to it.         *)
LEMMA MitigatedFacts ==
    ASSUME NEW a \in Units, NEW v \in Units, NEW squad \in Int, squad > 0
    PROVE  /\ UnitType[Kind[a]].attack * squad \in Int
           /\ MitigatedDamage(a, squad, v) \in Int
           /\ MitigatedDamage(a, squad, v) <= UnitType[Kind[a]].attack * squad
<1> DEFINE attack == UnitType[Kind[a]].attack
           armour == UnitType[Kind[v]].armour
           raw == attack * squad
           product == raw * armour
<1>1. attack \in Nat /\ armour \in Nat
  BY UnitAssumption DEF UnitType, Kinds
<1> HIDE DEF attack, armour
<1>2. raw \in Nat
  BY <1>1
<1> HIDE DEF raw
<1>3. product \in Nat
  BY <1>1, <1>2
<1> HIDE DEF product
<1>4. product \div 100 \in Nat
  BY <1>3
<1>5. MitigatedDamage(a, squad, v) = raw - product \div 100
  BY DEF MitigatedDamage, raw, product, attack, armour
<1>6. UnitType[Kind[a]].attack * squad = raw
  BY DEF raw, attack
<1> QED
  BY <1>2, <1>4, <1>5, <1>6

LEMMA HitsCountStep == Base /\ OneSelected /\ [Next]_vars =>
    \A t \in Teams, k \in Callbacks, a, v \in Units :
          IsHit(t, k, a, v) /\ unit'[t][v].squad > 0
          => Total(unit'[t][v])
                <= Total(unit[t][v]) - MitigatedDamage(a, unit[t][a].squad, v)
<1> SUFFICES ASSUME Base, OneSelected, [Next]_vars,
                    NEW t \in Teams, NEW k \in Callbacks, NEW a \in Units, NEW v \in Units,
                    IsHit(t, k, a, v), unit'[t][v].squad > 0
             PROVE  Total(unit'[t][v])
                       <= Total(unit[t][v]) - MitigatedDamage(a, unit[t][a].squad, v)
  OBVIOUS
<1> DEFINE p == click[t][k].at
<1>a. /\ click[t][k].pc = "attack" /\ click'[t][k].pc = "select"
      /\ a \in Attackers(t, p) /\ v \in Targets(t, p, a) /\ unit[t][a].squad > 0
  BY DEF IsHit
<1>1. Next
  BY <1>a DEF vars
<1>2. AttackClickedUnit(t, k)
  BY <1>a, <1>1, AttackSteps
<1>3. UnitsAt(t, p) # {} /\ Attackers(t, p) # {}
  BY <1>a DEF Targets
<1>4. PICK b \in Attackers(t, p) : unit' = [unit EXCEPT ![t] = AfterAttack(t, p, b)]
  BY <1>2, <1>3 DEF AttackClickedUnit
<1>5. b = a
  BY <1>a DEF OneSelected, Attackers
<1>6. unit'[t][v] = Hit(t, a, v)
  BY <1>a, <1>4, <1>5, BaseParts DEF AfterAttack
<1> DEFINE raw == UnitType[Kind[a]].attack * unit[t][a].squad
<1>7. Total(unit'[t][v]) <= Total(unit[t][v]) - raw
  BY <1>a, <1>6, HitFacts
<1>8. MitigatedDamage(a, unit[t][a].squad, v) <= raw
      /\ MitigatedDamage(a, unit[t][a].squad, v) \in Int /\ raw \in Int
  BY <1>a, BaseParts, MitigatedFacts DEF UnitsOK, UnitRecord
<1>9. Total(unit'[t][v]) \in Int /\ Total(unit[t][v]) \in Int
  <2>1. unit'[t][v] \in UnitRecord /\ unit[t][v] \in UnitRecord
    BY <1>6, HitFacts, BaseParts
  <2>2. \A w \in UnitRecord : Total(w) \in Int
    BY DEF Total, UnitRecord
  <2> QED
    BY <2>1, <2>2
<1> HIDE DEF raw
<1> QED
  BY <1>7, <1>8, <1>9

(* Whatever squads and health a unit has left, and however many units share  *)
(* the clicked cell, a hit that it survives takes what is left of the attack *)
(* after mitigation, or more, from the product that the player sees.        *)
THEOREM EveryHitCounts == Spec => HitsCount
  BY HitsCountStep, OneSelectedInit, OneSelectedStep, BaseHolds, PTL DEF Spec, HitsCount

--------------------------------------------------------------------------------
(* The two boards.  Until one client shows a winner, the copies of a unit     *)
(* differ by what has been noted or is on its way, and by a death that only   *)
(* the next frame of one client finds.                                       *)

Unfinished == winner = [t \in Teams |-> 0]

Falling(v) == v.squad <= 0 /\ ~v.dead
Fallen(v) == v.squad <= 0 \/ v.dead
OffBoard(v) == v.x = -200 /\ v.y = -200
Eventual(v) == Shown(Update(v))
Speaks(q, u) == \E i \in DOMAIN q : q[i].name = u

(* What the client of the unit and the opponent have of a unit: foe is the   *)
(* copy that is hit, own the one that is moved.                              *)
HitNoted(foe, own) ==
    /\ ~Falling(own)
    /\ own.dead => foe.dead
    /\ foe.dead /\ ~own.dead => foe.squad <= 0 /\ OffBoard(foe)
HitTold(foe, own, m) == ~Falling(own) /\ Eventual(Told(own, m)) = Eventual(foe)
MoveTold(foe, own, m) ==
    /\ ~Falling(own)
    /\ Shown(own) = <<m.x, m.y, m.squad, m.health, own.dead>>
    /\ own.dead <=> Fallen(foe)

Agree(u, own, foe, toOwn, toFoe) ==
    /\ foe.changed => HitNoted(foe, own)
    /\ own.changed => (Fallen(foe) <=> Fallen(own))
    /\ \A i \in DOMAIN toOwn : toOwn[i].name = u => HitTold(foe, own, toOwn[i])
    /\ \A i \in DOMAIN toFoe : toFoe[i].name = u => MoveTold(foe, own, toFoe[i])
    /\ ~foe.changed /\ ~own.changed /\ ~Speaks(toOwn, u) /\ ~Speaks(toFoe, u)
          => Eventual(foe) = Eventual(own)

LEMMA ShownFacts ==
    ASSUME NEW v, NEW w
    PROVE  Shown(v) = Shown(w) <=> /\ v.x = w.x /\ v.y = w.y /\ v.squad = w.squad
                                   /\ v.health = w.health /\ v.dead = w.dead
  BY DEF Shown

LEMMA UpdateShows ==
    ASSUME NEW v \in UnitRecord
    PROVE  /\ Update(v) \in UnitRecord
           /\ Update(v).squad = v.squad /\ Update(v).health = v.health
           /\ Update(v).changed = v.changed
           /\ Update(v).dead <=> Fallen(v) \/ v.dead
           /\ ~Falling(Update(v)) /\ Update(v).dead \in BOOLEAN
           /\ Falling(v) => OffBoard(Update(v)) /\ Update(v).dead
           /\ ~Falling(v) => /\ Update(v).x = v.x /\ Update(v).y = v.y
                             /\ Update(v).dead = v.dead
<1>1. v.squad \in Int /\ v.dead \in BOOLEAN /\ Update(v) \in UnitRecord
  BY UpdateFacts DEF UnitRecord
<1>2. CASE Falling(v)
  <2> DEFINE gone == -200
  <2>1. gone \in Int
    OBVIOUS
  <2>2. Update(v) = [v EXCEPT !.x = gone, !.y = gone, !.dead = TRUE]
    BY <1>2 DEF Update, Falling
  <2> HIDE DEF gone
  <2>3. /\ Update(v).squad = v.squad /\ Update(v).health = v.health
        /\ Update(v).changed = v.changed /\ Update(v).dead = TRUE
        /\ Update(v).x = gone /\ Update(v).y = gone
    BY <2>1, <2>2 DEF UnitRecord
  <2>4. OffBoard(Update(v))
    BY <2>3 DEF OffBoard, gone
  <2> HIDE DEF OffBoard
  <2> QED
    BY <1>1, <1>2, <2>3, <2>4 DEF Falling, Fallen
<1>3. CASE ~Falling(v)
  <2>1. \/ Update(v) = v
        \/ Update(v) = [v EXCEPT !.atX = v.x, !.atY = v.y]
    BY <1>3 DEF Update, Falling
  <2>2. /\ Update(v).squad = v.squad /\ Update(v).health = v.health
        /\ Update(v).changed = v.changed /\ Update(v).dead = v.dead
        /\ Update(v).x = v.x /\ Update(v).y = v.y
    BY <2>1 DEF UnitRecord
  <2> QED
    BY <1>1, <1>3, <2>2 DEF Falling, Fallen
<1> QED
  BY <1>2, <1>3

(* What a unit shows after the next frame. *)
LEMMA EventualFacts ==
    ASSUME NEW v \in UnitRecord
    PROVE  /\ ~Falling(v) => Eventual(v) = Shown(v)
           /\ Falling(v) => /\ Eventual(v)[1] = -200 /\ Eventual(v)[2] = -200
                            /\ Eventual(v)[5] = TRUE
           /\ Eventual(v)[3] = v.squad /\ Eventual(v)[4] = v.health
           /\ Eventual(v)[5] <=> Fallen(v)
           /\ Eventual(Update(v)) = Eventual(v)
<1>1. Update(v) \in UnitRecord
  BY UpdateShows
<1> USE DEF Eventual
<1>2. ~Falling(v) => Eventual(v) = Shown(v)
  BY UpdateShows, ShownFacts
<1>3. Eventual(Update(v)) = Eventual(v)
  BY <1>1, UpdateShows, ShownFacts
<1>4. /\ Eventual(v)[1] = Update(v).x /\ Eventual(v)[2] = Update(v).y
      /\ Eventual(v)[3] = Update(v).squad /\ Eventual(v)[4] = Update(v).health
      /\ Eventual(v)[5] = Update(v).dead
  BY DEF Shown
<1> HIDE DEF Eventual
<1>5. /\ Falling(v) => Eventual(v)[1] = -200 /\ Eventual(v)[2] = -200 /\ Eventual(v)[5] = TRUE
      /\ Eventual(v)[3] = v.squad /\ Eventual(v)[4] = v.health
  <2>1. Falling(v) => Update(v).dead = TRUE
    BY <1>1, UpdateShows
  <2> QED
    BY <1>4, <2>1, UpdateShows DEF OffBoard
<1>6. Eventual(v)[5] <=> Fallen(v)
  BY <1>4, UpdateShows DEF Fallen
<1> QED
  BY <1>2, <1>3, <1>5, <1>6

SameLook(v, w) == Shown(v) = Shown(w) /\ (v.changed <=> w.changed)

LEMMA LookFacts ==
    ASSUME NEW v \in UnitRecord, NEW w \in UnitRecord, SameLook(v, w)
    PROVE  /\ v.x = w.x /\ v.y = w.y /\ v.squad = w.squad /\ v.health = w.health
           /\ v.dead = w.dead /\ (v.changed <=> w.changed)
           /\ Falling(v) <=> Falling(w)
           /\ Fallen(v) <=> Fallen(w)
           /\ OffBoard(v) <=> OffBoard(w)
           /\ Eventual(v) = Eventual(w)
<1>1. /\ v.x = w.x /\ v.y = w.y /\ v.squad = w.squad /\ v.health = w.health
      /\ v.dead = w.dead /\ (v.changed <=> w.changed)
  BY ShownFacts DEF SameLook
<1>2. (Falling(v) <=> Falling(w)) /\ (Fallen(v) <=> Fallen(w)) /\ (OffBoard(v) <=> OffBoard(w))
  BY <1>1 DEF Falling, Fallen, OffBoard
<1>3. Update(v).x = Update(w).x /\ Update(v).y = Update(w).y /\ Update(v).dead = Update(w).dead
      /\ Update(v).squad = Update(w).squad /\ Update(v).health = Update(w).health
  <2>1. CASE Falling(v)
    <3>1. /\ Update(v).dead \in BOOLEAN /\ Update(w).dead \in BOOLEAN
          /\ Update(v).dead /\ Update(w).dead
          /\ OffBoard(Update(v)) /\ OffBoard(Update(w))
      BY <1>2, <2>1, UpdateShows
    <3>2. Update(v).x = Update(w).x /\ Update(v).y = Update(w).y
      BY <3>1 DEF OffBoard
    <3> QED
      BY <1>1, <3>1, <3>2, UpdateShows
  <2>2. CASE ~Falling(v)
    BY <1>1, <1>2, <2>2, UpdateShows
  <2> QED
    BY <2>1, <2>2
<1>4. Eventual(v) = Eventual(w)
  BY <1>3, ShownFacts DEF Eventual
<1> QED
  BY <1>1, <1>2, <1>4

LEMMA ToldShows ==
    ASSUME NEW v \in UnitRecord, NEW m \in PacketRecord
    PROVE  /\ Told(v, m) \in UnitRecord
           /\ Told(v, m).x = m.x /\ Told(v, m).y = m.y
           /\ Told(v, m).squad = m.squad /\ Told(v, m).health = m.health
           /\ Told(v, m).dead = v.dead /\ Told(v, m).changed = v.changed
           /\ Shown(Told(v, m)) = <<m.x, m.y, m.squad, m.health, v.dead>>
<1>1. m.x \in Int /\ m.y \in Int /\ m.squad \in Int /\ m.health \in Int
  BY DEF PacketRecord
<1>2. /\ Told(v, m) \in UnitRecord
      /\ Told(v, m).x = m.x /\ Told(v, m).y = m.y
      /\ Told(v, m).squad = m.squad /\ Told(v, m).health = m.health
      /\ Told(v, m).dead = v.dead /\ Told(v, m).changed = v.changed
  BY <1>1 DEF UnitRecord, Told
<1> QED
  BY <1>2 DEF Shown

(* What keeps the two copies in agreement. *)
LEMMA AgreeLook ==
    ASSUME NEW u, NEW own \in UnitRecord, NEW foe \in UnitRecord, NEW toOwn \in Seq(PacketRecord),
           NEW toFoe \in Seq(PacketRecord),
           NEW own2 \in UnitRecord, NEW foe2 \in UnitRecord,
           SameLook(own, own2), SameLook(foe, foe2), Agree(u, own, foe, toOwn, toFoe)
    PROVE  Agree(u, own2, foe2, toOwn, toFoe)
<1>1. HitNoted(foe, own) <=> HitNoted(foe2, own2)
  BY LookFacts DEF HitNoted
<1>2. \A m \in PacketRecord : HitTold(foe, own, m) <=> HitTold(foe2, own2, m)
  <2> TAKE m \in PacketRecord
  <2>1. SameLook(Told(own, m), Told(own2, m))
    <3>1. own.dead = own2.dead /\ (own.changed <=> own2.changed)
      BY LookFacts
    <3>2. Shown(Told(own, m)) = Shown(Told(own2, m))
      <4>1. Shown(Told(own, m)) = <<m.x, m.y, m.squad, m.health, own.dead>>
        BY ToldShows
      <4>2. Shown(Told(own2, m)) = <<m.x, m.y, m.squad, m.health, own2.dead>>
        BY ToldShows
      <4> QED
        BY <3>1, <4>1, <4>2
    <3>3. Told(own, m).changed <=> Told(own2, m).changed
      BY <3>1, ToldShows
    <3> QED
      BY <3>2, <3>3 DEF SameLook
  <2>2. Told(own, m) \in UnitRecord /\ Told(own2, m) \in UnitRecord
    BY ToldShows
  <2>3. Eventual(Told(own, m)) = Eventual(Told(own2, m))
    BY <2>1, <2>2, LookFacts
  <2> QED
    BY <2>3, LookFacts DEF HitTold
<1>3. \A m \in PacketRecord : MoveTold(foe, own, m) <=> MoveTold(foe2, own2, m)
  <2>1. Shown(own) = Shown(own2)
    BY DEF SameLook
  <2> QED
    BY <2>1, LookFacts DEF MoveTold
<1>4. /\ \A i \in DOMAIN toOwn : toOwn[i] \in PacketRecord
      /\ \A i \in DOMAIN toFoe : toFoe[i] \in PacketRecord
  OBVIOUS
<1>5. /\ foe.changed <=> foe2.changed
      /\ own.changed <=> own2.changed
      /\ Fallen(foe) <=> Fallen(foe2)
      /\ Fallen(own) <=> Fallen(own2)
      /\ Eventual(foe) = Eventual(foe2) /\ Eventual(own) = Eventual(own2)
  BY LookFacts
<1> QED
  BY <1>1, <1>2, <1>3, <1>4, <1>5 DEF Agree

LEMMA StillLook ==
    ASSUME NEW v \in UnitRecord, ~Falling(v)
    PROVE  SameLook(v, Update(v))
  BY UpdateShows, ShownFacts DEF SameLook

LEMMA AgreeUpdateOwn ==
    ASSUME NEW u, NEW own \in UnitRecord, NEW foe \in UnitRecord, NEW toOwn \in Seq(PacketRecord),
           NEW toFoe \in Seq(PacketRecord), Agree(u, own, foe, toOwn, toFoe)
    PROVE  Agree(u, Update(own), foe, toOwn, toFoe)
<1>0. Update(own) \in UnitRecord /\ SameLook(foe, foe)
  BY UpdateShows DEF SameLook
<1>1. CASE ~Falling(own)
  BY <1>0, <1>1, StillLook, AgreeLook
<1>2. CASE Falling(own)
  <2>1. ~foe.changed /\ ~Speaks(toOwn, u) /\ ~Speaks(toFoe, u)
    BY <1>2 DEF Agree, HitNoted, HitTold, MoveTold, Speaks
  <2>2. (Fallen(Update(own)) <=> Fallen(own)) /\ (Update(own).changed <=> own.changed)
    BY <1>0, <1>2, UpdateShows DEF Fallen, Falling
  <2>3. Eventual(Update(own)) = Eventual(own)
    BY EventualFacts
  <2> QED
    BY <2>1, <2>2, <2>3 DEF Agree, Speaks
<1> QED
  BY <1>1, <1>2

LEMMA AgreeUpdateFoe ==
    ASSUME NEW u, NEW own \in UnitRecord, NEW foe \in UnitRecord, NEW toOwn \in Seq(PacketRecord),
           NEW toFoe \in Seq(PacketRecord), Agree(u, own, foe, toOwn, toFoe)
    PROVE  Agree(u, own, Update(foe), toOwn, toFoe)
<1>0. Update(foe) \in UnitRecord /\ SameLook(own, own)
  BY UpdateShows DEF SameLook
<1>1. CASE ~Falling(foe)
  BY <1>0, <1>1, StillLook, AgreeLook
<1>2. CASE Falling(foe)
  <2>2. (Fallen(Update(foe)) <=> Fallen(foe)) /\ (Update(foe).changed <=> foe.changed)
    BY <1>0, <1>2, UpdateShows DEF Fallen, Falling
  <2>3. Eventual(Update(foe)) = Eventual(foe)
    BY EventualFacts
  <2>4. HitNoted(foe, own) => HitNoted(Update(foe), own)
    BY <1>2, UpdateShows DEF HitNoted, Falling
  <2>5. /\ \A m : HitTold(foe, own, m) => HitTold(Update(foe), own, m)
        /\ \A m : MoveTold(foe, own, m) => MoveTold(Update(foe), own, m)
    BY <2>2, <2>3 DEF HitTold, MoveTold
  <2> QED
    BY <2>2, <2>3, <2>4, <2>5 DEF Agree, Speaks
<1> QED
  BY <1>1, <1>2

LEMMA AgreeMove ==
    ASSUME NEW u, NEW own \in UnitRecord, NEW foe \in UnitRecord, NEW toOwn \in Seq(PacketRecord),
           NEW toFoe \in Seq(PacketRecord), Agree(u, own, foe, toOwn, toFoe),
           NEW own2 \in UnitRecord, own2.changed, own2.squad = own.squad, own2.dead = own.dead,
           ~foe.changed, ~Speaks(toOwn, u), ~Speaks(toFoe, u)
    PROVE  Agree(u, own2, foe, toOwn, toFoe)
<1>1. Fallen(own2) <=> Fallen(own)
  BY DEF Fallen
<1>2. Fallen(foe) <=> Fallen(own)
  <2>1. CASE ~own.changed
    <3>1. Eventual(foe)[5] = Eventual(own)[5]
      BY <2>1 DEF Agree
    <3> QED
      BY <3>1, EventualFacts
  <2> QED
    BY <2>1 DEF Agree
<1> QED
  BY <1>1, <1>2 DEF Agree, Speaks

LEMMA AgreeHit ==
    ASSUME NEW u, NEW own \in UnitRecord, NEW foe \in UnitRecord, NEW toOwn \in Seq(PacketRecord),
           NEW toFoe \in Seq(PacketRecord), Agree(u, own, foe, toOwn, toFoe),
           NEW foe2 \in UnitRecord, foe2.changed, foe2.dead = foe.dead,
           foe.x # -200, foe.changed \/ ~Falling(foe),
           ~own.changed, ~Speaks(toOwn, u), ~Speaks(toFoe, u)
    PROVE  Agree(u, own, foe2, toOwn, toFoe)
<1>1. ~Falling(own) /\ (own.dead <=> foe.dead)
  <2>1. CASE foe.changed
    BY <2>1 DEF Agree, HitNoted, OffBoard, UnitRecord
  <2>2. CASE ~foe.changed
    <3>1. Eventual(foe) = Eventual(own) /\ ~Falling(foe)
      BY <2>2 DEF Agree
    <3>2. Eventual(foe) = Shown(foe)
      BY <3>1, EventualFacts
    <3>3. Shown(foe)[1] = foe.x
      BY DEF Shown
    <3>4. ~Falling(own)
      BY <3>1, <3>2, <3>3, EventualFacts
    <3>5. Shown(own) = Shown(foe)
      BY <3>1, <3>2, <3>4, EventualFacts
    <3> QED
      BY <3>4, <3>5, ShownFacts
  <2> QED
    BY <2>1, <2>2
<1>2. HitNoted(foe2, own)
  BY <1>1 DEF HitNoted
<1> QED
  BY <1>2 DEF Agree, Speaks

(* The packet about a unit carries what its sender shows. *)
About(m, v) == Shown(v) = <<m.x, m.y, m.squad, m.health, v.dead>>

LEMMA AgreeSendHit ==
    ASSUME NEW u, NEW own \in UnitRecord, NEW foe \in UnitRecord, Agree(u, own, foe, <<>>, <<>>),
           ~own.changed, NEW sent \in Seq(PacketRecord), NEW foe2 \in UnitRecord, ~foe2.changed,
           Shown(foe2) = Shown(foe), foe.changed <=> Speaks(sent, u),
           \A i \in DOMAIN sent : sent[i].name = u => About(sent[i], foe)
    PROVE  Agree(u, own, foe2, sent, <<>>)
<1>0. /\ foe2.x = foe.x /\ foe2.y = foe.y /\ foe2.squad = foe.squad
      /\ foe2.health = foe.health /\ foe2.dead = foe.dead
  BY ShownFacts
<1>1. Eventual(foe2) = Eventual(foe)
  <2>1. CASE Falling(foe)
    <3>1. Falling(foe2)
      BY <1>0, <2>1 DEF Falling
    <3>2. OffBoard(Update(foe)) /\ OffBoard(Update(foe2)) /\ Update(foe).dead /\ Update(foe2).dead
      BY <2>1, <3>1, UpdateShows
    <3>3. Shown(Update(foe)) = Shown(Update(foe2))
      BY <1>0, <3>2, UpdateShows, ShownFacts DEF OffBoard
    <3> QED
      BY <3>3 DEF Eventual
  <2>2. CASE ~Falling(foe)
    <3>1. ~Falling(foe2)
      BY <1>0, <2>2 DEF Falling
    <3> QED
      BY <2>2, <3>1, EventualFacts
  <2> QED
    BY <2>1, <2>2
<1>2. ASSUME NEW m \in PacketRecord, foe.changed, About(m, foe)
      PROVE  HitTold(foe2, own, m)
  <2> DEFINE v == Told(own, m)
  <2>1. /\ ~Falling(own)
        /\ own.dead => foe.dead
        /\ foe.dead /\ ~own.dead => foe.squad <= 0 /\ OffBoard(foe)
    BY <1>2 DEF Agree, HitNoted
  <2>2. /\ v \in UnitRecord /\ v.x = foe.x /\ v.y = foe.y /\ v.squad = foe.squad
        /\ v.health = foe.health /\ v.dead = own.dead
    <3>1. /\ m.x = foe.x /\ m.y = foe.y /\ m.squad = foe.squad /\ m.health = foe.health
      BY <1>2 DEF About, Shown
    <3> QED
      BY <3>1, ToldShows
  <2> HIDE DEF v
  <2>3. CASE v.dead = foe.dead
    <3>1. Shown(Update(v)) = Shown(Update(foe))
      <4>1. CASE Falling(foe)
        <5>1. Falling(v)
          BY <2>2, <2>3, <4>1 DEF Falling
        <5>2. /\ OffBoard(Update(foe)) /\ OffBoard(Update(v))
              /\ Update(foe).dead = TRUE /\ Update(v).dead = TRUE
          BY <2>2, <4>1, <5>1, UpdateShows
        <5> QED
          BY <2>2, <5>2, UpdateShows, ShownFacts DEF OffBoard
      <4>2. CASE ~Falling(foe)
        <5>1. ~Falling(v)
          BY <2>2, <2>3, <4>2 DEF Falling
        <5> QED
          BY <2>2, <2>3, <4>2, <5>1, UpdateShows, ShownFacts
      <4> QED
        BY <4>1, <4>2
    <3> QED
      BY <1>1, <2>1, <3>1 DEF HitTold, Eventual, v
  <2>4. CASE v.dead # foe.dead
    <3>1. foe.dead = TRUE /\ v.dead = FALSE /\ foe.squad <= 0 /\ OffBoard(foe)
      BY <2>1, <2>2, <2>4 DEF UnitRecord
    <3>2. Falling(v) /\ ~Falling(foe)
      BY <2>2, <3>1 DEF Falling
    <3>3. OffBoard(Update(v)) /\ Update(v).dead = TRUE
      BY <2>2, <3>2, UpdateShows
    <3>4. Shown(Update(v)) = Shown(Update(foe))
      BY <2>2, <3>1, <3>2, <3>3, UpdateShows, ShownFacts DEF OffBoard
    <3> QED
      BY <1>1, <2>1, <3>4 DEF HitTold, Eventual, v
  <2> QED
    BY <2>3, <2>4
<1>3. \A i \in DOMAIN sent : sent[i].name = u => HitTold(foe2, own, sent[i])
  BY <1>2 DEF Speaks
<1>4. ~Speaks(<<>>, u)
  BY DEF Speaks
<1> QED
  BY <1>1, <1>3, <1>4 DEF Agree, Speaks

LEMMA AgreeSendMove ==
    ASSUME NEW u, NEW own \in UnitRecord, NEW foe \in UnitRecord, Agree(u, own, foe, <<>>, <<>>),
           ~foe.changed, NEW sent \in Seq(PacketRecord), NEW own2 \in UnitRecord, ~own2.changed,
           Shown(own2) = Shown(own), own.changed <=> Speaks(sent, u),
           own.changed => ~Falling(own),
           \A i \in DOMAIN sent : sent[i].name = u => About(sent[i], own)
    PROVE  Agree(u, own2, foe, <<>>, sent)
<1>0. /\ own2.x = own.x /\ own2.y = own.y /\ own2.squad = own.squad
      /\ own2.health = own.health /\ own2.dead = own.dead
  BY ShownFacts
<1>1. ASSUME NEW m \in PacketRecord, own.changed, About(m, own)
      PROVE  MoveTold(foe, own2, m)
  <2>1. ~Falling(own2) /\ ~Falling(own)
    BY <1>0, <1>1 DEF Falling
  <2>2. own.dead <=> Fallen(foe)
    BY <1>1, <2>1 DEF Agree, Falling, Fallen
  <2>3. Shown(own2) = <<m.x, m.y, m.squad, m.health, own2.dead>>
    BY <1>0, <1>1 DEF About
  <2> QED
    BY <1>0, <2>1, <2>2, <2>3 DEF MoveTold
<1>2. \A i \in DOMAIN sent : sent[i].name = u => MoveTold(foe, own2, sent[i])
  BY <1>1 DEF Speaks
<1>3. ~own.changed => Eventual(foe) = Eventual(own)
  BY DEF Agree, Speaks
<1>4. ~own.changed => SameLook(own, own2)
  BY DEF SameLook
<1>5. ~own.changed => Eventual(own2) = Eventual(own)
  BY <1>4, LookFacts
<1> QED
  BY <1>2, <1>3, <1>5 DEF Agree, Speaks

(* Packets about different units. *)
Once(q) == \A i, j \in DOMAIN q : q[i].name = q[j].name => i = j

LEMMA OnceTail ==
    ASSUME NEW q \in Seq(PacketRecord), q # <<>>, Once(q)
    PROVE  /\ Tail(q) \in Seq(PacketRecord) /\ Once(Tail(q))
           /\ Head(q) \in PacketRecord
           /\ ~Speaks(Tail(q), Head(q).name)
           /\ \A u : u # Head(q).name => (Speaks(Tail(q), u) <=> Speaks(q, u))
           /\ \A i \in DOMAIN Tail(q) : \E j \in DOMAIN q : j # 1 /\ Tail(q)[i] = q[j]
           /\ 1 \in DOMAIN q /\ q[1] = Head(q)
<1> DEFINE r == Tail(q)
           n == Len(q)
<1>1. /\ r \in Seq(PacketRecord) /\ n \in Nat \ {0} /\ Len(r) = n - 1
      /\ Head(q) = q[1] /\ Head(q) \in PacketRecord
      /\ \A i \in 1 .. n - 1 : r[i] = q[i + 1]
  BY TailFacts
<1>2. DOMAIN q = 1 .. n /\ DOMAIN r = 1 .. n - 1
  BY <1>1
<1> HIDE DEF r, n
<1>3. \A i \in DOMAIN r : i + 1 \in DOMAIN q /\ i + 1 # 1 /\ r[i] = q[i + 1]
  BY <1>1, <1>2
<1>4. 1 \in DOMAIN q
  BY <1>1, <1>2
<1>5. Once(r)
  <2> SUFFICES ASSUME NEW i \in DOMAIN r, NEW j \in DOMAIN r, r[i].name = r[j].name PROVE i = j
    BY DEF Once
  <2>1. i + 1 = j + 1
    BY <1>3 DEF Once
  <2> QED
    BY <1>1, <1>2, <2>1
<1>6. ~Speaks(r, q[1].name)
  BY <1>3, <1>4 DEF Speaks, Once
<1>7. ASSUME NEW u, u # q[1].name PROVE Speaks(r, u) <=> Speaks(q, u)
  <2>1. ASSUME NEW i \in DOMAIN q, q[i].name = u PROVE \E j \in DOMAIN r : r[j].name = u
    <3>1. i # 1 /\ i \in 1 .. n
      BY <1>2, <1>7, <2>1
    <3>2. i - 1 \in DOMAIN r /\ r[i - 1] = q[(i - 1) + 1] /\ (i - 1) + 1 = i
      BY <1>1, <1>2, <3>1
    <3> QED
      BY <2>1, <3>2
  <2> QED
    BY <1>3, <2>1 DEF Speaks
<1> QED
  BY <1>1, <1>3, <1>4, <1>5, <1>6, <1>7 DEF r

LEMMA AgreeHearHit ==
    ASSUME NEW u, NEW own \in UnitRecord, NEW foe \in UnitRecord, NEW q \in Seq(PacketRecord),
           q # <<>>, Once(q), Agree(u, own, foe, q, <<>>), ~own.changed, ~foe.changed,
           NEW own2 \in UnitRecord,
           own2 = IF Head(q).name = u THEN Told(own, Head(q)) ELSE own
    PROVE  Agree(u, own2, foe, Tail(q), <<>>)
<1>1. CASE Head(q).name = u
  <2>1. HitTold(foe, own, Head(q)) /\ ~Speaks(Tail(q), u) /\ Head(q) \in PacketRecord
    BY <1>1, OnceTail DEF Agree
  <2>2. Eventual(own2) = Eventual(foe) /\ own2.changed = own.changed
    BY <1>1, <2>1, ToldShows DEF HitTold
  <2> QED
    BY <2>1, <2>2 DEF Agree, Speaks
<1>2. CASE Head(q).name # u
  <2>1. Speaks(Tail(q), u) <=> Speaks(q, u)
    BY <1>2, OnceTail
  <2>2. \A i \in DOMAIN Tail(q) : Tail(q)[i].name = u => HitTold(foe, own, Tail(q)[i])
    BY OnceTail DEF Agree
  <2> QED
    BY <1>2, <2>1, <2>2 DEF Agree
<1> QED
  BY <1>1, <1>2

LEMMA AgreeHearMove ==
    ASSUME NEW u, NEW own \in UnitRecord, NEW foe \in UnitRecord, NEW q \in Seq(PacketRecord),
           q # <<>>, Once(q), Agree(u, own, foe, <<>>, q), ~own.changed, ~foe.changed,
           ~Falling(foe), NEW foe2 \in UnitRecord,
           foe2 = IF Head(q).name = u THEN Told(foe, Head(q)) ELSE foe
    PROVE  Agree(u, own, foe2, <<>>, Tail(q)) /\ ~Falling(foe2)
<1>1. CASE Head(q).name = u
  <2> DEFINE m == Head(q)
  <2>1. MoveTold(foe, own, m) /\ ~Speaks(Tail(q), u) /\ m \in PacketRecord
    BY <1>1, OnceTail DEF Agree
  <2> HIDE DEF m
  <2>2. /\ own.x = m.x /\ own.y = m.y /\ own.squad = m.squad /\ own.health = m.health
        /\ own.dead <=> foe.dead
        /\ ~Falling(own)
    BY <2>1 DEF MoveTold, Shown, Fallen, Falling
  <2>3. /\ foe2.x = m.x /\ foe2.y = m.y /\ foe2.squad = m.squad /\ foe2.health = m.health
        /\ foe2.dead = foe.dead /\ foe2.changed = foe.changed
    BY <1>1, <2>1, ToldShows DEF m
  <2>4. foe.dead = own.dead
    BY <2>2 DEF UnitRecord
  <2>5. Shown(foe2) = Shown(own) /\ SameLook(foe2, own)
    BY <2>2, <2>3, <2>4, ShownFacts DEF SameLook
  <2>6. Eventual(foe2) = Eventual(own) /\ ~Falling(foe2)
    BY <2>2, <2>5, LookFacts
  <2> QED
    BY <2>1, <2>3, <2>6 DEF Agree, Speaks, m
<1>2. CASE Head(q).name # u
  <2>1. Speaks(Tail(q), u) <=> Speaks(q, u)
    BY <1>2, OnceTail
  <2>2. \A i \in DOMAIN Tail(q) : Tail(q)[i].name = u => MoveTold(foe, own, Tail(q)[i])
    BY OnceTail DEF Agree
  <2> QED
    BY <1>2, <2>1, <2>2 DEF Agree
<1> QED
  BY <1>1, <1>2

LEMMA SetToSeqRange ==
    ASSUME NEW S, IsFiniteSet(S)
    PROVE  /\ SetToSeq(S) \in Seq(S)
           /\ \A x \in S : \E i \in DOMAIN SetToSeq(S) : SetToSeq(S)[i] = x
           /\ \A i, j \in DOMAIN SetToSeq(S) : SetToSeq(S)[i] = SetToSeq(S)[j] => i = j
<1> DEFINE n == Cardinality(S)
           c == SetToSeq(S)
<1>1. n \in Nat
  BY FS_CardinalityType
<1>2. PICK b : b \in Bijection(1 .. n, S)
  <2>1. PICK m \in Nat : ExistsBijection(1 .. m, S)
    BY FS_NatBijection
  <2>2. m = n
    BY <2>1, FS_CountingElements
  <2> QED
    BY <2>1, <2>2 DEF ExistsBijection
<1>3. c \in [1 .. n -> S] /\ IsInjective(c)
  <2>1. \E f \in [1 .. n -> S] : IsInjective(f)
    BY <1>2 DEF Bijection, Injection, IsInjective
  <2> QED
    BY <2>1 DEF SetToSeq
<1> HIDE DEF c
<1>4. \A i, j \in 1 .. n : c[i] = c[j] => i = j
  BY <1>3 DEF IsInjective
<1>5. \A x \in S : \E i \in 1 .. n : c[i] = x
  <2> DEFINE T == {c[i] : i \in 1 .. n}
  <2>1. T \subseteq S
    BY <1>3
  <2>2. c \in Bijection(1 .. n, T)
    BY <1>3, <1>4 DEF Bijection, Injection, Surjection
  <2>3. Cardinality(T) = n
    BY <1>1, <2>2, FS_CountingElements DEF ExistsBijection
  <2>4. T = S
    BY <2>1, <2>3, FS_Subset
  <2> QED
    BY <2>4
<1> QED
  BY <1>1, <1>3, <1>4, <1>5 DEF c

(* What is sent at the end of a turn: a packet for each unit that has changed, *)
(* with what the client shows of it.                                         *)
LEMMA TurnPacketsTell ==
    ASSUME Base, NEW t \in Teams, NEW endgame \in BOOLEAN
    PROVE  /\ Once(TurnPackets(t, endgame))
           /\ \A u \in Units : unit[t][u].changed <=> Speaks(TurnPackets(t, endgame), u)
           /\ \A u \in Units : \A i \in DOMAIN TurnPackets(t, endgame) :
                 TurnPackets(t, endgame)[i].name = u
                 => About(TurnPackets(t, endgame)[i], unit[t][u])
<1> DEFINE S == {u \in Units : unit[t][u].changed}
           c == SetToSeq(S)
           P(u) == Packet(u, unit[t][u].x, unit[t][u].y, unit[t][u].squad, unit[t][u].health)
           told == ChangedPackets(t)
           final == Packet("endturn", 0, 0, 0, 0)
           news == Packet("endgame", IF Victor(t) = 1 THEN 1 ELSE 2, 0, 0, 0)
           n == IF endgame THEN <<news>> ELSE <<>>
           q == TurnPackets(t, endgame)
<1>1. IsFiniteSet(S)
  BY UnitAssumption, FS_Subset
<1>2. /\ c \in Seq(S)
      /\ \A x \in S : \E i \in DOMAIN c : c[i] = x
      /\ \A i, j \in DOMAIN c : c[i] = c[j] => i = j
  BY <1>1, SetToSeqRange
<1>3. told = [i \in DOMAIN c |-> P(c[i])]
  BY DEF ChangedPackets
<1>4. \A u \in Units : P(u).name = u /\ About(P(u), unit[t][u])
  BY DEF Packet, About, Shown
<1> HIDE DEF c, P
<1>5. \A i \in DOMAIN c : c[i] \in Units /\ unit[t][c[i]].changed
  BY <1>2
<1>6. /\ DOMAIN told = DOMAIN c
      /\ \A i \in DOMAIN c : /\ told[i].name = c[i] /\ told[i].name \in Units
                             /\ About(told[i], unit[t][c[i]])
  BY <1>3, <1>4, <1>5
<1>7. told \in Seq(PacketRecord)
  BY ChangedPacketsFacts DEF WireOK
<1>8. /\ final.name = "endturn" /\ news.name = "endgame"
      /\ "endturn" \notin Units /\ "endgame" \notin Units
  BY UnitAssumption DEF Packet
<1>80. final \in PacketRecord /\ news \in PacketRecord
  BY DEF Packet, PacketRecord, Names
<1>9. q = told \o n \o <<final>>
  BY DEF TurnPackets
<1> HIDE DEF told, final, news, q
<1> DEFINE k == Len(told)
<1>10. k \in Nat /\ DOMAIN told = 1 .. k
  BY <1>7
<1>11. /\ \A i \in 1 .. k : i \in DOMAIN q /\ q[i] = told[i]
       /\ \A i \in DOMAIN q : \/ i \in 1 .. k
                              \/ i = k + 1 /\ endgame /\ q[i] = news
                              \/ i = k + 2 /\ endgame /\ q[i] = final
                              \/ i = k + 1 /\ ~endgame /\ q[i] = final
  <2>1. CASE endgame
    <3> DEFINE d == told \o <<news>>
    <3>1. q = d \o <<final>>
      BY <1>9, <2>1
    <3>2. /\ d \in Seq(PacketRecord) /\ Len(d) = k + 1 /\ d[k + 1] = news
          /\ \A i \in 1 .. k : d[i] = told[i]
      BY <1>7, <1>80, <1>10
    <3> HIDE DEF d
    <3>3. /\ DOMAIN q = 1 .. k + 2 /\ q[k + 2] = final
          /\ \A i \in 1 .. k + 1 : q[i] = d[i]
      BY <1>10, <1>80, <3>1, <3>2
    <3> QED
      BY <1>10, <2>1, <3>2, <3>3
  <2>2. CASE ~endgame
    <3>1. q = told \o <<>> \o <<final>>
      BY <1>9, <2>2
    <3> QED
      BY <1>7, <1>10, <2>2, <3>1
  <2> QED
    BY <2>1, <2>2
<1> HIDE DEF k
<1>12. \A i \in DOMAIN q : q[i].name \in Units => i \in 1 .. k
  BY <1>8, <1>11
<1>13. Once(q)
  <2> SUFFICES ASSUME NEW i \in DOMAIN q, NEW j \in DOMAIN q, q[i].name = q[j].name PROVE i = j
    BY DEF Once
  <2>1. CASE i \in 1 .. k
    <3>1. q[i].name \in Units /\ j \in 1 .. k
      BY <1>6, <1>10, <1>11, <1>12, <2>1
    <3> QED
      BY <1>2, <1>6, <1>10, <1>11, <2>1, <3>1
  <2>2. CASE i \notin 1 .. k
    <3>1. j \notin 1 .. k
      BY <1>6, <1>10, <1>11, <1>12, <2>2
    <3> QED
      BY <1>8, <1>11, <2>2, <3>1
  <2> QED
    BY <2>1, <2>2
<1>14. ASSUME NEW u \in Units
       PROVE  /\ unit[t][u].changed <=> Speaks(q, u)
              /\ \A i \in DOMAIN q : q[i].name = u => About(q[i], unit[t][u])
  <2>1. ASSUME unit[t][u].changed PROVE Speaks(q, u)
    BY <1>2, <1>6, <1>10, <1>11, <2>1 DEF Speaks
  <2>2. ASSUME NEW i \in DOMAIN q, q[i].name = u
        PROVE  unit[t][u].changed /\ About(q[i], unit[t][u])
    BY <1>5, <1>6, <1>10, <1>11, <1>12, <2>2
  <2> QED
    BY <2>1, <2>2 DEF Speaks
<1> QED
  BY <1>13, <1>14 DEF q

--------------------------------------------------------------------------------
(* The pace of one client.  A poll of the input delivers one click, and a     *)
(* frame comes between two polls: what a click has done to a unit waits for   *)
(* a frame before the turn can be ended, and a death that a frame has been    *)
(* told of is found by the next one before the unit can be sent.             *)

Polled(t) == Callbacks \subseteq polled[t]
Still(t) == selected[t] = {} \/ \A k \in Callbacks : click[t][k].pc = "idle"
Spent(t) ==
    Polled(t) /\ (selected[t] = {} \/ \A k \in Callbacks : click[t][k].pc \in {"idle", "select"})
Stale(t) == inFrame[t] \/ \E u \in Army(t) : Falling(unit[t][u])
Noted(t) == \E u \in Units : unit[t][u].changed

Paced(t) ==
    /\ selected[t] \subseteq Army(t)
    /\ Resting(t) => ~Noted(t)
    /\ Stale(t) /\ ~Polled(t) => Still(t) /\ ~Noted(t)
    /\ \A u \in Units \ Army(t) :
          Falling(unit[t][u]) /\ ~unit[t][u].changed => ~inFrame[t] /\ Spent(t)
    /\ Once(wire[t])

Related(u) ==
    LET w == Team[u]
        f == Other(w)
    IN  Agree(u, unit[w][u], unit[f][u], wire[w], wire[f])

BoardInv == Unfinished => (\A t \in Teams : Paced(t)) /\ (\A u \in Units : Related(u))

LEMMA RelatedCases ==
    ASSUME NEW t \in Teams, NEW u \in Units
    PROVE  /\ Team[u] = t =>
                (Related(u) <=> Agree(u, unit[t][u], unit[Other(t)][u], wire[t], wire[Other(t)]))
           /\ Team[u] # t =>
                (Related(u) <=> Agree(u, unit[Other(t)][u], unit[t][u], wire[Other(t)], wire[t]))
           /\ Team[u] = t =>
                (Related(u)' <=> Agree(u, unit'[t][u], unit'[Other(t)][u], wire'[t], wire'[Other(t)]))
           /\ Team[u] # t =>
                (Related(u)' <=> Agree(u, unit'[Other(t)][u], unit'[t][u], wire'[Other(t)], wire'[t]))
<1>1. Team[u] \in Teams
  BY UnitAssumption
<1>2. Team[u] # t => Team[u] = Other(t) /\ Other(Other(t)) = t
  BY <1>1, TeamFacts
<1> QED
  BY <1>2 DEF Related

LEMMA BoardInit == Init => BoardInv
<1> SUFFICES ASSUME Init PROVE BoardInv
  OBVIOUS
<1>1. ASSUME NEW t \in Teams, NEW u \in Units
      PROVE  /\ unit[t][u] = NewUnit(Kind[u], Start[u])
             /\ ~unit[t][u].changed /\ ~Falling(unit[t][u])
  <2>1. unit[t][u] = NewUnit(Kind[u], Start[u])
    BY DEF Init
  <2> DEFINE n == UnitType[Kind[u]].squad
  <2>2. n \in Int /\ n > 0
    BY UnitAssumption DEF UnitType, Kinds
  <2>3. unit[t][u].squad = n /\ unit[t][u].changed = FALSE
    BY <2>1 DEF NewUnit
  <2> HIDE DEF n
  <2> QED
    BY <2>1, <2>2, <2>3 DEF Falling
<1>2. \A t \in Teams : wire[t] = <<>> /\ selected[t] = {} /\ ~inFrame[t]
  BY DEF Init
<1>3. \A t \in Teams : Paced(t)
  BY <1>1, <1>2 DEF Paced, Noted, Stale, Still, Once, Army
<1>4. \A u \in Units : Related(u)
  <2> TAKE u \in Units
  <2>1. Team[u] \in Teams /\ Other(Team[u]) \in Teams
    BY UnitAssumption, TeamFacts
  <2> QED
    BY <1>1, <1>2, <2>1 DEF Related, Agree
<1> QED
  BY <1>3, <1>4 DEF BoardInv

(* The client that may act has nothing on its way to it or from it.          *)
LEMMA ActsAlone ==
    ASSUME Base, TurnInv, NEW t \in Teams, ~Resting(t)
    PROVE  wire[t] = <<>> /\ wire[Other(t)] = <<>> /\ Resting(Other(t))
<1>1. Side(t) = t
  BY SideFacts
<1>2. Holds(t)
  BY <1>1, TeamFacts DEF TurnInv, Holds, Passing
<1>3. Resting(Other(t))
  BY <1>2, TeamFacts, SideFacts DEF Holds
<1> QED
  BY <1>2, <1>3 DEF Holds

LEMMA HearsAlone ==
    ASSUME Base, TurnInv, NEW t \in Teams, wire[t] # <<>>
    PROVE  wire[Other(t)] = <<>> /\ Resting(t) /\ Resting(Other(t))
<1>1. Passing(Other(t))
  BY TeamFacts DEF TurnInv, Holds, Passing
<1> QED
  BY <1>1, TeamFacts, SideFacts DEF Passing

(* A step of the other client leaves a client what it has. *)
LEMMA PacedOther ==
    ASSUME NEW s \in Teams, Paced(s), selected'[s] = selected[s], unit'[s] = unit[s],
           inFrame'[s] = inFrame[s], polled'[s] = polled[s], click'[s] = click[s],
           turn'[s] = turn[s], Once(wire'[s])
    PROVE  Paced(s)'
<1>1. Resting(s)' <=> Resting(s)
  BY DEF Resting, Flipping
<1>2. /\ Polled(s)' <=> Polled(s)
      /\ Still(s)' <=> Still(s)
      /\ Spent(s)' <=> Spent(s)
      /\ Stale(s)' <=> Stale(s)
      /\ Noted(s)' <=> Noted(s)
  BY DEF Polled, Still, Spent, Stale, Noted
<1> QED
  BY <1>1, <1>2 DEF Paced

(* One click per poll: what is left of Still and Spent for the only callback. *)
LEMMA OneCallback ==
    ASSUME OneClickPerPoll, Base, NEW t \in Teams, NEW k \in Callbacks
    PROVE  /\ Polled(t) <=> k \in polled[t]
           /\ Polled(t)' <=> k \in polled'[t]
           /\ Flipping(t) <=> click[t][k].pc = "flip"
           /\ Flipping(t)' <=> click'[t][k].pc = "flip"
           /\ Still(t) <=> selected[t] = {} \/ click[t][k].pc = "idle"
           /\ Still(t)' <=> selected'[t] = {} \/ click'[t][k].pc = "idle"
           /\ Spent(t) <=> /\ k \in polled[t]
                           /\ selected[t] = {} \/ click[t][k].pc \in {"idle", "select"}
           /\ Spent(t)' <=> /\ k \in polled'[t]
                            /\ selected'[t] = {} \/ click'[t][k].pc \in {"idle", "select"}
<1>1. Callbacks = {k}
  BY DEF OneClickPerPoll
<1> QED
  BY <1>1 DEF Polled, Flipping, Still, Spent

LEMMA RelatedPlain ==
    ASSUME UNCHANGED <<unit, wire>>, NEW u \in Units, Related(u)
    PROVE  Related(u)'
  BY DEF Related

(* The other client keeps its pace as long as nothing is sent to it.         *)
LEMMA OtherKeeps ==
    ASSUME NEW t \in Teams, \A s \in Teams : Paced(s),
           \A s \in Teams : s # t =>
               /\ selected'[s] = selected[s] /\ unit'[s] = unit[s] /\ inFrame'[s] = inFrame[s]
               /\ polled'[s] = polled[s] /\ click'[s] = click[s] /\ turn'[s] = turn[s],
           \A s \in Teams : s # t => wire'[s] = wire[s],
           Paced(t)'
    PROVE  \A s \in Teams : Paced(s)'
<1> SUFFICES ASSUME NEW s \in Teams, s # t PROVE Paced(s)'
  OBVIOUS
<1>1. Once(wire'[s])
  BY DEF Paced
<1> QED
  BY <1>1, PacedOther

LEMMA StepPc ==
    ASSUME Base, NEW t \in Teams, NEW k \in Callbacks, NEW pc, NEW next, Step(t, k, pc, next)
    PROVE  /\ click[t][k].pc = pc /\ click'[t][k].pc = next
           /\ \A s \in Teams : s # t => click'[s] = click[s]
<1>1. click \in [Teams -> [Callbacks -> [pc : PCs, at : Nat \X Nat]]]
  BY BaseParts
<1> QED
  BY <1>1 DEF Step

LEMMA BoardClickHandler ==
    ASSUME OneClickPerPoll, Base, \A s \in Teams : Paced(s), \A u \in Units : Related(u),
           NEW t \in Teams, NEW k \in Callbacks, ClickHandler(t, k)
    PROVE  (\A s \in Teams : Paced(s)') /\ (\A u \in Units : Related(u)')
<1>a. /\ polled \in [Teams -> SUBSET Callbacks]
      /\ click \in [Teams -> [Callbacks -> [pc : PCs, at : Nat \X Nat]]]
  BY BaseParts
<1>1. /\ click[t][k].pc = "idle" /\ k \notin polled[t]
      /\ k \in polled'[t] /\ click'[t][k].pc = "place"
      /\ UNCHANGED <<unit, selected, turn, inFrame, wire>>
      /\ \A s \in Teams : s # t => polled'[s] = polled[s] /\ click'[s] = click[s]
  BY <1>a DEF ClickHandler
<1>2. Resting(t)' <=> Resting(t)
  BY <1>1, OneCallback DEF Resting
<1>3. \A u \in Units \ Army(t) : Falling(unit[t][u]) => unit[t][u].changed
  BY <1>1, OneCallback DEF Paced
<1>4. Polled(t)'
  BY <1>1, OneCallback
<1>5. Noted(t)' <=> Noted(t)
  BY <1>1 DEF Noted
<1>6. Paced(t)'
  BY <1>1, <1>2, <1>3, <1>4, <1>5 DEF Paced
<1> QED
  BY <1>1, <1>6, OtherKeeps, RelatedPlain

LEMMA BoardFlipTurn ==
    ASSUME OneClickPerPoll, Base, TurnInv, \A s \in Teams : Paced(s), \A u \in Units : Related(u),
           NEW t \in Teams, NEW k \in Callbacks, FlipTurn(t, k)
    PROVE  (\A s \in Teams : Paced(s)') /\ (\A u \in Units : Related(u)')
<1>1. /\ click[t][k].pc = "flip" /\ click'[t][k].pc = "place"
      /\ \A s \in Teams : s # t => click'[s] = click[s] /\ turn'[s] = turn[s]
      /\ UNCHANGED <<unit, selected, inFrame, polled, wire>>
  BY BaseParts, StepPc DEF FlipTurn
<1>2. Resting(t)
  BY <1>1, OneCallback DEF Resting
<1>3. selected[t] = {} /\ ~Noted(t)
  BY <1>2 DEF TurnInv, Paced
<1>4. ~Noted(t)' /\ selected'[t] = {} /\ Still(t)'
  BY <1>1, <1>3 DEF Noted, Still
<1>5. Spent(t) => Spent(t)'
  BY <1>1, <1>3, OneCallback
<1>6. Paced(t)'
  BY <1>1, <1>4, <1>5 DEF Paced
<1> QED
  BY <1>1, <1>6, OtherKeeps, RelatedPlain

LEMMA BoardSetSelected ==
    ASSUME OneClickPerPoll, Base, \A s \in Teams : Paced(s), \A u \in Units : Related(u),
           NEW t \in Teams, NEW k \in Callbacks, SetSelected(t, k)
    PROVE  (\A s \in Teams : Paced(s)') /\ (\A u \in Units : Related(u)')
<1>a. /\ selected \in [Teams -> SUBSET Units]
      /\ click \in [Teams -> [Callbacks -> [pc : PCs, at : Nat \X Nat]]]
  BY BaseParts
<1>1. /\ click[t][k].pc = "select" /\ click'[t][k].pc = "idle"
      /\ \A s \in Teams : s # t => click'[s] = click[s] /\ selected'[s] = selected[s]
      /\ UNCHANGED <<unit, turn, inFrame, polled, wire>>
      /\ \/ selected' = selected
         \/ /\ selected'[t] = Toggle(selected[t], UnitsAt(t, click[t][k].at) \cap Army(t))
            /\ turn[t] = t
  BY <1>a DEF SetSelected, Idle
<1>2. Resting(t)' <=> Resting(t)
  BY <1>1, OneCallback DEF Resting
<1>3. selected'[t] \subseteq Army(t)
  BY <1>1 DEF Toggle, Paced
<1>4. /\ Noted(t)' <=> Noted(t)
      /\ Polled(t)' <=> Polled(t)
      /\ Stale(t)' <=> Stale(t)
  BY <1>1 DEF Noted, Polled, Stale
<1>5. Still(t)' /\ (Spent(t) => Spent(t)')
  BY <1>1, OneCallback
<1>6. Paced(t)'
  BY <1>1, <1>2, <1>3, <1>4, <1>5 DEF Paced
<1> QED
  BY <1>1, <1>6, OtherKeeps, RelatedPlain

LEMMA RestedShows ==
    ASSUME NEW v \in UnitRecord, NEW kind \in Kinds
    PROVE  /\ Rested(kind, v) \in UnitRecord /\ Shown(Rested(kind, v)) = Shown(v)
           /\ Rested(kind, v).changed = FALSE
           /\ Falling(Rested(kind, v)) <=> Falling(v)
<1> DEFINE n == UnitType[kind].ap
<1>1. n \in Int
  BY DEF UnitType, Kinds
<1> HIDE DEF n
<1>2. Rested(kind, v) = [v EXCEPT !.ap = n, !.changed = FALSE]
  BY DEF Rested, n
<1>3. /\ Rested(kind, v).x = v.x /\ Rested(kind, v).y = v.y
      /\ Rested(kind, v).squad = v.squad /\ Rested(kind, v).health = v.health
      /\ Rested(kind, v).dead = v.dead /\ Rested(kind, v).changed = FALSE
  BY <1>2 DEF UnitRecord
<1>4. Rested(kind, v) \in UnitRecord
  BY RestedFacts
<1> QED
  BY <1>3, <1>4, ShownFacts DEF Falling

LEMMA BoardNextTurn ==
    ASSUME OneClickPerPoll, Base, Base', TurnInv, \A s \in Teams : Paced(s), \A u \in Units : Related(u),
           NEW t \in Teams, NEW k \in Callbacks, NextTurnPressed(t, k)
    PROVE  (\A s \in Teams : Paced(s)') /\ (\A u \in Units : Related(u)')
<1> DEFINE o == Other(t)
<1>0. o \in Teams /\ o # t /\ Other(o) = t /\ \A s \in Teams : s = t \/ s = o
  BY TeamFacts
<1>a. /\ unit \in [Teams -> [Units -> UnitRecord]]
      /\ wire \in [Teams -> Seq(PacketRecord)]
      /\ selected \in [Teams -> SUBSET Units]
      /\ polled \in [Teams -> SUBSET Callbacks]
      /\ click \in [Teams -> [Callbacks -> [pc : PCs, at : Nat \X Nat]]]
  BY BaseParts
<1>1. /\ turn[t] = t /\ click[t][k].pc = "idle" /\ k \notin polled[t]
      /\ k \in polled'[t] /\ click'[t][k].pc = "flip"
      /\ selected'[t] = {} /\ UNCHANGED <<turn, inFrame>>
      /\ \A s \in Teams : s # t =>
            /\ selected'[s] = selected[s] /\ unit'[s] = unit[s]
            /\ polled'[s] = polled[s] /\ click'[s] = click[s]
      /\ \A u \in Units : unit'[t][u] = Rested(Kind[u], unit[t][u])
  BY <1>a DEF NextTurnPressed
<1>2. PICK fell \in BOOLEAN :
         wire' = [wire EXCEPT ![o] = @ \o TurnPackets(t, Depleted(t) \/ fell)]
  BY BoundAssumption DEF NextTurnPressed
<1> DEFINE sent == TurnPackets(t, Depleted(t) \/ fell)
<1>3. ~Resting(t)
  BY <1>1, OneCallback DEF Resting
<1>4. wire[t] = <<>> /\ wire[o] = <<>> /\ Resting(o)
  BY <1>3, ActsAlone
<1>5. /\ sent \in Seq(PacketRecord) /\ Once(sent)
      /\ \A u \in Units : unit[t][u].changed <=> Speaks(sent, u)
      /\ \A u \in Units : \A i \in DOMAIN sent :
            sent[i].name = u => About(sent[i], unit[t][u])
  BY TurnPacketsTell, TurnPacketsFacts DEF WireOK
<1> HIDE DEF sent
<1>6. wire'[o] = sent /\ wire'[t] = <<>>
  <2>1. wire' = [wire EXCEPT ![o] = @ \o sent]
    BY <1>2 DEF sent
  <2>2. <<>> \o sent = sent
    BY <1>5
  <2> QED
    BY <1>0, <1>a, <1>4, <2>1, <2>2
<1>7. \A u \in Units : /\ unit[t][u] \in UnitRecord /\ unit'[t][u] \in UnitRecord
                       /\ unit[o][u] \in UnitRecord
                       /\ Shown(unit'[t][u]) = Shown(unit[t][u])
                       /\ ~unit'[t][u].changed
                       /\ Falling(unit'[t][u]) <=> Falling(unit[t][u])
  <2> TAKE u \in Units
  <2>1. unit[t][u] \in UnitRecord /\ unit[o][u] \in UnitRecord /\ Kind[u] \in Kinds
    BY <1>0, <1>a, UnitAssumption
  <2>2. unit'[t][u] = Rested(Kind[u], unit[t][u])
    BY <1>1
  <2> DEFINE w == Rested(Kind[u], unit[t][u])
  <2>3. /\ w \in UnitRecord /\ Shown(w) = Shown(unit[t][u]) /\ w.changed = FALSE
        /\ Falling(w) <=> Falling(unit[t][u])
    BY <2>1, RestedShows
  <2> HIDE DEF w
  <2>4. unit'[t][u] = w
    BY <2>2 DEF w
  <2> QED
    BY <2>1, <2>3, <2>4
<1>8. ~Polled(t) /\ Polled(t)'
  BY <1>1, OneCallback
<1>9. Noted(t) => ~Stale(t)
  BY <1>8 DEF Paced
<1>10. Paced(t)'
  <2>1. ~Noted(t)' /\ Still(t)' /\ selected'[t] = {}
    BY <1>1, <1>7 DEF Noted, Still
  <2>2. ASSUME NEW u \in Units \ Army(t), Falling(unit'[t][u])
        PROVE  ~inFrame'[t] /\ Spent(t)'
    <3>1. unit[t][u].changed
      BY <1>7, <1>8, <2>2 DEF Paced, Spent
    <3>2. ~inFrame[t]
      BY <1>9, <3>1 DEF Noted, Stale
    <3> QED
      BY <1>1, <3>2, OneCallback
  <2>3. Once(wire'[t])
    BY <1>6 DEF Once
  <2> QED
    BY <2>1, <2>2, <2>3 DEF Paced
<1>11. Paced(o)'
  BY <1>0, <1>1, <1>5, <1>6, PacedOther
<1>12. ASSUME NEW u \in Units PROVE Related(u)'
  <2>1. ~unit[o][u].changed /\ unit'[o][u] = unit[o][u]
    BY <1>0, <1>1, <1>4 DEF Paced, Noted
  <2>2. CASE Team[u] = t
    <3>1. Agree(u, unit[t][u], unit[o][u], <<>>, <<>>)
      BY <1>0, <1>4, <2>2, RelatedCases
    <3>2. unit[t][u].changed => ~Falling(unit[t][u])
      BY <1>9, <2>2 DEF Noted, Stale, Army
    <3>3. Agree(u, unit'[t][u], unit[o][u], <<>>, sent)
      BY <1>5, <1>7, <2>1, <3>1, <3>2, AgreeSendMove
    <3> QED
      BY <1>0, <1>6, <2>1, <2>2, <3>3, RelatedCases
  <2>3. CASE Team[u] # t
    <3>1. Agree(u, unit[o][u], unit[t][u], <<>>, <<>>)
      BY <1>0, <1>4, <2>3, RelatedCases
    <3>3. Agree(u, unit[o][u], unit'[t][u], sent, <<>>)
      BY <1>5, <1>7, <2>1, <3>1, AgreeSendHit
    <3> QED
      BY <1>0, <1>6, <2>1, <2>3, <3>3, RelatedCases
  <2> QED
    BY <2>2, <2>3
<1> QED
  BY <1>0, <1>10, <1>11, <1>12

(* A click moves nothing unless something is selected, and then on the turn  *)
(* of its client, who has nothing unpolled that is stale.                    *)
LEMMA ClickActs ==
    ASSUME OneClickPerPoll, Base, TurnInv, \A s \in Teams : Paced(s),
           NEW t \in Teams, NEW k \in Callbacks, selected[t] # {},
           click[t][k].pc \in {"place", "attack"}
    PROVE  /\ wire[t] = <<>> /\ wire[Other(t)] = <<>>
           /\ ~Resting(t) /\ ~Noted(Other(t))
           /\ Stale(t) => Polled(t)
           /\ \A u \in Units \ Army(t) : Falling(unit[t][u]) => unit[t][u].changed
<1>1. ~Resting(t)
  BY DEF TurnInv
<1>2. wire[t] = <<>> /\ wire[Other(t)] = <<>> /\ Resting(Other(t))
  BY <1>1, ActsAlone
<1>3. ~Noted(Other(t))
  BY <1>2, TeamFacts DEF Paced
<1>4. ~Still(t) /\ ~Spent(t)
  BY OneCallback
<1> QED
  BY <1>1, <1>2, <1>3, <1>4 DEF Paced

LEMMA BoardPlace ==
    ASSUME OneClickPerPoll, Base, Base', TurnInv, \A s \in Teams : Paced(s), \A u \in Units : Related(u),
           NEW t \in Teams, NEW k \in Callbacks, PlaceUnitAtClick(t, k)
    PROVE  (\A s \in Teams : Paced(s)') /\ (\A u \in Units : Related(u)')
<1> DEFINE o == Other(t)
           p == click[t][k].at
<1>0. o \in Teams /\ o # t /\ Other(o) = t
  BY TeamFacts
<1>a. unit \in [Teams -> [Units -> UnitRecord]] /\ unit' \in [Teams -> [Units -> UnitRecord]]
  BY BaseParts DEF Base, TypeOK
<1>1. /\ click[t][k].pc = "place" /\ click'[t][k].pc = "attack"
      /\ \A s \in Teams : s # t => click'[s] = click[s]
      /\ UNCHANGED <<selected, turn, inFrame, polled, wire>>
  BY StepPc DEF PlaceUnitAtClick
<1>2. /\ Resting(t)' <=> Resting(t)
      /\ Polled(t)' <=> Polled(t)
      /\ Still(t) => Still(t)'
      /\ Spent(t) => Spent(t)'
  BY <1>1, OneCallback DEF Resting
<1>3. CASE unit' = unit
  <2>1. (Noted(t)' <=> Noted(t)) /\ (Stale(t)' <=> Stale(t))
    BY <1>1, <1>3 DEF Noted, Stale
  <2>2. Paced(t)'
    BY <1>1, <1>2, <1>3, <2>1 DEF Paced
  <2> QED
    BY <1>1, <1>3, <2>2, OtherKeeps, RelatedPlain
<1>4. CASE unit' # unit
  <2>1. PICK u \in Movers(t, p) :
           \E x \in Outcomes(t, u, SnapX(p[1], Cardinality(selected[t]) = 8), unit[t][u].x),
              y \in Outcomes(t, u, SnapY(p[2], Cardinality(selected[t]) = 8), unit[t][u].y) :
                 unit' = [unit EXCEPT ![t][u] = Moved(@, x, y)]
    BY <1>4 DEF PlaceUnitAtClick
  <2>2. PICK x, y : unit' = [unit EXCEPT ![t][u] = Moved(@, x, y)]
    BY <2>1
  <2>3. u \in selected[t] /\ u \in Army(t) /\ u \in Units /\ Team[u] = t
    BY DEF Movers, Paced, Army
  <2>4. /\ unit'[t][u] = Moved(unit[t][u], x, y) /\ unit'[t][u] \in UnitRecord
        /\ unit[t][u] \in UnitRecord
        /\ \A s \in Teams : s # t => unit'[s] = unit[s]
        /\ \A v \in Units : v # u => unit'[t][v] = unit[t][v]
    BY <1>a, <2>2, <2>3
  <2>5. unit'[t][u].changed /\ unit'[t][u].squad = unit[t][u].squad
        /\ unit'[t][u].dead = unit[t][u].dead
    BY <2>4 DEF Moved, UnitRecord
  <2>6. /\ wire[t] = <<>> /\ wire[o] = <<>> /\ ~Resting(t) /\ ~Noted(o)
        /\ Stale(t) => Polled(t)
        /\ \A v \in Units \ Army(t) : Falling(unit[t][v]) => unit[t][v].changed
    BY <1>1, <2>3, ClickActs
  <2>7. \A v \in Units : Falling(unit'[t][v]) <=> Falling(unit[t][v])
    BY <2>4, <2>5 DEF Falling
  <2>8. Stale(t)' <=> Stale(t)
    BY <1>1, <2>7 DEF Stale, Army
  <2>9. Paced(t)'
    <3>1. \A v \in Units \ Army(t) : unit'[t][v] = unit[t][v]
      BY <2>3, <2>4
    <3> QED
      BY <1>1, <1>2, <2>6, <2>7, <2>8, <3>1 DEF Paced
  <2>10. ASSUME NEW v \in Units PROVE Related(v)'
    <3>1. CASE v = u
      <4>1. Agree(u, unit[t][u], unit[o][u], <<>>, <<>>)
        BY <1>0, <2>3, <2>6, RelatedCases
      <4>2. ~unit[o][u].changed /\ unit[o][u] \in UnitRecord
        BY <1>0, <1>a, <2>3, <2>6 DEF Noted
      <4>3. ~Speaks(<<>>, u) /\ <<>> \in Seq(PacketRecord)
        BY DEF Speaks
      <4>4. Agree(u, unit'[t][u], unit[o][u], <<>>, <<>>)
        BY <2>4, <2>5, <4>1, <4>2, <4>3, AgreeMove
      <4> QED
        BY <1>0, <1>1, <2>3, <2>4, <2>6, <3>1, <4>4, RelatedCases
    <3>2. CASE v # u
      <4>1. unit'[t][v] = unit[t][v] /\ unit'[o][v] = unit[o][v] /\ wire' = wire
        BY <1>0, <1>1, <2>4, <3>2
      <4> QED
        BY <4>1, RelatedCases
    <3> QED
      BY <3>1, <3>2
  <2> QED
    BY <1>1, <2>4, <2>9, <2>10, OtherKeeps
<1> QED
  BY <1>3, <1>4

LEMMA HitShows ==
    ASSUME Base, NEW t \in Teams, NEW a \in Units, NEW v \in Units
    PROVE  /\ Hit(t, a, v) \in UnitRecord /\ Hit(t, a, v).changed = TRUE
           /\ Hit(t, a, v).dead = unit[t][v].dead
<1> DEFINE w == unit[t][v]
           d == Damage(Kind[a], unit[t][a].squad, UnitType[Kind[v]].armour)
           s == w.squad - Quotient(d, w.health)
           h == w.health - Remainder(d, w.health)
<1>1. w \in UnitRecord
  BY BaseParts
<1> HIDE DEF w, d, s, h
<1>2. Hit(t, a, v) = [w EXCEPT !.squad = s, !.health = h, !.changed = TRUE]
  BY DEF Hit, TakeDamage, w, d, s, h
<1>3. Hit(t, a, v).changed = TRUE
  BY <1>1, <1>2 DEF UnitRecord
<1> QED
  BY <1>3, HitFacts

LEMMA SpendShows ==
    ASSUME NEW v \in UnitRecord, NEW n \in Int
    PROVE  Spend(v, n) \in UnitRecord /\ SameLook(v, Spend(v, n))
<1> DEFINE m == v.ap - n
<1>1. m \in Int
  BY DEF UnitRecord
<1> HIDE DEF m
<1>2. Spend(v, n) = [v EXCEPT !.ap = m]
  BY DEF Spend, m
<1>3. /\ Spend(v, n).x = v.x /\ Spend(v, n).y = v.y
      /\ Spend(v, n).squad = v.squad /\ Spend(v, n).health = v.health
      /\ Spend(v, n).dead = v.dead /\ Spend(v, n).changed = v.changed
  BY <1>2 DEF UnitRecord
<1> QED
  BY <1>3, SpendFacts, ShownFacts DEF SameLook

LEMMA BoardAttack ==
    ASSUME OneClickPerPoll, Base, Base', TurnInv, \A s \in Teams : Paced(s), \A u \in Units : Related(u),
           NEW t \in Teams, NEW k \in Callbacks, AttackClickedUnit(t, k)
    PROVE  (\A s \in Teams : Paced(s)') /\ (\A u \in Units : Related(u)')
<1> DEFINE o == Other(t)
           p == click[t][k].at
<1>0. o \in Teams /\ o # t /\ Other(o) = t
  BY TeamFacts
<1>a. unit \in [Teams -> [Units -> UnitRecord]] /\ unit' \in [Teams -> [Units -> UnitRecord]]
  BY BaseParts DEF Base, TypeOK
<1>b. p \in Nat \X Nat
  <2>1. click[t][k] \in [pc : PCs, at : Nat \X Nat]
    BY BaseParts
  <2> QED
    BY <2>1
<1>1. /\ click[t][k].pc = "attack" /\ click'[t][k].pc = "select"
      /\ \A s \in Teams : s # t => click'[s] = click[s]
      /\ UNCHANGED <<selected, turn, inFrame, polled, wire>>
  BY StepPc DEF AttackClickedUnit
<1>2. /\ Resting(t)' <=> Resting(t)
      /\ Polled(t)' <=> Polled(t)
      /\ Still(t) => Still(t)'
      /\ Spent(t) => Spent(t)'
  BY <1>1, OneCallback DEF Resting
<1>3. CASE unit' = unit
  <2>1. (Noted(t)' <=> Noted(t)) /\ (Stale(t)' <=> Stale(t))
    BY <1>1, <1>3 DEF Noted, Stale
  <2>2. Paced(t)'
    BY <1>1, <1>2, <1>3, <2>1 DEF Paced
  <2> QED
    BY <1>1, <1>3, <2>2, OtherKeeps, RelatedPlain
<1>4. CASE unit' # unit
  <2>1. PICK a \in Attackers(t, p) : unit' = [unit EXCEPT ![t] = AfterAttack(t, p, a)]
    BY <1>4 DEF AttackClickedUnit
  <2>2. a \in selected[t] /\ a \in Army(t) /\ a \in Units /\ Team[a] = t
    BY DEF Attackers, Paced, Army
  <2>3. \A v \in Targets(t, p, a) : v \in Units /\ Team[v] # t /\ unit[t][v].x # -200
    <3> TAKE v \in Targets(t, p, a)
    <3>1. v \in Units /\ Team[v] # t /\ OnObjectSprite(p[1], p[2], unit[t][v])
      BY <2>2 DEF Targets, UnitsAt
    <3>2. unit[t][v].x \in Int /\ p[1] \in Nat
      BY <1>a, <1>b, <3>1 DEF UnitRecord
    <3>3. p[1] \in unit[t][v].x .. unit[t][v].x + 117
      BY <3>1 DEF OnObjectSprite, MouseOnSprite
    <3> QED
      BY <3>1, <3>2, <3>3
  <2>4. 2 * Cardinality(Targets(t, p, a)) \in Int
    <3>1. IsFiniteSet(Targets(t, p, a))
      BY UnitAssumption, FS_Subset DEF Targets, UnitsAt
    <3> QED
      BY <3>1, FS_CardinalityType
  <2>5. /\ \A s \in Teams : s # t => unit'[s] = unit[s]
        /\ \A v \in Units : unit'[t][v] =
              IF v \in Targets(t, p, a) THEN Hit(t, a, v)
              ELSE IF v = a THEN Spend(unit[t][v], 2 * Cardinality(Targets(t, p, a)))
              ELSE unit[t][v]
    BY <1>a, <2>1 DEF AfterAttack
  <2>6. \A v \in Units : unit[t][v] \in UnitRecord /\ unit'[t][v] \in UnitRecord
                         /\ unit[o][v] \in UnitRecord
    BY <1>0, <1>a
  <2>7. \A v \in Targets(t, p, a) : /\ unit'[t][v].changed = TRUE
                                    /\ unit'[t][v].dead = unit[t][v].dead
    <3> TAKE v \in Targets(t, p, a)
    <3> DEFINE w == Hit(t, a, v)
    <3>1. v \in Units /\ unit'[t][v] = w
      BY <2>3, <2>5
    <3>2. w.changed = TRUE /\ w.dead = unit[t][v].dead
      BY <2>2, <3>1, HitShows
    <3> HIDE DEF w
    <3> QED
      BY <3>1, <3>2
  <2>8. \A v \in Units : v \notin Targets(t, p, a) => SameLook(unit[t][v], unit'[t][v])
    <3> SUFFICES ASSUME NEW v \in Units, v \notin Targets(t, p, a)
                 PROVE  SameLook(unit[t][v], unit'[t][v])
      OBVIOUS
    <3>1. CASE v = a
      <4>1. unit'[t][v] = Spend(unit[t][v], 2 * Cardinality(Targets(t, p, a)))
        BY <2>5, <3>1
      <4> QED
        BY <2>4, <2>6, <4>1, SpendShows
    <3>2. CASE v # a
      BY <2>5, <3>2 DEF SameLook
    <3> QED
      BY <3>1, <3>2
  <2>9. /\ wire[t] = <<>> /\ wire[o] = <<>> /\ ~Resting(t) /\ ~Noted(o)
        /\ Stale(t) => Polled(t)
        /\ \A v \in Units \ Army(t) : Falling(unit[t][v]) => unit[t][v].changed
    BY <1>1, <2>2, ClickActs
  <2>10. \A v \in Army(t) : Falling(unit'[t][v]) <=> Falling(unit[t][v])
    <3> TAKE v \in Army(t)
    <3>1. v \in Units /\ v \notin Targets(t, p, a)
      BY <2>3 DEF Army
    <3> QED
      BY <2>6, <2>8, <3>1, LookFacts
  <2>11. Stale(t)' <=> Stale(t)
    BY <1>1, <2>10 DEF Stale, Army
  <2>12. \A v \in Units \ Army(t) : Falling(unit'[t][v]) => unit'[t][v].changed
    <3> SUFFICES ASSUME NEW v \in Units \ Army(t), Falling(unit'[t][v])
                 PROVE  unit'[t][v].changed
      OBVIOUS
    <3>1. CASE v \in Targets(t, p, a)
      BY <2>7, <3>1
    <3>2. CASE v \notin Targets(t, p, a)
      BY <2>6, <2>8, <2>9, <3>2, LookFacts
    <3> QED
      BY <3>1, <3>2
  <2>13. Paced(t)'
    BY <1>1, <1>2, <2>9, <2>11, <2>12 DEF Paced
  <2>14. ASSUME NEW v \in Units PROVE Related(v)'
    <3>0. /\ ~unit[o][v].changed /\ unit'[o][v] = unit[o][v] /\ wire' = wire
          /\ ~Speaks(<<>>, v) /\ <<>> \in Seq(PacketRecord)
          /\ SameLook(unit[o][v], unit[o][v])
      BY <1>0, <1>1, <2>5, <2>9 DEF Noted, Speaks, SameLook
    <3>1. CASE v \in Targets(t, p, a)
      <4>0. Team[v] # t /\ unit[t][v].x # -200
        BY <2>3, <3>1
      <4>1. Agree(v, unit[o][v], unit[t][v], <<>>, <<>>)
        BY <1>0, <2>9, <4>0, RelatedCases
      <4>2. unit[t][v].changed \/ ~Falling(unit[t][v])
        BY <2>9, <4>0 DEF Army
      <4>3. Agree(v, unit[o][v], unit'[t][v], <<>>, <<>>)
        BY <2>6, <2>7, <3>0, <3>1, <4>0, <4>1, <4>2, AgreeHit
      <4> QED
        BY <1>0, <2>9, <3>0, <4>0, <4>3, RelatedCases
    <3>2. CASE v \notin Targets(t, p, a)
      <4>1. SameLook(unit[t][v], unit'[t][v])
        BY <2>8, <3>2
      <4>2. CASE Team[v] = t
        <5>1. Agree(v, unit[t][v], unit[o][v], <<>>, <<>>)
          BY <1>0, <2>9, <4>2, RelatedCases
        <5>2. Agree(v, unit'[t][v], unit[o][v], <<>>, <<>>)
          BY <2>6, <3>0, <4>1, <5>1, AgreeLook
        <5> QED
          BY <1>0, <2>9, <3>0, <4>2, <5>2, RelatedCases
      <4>3. CASE Team[v] # t
        <5>1. Agree(v, unit[o][v], unit[t][v], <<>>, <<>>)
          BY <1>0, <2>9, <4>3, RelatedCases
        <5>2. Agree(v, unit[o][v], unit'[t][v], <<>>, <<>>)
          BY <2>6, <3>0, <4>1, <5>1, AgreeLook
        <5> QED
          BY <1>0, <2>9, <3>0, <4>3, <5>2, RelatedCases
      <4> QED
        BY <4>2, <4>3
    <3> QED
      BY <3>1, <3>2
  <2> QED
    BY <1>1, <2>5, <2>13, <2>14, OtherKeeps
<1> QED
  BY <1>3, <1>4

LEMMA BoardFrame ==
    ASSUME Base, Base', TurnInv, \A s \in Teams : Paced(s), \A u \in Units : Related(u),
           NEW t \in Teams, winner[t] = 0, Frame(t)
    PROVE  (\A s \in Teams : Paced(s)') /\ (\A u \in Units : Related(u)')
<1> DEFINE o == Other(t)
<1>0. o \in Teams /\ o # t /\ Other(o) = t
  BY TeamFacts
<1>a. unit \in [Teams -> [Units -> UnitRecord]] /\ unit' \in [Teams -> [Units -> UnitRecord]]
  BY BaseParts DEF Base, TypeOK
<1>b. wire \in [Teams -> Seq(PacketRecord)] /\ inFrame \in [Teams -> BOOLEAN]
      /\ polled \in [Teams -> SUBSET Callbacks]
  BY BaseParts
<1>1. /\ UNCHANGED <<selected, turn, click, wire>>
      /\ inFrame'[t] = (turn[t] # t)
      /\ \A s \in Teams : s # t =>
            inFrame'[s] = inFrame[s] /\ polled'[s] = polled[s] /\ unit'[s] = unit[s]
      /\ \A u \in Units : unit'[t][u] = Update(unit[t][u])
  BY <1>a, <1>b DEF Frame
<1>2. \A u \in Units :
         /\ unit[t][u] \in UnitRecord /\ unit'[t][u] \in UnitRecord /\ unit[o][u] \in UnitRecord
         /\ ~Falling(unit'[t][u])
         /\ unit'[t][u].changed = unit[t][u].changed
  <2> TAKE u \in Units
  <2> DEFINE w == Update(unit[t][u])
  <2>1. unit[t][u] \in UnitRecord /\ unit[o][u] \in UnitRecord
    BY <1>0, <1>a
  <2>2. w \in UnitRecord /\ ~Falling(w) /\ w.changed = unit[t][u].changed
    BY <2>1, UpdateShows
  <2>3. unit'[t][u] = w
    BY <1>1
  <2> HIDE DEF w
  <2> QED
    BY <2>1, <2>2, <2>3
<1>3. Resting(t)' <=> Resting(t)
  BY <1>1 DEF Resting, Flipping
<1>4. Noted(t)' <=> Noted(t)
  BY <1>2 DEF Noted
<1>5. Stale(t)' => selected'[t] = {} /\ ~Noted(t)'
  <2>1. Stale(t)' => turn[t] # t
    BY <1>1, <1>2 DEF Stale, Army
  <2>2. turn[t] # t => Resting(t)
    BY DEF Resting
  <2> QED
    BY <1>1, <1>4, <2>1, <2>2 DEF TurnInv, Paced
<1>6. Paced(t)'
  BY <1>1, <1>2, <1>3, <1>4, <1>5 DEF Paced, Still
<1>7. ASSUME NEW u \in Units PROVE Related(u)'
  <2>1. /\ unit'[t][u] = Update(unit[t][u]) /\ unit'[o][u] = unit[o][u] /\ wire' = wire
        /\ wire[t] \in Seq(PacketRecord) /\ wire[o] \in Seq(PacketRecord)
    BY <1>0, <1>1, <1>b
  <2>2. CASE Team[u] = t
    <3>1. Agree(u, unit[t][u], unit[o][u], wire[t], wire[o])
      BY <2>2, RelatedCases
    <3>2. Agree(u, Update(unit[t][u]), unit[o][u], wire[t], wire[o])
      BY <1>2, <2>1, <3>1, AgreeUpdateOwn
    <3> QED
      BY <2>1, <2>2, <3>2, RelatedCases
  <2>3. CASE Team[u] # t
    <3>1. Agree(u, unit[o][u], unit[t][u], wire[o], wire[t])
      BY <2>3, RelatedCases
    <3>2. Agree(u, unit[o][u], Update(unit[t][u]), wire[o], wire[t])
      BY <1>2, <2>1, <3>1, AgreeUpdateFoe
    <3> QED
      BY <2>1, <2>3, <3>2, RelatedCases
  <2> QED
    BY <2>2, <2>3
<1> QED
  BY <1>1, <1>6, <1>7, OtherKeeps

LEMMA BoardApply ==
    ASSUME Base, Base', TurnInv, \A s \in Teams : Paced(s), \A u \in Units : Related(u),
           NEW t \in Teams, ApplyPacket(t)
    PROVE  (\A s \in Teams : Paced(s)') /\ (\A u \in Units : Related(u)')
<1> DEFINE o == Other(t)
           q == wire[t]
           m == Head(q)
<1>0. o \in Teams /\ o # t /\ Other(o) = t
  BY TeamFacts
<1>a. unit \in [Teams -> [Units -> UnitRecord]] /\ unit' \in [Teams -> [Units -> UnitRecord]]
  BY BaseParts DEF Base, TypeOK
<1>b. wire \in [Teams -> Seq(PacketRecord)] /\ turn \in [Teams -> Teams]
  BY BaseParts
<1>1. /\ inFrame[t] /\ q # <<>> /\ q \in Seq(PacketRecord)
      /\ UNCHANGED <<selected, inFrame, polled, click>>
      /\ wire'[t] = Tail(q) /\ \A s \in Teams : s # t => wire'[s] = wire[s]
      /\ \A s \in Teams : s # t => unit'[s] = unit[s] /\ turn'[s] = turn[s]
      /\ \A u \in Units : unit'[t][u] = IF m.name = u THEN Told(unit[t][u], m) ELSE unit[t][u]
  BY <1>a, <1>b DEF ApplyPacket
<1>2. wire[o] = <<>> /\ Resting(t) /\ Resting(o)
  BY <1>1, HearsAlone
<1>3. ~Noted(t) /\ ~Noted(o) /\ selected[t] = {} /\ Once(q)
  BY <1>0, <1>2 DEF Paced, TurnInv
<1>4. m \in PacketRecord /\ Once(Tail(q)) /\ Tail(q) \in Seq(PacketRecord)
  BY <1>1, <1>3, OnceTail
<1>5. \A u \in Units : /\ unit[t][u] \in UnitRecord /\ unit'[t][u] \in UnitRecord
                       /\ unit[o][u] \in UnitRecord
                       /\ ~unit[t][u].changed /\ ~unit[o][u].changed
  BY <1>0, <1>3, <1>a DEF Noted
<1>6. ~Noted(t)'
  <2> SUFFICES ASSUME NEW u \in Units PROVE ~unit'[t][u].changed
    BY DEF Noted
  <2>1. Told(unit[t][u], m).changed = unit[t][u].changed
    BY <1>4, <1>5, ToldShows
  <2> QED
    BY <1>1, <1>5, <2>1
<1>7. \A u \in Units \ Army(t) : ~Falling(unit[t][u])
  BY <1>1, <1>5 DEF Paced
<1>8. ASSUME NEW u \in Units
      PROVE  Related(u)' /\ (Team[u] # t => ~Falling(unit'[t][u]))
  <2>1. /\ unit'[t][u] = (IF Head(q).name = u THEN Told(unit[t][u], Head(q)) ELSE unit[t][u])
        /\ unit'[o][u] = unit[o][u] /\ wire'[o] = <<>>
    BY <1>0, <1>1, <1>2
  <2>2. CASE Team[u] = t
    <3>1. Agree(u, unit[t][u], unit[o][u], q, <<>>)
      BY <1>2, <2>2, RelatedCases
    <3>2. Agree(u, unit'[t][u], unit[o][u], Tail(q), <<>>)
      BY <1>1, <1>3, <1>5, <2>1, <3>1, AgreeHearHit
    <3> QED
      BY <1>1, <2>1, <2>2, <3>2, RelatedCases
  <2>3. CASE Team[u] # t
    <3>1. Agree(u, unit[o][u], unit[t][u], <<>>, q)
      BY <1>2, <2>3, RelatedCases
    <3>2. ~Falling(unit[t][u])
      BY <1>7, <2>3 DEF Army
    <3>3. Agree(u, unit[o][u], unit'[t][u], <<>>, Tail(q)) /\ ~Falling(unit'[t][u])
      BY <1>1, <1>3, <1>5, <2>1, <3>1, <3>2, AgreeHearMove
    <3> QED
      BY <1>1, <2>1, <2>3, <3>3, RelatedCases
  <2> QED
    BY <2>2, <2>3
<1>9. Paced(t)'
  <2>1. selected'[t] = {} /\ Still(t)' /\ Once(wire'[t])
    BY <1>1, <1>3, <1>4 DEF Still
  <2>2. \A u \in Units \ Army(t) : ~Falling(unit'[t][u])
    BY <1>8 DEF Army
  <2> QED
    BY <1>6, <2>1, <2>2 DEF Paced
<1> QED
  BY <1>1, <1>8, <1>9, OtherKeeps

LEMMA BoardFrameEnd ==
    ASSUME Base, \A s \in Teams : Paced(s), \A u \in Units : Related(u),
           NEW t \in Teams, FrameEnd(t)
    PROVE  (\A s \in Teams : Paced(s)') /\ (\A u \in Units : Related(u)')
<1>1. /\ inFrame'[t] = FALSE /\ \A s \in Teams : s # t => inFrame'[s] = inFrame[s]
      /\ UNCHANGED <<unit, selected, turn, polled, click, wire>>
  BY BaseParts DEF FrameEnd
<1>2. /\ Resting(t)' <=> Resting(t)
      /\ Polled(t)' <=> Polled(t)
      /\ Still(t)' <=> Still(t)
      /\ Spent(t)' <=> Spent(t)
      /\ Noted(t)' <=> Noted(t)
      /\ Stale(t)' => Stale(t)
  BY <1>1 DEF Resting, Flipping, Polled, Still, Spent, Noted, Stale
<1>3. Paced(t)'
  BY <1>1, <1>2 DEF Paced
<1> QED
  BY <1>1, <1>3, OtherKeeps, RelatedPlain

LEMMA BoardSteps ==
    ASSUME OneClickPerPoll
    PROVE  Base /\ Base' /\ TurnInv /\ BoardInv /\ [Next]_vars => BoardInv'
<1> SUFFICES ASSUME Base, Base', TurnInv, BoardInv, [Next]_vars, Unfinished'
             PROVE  (\A s \in Teams : Paced(s)') /\ (\A u \in Units : Related(u)')
  BY DEF BoardInv
<1>0. winner \in [Teams -> {0} \cup Teams] /\ 0 \notin Teams
  BY BaseParts, TeamFacts
<1>1. CASE UNCHANGED vars
  <2>1. UNCHANGED <<unit, selected, turn, winner, inFrame, polled, click, wire>>
    BY <1>1 DEF vars
  <2>2. Unfinished
    BY <2>1 DEF Unfinished
  <2>3. \A s \in Teams : Paced(s)'
    BY <2>1, <2>2, PacedOther DEF BoardInv, Paced
  <2> QED
    BY <2>1, <2>2, <2>3, RelatedPlain DEF BoardInv
<1>2. ASSUME NEW t \in Teams, MainThread(t)
      PROVE  (\A s \in Teams : Paced(s)') /\ (\A u \in Units : Related(u)')
  <2>1. Unfinished
    <3>1. ApplyPacket(t) /\ Head(wire[t]).name = "endgame" => Head(wire[t]).x \in Teams
      BY BaseParts DEF WireOK, ApplyPacket
    <3>2. \A s \in Teams : winner'[s] = 0 => winner[s] = 0
      BY <1>0, <1>2, <3>1 DEF MainThread, Frame, ApplyPacket, FrameEnd
    <3>3. \A s \in Teams : winner'[s] = 0
      BY DEF Unfinished
    <3> QED
      BY <1>0, <3>2, <3>3 DEF Unfinished
  <2>2. winner[t] = 0 /\ (\A s \in Teams : Paced(s)) /\ (\A u \in Units : Related(u))
    BY <2>1 DEF BoardInv, Unfinished
  <2> QED
    BY <1>2, <2>2, BoardFrame, BoardApply, BoardFrameEnd DEF MainThread
<1>3. ASSUME NEW t \in Teams, NEW k \in Callbacks, Callback(t, k)
      PROVE  (\A s \in Teams : Paced(s)') /\ (\A u \in Units : Related(u)')
  <2>1. Unfinished
    <3>1. Victor(t) = winner[t] \/ Victor(t) = t
      BY DEF Victor
    <3>2. \A s \in Teams : winner'[s] = 0 => winner[s] = 0
      BY <1>0, <1>3, <3>1
      DEF Callback, ClickHandler, NextTurnPressed, FlipTurn, PlaceUnitAtClick, AttackClickedUnit,
          SetSelected
    <3>3. \A s \in Teams : winner'[s] = 0
      BY DEF Unfinished
    <3> QED
      BY <1>0, <3>2, <3>3 DEF Unfinished
  <2>2. (\A s \in Teams : Paced(s)) /\ (\A u \in Units : Related(u))
    BY <2>1 DEF BoardInv
  <2> QED
    BY <1>3, <2>2, BoardClickHandler, BoardNextTurn, BoardFlipTurn, BoardPlace, BoardAttack,
       BoardSetSelected
    DEF Callback
<1> QED
  BY <1>1, <1>2, <1>3 DEF Next

LEMMA BoardGives == Base /\ BoardInv /\ Unfinished => SettledBoardsAgree
<1> SUFFICES ASSUME Base, BoardInv, Unfinished, Settled, NEW u \in Units
             PROVE  Shown(unit[1][u]) = Shown(unit[2][u])
  BY DEF SettledBoardsAgree
<1> DEFINE w == Team[u]
           o == Other(w)
<1>1. w \in Teams /\ o \in Teams
  BY UnitAssumption, TeamFacts
<1>2. /\ \A t \in Teams : unit[t][u] \in UnitRecord
      /\ \A t \in Teams : ~unit[t][u].changed /\ ~Falling(unit[t][u])
      /\ \A t \in Teams : wire[t] = <<>>
  BY BaseParts DEF Settled, Falling
<1>3. Eventual(unit[o][u]) = Eventual(unit[w][u])
  BY <1>1, <1>2 DEF BoardInv, Related, Agree, Speaks
<1>4. \A t \in Teams : Eventual(unit[t][u]) = Shown(unit[t][u])
  BY <1>2, EventualFacts
<1>5. Shown(unit[o][u]) = Shown(unit[w][u])
  BY <1>1, <1>3, <1>4
<1> QED
  BY <1>1, <1>5 DEF Teams, Other

(* With one click per poll of the input, two boards on which everything has  *)
(* been sent and applied are the same, whatever has been moved, hit or killed *)
(* before, as long as no client shows a winner: frames stop when one does.   *)
THEOREM BoardsSettle ==
    ASSUME OneClickPerPoll
    PROVE  Spec => [](Unfinished => SettledBoardsAgree)
<1>1. Base /\ BoardInv => (Unfinished => SettledBoardsAgree)
  BY BoardGives
<1>2. Base /\ TurnInv /\ [Next]_vars => TurnInv'
  BY TurnStep
<1>3. Base /\ Base' /\ TurnInv /\ BoardInv /\ [Next]_vars => BoardInv'
  BY BoardSteps
<1> QED
  BY <1>1, <1>2, <1>3, TurnInit, BoardInit, BaseHolds, PTL DEF Spec
================================================================================
