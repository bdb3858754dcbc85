--------------------------------- MODULE Combat ---------------------------------
(***************************************************************************)
(* What a unit can do and suffer (Source/Client/Unit.cpp with the          *)
(* statistics of Resources/Data/Units.json), and the geometry of the board *)
(* it stands on (Collision.cpp, gridSnapping): the operators of Skirmish.  *)
(* All numbers are pixels or points of int; the floats of the source hold  *)
(* whole numbers.                                                          *)
(***************************************************************************)
EXTENDS Integers

Kinds == {"Infantry", "Sniper", "Artillery", "Tank"}

(* The members that Unit::Unit copies from the UnitType of its kind. *)
UnitType ==
    [Infantry  |-> [squad |-> 10, health |-> 20,  attack |-> 5,  armour |-> 50, ap |-> 3],
     Sniper    |-> [squad |-> 5,  health |-> 10,  attack |-> 15, armour |-> 30, ap |-> 2],
     Artillery |-> [squad |-> 2,  health |-> 5,   attack |-> 20, armour |-> 0,  ap |-> 2],
     Tank      |-> [squad |-> 1,  health |-> 100, attack |-> 15, armour |-> 75, ap |-> 3]]

(* A unit at (x, y); (atX, atY) is where its move and attack sprites were   *)
(* last aligned to.                                                        *)
NewUnit(kind, pos) ==
    [x |-> pos[1], y |-> pos[2], atX |-> pos[1], atY |-> pos[2],
     squad |-> UnitType[kind].squad, health |-> UnitType[kind].health,
     ap |-> UnitType[kind].ap, changed |-> FALSE, dead |-> FALSE]

--------------------------------------------------------------------------------
(* takeDamage.                                                             *)

(* Division and remainder of C++ round towards zero. *)
Quotient(a, b) == IF a >= 0 THEN a \div b ELSE -((-a) \div b)
Remainder(a, b) == a - b * Quotient(a, b)

(* Mutant: the mitigated part is what the unit takes. *)
DamageOfMitigated(kind, squad, armour) ==
    UnitType[kind].attack * squad * Quotient(armour, 100)

(* armour / 100 is a division of ints. *)
Damage(kind, squad, armour) ==
    LET raw == UnitType[kind].attack * squad
    IN  raw - raw * Quotient(armour, 100)

(* Mutants: the remainder becomes the health; the change is not noted, so    *)
(* that it is never sent.                                                  *)
TakeDamageSetsHealth(u, damage) ==
    [u EXCEPT !.squad = @ - Quotient(damage, u.health),
              !.health = Remainder(damage, u.health),
              !.changed = TRUE]

TakeDamageUnsent(u, damage) ==
    [u EXCEPT !.squad = @ - Quotient(damage, u.health),
              !.health = @ - Remainder(damage, u.health)]

TakeDamage(u, damage) ==
    [u EXCEPT !.squad = @ - Quotient(damage, u.health),
              !.health = @ - Remainder(damage, u.health),
              !.changed = TRUE]

(* reduceActionPoints, movingUnit, resetActionPoints and setHasChanged, and   *)
(* what unitNetworkUpdate does with a packet about the unit.                 *)
Spend(u, points) == [u EXCEPT !.ap = @ - points]

Moved(u, x, y) == [u EXCEPT !.x = x, !.y = y, !.ap = @ - 1, !.changed = TRUE]

(* Mutant: the action points are not reset. *)
RestedTired(kind, u) == [u EXCEPT !.changed = FALSE]

Rested(kind, u) == [u EXCEPT !.ap = UnitType[kind].ap, !.changed = FALSE]

Told(u, m) == [u EXCEPT !.x = m.x, !.y = m.y, !.squad = m.squad, !.health = m.health]

(* Unit::update: a unit without squads leaves the board; the sprites of the *)
(* others follow the unit.                                                 *)
Update(u) ==
    IF u.squad <= 0 /\ ~u.dead THEN [u EXCEPT !.x = -200, !.y = -200, !.dead = TRUE]
    ELSE IF u.dead THEN u
    ELSE [u EXCEPT !.atX = u.x, !.atY = u.y]

--------------------------------------------------------------------------------
(* The board.                                                              *)

(* The cells of the board: gridSnapping clamps y to the rows from 3 to 483. *)
Columns == {40 + 120 * c : c \in 0 .. 9}
Rows == {3 + 120 * r : r \in 0 .. 4}

(* Collision::mouseOnSprite: both edges belong to the sprite. *)
MouseOnSprite(px, py, x, y, w, h) == px \in x .. x + w /\ py \in y .. y + h

OnObjectSprite(px, py, u) == MouseOnSprite(px, py, u.x, u.y, 117, 117)

(* Offset and size of the move and attack sprites of a kind. *)
OnMoveSprite(px, py, kind, u) ==
    CASE kind = "Infantry"  -> MouseOnSprite(px, py, u.atX - 240, u.atY - 240, 600, 600)
      [] kind = "Sniper"    -> MouseOnSprite(px, py, u.atX - 120, u.atY - 120, 360, 360)
      [] kind = "Artillery" -> MouseOnSprite(px, py, u.atX, u.atY - 120, 120, 360)
      [] kind = "Tank"      -> MouseOnSprite(px, py, u.atX - 240, u.atY - 120, 600, 360)

OnAttackSprite(px, py, kind, left, u) ==
    CASE kind = "Infantry" ->
            MouseOnSprite(px, py, u.atX - 120, u.atY - 120, 360, 360)
      [] kind = "Sniper" ->
            MouseOnSprite(px, py, IF left THEN u.atX ELSE u.atX - 720, u.atY, 720, 120)
      [] kind = "Artillery" ->
            MouseOnSprite(px, py, IF left THEN u.atX + 600 ELSE u.atX - 840, u.atY - 120, 360, 360)
      [] kind = "Tank" ->
            MouseOnSprite(px, py, IF left THEN u.atX ELSE u.atX - 120, u.atY - 120, 240, 360)

(* gridSnapping: allSelected is isAUnitSelected, which asks for all eight.  *)
SnapX(px, allSelected) ==
    LET column == (px - 40) \div 120
    IN  IF column < 0 /\ allSelected THEN 40
        ELSE IF px - 40 > 10 * 120 /\ allSelected THEN 1120
        ELSE column * 120 + 40

(* Mutant: the board begins at the edge of the screen. *)
SnapYNoOffset(py, allSelected) ==
    LET row == (py - 3) \div 120
    IN  IF row < 0 /\ allSelected THEN 3
        ELSE IF py - 3 > 5 * 120 THEN 483
        ELSE row * 120

SnapY(py, allSelected) ==
    LET row == (py - 3) \div 120
    IN  IF row < 0 /\ allSelected THEN 3
        ELSE IF py - 3 > 5 * 120 THEN 483
        ELSE row * 120 + 3
================================================================================
