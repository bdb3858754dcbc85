------------------------------- MODULE SkirmishMC -------------------------------
(***************************************************************************)
(* Three units of which each side can destroy the other: a sniper of       *)
(* player 1 at the left edge of the board, and in its line of fire an      *)
(* infantry and a sniper of player 2, which share a cell because one of    *)
(* them was moved there through the gap of three pixels between the        *)
(* sprites of two cells.                                                   *)
(***************************************************************************)
EXTENDS Skirmish

MCUnits == {"sniper_enemy", "infantry_ally", "sniper_ally"}

MCKind == [sniper_enemy |-> "Sniper", infantry_ally |-> "Infantry",
           sniper_ally |-> "Sniper"]

MCTeam == [sniper_enemy |-> 1, infantry_ally |-> 2, sniper_ally |-> 2]

MCStart == [sniper_enemy |-> <<40, 123>>, infantry_ally |-> <<520, 123>>,
            sniper_ally |-> <<520, 123>>]

(* On the two cells, in the gap beside the second, on the cell below it, on  *)
(* the button that ends the turn, and where gridSnapping lets a unit off the *)
(* board: above the first row, and at y = 603, which the infantry reaches    *)
(* from the cell below.                                                     *)
MCPoints == {<<100, 180>>, <<580, 180>>, <<638, 180>>, <<580, 300>>, <<1200, 650>>,
             <<580, 1>>, <<580, 603>>}
================================================================================
