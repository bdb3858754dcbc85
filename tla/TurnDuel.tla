-------------------------------- MODULE TurnDuel --------------------------------
(***************************************************************************)
(* The game as its two players see it: one board, one turn, and a winner   *)
(* once an army is depleted and the turn in which it happened is over.     *)
(* GameSessionDuel shows that two connected clients implement it as long   *)
(* as neither leaves.                                                      *)
(***************************************************************************)
EXTENDS Integers

CONSTANT Army

VARIABLES turn, board, winner

duelVars == <<turn, board, winner>>

Teams == {1, 2}
Other(t) == 3 - t

DuelInit ==
    /\ turn = 1
    /\ board = [t \in Teams |-> Army]
    /\ winner = 0

(* The player whose turn it is hits the army of the opponent. *)
Hit ==
    /\ board[turn] > 0
    /\ \E left \in 0 .. board[Other(turn)] - 1 :
          board' = [board EXCEPT ![Other(turn)] = left]
    /\ UNCHANGED <<turn, winner>>

(* The turn passes to the opponent; the player may have won by then. *)
EndTurn ==
    /\ turn' = Other(turn)
    /\ \/ UNCHANGED winner
       \/ board[Other(turn)] = 0 /\ winner' = turn
    /\ UNCHANGED board

DuelNext == Hit \/ EndTurn

DuelSpec == DuelInit /\ [][DuelNext]_duelVars
================================================================================
