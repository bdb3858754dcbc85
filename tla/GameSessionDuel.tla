---------------------------- MODULE GameSessionDuel ----------------------------
(***************************************************************************)
(* Two clients that stay connected implement TurnDuel: the board that      *)
(* counts is the one of the client that holds the turn, or of the one that *)
(* has just ended it while the packets travel.                             *)
(***************************************************************************)
EXTENDS GameSession

ClientOf(t) == t - 1
Turn == IF turns % 2 = 0 THEN 1 ELSE 2
Actor == IF ClientOf(Turn) \in Holders THEN ClientOf(Turn) ELSE ClientOf(Other(Turn))
Winners == {scene[c].winning_player : c \in Up} \ {0}

Duel == INSTANCE TurnDuel WITH
    turn <- Turn,
    board <- scene[Actor].squads,
    winner <- IF Winners = {} THEN 0 ELSE CHOOSE w \in Winners : TRUE

(* Attacks and ended turns on two machines, with the packets between them,  *)
(* amount to the game the players think they play: only the side whose turn *)
(* it is changes the board, and each turn starts from the board that the    *)
(* last one has left.                                                       *)
ImplementsDuel == Duel!DuelSpec
================================================================================
