------------------------------- MODULE MCRoom -------------------------------
(***************************************************************************)
(* Room with 3 in a row to win, on 1 row of 5: black can complete a row    *)
(* with its third stone, white can prevent it, and a full board without a  *)
(* row is reachable as well.  With 3 units for a round, 2 for a stone and  *)
(* a tolerance of 1, a step and a total can each expire first, with the    *)
(* tolerance and without it.  Two rounds let the seats swap once.  A       *)
(* request may name a winner: a player, or the Stranger.                   *)
(***************************************************************************)
EXTENDS Room
=============================================================================
