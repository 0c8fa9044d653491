----------------------------- MODULE MCSpectate -----------------------------
(***************************************************************************)
(* Spectate with two tabs of one user, on a board of 3 cells with 2 in a   *)
(* row to win.  The two rounds let a tab watch through a rematch and join  *)
(* in the middle of either.                                                *)
(***************************************************************************)
EXTENDS Spectate

=============================================================================
