------------------------------- MODULE MCLobby -------------------------------
(***************************************************************************)
(* Lobby with few users.  Users are interchangeable and so are the matcher *)
(* threads, so both are model values and permuted.                         *)
(***************************************************************************)
EXTENDS Lobby, TLC

Symmetry == Permutations(Users) \cup Permutations(Threads)
=============================================================================
