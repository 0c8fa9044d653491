------------------------------ MODULE MCMatcher ------------------------------
(***************************************************************************)
(* Matcher with few users.  Model values for the users; no symmetry, which *)
(* would not be sound for the liveness property.                           *)
(***************************************************************************)
EXTENDS Matcher
=============================================================================
