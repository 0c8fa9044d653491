---------------------------- MODULE MCUserCache ----------------------------
(***************************************************************************)
(* UserCache with the io thread and two threads of the matcher.  A score   *)
(* of 40 pays for one loss and not for two.                                *)
(***************************************************************************)
EXTENDS UserCache
=============================================================================
