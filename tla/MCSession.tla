------------------------------ MODULE MCSession ------------------------------
(***************************************************************************)
(* Session with two browsers and two ids, so that an id can be handed out  *)
(* again after a restart while the first browser still holds it.           *)
(***************************************************************************)
EXTENDS Session
=============================================================================
