------------------------------- MODULE MCPage -------------------------------
(***************************************************************************)
(* Page with 2 in a row to win, on a board of 2 cells: black's second      *)
(* stone never comes, so a round ends with white's clock, with black's, or *)
(* because somebody left.  Two rounds let the seats swap while messages of *)
(* the round before are still on the way.  One request on the way from a   *)
(* page is enough for a second click, and its alert: it is made after the  *)
(* room has taken the first and before the page has heard so.              *)
(***************************************************************************)
EXTENDS Page
=============================================================================
