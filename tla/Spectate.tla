------------------------------ MODULE Spectate ------------------------------
(***************************************************************************)
(* A room and the pages on which one other user watches it (/spectate):    *)
(* _spectator_conns of the room, add_spectator and remove_spectator, and   *)
(* the handlers of server.hpp around them.  The room keeps one connection  *)
(* of a user; a user may have several tabs.  The room and its players are  *)
(* module Room, each step with its broadcast as in module View.            *)
(*                                                                         *)
(* A tab asks for the room when its connection opens and sends nothing     *)
(* after, so it makes no difference when a message reaches it, or how long *)
(* an alert holds it up: here it is shown at once.  Its clock only         *)
(* displays, and stands still here.                                        *)
(***************************************************************************)
EXTENDS View

CONSTANT Tabs           \* tabs in which the user opens this room, over time

ASSUME SpectateAssumption == Tabs \cap Players = {}

VARIABLES
    tab,            \* closed, asking (spectate_join is on the way), asked, or closing
    watching,       \* the tab whose open connection _spectator_conns holds, {} for none
    view            \* what the tab watching shows; no claim is made of another

watchers == <<tab, watching>>
allvars == <<vars, watchers, view>>

SpectateInit ==
    /\ Init
    /\ tab = [t \in Tabs |-> "closed"]
    /\ watching = {}
    /\ view = NewPage(FALSE)

-----------------------------------------------------------------------------
broadcast(m) ==
    \/ watching = {} /\ UNCHANGED view
    \/ \E t \in watching : view' = Shown(t, view, m)

PlayersStep ==
    /\ \/ Tick /\ UNCHANGED view
       \/ \E uid \in Players :
            \/ /\ conns[uid] > 0
               /\ \/ \E cell \in Cells :
                       put_chess(uid, cell) /\ broadcast(put_chess_resp(uid, cell))
                  \/ timeout(uid) /\ broadcast(timeout_resp)
                  \/ RematchInvite(uid) /\ broadcast(rematch_invite_resp(uid))
                  \/ rematch_accept(uid) /\ broadcast(rematch_accept_resp)
            \/ wsopen_game_room(uid) /\ UNCHANGED view
            \/ Drop(uid) /\ UNCHANGED view
            \/ wsclose_game_room(uid) /\ broadcast(exit_resp(uid))
    /\ UNCHANGED watchers

-----------------------------------------------------------------------------
(* A tab that is no longer watching keeps its picture, which nothing below *)
(* speaks of.                                                              *)
Stops(rest) ==
    /\ watching' = rest
    /\ view' = IF rest = {} THEN NewPage(FALSE) ELSE view

(* The connection enters no room before spectate_join comes. *)
wsopen_spectate(t) ==
    /\ tab[t] = "closed"
    /\ tab' = [tab EXCEPT ![t] = "asking"]
    /\ UNCHANGED <<vars, watching, view>>

(* A slip in the code: a new spectator is sent no stones. *)
board_snapshot_empty == EmptyBoard
board_snapshot == board

(* A slip in the code: the entry of another tab is added to, not replaced. *)
add_spectator_too(t) == watching \cup {t}
add_spectator(t) == {t}

(* wsmsg_spectate.  A round must be going on; a refusal changes nothing,   *)
(* and the page does not ask again.                                        *)
spectate_join(t) ==
    /\ tab[t] = "asking"
    /\ tab' = [tab EXCEPT ![t] = "asked"]
    /\ UNCHANGED vars
    /\ \/ /\ statu = GAME_START
          /\ watching' = add_spectator(t)
          /\ view' = Shown(t, NewPage(FALSE), SpectateReady(white_id, board_snapshot))
       \/ /\ statu # GAME_START
          /\ UNCHANGED <<watching, view>>

(* Another tab of the user joins another room, or watched one and closes:  *)
(* remove_spectator_user takes the user out of every room.                 *)
remove_spectator_user ==
    /\ watching # {}
    /\ Stops({})
    /\ UNCHANGED <<vars, tab>>

(* A connection leaves the open state: nothing is sent to it any more,     *)
(* whether or not the room still holds it.                                 *)
DropsTab(t) ==
    /\ tab[t] \in {"asking", "asked"}
    /\ tab' = [tab EXCEPT ![t] = "closing"]
    /\ Stops(watching \ {t})
    /\ UNCHANGED vars

(* The close handler knows the user and not the tab.  Without a session it *)
(* returns before it removes anybody.                                      *)
wsclose_spectate(t) ==
    /\ tab[t] = "closing"
    /\ tab' = [tab EXCEPT ![t] = "closed"]
    /\ \/ Stops({})
       \/ SessionCanExpire /\ Stops(watching)
    /\ UNCHANGED vars

SpectateNext ==
    /\ Registered
    /\ \/ PlayersStep
       \/ remove_spectator_user
       \/ \E t \in Tabs :
            \/ wsopen_spectate(t)
            \/ spectate_join(t)
            \/ DropsTab(t)
            \/ wsclose_spectate(t)

SpectateSpec == SpectateInit /\ [][SpectateNext]_allvars

-----------------------------------------------------------------------------
SpectateTypeOK ==
    /\ TypeOK
    /\ tab \in [Tabs -> {"closed", "asking", "asked", "closing"}]
    /\ watching \in {{}} \cup {{t} : t \in Tabs}
    /\ view \in Pages

(* The tab that is watching shows the round that is played, stone for      *)
(* stone and through rematches, and once it is over that it is: whenever   *)
(* it joined, and whichever way the round ended.                           *)
SpectatorFollows ==
    \A t \in watching :
        IF statu = GAME_START THEN Agrees(view) ELSE view.status = "over"

(* The clock a spectator sees running is the one the room charges, from    *)
(* the rest the room holds.                                                *)
ClockOfMover ==
    \A t \in watching :
        statu = GAME_START /\ view.thinking # 0 =>
            /\ timing_started
            /\ view.thinking = turn_uid
            /\ view.left = total_left
=============================================================================
