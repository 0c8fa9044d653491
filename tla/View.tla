-------------------------------- MODULE View --------------------------------
(***************************************************************************)
(* The script of resources/wwwroot/game_room.html as a function: what a    *)
(* page holds, and what it makes of each message of its room.  The same    *)
(* page serves a player and, with ?spectate=1, a spectator.                *)
(*                                                                         *)
(* An answer with result = false changes nothing the page holds, so it is  *)
(* not among the messages; nor is chat.  But the page opens an alert for   *)
(* it, and until that is dismissed no timer of the page fires and no       *)
(* message is heard: see `alerted' in module Page.                         *)
(***************************************************************************)
EXTENDS Room

OtherOf(uid) == CHOOSE other \in Players : other # uid

(* The variables of the script.  white is roomInfo.white_id, 0 while there *)
(* is no roomInfo; thinking is activeThinkingUid while the clock ticks and *)
(* 0 when it is stopped; spent is the time since the clock was started;    *)
(* panel is what the rematch panel offers; late tells of a page opened     *)
(* when the round was over (history).                                      *)
NewPage(late) ==
    [status |-> "playing", board |-> EmptyBoard, white |-> 0, myTurn |-> FALSE,
     thinking |-> 0, left |-> FullClocks, spent |-> 0, timeoutSent |-> FALSE,
     panel |-> "hidden", late |-> late]

Pages ==
    [status : {"playing", "over"}, board : Boards, white : Players \cup {0},
     myTurn : BOOLEAN, thinking : Players \cup {0}, left : [Colors -> 0 .. TOTAL_INIT_MS],
     spent : 0 .. STEP_INIT_MS, timeoutSent : BOOLEAN,
     panel : {"hidden", "starter", "sent", "asked", "accepted"}, late : BOOLEAN]

-----------------------------------------------------------------------------
(* Messages of the room *)
RoomReady(white) == [optype |-> "room_ready", white |-> white]
SpectateReady(white, stones) == [optype |-> "spectate_ready", white |-> white, board |-> stones]
PutChessMsg(uid, cell, winner, left) ==
    [optype |-> "put_chess", uid |-> uid, cell |-> cell, winner |-> winner, left |-> left]
TimeoutMsg == [optype |-> "timeout"]
PeerLeft == [optype |-> "peer_left_room"]
InviteMsg(uid, white) == [optype |-> "rematch_invite", inviter |-> uid, white |-> white]
RematchMsg(white) == [optype |-> "rematch_start", white |-> white]

NoCell == <<-1, -1>>

(* A refusal, of which the pages keep nothing, or no message at all. *)
Quiet == [optype |-> "none"]

-----------------------------------------------------------------------------
(* The handlers of the room, and what each broadcasts in the step it takes. *)
(* A refusal is broadcast too: it is Quiet here, and Page gives both       *)
(* players the alert it opens.  The pages' requests name no winner.        *)
put_chess(uid, cell) ==
    PutChessRefused(uid) \/ PutChessTooLate(uid) \/ PutChess(uid, cell, 0)
timeout(uid) == TimeoutRefused(uid) \/ TimeoutSettled(uid)
rematch_accept(uid) == RematchRefused(uid) \/ RematchStart(uid)

put_chess_resp(uid, cell) ==
    IF statu' = statu /\ board' = board THEN Quiet
    ELSE IF timing_started /\ Expired(0) THEN TimeoutMsg
    ELSE PutChessMsg(uid, cell, handle_chess(uid, cell, 0).winner, total_left')
timeout_resp == IF statu' = statu THEN Quiet ELSE TimeoutMsg
rematch_invite_resp(uid) == IF initiator' = initiator THEN Quiet ELSE InviteMsg(uid, white_id)
rematch_accept_resp == IF statu' = statu THEN Quiet ELSE RematchMsg(white_id')
(* handle_exit.  Without a session it is not called, and nobody is told.   *)
exit_resp(uid) ==
    IF player_count' = player_count THEN Quiet
    ELSE IF statu = GAME_START THEN PutChessMsg(uid, NoCell, Opponent(uid), total_left)
    ELSE PeerLeft

-----------------------------------------------------------------------------
(* What the page p of viewer v becomes.  v is a uid, or a spectator's tab. *)
Over(v, p) ==
    [p EXCEPT !.status = "over", !.thinking = 0, !.timeoutSent = TRUE,
              !.panel = IF v \in Players THEN "starter" ELSE "hidden"]

Drawn(v, p, m) ==
    IF m.cell \in Cells
    THEN [p EXCEPT !.board[m.cell] = IF m.uid = p.white THEN CHESS_WHITE ELSE CHESS_BLACK,
                   !.myTurn = v \in Players /\ m.uid # v]
    ELSE p

(* Slips in the code: the clock is started for the player who has moved;   *)
(* it goes on from where it was.                                           *)
ClockSwapped(p, m) ==
    [p EXCEPT !.left = m.left, !.thinking = m.uid, !.spent = 0, !.timeoutSent = FALSE]
ClockKept(p, m) == [p EXCEPT !.left = m.left, !.thinking = OtherOf(m.uid)]
(* startClock, for the player who is to move now.  left is read while the  *)
(* clock ticks only, and given anew here, so that other places where the   *)
(* script sets it make no difference.                                      *)
ClockStarted(p, m) ==
    [p EXCEPT !.left = m.left, !.thinking = OtherOf(m.uid), !.spent = 0, !.timeoutSent = FALSE]

handlePutChess(v, p, m) ==
    IF m.winner # 0 THEN Over(v, Drawn(v, p, m)) ELSE ClockStarted(Drawn(v, p, m), m)

room_ready(v, p, m) ==
    [p EXCEPT !.white = m.white, !.myTurn = v # m.white, !.thinking = 0, !.timeoutSent = FALSE]

spectate_ready(p, m) ==
    [p EXCEPT !.white = m.white, !.status = "playing", !.board = m.board, !.thinking = 0,
              !.timeoutSent = FALSE]

(* A slip in the code: whoever invites, the invitation is offered. *)
rematch_invite_offered(v, p, m) ==
    IF v \in Players THEN [p EXCEPT !.white = m.white, !.panel = "asked"] ELSE p

(* Only the page of a player has a branch for it. *)
rematch_invite(v, p, m) ==
    IF v \in Players
    THEN [p EXCEPT !.white = m.white, !.panel = IF m.inviter = v THEN "sent" ELSE "asked"]
    ELSE p

(* A slip in the code: the seats stay as they were. *)
applyRematchStart_seated(v, p, m) ==
    [p EXCEPT !.status = "playing", !.board = EmptyBoard, !.thinking = 0,
              !.timeoutSent = FALSE, !.panel = "hidden",
              !.myTurn = v \in Players /\ v # p.white]
applyRematchStart(v, p, m) ==
    [p EXCEPT !.status = "playing", !.board = EmptyBoard, !.thinking = 0,
              !.timeoutSent = FALSE, !.panel = "hidden", !.white = m.white,
              !.myTurn = v \in Players /\ v # m.white]

(* The alerts a page opens are left to Page: here is what it holds. *)
Shown(v, p, m) ==
    CASE m.optype = "none" -> p
      [] m.optype = "put_chess" -> handlePutChess(v, p, m)
      [] m.optype \in {"timeout", "peer_left_room"} -> Over(v, p)
      [] m.optype = "room_ready" -> room_ready(v, p, m)
      [] m.optype = "spectate_ready" -> spectate_ready(p, m)
      [] m.optype = "rematch_invite" -> rematch_invite(v, p, m)
      [] m.optype = "rematch_start" -> applyRematchStart(v, p, m)

(* What a page that holds everything the room has sent must show of a      *)
(* round being played.                                                     *)
Agrees(p) == p.status = "playing" /\ p.board = board /\ p.white = white_id
=============================================================================
