--------------------------- MODULE SpectateProofs ---------------------------
(***************************************************************************)
(* What module Spectate guarantees on every board, with any clocks, any    *)
(* number of rounds and any number of tabs.  The room's own invariant is   *)
(* the one of RoomProofs: the view of a spectator depends on the seats     *)
(* being distinct and on stones being of the room's colors.                *)
(***************************************************************************)
EXTENDS Spectate, RoomProofs

(* What the tab watching must show, as one formula. *)
Shows ==
    /\ IF statu = GAME_START THEN Agrees(view) ELSE view.status = "over"
    /\ statu = GAME_START /\ view.thinking # 0 =>
         /\ timing_started
         /\ view.thinking = turn_uid
         /\ view.left = total_left

SpectateInv ==
    /\ Inv
    /\ SpectateTypeOK
    /\ watching # {} => Shows

USE RoomAssumption DEF GAME_START, GAME_OVER

-----------------------------------------------------------------------------
(* Pages *)
LEMMA NewPageTyped == NewPage(FALSE) \in Pages
<1>1. EmptyBoard \in Boards /\ FullClocks \in [Colors -> 0 .. TOTAL_INIT_MS]
  BY DEF EmptyBoard, Boards, FullClocks
<1>2. QED BY <1>1 DEF NewPage, Pages

LEMMA PageOver ==
    ASSUME NEW t \in Tabs, NEW p \in Pages
    PROVE  Over(t, p) \in Pages /\ Over(t, p).status = "over"
BY DEF Over, Pages

LEMMA PageStone ==
    ASSUME NEW t \in Tabs, NEW p \in Pages, NEW uid \in Players, NEW cell \in Cells, NEW winner,
           NEW left \in [Colors -> 0 .. TOTAL_INIT_MS]
    PROVE  LET d == Drawn(t, p, PutChessMsg(uid, cell, winner, left)) IN
           /\ d \in Pages
           /\ d.status = p.status
           /\ d.white = p.white
           /\ d.board = [p.board EXCEPT ![cell] = IF uid = p.white THEN CHESS_WHITE ELSE CHESS_BLACK]
<1> DEFINE color == IF uid = p.white THEN CHESS_WHITE ELSE CHESS_BLACK
           placed == [p.board EXCEPT ![cell] = color]
<1>1. t \notin Players
  BY SpectateAssumption
<1>2. placed \in Boards
  BY DEF Pages, Boards, Colors
<1>3. Drawn(t, p, PutChessMsg(uid, cell, winner, left)) = [p EXCEPT !.board = placed, !.myTurn = FALSE]
  BY <1>1 DEF Drawn, PutChessMsg, Pages
<1> HIDE DEF placed, color
<1>4. QED BY <1>2, <1>3 DEF Pages, placed, color

LEMMA PageClock ==
    ASSUME NEW p \in Pages, NEW uid \in Players, NEW cell, NEW winner,
           NEW left \in [Colors -> 0 .. TOTAL_INIT_MS]
    PROVE  LET q == ClockStarted(p, PutChessMsg(uid, cell, winner, left)) IN
           /\ q \in Pages
           /\ q.status = p.status
           /\ q.white = p.white
           /\ q.board = p.board
           /\ q.thinking \in Players
           /\ q.thinking # uid
           /\ q.left = left
<1>1. OtherOf(uid) \in Players /\ OtherOf(uid) # uid
  BY DEF OtherOf, Players
<1>2. ClockStarted(p, PutChessMsg(uid, cell, winner, left)) =
        [p EXCEPT !.left = left, !.thinking = OtherOf(uid), !.spent = 0, !.timeoutSent = FALSE]
  BY DEF ClockStarted, PutChessMsg
<1>3. 0 \in 0 .. STEP_INIT_MS
  OBVIOUS
<1>4. QED BY <1>1, <1>2, <1>3 DEF Pages

-----------------------------------------------------------------------------
(* What a tab makes of each message, when it shows the round before it.    *)
LEMMA SaysNothing ==
    ASSUME Shows, NEW t \in Tabs, view \in Pages, view' = Shown(t, view, Quiet),
           UNCHANGED <<statu, board, white_id, timing_started, turn_uid, total_left>>
    PROVE  view' \in Pages /\ Shows'
<1>1. view' = view
  BY DEF Shown, Quiet
<1>2. QED BY <1>1 DEF Shows, Agrees

LEMMA SaysOver ==
    ASSUME NEW t \in Tabs, view \in Pages, statu' = GAME_OVER, view' = Over(t, view)
    PROVE  view' \in Pages /\ Shows'
BY PageOver DEF Shows

LEMMA SaysTimeout ==
    ASSUME NEW t \in Tabs, view \in Pages, statu' = GAME_OVER,
           \/ view' = Shown(t, view, TimeoutMsg)
           \/ view' = Shown(t, view, PeerLeft)
    PROVE  view' \in Pages /\ Shows'
<1>1. view' = Over(t, view)
  BY DEF Shown, TimeoutMsg, PeerLeft
<1>2. QED BY <1>1, SaysOver

(* A stone that wins, an absent player, or an exit without a stone.        *)
LEMMA SaysDecided ==
    ASSUME NEW t \in Tabs, view \in Pages, statu' = GAME_OVER,
           NEW uid \in Players, NEW cell \in Cells \cup {NoCell},
           NEW winner \in Players, NEW left \in [Colors -> 0 .. TOTAL_INIT_MS],
           view' = Shown(t, view, PutChessMsg(uid, cell, winner, left))
    PROVE  view' \in Pages /\ Shows'
<1> DEFINE m == PutChessMsg(uid, cell, winner, left)
           d == Drawn(t, view, m)
<1>1. m.optype = "put_chess" /\ m.winner = winner /\ m.cell = cell
  BY DEF PutChessMsg
<1>2. winner # 0
  BY DEF Players
<1>3. view' = Over(t, d)
  BY <1>1, <1>2 DEF Shown, handlePutChess
<1>4. d \in Pages
  <2>1. CASE cell \in Cells
    BY <2>1, PageStone
  <2>2. CASE cell \notin Cells
    BY <1>1, <2>2 DEF Drawn
  <2>3. QED BY <2>1, <2>2
<1> HIDE DEF d, m
<1>5. QED BY <1>3, <1>4, PageOver DEF Shows

LEMMA SaysStone ==
    ASSUME Inv, Shows, NEW t \in Tabs, view \in Pages, NEW uid \in Players, NEW cell \in Cells,
           statu = GAME_START, statu' = GAME_START, white_id' = white_id,
           board' = [board EXCEPT ![cell] = ColorOf(uid)],
           timing_started' = TRUE, turn_uid' = Opponent(uid),
           total_left' \in [Colors -> 0 .. TOTAL_INIT_MS],
           view' = Shown(t, view, PutChessMsg(uid, cell, 0, total_left'))
    PROVE  view' \in Pages /\ Shows'
<1> DEFINE m == PutChessMsg(uid, cell, 0, total_left')
           d == Drawn(t, view, m)
<1>1. m.optype = "put_chess" /\ m.winner = 0
  BY DEF PutChessMsg
<1>2. view' = ClockStarted(d, m)
  BY <1>1 DEF Shown, handlePutChess
<1>3. view.status = "playing" /\ view.board = board /\ view.white = white_id
  BY DEF Shows, Agrees
<1>4. /\ d \in Pages /\ d.status = view.status /\ d.white = view.white
      /\ d.board = [view.board EXCEPT ![cell] = IF uid = view.white THEN CHESS_WHITE ELSE CHESS_BLACK]
  BY PageStone
<1> HIDE DEF d
<1>5. /\ view' \in Pages /\ view'.status = d.status /\ view'.white = d.white /\ view'.board = d.board
      /\ view'.thinking \in Players /\ view'.thinking # uid
      /\ view'.left = total_left'
  BY <1>2, <1>4, PageClock
<1>6. view'.thinking = turn_uid'
  <2>1. Opponent(uid) \in Players /\ Opponent(uid) # uid
    BY OpponentIsOther DEF Inv
  <2>2. QED BY <1>5, <2>1 DEF Players
<1>7. Agrees(view)'
  BY <1>3, <1>4, <1>5 DEF Agrees, ColorOf
<1>8. QED BY <1>5, <1>6, <1>7 DEF Shows

LEMMA SaysRematch ==
    ASSUME NEW t \in Tabs, view \in Pages, statu' = GAME_START, board' = EmptyBoard,
           white_id' \in Players, view' = Shown(t, view, RematchMsg(white_id'))
    PROVE  view' \in Pages /\ Shows'
<1>1. t \notin Players /\ EmptyBoard \in Boards
  BY SpectateAssumption DEF EmptyBoard, Boards
<1>2. view' = [view EXCEPT !.status = "playing", !.board = EmptyBoard, !.thinking = 0,
                           !.timeoutSent = FALSE, !.panel = "hidden", !.white = white_id',
                           !.myTurn = FALSE]
  BY <1>1 DEF Shown, applyRematchStart, RematchMsg
<1>3. /\ view' \in Pages /\ view'.status = "playing" /\ view'.board = EmptyBoard
      /\ view'.white = white_id' /\ view'.thinking = 0
  BY <1>1, <1>2 DEF Pages
<1>4. QED BY <1>3 DEF Shows, Agrees
-----------------------------------------------------------------------------
(* The steps of the players, as the tab watching sees them.                *)
LEMMA PutChessShown ==
    ASSUME Inv, Shows, NEW t \in Tabs, view \in Pages, NEW uid \in Players, NEW cell \in Cells,
           put_chess(uid, cell), view' = Shown(t, view, put_chess_resp(uid, cell))
    PROVE  view' \in Pages /\ Shows'
<1> DEFINE answer == handle_chess(uid, cell, 0)
<1>0. 0 \in Claims /\ (answer.winner # 0 => answer.result)
  BY DEF Claims, handle_chess
<1>1. CASE Refused
  <2>1. UNCHANGED <<statu, board, white_id, timing_started, turn_uid, total_left>>
    BY <1>1 DEF Refused, vars, game
  <2>2. put_chess_resp(uid, cell) = Quiet
    BY <2>1 DEF put_chess_resp
  <2>3. QED BY <2>1, <2>2, SaysNothing
<1>2. CASE PutChessTooLate(uid)
  <2>1. statu' = GAME_OVER /\ statu' # statu /\ timing_started /\ Expired(0)
    BY <1>2 DEF PutChessTooLate, Settle
  <2>2. put_chess_resp(uid, cell) = TimeoutMsg
    BY <2>1 DEF put_chess_resp
  <2>3. QED BY <2>1, <2>2, SaysTimeout
<1>3. CASE /\ statu = GAME_START
           /\ timing_started => ~Expired(0)
           /\ answer.result
           /\ answer.winner = 0
           /\ board' = answer.board
           /\ timing_started' = TRUE
           /\ total_left' = ClocksAfterStone
           /\ turn_uid' = Opponent(uid)
           /\ UNCHANGED <<statu, white_id>>
  <2>1. board[cell] = EMPTY /\ answer.board = [board EXCEPT ![cell] = ColorOf(uid)]
    BY <1>0, <1>3, UndecidedStone
  <2>2. board'[cell] = ColorOf(uid) /\ board' # board
    <3>1. ColorOf(uid) # EMPTY
      BY DEF ColorOf, CHESS_WHITE, CHESS_BLACK, EMPTY
    <3>2. QED BY <1>3, <2>1, <3>1 DEF Inv, TypeOK, Boards
  <2>3. put_chess_resp(uid, cell) = PutChessMsg(uid, cell, 0, total_left')
    BY <1>3, <2>2 DEF put_chess_resp
  <2>4. total_left' \in [Colors -> 0 .. TOTAL_INIT_MS]
    BY <1>3, ClocksStayPositive
  <2> HIDE DEF answer
  <2>5. QED BY <1>3, <2>1, <2>3, <2>4, SaysStone
<1>4. CASE /\ statu = GAME_START
           /\ timing_started => ~Expired(0)
           /\ answer.winner # 0
           /\ Settle(answer.winner)
           /\ UNCHANGED total_left
  <2>1. statu' = GAME_OVER /\ statu' # statu
    BY <1>4 DEF Settle
  <2>2. put_chess_resp(uid, cell) = PutChessMsg(uid, cell, answer.winner, total_left')
    BY <1>4, <2>1 DEF put_chess_resp
  <2>3. answer.winner \in Players
    BY <1>0, <1>4, HandleChessAnswers
  <2>4. total_left' \in [Colors -> 0 .. TOTAL_INIT_MS]
    BY <1>4 DEF Inv, TypeOK
  <2> HIDE DEF answer
  <2>5. QED BY <2>1, <2>2, <2>3, <2>4, SaysDecided
<1>5. CASE PutChess(uid, cell, 0)
  <2> HIDE DEF answer
  <2>1. QED BY <1>1, <1>3, <1>4, <1>5 DEF PutChess, presence, answer
<1>6. QED BY <1>1, <1>2, <1>5 DEF put_chess, PutChessRefused

LEMMA TimeoutShown ==
    ASSUME Inv, Shows, NEW t \in Tabs, view \in Pages, NEW uid \in Players,
           timeout(uid), view' = Shown(t, view, timeout_resp)
    PROVE  view' \in Pages /\ Shows'
<1>1. CASE Refused
  <2>1. UNCHANGED <<statu, board, white_id, timing_started, turn_uid, total_left>>
    BY <1>1 DEF Refused, vars, game
  <2>2. timeout_resp = Quiet
    BY <2>1 DEF timeout_resp
  <2>3. QED BY <2>1, <2>2, SaysNothing
<1>2. CASE TimeoutSettled(uid)
  <2>1. statu' = GAME_OVER /\ statu' # statu
    BY <1>2 DEF TimeoutSettled, Settle
  <2>2. QED BY <2>1, SaysTimeout DEF timeout_resp
<1>3. QED BY <1>1, <1>2 DEF timeout, TimeoutRefused

(* A spectator's page has no branch for an invitation. *)
LEMMA InviteShown ==
    ASSUME Shows, NEW t \in Tabs, view \in Pages, NEW uid \in Players,
           RematchInvite(uid), view' = Shown(t, view, rematch_invite_resp(uid))
    PROVE  view' \in Pages /\ Shows'
<1>1. UNCHANGED <<statu, board, white_id, timing_started, turn_uid, total_left>>
  BY DEF RematchInvite, Refused, vars, game
<1>2. t \notin Players
  BY SpectateAssumption
<1>3. view' = view
  BY <1>2 DEF rematch_invite_resp, InviteMsg, Quiet, Shown, rematch_invite
<1>4. QED BY <1>1, <1>3 DEF Shows, Agrees

LEMMA AcceptShown ==
    ASSUME Inv, Shows, NEW t \in Tabs, view \in Pages, NEW uid \in Players,
           rematch_accept(uid), view' = Shown(t, view, rematch_accept_resp)
    PROVE  view' \in Pages /\ Shows'
<1>1. CASE Refused
  <2>1. UNCHANGED <<statu, board, white_id, timing_started, turn_uid, total_left>>
    BY <1>1 DEF Refused, vars, game
  <2>2. rematch_accept_resp = Quiet
    BY <2>1 DEF rematch_accept_resp
  <2>3. QED BY <2>1, <2>2, SaysNothing
<1>2. CASE RematchStart(uid)
  <2>1. /\ statu = GAME_OVER /\ statu' = GAME_START
        /\ board' = EmptyBoard /\ white_id' = black_id
    BY <1>2 DEF RematchStart, AcceptAllowed
  <2>2. rematch_accept_resp = RematchMsg(white_id')
    BY <2>1 DEF rematch_accept_resp
  <2>3. white_id' \in Players
    BY <2>1 DEF Inv, TypeOK
  <2>4. QED BY <2>1, <2>2, <2>3, SaysRematch
<1>3. QED BY <1>1, <1>2 DEF rematch_accept, RematchRefused

LEMMA ExitShown ==
    ASSUME Inv, Shows, NEW t \in Tabs, view \in Pages, NEW uid \in Players,
           wsclose_game_room(uid), view' = Shown(t, view, exit_resp(uid))
    PROVE  view' \in Pages /\ Shows'
<1>1. CASE player_count' = player_count - 1 /\ statu = GAME_START /\ Settle(Opponent(uid))
  <2>1. statu' = GAME_OVER /\ player_count' # player_count
    BY <1>1 DEF Settle, Inv, TypeOK
  <2>2. exit_resp(uid) = PutChessMsg(uid, NoCell, Opponent(uid), total_left)
    BY <1>1, <2>1 DEF exit_resp
  <2>3. Opponent(uid) \in Players /\ total_left \in [Colors -> 0 .. TOTAL_INIT_MS]
    BY OpponentIsOther DEF Inv, TypeOK
  <2>4. QED BY <2>1, <2>2, <2>3, SaysDecided
<1>2. CASE player_count' = player_count - 1 /\ statu = GAME_OVER /\ UNCHANGED statu
  <2>1. statu' = GAME_OVER /\ player_count' # player_count
    BY <1>2 DEF Inv, TypeOK
  <2>2. exit_resp(uid) = PeerLeft
    BY <1>2, <2>1 DEF exit_resp
  <2>3. QED BY <2>1, <2>2, SaysTimeout
<1>3. CASE UNCHANGED <<statu, white_id, player_count>>
  <2>1. UNCHANGED <<statu, board, white_id, timing_started, turn_uid, total_left>>
    BY <1>3 DEF wsclose_game_room
  <2>2. exit_resp(uid) = Quiet
    BY <1>3 DEF exit_resp
  <2>3. QED BY <2>1, <2>2, SaysNothing
<1>4. QED BY <1>1, <1>2, <1>3 DEF wsclose_game_room
-----------------------------------------------------------------------------
LEMMA PlayersStepRoom ==
    ASSUME Registered, PlayersStep
    PROVE  Next
<1>1. ASSUME NEW uid \in Players, conns[uid] > 0,
             \/ \E cell \in Cells : put_chess(uid, cell)
             \/ timeout(uid)
             \/ RematchInvite(uid)
             \/ rematch_accept(uid)
      PROVE  handle_request(uid)
  BY <1>1 DEF handle_request, put_chess, timeout, rematch_accept, Aims, Claims
<1>2. CASE Tick
  BY <1>2 DEF Next
<1>3. CASE \E uid \in Players : handle_request(uid)
  BY <1>3 DEF Next
<1>4. CASE \E uid \in Players : wsopen_game_room(uid) \/ Drop(uid) \/ wsclose_game_room(uid)
  BY <1>4 DEF Next
<1>5. QED BY <1>1, <1>2, <1>3, <1>4 DEF PlayersStep

LEMMA PlayersStepInv ==
    ASSUME SpectateInv, Registered, PlayersStep
    PROVE  SpectateInv'
<1>1. Inv'
  BY PlayersStepRoom, StepInv DEF SpectateInv
<1>2. UNCHANGED <<tab, watching>> /\ view \in Pages /\ watching \subseteq Tabs
  BY DEF PlayersStep, watchers, SpectateInv, SpectateTypeOK
<1>3. ASSUME NEW t \in watching, UNCHANGED view,
             \/ Tick
             \/ \E uid \in Players : wsopen_game_room(uid) \/ Drop(uid)
      PROVE  Shows'
  <2>1. UNCHANGED <<statu, board, white_id, timing_started, turn_uid, total_left>>
    BY <1>3 DEF Tick, wsopen_game_room, Drop, game
  <2>2. QED BY <1>3, <2>1 DEF SpectateInv, Shows, Agrees
<1>4. ASSUME NEW t \in watching, NEW uid \in Players,
             \/ \E cell \in Cells :
                  put_chess(uid, cell) /\ view' = Shown(t, view, put_chess_resp(uid, cell))
             \/ timeout(uid) /\ view' = Shown(t, view, timeout_resp)
             \/ RematchInvite(uid) /\ view' = Shown(t, view, rematch_invite_resp(uid))
             \/ rematch_accept(uid) /\ view' = Shown(t, view, rematch_accept_resp)
             \/ wsclose_game_room(uid) /\ view' = Shown(t, view, exit_resp(uid))
      PROVE  view' \in Pages /\ Shows'
  <2>1. Inv /\ Shows /\ t \in Tabs
    BY <1>2, <1>4 DEF SpectateInv
  <2>2. QED BY <1>2, <1>4, <2>1, PutChessShown, TimeoutShown, InviteShown, AcceptShown, ExitShown
<1>5. CASE watching = {}
  <2>1. view' = view
    BY <1>5 DEF PlayersStep, broadcast
  <2>2. QED BY <1>1, <1>2, <1>5, <2>1 DEF SpectateInv, SpectateTypeOK, Inv
<1>6. ASSUME NEW t \in watching
      PROVE  view' \in Pages /\ Shows'
  <2>1. watching = {t}
    BY <1>6 DEF SpectateInv, SpectateTypeOK
  <2>2. \A m : broadcast(m) => view' = Shown(t, view, m)
    BY <2>1 DEF broadcast
  <2>3. \/ /\ UNCHANGED view
           /\ \/ Tick
              \/ \E uid \in Players : wsopen_game_room(uid) \/ Drop(uid)
        \/ \E uid \in Players :
             \/ \E cell \in Cells :
                  put_chess(uid, cell) /\ view' = Shown(t, view, put_chess_resp(uid, cell))
             \/ timeout(uid) /\ view' = Shown(t, view, timeout_resp)
             \/ RematchInvite(uid) /\ view' = Shown(t, view, rematch_invite_resp(uid))
             \/ rematch_accept(uid) /\ view' = Shown(t, view, rematch_accept_resp)
             \/ wsclose_game_room(uid) /\ view' = Shown(t, view, exit_resp(uid))
    BY <2>2 DEF PlayersStep
  <2>4. QED BY <1>2, <1>3, <1>4, <1>6, <2>3
<1>7. QED BY <1>1, <1>2, <1>5, <1>6 DEF SpectateInv, SpectateTypeOK, Inv

-----------------------------------------------------------------------------
(* The steps of the tabs leave the room alone. *)
LEMMA RoomAlone ==
    ASSUME Inv, UNCHANGED vars
    PROVE  Inv'
BY StepInv

LEMMA StopsInv ==
    ASSUME SpectateInv, NEW rest \in SUBSET watching, Stops(rest), UNCHANGED vars,
           tab' \in [Tabs -> {"closed", "asking", "asked", "closing"}]
    PROVE  SpectateInv'
<1>1. Inv'
  BY RoomAlone DEF SpectateInv
<1>2. watching' \in {{}} \cup {{t} : t \in Tabs}
  BY DEF Stops, SpectateInv, SpectateTypeOK
<1>3. view' \in Pages
  BY NewPageTyped DEF Stops, SpectateInv, SpectateTypeOK
<1>4. watching' # {} => Shows'
  BY DEF Stops, SpectateInv, Shows, Agrees, vars, game
<1>5. QED BY <1>1, <1>2, <1>3, <1>4 DEF SpectateInv, SpectateTypeOK, Inv

LEMMA JoinInv ==
    ASSUME SpectateInv, NEW t \in Tabs, spectate_join(t)
    PROVE  SpectateInv'
<1>1. /\ UNCHANGED vars /\ Inv'
      /\ tab' \in [Tabs -> {"closed", "asking", "asked", "closing"}]
  BY RoomAlone DEF spectate_join, SpectateInv, SpectateTypeOK
<1>2. CASE /\ statu = GAME_START
           /\ watching' = {t}
           /\ view' = Shown(t, NewPage(FALSE), SpectateReady(white_id, board))
  <2>1. view' = [NewPage(FALSE) EXCEPT !.white = white_id, !.status = "playing", !.board = board,
                                       !.thinking = 0, !.timeoutSent = FALSE]
    BY <1>2 DEF Shown, spectate_ready, SpectateReady
  <2>2. /\ view' \in Pages /\ view'.status = "playing" /\ view'.board = board
        /\ view'.white = white_id /\ view'.thinking = 0
    <3>1. board \in Boards /\ white_id \in Players
      BY DEF SpectateInv, Inv, TypeOK
    <3>2. QED BY <2>1, <3>1, NewPageTyped DEF Pages
  <2>3. Shows'
    BY <1>1, <1>2, <2>2 DEF Shows, Agrees, vars, game
  <2>4. QED BY <1>1, <1>2, <2>2, <2>3 DEF SpectateInv, SpectateTypeOK, Inv
<1>3. CASE UNCHANGED <<watching, view>>
  <2>1. watching' # {} => Shows'
    BY <1>1, <1>3 DEF SpectateInv, Shows, Agrees, vars, game
  <2>2. QED BY <1>1, <1>3, <2>1 DEF SpectateInv, SpectateTypeOK, Inv
<1>4. QED BY <1>2, <1>3 DEF spectate_join, add_spectator, board_snapshot

LEMMA OpenTabInv ==
    ASSUME SpectateInv, NEW t \in Tabs, wsopen_spectate(t)
    PROVE  SpectateInv'
<1>1. /\ UNCHANGED <<vars, watching, view>> /\ Inv'
      /\ tab' \in [Tabs -> {"closed", "asking", "asked", "closing"}]
  BY RoomAlone DEF wsopen_spectate, SpectateInv, SpectateTypeOK
<1>2. watching' # {} => Shows'
  BY <1>1 DEF SpectateInv, Shows, Agrees, vars, game
<1>3. QED BY <1>1, <1>2 DEF SpectateInv, SpectateTypeOK, Inv

LEMMA TabStepInv ==
    ASSUME SpectateInv, NEW t \in Tabs,
           wsopen_spectate(t) \/ spectate_join(t) \/ DropsTab(t) \/ wsclose_spectate(t)
    PROVE  SpectateInv'
<1>1. CASE DropsTab(t)
  BY <1>1, StopsInv DEF DropsTab, SpectateInv, SpectateTypeOK
<1>2. CASE wsclose_spectate(t)
  BY <1>2, StopsInv DEF wsclose_spectate, SpectateInv, SpectateTypeOK
<1>3. QED BY <1>1, <1>2, OpenTabInv, JoinInv

-----------------------------------------------------------------------------
LEMMA SpectateInitInv == SpectateInit => SpectateInv
<1>1. SUFFICES ASSUME SpectateInit PROVE SpectateInv
  OBVIOUS
<1>2. Inv
  BY <1>1, InitInv DEF SpectateInit
<1>3. QED BY <1>1, <1>2, NewPageTyped DEF SpectateInit, SpectateInv, SpectateTypeOK, Inv

LEMMA SpectateStepInv == SpectateInv /\ [SpectateNext]_allvars => SpectateInv'
<1>1. SUFFICES ASSUME SpectateInv, [SpectateNext]_allvars PROVE SpectateInv'
  OBVIOUS
<1>2. CASE Registered /\ PlayersStep
  BY <1>1, <1>2, PlayersStepInv
<1>3. CASE remove_spectator_user
  BY <1>1, <1>3, StopsInv DEF remove_spectator_user, SpectateInv, SpectateTypeOK
<1>4. ASSUME NEW t \in Tabs,
             wsopen_spectate(t) \/ spectate_join(t) \/ DropsTab(t) \/ wsclose_spectate(t)
      PROVE  SpectateInv'
  BY <1>1, <1>4, TabStepInv
<1>5. CASE UNCHANGED allvars
  <2>1. UNCHANGED <<vars, tab, watching, view>> /\ Inv'
    BY <1>1, <1>5, RoomAlone DEF allvars, watchers, SpectateInv
  <2>2. watching' # {} => Shows'
    BY <1>1, <2>1 DEF SpectateInv, Shows, Agrees, vars, game
  <2>3. QED BY <1>1, <2>1, <2>2 DEF SpectateInv, SpectateTypeOK, Inv
<1>6. QED BY <1>1, <1>2, <1>3, <1>4, <1>5 DEF SpectateNext

(* The invariant of the room and its spectators holds in every state. *)
THEOREM SpectateInvariance == SpectateSpec => []SpectateInv
BY SpectateInitInv, SpectateStepInv, PTL DEF SpectateSpec

(* A room serves one tab of a user at most, and the page it serves keeps   *)
(* its types.                                                              *)
THEOREM SpectateTypeCorrect == SpectateSpec => []SpectateTypeOK
<1>1. SpectateInv => SpectateTypeOK
  BY DEF SpectateInv
<1>2. QED BY <1>1, SpectateInvariance, PTL

(* The snapshot of spectate_join and the broadcasts after it give the tab  *)
(* that is watching the round the players play, on every board and through *)
(* any number of rematches, ends of rounds and changes of tabs.            *)
THEOREM SpectatorSeesTheRound == SpectateSpec => []SpectatorFollows
<1>1. SpectateInv => SpectatorFollows
  BY DEF SpectateInv, Shows, SpectatorFollows
<1>2. QED BY <1>1, SpectateInvariance, PTL

(* The clock a spectator sees running is the one the room will charge.     *)
THEOREM SpectatorSeesTheClock == SpectateSpec => []ClockOfMover
<1>1. SpectateInv => ClockOfMover
  BY DEF SpectateInv, Shows, ClockOfMover
<1>2. QED BY <1>1, SpectateInvariance, PTL

(* Spectators come, watch and go without the room noticing: every step is  *)
(* a step of module Room or none of it, and what is proved of Room holds   *)
(* of a room that is watched.                                              *)
THEOREM SpectateImplementsRoom == SpectateSpec => Spec
<1>1. SpectateInit => Init
  BY DEF SpectateInit
<1>2. ASSUME NEW t \in Tabs,
             wsopen_spectate(t) \/ spectate_join(t) \/ DropsTab(t) \/ wsclose_spectate(t)
      PROVE  UNCHANGED vars
  BY <1>2 DEF wsopen_spectate, spectate_join, DropsTab, wsclose_spectate
<1>3. [SpectateNext]_allvars => [Next]_vars
  <2>1. remove_spectator_user => UNCHANGED vars
    BY DEF remove_spectator_user
  <2>2. UNCHANGED allvars => UNCHANGED vars
    BY DEF allvars
  <2>3. QED BY <1>2, <2>1, <2>2, PlayersStepRoom DEF SpectateNext
<1>4. QED BY <1>1, <1>3, PTL DEF SpectateSpec, Spec
=============================================================================
