-------------------------------- MODULE Room --------------------------------
(***************************************************************************)
(* One object of class room (include/room.hpp) from create_room to         *)
(* remove_room: the board, the turn, the two clocks, the settlement of a   *)
(* round in the user table and the rematch handshake.  Around it, the      *)
(* /room connections of its two players as server.hpp opens and closes     *)
(* them, because every request is judged against who is in the room now.   *)
(*                                                                         *)
(* All WebSocket handlers run on the one io thread (_wssrv.run() in        *)
(* server.hpp), so a handler is one step.  A request names the uid of the  *)
(* player whose connection carries it, as the page does.  It may have a    *)
(* field winner, which no page sends but handle_chess answers with.        *)
(***************************************************************************)
EXTENDS FiveInRow

CONSTANTS
    UID1, UID2,             \* arguments of create_room: white and black of round 1
    Stranger,               \* any uid that is neither; one stands for all
    TOTAL_INIT_MS,          \* thinking time of a player for a whole round
    STEP_INIT_MS,           \* thinking time for one stone
    TIMEOUT_TOLERANCE_MS,   \* how early a player's own timeout report is accepted
    MaxRounds,              \* bound: rounds played in one room
    MaxConns,               \* bound: /room connections of one player not yet closed
    SessionCanExpire        \* whether a player's session may be gone, see server.hpp

ASSUME RoomAssumption ==
    /\ UID1 \in Nat \ {0}
    /\ UID2 \in Nat \ {0}
    /\ UID1 # UID2
    /\ Stranger \in Nat \ {0, UID1, UID2}
    /\ TOTAL_INIT_MS \in Nat \ {0}
    /\ STEP_INIT_MS \in Nat \ {0}
    /\ TIMEOUT_TOLERANCE_MS \in Nat
    /\ MaxRounds \in Nat \ {0}
    /\ MaxConns \in Nat \ {0}
    /\ SessionCanExpire \in BOOLEAN

VARIABLES
    statu,              \* _statu
    white_id, black_id, \* _white_id, _black_id
    board,              \* _board
    player_count,       \* _player_count; the room is registered while it is not 0
    timing_started,     \* _timing_started
    turn_uid,           \* _turn_uid
    elapsed,            \* now - _turn_start_tp, see Tick
    total_left,         \* _white_total_left_ms, _black_total_left_ms, by color
    initiator,          \* _rematch_initiator_uid, 0 for none
    online,             \* players online_manager::in_game_room answers true for
    conns,              \* /room connections each player has open
    closing,            \* those no longer open whose close handler is still to run
    won, lost,          \* calls of user_table::win and user_table::lose
    rounds,             \* history: rounds started in this room
    echoed              \* history: this round went to the winner a refused request named

game == <<statu, white_id, black_id, board, timing_started, turn_uid, elapsed,
          total_left, initiator>>
ledger == <<won, lost, rounds, echoed>>
presence == <<player_count, online, conns, closing>>
vars == <<game, ledger, presence>>

-----------------------------------------------------------------------------
GAME_START == "GAME_START"
GAME_OVER == "GAME_OVER"

Players == {UID1, UID2}
Winners == Players \cup {Stranger}
Opponent(uid) == IF uid = white_id THEN black_id ELSE white_id
ColorOf(uid) == IF uid = white_id THEN CHESS_WHITE ELSE CHESS_BLACK
(* A slip in the code: the row of one color wins for the other player. *)
UidOfSwapped(color) == IF color = CHESS_WHITE THEN black_id ELSE white_id
UidOf(color) == IF color = CHESS_WHITE THEN white_id ELSE black_id
(* A slip in the code: clocks left as the constructor zeroes them. *)
FullClocksUnset == [color \in Colors |-> 0]
FullClocks == [color \in Colors |-> TOTAL_INIT_MS]

Registered == player_count > 0
both_players_online == white_id \in online /\ black_id \in online

(* A refused request is answered by a broadcast and changes nothing. *)
Refused == UNCHANGED vars

-----------------------------------------------------------------------------
(* The constructor, add_white_user and add_black_user, in create_room. *)
Init ==
    /\ statu = GAME_START
    /\ white_id = UID1
    /\ black_id = UID2
    /\ board = EmptyBoard
    /\ player_count = 2
    /\ timing_started = FALSE
    /\ turn_uid = UID2
    /\ elapsed = 0
    /\ total_left = [color \in Colors |-> 0]
    /\ initiator = 0
    /\ online = {}
    /\ conns = [uid \in Players |-> 0]
    /\ closing = [uid \in Players |-> 0]
    /\ won = [uid \in Winners |-> 0]
    /\ lost = [uid \in Players |-> 0]
    /\ rounds = 1
    /\ echoed = FALSE

(* Slips in the code: the round is settled but stays open; the winner is   *)
(* also charged with the loss.                                             *)
SettleStaysOpen(winner) ==
    /\ won' = [won EXCEPT ![winner] = @ + 1]
    /\ lost' = [lost EXCEPT ![Opponent(winner)] = @ + 1]
    /\ UNCHANGED <<statu, white_id, black_id, initiator, rounds>>
SettleChargesWinner(winner) ==
    /\ statu' = GAME_OVER
    /\ won' = [won EXCEPT ![winner] = @ + 1]
    /\ lost' = [lost EXCEPT ![winner] = @ + 1]
    /\ UNCHANGED <<white_id, black_id, initiator, rounds>>

(* The four lines that end a round, the same wherever a round ends.  A     *)
(* winner who does not play costs white the round.                         *)
Settle(winner) ==
    /\ statu' = GAME_OVER
    /\ won' = [won EXCEPT ![winner] = @ + 1]
    /\ lost' = [lost EXCEPT ![Opponent(winner)] = @ + 1]
    /\ UNCHANGED <<white_id, black_id, initiator, rounds>>

-----------------------------------------------------------------------------
(* Time.  The steady clock advances; a round reads it only once timing has *)
(* started, and STEP_INIT_MS is as good as any later value, because at it  *)
(* the step has expired on both paths that read the clock.                 *)
Tick ==
    /\ statu = GAME_START
    /\ timing_started
    /\ elapsed < STEP_INIT_MS
    /\ elapsed' = elapsed + 1
    /\ UNCHANGED <<statu, white_id, black_id, board, timing_started, turn_uid,
                   total_left, initiator, ledger, presence>>

StepExpired(tolerance) == elapsed + tolerance >= STEP_INIT_MS
TotalExpired(tolerance) == total_left[ColorOf(turn_uid)] <= elapsed + tolerance
Expired(tolerance) == StepExpired(tolerance) \/ TotalExpired(tolerance)

-----------------------------------------------------------------------------
(* A slip in the code: the stone is placed whoever is absent. *)
handle_chess_unattended(uid, cell, claim) ==
    LET placed == [board EXCEPT ![cell] = ColorOf(uid)]
        answer(result, winner, after) == [result |-> result, winner |-> winner, board |-> after]
    IN  IF cell \notin Cells THEN answer(FALSE, claim, board)
        ELSE IF board[cell] # EMPTY THEN answer(FALSE, claim, board)
        ELSE answer(TRUE, IF check_win(placed, cell, ColorOf(uid)) THEN UidOf(ColorOf(uid)) ELSE 0,
                    placed)

(* handle_chess: what it answers for a stone of uid on `cell', and the     *)
(* board it leaves.  An absent player loses before the cell is looked at.  *)
(* The answer starts as a copy of the request, and a refusal leaves the    *)
(* winner as it was there: `claim', 0 for a request that names none.       *)
handle_chess(uid, cell, claim) ==
    LET placed == [board EXCEPT ![cell] = ColorOf(uid)]
        answer(result, winner, after) == [result |-> result, winner |-> winner, board |-> after]
    IN  IF cell \notin Cells THEN answer(FALSE, claim, board)
        ELSE IF white_id \notin online THEN answer(TRUE, black_id, board)
        ELSE IF black_id \notin online THEN answer(TRUE, white_id, board)
        ELSE IF board[cell] # EMPTY THEN answer(FALSE, claim, board)
        ELSE answer(TRUE, IF check_win(placed, cell, ColorOf(uid)) THEN UidOf(ColorOf(uid)) ELSE 0,
                    placed)

(* A slip in the code: the time used is credited instead of charged. *)
ClocksCredited ==
    LET color == ColorOf(turn_uid)
    IN  IF timing_started THEN [total_left EXCEPT ![color] = @ + elapsed] ELSE FullClocks

(* The first stone that decides nothing starts both clocks; a later one    *)
(* is charged to the clock of the player whose turn it was.                *)
ClocksAfterStone ==
    LET color == ColorOf(turn_uid)
        rest == IF total_left[color] > elapsed THEN total_left[color] - elapsed ELSE 0
    IN  IF timing_started THEN [total_left EXCEPT ![color] = rest] ELSE FullClocks

(* A slip in the code: the turn is not looked at. *)
OutOfTurnNever(uid) == FALSE
OutOfTurn(uid) == timing_started /\ uid # turn_uid

PutChessRefused(uid) ==
    /\ statu = GAME_OVER \/ OutOfTurn(uid)
    /\ Refused

(* A stone that comes too late: the round is lost on time instead. *)
PutChessTooLate(uid) ==
    /\ statu = GAME_START
    /\ timing_started
    /\ ~OutOfTurn(uid)
    /\ Expired(0)
    /\ Settle(Opponent(turn_uid))
    /\ UNCHANGED <<board, timing_started, turn_uid, elapsed, total_left, echoed, presence>>

(* The round is settled for the winner of the answer, refused or not. *)
PutChess(uid, cell, claim) ==
    LET answer == handle_chess(uid, cell, claim) IN
    /\ statu = GAME_START
    /\ ~OutOfTurn(uid)
    /\ timing_started => ~Expired(0)
    /\ \/ ~answer.result /\ answer.winner = 0 /\ Refused
       \/ /\ answer.result
          /\ answer.winner = 0
          /\ board' = answer.board
          /\ timing_started' = TRUE
          /\ total_left' = ClocksAfterStone
          /\ turn_uid' = Opponent(uid)
          /\ elapsed' = 0
          /\ UNCHANGED <<statu, white_id, black_id, initiator, ledger, presence>>
       \/ /\ answer.winner # 0
          /\ board' = answer.board
          /\ Settle(answer.winner)
          /\ echoed' = ~answer.result
          /\ UNCHANGED <<timing_started, turn_uid, elapsed, total_left, presence>>

-----------------------------------------------------------------------------
(* A player's page reports its own clock at zero. *)
TimeoutRefused(uid) ==
    /\ \/ statu = GAME_OVER
       \/ ~timing_started
       \/ uid # turn_uid
       \/ ~Expired(TIMEOUT_TOLERANCE_MS)
    /\ Refused

TimeoutSettled(uid) ==
    /\ statu = GAME_START
    /\ timing_started
    /\ uid = turn_uid
    /\ Expired(TIMEOUT_TOLERANCE_MS)
    /\ Settle(Opponent(turn_uid))
    /\ UNCHANGED <<board, timing_started, turn_uid, elapsed, total_left, echoed, presence>>

-----------------------------------------------------------------------------
(* A slip in the code: an invitation is taken while the round is played. *)
InviteAnyTime == initiator = 0 /\ both_players_online
(* The rematch handshake. *)
InviteAllowed == statu = GAME_OVER /\ initiator = 0 /\ both_players_online

RematchInvite(uid) ==
    \/ ~InviteAllowed /\ Refused
    \/ /\ InviteAllowed
       /\ initiator' = uid
       /\ UNCHANGED <<statu, white_id, black_id, board, timing_started, turn_uid,
                      elapsed, total_left, ledger, presence>>

AcceptAllowed(uid) ==
    /\ statu = GAME_OVER
    /\ initiator \notin {0, uid}
    /\ both_players_online

RematchRefused(uid) == ~AcceptAllowed(uid) /\ Refused

(* start_rematch *)
RematchStart(uid) ==
    /\ AcceptAllowed(uid)
    /\ rounds < MaxRounds
    /\ white_id' = black_id
    /\ black_id' = white_id
    /\ board' = EmptyBoard
    /\ statu' = GAME_START
    /\ timing_started' = FALSE
    /\ turn_uid' = black_id'
    /\ elapsed' = 0
    /\ total_left' = FullClocks
    /\ initiator' = 0
    /\ rounds' = rounds + 1
    /\ echoed' = FALSE
    /\ UNCHANGED <<won, lost, presence>>

(* Chat, with or without a filtered word, an unknown optype, or a request  *)
(* meant for another room: an answer and nothing else.                     *)
Talk == Refused

Aims == Cells \cup {<<BOARD_ROW, 0>>}
Claims == Winners \cup {0}

handle_request(uid) ==
    /\ conns[uid] > 0
    /\ \/ PutChessRefused(uid)
       \/ PutChessTooLate(uid)
       \/ \E cell \in Aims, claim \in Claims : PutChess(uid, cell, claim)
       \/ TimeoutRefused(uid)
       \/ TimeoutSettled(uid)
       \/ RematchInvite(uid)
       \/ RematchRefused(uid)
       \/ RematchStart(uid)
       \/ Talk

-----------------------------------------------------------------------------
(* wsopen_game_room.  A player who is in the room already is refused by a  *)
(* message, and so is one without a session; the connection stays open.    *)
wsopen_game_room(uid) ==
    /\ conns[uid] + closing[uid] < MaxConns
    /\ conns' = [conns EXCEPT ![uid] = @ + 1]
    /\ \/ online' = online \cup {uid}
       \/ SessionCanExpire /\ UNCHANGED online
    /\ UNCHANGED <<game, ledger, player_count, closing>>

(* A connection leaves the open state: in_game_room looks at that state,   *)
(* so the player is out of the room before the close handler runs.  A      *)
(* connection that was refused can go while the entered one stays.         *)
Drop(uid) ==
    /\ conns[uid] > 0
    /\ conns' = [conns EXCEPT ![uid] = @ - 1]
    /\ closing' = [closing EXCEPT ![uid] = @ + 1]
    /\ \/ online' = online \ {uid}
       \/ uid \in online /\ conns[uid] > 1 /\ UNCHANGED online
    /\ UNCHANGED <<game, ledger, player_count>>

(* A slip in the code: the player is counted out and the round goes on. *)
wsclose_without_forfeit(uid) ==
    /\ closing[uid] > 0
    /\ closing' = [closing EXCEPT ![uid] = @ - 1]
    /\ online' = online \ {uid}
    /\ player_count' = player_count - 1
    /\ UNCHANGED <<game, ledger, conns>>

(* wsclose_game_room of any of the player's connections: exit_game_room,   *)
(* then remove_room_user with handle_exit.  Reaching 0 removes the room.   *)
(* Without a session the handler returns before any of that.               *)
wsclose_game_room(uid) ==
    /\ closing[uid] > 0
    /\ closing' = [closing EXCEPT ![uid] = @ - 1]
    /\ UNCHANGED <<board, timing_started, turn_uid, elapsed, total_left, conns>>
    /\ \/ /\ online' = online \ {uid}
          /\ player_count' = player_count - 1
          /\ \/ statu = GAME_START /\ Settle(Opponent(uid)) /\ UNCHANGED echoed
             \/ /\ statu = GAME_OVER
                /\ UNCHANGED <<statu, white_id, black_id, initiator, ledger>>
       \/ /\ SessionCanExpire
          /\ UNCHANGED <<statu, white_id, black_id, initiator, ledger, online, player_count>>

Next ==
    /\ Registered
    /\ \/ Tick
       \/ \E uid \in Players :
            \/ handle_request(uid)
            \/ wsopen_game_room(uid)
            \/ Drop(uid)
            \/ wsclose_game_room(uid)

Spec == Init /\ [][Next]_vars

-----------------------------------------------------------------------------
(* Every variable holds a value of the C++ member it stands for. *)
TypeOK ==
    /\ statu \in {GAME_START, GAME_OVER}
    /\ white_id \in Players
    /\ black_id \in Players
    /\ board \in Boards
    /\ player_count \in 0 .. 2
    /\ timing_started \in BOOLEAN
    /\ turn_uid \in Players
    /\ elapsed \in 0 .. STEP_INIT_MS
    /\ total_left \in [Colors -> 0 .. TOTAL_INIT_MS]
    /\ initiator \in Players \cup {0}
    /\ online \subseteq Players
    /\ conns \in [Players -> 0 .. MaxConns]
    /\ closing \in [Players -> 0 .. MaxConns]
    /\ \A uid \in Players : conns[uid] + closing[uid] <= MaxConns
    /\ won \in [Winners -> Nat]
    /\ lost \in [Players -> Nat]
    /\ rounds \in 1 .. MaxRounds
    /\ echoed \in BOOLEAN

(* Every round started in the room has been settled exactly once, except   *)
(* the round still being played: put_chess on four paths, timeout, and     *)
(* handle_exit of either player all settle.  One uid has won it, and the   *)
(* other player has lost it if the winner is a player.  That nobody else   *)
(* wins rests on the requests (a refused one may name a Stranger).         *)
SettledOnce ==
    /\ won[UID1] <= lost[UID2]
    /\ won[UID2] <= lost[UID1]
    /\ won[UID1] + won[UID2] + won[Stranger] = lost[UID1] + lost[UID2]
    /\ lost[UID1] + lost[UID2] + (IF statu = GAME_START THEN 1 ELSE 0) = rounds

(* A round whose clocks run has none of them empty, so handle_request      *)
(* never takes the branch that clamps a total to 0; before the first stone *)
(* the board is empty and black is the player to move.                     *)
ClockedRound ==
    statu = GAME_START =>
        IF timing_started
        THEN \A color \in Colors : total_left[color] > 0
        ELSE board = EmptyBoard /\ turn_uid = black_id

(* As long as sessions last, no clock runs against a player who is gone    *)
(* for good: each of the two is in the room, or the handler that will end  *)
(* the round for him is about to run.                                      *)
AbsentMeansLeaving ==
    statu = GAME_START /\ timing_started /\ ~SessionCanExpire =>
        \A uid \in Players : uid \in online \/ closing[uid] > 0

(* No invitation to a rematch survives into the round it started. *)
InviteConsumed == statu = GAME_START => initiator = 0

(* Stones alternate through refused, late and losing requests: the player  *)
(* to move has as many stones as the other or one less.                    *)
StonesOf(color) == {cell \in Cells : board[cell] = color}
StonesAlternate ==
    statu = GAME_START /\ timing_started =>
        Cardinality(StonesOf(ColorOf(Opponent(turn_uid)))) -
            Cardinality(StonesOf(ColorOf(turn_uid))) \in {0, 1}

(* A round ends with its first row: while it is played, no line of the     *)
(* board holds FIVE stones of one color (handle_chess tests only the lines *)
(* through the stone just placed).                                         *)
NoRowWhilePlaying == statu = GAME_START => \A color \in Colors : ~HasRow(board, color)

(* A player loses a round only while out of the room, by letting the own   *)
(* clock run down to the tolerance, or to a row of the opponent's.  The    *)
(* code makes two exceptions: one of several pages of his is closed while  *)
(* another is open (see ForfeitMeansGone), and a request that is refused   *)
(* names a winner.                                                         *)
LossIsEarned ==
    [][\A uid \in Players : lost'[uid] # lost[uid] =>
          \/ uid \notin online
          \/ timing_started /\ uid = turn_uid /\ Expired(TIMEOUT_TOLERANCE_MS)
          \/ HasRow(board', ColorOf(Opponent(uid)))
          \/ closing'[uid] < closing[uid] /\ conns[uid] > 0
          \/ echoed']_vars

(* Settling, swapping seats and starting over happen as RoundContract      *)
(* allows and in no other way.                                             *)
Contract == INSTANCE RoundContract
    WITH playing <- statu = GAME_START, white <- white_id, black <- black_id
ImplementsContract == Contract!Spec

(* Seen from outside, as module Lobby sees it, the room lives as RoomLife  *)
(* allows: whoever settles a round or leaves, and in whatever order.       *)
life ==
    [rid \in {1} |->
        [white |-> white_id, black |-> black_id, count |-> player_count, statu |-> statu]]
Life == INSTANCE RoomLife WITH Rids <- {1}, Users <- Players
RoomLives == Life!MadeSpec

(* room_manager::remove_room_user says of itself that it destroys a room   *)
(* when no player is left in it.                                           *)
RemovedOnlyWhenEmpty == ~Registered => online = {}

(* handle_exit says it is called when a player drops or leaves: a player   *)
(* whose entered connection is still open has done neither.                *)
ForfeitMeansGone ==
    [][\A uid \in Players :
          lost'[uid] # lost[uid] /\ player_count' < player_count => uid \notin online]_vars
=============================================================================
