----------------------------- MODULE RoomProofs -----------------------------
(***************************************************************************)
(* What module Room guarantees for every board, every clock setting, any   *)
(* number of rounds and any number of connections per player.              *)
(*                                                                         *)
(* SettledOnce alone is not inductive: that a round is settled for two     *)
(* different users needs the seats to stay distinct, that the winner of a  *)
(* stone is never 0 by accident needs the ids to be players, and that      *)
(* clocks never empty needs the tests a stone passes before it is charged. *)
(***************************************************************************)
EXTENDS Room, FiveInRowProofs

SeatsDistinct == white_id # black_id

ConnsOK ==
    /\ conns \in [Players -> 0 .. MaxConns]
    /\ closing \in [Players -> 0 .. MaxConns]
    /\ \A uid \in Players : conns[uid] + closing[uid] <= MaxConns

Inv ==
    /\ TypeOK
    /\ SeatsDistinct
    /\ SettledOnce
    /\ ClockedRound
    /\ InviteConsumed
    /\ AbsentMeansLeaving

(* The parts that need no types of their own. *)
Rest == SettledOnce /\ SeatsDistinct /\ ClockedRound /\ InviteConsumed /\ AbsentMeansLeaving

USE RoomAssumption DEF GAME_START, GAME_OVER

-----------------------------------------------------------------------------
LEMMA OpponentIsOther ==
    ASSUME TypeOK, SeatsDistinct, NEW uid \in Players
    PROVE  /\ Opponent(uid) \in Players
           /\ Opponent(uid) # uid
BY DEF TypeOK, SeatsDistinct, Players, Opponent

LEMMA ColorsNonEmpty ==
    ASSUME NEW uid
    PROVE  ColorOf(uid) \in Colors
BY DEF ColorOf, Colors, CHESS_WHITE, CHESS_BLACK

LEMMA LoserIsPlayer ==
    ASSUME TypeOK, SeatsDistinct, NEW winner \in Winners
    PROVE  /\ Opponent(winner) \in Players
           /\ Opponent(winner) # winner
BY DEF TypeOK, SeatsDistinct, Winners, Players, Opponent

(* Settling a running round writes one win, and one loss of a player who   *)
(* is not the winner.                                                      *)
LEMMA SettleKeepsLedger ==
    ASSUME Inv, statu = GAME_START, NEW winner \in Winners, Settle(winner)
    PROVE  /\ SettledOnce'
           /\ SeatsDistinct'
           /\ statu' = GAME_OVER
           /\ won' \in [Winners -> Nat]
           /\ lost' \in [Players -> Nat]
           /\ {white_id', black_id'} \subseteq Players
           /\ initiator' = initiator
           /\ rounds' = rounds
<1>1. /\ Opponent(winner) \in Players
      /\ Opponent(winner) # winner
  BY LoserIsPlayer DEF Inv
<1>2. /\ won \in [Winners -> Nat]
      /\ lost \in [Players -> Nat]
      /\ rounds \in 1 .. MaxRounds
      /\ Players = {UID1, UID2} /\ Winners = {UID1, UID2, Stranger}
  BY DEF Inv, TypeOK, Players, Winners
<1>3. /\ won' = [won EXCEPT ![winner] = @ + 1]
      /\ lost' = [lost EXCEPT ![Opponent(winner)] = @ + 1]
      /\ statu' = GAME_OVER
      /\ UNCHANGED <<white_id, black_id, initiator, rounds>>
  BY DEF Settle
<1>4. /\ won[UID1] <= lost[UID2] /\ won[UID2] <= lost[UID1]
      /\ won[UID1] + won[UID2] + won[Stranger] = lost[UID1] + lost[UID2]
      /\ lost[UID1] + lost[UID2] + 1 = rounds
  BY DEF Inv, SettledOnce
<1>5. SettledOnce'
  <2>1. CASE winner = UID1
    BY <2>1, <1>1, <1>2, <1>3, <1>4 DEF SettledOnce
  <2>2. CASE winner = UID2
    BY <2>2, <1>1, <1>2, <1>3, <1>4 DEF SettledOnce
  <2>3. CASE winner = Stranger /\ Opponent(winner) = UID1
    BY <2>3, <1>1, <1>2, <1>3, <1>4 DEF SettledOnce
  <2>4. CASE winner = Stranger /\ Opponent(winner) = UID2
    BY <2>4, <1>1, <1>2, <1>3, <1>4 DEF SettledOnce
  <2>5. QED BY <2>1, <2>2, <2>3, <2>4, <1>1, <1>2
<1>6. QED BY <1>1, <1>2, <1>3, <1>5 DEF Inv, TypeOK, SeatsDistinct

(* A round settled without touching the board or the clocks. *)
LEMMA SettleKeepsInv ==
    ASSUME Inv, statu = GAME_START, NEW winner \in Winners, Settle(winner),
           echoed' \in BOOLEAN,
           UNCHANGED <<timing_started, turn_uid, elapsed, total_left>>,
           board' \in Boards,
           player_count' \in 0 .. 2, online' \subseteq Players,
           ConnsOK'
    PROVE  Inv'
<1>1. /\ SettledOnce' /\ SeatsDistinct' /\ statu' = GAME_OVER
      /\ won' \in [Winners -> Nat] /\ lost' \in [Players -> Nat]
      /\ {white_id', black_id'} \subseteq Players
      /\ initiator' = initiator /\ rounds' = rounds
  BY SettleKeepsLedger
<1>2. TypeOK'
  BY <1>1 DEF Inv, TypeOK, ConnsOK
<1>3. ClockedRound' /\ InviteConsumed' /\ AbsentMeansLeaving'
  BY <1>1 DEF ClockedRound, InviteConsumed, AbsentMeansLeaving
<1>4. QED BY <1>1, <1>2, <1>3 DEF Inv

-----------------------------------------------------------------------------
LEMMA InitInv == Init => Inv
<1>1. SUFFICES ASSUME Init PROVE Inv
  OBVIOUS
<1>2. EmptyBoard \in Boards
  BY DEF EmptyBoard, Boards
<1>3. TypeOK
  <2>1. /\ total_left \in [Colors -> 0 .. TOTAL_INIT_MS]
        /\ ConnsOK
        /\ won \in [Winners -> Nat]
        /\ lost \in [Players -> Nat]
    BY <1>1 DEF Init, ConnsOK
  <2>2. /\ {white_id, black_id, turn_uid} \subseteq Players
        /\ initiator \in Players \cup {0}
        /\ online \subseteq Players
    BY <1>1 DEF Init, Players
  <2>3. /\ statu = GAME_START
        /\ board \in Boards
        /\ timing_started \in BOOLEAN
        /\ echoed \in BOOLEAN
    BY <1>1, <1>2, Zenon DEF Init
  <2>4. player_count = 2 /\ elapsed = 0 /\ rounds = 1
    BY <1>1 DEF Init
  <2>5. QED BY <2>1, <2>2, <2>3, <2>4 DEF TypeOK, ConnsOK
<1>4. SettledOnce /\ SeatsDistinct /\ ClockedRound /\ InviteConsumed /\ AbsentMeansLeaving
  BY <1>1 DEF Init, SettledOnce, SeatsDistinct, ClockedRound, InviteConsumed, AbsentMeansLeaving,
              Players, Winners
<1>5. QED BY <1>3, <1>4 DEF Inv

LEMMA TickInv == Inv /\ Tick => Inv'
<1>1. SUFFICES ASSUME Inv, Tick PROVE Inv'
  OBVIOUS
<1>2. TypeOK'
  BY <1>1 DEF Inv, TypeOK, Tick, ledger, presence
<1>3. Rest'
  BY <1>1 DEF Inv, Tick, ledger, presence, SettledOnce, SeatsDistinct, ClockedRound, InviteConsumed,
              AbsentMeansLeaving, Rest
<1>4. QED BY <1>2, <1>3 DEF Inv, Rest

(* A request that is refused changes nothing. *)
LEMMA RefusedInv == Inv /\ Refused => Inv'
BY DEF Inv, Refused, vars, game, ledger, presence, TypeOK, SettledOnce, SeatsDistinct,
       ClockedRound, InviteConsumed, AbsentMeansLeaving

(* A stone that comes too late, or a timeout report in time: the player    *)
(* to move loses and the opponent wins.                                    *)
LEMMA PutChessTooLateInv ==
    ASSUME Inv, NEW uid \in Players, PutChessTooLate(uid)
    PROVE  Inv'
<1>1. Opponent(turn_uid) \in Winners
  BY OpponentIsOther DEF Inv, TypeOK, Winners
<1>2. QED BY <1>1, SettleKeepsInv DEF PutChessTooLate, presence, Inv, TypeOK, ConnsOK

LEMMA TimeoutSettledInv ==
    ASSUME Inv, NEW uid \in Players, TimeoutSettled(uid)
    PROVE  Inv'
<1>1. Opponent(turn_uid) \in Winners
  BY OpponentIsOther DEF Inv, TypeOK, Winners
<1>2. QED BY <1>1, SettleKeepsInv DEF TimeoutSettled, presence, Inv, TypeOK, ConnsOK

(* What handle_chess may answer: a board again, a winner, who is a player  *)
(* unless the stone is refused, or 0, and no undecided stone unless both   *)
(* players are in the room.                                                *)
LEMMA HandleChessAnswers ==
    ASSUME Inv, NEW uid \in Players, NEW cell, NEW claim \in Claims
    PROVE  LET answer == handle_chess(uid, cell, claim) IN
           /\ answer.board \in Boards
           /\ answer.result \in BOOLEAN
           /\ answer.winner \in Claims
           /\ answer.result => answer.winner \in Players \cup {0}
           /\ answer.result /\ answer.winner = 0 => both_players_online
<1> DEFINE placed == [board EXCEPT ![cell] = ColorOf(uid)]
           won_by == IF check_win(placed, cell, ColorOf(uid)) THEN UidOf(ColorOf(uid)) ELSE 0
<1>1. /\ board \in Boards
      /\ {white_id, black_id} \subseteq Players
      /\ 0 \notin Players
  BY DEF Inv, TypeOK, Players
<1>2. cell \in Cells => placed \in Boards
  BY <1>1, ColorsNonEmpty DEF Boards
<1>3. won_by \in Players \cup {0}
  BY <1>1 DEF UidOf
<1> HIDE DEF placed, won_by
<1>4. handle_chess(uid, cell, claim) =
        IF cell \notin Cells THEN [result |-> FALSE, winner |-> claim, board |-> board]
        ELSE IF white_id \notin online THEN [result |-> TRUE, winner |-> black_id, board |-> board]
        ELSE IF black_id \notin online THEN [result |-> TRUE, winner |-> white_id, board |-> board]
        ELSE IF board[cell] # EMPTY THEN [result |-> FALSE, winner |-> claim, board |-> board]
        ELSE [result |-> TRUE, winner |-> won_by, board |-> placed]
  BY Zenon DEF handle_chess, placed, won_by
<1>5. QED BY <1>1, <1>2, <1>3, <1>4 DEF both_players_online, Claims, Winners

(* The clocks after a stone that was in time are all above zero. *)
LEMMA ClocksStayPositive ==
    ASSUME Inv, statu = GAME_START, timing_started => ~Expired(0)
    PROVE  /\ ClocksAfterStone \in [Colors -> 0 .. TOTAL_INIT_MS]
           /\ \A color \in Colors : ClocksAfterStone[color] > 0
<1> DEFINE color == ColorOf(turn_uid)
           rest == total_left[color] - elapsed
<1>1. /\ color \in Colors
      /\ total_left \in [Colors -> 0 .. TOTAL_INIT_MS]
      /\ elapsed \in Nat
  BY ColorsNonEmpty DEF Inv, TypeOK
<1>2. CASE ~timing_started
  <2>1. ClocksAfterStone = FullClocks
    BY <1>2 DEF ClocksAfterStone
  <2>2. QED BY <2>1 DEF FullClocks
<1>3. CASE timing_started
  <2>1. total_left[color] > elapsed
    BY <1>1, <1>3 DEF Expired, TotalExpired
  <2>2. rest \in 1 .. TOTAL_INIT_MS
    BY <1>1, <2>1
  <2>3. ClocksAfterStone = [total_left EXCEPT ![color] = rest]
    BY <1>3, <2>1 DEF ClocksAfterStone
  <2>4. \A c \in Colors : total_left[c] > 0
    BY <1>3 DEF Inv, ClockedRound
  <2> HIDE DEF color, rest
  <2>5. QED BY <1>1, <2>2, <2>3, <2>4
<1>4. QED BY <1>2, <1>3 DEF Inv, TypeOK

LEMMA PutChessInv ==
    ASSUME Inv, NEW uid \in Players, NEW cell, NEW claim \in Claims, PutChess(uid, cell, claim)
    PROVE  Inv'
<1> DEFINE answer == handle_chess(uid, cell, claim)
<1>1. /\ answer.board \in Boards
      /\ answer.result \in BOOLEAN
      /\ answer.winner \in Claims
      /\ answer.result /\ answer.winner = 0 => both_players_online
  BY HandleChessAnswers
<1>2. /\ statu = GAME_START
      /\ timing_started => ~Expired(0)
  BY DEF PutChess
<1> HIDE DEF answer
<1>3. CASE Refused
  BY <1>3, RefusedInv
<1>4. CASE /\ answer.result
           /\ answer.winner = 0
           /\ board' = answer.board
           /\ timing_started' = TRUE
           /\ total_left' = ClocksAfterStone
           /\ turn_uid' = Opponent(uid)
           /\ elapsed' = 0
           /\ UNCHANGED <<statu, white_id, black_id, initiator, ledger, presence>>
  <2>1. /\ total_left' \in [Colors -> 0 .. TOTAL_INIT_MS]
        /\ \A color \in Colors : total_left'[color] > 0
    BY <1>2, <1>4, ClocksStayPositive
  <2>2. turn_uid' \in Players
    BY <1>4, OpponentIsOther DEF Inv
  <2>3. board' \in Boards
    BY <1>1, <1>4
  <2>4. timing_started' => \A uid1 \in Players : uid1 \in online'
    <3>1. both_players_online /\ online' = online
      BY <1>1, <1>4 DEF presence
    <3>2. /\ white_id \in Players /\ black_id \in Players
          /\ white_id # black_id
      BY DEF Inv, TypeOK, SeatsDistinct
    <3>3. UID1 \in online /\ UID2 \in online
      BY <3>1, <3>2 DEF both_players_online, Players
    <3>4. QED BY <3>1, <3>3 DEF Players
  <2>5. TypeOK'
    BY <1>4, <2>1, <2>2, <2>3 DEF Inv, TypeOK, ledger, presence
  <2>6. SettledOnce' /\ SeatsDistinct' /\ InviteConsumed'
    BY <1>4 DEF Inv, SettledOnce, SeatsDistinct, InviteConsumed, ledger
  <2>7. ClockedRound' /\ AbsentMeansLeaving'
    BY <1>4, <2>1, <2>4 DEF ClockedRound, AbsentMeansLeaving
  <2>8. QED BY <2>5, <2>6, <2>7 DEF Inv
<1>5. CASE /\ answer.winner # 0
           /\ board' = answer.board
           /\ Settle(answer.winner)
           /\ echoed' = ~answer.result
           /\ UNCHANGED <<timing_started, turn_uid, elapsed, total_left, presence>>
  <2>1. answer.winner \in Winners /\ board' \in Boards /\ echoed' \in BOOLEAN
    BY <1>1, <1>5 DEF Claims
  <2>2. QED BY <1>2, <1>5, <2>1, SettleKeepsInv DEF presence, Inv, TypeOK, ConnsOK
<1>6. QED BY <1>3, <1>4, <1>5 DEF PutChess, answer

LEMMA RematchInviteInv ==
    ASSUME Inv, NEW uid \in Players, RematchInvite(uid)
    PROVE  Inv'
<1>1. CASE Refused
  BY <1>1, RefusedInv
<1>2. CASE /\ InviteAllowed
           /\ initiator' = uid
           /\ UNCHANGED <<statu, white_id, black_id, board, timing_started, turn_uid,
                          elapsed, total_left, ledger, presence>>
  <2>1. TypeOK'
    BY <1>2 DEF Inv, TypeOK, ledger, presence
  <2>2. Rest'
    BY <1>2 DEF InviteAllowed, Inv, SettledOnce, SeatsDistinct, ClockedRound, InviteConsumed, Rest, AbsentMeansLeaving,
                ledger, presence
  <2>3. QED BY <2>1, <2>2 DEF Inv, Rest
<1>3. QED BY <1>1, <1>2 DEF RematchInvite

LEMMA RematchStartInv ==
    ASSUME Inv, NEW uid \in Players, RematchStart(uid)
    PROVE  Inv'
<1>1. EmptyBoard \in Boards /\ FullClocks \in [Colors -> 0 .. TOTAL_INIT_MS]
  BY DEF EmptyBoard, Boards, FullClocks
<1>2. TypeOK'
  <2>1. rounds' \in 1 .. MaxRounds
    BY DEF RematchStart, Inv, TypeOK
  <2>2. /\ statu' = GAME_START
        /\ white_id' = black_id /\ black_id' = white_id /\ turn_uid' = white_id
        /\ board' \in Boards
        /\ elapsed' = 0 /\ initiator' = 0
        /\ total_left' \in [Colors -> 0 .. TOTAL_INIT_MS]
        /\ echoed' = FALSE
        /\ UNCHANGED <<won, lost, player_count, online, conns, closing>>
    BY <1>1 DEF RematchStart, presence
  <2>3. /\ {white_id', black_id', turn_uid'} \subseteq Players
        /\ player_count' \in 0 .. 2 /\ online' \subseteq Players
        /\ ConnsOK'
        /\ won' \in [Winners -> Nat] /\ lost' \in [Players -> Nat]
    BY <2>2 DEF Inv, TypeOK, ConnsOK
  <2>4. timing_started' \in BOOLEAN /\ echoed' \in BOOLEAN
    BY DEF RematchStart
  <2>5. QED BY <2>1, <2>2, <2>3, <2>4 DEF TypeOK, ConnsOK
<1>3. SettledOnce'
  <2>1. /\ lost[UID1] \in Nat /\ lost[UID2] \in Nat
        /\ statu = GAME_OVER
        /\ UNCHANGED <<won, lost>>
        /\ statu' = GAME_START /\ rounds' = rounds + 1 /\ rounds \in Nat
    BY DEF RematchStart, AcceptAllowed, Inv, TypeOK, Players
  <2>2. QED BY <2>1 DEF Inv, SettledOnce
<1>4. SeatsDistinct' /\ InviteConsumed' /\ ClockedRound' /\ AbsentMeansLeaving'
  BY DEF RematchStart, Inv, SeatsDistinct, InviteConsumed, ClockedRound, AbsentMeansLeaving
<1>5. QED BY <1>2, <1>3, <1>4 DEF Inv

LEMMA OpenInv ==
    ASSUME Inv, NEW uid \in Players, wsopen_game_room(uid)
    PROVE  Inv'
<1>1. ConnsOK' /\ online \subseteq online' /\ online' \subseteq Players
  BY DEF wsopen_game_room, Inv, TypeOK, ConnsOK
<1>2. UNCHANGED <<game, ledger, player_count, closing>>
  BY DEF wsopen_game_room
<1>3. TypeOK'
  BY <1>1, <1>2 DEF Inv, TypeOK, ConnsOK, game, ledger
<1>4. Rest'
  BY <1>1, <1>2 DEF Inv, Rest, SettledOnce, SeatsDistinct, ClockedRound, InviteConsumed,
                    AbsentMeansLeaving, game, ledger
<1>5. QED BY <1>3, <1>4 DEF Inv, Rest

LEMMA DropInv ==
    ASSUME Inv, NEW uid \in Players, Drop(uid)
    PROVE  Inv'
<1>1. ConnsOK' /\ online' \subseteq Players
  BY DEF Drop, Inv, TypeOK, ConnsOK
<1>2. \A other \in Players :
          other \in online \/ closing[other] > 0 => other \in online' \/ closing'[other] > 0
  BY DEF Drop, Inv, TypeOK
<1>3. UNCHANGED <<game, ledger, player_count>>
  BY DEF Drop
<1>4. TypeOK'
  BY <1>1, <1>3 DEF Inv, TypeOK, ConnsOK, game, ledger
<1>5. Rest'
  BY <1>2, <1>3 DEF Inv, Rest, SettledOnce, SeatsDistinct, ClockedRound, InviteConsumed,
                    AbsentMeansLeaving, game, ledger
<1>6. QED BY <1>4, <1>5 DEF Inv, Rest

LEMMA CloseInv ==
    ASSUME Inv, Registered, NEW uid \in Players, wsclose_game_room(uid)
    PROVE  Inv'
<1>1. /\ ConnsOK'
      /\ online' \subseteq Players
      /\ player_count' \in 0 .. 2
      /\ board' \in Boards
  BY DEF wsclose_game_room, Registered, Inv, TypeOK, ConnsOK
<1>2. UNCHANGED <<board, timing_started, turn_uid, elapsed, total_left>>
  BY DEF wsclose_game_room
<1>3. CASE statu = GAME_START /\ Settle(Opponent(uid)) /\ UNCHANGED echoed
  <2>1. Opponent(uid) \in Winners
    BY OpponentIsOther DEF Inv, Winners
  <2>2. QED BY <1>1, <1>2, <1>3, <2>1, SettleKeepsInv DEF Inv, TypeOK
<1>4. CASE /\ statu = GAME_OVER \/ SessionCanExpire
           /\ UNCHANGED <<statu, white_id, black_id, initiator, ledger>>
  <2>1. TypeOK'
    BY <1>1, <1>2, <1>4 DEF Inv, TypeOK, ConnsOK, ledger
  <2>2. Rest'
    BY <1>2, <1>4 DEF Inv, Rest, SettledOnce, SeatsDistinct, ClockedRound, InviteConsumed,
                      AbsentMeansLeaving, ledger
  <2>3. QED BY <2>1, <2>2 DEF Inv, Rest
<1>5. QED BY <1>3, <1>4 DEF wsclose_game_room

-----------------------------------------------------------------------------
LEMMA StepInv == Inv /\ [Next]_vars => Inv'
<1>1. SUFFICES ASSUME Inv, [Next]_vars PROVE Inv'
  OBVIOUS
<1>2. CASE UNCHANGED vars
  BY <1>1, <1>2, RefusedInv DEF Refused
<1>3. CASE Tick
  BY <1>1, <1>3, TickInv
<1>4. ASSUME NEW uid \in Players, handle_request(uid) PROVE Inv'
  <2>1. CASE PutChessTooLate(uid)
    BY <1>1, <2>1, PutChessTooLateInv
  <2>2. ASSUME NEW cell, NEW claim \in Claims, PutChess(uid, cell, claim) PROVE Inv'
    BY <1>1, <2>2, PutChessInv
  <2>3. CASE TimeoutSettled(uid)
    BY <1>1, <2>3, TimeoutSettledInv
  <2>4. CASE RematchInvite(uid)
    BY <1>1, <2>4, RematchInviteInv
  <2>5. CASE RematchStart(uid)
    BY <1>1, <2>5, RematchStartInv
  <2>6. CASE Refused
    BY <1>1, <2>6, RefusedInv
  <2>7. QED
    BY <1>4, <2>1, <2>2, <2>3, <2>4, <2>5, <2>6
       DEF handle_request, PutChessRefused, TimeoutRefused, RematchRefused, Talk
<1>5. ASSUME NEW uid \in Players, wsopen_game_room(uid) PROVE Inv'
  BY <1>1, <1>5, OpenInv
<1>6. ASSUME NEW uid \in Players, Drop(uid) PROVE Inv'
  BY <1>1, <1>6, DropInv
<1>7. ASSUME NEW uid \in Players, Registered, wsclose_game_room(uid) PROVE Inv'
  BY <1>1, <1>7, CloseInv
<1>8. QED BY <1>1, <1>2, <1>3, <1>4, <1>5, <1>6, <1>7 DEF Next

(* The inductive invariant holds in every state the room can reach. *)
THEOREM Invariant == Spec => []Inv
<1>1. QED BY InitInv, StepInv, PTL DEF Spec

(* Every member keeps a value of its type. *)
THEOREM TypeCorrect == Spec => []TypeOK
<1>1. Inv => TypeOK
  BY DEF Inv
<1>2. QED BY <1>1, Invariant, PTL

(* Whatever the order of stones, timeouts, exits and rematches, and        *)
(* whichever winner a request names, every round the room started is       *)
(* settled once: one uid wins it and a player who is another one loses.    *)
THEOREM RoundsSettledOnce == Spec => []SettledOnce
<1>1. Inv => SettledOnce
  BY DEF Inv
<1>2. QED BY <1>1, Invariant, PTL

(* While the clocks of a round run, both are above zero; before they run,  *)
(* the board is empty and black is to move.                                *)
THEOREM ClockedRoundHolds == Spec => []ClockedRound
<1>1. Inv => ClockedRound
  BY DEF Inv
<1>2. QED BY <1>1, Invariant, PTL

(* As long as sessions last, a player missing from a clocked round has a   *)
(* close handler on its way that will end the round.                       *)
THEOREM AbsentPlayersLeave == Spec => []AbsentMeansLeaving
<1>1. Inv => AbsentMeansLeaving
  BY DEF Inv
<1>2. QED BY <1>1, Invariant, PTL

(* A rematch starts with no invitation pending. *)
THEOREM InvitationsConsumed == Spec => []InviteConsumed
<1>1. Inv => InviteConsumed
  BY DEF Inv
<1>2. QED BY <1>1, Invariant, PTL

-----------------------------------------------------------------------------
(* Refinement of RoundContract. *)
LEMMA InitRefines == Init => Contract!Init
BY DEF Init, Contract!Init, Contract!Players, Players, Winners

(* The step that ends a round is the contract's Settle. *)
LEMMA SettleRefines ==
    ASSUME statu = GAME_START, NEW winner \in Winners, Settle(winner)
    PROVE  Contract!Next
<1>1. Contract!Settle(winner)
  BY DEF Settle, Contract!Settle, Opponent, Contract!Opponent
<1>2. QED BY <1>1 DEF Contract!Next, Contract!Players, Players, Winners

LEMMA RematchRefines ==
    ASSUME NEW uid \in Players, RematchStart(uid)
    PROVE  Contract!Next
BY DEF RematchStart, AcceptAllowed, Contract!Rematch, Contract!Next

LEMMA StepRefines == Inv /\ [Next]_vars => [Contract!Next]_(Contract!vars)
<1>1. SUFFICES ASSUME Inv, [Next]_vars PROVE [Contract!Next]_(Contract!vars)
  OBVIOUS
<1> DEFINE Same == UNCHANGED <<statu, white_id, black_id, won, lost>>
<1>2. ASSUME Same PROVE UNCHANGED Contract!vars
  BY <1>2 DEF Contract!vars
<1>3. \A uid \in Players : Opponent(uid) \in Winners
  BY <1>1, OpponentIsOther DEF Inv, Winners
<1>4. turn_uid \in Players
  BY <1>1 DEF Inv, TypeOK
<1>5. CASE Tick \/ Refused
  <2>1. Same
    BY <1>5 DEF Tick, Refused, vars, game, ledger
  <2>2. QED BY <1>2, <2>1
<1>6. ASSUME NEW uid \in Players, PutChessTooLate(uid) \/ TimeoutSettled(uid)
      PROVE  Contract!Next
  <2>1. statu = GAME_START /\ Settle(Opponent(turn_uid))
    BY <1>6 DEF PutChessTooLate, TimeoutSettled
  <2>2. QED BY <1>3, <1>4, <2>1, SettleRefines
<1>7. ASSUME NEW uid \in Players, NEW cell, NEW claim \in Claims, PutChess(uid, cell, claim)
      PROVE  Same \/ Contract!Next
  <2> DEFINE answer == handle_chess(uid, cell, claim)
  <2>1. answer.winner \in Winners \cup {0}
    BY <1>1, HandleChessAnswers DEF Claims
  <2>2. statu = GAME_START
    BY <1>7 DEF PutChess
  <2> HIDE DEF answer
  <2>3. CASE Refused
    BY <2>3 DEF Refused, vars, game, ledger
  <2>4. CASE UNCHANGED <<statu, white_id, black_id, initiator, ledger, presence>>
    BY <2>4 DEF ledger
  <2>5. CASE answer.winner # 0 /\ Settle(answer.winner)
    BY <2>1, <2>2, <2>5, SettleRefines
  <2>6. QED BY <1>7, <2>3, <2>4, <2>5 DEF PutChess, answer
<1>8. ASSUME NEW uid \in Players, RematchInvite(uid) PROVE Same
  BY <1>8 DEF RematchInvite, Refused, vars, game, ledger
<1>9. ASSUME NEW uid \in Players, RematchStart(uid) PROVE Contract!Next
  BY <1>9, RematchRefines
<1>10. ASSUME NEW uid \in Players, wsopen_game_room(uid) \/ Drop(uid) PROVE Same
  BY <1>10 DEF wsopen_game_room, Drop, game, ledger
<1>11. ASSUME NEW uid \in Players, wsclose_game_room(uid) PROVE Same \/ Contract!Next
  <2>1. CASE statu = GAME_START /\ Settle(Opponent(uid))
    BY <1>3, <2>1, SettleRefines
  <2>2. CASE UNCHANGED <<statu, white_id, black_id, initiator, ledger>>
    BY <2>2 DEF ledger
  <2>3. QED BY <1>11, <2>1, <2>2 DEF wsclose_game_room
<1> HIDE DEF Same
<1>12. ASSUME NEW uid \in Players, handle_request(uid)
       PROVE  Refused \/ Same \/ Contract!Next
  BY <1>12, <1>6, <1>7, <1>8, <1>9
     DEF handle_request, PutChessRefused, TimeoutRefused, RematchRefused, Talk
<1>13. CASE UNCHANGED vars
  BY <1>5, <1>13 DEF Refused
<1>14. QED BY <1>1, <1>2, <1>5, <1>10, <1>11, <1>12, <1>13 DEF Next

(* A room with its board, clocks and connections behaves towards the user  *)
(* table and the seats exactly as RoundContract allows.                    *)
THEOREM RoomImplementsContract == Spec => ImplementsContract
<1>1. Inv /\ Inv' /\ [Next]_vars => [Contract!Next]_(Contract!vars)
  BY StepRefines
<1>2. QED BY <1>1, InitRefines, Invariant, PTL DEF Spec, ImplementsContract, Contract!Spec

-----------------------------------------------------------------------------
(* Refinement of RoomLife.  A step of the room that changes what is seen   *)
(* of it from outside is a step of its life.                               *)
LEMMA InitLives == Init => Life!MadeInit
<1>1. SUFFICES ASSUME Init PROVE life \in [{1} -> Life!NewRooms]
  BY DEF Life!MadeInit
<1>2. life[1] = Life!RoomWith(UID1, UID2, 2, GAME_START)
  BY <1>1 DEF Init, life, Life!RoomWith
<1>3. life[1] \in Life!NewRooms
  BY <1>2 DEF Life!NewRooms, Life!GAME_START, Players
<1>4. QED BY <1>3 DEF life

LEMMA LifeStep ==
    ASSUME Life!LivesOn(life[1], life'[1])
    PROVE  [Life!Next]_life
<1>1. life' = [life EXCEPT ![1] = life'[1]]
  BY DEF life
<1>2. QED BY <1>1 DEF Life!Next

LEMMA SettledLives ==
    ASSUME Inv, Registered, statu = GAME_START, NEW winner, Settle(winner), UNCHANGED player_count
    PROVE  [Life!Next]_life
<1>1. Life!RoundEnds(life[1], life'[1])
  BY DEF Settle, life, Life!RoundEnds, Life!RoomWith, Life!GAME_START, Life!GAME_OVER, Registered
<1>2. QED BY <1>1, LifeStep DEF Life!LivesOn

LEMMA RematchLives ==
    ASSUME Inv, Registered, NEW uid \in Players, RematchStart(uid)
    PROVE  [Life!Next]_life
<1>1. /\ statu = GAME_OVER /\ statu' = GAME_START /\ player_count > 0
      /\ white_id' = black_id /\ black_id' = white_id /\ white_id # black_id
      /\ player_count' = player_count
  BY DEF RematchStart, AcceptAllowed, presence, Registered, Inv, SeatsDistinct
<1>2. Life!Rematch(life[1], life'[1])
  BY <1>1 DEF life, Life!Rematch, Life!RoomWith, Life!GAME_START, Life!GAME_OVER
<1>3. QED BY <1>2, LifeStep DEF Life!LivesOn

LEMMA ExitLives ==
    ASSUME Inv, Registered, NEW uid \in Players, wsclose_game_room(uid)
    PROVE  [Life!Next]_life
<1>1. CASE /\ player_count' = player_count - 1 /\ statu' = GAME_OVER
           /\ UNCHANGED <<white_id, black_id>>
  <2>1. Life!handle_exit(life[1], life'[1])
    BY <1>1 DEF life, Life!handle_exit, Life!RoomWith, Life!GAME_START, Life!GAME_OVER,
                Registered, Inv, TypeOK
  <2>2. QED BY <2>1, LifeStep DEF Life!LivesOn
<1>2. CASE UNCHANGED <<statu, white_id, black_id, player_count>>
  BY <1>2 DEF life
<1>3. QED BY <1>1, <1>2 DEF wsclose_game_room, Settle

LEMMA StepLives == Inv /\ [Next]_vars => [Life!Next]_life
<1>1. SUFFICES ASSUME Inv, [Next]_vars PROVE [Life!Next]_life
  OBVIOUS
<1>2. ASSUME UNCHANGED <<statu, white_id, black_id, player_count>> PROVE UNCHANGED life
  BY <1>2 DEF life
<1>3. CASE Tick \/ UNCHANGED vars
  BY <1>2, <1>3 DEF Tick, vars, game, presence
<1>4. ASSUME Registered, NEW uid \in Players, PutChessTooLate(uid) \/ TimeoutSettled(uid)
      PROVE  [Life!Next]_life
  BY <1>1, <1>4, SettledLives DEF PutChessTooLate, TimeoutSettled, presence
<1>5. ASSUME Registered, NEW uid \in Players, NEW cell, NEW claim, PutChess(uid, cell, claim)
      PROVE  [Life!Next]_life
  <2>1. statu = GAME_START
    BY <1>5 DEF PutChess
  <2>2. CASE UNCHANGED <<statu, white_id, black_id, initiator, ledger, presence>> \/ Refused
    BY <1>2, <2>2 DEF Refused, vars, game, presence
  <2>3. CASE UNCHANGED presence /\ \E winner : Settle(winner)
    BY <1>1, <1>5, <2>1, <2>3, SettledLives DEF presence
  <2>4. QED BY <1>5, <2>2, <2>3 DEF PutChess
<1>6. ASSUME Registered, NEW uid \in Players, RematchInvite(uid) \/ wsopen_game_room(uid) \/ Drop(uid)
      PROVE  UNCHANGED life
  BY <1>2, <1>6 DEF RematchInvite, Refused, wsopen_game_room, Drop, vars, game, presence
<1>7. ASSUME Registered, NEW uid \in Players, handle_request(uid)
      PROVE  [Life!Next]_life
  <2>1. CASE Refused
    BY <1>3, <2>1 DEF Refused
  <2>2. QED
    BY <1>1, <1>4, <1>5, <1>6, <1>7, <2>1, RematchLives
       DEF handle_request, PutChessRefused, TimeoutRefused, RematchRefused, Talk
<1>8. QED BY <1>1, <1>3, <1>6, <1>7, ExitLives DEF Next

(* Whatever happens in it, a room seen from outside lives as RoomLife      *)
(* allows, as the rooms of module Lobby do.                                *)
THEOREM RoomLivesAsSeen == Spec => RoomLives
<1>1. Inv /\ Inv' /\ [Next]_vars => [Life!Next]_life
  BY StepLives
<1>2. QED BY <1>1, InitLives, Invariant, PTL DEF Spec, RoomLives, Life!MadeSpec

-----------------------------------------------------------------------------
(* The number of stones.  Only an undecided stone changes the board of a   *)
(* round that goes on, and it passes the turn to the other player.         *)
LEMMA StonesFinite ==
    ASSUME NEW color
    PROVE  IsFiniteSet(StonesOf(color))
<1>1. IsFiniteSet(0 .. BOARD_ROW - 1) /\ IsFiniteSet(0 .. BOARD_COL - 1)
  <2>1. /\ 0 \in Int
        /\ BOARD_ROW - 1 \in Int
        /\ BOARD_COL - 1 \in Int
    BY BoardAssumption
  <2>2. QED BY <2>1, FS_Interval
<1>2. IsFiniteSet(Cells)
  BY <1>1, FS_Product DEF Cells
<1>3. StonesOf(color) \in SUBSET Cells
  BY DEF StonesOf
<1>4. QED BY <1>2, <1>3, FS_Subset

LEMMA OtherColor ==
    ASSUME TypeOK, SeatsDistinct, NEW uid \in Players
    PROVE  /\ ColorOf(Opponent(uid)) # ColorOf(uid)
           /\ ColorOf(uid) # EMPTY
           /\ Opponent(Opponent(uid)) = uid
BY DEF TypeOK, SeatsDistinct, Players, ColorOf, Opponent, CHESS_WHITE, CHESS_BLACK, EMPTY

(* A board with one stone more. *)
LEMMA StonePlaced ==
    ASSUME board \in Boards, NEW cell \in Cells, board[cell] = EMPTY,
           NEW color \in Colors, board' = [board EXCEPT ![cell] = color]
    PROVE  /\ Cardinality(StonesOf(color)') = Cardinality(StonesOf(color)) + 1
           /\ \A other \in Colors \ {color} : StonesOf(other)' = StonesOf(other)
<1>1. \A c \in Cells : board'[c] = IF c = cell THEN color ELSE board[c]
  BY DEF Boards
<1>2. EMPTY \notin Colors
  BY DEF EMPTY, Colors, CHESS_WHITE, CHESS_BLACK
<1>3. StonesOf(color)' = StonesOf(color) \cup {cell} /\ cell \notin StonesOf(color)
  BY <1>1, <1>2 DEF StonesOf
<1>4. Cardinality(StonesOf(color) \cup {cell}) = Cardinality(StonesOf(color)) + 1
  BY <1>3, StonesFinite, FS_AddElement
<1>5. ASSUME NEW other \in Colors \ {color} PROVE StonesOf(other)' = StonesOf(other)
  BY <1>1, <1>2 DEF StonesOf
<1>6. QED BY <1>3, <1>4, <1>5

(* What an undecided stone is: both players are in, the cell was empty. *)
LEMMA UndecidedStone ==
    ASSUME Inv, NEW uid \in Players, NEW cell, NEW claim,
           handle_chess(uid, cell, claim).result, handle_chess(uid, cell, claim).winner = 0
    PROVE  /\ cell \in Cells
           /\ board[cell] = EMPTY
           /\ handle_chess(uid, cell, claim).board = [board EXCEPT ![cell] = ColorOf(uid)]
<1> DEFINE placed == [board EXCEPT ![cell] = ColorOf(uid)]
           won_by == IF check_win(placed, cell, ColorOf(uid)) THEN UidOf(ColorOf(uid)) ELSE 0
<1>1. white_id # 0 /\ black_id # 0
  BY DEF Inv, TypeOK, Players
<1> HIDE DEF placed, won_by
<1>2. handle_chess(uid, cell, claim) =
        IF cell \notin Cells THEN [result |-> FALSE, winner |-> claim, board |-> board]
        ELSE IF white_id \notin online THEN [result |-> TRUE, winner |-> black_id, board |-> board]
        ELSE IF black_id \notin online THEN [result |-> TRUE, winner |-> white_id, board |-> board]
        ELSE IF board[cell] # EMPTY THEN [result |-> FALSE, winner |-> claim, board |-> board]
        ELSE [result |-> TRUE, winner |-> won_by, board |-> placed]
  BY Zenon DEF handle_chess, placed, won_by
<1>3. /\ cell \in Cells /\ board[cell] = EMPTY
      /\ handle_chess(uid, cell, claim).board = placed
  BY <1>1, <1>2
<1>4. QED BY <1>3 DEF placed

LEMMA StoneAlternates ==
    ASSUME Inv, StonesAlternate, NEW uid \in Players, NEW cell \in Cells,
           statu = GAME_START, ~OutOfTurn(uid), board[cell] = EMPTY,
           board' = [board EXCEPT ![cell] = ColorOf(uid)],
           turn_uid' = Opponent(uid),
           UNCHANGED <<white_id, black_id>>
    PROVE  StonesAlternate'
<1> DEFINE mine == Cardinality(StonesOf(ColorOf(uid)))
           theirs == Cardinality(StonesOf(ColorOf(Opponent(uid))))
<1>1. /\ Opponent(uid) \in Players
      /\ ColorOf(uid) \in Colors /\ ColorOf(Opponent(uid)) \in Colors
      /\ ColorOf(Opponent(uid)) # ColorOf(uid) /\ Opponent(Opponent(uid)) = uid
  BY OpponentIsOther, OtherColor, ColorsNonEmpty DEF Inv
<1>2. /\ mine \in Nat /\ theirs \in Nat
  BY StonesFinite, FS_CardinalityType
<1>3. /\ Cardinality(StonesOf(ColorOf(uid))') = mine + 1
      /\ Cardinality(StonesOf(ColorOf(Opponent(uid)))') = theirs
  <2>1. board \in Boards
    BY DEF Inv, TypeOK
  <2>2. PICK own \in Colors : own = ColorOf(uid)
    BY <1>1
  <2>3. PICK other \in Colors : other = ColorOf(Opponent(uid))
    BY <1>1
  <2>4. /\ Cardinality(StonesOf(own)') = Cardinality(StonesOf(own)) + 1
        /\ StonesOf(other)' = StonesOf(other)
    BY <1>1, <2>1, <2>2, <2>3, StonePlaced
  <2>5. ColorOf(uid)' = own /\ ColorOf(Opponent(uid))' = other
    BY <2>2, <2>3 DEF ColorOf, Opponent
  <2>6. /\ StonesOf(ColorOf(uid))' = StonesOf(own)'
        /\ StonesOf(ColorOf(Opponent(uid)))' = StonesOf(other)'
    BY <2>5 DEF StonesOf
  <2>7. QED BY <2>2, <2>3, <2>4, <2>6
<1>4. theirs - mine \in {0, 1}
  <2>1. CASE timing_started
    <3>1. turn_uid = uid
      BY <2>1 DEF OutOfTurn
    <3>2. QED BY <2>1, <3>1 DEF StonesAlternate
  <2>2. CASE ~timing_started
    <3>1. board = EmptyBoard
      BY <2>2 DEF Inv, ClockedRound
    <3>2. \A color \in Colors : StonesOf(color) = {}
      BY <3>1 DEF StonesOf, EmptyBoard, Colors, EMPTY, CHESS_WHITE, CHESS_BLACK
    <3>3. mine = 0 /\ theirs = 0
      BY <1>1, <3>2, FS_EmptySet
    <3>4. QED BY <3>3
  <2>3. QED BY <2>1, <2>2 DEF Inv, TypeOK
<1>5. /\ ColorOf(turn_uid)' = ColorOf(Opponent(uid))'
      /\ ColorOf(Opponent(turn_uid))' = ColorOf(uid)'
  BY <1>1 DEF ColorOf, Opponent
<1>6. /\ StonesOf(ColorOf(turn_uid))' = StonesOf(ColorOf(Opponent(uid)))'
      /\ StonesOf(ColorOf(Opponent(turn_uid)))' = StonesOf(ColorOf(uid))'
  BY <1>5 DEF StonesOf
<1> HIDE DEF mine, theirs
<1>7. (mine + 1) - theirs \in {0, 1}
  BY <1>2, <1>4
<1>8. QED BY <1>3, <1>6, <1>7 DEF StonesAlternate

LEMMA StepAlternates == Inv /\ StonesAlternate /\ [Next]_vars => StonesAlternate'
<1>1. SUFFICES ASSUME Inv, StonesAlternate, [Next]_vars PROVE StonesAlternate'
  OBVIOUS
<1> DEFINE Kept == UNCHANGED <<statu, timing_started, turn_uid, white_id, black_id, board>>
<1>2. ASSUME Kept PROVE StonesAlternate'
  BY <1>1, <1>2 DEF StonesAlternate, StonesOf, ColorOf, Opponent
<1>3. ASSUME statu' = GAME_OVER \/ ~timing_started' PROVE StonesAlternate'
  BY <1>3 DEF StonesAlternate
<1>4. ASSUME NEW uid \in Players, NEW cell, NEW claim, PutChess(uid, cell, claim)
      PROVE  StonesAlternate'
  <2> DEFINE answer == handle_chess(uid, cell, claim)
  <2>1. CASE Refused
    BY <1>2, <2>1 DEF Refused, vars, game
  <2>2. CASE /\ answer.result
             /\ answer.winner = 0
             /\ board' = answer.board
             /\ turn_uid' = Opponent(uid)
             /\ UNCHANGED <<statu, white_id, black_id, initiator, ledger, presence>>
    <3>1. /\ cell \in Cells
          /\ board[cell] = EMPTY
          /\ board' = [board EXCEPT ![cell] = ColorOf(uid)]
      BY <1>1, <2>2, UndecidedStone
    <3>2. statu = GAME_START /\ ~OutOfTurn(uid)
      BY <1>4 DEF PutChess
    <3> HIDE DEF answer
    <3>3. QED BY <1>1, <2>2, <3>1, <3>2, StoneAlternates
  <2>3. CASE Settle(answer.winner)
    BY <1>3, <2>3 DEF Settle
  <2>4. QED BY <1>4, <2>1, <2>2, <2>3 DEF PutChess
<1>5. ASSUME NEW uid \in Players, handle_request(uid) PROVE StonesAlternate'
  <2>1. CASE PutChessTooLate(uid) \/ TimeoutSettled(uid)
    BY <1>3, <2>1 DEF PutChessTooLate, TimeoutSettled, Settle
  <2>2. CASE RematchInvite(uid) \/ Refused
    BY <1>2, <2>2 DEF RematchInvite, Refused, vars, game
  <2>3. CASE RematchStart(uid)
    BY <1>3, <2>3 DEF RematchStart
  <2>4. QED
    BY <1>4, <1>5, <2>1, <2>2, <2>3
       DEF handle_request, PutChessRefused, TimeoutRefused, RematchRefused, Talk
<1>6. ASSUME NEW uid \in Players, wsclose_game_room(uid) PROVE StonesAlternate'
  BY <1>2, <1>3, <1>6 DEF wsclose_game_room, Settle
<1>7. CASE \/ Tick \/ UNCHANGED vars
           \/ \E uid \in Players : wsopen_game_room(uid) \/ Drop(uid)
  BY <1>2, <1>7 DEF Tick, vars, game, wsopen_game_room, Drop
<1>8. QED BY <1>1, <1>5, <1>6, <1>7 DEF Next

(* Through refused, late and losing stones, rematches and returns, the two *)
(* players of a round have put stones in turn, on a board of any size.     *)
THEOREM StonesTakeTurns == Spec => []StonesAlternate
<1>1. Init => StonesAlternate
  BY DEF Init, StonesAlternate
<1>2. QED BY <1>1, StepAlternates, Invariant, PTL DEF Spec

-----------------------------------------------------------------------------
(* Rows.  What handle_chess answers rests on what check_win finds.         *)
LEMMA AnswersAndRows ==
    ASSUME Inv, NEW uid \in Players, NEW cell, NEW claim, handle_chess(uid, cell, claim).result
    PROVE  LET answer == handle_chess(uid, cell, claim)
               placed == [board EXCEPT ![cell] = ColorOf(uid)]
           IN  /\ cell \in Cells
               /\ \/ answer.winner = black_id /\ white_id \notin online
                  \/ answer.winner = white_id /\ black_id \notin online
                  \/ /\ answer.board = placed
                     /\ answer.winner = uid
                     /\ check_win(placed, cell, ColorOf(uid))
                  \/ /\ answer.board = placed
                     /\ answer.winner = 0
                     /\ ~check_win(placed, cell, ColorOf(uid))
<1> DEFINE placed == [board EXCEPT ![cell] = ColorOf(uid)]
           wins == check_win(placed, cell, ColorOf(uid))
           won_by == IF wins THEN UidOf(ColorOf(uid)) ELSE 0
<1>1. UidOf(ColorOf(uid)) = uid
  BY DEF UidOf, ColorOf, CHESS_WHITE, CHESS_BLACK, Inv, TypeOK, SeatsDistinct, Players
<1>2. (wins /\ won_by = uid) \/ (~wins /\ won_by = 0)
  BY <1>1
<1> HIDE DEF placed, wins, won_by
<1>3. handle_chess(uid, cell, claim) =
        IF cell \notin Cells THEN [result |-> FALSE, winner |-> claim, board |-> board]
        ELSE IF white_id \notin online THEN [result |-> TRUE, winner |-> black_id, board |-> board]
        ELSE IF black_id \notin online THEN [result |-> TRUE, winner |-> white_id, board |-> board]
        ELSE IF board[cell] # EMPTY THEN [result |-> FALSE, winner |-> claim, board |-> board]
        ELSE [result |-> TRUE, winner |-> won_by, board |-> placed]
  BY Zenon DEF handle_chess, placed, wins, won_by
<1>4. /\ cell \in Cells
      /\ \/ handle_chess(uid, cell, claim).winner = black_id /\ white_id \notin online
         \/ handle_chess(uid, cell, claim).winner = white_id /\ black_id \notin online
         \/ handle_chess(uid, cell, claim).board = placed /\ handle_chess(uid, cell, claim).winner = won_by
  BY <1>3
<1>5. QED BY <1>2, <1>4 DEF placed, wins

NoRow(stones) == \A color \in Colors : ~HasRow(stones, color)

LEMMA EmptyBoardHasNoRow == NoRow(EmptyBoard)
<1>1. SUFFICES ASSUME NEW color \in Colors, NEW start \in Cells, NEW dir \in Directions,
                      \A c \in Window(start, dir) : c \in Cells /\ EmptyBoard[c] = color
               PROVE  FALSE
  BY DEF NoRow, HasRow
<1>2. 0 \in 0 .. FIVE - 1
  BY BoardAssumption
<1>3. Shift(start, dir, 0) \in Window(start, dir)
  BY <1>2 DEF Window
<1>4. QED BY <1>1, <1>3 DEF EmptyBoard, Colors, CHESS_WHITE, CHESS_BLACK, EMPTY

LEMMA StepNoRow == Inv /\ NoRowWhilePlaying /\ [Next]_vars => NoRowWhilePlaying'
<1>1. SUFFICES ASSUME Inv, NoRowWhilePlaying, [Next]_vars PROVE NoRowWhilePlaying'
  OBVIOUS
<1>2. ASSUME statu' = GAME_OVER \/ UNCHANGED <<statu, board>>
      PROVE  NoRowWhilePlaying'
  BY <1>1, <1>2 DEF NoRowWhilePlaying
<1>3. ASSUME NEW uid \in Players, NEW cell, NEW claim, PutChess(uid, cell, claim)
      PROVE  NoRowWhilePlaying'
  <2> DEFINE answer == handle_chess(uid, cell, claim)
             placed == [board EXCEPT ![cell] = ColorOf(uid)]
  <2>1. CASE Refused
    BY <1>2, <2>1 DEF Refused, vars, game
  <2>2. CASE answer.result /\ answer.winner = 0 /\ board' = answer.board
    <3>1. {uid, white_id, black_id} \subseteq Players /\ 0 \notin Players
      BY <1>1 DEF Inv, TypeOK, Players
    <3>2. cell \in Cells /\ answer.board = placed /\ ~check_win(placed, cell, ColorOf(uid))
      BY <1>1, <2>2, <3>1, AnswersAndRows
    <3>3. board \in Boards /\ \A color \in Colors : ~HasRow(board, color)
      BY <1>1, <1>3 DEF Inv, TypeOK, NoRowWhilePlaying, PutChess
    <3>4. \A color \in Colors : ~HasRow(placed, color)
      BY <3>2, <3>3, ColorsNonEmpty, CheckWinDecides
    <3> HIDE DEF answer, placed
    <3>5. QED BY <2>2, <3>2, <3>4 DEF NoRowWhilePlaying
  <2>3. CASE Settle(answer.winner)
    BY <1>2, <2>3 DEF Settle
  <2>4. QED BY <1>3, <2>1, <2>2, <2>3 DEF PutChess
<1>4. ASSUME NEW uid \in Players, handle_request(uid) PROVE NoRowWhilePlaying'
  <2>1. CASE PutChessTooLate(uid) \/ TimeoutSettled(uid)
    BY <1>2, <2>1 DEF PutChessTooLate, TimeoutSettled, Settle
  <2>2. CASE RematchInvite(uid) \/ Refused
    BY <1>2, <2>2 DEF RematchInvite, Refused, vars, game
  <2>3. CASE RematchStart(uid)
    BY <2>3, EmptyBoardHasNoRow DEF RematchStart, NoRowWhilePlaying, NoRow
  <2>4. QED
    BY <1>3, <1>4, <2>1, <2>2, <2>3
       DEF handle_request, PutChessRefused, TimeoutRefused, RematchRefused, Talk
<1>5. ASSUME NEW uid \in Players, wsclose_game_room(uid) PROVE NoRowWhilePlaying'
  BY <1>2, <1>5 DEF wsclose_game_room, Settle
<1>6. CASE \/ Tick \/ UNCHANGED vars
           \/ \E uid \in Players : wsopen_game_room(uid) \/ Drop(uid)
  BY <1>2, <1>6 DEF Tick, vars, game, wsopen_game_room, Drop
<1>7. QED BY <1>1, <1>4, <1>5, <1>6 DEF Next

(* The lines through the stone just placed are enough to look at: on a     *)
(* board of any size, with any length of row, no round goes on after       *)
(* somebody has a row.                                                     *)
THEOREM RowEndsRound == Spec => []NoRowWhilePlaying
<1>1. Init => NoRowWhilePlaying
  BY EmptyBoardHasNoRow DEF Init, NoRowWhilePlaying, NoRow
<1>2. QED BY <1>1, StepNoRow, Invariant, PTL DEF Spec

-----------------------------------------------------------------------------
(* Losses.  A player who is in the room has a connection open. *)
Inside == \A uid \in online : conns[uid] > 0

LEMMA StepInside == Inv /\ Inside /\ [Next]_vars => Inside'
<1>1. SUFFICES ASSUME Inv, Inside, [Next]_vars PROVE Inside'
  OBVIOUS
<1>2. online \subseteq Players /\ conns \in [Players -> 0 .. MaxConns]
  BY <1>1 DEF Inv, TypeOK
<1>3. ASSUME UNCHANGED conns, online' \subseteq online PROVE Inside'
  BY <1>1, <1>2, <1>3 DEF Inside
<1>4. ASSUME NEW uid \in Players, handle_request(uid) PROVE UNCHANGED presence
  BY <1>4 DEF handle_request, PutChessRefused, PutChessTooLate, PutChess, TimeoutRefused,
              TimeoutSettled, RematchInvite, RematchRefused, RematchStart, Talk, Refused, vars
<1>5. ASSUME NEW uid \in Players, wsopen_game_room(uid) PROVE Inside'
  BY <1>1, <1>2, <1>5 DEF wsopen_game_room, Inside
<1>6. ASSUME NEW uid \in Players, Drop(uid) PROVE Inside'
  BY <1>1, <1>2, <1>6 DEF Drop, Inside
<1>7. CASE \/ Tick \/ UNCHANGED vars
           \/ \E uid \in Players : wsclose_game_room(uid)
  BY <1>3, <1>7 DEF Tick, vars, presence, wsclose_game_room
<1>8. QED BY <1>1, <1>3, <1>4, <1>5, <1>6, <1>7 DEF Next, presence

(* What justifies a loss, or excepts it (the disjuncts of LossIsEarned). *)
Earned(uid) ==
    \/ uid \notin online
    \/ timing_started /\ uid = turn_uid /\ Expired(TIMEOUT_TOLERANCE_MS)
    \/ HasRow(board', ColorOf(Opponent(uid)))
    \/ closing'[uid] < closing[uid] /\ conns[uid] > 0
    \/ echoed'

LEMMA LoserOfSettle ==
    ASSUME Inv, NEW winner, Settle(winner), NEW uid \in Players, lost'[uid] # lost[uid]
    PROVE  uid = Opponent(winner)
BY DEF Settle, Inv, TypeOK

LEMMA StoneEarned ==
    ASSUME Inv, NEW winner \in Players, NEW cell, NEW claim \in Claims, NEW loser \in Players,
           PutChess(winner, cell, claim), lost'[loser] # lost[loser]
    PROVE  Earned(loser)
<1> DEFINE answer == handle_chess(winner, cell, claim)
           placed == [board EXCEPT ![cell] = ColorOf(winner)]
<1>1. /\ answer.winner # 0 /\ board' = answer.board /\ Settle(answer.winner)
      /\ echoed' = ~answer.result
  BY DEF PutChess, Refused, vars, ledger, presence
<1>2. loser = Opponent(answer.winner)
  BY <1>1, LoserOfSettle
<1>3. white_id # black_id /\ Players = {white_id, black_id}
  BY DEF Inv, TypeOK, SeatsDistinct, Players
<1>4. CASE answer.winner = black_id /\ white_id \notin online
  BY <1>2, <1>3, <1>4 DEF Opponent, Earned
<1>5. CASE answer.winner = white_id /\ black_id \notin online
  BY <1>2, <1>3, <1>5 DEF Opponent, Earned
<1>6. CASE /\ cell \in Cells
           /\ answer.board = placed
           /\ answer.winner = winner
           /\ check_win(placed, cell, ColorOf(winner))
  <2>1. Opponent(loser) = winner
    BY <1>2, <1>6, OtherColor DEF Inv
  <2>2. placed[cell] = ColorOf(winner)
    BY <1>6 DEF Inv, TypeOK, Boards
  <2> HIDE DEF answer, placed
  <2>3. HasRow(placed, ColorOf(winner))
    BY <1>6, <2>2, CheckWinIsRowThrough DEF RowThrough, HasRow
  <2>4. QED BY <1>1, <1>6, <2>1, <2>3 DEF Earned
<1>7. CASE ~answer.result
  BY <1>1, <1>7 DEF Earned
<1>8. CASE answer.result
  BY <1>1, <1>4, <1>5, <1>6, <1>8, AnswersAndRows
<1>9. QED BY <1>7, <1>8

LEMMA StepEarned ==
    ASSUME Inv, Inside, [Next]_vars,
           NEW uid \in Players, lost'[uid] # lost[uid]
    PROVE  Earned(uid)
<1>1. ~UNCHANGED lost
  OBVIOUS
<1>2. turn_uid \in Players /\ elapsed \in Nat /\ \A color \in Colors : total_left[color] \in Nat
  BY DEF Inv, TypeOK
<1>3. ASSUME NEW other \in Players, PutChessTooLate(other) \/ TimeoutSettled(other)
      PROVE  Earned(uid)
  <2>1. timing_started /\ Expired(TIMEOUT_TOLERANCE_MS)
    BY <1>2, <1>3, ColorsNonEmpty
       DEF PutChessTooLate, TimeoutSettled, Expired, StepExpired, TotalExpired
  <2>2. uid = Opponent(Opponent(turn_uid))
    BY <1>3, LoserOfSettle DEF PutChessTooLate, TimeoutSettled
  <2>3. uid = turn_uid
    BY <1>2, <2>2, OtherColor DEF Inv
  <2>4. QED BY <2>1, <2>3 DEF Earned
<1>4. ASSUME NEW other \in Players, handle_request(other)
      PROVE  Earned(uid)
  <2>1. CASE \E cell, claim : claim \in Claims /\ PutChess(other, cell, claim)
    BY <2>1, StoneEarned
  <2>2. CASE PutChessTooLate(other) \/ TimeoutSettled(other)
    BY <1>3, <2>2
  <2>3. CASE RematchInvite(other) \/ RematchStart(other) \/ Refused
    BY <1>1, <2>3 DEF RematchInvite, RematchStart, Refused, vars, ledger
  <2>4. QED
    BY <1>4, <2>1, <2>2, <2>3
       DEF handle_request, PutChessRefused, TimeoutRefused, RematchRefused, Talk
<1>5. ASSUME NEW other \in Players, wsclose_game_room(other)
      PROVE  Earned(uid)
  <2>1. Settle(Opponent(other)) /\ closing[other] > 0
        /\ closing' = [closing EXCEPT ![other] = @ - 1]
    BY <1>1, <1>5 DEF wsclose_game_room, ledger
  <2>2. uid = other
    BY <2>1, LoserOfSettle, OtherColor DEF Inv
  <2>3. closing'[uid] < closing[uid]
    BY <2>1, <2>2 DEF Inv, TypeOK
  <2>4. QED BY <2>3 DEF Inside, Earned
<1>6. CASE \/ Tick \/ UNCHANGED vars
           \/ \E other \in Players : wsopen_game_room(other) \/ Drop(other)
  BY <1>1, <1>6 DEF Tick, vars, ledger, wsopen_game_room, Drop
<1>7. QED BY <1>4, <1>5, <1>6 DEF Next

(* A round is lost only while out of the room, by a clock, or to a row,    *)
(* for any number of pages each player holds, with two exceptions: the     *)
(* close handler of a player who has another page open (ForfeitMeansGone   *)
(* says it should not), and a refused stone whose request names a winner.  *)
THEOREM LossesAreEarned == Spec => LossIsEarned
<1>1. Init => Inside
  BY DEF Init, Inside
<1>2. Inv /\ Inside /\ [Next]_vars =>
        [\A uid \in Players : lost'[uid] # lost[uid] =>
           \/ uid \notin online
           \/ timing_started /\ uid = turn_uid /\ Expired(TIMEOUT_TOLERANCE_MS)
           \/ HasRow(board', ColorOf(Opponent(uid)))
           \/ closing'[uid] < closing[uid] /\ conns[uid] > 0
           \/ echoed']_vars
  BY StepEarned DEF Earned
<1>3. QED BY <1>1, <1>2, StepInside, Invariant, PTL DEF Spec, LossIsEarned
=============================================================================
