----------------------------- MODULE PageProofs -----------------------------
(***************************************************************************)
(* Theorems about Page, for every board, any clocks, any number of rounds  *)
(* and queues of any length.                                               *)
(*                                                                         *)
(* What a page shows has to be compared with the room after the messages   *)
(* on the way to it.  The pages it will be on the way there are a sequence *)
(* (a trace), and an invariant says of each player in the room that there  *)
(* is a trace whose last page agrees with the room.                        *)
(***************************************************************************)
EXTENDS Page, RoomProofs, SequenceTheorems

(* What messages make of a page, apart from clock and panel. *)
Core(p) == <<p.status, p.board, p.white, p.myTurn, p.late>>

(* The pages that viewer v goes through by the messages s, from page p on. *)
Trace(v, s, p, trace) ==
    /\ trace \in Seq(Pages)
    /\ Len(trace) = Len(s) + 1
    /\ Core(trace[1]) = Core(p)
    /\ \A i \in 1 .. Len(s) : trace[i + 1] = Shown(v, trace[i], s[i])

(* Messages that end a round for a page, those that start a clock, and     *)
(* those that tell a page its seat.                                        *)
EndsRound(m) ==
    \/ m.optype \in {"timeout", "peer_left_room"}
    \/ m.optype = "put_chess" /\ m.winner # 0
StartsClock(m) == m.optype = "put_chess" /\ m.winner = 0
SetsUp(m) == m.optype \in {"room_ready", "rematch_start"}

USE RoomAssumption, PageAssumption DEF GAME_START, GAME_OVER

-----------------------------------------------------------------------------
(* Pages *)
LEMMA NewPageFields ==
    ASSUME NEW late \in BOOLEAN
    PROVE  /\ NewPage(late) \in Pages
           /\ NewPage(late).status = "playing"
           /\ NewPage(late).white = 0
           /\ NewPage(late).board = EmptyBoard
           /\ NewPage(late).myTurn = FALSE
           /\ NewPage(late).late = late
           /\ NewPage(late).thinking = 0
           /\ NewPage(late).timeoutSent = FALSE
<1>1. EmptyBoard \in Boards /\ FullClocks \in [Colors -> 0 .. TOTAL_INIT_MS]
  BY DEF EmptyBoard, Boards, FullClocks
<1>2. QED BY <1>1 DEF NewPage, Pages

LEMMA OverFields ==
    ASSUME NEW v \in Players, NEW p \in Pages
    PROVE  LET q == Over(v, p) IN
           /\ q \in Pages
           /\ q.status = "over" /\ q.thinking = 0 /\ q.timeoutSent
           /\ q.panel = "starter"
           /\ q.board = p.board /\ q.white = p.white /\ q.myTurn = p.myTurn /\ q.late = p.late
BY DEF Over, Pages

LEMMA DrawnFields ==
    ASSUME NEW v \in Players, NEW p \in Pages, NEW m \in Messages, m.optype = "put_chess"
    PROVE  LET q == Drawn(v, p, m)
               color == IF m.uid = p.white THEN CHESS_WHITE ELSE CHESS_BLACK
           IN  /\ q \in Pages
               /\ q.status = p.status /\ q.white = p.white /\ q.late = p.late
               /\ q.board = IF m.cell \in Cells THEN [p.board EXCEPT ![m.cell] = color] ELSE p.board
               /\ q.myTurn = IF m.cell \in Cells THEN m.uid # v ELSE p.myTurn
<1> DEFINE color == IF m.uid = p.white THEN CHESS_WHITE ELSE CHESS_BLACK
           placed == [p.board EXCEPT ![m.cell] = color]
<1>1. CASE m.cell \in Cells
  <2>1. placed \in Boards
    BY <1>1 DEF Pages, Boards, Colors
  <2>2. Drawn(v, p, m) = [p EXCEPT !.board = placed, !.myTurn = (m.uid # v)]
    BY <1>1 DEF Drawn, Pages
  <2> HIDE DEF placed
  <2>3. QED BY <1>1, <2>1, <2>2 DEF Pages, placed
<1>2. CASE m.cell \notin Cells
  BY <1>2 DEF Drawn
<1>3. QED BY <1>1, <1>2

LEMMA OtherPlayer ==
    ASSUME NEW uid \in Players
    PROVE  /\ OtherOf(uid) \in Players
           /\ OtherOf(uid) # uid
           /\ Players = {uid, OtherOf(uid)}
BY DEF OtherOf, Players

LEMMA ClockStartedFields ==
    ASSUME NEW p \in Pages, NEW m \in Messages, m.optype = "put_chess"
    PROVE  LET q == ClockStarted(p, m) IN
           /\ q \in Pages
           /\ q.status = p.status /\ q.board = p.board /\ q.white = p.white
           /\ q.myTurn = p.myTurn /\ q.late = p.late
           /\ q.thinking = OtherOf(m.uid) /\ q.left = m.left /\ q.spent = 0
           /\ ~q.timeoutSent
           /\ q.panel = p.panel
<1>1. m.uid \in Players /\ m.left \in [Colors -> 0 .. TOTAL_INIT_MS]
  BY DEF Messages, TimeoutMsg, PeerLeft
<1>2. OtherOf(m.uid) \in Players
  BY <1>1, OtherPlayer
<1>3. 0 \in 0 .. STEP_INIT_MS
  OBVIOUS
<1>4. QED BY <1>1, <1>2, <1>3 DEF ClockStarted, Pages

-----------------------------------------------------------------------------
(* What each message makes of a page. *)
LEMMA MessageKinds ==
    ASSUME NEW m \in Messages
    PROVE  \/ StartsClock(m)
           \/ EndsRound(m)
           \/ SetsUp(m) /\ m.white \in Players
           \/ m.optype = "rematch_invite" /\ m.white \in Players
BY DEF Messages, TimeoutMsg, PeerLeft, StartsClock, EndsRound, SetsUp

LEMMA ShownStone ==
    ASSUME NEW v \in Players, NEW p \in Pages, NEW m \in Messages, StartsClock(m)
    PROVE  /\ Shown(v, p, m) \in Pages
           /\ Shown(v, p, m).status = p.status
           /\ Shown(v, p, m).white = p.white
           /\ Shown(v, p, m).late = p.late
           /\ Shown(v, p, m).board = Drawn(v, p, m).board
           /\ Shown(v, p, m).myTurn = Drawn(v, p, m).myTurn
           /\ Shown(v, p, m).thinking = OtherOf(m.uid)
           /\ Shown(v, p, m).left = m.left
           /\ Shown(v, p, m).spent = 0
           /\ ~Shown(v, p, m).timeoutSent
<1> DEFINE d == Drawn(v, p, m)
<1>1. Shown(v, p, m) = ClockStarted(d, m)
  BY DEF Shown, handlePutChess, StartsClock
<1>2. m.optype = "put_chess"
  BY DEF StartsClock
<1>3. d \in Pages /\ d.status = p.status /\ d.white = p.white /\ d.late = p.late
  BY <1>2, DrawnFields
<1> HIDE DEF d
<1>4. /\ ClockStarted(d, m) \in Pages
      /\ ClockStarted(d, m).status = d.status /\ ClockStarted(d, m).board = d.board
      /\ ClockStarted(d, m).white = d.white /\ ClockStarted(d, m).myTurn = d.myTurn
      /\ ClockStarted(d, m).late = d.late
      /\ ClockStarted(d, m).thinking = OtherOf(m.uid) /\ ClockStarted(d, m).left = m.left
      /\ ClockStarted(d, m).spent = 0 /\ ~ClockStarted(d, m).timeoutSent
  BY <1>2, <1>3, ClockStartedFields
<1>5. QED BY <1>1, <1>3, <1>4 DEF d

LEMMA ShownEnd ==
    ASSUME NEW v \in Players, NEW p \in Pages, NEW m \in Messages, EndsRound(m)
    PROVE  /\ Shown(v, p, m) \in Pages
           /\ Shown(v, p, m).status = "over"
           /\ Shown(v, p, m).thinking = 0
           /\ Shown(v, p, m).timeoutSent
           /\ Shown(v, p, m).panel = "starter"
           /\ Shown(v, p, m).white = p.white
           /\ Shown(v, p, m).late = p.late
           /\ Shown(v, p, m).board = IF m.optype = "put_chess" THEN Drawn(v, p, m).board ELSE p.board
           /\ Shown(v, p, m).myTurn = IF m.optype = "put_chess" THEN Drawn(v, p, m).myTurn ELSE p.myTurn
<1> DEFINE d == IF m.optype = "put_chess" THEN Drawn(v, p, m) ELSE p
<1>1. Shown(v, p, m) = Over(v, d)
  BY DEF Shown, handlePutChess, EndsRound
<1>2. d \in Pages /\ d.white = p.white /\ d.late = p.late
  BY DrawnFields
<1>3. /\ d.board = IF m.optype = "put_chess" THEN Drawn(v, p, m).board ELSE p.board
      /\ d.myTurn = IF m.optype = "put_chess" THEN Drawn(v, p, m).myTurn ELSE p.myTurn
  OBVIOUS
<1> HIDE DEF d
<1>4. /\ Over(v, d) \in Pages /\ Over(v, d).status = "over" /\ Over(v, d).thinking = 0
      /\ Over(v, d).timeoutSent /\ Over(v, d).panel = "starter" /\ Over(v, d).white = d.white
      /\ Over(v, d).late = d.late /\ Over(v, d).board = d.board /\ Over(v, d).myTurn = d.myTurn
  BY <1>2, OverFields
<1>5. QED BY <1>1, <1>2, <1>3, <1>4

LEMMA ShownStart ==
    ASSUME NEW v \in Players, NEW p \in Pages, NEW m \in Messages,
           SetsUp(m)
    PROVE  /\ Shown(v, p, m) \in Pages
           /\ m.optype = "room_ready" =>
                Shown(v, p, m).status = p.status /\ Shown(v, p, m).board = p.board
           /\ m.optype = "rematch_start" =>
                Shown(v, p, m).status = "playing" /\ Shown(v, p, m).board = EmptyBoard
           /\ Shown(v, p, m).white = m.white
           /\ Shown(v, p, m).late = p.late
           /\ Shown(v, p, m).thinking = 0
           /\ ~Shown(v, p, m).timeoutSent
<1>1. m.white \in Players /\ EmptyBoard \in Boards
  BY DEF SetsUp, Messages, TimeoutMsg, PeerLeft, EmptyBoard, Boards
<1>2. CASE m.optype = "room_ready"
  BY <1>1, <1>2 DEF Shown, room_ready, Pages
<1>3. CASE m.optype = "rematch_start"
  BY <1>1, <1>3 DEF Shown, applyRematchStart, Pages
<1>4. QED BY <1>2, <1>3 DEF SetsUp

LEMMA ShownSeat ==
    ASSUME NEW v \in Players, NEW p \in Pages, NEW m \in Messages, SetsUp(m)
    PROVE  Shown(v, p, m).myTurn <=> v # m.white
<1>1. CASE m.optype = "room_ready"
  BY <1>1 DEF Shown, room_ready, Pages
<1>2. CASE m.optype = "rematch_start"
  BY <1>2 DEF Shown, applyRematchStart, Pages
<1>3. QED BY <1>1, <1>2 DEF SetsUp

LEMMA ShownInvite ==
    ASSUME NEW v \in Players, NEW p \in Pages, NEW m \in Messages, m.optype = "rematch_invite"
    PROVE  LET q == Shown(v, p, m) IN
           /\ q \in Pages
           /\ q.status = p.status /\ q.board = p.board /\ q.white = m.white
           /\ q.myTurn = p.myTurn /\ q.late = p.late
           /\ q.thinking = p.thinking /\ q.left = p.left /\ q.spent = p.spent
           /\ q.timeoutSent = p.timeoutSent
           /\ q.panel = IF m.inviter = v THEN "sent" ELSE "asked"
<1>1. m.white \in Players
  BY DEF Messages, TimeoutMsg, PeerLeft
<1>2. QED BY <1>1 DEF Shown, rematch_invite, Pages

LEMMA ShownTyped ==
    ASSUME NEW v \in Players, NEW p \in Pages, NEW m \in Messages
    PROVE  Shown(v, p, m) \in Pages /\ Shown(v, p, m).late = p.late
<1>1. CASE StartsClock(m)
  BY <1>1, ShownStone
<1>2. CASE EndsRound(m)
  BY <1>2, ShownEnd
<1>3. CASE SetsUp(m)
  BY <1>3, ShownStart
<1>4. CASE m.optype = "rematch_invite"
  BY <1>4, ShownInvite
<1>5. QED BY <1>1, <1>2, <1>3, <1>4, MessageKinds

(* A message makes the same of pages that differ in clock and panel only.  *)
LEMMA ShownSameCore ==
    ASSUME NEW v \in Players, NEW p \in Pages, NEW q \in Pages, NEW m \in Messages,
           Core(p) = Core(q)
    PROVE  Core(Shown(v, p, m)) = Core(Shown(v, q, m))
<1> DEFINE a == Shown(v, p, m)
           b == Shown(v, q, m)
           Same(x, y) == /\ x.status = y.status /\ x.board = y.board /\ x.white = y.white
                         /\ x.myTurn = y.myTurn /\ x.late = y.late
<1>1. Same(p, q)
  BY DEF Core
<1>2. SUFFICES Same(a, b)
  BY Zenon DEF Core
<1>3. ASSUME m.optype = "put_chess"
      PROVE  /\ Drawn(v, p, m).board = Drawn(v, q, m).board
             /\ Drawn(v, p, m).myTurn = Drawn(v, q, m).myTurn
  <2> DEFINE color(x) == IF m.uid = x.white THEN CHESS_WHITE ELSE CHESS_BLACK
  <2>1. \A x \in Pages :
          /\ Drawn(v, x, m).board = IF m.cell \in Cells THEN [x.board EXCEPT ![m.cell] = color(x)]
                                    ELSE x.board
          /\ Drawn(v, x, m).myTurn = IF m.cell \in Cells THEN m.uid # v ELSE x.myTurn
    BY <1>3, DrawnFields
  <2>2. color(p) = color(q)
    BY <1>1
  <2> HIDE DEF color
  <2>3. QED BY <1>1, <2>1, <2>2
<1>4. CASE StartsClock(m)
  <2>1. m.optype = "put_chess"
    BY <1>4 DEF StartsClock
  <2>2. \A x \in Pages :
          /\ Shown(v, x, m).status = x.status /\ Shown(v, x, m).white = x.white
          /\ Shown(v, x, m).late = x.late
          /\ Shown(v, x, m).board = Drawn(v, x, m).board
          /\ Shown(v, x, m).myTurn = Drawn(v, x, m).myTurn
    BY <1>4, ShownStone
  <2>3. QED BY <1>1, <1>3, <2>1, <2>2
<1>5. CASE EndsRound(m)
  <2>1. \A x \in Pages :
          /\ Shown(v, x, m).status = "over" /\ Shown(v, x, m).white = x.white
          /\ Shown(v, x, m).late = x.late
          /\ Shown(v, x, m).board = IF m.optype = "put_chess" THEN Drawn(v, x, m).board ELSE x.board
          /\ Shown(v, x, m).myTurn = IF m.optype = "put_chess" THEN Drawn(v, x, m).myTurn
                                     ELSE x.myTurn
    BY <1>5, ShownEnd
  <2>2. QED BY <1>1, <1>3, <2>1
<1>6. CASE SetsUp(m)
  <2>1. /\ m.optype = "room_ready" => a.status = p.status /\ a.board = p.board
        /\ m.optype = "rematch_start" => a.status = "playing" /\ a.board = EmptyBoard
        /\ a.white = m.white /\ a.late = p.late /\ a \in Pages
    BY <1>6, ShownStart
  <2>2. /\ m.optype = "room_ready" => b.status = q.status /\ b.board = q.board
        /\ m.optype = "rematch_start" => b.status = "playing" /\ b.board = EmptyBoard
        /\ b.white = m.white /\ b.late = q.late /\ b \in Pages
    BY <1>6, ShownStart
  <2>3. a.myTurn <=> b.myTurn
    BY <1>6, ShownSeat
  <2> HIDE DEF a, b
  <2>4. a.myTurn = b.myTurn
    BY <2>1, <2>2, <2>3 DEF Pages
  <2>5. QED BY <1>1, <1>6, <2>1, <2>2, <2>4 DEF SetsUp
<1>7. CASE m.optype = "rematch_invite"
  <2>1. \A x \in Pages :
          /\ Shown(v, x, m).status = x.status /\ Shown(v, x, m).board = x.board
          /\ Shown(v, x, m).white = m.white /\ Shown(v, x, m).myTurn = x.myTurn
          /\ Shown(v, x, m).late = x.late
    BY <1>7, ShownInvite
  <2>2. QED BY <1>1, <2>1
<1>8. QED BY <1>4, <1>5, <1>6, <1>7, MessageKinds

-----------------------------------------------------------------------------
(* Traces: a page that stays, one more message sent, one shown.            *)
LEMMA TraceSameCore ==
    ASSUME NEW v, NEW s, NEW p, NEW q, NEW trace, Trace(v, s, p, trace), Core(p) = Core(q)
    PROVE  Trace(v, s, q, trace)
BY DEF Trace

LEMMA TraceSent ==
    ASSUME NEW v \in Players, NEW s \in Seq(Messages), NEW p, NEW trace, Trace(v, s, p, trace),
           NEW m \in Messages
    PROVE  LET n == Len(trace)
               longer == Append(trace, Shown(v, trace[n], m))
           IN  /\ n \in Nat \ {0} /\ n = Len(s) + 1
               /\ Len(longer) = n + 1
               /\ \A i \in 1 .. n : longer[i] = trace[i] /\ trace[i] \in Pages
               /\ longer[n + 1] = Shown(v, trace[n], m)
               /\ longer[n + 1] \in Pages
               /\ Trace(v, Append(s, m), p, longer)
<1> DEFINE n == Len(trace)
           next == Shown(v, trace[n], m)
           longer == Append(trace, next)
<1>1. /\ trace \in Seq(Pages) /\ n = Len(s) + 1 /\ n \in Nat \ {0}
      /\ \A i \in 1 .. n : trace[i] \in Pages
  BY DEF Trace
<1>2. next \in Pages
  BY <1>1, ShownTyped
<1> HIDE DEF next
<1>3. /\ longer \in Seq(Pages) /\ Len(longer) = n + 1 /\ longer[n + 1] = next
      /\ \A i \in 1 .. n : longer[i] = trace[i]
  BY <1>1, <1>2
<1>4. /\ Len(Append(s, m)) = n /\ Append(s, m)[n] = m
      /\ \A i \in 1 .. n - 1 : Append(s, m)[i] = s[i]
  BY <1>1
<1>5. \A i \in 1 .. n : longer[i + 1] = Shown(v, longer[i], Append(s, m)[i])
  <2>1. SUFFICES ASSUME NEW i \in 1 .. n
                 PROVE  longer[i + 1] = Shown(v, longer[i], Append(s, m)[i])
    OBVIOUS
  <2>2. CASE i = n
    BY <1>3, <1>4, <2>2 DEF next
  <2>3. CASE i \in 1 .. n - 1
    <3>1. i \in 1 .. Len(s) /\ i + 1 \in 1 .. n
      BY <1>1, <2>3
    <3>2. trace[i + 1] = Shown(v, trace[i], s[i])
      BY <3>1 DEF Trace
    <3>3. QED BY <1>3, <1>4, <2>3, <3>1, <3>2
  <2>4. QED BY <1>1, <2>2, <2>3
<1>6. Core(longer[1]) = Core(p)
  BY <1>1, <1>3 DEF Trace
<1>7. Trace(v, Append(s, m), p, longer)
  BY <1>1, <1>3, <1>4, <1>5, <1>6 DEF Trace
<1>8. QED BY <1>1, <1>2, <1>3, <1>7 DEF next

LEMMA TraceShown ==
    ASSUME NEW v \in Players, NEW s \in Seq(Messages), s # <<>>, NEW p \in Pages,
           NEW trace, Trace(v, s, p, trace)
    PROVE  LET n == Len(trace) IN
           /\ n \in Nat /\ n >= 2 /\ n = Len(s) + 1
           /\ Head(s) = s[1] /\ Head(s) \in Messages
           /\ Tail(s) \in Seq(Messages) /\ Len(Tail(s)) = n - 2
           /\ \A i \in 1 .. n - 2 : Tail(s)[i] = s[i + 1]
           /\ Len(Tail(trace)) = n - 1
           /\ \A i \in 1 .. n - 1 : Tail(trace)[i] = trace[i + 1] /\ trace[i + 1] \in Pages
           /\ Core(Shown(v, p, Head(s))) = Core(trace[2])
           /\ Trace(v, Tail(s), Shown(v, p, Head(s)), Tail(trace))
<1> DEFINE n == Len(trace)
           rest == Tail(trace)
<1>1. /\ trace \in Seq(Pages) /\ n = Len(s) + 1 /\ n \in Nat
      /\ Core(trace[1]) = Core(p)
      /\ \A i \in 1 .. n : trace[i] \in Pages
  BY DEF Trace
<1>2. Len(s) \in Nat \ {0}
  OBVIOUS
<1>3. n >= 2
  BY <1>1, <1>2
<1>4. /\ Head(s) = s[1] /\ Head(s) \in Messages
      /\ Tail(s) \in Seq(Messages) /\ Len(Tail(s)) = n - 2
      /\ \A i \in 1 .. n - 2 : Tail(s)[i] = s[i + 1]
  BY <1>1, <1>2
<1>5. /\ rest \in Seq(Pages) /\ Len(rest) = n - 1
      /\ \A i \in 1 .. n - 1 : rest[i] = trace[i + 1]
  BY <1>1, <1>3
<1>6. Core(Shown(v, p, Head(s))) = Core(trace[2])
  <2>1. trace[2] = Shown(v, trace[1], s[1])
    BY <1>1, <1>3 DEF Trace
  <2>2. QED BY <1>1, <1>3, <1>4, <2>1, ShownSameCore
<1>7. \A i \in 1 .. n - 2 : rest[i + 1] = Shown(v, rest[i], Tail(s)[i])
  <2>1. SUFFICES ASSUME NEW i \in 1 .. n - 2
                 PROVE  rest[i + 1] = Shown(v, rest[i], Tail(s)[i])
    OBVIOUS
  <2>2. i + 1 \in 1 .. Len(s) /\ i \in 1 .. n - 1 /\ i + 1 \in 1 .. n - 1
    BY <1>1, <1>3
  <2>3. trace[(i + 1) + 1] = Shown(v, trace[i + 1], s[i + 1])
    BY <2>2 DEF Trace
  <2>4. QED BY <1>4, <1>5, <2>2, <2>3
<1>8. rest[1] = trace[2]
  BY <1>3, <1>5
<1> HIDE DEF rest
<1>9. Trace(v, Tail(s), Shown(v, p, Head(s)), rest)
  BY <1>3, <1>4, <1>5, <1>6, <1>7, <1>8 DEF Trace
<1>10. QED BY <1>1, <1>3, <1>4, <1>5, <1>6, <1>9 DEF rest

-----------------------------------------------------------------------------
(* What the room tells the players in it when it changes.                  *)
StoneTold(uid, m) ==
    /\ statu = GAME_START /\ statu' = GAME_START
    /\ both_players_online
    /\ ~OutOfTurn(uid)
    /\ \E cell \in Cells :
         /\ m = PutChessMsg(uid, cell, 0, total_left')
         /\ board[cell] = EMPTY
         /\ board' = [board EXCEPT ![cell] = ColorOf(uid)]
    /\ timing_started' = TRUE
    /\ turn_uid' = Opponent(uid)
    /\ UNCHANGED <<white_id, black_id, initiator, online, conns>>

EndTold(m) ==
    /\ EndsRound(m)
    /\ statu' = GAME_OVER
    /\ UNCHANGED <<white_id, black_id, initiator, online, conns>>

InviteTold(uid, m) ==
    /\ InviteAllowed
    /\ initiator' = uid
    /\ m = InviteMsg(uid, white_id)
    /\ UNCHANGED <<statu, white_id, black_id, online, conns>>

RematchTold(uid, m) ==
    /\ AcceptAllowed(uid)
    /\ statu' = GAME_START
    /\ white_id' = black_id /\ black_id' = white_id
    /\ board' = EmptyBoard
    /\ timing_started' = FALSE
    /\ turn_uid' = white_id
    /\ initiator' = 0
    /\ m = RematchMsg(black_id)
    /\ UNCHANGED <<online, conns>>

LEMMA PutChessTells ==
    ASSUME Inv, NEW uid \in Players, NEW cell \in Cells, put_chess(uid, cell),
           NEW m, m = put_chess_resp(uid, cell)
    PROVE  \/ m = Quiet /\ UNCHANGED vars
           \/ m \in Messages /\ (StoneTold(uid, m) \/ (statu = GAME_START /\ EndTold(m)))
<1> DEFINE answer == handle_chess(uid, cell, 0)
<1>0. 0 \in Claims /\ (answer.winner # 0 => answer.result)
  BY DEF Claims, handle_chess
<1>1. CASE Refused
  <2>1. UNCHANGED <<statu, board>> /\ UNCHANGED vars
    BY <1>1 DEF Refused, vars, game
  <2>2. m = Quiet
    BY <2>1 DEF put_chess_resp
  <2>3. QED BY <2>1, <2>2
<1>2. CASE PutChessTooLate(uid)
  <2>1. /\ statu = GAME_START /\ statu' = GAME_OVER /\ timing_started /\ Expired(0)
        /\ UNCHANGED <<white_id, black_id, initiator, online, conns>>
    BY <1>2 DEF PutChessTooLate, Settle, presence
  <2>2. m = TimeoutMsg
    BY <2>1 DEF put_chess_resp
  <2>3. m \in Messages /\ EndsRound(m)
    BY <2>2 DEF Messages, TimeoutMsg, EndsRound
  <2>4. QED BY <2>1, <2>3 DEF EndTold
<1>3. CASE /\ statu = GAME_START
           /\ ~OutOfTurn(uid)
           /\ timing_started => ~Expired(0)
           /\ answer.result
           /\ answer.winner = 0
           /\ board' = answer.board
           /\ timing_started' = TRUE
           /\ total_left' = ClocksAfterStone
           /\ turn_uid' = Opponent(uid)
           /\ UNCHANGED <<statu, white_id, black_id, initiator, ledger, presence>>
  <2>1. board[cell] = EMPTY /\ answer.board = [board EXCEPT ![cell] = ColorOf(uid)]
    BY <1>0, <1>3, UndecidedStone
  <2>2. board'[cell] = ColorOf(uid) /\ board' # board
    <3>1. ColorOf(uid) # EMPTY
      BY DEF ColorOf, CHESS_WHITE, CHESS_BLACK, EMPTY
    <3>2. QED BY <1>3, <2>1, <3>1 DEF Inv, TypeOK, Boards
  <2>3. m = PutChessMsg(uid, cell, 0, total_left')
    BY <1>3, <2>2 DEF put_chess_resp
  <2>4. total_left' \in [Colors -> 0 .. TOTAL_INIT_MS]
    BY <1>3, ClocksStayPositive
  <2>5. m \in Messages
    BY <2>3, <2>4 DEF Messages, PutChessMsg
  <2>6. both_players_online
    BY <1>0, <1>3, HandleChessAnswers
  <2> HIDE DEF answer
  <2>7. statu' = GAME_START /\ UNCHANGED <<white_id, black_id, initiator, online, conns>>
    BY <1>3 DEF presence
  <2>8. StoneTold(uid, m)
    BY <1>3, <2>1, <2>3, <2>6, <2>7 DEF StoneTold
  <2>9. QED BY <2>5, <2>8
<1>4. CASE /\ statu = GAME_START
           /\ timing_started => ~Expired(0)
           /\ answer.winner # 0
           /\ Settle(answer.winner)
           /\ UNCHANGED <<total_left, presence>>
  <2>1. /\ statu' = GAME_OVER /\ statu' # statu
        /\ UNCHANGED <<white_id, black_id, initiator, online, conns>>
    BY <1>4 DEF Settle, presence
  <2>2. m = PutChessMsg(uid, cell, answer.winner, total_left')
    BY <1>4, <2>1 DEF put_chess_resp
  <2>3. answer.winner \in Players
    BY <1>0, <1>4, HandleChessAnswers
  <2>4. total_left' \in [Colors -> 0 .. TOTAL_INIT_MS]
    BY <1>4 DEF Inv, TypeOK
  <2> HIDE DEF answer
  <2>5. m \in Messages /\ EndsRound(m)
    BY <1>4, <2>2, <2>3, <2>4 DEF Messages, PutChessMsg, EndsRound
  <2>6. QED BY <1>4, <2>1, <2>5 DEF EndTold
<1>5. CASE PutChess(uid, cell, 0)
  <2>1. CASE /\ statu = GAME_START
             /\ timing_started => ~Expired(0)
             /\ answer.winner # 0
             /\ Settle(answer.winner)
             /\ UNCHANGED <<timing_started, turn_uid, elapsed, total_left, presence>>
    BY <1>4, <2>1
  <2> HIDE DEF answer
  <2>2. QED BY <1>1, <1>3, <1>5, <2>1 DEF PutChess, answer
<1>6. QED BY <1>1, <1>2, <1>5 DEF put_chess, PutChessRefused

LEMMA TimeoutTells ==
    ASSUME Inv, NEW uid \in Players, timeout(uid), NEW m, m = timeout_resp
    PROVE  \/ m = Quiet /\ UNCHANGED vars /\ TimeoutRefused(uid)
           \/ m \in Messages /\ statu = GAME_START /\ EndTold(m)
<1>1. CASE TimeoutRefused(uid)
  <2>1. UNCHANGED statu /\ UNCHANGED vars
    BY <1>1 DEF TimeoutRefused, Refused, vars, game
  <2>2. QED BY <1>1, <2>1 DEF timeout_resp
<1>2. CASE TimeoutSettled(uid)
  <2>1. /\ statu = GAME_START /\ statu' = GAME_OVER
        /\ UNCHANGED <<white_id, black_id, initiator, online, conns>>
    BY <1>2 DEF TimeoutSettled, Settle, presence
  <2>2. m = TimeoutMsg
    BY <2>1 DEF timeout_resp
  <2>3. m \in Messages /\ EndsRound(m)
    BY <2>2 DEF Messages, TimeoutMsg, EndsRound
  <2>4. QED BY <2>1, <2>3 DEF EndTold
<1>3. QED BY <1>1, <1>2 DEF timeout

LEMMA InviteTells ==
    ASSUME Inv, NEW uid \in Players, RematchInvite(uid), NEW m, m = rematch_invite_resp(uid)
    PROVE  \/ m = Quiet /\ UNCHANGED vars
           \/ m \in Messages /\ InviteTold(uid, m)
<1>1. CASE ~InviteAllowed /\ Refused
  <2>1. UNCHANGED initiator /\ UNCHANGED vars
    BY <1>1 DEF Refused, vars, game
  <2>2. QED BY <2>1 DEF rematch_invite_resp
<1>2. CASE /\ InviteAllowed
           /\ initiator' = uid
           /\ UNCHANGED <<statu, white_id, black_id, board, timing_started, turn_uid,
                          elapsed, total_left, ledger, presence>>
  <2>1. initiator' # initiator
    BY <1>2 DEF InviteAllowed, Players
  <2>2. m = InviteMsg(uid, white_id) /\ white_id \in Players
    BY <2>1 DEF rematch_invite_resp, Inv, TypeOK
  <2>3. m \in Messages
    BY <2>2 DEF Messages, InviteMsg
  <2>4. QED BY <1>2, <2>2, <2>3 DEF InviteTold, presence
<1>3. QED BY <1>1, <1>2 DEF RematchInvite

LEMMA AcceptTells ==
    ASSUME Inv, NEW uid \in Players, rematch_accept(uid), NEW m, m = rematch_accept_resp
    PROVE  \/ m = Quiet /\ UNCHANGED vars /\ ~AcceptAllowed(uid)
           \/ m \in Messages /\ RematchTold(uid, m)
<1>1. CASE RematchRefused(uid)
  <2>1. UNCHANGED statu /\ UNCHANGED vars
    BY <1>1 DEF RematchRefused, Refused, vars, game
  <2>2. QED BY <1>1, <2>1 DEF rematch_accept_resp, RematchRefused
<1>2. CASE RematchStart(uid)
  <2>1. /\ AcceptAllowed(uid) /\ statu = GAME_OVER
        /\ statu' = GAME_START
        /\ white_id' = black_id /\ black_id' = white_id
        /\ board' = EmptyBoard
        /\ timing_started' = FALSE
        /\ turn_uid' = white_id
        /\ initiator' = 0
        /\ UNCHANGED <<online, conns>>
    BY <1>2 DEF RematchStart, AcceptAllowed, presence
  <2>2. m = RematchMsg(black_id) /\ black_id \in Players
    BY <2>1 DEF rematch_accept_resp, Inv, TypeOK
  <2>3. m \in Messages
    BY <2>2 DEF Messages, RematchMsg
  <2>4. QED BY <2>1, <2>2, <2>3 DEF RematchTold
<1>3. QED BY <1>1, <1>2 DEF rematch_accept

-----------------------------------------------------------------------------
(* A player has a connection exactly while the room counts him in.         *)
Connected ==
    \A uid \in Players :
        /\ uid \in online <=> conns[uid] > 0
        /\ conns[uid] = 0 => inbox[uid] = <<>> /\ outbox[uid] = <<>>

Base == Inv /\ PageTypeOK /\ Connected

(* A player's close handler runs when the player is out of the room.       *)
LEMMA ExitTells ==
    ASSUME Base, Registered, NEW uid \in Players, wsclose_game_room(uid), NEW m, m = exit_resp(uid)
    PROVE  m \in Messages /\ EndTold(m) /\ uid \notin online
<1>1. /\ conns \in [Players -> 0 .. 1] /\ closing \in [Players -> 0 .. 1]
      /\ conns[uid] + closing[uid] <= 1 /\ closing[uid] > 0
      /\ player_count \in 0 .. 2 /\ UNCHANGED conns
  BY DEF Base, Inv, TypeOK, wsclose_game_room
<1>2. conns[uid] = 0
  BY <1>1
<1>3. uid \notin online
  BY <1>2 DEF Base, Connected
<1>4. online' = online /\ player_count' = player_count - 1 /\ player_count' # player_count
  BY <1>1, <1>3 DEF wsclose_game_room
<1>5. CASE statu = GAME_START /\ Settle(Opponent(uid))
  <2>1. m = PutChessMsg(uid, NoCell, Opponent(uid), total_left)
    BY <1>4, <1>5 DEF exit_resp
  <2>2. Opponent(uid) \in Players /\ total_left \in [Colors -> 0 .. TOTAL_INIT_MS]
    BY OpponentIsOther DEF Base, Inv, TypeOK
  <2>3. m \in Messages /\ EndsRound(m)
    BY <2>1, <2>2 DEF Messages, PutChessMsg, EndsRound, Players
  <2>4. QED BY <1>1, <1>3, <1>4, <1>5, <2>3 DEF EndTold, Settle
<1>6. CASE statu = GAME_OVER /\ UNCHANGED <<statu, white_id, black_id, initiator, ledger>>
  <2>1. m = PeerLeft
    BY <1>4, <1>6 DEF exit_resp
  <2>2. m \in Messages /\ EndsRound(m)
    BY <2>1 DEF Messages, PeerLeft, EndsRound
  <2>3. QED BY <1>1, <1>3, <1>4, <1>6, <2>2 DEF EndTold
<1>7. QED BY <1>5, <1>6 DEF wsclose_game_room

-----------------------------------------------------------------------------
(* A step of the io thread: a request refused, or a change that is told.   *)
Pops(uid, kinds) ==
    /\ outbox[uid] # <<>>
    /\ Head(outbox[uid]).optype \in kinds
    /\ outbox' = [outbox EXCEPT ![uid] = Tail(@)]

RefusedStep(uid) ==
    /\ UNCHANGED <<vars, inbox, view>>
    /\ Pops(uid, {"put_chess", "timeout", "rematch_invite", "rematch_accept"})
    /\ Head(outbox[uid]).optype = "timeout" => TimeoutRefused(uid)
    /\ Head(outbox[uid]).optype = "rematch_accept" => ~AcceptAllowed(uid)

ToldStep(uid, m) ==
    /\ m \in Messages
    /\ SendsTo(online', m)
    /\ UNCHANGED view
    /\ \/ Pops(uid, {"put_chess"}) /\ StoneTold(uid, m)
       \/ Pops(uid, {"put_chess", "timeout"}) /\ statu = GAME_START /\ EndTold(m)
       \/ Pops(uid, {"rematch_invite"}) /\ InviteTold(uid, m)
       \/ Pops(uid, {"rematch_accept"}) /\ RematchTold(uid, m)
       \/ UNCHANGED outbox /\ uid \notin online /\ EndTold(m)

LEMMA QuietIsNoMessage == Quiet \notin Messages
BY DEF Quiet, Messages, TimeoutMsg, PeerLeft

LEMMA QuietBroadcast ==
    ASSUME PageTypeOK, broadcast(Quiet)
    PROVE  UNCHANGED inbox
BY DEF PageTypeOK, broadcast, SendsTo

LEMMA ServerSteps ==
    ASSUME Base, Registered, NEW uid \in Players, wsmsg_game_room(uid) \/ ClosesPage(uid)
    PROVE  RefusedStep(uid) \/ \E m : ToldStep(uid, m)
<1> DEFINE request == Head(outbox[uid])
<1>1. Inv /\ PageTypeOK
  BY DEF Base
<1>2. \A m \in Messages : broadcast(m) => SendsTo(online', m)
  BY QuietIsNoMessage DEF broadcast
<1>3. CASE ClosesPage(uid)
  <2>1. PICK m : m = exit_resp(uid)
    OBVIOUS
  <2>2. m \in Messages /\ EndTold(m) /\ uid \notin online
    BY <1>3, <2>1, ExitTells DEF ClosesPage
  <2>3. SendsTo(online', m) /\ UNCHANGED <<outbox, view>>
    BY <1>2, <1>3, <2>1, <2>2 DEF ClosesPage
  <2>4. QED BY <2>2, <2>3 DEF ToldStep
<1>4. CASE wsmsg_game_room(uid)
  <2>1. /\ outbox[uid] # <<>> /\ UNCHANGED view
        /\ outbox' = [outbox EXCEPT ![uid] = Tail(@)]
    BY <1>4 DEF wsmsg_game_room
  <2>2. outbox[uid] \in Seq(Requests)
    BY <1>1 DEF PageTypeOK
  <2>3. request \in Requests
    BY <2>1, <2>2
  <2>4. ASSUME UNCHANGED vars, broadcast(Quiet),
               request.optype = "timeout" => TimeoutRefused(uid),
               request.optype = "rematch_accept" => ~AcceptAllowed(uid)
        PROVE  RefusedStep(uid)
    <3>1. request.optype \in {"put_chess", "timeout", "rematch_invite", "rematch_accept"}
      BY <2>3 DEF Requests, Request
    <3> HIDE DEF request
    <3>2. QED BY <1>1, <2>1, <2>4, <3>1, QuietBroadcast DEF RefusedStep, Pops, request
  <2>5. CASE /\ request.optype = "put_chess"
             /\ put_chess(uid, request.cell)
             /\ broadcast(put_chess_resp(uid, request.cell))
    <3>1. request.cell \in Cells
      BY <2>3, <2>5 DEF Requests, Request
    <3>2. PICK m : m = put_chess_resp(uid, request.cell)
      OBVIOUS
    <3>3. \/ m = Quiet /\ UNCHANGED vars
          \/ m \in Messages /\ (StoneTold(uid, m) \/ (statu = GAME_START /\ EndTold(m)))
      BY <1>1, <2>5, <3>1, <3>2, PutChessTells
    <3>4. broadcast(m)
      BY <2>5, <3>2
    <3>5. CASE m = Quiet /\ UNCHANGED vars
      BY <2>4, <2>5, <3>4, <3>5
    <3>6. CASE m \in Messages /\ (StoneTold(uid, m) \/ (statu = GAME_START /\ EndTold(m)))
      BY <1>2, <2>1, <2>5, <3>4, <3>6 DEF ToldStep, Pops
    <3>7. QED BY <3>3, <3>5, <3>6
  <2>6. CASE request.optype = "timeout" /\ timeout(uid) /\ broadcast(timeout_resp)
    <3>1. PICK m : m = timeout_resp
      OBVIOUS
    <3>2. \/ m = Quiet /\ UNCHANGED vars /\ TimeoutRefused(uid)
          \/ m \in Messages /\ statu = GAME_START /\ EndTold(m)
      BY <1>1, <2>6, <3>1, TimeoutTells
    <3>3. broadcast(m)
      BY <2>6, <3>1
    <3>4. CASE m = Quiet /\ UNCHANGED vars /\ TimeoutRefused(uid)
      BY <2>4, <2>6, <3>3, <3>4
    <3>5. CASE m \in Messages /\ statu = GAME_START /\ EndTold(m)
      BY <1>2, <2>1, <2>6, <3>3, <3>5 DEF ToldStep, Pops
    <3>6. QED BY <3>2, <3>4, <3>5
  <2>7. CASE /\ request.optype = "rematch_invite"
             /\ RematchInvite(uid)
             /\ broadcast(rematch_invite_resp(uid))
    <3>1. PICK m : m = rematch_invite_resp(uid)
      OBVIOUS
    <3>2. \/ m = Quiet /\ UNCHANGED vars
          \/ m \in Messages /\ InviteTold(uid, m)
      BY <1>1, <2>7, <3>1, InviteTells
    <3>3. broadcast(m)
      BY <2>7, <3>1
    <3>4. CASE m = Quiet /\ UNCHANGED vars
      BY <2>4, <2>7, <3>3, <3>4
    <3>5. CASE m \in Messages /\ InviteTold(uid, m)
      BY <1>2, <2>1, <2>7, <3>3, <3>5 DEF ToldStep, Pops
    <3>6. QED BY <3>2, <3>4, <3>5
  <2>8. CASE /\ request.optype = "rematch_accept"
             /\ rematch_accept(uid)
             /\ broadcast(rematch_accept_resp)
    <3>1. PICK m : m = rematch_accept_resp
      OBVIOUS
    <3>2. \/ m = Quiet /\ UNCHANGED vars /\ ~AcceptAllowed(uid)
          \/ m \in Messages /\ RematchTold(uid, m)
      BY <1>1, <2>8, <3>1, AcceptTells
    <3>3. broadcast(m)
      BY <2>8, <3>1
    <3>4. CASE m = Quiet /\ UNCHANGED vars /\ ~AcceptAllowed(uid)
      BY <2>4, <2>8, <3>3, <3>4
    <3>5. CASE m \in Messages /\ RematchTold(uid, m)
      BY <1>2, <2>1, <2>8, <3>3, <3>5 DEF ToldStep, Pops
    <3>6. QED BY <3>2, <3>4, <3>5
  <2>9. QED BY <1>4, <2>5, <2>6, <2>7, <2>8 DEF wsmsg_game_room
<1>5. QED BY <1>3, <1>4

-----------------------------------------------------------------------------
(* A step of a page of its own, a request sent or none.                    *)
Asks(uid, request) ==
    /\ request \in Requests
    /\ conns[uid] > 0
    /\ Len(outbox[uid]) < MaxOutbox
    /\ outbox' = [outbox EXCEPT ![uid] = Append(@, request)]
    /\ UNCHANGED <<vars, inbox>>

SameCores ==
    /\ view' \in [Players -> Pages]
    /\ \A uid \in Players : Core(view'[uid]) = Core(view[uid])

LEMMA ClicksAsks ==
    ASSUME Base, NEW uid \in Players, NEW cell \in Cells, Clicks(uid, cell)
    PROVE  Asks(uid, [optype |-> "put_chess", cell |-> cell]) /\ SameCores
BY DEF Clicks, Sends, Ready, Asks, Requests, SameCores, Base, PageTypeOK

LEMMA ChangedPage ==
    ASSUME Base, NEW uid \in Players, NEW page \in Pages, Core(page) = Core(view[uid]),
           view' = [view EXCEPT ![uid] = page]
    PROVE  SameCores
BY DEF Base, PageTypeOK, SameCores

(* At zero the page of the player to move reports, the other one stops.    *)
Reports(uid) == tickClock(uid) /\ view[uid].thinking = uid
Stops(uid) == tickClock(uid) /\ view[uid].thinking # uid

LEMMA ClockAtZero ==
    ASSUME Base, NEW uid \in Players, tickClock(uid)
    PROVE  /\ SameCores
           /\ view[uid].thinking # 0
           /\ view'[uid].thinking = 0 /\ view'[uid].timeoutSent
           /\ view'[uid].panel = view[uid].panel
           /\ \A other \in Players \ {uid} : view'[other] = view[other]
<1> DEFINE page == [view[uid] EXCEPT !.thinking = 0, !.timeoutSent = TRUE]
<1>1. view[uid] \in Pages /\ view \in [Players -> Pages]
  BY DEF Base, PageTypeOK
<1>2. /\ page \in Pages /\ Core(page) = Core(view[uid])
      /\ page.thinking = 0 /\ page.timeoutSent /\ page.panel = view[uid].panel
  BY <1>1 DEF Pages, Core
<1>3. view' = [view EXCEPT ![uid] = page]
  BY <1>1 DEF tickClock
<1> HIDE DEF page
<1>4. QED BY <1>1, <1>2, <1>3, ChangedPage DEF tickClock, ClockEmpty

LEMMA ReportAsks ==
    ASSUME Base, NEW uid \in Players, Reports(uid)
    PROVE  Asks(uid, Request("timeout")) /\ SameCores
BY ClockAtZero DEF Reports, tickClock, Sends, Ready, Asks, Requests

LEMMA RematchAsks ==
    ASSUME Base, NEW uid \in Players,
           NEW optype \in {"rematch_invite", "rematch_accept"},
           NEW panel \in {"sent", "accepted"},
           Sends(uid, Request(optype)), view' = [view EXCEPT ![uid].panel = panel]
    PROVE  Asks(uid, Request(optype)) /\ SameCores
<1> DEFINE page == [view[uid] EXCEPT !.panel = panel]
<1>1. view[uid] \in Pages /\ view \in [Players -> Pages]
  BY DEF Base, PageTypeOK
<1>2. page \in Pages /\ Core(page) = Core(view[uid])
  BY <1>1 DEF Pages, Core
<1>3. view' = [view EXCEPT ![uid] = page]
  BY <1>1
<1> HIDE DEF page
<1>4. QED BY <1>2, <1>3, ChangedPage DEF Sends, Ready, Asks, Requests

(* What a page does by itself leaves its core alone. *)
OwnStep(uid) ==
    \/ \E cell \in Cells : Clicks(uid, cell)
    \/ Reports(uid)
    \/ sendRematchInvite(uid)
    \/ sendRematchAccept(uid)

LEMMA OwnSteps ==
    ASSUME Base, NEW uid \in Players, OwnStep(uid)
    PROVE  SameCores /\ \E request : Asks(uid, request)
<1>1. CASE sendRematchInvite(uid)
  BY <1>1, RematchAsks DEF sendRematchInvite
<1>2. CASE sendRematchAccept(uid)
  BY <1>2, RematchAsks DEF sendRematchAccept
<1>3. QED BY <1>1, <1>2, ClicksAsks, ReportAsks DEF OwnStep

LEMMA PassesFields ==
    ASSUME NEW p \in Pages
    PROVE  /\ Passes(p) \in Pages
           /\ Core(Passes(p)) = Core(p)
           /\ Passes(p).thinking = p.thinking /\ Passes(p).left = p.left
           /\ Passes(p).timeoutSent = p.timeoutSent /\ Passes(p).panel = p.panel
           /\ Passes(p).spent = IF p.thinking = 0 \/ ClockEmpty(p) THEN p.spent ELSE p.spent + 1
           /\ Passes(p).spent <= STEP_INIT_MS
<1>1. CASE p.thinking = 0 \/ ClockEmpty(p)
  BY <1>1 DEF Passes, Pages
<1>2. CASE ~(p.thinking = 0 \/ ClockEmpty(p))
  <2>1. p.spent < STEP_INIT_MS /\ p.spent \in 0 .. STEP_INIT_MS
    BY <1>2 DEF ClockEmpty, Pages
  <2>2. p.spent + 1 \in 0 .. STEP_INIT_MS
    BY <2>1
  <2>3. Passes(p) = [p EXCEPT !.spent = p.spent + 1]
    BY <1>2 DEF Passes
  <2>4. QED BY <1>2, <2>2, <2>3 DEF Pages, Core
<1>3. QED BY <1>1, <1>2

(* Time passes, or runs out for the page of the player who waits. *)
Idles == Time \/ \E uid \in Players : Stops(uid)

LEMMA IdleSteps ==
    ASSUME Base, Idles
    PROVE  /\ SameCores /\ UNCHANGED traffic /\ (Tick \/ UNCHANGED vars)
           /\ \A uid \in Players :
                /\ view'[uid].panel = view[uid].panel
                /\ view'[uid].thinking \in {view[uid].thinking, 0}
<1>1. CASE Time
  BY <1>1, PassesFields DEF Time, SameCores, Base, PageTypeOK
<1>2. ASSUME NEW uid \in Players, Stops(uid)
      PROVE  /\ SameCores /\ UNCHANGED <<vars, traffic>>
             /\ \A other \in Players :
                  /\ view'[other].panel = view[other].panel
                  /\ view'[other].thinking \in {view[other].thinking, 0}
  <2>1. SameCores /\ \A other \in Players :
                       /\ view'[other].panel = view[other].panel
                       /\ view'[other].thinking \in {view[other].thinking, 0}
    BY <1>2, ClockAtZero DEF Stops
  <2>2. UNCHANGED <<vars, traffic>>
    BY <1>2 DEF Stops, tickClock
  <2>3. QED BY <2>1, <2>2
<1>3. QED BY <1>1, <1>2 DEF Idles

(* The user of a page dismisses an alert, or nothing happens. *)
Rests == UNCHANGED <<vars, traffic, view>>

LEMMA RestingSteps ==
    /\ UNCHANGED allvars => Rests
    /\ \A uid \in Players : Dismisses(uid) => Rests
BY DEF allvars, Dismisses, Rests

(* Opening the room and leaving it, with one connection. *)
LEMMA OpenSteps ==
    ASSUME Base, NEW uid \in Players, wsopen_game_room(uid)
    PROVE  /\ uid \notin online /\ closing[uid] = 0
           /\ conns[uid] = 0 /\ inbox[uid] = <<>> /\ outbox[uid] = <<>>
           /\ online' = online \cup {uid} /\ conns' = [conns EXCEPT ![uid] = 1]
           /\ UNCHANGED game
<1>1. /\ conns \in [Players -> 0 .. 1] /\ closing \in [Players -> 0 .. 1]
      /\ conns[uid] + closing[uid] < 1
  BY DEF Base, Inv, TypeOK, wsopen_game_room
<1>2. conns[uid] = 0 /\ closing[uid] = 0
  BY <1>1
<1>3. QED BY <1>1, <1>2 DEF Base, Connected, wsopen_game_room

LEMMA DropSteps ==
    ASSUME Base, NEW uid \in Players, Drop(uid)
    PROVE  /\ online' = online \ {uid} /\ conns' = [conns EXCEPT ![uid] = 0]
           /\ UNCHANGED game
<1>1. conns \in [Players -> 0 .. 1] /\ conns[uid] = 1
  BY DEF Base, Inv, TypeOK, Drop
<1>2. QED BY <1>1 DEF Drop

(* Every step of a page and its traffic is a step of the room or none.     *)
LEMMA PageStepsRoom == Base /\ [PageNext]_allvars => [Next]_vars
<1>1. SUFFICES ASSUME Base, [PageNext]_allvars, ~UNCHANGED vars
               PROVE  Next
  OBVIOUS
<1>2. Registered /\ PageNext
  BY <1>1 DEF allvars, PageNext
<1>3. CASE Idles
  BY <1>1, <1>2, <1>3, IdleSteps DEF Next
<1>4. ASSUME NEW uid \in Players, wsmsg_game_room(uid)
      PROVE  Next
  <2>1. outbox[uid] # <<>> /\ outbox[uid] \in Seq(Requests)
    BY <1>1, <1>4 DEF wsmsg_game_room, Base, PageTypeOK
  <2>2. Head(outbox[uid]) \in Requests
    BY <2>1
  <2>3. Head(outbox[uid]).optype = "put_chess" => Head(outbox[uid]).cell \in Cells
    BY <2>2 DEF Requests, Request
  <2>4. conns[uid] > 0
    BY <1>1, <2>1 DEF Base, Connected, Inv, TypeOK
  <2>5. handle_request(uid)
    BY <1>4, <2>3, <2>4
    DEF wsmsg_game_room, handle_request, put_chess, timeout, rematch_accept, Aims, Claims
  <2>6. QED BY <1>2, <2>5 DEF Next
<1>5. ASSUME NEW uid \in Players, OpensPage(uid) \/ DropsPage(uid) \/ ClosesPage(uid)
      PROVE  Next
  BY <1>2, <1>5 DEF Next, OpensPage, DropsPage, ClosesPage
<1>6. ASSUME NEW uid \in Players, onmessage(uid) \/ OwnStep(uid)
      PROVE  FALSE
  BY <1>1, <1>6, OwnSteps DEF onmessage, Asks
<1>7. QED
  BY <1>1, <1>2, <1>3, <1>4, <1>5, <1>6, RestingSteps
  DEF PageNext, EventLoop, OwnStep, Reports, Stops, Idles, Rests

-----------------------------------------------------------------------------
(* Types and connections through every step. *)
InboxOK ==
    /\ inbox \in [Players -> Seq(Messages)]
    /\ \A uid \in Players : Len(inbox[uid]) <= MaxInbox
OutboxOK ==
    /\ outbox \in [Players -> Seq(Requests)]
    /\ \A uid \in Players : Len(outbox[uid]) <= MaxOutbox

LEMMA QueuesOK ==
    PageTypeOK <=> /\ TypeOK /\ InboxOK /\ OutboxOK
                   /\ view \in [Players -> Pages] /\ alerted \subseteq Players
BY DEF PageTypeOK, InboxOK, OutboxOK

LEMMA AlertsTyped ==
    ASSUME PageTypeOK, TypeOK', [PageNext]_allvars
    PROVE  alerted' \subseteq Players
<1>1. alerted \subseteq Players /\ online' \subseteq Players
  BY DEF PageTypeOK, TypeOK
<1>2. ASSUME NEW m, broadcast(m)
      PROVE  alerted' \subseteq Players
  BY <1>1, <1>2 DEF broadcast
<1>3. ASSUME NEW uid \in Players, wsmsg_game_room(uid) \/ ClosesPage(uid)
      PROVE  alerted' \subseteq Players
  BY <1>2, <1>3 DEF wsmsg_game_room, ClosesPage
<1>4. ASSUME NEW uid \in Players, DropsPage(uid) \/ Dismisses(uid)
      PROVE  alerted' \subseteq Players
  BY <1>1, <1>4 DEF DropsPage, Dismisses
<1>5. ASSUME NEW uid \in Players,
             \/ \E cell \in Cells : Clicks(uid, cell)
             \/ EventLoop(uid)
             \/ sendRematchInvite(uid)
             \/ sendRematchAccept(uid)
             \/ OpensPage(uid)
      PROVE  alerted' = alerted
  BY <1>5 DEF Clicks, EventLoop, onmessage, tickClock, sendRematchInvite, sendRematchAccept,
              OpensPage, Sends
<1>6. Time => alerted' = alerted
  BY DEF Time
<1>7. UNCHANGED allvars => alerted' = alerted
  BY DEF allvars
<1>8. QED BY <1>1, <1>3, <1>4, <1>5, <1>6, <1>7 DEF PageNext

LEMMA SendsTyped ==
    ASSUME InboxOK, NEW hearers, NEW m \in Messages, SendsTo(hearers, m)
    PROVE  InboxOK'
<1>1. ASSUME NEW uid \in Players, uid \in hearers
      PROVE  /\ Append(inbox[uid], m) \in Seq(Messages)
             /\ Len(Append(inbox[uid], m)) <= MaxInbox
  BY <1>1 DEF InboxOK, SendsTo
<1>2. QED BY <1>1 DEF InboxOK, SendsTo

LEMMA PopsTyped ==
    ASSUME OutboxOK, NEW uid \in Players, NEW kinds, Pops(uid, kinds)
    PROVE  OutboxOK'
<1>1. Tail(outbox[uid]) \in Seq(Requests) /\ Len(Tail(outbox[uid])) <= MaxOutbox
  BY DEF OutboxOK, Pops
<1>2. QED BY <1>1 DEF OutboxOK, Pops

LEMMA AsksTyped ==
    ASSUME OutboxOK, NEW uid \in Players, NEW request, Asks(uid, request)
    PROVE  OutboxOK'
<1>1. Append(outbox[uid], request) \in Seq(Requests) /\ Len(Append(outbox[uid], request)) <= MaxOutbox
  BY DEF OutboxOK, Asks
<1>2. QED BY <1>1 DEF OutboxOK, Asks

LEMMA ClearedTyped ==
    ASSUME InboxOK, OutboxOK, NEW uid \in Players,
           inbox' = [inbox EXCEPT ![uid] = <<>>], outbox' = [outbox EXCEPT ![uid] = <<>>]
    PROVE  InboxOK' /\ OutboxOK'
<1>1. <<>> \in Seq(Messages) /\ <<>> \in Seq(Requests) /\ Len(<<>>) = 0
  OBVIOUS
<1>2. QED BY <1>1 DEF InboxOK, OutboxOK

LEMMA ShownTypes ==
    ASSUME PageTypeOK, NEW uid \in Players, onmessage(uid)
    PROVE  /\ InboxOK' /\ view' \in [Players -> Pages]
           /\ inbox[uid] \in Seq(Messages) /\ inbox[uid] # <<>> /\ Head(inbox[uid]) \in Messages
           /\ inbox'[uid] = Tail(inbox[uid])
           /\ view'[uid] = Shown(uid, view[uid], Head(inbox[uid]))
           /\ \A other \in Players \ {uid} : inbox'[other] = inbox[other] /\ view'[other] = view[other]
<1>1. /\ InboxOK /\ view \in [Players -> Pages]
      /\ inbox[uid] \in Seq(Messages) /\ inbox[uid] # <<>>
  BY QueuesOK DEF InboxOK, onmessage
<1>2. /\ Head(inbox[uid]) \in Messages /\ Tail(inbox[uid]) \in Seq(Messages)
      /\ Len(Tail(inbox[uid])) <= MaxInbox
  BY <1>1 DEF InboxOK
<1>3. Shown(uid, view[uid], Head(inbox[uid])) \in Pages
  BY <1>1, <1>2, ShownTyped
<1>4. QED BY <1>1, <1>2, <1>3 DEF onmessage, InboxOK

LEMMA BaseKept ==
    ASSUME Base, Inv', InboxOK', OutboxOK', view' \in [Players -> Pages],
           alerted' \subseteq Players, UNCHANGED <<online, conns>>,
           \A uid \in Players : conns[uid] = 0 => inbox'[uid] = <<>> /\ outbox'[uid] = <<>>
    PROVE  Base'
<1>1. TypeOK'
  BY DEF Inv
<1>2. Connected'
  BY DEF Base, Connected
<1>3. PageTypeOK'
  BY <1>1 DEF PageTypeOK, InboxOK, OutboxOK
<1>4. QED BY <1>2, <1>3 DEF Base

LEMMA BaseMoved ==
    ASSUME Base, Inv', alerted' \subseteq Players, NEW uid \in Players,
           OpensPage(uid) \/ DropsPage(uid)
    PROVE  Base'
<1>1. /\ InboxOK /\ OutboxOK /\ view \in [Players -> Pages] /\ TypeOK'
      /\ conns \in [Players -> 0 .. 1]
  BY QueuesOK DEF Base, Inv, TypeOK
<1>2. \A late \in BOOLEAN : [view EXCEPT ![uid] = NewPage(late)] \in [Players -> Pages]
  BY <1>1, NewPageFields
<1>3. CASE OpensPage(uid)
  <2>1. /\ inbox[uid] = <<>> /\ outbox[uid] = <<>> /\ conns[uid] = 0
        /\ online' = online \cup {uid} /\ conns' = [conns EXCEPT ![uid] = 1]
    BY <1>3, OpenSteps DEF OpensPage
  <2>2. InboxOK'
    <3>1. RoomReady(white_id) \in Messages
      BY DEF Base, Inv, TypeOK, RoomReady, Messages
    <3>2. QED BY <1>1, <1>3, <3>1, SendsTyped DEF OpensPage
  <2>3. OutboxOK' /\ view' \in [Players -> Pages]
    BY <1>1, <1>2, <1>3 DEF OpensPage, OutboxOK
  <2>4. \A other \in Players \ {uid} : inbox'[other] = inbox[other] /\ outbox'[other] = outbox[other]
    BY <1>3 DEF OpensPage, SendsTo
  <2>5. Connected'
    BY <1>1, <2>1, <2>4 DEF Base, Connected
  <2>6. QED BY <1>1, <2>2, <2>3, <2>5 DEF Base, PageTypeOK, InboxOK, OutboxOK
<1>4. CASE DropsPage(uid)
  <2>1. online' = online \ {uid} /\ conns' = [conns EXCEPT ![uid] = 0]
    BY <1>4, DropSteps DEF DropsPage
  <2>2. InboxOK' /\ OutboxOK'
    BY <1>1, <1>4, ClearedTyped DEF DropsPage
  <2>3. view' \in [Players -> Pages]
    BY <1>2, <1>4 DEF DropsPage
  <2>4. /\ inbox'[uid] = <<>> /\ outbox'[uid] = <<>>
        /\ \A other \in Players \ {uid} : inbox'[other] = inbox[other] /\ outbox'[other] = outbox[other]
    BY <1>1, <1>4 DEF DropsPage, InboxOK, OutboxOK
  <2>5. Connected'
    BY <1>1, <2>1, <2>4 DEF Base, Connected
  <2>6. QED BY <1>1, <2>2, <2>3, <2>5 DEF Base, PageTypeOK, InboxOK, OutboxOK
<1>5. QED BY <1>3, <1>4

LEMMA BaseStep == Base /\ [PageNext]_allvars => Base'
<1>1. SUFFICES ASSUME Base, [PageNext]_allvars
               PROVE  Base'
  OBVIOUS
<1>2. Inv' /\ alerted' \subseteq Players
  <2>1. Inv'
    BY <1>1, PageStepsRoom, StepInv DEF Base
  <2>2. QED BY <1>1, <2>1, AlertsTyped DEF Base, Inv
<1>3. /\ InboxOK /\ OutboxOK /\ view \in [Players -> Pages]
      /\ \A uid \in Players : conns[uid] = 0 => inbox[uid] = <<>> /\ outbox[uid] = <<>>
      /\ \A uid \in Players : uid \in online <=> conns[uid] > 0
      /\ conns \in [Players -> 0 .. 1]
  BY <1>1, QueuesOK DEF Base, Connected, Inv, TypeOK
<1>4. CASE Rests
  BY <1>1, <1>2, <1>3, <1>4, BaseKept DEF Rests, traffic, vars, presence, InboxOK, OutboxOK
<1>5. CASE Idles
  <2>1. view' \in [Players -> Pages] /\ UNCHANGED <<inbox, outbox, online, conns>>
    BY <1>1, <1>5, IdleSteps DEF SameCores, traffic, Tick, vars, presence
  <2>2. QED BY <1>1, <1>2, <1>3, <2>1, BaseKept DEF InboxOK, OutboxOK
<1>6. ASSUME NEW uid \in Players, OwnStep(uid)
      PROVE  Base'
  <2>1. view' \in [Players -> Pages]
    BY <1>1, <1>6, OwnSteps DEF SameCores
  <2>2. PICK request : Asks(uid, request)
    BY <1>1, <1>6, OwnSteps
  <2>3. /\ OutboxOK' /\ InboxOK' /\ UNCHANGED <<online, conns, inbox>>
        /\ \A other \in Players : conns[other] = 0 => outbox'[other] = outbox[other]
    BY <1>3, <2>2, AsksTyped DEF Asks, vars, presence, InboxOK, OutboxOK
  <2>4. QED BY <1>1, <1>2, <1>3, <2>1, <2>3, BaseKept
<1>7. ASSUME NEW uid \in Players, onmessage(uid)
      PROVE  Base'
  <2>1. /\ InboxOK' /\ view' \in [Players -> Pages] /\ inbox[uid] # <<>>
        /\ \A other \in Players \ {uid} : inbox'[other] = inbox[other]
    BY <1>1, <1>7, ShownTypes DEF Base
  <2>2. OutboxOK' /\ UNCHANGED <<outbox, online, conns>>
    BY <1>3, <1>7 DEF onmessage, OutboxOK, vars, presence
  <2>3. QED BY <1>1, <1>2, <1>3, <2>1, <2>2, BaseKept
<1>8. ASSUME NEW uid \in Players, Registered, wsmsg_game_room(uid) \/ ClosesPage(uid)
      PROVE  Base'
  <2>1. ASSUME NEW kinds, Pops(uid, kinds)
        PROVE  /\ OutboxOK'
               /\ \A other \in Players : conns[other] = 0 => outbox'[other] = <<>>
    BY <1>3, <2>1, PopsTyped DEF Pops, OutboxOK
  <2>2. CASE RefusedStep(uid)
    BY <1>1, <1>2, <1>3, <2>1, <2>2, BaseKept DEF RefusedStep, vars, presence, InboxOK
  <2>3. ASSUME NEW m, ToldStep(uid, m)
        PROVE  Base'
    <3>1. UNCHANGED <<online, conns, view>>
      BY <2>3 DEF ToldStep, StoneTold, EndTold, InviteTold, RematchTold
    <3>2. InboxOK' /\ SendsTo(online', m)
      BY <1>3, <2>3, SendsTyped DEF ToldStep
    <3>3. /\ OutboxOK'
          /\ \A other \in Players : conns[other] = 0 => outbox'[other] = <<>>
      BY <1>3, <2>1, <2>3 DEF ToldStep, OutboxOK
    <3>4. \A other \in Players : conns[other] = 0 => inbox'[other] = <<>>
      BY <1>3, <3>1, <3>2 DEF SendsTo
    <3>5. QED BY <1>1, <1>2, <1>3, <3>1, <3>2, <3>3, <3>4, BaseKept
  <2>4. QED BY <1>1, <1>8, <2>2, <2>3, ServerSteps
<1>9. ASSUME NEW uid \in Players, OpensPage(uid) \/ DropsPage(uid)
      PROVE  Base'
  BY <1>1, <1>2, <1>9, BaseMoved
<1>10. QED
  BY <1>1, <1>4, <1>5, <1>6, <1>7, <1>8, <1>9, RestingSteps
  DEF PageNext, EventLoop, OwnStep, Reports, Stops, Idles

LEMMA BaseInit == PageInit => Base
<1>1. SUFFICES ASSUME PageInit PROVE Base
  OBVIOUS
<1>2. Inv
  BY <1>1, InitInv DEF PageInit
<1>3. <<>> \in Seq(Messages) /\ <<>> \in Seq(Requests) /\ Len(<<>>) = 0
  OBVIOUS
<1>4. PageTypeOK
  <2>1. view \in [Players -> Pages]
    BY <1>1, NewPageFields DEF PageInit
  <2>2. /\ inbox \in [Players -> Seq(Messages)] /\ outbox \in [Players -> Seq(Requests)]
        /\ \A uid \in Players : inbox[uid] = <<>> /\ outbox[uid] = <<>>
    BY <1>1, <1>3 DEF PageInit
  <2>3. \A uid \in Players : Len(inbox[uid]) <= MaxInbox /\ Len(outbox[uid]) <= MaxOutbox
    BY <2>2
  <2>4. alerted \subseteq Players
    BY <1>1 DEF PageInit
  <2>5. QED BY <1>2, <2>1, <2>2, <2>3, <2>4 DEF PageTypeOK, Inv
<1>5. Connected
  BY <1>1 DEF PageInit, Init, Connected
<1>6. QED BY <1>2, <1>4, <1>5 DEF Base

(* A room with pages stays within its types, queues included.              *)
THEOREM PagesTyped == PageSpec => []PageTypeOK
<1>1. Base => PageTypeOK
  BY DEF Base
<1>2. QED BY <1>1, BaseInit, BaseStep, PTL DEF PageSpec

(* Whatever the pages send, whenever they are opened and dropped, the room *)
(* goes on as module Room has it: what is proved of Room holds here.       *)
THEOREM PageImplementsRoom == PageSpec => Spec
<1>1. PageInit => Init
  BY DEF PageInit
<1>2. QED BY <1>1, BaseInit, BaseStep, PageStepsRoom, PTL DEF PageSpec, Spec

(* A player who is missing from a clocked round is about to be counted out *)
(* of it.                                                                  *)
THEOREM AbsentPagesLeave == PageSpec => []AbsentMeansLeaving
<1>1. QED BY PageImplementsRoom, AbsentPlayersLeave, PTL

-----------------------------------------------------------------------------
(* What a page must show: the round that is played, or that it is over.    *)
Shows(uid, p) ==
    /\ statu = GAME_START => Agrees(p) /\ (p.myTurn <=> turn_uid = uid)
    /\ statu = GAME_OVER => p.status = "over" \/ p.late

(* The page of uid will show it when all its messages have come. *)
Follows(uid, trace) ==
    /\ Trace(uid, inbox[uid], view[uid], trace)
    /\ Shows(uid, trace[Len(trace)])

Longer(uid, trace, m) == Append(trace, Shown(uid, trace[Len(trace)], m))

LEMMA StoneShows ==
    ASSUME Base, NEW uid \in Players, NEW m \in Messages, StoneTold(uid, m),
           NEW w \in Players, NEW p \in Pages, Shows(w, p)
    PROVE  Shows(w, Shown(w, p, m))'
<1>1. PICK cell \in Cells : /\ m = PutChessMsg(uid, cell, 0, total_left')
                            /\ board' = [board EXCEPT ![cell] = ColorOf(uid)]
  BY DEF StoneTold
<1>2. StartsClock(m) /\ m.uid = uid /\ m.cell = cell
  BY <1>1 DEF StartsClock, PutChessMsg
<1>3. p.status = "playing" /\ p.board = board /\ p.white = white_id
  BY DEF Shows, StoneTold, Agrees
<1>4. /\ statu' = GAME_START /\ white_id' = white_id /\ turn_uid' = Opponent(uid)
      /\ Opponent(uid) = w <=> uid # w
  BY OpponentIsOther DEF StoneTold, Base, Inv, TypeOK, SeatsDistinct, Opponent, Players
<1>5. (IF m.uid = p.white THEN CHESS_WHITE ELSE CHESS_BLACK) = ColorOf(uid)
  BY <1>2, <1>3 DEF ColorOf
<1>6. /\ Shown(w, p, m).status = p.status /\ Shown(w, p, m).white = p.white
      /\ Shown(w, p, m).board = [p.board EXCEPT ![cell] = ColorOf(uid)]
      /\ Shown(w, p, m).myTurn <=> uid # w
  <2>1. /\ Shown(w, p, m).status = p.status /\ Shown(w, p, m).white = p.white
        /\ Shown(w, p, m).board = Drawn(w, p, m).board
        /\ Shown(w, p, m).myTurn = Drawn(w, p, m).myTurn
    BY <1>2, ShownStone
  <2>2. Drawn(w, p, m) = [p EXCEPT !.board[cell] = ColorOf(uid), !.myTurn = uid # w]
    BY <1>2, <1>5 DEF Drawn
  <2>3. Drawn(w, p, m).board = [p.board EXCEPT ![cell] = ColorOf(uid)]
    BY <2>2 DEF Pages
  <2>4. Drawn(w, p, m).myTurn <=> uid # w
    BY <2>2 DEF Pages
  <2>5. QED BY <2>1, <2>3, <2>4
<1>7. /\ Shown(w, p, m).status = "playing" /\ Shown(w, p, m).white = white_id'
      /\ Shown(w, p, m).board = board'
  BY <1>1, <1>3, <1>4, <1>6
<1>8. Shown(w, p, m).myTurn <=> turn_uid' = w
  BY <1>4, <1>6
<1>9. QED BY <1>4, <1>7, <1>8 DEF Shows, Agrees

LEMMA EndShows ==
    ASSUME NEW m \in Messages, EndTold(m), NEW w \in Players, NEW p \in Pages
    PROVE  Shows(w, Shown(w, p, m))'
<1>1. statu' = GAME_OVER /\ Shown(w, p, m).status = "over"
  BY ShownEnd DEF EndTold
<1>2. QED BY <1>1 DEF Shows

LEMMA InviteShows ==
    ASSUME Base, NEW uid \in Players, NEW m \in Messages, InviteTold(uid, m),
           NEW w \in Players, NEW p \in Pages, Shows(w, p)
    PROVE  Shows(w, Shown(w, p, m))'
<1>1. statu = GAME_OVER /\ statu' = GAME_OVER /\ m.optype = "rematch_invite"
  BY DEF InviteTold, InviteAllowed, InviteMsg
<1>2. Shown(w, p, m).status = p.status /\ Shown(w, p, m).late = p.late
  BY <1>1, ShownInvite
<1>3. QED BY <1>1, <1>2 DEF Shows

LEMMA RematchShows ==
    ASSUME Base, NEW uid \in Players, NEW m \in Messages, RematchTold(uid, m),
           NEW w \in Players, NEW p \in Pages
    PROVE  Shows(w, Shown(w, p, m))'
<1>1. /\ SetsUp(m) /\ m.optype = "rematch_start" /\ m.white = black_id
      /\ statu' = GAME_START /\ board' = EmptyBoard /\ white_id' = black_id /\ turn_uid' = white_id
  BY DEF RematchTold, RematchMsg, SetsUp
<1>2. w # black_id <=> white_id = w
  BY DEF Base, Inv, TypeOK, SeatsDistinct, Players
<1>3. /\ Shown(w, p, m).status = "playing" /\ Shown(w, p, m).board = EmptyBoard
      /\ Shown(w, p, m).white = black_id
  BY <1>1, ShownStart
<1>4. Shown(w, p, m).myTurn <=> w # black_id
  BY <1>1, ShownSeat
<1>5. QED BY <1>1, <1>2, <1>3, <1>4 DEF Shows, Agrees

LEMMA ToldShows ==
    ASSUME Base, NEW uid \in Players, NEW m, ToldStep(uid, m),
           NEW w \in Players, NEW p \in Pages, Shows(w, p)
    PROVE  Shows(w, Shown(w, p, m))'
BY StoneShows, EndShows, InviteShows, RematchShows DEF ToldStep

-----------------------------------------------------------------------------
LEMMA FollowsKept ==
    ASSUME NEW uid \in Players, NEW trace, Follows(uid, trace),
           inbox'[uid] = inbox[uid], Core(view'[uid]) = Core(view[uid]),
           UNCHANGED <<statu, board, white_id, turn_uid>>
    PROVE  Follows(uid, trace)'
<1>1. Trace(uid, inbox'[uid], view'[uid], trace)
  BY TraceSameCore DEF Follows
<1>2. Shows(uid, trace[Len(trace)])'
  BY DEF Follows, Shows, Agrees
<1>3. QED BY <1>1, <1>2 DEF Follows

LEMMA FollowsTold ==
    ASSUME Base, NEW uid \in Players, NEW m, ToldStep(uid, m),
           NEW w \in online, NEW trace, Follows(w, trace)
    PROVE  Follows(w, Longer(w, trace, m))'
<1>1. /\ inbox[w] \in Seq(Messages) /\ m \in Messages /\ w \in Players /\ view[w] \in Pages
      /\ online' = online /\ view' = view
  BY DEF Base, Inv, TypeOK, PageTypeOK, ToldStep, StoneTold, EndTold, InviteTold, RematchTold
<1>2. inbox'[w] = Append(inbox[w], m)
  BY <1>1 DEF ToldStep, SendsTo
<1>3. trace[Len(trace)] \in Pages
  BY <1>1, TraceSent DEF Follows
<1>4. Shows(w, Shown(w, trace[Len(trace)], m))'
  BY <1>1, <1>3, ToldShows DEF Follows
<1>5. /\ Trace(w, Append(inbox[w], m), view[w], Longer(w, trace, m))
      /\ Longer(w, trace, m)[Len(Longer(w, trace, m))] = Shown(w, trace[Len(trace)], m)
  BY <1>1, TraceSent DEF Follows, Longer
<1>6. QED BY <1>1, <1>2, <1>4, <1>5 DEF Follows

LEMMA FollowsShown ==
    ASSUME Base, NEW uid \in Players, onmessage(uid), NEW trace, Follows(uid, trace)
    PROVE  Follows(uid, Tail(trace))'
<1>1. /\ inbox[uid] \in Seq(Messages) /\ inbox[uid] # <<>> /\ view[uid] \in Pages
      /\ inbox'[uid] = Tail(inbox[uid]) /\ view'[uid] = Shown(uid, view[uid], Head(inbox[uid]))
  BY ShownTypes DEF Base, PageTypeOK
<1>2. UNCHANGED <<statu, board, white_id, turn_uid>>
  BY DEF onmessage, vars, game
<1>3. /\ Trace(uid, inbox'[uid], view'[uid], Tail(trace))
      /\ Tail(trace)[Len(Tail(trace))] = trace[Len(trace)]
  BY <1>1, TraceShown DEF Follows
<1>4. QED BY <1>2, <1>3 DEF Follows, Shows, Agrees

(* A page opened while a round is played finds it before its first stone.  *)
LEMMA FollowsOpened ==
    ASSUME Base, NEW uid \in Players, OpensPage(uid)
    PROVE  /\ statu = GAME_START => ~timing_started
           /\ \E page \in Pages, m \in Messages :
                /\ page = NewPage(statu = GAME_OVER) /\ view'[uid] = page
                /\ m = RoomReady(white_id) /\ inbox'[uid] = <<m>>
                /\ Follows(uid, <<page, Shown(uid, page, m)>>)'
<1>1. /\ uid \notin online /\ closing[uid] = 0 /\ inbox[uid] = <<>>
      /\ UNCHANGED <<statu, board, white_id, turn_uid>>
  BY OpenSteps DEF OpensPage, game
<1>2. statu = GAME_START => ~timing_started /\ board = EmptyBoard /\ turn_uid = black_id
  BY <1>1 DEF Base, Inv, AbsentMeansLeaving, ClockedRound
<1>3. PICK m : m = RoomReady(white_id)
  OBVIOUS
<1>4. m \in Messages /\ SetsUp(m) /\ m.optype = "room_ready" /\ m.white = white_id
  BY <1>3 DEF Base, Inv, TypeOK, Messages, RoomReady, SetsUp
<1>5. PICK page : page = NewPage(statu = GAME_OVER)
  OBVIOUS
<1>6. /\ page \in Pages /\ page.status = "playing" /\ page.board = EmptyBoard
      /\ statu = GAME_OVER => page.late
  BY <1>5, NewPageFields
<1>7. view'[uid] = page
  BY <1>5 DEF OpensPage, Base, PageTypeOK
<1>8. inbox'[uid] = <<m>>
  <2>1. inbox'[uid] = Append(inbox[uid], m)
    BY <1>3 DEF OpensPage, SendsTo
  <2>2. QED BY <1>1, <2>1
<1>9. PICK next : next = Shown(uid, page, m)
  OBVIOUS
<1>10. /\ next \in Pages /\ next.status = "playing" /\ next.board = EmptyBoard
       /\ next.white = white_id /\ next.late = page.late
  BY <1>4, <1>6, <1>9, ShownStart
<1>11. next.myTurn <=> uid # white_id
  BY <1>4, <1>6, <1>9, ShownSeat
<1>12. uid # white_id <=> black_id = uid
  BY DEF Base, Inv, TypeOK, SeatsDistinct, Players
<1>13. Shows(uid, next)'
  BY <1>1, <1>2, <1>6, <1>10, <1>11, <1>12 DEF Shows, Agrees
<1>14. Trace(uid, <<m>>, page, <<page, next>>)
  BY <1>6, <1>9, <1>10 DEF Trace
<1>15. PICK trace : trace = <<page, next>>
  OBVIOUS
<1>16. trace[Len(trace)] = next
  BY <1>15
<1>17. Trace(uid, inbox'[uid], view'[uid], trace)
  BY <1>7, <1>8, <1>14, <1>15
<1>18. Follows(uid, trace)'
  BY <1>13, <1>16, <1>17 DEF Follows
<1>19. QED BY <1>2, <1>3, <1>4, <1>5, <1>6, <1>7, <1>8, <1>9, <1>15, <1>18

-----------------------------------------------------------------------------
(* Requests on the way from a page. *)
Has(s, optype) == \E i \in 1 .. Len(s) : s[i].optype = optype

LEMMA HasAppended ==
    ASSUME NEW s \in Seq(Requests), NEW request \in Requests, NEW optype
    PROVE  /\ Has(s, optype) => Has(Append(s, request), optype)
           /\ Has(Append(s, request), request.optype)
<1>1. /\ Len(Append(s, request)) = Len(s) + 1 /\ Len(s) \in Nat
      /\ \A i \in 1 .. Len(s) : Append(s, request)[i] = s[i]
      /\ Append(s, request)[Len(s) + 1] = request
  OBVIOUS
<1>2. Has(s, optype) => Has(Append(s, request), optype)
  BY <1>1 DEF Has
<1>3. Len(s) + 1 \in 1 .. Len(Append(s, request))
  BY <1>1
<1>4. QED BY <1>1, <1>2, <1>3 DEF Has

LEMMA HasPopped ==
    ASSUME NEW s \in Seq(Requests), s # <<>>, NEW optype, Has(s, optype),
           Head(s).optype # optype
    PROVE  Has(Tail(s), optype)
<1>1. PICK i \in 1 .. Len(s) : s[i].optype = optype
  BY DEF Has
<1>2. i # 1 /\ Len(s) \in Nat
  BY <1>1
<1>3. i - 1 \in 1 .. Len(Tail(s)) /\ Tail(s)[i - 1] = s[i]
  BY <1>2
<1>4. QED BY <1>1, <1>3 DEF Has

LEMMA OpponentIsOtherOf ==
    ASSUME Inv, NEW uid \in Players
    PROVE  OtherOf(uid) = Opponent(uid)
BY OtherPlayer, OpponentIsOther DEF Inv, Players

-----------------------------------------------------------------------------
(* The clock a page shows: it is of the player to move, it is never ahead  *)
(* of the room's, and a timeout that the player to move has reported is a  *)
(* report on the way and in time.  A page with messages on the way is      *)
(* about to start anew.                                                    *)
Clock(uid) ==
    statu = GAME_START =>
        /\ inbox[uid] # <<>> =>
             LET m == inbox[uid][Len(inbox[uid])] IN
             \/ SetsUp(m)
             \/ /\ StartsClock(m) /\ timing_started
                /\ m.left = total_left /\ OtherOf(m.uid) = turn_uid
        /\ inbox[uid] = <<>> =>
             /\ view[uid].thinking # 0 =>
                  /\ timing_started /\ view[uid].thinking = turn_uid
                  /\ view[uid].left = total_left /\ view[uid].spent <= elapsed
                  /\ ~view[uid].timeoutSent
             /\ view[uid].timeoutSent /\ view[uid].myTurn =>
                  timing_started /\ turn_uid = uid /\ Expired(0) /\ Has(outbox[uid], "timeout")

LEMMA ClockStays ==
    ASSUME NEW uid \in Players, Clock(uid),
           UNCHANGED <<statu, white_id, timing_started, turn_uid, elapsed, total_left>>,
           inbox'[uid] = inbox[uid],
           view'[uid].thinking = view[uid].thinking, view'[uid].left = view[uid].left,
           view'[uid].spent = view[uid].spent, view'[uid].timeoutSent = view[uid].timeoutSent,
           view'[uid].myTurn = view[uid].myTurn,
           Has(outbox[uid], "timeout") => Has(outbox'[uid], "timeout")
    PROVE  Clock(uid)'
<1>1. Expired(0)' <=> Expired(0)
  BY DEF Expired, StepExpired, TotalExpired, ColorOf
<1>2. CASE inbox[uid] = <<>>
  BY <1>1, <1>2 DEF Clock
<1>3. CASE inbox[uid] # <<>>
  BY <1>3 DEF Clock
<1>4. QED BY <1>2, <1>3

LEMMA ClockTicks ==
    ASSUME Base, NEW uid \in Players, Clock(uid), Time
    PROVE  Clock(uid)'
<1>1. /\ view[uid] \in Pages /\ view'[uid] = Passes(view[uid])
      /\ UNCHANGED <<inbox, outbox>>
  BY DEF Base, PageTypeOK, Time, traffic
<1>2. /\ UNCHANGED <<statu, white_id, timing_started, turn_uid, total_left>>
      /\ elapsed \in Nat /\ elapsed' \in Nat /\ elapsed <= elapsed' /\ elapsed <= STEP_INIT_MS
      /\ statu = GAME_START /\ timing_started /\ elapsed < STEP_INIT_MS => elapsed' = elapsed + 1
  BY DEF Time, RoomTicks, Tick, vars, game, Base, Inv, TypeOK
<1>3. /\ view'[uid].thinking = view[uid].thinking /\ view'[uid].left = view[uid].left
      /\ view'[uid].timeoutSent = view[uid].timeoutSent /\ view'[uid].myTurn = view[uid].myTurn
      /\ view'[uid].spent \in Nat /\ view[uid].spent \in Nat
      /\ view'[uid].spent = IF view[uid].thinking = 0 \/ ClockEmpty(view[uid]) THEN view[uid].spent
                            ELSE view[uid].spent + 1
      /\ view'[uid].spent <= STEP_INIT_MS
  BY <1>1, PassesFields DEF Pages, Core
<1>4. ASSUME statu = GAME_START, timing_started, view[uid].spent <= elapsed
      PROVE  view'[uid].spent <= elapsed'
  BY <1>2, <1>3, <1>4
<1>5. Expired(0) => Expired(0)'
  <2>1. ColorOf(turn_uid)' = ColorOf(turn_uid)
    BY <1>2 DEF ColorOf
  <2>2. PICK left \in Nat : left = total_left[ColorOf(turn_uid)]
    BY ColorsNonEmpty DEF Base, Inv, TypeOK
  <2>3. TotalExpired(0) <=> left <= elapsed
    BY <1>2, <2>2 DEF TotalExpired
  <2>4. TotalExpired(0)' <=> left <= elapsed'
    BY <1>2, <2>1, <2>2 DEF TotalExpired
  <2>5. TotalExpired(0) => TotalExpired(0)'
    BY <1>2, <2>3, <2>4
  <2>6. StepExpired(0) => StepExpired(0)'
    <3>1. \A before \in Nat, now \in Nat, limit \in Nat :
            before <= now /\ before + 0 >= limit => now + 0 >= limit
      OBVIOUS
    <3>2. elapsed \in Nat /\ elapsed' \in Nat /\ elapsed <= elapsed' /\ STEP_INIT_MS \in Nat
      BY <1>2
    <3>3. QED BY <3>1, <3>2, Zenon DEF StepExpired
  <2>7. QED BY <2>5, <2>6 DEF Expired
<1>6. QED BY <1>1, <1>2, <1>3, <1>4, <1>5 DEF Clock

(* A page that reports its timeout does so in time: what it shows is the   *)
(* room's turn and clocks, and no more time has passed for it.             *)
LEMMA ClockReports ==
    ASSUME Base, NEW uid \in Players, Clock(uid), NEW trace, Follows(uid, trace), Reports(uid)
    PROVE  Clock(uid)'
<1>1. /\ view[uid] \in Pages /\ view \in [Players -> Pages]
      /\ outbox \in [Players -> Seq(Requests)]
  BY DEF Base, PageTypeOK
<1>2. /\ ClockEmpty(view[uid]) /\ view[uid].thinking = uid /\ uid # 0
      /\ UNCHANGED <<inbox, statu, white_id, timing_started, turn_uid, elapsed, total_left>>
      /\ outbox'[uid] = Append(outbox[uid], Request("timeout"))
  BY <1>1 DEF Reports, tickClock, Sends, vars, game, Players
<1>3. view'[uid].thinking = 0 /\ view'[uid].timeoutSent
  BY ClockAtZero DEF Reports
<1>4. Has(outbox'[uid], "timeout")
  <2>1. outbox[uid] \in Seq(Requests) /\ Request("timeout") \in Requests
    BY <1>1 DEF Requests
  <2>2. Request("timeout").optype = "timeout"
    BY DEF Request
  <2>3. QED BY <1>2, <2>1, <2>2, HasAppended
<1>5. ASSUME statu = GAME_START, inbox[uid] = <<>>
      PROVE  timing_started /\ turn_uid = uid /\ Expired(0)
  <2>1. /\ timing_started /\ turn_uid = uid /\ view[uid].left = total_left
        /\ view[uid].spent <= elapsed
    BY <1>2, <1>5 DEF Clock
  <2>2. view[uid].white = white_id
    <3>1. Core(trace[1]) = Core(view[uid]) /\ Len(trace) = 1
      BY <1>5 DEF Follows, Trace
    <3>2. trace[1].white = white_id
      BY <1>5, <3>1 DEF Follows, Shows, Agrees
    <3>3. QED BY <3>1, <3>2 DEF Core
  <2>3. \/ view[uid].spent >= STEP_INIT_MS
        \/ view[uid].spent >= total_left[ColorOf(turn_uid)]
    BY <1>2, <2>1, <2>2 DEF ClockEmpty, ColorOf
  <2>4. /\ view[uid].spent \in Nat /\ elapsed \in Nat /\ total_left[ColorOf(turn_uid)] \in Nat
    BY <1>1, ColorsNonEmpty DEF Base, Inv, TypeOK, Pages
  <2>5. QED BY <2>1, <2>3, <2>4 DEF Expired, StepExpired, TotalExpired
<1>6. Expired(0) => Expired(0)'
  BY <1>2 DEF Expired, StepExpired, TotalExpired, ColorOf
<1>7. QED BY <1>2, <1>3, <1>4, <1>5, <1>6 DEF Clock

(* A page that stops its clock without a report is the one that waits.     *)
LEMMA ClockStops ==
    ASSUME Base, NEW uid \in Players, Stops(uid),
           NEW w \in Players, Clock(w), NEW trace, Follows(w, trace)
    PROVE  Clock(w)'
<1>1. UNCHANGED <<inbox, outbox, statu, white_id, timing_started, turn_uid, elapsed, total_left>>
  BY DEF Stops, tickClock, traffic, vars, game
<1>2. CASE w # uid
  <2>1. view'[w] = view[w]
    BY <1>2, ClockAtZero DEF Stops
  <2>2. QED BY <1>1, <2>1, ClockStays
<1>3. CASE w = uid /\ inbox[w] # <<>>
  BY <1>1, <1>3 DEF Clock
<1>4. CASE w = uid /\ inbox[w] = <<>>
  <2>1. /\ view[w].thinking \notin {0, w} /\ view'[w].thinking = 0
        /\ view'[w].myTurn = view[w].myTurn
    BY <1>4, ClockAtZero DEF Stops, SameCores, Core
  <2>2. statu = GAME_START => turn_uid # w
    BY <1>4, <2>1 DEF Clock
  <2>3. Core(trace[1]) = Core(view[w]) /\ Len(trace) = 1
    BY <1>4 DEF Follows, Trace
  <2>4. statu = GAME_START => ~view[w].myTurn
    BY <2>2, <2>3 DEF Follows, Shows, Core
  <2>5. QED BY <1>1, <1>4, <2>1, <2>4 DEF Clock
<1>5. QED BY <1>2, <1>3, <1>4

LEMMA LastHeard ==
    ASSUME NEW s \in Seq(Messages), s # <<>>
    PROVE  /\ Tail(s) # <<>> => Tail(s)[Len(Tail(s))] = s[Len(s)]
           /\ Tail(s) = <<>> => Head(s) = s[Len(s)]
<1>1. /\ Len(s) \in Nat /\ Len(s) >= 1 /\ Len(Tail(s)) = Len(s) - 1
      /\ Head(s) = s[1] /\ \A i \in 1 .. Len(s) - 1 : Tail(s)[i] = s[i + 1]
  OBVIOUS
<1>2. Tail(s) # <<>> => Len(Tail(s)) \in 1 .. Len(s) - 1
  BY <1>1, EmptySeq, HeadTailProperties
<1>3. Tail(s) = <<>> => Len(s) = 1
  <2>1. PICK n \in Nat : n = Len(s)
    OBVIOUS
  <2>2. Tail(s) = <<>> => n - 1 = 0
    BY <1>1, <2>1
  <2>3. QED BY <2>1, <2>2
<1>4. QED BY <1>1, <1>2, <1>3

LEMMA ClockHeard ==
    ASSUME Base, NEW uid \in Players, Clock(uid), onmessage(uid)
    PROVE  Clock(uid)'
<1>1. /\ inbox[uid] \in Seq(Messages) /\ inbox[uid] # <<>> /\ view[uid] \in Pages
      /\ Head(inbox[uid]) \in Messages
      /\ inbox'[uid] = Tail(inbox[uid]) /\ view'[uid] = Shown(uid, view[uid], Head(inbox[uid]))
  BY ShownTypes DEF Base, PageTypeOK
<1>2. /\ UNCHANGED <<statu, white_id, timing_started, turn_uid, elapsed, total_left>>
      /\ elapsed \in Nat
  BY DEF onmessage, vars, game, Base, Inv, TypeOK
<1>3. CASE inbox'[uid] # <<>>
  <2>1. inbox'[uid][Len(inbox'[uid])] = inbox[uid][Len(inbox[uid])]
    BY <1>1, <1>3, LastHeard
  <2>2. QED BY <1>1, <1>2, <1>3, <2>1 DEF Clock
<1>4. CASE inbox'[uid] = <<>>
  <2>1. PICK m \in Messages : m = Head(inbox[uid]) /\ m = inbox[uid][Len(inbox[uid])]
    BY <1>1, <1>4, LastHeard
  <2>2. ASSUME statu = GAME_START
        PROVE  \/ SetsUp(m)
               \/ /\ StartsClock(m) /\ timing_started
                  /\ m.left = total_left /\ OtherOf(m.uid) = turn_uid
    BY <1>1, <2>1, <2>2 DEF Clock
  <2>3. SetsUp(m) => view'[uid].thinking = 0 /\ ~view'[uid].timeoutSent
    <3>1. view'[uid] = Shown(uid, view[uid], m) /\ view[uid] \in Pages
      BY <1>1, <2>1
    <3>2. QED BY <3>1, ShownStart
  <2>4. StartsClock(m) => /\ view'[uid].thinking = OtherOf(m.uid) /\ view'[uid].left = m.left
                          /\ view'[uid].spent = 0 /\ ~view'[uid].timeoutSent
    <3>1. view'[uid] = Shown(uid, view[uid], m) /\ view[uid] \in Pages
      BY <1>1, <2>1
    <3>2. QED BY <3>1, ShownStone
  <2>5. QED BY <1>2, <1>4, <2>2, <2>3, <2>4 DEF Clock
<1>5. QED BY <1>3, <1>4

(* The report on the way is not one that is refused. *)
LEMMA ClockRefused ==
    ASSUME Base, NEW uid \in Players, NEW w \in Players, Clock(w), RefusedStep(uid)
    PROVE  Clock(w)'
<1>1. /\ UNCHANGED <<inbox, view, statu, white_id, timing_started, turn_uid, elapsed, total_left>>
      /\ outbox \in [Players -> Seq(Requests)]
  BY DEF RefusedStep, vars, game, Base, PageTypeOK
<1>2. CASE Has(outbox[w], "timeout") => Has(outbox'[w], "timeout")
  BY <1>1, <1>2, ClockStays
<1>3. CASE Has(outbox[w], "timeout") /\ ~Has(outbox'[w], "timeout")
  <2>1. w = uid
    BY <1>1, <1>3 DEF RefusedStep, Pops
  <2>2. Head(outbox[w]).optype = "timeout"
    BY <1>1, <1>3, <2>1, HasPopped DEF RefusedStep, Pops
  <2>3. TimeoutRefused(w)
    BY <2>1, <2>2 DEF RefusedStep
  <2>4. ~(statu = GAME_START /\ timing_started /\ turn_uid = w /\ Expired(0))
    <3>1. elapsed \in Nat /\ total_left[ColorOf(turn_uid)] \in Nat
      BY ColorsNonEmpty DEF Base, Inv, TypeOK
    <3>2. QED BY <2>3, <3>1 DEF TimeoutRefused, Expired, StepExpired, TotalExpired
  <2>5. QED BY <1>1, <2>4 DEF Clock
<1>4. QED BY <1>2, <1>3

LEMMA ClockTold ==
    ASSUME Base, NEW uid \in Players, NEW m, ToldStep(uid, m), NEW w \in online
    PROVE  Clock(w)'
<1>1. /\ inbox[w] \in Seq(Messages) /\ m \in Messages /\ w \in Players /\ online' = online
  BY DEF Base, Inv, TypeOK, PageTypeOK, ToldStep, StoneTold, EndTold, InviteTold, RematchTold
<1>2. inbox'[w] = Append(inbox[w], m)
  BY <1>1 DEF ToldStep, SendsTo
<1>3. inbox'[w] # <<>> /\ inbox'[w][Len(inbox'[w])] = m
  BY <1>1, <1>2
<1>4. CASE StoneTold(uid, m)
  <2>1. /\ StartsClock(m) /\ m.uid = uid /\ m.left = total_left'
        /\ timing_started' = TRUE /\ turn_uid' = Opponent(uid)
    BY <1>4 DEF StoneTold, PutChessMsg, StartsClock
  <2>2. OtherOf(m.uid) = turn_uid'
    BY <2>1, OpponentIsOtherOf DEF Base
  <2>3. QED BY <1>3, <2>1, <2>2 DEF Clock
<1>5. CASE EndTold(m) \/ InviteTold(uid, m)
  <2>1. statu' = GAME_OVER
    BY <1>5 DEF EndTold, InviteTold, InviteAllowed
  <2>2. QED BY <2>1 DEF Clock
<1>6. CASE RematchTold(uid, m)
  <2>1. SetsUp(m)
    BY <1>6 DEF RematchTold, RematchMsg, SetsUp
  <2>2. QED BY <1>3, <2>1 DEF Clock
<1>7. QED BY <1>4, <1>5, <1>6 DEF ToldStep

-----------------------------------------------------------------------------
(* The panel a page shows while an invitation is pending, unless somebody  *)
(* opened a page after the round.                                          *)
Invited ==
    /\ initiator # 0
    /\ online = Players
    /\ \A uid \in Players : ~view[uid].late

Panel(uid) ==
    Invited =>
        /\ inbox[uid] # <<>> =>
             LET m == inbox[uid][Len(inbox[uid])] IN
             m.optype = "rematch_invite" /\ m.inviter = initiator
        /\ inbox[uid] = <<>> /\ uid = initiator => view[uid].panel = "sent"
        /\ inbox[uid] = <<>> /\ uid # initiator =>
             \/ view[uid].panel = "asked"
             \/ view[uid].panel = "accepted" /\ Has(outbox[uid], "rematch_accept")

LEMMA PanelKept ==
    ASSUME NEW uid \in Players, Panel(uid), Invited' => Invited, UNCHANGED initiator,
           inbox'[uid] = inbox[uid], view'[uid].panel = view[uid].panel,
           Has(outbox[uid], "rematch_accept") => Has(outbox'[uid], "rematch_accept")
    PROVE  Panel(uid)'
BY DEF Panel

LEMMA InvitedKept ==
    ASSUME UNCHANGED <<initiator, online>>, \A uid \in Players : view'[uid].late = view[uid].late
    PROVE  Invited' <=> Invited
BY DEF Invited

LEMMA PanelOwn ==
    ASSUME Base, NEW uid \in Players, NEW w \in Players, Panel(w), OwnStep(uid)
    PROVE  Panel(w)'
<1>1. /\ view \in [Players -> Pages] /\ outbox \in [Players -> Seq(Requests)]
      /\ \A other \in Players : view'[other].late = view[other].late
  BY OwnSteps DEF Base, PageTypeOK, SameCores, Core
<1>2. PICK request \in Requests : Asks(uid, request)
  BY OwnSteps DEF Asks
<1>3. /\ UNCHANGED <<initiator, online, inbox>>
      /\ outbox'[w] = IF w = uid THEN Append(outbox[w], request) ELSE outbox[w]
  BY <1>1, <1>2 DEF Asks, vars, game, presence
<1>4. Has(outbox[w], "rematch_accept") => Has(outbox'[w], "rematch_accept")
  BY <1>1, <1>3, HasAppended
<1>5. Invited' <=> Invited
  BY <1>1, <1>3, InvitedKept
<1>6. CASE view'[w].panel = view[w].panel
  BY <1>3, <1>4, <1>5, <1>6, PanelKept
<1>7. CASE sendRematchInvite(uid) /\ w = uid
  <2>1. view[w].panel = "starter"
    BY <1>7 DEF sendRematchInvite
  <2>2. QED BY <1>3, <1>5, <2>1 DEF Panel
<1>8. CASE sendRematchAccept(uid) /\ w = uid
  <2>1. view[w].panel = "asked" /\ view'[w].panel = "accepted"
    BY <1>1, <1>8 DEF sendRematchAccept, Pages
  <2>2. Has(outbox'[w], "rematch_accept")
    <3>1. outbox'[w] = Append(outbox[w], Request("rematch_accept"))
      BY <1>1, <1>8 DEF sendRematchAccept, Sends
    <3>2. Request("rematch_accept") \in Requests /\ outbox[w] \in Seq(Requests)
      BY <1>1 DEF Requests
    <3>3. Request("rematch_accept").optype = "rematch_accept"
      BY DEF Request
    <3>4. QED BY <3>1, <3>2, <3>3, HasAppended
  <2>3. QED BY <1>3, <1>5, <2>1, <2>2 DEF Panel
<1>9. \/ view'[w].panel = view[w].panel
      \/ w = uid /\ (sendRematchInvite(uid) \/ sendRematchAccept(uid))
  <2>1. CASE w # uid
    BY <1>1, <2>1 DEF OwnStep, Clicks, Reports, tickClock, sendRematchInvite, sendRematchAccept
  <2>2. CASE \E cell \in Cells : Clicks(uid, cell)
    BY <2>2 DEF Clicks
  <2>3. CASE Reports(uid)
    BY <2>3, ClockAtZero DEF Reports
  <2>4. QED BY <2>1, <2>2, <2>3 DEF OwnStep
<1>10. QED BY <1>6, <1>7, <1>8, <1>9

LEMMA PanelHeard ==
    ASSUME Base, NEW uid \in Players, NEW w \in Players, Panel(w), onmessage(uid)
    PROVE  Panel(w)'
<1>1. /\ inbox[uid] \in Seq(Messages) /\ inbox[uid] # <<>> /\ view[uid] \in Pages
      /\ Head(inbox[uid]) \in Messages
      /\ inbox'[uid] = Tail(inbox[uid]) /\ view'[uid] = Shown(uid, view[uid], Head(inbox[uid]))
      /\ \A other \in Players \ {uid} : inbox'[other] = inbox[other] /\ view'[other] = view[other]
  BY ShownTypes DEF Base, PageTypeOK
<1>2. UNCHANGED <<initiator, online, outbox>>
  BY DEF onmessage, vars, game, presence
<1>3. \A other \in Players : view'[other].late = view[other].late
  <2>1. Shown(uid, view[uid], Head(inbox[uid])).late = view[uid].late
    BY <1>1, ShownTyped
  <2>2. QED BY <1>1, <2>1
<1>4. Invited' <=> Invited
  BY <1>2, <1>3, InvitedKept
<1>5. CASE w # uid
  BY <1>1, <1>2, <1>4, <1>5, PanelKept
<1>6. CASE w = uid /\ inbox'[w] # <<>>
  <2>1. inbox'[w][Len(inbox'[w])] = inbox[w][Len(inbox[w])]
    BY <1>1, <1>6, LastHeard
  <2>2. QED BY <1>1, <1>2, <1>4, <1>6, <2>1 DEF Panel
<1>7. CASE w = uid /\ inbox'[w] = <<>>
  <2>1. PICK m \in Messages : m = Head(inbox[w]) /\ m = inbox[w][Len(inbox[w])]
    BY <1>1, <1>7, LastHeard
  <2>2. view'[w] = Shown(w, view[w], m) /\ view[w] \in Pages
    BY <1>1, <1>7, <2>1
  <2>3. Invited => m.optype = "rematch_invite" /\ m.inviter = initiator
    BY <1>1, <1>7, <2>1 DEF Panel
  <2>4. Invited => view'[w].panel = IF m.inviter = w THEN "sent" ELSE "asked"
    BY <2>2, <2>3, ShownInvite
  <2>5. QED BY <1>2, <1>4, <1>7, <2>3, <2>4 DEF Panel
<1>8. QED BY <1>5, <1>6, <1>7

(* An accepted invitation is not refused while both players are there.     *)
LEMMA PanelRefused ==
    ASSUME Base, NEW uid \in Players, NEW w \in Players, Panel(w), RefusedStep(uid)
    PROVE  Panel(w)'
<1>1. /\ UNCHANGED <<inbox, view, initiator, online>>
      /\ outbox \in [Players -> Seq(Requests)]
  BY DEF RefusedStep, vars, game, presence, Base, PageTypeOK
<1>2. Invited' <=> Invited
  BY <1>1, InvitedKept
<1>3. CASE Has(outbox[w], "rematch_accept") => Has(outbox'[w], "rematch_accept")
  BY <1>1, <1>2, <1>3, PanelKept
<1>4. CASE Has(outbox[w], "rematch_accept") /\ ~Has(outbox'[w], "rematch_accept")
  <2>1. w = uid
    BY <1>1, <1>4 DEF RefusedStep, Pops
  <2>2. Head(outbox[w]).optype = "rematch_accept"
    BY <1>1, <1>4, <2>1, HasPopped DEF RefusedStep, Pops
  <2>3. ~AcceptAllowed(w)
    BY <2>1, <2>2 DEF RefusedStep
  <2>4. Invited => initiator = w
    <3>1. Invited => statu = GAME_OVER /\ both_players_online
      BY DEF Invited, both_players_online, Base, Inv, InviteConsumed, TypeOK
    <3>2. QED BY <2>3, <3>1 DEF AcceptAllowed, Invited
  <2>5. QED BY <1>1, <1>2, <2>4 DEF Panel
<1>5. QED BY <1>3, <1>4

LEMMA PanelTold ==
    ASSUME Base, NEW uid \in Players, NEW m, ToldStep(uid, m), NEW w \in Players
    PROVE  Panel(w)'
<1>1. CASE InviteTold(uid, m)
  <2>1. /\ online = Players /\ online' = online /\ initiator' = uid
      <3>1. online \subseteq Players /\ both_players_online /\ Players = {white_id, black_id}
      BY <1>1 DEF InviteTold, InviteAllowed, Base, Inv, TypeOK, SeatsDistinct, Players
    <3>2. online = Players
      BY <3>1 DEF both_players_online
    <3>3. QED BY <1>1, <3>2 DEF InviteTold
  <2>2. /\ inbox[w] \in Seq(Messages) /\ m \in Messages /\ inbox'[w] = Append(inbox[w], m)
    BY <2>1 DEF ToldStep, SendsTo, Base, PageTypeOK
  <2>3. inbox'[w] # <<>> /\ inbox'[w][Len(inbox'[w])] = m
    BY <2>2
  <2>4. m.optype = "rematch_invite" /\ m.inviter = uid
    BY <1>1 DEF InviteTold, InviteMsg
  <2>5. QED BY <2>1, <2>3, <2>4 DEF Panel
<1>2. CASE ~InviteTold(uid, m)
  <2>1. initiator' = 0 \/ (online' # Players)
    BY <1>2 DEF ToldStep, StoneTold, EndTold, RematchTold, Base, Inv, InviteConsumed
  <2>2. QED BY <2>1 DEF Panel, Invited
<1>3. QED BY <1>1, <1>2

LEMMA PanelMoved ==
    ASSUME Base, NEW uid \in Players, OpensPage(uid) \/ DropsPage(uid), NEW w \in Players
    PROVE  Panel(w)'
<1>1. CASE DropsPage(uid)
  <2>1. uid \notin online'
    BY <1>1, DropSteps DEF DropsPage
  <2>2. QED BY <2>1 DEF Panel, Invited
<1>2. CASE OpensPage(uid)
  <2>1. UNCHANGED <<statu, initiator>> /\ view'[uid] = NewPage(statu = GAME_OVER)
    BY <1>2, OpenSteps DEF OpensPage, game, Base, PageTypeOK
  <2>2. initiator # 0 => statu = GAME_OVER
    BY DEF Base, Inv, InviteConsumed, TypeOK
  <2>3. initiator # 0 => view'[uid].late
    BY <2>1, <2>2, NewPageFields
  <2>4. QED BY <2>1, <2>3 DEF Panel, Invited
<1>3. QED BY <1>1, <1>2

-----------------------------------------------------------------------------
(* The inductive invariant behind what pages show.                         *)
Faithful(uid) == (\E trace : Follows(uid, trace)) /\ Clock(uid)

PageInv ==
    /\ Base
    /\ \A uid \in online : Faithful(uid)
    /\ \A uid \in Players : Panel(uid)

LEMMA PageInitInv == PageInit => PageInv
<1>1. SUFFICES ASSUME PageInit PROVE PageInv
  OBVIOUS
<1>2. online = {} /\ initiator = 0
  BY <1>1 DEF PageInit, Init
<1>3. QED BY <1>1, <1>2, BaseInit DEF PageInv, Panel, Invited

(* A page nothing happens to. *)
LEMMA FaithfulKept ==
    ASSUME NEW uid \in Players, Faithful(uid), UNCHANGED game,
           inbox'[uid] = inbox[uid], outbox'[uid] = outbox[uid], view'[uid] = view[uid]
    PROVE  Faithful(uid)'
<1>1. UNCHANGED <<statu, white_id, board, timing_started, turn_uid, elapsed, total_left>>
  BY DEF game
<1>2. Clock(uid)'
  BY <1>1, ClockStays DEF Faithful
<1>3. \E trace : Follows(uid, trace)'
  BY <1>1, FollowsKept DEF Faithful
<1>4. QED BY <1>2, <1>3 DEF Faithful

LEMMA FaithfulOwn ==
    ASSUME Base, NEW uid \in Players, OwnStep(uid), NEW w \in Players, Faithful(w)
    PROVE  Faithful(w)'
<1>1. /\ view \in [Players -> Pages] /\ outbox \in [Players -> Seq(Requests)]
      /\ Core(view'[w]) = Core(view[w])
  BY OwnSteps DEF Base, PageTypeOK, SameCores
<1>2. PICK request \in Requests : Asks(uid, request)
  BY OwnSteps DEF Asks
<1>3. /\ UNCHANGED <<inbox, statu, white_id, board, timing_started, turn_uid, elapsed, total_left>>
      /\ outbox'[w] = IF w = uid THEN Append(outbox[w], request) ELSE outbox[w]
  BY <1>1, <1>2 DEF Asks, vars, game
<1>4. PICK trace : Follows(w, trace)
  BY DEF Faithful
<1>5. Follows(w, trace)'
  BY <1>1, <1>3, <1>4, FollowsKept
<1>6. Clock(w)'
  <2>1. CASE Reports(uid) /\ w = uid
    BY <1>4, <2>1, ClockReports DEF Faithful
  <2>2. CASE ~(Reports(uid) /\ w = uid)
    <3>1. Has(outbox[w], "timeout") => Has(outbox'[w], "timeout")
      BY <1>1, <1>3, HasAppended
    <3>2. /\ view'[w].thinking = view[w].thinking /\ view'[w].left = view[w].left
          /\ view'[w].spent = view[w].spent /\ view'[w].timeoutSent = view[w].timeoutSent
      <4>1. CASE w # uid
        BY <1>1, <4>1 DEF OwnStep, Clicks, Reports, tickClock, sendRematchInvite, sendRematchAccept
      <4>2. CASE \E cell \in Cells : Clicks(uid, cell)
        BY <4>2 DEF Clicks
      <4>3. CASE sendRematchInvite(uid)
        BY <1>1, <4>3 DEF sendRematchInvite, Pages
      <4>4. CASE sendRematchAccept(uid)
        BY <1>1, <4>4 DEF sendRematchAccept, Pages
      <4>5. QED BY <2>2, <4>1, <4>2, <4>3, <4>4 DEF OwnStep
    <3>3. view'[w].myTurn = view[w].myTurn
      BY <1>1 DEF Core
    <3>4. QED BY <1>3, <3>1, <3>2, <3>3, ClockStays DEF Faithful
  <2>3. QED BY <2>1, <2>2
<1>7. QED BY <1>5, <1>6 DEF Faithful

LEMMA FaithfulIdle ==
    ASSUME Base, Idles, NEW w \in Players, Faithful(w)
    PROVE  Faithful(w)'
<1>1. /\ Core(view'[w]) = Core(view[w]) /\ inbox' = inbox
      /\ UNCHANGED <<statu, white_id, board, turn_uid>>
  BY IdleSteps DEF SameCores, traffic, Tick, vars, game
<1>2. \E trace : Follows(w, trace)'
  BY <1>1, FollowsKept DEF Faithful
<1>3. Clock(w)'
  BY ClockTicks, ClockStops DEF Idles, Faithful
<1>4. QED BY <1>2, <1>3 DEF Faithful

LEMMA PageStepInv == PageInv /\ [PageNext]_allvars => PageInv'
<1>1. SUFFICES ASSUME PageInv, [PageNext]_allvars
               PROVE  /\ \A uid \in online' : Faithful(uid)'
                      /\ \A uid \in Players : Panel(uid)'
  BY BaseStep DEF PageInv
<1>2. /\ Base /\ online \subseteq Players
      /\ \A uid \in online : Faithful(uid)
      /\ \A uid \in Players : Panel(uid)
  BY <1>1 DEF PageInv, Base, Inv, TypeOK
<1>3. CASE Rests
  <2>1. UNCHANGED <<game, online, initiator, inbox, outbox, view>>
    BY <1>3 DEF Rests, traffic, vars, presence, game
  <2>2. Invited' <=> Invited
    BY <2>1 DEF Invited
  <2>3. QED BY <1>2, <2>1, <2>2, FaithfulKept, PanelKept
<1>4. CASE Idles
  <2>1. UNCHANGED <<online, initiator, inbox, outbox>>
    BY <1>2, <1>4, IdleSteps DEF traffic, Tick, vars, game, presence
  <2>2. \A uid \in Players : view'[uid].late = view[uid].late
    BY <1>2, <1>4, IdleSteps DEF SameCores, Core
  <2>3. \A uid \in Players : view'[uid].panel = view[uid].panel
    BY <1>2, <1>4, IdleSteps
  <2>4. Invited' <=> Invited
    BY <2>1, <2>2, InvitedKept
  <2>5. QED BY <1>2, <1>4, <2>1, <2>3, <2>4, FaithfulIdle, PanelKept
<1>5. ASSUME NEW uid \in Players, OwnStep(uid)
      PROVE  /\ \A w \in online' : Faithful(w)'
             /\ \A w \in Players : Panel(w)'
  <2>1. online' = online
    BY <1>2, <1>5, OwnSteps DEF Asks, vars, presence
  <2>2. QED BY <1>2, <1>5, <2>1, FaithfulOwn, PanelOwn
<1>6. ASSUME NEW uid \in Players, onmessage(uid)
      PROVE  /\ \A w \in online' : Faithful(w)'
             /\ \A w \in Players : Panel(w)'
  <2>1. /\ UNCHANGED <<game, online, outbox>>
        /\ \A other \in Players \ {uid} : inbox'[other] = inbox[other] /\ view'[other] = view[other]
    BY <1>2, <1>6, ShownTypes DEF onmessage, vars, presence, Base
  <2>2. uid \in online => Faithful(uid)'
    BY <1>2, <1>6, FollowsShown, ClockHeard DEF Faithful
  <2>3. \A w \in online \ {uid} : Faithful(w)'
    BY <1>2, <2>1, FaithfulKept
  <2>4. QED BY <1>2, <1>6, <2>1, <2>2, <2>3, PanelHeard
<1>7. ASSUME NEW uid \in Players, Registered, wsmsg_game_room(uid) \/ ClosesPage(uid)
      PROVE  /\ \A w \in online' : Faithful(w)'
             /\ \A w \in Players : Panel(w)'
  <2>1. CASE RefusedStep(uid)
    <3>1. /\ UNCHANGED <<online, inbox, view, statu, white_id, board, turn_uid>>
      BY <2>1 DEF RefusedStep, vars, game, presence
    <3>2. \A w \in online : \E trace : Follows(w, trace)'
      BY <1>2, <3>1, FollowsKept DEF Faithful
    <3>3. \A w \in online : Clock(w)'
      BY <1>2, <1>7, <2>1, ClockRefused DEF Faithful
    <3>4. QED BY <1>2, <1>7, <2>1, <3>1, <3>2, <3>3, PanelRefused DEF Faithful
  <2>2. ASSUME NEW m, ToldStep(uid, m)
        PROVE  /\ \A w \in online' : Faithful(w)'
               /\ \A w \in Players : Panel(w)'
    <3>1. online' = online
      BY <2>2 DEF ToldStep, StoneTold, EndTold, InviteTold, RematchTold
    <3>2. \A w \in online : \E trace : Follows(w, trace)'
      BY <1>2, <1>7, <2>2, FollowsTold DEF Faithful
    <3>3. QED BY <1>2, <1>7, <2>2, <3>1, <3>2, ClockTold, PanelTold DEF Faithful
  <2>3. QED BY <1>2, <1>7, <2>1, <2>2, ServerSteps
<1>8. ASSUME NEW uid \in Players, OpensPage(uid)
      PROVE  /\ \A w \in online' : Faithful(w)'
             /\ \A w \in Players : Panel(w)'
  <2>1. UNCHANGED game /\ online' = online \cup {uid}
    BY <1>2, <1>8, OpenSteps DEF OpensPage
  <2>2. \A w \in Players \ {uid} : /\ inbox'[w] = inbox[w] /\ outbox'[w] = outbox[w]
                                   /\ view'[w] = view[w]
    BY <1>2, <1>8 DEF OpensPage, SendsTo, Base, PageTypeOK
  <2>3. \A w \in online \ {uid} : Faithful(w)'
    BY <1>2, <2>1, <2>2, FaithfulKept
  <2>4. PICK page \in Pages, m \in Messages :
          /\ m = RoomReady(white_id) /\ inbox'[uid] = <<m>>
          /\ Follows(uid, <<page, Shown(uid, page, m)>>)'
    BY <1>2, <1>8, FollowsOpened
  <2>5. Clock(uid)'
    <3>1. SetsUp(m)
      BY <2>4 DEF SetsUp, RoomReady
    <3>2. inbox'[uid] # <<>> /\ inbox'[uid][Len(inbox'[uid])] = m
      BY <2>4
    <3>3. QED BY <3>1, <3>2 DEF Clock
  <2>6. Faithful(uid)'
    BY <2>4, <2>5 DEF Faithful
  <2>7. QED BY <1>2, <1>8, <2>1, <2>3, <2>6, PanelMoved
<1>9. ASSUME NEW uid \in Players, DropsPage(uid)
      PROVE  /\ \A w \in online' : Faithful(w)'
             /\ \A w \in Players : Panel(w)'
  <2>1. UNCHANGED game /\ online' = online \ {uid}
    BY <1>2, <1>9, DropSteps DEF DropsPage
  <2>2. \A w \in Players \ {uid} : /\ inbox'[w] = inbox[w] /\ outbox'[w] = outbox[w]
                                   /\ view'[w] = view[w]
    BY <1>2, <1>9 DEF DropsPage, Base, PageTypeOK
  <2>3. QED BY <1>2, <1>9, <2>1, <2>2, FaithfulKept, PanelMoved
<1>10. QED
  BY <1>1, <1>3, <1>4, <1>5, <1>6, <1>7, <1>8, <1>9, RestingSteps
  DEF PageNext, EventLoop, OwnStep, Reports, Stops, Idles

LEMMA PageInvariant == PageSpec => []PageInv
BY PageInitInv, PageStepInv, PTL DEF PageSpec

(* A page with nothing on the way shows what it must. *)
LEMMA ListeningShows ==
    ASSUME PageInv, NEW uid \in Players, Listening(uid)
    PROVE  /\ view[uid] \in Pages
           /\ statu = GAME_START => Agrees(view[uid]) /\ (view[uid].myTurn <=> turn_uid = uid)
           /\ statu = GAME_OVER => view[uid].status = "over" \/ view[uid].late
<1>1. view[uid] \in Pages /\ inbox[uid] = <<>>
  BY DEF PageInv, Base, PageTypeOK, Listening
<1>2. PICK trace : Follows(uid, trace)
  BY DEF PageInv, Listening, Faithful
<1>3. Len(trace) = 1 /\ trace[1] \in Pages /\ Core(trace[1]) = Core(view[uid])
  <2>1. trace \in Seq(Pages) /\ Len(trace) = Len(<<>>) + 1 /\ Core(trace[1]) = Core(view[uid])
    BY <1>1, <1>2 DEF Follows, Trace
  <2>2. Len(trace) = 1
    BY <2>1
  <2>3. trace[1] \in Pages
    BY <2>1, <2>2, ElementOfSeq
  <2>4. QED BY <2>1, <2>2, <2>3
<1>4. PICK p \in Pages : p = trace[1]
  BY <1>3
<1>5. Shows(uid, p) /\ Core(p) = Core(view[uid])
  BY <1>2, <1>3, <1>4 DEF Follows
<1>6. /\ p.status = view[uid].status /\ p.board = view[uid].board /\ p.white = view[uid].white
      /\ p.myTurn = view[uid].myTurn /\ p.late = view[uid].late
  BY <1>5 DEF Core
<1>7. QED BY <1>1, <1>5, <1>6 DEF Shows, Agrees

(* A page that has heard everything shows the round that is played: its    *)
(* board, its seats and whose turn it is.                                  *)
THEOREM PagesFollow == PageSpec => []PageFollows
<1>1. PageInv => PageFollows
  BY ListeningShows DEF PageFollows
<1>2. QED BY <1>1, PageInvariant, PTL

(* ... and that it is over once it is, unless it was opened later.         *)
THEOREM EndsAreSeen == PageSpec => []EndIsSeen
<1>1. PageInv => EndIsSeen
  BY ListeningShows DEF EndIsSeen
<1>2. QED BY <1>1, PageInvariant, PTL

(* A waiting page of the player to move that has set timeoutSent, after    *)
(* which it reports nothing more, has its one report on the way, and it    *)
(* will not be refused as too early or out of turn.                        *)
THEOREM ReportsCount == PageSpec => []ReportCounts
<1>1. ASSUME PageInv, NEW uid \in Players, Listening(uid), statu = GAME_START,
             view[uid].timeoutSent, view[uid].myTurn
      PROVE  /\ Has(outbox[uid], "timeout")
             /\ turn_uid = uid
             /\ Expired(0)
  BY <1>1 DEF PageInv, Faithful, Clock, Listening
<1>2. PageInv => ReportCounts
  BY <1>1 DEF ReportCounts, Has
<1>3. QED BY <1>2, PageInvariant, PTL

(* While an invitation is pending, nothing is on the way and no page was   *)
(* opened after the round, the page of the inviter waits and the other     *)
(* page offers to accept.                                                  *)
THEOREM InvitationsAreShown == PageSpec => []InvitationShown
<1>1. ASSUME PageInv, initiator # 0,
             \A uid \in Players : Listening(uid) /\ ~view[uid].late /\ outbox[uid] = <<>>
      PROVE  /\ view[initiator].panel = "sent"
             /\ view[OtherOf(initiator)].panel = "asked"
  <2>1. initiator \in Players /\ online \subseteq Players
    BY <1>1 DEF PageInv, Base, Inv, TypeOK
  <2>2. Invited
    BY <1>1, <2>1 DEF Invited, Listening
  <2>3. OtherOf(initiator) \in Players /\ OtherOf(initiator) # initiator
    BY <2>1, OtherPlayer
  <2>4. \A uid \in Players : inbox[uid] = <<>> /\ ~Has(outbox[uid], "rematch_accept")
    BY <1>1 DEF Listening, Has
  <2>5. \A uid \in Players :
          /\ uid = initiator => view[uid].panel = "sent"
          /\ uid # initiator => view[uid].panel = "asked"
    BY <1>1, <2>2, <2>4 DEF PageInv, Panel
  <2>6. QED BY <2>1, <2>3, <2>5
<1>2. PageInv => InvitationShown
  BY <1>1 DEF InvitationShown
<1>3. QED BY <1>2, PageInvariant, PTL

-----------------------------------------------------------------------------
(* Who opens a round.  A request is about the rematch, or about the round. *)
AboutRematch(request) == request.optype \in {"rematch_invite", "rematch_accept"}
AboutRound(request) == request.optype \in {"put_chess", "timeout"}

HasRematch(s) == \E i \in 1 .. Len(s) : AboutRematch(s[i])
NoRound(s) == \A i \in 1 .. Len(s) : ~AboutRound(s[i])
RematchFirst(s) ==
    \A i, j \in 1 .. Len(s) : AboutRematch(s[i]) /\ AboutRound(s[j]) => i < j
RematchLast(s) ==
    \A i, j \in 1 .. Len(s) : AboutRematch(s[i]) /\ AboutRound(s[j]) => j < i

LEMMA RequestKinds ==
    ASSUME NEW request \in Requests
    PROVE  AboutRound(request) <=> ~AboutRematch(request)
BY DEF Requests, Request, AboutRound, AboutRematch

LEMMA QueueAppended ==
    ASSUME NEW s \in Seq(Requests), NEW request \in Requests
    PROVE  LET longer == Append(s, request) IN
           /\ AboutRematch(request) =>
                /\ HasRematch(longer)
                /\ NoRound(s) => NoRound(longer) /\ RematchFirst(longer)
                /\ RematchLast(s) => RematchLast(longer)
                /\ ~HasRematch(s) => RematchLast(longer)
           /\ AboutRound(request) =>
                /\ HasRematch(longer) => HasRematch(s)
                /\ RematchFirst(s) => RematchFirst(longer)
           /\ request.optype # "put_chess" =>
                (Has(longer, "put_chess") => Has(s, "put_chess"))
<1> DEFINE longer == Append(s, request)
<1>1. PICK n \in Nat : n = Len(s)
  OBVIOUS
<1>2. /\ Len(longer) = n + 1 /\ longer[n + 1] = request
      /\ \A i \in 1 .. n : longer[i] = s[i]
  BY <1>1
<1> HIDE DEF longer
<1>3. \A i \in 1 .. n + 1 : i = n + 1 \/ i \in 1 .. n
  OBVIOUS
<1>4. \A i \in 1 .. n : i < n + 1 /\ i \in 1 .. n + 1
  OBVIOUS
<1>5. AboutRound(request) <=> ~AboutRematch(request)
  BY RequestKinds
<1>6. ASSUME AboutRematch(request)
      PROVE  /\ HasRematch(longer)
             /\ NoRound(s) => NoRound(longer) /\ RematchFirst(longer)
             /\ RematchLast(s) => RematchLast(longer)
             /\ ~HasRematch(s) => RematchLast(longer)
  <2>1. HasRematch(longer)
    BY <1>2, <1>6 DEF HasRematch
  <2>2. NoRound(s) => NoRound(longer) /\ RematchFirst(longer)
    BY <1>1, <1>2, <1>3, <1>5, <1>6 DEF NoRound, RematchFirst
  <2>3. RematchLast(s) => RematchLast(longer)
    BY <1>1, <1>2, <1>3, <1>4, <1>5, <1>6 DEF RematchLast
  <2>4. ~HasRematch(s) => RematchLast(longer)
    BY <1>1, <1>2, <1>3, <1>4, <1>5, <1>6 DEF RematchLast, HasRematch
  <2>5. QED BY <2>1, <2>2, <2>3, <2>4
<1>7. ASSUME AboutRound(request)
      PROVE  /\ HasRematch(longer) => HasRematch(s)
             /\ RematchFirst(s) => RematchFirst(longer)
  <2>1. HasRematch(longer) => HasRematch(s)
    BY <1>1, <1>2, <1>3, <1>5, <1>7 DEF HasRematch
  <2>2. RematchFirst(s) => RematchFirst(longer)
    BY <1>1, <1>2, <1>3, <1>4, <1>5, <1>7 DEF RematchFirst
  <2>3. QED BY <2>1, <2>2
<1>8. request.optype # "put_chess" => (Has(longer, "put_chess") => Has(s, "put_chess"))
  BY <1>1, <1>2, <1>3 DEF Has
<1>9. QED BY <1>6, <1>7, <1>8 DEF longer

LEMMA QueuePopped ==
    ASSUME NEW s \in Seq(Requests), s # <<>>
    PROVE  /\ Head(s) \in Requests
           /\ HasRematch(Tail(s)) => HasRematch(s)
           /\ NoRound(s) => NoRound(Tail(s))
           /\ RematchFirst(s) => RematchFirst(Tail(s))
           /\ RematchLast(s) => RematchLast(Tail(s))
           /\ Has(Tail(s), "put_chess") => Has(s, "put_chess")
           /\ AboutRematch(Head(s)) => HasRematch(s)
           /\ AboutRematch(Head(s)) /\ RematchLast(s) => NoRound(s)
           /\ AboutRound(Head(s)) => ~NoRound(s)
           /\ AboutRound(Head(s)) /\ RematchFirst(s) => ~HasRematch(s)
           /\ Head(s).optype = "put_chess" => Has(s, "put_chess")
<1>1. PICK n \in Nat : n = Len(s) /\ n >= 1
  OBVIOUS
<1>2. /\ Head(s) = s[1] /\ Head(s) \in Requests /\ Len(Tail(s)) = n - 1
      /\ \A i \in 1 .. n - 1 : Tail(s)[i] = s[i + 1]
  BY <1>1
<1>3. 1 \in 1 .. n /\ \A i \in 1 .. n - 1 : i + 1 \in 1 .. n
  BY <1>1
<1>4. \A i \in 1 .. n : ~(i < 1)
  OBVIOUS
<1>5. \A i, j \in 1 .. n - 1 : i + 1 < j + 1 => i < j
  OBVIOUS
<1>6. HasRematch(Tail(s)) => HasRematch(s)
  BY <1>1, <1>2, <1>3 DEF HasRematch
<1>7. NoRound(s) => NoRound(Tail(s))
  BY <1>1, <1>2, <1>3 DEF NoRound
<1>8. RematchFirst(s) => RematchFirst(Tail(s))
  BY <1>1, <1>2, <1>3, <1>5 DEF RematchFirst
<1>9. RematchLast(s) => RematchLast(Tail(s))
  BY <1>1, <1>2, <1>3, <1>5 DEF RematchLast
<1>10. Has(Tail(s), "put_chess") => Has(s, "put_chess")
  BY <1>1, <1>2, <1>3 DEF Has
<1>11. AboutRematch(Head(s)) => HasRematch(s)
  BY <1>1, <1>2, <1>3 DEF HasRematch
<1>12. AboutRematch(Head(s)) /\ RematchLast(s) => NoRound(s)
  BY <1>1, <1>2, <1>3, <1>4 DEF RematchLast, NoRound
<1>13. AboutRound(Head(s)) => ~NoRound(s)
  BY <1>1, <1>2, <1>3 DEF NoRound
<1>14. AboutRound(Head(s)) /\ RematchFirst(s) => ~HasRematch(s)
  BY <1>1, <1>2, <1>3, <1>4 DEF RematchFirst, HasRematch
<1>15. Head(s).optype = "put_chess" => Has(s, "put_chess")
  BY <1>1, <1>2, <1>3 DEF Has
<1>16. QED BY <1>2, <1>6, <1>7, <1>8, <1>9, <1>10, <1>11, <1>12, <1>13, <1>14, <1>15

(* Once a page on the way has that status, the later ones have it.         *)
Keeps(trace, status) ==
    \A i, j \in 1 .. Len(trace) : i < j /\ trace[i].status = status => trace[j].status = status

LEMMA KeepsSent ==
    ASSUME NEW trace, NEW n \in Nat \ {0}, Len(trace) = n, NEW longer, Len(longer) = n + 1,
           \A i \in 1 .. n : longer[i] = trace[i], NEW status
    PROVE  /\ /\ Keeps(trace, status)
              /\ trace[n].status = status => longer[n + 1].status = status
              => Keeps(longer, status)
           /\ (\A i \in 1 .. n : trace[i].status # status) => Keeps(longer, status)
<1>1. \A i \in 1 .. n + 1 : i = n + 1 \/ i \in 1 .. n
  OBVIOUS
<1>2. \A i \in 1 .. n + 1 : i < n + 1 => i \in 1 .. n
  OBVIOUS
<1>3. \A i \in 1 .. n : ~(n + 1 < i) /\ (i = n \/ i < n) /\ n \in 1 .. n
  OBVIOUS
<1>4. ASSUME Keeps(trace, status), trace[n].status = status => longer[n + 1].status = status
      PROVE  Keeps(longer, status)
  <2>1. SUFFICES ASSUME NEW i \in 1 .. n + 1, NEW j \in 1 .. n + 1, i < j,
                        longer[i].status = status
                 PROVE  longer[j].status = status
    BY DEF Keeps
  <2>2. i \in 1 .. n /\ trace[i].status = status
    BY <1>1, <1>3, <2>1
  <2>3. trace[n].status = status
    BY <1>3, <1>4, <2>2 DEF Keeps
  <2>4. CASE j = n + 1
    BY <1>4, <2>3, <2>4
  <2>5. CASE j \in 1 .. n
    BY <1>4, <2>1, <2>2, <2>5 DEF Keeps
  <2>6. QED BY <1>1, <2>4, <2>5
<1>5. ASSUME \A i \in 1 .. n : trace[i].status # status
      PROVE  Keeps(longer, status)
  <2>1. SUFFICES ASSUME NEW i \in 1 .. n + 1, NEW j \in 1 .. n + 1, i < j,
                        longer[i].status = status
                 PROVE  FALSE
    BY DEF Keeps
  <2>2. QED BY <1>1, <1>3, <1>5, <2>1
<1>6. QED BY <1>4, <1>5

-----------------------------------------------------------------------------
(* One stone is no row where a row is longer than that.                    *)
LEMMA FirstStone ==
    ASSUME FIVE > 1, NEW cell \in Cells, NEW color \in Colors
    PROVE  ~check_win([EmptyBoard EXCEPT ![cell] = color], cell, color)
<1> DEFINE placed == [EmptyBoard EXCEPT ![cell] = color]
<1>1. FIVE \in Nat /\ 0 \in 0 .. FIVE - 1 /\ 1 \in 0 .. FIVE - 1
  BY BoardAssumption
<1>2. EmptyBoard \in Boards /\ EMPTY \notin Colors
  BY DEF EmptyBoard, Boards, EMPTY, Colors, CHESS_WHITE, CHESS_BLACK
<1>3. \A other \in Colors : ~HasRow(EmptyBoard, other)
  BY <1>1, <1>2 DEF HasRow, Window, EmptyBoard
<1>4. ~HasRow(placed, color)
  <2>1. \A c \in Cells : placed[c] = color => c = cell
    BY <1>2 DEF EmptyBoard
  <2> HIDE DEF placed
  <2>2. ASSUME NEW c \in Cells, NEW dir \in Directions,
               \A d \in Window(c, dir) : d \in Cells /\ placed[d] = color
        PROVE  FALSE
    <3>1. Shift(c, dir, 0) = cell /\ Shift(c, dir, 1) = cell
      BY <1>1, <2>1, <2>2 DEF Window
    <3>2. c[1] \in Int /\ c[2] \in Int
      BY BoardAssumption DEF Cells
    <3>3. PICK x \in Int, y \in Int : x = c[1] /\ y = c[2]
      BY <3>2
    <3>4. /\ x + 0 * dir[1] = x + 1 * dir[1]
          /\ y + 0 * dir[2] = y + 1 * dir[2]
      BY <3>1, <3>3 DEF Shift
    <3>5. QED BY <3>3, <3>4 DEF Directions
  <2>3. QED BY <2>2 DEF HasRow
<1> HIDE DEF placed
<1>5. check_win(placed, cell, color) <=> HasRow(placed, color)
  BY <1>2, <1>3, CheckWinDecides DEF placed
<1>6. QED BY <1>4, <1>5 DEF placed

(* With both players there, a round ends by a request of the player to     *)
(* move, after its first stone.                                            *)
LEMMA EndedByMover ==
    ASSUME FIVE > 1, Base, NEW uid \in Players, Registered,
           wsmsg_game_room(uid) \/ ClosesPage(uid),
           statu = GAME_START, statu' = GAME_OVER, both_players_online
    PROVE  timing_started /\ turn_uid = uid
<1>1. CASE ClosesPage(uid)
  <2>1. uid \notin online
    BY <1>1, ExitTells DEF ClosesPage
  <2>2. QED BY <2>1 DEF both_players_online, Base, Inv, TypeOK, SeatsDistinct, Players
<1>2. CASE PutChessTooLate(uid)
  BY <1>2 DEF PutChessTooLate, OutOfTurn
<1>3. CASE timeout(uid)
  BY <1>3 DEF timeout, TimeoutRefused, TimeoutSettled, Refused, vars, game
<1>4. ASSUME NEW cell \in Cells, PutChess(uid, cell, 0)
      PROVE  timing_started /\ turn_uid = uid
  <2> DEFINE answer == handle_chess(uid, cell, 0)
  <2>1. answer.winner # 0 /\ ~OutOfTurn(uid)
    BY <1>4 DEF PutChess, Refused, vars, game
  <2>2. white_id \in online /\ black_id \in online
    BY DEF both_players_online
  <2>3. board[cell] = EMPTY /\ check_win([board EXCEPT ![cell] = ColorOf(uid)], cell, ColorOf(uid))
    BY <2>1, <2>2 DEF handle_chess
  <2>4. CASE timing_started
    BY <2>1, <2>4 DEF OutOfTurn
  <2>5. CASE ~timing_started
    <3>1. board = EmptyBoard /\ ColorOf(uid) \in Colors
      BY <2>5, ColorsNonEmpty DEF Base, Inv, ClockedRound, ColorOf, Colors
    <3>2. QED BY <2>3, <3>1, FirstStone
  <2>6. QED BY <2>4, <2>5
<1>5. CASE wsmsg_game_room(uid)
  <2>1. outbox[uid] # <<>> /\ outbox[uid] \in Seq(Requests)
    BY <1>5 DEF wsmsg_game_room, Base, PageTypeOK
  <2>2. PICK request \in Requests : request = Head(outbox[uid])
    BY <2>1
  <2>3. request.optype = "put_chess" => request.cell \in Cells
    BY DEF Requests, Request
  <2>4. \/ request.optype = "put_chess" /\ put_chess(uid, request.cell)
        \/ timeout(uid)
        \/ RematchInvite(uid)
        \/ rematch_accept(uid)
    BY <1>5, <2>2 DEF wsmsg_game_room
  <2>5. CASE request.optype = "put_chess" /\ put_chess(uid, request.cell)
    <3>1. ~PutChessRefused(uid)
      BY DEF PutChessRefused, Refused, vars, game
    <3>2. QED BY <1>2, <1>4, <2>3, <2>5, <3>1 DEF put_chess
  <2>6. CASE RematchInvite(uid)
    BY <2>6 DEF RematchInvite, Refused, vars, game
  <2>7. CASE rematch_accept(uid)
    BY <2>7 DEF rematch_accept, RematchRefused, RematchStart, AcceptAllowed, Refused, vars, game
  <2>8. QED BY <1>3, <2>4, <2>5, <2>6, <2>7
<1>6. QED BY <1>1, <1>5

(* A white stone on an empty board is one white asked for.                 *)
LEMMA WhiteAsked ==
    ASSUME Base, NEW uid \in Players, wsmsg_game_room(uid), board = EmptyBoard,
           NEW cell \in Cells, board'[cell] = CHESS_WHITE
    PROVE  /\ statu = GAME_START /\ uid = white_id
           /\ outbox[uid] # <<>> /\ Head(outbox[uid]).optype = "put_chess"
<1>1. board[cell] = EMPTY /\ EMPTY # CHESS_WHITE
  BY DEF EmptyBoard, EMPTY, CHESS_WHITE
<1>2. board' # board
  BY <1>1
<1>3. ~timeout(uid) /\ ~RematchInvite(uid)
  BY <1>2 DEF timeout, TimeoutRefused, TimeoutSettled, RematchInvite, Refused, vars, game
<1>4. ~rematch_accept(uid)
  <2>1. CASE RematchStart(uid)
    BY <1>1, <2>1 DEF RematchStart, EmptyBoard
  <2>2. CASE RematchRefused(uid)
    BY <1>2, <2>2 DEF RematchRefused, Refused, vars, game
  <2>3. QED BY <2>1, <2>2 DEF rematch_accept
<1>5. PICK target : /\ Head(outbox[uid]).optype = "put_chess" /\ outbox[uid] # <<>>
                    /\ put_chess(uid, target)
  BY <1>3, <1>4 DEF wsmsg_game_room
<1>6. PutChess(uid, target, 0) /\ statu = GAME_START
  BY <1>2, <1>5 DEF put_chess, PutChessRefused, PutChessTooLate, PutChess, Refused, vars, game
<1>7. board' = handle_chess(uid, target, 0).board
  BY <1>2, <1>6 DEF PutChess, Refused, vars, game
<1>8. handle_chess(uid, target, 0).board \in {board, [board EXCEPT ![target] = ColorOf(uid)]}
  BY DEF handle_chess
<1>9. board'[cell] = ColorOf(uid)
  <2>1. board \in [Cells -> Colors \cup {EMPTY}]
    BY DEF Base, Inv, TypeOK, Boards
  <2>2. QED BY <1>1, <1>2, <1>7, <1>8, <2>1
<1>10. uid = white_id
  BY <1>9 DEF ColorOf, CHESS_WHITE, CHESS_BLACK
<1>11. QED BY <1>5, <1>6, <1>10

(* A page that is playing goes on until it hears of an end.                *)
LEMMA ShownPlays ==
    ASSUME NEW v \in Players, NEW p \in Pages, NEW m \in Messages,
           p.status = "playing", ~EndsRound(m)
    PROVE  Shown(v, p, m).status = "playing"
<1>1. CASE StartsClock(m)
  BY <1>1, ShownStone
<1>2. CASE SetsUp(m)
  BY <1>2, ShownStart DEF SetsUp
<1>3. CASE m.optype = "rematch_invite"
  BY <1>3, ShownInvite
<1>4. QED BY <1>1, <1>2, <1>3, MessageKinds

LEMMA ShownStops ==
    ASSUME NEW v \in Players, NEW p \in Pages, NEW m \in Messages,
           p.status = "over" => p.thinking = 0,
           StartsClock(m) => p.status = "playing"
    PROVE  Shown(v, p, m).status = "over" => Shown(v, p, m).thinking = 0
<1>1. CASE StartsClock(m)
  BY <1>1, ShownStone
<1>2. CASE EndsRound(m)
  BY <1>2, ShownEnd
<1>3. CASE SetsUp(m)
  BY <1>3, ShownStart
<1>4. CASE m.optype = "rematch_invite"
  BY <1>4, ShownInvite
<1>5. QED BY <1>1, <1>2, <1>3, <1>4, MessageKinds

-----------------------------------------------------------------------------
(* A player who is away, or whose page plays on as if the round were not   *)
(* over, takes no part in a rematch.                                       *)
Silent(uid) ==
    /\ initiator # uid
    /\ uid \in online =>
         /\ view[uid].status = "playing"
         /\ \A i \in 1 .. Len(inbox[uid]) : ~EndsRound(inbox[uid][i])
         /\ ~HasRematch(outbox[uid])

Stopped(uid) == view[uid].status = "over" => view[uid].thinking = 0

LEMMA SilentKept ==
    ASSUME NEW uid \in Players, Silent(uid), initiator' # uid,
           uid \in online' => uid \in online,
           view'[uid].status = view[uid].status, inbox'[uid] = inbox[uid],
           HasRematch(outbox'[uid]) => HasRematch(outbox[uid])
    PROVE  Silent(uid)'
BY DEF Silent

(* What a page asks for by itself, and when. *)
LEMMA OwnRequests ==
    ASSUME Base, NEW uid \in Players, OwnStep(uid), Stopped(uid)
    PROVE  \E request \in Requests :
             /\ Asks(uid, request)
             /\ AboutRound(request) => view[uid].status # "over"
             /\ AboutRematch(request) => view[uid].status = "over"
             /\ request.optype = "put_chess" => MayClick(view[uid])
             /\ \A other \in Players \ {uid} : view'[other] = view[other]
             /\ view'[uid].thinking # view[uid].thinking => view'[uid].thinking = 0
<1>1. view \in [Players -> Pages]
  BY DEF Base, PageTypeOK
<1>2. ASSUME NEW cell \in Cells, Clicks(uid, cell)
      PROVE  LET request == [optype |-> "put_chess", cell |-> cell] IN
             /\ Asks(uid, request) /\ AboutRound(request) /\ ~AboutRematch(request)
             /\ MayClick(view[uid]) /\ view[uid].status # "over" /\ view' = view
  BY <1>2, ClicksAsks DEF Clicks, AboutRound, AboutRematch, MayClick
<1>3. ASSUME Reports(uid)
      PROVE  LET request == Request("timeout") IN
             /\ Asks(uid, request) /\ AboutRound(request) /\ ~AboutRematch(request)
             /\ request.optype # "put_chess" /\ view[uid].status # "over"
             /\ \A other \in Players \ {uid} : view'[other] = view[other]
             /\ view'[uid].thinking = 0
  <2>1. view[uid].thinking # 0 /\ view'[uid].thinking = 0
        /\ \A other \in Players \ {uid} : view'[other] = view[other]
    BY <1>3, ClockAtZero DEF Reports
  <2>2. QED BY <1>3, <2>1, ReportAsks DEF Stopped, Request, AboutRound, AboutRematch
<1>4. ASSUME NEW optype \in {"rematch_invite", "rematch_accept"},
             NEW panel \in {"sent", "accepted"}, view[uid].status = "over",
             Sends(uid, Request(optype)), view' = [view EXCEPT ![uid].panel = panel]
      PROVE  LET request == Request(optype) IN
             /\ Asks(uid, request) /\ ~AboutRound(request) /\ request.optype # "put_chess"
             /\ \A other \in Players \ {uid} : view'[other] = view[other]
             /\ view'[uid].thinking = view[uid].thinking
  <2>1. /\ view'[uid].thinking = view[uid].thinking
        /\ \A other \in Players \ {uid} : view'[other] = view[other]
    BY <1>1, <1>4 DEF Pages
  <2>2. QED BY <1>4, <2>1, RematchAsks DEF Request, AboutRound
<1>5. CASE \E cell \in Cells : Clicks(uid, cell)
  BY <1>2, <1>5 DEF Asks
<1>6. CASE Reports(uid)
  BY <1>3, <1>6 DEF Asks
<1>7. CASE sendRematchInvite(uid)
  BY <1>4, <1>7 DEF sendRematchInvite, Asks
<1>8. CASE sendRematchAccept(uid)
  BY <1>4, <1>8 DEF sendRematchAccept, Asks
<1>9. QED BY <1>5, <1>6, <1>7, <1>8 DEF OwnStep

LEMMA SilentOwn ==
    ASSUME Base, NEW uid \in Players, OwnStep(uid), Stopped(uid), NEW o \in Players, Silent(o)
    PROVE  Silent(o)'
<1>1. PICK request \in Requests :
             /\ Asks(uid, request)
             /\ AboutRematch(request) => view[uid].status = "over"
             /\ \A other \in Players \ {uid} : view'[other] = view[other]
  BY OwnRequests
<1>2. /\ UNCHANGED <<initiator, online, inbox>> /\ outbox \in [Players -> Seq(Requests)]
      /\ outbox'[o] = IF o = uid THEN Append(outbox[o], request) ELSE outbox[o]
      /\ view'[o].status = view[o].status
  BY <1>1, OwnSteps DEF Asks, vars, game, presence, Base, PageTypeOK, SameCores, Core
<1>3. initiator' # o
  BY <1>2 DEF Silent
<1>4. CASE o # uid
  BY <1>2, <1>3, <1>4, SilentKept
<1>5. CASE o = uid
  <2>1. o \in online
    BY <1>1, <1>5 DEF Asks, Base, Connected
  <2>2. AboutRound(request)
    BY <1>1, <1>5, <2>1, RequestKinds DEF Silent
  <2>3. HasRematch(outbox'[o]) => HasRematch(outbox[o])
    BY <1>2, <1>5, <2>2, QueueAppended
  <2>4. QED BY <1>2, <1>3, <2>3, SilentKept
<1>6. QED BY <1>4, <1>5

LEMMA SilentHeard ==
    ASSUME Base, NEW uid \in Players, onmessage(uid), NEW o \in Players, Silent(o)
    PROVE  Silent(o)'
<1>1. /\ UNCHANGED <<initiator, online, outbox>>
      /\ \A other \in Players \ {uid} : inbox'[other] = inbox[other] /\ view'[other] = view[other]
      /\ inbox[uid] \in Seq(Messages) /\ inbox[uid] # <<>> /\ Head(inbox[uid]) \in Messages
      /\ inbox'[uid] = Tail(inbox[uid]) /\ view[uid] \in Pages
      /\ view'[uid] = Shown(uid, view[uid], Head(inbox[uid]))
  BY ShownTypes DEF onmessage, vars, game, presence, Base, PageTypeOK
<1>2. initiator' # o
  BY <1>1 DEF Silent
<1>3. CASE o # uid
  BY <1>1, <1>2, <1>3, SilentKept
<1>4. CASE o = uid
  <2>1. o \in online
    BY <1>1, <1>4 DEF Base, Connected, Inv, TypeOK
  <2>2. PICK n \in Nat : n = Len(inbox[o]) /\ n >= 1
    BY <1>1, <1>4
  <2>3. /\ Head(inbox[o]) = inbox[o][1] /\ Len(inbox'[o]) = n - 1
        /\ \A i \in 1 .. n - 1 : inbox'[o][i] = inbox[o][i + 1] /\ i + 1 \in 1 .. n
    <3>1. PICK s \in Seq(Messages) : s = inbox[o] /\ s # <<>>
      BY <1>1, <1>4
    <3>2. /\ Head(s) = s[1] /\ Len(Tail(s)) = Len(s) - 1
          /\ \A i \in 1 .. Len(s) - 1 : Tail(s)[i] = s[i + 1]
      BY <3>1
    <3>3. \A i \in 1 .. n - 1 : i + 1 \in 1 .. n
      OBVIOUS
    <3>4. QED BY <1>1, <1>4, <2>2, <3>1, <3>2, <3>3
  <2>4. view[o].status = "playing" /\ ~EndsRound(Head(inbox[o]))
    BY <2>1, <2>2, <2>3 DEF Silent
  <2>5. view'[o].status = "playing"
    BY <1>1, <1>4, <2>4, ShownPlays
  <2>6. \A i \in 1 .. Len(inbox'[o]) : ~EndsRound(inbox'[o][i])
    BY <2>1, <2>2, <2>3 DEF Silent
  <2>7. QED BY <1>1, <1>2, <2>1, <2>5, <2>6 DEF Silent
<1>5. QED BY <1>3, <1>4

LEMMA SilentRefused ==
    ASSUME Base, NEW uid \in Players, RefusedStep(uid), NEW o \in Players, Silent(o)
    PROVE  Silent(o)'
<1>1. /\ UNCHANGED <<initiator, online, inbox, view>>
      /\ outbox \in [Players -> Seq(Requests)]
      /\ outbox[uid] # <<>>
      /\ outbox'[o] = IF o = uid THEN Tail(outbox[o]) ELSE outbox[o]
  BY DEF RefusedStep, Pops, vars, game, presence, Base, PageTypeOK
<1>2. initiator' # o
  BY <1>1 DEF Silent
<1>3. HasRematch(outbox'[o]) => HasRematch(outbox[o])
  BY <1>1, QueuePopped
<1>4. QED BY <1>1, <1>2, <1>3, SilentKept

LEMMA SilentTold ==
    ASSUME Base, NEW uid \in Players, NEW m, ToldStep(uid, m), statu = GAME_OVER,
           statu' = GAME_OVER, NEW w \in online, NEW o \in Players, o # w, Silent(o)
    PROVE  Silent(o)'
<1>1. /\ UNCHANGED <<online, view>> /\ m \in Messages
      /\ inbox \in [Players -> Seq(Messages)] /\ outbox \in [Players -> Seq(Requests)]
      /\ inbox'[o] = IF o \in online THEN Append(inbox[o], m) ELSE inbox[o]
  BY DEF ToldStep, SendsTo, StoneTold, EndTold, InviteTold, RematchTold, Base, PageTypeOK
<1>2. CASE o \notin online
  <2>1. initiator' # o
    <3>1. CASE Pops(uid, {"rematch_invite"}) /\ InviteTold(uid, m)
      <4>1. uid \in online
        BY <3>1 DEF Pops, Base, Connected, Inv, TypeOK
      <4>2. QED BY <1>2, <3>1, <4>1 DEF InviteTold
    <3>2. CASE EndTold(m)
      BY <3>2 DEF EndTold, Silent
    <3>3. QED BY <3>1, <3>2 DEF ToldStep, StoneTold, RematchTold
  <2>2. QED BY <1>1, <1>2, <2>1 DEF Silent
<1>3. CASE o \in online
  <2>1. Players = {o, w}
    BY DEF Players, Base, Inv, TypeOK
  <2>2. Pops(uid, {"rematch_invite"}) /\ InviteTold(uid, m)
    BY <1>3, <2>1 DEF ToldStep, StoneTold, EndTold, RematchTold
  <2>3. outbox[uid] # <<>> /\ Head(outbox[uid]).optype = "rematch_invite"
        /\ outbox' = [outbox EXCEPT ![uid] = Tail(@)]
    BY <2>2 DEF Pops
  <2>4. HasRematch(outbox[uid])
    BY <1>1, <2>3, QueuePopped DEF AboutRematch
  <2>5. uid # o
    BY <1>3, <2>4 DEF Silent
  <2>6. initiator' = uid /\ ~EndsRound(m)
    BY <2>2 DEF InviteTold, InviteMsg, EndsRound
  <2>7. outbox'[o] = outbox[o]
    BY <1>1, <2>3, <2>5
  <2>8. \A i \in 1 .. Len(inbox'[o]) : ~EndsRound(inbox'[o][i])
    BY <1>1, <1>3, <2>6 DEF Silent
  <2>9. QED BY <1>1, <1>3, <2>5, <2>6, <2>7, <2>8 DEF Silent
<1>4. QED BY <1>2, <1>3

LEMMA SilentMoved ==
    ASSUME Base, NEW uid \in Players, OpensPage(uid) \/ DropsPage(uid), statu = GAME_OVER,
           NEW o \in Players, Silent(o)
    PROVE  Silent(o)'
<1>1. /\ UNCHANGED initiator
      /\ \A other \in Players \ {uid} : /\ inbox'[other] = inbox[other] /\ outbox'[other] = outbox[other]
                                        /\ view'[other] = view[other]
                                        /\ other \in online' => other \in online
  <2>1. CASE OpensPage(uid)
    BY <2>1, OpenSteps DEF OpensPage, SendsTo, game, Base, PageTypeOK
  <2>2. CASE DropsPage(uid)
    BY <2>2, DropSteps DEF DropsPage, game, Base, PageTypeOK
  <2>3. QED BY <2>1, <2>2
<1>2. initiator' # o
  BY <1>1 DEF Silent
<1>3. CASE o # uid
  BY <1>1, <1>2, <1>3, SilentKept
<1>4. CASE o = uid /\ DropsPage(uid)
  <2>1. o \notin online'
    BY <1>4, DropSteps DEF DropsPage
  <2>2. QED BY <1>2, <2>1 DEF Silent
<1>5. CASE o = uid /\ OpensPage(uid)
  <2>1. outbox'[o] = <<>>
    BY <1>5, OpenSteps DEF OpensPage
  <2>2. PICK page \in Pages, m \in Messages :
          /\ page = NewPage(statu = GAME_OVER) /\ view'[uid] = page
          /\ m = RoomReady(white_id) /\ inbox'[uid] = <<m>>
    BY <1>5, FollowsOpened
  <2>3. view'[o].status = "playing"
    BY <1>5, <2>2, NewPageFields
  <2>4. ~EndsRound(m)
    BY <2>2 DEF RoomReady, EndsRound
  <2>5. \A i \in 1 .. Len(inbox'[o]) : ~EndsRound(inbox'[o][i])
    <3>1. Len(<<m>>) = 1 /\ <<m>>[1] = m
      OBVIOUS
    <3>2. \A i \in 1 .. 1 : i = 1
      OBVIOUS
    <3>3. QED BY <1>5, <2>2, <2>4, <3>1, <3>2
  <2>6. ~HasRematch(outbox'[o])
    BY <2>1 DEF HasRematch
  <2>7. QED BY <1>2, <2>3, <2>5, <2>6 DEF Silent
<1>6. QED BY <1>3, <1>4, <1>5

-----------------------------------------------------------------------------
(* What keeps the order of the rounds, for the page of w and its trace.    *)
(* A stone comes to a page that is playing.                                *)
Stones(w, trace) ==
    \A i \in 1 .. Len(inbox[w]) : StartsClock(inbox[w][i]) => trace[i].status = "playing"

(* While a round is played, a page that has heard of it goes on playing;   *)
(* before the first stone, the page of white offers no move on the way.    *)
RoundTrace(w, trace) ==
    statu = GAME_START =>
        /\ Keeps(trace, "playing")
        /\ ~timing_started /\ w = white_id => \A i \in 1 .. Len(trace) : ~MayClick(trace[i])

(* Once it is over, a page that has heard so knows it for good.            *)
OverTrace(w, trace) ==
    statu = GAME_OVER => Silent(OtherOf(w)) \/ Keeps(trace, "over")

(* A page that still asks for the rematch has no stone in this round, and  *)
(* asks for no stone before it has heard of it.                            *)
RoundQueue(w) ==
    statu = GAME_START =>
        /\ HasRematch(outbox[w]) \/ view[w].status = "over" => (timing_started => turn_uid = w)
        /\ RematchFirst(outbox[w])
        /\ view[w].status = "over" => NoRound(outbox[w])
        /\ ~timing_started /\ w = white_id => ~Has(outbox[w], "put_chess")

(* Who asks for a rematch knows that the round is over and has sent all of *)
(* its stones before.                                                      *)
OverQueue(w) ==
    statu = GAME_OVER /\ (HasRematch(outbox[w]) \/ initiator = w) =>
        \/ Silent(OtherOf(w))
        \/ /\ view[w].status = "over"
           /\ RematchLast(outbox[w])
           /\ initiator = w => NoRound(outbox[w])

InOrder(w, trace) ==
    /\ Stopped(w)
    /\ Stones(w, trace)
    /\ ~view[w].late => /\ RoundTrace(w, trace) /\ OverTrace(w, trace)
                        /\ RoundQueue(w) /\ OverQueue(w)

LEMMA InOrderKept ==
    ASSUME NEW w \in Players, NEW trace, InOrder(w, trace),
           UNCHANGED <<statu, white_id, timing_started, turn_uid, initiator>>,
           inbox'[w] = inbox[w], outbox'[w] = outbox[w],
           view'[w].status = view[w].status, view'[w].late = view[w].late,
           view'[w].thinking \in {view[w].thinking, 0},
           statu = GAME_OVER /\ Silent(OtherOf(w)) => Silent(OtherOf(w))'
    PROVE  InOrder(w, trace)'
<1>1. Stopped(w)' /\ Stones(w, trace)'
  BY DEF InOrder, Stopped, Stones
<1>2. RoundTrace(w, trace) => RoundTrace(w, trace)'
  BY DEF RoundTrace
<1>3. OverTrace(w, trace) => OverTrace(w, trace)'
  BY DEF OverTrace
<1>4. RoundQueue(w) => RoundQueue(w)'
  BY DEF RoundQueue
<1>5. OverQueue(w) => OverQueue(w)'
  BY DEF OverQueue
<1>6. QED BY <1>1, <1>2, <1>3, <1>4, <1>5 DEF InOrder

LEMMA InOrderOwn ==
    ASSUME Base, NEW w \in Players, OwnStep(w), NEW trace, Follows(w, trace), InOrder(w, trace)
    PROVE  InOrder(w, trace)'
<1>1. PICK request \in Requests :
             /\ Asks(w, request)
             /\ AboutRound(request) => view[w].status # "over"
             /\ AboutRematch(request) => view[w].status = "over"
             /\ request.optype = "put_chess" => MayClick(view[w])
             /\ view'[w].thinking # view[w].thinking => view'[w].thinking = 0
  BY OwnRequests DEF InOrder
<1>2. /\ UNCHANGED <<statu, white_id, timing_started, turn_uid, initiator, inbox>>
      /\ outbox[w] \in Seq(Requests)
      /\ outbox'[w] = Append(outbox[w], request)
      /\ view'[w].status = view[w].status /\ view'[w].late = view[w].late
  BY <1>1, OwnSteps DEF Asks, vars, game, Base, PageTypeOK, SameCores, Core
<1>3. Silent(OtherOf(w)) => Silent(OtherOf(w))'
  BY OtherPlayer, SilentOwn DEF InOrder
<1>4. Stopped(w)' /\ Stones(w, trace)'
  BY <1>1, <1>2 DEF InOrder, Stopped, Stones
<1>5. RoundTrace(w, trace) => RoundTrace(w, trace)'
  BY <1>2 DEF RoundTrace
<1>6. OverTrace(w, trace) => OverTrace(w, trace)'
  BY <1>2, <1>3 DEF OverTrace
<1>7. AboutRound(request) <=> ~AboutRematch(request)
  BY RequestKinds
<1>8. /\ AboutRematch(request) =>
           /\ HasRematch(outbox'[w])
           /\ NoRound(outbox[w]) => NoRound(outbox'[w]) /\ RematchFirst(outbox'[w])
           /\ RematchLast(outbox[w]) => RematchLast(outbox'[w])
           /\ ~HasRematch(outbox[w]) => RematchLast(outbox'[w])
      /\ AboutRound(request) =>
           /\ HasRematch(outbox'[w]) => HasRematch(outbox[w])
           /\ RematchFirst(outbox[w]) => RematchFirst(outbox'[w])
      /\ request.optype # "put_chess" =>
           (Has(outbox'[w], "put_chess") => Has(outbox[w], "put_chess"))
  BY <1>2, QueueAppended
<1>9. ASSUME RoundTrace(w, trace), statu = GAME_START, ~timing_started, w = white_id
      PROVE  request.optype # "put_chess"
  <2>1. PICK p \in Pages : p = trace[1] /\ Core(p) = Core(view[w]) /\ 1 \in 1 .. Len(trace)
    <3>1. /\ trace \in Seq(Pages) /\ Len(trace) = Len(inbox[w]) + 1
          /\ Core(trace[1]) = Core(view[w]) /\ Len(inbox[w]) \in Nat
      BY DEF Follows, Trace, Base, PageTypeOK
    <3>2. Len(trace) \in Nat /\ Len(trace) >= 1
      BY <3>1
    <3>3. QED BY <3>1, <3>2
  <2>2. p.status = view[w].status /\ p.myTurn = view[w].myTurn
    BY <2>1 DEF Core
  <2>3. ~MayClick(p)
    BY <1>9, <2>1 DEF RoundTrace
  <2>4. QED BY <1>1, <2>2, <2>3 DEF MayClick
<1>10. RoundTrace(w, trace) /\ RoundQueue(w) => RoundQueue(w)'
  BY <1>1, <1>2, <1>7, <1>8, <1>9 DEF RoundQueue
<1>11. OverQueue(w) => OverQueue(w)'
  BY <1>1, <1>2, <1>3, <1>7, <1>8 DEF OverQueue
<1>12. QED BY <1>2, <1>4, <1>5, <1>6, <1>10, <1>11 DEF InOrder

LEMMA InOrderHeard ==
    ASSUME Base, NEW w \in Players, onmessage(w), NEW trace, Follows(w, trace), InOrder(w, trace)
    PROVE  InOrder(w, Tail(trace))'
<1>1. /\ inbox[w] \in Seq(Messages) /\ inbox[w] # <<>> /\ view[w] \in Pages
      /\ Head(inbox[w]) \in Messages
      /\ inbox'[w] = Tail(inbox[w]) /\ view'[w] = Shown(w, view[w], Head(inbox[w]))
      /\ UNCHANGED <<statu, white_id, timing_started, turn_uid, initiator, outbox>>
  BY ShownTypes DEF onmessage, vars, game, Base, PageTypeOK
<1> DEFINE rest == Tail(trace)
           m == Head(inbox[w])
<1>2. PICK n \in Nat : n = Len(trace) /\ n >= 2 /\ n = Len(inbox[w]) + 1
  BY <1>1, TraceShown DEF Follows
<1>3. /\ m = inbox[w][1] /\ m \in Messages
      /\ Len(inbox'[w]) = n - 2
      /\ \A i \in 1 .. n - 2 : inbox'[w][i] = inbox[w][i + 1]
      /\ Len(rest) = n - 1
      /\ \A i \in 1 .. n - 1 : rest[i] = trace[i + 1]
      /\ Core(Shown(w, view[w], m)) = Core(trace[2])
  BY <1>1, <1>2, TraceShown DEF Follows
<1>4. view'[w] = Shown(w, view[w], m)
  BY <1>1
<1> HIDE DEF rest, m
<1>5. PICK p \in Pages : p = view[w] /\ view'[w] = Shown(w, p, m)
  BY <1>1, <1>4
<1>6. /\ p.status = trace[1].status /\ view'[w].status = trace[2].status
      /\ view'[w].late = p.late
  BY <1>3, <1>5, ShownTyped DEF Follows, Trace, Core
<1>7. /\ 1 \in 1 .. n /\ 1 \in 1 .. n - 1
      /\ \A i \in 1 .. n - 2 : i \in 1 .. n - 1 /\ i + 1 \in 1 .. n - 1
      /\ \A i \in 1 .. n - 1 : i + 1 \in 1 .. n
  BY <1>2
<1>8. Silent(OtherOf(w)) => Silent(OtherOf(w))'
  BY OtherPlayer, SilentHeard
<1>9. \A status \in {"playing", "over"} :
        Keeps(trace, status) => /\ Keeps(rest, status)
                                /\ p.status = status => view'[w].status = status
  <2>1. PICK later : later = rest
    OBVIOUS
  <2>2. /\ Len(trace) = n /\ n >= 2 /\ Len(later) = n - 1
        /\ \A i \in 1 .. n - 1 : later[i] = trace[i + 1]
    BY <1>2, <1>3, <2>1
  <2>3. ASSUME NEW status, Keeps(trace, status)
        PROVE  Keeps(later, status) /\ (trace[1].status = status => trace[2].status = status)
    <3>1. \A i, j \in 1 .. n - 1 : /\ i + 1 \in 1 .. n /\ j + 1 \in 1 .. n
                                   /\ i < j => i + 1 < j + 1
      OBVIOUS
    <3>2. 1 \in 1 .. n /\ 2 \in 1 .. n
      BY <2>2
    <3>3. QED BY <2>2, <2>3, <3>1, <3>2 DEF Keeps
  <2>4. QED BY <1>6, <2>1, <2>3
<1>10. p.status \in {"playing", "over"} /\ "playing" # "over"
  BY DEF Pages
<1>11. Stopped(w)'
  <2>1. p.status = "over" => p.thinking = 0
    BY <1>5 DEF InOrder, Stopped
  <2>2. StartsClock(m) => p.status = "playing"
    <3>1. 1 \in 1 .. Len(inbox[w])
      BY <1>2, <1>7
    <3>2. QED BY <1>3, <1>6, <3>1 DEF InOrder, Stones
  <2>3. QED BY <1>3, <1>5, <2>1, <2>2, ShownStops DEF Stopped
<1>12. Stones(w, rest)'
  <2>1. \A i \in 1 .. n - 1 : StartsClock(inbox[w][i]) => trace[i].status = "playing"
    BY <1>2 DEF InOrder, Stones
  <2>2. SUFFICES ASSUME NEW i \in 1 .. n - 2, StartsClock(inbox'[w][i])
                 PROVE  rest[i].status = "playing"
    BY <1>3 DEF Stones
  <2>3. StartsClock(inbox[w][i + 1]) /\ rest[i] = trace[i + 1]
    BY <1>3, <1>7, <2>2
  <2>4. QED BY <1>7, <2>1, <2>3
<1>13. RoundTrace(w, trace) => RoundTrace(w, rest)'
  <2>1. ASSUME \A i \in 1 .. Len(trace) : ~MayClick(trace[i])
        PROVE  \A i \in 1 .. Len(rest) : ~MayClick(rest[i])
    BY <1>2, <1>3, <1>7, <2>1
  <2>2. QED BY <1>1, <1>9, <2>1 DEF RoundTrace
<1>14. OverTrace(w, trace) => OverTrace(w, rest)'
  BY <1>1, <1>8, <1>9 DEF OverTrace
<1>15. RoundTrace(w, trace) /\ RoundQueue(w) => RoundQueue(w)'
  BY <1>1, <1>5, <1>9, <1>10 DEF RoundTrace, RoundQueue
<1>16. OverTrace(w, trace) /\ OverQueue(w) => OverQueue(w)'
  BY <1>1, <1>5, <1>8, <1>9 DEF OverTrace, OverQueue
<1>17. QED BY <1>5, <1>6, <1>11, <1>12, <1>13, <1>14, <1>15, <1>16 DEF InOrder, rest

LEMMA InOrderRefused ==
    ASSUME Base, NEW uid \in Players, RefusedStep(uid), NEW w \in Players, NEW trace,
           InOrder(w, trace)
    PROVE  InOrder(w, trace)'
<1>1. /\ UNCHANGED <<statu, white_id, timing_started, turn_uid, initiator, inbox, view>>
      /\ outbox \in [Players -> Seq(Requests)] /\ outbox[uid] # <<>>
      /\ outbox'[w] = IF w = uid THEN Tail(outbox[w]) ELSE outbox[w]
  BY DEF RefusedStep, Pops, vars, game, Base, PageTypeOK
<1>2. Silent(OtherOf(w)) => Silent(OtherOf(w))'
  BY OtherPlayer, SilentRefused
<1>3. /\ HasRematch(outbox'[w]) => HasRematch(outbox[w])
      /\ NoRound(outbox[w]) => NoRound(outbox'[w])
      /\ RematchFirst(outbox[w]) => RematchFirst(outbox'[w])
      /\ RematchLast(outbox[w]) => RematchLast(outbox'[w])
      /\ Has(outbox'[w], "put_chess") => Has(outbox[w], "put_chess")
  BY <1>1, QueuePopped
<1>4. Stopped(w)' /\ Stones(w, trace)'
  BY <1>1 DEF InOrder, Stopped, Stones
<1>5. RoundTrace(w, trace) => RoundTrace(w, trace)'
  BY <1>1 DEF RoundTrace
<1>6. OverTrace(w, trace) => OverTrace(w, trace)'
  BY <1>1, <1>2 DEF OverTrace
<1>7. RoundQueue(w) => RoundQueue(w)'
  BY <1>1, <1>3 DEF RoundQueue
<1>8. OverQueue(w) => OverQueue(w)'
  BY <1>1, <1>2, <1>3 DEF OverQueue
<1>9. QED BY <1>1, <1>4, <1>5, <1>6, <1>7, <1>8 DEF InOrder

(* A page just opened: it may not move before it has heard its seat, and   *)
(* not then either when it is white's.                                     *)
LEMMA InOrderOpened ==
    ASSUME Base, NEW uid \in Players, OpensPage(uid)
    PROVE  \E trace : Follows(uid, trace)' /\ InOrder(uid, trace)'
<1>1. PICK page \in Pages, m \in Messages :
        /\ page = NewPage(statu = GAME_OVER) /\ view'[uid] = page
        /\ m = RoomReady(white_id) /\ inbox'[uid] = <<m>>
        /\ Follows(uid, <<page, Shown(uid, page, m)>>)'
  BY FollowsOpened
<1>2. /\ UNCHANGED <<statu, white_id, timing_started, turn_uid, initiator>>
      /\ outbox'[uid] = <<>>
      /\ statu = GAME_START => ~timing_started
  BY FollowsOpened, OpenSteps DEF OpensPage, game
<1>3. SetsUp(m) /\ ~StartsClock(m) /\ m.optype = "room_ready" /\ m.white = white_id
  BY <1>1 DEF RoomReady, SetsUp, StartsClock
<1>4. PICK next \in Pages : /\ next = Shown(uid, page, m) /\ next.status = "playing"
                            /\ (next.myTurn <=> uid # white_id)
  <2>1. page.status = "playing"
    BY <1>1, NewPageFields
  <2>2. QED BY <1>3, <2>1, ShownStart, ShownSeat
<1>5. /\ page.status = "playing" /\ ~page.myTurn
      /\ statu = GAME_OVER => page.late
  BY <1>1, NewPageFields
<1>6. PICK trace : trace = <<page, next>>
  OBVIOUS
<1>7. Len(trace) = 2 /\ \A i \in 1 .. 2 : trace[i] \in {page, next}
  BY <1>6
<1>8. Stopped(uid)'
  BY <1>1, <1>5 DEF Stopped
<1>9. Stones(uid, trace)'
  <2>1. Len(<<m>>) = 1 /\ <<m>>[1] = m /\ \A i \in 1 .. 1 : i = 1
    OBVIOUS
  <2>2. QED BY <1>1, <1>3, <2>1 DEF Stones
<1>10. RoundTrace(uid, trace)'
  BY <1>2, <1>4, <1>5, <1>7 DEF RoundTrace, Keeps, MayClick
<1>11. statu' = GAME_OVER => view'[uid].late
  BY <1>1, <1>2, <1>5
<1>12. RoundQueue(uid)'
  BY <1>1, <1>2, <1>5 DEF RoundQueue, HasRematch, RematchFirst, NoRound, Has
<1>13. statu' # GAME_OVER => OverTrace(uid, trace)' /\ OverQueue(uid)'
  BY DEF OverTrace, OverQueue
<1>14. InOrder(uid, trace)'
  BY <1>8, <1>9, <1>10, <1>11, <1>12, <1>13 DEF InOrder
<1>15. QED BY <1>1, <1>4, <1>6, <1>14

-----------------------------------------------------------------------------
(* One more message on the way to w. *)
OneLonger(w, trace, m, n, p, longer) ==
    /\ longer = Longer(w, trace, m) /\ Len(trace) = n /\ Len(longer) = n + 1
    /\ \A i \in 1 .. n : longer[i] = trace[i]
    /\ p = trace[n] /\ longer[n + 1] = Shown(w, p, m) /\ Shows(w, p)
    /\ n = Len(inbox[w]) + 1 /\ Len(inbox'[w]) = n /\ inbox'[w][n] = m
    /\ \A i \in 1 .. n - 1 : inbox'[w][i] = inbox[w][i]
    /\ trace[1].status = view[w].status

LEMMA LongerFields ==
    ASSUME Base, NEW uid \in Players, NEW m, ToldStep(uid, m), NEW w \in online,
           NEW trace, Follows(w, trace)
    PROVE  \E n \in Nat \ {0}, p \in Pages, longer \in Seq(Pages) :
             OneLonger(w, trace, m, n, p, longer)
<1>1. /\ inbox[w] \in Seq(Messages) /\ m \in Messages /\ w \in Players
      /\ online' = online
  BY DEF Base, Inv, TypeOK, PageTypeOK, ToldStep, StoneTold, EndTold, InviteTold, RematchTold
<1>2. inbox'[w] = Append(inbox[w], m)
  BY <1>1 DEF ToldStep, SendsTo
<1>3. PICK n \in Nat \ {0} : n = Len(trace) /\ n = Len(inbox[w]) + 1
  BY <1>1, TraceSent DEF Follows
<1>4. PICK p \in Pages : p = trace[n]
  BY <1>1, <1>3, TraceSent DEF Follows
<1>5. PICK next \in Pages : next = Shown(w, p, m)
  BY <1>1, ShownTyped
<1>6. trace \in Seq(Pages)
  BY DEF Follows, Trace
<1>7. PICK longer \in Seq(Pages) :
        /\ longer = Append(trace, next) /\ Len(longer) = n + 1 /\ longer[n + 1] = next
        /\ \A i \in 1 .. n : longer[i] = trace[i]
  <2>1. Append(trace, next) \in Seq(Pages)
    BY <1>6
  <2>2. /\ Len(Append(trace, next)) = n + 1 /\ Append(trace, next)[n + 1] = next
        /\ \A i \in 1 .. n : Append(trace, next)[i] = trace[i]
    <3>1. Len(trace) = n
      BY <1>3
    <3>2. QED BY <1>6, <3>1, AppendProperties
  <2>3. QED BY <2>1, <2>2
<1>8. longer = Longer(w, trace, m)
  BY <1>3, <1>4, <1>5, <1>7 DEF Longer
<1>9. /\ Len(inbox'[w]) = n /\ inbox'[w][n] = m
      /\ \A i \in 1 .. n - 1 : inbox'[w][i] = inbox[w][i]
  BY <1>1, <1>2, <1>3
<1>10. Shows(w, p) /\ trace[1].status = view[w].status
  BY <1>3, <1>4 DEF Follows, Trace, Core
<1>11. QED BY <1>3, <1>4, <1>5, <1>7, <1>8, <1>9, <1>10 DEF OneLonger

LEMMA StonesTold ==
    ASSUME Base, NEW uid \in Players, NEW m, ToldStep(uid, m), NEW w \in online,
           NEW trace, Follows(w, trace), Stones(w, trace)
    PROVE  Stones(w, Longer(w, trace, m))'
<1>1. PICK n \in Nat \ {0}, p \in Pages, longer \in Seq(Pages) :
        OneLonger(w, trace, m, n, p, longer)
  BY LongerFields
<1>2. /\ longer = Longer(w, trace, m)
      /\ \A i \in 1 .. n : longer[i] = trace[i]
      /\ p = trace[n] /\ Shows(w, p)
      /\ n = Len(inbox[w]) + 1 /\ Len(inbox'[w]) = n /\ inbox'[w][n] = m
      /\ \A i \in 1 .. n - 1 : inbox'[w][i] = inbox[w][i]
  BY <1>1 DEF OneLonger
<1>3. StartsClock(m) => p.status = "playing"
  <2>1. StartsClock(m) => StoneTold(uid, m)
    BY DEF ToldStep, EndTold, EndsRound, InviteTold, InviteMsg, RematchTold, RematchMsg, StartsClock
  <2>2. StoneTold(uid, m) => p.status = "playing"
    BY <1>2 DEF StoneTold, Shows, Agrees
  <2>3. QED BY <2>1, <2>2
<1>4. ASSUME NEW i \in 1 .. n, StartsClock(inbox'[w][i])
      PROVE  longer[i].status = "playing"
  <2>1. CASE i = n
    BY <1>2, <1>3, <1>4, <2>1
  <2>2. CASE i \in 1 .. n - 1
    <3>1. StartsClock(inbox[w][i]) /\ longer[i] = trace[i] /\ i \in 1 .. Len(inbox[w])
      BY <1>2, <1>4, <2>2
    <3>2. QED BY <3>1 DEF Stones
  <2>3. QED BY <2>1, <2>2
<1>5. QED BY <1>2, <1>4 DEF Stones

(* Who accepts, and whose invitation is accepted, knows that the round is  *)
(* over and has sent nothing about it that has not come.                   *)
LEMMA RematchAgreed ==
    ASSUME Base, NEW uid \in Players, NEW m, Pops(uid, {"rematch_accept"}), RematchTold(uid, m),
           NEW w \in online, NEW trace, OverTrace(w, trace), OverQueue(w)
    PROVE  view[w].status = "over" /\ Keeps(trace, "over") /\ NoRound(outbox[w])
<1>1. /\ statu = GAME_OVER /\ initiator \notin {0, uid} /\ initiator \in Players /\ w \in Players
      /\ outbox \in [Players -> Seq(Requests)] /\ outbox[uid] # <<>>
      /\ AboutRematch(Head(outbox[uid]))
  BY DEF RematchTold, AcceptAllowed, Pops, Base, Inv, TypeOK, PageTypeOK, AboutRematch
<1>2. PICK o \in Players : o = OtherOf(w) /\ o # w /\ Players = {w, o}
  BY <1>1, OtherPlayer
<1>3. HasRematch(outbox[uid]) /\ (RematchLast(outbox[uid]) => NoRound(outbox[uid]))
  BY <1>1, QueuePopped
<1>4. uid \in online
  BY <1>1 DEF Base, Connected, Inv, TypeOK
<1>5. ~Silent(o)
  BY <1>1, <1>2, <1>3, <1>4 DEF Silent
<1>6. HasRematch(outbox[w]) \/ initiator = w
  BY <1>1, <1>2, <1>3
<1>7. /\ view[w].status = "over" /\ RematchLast(outbox[w])
      /\ initiator = w => NoRound(outbox[w])
  BY <1>1, <1>2, <1>5, <1>6 DEF OverQueue
<1>8. NoRound(outbox[w])
  BY <1>1, <1>2, <1>3, <1>7
<1>9. QED BY <1>1, <1>2, <1>5, <1>7, <1>8 DEF OverTrace
(* Where both players are there at its end, a round is ended by the player *)
(* to move.                                                                *)
EndsInTurn(uid) ==
    statu = GAME_START /\ statu' = GAME_OVER /\ both_players_online =>
        timing_started /\ turn_uid = uid

LEMMA OrderAfterStone ==
    ASSUME Base, NEW uid \in Players, NEW m, ToldStep(uid, m),
           Pops(uid, {"put_chess"}), StoneTold(uid, m),
           NEW w \in online, NEW trace, Follows(w, trace),
           RoundTrace(w, trace), RoundQueue(w)
    PROVE  /\ RoundTrace(w, Longer(w, trace, m))' /\ OverTrace(w, Longer(w, trace, m))'
           /\ RoundQueue(w)' /\ OverQueue(w)'
<1>1. /\ statu = GAME_START /\ statu' = GAME_START /\ timing_started'
      /\ ~OutOfTurn(uid) /\ turn_uid' = Opponent(uid) /\ view' = view
      /\ StartsClock(m) /\ m \in Messages /\ w \in Players
      /\ outbox \in [Players -> Seq(Requests)] /\ outbox[uid] # <<>>
      /\ AboutRound(Head(outbox[uid]))
      /\ outbox'[w] = IF w = uid THEN Tail(outbox[w]) ELSE outbox[w]
  <2>1. m \in Messages /\ w \in Players /\ view' = view /\ outbox \in [Players -> Seq(Requests)]
    BY DEF ToldStep, Base, Inv, TypeOK, PageTypeOK
  <2>2. /\ outbox[uid] # <<>> /\ AboutRound(Head(outbox[uid]))
        /\ outbox'[w] = IF w = uid THEN Tail(outbox[w]) ELSE outbox[w]
    BY <2>1 DEF Pops, AboutRound
  <2>3. /\ statu = GAME_START /\ statu' = GAME_START /\ timing_started'
        /\ ~OutOfTurn(uid) /\ turn_uid' = Opponent(uid) /\ StartsClock(m)
    BY DEF StoneTold, PutChessMsg, StartsClock
  <2>4. QED BY <2>1, <2>2, <2>3
<1>2. PICK n \in Nat \ {0}, p \in Pages, longer \in Seq(Pages) :
        OneLonger(w, trace, m, n, p, longer)
  BY LongerFields
<1>3. /\ longer = Longer(w, trace, m) /\ Len(trace) = n /\ Len(longer) = n + 1
      /\ \A i \in 1 .. n : longer[i] = trace[i]
      /\ p = trace[n] /\ longer[n + 1] = Shown(w, p, m)
  BY <1>2 DEF OneLonger
<1>4. longer[n + 1].status = p.status
  <2>1. Shown(w, p, m).status = p.status
    BY <1>1, ShownStone
  <2>2. QED BY <1>3, <2>1
<1>5. Keeps(longer, "playing")
  <2>1. Keeps(trace, "playing")
    BY <1>1 DEF RoundTrace
  <2>2. QED BY <1>3, <1>4, <2>1, KeepsSent
<1>6. RoundTrace(w, longer)'
  BY <1>1, <1>5 DEF RoundTrace
<1>7. OverTrace(w, longer)' /\ OverQueue(w)'
  BY <1>1 DEF OverTrace, OverQueue
<1>8. CASE w = uid
  <2>1. ~HasRematch(outbox'[w]) /\ RematchFirst(outbox'[w]) /\ view[w].status # "over"
    BY <1>1, <1>8, QueuePopped DEF RoundQueue
  <2>2. RoundQueue(w)'
    BY <1>1, <2>1 DEF RoundQueue
  <2>3. QED BY <1>3, <1>6, <1>7, <2>2
<1>9. CASE w # uid
  <2>1. turn_uid' = w
    BY <1>1, <1>9, OpponentIsOther DEF Base, Inv, TypeOK, SeatsDistinct, Players, Opponent
  <2>2. RoundQueue(w)'
    BY <1>1, <1>9, <2>1 DEF RoundQueue
  <2>3. QED BY <1>3, <1>6, <1>7, <2>2
<1>10. QED BY <1>8, <1>9

LEMMA OrderAfterEnd ==
    ASSUME Base, NEW uid \in Players, NEW m, ToldStep(uid, m), EndsInTurn(uid),
           statu = GAME_START, EndTold(m),
           \/ Pops(uid, {"put_chess", "timeout"})
           \/ UNCHANGED outbox /\ uid \notin online,
           NEW w \in online, NEW trace, Follows(w, trace),
           RoundTrace(w, trace), RoundQueue(w)
    PROVE  /\ RoundTrace(w, Longer(w, trace, m))' /\ OverTrace(w, Longer(w, trace, m))'
           /\ RoundQueue(w)' /\ OverQueue(w)'
<1>1. /\ statu' = GAME_OVER /\ EndsRound(m) /\ m \in Messages /\ w \in Players /\ view' = view
      /\ initiator' = 0 /\ online' = online
      /\ outbox \in [Players -> Seq(Requests)]
  BY DEF ToldStep, EndTold, Base, Inv, TypeOK, PageTypeOK, InviteConsumed
<1>2. PICK n \in Nat \ {0}, p \in Pages, longer \in Seq(Pages) :
        OneLonger(w, trace, m, n, p, longer)
  BY LongerFields
<1>3. /\ longer = Longer(w, trace, m) /\ Len(trace) = n /\ Len(longer) = n + 1
      /\ \A i \in 1 .. n : longer[i] = trace[i]
      /\ p = trace[n] /\ longer[n + 1] = Shown(w, p, m)
      /\ trace[1].status = view[w].status
  BY <1>2 DEF OneLonger
<1>4. RoundTrace(w, longer)' /\ RoundQueue(w)'
  BY <1>1 DEF RoundTrace, RoundQueue
<1>5. CASE ~both_players_online
  <2>1. PICK o \in Players : o = OtherOf(w) /\ o # w /\ Players = {w, o}
    BY <1>1, OtherPlayer
  <2>2. o \notin online
    BY <1>5, <2>1 DEF both_players_online, Base, Inv, TypeOK
  <2>3. Silent(o)'
    BY <1>1, <2>2 DEF Silent, Players
  <2>4. Silent(OtherOf(w))'
    BY <2>1, <2>3
  <2>5. OverTrace(w, longer)' /\ OverQueue(w)'
    BY <2>4 DEF OverTrace, OverQueue
  <2>6. QED BY <1>3, <1>4, <2>5
<1>6. CASE both_players_online
  <2>1. timing_started /\ turn_uid = uid
    BY <1>1, <1>6 DEF EndsInTurn
  <2>2. uid \in online
    BY <1>6 DEF both_players_online, Base, Inv, TypeOK, SeatsDistinct, Players
  <2>3. /\ outbox[uid] # <<>> /\ AboutRound(Head(outbox[uid]))
        /\ outbox'[w] = IF w = uid THEN Tail(outbox[w]) ELSE outbox[w]
    BY <1>1, <2>2 DEF Pops, AboutRound
  <2>4. ~HasRematch(outbox'[w]) /\ view[w].status # "over"
    <3>1. CASE w = uid
      BY <1>1, <2>3, <3>1, QueuePopped DEF RoundQueue
    <3>2. CASE w # uid
      BY <2>1, <2>3, <3>2 DEF RoundQueue
    <3>3. QED BY <3>1, <3>2
  <2>5. OverQueue(w)'
    <3>1. initiator' # w
      BY <1>1 DEF Players
    <3>2. QED BY <2>4, <3>1 DEF OverQueue
  <2>6. \A i \in 1 .. n : trace[i].status # "over"
    <3>1. view[w].status = "playing"
      BY <1>1, <2>4 DEF Base, PageTypeOK, Pages
    <3>2. Keeps(trace, "playing") /\ 1 \in 1 .. n /\ \A i \in 1 .. n : i = 1 \/ 1 < i
      BY DEF RoundTrace
    <3>3. \A i \in 1 .. n : trace[i].status = "playing"
      BY <1>3, <3>1, <3>2 DEF Keeps
    <3>4. QED BY <3>3
  <2>7. Keeps(longer, "over")
    BY <1>3, <2>6, KeepsSent
  <2>8. OverTrace(w, longer)'
    BY <2>7 DEF OverTrace
  <2>9. QED BY <1>3, <1>4, <2>5, <2>8
<1>7. QED BY <1>5, <1>6

(* A message that comes when the round is over already, and leaves it so.  *)
LEMMA OrderAfterNews ==
    ASSUME Base, NEW uid \in Players, NEW m, ToldStep(uid, m),
           statu = GAME_OVER, statu' = GAME_OVER,
           \/ Pops(uid, {"rematch_invite"}) /\ InviteTold(uid, m)
           \/ UNCHANGED outbox /\ EndTold(m),
           NEW w \in online, NEW trace, Follows(w, trace),
           OverTrace(w, trace), OverQueue(w)
    PROVE  /\ RoundTrace(w, Longer(w, trace, m))' /\ OverTrace(w, Longer(w, trace, m))'
           /\ RoundQueue(w)' /\ OverQueue(w)'
<1>1. /\ m \in Messages /\ w \in Players /\ view' = view
      /\ outbox \in [Players -> Seq(Requests)]
  BY DEF ToldStep, Base, Inv, TypeOK, PageTypeOK
<1>2. PICK n \in Nat \ {0}, p \in Pages, longer \in Seq(Pages) :
        OneLonger(w, trace, m, n, p, longer)
  BY LongerFields
<1>3. /\ longer = Longer(w, trace, m) /\ Len(trace) = n /\ Len(longer) = n + 1
      /\ \A i \in 1 .. n : longer[i] = trace[i]
      /\ p = trace[n] /\ longer[n + 1] = Shown(w, p, m)
  BY <1>2 DEF OneLonger
<1>4. RoundTrace(w, longer)' /\ RoundQueue(w)'
  BY DEF RoundTrace, RoundQueue
<1>5. Silent(OtherOf(w)) => Silent(OtherOf(w))'
  BY <1>1, OtherPlayer, SilentTold
<1>6. OverTrace(w, longer)'
  <2>1. p.status = "over" => longer[n + 1].status = "over"
    <3>1. CASE EndTold(m)
      BY <1>1, <1>3, <3>1, ShownEnd DEF EndTold
    <3>2. CASE InviteTold(uid, m)
      <4>1. m.optype = "rematch_invite"
        BY <3>2 DEF InviteTold, InviteMsg
      <4>2. QED BY <1>1, <1>3, <4>1, ShownInvite
    <3>3. QED BY <3>1, <3>2
  <2>2. Keeps(trace, "over") => Keeps(longer, "over")
    BY <1>3, <2>1, KeepsSent
  <2>3. QED BY <1>5, <2>2 DEF OverTrace
<1>7. OverQueue(w)'
  <2>1. CASE UNCHANGED outbox /\ EndTold(m)
    BY <1>1, <1>5, <2>1 DEF OverQueue, EndTold
  <2>2. CASE Pops(uid, {"rematch_invite"}) /\ InviteTold(uid, m)
    <3>1. /\ initiator' = uid /\ outbox[uid] # <<>> /\ AboutRematch(Head(outbox[uid]))
          /\ outbox'[w] = IF w = uid THEN Tail(outbox[w]) ELSE outbox[w]
      BY <1>1, <2>2 DEF InviteTold, Pops, AboutRematch
    <3>2. CASE w = uid
      <4>1. /\ HasRematch(outbox[w]) /\ (RematchLast(outbox[w]) => NoRound(outbox[w]))
            /\ RematchLast(outbox[w]) => RematchLast(outbox'[w])
            /\ NoRound(outbox[w]) => NoRound(outbox'[w])
        BY <1>1, <3>1, <3>2, QueuePopped
      <4>2. QED BY <1>1, <1>5, <4>1 DEF OverQueue
    <3>3. CASE w # uid
      BY <1>1, <1>5, <3>1, <3>3 DEF OverQueue
    <3>4. QED BY <3>2, <3>3
  <2>3. QED BY <2>1, <2>2
<1>8. QED BY <1>3, <1>4, <1>6, <1>7

LEMMA OrderAfterRematch ==
    ASSUME Base, NEW uid \in Players, NEW m, ToldStep(uid, m),
           Pops(uid, {"rematch_accept"}), RematchTold(uid, m),
           NEW w \in online, NEW trace, Follows(w, trace),
           OverTrace(w, trace), OverQueue(w)
    PROVE  /\ RoundTrace(w, Longer(w, trace, m))' /\ OverTrace(w, Longer(w, trace, m))'
           /\ RoundQueue(w)' /\ OverQueue(w)'
<1>1. /\ statu' = GAME_START /\ ~timing_started' /\ white_id' = black_id
      /\ SetsUp(m) /\ m.optype = "rematch_start" /\ m.white = black_id
      /\ m \in Messages /\ w \in Players /\ view' = view
      /\ outbox \in [Players -> Seq(Requests)] /\ outbox[uid] # <<>>
      /\ outbox'[w] = IF w = uid THEN Tail(outbox[w]) ELSE outbox[w]
  BY DEF ToldStep, RematchTold, RematchMsg, SetsUp, Pops, Base, Inv, TypeOK, PageTypeOK
<1>2. PICK n \in Nat \ {0}, p \in Pages, longer \in Seq(Pages) :
        OneLonger(w, trace, m, n, p, longer)
  BY LongerFields
<1>3. /\ longer = Longer(w, trace, m) /\ Len(trace) = n /\ Len(longer) = n + 1
      /\ \A i \in 1 .. n : longer[i] = trace[i]
      /\ p = trace[n] /\ longer[n + 1] = Shown(w, p, m)
      /\ trace[1].status = view[w].status
  BY <1>2 DEF OneLonger
<1>4. view[w].status = "over" /\ Keeps(trace, "over") /\ NoRound(outbox[w])
  BY RematchAgreed
<1>5. \A i \in 1 .. n : trace[i].status = "over"
  <2>1. 1 \in 1 .. n /\ \A i \in 1 .. n : i = 1 \/ 1 < i
    OBVIOUS
  <2>2. QED BY <1>3, <1>4, <2>1 DEF Keeps
<1>6. Keeps(longer, "playing")
  BY <1>3, <1>5, KeepsSent
<1>7. w = white_id' => \A i \in 1 .. n + 1 : ~MayClick(longer[i])
  <2>1. \A i \in 1 .. n + 1 : i = n + 1 \/ i \in 1 .. n
    OBVIOUS
  <2>2. w = white_id' => ~longer[n + 1].myTurn
    BY <1>1, <1>3, ShownSeat
  <2>3. QED BY <1>3, <1>5, <2>1, <2>2 DEF MayClick
<1>8. RoundTrace(w, longer)'
  BY <1>3, <1>6, <1>7 DEF RoundTrace
<1>9. NoRound(outbox'[w])
  BY <1>1, <1>4, QueuePopped
<1>10. RematchFirst(outbox'[w]) /\ ~Has(outbox'[w], "put_chess")
  BY <1>9 DEF NoRound, RematchFirst, Has, AboutRound
<1>11. RoundQueue(w)'
  BY <1>1, <1>9, <1>10 DEF RoundQueue
<1>12. OverTrace(w, longer)' /\ OverQueue(w)'
  BY <1>1 DEF OverTrace, OverQueue
<1>13. QED BY <1>3, <1>8, <1>11, <1>12

LEMMA InOrderTold ==
    ASSUME Base, NEW uid \in Players, NEW m, ToldStep(uid, m), EndsInTurn(uid),
           NEW w \in online, NEW trace, Follows(w, trace), InOrder(w, trace)
    PROVE  InOrder(w, Longer(w, trace, m))'
<1>1. view' = view
  BY DEF ToldStep
<1>2. Stopped(w)' /\ Stones(w, Longer(w, trace, m))'
  BY <1>1, StonesTold DEF InOrder, Stopped
<1>3. ASSUME ~view[w].late
      PROVE  /\ RoundTrace(w, Longer(w, trace, m))' /\ OverTrace(w, Longer(w, trace, m))'
             /\ RoundQueue(w)' /\ OverQueue(w)'
  <2>1. RoundTrace(w, trace) /\ OverTrace(w, trace) /\ RoundQueue(w) /\ OverQueue(w)
    BY <1>3 DEF InOrder
  <2>2. CASE Pops(uid, {"put_chess"}) /\ StoneTold(uid, m)
    BY <2>1, <2>2, OrderAfterStone
  <2>3. CASE /\ statu = GAME_START /\ EndTold(m)
             /\ \/ Pops(uid, {"put_chess", "timeout"})
                \/ UNCHANGED outbox /\ uid \notin online
    BY <2>1, <2>3, OrderAfterEnd
  <2>4. CASE statu = GAME_OVER /\ UNCHANGED outbox /\ EndTold(m)
    <3>1. statu' = GAME_OVER
      BY <2>4 DEF EndTold
    <3>2. QED BY <2>1, <2>4, <3>1, OrderAfterNews
  <2>5. CASE Pops(uid, {"rematch_invite"}) /\ InviteTold(uid, m)
    <3>1. statu = GAME_OVER /\ statu' = GAME_OVER
      BY <2>5 DEF InviteTold, InviteAllowed
    <3>2. QED BY <2>1, <2>5, <3>1, OrderAfterNews
  <2>6. CASE Pops(uid, {"rematch_accept"}) /\ RematchTold(uid, m)
    BY <2>1, <2>6, OrderAfterRematch
  <2>7. statu \in {GAME_START, GAME_OVER}
    BY DEF Base, Inv, TypeOK
  <2>8. QED BY <2>2, <2>3, <2>4, <2>5, <2>6, <2>7 DEF ToldStep
<1>4. QED BY <1>1, <1>2, <1>3 DEF InOrder

-----------------------------------------------------------------------------
Opens(w) == \E trace : Follows(w, trace) /\ InOrder(w, trace)

(* Clocks run from the first stone on. *)
Started == statu = GAME_START /\ timing_started => board # EmptyBoard

OpensInv == PageInv /\ Started /\ \A w \in online : Opens(w)

LEMMA OpensKept ==
    ASSUME NEW w \in Players, Opens(w), UNCHANGED game, inbox'[w] = inbox[w],
           outbox'[w] = outbox[w], view'[w] = view[w],
           statu = GAME_OVER /\ Silent(OtherOf(w)) => Silent(OtherOf(w))'
    PROVE  Opens(w)'
<1>1. UNCHANGED <<statu, white_id, board, timing_started, turn_uid, initiator>>
  BY DEF game
<1>2. PICK trace : Follows(w, trace) /\ InOrder(w, trace)
  BY DEF Opens
<1>3. Follows(w, trace)'
  BY <1>1, <1>2, FollowsKept
<1>4. InOrder(w, trace)'
  BY <1>1, <1>2, InOrderKept
<1>5. QED BY <1>3, <1>4 DEF Opens

LEMMA OpensIdle ==
    ASSUME Base, Idles, NEW w \in Players, Opens(w)
    PROVE  Opens(w)'
<1>1. /\ UNCHANGED <<statu, white_id, board, timing_started, turn_uid, initiator, online,
                     inbox, outbox>>
      /\ \A uid \in Players : Core(view'[uid]) = Core(view[uid])
  BY IdleSteps DEF SameCores, traffic, Tick, vars, game, presence
<1>2. \A uid \in Players : /\ view'[uid].status = view[uid].status
                           /\ view'[uid].late = view[uid].late
  BY <1>1 DEF Core
<1>3. view'[w].thinking \in {view[w].thinking, 0}
  BY IdleSteps
<1>4. PICK trace : Follows(w, trace) /\ InOrder(w, trace)
  BY DEF Opens
<1>5. Silent(OtherOf(w)) => Silent(OtherOf(w))'
  <2>1. PICK o \in Players : o = OtherOf(w)
    BY OtherPlayer
  <2>2. Silent(o) => Silent(o)'
    BY <1>1, <1>2 DEF Silent
  <2>3. QED BY <2>1, <2>2
<1>6. Follows(w, trace)'
  BY <1>1, <1>4, FollowsKept
<1>7. InOrder(w, trace)'
  BY <1>1, <1>2, <1>3, <1>4, <1>5, InOrderKept
<1>8. QED BY <1>6, <1>7 DEF Opens

LEMMA OpensOwn ==
    ASSUME Base, NEW uid \in Players, OwnStep(uid), NEW w \in Players, Opens(w),
           Stopped(uid)
    PROVE  Opens(w)'
<1>1. PICK trace : Follows(w, trace) /\ InOrder(w, trace)
  BY DEF Opens
<1>2. PICK request \in Requests :
             /\ Asks(uid, request)
             /\ \A other \in Players \ {uid} : view'[other] = view[other]
  BY OwnRequests
<1>3. /\ UNCHANGED <<game, inbox>> /\ Core(view'[w]) = Core(view[w])
      /\ w # uid => outbox'[w] = outbox[w]
  BY <1>2, OwnSteps DEF Asks, vars, SameCores, Base, PageTypeOK
<1>4. CASE w = uid
  <2>1. InOrder(w, trace)'
    BY <1>1, <1>4, InOrderOwn
  <2>2. UNCHANGED <<statu, board, white_id, turn_uid>> /\ inbox'[w] = inbox[w]
    BY <1>3 DEF game
  <2>3. Follows(w, trace)'
    BY <1>1, <1>3, <2>2, FollowsKept
  <2>4. QED BY <2>1, <2>3 DEF Opens
<1>5. CASE w # uid
  <2>1. Silent(OtherOf(w)) => Silent(OtherOf(w))'
    BY OtherPlayer, SilentOwn
  <2>2. QED BY <1>2, <1>3, <1>5, <2>1, OpensKept
<1>6. QED BY <1>4, <1>5

LEMMA StartedKept ==
    ASSUME Started, statu' = GAME_START => UNCHANGED <<statu, timing_started, board>>
    PROVE  Started'
BY DEF Started

LEMMA StartedTold ==
    ASSUME Base, NEW uid \in Players, NEW m, ToldStep(uid, m)
    PROVE  Started'
<1>1. ASSUME NEW cell \in Cells, board' = [board EXCEPT ![cell] = ColorOf(uid)]
      PROVE  board' # EmptyBoard
  <2>1. board'[cell] = ColorOf(uid)
    BY <1>1 DEF Base, Inv, TypeOK, Boards
  <2>2. QED BY <2>1 DEF EmptyBoard, ColorOf, EMPTY, CHESS_WHITE, CHESS_BLACK
<1>2. CASE StoneTold(uid, m)
  BY <1>1, <1>2 DEF StoneTold, Started
<1>3. CASE EndTold(m)
  BY <1>3 DEF EndTold, Started
<1>4. CASE InviteTold(uid, m)
  BY <1>4 DEF InviteTold, InviteAllowed, Started
<1>5. CASE RematchTold(uid, m)
  BY <1>5 DEF RematchTold, Started
<1>6. QED BY <1>2, <1>3, <1>4, <1>5 DEF ToldStep

LEMMA OpensInitInv == PageInit => OpensInv
<1>1. SUFFICES ASSUME PageInit PROVE OpensInv
  OBVIOUS
<1>2. online = {} /\ ~timing_started
  BY <1>1 DEF PageInit, Init
<1>3. QED BY <1>1, <1>2, PageInitInv DEF OpensInv, Started

LEMMA OpensStepInv ==
    ASSUME FIVE > 1
    PROVE  OpensInv /\ [PageNext]_allvars => OpensInv'
<1>1. SUFFICES ASSUME OpensInv, [PageNext]_allvars
               PROVE  Started' /\ \A w \in online' : Opens(w)'
  BY PageStepInv DEF OpensInv
<1>2. /\ Base /\ online \subseteq Players /\ Started
      /\ \A w \in online : Opens(w)
      /\ \A w \in Players : OtherOf(w) \in Players /\ OtherOf(w) # w
  BY <1>1, OtherPlayer DEF OpensInv, PageInv, Base, Inv, TypeOK
<1>3. CASE Rests
  <2>1. UNCHANGED <<game, online, inbox, outbox, view, initiator, statu, timing_started, board>>
    BY <1>3 DEF Rests, traffic, vars, presence, game
  <2>2. \A o \in Players : Silent(o) => Silent(o)'
    BY <2>1 DEF Silent
  <2>3. QED BY <1>2, <2>1, <2>2, OpensKept, StartedKept
<1>4. CASE Idles
  <2>1. UNCHANGED <<online, statu, timing_started, board>>
    BY <1>2, <1>4, IdleSteps DEF Tick, vars, game, presence
  <2>2. QED BY <1>2, <1>4, <2>1, OpensIdle, StartedKept
<1>5. ASSUME NEW uid \in Players, OwnStep(uid)
      PROVE  Started' /\ \A w \in online' : Opens(w)'
  <2>1. PICK request : Asks(uid, request)
    BY <1>2, <1>5, OwnSteps
  <2>2. UNCHANGED <<online, statu, timing_started, board>> /\ conns[uid] > 0
    BY <2>1 DEF Asks, vars, game, presence
  <2>3. Stopped(uid)
    BY <1>2, <2>2 DEF Opens, InOrder, Base, Connected
  <2>4. QED BY <1>2, <1>5, <2>2, <2>3, OpensOwn, StartedKept
<1>6. ASSUME NEW uid \in Players, onmessage(uid)
      PROVE  Started' /\ \A w \in online' : Opens(w)'
  <2>1. /\ UNCHANGED <<game, online, outbox, statu, timing_started, board>>
        /\ \A w \in Players \ {uid} : inbox'[w] = inbox[w] /\ view'[w] = view[w]
    BY <1>2, <1>6, ShownTypes DEF onmessage, vars, game, presence, Base
  <2>2. uid \in online => Opens(uid)'
    BY <1>2, <1>6, FollowsShown, InOrderHeard DEF Opens
  <2>3. ASSUME NEW w \in online \ {uid}
        PROVE  Opens(w)'
    <3>1. Silent(OtherOf(w)) => Silent(OtherOf(w))'
      BY <1>2, <1>6, SilentHeard
    <3>2. QED BY <1>2, <2>1, <3>1, OpensKept
  <2>4. QED BY <1>2, <2>1, <2>2, <2>3, StartedKept
<1>7. ASSUME NEW uid \in Players, Registered, wsmsg_game_room(uid) \/ ClosesPage(uid)
      PROVE  Started' /\ \A w \in online' : Opens(w)'
  <2>1. CASE RefusedStep(uid)
    <3>1. UNCHANGED <<online, inbox, view, statu, white_id, board, turn_uid, timing_started>>
      BY <2>1 DEF RefusedStep, vars, game, presence
    <3>2. ASSUME NEW w \in online
          PROVE  Opens(w)'
      <4>1. PICK trace : Follows(w, trace) /\ InOrder(w, trace)
        BY <1>2 DEF Opens
      <4>2. Follows(w, trace)' /\ InOrder(w, trace)'
        BY <1>2, <1>7, <2>1, <3>1, <4>1, FollowsKept, InOrderRefused
      <4>3. QED BY <4>2 DEF Opens
    <3>3. QED BY <1>2, <3>1, <3>2, StartedKept
  <2>2. ASSUME NEW m, ToldStep(uid, m)
        PROVE  Started' /\ \A w \in online' : Opens(w)'
    <3>1. online' = online
      BY <2>2 DEF ToldStep, StoneTold, EndTold, InviteTold, RematchTold
    <3>2. EndsInTurn(uid)
      BY <1>2, <1>7, EndedByMover DEF EndsInTurn
    <3>3. \A w \in online : Opens(w)'
      BY <1>2, <1>7, <2>2, <3>2, FollowsTold, InOrderTold DEF Opens
    <3>4. QED BY <1>2, <1>7, <2>2, <3>1, <3>3, StartedTold
  <2>3. QED BY <1>2, <1>7, <2>1, <2>2, ServerSteps
<1>8. ASSUME NEW uid \in Players, OpensPage(uid) \/ DropsPage(uid)
      PROVE  Started' /\ \A w \in online' : Opens(w)'
  <2>1. /\ UNCHANGED <<game, statu, timing_started, board>> /\ online' \subseteq online \cup {uid}
        /\ DropsPage(uid) => uid \notin online'
    BY <1>2, <1>8, OpenSteps, DropSteps DEF OpensPage, DropsPage, game
  <2>2. \A w \in Players \ {uid} : inbox'[w] = inbox[w] /\ outbox'[w] = outbox[w] /\ view'[w] = view[w]
    <3>1. CASE OpensPage(uid)
      BY <1>2, <3>1 DEF OpensPage, SendsTo, Base, PageTypeOK
    <3>2. CASE DropsPage(uid)
      BY <1>2, <3>2 DEF DropsPage, Base, PageTypeOK
    <3>3. QED BY <1>8, <3>1, <3>2
  <2>3. ASSUME NEW w \in online \ {uid}
        PROVE  Opens(w)'
    <3>1. statu = GAME_OVER /\ Silent(OtherOf(w)) => Silent(OtherOf(w))'
      BY <1>2, <1>8, SilentMoved
    <3>2. QED BY <1>2, <2>1, <2>2, <3>1, OpensKept
  <2>4. OpensPage(uid) => Opens(uid)'
    BY <1>2, InOrderOpened DEF Opens
  <2>5. QED BY <1>2, <1>8, <2>1, <2>3, <2>4, StartedKept
<1>9. QED
  BY <1>1, <1>3, <1>4, <1>5, <1>6, <1>7, <1>8, RestingSteps
  DEF PageNext, EventLoop, OwnStep, Reports, Stops, Idles

(* A white stone on an empty board: it was on the way, so white's page was *)
(* opened after the round before.                                          *)
LEMMA WhiteOpensLate ==
    ASSUME OpensInv, PageNext, board = EmptyBoard,
           NEW cell \in Cells, board'[cell] = CHESS_WHITE
    PROVE  view[white_id].late
<1>1. Base /\ \A w \in online : Opens(w)
  BY DEF OpensInv, PageInv
<1>2. board' # board
  BY DEF EmptyBoard, EMPTY, CHESS_WHITE
<1>3. ~Idles /\ ~Rests
  BY <1>1, <1>2, IdleSteps DEF Rests, Tick, vars, game
<1>4. PICK uid \in Players : wsmsg_game_room(uid)
  <2>1. ASSUME NEW uid \in Players, OwnStep(uid) PROVE FALSE
    BY <1>1, <1>2, <2>1, OwnSteps DEF Asks, vars, game
  <2>2. ASSUME NEW uid \in Players, onmessage(uid) PROVE FALSE
    BY <1>2, <2>2 DEF onmessage, vars, game
  <2>3. ASSUME NEW uid \in Players, OpensPage(uid) PROVE FALSE
    <3>1. wsopen_game_room(uid)
      BY <2>3 DEF OpensPage
    <3>2. UNCHANGED game
      BY <1>1, <3>1, OpenSteps
    <3>3. QED BY <1>2, <3>2 DEF game
  <2>4. ASSUME NEW uid \in Players, DropsPage(uid) PROVE FALSE
    <3>1. Drop(uid)
      BY <2>4 DEF DropsPage
    <3>2. UNCHANGED game
      BY <1>1, <3>1, DropSteps
    <3>3. QED BY <1>2, <3>2 DEF game
  <2>5. ASSUME NEW uid \in Players, ClosesPage(uid) PROVE FALSE
    BY <1>2, <2>5 DEF ClosesPage, wsclose_game_room, Settle, vars, game
  <2>6. QED
    BY <1>3, <2>1, <2>2, <2>3, <2>4, <2>5, RestingSteps
    DEF PageNext, EventLoop, OwnStep, Reports, Stops, Idles
<1>5. /\ statu = GAME_START /\ uid = white_id
      /\ outbox[uid] # <<>> /\ Head(outbox[uid]).optype = "put_chess"
  BY <1>1, <1>2, <1>4, WhiteAsked
<1>6. ~timing_started
  BY <1>5 DEF OpensInv, Started
<1>7. uid \in online
  BY <1>1, <1>5 DEF Base, Inv, TypeOK, Connected
<1>8. Has(outbox[uid], "put_chess")
  <2>1. outbox[uid] \in Seq(Requests)
    BY <1>1 DEF Base, PageTypeOK
  <2>2. QED BY <1>5, <2>1, QueuePopped
<1>9. PICK trace : InOrder(uid, trace)
  BY <1>1, <1>7 DEF Opens
<1>10. QED BY <1>5, <1>6, <1>8, <1>9 DEF InOrder, RoundQueue

(* Black opens every round, unless white's page was opened after the round *)
(* before.  A row needs more than one stone: else a stone that is put out  *)
(* of turn could end a round, and what the player to move had asked for in *)
(* it would come to the next one.                                          *)
THEOREM BlackOpensRounds ==
    ASSUME FIVE > 1
    PROVE  PageSpec => BlackOpens
<1>1. OpensInv /\ [PageNext]_allvars =>
        [\A cell \in Cells :
           board = EmptyBoard /\ board'[cell] = CHESS_WHITE => view[white_id].late]_allvars
  BY WhiteOpensLate
<1>2. QED BY <1>1, OpensInitInv, OpensStepInv, PTL DEF PageSpec, BlackOpens
=============================================================================
