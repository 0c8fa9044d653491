-------------------------------- MODULE Page --------------------------------
(***************************************************************************)
(* A room and the pages of its two players, with the messages in flight    *)
(* between them.  The room is module Room; each of its steps here also     *)
(* sends what the code broadcasts.  A page is a value of module View, and  *)
(* its clicks and clock are actions here.                                  *)
(*                                                                         *)
(* A connection keeps messages in order, each way.  A player has one page  *)
(* at a time (overlapping connections are the subject of Room and Lobby),  *)
(* and sessions last.                                                      *)
(***************************************************************************)
EXTENDS View, Sequences

CONSTANTS
    MaxInbox,       \* bound: messages on the way to a page
    MaxOutbox       \* bound: requests on the way from a page

ASSUME PageAssumption ==
    /\ MaxInbox \in Nat \ {0}
    /\ MaxOutbox \in Nat \ {0}
    /\ MaxConns = 1
    /\ ~SessionCanExpire

VARIABLES
    inbox,          \* messages on the way to the page of each player
    outbox,         \* requests on the way from each player
    view,           \* what each page holds
    alerted         \* players whose page has an alert before it, see broadcast

traffic == <<inbox, outbox>>
allvars == <<vars, traffic, view, alerted>>

-----------------------------------------------------------------------------
PageInit ==
    /\ Init
    /\ inbox = [uid \in Players |-> <<>>]
    /\ outbox = [uid \in Players |-> <<>>]
    /\ view = [uid \in Players |-> NewPage(FALSE)]
    /\ alerted = {}

-----------------------------------------------------------------------------
(* What a player's page may be told. *)
Messages ==
    [optype : {"room_ready", "rematch_start"}, white : Players] \cup
    [optype : {"put_chess"}, uid : Players, cell : Cells \cup {NoCell},
     winner : Players \cup {0}, left : [Colors -> 0 .. TOTAL_INIT_MS]] \cup
    [optype : {"rematch_invite"}, inviter : Players, white : Players] \cup
    {TimeoutMsg, PeerLeft}

(* broadcast: to the players who are in the room. *)
SendsTo(hearers, m) ==
    /\ \A uid \in hearers : Len(inbox[uid]) < MaxInbox
    /\ inbox' = [uid \in Players |->
                   IF uid \in hearers THEN Append(inbox[uid], m) ELSE inbox[uid]]

(* A refusal, and that the other player has left, opens an alert before    *)
(* the page, which does nothing until its user dismisses it.  When the     *)
(* alert comes up is left open: from the broadcast on the page may go on,  *)
(* but nothing makes it (see PageFairSpec).                                *)
broadcast(m) ==
    /\ SendsTo(IF m = Quiet THEN {} ELSE online', m)
    /\ alerted' = IF m \in {Quiet, PeerLeft} THEN alerted \cup online' ELSE alerted

Dismisses(uid) ==
    /\ uid \in alerted
    /\ alerted' = alerted \ {uid}
    /\ UNCHANGED <<vars, traffic, view>>

onmessage(uid) ==
    /\ inbox[uid] # <<>>
    /\ view' = [view EXCEPT ![uid] = Shown(uid, @, Head(inbox[uid]))]
    /\ inbox' = [inbox EXCEPT ![uid] = Tail(@)]
    /\ UNCHANGED <<vars, outbox, alerted>>

-----------------------------------------------------------------------------
(* What a player's page sends.  It holds a roomInfo once room_ready came.  *)
Ready(uid) == conns[uid] > 0 /\ view[uid].white # 0
Sends(uid, request) ==
    /\ Ready(uid)
    /\ Len(outbox[uid]) < MaxOutbox
    /\ outbox' = [outbox EXCEPT ![uid] = Append(@, request)]
    /\ UNCHANGED <<vars, inbox, alerted>>
Request(optype) == [optype |-> optype, cell |-> NoCell]
Requests ==
    [optype : {"put_chess"}, cell : Cells] \cup
    {Request(optype) : optype \in {"timeout", "rematch_invite", "rematch_accept"}}

(* A slip in the code: a click is sent whoever is to move. *)
MayClickAlways(p) == p.status # "over"
MayClick(p) == p.status # "over" /\ p.myTurn

(* chess.onclick.  A second click before the answer is sent as well.       *)
Clicks(uid, cell) ==
    /\ MayClick(view[uid])
    /\ view[uid].board[cell] = EMPTY
    /\ Sends(uid, [optype |-> "put_chess", cell |-> cell])
    /\ UNCHANGED view

(* tickClock at zero: every page stops its clock, and the page of the      *)
(* player it shows to move reports.  The report is sent once.              *)
ClockEmpty(p) ==
    /\ p.thinking # 0
    /\ \/ p.spent >= STEP_INIT_MS
       \/ p.spent >= p.left[IF p.thinking = p.white THEN CHESS_WHITE ELSE CHESS_BLACK]

tickClock(uid) ==
    /\ ClockEmpty(view[uid])
    /\ IF view[uid].thinking = uid
       THEN Sends(uid, Request("timeout"))
       ELSE UNCHANGED <<vars, traffic, alerted>>
    /\ view' = [view EXCEPT ![uid].thinking = 0, ![uid].timeoutSent = TRUE]

sendRematchInvite(uid) ==
    /\ view[uid].status = "over"
    /\ view[uid].panel = "starter"
    /\ Sends(uid, Request("rematch_invite"))
    /\ view' = [view EXCEPT ![uid].panel = "sent"]

sendRematchAccept(uid) ==
    /\ view[uid].status = "over"
    /\ view[uid].panel = "asked"
    /\ Sends(uid, Request("rematch_accept"))
    /\ view' = [view EXCEPT ![uid].panel = "accepted"]

-----------------------------------------------------------------------------
(* The next request of a player.                                           *)
wsmsg_game_room(uid) ==
    /\ outbox[uid] # <<>>
    /\ LET request == Head(outbox[uid]) IN
         \/ /\ request.optype = "put_chess"
            /\ put_chess(uid, request.cell)
            /\ broadcast(put_chess_resp(uid, request.cell))
         \/ request.optype = "timeout" /\ timeout(uid) /\ broadcast(timeout_resp)
         \/ /\ request.optype = "rematch_invite"
            /\ RematchInvite(uid)
            /\ broadcast(rematch_invite_resp(uid))
         \/ /\ request.optype = "rematch_accept"
            /\ rematch_accept(uid)
            /\ broadcast(rematch_accept_resp)
    /\ outbox' = [outbox EXCEPT ![uid] = Tail(@)]
    /\ UNCHANGED view

-----------------------------------------------------------------------------
(* A player's page is opened, or opened again; room_ready is the first     *)
(* thing it hears.                                                         *)
OpensPage(uid) ==
    /\ wsopen_game_room(uid)
    /\ view' = [view EXCEPT ![uid] = NewPage(statu = GAME_OVER)]
    /\ SendsTo({uid}, RoomReady(white_id))
    /\ UNCHANGED <<outbox, alerted>>

(* What is on the way is lost. *)
DropsPage(uid) ==
    /\ Drop(uid)
    /\ inbox' = [inbox EXCEPT ![uid] = <<>>]
    /\ outbox' = [outbox EXCEPT ![uid] = <<>>]
    /\ view' = [view EXCEPT ![uid] = NewPage(FALSE)]
    /\ alerted' = alerted \ {uid}

(* A slip in the code: only the end of an idle room is told. *)
ClosesPage_untold(uid) ==
    /\ wsclose_game_room(uid)
    /\ broadcast(IF statu = GAME_START THEN Quiet ELSE PeerLeft)
    /\ UNCHANGED <<outbox, view>>

ClosesPage(uid) ==
    /\ wsclose_game_room(uid)
    /\ broadcast(exit_resp(uid))
    /\ UNCHANGED <<outbox, view>>

-----------------------------------------------------------------------------
(* A slip in the code: a clock is not stopped at zero. *)
PassesZero(p) == IF p.thinking = 0 THEN p ELSE [p EXCEPT !.spent = @ + 1]
(* Time passes for the room and for every clock that ticks.  A clock at    *)
(* zero stays there, and so does the room's at STEP_INIT_MS (see Tick).    *)
Passes(p) == IF p.thinking = 0 \/ ClockEmpty(p) THEN p ELSE [p EXCEPT !.spent = @ + 1]
RoomTicks == statu = GAME_START /\ timing_started /\ elapsed < STEP_INIT_MS
Time ==
    /\ IF RoomTicks THEN Tick ELSE UNCHANGED vars
    /\ view' = [uid \in Players |-> Passes(view[uid])]
    /\ UNCHANGED <<traffic, alerted>>

EventLoop(uid) == onmessage(uid) \/ tickClock(uid)

PageNext ==
    /\ Registered
    /\ \/ Time
       \/ \E uid \in Players :
            \/ \E cell \in Cells : Clicks(uid, cell)
            \/ EventLoop(uid)
            \/ Dismisses(uid)
            \/ sendRematchInvite(uid)
            \/ sendRematchAccept(uid)
            \/ wsmsg_game_room(uid)
            \/ OpensPage(uid)
            \/ DropsPage(uid)
            \/ ClosesPage(uid)

PageSpec == PageInit /\ [][PageNext]_allvars

(* Time passes, and the io thread does not rest while there is something   *)
(* to do.  Nor does the event loop of a page, but for an alert: what waits *)
(* behind one is done when it is dismissed, so that a page without an      *)
(* alert again and again does it in the end.  No user has to do anything.  *)
IoThread == \E uid \in Players : wsmsg_game_room(uid) \/ ClosesPage(uid)
FreeLoop(uid) == uid \notin alerted /\ EventLoop(uid)

PageFairSpec ==
    /\ PageSpec
    /\ WF_allvars(Registered /\ Time)
    /\ WF_allvars(Registered /\ IoThread)
    /\ \A uid \in Players : SF_allvars(Registered /\ FreeLoop(uid))
-----------------------------------------------------------------------------
PageTypeOK ==
    /\ TypeOK
    /\ inbox \in [Players -> Seq(Messages)]
    /\ outbox \in [Players -> Seq(Requests)]
    /\ \A uid \in Players : Len(inbox[uid]) <= MaxInbox /\ Len(outbox[uid]) <= MaxOutbox
    /\ view \in [Players -> Pages]
    /\ alerted \subseteq Players

(* A page that has heard everything shows what the room holds: while a     *)
(* round is played, the board, the seats and whose turn it is.             *)
Listening(uid) == uid \in online /\ inbox[uid] = <<>>
PageFollows ==
    \A uid \in Players :
        Listening(uid) /\ statu = GAME_START =>
            Agrees(view[uid]) /\ (view[uid].myTurn <=> turn_uid = uid)

(* ... and once it is over, that it is, unless the page was opened later.  *)
EndIsSeen ==
    \A uid \in Players :
        Listening(uid) /\ statu = GAME_OVER => view[uid].status = "over" \/ view[uid].late

(* A page reports its timeout once.  One that has reported (in the turn of *)
(* the other player timeoutSent says that its clock is stopped) and waits, *)
(* with nothing on the way to it, has a report on the way that will count: *)
(* it was not refused as too early, and no other answer was missed.        *)
ReportCounts ==
    \A uid \in Players :
        /\ Listening(uid)
        /\ statu = GAME_START
        /\ view[uid].timeoutSent /\ view[uid].myTurn
        => /\ \E i \in 1 .. Len(outbox[uid]) : outbox[uid][i].optype = "timeout"
           /\ turn_uid = uid
           /\ Expired(0)

(* Black opens every round, though the server takes the first stone from   *)
(* either player.  The exception is a page opened again after a round: it  *)
(* may act on the old seats while rematch_start is still on the way.       *)
BlackOpens ==
    [][\A cell \in Cells :
          board = EmptyBoard /\ board'[cell] = CHESS_WHITE => view[white_id].late]_allvars

(* An invitation the room holds is one that can be accepted, as long as no *)
(* page was opened again after the round: the other player's page offers   *)
(* it, or has sent its answer.                                             *)
InvitationShown ==
    /\ initiator # 0
    /\ \A uid \in Players : Listening(uid) /\ ~view[uid].late /\ outbox[uid] = <<>>
    => /\ view[initiator].panel = "sent"
       /\ view[OtherOf(initiator)].panel = "asked"

(* A round whose clocks run ends, although each page reports only once and *)
(* messages take their time, if the players dismiss the alerts before them *)
(* in the end.  If one does not, the round can go on for ever: a refusal   *)
(* is told to both, and only the page of the player to move may report.    *)
AlertsDismissed == \A uid \in Players : []<>(uid \notin alerted)
RoundEnds == AlertsDismissed => ((statu = GAME_START /\ timing_started) ~> statu = GAME_OVER)
=============================================================================
