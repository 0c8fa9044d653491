------------------------------ MODULE RoomLife ------------------------------
(***************************************************************************)
(* The life of rooms as seen from outside: who sits where, how many        *)
(* players are counted, whether a round is under way.  What goes on inside *)
(* a round, the connections and the mapping of users are left out.         *)
(*                                                                         *)
(* Lobby implements it with all the rooms of room_manager, Room with the   *)
(* one it models, from its creation on.  So what Lobby lets happen to a    *)
(* room from outside is what a room does, and no more.                     *)
(***************************************************************************)
EXTENDS Integers

CONSTANTS
    Rids,           \* ids of rooms
    Users           \* uids

VARIABLE life       \* of each room

GAME_START == "GAME_START"
GAME_OVER == "GAME_OVER"

RoomWith(white, black, count, statu) ==
    [white |-> white, black |-> black, count |-> count, statu |-> statu]
Unmade == RoomWith(0, 0, 0, "unmade")
Gone == RoomWith(0, 0, 0, "gone")
(* The first round starts with the room, and two players are counted       *)
(* whether they are there yet or not.                                      *)
NewRooms == {RoomWith(white, black, 2, GAME_START) : white, black \in Users}

-----------------------------------------------------------------------------
(* What a room may become in one step. *)
create_room(rp, new) ==
    /\ rp = Unmade
    /\ new \in NewRooms

RoundEnds(rp, new) ==
    /\ rp.statu = GAME_START
    /\ rp.count > 0
    /\ new = RoomWith(rp.white, rp.black, rp.count, GAME_OVER)

(* Two different players agree, and swap seats. *)
Rematch(rp, new) ==
    /\ rp.statu = GAME_OVER
    /\ rp.count > 0
    /\ rp.white # rp.black
    /\ new = RoomWith(rp.black, rp.white, rp.count, GAME_START)

(* A departure counts one player out, ends the round, and leaves the seats *)
(* as they are.                                                            *)
handle_exit(rp, new) ==
    /\ rp.statu \in {GAME_START, GAME_OVER}
    /\ rp.count > 0
    /\ new = RoomWith(rp.white, rp.black, rp.count - 1, GAME_OVER)

(* A room that counts nobody can only be removed, and is not seen again. *)
remove_room(rp, new) ==
    /\ rp.statu = GAME_OVER
    /\ rp.count = 0
    /\ new = Gone

LivesOn(rp, new) ==
    \/ create_room(rp, new)
    \/ RoundEnds(rp, new)
    \/ Rematch(rp, new)
    \/ handle_exit(rp, new)
    \/ remove_room(rp, new)

-----------------------------------------------------------------------------
(* One room at a time. *)
Next ==
    /\ life' # life
    /\ \E rid \in Rids :
          /\ LivesOn(life[rid], life'[rid])
          /\ life' = [life EXCEPT ![rid] = life'[rid]]

Init == life = [rid \in Rids |-> Unmade]
Spec == Init /\ [][Next]_life

(* From the creation of the rooms on. *)
MadeInit == life \in [Rids -> NewRooms]
MadeSpec == MadeInit /\ [][Next]_life
=============================================================================
