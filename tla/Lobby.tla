-------------------------------- MODULE Lobby --------------------------------
(***************************************************************************)
(* Who is where: the two connection maps of online_manager (online.hpp),   *)
(* the rooms and the uid -> rid map of room_manager (room.hpp), the        *)
(* lifetime of a login session as the handlers set it, and the WebSocket   *)
(* open and close handlers of server.hpp that keep the three together.     *)
(*                                                                         *)
(* The handlers run one after the other on the io thread; create_room runs *)
(* on the matcher threads and interleaves with them.  What happens inside  *)
(* a room is module Room; here a room only begins and ends its rounds.  A  *)
(* /spectate connection changes nothing of this but the session, which its *)
(* close handler puts on the timer as info does, and is left out.          *)
(***************************************************************************)
EXTENDS Integers

CONSTANTS
    Users,          \* uids
    Threads,        \* matcher threads that may be inside create_room
    MaxRid,         \* bound: rooms created
    EnterTwice,     \* bound: whether a user with an entry may be entered again
    MaxHall,        \* bound: /hall connections of one user not yet closed
    MaxRoom,        \* bound: /room connections of one user not yet closed
    MaxConns        \* bound: connections of one user not yet closed, of both kinds

ASSUME LobbyAssumption ==
    /\ MaxRid \in Nat
    /\ EnterTwice \in BOOLEAN
    /\ MaxHall \in Nat
    /\ MaxRoom \in Nat
    /\ MaxConns \in Nat

VARIABLES
    hall, room,     \* users in_game_hall and in_game_room answer true for
    opened,         \* connections in the open state, by user and endpoint
    closing,        \* connections whose close handler is still to run
    session,        \* the user's session: absent, on its timer, or kept forever
    rooms,          \* room_manager::_rooms
    users,          \* room_manager::_users
    next_rid,       \* room_manager::_next_rid
    waiting, twice, \* users with an entry in a match queue or in a thread's hands,
                    \* and those with more than one
    creating,       \* per matcher thread: the pair create_room is about, or <<>>
    removing        \* the room remove_room_user is about to remove, or 0

presence == <<hall, room, opened, closing>>
registry == <<rooms, users, next_rid>>
matching == <<waiting, twice, creating>>
vars == <<presence, session, registry, matching, removing>>

-----------------------------------------------------------------------------
Endpoints == {"hall", "room"}
Limit(e) == IF e = "hall" THEN MaxHall ELSE MaxRoom
Unclosed(uid, e) == opened[uid][e] + closing[uid][e]

Rids == 1 .. MaxRid
Matching == INSTANCE Matchmaking
GAME_START == "GAME_START"
GAME_OVER == "GAME_OVER"

PlayersOf(rp) == {rp.white, rp.black}
RoomWith(white, black, count, statu) ==
    [white |-> white, black |-> black, count |-> count, statu |-> statu]
(* A slip in the code: the constructor counts a player too. *)
NewRoomOvercounted(uid1, uid2) == RoomWith(uid1, uid2, 3, GAME_START)
NewRoom(uid1, uid2) == RoomWith(uid1, uid2, 2, GAME_START)

(* Partial maps, as functions on the keys present. *)
Insert(map, key, value) ==
    IF key \in DOMAIN map THEN map
    ELSE [k \in DOMAIN map \cup {key} |-> IF k = key THEN value ELSE map[k]]
Erase(map, keys) == [k \in DOMAIN map \ keys |-> map[k]]

Mapped(uid) == uid \in DOMAIN users /\ users[uid] \in DOMAIN rooms
HasSession(uid) == session[uid] # "absent"
IoIdle == removing = 0

Init ==
    /\ hall = {}
    /\ room = {}
    /\ opened = [uid \in Users |-> [e \in Endpoints |-> 0]]
    /\ closing = [uid \in Users |-> [e \in Endpoints |-> 0]]
    /\ session = [uid \in Users |-> "absent"]
    /\ rooms = [rid \in {} |-> NewRoom(0, 0)]
    /\ users = [uid \in {} |-> 0]
    /\ next_rid = 1
    /\ waiting = {}
    /\ twice = {}
    /\ creating = [t \in Threads |-> Matching!NoPair]
    /\ removing = 0

-----------------------------------------------------------------------------
(* HTTP: login makes a session on its timer; info puts an existing one     *)
(* back on it, whatever it was; the timer removes it.                      *)
login(uid) ==
    /\ IoIdle
    /\ ~HasSession(uid)
    /\ session' = [session EXCEPT ![uid] = "timed"]
    /\ UNCHANGED <<presence, registry, matching, removing>>

info(uid) ==
    /\ IoIdle
    /\ HasSession(uid)
    /\ session' = [session EXCEPT ![uid] = "timed"]
    /\ UNCHANGED <<presence, registry, matching, removing>>

SessionExpires(uid) ==
    /\ IoIdle
    /\ session[uid] = "timed"
    /\ session' = [session EXCEPT ![uid] = "absent"]
    /\ UNCHANGED <<presence, registry, matching, removing>>

-----------------------------------------------------------------------------
(* Opening a connection.  A refused one is told so and stays open. *)
Opens(uid, e) ==
    /\ IoIdle
    /\ Unclosed(uid, e) < Limit(e)
    /\ Unclosed(uid, "hall") + Unclosed(uid, "room") < MaxConns
    /\ opened' = [opened EXCEPT ![uid][e] = @ + 1]
    /\ UNCHANGED <<closing, registry, matching, removing>>

(* A slip in the code: only the hall is looked at. *)
wsopen_hall_unchecked(uid) ==
    /\ Opens(uid, "hall")
    /\ UNCHANGED room
    /\ HasSession(uid) /\ uid \notin hall
    /\ hall' = hall \cup {uid}
    /\ session' = [session EXCEPT ![uid] = "forever"]

wsopen_game_hall(uid) ==
    /\ Opens(uid, "hall")
    /\ UNCHANGED room
    /\ \/ /\ ~HasSession(uid) \/ uid \in hall \cup room
          /\ UNCHANGED <<hall, session>>
       \/ /\ HasSession(uid)
          /\ uid \notin hall \cup room
          /\ hall' = hall \cup {uid}
          /\ session' = [session EXCEPT ![uid] = "forever"]

(* A user still in the hall leaves it first, even when there is no room.   *)
wsopen_game_room(uid) ==
    /\ Opens(uid, "room")
    /\ \/ /\ ~HasSession(uid) \/ uid \in room
          /\ UNCHANGED <<hall, room, session>>
       \/ /\ HasSession(uid)
          /\ uid \notin room
          /\ hall' = hall \ {uid}
          /\ \/ ~Mapped(uid) /\ UNCHANGED <<room, session>>
             \/ /\ Mapped(uid)
                /\ room' = room \cup {uid}
                /\ session' = [session EXCEPT ![uid] = "forever"]

(* A slip in the code: a mapped connection counts whatever its state. *)
DropsUnseen(uid, e) ==
    /\ opened[uid][e] > 0
    /\ opened' = [opened EXCEPT ![uid][e] = @ - 1]
    /\ closing' = [closing EXCEPT ![uid][e] = @ + 1]
    /\ UNCHANGED <<hall, room, session, registry, matching, removing>>

(* A connection leaves the open state some time before its close handler   *)
(* runs, and in_game_hall and in_game_room look at that state.  It may be  *)
(* the entered one, or one that was refused.                               *)
Drops(uid, e) ==
    /\ opened[uid][e] > 0
    /\ opened' = [opened EXCEPT ![uid][e] = @ - 1]
    /\ closing' = [closing EXCEPT ![uid][e] = @ + 1]
    /\ \/ /\ hall' = IF e = "hall" THEN hall \ {uid} ELSE hall
          /\ room' = IF e = "room" THEN room \ {uid} ELSE room
       \/ opened[uid][e] > 1 /\ UNCHANGED <<hall, room>>
    /\ UNCHANGED <<session, registry, matching, removing>>

-----------------------------------------------------------------------------
(* Close handlers.  They act for the uid, whichever connection it was, and *)
(* without a session they return at once.                                  *)
Closes(uid, e) ==
    /\ IoIdle
    /\ closing[uid][e] > 0
    /\ closing' = [closing EXCEPT ![uid][e] = @ - 1]
    /\ UNCHANGED <<opened, matching, next_rid, users>>

wsclose_game_hall(uid) ==
    /\ Closes(uid, "hall")
    /\ UNCHANGED <<room, rooms, removing>>
    /\ \/ ~HasSession(uid) /\ UNCHANGED <<hall, session>>
       \/ /\ HasSession(uid)
          /\ hall' = hall \ {uid}
          /\ session' = [session EXCEPT ![uid] = "timed"]

(* A slip in the code: a room is removed once one player is left. *)
remove_room_user_early(uid) ==
    /\ Mapped(uid)
    /\ rooms' = [rooms EXCEPT ![users[uid]] =
                     RoomWith(@.white, @.black, @.count - 1, GAME_OVER)]
    /\ removing' = users[uid]

(* With handle_exit: the round ends, the player is counted out, and a room *)
(* counted empty is removed by the next step.                              *)
remove_room_user(uid) ==
    \/ ~Mapped(uid) /\ UNCHANGED <<rooms, removing>>
    \/ /\ Mapped(uid)
       /\ rooms' = [rooms EXCEPT ![users[uid]] =
                        RoomWith(@.white, @.black, @.count - 1, GAME_OVER)]
       /\ removing' = IF rooms[users[uid]].count = 1 THEN users[uid] ELSE 0

wsclose_game_room(uid) ==
    /\ Closes(uid, "room")
    /\ UNCHANGED hall
    /\ \/ ~HasSession(uid) /\ UNCHANGED <<room, session, rooms, removing>>
       \/ /\ HasSession(uid)
          /\ room' = room \ {uid}
          /\ session' = [session EXCEPT ![uid] = "timed"]
          /\ remove_room_user(uid)

(* A slip in the code: the second player stays mapped. *)
remove_room_half ==
    /\ removing # 0
    /\ users' = Erase(users, {rooms[removing].white})
    /\ rooms' = Erase(rooms, {removing})
    /\ removing' = 0
    /\ UNCHANGED <<presence, session, next_rid, matching>>

(* remove_room takes the lock again, after create_room may have had it. *)
remove_room ==
    /\ removing # 0
    /\ users' = Erase(users, PlayersOf(rooms[removing]))
    /\ rooms' = Erase(rooms, {removing})
    /\ removing' = 0
    /\ UNCHANGED <<presence, session, next_rid, matching>>

-----------------------------------------------------------------------------
(* Messages.  A request reaches the room its sender is mapped to. *)
Reaches(uid, rid) ==
    /\ IoIdle
    /\ opened[uid]["room"] > 0
    /\ HasSession(uid)
    /\ uid \in DOMAIN users
    /\ users[uid] = rid

RoundEnds(rid) ==
    /\ rid \in DOMAIN rooms
    /\ rooms[rid].statu = GAME_START
    /\ \E uid \in Users : Reaches(uid, rid)
    /\ rooms' = [rooms EXCEPT ![rid] = RoomWith(@.white, @.black, @.count, GAME_OVER)]
    /\ UNCHANGED <<presence, session, users, next_rid, matching, removing>>

Rematch(rid) ==
    /\ rid \in DOMAIN rooms
    /\ rooms[rid].statu = GAME_OVER
    /\ rooms[rid].white # rooms[rid].black
    /\ PlayersOf(rooms[rid]) \subseteq room
    /\ \A uid \in PlayersOf(rooms[rid]) : Reaches(uid, rid)
    /\ rooms' = [rooms EXCEPT ![rid] = RoomWith(@.black, @.white, @.count, GAME_START)]
    /\ UNCHANGED <<presence, session, users, next_rid, matching, removing>>

-----------------------------------------------------------------------------
(* Matching.  Messages of the hall page put an entry of its user into a    *)
(* pool and take his entries out; the threads bring two users together.    *)
(* The steps are those of Matchmaking, which module Matcher implements.    *)
match_start(uid) ==
    /\ IoIdle
    /\ opened[uid]["hall"] > 0
    /\ HasSession(uid)
    /\ uid \notin waiting \/ EnterTwice
    /\ Matching!Joins(uid)
    /\ UNCHANGED <<presence, session, registry, removing>>

(* An entry in another pool or in a thread's hands stays. *)
match_stop(uid) ==
    /\ IoIdle
    /\ opened[uid]["hall"] > 0
    /\ HasSession(uid)
    /\ Matching!Forgets(uid)
    /\ UNCHANGED <<presence, session, registry, removing>>

(* handle_match as far as the two looks of create_room, or to the loss of  *)
(* an entry.                                                               *)
handle_match(t) ==
    /\ Matching!handle_match(t) \/ \E uid \in Users : Matching!Forgets(uid)
    /\ UNCHANGED <<presence, session, registry, removing>>

(* A slip in the code: an id that is free again is taken before a new one. *)
create_room_free_id(t) ==
    /\ Matching!Creates(t)
    /\ next_rid <= MaxRid
    /\ \E rid \in 1 .. next_rid :
          LET uid1 == creating[t][1]
              uid2 == creating[t][2]
          IN  /\ rid \notin DOMAIN rooms
              /\ \A lower \in 1 .. rid - 1 : lower \in DOMAIN rooms
              /\ rooms' = Insert(rooms, rid, NewRoom(uid1, uid2))
              /\ users' = Insert(Insert(users, uid1, rid), uid2, rid)
              /\ next_rid' = IF rid = next_rid THEN next_rid + 1 ELSE next_rid
    /\ UNCHANGED <<presence, session, removing>>

(* create_room: both looks into the hall come before the lock is taken. *)
create_room(t) ==
    /\ Matching!Creates(t)
    /\ next_rid <= MaxRid
    /\ LET uid1 == creating[t][1]
           uid2 == creating[t][2]
       IN  /\ rooms' = Insert(rooms, next_rid, NewRoom(uid1, uid2))
           /\ users' = Insert(Insert(users, uid1, next_rid), uid2, next_rid)
    /\ next_rid' = next_rid + 1
    /\ UNCHANGED <<presence, session, removing>>

Next ==
    \/ \E uid \in Users :
         \/ login(uid) \/ info(uid) \/ SessionExpires(uid)
         \/ wsopen_game_hall(uid) \/ wsopen_game_room(uid)
         \/ wsclose_game_hall(uid) \/ wsclose_game_room(uid)
         \/ match_start(uid) \/ match_stop(uid)
         \/ \E e \in Endpoints : Drops(uid, e)
    \/ remove_room
    \/ \E rid \in Rids : RoundEnds(rid) \/ Rematch(rid)
    \/ \E t \in Threads : handle_match(t) \/ create_room(t)

Spec == Init /\ [][Next]_vars

-----------------------------------------------------------------------------
RoomRecords == [white : Users, black : Users, count : 0 .. 2, statu : {GAME_START, GAME_OVER}]

(* Every variable holds a value of the container it stands for. *)
TypeOK ==
    /\ hall \subseteq Users
    /\ room \subseteq Users
    /\ opened \in [Users -> [Endpoints -> Nat]]
    /\ closing \in [Users -> [Endpoints -> Nat]]
    /\ session \in [Users -> {"absent", "timed", "forever"}]
    /\ DOMAIN rooms \subseteq Rids
    /\ rooms \in [DOMAIN rooms -> RoomRecords]
    /\ DOMAIN users \subseteq Users
    /\ users \in [DOMAIN users -> Rids]
    /\ next_rid \in 1 .. MaxRid + 1
    /\ waiting \subseteq Users
    /\ twice \subseteq waiting
    /\ creating \in [Threads -> {Matching!NoPair} \cup (Users \X Users \X {1, 2})]
    /\ removing \in DOMAIN rooms \cup {0}

(* Whoever is mapped to a room is one of the two players of a room that    *)
(* still exists, although create_room, remove_room and the swap of seats   *)
(* in a rematch each touch only one side of that relation.                 *)
MappingSound ==
    \A uid \in DOMAIN users :
        users[uid] \in DOMAIN rooms /\ uid \in PlayersOf(rooms[users[uid]])

(* Room ids are handed out in order, and _rooms holds only ids handed out. *)
IdsHandedOut == \A rid \in DOMAIN rooms : rid < next_rid

(* The id of a room that is gone never names another room, so a page that  *)
(* still sends it cannot reach the wrong game.  RoomsLive, below, says so   *)
(* too, and is the one the run checks.                                     *)
GoneForGood(rid) == rid < next_rid /\ rid \notin DOMAIN rooms
IdsNotReused == [][\A rid \in Rids : GoneForGood(rid) => GoneForGood(rid)']_vars

(* Nobody is in the hall and in a room at once, so a look of the matcher    *)
(* into the hall never finds a user who is playing: not with connections   *)
(* that overlap, not with close handlers that run late.                    *)
HallRoomExclusive == hall \cap room = {}

(* Being in the hall or in a room rests on a connection that is open. *)
PresenceIsConnected ==
    /\ \A uid \in hall : opened[uid]["hall"] > 0
    /\ \A uid \in room : opened[uid]["room"] > 0

(* A room counted empty is the one the io thread is removing: handle_exit  *)
(* never counts below zero and no empty room stays behind.                 *)
EmptyRoomsRemoved == \A rid \in DOMAIN rooms : rooms[rid].count = 0 <=> removing = rid

(* Each room lives as RoomLife allows: a step changes one room, the count  *)
(* of players never rises and is zero when the room is removed, no round   *)
(* starts in a room that counts nobody, and an id has one life.            *)
life ==
    [rid \in Rids |->
        IF rid \in DOMAIN rooms THEN rooms[rid]
        ELSE RoomWith(0, 0, 0, IF GoneForGood(rid) THEN "gone" ELSE "unmade")]
Life == INSTANCE RoomLife
RoomsLive == Life!Spec

(* create_room says it sets up the mapping uid -> rid of its two players. *)
CreatedRoomIsMapped ==
    [][\A rid \in DOMAIN rooms' \ DOMAIN rooms :
          \A uid \in PlayersOf(rooms'[rid]) : users'[uid] = rid]_vars
=============================================================================
