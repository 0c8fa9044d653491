----------------------------- MODULE LobbyProofs -----------------------------
(***************************************************************************)
(* What module Lobby guarantees for any number of users, matcher threads,  *)
(* rooms and connections.                                                  *)
(*                                                                         *)
(* MappingSound is preserved by remove_room only because it erases the     *)
(* mappings of both players of the room it erases, and by create_room only *)
(* because the id it inserts is new, so IdsHandedOut is needed beside it;  *)
(* that the room still exists when the io thread comes back to remove it   *)
(* is EmptyRoomsRemoved.                                                   *)
(***************************************************************************)
EXTENDS Lobby, TLAPS

Inv ==
    /\ TypeOK
    /\ MappingSound
    /\ IdsHandedOut
    /\ HallRoomExclusive
    /\ EmptyRoomsRemoved

USE LobbyAssumption DEF GAME_START, GAME_OVER

(* The part of the state the room registry rests on. *)
Registry ==
    /\ DOMAIN rooms \subseteq Rids
    /\ rooms \in [DOMAIN rooms -> RoomRecords]
    /\ DOMAIN users \subseteq Users
    /\ users \in [DOMAIN users -> Rids]
    /\ next_rid \in 1 .. MaxRid + 1
    /\ removing \in DOMAIN rooms \cup {0}
    /\ MappingSound
    /\ IdsHandedOut
    /\ EmptyRoomsRemoved

(* Entries are of users, and so are the pairs a room is made for.          *)
MatchingTyped ==
    /\ waiting \subseteq Users
    /\ twice \subseteq waiting
    /\ creating \in [Threads -> {Matching!NoPair} \cup (Users \X Users \X {1, 2})]

(* The part that says who is where. *)
Presence ==
    /\ hall \subseteq Users
    /\ room \subseteq Users
    /\ opened \in [Users -> [Endpoints -> Nat]]
    /\ closing \in [Users -> [Endpoints -> Nat]]
    /\ session \in [Users -> {"absent", "timed", "forever"}]
    /\ MatchingTyped
    /\ HallRoomExclusive

LEMMA InvParts == Inv <=> Registry /\ Presence
BY DEF Inv, TypeOK, Registry, Presence, MatchingTyped

LEMMA InvPartsNext == Inv' <=> Registry' /\ Presence'
BY DEF Inv, TypeOK, Registry, Presence, MatchingTyped

-----------------------------------------------------------------------------
LEMMA InitInv == Init => Inv
<1>1. SUFFICES ASSUME Init PROVE Inv
  OBVIOUS
<1>2. DOMAIN rooms = {} /\ DOMAIN users = {}
  BY <1>1 DEF Init
<1>3. rooms \in [DOMAIN rooms -> RoomRecords] /\ users \in [DOMAIN users -> Rids]
  BY <1>1, <1>2 DEF Init
<1>4. next_rid = 1 /\ removing = 0
  BY <1>1 DEF Init
<1>5. Registry
  BY <1>2, <1>3, <1>4 DEF Registry, MappingSound, IdsHandedOut, EmptyRoomsRemoved, Rids
<1>6. opened \in [Users -> [Endpoints -> Nat]] /\ closing \in [Users -> [Endpoints -> Nat]]
  BY <1>1 DEF Init
<1>7. Presence
  BY <1>1, <1>6 DEF Init, Presence, MatchingTyped, HallRoomExclusive
<1>8. QED BY <1>5, <1>7, InvParts

(* A step that leaves the registry alone keeps its part. *)
LEMMA RegistryUnchanged ==
    ASSUME Registry, UNCHANGED registry, UNCHANGED removing
    PROVE  Registry'
BY DEF Registry, registry, MappingSound, IdsHandedOut, EmptyRoomsRemoved

LEMMA PresenceUnchanged ==
    ASSUME Presence, UNCHANGED presence, UNCHANGED matching,
           session' \in [Users -> {"absent", "timed", "forever"}]
    PROVE  Presence'
BY DEF Presence, MatchingTyped, presence, matching, HallRoomExclusive

(* Changing the progress of one room, its seats at most swapped, keeps the *)
(* registry: the players of every room stay who they were.                 *)
LEMMA RoomUpdated ==
    ASSUME Registry, NEW rid \in DOMAIN rooms, NEW rp \in RoomRecords,
           rooms' = [rooms EXCEPT ![rid] = rp],
           PlayersOf(rp) = PlayersOf(rooms[rid]),
           UNCHANGED <<users, next_rid>>,
           removing = 0,
           rp.count = 0 <=> removing' = rid,
           removing' \in {0, rid}
    PROVE  Registry'
<1>1. DOMAIN rooms' = DOMAIN rooms
  BY DEF Registry
<1>2. /\ rooms'[rid] = rp
      /\ \A other \in DOMAIN rooms : other # rid => rooms'[other] = rooms[other]
  BY DEF Registry
<1>3. rooms' \in [DOMAIN rooms' -> RoomRecords]
  BY <1>1 DEF Registry
<1>4. \A other \in DOMAIN rooms : PlayersOf(rooms'[other]) = PlayersOf(rooms[other])
  BY <1>2
<1>5. MappingSound' /\ IdsHandedOut'
  BY <1>1, <1>4 DEF Registry, MappingSound, IdsHandedOut
<1>6. EmptyRoomsRemoved'
  <2>1. SUFFICES ASSUME NEW other \in DOMAIN rooms
                 PROVE  rooms'[other].count = 0 <=> removing' = other
    BY <1>1 DEF EmptyRoomsRemoved
  <2>2. CASE other = rid
    BY <2>2, <1>2
  <2>3. CASE other # rid
    <3>1. rooms'[other].count # 0
      BY <1>2, <2>3 DEF Registry, EmptyRoomsRemoved, Rids
    <3>2. removing' # other
      BY <2>3 DEF Registry, Rids
    <3>3. QED BY <3>1, <3>2
  <2>4. QED BY <2>2, <2>3
<1>7. QED BY <1>1, <1>3, <1>5, <1>6 DEF Registry

-----------------------------------------------------------------------------
LEMMA SessionInv ==
    ASSUME Inv, NEW uid \in Users, login(uid) \/ info(uid) \/ SessionExpires(uid)
    PROVE  Inv'
<1>1. /\ UNCHANGED <<presence, registry, matching, removing>>
      /\ session' \in [Users -> {"absent", "timed", "forever"}]
  BY DEF login, info, SessionExpires, Inv, TypeOK
<1>2. QED BY <1>1, RegistryUnchanged, PresenceUnchanged, InvParts, InvPartsNext

(* Opening and losing connections, and the hall's close handler, change    *)
(* who is present and leave the registry alone.                            *)
LEMMA OpensTyped ==
    ASSUME Inv, NEW uid \in Users, NEW e \in Endpoints, Opens(uid, e)
    PROVE  /\ opened' \in [Users -> [Endpoints -> Nat]]
           /\ UNCHANGED <<closing, registry, matching, removing>>
BY DEF Opens, Inv, TypeOK

LEMMA OpenHallInv ==
    ASSUME Inv, NEW uid \in Users, wsopen_game_hall(uid)
    PROVE  Inv'
<1>1. /\ opened' \in [Users -> [Endpoints -> Nat]]
      /\ UNCHANGED <<closing, registry, matching, removing>>
  BY OpensTyped DEF wsopen_game_hall, Endpoints
<1>2. /\ hall' \subseteq Users /\ room' = room
      /\ session' \in [Users -> {"absent", "timed", "forever"}]
      /\ HallRoomExclusive'
  <2>1. room' = room /\ (hall' = hall \/ (uid \notin room /\ hall' = hall \cup {uid}))
    BY DEF wsopen_game_hall
  <2>2. session' \in [Users -> {"absent", "timed", "forever"}]
    BY DEF wsopen_game_hall, Inv, TypeOK
  <2>3. hall \subseteq Users /\ hall \cap room = {}
    BY DEF Inv, TypeOK, HallRoomExclusive
  <2>4. QED BY <2>1, <2>2, <2>3 DEF HallRoomExclusive
<1>3. Presence'
  BY <1>1, <1>2 DEF Presence, MatchingTyped, Inv, TypeOK, matching
<1>4. QED BY <1>1, <1>3, RegistryUnchanged, InvParts, InvPartsNext

LEMMA OpenRoomInv ==
    ASSUME Inv, NEW uid \in Users, wsopen_game_room(uid)
    PROVE  Inv'
<1>1. /\ opened' \in [Users -> [Endpoints -> Nat]]
      /\ UNCHANGED <<closing, registry, matching, removing>>
  BY OpensTyped DEF wsopen_game_room, Endpoints
<1>2. /\ hall' \subseteq Users /\ room' \subseteq Users
      /\ session' \in [Users -> {"absent", "timed", "forever"}]
      /\ HallRoomExclusive'
  BY DEF wsopen_game_room, Inv, TypeOK, HallRoomExclusive
<1>3. Presence'
  BY <1>1, <1>2 DEF Presence, MatchingTyped, Inv, TypeOK, matching
<1>4. QED BY <1>1, <1>3, RegistryUnchanged, InvParts, InvPartsNext

LEMMA DropsInv ==
    ASSUME Inv, NEW uid \in Users, NEW e \in Endpoints, Drops(uid, e)
    PROVE  Inv'
<1>1. /\ opened' = [opened EXCEPT ![uid][e] = @ - 1]
      /\ closing' = [closing EXCEPT ![uid][e] = @ + 1]
      /\ opened[uid][e] > 0
      /\ UNCHANGED <<session, registry, matching, removing>>
  BY DEF Drops
<1>2. opened' \in [Users -> [Endpoints -> Nat]] /\ closing' \in [Users -> [Endpoints -> Nat]]
  BY <1>1 DEF Inv, TypeOK
<1>3. hall' \subseteq hall /\ room' \subseteq room
  BY DEF Drops
<1>4. Presence'
  BY <1>1, <1>2, <1>3 DEF Presence, MatchingTyped, Inv, TypeOK, HallRoomExclusive, matching
<1>5. QED BY <1>1, <1>4, RegistryUnchanged, InvParts, InvPartsNext

LEMMA ClosesTyped ==
    ASSUME Inv, NEW uid \in Users, NEW e \in Endpoints, Closes(uid, e)
    PROVE  /\ closing' \in [Users -> [Endpoints -> Nat]]
           /\ removing = 0
           /\ UNCHANGED <<opened, matching, next_rid, users>>
BY DEF Closes, IoIdle, Inv, TypeOK

LEMMA CloseHallInv ==
    ASSUME Inv, NEW uid \in Users, wsclose_game_hall(uid)
    PROVE  Inv'
<1>1. /\ closing' \in [Users -> [Endpoints -> Nat]]
      /\ UNCHANGED <<opened, matching, next_rid, users>>
  BY ClosesTyped DEF wsclose_game_hall, Endpoints
<1>2. /\ hall' \subseteq hall
      /\ session' \in [Users -> {"absent", "timed", "forever"}]
      /\ UNCHANGED <<room, rooms, removing>>
  BY DEF wsclose_game_hall, Inv, TypeOK
<1>3. Presence'
  BY <1>1, <1>2 DEF Presence, MatchingTyped, Inv, TypeOK, HallRoomExclusive, matching
<1>4. Registry'
  BY <1>1, <1>2, InvParts, RegistryUnchanged DEF registry
<1>5. QED BY <1>3, <1>4, InvPartsNext

LEMMA CloseRoomInv ==
    ASSUME Inv, NEW uid \in Users, wsclose_game_room(uid)
    PROVE  Inv'
<1>1. /\ closing' \in [Users -> [Endpoints -> Nat]]
      /\ removing = 0
      /\ UNCHANGED <<opened, matching, next_rid, users>>
  BY ClosesTyped DEF wsclose_game_room, Endpoints
<1>2. /\ room' \subseteq room
      /\ session' \in [Users -> {"absent", "timed", "forever"}]
      /\ UNCHANGED hall
  BY DEF wsclose_game_room, Inv, TypeOK
<1>3. Presence'
  BY <1>1, <1>2 DEF Presence, MatchingTyped, Inv, TypeOK, HallRoomExclusive, matching
<1>4. Registry'
  <2>1. CASE UNCHANGED <<rooms, removing>>
    BY <1>1, <2>1, InvParts, RegistryUnchanged DEF registry
  <2>2. CASE /\ Mapped(uid)
             /\ rooms' = [rooms EXCEPT ![users[uid]] =
                              RoomWith(@.white, @.black, @.count - 1, GAME_OVER)]
             /\ removing' = IF rooms[users[uid]].count = 1 THEN users[uid] ELSE 0
    <3> DEFINE rid == users[uid]
               rp == RoomWith(rooms[rid].white, rooms[rid].black,
                              rooms[rid].count - 1, GAME_OVER)
    <3>1. rid \in DOMAIN rooms /\ rid \in Rids /\ rooms[rid] \in RoomRecords
      BY <2>2 DEF Mapped, Inv, TypeOK
    <3>2. rooms[rid].count \in 1 .. 2
      BY <3>1, <1>1 DEF Inv, EmptyRoomsRemoved, Rids, RoomRecords
    <3>3. /\ rp.white = rooms[rid].white /\ rp.black = rooms[rid].black
          /\ rp.count = rooms[rid].count - 1
      BY DEF RoomWith
    <3>4. rooms' = [rooms EXCEPT ![rid] = rp]
      BY <2>2
    <3>5. removing' = IF rooms[rid].count = 1 THEN rid ELSE 0
      BY <2>2
    <3> HIDE DEF rid, rp
    <3>6. /\ removing' \in {0, rid}
          /\ rp.count = 0 <=> removing' = rid
      BY <3>1, <3>2, <3>3, <3>5 DEF Rids
    <3>7. rp \in RoomRecords
      <4>1. rooms[rid].white \in Users /\ rooms[rid].black \in Users
        BY <3>1 DEF RoomRecords
      <4>2. QED BY <3>2, <4>1 DEF rp, RoomRecords, RoomWith
    <3>8. PlayersOf(rp) = PlayersOf(rooms[rid])
      BY <3>3 DEF PlayersOf
    <3>9. QED BY <1>1, <3>1, <3>4, <3>6, <3>7, <3>8, InvParts, RoomUpdated
  <2>3. QED BY <2>1, <2>2 DEF wsclose_game_room, remove_room_user
<1>5. QED BY <1>3, <1>4, InvPartsNext

-----------------------------------------------------------------------------
(* The steps of Matchmaking keep its types, so those of the matcher keep   *)
(* the invariant: before create_room they touch nothing else.              *)
LEMMA EntriesTyped ==
    ASSUME MatchingTyped, NEW uid \in Users, Matching!Joins(uid) \/ Matching!Forgets(uid)
    PROVE  MatchingTyped'
BY DEF MatchingTyped, Matching!Joins, Matching!Forgets, Matching!LoseEntries

LEMMA PairsTyped ==
    ASSUME MatchingTyped, NEW t \in Threads, Matching!handle_match(t) \/ Matching!Creates(t)
    PROVE  MatchingTyped'
<1>1. CASE \E uid1, uid2 \in Users : Matching!FindsFirst(t, uid1, uid2)
  <2>1. PICK uid1 \in Users, uid2 \in Users : Matching!FindsFirst(t, uid1, uid2)
    BY <1>1
  <2>2. <<uid1, uid2, 1>> \in Users \X Users \X {1, 2}
    OBVIOUS
  <2>3. QED BY <2>1, <2>2 DEF MatchingTyped, Matching!FindsFirst, Matching!entries
<1>2. CASE Matching!MissesSecond(t) \/ Matching!Creates(t)
  BY <1>2 DEF MatchingTyped, Matching!MissesSecond, Matching!Creates, Matching!entries
<1>3. CASE Matching!FindsSecond(t)
  <2> DEFINE found == <<creating[t][1], creating[t][2], 2>>
  <2>1. creating[t] \in Users \X Users \X {1, 2}
    BY <1>3 DEF MatchingTyped, Matching!FindsSecond, Matching!Found
  <2>2. found \in Users \X Users \X {1, 2}
    BY <2>1
  <2>3. creating' = [creating EXCEPT ![t] = found]
    BY <1>3 DEF Matching!FindsSecond
  <2> HIDE DEF found
  <2>4. QED BY <1>3, <2>2, <2>3 DEF MatchingTyped, Matching!FindsSecond, Matching!LoseEntries
<1>4. QED BY <1>1, <1>2, <1>3 DEF Matching!handle_match

LEMMA MatchingInv ==
    ASSUME Inv, MatchingTyped', UNCHANGED <<presence, session, registry, removing>>
    PROVE  Inv'
<1>1. Presence'
  BY InvParts DEF Presence, presence, HallRoomExclusive
<1>2. QED BY <1>1, RegistryUnchanged, InvParts, InvPartsNext

LEMMA MatchInv ==
    ASSUME Inv, NEW uid \in Users, match_start(uid) \/ match_stop(uid)
    PROVE  Inv'
<1>1. MatchingTyped'
  BY InvParts, EntriesTyped DEF Presence, match_start, match_stop
<1>2. QED BY <1>1, MatchingInv DEF match_start, match_stop

LEMMA HandleMatchInv ==
    ASSUME Inv, NEW t \in Threads, handle_match(t)
    PROVE  Inv'
<1>1. MatchingTyped'
  BY InvParts, PairsTyped, EntriesTyped DEF Presence, handle_match
<1>2. QED BY <1>1, MatchingInv DEF handle_match

(* What inserting into a map does, for the two maps of room_manager. *)
LEMMA InsertRoom ==
    ASSUME Registry, NEW rid \in Rids, NEW rp \in RoomRecords, rid \notin DOMAIN rooms
    PROVE  /\ DOMAIN Insert(rooms, rid, rp) = DOMAIN rooms \cup {rid}
           /\ Insert(rooms, rid, rp) \in [DOMAIN rooms \cup {rid} -> RoomRecords]
           /\ \A other \in DOMAIN rooms : Insert(rooms, rid, rp)[other] = rooms[other]
           /\ Insert(rooms, rid, rp)[rid] = rp
BY DEF Registry, Insert

LEMMA InsertUser ==
    ASSUME NEW map, DOMAIN map \subseteq Users, map \in [DOMAIN map -> Rids],
           NEW uid \in Users, NEW rid \in Rids
    PROVE  /\ DOMAIN Insert(map, uid, rid) = DOMAIN map \cup {uid}
           /\ Insert(map, uid, rid) \in [DOMAIN map \cup {uid} -> Rids]
           /\ \A other \in DOMAIN map : Insert(map, uid, rid)[other] = map[other]
           /\ uid \notin DOMAIN map => Insert(map, uid, rid)[uid] = rid
BY DEF Insert

(* The new room gets an id nobody has; whoever is mapped already keeps the *)
(* mapping, so it stays sound even where it is out of date.                *)
LEMMA CreateRoomInv ==
    ASSUME Inv, NEW t \in Threads, create_room(t)
    PROVE  Inv'
<1> DEFINE uid1 == creating[t][1]
           uid2 == creating[t][2]
           rp == NewRoom(uid1, uid2)
           users1 == Insert(users, uid1, next_rid)
<1>1. /\ creating[t] \in Users \X Users \X {1, 2}
      /\ next_rid \in Rids
      /\ next_rid \notin DOMAIN rooms
  BY DEF create_room, Matching!Creates, Matching!Found, Inv, TypeOK, Rids, IdsHandedOut
<1>2. uid1 \in Users /\ uid2 \in Users
  BY <1>1
<1>3. /\ rooms' = Insert(rooms, next_rid, rp)
      /\ users' = Insert(users1, uid2, next_rid)
      /\ next_rid' = next_rid + 1
      /\ Matching!Creates(t)
      /\ UNCHANGED <<presence, session, removing>>
  BY DEF create_room
<1>4. /\ rp \in RoomRecords
      /\ PlayersOf(rp) = {uid1, uid2}
      /\ rp.count = 2
  BY <1>2 DEF NewRoom, RoomWith, RoomRecords, PlayersOf
<1> HIDE DEF uid1, uid2, rp
<1>5. /\ DOMAIN rooms' = DOMAIN rooms \cup {next_rid}
      /\ rooms' \in [DOMAIN rooms' -> RoomRecords]
      /\ \A rid \in DOMAIN rooms : rooms'[rid] = rooms[rid]
      /\ rooms'[next_rid] = rp
  BY <1>1, <1>3, <1>4, InvParts, InsertRoom
<1>6. /\ DOMAIN users1 = DOMAIN users \cup {uid1}
      /\ users1 \in [DOMAIN users \cup {uid1} -> Rids]
      /\ \A uid \in DOMAIN users : users1[uid] = users[uid]
      /\ uid1 \notin DOMAIN users => users1[uid1] = next_rid
  <2>1. DOMAIN users \subseteq Users /\ users \in [DOMAIN users -> Rids]
    BY DEF Inv, TypeOK
  <2>2. QED BY <1>1, <1>2, <2>1, InsertUser
<1> HIDE DEF users1
<1>7. /\ DOMAIN users' = DOMAIN users \cup {uid1, uid2}
      /\ users' \in [DOMAIN users' -> Rids]
      /\ \A uid \in DOMAIN users : users'[uid] = users[uid]
      /\ \A uid \in {uid1, uid2} \ DOMAIN users : users'[uid] = next_rid
  <2>1. DOMAIN users1 \subseteq Users /\ users1 \in [DOMAIN users1 -> Rids]
    BY <1>2, <1>6 DEF Inv, TypeOK
  <2>2. /\ DOMAIN users' = DOMAIN users1 \cup {uid2}
        /\ users' \in [DOMAIN users1 \cup {uid2} -> Rids]
        /\ \A uid \in DOMAIN users1 : users'[uid] = users1[uid]
        /\ uid2 \notin DOMAIN users1 => users'[uid2] = next_rid
    <3>1. users' = Insert(users1, uid2, next_rid) /\ uid2 \in Users /\ next_rid \in Rids
      BY <1>1, <1>2, <1>3
    <3>2. QED BY <2>1, <3>1, InsertUser
  <2>3. QED BY <1>6, <2>2
<1>8. MappingSound'
  <2>1. SUFFICES ASSUME NEW uid \in DOMAIN users'
                 PROVE  users'[uid] \in DOMAIN rooms' /\ uid \in PlayersOf(rooms'[users'[uid]])
    BY DEF MappingSound
  <2>2. CASE uid \in DOMAIN users
    <3>1. users'[uid] = users[uid]
      BY <1>7, <2>2
    <3>2. users[uid] \in DOMAIN rooms /\ uid \in PlayersOf(rooms[users[uid]])
      BY <2>2 DEF Inv, MappingSound
    <3>3. QED BY <1>5, <3>1, <3>2
  <2>3. CASE uid \notin DOMAIN users
    <3>1. uid \in {uid1, uid2} \ DOMAIN users
      BY <1>7, <2>3
    <3>2. users'[uid] = next_rid
      BY <1>7, <3>1
    <3>3. QED BY <1>4, <1>5, <3>1, <3>2
  <2>4. QED BY <2>2, <2>3
<1>9. IdsHandedOut'
  BY <1>1, <1>3, <1>5 DEF Inv, TypeOK, IdsHandedOut, Rids
<1>10. EmptyRoomsRemoved'
  <2>1. removing # next_rid
    BY <1>1 DEF Inv, TypeOK, Rids
  <2>2. QED BY <1>3, <1>4, <1>5, <2>1 DEF Inv, EmptyRoomsRemoved
<1>11. Registry'
  BY <1>1, <1>2, <1>3, <1>5, <1>7, <1>8, <1>9, <1>10 DEF Registry, Inv, TypeOK, Rids
<1>12. Presence'
  <2>1. MatchingTyped'
    BY <1>2, <1>3, InvParts, PairsTyped DEF Presence
  <2>2. QED BY <1>3, <2>1, InvParts DEF Presence, presence, HallRoomExclusive
<1>13. QED BY <1>11, <1>12, InvPartsNext

-----------------------------------------------------------------------------
(* remove_room erases the room and the mappings of both its players; what  *)
(* is left points at rooms that are left.                                  *)
LEMMA RemoveRoomInv ==
    ASSUME Inv, remove_room
    PROVE  Inv'
<1>1. /\ removing # 0
      /\ users' = Erase(users, PlayersOf(rooms[removing]))
      /\ rooms' = Erase(rooms, {removing})
      /\ removing' = 0
      /\ UNCHANGED <<presence, session, next_rid, matching>>
  BY DEF remove_room
<1>2. /\ DOMAIN rooms' = DOMAIN rooms \ {removing}
      /\ rooms' \in [DOMAIN rooms' -> RoomRecords]
      /\ \A rid \in DOMAIN rooms' : rooms'[rid] = rooms[rid]
  BY <1>1 DEF Erase, Inv, TypeOK
<1>3. /\ DOMAIN users' = DOMAIN users \ PlayersOf(rooms[removing])
      /\ users' \in [DOMAIN users' -> Rids]
      /\ \A uid \in DOMAIN users' : users'[uid] = users[uid]
  BY <1>1 DEF Erase, Inv, TypeOK
<1>4. MappingSound'
  <2>1. SUFFICES ASSUME NEW uid \in DOMAIN users'
                 PROVE  users'[uid] \in DOMAIN rooms' /\ uid \in PlayersOf(rooms'[users'[uid]])
    BY DEF MappingSound
  <2>2. uid \in DOMAIN users /\ users'[uid] = users[uid] /\ uid \notin PlayersOf(rooms[removing])
    BY <1>3
  <2>3. users[uid] \in DOMAIN rooms /\ uid \in PlayersOf(rooms[users[uid]])
    BY <2>2 DEF Inv, MappingSound
  <2>4. users[uid] # removing
    BY <2>2, <2>3
  <2>5. QED BY <1>2, <2>2, <2>3, <2>4
<1>5. IdsHandedOut'
  BY <1>1, <1>2 DEF Inv, IdsHandedOut
<1>6. EmptyRoomsRemoved'
  <2>1. SUFFICES ASSUME NEW rid \in DOMAIN rooms'
                 PROVE  rooms'[rid].count # 0 /\ rid # 0
    BY <1>1 DEF EmptyRoomsRemoved
  <2>2. rid \in DOMAIN rooms /\ rid # removing /\ rooms'[rid] = rooms[rid]
    BY <1>2
  <2>3. rooms[rid].count # 0
    BY <2>2 DEF Inv, EmptyRoomsRemoved
  <2>4. rid # 0
    BY <2>2 DEF Inv, TypeOK, Rids
  <2>5. QED BY <2>2, <2>3, <2>4
<1>7. DOMAIN rooms' \subseteq Rids /\ DOMAIN users' \subseteq Users /\ next_rid' \in 1 .. MaxRid + 1
  BY <1>1, <1>2, <1>3 DEF Inv, TypeOK
<1>8. Registry'
  BY <1>1, <1>2, <1>3, <1>4, <1>5, <1>6, <1>7 DEF Registry
<1>9. Presence'
  BY <1>1, InvParts DEF Presence, MatchingTyped, presence, matching, HallRoomExclusive
<1>10. QED BY <1>8, <1>9, InvPartsNext

LEMMA RoundEndsInv ==
    ASSUME Inv, NEW rid \in Rids, RoundEnds(rid)
    PROVE  Inv'
<1> DEFINE rp == RoomWith(rooms[rid].white, rooms[rid].black, rooms[rid].count, GAME_OVER)
<1>1. /\ rid \in DOMAIN rooms
      /\ rooms' = [rooms EXCEPT ![rid] = rp]
      /\ removing = 0
      /\ UNCHANGED <<presence, session, users, next_rid, matching, removing>>
  BY DEF RoundEnds, Reaches, IoIdle
<1>2. rooms[rid] \in RoomRecords /\ rooms[rid].count # 0 /\ rid # 0
  BY <1>1 DEF Inv, TypeOK, EmptyRoomsRemoved, Rids
<1>3. rp \in RoomRecords /\ PlayersOf(rp) = PlayersOf(rooms[rid]) /\ rp.count = rooms[rid].count
  BY <1>2 DEF RoomWith, RoomRecords, PlayersOf
<1> HIDE DEF rp
<1>4. Registry'
  BY <1>1, <1>2, <1>3, InvParts, RoomUpdated
<1>5. Presence'
  BY <1>1, InvParts DEF Presence, MatchingTyped, presence, matching, HallRoomExclusive
<1>6. QED BY <1>4, <1>5, InvPartsNext

LEMMA RematchInv ==
    ASSUME Inv, NEW rid \in Rids, Rematch(rid)
    PROVE  Inv'
<1> DEFINE rp == RoomWith(rooms[rid].black, rooms[rid].white, rooms[rid].count, GAME_START)
<1>1. /\ rid \in DOMAIN rooms
      /\ rooms' = [rooms EXCEPT ![rid] = rp]
      /\ removing = 0
      /\ UNCHANGED <<presence, session, users, next_rid, matching, removing>>
  BY DEF Rematch, Reaches, IoIdle, PlayersOf
<1>2. rooms[rid] \in RoomRecords /\ rooms[rid].count # 0 /\ rid # 0
  BY <1>1 DEF Inv, TypeOK, EmptyRoomsRemoved, Rids
<1>3. rp \in RoomRecords /\ PlayersOf(rp) = PlayersOf(rooms[rid]) /\ rp.count = rooms[rid].count
  BY <1>2 DEF RoomWith, RoomRecords, PlayersOf
<1> HIDE DEF rp
<1>4. Registry'
  BY <1>1, <1>2, <1>3, InvParts, RoomUpdated
<1>5. Presence'
  BY <1>1, InvParts DEF Presence, MatchingTyped, presence, matching, HallRoomExclusive
<1>6. QED BY <1>4, <1>5, InvPartsNext

-----------------------------------------------------------------------------
LEMMA StepInv == Inv /\ [Next]_vars => Inv'
<1>1. SUFFICES ASSUME Inv, [Next]_vars PROVE Inv'
  OBVIOUS
<1>2. CASE \E uid \in Users : login(uid) \/ info(uid) \/ SessionExpires(uid)
  BY <1>1, <1>2, SessionInv
<1>3. CASE \E uid \in Users : wsopen_game_hall(uid) \/ wsopen_game_room(uid)
  BY <1>1, <1>3, OpenHallInv, OpenRoomInv
<1>4. CASE \E uid \in Users : wsclose_game_hall(uid) \/ wsclose_game_room(uid)
  BY <1>1, <1>4, CloseHallInv, CloseRoomInv
<1>5. CASE \E uid \in Users, e \in Endpoints : Drops(uid, e)
  BY <1>1, <1>5, DropsInv
<1>6. CASE \E uid \in Users : match_start(uid) \/ match_stop(uid)
  BY <1>1, <1>6, MatchInv
<1>7. CASE remove_room
  BY <1>1, <1>7, RemoveRoomInv
<1>8. CASE \E rid \in Rids : RoundEnds(rid) \/ Rematch(rid)
  BY <1>1, <1>8, RoundEndsInv, RematchInv
<1>9. CASE \E t \in Threads : handle_match(t)
  BY <1>1, <1>9, HandleMatchInv
<1>10. CASE \E t \in Threads : create_room(t)
  BY <1>1, <1>10, CreateRoomInv
<1>11. CASE UNCHANGED vars
  BY <1>1, <1>11, InvParts, InvPartsNext, RegistryUnchanged, PresenceUnchanged
     DEF vars, Presence
<1>12. QED
  BY <1>1, <1>2, <1>3, <1>4, <1>5, <1>6, <1>7, <1>8, <1>9, <1>10, <1>11 DEF Next

THEOREM Invariant == Spec => []Inv
BY InitInv, StepInv, PTL DEF Spec

(* Rooms, users, sessions, queues and connections keep their types: no     *)
(* counter goes below zero, no map gets a key it should not have.          *)
THEOREM TypeCorrect == Spec => []TypeOK
<1>1. Inv => TypeOK
  BY DEF Inv
<1>2. QED BY <1>1, Invariant, PTL

(* room_manager's two maps agree: a mapped user is a player of a room that *)
(* exists, in every interleaving of create_room, remove_room and rematch.  *)
THEOREM MappingStaysSound == Spec => []MappingSound
<1>1. Inv => MappingSound
  BY DEF Inv
<1>2. QED BY <1>1, Invariant, PTL

(* _rooms holds only ids that create_room has handed out. *)
THEOREM OnlyHandedOutIds == Spec => []IdsHandedOut
<1>1. Inv => IdsHandedOut
  BY DEF Inv
<1>2. QED BY <1>1, Invariant, PTL

(* No user is in the hall and in a room at the same time. *)
THEOREM NeverInBoth == Spec => []HallRoomExclusive
<1>1. Inv => HallRoomExclusive
  BY DEF Inv
<1>2. QED BY <1>1, Invariant, PTL

(* A room whose player count is zero is being removed, and only such a one. *)
THEOREM EmptyRoomsGo == Spec => []EmptyRoomsRemoved
<1>1. Inv => EmptyRoomsRemoved
  BY DEF Inv
<1>2. QED BY <1>1, Invariant, PTL

(* The id of a room that is gone is never given to another room. *)
THEOREM RoomIdsNotReused == Spec => IdsNotReused
<1>1. Inv /\ [Next]_vars =>
        [\A rid \in Rids : GoneForGood(rid) => GoneForGood(rid)']_vars
  <2>1. SUFFICES ASSUME Inv, [Next]_vars, NEW rid \in Rids, rid < next_rid, rid \notin DOMAIN rooms
                 PROVE  rid < next_rid' /\ rid \notin DOMAIN rooms'
    BY DEF GoneForGood
  <2>2. CASE \E t \in Threads : create_room(t)
    <3>1. DOMAIN rooms' \subseteq DOMAIN rooms \cup {next_rid}
      BY <2>2 DEF create_room, Insert
    <3>2. next_rid' = next_rid + 1
      BY <2>2 DEF create_room
    <3>3. QED BY <2>1, <3>1, <3>2 DEF Inv, TypeOK, Rids
  <2>3. CASE ~ \E t \in Threads : create_room(t)
    <3>1. DOMAIN rooms' \subseteq DOMAIN rooms
      <4>1. CASE UNCHANGED rooms
        BY <4>1
      <4>2. CASE \E key, value : rooms' = [rooms EXCEPT ![key] = value]
        BY <2>1, <4>2 DEF Inv, TypeOK
      <4>3. CASE remove_room
        BY <4>3 DEF remove_room, Erase
      <4>4. QED
        BY <2>1, <2>3, <4>1, <4>2, <4>3
           DEF Next, vars, presence, registry, matching, login, info, SessionExpires, Opens, Closes,
               wsopen_game_hall, wsopen_game_room, wsclose_game_hall, wsclose_game_room,
               remove_room_user, match_start, match_stop, Drops, RoundEnds, Rematch, handle_match
    <3>2. next_rid' = next_rid
      BY <2>1, <2>3
         DEF Next, vars, presence, registry, matching, login, info, SessionExpires, Opens, Closes,
             wsopen_game_hall, wsopen_game_room, wsclose_game_hall, wsclose_game_room,
             match_start, match_stop, Drops, remove_room, RoundEnds, Rematch, handle_match
    <3>3. QED BY <2>1, <3>1, <3>2
  <2>4. QED BY <2>2, <2>3
<1>2. QED BY <1>1, Invariant, PTL DEF Spec, IdsNotReused

-----------------------------------------------------------------------------
(* An open adds a connection, and whoever it lets in is its user. *)
LEMMA OpenKeepsPresence ==
    ASSUME Inv, PresenceIsConnected, NEW uid \in Users, NEW e \in Endpoints, Opens(uid, e),
           \A u \in hall' : u \in hall \/ (u = uid /\ e = "hall"),
           \A u \in room' : u \in room \/ (u = uid /\ e = "room")
    PROVE  PresenceIsConnected'
<1>1. opened \in [Users -> [Endpoints -> Nat]] /\ hall \subseteq Users /\ room \subseteq Users
  BY DEF Inv, TypeOK
<1>2. opened' = [opened EXCEPT ![uid] = [opened[uid] EXCEPT ![e] = opened[uid][e] + 1]]
  BY DEF Opens
<1>3. opened[uid][e] \in Nat
  BY <1>1
<1>4. \A u \in Users : \A f \in Endpoints : opened[u][f] > 0 => opened'[u][f] > 0
  BY <1>1, <1>2, <1>3
<1>5. opened'[uid][e] > 0
  BY <1>1, <1>2, <1>3
<1>6. QED BY <1>1, <1>4, <1>5 DEF PresenceIsConnected, Endpoints

(* A connection that leaves the open state takes its user out, unless      *)
(* another connection of that user is open at the same endpoint.           *)
LEMMA DropKeepsPresence ==
    ASSUME Inv, PresenceIsConnected, NEW uid \in Users, NEW e \in Endpoints, Drops(uid, e)
    PROVE  PresenceIsConnected'
<1>1. opened \in [Users -> [Endpoints -> Nat]] /\ hall \subseteq Users /\ room \subseteq Users
  BY DEF Inv, TypeOK
<1>2. opened' = [opened EXCEPT ![uid] = [opened[uid] EXCEPT ![e] = opened[uid][e] - 1]]
  BY DEF Drops
<1>3. \A u \in Users : \A f \in Endpoints :
        opened'[u][f] = IF u = uid /\ f = e THEN opened[u][f] - 1 ELSE opened[u][f]
  BY <1>1, <1>2
<1>4. CASE /\ hall' = IF e = "hall" THEN hall \ {uid} ELSE hall
           /\ room' = IF e = "room" THEN room \ {uid} ELSE room
  BY <1>1, <1>3, <1>4 DEF PresenceIsConnected, Endpoints
<1>5. CASE opened[uid][e] > 1 /\ UNCHANGED <<hall, room>>
  <2>1. \A u \in Users : \A f \in Endpoints : opened[u][f] > 0 => opened'[u][f] > 0
    BY <1>1, <1>3, <1>5
  <2>2. QED BY <1>1, <1>5, <2>1 DEF PresenceIsConnected, Endpoints
<1>6. QED BY <1>4, <1>5 DEF Drops

(* A step that opens and closes nothing, and lets nobody in. *)
LEMMA NobodyEnters ==
    ASSUME PresenceIsConnected, opened' = opened, hall' \subseteq hall, room' \subseteq room
    PROVE  PresenceIsConnected'
BY DEF PresenceIsConnected

LEMMA StepKeepsPresence == Inv /\ PresenceIsConnected /\ [Next]_vars => PresenceIsConnected'
<1>1. SUFFICES ASSUME Inv, PresenceIsConnected, [Next]_vars PROVE PresenceIsConnected'
  OBVIOUS
<1>2. CASE \E uid \in Users : wsopen_game_hall(uid)
  <2>1. PICK uid \in Users : wsopen_game_hall(uid)
    BY <1>2
  <2>2. Opens(uid, "hall") /\ hall' \subseteq hall \cup {uid} /\ room' = room
    BY <2>1 DEF wsopen_game_hall
  <2>3. QED BY <1>1, <2>2, OpenKeepsPresence DEF Endpoints
<1>3. CASE \E uid \in Users : wsopen_game_room(uid)
  <2>1. PICK uid \in Users : wsopen_game_room(uid)
    BY <1>3
  <2>2. Opens(uid, "room") /\ hall' \subseteq hall /\ room' \subseteq room \cup {uid}
    BY <2>1 DEF wsopen_game_room
  <2>3. QED BY <1>1, <2>2, OpenKeepsPresence DEF Endpoints
<1>4. CASE \E uid \in Users, e \in Endpoints : Drops(uid, e)
  BY <1>1, <1>4, DropKeepsPresence
<1>5. CASE \E uid \in Users : wsclose_game_hall(uid) \/ wsclose_game_room(uid)
  <2>1. opened' = opened /\ hall' \subseteq hall /\ room' \subseteq room
    BY <1>5 DEF wsclose_game_hall, wsclose_game_room, Closes
  <2>2. QED BY <1>1, <2>1, NobodyEnters
<1>6. CASE UNCHANGED presence
  BY <1>1, <1>6, NobodyEnters DEF presence
<1>7. QED
  BY <1>1, <1>2, <1>3, <1>4, <1>5, <1>6
     DEF Next, vars, login, info, SessionExpires, match_start, match_stop, remove_room,
         RoundEnds, Rematch, handle_match, create_room

(* Whoever in_game_hall or in_game_room answers true for has a connection  *)
(* open at that endpoint, however connections overlap and handlers lag.    *)
THEOREM PresenceRestsOnConnections == Spec => []PresenceIsConnected
<1>1. Init => PresenceIsConnected
  BY DEF Init, PresenceIsConnected
<1>2. QED BY <1>1, StepKeepsPresence, Invariant, PTL DEF Spec

-----------------------------------------------------------------------------
(* Refinement of RoomLife.  A step touches one room at most.               *)
LEMMA InitLives == Init => Life!Init
BY DEF Init, life, GoneForGood, Life!Init, Life!Unmade, Life!RoomWith, RoomWith, Rids

(* A step of one room, none being handed an id. *)
LEMMA LifeStep ==
    ASSUME NEW rid \in Rids, Life!LivesOn(life[rid], life'[rid]), UNCHANGED next_rid,
           DOMAIN rooms' \ {rid} = DOMAIN rooms \ {rid},
           \A other \in DOMAIN rooms \ {rid} : rooms'[other] = rooms[other]
    PROVE  [Life!Next]_life
<1>1. ASSUME NEW other \in Rids \ {rid} PROVE life'[other] = life[other]
  BY <1>1 DEF life, GoneForGood
<1>2. life' = [life EXCEPT ![rid] = life'[rid]]
  BY <1>1 DEF life
<1>3. QED BY <1>2 DEF Life!Next

(* A step of a room that is there and stays. *)
LEMMA OpenRoomLives ==
    ASSUME Inv, NEW rid \in DOMAIN rooms, NEW rp, rooms' = [rooms EXCEPT ![rid] = rp],
           UNCHANGED next_rid, Life!LivesOn(rooms[rid], rp)
    PROVE  [Life!Next]_life
<1>1. rid \in Rids /\ rooms \in [DOMAIN rooms -> RoomRecords]
  BY DEF Inv, TypeOK
<1>2. /\ DOMAIN rooms' = DOMAIN rooms /\ rooms'[rid] = rp
      /\ \A other \in DOMAIN rooms \ {rid} : rooms'[other] = rooms[other]
  BY <1>1
<1>3. life[rid] = rooms[rid] /\ life'[rid] = rp
  BY <1>1, <1>2 DEF life
<1>4. QED BY <1>1, <1>2, <1>3, LifeStep

LEMMA ExitLives ==
    ASSUME Inv, NEW uid \in Users, wsclose_game_room(uid)
    PROVE  [Life!Next]_life
<1>1. CASE UNCHANGED rooms
  BY <1>1 DEF wsclose_game_room, Closes, life, GoneForGood
<1>2. CASE rooms' # rooms
  <2> DEFINE rid == users[uid]
             rp == RoomWith(rooms[rid].white, rooms[rid].black, rooms[rid].count - 1, GAME_OVER)
  <2>1. rid \in DOMAIN rooms /\ rooms' = [rooms EXCEPT ![rid] = rp] /\ removing = 0
    <3>1. Closes(uid, "room") /\ remove_room_user(uid)
      BY <1>2 DEF wsclose_game_room
    <3>2. removing = 0
      BY <3>1 DEF Closes, IoIdle
    <3>3. rid \in DOMAIN rooms /\ rooms' = [rooms EXCEPT ![rid] = rp]
      BY <1>2, <3>1 DEF remove_room_user, Mapped
    <3>4. QED BY <3>2, <3>3
  <2>2. rooms[rid] \in RoomRecords /\ rooms[rid].count > 0
    <3>1. /\ rid \in Rids /\ rooms[rid] \in RoomRecords
          /\ rooms[rid].count = 0 <=> removing = rid
      BY <2>1 DEF Inv, TypeOK, EmptyRoomsRemoved
    <3>2. QED BY <2>1, <3>1 DEF RoomRecords, Rids
  <2>3. Life!handle_exit(rooms[rid], rp)
    BY <2>2 DEF RoomRecords, RoomWith, Life!handle_exit, Life!RoomWith, Life!GAME_START, Life!GAME_OVER
  <2>4. QED BY <2>1, <2>3, OpenRoomLives DEF Life!LivesOn, wsclose_game_room, Closes
<1>3. QED BY <1>1, <1>2

LEMMA RoundLives ==
    ASSUME Inv, NEW rid \in Rids, RoundEnds(rid) \/ Rematch(rid)
    PROVE  [Life!Next]_life
<1>1. rid \in DOMAIN rooms /\ removing = 0 /\ UNCHANGED next_rid
  BY DEF RoundEnds, Rematch, Reaches, IoIdle, PlayersOf
<1>2. rooms[rid] \in RoomRecords /\ rooms[rid].count > 0
  BY <1>1 DEF Inv, TypeOK, EmptyRoomsRemoved, RoomRecords, Rids
<1>3. CASE RoundEnds(rid)
  <2> DEFINE rp == RoomWith(rooms[rid].white, rooms[rid].black, rooms[rid].count, GAME_OVER)
  <2>1. Life!RoundEnds(rooms[rid], rp) /\ rooms' = [rooms EXCEPT ![rid] = rp]
    BY <1>2, <1>3 DEF RoundEnds, RoomWith, Life!RoundEnds, Life!RoomWith, Life!GAME_START, Life!GAME_OVER
  <2>2. QED BY <1>1, <2>1, OpenRoomLives DEF Life!LivesOn
<1>4. CASE Rematch(rid)
  <2> DEFINE rp == RoomWith(rooms[rid].black, rooms[rid].white, rooms[rid].count, GAME_START)
  <2>1. Life!Rematch(rooms[rid], rp) /\ rooms' = [rooms EXCEPT ![rid] = rp]
    BY <1>2, <1>4 DEF Rematch, RoomWith, Life!Rematch, Life!RoomWith, Life!GAME_START, Life!GAME_OVER
  <2>2. QED BY <1>1, <2>1, OpenRoomLives DEF Life!LivesOn
<1>5. QED BY <1>3, <1>4

(* The id handed out was nobody's, and its life begins. *)
LEMMA CreateLives ==
    ASSUME Inv, NEW t \in Threads, create_room(t)
    PROVE  [Life!Next]_life
<1>1. PICK rp \in Life!NewRooms : rooms' = Insert(rooms, next_rid, rp)
  <2>1. creating[t][1] \in Users /\ creating[t][2] \in Users
    BY DEF Inv, TypeOK, create_room, Matching!Creates, Matching!Found
  <2>2. NewRoom(creating[t][1], creating[t][2]) \in Life!NewRooms
    BY <2>1 DEF NewRoom, RoomWith, Life!NewRooms, Life!RoomWith, Life!GAME_START
  <2>3. QED BY <2>2 DEF create_room
<1>2. /\ next_rid \in Rids /\ next_rid \notin DOMAIN rooms /\ next_rid' = next_rid + 1
      /\ \A rid \in Rids : rid \in Nat
  BY DEF create_room, Inv, TypeOK, IdsHandedOut, Rids
<1>3. /\ DOMAIN rooms' = DOMAIN rooms \cup {next_rid} /\ rooms'[next_rid] = rp
      /\ \A rid \in DOMAIN rooms : rooms'[rid] = rooms[rid]
  BY <1>1, <1>2 DEF Insert
<1>4. life[next_rid] = Life!Unmade /\ life'[next_rid] = rp
  BY <1>2, <1>3 DEF life, GoneForGood, RoomWith, Life!Unmade, Life!RoomWith
<1>5. ASSUME NEW rid \in Rids \ {next_rid} PROVE life'[rid] = life[rid]
  <2>1. rid < next_rid' <=> rid < next_rid
    BY <1>2
  <2>2. rid \in DOMAIN rooms' <=> rid \in DOMAIN rooms
    BY <1>3
  <2>3. QED BY <1>3, <2>1, <2>2 DEF life, GoneForGood
<1>6. life' = [life EXCEPT ![next_rid] = life'[next_rid]]
  BY <1>5 DEF life
<1>7. Life!create_room(life[next_rid], life'[next_rid])
  BY <1>4 DEF Life!create_room
<1>8. QED BY <1>2, <1>6, <1>7 DEF Life!Next, Life!LivesOn

(* No round is under way in a room that counts nobody, because none is in  *)
(* the life of a room.                                                     *)
EmptyIsOver == \A rid \in Rids : life[rid].count = 0 => life[rid].statu # GAME_START

LEMMA EmptyStaysOver ==
    ASSUME EmptyIsOver, [Life!Next]_life
    PROVE  EmptyIsOver'
<1>1. CASE UNCHANGED life
  BY <1>1 DEF EmptyIsOver
<1>2. CASE Life!Next
  <2>1. PICK rid \in Rids : /\ Life!LivesOn(life[rid], life'[rid])
                           /\ life' = [life EXCEPT ![rid] = life'[rid]]
    BY <1>2 DEF Life!Next
  <2>2. life'[rid].count = 0 => life'[rid].statu # GAME_START
    BY <2>1 DEF Life!LivesOn, Life!create_room, Life!RoundEnds, Life!Rematch, Life!handle_exit,
                Life!remove_room, Life!NewRooms, Life!Gone, Life!RoomWith,
                Life!GAME_START, Life!GAME_OVER
  <2>3. \A other \in Rids \ {rid} : life'[other] = life[other]
    BY <2>1 DEF life
  <2>4. QED BY <2>2, <2>3 DEF EmptyIsOver
<1>3. QED BY <1>1, <1>2

(* The room that is removed counts nobody. *)
LEMMA RemoveLives ==
    ASSUME Inv, EmptyIsOver, remove_room
    PROVE  [Life!Next]_life
<1>1. /\ removing \in DOMAIN rooms /\ removing \in Rids /\ rooms[removing].count = 0
      /\ rooms[removing] \in RoomRecords /\ removing < next_rid
  BY DEF remove_room, Inv, TypeOK, EmptyRoomsRemoved, IdsHandedOut
<1>2. /\ DOMAIN rooms' = DOMAIN rooms \ {removing} /\ UNCHANGED next_rid
      /\ \A rid \in DOMAIN rooms \ {removing} : rooms'[rid] = rooms[rid]
  BY DEF remove_room, Erase
<1>3. life[removing] = rooms[removing] /\ life'[removing] = Life!Gone
  BY <1>1, <1>2 DEF life, GoneForGood, RoomWith, Life!Gone, Life!RoomWith
<1>4. rooms[removing].statu = GAME_OVER
  BY <1>1, <1>3 DEF EmptyIsOver, RoomRecords
<1>5. Life!remove_room(life[removing], life'[removing])
  BY <1>1, <1>3, <1>4 DEF Life!remove_room, Life!GAME_OVER
<1>6. QED BY <1>1, <1>2, <1>5, LifeStep DEF Life!LivesOn

LEMMA StepLives == Inv /\ EmptyIsOver /\ [Next]_vars => [Life!Next]_life
<1>1. SUFFICES ASSUME Inv, EmptyIsOver, [Next]_vars PROVE [Life!Next]_life
  OBVIOUS
<1>2. ASSUME UNCHANGED <<rooms, next_rid>> PROVE UNCHANGED life
  BY <1>2 DEF life, GoneForGood
<1>3. CASE UNCHANGED vars
  BY <1>2, <1>3 DEF vars, registry
<1>4. ASSUME NEW uid \in Users, NEW e \in Endpoints,
             \/ login(uid) \/ info(uid) \/ SessionExpires(uid)
             \/ wsopen_game_hall(uid) \/ wsopen_game_room(uid) \/ wsclose_game_hall(uid)
             \/ match_start(uid) \/ match_stop(uid) \/ Drops(uid, e)
      PROVE  UNCHANGED life
  BY <1>2, <1>4
     DEF login, info, SessionExpires, Opens, wsopen_game_hall, wsopen_game_room, Closes,
         wsclose_game_hall, match_start, match_stop, Drops, registry
<1>5. ASSUME NEW t \in Threads, handle_match(t)
      PROVE  UNCHANGED life
  BY <1>2, <1>5 DEF handle_match, registry
<1>6. QED
  BY <1>1, <1>3, <1>4, <1>5, ExitLives, RoundLives, CreateLives, RemoveLives DEF Next, Endpoints

(* The rooms of the room manager live as RoomLife allows, with any number  *)
(* of users, threads and connections: together with the theorem of the     *)
(* same kind about Room, this is where the two modules meet.               *)
THEOREM RoomsLiveAsSeen == Spec => RoomsLive
<1>1. Init => EmptyIsOver
  BY DEF Init, life, EmptyIsOver, RoomWith, GoneForGood
<1>2. Inv /\ EmptyIsOver /\ [Next]_vars => EmptyIsOver'
  BY StepLives, EmptyStaysOver
<1>3. QED BY <1>1, <1>2, InitLives, StepLives, Invariant, PTL DEF Spec, RoomsLive, Life!Spec
=============================================================================
