SPECIFICATION Spec
CONSTANTS
    Users = {u1, u2}
    Threads = {t1}
    MaxRid = 2
    EnterTwice = FALSE
    MaxHall = 1
    MaxRoom = 2
    MaxConns = 2
SYMMETRY Symmetry
INVARIANTS
    TypeOK
    MappingSound
    HallRoomExclusive
    PresenceIsConnected
    EmptyRoomsRemoved
PROPERTIES
    RoomsLive
