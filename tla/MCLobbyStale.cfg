SPECIFICATION Spec
CONSTANTS
    Users = {u1, u2, u3}
    Threads = {t1}
    MaxRid = 2
    EnterTwice = FALSE
    MaxHall = 1
    MaxRoom = 1
    MaxConns = 2
SYMMETRY Symmetry
PROPERTIES
    CreatedRoomIsMapped
