SPECIFICATION FairSpec
CONSTANTS
    Users = {u1, u2}
    MaxSsid = 2
    MaxTimers = 2
    MaxConns = 1
    MaxRestarts = 1
INVARIANTS
    TypeOK
    SessionsWatched
PROPERTIES
    LoginReplacesNobody
    KeptStays
    SessionsEnd
CHECK_DEADLOCK FALSE
