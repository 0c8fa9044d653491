SPECIFICATION FairSpec
CONSTANTS
    Users = {u1, u2, u3}
    Pools = 2
    MaxEntries = 1
INVARIANTS
    TypeOK
    AskedIsWaiting
PROPERTIES
    WaitersMeet
    ImplementsMatchmaking
