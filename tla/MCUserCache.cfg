SPECIFICATION FairSpec
CONSTANTS
    Users = {u1}
    Threads = {io, m1, m2}
    Io = io
    InitialScore = 40
    MaxGames = 2
INVARIANTS
    TypeOK
    EntriesExpire
    StaleExplained
PROPERTIES
    CacheCatchesUp
