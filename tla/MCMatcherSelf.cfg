SPECIFICATION Spec
CONSTANTS
    Users = {u1, u2}
    Pools = 1
    MaxEntries = 2
INVARIANTS
    TwoPlayers
