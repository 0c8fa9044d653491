SPECIFICATION SpectateSpec
CONSTANTS
    BOARD_ROW = 1
    BOARD_COL = 3
    FIVE = 2
    UID1 = 1
    UID2 = 2
    Stranger = 3
    TOTAL_INIT_MS = 2
    STEP_INIT_MS = 1
    TIMEOUT_TOLERANCE_MS = 0
    MaxRounds = 2
    MaxConns = 1
    SessionCanExpire = TRUE
    Tabs = {t1, t2}
INVARIANTS
    SpectateTypeOK
    SpectatorFollows
    ClockOfMover
PROPERTIES
    RoomLives
CHECK_DEADLOCK FALSE
