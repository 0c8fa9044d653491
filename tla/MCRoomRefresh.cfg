SPECIFICATION Spec
CONSTANTS
    BOARD_ROW = 1
    BOARD_COL = 5
    FIVE = 3
    UID1 = 1
    UID2 = 2
    Stranger = 3
    TOTAL_INIT_MS = 3
    STEP_INIT_MS = 2
    TIMEOUT_TOLERANCE_MS = 1
    MaxRounds = 2
    MaxConns = 1
    SessionCanExpire = FALSE
INVARIANTS
    RemovedOnlyWhenEmpty
CHECK_DEADLOCK FALSE
