SPECIFICATION Spec
CONSTANTS
    BOARD_ROW = 15
    BOARD_COL = 15
    FIVE = 5
    Samples = {0, 3, 7, 14}
INVARIANTS
    CheckWinFindsRows
CHECK_DEADLOCK FALSE
