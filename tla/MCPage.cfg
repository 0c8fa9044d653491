SPECIFICATION PageFairSpec
CONSTANTS
    BOARD_ROW = 1
    BOARD_COL = 2
    FIVE = 2
    UID1 = 1
    UID2 = 2
    Stranger = 3
    TOTAL_INIT_MS = 1
    STEP_INIT_MS = 2
    TIMEOUT_TOLERANCE_MS = 0
    MaxRounds = 2
    MaxConns = 1
    SessionCanExpire = FALSE
    MaxInbox = 2
    MaxOutbox = 1
INVARIANTS
    PageTypeOK
    PageFollows
    EndIsSeen
    ReportCounts
    InvitationShown
    AbsentMeansLeaving
PROPERTIES
    BlackOpens
    RoundEnds
CHECK_DEADLOCK FALSE
