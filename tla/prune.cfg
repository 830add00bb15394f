SPECIFICATION FairSpec
CONSTANTS
    MaxPosition = 2
    Retention <- AtOnce
    None = None
    BlocksTable = TRUE
    RejectedTransactions = FALSE
    MaxErrors = 1
    MaxPanics = 1
    MaxRestarts = 1
INVARIANTS
    TypeOK
    YoungRowsKept
    JoinedRowsFirst
    CleanRunsPrune
PROPERTIES
    ExpiredDeleted
CHECK_DEADLOCK FALSE
