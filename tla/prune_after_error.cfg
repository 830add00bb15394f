SPECIFICATION Spec
CONSTANTS
    MaxPosition = 3
    Retention <- BlocksFirst
    None = None
    BlocksTable = TRUE
    RejectedTransactions = TRUE
    MaxErrors = 1
    MaxPanics = 0
    MaxRestarts = 0
INVARIANTS
    SuccessMeansPruned
CHECK_DEADLOCK FALSE
