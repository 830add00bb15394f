SPECIFICATION FairSpec
CONSTANTS
    Blocks = {1, 2, 3, 4}
    Txs = {1, 2}
    Chain <- Branches
    Accepts <- BranchAccepts
    BlueScore <- Heights
    NoBlock = NoBlock
    StartPoints = {1}
    IgnoreCheckpoints = {3}
    InitialDistance = 1
    TipDistances = {0, 1}
    Disable = {"TransactionAcceptance", "TransactionsTable"}
    Crashes = TRUE
    SaveFails = TRUE
    MaxRestarts = 2
    Signals = TRUE
INVARIANTS
    MarksExact
PROPERTIES
    ShutdownCompletes
    ChainFollowed
CHECK_DEADLOCK FALSE
