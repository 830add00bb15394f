SPECIFICATION Spec
CONSTANTS
    Blocks = {1, 2, 3, 4}
    Txs = {1, 2}
    Chain <- Branches
    Accepts <- BranchAccepts
    BlueScore <- Heights
    NoBlock = NoBlock
    StartPoints = {1}
    IgnoreCheckpoints = {}
    InitialDistance = 0
    TipDistances = {0}
    Disable = {"TransactionAcceptance", "TransactionsTable"}
    Crashes = TRUE
    SaveFails = FALSE
    MaxRestarts = 1
    Signals = FALSE
INVARIANTS
    MarksAreChainBlocks
CHECK_DEADLOCK FALSE
