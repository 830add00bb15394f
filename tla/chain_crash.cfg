SPECIFICATION Spec
CONSTANTS
    Blocks = {1, 2, 3, 4}
    Txs = {1, 2}
    Chain <- Branches
    Accepts <- BranchAccepts
    BlueScore <- Heights
    NoBlock = NoBlock
    StartPoints = {1}
    IgnoreCheckpoints = {3}
    InitialDistance = 0
    TipDistances = {0}
    Disable = {}
    Crashes = TRUE
    SaveFails = TRUE
    MaxRestarts = 2
    Signals = FALSE
INVARIANTS
    TypeOK
    AcceptancesExact
    VcpCheckpointSafe
    AcceptedResolved
PROPERTY ImplementsChainIndex
CHECK_DEADLOCK FALSE
