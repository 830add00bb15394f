SPECIFICATION FairSpec
CONSTANTS
    Blocks = {1, 2, 3}
    Txs = {1}
    Past <- Merge
    TxsOf <- MergeTxs
    BlueScore <- MergeScore
    NoBlock = NoBlock
    StartPoints = {1}
    Disable = {"BlockParentTable", "TransactionsTable"}
    QueueCap = 1
    CheckpointCap = 6
    BlockBatch = 2
    TxBatch = 1
    FailedTimeout = 0
    CacheExpires = FALSE
    MaxRestarts = 0
    Signals = TRUE
PROPERTIES
    ResponseHandled
    ShutdownCompletes
CHECK_DEADLOCK FALSE
