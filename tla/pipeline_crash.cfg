SPECIFICATION Spec
CONSTANTS
    Blocks = {1, 2, 3}
    Txs = {1}
    Past <- Merge
    TxsOf <- MergeTxs
    BlueScore <- MergeScore
    NoBlock = NoBlock
    StartPoints = {1, 2}
    Disable = {}
    QueueCap = 1
    CheckpointCap = 1
    BlockBatch = 2
    TxBatch = 2
    FailedTimeout = 0
    CacheExpires = FALSE
    MaxRestarts = 1
    Signals = FALSE
INVARIANTS
    TypeOK
    CheckpointSafe
    LowHashCovered
    ParentRowsHaveBlock
PROPERTIES
    ImplementsIndex
CHECK_DEADLOCK FALSE
