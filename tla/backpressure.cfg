SPECIFICATION FairSpec
CONSTANTS
    MaxTip = 7
    Daa <- Scores
    Spread = 1
    QueueCap = 3
    BlockBatch = 2
    TxBatch = 2
    TxLag = 2
    VcpLead = 3
    NetBps = 1
    WarnLag = 3
    CheckpointWarnLag = 4
    DownLag = 5
    Disable = {}
INVARIANTS
    TypeOK
    NoCircularWait
    HealthTruthful
PROPERTIES
    FetcherResumes
CHECK_DEADLOCK FALSE
