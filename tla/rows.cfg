CONSTANTS
    Null = Null
    NoRow = NoRow
    Nobody = Nobody
    SubnetworkBytes = 3
    I32Half = 1048576
    Transaction <- ThreeTransactions
    ProcessedBatch <- ProcessedIds
    AcceptedBatch <- AcceptedIds
    Cutoff = 3
    CliArgs <- Lines
    ChunkSize = 2
    BatchConcurrency = 1
    DEADLOCK_MAX_ATTEMPTS = 2
    MaxCrashes = 1

SPECIFICATION Spec

INVARIANTS
    TypeOK
    WritersNeverDeadlock
    ReadsBack
    SelfSendsIgnored
    AcceptedStored
    PartiesRecorded

PROPERTIES
    InputsStayResolved
    WritersFinish

CHECK_DEADLOCK FALSE
