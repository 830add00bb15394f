SPECIFICATION FairSpec
CONSTANTS
    NoRows = {}
    Databases = {0, 1, 24}
    Flags <- AllFlags
    Tasks = {"webserver", "block_fetcher", "process_blocks", "process_checkpoints", "pruner"}
    PruneDb = TRUE
    MaxStarts = 2
INVARIANTS
    UpgradeIsComplete
    DataKept
    
PROPERTIES
    ShutdownEndsProcess
    PanicEndsProcess
CHECK_DEADLOCK FALSE
