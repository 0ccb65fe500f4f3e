SPECIFICATION FairSpec
CONSTANTS
    w1 = w1
    w2 = w2
    nobody = nobody
    i1 = i1
    i2 = i2
    Wallets = {w1, w2}
    NoOne = nobody
    Identities = {}
    Countries = {}
    Amounts = {1}
    Uris = {}
    Traffic = {"mintUnit", "transfer", "batchTransfer", "freeze"}
    MaxUnits = 1
    MaxBlocks = 2
    MaxLogs = 2
    CountModulus = 8
    StartBlock = 1
    ChunkSize = 1
    MaxRetries = 1
    MaxErrors = 1
    MaxCrashes = 1
CHECK_DEADLOCK FALSE
INVARIANTS
    AtMostOneLogAhead
    EventIndexResolves
PROPERTIES
    CursorNeverGoesBack
    KeepsUp
