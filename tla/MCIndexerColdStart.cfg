SPECIFICATION FairSpec
CONSTANTS
    w1 = w1
    w2 = w2
    nobody = nobody
    i1 = i1
    i2 = i2
    Wallets = {w1, w2}
    NoOne = nobody
    Identities = {}
    Countries = {}
    Amounts = {1}
    Uris = {}
    Traffic = {"mint"}
    MaxUnits = 1
    MaxBlocks = 3
    MaxLogs = 2
    CountModulus = 8
    StartBlock = 1
    ChunkSize = 1
    MaxRetries = 1
    MaxErrors = 0
    MaxCrashes = 0
CHECK_DEADLOCK FALSE
PROPERTIES
    IndexesTheChain
