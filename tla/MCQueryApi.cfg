SPECIFICATION FocusedSpec
CONSTANTS
    w1 = w1
    w2 = w2
    nobody = nobody
    i1 = i1
    Wallets = {w1, w2}
    NoOne = nobody
    Identities = {i1}
    Countries = {1, 2}
    Amounts = {1, 2}
    Uris = {1, 2}
    Traffic <- AllTraffic
    MaxUnits = 2
    MaxBlocks = 3
    MaxLogs = 3
    CountModulus = 8
    StartBlock = 1
    ChunkSize = 0
    MaxRetries = 0
    MaxErrors = 1
    MaxCrashes = 0
    EventTypes = {"AssetPaused", "RoleGranted"}
    Limits = {1, 2}
    Overscan = 2
SYMMETRY Symmetry
CHECK_DEADLOCK FALSE
INVARIANTS
    TypeOK
    BalanceAnswersMatchChain
    CursorBlocksAreIndexed
    IdentityAnswersMatchChain
    FrozenWalletsMatchChain
    AssetAnswersMatchChain
    EventAnswersComplete
    CountryAnswersMissNobody
