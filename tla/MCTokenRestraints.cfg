SPECIFICATION RestraintSpec
CONSTANTS
    w1 = w1
    w2 = w2
    w3 = w3
    own = own
    Wallets = {w1, w2}
    Owner = own
    ModuleOwner = own
    Issuers = {}
    TransferAgents = {}
    RecoveryAgents = {}
    ComplianceAdmins = {}
    Pausers = {}
    MaxAssets = 1
    Amounts = {1, 2}
    MaxUint = 3
    Caps = {0}
    MaxTime = 2
    Countries = {}
    Modules = {}
    HoldingLimits = {}
    HolderLimits = {}
    FrozenAmounts = {0, 2}
    Expiries = {0, 2}
SYMMETRY Symmetry
PROPERTIES
    ImplementsShareRegister
    TransfersAreGifts
