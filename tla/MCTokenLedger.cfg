SPECIFICATION FocusedSpec
CONSTANTS
    w1 = w1
    w2 = w2
    w3 = w3
    own = own
    Wallets = {w1, w2, w3}
    Owner = own
    ModuleOwner = own
    Issuers = {}
    TransferAgents = {}
    RecoveryAgents = {}
    ComplianceAdmins = {}
    Pausers = {}
    MaxAssets = 3
    Amounts = {0, 1, 2}
    MaxUint = 2
    Caps = {0, 1}
    MaxTime = 1
    Countries = {}
    Modules = {}
    HoldingLimits = {}
    HolderLimits = {}
    FrozenAmounts = {}
    Expiries = {}
    MaxGroups = 2
    UnitLimits = {0, 1}
SYMMETRY Symmetry
INVARIANTS
    TypeOK
    SupplyIsSumOfBalances
    HoldersAreFlagged
    UnitsAgree
PROPERTIES
    GrowthWithinCap
