SPECIFICATION RulesSpec
CONSTANTS
    w1 = w1
    w2 = w2
    w3 = w3
    own = own
    Wallets = {w1, w2, w3}
    Owner = own
    ModuleOwner = own
    Issuers = {}
    TransferAgents = {}
    RecoveryAgents = {}
    ComplianceAdmins = {}
    Pausers = {}
    MaxAssets = 1
    Amounts = {1, 2}
    MaxUint = 3
    Caps = {0}
    MaxTime = 2
    Countries = {55}
    Modules = {"MaxBalance", "MaxHolders", "CountryRestrict", "ProducerKyc", "CprLockup"}
    HoldingLimits = {0, 2}
    HolderLimits = {0, 2}
    FrozenAmounts = {}
    Expiries = {2}
SYMMETRY Symmetry
INVARIANTS
    HolderCountAccuracy
PROPERTIES
    HolderLimitBinds
    HoldingLimitBinds
    PartyRulesBind
    TransfersAreGifts
