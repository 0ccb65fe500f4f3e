SPECIFICATION Spec
CONSTANTS
    w1 = w1
    w2 = w2
    w3 = w3
    nobody = nobody
    usd = usd
    grain = grain
    Wallets = {w1, w2, w3}
    NoOne = nobody
    Rewards = {usd}
    MaxRewardAssets = 1
    PRECISION = 2
    Amounts = {1, 2}
    Deposits = {2}
    MaxSupply = 2
    MaxAcc = 6
    MaxPending = 4
SYMMETRY Symmetry
INVARIANTS
    TypeOK
    DebtsAreCovered
    ClaimsAreFunded
PROPERTIES
    ImplementsYieldLedger
