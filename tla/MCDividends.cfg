SPECIFICATION Spec
CONSTANTS
    w1 = w1
    w2 = w2
    w3 = w3
    ether = ether
    usd = usd
    Wallets = {w1, w2, w3}
    Ether = ether
    Tokens = {ether, usd}
    Amounts = {1}
    Payouts = {2, 3}
    MaxSupply = 3
    MaxSnapshots = 1
    MaxDividends = 2
SYMMETRY Symmetry
INVARIANTS
    TypeOK
    ClaimsAreCovered
PROPERTIES
    ImplementsDividendRegister
