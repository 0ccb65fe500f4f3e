SPECIFICATION FocusedSpec
CONSTANTS
    a1 = a1
    a2 = a2
    nobody = nobody
    w1 = w1
    w2 = w2
    i1 = i1
    i2 = i2
    none = none
    k1 = k1
    k2 = k2
    s1 = s1
    Accounts = {a1, a2}
    NoAccount = nobody
    Wallets = {w1, w2}
    Identities = {i1, i2}
    NoIdentity = none
    Countries = {1}
    ClaimTopics = {k1, k2}
    ClaimIssuers = {s1}
    MaxProfiles = 1
    MaxVersion = 3
SYMMETRY Symmetry
CHECK_DEADLOCK FALSE
INVARIANTS
    TypeOK
    HitsAreFresh
    NominationIsTheOwners
PROPERTIES
    DutiesAreSeparate
