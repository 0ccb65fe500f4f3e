--------------------------- MODULE RegulatedToken ---------------------------
(***************************************************************************)
(* The regulated ERC-1155 token of the diamond: ERC1155Facet, SupplyFacet, *)
(* AssetManagerFacet, FreezeFacet, PauseFacet, EmergencyFacet and          *)
(* RecoveryFacet over the storage of TokenState, with the compliance       *)
(* modules consulted where the code consults them.                         *)
(*                                                                         *)
(* One action is one external call of the diamond that does not revert; a  *)
(* call that reverts leaves the state as it was.  Batches have two items,  *)
(* each validated and executed on the state the item before it left.       *)
(* Plugin hooks are the business of YieldDistributor; the ERC-1155         *)
(* receiver callback comes after every write of the call, so whatever a    *)
(* receiver does there is the next call.                                   *)
(***************************************************************************)
EXTENDS ComplianceModules, Functions

Init ==
    /\ registered = 0
    /\ asset = [id \in AssetIds |-> [paused |-> FALSE, cap |-> 0, modules |-> {}]]
    /\ ledger = [id \in AssetIds |-> EmptyLedger]
    /\ globalPaused = FALSE
    /\ globalFreeze = {}
    /\ assetFreeze = [id \in AssetIds |-> {}]
    /\ frozenAmount = [id \in AssetIds |-> [w \in Wallets |-> 0]]
    /\ lockupExpiry = [id \in AssetIds |-> [w \in Wallets |-> 0]]
    /\ approvals = {}
    /\ identified = {}
    /\ country = [w \in Wallets |-> NoCountry]
    /\ rules = [id \in AssetIds |-> NoRules]
    /\ now = 1

-----------------------------------------------------------------------------
(* AssetManagerFacet *)

RegisterAsset(caller, cap, modules) ==
    /\ caller \in ComplianceAdminOrOwner
    /\ registered < MaxAssets
    /\ registered' = registered + 1
    /\ asset' = [asset EXCEPT ![registered + 1] =
                    [paused |-> FALSE, cap |-> cap, modules |-> modules]]
    /\ UNCHANGED <<ledger, restrainVars, partyVars, rules, now>>

AddComplianceModule(caller, id, m) ==
    /\ caller \in ComplianceAdminOrOwner
    /\ Registered(id)
    /\ m \notin asset[id].modules
    /\ asset' = [asset EXCEPT ![id].modules = @ \cup {m}]
    /\ UNCHANGED <<registered, ledger, restrainVars, partyVars, rules, now>>

RemoveComplianceModule(caller, id, m) ==
    /\ caller \in ComplianceAdminOrOwner
    /\ Registered(id)
    /\ m \in asset[id].modules
    /\ asset' = [asset EXCEPT ![id].modules = @ \ {m}]
    /\ UNCHANGED <<registered, ledger, restrainVars, partyVars, rules, now>>

SetComplianceModules(caller, id, modules) ==
    /\ caller \in ComplianceAdminOrOwner
    /\ Registered(id)
    /\ asset' = [asset EXCEPT ![id].modules = modules]
    /\ UNCHANGED <<registered, ledger, restrainVars, partyVars, rules, now>>

\* Nothing compares the new cap with the supply already minted.
SetSupplyCap(caller, id, cap) ==
    /\ caller \in ComplianceAdminOrOwner
    /\ Registered(id)
    /\ asset' = [asset EXCEPT ![id].cap = cap]
    /\ UNCHANGED <<registered, ledger, restrainVars, partyVars, rules, now>>

-----------------------------------------------------------------------------
(* SupplyFacet *)

AssetActive(id) == ~globalPaused /\ Registered(id) /\ ~asset[id].paused

\* The guards of mint, over the ledger l that an earlier item of a batch left.
MintAllowed(id, l, to, n) ==
    /\ AssetActive(id)
    /\ asset[id].cap # 0 => l.supply + n <= asset[id].cap
    /\ to \notin globalFreeze
    /\ to \notin assetFreeze[id]

Mint(caller, id, to, n) ==
    /\ caller \in IssuerOrOwner
    /\ MintAllowed(id, ledger[id], to, n)
    /\ ledger' = [ledger EXCEPT ![id] = Minted(@, to, n)]
    /\ Fits(ledger'[id])
    /\ UNCHANGED <<registered, asset, restrainVars, partyVars, rules, now>>

\* Mutant: every item is validated before the first is executed.
BatchMintValidatedUpFront(caller, id1, to1, n1, id2, to2, n2) ==
    /\ caller \in IssuerOrOwner
    /\ MintAllowed(id1, ledger[id1], to1, n1)
    /\ MintAllowed(id2, ledger[id2], to2, n2)
    /\ ledger' = [[ledger EXCEPT ![id1] = Minted(@, to1, n1)]
                    EXCEPT ![id2] = Minted(@, to2, n2)]
    /\ \A id \in AssetIds : Fits(ledger'[id])
    /\ UNCHANGED <<registered, asset, restrainVars, partyVars, rules, now>>

BatchMint(caller, id1, to1, n1, id2, to2, n2) ==
    LET first == [ledger EXCEPT ![id1] = Minted(@, to1, n1)]
    IN /\ caller \in IssuerOrOwner
       /\ MintAllowed(id1, ledger[id1], to1, n1)
       /\ Fits(first[id1])
       /\ MintAllowed(id2, first[id2], to2, n2)
       /\ ledger' = [first EXCEPT ![id2] = Minted(@, to2, n2)]
       /\ Fits(ledger'[id2])
       /\ UNCHANGED <<registered, asset, restrainVars, partyVars, rules, now>>

\* Mutant: the balance is not compared, and the subtraction is unchecked.
BurnUnchecked(caller, id, from, n) ==
    /\ caller \in IssuerOrOwner
    /\ AssetActive(id)
    /\ ledger' = [ledger EXCEPT ![id] = Burned(@, from, n)]
    /\ UNCHANGED <<registered, asset, restrainVars, partyVars, rules, now>>

Burn(caller, id, from, n) ==
    /\ caller \in IssuerOrOwner
    /\ AssetActive(id)
    /\ n <= Available(ledger[id], from, frozenAmount[id][from])
    /\ ledger' = [ledger EXCEPT ![id] = Burned(@, from, n)]
    /\ Fits(ledger'[id])
    /\ UNCHANGED <<registered, asset, restrainVars, partyVars, rules, now>>

\* The agent is the authority behind freezes and lockups, so none is looked at.
ForcedTransfer(caller, id, from, to, n) ==
    /\ caller \in TransferAgentOrOwner
    /\ AssetActive(id)
    /\ n <= ledger[id].free[from]
    /\ ledger' = [ledger EXCEPT ![id] = Moved(@, from, to, n)]
    /\ Fits(ledger'[id])
    /\ UNCHANGED <<registered, asset, restrainVars, partyVars, rules, now>>

-----------------------------------------------------------------------------
(* ERC1155Facet *)

SetApprovalForAll(holder, operator, approved) ==
    /\ operator # holder
    /\ approvals' = IF approved THEN approvals \cup {<<holder, operator>>}
                    ELSE approvals \ {<<holder, operator>>}
    /\ UNCHANGED <<ledgerVars, restrainVars, identified, country, rules, now>>

Approved(operator, from) == operator = from \/ <<from, operator>> \in approvals

\* _enforceApproval and _validateGlobal: looked at once per call.
TransferOpen(operator, from, to) ==
    /\ Approved(operator, from)
    /\ ~globalPaused
    /\ from \notin globalFreeze
    /\ to \notin globalFreeze

\* Mutant: the lockup ends with the instant it names.
LockedUpUntil(id, w) == lockupExpiry[id][w] # 0 /\ lockupExpiry[id][w] > now

LockedUp(id, w) == lockupExpiry[id][w] # 0 /\ lockupExpiry[id][w] >= now

\* _validatePerToken, over the ledger l that an earlier item of a batch left.
TransferAllowed(id, l, from, to, n) ==
    /\ Registered(id) /\ ~asset[id].paused
    /\ from \notin assetFreeze[id]
    /\ to \notin assetFreeze[id]
    /\ ~LockedUp(id, from)
    /\ n <= Available(l, from, frozenAmount[id][from])
    /\ CanTransfer(id, l, from, to, n)

SafeTransferFrom(operator, from, to, id, n) ==
    /\ TransferOpen(operator, from, to)
    /\ TransferAllowed(id, ledger[id], from, to, n)
    /\ ledger' = [ledger EXCEPT ![id] = Moved(@, from, to, n)]
    /\ Fits(ledger'[id])
    /\ UNCHANGED <<registered, asset, restrainVars, partyVars, rules, now>>

\* Mutant: every item is validated before the first is executed.
SafeBatchValidatedUpFront(operator, from, to, id1, n1, id2, n2) ==
    /\ TransferOpen(operator, from, to)
    /\ TransferAllowed(id1, ledger[id1], from, to, n1)
    /\ TransferAllowed(id2, ledger[id2], from, to, n2)
    /\ n1 + n2 <= ledger[id1].free[from]
    /\ ledger' = [[ledger EXCEPT ![id1] = Moved(@, from, to, n1)]
                    EXCEPT ![id2] = Moved(@, from, to, n2)]
    /\ UNCHANGED <<registered, asset, restrainVars, partyVars, rules, now>>

\* Steps 1-3 once, then each item on what the item before it left.
SafeBatchTransferFrom(operator, from, to, id1, n1, id2, n2) ==
    LET first == [ledger EXCEPT ![id1] = Moved(@, from, to, n1)]
    IN /\ TransferOpen(operator, from, to)
       /\ TransferAllowed(id1, ledger[id1], from, to, n1)
       /\ Fits(first[id1])
       /\ TransferAllowed(id2, first[id2], from, to, n2)
       /\ ledger' = [first EXCEPT ![id2] = Moved(@, from, to, n2)]
       /\ Fits(ledger'[id2])
       /\ UNCHANGED <<registered, asset, restrainVars, partyVars, rules, now>>

-----------------------------------------------------------------------------
(* FreezeFacet: settings of the agent, whether or not the tokenId exists *)

SetWalletFrozen(caller, w, frozen) ==
    /\ caller \in TransferAgentOrOwner
    /\ globalFreeze' = IF frozen THEN globalFreeze \cup {w} ELSE globalFreeze \ {w}
    /\ UNCHANGED <<ledgerVars, globalPaused, assetFreeze, frozenAmount, lockupExpiry,
                   partyVars, rules, now>>

SetAssetWalletFrozen(caller, id, w, frozen) ==
    /\ caller \in TransferAgentOrOwner
    /\ assetFreeze' = [assetFreeze EXCEPT ![id] = IF frozen THEN @ \cup {w} ELSE @ \ {w}]
    /\ UNCHANGED <<ledgerVars, globalPaused, globalFreeze, frozenAmount, lockupExpiry,
                   partyVars, rules, now>>

SetFrozenAmount(caller, id, w, n) ==
    /\ caller \in TransferAgentOrOwner
    /\ frozenAmount' = [frozenAmount EXCEPT ![id][w] = n]
    /\ UNCHANGED <<ledgerVars, globalPaused, globalFreeze, assetFreeze, lockupExpiry,
                   partyVars, rules, now>>

SetLockupExpiry(caller, id, w, expiry) ==
    /\ caller \in TransferAgentOrOwner
    /\ lockupExpiry' = [lockupExpiry EXCEPT ![id][w] = expiry]
    /\ UNCHANGED <<ledgerVars, globalPaused, globalFreeze, assetFreeze, frozenAmount,
                   partyVars, rules, now>>

-----------------------------------------------------------------------------
(* PauseFacet and EmergencyFacet *)

PauseProtocol(caller) ==
    /\ caller = Owner
    /\ ~globalPaused
    /\ globalPaused' = TRUE
    /\ UNCHANGED <<ledgerVars, globalFreeze, assetFreeze, frozenAmount, lockupExpiry,
                   partyVars, rules, now>>

EmergencyPause(caller) ==
    /\ caller \in PauserOrOwner
    /\ ~globalPaused
    /\ globalPaused' = TRUE
    /\ UNCHANGED <<ledgerVars, globalFreeze, assetFreeze, frozenAmount, lockupExpiry,
                   partyVars, rules, now>>

UnpauseProtocol(caller) ==
    /\ caller = Owner
    /\ globalPaused
    /\ globalPaused' = FALSE
    /\ UNCHANGED <<ledgerVars, globalFreeze, assetFreeze, frozenAmount, lockupExpiry,
                   partyVars, rules, now>>

\* pauseAsset and unpauseAsset: each refuses the state the asset is already in.
SetAssetPaused(caller, id, paused) ==
    /\ caller \in PauserOrOwner
    /\ Registered(id)
    /\ asset[id].paused # paused
    /\ asset' = [asset EXCEPT ![id].paused = paused]
    /\ UNCHANGED <<registered, ledger, restrainVars, partyVars, rules, now>>

-----------------------------------------------------------------------------
(* IdentityRegistryFacet, as far as the compliance modules read it *)

RegisterIdentity(caller, w, c) ==
    /\ caller \in TransferAgentOrOwner
    /\ w \notin identified
    /\ identified' = identified \cup {w}
    /\ country' = [country EXCEPT ![w] = c]
    /\ UNCHANGED <<ledgerVars, restrainVars, approvals, rules, now>>

\* batchRegisterIdentity: a wallet listed twice is already registered the second time.
BatchRegisterIdentity(caller, w, c, v, d) ==
    /\ caller \in TransferAgentOrOwner
    /\ w # v
    /\ identified \cap {w, v} = {}
    /\ identified' = identified \cup {w, v}
    /\ country' = [[country EXCEPT ![w] = c] EXCEPT ![v] = d]
    /\ UNCHANGED <<ledgerVars, restrainVars, approvals, rules, now>>

DeleteIdentity(caller, w) ==
    /\ caller \in TransferAgentOrOwner
    /\ w \in identified
    /\ identified' = identified \ {w}
    /\ country' = [country EXCEPT ![w] = NoCountry]
    /\ UNCHANGED <<ledgerVars, restrainVars, approvals, rules, now>>

UpdateCountry(caller, w, c) ==
    /\ caller \in TransferAgentOrOwner
    /\ w \in identified
    /\ country' = [country EXCEPT ![w] = c]
    /\ UNCHANGED <<ledgerVars, restrainVars, approvals, identified, rules, now>>

-----------------------------------------------------------------------------
(* RecoveryFacet *)

\* The registered tokenIds only: recoverWallet walks registeredTokenIds.
Migrated(f, lost, new, none) ==
    [id \in AssetIds |->
        IF Registered(id) /\ f[id][lost] # none
        THEN [f[id] EXCEPT ![new] = f[id][lost], ![lost] = none]
        ELSE f[id]]

\* Mutant: the lost wallet is cleared and the new one not set.
MigratedSetCleared(S, lost, new) == S \ {lost}

MigratedSet(S, lost, new) == IF lost \in S THEN (S \ {lost}) \cup {new} ELSE S

\* One atomic call: identity, then freezes, then balances.  Neither pauses nor
\* freezes nor compliance modules are consulted.
RecoverWallet(caller, lost, new) ==
    /\ caller \in RecoveryAgentOrOwner
    /\ lost # new
    /\ new \notin identified
    /\ identified' = MigratedSet(identified, lost, new)
    /\ country' = [[country EXCEPT ![new] = country[lost]] EXCEPT ![lost] = NoCountry]
    /\ globalFreeze' = MigratedSet(globalFreeze, lost, new)
    /\ assetFreeze' = [id \in AssetIds |->
                          IF Registered(id) THEN MigratedSet(assetFreeze[id], lost, new)
                          ELSE assetFreeze[id]]
    /\ frozenAmount' = Migrated(frozenAmount, lost, new, 0)
    /\ lockupExpiry' = Migrated(lockupExpiry, lost, new, 0)
    /\ ledger' = [id \in AssetIds |->
                     IF Registered(id) THEN Recovered(ledger[id], lost, new) ELSE ledger[id]]
    /\ \A id \in AssetIds : Fits(ledger'[id])
    /\ UNCHANGED <<registered, asset, globalPaused, approvals, rules, now>>

-----------------------------------------------------------------------------
(* The chain *)

Tick ==
    /\ now <= MaxTime
    /\ now' = now + 1
    /\ UNCHANGED <<ledgerVars, restrainVars, partyVars, rules>>

-----------------------------------------------------------------------------
(* Who may call what, with what: one group of actions per facet *)

AssetManagerNext ==
    \E caller \in Callers :
        \/ \E cap \in Caps, modules \in SUBSET Modules : RegisterAsset(caller, cap, modules)
        \/ \E id \in AssetIds, m \in Modules :
              AddComplianceModule(caller, id, m) \/ RemoveComplianceModule(caller, id, m)
        \/ \E id \in AssetIds, modules \in SUBSET Modules : SetComplianceModules(caller, id, modules)
        \/ \E id \in AssetIds, cap \in Caps : SetSupplyCap(caller, id, cap)

SupplyNext ==
    \E caller \in Callers, id \in AssetIds, w \in Wallets, n \in Amounts :
        \/ Mint(caller, id, w, n)
        \/ Burn(caller, id, w, n)
        \/ \E to \in Wallets : ForcedTransfer(caller, id, w, to, n)
        \/ \E id2 \in AssetIds, w2 \in Wallets, n2 \in Amounts :
              BatchMint(caller, id, w, n, id2, w2, n2)

TransferNext ==
    \E operator, from, to \in Wallets, id \in AssetIds, n \in Amounts :
        \/ SafeTransferFrom(operator, from, to, id, n)
        \/ \E id2 \in AssetIds, n2 \in Amounts :
              SafeBatchTransferFrom(operator, from, to, id, n, id2, n2)

ApprovalNext ==
    \E holder, operator \in Wallets, approved \in BOOLEAN :
        SetApprovalForAll(holder, operator, approved)

FreezeNext ==
    \E caller \in Callers, w \in Wallets :
        \/ \E frozen \in BOOLEAN : SetWalletFrozen(caller, w, frozen)
        \/ \E id \in AssetIds :
              \/ \E frozen \in BOOLEAN : SetAssetWalletFrozen(caller, id, w, frozen)
              \/ \E n \in FrozenAmounts : SetFrozenAmount(caller, id, w, n)
              \/ \E expiry \in Expiries : SetLockupExpiry(caller, id, w, expiry)

PauseNext ==
    \E caller \in Callers :
        \/ PauseProtocol(caller) \/ EmergencyPause(caller) \/ UnpauseProtocol(caller)
        \/ \E id \in AssetIds, paused \in BOOLEAN : SetAssetPaused(caller, id, paused)

IdentityNext ==
    \E caller \in Callers, w \in Wallets :
        \/ \E c \in Countries \cup {NoCountry} :
              \/ RegisterIdentity(caller, w, c) \/ UpdateCountry(caller, w, c)
              \/ \E v \in Wallets, d \in Countries \cup {NoCountry} :
                    BatchRegisterIdentity(caller, w, c, v, d)
        \/ DeleteIdentity(caller, w)

RecoveryNext ==
    \E caller \in Callers, lost, new \in Wallets : RecoverWallet(caller, lost, new)

Next ==
    \/ AssetManagerNext \/ SupplyNext \/ TransferNext \/ ApprovalNext
    \/ FreezeNext \/ PauseNext \/ IdentityNext \/ RecoveryNext
    \/ ComplianceModulesNext \/ Tick

Spec == Init /\ [][Next]_vars

-----------------------------------------------------------------------------
(* Safety *)

Holding(id) == {w \in Wallets : ledger[id].free[w] > 0}

\* totalSupply of every tokenId is the sum of all balances of it, whatever mix
\* of mints, burns, transfers, batches and recoveries led here.
SupplyIsSumOfBalances ==
    \A id \in AssetIds : ledger[id].supply = SumFunction(ledger[id].free)

\* holderCount is the number of wallets with a balance, and isHolder is set for
\* exactly those: what the invariant tests of the repository ask of the facets.
HolderCountAccuracy ==
    \A id \in AssetIds :
        /\ ledger[id].count = Cardinality(Holding(id))
        /\ ledger[id].holders = Holding(id)

\* With amounts of zero allowed too: no wallet with a balance is without its
\* isHolder flag, and holderCount never overstates the flags that are set.
HoldersAreFlagged ==
    \A id \in AssetIds :
        /\ Holding(id) \subseteq ledger[id].holders
        /\ ledger[id].count <= Cardinality(ledger[id].holders)

\* A supply that grows stays within the cap in force, also when two items of one
\* batch mint the same tokenId; a cap lowered below the supply only stops growth.
GrowthWithinCap ==
    [][\A id \in AssetIds :
          ledger'[id].supply > ledger[id].supply /\ asset'[id].cap # 0
            => ledger'[id].supply <= asset'[id].cap]_vars

\* With MaxHolders plugged in, a transfer, batches included, never raises the
\* number of wallets that really hold the asset above the limit, whatever mints,
\* forced transfers and recoveries made of holderCount before.  MaxHoldersModule:
\* "enforces a maximum number of unique holders per tokenId".
HolderLimitBinds ==
    [][\A id \in AssetIds :
          /\ "MaxHolders" \in asset[id].modules
          /\ rules[id].maxHolders # 0
          /\ Cardinality(Holding(id)') > Cardinality(Holding(id))
          /\ TransferNext
          => Cardinality(Holding(id)') <= rules[id].maxHolders]_vars

\* With MaxBalance plugged in, a transfer, batches included, never lifts a wallet
\* above the holding limit.
HoldingLimitBinds ==
    [][\A id \in AssetIds, w \in Wallets :
          /\ "MaxBalance" \in asset[id].modules
          /\ rules[id].maxBalance # 0
          /\ ledger'[id].free[w] > ledger[id].free[w]
          /\ TransferNext
          => ledger'[id].free[w] <= rules[id].maxBalance]_vars

\* With CountryRestrict or ProducerKyc plugged in, a transfer moves units only
\* between wallets whose countries are not blocked, and only to a wallet whose
\* identity is registered at that moment: one deleted, or moved away by a
\* recovery, no longer counts.
PartyRulesBind ==
    [][\A id \in AssetIds, w \in Wallets :
          /\ ledger'[id].free[w] # ledger[id].free[w]
          /\ TransferNext
          => /\ "CountryRestrict" \in asset[id].modules
                   => country[w] \notin rules[id].blocked
             /\ "ProducerKyc" \in asset[id].modules /\ rules[id].kyc
                   /\ ledger'[id].free[w] > ledger[id].free[w]
                   => w \in identified]_vars

-----------------------------------------------------------------------------
(* The register the token implements *)

FrozenFor(id) == globalFreeze \cup assetFreeze[id]

\* Under a CPR lock-up that an asset's modules enforce, nobody gives any away.
HeldBack(id) ==
    IF "CprLockup" \in asset[id].modules /\ rules[id].cprExpiry >= now THEN Wallets
    ELSE FrozenFor(id) \cup {w \in Wallets : now <= lockupExpiry[id][w]}

Register == INSTANCE ShareRegister WITH
    Assets    <- AssetIds,
    held      <- [id \in AssetIds |-> ledger[id].free],
    issued    <- [id \in AssetIds |-> ledger[id].supply],
    lien      <- frozenAmount,
    barred    <- [id \in AssetIds |-> HeldBack(id)],
    closed    <- [id \in AssetIds |-> FrozenFor(id)],
    suspended <- {id \in AssetIds : globalPaused \/ asset[id].paused}

\* Every call of the token is a move the register allows, on holdings, supply
\* and restraints alike, or none: nothing leaks through a batch, a pause, a
\* lockup or CPR lock-up that ends, or a recovery.
ImplementsShareRegister == Register!Spec

\* What a holder or an operator moves is a gift: a transfer agent may seize
\* units under restraint, safeTransferFrom and safeBatchTransferFrom never move
\* a unit that is frozen, locked up, under lien or in a paused asset, not even
\* as the second item of a batch.
TransfersAreGifts == [][ledger' # ledger /\ TransferNext => Register!Gift]_vars

=============================================================================
