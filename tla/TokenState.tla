----------------------------- MODULE TokenState -----------------------------
(***************************************************************************)
(* The storage the token facets of the diamond share: LibAssetStorage,     *)
(* LibERC1155Storage, LibSupplyStorage, LibFreezeStorage, the pause flag   *)
(* of LibAppStorage, the wallet part of LibIdentityStorage and the         *)
(* settings the compliance modules keep in contracts of their own.         *)
(*                                                                         *)
(* Of the four partitions of a holding only "free" is modelled: no code    *)
(* writes a non-zero value to locked, custody or pendingSettlement.        *)
(***************************************************************************)
EXTENDS Integers, FiniteSets

CONSTANTS
    Wallets,        \* addresses that may hold tokens (the zero address is not one)
    Owner,          \* the diamond's owner
    Issuers, TransferAgents, RecoveryAgents, ComplianceAdmins, Pausers,
                    \* members of the roles, fixed here (AccessControlFacet changes them)
    ModuleOwner,    \* the account the compliance modules were deployed with
    MaxAssets,      \* bound: at most this many assets are ever registered
    Amounts,        \* the amounts callers pass
    MaxUint,        \* stands for 2^256 - 1: checked arithmetic reverts above it
    Caps,           \* supply caps callers pass, 0 meaning none
    MaxTime,        \* bound: the last block timestamp
    Countries,      \* ISO country codes in use, all different from 0
    Modules,        \* the compliance modules deployed
    HoldingLimits,  \* limits callers of MaxBalanceModule pass, 0 meaning none
    HolderLimits,   \* limits callers of MaxHoldersModule pass, 0 meaning none
    FrozenAmounts,  \* amounts callers of setFrozenAmount pass
    Expiries        \* expiries callers of setLockupExpiry and setLockup pass

AssetIds == 1..MaxAssets

IssuerOrOwner          == Issuers \cup {Owner}
TransferAgentOrOwner   == TransferAgents \cup {Owner}
RecoveryAgentOrOwner   == RecoveryAgents \cup {Owner}
ComplianceAdminOrOwner == ComplianceAdmins \cup {Owner}
PauserOrOwner          == Pausers \cup {Owner}

Callers == Wallets \cup IssuerOrOwner \cup TransferAgents \cup RecoveryAgents
             \cup ComplianceAdmins \cup Pausers \cup {ModuleOwner}

ModuleNames == {"MaxBalance", "MaxHolders", "CountryRestrict", "CprLockup", "ProducerKyc"}
NoCountry == 0

ASSUME TokenAssumption ==
    /\ IsFiniteSet(Wallets)
    /\ MaxAssets \in Nat
    /\ MaxUint \in Nat
    /\ MaxTime \in Nat
    /\ Amounts \subseteq Nat
    /\ Caps \subseteq Nat
    /\ Countries \subseteq Nat \ {NoCountry}
    /\ Modules \subseteq ModuleNames
    /\ HoldingLimits \subseteq Nat
    /\ HolderLimits \subseteq Nat
    /\ FrozenAmounts \subseteq Nat
    /\ Expiries \subseteq Nat

VARIABLES
    registered,     \* the length of registeredTokenIds; an asset is named by its place there
    asset,          \* AssetConfig of each tokenId
    ledger,         \* per tokenId: balances, totalSupply, isHolder, holderCount
    globalPaused,
    globalFreeze,   \* the wallets frozen for every tokenId
    assetFreeze,    \* per tokenId, the wallets frozen for it
    frozenAmount,   \* per tokenId and wallet, the part of the balance that is frozen
    lockupExpiry,   \* per tokenId and wallet, 0 meaning none
    approvals,      \* <<holder, operator>> pairs of operatorApprovals
    identified,     \* the wallets with walletToIdentity set
    country,        \* walletCountry
    rules,          \* per tokenId, the settings of the compliance modules
    now             \* block.timestamp

ledgerVars   == <<registered, asset, ledger>>
restrainVars == <<globalPaused, globalFreeze, assetFreeze, frozenAmount, lockupExpiry>>
partyVars    == <<approvals, identified, country>>
vars == <<ledgerVars, restrainVars, partyVars, rules, now>>

-----------------------------------------------------------------------------
(* Types *)

AssetConfig == [paused : BOOLEAN, cap : Nat, modules : SUBSET Modules]

LedgerType == [free : [Wallets -> Nat], supply : Nat,
               holders : SUBSET Wallets, count : Nat]

RuleType == [maxBalance : Nat, maxHolders : Nat, cprExpiry : Nat,
             blocked : SUBSET Countries, kyc : BOOLEAN]

\* The shape of the state, the block timestamp within its bound included.
TypeOK ==
    /\ registered \in 0..MaxAssets
    /\ asset \in [AssetIds -> AssetConfig]
    /\ ledger \in [AssetIds -> LedgerType]
    /\ globalPaused \in BOOLEAN
    /\ globalFreeze \subseteq Wallets
    /\ assetFreeze \in [AssetIds -> SUBSET Wallets]
    /\ frozenAmount \in [AssetIds -> [Wallets -> Nat]]
    /\ lockupExpiry \in [AssetIds -> [Wallets -> Nat]]
    /\ approvals \subseteq Wallets \X Wallets
    /\ identified \subseteq Wallets
    /\ country \in [Wallets -> Countries \cup {NoCountry}]
    /\ rules \in [AssetIds -> RuleType]
    /\ now \in 1..(MaxTime + 1)

Ledger(free, supply, holders, count) ==
    [free |-> free, supply |-> supply, holders |-> holders, count |-> count]

EmptyLedger == Ledger([w \in Wallets |-> 0], 0, {}, 0)

NoRules == [maxBalance |-> 0, maxHolders |-> 0, cprExpiry |-> 0,
            blocked |-> {}, kyc |-> FALSE]

-----------------------------------------------------------------------------
(* The ledger of one tokenId, and how the facets update it *)

Registered(id) == id \in 1..registered

\* isHolder is set and holderCount raised on the first credit, whatever the amount.
Joined(l, w) ==
    Ledger(l.free, l.supply, l.holders \cup {w},
           IF w \in l.holders THEN l.count ELSE l.count + 1)

\* Mutant: holderCount is not lowered when isHolder is cleared.
LeftUncounted(l, w) ==
    IF l.free[w] = 0 THEN Ledger(l.free, l.supply, l.holders \ {w}, l.count) ELSE l

\* A wallet whose balance is zero loses isHolder and holderCount falls by one,
\* without a look at whether isHolder was set.
LeftIfEmpty(l, w) ==
    IF l.free[w] = 0 THEN Ledger(l.free, l.supply, l.holders \ {w}, l.count - 1) ELSE l

\* Mutant: both balances are read before either is written.
MovedFromCopies(l, from, to, n) ==
    LET credited == [[l.free EXCEPT ![from] = @ - n] EXCEPT ![to] = l.free[to] + n]
    IN LeftIfEmpty(Joined(Ledger(credited, l.supply, l.holders, l.count), to), from)

Moved(l, from, to, n) ==
    LET debited  == [l.free EXCEPT ![from] = @ - n]
        credited == [debited EXCEPT ![to] = @ + n]
    IN LeftIfEmpty(Joined(Ledger(credited, l.supply, l.holders, l.count), to), from)

Minted(l, to, n) ==
    Joined(Ledger([l.free EXCEPT ![to] = @ + n], l.supply + n, l.holders, l.count), to)

\* Mutant: the supply is not lowered.
BurnedUnsupplied(l, from, n) ==
    LeftIfEmpty(Ledger([l.free EXCEPT ![from] = @ - n], l.supply, l.holders, l.count), from)

Burned(l, from, n) ==
    LeftIfEmpty(Ledger([l.free EXCEPT ![from] = @ - n], l.supply - n, l.holders, l.count), from)

\* Mutant: holderCount is not lowered when new already was a holder.
RecoveredUncounted(l, lost, new) ==
    IF l.free[lost] = 0 THEN l
    ELSE Ledger([l.free EXCEPT ![new] = @ + l.free[lost], ![lost] = 0], l.supply,
                (l.holders \ {lost}) \cup {new}, l.count)

\* Recovery leaves a tokenId alone when the lost wallet holds none of it.
Recovered(l, lost, new) ==
    IF l.free[lost] = 0 THEN l
    ELSE LET moved == [l.free EXCEPT ![new] = @ + l.free[lost], ![lost] = 0]
         IN IF lost \notin l.holders THEN Ledger(moved, l.supply, l.holders, l.count)
            ELSE Ledger(moved, l.supply, (l.holders \ {lost}) \cup {new},
                        IF new \in l.holders THEN l.count - 1 ELSE l.count)

\* Checked arithmetic: a counter or a supply below zero, or a supply above the
\* width, reverts the call.
Fits(l) == l.count >= 0 /\ l.supply \in 0..MaxUint

\* The balance a wallet may dispose of: free less frozen, never below zero.
Available(l, w, frozen) == IF l.free[w] > frozen THEN l.free[w] - frozen ELSE 0
=============================================================================
