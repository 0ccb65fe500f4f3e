------------------------ MODULE RegulatedTokenProofs ------------------------
(***************************************************************************)
(* Theorems about RegulatedToken, for any wallets, roles, amounts, caps    *)
(* and bounds that satisfy TokenAssumption: first types, holders, supply   *)
(* and cap; then what a transfer may do, under the restraints and the      *)
(* rules of the compliance modules; then the register of shares that the   *)
(* token implements.  Last about AssetGroups: the same of the token with   *)
(* units minted between its calls, and the books of the groups, which      *)
(* agree with the registry of assets.                                      *)
(***************************************************************************)
EXTENDS AssetGroups, FiniteSums

-----------------------------------------------------------------------------
(* The ledger of one tokenId *)

\* A ledger before the reverting conditions are looked at: the counters may be
\* negative, the balances may not.
RawLedger == [free : [Wallets -> Nat], supply : Int, holders : SUBSET Wallets, count : Int]

LEMMA FitsType ==
    ASSUME NEW l \in RawLedger, Fits(l)
    PROVE  l \in LedgerType
  BY TokenAssumption DEF RawLedger, LedgerType, Fits

LEMMA MintedType ==
    ASSUME NEW l \in LedgerType, NEW w \in Wallets, NEW n \in Nat
    PROVE  Minted(l, w, n) \in RawLedger
  BY DEF LedgerType, RawLedger, Minted, Joined, Ledger

LEMMA BurnedType ==
    ASSUME NEW l \in LedgerType, NEW w \in Wallets, NEW n \in Nat, n <= l.free[w]
    PROVE  Burned(l, w, n) \in RawLedger
  BY DEF LedgerType, RawLedger, Burned, LeftIfEmpty, Ledger

LEMMA MovedType ==
    ASSUME NEW l \in LedgerType, NEW from \in Wallets, NEW to \in Wallets,
           NEW n \in Nat, n <= l.free[from]
    PROVE  Moved(l, from, to, n) \in RawLedger
<1> DEFINE balances == [[l.free EXCEPT ![from] = @ - n] EXCEPT ![to] = @ + n]
           joined   == Joined(Ledger(balances, l.supply, l.holders, l.count), to)
<1>1. balances \in [Wallets -> Nat]
  BY DEF LedgerType
<1>2. Moved(l, from, to, n) = LeftIfEmpty(joined, from)
  BY DEF Moved
<1> HIDE DEF balances
<1>3. joined \in RawLedger
  BY <1>1 DEF LedgerType, RawLedger, Joined, Ledger
<1> HIDE DEF joined
<1>4. LeftIfEmpty(joined, from) \in RawLedger
  BY <1>3 DEF RawLedger, LeftIfEmpty, Ledger
<1> QED BY <1>2, <1>4

LEMMA RecoveredType ==
    ASSUME NEW l \in LedgerType, NEW lost \in Wallets, NEW new \in Wallets, lost # new
    PROVE  Recovered(l, lost, new) \in RawLedger
  BY DEF LedgerType, RawLedger, Recovered, Ledger

\* What every update of one tokenId's ledger needs: a well-typed ledger stays so
\* when one entry is replaced by a raw one that the arithmetic did not reject.
LEMMA LedgerUpdateType ==
    ASSUME NEW f \in [AssetIds -> LedgerType], NEW id \in AssetIds,
           NEW l \in RawLedger, Fits(l)
    PROVE  [f EXCEPT ![id] = l] \in [AssetIds -> LedgerType]
  BY FitsType

-----------------------------------------------------------------------------
(* Type correctness, one lemma per group of calls *)

LEMMA InitType == Init => TypeOK
<1> SUFFICES ASSUME Init PROVE TypeOK
  OBVIOUS
<1> USE TokenAssumption DEF Init
<1>1. asset \in [AssetIds -> AssetConfig]
  BY DEF AssetConfig
<1>2. ledger \in [AssetIds -> LedgerType]
  BY DEF LedgerType, EmptyLedger, Ledger
<1>3. NoRules \in RuleType
  BY DEF RuleType, NoRules
<1>4. country \in [Wallets -> Countries \cup {NoCountry}]
  OBVIOUS
<1>5. now \in 1..(MaxTime + 1) /\ registered \in 0..MaxAssets
  OBVIOUS
<1> QED BY <1>1, <1>2, <1>3, <1>4, <1>5 DEF TypeOK

LEMMA ModulesUpdateType ==
    ASSUME NEW f \in [AssetIds -> AssetConfig], NEW id \in AssetIds, NEW ms \in SUBSET Modules
    PROVE  [f EXCEPT ![id].modules = ms] \in [AssetIds -> AssetConfig]
  BY SMTT(30) DEF AssetConfig

LEMMA CapUpdateType ==
    ASSUME NEW f \in [AssetIds -> AssetConfig], NEW id \in AssetIds, NEW cap \in Nat
    PROVE  [f EXCEPT ![id].cap = cap] \in [AssetIds -> AssetConfig]
  BY SMTT(30) DEF AssetConfig

LEMMA PausedUpdateType ==
    ASSUME NEW f \in [AssetIds -> AssetConfig], NEW id \in AssetIds, NEW paused \in BOOLEAN
    PROVE  [f EXCEPT ![id].paused = paused] \in [AssetIds -> AssetConfig]
  BY SMTT(30) DEF AssetConfig

LEMMA AssetManagerType ==
    ASSUME TypeOK, AssetManagerNext
    PROVE  TypeOK'
<1> USE TokenAssumption
<1>1. ASSUME NEW caller, NEW cap \in Caps, NEW modules \in SUBSET Modules,
             RegisterAsset(caller, cap, modules)
      PROVE  TypeOK'
  <2>1. registered' \in 0..MaxAssets /\ registered + 1 \in AssetIds
    BY <1>1 DEF RegisterAsset, TypeOK, AssetIds
  <2>2. [paused |-> FALSE, cap |-> cap, modules |-> modules] \in AssetConfig
    BY DEF AssetConfig
  <2> QED BY <1>1, <2>1, <2>2 DEF RegisterAsset, TypeOK, restrainVars, partyVars
<1>2. ASSUME NEW caller, NEW id \in AssetIds, NEW m \in Modules,
             AddComplianceModule(caller, id, m)
      PROVE  TypeOK'
  <2>1. asset' \in [AssetIds -> AssetConfig]
    <3>1. asset[id].modules \cup {m} \in SUBSET Modules
      BY DEF TypeOK, AssetConfig
    <3> QED BY <1>2, <3>1, ModulesUpdateType DEF AddComplianceModule, TypeOK
  <2> QED BY <1>2, <2>1 DEF AddComplianceModule, TypeOK, restrainVars, partyVars
<1>3. ASSUME NEW caller, NEW id \in AssetIds, NEW m \in Modules,
             RemoveComplianceModule(caller, id, m)
      PROVE  TypeOK'
  <2>1. asset' \in [AssetIds -> AssetConfig]
    <3>1. asset[id].modules \ {m} \in SUBSET Modules
      BY DEF TypeOK, AssetConfig
    <3> QED BY <1>3, <3>1, ModulesUpdateType DEF RemoveComplianceModule, TypeOK
  <2> QED BY <1>3, <2>1 DEF RemoveComplianceModule, TypeOK, restrainVars, partyVars
<1>4. ASSUME NEW caller, NEW id \in AssetIds, NEW modules \in SUBSET Modules,
             SetComplianceModules(caller, id, modules)
      PROVE  TypeOK'
  <2>1. asset' \in [AssetIds -> AssetConfig]
    BY <1>4, ModulesUpdateType DEF SetComplianceModules, TypeOK
  <2> QED BY <1>4, <2>1 DEF SetComplianceModules, TypeOK, restrainVars, partyVars
<1>5. ASSUME NEW caller, NEW id \in AssetIds, NEW cap \in Caps, SetSupplyCap(caller, id, cap)
      PROVE  TypeOK'
  <2>1. asset' \in [AssetIds -> AssetConfig]
    BY <1>5, CapUpdateType DEF SetSupplyCap, TypeOK
  <2> QED BY <1>5, <2>1 DEF SetSupplyCap, TypeOK, restrainVars, partyVars
<1> QED BY <1>1, <1>2, <1>3, <1>4, <1>5 DEF AssetManagerNext

\* The calls that change nothing but the ledger.
LedgerStep == UNCHANGED <<registered, asset, restrainVars, partyVars, rules, now>>

LEMMA LedgerStepType ==
    ASSUME TypeOK, LedgerStep, ledger' \in [AssetIds -> LedgerType]
    PROVE  TypeOK'
  BY DEF TypeOK, LedgerStep, restrainVars, partyVars

LEMMA AvailableBound ==
    ASSUME NEW l \in LedgerType, NEW w \in Wallets, NEW frozen \in Nat, NEW n \in Nat,
           n <= Available(l, w, frozen)
    PROVE  n <= l.free[w]
  BY DEF LedgerType, Available

LEMMA SupplyType ==
    ASSUME TypeOK, SupplyNext
    PROVE  TypeOK'
<1> USE TokenAssumption
<1>1. ASSUME NEW caller, NEW id \in AssetIds, NEW to \in Wallets, NEW n \in Amounts,
             Mint(caller, id, to, n)
      PROVE  TypeOK'
  <2>1. Minted(ledger[id], to, n) \in RawLedger
    BY MintedType DEF TypeOK
  <2>2. ledger' \in [AssetIds -> LedgerType]
    BY <1>1, <2>1, LedgerUpdateType DEF Mint, TypeOK
  <2> QED BY <1>1, <2>2, LedgerStepType DEF Mint, LedgerStep
<1>2. ASSUME NEW caller, NEW id \in AssetIds, NEW from \in Wallets, NEW n \in Amounts,
             Burn(caller, id, from, n)
      PROVE  TypeOK'
  <2>1. n <= ledger[id].free[from]
    <3>1. ledger[id] \in LedgerType /\ frozenAmount[id][from] \in Nat /\ n \in Nat
      BY DEF TypeOK
    <3> QED BY <1>2, <3>1, AvailableBound DEF Burn
  <2>2. Burned(ledger[id], from, n) \in RawLedger
    BY <2>1, BurnedType DEF TypeOK
  <2>3. ledger' \in [AssetIds -> LedgerType]
    BY <1>2, <2>2, LedgerUpdateType DEF Burn, TypeOK
  <2> QED BY <1>2, <2>3, LedgerStepType DEF Burn, LedgerStep
<1>3. ASSUME NEW caller, NEW id \in AssetIds, NEW from \in Wallets, NEW to \in Wallets,
             NEW n \in Amounts, ForcedTransfer(caller, id, from, to, n)
      PROVE  TypeOK'
  <2>1. Moved(ledger[id], from, to, n) \in RawLedger
    BY <1>3, MovedType DEF ForcedTransfer, TypeOK
  <2>2. ledger' \in [AssetIds -> LedgerType]
    BY <1>3, <2>1, LedgerUpdateType DEF ForcedTransfer, TypeOK
  <2> QED BY <1>3, <2>2, LedgerStepType DEF ForcedTransfer, LedgerStep
<1>4. ASSUME NEW caller, NEW id1 \in AssetIds, NEW to1 \in Wallets, NEW n1 \in Amounts,
             NEW id2 \in AssetIds, NEW to2 \in Wallets, NEW n2 \in Amounts,
             BatchMint(caller, id1, to1, n1, id2, to2, n2)
      PROVE  TypeOK'
  <2> DEFINE first == [ledger EXCEPT ![id1] = Minted(@, to1, n1)]
  <2>1. Minted(ledger[id1], to1, n1) \in RawLedger
    BY MintedType DEF TypeOK
  <2>2. first \in [AssetIds -> LedgerType]
    BY <1>4, <2>1, LedgerUpdateType DEF BatchMint, TypeOK
  <2>3. ledger' = [first EXCEPT ![id2] = Minted(@, to2, n2)] /\ Fits(ledger'[id2])
    BY <1>4 DEF BatchMint
  <2> HIDE DEF first
  <2>4. Minted(first[id2], to2, n2) \in RawLedger
    BY <2>2, MintedType
  <2>5. ledger' \in [AssetIds -> LedgerType]
    BY <2>2, <2>3, <2>4, LedgerUpdateType
  <2> QED BY <1>4, <2>5, LedgerStepType DEF BatchMint, LedgerStep
<1> QED BY <1>1, <1>2, <1>3, <1>4 DEF SupplyNext

LEMMA TransferType ==
    ASSUME TypeOK, TransferNext
    PROVE  TypeOK'
<1> USE TokenAssumption
<1>1. ASSUME NEW l \in LedgerType, NEW from \in Wallets, NEW to \in Wallets,
             NEW id \in AssetIds, NEW n \in Amounts, TransferAllowed(id, l, from, to, n)
      PROVE  Moved(l, from, to, n) \in RawLedger
  <2>1. frozenAmount[id][from] \in Nat /\ n \in Nat
    BY DEF TypeOK
  <2>2. n <= l.free[from]
    BY <1>1, <2>1, AvailableBound DEF TransferAllowed
  <2> QED BY <2>1, <2>2, MovedType
<1>2. ASSUME NEW operator \in Wallets, NEW from \in Wallets, NEW to \in Wallets,
             NEW id \in AssetIds, NEW n \in Amounts, SafeTransferFrom(operator, from, to, id, n)
      PROVE  TypeOK'
  <2>1. Moved(ledger[id], from, to, n) \in RawLedger
    BY <1>1, <1>2 DEF SafeTransferFrom, TypeOK
  <2>2. ledger' \in [AssetIds -> LedgerType]
    BY <1>2, <2>1, LedgerUpdateType DEF SafeTransferFrom, TypeOK
  <2> QED BY <1>2, <2>2, LedgerStepType DEF SafeTransferFrom, LedgerStep
<1>3. ASSUME NEW operator \in Wallets, NEW from \in Wallets, NEW to \in Wallets,
             NEW id1 \in AssetIds, NEW n1 \in Amounts, NEW id2 \in AssetIds, NEW n2 \in Amounts,
             SafeBatchTransferFrom(operator, from, to, id1, n1, id2, n2)
      PROVE  TypeOK'
  <2> DEFINE first == [ledger EXCEPT ![id1] = Moved(@, from, to, n1)]
  <2>1. Moved(ledger[id1], from, to, n1) \in RawLedger
    BY <1>1, <1>3 DEF SafeBatchTransferFrom, TypeOK
  <2>2. first \in [AssetIds -> LedgerType]
    BY <1>3, <2>1, LedgerUpdateType DEF SafeBatchTransferFrom, TypeOK
  <2>3. /\ TransferAllowed(id2, first[id2], from, to, n2)
        /\ ledger' = [first EXCEPT ![id2] = Moved(@, from, to, n2)]
        /\ Fits(ledger'[id2])
    BY <1>3 DEF SafeBatchTransferFrom
  <2> HIDE DEF first
  <2>4. Moved(first[id2], from, to, n2) \in RawLedger
    BY <1>1, <2>2, <2>3
  <2>5. ledger' \in [AssetIds -> LedgerType]
    BY <2>2, <2>3, <2>4, LedgerUpdateType
  <2> QED BY <1>3, <2>5, LedgerStepType DEF SafeBatchTransferFrom, LedgerStep
<1> QED BY <1>2, <1>3 DEF TransferNext

LEMMA ApprovalType ==
    ASSUME TypeOK, ApprovalNext
    PROVE  TypeOK'
<1>1. PICK holder \in Wallets, operator \in Wallets, approved \in BOOLEAN :
          SetApprovalForAll(holder, operator, approved)
  BY DEF ApprovalNext
<1>2. approvals' \subseteq Wallets \X Wallets
  BY <1>1 DEF SetApprovalForAll, TypeOK
<1> QED BY <1>1, <1>2 DEF SetApprovalForAll, TypeOK, ledgerVars, restrainVars

LEMMA FreezeType ==
    ASSUME TypeOK, FreezeNext
    PROVE  TypeOK'
<1> USE TokenAssumption
<1>1. ASSUME NEW caller, NEW w \in Wallets, NEW frozen \in BOOLEAN,
             SetWalletFrozen(caller, w, frozen)
      PROVE  TypeOK'
  BY <1>1 DEF SetWalletFrozen, TypeOK, ledgerVars, partyVars
<1>2. ASSUME NEW caller, NEW w \in Wallets, NEW id \in AssetIds, NEW frozen \in BOOLEAN,
             SetAssetWalletFrozen(caller, id, w, frozen)
      PROVE  TypeOK'
  BY <1>2 DEF SetAssetWalletFrozen, TypeOK, ledgerVars, partyVars
<1>3. ASSUME NEW caller, NEW w \in Wallets, NEW id \in AssetIds, NEW n \in FrozenAmounts,
             SetFrozenAmount(caller, id, w, n)
      PROVE  TypeOK'
  BY <1>3 DEF SetFrozenAmount, TypeOK, ledgerVars, partyVars
<1>4. ASSUME NEW caller, NEW w \in Wallets, NEW id \in AssetIds, NEW expiry \in Expiries,
             SetLockupExpiry(caller, id, w, expiry)
      PROVE  TypeOK'
  BY <1>4 DEF SetLockupExpiry, TypeOK, ledgerVars, partyVars
<1> QED BY <1>1, <1>2, <1>3, <1>4 DEF FreezeNext

LEMMA PauseType ==
    ASSUME TypeOK, PauseNext
    PROVE  TypeOK'
<1>1. ASSUME NEW caller, PauseProtocol(caller) \/ EmergencyPause(caller) \/ UnpauseProtocol(caller)
      PROVE  TypeOK'
  BY <1>1 DEF PauseProtocol, EmergencyPause, UnpauseProtocol, TypeOK, ledgerVars, partyVars
<1>2. ASSUME NEW caller, NEW id \in AssetIds, NEW paused \in BOOLEAN,
             SetAssetPaused(caller, id, paused)
      PROVE  TypeOK'
  <2>1. asset' \in [AssetIds -> AssetConfig]
    BY <1>2, PausedUpdateType DEF SetAssetPaused, TypeOK
  <2> QED BY <1>2, <2>1 DEF SetAssetPaused, TypeOK, restrainVars, partyVars
<1> QED BY <1>1, <1>2, Zenon DEF PauseNext

LEMMA IdentityType ==
    ASSUME TypeOK, IdentityNext
    PROVE  TypeOK'
<1>1. ASSUME NEW caller, NEW w \in Wallets, NEW c \in Countries \cup {NoCountry},
             RegisterIdentity(caller, w, c) \/ UpdateCountry(caller, w, c)
      PROVE  TypeOK'
  BY <1>1 DEF RegisterIdentity, UpdateCountry, TypeOK, ledgerVars, restrainVars
<1>2. ASSUME NEW caller, NEW w \in Wallets, NEW c \in Countries \cup {NoCountry},
             NEW v \in Wallets, NEW d \in Countries \cup {NoCountry},
             BatchRegisterIdentity(caller, w, c, v, d)
      PROVE  TypeOK'
  BY <1>2 DEF BatchRegisterIdentity, TypeOK, ledgerVars, restrainVars
<1>3. ASSUME NEW caller, NEW w \in Wallets, DeleteIdentity(caller, w)
      PROVE  TypeOK'
  BY <1>3 DEF DeleteIdentity, TypeOK, ledgerVars, restrainVars
<1> QED BY <1>1, <1>2, <1>3 DEF IdentityNext

LEMMA RecoveryType ==
    ASSUME TypeOK, RecoveryNext
    PROVE  TypeOK'
<1>1. PICK caller \in Callers, lost \in Wallets, new \in Wallets : RecoverWallet(caller, lost, new)
  BY DEF RecoveryNext
<1>2. ledger' \in [AssetIds -> LedgerType]
  <2> DEFINE after(id) == IF Registered(id) THEN Recovered(ledger[id], lost, new) ELSE ledger[id]
  <2>1. ASSUME NEW id \in AssetIds
        PROVE  after(id) \in LedgerType
    <3>1. ledger'[id] = after(id) /\ Fits(ledger'[id]) /\ lost # new
      BY <1>1 DEF RecoverWallet
    <3>2. ledger[id] \in LedgerType
      BY DEF TypeOK
    <3>3. CASE Registered(id)
      BY <3>1, <3>2, <3>3, RecoveredType, FitsType
    <3>4. CASE ~Registered(id)
      BY <3>2, <3>4
    <3> QED BY <3>3, <3>4
  <2>2. ledger' = [id \in AssetIds |-> after(id)]
    BY <1>1 DEF RecoverWallet
  <2> HIDE DEF after
  <2> QED BY <2>1, <2>2
<1>3. /\ identified' \subseteq Wallets
      /\ globalFreeze' \subseteq Wallets
      /\ assetFreeze' \in [AssetIds -> SUBSET Wallets]
  BY <1>1 DEF RecoverWallet, MigratedSet, TypeOK
<1>4. ASSUME NEW f \in [AssetIds -> [Wallets -> Nat]]
      PROVE  Migrated(f, lost, new, 0) \in [AssetIds -> [Wallets -> Nat]]
  BY DEF Migrated
<1>5. frozenAmount' \in [AssetIds -> [Wallets -> Nat]] /\ lockupExpiry' \in [AssetIds -> [Wallets -> Nat]]
  BY <1>1, <1>4 DEF RecoverWallet, TypeOK
<1>6. country' \in [Wallets -> Countries \cup {NoCountry}]
  BY <1>1 DEF RecoverWallet, TypeOK
<1> QED BY <1>1, <1>2, <1>3, <1>5, <1>6 DEF RecoverWallet, TypeOK

\* The settings of the compliance modules: one field of one entry changes.
LEMMA RulesUpdateType ==
    ASSUME NEW f \in [AssetIds -> RuleType], NEW id \in AssetIds
    PROVE  /\ \A k \in Nat : /\ [f EXCEPT ![id].maxBalance = k] \in [AssetIds -> RuleType]
                             /\ [f EXCEPT ![id].maxHolders = k] \in [AssetIds -> RuleType]
                             /\ [f EXCEPT ![id].cprExpiry = k] \in [AssetIds -> RuleType]
           /\ \A S \in SUBSET Countries :
                 [f EXCEPT ![id].blocked = S] \in [AssetIds -> RuleType]
           /\ \A b \in BOOLEAN : [f EXCEPT ![id].kyc = b] \in [AssetIds -> RuleType]
  BY DEF RuleType

LEMMA ComplianceModulesType ==
    ASSUME TypeOK, ComplianceModulesNext
    PROVE  TypeOK'
<1> DEFINE Rest == UNCHANGED <<ledgerVars, restrainVars, partyVars, now>>
<1>1. ASSUME Rest, rules' \in [AssetIds -> RuleType]
      PROVE  TypeOK'
  BY <1>1 DEF TypeOK, ledgerVars, restrainVars, partyVars
<1> USE TokenAssumption, RulesUpdateType
<1>2. PICK caller \in Callers, id \in AssetIds :
          \/ \E limit \in HoldingLimits : SetMaxBalance(caller, id, limit)
          \/ \E limit \in HolderLimits : SetMaxHolders(caller, id, limit)
          \/ \E expiry \in Expiries : SetLockup(caller, id, expiry)
          \/ ClearLockup(caller, id)
          \/ \E c \in Countries : RestrictCountry(caller, id, c) \/ UnrestrictCountry(caller, id, c)
          \/ \E cs \in SUBSET Countries : BatchRestrictCountries(caller, id, cs)
          \/ \E set \in BOOLEAN : SetTokenProfile(caller, id, set)
  BY DEF ComplianceModulesNext
<1>3. rules[id].blocked \in SUBSET Countries /\ rules \in [AssetIds -> RuleType]
  BY DEF TypeOK, RuleType
<1>4. ASSUME NEW limit \in HoldingLimits, SetMaxBalance(caller, id, limit) PROVE TypeOK'
  BY <1>1, <1>3, <1>4 DEF SetMaxBalance
<1>5. ASSUME NEW limit \in HolderLimits, SetMaxHolders(caller, id, limit) PROVE TypeOK'
  BY <1>1, <1>3, <1>5 DEF SetMaxHolders
<1>6. ASSUME NEW expiry \in Expiries, SetLockup(caller, id, expiry) PROVE TypeOK'
  BY <1>1, <1>3, <1>6 DEF SetLockup
<1>7. ASSUME ClearLockup(caller, id) PROVE TypeOK'
  BY <1>1, <1>3, <1>7 DEF ClearLockup
<1>8. ASSUME NEW c \in Countries, RestrictCountry(caller, id, c) PROVE TypeOK'
  <2>1. rules[id].blocked \cup {c} \in SUBSET Countries
    BY <1>3
  <2> QED BY <1>1, <1>3, <1>8, <2>1 DEF RestrictCountry
<1>9. ASSUME NEW c \in Countries, UnrestrictCountry(caller, id, c) PROVE TypeOK'
  <2>1. rules[id].blocked \ {c} \in SUBSET Countries
    BY <1>3
  <2> QED BY <1>1, <1>3, <1>9, <2>1 DEF UnrestrictCountry
<1>10. ASSUME NEW cs \in SUBSET Countries, BatchRestrictCountries(caller, id, cs) PROVE TypeOK'
  <2>1. rules[id].blocked \cup cs \in SUBSET Countries
    BY <1>3
  <2> QED BY <1>1, <1>3, <1>10, <2>1 DEF BatchRestrictCountries
<1>11. ASSUME NEW set \in BOOLEAN, SetTokenProfile(caller, id, set) PROVE TypeOK'
  BY <1>1, <1>3, <1>11 DEF SetTokenProfile
<1> QED BY <1>2, <1>4, <1>5, <1>6, <1>7, <1>8, <1>9, <1>10, <1>11

LEMMA TickType ==
    ASSUME TypeOK, Tick
    PROVE  TypeOK'
  BY TokenAssumption DEF Tick, TypeOK, ledgerVars, restrainVars, partyVars

LEMMA NextType == TypeOK /\ [Next]_vars => TypeOK'
<1>1. ASSUME TypeOK, UNCHANGED vars PROVE TypeOK'
  BY <1>1 DEF TypeOK, vars, ledgerVars, restrainVars, partyVars
<1> QED BY <1>1, AssetManagerType, SupplyType, TransferType, ApprovalType, FreezeType, PauseType,
           IdentityType, RecoveryType, ComplianceModulesType, TickType DEF Next

\* Every state the token reaches is well typed: no call, batch or recovery leaves
\* a negative balance, supply or holder count behind.
THEOREM TypeCorrect == Spec => []TypeOK
  BY InitType, NextType, PTL DEF Spec

-----------------------------------------------------------------------------
(* One ledger *)

\* The wallets of ledger l with a balance.
WithBalance(l) == {w \in Wallets : l.free[w] > 0}

\* How far holderCount is above the number of flags.
Excess(l) == l.count - Cardinality(l.holders)

\* What zero amounts cannot break, and what holds without them.
Flagged(l)  == WithBalance(l) \subseteq l.holders /\ Excess(l) <= 0
Accurate(l) == WithBalance(l) = l.holders /\ Excess(l) = 0

LEMMA HoldersFinite ==
    ASSUME NEW l \in RawLedger
    PROVE  IsFiniteSet(l.holders) /\ Cardinality(l.holders) \in Nat
<1>1. l.holders \subseteq Wallets
  BY DEF RawLedger
<1> QED BY <1>1, TokenAssumption, FS_Subset, FS_CardinalityType

\* Raising the count with the flag leaves the excess alone.
LEMMA JoinedExcess ==
    ASSUME NEW l \in RawLedger, NEW w \in Wallets
    PROVE  /\ Joined(l, w) \in RawLedger
           /\ Joined(l, w).free = l.free
           /\ Joined(l, w).holders = l.holders \cup {w}
           /\ Excess(Joined(l, w)) = Excess(l)
<1>1. /\ Joined(l, w) \in RawLedger
      /\ Joined(l, w).free = l.free
      /\ Joined(l, w).holders = l.holders \cup {w}
      /\ Joined(l, w).count = IF w \in l.holders THEN l.count ELSE l.count + 1
  BY DEF Joined, Ledger, RawLedger
<1>2. Cardinality(l.holders \cup {w}) =
          IF w \in l.holders THEN Cardinality(l.holders) ELSE Cardinality(l.holders) + 1
  BY HoldersFinite, FS_AddElement
<1>3. l.count \in Int /\ Cardinality(l.holders) \in Nat
  BY HoldersFinite DEF RawLedger
<1> QED BY <1>1, <1>2, <1>3 DEF Excess

\* Lowering the count with the flag leaves the excess alone, and lowers it when
\* there was no flag.
LEMMA LeftExcess ==
    ASSUME NEW l \in RawLedger, NEW w \in Wallets
    PROVE  /\ LeftIfEmpty(l, w).free = l.free
           /\ LeftIfEmpty(l, w).holders = IF l.free[w] = 0 THEN l.holders \ {w} ELSE l.holders
           /\ Excess(LeftIfEmpty(l, w)) <= Excess(l)
           /\ w \in l.holders => Excess(LeftIfEmpty(l, w)) = Excess(l)
<1>1. l.count \in Int /\ Cardinality(l.holders) \in Nat
  BY HoldersFinite DEF RawLedger
<1>2. CASE l.free[w] = 0
  <2>1. /\ LeftIfEmpty(l, w).free = l.free
        /\ LeftIfEmpty(l, w).holders = l.holders \ {w}
        /\ LeftIfEmpty(l, w).count = l.count - 1
    BY <1>2 DEF LeftIfEmpty, Ledger
  <2>2. Cardinality(l.holders \ {w}) =
            IF w \in l.holders THEN Cardinality(l.holders) - 1 ELSE Cardinality(l.holders)
    BY HoldersFinite, FS_RemoveElement
  <2> QED BY <1>1, <1>2, <2>1, <2>2 DEF Excess
<1>3. CASE l.free[w] # 0
  BY <1>1, <1>3 DEF LeftIfEmpty, Excess
<1> QED BY <1>2, <1>3

LEMMA MintedTracking ==
    ASSUME NEW l \in LedgerType, NEW w \in Wallets, NEW n \in Nat
    PROVE  /\ Flagged(l) => Flagged(Minted(l, w, n))
           /\ Accurate(l) /\ n > 0 => Accurate(Minted(l, w, n))
<1> DEFINE credited == Ledger([l.free EXCEPT ![w] = @ + n], l.supply + n, l.holders, l.count)
<1>1. /\ credited \in RawLedger
      /\ credited.free = [l.free EXCEPT ![w] = @ + n]
      /\ credited.holders = l.holders
      /\ credited.count = l.count
  BY DEF Ledger, RawLedger, LedgerType
<1>2. Minted(l, w, n) = Joined(credited, w)
  BY DEF Minted
<1> HIDE DEF credited
<1>3. /\ Minted(l, w, n).free = [l.free EXCEPT ![w] = @ + n]
      /\ Minted(l, w, n).holders = l.holders \cup {w}
      /\ Excess(Minted(l, w, n)) = Excess(l)
  BY <1>1, <1>2, JoinedExcess DEF Excess
<1>4. l.free \in [Wallets -> Nat]
  BY DEF LedgerType
<1>5. ASSUME Flagged(l) PROVE Flagged(Minted(l, w, n))
  BY <1>3, <1>4, <1>5 DEF Flagged, WithBalance
<1>6. ASSUME Accurate(l), n > 0 PROVE Accurate(Minted(l, w, n))
  BY <1>3, <1>4, <1>6 DEF Accurate, WithBalance
<1> QED BY <1>5, <1>6

LEMMA BurnedTracking ==
    ASSUME NEW l \in LedgerType, NEW w \in Wallets, NEW n \in Nat, n <= l.free[w]
    PROVE  /\ Flagged(l) => Flagged(Burned(l, w, n))
           /\ Accurate(l) /\ n > 0 => Accurate(Burned(l, w, n))
<1> DEFINE debited == Ledger([l.free EXCEPT ![w] = @ - n], l.supply - n, l.holders, l.count)
<1>1. /\ debited \in RawLedger
      /\ debited.free = [l.free EXCEPT ![w] = @ - n]
      /\ debited.holders = l.holders
      /\ debited.count = l.count
  BY DEF Ledger, RawLedger, LedgerType
<1>2. Burned(l, w, n) = LeftIfEmpty(debited, w)
  BY DEF Burned
<1> HIDE DEF debited
<1>3. /\ Burned(l, w, n).free = debited.free
      /\ Burned(l, w, n).holders = IF debited.free[w] = 0 THEN l.holders \ {w} ELSE l.holders
      /\ Excess(Burned(l, w, n)) <= Excess(l)
      /\ w \in l.holders => Excess(Burned(l, w, n)) = Excess(l)
  <2>1. Excess(debited) = Excess(l)
    BY <1>1 DEF Excess
  <2>2. /\ LeftIfEmpty(debited, w).free = debited.free
        /\ LeftIfEmpty(debited, w).holders =
              IF debited.free[w] = 0 THEN debited.holders \ {w} ELSE debited.holders
        /\ Excess(LeftIfEmpty(debited, w)) <= Excess(debited)
        /\ w \in debited.holders => Excess(LeftIfEmpty(debited, w)) = Excess(debited)
    BY <1>1, LeftExcess
  <2> QED BY <1>1, <1>2, <2>1, <2>2
<1>4. l.free \in [Wallets -> Nat] /\ l.holders \subseteq Wallets
  BY DEF LedgerType
<1>5. Excess(l) \in Int /\ Excess(Burned(l, w, n)) \in Int
  <2>1. l \in RawLedger /\ Burned(l, w, n) \in RawLedger
    BY BurnedType DEF LedgerType, RawLedger
  <2> QED BY <2>1, HoldersFinite DEF Excess, RawLedger
<1>6. ASSUME Flagged(l) PROVE Flagged(Burned(l, w, n))
  BY <1>1, <1>3, <1>4, <1>5, <1>6 DEF Flagged, WithBalance
<1>7. ASSUME Accurate(l), n > 0 PROVE Accurate(Burned(l, w, n))
  <2>1. w \in l.holders
    BY <1>4, <1>7 DEF Accurate, WithBalance
  <2> QED BY <1>1, <1>3, <1>4, <1>7, <2>1 DEF Accurate, WithBalance
<1> QED BY <1>6, <1>7

LEMMA MovedTracking ==
    ASSUME NEW l \in LedgerType, NEW from \in Wallets, NEW to \in Wallets,
           NEW n \in Nat, n <= l.free[from]
    PROVE  /\ Flagged(l) => Flagged(Moved(l, from, to, n))
           /\ Accurate(l) /\ n > 0 => Accurate(Moved(l, from, to, n))
<1> DEFINE balances == [[l.free EXCEPT ![from] = @ - n] EXCEPT ![to] = @ + n]
           credited == Ledger(balances, l.supply, l.holders, l.count)
           joined   == Joined(credited, to)
<1>1. /\ credited \in RawLedger
      /\ credited.free = balances
      /\ credited.holders = l.holders
      /\ credited.count = l.count
  BY DEF Ledger, RawLedger, LedgerType
<1>2. Moved(l, from, to, n) = LeftIfEmpty(joined, from)
  BY DEF Moved
<1>3. l.free \in [Wallets -> Nat] /\ l.holders \subseteq Wallets
  BY DEF LedgerType
<1>4. /\ balances \in [Wallets -> Nat]
      /\ from # to => balances[from] = l.free[from] - n /\ balances[to] = l.free[to] + n
      /\ from = to => balances[from] = l.free[from]
      /\ \A w \in Wallets \ {from, to} : balances[w] = l.free[w]
  BY <1>3
<1>5. /\ joined \in RawLedger
      /\ joined.free = balances
      /\ joined.holders = l.holders \cup {to}
      /\ Excess(joined) = Excess(l)
  <2> HIDE DEF credited, balances
  <2> QED BY <1>1, JoinedExcess DEF Excess
<1> HIDE DEF balances, credited, joined
<1>6. /\ Moved(l, from, to, n).free = balances
      /\ Moved(l, from, to, n).holders =
            IF balances[from] = 0 THEN (l.holders \cup {to}) \ {from} ELSE l.holders \cup {to}
      /\ Excess(Moved(l, from, to, n)) <= Excess(l)
      /\ from \in l.holders => Excess(Moved(l, from, to, n)) = Excess(l)
  <2>1. /\ LeftIfEmpty(joined, from).free = joined.free
        /\ LeftIfEmpty(joined, from).holders =
              IF joined.free[from] = 0 THEN joined.holders \ {from} ELSE joined.holders
        /\ Excess(LeftIfEmpty(joined, from)) <= Excess(joined)
        /\ from \in joined.holders =>
              Excess(LeftIfEmpty(joined, from)) = Excess(joined)
    BY <1>5, LeftExcess
  <2> QED BY <1>2, <1>5, <2>1
<1>7. Excess(l) \in Int /\ Excess(Moved(l, from, to, n)) \in Int
  <2>1. l \in RawLedger /\ Moved(l, from, to, n) \in RawLedger
    BY MovedType DEF LedgerType, RawLedger
  <2> QED BY <2>1, HoldersFinite DEF Excess, RawLedger
<1>8. ASSUME Flagged(l) PROVE Flagged(Moved(l, from, to, n))
  <2>1. ASSUME NEW w \in Wallets, balances[w] > 0
        PROVE  w \in Moved(l, from, to, n).holders
    <3>1. CASE w = to
      BY <1>4, <1>6, <2>1, <3>1
    <3>2. CASE w # to
      <4>1. w \in l.holders
        BY <1>3, <1>4, <1>8, <2>1, <3>2 DEF Flagged, WithBalance
      <4> QED BY <1>6, <2>1, <4>1
    <3> QED BY <3>1, <3>2
  <2> QED BY <1>6, <1>7, <1>8, <2>1 DEF Flagged, WithBalance
<1>9. ASSUME Accurate(l), n > 0 PROVE Accurate(Moved(l, from, to, n))
  <2>1. from \in l.holders
    BY <1>3, <1>9 DEF Accurate, WithBalance
  <2>2. ASSUME NEW w \in Wallets
        PROVE  balances[w] > 0 <=> w \in Moved(l, from, to, n).holders
    <3>1. l.free[w] > 0 <=> w \in l.holders
      BY <1>9 DEF Accurate, WithBalance
    <3>2. CASE w \notin {from, to}
      BY <1>4, <1>6, <3>1, <3>2
    <3>3. CASE w = to
      BY <1>3, <1>4, <1>6, <1>9, <3>3
    <3>4. CASE w = from /\ w # to
      BY <1>4, <1>6, <2>1, <3>4
    <3> QED BY <3>2, <3>3, <3>4
  <2>3. Moved(l, from, to, n).holders \subseteq Wallets
    BY <1>3, <1>6
  <2> QED BY <1>6, <1>9, <2>1, <2>2, <2>3 DEF Accurate, WithBalance
<1> QED BY <1>8, <1>9

LEMMA RecoveredTracking ==
    ASSUME NEW l \in LedgerType, NEW lost \in Wallets, NEW new \in Wallets, lost # new
    PROVE  /\ Flagged(l) => Flagged(Recovered(l, lost, new))
           /\ Accurate(l) => Accurate(Recovered(l, lost, new))
<1> DEFINE moved == [l.free EXCEPT ![new] = @ + l.free[lost], ![lost] = 0]
           r     == Recovered(l, lost, new)
<1>1. CASE l.free[lost] = 0
  BY <1>1 DEF Recovered
<1>2. CASE l.free[lost] # 0 /\ lost \in l.holders
  <2>1. /\ l.free \in [Wallets -> Nat] /\ l.holders \subseteq Wallets
        /\ l.count \in Int /\ IsFiniteSet(l.holders) /\ Cardinality(l.holders) \in Nat
    <3>1. l \in RawLedger
      BY DEF LedgerType, RawLedger
    <3> QED BY <3>1, HoldersFinite DEF LedgerType
  <2>2. /\ r.free = moved
        /\ r.holders = (l.holders \ {lost}) \cup {new}
        /\ r.count = IF new \in l.holders THEN l.count - 1 ELSE l.count
    BY <1>2 DEF Recovered, Ledger
  <2>3. Cardinality(r.holders) =
            IF new \in l.holders THEN Cardinality(l.holders) - 1 ELSE Cardinality(l.holders)
    <3>1. /\ IsFiniteSet(l.holders \ {lost})
          /\ Cardinality(l.holders \ {lost}) = Cardinality(l.holders) - 1
      BY <1>2, <2>1, FS_RemoveElement
    <3>2. Cardinality((l.holders \ {lost}) \cup {new}) =
              IF new \in l.holders \ {lost} THEN Cardinality(l.holders \ {lost})
              ELSE Cardinality(l.holders \ {lost}) + 1
      BY <3>1, FS_AddElement
    <3> QED BY <2>1, <2>2, <3>1, <3>2
  <2>4. Excess(r) = Excess(l)
    BY <2>1, <2>2, <2>3 DEF Excess
  <2>5. /\ moved[lost] = 0
        /\ moved[new] = l.free[new] + l.free[lost]
        /\ \A w \in Wallets \ {lost, new} : moved[w] = l.free[w]
    BY <2>1
  <2> HIDE DEF moved, r
  <2>6. ASSUME Flagged(l) PROVE Flagged(r)
    BY <2>1, <2>2, <2>4, <2>5, <2>6 DEF Flagged, WithBalance
  <2>7. ASSUME Accurate(l) PROVE Accurate(r)
    BY <1>2, <2>1, <2>2, <2>4, <2>5, <2>7 DEF Accurate, WithBalance
  <2> QED BY <2>6, <2>7 DEF r
<1>3. CASE l.free[lost] # 0 /\ lost \notin l.holders
  <2>1. ~Flagged(l) /\ ~Accurate(l)
    BY <1>3 DEF Flagged, Accurate, WithBalance, LedgerType
  <2> QED BY <2>1
<1> QED BY <1>1, <1>2, <1>3

-----------------------------------------------------------------------------
(* Sets of ledgers that no operation leaves *)

\* Whatever the calls do to a ledger of S that the arithmetic does not reject.
Closed(S) ==
    \A l \in S, w, v \in Wallets :
        /\ \A n \in Amounts :
              /\ Fits(Minted(l, w, n)) => Minted(l, w, n) \in S
              /\ n <= l.free[w] /\ Fits(Burned(l, w, n)) => Burned(l, w, n) \in S
              /\ n <= l.free[w] /\ Fits(Moved(l, w, v, n)) => Moved(l, w, v, n) \in S
        /\ w # v /\ Fits(Recovered(l, w, v)) => Recovered(l, w, v) \in S

LEMMA UpdateStays ==
    ASSUME NEW S, NEW f \in [AssetIds -> S], NEW id \in AssetIds, NEW l \in S
    PROVE  [f EXCEPT ![id] = l] \in [AssetIds -> S] /\ [f EXCEPT ![id] = l][id] = l
  OBVIOUS

LEMMA SupplyStays ==
    ASSUME NEW S \in SUBSET LedgerType, Closed(S), TypeOK, ledger \in [AssetIds -> S], SupplyNext
    PROVE  ledger' \in [AssetIds -> S]
<1> USE TokenAssumption
<1>1. ASSUME NEW caller, NEW id \in AssetIds, NEW to \in Wallets, NEW n \in Amounts,
             Mint(caller, id, to, n)
      PROVE  ledger' \in [AssetIds -> S]
  <2>1. ledger' = [ledger EXCEPT ![id] = Minted(ledger[id], to, n)] /\ Fits(ledger'[id])
    BY <1>1 DEF Mint
  <2>2. Minted(ledger[id], to, n) \in S
    BY <2>1 DEF Closed
  <2> QED BY <2>1, <2>2, UpdateStays
<1>2. ASSUME NEW caller, NEW id \in AssetIds, NEW from \in Wallets, NEW n \in Amounts,
             Burn(caller, id, from, n)
      PROVE  ledger' \in [AssetIds -> S]
  <2>1. n <= ledger[id].free[from]
    <3>1. ledger[id] \in LedgerType /\ frozenAmount[id][from] \in Nat /\ n \in Nat
      BY DEF TypeOK
    <3> QED BY <1>2, <3>1, AvailableBound DEF Burn
  <2>2. ledger' = [ledger EXCEPT ![id] = Burned(ledger[id], from, n)] /\ Fits(ledger'[id])
    BY <1>2 DEF Burn
  <2>3. Burned(ledger[id], from, n) \in S
    BY <2>1, <2>2 DEF Closed
  <2> QED BY <2>2, <2>3, UpdateStays
<1>3. ASSUME NEW caller, NEW id \in AssetIds, NEW from \in Wallets, NEW to \in Wallets,
             NEW n \in Amounts, ForcedTransfer(caller, id, from, to, n)
      PROVE  ledger' \in [AssetIds -> S]
  <2>1. /\ ledger' = [ledger EXCEPT ![id] = Moved(ledger[id], from, to, n)]
        /\ n <= ledger[id].free[from] /\ Fits(ledger'[id])
    BY <1>3 DEF ForcedTransfer
  <2>2. Moved(ledger[id], from, to, n) \in S
    BY <2>1 DEF Closed
  <2> QED BY <2>1, <2>2, UpdateStays
<1>4. ASSUME NEW caller, NEW id1 \in AssetIds, NEW to1 \in Wallets, NEW n1 \in Amounts,
             NEW id2 \in AssetIds, NEW to2 \in Wallets, NEW n2 \in Amounts,
             BatchMint(caller, id1, to1, n1, id2, to2, n2)
      PROVE  ledger' \in [AssetIds -> S]
  <2> DEFINE first == [ledger EXCEPT ![id1] = Minted(ledger[id1], to1, n1)]
  <2>1. Fits(first[id1])
    BY <1>4 DEF BatchMint
  <2>2. Minted(ledger[id1], to1, n1) \in S
    BY <2>1 DEF Closed
  <2>3. first \in [AssetIds -> S]
    BY <2>2, UpdateStays
  <2>4. ledger' = [first EXCEPT ![id2] = Minted(first[id2], to2, n2)] /\ Fits(ledger'[id2])
    BY <1>4 DEF BatchMint
  <2> HIDE DEF first
  <2>5. Minted(first[id2], to2, n2) \in S
    BY <2>3, <2>4 DEF Closed
  <2> QED BY <2>3, <2>4, <2>5, UpdateStays
<1> QED BY <1>1, <1>2, <1>3, <1>4 DEF SupplyNext

LEMMA TransferStays ==
    ASSUME NEW S \in SUBSET LedgerType, Closed(S), TypeOK, ledger \in [AssetIds -> S], TransferNext
    PROVE  ledger' \in [AssetIds -> S]
<1> USE TokenAssumption
<1>1. ASSUME NEW l \in S, NEW from \in Wallets, NEW to \in Wallets, NEW id \in AssetIds,
             NEW n \in Amounts, TransferAllowed(id, l, from, to, n), Fits(Moved(l, from, to, n))
      PROVE  Moved(l, from, to, n) \in S
  <2>1. frozenAmount[id][from] \in Nat /\ n \in Nat /\ l \in LedgerType
    BY DEF TypeOK
  <2>2. n <= l.free[from]
    BY <1>1, <2>1, AvailableBound DEF TransferAllowed
  <2> QED BY <1>1, <2>2 DEF Closed
<1>2. ASSUME NEW operator \in Wallets, NEW from \in Wallets, NEW to \in Wallets,
             NEW id \in AssetIds, NEW n \in Amounts, SafeTransferFrom(operator, from, to, id, n)
      PROVE  ledger' \in [AssetIds -> S]
  <2>1. /\ ledger' = [ledger EXCEPT ![id] = Moved(ledger[id], from, to, n)]
        /\ TransferAllowed(id, ledger[id], from, to, n) /\ Fits(ledger'[id])
    BY <1>2 DEF SafeTransferFrom
  <2>2. Moved(ledger[id], from, to, n) \in S
    BY <1>1, <2>1
  <2> QED BY <2>1, <2>2, UpdateStays
<1>3. ASSUME NEW operator \in Wallets, NEW from \in Wallets, NEW to \in Wallets,
             NEW id1 \in AssetIds, NEW n1 \in Amounts, NEW id2 \in AssetIds, NEW n2 \in Amounts,
             SafeBatchTransferFrom(operator, from, to, id1, n1, id2, n2)
      PROVE  ledger' \in [AssetIds -> S]
  <2> DEFINE first == [ledger EXCEPT ![id1] = Moved(ledger[id1], from, to, n1)]
  <2>1. TransferAllowed(id1, ledger[id1], from, to, n1) /\ Fits(first[id1])
    BY <1>3 DEF SafeBatchTransferFrom
  <2>2. Moved(ledger[id1], from, to, n1) \in S
    BY <1>1, <2>1
  <2>3. first \in [AssetIds -> S]
    BY <2>2, UpdateStays
  <2>4. /\ TransferAllowed(id2, first[id2], from, to, n2)
        /\ ledger' = [first EXCEPT ![id2] = Moved(first[id2], from, to, n2)]
        /\ Fits(ledger'[id2])
    BY <1>3 DEF SafeBatchTransferFrom
  <2> HIDE DEF first
  <2>5. Moved(first[id2], from, to, n2) \in S
    BY <1>1, <2>3, <2>4
  <2> QED BY <2>3, <2>4, <2>5, UpdateStays
<1> QED BY <1>2, <1>3 DEF TransferNext

LEMMA RecoveryStays ==
    ASSUME NEW S \in SUBSET LedgerType, Closed(S), TypeOK, ledger \in [AssetIds -> S], RecoveryNext
    PROVE  ledger' \in [AssetIds -> S]
<1>1. PICK caller \in Callers, lost \in Wallets, new \in Wallets : RecoverWallet(caller, lost, new)
  BY DEF RecoveryNext
<1> DEFINE after(id) == IF Registered(id) THEN Recovered(ledger[id], lost, new) ELSE ledger[id]
<1>2. ledger' = [id \in AssetIds |-> after(id)] /\ lost # new /\ \A id \in AssetIds : Fits(ledger'[id])
  BY <1>1 DEF RecoverWallet
<1>3. \A id \in AssetIds : after(id) \in S
  BY <1>2 DEF Closed
<1> HIDE DEF after
<1> QED BY <1>2, <1>3


\* Every other call leaves the ledger as it is.
LEMMA OthersIdle ==
    ASSUME \/ AssetManagerNext \/ ApprovalNext \/ FreezeNext \/ PauseNext \/ IdentityNext
           \/ ComplianceModulesNext \/ Tick \/ UNCHANGED vars
    PROVE  UNCHANGED ledger
<1> USE DEF ledgerVars
<1>1. CASE AssetManagerNext
  BY <1>1, ZenonT(60) DEF AssetManagerNext, RegisterAsset, AddComplianceModule, RemoveComplianceModule,
              SetComplianceModules, SetSupplyCap
<1>2. CASE ApprovalNext
  BY <1>2, ZenonT(60) DEF ApprovalNext, SetApprovalForAll
<1>3. CASE FreezeNext
  BY <1>3, ZenonT(60) DEF FreezeNext, SetWalletFrozen, SetAssetWalletFrozen, SetFrozenAmount, SetLockupExpiry
<1>4. CASE PauseNext
  BY <1>4, ZenonT(60) DEF PauseNext, PauseProtocol, EmergencyPause, UnpauseProtocol, SetAssetPaused
<1>5. CASE IdentityNext
  BY <1>5, ZenonT(60) DEF IdentityNext, RegisterIdentity, BatchRegisterIdentity, UpdateCountry, DeleteIdentity
<1>6. CASE ComplianceModulesNext
  BY <1>6, ZenonT(60) DEF ComplianceModulesNext, SetMaxBalance, SetMaxHolders, SetLockup, ClearLockup,
              RestrictCountry, UnrestrictCountry, BatchRestrictCountries, SetTokenProfile
<1>7. CASE Tick \/ UNCHANGED vars
  BY <1>7 DEF Tick, vars
<1> QED BY <1>1, <1>2, <1>3, <1>4, <1>5, <1>6, <1>7


LEMMA LedgersStay ==
    ASSUME NEW S \in SUBSET LedgerType, Closed(S)
    PROVE  TypeOK /\ ledger \in [AssetIds -> S] /\ [Next]_vars => ledger' \in [AssetIds -> S]
  BY SupplyStays, TransferStays, RecoveryStays, OthersIdle DEF Next

-----------------------------------------------------------------------------
(* Holders *)

\* Both predicates, chosen by whether zero is an amount callers may pass.
Tracked(l) == Flagged(l) /\ (0 \notin Amounts => Accurate(l))

TrackedLedgers == {l \in LedgerType : Tracked(l)}

LEMMA TrackedClosed == EmptyLedger \in TrackedLedgers /\ Closed(TrackedLedgers)
<1>1. EmptyLedger \in TrackedLedgers
  <2>1. /\ EmptyLedger.holders = {} /\ EmptyLedger.count = 0
        /\ WithBalance(EmptyLedger) = {} /\ EmptyLedger \in LedgerType
    BY DEF EmptyLedger, Ledger, WithBalance, LedgerType
  <2> QED BY <2>1, FS_EmptySet DEF TrackedLedgers, Tracked, Flagged, Accurate, Excess
<1>2. ASSUME NEW l \in TrackedLedgers, NEW w \in Wallets, NEW v \in Wallets, NEW n \in Amounts
      PROVE  /\ Fits(Minted(l, w, n)) => Minted(l, w, n) \in TrackedLedgers
             /\ n <= l.free[w] /\ Fits(Burned(l, w, n)) => Burned(l, w, n) \in TrackedLedgers
             /\ n <= l.free[w] /\ Fits(Moved(l, w, v, n)) => Moved(l, w, v, n) \in TrackedLedgers
  <2>1. n \in Nat /\ (0 \notin Amounts => n > 0) /\ l \in LedgerType /\ Tracked(l)
    BY TokenAssumption DEF TrackedLedgers
  <2>2. ASSUME Fits(Minted(l, w, n)) PROVE Minted(l, w, n) \in TrackedLedgers
    BY <2>1, <2>2, MintedTracking, MintedType, FitsType DEF Tracked, TrackedLedgers
  <2>3. ASSUME n <= l.free[w], Fits(Burned(l, w, n)) PROVE Burned(l, w, n) \in TrackedLedgers
    BY <2>1, <2>3, BurnedTracking, BurnedType, FitsType DEF Tracked, TrackedLedgers
  <2>4. ASSUME n <= l.free[w], Fits(Moved(l, w, v, n)) PROVE Moved(l, w, v, n) \in TrackedLedgers
    BY <2>1, <2>4, MovedTracking, MovedType, FitsType DEF Tracked, TrackedLedgers
  <2> QED BY <2>2, <2>3, <2>4
<1>3. ASSUME NEW l \in TrackedLedgers, NEW w \in Wallets, NEW v \in Wallets,
             w # v, Fits(Recovered(l, w, v))
      PROVE  Recovered(l, w, v) \in TrackedLedgers
  <2>1. l \in LedgerType /\ Tracked(l)
    BY DEF TrackedLedgers
  <2> QED BY <1>3, <2>1, RecoveredTracking, RecoveredType, FitsType DEF Tracked, TrackedLedgers
<1> QED BY <1>1, <1>2, <1>3 DEF Closed

LedgersTracked == ledger \in [AssetIds -> TrackedLedgers]

LEMMA AlwaysTracked == Spec => []LedgersTracked
<1>1. Init => LedgersTracked
  BY TrackedClosed DEF Init, LedgersTracked
<1>2. TypeOK /\ LedgersTracked /\ [Next]_vars => LedgersTracked'
  <2>1. TrackedLedgers \in SUBSET LedgerType
    BY DEF TrackedLedgers
  <2> QED BY <2>1, TrackedClosed, LedgersStay DEF LedgersTracked
<1> QED BY <1>1, <1>2, TypeCorrect, PTL DEF Spec

LEMMA TrackedIsFlagged == LedgersTracked => HoldersAreFlagged
<1> SUFFICES ASSUME LedgersTracked, NEW id \in AssetIds
             PROVE  /\ Holding(id) \subseteq ledger[id].holders
                    /\ ledger[id].count <= Cardinality(ledger[id].holders)
  BY DEF HoldersAreFlagged
<1>1. ledger[id] \in RawLedger /\ Tracked(ledger[id])
  BY DEF LedgersTracked, TrackedLedgers, LedgerType, RawLedger
<1>2. ledger[id].count \in Int /\ Cardinality(ledger[id].holders) \in Nat
  BY <1>1, HoldersFinite DEF RawLedger
<1> QED BY <1>1, <1>2 DEF Tracked, Flagged, WithBalance, Holding, Excess

\* Whatever amounts are passed, zero included: no wallet with a balance is
\* without isHolder, and holderCount never exceeds the number of flags.
THEOREM HoldersAlwaysFlagged == Spec => []HoldersAreFlagged
  BY TrackedIsFlagged, AlwaysTracked, PTL

\* When callers pass no amount of zero, holderCount is exactly the number of
\* wallets with a balance, and isHolder is set for exactly those.
THEOREM PositiveAmountsCounted ==
    ASSUME 0 \notin Amounts
    PROVE  Spec => []HolderCountAccuracy
<1>1. LedgersTracked => HolderCountAccuracy
  <2> SUFFICES ASSUME LedgersTracked, NEW id \in AssetIds
               PROVE  /\ ledger[id].count = Cardinality(Holding(id))
                      /\ ledger[id].holders = Holding(id)
    BY DEF HolderCountAccuracy
  <2>1. ledger[id] \in RawLedger /\ Tracked(ledger[id])
    BY DEF LedgersTracked, TrackedLedgers, LedgerType, RawLedger
  <2>2. ledger[id].count \in Int /\ Cardinality(ledger[id].holders) \in Nat
    BY <2>1, HoldersFinite DEF RawLedger
  <2>3. Accurate(ledger[id])
    BY <2>1 DEF Tracked
  <2>4. ledger[id].holders = Holding(id)
    BY <2>3 DEF Accurate, WithBalance, Holding
  <2>5. ledger[id].count = Cardinality(ledger[id].holders)
    BY <2>2, <2>3 DEF Accurate, Excess
  <2> QED BY <2>4, <2>5
<1> QED BY <1>1, AlwaysTracked, PTL

-----------------------------------------------------------------------------
(* Supply *)

SummedLedgers == {l \in LedgerType : l.supply = SumFunction(l.free)}

\* The balances and the supply of a ledger after each update.
LEMMA MintedBooks ==
    ASSUME NEW l \in LedgerType, NEW w \in Wallets, NEW n \in Nat
    PROVE  /\ \A x \in Wallets : Minted(l, w, n).free[x] = IF x = w THEN l.free[x] + n ELSE l.free[x]
           /\ Minted(l, w, n).supply = l.supply + n
  BY DEF Minted, Joined, Ledger, LedgerType

LEMMA BurnedBooks ==
    ASSUME NEW l \in LedgerType, NEW w \in Wallets, NEW n \in Nat
    PROVE  /\ \A x \in Wallets : Burned(l, w, n).free[x] = IF x = w THEN l.free[x] - n ELSE l.free[x]
           /\ Burned(l, w, n).supply = l.supply - n
  BY DEF Burned, LeftIfEmpty, Ledger, LedgerType

LEMMA MovedBooks ==
    ASSUME NEW l \in LedgerType, NEW w \in Wallets, NEW v \in Wallets, NEW n \in Nat
    PROVE  /\ \A x \in Wallets :
                 Moved(l, w, v, n).free[x] = IF w = v THEN l.free[x]
                                             ELSE IF x = w THEN l.free[x] - n
                                             ELSE IF x = v THEN l.free[x] + n ELSE l.free[x]
           /\ Moved(l, w, v, n).supply = l.supply
<1> DEFINE balances == [[l.free EXCEPT ![w] = @ - n] EXCEPT ![v] = @ + n]
           credited == Ledger(balances, l.supply, l.holders, l.count)
           joined   == Joined(credited, v)
<1>1. credited.free = balances /\ credited.supply = l.supply
  BY DEF Ledger
<1>2. joined.free = credited.free /\ joined.supply = credited.supply
  BY DEF Joined, Ledger
<1>3. Moved(l, w, v, n).free = joined.free /\ Moved(l, w, v, n).supply = joined.supply
  <2>1. Moved(l, w, v, n) = LeftIfEmpty(joined, w)
    BY DEF Moved
  <2> HIDE DEF joined
  <2> QED BY <2>1 DEF LeftIfEmpty, Ledger
<1>4. \A x \in Wallets : balances[x] = IF w = v THEN l.free[x]
                                       ELSE IF x = w THEN l.free[x] - n
                                       ELSE IF x = v THEN l.free[x] + n ELSE l.free[x]
  BY DEF LedgerType
<1> HIDE DEF balances, credited, joined
<1> QED BY <1>1, <1>2, <1>3, <1>4

LEMMA RecoveredBooks ==
    ASSUME NEW l \in LedgerType, NEW w \in Wallets, NEW v \in Wallets, w # v
    PROVE  /\ \A x \in Wallets : Recovered(l, w, v).free[x] = IF x = w THEN 0
                                                              ELSE IF x = v THEN l.free[x] + l.free[w]
                                                              ELSE l.free[x]
           /\ Recovered(l, w, v).supply = l.supply
  BY DEF Recovered, Ledger, LedgerType

LEMMA SummedClosed == EmptyLedger \in SummedLedgers /\ Closed(SummedLedgers)
<1> USE TokenAssumption
<1>1. EmptyLedger \in SummedLedgers
  <2>1. EmptyLedger.supply = 0 /\ EmptyLedger.free = [w \in Wallets |-> 0] /\ EmptyLedger \in LedgerType
    BY DEF EmptyLedger, Ledger, LedgerType
  <2> QED BY <2>1, SumOfZeros, Zenon DEF SummedLedgers
<1>2. ASSUME NEW l \in SummedLedgers, NEW m \in LedgerType, NEW w \in Wallets,
             \A x \in Wallets \ {w} : m.free[x] = l.free[x],
             m.supply - l.supply = m.free[w] - l.free[w]
      PROVE  m \in SummedLedgers
  <2>1. /\ l \in LedgerType /\ l.supply = SumFunction(l.free) /\ l.supply \in Int /\ m.supply \in Int
        /\ l.free \in [Wallets -> Int] /\ m.free \in [Wallets -> Int]
    BY DEF SummedLedgers, LedgerType
  <2>2. SumFunction(m.free) = SumFunction(l.free) - l.free[w] + m.free[w]
    BY <1>2, <2>1, SumChange
  <2>3. m.supply = SumFunction(m.free)
    BY <1>2, <2>1, <2>2
  <2> QED BY <2>3 DEF SummedLedgers
<1>3. ASSUME NEW l \in SummedLedgers, NEW m \in LedgerType, NEW w \in Wallets, NEW v \in Wallets,
             \A x \in Wallets \ {w, v} : m.free[x] = l.free[x],
             m.supply = l.supply, w # v, m.free[w] + m.free[v] = l.free[w] + l.free[v]
      PROVE  m \in SummedLedgers
  <2> DEFINE half == [l.free EXCEPT ![w] = m.free[w]]
  <2>1. /\ l \in LedgerType /\ l.supply = SumFunction(l.free) /\ l.supply \in Int
        /\ l.free \in [Wallets -> Int] /\ m.free \in [Wallets -> Int]
    BY DEF SummedLedgers, LedgerType
  <2>2. /\ half \in [Wallets -> Int] /\ half[w] = m.free[w] /\ half[v] = l.free[v]
        /\ \A x \in Wallets \ {w} : half[x] = l.free[x]
        /\ \A x \in Wallets \ {v} : m.free[x] = half[x]
    BY <1>3, <2>1
  <2> HIDE DEF half
  <2>3. SumFunction(half) = SumFunction(l.free) - l.free[w] + half[w]
    BY <2>1, <2>2, SumChange
  <2>4. SumFunction(m.free) = SumFunction(half) - half[v] + m.free[v]
    BY <2>1, <2>2, SumChange
  <2>5. m.supply = SumFunction(m.free)
    BY <1>3, <2>1, <2>2, <2>3, <2>4
  <2> QED BY <2>5 DEF SummedLedgers
<1>4. ASSUME NEW l \in SummedLedgers, NEW w \in Wallets, NEW v \in Wallets, NEW n \in Amounts
      PROVE  /\ Fits(Minted(l, w, n)) => Minted(l, w, n) \in SummedLedgers
             /\ n <= l.free[w] /\ Fits(Burned(l, w, n)) => Burned(l, w, n) \in SummedLedgers
             /\ n <= l.free[w] /\ Fits(Moved(l, w, v, n)) => Moved(l, w, v, n) \in SummedLedgers
  <2>1. n \in Nat /\ l \in LedgerType /\ l.free \in [Wallets -> Nat] /\ l.supply \in Nat
    BY DEF SummedLedgers, LedgerType
  <2>2. ASSUME Fits(Minted(l, w, n)) PROVE Minted(l, w, n) \in SummedLedgers
    <3> DEFINE m == Minted(l, w, n)
    <3>1. m \in LedgerType
      BY <2>1, <2>2, MintedType, FitsType
    <3>2. /\ \A x \in Wallets \ {w} : m.free[x] = l.free[x]
          /\ m.supply - l.supply = m.free[w] - l.free[w]
      BY <2>1, MintedBooks
    <3> QED BY <1>2, <3>1, <3>2
  <2>3. ASSUME n <= l.free[w], Fits(Burned(l, w, n)) PROVE Burned(l, w, n) \in SummedLedgers
    <3> DEFINE m == Burned(l, w, n)
    <3>1. m \in LedgerType
      BY <2>1, <2>3, BurnedType, FitsType
    <3>2. /\ \A x \in Wallets \ {w} : m.free[x] = l.free[x]
          /\ m.supply - l.supply = m.free[w] - l.free[w]
      BY <2>1, BurnedBooks
    <3> QED BY <1>2, <3>1, <3>2
  <2>4. ASSUME n <= l.free[w], Fits(Moved(l, w, v, n)) PROVE Moved(l, w, v, n) \in SummedLedgers
    <3> DEFINE m == Moved(l, w, v, n)
    <3>1. m \in LedgerType
      BY <2>1, <2>4, MovedType, FitsType
    <3>2. CASE w = v
      <4>1. (\A x \in Wallets : m.free[x] = l.free[x]) /\ m.supply = l.supply
        BY <2>1, <3>2, MovedBooks
      <4>2. l.free[w] \in Int /\ l.supply \in Int
        BY <2>1
      <4> HIDE DEF m
      <4> QED BY <1>2, <3>1, <4>1, <4>2 DEF m
    <3>3. CASE w # v
      <4>1. /\ \A x \in Wallets \ {w, v} : m.free[x] = l.free[x]
            /\ m.supply = l.supply
            /\ m.free[w] + m.free[v] = l.free[w] + l.free[v]
        BY <2>1, <3>3, MovedBooks
      <4> QED BY <1>3, <3>1, <3>3, <4>1
    <3> QED BY <3>2, <3>3
  <2> QED BY <2>2, <2>3, <2>4
<1>5. ASSUME NEW l \in SummedLedgers, NEW w \in Wallets, NEW v \in Wallets,
             w # v, Fits(Recovered(l, w, v))
      PROVE  Recovered(l, w, v) \in SummedLedgers
  <2> DEFINE m == Recovered(l, w, v)
  <2>1. l \in LedgerType /\ l.free \in [Wallets -> Nat]
    BY DEF SummedLedgers, LedgerType
  <2>2. m \in LedgerType
    BY <1>5, <2>1, RecoveredType, FitsType
  <2>3. /\ \A x \in Wallets \ {w, v} : m.free[x] = l.free[x]
        /\ m.supply = l.supply
        /\ m.free[w] + m.free[v] = l.free[w] + l.free[v]
    BY <1>5, <2>1, RecoveredBooks
  <2> QED BY <1>3, <1>5, <2>2, <2>3
<1> QED BY <1>1, <1>4, <1>5 DEF Closed

LedgersSummed == ledger \in [AssetIds -> SummedLedgers]

LEMMA SummedIsSum == LedgersSummed => SupplyIsSumOfBalances
  BY DEF LedgersSummed, SummedLedgers, SupplyIsSumOfBalances

\* Of every tokenId as many units are in the wallets as totalSupply says, after
\* any sequence of mints, burns, transfers, batches and recoveries.
THEOREM SupplyAlwaysSum == Spec => []SupplyIsSumOfBalances
<1>1. Init => LedgersSummed
  BY SummedClosed DEF Init, LedgersSummed
<1>2. TypeOK /\ LedgersSummed /\ [Next]_vars => LedgersSummed'
  <2>1. SummedLedgers \in SUBSET LedgerType
    BY DEF SummedLedgers
  <2> QED BY <2>1, SummedClosed, LedgersStay DEF LedgersSummed
<1> QED BY <1>1, <1>2, SummedIsSum, TypeCorrect, PTL DEF Spec

-----------------------------------------------------------------------------
(* The cap *)

GrowthFits(id) ==
    ledger'[id].supply > ledger[id].supply /\ asset'[id].cap # 0
        => ledger'[id].supply <= asset'[id].cap

\* Transfers and recoveries move units and make none.
LEMMA SupplyKept ==
    ASSUME TypeOK, TransferNext \/ RecoveryNext, NEW id \in AssetIds
    PROVE  ledger'[id].supply = ledger[id].supply
<1> USE TokenAssumption
<1>1. ledger \in [AssetIds -> LedgerType]
  BY DEF TypeOK
<1>2. ASSUME NEW k \in AssetIds, NEW from \in Wallets, NEW to \in Wallets, NEW n \in Amounts,
             NEW f \in [AssetIds -> LedgerType]
      PROVE  [f EXCEPT ![k] = Moved(@, from, to, n)][id].supply = f[id].supply
  BY MovedBooks
<1>3. ASSUME NEW operator \in Wallets, NEW from \in Wallets, NEW to \in Wallets,
             NEW k \in AssetIds, NEW n \in Amounts, SafeTransferFrom(operator, from, to, k, n)
      PROVE  ledger'[id].supply = ledger[id].supply
  BY <1>1, <1>2, <1>3 DEF SafeTransferFrom
<1>4. ASSUME NEW operator \in Wallets, NEW from \in Wallets, NEW to \in Wallets,
             NEW k \in AssetIds, NEW n \in Amounts, NEW k2 \in AssetIds, NEW n2 \in Amounts,
             SafeBatchTransferFrom(operator, from, to, k, n, k2, n2)
      PROVE  ledger'[id].supply = ledger[id].supply
  <2> DEFINE first == [ledger EXCEPT ![k] = Moved(@, from, to, n)]
  <2>1. TransferAllowed(k, ledger[k], from, to, n) /\ Fits(first[k])
    BY <1>4 DEF SafeBatchTransferFrom
  <2>2. first \in [AssetIds -> LedgerType]
    <3>1. ledger[k] \in LedgerType /\ frozenAmount[k][from] \in Nat /\ n \in Nat
      BY DEF TypeOK
    <3>2. n <= ledger[k].free[from]
      BY <2>1, <3>1, AvailableBound DEF TransferAllowed
    <3>3. Moved(ledger[k], from, to, n) \in RawLedger
      BY <3>1, <3>2, MovedType
    <3> QED BY <1>1, <2>1, <3>3, LedgerUpdateType
  <2>3. first[id].supply = ledger[id].supply
    BY <1>1, <1>2
  <2>4. ledger' = [first EXCEPT ![k2] = Moved(@, from, to, n2)]
    BY <1>4 DEF SafeBatchTransferFrom
  <2> HIDE DEF first
  <2>5. CASE id = k2
    <3>1. ledger'[id] = Moved(first[id], from, to, n2)
      BY <2>2, <2>4, <2>5
    <3>2. first[id] \in LedgerType /\ n2 \in Nat
      BY <2>2
    <3>3. Moved(first[id], from, to, n2).supply = first[id].supply
      BY <3>2, MovedBooks
    <3> QED BY <2>3, <3>1, <3>3
  <2>6. CASE id # k2
    <3>1. ledger'[id] = first[id]
      BY <2>2, <2>4, <2>6
    <3> QED BY <2>3, <3>1
  <2> QED BY <2>5, <2>6
<1>5. ASSUME NEW caller, NEW lost \in Wallets, NEW new \in Wallets, RecoverWallet(caller, lost, new)
      PROVE  ledger'[id].supply = ledger[id].supply
  <2>1. ledger'[id] = IF Registered(id) THEN Recovered(ledger[id], lost, new) ELSE ledger[id]
    BY <1>5 DEF RecoverWallet
  <2> QED BY <1>1, <1>5, <2>1, RecoveredBooks DEF RecoverWallet
<1> QED BY <1>3, <1>4, <1>5 DEF TransferNext, RecoveryNext

LEMMA SupplyGrowth ==
    ASSUME TypeOK, SupplyNext, NEW id \in AssetIds
    PROVE  GrowthFits(id)
<1> USE TokenAssumption
<1>1. ledger \in [AssetIds -> LedgerType] /\ \A k \in AssetIds : ledger[k].supply \in Nat
  BY DEF TypeOK, LedgerType
<1>2. ASSUME NEW caller, NEW k \in AssetIds, NEW to \in Wallets, NEW n \in Amounts,
             Mint(caller, k, to, n)
      PROVE  GrowthFits(id)
  BY <1>1, <1>2, MintedBooks DEF Mint, MintAllowed, GrowthFits
<1>3. ASSUME NEW caller, NEW k \in AssetIds, NEW from \in Wallets, NEW n \in Amounts,
             Burn(caller, k, from, n)
      PROVE  GrowthFits(id)
  BY <1>1, <1>3, BurnedBooks DEF Burn, GrowthFits
<1>4. ASSUME NEW caller, NEW k \in AssetIds, NEW from \in Wallets, NEW to \in Wallets,
             NEW n \in Amounts, ForcedTransfer(caller, k, from, to, n)
      PROVE  GrowthFits(id)
  BY <1>1, <1>4, MovedBooks DEF ForcedTransfer, GrowthFits
<1>5. ASSUME NEW caller, NEW k \in AssetIds, NEW to \in Wallets, NEW n \in Amounts,
             NEW k2 \in AssetIds, NEW to2 \in Wallets, NEW n2 \in Amounts,
             BatchMint(caller, k, to, n, k2, to2, n2)
      PROVE  GrowthFits(id)
  <2> DEFINE first == [ledger EXCEPT ![k] = Minted(@, to, n)]
  <2>1. /\ Fits(first[k]) /\ asset' = asset
        /\ asset[k].cap # 0 => ledger[k].supply + n <= asset[k].cap
        /\ asset[k2].cap # 0 => first[k2].supply + n2 <= asset[k2].cap
        /\ ledger' = [first EXCEPT ![k2] = Minted(@, to2, n2)]
    BY <1>5 DEF BatchMint, MintAllowed
  <2>2. first \in [AssetIds -> LedgerType]
    <3>1. Minted(ledger[k], to, n) \in RawLedger
      BY <1>1, MintedType
    <3> QED BY <1>1, <2>1, <3>1, LedgerUpdateType
  <2>3. first[id].supply = IF id = k THEN ledger[k].supply + n ELSE ledger[id].supply
    BY <1>1, MintedBooks
  <2> HIDE DEF first
  <2>4. ledger'[id].supply = IF id = k2 THEN first[k2].supply + n2 ELSE first[id].supply
    <3>1. ledger'[id] = IF id = k2 THEN Minted(first[k2], to2, n2) ELSE first[id]
      BY <2>1, <2>2
    <3>2. Minted(first[k2], to2, n2).supply = first[k2].supply + n2
      <4>1. first[k2] \in LedgerType /\ n2 \in Nat
        BY <2>2
      <4> QED BY <4>1, MintedBooks
    <3> QED BY <3>1, <3>2
  <2> QED BY <1>1, <2>1, <2>3, <2>4 DEF GrowthFits
<1> QED BY <1>2, <1>3, <1>4, <1>5 DEF SupplyNext

LEMMA NextGrowth ==
    ASSUME TypeOK, [Next]_vars, NEW id \in AssetIds
    PROVE  GrowthFits(id)
<1>1. ledger[id].supply \in Nat
  BY DEF TypeOK, LedgerType
<1>2. CASE TransferNext \/ RecoveryNext
  BY <1>1, <1>2, SupplyKept DEF GrowthFits
<1>3. CASE SupplyNext
  BY <1>3, SupplyGrowth
<1>4. CASE UNCHANGED ledger
  BY <1>1, <1>4 DEF GrowthFits
<1> QED BY <1>2, <1>3, <1>4, OthersIdle DEF Next

\* A supply that grows stays within the cap in force, item by item of a batch
\* too, and whatever the cap was when the units before were minted.
THEOREM CapBindsGrowth == Spec => GrowthWithinCap
<1>1. TypeOK /\ [Next]_vars => [\A id \in AssetIds : GrowthFits(id)]_vars
  BY NextGrowth
<1> QED BY <1>1, TypeCorrect, PTL DEF Spec, GrowthWithinCap, GrowthFits

-----------------------------------------------------------------------------
(* Transfers and the rules of the compliance modules *)

\* One item of a transfer, on the ledger l of its tokenId.
Item(id, l, from, to, n) ==
    /\ TransferAllowed(id, l, from, to, n)
    /\ Fits(Moved(l, from, to, n))

\* What a transfer makes of the ledger l of a tokenId: nothing, one item or two.
Transferred(id, l, from, to, m) ==
    \/ m = l
    \/ \E n \in Amounts : Item(id, l, from, to, n) /\ m = Moved(l, from, to, n)
    \/ \E n1, n2 \in Amounts :
          /\ Item(id, l, from, to, n1)
          /\ Item(id, Moved(l, from, to, n1), from, to, n2)
          /\ m = Moved(Moved(l, from, to, n1), from, to, n2)

LEMMA TransferSteps ==
    ASSUME TypeOK, TransferNext
    PROVE  \E from, to \in Wallets :
              \A id \in AssetIds : Transferred(id, ledger[id], from, to, ledger'[id])
<1>1. ledger \in [AssetIds -> LedgerType]
  BY DEF TypeOK
<1>2. ASSUME NEW operator \in Wallets, NEW from \in Wallets, NEW to \in Wallets,
             NEW k \in AssetIds, NEW n \in Amounts, SafeTransferFrom(operator, from, to, k, n),
             NEW id \in AssetIds
      PROVE  Transferred(id, ledger[id], from, to, ledger'[id])
  <2>1. /\ ledger' = [ledger EXCEPT ![k] = Moved(ledger[k], from, to, n)]
        /\ TransferAllowed(k, ledger[k], from, to, n) /\ Fits(ledger'[k])
    BY <1>2 DEF SafeTransferFrom
  <2>2. CASE id = k
    <3>1. ledger'[id] = Moved(ledger[id], from, to, n) /\ Item(id, ledger[id], from, to, n)
      BY <1>1, <2>1, <2>2 DEF Item
    <3> QED BY <3>1 DEF Transferred
  <2>3. CASE id # k
    BY <1>1, <2>1, <2>3 DEF Transferred
  <2> QED BY <2>2, <2>3
<1>3. ASSUME NEW operator \in Wallets, NEW from \in Wallets, NEW to \in Wallets,
             NEW k \in AssetIds, NEW n \in Amounts, NEW k2 \in AssetIds, NEW n2 \in Amounts,
             SafeBatchTransferFrom(operator, from, to, k, n, k2, n2), NEW id \in AssetIds
      PROVE  Transferred(id, ledger[id], from, to, ledger'[id])
  <2> DEFINE first == [ledger EXCEPT ![k] = Moved(ledger[k], from, to, n)]
  <2>1. TransferAllowed(k, ledger[k], from, to, n) /\ Fits(first[k])
    BY <1>3 DEF SafeBatchTransferFrom
  <2>2. /\ TransferAllowed(k2, first[k2], from, to, n2) /\ Fits(ledger'[k2])
        /\ ledger' = [first EXCEPT ![k2] = Moved(first[k2], from, to, n2)]
    BY <1>3 DEF SafeBatchTransferFrom
  <2>3. /\ DOMAIN first = AssetIds
        /\ first[k] = Moved(ledger[k], from, to, n)
        /\ \A a \in AssetIds \ {k} : first[a] = ledger[a]
    BY <1>1
  <2> HIDE DEF first
  <2>4. /\ ledger'[k2] = Moved(first[k2], from, to, n2)
        /\ id # k2 => ledger'[id] = first[id]
    BY <2>2, <2>3
  <2>5. Item(k, ledger[k], from, to, n) /\ Item(k2, first[k2], from, to, n2)
    BY <2>1, <2>2, <2>3, <2>4 DEF Item
  <2>6. CASE id = k /\ id = k2
    BY <2>3, <2>4, <2>5, <2>6 DEF Transferred
  <2>7. CASE id = k /\ id # k2
    BY <2>3, <2>4, <2>5, <2>7 DEF Transferred
  <2>8. CASE id # k /\ id = k2
    BY <2>3, <2>4, <2>5, <2>8 DEF Transferred
  <2>9. CASE id # k /\ id # k2
    BY <2>3, <2>4, <2>9 DEF Transferred
  <2> QED BY <2>6, <2>7, <2>8, <2>9
<1> QED BY <1>2, <1>3 DEF TransferNext

\* What an item that is allowed says of the amount and of the ledger after it.
LEMMA ItemMoves ==
    ASSUME TypeOK, NEW id \in AssetIds, NEW l \in LedgerType, NEW from \in Wallets,
           NEW to \in Wallets, NEW n \in Amounts, Item(id, l, from, to, n)
    PROVE  /\ n \in Nat /\ n <= l.free[from]
           /\ Moved(l, from, to, n) \in LedgerType
<1>1. n \in Nat /\ frozenAmount[id][from] \in Nat
  BY TokenAssumption DEF TypeOK
<1>2. n <= l.free[from]
  BY <1>1, AvailableBound DEF Item, TransferAllowed
<1>3. Moved(l, from, to, n) \in LedgerType
  BY <1>1, <1>2, MovedType, FitsType DEF Item
<1> QED BY <1>1, <1>2, <1>3

\* A property of the two ends of an item, whatever the ledger before it, is one of
\* the two ends of a transfer when it composes.
LEMMA OneItemOrTwo ==
    ASSUME TypeOK, NEW S \in SUBSET LedgerType, Closed(S), NEW R \in SUBSET (S \X S),
           NEW id \in AssetIds, NEW l \in S, NEW from \in Wallets, NEW to \in Wallets,
           NEW m, Transferred(id, l, from, to, m),
           \A k \in S : <<k, k>> \in R,
           \A k \in S, n \in Amounts :
              Item(id, k, from, to, n) => <<k, Moved(k, from, to, n)>> \in R,
           \A j, k, h \in S : <<j, k>> \in R /\ <<k, h>> \in R => <<j, h>> \in R
    PROVE  m \in S /\ <<l, m>> \in R
<1>1. CASE m = l
  BY <1>1
<1>2. ASSUME NEW k \in S, NEW n \in Amounts, Item(id, k, from, to, n)
      PROVE  Moved(k, from, to, n) \in S
  <2>1. k \in LedgerType
    OBVIOUS
  <2>2. n <= k.free[from]
    BY <1>2, <2>1, ItemMoves
  <2> QED BY <1>2, <2>2 DEF Closed, Item
<1>3. CASE \E n \in Amounts : Item(id, l, from, to, n) /\ m = Moved(l, from, to, n)
  BY <1>2, <1>3
<1>4. ASSUME NEW n1 \in Amounts, NEW n2 \in Amounts,
             Item(id, l, from, to, n1), Item(id, Moved(l, from, to, n1), from, to, n2),
             m = Moved(Moved(l, from, to, n1), from, to, n2)
      PROVE  m \in S /\ <<l, m>> \in R
  <2> DEFINE k == Moved(l, from, to, n1)
  <2>1. k \in S /\ <<l, k>> \in R
    BY <1>2, <1>4
  <2> HIDE DEF k
  <2>2. m \in S /\ <<k, m>> \in R
    BY <1>2, <1>4, <2>1 DEF k
  <2> QED BY <2>1, <2>2
<1> QED BY <1>1, <1>3, <1>4 DEF Transferred

LEMMA LedgerTypeClosed == Closed(LedgerType)
  BY TokenAssumption, MintedType, BurnedType, MovedType, RecoveredType, FitsType DEF Closed

\* With MaxBalance plugged in no transfer lifts a wallet above the holding limit,
\* by one item or by the two of a batch that carry the same tokenId.
THEOREM HoldingLimitKept == Spec => HoldingLimitBinds
<1> DEFINE Kept(id, w) ==
        /\ "MaxBalance" \in asset[id].modules
        /\ rules[id].maxBalance # 0
        /\ ledger'[id].free[w] > ledger[id].free[w]
        /\ TransferNext
        => ledger'[id].free[w] <= rules[id].maxBalance
<1>1. ASSUME TypeOK, [Next]_vars, NEW id \in AssetIds, NEW w \in Wallets PROVE Kept(id, w)
  <2> SUFFICES ASSUME "MaxBalance" \in asset[id].modules, rules[id].maxBalance # 0, TransferNext,
                      ledger'[id].free[w] > ledger[id].free[w]
               PROVE  ledger'[id].free[w] <= rules[id].maxBalance
    OBVIOUS
  <2> DEFINE limit == rules[id].maxBalance
             R == {p \in LedgerType \X LedgerType :
                     p[2].free[w] > p[1].free[w] => p[2].free[w] <= limit}
  <2>1. PICK from \in Wallets, to \in Wallets : Transferred(id, ledger[id], from, to, ledger'[id])
    BY <1>1, TransferSteps
  <2>2. ledger[id] \in LedgerType /\ limit \in Nat /\ \A l \in LedgerType : l.free[w] \in Nat
    BY <1>1 DEF TypeOK, RuleType, LedgerType
  <2>3. ASSUME NEW k \in LedgerType, NEW n \in Amounts, Item(id, k, from, to, n)
        PROVE  <<k, Moved(k, from, to, n)>> \in R
    <3>1. n \in Nat /\ Moved(k, from, to, n) \in LedgerType
      BY <1>1, <2>3, ItemMoves
    <3>2. k.free[to] + n <= limit
      BY <2>3 DEF Item, TransferAllowed, CanTransfer, MaxBalanceAllows
    <3>3. Moved(k, from, to, n).free[w] = IF from = to THEN k.free[w]
                                          ELSE IF w = from THEN k.free[w] - n
                                          ELSE IF w = to THEN k.free[w] + n ELSE k.free[w]
      BY <3>1, MovedBooks
    <3>4. k.free[w] \in Nat
      BY <2>2
    <3>5. Moved(k, from, to, n).free[w] > k.free[w] => Moved(k, from, to, n).free[w] <= limit
      BY <3>1, <3>2, <3>3, <3>4
    <3> QED BY <3>1, <3>5
  <2>4. \A k \in LedgerType : <<k, k>> \in R
    BY <2>2
  <2>5. \A j, k, h \in LedgerType : <<j, k>> \in R /\ <<k, h>> \in R => <<j, h>> \in R
    BY <2>2
  <2>6. R \in SUBSET (LedgerType \X LedgerType)
    OBVIOUS
  <2> HIDE DEF R
  <2>7. ledger'[id] \in LedgerType /\ <<ledger[id], ledger'[id]>> \in R
    BY <1>1, <2>1, <2>2, <2>3, <2>4, <2>5, <2>6, LedgerTypeClosed, OneItemOrTwo
  <2> QED BY <2>7 DEF R
<1>2. TypeOK /\ [Next]_vars => [\A id \in AssetIds, w \in Wallets : Kept(id, w)]_vars
  BY <1>1
<1> QED BY <1>2, TypeCorrect, PTL DEF Spec, HoldingLimitBinds

\* With CountryRestrict or ProducerKyc plugged in units move between wallets of
\* countries that are not blocked, and to registered identities only.
THEOREM PartyRulesKept == Spec => PartyRulesBind
<1> DEFINE Open(id, w)  == "CountryRestrict" \in asset[id].modules => country[w] \notin rules[id].blocked
           Known(id, w) == "ProducerKyc" \in asset[id].modules /\ rules[id].kyc => w \in identified
           Kept(id, w) ==
             /\ ledger'[id].free[w] # ledger[id].free[w]
             /\ TransferNext
             => /\ "CountryRestrict" \in asset[id].modules
                      => country[w] \notin rules[id].blocked
                /\ "ProducerKyc" \in asset[id].modules /\ rules[id].kyc
                      /\ ledger'[id].free[w] > ledger[id].free[w]
                      => w \in identified
<1>1. ASSUME TypeOK, [Next]_vars, NEW id \in AssetIds, NEW w \in Wallets PROVE Kept(id, w)
  <2> SUFFICES ASSUME TransferNext
               PROVE  /\ ledger'[id].free[w] # ledger[id].free[w] => Open(id, w)
                      /\ ledger'[id].free[w] > ledger[id].free[w] => Known(id, w)
    OBVIOUS
  <2> DEFINE R == {p \in LedgerType \X LedgerType :
                     /\ p[2].free[w] # p[1].free[w] => Open(id, w)
                     /\ p[2].free[w] > p[1].free[w] => Known(id, w)}
  <2>1. PICK from \in Wallets, to \in Wallets : Transferred(id, ledger[id], from, to, ledger'[id])
    BY <1>1, TransferSteps
  <2>2. ledger[id] \in LedgerType /\ \A l \in LedgerType : l.free[w] \in Nat
    BY <1>1 DEF TypeOK, LedgerType
  <2>3. ASSUME NEW k \in LedgerType, NEW n \in Amounts, Item(id, k, from, to, n)
        PROVE  <<k, Moved(k, from, to, n)>> \in R
    <3>1. n \in Nat /\ Moved(k, from, to, n) \in LedgerType
      BY <1>1, <2>3, ItemMoves
    <3>2. Open(id, from) /\ Open(id, to)
      <4>1. NoCountry \notin rules[id].blocked
        BY <1>1, TokenAssumption DEF TypeOK, RuleType
      <4> QED BY <2>3, <4>1 DEF Item, TransferAllowed, CanTransfer, CountryAllows
    <3>3. Known(id, to)
      BY <2>3 DEF Item, TransferAllowed, CanTransfer, ProducerKycAllows
    <3>4. Moved(k, from, to, n).free[w] = IF from = to THEN k.free[w]
                                          ELSE IF w = from THEN k.free[w] - n
                                          ELSE IF w = to THEN k.free[w] + n ELSE k.free[w]
      BY <3>1, MovedBooks
    <3>5. k.free[w] \in Nat
      BY <2>2
    <3> HIDE DEF Open, Known
    <3>6. /\ Moved(k, from, to, n).free[w] # k.free[w] => w \in {from, to}
          /\ Moved(k, from, to, n).free[w] > k.free[w] => w = to
      BY <3>1, <3>4, <3>5
    <3> QED BY <3>1, <3>2, <3>3, <3>6
  <2> HIDE DEF Open, Known
  <2>4. \A k \in LedgerType : <<k, k>> \in R
    BY <2>2
  <2>5. \A j, k, h \in LedgerType : <<j, k>> \in R /\ <<k, h>> \in R => <<j, h>> \in R
    BY <2>2
  <2>6. R \in SUBSET (LedgerType \X LedgerType)
    OBVIOUS
  <2> HIDE DEF R
  <2>7. ledger'[id] \in LedgerType /\ <<ledger[id], ledger'[id]>> \in R
    BY <1>1, <2>1, <2>2, <2>3, <2>4, <2>5, <2>6, LedgerTypeClosed, OneItemOrTwo
  <2> QED BY <2>7 DEF R
<1>2. TypeOK /\ [Next]_vars => [\A id \in AssetIds, w \in Wallets : Kept(id, w)]_vars
  BY <1>1
<1> QED BY <1>2, TypeCorrect, PTL DEF Spec, PartyRulesBind

\* An item credits one wallet: where the count is accurate, there is a new holder
\* only if holderCount was below the limit, and then one more at most.
LEMMA ItemHolders ==
    ASSUME TypeOK, 0 \notin Amounts, NEW id \in AssetIds, NEW l \in TrackedLedgers,
           NEW from \in Wallets, NEW to \in Wallets, NEW n \in Amounts, Item(id, l, from, to, n),
           "MaxHolders" \in asset[id].modules, rules[id].maxHolders # 0,
           Cardinality(WithBalance(Moved(l, from, to, n))) > Cardinality(WithBalance(l))
    PROVE  Cardinality(WithBalance(Moved(l, from, to, n))) <= rules[id].maxHolders
<1> DEFINE m == Moved(l, from, to, n)
<1>1. l \in LedgerType /\ Accurate(l) /\ l \in RawLedger
  BY DEF TrackedLedgers, Tracked, LedgerType, RawLedger
<1>2. n \in Nat /\ n <= l.free[from] /\ m \in LedgerType
  BY <1>1, ItemMoves
<1>3. IsFiniteSet(WithBalance(l)) /\ Cardinality(WithBalance(l)) = l.count /\ l.count \in Nat
  <2>1. l.holders = WithBalance(l) /\ Excess(l) = 0 /\ IsFiniteSet(l.holders)
        /\ Cardinality(l.holders) \in Nat
    BY <1>1, HoldersFinite DEF Accurate
  <2>2. l.count \in Nat
    BY <1>1 DEF LedgerType
  <2> QED BY <2>1, <2>2 DEF Excess
<1>4. l.free \in [Wallets -> Nat] /\ rules[id].maxHolders \in Nat
  BY <1>1 DEF LedgerType, TypeOK, RuleType
<1>5. WithBalance(m) \subseteq WithBalance(l) \cup {to}
  <2>1. ASSUME NEW w \in Wallets, m.free[w] > 0 PROVE w = to \/ l.free[w] > 0
    <3>1. m.free[w] = IF from = to THEN l.free[w]
                      ELSE IF w = from THEN l.free[w] - n
                      ELSE IF w = to THEN l.free[w] + n ELSE l.free[w]
      BY <1>1, <1>2, MovedBooks
    <3>2. l.free[w] \in Nat
      BY <1>4
    <3> HIDE DEF m
    <3> QED BY <1>2, <2>1, <3>1, <3>2
  <2> HIDE DEF m
  <2> QED BY <2>1 DEF WithBalance
<1> HIDE DEF m
<1>6. /\ IsFiniteSet(WithBalance(l) \cup {to})
      /\ Cardinality(WithBalance(l) \cup {to}) =
            IF to \in WithBalance(l) THEN l.count ELSE l.count + 1
  BY <1>3, FS_AddElement
<1>7. Cardinality(WithBalance(m)) <= IF to \in WithBalance(l) THEN l.count ELSE l.count + 1
  BY <1>5, <1>6, FS_Subset
<1>8. Cardinality(WithBalance(m)) \in Nat
  BY <1>5, <1>6, FS_Subset, FS_CardinalityType
<1>9. to \notin WithBalance(l)
  BY <1>3, <1>7, <1>8 DEF m
<1>10. l.count < rules[id].maxHolders
  <2>1. ~(l.free[to] > 0)
    BY <1>9 DEF WithBalance
  <2> QED BY <2>1 DEF Item, TransferAllowed, CanTransfer, MaxHoldersAllows
<1> QED BY <1>3, <1>4, <1>7, <1>8, <1>9, <1>10 DEF m

\* With MaxHolders plugged in, and no transfers of nothing, the wallets that hold
\* the asset never become more than the limit by a transfer.
THEOREM HolderLimitKept ==
    ASSUME 0 \notin Amounts
    PROVE  Spec => HolderLimitBinds
<1> DEFINE Kept(id) ==
        /\ "MaxHolders" \in asset[id].modules
        /\ rules[id].maxHolders # 0
        /\ Cardinality(Holding(id)') > Cardinality(Holding(id))
        /\ TransferNext
        => Cardinality(Holding(id)') <= rules[id].maxHolders
<1>1. ASSUME TypeOK, LedgersTracked, [Next]_vars, NEW id \in AssetIds PROVE Kept(id)
  <2> SUFFICES ASSUME "MaxHolders" \in asset[id].modules, rules[id].maxHolders # 0, TransferNext,
                      Cardinality(Holding(id)') > Cardinality(Holding(id))
               PROVE  Cardinality(Holding(id)') <= rules[id].maxHolders
    OBVIOUS
  <2> DEFINE limit == rules[id].maxHolders
             S == TrackedLedgers
             Size(l) == Cardinality(WithBalance(l))
             R == {p \in S \X S : Size(p[2]) > Size(p[1]) => Size(p[2]) <= limit}
  <2>1. PICK from \in Wallets, to \in Wallets : Transferred(id, ledger[id], from, to, ledger'[id])
    BY <1>1, TransferSteps
  <2>2. ledger[id] \in S /\ limit \in Nat
    BY <1>1 DEF TypeOK, RuleType, LedgersTracked
  <2>3. S \in SUBSET LedgerType /\ Closed(S)
    BY TrackedClosed DEF TrackedLedgers
  <2>4. ASSUME NEW l \in S PROVE Size(l) \in Nat
    <3>1. WithBalance(l) \subseteq Wallets
      BY DEF WithBalance
    <3> QED BY <3>1, TokenAssumption, FS_Subset, FS_CardinalityType
  <2>5. ASSUME NEW k \in S, NEW n \in Amounts, Item(id, k, from, to, n)
        PROVE  <<k, Moved(k, from, to, n)>> \in R
    <3>1. Moved(k, from, to, n) \in S
      <4>1. k \in LedgerType
        BY <2>3
      <4>2. n <= k.free[from]
        BY <1>1, <2>5, <4>1, ItemMoves
      <4> QED BY <2>3, <2>5, <4>2 DEF Closed, Item
    <3> QED BY <1>1, <2>5, <3>1, ItemHolders
  <2> HIDE DEF S, Size
  <2>6. \A k \in S : <<k, k>> \in R
    BY <2>4
  <2>7. \A j, k, h \in S : <<j, k>> \in R /\ <<k, h>> \in R => <<j, h>> \in R
    BY <2>2, <2>4
  <2>8. R \in SUBSET (S \X S)
    OBVIOUS
  <2> HIDE DEF R
  <2>9. <<ledger[id], ledger'[id]>> \in R
    BY <1>1, <2>1, <2>2, <2>3, <2>5, <2>6, <2>7, <2>8, OneItemOrTwo
  <2> QED BY <2>9 DEF R, Size, WithBalance, Holding
<1>2. TypeOK /\ LedgersTracked /\ [Next]_vars => [\A id \in AssetIds : Kept(id)]_vars
  BY <1>1
<1> QED BY <1>2, TypeCorrect, AlwaysTracked, PTL DEF Spec, HolderLimitBinds

-----------------------------------------------------------------------------
(* The register of shares *)

\* Nothing was ever done to the ledger of a tokenId that is not registered.
Unissued == \A id \in AssetIds : ~Registered(id) => ledger[id] = EmptyLedger

\* Assets are registered one at a time, by calls that touch no ledger.
LEMMA RegistryGrows ==
    ASSUME TypeOK, [Next]_vars
    PROVE  \/ registered' = registered
           \/ registered' = registered + 1 /\ UNCHANGED ledger
<1>1. CASE SupplyNext
  <2>1. ASSUME NEW caller, NEW k, NEW w, NEW n, NEW k2, NEW w2, NEW n2,
               BatchMint(caller, k, w, n, k2, w2, n2)
        PROVE  UNCHANGED registered
    BY <2>1 DEF BatchMint
  <2>2. ASSUME NEW caller, NEW k, NEW w, NEW n,
               \/ Mint(caller, k, w, n) \/ Burn(caller, k, w, n)
               \/ \E to \in Wallets : ForcedTransfer(caller, k, w, to, n)
        PROVE  UNCHANGED registered
    BY <2>2 DEF Mint, Burn, ForcedTransfer
  <2> QED BY <1>1, <2>1, <2>2 DEF SupplyNext
<1>2. CASE TransferNext
  <2>1. ASSUME NEW operator, NEW from, NEW to, NEW k, NEW n, NEW k2, NEW n2,
               SafeBatchTransferFrom(operator, from, to, k, n, k2, n2)
        PROVE  UNCHANGED registered
    BY <2>1 DEF SafeBatchTransferFrom
  <2>2. ASSUME NEW operator, NEW from, NEW to, NEW k, NEW n,
               SafeTransferFrom(operator, from, to, k, n)
        PROVE  UNCHANGED registered
    BY <2>2 DEF SafeTransferFrom
  <2> QED BY <1>2, <2>1, <2>2, ZenonT(60) DEF TransferNext
<1>3. CASE RecoveryNext
  BY <1>3 DEF RecoveryNext, RecoverWallet
<1>4. CASE AssetManagerNext
  BY <1>4, ZenonT(60) DEF AssetManagerNext, RegisterAsset, AddComplianceModule, RemoveComplianceModule,
            SetComplianceModules, SetSupplyCap
<1>5. CASE ApprovalNext \/ FreezeNext
  BY <1>5, ZenonT(60) DEF ledgerVars, ApprovalNext, SetApprovalForAll, FreezeNext, SetWalletFrozen,
     SetAssetWalletFrozen, SetFrozenAmount, SetLockupExpiry
<1>6. CASE PauseNext
  BY <1>6, ZenonT(60) DEF ledgerVars, PauseNext, PauseProtocol, EmergencyPause, UnpauseProtocol,
     SetAssetPaused
<1>7. CASE IdentityNext
  BY <1>7, ZenonT(60) DEF ledgerVars, IdentityNext, RegisterIdentity, BatchRegisterIdentity,
     UpdateCountry, DeleteIdentity
<1>8. CASE ComplianceModulesNext
  BY <1>8, ZenonT(60) DEF ledgerVars, ComplianceModulesNext, SetMaxBalance, SetMaxHolders, SetLockup,
     ClearLockup, RestrictCountry, UnrestrictCountry, BatchRestrictCountries, SetTokenProfile
<1>9. CASE Tick \/ UNCHANGED vars
  BY <1>9 DEF Tick, ledgerVars, vars
<1> QED BY <1>1, <1>2, <1>3, <1>4, <1>5, <1>6, <1>7, <1>8, <1>9 DEF Next

LEMMA NextUnissued == TypeOK /\ Unissued /\ [Next]_vars => Unissued'
<1> SUFFICES ASSUME TypeOK, Unissued, [Next]_vars PROVE Unissued'
  OBVIOUS
<1>1. registered \in Nat /\ ledger \in [AssetIds -> LedgerType]
  BY DEF TypeOK
<1>2. ASSUME NEW id \in AssetIds, ~Registered(id) PROVE ledger'[id] = ledger[id]
  <2>1. CASE SupplyNext
    <3>1. ASSUME NEW caller, NEW k \in AssetIds, NEW w \in Wallets, NEW n \in Amounts,
                 \/ Mint(caller, k, w, n) \/ Burn(caller, k, w, n)
                 \/ \E to \in Wallets : ForcedTransfer(caller, k, w, to, n)
          PROVE  ledger'[id] = ledger[id]
      BY <1>1, <1>2, <3>1 DEF Mint, Burn, ForcedTransfer, MintAllowed, AssetActive
    <3>2. ASSUME NEW caller, NEW k \in AssetIds, NEW w \in Wallets, NEW n \in Amounts,
                 NEW k2 \in AssetIds, NEW w2 \in Wallets, NEW n2 \in Amounts,
                 BatchMint(caller, k, w, n, k2, w2, n2)
          PROVE  ledger'[id] = ledger[id]
      <4>1. Registered(k) /\ Registered(k2)
        BY <3>2 DEF BatchMint, MintAllowed, AssetActive
      <4>2. ledger' = [[ledger EXCEPT ![k] = Minted(@, w, n)] EXCEPT ![k2] = Minted(@, w2, n2)]
        BY <3>2 DEF BatchMint
      <4> QED BY <1>1, <1>2, <4>1, <4>2
    <3> QED BY <2>1, <3>1, <3>2 DEF SupplyNext
  <2>2. CASE TransferNext
    <3>1. PICK from \in Wallets, to \in Wallets : Transferred(id, ledger[id], from, to, ledger'[id])
      BY <2>2, TransferSteps
    <3> QED BY <1>2, <3>1 DEF Transferred, Item, TransferAllowed
  <2>3. CASE RecoveryNext
    BY <1>2, <2>3 DEF RecoveryNext, RecoverWallet
  <2> QED BY <2>1, <2>2, <2>3, OthersIdle DEF Next
<1>3. registered' = registered \/ registered' = registered + 1
  BY RegistryGrows
<1> QED BY <1>1, <1>2, <1>3 DEF Unissued, Registered, AssetIds

RegisterInv == TypeOK /\ LedgersSummed /\ Unissued

LEMMA AlwaysRegisterInv == Spec => []RegisterInv
<1>1. Init => RegisterInv
  BY InitType, SummedClosed DEF Init, RegisterInv, LedgersSummed, Unissued
<1>2. RegisterInv /\ [Next]_vars => RegisterInv'
  <2>1. SummedLedgers \in SUBSET LedgerType
    BY DEF SummedLedgers
  <2> QED BY <2>1, NextType, NextUnissued, SummedClosed, LedgersStay DEF RegisterInv, LedgersSummed
<1> QED BY <1>1, <1>2, PTL DEF Spec

\* No wallet has more than the supply.
LEMMA WithinSupply ==
    ASSUME NEW l \in SummedLedgers, NEW w \in Wallets
    PROVE  l.free[w] \in 0..l.supply
<1>1. l.free \in [Wallets -> Nat] /\ l.supply = SumFunction(l.free)
  BY DEF SummedLedgers, LedgerType
<1> QED BY <1>1, TokenAssumption, PartWithinSum

Quantities == [AssetIds -> [Wallets -> Int]]

\* The holdings and the supplies that the ledgers f say.
Held(f)   == [id \in AssetIds |-> f[id].free]
Issued(f) == [id \in AssetIds |-> f[id].supply]

LEMMA UnitsEqual ==
    ASSUME NEW g \in Quantities, NEW h \in Quantities, \A a \in AssetIds, w \in Wallets : g[a][w] = h[a][w]
    PROVE  g = h
<1>1. ASSUME NEW a \in AssetIds PROVE g[a] = h[a]
  BY DEF Quantities
<1> QED BY <1>1 DEF Quantities

LEMMA AddMeans ==
    ASSUME NEW h \in Quantities, NEW a \in AssetIds, NEW w \in Wallets, NEW n \in Int
    PROVE  /\ Register!Add(h, a, w, n) \in Quantities
           /\ \A b \in AssetIds, x \in Wallets :
                 Register!Add(h, a, w, n)[b][x] = IF b = a /\ x = w THEN h[b][x] + n ELSE h[b][x]
  BY DEF Register!Add, Quantities

LEMMA ShiftMeans ==
    ASSUME NEW h \in Quantities, NEW a \in AssetIds, NEW w \in Wallets, NEW v \in Wallets, NEW n \in Int
    PROVE  /\ Register!Shift(h, a, w, v, n) \in Quantities
           /\ \A b \in AssetIds, x \in Wallets :
                 Register!Shift(h, a, w, v, n)[b][x] =
                    IF b # a \/ w = v THEN h[b][x]
                    ELSE IF x = w THEN h[b][x] - n ELSE IF x = v THEN h[b][x] + n ELSE h[b][x]
<1> DEFINE d == -n
           debited == Register!Add(h, a, w, d)
<1>0. d \in Int /\ \A i \in Int : i + d = i - n
  OBVIOUS
<1> HIDE DEF d
<1>1. /\ debited \in Quantities
      /\ \A b \in AssetIds, x \in Wallets :
            debited[b][x] = IF b = a /\ x = w THEN h[b][x] + d ELSE h[b][x]
  BY <1>0, AddMeans
<1> HIDE DEF debited
<1>2. /\ Register!Add(debited, a, v, n) \in Quantities
      /\ \A b \in AssetIds, x \in Wallets :
            Register!Add(debited, a, v, n)[b][x] = IF b = a /\ x = v THEN debited[b][x] + n ELSE debited[b][x]
  BY <1>1, AddMeans
<1>3. Register!Shift(h, a, w, v, n) = Register!Add(debited, a, v, n)
  BY Zenon DEF Register!Shift, debited, d
<1>4. \A b \in AssetIds, x \in Wallets : h[b][x] \in Int
  BY DEF Quantities
<1> DEFINE shifted == Register!Shift(h, a, w, v, n)
<1>5. ASSUME NEW b \in AssetIds, NEW x \in Wallets
      PROVE  shifted[b][x] =
                    IF b # a \/ w = v THEN h[b][x]
                    ELSE IF x = w THEN h[b][x] - n ELSE IF x = v THEN h[b][x] + n ELSE h[b][x]
  <2>1. shifted[b][x] = IF b = a /\ x = v THEN debited[b][x] + n ELSE debited[b][x]
    BY <1>2, <1>3
  <2>2. debited[b][x] = IF b = a /\ x = w THEN h[b][x] + d ELSE h[b][x]
    BY <1>1
  <2>3. h[b][x] \in Int /\ h[b][x] + d = h[b][x] - n
    BY <1>0, <1>4
  <2> HIDE DEF shifted
  <2>4. CASE b # a
    BY <2>1, <2>2, <2>4
  <2>5. CASE b = a /\ w = v
    BY <2>1, <2>2, <2>3, <2>5
  <2>6. CASE b = a /\ w # v
    BY <2>1, <2>2, <2>3, <2>6
  <2> QED BY <2>4, <2>5, <2>6
<1>6. shifted \in Quantities
  BY <1>2, <1>3
<1> HIDE DEF shifted
<1>7. \A b \in AssetIds, x \in Wallets : shifted[b][x] =
          IF b # a \/ w = v THEN h[b][x]
          ELSE IF x = w THEN h[b][x] - n ELSE IF x = v THEN h[b][x] + n ELSE h[b][x]
  BY <1>5
<1> QED BY <1>6, <1>7 DEF shifted

LEMMA HeldType ==
    ASSUME NEW f \in [AssetIds -> LedgerType]
    PROVE  Held(f) \in Quantities /\ \A a \in AssetIds : Held(f)[a] = f[a].free /\ f[a].free \in [Wallets -> Nat]
  BY DEF Held, Quantities, LedgerType

\* Each update of a ledger is a change of the register.
LEMMA HeldAfter ==
    ASSUME NEW f \in [AssetIds -> LedgerType], NEW a \in AssetIds, NEW w \in Wallets,
           NEW v \in Wallets, NEW n \in Nat,
           NEW g \in [AssetIds -> LedgerType], \A b \in AssetIds \ {a} : g[b] = f[b]
    PROVE  /\ g[a] = Minted(f[a], w, n) => Held(g) = Register!Add(Held(f), a, w, n)
           /\ g[a] = Burned(f[a], w, n) => Held(g) = Register!Add(Held(f), a, w, -n)
           /\ g[a] = Moved(f[a], w, v, n) => Held(g) = Register!Shift(Held(f), a, w, v, n)
<1> DEFINE h == Held(f)
           k == Held(g)
<1>1. /\ h \in Quantities /\ k \in Quantities /\ n \in Int /\ -n \in Int /\ f[a] \in LedgerType
      /\ \A b \in AssetIds : h[b] = f[b].free /\ k[b] = g[b].free
      /\ \A b \in AssetIds \ {a} : k[b] = h[b]
  BY HeldType
<1> HIDE DEF h, k
<1>2. ASSUME g[a] = Minted(f[a], w, n) PROVE k = Register!Add(h, a, w, n)
  <2>1. \A x \in Wallets : k[a][x] = IF x = w THEN h[a][x] + n ELSE h[a][x]
    BY <1>1, <1>2, MintedBooks
  <2> DEFINE u == Register!Add(h, a, w, n)
  <2>2. u \in Quantities /\ \A b \in AssetIds, x \in Wallets :
           u[b][x] = IF b = a /\ x = w THEN h[b][x] + n ELSE h[b][x]
    BY <1>1, AddMeans
  <2> HIDE DEF u
  <2>3. \A b \in AssetIds, x \in Wallets : k[b][x] = u[b][x]
    BY <1>1, <2>1, <2>2
  <2>4. k = u
    BY <1>1, <2>2, <2>3, UnitsEqual
  <2> QED BY <2>4 DEF u
<1>3. ASSUME g[a] = Burned(f[a], w, n) PROVE k = Register!Add(h, a, w, -n)
  <2>1. \A x \in Wallets : k[a][x] = IF x = w THEN h[a][x] - n ELSE h[a][x]
    BY <1>1, <1>3, BurnedBooks
  <2>2. \A x \in Wallets : h[a][x] \in Int
    BY <1>1 DEF Quantities
  <2> DEFINE d == -n
  <2>3. d \in Int /\ \A x \in Wallets : k[a][x] = IF x = w THEN h[a][x] + d ELSE h[a][x]
    BY <2>1, <2>2
  <2> HIDE DEF d
  <2> DEFINE u == Register!Add(h, a, w, d)
  <2>4. u \in Quantities /\ \A b \in AssetIds, x \in Wallets :
           u[b][x] = IF b = a /\ x = w THEN h[b][x] + d ELSE h[b][x]
    BY <1>1, <2>3, AddMeans
  <2> HIDE DEF u
  <2>5. \A b \in AssetIds, x \in Wallets : k[b][x] = u[b][x]
    BY <1>1, <2>3, <2>4
  <2>6. k = u
    BY <1>1, <2>4, <2>5, UnitsEqual
  <2> QED BY <2>6 DEF u, d
<1>4. ASSUME g[a] = Moved(f[a], w, v, n) PROVE k = Register!Shift(h, a, w, v, n)
  <2>1. \A x \in Wallets : k[a][x] = IF w = v THEN h[a][x]
                                     ELSE IF x = w THEN h[a][x] - n
                                     ELSE IF x = v THEN h[a][x] + n ELSE h[a][x]
    BY <1>1, <1>4, MovedBooks
  <2> DEFINE u == Register!Shift(h, a, w, v, n)
  <2>2. u \in Quantities /\ \A b \in AssetIds, x \in Wallets :
           u[b][x] = IF b # a \/ w = v THEN h[b][x]
                     ELSE IF x = w THEN h[b][x] - n ELSE IF x = v THEN h[b][x] + n ELSE h[b][x]
    BY <1>1, ShiftMeans
  <2> HIDE DEF u
  <2>3. \A b \in AssetIds, x \in Wallets : k[b][x] = u[b][x]
    BY <1>1, <2>1, <2>2
  <2>4. k = u
    BY <1>1, <2>2, <2>3, UnitsEqual
  <2> QED BY <2>4 DEF u
<1> QED BY <1>2, <1>3, <1>4 DEF h, k

\* The first of two updates leaves a ledger with the same sum.
LEMMA StaysSummed ==
    ASSUME NEW f \in [AssetIds -> SummedLedgers], NEW a \in AssetIds, NEW w \in Wallets,
           NEW v \in Wallets, NEW n \in Amounts
    PROVE  /\ f \in [AssetIds -> LedgerType] /\ n \in Nat
           /\ Fits(Minted(f[a], w, n)) => Minted(f[a], w, n) \in SummedLedgers
           /\ n <= f[a].free[w] /\ Fits(Moved(f[a], w, v, n)) => Moved(f[a], w, v, n) \in SummedLedgers
  BY SummedClosed, TokenAssumption DEF Closed, SummedLedgers

LEMMA RestraintsKept == LedgerStep => UNCHANGED Register!restraints
  BY DEF LedgerStep, restrainVars, partyVars, Register!restraints, HeldBack, FrozenFor

\* What the guards of a transfer say in the register's terms.
LEMMA GiverMay ==
    ASSUME TypeOK, NEW f \in [AssetIds -> LedgerType], NEW a \in AssetIds,
           NEW from \in Wallets, NEW to \in Wallets, NEW n \in Nat, NEW operator,
           TransferOpen(operator, from, to), TransferAllowed(a, f[a], from, to, n)
    PROVE  Register!MayGive(Held(f), a, from, to, n)
<1> DEFINE h == Held(f)
<1>1. /\ h[a] = f[a].free /\ f[a].free \in [Wallets -> Nat] /\ frozenAmount[a][from] \in Nat
      /\ lockupExpiry[a][from] \in Nat /\ rules[a].cprExpiry \in Nat /\ now \in Nat /\ now > 0
  <2>1. h[a] = f[a].free /\ f[a].free \in [Wallets -> Nat]
    BY HeldType
  <2>2. /\ frozenAmount[a][from] \in Nat /\ lockupExpiry[a][from] \in Nat
        /\ rules[a].cprExpiry \in Nat
    BY DEF TypeOK, RuleType
  <2>3. now \in Nat /\ now > 0
    BY TokenAssumption DEF TypeOK
  <2> QED BY <2>1, <2>2, <2>3
<1> HIDE DEF h
<1>2. n = 0 \/ h[a][from] - n >= frozenAmount[a][from]
  <2>1. n <= Available(f[a], from, frozenAmount[a][from]) /\ f[a].free[from] \in Nat
    BY <1>1 DEF TransferAllowed
  <2> QED BY <1>1, <2>1 DEF Available
<1>3. a \notin {id \in AssetIds : globalPaused \/ asset[id].paused}
  BY DEF TransferOpen, TransferAllowed
<1>4. to \notin FrozenFor(a) /\ from \notin FrozenFor(a)
  BY DEF TransferOpen, TransferAllowed, FrozenFor
<1>5. from \notin HeldBack(a)
  <2>1. ~(now <= lockupExpiry[a][from])
    BY <1>1 DEF TransferAllowed, LockedUp
  <2>2. ~("CprLockup" \in asset[a].modules /\ rules[a].cprExpiry >= now)
    BY <1>1 DEF TransferAllowed, CanTransfer, CprLockupAllows
  <2> QED BY <1>4, <2>1, <2>2 DEF HeldBack
<1> QED BY <1>2, <1>3, <1>4, <1>5 DEF Register!MayGive, h

\* Two gifts, the second on what the first left, are one Gift of the register.
LEMMA TwoGifts ==
    ASSUME RegisterInv, LedgerStep, NEW a \in AssetIds, NEW b \in AssetIds,
           NEW from \in Wallets, NEW to \in Wallets, NEW n \in Nat, NEW m \in Nat,
           NEW f \in [AssetIds -> SummedLedgers],
           Register!MayGive(Held(ledger), a, from, to, n),
           Register!MayGive(Held(f), b, from, to, m),
           Held(f) = Register!Shift(Held(ledger), a, from, to, n),
           Held(ledger') = Register!Shift(Held(f), b, from, to, m),
           Issued(f) = Issued(ledger), Issued(ledger') = Issued(ledger),
           n <= ledger[a].free[from], m <= f[b].free[from]
    PROVE  Register!Gift
<1>1. n \in 0..ledger[a].supply /\ m \in 0..ledger[b].supply
  <2>1. /\ ledger[a] \in SummedLedgers /\ f[b] \in SummedLedgers
        /\ ledger[a].supply \in Nat /\ f[b].supply \in Nat
    BY DEF RegisterInv, LedgersSummed, SummedLedgers, LedgerType
  <2>2. ledger[a].free[from] \in 0..ledger[a].supply /\ f[b].free[from] \in 0..f[b].supply
    BY <2>1, WithinSupply
  <2>3. f[b].supply = ledger[b].supply
    BY DEF Issued
  <2> QED BY <2>1, <2>2, <2>3
<1>2. UNCHANGED <<[id \in AssetIds |-> ledger[id].supply], Register!restraints>>
  BY RestraintsKept DEF Issued
<1> DEFINE h == Held(ledger)
           g == Held(f)
           k == Held(ledger')
<1>3. /\ Register!MayGive(h, a, from, to, n) /\ Register!MayGive(g, b, from, to, m)
      /\ g = Register!Shift(h, a, from, to, n) /\ k = Register!Shift(g, b, from, to, m)
  OBVIOUS
<1>4. h = [id \in AssetIds |-> ledger[id].free] /\ k = [id \in AssetIds |-> ledger'[id].free]
  BY DEF Held
<1> HIDE DEF h, g, k
<1>5. Register!Give(a, b, from, to, n, m)
  BY <1>2, <1>3, <1>4, Zenon DEF Register!Give
<1> QED BY <1>1, <1>5 DEF Register!Gift

LEMMA TransferIsGift ==
    ASSUME RegisterInv, TransferNext
    PROVE  Register!Gift
<1>1. ledger \in [AssetIds -> SummedLedgers] /\ TypeOK /\ ledger \in [AssetIds -> LedgerType]
  BY DEF RegisterInv, LedgersSummed, TypeOK
<1>2. ASSUME NEW f \in [AssetIds -> SummedLedgers], NEW a \in AssetIds, NEW n \in Amounts,
             NEW operator, NEW from \in Wallets, NEW to \in Wallets,
             TransferOpen(operator, from, to), TransferAllowed(a, f[a], from, to, n),
             NEW g, g = [b \in AssetIds |-> g[b]], g[a] = Moved(f[a], from, to, n), Fits(g[a]),
             \A b \in AssetIds \ {a} : g[b] = f[b]
      PROVE  /\ g \in [AssetIds -> SummedLedgers]
             /\ n \in Nat /\ n <= f[a].free[from]
             /\ Register!MayGive(Held(f), a, from, to, n)
             /\ Held(g) = Register!Shift(Held(f), a, from, to, n)
             /\ Issued(g) = Issued(f)
  <2>1. f \in [AssetIds -> LedgerType] /\ n \in Nat /\ frozenAmount[a][from] \in Nat
    <3>1. f \in [AssetIds -> LedgerType] /\ n \in Nat
      BY StaysSummed
    <3>2. frozenAmount[a][from] \in Nat
      BY <1>1 DEF TypeOK
    <3> QED BY <3>1, <3>2
  <2>2. n <= f[a].free[from]
    BY <1>2, <2>1, AvailableBound DEF TransferAllowed
  <2>3. g[a] = Moved(f[a], from, to, n) /\ \A b \in AssetIds \ {a} : g[b] = f[b]
    BY <1>2
  <2>4. g \in [AssetIds -> SummedLedgers]
    <3>1. g[a] \in SummedLedgers
      BY <1>2, <2>2, <2>3, StaysSummed
    <3>2. \A b \in AssetIds : g[b] \in SummedLedgers
      BY <2>3, <3>1
    <3> QED BY <1>2, <3>2
  <2>5. g \in [AssetIds -> LedgerType]
    BY <2>4 DEF SummedLedgers
  <2>6. Held(g) = Register!Shift(Held(f), a, from, to, n)
    BY <2>1, <2>3, <2>5, HeldAfter
  <2>7. \A b \in AssetIds : g[b].supply = f[b].supply
    BY <2>1, <2>3, MovedBooks
  <2>8. Register!MayGive(Held(f), a, from, to, n)
    BY <1>1, <1>2, <2>1, GiverMay
  <2> QED BY <2>1, <2>2, <2>4, <2>6, <2>7, <2>8 DEF Issued
<1>3. ASSUME NEW operator \in Wallets, NEW from \in Wallets, NEW to \in Wallets,
             NEW a \in AssetIds, NEW n \in Amounts, SafeTransferFrom(operator, from, to, a, n)
      PROVE  Register!Gift
  <2>1. /\ TransferOpen(operator, from, to) /\ TransferAllowed(a, ledger[a], from, to, n)
        /\ ledger' = [ledger EXCEPT ![a] = Moved(@, from, to, n)] /\ Fits(ledger'[a])
    BY <1>3 DEF SafeTransferFrom
  <2>2. LedgerStep
    BY <1>3 DEF SafeTransferFrom, LedgerStep
  <2>3. /\ ledger' \in [AssetIds -> SummedLedgers]
        /\ n \in Nat /\ n <= ledger[a].free[from]
        /\ Register!MayGive(Held(ledger), a, from, to, n)
        /\ Held(ledger') = Register!Shift(Held(ledger), a, from, to, n)
        /\ Issued(ledger') = Issued(ledger)
    <3>1. /\ ledger' = [b \in AssetIds |-> ledger'[b]] /\ ledger'[a] = Moved(ledger[a], from, to, n)
          /\ \A b \in AssetIds \ {a} : ledger'[b] = ledger[b]
      BY <1>1, <2>1
    <3> QED BY <1>1, <1>2, <2>1, <3>1
  \* The second gift is of nothing.
  <2>4. Register!MayGive(Held(ledger'), a, from, to, 0)
    BY <2>3 DEF Register!MayGive
  <2>5. Held(ledger') = Register!Shift(Held(ledger'), a, from, to, 0)
    <3> DEFINE k == Held(ledger')
               u == Register!Shift(k, a, from, to, 0)
    <3>1. ledger' \in [AssetIds -> LedgerType]
      BY <2>3 DEF SummedLedgers
    <3>2. k \in Quantities
      BY <3>1, HeldType
    <3> HIDE DEF k
    <3>3. u \in Quantities /\ \A b \in AssetIds, x \in Wallets : u[b][x] =
             IF b # a \/ from = to THEN k[b][x]
             ELSE IF x = from THEN k[b][x] - 0 ELSE IF x = to THEN k[b][x] + 0 ELSE k[b][x]
      BY <3>2, ShiftMeans
    <3>4. \A b \in AssetIds, x \in Wallets : k[b][x] \in Int
      BY <3>2 DEF Quantities
    <3> HIDE DEF u
    <3>5. \A b \in AssetIds, x \in Wallets : k[b][x] = u[b][x]
      BY <3>3, <3>4
    <3>6. k = u
      BY <3>2, <3>3, <3>5, UnitsEqual
    <3> QED BY <3>6 DEF k, u
  <2>6. 0 <= ledger'[a].free[from]
    BY <2>3 DEF SummedLedgers, LedgerType
  <2>7. 0 \in Nat
    OBVIOUS
  <2> QED BY <2>2, <2>3, <2>4, <2>5, <2>6, <2>7, TwoGifts
<1>4. ASSUME NEW operator \in Wallets, NEW from \in Wallets, NEW to \in Wallets,
             NEW a \in AssetIds, NEW n \in Amounts, NEW b \in AssetIds, NEW m \in Amounts,
             SafeBatchTransferFrom(operator, from, to, a, n, b, m)
      PROVE  Register!Gift
  <2> DEFINE first == [ledger EXCEPT ![a] = Moved(@, from, to, n)]
  <2>1. /\ TransferOpen(operator, from, to) /\ TransferAllowed(a, ledger[a], from, to, n)
        /\ Fits(first[a])
    BY <1>4 DEF SafeBatchTransferFrom
  <2>2. /\ TransferAllowed(b, first[b], from, to, m)
        /\ ledger' = [first EXCEPT ![b] = Moved(@, from, to, m)] /\ Fits(ledger'[b])
    BY <1>4 DEF SafeBatchTransferFrom
  <2>3. LedgerStep
    BY <1>4 DEF SafeBatchTransferFrom, LedgerStep
  <2>4. /\ first \in [AssetIds -> SummedLedgers]
        /\ n \in Nat /\ n <= ledger[a].free[from]
        /\ Register!MayGive(Held(ledger), a, from, to, n)
        /\ Held(first) = Register!Shift(Held(ledger), a, from, to, n)
        /\ Issued(first) = Issued(ledger)
    <3>1. /\ first = [k \in AssetIds |-> first[k]] /\ first[a] = Moved(ledger[a], from, to, n)
          /\ \A k \in AssetIds \ {a} : first[k] = ledger[k]
      BY <1>1
    <3> HIDE DEF first
    <3> QED BY <1>1, <1>2, <2>1, <3>1
  <2> HIDE DEF first
  <2>5. /\ m \in Nat /\ m <= first[b].free[from]
        /\ Register!MayGive(Held(first), b, from, to, m)
        /\ Held(ledger') = Register!Shift(Held(first), b, from, to, m)
        /\ Issued(ledger') = Issued(first)
    <3>1. /\ ledger' = [k \in AssetIds |-> ledger'[k]] /\ ledger'[b] = Moved(first[b], from, to, m)
          /\ \A k \in AssetIds \ {b} : ledger'[k] = first[k]
      BY <2>2, <2>4
    <3> QED BY <1>2, <2>1, <2>2, <2>4, <3>1
  <2> QED BY <2>3, <2>4, <2>5, TwoGifts
<1> QED BY <1>3, <1>4 DEF TransferNext

\* Only gifts: no holder or operator moves a unit that is frozen, locked up,
\* under lien or in a paused asset, as either item of a batch.
THEOREM TransfersOnlyGive == Spec => TransfersAreGifts
<1>1. RegisterInv /\ [Next]_vars => [ledger' # ledger /\ TransferNext => Register!Gift]_vars
  BY TransferIsGift
<1> QED BY <1>1, AlwaysRegisterInv, PTL DEF Spec, TransfersAreGifts

Raised(i, a, n) == [i EXCEPT ![a] = @ + n]

\* A mint as the ledgers f and g before and after it.
LEMMA MintStep ==
    ASSUME RegisterInv, NEW f \in [AssetIds -> SummedLedgers], NEW a \in AssetIds,
           NEW w \in Wallets, NEW n \in Amounts, MintAllowed(a, f[a], w, n),
           NEW g, g = [b \in AssetIds |-> g[b]], g[a] = Minted(f[a], w, n), Fits(g[a]),
           \A b \in AssetIds \ {a} : g[b] = f[b]
    PROVE  /\ g \in [AssetIds -> SummedLedgers] /\ n \in Nat
           /\ Register!MayIssue(a, w)
           /\ Held(g) = Register!Add(Held(f), a, w, n)
           /\ Issued(g) = Raised(Issued(f), a, n)
           /\ \A b \in AssetIds : g[b].supply = IF b = a THEN f[b].supply + n ELSE f[b].supply
<1>1. f \in [AssetIds -> LedgerType] /\ n \in Nat /\ Minted(f[a], w, n) \in SummedLedgers
  BY StaysSummed
<1>2. g \in [AssetIds -> SummedLedgers]
  <2>1. \A b \in AssetIds : g[b] \in SummedLedgers
    BY <1>1
  <2> QED BY <2>1
<1>3. g \in [AssetIds -> LedgerType]
  BY <1>2 DEF SummedLedgers
<1>4. Held(g) = Register!Add(Held(f), a, w, n)
  BY <1>1, <1>3, HeldAfter
<1>5. \A b \in AssetIds : g[b].supply = IF b = a THEN f[b].supply + n ELSE f[b].supply
  BY <1>1, MintedBooks
<1>6. Issued(g) = Raised(Issued(f), a, n)
  BY <1>5 DEF Issued, Raised
<1>7. Register!MayIssue(a, w)
  BY DEF MintAllowed, AssetActive, FrozenFor, Register!MayIssue
<1> QED BY <1>1, <1>2, <1>4, <1>5, <1>6, <1>7

LEMMA TwoIssues ==
    ASSUME RegisterInv, LedgerStep, NEW a \in AssetIds, NEW b \in AssetIds,
           NEW w \in Wallets, NEW v \in Wallets, NEW n \in Nat, NEW m \in Nat,
           NEW f, Register!MayIssue(a, w), Register!MayIssue(b, v),
           Held(f) = Register!Add(Held(ledger), a, w, n),
           Held(ledger') = Register!Add(Held(f), b, v, m),
           Issued(f) = Raised(Issued(ledger), a, n),
           Issued(ledger') = Raised(Issued(f), b, m),
           n <= ledger'[a].supply, m <= ledger'[b].supply,
           ledger'[a].supply \in Nat, ledger'[b].supply \in Nat
    PROVE  Register!Issuance
<1>1. /\ n \in 0..([id \in AssetIds |-> ledger'[id].supply])[a]
      /\ m \in 0..([id \in AssetIds |-> ledger'[id].supply])[b]
  OBVIOUS
<1>2. UNCHANGED Register!restraints
  BY RestraintsKept
<1> DEFINE h == Held(ledger)
           k == Held(ledger')
           i == Issued(ledger)
           j == Issued(ledger')
<1>3. /\ k = Register!Add(Register!Add(h, a, w, n), b, v, m)
      /\ j = [[i EXCEPT ![a] = @ + n] EXCEPT ![b] = @ + m]
  BY DEF Raised
<1>4. /\ h = [id \in AssetIds |-> ledger[id].free] /\ k = [id \in AssetIds |-> ledger'[id].free]
      /\ i = [id \in AssetIds |-> ledger[id].supply] /\ j = [id \in AssetIds |-> ledger'[id].supply]
  BY DEF Held, Issued
<1> HIDE DEF h, k, i, j
<1>5. Register!Issue(a, w, n, b, v, m)
  BY <1>2, <1>3, <1>4, Zenon DEF Register!Issue
<1> QED BY <1>1, <1>5 DEF Register!Issuance

LEMMA AddNothing ==
    ASSUME NEW h \in Quantities, NEW a \in AssetIds, NEW w \in Wallets
    PROVE  h = Register!Add(h, a, w, 0)
<1> DEFINE u == Register!Add(h, a, w, 0)
<1>1. u \in Quantities /\ \A b \in AssetIds, x \in Wallets :
         u[b][x] = IF b = a /\ x = w THEN h[b][x] + 0 ELSE h[b][x]
  BY AddMeans
<1>2. \A b \in AssetIds, x \in Wallets : h[b][x] \in Int
  BY DEF Quantities
<1> HIDE DEF u
<1>3. \A b \in AssetIds, x \in Wallets : h[b][x] = u[b][x]
  BY <1>1, <1>2
<1>4. h = u
  BY <1>1, <1>3, UnitsEqual
<1> QED BY <1>4 DEF u

LEMMA MintIsIssue ==
    ASSUME RegisterInv, NEW caller, NEW a \in AssetIds, NEW w \in Wallets, NEW n \in Amounts,
           Mint(caller, a, w, n)
    PROVE  Register!Issuance
<1>1. ledger \in [AssetIds -> SummedLedgers]
  BY DEF RegisterInv, LedgersSummed
<1>2. /\ MintAllowed(a, ledger[a], w, n) /\ LedgerStep
      /\ ledger' = [ledger EXCEPT ![a] = Minted(@, w, n)] /\ Fits(ledger'[a])
  BY DEF Mint, LedgerStep
<1>3. /\ ledger' = [b \in AssetIds |-> ledger'[b]] /\ ledger'[a] = Minted(ledger[a], w, n)
      /\ \A b \in AssetIds \ {a} : ledger'[b] = ledger[b]
  BY <1>1, <1>2
<1>4. /\ ledger' \in [AssetIds -> SummedLedgers] /\ n \in Nat
      /\ Register!MayIssue(a, w)
      /\ Held(ledger') = Register!Add(Held(ledger), a, w, n)
      /\ Issued(ledger') = Raised(Issued(ledger), a, n)
      /\ ledger'[a].supply = ledger[a].supply + n
  BY <1>1, <1>2, <1>3, MintStep
<1>5. /\ ledger[a].supply \in Nat /\ ledger' \in [AssetIds -> LedgerType]
      /\ \A b \in AssetIds : ledger'[b].supply \in Nat
  BY <1>1, <1>4 DEF SummedLedgers, LedgerType
\* The second issue is of nothing.
<1>6. Held(ledger') = Register!Add(Held(ledger'), a, w, 0)
  BY <1>5, HeldType, AddNothing
<1>7. Issued(ledger') = Raised(Issued(ledger'), a, 0)
  BY <1>5 DEF Issued, Raised
<1>8. n <= ledger'[a].supply /\ 0 <= ledger'[a].supply /\ 0 \in Nat
  BY <1>4, <1>5
<1> QED BY <1>2, <1>4, <1>5, <1>6, <1>7, <1>8, TwoIssues

LEMMA BatchMintIsIssue ==
    ASSUME RegisterInv, NEW caller, NEW a \in AssetIds, NEW w \in Wallets, NEW n \in Amounts,
           NEW b \in AssetIds, NEW v \in Wallets, NEW m \in Amounts,
           BatchMint(caller, a, w, n, b, v, m)
    PROVE  Register!Issuance
<1> DEFINE first == [ledger EXCEPT ![a] = Minted(@, w, n)]
<1>1. ledger \in [AssetIds -> SummedLedgers]
  BY DEF RegisterInv, LedgersSummed
<1>2. /\ MintAllowed(a, ledger[a], w, n) /\ Fits(first[a])
      /\ MintAllowed(b, first[b], v, m) /\ LedgerStep
      /\ ledger' = [first EXCEPT ![b] = Minted(@, v, m)] /\ Fits(ledger'[b])
  BY DEF BatchMint, LedgerStep
<1>3. /\ first = [k \in AssetIds |-> first[k]] /\ first[a] = Minted(ledger[a], w, n)
      /\ \A k \in AssetIds \ {a} : first[k] = ledger[k]
  BY <1>1
<1> HIDE DEF first
<1>4. /\ first \in [AssetIds -> SummedLedgers] /\ n \in Nat
      /\ Register!MayIssue(a, w)
      /\ Held(first) = Register!Add(Held(ledger), a, w, n)
      /\ Issued(first) = Raised(Issued(ledger), a, n)
      /\ first[a].supply = ledger[a].supply + n
  BY <1>1, <1>2, <1>3, MintStep
<1>5. /\ ledger' = [k \in AssetIds |-> ledger'[k]] /\ ledger'[b] = Minted(first[b], v, m)
      /\ \A k \in AssetIds \ {b} : ledger'[k] = first[k]
  BY <1>2, <1>4
<1>6. /\ ledger' \in [AssetIds -> SummedLedgers] /\ m \in Nat
      /\ Register!MayIssue(b, v)
      /\ Held(ledger') = Register!Add(Held(first), b, v, m)
      /\ Issued(ledger') = Raised(Issued(first), b, m)
      /\ ledger'[b].supply = first[b].supply + m
      /\ b # a => ledger'[a].supply = first[a].supply
  <2>1. Fits(ledger'[b]) /\ MintAllowed(b, first[b], v, m)
    BY <1>2
  <2> QED BY <1>4, <1>5, <2>1, MintStep
<1>7. /\ ledger[a].supply \in Nat /\ first[a].supply \in Nat /\ first[b].supply \in Nat
      /\ \A k \in AssetIds : ledger'[k].supply \in Nat
  BY <1>1, <1>4, <1>6 DEF SummedLedgers, LedgerType
<1>8. n <= ledger'[a].supply /\ m <= ledger'[b].supply
  BY <1>4, <1>6, <1>7
<1> QED BY <1>2, <1>4, <1>6, <1>7, <1>8, TwoIssues

LEMMA BurnIsRedeem ==
    ASSUME RegisterInv, NEW caller, NEW a \in AssetIds, NEW w \in Wallets, NEW n \in Amounts,
           Burn(caller, a, w, n)
    PROVE  \E k \in 0..([id \in AssetIds |-> ledger[id].supply])[a] : Register!Redeem(a, w, k)
<1>1. /\ ledger \in [AssetIds -> SummedLedgers] /\ ledger \in [AssetIds -> LedgerType] /\ n \in Nat
      /\ frozenAmount[a][w] \in Nat /\ ledger[a].free[w] \in 0..ledger[a].supply
      /\ ledger[a].supply \in Nat
  <2>1. ledger \in [AssetIds -> SummedLedgers]
    BY DEF RegisterInv, LedgersSummed
  <2>2. ledger \in [AssetIds -> LedgerType] /\ n \in Nat /\ ledger[a] \in LedgerType
    BY <2>1, TokenAssumption DEF SummedLedgers
  <2>3. ledger[a].supply \in Nat
    BY <2>2 DEF LedgerType
  <2>4. frozenAmount[a][w] \in Nat
    BY DEF RegisterInv, TypeOK
  <2> QED BY <2>1, <2>2, <2>3, <2>4, WithinSupply
<1>2. /\ ~globalPaused /\ ~asset[a].paused /\ LedgerStep
      /\ n <= Available(ledger[a], w, frozenAmount[a][w])
      /\ ledger' = [ledger EXCEPT ![a] = Burned(@, w, n)] /\ Fits(ledger'[a])
  BY DEF Burn, AssetActive, LedgerStep
<1>3. n <= ledger[a].free[w] /\ (n = 0 \/ ledger[a].free[w] - n >= frozenAmount[a][w])
  BY <1>1, <1>2 DEF Available
<1>4. /\ ledger'[a] = Burned(ledger[a], w, n)
      /\ \A b \in AssetIds \ {a} : ledger'[b] = ledger[b]
  BY <1>1, <1>2
<1>5. ledger' \in [AssetIds -> LedgerType]
  <2>1. Burned(ledger[a], w, n) \in RawLedger
    BY <1>1, <1>3, BurnedType
  <2> QED BY <1>1, <1>2, <1>4, <2>1, LedgerUpdateType
<1> DEFINE h == Held(ledger)
           k == Held(ledger')
           i == Issued(ledger)
           j == Issued(ledger')
<1>6. k = Register!Add(h, a, w, -n)
  BY <1>1, <1>4, <1>5, HeldAfter
<1>7. j = [i EXCEPT ![a] = @ - n]
  <2>1. \A b \in AssetIds : ledger'[b].supply = IF b = a THEN ledger[b].supply - n ELSE ledger[b].supply
    BY <1>1, <1>4, BurnedBooks
  <2> QED BY <2>1 DEF Issued
<1>8. UNCHANGED Register!restraints
  BY <1>2, RestraintsKept
<1>9. h[a][w] = ledger[a].free[w]
  BY DEF Held
<1>10. h = [id \in AssetIds |-> ledger[id].free] /\ k = [id \in AssetIds |-> ledger'[id].free]
       /\ i = [id \in AssetIds |-> ledger[id].supply] /\ j = [id \in AssetIds |-> ledger'[id].supply]
  BY DEF Held, Issued
<1>11. a \notin {id \in AssetIds : globalPaused \/ asset[id].paused}
  BY <1>2
<1>12. n = 0 \/ h[a][w] - n >= frozenAmount[a][w]
  BY <1>3, <1>9
<1> HIDE DEF h, k, i, j
<1>13. Register!Redeem(a, w, n)
  BY <1>6, <1>7, <1>8, <1>10, <1>11, <1>12, Zenon DEF Register!Redeem
<1>14. n \in 0..([id \in AssetIds |-> ledger[id].supply])[a]
  BY <1>1, <1>3
<1> QED BY <1>13, <1>14

LEMMA ForcedTransferIsSeize ==
    ASSUME RegisterInv, NEW caller, NEW a \in AssetIds, NEW w \in Wallets, NEW v \in Wallets,
           NEW n \in Amounts, ForcedTransfer(caller, a, w, v, n)
    PROVE  \E k \in 0..([id \in AssetIds |-> ledger[id].supply])[a] : Register!Seize(a, w, v, k)
<1>1. /\ ledger \in [AssetIds -> SummedLedgers] /\ ledger \in [AssetIds -> LedgerType] /\ n \in Nat
      /\ ledger[a].free[w] \in 0..ledger[a].supply /\ ledger[a].supply \in Nat
  <2>1. ledger \in [AssetIds -> SummedLedgers]
    BY DEF RegisterInv, LedgersSummed
  <2>2. ledger \in [AssetIds -> LedgerType] /\ n \in Nat /\ ledger[a] \in LedgerType
    BY <2>1, TokenAssumption DEF SummedLedgers
  <2>3. ledger[a].supply \in Nat
    BY <2>2 DEF LedgerType
  <2> QED BY <2>1, <2>2, <2>3, WithinSupply
<1>2. /\ ~globalPaused /\ ~asset[a].paused /\ LedgerStep /\ n <= ledger[a].free[w]
      /\ ledger' = [ledger EXCEPT ![a] = Moved(@, w, v, n)] /\ Fits(ledger'[a])
  BY DEF ForcedTransfer, AssetActive, LedgerStep
<1>3. /\ ledger'[a] = Moved(ledger[a], w, v, n)
      /\ \A b \in AssetIds \ {a} : ledger'[b] = ledger[b]
  BY <1>1, <1>2
<1>4. ledger' \in [AssetIds -> LedgerType]
  <2>1. Moved(ledger[a], w, v, n) \in RawLedger
    BY <1>1, <1>2, MovedType
  <2> QED BY <1>1, <1>2, <1>3, <2>1, LedgerUpdateType
<1> DEFINE h == Held(ledger)
           k == Held(ledger')
           i == Issued(ledger)
           j == Issued(ledger')
<1>5. k = Register!Shift(h, a, w, v, n)
  BY <1>1, <1>3, <1>4, HeldAfter
<1>6. j = i
  <2>1. \A b \in AssetIds : ledger'[b].supply = ledger[b].supply
    BY <1>1, <1>3, MovedBooks
  <2> QED BY <2>1 DEF Issued
<1>7. UNCHANGED Register!restraints
  BY <1>2, RestraintsKept
<1>8. h[a][w] >= n
  BY <1>1, <1>2 DEF Held
<1>9. h = [id \in AssetIds |-> ledger[id].free] /\ k = [id \in AssetIds |-> ledger'[id].free]
       /\ i = [id \in AssetIds |-> ledger[id].supply] /\ j = [id \in AssetIds |-> ledger'[id].supply]
  BY DEF Held, Issued
<1>10. a \notin {id \in AssetIds : globalPaused \/ asset[id].paused}
  BY <1>2
<1> HIDE DEF h, k, i, j
<1>11. Register!Seize(a, w, v, n)
  BY <1>5, <1>6, <1>7, <1>8, <1>9, <1>10, Zenon DEF Register!Seize
<1>12. n \in 0..([id \in AssetIds |-> ledger[id].supply])[a]
  BY <1>1, <1>2
<1> QED BY <1>11, <1>12

LEMMA RecoveryIsSucceed ==
    ASSUME RegisterInv, NEW caller, NEW lost \in Wallets, NEW new \in Wallets,
           RecoverWallet(caller, lost, new)
    PROVE  Register!Succeed(lost, new)
<1>1. /\ ledger \in [AssetIds -> LedgerType] /\ now \in Nat /\ now > 0
      /\ frozenAmount \in [AssetIds -> [Wallets -> Nat]] /\ lockupExpiry \in [AssetIds -> [Wallets -> Nat]]
      /\ assetFreeze \in [AssetIds -> SUBSET Wallets]
      /\ \A a \in AssetIds : ~Registered(a) => ledger[a] = EmptyLedger
  BY TokenAssumption DEF RegisterInv, TypeOK, Unissued
<1>2. /\ lost # new /\ UNCHANGED <<asset, globalPaused, rules, now>>
      /\ globalFreeze' = MigratedSet(globalFreeze, lost, new)
      /\ \A a \in AssetIds :
            /\ assetFreeze'[a] = IF Registered(a) THEN MigratedSet(assetFreeze[a], lost, new)
                                 ELSE assetFreeze[a]
            /\ ledger'[a] = IF Registered(a) THEN Recovered(ledger[a], lost, new) ELSE ledger[a]
            /\ frozenAmount'[a] = Migrated(frozenAmount, lost, new, 0)[a]
            /\ lockupExpiry'[a] = Migrated(lockupExpiry, lost, new, 0)[a]
  BY DEF RecoverWallet
<1>3. ASSUME NEW a \in AssetIds
      PROVE  /\ ledger'[a].free = [ledger[a].free EXCEPT ![new] = @ + ledger[a].free[lost], ![lost] = 0]
             /\ ledger'[a].supply = ledger[a].supply
             /\ ledger[a].free[lost] > 0 => Registered(a)
  <2>1. ledger[a] \in LedgerType /\ ledger[a].free \in [Wallets -> Nat]
    BY <1>1 DEF LedgerType
  <2>2. CASE Registered(a)
    <3>1. ledger'[a] = Recovered(ledger[a], lost, new)
      BY <1>2, <2>2
    <3>2. CASE ledger[a].free[lost] = 0
      <4>1. ledger'[a] = ledger[a]
        BY <3>1, <3>2 DEF Recovered
      <4>2. ledger[a].free = [ledger[a].free EXCEPT ![new] = @ + ledger[a].free[lost], ![lost] = 0]
        BY <2>1, <3>2
      <4> QED BY <2>2, <4>1, <4>2
    <3>3. CASE ledger[a].free[lost] # 0
      BY <2>2, <3>1, <3>3 DEF Recovered, Ledger
    <3> QED BY <3>2, <3>3
  <2>3. CASE ~Registered(a)
    <3>1. ledger'[a] = ledger[a] /\ ledger[a].free = [w \in Wallets |-> 0]
      BY <1>1, <1>2, <2>3 DEF EmptyLedger, Ledger
    <3> QED BY <3>1
  <2> QED BY <2>2, <2>3
<1>4. [id \in AssetIds |-> ledger'[id].free] =
          [a \in AssetIds |-> [([id \in AssetIds |-> ledger[id].free])[a]
              EXCEPT ![new] = @ + ([id \in AssetIds |-> ledger[id].free])[a][lost], ![lost] = 0]]
  BY <1>3
<1>5. [id \in AssetIds |-> ledger'[id].supply] = [id \in AssetIds |-> ledger[id].supply]
  BY <1>3
<1>6. {id \in AssetIds : globalPaused' \/ asset'[id].paused} = {id \in AssetIds : globalPaused \/ asset[id].paused}
  BY <1>2
\* The restraints on what lost holds arrive with it.
<1>7. ASSUME NEW a \in AssetIds, ledger[a].free[lost] > 0
      PROVE  /\ frozenAmount'[a][new] >= frozenAmount[a][lost]
             /\ lost \in HeldBack(a) => new \in HeldBack(a)'
             /\ lost \in FrozenFor(a) => new \in FrozenFor(a)'
  <2>1. Registered(a)
    BY <1>3, <1>7
  <2>2. frozenAmount'[a][new] >= frozenAmount[a][lost]
    <3>1. frozenAmount'[a] = IF frozenAmount[a][lost] # 0
                             THEN [frozenAmount[a] EXCEPT ![new] = frozenAmount[a][lost], ![lost] = 0]
                             ELSE frozenAmount[a]
      BY <1>2, <2>1 DEF Migrated
    <3>2. frozenAmount[a] \in [Wallets -> Nat]
      BY <1>1
    <3> QED BY <1>2, <3>1, <3>2
  <2>3. lost \in FrozenFor(a) => new \in FrozenFor(a)'
    BY <1>2, <2>1 DEF FrozenFor, MigratedSet
  <2>4. now <= lockupExpiry[a][lost] => now <= lockupExpiry'[a][new]
    <3>1. lockupExpiry'[a] = IF lockupExpiry[a][lost] # 0
                             THEN [lockupExpiry[a] EXCEPT ![new] = lockupExpiry[a][lost], ![lost] = 0]
                             ELSE lockupExpiry[a]
      BY <1>2, <2>1 DEF Migrated
    <3>2. lockupExpiry[a] \in [Wallets -> Nat]
      BY <1>1
    <3> QED BY <1>1, <1>2, <3>1, <3>2
  <2>5. lost \in HeldBack(a) => new \in HeldBack(a)'
    BY <1>2, <2>3, <2>4 DEF HeldBack
  <2> QED BY <2>2, <2>3, <2>5
<1> QED BY <1>2, <1>4, <1>5, <1>6, <1>7 DEF Register!Succeed

\* Nothing else in the code touches a holding or a supply.
LEMMA OthersRegulate ==
    ASSUME UNCHANGED ledger
    PROVE  Register!Regulate
  BY DEF Register!Regulate

LEMMA RegisterInit == Init => Register!Init
<1> SUFFICES ASSUME Init PROVE Register!Init
  OBVIOUS
<1>1. [id \in AssetIds |-> ledger[id].free] = [a \in AssetIds |-> [w \in Wallets |-> 0]]
  BY DEF Init, EmptyLedger, Ledger
<1>2. [id \in AssetIds |-> ledger[id].supply] = [a \in AssetIds |-> 0]
  BY DEF Init, EmptyLedger, Ledger
<1>3. \A a \in AssetIds : FrozenFor(a) = {} /\ HeldBack(a) = {}
  BY DEF Init, FrozenFor, HeldBack, NoRules
<1>4. {id \in AssetIds : globalPaused \/ asset[id].paused} = {}
  BY DEF Init
<1>5. frozenAmount = [a \in AssetIds |-> [w \in Wallets |-> 0]]
  BY DEF Init
<1> QED BY <1>1, <1>2, <1>3, <1>4, <1>5 DEF Register!Init, Register!None

LEMMA RegisterStep == RegisterInv /\ [Next]_vars => [Register!Next]_(Register!vars)
<1> SUFFICES ASSUME RegisterInv, [Next]_vars PROVE Register!Next
  OBVIOUS
<1>1. ASSUME NEW caller, NEW a \in AssetIds, NEW w \in Wallets, NEW n \in Amounts,
             \/ Mint(caller, a, w, n) \/ Burn(caller, a, w, n)
             \/ \E v \in Wallets : ForcedTransfer(caller, a, w, v, n)
             \/ \E b \in AssetIds, v \in Wallets, m \in Amounts : BatchMint(caller, a, w, n, b, v, m)
      PROVE  Register!Next
  <2>1. CASE Mint(caller, a, w, n)
    BY <2>1, MintIsIssue, Zenon DEF Register!Next
  <2>2. CASE Burn(caller, a, w, n)
    BY <2>2, BurnIsRedeem, Zenon DEF Register!Next
  <2>3. ASSUME NEW v \in Wallets, ForcedTransfer(caller, a, w, v, n) PROVE Register!Next
    BY <2>3, ForcedTransferIsSeize, Zenon DEF Register!Next
  <2>4. ASSUME NEW b \in AssetIds, NEW v \in Wallets, NEW m \in Amounts, BatchMint(caller, a, w, n, b, v, m)
        PROVE  Register!Next
    BY <2>4, BatchMintIsIssue, Zenon DEF Register!Next
  <2> QED BY <1>1, <2>1, <2>2, <2>3, <2>4
<1>2. CASE SupplyNext
  BY <1>1, <1>2 DEF SupplyNext
<1>3. CASE TransferNext
  BY <1>3, TransferIsGift, Zenon DEF Register!Next
<1>4. CASE RecoveryNext
  <2>1. PICK caller \in Callers, lost \in Wallets, new \in Wallets : RecoverWallet(caller, lost, new)
    BY <1>4 DEF RecoveryNext
  <2> QED BY <2>1, RecoveryIsSucceed, Zenon DEF Register!Next
<1>5. CASE UNCHANGED ledger
  BY <1>5, OthersRegulate, Zenon DEF Register!Next
<1> QED BY <1>2, <1>3, <1>4, <1>5, OthersIdle DEF Next

\* The token of the facets implements the register: whatever is called, units
\* appear by issue only, leave a wallet by gift, seizure or succession only, and
\* their restraints go with them.
THEOREM TokenImplementsRegister == Spec => ImplementsShareRegister
  BY RegisterInit, RegisterStep, AlwaysRegisterInv, PTL DEF Spec, ImplementsShareRegister, Register!Spec

-----------------------------------------------------------------------------
(* Asset groups: their books *)

GroupRecord == [parent : Nat, maxUnits : Nat, unitCount : Nat, nextUnitIndex : Nat]

BooksType == [registered : 0..MaxAssets, asset : [AssetIds -> AssetConfig],
              ledger : [AssetIds -> LedgerType], tokenId : [AssetIds -> Nat \X Nat],
              group : [Groups -> GroupRecord], groupChildren : [Groups -> Seq(AssetIds)],
              childToGroup : [AssetIds -> 0..MaxGroups]]

\* What is not yet given out is blank.
RestIsBlank(b) ==
    /\ \A id \in AssetIds : id > b.registered =>
          b.ledger[id] = EmptyLedger /\ b.childToGroup[id] = 0
    /\ \A g \in Groups : g > nextGroupId => b.groupChildren[g] = <<>>

\* A group counts the units it lists, and each of them is an asset that points
\* back to the group and has the tokenId of its place.
GroupsList(b) ==
    \A g \in 1..nextGroupId :
        /\ b.group[g].parent \in 1..b.registered
        /\ b.group[g].unitCount = Len(b.groupChildren[g])
        /\ b.group[g].nextUnitIndex = b.group[g].unitCount + 1
        /\ b.group[g].maxUnits # 0 => b.group[g].unitCount <= b.group[g].maxUnits
        /\ \A k \in 1..Len(b.groupChildren[g]) :
              LET id == b.groupChildren[g][k] IN
              /\ id \in 1..b.registered
              /\ b.childToGroup[id] = g
              /\ b.tokenId[id] = <<g, k>>

\* An asset that points to no group has a number of the registry's own counter;
\* one that points to a group is listed there.
UnitsListed(b) ==
    \A id \in 1..b.registered :
        IF b.childToGroup[id] = 0
        THEN \E n \in 1..nextTokenId : b.tokenId[id] = <<0, n>>
        ELSE /\ b.childToGroup[id] \in 1..nextGroupId
             /\ \E k \in 1..Len(b.groupChildren[b.childToGroup[id]]) :
                   b.groupChildren[b.childToGroup[id]][k] = id

NumbersDiffer(b) ==
    \A id, other \in 1..b.registered : b.tokenId[id] = b.tokenId[other] => id = other

GoodBooks(b) ==
    /\ b \in BooksType
    /\ RestIsBlank(b)
    /\ GroupsList(b)
    /\ UnitsListed(b)
    /\ NumbersDiffer(b)

GroupsInv ==
    /\ TypeOK
    /\ nextTokenId \in Nat
    /\ nextGroupId \in 0..MaxGroups
    /\ GoodBooks(Books)

-----------------------------------------------------------------------------
(* Minting one unit *)

LEMMA BooksFields ==
    ASSUME NEW b \in BooksType
    PROVE  /\ b.registered \in 0..MaxAssets
           /\ b.asset \in [AssetIds -> AssetConfig]
           /\ b.ledger \in [AssetIds -> LedgerType]
           /\ b.tokenId \in [AssetIds -> Nat \X Nat]
           /\ b.group \in [Groups -> GroupRecord]
           /\ b.groupChildren \in [Groups -> Seq(AssetIds)]
           /\ b.childToGroup \in [AssetIds -> 0..MaxGroups]
  BY DEF BooksType

LEMMA UnitFields ==
    ASSUME NEW u \in Units
    PROVE  /\ u.group \in Groups /\ u.cap \in Nat /\ u.to \in Wallets
           /\ u.amount \in Nat /\ (u.amount # 0 => u.amount \in Amounts)
<1>1. PICK g \in Groups, cap \in Caps, to \in Wallets, n \in Amounts \cup {0} : u = Unit(g, cap, to, n)
  BY DEF Units
<1>2. cap \in Nat /\ n \in Nat /\ (n # 0 => n \in Amounts)
  BY TokenAssumption
<1>3. u.group = g /\ u.cap = cap /\ u.to = to /\ u.amount = n
  BY <1>1 DEF Unit
<1> QED BY <1>2, <1>3

\* What minting a unit does to the books, entry by entry.
UnitEffect(b, u, c, id) ==
    /\ c \in BooksType
    /\ c.registered = id
    /\ c.ledger = [b.ledger EXCEPT ![id] =
                      IF u.amount = 0 THEN EmptyLedger ELSE Minted(EmptyLedger, u.to, u.amount)]
    /\ c.tokenId = [b.tokenId EXCEPT ![id] = NextTokenId(b, u.group)]
    /\ c.group = [b.group EXCEPT ![u.group] = c.group[u.group]]
    /\ c.group[u.group] =
          [parent |-> b.group[u.group].parent, maxUnits |-> b.group[u.group].maxUnits,
           unitCount |-> b.group[u.group].unitCount + 1,
           nextUnitIndex |-> b.group[u.group].nextUnitIndex + 1]
    /\ c.groupChildren = [b.groupChildren EXCEPT ![u.group] = Append(b.groupChildren[u.group], id)]
    /\ c.childToGroup = [b.childToGroup EXCEPT ![id] = u.group]

LEMMA UnitMeans ==
    ASSUME NEW b \in BooksType, NEW u \in Units, UnitAllowed(b, u),
           b.group[u.group].parent \in AssetIds,
           b.ledger[b.registered + 1] = EmptyLedger
    PROVE  UnitEffect(b, u, UnitMinted(b, u), b.registered + 1)
<1> DEFINE c  == UnitMinted(b, u)
           id == b.registered + 1
<1> USE TokenAssumption, GroupAssumption
<1> DEFINE config == [paused |-> FALSE, cap |-> u.cap,
                      modules |-> b.asset[b.group[u.group].parent].modules]
           first  == IF u.amount = 0 THEN EmptyLedger ELSE Minted(EmptyLedger, u.to, u.amount)
           raised == [parent |-> b.group[u.group].parent, maxUnits |-> b.group[u.group].maxUnits,
                      unitCount |-> b.group[u.group].unitCount + 1,
                      nextUnitIndex |-> b.group[u.group].nextUnitIndex + 1]
           longer == Append(b.groupChildren[u.group], id)
           assets   == [b.asset EXCEPT ![id] = config]
           ledgers  == [b.ledger EXCEPT ![id] = first]
           tokenIds == [b.tokenId EXCEPT ![id] = NextTokenId(b, u.group)]
           groups   == [b.group EXCEPT ![u.group] = raised]
           children == [b.groupChildren EXCEPT ![u.group] = longer]
           pointers == [b.childToGroup EXCEPT ![id] = u.group]
<1>1. /\ u.group \in Groups /\ u.cap \in Nat /\ u.to \in Wallets
      /\ u.amount \in Nat /\ (u.amount # 0 => u.amount \in Amounts)
  BY UnitFields
<1>2. id \in AssetIds /\ id \in 0..MaxAssets
  BY BooksFields DEF UnitAllowed, AssetIds
<1>3. u.group \in 0..MaxGroups /\ u.group \in Nat
  BY <1>1 DEF Groups
<1>4. assets \in [AssetIds -> AssetConfig]
  <2>1. b.asset \in [AssetIds -> AssetConfig] /\ b.asset[b.group[u.group].parent] \in AssetConfig
    BY BooksFields
  <2>2. config \in AssetConfig
    BY <1>1, <2>1 DEF AssetConfig
  <2> HIDE DEF config
  <2> QED BY <2>1, <2>2
<1>5. tokenIds \in [AssetIds -> Nat \X Nat]
  <2>1. b.group[u.group] \in GroupRecord
    BY <1>1, BooksFields
  <2>2. NextTokenId(b, u.group) \in Nat \X Nat
    BY <1>3, <2>1 DEF NextTokenId, GroupRecord
  <2> QED BY <2>2, BooksFields
<1>6. groups \in [Groups -> GroupRecord] /\ groups[u.group] = raised
  <2>1. b.group \in [Groups -> GroupRecord] /\ b.group[u.group] \in GroupRecord
    BY <1>1, BooksFields
  <2>2. raised \in GroupRecord
    BY <2>1 DEF GroupRecord
  <2> HIDE DEF raised
  <2> QED BY <1>1, <2>1, <2>2
<1>7. children \in [Groups -> Seq(AssetIds)]
  <2>1. b.groupChildren \in [Groups -> Seq(AssetIds)] /\ b.groupChildren[u.group] \in Seq(AssetIds)
    BY <1>1, BooksFields
  <2>2. longer \in Seq(AssetIds)
    BY <1>2, <2>1
  <2> HIDE DEF longer
  <2> QED BY <2>1, <2>2
<1>8. pointers \in [AssetIds -> 0..MaxGroups]
  BY <1>3, BooksFields
<1>9. ledgers \in [AssetIds -> LedgerType]
  <2>1. EmptyLedger \in LedgerType
    BY DEF EmptyLedger, Ledger, LedgerType
  <2>2. ASSUME u.amount # 0 PROVE Minted(EmptyLedger, u.to, u.amount) \in LedgerType
    <3>1. Minted(EmptyLedger, u.to, u.amount) \in RawLedger
      BY <1>1, <2>1, MintedType
    <3>2. Fits(Minted(EmptyLedger, u.to, u.amount))
      <4>1. u.amount \in 0..MaxUint
        BY <1>1 DEF UnitAllowed
      <4> QED BY <4>1 DEF Fits, Minted, Joined, EmptyLedger, Ledger
    <3> QED BY <3>1, <3>2, FitsType
  <2>3. first \in LedgerType
    BY <2>1, <2>2
  <2> HIDE DEF first
  <2> QED BY <2>3, BooksFields
<1>10. c = [registered |-> id, asset |-> assets, ledger |-> ledgers, tokenId |-> tokenIds,
            group |-> groups, groupChildren |-> children, childToGroup |-> pointers]
  <2>1. b.ledger[id] = EmptyLedger
    OBVIOUS
  <2> QED BY <2>1, Zenon DEF UnitMinted
<1> HIDE DEF assets, ledgers, tokenIds, groups, children, pointers
<1>11. /\ c \in BooksType /\ c.registered = id /\ c.ledger = ledgers /\ c.tokenId = tokenIds
       /\ c.group = groups /\ c.groupChildren = children /\ c.childToGroup = pointers
  <2>1. groups \in [Groups -> GroupRecord]
    BY <1>6
  <2>2. [registered |-> id, asset |-> assets, ledger |-> ledgers, tokenId |-> tokenIds,
         group |-> groups, groupChildren |-> children, childToGroup |-> pointers] \in BooksType
    BY ONLY <1>2, <1>4, <1>5, <2>1, <1>7, <1>8, <1>9 DEF BooksType
  <2>3. c \in BooksType
    BY <2>2, <1>10
  <2> QED BY ONLY <2>3, <1>10
<1>12. c.group[u.group] = raised /\ c.group = [b.group EXCEPT ![u.group] = c.group[u.group]]
  BY <1>6, <1>11 DEF groups
<1> QED BY <1>11, <1>12, Zenon DEF UnitEffect, ledgers, tokenIds, children, pointers

\* A unit that may be minted leaves the books as good as they were.
LEMMA MintedUnitGood ==
    ASSUME nextTokenId \in Nat, nextGroupId \in 0..MaxGroups,
           NEW b, GoodBooks(b), NEW u \in Units, UnitAllowed(b, u)
    PROVE  GoodBooks(UnitMinted(b, u))
<1> USE GroupAssumption
<1> DEFINE c  == UnitMinted(b, u)
           id == b.registered + 1
           g  == u.group
           n  == Len(b.groupChildren[g])
<1>0. /\ b \in BooksType /\ RestIsBlank(b) /\ GroupsList(b) /\ UnitsListed(b) /\ NumbersDiffer(b)
      /\ id = b.registered + 1 /\ g = u.group /\ n = Len(b.groupChildren[g])
  BY DEF GoodBooks
<1> HIDE DEF id, g, n
<1>1. /\ b.registered \in Nat /\ b.registered < MaxAssets
      /\ g <= nextGroupId /\ u.group \in Groups
      /\ b.group[g].maxUnits = 0 \/ b.group[g].unitCount < b.group[g].maxUnits
      /\ NextTokenId(b, g) \notin TokenIds(b)
  BY <1>0, BooksFields, UnitFields DEF UnitAllowed, GroupExists
<1>2. /\ id \in AssetIds /\ g \in 1..nextGroupId /\ g \in Groups /\ g \in Nat /\ g # 0
      /\ \A x \in 1..b.registered : x \in AssetIds \ {id}
      /\ \A x \in 1..id : x = id \/ x \in 1..b.registered
  BY <1>0, <1>1, TokenAssumption, SMTT(30) DEF AssetIds, Groups
<1>3. b.ledger[id] = EmptyLedger /\ b.group[g].parent \in AssetIds
  <2>1. b.ledger[id] = EmptyLedger
    BY <1>0, <1>1, <1>2 DEF RestIsBlank
  <2>2. b.group[g].parent \in 1..b.registered
    BY <1>0, <1>2 DEF GroupsList
  <2> QED BY <1>2, <2>1, <2>2
<1>4. /\ c \in BooksType
      /\ c.registered = id
      /\ c.ledger = [b.ledger EXCEPT ![id] =
                        IF u.amount = 0 THEN EmptyLedger ELSE Minted(EmptyLedger, u.to, u.amount)]
      /\ c.tokenId = [b.tokenId EXCEPT ![id] = NextTokenId(b, g)]
      /\ c.group = [b.group EXCEPT ![g] = c.group[g]]
      /\ c.group[g] =
            [parent |-> b.group[g].parent, maxUnits |-> b.group[g].maxUnits,
             unitCount |-> b.group[g].unitCount + 1,
             nextUnitIndex |-> b.group[g].nextUnitIndex + 1]
      /\ c.groupChildren = [b.groupChildren EXCEPT ![g] = Append(b.groupChildren[g], id)]
      /\ c.childToGroup = [b.childToGroup EXCEPT ![id] = g]
  <2>1. b.ledger[b.registered + 1] = EmptyLedger /\ b.group[u.group].parent \in AssetIds
    BY <1>0, <1>3
  <2>2. b \in BooksType
    BY <1>0
  <2>3. UnitEffect(b, u, c, id)
    BY <2>1, <2>2, UnitMeans DEF c, id
  <2> HIDE DEF c
  <2> QED BY <1>0, <2>3 DEF UnitEffect
<1> HIDE DEF c
<1>5. n \in Nat /\ b.groupChildren[g] \in Seq(AssetIds) /\ b.group[g].maxUnits \in Nat
  <2>1. b.groupChildren[g] \in Seq(AssetIds) /\ b.group[g] \in GroupRecord
    BY <1>0, <1>2, BooksFields
  <2> QED BY <1>0, <2>1 DEF GroupRecord
<1>6. /\ b.group[g].unitCount = n /\ b.group[g].nextUnitIndex = n + 1
      /\ b.group[g].parent \in 1..b.registered
      /\ NextTokenId(b, g) = <<g, n + 1>>
  <2>1. GroupsList(b) /\ g \in 1..nextGroupId
    BY <1>0, <1>2
  <2>2. /\ b.group[g].unitCount = Len(b.groupChildren[g])
        /\ b.group[g].nextUnitIndex = b.group[g].unitCount + 1
        /\ b.group[g].parent \in 1..b.registered
    BY <2>1 DEF GroupsList
  <2> QED BY <1>0, <2>2 DEF NextTokenId
<1>7. /\ c.tokenId[id] = <<g, n + 1>>
      /\ \A x \in AssetIds \ {id} : c.tokenId[x] = b.tokenId[x]
      /\ c.childToGroup[id] = g
      /\ \A x \in AssetIds \ {id} : c.childToGroup[x] = b.childToGroup[x]
      /\ \A x \in AssetIds \ {id} : c.ledger[x] = b.ledger[x]
  <2>1. /\ b.tokenId \in [AssetIds -> Nat \X Nat] /\ b.ledger \in [AssetIds -> LedgerType]
        /\ b.childToGroup \in [AssetIds -> 0..MaxGroups]
    BY <1>0, BooksFields
  <2>2. c.tokenId[id] = <<g, n + 1>> /\ c.childToGroup[id] = g
    BY <1>2, <1>4, <1>6, <2>1
  <2>3. \A x \in AssetIds \ {id} :
           c.tokenId[x] = b.tokenId[x] /\ c.childToGroup[x] = b.childToGroup[x]
    BY <1>4, <2>1
  <2>4. \A x \in AssetIds \ {id} : c.ledger[x] = b.ledger[x]
    BY <1>4, <2>1, ZenonT(60)
  <2> QED BY <2>2, <2>3, <2>4
<1>8. /\ \A h \in Groups \ {g} : c.groupChildren[h] = b.groupChildren[h] /\ c.group[h] = b.group[h]
      /\ Len(c.groupChildren[g]) = n + 1
      /\ c.groupChildren[g][n + 1] = id
      /\ \A k \in 1..n : c.groupChildren[g][k] = b.groupChildren[g][k]
  <2>1. b.groupChildren \in [Groups -> Seq(AssetIds)] /\ b.group \in [Groups -> GroupRecord]
    BY <1>0, BooksFields
  <2>2. c.groupChildren[g] = Append(b.groupChildren[g], id)
    BY <1>2, <1>4, <2>1
  <2>3. \A h \in Groups \ {g} : c.groupChildren[h] = b.groupChildren[h] /\ c.group[h] = b.group[h]
    BY <1>4, <2>1, ZenonT(60)
  <2> QED BY <1>0, <1>2, <1>5, <2>2, <2>3
<1>9. RestIsBlank(c)
  <2>1. ASSUME NEW x \in AssetIds, x > c.registered
        PROVE  c.ledger[x] = EmptyLedger /\ c.childToGroup[x] = 0
    <3>1. x \in AssetIds \ {id} /\ x > b.registered
      <4>1. x > id
        BY <1>4, <2>1
      <4> QED BY <1>0, <1>1, <4>1 DEF AssetIds
    <3>2. b.ledger[x] = EmptyLedger /\ b.childToGroup[x] = 0
      BY <1>0, <3>1 DEF RestIsBlank
    <3> QED BY <1>7, <3>1, <3>2
  <2>2. ASSUME NEW h \in Groups, h > nextGroupId PROVE c.groupChildren[h] = <<>>
    <3>1. h # g
      <4>1. h \in Nat /\ nextGroupId \in Nat
        BY DEF Groups
      <4> QED BY <1>1, <1>2, <2>2, <4>1
    <3> QED BY <1>0, <1>8, <2>2, <3>1 DEF RestIsBlank
  <2> QED BY <2>1, <2>2 DEF RestIsBlank
<1>10. \A h \in 1..nextGroupId : h \in Groups /\ Len(b.groupChildren[h]) \in Nat
  <2>1. b.groupChildren \in [Groups -> Seq(AssetIds)]
    BY <1>0, BooksFields
  <2> QED BY <2>1 DEF Groups
<1>11. GroupsList(c)
  <2> SUFFICES ASSUME NEW h \in 1..nextGroupId
               PROVE  /\ c.group[h].parent \in 1..c.registered
                      /\ c.group[h].unitCount = Len(c.groupChildren[h])
                      /\ c.group[h].nextUnitIndex = c.group[h].unitCount + 1
                      /\ c.group[h].maxUnits # 0 => c.group[h].unitCount <= c.group[h].maxUnits
                      /\ \A k \in 1..Len(c.groupChildren[h]) :
                            /\ c.groupChildren[h][k] \in 1..c.registered
                            /\ c.childToGroup[c.groupChildren[h][k]] = h
                            /\ c.tokenId[c.groupChildren[h][k]] = <<h, k>>
    BY DEF GroupsList
  <2>1. /\ b.group[h].parent \in 1..b.registered
        /\ b.group[h].unitCount = Len(b.groupChildren[h])
        /\ b.group[h].nextUnitIndex = b.group[h].unitCount + 1
        /\ b.group[h].maxUnits # 0 => b.group[h].unitCount <= b.group[h].maxUnits
    BY <1>0 DEF GroupsList
  <2>2. ASSUME NEW k \in 1..Len(b.groupChildren[h])
        PROVE  /\ b.groupChildren[h][k] \in 1..c.registered
               /\ c.childToGroup[b.groupChildren[h][k]] = h
               /\ c.tokenId[b.groupChildren[h][k]] = <<h, k>>
    <3>1. /\ b.groupChildren[h][k] \in 1..b.registered
          /\ b.childToGroup[b.groupChildren[h][k]] = h
          /\ b.tokenId[b.groupChildren[h][k]] = <<h, k>>
      BY <1>0 DEF GroupsList
    <3>2. b.groupChildren[h][k] \in AssetIds \ {id}
      BY <1>2, <3>1
    <3>3. b.groupChildren[h][k] \in 1..c.registered
      <4>1. b.registered \in Nat /\ c.registered = b.registered + 1
        BY <1>0, <1>1, <1>4, BooksFields
      <4> QED BY <3>1, <4>1
    <3> QED BY <1>7, <3>1, <3>2, <3>3, SMTT(30)
  <2>3. CASE h # g
    <3>1. c.groupChildren[h] = b.groupChildren[h] /\ c.group[h] = b.group[h]
      BY <1>8, <1>10, <2>3
    <3>2. b.group[h].parent \in 1..c.registered
      BY <1>0, <1>1, <1>4, <2>1
    <3> QED BY <2>1, <2>2, <3>1, <3>2
  <2>4. CASE h = g
    <3>1. b.group[g].maxUnits # 0 => n < b.group[g].maxUnits
      BY <1>1, <1>6
    <3>2. b.group[g].parent \in 1..c.registered
      BY <1>0, <1>1, <1>4, <1>6
    <3>3. /\ c.group[g].parent \in 1..c.registered
          /\ c.group[g].unitCount = n + 1
          /\ c.group[g].nextUnitIndex = n + 2
          /\ c.group[g].maxUnits = b.group[g].maxUnits
      BY <1>4, <1>5, <1>6, <3>2
    <3>4. ASSUME NEW k \in 1..(n + 1)
          PROVE  /\ c.groupChildren[g][k] \in 1..c.registered
                 /\ c.childToGroup[c.groupChildren[g][k]] = g
                 /\ c.tokenId[c.groupChildren[g][k]] = <<g, k>>
      <4>1. CASE k = n + 1
        <5>1. id \in 1..c.registered
          BY <1>0, <1>1, <1>4
        <5> QED BY <1>7, <1>8, <4>1, <5>1
      <4>2. CASE k \in 1..n
        <5>1. k \in 1..Len(b.groupChildren[h])
          BY <1>0, <2>4, <4>2
        <5>2. /\ b.groupChildren[h][k] \in 1..c.registered
              /\ c.childToGroup[b.groupChildren[h][k]] = h
              /\ c.tokenId[b.groupChildren[h][k]] = <<h, k>>
          BY <2>2, <5>1
        <5>3. c.groupChildren[g][k] = b.groupChildren[g][k]
          BY <1>8, <4>2
        <5> QED BY <2>4, <5>2, <5>3
      <4> QED BY <1>5, <4>1, <4>2
    <3>5. Len(c.groupChildren[g]) = n + 1
      BY <1>8
    <3>6. /\ c.group[g].parent \in 1..c.registered
          /\ c.group[g].unitCount = Len(c.groupChildren[g])
          /\ c.group[g].nextUnitIndex = c.group[g].unitCount + 1
      BY <1>5, <3>3, <3>5
    <3>7. c.group[g].maxUnits # 0 => c.group[g].unitCount <= c.group[g].maxUnits
      BY <1>5, <3>1, <3>3
    <3>8. \A k \in 1..Len(c.groupChildren[g]) :
             /\ c.groupChildren[g][k] \in 1..c.registered
             /\ c.childToGroup[c.groupChildren[g][k]] = g
             /\ c.tokenId[c.groupChildren[g][k]] = <<g, k>>
      BY <3>4, <3>5
    <3> QED BY <2>4, <3>6, <3>7, <3>8
  <2> QED BY <2>3, <2>4
<1>12. UnitsListed(c)
  <2> SUFFICES ASSUME NEW x \in 1..c.registered
               PROVE  IF c.childToGroup[x] = 0
                      THEN \E m \in 1..nextTokenId : c.tokenId[x] = <<0, m>>
                      ELSE /\ c.childToGroup[x] \in 1..nextGroupId
                           /\ \E k \in 1..Len(c.groupChildren[c.childToGroup[x]]) :
                                 c.groupChildren[c.childToGroup[x]][k] = x
    BY DEF UnitsListed
  <2>1. CASE x = id
    <3>1. n + 1 \in 1..Len(c.groupChildren[g])
      BY <1>5, <1>8
    <3> QED BY <1>2, <1>7, <1>8, <2>1, <3>1
  <2>2. CASE x # id
    <3>1. x \in 1..b.registered /\ x \in AssetIds \ {id}
      BY <1>2, <1>4, <2>2
    <3>2. c.childToGroup[x] = b.childToGroup[x] /\ c.tokenId[x] = b.tokenId[x]
      BY <1>7, <3>1
    <3>3. IF b.childToGroup[x] = 0
          THEN \E m \in 1..nextTokenId : b.tokenId[x] = <<0, m>>
          ELSE /\ b.childToGroup[x] \in 1..nextGroupId
               /\ \E k \in 1..Len(b.groupChildren[b.childToGroup[x]]) :
                     b.groupChildren[b.childToGroup[x]][k] = x
      BY <1>0, <3>1 DEF UnitsListed
    <3>4. CASE b.childToGroup[x] = 0
      BY <3>2, <3>3, <3>4
    <3>5. CASE b.childToGroup[x] = g
      <4>1. PICK k \in 1..n : b.groupChildren[g][k] = x
        BY <1>0, <1>2, <3>3, <3>5
      <4>2. k \in 1..Len(c.groupChildren[g]) /\ c.groupChildren[g][k] = x
        BY <1>5, <1>8, <4>1, SMTT(30)
      <4> QED BY <1>2, <3>2, <3>5, <4>2
    <3>6. CASE b.childToGroup[x] # 0 /\ b.childToGroup[x] # g
      BY <1>8, <1>10, <3>2, <3>3, <3>6, SMTT(30)
    <3> QED BY <3>4, <3>5, <3>6
  <2> QED BY <2>1, <2>2
<1>13. NumbersDiffer(c)
  <2>1. \A x \in 1..b.registered : x \in AssetIds \ {id} /\ b.tokenId[x] # <<g, n + 1>>
    <3>1. <<g, n + 1>> \notin TokenIds(b)
      BY <1>1, <1>6
    <3> QED BY <1>2, <3>1 DEF TokenIds
  <2>2. \A x \in 1..c.registered : x = id \/ x \in 1..b.registered
    BY <1>2, <1>4
  <2> QED BY <1>0, <1>7, <2>1, <2>2 DEF NumbersDiffer
<1> QED BY <1>4, <1>9, <1>11, <1>12, <1>13 DEF GoodBooks, c

\* The ledger of a unit is one that minting makes of an empty one.
LEMMA MintedUnitLedger ==
    ASSUME NEW S \in SUBSET LedgerType, Closed(S), EmptyLedger \in S,
           nextTokenId \in Nat, nextGroupId \in 0..MaxGroups,
           NEW b, GoodBooks(b), b.ledger \in [AssetIds -> S],
           NEW u \in Units, UnitAllowed(b, u)
    PROVE  UnitMinted(b, u).ledger \in [AssetIds -> S]
<1> DEFINE first == IF u.amount = 0 THEN EmptyLedger ELSE Minted(EmptyLedger, u.to, u.amount)
           id    == b.registered + 1
<1>1. /\ u.to \in Wallets /\ u.amount \in Nat /\ (u.amount # 0 => u.amount \in Amounts)
      /\ u.amount <= MaxUint
  BY UnitFields DEF UnitAllowed
<1>2. ASSUME u.amount # 0 PROVE Minted(EmptyLedger, u.to, u.amount) \in S
  <2>1. Fits(Minted(EmptyLedger, u.to, u.amount))
    <3>1. u.amount \in 0..MaxUint
      BY <1>1, TokenAssumption
    <3> QED BY <3>1 DEF Fits, Minted, Joined, EmptyLedger, Ledger
  <2> QED BY <1>1, <1>2, <2>1 DEF Closed
<1>3. first \in S
  BY <1>2
<1>4. b.ledger[id] = EmptyLedger
  <2>1. b \in BooksType /\ RestIsBlank(b)
    BY DEF GoodBooks
  <2>2. id \in AssetIds /\ id > b.registered
    <3>1. b.registered \in 0..MaxAssets /\ b.registered < MaxAssets
      BY <2>1, BooksFields DEF UnitAllowed
    <3> QED BY <3>1, TokenAssumption DEF AssetIds
  <2> QED BY <2>1, <2>2 DEF RestIsBlank
<1>5. UnitMinted(b, u).ledger = [b.ledger EXCEPT ![id] = first]
  BY <1>4 DEF UnitMinted
<1> HIDE DEF first, id
<1> QED BY <1>3, <1>5

\* A unit that is given a cap is minted within it.
GrowsWithin(b) ==
    \A id \in AssetIds : b.ledger[id].supply > ledger[id].supply /\ b.asset[id].cap # 0
                            => b.ledger[id].supply <= b.asset[id].cap

LEMMA MintedUnitGrows ==
    ASSUME NEW b, GoodBooks(b), GrowsWithin(b), NEW u \in Units, UnitAllowed(b, u)
    PROVE  GrowsWithin(UnitMinted(b, u))
<1> DEFINE c     == UnitMinted(b, u)
           new   == b.registered + 1
           first == IF u.amount = 0 THEN EmptyLedger ELSE Minted(EmptyLedger, u.to, u.amount)
           config == [paused |-> FALSE, cap |-> u.cap,
                      modules |-> b.asset[b.group[u.group].parent].modules]
<1>1. b \in BooksType /\ RestIsBlank(b)
  BY DEF GoodBooks
<1>2. b.registered \in Nat /\ b.registered < MaxAssets /\ new \in AssetIds
  <2>1. b.registered \in 0..MaxAssets /\ b.registered < MaxAssets
    BY <1>1, BooksFields DEF UnitAllowed
  <2> QED BY <2>1, TokenAssumption DEF AssetIds
<1>3. b.ledger[new] = EmptyLedger
  BY <1>1, <1>2 DEF RestIsBlank
<1>4. first.supply = u.amount /\ (u.cap # 0 => u.amount <= u.cap)
  <2>1. u.amount \in Nat /\ (u.cap # 0 => u.amount <= u.cap)
    BY UnitFields DEF UnitAllowed
  <2> QED BY <2>1 DEF Minted, Joined, EmptyLedger, Ledger
<1>5. config.cap = u.cap
  OBVIOUS
<1>6. c.ledger = [b.ledger EXCEPT ![new] = first] /\ c.asset = [b.asset EXCEPT ![new] = config]
  BY <1>3, Zenon DEF UnitMinted
<1>7. b.ledger \in [AssetIds -> LedgerType] /\ b.asset \in [AssetIds -> AssetConfig]
  BY <1>1, BooksFields
<1> HIDE DEF c, new, first, config
<1>8. /\ c.ledger[new] = first /\ c.asset[new] = config
      /\ \A id \in AssetIds \ {new} : c.ledger[id] = b.ledger[id] /\ c.asset[id] = b.asset[id]
  BY <1>2, <1>6, <1>7
<1> QED BY <1>4, <1>5, <1>8 DEF GrowsWithin, c

-----------------------------------------------------------------------------
(* Steps *)

LEMMA InitGroups == Init /\ GroupsInit => GroupsInv
<1> SUFFICES ASSUME Init, GroupsInit PROVE GroupsInv
  OBVIOUS
<1>1. TypeOK
  BY InitType
<1>2. Books \in BooksType
  <2>1. NoGroup \in GroupRecord
    BY DEF NoGroup, GroupRecord
  <2>2. /\ tokenId \in [AssetIds -> Nat \X Nat]
        /\ group \in [Groups -> GroupRecord]
        /\ groupChildren \in [Groups -> Seq(AssetIds)]
        /\ childToGroup \in [AssetIds -> 0..MaxGroups]
    BY <2>1, GroupAssumption DEF GroupsInit
  <2> QED BY <1>1, <2>2 DEF TypeOK, Books, BooksType
<1>3. /\ Books.registered = 0 /\ Books.ledger = ledger /\ Books.groupChildren = groupChildren
      /\ Books.childToGroup = childToGroup
  BY DEF Books, Init
<1>4. RestIsBlank(Books)
  BY <1>3 DEF RestIsBlank, Init, GroupsInit
<1>5. GroupsList(Books)
  BY DEF GroupsList, GroupsInit
<1>6. UnitsListed(Books) /\ NumbersDiffer(Books)
  BY <1>3 DEF UnitsListed, NumbersDiffer
<1> QED BY <1>1, <1>2, <1>4, <1>5, <1>6, GroupAssumption DEF GroupsInv, GoodBooks, GroupsInit

\* Writing books that are good.
LEMMA WriteGood ==
    ASSUME GroupsInv, NEW b, GoodBooks(b), Write(b)
    PROVE  GroupsInv'
<1>1. b \in BooksType
  BY DEF GoodBooks
<1>2. b = [registered |-> b.registered, asset |-> b.asset, ledger |-> b.ledger,
           tokenId |-> b.tokenId, group |-> b.group, groupChildren |-> b.groupChildren,
           childToGroup |-> b.childToGroup]
  BY <1>1 DEF BooksType
<1>3. Books' = b
  BY <1>2 DEF Write, Books
<1>4. TypeOK'
  <2>1. /\ b.registered \in 0..MaxAssets /\ b.asset \in [AssetIds -> AssetConfig]
        /\ b.ledger \in [AssetIds -> LedgerType]
    BY <1>1, BooksFields
  <2> QED BY <2>1 DEF Write, TypeOK, GroupsInv, restrainVars, partyVars
<1>5. GoodBooks(b)'
  BY DEF Write, GoodBooks, RestIsBlank, GroupsList, UnitsListed
<1> QED BY <1>3, <1>4, <1>5 DEF GroupsInv, Write

\* One unit or two, one after the other.
Minting == \E caller \in Callers, u \in Units :
              \/ MintUnit(caller, u)
              \/ \E v \in Units : MintUnitBatch(caller, u, v)

LEMMA MintingStep ==
    ASSUME GroupsInv, Minting
    PROVE  \E b : /\ GoodBooks(b) /\ Write(b)
                  /\ GrowsWithin(b)
                  /\ \A S \in SUBSET LedgerType :
                        Closed(S) /\ EmptyLedger \in S /\ ledger \in [AssetIds -> S]
                           => b.ledger \in [AssetIds -> S]
<1>1. PICK caller \in Callers, u \in Units :
          \/ MintUnit(caller, u)
          \/ \E v \in Units : MintUnitBatch(caller, u, v)
  BY DEF Minting
<1> DEFINE b == UnitMinted(Books, u)
<1>2. /\ GoodBooks(Books) /\ Books.ledger = ledger
      /\ nextTokenId \in Nat /\ nextGroupId \in 0..MaxGroups
  BY DEF GroupsInv, Books
<1>8. GrowsWithin(Books)
  <2>1. \A id \in AssetIds : ledger[id].supply \in Nat
    BY DEF GroupsInv, TypeOK, LedgerType
  <2> QED BY <2>1 DEF GrowsWithin, Books
<1>3. UnitAllowed(Books, u)
  BY <1>1 DEF MintUnit, MintUnitBatch
<1>4. GoodBooks(b) /\ GrowsWithin(b)
  BY <1>2, <1>3, <1>8, MintedUnitGood, MintedUnitGrows
<1>5. ASSUME NEW S \in SUBSET LedgerType, Closed(S), EmptyLedger \in S, ledger \in [AssetIds -> S]
      PROVE  b.ledger \in [AssetIds -> S]
  BY <1>2, <1>3, <1>5, MintedUnitLedger
<1>6. CASE MintUnit(caller, u)
  <2>1. Write(b)
    BY <1>6 DEF MintUnit
  <2> HIDE DEF b
  <2> QED BY <1>4, <1>5, <2>1
<1>7. CASE \E v \in Units : MintUnitBatch(caller, u, v)
  <2>1. PICK v \in Units : UnitAllowed(b, v) /\ Write(UnitMinted(b, v))
    BY <1>7 DEF MintUnitBatch
  <2> HIDE DEF b
  <2> DEFINE c == UnitMinted(b, v)
  <2>2. GoodBooks(c) /\ GrowsWithin(c)
    BY <1>2, <1>4, <2>1, MintedUnitGood, MintedUnitGrows
  <2>3. ASSUME NEW S \in SUBSET LedgerType, Closed(S), EmptyLedger \in S, ledger \in [AssetIds -> S]
        PROVE  c.ledger \in [AssetIds -> S]
    BY <1>2, <1>4, <1>5, <2>1, <2>3, MintedUnitLedger
  <2>4. Write(c)
    BY <2>1
  <2> HIDE DEF c
  <2> QED BY <2>2, <2>3, <2>4
<1> QED BY <1>1, <1>6, <1>7

LEMMA CreateGroupStep ==
    ASSUME GroupsInv, NEW caller, NEW parent, NEW maxUnits \in UnitLimits,
           CreateGroup(caller, parent, maxUnits)
    PROVE  GroupsInv'
<1> DEFINE new == nextGroupId + 1
           r   == [parent |-> parent, maxUnits |-> maxUnits, unitCount |-> 0, nextUnitIndex |-> 1]
<1>1. /\ TypeOK /\ Books \in BooksType /\ RestIsBlank(Books) /\ GroupsList(Books)
      /\ UnitsListed(Books) /\ NumbersDiffer(Books)
      /\ nextTokenId \in Nat /\ nextGroupId \in 0..MaxGroups
  BY DEF GroupsInv, GoodBooks
<1>2. /\ registered \in Nat /\ group \in [Groups -> GroupRecord]
      /\ childToGroup \in [AssetIds -> 0..MaxGroups]
  BY <1>1 DEF TypeOK, BooksType, Books
<1>3. /\ nextGroupId' = new /\ new \in Groups /\ new \in 0..MaxGroups /\ parent \in 1..registered
  BY <1>1, GroupAssumption DEF CreateGroup, Groups, Registered
<1>4. r \in GroupRecord
  BY <1>2, <1>3, GroupAssumption DEF GroupRecord
<1>5. group' = [group EXCEPT ![new] = r]
  BY <1>3 DEF CreateGroup
<1> HIDE DEF new
<1>6. /\ group' \in [Groups -> GroupRecord] /\ group'[new] = r
      /\ \A g \in Groups \ {new} : group'[g] = group[g]
  BY <1>2, <1>3, <1>4, <1>5
<1>7. TypeOK' /\ UNCHANGED <<registered, asset, ledger, tokenId, groupChildren, childToGroup, nextTokenId>>
  BY <1>1 DEF CreateGroup, TypeOK, vars, ledgerVars, restrainVars, partyVars
<1>8. Books' \in BooksType
  BY <1>1, <1>6, <1>7 DEF Books, BooksType
<1>9. RestIsBlank(Books)'
  <2>1. \A g \in Groups : g > nextGroupId' => g > nextGroupId
    BY <1>1, <1>3 DEF Groups, new
  <2> QED BY <1>1, <1>7, <2>1 DEF RestIsBlank, Books
<1>10. GroupsList(Books)'
  <2> SUFFICES ASSUME NEW g \in 1..new
               PROVE  /\ group'[g].parent \in 1..registered
                      /\ group'[g].unitCount = Len(groupChildren[g])
                      /\ group'[g].nextUnitIndex = group'[g].unitCount + 1
                      /\ group'[g].maxUnits # 0 => group'[g].unitCount <= group'[g].maxUnits
                      /\ \A k \in 1..Len(groupChildren[g]) :
                            /\ groupChildren[g][k] \in 1..registered
                            /\ childToGroup[groupChildren[g][k]] = g
                            /\ tokenId[groupChildren[g][k]] = <<g, k>>
    BY <1>3, <1>7 DEF GroupsList, Books
  <2>1. CASE g = new
    <3>1. groupChildren[g] = <<>>
      BY <1>1, <1>3, <2>1 DEF RestIsBlank, Books, new
    <3>2. maxUnits \in Nat
      BY GroupAssumption
    <3> QED BY <1>3, <1>6, <2>1, <3>1, <3>2
  <2>2. CASE g # new
    <3>1. g \in 1..nextGroupId /\ g \in Groups \ {new}
      <4>1. nextGroupId \in Nat /\ nextGroupId < MaxGroups /\ g \in 1..(nextGroupId + 1)
        BY <1>1 DEF CreateGroup, new
      <4> QED BY <2>2, <4>1, GroupAssumption DEF new, Groups
    <3>2. /\ group[g].parent \in 1..registered
          /\ group[g].unitCount = Len(groupChildren[g])
          /\ group[g].nextUnitIndex = group[g].unitCount + 1
          /\ group[g].maxUnits # 0 => group[g].unitCount <= group[g].maxUnits
          /\ \A k \in 1..Len(groupChildren[g]) :
                /\ groupChildren[g][k] \in 1..registered
                /\ childToGroup[groupChildren[g][k]] = g
                /\ tokenId[groupChildren[g][k]] = <<g, k>>
      BY <1>1, <3>1 DEF GroupsList, Books
    <3>3. group'[g] = group[g]
      BY <1>6, <3>1
    <3> QED BY <3>2, <3>3
  <2> QED BY <2>1, <2>2
<1>11. UnitsListed(Books)'
  <2>1. \A g \in 1..nextGroupId : g \in 1..nextGroupId'
    BY <1>1, <1>3 DEF new
  <2> QED BY <1>1, <1>7, <2>1 DEF UnitsListed, Books
<1>12. NumbersDiffer(Books)'
  BY <1>1, <1>7 DEF NumbersDiffer, Books
<1> QED BY <1>1, <1>3, <1>7, <1>8, <1>9, <1>10, <1>11, <1>12 DEF GroupsInv, GoodBooks

\* A call of another facet: at most one asset is registered, and its number is
\* one that neither the registry nor a group has given before.
LEMMA TokenCallStep ==
    ASSUME GroupsInv, TokenCall(Next)
    PROVE  GroupsInv'
<1>1. /\ TypeOK /\ Books \in BooksType /\ RestIsBlank(Books) /\ GroupsList(Books)
      /\ UnitsListed(Books) /\ NumbersDiffer(Books)
      /\ nextTokenId \in Nat /\ nextGroupId \in 0..MaxGroups
  BY DEF GroupsInv, GoodBooks
<1>2. /\ Next /\ Numbered /\ UNCHANGED <<nextGroupId, group, groupChildren, childToGroup>>
  BY DEF TokenCall
<1>3. TypeOK'
  BY <1>1, <1>2, NextType
<1>4. /\ registered \in Nat /\ registered' \in 0..MaxAssets
      /\ tokenId \in [AssetIds -> Nat \X Nat]
  BY <1>1, <1>3, TokenAssumption DEF TypeOK, BooksType, Books
<1>5. /\ \A id \in AssetIds : id > registered => ledger[id] = EmptyLedger /\ childToGroup[id] = 0
      /\ \A g \in Groups : g > nextGroupId => groupChildren[g] = <<>>
  BY <1>1 DEF RestIsBlank, Books
<1>6. Unissued'
  <2>1. Unissued
    BY <1>4, <1>5 DEF Unissued, Registered, AssetIds
  <2> QED BY <1>1, <1>2, <2>1, NextUnissued
<1>7. \/ registered' = registered /\ UNCHANGED <<nextTokenId, tokenId>>
      \/ /\ registered' = registered + 1
         /\ nextTokenId' = nextTokenId + 1
         /\ tokenId' = [tokenId EXCEPT ![registered + 1] = <<0, nextTokenId + 1>>]
  BY <1>1, <1>2, <1>4, RegistryGrows DEF Numbered
<1>8. tokenId' \in [AssetIds -> Nat \X Nat] /\ nextTokenId' \in Nat /\ nextTokenId <= nextTokenId'
  BY <1>1, <1>4, <1>7
<1>9. Books' \in BooksType
  BY <1>1, <1>2, <1>3, <1>8 DEF TypeOK, BooksType, Books
<1>10. registered <= registered'
  BY <1>4, <1>7
<1>11. \A id \in 1..registered : id \in AssetIds /\ id \in 1..registered' /\ tokenId'[id] = tokenId[id]
  BY <1>1, <1>4, <1>7, TokenAssumption DEF AssetIds, TypeOK
<1>12. RestIsBlank(Books)'
  <2>1. \A id \in AssetIds : id > registered' => id > registered /\ ~Registered(id)'
    BY <1>4, <1>10 DEF AssetIds, Registered
  <2>2. \A id \in AssetIds : id > registered' => ledger'[id] = EmptyLedger /\ childToGroup'[id] = 0
    BY <1>2, <1>5, <1>6, <2>1 DEF Unissued
  <2> QED BY <1>2, <1>5, <2>2 DEF RestIsBlank, Books
<1>13. GroupsList(Books)'
  <2> SUFFICES ASSUME NEW g \in 1..nextGroupId
               PROVE  /\ group[g].parent \in 1..registered'
                      /\ group[g].unitCount = Len(groupChildren[g])
                      /\ group[g].nextUnitIndex = group[g].unitCount + 1
                      /\ group[g].maxUnits # 0 => group[g].unitCount <= group[g].maxUnits
                      /\ \A k \in 1..Len(groupChildren[g]) :
                            /\ groupChildren[g][k] \in 1..registered'
                            /\ childToGroup[groupChildren[g][k]] = g
                            /\ tokenId'[groupChildren[g][k]] = <<g, k>>
    BY <1>2 DEF GroupsList, Books
  <2>1. /\ group[g].parent \in 1..registered
        /\ group[g].unitCount = Len(groupChildren[g])
        /\ group[g].nextUnitIndex = group[g].unitCount + 1
        /\ group[g].maxUnits # 0 => group[g].unitCount <= group[g].maxUnits
        /\ \A k \in 1..Len(groupChildren[g]) :
              /\ groupChildren[g][k] \in 1..registered
              /\ childToGroup[groupChildren[g][k]] = g
              /\ tokenId[groupChildren[g][k]] = <<g, k>>
    BY <1>1 DEF GroupsList, Books
  <2> QED BY <1>11, <2>1
<1>14. \A id \in 1..registered' :
          id \in 1..registered \/ (id = registered + 1 /\ registered' = registered + 1)
  <2>1. registered' = registered \/ registered' = registered + 1
    BY <1>7
  <2> QED BY <1>4, <2>1
<1>15. \A id \in 1..registered :
          IF childToGroup[id] = 0
          THEN \E n \in 1..nextTokenId : tokenId[id] = <<0, n>>
          ELSE /\ childToGroup[id] \in 1..nextGroupId
               /\ \E k \in 1..Len(groupChildren[childToGroup[id]]) :
                     groupChildren[childToGroup[id]][k] = id
  BY <1>1 DEF UnitsListed, Books
<1>16. UnitsListed(Books)'
  <2> SUFFICES ASSUME NEW id \in 1..registered'
               PROVE  IF childToGroup[id] = 0
                      THEN \E n \in 1..nextTokenId' : tokenId'[id] = <<0, n>>
                      ELSE /\ childToGroup[id] \in 1..nextGroupId
                           /\ \E k \in 1..Len(groupChildren[childToGroup[id]]) :
                                 groupChildren[childToGroup[id]][k] = id
    BY <1>2 DEF UnitsListed, Books
  <2>1. CASE id \in 1..registered
    <3>1. \A n \in 1..nextTokenId : n \in 1..nextTokenId'
      BY <1>1, <1>8
    <3> QED BY <1>11, <1>15, <2>1, <3>1
  <2>2. CASE id = registered + 1 /\ registered' = registered + 1
    <3>1. id \in AssetIds /\ id > registered
      BY <1>4, <2>2, TokenAssumption DEF AssetIds
    <3>2. tokenId'[id] = <<0, nextTokenId + 1>> /\ nextTokenId' = nextTokenId + 1
      BY <1>4, <1>7, <2>2, <3>1
    <3>3. childToGroup[id] = 0
      BY <1>5, <3>1
    <3> QED BY <1>1, <3>2, <3>3
  <2> QED BY <1>14, <2>1, <2>2
<1>17. NumbersDiffer(Books)'
  <2>1. \A id, other \in 1..registered : tokenId'[id] = tokenId'[other] => id = other
    BY <1>1, <1>11 DEF NumbersDiffer, Books
  <2>2. ASSUME registered' = registered + 1, NEW id \in 1..registered
        PROVE  tokenId'[id] # tokenId'[registered + 1]
    <3>1. tokenId'[registered + 1] = <<0, nextTokenId + 1>>
      <4>1. registered + 1 \in AssetIds
        BY <1>4, <2>2, TokenAssumption DEF AssetIds
      <4> QED BY <1>4, <1>7, <2>2, <4>1
    <3>2. CASE childToGroup[id] = 0
      <4>1. PICK n \in 1..nextTokenId : tokenId[id] = <<0, n>>
        BY <1>15, <3>2
      <4> QED BY <1>1, <1>11, <3>1, <4>1
    <3>3. CASE childToGroup[id] # 0
      <4>1. PICK k \in 1..Len(groupChildren[childToGroup[id]]) :
               groupChildren[childToGroup[id]][k] = id
        BY <1>15, <3>3
      <4>2. childToGroup[id] \in 1..nextGroupId
        BY <1>15, <3>3
      <4>3. tokenId[id] = <<childToGroup[id], k>>
        <5>1. \A g \in 1..nextGroupId : \A m \in 1..Len(groupChildren[g]) :
                 tokenId[groupChildren[g][m]] = <<g, m>>
          BY <1>1 DEF GroupsList, Books
        <5> QED BY <4>1, <4>2, <5>1
      <4> QED BY <1>11, <3>1, <3>3, <4>3
    <3> QED BY <3>2, <3>3
  <2>3. \A id, other \in 1..registered' : tokenId'[id] = tokenId'[other] => id = other
    BY <1>14, <2>1, <2>2
  <2> QED BY <2>3 DEF NumbersDiffer, Books
<1> QED BY <1>1, <1>2, <1>3, <1>8, <1>9, <1>12, <1>13, <1>16, <1>17 DEF GroupsInv, GoodBooks

LEMMA StepGroups == GroupsInv /\ [GroupsNext]_<<vars, groupVars>> => GroupsInv'
<1> SUFFICES ASSUME GroupsInv, [GroupsNext]_<<vars, groupVars>> PROVE GroupsInv'
  OBVIOUS
<1>1. CASE TokenCall(Next)
  BY <1>1, TokenCallStep
<1>2. CASE Minting
  BY <1>2, MintingStep, WriteGood
<1>3. CASE \E caller \in Callers, parent \in AssetIds, maxUnits \in UnitLimits :
              CreateGroup(caller, parent, maxUnits)
  BY <1>3, CreateGroupStep
<1>4. CASE UNCHANGED <<vars, groupVars>>
  <2>1. Write(Books)
    BY <1>4 DEF Write, Books, vars, ledgerVars, groupVars
  <2>2. GoodBooks(Books)
    BY DEF GroupsInv
  <2>3. PICK b : b = Books /\ GoodBooks(b) /\ Write(b)
    BY <2>1, <2>2
  <2> QED BY <2>3, WriteGood
<1>5. GroupNext => Minting \/ \E caller \in Callers, parent \in AssetIds, maxUnits \in UnitLimits :
                                 CreateGroup(caller, parent, maxUnits)
  BY Zenon DEF GroupNext, Minting
<1> QED BY <1>1, <1>2, <1>3, <1>4, <1>5 DEF GroupsNext

LEMMA AlwaysGroupsInv == GroupsSpec => []GroupsInv
  BY InitGroups, StepGroups, PTL DEF GroupsSpec

\* Whatever set of ledgers the calls of the token facets do not leave, the calls
\* that mint units do not leave either.
LEMMA GroupLedgersStay ==
    ASSUME NEW S \in SUBSET LedgerType, Closed(S), EmptyLedger \in S
    PROVE  GroupsInv /\ ledger \in [AssetIds -> S] /\ [GroupsNext]_<<vars, groupVars>>
              => ledger' \in [AssetIds -> S]
<1> SUFFICES ASSUME GroupsInv, ledger \in [AssetIds -> S], [GroupsNext]_<<vars, groupVars>>
             PROVE  ledger' \in [AssetIds -> S]
  OBVIOUS
<1>1. CASE TokenCall(Next)
  BY <1>1, LedgersStay DEF TokenCall, GroupsInv
<1>2. CASE Minting
  <2>1. PICK b : Write(b) /\ b.ledger \in [AssetIds -> S]
    BY <1>2, MintingStep
  <2> QED BY <2>1 DEF Write
<1>3. CASE \E caller \in Callers, parent \in AssetIds, maxUnits \in UnitLimits :
              CreateGroup(caller, parent, maxUnits)
  BY <1>3 DEF CreateGroup, vars, ledgerVars
<1>4. CASE UNCHANGED <<vars, groupVars>>
  BY <1>4 DEF vars, ledgerVars
<1>5. GroupNext => Minting \/ \E caller \in Callers, parent \in AssetIds, maxUnits \in UnitLimits :
                                 CreateGroup(caller, parent, maxUnits)
  BY Zenon DEF GroupNext, Minting
<1> QED BY <1>1, <1>2, <1>3, <1>4, <1>5 DEF GroupsNext

-----------------------------------------------------------------------------
(* With units minted between the calls *)

LEMMA GoodBooksAgree == GroupsInv => UnitsAgree
<1> SUFFICES ASSUME GroupsInv PROVE UnitsAgree
  OBVIOUS
<1>1. /\ Books \in BooksType /\ NumbersDiffer(Books)
      /\ nextTokenId \in Nat /\ nextGroupId \in 0..MaxGroups /\ registered \in Nat
  BY DEF GroupsInv, GoodBooks, TypeOK
<1>2. \A g \in 1..nextGroupId :
        /\ group[g].unitCount = Len(groupChildren[g])
        /\ group[g].nextUnitIndex = group[g].unitCount + 1
        /\ group[g].maxUnits # 0 => group[g].unitCount <= group[g].maxUnits
        /\ \A k \in 1..Len(groupChildren[g]) :
              /\ groupChildren[g][k] \in 1..registered
              /\ childToGroup[groupChildren[g][k]] = g
              /\ tokenId[groupChildren[g][k]] = <<g, k>>
  BY DEF GroupsInv, GoodBooks, GroupsList, Books
<1>3. \A id \in 1..registered :
          IF childToGroup[id] = 0
          THEN \E n \in 1..nextTokenId : tokenId[id] = <<0, n>>
          ELSE /\ childToGroup[id] \in 1..nextGroupId
               /\ \E k \in 1..Len(groupChildren[childToGroup[id]]) :
                     groupChildren[childToGroup[id]][k] = id
  BY DEF GroupsInv, GoodBooks, UnitsListed, Books
<1>4. \A id, other \in 1..registered : tokenId[id] = tokenId[other] => id = other
  BY <1>1 DEF NumbersDiffer, Books
<1>5. ASSUME NEW id \in 1..registered, NEW g \in 1..nextGroupId
      PROVE  childToGroup[id] = g <=> \E k \in 1..group[g].unitCount : groupChildren[g][k] = id
  <2>1. g # 0
    OBVIOUS
  <2> QED BY <1>2, <1>3, <2>1
<1>6. ASSUME NEW g \in 1..nextGroupId
      PROVE  NextTokenId(Books, g) \notin TokenIds(Books)
  <2>1. NextTokenId(Books, g) = <<g, Len(groupChildren[g]) + 1>>
    BY <1>2 DEF NextTokenId, Books
  <2>2. Len(groupChildren[g]) \in Nat
    <3>1. g \in Groups /\ groupChildren \in [Groups -> Seq(AssetIds)]
      BY <1>1, GroupAssumption DEF Groups, BooksType, Books
    <3> QED BY <3>1
  <2>3. ASSUME NEW id \in 1..registered PROVE tokenId[id] # <<g, Len(groupChildren[g]) + 1>>
    <3>1. CASE childToGroup[id] = 0
      BY <1>3, <3>1
    <3>2. CASE childToGroup[id] # 0
      <4>1. PICK k \in 1..Len(groupChildren[childToGroup[id]]) :
               groupChildren[childToGroup[id]][k] = id
        BY <1>3, <3>2
      <4>2. childToGroup[id] \in 1..nextGroupId
        BY <1>3, <3>2
      <4>3. tokenId[id] = <<childToGroup[id], k>>
        BY <1>2, <4>1, <4>2
      <4> QED BY <2>2, <4>1, <4>3
    <3> QED BY <3>1, <3>2
  <2> QED BY <2>1, <2>3 DEF TokenIds, Books
<1> QED BY <1>2, <1>4, <1>5, <1>6 DEF UnitsAgree

\* Assets, groups and units agree after any sequence of registrations, groups,
\* units and batches of units, beside all the calls of the other facets: no two
\* assets have one tokenId and no group with room left finds its next one taken.
THEOREM UnitsAlwaysAgree == GroupsSpec => []UnitsAgree
  BY AlwaysGroupsInv, GoodBooksAgree, PTL

\* Minting units keeps the types of the token facets' storage.
THEOREM GroupsTypeCorrect == GroupsSpec => []TypeOK
<1>1. GroupsInv => TypeOK
  BY DEF GroupsInv
<1> QED BY <1>1, AlwaysGroupsInv, PTL

\* Units minted in a group are counted in their supply, like all others.
THEOREM GroupSupplyAlwaysSum == GroupsSpec => []SupplyIsSumOfBalances
<1>1. Init => LedgersSummed
  BY SummedClosed DEF Init, LedgersSummed
<1>2. GroupsInv /\ LedgersSummed /\ [GroupsNext]_<<vars, groupVars>> => LedgersSummed'
  <2>1. SummedLedgers \in SUBSET LedgerType
    BY DEF SummedLedgers
  <2> QED BY <2>1, SummedClosed, GroupLedgersStay DEF LedgersSummed
<1> QED BY <1>1, <1>2, SummedIsSum, AlwaysGroupsInv, PTL DEF GroupsSpec

\* Who is minted a unit is flagged and counted as its holder, and nobody becomes
\* a holder of a unit of nothing.
THEOREM GroupHoldersAlwaysFlagged == GroupsSpec => []HoldersAreFlagged
<1>1. Init => LedgersTracked
  BY TrackedClosed DEF Init, LedgersTracked
<1>2. GroupsInv /\ LedgersTracked /\ [GroupsNext]_<<vars, groupVars>> => LedgersTracked'
  <2>1. TrackedLedgers \in SUBSET LedgerType
    BY DEF TrackedLedgers
  <2> QED BY <2>1, TrackedClosed, GroupLedgersStay DEF LedgersTracked
<1> QED BY <1>1, <1>2, TrackedIsFlagged, AlwaysGroupsInv, PTL DEF GroupsSpec

\* A unit is minted within the cap it is given, in a batch of units too.
THEOREM GroupCapBindsGrowth == GroupsSpec => GrowthWithinCap
<1>1. ASSUME GroupsInv, [GroupsNext]_<<vars, groupVars>>, NEW id \in AssetIds
      PROVE  GrowthFits(id)
  <2>1. ledger[id].supply \in Nat /\ TypeOK
    BY <1>1 DEF GroupsInv, TypeOK, LedgerType
  <2>2. CASE TokenCall(Next)
    BY <2>1, <2>2, NextGrowth DEF TokenCall
  <2>3. CASE Minting
    <3>1. PICK b : Write(b) /\ GrowsWithin(b)
      BY <1>1, <2>3, MintingStep
    <3> QED BY <3>1 DEF Write, GrowsWithin, GrowthFits
  <2>4. CASE UNCHANGED ledger
    BY <2>1, <2>4 DEF GrowthFits
  <2>5. GroupNext => Minting \/ UNCHANGED ledger
    <3>1. ASSUME NEW caller, NEW parent, NEW maxUnits, CreateGroup(caller, parent, maxUnits)
          PROVE  UNCHANGED ledger
      BY <3>1 DEF CreateGroup, vars, ledgerVars
    <3> QED BY <3>1, Zenon DEF GroupNext, Minting
  <2>6. UNCHANGED <<vars, groupVars>> => UNCHANGED ledger
    BY DEF vars, ledgerVars
  <2> QED BY <1>1, <2>2, <2>3, <2>4, <2>5, <2>6 DEF GroupsNext
<1>2. GroupsInv /\ [GroupsNext]_<<vars, groupVars>>
        => [\A id \in AssetIds : GrowthFits(id)]_vars
  BY <1>1
<1> QED BY <1>2, AlwaysGroupsInv, PTL DEF GroupsSpec, GrowthWithinCap, GrowthFits
=============================================================================
