-------------------------- MODULE ComplianceModules --------------------------
(***************************************************************************)
(* The five compliance modules an asset may be configured with: the        *)
(* settings their owners change and the verdict canTransfer gives.  Their  *)
(* transferred, minted and burned hooks are empty in the source.           *)
(***************************************************************************)
EXTENDS TokenState

(* Settings: each is a contract's own mapping from tokenId, which its owner  *)
(* can set whether or not the tokenId is registered or the module plugged in. *)

SetMaxBalance(caller, id, limit) ==
    /\ caller = ModuleOwner
    /\ rules' = [rules EXCEPT ![id].maxBalance = limit]
    /\ UNCHANGED <<ledgerVars, restrainVars, partyVars, now>>

SetMaxHolders(caller, id, limit) ==
    /\ caller = ModuleOwner
    /\ rules' = [rules EXCEPT ![id].maxHolders = limit]
    /\ UNCHANGED <<ledgerVars, restrainVars, partyVars, now>>

SetLockup(caller, id, expiry) ==
    /\ caller = ModuleOwner
    /\ expiry > now
    /\ rules' = [rules EXCEPT ![id].cprExpiry = expiry]
    /\ UNCHANGED <<ledgerVars, restrainVars, partyVars, now>>

ClearLockup(caller, id) ==
    /\ caller = ModuleOwner
    /\ rules' = [rules EXCEPT ![id].cprExpiry = 0]
    /\ UNCHANGED <<ledgerVars, restrainVars, partyVars, now>>

RestrictCountry(caller, id, c) ==
    /\ caller = ModuleOwner
    /\ rules' = [rules EXCEPT ![id].blocked = @ \cup {c}]
    /\ UNCHANGED <<ledgerVars, restrainVars, partyVars, now>>

BatchRestrictCountries(caller, id, cs) ==
    /\ caller = ModuleOwner
    /\ rules' = [rules EXCEPT ![id].blocked = @ \cup cs]
    /\ UNCHANGED <<ledgerVars, restrainVars, partyVars, now>>

UnrestrictCountry(caller, id, c) ==
    /\ caller = ModuleOwner
    /\ rules' = [rules EXCEPT ![id].blocked = @ \ {c}]
    /\ UNCHANGED <<ledgerVars, restrainVars, partyVars, now>>

\* The profile's number is not used by canTransfer, only whether there is one.
SetTokenProfile(caller, id, set) ==
    /\ caller = ModuleOwner
    /\ rules' = [rules EXCEPT ![id].kyc = set]
    /\ UNCHANGED <<ledgerVars, restrainVars, partyVars, now>>

ComplianceModulesNext ==
    \E caller \in Callers, id \in AssetIds :
        \/ \E limit \in HoldingLimits : SetMaxBalance(caller, id, limit)
        \/ \E limit \in HolderLimits : SetMaxHolders(caller, id, limit)
        \/ \E expiry \in Expiries : SetLockup(caller, id, expiry)
        \/ ClearLockup(caller, id)
        \/ \E c \in Countries : RestrictCountry(caller, id, c) \/ UnrestrictCountry(caller, id, c)
        \/ \E cs \in SUBSET Countries : BatchRestrictCountries(caller, id, cs)
        \/ \E set \in BOOLEAN : SetTokenProfile(caller, id, set)

-----------------------------------------------------------------------------
(* Verdicts, over a ledger l of the tokenId that a batch may have advanced *)

\* The receiver's balance is read before the sender is debited, so a transfer
\* to oneself counts the amount twice.
MaxBalanceAllows(id, l, to, n) ==
    rules[id].maxBalance = 0 \/ l.free[to] + n <= rules[id].maxBalance

\* Mutant: off by one.
MaxHoldersOneMore(id, l, to) ==
    \/ rules[id].maxHolders = 0
    \/ l.free[to] > 0
    \/ l.count <= rules[id].maxHolders

MaxHoldersAllows(id, l, to) ==
    \/ rules[id].maxHolders = 0
    \/ l.free[to] > 0
    \/ l.count < rules[id].maxHolders

CountryAllows(id, w) == country[w] = NoCountry \/ country[w] \notin rules[id].blocked

\* Mutant: the lock-up ends a second early.
CprLockupEndsEarly(id) == rules[id].cprExpiry = 0 \/ now >= rules[id].cprExpiry

CprLockupAllows(id) == rules[id].cprExpiry = 0 \/ now > rules[id].cprExpiry

ProducerKycAllows(id, to) == ~rules[id].kyc \/ to \in identified

\* Mutant: the receiver's country is not looked at.
CanTransferSenderOnly(id, l, from, to, n) ==
    /\ "MaxBalance" \in asset[id].modules => MaxBalanceAllows(id, l, to, n)
    /\ "MaxHolders" \in asset[id].modules => MaxHoldersAllows(id, l, to)
    /\ "CountryRestrict" \in asset[id].modules => CountryAllows(id, from)
    /\ "CprLockup" \in asset[id].modules => CprLockupAllows(id)
    /\ "ProducerKyc" \in asset[id].modules => ProducerKycAllows(id, to)

\* Every module the asset lists must accept: the loop stops at the first refusal.
CanTransfer(id, l, from, to, n) ==
    /\ "MaxBalance" \in asset[id].modules => MaxBalanceAllows(id, l, to, n)
    /\ "MaxHolders" \in asset[id].modules => MaxHoldersAllows(id, l, to)
    /\ "CountryRestrict" \in asset[id].modules
          => CountryAllows(id, from) /\ CountryAllows(id, to)
    /\ "CprLockup" \in asset[id].modules => CprLockupAllows(id)
    /\ "ProducerKyc" \in asset[id].modules => ProducerKycAllows(id, to)
=============================================================================
