--------------------------- MODULE YieldDistributor ---------------------------
(***************************************************************************)
(* YieldDistributorModule for one staked tokenId of the diamond: deposits  *)
(* raise an accumulator per unit, and the facets' plugin hooks checkpoint  *)
(* each wallet whose balance they changed.                                 *)
(*                                                                         *)
(* One action is one call that does not revert.  Of the diamond there is   *)
(* what the module sees: balances, supply, and which calls have a hook.    *)
(* A forced transfer is a Transfer here, each item of a batch is one too,  *)
(* and the calls of an admin are made by the owner, so callers are left    *)
(* out.  A reward is paid in a token that runs no code of its receiver.    *)
(***************************************************************************)
EXTENDS Integers, FiniteSets, Functions

CONSTANTS
    Wallets,
    NoOne,              \* the zero address
    Rewards,            \* reward assets
    MaxRewardAssets,    \* MAX_REWARD_ASSETS
    PRECISION,          \* the scale of the accumulator
    Amounts,            \* units that are moved at a time
    Deposits,           \* amounts that are deposited
    MaxSupply,          \* bound: the units in circulation
    MaxAcc,             \* bound: the accumulators
    MaxPending          \* bound: what is pending for a wallet

ASSUME YieldAssumption ==
    /\ IsFiniteSet(Wallets) /\ NoOne \notin Wallets
    /\ PRECISION \in Nat \ {0}
    /\ Amounts \subseteq Nat \ {0} /\ Deposits \subseteq Nat \ {0}
    /\ MaxRewardAssets \in Nat /\ MaxSupply \in Nat /\ MaxAcc \in Nat
    /\ MaxPending \in Nat

VARIABLES
    held,           \* balanceOf, per wallet
    supply,         \* totalSupply
    plugged,        \* the module is in the tokenId's pluginModules
    isRewardAsset,  \* the reward assets that are listed
    acc,            \* accRewardPerShare, per reward asset
    account,        \* rewardDebt and pendingRewards, per reward asset and wallet
    till,           \* what the module holds, per reward asset
    missed          \* history: the reward assets for which a move was missed

vars == <<held, supply, plugged, isRewardAsset, acc, account, till, missed>>

Account == [debt : Nat, pending : Nat]

Init ==
    /\ held = [w \in Wallets |-> 0]
    /\ supply = 0
    /\ plugged = FALSE
    /\ isRewardAsset = {}
    /\ acc = [r \in Rewards |-> 0]
    /\ account = [r \in Rewards |-> [w \in Wallets |-> [debt |-> 0, pending |-> 0]]]
    /\ till = [r \in Rewards |-> 0]
    /\ missed = {}

\* What a balance has earned since the first deposit.
Share(r, balance) == (balance * acc[r]) \div PRECISION

-----------------------------------------------------------------------------
(* onAction: checkpoints, made after the balances changed *)

\* The checked subtraction of a checkpoint does not revert.
Covered(a, r, before) == before > 0 => a.debt <= Share(r, before)

\* Mutant: the debt is that of the balance before.
CrystallizedBefore(a, r, before, after) ==
    [debt |-> Share(r, before),
     pending |-> IF before > 0 THEN a.pending + Share(r, before) - a.debt ELSE a.pending]

Crystallized(a, r, before, after) ==
    [debt |-> Share(r, after),
     pending |-> IF before > 0 THEN a.pending + Share(r, before) - a.debt ELSE a.pending]

\* The balances before are worked out from those after; minting has no sender
\* and burning no receiver.
BalanceBefore(to, n) == IF held'[to] >= n THEN held'[to] - n ELSE 0

SenderSettled(r, from, n) ==
    IF from = NoOne THEN account[r]
    ELSE [account[r] EXCEPT ![from] = Crystallized(@, r, held'[from] + n, held'[from])]

\* Mutant: the receiver's balance before is taken to be the one after.
BothSettledLate(r, from, to, n) ==
    IF to = NoOne THEN SenderSettled(r, from, n)
    ELSE [SenderSettled(r, from, n) EXCEPT ![to] = Crystallized(@, r, held'[to], held'[to])]

BothSettled(r, from, to, n) ==
    IF to = NoOne THEN SenderSettled(r, from, n)
    ELSE [SenderSettled(r, from, n) EXCEPT
            ![to] = Crystallized(@, r, BalanceBefore(to, n), held'[to])]

Accepts(r, from, to, n) ==
    /\ from # NoOne => Covered(account[r][from], r, held'[from] + n)
    /\ to # NoOne => Covered(SenderSettled(r, from, n)[to], r, BalanceBefore(to, n))

\* The reward assets the hook is called for.
Hooked == IF plugged THEN isRewardAsset ELSE {}

\* Mutant: the subtraction of a checkpoint is unchecked.
PluginActionUnchecked(from, to, n) ==
    account' = [r \in Rewards |->
                   IF r \in Hooked THEN BothSettled(r, from, to, n) ELSE account[r]]

\* The hook of a call that moved n units; a checkpoint that reverts, reverts it.
PluginAction(from, to, n) ==
    /\ \A r \in Hooked : Accepts(r, from, to, n)
    /\ account' = [r \in Rewards |->
                      IF r \in Hooked THEN BothSettled(r, from, to, n) ELSE account[r]]
    /\ \A r \in Rewards, w \in Wallets : account'[r][w].pending <= MaxPending

\* What was deposited before is missed by a move the module does not hear of.
Started == {r \in Rewards : acc[r] > 0}

-----------------------------------------------------------------------------
(* The diamond's calls that move units *)

Transfer(from, to, n) ==
    /\ n <= held[from]
    /\ held' = [[held EXCEPT ![from] = @ - n] EXCEPT ![to] = @ + n]
    /\ PluginAction(from, to, n)
    /\ missed' = missed \cup (IF from = to THEN Started ELSE Started \ Hooked)
    /\ UNCHANGED <<supply, plugged, isRewardAsset, acc, till>>

Mint(to, n) ==
    /\ supply + n <= MaxSupply
    /\ held' = [held EXCEPT ![to] = @ + n]
    /\ supply' = supply + n
    /\ PluginAction(NoOne, to, n)
    /\ missed' = missed \cup (Started \ Hooked)
    /\ UNCHANGED <<plugged, isRewardAsset, acc, till>>

Burn(from, n) ==
    /\ n <= held[from]
    /\ held' = [held EXCEPT ![from] = @ - n]
    /\ supply' = supply - n
    /\ PluginAction(from, NoOne, n)
    /\ missed' = missed \cup (Started \ Hooked)
    /\ UNCHANGED <<plugged, isRewardAsset, acc, till>>

\* recoverWallet calls no plugin.
RecoverWallet(lost, new) ==
    /\ lost # new
    /\ held[lost] > 0
    /\ held' = [held EXCEPT ![new] = @ + held[lost], ![lost] = 0]
    /\ missed' = missed \cup Started
    /\ UNCHANGED <<supply, plugged, isRewardAsset, acc, account, till>>

\* addPluginModule, removePluginModule and setPluginModules.
SetPlugged(in) ==
    /\ plugged' = in
    /\ UNCHANGED <<held, supply, isRewardAsset, acc, account, till, missed>>

-----------------------------------------------------------------------------
(* The module's own calls *)

AddRewardAsset(r) ==
    /\ r \notin isRewardAsset
    /\ Cardinality(isRewardAsset) < MaxRewardAssets
    /\ isRewardAsset' = isRewardAsset \cup {r}
    /\ UNCHANGED <<held, supply, plugged, acc, account, till, missed>>

\* The accumulator and the accounts stay as they are.
RemoveRewardAsset(r) ==
    /\ r \in isRewardAsset
    /\ isRewardAsset' = isRewardAsset \ {r}
    /\ UNCHANGED <<held, supply, plugged, acc, account, till, missed>>

DepositYield(r, n) ==
    /\ r \in isRewardAsset
    /\ supply > 0
    /\ till' = [till EXCEPT ![r] = @ + n]
    /\ acc' = [acc EXCEPT ![r] = @ + (n * PRECISION) \div supply]
    /\ acc'[r] <= MaxAcc
    /\ UNCHANGED <<held, supply, plugged, isRewardAsset, account, missed>>

Claimable(r, w) ==
    LET a == account[r][w]
        earned == Share(r, held[w])
    IN (IF earned >= a.debt THEN earned - a.debt ELSE 0) + a.pending

Claimed(r, w) == [account[r] EXCEPT ![w] = [debt |-> Share(r, held[w]), pending |-> 0]]

\* Mutant: what was pending stays pending.
ClaimYieldKeepsPending(w, r) ==
    /\ Claimable(r, w) > 0
    /\ Claimable(r, w) <= till[r]
    /\ account' = [account EXCEPT ![r][w].debt = Share(r, held[w])]
    /\ till' = [till EXCEPT ![r] = @ - Claimable(r, w)]
    /\ UNCHANGED <<held, supply, plugged, isRewardAsset, acc, missed>>

\* Whether the reward asset is still listed is not asked; the reward token
\* reverts when the module has less than it is to pay.
ClaimYield(w, r) ==
    /\ Claimable(r, w) > 0
    /\ Claimable(r, w) <= till[r]
    /\ account' = [account EXCEPT ![r] = Claimed(r, w)]
    /\ till' = [till EXCEPT ![r] = @ - Claimable(r, w)]
    /\ UNCHANGED <<held, supply, plugged, isRewardAsset, acc, missed>>

ClaimAllYield(w) ==
    LET paying == {r \in isRewardAsset : Claimable(r, w) > 0}
    IN /\ \A r \in paying : Claimable(r, w) <= till[r]
       /\ account' = [r \in Rewards |-> IF r \in paying THEN Claimed(r, w) ELSE account[r]]
       /\ till' = [r \in Rewards |-> IF r \in paying THEN till[r] - Claimable(r, w) ELSE till[r]]
       /\ UNCHANGED <<held, supply, plugged, isRewardAsset, acc, missed>>

-----------------------------------------------------------------------------
Next ==
    \/ \E from, to \in Wallets, n \in Amounts : Transfer(from, to, n)
    \/ \E w \in Wallets, n \in Amounts : Mint(w, n) \/ Burn(w, n)
    \/ \E lost, new \in Wallets : RecoverWallet(lost, new)
    \/ \E in \in BOOLEAN : SetPlugged(in)
    \/ \E r \in Rewards : AddRewardAsset(r) \/ RemoveRewardAsset(r)
    \/ \E r \in Rewards, n \in Deposits : DepositYield(r, n)
    \/ \E w \in Wallets, r \in Rewards : ClaimYield(w, r)
    \/ \E w \in Wallets : ClaimAllYield(w)

Spec == Init /\ [][Next]_vars

-----------------------------------------------------------------------------
(* What the module owes, as long as it heard of every move that matters: a   *)
(* recovery, a move while it is unplugged or the reward asset is not listed, *)
(* and a transfer to oneself are moves it misses once there was a deposit.   *)

TypeOK ==
    /\ held \in [Wallets -> Nat]
    /\ supply \in 0..MaxSupply
    /\ plugged \in BOOLEAN
    /\ isRewardAsset \subseteq Rewards
    /\ acc \in [Rewards -> 0..MaxAcc]
    /\ account \in [Rewards -> [Wallets -> Account]]
    /\ till \in [Rewards -> Nat]
    /\ missed \subseteq Rewards

\* No holder's debt exceeds what its balance has earned, so no checkpoint
\* reverts, and with it no transfer, mint or burn of the token.
DebtsAreCovered ==
    \A r \in Rewards \ missed, w \in Wallets : account[r][w].debt <= Share(r, held[w])

\* "ClaimNeverExceedsDeposit": the claims of all holders together never exceed
\* what was deposited and is not yet paid, however units changed hands.
ClaimsAreFunded ==
    \A r \in Rewards \ missed :
        SumFunction([w \in Wallets |-> Claimable(r, w)]) <= till[r]

Promise(r) == INSTANCE YieldLedger WITH
    due  <- [w \in Wallets |-> Claimable(r, w)],
    till <- till[r]

\* Where deposits divide evenly, the accumulator implements the ledger that
\* splits each deposit among its holders when it is made: no sequence of moves,
\* mints and burns shifts a unit of reward from one wallet to another.
ImplementsYieldLedger ==
    /\ \A r \in Rewards : Promise(r)!Init
    /\ [][\A r \in Rewards \ missed' : Promise(r)!Next]_vars
=============================================================================
