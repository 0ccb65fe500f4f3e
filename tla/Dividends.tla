------------------------------ MODULE Dividends ------------------------------
(***************************************************************************)
(* SnapshotFacet and DividendFacet for one tokenId.  A snapshot fixes the  *)
(* supply when it is created and each balance when its holder is recorded; *)
(* units may move between the two.  All dividends in one payment token are *)
(* paid from what the diamond holds of it.                                 *)
(*                                                                         *)
(* One action is one call that does not revert; issuer and owner are       *)
(* allowed the same calls and are left out.                                *)
(***************************************************************************)
EXTENDS Integers, FiniteSets, Functions, SequencesExt

CONSTANTS
    Wallets,
    Ether,          \* address(0) as a payment token
    Tokens,         \* the payment tokens, Ether may be one of them
    Amounts,        \* units that are moved at a time
    Payouts,        \* amounts of dividends, and of ether sent along
    MaxSupply,      \* bound: the units in circulation
    MaxSnapshots,   \* bound: the snapshots
    MaxDividends    \* bound: the dividends

ASSUME DividendAssumption ==
    /\ IsFiniteSet(Wallets)
    /\ Amounts \subseteq Nat \ {0} /\ Payouts \subseteq Nat \ {0}
    /\ MaxSupply \in Nat /\ MaxSnapshots \in Nat /\ MaxDividends \in Nat

VARIABLES
    held,       \* balanceOf, per wallet
    supply,     \* totalSupply
    snapshots,  \* by snapshotId, less one
    dividends,  \* by dividendId, less one
    vault       \* what the diamond holds of each payment token

vars == <<held, supply, snapshots, dividends, vault>>

Balances == [Wallets -> Nat]
Nothing == [w \in Wallets |-> 0]

\* asOf is history: the balances when the snapshot was created.
Snapshot ==
    [supply : Nat, recorded : SUBSET Wallets, balances : Balances, asOf : Balances]
Dividend ==
    [snapshot : 1..MaxSnapshots, amount : Nat, token : Tokens,
     claimed : SUBSET Wallets, claimedAmount : Nat]

Init ==
    /\ held = Nothing
    /\ supply = 0
    /\ snapshots = <<>>
    /\ dividends = <<>>
    /\ vault = [t \in Tokens |-> 0]

-----------------------------------------------------------------------------
(* Units move *)

\* Transfers, forced transfers and recoveries.
Transfer(from, to, n) ==
    /\ n <= held[from]
    /\ held' = [[held EXCEPT ![from] = @ - n] EXCEPT ![to] = @ + n]
    /\ UNCHANGED <<supply, snapshots, dividends, vault>>

Mint(to, n) ==
    /\ supply + n <= MaxSupply
    /\ held' = [held EXCEPT ![to] = @ + n]
    /\ supply' = supply + n
    /\ UNCHANGED <<snapshots, dividends, vault>>

\* Mutant: the balance is not looked at.
BurnUnchecked(from, n) ==
    /\ held' = [held EXCEPT ![from] = @ - n]
    /\ supply' = supply - n
    /\ UNCHANGED <<snapshots, dividends, vault>>

Burn(from, n) ==
    /\ n <= held[from]
    /\ held' = [held EXCEPT ![from] = @ - n]
    /\ supply' = supply - n
    /\ UNCHANGED <<snapshots, dividends, vault>>

-----------------------------------------------------------------------------
(* SnapshotFacet *)

CreateSnapshot ==
    /\ Len(snapshots) < MaxSnapshots
    /\ snapshots' = Append(snapshots,
           [supply |-> supply, recorded |-> {}, balances |-> Nothing, asOf |-> held])
    /\ UNCHANGED <<held, supply, dividends, vault>>

\* One holder, or several at once; the same one twice reverts the batch.
RecordHoldersBatch(s, holders) ==
    /\ holders \cap snapshots[s].recorded = {}
    /\ snapshots' = [snapshots EXCEPT
           ![s].recorded = @ \cup holders,
           ![s].balances = [w \in Wallets |-> IF w \in holders THEN held[w] ELSE @[w]]]
    /\ UNCHANGED <<held, supply, dividends, vault>>

-----------------------------------------------------------------------------
(* DividendFacet *)

\* Mutant: what is sent along is not compared with the amount.
CreateDividendShort(s, n, t, sent) ==
    /\ Len(dividends) < MaxDividends
    /\ dividends' = Append(dividends,
           [snapshot |-> s, amount |-> n, token |-> t, claimed |-> {}, claimedAmount |-> 0])
    /\ vault' = [vault EXCEPT ![t] = @ + sent]
    /\ UNCHANGED <<held, supply, snapshots>>

\* Ether sent beyond the amount stays in the diamond; tokens are pulled exactly.
CreateDividend(s, n, t, sent) ==
    /\ Len(dividends) < MaxDividends
    /\ IF t = Ether THEN sent >= n ELSE sent = n
    /\ dividends' = Append(dividends,
           [snapshot |-> s, amount |-> n, token |-> t, claimed |-> {}, claimedAmount |-> 0])
    /\ vault' = [vault EXCEPT ![t] = @ + sent]
    /\ UNCHANGED <<held, supply, snapshots>>

SnapshotOf(d) == snapshots[dividends[d].snapshot]

Share(d, w) == (SnapshotOf(d).balances[w] * dividends[d].amount) \div SnapshotOf(d).supply

\* A share of a snapshot without supply cannot be worked out: division by zero.
Entitled(d, w) ==
    /\ w \in SnapshotOf(d).recorded
    /\ SnapshotOf(d).balances[w] > 0
    /\ SnapshotOf(d).supply > 0
    /\ Share(d, w) > 0

\* Mutant: the claim is not written down.
ClaimDividendAgain(w, d) ==
    /\ w \notin dividends[d].claimed
    /\ Entitled(d, w)
    /\ dividends' = [dividends EXCEPT ![d].claimedAmount = @ + Share(d, w)]
    /\ Share(d, w) <= vault[dividends[d].token]
    /\ vault' = [vault EXCEPT ![dividends[d].token] = @ - Share(d, w)]
    /\ UNCHANGED <<held, supply, snapshots>>

\* The payment fails when the diamond holds less, whichever dividend it was for.
ClaimDividend(w, d) ==
    /\ w \notin dividends[d].claimed
    /\ Entitled(d, w)
    /\ dividends' = [dividends EXCEPT
           ![d].claimed = @ \cup {w}, ![d].claimedAmount = @ + Share(d, w)]
    /\ Share(d, w) <= vault[dividends[d].token]
    /\ vault' = [vault EXCEPT ![dividends[d].token] = @ - Share(d, w)]
    /\ UNCHANGED <<held, supply, snapshots>>

-----------------------------------------------------------------------------
Next ==
    \/ \E from, to \in Wallets, n \in Amounts : Transfer(from, to, n)
    \/ \E w \in Wallets, n \in Amounts : Mint(w, n) \/ Burn(w, n)
    \/ CreateSnapshot
    \/ \E s \in DOMAIN snapshots :
          \/ \E holders \in (SUBSET Wallets) \ {{}} : RecordHoldersBatch(s, holders)
          \/ \E n, sent \in Payouts, t \in Tokens : CreateDividend(s, n, t, sent)
    \/ \E w \in Wallets, d \in DOMAIN dividends : ClaimDividend(w, d)

Spec == Init /\ [][Next]_vars

-----------------------------------------------------------------------------
TypeOK ==
    /\ held \in Balances /\ supply \in 0..MaxSupply
    /\ snapshots \in Seq(Snapshot) /\ Len(snapshots) <= MaxSnapshots
    /\ dividends \in Seq(Dividend) /\ Len(dividends) <= MaxDividends
    /\ vault \in [Tokens -> Nat]

\* The holders that were recorded, were recorded with what they held when the
\* snapshot was created.
Timely(s) ==
    \A w \in snapshots[s].recorded : snapshots[s].balances[w] = snapshots[s].asOf[w]

InTime(d) == d \in DOMAIN dividends => Timely(dividends[d].snapshot)

\* What is still to be claimed of a dividend by those who are recorded.
Outstanding(d) ==
    SumFunction([w \in Wallets |->
        IF w \notin dividends[d].claimed /\ Entitled(d, w) THEN Share(d, w) ELSE 0])

\* As long as no snapshot was recorded late, what the diamond holds of a payment
\* token covers all that is to be claimed of all its dividends: no claim fails
\* for want of funds, and none is paid with those of another dividend.
ClaimsAreCovered ==
    (\A s \in DOMAIN snapshots : Timely(s)) =>
        \A t \in Tokens :
            SumFunction([d \in {e \in DOMAIN dividends : dividends[e].token = t} |-> Outstanding(d)])
              <= vault[t]

Promise(d) == INSTANCE DividendRegister WITH
    amount  <- IF d \in DOMAIN dividends THEN dividends[d].amount ELSE 0,
    holding <- IF d \in DOMAIN dividends THEN SnapshotOf(d).asOf ELSE Nothing,
    settled <- IF d \in DOMAIN dividends THEN dividends[d].claimed ELSE {},
    paid    <- IF d \in DOMAIN dividends THEN dividends[d].claimedAmount ELSE 0

\* Each dividend whose snapshot was recorded in time is a dividend register: what
\* moves, is minted, burned or recorded after the snapshot changes nothing of
\* what anybody is paid.
ImplementsDividendRegister ==
    /\ \A d \in 1..MaxDividends : Promise(d)!Init
    /\ [][\A d \in 1..MaxDividends :
            InTime(d)' => Promise(d)!Next]_vars
=============================================================================
