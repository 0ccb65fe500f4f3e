-------------------------- MODULE MCRegulatedToken --------------------------
(* An instance of RegulatedToken for TLC: the specification below is Spec   *)
(* without the calls that change identities and module settings, so that    *)
(* the others can be explored in depth; MCTokenRules has those.             *)
EXTENDS RegulatedToken, TLC

CONSTANTS w1, w2, w3, own

Symmetry == Permutations(Wallets)

\* What moves units.
LedgerNext == AssetManagerNext \/ SupplyNext \/ TransferNext \/ RecoveryNext

\* Pauses, freezes, lockups and the clock against every way units move.
RestraintNext ==
    LedgerNext \/ ApprovalNext \/ FreezeNext \/ PauseNext \/ Tick
RestraintSpec == Init /\ [][RestraintNext]_vars
=============================================================================
