---------------------------- MODULE MCTokenLedger ----------------------------
(* An instance of AssetGroups for TLC.  In a behaviour either assets are    *)
(* registered one by one and everything happens to them, or groups mint     *)
(* units and what happens to those is a little less (its focus).            *)
EXTENDS AssetGroups, TLC

CONSTANTS w1, w2, w3, own

VARIABLE focus

Symmetry == Permutations(Wallets)

\* Two assets, three wallets.
AssetsNext ==
    /\ TokenCall(AssetManagerNext \/ SupplyNext \/ TransferNext \/ RecoveryNext)
    /\ registered' <= 2

\* A parent and two units, in up to two groups, or two parents and a unit; two
\* wallets; what is minted in a batch has a cap of 1.
FewUnits == {u \in Units : u.cap = 1 /\ u.amount <= 1}
UnitsNext ==
    /\ \/ \E parent \in AssetIds, maxUnits \in UnitLimits : CreateGroup(own, parent, maxUnits)
       \/ \E u \in Units : MintUnit(own, u)
       \/ \E u, v \in FewUnits : MintUnitBatch(own, u, v)
       \/ TokenCall(RegisterAsset(own, 0, {}))
       \/ TokenCall(\E id \in AssetIds, w \in Wallets : Burn(own, id, w, 1) \/ Mint(own, id, w, 1))
       \/ TokenCall(RecoveryNext)
    /\ Cardinality(UNION {ledger'[id].holders : id \in AssetIds}) <= 2

FocusedInit ==
    /\ Init
    /\ GroupsInit
    /\ focus \in {"assets", "units"}
FocusedNext ==
    /\ \/ focus = "assets" /\ AssetsNext
       \/ focus = "units" /\ UnitsNext
    /\ UNCHANGED focus
FocusedSpec == FocusedInit /\ [][FocusedNext]_<<vars, groupVars, focus>>
=============================================================================
