------------------------- MODULE MCYieldDistributor -------------------------
(* Instances of YieldDistributor for TLC: wallets are interchangeable, and  *)
(* so are reward assets.                                                    *)
EXTENDS YieldDistributor, TLC

CONSTANTS w1, w2, w3, nobody, usd, grain

Symmetry == Permutations(Wallets) \cup Permutations(Rewards)
=============================================================================
