---------------------------- MODULE MCDiamondCore ----------------------------
(* Instances of DiamondCore for TLC: plugins are interchangeable.           *)
EXTENDS DiamondCore, TLC

CONSTANTS cut, mint, burn, pause, cutFacet, supplyFacet, tokenFacet, self, nobody, market, amm, vote

Symmetry == Permutations(Plugins)
=============================================================================
