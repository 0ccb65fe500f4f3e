----------------------------- MODULE MCDividends -----------------------------
(* Instances of Dividends for TLC: wallets are interchangeable.             *)
EXTENDS Dividends, TLC

CONSTANTS w1, w2, w3, ether, usd

Symmetry == Permutations(Wallets)
=============================================================================
