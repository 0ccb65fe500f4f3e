----------------------------- MODULE MCIndexer -----------------------------
(* Instances of Indexer for TLC: two wallets, which are interchangeable.    *)
EXTENDS Indexer, TLC

CONSTANTS w1, w2, nobody, i1, i2

Symmetry == Permutations(Wallets)
=============================================================================
