--------------------------- MODULE DividendRegister ---------------------------
(***************************************************************************)
(* What a dividend promises: the entitlement of every wallet is fixed by   *)
(* what it held when the snapshot was taken, whatever moves afterwards; it *)
(* is paid in full and once, or not at all; and the entitlements together  *)
(* never exceed what was put aside.                                        *)
(***************************************************************************)
EXTENDS Integers, FiniteSets, Functions

CONSTANT Wallets

VARIABLES
    amount,     \* what was put aside, 0 before the dividend is declared
    holding,    \* what each wallet held at the snapshot
    settled,    \* the wallets that were paid
    paid        \* what they were paid together

Init ==
    /\ amount = 0
    /\ settled = {}
    /\ paid = 0

\* A wallet's part of n, rounded down.
Part(n, w) == (n * holding[w]) \div SumFunction(holding)

Declare ==
    /\ amount = 0 /\ amount' > 0
    /\ settled' = {} /\ paid' = 0

Settle ==
    \E w \in Wallets \ settled :
        /\ holding[w] > 0 /\ Part(amount, w) > 0
        /\ settled' = settled \cup {w}
        /\ paid' = paid + Part(amount, w)
        /\ paid' <= amount
        /\ UNCHANGED <<amount, holding>>

Next == Declare \/ Settle \/ UNCHANGED <<amount, holding, settled, paid>>
=============================================================================
