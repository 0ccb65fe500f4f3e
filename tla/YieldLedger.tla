----------------------------- MODULE YieldLedger -----------------------------
(***************************************************************************)
(* What the yield distributor promises for one reward asset: a deposit     *)
(* becomes due, there and then, to those who hold units, in proportion to  *)
(* what they hold; units that change hands later change nothing of what is *)
(* due; and a holder is paid exactly what is due to it, from what was      *)
(* deposited.                                                              *)
(***************************************************************************)
EXTENDS Integers, Functions

CONSTANT Wallets

VARIABLES
    held,   \* units of the staked asset each wallet holds
    due,    \* what each wallet may claim
    till    \* what is there to pay it from

Init ==
    /\ due = [w \in Wallets |-> 0]
    /\ till = 0

\* Each holder's share of the deposit, exactly.
Deposit ==
    LET n == till' - till
    IN /\ n > 0
       /\ \A w \in Wallets : SumFunction(held) * (due'[w] - due[w]) = n * held[w]
       /\ UNCHANGED held

Pay ==
    \E w \in Wallets :
        /\ due[w] > 0
        /\ due' = [due EXCEPT ![w] = 0]
        /\ till' = till - due[w]
        /\ UNCHANGED held

Move == UNCHANGED <<due, till>>

Next == Deposit \/ Pay \/ Move
=============================================================================
