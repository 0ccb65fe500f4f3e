---------------------------- MODULE ShareRegister ----------------------------
(***************************************************************************)
(* What the regulated token promises, whatever facets it is built from: a  *)
(* register of who holds how much of each asset, and of the restraints on  *)
(* those holdings.  Units appear only by issue and disappear only by       *)
(* redemption; a holder gives away only what no restraint holds back; an   *)
(* authority may seize; and when a wallet succeeds another, the holdings   *)
(* and the restraints on them arrive together.                             *)
(***************************************************************************)
EXTENDS Integers

CONSTANTS Assets, Wallets

VARIABLES
    held,       \* units of each asset each wallet holds
    issued,     \* units of each asset in existence
    lien,       \* units of each asset a wallet may not part with
    barred,     \* per asset, the wallets that may not give any away
    closed,     \* per asset, the wallets that may not receive any
    suspended   \* the assets in which nothing moves

restraints == <<lien, barred, closed, suspended>>
vars == <<held, issued, restraints>>

None == [a \in Assets |-> [w \in Wallets |-> 0]]

Init ==
    /\ held = None
    /\ issued = [a \in Assets |-> 0]
    /\ lien = None
    /\ barred = [a \in Assets |-> {}]
    /\ closed = [a \in Assets |-> {}]
    /\ suspended = {}

Add(h, a, w, n) == [h EXCEPT ![a][w] = @ + n]
Shift(h, a, from, to, n) == Add(Add(h, a, from, -n), a, to, n)

\* From may part with n of what h says it holds, and to may receive it.
MayGive(h, a, from, to, n) ==
    /\ a \notin suspended
    /\ from \notin barred[a]
    /\ to \notin closed[a]
    /\ n = 0 \/ h[a][from] - n >= lien[a][from]

MayIssue(a, w) == a \notin suspended /\ w \notin closed[a]

-----------------------------------------------------------------------------
\* Up to two issues at a time: the second may be of nothing.
Issue(a, w, n, b, v, m) ==
    /\ MayIssue(a, w)
    /\ MayIssue(b, v)
    /\ held' = Add(Add(held, a, w, n), b, v, m)
    /\ issued' = [[issued EXCEPT ![a] = @ + n] EXCEPT ![b] = @ + m]
    /\ UNCHANGED restraints

Redeem(a, w, n) ==
    /\ a \notin suspended
    /\ n = 0 \/ held[a][w] - n >= lien[a][w]
    /\ held' = Add(held, a, w, -n)
    /\ issued' = [issued EXCEPT ![a] = @ - n]
    /\ UNCHANGED restraints

\* Up to two gifts between the same wallets at a time.
Give(a, b, from, to, n, m) ==
    LET given == Shift(held, a, from, to, n)
    IN /\ MayGive(held, a, from, to, n)
       /\ MayGive(given, b, from, to, m)
       /\ held' = Shift(given, b, from, to, m)
       /\ UNCHANGED <<issued, restraints>>

Seize(a, from, to, n) ==
    /\ a \notin suspended
    /\ held[a][from] >= n
    /\ held' = Shift(held, a, from, to, n)
    /\ UNCHANGED <<issued, restraints>>

\* New takes over all that lost holds, and the restraints that were on it.
Succeed(lost, new) ==
    /\ lost # new
    /\ held' = [a \in Assets |-> [held[a] EXCEPT ![new] = @ + held[a][lost], ![lost] = 0]]
    /\ \A a \in Assets : held[a][lost] > 0 =>
          /\ lien'[a][new] >= lien[a][lost]
          /\ lost \in barred[a] => new \in barred'[a]
          /\ lost \in closed[a] => new \in closed'[a]
    /\ UNCHANGED <<issued, suspended>>

\* Restraints come and go by decision and by the passing of time.
Regulate == UNCHANGED <<held, issued>>

Issuance ==
    \E a, b \in Assets, w, v \in Wallets :
        \E n \in 0..issued'[a], m \in 0..issued'[b] : Issue(a, w, n, b, v, m)

Gift ==
    \E a, b \in Assets, w, v \in Wallets :
        \E n \in 0..issued[a], m \in 0..issued[b] : Give(a, b, w, v, n, m)

Next ==
    \/ Issuance
    \/ Gift
    \/ \E a \in Assets, w, v \in Wallets : \E n \in 0..issued[a] : Redeem(a, w, n) \/ Seize(a, w, v, n)
    \/ \E w, v \in Wallets : Succeed(w, v)
    \/ Regulate

Spec == Init /\ [][Next]_vars
=============================================================================
