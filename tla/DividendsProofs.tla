--------------------------- MODULE DividendsProofs ---------------------------
(***************************************************************************)
(* Theorems about Dividends, for any wallets, payment tokens, amounts and  *)
(* bounds that satisfy DividendAssumption.                                 *)
(***************************************************************************)
EXTENDS Dividends, FiniteSums

-----------------------------------------------------------------------------
(* The inductive invariant *)

\* totalSupply is the sum of the balances, now and as of every snapshot.
SupplyIsHeld == SumFunction(held) = supply

SnapshotsAdd ==
    \A s \in DOMAIN snapshots : SumFunction(snapshots[s].asOf) = snapshots[s].supply

DividendsPlaced ==
    \A d \in DOMAIN dividends :
        dividends[d].snapshot \in DOMAIN snapshots /\ dividends[d].amount > 0

\* What w is to be paid of dividend d by the balances when the snapshot was
\* created, claimed or not.
Part(d, w) ==
    IF SnapshotOf(d).supply = 0 THEN 0
    ELSE (SnapshotOf(d).asOf[w] * dividends[d].amount) \div SnapshotOf(d).supply

Parts(d) == [w \in Wallets |-> IF w \in dividends[d].claimed THEN 0 ELSE Part(d, w)]

Left(d) == SumFunction(Parts(d))

\* What was claimed and what the others may claim was put aside.
PartsSetAside ==
    \A d \in DOMAIN dividends :
        Timely(dividends[d].snapshot) => dividends[d].claimedAmount + Left(d) <= dividends[d].amount

\* Of each dividend in token t, what was put aside and is not paid.
Unpaid(t) ==
    [d \in 1..MaxDividends |->
        IF d \in DOMAIN dividends /\ dividends[d].token = t
        THEN dividends[d].amount - dividends[d].claimedAmount ELSE 0]

\* Of a dividend on a snapshot that was recorded late more may be claimed than was
\* put aside: what is unpaid of it is then negative, and taken from the others.
VaultCovers == \A t \in Tokens : SumFunction(Unpaid(t)) <= vault[t]

IInv ==
    /\ TypeOK
    /\ SupplyIsHeld
    /\ SnapshotsAdd
    /\ DividendsPlaced
    /\ PartsSetAside
    /\ VaultCovers
-----------------------------------------------------------------------------
(* Parts of a whole *)

LEMMA Quotient ==
    ASSUME NEW a \in Nat, NEW s \in Nat \ {0}
    PROVE  a \div s \in Nat /\ (a \div s) * s <= a
  OBVIOUS

LEMMA CancelFactor ==
    ASSUME NEW s \in Nat \ {0}, NEW a \in Int, NEW b \in Int, a * s <= s * b
    PROVE  a <= b
  OBVIOUS

LEMMA ProductTyped ==
    ASSUME NEW a \in Nat, NEW b \in Nat
    PROVE  a * b \in Nat /\ a * b = b * a
  OBVIOUS

\* Parts rounded down are together no more than the whole.
LEMMA PartsFit ==
    ASSUME NEW S, IsFiniteSet(S), NEW h \in [S -> Nat], NEW n \in Nat, NEW total \in Nat \ {0},
           total = SumFunction(h)
    PROVE  SumFunction([x \in S |-> (h[x] * n) \div total]) <= n
<1> DEFINE part == [x \in S |-> (h[x] * n) \div total]
           zero == [x \in S |-> 0]
           scaled == [x \in S |-> part[x] * total]
           whole == [x \in S |-> h[x] * n]
<1>1. ASSUME NEW x \in S
      PROVE  part[x] \in Nat /\ part[x] * total \in Nat /\ h[x] * n \in Nat
             /\ part[x] * total <= h[x] * n
  <2>1. h[x] \in Nat /\ h[x] * n \in Nat
    BY ProductTyped
  <2> QED BY <2>1, Quotient, ProductTyped
<1>2. DOMAIN part = S /\ DOMAIN zero = S /\ DOMAIN h = S
  OBVIOUS
<1>3. \A x \in S : scaled[x] = part[x] * total /\ whole[x] = h[x] * n /\ zero[x] = 0
  OBVIOUS
<1> HIDE DEF part, zero, scaled, whole
<1>4. SumFunctionOnSet(zero, S) = 0
  BY <1>2, SumOfZeros DEF SumFunction, zero
<1>5. SumFunctionOnSet(scaled, S) = SumFunctionOnSet(part, S) * total
  <2>1. ASSUME NEW x \in S
        PROVE  zero[x] \in Int /\ part[x] \in Int /\ scaled[x] = zero[x] + part[x] * total
    <3>1. part[x] \in Nat /\ part[x] * total \in Nat
      BY <1>1
    <3> QED BY <1>3, <3>1
  <2>2. ASSUME NEW c \in Int, \A x \in S : zero[x] \in Int /\ part[x] \in Int /\ scaled[x] = zero[x] + part[x] * c
        PROVE  SumFunctionOnSet(scaled, S) = SumFunctionOnSet(zero, S) + SumFunctionOnSet(part, S) * c
    BY <2>2, SumLinear
  <2>3. total \in Int
    OBVIOUS
  <2>4. SumFunctionOnSet(scaled, S) = SumFunctionOnSet(zero, S) + SumFunctionOnSet(part, S) * total
    BY <2>1, <2>2, <2>3, Zenon
  <2>5. SumFunctionOnSet(part, S) \in Int
    <3>1. \A x \in S : part[x] \in Int
      BY <1>1
    <3> QED BY <3>1, SumType
  <2> QED BY <1>4, <2>4, <2>5
<1>6. SumFunctionOnSet(whole, S) = total * n
  <2>1. ASSUME NEW x \in S
        PROVE  zero[x] \in Int /\ h[x] \in Int /\ whole[x] = zero[x] + h[x] * n
    <3>1. h[x] \in Nat /\ h[x] * n \in Nat
      BY <1>1
    <3> QED BY <1>3, <3>1
  <2>2. SumFunctionOnSet(whole, S) = SumFunctionOnSet(zero, S) + SumFunctionOnSet(h, S) * n
    BY <2>1, SumLinear
  <2>3. SumFunctionOnSet(h, S) = total
    BY <1>2 DEF SumFunction
  <2> QED BY <1>4, <2>2, <2>3
<1>7. SumFunctionOnSet(scaled, S) <= SumFunctionOnSet(whole, S)
  <2>1. \A x \in S : scaled[x] \in Int /\ whole[x] \in Int /\ scaled[x] <= whole[x]
    BY <1>1, <1>3
  <2> QED BY <2>1, SumMonotone
<1>8. SumFunctionOnSet(part, S) \in Int
  <2>1. \A x \in S : part[x] \in Int
    BY <1>1
  <2> QED BY <2>1, SumType
<1>9. SumFunctionOnSet(part, S) <= n
  BY <1>5, <1>6, <1>7, <1>8, CancelFactor
<1> QED BY <1>2, <1>9 DEF SumFunction, part

\* Keys with the value zero add nothing.
LEMMA SumOverPart ==
    ASSUME NEW S, IsFiniteSet(S), NEW T \in SUBSET S, NEW f,
           \A x \in T : f[x] \in Int, \A x \in S \ T : f[x] = 0
    PROVE  SumFunctionOnSet(f, S) = SumFunctionOnSet(f, T)
<1> DEFINE Bad == {s \in SUBSET (S \ T) : SumFunctionOnSet(f, T \cup s) # SumFunctionOnSet(f, T)}
<1>1. Bad = {}
  <2> SUFFICES ASSUME Bad # {} PROVE FALSE
    OBVIOUS
  <2>1. PICK s \in Bad : \A t \in Bad : t \subseteq s => t = s
    <3>1. Bad \in SUBSET (SUBSET S)
      OBVIOUS
    <3> HIDE DEF Bad
    <3> QED BY <3>1, SmallestSet
  <2>2. s # {}
    BY <2>1
  <2>3. PICK x \in s : TRUE
    BY <2>2
  <2>4. /\ IsFiniteSet(T \cup s) /\ x \in T \cup s /\ f[x] = 0
        /\ (T \cup s) \ {x} = T \cup (s \ {x})
        /\ \A y \in T \cup s : f[y] \in Int
    <3>1. s \subseteq S \ T /\ T \cup s \subseteq S /\ x \in S \ T
      BY <2>1, <2>3
    <3>2. IsFiniteSet(T \cup s)
      BY <3>1, FS_Subset
    <3>3. \A y \in T \cup s : f[y] \in Int
      BY <3>1
    <3> QED BY <2>3, <3>1, <3>2, <3>3
  <2>5. SumFunctionOnSet(f, T \cup s) = f[x] + SumFunctionOnSet(f, T \cup (s \ {x}))
    BY <2>4, SumRemove
  <2>6. SumFunctionOnSet(f, T \cup (s \ {x})) = SumFunctionOnSet(f, T)
    <3>1. s \ {x} \in SUBSET (S \ T) /\ s \ {x} # s
      BY <2>1, <2>3
    <3>2. s \ {x} \notin Bad
      BY <2>1, <3>1
    <3> QED BY <3>1, <3>2
  <2>7. SumFunctionOnSet(f, T) \in Int
    BY FS_Subset, SumType
  <2>8. SumFunctionOnSet(f, T \cup s) # SumFunctionOnSet(f, T)
    BY <2>1
  <2> HIDE DEF Bad
  <2> QED BY <2>4, <2>5, <2>6, <2>7, <2>8
<1>2. T \cup (S \ T) = S
  OBVIOUS
<1>3. SumFunctionOnSet(f, T \cup (S \ T)) = SumFunctionOnSet(f, T)
  BY <1>1
<1> HIDE DEF Bad
<1> QED BY <1>2, <1>3

-----------------------------------------------------------------------------
(* Types *)

LEMMA InitIInv == Init => IInv
<1> SUFFICES ASSUME Init PROVE IInv
  OBVIOUS
<1> USE DividendAssumption DEF Init
<1>1. TypeOK
  BY DEF TypeOK, Balances, Nothing
<1>2. SupplyIsHeld
  BY SumOfZeros DEF SupplyIsHeld, Nothing
<1>3. SnapshotsAdd /\ DividendsPlaced /\ PartsSetAside
  BY DEF SnapshotsAdd, DividendsPlaced, PartsSetAside
<1>4. VaultCovers
  <2> SUFFICES ASSUME NEW t \in Tokens PROVE SumFunction(Unpaid(t)) <= 0
    BY DEF VaultCovers
  <2>1. Unpaid(t) = [d \in 1..MaxDividends |-> 0]
    BY DEF Unpaid
  <2>2. IsFiniteSet(1..MaxDividends)
    BY FS_Interval
  <2> QED BY <2>1, <2>2, SumOfZeros
<1> QED BY <1>1, <1>2, <1>3, <1>4 DEF IInv

LEMMA OneMoves ==
    ASSUME NEW f \in [Wallets -> Nat], NEW g \in [Wallets -> Nat], NEW k \in Wallets,
           \A x \in Wallets \ {k} : g[x] = f[x]
    PROVE  SumFunction(f) \in Int /\ SumFunction(g) = SumFunction(f) - f[k] + g[k]
<1>1. IsFiniteSet(Wallets) /\ f \in [Wallets -> Int] /\ g \in [Wallets -> Int]
  BY DividendAssumption
<1> QED BY <1>1, SumChange

LEMMA NaturalSum ==
    ASSUME NEW S, IsFiniteSet(S), NEW f, \A x \in S : f[x] \in Nat
    PROVE  SumFunctionOnSet(f, S) \in Nat
<1> DEFINE zero == [x \in S |-> 0]
<1>1. SumFunctionOnSet(zero, S) = 0
  BY SumOfZeros DEF SumFunction
<1>2. SumFunctionOnSet(zero, S) <= SumFunctionOnSet(f, S)
  <2>1. \A x \in S : zero[x] \in Int /\ f[x] \in Int /\ zero[x] <= f[x]
    OBVIOUS
  <2> HIDE DEF zero
  <2> QED BY <2>1, SumMonotone
<1> HIDE DEF zero
<1>3. SumFunctionOnSet(f, S) \in Int
  BY SumType
<1> QED BY <1>1, <1>2, <1>3

\* A balance is at most the supply.
LEMMA BalanceFits ==
    ASSUME TypeOK, SupplyIsHeld, NEW w \in Wallets
    PROVE  held[w] <= supply
<1>1. held \in [Wallets -> Nat] /\ IsFiniteSet(Wallets)
  BY DividendAssumption DEF TypeOK, Balances
<1>2. SumFunction(held) = held[w] + SumFunctionOnSet(held, Wallets \ {w})
  BY <1>1, SumRemove DEF SumFunction
<1>3. SumFunctionOnSet(held, Wallets \ {w}) \in Nat
  <2>1. IsFiniteSet(Wallets \ {w}) /\ \A x \in Wallets \ {w} : held[x] \in Nat
    BY <1>1, FS_Subset
  <2> QED BY <2>1, NaturalSum
<1> QED BY <1>1, <1>2, <1>3 DEF SupplyIsHeld

\* What the calls that move units make of balances and supply.
LEMMA UnitsMove ==
    ASSUME TypeOK, SupplyIsHeld,
           \/ \E from, to \in Wallets, n \in Amounts : Transfer(from, to, n)
           \/ \E w \in Wallets, n \in Amounts : Mint(w, n) \/ Burn(w, n)
    PROVE  held' \in Balances /\ supply' \in 0..MaxSupply /\ SupplyIsHeld'
<1> USE DividendAssumption
<1>1. held \in [Wallets -> Nat] /\ IsFiniteSet(Wallets) /\ supply \in 0..MaxSupply
  BY DEF TypeOK, Balances
<1>2. ASSUME NEW from \in Wallets, NEW to \in Wallets, NEW n \in Amounts, Transfer(from, to, n)
      PROVE  held' \in Balances /\ supply' \in 0..MaxSupply /\ SupplyIsHeld'
  <2> DEFINE mid == [held EXCEPT ![from] = held[from] - n]
  <2>1. n \in Nat /\ held[from] - n \in Nat
    BY <1>1, <1>2 DEF Transfer
  <2>2. /\ mid \in [Wallets -> Nat] /\ mid[from] = held[from] - n
        /\ \A x \in Wallets \ {from} : mid[x] = held[x]
    BY <1>1, <2>1
  <2>3. held' = [mid EXCEPT ![to] = mid[to] + n] /\ supply' = supply
    BY <1>2 DEF Transfer
  <2> HIDE DEF mid
  <2>4. mid[to] \in Nat /\ mid[to] + n \in Nat /\ held[from] \in Nat
    BY <1>1, <2>1, <2>2
  <2>5. /\ held' \in [Wallets -> Nat] /\ held'[to] = mid[to] + n
        /\ \A x \in Wallets \ {to} : held'[x] = mid[x]
    BY <2>2, <2>3, <2>4
  <2>6. /\ SumFunction(mid) = SumFunction(held) - held[from] + mid[from]
        /\ SumFunction(mid) \in Int
        /\ SumFunction(held') = SumFunction(mid) - mid[to] + held'[to]
    BY <1>1, <2>2, <2>5, OneMoves
  <2>7. SumFunction(held') = supply'
    BY <1>1, <2>1, <2>2, <2>3, <2>4, <2>5, <2>6 DEF SupplyIsHeld
  <2> QED BY <1>1, <2>3, <2>5, <2>7 DEF Balances, SupplyIsHeld
<1>3. ASSUME NEW w \in Wallets, NEW n \in Amounts, Mint(w, n)
      PROVE  held' \in Balances /\ supply' \in 0..MaxSupply /\ SupplyIsHeld'
  <2>1. /\ held' = [held EXCEPT ![w] = held[w] + n] /\ supply' = supply + n
        /\ n \in Nat /\ held[w] + n \in Nat /\ supply + n <= MaxSupply
    BY <1>1, <1>3 DEF Mint
  <2>2. /\ held' \in [Wallets -> Nat] /\ held'[w] = held[w] + n
        /\ \A x \in Wallets \ {w} : held'[x] = held[x]
    BY <1>1, <2>1
  <2>3. SumFunction(held') = SumFunction(held) - held[w] + held'[w]
    BY <1>1, <2>2, OneMoves
  <2>4. SumFunction(held') = supply'
    BY <1>1, <2>1, <2>2, <2>3 DEF SupplyIsHeld
  <2> QED BY <1>1, <2>1, <2>2, <2>4 DEF Balances, SupplyIsHeld
<1>4. ASSUME NEW w \in Wallets, NEW n \in Amounts, Burn(w, n)
      PROVE  held' \in Balances /\ supply' \in 0..MaxSupply /\ SupplyIsHeld'
  <2>1. /\ held' = [held EXCEPT ![w] = held[w] - n] /\ supply' = supply - n
        /\ n \in Nat /\ held[w] - n \in Nat /\ held[w] \in Nat /\ held[w] <= supply
    BY <1>1, <1>4, BalanceFits DEF Burn
  <2>2. /\ held' \in [Wallets -> Nat] /\ held'[w] = held[w] - n
        /\ \A x \in Wallets \ {w} : held'[x] = held[x]
    BY <1>1, <2>1
  <2>3. SumFunction(held') = SumFunction(held) - held[w] + held'[w]
    BY <1>1, <2>2, OneMoves
  <2>4. SumFunction(held') = supply'
    BY <1>1, <2>1, <2>2, <2>3 DEF SupplyIsHeld
  <2> QED BY <1>1, <2>1, <2>2, <2>4 DEF Balances, SupplyIsHeld
<1> QED BY <1>2, <1>3, <1>4

-----------------------------------------------------------------------------
(* Snapshots *)

LEMMA SnapshotFields ==
    ASSUME TypeOK, NEW s \in DOMAIN snapshots
    PROVE  /\ snapshots[s] \in Snapshot /\ snapshots[s].supply \in Nat
           /\ snapshots[s].recorded \subseteq Wallets
           /\ snapshots[s].balances \in [Wallets -> Nat]
           /\ snapshots[s].asOf \in [Wallets -> Nat]
<1>1. snapshots[s] \in Snapshot
  BY DEF TypeOK
<1> QED BY <1>1 DEF Snapshot, Balances

LEMMA DividendFields ==
    ASSUME TypeOK, NEW d \in DOMAIN dividends
    PROVE  /\ d \in 1..MaxDividends /\ dividends[d] \in Dividend
           /\ dividends[d].snapshot \in 1..MaxSnapshots
           /\ dividends[d].amount \in Nat
           /\ dividends[d].token \in Tokens
           /\ dividends[d].claimed \subseteq Wallets
           /\ dividends[d].claimedAmount \in Nat
<1>1. dividends[d] \in Dividend /\ d \in 1..MaxDividends
  BY DividendAssumption DEF TypeOK
<1> QED BY <1>1 DEF Dividend

\* What no call changes of a snapshot: what was supplied and held at its creation,
\* and what is recorded already.
Kept(s) ==
    /\ s \in DOMAIN snapshots'
    /\ snapshots'[s].supply = snapshots[s].supply /\ snapshots'[s].asOf = snapshots[s].asOf
    /\ snapshots[s].recorded \subseteq snapshots'[s].recorded
    /\ \A w \in snapshots[s].recorded : snapshots'[s].balances[w] = snapshots[s].balances[w]

LEMMA SnapshotsKept ==
    ASSUME TypeOK, SupplyIsHeld, SnapshotsAdd, [Next]_vars
    PROVE  /\ snapshots' \in Seq(Snapshot) /\ Len(snapshots') <= MaxSnapshots
           /\ SnapshotsAdd'
           /\ \A s \in DOMAIN snapshots : Kept(s)
<1>1. snapshots \in Seq(Snapshot) /\ Len(snapshots) <= MaxSnapshots /\ held \in [Wallets -> Nat]
      /\ supply \in Nat
  BY DEF TypeOK, Balances
<1>2. CASE UNCHANGED snapshots
  BY <1>1, <1>2 DEF Kept, SnapshotsAdd
<1>3. CASE CreateSnapshot
  <2> DEFINE new == [supply |-> supply, recorded |-> {}, balances |-> Nothing, asOf |-> held]
  <2>1. new \in Snapshot /\ new.asOf = held /\ new.supply = supply
    BY <1>1 DEF Snapshot, Balances, Nothing
  <2>2. snapshots' = Append(snapshots, new) /\ Len(snapshots) < MaxSnapshots
    BY <1>3 DEF CreateSnapshot
  <2> HIDE DEF new
  <2>3. /\ snapshots' \in Seq(Snapshot) /\ Len(snapshots') = Len(snapshots) + 1
        /\ snapshots'[Len(snapshots) + 1] = new
        /\ \A s \in DOMAIN snapshots : s \in DOMAIN snapshots' /\ snapshots'[s] = snapshots[s]
    BY <1>1, <2>1, <2>2
  <2>4. ASSUME NEW s \in DOMAIN snapshots'
        PROVE  SumFunction(snapshots'[s].asOf) = snapshots'[s].supply
    <3>1. CASE s = Len(snapshots) + 1
      BY <2>1, <2>3, <3>1 DEF SupplyIsHeld
    <3>2. CASE s # Len(snapshots) + 1
      <4>1. s \in DOMAIN snapshots
        BY <1>1, <2>3, <3>2
      <4> QED BY <2>3, <4>1 DEF SnapshotsAdd
    <3> QED BY <3>1, <3>2
  <2>5. \A s \in DOMAIN snapshots : Kept(s)
    BY <2>3 DEF Kept
  <2>6. Len(snapshots') <= MaxSnapshots
    BY <1>1, <2>2, <2>3, DividendAssumption
  <2> QED BY <2>3, <2>4, <2>5, <2>6 DEF SnapshotsAdd
<1>4. ASSUME NEW k \in DOMAIN snapshots, NEW holders \in SUBSET Wallets, RecordHoldersBatch(k, holders)
      PROVE  /\ snapshots' \in Seq(Snapshot) /\ Len(snapshots') <= MaxSnapshots
             /\ SnapshotsAdd'
             /\ \A s \in DOMAIN snapshots : Kept(s)
  <2> DEFINE new == [snapshots[k] EXCEPT
                        !.recorded = snapshots[k].recorded \cup holders,
                        !.balances = [w \in Wallets |-> IF w \in holders THEN held[w]
                                                        ELSE snapshots[k].balances[w]]]
  <2>1. snapshots' = [snapshots EXCEPT ![k] = new] /\ holders \cap snapshots[k].recorded = {}
    BY <1>4 DEF RecordHoldersBatch
  <2>2. /\ new \in Snapshot
        /\ new.supply = snapshots[k].supply /\ new.asOf = snapshots[k].asOf
        /\ snapshots[k].recorded \subseteq new.recorded
        /\ \A w \in snapshots[k].recorded : new.balances[w] = snapshots[k].balances[w]
    <3> DEFINE b == [w \in Wallets |-> IF w \in holders THEN held[w] ELSE snapshots[k].balances[w]]
    <3>1. b \in Balances
      BY <1>1, SnapshotFields DEF Balances
    <3>2. snapshots[k] \in Snapshot /\ snapshots[k].recorded \subseteq Wallets
      BY SnapshotFields
    <3>3. \A w \in snapshots[k].recorded : b[w] = snapshots[k].balances[w]
      BY <2>1, <3>2
    <3> HIDE DEF b
    <3>4. new = [snapshots[k] EXCEPT !.recorded = snapshots[k].recorded \cup holders, !.balances = b]
      BY DEF b
    <3> HIDE DEF new
    <3> QED BY <3>1, <3>2, <3>3, <3>4 DEF Snapshot
  <2> HIDE DEF new
  <2>3. /\ snapshots' \in Seq(Snapshot) /\ Len(snapshots') = Len(snapshots)
        /\ DOMAIN snapshots' = DOMAIN snapshots /\ snapshots'[k] = new
        /\ \A s \in DOMAIN snapshots \ {k} : snapshots'[s] = snapshots[s]
    BY <1>1, <2>1, <2>2
  <2>4. ASSUME NEW s \in DOMAIN snapshots
        PROVE  snapshots'[s].asOf = snapshots[s].asOf /\ snapshots'[s].supply = snapshots[s].supply
    BY <2>2, <2>3
  <2>5. ASSUME NEW s \in DOMAIN snapshots PROVE Kept(s)
    BY <2>2, <2>3, <2>4 DEF Kept
  <2>6. SnapshotsAdd'
    BY <2>3, <2>4 DEF SnapshotsAdd
  <2> QED BY <1>1, <2>3, <2>5, <2>6
<1>5. \/ UNCHANGED snapshots \/ CreateSnapshot
      \/ \E s \in DOMAIN snapshots, holders \in SUBSET Wallets : RecordHoldersBatch(s, holders)
  BY DEF Next, vars, Transfer, Mint, Burn, CreateDividend, ClaimDividend
<1> QED BY <1>2, <1>3, <1>4, <1>5

\* Nothing of dividend d changes but its claims.
SameTerms(d) ==
    /\ d \in DOMAIN dividends'
    /\ dividends'[d].snapshot = dividends[d].snapshot
    /\ dividends'[d].amount = dividends[d].amount
    /\ dividends'[d].token = dividends[d].token

\* A snapshot that was recorded late stays so.
LEMMA LateForGood ==
    ASSUME DividendsPlaced, NEW d \in DOMAIN dividends, SameTerms(d), Kept(dividends[d].snapshot),
           Timely(dividends[d].snapshot)'
    PROVE  Timely(dividends[d].snapshot)
  BY DEF Kept, Timely, SameTerms

-----------------------------------------------------------------------------
(* Parts *)

LEMMA PartTyped ==
    ASSUME TypeOK, DividendsPlaced, NEW d \in DOMAIN dividends, NEW w \in Wallets
    PROVE  Part(d, w) \in Nat
<1>1. /\ SnapshotOf(d).supply \in Nat /\ SnapshotOf(d).asOf[w] \in Nat /\ dividends[d].amount \in Nat
  BY SnapshotFields, DividendFields DEF DividendsPlaced, SnapshotOf
<1>2. SnapshotOf(d).asOf[w] * dividends[d].amount \in Nat
  BY <1>1, ProductTyped
<1> QED BY <1>1, <1>2, Quotient DEF Part

\* Who is recorded in time has a share by what it held when the snapshot was created.
LEMMA SharesAreParts ==
    ASSUME TypeOK, DividendsPlaced, NEW d \in DOMAIN dividends, Timely(dividends[d].snapshot),
           NEW w \in Wallets, Entitled(d, w)
    PROVE  Share(d, w) = Part(d, w) /\ SnapshotOf(d).asOf[w] > 0 /\ Part(d, w) > 0
<1>1. SnapshotOf(d).balances[w] = SnapshotOf(d).asOf[w] /\ SnapshotOf(d).supply # 0
  BY SnapshotFields DEF Timely, Entitled, SnapshotOf, DividendsPlaced
<1>2. Share(d, w) = Part(d, w)
  BY <1>1 DEF Share, Part
<1> QED BY <1>1, <1>2 DEF Entitled

\* The parts of a dividend are together no more than its amount.
LEMMA PartsFitAmount ==
    ASSUME TypeOK, SnapshotsAdd, DividendsPlaced, NEW d \in DOMAIN dividends
    PROVE  SumFunction([w \in Wallets |-> Part(d, w)]) <= dividends[d].amount
<1> DEFINE sn == SnapshotOf(d)
           n == dividends[d].amount
<1>1. sn.supply \in Nat /\ sn.asOf \in [Wallets -> Nat] /\ n \in Nat /\ IsFiniteSet(Wallets)
      /\ SumFunction(sn.asOf) = sn.supply
  BY SnapshotFields, DividendFields, DividendAssumption DEF DividendsPlaced, SnapshotOf, SnapshotsAdd
<1>2. CASE sn.supply = 0
  <2>1. [w \in Wallets |-> Part(d, w)] = [w \in Wallets |-> 0]
    BY <1>2 DEF Part
  <2> QED BY <1>1, <2>1, SumOfZeros
<1>3. CASE sn.supply # 0
  <2>1. [w \in Wallets |-> Part(d, w)] = [w \in Wallets |-> (sn.asOf[w] * n) \div sn.supply]
    BY <1>3 DEF Part
  <2>2. sn.supply \in Nat \ {0}
    BY <1>1, <1>3
  <2> HIDE DEF sn, n
  <2>3. SumFunction([w \in Wallets |-> (sn.asOf[w] * n) \div sn.supply]) <= n
    BY <1>1, <2>2, PartsFit
  <2> QED BY <2>1, <2>3 DEF n
<1> QED BY <1>2, <1>3

LEMMA PartsTyped ==
    ASSUME TypeOK, DividendsPlaced, NEW d \in DOMAIN dividends
    PROVE  Parts(d) \in [Wallets -> Nat] /\ Left(d) \in Nat
<1>1. Parts(d) \in [Wallets -> Nat]
  BY PartTyped DEF Parts
<1>2. DOMAIN Parts(d) = Wallets /\ IsFiniteSet(Wallets) /\ \A w \in Wallets : Parts(d)[w] \in Nat
  BY <1>1, DividendAssumption
<1> QED BY <1>1, <1>2, NaturalSum DEF Left, SumFunction

-----------------------------------------------------------------------------
(* What the calls make of the dividends *)

\* A dividend of n on snapshot s is put behind the others, and paid into the vault.
Created(s, n, t, sent) ==
    /\ DOMAIN dividends' = 1..(Len(dividends) + 1) /\ Len(dividends) + 1 \in 1..MaxDividends
    /\ \A e \in DOMAIN dividends : dividends'[e] = dividends[e]
    /\ LET new == dividends'[Len(dividends) + 1]
       IN  /\ new \in Dividend /\ new.snapshot = s /\ new.amount = n /\ new.token = t
           /\ new.claimed = {} /\ new.claimedAmount = 0
    /\ vault'[t] = vault[t] + sent /\ n <= sent
    /\ \A q \in Tokens \ {t} : vault'[q] = vault[q]
    /\ UNCHANGED <<held, supply, snapshots>>

\* Wallet w is paid its share of dividend d.
Claimed(w, d) ==
    /\ DOMAIN dividends' = DOMAIN dividends /\ SameTerms(d)
    /\ \A e \in DOMAIN dividends \ {d} : dividends'[e] = dividends[e]
    /\ w \notin dividends[d].claimed /\ Entitled(d, w)
    /\ dividends'[d].claimed = dividends[d].claimed \cup {w}
    /\ dividends'[d].claimedAmount = dividends[d].claimedAmount + Share(d, w)
    /\ vault'[dividends[d].token] = vault[dividends[d].token] - Share(d, w)
    /\ \A q \in Tokens \ {dividends[d].token} : vault'[q] = vault[q]
    /\ UNCHANGED <<held, supply, snapshots>>

DividendsType ==
    /\ dividends \in Seq(Dividend) /\ Len(dividends) <= MaxDividends
    /\ vault \in [Tokens -> Nat]

LEMMA CreatedByCreate ==
    ASSUME TypeOK, NEW s \in DOMAIN snapshots, NEW n \in Payouts, NEW sent \in Payouts,
           NEW t \in Tokens, CreateDividend(s, n, t, sent)
    PROVE  Created(s, n, t, sent) /\ DividendsType'
<1> DEFINE new == [snapshot |-> s, amount |-> n, token |-> t, claimed |-> {}, claimedAmount |-> 0]
<1>1. /\ dividends \in Seq(Dividend) /\ Len(dividends) <= MaxDividends /\ vault \in [Tokens -> Nat]
      /\ s \in 1..MaxSnapshots /\ n \in Nat /\ sent \in Nat /\ MaxDividends \in Nat
  BY DividendAssumption DEF TypeOK
<1>2. /\ new \in Dividend /\ new.snapshot = s /\ new.amount = n /\ new.token = t
      /\ new.claimed = {} /\ new.claimedAmount = 0
  BY <1>1 DEF Dividend
<1>3. /\ Len(dividends) < MaxDividends /\ dividends' = Append(dividends, new) /\ n <= sent
      /\ vault' = [vault EXCEPT ![t] = vault[t] + sent] /\ UNCHANGED <<held, supply, snapshots>>
  BY <1>1 DEF CreateDividend
<1> HIDE DEF new
<1>4. /\ dividends' \in Seq(Dividend) /\ Len(dividends') = Len(dividends) + 1
      /\ DOMAIN dividends' = 1..(Len(dividends) + 1) /\ dividends'[Len(dividends) + 1] = new
      /\ \A e \in DOMAIN dividends : dividends'[e] = dividends[e]
  BY <1>1, <1>2, <1>3
<1>5. Len(dividends) + 1 \in 1..MaxDividends
  BY <1>1, <1>3
<1>6. /\ vault' \in [Tokens -> Nat] /\ vault'[t] = vault[t] + sent
      /\ \A q \in Tokens \ {t} : vault'[q] = vault[q]
  <2>1. vault[t] + sent \in Nat
    BY <1>1
  <2> QED BY <1>1, <1>3, <2>1
<1>7. Created(s, n, t, sent)
  BY <1>2, <1>3, <1>4, <1>5, <1>6 DEF Created
<1> QED BY <1>4, <1>5, <1>6, <1>7 DEF DividendsType

LEMMA ClaimedByClaim ==
    ASSUME TypeOK, DividendsPlaced, NEW w \in Wallets, NEW d \in DOMAIN dividends,
           ClaimDividend(w, d)
    PROVE  Claimed(w, d) /\ Share(d, w) \in Nat /\ DividendsType'
<1> DEFINE n == Share(d, w)
           t == dividends[d].token
           new == [dividends[d] EXCEPT !.claimed = dividends[d].claimed \cup {w},
                                       !.claimedAmount = dividends[d].claimedAmount + n]
<1>1. /\ dividends \in Seq(Dividend) /\ Len(dividends) <= MaxDividends /\ vault \in [Tokens -> Nat]
      /\ dividends[d] \in Dividend /\ t \in Tokens
      /\ dividends[d].claimed \subseteq Wallets /\ dividends[d].claimedAmount \in Nat
  BY DividendFields DEF TypeOK
<1>2. n \in Nat
  <2>1. /\ SnapshotOf(d).supply \in Nat \ {0} /\ SnapshotOf(d).balances[w] \in Nat
        /\ dividends[d].amount \in Nat
    BY SnapshotFields, DividendFields DEF DividendsPlaced, SnapshotOf, ClaimDividend, Entitled
  <2>2. SnapshotOf(d).balances[w] * dividends[d].amount \in Nat
    BY <2>1, ProductTyped
  <2> QED BY <2>1, <2>2, Quotient DEF Share
<1>3. /\ w \notin dividends[d].claimed /\ Entitled(d, w) /\ n <= vault[t]
      /\ dividends' = [dividends EXCEPT ![d] = new]
      /\ vault' = [vault EXCEPT ![t] = vault[t] - n] /\ UNCHANGED <<held, supply, snapshots>>
  BY DEF ClaimDividend
<1> HIDE DEF n, t
<1>4. /\ new \in Dividend /\ new.snapshot = dividends[d].snapshot /\ new.amount = dividends[d].amount
      /\ new.token = dividends[d].token /\ new.claimed = dividends[d].claimed \cup {w}
      /\ new.claimedAmount = dividends[d].claimedAmount + n
  <2>1. dividends[d].claimed \cup {w} \in SUBSET Wallets /\ dividends[d].claimedAmount + n \in Nat
    BY <1>1, <1>2
  <2> DEFINE c == dividends[d].claimed \cup {w}
             m == dividends[d].claimedAmount + n
  <2>2. new = [dividends[d] EXCEPT !.claimed = c, !.claimedAmount = m]
    OBVIOUS
  <2>3. c \in SUBSET Wallets /\ m \in Nat
    BY <2>1
  <2> HIDE DEF new, c, m
  <2>4. /\ new \in Dividend /\ new.snapshot = dividends[d].snapshot
        /\ new.amount = dividends[d].amount /\ new.token = dividends[d].token
        /\ new.claimed = c /\ new.claimedAmount = m
    BY <1>1, <2>2, <2>3 DEF Dividend
  <2> QED BY <2>4 DEF c, m
<1> HIDE DEF new
<1>5. /\ dividends' \in Seq(Dividend) /\ Len(dividends') = Len(dividends)
      /\ DOMAIN dividends' = DOMAIN dividends /\ dividends'[d] = new
      /\ \A e \in DOMAIN dividends \ {d} : dividends'[e] = dividends[e]
  BY <1>1, <1>3, <1>4
<1>6. /\ vault' \in [Tokens -> Nat] /\ vault'[t] = vault[t] - n
      /\ \A q \in Tokens \ {t} : vault'[q] = vault[q]
  <2>1. vault[t] - n \in Nat
    BY <1>1, <1>2, <1>3
  <2> QED BY <1>1, <1>3, <2>1
<1>7. Claimed(w, d)
  BY <1>3, <1>4, <1>5, <1>6 DEF Claimed, SameTerms, n, t
<1> QED BY <1>1, <1>2, <1>5, <1>6, <1>7 DEF DividendsType, n

\* Every call leaves the dividends alone, or creates one, or pays a claim.
LEMMA DividendsStep ==
    ASSUME TypeOK, DividendsPlaced, [Next]_vars
    PROVE  /\ \/ UNCHANGED <<dividends, vault>>
              \/ \E s \in DOMAIN snapshots, n, sent \in Payouts, t \in Tokens : Created(s, n, t, sent)
              \/ \E w \in Wallets, d \in DOMAIN dividends : Claimed(w, d) /\ Share(d, w) \in Nat
           /\ DividendsType'
<1>1. CASE UNCHANGED <<dividends, vault>>
  BY <1>1 DEF TypeOK, DividendsType
<1>2. CASE \E s \in DOMAIN snapshots, n, sent \in Payouts, t \in Tokens : CreateDividend(s, n, t, sent)
  BY <1>2, CreatedByCreate
<1>3. CASE \E w \in Wallets, d \in DOMAIN dividends : ClaimDividend(w, d)
  BY <1>3, ClaimedByClaim
<1>4. \/ UNCHANGED <<dividends, vault>>
      \/ \E s \in DOMAIN snapshots, n, sent \in Payouts, t \in Tokens : CreateDividend(s, n, t, sent)
      \/ \E w \in Wallets, d \in DOMAIN dividends : ClaimDividend(w, d)
  BY DEF Next, vars, Transfer, Mint, Burn, CreateSnapshot, RecordHoldersBatch
<1> QED BY <1>1, <1>2, <1>3, <1>4

-----------------------------------------------------------------------------
(* The invariant is kept *)

\* Parts depend on what is kept of a snapshot, and on the terms of the dividend.
LEMMA PartStays ==
    ASSUME DividendsPlaced, NEW d \in DOMAIN dividends, SameTerms(d), Kept(dividends[d].snapshot)
    PROVE  \A w \in Wallets : Part(d, w)' = Part(d, w)
  BY DEF SameTerms, Kept, Part, SnapshotOf

LEMMA LeftStays ==
    ASSUME DividendsPlaced, NEW d \in DOMAIN dividends, SameTerms(d), Kept(dividends[d].snapshot),
           dividends'[d].claimed = dividends[d].claimed
    PROVE  Left(d)' = Left(d)
<1>1. Parts(d)' = Parts(d)
  BY PartStays DEF Parts
<1> QED BY <1>1 DEF Left

\* The facts about parts, at every state.
PartsNatural ==
    \A d \in DOMAIN dividends : Parts(d) \in [Wallets -> Nat] /\ Left(d) \in Nat

WholeFits ==
    \A d \in DOMAIN dividends : dividends[d].claimed = {} => Left(d) <= dividends[d].amount

LEMMA PartsOverall == TypeOK /\ SnapshotsAdd /\ DividendsPlaced => PartsNatural /\ WholeFits
<1> SUFFICES ASSUME TypeOK, SnapshotsAdd, DividendsPlaced PROVE PartsNatural /\ WholeFits
  OBVIOUS
<1>1. PartsNatural
  BY PartsTyped DEF PartsNatural
<1>2. ASSUME NEW d \in DOMAIN dividends, dividends[d].claimed = {}
      PROVE  Left(d) <= dividends[d].amount
  <2>1. Parts(d) = [w \in Wallets |-> Part(d, w)]
    BY <1>2 DEF Parts
  <2> QED BY <2>1, PartsFitAmount DEF Left
<1> QED BY <1>1, <1>2 DEF WholeFits

LEMMA PartsAfterwards == TypeOK' /\ SnapshotsAdd' /\ DividendsPlaced' => PartsNatural' /\ WholeFits'
  BY PartsOverall, PTL

\* A claim takes from what is left of a dividend what it pays.
LEMMA ClaimTakesPart ==
    ASSUME TypeOK, DividendsPlaced, PartsNatural', NEW w \in Wallets,
           NEW d \in DOMAIN dividends, Claimed(w, d), Kept(dividends[d].snapshot)
    PROVE  Left(d)' = Left(d) - Part(d, w)
<1>1. Parts(d) \in [Wallets -> Nat] /\ Parts(d)' \in [Wallets -> Nat]
  BY PartsTyped DEF Claimed, PartsNatural
<1>2. Parts(d)[w] = Part(d, w) /\ Parts(d)'[w] = 0
  BY DEF Claimed, Parts
<1>3. \A x \in Wallets \ {w} : Parts(d)'[x] = Parts(d)[x]
  BY PartStays DEF Claimed, Parts
<1>4. SumFunction(Parts(d)') = SumFunction(Parts(d)) - Parts(d)[w] + Parts(d)'[w]
      /\ SumFunction(Parts(d)) \in Int
  BY <1>1, <1>3, OneMoves
<1>5. Part(d, w) \in Nat
  BY PartTyped
<1> QED BY <1>2, <1>4, <1>5 DEF Left

\* The parts of every dividend stay set aside.
LEMMA SetAsideStays ==
    ASSUME TypeOK, DividendsPlaced, PartsSetAside, PartsNatural', WholeFits', DividendsPlaced',
           \A s \in DOMAIN snapshots : Kept(s),
           \/ UNCHANGED <<dividends, vault>>
           \/ \E s \in DOMAIN snapshots, n, sent \in Payouts, t \in Tokens : Created(s, n, t, sent)
           \/ \E w \in Wallets, d \in DOMAIN dividends : Claimed(w, d) /\ Share(d, w) \in Nat
    PROVE  PartsSetAside'
<1>1. ASSUME NEW d \in DOMAIN dividends, dividends'[d] = dividends[d], d \in DOMAIN dividends',
             Timely(dividends[d].snapshot)'
      PROVE  dividends'[d].claimedAmount + Left(d)' <= dividends'[d].amount
  <2>1. Kept(dividends[d].snapshot) /\ SameTerms(d)
    BY <1>1 DEF DividendsPlaced, SameTerms
  <2>2. Timely(dividends[d].snapshot)
    BY <1>1, <2>1, LateForGood
  <2>3. dividends[d].claimedAmount + Left(d) <= dividends[d].amount
    BY <2>2 DEF PartsSetAside
  <2>4. Left(d)' = Left(d)
    BY <1>1, <2>1, LeftStays
  <2> QED BY <1>1, <2>3, <2>4
<1>2. CASE UNCHANGED <<dividends, vault>>
  BY <1>1, <1>2 DEF PartsSetAside
<1>3. ASSUME NEW s \in DOMAIN snapshots, NEW n \in Payouts, NEW sent \in Payouts, NEW t \in Tokens,
             Created(s, n, t, sent), NEW d \in DOMAIN dividends', Timely(dividends[d].snapshot)'
      PROVE  dividends'[d].claimedAmount + Left(d)' <= dividends'[d].amount
  <2>1. CASE d \in DOMAIN dividends
    BY <1>1, <1>3, <2>1 DEF Created
  <2>2. CASE d \notin DOMAIN dividends
    <3>1. d = Len(dividends) + 1
      BY <1>3, <2>2 DEF Created, TypeOK
    <3>2. dividends'[d].claimed = {} /\ dividends'[d].claimedAmount = 0
      BY <1>3, <3>1 DEF Created
    <3>3. Left(d)' <= dividends'[d].amount
      BY <1>3, <3>2 DEF WholeFits
    <3>4. Left(d)' \in Nat
      BY <1>3 DEF PartsNatural
    <3> QED BY <3>2, <3>3, <3>4
  <2> QED BY <2>1, <2>2
<1>4. ASSUME NEW w \in Wallets, NEW k \in DOMAIN dividends, Claimed(w, k), Share(k, w) \in Nat,
             NEW d \in DOMAIN dividends', Timely(dividends[d].snapshot)'
      PROVE  dividends'[d].claimedAmount + Left(d)' <= dividends'[d].amount
  <2>1. CASE d # k
    BY <1>1, <1>4, <2>1 DEF Claimed
  <2>2. CASE d = k
    <3>1. Kept(dividends[k].snapshot)
      BY DEF DividendsPlaced
    <3>2. Timely(dividends[k].snapshot)
      BY <1>4, <2>2, <3>1, LateForGood DEF Claimed
    <3>3. Share(k, w) = Part(k, w)
      BY <1>4, <3>2, SharesAreParts DEF Claimed
    <3>4. Left(k)' = Left(k) - Part(k, w) /\ Left(k) \in Int
      BY <1>4, <3>1, ClaimTakesPart, PartsTyped
    <3>5. dividends[k].claimedAmount + Left(k) <= dividends[k].amount
      BY <3>2 DEF PartsSetAside
    <3>6. /\ dividends'[k].claimedAmount = dividends[k].claimedAmount + Share(k, w)
          /\ dividends'[k].amount = dividends[k].amount
      BY <1>4 DEF Claimed, SameTerms
    <3>7. dividends[k].claimedAmount \in Nat /\ dividends[k].amount \in Nat
      BY DividendFields
    <3> QED BY <1>4, <2>2, <3>3, <3>4, <3>5, <3>6, <3>7
  <2> QED BY <2>1, <2>2
<1> QED BY <1>2, <1>3, <1>4 DEF PartsSetAside

LEMMA UnpaidTyped ==
    ASSUME TypeOK, NEW t \in Tokens
    PROVE  Unpaid(t) \in [1..MaxDividends -> Int] /\ IsFiniteSet(1..MaxDividends)
<1>1. \A d \in DOMAIN dividends : dividends[d].amount - dividends[d].claimedAmount \in Int
  BY DividendFields
<1> QED BY <1>1, FS_Interval, DividendAssumption DEF Unpaid

LEMMA UnpaidMoves ==
    ASSUME NEW f \in [1..MaxDividends -> Int], NEW g \in [1..MaxDividends -> Int],
           NEW d \in 1..MaxDividends, \A e \in (1..MaxDividends) \ {d} : g[e] = f[e]
    PROVE  SumFunction(f) \in Int /\ SumFunction(g) = SumFunction(f) - f[d] + g[d]
<1>1. IsFiniteSet(1..MaxDividends)
  BY FS_Interval, DividendAssumption
<1> QED BY <1>1, SumChange, ZenonT(40)

\* What the vault holds of a token covers what is unpaid of its dividends.
LEMMA CoverStays ==
    ASSUME TypeOK, TypeOK', VaultCovers,
           \/ UNCHANGED <<dividends, vault>>
           \/ \E s \in DOMAIN snapshots, n, sent \in Payouts, t \in Tokens : Created(s, n, t, sent)
           \/ \E w \in Wallets, d \in DOMAIN dividends : Claimed(w, d) /\ Share(d, w) \in Nat
    PROVE  VaultCovers'
<1> SUFFICES ASSUME NEW q \in Tokens PROVE SumFunction(Unpaid(q)') <= vault'[q]
  BY DEF VaultCovers
<1>1. /\ Unpaid(q) \in [1..MaxDividends -> Int] /\ SumFunction(Unpaid(q)) <= vault[q]
      /\ vault[q] \in Nat
  BY UnpaidTyped DEF VaultCovers, TypeOK
<1>2. CASE UNCHANGED <<dividends, vault>>
  <2>1. Unpaid(q)' = Unpaid(q)
    BY <1>2 DEF Unpaid
  <2> QED BY <1>1, <1>2, <2>1
<1>3. ASSUME NEW s \in DOMAIN snapshots, NEW n \in Payouts, NEW sent \in Payouts, NEW t \in Tokens,
             Created(s, n, t, sent)
      PROVE  SumFunction(Unpaid(q)') <= vault'[q]
  <2> DEFINE d == Len(dividends) + 1
  <2>1. /\ d \in 1..MaxDividends /\ d \in DOMAIN dividends' /\ d \notin DOMAIN dividends
        /\ DOMAIN dividends' = DOMAIN dividends \cup {d}
        /\ n \in Nat /\ sent \in Nat /\ n <= sent
    <3>1. DOMAIN dividends = 1..Len(dividends) /\ Len(dividends) \in Nat
      BY DEF TypeOK
    <3>2. DOMAIN dividends' = 1..d /\ d \in 1..MaxDividends /\ n <= sent
      BY <1>3 DEF Created
    <3>3. n \in Nat /\ sent \in Nat
      BY DividendAssumption
    <3> QED BY <3>1, <3>2, <3>3
  <2>2. Unpaid(q)[d] = 0 /\ Unpaid(q)'[d] = IF t = q THEN n ELSE 0
    BY <1>3, <2>1 DEF Created, Unpaid
  <2>3. \A e \in (1..MaxDividends) \ {d} : Unpaid(q)'[e] = Unpaid(q)[e]
    BY <1>3, <2>1 DEF Created, Unpaid
  <2>4. Unpaid(q)' \in [1..MaxDividends -> Int]
    <3>1. \A e \in (1..MaxDividends) : Unpaid(q)'[e] \in Int
      BY <1>1, <2>1, <2>2, <2>3
    <3> QED BY <3>1 DEF Unpaid
  <2> HIDE DEF d
  <2>5. /\ SumFunction(Unpaid(q)) \in Int
        /\ SumFunction(Unpaid(q)') = SumFunction(Unpaid(q)) - Unpaid(q)[d] + Unpaid(q)'[d]
    BY <1>1, <2>1, <2>3, <2>4, UnpaidMoves
  <2>6. vault'[q] = IF t = q THEN vault[q] + sent ELSE vault[q]
    BY <1>3 DEF Created
  <2> QED BY <1>1, <2>1, <2>2, <2>5, <2>6
<1>4. ASSUME NEW w \in Wallets, NEW d \in DOMAIN dividends, Claimed(w, d), Share(d, w) \in Nat
      PROVE  SumFunction(Unpaid(q)') <= vault'[q]
  <2>1. d \in 1..MaxDividends /\ dividends[d].amount \in Nat /\ dividends[d].claimedAmount \in Nat
    BY DividendFields
  <2>2. Unpaid(q)'[d] = IF dividends[d].token = q THEN Unpaid(q)[d] - Share(d, w) ELSE Unpaid(q)[d]
    BY <1>4, <2>1 DEF Claimed, SameTerms, Unpaid
  <2>3. \A e \in (1..MaxDividends) \ {d} : Unpaid(q)'[e] = Unpaid(q)[e]
    BY <1>4 DEF Claimed, Unpaid
  <2>4. Unpaid(q)' \in [1..MaxDividends -> Int]
    <3>1. \A e \in (1..MaxDividends) : Unpaid(q)'[e] \in Int
      BY <1>1, <1>4, <2>1, <2>2, <2>3
    <3> QED BY <3>1 DEF Unpaid
  <2>5. /\ SumFunction(Unpaid(q)) \in Int
        /\ SumFunction(Unpaid(q)') = SumFunction(Unpaid(q)) - Unpaid(q)[d] + Unpaid(q)'[d]
    BY <1>1, <2>1, <2>3, <2>4, UnpaidMoves
  <2>6. vault'[q] = IF dividends[d].token = q THEN vault[q] - Share(d, w) ELSE vault[q]
    BY <1>4 DEF Claimed
  <2>7. Unpaid(q)[d] \in Int
    BY <1>1, <2>1
  <2> QED BY <1>1, <1>4, <2>2, <2>5, <2>6, <2>7
<1> QED BY <1>2, <1>3, <1>4

LEMMA UnitsStep ==
    ASSUME TypeOK, SupplyIsHeld, [Next]_vars
    PROVE  held' \in Balances /\ supply' \in 0..MaxSupply /\ SupplyIsHeld'
<1>1. CASE UNCHANGED <<held, supply>>
  BY <1>1 DEF TypeOK, SupplyIsHeld
<1>2. \/ UNCHANGED <<held, supply>>
      \/ \E from, to \in Wallets, n \in Amounts : Transfer(from, to, n)
      \/ \E w \in Wallets, n \in Amounts : Mint(w, n) \/ Burn(w, n)
  BY DEF Next, vars, CreateSnapshot, RecordHoldersBatch, CreateDividend, ClaimDividend
<1> QED BY <1>1, <1>2, UnitsMove

LEMMA PlacedStays ==
    ASSUME TypeOK, DividendsPlaced, \A s \in DOMAIN snapshots : Kept(s),
           \/ UNCHANGED <<dividends, vault>>
           \/ \E s \in DOMAIN snapshots, n, sent \in Payouts, t \in Tokens : Created(s, n, t, sent)
           \/ \E w \in Wallets, d \in DOMAIN dividends : Claimed(w, d) /\ Share(d, w) \in Nat
    PROVE  DividendsPlaced'
<1>1. \A s \in DOMAIN snapshots : s \in DOMAIN snapshots'
  BY DEF Kept
<1>2. CASE UNCHANGED <<dividends, vault>>
  BY <1>1, <1>2 DEF DividendsPlaced
<1>3. ASSUME NEW s \in DOMAIN snapshots, NEW n \in Payouts, NEW sent \in Payouts, NEW t \in Tokens,
             Created(s, n, t, sent)
      PROVE  DividendsPlaced'
  <2>1. ASSUME NEW d \in DOMAIN dividends'
        PROVE  dividends'[d].snapshot \in DOMAIN snapshots' /\ dividends'[d].amount > 0
    <3>1. CASE d \in DOMAIN dividends
      BY <1>1, <1>3, <3>1 DEF Created, DividendsPlaced
    <3>2. CASE d \notin DOMAIN dividends
      <4>1. d = Len(dividends) + 1
        BY <1>3, <3>2 DEF Created, TypeOK
      <4>2. dividends'[d].snapshot = s /\ dividends'[d].amount = n /\ n > 0
        BY <1>3, <4>1, DividendAssumption DEF Created
      <4> QED BY <1>1, <4>2
    <3> QED BY <3>1, <3>2
  <2> QED BY <2>1 DEF DividendsPlaced
<1>4. ASSUME NEW w \in Wallets, NEW k \in DOMAIN dividends, Claimed(w, k)
      PROVE  DividendsPlaced'
  BY <1>1, <1>4 DEF Claimed, SameTerms, DividendsPlaced
<1> QED BY <1>2, <1>3, <1>4

LEMMA NextIInv == IInv /\ [Next]_vars => IInv'
<1> SUFFICES ASSUME IInv, [Next]_vars PROVE IInv'
  OBVIOUS
<1> USE DEF IInv
<1>1. held' \in Balances /\ supply' \in 0..MaxSupply /\ SupplyIsHeld'
  BY UnitsStep
<1>2. /\ snapshots' \in Seq(Snapshot) /\ Len(snapshots') <= MaxSnapshots /\ SnapshotsAdd'
      /\ \A s \in DOMAIN snapshots : Kept(s)
  BY SnapshotsKept
<1>3. /\ \/ UNCHANGED <<dividends, vault>>
         \/ \E s \in DOMAIN snapshots, n, sent \in Payouts, t \in Tokens : Created(s, n, t, sent)
         \/ \E w \in Wallets, d \in DOMAIN dividends : Claimed(w, d) /\ Share(d, w) \in Nat
      /\ DividendsType'
  BY DividendsStep
<1>4. TypeOK'
  BY <1>1, <1>2, <1>3 DEF TypeOK, DividendsType
<1>5. DividendsPlaced'
  BY <1>2, <1>3, PlacedStays
<1>6. PartsNatural' /\ WholeFits'
  BY <1>2, <1>4, <1>5, PartsAfterwards
<1>7. PartsSetAside'
  BY <1>2, <1>3, <1>5, <1>6, SetAsideStays
<1>8. VaultCovers'
  BY <1>3, <1>4, CoverStays
<1> QED BY <1>1, <1>2, <1>4, <1>5, <1>7, <1>8

-----------------------------------------------------------------------------
(* Theorems *)

\* Supply, balances, snapshots and dividends keep their types and bounds: no
\* balance and no vault falls below zero, and the supply never exceeds MaxSupply.
THEOREM TypeCorrect == Spec => []TypeOK
<1>1. IInv => TypeOK
  BY DEF IInv
<1> QED BY <1>1, InitIInv, NextIInv, PTL DEF Spec

LEMMA OutstandingFits ==
    ASSUME IInv, NEW d \in DOMAIN dividends, Timely(dividends[d].snapshot)
    PROVE  /\ Outstanding(d) \in Int
           /\ Outstanding(d) <= dividends[d].amount - dividends[d].claimedAmount
<1> DEFINE open == [w \in Wallets |->
                      IF w \notin dividends[d].claimed /\ Entitled(d, w) THEN Share(d, w) ELSE 0]
<1>1. TypeOK /\ DividendsPlaced /\ IsFiniteSet(Wallets)
  BY DividendAssumption DEF IInv
<1>2. /\ Parts(d) \in [Wallets -> Nat] /\ Left(d) \in Int
      /\ dividends[d].amount \in Nat /\ dividends[d].claimedAmount \in Nat
  BY <1>1, PartsTyped, DividendFields
<1>3. ASSUME NEW w \in Wallets
      PROVE  open[w] \in Int /\ Parts(d)[w] \in Int /\ open[w] <= Parts(d)[w]
  <2>1. CASE w \notin dividends[d].claimed /\ Entitled(d, w)
    <3>1. open[w] = Part(d, w) /\ Parts(d)[w] = Part(d, w)
      BY <1>1, <2>1, SharesAreParts DEF Parts
    <3> QED BY <1>1, <3>1, PartTyped
  <2>2. CASE ~(w \notin dividends[d].claimed /\ Entitled(d, w))
    <3>1. open[w] = 0
      BY <2>2
    <3> QED BY <1>2, <3>1
  <2> QED BY <2>1, <2>2
<1>4. DOMAIN open = Wallets /\ DOMAIN Parts(d) = Wallets /\ Outstanding(d) = SumFunction(open)
  BY DEF Parts, Outstanding
<1> HIDE DEF open
<1>5. SumFunctionOnSet(open, Wallets) <= SumFunctionOnSet(Parts(d), Wallets)
  BY <1>1, <1>3, SumMonotone
<1>6. SumFunctionOnSet(open, Wallets) \in Int
  BY <1>1, <1>3, SumType
<1>7. Outstanding(d) \in Int /\ Outstanding(d) <= Left(d)
  BY <1>4, <1>5, <1>6 DEF SumFunction, Left
<1>8. dividends[d].claimedAmount + Left(d) <= dividends[d].amount
  BY DEF IInv, PartsSetAside
<1> QED BY <1>2, <1>7, <1>8

\* As long as no snapshot was recorded late, the diamond holds of each payment
\* token what is still to be claimed of all its dividends together, whatever
\* moves between snapshot, record and claim.
THEOREM ClaimsAlwaysCovered == Spec => []ClaimsAreCovered
<1>1. IInv => ClaimsAreCovered
  <2> SUFFICES ASSUME IInv, \A s \in DOMAIN snapshots : Timely(s), NEW t \in Tokens
               PROVE  SumFunction([d \in {e \in DOMAIN dividends : dividends[e].token = t} |-> Outstanding(d)])
                        <= vault[t]
    BY DEF ClaimsAreCovered
  <2> DEFINE D == {e \in DOMAIN dividends : dividends[e].token = t}
             out == [d \in D |-> Outstanding(d)]
             N == 1..MaxDividends
  <2>1. TypeOK /\ DividendsPlaced
    BY DEF IInv
  <2>2. /\ Unpaid(t) \in [N -> Int] /\ IsFiniteSet(N) /\ D \in SUBSET N /\ IsFiniteSet(D)
    <3>1. Unpaid(t) \in [N -> Int] /\ IsFiniteSet(N)
      BY <2>1, UnpaidTyped
    <3>2. D \in SUBSET N
      BY <2>1, DividendFields
    <3> QED BY <3>1, <3>2, FS_Subset
  <2>3. ASSUME NEW d \in D
        PROVE  out[d] \in Int /\ Unpaid(t)[d] \in Int /\ out[d] <= Unpaid(t)[d]
    <3>1. Outstanding(d) \in Int /\ Outstanding(d) <= dividends[d].amount - dividends[d].claimedAmount
      BY <2>1, OutstandingFits DEF DividendsPlaced
    <3>2. Unpaid(t)[d] = dividends[d].amount - dividends[d].claimedAmount
      BY <2>2 DEF Unpaid
    <3> QED BY <2>2, <3>1, <3>2
  <2>4. \A d \in N \ D : Unpaid(t)[d] = 0
    BY DEF Unpaid
  <2>5. DOMAIN out = D /\ DOMAIN Unpaid(t) = N
    BY <2>2
  <2> HIDE DEF out, D, N
  <2>6. SumFunctionOnSet(out, D) <= SumFunctionOnSet(Unpaid(t), D)
    BY <2>2, <2>3, SumMonotone
  <2>7. SumFunctionOnSet(Unpaid(t), N) = SumFunctionOnSet(Unpaid(t), D)
    BY <2>2, <2>3, <2>4, SumOverPart
  <2>8. SumFunction(Unpaid(t)) <= vault[t]
    BY DEF IInv, VaultCovers
  <2>9. /\ SumFunctionOnSet(out, D) \in Int /\ SumFunctionOnSet(Unpaid(t), N) \in Int /\ vault[t] \in Nat
    <3>1. vault[t] \in Nat
      BY <2>1 DEF TypeOK
    <3>2. \A d \in N : Unpaid(t)[d] \in Int
      BY <2>2
    <3> QED BY <2>2, <2>3, <3>1, <3>2, SumType
  <2>10. SumFunction(out) = SumFunctionOnSet(out, D) /\ SumFunction(Unpaid(t)) = SumFunctionOnSet(Unpaid(t), N)
    BY <2>5 DEF SumFunction
  <2>11. SumFunction(out) <= vault[t]
    BY <2>6, <2>7, <2>8, <2>9, <2>10
  <2> QED BY <2>11 DEF out, D
<1> QED BY <1>1, InitIInv, NextIInv, PTL DEF Spec

-----------------------------------------------------------------------------
(* A dividend is a dividend register *)

LEMMA StepIsPromised ==
    ASSUME IInv, IInv', [Next]_vars, NEW d \in 1..MaxDividends, InTime(d)'
    PROVE  Promise(d)!Next
<1>1. TypeOK /\ DividendsPlaced /\ SnapshotsAdd /\ PartsSetAside' /\ PartsNatural'
  BY PartsAfterwards DEF IInv
<1>2. \A s \in DOMAIN snapshots : Kept(s)
  BY SnapshotsKept DEF IInv
<1>3. CASE d \notin DOMAIN dividends /\ d \notin DOMAIN dividends'
  <2>1. Promise(d)!Next
    BY <1>3 DEF Promise!Next
  <2> QED BY <2>1
<1>4. ASSUME d \in DOMAIN dividends, d \in DOMAIN dividends', dividends'[d] = dividends[d]
      PROVE  Promise(d)!Next
  <2>1. SnapshotOf(d)'.asOf = SnapshotOf(d).asOf
    BY <1>1, <1>2, <1>4 DEF SnapshotOf, Kept, DividendsPlaced
  <2> QED BY <1>4, <2>1 DEF Promise!Next
<1>5. ASSUME NEW s \in DOMAIN snapshots, NEW n \in Payouts, NEW sent \in Payouts, NEW t \in Tokens,
             Created(s, n, t, sent), d \notin DOMAIN dividends, d \in DOMAIN dividends'
      PROVE  Promise(d)!Next
  <2>1. d = Len(dividends) + 1
    BY <1>1, <1>5 DEF Created, TypeOK
  <2>2. /\ dividends'[d].amount > 0 /\ dividends'[d].claimed = {}
        /\ dividends'[d].claimedAmount = 0
    BY <1>5, <2>1, DividendAssumption DEF Created
  <2>3. Promise(d)!Declare
    BY <1>5, <2>2 DEF Promise!Declare
  <2> QED BY <2>3 DEF Promise!Next
<1>6. ASSUME NEW w \in Wallets, d \in DOMAIN dividends, Claimed(w, d), Share(d, w) \in Nat
      PROVE  Promise(d)!Next
  <2>1. /\ d \in DOMAIN dividends' /\ Kept(dividends[d].snapshot) /\ SameTerms(d)
        /\ SnapshotOf(d)' = SnapshotOf(d)
    BY <1>1, <1>2, <1>6 DEF Claimed, DividendsPlaced, SameTerms, SnapshotOf
  <2>2. Timely(dividends[d].snapshot)
    BY <1>1, <1>6, <2>1, LateForGood DEF InTime
  <2>3. Share(d, w) = Part(d, w) /\ SnapshotOf(d).asOf[w] > 0 /\ Part(d, w) > 0
    BY <1>1, <1>6, <2>2, SharesAreParts DEF Claimed
  <2>4. Part(d, w) = (dividends[d].amount * SnapshotOf(d).asOf[w]) \div SumFunction(SnapshotOf(d).asOf)
    <3>1. SnapshotOf(d).supply # 0 /\ SumFunction(SnapshotOf(d).asOf) = SnapshotOf(d).supply
      BY <1>1, <1>6 DEF Claimed, Entitled, SnapshotsAdd, DividendsPlaced, SnapshotOf
    <3>2. SnapshotOf(d).asOf[w] \in Nat /\ dividends[d].amount \in Nat
      BY <1>1, <1>6, SnapshotFields, DividendFields DEF DividendsPlaced, SnapshotOf
    <3>3. SnapshotOf(d).asOf[w] * dividends[d].amount = dividends[d].amount * SnapshotOf(d).asOf[w]
      BY <3>2, ProductTyped
    <3> QED BY <3>1, <3>3 DEF Part
  <2>5. dividends'[d].claimedAmount <= dividends'[d].amount
    <3>1. dividends'[d].claimedAmount + Left(d)' <= dividends'[d].amount
      BY <1>1, <2>1 DEF PartsSetAside, InTime
    <3>2. Left(d)' \in Nat
      BY <1>1, <2>1 DEF PartsNatural
    <3>3. dividends'[d].claimedAmount \in Nat /\ dividends'[d].amount \in Nat
      BY <1>1, <1>6, <2>1, DividendFields DEF Claimed, SameTerms
    <3> QED BY <3>1, <3>2, <3>3
  <2>6. Promise(d)!SumFunction(SnapshotOf(d).asOf) = SumFunction(SnapshotOf(d).asOf)
    BY DEF Promise!SumFunction, Promise!SumFunctionOnSet, Promise!FoldFunctionOnSet, Promise!MapThenFoldSet,
           SumFunction, SumFunctionOnSet, FoldFunctionOnSet, MapThenFoldSet
  <2>7. Promise(d)!Settle
    BY <1>6, <2>1, <2>3, <2>4, <2>5, <2>6 DEF Promise!Settle, Promise!Part, Claimed, SameTerms
  <2> QED BY <2>7 DEF Promise!Next
<1> QED
  <2>1. \/ UNCHANGED <<dividends, vault>>
        \/ \E s \in DOMAIN snapshots, n, sent \in Payouts, t \in Tokens : Created(s, n, t, sent)
        \/ \E w \in Wallets, e \in DOMAIN dividends : Claimed(w, e) /\ Share(e, w) \in Nat
    BY <1>1, DividendsStep
  <2>2. CASE UNCHANGED <<dividends, vault>>
    BY <1>3, <1>4, <2>2
  <2>3. ASSUME NEW s \in DOMAIN snapshots, NEW n \in Payouts, NEW sent \in Payouts, NEW t \in Tokens,
               Created(s, n, t, sent)
        PROVE  Promise(d)!Next
    <3>1. CASE d \in DOMAIN dividends
      <4>1. d \in DOMAIN dividends' /\ dividends'[d] = dividends[d]
        BY <1>1, <2>3, <3>1 DEF Created, TypeOK
      <4> QED BY <1>4, <3>1, <4>1
    <3>2. CASE d \notin DOMAIN dividends
      BY <1>3, <1>5, <2>3, <3>2
    <3> QED BY <3>1, <3>2
  <2>4. CASE \E w \in Wallets, e \in DOMAIN dividends : Claimed(w, e) /\ Share(e, w) \in Nat
    BY <1>3, <1>4, <1>6, <2>4 DEF Claimed, SameTerms
  <2> QED BY <2>1, <2>2, <2>3, <2>4

\* Every dividend whose snapshot is recorded in time implements the register
\* that pays each holder, once, its part by what it held at the snapshot, and all
\* of them no more than was put aside.
THEOREM DividendsImplementRegister == Spec => ImplementsDividendRegister
<1>1. Init => \A d \in 1..MaxDividends : Promise(d)!Init
  BY DEF Init, Promise!Init
<1>2. IInv /\ IInv' /\ [Next]_vars => [\A d \in 1..MaxDividends : InTime(d)' => Promise(d)!Next]_vars
  BY StepIsPromised
<1> QED BY <1>1, <1>2, InitIInv, NextIInv, PTL DEF Spec, ImplementsDividendRegister
=============================================================================
