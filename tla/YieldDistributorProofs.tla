----------------------- MODULE YieldDistributorProofs -----------------------
(***************************************************************************)
(* What the yield distributor owes.  For any deposits and any scale no     *)
(* checkpoint reverts: the debt of a holder never exceeds what its balance *)
(* has earned.  Where each deposit divides evenly among the units there    *)
(* are, every call has one of three effects on what is due for a reward    *)
(* asset (Effect), from which follow that the claims are funded and that   *)
(* the accumulator implements YieldLedger.                                 *)
(***************************************************************************)
EXTENDS YieldDistributor, FiniteSums

\* What a checkpoint works on.
Books ==
    /\ held \in [Wallets -> Nat]
    /\ supply \in Int
    /\ isRewardAsset \subseteq Rewards
    /\ acc \in [Rewards -> Nat]
    /\ account \in [Rewards -> [Wallets -> Account]]

\* Before the first deposit nobody has a debt.
NoEarlyDebt == \A r \in Rewards, w \in Wallets : acc[r] = 0 => account[r][w].debt = 0

IInv == Books /\ NoEarlyDebt /\ DebtsAreCovered

-----------------------------------------------------------------------------
(* Shares *)

LEMMA FloorMonotone ==
    ASSUME NEW a \in Nat, NEW b \in Nat, NEW p \in Nat \ {0}, a <= b
    PROVE  a \div p <= b \div p
  OBVIOUS

LEMMA FloorTyped ==
    ASSUME NEW a \in Nat, NEW p \in Nat \ {0}
    PROVE  a \div p \in Nat /\ 0 \div p = 0
  OBVIOUS

LEMMA ProductMonotone ==
    ASSUME NEW a \in Nat, NEW b \in Nat, NEW n \in Nat, a <= b
    PROVE  n * a \in Nat /\ n * b \in Nat /\ n * a <= n * b
  OBVIOUS

LEMMA ShareTyped ==
    ASSUME acc \in [Rewards -> Nat], NEW r \in Rewards, NEW n \in Nat
    PROVE  /\ Share(r, n) \in Nat
           /\ acc[r] = 0 => Share(r, n) = 0
<1>1. acc[r] \in Nat /\ PRECISION \in Nat \ {0}
  BY YieldAssumption
<1>2. n * acc[r] \in Nat
  BY <1>1, ProductMonotone
<1>3. acc[r] = 0 => n * acc[r] = 0
  OBVIOUS
<1> QED BY <1>1, <1>2, <1>3, FloorTyped DEF Share

\* A deposit takes away from nobody.
LEMMA ShareGrows ==
    ASSUME acc \in [Rewards -> Nat], NEW r \in Rewards, NEW n \in Nat,
           acc' \in [Rewards -> Nat], acc[r] <= acc'[r]
    PROVE  (n * acc[r]) \div PRECISION <= (n * acc'[r]) \div PRECISION
<1>1. acc[r] \in Nat /\ acc'[r] \in Nat /\ PRECISION \in Nat \ {0}
  BY YieldAssumption
<1>2. n * acc[r] \in Nat /\ n * acc'[r] \in Nat /\ n * acc[r] <= n * acc'[r]
  BY <1>1, ProductMonotone
<1> QED BY <1>1, <1>2, FloorMonotone

-----------------------------------------------------------------------------
(* Checkpoints *)

LEMMA CheckpointTyped ==
    ASSUME acc \in [Rewards -> Nat], NEW r \in Rewards, NEW a \in Account,
           NEW before \in Nat, NEW after \in Nat, Covered(a, r, before)
    PROVE  /\ Crystallized(a, r, before, after) \in Account
           /\ Crystallized(a, r, before, after).debt = Share(r, after)
<1>1. Share(r, before) \in Nat /\ Share(r, after) \in Nat
  BY ShareTyped
<1>2. a.debt \in Nat /\ a.pending \in Nat
  BY DEF Account
<1>3. before > 0 => a.pending + Share(r, before) - a.debt \in Nat
  BY <1>1, <1>2 DEF Covered
<1> QED BY <1>1, <1>2, <1>3 DEF Crystallized, Account

\* After the hook the wallets of the call owe exactly what their balance earned,
\* and the accounts of the others are what they were.
LEMMA Checkpointed ==
    ASSUME Books, held' \in [Wallets -> Nat],
           NEW from \in Wallets \cup {NoOne}, NEW to \in Wallets \cup {NoOne},
           NEW n \in Nat, PluginAction(from, to, n)
    PROVE  /\ account' \in [Rewards -> [Wallets -> Account]]
           /\ \A r \in Hooked, w \in Wallets :
                 account'[r][w].debt =
                    IF w \in {from, to} THEN Share(r, held'[w]) ELSE account[r][w].debt
           /\ \A r \in Rewards \ Hooked : account'[r] = account[r]
<1> USE YieldAssumption
<1>1. ASSUME NEW r \in Hooked
      PROVE  /\ BothSettled(r, from, to, n) \in [Wallets -> Account]
             /\ \A w \in Wallets : BothSettled(r, from, to, n)[w].debt =
                   IF w \in {from, to} THEN Share(r, held'[w]) ELSE account[r][w].debt
  <2>1. r \in Rewards /\ acc \in [Rewards -> Nat] /\ account[r] \in [Wallets -> Account]
    BY <1>1 DEF Hooked, Books
  <2>2. Accepts(r, from, to, n)
    BY <1>1 DEF PluginAction
  <2>3. /\ SenderSettled(r, from, n) \in [Wallets -> Account]
        /\ \A w \in Wallets : SenderSettled(r, from, n)[w].debt =
              IF w = from THEN Share(r, held'[w]) ELSE account[r][w].debt
    <3>1. CASE from = NoOne
      BY <3>1, <2>1 DEF SenderSettled
    <3>2. CASE from # NoOne
      <4>1. from \in Wallets /\ held'[from] \in Nat /\ held'[from] + n \in Nat
        BY <3>2
      <4>2. account[r][from] \in Account /\ Covered(account[r][from], r, held'[from] + n)
        BY <4>1, <3>2, <2>1, <2>2 DEF Accepts
      <4>3. /\ Crystallized(account[r][from], r, held'[from] + n, held'[from]) \in Account
            /\ Crystallized(account[r][from], r, held'[from] + n, held'[from]).debt =
                  Share(r, held'[from])
        BY <4>1, <4>2, <2>1, CheckpointTyped
      <4> QED BY <4>1, <4>3, <3>2, <2>1 DEF SenderSettled
    <3> QED BY <3>1, <3>2
  <2>4. CASE to = NoOne
    BY <2>4, <2>3 DEF BothSettled
  <2>5. CASE to # NoOne
    <3> DEFINE settled == SenderSettled(r, from, n)
    <3>1. to \in Wallets /\ held'[to] \in Nat /\ BalanceBefore(to, n) \in Nat
      BY <2>5 DEF BalanceBefore
    <3>2. settled[to] \in Account /\ Covered(settled[to], r, BalanceBefore(to, n))
      BY <3>1, <2>2, <2>3, <2>5 DEF Accepts
    <3> HIDE DEF settled
    <3>3. /\ Crystallized(settled[to], r, BalanceBefore(to, n), held'[to]) \in Account
          /\ Crystallized(settled[to], r, BalanceBefore(to, n), held'[to]).debt =
                Share(r, held'[to])
      BY <3>1, <3>2, <2>1, CheckpointTyped
    <3>4. BothSettled(r, from, to, n) =
            [settled EXCEPT ![to] = Crystallized(settled[to], r, BalanceBefore(to, n), held'[to])]
      BY <2>5 DEF BothSettled, settled
    <3>5. /\ settled \in [Wallets -> Account]
          /\ \A w \in Wallets : settled[w].debt =
                IF w = from THEN Share(r, held'[w]) ELSE account[r][w].debt
      BY <2>3 DEF settled
    <3> QED BY <3>1, <3>3, <3>4, <3>5
  <2> QED BY <2>4, <2>5
<1>2. account' = [r \in Rewards |->
                    IF r \in Hooked THEN BothSettled(r, from, to, n) ELSE account[r]]
  BY DEF PluginAction
<1>3. Hooked \subseteq Rewards
  BY DEF Hooked, Books
<1>4. account \in [Rewards -> [Wallets -> Account]]
  BY DEF Books
<1> QED BY <1>1, <1>2, <1>3, <1>4

-----------------------------------------------------------------------------
(* Steps *)

\* A call that moves n units and tells the module.
LEMMA HookedMove ==
    ASSUME IInv, held' \in [Wallets -> Nat], supply' \in Int,
           NEW from \in Wallets \cup {NoOne}, NEW to \in Wallets \cup {NoOne}, NEW n \in Nat,
           PluginAction(from, to, n),
           \A w \in Wallets \ {from, to} : held'[w] = held[w],
           UNCHANGED <<isRewardAsset, acc>>,
           missed \cup (Started \ Hooked) \subseteq missed'
    PROVE  IInv'
<1>1. /\ account' \in [Rewards -> [Wallets -> Account]]
      /\ \A r \in Hooked, w \in Wallets :
            account'[r][w].debt =
               IF w \in {from, to} THEN Share(r, held'[w]) ELSE account[r][w].debt
      /\ \A r \in Rewards \ Hooked : account'[r] = account[r]
  BY Checkpointed DEF IInv
<1>2. Books'
  BY <1>1 DEF IInv, Books
<1>3. NoEarlyDebt'
  <2> SUFFICES ASSUME NEW r \in Rewards, NEW w \in Wallets, acc[r] = 0
               PROVE  account'[r][w].debt = 0
    BY DEF NoEarlyDebt
  <2>1. Share(r, held'[w]) = 0
    BY ShareTyped DEF IInv, Books
  <2>2. account[r][w].debt = 0
    BY DEF IInv, NoEarlyDebt
  <2> QED BY <1>1, <2>1, <2>2
<1>4. DebtsAreCovered'
  <2> SUFFICES ASSUME NEW r \in Rewards \ missed', NEW w \in Wallets
               PROVE  account'[r][w].debt <= Share(r, held'[w])
    BY DEF DebtsAreCovered, Share
  <2>1. Share(r, held'[w]) \in Nat
    BY ShareTyped DEF IInv, Books
  <2>2. r \in Rewards \ missed /\ account[r][w].debt <= Share(r, held[w])
    BY DEF IInv, DebtsAreCovered
  <2>3. CASE r \in Hooked
    BY <2>1, <2>2, <2>3, <1>1
  <2>4. CASE r \notin Hooked
    <3>1. acc[r] = 0
      <4>1. acc[r] \in Nat /\ ~(acc[r] > 0)
        BY <2>4 DEF IInv, Books, Started
      <4> QED BY <4>1
    <3>2. account'[r][w].debt = 0
      BY <3>1, <2>4, <1>1 DEF IInv, NoEarlyDebt
    <3> QED BY <3>2, <2>1
  <2> QED BY <2>3, <2>4
<1> QED BY <1>2, <1>3, <1>4 DEF IInv

\* A call that settles the accounts of one wallet with what its balance earned.
LEMMA ClaimTyped ==
    ASSUME IInv, NEW r \in Rewards, NEW w \in Wallets
    PROVE  /\ Claimed(r, w) \in [Wallets -> Account]
           /\ \A v \in Wallets : Claimed(r, w)[v].debt =
                 IF v = w THEN Share(r, held[v]) ELSE account[r][v].debt
<1>1. acc \in [Rewards -> Nat] /\ held[w] \in Nat /\ account[r] \in [Wallets -> Account]
  BY DEF IInv, Books
<1>2. Share(r, held[w]) \in Nat
  BY <1>1, ShareTyped
<1>3. [debt |-> Share(r, held[w]), pending |-> 0] \in Account
  BY <1>2 DEF Account
<1> QED BY <1>1, <1>3 DEF Claimed

LEMMA PayingStep ==
    ASSUME IInv, NEW paid \in SUBSET Rewards, NEW w \in Wallets,
           account' = [r \in Rewards |-> IF r \in paid THEN Claimed(r, w) ELSE account[r]],
           UNCHANGED <<held, supply, isRewardAsset, acc, missed>>
    PROVE  IInv'
<1>1. \A r \in paid :
         /\ Claimed(r, w) \in [Wallets -> Account]
         /\ \A v \in Wallets : Claimed(r, w)[v].debt =
               IF v = w THEN Share(r, held[v]) ELSE account[r][v].debt
  BY ClaimTyped
<1>2. account \in [Rewards -> [Wallets -> Account]]
  BY DEF IInv, Books
<1>3. account' \in [Rewards -> [Wallets -> Account]]
  BY <1>1, <1>2
<1>4. \A r \in Rewards, v \in Wallets : account'[r][v].debt =
         IF r \in paid /\ v = w THEN Share(r, held[v]) ELSE account[r][v].debt
  BY <1>1, <1>2
<1>5. \A r \in Rewards, v \in Wallets :
         Share(r, held[v]) \in Nat /\ (acc[r] = 0 => Share(r, held[v]) = 0)
  BY ShareTyped DEF IInv, Books
<1>6. Books'
  BY <1>3 DEF IInv, Books
<1>7. NoEarlyDebt'
  BY <1>4, <1>5 DEF IInv, NoEarlyDebt
<1>8. DebtsAreCovered'
  <2> SUFFICES ASSUME NEW r \in Rewards \ missed, NEW v \in Wallets
               PROVE  account'[r][v].debt <= Share(r, held[v])
    BY DEF DebtsAreCovered, Share
  <2>1. account[r][v].debt <= Share(r, held[v])
    BY DEF IInv, DebtsAreCovered
  <2> QED BY <2>1, <1>4, <1>5
<1> QED BY <1>6, <1>7, <1>8 DEF IInv

LEMMA InitIInv == Init => IInv
<1> SUFFICES ASSUME Init PROVE IInv
  OBVIOUS
<1>1. Books
  BY DEF Init, Books, Account
<1>2. NoEarlyDebt
  BY DEF Init, NoEarlyDebt
<1>3. DebtsAreCovered
  <2> SUFFICES ASSUME NEW r \in Rewards, NEW w \in Wallets
               PROVE  account[r][w].debt <= Share(r, held[w])
    BY DEF DebtsAreCovered
  <2>1. account[r][w].debt = 0
    BY DEF Init
  <2>2. Share(r, held[w]) \in Nat
    BY <1>1, ShareTyped DEF Books
  <2> QED BY <2>1, <2>2
<1> QED BY <1>1, <1>2, <1>3 DEF IInv

LEMMA NextIInv == IInv /\ [Next]_vars => IInv'
<1> SUFFICES ASSUME IInv, [Next]_vars
             PROVE  IInv'
  OBVIOUS
<1> USE YieldAssumption
<1>0. held \in [Wallets -> Nat] /\ supply \in Int
  BY DEF IInv, Books
<1>1. ASSUME NEW from \in Wallets, NEW to \in Wallets, NEW n \in Amounts, Transfer(from, to, n)
      PROVE  IInv'
  <2>1. n \in Nat /\ n <= held[from]
    BY <1>1 DEF Transfer
  <2>2. held' \in [Wallets -> Nat] /\ \A w \in Wallets \ {from, to} : held'[w] = held[w]
    BY <1>0, <1>1, <2>1 DEF Transfer
  <2>3. missed \cup (Started \ Hooked) \subseteq missed'
    BY <1>1 DEF Transfer
  <2> QED BY <1>0, <1>1, <2>1, <2>2, <2>3, HookedMove DEF Transfer
<1>2. ASSUME NEW to \in Wallets, NEW n \in Amounts, Mint(to, n)
      PROVE  IInv'
  <2>1. n \in Nat
    OBVIOUS
  <2>2. /\ held' \in [Wallets -> Nat] /\ supply' \in Int
        /\ \A w \in Wallets \ {NoOne, to} : held'[w] = held[w]
    BY <1>0, <1>2, <2>1 DEF Mint
  <2> QED BY <1>2, <2>1, <2>2, HookedMove DEF Mint
<1>3. ASSUME NEW from \in Wallets, NEW n \in Amounts, Burn(from, n)
      PROVE  IInv'
  <2>1. n \in Nat /\ n <= held[from]
    BY <1>3 DEF Burn
  <2>2. /\ held' \in [Wallets -> Nat] /\ supply' \in Int
        /\ \A w \in Wallets \ {from, NoOne} : held'[w] = held[w]
    BY <1>0, <1>3, <2>1 DEF Burn
  <2> QED BY <1>3, <2>1, <2>2, HookedMove DEF Burn
<1>4. ASSUME NEW lost \in Wallets, NEW new \in Wallets, RecoverWallet(lost, new)
      PROVE  IInv'
  <2>1. held' \in [Wallets -> Nat]
    BY <1>0, <1>4 DEF RecoverWallet
  <2>2. Books' /\ NoEarlyDebt'
    BY <1>4, <2>1 DEF IInv, Books, NoEarlyDebt, RecoverWallet
  <2>3. ASSUME NEW r \in Rewards \ missed', NEW w \in Wallets
        PROVE  account'[r][w].debt <= Share(r, held'[w])
    <3>1. acc[r] \in Nat /\ ~(acc[r] > 0)
      BY <1>4 DEF RecoverWallet, Started, IInv, Books
    <3>2. account'[r][w].debt = 0
      BY <1>4, <3>1 DEF RecoverWallet, IInv, NoEarlyDebt
    <3>3. Share(r, held'[w]) \in Nat
      BY <2>1, ShareTyped DEF IInv, Books
    <3> QED BY <3>2, <3>3
  <2>4. DebtsAreCovered'
    BY <1>4, <2>3 DEF DebtsAreCovered, Share, RecoverWallet
  <2> QED BY <2>2, <2>4 DEF IInv
<1>5. ASSUME NEW in \in BOOLEAN, SetPlugged(in)
      PROVE  IInv'
  BY <1>5 DEF SetPlugged, IInv, Books, NoEarlyDebt, DebtsAreCovered, Share
<1>6. ASSUME NEW r \in Rewards, AddRewardAsset(r) \/ RemoveRewardAsset(r)
      PROVE  IInv'
  BY <1>6 DEF AddRewardAsset, RemoveRewardAsset, IInv, Books, NoEarlyDebt, DebtsAreCovered, Share
<1>7. ASSUME NEW r \in Rewards, NEW n \in Deposits, DepositYield(r, n)
      PROVE  IInv'
  <2>1. n \in Nat /\ supply \in Nat \ {0} /\ acc[r] \in Nat
    BY <1>0, <1>7 DEF DepositYield, IInv, Books
  <2>2. n * PRECISION \in Nat
    BY <2>1
  <2>3. (n * PRECISION) \div supply \in Nat
    BY <2>1, <2>2, FloorTyped
  <2>4. acc' \in [Rewards -> Nat] /\ \A q \in Rewards : acc[q] <= acc'[q]
    BY <1>7, <2>1, <2>3 DEF DepositYield, IInv, Books
  <2>5. Books'
    BY <1>7, <2>4 DEF DepositYield, IInv, Books
  <2>6. NoEarlyDebt'
    <3> SUFFICES ASSUME NEW q \in Rewards, NEW w \in Wallets, acc'[q] = 0
                 PROVE  account'[q][w].debt = 0
      BY DEF NoEarlyDebt
    <3>1. acc[q] \in Nat /\ acc[q] <= acc'[q]
      BY <2>4 DEF IInv, Books
    <3>2. acc[q] = 0
      BY <3>1
    <3> QED BY <3>2, <1>7 DEF DepositYield, IInv, NoEarlyDebt
  <2>7. DebtsAreCovered'
    <3> SUFFICES ASSUME NEW q \in Rewards \ missed, NEW w \in Wallets
                 PROVE  account[q][w].debt <= (held[w] * acc'[q]) \div PRECISION
      BY <1>7 DEF DebtsAreCovered, Share, DepositYield
    <3>1. account[q][w].debt <= Share(q, held[w])
      BY DEF IInv, DebtsAreCovered
    <3>2. Share(q, held[w]) <= (held[w] * acc'[q]) \div PRECISION
      BY <2>4, ShareGrows DEF IInv, Books, Share
    <3>3. account[q][w].debt \in Nat /\ Share(q, held[w]) \in Nat
      BY ShareTyped DEF IInv, Books, Account
    <3>4. (held[w] * acc'[q]) \div PRECISION \in Nat
      <4>1. held[w] \in Nat /\ acc'[q] \in Nat
        BY <1>0, <2>4
      <4>2. held[w] * acc'[q] \in Nat
        BY <4>1
      <4> QED BY <4>2, FloorTyped
    <3> QED BY <3>1, <3>2, <3>3, <3>4
  <2> QED BY <2>5, <2>6, <2>7 DEF IInv
<1>8. ASSUME NEW w \in Wallets, NEW r \in Rewards, ClaimYield(w, r)
      PROVE  IInv'
  <2>1. account' = [q \in Rewards |-> IF q \in {r} THEN Claimed(q, w) ELSE account[q]]
    BY <1>8 DEF ClaimYield, IInv, Books
  <2> QED BY <1>8, <2>1, PayingStep DEF ClaimYield
<1>9. ASSUME NEW w \in Wallets, ClaimAllYield(w)
      PROVE  IInv'
  <2> DEFINE paying == {r \in isRewardAsset : Claimable(r, w) > 0}
  <2>1. paying \in SUBSET Rewards
    BY DEF IInv, Books
  <2>2. account' = [r \in Rewards |-> IF r \in paying THEN Claimed(r, w) ELSE account[r]]
    BY <1>9 DEF ClaimAllYield
  <2>3. UNCHANGED <<held, supply, isRewardAsset, acc, missed>>
    BY <1>9 DEF ClaimAllYield
  <2> HIDE DEF paying
  <2> QED BY <2>1, <2>2, <2>3, PayingStep
<1>10. CASE UNCHANGED vars
  BY <1>10 DEF vars, IInv, Books, NoEarlyDebt, DebtsAreCovered, Share
<1> QED
  BY <1>1, <1>2, <1>3, <1>4, <1>5, <1>6, <1>7, <1>8, <1>9, <1>10 DEF Next

-----------------------------------------------------------------------------
\* For any wallets, deposits and scale: as long as the module heard of every
\* move of units, no debt exceeds what the balance behind it has earned, so the
\* subtraction of a checkpoint never reverts the call that moves the units.
THEOREM DebtsStayCovered == Spec => []DebtsAreCovered
<1>1. Init => IInv
  BY InitIInv
<1>2. IInv /\ [Next]_vars => IInv'
  BY NextIInv
<1>3. IInv => DebtsAreCovered
  BY DEF IInv
<1> QED BY <1>1, <1>2, <1>3, PTL DEF Spec

-----------------------------------------------------------------------------
(* Types, and the supply as the sum of the balances: what a burn takes away *)
(* is part of the supply.                                                   *)

SupplyIsSum == supply = SumFunction(held)

TInv == TypeOK /\ SupplyIsSum

LEMMA TypesAreBooks == TypeOK => Books
<1>1. \A n \in 0..MaxSupply : n \in Int
  BY YieldAssumption
<1>2. \A n \in 0..MaxAcc : n \in Nat
  BY YieldAssumption
<1> QED BY <1>1, <1>2 DEF TypeOK, Books

\* What a claim pays, and what it leaves in the module.
LEMMA ClaimableTyped ==
    ASSUME Books, NEW r \in Rewards, NEW w \in Wallets
    PROVE  Claimable(r, w) \in Nat
<1>1. account[r][w].debt \in Nat /\ account[r][w].pending \in Nat /\ held[w] \in Nat
  BY DEF Books, Account
<1>2. Share(r, held[w]) \in Nat
  BY <1>1, ShareTyped DEF Books
<1> QED BY <1>1, <1>2 DEF Claimable

LEMMA InitTInv == Init => TInv
<1> SUFFICES ASSUME Init PROVE TInv
  OBVIOUS
<1>1. MaxSupply \in Nat /\ MaxAcc \in Nat /\ IsFiniteSet(Wallets)
  BY YieldAssumption
<1>2. account \in [Rewards -> [Wallets -> Account]]
  BY DEF Init, Account
<1>3. TypeOK
  BY <1>1, <1>2, 0 \in 0..MaxSupply, 0 \in 0..MaxAcc DEF Init, TypeOK
<1>4. SupplyIsSum
  BY <1>1, SumOfZeros DEF Init, SupplyIsSum
<1> QED BY <1>3, <1>4 DEF TInv

LEMMA NextTInv == TInv /\ [Next]_vars => TInv'
<1> SUFFICES ASSUME TInv, [Next]_vars
             PROVE  TInv'
  OBVIOUS
<1> USE YieldAssumption
<1>0. TypeOK /\ SupplyIsSum /\ Books
  BY TypesAreBooks DEF TInv
<1>T. held \in [Wallets -> Nat] /\ supply \in Nat /\ supply <= MaxSupply
  BY <1>0 DEF TypeOK
<1>H. ASSUME NEW from \in Wallets \cup {NoOne}, NEW to \in Wallets \cup {NoOne}, NEW n \in Nat,
             PluginAction(from, to, n), held' \in [Wallets -> Nat]
      PROVE  account' \in [Rewards -> [Wallets -> Account]]
  BY <1>0, <1>H, Checkpointed
<1>1. ASSUME NEW from \in Wallets, NEW to \in Wallets, NEW n \in Amounts, Transfer(from, to, n)
      PROVE  TInv'
  <2>1. n \in Nat /\ n <= held[from]
    BY <1>1 DEF Transfer
  <2>6. held' \in [Wallets -> Nat] /\ Carries(held, held', Wallets, from, to, n)
    BY <1>1, <1>T, <2>1 DEF Transfer, Carries
  <2>2. held' \in [Wallets -> Nat] /\ SumFunction(held') = SumFunction(held)
    BY <1>T, <2>1, <2>6, SumOfMove
  <2>3. account' \in [Rewards -> [Wallets -> Account]]
    BY <1>1, <1>H, <2>1, <2>2 DEF Transfer
  <2>4. missed' \subseteq Rewards
    BY <1>0, <1>1 DEF Transfer, Started, TypeOK
  <2>5. SupplyIsSum'
    BY <1>0, <1>1, <2>2 DEF Transfer, SupplyIsSum
  <2> QED BY <1>0, <1>1, <2>2, <2>3, <2>4, <2>5 DEF Transfer, TypeOK, TInv
<1>2. ASSUME NEW to \in Wallets, NEW n \in Amounts, Mint(to, n)
      PROVE  TInv'
  <2>1. n \in Nat /\ held[to] \in Nat /\ held' \in [Wallets -> Nat]
        /\ held'[to] = held[to] + n /\ \A w \in Wallets \ {to} : held'[w] = held[w]
    BY <1>2, <1>T DEF Mint
  <2>2. SumFunction(held') = SumFunction(held) - held[to] + held'[to] /\ SumFunction(held) \in Nat
    BY <1>T, <2>1, SumOfChange
  <2>3. account' \in [Rewards -> [Wallets -> Account]]
    BY <1>2, <1>H, <2>1, <2>2 DEF Mint
  <2>4. missed' \subseteq Rewards
    BY <1>0, <1>2 DEF Mint, Started, TypeOK
  <2>5. SupplyIsSum' /\ supply' \in 0..MaxSupply
    BY <1>0, <1>2, <1>T, <2>1, <2>2 DEF Mint, SupplyIsSum
  <2> QED BY <1>0, <1>2, <2>2, <2>3, <2>4, <2>5 DEF Mint, TypeOK, TInv
<1>3. ASSUME NEW from \in Wallets, NEW n \in Amounts, Burn(from, n)
      PROVE  TInv'
  <2>1. n \in Nat /\ n <= held[from] /\ held[from] \in Nat /\ held' \in [Wallets -> Nat]
        /\ held'[from] = held[from] - n /\ \A w \in Wallets \ {from} : held'[w] = held[w]
    BY <1>3, <1>T DEF Burn
  <2>2. /\ SumFunction(held') = SumFunction(held) - held[from] + held'[from]
        /\ SumFunction(held) \in Nat /\ held[from] <= SumFunction(held)
    BY <1>T, <2>1, SumOfChange
  <2>3. account' \in [Rewards -> [Wallets -> Account]]
    BY <1>3, <1>H, <2>1, <2>2 DEF Burn
  <2>4. missed' \subseteq Rewards
    BY <1>0, <1>3 DEF Burn, Started, TypeOK
  <2>5. SupplyIsSum' /\ supply' \in 0..MaxSupply
    BY <1>0, <1>3, <1>T, <2>1, <2>2 DEF Burn, SupplyIsSum
  <2> QED BY <1>0, <1>3, <2>2, <2>3, <2>4, <2>5 DEF Burn, TypeOK, TInv
<1>4. ASSUME NEW lost \in Wallets, NEW new \in Wallets, RecoverWallet(lost, new)
      PROVE  TInv'
  <2>1. held[lost] \in Nat /\ lost # new
    BY <1>4, <1>T DEF RecoverWallet
  <2>4. held' \in [Wallets -> Nat] /\ Carries(held, held', Wallets, lost, new, held[lost])
    BY <1>4, <1>T, <2>1 DEF RecoverWallet, Carries
  <2>2. held' \in [Wallets -> Nat] /\ SumFunction(held') = SumFunction(held)
    BY <1>T, <2>1, <2>4, SumOfMove
  <2>3. SupplyIsSum'
    BY <1>0, <1>4, <2>2 DEF RecoverWallet, SupplyIsSum
  <2> QED BY <1>0, <1>4, <2>2, <2>3 DEF RecoverWallet, Started, TypeOK, TInv
<1>5. ASSUME NEW in \in BOOLEAN, SetPlugged(in)
      PROVE  TInv'
  BY <1>0, <1>5 DEF SetPlugged, TypeOK, SupplyIsSum, TInv
<1>6. ASSUME NEW r \in Rewards, AddRewardAsset(r) \/ RemoveRewardAsset(r)
      PROVE  TInv'
  BY <1>0, <1>6 DEF AddRewardAsset, RemoveRewardAsset, TypeOK, SupplyIsSum, TInv
<1>7. ASSUME NEW r \in Rewards, NEW n \in Deposits, DepositYield(r, n)
      PROVE  TInv'
  <2>1. n \in Nat /\ supply \in Nat \ {0} /\ acc[r] \in Nat /\ n * PRECISION \in Nat
    BY <1>7, <1>T, <1>0 DEF DepositYield, TypeOK
  <2>2. acc[r] + (n * PRECISION) \div supply \in Nat
    BY <2>1, FloorTyped
  <2>3. acc' \in [Rewards -> 0..MaxAcc] /\ till' \in [Rewards -> Nat]
    BY <1>0, <1>7, <2>1, <2>2 DEF DepositYield, TypeOK
  <2> QED BY <1>0, <1>7, <2>3 DEF DepositYield, TypeOK, SupplyIsSum, TInv
<1>8. ASSUME NEW w \in Wallets, NEW paid \in SUBSET Rewards,
             account' = [r \in Rewards |-> IF r \in paid THEN Claimed(r, w) ELSE account[r]],
             till' = [r \in Rewards |-> IF r \in paid THEN till[r] - Claimable(r, w) ELSE till[r]],
             \A r \in paid : Claimable(r, w) <= till[r],
             UNCHANGED <<held, supply, plugged, isRewardAsset, acc, missed>>
      PROVE  TInv'
  <2>1. \A r \in paid : Claimable(r, w) \in Nat /\ till[r] \in Nat
    BY <1>0, ClaimableTyped DEF TypeOK
  <2>2. till' \in [Rewards -> Nat]
    BY <1>0, <1>8, <2>1 DEF TypeOK
  <2>3. ASSUME NEW r \in Rewards PROVE Claimed(r, w) \in [Wallets -> Account]
    <3>1. held[w] \in Nat /\ account[r] \in [Wallets -> Account] /\ acc \in [Rewards -> Nat]
      BY <1>0 DEF Books
    <3>2. [debt |-> Share(r, held[w]), pending |-> 0] \in Account
      BY <3>1, ShareTyped DEF Account
    <3> QED BY <3>1, <3>2 DEF Claimed
  <2>4. account' \in [Rewards -> [Wallets -> Account]]
    BY <1>0, <1>8, <2>3 DEF TypeOK
  <2> QED BY <1>0, <1>8, <2>2, <2>4 DEF TypeOK, SupplyIsSum, TInv
<1>9. ASSUME NEW w \in Wallets, NEW r \in Rewards, ClaimYield(w, r)
      PROVE  TInv'
  <2>1. /\ account' = [q \in Rewards |-> IF q \in {r} THEN Claimed(q, w) ELSE account[q]]
        /\ till' = [q \in Rewards |-> IF q \in {r} THEN till[q] - Claimable(q, w) ELSE till[q]]
        /\ \A q \in {r} : Claimable(q, w) <= till[q]
        /\ UNCHANGED <<held, supply, plugged, isRewardAsset, acc, missed>>
    BY <1>0, <1>9 DEF ClaimYield, TypeOK
  <2>2. {r} \in SUBSET Rewards
    OBVIOUS
  <2> QED BY <2>1, <2>2, <1>8
<1>10. ASSUME NEW w \in Wallets, ClaimAllYield(w)
      PROVE  TInv'
  <2> DEFINE paying == {r \in isRewardAsset : Claimable(r, w) > 0}
  <2>1. /\ paying \in SUBSET Rewards
        /\ account' = [r \in Rewards |-> IF r \in paying THEN Claimed(r, w) ELSE account[r]]
        /\ till' = [r \in Rewards |-> IF r \in paying THEN till[r] - Claimable(r, w) ELSE till[r]]
        /\ \A r \in paying : Claimable(r, w) <= till[r]
        /\ UNCHANGED <<held, supply, plugged, isRewardAsset, acc, missed>>
    BY <1>0, <1>10 DEF ClaimAllYield, TypeOK
  <2> HIDE DEF paying
  <2> QED BY <2>1, <1>8
<1>11. CASE UNCHANGED vars
  BY <1>0, <1>11 DEF vars, TypeOK, SupplyIsSum, TInv
<1> QED
  BY <1>1, <1>2, <1>3, <1>4, <1>5, <1>6, <1>7, <1>9, <1>10, <1>11 DEF Next

\* No sequence of calls brings a balance, what a burn leaves of the supply, an
\* account, or what the module holds below zero, and none of them leaves its type.
THEOREM TypeCorrect == Spec => []TypeOK
<1>1. Init => TInv
  BY InitTInv
<1>2. TInv /\ [Next]_vars => TInv'
  BY NextTInv
<1>3. TInv => TypeOK
  BY DEF TInv
<1> QED BY <1>1, <1>2, <1>3, PTL DEF Spec

-----------------------------------------------------------------------------
(* What is due, where every deposit divides evenly among the units there    *)
(* are: only then is a share what was deposited for the units, unrounded.   *)

EvenDeposit == \A r \in Rewards, n \in Deposits : DepositYield(r, n) => n % supply = 0

\* What one unit has earned.
Rate(r) == acc[r] \div PRECISION

EvenRates == \A r \in Rewards : Rate(r) \in Nat /\ acc[r] = Rate(r) * PRECISION

\* What a step does to what is due for one reward asset: nothing, a deposit that
\* gives each unit the same, or a payment of all that is due to one wallet.
KeepsDue(r) ==
    /\ till'[r] = till[r]
    /\ \A w \in Wallets : Claimable(r, w)' = Claimable(r, w)

Splits(r, q) ==
    /\ till'[r] = till[r] + supply * q
    /\ UNCHANGED held
    /\ \A w \in Wallets : Claimable(r, w)' = Claimable(r, w) + held[w] * q

Pays(r, w) ==
    /\ Claimable(r, w) > 0
    /\ till'[r] = till[r] - Claimable(r, w)
    /\ UNCHANGED held
    /\ Claimable(r, w)' = 0
    /\ \A v \in Wallets \ {w} : Claimable(r, v)' = Claimable(r, v)

Effect(r) ==
    \/ KeepsDue(r)
    \/ \E q \in Nat \ {0} : supply > 0 /\ Splits(r, q)
    \/ \E w \in Wallets : Pays(r, w)

LEMMA DivideExactly ==
    ASSUME NEW a \in Nat, NEW s \in Nat \ {0}
    PROVE  (a * s) \div s = a
  OBVIOUS

LEMMA EvenQuotient ==
    ASSUME NEW n \in Nat \ {0}, NEW s \in Nat \ {0}, n % s = 0
    PROVE  n \div s \in Nat \ {0} /\ n = s * (n \div s)
  OBVIOUS

LEMMA Reassociate ==
    ASSUME NEW a \in Nat, NEW b \in Nat, NEW c \in Nat
    PROVE  /\ a * b \in Nat /\ (a * b) * c = a * (b * c) /\ (a * b) * c = (a * c) * b
           /\ (a + b) * c = a * c + b * c /\ a * (b + c) = a * b + a * c
  OBVIOUS

\* A share without a remainder.
LEMMA ShareIsProduct ==
    ASSUME NEW q \in Nat, NEW h \in Nat
    PROVE  (h * (q * PRECISION)) \div PRECISION = h * q
<1>1. PRECISION \in Nat \ {0}
  BY YieldAssumption
<1>2. h * q \in Nat /\ h * (q * PRECISION) = (h * q) * PRECISION
  BY <1>1, Reassociate
<1> QED BY <1>1, <1>2, DivideExactly

LEMMA DueIs ==
    ASSUME Books, DebtsAreCovered, NEW r \in Rewards \ missed, NEW w \in Wallets
    PROVE  Claimable(r, w) = Share(r, held[w]) - account[r][w].debt + account[r][w].pending
<1>1. account[r][w].debt \in Nat /\ account[r][w].pending \in Nat /\ held[w] \in Nat
  BY DEF Books, Account
<1>2. Share(r, held[w]) \in Nat
  BY <1>1, ShareTyped DEF Books
<1>3. Share(r, held[w]) >= account[r][w].debt
  BY <1>1, <1>2 DEF DebtsAreCovered
<1> QED BY <1>1, <1>2, <1>3 DEF Claimable

\* What a checkpoint credits.
LEMMA CheckpointCredits ==
    ASSUME acc \in [Rewards -> Nat], NEW r \in Rewards, NEW a \in Account,
           NEW before \in Nat, NEW after \in Nat, a.debt <= Share(r, before)
    PROVE  Crystallized(a, r, before, after) =
              [debt |-> Share(r, after), pending |-> a.pending + Share(r, before) - a.debt]
<1>1. a.debt \in Nat /\ a.pending \in Nat /\ Share(r, before) \in Nat
  BY ShareTyped DEF Account
<1>2. before = 0 => Share(r, before) = 0
  <2>1. 0 * acc[r] = 0 /\ PRECISION \in Nat \ {0}
    BY YieldAssumption
  <2> QED BY <2>1, FloorTyped DEF Share
<1>3. before = 0 => a.debt = 0 /\ a.pending = a.pending + Share(r, before) - a.debt
  BY <1>1, <1>2
<1> QED BY <1>1, <1>3 DEF Crystallized

\* The hook works with the balances there were before the call, or with balances
\* that had earned nothing.
HeardOf(r, from, to, n) ==
    \/ acc[r] = 0 /\ \A w \in Wallets : account[r][w].debt = 0
    \/ /\ from # to
       /\ from # NoOne => held'[from] + n = held[from]
       /\ to # NoOne => BalanceBefore(to, n) = held[to]

\* A hook credits the wallets of the call with what they had earned.
LEMMA HookCredits ==
    ASSUME Books, held' \in [Wallets -> Nat], NEW r \in Hooked,
           NEW from \in Wallets \cup {NoOne}, NEW to \in Wallets \cup {NoOne},
           NEW n \in Nat, PluginAction(from, to, n), HeardOf(r, from, to, n),
           \A w \in Wallets : account[r][w].debt <= Share(r, held[w]),
           NEW w \in Wallets
    PROVE  account'[r][w].pending =
              IF w \in {from, to} THEN account[r][w].pending + Share(r, held[w]) - account[r][w].debt
              ELSE account[r][w].pending
<1> USE YieldAssumption
<1>1. /\ r \in Rewards /\ acc \in [Rewards -> Nat] /\ account[r] \in [Wallets -> Account]
      /\ held \in [Wallets -> Nat] /\ account \in [Rewards -> [Wallets -> Account]]
  BY DEF Hooked, Books
<1>2. account'[r] = BothSettled(r, from, to, n)
  BY <1>1 DEF PluginAction
<1>3. \A v \in Wallets : /\ account[r][v] \in Account /\ account[r][v].debt \in Nat
                         /\ account[r][v].pending \in Nat /\ Share(r, held[v]) \in Nat
  BY <1>1, ShareTyped DEF Account
<1>4. CASE acc[r] = 0 /\ \A v \in Wallets : account[r][v].debt = 0
  <2>1. \A h \in Nat : Share(r, h) = 0
    BY <1>1, <1>4, ShareTyped
  <2> DEFINE settled == SenderSettled(r, from, n)
  <2>2. settled \in [Wallets -> Account] /\ \A v \in Wallets :
           settled[v].debt = 0 /\ settled[v].pending = account[r][v].pending
    <3>1. CASE from = NoOne
      BY <1>1, <1>4, <3>1 DEF SenderSettled
    <3>2. CASE from # NoOne
      <4>1. from \in Wallets /\ held'[from] \in Nat /\ held'[from] + n \in Nat
        BY <3>2
      <4>2. Crystallized(account[r][from], r, held'[from] + n, held'[from]) =
              [debt |-> 0, pending |-> account[r][from].pending]
        <5>1. account[r][from].debt <= Share(r, held'[from] + n)
          BY <1>4, <2>1, <4>1
        <5>2. Crystallized(account[r][from], r, held'[from] + n, held'[from]) =
                [debt |-> Share(r, held'[from]),
                 pending |-> account[r][from].pending + Share(r, held'[from] + n) - account[r][from].debt]
          BY <1>1, <1>3, <4>1, <5>1, CheckpointCredits
        <5>3. account[r][from].pending + 0 - 0 = account[r][from].pending
          BY <1>3, <4>1
        <5> QED BY <1>4, <2>1, <4>1, <5>2, <5>3
      <4>3. [debt |-> 0, pending |-> account[r][from].pending] \in Account
        BY <1>3, <4>1 DEF Account
      <4> QED BY <1>1, <1>4, <3>2, <4>1, <4>2, <4>3 DEF SenderSettled
    <3> QED BY <3>1, <3>2
  <2>3. CASE to = NoOne
    <3>1. account'[r][w].pending = account[r][w].pending
      BY <1>2, <2>2, <2>3 DEF BothSettled
    <3> QED BY <1>1, <1>3, <1>4, <2>1, <3>1
  <2>4. CASE to # NoOne
    <3>1. to \in Wallets /\ held'[to] \in Nat /\ BalanceBefore(to, n) \in Nat
      BY <2>4 DEF BalanceBefore
    <3>2. account'[r] = [settled EXCEPT ![to] = Crystallized(settled[to], r, BalanceBefore(to, n), held'[to])]
      BY <1>2, <2>4 DEF BothSettled
    <3> HIDE DEF settled
    <3>3. settled[to].debt <= Share(r, BalanceBefore(to, n)) /\ settled[to] \in Account
      BY <2>1, <2>2, <3>1
    <3>4. Crystallized(settled[to], r, BalanceBefore(to, n), held'[to]) =
            [debt |-> Share(r, held'[to]),
             pending |-> settled[to].pending + Share(r, BalanceBefore(to, n)) - settled[to].debt]
      BY <1>1, <3>1, <3>3, CheckpointCredits
    <3>5. settled[to].pending + 0 - 0 = account[r][to].pending
      BY <1>3, <2>2, <3>1
    <3>6. Crystallized(settled[to], r, BalanceBefore(to, n), held'[to]).pending = account[r][to].pending
      BY <2>1, <2>2, <3>1, <3>4, <3>5
    <3>7. account'[r][w].pending = account[r][w].pending
      BY <2>2, <3>1, <3>2, <3>6
    <3> QED BY <1>3, <1>4, <2>1, <3>7, <1>1
  <2> QED BY <2>3, <2>4
<1>5. CASE /\ from # to
           /\ from # NoOne => held'[from] + n = held[from]
           /\ to # NoOne => BalanceBefore(to, n) = held[to]
  <2> DEFINE Credited(v) == account[r][v].pending + Share(r, held[v]) - account[r][v].debt
             settled == SenderSettled(r, from, n)
  <2>1. ASSUME NEW v \in Wallets
        PROVE  Crystallized(account[r][v], r, held[v], held'[v]).pending = Credited(v)
    <3>1. held[v] \in Nat /\ held'[v] \in Nat /\ account[r][v] \in Account
      BY <1>1
    <3>2. Crystallized(account[r][v], r, held[v], held'[v]) =
            [debt |-> Share(r, held'[v]), pending |-> Credited(v)]
      BY <1>1, <3>1, CheckpointCredits
    <3> QED BY <3>2
  <2>2. /\ DOMAIN settled = Wallets
        /\ \A v \in Wallets \ {from} : settled[v] = account[r][v]
        /\ from # NoOne => settled[from] = Crystallized(account[r][from], r, held[from], held'[from])
    BY <1>1, <1>5 DEF SenderSettled
  <2>3. /\ \A v \in Wallets \ {to} : account'[r][v] = settled[v]
        /\ to # NoOne => account'[r][to] = Crystallized(settled[to], r, held[to], held'[to])
    BY <1>2, <1>5, <2>2 DEF BothSettled
  <2> HIDE DEF settled
  <2>4. CASE w = from
    BY <1>5, <2>1, <2>2, <2>3, <2>4
  <2>5. CASE w = to
    BY <1>5, <2>1, <2>2, <2>3, <2>5
  <2>6. CASE w \notin {from, to}
    BY <2>2, <2>3, <2>6
  <2> QED BY <2>4, <2>5, <2>6
<1> QED BY <1>4, <1>5 DEF HeardOf

-----------------------------------------------------------------------------
(* The invariant of what is due, and the effect of each call *)

EInv == TInv /\ IInv /\ EvenRates

\* For balances after a step too.
LEMMA DueNext ==
    ASSUME Books', DebtsAreCovered', NEW r \in Rewards \ missed', NEW w \in Wallets, acc' = acc,
           acc \in [Rewards -> Nat]
    PROVE  Claimable(r, w)' = Share(r, held'[w]) - account'[r][w].debt + account'[r][w].pending
<1>1. account'[r][w].debt \in Nat /\ account'[r][w].pending \in Nat /\ held'[w] \in Nat
  BY DEF Books, Account
<1>2. Share(r, held'[w]) \in Nat /\ Share(r, held'[w]) = Share(r, held[w])'
  BY <1>1, ShareTyped DEF Share
<1>3. Share(r, held'[w]) >= account'[r][w].debt
  BY <1>1, <1>2 DEF DebtsAreCovered
<1> QED BY <1>1, <1>2, <1>3 DEF Claimable

\* Units that are moved and of which the module hears take nothing from anybody.
LEMMA MoveKeepsDue ==
    ASSUME IInv, IInv', held' \in [Wallets -> Nat],
           NEW from \in Wallets \cup {NoOne}, NEW to \in Wallets \cup {NoOne}, NEW n \in Nat,
           PluginAction(from, to, n),
           \A w \in Wallets \ {from, to} : held'[w] = held[w],
           UNCHANGED <<isRewardAsset, acc, till>>,
           NEW r \in Rewards \ missed', missed \cup (Started \ Hooked) \subseteq missed',
           HeardOf(r, from, to, n)
    PROVE  KeepsDue(r)
<1> SUFFICES ASSUME NEW w \in Wallets PROVE Claimable(r, w)' = Claimable(r, w)
  BY DEF KeepsDue
<1>1. Books /\ Books' /\ DebtsAreCovered /\ DebtsAreCovered' /\ r \in Rewards \ missed
  BY DEF IInv
<1>2. acc \in [Rewards -> Nat] /\ account[r][w].debt \in Nat /\ account[r][w].pending \in Nat
      /\ held[w] \in Nat /\ held'[w] \in Nat
  BY <1>1 DEF Books, Account
<1>3. /\ Claimable(r, w) = Share(r, held[w]) - account[r][w].debt + account[r][w].pending
      /\ Claimable(r, w)' = Share(r, held'[w]) - account'[r][w].debt + account'[r][w].pending
  BY <1>1, <1>2, DueIs, DueNext
<1>4. Share(r, held[w]) \in Nat /\ Share(r, held'[w]) \in Nat
  BY <1>2, ShareTyped
<1>5. CASE r \in Hooked
  <2>1. account'[r][w].debt =
           IF w \in {from, to} THEN Share(r, held'[w]) ELSE account[r][w].debt
    BY <1>1, <1>5, Checkpointed
  <2>2. account'[r][w].pending =
           IF w \in {from, to} THEN account[r][w].pending + Share(r, held[w]) - account[r][w].debt
           ELSE account[r][w].pending
    <3>1. \A v \in Wallets : account[r][v].debt <= Share(r, held[v])
      BY <1>1 DEF DebtsAreCovered
    <3> QED BY <1>1, <1>5, <3>1, HookCredits
  <2>3. w \notin {from, to} => Share(r, held'[w]) = Share(r, held[w])
    OBVIOUS
  <2>4. CASE w \in {from, to}
    BY <1>2, <1>3, <1>4, <2>1, <2>2, <2>4
  <2>5. CASE w \notin {from, to}
    BY <1>2, <1>3, <1>4, <2>1, <2>2, <2>3, <2>5
  <2> QED BY <2>4, <2>5
<1>6. CASE r \notin Hooked
  <2>1. acc[r] = 0
    <3>1. acc[r] \in Nat /\ ~(acc[r] > 0)
      BY <1>2, <1>6 DEF Started
    <3> QED BY <3>1
  <2>2. account'[r] = account[r]
    BY <1>1, <1>6, Checkpointed
  <2>3. Share(r, held[w]) = 0 /\ Share(r, held'[w]) = 0
    BY <1>2, <2>1, ShareTyped
  <2> QED BY <1>3, <2>2, <2>3
<1> QED BY <1>5, <1>6

\* Where nothing was deposited nothing is due for units.
LEMMA UnstartedKeepsDue ==
    ASSUME Books, NoEarlyDebt, held' \in [Wallets -> Nat], NEW r \in Rewards, acc[r] = 0,
           UNCHANGED <<acc, account, till>>
    PROVE  KeepsDue(r)
<1> SUFFICES ASSUME NEW w \in Wallets PROVE Claimable(r, w)' = Claimable(r, w)
  BY DEF KeepsDue
<1>1. acc \in [Rewards -> Nat] /\ held[w] \in Nat /\ held'[w] \in Nat
  BY DEF Books
<1>2. Share(r, held[w]) = 0 /\ Share(r, held'[w]) = 0 /\ Share(r, held'[w]) = Share(r, held[w])'
  BY <1>1, ShareTyped DEF Share
<1> QED BY <1>2 DEF Claimable

\* Claims leave what is due to the others.
LEMMA ClaimPays ==
    ASSUME Books, NEW paid \in SUBSET Rewards, NEW w \in Wallets,
           account' = [r \in Rewards |-> IF r \in paid THEN Claimed(r, w) ELSE account[r]],
           till' = [r \in Rewards |-> IF r \in paid THEN till[r] - Claimable(r, w) ELSE till[r]],
           \A r \in paid : Claimable(r, w) > 0,
           UNCHANGED <<held, acc>>,
           NEW r \in Rewards
    PROVE  KeepsDue(r) \/ Pays(r, w)
<1>1. ASSUME NEW v \in Wallets PROVE Share(r, held[v])' = Share(r, held[v])
  BY DEF Share
<1>2. acc \in [Rewards -> Nat] /\ held \in [Wallets -> Nat] /\ account[r] \in [Wallets -> Account]
  BY DEF Books
<1>3. CASE r \notin paid
  <2>1. account'[r] = account[r] /\ till'[r] = till[r]
    BY <1>3
  <2>2. \A v \in Wallets : Claimable(r, v)' = Claimable(r, v)
    BY <1>1, <2>1 DEF Claimable
  <2> QED BY <2>1, <2>2 DEF KeepsDue
<1>4. CASE r \in paid
  <2>1. account'[r] = Claimed(r, w) /\ till'[r] = till[r] - Claimable(r, w) /\ Claimable(r, w) > 0
    BY <1>4
  <2>2. account'[r][w] = [debt |-> Share(r, held[w]), pending |-> 0]
        /\ \A v \in Wallets \ {w} : account'[r][v] = account[r][v]
    BY <1>2, <2>1 DEF Claimed
  <2>3. \A v \in Wallets \ {w} : Claimable(r, v)' = Claimable(r, v)
    BY <1>1, <2>2 DEF Claimable
  <2>4. Claimable(r, w)' = 0
    <3>1. Share(r, held[w]) \in Nat
      BY <1>2, ShareTyped
    <3> QED BY <1>1, <2>2, <3>1 DEF Claimable
  <2> QED BY <2>1, <2>3, <2>4 DEF Pays
<1> QED BY <1>3, <1>4

\* An even deposit raises the rate by what it gives to each unit.
LEMMA DepositRaisesRate ==
    ASSUME Books, EvenRates, NEW r \in Rewards, NEW n \in Deposits,
           DepositYield(r, n), n % supply = 0
    PROVE  \E q \in Nat \ {0} :
              /\ n = supply * q
              /\ acc'[r] = (Rate(r) + q) * PRECISION
              /\ \A p \in Rewards \ {r} : acc'[p] = acc[p]
              /\ EvenRates'
<1> USE YieldAssumption
<1>1. n \in Nat \ {0} /\ supply \in Nat \ {0} /\ PRECISION \in Nat \ {0}
  BY DEF DepositYield, Books
<1>2. PICK q \in Nat \ {0} : n = supply * q
  <2>1. n \div supply \in Nat \ {0} /\ n = supply * (n \div supply)
    BY <1>1, EvenQuotient
  <2> QED BY <2>1
<1>3. n * PRECISION = (q * PRECISION) * supply /\ q * PRECISION \in Nat
  <2>1. q * supply = supply * q
    BY <1>1
  <2>2. (q * supply) * PRECISION = (q * PRECISION) * supply /\ q * PRECISION \in Nat
    BY <1>1, Reassociate
  <2> QED BY <1>2, <2>1, <2>2
<1>4. (n * PRECISION) \div supply = q * PRECISION
  BY <1>1, <1>3, DivideExactly
<1>5. Rate(r) \in Nat /\ acc[r] = Rate(r) * PRECISION
  BY DEF EvenRates
<1>6. acc'[r] = acc[r] + q * PRECISION /\ \A p \in Rewards \ {r} : acc'[p] = acc[p]
  BY <1>4 DEF DepositYield, Books
<1>7. acc'[r] = (Rate(r) + q) * PRECISION
  BY <1>1, <1>5, <1>6, Reassociate
<1>8. Rate(r)' = Rate(r) + q
  <2>1. Rate(r) + q \in Nat
    BY <1>5
  <2>2. ((Rate(r) + q) * PRECISION) \div PRECISION = Rate(r) + q
    BY <1>1, <2>1, DivideExactly
  <2>3. Rate(r)' = acc'[r] \div PRECISION
    BY DEF Rate
  <2> QED BY <1>7, <2>2, <2>3
<1>9. EvenRates'
  <2> SUFFICES ASSUME NEW p \in Rewards
               PROVE  Rate(p)' \in Nat /\ acc'[p] = Rate(p)' * PRECISION
    BY DEF EvenRates
  <2>1. CASE p = r
    BY <1>5, <1>7, <1>8, <2>1
  <2>2. CASE p # r
    <3>1. acc'[p] = acc[p]
      BY <1>6, <2>2
    <3>2. Rate(p)' = Rate(p)
      BY <3>1 DEF Rate
    <3> QED BY <3>1, <3>2 DEF EvenRates
  <2> QED BY <2>1, <2>2
<1> QED BY <1>2, <1>6, <1>7, <1>9

LEMMA DepositSplits ==
    ASSUME Books, EvenRates, DebtsAreCovered, NEW r \in Rewards, NEW n \in Deposits,
           DepositYield(r, n), n % supply = 0, till \in [Rewards -> Nat],
           NEW p \in Rewards \ missed
    PROVE  Effect(p)
<1>1. PICK q \in Nat \ {0} : /\ n = supply * q
                            /\ acc'[r] = (Rate(r) + q) * PRECISION
                            /\ \A u \in Rewards \ {r} : acc'[u] = acc[u]
  BY DepositRaisesRate
<1>2. held' = held /\ account' = account /\ supply > 0
      /\ till'[r] = till[r] + n /\ \A u \in Rewards \ {r} : till'[u] = till[u]
  BY DEF DepositYield
<1>3. ASSUME NEW w \in Wallets PROVE Share(p, held[w])' = (held[w] * acc'[p]) \div PRECISION
  BY <1>2 DEF Share
<1>4. CASE p # r
  <2>1. acc'[p] = acc[p] /\ till'[p] = till[p]
    BY <1>1, <1>2, <1>4
  <2>2. ASSUME NEW w \in Wallets PROVE Claimable(p, w)' = Claimable(p, w)
    <3>1. Share(p, held[w])' = Share(p, held[w])
      BY <1>3, <2>1 DEF Share
    <3> QED BY <1>2, <3>1 DEF Claimable
  <2> QED BY <2>1, <2>2 DEF KeepsDue, Effect
<1>5. CASE p = r
  <2>1. ASSUME NEW w \in Wallets PROVE Claimable(r, w)' = Claimable(r, w) + held[w] * q
    <3>1. Rate(r) \in Nat /\ acc[r] = Rate(r) * PRECISION /\ held[w] \in Nat
      BY DEF EvenRates, Books
    <3>2. Share(r, held[w]) = held[w] * Rate(r)
      BY <3>1, ShareIsProduct DEF Share
    <3>3. Share(r, held[w])' = held[w] * (Rate(r) + q)
      <4>1. Rate(r) + q \in Nat
        BY <3>1
      <4>2. (held[w] * ((Rate(r) + q) * PRECISION)) \div PRECISION = held[w] * (Rate(r) + q)
        BY <3>1, <4>1, ShareIsProduct
      <4> QED BY <1>1, <1>3, <1>5, <4>2
    <3>4. held[w] * (Rate(r) + q) = held[w] * Rate(r) + held[w] * q
          /\ held[w] * q \in Nat /\ held[w] * Rate(r) \in Nat
      BY <3>1, Reassociate
    <3>5. Claimable(r, w) = Share(r, held[w]) - account[r][w].debt + account[r][w].pending
      BY <1>5, DueIs
    <3>6. account[r][w].debt \in Nat /\ account[r][w].pending \in Nat
          /\ account[r][w].debt <= Share(r, held[w])
      BY <1>5 DEF Books, Account, DebtsAreCovered
    <3>7. Share(r, held[w])' >= account[r][w].debt
      BY <3>2, <3>3, <3>4, <3>6
    <3>8. Claimable(r, w)' = Share(r, held[w])' - account[r][w].debt + account[r][w].pending
      BY <1>2, <3>7 DEF Claimable
    <3> QED BY <3>2, <3>3, <3>4, <3>5, <3>6, <3>8
  <2>2. Splits(r, q)
    BY <1>1, <1>2, <2>1 DEF Splits
  <2> QED BY <1>2, <1>5, <2>2 DEF Effect
<1> QED BY <1>4, <1>5

LEMMA NextEInv == EInv /\ [Next]_vars /\ [EvenDeposit]_vars => EInv'
<1> SUFFICES ASSUME EInv, [Next]_vars, [EvenDeposit]_vars
             PROVE  EvenRates'
  BY NextTInv, NextIInv DEF EInv
<1> USE YieldAssumption
<1>1. CASE acc' = acc
  BY <1>1 DEF EInv, EvenRates, Rate
<1>2. ASSUME NEW r \in Rewards, NEW n \in Deposits, DepositYield(r, n)
      PROVE  EvenRates'
  <2>1. n % supply = 0
    <3>1. till' # till
      <4>1. n > 0 /\ till[r] \in Nat
        BY DEF EInv, TInv, TypeOK
      <4> QED BY <1>2, <4>1 DEF DepositYield, EInv, TInv, TypeOK
    <3> QED BY <1>2, <3>1 DEF EvenDeposit, vars
  <2> QED BY <1>2, <2>1, DepositRaisesRate DEF EInv, IInv
<1>3. \/ acc' = acc
      \/ \E r \in Rewards, n \in Deposits : DepositYield(r, n)
  BY DEF Next, vars, Transfer, Mint, Burn, RecoverWallet, SetPlugged, AddRewardAsset,
         RemoveRewardAsset, ClaimYield, ClaimAllYield
<1> QED BY <1>1, <1>2, <1>3

LEMMA InitEInv == Init => EInv
<1> SUFFICES ASSUME Init PROVE EvenRates
  BY InitTInv, InitIInv DEF EInv
<1>1. 0 \div PRECISION = 0 /\ 0 * PRECISION = 0
  BY FloorTyped, YieldAssumption
<1> QED BY <1>1 DEF Init, EvenRates, Rate

\* The effect of every call, for each reward asset of which no move was missed.
LEMMA EveryEffect ==
    ASSUME EInv, EInv', [Next]_vars, [EvenDeposit]_vars, NEW r \in Rewards \ missed'
    PROVE  Effect(r)
<1> USE YieldAssumption
<1>0. /\ TypeOK /\ Books /\ Books' /\ IInv /\ IInv' /\ NoEarlyDebt /\ DebtsAreCovered /\ EvenRates
      /\ held \in [Wallets -> Nat] /\ held' \in [Wallets -> Nat]
  BY DEF EInv, TInv, IInv, Books
<1>N. acc \in [Rewards -> Nat] /\ till \in [Rewards -> Nat] /\ acc[r] \in Nat
  BY <1>0 DEF Books, TypeOK
<1>E. ASSUME acc[r] = 0 PROVE \A w \in Wallets : account[r][w].debt = 0
  BY <1>0, <1>E DEF NoEarlyDebt
<1>1. ASSUME NEW from \in Wallets, NEW to \in Wallets, NEW n \in Amounts, Transfer(from, to, n)
      PROVE  Effect(r)
  <2>1. n \in Nat /\ held[from] \in Nat /\ held[to] \in Nat /\ n <= held[from]
    BY <1>0, <1>1 DEF Transfer
  <2>2. \A w \in Wallets \ {from, to} : held'[w] = held[w]
    BY <1>0, <1>1, <2>1 DEF Transfer
  <2>3. missed \cup (Started \ Hooked) \subseteq missed' /\ UNCHANGED <<isRewardAsset, acc, till>>
        /\ PluginAction(from, to, n)
    BY <1>1 DEF Transfer
  <2>4. HeardOf(r, from, to, n)
    <3>1. CASE from = to
      <4>1. r \notin Started
        BY <1>1, <3>1 DEF Transfer
      <4>2. acc[r] = 0
        BY <1>N, <4>1 DEF Started
      <4> QED BY <1>E, <4>2 DEF HeardOf
    <3>2. CASE from # to
      <4>1. held'[from] = held[from] - n /\ held'[to] = held[to] + n
        BY <1>0, <1>1, <2>1, <3>2 DEF Transfer
      <4>2. held'[from] + n = held[from] /\ BalanceBefore(to, n) = held[to]
        BY <2>1, <4>1 DEF BalanceBefore
      <4> QED BY <3>2, <4>2 DEF HeardOf
    <3> QED BY <3>1, <3>2
  <2> QED BY <1>0, <2>1, <2>2, <2>3, <2>4, MoveKeepsDue DEF Effect
<1>2. ASSUME NEW to \in Wallets, NEW n \in Amounts, Mint(to, n)
      PROVE  Effect(r)
  <2>1. n \in Nat /\ held[to] \in Nat /\ held'[to] = held[to] + n
        /\ \A w \in Wallets \ {NoOne, to} : held'[w] = held[w]
    BY <1>0, <1>2 DEF Mint
  <2>2. missed \cup (Started \ Hooked) \subseteq missed' /\ UNCHANGED <<isRewardAsset, acc, till>>
        /\ PluginAction(NoOne, to, n)
    BY <1>2 DEF Mint
  <2>3. HeardOf(r, NoOne, to, n)
    BY <2>1 DEF HeardOf, BalanceBefore
  <2> QED BY <1>0, <2>1, <2>2, <2>3, MoveKeepsDue DEF Effect
<1>3. ASSUME NEW from \in Wallets, NEW n \in Amounts, Burn(from, n)
      PROVE  Effect(r)
  <2>1. n \in Nat /\ held[from] \in Nat /\ held'[from] = held[from] - n
        /\ \A w \in Wallets \ {from, NoOne} : held'[w] = held[w]
    BY <1>0, <1>3 DEF Burn
  <2>2. missed \cup (Started \ Hooked) \subseteq missed' /\ UNCHANGED <<isRewardAsset, acc, till>>
        /\ PluginAction(from, NoOne, n)
    BY <1>3 DEF Burn
  <2>3. HeardOf(r, from, NoOne, n)
    BY <2>1 DEF HeardOf, BalanceBefore
  <2> QED BY <1>0, <2>1, <2>2, <2>3, MoveKeepsDue DEF Effect
<1>4. ASSUME NEW lost \in Wallets, NEW new \in Wallets, RecoverWallet(lost, new)
      PROVE  Effect(r)
  <2>1. acc[r] = 0
    BY <1>4, <1>N DEF RecoverWallet, Started
  <2> QED BY <1>0, <1>4, <2>1, UnstartedKeepsDue DEF RecoverWallet, Effect
<1>5. ASSUME UNCHANGED <<held, acc, account, till>>
      PROVE  Effect(r)
  BY <1>5 DEF Effect, KeepsDue, Claimable, Share
<1>6. ASSUME NEW p \in Rewards, NEW n \in Deposits, DepositYield(p, n)
      PROVE  Effect(r)
  <2>1. n % supply = 0
    <3>1. till' # till
      <4>1. n > 0 /\ till[p] \in Nat
        BY <1>N
      <4> QED BY <1>6, <1>N, <4>1 DEF DepositYield
    <3> QED BY <1>6, <3>1 DEF EvenDeposit, vars
  <2>2. r \in Rewards \ missed
    BY <1>6 DEF DepositYield
  <2> QED BY <1>0, <1>N, <1>6, <2>1, <2>2, DepositSplits
<1>7. ASSUME NEW w \in Wallets, NEW p \in Rewards, ClaimYield(w, p)
      PROVE  Effect(r)
  <2>1. /\ account' = [q \in Rewards |-> IF q \in {p} THEN Claimed(q, w) ELSE account[q]]
        /\ till' = [q \in Rewards |-> IF q \in {p} THEN till[q] - Claimable(q, w) ELSE till[q]]
        /\ \A q \in {p} : Claimable(q, w) > 0
        /\ UNCHANGED <<held, acc>>
        /\ {p} \in SUBSET Rewards
    BY <1>0, <1>7 DEF ClaimYield, TypeOK
  <2> QED BY <1>0, <2>1, ClaimPays DEF Effect
<1>8. ASSUME NEW w \in Wallets, ClaimAllYield(w)
      PROVE  Effect(r)
  <2> DEFINE paying == {q \in isRewardAsset : Claimable(q, w) > 0}
  <2>1. /\ account' = [q \in Rewards |-> IF q \in paying THEN Claimed(q, w) ELSE account[q]]
        /\ till' = [q \in Rewards |-> IF q \in paying THEN till[q] - Claimable(q, w) ELSE till[q]]
        /\ \A q \in paying : Claimable(q, w) > 0
        /\ UNCHANGED <<held, acc>>
        /\ paying \in SUBSET Rewards
    BY <1>0, <1>8 DEF ClaimAllYield, TypeOK
  <2> HIDE DEF paying
  <2> QED BY <1>0, <2>1, ClaimPays DEF Effect
<1> QED
  BY <1>1, <1>2, <1>3, <1>4, <1>5, <1>6, <1>7, <1>8
     DEF Next, vars, SetPlugged, AddRewardAsset, RemoveRewardAsset

-----------------------------------------------------------------------------
(* Claims, and the ledger they come from *)

Due(r) == [w \in Wallets |-> Claimable(r, w)]

LEMMA DueTyped ==
    ASSUME Books, NEW r \in Rewards
    PROVE  /\ Due(r) \in [Wallets -> Nat] /\ DOMAIN Due(r) = Wallets
           /\ \A w \in Wallets : Due(r)[w] = Claimable(r, w) /\ Claimable(r, w) \in Nat
  BY ClaimableTyped DEF Due

LEMMA EffectKeepsFunded ==
    ASSUME EInv, NEW r \in Rewards, Effect(r), SumFunction(Due(r)) <= till[r]
    PROVE  SumFunction(Due(r)') <= till'[r]
<1> DEFINE d == Due(r)
           e == Due(r)'
<1>1. IsFiniteSet(Wallets) /\ held \in [Wallets -> Nat] /\ till[r] \in Nat /\ supply \in Nat
      /\ supply = SumFunction(held)
  BY YieldAssumption DEF EInv, TInv, TypeOK, SupplyIsSum
<1>2. /\ d \in [Wallets -> Nat] /\ DOMAIN d = Wallets /\ DOMAIN e = Wallets
      /\ \A w \in Wallets : d[w] = Claimable(r, w) /\ e[w] = Claimable(r, w)'
  BY DueTyped DEF EInv, IInv, Due
<1>3. e = [w \in Wallets |-> e[w]] /\ d = [w \in Wallets |-> d[w]]
  BY DEF Due
<1>4. SumFunction(d) \in Int
  BY <1>1, <1>2, SumFunctionType
<1> HIDE DEF d, e
<1>5. CASE KeepsDue(r)
  <2>1. e = d
    BY <1>2, <1>3, <1>5 DEF KeepsDue
  <2> QED BY <1>5, <2>1 DEF KeepsDue, d, e
<1>6. ASSUME NEW q \in Nat \ {0}, Splits(r, q) PROVE SumFunction(e) <= till'[r]
  <2>1. \A w \in Wallets : d[w] \in Int /\ held[w] \in Int /\ e[w] = d[w] + held[w] * q
    BY <1>1, <1>2, <1>6 DEF Splits
  <2>2. SumFunctionOnSet(e, Wallets) = SumFunctionOnSet(d, Wallets) + SumFunctionOnSet(held, Wallets) * q
    BY <1>1, <2>1, q \in Int, SumLinear
  <2>3. SumFunction(e) = SumFunction(d) + supply * q
    BY <1>1, <1>2, <2>2 DEF SumFunction
  <2>4. till'[r] = till[r] + supply * q /\ supply * q \in Nat
    BY <1>1, <1>6 DEF Splits
  <2>5. SumFunction(d) <= till[r]
    BY DEF d
  <2> QED BY <1>1, <1>4, <2>3, <2>4, <2>5
<1>7. ASSUME NEW w \in Wallets, Pays(r, w) PROVE SumFunction(e) <= till'[r]
  <2>1. e[w] = 0 /\ \A v \in Wallets \ {w} : e[v] = d[v]
    BY <1>2, <1>7 DEF Pays
  <2>2. e \in [Wallets -> Nat] /\ d[w] \in Nat
    BY <1>2, <1>3, <2>1
  <2>3. SumFunction(e) = SumFunction(d) - d[w] + e[w]
    BY <1>1, <1>2, <2>1, <2>2, SumOfChange
  <2>4. till'[r] = till[r] - d[w]
    BY <1>2, <1>7 DEF Pays
  <2>5. SumFunction(d) <= till[r]
    BY DEF d
  <2> QED BY <1>1, <1>4, <2>1, <2>2, <2>3, <2>4, <2>5
<1> QED BY <1>5, <1>6, <1>7 DEF Effect, e

LEMMA MissedGrows == [Next]_vars => missed \subseteq missed'
  BY DEF Next, vars, Transfer, Mint, Burn, RecoverWallet, SetPlugged, AddRewardAsset,
         RemoveRewardAsset, DepositYield, ClaimYield, ClaimAllYield

FundedInv == EInv /\ ClaimsAreFunded

LEMMA InitDue == ASSUME Init, NEW r \in Rewards PROVE Due(r) = [w \in Wallets |-> 0] /\ till[r] = 0
<1>1. ASSUME NEW w \in Wallets PROVE Claimable(r, w) = 0
  <2>1. Share(r, held[w]) = 0
    BY ShareTyped DEF Init
  <2> QED BY <2>1 DEF Init, Claimable
<1> QED BY <1>1 DEF Due, Init

\* Where each deposit divides evenly among the units in circulation when it is
\* made: the claims of all holders together never exceed what was deposited and
\* is not yet paid, however the units are moved, minted, burned and claimed for,
\* for every reward asset of which the module heard every move.
THEOREM ClaimsAlwaysFunded == Spec /\ [][EvenDeposit]_vars => []ClaimsAreFunded
<1>1. Init => FundedInv
  <2> SUFFICES ASSUME Init PROVE FundedInv
    OBVIOUS
  <2>1. EInv
    BY InitEInv
  <2>2. ASSUME NEW r \in Rewards PROVE SumFunction(Due(r)) <= till[r]
    <3>1. SumFunction(Due(r)) = 0
      BY InitDue, SumOfZeros, YieldAssumption
    <3> QED BY <3>1, InitDue
  <2> QED BY <2>1, <2>2 DEF FundedInv, ClaimsAreFunded, Due
<1>2. FundedInv /\ [Next]_vars /\ [EvenDeposit]_vars => FundedInv'
  <2> SUFFICES ASSUME FundedInv, [Next]_vars, [EvenDeposit]_vars PROVE FundedInv'
    OBVIOUS
  <2>1. EInv /\ EInv'
    BY NextEInv DEF FundedInv
  <2>2. ASSUME NEW r \in Rewards \ missed' PROVE SumFunction(Due(r)') <= till'[r]
    <3>1. r \in Rewards \ missed
      BY MissedGrows
    <3>2. SumFunction(Due(r)) <= till[r]
      BY <3>1 DEF FundedInv, ClaimsAreFunded, Due
    <3>3. Effect(r)
      BY <2>1, EveryEffect
    <3> QED BY <2>1, <3>2, <3>3, EffectKeepsFunded
  <2>3. ClaimsAreFunded'
    BY <2>2 DEF ClaimsAreFunded, Due
  <2> QED BY <2>1, <2>3 DEF FundedInv
<1>3. FundedInv => ClaimsAreFunded
  BY DEF FundedInv
<1> QED BY <1>1, <1>2, <1>3, PTL DEF Spec

LEMMA EffectIsPromised ==
    ASSUME EInv, NEW r \in Rewards, Effect(r)
    PROVE  Promise(r)!Next
<1>1. held \in [Wallets -> Nat] /\ till[r] \in Nat /\ supply \in Nat
      /\ supply = SumFunction(held) /\ \A w \in Wallets : Claimable(r, w) \in Nat
  BY ClaimableTyped DEF EInv, TInv, IInv, TypeOK, SupplyIsSum
<1>2. CASE KeepsDue(r)
  <2>1. Promise(r)!Move
    BY <1>2 DEF KeepsDue, Promise!Move
  <2> QED BY <2>1 DEF Promise!Next
<1>3. ASSUME NEW q \in Nat \ {0}, supply > 0, Splits(r, q) PROVE Promise(r)!Next
  <2>1. till'[r] - till[r] = supply * q /\ supply * q > 0
    BY <1>1, <1>3 DEF Splits
  <2>2. ASSUME NEW w \in Wallets
        PROVE  SumFunction(held) * (Claimable(r, w)' - Claimable(r, w)) = (till'[r] - till[r]) * held[w]
    <3>1. Claimable(r, w)' - Claimable(r, w) = held[w] * q
      BY <1>1, <1>3 DEF Splits
    <3>2. supply * (held[w] * q) = (supply * q) * held[w]
      BY <1>1, Reassociate
    <3> QED BY <1>1, <2>1, <3>1, <3>2
  <2>3. Promise(r)!SumFunction(held) = SumFunction(held)
    BY DEF Promise!SumFunction, Promise!SumFunctionOnSet, Promise!FoldFunctionOnSet, Promise!MapThenFoldSet,
           SumFunction, SumFunctionOnSet, FoldFunctionOnSet, MapThenFoldSet
  <2>4. Promise(r)!Deposit
    BY <1>3, <2>1, <2>2, <2>3 DEF Promise!Deposit, Splits
  <2> QED BY <2>4 DEF Promise!Next
<1>4. ASSUME NEW w \in Wallets, Pays(r, w) PROVE Promise(r)!Next
  <2>1. Promise(r)!Pay
    BY <1>4 DEF Promise!Pay, Pays
  <2> QED BY <2>1 DEF Promise!Next
<1> QED BY <1>2, <1>3, <1>4 DEF Effect

\* Under the same hypothesis the accumulator implements the ledger that splits
\* each deposit among its holders when it is made and pays each exactly its part.
THEOREM YieldImplementsLedger == Spec /\ [][EvenDeposit]_vars => ImplementsYieldLedger
<1>1. Init => EInv
  BY InitEInv
<1>2. EInv /\ [Next]_vars /\ [EvenDeposit]_vars => EInv'
  BY NextEInv
<1>3. Init => \A r \in Rewards : Promise(r)!Init
  BY InitDue DEF Promise!Init, Due
<1>4. EInv /\ EInv' /\ [Next]_vars /\ [EvenDeposit]_vars
      => [\A r \in Rewards \ missed' : Promise(r)!Next]_vars
  <2> SUFFICES ASSUME EInv, EInv', [Next]_vars, [EvenDeposit]_vars, NEW r \in Rewards \ missed'
               PROVE  Promise(r)!Next
    OBVIOUS
  <2>1. Effect(r)
    BY EveryEffect
  <2> QED BY <2>1, EffectIsPromised
<1> QED BY <1>1, <1>2, <1>3, <1>4, PTL DEF Spec, ImplementsYieldLedger
=============================================================================
