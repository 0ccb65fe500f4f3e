--------------------------- MODULE QueryApiProofs ---------------------------
(***************************************************************************)
(* What the queries answer, for any wallets, traffic and bounds.  The       *)
(* chain is replayed log by log; what the database holds when the puts in   *)
(* hand are written is shown to mirror the contracts after the last log     *)
(* that was taken, and the answers of one read are read off that.  The      *)
(* lists of events rest on rows and keys being those of the logs; the list  *)
(* of a country's wallets on no log that was not taken naming them.         *)
(***************************************************************************)
EXTENDS QueryApi, IndexerProofs, FiniteSums

-----------------------------------------------------------------------------
(* Least elements *)

LEMMA LeastNumber ==
    ASSUME NEW n \in Nat, NEW S \in SUBSET (0..n), S # {}
    PROVE  \E m \in S : \A k \in S : m <= k
<1> DEFINE Below == {0..k : k \in S}
           All == 0..n
<1>1. Below \in SUBSET (SUBSET All) /\ Below # {}
  <2>1. \A k \in S : 0..k \subseteq 0..n
    OBVIOUS
  <2> QED BY <2>1
<1>2. IsFiniteSet(All)
  BY FS_Interval
<1>3. PICK s \in Below : \A t \in Below : t \subseteq s => t = s
  <2> HIDE DEF Below, All
  <2> QED BY <1>1, <1>2, SmallestSet
<1>4. PICK m \in S : s = 0..m
  BY Zenon
<1>5. ASSUME NEW k \in S PROVE m <= k
  <2>1. m \in Int /\ k \in Int
    OBVIOUS
  <2> SUFFICES ASSUME k < m PROVE FALSE
    BY <2>1
  <2>2. 0..k \in Below /\ 0..k \subseteq 0..m
    BY <2>1
  <2>3. 0..k = 0..m
    BY <1>3, <1>4, <2>2
  <2>4. m \in 0..m /\ m \notin 0..k
    BY <2>1
  <2> QED BY <2>3, <2>4
<1> QED BY <1>5

\* A finite set that is not empty has a first element in a total order.
IsOrder(R, S) ==
    /\ \A x \in S : <<x, x>> \in R
    /\ \A x, y \in S : <<x, y>> \in R \/ <<y, x>> \in R
    /\ \A x, y \in S : <<x, y>> \in R /\ <<y, x>> \in R => x = y
    /\ \A x, y, z \in S : <<x, y>> \in R /\ <<y, z>> \in R => <<x, z>> \in R

LEMMA FirstElement ==
    ASSUME NEW S, IsFiniteSet(S), S # {}, NEW R, IsOrder(R, S)
    PROVE  \E x \in S : \A y \in S : <<x, y>> \in R
<1> DEFINE Upto(x) == {y \in S : <<y, x>> \in R}
           C == {Upto(x) : x \in S}
<1>1. C \in SUBSET (SUBSET S) /\ C # {}
  OBVIOUS
<1>2. PICK s \in C : \A t \in C : t \subseteq s => t = s
  <2> HIDE DEF C
  <2> QED BY <1>1, SmallestSet
<1>3. PICK x \in S : s = Upto(x)
  BY Zenon
<1>4. ASSUME NEW y \in S, <<x, y>> \notin R PROVE FALSE
  <2>1. <<y, x>> \in R
    BY <1>4 DEF IsOrder
  <2>2. Upto(y) \subseteq Upto(x)
    BY <2>1 DEF IsOrder
  <2>3. Upto(y) = Upto(x)
    <3>1. Upto(y) \in C
      OBVIOUS
    <3> HIDE DEF C, Upto
    <3> QED BY <1>2, <1>3, <2>2, <3>1
  <2>4. x \in Upto(x)
    BY DEF IsOrder
  <2> QED BY <1>4, <2>3, <2>4
<1> QED BY <1>4

-----------------------------------------------------------------------------
(* Walks: states that a list of labels leads through *)

\* T: the triples of a state, a label and the state that it leads to.
Joins(T, a, l, b) == <<a, l, b>> \in T

IsWalk(T, run, a, list, b) ==
    /\ Len(run) = Len(list) + 1
    /\ run[1] = a /\ run[Len(run)] = b
    /\ \A k \in 1..Len(list) : Joins(T, run[k], list[k], run[k + 1])

Walk(T, S, a, list, b) == \E run \in Seq(S) : IsWalk(T, run, a, list, b)

LEMMA NoSteps ==
    ASSUME NEW T, NEW S, NEW a \in S
    PROVE  Walk(T, S, a, <<>>, a) /\ \A b : Walk(T, S, a, <<>>, b) => b = a
<1> DEFINE run == <<a>>
           none == <<>>
<1>1. run \in Seq(S) /\ Len(run) = 1 /\ run[1] = a /\ Len(none) = 0
  OBVIOUS
<1> HIDE DEF run, none
<1>2. IsWalk(T, run, a, none, a)
  BY <1>1 DEF IsWalk
<1>3. ASSUME NEW b, Walk(T, S, a, none, b) PROVE b = a
  BY <1>1, <1>3 DEF Walk, IsWalk
<1>4. Walk(T, S, a, none, a)
  BY <1>1, <1>2 DEF Walk
<1> QED BY <1>3, <1>4 DEF none

LEMMA OneStep ==
    ASSUME NEW T, NEW S, NEW a \in S, NEW b \in S, NEW l, Joins(T, a, l, b)
    PROVE  Walk(T, S, a, <<l>>, b)
<1> DEFINE run == <<a, b>>
           list == <<l>>
<1>1. /\ run \in Seq(S) /\ Len(run) = 2 /\ run[1] = a /\ run[2] = b
      /\ Len(list) = 1 /\ list[1] = l
  OBVIOUS
<1> HIDE DEF run, list
<1>2. IsWalk(T, run, a, list, b)
  BY <1>1 DEF IsWalk
<1>3. Walk(T, S, a, list, b)
  BY <1>1, <1>2 DEF Walk
<1> QED BY <1>3 DEF list

LEMMA WalkOn ==
    ASSUME NEW T, NEW S, NEW L, NEW p \in Seq(L), NEW q \in Seq(L),
           NEW a, NEW b, NEW c, Walk(T, S, a, p, b), Walk(T, S, b, q, c)
    PROVE  Walk(T, S, a, p \o q, c)
<1>1. PICK u \in Seq(S) : IsWalk(T, u, a, p, b)
  BY DEF Walk
<1>2. PICK v \in Seq(S) : IsWalk(T, v, b, q, c)
  BY DEF Walk
<1> PICK m \in Nat, n \in Nat : m = Len(p) /\ n = Len(q)
  OBVIOUS
<1> DEFINE run == [k \in 1..(m + n + 1) |-> IF k <= m THEN u[k] ELSE v[k - m]]
           both == p \o q
<1>3. /\ Len(both) = m + n
      /\ \A k \in 1..m : both[k] = p[k]
      /\ \A k \in 1..n : both[m + k] = q[k]
  OBVIOUS
<1>4. /\ Len(u) = m + 1 /\ u[1] = a /\ u[m + 1] = b
      /\ \A k \in 1..m : Joins(T, u[k], p[k], u[k + 1])
      /\ Len(v) = n + 1 /\ v[1] = b /\ v[n + 1] = c
      /\ \A k \in 1..n : Joins(T, v[k], q[k], v[k + 1])
  BY <1>1, <1>2 DEF IsWalk
<1> HIDE DEF both
<1>5. run \in Seq(S) /\ Len(run) = m + n + 1
  <2>1. \A k \in 1..(m + n + 1) : (IF k <= m THEN u[k] ELSE v[k - m]) \in S
    BY <1>3, <1>4
  <2>2. m + n + 1 \in Nat
    BY <1>3
  <2> QED BY <2>1, <2>2
<1>6. run[1] = a /\ run[m + n + 1] = c
  BY <1>3, <1>4
<1>7. ASSUME NEW k \in 1..(m + n) PROVE Joins(T, run[k], both[k], run[k + 1])
  <2>1. CASE k < m
    <3>1. run[k + 1] = u[k + 1] /\ run[k] = u[k] /\ both[k] = p[k] /\ k \in 1..m
      BY <1>3, <2>1
    <3> QED BY <1>4, <3>1
  <2>2. CASE k = m
    <3>1. run[k + 1] = v[1] /\ run[k] = u[k] /\ both[k] = p[k] /\ k \in 1..m
      BY <1>3, <2>2
    <3>2. u[k + 1] = b
      BY <1>4, <2>2
    <3> QED BY <1>4, <3>1, <3>2
  <2>3. CASE k > m
    <3> PICK j \in 1..n : j = k - m
      BY <1>3, <2>3
    <3>1. run[k + 1] = v[j + 1] /\ run[k] = v[j] /\ k = m + j
      BY <1>3, <2>3
    <3>2. both[k] = q[j]
      BY <1>3, <3>1
    <3> QED BY <1>4, <3>1, <3>2
  <2> QED BY <1>3, <2>1, <2>2, <2>3
<1> HIDE DEF run
<1>8. IsWalk(T, run, a, both, c)
  BY <1>3, <1>5, <1>6, <1>7 DEF IsWalk
<1> QED BY <1>5, <1>8 DEF Walk, both

LEMMA WalkFrom ==
    ASSUME NEW T, NEW S, NEW L, NEW list \in Seq(L), list # <<>>,
           NEW a, NEW b, Walk(T, S, a, list, b)
    PROVE  \E c \in S : Joins(T, a, Head(list), c) /\ Walk(T, S, c, Tail(list), b)
<1>1. PICK u \in Seq(S) : IsWalk(T, u, a, list, b)
  BY DEF Walk
<1> DEFINE run == Tail(u)
           rest == Tail(list)
<1>2. /\ Len(list) \in Nat /\ Len(list) >= 1 /\ Head(list) = list[1]
      /\ Len(rest) = Len(list) - 1
      /\ \A k \in 1..Len(rest) : k + 1 \in 1..Len(list) /\ rest[k] = list[k + 1]
  OBVIOUS
<1>3. /\ Len(u) = Len(list) + 1 /\ u[1] = a /\ u[Len(list) + 1] = b
      /\ \A k \in 1..Len(list) : Joins(T, u[k], list[k], u[k + 1])
  BY <1>1 DEF IsWalk
<1>4. /\ run \in Seq(S) /\ Len(run) = Len(list)
      /\ \A k \in 1..Len(list) : run[k] = u[k + 1]
  BY <1>2, <1>3
<1> HIDE DEF run, rest
<1>5. /\ run[1] = u[2] /\ run[1] \in S /\ run[Len(run)] = b
      /\ Len(run) = Len(rest) + 1
  BY <1>2, <1>3, <1>4
<1>6. Joins(T, a, Head(list), run[1])
  BY <1>2, <1>3, <1>5
<1>7. ASSUME NEW k \in 1..Len(rest) PROVE Joins(T, run[k], rest[k], run[k + 1])
  <2>1. k + 1 \in 1..Len(list) /\ k \in 1..Len(list) /\ rest[k] = list[k + 1]
    BY <1>2
  <2>2. Joins(T, u[k + 1], list[k + 1], u[(k + 1) + 1])
    BY <1>3, <2>1
  <2> QED BY <1>4, <2>1, <2>2
<1>8. IsWalk(T, run, run[1], rest, b)
  BY <1>5, <1>7 DEF IsWalk
<1> QED BY <1>4, <1>5, <1>6, <1>8 DEF Walk, rest

-----------------------------------------------------------------------------
(* What the database holds when a list of puts has been written *)

Writings == {<<d, put, After(d, put)>> : d \in Store, put \in Puts}

Written(d, list, e) == Walk(Writings, Store, d, list, e)

LEMMA OneWritten ==
    ASSUME NEW d \in Store, NEW put \in Puts
    PROVE  After(d, put) \in Store /\ Written(d, <<put>>, After(d, put))
<1>1. After(d, put) \in Store
  BY PutKeepsStore
<1>2. Joins(Writings, d, put, After(d, put))
  <2>1. <<d, put, After(d, put)>> \in {<<s, p, After(s, p)>> : s \in Store, p \in Puts}
    OBVIOUS
  <2> QED BY <2>1 DEF Writings, Joins
<1> DEFINE e == After(d, put)
<1> HIDE DEF e
<1>3. e \in Store /\ Joins(Writings, d, put, e)
  BY <1>1, <1>2 DEF e
<1>4. Written(d, <<put>>, e)
  BY <1>3, OneStep DEF Written
<1> QED BY <1>1, <1>4 DEF e

LEMMA NextWritten ==
    ASSUME NEW list \in Seq(Puts), list # <<>>, NEW d, NEW e, Written(d, list, e)
    PROVE  Written(After(d, Head(list)), Tail(list), e)
<1>1. PICK c \in Store : Joins(Writings, d, Head(list), c) /\ Written(c, Tail(list), e)
  BY WalkFrom, Zenon DEF Written
<1>2. c = After(d, Head(list))
  BY <1>1 DEF Writings, Joins
<1> QED BY <1>1, <1>2

LEMMA BothWritten ==
    ASSUME NEW p \in Seq(Puts), NEW q \in Seq(Puts), NEW d, NEW e, NEW f,
           Written(d, p, e), Written(e, q, f)
    PROVE  Written(d, p \o q, f)
  BY WalkOn DEF Written

\* What is neither of events nor the cursor, by what it is about.
SameBalances(d, e) == e.holder = d.holder /\ e.portfolio = d.portfolio /\ e.meta = d.meta
SameAsset(d, e) == e.asset = d.asset
SameFreezes(d, e) == e.walletFreeze = d.walletFreeze /\ e.freeze = d.freeze
SameIdentities(d, e) == e.identity = d.identity /\ e.byCountry = d.byCountry

SameRecords(d, e) ==
    SameBalances(d, e) /\ SameAsset(d, e) /\ SameFreezes(d, e) /\ SameIdentities(d, e)

\* The puts of an event.
EventPuts(id) == {Put("event", id, TRUE)} \cup KeyPuts(id)

LEMMA EventPutAside ==
    ASSUME NEW d \in Store, NEW id \in LogIds, NEW put \in EventPuts(id)
    PROVE  put \in Puts /\ After(d, put) \in Store /\ SameRecords(d, After(d, put))
<1>1. put \in Puts
  BY PutsSorted DEF EventPuts
<1>2. put.table \in {"event", "byToken", "byAddress"}
  BY DEF EventPuts, KeyPuts, PutsOf, Put
<1> QED BY <1>1, <1>2, PutKeepsStore
        DEF SameRecords, SameBalances, SameAsset, SameFreezes, SameIdentities, After, Store

\* However many: the shortest list that had no end would have one.
LEMMA EventPutsAside ==
    ASSUME NEW id \in LogIds, NEW list \in Seq(EventPuts(id)), NEW d \in Store
    PROVE  \E e \in Store : Written(d, list, e) /\ SameRecords(d, e)
<1> DEFINE Ends(s, l) == \E e \in Store : Written(s, l, e) /\ SameRecords(s, e)
           P == EventPuts(id)
           n == Len(list)
           Bad == {k \in 0..n : \E s \in Store, l \in Seq(P) : Len(l) = k /\ ~Ends(s, l)}
<1> SUFFICES ASSUME ~Ends(d, list) PROVE FALSE
  OBVIOUS
<1>1. n \in Nat /\ Bad \in SUBSET (0..n) /\ n \in Bad
  OBVIOUS
<1>2. PICK m \in Bad : \A k \in Bad : m <= k
  <2> HIDE DEF Bad, n
  <2> QED BY <1>1, LeastNumber
<1>3. PICK s \in Store, l \in Seq(P) : Len(l) = m /\ ~Ends(s, l)
  OBVIOUS
<1>4. m \in 0..n
  OBVIOUS
<1>5. CASE l = <<>>
  <2>1. Written(s, l, s) /\ SameRecords(s, s)
    BY <1>5, NoSteps
         DEF Written, SameRecords, SameBalances, SameAsset, SameFreezes, SameIdentities
  <2> QED BY <1>3, <2>1
<1>6. CASE l # <<>>
  <2> DEFINE put == Head(l)
             rest == Tail(l)
             t == After(s, put)
  <2>1. /\ put \in P /\ rest \in Seq(P) /\ l = <<put>> \o rest
        /\ Len(rest) = m - 1 /\ m >= 1
    <3>1. Len(l) # 0 /\ Len(l) \in Nat
      BY <1>6
    <3> QED BY <1>3, <1>4, <1>6, <3>1
  <2> HIDE DEF put, rest
  <2>2. put \in Puts /\ t \in Store /\ SameRecords(s, t) /\ Written(s, <<put>>, t)
    BY <2>1, EventPutAside, OneWritten
  <2>3. m - 1 \in 0..n /\ m - 1 \notin Bad
    <3> HIDE DEF Bad, n
    <3>1. n \in Nat
      BY <1>1
    <3> QED BY <1>2, <1>4, <2>1, <3>1
  <2> HIDE DEF t
  <2>4. Ends(t, rest)
    BY <2>1, <2>2, <2>3
  <2>5. PICK e \in Store : Written(t, rest, e) /\ SameRecords(t, e)
    BY <2>4
  <2>6. P \subseteq Puts /\ rest \in Seq(Puts) /\ <<put>> \in Seq(Puts)
    <3>1. P \subseteq Puts
      BY <1>3, EventPutAside
    <3> HIDE DEF P
    <3> QED BY <2>1, <2>2, <3>1, SeqOfMore
  <2>7. Written(s, <<put>> \o rest, e)
    BY <2>2, <2>5, <2>6, BothWritten
  <2>8. SameRecords(s, e)
    BY <2>2, <2>5 DEF SameRecords, SameBalances, SameAsset, SameFreezes, SameIdentities
  <2> QED BY <1>3, <2>1, <2>5, <2>7, <2>8
<1> QED BY <1>5, <1>6

\* The end of a handler.
LEMMA EventAside ==
    ASSUME NEW d \in Store, NEW id \in LogIds, NEW end, EndsWithEvent(id, end)
    PROVE  end \in Seq(Puts) /\ \E e \in Store : Written(d, end, e) /\ SameRecords(d, e)
<1> DEFINE P == EventPuts(id)
<1>1. PICK keys \in Seq(KeyPuts(id)) : end = PutEvent(id) \o keys
  BY DEF EndsWithEvent
<1>2. PutEvent(id) \in Seq(P) /\ KeyPuts(id) \subseteq P
  <2> DEFINE row == Put("event", id, TRUE)
  <2>1. row \in P /\ KeyPuts(id) \subseteq P
    BY DEF EventPuts
  <2> HIDE DEF row, P
  <2>2. <<row>> \in Seq(P)
    BY <2>1
  <2> QED BY <2>1, <2>2 DEF row, PutEvent
<1>3. P \subseteq Puts
  BY EventPutAside
<1> HIDE DEF P
<1>4. keys \in Seq(P)
  BY <1>2, SeqOfMore
<1>5. end \in Seq(P)
  BY <1>1, <1>2, <1>4
<1>6. end \in Seq(Puts)
  BY <1>3, <1>5, SeqOfMore
<1> QED BY <1>5, <1>6, EventPutsAside DEF P

-----------------------------------------------------------------------------
(* What the records of balances come to *)

OnlyBalances(d, e) == SameAsset(d, e) /\ SameFreezes(d, e) /\ SameIdentities(d, e)

LEMMA OneAndOne ==
    ASSUME NEW S, NEW p \in S, NEW q \in S
    PROVE  <<p>> \in Seq(S) /\ <<q>> \in Seq(S) /\ <<p>> \o <<q>> = <<p, q>>
<1>1. <<p>> \in Seq(S) /\ <<q>> \in Seq(S) /\ <<p, q>> \in Seq(S)
  OBVIOUS
<1>2. <<p>> \o <<q>> = <<p, q>>
  <2> DEFINE both == <<p>> \o <<q>>
  <2>1. both \in Seq(S) /\ Len(both) = 2 /\ both[1] = p /\ both[2] = q
    BY <1>1
  <2> HIDE DEF both
  <2>2. both = <<both[1], both[2]>>
    BY <2>1
  <2> QED BY <2>1, <2>2 DEF both
<1> QED BY <1>1, <1>2

LEMMA NothingBefore ==
    ASSUME NEW S, NEW list \in Seq(S)
    PROVE  <<>> \o list = list
<1> DEFINE both == <<>> \o list
<1>1. both \in Seq(S) /\ Len(both) = Len(list) /\ \A k \in 1..Len(list) : both[k] = list[k]
  OBVIOUS
<1> HIDE DEF both
<1> QED BY <1>1 DEF both

LEMMA RecordPutsTyped == RecordPuts \subseteq Puts
  BY DEF RecordPuts, Puts

LEMMA HolderWritten ==
    ASSUME NEW d \in Store, NEW w \in Wallets, NEW balance \in Int
    PROVE  \E e \in Store :
             /\ Written(d, PutHolderBalance(w, balance), e)
             /\ e.holder = [d.holder EXCEPT ![w] = balance]
             /\ e.portfolio = [d.portfolio EXCEPT ![w] = balance]
             /\ e.meta = d.meta /\ OnlyBalances(d, e)
<1> DEFINE p == Put("holder", w, balance)
           q == Put("portfolio", w, balance)
           m == After(d, p)
           e == After(m, q)
<1>1. p \in Puts /\ q \in Puts
  BY DEF Put, Puts, PutsOf
<1>2. /\ m.holder = [d.holder EXCEPT ![w] = balance] /\ m.portfolio = d.portfolio
      /\ m.meta = d.meta /\ OnlyBalances(d, m)
  BY DEF After, Put, Store, OnlyBalances, SameAsset, SameFreezes, SameIdentities
<1> HIDE DEF p, m
<1>3. m \in Store /\ Written(d, <<p>>, m)
  BY <1>1, OneWritten DEF m
<1>4. /\ e.portfolio = [m.portfolio EXCEPT ![w] = balance] /\ e.holder = m.holder
      /\ e.meta = m.meta /\ OnlyBalances(m, e)
  BY <1>3 DEF After, Put, Store, OnlyBalances, SameAsset, SameFreezes, SameIdentities
<1> HIDE DEF q, e
<1>5. e \in Store /\ Written(m, <<q>>, e)
  BY <1>1, <1>3, OneWritten DEF e
<1>6. <<p>> \in Seq(Puts) /\ <<q>> \in Seq(Puts) /\ <<p>> \o <<q>> = <<p, q>>
  BY <1>1, OneAndOne
<1>7. Written(d, <<p, q>>, e)
  BY <1>3, <1>5, <1>6, BothWritten
<1>8. OnlyBalances(d, e)
  BY <1>2, <1>4 DEF OnlyBalances, SameAsset, SameFreezes, SameIdentities
<1> QED BY <1>2, <1>4, <1>5, <1>7, <1>8 DEF PutHolderBalance, p, q

LEMMA MetaWritten ==
    ASSUME NEW d \in Store, NEW supply \in Int, NEW count \in Int
    PROVE  \E e \in Store :
             /\ Written(d, PutMeta(supply, count), e)
             /\ Meta(e) = [supply |-> supply, holderCount |-> count % CountModulus]
             /\ e.holder = d.holder /\ e.portfolio = d.portfolio /\ OnlyBalances(d, e)
<1> DEFINE row == [supply |-> supply, holderCount |-> count % CountModulus]
           p == Put("meta", OnlyRow, row)
           e == After(d, p)
<1>1. row \in TokenMeta
  <2>1. count % CountModulus \in 0..(CountModulus - 1)
    BY CountAssumption
  <2> QED BY <2>1 DEF TokenMeta
<1> HIDE DEF row
<1>2. p \in Puts
  BY <1>1 DEF Put, Puts, PutsOf
<1>3. /\ Meta(e) = row /\ e.holder = d.holder /\ e.portfolio = d.portfolio
      /\ OnlyBalances(d, e)
  BY DEF After, Put, Store, Meta, OnlyRow, OnlyBalances, SameAsset, SameFreezes, SameIdentities
<1> HIDE DEF p, e
<1>4. e \in Store /\ Written(d, <<p>>, e)
  BY <1>2, OneWritten DEF e
<1> QED BY <1>3, <1>4 DEF PutMeta, p, row

\* One wallet's balance, or two wallets' one after the other, then the token's row.
LEMMA BalanceWritten ==
    ASSUME NEW d \in Store, NEW w \in Wallets, NEW balance \in Int,
           NEW supply \in Int, NEW count \in Int
    PROVE  \E e \in Store :
             /\ Written(d, PutHolderBalance(w, balance) \o PutMeta(supply, count), e)
             /\ e.holder = [d.holder EXCEPT ![w] = balance]
             /\ e.portfolio = [d.portfolio EXCEPT ![w] = balance]
             /\ Meta(e) = [supply |-> supply, holderCount |-> count % CountModulus]
             /\ OnlyBalances(d, e)
<1>1. PICK m \in Store :
        /\ Written(d, PutHolderBalance(w, balance), m)
        /\ m.holder = [d.holder EXCEPT ![w] = balance]
        /\ m.portfolio = [d.portfolio EXCEPT ![w] = balance]
        /\ OnlyBalances(d, m)
  BY HolderWritten
<1>2. PICK e \in Store :
        /\ Written(m, PutMeta(supply, count), e)
        /\ Meta(e) = [supply |-> supply, holderCount |-> count % CountModulus]
        /\ e.holder = m.holder /\ e.portfolio = m.portfolio /\ OnlyBalances(m, e)
  BY MetaWritten
<1>3. /\ PutHolderBalance(w, balance) \in Seq(Puts)
      /\ PutMeta(supply, count) \in Seq(Puts)
  BY HolderPutsTyped, MetaPutTyped, RecordPutsTyped, SeqOfMore
<1>4. Written(d, PutHolderBalance(w, balance) \o PutMeta(supply, count), e)
  BY <1>1, <1>2, <1>3, BothWritten
<1>5. OnlyBalances(d, e)
  BY <1>1, <1>2 DEF OnlyBalances, SameAsset, SameFreezes, SameIdentities
<1> QED BY <1>1, <1>2, <1>4, <1>5

LEMMA TwoBalancesWritten ==
    ASSUME NEW d \in Store, NEW u \in Wallets, NEW w \in Wallets, NEW a \in Int, NEW b \in Int,
           NEW supply \in Int, NEW count \in Int
    PROVE  \E e \in Store :
             /\ Written(d, PutHolderBalance(u, a) \o PutHolderBalance(w, b)
                             \o PutMeta(supply, count), e)
             /\ e.holder = [[d.holder EXCEPT ![u] = a] EXCEPT ![w] = b]
             /\ e.portfolio = [[d.portfolio EXCEPT ![u] = a] EXCEPT ![w] = b]
             /\ Meta(e) = [supply |-> supply, holderCount |-> count % CountModulus]
             /\ OnlyBalances(d, e)
<1> DEFINE p == PutHolderBalance(u, a)
           q == PutHolderBalance(w, b)
           r == PutMeta(supply, count)
<1>1. PICK m \in Store :
        /\ Written(d, p, m)
        /\ m.holder = [d.holder EXCEPT ![u] = a]
        /\ m.portfolio = [d.portfolio EXCEPT ![u] = a]
        /\ m.meta = d.meta /\ OnlyBalances(d, m)
  BY HolderWritten
<1>2. PICK n \in Store :
        /\ Written(m, q, n)
        /\ n.holder = [m.holder EXCEPT ![w] = b]
        /\ n.portfolio = [m.portfolio EXCEPT ![w] = b]
        /\ n.meta = m.meta /\ OnlyBalances(m, n)
  BY HolderWritten
<1>3. PICK e \in Store :
        /\ Written(n, r, e)
        /\ Meta(e) = [supply |-> supply, holderCount |-> count % CountModulus]
        /\ e.holder = n.holder /\ e.portfolio = n.portfolio /\ OnlyBalances(n, e)
  BY MetaWritten
<1>4. p \in Seq(Puts) /\ q \in Seq(Puts) /\ r \in Seq(Puts)
  BY HolderPutsTyped, MetaPutTyped, RecordPutsTyped, SeqOfMore
<1> HIDE DEF p, q, r
<1>5. p \o q \in Seq(Puts) /\ Written(d, p \o q, n)
  BY <1>1, <1>2, <1>4, BothWritten
<1>6. Written(d, (p \o q) \o r, e)
  BY <1>3, <1>4, <1>5, BothWritten
<1>7. OnlyBalances(d, e)
  BY <1>1, <1>2, <1>3 DEF OnlyBalances, SameAsset, SameFreezes, SameIdentities
<1>8. /\ e.holder = [[d.holder EXCEPT ![u] = a] EXCEPT ![w] = b]
      /\ e.portfolio = [[d.portfolio EXCEPT ![u] = a] EXCEPT ![w] = b]
  BY <1>1, <1>2, <1>3
<1> QED BY <1>3, <1>6, <1>7, <1>8 DEF p, q, r

-----------------------------------------------------------------------------
(* What the records of freezes, of the asset and of identities come to *)

OnlyFreezes(d, e) == SameBalances(d, e) /\ SameAsset(d, e) /\ SameIdentities(d, e)
OnlyAsset(d, e) == SameBalances(d, e) /\ SameFreezes(d, e) /\ SameIdentities(d, e)
OnlyIdentities(d, e) == SameBalances(d, e) /\ SameAsset(d, e) /\ SameFreezes(d, e)

LEMMA FreezeWritten ==
    ASSUME NEW d \in Store, NEW w \in Wallets, NEW row \in FreezeState
    PROVE  \E e \in Store :
             /\ Written(d, <<Put("freeze", w, row)>>, e)
             /\ e.freeze = [d.freeze EXCEPT ![w] = row] /\ e.walletFreeze = d.walletFreeze
             /\ OnlyFreezes(d, e)
<1> DEFINE p == Put("freeze", w, row)
           e == After(d, p)
<1>1. p \in Puts
  BY DEF Put, Puts, PutsOf
<1>2. /\ e.freeze = [d.freeze EXCEPT ![w] = row] /\ e.walletFreeze = d.walletFreeze
      /\ OnlyFreezes(d, e)
  BY DEF After, Put, Store, OnlyFreezes, SameBalances, SameAsset, SameIdentities
<1>3. e \in Store /\ Written(d, <<p>>, e)
  <2> HIDE DEF p
  <2> QED BY <1>1, OneWritten
<1> HIDE DEF e
<1> QED BY <1>2, <1>3

LEMMA WalletFreezeWritten ==
    ASSUME NEW d \in Store, NEW w \in Wallets, NEW frozen \in BOOLEAN
    PROVE  \E e \in Store :
             /\ Written(d, RecordWalletFreeze(w, frozen), e)
             /\ e.walletFreeze = [d.walletFreeze EXCEPT ![w] = frozen] /\ e.freeze = d.freeze
             /\ OnlyFreezes(d, e)
<1> DEFINE p == Put("walletFreeze", w, frozen)
           e == After(d, p)
<1>1. p \in Puts
  BY DEF Put, Puts, PutsOf
<1>2. /\ e.walletFreeze = [d.walletFreeze EXCEPT ![w] = frozen] /\ e.freeze = d.freeze
      /\ OnlyFreezes(d, e)
  BY DEF After, Put, Store, OnlyFreezes, SameBalances, SameAsset, SameIdentities
<1>3. e \in Store /\ Written(d, <<p>>, e)
  <2> HIDE DEF p
  <2> QED BY <1>1, OneWritten
<1> HIDE DEF e
<1> QED BY <1>2, <1>3 DEF RecordWalletFreeze

LEMMA AssetWritten ==
    ASSUME NEW d \in Store, NEW row \in AssetConfig
    PROVE  \E e \in Store : Written(d, PutAsset(row), e) /\ Asset(e) = row /\ OnlyAsset(d, e)
<1> DEFINE p == Put("asset", OnlyRow, row)
           e == After(d, p)
<1>1. p \in Puts
  BY DEF Put, Puts, PutsOf
<1>2. Asset(e) = row /\ OnlyAsset(d, e)
  BY DEF After, Put, Store, Asset, OnlyRow, OnlyAsset, SameBalances, SameFreezes, SameIdentities
<1>3. e \in Store /\ Written(d, <<p>>, e)
  <2> HIDE DEF p
  <2> QED BY <1>1, OneWritten
<1> HIDE DEF e
<1> QED BY <1>2, <1>3 DEF PutAsset

\* The two puts of a wallet's identity.
LEMMA CountryKeyWritten ==
    ASSUME NEW d \in Store, NEW w \in Wallets, NEW countries \in SUBSET Nat
    PROVE  LET p == Put("byCountry", w, countries) IN
           /\ p \in Puts
           /\ \E e \in Store :
                /\ Written(d, <<p>>, e)
                /\ e.byCountry = [d.byCountry EXCEPT ![w] = countries] /\ e.identity = d.identity
                /\ OnlyIdentities(d, e)
<1> DEFINE p == Put("byCountry", w, countries)
           e == After(d, p)
<1>1. p \in Puts
  BY DEF Put, Puts, PutsOf
<1>2. /\ e.byCountry = [d.byCountry EXCEPT ![w] = countries] /\ e.identity = d.identity
      /\ OnlyIdentities(d, e)
  BY DEF After, Put, Store, OnlyIdentities, SameBalances, SameAsset, SameFreezes
<1>3. e \in Store /\ Written(d, <<p>>, e)
  <2> HIDE DEF p
  <2> QED BY <1>1, OneWritten
<1> HIDE DEF e
<1> QED BY <1>1, <1>2, <1>3

LEMMA IdentityRowWritten ==
    ASSUME NEW d \in Store, NEW w \in Wallets, NEW row \in Identity
    PROVE  LET p == Put("identity", w, row) IN
           /\ p \in Puts
           /\ \E e \in Store :
                /\ Written(d, <<p>>, e)
                /\ e.identity = [d.identity EXCEPT ![w] = row] /\ e.byCountry = d.byCountry
                /\ OnlyIdentities(d, e)
<1> DEFINE p == Put("identity", w, row)
           e == After(d, p)
<1>1. p \in Puts
  BY DEF Put, Puts, PutsOf
<1>2. /\ e.identity = [d.identity EXCEPT ![w] = row] /\ e.byCountry = d.byCountry
      /\ OnlyIdentities(d, e)
  BY DEF After, Put, Store, OnlyIdentities, SameBalances, SameAsset, SameFreezes
<1>3. e \in Store /\ Written(d, <<p>>, e)
  <2> HIDE DEF p
  <2> QED BY <1>1, OneWritten
<1> HIDE DEF e
<1> QED BY <1>1, <1>2, <1>3

LEMMA RecordIdentityWritten ==
    ASSUME NEW d \in Store, NEW w \in Wallets,
           NEW i \in Identities \cup {NoOne}, NEW c \in Nat
    PROVE  \E e \in Store :
             /\ Written(d, RecordIdentity(d, w, i, c), e)
             /\ e.identity = [d.identity EXCEPT ![w] = [identity |-> i, country |-> c]]
             /\ e.byCountry = [d.byCountry EXCEPT ![w] = d.byCountry[w] \cup {c}]
             /\ OnlyIdentities(d, e)
<1> DEFINE row == [identity |-> i, country |-> c]
           countries == d.byCountry[w] \cup {c}
           p == Put("identity", w, row)
           q == Put("byCountry", w, countries)
<1>1. row \in Identity /\ countries \in SUBSET Nat
  BY RowsTyped DEF Identity
<1> HIDE DEF row, countries
<1>2. PICK m \in Store :
        /\ Written(d, <<p>>, m)
        /\ m.identity = [d.identity EXCEPT ![w] = row] /\ m.byCountry = d.byCountry
        /\ OnlyIdentities(d, m)
  BY <1>1, IdentityRowWritten
<1>3. PICK e \in Store :
        /\ Written(m, <<q>>, e)
        /\ e.byCountry = [m.byCountry EXCEPT ![w] = countries] /\ e.identity = m.identity
        /\ OnlyIdentities(m, e)
  BY <1>1, CountryKeyWritten
<1>4. p \in Puts /\ q \in Puts
  BY <1>1, IdentityRowWritten, CountryKeyWritten
<1>5. RecordIdentity(d, w, i, c) = <<p, q>>
  BY DEF RecordIdentity, row, countries
<1> HIDE DEF p, q
<1>6. <<p>> \in Seq(Puts) /\ <<q>> \in Seq(Puts) /\ <<p>> \o <<q>> = <<p, q>>
  BY <1>4, OneAndOne
<1>7. Written(d, <<p, q>>, e)
  <2>1. Written(d, <<p>>, m) /\ Written(m, <<q>>, e)
    BY <1>2, <1>3
  <2>2. Written(d, <<p>> \o <<q>>, e)
    BY <1>6, <2>1, BothWritten
  <2> QED BY <1>6, <2>2
<1>8. OnlyIdentities(d, e)
  BY <1>2, <1>3 DEF OnlyIdentities, SameBalances, SameAsset, SameFreezes
<1> QED BY <1>2, <1>3, <1>5, <1>7, <1>8 DEF row, countries

\* Removed: whatever rows the puts were worked out from.
LEMMA RemoveIdentityWritten ==
    ASSUME NEW d \in Store, NEW r \in Store, NEW w \in Wallets
    PROVE  \E e \in Store :
             /\ Written(d, RemoveIdentity(r, w), e)
             /\ e.identity = [d.identity EXCEPT ![w] = NoIdentity]
             /\ \A v \in Wallets \ {w} : e.byCountry[v] = d.byCountry[v]
             /\ OnlyIdentities(d, e)
<1> DEFINE p == Put("identity", w, NoIdentity)
           rest == r.byCountry[w] \ {r.identity[w].country}
           q == Put("byCountry", w, rest)
<1>1. NoIdentity \in Identity
  BY DEF NoIdentity, Identity
<1>2. rest \in SUBSET Nat
  BY RowsTyped
<1>3. p \in Puts /\ q \in Puts
  <2> HIDE DEF rest
  <2> QED BY <1>1, <1>2, IdentityRowWritten, CountryKeyWritten
<1>4. RemoveIdentity(r, w) = (IF IsBound(r, w) THEN <<q>> ELSE <<>>) \o <<p>>
  BY DEF RemoveIdentity
<1> HIDE DEF rest
<1>5. PICK m \in Store :
        /\ Written(d, <<q>>, m)
        /\ m.byCountry = [d.byCountry EXCEPT ![w] = rest] /\ m.identity = d.identity
        /\ OnlyIdentities(d, m)
  BY <1>2, CountryKeyWritten
<1>6. ASSUME NEW s \in Store
      PROVE  \E e \in Store :
               /\ Written(s, <<p>>, e)
               /\ e.identity = [s.identity EXCEPT ![w] = NoIdentity] /\ e.byCountry = s.byCountry
               /\ OnlyIdentities(s, e)
  BY <1>1, IdentityRowWritten
<1> HIDE DEF p, q
<1>7. /\ <<p>> \in Seq(Puts) /\ <<q>> \in Seq(Puts) /\ <<>> \o <<p>> = <<p>>
  BY <1>3, OneAndOne, NothingBefore
<1>8. CASE IsBound(r, w)
  <2>1. PICK e \in Store :
          /\ Written(m, <<p>>, e)
          /\ e.identity = [m.identity EXCEPT ![w] = NoIdentity] /\ e.byCountry = m.byCountry
          /\ OnlyIdentities(m, e)
    BY <1>6
  <2>2. Written(d, <<q>> \o <<p>>, e)
    BY <1>5, <1>7, <2>1, BothWritten
  <2>3. \A v \in Wallets \ {w} : e.byCountry[v] = d.byCountry[v]
    BY <1>5, <2>1 DEF Store
  <2>4. OnlyIdentities(d, e)
    BY <1>5, <2>1 DEF OnlyIdentities, SameBalances, SameAsset, SameFreezes
  <2> QED BY <1>4, <1>5, <1>8, <2>1, <2>2, <2>3, <2>4
<1>9. CASE ~IsBound(r, w)
  <2>1. RemoveIdentity(r, w) = <<p>>
    BY <1>4, <1>7, <1>9
  <2>2. PICK e \in Store :
          /\ Written(d, <<p>>, e)
          /\ e.identity = [d.identity EXCEPT ![w] = NoIdentity] /\ e.byCountry = d.byCountry
          /\ OnlyIdentities(d, e)
    BY <1>6
  <2> QED BY <2>1, <2>2
<1> QED BY <1>8, <1>9

-----------------------------------------------------------------------------
(* The rows of balances, from what is held *)

Plus(held, w, n) == [held EXCEPT ![w] = held[w] + n]
Minus(held, w, n) == [held EXCEPT ![w] = held[w] - n]
Holding(held) == {w \in Wallets : held[w] > 0}

Balances(d, held) ==
    /\ d.holder = held /\ d.portfolio = held
    /\ Meta(d) = [supply |-> SumFunction(held), holderCount |-> Cardinality(Holding(held))]

FewWallets == IsFiniteSet(Wallets) /\ Cardinality(Wallets) < CountModulus

LEMMA HoldingCounted ==
    ASSUME FewWallets, NEW held \in [Wallets -> Nat]
    PROVE  /\ SumFunction(held) \in Int
           /\ Cardinality(Holding(held)) \in Nat
           /\ Cardinality(Holding(held)) % CountModulus = Cardinality(Holding(held))
<1> DEFINE S == Holding(held)
<1>1. held \in [Wallets -> Int] /\ S \in SUBSET Wallets
  BY DEF Holding
<1> HIDE DEF S
<1>2. Cardinality(S) \in Nat /\ Cardinality(S) <= Cardinality(Wallets)
  BY <1>1, FS_Subset, FS_CardinalityType DEF FewWallets
<1>3. Cardinality(Wallets) \in Nat
  BY FS_CardinalityType DEF FewWallets
<1>4. Cardinality(S) % CountModulus = Cardinality(S)
  BY <1>2, <1>3, CountAssumption DEF FewWallets
<1>5. SumFunction(held) \in Int
  BY <1>1, SumFunctionType DEF FewWallets
<1> QED BY <1>2, <1>4, <1>5 DEF S

\* One balance changes.
LEMMA HoldingChanges ==
    ASSUME FewWallets, NEW held \in [Wallets -> Nat], NEW w \in Wallets,
           NEW new \in [Wallets -> Nat], \A v \in Wallets \ {w} : new[v] = held[v]
    PROVE  /\ SumFunction(new) = SumFunction(held) - held[w] + new[w]
           /\ Cardinality(Holding(new)) =
                Cardinality(Holding(held)) - (IF held[w] = 0 THEN 0 ELSE 1)
                                           + (IF new[w] = 0 THEN 0 ELSE 1)
<1>1. new[w] \in Nat /\ held[w] \in Nat /\ IsFiniteSet(Wallets)
  BY DEF FewWallets
<1>2. SumFunction(new) = SumFunction(held) - held[w] + new[w]
  <2>1. held \in [Wallets -> Int] /\ new \in [Wallets -> Int]
    OBVIOUS
  <2> QED BY <1>1, <2>1, SumChange
<1> DEFINE S == Holding(held)
           T == Holding(new)
           R == S \ {w}
<1>3. /\ S = IF held[w] = 0 THEN R ELSE R \cup {w}
      /\ T = IF new[w] = 0 THEN R ELSE R \cup {w}
      /\ S \in SUBSET Wallets /\ R \in SUBSET Wallets /\ w \notin R
  BY <1>1 DEF Holding
<1> HIDE DEF S, T, R
<1>4. IsFiniteSet(R) /\ Cardinality(R) \in Nat
  BY <1>3, FS_Subset, FS_CardinalityType DEF FewWallets
<1>5. Cardinality(R \cup {w}) = Cardinality(R) + 1
  BY <1>3, <1>4, FS_AddElement
<1>6. Cardinality(T) = Cardinality(S) - (IF held[w] = 0 THEN 0 ELSE 1)
                                      + (IF new[w] = 0 THEN 0 ELSE 1)
  BY <1>3, <1>4, <1>5
<1> QED BY <1>1, <1>2, <1>6 DEF S, T

LEMMA MintRecorded ==
    ASSUME NEW d \in Store, NEW w \in Wallets, NEW n \in Nat
    PROVE  \E e \in Store :
             /\ Written(d, RecordMint(d, w, n), e) /\ OnlyBalances(d, e)
             /\ \A held \in [Wallets -> Nat] :
                  FewWallets /\ n > 0 /\ Balances(d, held) => Balances(e, Plus(held, w, n))
<1> DEFINE balance == d.holder[w] + n
           supply == Meta(d).supply + n
           count == Meta(d).holderCount + (IF d.holder[w] = 0 THEN 1 ELSE 0)
<1>1. balance \in Int /\ supply \in Int /\ count \in Int
  BY RowsTyped
<1>2. RecordMint(d, w, n) = PutHolderBalance(w, balance) \o PutMeta(supply, count)
  BY DEF RecordMint
<1> HIDE DEF balance, supply, count
<1>3. PICK e \in Store :
        /\ Written(d, PutHolderBalance(w, balance) \o PutMeta(supply, count), e)
        /\ e.holder = [d.holder EXCEPT ![w] = balance]
        /\ e.portfolio = [d.portfolio EXCEPT ![w] = balance]
        /\ Meta(e) = [supply |-> supply, holderCount |-> count % CountModulus]
        /\ OnlyBalances(d, e)
  BY <1>1, BalanceWritten
<1>4. ASSUME NEW held \in [Wallets -> Nat], FewWallets, n > 0, Balances(d, held)
      PROVE  Balances(e, Plus(held, w, n))
  <2> DEFINE new == Plus(held, w, n)
  <2>1. held[w] \in Nat /\ held[w] + n \in Nat /\ held[w] + n # 0
    BY <1>4
  <2>2. /\ new \in [Wallets -> Nat]
        /\ SumFunction(new) = SumFunction(held) - held[w] + (held[w] + n)
        /\ Cardinality(Holding(new)) =
             Cardinality(Holding(held)) - (IF held[w] = 0 THEN 0 ELSE 1) + 1
    <3>1. /\ new \in [Wallets -> Nat] /\ new[w] = held[w] + n
          /\ \A v \in Wallets \ {w} : new[v] = held[v]
      BY <2>1 DEF Plus
    <3> HIDE DEF new
    <3> QED BY <1>4, <2>1, <3>1, HoldingChanges
  <2>3. balance = held[w] + n /\ e.holder = new /\ e.portfolio = new
    BY <1>3, <1>4 DEF Balances, balance, Plus
  <2> HIDE DEF new
  <2>4. supply = SumFunction(new) /\ count = Cardinality(Holding(new))
    BY <1>4, <2>1, <2>2, HoldingCounted DEF Balances, supply, count
  <2>5. Meta(e) = [supply |-> SumFunction(new), holderCount |-> Cardinality(Holding(new))]
    BY <1>3, <1>4, <2>2, <2>4, HoldingCounted
  <2> QED BY <2>3, <2>5 DEF Balances, new
<1> QED BY <1>2, <1>3, <1>4

LEMMA BurnRecorded ==
    ASSUME NEW d \in Store, NEW w \in Wallets, NEW n \in Nat
    PROVE  \E e \in Store :
             /\ Written(d, RecordBurn(d, w, n), e) /\ OnlyBalances(d, e)
             /\ \A held \in [Wallets -> Nat] :
                  FewWallets /\ n > 0 /\ n <= held[w] /\ Balances(d, held)
                    => Balances(e, Minus(held, w, n))
<1> DEFINE left == d.holder[w] - n
           balance == IF left <= 0 THEN 0 ELSE left
           supply == Meta(d).supply - n
           count == Meta(d).holderCount - (IF d.holder[w] <= n THEN 1 ELSE 0)
<1>1. balance \in Int /\ supply \in Int /\ count \in Int
  BY RowsTyped
<1>2. RecordBurn(d, w, n) = PutHolderBalance(w, balance) \o PutMeta(supply, count)
  BY DEF RecordBurn, PutOrDelete
<1> HIDE DEF balance, supply, count
<1>3. PICK e \in Store :
        /\ Written(d, PutHolderBalance(w, balance) \o PutMeta(supply, count), e)
        /\ e.holder = [d.holder EXCEPT ![w] = balance]
        /\ e.portfolio = [d.portfolio EXCEPT ![w] = balance]
        /\ Meta(e) = [supply |-> supply, holderCount |-> count % CountModulus]
        /\ OnlyBalances(d, e)
  BY <1>1, BalanceWritten
<1>4. ASSUME NEW held \in [Wallets -> Nat], FewWallets, n > 0, n <= held[w], Balances(d, held)
      PROVE  Balances(e, Minus(held, w, n))
  <2> DEFINE new == Minus(held, w, n)
  <2>1. held[w] \in Nat /\ held[w] - n \in Nat /\ held[w] # 0
    BY <1>4
  <2>2. /\ new \in [Wallets -> Nat]
        /\ SumFunction(new) = SumFunction(held) - held[w] + (held[w] - n)
        /\ Cardinality(Holding(new)) =
             Cardinality(Holding(held)) - 1 + (IF held[w] - n = 0 THEN 0 ELSE 1)
    <3>1. /\ new \in [Wallets -> Nat] /\ new[w] = held[w] - n
          /\ \A v \in Wallets \ {w} : new[v] = held[v]
      BY <2>1 DEF Minus
    <3> HIDE DEF new
    <3> QED BY <1>4, <2>1, <3>1, HoldingChanges
  <2>3. balance = held[w] - n /\ e.holder = new /\ e.portfolio = new
    <3>1. d.holder = held /\ d.portfolio = held
      BY <1>4 DEF Balances
    <3>2. balance = held[w] - n
      BY <2>1, <3>1 DEF balance
    <3> QED BY <1>3, <3>1, <3>2 DEF Minus
  <2> HIDE DEF new
  <2>4. supply = SumFunction(new) /\ count = Cardinality(Holding(new))
    BY <1>4, <2>1, <2>2, HoldingCounted DEF Balances, supply, count
  <2>5. Meta(e) = [supply |-> SumFunction(new), holderCount |-> Cardinality(Holding(new))]
    BY <1>3, <1>4, <2>2, <2>4, HoldingCounted
  <2> QED BY <2>3, <2>5 DEF Balances, new
<1> QED BY <1>2, <1>3, <1>4

\* The receiver may be the sender.
LEMMA TransferRecorded ==
    ASSUME NEW d \in Store, NEW from \in Wallets, NEW to \in Wallets, NEW n \in Nat
    PROVE  \E e \in Store :
             /\ Written(d, RecordTransfer(d, from, to, n), e) /\ OnlyBalances(d, e)
             /\ \A held \in [Wallets -> Nat] :
                  FewWallets /\ n > 0 /\ n <= held[from] /\ Balances(d, held)
                    => Balances(e, Plus(Minus(held, from, n), to, n))
<1> DEFINE left == IF d.holder[from] <= n THEN 0 ELSE d.holder[from] - n
           before == IF to = from THEN left ELSE d.holder[to]
           after == before + n
           supply == Meta(d).supply
           count == Meta(d).holderCount - (IF left = 0 THEN 1 ELSE 0)
                                        + (IF before = 0 THEN 1 ELSE 0)
<1>1. left \in Int /\ before \in Int /\ after \in Int /\ supply \in Int /\ count \in Int
  BY RowsTyped
<1>2. RecordTransfer(d, from, to, n) =
        PutHolderBalance(from, left) \o PutHolderBalance(to, after) \o PutMeta(supply, count)
  BY Zenon DEF RecordTransfer
<1> HIDE DEF left, before, after, supply, count
<1>3. PICK e \in Store :
        /\ Written(d, PutHolderBalance(from, left) \o PutHolderBalance(to, after)
                        \o PutMeta(supply, count), e)
        /\ e.holder = [[d.holder EXCEPT ![from] = left] EXCEPT ![to] = after]
        /\ e.portfolio = [[d.portfolio EXCEPT ![from] = left] EXCEPT ![to] = after]
        /\ Meta(e) = [supply |-> supply, holderCount |-> count % CountModulus]
        /\ OnlyBalances(d, e)
  BY <1>1, TwoBalancesWritten
<1>4. ASSUME NEW held \in [Wallets -> Nat], FewWallets, n > 0, n <= held[from], Balances(d, held)
      PROVE  Balances(e, Plus(Minus(held, from, n), to, n))
  <2> DEFINE mid == Minus(held, from, n)
             new == Plus(mid, to, n)
  <2>1. held[from] \in Nat /\ held[from] - n \in Nat /\ held[from] # 0
    BY <1>4
  <2>2. /\ mid \in [Wallets -> Nat]
        /\ SumFunction(mid) = SumFunction(held) - held[from] + (held[from] - n)
        /\ Cardinality(Holding(mid)) =
             Cardinality(Holding(held)) - 1 + (IF held[from] - n = 0 THEN 0 ELSE 1)
    <3>1. /\ mid \in [Wallets -> Nat] /\ mid[from] = held[from] - n
          /\ \A v \in Wallets \ {from} : mid[v] = held[v]
      BY <2>1 DEF Minus
    <3> HIDE DEF mid
    <3> QED BY <1>4, <2>1, <3>1, HoldingChanges
  <2>3. mid = [held EXCEPT ![from] = held[from] - n]
    BY DEF Minus
  <2> HIDE DEF mid
  <2>4. mid[to] \in Nat /\ mid[to] + n \in Nat /\ mid[to] + n # 0
    BY <1>4, <2>2
  <2>5. /\ new \in [Wallets -> Nat]
        /\ SumFunction(new) = SumFunction(mid) - mid[to] + (mid[to] + n)
        /\ Cardinality(Holding(new)) =
             Cardinality(Holding(mid)) - (IF mid[to] = 0 THEN 0 ELSE 1) + 1
    <3>1. /\ new \in [Wallets -> Nat] /\ new[to] = mid[to] + n
          /\ \A v \in Wallets \ {to} : new[v] = mid[v]
      BY <2>2, <2>4 DEF Plus
    <3>2. FewWallets /\ mid \in [Wallets -> Nat]
      BY <1>4, <2>2
    <3> HIDE DEF new
    <3>3. /\ SumFunction(new) = SumFunction(mid) - mid[to] + new[to]
          /\ Cardinality(Holding(new)) =
               Cardinality(Holding(mid)) - (IF mid[to] = 0 THEN 0 ELSE 1)
                                         + (IF new[to] = 0 THEN 0 ELSE 1)
      BY <3>1, <3>2, HoldingChanges
    <3> QED BY <2>4, <3>1, <3>3
  <2>6. d.holder = held /\ d.portfolio = held
    BY <1>4 DEF Balances
  <2>7. left = held[from] - n /\ before = mid[to] /\ after = mid[to] + n
    <3>1. left = held[from] - n
      BY <2>1, <2>6 DEF left
    <3>2. before = mid[to]
      BY <2>3, <2>6, <3>1 DEF before
    <3> QED BY <3>1, <3>2 DEF after
  <2>8. e.holder = new /\ e.portfolio = new
    BY <1>3, <2>3, <2>6, <2>7 DEF Plus
  <2> HIDE DEF new
  <2>9. supply = SumFunction(new) /\ count = Cardinality(Holding(new))
    <3>1. /\ SumFunction(held) \in Int /\ Cardinality(Holding(held)) \in Nat
          /\ SumFunction(mid) \in Int /\ Cardinality(Holding(mid)) \in Nat
      BY <1>4, <2>2, HoldingCounted
    <3>2. supply = SumFunction(held)
      BY <1>4 DEF Balances, supply
    <3>3. count = Cardinality(Holding(held)) - (IF held[from] - n = 0 THEN 1 ELSE 0)
                                             + (IF mid[to] = 0 THEN 1 ELSE 0)
      BY <1>4, <2>7 DEF Balances, count
    <3> QED BY <2>1, <2>2, <2>4, <2>5, <3>1, <3>2, <3>3
  <2>10. Meta(e) = [supply |-> SumFunction(new), holderCount |-> Cardinality(Holding(new))]
    BY <1>3, <1>4, <2>5, <2>9, HoldingCounted
  <2> QED BY <2>8, <2>10 DEF Balances, new, mid
<1> QED BY <1>2, <1>3, <1>4

-----------------------------------------------------------------------------
(* What a log tells of the contracts' state *)

SameHeld(s, t) == t.held = s.held
SameLaunch(s, t) == t.registered = s.registered /\ t.paused = s.paused /\ t.uri = s.uri
SameFrozen(s, t) == t.frozen = s.frozen /\ t.walletFrozen = s.walletFrozen
SameBinding(s, t) == t.identity = s.identity /\ t.country = s.country

NothingTold(s, t) == SameHeld(s, t) /\ SameLaunch(s, t) /\ SameFrozen(s, t) /\ SameBinding(s, t)

OnlyHeld(s, t) == SameLaunch(s, t) /\ SameFrozen(s, t) /\ SameBinding(s, t)
OnlyLaunch(s, t) == SameHeld(s, t) /\ SameFrozen(s, t) /\ SameBinding(s, t)
OnlyFrozen(s, t) == SameHeld(s, t) /\ SameLaunch(s, t) /\ SameBinding(s, t)
OnlyBinding(s, t) == SameHeld(s, t) /\ SameLaunch(s, t) /\ SameFrozen(s, t)

Positive(log) == 0 \notin Amounts => log.n > 0

Gains(s, log, t) ==
    Positive(log) /\ t.held = Plus(s.held, log.to, log.n) /\ OnlyHeld(s, t)

Loses(s, log, t) ==
    /\ Positive(log) /\ log.n <= s.held[log.from]
    /\ t.held = Minus(s.held, log.from, log.n) /\ OnlyHeld(s, t)

Sends(s, log, t) ==
    /\ Positive(log) /\ log.n <= s.held[log.from]
    /\ t.held = Plus(Minus(s.held, log.from, log.n), log.to, log.n) /\ OnlyHeld(s, t)

Freezes(s, log, t) ==
    /\ t.frozen = [s.frozen EXCEPT ![log.from] = (log.n = 1)]
    /\ t.walletFrozen = s.walletFrozen /\ OnlyFrozen(s, t)

FreezesWallet(s, log, t) ==
    /\ t.walletFrozen = [s.walletFrozen EXCEPT ![log.from] = (log.n = 1)]
    /\ t.frozen = s.frozen /\ OnlyFrozen(s, t)

Launches(s, t) ==
    ~s.registered /\ t.registered /\ t.paused = s.paused /\ OnlyLaunch(s, t)

Pauses(s, log, t) ==
    /\ s.registered /\ t.registered /\ t.paused = (log.kind = "AssetPaused") /\ t.uri = s.uri
    /\ OnlyLaunch(s, t)

Names(s, log, t) ==
    s.registered /\ t.registered /\ t.paused = s.paused /\ t.uri = log.n /\ OnlyLaunch(s, t)

\* Without the calls that move a country and tell no one.
CountriesTold == "move" \notin Traffic

Binds(s, log, t) ==
    /\ CountriesTold =>
         /\ t.identity = [s.identity EXCEPT ![log.from] = log.to]
         /\ t.country = [s.country EXCEPT ![log.from] = log.n]
    /\ OnlyBinding(s, t)

Unbinds(s, log, t) ==
    /\ CountriesTold =>
         /\ t.identity = [s.identity EXCEPT ![log.from] = NoOne]
         /\ t.country = [s.country EXCEPT ![log.from] = 0]
    /\ OnlyBinding(s, t)

\* The freezes that a recovery moves are in no log.
Recovers(s, log, t) ==
    /\ CountriesTold =>
         /\ log.from # log.to /\ s.identity[log.to] = NoOne
         /\ t.identity = [[s.identity EXCEPT ![log.to] = s.identity[log.from]]
                            EXCEPT ![log.from] = NoOne]
         /\ t.country = [[s.country EXCEPT ![log.to] = s.country[log.from]]
                           EXCEPT ![log.from] = 0]
    /\ SameHeld(s, t) /\ SameLaunch(s, t)

SupplyMove(log) == log.kind = "TransferSingle" /\ NoOne \in {log.from, log.to}
Moves(log) == log.kind = "TransferBatch" \/ (log.kind = "TransferSingle" /\ ~SupplyMove(log))
Tells(log) == log.kind \in Notices \cup {"PartialFreeze", "LockupSet", "ForcedTransfer"}

\* The calls that some logs need.
Emitted(log) ==
    /\ log.kind = "UnitMinted" => "mintUnit" \in Traffic
    /\ log.kind = "TransferBatch" => "batchTransfer" \in Traffic
    /\ log.kind = "WalletRecovered" => "recover" \in Traffic

Step(s, log, t) ==
    /\ Emitted(log)
    /\ log.kind \in {"Minted", "UnitMinted"} => Gains(s, log, t)
    /\ log.kind = "Burned" => Loses(s, log, t)
    /\ Moves(log) => Sends(s, log, t)
    /\ log.kind = "AssetFrozen" => Freezes(s, log, t)
    /\ log.kind = "WalletFrozen" => FreezesWallet(s, log, t)
    /\ log.kind = "AssetRegistered" => Launches(s, t)
    /\ log.kind \in {"AssetPaused", "AssetUnpaused"} => Pauses(s, log, t)
    /\ log.kind = "URI" => Names(s, log, t)
    /\ log.kind = "IdentityBound" => Binds(s, log, t)
    /\ log.kind = "IdentityUnbound" => Unbinds(s, log, t)
    /\ log.kind = "WalletRecovered" => Recovers(s, log, t)
    /\ Tells(log) \/ SupplyMove(log) => NothingTold(s, t)

\* The contracts' state as the logs tell it.
Seen(s) == IF CountriesTold THEN s ELSE [s EXCEPT !.country = [w \in Wallets |-> 0]]

Steps == {x \in ContractState \X Log \X ContractState : Step(x[1], x[2], x[3])}

Leads(s, list, t) == Walk(Steps, ContractState, Seen(s), list, Seen(t))

LEMMA SeenTyped ==
    ASSUME NEW s \in ContractState
    PROVE  /\ Seen(s) \in ContractState
           /\ CountriesTold => Seen(s) = s
           /\ Seen(s).held = s.held /\ SameLaunch(s, Seen(s)) /\ SameFrozen(s, Seen(s))
           /\ Seen(s).identity = s.identity
           /\ ~CountriesTold => Seen(s).country = [w \in Wallets |-> 0]
  BY DEF Seen, ContractState, SameLaunch, SameFrozen

LEMMA SeenStep ==
    ASSUME NEW s \in ContractState, NEW t \in ContractState, NEW log, Step(s, log, t)
    PROVE  Step(Seen(s), log, Seen(t))
<1>1. CASE CountriesTold
  BY <1>1, SeenTyped
<1>2. CASE ~CountriesTold
  <2> DEFINE a == Seen(s)
             b == Seen(t)
  <2>1. /\ a.held = s.held /\ a.registered = s.registered /\ a.paused = s.paused /\ a.uri = s.uri
        /\ a.frozen = s.frozen /\ a.walletFrozen = s.walletFrozen /\ a.identity = s.identity
    BY SeenTyped DEF SameLaunch, SameFrozen
  <2>2. /\ b.held = t.held /\ b.registered = t.registered /\ b.paused = t.paused /\ b.uri = t.uri
        /\ b.frozen = t.frozen /\ b.walletFrozen = t.walletFrozen /\ b.identity = t.identity
    BY SeenTyped DEF SameLaunch, SameFrozen
  <2>3. a.country = b.country
    BY <1>2, SeenTyped
  <2> HIDE DEF a, b
  <2>4. /\ SameHeld(s, t) => SameHeld(a, b)
        /\ SameLaunch(s, t) => SameLaunch(a, b)
        /\ SameFrozen(s, t) => SameFrozen(a, b)
        /\ SameBinding(s, t) => SameBinding(a, b)
    BY <2>1, <2>2, <2>3 DEF SameHeld, SameLaunch, SameFrozen, SameBinding
  <2>5. /\ Gains(s, log, t) => Gains(a, log, b)
        /\ Loses(s, log, t) => Loses(a, log, b)
        /\ Sends(s, log, t) => Sends(a, log, b)
    BY <2>1, <2>2, <2>4, Zenon DEF Gains, Loses, Sends, OnlyHeld
  <2>6. /\ Freezes(s, log, t) => Freezes(a, log, b)
        /\ FreezesWallet(s, log, t) => FreezesWallet(a, log, b)
    BY <2>1, <2>2, <2>4, Zenon DEF Freezes, FreezesWallet, OnlyFrozen
  <2>7. /\ Launches(s, t) => Launches(a, b)
        /\ Pauses(s, log, t) => Pauses(a, log, b)
        /\ Names(s, log, t) => Names(a, log, b)
    BY <2>1, <2>2, <2>4, Zenon DEF Launches, Pauses, Names, OnlyLaunch
  <2>8. /\ Binds(s, log, t) => Binds(a, log, b)
        /\ Unbinds(s, log, t) => Unbinds(a, log, b)
        /\ Recovers(s, log, t) => Recovers(a, log, b)
    BY <1>2, <2>4, Zenon DEF Binds, Unbinds, Recovers, OnlyBinding
  <2>9. NothingTold(s, t) => NothingTold(a, b)
    BY <2>4, Zenon DEF NothingTold
  <2>10. Step(a, log, b)
    BY <2>5, <2>6, <2>7, <2>8, <2>9, SMTT(30) DEF Step
  <2> QED BY <2>10 DEF a, b
<1> QED BY <1>1, <1>2

LEMMA OneLog ==
    ASSUME NEW s \in ContractState, NEW t \in ContractState, NEW log \in Log, Step(s, log, t)
    PROVE  Leads(s, <<log>>, t)
<1>1. Seen(s) \in ContractState /\ Seen(t) \in ContractState /\ Step(Seen(s), log, Seen(t))
  BY SeenTyped, SeenStep
<1>2. Joins(Steps, Seen(s), log, Seen(t))
  BY <1>1 DEF Joins, Steps
<1> QED BY <1>1, <1>2, OneStep DEF Leads

LEMMA TwoLogs ==
    ASSUME NEW s \in ContractState, NEW m \in ContractState, NEW t \in ContractState,
           NEW log \in Log, NEW other \in Log, Step(s, log, m), Step(m, other, t)
    PROVE  Leads(s, <<log, other>>, t)
<1>1. Leads(s, <<log>>, m) /\ Leads(m, <<other>>, t)
  BY OneLog
<1>2. <<log>> \in Seq(Log) /\ <<other>> \in Seq(Log) /\ <<log>> \o <<other>> = <<log, other>>
  BY OneAndOne
<1>3. Walk(Steps, ContractState, Seen(s), <<log>> \o <<other>>, Seen(t))
  BY <1>1, <1>2, WalkOn DEF Leads
<1> QED BY <1>2, <1>3 DEF Leads

LEMMA NoLogs ==
    ASSUME NEW s \in ContractState, NEW t \in ContractState, Seen(t) = Seen(s)
    PROVE  Leads(s, <<>>, t)
  BY SeenTyped, NoSteps DEF Leads

\* A kind of log, and what it has to tell.
LEMMA StepOf ==
    ASSUME NEW s, NEW t, NEW log, Emitted(log)
    PROVE  /\ log.kind \in {"Minted", "UnitMinted"} /\ Gains(s, log, t) => Step(s, log, t)
           /\ log.kind = "Burned" /\ Loses(s, log, t) => Step(s, log, t)
           /\ Moves(log) /\ Sends(s, log, t) => Step(s, log, t)
           /\ log.kind = "AssetFrozen" /\ Freezes(s, log, t) => Step(s, log, t)
           /\ log.kind = "WalletFrozen" /\ FreezesWallet(s, log, t) => Step(s, log, t)
           /\ log.kind = "AssetRegistered" /\ Launches(s, t) => Step(s, log, t)
           /\ log.kind \in {"AssetPaused", "AssetUnpaused"} /\ Pauses(s, log, t) => Step(s, log, t)
           /\ log.kind = "URI" /\ Names(s, log, t) => Step(s, log, t)
           /\ log.kind = "IdentityBound" /\ Binds(s, log, t) => Step(s, log, t)
           /\ log.kind = "IdentityUnbound" /\ Unbinds(s, log, t) => Step(s, log, t)
           /\ log.kind = "WalletRecovered" /\ Recovers(s, log, t) => Step(s, log, t)
           /\ (Tells(log) \/ SupplyMove(log)) /\ NothingTold(s, t) => Step(s, log, t)
  BY DEF Step, Moves, SupplyMove, Tells, Notices, TokenNotices, AccountNotices,
         TokenAccountNotices, GroupNotices, OtherTokenNotices

LEMMA GainTells ==
    ASSUME NEW s \in ContractState, NEW w \in Wallets, NEW n \in Nat
    PROVE  Gained(s, w, n).held = Plus(s.held, w, n) /\ OnlyHeld(s, Gained(s, w, n))
  BY DEF ContractState, Gained, Plus, OnlyHeld, SameLaunch, SameFrozen, SameBinding

LEMMA LossTells ==
    ASSUME NEW s \in ContractState, NEW w \in Wallets, NEW n \in Nat
    PROVE  Lost(s, w, n).held = Minus(s.held, w, n) /\ OnlyHeld(s, Lost(s, w, n))
  BY DEF ContractState, Lost, Minus, OnlyHeld, SameLaunch, SameFrozen, SameBinding

LEMMA GivenTells ==
    ASSUME NEW s \in ContractState, NEW from \in Wallets, NEW to \in Wallets,
           NEW n \in Nat, n <= s.held[from]
    PROVE  /\ Given(s, from, to, n).held = Plus(Minus(s.held, from, n), to, n)
           /\ OnlyHeld(s, Given(s, from, to, n))
<1> DEFINE m == Lost(s, from, n)
<1>1. m \in ContractState /\ m.held = Minus(s.held, from, n) /\ OnlyHeld(s, m)
  BY LossTyped, LossTells
<1> HIDE DEF m
<1>2. Gained(m, to, n).held = Plus(m.held, to, n) /\ OnlyHeld(m, Gained(m, to, n))
  BY <1>1, GainTells
<1> QED BY <1>1, <1>2 DEF m, Given, OnlyHeld, SameLaunch, SameFrozen, SameBinding

LEMMA AmountPositive ==
    ASSUME NEW n \in Amounts
    PROVE  n \in Nat /\ (0 \notin Amounts => n > 0)
<1>1. n \in Nat
  BY ChainAssumption
<1> QED BY <1>1

LEMMA SupplyCallsRun ==
    ASSUME NEW s \in ContractState,
           NEW b, b \in Mint(s) \cup Burn(s) \/ (b \in MintUnit(s) /\ "mintUnit" \in Traffic)
    PROVE  Leads(s, b.logs, b.state)
<1>1. ASSUME NEW w \in Wallets, NEW n \in Amounts, NEW kind \in {"Minted", "UnitMinted"},
             kind = "UnitMinted" => "mintUnit" \in Traffic,
             b = Call(Gained(s, w, n), <<LogOf("TransferSingle", NoOne, w, n), LogOf(kind, NoOne, w, n)>>)
      PROVE  Leads(s, b.logs, b.state)
  <2> DEFINE t == Gained(s, w, n)
             first == LogOf("TransferSingle", NoOne, w, n)
             then == LogOf(kind, NoOne, w, n)
  <2>1. n \in Nat /\ (0 \notin Amounts => n > 0)
    BY AmountPositive
  <2>2. t \in ContractState /\ t.held = Plus(s.held, w, n) /\ OnlyHeld(s, t)
    BY <2>1, GainTyped, GainTells
  <2>3. first \in Log /\ then \in Log
    BY <2>1 DEF LogOf, Log, LogsOf
  <2>4. Emitted(first) /\ Emitted(then) /\ SupplyMove(first)
    BY <1>1 DEF LogOf, Emitted, SupplyMove
  <2>5. NothingTold(s, s)
    BY DEF NothingTold, SameHeld, SameLaunch, SameFrozen, SameBinding
  <2>6. Step(s, first, s)
    BY <2>4, <2>5, StepOf
  <2>7. then.kind \in {"Minted", "UnitMinted"} /\ then.to = w /\ then.n = n
    BY <1>1 DEF LogOf
  <2> HIDE DEF t, first, then
  <2>8. Step(s, then, t)
    <3>1. Gains(s, then, t)
      BY <2>1, <2>2, <2>7 DEF Gains, Positive
    <3> QED BY <2>4, <2>7, <3>1, StepOf
  <2>9. Leads(s, <<first, then>>, t)
    BY <2>2, <2>3, <2>6, <2>8, TwoLogs
  <2>10. b.logs = <<first, then>> /\ b.state = t
    BY <1>1 DEF Call, t, first, then
  <2> QED BY <2>9, <2>10
<1>2. ASSUME NEW w \in Wallets, NEW n \in Amounts, n <= s.held[w],
             b = Call(Lost(s, w, n), <<LogOf("TransferSingle", w, NoOne, n), LogOf("Burned", w, NoOne, n)>>)
      PROVE  Leads(s, b.logs, b.state)
  <2> DEFINE t == Lost(s, w, n)
             first == LogOf("TransferSingle", w, NoOne, n)
             then == LogOf("Burned", w, NoOne, n)
  <2>1. n \in Nat /\ (0 \notin Amounts => n > 0)
    BY AmountPositive
  <2>2. t \in ContractState /\ t.held = Minus(s.held, w, n) /\ OnlyHeld(s, t)
    BY <1>2, <2>1, LossTyped, LossTells
  <2>3. first \in Log /\ then \in Log
    BY <2>1 DEF LogOf, Log, LogsOf
  <2>4. Emitted(first) /\ Emitted(then) /\ SupplyMove(first)
    BY DEF LogOf, Emitted, SupplyMove
  <2>5. NothingTold(s, s)
    BY DEF NothingTold, SameHeld, SameLaunch, SameFrozen, SameBinding
  <2>6. Step(s, first, s)
    BY <2>4, <2>5, StepOf
  <2>7. then.kind = "Burned" /\ then.from = w /\ then.n = n
    BY DEF LogOf
  <2> HIDE DEF t, first, then
  <2>8. Step(s, then, t)
    <3>1. Loses(s, then, t)
      BY <1>2, <2>1, <2>2, <2>7 DEF Loses, Positive
    <3> QED BY <2>4, <2>7, <3>1, StepOf
  <2>9. Leads(s, <<first, then>>, t)
    BY <2>2, <2>3, <2>6, <2>8, TwoLogs
  <2>10. b.logs = <<first, then>> /\ b.state = t
    BY <1>2 DEF Call, t, first, then
  <2> QED BY <2>9, <2>10
<1>3. CASE b \in Mint(s)
  <2>1. PICK w \in Wallets, n \in Amounts :
          b = Call(Gained(s, w, n),
                   <<LogOf("TransferSingle", NoOne, w, n), LogOf("Minted", NoOne, w, n)>>)
    BY <1>3 DEF Mint, Mintable
  <2> QED BY <1>1, <2>1
<1>4. CASE b \in MintUnit(s) /\ "mintUnit" \in Traffic
  <2>1. PICK w \in Wallets, n \in Amounts :
          b = Call(Gained(s, w, n),
                   <<LogOf("TransferSingle", NoOne, w, n), LogOf("UnitMinted", NoOne, w, n)>>)
    BY <1>4 DEF MintUnit, Mintable
  <2> QED BY <1>1, <1>4, <2>1
<1>5. CASE b \in Burn(s)
  <2>1. PICK w \in Wallets, n \in Amounts :
          /\ n <= s.held[w]
          /\ b = Call(Lost(s, w, n),
                   <<LogOf("TransferSingle", w, NoOne, n), LogOf("Burned", w, NoOne, n)>>)
    BY <1>5 DEF Burn, Sendable
  <2> QED BY <1>2, <2>1
<1> QED BY <1>3, <1>4, <1>5

\* A transfer's own log, wherever it comes from.
LEMMA SendStep ==
    ASSUME NEW s \in ContractState, NEW from \in Wallets, NEW to \in Wallets,
           NEW n \in Nat, n <= s.held[from], 0 \notin Amounts => n > 0,
           NEW kind \in {"TransferSingle", "TransferBatch"},
           kind = "TransferBatch" => "batchTransfer" \in Traffic
    PROVE  /\ LogOf(kind, from, to, n) \in Log
           /\ Given(s, from, to, n) \in ContractState
           /\ Step(s, LogOf(kind, from, to, n), Given(s, from, to, n))
<1> DEFINE t == Given(s, from, to, n)
           log == LogOf(kind, from, to, n)
<1>1. /\ t \in ContractState
      /\ t.held = Plus(Minus(s.held, from, n), to, n)
      /\ OnlyHeld(s, t)
  BY GivenTyped, GivenTells
<1>2. log \in Log
  BY DEF LogOf, Log, LogsOf
<1>3. log.kind = kind /\ log.from = from /\ log.to = to /\ log.n = n
  BY DEF LogOf
<1> HIDE DEF t, log
<1>4. Emitted(log) /\ Moves(log)
  BY <1>3, ChainAssumption DEF Emitted, Moves, SupplyMove
<1>5. Sends(s, log, t)
  BY <1>1, <1>3 DEF Sends, Positive
<1>6. Step(s, log, t)
  BY <1>4, <1>5, StepOf
<1> QED BY <1>1, <1>2, <1>6 DEF t, log

LEMMA TransferCallsRun ==
    ASSUME NEW s \in ContractState,
           NEW b, b \in Transfer(s) \cup ForcedTransfer(s)
                    \/ (b \in BatchTransfer(s) /\ "batchTransfer" \in Traffic)
    PROVE  Leads(s, b.logs, b.state)
<1>1. CASE b \in Transfer(s)
  <2>1. PICK from \in Wallets, to \in Wallets, n \in Amounts :
          /\ n <= s.held[from]
          /\ b = Call(Given(s, from, to, n), <<LogOf("TransferSingle", from, to, n)>>)
    BY <1>1 DEF Transfer, Sendable
  <2>2. n \in Nat /\ (0 \notin Amounts => n > 0)
    BY AmountPositive
  <2>3. Leads(s, <<LogOf("TransferSingle", from, to, n)>>, Given(s, from, to, n))
    BY <2>1, <2>2, SendStep, OneLog
  <2> QED BY <2>1, <2>3 DEF Call
<1>2. CASE b \in BatchTransfer(s) /\ "batchTransfer" \in Traffic
  <2>1. PICK from \in Wallets, to \in Wallets, n \in Amounts :
          /\ n <= s.held[from]
          /\ b = Call(Given(s, from, to, n), <<LogOf("TransferBatch", from, to, n)>>)
    BY <1>2 DEF BatchTransfer, Sendable
  <2>2. n \in Nat /\ (0 \notin Amounts => n > 0)
    BY AmountPositive
  <2>3. Leads(s, <<LogOf("TransferBatch", from, to, n)>>, Given(s, from, to, n))
    BY <1>2, <2>1, <2>2, SendStep, OneLog
  <2> QED BY <2>1, <2>3 DEF Call
<1>3. CASE b \in ForcedTransfer(s)
  <2>1. PICK from \in Wallets, to \in Wallets, n \in Amounts :
          /\ n <= s.held[from]
          /\ b = Call(Given(s, from, to, n),
                   <<LogOf("TransferSingle", from, to, n), LogOf("ForcedTransfer", from, to, n)>>)
    BY <1>3 DEF ForcedTransfer, Sendable
  <2> DEFINE t == Given(s, from, to, n)
             first == LogOf("TransferSingle", from, to, n)
             then == LogOf("ForcedTransfer", from, to, n)
  <2>2. n \in Nat /\ (0 \notin Amounts => n > 0)
    BY AmountPositive
  <2>3. first \in Log /\ t \in ContractState /\ Step(s, first, t)
    BY <2>1, <2>2, SendStep
  <2>4. then \in Log
    BY <2>2 DEF LogOf, Log, LogsOf
  <2>5. Emitted(then) /\ Tells(then)
    BY DEF LogOf, Emitted, Tells
  <2>6. NothingTold(t, t)
    BY DEF NothingTold, SameHeld, SameLaunch, SameFrozen, SameBinding
  <2> HIDE DEF t, first, then
  <2>7. Leads(s, <<first, then>>, t)
    BY <2>3, <2>4, <2>5, <2>6, StepOf, TwoLogs
  <2> QED BY <2>1, <2>7 DEF Call, t, first, then
<1> QED BY <1>1, <1>2, <1>3

\* A call of one log.
LEMMA CallRuns ==
    ASSUME NEW s \in ContractState, NEW b \in Block, NEW t, NEW log,
           b = Call(t, <<log>>), Step(s, log, t)
    PROVE  Leads(s, b.logs, b.state)
<1>1. b.logs = <<log>> /\ b.state = t
  BY DEF Call
<1>2. t \in ContractState /\ <<log>> \in Seq(Log)
  BY <1>1 DEF Block
<1>3. log \in Log
  BY <1>2
<1> QED BY <1>1, <1>2, <1>3, OneLog

LEMMA FreezeCallsRun ==
    ASSUME NEW s \in ContractState,
           NEW b \in SetAssetWalletFrozen(s) \cup SetWalletFrozen(s)
                       \cup SetFrozenAmount(s) \cup SetLockupExpiry(s)
    PROVE  Leads(s, b.logs, b.state)
<1>1. b \in Block
  BY FreezeCallsTyped, RestraintCallsTyped
<1>2. CASE b \in SetAssetWalletFrozen(s)
  <2>1. PICK w \in Wallets, f \in BOOLEAN :
          b = Call([s EXCEPT !.frozen[w] = f],
                   <<LogOf("AssetFrozen", w, NoOne, IF f THEN 1 ELSE 0)>>)
    BY <1>2, SMTT(20) DEF SetAssetWalletFrozen, Call
  <2> DEFINE t == [s EXCEPT !.frozen[w] = f]
             log == LogOf("AssetFrozen", w, NoOne, IF f THEN 1 ELSE 0)
  <2>2. Freezes(s, log, t) /\ Emitted(log) /\ log.kind = "AssetFrozen"
    BY DEF Freezes, OnlyFrozen, Emitted, ContractState, LogOf,
           SameHeld, SameLaunch, SameBinding, SameFrozen
  <2>3. Step(s, log, t)
    <3> HIDE DEF t, log
    <3> QED BY <2>2, StepOf
  <2> HIDE DEF t, log
  <2>4. b = Call(t, <<log>>)
    BY <2>1 DEF t, log
  <2> QED BY <1>1, <2>3, <2>4, CallRuns
<1>3. CASE b \in SetWalletFrozen(s)
  <2>1. PICK w \in Wallets, f \in BOOLEAN :
          b = Call([s EXCEPT !.walletFrozen[w] = f],
                   <<LogOf("WalletFrozen", w, NoOne, IF f THEN 1 ELSE 0)>>)
    BY <1>3, SMTT(20) DEF SetWalletFrozen, Call
  <2> DEFINE t == [s EXCEPT !.walletFrozen[w] = f]
             log == LogOf("WalletFrozen", w, NoOne, IF f THEN 1 ELSE 0)
  <2>2. FreezesWallet(s, log, t) /\ Emitted(log) /\ log.kind = "WalletFrozen"
    BY DEF FreezesWallet, OnlyFrozen, Emitted, ContractState, LogOf,
           SameHeld, SameLaunch, SameBinding, SameFrozen
  <2>3. Step(s, log, t)
    <3> HIDE DEF t, log
    <3> QED BY <2>2, StepOf
  <2> HIDE DEF t, log
  <2>4. b = Call(t, <<log>>)
    BY <2>1 DEF t, log
  <2> QED BY <1>1, <2>3, <2>4, CallRuns
<1>4. CASE b \in SetFrozenAmount(s)
  <2>1. PICK w \in Wallets, n \in Amounts :
          b = Call([s EXCEPT !.frozenAmount[w] = n], <<LogOf("PartialFreeze", w, NoOne, n)>>)
    BY <1>4, SMTT(20) DEF SetFrozenAmount, Call
  <2> DEFINE t == [s EXCEPT !.frozenAmount[w] = n]
             log == LogOf("PartialFreeze", w, NoOne, n)
  <2>2. NothingTold(s, t) /\ Emitted(log) /\ Tells(log)
    BY DEF NothingTold, Emitted, Tells, ContractState, LogOf,
           SameHeld, SameLaunch, SameBinding, SameFrozen
  <2>3. Step(s, log, t)
    <3> HIDE DEF t, log
    <3> QED BY <2>2, StepOf
  <2> HIDE DEF t, log
  <2>4. b = Call(t, <<log>>)
    BY <2>1 DEF t, log
  <2> QED BY <1>1, <2>3, <2>4, CallRuns
<1>5. CASE b \in SetLockupExpiry(s)
  <2>1. PICK w \in Wallets, n \in Amounts :
          b = Call([s EXCEPT !.lockup[w] = n], <<LogOf("LockupSet", w, NoOne, n)>>)
    BY <1>5, SMTT(20) DEF SetLockupExpiry, Call
  <2> DEFINE t == [s EXCEPT !.lockup[w] = n]
             log == LogOf("LockupSet", w, NoOne, n)
  <2>2. NothingTold(s, t) /\ Emitted(log) /\ Tells(log)
    BY DEF NothingTold, Emitted, Tells, ContractState, LogOf,
           SameHeld, SameLaunch, SameBinding, SameFrozen
  <2>3. Step(s, log, t)
    <3> HIDE DEF t, log
    <3> QED BY <2>2, StepOf
  <2> HIDE DEF t, log
  <2>4. b = Call(t, <<log>>)
    BY <2>1 DEF t, log
  <2> QED BY <1>1, <2>3, <2>4, CallRuns
<1> QED BY <1>2, <1>3, <1>4, <1>5

LEMMA AssetCallsRun ==
    ASSUME NEW s \in ContractState,
           NEW b \in RegisterAsset(s) \cup PauseAsset(s) \cup SetAssetUri(s)
    PROVE  Leads(s, b.logs, b.state)
<1>1. b \in Block
  BY AssetCallsTyped
<1>2. CASE b \in RegisterAsset(s)
  <2>1. PICK w \in Wallets, u \in {v \in Uris : ~s.registered} :
          b = Call(Launched(s, u), <<LogOf("AssetRegistered", w, NoOne, 0)>>)
    BY <1>2 DEF RegisterAsset, Call
  <2> DEFINE t == Launched(s, u)
             log == LogOf("AssetRegistered", w, NoOne, 0)
  <2>2. Launches(s, t) /\ Emitted(log) /\ log.kind = "AssetRegistered"
    BY DEF Launches, OnlyLaunch, Emitted, Launched, ContractState, LogOf,
           SameHeld, SameBinding, SameFrozen
  <2> HIDE DEF t, log
  <2>3. Step(s, log, t)
    BY <2>2, StepOf
  <2>4. b = Call(t, <<log>>)
    BY <2>1 DEF t, log
  <2> QED BY <1>1, <2>3, <2>4, CallRuns
<1>3. CASE b \in PauseAsset(s)
  <2>1. PICK w \in {v \in Wallets : s.registered} :
          b = Call([s EXCEPT !.paused = ~@],
                   <<LogOf(IF s.paused THEN "AssetUnpaused" ELSE "AssetPaused", w, NoOne, 0)>>)
    BY <1>3 DEF PauseAsset
  <2> DEFINE t == [s EXCEPT !.paused = ~@]
             log == LogOf(IF s.paused THEN "AssetUnpaused" ELSE "AssetPaused", w, NoOne, 0)
  <2>2. Emitted(log) /\ log.kind \in {"AssetPaused", "AssetUnpaused"}
    BY DEF Emitted, LogOf
  <2>3. Pauses(s, log, t)
    <3>1. s.paused \in BOOLEAN /\ t.paused = ~s.paused /\ t.registered = s.registered /\ t.uri = s.uri
      BY DEF ContractState
    <3>2. OnlyLaunch(s, t)
      BY DEF OnlyLaunch, ContractState, SameHeld, SameBinding, SameFrozen
    <3>3. (log.kind = "AssetPaused") = ~s.paused
      BY <3>1 DEF LogOf
    <3>4. s.registered
      OBVIOUS
    <3> HIDE DEF t, log
    <3> QED BY <3>1, <3>2, <3>3, <3>4 DEF Pauses
  <2> HIDE DEF t, log
  <2>4. Step(s, log, t)
    BY <2>2, <2>3, StepOf
  <2>5. b = Call(t, <<log>>)
    BY <2>1 DEF t, log
  <2> QED BY <1>1, <2>4, <2>5, CallRuns
<1>4. CASE b \in SetAssetUri(s)
  <2>1. PICK u \in {v \in Uris : s.registered} :
          b = Call([s EXCEPT !.uri = u],
                   <<LogOf("URI", NoOne, NoOne, u), LogOf("AssetConfigUpdated", NoOne, NoOne, 0)>>)
    BY <1>4 DEF SetAssetUri
  <2> DEFINE t == [s EXCEPT !.uri = u]
             first == LogOf("URI", NoOne, NoOne, u)
             then == LogOf("AssetConfigUpdated", NoOne, NoOne, 0)
  <2>2. u \in Nat
    BY ChainAssumption, Zenon
  <2>3. t \in ContractState /\ first \in Log /\ then \in Log
    BY <2>2 DEF ContractState, LogOf, Log, LogsOf, TokenNotices
  <2>4. /\ first.kind = "URI" /\ Emitted(first)
        /\ Emitted(then) /\ Tells(then)
    BY DEF Emitted, Tells, LogOf, Notices, TokenNotices
  <2>5. Names(s, first, t)
    BY DEF Names, OnlyLaunch, LogOf, ContractState, SameHeld, SameBinding, SameFrozen
  <2>6. NothingTold(t, t)
    BY DEF NothingTold, SameHeld, SameLaunch, SameFrozen, SameBinding
  <2> HIDE DEF t, first, then
  <2>7. Step(s, first, t) /\ Step(t, then, t)
    BY <2>4, <2>5, <2>6, StepOf
  <2>8. Leads(s, <<first, then>>, t)
    BY <2>3, <2>7, TwoLogs
  <2> QED BY <2>1, <2>8 DEF Call, t, first, then
<1> QED BY <1>2, <1>3, <1>4

LEMMA NotifyRun ==
    ASSUME NEW s \in ContractState, NEW kind \in Notices, NEW b \in Notify(kind, s)
    PROVE  Leads(s, b.logs, b.state)
<1>1. b \in Block
  BY NotifyTyped
<1>2. PICK w \in IF kind \in AccountNotices \cup TokenAccountNotices THEN Wallets ELSE {NoOne} :
        b = Call(s, <<LogOf(kind, w, NoOne, 0)>>)
  BY DEF Notify
<1> DEFINE log == LogOf(kind, w, NoOne, 0)
<1>3. Emitted(log) /\ Tells(log)
  BY DEF Emitted, Tells, LogOf, Notices, TokenNotices, AccountNotices, TokenAccountNotices,
         GroupNotices, OtherTokenNotices
<1>4. NothingTold(s, s)
  BY DEF NothingTold, SameHeld, SameLaunch, SameFrozen, SameBinding
<1> HIDE DEF log
<1>5. Step(s, log, s)
  BY <1>3, <1>4, StepOf
<1>6. b = Call(s, <<log>>)
  BY <1>2 DEF log
<1> QED BY <1>1, <1>5, <1>6, CallRuns

LEMMA IdentityCallsRun ==
    ASSUME NEW s \in ContractState,
           NEW b, \/ b \in RegisterIdentity(s) \cup DeleteIdentity(s) \cup UpdateIdentity(s)
                  \/ b \in UpdateCountry(s) /\ "move" \in Traffic
    PROVE  Leads(s, b.logs, b.state)
<1>1. b \in Block
  BY IdentityCallsTyped
<1>2. CASE b \in RegisterIdentity(s)
  <2>1. PICK w \in Wallets, i \in Identities, c \in Countries : b = Registered(s, w, i, c)
    BY <1>2 DEF RegisterIdentity
  <2> DEFINE t == [s EXCEPT !.identity[w] = i, !.country[w] = c]
             log == LogOf("IdentityBound", w, i, c)
  <2>2. Emitted(log) /\ log.kind = "IdentityBound"
    BY DEF Emitted, LogOf
  <2>3. Binds(s, log, t)
    BY DEF Binds, OnlyBinding, LogOf, ContractState, SameHeld, SameLaunch, SameFrozen
  <2>4. b = Call(t, <<log>>)
    BY <2>1, Zenon DEF Registered, t, log
  <2> HIDE DEF t, log
  <2>5. Step(s, log, t)
    BY <2>2, <2>3, StepOf
  <2> QED BY <1>1, <2>4, <2>5, CallRuns
<1>3. CASE b \in DeleteIdentity(s)
  <2>1. PICK w \in Wallets :
          b = Call([s EXCEPT !.identity[w] = NoOne, !.country[w] = 0],
                   <<LogOf("IdentityUnbound", w, NoOne, 0)>>)
    BY <1>3, Zenon DEF DeleteIdentity
  <2> DEFINE t == [s EXCEPT !.identity[w] = NoOne, !.country[w] = 0]
             log == LogOf("IdentityUnbound", w, NoOne, 0)
  <2>2. Emitted(log) /\ log.kind = "IdentityUnbound"
    BY DEF Emitted, LogOf
  <2>3. Unbinds(s, log, t)
    BY DEF Unbinds, OnlyBinding, LogOf, ContractState, SameHeld, SameLaunch, SameFrozen
  <2> HIDE DEF t, log
  <2>4. b = Call(t, <<log>>)
    BY <2>1 DEF t, log
  <2>5. Step(s, log, t)
    BY <2>2, <2>3, StepOf
  <2> QED BY <1>1, <2>4, <2>5, CallRuns
<1>4. CASE b \in UpdateIdentity(s)
  <2>1. PICK w \in Wallets, i \in Identities :
          b = Call([s EXCEPT !.identity[w] = i], <<LogOf("IdentityBound", w, i, s.country[w])>>)
    BY <1>4, SMTT(20) DEF UpdateIdentity, Call
  <2> DEFINE t == [s EXCEPT !.identity[w] = i]
             log == LogOf("IdentityBound", w, i, s.country[w])
  <2>2. Emitted(log) /\ log.kind = "IdentityBound"
    BY DEF Emitted, LogOf
  <2>3. Binds(s, log, t)
    <3>1. t.country = [s.country EXCEPT ![w] = s.country[w]]
      BY DEF ContractState
    <3>2. t.identity = [s.identity EXCEPT ![w] = i]
      BY DEF ContractState
    <3>3. OnlyBinding(s, t)
      BY DEF OnlyBinding, ContractState, SameHeld, SameLaunch, SameFrozen
    <3>4. log.from = w /\ log.to = i /\ log.n = s.country[w]
      BY DEF LogOf
    <3> HIDE DEF t, log
    <3> QED BY <3>1, <3>2, <3>3, <3>4 DEF Binds
  <2> HIDE DEF t, log
  <2>4. b = Call(t, <<log>>)
    BY <2>1 DEF t, log
  <2>5. Step(s, log, t)
    BY <2>2, <2>3, StepOf
  <2> QED BY <1>1, <2>4, <2>5, CallRuns
<1>5. CASE b \in UpdateCountry(s) /\ "move" \in Traffic
  <2>1. PICK w \in Wallets, c \in Countries : b = Call([s EXCEPT !.country[w] = c], <<>>)
    BY <1>5, SMTT(20) DEF UpdateCountry, Call
  <2> DEFINE t == [s EXCEPT !.country[w] = c]
  <2>2. t \in ContractState
    BY <1>1, <2>1 DEF Block, Call
  <2>3. Seen(t) = Seen(s)
    <3>1. Seen(t) = [t EXCEPT !.country = [v \in Wallets |-> 0]]
      BY <1>5 DEF Seen, CountriesTold
    <3>2. Seen(s) = [s EXCEPT !.country = [v \in Wallets |-> 0]]
      BY <1>5 DEF Seen, CountriesTold
    <3> QED BY <3>1, <3>2 DEF ContractState
  <2> HIDE DEF t
  <2>4. Leads(s, <<>>, t)
    BY <2>2, <2>3, NoLogs
  <2> QED BY <2>1, <2>4 DEF Call, t
<1> QED BY <1>2, <1>3, <1>4, <1>5

LEMMA RecoveryRuns ==
    ASSUME NEW s \in ContractState, NEW b \in RecoverWallet(s), "recover" \in Traffic
    PROVE  Leads(s, b.logs, b.state)
<1>1. b \in Block
  BY RecoveryTyped
<1>2. PICK lost \in Wallets, new \in Wallets :
        new # lost /\ ~Bound(s, new) /\ b = Recovered(s, lost, new)
  BY DEF RecoverWallet
<1> DEFINE n == s.held[lost]
           m == Given(s, lost, new, n)
           log == LogOf("WalletRecovered", lost, new, 0)
           t == b.state
           identity == [m.identity EXCEPT ![new] = s.identity[lost], ![lost] = NoOne]
           country == [m.country EXCEPT ![new] = s.country[lost], ![lost] = 0]
           walletFrozen == FlagMoved(m.walletFrozen, lost, new)
           frozen == FlagMoved(m.frozen, lost, new)
           frozenAmount == NumberMoved(m.frozenAmount, lost, new)
           lockup == NumberMoved(m.lockup, lost, new)
           begins == IF n = 0 THEN <<>> ELSE <<LogOf("TransferSingle", lost, new, n)>>
<1>3. n \in Nat /\ n <= n /\ new \in Wallets /\ new # lost /\ ~Bound(s, new)
  BY <1>2 DEF ContractState
<1>4. /\ m \in ContractState
      /\ m.held = Plus(Minus(s.held, lost, n), new, n)
      /\ OnlyHeld(s, m)
  BY <1>3, GivenTyped, GivenTells
<1>5. b = Call([m EXCEPT !.identity = identity, !.country = country,
                         !.walletFrozen = walletFrozen, !.frozen = frozen,
                         !.frozenAmount = frozenAmount, !.lockup = lockup],
               begins \o <<log>>)
  BY <1>2, Zenon DEF Recovered
<1> HIDE DEF m, identity, country, walletFrozen, frozen, frozenAmount, lockup, begins, log
<1>6. /\ t.held = m.held /\ t.registered = m.registered /\ t.paused = m.paused /\ t.uri = m.uri
      /\ t.identity = identity /\ t.country = country
  BY <1>4, <1>5 DEF Call, ContractState
<1>7. b.logs = begins \o <<log>>
  BY <1>5 DEF Call
<1>8. /\ log \in Log /\ log.kind = "WalletRecovered" /\ log.from = lost /\ log.to = new
      /\ Emitted(log)
  BY <1>3 DEF log, LogOf, Log, LogsOf, Emitted
<1>9. Recovers(m, log, t)
  <2>1. /\ identity = [[s.identity EXCEPT ![new] = s.identity[lost]] EXCEPT ![lost] = NoOne]
        /\ country = [[s.country EXCEPT ![new] = s.country[lost]] EXCEPT ![lost] = 0]
        /\ m.identity = s.identity /\ m.country = s.country
    BY <1>4 DEF identity, country, OnlyHeld, SameBinding
  <2>2. s.identity[new] = NoOne
    BY <1>3 DEF Bound
  <2> QED BY <1>3, <1>6, <1>8, <2>1, <2>2 DEF Recovers, SameHeld, SameLaunch
<1>10. t \in ContractState
  BY <1>1 DEF Block
<1>11. Leads(m, <<log>>, t)
  <2> HIDE DEF t
  <2> QED BY <1>4, <1>8, <1>9, <1>10, StepOf, OneLog
<1>12. begins \in Seq(Log) /\ Leads(s, begins, m)
  <2>1. CASE n = 0
    <3>1. m.held = s.held
      <4> DEFINE less == Minus(s.held, lost, n)
      <4>1. s.held \in [Wallets -> Nat]
        BY DEF ContractState
      <4>2. less = s.held
        BY <2>1, <4>1 DEF Minus
      <4>3. Plus(less, new, n) = s.held
        BY <1>3, <2>1, <4>1, <4>2 DEF Plus
      <4> QED BY <1>4, <4>3
    <3>2. m = s
      <4>1. Gained(Lost(s, lost, 0), new, 0) \in ContractState
        BY <1>4, <2>1 DEF m, Given
      <4>2. m = [s EXCEPT !.held = m.held]
        <5> DEFINE l == Lost(s, lost, n)
        <5>1. l = [s EXCEPT !.held = l.held] /\ l \in ContractState
          BY <1>3, LossTyped DEF Lost, ContractState
        <5> HIDE DEF l
        <5>2. m = [l EXCEPT !.held = m.held]
          BY <5>1 DEF m, l, Given, Gained, ContractState
        <5> QED BY <5>1, <5>2 DEF ContractState
      <4> QED BY <3>1, <4>2 DEF ContractState
    <3> QED BY <1>4, <2>1, <3>2, NoLogs DEF begins
  <2>2. CASE n # 0
    <3>1. begins = <<LogOf("TransferSingle", lost, new, n)>>
      BY <2>2 DEF begins
    <3>2. /\ LogOf("TransferSingle", lost, new, n) \in Log
          /\ Step(s, LogOf("TransferSingle", lost, new, n), m)
      BY <1>3, <2>2, SendStep DEF m
    <3>3. Leads(s, begins, m)
      BY <1>4, <3>1, <3>2, OneLog
    <3> QED BY <3>1, <3>2, <3>3
  <2> QED BY <2>1, <2>2
<1>13. <<log>> \in Seq(Log)
  BY <1>8
<1>14. Leads(s, begins \o <<log>>, t)
  <2> HIDE DEF t
  <2> QED BY <1>11, <1>12, <1>13, WalkOn DEF Leads
<1> QED BY <1>7, <1>14

\* The logs of any call tell its way from state to state.
LEMMA CallsRun ==
    ASSUME NEW s \in ContractState, NEW b \in Calls(Traffic, s)
    PROVE  b.logs \in Seq(Log) /\ Leads(s, b.logs, b.state)
<1>1. PICK kind \in Traffic : b \in CallsOf(kind, s)
  BY DEF Calls
<1>2. kind \in CallKinds /\ kind \in Traffic
  BY ChainAssumption
<1>3. \/ b \in Mint(s) \cup Burn(s) \/ (b \in MintUnit(s) /\ "mintUnit" \in Traffic)
      \/ \/ b \in Transfer(s) \cup ForcedTransfer(s)
         \/ b \in BatchTransfer(s) /\ "batchTransfer" \in Traffic
      \/ b \in RegisterAsset(s) \cup PauseAsset(s) \cup SetAssetUri(s)
      \/ b \in SetAssetWalletFrozen(s) \cup SetWalletFrozen(s)
                 \cup SetFrozenAmount(s) \cup SetLockupExpiry(s)
      \/ \/ b \in RegisterIdentity(s) \cup DeleteIdentity(s) \cup UpdateIdentity(s)
         \/ b \in UpdateCountry(s) /\ "move" \in Traffic
      \/ b \in RecoverWallet(s) /\ "recover" \in Traffic
      \/ kind \in Notices /\ b \in Notify(kind, s)
  BY <1>1, <1>2, SMT DEF CallsOf, CallKinds
<1>4. Leads(s, b.logs, b.state)
  BY <1>3, SupplyCallsRun, TransferCallsRun, AssetCallsRun, FreezeCallsRun, IdentityCallsRun,
     RecoveryRuns, NotifyRun, Zenon
<1>5. b \in Block
  BY ChainAssumption, CallsTyped
<1> QED BY <1>4, <1>5 DEF Block

\* The logs of a block, in the order of its calls, lead from the block before it.
LEMMA BlocksRun ==
    ASSUME NEW s \in ContractState, NEW b \in Blocks(Traffic, s)
    PROVE  Leads(s, b.logs, b.state)
<1>1. CASE b = Call(s, <<>>)
  BY <1>1, NoLogs DEF Call
<1>2. CASE b \in Calls(Traffic, s)
  BY <1>2, CallsRun
<1>3. ASSUME NEW a \in Calls(Traffic, s), NEW c \in Calls(Traffic, a.state),
             b = Call(c.state, a.logs \o c.logs)
      PROVE  Leads(s, b.logs, b.state)
  <2>1. a.state \in ContractState
    BY ChainAssumption, CallsTyped DEF Block
  <2>2. a.logs \in Seq(Log) /\ Leads(s, a.logs, a.state)
    BY CallsRun
  <2>3. c.logs \in Seq(Log) /\ Leads(a.state, c.logs, c.state)
    BY <2>1, CallsRun
  <2>4. Leads(s, a.logs \o c.logs, c.state)
    BY <2>2, <2>3, WalkOn DEF Leads
  <2> QED BY <1>3, <2>4 DEF Call
<1> QED BY <1>1, <1>2, <1>3 DEF Blocks

-----------------------------------------------------------------------------
(* The chain, log by log *)

\* Every block is a walk from the state of the one before it.
ChainRuns ==
    \A b \in 1..Len(chain) :
        /\ Leads(StateAt(b - 1), chain[b].logs, StateAt(b))
        /\ Len(chain[b].logs) <= MaxLogs

LEMMA StateTyped ==
    ASSUME TypeOK, NEW b \in 0..Len(chain)
    PROVE  StateAt(b) \in ContractState
<1>1. Genesis \in ContractState
  BY DEF Genesis, ContractState
<1>2. CASE b # 0
  <2>1. chain[b] \in Block
    BY <1>2 DEF TypeOK
  <2> QED BY <1>2, <2>1 DEF StateAt, Block
<1> QED BY <1>1, <1>2 DEF StateAt

LEMMA NewBlockRuns ==
    ASSUME IInv, MineBlock(Traffic)
    PROVE  LET n == Len(chain) + 1 IN
           Leads(StateAt(n - 1), chain'[n].logs, chain'[n].state) /\ Len(chain'[n].logs) <= MaxLogs
<1>1. PICK b \in Blocks(Traffic, Tip) : chain' = Append(chain, b)
  BY DEF MineBlock, NewBlock
<1>2. chain \in Seq(Block) /\ Len(chain) \in Nat /\ Tip = StateAt(Len(chain))
  BY DEF IInv, TypeOK, Tip
<1>3. Tip \in ContractState
  BY <1>2, StateTyped DEF IInv
<1>4. Leads(Tip, b.logs, b.state)
  BY <1>3, BlocksRun
<1>5. Len(b.logs) <= MaxLogs
  <2>1. b = Call(Tip, <<>>) \/ Len(b.logs) <= MaxLogs
    BY Zenon DEF Blocks
  <2>2. CASE b = Call(Tip, <<>>)
    <3>1. b.logs = <<>>
      BY <2>2 DEF Call
    <3> QED BY <3>1, ChainAssumption
  <2> QED BY <2>1, <2>2
<1>6. chain'[Len(chain) + 1] = b /\ (Len(chain) + 1) - 1 = Len(chain)
  BY <1>1, <1>2
<1> QED BY <1>2, <1>4, <1>5, <1>6

\* What was on the chain stays, with its states.
LEMMA ChainStays ==
    ASSUME IInv, [Next]_vars
    PROVE  /\ Len(chain) <= Len(chain')
           /\ \A k \in 1..Len(chain) : chain'[k] = chain[k]
           /\ \A b \in 0..Len(chain) : StateAt(b)' = StateAt(b)
<1>1. /\ Len(chain) <= Len(chain')
      /\ \A k \in 1..Len(chain) : chain'[k] = chain[k]
  <2>1. CASE MineBlock(Traffic)
    BY <2>1, ChainGrows, NumbersTyped
  <2>2. CASE ~MineBlock(Traffic)
    <3>1. chain' = chain
      BY <2>2 DEF Next, Work, Fail, Start, FetchChunk, ChunkDone, Poll, PollDone, TakeLog,
                  WriteNext, FinishLog, StartFails, FetchChunkFails, PollFails, Crash, vars
    <3> QED BY <3>1, NumbersTyped
  <2> QED BY <2>1, <2>2
<1>2. ASSUME NEW b \in 0..Len(chain) PROVE StateAt(b)' = StateAt(b)
  <2>1. b # 0 => b \in 1..Len(chain)
    OBVIOUS
  <2> QED BY <1>1, <2>1 DEF StateAt
<1> QED BY <1>1, <1>2

LEMMA StepChainRuns == IInv /\ ChainRuns /\ [Next]_vars => ChainRuns'
<1> SUFFICES ASSUME IInv, ChainRuns, [Next]_vars, NEW b \in 1..Len(chain')
             PROVE  /\ Leads(StateAt(b - 1)', chain'[b].logs, StateAt(b)')
                    /\ Len(chain'[b].logs) <= MaxLogs
  BY DEF ChainRuns
<1> USE NumbersTyped
<1>1. CASE b \in 1..Len(chain)
  <2>1. /\ Leads(StateAt(b - 1), chain[b].logs, StateAt(b))
        /\ Len(chain[b].logs) <= MaxLogs
    BY <1>1 DEF ChainRuns
  <2>2. chain'[b] = chain[b] /\ StateAt(b - 1)' = StateAt(b - 1) /\ StateAt(b)' = StateAt(b)
    <3>1. b \in 0..Len(chain) /\ b - 1 \in 0..Len(chain)
      BY <1>1
    <3> QED BY <1>1, <3>1, ChainStays
  <2> QED BY <2>1, <2>2
<1>2. CASE b \notin 1..Len(chain)
  <2>1. MineBlock(Traffic)
    <3> SUFFICES ASSUME ~MineBlock(Traffic) PROVE FALSE
      OBVIOUS
    <3>1. chain' = chain
      BY DEF Next, Work, Fail, Start, FetchChunk, ChunkDone, Poll, PollDone, TakeLog,
             WriteNext, FinishLog, StartFails, FetchChunkFails, PollFails, Crash, vars
    <3> QED BY <1>2, <3>1
  <2>2. Len(chain') = Len(chain) + 1
    BY <2>1, ChainGrows
  <2>3. b = Len(chain) + 1
    <3>1. Len(chain) \in Nat
      BY NumbersTyped
    <3> QED BY <1>2, <2>2, <3>1
  <2>4. StateAt(b)' = chain'[b].state
    BY <2>3 DEF StateAt
  <2>5. StateAt(b - 1)' = StateAt(b - 1)
    <3>1. b - 1 \in 0..Len(chain)
      BY <2>3
    <3> QED BY <3>1, ChainStays
  <2>6. Leads(StateAt(b - 1), chain'[b].logs, chain'[b].state) /\ Len(chain'[b].logs) <= MaxLogs
    BY <2>1, <2>3, NewBlockRuns
  <2> QED BY <2>4, <2>5, <2>6
<1> QED BY <1>1, <1>2

\* The logs of a block, as ids.
LEMMA OfBlock ==
    ASSUME IInv, ChainRuns, NEW b \in 1..Len(chain), NEW k \in 1..Len(chain[b].logs)
    PROVE  <<b, k>> \in LogIds /\ OnChain(<<b, k>>)
<1>1. b \in 1..MaxBlocks
  BY ChainAssumption DEF IInv, TypeOK
<1>2. Len(chain[b].logs) \in Nat
  <2>1. chain[b] \in Block
    BY DEF IInv, TypeOK
  <2>2. chain[b].logs \in Seq(Log)
    BY <2>1 DEF Block
  <2> QED BY <2>2
<1>3. k \in 1..MaxLogs
  BY <1>2, ChainAssumption DEF ChainRuns
<1> QED BY <1>1, <1>3 DEF LogIds, OnChain

-----------------------------------------------------------------------------
(* The state after a log *)

Replay(b, run) ==
    /\ run \in Seq(ContractState)
    /\ IsWalk(Steps, run, Seen(StateAt(b - 1)), chain[b].logs, Seen(StateAt(b)))

\* Before any log, or just after the log p.
Reached(p, s) ==
    \/ p = NoLog /\ s = Seen(Genesis)
    \/ /\ p \in LogIds /\ OnChain(p)
       /\ \E run : Replay(p[1], run) /\ s = run[p[2] + 1]

LEMMA BlockReplays ==
    ASSUME ChainRuns, NEW b \in 1..Len(chain)
    PROVE  \E run : Replay(b, run)
  BY DEF ChainRuns, Leads, Walk, Replay

LEMMA ReachedTyped ==
    ASSUME IInv, NEW p, NEW s, Reached(p, s)
    PROVE  /\ s \in ContractState
           /\ p \in LogIds \cup {NoLog} /\ p[1] \in 0..Len(chain) /\ p[2] \in Nat
<1>0. Len(chain) \in Nat
  BY NumbersTyped
<1>1. CASE p = NoLog /\ s = Seen(Genesis)
  <2>1. Genesis \in ContractState
    BY DEF Genesis, ContractState
  <2> QED BY <1>0, <1>1, <2>1, SeenTyped DEF NoLog
<1>2. CASE p \in LogIds /\ OnChain(p) /\ \E run : Replay(p[1], run) /\ s = run[p[2] + 1]
  <2>1. PICK run : Replay(p[1], run) /\ s = run[p[2] + 1]
    BY <1>2
  <2>2. p[1] \in 1..Len(chain) /\ p[2] \in 1..Len(chain[p[1]].logs) /\ p[2] \in Nat
    BY <1>0, <1>2 DEF LogIds, OnChain
  <2>3. run \in Seq(ContractState) /\ Len(run) = Len(chain[p[1]].logs) + 1
    BY <2>1 DEF Replay, IsWalk
  <2>4. chain[p[1]].logs \in Seq(Log)
    <3>1. chain[p[1]] \in Block
      BY <2>2 DEF IInv, TypeOK
    <3> QED BY <3>1 DEF Block
  <2>5. Len(chain[p[1]].logs) \in Nat
    <3> DEFINE list == chain[p[1]].logs
    <3>1. list \in Seq(Log)
      BY <2>4
    <3> HIDE DEF list
    <3>2. Len(list) \in Nat
      BY <3>1
    <3> QED BY <3>2 DEF list
  <2>6. p[2] + 1 \in 1..Len(run)
    BY <2>2, <2>3, <2>5
  <2>7. run[p[2] + 1] \in ContractState
    BY <2>3, <2>6
  <2>8. p[1] \in 0..Len(chain)
    BY <1>0, <2>2
  <2> QED BY <1>2, <2>1, <2>2, <2>7, <2>8
<1> QED BY <1>1, <1>2 DEF Reached

LEMMA ReachedStays ==
    ASSUME IInv, [Next]_vars, NEW p, NEW s, Reached(p, s)
    PROVE  Reached(p, s)'
<1>0. Len(chain) \in Nat
  BY NumbersTyped
<1>1. CASE p = NoLog /\ s = Seen(Genesis)
  BY <1>1 DEF Reached
<1>2. CASE p \in LogIds /\ OnChain(p) /\ \E run : Replay(p[1], run) /\ s = run[p[2] + 1]
  <2>1. PICK run : Replay(p[1], run) /\ s = run[p[2] + 1]
    BY <1>2
  <2>2. p[1] \in 1..Len(chain) /\ p[1] \in 0..Len(chain) /\ p[1] - 1 \in 0..Len(chain)
    BY <1>0, <1>2 DEF LogIds, OnChain
  <2>3. chain'[p[1]] = chain[p[1]]
    BY <2>2, ChainStays
  <2>4. StateAt(p[1])' = StateAt(p[1]) /\ StateAt(p[1] - 1)' = StateAt(p[1] - 1)
    BY <2>2, ChainStays
  <2>5. Replay(p[1], run)'
    BY <2>1, <2>3, <2>4 DEF Replay
  <2>6. OnChain(p)'
    BY <1>2, OnChainStays
  <2> QED BY <1>2, <2>1, <2>5, <2>6 DEF Reached
<1> QED BY <1>1, <1>2 DEF Reached

LEMMA QuietBlocks ==
    ASSUME IInv, ChainRuns, NEW b \in 0..Len(chain), NEW c \in b..Len(chain),
           \A k \in (b + 1)..c : chain[k].logs = <<>>
    PROVE  Seen(StateAt(c)) = Seen(StateAt(b))
<1> DEFINE Bad == {k \in b..c : Seen(StateAt(k)) # Seen(StateAt(b))}
<1>1. Len(chain) \in Nat /\ b \in Nat /\ c \in Nat /\ b <= c /\ c <= Len(chain)
  <2>1. Len(chain) \in Nat
    BY NumbersTyped
  <2> QED BY <2>1
<1> SUFFICES ASSUME Bad # {} PROVE FALSE
  BY <1>1
<1>2. PICK m \in Bad : \A k \in Bad : m <= k
  <2>1. Bad \in SUBSET (0..c)
    BY <1>1
  <2> HIDE DEF Bad
  <2> QED BY <1>1, <2>1, LeastNumber
<1>3. m \in b..c /\ Seen(StateAt(m)) # Seen(StateAt(b))
  BY <1>2
<1>4. m # b
  BY <1>3
<1>5. m - 1 \in b..c /\ m \in 1..Len(chain) /\ m - 1 \in 0..Len(chain) /\ m \in (b + 1)..c
      /\ ~(m <= m - 1)
  BY <1>1, <1>3, <1>4
<1>6. m - 1 \notin Bad
  BY <1>2, <1>5
<1>7. Seen(StateAt(m - 1)) = Seen(StateAt(b))
  BY <1>5, <1>6
<1>8. chain[m].logs = <<>>
  BY <1>5
<1>9. Leads(StateAt(m - 1), <<>>, StateAt(m))
  <2>1. Leads(StateAt(m - 1), chain[m].logs, StateAt(m))
    BY <1>5 DEF ChainRuns
  <2> QED BY <1>8, <2>1
<1>10. Seen(StateAt(m - 1)) \in ContractState
  BY <1>5, StateTyped, SeenTyped DEF IInv
<1>11. Seen(StateAt(m)) = Seen(StateAt(m - 1))
  BY <1>9, <1>10, NoSteps DEF Leads
<1> QED BY <1>3, <1>7, <1>11

\* The logs up to block c are not after p.
AllBefore(p, c) == \A id \in LogIds : OnChain(id) /\ id[1] <= c => NotAfter(id, p)

\* After the last log there is, the state is that of the block.
LEMMA QuietTo ==
    ASSUME IInv, ChainRuns, NEW p, NEW s, Reached(p, s),
           NEW c \in 0..Len(chain), p[1] <= c, AllBefore(p, c)
    PROVE  s = Seen(StateAt(c))
<1>1. Len(chain) \in Nat /\ c \in Nat /\ p[1] \in 0..Len(chain) /\ p[2] \in Nat
  BY NumbersTyped, ReachedTyped
<1>2. s = Seen(StateAt(p[1]))
  <2>1. CASE p = NoLog /\ s = Seen(Genesis)
    BY <2>1 DEF NoLog, StateAt
  <2>2. CASE p \in LogIds /\ OnChain(p) /\ \E run : Replay(p[1], run) /\ s = run[p[2] + 1]
    <3>1. PICK run : Replay(p[1], run) /\ s = run[p[2] + 1]
      BY <2>2
    <3> DEFINE list == chain[p[1]].logs
    <3>2. p[1] \in 1..Len(chain) /\ p[2] \in 1..Len(list)
      BY <1>1, <2>2 DEF LogIds, OnChain
    <3>3. list \in Seq(Log)
      <4>1. chain[p[1]] \in Block
        BY <3>2 DEF IInv, TypeOK
      <4> QED BY <4>1 DEF Block
    <3>4. Len(run) = Len(list) + 1 /\ run[Len(run)] = Seen(StateAt(p[1]))
      BY <3>1 DEF Replay, IsWalk
    <3>5. ASSUME p[2] # Len(list) PROVE FALSE
      <4> DEFINE next == <<p[1], p[2] + 1>>
      <4>1. p[2] + 1 \in 1..Len(list)
        <5> HIDE DEF list
        <5> QED BY <3>2, <3>3, <3>5
      <4>2. next \in LogIds /\ OnChain(next)
        BY <3>2, <4>1, OfBlock
      <4>3. next[1] = p[1] /\ next[2] = p[2] + 1
        OBVIOUS
      <4>4. NotAfter(next, p)
        BY <4>2, <4>3 DEF AllBefore
      <4> QED BY <1>1, <4>3, <4>4 DEF NotAfter
    <3> QED BY <3>1, <3>4, <3>5
  <2> QED BY <2>1, <2>2 DEF Reached
<1>3. ASSUME NEW k \in (p[1] + 1)..c, chain[k].logs # <<>> PROVE FALSE
  <2> DEFINE list == chain[k].logs
             first == <<k, 1>>
  <2>1. k \in 1..Len(chain) /\ p[1] < k /\ k <= c
    BY <1>1
  <2>2. list \in Seq(Log)
    <3>1. chain[k] \in Block
      BY <2>1 DEF IInv, TypeOK
    <3> QED BY <3>1 DEF Block
  <2>3. 1 \in 1..Len(list)
    <3>1. list # <<>>
      BY <1>3
    <3> HIDE DEF list
    <3> QED BY <2>2, <3>1
  <2>4. first \in LogIds /\ OnChain(first)
    BY <2>1, <2>3, OfBlock
  <2>5. first[1] = k
    OBVIOUS
  <2>6. NotAfter(first, p)
    BY <2>1, <2>4, <2>5 DEF AllBefore
  <2> QED BY <1>1, <2>1, <2>5, <2>6 DEF NotAfter
<1>4. c \in p[1]..Len(chain)
  BY <1>1
<1> QED BY <1>1, <1>2, <1>3, <1>4, QuietBlocks

\* The next log leads on.
LEMMA NextReached ==
    ASSUME IInv, ChainRuns, NEW p, NEW s, Reached(p, s),
           NEW id \in LogIds, OnChain(id), ~NotAfter(id, p),
           \A other \in LogIds : OnChain(other) => NotAfter(other, p) \/ NotAfter(id, other)
    PROVE  \E t \in ContractState : Step(s, LogAt(id), t) /\ Reached(id, t)
<1> DEFINE b == id[1]
           k == id[2]
           list == chain[b].logs
<1>1. Len(chain) \in Nat /\ p[1] \in 0..Len(chain) /\ p[2] \in Nat
  BY NumbersTyped, ReachedTyped
<1>2. b \in 1..Len(chain) /\ k \in 1..Len(list) /\ k \in Nat /\ id = <<b, k>>
  BY <1>1 DEF LogIds, OnChain
<1>3. list \in Seq(Log) /\ Len(list) \in Nat
  <2>1. chain[b] \in Block
    BY <1>2 DEF IInv, TypeOK
  <2>2. list \in Seq(Log)
    BY <2>1 DEF Block
  <2> HIDE DEF list
  <2> QED BY <2>2
<1> HIDE DEF list
<1>4. ASSUME NEW run, Replay(b, run), run[k] = s
      PROVE  \E t \in ContractState : Step(s, LogAt(id), t) /\ Reached(id, t)
  <2>1. run \in Seq(ContractState) /\ Len(run) = Len(list) + 1 /\ Joins(Steps, run[k], list[k], run[k + 1])
    BY <1>2, <1>4 DEF Replay, IsWalk, list
  <2>2. k + 1 \in 1..Len(run)
    BY <1>2, <1>3, <2>1
  <2>3. run[k + 1] \in ContractState
    BY <2>1, <2>2
  <2>4. Step(s, list[k], run[k + 1])
    <3> DEFINE x == <<run[k], list[k], run[k + 1]>>
    <3>1. x \in Steps
      BY <2>1 DEF Joins
    <3>2. Step(x[1], x[2], x[3])
      BY <3>1 DEF Steps
    <3>3. x[1] = run[k] /\ x[2] = list[k] /\ x[3] = run[k + 1]
      OBVIOUS
    <3> HIDE DEF x
    <3> QED BY <1>4, <3>2, <3>3
  <2>5. Reached(id, run[k + 1])
    BY <1>4 DEF Reached
  <2> QED BY <2>3, <2>4, <2>5 DEF LogAt, list
<1>5. CASE p[1] = b
  <2>1. p # NoLog
    BY <1>2, <1>5 DEF NoLog
  <2>2. PICK run : p \in LogIds /\ OnChain(p) /\ Replay(b, run) /\ s = run[p[2] + 1]
    BY <1>5, <2>1 DEF Reached
  <2>3. p[2] < k
    BY <1>1, <1>2, <1>5 DEF NotAfter
  <2>4. ASSUME p[2] + 1 # k PROVE FALSE
    <3> DEFINE next == <<b, p[2] + 1>>
    <3>1. p[2] + 1 \in 1..Len(list) /\ p[2] + 1 < k
      <4>1. ASSUME NEW a \in Nat, NEW i \in Nat, NEW n \in Nat, a < i, i \in 1..n, a + 1 # i
            PROVE  a + 1 \in 1..n /\ a + 1 < i
        BY <4>1
      <4> QED BY <1>1, <1>2, <1>3, <2>3, <2>4, <4>1
    <3>2. next \in LogIds /\ OnChain(next)
      BY <1>2, <3>1, OfBlock DEF list
    <3>3. next[1] = b /\ next[2] = p[2] + 1
      OBVIOUS
    <3> HIDE DEF next
    <3>4. NotAfter(next, p) \/ NotAfter(id, next)
      BY <3>2
    <3> QED BY <1>1, <1>2, <1>5, <3>1, <3>3, <3>4 DEF NotAfter
  <2> QED BY <1>4, <2>2, <2>4
<1>6. CASE p[1] # b
  <2>1. p[1] < b
    BY <1>1, <1>2, <1>6 DEF NotAfter
  <2>2. AllBefore(p, b - 1)
    <3> SUFFICES ASSUME NEW other \in LogIds, OnChain(other), other[1] <= b - 1
                 PROVE  NotAfter(other, p)
      BY DEF AllBefore
    <3>1. NotAfter(other, p) \/ NotAfter(id, other)
      OBVIOUS
    <3>2. other[1] \in Nat /\ other[1] < b
      BY <1>2 DEF LogIds
    <3>3. ~NotAfter(id, other)
      BY <1>2, <3>2 DEF NotAfter
    <3> QED BY <3>1, <3>3
  <2>3. b - 1 \in 0..Len(chain) /\ p[1] <= b - 1
    BY <1>1, <1>2, <2>1
  <2>4. s = Seen(StateAt(b - 1))
    BY <2>2, <2>3, QuietTo
  <2>5. PICK run : Replay(b, run)
    BY <1>2, BlockReplays
  <2>6. run[1] = s
    BY <2>4, <2>5 DEF Replay, IsWalk
  <2>7. k = 1
    <3> SUFFICES ASSUME k # 1 PROVE FALSE
      OBVIOUS
    <3> DEFINE first == <<b, 1>>
    <3>1. 1 \in 1..Len(list) /\ 1 < k
      BY <1>2, <1>3
    <3>2. first \in LogIds /\ OnChain(first)
      BY <1>2, <3>1, OfBlock DEF list
    <3>3. first[1] = b /\ first[2] = 1
      OBVIOUS
    <3> HIDE DEF first
    <3>4. NotAfter(first, p) \/ NotAfter(id, first)
      BY <3>2
    <3> QED BY <1>1, <1>2, <2>1, <3>1, <3>3, <3>4 DEF NotAfter
  <2> QED BY <1>4, <2>5, <2>6, <2>7
<1> QED BY <1>5, <1>6

-----------------------------------------------------------------------------
(* The database as a mirror of the contracts *)

\* The holder count is off when nothing is sent to a wallet that holds nothing,
\* and units that are minted or sent without a log of their own are not counted.
CountsKept ==
    0 \notin Amounts /\ "mintUnit" \notin Traffic /\ "batchTransfer" \notin Traffic /\ FewWallets

BalancesTold(d, s) == CountsKept => Balances(d, s.held)

\* No log tells of the freezes that a recovery moves.
FreezesTold(d, s) ==
    "recover" \notin Traffic =>
        \A w \in Wallets : /\ d.freeze[w].frozen = s.frozen[w]
                           /\ d.walletFreeze[w] = s.walletFrozen[w]

\* The uri given at registration is in no log.
AssetTold(d, s) ==
    "register" \in Traffic =>
        /\ Asset(d).known = s.registered
        /\ s.registered => Asset(d).paused = s.paused /\ Asset(d).uri \in {0, s.uri}
        /\ ~s.registered => ~s.paused

RowTold(d, s, w) ==
    /\ d.identity[w] = [identity |-> s.identity[w], country |-> s.country[w]]
    /\ s.identity[w] = NoOne => s.country[w] = 0
    /\ s.identity[w] # NoOne => s.country[w] \in d.byCountry[w]

IdentitiesTold(d, s) == CountriesTold => \A w \in Wallets : RowTold(d, s, w)

Mirrors(d, s) ==
    BalancesTold(d, s) /\ FreezesTold(d, s) /\ AssetTold(d, s) /\ IdentitiesTold(d, s)

LEMMA ToldStays ==
    ASSUME NEW d, NEW e, NEW s, NEW t
    PROVE  /\ SameBalances(d, e) /\ SameHeld(s, t) /\ BalancesTold(d, s) => BalancesTold(e, t)
           /\ SameFreezes(d, e) /\ SameFrozen(s, t) /\ FreezesTold(d, s) => FreezesTold(e, t)
           /\ SameAsset(d, e) /\ SameLaunch(s, t) /\ AssetTold(d, s) => AssetTold(e, t)
           /\ SameIdentities(d, e) /\ SameBinding(s, t) /\ IdentitiesTold(d, s) => IdentitiesTold(e, t)
<1>1. SameBalances(d, e) /\ SameHeld(s, t) /\ BalancesTold(d, s) => BalancesTold(e, t)
  BY DEF BalancesTold, Balances, Meta, SameBalances, SameHeld
<1>2. SameFreezes(d, e) /\ SameFrozen(s, t) /\ FreezesTold(d, s) => FreezesTold(e, t)
  BY Zenon DEF FreezesTold, SameFreezes, SameFrozen
<1>3. SameAsset(d, e) /\ SameLaunch(s, t) /\ AssetTold(d, s) => AssetTold(e, t)
  BY DEF AssetTold, Asset, SameAsset, SameLaunch
<1>4. SameIdentities(d, e) /\ SameBinding(s, t) /\ IdentitiesTold(d, s) => IdentitiesTold(e, t)
  BY Zenon DEF IdentitiesTold, RowTold, SameIdentities, SameBinding
<1> QED BY <1>1, <1>2, <1>3, <1>4

LEMMA MirrorsStay ==
    ASSUME NEW d, NEW e, NEW s, NEW t, SameRecords(d, e), NothingTold(s, t), Mirrors(d, s)
    PROVE  Mirrors(e, t)
  BY ToldStays DEF SameRecords, NothingTold, Mirrors

\* The identities of the wallets a log does not name.
OthersStay(d, e, log) ==
    \A w \in Wallets \ Named(log) : e.identity[w] = d.identity[w] /\ e.byCountry[w] = d.byCountry[w]

\* The puts bring d to a mirror of t.
Records(d, log, t, list) ==
    /\ list \in Seq(Puts)
    /\ \E e \in Store : Written(d, list, e) /\ Mirrors(e, t) /\ OthersStay(d, e, log)

LEMMA RecordsNothing ==
    ASSUME NEW d \in Store, NEW log, NEW t, Mirrors(d, t)
    PROVE  Records(d, log, t, <<>>)
<1>1. <<>> \in Seq(Puts)
  OBVIOUS
<1>2. Written(d, <<>>, d)
  BY NoSteps DEF Written
<1>3. OthersStay(d, d, log)
  BY DEF OthersStay
<1> QED BY <1>1, <1>2, <1>3 DEF Records

LEMMA RecordsOneKind ==
    ASSUME NEW d, NEW e \in Store, NEW log, NEW t, NEW list \in Seq(RecordPuts),
           Written(d, list, e), Mirrors(e, t), SameIdentities(d, e)
    PROVE  Records(d, log, t, list)
<1>1. list \in Seq(Puts)
  BY RecordPutsTyped, SeqOfMore
<1>2. OthersStay(d, e, log)
  BY DEF OthersStay, SameIdentities
<1> QED BY <1>1, <1>2 DEF Records

\* The event comes last and changes nothing of it.
LEMMA RecordsThenEnds ==
    ASSUME NEW d, NEW log, NEW t, NEW records, Records(d, log, t, records),
           NEW id \in LogIds, NEW end, EndsWithEvent(id, end)
    PROVE  Records(d, log, t, records \o end)
<1>1. PICK m \in Store : Written(d, records, m) /\ Mirrors(m, t) /\ OthersStay(d, m, log)
  BY DEF Records
<1>2. records \in Seq(Puts) /\ end \in Seq(Puts)
  BY EventAside, <1>1 DEF Records
<1>3. PICK e \in Store : Written(m, end, e) /\ SameRecords(m, e)
  BY EventAside
<1>4. Written(d, records \o end, e)
  BY <1>1, <1>2, <1>3, BothWritten
<1>5. NothingTold(t, t)
  BY DEF NothingTold, SameHeld, SameLaunch, SameFrozen, SameBinding
<1>6. Mirrors(e, t)
  BY <1>1, <1>3, <1>5, MirrorsStay
<1>7. OthersStay(d, e, log)
  BY <1>1, <1>3, Zenon DEF OthersStay, SameRecords, SameIdentities
<1>8. records \o end \in Seq(Puts)
  BY <1>2
<1> QED BY <1>4, <1>6, <1>7, <1>8 DEF Records

LEMMA RecordsEnd ==
    ASSUME NEW d \in Store, NEW log, NEW t, Mirrors(d, t),
           NEW id \in LogIds, NEW end, EndsWithEvent(id, end)
    PROVE  Records(d, log, t, end)
<1>1. Records(d, log, t, <<>>)
  BY RecordsNothing
<1>2. end \in Seq(Puts)
  BY EventAside
<1>3. Records(d, log, t, <<>> \o end)
  BY <1>1, RecordsThenEnds
<1> QED BY <1>2, <1>3, NothingBefore

-----------------------------------------------------------------------------
(* What each handler writes mirrors what its log tells *)

LEMMA OneKindTold ==
    ASSUME NEW d, NEW e, NEW s, NEW t, Mirrors(d, s)
    PROVE  /\ OnlyBalances(d, e) /\ OnlyHeld(s, t) /\ BalancesTold(e, t) =>
                Mirrors(e, t) /\ SameIdentities(d, e)
           /\ OnlyFreezes(d, e) /\ OnlyFrozen(s, t) /\ FreezesTold(e, t) =>
                Mirrors(e, t) /\ SameIdentities(d, e)
           /\ OnlyAsset(d, e) /\ OnlyLaunch(s, t) /\ AssetTold(e, t) =>
                Mirrors(e, t) /\ SameIdentities(d, e)
           /\ OnlyIdentities(d, e) /\ OnlyBinding(s, t) /\ IdentitiesTold(e, t) => Mirrors(e, t)
<1>1. OnlyBalances(d, e) /\ OnlyHeld(s, t) /\ BalancesTold(e, t) =>
        Mirrors(e, t) /\ SameIdentities(d, e)
  BY ToldStays DEF Mirrors, OnlyBalances, OnlyHeld
<1>2. OnlyFreezes(d, e) /\ OnlyFrozen(s, t) /\ FreezesTold(e, t) =>
        Mirrors(e, t) /\ SameIdentities(d, e)
  BY ToldStays DEF Mirrors, OnlyFreezes, OnlyFrozen
<1>3. OnlyAsset(d, e) /\ OnlyLaunch(s, t) /\ AssetTold(e, t) =>
        Mirrors(e, t) /\ SameIdentities(d, e)
  BY ToldStays DEF Mirrors, OnlyAsset, OnlyLaunch
<1>4. OnlyIdentities(d, e) /\ OnlyBinding(s, t) /\ IdentitiesTold(e, t) => Mirrors(e, t)
  BY ToldStays DEF Mirrors, OnlyIdentities, OnlyBinding
<1> QED BY <1>1, <1>2, <1>3, <1>4

LEMMA SupplyMirrors ==
    ASSUME NEW d \in Store, NEW s \in ContractState, NEW t, NEW log \in Log, NEW id \in LogIds,
           Step(s, log, t), Mirrors(d, s)
    PROVE  /\ log.kind = "Minted" => Records(d, log, t, handleMinted(d, log, id))
           /\ log.kind = "Burned" => Records(d, log, t, handleBurned(d, log, id))
<1>1. log.n \in Nat /\ s.held \in [Wallets -> Nat] /\ EndsWithEvent(id, PutEvent(id))
  BY LogTyped, EventEnds DEF ContractState
<1>2. ASSUME log.kind = "Minted" PROVE Records(d, log, t, handleMinted(d, log, id))
  <2>1. log.to \in Wallets
    BY <1>2, LogTyped
  <2>2. Gains(s, log, t)
    BY <1>2 DEF Step
  <2>3. RecordMint(d, log.to, log.n) \in Seq(RecordPuts)
    BY <1>1, <2>1, SupplyPutsTyped
  <2>4. PICK e \in Store :
          /\ Written(d, RecordMint(d, log.to, log.n), e) /\ OnlyBalances(d, e)
          /\ \A held \in [Wallets -> Nat] :
               FewWallets /\ log.n > 0 /\ Balances(d, held) => Balances(e, Plus(held, log.to, log.n))
    BY <1>1, <2>1, MintRecorded
  <2>5. BalancesTold(e, t)
    <3> SUFFICES ASSUME CountsKept PROVE Balances(e, t.held)
      BY DEF BalancesTold
    <3>1. FewWallets /\ log.n > 0 /\ Balances(d, s.held) /\ t.held = Plus(s.held, log.to, log.n)
      BY <2>2 DEF CountsKept, Mirrors, BalancesTold, Gains, Positive
    <3>2. Balances(e, Plus(s.held, log.to, log.n))
      BY <1>1, <2>4, <3>1
    <3> QED BY <3>1, <3>2
  <2>6. Mirrors(e, t) /\ SameIdentities(d, e)
    BY <2>2, <2>4, <2>5, OneKindTold DEF Gains
  <2>7. Records(d, log, t, RecordMint(d, log.to, log.n))
    BY <2>3, <2>4, <2>6, RecordsOneKind
  <2> QED BY <1>1, <2>7, RecordsThenEnds DEF handleMinted
<1>3. ASSUME log.kind = "Burned" PROVE Records(d, log, t, handleBurned(d, log, id))
  <2>1. log.from \in Wallets
    BY <1>3, LogTyped
  <2>2. Loses(s, log, t)
    BY <1>3 DEF Step
  <2>3. RecordBurn(d, log.from, log.n) \in Seq(RecordPuts)
    BY <1>1, <2>1, SupplyPutsTyped
  <2>4. PICK e \in Store :
          /\ Written(d, RecordBurn(d, log.from, log.n), e) /\ OnlyBalances(d, e)
          /\ \A held \in [Wallets -> Nat] :
               FewWallets /\ log.n > 0 /\ log.n <= held[log.from] /\ Balances(d, held)
                 => Balances(e, Minus(held, log.from, log.n))
    BY <1>1, <2>1, BurnRecorded
  <2>5. BalancesTold(e, t)
    <3> SUFFICES ASSUME CountsKept PROVE Balances(e, t.held)
      BY DEF BalancesTold
    <3>1. /\ FewWallets /\ log.n > 0 /\ log.n <= s.held[log.from] /\ Balances(d, s.held)
          /\ t.held = Minus(s.held, log.from, log.n)
      BY <2>2 DEF CountsKept, Mirrors, BalancesTold, Loses, Positive
    <3>2. Balances(e, Minus(s.held, log.from, log.n))
      BY <1>1, <2>4, <3>1
    <3> QED BY <3>1, <3>2
  <2>6. Mirrors(e, t) /\ SameIdentities(d, e)
    BY <2>2, <2>4, <2>5, OneKindTold DEF Loses
  <2>7. Records(d, log, t, RecordBurn(d, log.from, log.n))
    BY <2>3, <2>4, <2>6, RecordsOneKind
  <2> QED BY <1>1, <2>7, RecordsThenEnds DEF handleBurned
<1> QED BY <1>2, <1>3

LEMMA TransferMirrors ==
    ASSUME NEW d \in Store, NEW s \in ContractState, NEW t, NEW log \in Log, NEW id \in LogIds,
           Step(s, log, t), Mirrors(d, s), log.kind = "TransferSingle"
    PROVE  Records(d, log, t, handleTransferSingle(d, log, id))
<1>1. log.n \in Nat /\ s.held \in [Wallets -> Nat] /\ EndsWithEvent(id, PutEvent(id))
  BY LogTyped, EventEnds DEF ContractState
<1>2. CASE SupplyMove(log)
  <2>1. NothingTold(s, t)
    BY <1>2 DEF Step
  <2>2. SameRecords(d, d)
    BY DEF SameRecords, SameBalances, SameAsset, SameFreezes, SameIdentities
  <2>3. Mirrors(d, t)
    BY <2>1, <2>2, MirrorsStay
  <2>4. handleTransferSingle(d, log, id) = <<>>
    BY <1>2 DEF SupplyMove, handleTransferSingle
  <2> QED BY <2>3, <2>4, RecordsNothing
<1>3. CASE ~SupplyMove(log)
  <2>1. NoOne \notin {log.from, log.to}
    BY <1>3 DEF SupplyMove
  <2>2. log.from \in Wallets /\ log.to \in Wallets
    BY <2>1, LogTyped
  <2>3. Sends(s, log, t)
    BY <1>3 DEF Step, Moves
  <2> DEFINE list == RecordTransfer(d, log.from, log.to, log.n)
  <2>4. list \in Seq(RecordPuts)
    BY <1>1, <2>2, RecordTransferTyped
  <2>5. PICK e \in Store :
          /\ Written(d, list, e) /\ OnlyBalances(d, e)
          /\ \A held \in [Wallets -> Nat] :
               FewWallets /\ log.n > 0 /\ log.n <= held[log.from] /\ Balances(d, held)
                 => Balances(e, Plus(Minus(held, log.from, log.n), log.to, log.n))
    BY <1>1, <2>2, TransferRecorded
  <2> HIDE DEF list
  <2>6. BalancesTold(e, t)
    <3> SUFFICES ASSUME CountsKept PROVE Balances(e, t.held)
      BY DEF BalancesTold
    <3>1. /\ FewWallets /\ log.n > 0 /\ log.n <= s.held[log.from] /\ Balances(d, s.held)
          /\ t.held = Plus(Minus(s.held, log.from, log.n), log.to, log.n)
      BY <2>3 DEF CountsKept, Mirrors, BalancesTold, Sends, Positive
    <3>2. Balances(e, Plus(Minus(s.held, log.from, log.n), log.to, log.n))
      BY <1>1, <2>5, <3>1
    <3> QED BY <3>1, <3>2
  <2>7. Mirrors(e, t) /\ SameIdentities(d, e)
    BY <2>3, <2>5, <2>6, OneKindTold DEF Sends
  <2>8. Records(d, log, t, list)
    BY <2>4, <2>5, <2>7, RecordsOneKind
  <2>9. handleTransferSingle(d, log, id) = list \o PutEvent(id)
    BY <2>1 DEF handleTransferSingle, list
  <2> QED BY <1>1, <2>8, <2>9, RecordsThenEnds
<1> QED BY <1>2, <1>3

\* A flag of a freeze is the word of its log; an amount or a lockup leaves it.
LEMMA FlagMirrors ==
    ASSUME NEW d \in Store, NEW s \in ContractState, NEW t, NEW log \in Log, NEW id \in LogIds,
           Step(s, log, t), Mirrors(d, s)
    PROVE  /\ log.kind = "AssetFrozen" => Records(d, log, t, handleAssetFrozen(log, id))
           /\ log.kind = "WalletFrozen" => Records(d, log, t, handleWalletFrozen(log, id))
<1>0. /\ d.freeze \in [Wallets -> FreezeState] /\ d.walletFreeze \in [Wallets -> BOOLEAN]
      /\ s.frozen \in [Wallets -> BOOLEAN] /\ s.walletFrozen \in [Wallets -> BOOLEAN]
  BY DEF Store, ContractState
<1>1. ASSUME log.kind \in {"AssetFrozen", "WalletFrozen"}
      PROVE  /\ log.from \in Wallets /\ (log.n = 1) \in BOOLEAN
             /\ EndsWithEvent(id, AddressOnly(id, log.from))
             /\ EndsWithEvent(id, TokenAndAddress(id, log.from))
             /\ RecordWalletFreeze(log.from, log.n = 1) \in Seq(RecordPuts)
             /\ RecordFreeze(log.from, log.n = 1) \in Seq(RecordPuts)
  <2>1. log.from \in Wallets /\ log.n \in Nat
    BY <1>1, LogTyped
  <2>2. (log.n = 1) \in BOOLEAN
    OBVIOUS
  <2> QED BY <2>1, <2>2, ShapesTyped, FreezePutsTyped
<1>2. ASSUME log.kind = "AssetFrozen" PROVE Records(d, log, t, handleAssetFrozen(log, id))
  <2> DEFINE flag == log.n = 1
             w == log.from
             row == [NotFrozen EXCEPT !.frozen = flag]
  <2>1. w \in Wallets /\ flag \in BOOLEAN
    BY <1>1, <1>2
  <2>2. row \in FreezeState /\ row.frozen = flag
    BY <2>1 DEF NotFrozen, FreezeState
  <2>3. RecordFreeze(w, flag) = <<Put("freeze", w, row)>>
    BY DEF RecordFreeze
  <2>4. Freezes(s, log, t)
    BY <1>2 DEF Step
  <2>5. t.frozen = [s.frozen EXCEPT ![w] = flag] /\ t.walletFrozen = s.walletFrozen
        /\ OnlyFrozen(s, t)
    BY <2>4, Zenon DEF Freezes
  <2>6. RecordFreeze(w, flag) \in Seq(RecordPuts) /\ EndsWithEvent(id, TokenAndAddress(id, w))
    BY <1>1, <1>2
  <2>7. handleAssetFrozen(log, id) = RecordFreeze(w, flag) \o TokenAndAddress(id, w)
    BY DEF handleAssetFrozen
  <2> HIDE DEF row, flag, w
  <2>8. PICK e \in Store :
          /\ Written(d, <<Put("freeze", w, row)>>, e)
          /\ e.freeze = [d.freeze EXCEPT ![w] = row] /\ e.walletFreeze = d.walletFreeze
          /\ OnlyFreezes(d, e)
    BY <2>1, <2>2, FreezeWritten
  <2>9. /\ e.freeze[w].frozen = flag /\ t.frozen[w] = flag
        /\ \A v \in Wallets \ {w} : e.freeze[v] = d.freeze[v] /\ t.frozen[v] = s.frozen[v]
    BY <1>0, <2>1, <2>2, <2>5, <2>8
  <2>10. FreezesTold(e, t)
    <3>1. e.walletFreeze = d.walletFreeze /\ t.walletFrozen = s.walletFrozen
      BY <2>5, <2>8
    <3>2. FreezesTold(d, s)
      BY DEF Mirrors
    <3> QED BY <2>9, <3>1, <3>2, Zenon DEF FreezesTold
  <2>11. Mirrors(e, t) /\ SameIdentities(d, e)
    BY <2>5, <2>8, <2>10, OneKindTold
  <2>12. Records(d, log, t, RecordFreeze(w, flag))
    <3>1. Written(d, RecordFreeze(w, flag), e)
      BY <2>3, <2>8
    <3> QED BY <2>6, <2>11, <3>1, RecordsOneKind
  <2> QED BY <2>6, <2>7, <2>12, RecordsThenEnds
<1>3. ASSUME log.kind = "WalletFrozen" PROVE Records(d, log, t, handleWalletFrozen(log, id))
  <2> DEFINE flag == log.n = 1
             w == log.from
  <2>1. w \in Wallets /\ flag \in BOOLEAN
    BY <1>1, <1>3
  <2>4. FreezesWallet(s, log, t)
    BY <1>3 DEF Step
  <2>5. t.walletFrozen = [s.walletFrozen EXCEPT ![w] = flag] /\ t.frozen = s.frozen
        /\ OnlyFrozen(s, t)
    BY <2>4, Zenon DEF FreezesWallet
  <2>6. RecordWalletFreeze(w, flag) \in Seq(RecordPuts) /\ EndsWithEvent(id, AddressOnly(id, w))
    BY <1>1, <1>3
  <2>7. handleWalletFrozen(log, id) = RecordWalletFreeze(w, flag) \o AddressOnly(id, w)
    BY DEF handleWalletFrozen
  <2> HIDE DEF flag, w
  <2>8. PICK e \in Store :
          /\ Written(d, RecordWalletFreeze(w, flag), e)
          /\ e.walletFreeze = [d.walletFreeze EXCEPT ![w] = flag] /\ e.freeze = d.freeze
          /\ OnlyFreezes(d, e)
    BY <2>1, WalletFreezeWritten
  <2>9. /\ e.walletFreeze[w] = flag /\ t.walletFrozen[w] = flag
        /\ \A v \in Wallets \ {w} : /\ e.walletFreeze[v] = d.walletFreeze[v]
                                    /\ t.walletFrozen[v] = s.walletFrozen[v]
    BY <1>0, <2>1, <2>5, <2>8
  <2>10. FreezesTold(e, t)
    <3>1. e.freeze = d.freeze /\ t.frozen = s.frozen
      BY <2>5, <2>8
    <3>2. FreezesTold(d, s)
      BY DEF Mirrors
    <3> QED BY <2>9, <3>1, <3>2, Zenon DEF FreezesTold
  <2>11. Mirrors(e, t) /\ SameIdentities(d, e)
    BY <2>5, <2>8, <2>10, OneKindTold
  <2>12. Records(d, log, t, RecordWalletFreeze(w, flag))
    BY <2>6, <2>8, <2>11, RecordsOneKind
  <2> QED BY <2>6, <2>7, <2>12, RecordsThenEnds
<1> QED BY <1>2, <1>3

LEMMA NumberMirrors ==
    ASSUME NEW d \in Store, NEW s \in ContractState, NEW t, NEW log \in Log, NEW id \in LogIds,
           Step(s, log, t), Mirrors(d, s)
    PROVE  /\ log.kind = "PartialFreeze" => Records(d, log, t, handlePartialFreeze(d, log, id))
           /\ log.kind = "LockupSet" => Records(d, log, t, handleLockupSet(d, log, id))
<1>1. ASSUME log.kind \in {"PartialFreeze", "LockupSet"}
      PROVE  /\ NothingTold(s, t) /\ log.from \in Wallets /\ log.n \in Nat
             /\ EndsWithEvent(id, TokenAndAddress(id, log.from))
             /\ UpdateFreezeAmount(d, log.from, log.n) \in Seq(RecordPuts)
             /\ UpdateLockupExpiry(d, log.from, log.n) \in Seq(RecordPuts)
  <2>1. log.from \in Wallets /\ log.n \in Nat
    BY <1>1, LogTyped
  <2>2. NothingTold(s, t)
    BY <1>1 DEF Step, Tells
  <2> QED BY <2>1, <2>2, ShapesTyped, FreezePutsTyped
<1>2. d.freeze \in [Wallets -> FreezeState]
  BY DEF Store
<1>3. ASSUME NEW w \in Wallets, NEW row \in FreezeState, row.frozen = d.freeze[w].frozen,
             NothingTold(s, t), <<Put("freeze", w, row)>> \in Seq(RecordPuts)
      PROVE  Records(d, log, t, <<Put("freeze", w, row)>>)
  <2>1. PICK e \in Store :
          /\ Written(d, <<Put("freeze", w, row)>>, e)
          /\ e.freeze = [d.freeze EXCEPT ![w] = row] /\ e.walletFreeze = d.walletFreeze
          /\ OnlyFreezes(d, e)
    BY FreezeWritten
  <2>2. /\ e.freeze[w].frozen = d.freeze[w].frozen
        /\ \A v \in Wallets \ {w} : e.freeze[v] = d.freeze[v]
    BY <1>2, <1>3, <2>1
  <2>3. OnlyFrozen(s, t) /\ SameFrozen(s, t)
    BY <1>3 DEF NothingTold, OnlyFrozen
  <2>4. FreezesTold(e, t)
    <3>1. e.walletFreeze = d.walletFreeze /\ t.walletFrozen = s.walletFrozen /\ t.frozen = s.frozen
      BY <2>1, <2>3 DEF SameFrozen
    <3>2. FreezesTold(d, s)
      BY DEF Mirrors
    <3> QED BY <2>2, <3>1, <3>2, Zenon DEF FreezesTold
  <2>5. Mirrors(e, t) /\ SameIdentities(d, e)
    BY <2>1, <2>3, <2>4, OneKindTold
  <2>6. Written(d, <<Put("freeze", w, row)>>, e) /\ <<Put("freeze", w, row)>> \in Seq(RecordPuts)
    BY <1>3, <2>1
  <2> DEFINE list == <<Put("freeze", w, row)>>
  <2>7. Written(d, list, e) /\ list \in Seq(RecordPuts)
    BY <2>6
  <2> HIDE DEF list
  <2>8. Records(d, log, t, list)
    BY <2>5, <2>7, RecordsOneKind
  <2> QED BY <2>8 DEF list
<1>4. ASSUME log.kind = "PartialFreeze" PROVE Records(d, log, t, handlePartialFreeze(d, log, id))
  <2> DEFINE w == log.from
             row == [d.freeze[w] EXCEPT !.frozenAmount = log.n]
  <2>1. w \in Wallets /\ log.n \in Nat
    BY <1>1, <1>4
  <2>2. d.freeze[w] \in FreezeState
    BY <1>2, <2>1
  <2>3. row \in FreezeState /\ row.frozen = d.freeze[w].frozen
    BY <2>1, <2>2 DEF FreezeState
  <2>4. UpdateFreezeAmount(d, w, log.n) = <<Put("freeze", w, row)>>
    BY DEF UpdateFreezeAmount
  <2> HIDE DEF w, row
  <2>5. Records(d, log, t, <<Put("freeze", w, row)>>)
    BY <1>1, <1>3, <1>4, <2>1, <2>3, <2>4 DEF w
  <2>6. Records(d, log, t, UpdateFreezeAmount(d, w, log.n))
    BY <2>4, <2>5
  <2>7. EndsWithEvent(id, TokenAndAddress(id, w))
    BY <1>1, <1>4 DEF w
  <2> QED BY <2>6, <2>7, RecordsThenEnds DEF handlePartialFreeze, w
<1>5. ASSUME log.kind = "LockupSet" PROVE Records(d, log, t, handleLockupSet(d, log, id))
  <2> DEFINE w == log.from
             row == [d.freeze[w] EXCEPT !.lockup = log.n]
  <2>1. w \in Wallets /\ log.n \in Nat
    BY <1>1, <1>5
  <2>2. d.freeze[w] \in FreezeState
    BY <1>2, <2>1
  <2>3. row \in FreezeState /\ row.frozen = d.freeze[w].frozen
    BY <2>1, <2>2 DEF FreezeState
  <2>4. UpdateLockupExpiry(d, w, log.n) = <<Put("freeze", w, row)>>
    BY DEF UpdateLockupExpiry
  <2> HIDE DEF w, row
  <2>5. Records(d, log, t, <<Put("freeze", w, row)>>)
    BY <1>1, <1>3, <1>5, <2>1, <2>3, <2>4 DEF w
  <2>6. Records(d, log, t, UpdateLockupExpiry(d, w, log.n))
    BY <2>4, <2>5
  <2>7. EndsWithEvent(id, TokenAndAddress(id, w))
    BY <1>1, <1>5 DEF w
  <2> QED BY <2>6, <2>7, RecordsThenEnds DEF handleLockupSet, w
<1> QED BY <1>4, <1>5

LEMMA AssetMirrors ==
    ASSUME NEW d \in Store, NEW s \in ContractState, NEW t, NEW log \in Log, NEW id \in LogIds,
           Step(s, log, t), Mirrors(d, s), NEW named \in BOOLEAN
    PROVE  /\ log.kind = "AssetRegistered" => Records(d, log, t, handleAssetRegistered(log, id, named))
           /\ log.kind = "URI" => Records(d, log, t, handleURI(d, log, id))
           /\ log.kind \in {"AssetPaused", "AssetUnpaused"} =>
                Records(d, log, t, handleAssetPaused(d, log, id, log.kind = "AssetPaused"))
<1>1. log.n \in Nat /\ Asset(d) \in AssetConfig /\ s.paused \in BOOLEAN /\ AssetTold(d, s)
  BY LogTyped, AssetRowTyped DEF ContractState, Mirrors
<1>2. ASSUME NEW row \in AssetConfig, PutAsset(row) \in Seq(RecordPuts), OnlyLaunch(s, t),
             "register" \in Traffic =>
               /\ row.known = t.registered
               /\ t.registered => row.paused = t.paused /\ row.uri \in {0, t.uri}
               /\ ~t.registered => ~t.paused
      PROVE  Records(d, log, t, PutAsset(row))
  <2>1. PICK e \in Store : Written(d, PutAsset(row), e) /\ Asset(e) = row /\ OnlyAsset(d, e)
    BY AssetWritten
  <2>2. AssetTold(e, t)
    BY <1>2, <2>1 DEF AssetTold
  <2>3. Mirrors(e, t) /\ SameIdentities(d, e)
    BY <1>2, <2>1, <2>2, OneKindTold
  <2> QED BY <1>2, <2>1, <2>3, RecordsOneKind
<1>3. ASSUME log.kind = "AssetRegistered"
      PROVE  Records(d, log, t, handleAssetRegistered(log, id, named))
  <2> DEFINE row == [NoAsset EXCEPT !.known = TRUE, !.named = named]
  <2>1. row \in AssetConfig /\ row.known = TRUE /\ row.paused = FALSE /\ row.uri = 0
    BY DEF NoAsset, AssetConfig
  <2>2. RecordAsset(named) = PutAsset(row) /\ PutAsset(row) \in Seq(RecordPuts)
    <3>1. RecordAsset(named) \in Seq(RecordPuts)
      BY <1>1, AssetPutsTyped
    <3>2. RecordAsset(named) = PutAsset(row)
      BY DEF RecordAsset
    <3> QED BY <3>1, <3>2
  <2>3. Launches(s, t)
    BY <1>3 DEF Step
  <2> HIDE DEF row
  <2>4. Records(d, log, t, PutAsset(row))
    <3>1. OnlyLaunch(s, t) /\ t.registered /\ ~s.registered /\ t.paused = s.paused
      BY <2>3 DEF Launches
    <3>2. "register" \in Traffic => t.paused = FALSE
      BY <1>1, <3>1 DEF AssetTold
    <3>3. row.known = t.registered
      BY <2>1, <3>1
    <3> QED BY <1>2, <2>1, <2>2, <3>1, <3>2, <3>3
  <2>5. EndsWithEvent(id, TokenAndAddress(id, log.from))
    BY <1>3, LogTyped, ShapesTyped
  <2> QED BY <2>2, <2>4, <2>5, RecordsThenEnds DEF handleAssetRegistered
<1>4. ASSUME log.kind = "URI" PROVE Records(d, log, t, handleURI(d, log, id))
  <2> DEFINE row == [Asset(d) EXCEPT !.known = TRUE, !.uri = log.n]
  <2>1. row \in AssetConfig /\ row.known = TRUE /\ row.paused = Asset(d).paused /\ row.uri = log.n
    BY <1>1 DEF AssetConfig
  <2>2. UpdateAssetURI(d, log.n) = PutAsset(row) /\ PutAsset(row) \in Seq(RecordPuts)
    <3>1. UpdateAssetURI(d, log.n) \in Seq(RecordPuts)
      BY <1>1, AssetPutsTyped
    <3>2. UpdateAssetURI(d, log.n) = PutAsset(row)
      BY DEF UpdateAssetURI
    <3> QED BY <3>1, <3>2
  <2>3. Names(s, log, t)
    BY <1>4 DEF Step
  <2> HIDE DEF row
  <2>4. Records(d, log, t, PutAsset(row))
    <3>1. /\ OnlyLaunch(s, t) /\ t.registered /\ s.registered /\ t.paused = s.paused
          /\ t.uri = log.n
      BY <2>3 DEF Names
    <3>2. "register" \in Traffic => row.paused = t.paused
      BY <1>1, <2>1, <3>1 DEF AssetTold
    <3>3. row.known = t.registered
      <4>1. s.registered \in BOOLEAN /\ Names(s, log, t)
        BY <2>3 DEF ContractState
      <4> QED BY <2>1, <3>1
    <3> QED BY <1>2, <2>1, <2>2, <3>1, <3>2, <3>3
  <2>5. EndsWithEvent(id, TokenOnly(id))
    BY ShapesTyped
  <2> QED BY <2>2, <2>4, <2>5, RecordsThenEnds DEF handleURI
<1>5. ASSUME log.kind \in {"AssetPaused", "AssetUnpaused"}
      PROVE  Records(d, log, t, handleAssetPaused(d, log, id, log.kind = "AssetPaused"))
  <2> DEFINE flag == log.kind = "AssetPaused"
             row == [Asset(d) EXCEPT !.known = TRUE, !.paused = flag]
  <2>1. row \in AssetConfig /\ row.known = TRUE /\ row.paused = flag /\ row.uri = Asset(d).uri
    BY <1>1 DEF AssetConfig
  <2>2. UpdateAssetPaused(d, flag) = PutAsset(row) /\ PutAsset(row) \in Seq(RecordPuts)
    <3>1. UpdateAssetPaused(d, flag) \in Seq(RecordPuts)
      BY <1>1, AssetPutsTyped
    <3>2. UpdateAssetPaused(d, flag) = PutAsset(row)
      BY DEF UpdateAssetPaused
    <3> QED BY <3>1, <3>2
  <2>3. Pauses(s, log, t)
    BY <1>5 DEF Step
  <2>4. handleAssetPaused(d, log, id, flag) = UpdateAssetPaused(d, flag) \o TokenAndAddress(id, log.from)
    BY DEF handleAssetPaused
  <2>5. OnlyLaunch(s, t) /\ t.registered /\ s.registered /\ t.paused = flag /\ t.uri = s.uri
    BY <2>3 DEF Pauses
  <2> HIDE DEF row, flag
  <2>6. Records(d, log, t, PutAsset(row))
    <3>1. "register" \in Traffic => row.paused = t.paused /\ row.uri \in {0, t.uri}
      BY <1>1, <2>1, <2>5 DEF AssetTold
    <3>2. row.known = t.registered
      BY <2>1, <2>5
    <3> QED BY <1>2, <2>1, <2>2, <2>5, <3>1, <3>2
  <2>7. EndsWithEvent(id, TokenAndAddress(id, log.from))
    BY <1>5, LogTyped, ShapesTyped
  <2>8. Records(d, log, t, handleAssetPaused(d, log, id, flag))
    BY <2>2, <2>4, <2>6, <2>7, RecordsThenEnds
  <2> QED BY <2>8 DEF flag
<1> QED BY <1>3, <1>4, <1>5

LEMMA BindingMirrors ==
    ASSUME NEW d \in Store, NEW s \in ContractState, NEW t, NEW log \in Log, NEW id \in LogIds,
           Step(s, log, t), Mirrors(d, s)
    PROVE  /\ log.kind = "IdentityBound" => Records(d, log, t, handleIdentityBound(d, log, id))
           /\ log.kind = "IdentityUnbound" => Records(d, log, t, handleIdentityUnbound(d, log, id))
<1>0. /\ d.identity \in [Wallets -> Identity] /\ d.byCountry \in [Wallets -> SUBSET Nat]
      /\ s.identity \in [Wallets -> Identities \cup {NoOne}] /\ s.country \in [Wallets -> Nat]
      /\ IdentitiesTold(d, s) /\ NoOne \notin Identities
  BY ChainAssumption DEF Store, ContractState, Mirrors
<1>1. ASSUME log.kind = "IdentityBound" PROVE Records(d, log, t, handleIdentityBound(d, log, id))
  <2> DEFINE w == log.from
             i == log.to
             c == log.n
  <2>1. w \in Wallets /\ i \in Identities /\ c \in Nat
    BY <1>1, LogTyped
  <2>2. Binds(s, log, t)
    BY <1>1 DEF Step
  <2>3. /\ OnlyBinding(s, t)
        /\ CountriesTold => /\ t.identity = [s.identity EXCEPT ![w] = i]
                            /\ t.country = [s.country EXCEPT ![w] = c]
    BY <2>2, Zenon DEF Binds
  <2>4. handleIdentityBound(d, log, id) = RecordIdentity(d, w, i, c) \o AddressOnly(id, w)
    BY DEF handleIdentityBound
  <2>5. Named(log) = {w}
    BY <1>1 DEF Named
  <2> HIDE DEF w, i, c
  <2>6. PICK e \in Store :
          /\ Written(d, RecordIdentity(d, w, i, c), e)
          /\ e.identity = [d.identity EXCEPT ![w] = [identity |-> i, country |-> c]]
          /\ e.byCountry = [d.byCountry EXCEPT ![w] = d.byCountry[w] \cup {c}]
          /\ OnlyIdentities(d, e)
    BY <2>1, RecordIdentityWritten
  <2>7. /\ e.identity[w] = [identity |-> i, country |-> c] /\ c \in e.byCountry[w]
        /\ \A v \in Wallets \ {w} : /\ e.identity[v] = d.identity[v]
                                    /\ e.byCountry[v] = d.byCountry[v]
    BY <1>0, <2>1, <2>6
  <2>8. IdentitiesTold(e, t)
    <3> SUFFICES ASSUME CountriesTold, NEW v \in Wallets PROVE RowTold(e, t, v)
      BY DEF IdentitiesTold
    <3>1. /\ t.identity[w] = i /\ t.country[w] = c
          /\ v # w => t.identity[v] = s.identity[v] /\ t.country[v] = s.country[v]
      BY <1>0, <2>1, <2>3
    <3>2. RowTold(d, s, v)
      BY <1>0 DEF IdentitiesTold
    <3>3. i # NoOne
      BY <1>0, <2>1
    <3>4. CASE v = w
      BY <2>7, <3>1, <3>3, <3>4 DEF RowTold
    <3>5. CASE v # w
      BY <2>7, <3>1, <3>2, <3>5, Zenon DEF RowTold
    <3> QED BY <3>4, <3>5
  <2>9. Mirrors(e, t)
    BY <2>3, <2>6, <2>8, OneKindTold
  <2>10. OthersStay(d, e, log)
    BY <2>5, <2>7, Zenon DEF OthersStay
  <2>11. RecordIdentity(d, w, i, c) \in Seq(Puts)
    <3>1. RecordIdentity(d, w, i, c) \in Seq(RecordPuts)
      BY <2>1, RecordIdentityTyped
    <3> QED BY <3>1, RecordPutsTyped, SeqOfMore
  <2>12. Records(d, log, t, RecordIdentity(d, w, i, c))
    BY <2>6, <2>9, <2>10, <2>11, Zenon DEF Records
  <2>13. EndsWithEvent(id, AddressOnly(id, w))
    BY <2>1, ShapesTyped
  <2> QED BY <2>4, <2>12, <2>13, RecordsThenEnds
<1>2. ASSUME log.kind = "IdentityUnbound" PROVE Records(d, log, t, handleIdentityUnbound(d, log, id))
  <2> DEFINE w == log.from
  <2>1. w \in Wallets
    BY <1>2, LogTyped
  <2>2. Unbinds(s, log, t)
    BY <1>2 DEF Step
  <2>3. /\ OnlyBinding(s, t)
        /\ CountriesTold => /\ t.identity = [s.identity EXCEPT ![w] = NoOne]
                            /\ t.country = [s.country EXCEPT ![w] = 0]
    BY <2>2, Zenon DEF Unbinds
  <2>4. handleIdentityUnbound(d, log, id) = RemoveIdentity(d, w) \o AddressOnly(id, w)
    BY DEF handleIdentityUnbound
  <2>5. Named(log) = {w}
    BY <1>2 DEF Named
  <2> HIDE DEF w
  <2>6. PICK e \in Store :
          /\ Written(d, RemoveIdentity(d, w), e)
          /\ e.identity = [d.identity EXCEPT ![w] = NoIdentity]
          /\ \A v \in Wallets \ {w} : e.byCountry[v] = d.byCountry[v]
          /\ OnlyIdentities(d, e)
    BY <2>1, RemoveIdentityWritten
  <2>7. /\ e.identity[w] = NoIdentity
        /\ \A v \in Wallets \ {w} : e.identity[v] = d.identity[v]
    BY <1>0, <2>1, <2>6
  <2>8. IdentitiesTold(e, t)
    <3> SUFFICES ASSUME CountriesTold, NEW v \in Wallets PROVE RowTold(e, t, v)
      BY DEF IdentitiesTold
    <3>1. /\ t.identity[w] = NoOne /\ t.country[w] = 0
          /\ v # w => t.identity[v] = s.identity[v] /\ t.country[v] = s.country[v]
      BY <1>0, <2>1, <2>3
    <3>2. RowTold(d, s, v)
      BY <1>0 DEF IdentitiesTold
    <3>4. CASE v = w
      BY <2>7, <3>1, <3>4 DEF RowTold, NoIdentity
    <3>5. CASE v # w
      BY <2>6, <2>7, <3>1, <3>2, <3>5, Zenon DEF RowTold
    <3> QED BY <3>4, <3>5
  <2>9. Mirrors(e, t)
    BY <2>3, <2>6, <2>8, OneKindTold
  <2>10. OthersStay(d, e, log)
    BY <2>5, <2>6, <2>7, Zenon DEF OthersStay
  <2>11. RemoveIdentity(d, w) \in Seq(Puts)
    <3>1. RemoveIdentity(d, w) \in Seq(RecordPuts)
      BY <2>1, RemoveIdentityTyped
    <3> QED BY <3>1, RecordPutsTyped, SeqOfMore
  <2>12. Records(d, log, t, RemoveIdentity(d, w))
    BY <2>6, <2>9, <2>10, <2>11, Zenon DEF Records
  <2>13. EndsWithEvent(id, AddressOnly(id, w))
    BY <2>1, ShapesTyped
  <2> QED BY <2>4, <2>12, <2>13, RecordsThenEnds
<1> QED BY <1>1, <1>2

\* A recovery: the identity goes to the new wallet, unless there was none.
LEMMA RecoveryMirrors ==
    ASSUME NEW d \in Store, NEW s \in ContractState, NEW t, NEW log \in Log, NEW id \in LogIds,
           Step(s, log, t), Mirrors(d, s), log.kind = "WalletRecovered"
    PROVE  Records(d, log, t, handleWalletRecovered(d, log, id))
<1>0. /\ d.identity \in [Wallets -> Identity] /\ d.byCountry \in [Wallets -> SUBSET Nat]
      /\ s.identity \in [Wallets -> Identities \cup {NoOne}] /\ s.country \in [Wallets -> Nat]
      /\ IdentitiesTold(d, s) /\ BalancesTold(d, s) /\ AssetTold(d, s)
  BY DEF Store, ContractState, Mirrors
<1> DEFINE lost == log.from
           new == log.to
           i == d.identity[lost].identity
           c == d.identity[lost].country
<1>1. lost \in Wallets /\ new \in Wallets
  BY LogTyped
<1>2. "recover" \in Traffic /\ SameHeld(s, t) /\ SameLaunch(s, t)
  BY DEF Step, Emitted, Recovers
<1>3. CountriesTold =>
        /\ lost # new /\ s.identity[new] = NoOne
        /\ t.identity = [[s.identity EXCEPT ![new] = s.identity[lost]] EXCEPT ![lost] = NoOne]
        /\ t.country = [[s.country EXCEPT ![new] = s.country[lost]] EXCEPT ![lost] = 0]
  <2>1. Recovers(s, log, t)
    BY DEF Step
  <2> QED BY <2>1, Zenon DEF Recovers
<1>4. Named(log) = {lost, new}
  BY DEF Named
<1>5. handleWalletRecovered(d, log, id) =
        (IF IsBound(d, lost) THEN RecordIdentity(d, new, i, c) \o RemoveIdentity(d, lost) ELSE <<>>)
          \o AddressOnly(id, new)
  BY DEF handleWalletRecovered, MoveIdentity
<1>6. EndsWithEvent(id, AddressOnly(id, new))
  BY <1>1, ShapesTyped
<1>7. i \in Identities \cup {NoOne} /\ c \in Nat /\ (IsBound(d, lost) <=> i # NoOne)
      /\ d.identity[lost] = [identity |-> i, country |-> c]
  <2>1. d.identity[lost] \in Identity
    BY <1>0, <1>1
  <2> QED BY <2>1 DEF Identity, IsBound
<1> HIDE DEF lost, new, i, c
<1>8. CountriesTold =>
        /\ t.identity[lost] = NoOne /\ t.country[lost] = 0
        /\ t.identity[new] = s.identity[lost] /\ t.country[new] = s.country[lost]
        /\ \A v \in Wallets \ {lost, new} : t.identity[v] = s.identity[v] /\ t.country[v] = s.country[v]
  BY <1>0, <1>1, <1>3
<1>9. ASSUME CountriesTold PROVE s.identity[lost] = i /\ s.country[lost] = c
  <2>1. RowTold(d, s, lost)
    BY <1>0, <1>1, <1>9 DEF IdentitiesTold
  <2>2. [identity |-> s.identity[lost], country |-> s.country[lost]] = [identity |-> i, country |-> c]
    BY <1>7, <2>1 DEF RowTold
  <2> DEFINE a == [identity |-> s.identity[lost], country |-> s.country[lost]]
             b == [identity |-> i, country |-> c]
  <2>3. a.identity = b.identity /\ a.country = b.country
    BY <2>2
  <2> QED BY <2>3
<1>10. ASSUME NEW e, OnlyIdentities(d, e), IdentitiesTold(e, t) PROVE Mirrors(e, t)
  <2>1. BalancesTold(e, t) /\ AssetTold(e, t)
    BY <1>0, <1>2, <1>10, ToldStays DEF OnlyIdentities
  <2>2. FreezesTold(e, t)
    BY <1>2 DEF FreezesTold
  <2> QED BY <1>10, <2>1, <2>2 DEF Mirrors
<1>11. CASE ~IsBound(d, lost)
  <2>1. IdentitiesTold(d, t)
    <3> SUFFICES ASSUME CountriesTold, NEW v \in Wallets PROVE RowTold(d, t, v)
      BY DEF IdentitiesTold
    <3>1. RowTold(d, s, v) /\ RowTold(d, s, lost) /\ RowTold(d, s, new)
      BY <1>0, <1>1 DEF IdentitiesTold
    <3>2. s.identity[lost] = NoOne /\ s.country[lost] = 0
      BY <1>7, <1>9, <1>11, <3>1 DEF RowTold
    <3>3. s.identity[new] = NoOne /\ s.country[new] = 0
      BY <1>3, <3>1 DEF RowTold
    <3>4. t.identity[v] = s.identity[v] /\ t.country[v] = s.country[v]
      BY <1>8, <3>2, <3>3
    <3> QED BY <3>1, <3>4, Zenon DEF RowTold
  <2>2. OnlyIdentities(d, d)
    BY DEF OnlyIdentities, SameBalances, SameAsset, SameFreezes
  <2>3. Mirrors(d, t)
    BY <1>10, <2>1, <2>2
  <2>4. Records(d, log, t, <<>>)
    BY <2>3, RecordsNothing
  <2>5. handleWalletRecovered(d, log, id) = <<>> \o AddressOnly(id, new)
    BY <1>5, <1>11
  <2> QED BY <1>6, <2>4, <2>5, RecordsThenEnds
<1>12. CASE IsBound(d, lost)
  <2>1. PICK m \in Store :
          /\ Written(d, RecordIdentity(d, new, i, c), m)
          /\ m.identity = [d.identity EXCEPT ![new] = [identity |-> i, country |-> c]]
          /\ m.byCountry = [d.byCountry EXCEPT ![new] = d.byCountry[new] \cup {c}]
          /\ OnlyIdentities(d, m)
    BY <1>1, <1>7, RecordIdentityWritten
  <2>2. PICK e \in Store :
          /\ Written(m, RemoveIdentity(d, lost), e)
          /\ e.identity = [m.identity EXCEPT ![lost] = NoIdentity]
          /\ \A v \in Wallets \ {lost} : e.byCountry[v] = m.byCountry[v]
          /\ OnlyIdentities(m, e)
    BY <1>1, RemoveIdentityWritten
  <2>3. /\ m.identity[new] = [identity |-> i, country |-> c] /\ c \in m.byCountry[new]
        /\ \A v \in Wallets \ {new} : /\ m.identity[v] = d.identity[v]
                                      /\ m.byCountry[v] = d.byCountry[v]
    BY <1>0, <1>1, <2>1
  <2>4. m.identity \in [Wallets -> Identity]
    BY DEF Store
  <2>5. /\ e.identity[lost] = NoIdentity
        /\ \A v \in Wallets \ {lost} : e.identity[v] = m.identity[v]
    BY <1>1, <2>2, <2>4
  <2>6. OnlyIdentities(d, e)
    BY <2>1, <2>2 DEF OnlyIdentities, SameBalances, SameAsset, SameFreezes
  <2>7. IdentitiesTold(e, t)
    <3> SUFFICES ASSUME CountriesTold, NEW v \in Wallets PROVE RowTold(e, t, v)
      BY DEF IdentitiesTold
    <3>1. RowTold(d, s, v)
      BY <1>0 DEF IdentitiesTold
    <3>2. CASE v = lost
      BY <1>8, <2>5, <3>2 DEF RowTold, NoIdentity
    <3>3. CASE v = new
      <4>1. v # lost /\ e.identity[v] = m.identity[v] /\ e.byCountry[v] = m.byCountry[v]
        BY <1>3, <2>2, <2>5, <3>3
      <4>2. t.identity[v] = i /\ t.country[v] = c /\ i # NoOne
        BY <1>7, <1>8, <1>9, <1>12, <3>3
      <4> QED BY <2>3, <3>3, <4>1, <4>2 DEF RowTold
    <3>4. CASE v # lost /\ v # new
      <4>1. e.identity[v] = d.identity[v] /\ e.byCountry[v] = d.byCountry[v]
        BY <2>2, <2>3, <2>5, <3>4
      <4>2. t.identity[v] = s.identity[v] /\ t.country[v] = s.country[v]
        BY <1>8, <3>4
      <4> QED BY <3>1, <4>1, <4>2, Zenon DEF RowTold
    <3> QED BY <3>2, <3>3, <3>4
  <2>8. OthersStay(d, e, log)
    <3> SUFFICES ASSUME NEW v \in Wallets, v # lost, v # new
                 PROVE  e.identity[v] = d.identity[v] /\ e.byCountry[v] = d.byCountry[v]
      BY <1>4 DEF OthersStay
    <3> QED BY <2>2, <2>3, <2>5
  <2> DEFINE a == RecordIdentity(d, new, i, c)
             b == RemoveIdentity(d, lost)
  <2>9. a \in Seq(Puts) /\ b \in Seq(Puts)
    <3>1. a \in Seq(RecordPuts) /\ b \in Seq(RecordPuts)
      BY <1>1, <1>7, RecordIdentityTyped, RemoveIdentityTyped
    <3> QED BY <3>1, RecordPutsTyped, SeqOfMore
  <2>10. Written(d, a, m) /\ Written(m, b, e)
    BY <2>1, <2>2
  <2>11. handleWalletRecovered(d, log, id) = (a \o b) \o AddressOnly(id, new)
    BY <1>5, <1>12
  <2> HIDE DEF a, b
  <2>12. Written(d, a \o b, e) /\ a \o b \in Seq(Puts)
    BY <2>9, <2>10, BothWritten
  <2>13. Mirrors(e, t)
    BY <1>10, <2>6, <2>7
  <2>14. Records(d, log, t, a \o b)
    BY <2>8, <2>12, <2>13 DEF Records
  <2> QED BY <1>6, <2>11, <2>14, RecordsThenEnds
<1> QED BY <1>11, <1>12

\* An event that is only listed, and the units whose log is left to a notice.
LEMMA NoticeMirrors ==
    ASSUME NEW d \in Store, NEW s \in ContractState, NEW t, NEW log \in Log, NEW id \in LogIds,
           Step(s, log, t), Mirrors(d, s)
    PROVE  /\ log.kind \in Notices \cup {"UnitMinted"} => Records(d, log, t, NoticePuts(log, id))
           /\ log.kind = "ForcedTransfer" => Records(d, log, t, handleForcedTransfer(id))
           /\ log.kind = "TransferBatch" => Records(d, log, t, <<>>)
<1>1. SameRecords(d, d)
  BY DEF SameRecords, SameBalances, SameAsset, SameFreezes, SameIdentities
<1>2. ASSUME Tells(log) PROVE Mirrors(d, t)
  <2>1. NothingTold(s, t)
    BY <1>2 DEF Step
  <2> QED BY <1>1, <2>1, MirrorsStay
<1>3. ASSUME log.kind \in {"UnitMinted", "TransferBatch"} PROVE Mirrors(d, t)
  <2>1. BalancesTold(d, t)
    BY <1>3 DEF Step, Emitted, BalancesTold, CountsKept
  <2>2. OnlyHeld(s, t)
    BY <1>3 DEF Step, Moves, Gains, Sends
  <2>3. OnlyBalances(d, d)
    BY DEF OnlyBalances, SameAsset, SameFreezes, SameIdentities
  <2> QED BY <2>1, <2>2, <2>3, OneKindTold
<1>4. ASSUME log.kind \in Notices \cup {"UnitMinted"} PROVE Records(d, log, t, NoticePuts(log, id))
  <2>1. log.from \in Wallets \cup {NoOne}
    BY LogTyped
  <2>2. NoticePuts(log, id) \in {TokenOnly(id), AddressOnly(id, NoOne), AddressOnly(id, log.from),
                                 TokenAndAddress(id, log.from)}
    BY <1>4, BareEvent DEF NoticePuts, Notices, TokenNotices, AccountNotices, TokenAccountNotices,
           GroupNotices, OtherTokenNotices, handleGenericEvent, handleGenericEventWithTokenAndAddr, handleGenericEventAddrOnly,
           handleRoleEvent, handleGlobalPlugin, handleSnapshotAndDividendCreated,
           handleDividendClaimed, handleRewardAssetEvent, handleYieldDeposited,
           handleYieldClaimed, handleComplianceSetting, handleMintedOfOther
  <2>3. EndsWithEvent(id, NoticePuts(log, id))
    BY <2>1, <2>2, ShapesTyped
  <2>4. Mirrors(d, t)
    BY <1>2, <1>3, <1>4 DEF Tells
  <2> QED BY <2>3, <2>4, RecordsEnd
<1>5. ASSUME log.kind = "ForcedTransfer" PROVE Records(d, log, t, handleForcedTransfer(id))
  <2>1. Mirrors(d, t)
    BY <1>2, <1>5 DEF Tells
  <2> QED BY <2>1, EventEnds, RecordsEnd DEF handleForcedTransfer
<1> QED BY <1>3, <1>4, <1>5, RecordsNothing

\* Whatever the log, its handler keeps the mirror.
LEMMA HandlerMirrors ==
    ASSUME NEW d \in Store, NEW s \in ContractState, NEW t, NEW log \in Log, NEW id \in LogIds,
           Step(s, log, t), Mirrors(d, s), NEW named \in BOOLEAN
    PROVE  Records(d, log, t, HandlerPuts(d, log, id, named))
<1> DEFINE result == HandlerPuts(d, log, id, named)
<1>1. CASE log.kind \in {"Minted", "Burned", "TransferSingle"}
  <2>1. \/ log.kind = "Minted" /\ result = handleMinted(d, log, id)
        \/ log.kind = "Burned" /\ result = handleBurned(d, log, id)
        \/ log.kind = "TransferSingle" /\ result = handleTransferSingle(d, log, id)
    BY <1>1 DEF HandlerPuts, Notices, TokenNotices, AccountNotices, TokenAccountNotices,
               GroupNotices, OtherTokenNotices
  <2> QED BY <2>1, SupplyMirrors, TransferMirrors
<1>2. CASE log.kind \in {"AssetRegistered", "URI", "AssetPaused", "AssetUnpaused"}
  <2>1. \/ log.kind = "AssetRegistered" /\ result = handleAssetRegistered(log, id, named)
        \/ log.kind = "URI" /\ result = handleURI(d, log, id)
        \/ /\ log.kind \in {"AssetPaused", "AssetUnpaused"}
           /\ result = handleAssetPaused(d, log, id, log.kind = "AssetPaused")
    BY <1>2 DEF HandlerPuts, Notices, TokenNotices, AccountNotices, TokenAccountNotices,
               GroupNotices, OtherTokenNotices
  <2> QED BY <2>1, AssetMirrors
<1>3. CASE log.kind \in {"IdentityBound", "IdentityUnbound", "WalletRecovered"}
  <2>1. \/ log.kind = "IdentityBound" /\ result = handleIdentityBound(d, log, id)
        \/ log.kind = "IdentityUnbound" /\ result = handleIdentityUnbound(d, log, id)
        \/ log.kind = "WalletRecovered" /\ result = handleWalletRecovered(d, log, id)
    BY <1>3 DEF HandlerPuts, Notices, TokenNotices, AccountNotices, TokenAccountNotices,
               GroupNotices, OtherTokenNotices
  <2> QED BY <2>1, BindingMirrors, RecoveryMirrors
<1>4. CASE log.kind \in FreezeLogs
  <2>1. \/ log.kind = "WalletFrozen" /\ result = handleWalletFrozen(log, id)
        \/ log.kind = "AssetFrozen" /\ result = handleAssetFrozen(log, id)
        \/ log.kind = "PartialFreeze" /\ result = handlePartialFreeze(d, log, id)
        \/ log.kind = "LockupSet" /\ result = handleLockupSet(d, log, id)
    BY <1>4 DEF HandlerPuts, FreezeLogs, Notices, TokenNotices, AccountNotices,
               TokenAccountNotices, GroupNotices, OtherTokenNotices
  <2> QED BY <2>1, FlagMirrors, NumberMirrors
<1>5. CASE log.kind \in Notices \cup {"UnitMinted"}
  <2>1. result = NoticePuts(log, id)
    BY <1>5 DEF HandlerPuts, Notices, TokenNotices, AccountNotices, TokenAccountNotices,
               GroupNotices, OtherTokenNotices
  <2> QED BY <1>5, <2>1, NoticeMirrors
<1>6. CASE log.kind = "ForcedTransfer"
  <2>1. result = handleForcedTransfer(id)
    BY <1>6 DEF HandlerPuts, Notices, TokenNotices, AccountNotices, TokenAccountNotices,
               GroupNotices, OtherTokenNotices
  <2> QED BY <1>6, <2>1, NoticeMirrors
<1>7. CASE log.kind = "TransferBatch"
  <2>1. result = <<>>
    BY <1>7 DEF HandlerPuts, Notices, TokenNotices, AccountNotices, TokenAccountNotices,
               GroupNotices, OtherTokenNotices
  <2> QED BY <1>7, <2>1, NoticeMirrors
<1>8. log.kind \in {"Minted", "Burned", "TransferSingle"}
        \cup {"AssetRegistered", "URI", "AssetPaused", "AssetUnpaused"}
        \cup {"IdentityBound", "IdentityUnbound", "WalletRecovered"}
        \cup FreezeLogs \cup Notices \cup {"UnitMinted", "ForcedTransfer", "TransferBatch"}
  BY DEF Log, LogsOf, FreezeLogs, Notices
<1> QED BY <1>1, <1>2, <1>3, <1>4, <1>5, <1>6, <1>7, <1>8

-----------------------------------------------------------------------------
(* How far the logs have been taken *)

\* No log lies before the start block, which START_BLOCK says.
FromTheStart == \A id \in LogIds : OnChain(id) => StartBlock <= id[1]

Passed(id) == id[1] <= Reach /\ id \notin logs

LEMMA FromBlockOne ==
    ASSUME StartBlock <= 1
    PROVE  FromTheStart
  BY IndexerAssumption, ChainAssumption DEF FromTheStart, LogIds

LEMMA PassedAtRest ==
    ASSUME IInv, QueryInv, FromTheStart, logs = {}, current = NoLog, NEW id \in LogIds, OnChain(id)
    PROVE  (Passed(id) <=> id[1] <= Reach) /\ (id[1] <= Reach <=> id[1] <= Cursor)
<1> USE NumbersTyped
<1>1. Reach \in Int
  BY DEF Reach, ChunkEnd, Least
<1>2. id[1] > Cursor => id \in Ahead
  BY DEF FromTheStart, OnChain, Ahead, LogsIn
<1> QED BY <1>1, <1>2 DEF Passed, QueryInv, QueryKnown, AheadKnown

LEMMA RestPassed ==
    ASSUME IInv, QueryInv, FromTheStart, logs = {}, current = NoLog, NEW id \in LogIds, OnChain(id),
           Cursor' = Cursor, logs' = {}, phase' \in {"idle", "down"}
    PROVE  Passed(id)' <=> Passed(id)
<1>1. Reach' = Cursor
  BY DEF Reach
<1>2. Passed(id)' <=> id[1] <= Cursor
  BY <1>1, NumbersTyped DEF Passed
<1> QED BY <1>2, PassedAtRest

LEMMA StartPassed ==
    ASSUME IInv, QueryInv, FromTheStart, Start, NEW id \in LogIds, OnChain(id)
    PROVE  Passed(id)' <=> Passed(id)
<1> USE NumbersTyped
<1>1. /\ Cursor' = Cursor /\ logs = {} /\ current = NoLog
      /\ logs' = {} /\ current' = NoLog /\ phase = "down"
  BY EnrichmentKeepsStore DEF Start, IInv, TypeOK, EndAhead
<1>2. CASE phase' = "idle"
  BY <1>1, <1>2, RestPassed
<1>3. CASE phase' = "backfill"
  <2>1. Reach' = BackfillFrom - 1 /\ BackfillFrom # 0
    BY <1>3 DEF Start, Reach
  <2>2. \/ BackfillFrom = Cursor + 1
        \/ BackfillFrom = StartBlock /\ Cursor < StartBlock
    BY <2>1 DEF BackfillFrom
  <2>3. Reach = Cursor
    BY <1>1 DEF Reach
  <2>4. StartBlock <= id[1]
    BY DEF FromTheStart
  <2> QED BY <1>1, <2>1, <2>2, <2>3, <2>4, SMTT(30) DEF Passed
<1> QED BY <1>2, <1>3 DEF Start

LEMMA QueryPassed ==
    ASSUME IInv, QueryInv, FetchChunk \/ Poll, NEW id \in LogIds, OnChain(id)
    PROVE  Passed(id)' <=> Passed(id)
<1> USE NumbersTyped
<1>1. /\ logs = {} /\ current = NoLog /\ current' = NoLog
      /\ Reach \in Int /\ Reach' \in Int /\ Reach <= Reach'
      /\ logs' = LogsIn(Reach + 1, Reach')
  BY SMTT(30) DEF FetchChunk, Poll, PollFrom, Cursor, Reach, ChunkEnd, Least, IInv, EndAhead,
         QueryInv, QueryKnown
<1>2. id \in logs' <=> (Reach + 1 <= id[1] /\ id[1] <= Reach')
  BY <1>1 DEF LogsIn, OnChain
<1> QED BY <1>1, <1>2, SMTT(30) DEF Passed

LEMMA EndPassed ==
    ASSUME IInv, QueryInv, FromTheStart, ChunkDone \/ PollDone, NEW id \in LogIds, OnChain(id)
    PROVE  Passed(id)' <=> Passed(id)
<1> USE NumbersTyped
<1>1. logs = {} /\ current = NoLog /\ logs' = {} /\ current' = NoLog
  BY DEF ChunkDone, PollDone
<1>2. CASE ChunkDone /\ phase' = "idle"
  BY <1>1, <1>2, RestPassed DEF ChunkDone, Cursor
<1>3. CASE ChunkDone /\ phase' # "idle"
  <2>1. Reach' = Reach
    BY <1>3, SMTT(30) DEF ChunkDone, Reach, ChunkEnd, Least
  <2> QED BY <1>1, <2>1 DEF Passed
<1>4. CASE PollDone
  <2>1. Cursor' = latest
    BY <1>4, CursorPut DEF PollDone, SetCursor, IInv, TypeOK, Cursor
  <2>2. Reach' = latest /\ Reach = latest
    BY <1>4, <2>1 DEF PollDone, Reach
  <2> QED BY <1>1, <2>2 DEF Passed
<1> QED BY <1>2, <1>3, <1>4

LEMMA FailPassed ==
    ASSUME IInv, QueryInv, FromTheStart, Fail, Crash => Resting, NEW id \in LogIds, OnChain(id)
    PROVE  Passed(id)' <=> Passed(id)
<1>1. CASE StartFails
  BY <1>1, RestPassed, EnrichmentKeepsStore DEF StartFails, IInv, TypeOK, EndAhead
<1>2. CASE FetchChunkFails
  <2>1. /\ Cursor' = Cursor /\ logs' = {} /\ current' = NoLog /\ logs = {} /\ current = NoLog
    BY <1>2 DEF FetchChunkFails, Cursor, IInv, EndAhead
  <2>2. CASE phase' = "idle"
    BY <2>1, <2>2, RestPassed
  <2>3. CASE phase' = phase
    <3>1. Reach' = Reach
      BY <1>2, <2>1, <2>3 DEF FetchChunkFails, Reach, ChunkEnd, Least
    <3> QED BY <2>1, <3>1, NumbersTyped DEF Passed
  <2> QED BY <1>2, <2>2, <2>3 DEF FetchChunkFails
<1>3. CASE PollFails
  BY <1>3, RestPassed DEF PollFails, process, Cursor, IInv, EndAhead
<1>4. CASE Crash
  BY <1>4, RestPassed DEF Crash, Resting, Cursor, IInv, EndAhead
<1> QED BY <1>1, <1>2, <1>3, <1>4 DEF Fail

LEMMA LogPassed ==
    ASSUME IInv, WriteNext \/ FinishLog \/ MineBlock(Traffic) \/ UNCHANGED vars, NEW id \in LogIds
    PROVE  Passed(id)' <=> Passed(id)
<1>1. CASE FinishLog
  <2>1. /\ current # NoLog /\ logs' = logs /\ phase' = phase
        /\ fromBlock' = fromBlock /\ latest' = latest
    BY <1>1 DEF FinishLog
  <2>2. phase \in {"chunk", "poll"}
    BY <2>1 DEF IInv, EndAhead, TypeOK, Phases
  <2>3. Reach' = Reach
    BY <2>1, <2>2 DEF Reach, ChunkEnd, Least
  <2> QED BY <2>1, <2>3 DEF Passed
<1>2. CASE MineBlock(Traffic)
  BY <1>2 DEF MineBlock, process, Passed, Reach, ChunkEnd, Least, Cursor
<1>3. CASE UNCHANGED vars
  BY <1>3 DEF vars, process, Passed, Reach, ChunkEnd, Least, Cursor
<1>4. CASE WriteNext
  <2>1. /\ Cursor' = Cursor /\ phase' = phase /\ logs' = logs
        /\ latest' = latest /\ fromBlock' = fromBlock
    BY <1>4, WriteNextIInv DEF WriteNext
  <2> QED BY <2>1 DEF Passed, Reach, ChunkEnd, Least
<1> QED BY <1>1, <1>2, <1>3, <1>4

\* Only a log that is taken becomes one that was passed.
LEMMA PassedStays ==
    ASSUME IInv, QueryInv, FromTheStart, [Next]_vars, Crash => Resting, ~TakeLog,
           NEW id \in LogIds, OnChain(id)
    PROVE  Passed(id)' <=> Passed(id)
<1>1. \/ Start \/ (FetchChunk \/ Poll) \/ (ChunkDone \/ PollDone) \/ Fail
      \/ (WriteNext \/ FinishLog \/ MineBlock(Traffic) \/ UNCHANGED vars)
  BY Zenon DEF Next, Work
<1> QED BY <1>1, StartPassed, QueryPassed, EndPassed, FailPassed, LogPassed

LEMMA TakeLogPassed ==
    ASSUME IInv, QueryInv, TakeLog, NEW id \in LogIds
    PROVE  /\ Passed(id)' <=> Passed(id) \/ id = current'
           /\ current' \in LogIds /\ OnChain(current') /\ ~Passed(current')
<1> USE NumbersTyped
<1>1. PICK next \in logs, named \in BOOLEAN :
        /\ current' = next
        /\ puts' = HandlerPuts(db, LogAt(next), next, named)
        /\ logs' = logs \ {next}
  BY DEF TakeLog
<1>2. Reach' = Reach /\ current = NoLog
  BY DEF TakeLog, Reach, ChunkEnd, Least, Cursor
<1>3. next \in LogIds /\ OnChain(next) /\ next[1] <= Reach
  BY DEF IInv, LogsOnChain, LogsIn, OnChain, QueryInv, QueryKnown
<1> QED BY <1>1, <1>2, <1>3 DEF Passed

LEMMA NewLogNotPassed ==
    ASSUME IInv, QueryInv, [Next]_vars, NEW id \in LogIds, OnChain(id)', ~OnChain(id)
    PROVE  ~Passed(id)' /\ MineBlock(Traffic) /\ id[1] = Len(chain) + 1
<1> USE NumbersTyped
<1>1. MineBlock(Traffic)
  <2> SUFFICES ASSUME ~MineBlock(Traffic) PROVE FALSE
    OBVIOUS
  <2>1. chain' = chain
    BY DEF Next, Work, Fail, Start, FetchChunk, ChunkDone, Poll, PollDone, TakeLog,
           WriteNext, FinishLog, StartFails, FetchChunkFails, PollFails, Crash, vars
  <2> QED BY <2>1 DEF OnChain
<1>2. id[1] = Len(chain) + 1
  <2> SUFFICES ASSUME id[1] <= Len(chain) PROVE FALSE
    BY <1>1, ChainGrows DEF OnChain
  <2>1. id[1] \in 1..Len(chain)
    BY DEF LogIds
  <2> QED BY <1>1, <2>1, ChainGrows DEF OnChain
<1>3. Reach' = Reach /\ Reach <= Len(chain) /\ Reach \in Int
  BY <1>1 DEF MineBlock, process, Reach, ChunkEnd, Least, Cursor, QueryInv, QueryKnown
<1> QED BY <1>1, <1>2, <1>3 DEF Passed

-----------------------------------------------------------------------------
(* The mirror, all along *)

\* The logs that were passed are those up to p.
Mark(p) == \A id \in LogIds : OnChain(id) => (Passed(id) <=> NotAfter(id, p))

\* The puts in hand are of the last log that was taken, and bring the database to
\* a mirror of the contracts after it.
MirrorAt(p, s, e) ==
    /\ Mark(p) /\ Reached(p, s)
    /\ Written(db, puts, e) /\ Mirrors(e, s)
    /\ current # NoLog => p = current /\ OthersStay(db, e, LogAt(current))
    /\ current = NoLog => puts = <<>>

Mirror == \E p \in LogIds \cup {NoLog}, s \in ContractState, e \in Store : MirrorAt(p, s, e)

LEMMA MarkStays ==
    ASSUME IInv, QueryInv, FromTheStart, [Next]_vars, Crash => Resting, ~TakeLog,
           NEW p, NEW s, Reached(p, s), Mark(p)
    PROVE  Mark(p)'
<1> SUFFICES ASSUME NEW id \in LogIds, OnChain(id)' PROVE Passed(id)' <=> NotAfter(id, p)
  BY DEF Mark
<1>1. CASE OnChain(id)
  BY <1>1, PassedStays DEF Mark
<1>2. CASE ~OnChain(id)
  <2>1. ~Passed(id)' /\ id[1] = Len(chain) + 1
    BY <1>2, NewLogNotPassed
  <2>2. p[1] \in 0..Len(chain) /\ Len(chain) \in Nat
    BY ReachedTyped, NumbersTyped
  <2> QED BY <2>1, <2>2 DEF NotAfter
<1> QED BY <1>1, <1>2

\* With nothing in hand the records stay, whatever is enriched or the cursor says.
LEMMA EnrichedMirrors ==
    ASSUME NEW s, Mirrors(db, s), db \in Store
    PROVE  Mirrors(Enriched, s)
<1> DEFINE a == Asset(db)
           row == [a EXCEPT !.named = TRUE]
           e == After(db, PutAsset(row)[1])
<1>1. a \in AssetConfig
  BY AssetRowTyped
<1>2. row.known = a.known /\ row.paused = a.paused /\ row.uri = a.uri
  BY <1>1 DEF AssetConfig
<1>3. Enriched = IF a.known THEN e ELSE db
  BY DEF Enriched
<1>4. PutAsset(row)[1] = Put("asset", OnlyRow, row)
  BY DEF PutAsset
<1>5. Asset(e) = row /\ OnlyAsset(db, e)
  <2> HIDE DEF row
  <2> QED BY <1>4 DEF After, Put, Store, Asset, OnlyRow, OnlyAsset, SameBalances, SameFreezes,
                      SameIdentities
<1> HIDE DEF a, row, e
<1>6. AssetTold(e, s)
  BY <1>2, <1>5 DEF a, AssetTold, Mirrors
<1>7. OnlyLaunch(s, s)
  BY DEF OnlyLaunch, SameHeld, SameFrozen, SameBinding
<1>8. Mirrors(e, s)
  BY <1>5, <1>6, <1>7, OneKindTold
<1> QED BY <1>3, <1>8

LEMMA CursorMirrors ==
    ASSUME NEW s, Mirrors(db, s), db \in Store, NEW block \in Nat, SetCursor(block)
    PROVE  Mirrors(db', s)
<1>1. SameRecords(db, db')
  BY DEF SetCursor, After, Put, Store, SameRecords, SameBalances, SameAsset, SameFreezes,
         SameIdentities
<1>2. NothingTold(s, s)
  BY DEF NothingTold, SameHeld, SameLaunch, SameFrozen, SameBinding
<1> DEFINE e == db'
<1>3. SameRecords(db, e)
  BY <1>1
<1> HIDE DEF e
<1>4. Mirrors(e, s)
  BY <1>2, <1>3, MirrorsStay
<1> QED BY <1>4 DEF e

-----------------------------------------------------------------------------
(* A handler touches no identity but those of the wallets its log names *)

OtherPuts ==
    PutsOf("meta", {OnlyRow}, TokenMeta)
      \cup PutsOf("holder", Wallets, Int)
      \cup PutsOf("portfolio", Wallets, Int)
      \cup PutsOf("asset", {OnlyRow}, AssetConfig)
      \cup PutsOf("walletFreeze", Wallets, BOOLEAN)
      \cup PutsOf("freeze", Wallets, FreezeState)
      \cup PutsOf("event", LogIds, BOOLEAN)
      \cup PutsOf("byToken", LogIds, BOOLEAN)
      \cup PutsOf("byAddress", LogIds, Wallets \cup {NoOne})

IdentityPuts(W) == PutsOf("identity", W, Identity) \cup PutsOf("byCountry", W, SUBSET Nat)

PutsOfLog(log) == OtherPuts \cup IdentityPuts(Named(log))

LEMMA EventEndsAside ==
    ASSUME NEW id \in LogIds, NEW end, EndsWithEvent(id, end)
    PROVE  end \in Seq(OtherPuts)
<1>1. PICK keys \in Seq(KeyPuts(id)) : end = PutEvent(id) \o keys
  BY DEF EndsWithEvent
<1>2. KeyPuts(id) \subseteq OtherPuts
  BY DEF KeyPuts, OtherPuts, PutsOf
<1>3. PutEvent(id) \in Seq(OtherPuts)
  BY DEF PutEvent, Put, OtherPuts, PutsOf
<1>4. keys \in Seq(OtherPuts)
  BY <1>2, SeqOfMore
<1> QED BY <1>1, <1>3, <1>4

LEMMA BalancePutsAside ==
    ASSUME NEW d \in Store, NEW log \in Log, NEW id \in LogIds
    PROVE  /\ log.kind = "Minted" => handleMinted(d, log, id) \in Seq(OtherPuts)
           /\ log.kind = "Burned" => handleBurned(d, log, id) \in Seq(OtherPuts)
           /\ log.kind = "TransferSingle" => handleTransferSingle(d, log, id) \in Seq(OtherPuts)
<1>1. ASSUME NEW w \in Wallets, NEW balance \in Int
      PROVE  /\ PutHolderBalance(w, balance) \in Seq(OtherPuts)
             /\ PutOrDelete(w, balance) \in Seq(OtherPuts)
  BY DEF PutHolderBalance, PutOrDelete, Put, OtherPuts, PutsOf
<1>2. ASSUME NEW supply \in Int, NEW count \in Int
      PROVE  PutMeta(supply, count) \in Seq(OtherPuts)
  <2>1. count % CountModulus \in 0..(CountModulus - 1)
    BY CountAssumption
  <2>2. [supply |-> supply, holderCount |-> count % CountModulus] \in TokenMeta
    BY <2>1 DEF TokenMeta
  <2> DEFINE row == [supply |-> supply, holderCount |-> count % CountModulus]
  <2>3. row \in TokenMeta /\ PutMeta(supply, count) = <<Put("meta", OnlyRow, row)>>
    BY <2>2 DEF PutMeta
  <2> HIDE DEF row
  <2> QED BY <2>3 DEF Put, OtherPuts, PutsOf
<1>3. PutEvent(id) \in Seq(OtherPuts) /\ log.n \in Nat
  BY EventEnds, EventEndsAside, LogTyped
<1>4. ASSUME log.kind = "Minted" PROVE handleMinted(d, log, id) \in Seq(OtherPuts)
  <2> DEFINE w == log.to
             gained == IF d.holder[w] = 0 THEN 1 ELSE 0
  <2>1. w \in Wallets
    BY <1>4, LogTyped
  <2>2. /\ d.holder[w] + log.n \in Int /\ Meta(d).supply + log.n \in Int
        /\ Meta(d).holderCount + gained \in Int
    BY <1>3, <2>1, RowsTyped, SMTT(30)
  <2>3. handleMinted(d, log, id) =
          (PutHolderBalance(w, d.holder[w] + log.n)
             \o PutMeta(Meta(d).supply + log.n, Meta(d).holderCount + gained)) \o PutEvent(id)
    BY DEF handleMinted, RecordMint
  <2> HIDE DEF w, gained
  <2>4. /\ PutHolderBalance(w, d.holder[w] + log.n) \in Seq(OtherPuts)
        /\ PutMeta(Meta(d).supply + log.n, Meta(d).holderCount + gained) \in Seq(OtherPuts)
    BY <1>1, <1>2, <2>1, <2>2
  <2> QED BY <1>3, <2>3, <2>4
<1>5. ASSUME log.kind = "Burned" PROVE handleBurned(d, log, id) \in Seq(OtherPuts)
  <2> DEFINE w == log.from
             lost == IF d.holder[w] <= log.n THEN 1 ELSE 0
  <2>1. w \in Wallets
    BY <1>5, LogTyped
  <2>2. /\ d.holder[w] - log.n \in Int /\ Meta(d).supply - log.n \in Int
        /\ Meta(d).holderCount - lost \in Int
    BY <1>3, <2>1, RowsTyped
  <2>3. handleBurned(d, log, id) =
          (PutOrDelete(w, d.holder[w] - log.n)
             \o PutMeta(Meta(d).supply - log.n, Meta(d).holderCount - lost)) \o PutEvent(id)
    BY DEF handleBurned, RecordBurn
  <2> HIDE DEF w, lost
  <2>4. /\ PutOrDelete(w, d.holder[w] - log.n) \in Seq(OtherPuts)
        /\ PutMeta(Meta(d).supply - log.n, Meta(d).holderCount - lost) \in Seq(OtherPuts)
    BY <1>1, <1>2, <2>1, <2>2
  <2> QED BY <1>3, <2>3, <2>4
<1>6. ASSUME log.kind = "TransferSingle" PROVE handleTransferSingle(d, log, id) \in Seq(OtherPuts)
  <2>1. CASE NoOne \in {log.from, log.to}
    BY <2>1 DEF handleTransferSingle
  <2>2. CASE NoOne \notin {log.from, log.to}
    <3> DEFINE from == log.from
               to == log.to
               left == IF d.holder[from] <= log.n THEN 0 ELSE d.holder[from] - log.n
               before == IF to = from THEN left ELSE d.holder[to]
               count == Meta(d).holderCount - (IF left = 0 THEN 1 ELSE 0)
                                            + (IF before = 0 THEN 1 ELSE 0)
    <3>1. from \in Wallets /\ to \in Wallets
      BY <1>6, <2>2, LogTyped
    <3>2. left \in Int /\ before \in Int /\ before + log.n \in Int
      BY <1>3, <3>1, RowsTyped
    <3>3. Meta(d).supply \in Int /\ count \in Int
      BY <3>1, RowsTyped
    <3>4. handleTransferSingle(d, log, id) =
            ((PutHolderBalance(from, left) \o PutHolderBalance(to, before + log.n))
               \o PutMeta(Meta(d).supply, count)) \o PutEvent(id)
      BY <2>2, Zenon DEF handleTransferSingle, RecordTransfer
    <3> HIDE DEF from, to, left, before, count
    <3>5. /\ PutHolderBalance(from, left) \in Seq(OtherPuts)
          /\ PutHolderBalance(to, before + log.n) \in Seq(OtherPuts)
      BY <1>1, <3>1, <3>2
    <3>6. PutMeta(Meta(d).supply, count) \in Seq(OtherPuts)
      BY <1>2, <3>3
    <3> QED BY <1>3, <3>4, <3>5, <3>6
  <2> QED BY <2>1, <2>2
<1> QED BY <1>4, <1>5, <1>6

LEMMA FlagPutsAside ==
    ASSUME NEW d \in Store, NEW w \in Wallets, NEW n \in Nat, NEW flag \in BOOLEAN
    PROVE  /\ RecordFreeze(w, flag) \in Seq(OtherPuts)
           /\ RecordWalletFreeze(w, flag) \in Seq(OtherPuts)
           /\ UpdateFreezeAmount(d, w, n) \in Seq(OtherPuts)
           /\ UpdateLockupExpiry(d, w, n) \in Seq(OtherPuts)
<1>1. [NotFrozen EXCEPT !.frozen = flag] \in FreezeState
  BY DEF FreezeState, NotFrozen
<1>2. /\ [d.freeze[w] EXCEPT !.frozenAmount = n] \in FreezeState
      /\ [d.freeze[w] EXCEPT !.lockup = n] \in FreezeState
  BY RowsTyped DEF FreezeState
<1>3. ASSUME NEW row \in FreezeState
      PROVE  <<Put("freeze", w, row)>> \in Seq(OtherPuts)
  BY DEF Put, OtherPuts, PutsOf
<1>4. <<Put("walletFreeze", w, flag)>> \in Seq(OtherPuts)
  BY DEF Put, OtherPuts, PutsOf
<1> QED BY <1>1, <1>2, <1>3, <1>4
        DEF RecordFreeze, RecordWalletFreeze, UpdateFreezeAmount, UpdateLockupExpiry

LEMMA AssetPutsAside ==
    ASSUME NEW d \in Store, NEW flag \in BOOLEAN, NEW u \in Nat
    PROVE  /\ RecordAsset(flag) \in Seq(OtherPuts)
           /\ UpdateAssetPaused(d, flag) \in Seq(OtherPuts)
           /\ UpdateAssetURI(d, u) \in Seq(OtherPuts)
<1>1. ASSUME NEW row \in AssetConfig
      PROVE  PutAsset(row) \in Seq(OtherPuts)
  BY DEF PutAsset, Put, OtherPuts, PutsOf
<1>2. /\ [NoAsset EXCEPT !.known = TRUE, !.named = flag] \in AssetConfig
      /\ [Asset(d) EXCEPT !.known = TRUE, !.paused = flag] \in AssetConfig
      /\ [Asset(d) EXCEPT !.known = TRUE, !.uri = u] \in AssetConfig
  <2>1. Asset(d) \in AssetConfig
    BY AssetRowTyped
  <2> QED BY <2>1 DEF NoAsset, AssetConfig
<1> QED BY <1>1, <1>2 DEF RecordAsset, UpdateAssetPaused, UpdateAssetURI

LEMMA RecordIdentityAside ==
    ASSUME NEW d \in Store, NEW W, NEW w \in W, W \subseteq Wallets,
           NEW i \in Identities \cup {NoOne}, NEW c \in Nat
    PROVE  RecordIdentity(d, w, i, c) \in Seq(IdentityPuts(W))
<1>1. [identity |-> i, country |-> c] \in Identity
  BY DEF Identity
<1>2. d.byCountry[w] \cup {c} \in SUBSET Nat
  BY RowsTyped
<1>3. /\ Put("identity", w, [identity |-> i, country |-> c]) \in IdentityPuts(W)
      /\ Put("byCountry", w, d.byCountry[w] \cup {c}) \in IdentityPuts(W)
  BY <1>1, <1>2 DEF Put, IdentityPuts, PutsOf
<1> QED BY <1>3 DEF RecordIdentity

LEMMA RemoveIdentityAside ==
    ASSUME NEW d \in Store, NEW W, NEW w \in W, W \subseteq Wallets
    PROVE  RemoveIdentity(d, w) \in Seq(IdentityPuts(W))
<1>1. NoIdentity \in Identity
  BY DEF NoIdentity, Identity
<1>2. d.byCountry[w] \ {d.identity[w].country} \in SUBSET Nat
  BY RowsTyped
<1>3. <<Put("byCountry", w, d.byCountry[w] \ {d.identity[w].country})>> \in Seq(IdentityPuts(W))
  BY <1>2 DEF Put, IdentityPuts, PutsOf
<1>4. <<Put("identity", w, NoIdentity)>> \in Seq(IdentityPuts(W))
  BY <1>1 DEF Put, IdentityPuts, PutsOf
<1> QED BY <1>3, <1>4 DEF RemoveIdentity

LEMMA MoveIdentityAside ==
    ASSUME NEW d \in Store, NEW lost \in Wallets, NEW new \in Wallets
    PROVE  MoveIdentity(d, lost, new) \in Seq(IdentityPuts({lost, new}))
<1>1. d.identity[lost].identity \in Identities \cup {NoOne} /\ d.identity[lost].country \in Nat
  BY RowsTyped DEF Identity
<1>2. RecordIdentity(d, new, d.identity[lost].identity, d.identity[lost].country)
        \in Seq(IdentityPuts({lost, new}))
  BY <1>1, RecordIdentityAside
<1>3. RemoveIdentity(d, lost) \in Seq(IdentityPuts({lost, new}))
  BY RemoveIdentityAside
<1> QED BY <1>2, <1>3 DEF MoveIdentity

LEMMA PutsJoined ==
    ASSUME NEW log, NEW list, NEW end \in Seq(OtherPuts),
           list \in Seq(OtherPuts) \/ list \in Seq(IdentityPuts(Named(log)))
    PROVE  list \o end \in Seq(PutsOfLog(log)) /\ end \in Seq(PutsOfLog(log))
<1>1. OtherPuts \subseteq PutsOfLog(log) /\ IdentityPuts(Named(log)) \subseteq PutsOfLog(log)
  BY DEF PutsOfLog
<1>2. list \in Seq(PutsOfLog(log)) /\ end \in Seq(PutsOfLog(log))
  BY <1>1, SeqOfMore
<1> QED BY <1>2

\* What a handler writes of identities is about the wallets its log names.
LEMMA HandlerNames ==
    ASSUME NEW d \in Store, NEW log \in Log, NEW id \in LogIds, NEW named \in BOOLEAN
    PROVE  HandlerPuts(d, log, id, named) \in Seq(PutsOfLog(log))
<1> DEFINE result == HandlerPuts(d, log, id, named)
<1> SUFFICES result \in Seq(PutsOfLog(log))
  OBVIOUS
<1> HIDE DEF result
<1>1. ASSUME NEW end, EndsWithEvent(id, end) PROVE end \in Seq(OtherPuts)
  BY <1>1, EventEndsAside
<1>2. ASSUME result \in Seq(OtherPuts) PROVE result \in Seq(PutsOfLog(log))
  <2>1. OtherPuts \subseteq PutsOfLog(log)
    BY DEF PutsOfLog
  <2> QED BY <1>2, <2>1, SeqOfMore
<1>3. CASE log.kind \in {"Minted", "Burned", "TransferSingle"}
  <2>1. \/ log.kind = "Minted" /\ result = handleMinted(d, log, id)
        \/ log.kind = "Burned" /\ result = handleBurned(d, log, id)
        \/ log.kind = "TransferSingle" /\ result = handleTransferSingle(d, log, id)
    BY <1>3 DEF result, HandlerPuts, Notices, TokenNotices, AccountNotices, TokenAccountNotices,
               GroupNotices, OtherTokenNotices
  <2> QED BY <1>2, <2>1, BalancePutsAside
<1>4. CASE log.kind \in {"AssetRegistered", "URI", "AssetPaused", "AssetUnpaused"}
  <2>1. \/ log.kind = "AssetRegistered" /\ result = handleAssetRegistered(log, id, named)
        \/ log.kind = "URI" /\ result = handleURI(d, log, id)
        \/ /\ log.kind \in {"AssetPaused", "AssetUnpaused"}
           /\ result = handleAssetPaused(d, log, id, log.kind = "AssetPaused")
    BY <1>4 DEF result, HandlerPuts, Notices, TokenNotices, AccountNotices, TokenAccountNotices,
               GroupNotices, OtherTokenNotices
  <2>2. log.n \in Nat /\ log.from \in Wallets \cup {NoOne} /\ (log.kind = "AssetPaused") \in BOOLEAN
    BY LogTyped
  <2>3. /\ RecordAsset(named) \in Seq(OtherPuts)
        /\ UpdateAssetPaused(d, log.kind = "AssetPaused") \in Seq(OtherPuts)
        /\ UpdateAssetURI(d, log.n) \in Seq(OtherPuts)
    BY <2>2, AssetPutsAside
  <2>4. TokenOnly(id) \in Seq(OtherPuts) /\ TokenAndAddress(id, log.from) \in Seq(OtherPuts)
    BY <1>1, <2>2, ShapesTyped
  <2> QED BY <2>1, <2>3, <2>4, PutsJoined DEF handleAssetRegistered, handleURI, handleAssetPaused
<1>5. CASE log.kind \in {"IdentityBound", "IdentityUnbound", "WalletRecovered"}
  <2>1. \/ log.kind = "IdentityBound" /\ result = handleIdentityBound(d, log, id)
        \/ log.kind = "IdentityUnbound" /\ result = handleIdentityUnbound(d, log, id)
        \/ log.kind = "WalletRecovered" /\ result = handleWalletRecovered(d, log, id)
    BY <1>5 DEF result, HandlerPuts, Notices, TokenNotices, AccountNotices, TokenAccountNotices,
               GroupNotices, OtherTokenNotices
  <2>2. log.n \in Nat /\ log.from \in Wallets
    BY <1>5, LogTyped
  <2>3. AddressOnly(id, log.from) \in Seq(OtherPuts)
    BY <1>1, <2>2, ShapesTyped
  <2>4. CASE log.kind = "IdentityBound"
    <3>1. Named(log) = {log.from} /\ log.to \in Identities
      BY <2>4, LogTyped DEF Named
    <3>2. RecordIdentity(d, log.from, log.to, log.n) \in Seq(IdentityPuts(Named(log)))
      BY <2>2, <3>1, RecordIdentityAside
    <3> QED BY <2>1, <2>3, <2>4, <3>2, PutsJoined DEF handleIdentityBound
  <2>5. CASE log.kind = "IdentityUnbound"
    <3>1. Named(log) = {log.from}
      BY <2>5 DEF Named
    <3>2. RemoveIdentity(d, log.from) \in Seq(IdentityPuts(Named(log)))
      BY <2>2, <3>1, RemoveIdentityAside
    <3> QED BY <2>1, <2>3, <2>5, <3>2, PutsJoined DEF handleIdentityUnbound
  <2>6. CASE log.kind = "WalletRecovered"
    <3>1. Named(log) = {log.from, log.to} /\ log.to \in Wallets
      BY <2>6, LogTyped DEF Named
    <3>2. MoveIdentity(d, log.from, log.to) \in Seq(IdentityPuts(Named(log)))
      BY <2>2, <3>1, MoveIdentityAside
    <3>3. AddressOnly(id, log.to) \in Seq(OtherPuts)
      BY <1>1, <3>1, ShapesTyped
    <3> QED BY <2>1, <2>6, <3>2, <3>3, PutsJoined DEF handleWalletRecovered
  <2> QED BY <1>5, <2>4, <2>5, <2>6
<1>6. CASE log.kind \in FreezeLogs
  <2>1. result \in {handleWalletFrozen(log, id), handleAssetFrozen(log, id),
                    handlePartialFreeze(d, log, id), handleLockupSet(d, log, id)}
    BY <1>6 DEF result, HandlerPuts, FreezeLogs, Notices, TokenNotices, AccountNotices,
               TokenAccountNotices, GroupNotices, OtherTokenNotices
  <2>2. log.n \in Nat /\ log.from \in Wallets /\ (log.n = 1) \in BOOLEAN
    BY <1>6, LogTyped DEF FreezeLogs
  <2>3. /\ RecordWalletFreeze(log.from, log.n = 1) \in Seq(OtherPuts)
        /\ RecordFreeze(log.from, log.n = 1) \in Seq(OtherPuts)
        /\ UpdateFreezeAmount(d, log.from, log.n) \in Seq(OtherPuts)
        /\ UpdateLockupExpiry(d, log.from, log.n) \in Seq(OtherPuts)
    BY <2>2, FlagPutsAside
  <2>4. AddressOnly(id, log.from) \in Seq(OtherPuts) /\ TokenAndAddress(id, log.from) \in Seq(OtherPuts)
    BY <1>1, <2>2, ShapesTyped
  <2> QED BY <2>1, <2>3, <2>4, PutsJoined
          DEF handleWalletFrozen, handleAssetFrozen, handlePartialFreeze, handleLockupSet
<1>7. CASE log.kind \in Notices \cup {"UnitMinted"}
  <2>1. result = NoticePuts(log, id)
    BY <1>7 DEF result, HandlerPuts, Notices, TokenNotices, AccountNotices, TokenAccountNotices,
               GroupNotices, OtherTokenNotices
  <2>2. log.from \in Wallets \cup {NoOne}
    BY LogTyped
  <2>3. NoticePuts(log, id) \in {TokenOnly(id), AddressOnly(id, NoOne), AddressOnly(id, log.from),
                                 TokenAndAddress(id, log.from)}
    BY <1>7, BareEvent DEF NoticePuts, Notices, TokenNotices, AccountNotices, TokenAccountNotices,
           GroupNotices, OtherTokenNotices, handleGenericEvent, handleGenericEventWithTokenAndAddr, handleGenericEventAddrOnly,
           handleRoleEvent, handleGlobalPlugin, handleSnapshotAndDividendCreated,
           handleDividendClaimed, handleRewardAssetEvent, handleYieldDeposited,
           handleYieldClaimed, handleComplianceSetting, handleMintedOfOther
  <2>4. EndsWithEvent(id, NoticePuts(log, id))
    BY <2>2, <2>3, ShapesTyped
  <2> QED BY <1>1, <1>2, <2>1, <2>4
<1>8. CASE log.kind = "ForcedTransfer"
  <2>1. result = PutEvent(id)
    BY <1>8 DEF result, HandlerPuts, handleForcedTransfer, Notices, TokenNotices, AccountNotices,
               TokenAccountNotices, GroupNotices, OtherTokenNotices
  <2> QED BY <1>1, <1>2, <2>1, EventEnds
<1>9. CASE log.kind = "TransferBatch"
  <2>1. result = <<>>
    BY <1>9 DEF result, HandlerPuts, Notices, TokenNotices, AccountNotices, TokenAccountNotices, GroupNotices, OtherTokenNotices
  <2> QED BY <2>1
<1>10. log.kind \in {"Minted", "Burned", "TransferSingle"}
        \cup {"AssetRegistered", "URI", "AssetPaused", "AssetUnpaused"}
        \cup {"IdentityBound", "IdentityUnbound", "WalletRecovered"}
        \cup FreezeLogs \cup Notices \cup {"UnitMinted", "ForcedTransfer", "TransferBatch"}
  BY DEF Log, LogsOf, FreezeLogs, Notices
<1> QED BY <1>3, <1>4, <1>5, <1>6, <1>7, <1>8, <1>9, <1>10

-----------------------------------------------------------------------------
(* What the log in hand has still to write *)

NamedOnly == current # NoLog => puts \in Seq(PutsOfLog(LogAt(current)))

LEMMA LogInHand ==
    ASSUME IInv, QueryInv, current # NoLog
    PROVE  current \in LogIds /\ OnChain(current) /\ LogAt(current) \in Log
<1>1. current \in LogIds /\ OnChain(current)
  BY NumbersTyped DEF QueryInv, QueryKnown
<1>2. current \in LogsIn(1, Len(chain))
  BY <1>1, NumbersTyped DEF LogsIn, LogIds, OnChain
<1> QED BY <1>1, <1>2, LogOnChain DEF IInv

LEMMA NamedPut ==
    ASSUME NEW d \in Store, NEW log, NEW put \in PutsOfLog(log), NEW w \in Wallets \ Named(log)
    PROVE  After(d, put).identity[w] = d.identity[w] /\ After(d, put).byCountry[w] = d.byCountry[w]
<1>1. CASE put \in OtherPuts
  <2>1. put.table \notin {"identity", "byCountry"}
    BY <1>1 DEF OtherPuts, PutsOf
  <2> QED BY <2>1 DEF After, Store
<1>2. CASE put \in IdentityPuts(Named(log))
  <2>1. put.row # w
    BY <1>2 DEF IdentityPuts, PutsOf
  <2>2. put.table \in {"identity", "byCountry"}
    BY <1>2 DEF IdentityPuts, PutsOf
  <2>3. CASE put.table = "identity"
    BY <2>1, <2>3 DEF After, Store
  <2>4. CASE put.table = "byCountry"
    BY <2>1, <2>4 DEF After, Store
  <2> QED BY <2>2, <2>3, <2>4
<1> QED BY <1>1, <1>2 DEF PutsOfLog

LEMMA NextNamed ==
    ASSUME IInv, QueryInv, NamedOnly, WriteNext
    PROVE  /\ Head(puts) \in PutsOfLog(LogAt(current)) /\ Tail(puts) \in Seq(PutsOfLog(LogAt(current)))
           /\ \A w \in Wallets \ Named(LogAt(current)) :
                 db'.identity[w] = db.identity[w] /\ db'.byCountry[w] = db.byCountry[w]
<1> DEFINE S == PutsOfLog(LogAt(current))
<1>1. puts \in Seq(S) /\ puts # <<>> /\ db' = After(db, Head(puts)) /\ db \in Store
  BY DEF NamedOnly, WriteNext, IInv, TypeOK
<1> HIDE DEF S
<1>2. Head(puts) \in S /\ Tail(puts) \in Seq(S)
  BY <1>1
<1>3. ASSUME NEW w \in Wallets \ Named(LogAt(current))
      PROVE  db'.identity[w] = db.identity[w] /\ db'.byCountry[w] = db.byCountry[w]
  <2>1. Head(puts) \in PutsOfLog(LogAt(current))
    BY <1>2 DEF S
  <2> DEFINE e == After(db, Head(puts))
  <2>2. e.identity[w] = db.identity[w] /\ e.byCountry[w] = db.byCountry[w]
    BY <1>1, <2>1, NamedPut
  <2> HIDE DEF e
  <2>3. db' = e
    BY <1>1 DEF e
  <2> QED BY <2>2, <2>3
<1> QED BY <1>2, <1>3 DEF S

LEMMA StepNamedOnly == IInv /\ QueryInv /\ NamedOnly /\ [Next]_vars => NamedOnly'
<1> SUFFICES ASSUME IInv, QueryInv, NamedOnly, [Next]_vars, current' # NoLog
             PROVE  (puts \in Seq(PutsOfLog(LogAt(current))))'
  BY DEF NamedOnly
<1>1. CASE TakeLog
  <2>1. PICK id \in logs, named \in BOOLEAN :
          current' = id /\ puts' = HandlerPuts(db, LogAt(id), id, named)
    BY <1>1 DEF TakeLog
  <2>2. id \in LogIds /\ id \in LogsIn(1, Len(chain)) /\ db \in Store
    BY <2>1 DEF IInv, TypeOK, LogsOnChain
  <2>3. LogAt(id) \in Log
    BY <2>2, LogOnChain DEF IInv
  <2>4. HandlerPuts(db, LogAt(id), id, named) \in Seq(PutsOfLog(LogAt(id)))
    BY <2>2, <2>3, HandlerNames
  <2>5. LogAt(current)' = LogAt(id)
    BY <1>1, <2>1 DEF TakeLog, LogAt
  <2> QED BY <2>1, <2>4, <2>5
<1>2. CASE WriteNext
  <2>1. puts' = Tail(puts) /\ LogAt(current)' = LogAt(current)
    BY <1>2 DEF WriteNext, LogAt
  <2> QED BY <1>2, <2>1, NextNamed
<1>3. CASE MineBlock(Traffic) \/ UNCHANGED vars
  <2>1. current' = current /\ puts' = puts
    BY <1>3 DEF MineBlock, process, vars
  <2>2. LogAt(current)' = LogAt(current)
    <3>1. current \in LogIds /\ OnChain(current)
      BY <2>1, LogInHand
    <3>2. LogAt(current)' = chain'[current[1]].logs[current[2]]
      BY <2>1 DEF LogAt
    <3>3. chain'[current[1]] = chain[current[1]]
      <4>1. current[1] \in 1..Len(chain)
        BY <3>1, NumbersTyped DEF OnChain, LogIds
      <4> QED BY <4>1, ChainStays
    <3> QED BY <3>2, <3>3 DEF LogAt
  <2> QED BY <2>1, <2>2 DEF NamedOnly
<1> QED BY <1>1, <1>2, <1>3, InHand

-----------------------------------------------------------------------------
(* A step keeps the mirror *)

LEMMA OrderOfLogs ==
    ASSUME NEW a \in LogIds \cup {NoLog}, NEW b \in LogIds \cup {NoLog}, NEW c \in LogIds \cup {NoLog}
    PROVE  /\ NotAfter(a, b) \/ NotAfter(b, a)
           /\ NotAfter(a, b) /\ NotAfter(b, c) => NotAfter(a, c)
           /\ NotAfter(a, b) /\ NotAfter(b, a) => a = b
<1>1. ASSUME NEW x \in LogIds \cup {NoLog}
      PROVE  x[1] \in Nat /\ x[2] \in Nat /\ x = <<x[1], x[2]>>
  BY ChainAssumption DEF LogIds, NoLog
<1> QED BY <1>1 DEF NotAfter

\* What is neither written nor taken.
Aside == UNCHANGED <<db, current, puts>>

LEMMA AsideMirror ==
    ASSUME IInv, QueryInv, FromTheStart, [Next]_vars, Crash => Resting, Aside, ~TakeLog, Mirror
    PROVE  Mirror'
<1>1. PICK p \in LogIds \cup {NoLog}, s \in ContractState, e \in Store : MirrorAt(p, s, e)
  BY DEF Mirror
<1>2. Mark(p)' /\ Reached(p, s)'
  BY <1>1, MarkStays, ReachedStays DEF MirrorAt
<1>3. current' = current /\ puts' = puts /\ db' = db
  BY DEF Aside
<1>4. current # NoLog => LogAt(current)' = LogAt(current)
  <2> SUFFICES ASSUME current # NoLog PROVE LogAt(current)' = LogAt(current)
    OBVIOUS
  <2>1. current[1] \in 1..Len(chain)
    BY LogInHand, NumbersTyped DEF OnChain, LogIds
  <2>2. chain'[current[1]] = chain[current[1]]
    BY <2>1, ChainStays
  <2> QED BY <1>3, <2>2 DEF LogAt
<1>5. Written(db, puts, e)' /\ Mirrors(e, s)
  BY <1>1, <1>3 DEF MirrorAt
<1>6. current' # NoLog => p = current' /\ OthersStay(db', e, LogAt(current)')
  BY <1>1, <1>3, <1>4 DEF MirrorAt
<1>7. current' = NoLog => puts' = <<>>
  BY <1>1, <1>3 DEF MirrorAt
<1>8. MirrorAt(p, s, e)'
  BY <1>2, <1>5, <1>6, <1>7 DEF MirrorAt
<1> QED BY <1>8 DEF Mirror

\* With nothing to write the database is the mirror.
LEMMA NothingToWrite ==
    ASSUME IInv, puts = <<>>, NEW p, NEW s, NEW e, MirrorAt(p, s, e)
    PROVE  Mirrors(db, s)
<1>1. Written(db, <<>>, e) /\ Mirrors(e, s) /\ db \in Store
  BY DEF MirrorAt, IInv, TypeOK
<1>2. e = db
  BY <1>1, NoSteps DEF Written
<1> QED BY <1>1, <1>2

\* A step that ends with nothing in hand, and writes no more than the cursor or a name.
LEMMA EmptyHandMirror ==
    ASSUME IInv, QueryInv, FromTheStart, [Next]_vars, Crash => Resting, ~TakeLog, Mirror,
           puts = <<>>, puts' = <<>>, current' = NoLog, db' \in Store,
           \A s : Mirrors(db, s) => Mirrors(db', s)
    PROVE  Mirror'
<1>1. PICK p \in LogIds \cup {NoLog}, s \in ContractState, e \in Store : MirrorAt(p, s, e)
  BY DEF Mirror
<1>2. Mark(p)' /\ Reached(p, s)'
  BY <1>1, MarkStays, ReachedStays DEF MirrorAt
<1>3. Mirrors(db, s)
  BY <1>1, NothingToWrite
<1> PICK f \in Store : f = db'
  OBVIOUS
<1>4. Mirrors(f, s)
  BY <1>3
<1>5. Written(f, <<>>, f)
  BY <1>4, NoSteps DEF Written
<1>6. Written(db, puts, f)'
  BY <1>5
<1>7. MirrorAt(p, s, f)'
  BY <1>2, <1>4, <1>6 DEF MirrorAt
<1> QED BY <1>7 DEF Mirror

LEMMA TakeLogMirror ==
    ASSUME IInv, QueryInv, ChainRuns, TakeLog, Mirror
    PROVE  Mirror'
<1>1. PICK p \in LogIds \cup {NoLog}, s \in ContractState, e \in Store : MirrorAt(p, s, e)
  BY DEF Mirror
<1>2. PICK next \in logs, named \in BOOLEAN :
        /\ \A other \in logs : NotAfter(next, other)
        /\ current' = next
        /\ puts' = HandlerPuts(db, LogAt(next), next, named)
  BY DEF TakeLog
<1>3. current = NoLog /\ chain' = chain /\ db' = db /\ db \in Store /\ [Next]_vars
  BY DEF TakeLog, IInv, TypeOK, Next, Work
<1>4. Mirrors(db, s)
  BY <1>1, <1>3, NothingToWrite DEF MirrorAt
<1>5. next \in LogIds /\ OnChain(next) /\ ~Passed(next) /\ next[1] <= Reach /\ LogAt(next) \in Log
  <2>1. next \in LogIds /\ OnChain(next) /\ ~Passed(next)
    <3>1. current' = next /\ next \in LogIds
      BY <1>2, NumbersTyped
    <3> QED BY <3>1, TakeLogPassed
  <2>2. next \in LogsIn(1, Len(chain))
    BY <1>2 DEF IInv, LogsOnChain
  <2> QED BY <1>2, <2>1, <2>2, LogOnChain DEF QueryInv, QueryKnown, IInv
<1>6. Reach \in Int /\ next[1] \in Nat /\ \A id \in LogIds : id[1] \in Nat
  <2>1. \A id \in LogIds : id[1] \in Nat
    BY NumbersTyped
  <2>2. Reach \in Int
    BY NumbersTyped DEF Reach, ChunkEnd, Least
  <2> QED BY <1>5, <2>1, <2>2
<1>7. ~NotAfter(next, p)
  BY <1>1, <1>5 DEF MirrorAt, Mark
<1>8. ASSUME NEW other \in LogIds, OnChain(other) PROVE NotAfter(other, p) \/ NotAfter(next, other)
  <2>1. CASE Passed(other)
    BY <1>1, <1>8, <2>1 DEF MirrorAt, Mark
  <2>2. CASE other \in logs
    BY <1>2, <2>2
  <2>3. CASE ~(other[1] <= Reach)
    BY <1>5, <1>6, <2>3 DEF NotAfter
  <2> QED BY <2>1, <2>2, <2>3 DEF Passed
<1>9. PICK t \in ContractState : Step(s, LogAt(next), t) /\ Reached(next, t)
  BY <1>1, <1>5, <1>7, <1>8, NextReached DEF MirrorAt
<1>10. Records(db, LogAt(next), t, HandlerPuts(db, LogAt(next), next, named))
  BY <1>3, <1>4, <1>5, <1>9, HandlerMirrors
<1>11. PICK f \in Store : /\ Written(db, puts', f)
                          /\ Mirrors(f, t) /\ OthersStay(db, f, LogAt(next))
  BY <1>2, <1>10 DEF Records
<1>12. Reached(next, t)'
  BY <1>3, <1>9, ReachedStays
<1>13. Mark(next)'
  <2> SUFFICES ASSUME NEW id \in LogIds, OnChain(id)' PROVE Passed(id)' <=> NotAfter(id, next)
    BY DEF Mark
  <2>1. OnChain(id)
    BY <1>3 DEF OnChain
  <2>2. Passed(id)' <=> Passed(id) \/ id = next
    BY <1>2, TakeLogPassed
  <2>3. Passed(id) <=> NotAfter(id, p)
    BY <1>1, <2>1 DEF MirrorAt, Mark
  <2>4. NotAfter(id, p) \/ NotAfter(next, id)
    BY <1>8, <2>1
  <2>5. NotAfter(id, p) => NotAfter(id, next)
    BY <1>5, <1>7, OrderOfLogs
  <2>6. NotAfter(next, id) /\ NotAfter(id, next) => id = next
    BY <1>5, OrderOfLogs
  <2>7. NotAfter(next, next)
    BY <1>5, OrderOfLogs
  <2> QED BY <2>2, <2>3, <2>4, <2>5, <2>6, <2>7
<1>14. LogAt(next)' = LogAt(next)
  BY <1>3 DEF LogAt
<1>15. Written(db, puts, f)' /\ OthersStay(db', f, LogAt(next)')
  BY <1>3, <1>11, <1>14
<1>16. current' # NoLog
  BY <1>2, <1>5, NumbersTyped
<1>17. OthersStay(db', f, LogAt(current)')
  BY <1>2, <1>15 DEF LogAt
<1>18. MirrorAt(next, t, f)'
  BY <1>2, <1>11, <1>12, <1>13, <1>15, <1>16, <1>17 DEF MirrorAt
<1> QED BY <1>5, <1>18 DEF Mirror

LEMMA WriteNextMirror ==
    ASSUME IInv, QueryInv, FromTheStart, NamedOnly, WriteNext, Mirror
    PROVE  Mirror'
<1>1. PICK p \in LogIds \cup {NoLog}, s \in ContractState, e \in Store : MirrorAt(p, s, e)
  BY DEF Mirror
<1>2. /\ current # NoLog /\ puts # <<>> /\ puts \in Seq(Puts) /\ chain' = chain
      /\ current' = current /\ puts' = Tail(puts) /\ db' = After(db, Head(puts))
  BY DEF WriteNext, IInv, TypeOK
<1>3. [Next]_vars
  BY DEF Next, Work
<1>4. ~TakeLog
  BY <1>2 DEF TakeLog
<1>5. ~Crash
  BY <1>2 DEF WriteNext, Crash
<1>6. Mark(p)' /\ Reached(p, s)'
  BY <1>1, <1>3, <1>4, <1>5, MarkStays, ReachedStays DEF MirrorAt
<1>7. Written(db', puts', e) /\ Mirrors(e, s) /\ p = current
  <2>1. Written(After(db, Head(puts)), Tail(puts), e)
    BY <1>1, <1>2, NextWritten DEF MirrorAt
  <2> QED BY <1>1, <1>2, <2>1 DEF MirrorAt
<1>8. LogAt(current)' = LogAt(current)
  BY <1>2 DEF LogAt
<1>9. OthersStay(db', e, LogAt(current))
  <2>1. OthersStay(db, e, LogAt(current))
    BY <1>1, <1>2 DEF MirrorAt
  <2>2. \A w \in Wallets \ Named(LogAt(current)) :
          db'.identity[w] = db.identity[w] /\ db'.byCountry[w] = db.byCountry[w]
    BY NextNamed
  <2> QED BY <2>1, <2>2, Zenon DEF OthersStay
<1>10. MirrorAt(p, s, e)'
  BY <1>2, <1>6, <1>7, <1>8, <1>9 DEF MirrorAt
<1> QED BY <1>10 DEF Mirror

LEMMA StepMirror ==
    IInv /\ QueryInv /\ ChainRuns /\ NamedOnly /\ Mirror /\ FromTheStart /\ [Next]_vars
      /\ (Crash => Resting) => Mirror'
<1> SUFFICES ASSUME IInv, QueryInv, ChainRuns, NamedOnly, Mirror, FromTheStart, [Next]_vars,
                    Crash => Resting
             PROVE  Mirror'
  OBVIOUS
<1>1. CASE TakeLog
  BY <1>1, TakeLogMirror
<1>2. CASE WriteNext
  BY <1>2, WriteNextMirror
<1>3. CASE FetchChunk \/ ChunkDone \/ Poll \/ FetchChunkFails \/ PollFails \/ MineBlock(Traffic)
             \/ UNCHANGED vars
  <2>1. Aside
    BY <1>3 DEF FetchChunk, ChunkDone, Poll, FetchChunkFails, PollFails, MineBlock, vars, process, Aside
  <2> QED BY <1>1, <2>1, AsideMirror
<1>4. db \in Store /\ db' \in Store /\ puts \in Seq(Puts)
  BY StepIInv DEF IInv, TypeOK
<1>5. CASE Start \/ StartFails
  <2>1. /\ puts = <<>> /\ puts' = <<>> /\ current' = NoLog /\ db' \in {db, Enriched} /\ phase = "down"
    BY <1>5 DEF Start, StartFails, IInv, EndAhead, Mirror, MirrorAt
  <2>2. ~TakeLog
    BY <2>1 DEF TakeLog
  <2>3. \A s : Mirrors(db, s) => Mirrors(db', s)
    BY <1>4, <2>1, EnrichedMirrors
  <2> QED BY <1>4, <2>1, <2>2, <2>3, EmptyHandMirror
<1>6. CASE FinishLog \/ PollDone
  <2>1. /\ puts = <<>> /\ puts' = <<>> /\ current' = NoLog
        /\ \E block \in Nat : SetCursor(block)
    BY <1>6, NumbersTyped DEF FinishLog, PollDone, Mirror, MirrorAt
  <2>2. \A s : Mirrors(db, s) => Mirrors(db', s)
    BY <1>4, <2>1, CursorMirrors
  <2> QED BY <1>1, <1>4, <2>1, <2>2, EmptyHandMirror
<1>7. CASE Crash
  <2>1. /\ puts = <<>> /\ puts' = <<>> /\ current' = NoLog /\ db' = db /\ phase = "idle"
    BY <1>7 DEF Crash, Resting, IInv, EndAhead, Mirror, MirrorAt
  <2>2. ~TakeLog
    BY <2>1 DEF TakeLog
  <2>3. \A s : Mirrors(db, s) => Mirrors(db', s)
    BY <2>1
  <2> QED BY <1>4, <2>1, <2>2, <2>3, EmptyHandMirror
<1> QED BY <1>1, <1>2, <1>3, <1>5, <1>6, <1>7, Zenon DEF Next, Work, Fail

-----------------------------------------------------------------------------
(* The mirror from the first state on *)

LEMMA NothingYet == Mirrors(EmptyStore, Seen(Genesis))
<1> DEFINE g == Seen(Genesis)
           z == [w \in Wallets |-> 0]
<1>1. Genesis \in ContractState
  BY DEF Genesis, ContractState
<1>2. /\ g.held = z /\ g.paused = FALSE /\ g.registered = ("register" \notin Traffic)
      /\ g.frozen = [w \in Wallets |-> FALSE] /\ g.walletFrozen = [w \in Wallets |-> FALSE]
      /\ g.identity = [w \in Wallets |-> NoOne] /\ g.country = z
  <2>1. /\ g.held = Genesis.held /\ SameLaunch(Genesis, g) /\ SameFrozen(Genesis, g)
        /\ g.identity = Genesis.identity
        /\ g.country = Genesis.country \/ g.country = z
    BY <1>1, SeenTyped
  <2> HIDE DEF g
  <2> QED BY <2>1 DEF Genesis, SameLaunch, SameFrozen
<1> HIDE DEF g
<1>3. BalancesTold(EmptyStore, g)
  <2> SUFFICES ASSUME FewWallets PROVE Balances(EmptyStore, g.held)
    BY DEF BalancesTold, CountsKept
  <2>1. SumFunction(z) = 0
    BY SumOfZeros DEF FewWallets
  <2>2. Holding(z) = {} /\ Cardinality({}) = 0
    BY FS_EmptySet DEF Holding
  <2>3. EmptyStore.holder = z /\ EmptyStore.portfolio = z
        /\ Meta(EmptyStore) = [supply |-> 0, holderCount |-> 0]
    BY DEF EmptyStore, Meta
  <2> HIDE DEF z
  <2> QED BY <1>2, <2>1, <2>2, <2>3 DEF Balances
<1>4. FreezesTold(EmptyStore, g)
  <2>1. /\ EmptyStore.walletFreeze = [w \in Wallets |-> FALSE]
        /\ EmptyStore.freeze = [w \in Wallets |-> NotFrozen] /\ NotFrozen.frozen = FALSE
    BY DEF EmptyStore, NotFrozen
  <2>2. ASSUME NEW w \in Wallets
        PROVE  /\ EmptyStore.walletFreeze[w] = FALSE /\ EmptyStore.freeze[w].frozen = FALSE
               /\ g.frozen[w] = FALSE /\ g.walletFrozen[w] = FALSE
    BY <1>2, <2>1
  <2> QED BY <2>2, Zenon DEF FreezesTold
<1>5. AssetTold(EmptyStore, g)
  BY <1>2 DEF AssetTold, EmptyStore, Asset, NoAsset
<1>6. IdentitiesTold(EmptyStore, g)
  <2>1. EmptyStore.identity = [w \in Wallets |-> NoIdentity]
    BY DEF EmptyStore
  <2>2. ASSUME NEW w \in Wallets
        PROVE  EmptyStore.identity[w] = NoIdentity /\ g.identity[w] = NoOne /\ g.country[w] = 0
    BY <1>2, <2>1
  <2> QED BY <2>2, Zenon DEF IdentitiesTold, RowTold, NoIdentity
<1> QED BY <1>3, <1>4, <1>5, <1>6 DEF Mirrors, g

MirrorInv == IInv /\ QueryInv /\ ChainRuns /\ NamedOnly /\ Mirror

LEMMA InitMirrorInv == Init => MirrorInv
<1> SUFFICES ASSUME Init PROVE MirrorInv
  OBVIOUS
<1>1. chain = <<>> /\ db = EmptyStore /\ puts = <<>> /\ current = NoLog
  BY DEF Init, StoreInit
<1>2. IInv /\ QueryInv
  BY InitIInv, InitQueryInv
<1>3. ChainRuns /\ NamedOnly
  BY <1>1 DEF ChainRuns, NamedOnly
<1>4. Mirror
  <2>1. Seen(Genesis) \in ContractState
    <3>1. Genesis \in ContractState
      BY DEF Genesis, ContractState
    <3> QED BY <3>1, SeenTyped
  <2>2. Mark(NoLog)
    BY <1>1 DEF Mark, OnChain, LogIds
  <2>3. Reached(NoLog, Seen(Genesis))
    BY DEF Reached
  <2>4. EmptyStore \in Store
    BY <1>1, <1>2 DEF IInv, TypeOK
  <2>5. Written(EmptyStore, <<>>, EmptyStore)
    BY <2>4, NoSteps DEF Written
  <2>6. MirrorAt(NoLog, Seen(Genesis), EmptyStore)
    BY <1>1, <2>2, <2>3, <2>5, NothingYet DEF MirrorAt
  <2> QED BY <2>1, <2>4, <2>6 DEF Mirror
<1> QED BY <1>2, <1>3, <1>4 DEF MirrorInv

\* Here the process is never killed.
LEMMA QueryStep ==
    ASSUME IInv, [QueryNext]_queryVars
    PROVE  [Next]_vars /\ (Crash => Resting)
<1>1. [Next]_vars
  BY DEF QueryNext, IndexerWorks, Read, AskEvents, VisitEvent, AskByCountry, VisitWallet, Deliver,
         MineWhileReading, queryVars, Next, Fail
<1>2. crashes' = crashes
  BY DEF QueryNext, IndexerWorks, Read, AskEvents, VisitEvent, AskByCountry, VisitWallet, Deliver,
         MineWhileReading, MineBlock, queryVars, vars, Work, Start, FetchChunk, ChunkDone, Poll, PollDone,
         TakeLog, WriteNext, FinishLog, StartFails, FetchChunkFails, PollFails
<1>3. crashes \in Nat
  BY IndexerAssumption DEF IInv, TypeOK
<1> QED BY <1>1, <1>2, <1>3 DEF Crash

LEMMA StepMirrorInv == FromTheStart /\ MirrorInv /\ [QueryNext]_queryVars => MirrorInv'
<1> SUFFICES ASSUME FromTheStart, MirrorInv, [QueryNext]_queryVars PROVE MirrorInv'
  OBVIOUS
<1>1. IInv /\ QueryInv /\ ChainRuns /\ NamedOnly /\ Mirror
  BY DEF MirrorInv
<1>2. [Next]_vars /\ (Crash => Resting)
  BY <1>1, QueryStep
<1> QED BY <1>1, <1>2, StepIInv, StepQueryInv, StepChainRuns, StepNamedOnly, StepMirror DEF MirrorInv

LEMMA MirrorHolds == QuerySpec /\ []FromTheStart => []MirrorInv
<1>1. QueryInit => MirrorInv
  BY InitMirrorInv DEF QueryInit
<1>2. FromTheStart /\ MirrorInv /\ [QueryNext]_queryVars => MirrorInv'
  BY StepMirrorInv
<1> QED BY <1>1, <1>2, PTL DEF QuerySpec

\* Between two ticks the database is the mirror of the contracts at the cursor's block.
LEMMA RestingMirror ==
    ASSUME FromTheStart, MirrorInv, Resting
    PROVE  /\ Mirrors(db, Seen(Indexed)) /\ db \in Store /\ Indexed \in ContractState
<1>1. IInv /\ QueryInv /\ ChainRuns
  BY DEF MirrorInv
<1>2. logs = {} /\ current = NoLog /\ Reach = Cursor /\ Cursor \in Nat /\ Cursor \in 0..Len(chain)
  <2>1. logs = {} /\ current = NoLog /\ Reach = Cursor /\ Reach <= Len(chain)
    BY <1>1 DEF IInv, EndAhead, Resting, Reach, QueryInv, QueryKnown
  <2> QED BY <1>1, <2>1, NumbersTyped
<1>3. PICK p \in LogIds \cup {NoLog}, s \in ContractState, e \in Store : MirrorAt(p, s, e)
  BY DEF MirrorInv, Mirror
<1>4. Mirrors(db, s) /\ Mark(p) /\ Reached(p, s)
  BY <1>1, <1>2, <1>3, NothingToWrite DEF MirrorAt
<1>5. AllBefore(p, Cursor)
  BY <1>2, <1>4 DEF AllBefore, Mark, Passed
<1>6. p[1] <= Cursor
  <2>1. CASE p = NoLog
    BY <1>2, <2>1 DEF NoLog
  <2>2. CASE p # NoLog
    <3>1. p \in LogIds /\ OnChain(p) /\ NotAfter(p, p)
      BY <1>4, <2>2, OrderOfLogs DEF Reached
    <3> QED BY <1>2, <1>4, <3>1 DEF Mark, Passed
  <2> QED BY <2>1, <2>2
<1>7. s = Seen(Indexed)
  BY <1>1, <1>2, <1>4, <1>5, <1>6, QuietTo DEF Indexed
<1>8. Indexed \in ContractState
  BY <1>1, <1>2, StateTyped DEF IInv, Indexed
<1> QED BY <1>1, <1>4, <1>7, <1>8 DEF IInv, TypeOK

-----------------------------------------------------------------------------
(* The answers of one read, between two ticks *)

LEMMA BalancesAnswered ==
    ASSUME FromTheStart, CountsKept, MirrorInv
    PROVE  BalanceAnswersMatchChain
<1> DEFINE held == Indexed.held
           holding == {w \in Wallets : held[w] > 0}
<1> SUFFICES ASSUME Resting
             PROVE  /\ HolderRows = {<<w, held[w]>> : w \in holding}
                    /\ \A w \in Wallets : HolderBalance(w) = held[w]
                                          /\ PortfolioRows(w) = {held[w]} \ {0}
                    /\ TokenView = IF holding = {} THEN {}
                                   ELSE {[supply |-> SumFunction(held),
                                          holderCount |-> Cardinality(holding)]}
  BY Zenon DEF BalanceAnswersMatchChain
<1>1. Mirrors(db, Seen(Indexed)) /\ db \in Store /\ Indexed \in ContractState
  BY RestingMirror
<1>2. Balances(db, held) /\ held \in [Wallets -> Nat]
  <2>1. Seen(Indexed).held = Indexed.held
    BY <1>1, SeenTyped
  <2> QED BY <1>1, <2>1 DEF Mirrors, BalancesTold, ContractState
<1> HIDE DEF held
<1>3. /\ db.holder = held /\ db.portfolio = held /\ holding = Holding(held)
      /\ Meta(db) = [supply |-> SumFunction(held), holderCount |-> Cardinality(holding)]
  BY <1>2 DEF Balances, Holding
<1>4. HolderRows = {<<w, held[w]>> : w \in holding}
  <2>1. {v \in Wallets : held[v] # 0} = holding
    BY <1>2
  <2> QED BY <1>3, <2>1 DEF HolderRows
<1> DEFINE supply == SumFunction(held)
           count == Cardinality(holding)
           row == [supply |-> supply, holderCount |-> count]
<1>5. TokenRow = row
  BY <1>3, Zenon DEF TokenRow
<1>6. CASE holding = {}
  <2>1. held = [w \in Wallets |-> 0]
    BY <1>2, <1>6
  <2>2. supply = 0 /\ count = 0
    BY <1>6, <2>1, SumOfZeros, FS_EmptySet DEF CountsKept, FewWallets
  <2> HIDE DEF supply, count
  <2>3. TokenRow = [supply |-> 0, holderCount |-> 0]
    BY <1>5, <2>2
  <2>4. TokenView = {}
    BY <2>3 DEF TokenView
  <2> HIDE DEF holding
  <2> QED BY <1>3, <1>4, <1>6, <2>4, Zenon DEF HolderBalance, PortfolioRows
<1>7. CASE holding # {}
  <2>1. count # 0
    <3>1. IsFiniteSet(holding)
      BY FS_Subset DEF CountsKept, FewWallets
    <3> QED BY <1>7, <3>1, FS_EmptySet
  <2> HIDE DEF supply, count
  <2>2. TokenRow # [supply |-> 0, holderCount |-> 0]
    BY <1>5, <2>1
  <2>3. TokenView = {row}
    BY <1>5, <2>2 DEF TokenView
  <2> HIDE DEF holding
  <2> QED BY <1>3, <1>4, <1>7, <2>3, Zenon DEF HolderBalance, PortfolioRows, supply, count
<1> HIDE DEF holding
<1> QED BY <1>6, <1>7, Zenon

LEMMA FreezesAnswered ==
    ASSUME FromTheStart, "recover" \notin Traffic, MirrorInv
    PROVE  FrozenWalletsMatchChain
<1> SUFFICES ASSUME Resting PROVE FrozenWalletsMatchChain
  BY DEF FrozenWalletsMatchChain
<1>1. Mirrors(db, Seen(Indexed)) /\ db \in Store /\ Indexed \in ContractState
  BY RestingMirror
<1>2. \A w \in Wallets : /\ db.freeze[w].frozen = Indexed.frozen[w]
                         /\ db.walletFreeze[w] = Indexed.walletFrozen[w]
                         /\ Indexed.frozen[w] \in BOOLEAN /\ Indexed.walletFrozen[w] \in BOOLEAN
  <2> DEFINE t == Seen(Indexed)
  <2>1. t.frozen = Indexed.frozen /\ t.walletFrozen = Indexed.walletFrozen
    BY <1>1, SeenTyped DEF SameFrozen
  <2>2. FreezesTold(db, t)
    BY <1>1 DEF Mirrors
  <2> HIDE DEF t
  <2>3. \A w \in Wallets : Indexed.frozen[w] \in BOOLEAN /\ Indexed.walletFrozen[w] \in BOOLEAN
    BY <1>1 DEF ContractState
  <2> QED BY <2>1, <2>2, <2>3, Zenon DEF FreezesTold
<1> DEFINE forToken == {w \in Wallets : Indexed.frozen[w]}
           forAll == {w \in Wallets : Indexed.walletFrozen[w]}
<1>3. /\ {v \in Wallets : db.freeze[v].frozen} = forToken
      /\ {v \in Wallets : db.walletFreeze[v]} = forAll
  BY <1>2
<1>4. FrozenRows(TRUE) = forToken \X {"token"}
  BY <1>3 DEF FrozenRows
<1>5. FrozenRows(FALSE) = (forToken \X {"token"}) \cup (forAll \X {"global"})
  BY <1>3 DEF FrozenRows
<1>6. ASSUME NEW w \in Wallets
      PROVE  FreezesOf(w) = {<<"token", w \in forToken>>, <<"global", w \in forAll>>}
  <2>1. (w \in forToken) = db.freeze[w].frozen /\ (w \in forAll) = db.walletFreeze[w]
    BY <1>2
  <2> QED BY <2>1 DEF FreezesOf
<1> QED BY <1>4, <1>5, <1>6 DEF FrozenWalletsMatchChain

LEMMA AssetAnswered ==
    ASSUME FromTheStart, "register" \in Traffic, MirrorInv
    PROVE  AssetAnswersMatchChain
<1> SUFFICES ASSUME Resting PROVE AssetAnswersMatchChain
  BY DEF AssetAnswersMatchChain
<1>1. Mirrors(db, Seen(Indexed)) /\ db \in Store /\ Indexed \in ContractState
  BY RestingMirror
<1>2. SameLaunch(Indexed, Seen(Indexed)) /\ AssetTold(db, Seen(Indexed))
  BY <1>1, SeenTyped DEF Mirrors
<1>3. /\ Asset(db).known = Indexed.registered /\ Indexed.registered \in BOOLEAN
      /\ Indexed.registered => Asset(db).paused = Indexed.paused /\ Asset(db).uri \in {0, Indexed.uri}
  BY <1>1, <1>2 DEF AssetTold, SameLaunch, ContractState
<1> DEFINE view == [paused |-> Asset(db).paused, uri |-> Asset(db).uri,
                    supply |-> Meta(db).supply, holderCount |-> Meta(db).holderCount]
<1>4. AssetView = IF Indexed.registered THEN {view} ELSE {}
  BY <1>3, Zenon DEF AssetView
<1>5. view.paused = Asset(db).paused /\ view.uri = Asset(db).uri
  OBVIOUS
<1> HIDE DEF view
<1> QED BY <1>3, <1>4, <1>5 DEF AssetAnswersMatchChain

LEMMA IdentitiesAnswered ==
    ASSUME FromTheStart, CountriesTold, IsFiniteSet(Wallets), MirrorInv
    PROVE  IdentityAnswersMatchChain
<1> DEFINE known == {w \in Wallets : Bound(Indexed, w)}
<1> SUFFICES ASSUME Resting
             PROVE  /\ \A w \in Wallets :
                         IdentityView(w) = {[identity |-> Indexed.identity[w],
                                             country |-> Indexed.country[w]]} \ {NoIdentity}
                    /\ \A limit \in Limits : \A list \in IdentityLists(limit) :
                         list \subseteq known /\ (list = known \/ Cardinality(list) = limit)
  BY DEF IdentityAnswersMatchChain
<1>1. Mirrors(db, Indexed) /\ db \in Store
  BY RestingMirror, SeenTyped
<1>2. \A w \in Wallets :
        db.identity[w] = [identity |-> Indexed.identity[w], country |-> Indexed.country[w]]
  BY <1>1, Zenon DEF Mirrors, IdentitiesTold, RowTold
<1>3. {w \in Wallets : IsBound(db, w)} = known
  <2>1. ASSUME NEW w \in Wallets PROVE IsBound(db, w) <=> Bound(Indexed, w)
    <3> DEFINE i == Indexed.identity[w]
               c == Indexed.country[w]
    <3>1. db.identity[w] = [identity |-> i, country |-> c]
      BY <1>2
    <3> HIDE DEF i, c
    <3>2. db.identity[w].identity = i
      BY <3>1
    <3> QED BY <3>2 DEF IsBound, Bound, i
  <2> QED BY <2>1
<1>4. ASSUME NEW limit \in Limits, NEW list \in IdentityLists(limit)
      PROVE  list \subseteq known /\ (list = known \/ Cardinality(list) = limit)
  <2> HIDE DEF known
  <2>1. list \subseteq known /\ Cardinality(list) = Least(limit, Cardinality(known))
    BY <1>3 DEF IdentityLists, kSubset
  <2>2. IsFiniteSet(known)
    <3>1. known \in SUBSET Wallets
      BY DEF known
    <3> QED BY <3>1, FS_Subset
  <2>3. Cardinality(list) = Cardinality(known) => list = known
    BY <2>1, <2>2, FS_Subset
  <2> QED BY <2>1, <2>3 DEF Least
<1> QED BY <1>2, <1>4 DEF IdentityView

\* Between two ticks the balances, the supply and the holder count that are
\* answered (holders, holder, portfolio and token) are those of the contracts at
\* the cursor's block, for any traffic that moves no units without a log of its
\* own and no empty amounts, whatever was written in between.
THEOREM BalanceAnswersHold ==
    ASSUME CountsKept
    PROVE  QuerySpec /\ []FromTheStart => []BalanceAnswersMatchChain
<1>1. FromTheStart /\ MirrorInv => BalanceAnswersMatchChain
  BY BalancesAnswered
<1> QED BY <1>1, MirrorHolds, PTL

\* Between two ticks frozenWallets and freezes answer the flags the contracts hold
\* at the cursor's block, for any traffic without a recovery, whose log does not
\* say what it moves.
THEOREM FrozenAnswersHold ==
    ASSUME "recover" \notin Traffic
    PROVE  QuerySpec /\ []FromTheStart => []FrozenWalletsMatchChain
<1>1. FromTheStart /\ MirrorInv => FrozenWalletsMatchChain
  BY FreezesAnswered
<1> QED BY <1>1, MirrorHolds, PTL

\* Between two ticks asset answers what the contracts hold of it at the cursor's
\* block, when it is registered by a call of the chain.
THEOREM AssetAnswersHold ==
    ASSUME "register" \in Traffic
    PROVE  QuerySpec /\ []FromTheStart => []AssetAnswersMatchChain
<1>1. FromTheStart /\ MirrorInv => AssetAnswersMatchChain
  BY AssetAnswered
<1> QED BY <1>1, MirrorHolds, PTL

\* Between two ticks identity answers, for every wallet, what the contracts hold
\* at the cursor's block, and a list of identities is a part of theirs that is
\* whole or as long as the limit; a country changed without a log is excepted.
THEOREM IdentityAnswersHold ==
    ASSUME CountriesTold, IsFiniteSet(Wallets)
    PROVE  QuerySpec /\ []FromTheStart => []IdentityAnswersMatchChain
<1>1. FromTheStart /\ MirrorInv => IdentityAnswersMatchChain
  BY IdentitiesAnswered
<1> QED BY <1>1, MirrorHolds, PTL

-----------------------------------------------------------------------------
(* The first ones of an ordered set *)

Upto(R, S, x) == {y \in S : <<y, x>> \in R}
First(R, S, m) == {x \in S : Cardinality(Upto(R, S, x)) <= m}

LEMMA UptoCounted ==
    ASSUME NEW S, IsFiniteSet(S), NEW R, IsOrder(R, S), NEW x \in S, NEW y \in S
    PROVE  /\ IsFiniteSet(Upto(R, S, x)) /\ Cardinality(Upto(R, S, x)) \in Nat \ {0}
           /\ <<x, y>> \in R => Cardinality(Upto(R, S, x)) <= Cardinality(Upto(R, S, y))
           /\ <<x, y>> \in R /\ x # y => Cardinality(Upto(R, S, x)) < Cardinality(Upto(R, S, y))
<1> DEFINE U == Upto(R, S, x)
           V == Upto(R, S, y)
<1>1. /\ U \in SUBSET S /\ V \in SUBSET S /\ x \in U /\ y \in V
      /\ <<x, y>> \in R => U \in SUBSET V
      /\ <<x, y>> \in R /\ x # y => y \notin U
  BY DEF Upto, IsOrder
<1> HIDE DEF U, V
<1>2. IsFiniteSet(U) /\ IsFiniteSet(V) /\ Cardinality(U) \in Nat /\ Cardinality(V) \in Nat
  BY <1>1, FS_Subset, FS_CardinalityType
<1>3. Cardinality(U) # 0
  BY <1>1, <1>2, FS_EmptySet
<1>4. <<x, y>> \in R => Cardinality(U) <= Cardinality(V)
  BY <1>1, <1>2, FS_Subset
<1>5. <<x, y>> \in R /\ x # y => Cardinality(V) # Cardinality(U)
  BY <1>1, <1>2, FS_Subset
<1> QED BY <1>2, <1>3, <1>4, <1>5 DEF U, V

\* One more element is first when one more is let in.
LEMMA NextFirst ==
    ASSUME NEW S, IsFiniteSet(S), NEW R, IsOrder(R, S), NEW m \in Nat, m + 1 <= Cardinality(S),
           Cardinality(First(R, S, m)) = m
    PROVE  Cardinality(First(R, S, m + 1)) = m + 1
<1> DEFINE rank(x) == Cardinality(Upto(R, S, x))
           T == First(R, S, m)
           rest == S \ T
<1>1. /\ T \in SUBSET S /\ rest \in SUBSET S /\ T \cup rest = S
      /\ \A x \in S : x \in T <=> rank(x) <= m
  BY DEF First
<1>2. \A x \in S : rank(x) \in Nat
  BY UptoCounted
<1>3. /\ IsFiniteSet(T) /\ IsFiniteSet(rest) /\ rest # {}
  <2>1. IsFiniteSet(T) /\ IsFiniteSet(rest) /\ Cardinality(S) \in Nat
    BY <1>1, FS_Subset, FS_CardinalityType
  <2>2. rest = {} => T = S
    BY <1>1
  <2> QED BY <2>1, <2>2
<1>4. IsOrder(R, rest)
  BY <1>1, Zenon DEF IsOrder
<1>5. PICK x \in rest : \A y \in rest : <<x, y>> \in R
  <2> HIDE DEF rest
  <2> QED BY <1>3, <1>4, FirstElement
<1>6. x \in S /\ ~(rank(x) <= m) /\ x \notin T
  BY <1>1, <1>5
<1>7. ASSUME NEW y \in T PROVE <<y, x>> \in R
  <2>1. y \in S /\ rank(y) <= m
    BY <1>1, <1>7
  <2>2. CASE <<x, y>> \in R
    <3>1. rank(x) <= rank(y)
      BY <1>6, <2>1, <2>2, UptoCounted
    <3> HIDE DEF rank
    <3> QED BY <1>2, <1>6, <2>1, <3>1
  <2> QED BY <1>6, <2>1, <2>2 DEF IsOrder
<1>8. Upto(R, S, x) = T \cup {x}
  <2>1. ASSUME NEW y \in S, <<y, x>> \in R, y \notin T PROVE y = x
    BY <1>1, <1>5, <1>6, <2>1 DEF IsOrder
  <2>2. <<x, x>> \in R
    BY <1>6 DEF IsOrder
  <2> HIDE DEF T, rest
  <2> QED BY <1>1, <1>6, <1>7, <2>1, <2>2 DEF Upto
<1>9. Cardinality(T \cup {x}) = m + 1 /\ rank(x) = m + 1
  <2>1. Cardinality(T \cup {x}) = m + 1
    BY <1>3, <1>6, FS_AddElement
  <2> QED BY <1>8, <2>1
<1>10. ASSUME NEW z \in S PROVE rank(z) <= m + 1 <=> z \in T \cup {x}
  <2>1. CASE z \in T
    <3>1. rank(z) <= m /\ rank(z) \in Nat
      BY <1>1, <1>2, <2>1
    <3> HIDE DEF rank
    <3> QED BY <2>1, <3>1
  <2>2. CASE z = x
    BY <1>9, <2>2
  <2>3. CASE z \in rest /\ z # x
    <3>1. <<x, z>> \in R
      BY <1>5, <2>3
    <3>2. rank(x) < rank(z)
      BY <1>6, <2>3, <3>1, UptoCounted
    <3>3. rank(z) \in Nat
      BY <1>2
    <3> HIDE DEF rank
    <3> QED BY <1>9, <2>3, <3>2, <3>3
  <2> QED BY <2>1, <2>2, <2>3
<1>11. First(R, S, m + 1) = T \cup {x}
  <2>1. x \in S /\ T \subseteq S
    BY <1>1, <1>6
  <2>2. First(R, S, m + 1) = {z \in S : rank(z) <= m + 1}
    BY DEF First
  <2> HIDE DEF rank, T, rest
  <2> QED BY <1>10, <2>1, <2>2
<1> QED BY <1>9, <1>11

\* As many are first as are let in, or all are.
LEMMA FirstOnes ==
    ASSUME NEW S, IsFiniteSet(S), NEW R, IsOrder(R, S), NEW m \in Nat
    PROVE  /\ First(R, S, m) \subseteq S
           /\ m <= Cardinality(S) => Cardinality(First(R, S, m)) = m
           /\ Cardinality(S) <= m => First(R, S, m) = S
<1> DEFINE n == Cardinality(S)
           Bad == {k \in 0..n : Cardinality(First(R, S, k)) # k}
<1>1. n \in Nat
  BY FS_CardinalityType
<1>2. Bad = {}
  <2> SUFFICES ASSUME Bad # {} PROVE FALSE
    OBVIOUS
  <2>1. PICK k \in Bad : \A j \in Bad : k <= j
    <3>1. Bad \in SUBSET (0..n)
      OBVIOUS
    <3> HIDE DEF Bad, n
    <3> QED BY <1>1, <3>1, LeastNumber
  <2>2. k \in 0..n /\ Cardinality(First(R, S, k)) # k
    BY <2>1
  <2>3. First(R, S, 0) = {}
    <3>1. \A x \in S : Cardinality(Upto(R, S, x)) \in Nat \ {0}
      BY UptoCounted
    <3> QED BY <3>1 DEF First
  <2>4. k # 0
    BY <2>2, <2>3, FS_EmptySet
  <2>5. k - 1 \in 0..n /\ ~(k <= k - 1) /\ (k - 1) + 1 = k /\ k <= n /\ k - 1 \in Nat
    <3> HIDE DEF n
    <3> QED BY <1>1, <2>2, <2>4
  <2>6. Cardinality(First(R, S, k - 1)) = k - 1
    BY <2>1, <2>5
  <2>7. Cardinality(First(R, S, (k - 1) + 1)) = (k - 1) + 1
    <3> DEFINE j == k - 1
    <3>1. j \in Nat /\ j + 1 <= Cardinality(S) /\ Cardinality(First(R, S, j)) = j
      BY <2>5, <2>6
    <3> HIDE DEF j
    <3>2. Cardinality(First(R, S, j + 1)) = j + 1
      BY <3>1, NextFirst
    <3> QED BY <3>2 DEF j
  <2> QED BY <2>2, <2>5, <2>7
<1>3. First(R, S, m) \in SUBSET S
  BY DEF First
<1>4. m <= n => Cardinality(First(R, S, m)) = m
  <2> SUFFICES ASSUME m <= n PROVE Cardinality(First(R, S, m)) = m
    OBVIOUS
  <2>1. m \in 0..n
    <3> HIDE DEF n
    <3> QED BY <1>1
  <2> QED BY <1>2, <2>1
<1>5. ASSUME n <= m PROVE First(R, S, m) = S
  <2>1. ASSUME NEW x \in S PROVE Cardinality(Upto(R, S, x)) <= m
    <3> DEFINE U == Upto(R, S, x)
    <3>1. U \in SUBSET S
      BY DEF Upto
    <3> HIDE DEF U
    <3>2. Cardinality(U) <= Cardinality(S) /\ Cardinality(U) \in Nat
      BY <3>1, FS_Subset, FS_CardinalityType
    <3> QED BY <1>1, <1>5, <3>2 DEF U
  <2> QED BY <2>1 DEF First
<1> QED BY <1>3, <1>4, <1>5

-----------------------------------------------------------------------------
(* The keys that a log leaves in the two indexes *)

\* What the row of an event says of itself: whether the tokenId, and which account.
SaysToken(log) ==
    log.kind \in TokenNotices \cup TokenAccountNotices
        \cup {"AssetRegistered", "URI", "AssetPaused", "AssetUnpaused",
              "AssetFrozen", "PartialFreeze", "LockupSet"}

SaysAccount(log) ==
    CASE log.kind = "WalletRecovered" -> log.to
      [] log.kind \in {"URI", "UnitMinted"} \cup TokenNotices \cup GroupNotices -> NoOne
      [] OTHER -> log.from

KeyAccount(log) == IF IsTransfer(log) THEN NoOne ELSE SaysAccount(log)

\* Records, then the row of the event and the keys for what the log says.
Shaped(log, id, list) ==
    \E records \in Seq(RecordPuts) :
        list = records \o PutGenericEvent(id, SaysToken(log), KeyAccount(log))

Kinds ==
    {"Minted", "Burned", "TransferSingle"}
      \cup {"AssetRegistered", "URI", "AssetPaused", "AssetUnpaused"}
      \cup {"IdentityBound", "IdentityUnbound", "WalletRecovered"}
      \cup FreezeLogs \cup Notices \cup {"UnitMinted", "ForcedTransfer", "TransferBatch"}

\* What is said, by the kind of the log.
LEMMA SaidByKind ==
    ASSUME NEW log \in Log
    PROVE  /\ log.kind \in Kinds
           /\ IsTransfer(log) => ~SaysToken(log) /\ KeyAccount(log) = NoOne
           /\ log.kind \in {"AssetRegistered", "AssetPaused", "AssetUnpaused", "AssetFrozen",
                            "PartialFreeze", "LockupSet"} \cup TokenAccountNotices =>
                SaysToken(log) /\ KeyAccount(log) = log.from
           /\ log.kind \in {"URI"} \cup TokenNotices => SaysToken(log) /\ KeyAccount(log) = NoOne
           /\ log.kind \in {"IdentityBound", "IdentityUnbound", "WalletFrozen"} \cup AccountNotices =>
                ~SaysToken(log) /\ KeyAccount(log) = log.from
           /\ log.kind = "WalletRecovered" => ~SaysToken(log) /\ KeyAccount(log) = log.to
           /\ log.kind \in GroupNotices \cup OtherTokenNotices \cup {"UnitMinted"} =>
                ~SaysToken(log) /\ KeyAccount(log) = NoOne
           /\ log.kind \in {"Burned", "AssetRegistered", "AssetPaused", "AssetUnpaused", "AssetFrozen",
                            "PartialFreeze", "LockupSet", "IdentityBound", "IdentityUnbound",
                            "WalletFrozen", "WalletRecovered", "TransferBatch"}
                \cup TokenAccountNotices \cup AccountNotices => log.from \in Wallets
           /\ KeyAccount(log) \in Wallets \cup {NoOne}
<1>1. log.kind \in Kinds
  BY DEF Log, LogsOf, Kinds, FreezeLogs, Notices
<1>2. /\ log.from \in Wallets \cup {NoOne}
      /\ log.kind = "WalletRecovered" => log.to \in Wallets
  BY LogTyped
<1>3. KeyAccount(log) \in {NoOne, log.from, log.to}
      /\ (log.kind # "WalletRecovered" => KeyAccount(log) \in {NoOne, log.from})
  BY DEF KeyAccount, SaysAccount
<1>4. KeyAccount(log) \in Wallets \cup {NoOne}
  BY <1>2, <1>3
<1>5. log.kind \in {"Burned", "AssetRegistered", "AssetPaused", "AssetUnpaused", "AssetFrozen",
                    "PartialFreeze", "LockupSet", "IdentityBound", "IdentityUnbound",
                    "WalletFrozen", "WalletRecovered", "TransferBatch"}
        \cup TokenAccountNotices \cup AccountNotices => log.from \in Wallets
  BY DEF Log, LogsOf, TokenNotices, AccountNotices, TokenAccountNotices, GroupNotices, OtherTokenNotices
<1>6. IsTransfer(log) => ~SaysToken(log) /\ KeyAccount(log) = NoOne
  BY DEF IsTransfer, SaysToken, KeyAccount, TokenNotices, TokenAccountNotices, OtherTokenNotices
<1>7. /\ log.kind \in {"AssetRegistered", "AssetPaused", "AssetUnpaused", "AssetFrozen",
                       "PartialFreeze", "LockupSet"} \cup TokenAccountNotices =>
           SaysToken(log) /\ KeyAccount(log) = log.from
      /\ log.kind \in {"URI"} \cup TokenNotices => SaysToken(log) /\ KeyAccount(log) = NoOne
  BY DEF IsTransfer, SaysToken, SaysAccount, KeyAccount, TokenNotices, TokenAccountNotices, GroupNotices, OtherTokenNotices
<1>8. /\ log.kind \in {"IdentityBound", "IdentityUnbound", "WalletFrozen"} \cup AccountNotices =>
           ~SaysToken(log) /\ KeyAccount(log) = log.from
      /\ log.kind = "WalletRecovered" => ~SaysToken(log) /\ KeyAccount(log) = log.to
      /\ log.kind \in GroupNotices \cup OtherTokenNotices \cup {"UnitMinted"} =>
                ~SaysToken(log) /\ KeyAccount(log) = NoOne
  BY DEF IsTransfer, SaysToken, SaysAccount, KeyAccount, TokenNotices, TokenAccountNotices,
         AccountNotices, GroupNotices, OtherTokenNotices
<1> QED BY <1>1, <1>4, <1>5, <1>6, <1>7, <1>8

LEMMA ShapedOnly ==
    ASSUME NEW log, NEW id \in LogIds, NEW list,
           list = PutGenericEvent(id, SaysToken(log), KeyAccount(log)), list \in Seq(Puts)
    PROVE  Shaped(log, id, list)
<1>1. <<>> \in Seq(RecordPuts) /\ <<>> \o list = list
  BY NothingBefore
<1> QED BY <1>1 DEF Shaped

LEMMA TransfersShaped ==
    ASSUME NEW d \in Store, NEW log \in Log, NEW id \in LogIds
    PROVE  /\ log.kind = "Minted" => Shaped(log, id, handleMinted(d, log, id))
           /\ log.kind = "Burned" => Shaped(log, id, handleBurned(d, log, id))
           /\ log.kind = "TransferSingle" /\ LeavesEvent(log) =>
                Shaped(log, id, handleTransferSingle(d, log, id))
           /\ log.kind = "ForcedTransfer" => Shaped(log, id, handleForcedTransfer(id))
<1>1. log.n \in Nat /\ PutGenericEvent(id, FALSE, NoOne) = PutEvent(id)
  BY LogTyped DEF PutGenericEvent, IndexKeys, PutEvent
<1>2. ASSUME IsTransfer(log), NEW records \in Seq(RecordPuts)
      PROVE  Shaped(log, id, records \o PutEvent(id))
  <2>1. SaysToken(log) = FALSE /\ KeyAccount(log) = NoOne
    BY <1>2, SaidByKind DEF SaysToken
  <2>2. PutGenericEvent(id, SaysToken(log), KeyAccount(log)) = PutEvent(id)
    BY <1>1, <2>1
  <2> QED BY <2>2 DEF Shaped
<1>3. ASSUME log.kind = "Minted" PROVE Shaped(log, id, handleMinted(d, log, id))
  <2>1. log.to \in Wallets /\ IsTransfer(log)
    BY <1>3, LogTyped DEF IsTransfer
  <2>2. RecordMint(d, log.to, log.n) \in Seq(RecordPuts)
    BY <1>1, <2>1, SupplyPutsTyped
  <2> QED BY <1>2, <2>1, <2>2 DEF handleMinted
<1>4. ASSUME log.kind = "Burned" PROVE Shaped(log, id, handleBurned(d, log, id))
  <2>1. log.from \in Wallets /\ IsTransfer(log)
    BY <1>4, LogTyped DEF IsTransfer
  <2>2. RecordBurn(d, log.from, log.n) \in Seq(RecordPuts)
    BY <1>1, <2>1, SupplyPutsTyped
  <2> QED BY <1>2, <2>1, <2>2 DEF handleBurned
<1>5. ASSUME log.kind = "TransferSingle", LeavesEvent(log)
      PROVE  Shaped(log, id, handleTransferSingle(d, log, id))
  <2>1. NoOne \notin {log.from, log.to} /\ IsTransfer(log)
    BY <1>5 DEF LeavesEvent, IsTransfer
  <2>2. log.from \in Wallets /\ log.to \in Wallets
    BY <1>5, <2>1, LogTyped
  <2>3. RecordTransfer(d, log.from, log.to, log.n) \in Seq(RecordPuts)
    BY <1>1, <2>2, RecordTransferTyped
  <2> QED BY <1>2, <2>1, <2>3 DEF handleTransferSingle
<1>6. ASSUME log.kind = "ForcedTransfer" PROVE Shaped(log, id, handleForcedTransfer(id))
  <2>1. IsTransfer(log) /\ <<>> \in Seq(RecordPuts)
    BY <1>6 DEF IsTransfer
  <2>2. <<>> \o PutEvent(id) = PutEvent(id)
    BY DEF PutEvent
  <2> QED BY <1>2, <2>1, <2>2 DEF handleForcedTransfer
<1> QED BY <1>3, <1>4, <1>5, <1>6

\* The keys come after what the handler recorded.
LEMMA HandlerShaped ==
    ASSUME NEW d \in Store, NEW log \in Log, NEW id \in LogIds, NEW named \in BOOLEAN
    PROVE  \/ LeavesEvent(log) /\ Shaped(log, id, HandlerPuts(d, log, id, named))
           \/ ~LeavesEvent(log) /\ HandlerPuts(d, log, id, named) = <<>>
<1> DEFINE result == HandlerPuts(d, log, id, named)
<1> SUFFICES \/ LeavesEvent(log) /\ Shaped(log, id, result)
             \/ ~LeavesEvent(log) /\ result = <<>>
  OBVIOUS
<1> HIDE DEF result
<1>1. log.kind \notin {"TransferSingle", "TransferBatch"} => LeavesEvent(log)
  BY DEF LeavesEvent
<1>2. log.n \in Nat
  BY LogTyped
<1>3. ASSUME NEW records \in Seq(RecordPuts),
             result = records \o PutGenericEvent(id, SaysToken(log), KeyAccount(log))
      PROVE  Shaped(log, id, result)
  BY <1>3, Zenon DEF Shaped
<1>4. CASE log.kind \in {"Minted", "Burned", "TransferSingle"}
  <2>1. \/ log.kind = "Minted" /\ result = handleMinted(d, log, id)
        \/ log.kind = "Burned" /\ result = handleBurned(d, log, id)
        \/ log.kind = "TransferSingle" /\ result = handleTransferSingle(d, log, id)
    BY <1>4 DEF result, HandlerPuts, Notices, TokenNotices, AccountNotices, TokenAccountNotices,
               GroupNotices, OtherTokenNotices
  <2>2. log.kind = "TransferSingle" /\ ~LeavesEvent(log) => handleTransferSingle(d, log, id) = <<>>
    BY DEF LeavesEvent, handleTransferSingle
  <2> QED BY <1>1, <2>1, <2>2, TransfersShaped
<1>5. CASE log.kind \in {"AssetRegistered", "URI", "AssetPaused", "AssetUnpaused"}
  <2>1. \/ log.kind = "AssetRegistered" /\ result = handleAssetRegistered(log, id, named)
        \/ log.kind = "URI" /\ result = handleURI(d, log, id)
        \/ /\ log.kind \in {"AssetPaused", "AssetUnpaused"}
           /\ result = handleAssetPaused(d, log, id, log.kind = "AssetPaused")
    BY <1>5 DEF result, HandlerPuts, Notices, TokenNotices, AccountNotices, TokenAccountNotices,
               GroupNotices, OtherTokenNotices
  <2>2. (log.kind = "AssetPaused") \in BOOLEAN
    OBVIOUS
  <2>3. /\ RecordAsset(named) \in Seq(RecordPuts)
        /\ UpdateAssetPaused(d, log.kind = "AssetPaused") \in Seq(RecordPuts)
        /\ UpdateAssetURI(d, log.n) \in Seq(RecordPuts)
    BY <1>2, <2>2, AssetPutsTyped
  <2>4. /\ SaysToken(log) = TRUE
        /\ KeyAccount(log) = IF log.kind = "URI" THEN NoOne ELSE log.from
    BY <1>5, SaidByKind DEF SaysToken
  <2>5. CASE log.kind = "URI"
    BY <1>1, <1>3, <2>1, <2>3, <2>4, <2>5 DEF handleURI, TokenOnly
  <2>6. CASE log.kind = "AssetRegistered"
    BY <1>1, <1>3, <2>1, <2>3, <2>4, <2>6 DEF handleAssetRegistered, TokenAndAddress
  <2>7. CASE log.kind \in {"AssetPaused", "AssetUnpaused"}
    BY <1>1, <1>3, <2>1, <2>3, <2>4, <2>7 DEF handleAssetPaused, TokenAndAddress
  <2> QED BY <1>5, <2>5, <2>6, <2>7
<1>6. CASE log.kind \in {"IdentityBound", "IdentityUnbound", "WalletRecovered"}
  <2>1. \/ log.kind = "IdentityBound" /\ result = handleIdentityBound(d, log, id)
        \/ log.kind = "IdentityUnbound" /\ result = handleIdentityUnbound(d, log, id)
        \/ log.kind = "WalletRecovered" /\ result = handleWalletRecovered(d, log, id)
    BY <1>6 DEF result, HandlerPuts, Notices, TokenNotices, AccountNotices, TokenAccountNotices,
               GroupNotices, OtherTokenNotices
  <2>2. log.from \in Wallets
    BY <1>6, LogTyped
  <2>3. /\ SaysToken(log) = FALSE
        /\ KeyAccount(log) = IF log.kind = "WalletRecovered" THEN log.to ELSE log.from
    BY <1>6, SaidByKind DEF SaysToken
  <2>4. CASE log.kind = "IdentityBound"
    <3>1. log.to \in Identities \cup {NoOne}
      BY <2>4, LogTyped
    <3>2. RecordIdentity(d, log.from, log.to, log.n) \in Seq(RecordPuts)
      BY <1>2, <2>2, <3>1, RecordIdentityTyped
    <3> QED BY <1>1, <1>3, <2>1, <2>3, <2>4, <3>2 DEF handleIdentityBound, AddressOnly
  <2>5. CASE log.kind = "IdentityUnbound"
    <3>1. RemoveIdentity(d, log.from) \in Seq(RecordPuts)
      BY <2>2, RemoveIdentityTyped
    <3> QED BY <1>1, <1>3, <2>1, <2>3, <2>5, <3>1 DEF handleIdentityUnbound, AddressOnly
  <2>6. CASE log.kind = "WalletRecovered"
    <3>1. log.to \in Wallets
      BY <2>6, LogTyped
    <3>2. MoveIdentity(d, log.from, log.to) \in Seq(RecordPuts)
      BY <2>2, <3>1, MoveIdentityTyped
    <3> QED BY <1>1, <1>3, <2>1, <2>3, <2>6, <3>2 DEF handleWalletRecovered, AddressOnly
  <2> QED BY <1>6, <2>4, <2>5, <2>6
<1>7. CASE log.kind \in FreezeLogs
  <2>1. \/ log.kind = "WalletFrozen" /\ result = handleWalletFrozen(log, id)
        \/ log.kind = "AssetFrozen" /\ result = handleAssetFrozen(log, id)
        \/ log.kind = "PartialFreeze" /\ result = handlePartialFreeze(d, log, id)
        \/ log.kind = "LockupSet" /\ result = handleLockupSet(d, log, id)
    BY <1>7 DEF result, HandlerPuts, FreezeLogs, Notices, TokenNotices, AccountNotices,
               TokenAccountNotices, GroupNotices, OtherTokenNotices
  <2>2. log.from \in Wallets /\ (log.n = 1) \in BOOLEAN
    BY <1>7, LogTyped DEF FreezeLogs
  <2>3. /\ RecordWalletFreeze(log.from, log.n = 1) \in Seq(RecordPuts)
        /\ RecordFreeze(log.from, log.n = 1) \in Seq(RecordPuts)
        /\ UpdateFreezeAmount(d, log.from, log.n) \in Seq(RecordPuts)
        /\ UpdateLockupExpiry(d, log.from, log.n) \in Seq(RecordPuts)
    BY <1>2, <2>2, FreezePutsTyped
  <2>4. KeyAccount(log) = log.from /\ SaysToken(log) = (log.kind # "WalletFrozen")
    BY <1>7, SaidByKind DEF SaysToken, FreezeLogs
  <2>5. LeavesEvent(log)
    BY <1>1, <1>7 DEF FreezeLogs
  <2>6. CASE log.kind = "WalletFrozen"
    BY <1>3, <2>1, <2>3, <2>4, <2>5, <2>6 DEF handleWalletFrozen, AddressOnly
  <2>7. CASE log.kind # "WalletFrozen"
    <3>1. SaysToken(log) = TRUE
      BY <2>4, <2>7
    <3> QED BY <1>3, <2>1, <2>3, <2>4, <2>5, <2>7, <3>1
            DEF handleAssetFrozen, handlePartialFreeze, handleLockupSet, TokenAndAddress
  <2> QED BY <2>6, <2>7
<1>8. CASE log.kind \in Notices \cup {"UnitMinted"}
  <2>1. result = NoticePuts(log, id)
    BY <1>8 DEF result, HandlerPuts, Notices, TokenNotices, AccountNotices, TokenAccountNotices,
               GroupNotices, OtherTokenNotices
  <2>2. NoticePuts(log, id) = PutGenericEvent(id, SaysToken(log), KeyAccount(log))
    <3>1. CASE log.kind \in TokenNotices
      <4>1. NoticePuts(log, id) = TokenOnly(id)
        BY <3>1 DEF NoticePuts, Notices, TokenNotices, AccountNotices, TokenAccountNotices, GroupNotices, OtherTokenNotices,
               handleGenericEvent, handleSnapshotAndDividendCreated, handleYieldDeposited,
               handleComplianceSetting
      <4>2. SaysToken(log) = TRUE /\ KeyAccount(log) = NoOne
        BY <3>1, SaidByKind DEF SaysToken
      <4> QED BY <4>1, <4>2 DEF TokenOnly
    <3>2. CASE log.kind \in AccountNotices
      <4>1. NoticePuts(log, id) = AddressOnly(id, log.from)
        BY <3>2 DEF NoticePuts, Notices, TokenNotices, AccountNotices, TokenAccountNotices, GroupNotices, OtherTokenNotices,
               handleGenericEventAddrOnly, handleRoleEvent, handleGlobalPlugin, handleDividendClaimed
      <4>2. SaysToken(log) = FALSE /\ KeyAccount(log) = log.from
        BY <3>2, SaidByKind DEF SaysToken
      <4> QED BY <4>1, <4>2 DEF AddressOnly
    <3>3. CASE log.kind \in TokenAccountNotices
      <4>1. NoticePuts(log, id) = TokenAndAddress(id, log.from)
        BY <3>3 DEF NoticePuts, Notices, TokenNotices, AccountNotices, TokenAccountNotices, GroupNotices, OtherTokenNotices,
               handleGenericEventWithTokenAndAddr, handleRewardAssetEvent, handleYieldClaimed
      <4>2. SaysToken(log) = TRUE /\ KeyAccount(log) = log.from
        BY <3>3, SaidByKind DEF SaysToken
      <4> QED BY <4>1, <4>2 DEF TokenAndAddress
    <3>4. CASE log.kind \in GroupNotices \cup OtherTokenNotices \cup {"UnitMinted"}
      <4>1. NoticePuts(log, id) = AddressOnly(id, NoOne)
        BY <3>4, BareEvent DEF NoticePuts, GroupNotices, OtherTokenNotices, handleGenericEvent,
               handleMintedOfOther
      <4>2. SaysToken(log) = FALSE /\ KeyAccount(log) = NoOne
        BY <3>4, SaidByKind DEF SaysToken
      <4> QED BY <4>1, <4>2 DEF AddressOnly
    <3> QED BY <1>8, <3>1, <3>2, <3>3, <3>4 DEF Notices
  <2>3. NoticePuts(log, id) \in Seq(Puts)
    BY <1>8, NoticePutsTyped DEF RecordsEvent
  <2>4. LeavesEvent(log)
    BY <1>1, <1>8 DEF Notices, TokenNotices, AccountNotices, TokenAccountNotices, GroupNotices, OtherTokenNotices
  <2> QED BY <2>1, <2>2, <2>3, <2>4, ShapedOnly
<1>9. CASE log.kind = "ForcedTransfer"
  <2>1. result = handleForcedTransfer(id)
    BY <1>9 DEF result, HandlerPuts, Notices, TokenNotices, AccountNotices,
               TokenAccountNotices, GroupNotices, OtherTokenNotices
  <2> QED BY <1>1, <1>9, <2>1, TransfersShaped
<1>10. CASE log.kind = "TransferBatch"
  <2>1. result = <<>>
    BY <1>10 DEF result, HandlerPuts, Notices, TokenNotices, AccountNotices, TokenAccountNotices, GroupNotices, OtherTokenNotices
  <2>2. ~LeavesEvent(log)
    BY <1>10 DEF LeavesEvent
  <2> QED BY <2>1, <2>2
<1>11. log.kind \in Kinds
  BY SaidByKind
<1> QED BY <1>4, <1>5, <1>6, <1>7, <1>8, <1>9, <1>10, <1>11 DEF Kinds

-----------------------------------------------------------------------------
(* The rows and the keys are those of the logs they are of *)

SaidKeys(log, id) ==
    (IF SaysToken(log) THEN {Put("byToken", id, TRUE)} ELSE {})
      \cup (IF KeyAccount(log) = NoOne THEN {} ELSE {Put("byAddress", id, KeyAccount(log))})

\* What may be written for a log.
RightPuts(log, id) ==
    RecordPuts \cup (IF LeavesEvent(log) THEN {Put("event", id, TRUE)} \cup SaidKeys(log, id) ELSE {})

Among(list, put) == \E k \in 1..Len(list) : list[k] = put

LEMMA JoinedAmong ==
    ASSUME NEW S, NEW a \in Seq(S), NEW b \in Seq(S), NEW put
    PROVE  /\ a \o b \in Seq(S)
           /\ Among(a, put) \/ Among(b, put) => Among(a \o b, put)
<1>1. ASSUME NEW k \in 1..Len(a) PROVE k \in 1..Len(a \o b) /\ (a \o b)[k] = a[k]
  OBVIOUS
<1>2. ASSUME NEW k \in 1..Len(b)
      PROVE  Len(a) + k \in 1..Len(a \o b) /\ (a \o b)[Len(a) + k] = b[k]
  OBVIOUS
<1>3. a \o b \in Seq(S)
  OBVIOUS
<1> QED BY <1>1, <1>2, <1>3 DEF Among

LEMMA KeysAmong ==
    ASSUME NEW log, NEW id
    PROVE  /\ IndexKeys(id, SaysToken(log), KeyAccount(log)) \in Seq(SaidKeys(log, id))
           /\ \A put \in SaidKeys(log, id) : Among(IndexKeys(id, SaysToken(log), KeyAccount(log)), put)
<1> DEFINE S == SaidKeys(log, id)
           p == Put("byToken", id, TRUE)
           q == Put("byAddress", id, KeyAccount(log))
           first == IF SaysToken(log) THEN <<p>> ELSE <<>>
           then == IF KeyAccount(log) = NoOne THEN <<>> ELSE <<q>>
<1>1. ASSUME NEW put \in S PROVE <<put>> \in Seq(S) /\ Among(<<put>>, put)
  BY <1>1 DEF Among
<1>2. <<>> \in Seq(S)
  OBVIOUS
<1>3. /\ SaysToken(log) => p \in S
      /\ KeyAccount(log) # NoOne => q \in S
      /\ \A put \in S : (put = p /\ SaysToken(log)) \/ (put = q /\ KeyAccount(log) # NoOne)
  BY DEF SaidKeys
<1>4. IndexKeys(id, SaysToken(log), KeyAccount(log)) = first \o then
  BY DEF IndexKeys
<1> HIDE DEF p, q, S
<1>5. /\ first \in Seq(S) /\ (SaysToken(log) => Among(first, p))
      /\ then \in Seq(S) /\ (KeyAccount(log) # NoOne => Among(then, q))
  BY <1>1, <1>2, <1>3
<1> HIDE DEF first, then
<1>6. ASSUME NEW put \in S PROVE Among(first \o then, put)
  <2>1. Among(first, put) \/ Among(then, put)
    BY <1>3, <1>5
  <2> QED BY <1>5, <2>1, JoinedAmong
<1>7. first \o then \in Seq(S)
  BY <1>5, JoinedAmong
<1> QED BY <1>4, <1>6, <1>7 DEF S

LEMMA ShapedRight ==
    ASSUME NEW log, NEW id, NEW list, LeavesEvent(log), Shaped(log, id, list)
    PROVE  /\ list \in Seq(RightPuts(log, id))
           /\ \A put \in SaidKeys(log, id) : Among(list, put)
<1> DEFINE R == RightPuts(log, id)
           row == Put("event", id, TRUE)
           keys == IndexKeys(id, SaysToken(log), KeyAccount(log))
<1>1. PICK records \in Seq(RecordPuts) : list = records \o (<<row>> \o keys)
  BY Zenon DEF Shaped, PutGenericEvent, PutEvent
<1>2. RecordPuts \subseteq R /\ row \in R /\ SaidKeys(log, id) \subseteq R
  BY DEF RightPuts
<1> HIDE DEF R, row, keys
<1>3. records \in Seq(R) /\ keys \in Seq(R) /\ <<row>> \in Seq(R)
  <2>1. keys \in Seq(SaidKeys(log, id))
    BY KeysAmong DEF keys
  <2>2. keys \in Seq(R) /\ records \in Seq(R)
    BY <1>2, <2>1, SeqOfMore
  <2>3. <<row>> \in Seq(R)
    BY <1>2
  <2> QED BY <2>2, <2>3
<1>4. <<row>> \o keys \in Seq(R)
  BY <1>3, JoinedAmong
<1>5. ASSUME NEW put \in SaidKeys(log, id) PROVE Among(list, put)
  <2>1. Among(keys, put)
    BY KeysAmong DEF keys
  <2>2. Among(<<row>> \o keys, put)
    BY <1>3, <2>1, JoinedAmong
  <2> QED BY <1>1, <1>3, <1>4, <2>2, JoinedAmong
<1>6. list \in Seq(R)
  BY <1>1, <1>3, <1>4, JoinedAmong
<1> QED BY <1>5, <1>6 DEF R

\* What a put for a log does to rows and keys.
PutRightly(d, e, log, id, put) ==
    /\ \A other \in LogIds \ {id} : /\ e.event[other] = d.event[other]
                                    /\ e.byToken[other] = d.byToken[other]
                                    /\ e.byAddress[other] = d.byAddress[other]
    /\ e.event[id] => d.event[id] \/ LeavesEvent(log)
    /\ e.byToken[id] => d.byToken[id] \/ SaysToken(log)
    /\ e.byAddress[id] \in {d.byAddress[id], KeyAccount(log)}
    /\ d.byToken[id] \/ put = Put("byToken", id, TRUE) => e.byToken[id]
    /\ put = Put("byAddress", id, KeyAccount(log)) => e.byAddress[id] = KeyAccount(log)
    /\ d.byAddress[id] = KeyAccount(log) => e.byAddress[id] = KeyAccount(log)

LEMMA RightPutEffect ==
    ASSUME NEW d \in Store, NEW log \in Log, NEW id \in LogIds, NEW put \in RightPuts(log, id)
    PROVE  PutRightly(d, After(d, put), log, id, put)
<1> USE DEF PutRightly
<1> DEFINE e == After(d, put)
           a == KeyAccount(log)
<1>1. \A table \in {"event", "byToken", "byAddress"} : \A value :
        put = Put(table, id, value) => put \notin RecordPuts
  BY DEF RecordPuts, PutsOf, Put
<1>2. CASE put \in RecordPuts
  <2>1. SameEvents(d, e)
    BY <1>2, RecordPutEffect
  <2>2. put # Put("byToken", id, TRUE) /\ put # Put("byAddress", id, a)
    BY <1>1, <1>2
  <2> HIDE DEF e
  <2> QED BY <2>1, <2>2 DEF SameEvents, e
<1>3. CASE put \notin RecordPuts
  <2>1. /\ LeavesEvent(log)
        /\ \/ put = Put("event", id, TRUE)
           \/ put = Put("byToken", id, TRUE) /\ SaysToken(log)
           \/ put = Put("byAddress", id, a)
    BY <1>3 DEF RightPuts, SaidKeys
  <2>2. /\ Put("event", id, TRUE) # Put("byToken", id, TRUE)
        /\ Put("event", id, TRUE) # Put("byAddress", id, a)
        /\ Put("byToken", id, TRUE) # Put("byAddress", id, a)
    BY DEF Put
  <2> HIDE DEF a
  <2>3. CASE put = Put("event", id, TRUE)
    <3>1. \A other \in LogIds \ {id} : e.event[other] = d.event[other]
      BY <2>3 DEF After, Put, Store
    <3>2. e.byToken = d.byToken /\ e.byAddress = d.byAddress
      BY <2>3 DEF After, Put, Store
    <3> HIDE DEF e
    <3> QED BY <2>1, <2>2, <2>3, <3>1, <3>2 DEF a, e
  <2>4. CASE put = Put("byToken", id, TRUE) /\ SaysToken(log)
    <3>1. (\A other \in LogIds \ {id} : e.byToken[other] = d.byToken[other]) /\ e.byToken[id] = TRUE
      BY <2>4 DEF After, Put, Store
    <3>2. e.event = d.event /\ e.byAddress = d.byAddress
      BY <2>4 DEF After, Put, Store
    <3> HIDE DEF e
    <3> QED BY <2>1, <2>2, <2>4, <3>1, <3>2 DEF a, e
  <2>5. CASE put = Put("byAddress", id, a)
    <3>1. (\A other \in LogIds \ {id} : e.byAddress[other] = d.byAddress[other]) /\ e.byAddress[id] = a
      BY <2>5 DEF After, Put, Store
    <3>2. e.event = d.event /\ e.byToken = d.byToken
      BY <2>5 DEF After, Put, Store
    <3> HIDE DEF e
    <3> QED BY <2>1, <2>2, <2>5, <3>1, <3>2 DEF a, e
  <2> QED BY <2>1, <2>3, <2>4, <2>5
<1> QED BY <1>2, <1>3

\* A row is that of a log that leaves one; its keys are what the log says.
KeysRight ==
    \A id \in LogIds :
        /\ db.event[id] => LeavesEvent(LogAt(id))
        /\ db.byToken[id] => SaysToken(LogAt(id))
        /\ db.byAddress[id] # NoOne => db.byAddress[id] = KeyAccount(LogAt(id))

HasToken(id) == SaysToken(LogAt(id)) => db.byToken[id]
HasAccount(id) == KeyAccount(LogAt(id)) # NoOne => db.byAddress[id] = KeyAccount(LogAt(id))

KeysThere == \A id \in LogIds : db.event[id] /\ id # current => HasToken(id) /\ HasAccount(id)

\* The keys of the log in hand are there or still to be written.
KeysComing ==
    current # NoLog =>
        /\ puts \in Seq(RightPuts(LogAt(current), current))
        /\ LeavesEvent(LogAt(current)) =>
             /\ HasToken(current) \/ Among(puts, Put("byToken", current, TRUE))
             /\ HasAccount(current)
                  \/ Among(puts, Put("byAddress", current, KeyAccount(LogAt(current))))

KeyInv == KeysRight /\ KeysThere /\ KeysComing

LEMMA TakeLogKeys == IInv /\ QueryInv /\ KeyInv /\ TakeLog => KeyInv'
<1> SUFFICES ASSUME IInv, QueryInv, KeyInv, TakeLog PROVE KeyInv'
  OBVIOUS
<1>1. PICK id \in logs, named \in BOOLEAN :
        current' = id /\ puts' = HandlerPuts(db, LogAt(id), id, named)
  BY DEF TakeLog
<1>2. /\ db' = db /\ chain' = chain /\ current = NoLog
  BY DEF TakeLog
<1>3. db \in Store /\ id \in LogIds /\ id # NoLog /\ LogAt(id) \in Log
  BY LogOnChain, NumbersTyped DEF IInv, LogsOnChain, TypeOK
<1>4. LogAt(id)' = LogAt(id)
  BY <1>2 DEF LogAt
<1>5. KeysRight'
  BY <1>2 DEF KeyInv, KeysRight, LogAt
<1>6. KeysThere'
  <2>1. \A other \in LogIds : other # current
    BY <1>2, NumbersTyped
  <2> QED BY <1>2, <2>1 DEF KeyInv, KeysThere, HasToken, HasAccount, LogAt
<1> DEFINE log == LogAt(id)
           list == HandlerPuts(db, log, id, named)
<1>7. \/ LeavesEvent(log) /\ Shaped(log, id, list)
      \/ ~LeavesEvent(log) /\ list = <<>>
  BY <1>3, HandlerShaped
<1> HIDE DEF list
<1>8. list \in Seq(RightPuts(log, id))
  <2>1. <<>> \in Seq(RightPuts(log, id))
    OBVIOUS
  <2> QED BY <1>7, <2>1, ShapedRight
<1>9. ASSUME LeavesEvent(log)
      PROVE  /\ SaysToken(log) => Among(list, Put("byToken", id, TRUE))
             /\ KeyAccount(log) # NoOne => Among(list, Put("byAddress", id, KeyAccount(log)))
  <2>1. \A put \in SaidKeys(log, id) : Among(list, put)
    BY <1>7, <1>9, ShapedRight
  <2> QED BY <2>1 DEF SaidKeys
<1>10. LogAt(current)' = log /\ puts' = list /\ current' = id
  BY <1>1, <1>2 DEF LogAt, list
<1> HIDE DEF log
<1>11. KeysComing'
  BY <1>8, <1>9, <1>10 DEF KeysComing, HasToken, HasAccount
<1> QED BY <1>5, <1>6, <1>11 DEF KeyInv

LEMMA WriteNextKeys == IInv /\ QueryInv /\ KeyInv /\ WriteNext => KeyInv'
<1> SUFFICES ASSUME IInv, QueryInv, KeyInv, WriteNext PROVE KeyInv'
  OBVIOUS
<1>1. /\ current' = current /\ chain' = chain /\ current # NoLog /\ puts # <<>>
      /\ puts' = Tail(puts) /\ db' = After(db, Head(puts))
  BY DEF WriteNext
<1>2. PICK id \in LogIds, log \in Log : id = current /\ log = LogAt(id)
  BY <1>1, LogInHand
<1>3. /\ db \in Store
      /\ puts \in Seq(RightPuts(log, id))
      /\ LeavesEvent(log) =>
           /\ (SaysToken(log) => db.byToken[id]) \/ Among(puts, Put("byToken", id, TRUE))
           /\ (KeyAccount(log) # NoOne => db.byAddress[id] = KeyAccount(log))
                \/ Among(puts, Put("byAddress", id, KeyAccount(log)))
  BY <1>1, <1>2 DEF IInv, TypeOK, KeyInv, KeysComing, HasToken, HasAccount
<1>4. PICK put : put = Head(puts)
  OBVIOUS
<1>5. PICK list : list = Tail(puts)
  OBVIOUS
<1>6. PICK e : e = After(db, put)
  OBVIOUS
<1>7. put \in RightPuts(log, id) /\ list \in Seq(RightPuts(log, id))
  BY <1>1, <1>3, <1>4, <1>5
<1>8. ASSUME NEW q, Among(puts, q) PROVE put = q \/ Among(list, q)
  <2>1. PICK k \in 1..Len(puts) : puts[k] = q
    BY <1>8 DEF Among
  <2>2. puts[1] = put /\ (k # 1 => k - 1 \in 1..Len(list) /\ list[k - 1] = puts[k])
    BY <1>1, <1>3, <1>4, <1>5
  <2> QED BY <2>1, <2>2 DEF Among
<1>9. /\ \A other \in LogIds \ {id} : /\ e.event[other] = db.event[other]
                                      /\ e.byToken[other] = db.byToken[other]
                                      /\ e.byAddress[other] = db.byAddress[other]
      /\ e.event[id] => db.event[id] \/ LeavesEvent(log)
      /\ e.byToken[id] => db.byToken[id] \/ SaysToken(log)
      /\ e.byAddress[id] \in {db.byAddress[id], KeyAccount(log)}
      /\ db.byToken[id] \/ put = Put("byToken", id, TRUE) => e.byToken[id]
      /\ put = Put("byAddress", id, KeyAccount(log)) => e.byAddress[id] = KeyAccount(log)
      /\ db.byAddress[id] = KeyAccount(log) => e.byAddress[id] = KeyAccount(log)
  <2>1. db \in Store /\ put \in RightPuts(log, id)
    BY <1>3, <1>7
  <2>2. PutRightly(db, e, log, id, put)
    BY <1>6, <2>1, RightPutEffect
  <2> QED BY <2>2 DEF PutRightly
<1>10. db' = e /\ puts' = list /\ \A x \in LogIds : LogAt(x)' = LogAt(x)
  BY <1>1, <1>4, <1>5, <1>6 DEF LogAt
<1>11. KeysRight'
  <2> SUFFICES ASSUME NEW x \in LogIds
               PROVE  /\ e.event[x] => LeavesEvent(LogAt(x))
                      /\ e.byToken[x] => SaysToken(LogAt(x))
                      /\ e.byAddress[x] # NoOne => e.byAddress[x] = KeyAccount(LogAt(x))
    BY <1>10 DEF KeysRight
  <2>1. /\ db.event[x] => LeavesEvent(LogAt(x))
        /\ db.byToken[x] => SaysToken(LogAt(x))
        /\ db.byAddress[x] # NoOne => db.byAddress[x] = KeyAccount(LogAt(x))
    BY DEF KeyInv, KeysRight
  <2> QED BY <1>2, <1>9, <2>1
<1>12. KeysThere'
  <2> SUFFICES ASSUME NEW x \in LogIds, e.event[x], x # id
               PROVE  /\ SaysToken(LogAt(x)) => e.byToken[x]
                      /\ KeyAccount(LogAt(x)) # NoOne => e.byAddress[x] = KeyAccount(LogAt(x))
    BY <1>1, <1>2, <1>10 DEF KeysThere, HasToken, HasAccount
  <2>1. db.event[x]
    BY <1>9
  <2>2. /\ SaysToken(LogAt(x)) => db.byToken[x]
        /\ KeyAccount(LogAt(x)) # NoOne => db.byAddress[x] = KeyAccount(LogAt(x))
    BY <1>2, <2>1 DEF KeyInv, KeysThere, HasToken, HasAccount
  <2> QED BY <1>9, <2>2
<1>13. KeysComing'
  <2> SUFFICES /\ list \in Seq(RightPuts(log, id))
               /\ LeavesEvent(log) =>
                    /\ (SaysToken(log) => e.byToken[id]) \/ Among(list, Put("byToken", id, TRUE))
                    /\ (KeyAccount(log) # NoOne => e.byAddress[id] = KeyAccount(log))
                         \/ Among(list, Put("byAddress", id, KeyAccount(log)))
    BY <1>1, <1>2, <1>10 DEF KeysComing, HasToken, HasAccount
  <2> QED BY <1>3, <1>7, <1>8, <1>9
<1> QED BY <1>11, <1>12, <1>13 DEF KeyInv

LEMMA FinishLogKeys == IInv /\ QueryInv /\ KeyInv /\ FinishLog => KeyInv'
<1> SUFFICES ASSUME IInv, QueryInv, KeyInv, FinishLog PROVE KeyInv'
  OBVIOUS
<1>1. /\ current' = NoLog /\ chain' = chain /\ current # NoLog /\ puts = <<>>
  BY DEF FinishLog
<1>2. SameEvents(db, db')
  <2>1. IInv /\ [Next]_vars /\ ~WriteNext
    BY <1>1 DEF Next, Work, WriteNext
  <2> QED BY <2>1, OnlyWriteNext
<1>3. \A x \in LogIds : LogAt(x)' = LogAt(x)
  BY <1>1 DEF LogAt
<1>4. KeysRight'
  BY <1>2, <1>3 DEF KeyInv, KeysRight, SameEvents
<1>5. ASSUME LeavesEvent(LogAt(current)) PROVE HasToken(current) /\ HasAccount(current)
  <2>1. \A put : ~Among(puts, put)
    BY <1>1 DEF Among
  <2> QED BY <1>1, <1>5, <2>1 DEF KeyInv, KeysComing
<1>6. ASSUME NEW x \in LogIds, db.event[x] PROVE HasToken(x) /\ HasAccount(x)
  <2>1. LeavesEvent(LogAt(x))
    BY <1>6 DEF KeyInv, KeysRight
  <2> QED BY <1>5, <1>6, <2>1 DEF KeyInv, KeysThere
<1>7. KeysThere'
  BY <1>2, <1>3, <1>6 DEF KeysThere, HasToken, HasAccount, SameEvents
<1> QED BY <1>1, <1>4, <1>7 DEF KeyInv, KeysComing

\* A process that is not killed puts a log down when all is written.
LEMMA AsideKeys ==
    ASSUME IInv, QueryInv, RowsInv, KeyInv, [Next]_vars, SameEvents(db, db'),
           current' = current, puts' = puts
    PROVE  KeyInv'
<1>1. ASSUME NEW x \in LogIds, OnChain(x) PROVE LogAt(x)' = LogAt(x)
  BY <1>1, OnChainStays
<1>2. ASSUME NEW x \in LogIds, db.event[x] \/ db.byToken[x] \/ db.byAddress[x] # NoOne
      PROVE  LogAt(x)' = LogAt(x)
  <2>1. OnChain(x)
    BY <1>2 DEF RowsInv, EventsOnChain, EventIndexResolves
  <2> QED BY <1>1, <2>1
<1>3. current # NoLog => LogAt(current)' = LogAt(current)
  <2>1. current # NoLog => current \in LogIds /\ OnChain(current)
    BY LogInHand
  <2> QED BY <1>1, <2>1
<1>4. KeysRight'
  BY <1>2 DEF KeyInv, KeysRight, SameEvents
<1>5. KeysThere'
  BY <1>2 DEF KeyInv, KeysThere, HasToken, HasAccount, SameEvents
<1>6. KeysComing'
  BY <1>3 DEF KeyInv, KeysComing, HasToken, HasAccount, SameEvents
<1> QED BY <1>4, <1>5, <1>6 DEF KeyInv

LEMMA StepKeyInv ==
    IInv /\ QueryInv /\ RowsInv /\ KeyInv /\ [Next]_vars /\ (Crash => Resting) => KeyInv'
<1> SUFFICES ASSUME IInv, QueryInv, RowsInv, KeyInv, [Next]_vars, Crash => Resting
             PROVE  KeyInv'
  OBVIOUS
<1>1. CASE TakeLog
  BY <1>1, TakeLogKeys
<1>2. CASE WriteNext
  BY <1>2, WriteNextKeys
<1>3. CASE FinishLog
  BY <1>3, FinishLogKeys
<1>4. CASE ~TakeLog /\ ~WriteNext /\ ~FinishLog
  <2>1. SameEvents(db, db')
    BY <1>4, OnlyWriteNext
  <2>2. current' = current
    BY <1>4 DEF Next, Work, Fail, Start, FetchChunk, ChunkDone, Poll, PollDone, StartFails,
             FetchChunkFails, PollFails, Crash, MineBlock, vars, process, Resting, IInv, EndAhead
  <2>3. CASE Crash
    <3>1. current = NoLog /\ current' = NoLog /\ chain' = chain
      BY <2>3 DEF Crash, Resting, IInv, EndAhead
    <3>2. \A x \in LogIds : LogAt(x)' = LogAt(x)
      BY <3>1 DEF LogAt
    <3> QED BY <2>1, <3>1, <3>2 DEF KeyInv, KeysRight, KeysThere, KeysComing, HasToken,
                                HasAccount, SameEvents
  <2>4. CASE ~Crash
    <3>1. puts' = puts
      BY <1>4, <2>4 DEF Next, Work, Fail, Start, FetchChunk, ChunkDone, Poll, PollDone, StartFails,
               FetchChunkFails, PollFails, MineBlock, vars, process
    <3> QED BY <2>1, <2>2, <3>1, AsideKeys
  <2> QED BY <2>3, <2>4
<1> QED BY <1>1, <1>2, <1>3, <1>4

-----------------------------------------------------------------------------
(* The list while it is collected *)

\* The log is asked for, whatever its type.
Wanted(q, log) ==
    IF q.query = "events" THEN IsTransfer(log)
    ELSE IF q.token THEN SaysToken(log)
    ELSE ~IsTransfer(log) /\ (q.address # NoOne => SaysAccount(log) = q.address)

Matches(q, log) == OfType(q, log) /\ Wanted(q, log)

EventQueries == {"events", "protocolEvents"}

LEMMA RequestKinds ==
    /\ \A q \in EventRequests : q.query \in EventQueries /\ q.limit \in Nat \ {0} /\ q # NoRequest
    /\ \A q \in CountryRequests : q.query = "identities" /\ q # NoRequest
    /\ NoRequest.query = "none"
<1>1. NoRequest.query = "none"
  BY DEF NoRequest
<1>2. ASSUME NEW q \in EventRequests PROVE q.query \in EventQueries /\ q.limit \in Nat \ {0}
  BY <1>2, QueryAssumption DEF EventRequests, TransferRequests, EventQueries
<1>3. ASSUME NEW q \in CountryRequests PROVE q.query = "identities"
  BY <1>3 DEF CountryRequests
<1>4. \A q : q.query \in EventQueries \/ q.query = "identities" => q # NoRequest
  BY <1>1 DEF EventQueries
<1> QED BY <1>1, <1>2, <1>3, <1>4

\* The tokenId of an event, in its row and in its log.
OwedByToken(log) ==
    /\ OfToken(log) /\ ~IsTransfer(log)
    /\ log.kind \notin {"UnitMinted", "GroupCreated", "DividendClaimed"}

LEMMA TokenSaid ==
    ASSUME NEW log \in Log
    PROVE  /\ SaysToken(log) => OwedByToken(log)
           /\ LeavesEvent(log) /\ OwedByToken(log) => SaysToken(log)
<1>1. log.kind \in Kinds /\ (LeavesEvent(log) => log.kind # "TransferBatch")
  BY SaidByKind DEF LeavesEvent
<1> QED BY <1>1 DEF OwedByToken, Kinds, SaysToken, OfToken, IsTransfer, FreezeLogs, Notices, TokenNotices,
                    AccountNotices, TokenAccountNotices, GroupNotices, OtherTokenNotices

\* The account of an event, in its row and in its log.
OwedByAddress(log, a) ==
    /\ a \in {log.from, log.to}
    /\ log.kind # "UnitMinted"
    /\ log.kind = "WalletRecovered" => log.to = a
    /\ log.kind = "IdentityBound" => log.from = a

LEMMA AccountSaid ==
    ASSUME NEW log \in Log, ~IsTransfer(log), NEW a, a # NoOne
    PROVE  /\ SaysAccount(log) = a => OwedByAddress(log, a)
           /\ LeavesEvent(log) /\ OwedByAddress(log, a) => SaysAccount(log) = a
<1> USE DEF OwedByAddress
<1>1. CASE log.kind \in {"WalletRecovered", "IdentityBound", "UnitMinted", "TransferBatch"}
  BY <1>1 DEF SaysAccount, LeavesEvent, TokenNotices, GroupNotices
<1>2. CASE log.kind \notin {"WalletRecovered", "IdentityBound", "UnitMinted", "TransferBatch"}
  <2>1. log.to = NoOne
    BY <1>2 DEF Log, LogsOf, IsTransfer, TokenNotices, AccountNotices, TokenAccountNotices,
                GroupNotices, OtherTokenNotices
  <2>2. log.kind \in {"URI"} \cup TokenNotices \cup GroupNotices => log.from = NoOne
    BY DEF Log, LogsOf, TokenNotices, AccountNotices, TokenAccountNotices, GroupNotices, OtherTokenNotices
  <2> QED BY <1>2, <2>1, <2>2 DEF SaysAccount
<1> QED BY <1>1, <1>2

\* What matches was asked for, the address beside a tokenId set aside, and what was
\* asked for matches but for what is passed over.
LEMMA MatchesAreAsked ==
    ASSUME NEW q \in EventRequests, NEW log \in Log
    PROVE  /\ Matches(q, log) => AskedFor(Heeded(q), log) /\ ~PassedOver(q, log)
           /\ LeavesEvent(log) /\ AskedFor(q, log) => Matches(q, log) \/ PassedOver(q, log)
<1>1. CASE q.query = "events"
  <2>1. Heeded(q) = q
    BY <1>1 DEF Heeded
  <2> QED BY <1>1, <2>1 DEF Matches, Wanted, AskedFor, PassedOver
<1>2. CASE q.query = "protocolEvents" /\ q.token
  <2>1. Heeded(q) = [q EXCEPT !.address = NoOne]
    BY <1>2 DEF Heeded
  <2>2. /\ Heeded(q).query = q.query /\ Heeded(q).token = q.token
        /\ Heeded(q).type = q.type /\ Heeded(q).address = NoOne
    BY <1>2, <2>1 DEF EventRequests, TransferRequests
  <2>3. OfType(Heeded(q), log) <=> OfType(q, log)
    BY <2>2 DEF OfType
  <2> QED BY <1>2, <2>2, <2>3, TokenSaid DEF OwedByToken, Matches, Wanted, AskedFor, PassedOver
<1>3. CASE q.query = "protocolEvents" /\ ~q.token
  <2>1. Heeded(q) = q
    BY <1>3 DEF Heeded
  <2>2. CASE q.address = NoOne
    BY <1>3, <2>1, <2>2 DEF Matches, Wanted, AskedFor, PassedOver
  <2>3. CASE q.address # NoOne
    <3>1. ~IsTransfer(log) =>
            /\ SaysAccount(log) = q.address => OwedByAddress(log, q.address)
            /\ LeavesEvent(log) /\ OwedByAddress(log, q.address) => SaysAccount(log) = q.address
      BY <2>3, AccountSaid
    <3> QED BY <1>3, <2>1, <2>3, <3>1 DEF OwedByAddress, Matches, Wanted, AskedFor, PassedOver
  <2> QED BY <2>2, <2>3
<1> QED BY <1>1, <1>2, <1>3, RequestKinds DEF EventQueries

LEMMA OnChainIn ==
    ASSUME IInv, NEW id
    PROVE  id \in LogsIn(1, Len(chain)) <=> id \in LogIds /\ OnChain(id)
  BY DEF LogsIn, LogIds, OnChain

\* A key leads to what is asked for.
LEMMA RowsWanted ==
    ASSUME IInv, KeyInv, NEW q \in EventRequests, NEW id \in EventRows(q)
    PROVE  id \in LogIds /\ OnChain(id) /\ Wanted(q, LogAt(id))
<1>1. /\ id \in LogsIn(1, Len(chain))
      /\ IF q.query = "events" THEN db.event[id] /\ IsTransfer(LogAt(id))
         ELSE IF q.token THEN db.byToken[id]
         ELSE IF q.address # NoOne THEN db.byAddress[id] = q.address
         ELSE db.event[id] /\ ~IsTransfer(LogAt(id))
  BY DEF EventRows
<1>2. id \in LogIds /\ OnChain(id)
  BY <1>1, OnChainIn
<1>3. /\ db.byToken[id] => SaysToken(LogAt(id))
      /\ db.byAddress[id] # NoOne => db.byAddress[id] = KeyAccount(LogAt(id))
  BY <1>2 DEF KeyInv, KeysRight
<1>4. KeyAccount(LogAt(id)) # NoOne =>
        ~IsTransfer(LogAt(id)) /\ SaysAccount(LogAt(id)) = KeyAccount(LogAt(id))
  BY DEF KeyAccount
<1>5. Wanted(q, LogAt(id))
  BY <1>1, <1>3, <1>4 DEF Wanted
<1> QED BY <1>2, <1>5

\* A row that is there, with its keys, is found.
LEMMA WantedInRows ==
    ASSUME IInv, KeyInv, NEW q \in EventRequests,
           NEW id \in LogIds, OnChain(id), db.event[id], id # current, Wanted(q, LogAt(id))
    PROVE  id \in EventRows(q)
<1>1. id \in LogsIn(1, Len(chain))
  BY OnChainIn
<1>2. HasToken(id) /\ HasAccount(id)
  BY DEF KeyInv, KeysThere
<1>3. CASE q.query = "events"
  BY <1>1, <1>3 DEF Wanted, EventRows
<1>4. CASE q.query # "events" /\ q.token
  BY <1>1, <1>2, <1>4 DEF Wanted, EventRows, HasToken
<1>5. CASE q.query # "events" /\ ~q.token /\ q.address # NoOne
  <2>1. KeyAccount(LogAt(id)) = q.address
    BY <1>5 DEF Wanted, KeyAccount
  <2> QED BY <1>1, <1>2, <1>5, <2>1 DEF EventRows, HasAccount
<1>6. CASE q.query # "events" /\ ~q.token /\ q.address = NoOne
  BY <1>1, <1>6 DEF Wanted, EventRows
<1> QED BY <1>3, <1>4, <1>5, <1>6

\* What is still to be visited comes before what was collected.
EventListing ==
    request.query \in EventQueries =>
        /\ request \in EventRequests
        /\ rows \subseteq LogIds
        /\ \A id \in rows : OnChain(id) /\ Wanted(request, LogAt(id))
        /\ answer \in Seq(LogIds) /\ Len(answer) <= request.limit
        /\ \A i \in 1..Len(answer) : OnChain(answer[i]) /\ Matches(request, LogAt(answer[i]))
        /\ \A i, j \in 1..Len(answer) :
              i < j => answer[i] # answer[j] /\ NotAfter(answer[i], answer[j])
        /\ \A id \in rows, i \in 1..Len(answer) : id # answer[i] /\ NotAfter(id, answer[i])
        /\ due \subseteq LogIds
        /\ \A id \in due :
              /\ OnChain(id) /\ db.event[id] /\ AskedFor(request, LogAt(id))
              /\ Matches(request, LogAt(id)) =>
                   id \in rows \/ \E i \in 1..Len(answer) : answer[i] = id

EmptyHanded == Idle => answer = <<>>

ReaderInv == EventListing /\ EmptyHanded

LEMMA AskEventsListing == IInv /\ KeyInv /\ ReaderInv /\ AskEvents => ReaderInv'
<1> SUFFICES ASSUME IInv, KeyInv, ReaderInv, AskEvents PROVE ReaderInv'
  OBVIOUS
<1>1. PICK q \in EventRequests :
        /\ request' = q /\ rows' = EventRows(q)
        /\ due' = {id \in LogsIn(1, Len(chain)) :
                      db.event[id] /\ id # current /\ AskedFor(q, LogAt(id))}
  BY DEF AskEvents
<1>2. answer' = <<>> /\ db' = db /\ chain' = chain
  BY DEF AskEvents, vars, ReaderInv, EmptyHanded
<1>3. q.limit \in Nat /\ q # NoRequest
  BY RequestKinds
<1>4. \A id \in rows' : id \in LogIds /\ OnChain(id) /\ Wanted(q, LogAt(id))
  BY <1>1, RowsWanted
<1>5. \A id \in due' : /\ id \in LogIds /\ OnChain(id) /\ db.event[id] /\ AskedFor(q, LogAt(id))
                       /\ Matches(q, LogAt(id)) => id \in rows'
  BY <1>1, OnChainIn, WantedInRows DEF Matches
<1>6. EventListing'
  <2>1. \A id \in LogIds : (OnChain(id)' <=> OnChain(id)) /\ LogAt(id)' = LogAt(id)
    BY <1>2 DEF OnChain, LogAt
  <2> QED BY <1>1, <1>2, <1>3, <1>4, <1>5, <2>1 DEF EventListing
<1>7. EmptyHanded'
  BY <1>2 DEF EmptyHanded
<1> QED BY <1>6, <1>7 DEF ReaderInv

LEMMA VisitEventListing == IInv /\ ReaderInv /\ VisitEvent => ReaderInv'
<1> SUFFICES ASSUME IInv, ReaderInv, VisitEvent PROVE ReaderInv'
  OBVIOUS
<1>1. PICK id \in rows :
        /\ \A other \in rows : NotAfter(other, id)
        /\ rows' = rows \ {id}
        /\ answer' = IF db.event[id] /\ OfType(request, LogAt(id)) THEN <<id>> \o answer ELSE answer
  BY DEF VisitEvent
<1>2. /\ request.query \in EventQueries /\ Len(answer) < request.limit
      /\ request' = request /\ due' = due /\ db' = db /\ chain' = chain
  BY DEF VisitEvent, Asking, vars, EventQueries
<1>3. /\ request \in EventRequests
      /\ rows \subseteq LogIds
      /\ \A x \in rows : OnChain(x) /\ Wanted(request, LogAt(x))
      /\ answer \in Seq(LogIds)
      /\ \A i \in 1..Len(answer) : OnChain(answer[i]) /\ Matches(request, LogAt(answer[i]))
      /\ \A i, j \in 1..Len(answer) :
            i < j => answer[i] # answer[j] /\ NotAfter(answer[i], answer[j])
      /\ \A x \in rows, i \in 1..Len(answer) : x # answer[i] /\ NotAfter(x, answer[i])
      /\ due \subseteq LogIds
      /\ \A x \in due :
            /\ OnChain(x) /\ db.event[x] /\ AskedFor(request, LogAt(x))
            /\ Matches(request, LogAt(x)) =>
                   x \in rows \/ \E i \in 1..Len(answer) : answer[i] = x
  BY <1>2 DEF ReaderInv, EventListing
<1>4. request.limit \in Nat /\ request # NoRequest
  BY <1>3, RequestKinds
<1>5. PICK list : list = answer'
  OBVIOUS
<1>6. /\ list \in Seq(LogIds) /\ Len(list) <= request.limit
      /\ \A i \in 1..Len(list) : OnChain(list[i]) /\ Matches(request, LogAt(list[i]))
      /\ \A i, j \in 1..Len(list) : i < j => list[i] # list[j] /\ NotAfter(list[i], list[j])
      /\ \A x \in rows \ {id}, i \in 1..Len(list) : x # list[i] /\ NotAfter(x, list[i])
      /\ \A i \in 1..Len(answer) : \E j \in 1..Len(list) : list[j] = answer[i]
      /\ db.event[id] /\ Matches(request, LogAt(id)) => \E j \in 1..Len(list) : list[j] = id
  <2>1. CASE db.event[id] /\ OfType(request, LogAt(id))
    <3>1. Matches(request, LogAt(id)) /\ OnChain(id) /\ id \in LogIds
      BY <1>3, <2>1 DEF Matches
    <3>2. list = <<id>> \o answer
      BY <1>1, <1>5, <2>1
    <3>3. /\ list \in Seq(LogIds) /\ Len(list) = Len(answer) + 1 /\ list[1] = id
          /\ \A i \in 1..Len(answer) : i + 1 \in 1..Len(list) /\ list[i + 1] = answer[i]
          /\ \A i \in 1..Len(list) : i # 1 => i - 1 \in 1..Len(answer) /\ list[i] = answer[i - 1]
          /\ 1 \in 1..Len(list) /\ Len(answer) \in Nat
      BY <1>3, <3>1, <3>2
    <3>4. Len(list) <= request.limit
      BY <1>2, <1>4, <3>3
    <3>5. ASSUME NEW i \in 1..Len(list)
          PROVE  /\ OnChain(list[i]) /\ Matches(request, LogAt(list[i]))
                 /\ \A x \in rows \ {id} : x # list[i] /\ NotAfter(x, list[i])
      <4>1. CASE i = 1
        <5>1. list[i] = id /\ \A x \in rows \ {id} : x # id /\ NotAfter(x, id)
          BY <1>1, <3>3, <4>1
        <5> QED BY <3>1, <5>1
      <4>2. CASE i # 1
        <5>1. i - 1 \in 1..Len(answer) /\ list[i] = answer[i - 1]
          BY <3>3, <4>2
        <5>2. OnChain(answer[i - 1]) /\ Matches(request, LogAt(answer[i - 1]))
          BY <1>3, <5>1
        <5>3. \A x \in rows \ {id} : x # answer[i - 1] /\ NotAfter(x, answer[i - 1])
          BY <1>3, <5>1
        <5> QED BY <5>1, <5>2, <5>3
      <4> QED BY <4>1, <4>2
    <3>6. ASSUME NEW i \in 1..Len(list), NEW j \in 1..Len(list), i < j
          PROVE  list[i] # list[j] /\ NotAfter(list[i], list[j])
      <4>1. j - 1 \in 1..Len(answer) /\ list[j] = answer[j - 1]
        BY <3>3, <3>6
      <4>2. CASE i = 1
        BY <1>3, <3>3, <4>1, <4>2
      <4>3. CASE i # 1
        <5>1. i - 1 \in 1..Len(answer) /\ list[i] = answer[i - 1] /\ i - 1 < j - 1
          BY <3>3, <3>6, <4>3
        <5> QED BY <1>3, <4>1, <5>1
      <4> QED BY <4>2, <4>3
    <3> QED BY <3>3, <3>4, <3>5, <3>6
  <2>2. CASE ~(db.event[id] /\ OfType(request, LogAt(id)))
    <3>1. list = answer /\ ~(db.event[id] /\ Matches(request, LogAt(id)))
      BY <1>1, <1>5, <2>2 DEF Matches
    <3>2. Len(list) <= request.limit
      BY <1>2, <1>3, <1>4, <3>1
    <3> QED BY <1>3, <3>1, <3>2
  <2> QED BY <2>1, <2>2
<1>7. EventListing'
  <2>1. \A x \in LogIds : (OnChain(x)' <=> OnChain(x)) /\ LogAt(x)' = LogAt(x)
    BY <1>2 DEF OnChain, LogAt
  <2>2. \A x \in due : Matches(request, LogAt(x)) => x \in rows \ {id} \/ \E i \in 1..Len(list) : list[i] = x
    BY <1>3, <1>6
  <2>3. \A i \in 1..Len(list) : list[i] \in LogIds
    BY <1>6
  <2> SUFFICES
        /\ request \in EventRequests
        /\ rows \ {id} \subseteq LogIds
        /\ \A x \in rows \ {id} : OnChain(x)' /\ Wanted(request, LogAt(x)')
        /\ list \in Seq(LogIds) /\ Len(list) <= request.limit
        /\ \A i \in 1..Len(list) : OnChain(list[i])' /\ Matches(request, LogAt(list[i])')
        /\ \A i, j \in 1..Len(list) : i < j => list[i] # list[j] /\ NotAfter(list[i], list[j])
        /\ \A x \in rows \ {id}, i \in 1..Len(list) : x # list[i] /\ NotAfter(x, list[i])
        /\ due \subseteq LogIds
        /\ \A x \in due :
              /\ OnChain(x)' /\ db.event[x] /\ AskedFor(request, LogAt(x)')
              /\ Matches(request, LogAt(x)') =>
                   x \in rows \ {id} \/ \E i \in 1..Len(list) : list[i] = x
    <3>1. /\ request' = request /\ rows' = rows \ {id} /\ answer' = list /\ due' = due
          /\ db' = db /\ chain' = chain
      BY <1>1, <1>2, <1>5
    <3> QED BY <3>1, Zenon DEF EventListing, OnChain, LogAt
  <2>4. \A x \in rows \ {id} : OnChain(x)' /\ Wanted(request, LogAt(x)')
    BY <1>3, <2>1
  <2>5. \A i \in 1..Len(list) : OnChain(list[i])' /\ Matches(request, LogAt(list[i])')
    BY <1>6, <2>1, <2>3
  <2>6. \A x \in due : /\ OnChain(x)' /\ db.event[x] /\ AskedFor(request, LogAt(x)')
                       /\ LogAt(x)' = LogAt(x)
    BY <1>3, <2>1
  <2>7. request \in EventRequests /\ rows \ {id} \subseteq LogIds /\ due \subseteq LogIds
    BY <1>3
  <2> QED BY <1>6, <2>2, <2>4, <2>5, <2>6, <2>7
<1>8. EmptyHanded'
  BY <1>2, <1>4 DEF EmptyHanded, Idle
<1> QED BY <1>7, <1>8 DEF ReaderInv

\* The chain and the rows grow under the list.
LEMMA AsideListing ==
    ASSUME IInv, QueryInv, PutsInOrder, RowsInv, ReaderInv, [Next]_vars,
           UNCHANGED <<request, rows, answer>>, due' \subseteq due
    PROVE  ReaderInv'
<1>1. ASSUME NEW x \in LogIds, OnChain(x) PROVE OnChain(x)' /\ LogAt(x)' = LogAt(x)
  BY <1>1, OnChainStays
<1>2. ASSUME NEW x \in LogIds, db.event[x] PROVE db'.event[x]
  <2>1. CASE WriteNext
    <3>1. current \in LogIds /\ db \in Store
      BY <2>1, NumbersTyped DEF WriteNext, IInv, TypeOK
    <3> QED BY <1>2, <2>1, <3>1, WriteNextEffect DEF WritesRecord, WritesEvent, WritesKey, SameEvents, Store
  <2>2. CASE SameEvents(db, db')
    BY <1>2, <2>2 DEF SameEvents
  <2> QED BY <2>1, <2>2, OnlyWriteNext
<1>3. EventListing'
  <2> SUFFICES ASSUME request.query \in EventQueries
               PROVE
        /\ request \in EventRequests
        /\ rows \subseteq LogIds
        /\ \A x \in rows : OnChain(x)' /\ Wanted(request, LogAt(x)')
        /\ answer \in Seq(LogIds) /\ Len(answer) <= request.limit
        /\ \A i \in 1..Len(answer) : OnChain(answer[i])' /\ Matches(request, LogAt(answer[i])')
        /\ \A i, j \in 1..Len(answer) :
              i < j => answer[i] # answer[j] /\ NotAfter(answer[i], answer[j])
        /\ \A x \in rows, i \in 1..Len(answer) : x # answer[i] /\ NotAfter(x, answer[i])
        /\ due' \subseteq LogIds
        /\ \A x \in due' :
              /\ OnChain(x)' /\ db'.event[x] /\ AskedFor(request, LogAt(x)')
              /\ Matches(request, LogAt(x)') =>
                   x \in rows \/ \E i \in 1..Len(answer) : answer[i] = x
    BY DEF EventListing
  <2>1. /\ request \in EventRequests
        /\ rows \subseteq LogIds
        /\ \A x \in rows : OnChain(x) /\ Wanted(request, LogAt(x))
        /\ answer \in Seq(LogIds) /\ Len(answer) <= request.limit
        /\ \A i \in 1..Len(answer) : OnChain(answer[i]) /\ Matches(request, LogAt(answer[i]))
        /\ \A i, j \in 1..Len(answer) :
              i < j => answer[i] # answer[j] /\ NotAfter(answer[i], answer[j])
        /\ \A x \in rows, i \in 1..Len(answer) : x # answer[i] /\ NotAfter(x, answer[i])
        /\ due \subseteq LogIds
        /\ \A x \in due :
              /\ OnChain(x) /\ db.event[x] /\ AskedFor(request, LogAt(x))
              /\ Matches(request, LogAt(x)) =>
                   x \in rows \/ \E i \in 1..Len(answer) : answer[i] = x
    BY DEF ReaderInv, EventListing
  <2>2. \A i \in 1..Len(answer) : answer[i] \in LogIds
    BY <2>1
  <2>3. \A x \in rows : OnChain(x)' /\ Wanted(request, LogAt(x)')
    BY <1>1, <2>1
  <2>4. \A i \in 1..Len(answer) : OnChain(answer[i])' /\ Matches(request, LogAt(answer[i])')
    BY <1>1, <2>1, <2>2
  <2>5. \A x \in due' : /\ OnChain(x)' /\ db'.event[x] /\ AskedFor(request, LogAt(x)')
                        /\ LogAt(x)' = LogAt(x) /\ x \in due
    BY <1>1, <1>2, <2>1
  <2> QED BY <2>1, <2>3, <2>4, <2>5
<1>4. EmptyHanded'
  BY DEF ReaderInv, EmptyHanded, Idle
<1> QED BY <1>3, <1>4 DEF ReaderInv

ListInv == IInv /\ QueryInv /\ PutsInOrder /\ RowsInv /\ KeyInv /\ ReaderInv

LEMMA InitListInv == QueryInit => ListInv
<1> SUFFICES ASSUME QueryInit PROVE ListInv
  OBVIOUS
<1>1. /\ Init /\ db = EmptyStore /\ current = NoLog
      /\ request = NoRequest /\ answer = <<>>
  BY DEF QueryInit, ReaderInit, Init, StoreInit
<1>2. IInv /\ QueryInv /\ PutsInOrder /\ RowsInv
  BY <1>1, InitIInv, InitQueryInv, InitRowsInv
<1>3. KeyInv
  BY <1>1 DEF KeyInv, KeysRight, KeysThere, KeysComing, EmptyStore
<1>4. ReaderInv
  <2>1. request.query \notin EventQueries
    BY <1>1, RequestKinds DEF EventQueries
  <2> QED BY <1>1, <2>1 DEF ReaderInv, EventListing, EmptyHanded
<1> QED BY <1>2, <1>3, <1>4 DEF ListInv

LEMMA StepListInv == ListInv /\ [QueryNext]_queryVars => ListInv'
<1> SUFFICES ASSUME ListInv, [QueryNext]_queryVars PROVE ListInv'
  OBVIOUS
<1>1. IInv /\ QueryInv /\ PutsInOrder /\ RowsInv /\ KeyInv /\ ReaderInv
  BY DEF ListInv
<1>2. [Next]_vars /\ (Crash => Resting)
  BY <1>1, QueryStep
<1>3. (IInv /\ QueryInv /\ PutsInOrder /\ RowsInv /\ KeyInv)'
  BY <1>1, <1>2, StepIInv, StepQueryInv, StepPutsInOrder, StepRowsInv, StepKeyInv
<1>4. CASE IndexerWorks \/ MineWhileReading(Traffic) \/ UNCHANGED queryVars
  <2>1. UNCHANGED <<request, rows, answer>> /\ due' \subseteq due
    BY <1>4 DEF IndexerWorks, MineWhileReading, queryVars, reader
  <2> QED BY <1>1, <1>2, <1>3, <2>1, AsideListing DEF ListInv
<1>5. CASE AskEvents
  BY <1>1, <1>3, <1>5, AskEventsListing DEF ListInv
<1>6. CASE VisitEvent
  BY <1>1, <1>3, <1>6, VisitEventListing DEF ListInv
<1>7. CASE AskByCountry \/ VisitWallet
  <2>1. request'.query = "identities" /\ request' # NoRequest
    <3>1. CASE AskByCountry
      BY <3>1, RequestKinds DEF AskByCountry
    <3>2. CASE VisitWallet
      BY <3>2, RequestKinds DEF VisitWallet, Asking
    <3> QED BY <1>7, <3>1, <3>2
  <2> QED BY <1>3, <2>1 DEF ListInv, ReaderInv, EventListing, EmptyHanded, Idle, EventQueries
<1>8. CASE Deliver
  <2>1. request'.query = "none" /\ answer' = <<>>
    BY <1>8, RequestKinds DEF Deliver
  <2> QED BY <1>3, <2>1 DEF ListInv, ReaderInv, EventListing, EmptyHanded, EventQueries
<1> QED BY <1>4, <1>5, <1>6, <1>7, <1>8 DEF QueryNext, Read

LEMMA LogIdsFinite == IsFiniteSet(LogIds)
<1>1. IsFiniteSet(1..MaxBlocks) /\ IsFiniteSet(1..MaxLogs)
  BY ChainAssumption, FS_Interval
<1> QED BY <1>1, FS_Product DEF LogIds

LEMMA TransfersFinite ==
    /\ Transfers \subseteq LogIds /\ IsFiniteSet(Transfers)
    /\ \A id \in Transfers : Cardinality(NewerTransfers(id)) \in Nat
<1>1. Transfers \subseteq LogIds
  BY DEF Transfers, LogsIn
<1>2. \A S \in SUBSET Transfers : IsFiniteSet(S)
  BY <1>1, LogIdsFinite, FS_Subset
<1>3. ASSUME NEW id \in Transfers PROVE Cardinality(NewerTransfers(id)) \in Nat
  <2>1. NewerTransfers(id) \in SUBSET Transfers
    BY DEF NewerTransfers
  <2> QED BY <1>2, <2>1, FS_CardinalityType
<1> QED BY <1>1, <1>2, <1>3

OwnTransfer(id) == id \in Transfers /\ LogAt(id).kind \notin OtherTokenNotices

\* The events of the token are its own, and leave out one of them only when the
\* limit is filled or newer transfers of all tokens fill what is gone through.
LEMMA TokenEventsFilled ==
    ASSUME IInv, NEW limit \in Nat
    PROVE  /\ \A id \in TokenEvents(limit) : OwnTransfer(id)
           /\ \A id \in Transfers :
                 OwnTransfer(id) /\ id \notin TokenEvents(limit) =>
                   \/ Cardinality(TokenEvents(limit)) = limit
                   \/ Cardinality(NewerTransfers(id)) >= Overscan * limit
<1> DEFINE newest == {id \in Transfers : Cardinality(NewerTransfers(id)) < Overscan * limit}
           own == {id \in newest : LogAt(id).kind \notin OtherTokenNotices}
           R == {x \in own \X own : NotAfter(x[1], x[2])}
           listed == {id \in own : Cardinality({other \in own : NotAfter(other, id)}) <= limit}
<1>1. TokenEvents(limit) = listed
  BY DEF TokenEvents
<1>2. own \subseteq LogIds /\ IsFiniteSet(own)
  <2>1. own \in SUBSET Transfers
    OBVIOUS
  <2> QED BY <2>1, TransfersFinite, FS_Subset
<1>3. \A a, b \in own : <<a, b>> \in R <=> NotAfter(a, b)
  OBVIOUS
<1>4. \A id \in own : OwnTransfer(id)
  BY DEF OwnTransfer
<1>5. ASSUME NEW id \in Transfers, OwnTransfer(id), id \notin own
      PROVE  Cardinality(NewerTransfers(id)) >= Overscan * limit
  <2>1. ~(Cardinality(NewerTransfers(id)) < Overscan * limit)
    BY <1>5 DEF OwnTransfer
  <2>2. Cardinality(NewerTransfers(id)) \in Nat /\ Overscan * limit \in Nat
    BY TransfersFinite, QueryAssumption
  <2> HIDE DEF own, newest
  <2> QED BY <2>1, <2>2
<1> HIDE DEF own, newest, R
<1>6. IsOrder(R, own)
  <2>1. ASSUME NEW a \in own, NEW b \in own, NEW c \in own
        PROVE  /\ NotAfter(a, a)
               /\ NotAfter(a, b) \/ NotAfter(b, a)
               /\ NotAfter(a, b) /\ NotAfter(b, c) => NotAfter(a, c)
               /\ NotAfter(a, b) /\ NotAfter(b, a) => a = b
    BY <1>2, OrderOfLogs
  <2> QED BY <1>3, <2>1 DEF IsOrder
<1>7. listed = First(R, own, limit)
  <2>1. ASSUME NEW x \in own PROVE {other \in own : NotAfter(other, x)} = Upto(R, own, x)
    BY <1>3 DEF Upto
  <2> QED BY <2>1, Zenon DEF First
<1> HIDE DEF listed
<1>8. /\ listed \subseteq own
      /\ listed = own \/ Cardinality(listed) = limit
  <2>1. Cardinality(own) \in Nat
    BY <1>2, FS_CardinalityType
  <2> QED BY <1>2, <1>6, <1>7, <2>1, FirstOnes
<1> QED BY <1>1, <1>4, <1>5, <1>8

LEMMA EventsListed == ListInv => EventAnswersComplete
<1> DEFINE listed == TokenEvents(request.limit)
           crowded(id) == Cardinality(NewerTransfers(id)) >= Overscan * request.limit
<1> SUFFICES ASSUME ListInv, Answered(EventQueries)
             PROVE
        /\ \A i, j \in 1..Len(answer) : i < j => answer[i] # answer[j] /\ NotAfter(answer[i], answer[j])
        /\ \A i \in 1..Len(answer) :
              AskedFor(Heeded(request), LogAt(answer[i])) /\ ~PassedOver(request, LogAt(answer[i]))
        /\ \A id \in due \ Range(answer) :
              \/ PassedOver(request, LogAt(id))
              \/ Len(answer) = request.limit /\ \A i \in 1..Len(answer) : NotAfter(id, answer[i])
        /\ request.query = "events" =>
              /\ \A id \in listed : IsTransfer(LogAt(id)) /\ OfToken(LogAt(id))
              /\ \A id \in due \ listed :
                    OfToken(LogAt(id)) => Cardinality(listed) = request.limit \/ crowded(id)
  BY DEF EventAnswersComplete, EventQueries
<1> HIDE DEF listed, crowded
<1>1. /\ request \in EventRequests
      /\ answer \in Seq(LogIds)
      /\ \A i \in 1..Len(answer) : OnChain(answer[i]) /\ Matches(request, LogAt(answer[i]))
      /\ \A i, j \in 1..Len(answer) :
            i < j => answer[i] # answer[j] /\ NotAfter(answer[i], answer[j])
      /\ \A x \in rows, i \in 1..Len(answer) : x # answer[i] /\ NotAfter(x, answer[i])
      /\ due \subseteq LogIds
      /\ \A x \in due :
            /\ OnChain(x) /\ db.event[x] /\ AskedFor(request, LogAt(x))
            /\ Matches(request, LogAt(x)) =>
                   x \in rows \/ \E i \in 1..Len(answer) : answer[i] = x
  BY DEF Answered, ListInv, ReaderInv, EventListing
<1>2. rows = {} \/ Len(answer) = request.limit
  BY DEF Answered
<1>3. \A id \in LogIds :
        /\ OnChain(id) => LogAt(id) \in Log
        /\ db.event[id] => LeavesEvent(LogAt(id))
  <2>1. IInv /\ TypeOK /\ KeyInv
    BY DEF ListInv, IInv
  <2> QED BY <2>1, LogOnChain, OnChainIn DEF KeyInv, KeysRight
<1>4. ASSUME NEW i \in 1..Len(answer)
      PROVE  AskedFor(Heeded(request), LogAt(answer[i])) /\ ~PassedOver(request, LogAt(answer[i]))
  <2>1. LogAt(answer[i]) \in Log
    BY <1>1, <1>3
  <2> QED BY <1>1, <2>1, MatchesAreAsked
<1>5. ASSUME NEW id \in due, id \notin Range(answer), ~PassedOver(request, LogAt(id))
      PROVE  Len(answer) = request.limit /\ \A i \in 1..Len(answer) : NotAfter(id, answer[i])
  <2>1. Matches(request, LogAt(id))
    <3>1. id \in LogIds /\ OnChain(id) /\ db.event[id] /\ AskedFor(request, LogAt(id))
      BY <1>1
    <3>2. LogAt(id) \in Log /\ LeavesEvent(LogAt(id))
      BY <1>3, <3>1
    <3> QED BY <1>1, <1>5, <3>1, <3>2, MatchesAreAsked
  <2>2. id \in rows
    BY <1>1, <1>5, <2>1 DEF Range
  <2> QED BY <1>1, <1>2, <2>2
<1>6. ASSUME request.query = "events"
      PROVE  /\ \A id \in listed : IsTransfer(LogAt(id)) /\ OfToken(LogAt(id))
             /\ \A id \in due \ listed :
                   OfToken(LogAt(id)) => Cardinality(listed) = request.limit \/ crowded(id)
  <2>1. IInv /\ request.limit \in Nat
    BY <1>1, RequestKinds DEF ListInv
  <2>2. ASSUME NEW id \in due PROVE id \in Transfers
    <3>1. id \in LogIds /\ OnChain(id) /\ db.event[id] /\ AskedFor(request, LogAt(id))
      BY <1>1
    <3> QED BY <1>6, <2>1, <3>1, OnChainIn DEF AskedFor, Transfers
  <2>3. ASSUME NEW id \in due, OfToken(LogAt(id)) PROVE OwnTransfer(id)
    BY <2>2, <2>3 DEF OfToken, OwnTransfer
  <2>4. ASSUME NEW id \in listed, OwnTransfer(id) PROVE IsTransfer(LogAt(id)) /\ OfToken(LogAt(id))
    <3>1. IsTransfer(LogAt(id)) /\ LogAt(id).kind \notin OtherTokenNotices
      BY <2>4 DEF OwnTransfer, Transfers
    <3> QED BY <3>1 DEF IsTransfer, OfToken
  <2> QED BY <2>1, <2>2, <2>3, <2>4, TokenEventsFilled DEF listed, crowded
<1> QED BY <1>1, <1>4, <1>5, <1>6

\* EventAnswersComplete: whatever the indexer writes while the keys are followed, the
\* list that GetRecentEvents or GetProtocolEvents collects is in the order of the chain,
\* has what was asked for, and of that leaves out nothing recorded but what PassedOver
\* names or newer events crowd out of the limit.  GetTokenEvents lists a token's own
\* transfers, all that the limit and the newest Overscan * limit of all tokens let in.
THEOREM EventAnswersHold == QuerySpec => []EventAnswersComplete
<1>1. QueryInit => ListInv
  BY InitListInv
<1>2. ListInv /\ [QueryNext]_queryVars => ListInv'
  BY StepListInv
<1>3. ListInv => EventAnswersComplete
  BY EventsListed
<1> QED BY <1>1, <1>2, <1>3, PTL DEF QuerySpec

-----------------------------------------------------------------------------
(* What is told of a wallet that no log names *)

Keeps(s, t, w) == t.identity[w] = s.identity[w] /\ t.country[w] = s.country[w]

LEMMA StepKeeps ==
    ASSUME CountriesTold, NEW s \in ContractState, NEW t \in ContractState, NEW log \in Log,
           Step(s, log, t), NEW w \in Wallets \ Named(log)
    PROVE  Keeps(s, t, w)
<1>1. SameBinding(s, t) => Keeps(s, t, w)
  BY DEF SameBinding, Keeps
<1>2. log.kind \in Kinds
  BY SaidByKind
<1>3. CASE log.kind \in {"Minted", "UnitMinted"}
  BY <1>1, <1>3 DEF Step, Gains, OnlyHeld
<1>4. CASE log.kind = "Burned"
  BY <1>1, <1>4 DEF Step, Loses, OnlyHeld
<1>5. CASE log.kind \in {"TransferSingle", "TransferBatch"}
  <2>1. CASE SupplyMove(log)
    BY <1>1, <2>1 DEF Step, NothingTold
  <2>2. CASE Moves(log)
    BY <1>1, <2>2 DEF Step, Sends, OnlyHeld
  <2> QED BY <1>5, <2>1, <2>2 DEF Moves
<1>6. CASE log.kind \in {"AssetRegistered", "URI", "AssetPaused", "AssetUnpaused"}
  BY <1>1, <1>6 DEF Step, Launches, Names, Pauses, OnlyLaunch
<1>7. CASE log.kind \in {"AssetFrozen", "WalletFrozen"}
  BY <1>1, <1>7 DEF Step, Freezes, FreezesWallet, OnlyFrozen
<1>8. CASE log.kind \in Notices \cup {"PartialFreeze", "LockupSet", "ForcedTransfer"}
  BY <1>1, <1>8 DEF Step, Tells, NothingTold
<1>9. s.identity \in [Wallets -> Identities \cup {NoOne}] /\ s.country \in [Wallets -> Nat]
  BY DEF ContractState
<1>10. CASE log.kind = "IdentityBound"
  <2>1. w # log.from
    BY <1>10 DEF Named
  <2>2. /\ t.identity = [s.identity EXCEPT ![log.from] = log.to]
        /\ t.country = [s.country EXCEPT ![log.from] = log.n]
    BY <1>10 DEF Step, Binds
  <2> QED BY <1>9, <2>1, <2>2 DEF Keeps
<1>11. CASE log.kind = "IdentityUnbound"
  <2>1. w # log.from
    BY <1>11 DEF Named
  <2>2. /\ t.identity = [s.identity EXCEPT ![log.from] = NoOne]
        /\ t.country = [s.country EXCEPT ![log.from] = 0]
    BY <1>11 DEF Step, Unbinds
  <2> QED BY <1>9, <2>1, <2>2 DEF Keeps
<1>12. CASE log.kind = "WalletRecovered"
  <2>1. w # log.from /\ w # log.to
    BY <1>12 DEF Named
  <2>2. /\ t.identity = [[s.identity EXCEPT ![log.to] = s.identity[log.from]]
                            EXCEPT ![log.from] = NoOne]
        /\ t.country = [[s.country EXCEPT ![log.to] = s.country[log.from]]
                           EXCEPT ![log.from] = 0]
    BY <1>12 DEF Step, Recovers
  <2> QED BY <1>9, <2>1, <2>2 DEF Keeps
<1> QED BY <1>2, <1>3, <1>4, <1>5, <1>6, <1>7, <1>8, <1>10, <1>11, <1>12 DEF Kinds, FreezeLogs

LEMMA WalkKeeps ==
    ASSUME CountriesTold, NEW list \in Seq(Log), NEW run \in Seq(ContractState), NEW a, NEW b,
           IsWalk(Steps, run, a, list, b), NEW w \in Wallets,
           NEW i \in 1..Len(run), NEW j \in i..Len(run),
           \A k \in i..(j - 1) : w \notin Named(list[k])
    PROVE  Keeps(run[i], run[j], w)
<1> DEFINE Bad == {k \in i..j : ~Keeps(run[i], run[k], w)}
<1>1. Len(run) \in Nat /\ Len(list) \in Nat /\ Len(run) = Len(list) + 1 /\ i \in Nat /\ j \in Nat
      /\ 1 <= i /\ i <= j /\ j <= Len(run)
  <2>1. Len(run) \in Nat /\ Len(list) \in Nat
    OBVIOUS
  <2>2. Len(run) = Len(list) + 1
    BY DEF IsWalk
  <2> QED BY <2>1, <2>2
<1> SUFFICES ASSUME Bad # {} PROVE FALSE
  BY <1>1
<1>2. PICK m \in Bad : \A k \in Bad : m <= k
  <2>1. Bad \in SUBSET (0..j)
    BY <1>1
  <2> HIDE DEF Bad
  <2> QED BY <1>1, <2>1, LeastNumber
<1>3. m \in i..j /\ ~Keeps(run[i], run[m], w)
  BY <1>2
<1>4. m # i
  BY <1>3 DEF Keeps
<1>5. m - 1 \in i..j /\ m - 1 \in i..(j - 1) /\ m - 1 \in 1..Len(list) /\ ~(m <= m - 1) /\ (m - 1) + 1 = m
      /\ m \in 1..Len(run) /\ m - 1 \in 1..Len(run)
  BY <1>1, <1>3, <1>4
<1>6. Keeps(run[i], run[m - 1], w)
  BY <1>2, <1>5
<1>7. Joins(Steps, run[m - 1], list[m - 1], run[m])
  BY <1>5 DEF IsWalk
<1>8. /\ run[m - 1] \in ContractState /\ run[m] \in ContractState /\ list[m - 1] \in Log
      /\ w \notin Named(list[m - 1])
  BY <1>5
<1>9. Step(run[m - 1], list[m - 1], run[m])
  <2> DEFINE x == <<run[m - 1], list[m - 1], run[m]>>
  <2>1. x \in Steps
    BY <1>7 DEF Joins
  <2>2. Step(x[1], x[2], x[3])
    BY <2>1 DEF Steps
  <2>3. x[1] = run[m - 1] /\ x[2] = list[m - 1] /\ x[3] = run[m]
    OBVIOUS
  <2> HIDE DEF x
  <2> QED BY <2>2, <2>3
<1>10. Keeps(run[m - 1], run[m], w)
  BY <1>8, <1>9, StepKeeps
<1> QED BY <1>3, <1>6, <1>10 DEF Keeps

\* To the end of a block, when none of its logs from the i-th on names the wallet.
LEMMA RestOfBlockKeeps ==
    ASSUME IInv, ChainRuns, CountriesTold, NEW w \in Wallets,
           NEW b \in 1..Len(chain), NEW run, Replay(b, run), NEW i \in 1..Len(run),
           \A k \in i..Len(chain[b].logs) : w \notin Named(chain[b].logs[k])
    PROVE  Keeps(run[i], StateAt(b), w)
<1> DEFINE list == chain[b].logs
<1>1. list \in Seq(Log)
  <2>1. chain[b] \in Block
    BY DEF IInv, TypeOK
  <2> QED BY <2>1 DEF Block
<1>2. /\ run \in Seq(ContractState) /\ Len(run) = Len(list) + 1
      /\ IsWalk(Steps, run, Seen(StateAt(b - 1)), list, Seen(StateAt(b)))
      /\ run[Len(run)] = Seen(StateAt(b))
  BY DEF Replay, IsWalk
<1>3. \A k \in i..Len(list) : w \notin Named(list[k])
  OBVIOUS
<1>4. StateAt(b) \in ContractState
  <2>1. b \in 0..Len(chain)
    BY NumbersTyped
  <2> QED BY <2>1, StateTyped DEF IInv
<1> HIDE DEF list
<1>5. Len(run) \in Nat /\ Len(list) \in Nat
  BY <1>1, <1>2
<1>6. Len(run) \in i..Len(run) /\ Len(run) - 1 = Len(list)
  BY <1>2, <1>5
<1>7. Keeps(run[i], run[Len(run)], w)
  BY <1>1, <1>2, <1>3, <1>6, WalkKeeps
<1> QED BY <1>2, <1>4, <1>7, SeenTyped

\* Over whole blocks.
LEMMA BlocksKeep ==
    ASSUME IInv, ChainRuns, CountriesTold, NEW w \in Wallets,
           NEW b \in 0..Len(chain), NEW c \in b..Len(chain),
           \A id \in LogIds : OnChain(id) /\ b < id[1] /\ id[1] <= c => w \notin Named(LogAt(id))
    PROVE  Keeps(StateAt(b), StateAt(c), w)
<1> DEFINE Bad == {k \in b..c : ~Keeps(StateAt(b), StateAt(k), w)}
<1>1. Len(chain) \in Nat /\ b \in Nat /\ c \in Nat /\ b <= c /\ c <= Len(chain)
  <2>1. Len(chain) \in Nat
    BY NumbersTyped
  <2> QED BY <2>1
<1> SUFFICES ASSUME Bad # {} PROVE FALSE
  BY <1>1
<1>2. PICK m \in Bad : \A k \in Bad : m <= k
  <2>1. Bad \in SUBSET (0..c)
    BY <1>1
  <2> HIDE DEF Bad
  <2> QED BY <1>1, <2>1, LeastNumber
<1>3. m \in b..c /\ ~Keeps(StateAt(b), StateAt(m), w)
  BY <1>2
<1>4. m # b
  BY <1>3 DEF Keeps
<1>5. m - 1 \in b..c /\ m \in 1..Len(chain) /\ m - 1 \in 0..Len(chain) /\ b < m /\ m <= c
      /\ ~(m <= m - 1)
  BY <1>1, <1>3, <1>4
<1>6. m - 1 \notin Bad
  BY <1>2, <1>5
<1>7. Keeps(StateAt(b), StateAt(m - 1), w)
  BY <1>5, <1>6
<1>8. PICK run : Replay(m, run)
  BY <1>5, BlockReplays
<1>9. StateAt(m - 1) \in ContractState
  BY <1>5, StateTyped DEF IInv
<1>10. run[1] = StateAt(m - 1) /\ 1 \in 1..Len(run)
  <2>1. Len(run) = Len(chain[m].logs) + 1 /\ run[1] = Seen(StateAt(m - 1)) /\ run \in Seq(ContractState)
    BY <1>8 DEF Replay, IsWalk
  <2>2. Len(chain[m].logs) \in Nat
    <3> DEFINE list == chain[m].logs
    <3>1. list \in Seq(Log)
      <4>1. chain[m] \in Block
        BY <1>5 DEF IInv, TypeOK
      <4> QED BY <4>1 DEF Block
    <3> HIDE DEF list
    <3>2. Len(list) \in Nat
      BY <3>1
    <3> QED BY <3>2 DEF list
  <2>3. 1 \in 1..Len(run)
    BY <2>1, <2>2
  <2> QED BY <1>9, <2>1, <2>3, SeenTyped
<1>11. \A k \in 1..Len(chain[m].logs) : w \notin Named(chain[m].logs[k])
  <2> SUFFICES ASSUME NEW k \in 1..Len(chain[m].logs) PROVE w \notin Named(chain[m].logs[k])
    OBVIOUS
  <2> DEFINE id == <<m, k>>
  <2>1. id \in LogIds /\ OnChain(id)
    BY <1>5, OfBlock
  <2>2. id[1] = m /\ id[2] = k
    OBVIOUS
  <2> HIDE DEF id
  <2>3. w \notin Named(LogAt(id))
    BY <1>5, <2>1, <2>2
  <2> QED BY <2>2, <2>3 DEF LogAt
<1>12. Keeps(run[1], StateAt(m), w)
  BY <1>5, <1>8, <1>10, <1>11, RestOfBlockKeeps
<1> QED BY <1>3, <1>7, <1>10, <1>12 DEF Keeps

\* A wallet that no log from block c on names is after every later log what it is
\* at block c.
LEMMA SettledKeeps ==
    ASSUME IInv, ChainRuns, CountriesTold, NEW p, NEW s, Reached(p, s), NEW w \in Wallets,
           NEW c \in 0..Len(chain), AllBefore(p, c - 1),
           \A id \in LogIds : OnChain(id) /\ c <= id[1] => w \notin Named(LogAt(id))
    PROVE  Keeps(StateAt(c), s, w)
<1>1. Len(chain) \in Nat /\ c \in Nat /\ c <= Len(chain) /\ p[1] \in 0..Len(chain) /\ p[2] \in Nat
  <2>1. Len(chain) \in Nat
    BY NumbersTyped
  <2> QED BY <2>1, ReachedTyped
<1>2. CASE p[1] < c
  <2>1. c - 1 \in 0..Len(chain) /\ p[1] <= c - 1 /\ c \in (c - 1)..Len(chain)
    BY <1>1, <1>2
  <2>2. s = Seen(StateAt(c - 1))
    BY <2>1, QuietTo
  <2>3. StateAt(c - 1) \in ContractState
    BY <2>1, StateTyped DEF IInv
  <2>4. \A id \in LogIds : OnChain(id) /\ c - 1 < id[1] /\ id[1] <= c => w \notin Named(LogAt(id))
    <3>1. \A id \in LogIds : id[1] \in Nat
      BY NumbersTyped
    <3> QED BY <1>1, <3>1
  <2>5. Keeps(StateAt(c - 1), StateAt(c), w)
    BY <2>1, <2>4, BlocksKeep
  <2> QED BY <2>2, <2>3, <2>5, SeenTyped DEF Keeps
<1>3. CASE p = NoLog /\ s = Seen(Genesis) /\ c <= p[1]
  <2>1. c = 0
    BY <1>1, <1>3 DEF NoLog
  <2>2. Genesis \in ContractState
    BY DEF Genesis, ContractState
  <2> QED BY <1>3, <2>1, <2>2, SeenTyped DEF Keeps, StateAt
<1>4. CASE p \in LogIds /\ OnChain(p) /\ c <= p[1] /\ \E run : Replay(p[1], run) /\ s = run[p[2] + 1]
  <2>1. PICK run : Replay(p[1], run) /\ s = run[p[2] + 1]
    BY <1>4
  <2> DEFINE b == p[1]
             k == p[2]
             list == chain[b].logs
  <2>2. b \in 1..Len(chain) /\ k \in 1..Len(list) /\ b \in c..Len(chain) /\ b \in Nat
    BY <1>1, <1>4 DEF OnChain, LogIds
  <2>3. list \in Seq(Log)
    <3>1. chain[b] \in Block
      BY <2>2 DEF IInv, TypeOK
    <3> QED BY <3>1 DEF Block
  <2>4. /\ run \in Seq(ContractState) /\ Len(run) = Len(list) + 1
        /\ IsWalk(Steps, run, Seen(StateAt(b - 1)), list, Seen(StateAt(b)))
        /\ run[1] = Seen(StateAt(b - 1))
    BY <2>1 DEF Replay, IsWalk
  <2>5. ASSUME NEW i \in 1..Len(list) PROVE w \notin Named(list[i])
    <3> DEFINE id == <<b, i>>
    <3>1. id \in LogIds /\ OnChain(id)
      BY <2>2, OfBlock
    <3>2. id[1] = b /\ id[2] = i
      OBVIOUS
    <3> HIDE DEF id
    <3>3. w \notin Named(LogAt(id))
      BY <1>4, <3>1, <3>2
    <3> QED BY <3>2, <3>3 DEF LogAt
  <2> HIDE DEF list
  <2>6. Len(list) \in Nat /\ Len(run) \in Nat
    BY <2>3, <2>4
  <2>7. k + 1 \in 1..Len(run) /\ 1 \in 1..Len(run)
    <3>1. ASSUME NEW n \in Nat, NEW i \in 1..n
          PROVE  i + 1 \in 1..(n + 1) /\ 1 \in 1..(n + 1)
      OBVIOUS
    <3> QED BY <2>2, <2>4, <2>6, <3>1
  <2>8. CASE b = c
    <3>1. \A i \in (k + 1)..Len(list) : w \notin Named(list[i])
      BY <2>2, <2>5, <2>6
    <3>2. Keeps(run[k + 1], StateAt(b), w)
      BY <2>1, <2>2, <2>7, <3>1, RestOfBlockKeeps DEF list
    <3> QED BY <2>1, <2>8, <3>2 DEF Keeps
  <2>9. CASE b # c
    <3>1. b - 1 \in c..Len(chain) /\ b - 1 \in 0..Len(chain)
      <4>1. ASSUME NEW n \in Nat, NEW a \in Nat, NEW i \in a..n, i # a
            PROVE  i - 1 \in a..n /\ i - 1 \in 0..n
        BY <4>1
      <4> QED BY <1>1, <2>2, <2>9, <4>1
    <3>2. \A id \in LogIds : OnChain(id) /\ c < id[1] /\ id[1] <= b - 1 => w \notin Named(LogAt(id))
      <4>1. \A id \in LogIds : id[1] \in Nat
        BY NumbersTyped
      <4> QED BY <1>1, <4>1
    <3>3. Keeps(StateAt(c), StateAt(b - 1), w)
      BY <3>1, <3>2, BlocksKeep
    <3>4. StateAt(b - 1) \in ContractState
      BY <3>1, StateTyped DEF IInv
    <3>5. \A i \in 1..((k + 1) - 1) : w \notin Named(list[i])
      BY <2>2, <2>5, <2>6
    <3>6. k + 1 \in 1..Len(run)
      BY <2>7
    <3>7. Keeps(run[1], run[k + 1], w)
      BY <2>3, <2>4, <2>7, <3>5, WalkKeeps
    <3>8. run[1] = StateAt(b - 1)
      BY <2>4, <3>4, SeenTyped
    <3> QED BY <2>1, <3>3, <3>7, <3>8 DEF Keeps
  <2> QED BY <2>8, <2>9
<1> QED BY <1>1, <1>2, <1>3, <1>4 DEF Reached

-----------------------------------------------------------------------------
(* A list of the identities of a country while it is collected *)

\* Every log about the wallet is done with.
Untouched(w) ==
    \A id \in LogIds : OnChain(id) /\ w \in Named(LogAt(id)) => Passed(id) /\ id # current

CountryListing ==
    request.query = "identities" =>
        /\ rows \subseteq Wallets /\ due \subseteq Wallets /\ answer \in Seq(Wallets)
        /\ \A w \in due :
              /\ IsBound(db, w) /\ Untouched(w)
              /\ w \in rows \/ \E i \in 1..Len(answer) : answer[i] = w

\* The wallets of a country that the indexer is done with have their key.
LEMMA SettledRow ==
    ASSUME CountriesTold, MirrorInv, NEW c, NEW w \in Settled(c)
    PROVE  IsBound(db, w) /\ c \in db.byCountry[w] /\ Untouched(w)
<1>1. IInv /\ QueryInv /\ ChainRuns
  BY DEF MirrorInv
<1>2. /\ w \in Wallets /\ Indexed.identity[w] # NoOne /\ Indexed.country[w] = c
      /\ \A id \in LogsIn(Cursor, Len(chain)) : w \notin Named(LogAt(id))
  BY DEF Settled, Bound
<1>3. /\ Cursor \in Nat /\ Len(chain) \in Nat /\ logs \subseteq LogIds
      /\ Cursor \in 0..Len(chain) /\ Cursor <= Reach /\ Reach \in Int
      /\ \A id \in LogIds : id[1] \in Nat
  <2>1. /\ Cursor \in Nat /\ Len(chain) \in Nat /\ fromBlock \in Nat /\ latest \in Nat
        /\ ChunkSize \in Nat /\ logs \subseteq LogIds /\ \A id \in LogIds : id[1] \in Nat
    BY <1>1, NumbersTyped
  <2>2. Reach \in Int
    BY <2>1 DEF Reach, ChunkEnd, Least
  <2>3. Cursor <= Reach /\ Reach <= Len(chain)
    BY <1>1 DEF QueryInv, QueryKnown
  <2> QED BY <2>1, <2>2, <2>3
<1>4. ASSUME NEW id \in LogIds, OnChain(id), Cursor <= id[1] PROVE w \notin Named(LogAt(id))
  <2>1. id \in LogsIn(Cursor, Len(chain))
    BY <1>4 DEF LogsIn, OnChain
  <2> QED BY <1>2, <2>1
<1>5. ASSUME NEW id \in LogIds, ~(Cursor <= id[1]) PROVE Passed(id) /\ id # current
  <2>1. id[1] <= Reach
    BY <1>3, <1>5
  <2>2. id \notin logs /\ (current # NoLog => id # current)
    BY <1>1, <1>5 DEF IInv, NothingBehind
  <2>3. id # NoLog
    BY <1>1, NumbersTyped
  <2> QED BY <2>1, <2>2, <2>3 DEF Passed
<1>6. Untouched(w)
  BY <1>4, <1>5 DEF Untouched
<1>7. PICK p \in LogIds \cup {NoLog}, s \in ContractState, e \in Store : MirrorAt(p, s, e)
  BY DEF MirrorInv, Mirror
<1>8. Mark(p) /\ Reached(p, s) /\ Mirrors(e, s)
  BY <1>7 DEF MirrorAt
<1>9. AllBefore(p, Cursor - 1)
  <2> SUFFICES ASSUME NEW id \in LogIds, OnChain(id), id[1] <= Cursor - 1 PROVE NotAfter(id, p)
    BY DEF AllBefore
  <2>1. ~(Cursor <= id[1])
    BY <1>3
  <2> QED BY <1>5, <1>8, <2>1 DEF Mark
<1>10. Keeps(StateAt(Cursor), s, w)
  BY <1>1, <1>2, <1>3, <1>4, <1>8, <1>9, SettledKeeps
<1>11. s.identity[w] # NoOne /\ s.country[w] = c
  BY <1>2, <1>10 DEF Keeps, Indexed
<1>12. RowTold(e, s, w)
  BY <1>2, <1>8 DEF Mirrors, IdentitiesTold
<1>13. db.identity[w] = e.identity[w] /\ db.byCountry[w] = e.byCountry[w]
  <2>1. CASE current = NoLog
    <3>1. Written(db, <<>>, e) /\ db \in Store
      BY <1>1, <1>7, <2>1 DEF MirrorAt, IInv, TypeOK
    <3>2. e = db
      BY <3>1, NoSteps DEF Written
    <3> QED BY <3>2
  <2>2. CASE current # NoLog
    <3>1. current \in LogIds /\ OnChain(current) /\ Cursor <= current[1]
      BY <1>1, <2>2, LogInHand DEF IInv, NothingBehind
    <3>2. w \notin Named(LogAt(current))
      BY <1>4, <3>1
    <3>3. OthersStay(db, e, LogAt(current))
      BY <1>7, <2>2 DEF MirrorAt
    <3> QED BY <1>2, <3>2, <3>3 DEF OthersStay
  <2> QED BY <2>1, <2>2
<1>14. db.identity[w].identity = s.identity[w] /\ s.country[w] \in db.byCountry[w]
  BY <1>11, <1>12, <1>13 DEF RowTold
<1> QED BY <1>6, <1>11, <1>14 DEF IsBound

LEMMA AskByCountryListing ==
    ASSUME CountriesTold, MirrorInv, ReaderInv, AskByCountry
    PROVE  CountryListing'
<1>1. PICK q \in CountryRequests :
        /\ request' = q
        /\ rows' = {w \in Wallets : q.country \in db.byCountry[w]}
        /\ due' = Settled(q.country)
  BY DEF AskByCountry
<1>2. answer' = <<>> /\ UNCHANGED vars
  BY DEF AskByCountry, ReaderInv, EmptyHanded
<1>3. db' = db /\ chain' = chain /\ current' = current /\ UNCHANGED process
  BY <1>2 DEF vars, process
<1>4. ASSUME NEW w \in Settled(q.country)
      PROVE  w \in Wallets /\ IsBound(db, w) /\ w \in rows' /\ Untouched(w)
  <2>1. w \in Wallets
    BY DEF Settled
  <2> QED BY <1>1, <2>1, SettledRow
<1>5. ASSUME NEW w, Untouched(w) PROVE Untouched(w)'
  BY <1>3, <1>5 DEF Untouched, OnChain, LogAt, Passed, Reach, ChunkEnd, Least, Cursor, process
<1>6. rows' \subseteq Wallets /\ due' \subseteq Wallets /\ answer' \in Seq(Wallets)
  BY <1>1, <1>2, <1>4
<1>7. ASSUME NEW w \in due' PROVE IsBound(db', w) /\ Untouched(w)' /\ w \in rows'
  BY <1>1, <1>3, <1>4, <1>5
<1> QED BY <1>6, <1>7 DEF CountryListing

LEMMA VisitWalletListing == CountryListing /\ VisitWallet => CountryListing'
<1> SUFFICES ASSUME CountryListing, VisitWallet PROVE CountryListing'
  OBVIOUS
<1>1. PICK v \in rows :
        /\ rows' = rows \ {v}
        /\ answer' = IF IsBound(db, v) THEN Append(answer, v) ELSE answer
  BY DEF VisitWallet
<1>2. request.query = "identities" /\ request' = request /\ due' = due /\ UNCHANGED vars
  BY DEF VisitWallet, Asking
<1>3. db' = db /\ chain' = chain /\ current' = current /\ UNCHANGED process
  BY <1>2 DEF vars, process
<1>4. /\ rows \subseteq Wallets /\ due \subseteq Wallets /\ answer \in Seq(Wallets)
      /\ \A w \in due :
            /\ IsBound(db, w) /\ Untouched(w)
            /\ w \in rows \/ \E i \in 1..Len(answer) : answer[i] = w
  BY <1>2 DEF CountryListing
<1>5. PICK list : list = answer'
  OBVIOUS
<1>6. /\ list \in Seq(Wallets)
      /\ \A i \in 1..Len(answer) : \E j \in 1..Len(list) : list[j] = answer[i]
      /\ IsBound(db, v) => \E j \in 1..Len(list) : list[j] = v
  <2>1. CASE IsBound(db, v)
    <3>1. list = Append(answer, v) /\ v \in Wallets
      BY <1>1, <1>4, <1>5, <2>1
    <3>2. /\ list \in Seq(Wallets) /\ Len(list) = Len(answer) + 1 /\ list[Len(answer) + 1] = v
          /\ \A i \in 1..Len(answer) : list[i] = answer[i]
          /\ Len(answer) \in Nat
      BY <1>4, <3>1
    <3>3. /\ \A i \in 1..Len(answer) : i \in 1..Len(list)
          /\ Len(answer) + 1 \in 1..Len(list)
      BY <3>2
    <3> QED BY <3>2, <3>3
  <2>2. CASE ~IsBound(db, v)
    <3>1. list = answer
      BY <1>1, <1>5, <2>2
    <3> QED BY <1>4, <2>2, <3>1
  <2> QED BY <2>1, <2>2
<1>7. ASSUME NEW w, Untouched(w) PROVE Untouched(w)'
  BY <1>3, <1>7 DEF Untouched, OnChain, LogAt, Passed, Reach, ChunkEnd, Least, Cursor, process
<1>8. ASSUME NEW w \in due'
      PROVE  /\ IsBound(db', w) /\ Untouched(w)'
             /\ w \in rows' \/ \E i \in 1..Len(list) : list[i] = w
  <2>1. w \in due /\ IsBound(db, w) /\ Untouched(w)
    BY <1>2, <1>4
  <2>2. w \in rows \ {v} \/ \E i \in 1..Len(list) : list[i] = w
    BY <1>4, <1>6, <2>1
  <2>3. IsBound(db', w)
    BY <1>3, <2>1
  <2> QED BY <1>1, <1>7, <2>1, <2>2, <2>3
<1>9. rows' \subseteq Wallets /\ due' \subseteq Wallets
  BY <1>1, <1>2, <1>4
<1> QED BY <1>5, <1>6, <1>8, <1>9 DEF CountryListing

\* Only the puts of a handler write rows of identities and their keys.
LEMMA IdentitiesStay ==
    ASSUME IInv, [Next]_vars
    PROVE  WriteNext \/ SameIdentities(db, db')
<1> USE DEF SameIdentities
<1>1. db \in Store
  BY DEF IInv, TypeOK
<1>2. ASSUME db' \in {db, Enriched} PROVE SameIdentities(db, db')
  BY <1>1, <1>2 DEF Enriched, PutAsset, After, Put, Store
<1>3. ASSUME NEW block \in Nat, SetCursor(block) PROVE SameIdentities(db, db')
  BY <1>1, <1>3 DEF SetCursor, After, Put, Store
<1>4. CASE Start \/ StartFails
  BY <1>2, <1>4 DEF Start, StartFails
<1>5. CASE PollDone \/ FinishLog
  <2>1. latest \in Nat /\ (FinishLog => current[1] \in Nat)
    BY NumbersTyped DEF FinishLog
  <2> QED BY <1>3, <1>5, <2>1 DEF PollDone, FinishLog
<1>6. CASE FetchChunk \/ ChunkDone \/ Poll \/ TakeLog
  BY <1>6 DEF FetchChunk, ChunkDone, Poll, TakeLog
<1>7. CASE FetchChunkFails \/ PollFails \/ Crash \/ MineBlock(Traffic)
  BY <1>7 DEF FetchChunkFails, PollFails, Crash, MineBlock
<1>8. CASE UNCHANGED vars
  BY <1>8 DEF vars
<1> QED BY <1>4, <1>5, <1>6, <1>7, <1>8, Zenon DEF Next, Work, Fail

\* A wallet stays untouched unless a new log names it.
LEMMA UntouchedStays ==
    ASSUME IInv, QueryInv, NamedOnly, FromTheStart, [Next]_vars, Crash => Resting,
           NEW w \in Wallets, Untouched(w), IsBound(db, w),
           \A id \in LogIds : OnChain(id)' /\ ~OnChain(id) => w \notin Named(LogAt(id)')
    PROVE  Untouched(w)' /\ IsBound(db', w)
<1>1. Untouched(w)'
  <2> SUFFICES ASSUME NEW id \in LogIds, OnChain(id)', w \in Named(LogAt(id)')
               PROVE  Passed(id)' /\ id # current'
    BY DEF Untouched
  <2>1. OnChain(id) /\ LogAt(id)' = LogAt(id)
    BY OnChainStays
  <2>2. Passed(id) /\ id # current
    BY <2>1 DEF Untouched
  <2>3. CASE TakeLog
    BY <2>2, <2>3, TakeLogPassed
  <2>4. CASE ~TakeLog
    <3>1. Passed(id)'
      BY <2>1, <2>2, <2>4, PassedStays
    <3>2. current' = NoLog \/ current' = current
      BY <2>4, InHand DEF WriteNext, MineBlock, process, vars
    <3>3. id # NoLog
      BY NumbersTyped
    <3> QED BY <2>2, <3>1, <3>2, <3>3
  <2> QED BY <2>3, <2>4
<1>2. IsBound(db', w)
  <2>1. CASE WriteNext
    <3>1. current \in LogIds /\ OnChain(current)
      BY <2>1, LogInHand DEF WriteNext
    <3>2. w \notin Named(LogAt(current))
      BY <3>1 DEF Untouched
    <3>3. db'.identity[w] = db.identity[w]
      BY <2>1, <3>2, NextNamed
    <3> QED BY <3>3 DEF IsBound
  <2>2. CASE SameIdentities(db, db')
    BY <2>2 DEF SameIdentities, IsBound
  <2> QED BY <2>1, <2>2, IdentitiesStay
<1> QED BY <1>1, <1>2

LEMMA AsideCountryListing ==
    ASSUME IInv, QueryInv, NamedOnly, FromTheStart, [Next]_vars, Crash => Resting, CountryListing,
           UNCHANGED <<request, rows, answer>>, due' \subseteq due,
           \A w \in due', id \in LogIds : OnChain(id)' /\ ~OnChain(id) => w \notin Named(LogAt(id)')
    PROVE  CountryListing'
<1> SUFFICES ASSUME request.query = "identities"
             PROVE  /\ rows \subseteq Wallets /\ due' \subseteq Wallets /\ answer \in Seq(Wallets)
                    /\ \A w \in due' :
                          /\ IsBound(db', w) /\ Untouched(w)'
                          /\ w \in rows \/ \E i \in 1..Len(answer) : answer[i] = w
  BY DEF CountryListing
<1>1. /\ rows \subseteq Wallets /\ due \subseteq Wallets /\ answer \in Seq(Wallets)
      /\ \A w \in due :
            /\ IsBound(db, w) /\ Untouched(w)
            /\ w \in rows \/ \E i \in 1..Len(answer) : answer[i] = w
  BY DEF CountryListing
<1>2. ASSUME NEW w \in due' PROVE Untouched(w)' /\ IsBound(db', w)
  <2>1. w \in Wallets /\ IsBound(db, w) /\ Untouched(w)
    BY <1>1
  <2>2. \A id \in LogIds : OnChain(id)' /\ ~OnChain(id) => w \notin Named(LogAt(id)')
    BY <1>2
  <2> QED BY <2>1, <2>2, UntouchedStays
<1> QED BY <1>1, <1>2

\* The wallets a new block names leave what is due.
LEMMA NewBlockNames ==
    ASSUME IInv, QueryInv, MineWhileReading(Traffic), NEW w \in due',
           NEW id \in LogIds, OnChain(id)', ~OnChain(id)
    PROVE  w \notin Named(LogAt(id)')
<1>1. [Next]_vars /\ MineBlock(Traffic)
  BY DEF MineWhileReading, Next
<1>2. id[1] = Len(chain) + 1 /\ Len(chain') = Len(chain) + 1
  BY <1>1, NewLogNotPassed, ChainGrows
<1> DEFINE list == chain'[Len(chain')].logs
<1>3. LogAt(id)' = list[id[2]]
  BY <1>2 DEF LogAt
<1>4. list \in Seq(Log)
  <2>1. chain' \in Seq(Block)
    BY <1>1, StepIInv DEF IInv, TypeOK
  <2>2. Len(chain') \in 1..Len(chain')
    BY <1>2, NumbersTyped
  <2>3. chain'[Len(chain')] \in Block
    BY <2>1, <2>2
  <2> QED BY <2>3 DEF Block
<1>5. id[2] <= Len(list) /\ id[2] \in Nat /\ 1 <= id[2]
  BY <1>2, ChainAssumption DEF OnChain, LogIds
<1>6. due' = due \ UNION {Named(log) : log \in Range(list)}
  BY DEF MineWhileReading
<1> HIDE DEF list
<1>7. list[id[2]] \in Range(list)
  BY <1>4, <1>5 DEF Range
<1> QED BY <1>3, <1>6, <1>7

CountryInv == MirrorInv /\ ListInv /\ CountryListing

LEMMA InitCountryInv == QueryInit => CountryInv
<1> SUFFICES ASSUME QueryInit PROVE CountryInv
  OBVIOUS
<1>1. MirrorInv /\ ListInv
  BY InitMirrorInv, InitListInv DEF QueryInit
<1>2. CountryListing
  BY RequestKinds DEF QueryInit, ReaderInit, CountryListing
<1> QED BY <1>1, <1>2 DEF CountryInv

LEMMA StepCountryInv ==
    ASSUME FromTheStart, CountriesTold, CountryInv, [QueryNext]_queryVars
    PROVE  CountryInv'
<1>1. MirrorInv' /\ ListInv'
  BY StepMirrorInv, StepListInv DEF CountryInv
<1>2. /\ MirrorInv /\ IInv /\ QueryInv /\ NamedOnly /\ ReaderInv /\ CountryListing
  BY DEF CountryInv, MirrorInv, ListInv
<1>3. [Next]_vars /\ (Crash => Resting)
  BY <1>2, QueryStep
<1>4. CASE IndexerWorks \/ UNCHANGED queryVars
  <2>1. UNCHANGED <<request, rows, answer, due>>
    BY <1>4 DEF IndexerWorks, queryVars, reader
  <2>2. chain' = chain
    BY <1>4 DEF IndexerWorks, Work, Start, FetchChunk, ChunkDone, Poll, PollDone, TakeLog,
           WriteNext, FinishLog, StartFails, FetchChunkFails, PollFails, queryVars, vars
  <2>3. \A id \in LogIds : ~(OnChain(id)' /\ ~OnChain(id))
    BY <2>2 DEF OnChain
  <2>4. due' \subseteq due
    BY <2>1
  <2>5. \A w \in due', id \in LogIds : OnChain(id)' /\ ~OnChain(id) => w \notin Named(LogAt(id)')
    BY <2>3
  <2>6. CountryListing'
    BY <1>2, <1>3, <2>1, <2>4, <2>5, AsideCountryListing
  <2> QED BY <1>1, <2>6 DEF CountryInv
<1>5. CASE MineWhileReading(Traffic)
  <2>1. UNCHANGED <<request, rows, answer>> /\ due' \subseteq due
    BY <1>5 DEF MineWhileReading
  <2>2. \A w \in due', id \in LogIds : OnChain(id)' /\ ~OnChain(id) => w \notin Named(LogAt(id)')
    BY <1>2, <1>5, NewBlockNames
  <2>3. CountryListing'
    BY <1>2, <1>3, <2>1, <2>2, AsideCountryListing
  <2> QED BY <1>1, <2>3 DEF CountryInv
<1>6. CASE AskByCountry
  <2>1. CountryListing'
    BY <1>2, <1>6, AskByCountryListing
  <2> QED BY <1>1, <2>1 DEF CountryInv
<1>7. CASE VisitWallet
  <2>1. CountryListing'
    BY <1>2, <1>7, VisitWalletListing
  <2> QED BY <1>1, <2>1 DEF CountryInv
<1>8. CASE AskEvents \/ VisitEvent \/ Deliver
  <2>1. request'.query # "identities"
    <3>1. CASE AskEvents
      BY <3>1, RequestKinds DEF AskEvents, EventQueries
    <3>2. CASE VisitEvent
      BY <3>2 DEF VisitEvent, Asking
    <3>3. CASE Deliver
      BY <3>3, RequestKinds DEF Deliver
    <3> QED BY <1>8, <3>1, <3>2, <3>3
  <2> QED BY <1>1, <2>1 DEF CountryInv, CountryListing
<1> QED BY <1>4, <1>5, <1>6, <1>7, <1>8 DEF QueryNext, Read

\* CountryAnswersMissNobody: however the indexer writes on while the wallets of a
\* country are gone through, the list misses none that the indexer was done with and
\* no new log names, unless the limit is reached; a country changed without a log is
\* excepted.
THEOREM CountryAnswersHold ==
    ASSUME CountriesTold
    PROVE  QuerySpec /\ []FromTheStart => []CountryAnswersMissNobody
<1>1. QueryInit => CountryInv
  BY InitCountryInv
<1>2. FromTheStart /\ CountryInv /\ [QueryNext]_queryVars => CountryInv'
  BY StepCountryInv
<1>3. CountryInv => CountryAnswersMissNobody
  BY DEF CountryInv, CountryListing, CountryAnswersMissNobody, Answered, Range
<1> QED BY <1>1, <1>2, <1>3, PTL DEF QuerySpec
=============================================================================
