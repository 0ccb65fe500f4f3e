----------------------------- MODULE FiniteSums -----------------------------
(***************************************************************************)
(* What sums over a finite set of keys do: SumFunctionOnSet and            *)
(* SumFunction of the module Functions, by which supplies are compared     *)
(* with balances.  Induction goes by a smallest counterexample.            *)
(***************************************************************************)
EXTENDS Functions, FiniteSetTheorems, TLAPS

\* Among the subsets of a finite set that a collection has, one has no smaller
\* one in the collection.
LEMMA SmallestSet ==
    ASSUME NEW S, IsFiniteSet(S), NEW C \in SUBSET (SUBSET S), C # {}
    PROVE  \E s \in C : \A t \in C : t \subseteq s => t = s
<1>1. C \subseteq FiniteSubsetsOf(S)
  BY FS_Subset DEF FiniteSubsetsOf
<1>2. IsWellFoundedOn(StrictSubsetOrdering(S), FiniteSubsetsOf(S))
  BY FS_StrictSubsetOrderingWellFounded
<1>3. PICK s \in C : \A t \in C : ~(<<t, s>> \in StrictSubsetOrdering(S))
  BY <1>1, <1>2, WFMin
<1>4. ASSUME NEW t \in C, t \subseteq s PROVE t = s
  <2>1. t \in SUBSET S /\ s \in SUBSET S
    OBVIOUS
  <2> QED BY <1>3, <1>4, <2>1 DEF StrictSubsetOrdering
<1> QED BY <1>4

-----------------------------------------------------------------------------
(* The recursion by which a sum is defined has a solution, and one only *)

Pick(s) == CHOOSE x \in s : TRUE

Unfold(g, f, s) == IF s = {} THEN 0 ELSE f[Pick(s)] + g[s \ {Pick(s)}]

IsFold(g, f, S) == g = [s \in SUBSET S |-> Unfold(g, f, s)]

Fold(f, S) == CHOOSE g : IsFold(g, f, S)

LEMMA PickIn == ASSUME NEW s, s # {} PROVE Pick(s) \in s
  BY DEF Pick

LEMMA FoldUnique ==
    ASSUME NEW f, NEW S, IsFiniteSet(S), NEW T, NEW g, NEW h,
           IsFold(g, f, S), IsFold(h, f, T), NEW s \in SUBSET (S \cap T)
    PROVE  g[s] = h[s]
<1> DEFINE Bad == {u \in SUBSET (S \cap T) : g[u] # h[u]}
<1> SUFFICES ASSUME Bad # {} PROVE FALSE
  OBVIOUS
<1>1. PICK u \in Bad : \A v \in Bad : v \subseteq u => v = u
  <2>1. Bad \in SUBSET (SUBSET S)
    OBVIOUS
  <2> HIDE DEF Bad
  <2> QED BY <2>1, SmallestSet
<1>2. g[u] = Unfold(g, f, u) /\ h[u] = Unfold(h, f, u)
  BY DEF IsFold
<1>3. CASE u = {}
  BY <1>2, <1>3 DEF Unfold
<1>4. CASE u # {}
  <2> DEFINE v == u \ {Pick(u)}
  <2>1. v \subseteq u /\ v # u /\ v \in SUBSET (S \cap T)
    BY <1>4, PickIn
  <2>2. g[v] = h[v]
    BY <1>1, <2>1
  <2> QED BY <1>2, <1>4, <2>2 DEF Unfold
<1> QED BY <1>3, <1>4

LEMMA FoldExists ==
    ASSUME NEW f, NEW S, IsFiniteSet(S)
    PROVE  IsFold(Fold(f, S), f, S)
<1> DEFINE Bad == {s \in SUBSET S : ~ \E g : IsFold(g, f, s)}
<1> SUFFICES ASSUME Bad # {} PROVE FALSE
  BY DEF Fold
<1>1. PICK s \in Bad : \A t \in Bad : t \subseteq s => t = s
  <2> HIDE DEF Bad
  <2>1. Bad \in SUBSET (SUBSET S)
    BY DEF Bad
  <2> QED BY <2>1, SmallestSet
<1>2. ASSUME NEW t \in SUBSET s, t # s
      PROVE  IsFold(Fold(f, t), f, t)
  BY <1>1, <1>2 DEF Fold
<1>3. ASSUME NEW t \in SUBSET s, t # s, NEW u \in SUBSET t
      PROVE  Fold(f, t)[u] = Fold(f, u)[u]
  <2>1. IsFold(Fold(f, t), f, t) /\ IsFold(Fold(f, u), f, u)
    BY <1>2, <1>3
  <2>2. IsFiniteSet(t) /\ u \in SUBSET (t \cap u)
    BY FS_Subset
  <2> QED BY <2>1, <2>2, FoldUnique
<1> DEFINE g == [t \in SUBSET s |-> IF t = s THEN Unfold([u \in SUBSET s |-> Fold(f, u)[u]], f, s)
                                    ELSE Fold(f, t)[t]]
<1>4. ASSUME NEW t \in SUBSET s PROVE g[t] = Unfold(g, f, t)
  <2>1. t # {} => t \ {Pick(t)} \in SUBSET s /\ t \ {Pick(t)} # s /\ t \ {Pick(t)} \in SUBSET t
    BY PickIn
  <2>2. t # {} => g[t \ {Pick(t)}] = Fold(f, t \ {Pick(t)})[t \ {Pick(t)}]
    BY <2>1
  <2>3. CASE t = s
    BY <2>1, <2>2, <2>3 DEF Unfold
  <2>4. CASE t # s
    <3>1. Fold(f, t)[t] = Unfold(Fold(f, t), f, t)
      BY <1>2, <2>4 DEF IsFold
    <3>2. t # {} => Fold(f, t)[t \ {Pick(t)}] = Fold(f, t \ {Pick(t)})[t \ {Pick(t)}]
      BY <1>3, <2>1, <2>4
    <3>3. g[t] = Fold(f, t)[t]
      BY <2>4
    <3> QED BY <2>2, <3>1, <3>2, <3>3 DEF Unfold
  <2> QED BY <2>3, <2>4
<1>5. IsFold(g, f, s)
  <2> HIDE DEF g
  <2>1. g = [t \in SUBSET s |-> g[t]]
    BY DEF g
  <2> QED BY <1>4, <2>1 DEF IsFold
<1> QED BY <1>1, <1>5

LEMMA SumIsFold ==
    ASSUME NEW f, NEW S
    PROVE  SumFunctionOnSet(f, S) = Fold(f, S)[S]
  BY DEF SumFunctionOnSet, FoldFunctionOnSet, MapThenFoldSet, Fold, IsFold, Unfold, Pick

-----------------------------------------------------------------------------
(* Sums over a finite set *)

LEMMA SumUnfold ==
    ASSUME NEW f, NEW S, IsFiniteSet(S), S # {}
    PROVE  SumFunctionOnSet(f, S) = f[Pick(S)] + SumFunctionOnSet(f, S \ {Pick(S)})
<1> DEFINE T == S \ {Pick(S)}
<1>1. IsFiniteSet(T) /\ T \in SUBSET S
  BY FS_Subset
<1>2. IsFold(Fold(f, S), f, S) /\ IsFold(Fold(f, T), f, T)
  BY <1>1, FoldExists
<1>3. Fold(f, S)[S] = f[Pick(S)] + Fold(f, S)[T]
  BY <1>2 DEF IsFold, Unfold
<1>4. Fold(f, S)[T] = Fold(f, T)[T]
  <2>1. T \in SUBSET (S \cap T)
    OBVIOUS
  <2> QED BY <1>2, <2>1, FoldUnique
<1> QED BY <1>3, <1>4, SumIsFold

LEMMA SumEmpty ==
    ASSUME NEW f
    PROVE  SumFunctionOnSet(f, {}) = 0
<1>1. IsFold(Fold(f, {}), f, {})
  BY FS_EmptySet, FoldExists
<1> QED BY <1>1, SumIsFold DEF IsFold, Unfold

LEMMA SumType ==
    ASSUME NEW S, IsFiniteSet(S), NEW f, \A x \in S : f[x] \in Int
    PROVE  SumFunctionOnSet(f, S) \in Int
<1> DEFINE Bad == {s \in SUBSET S : SumFunctionOnSet(f, s) \notin Int}
<1> SUFFICES ASSUME Bad # {} PROVE FALSE
  OBVIOUS
<1>1. PICK s \in Bad : \A t \in Bad : t \subseteq s => t = s
  <2>1. Bad \in SUBSET (SUBSET S)
    OBVIOUS
  <2> HIDE DEF Bad
  <2> QED BY <2>1, SmallestSet
<1>2. CASE s = {}
  BY <1>2, SumEmpty
<1>3. CASE s # {}
  <2>1. Pick(s) \in s /\ IsFiniteSet(s)
    BY <1>3, PickIn, FS_Subset
  <2>2. SumFunctionOnSet(f, s \ {Pick(s)}) \in Int
    BY <1>1, <2>1
  <2>3. SumFunctionOnSet(f, s) = f[Pick(s)] + SumFunctionOnSet(f, s \ {Pick(s)})
    BY <1>3, <2>1, SumUnfold
  <2> QED BY <2>1, <2>2, <2>3
<1> QED BY <1>2, <1>3

\* Whichever key is taken out, the rest adds up to the rest.
LEMMA SumRemove ==
    ASSUME NEW S, IsFiniteSet(S), NEW f, \A x \in S : f[x] \in Int, NEW k \in S
    PROVE  SumFunctionOnSet(f, S) = f[k] + SumFunctionOnSet(f, S \ {k})
<1> DEFINE Sum(s) == SumFunctionOnSet(f, s)
           Bad == {s \in SUBSET S : \E x \in s : Sum(s) # f[x] + Sum(s \ {x})}
<1> SUFFICES ASSUME Bad # {} PROVE FALSE
  OBVIOUS
<1>1. PICK s \in Bad : \A t \in Bad : t \subseteq s => t = s
  <2>1. Bad \in SUBSET (SUBSET S)
    OBVIOUS
  <2> HIDE DEF Bad
  <2> QED BY <2>1, SmallestSet
<1>2. PICK x \in s : Sum(s) # f[x] + Sum(s \ {x})
  BY <1>1
<1> DEFINE p == Pick(s)
           rest == (s \ {p}) \ {x}
<1>3. p \in s /\ IsFiniteSet(s) /\ s # {}
  BY <1>2, PickIn, FS_Subset
<1>4. Sum(s) = f[p] + Sum(s \ {p})
  BY <1>3, SumUnfold
<1>5. p # x
  BY <1>2, <1>4
<1>6. Sum(s \ {p}) = f[x] + Sum(rest)
  <2>1. s \ {p} \in SUBSET S /\ x \in s \ {p} /\ s \ {p} # s
    BY <1>3, <1>5
  <2> HIDE DEF Sum, p
  <2> QED BY <1>1, <2>1
<1>7. Sum(s \ {x}) = f[p] + Sum(rest)
  <2>1. s \ {x} \in SUBSET S /\ p \in s \ {x} /\ s \ {x} # s /\ (s \ {x}) \ {p} = rest
    BY <1>3, <1>5
  <2> HIDE DEF Sum, p, rest
  <2> QED BY <1>1, <2>1
<1>8. f[x] \in Int /\ f[p] \in Int /\ Sum(rest) \in Int
  <2>1. IsFiniteSet(rest) /\ rest \in SUBSET S
    BY <1>3, FS_Subset
  <2> QED BY <1>3, <2>1, SumType
<1> HIDE DEF Sum, p, rest
<1> QED BY <1>2, <1>4, <1>6, <1>7, <1>8

LEMMA SumAgrees ==
    ASSUME NEW S, IsFiniteSet(S), NEW f, NEW g, \A x \in S : f[x] = g[x]
    PROVE  SumFunctionOnSet(f, S) = SumFunctionOnSet(g, S)
<1> DEFINE Bad == {s \in SUBSET S : SumFunctionOnSet(f, s) # SumFunctionOnSet(g, s)}
<1> SUFFICES ASSUME Bad # {} PROVE FALSE
  OBVIOUS
<1>1. PICK s \in Bad : \A t \in Bad : t \subseteq s => t = s
  <2>1. Bad \in SUBSET (SUBSET S)
    OBVIOUS
  <2> HIDE DEF Bad
  <2> QED BY <2>1, SmallestSet
<1>2. CASE s = {}
  BY <1>1, <1>2, SumEmpty
<1>3. CASE s # {}
  <2>1. Pick(s) \in s /\ IsFiniteSet(s) /\ f[Pick(s)] = g[Pick(s)]
    BY <1>3, PickIn, FS_Subset
  <2>2. SumFunctionOnSet(f, s \ {Pick(s)}) = SumFunctionOnSet(g, s \ {Pick(s)})
    BY <1>1, <2>1
  <2> QED BY <1>1, <1>3, <2>1, <2>2, SumUnfold
<1> QED BY <1>2, <1>3

-----------------------------------------------------------------------------
(* Sums of a function over its domain *)

LEMMA SumFunctionType ==
    ASSUME NEW S, IsFiniteSet(S), NEW f \in [S -> Int]
    PROVE  SumFunction(f) \in Int
<1>1. DOMAIN f = S /\ \A x \in S : f[x] \in Int
  OBVIOUS
<1> QED BY <1>1, SumType DEF SumFunction

LEMMA SumOfZeros ==
    ASSUME NEW S, IsFiniteSet(S)
    PROVE  SumFunction([x \in S |-> 0]) = 0
<1> DEFINE f == [x \in S |-> 0]
           Bad == {s \in SUBSET S : SumFunctionOnSet(f, s) # 0}
<1>1. Bad = {}
  <2> SUFFICES ASSUME Bad # {} PROVE FALSE
    OBVIOUS
  <2>1. PICK s \in Bad : \A t \in Bad : t \subseteq s => t = s
    <3>1. Bad \in SUBSET (SUBSET S)
      OBVIOUS
    <3> HIDE DEF Bad
    <3> QED BY <3>1, SmallestSet
  <2>2. s # {}
    BY <2>1, SumEmpty
  <2>3. Pick(s) \in s /\ IsFiniteSet(s) /\ f[Pick(s)] = 0
    BY <2>2, PickIn, FS_Subset
  <2>4. SumFunctionOnSet(f, s \ {Pick(s)}) = 0
    BY <2>1, <2>3
  <2>5. SumFunctionOnSet(f, s) = f[Pick(s)] + SumFunctionOnSet(f, s \ {Pick(s)})
    BY <2>2, <2>3, SumUnfold
  <2> QED BY <2>1, <2>3, <2>4, <2>5
<1>2. SumFunctionOnSet(f, S) = 0 /\ DOMAIN f = S
  BY <1>1
<1> QED BY <1>2 DEF SumFunction

\* A key that gets another value moves the sum by the difference.
LEMMA SumUpdate ==
    ASSUME NEW S, IsFiniteSet(S), NEW f \in [S -> Int], NEW k \in S, NEW v \in Int
    PROVE  SumFunction([f EXCEPT ![k] = v]) = SumFunction(f) - f[k] + v
<1> DEFINE g == [f EXCEPT ![k] = v]
           rest == S \ {k}
<1>1. DOMAIN f = S /\ DOMAIN g = S /\ g[k] = v
  OBVIOUS
<1>2. \A x \in S : f[x] \in Int /\ g[x] \in Int
  OBVIOUS
<1>3. IsFiniteSet(rest) /\ \A x \in rest : f[x] = g[x]
  BY FS_Subset
<1> HIDE DEF g, rest
<1>4. SumFunctionOnSet(f, rest) = SumFunctionOnSet(g, rest)
  BY <1>3, SumAgrees
<1>5. SumFunctionOnSet(f, S) = f[k] + SumFunctionOnSet(f, rest)
  BY <1>2, SumRemove DEF rest
<1>6. SumFunctionOnSet(g, S) = v + SumFunctionOnSet(g, rest)
  BY <1>1, <1>2, SumRemove DEF rest
<1>7. SumFunctionOnSet(f, rest) \in Int
  <2>1. \A x \in rest : f[x] \in Int
    BY <1>2 DEF rest
  <2> QED BY <1>3, <2>1, SumType
<1>8. SumFunction(g) = SumFunction(f) - f[k] + v
  BY <1>1, <1>2, <1>4, <1>5, <1>6, <1>7 DEF SumFunction
<1> QED BY <1>8 DEF g

\* Two functions that differ at one key at most.
LEMMA SumChange ==
    ASSUME NEW S, IsFiniteSet(S), NEW f \in [S -> Int], NEW g \in [S -> Int], NEW k \in S,
           \A x \in S \ {k} : g[x] = f[x]
    PROVE  /\ SumFunction(f) \in Int
           /\ SumFunction(g) = SumFunction(f) - f[k] + g[k]
<1>1. g = [f EXCEPT ![k] = g[k]] /\ g[k] \in Int
  OBVIOUS
<1>2. SumFunction([f EXCEPT ![k] = g[k]]) = SumFunction(f) - f[k] + g[k]
  <2>1. ASSUME NEW v \in Int
        PROVE  SumFunction([f EXCEPT ![k] = v]) = SumFunction(f) - f[k] + v
    BY SumUpdate
  <2> QED BY <1>1, <2>1, Zenon
<1> QED BY <1>1, <1>2, SumFunctionType, Zenon

\* The sum of smaller values is no larger.
LEMMA SumMonotone ==
    ASSUME NEW S, IsFiniteSet(S), NEW f, NEW g,
           \A x \in S : f[x] \in Int /\ g[x] \in Int /\ f[x] <= g[x]
    PROVE  SumFunctionOnSet(f, S) <= SumFunctionOnSet(g, S)
<1> DEFINE Bad == {s \in SUBSET S : ~(SumFunctionOnSet(f, s) <= SumFunctionOnSet(g, s))}
<1> SUFFICES ASSUME Bad # {} PROVE FALSE
  OBVIOUS
<1>1. PICK s \in Bad : \A t \in Bad : t \subseteq s => t = s
  <2>1. Bad \in SUBSET (SUBSET S)
    OBVIOUS
  <2> HIDE DEF Bad
  <2> QED BY <2>1, SmallestSet
<1>2. CASE s = {}
  BY <1>1, <1>2, SumEmpty
<1>3. CASE s # {}
  <2> DEFINE r == s \ {Pick(s)}
  <2>1. Pick(s) \in s /\ IsFiniteSet(s)
    BY <1>3, PickIn, FS_Subset
  <2>2. IsFiniteSet(r) /\ \A x \in r : f[x] \in Int /\ g[x] \in Int
    BY <2>1, FS_Subset
  <2>3. SumFunctionOnSet(f, r) <= SumFunctionOnSet(g, r)
    BY <1>1, <2>1
  <2> HIDE DEF r
  <2>4. SumFunctionOnSet(f, r) \in Int /\ SumFunctionOnSet(g, r) \in Int
    BY <2>2, SumType
  <2>5. /\ SumFunctionOnSet(f, s) = f[Pick(s)] + SumFunctionOnSet(f, r)
        /\ SumFunctionOnSet(g, s) = g[Pick(s)] + SumFunctionOnSet(g, r)
    BY <1>3, <2>1, SumUnfold DEF r
  <2>6. f[Pick(s)] \in Int /\ g[Pick(s)] \in Int /\ f[Pick(s)] <= g[Pick(s)]
    BY <2>1
  <2> HIDE DEF Bad
  <2>7. SumFunctionOnSet(f, s) <= SumFunctionOnSet(g, s)
    BY <2>3, <2>4, <2>5, <2>6
  <2> QED BY <1>1, <2>7 DEF Bad
<1> QED BY <1>2, <1>3

\* Where every value rises by c times that of h, the sum does.
LEMMA SumLinear ==
    ASSUME NEW S, IsFiniteSet(S), NEW f, NEW g, NEW h, NEW c \in Int,
           \A x \in S : f[x] \in Int /\ h[x] \in Int /\ g[x] = f[x] + h[x] * c
    PROVE  SumFunctionOnSet(g, S) = SumFunctionOnSet(f, S) + SumFunctionOnSet(h, S) * c
<1> DEFINE Ok(s) == SumFunctionOnSet(g, s) = SumFunctionOnSet(f, s) + SumFunctionOnSet(h, s) * c
           Bad == {s \in SUBSET S : ~Ok(s)}
<1> SUFFICES ASSUME Bad # {} PROVE FALSE
  OBVIOUS
<1>1. PICK s \in Bad : \A t \in Bad : t \subseteq s => t = s
  <2>1. Bad \in SUBSET (SUBSET S)
    OBVIOUS
  <2> HIDE DEF Bad
  <2> QED BY <2>1, SmallestSet
<1>2. CASE s = {}
  <2>1. \A k \in {f, g, h} : SumFunctionOnSet(k, s) = 0
    BY <1>2, SumEmpty
  <2> QED BY <1>1, <2>1
<1>3. CASE s # {}
  <2> DEFINE r == s \ {Pick(s)}
  <2>1. Pick(s) \in s /\ IsFiniteSet(s)
    BY <1>3, PickIn, FS_Subset
  <2>2. IsFiniteSet(r) /\ \A x \in r : f[x] \in Int /\ h[x] \in Int
    BY <2>1, FS_Subset
  <2>3. Ok(r)
    BY <1>1, <2>1
  <2> HIDE DEF r
  <2>4. SumFunctionOnSet(f, r) \in Int /\ SumFunctionOnSet(h, r) \in Int
    BY <2>2, SumType
  <2>5. /\ SumFunctionOnSet(f, s) = f[Pick(s)] + SumFunctionOnSet(f, r)
        /\ SumFunctionOnSet(g, s) = g[Pick(s)] + SumFunctionOnSet(g, r)
        /\ SumFunctionOnSet(h, s) = h[Pick(s)] + SumFunctionOnSet(h, r)
    BY <1>3, <2>1, SumUnfold DEF r
  <2>6. /\ f[Pick(s)] \in Int /\ h[Pick(s)] \in Int
        /\ g[Pick(s)] = f[Pick(s)] + h[Pick(s)] * c
    BY <2>1
  <2> HIDE DEF Bad
  <2>7. ASSUME NEW x \in Int, NEW y \in Int PROVE (x + y) * c = x * c + y * c
    OBVIOUS
  <2>8. (h[Pick(s)] + SumFunctionOnSet(h, r)) * c = h[Pick(s)] * c + SumFunctionOnSet(h, r) * c
    BY <2>4, <2>6, <2>7
  <2>9. h[Pick(s)] * c \in Int /\ SumFunctionOnSet(h, r) * c \in Int
    BY <2>4, <2>6
  <2>10. Ok(s)
    BY <2>3, <2>4, <2>5, <2>6, <2>8, <2>9
  <2> QED BY <1>1, <2>10 DEF Bad
<1> QED BY <1>2, <1>3

\* Where nothing is negative, no key has more than the sum.
LEMMA PartWithinSum ==
    ASSUME NEW S, IsFiniteSet(S), NEW f \in [S -> Nat], NEW k \in S
    PROVE  SumFunction(f) \in Nat /\ f[k] <= SumFunction(f)
<1> DEFINE g == [f EXCEPT ![k] = 0]
           zeros == [x \in S |-> 0]
<1>1. DOMAIN f = S /\ DOMAIN g = S /\ DOMAIN zeros = S /\ f \in [S -> Int] /\ f[k] \in Nat
  OBVIOUS
<1>2. \A x \in S : zeros[x] \in Int /\ g[x] \in Int /\ zeros[x] <= g[x]
  OBVIOUS
<1>3. SumFunction(zeros) = 0
  <2>1. SumFunction([x \in S |-> 0]) = 0
    BY SumOfZeros
  <2> QED BY <2>1
<1>4. SumFunction(zeros) <= SumFunction(g)
  <2> HIDE DEF zeros, g
  <2> QED BY <1>1, <1>2, SumMonotone DEF SumFunction
<1>5. SumFunction(g) = SumFunction(f) - f[k]
  <2>1. ASSUME NEW v \in Int
        PROVE  SumFunction([f EXCEPT ![k] = v]) = SumFunction(f) - f[k] + v
    BY <1>1, SumUpdate
  <2>2. SumFunction(f) \in Int
    BY <1>1, SumFunctionType
  <2>3. SumFunction([f EXCEPT ![k] = 0]) = SumFunction(f) - f[k] + 0
    <3>1. 0 \in Int
      OBVIOUS
    <3> QED BY <2>1, <3>1, Zenon
  <2> QED BY <1>1, <2>2, <2>3
<1>6. SumFunction(f) \in Int
  BY <1>1, SumFunctionType
<1> HIDE DEF g, zeros
<1> QED BY <1>1, <1>3, <1>4, <1>5, <1>6

\* n goes from one key to another.
Carries(f, g, S, a, b, n) ==
    \A x \in S : g[x] = f[x] - (IF x = a THEN n ELSE 0) + (IF x = b THEN n ELSE 0)

\* What goes from one key to another leaves the sum as it is.
LEMMA SumOfMove ==
    ASSUME NEW S, IsFiniteSet(S), NEW f \in [S -> Nat], NEW a \in S, NEW b \in S,
           NEW n \in Nat, NEW g \in [S -> Nat], Carries(f, g, S, a, b, n)
    PROVE  SumFunction(g) = SumFunction(f)
<1> DEFINE h == [f EXCEPT ![a] = f[a] - n]
<1>1. h \in [S -> Int] /\ h[a] = f[a] - n /\ \A x \in S \ {a} : h[x] = f[x]
  OBVIOUS
<1>2. f \in [S -> Int] /\ g \in [S -> Int]
  OBVIOUS
<1>3. g[b] = h[b] + n /\ \A x \in S \ {b} : g[x] = h[x]
  BY DEF Carries
<1> HIDE DEF h
<1>5. SumFunction(f) \in Int /\ SumFunction(h) = SumFunction(f) - f[a] + h[a]
  BY ONLY IsFiniteSet(S), <1>1, <1>2, a \in S, SumChange
<1>6. SumFunction(h) \in Int /\ SumFunction(g) = SumFunction(h) - h[b] + g[b]
  BY ONLY IsFiniteSet(S), <1>1, <1>2, <1>3, b \in S, SumChange
<1>7. f[a] \in Int /\ h[b] \in Int
  BY <1>1, <1>2
<1> QED BY <1>1, <1>3, <1>5, <1>6, <1>7

\* What one key gains or loses the sum gains or loses.
LEMMA SumOfChange ==
    ASSUME NEW S, IsFiniteSet(S), NEW f \in [S -> Nat], NEW k \in S, NEW g \in [S -> Nat],
           \A x \in S \ {k} : g[x] = f[x]
    PROVE  /\ SumFunction(f) \in Nat /\ f[k] <= SumFunction(f)
           /\ SumFunction(g) = SumFunction(f) - f[k] + g[k]
<1>2. f \in [S -> Int] /\ g \in [S -> Int]
  OBVIOUS
<1>3. SumFunction(f) \in Nat /\ f[k] <= SumFunction(f)
  BY PartWithinSum
<1>4. SumFunction(g) = SumFunction(f) - f[k] + g[k]
  BY <1>2, SumChange
<1> QED BY <1>3, <1>4
=============================================================================
