------------------------------ MODULE SumProofs ------------------------------
(***************************************************************************)
(* Facts about sums over finite sets.  The models add with the folds of    *)
(* the community modules, which are recursive functions over subsets.      *)
(* That such a function exists is proved by a minimal subset for which it  *)
(* does not, and so is every fact about a sum.                             *)
(***************************************************************************)
EXTENDS Integers, Functions, FiniteSetTheorems, WellFoundedInduction, TLAPS

Pick(T) == CHOOSE x \in T : TRUE

(* g is the partial sums of f over the subsets of S                        *)
Adds(g, f, S) == g = [T \in SUBSET S |-> IF T = {} THEN 0 ELSE f[Pick(T)] + g[T \ {Pick(T)}]]

Partial(f, S) == CHOOSE g : Adds(g, f, S)
Sum(f, S) == Partial(f, S)[S]

(* A family of subsets of a finite set has a minimal member.               *)
LEMMA MinSubset ==
  ASSUME NEW S, IsFiniteSet(S), NEW C \in SUBSET SUBSET S, C # {}
  PROVE  \E m \in C : \A y \in C : y \subseteq m => y = m
<1>1. IsWellFoundedOn(StrictSubsetOrdering(S), SUBSET S)
  BY FS_StrictSubsetOrderingWellFounded, FS_FiniteSubsetsOfFinite, Zenon
<1>2. \E m \in C : \A y \in C : ~ (<<y, m>> \in StrictSubsetOrdering(S))
  BY <1>1, WFMin, Zenon
<1> QED BY <1>2 DEF StrictSubsetOrdering

LEMMA PickIn ==
  ASSUME NEW T, T # {}
  PROVE  Pick(T) \in T /\ T \ {Pick(T)} \subseteq T /\ T \ {Pick(T)} # T
<1>1. \E x \in T : TRUE
  OBVIOUS
<1>2. Pick(T) \in T
  BY <1>1 DEF Pick
<1> QED BY <1>2

(* Induction over the subsets of a finite set, for a family given as a set. *)
LEMMA SubsetInduction ==
  ASSUME NEW S, IsFiniteSet(S), NEW G \in SUBSET SUBSET S, {} \in G,
         \A T \in SUBSET S : T # {} /\ T \ {Pick(T)} \in G => T \in G
  PROVE  G = SUBSET S
<1> DEFINE C == (SUBSET S) \ G
<1> SUFFICES ASSUME C # {} PROVE FALSE
  OBVIOUS
<1>0. C \in SUBSET SUBSET S
  OBVIOUS
<1>1. PICK m \in C : \A y \in C : y \subseteq m => y = m
  <2> HIDE DEF C
  <2> QED BY <1>0, MinSubset
<1>2. m # {}
  BY <1>1
<1>3. m \ {Pick(m)} \in SUBSET S /\ m \ {Pick(m)} \subseteq m /\ m \ {Pick(m)} # m
  BY <1>1, <1>2, PickIn
<1>4. m \ {Pick(m)} \in G
  BY <1>1, <1>3
<1> QED BY <1>1, <1>2, <1>4

(* The partial sums are unique ...                                         *)
LEMMA AddsUnique ==
  ASSUME NEW S, IsFiniteSet(S), NEW f, NEW g, NEW h, NEW R \in SUBSET S, Adds(g, f, S), Adds(h, f, R)
  PROVE  \A T \in SUBSET R : g[T] = h[T]
<1> DEFINE G == {T \in SUBSET R : g[T] = h[T]}
<1>1. IsFiniteSet(R)
  BY FS_Subset
<1>2. {} \in G
  BY DEF Adds
<1>3. ASSUME NEW T \in SUBSET R, T # {}, T \ {Pick(T)} \in G PROVE T \in G
  BY <1>3 DEF Adds
<1>4. G = SUBSET R
  <2> HIDE DEF G
  <2>1. G \in SUBSET SUBSET R
    BY DEF G
  <2> QED BY <1>1, <1>2, <1>3, <2>1, SubsetInduction
<1> QED BY <1>4

(* ... and there are some.                                                 *)
LEMMA AddsExist ==
  ASSUME NEW S, IsFiniteSet(S), NEW f, \A x \in S : f[x] \in Int
  PROVE  \E g \in [SUBSET S -> Int] : Adds(g, f, S)
<1> DEFINE Fit(T) == \E g \in [SUBSET T -> Int] : Adds(g, f, T)
           C == {T \in SUBSET S : ~Fit(T)}
<1> SUFFICES ASSUME C # {} PROVE FALSE
  <2>1. S \in SUBSET S
    OBVIOUS
  <2> QED BY <2>1
<1>1. PICK T \in C : \A U \in C : U \subseteq T => U = T
  <2>1. C \in SUBSET SUBSET S
    OBVIOUS
  <2> HIDE DEF C
  <2> QED BY <2>1, MinSubset
<1> DEFINE w(U) == CHOOSE g \in [SUBSET U -> Int] : Adds(g, f, U)
<1>2. ASSUME NEW U \in SUBSET T, U # T PROVE w(U) \in [SUBSET U -> Int] /\ Adds(w(U), f, U)
  <2>1. Fit(U)
    BY <1>1, <1>2
  <2> QED BY <2>1
<1> HIDE DEF w
<1>3. ASSUME NEW U \in SUBSET T, U # T, U # {}
      PROVE  w(U)[U] = f[Pick(U)] + w(U \ {Pick(U)})[U \ {Pick(U)}]
  <2> DEFINE V == U \ {Pick(U)}
  <2>1. V \in SUBSET U /\ V # U /\ V \in SUBSET T /\ V # T
    BY <1>3, PickIn
  <2>2. w(U)[U] = f[Pick(U)] + w(U)[V]
    BY <1>2, <1>3 DEF Adds
  <2>3. Adds(w(U), f, U) /\ Adds(w(V), f, V) /\ IsFiniteSet(U)
    BY <1>2, <1>3, <2>1, FS_Subset
  <2>4. w(U)[V] = w(V)[V]
    <3> HIDE DEF V
    <3> QED BY <2>1, <2>3, AddsUnique
  <2> QED BY <2>2, <2>4
<1> DEFINE g == [U \in SUBSET T |-> IF U = {} THEN 0
                                   ELSE IF U = T THEN f[Pick(T)] + w(T \ {Pick(T)})[T \ {Pick(T)}]
                                   ELSE w(U)[U]]
<1>4. ASSUME NEW U \in SUBSET T, U # {}
      PROVE  g[U] = f[Pick(U)] + g[U \ {Pick(U)}] /\ g[U] \in Int
  <2> DEFINE V == U \ {Pick(U)}
  <2>1. V \in SUBSET T /\ V # T /\ Pick(U) \in S
    BY <1>1, <1>4, PickIn
  <2>2. w(V) \in [SUBSET V -> Int] /\ Adds(w(V), f, V)
    BY <1>2, <2>1
  <2>3. w(V)[V] \in Int
    BY <2>2
  <2>4. V = {} => w(V)[V] = 0
    BY <2>2 DEF Adds
  <2>5. g[V] = w(V)[V]
    BY <2>1, <2>4
  <2>6. g[U] = f[Pick(U)] + w(V)[V]
    BY <1>3, <1>4
  <2>7. f[Pick(U)] \in Int
    BY <2>1
  <2> HIDE DEF g
  <2> QED BY <2>3, <2>5, <2>6, <2>7
<1>5. g = [U \in SUBSET T |-> g[U]] /\ g[{}] = 0
  OBVIOUS
<1> HIDE DEF g
<1>6. g \in [SUBSET T -> Int]
  <2>1. ASSUME NEW U \in SUBSET T PROVE g[U] \in Int
    <3>1. CASE U = {}
      BY <1>5, <3>1
    <3>2. CASE U # {}
      BY <1>4, <3>2
    <3> QED BY <3>1, <3>2
  <2> QED BY <1>5, <2>1
<1>7. Adds(g, f, T)
  BY <1>4, <1>5 DEF Adds
<1> QED BY <1>1, <1>6, <1>7

(* What the partial sums of a function are.                                *)
AreSums(F, f, S) ==
  /\ F \in [SUBSET S -> Int]
  /\ F[{}] = 0
  /\ \A T \in SUBSET S : T # {} => F[T] = f[Pick(T)] + F[T \ {Pick(T)}]

LEMMA PartialFacts ==
  ASSUME NEW S, IsFiniteSet(S), NEW f, \A x \in S : f[x] \in Int
  PROVE  AreSums(Partial(f, S), f, S)
<1>1. PICK g \in [SUBSET S -> Int] : Adds(g, f, S)
  BY AddsExist
<1>2. Adds(Partial(f, S), f, S)
  BY <1>1 DEF Partial
<1>3. \A T \in SUBSET S : g[T] = Partial(f, S)[T]
  BY <1>1, <1>2, AddsUnique
<1>4. Partial(f, S) \in [SUBSET S -> Int]
  BY <1>1, <1>2, <1>3 DEF Adds
<1> QED BY <1>2, <1>4 DEF Adds, AreSums

-----------------------------------------------------------------------------
(* What a sum is                                                           *)

LEMMA SumType ==
  ASSUME NEW S, IsFiniteSet(S), NEW f, \A x \in S : f[x] \in Int
  PROVE  Sum(f, S) \in Int
<1>1. S \in SUBSET S
  OBVIOUS
<1> QED BY ZenonT(60), <1>1, PartialFacts DEF Sum, AreSums

(* Sums are linear.                                                        *)
LEMMA SumLinear ==
  ASSUME NEW S, IsFiniteSet(S), NEW f, NEW g, NEW h, NEW a \in Int, NEW b \in Int,
         \A x \in S : f[x] \in Int /\ g[x] \in Int /\ h[x] = a * f[x] + b * g[x]
  PROVE  Sum(h, S) = a * Sum(f, S) + b * Sum(g, S)
<1> DEFINE F == Partial(f, S)  H == Partial(g, S)  K == Partial(h, S)
           G == {T \in SUBSET S : K[T] = a * F[T] + b * H[T]}
<1>0. \A x \in S : h[x] \in Int
  OBVIOUS
<1>1. AreSums(F, f, S) /\ AreSums(H, g, S) /\ AreSums(K, h, S)
  <2>1. (\A y \in S : f[y] \in Int) /\ (\A y \in S : g[y] \in Int)
    OBVIOUS
  <2> QED BY <1>0, <2>1, PartialFacts, Zenon
<1> HIDE DEF F, H, K
<1>2. {} \in G
  BY <1>1 DEF AreSums
<1>3. ASSUME NEW T \in SUBSET S, T # {}, T \ {Pick(T)} \in G PROVE T \in G
  <2> DEFINE y == Pick(T)  V == T \ {Pick(T)}
  <2>1. y \in S /\ V \in SUBSET S
    BY <1>3, PickIn
  <2>2. F[V] \in Int /\ H[V] \in Int /\ f[y] \in Int /\ g[y] \in Int
    BY <1>1, <2>1 DEF AreSums
  <2>3. F[T] = f[y] + F[V] /\ H[T] = g[y] + H[V] /\ K[T] = (a * f[y] + b * g[y]) + (a * F[V] + b * H[V])
    BY <1>1, <1>3, <2>1 DEF AreSums
  <2> HIDE DEF y, V
  <2>4. K[T] = a * F[T] + b * H[T]
    BY <2>2, <2>3
  <2> QED BY <2>4
<1>4. G = SUBSET S
  <2>1. G \in SUBSET SUBSET S
    OBVIOUS
  <2> HIDE DEF G
  <2> QED BY <1>2, <1>3, <2>1, SubsetInduction
<1>5. S \in G
  BY <1>4
<1> QED BY <1>5 DEF Sum, F, H, K

(* ... and monotone, ...                                                   *)
LEMMA SumMonotone ==
  ASSUME NEW S, IsFiniteSet(S), NEW f, NEW g,
         \A x \in S : f[x] \in Int /\ g[x] \in Int /\ f[x] <= g[x]
  PROVE  Sum(f, S) <= Sum(g, S)
<1> DEFINE F == Partial(f, S)  H == Partial(g, S)
           G == {T \in SUBSET S : F[T] <= H[T]}
<1>1. AreSums(F, f, S) /\ AreSums(H, g, S)
  <2>1. (\A y \in S : f[y] \in Int) /\ (\A y \in S : g[y] \in Int)
    OBVIOUS
  <2> QED BY <2>1, PartialFacts, Zenon
<1> HIDE DEF F, H
<1>2. {} \in G
  BY <1>1 DEF AreSums
<1>3. ASSUME NEW T \in SUBSET S, T # {}, T \ {Pick(T)} \in G PROVE T \in G
  <2> DEFINE y == Pick(T)  V == T \ {Pick(T)}
  <2>1. y \in S /\ V \in SUBSET S
    BY <1>3, PickIn
  <2>2. F[V] \in Int /\ H[V] \in Int /\ f[y] \in Int /\ g[y] \in Int /\ f[y] <= g[y]
    BY <1>1, <2>1 DEF AreSums
  <2>3. F[T] = f[y] + F[V] /\ H[T] = g[y] + H[V] /\ F[V] <= H[V]
    BY <1>1, <1>3 DEF AreSums
  <2> HIDE DEF y, V
  <2> QED BY <2>2, <2>3
<1>4. G = SUBSET S
  <2>1. G \in SUBSET SUBSET S
    OBVIOUS
  <2> HIDE DEF G
  <2> QED BY <1>2, <1>3, <2>1, SubsetInduction
<1>5. S \in G
  BY <1>4
<1> QED BY <1>5 DEF Sum, F, H

(* ... and a change of one value changes them by as much.                  *)
LEMMA SumChange ==
  ASSUME NEW S, IsFiniteSet(S), NEW f, NEW g, NEW x \in S,
         \A y \in S : f[y] \in Int /\ g[y] \in Int /\ (y # x => g[y] = f[y])
  PROVE  Sum(g, S) = Sum(f, S) + g[x] - f[x]
<1> DEFINE F == Partial(f, S)  H == Partial(g, S)
           G == {T \in SUBSET S : H[T] = F[T] + (IF x \in T THEN g[x] - f[x] ELSE 0)}
<1>1. AreSums(F, f, S) /\ AreSums(H, g, S)
  <2>1. (\A y \in S : f[y] \in Int) /\ (\A y \in S : g[y] \in Int)
    OBVIOUS
  <2> QED BY <2>1, PartialFacts, Zenon
<1> HIDE DEF F, H
<1>2. {} \in G
  BY <1>1 DEF AreSums
<1>3. ASSUME NEW T \in SUBSET S, T # {}, T \ {Pick(T)} \in G PROVE T \in G
  <2> DEFINE y == Pick(T)  V == T \ {Pick(T)}
  <2>1. y \in S /\ y \in T /\ V \in SUBSET S
    BY <1>3, PickIn
  <2>2. F[V] \in Int /\ H[V] \in Int /\ f[y] \in Int /\ g[y] \in Int /\ f[x] \in Int /\ g[x] \in Int
    BY <1>1, <2>1 DEF AreSums
  <2>3. F[T] = f[y] + F[V] /\ H[T] = g[y] + H[V]
        /\ H[V] = F[V] + (IF x \in V THEN g[x] - f[x] ELSE 0)
    BY <1>1, <1>3 DEF AreSums
  <2>4. CASE y = x
    <3>1. x \notin V /\ x \in T
      BY <2>1, <2>4
    <3> HIDE DEF y, V
    <3> QED BY <2>2, <2>3, <2>4, <3>1
  <2>5. CASE y # x
    <3>1. (x \in V <=> x \in T) /\ g[y] = f[y]
      BY <2>1, <2>5
    <3> HIDE DEF y, V
    <3>2. H[V] = F[V] + (IF x \in T THEN g[x] - f[x] ELSE 0)
      BY <2>3, <3>1
    <3> QED BY <2>2, <2>3, <3>1, <3>2
  <2> QED BY <2>4, <2>5
<1>4. G = SUBSET S
  <2>1. G \in SUBSET SUBSET S
    OBVIOUS
  <2> HIDE DEF G
  <2> QED BY <1>2, <1>3, <2>1, SubsetInduction
<1>5. S \in G
  BY <1>4
<1>6. Sum(f, S) \in Int /\ f[x] \in Int /\ g[x] \in Int
  BY SumType
<1> QED BY <1>5, <1>6 DEF Sum, F, H

(* A sum of zeros is zero.                                                 *)
LEMMA SumZero ==
  ASSUME NEW S, IsFiniteSet(S), NEW f, \A x \in S : f[x] = 0
  PROVE  Sum(f, S) = 0
<1>1. Sum(f, S) = 0 * Sum(f, S) + 0 * Sum(f, S)
  <2>1. \A x \in S : f[x] \in Int /\ f[x] = 0 * f[x] + 0 * f[x]
    OBVIOUS
  <2> QED BY <2>1, SumLinear
<1> QED BY <1>1, SumType

(* The sums of the models are these.                                       *)
LEMMA SumFunctionIs ==
  ASSUME NEW f
  PROVE  SumFunction(f) = Sum(f, DOMAIN f)
BY DEF SumFunction, SumFunctionOnSet, FoldFunctionOnSet, MapThenFoldSet, Sum, Partial, Adds, Pick

=============================================================================
