----------------------- MODULE PortfolioHistory_proofs -----------------------
(***************************************************************************)
(* PortfolioHistory for any assets, interval, windows and prices: what is   *)
(* filed, when it is filed, the curve cut out of it and the two figures.    *)
(*                                                                         *)
(* The argument has three parts that need each other little.  The sum under *)
(* way is what the account was worth, split over the assets still to be     *)
(* priced, the missed ones and the priced ones (Split).  The clock is never *)
(* far ahead of the last snapshot taken (Punctual).  And selecting from     *)
(* rows keeps their order, so that the loop over a curve sees its points as *)
(* they were filed.                                                        *)
(***************************************************************************)
EXTENDS PortfolioHistory, FiniteSetTheorems, WellFoundedInduction, TLAPS

-----------------------------------------------------------------------------
(* Induction and recursion *)

\* A nonempty set of natural numbers has a least element.
LEMMA LeastNat ==
    ASSUME NEW T \in SUBSET Nat, T # {}
    PROVE  \E x \in T : \A y \in T : x <= y
<1> DEFINE U == {0..x : x \in T}
<1>1. U \subseteq FiniteSubsetsOf(Nat) /\ U # {}
  <2>1. ASSUME NEW x \in T
        PROVE  0..x \in FiniteSubsetsOf(Nat)
    <3>1. IsFiniteSet(0..x)
      BY FS_Interval
    <3> QED
      BY <3>1 DEF FiniteSubsetsOf
  <2> QED
    BY <2>1
<1>2. PICK m \in U : \A n \in U : <<n, m>> \notin StrictSubsetOrdering(Nat)
  <2>1. IsWellFoundedOn(StrictSubsetOrdering(Nat), FiniteSubsetsOf(Nat))
    BY FS_StrictSubsetOrderingWellFounded
  <2> HIDE DEF U
  <2> QED
    BY <1>1, <2>1, WFMin
<1>3. PICK x \in T : m = 0..x
  BY <1>2
<1>4. ASSUME NEW y \in T, y < x
      PROVE  FALSE
  <2>1. 0..y \in U
    OBVIOUS
  <2>2. 0..y \subseteq 0..x /\ 0..y # 0..x
    <3>1. x \in 0..x /\ x \notin 0..y
      BY <1>4
    <3> QED
      BY <1>4, <3>1
  <2>3. 0..y \in SUBSET Nat /\ 0..x \in SUBSET Nat
    OBVIOUS
  <2>4. <<0..y, 0..x>> \in StrictSubsetOrdering(Nat)
    BY <2>2, <2>3 DEF StrictSubsetOrdering
  <2> QED
    BY <1>2, <1>3, <2>1, <2>4
<1> QED
  BY <1>4

\* Induction over a set: it holds every number if it holds 0 and successors.
LEMMA Induction ==
    ASSUME NEW S, 0 \in S, \A n \in Nat : n \in S => n + 1 \in S
    PROVE  \A n \in Nat : n \in S
<1> SUFFICES ASSUME Nat \ S # {}
             PROVE  FALSE
  OBVIOUS
<1>1. PICK x \in Nat \ S : \A y \in Nat \ S : x <= y
  BY LeastNat
<1>2. x # 0 /\ x - 1 \in Nat
  OBVIOUS
<1>3. x - 1 \in S
  BY <1>1, <1>2
<1>4. (x - 1) + 1 = x
  OBVIOUS
<1> QED
  BY <1>2, <1>3, <1>4

\* r is what a recursion over 1..n with values in V runs through.
Runs(r, n, V, base, step) ==
    /\ r \in [0..n -> V]
    /\ r[0] = base
    /\ \A i \in 1..n : r[i] = step[<<i, r[i - 1]>>]

\* g takes the same steps wherever it is known to be in V.
Follows(g, n, V, base, step) ==
    /\ g[0] = base
    /\ \A i \in 1..n : g[i - 1] \in V => g[i] = step[<<i, g[i - 1]>>]

\* Every recursion with typed steps has a run.
LEMMA RunExists ==
    ASSUME NEW V, NEW base \in V, NEW N \in Nat, NEW step \in [(1..N) \X V -> V]
    PROVE  \E r : Runs(r, N, V, base, step)
<1> DEFINE P(n) == \E r : Runs(r, n, V, base, step)
           S == {n \in Nat : n <= N => P(n)}
<1>1. 0 \in S
  <2> PICK r : r = [i \in 0..0 |-> base]
    OBVIOUS
  <2>1. Runs(r, 0, V, base, step)
    BY DEF Runs
  <2> QED
    BY <2>1
<1>2. ASSUME NEW n \in Nat, n \in S, n + 1 <= N
      PROVE  P(n + 1)
  <2>1. n <= N /\ P(n)
    BY <1>2
  <2>2. PICK g : Runs(g, n, V, base, step)
    BY <2>1
  <2> PICK k \in Nat : k = n + 1
    OBVIOUS
  <2> PICK h : h = [i \in 0..k |-> IF i = k THEN step[<<k, g[n]>>] ELSE g[i]]
    OBVIOUS
  <2>3. k \in 1..N /\ n \in 0..n /\ g \in [0..n -> V]
    BY <1>2, <2>2 DEF Runs
  <2>4. step[<<k, g[n]>>] \in V
    BY <2>3
  <2>5. \A i \in 0..k : i # k => i \in 0..n
    OBVIOUS
  <2>6. h \in [0..k -> V]
    BY <2>3, <2>4, <2>5
  <2>7. h[0] = base
    BY <2>2 DEF Runs
  <2>8. ASSUME NEW i \in 1..k
        PROVE  h[i] = step[<<i, h[i - 1]>>]
    <3>1. i - 1 \in 0..k /\ i - 1 # k
      OBVIOUS
    <3>2. h[i - 1] = g[i - 1]
      BY <3>1
    <3>3. CASE i = k
      <4>1. i - 1 = n /\ h[k] = step[<<k, g[n]>>]
        BY <3>3
      <4> QED
        BY <3>2, <3>3, <4>1
    <3>4. CASE i # k
      <4>1. i \in 1..n
        BY <3>4
      <4>2. g[i] = step[<<i, g[i - 1]>>]
        BY <2>2, <4>1 DEF Runs
      <4>3. h[i] = g[i]
        BY <3>4
      <4> QED
        BY <3>2, <4>2, <4>3
    <3> QED
      BY <3>3, <3>4
  <2>9. Runs(h, k, V, base, step)
    BY <2>6, <2>7, <2>8 DEF Runs
  <2> QED
    BY <2>9
<1>3. ASSUME NEW n \in Nat, n \in S
      PROVE  n + 1 \in S
  <2>1. CASE n + 1 <= N
    BY <1>2, <1>3, <2>1
  <2>2. CASE ~ (n + 1 <= N)
    BY <2>2
  <2> QED
    BY <2>1, <2>2
<1> HIDE DEF S
<1>4. N \in S
  BY <1>1, <1>3, Induction
<1>5. N <= N => P(N)
  BY <1>4 DEF S
<1> QED
  BY <1>5

\* Whatever takes the same steps runs through the same values.
LEMMA RunsAgree ==
    ASSUME NEW V, NEW base, NEW n \in Nat, NEW step,
           NEW f, Runs(f, n, V, base, step),
           NEW g, Follows(g, n, V, base, step)
    PROVE  \A i \in 0..n : g[i] = f[i]
<1> DEFINE S == {i \in Nat : i <= n => g[i] = f[i]}
<1>1. 0 \in S
  BY DEF Runs, Follows
<1>2. ASSUME NEW i \in Nat, i \in S
      PROVE  i + 1 \in S
  <2> SUFFICES ASSUME i + 1 <= n
               PROVE  g[i + 1] = f[i + 1]
    OBVIOUS
  <2> PICK k \in Nat : k = i + 1
    OBVIOUS
  <2>1. i \in 0..n /\ k \in 1..n /\ k \in 0..n /\ k # 0 /\ k - 1 = i
    OBVIOUS
  <2>2. g[i] = f[i] /\ f[i] \in V
    BY <1>2, <2>1 DEF Runs
  <2>3. f[k] = step[<<k, f[i]>>]
    BY <2>1 DEF Runs
  <2>4. g[k] = step[<<k, g[i]>>]
    BY <2>1, <2>2 DEF Follows
  <2> QED
    BY <2>2, <2>3, <2>4
<1> HIDE DEF S
<1>3. \A i \in Nat : i \in S
  BY <1>1, <1>2, Induction
<1> QED
  BY <1>3 DEF S

-----------------------------------------------------------------------------
(* Sums over a finite set of assets *)

\* Induction over the subsets of a finite set.
LEMMA SubsetInduction ==
    ASSUME NEW T, IsFiniteSet(T), NEW P,
           \A s \in SUBSET T : (\A x \in s : s \ {x} \in P) => s \in P
    PROVE  \A s \in SUBSET T : s \in P
<1> DEFINE S == {n \in Nat : \A s \in SUBSET T : Cardinality(s) <= n => s \in P}
<1>0. \A s \in SUBSET T :
         /\ Cardinality(s) \in Nat
         /\ \A x \in s : /\ s \ {x} \in SUBSET T
                         /\ Cardinality(s \ {x}) = Cardinality(s) - 1
  BY FS_Subset, FS_CardinalityType, FS_RemoveElement
<1>1. 0 \in S
  <2> SUFFICES ASSUME NEW s \in SUBSET T, Cardinality(s) <= 0
               PROVE  s \in P
    OBVIOUS
  <2>1. IsFiniteSet(s) /\ Cardinality(s) = 0
    BY <1>0, FS_Subset
  <2>2. s = {}
    BY <2>1, FS_EmptySet
  <2> QED
    BY <2>2
<1>2. ASSUME NEW n \in Nat, n \in S
      PROVE  n + 1 \in S
  <2> SUFFICES ASSUME NEW s \in SUBSET T, Cardinality(s) <= n + 1
               PROVE  s \in P
    OBVIOUS
  <2>1. ASSUME NEW x \in s
        PROVE  s \ {x} \in P
    <3>1. s \ {x} \in SUBSET T /\ Cardinality(s \ {x}) <= n
      BY <1>0
    <3> QED
      BY <1>2, <3>1
  <2> QED
    BY <2>1
<1> HIDE DEF S
<1>3. \A n \in Nat : n \in S
  BY <1>1, <1>2, Induction
<1> QED
  BY <1>0, <1>3 DEF S

Picked(s) == CHOOSE x \in s : TRUE

Typed(f, T) == \A x \in T : f[x] \in Int

\* F is the sum of f over every subset of T, a term at a time.
Adds(F, f, T) ==
    /\ F[{}] = 0
    /\ \A s \in SUBSET T : s # {} => F[s] = f[Picked(s)] + F[s \ {Picked(s)}]
Sums(F, f, T) == F \in [SUBSET T -> Int] /\ Adds(F, f, T)

\* What is left of a finite set without the element picked is smaller.
LEMMA PickedRemoves ==
    ASSUME NEW T, IsFiniteSet(T), NEW s \in SUBSET T, s # {}
    PROVE  /\ IsFiniteSet(s) /\ Picked(s) \in s
           /\ s \ {Picked(s)} \in SUBSET T
           /\ Cardinality(s) \in Nat
           /\ Cardinality(s \ {Picked(s)}) = Cardinality(s) - 1
<1>1. IsFiniteSet(s)
  BY FS_Subset
<1>2. Picked(s) \in s
  BY DEF Picked
<1> QED
  BY <1>1, <1>2, FS_CardinalityType, FS_RemoveElement

LEMMA OnlyEmpty ==
    ASSUME NEW T, IsFiniteSet(T), NEW s \in SUBSET T, Cardinality(s) <= 0
    PROVE  s = {}
<1>1. IsFiniteSet(s)
  BY FS_Subset
<1>2. Cardinality(s) = 0
  BY <1>1, FS_CardinalityType
<1> QED
  BY <1>1, <1>2, FS_EmptySet

\* There are sums.
LEMMA SumsExist ==
    ASSUME NEW T, IsFiniteSet(T), NEW f, Typed(f, T)
    PROVE  \E F : Sums(F, f, T)
<1> DEFINE Up(F, n) ==
             /\ F \in [SUBSET T -> Int]
             /\ F[{}] = 0
             /\ \A s \in SUBSET T : s # {} /\ Cardinality(s) <= n =>
                    F[s] = f[Picked(s)] + F[s \ {Picked(s)}]
           S == {n \in Nat : \E F : Up(F, n)}
<1>1. 0 \in S
  <2> PICK F : F = [s \in SUBSET T |-> 0]
    OBVIOUS
  <2>1. \A s \in SUBSET T : s # {} => Cardinality(s) \in Nat /\ Cardinality(s) # 0
    BY FS_Subset, FS_CardinalityType, FS_EmptySet
  <2>2. Up(F, 0)
    BY <2>1
  <2> QED
    BY <2>2
<1>2. ASSUME NEW n \in Nat, n \in S
      PROVE  n + 1 \in S
  <2>1. PICK F : Up(F, n)
    BY <1>2
  <2> PICK G : G = [s \in SUBSET T |->
                      IF s = {} \/ Cardinality(s) <= n THEN F[s]
                      ELSE f[Picked(s)] + F[s \ {Picked(s)}]]
    OBVIOUS
  <2>2. G \in [SUBSET T -> Int] /\ G[{}] = 0
    <3>1. ASSUME NEW s \in SUBSET T
          PROVE  G[s] \in Int
      <4>1. CASE s = {} \/ Cardinality(s) <= n
        BY <2>1, <4>1
      <4>2. CASE ~ (s = {} \/ Cardinality(s) <= n)
        <5>1. f[Picked(s)] \in Int /\ F[s \ {Picked(s)}] \in Int
          BY <2>1, <4>2, PickedRemoves DEF Typed
        <5> QED
          BY <4>2, <5>1
      <4> QED
        BY <4>1, <4>2
    <3> QED
      BY <2>1, <3>1
  <2>3. ASSUME NEW s \in SUBSET T, s # {}, Cardinality(s) <= n + 1
        PROVE  G[s] = f[Picked(s)] + G[s \ {Picked(s)}]
    <3>1. /\ s \ {Picked(s)} \in SUBSET T
          /\ Cardinality(s) \in Nat
          /\ Cardinality(s \ {Picked(s)}) = Cardinality(s) - 1
      BY <2>3, PickedRemoves
    <3>2. Cardinality(s \ {Picked(s)}) <= n
      BY <2>3, <3>1
    <3>3. G[s \ {Picked(s)}] = F[s \ {Picked(s)}]
      BY <3>1, <3>2
    <3>4. CASE Cardinality(s) <= n
      BY <2>1, <2>3, <3>3, <3>4
    <3>5. CASE ~ (Cardinality(s) <= n)
      BY <2>3, <3>3, <3>5
    <3> QED
      BY <3>4, <3>5
  <2>4. Up(G, n + 1)
    BY <2>2, <2>3
  <2> HIDE DEF Up
  <2> QED
    BY <2>4
<1> HIDE DEF S
<1>3. Cardinality(T) \in Nat
  BY FS_CardinalityType
<1>4. Cardinality(T) \in S
  BY <1>1, <1>2, <1>3, Induction
<1> USE DEF S
<1>5. PICK F : Up(F, Cardinality(T))
  BY <1>4
<1>6. \A s \in SUBSET T : Cardinality(s) <= Cardinality(T)
  BY FS_Subset
<1>7. Sums(F, f, T)
  BY <1>5, <1>6 DEF Sums, Adds
<1> QED
  BY <1>7

\* Two sums of terms that agree agree.
LEMMA SumsAgree ==
    ASSUME NEW T, IsFiniteSet(T), NEW f, NEW g, NEW F, NEW G,
           \A x \in T : f[x] = g[x],
           Adds(F, f, T), Adds(G, g, T)
    PROVE  \A s \in SUBSET T : F[s] = G[s]
<1> DEFINE P == {s \in SUBSET T : F[s] = G[s]}
<1>1. ASSUME NEW s \in SUBSET T, \A x \in s : s \ {x} \in P
      PROVE  s \in P
  <2>1. CASE s = {}
    BY <2>1 DEF Adds
  <2>2. CASE s # {}
    <3>1. Picked(s) \in s
      BY <2>2 DEF Picked
    <3>2. F[s \ {Picked(s)}] = G[s \ {Picked(s)}]
      BY <1>1, <3>1
    <3>3. f[Picked(s)] = g[Picked(s)]
      BY <3>1
    <3> QED
      BY <2>2, <3>2, <3>3 DEF Adds
  <2> QED
    BY <2>1, <2>2
<1> HIDE DEF P
<1>2. \A s \in SUBSET T : s \in P
  BY <1>1, SubsetInduction
<1> QED
  BY <1>2 DEF P

\* The library's sum is one of them.
LEMMA SumIsOne ==
    ASSUME NEW T, IsFiniteSet(T), NEW f, Typed(f, T), NEW F, Sums(F, f, T)
    PROVE  SumFunctionOnSet(f, T) = F[T]
<1> DEFINE Eq(G) == G = [s \in SUBSET T |->
                           IF s = {} THEN 0
                           ELSE f[Picked(s)] + G[s \ {Picked(s)}]]
<1>1. SumFunctionOnSet(f, T) = (CHOOSE G : Eq(G))[T]
  BY DEF SumFunctionOnSet, FoldFunctionOnSet, MapThenFoldSet, Picked
<1>2. Eq(F)
  BY DEF Sums, Adds
<1> HIDE DEF Eq
<1>3. PICK G : Eq(G) /\ SumFunctionOnSet(f, T) = G[T]
  <2> PICK C : C = CHOOSE G : Eq(G)
    OBVIOUS
  <2>1. Eq(C)
    BY <1>2
  <2> QED
    BY <1>1, <2>1
<1>4. Adds(G, f, T)
  BY <1>3 DEF Eq, Adds
<1>5. \A s \in SUBSET T : G[s] = F[s]
  BY <1>4, SumsAgree DEF Sums
<1> QED
  BY <1>3, <1>5

\* So is the sum over a subset.
LEMMA PartSums ==
    ASSUME NEW T, IsFiniteSet(T), NEW f, Typed(f, T)
    PROVE  \E F : Sums(F, f, T) /\ \A s \in SUBSET T : SumFunctionOnSet(f, s) = F[s]
<1> PICK F : Sums(F, f, T)
  BY SumsExist
<1>1. ASSUME NEW s \in SUBSET T
      PROVE  SumFunctionOnSet(f, s) = F[s]
  <2>1. IsFiniteSet(s) /\ Typed(f, s)
    BY FS_Subset DEF Typed
  <2>2. PICK G : Sums(G, f, s)
    BY <2>1, SumsExist
  <2>3. \A u \in SUBSET s : G[u] = F[u]
    <3>1. \A u \in SUBSET s : u \in SUBSET T
      OBVIOUS
    <3>2. Adds(F, f, s)
      BY <3>1 DEF Sums, Adds
    <3> QED
      BY <2>1, <2>2, <3>2, SumsAgree DEF Sums
  <2> QED
    BY <2>1, <2>2, <2>3, SumIsOne
<1> QED
  BY <1>1

\* Any term can be taken out of a sum, and a sum of natural numbers is one.
LEMMA SumTakesOut ==
    ASSUME NEW T, IsFiniteSet(T), NEW f, Typed(f, T)
    PROVE  /\ SumFunctionOnSet(f, {}) = 0
           /\ SumFunctionOnSet(f, T) \in Int
           /\ \A x \in T : SumFunctionOnSet(f, T) = f[x] + SumFunctionOnSet(f, T \ {x})
           /\ (\A x \in T : f[x] \in Nat) => SumFunctionOnSet(f, T) \in Nat
<1>1. PICK F : Sums(F, f, T) /\ \A s \in SUBSET T : SumFunctionOnSet(f, s) = F[s]
  BY PartSums
<1>2. /\ \A s \in SUBSET T : F[s] \in Int
      /\ F[{}] = 0
      /\ \A s \in SUBSET T : s # {} => F[s] = f[Picked(s)] + F[s \ {Picked(s)}]
      /\ \A x \in T : f[x] \in Int
  BY <1>1 DEF Sums, Adds, Typed
<1> DEFINE P == {s \in SUBSET T : \A x \in s : F[s] = f[x] + F[s \ {x}]}
           Q == {s \in SUBSET T : (\A x \in T : f[x] \in Nat) => F[s] \in Nat}
<1>3. ASSUME NEW s \in SUBSET T, \A x \in s : s \ {x} \in P
      PROVE  s \in P
  <2> SUFFICES ASSUME NEW x \in s, NEW p \in s, p = Picked(s), p # x
               PROVE  F[s] = f[x] + F[s \ {x}]
    <3>1. \A x \in s : Picked(s) \in s
      BY DEF Picked
    <3> QED
      BY <1>2, <3>1
  <2>1. F[s] = f[p] + F[s \ {p}]
    BY <1>2
  <2>2. F[s \ {p}] = f[x] + F[(s \ {p}) \ {x}]
    BY <1>3
  <2>3. F[s \ {x}] = f[p] + F[(s \ {x}) \ {p}]
    BY <1>3
  <2> PICK r \in SUBSET T : r = (s \ {x}) \ {p} /\ r = (s \ {p}) \ {x}
    OBVIOUS
  <2>4. F[r] \in Int /\ f[p] \in Int /\ f[x] \in Int
    BY <1>2
  <2> PICK u \in Int, v \in Int, z \in Int : u = f[x] /\ v = f[p] /\ z = F[r]
    BY <2>4
  <2>5. F[s] = v + (u + z) /\ F[s \ {x}] = v + z /\ f[x] = u
    BY <2>1, <2>2, <2>3
  <2>6. v + (u + z) = u + (v + z)
    OBVIOUS
  <2> QED
    BY <2>5, <2>6
<1>4. ASSUME NEW s \in SUBSET T, \A x \in s : s \ {x} \in Q
      PROVE  s \in Q
  <2>1. CASE s = {}
    BY <1>2, <2>1
  <2>2. CASE s # {}
    <3>1. Picked(s) \in s
      BY <2>2 DEF Picked
    <3>2. F[s] = f[Picked(s)] + F[s \ {Picked(s)}]
      BY <1>2, <2>2
    <3>3. ASSUME \A x \in T : f[x] \in Nat
          PROVE  F[s] \in Nat
      <4>1. f[Picked(s)] \in Nat /\ F[s \ {Picked(s)}] \in Nat
        BY <1>4, <3>1, <3>3
      <4> QED
        BY <3>2, <4>1
    <3> QED
      BY <3>3
  <2> QED
    BY <2>1, <2>2
<1> HIDE DEF P, Q
<1>5. \A s \in SUBSET T : s \in P
  BY <1>3, SubsetInduction
<1>6. \A s \in SUBSET T : s \in Q
  BY <1>4, SubsetInduction
<1>7. T \in P /\ T \in Q
  BY <1>5, <1>6
<1> QED
  BY <1>1, <1>2, <1>7 DEF P, Q

\* Sums of terms that agree agree.
LEMMA SumsSame ==
    ASSUME NEW T, IsFiniteSet(T), NEW f, NEW g, Typed(f, T), \A x \in T : f[x] = g[x]
    PROVE  SumFunctionOnSet(f, T) = SumFunctionOnSet(g, T)
<1>1. Typed(g, T)
  BY DEF Typed
<1>2. PICK F : Sums(F, f, T)
  BY SumsExist
<1>3. PICK G : Sums(G, g, T)
  BY <1>1, SumsExist
<1>4. F[T] = G[T]
  BY <1>2, <1>3, SumsAgree DEF Sums
<1> QED
  BY <1>1, <1>2, <1>3, <1>4, SumIsOne

\* Terms that are 0 make a sum that is 0.
LEMMA SumOfZeros ==
    ASSUME NEW T, IsFiniteSet(T), NEW f, \A x \in T : f[x] = 0
    PROVE  SumFunctionOnSet(f, T) = 0
<1>1. Typed(f, T)
  BY DEF Typed
<1>2. PICK F : Sums(F, f, T)
  BY <1>1, SumsExist
<1> PICK G : G = [s \in SUBSET T |-> 0]
  OBVIOUS
<1>3. Adds(G, f, T)
  <2>1. \A s \in SUBSET T : s # {} => f[Picked(s)] = 0
    BY DEF Picked
  <2> QED
    BY <2>1 DEF Adds
<1>4. F[T] = G[T]
  <2>1. \A x \in T : f[x] = f[x]
    OBVIOUS
  <2> QED
    BY <1>2, <1>3, <2>1, SumsAgree DEF Sums
<1> QED
  BY <1>1, <1>2, <1>4, SumIsOne

-----------------------------------------------------------------------------
(* Types and values *)

LEMMA Constants ==
    /\ IsFiniteSet(Assets) /\ Interval \in Nat /\ Interval > 0
    /\ MaxDelay \in Nat /\ Cash \in Nat /\ MaxPrice \in Nat /\ MaxClock \in Nat
    /\ MaxMoves \in Nat /\ MaxRestarts \in Nat
  BY HistoryAssumption

\* The value of some assets at prices.
LEMMA Valued ==
    ASSUME NEW s \in SUBSET Assets, NEW f \in [Assets -> 0..MaxPrice]
    PROVE  /\ IsFiniteSet(s) /\ Typed(f, s)
           /\ ValueOf(s, f) \in Nat
           /\ ValueOf({}, f) = 0
           /\ \A x \in s : ValueOf(s, f) = f[x] + ValueOf(s \ {x}, f)
<1>1. IsFiniteSet(s) /\ Typed(f, s) /\ \A x \in s : f[x] \in Nat
  BY Constants, FS_Subset DEF Typed
<1> QED
  BY <1>1, SumTakesOut DEF ValueOf

\* Buckets come before the times in them, and less than an interval before.
LEMMA BucketOf ==
    ASSUME NEW t \in Nat, NEW m \in Nat, m > 0
    PROVE  /\ Bucket(t, m) \in Nat /\ t \div m \in Nat
           /\ Bucket(t, m) <= t /\ t < Bucket(t, m) + m
<1> PICK q \in Nat : q = t \div m
  OBVIOUS
<1>1. q * m \in Nat /\ q * m <= t /\ t < q * m + m
  OBVIOUS
<1> QED
  BY <1>1 DEF Bucket

\* Multiples of m that are less than m apart are in order.
LEMMA Multiples ==
    ASSUME NEW p \in Int, NEW q \in Int, NEW m \in Nat, m > 0
    PROVE  /\ p * m < q * m + m => p <= q
           /\ p <= q => p * m <= q * m
<1>1. ASSUME NEW k \in Nat
      PROVE  k * m \in Nat
  BY <1>1
<1>2. ASSUME p <= q
      PROVE  p * m <= q * m
  <2>1. PICK k \in Nat : q = p + k
    BY <1>2
  <2>2. q * m = p * m + k * m
    BY <2>1
  <2>3. p * m \in Int
    OBVIOUS
  <2> QED
    BY <1>1, <2>2, <2>3
<1>3. ASSUME p * m < q * m + m, ~(p <= q)
      PROVE  FALSE
  <2>1. PICK k \in Nat : p = q + 1 + k
    <3>1. p - q - 1 \in Nat /\ p = q + 1 + (p - q - 1)
      BY <1>3
    <3> QED
      BY <3>1
  <2>2. p * m = q * m + m + k * m
    BY <2>1
  <2>3. q * m \in Int
    OBVIOUS
  <2> QED
    BY <1>1, <1>3, <2>2, <2>3
<1> QED
  BY <1>2, <1>3

\* A bucket that is not later than a time is not later than the time's.
LEMMA BucketsInOrder ==
    ASSUME NEW t \in Nat, NEW u \in Nat, NEW m \in Nat, m > 0, t <= u
    PROVE  Bucket(t, m) <= Bucket(u, m)
<1> PICK p \in Nat : p = t \div m
  OBVIOUS
<1> PICK q \in Nat : q = u \div m
  OBVIOUS
<1>1. p * m <= t /\ u < q * m + m /\ p * m \in Nat /\ q * m \in Nat
  BY BucketOf DEF Bucket
<1>2. p * m < q * m + m
  BY <1>1
<1>3. p * m <= q * m
  BY <1>2, Multiples
<1> QED
  BY <1>3 DEF Bucket

\* Less than three intervals after a bucket's begin is at most the second
\* bucket after it.
LEMMA TwoBucketsOn ==
    ASSUME NEW t \in Nat, NEW b \in Nat, NEW m \in Nat, m > 0,
           b = Bucket(b, m), t < b + 3 * m
    PROVE  Bucket(t, m) <= b + 2 * m
<1> PICK p \in Nat : p = t \div m
  OBVIOUS
<1> PICK q \in Nat : q = b \div m
  OBVIOUS
<1> PICK k \in Int : k = q + 2
  OBVIOUS
<1>1. b = q * m
  BY DEF Bucket
<1>2. k * m = b + 2 * m
  BY <1>1
<1>3. p * m <= t /\ p * m \in Nat
  BY BucketOf DEF Bucket
<1>4. p * m < k * m + m
  BY <1>2, <1>3
<1>5. p * m <= k * m
  BY <1>4, Multiples
<1> QED
  BY <1>2, <1>5 DEF Bucket

-----------------------------------------------------------------------------
(* The invariant *)

\* A tick that has begun ends in time, and the next one begins in time.
Times ==
    /\ tick.began <= clock
    /\ tick.pc = "wait" =>
          clock <= tick.due /\ tick.due <= tick.began + MaxDelay + Interval
    /\ tick.pc # "wait" => clock <= tick.began + MaxDelay

\* Rows are filed in the order of their buckets, none ahead of the clock.
Filing ==
    /\ OnePerBucket
    /\ \A i \in 1..Len(rows) :
          rows[i].at = Bucket(rows[i].at, Interval) /\ rows[i].at <= clock
    /\ tick.pc = "insert" =>
          /\ tick.at = Bucket(tick.at, Interval)
          /\ tick.at <= clock /\ Bucket(tick.began, Interval) <= tick.at
          /\ tick.began < tick.at + Interval
          /\ \A i \in 1..Len(rows) : rows[i].at <= tick.at

\* What the account was worth is the cash, what is priced already, what is to
\* be priced yet and what was missed.
Split ==
    tick.worth = tick.free + tick.locked + ValueOf(tick.left, price)
                 + ValueOf(tick.missed, price) + ValueOf(Assets, tick.value)

Counted ==
    tick.pc \in {"price", "insert"} =>
        /\ tick.left \cap tick.missed = {}
        /\ \A a \in tick.left \cup tick.missed : tick.value[a] = 0
        /\ tick.pc = "insert" => tick.left = {}
        /\ tick.steady => Split

HistoryInv == TypeOK /\ Times /\ Filing /\ Counted

-----------------------------------------------------------------------------
(* What the steps do to the tick *)

LEMMA TickFields ==
    ASSUME TypeOK
    PROVE  /\ clock \in Nat /\ clock <= MaxClock
           /\ price \in [Assets -> 0..MaxPrice]
           /\ account.free \in Nat /\ account.locked \in Nat
           /\ account.held \in SUBSET Assets
           /\ tick.pc \in {"wait", "price", "insert", "simulate"}
           /\ tick.due \in Nat /\ tick.began \in Nat /\ tick.at \in Nat
           /\ tick.free \in Nat /\ tick.locked \in Nat /\ tick.worth \in Nat
           /\ tick.left \in SUBSET Assets /\ tick.missed \in SUBSET Assets
           /\ tick.value \in [Assets -> 0..MaxPrice] /\ tick.steady \in BOOLEAN
           /\ rows \in Seq(Snapshot) /\ Len(rows) \in Nat
           /\ \A i \in 1..Len(rows) :
                 rows[i].at \in Nat /\ rows[i].total \in Nat /\ rows[i].broken \in BOOLEAN
<1>1. /\ clock \in Nat /\ clock <= MaxClock /\ price \in [Assets -> 0..MaxPrice]
      /\ account.free \in Nat /\ account.locked \in Nat
      /\ account.held \in SUBSET Assets
  BY Constants DEF TypeOK
<1>2. /\ tick.pc \in {"wait", "price", "insert", "simulate"}
      /\ tick.due \in Nat /\ tick.began \in Nat /\ tick.at \in Nat
      /\ tick.free \in Nat /\ tick.locked \in Nat /\ tick.worth \in Nat
      /\ tick.left \in SUBSET Assets /\ tick.missed \in SUBSET Assets
      /\ tick.value \in [Assets -> 0..MaxPrice] /\ tick.steady \in BOOLEAN
  BY DEF TypeOK, Tick
<1>3. rows \in Seq(Snapshot) /\ Len(rows) \in Nat
  BY DEF TypeOK
<1>4. ASSUME NEW i \in 1..Len(rows)
      PROVE  rows[i].at \in Nat /\ rows[i].total \in Nat /\ rows[i].broken \in BOOLEAN
  <2>1. rows[i] \in Snapshot
    BY <1>3
  <2> QED
    BY <2>1 DEF Snapshot
<1> QED
  BY <1>1, <1>2, <1>3, <1>4

LEMMA WaitingFields ==
    ASSUME NEW due \in Nat, NEW began \in Nat
    PROVE  /\ Waiting(due, began) \in Tick
           /\ Waiting(due, began).pc = "wait"
           /\ Waiting(due, began).due = due /\ Waiting(due, began).began = began
  BY Constants DEF Waiting, Tick, Unpriced

\* Something happens at Binance.
Traded == \/ Lock
          \/ \E a \in Assets : Buy(a) \/ Sell(a) \/ Move(a)

LEMMA TradedTick ==
    ASSUME TypeOK, Traded
    PROVE  /\ tick' \in Tick /\ UNCHANGED <<clock, rows, broken, restarts>>
           /\ UNCHANGED <<tick.pc, tick.due, tick.began, tick.at, tick.free,
                          tick.locked, tick.worth, tick.left, tick.missed, tick.value>>
           /\ tick'.steady => tick.steady /\ price' = price
           /\ account' \in [free : Nat, locked : Nat, held : SUBSET Assets]
           /\ price' \in [Assets -> 0..MaxPrice] /\ moves' \in 0..MaxMoves
<1>0. /\ tick \in Tick /\ price \in [Assets -> 0..MaxPrice] /\ moves \in Nat
      /\ account \in [free : Nat, locked : Nat, held : SUBSET Assets] /\ MaxMoves \in Nat
  BY Constants DEF TypeOK
<1>1. ASSUME NEW m \in BOOLEAN, Event(m)
      PROVE  /\ tick' \in Tick /\ UNCHANGED <<clock, rows, broken, restarts>>
             /\ UNCHANGED <<tick.pc, tick.due, tick.began, tick.at, tick.free,
                            tick.locked, tick.worth, tick.left, tick.missed, tick.value>>
             /\ tick'.steady = (tick.steady /\ ~m) /\ moves' \in 0..MaxMoves
  <2>1. tick' = [tick EXCEPT !.steady = @ /\ ~m]
    BY <1>1 DEF Event
  <2>2. moves' \in 0..MaxMoves /\ UNCHANGED <<clock, rows, broken, restarts>>
    BY <1>0, <1>1 DEF Event
  <2> QED
    BY <1>0, <2>1, <2>2 DEF Tick
<1>2. CASE Lock
  <2>1. Event(FALSE) /\ price' = price
    BY <1>2 DEF Lock
  <2>2. /\ account' = [account EXCEPT !.free = @ - 1, !.locked = @ + 1]
        /\ account.free > 0 /\ account.free \in Nat /\ account.locked \in Nat
    BY <1>0, <1>2 DEF Lock
  <2>3. account.free - 1 \in Nat /\ account.locked + 1 \in Nat
    BY <2>2
  <2>4. account' \in [free : Nat, locked : Nat, held : SUBSET Assets]
    BY <1>0, <2>2, <2>3
  <2> QED
    BY <1>0, <1>1, <2>1, <2>4
<1>3. ASSUME NEW a \in Assets, Buy(a) \/ Sell(a)
      PROVE  /\ Event(FALSE) /\ price' = price
             /\ account' \in [free : Nat, locked : Nat, held : SUBSET Assets]
  <2>1. Event(FALSE) /\ price' = price
    BY <1>3 DEF Buy, Sell
  <2>2. price[a] \in Nat /\ account.free \in Nat
    BY <1>0
  <2>3. CASE Buy(a)
    <3>1. /\ account' = [account EXCEPT !.held = @ \cup {a}, !.free = @ - price[a]]
          /\ account.free >= price[a]
      BY <2>3 DEF Buy
    <3>2. account.free - price[a] \in Nat /\ account.held \cup {a} \in SUBSET Assets
      BY <1>0, <2>2, <3>1
    <3> QED
      BY <1>0, <2>1, <3>1, <3>2
  <2>4. CASE Sell(a)
    <3>1. account' = [account EXCEPT !.held = @ \ {a}, !.free = @ + price[a]]
      BY <2>4 DEF Sell
    <3>2. account.free + price[a] \in Nat /\ account.held \ {a} \in SUBSET Assets
      BY <1>0, <2>2
    <3> QED
      BY <1>0, <2>1, <3>1, <3>2
  <2> QED
    BY <1>3, <2>1, <2>3, <2>4
<1>4. ASSUME NEW a \in Assets, Move(a)
      PROVE  /\ Event(TRUE) /\ account' = account
             /\ price' \in [Assets -> 0..MaxPrice]
  BY <1>0, <1>4 DEF Move
<1>5. CASE \E a \in Assets : Buy(a) \/ Sell(a)
  <2>1. /\ Event(FALSE) /\ price' = price
        /\ account' \in [free : Nat, locked : Nat, held : SUBSET Assets]
    BY <1>3, <1>5
  <2> QED
    BY <1>0, <1>1, <2>1
<1>6. CASE \E a \in Assets : Move(a)
  <2>1. /\ Event(TRUE) /\ account' = account /\ price' \in [Assets -> 0..MaxPrice]
    BY <1>4, <1>6
  <2> QED
    BY <1>0, <1>1, <2>1
<1> QED
  BY <1>2, <1>5, <1>6 DEF Traded

LEMMA ReadTick ==
    ASSUME TypeOK, ReadBalances
    PROVE  /\ tick' \in Tick /\ tick'.pc = "price" /\ tick'.began = clock
           /\ tick'.free = account.free /\ tick'.locked = account.locked
           /\ tick'.left = account.held /\ tick'.missed = {}
           /\ tick'.value = Unpriced /\ tick'.worth = Worth
           /\ tick.pc = "wait" /\ clock >= tick.due
           /\ UNCHANGED <<clock, account, price, moves, rows, broken, restarts>>
<1>1. PICK x : x = [Waiting(0, clock) EXCEPT !.pc = "price", !.free = account.free,
                      !.locked = account.locked, !.left = account.held, !.worth = Worth]
  OBVIOUS
<1>2. tick' = x
  BY <1>1 DEF ReadBalances
<1>3. Worth \in Nat
  <2>1. ValueOf(account.held, price) \in Nat
    BY TickFields, Valued
  <2>2. account.free \in Nat /\ account.locked \in Nat
    BY TickFields
  <2> QED
    BY <2>1, <2>2 DEF Worth
<1>4. Waiting(0, clock) \in Tick /\ 0 \in Nat /\ clock \in Nat
  BY TickFields, WaitingFields
<1>5. /\ Waiting(0, clock).missed = {} /\ Waiting(0, clock).value = Unpriced
      /\ Waiting(0, clock).began = clock
  BY DEF Waiting
<1>6. /\ x \in Tick /\ x.pc = "price" /\ x.began = clock
      /\ x.free = account.free /\ x.locked = account.locked
      /\ x.left = account.held /\ x.missed = {} /\ x.value = Unpriced /\ x.worth = Worth
  BY <1>1, <1>3, <1>4, <1>5, TickFields DEF Tick
<1> QED
  BY <1>2, <1>6 DEF ReadBalances

\* An asset is priced, or missed.
LEMMA PriceTick ==
    ASSUME TypeOK, NEW a \in Assets, PriceAsset(a) \/ MissAsset(a)
    PROVE  /\ tick' \in Tick /\ tick.pc = "price" /\ a \in tick.left
           /\ UNCHANGED <<tick.pc, tick.due, tick.began, tick.at, tick.free,
                          tick.locked, tick.worth, tick.steady>>
           /\ tick'.left = tick.left \ {a}
           /\ \/ /\ tick'.value = [tick.value EXCEPT ![a] = price[a]]
                 /\ tick'.missed = tick.missed
              \/ /\ tick'.missed = tick.missed \cup {a}
                 /\ tick'.value = tick.value
           /\ UNCHANGED <<clock, account, price, moves, rows, broken, restarts>>
<1>0. tick \in Tick /\ price \in [Assets -> 0..MaxPrice]
  BY DEF TypeOK
<1>1. CASE PriceAsset(a)
  <2>1. tick' = [tick EXCEPT !.left = @ \ {a}, !.value[a] = price[a]]
    BY <1>1 DEF PriceAsset
  <2>2. [tick.value EXCEPT ![a] = price[a]] \in [Assets -> 0..MaxPrice]
    BY <1>0 DEF Tick
  <2>3. /\ tick.pc = "price" /\ a \in tick.left
        /\ UNCHANGED <<clock, account, price, moves, rows, broken, restarts>>
    BY <1>1 DEF PriceAsset
  <2> QED
    BY <1>0, <2>1, <2>2, <2>3 DEF Tick
<1>2. CASE MissAsset(a)
  <2>1. tick' = [tick EXCEPT !.left = @ \ {a}, !.missed = @ \cup {a}]
    BY <1>2 DEF MissAsset
  <2>3. /\ tick.pc = "price" /\ a \in tick.left
        /\ UNCHANGED <<clock, account, price, moves, rows, broken, restarts>>
    BY <1>2 DEF MissAsset
  <2> QED
    BY <1>0, <2>1, <2>3 DEF Tick
<1> QED
  BY <1>1, <1>2

LEMMA StampTick ==
    ASSUME TypeOK, Stamp
    PROVE  /\ tick' \in Tick /\ tick.pc = "price" /\ tick.left = {}
           /\ UNCHANGED <<tick.began, tick.due, tick.free, tick.locked, tick.worth,
                          tick.left, tick.missed, tick.value, tick.steady>>
           /\ tick'.pc = "insert" /\ tick'.at = Bucket(clock, Interval)
           /\ UNCHANGED <<clock, account, price, moves, rows, broken, restarts>>
<1>1. tick' = [tick EXCEPT !.pc = "insert", !.at = Bucket(clock, Interval)]
  BY DEF Stamp
<1>2. Bucket(clock, Interval) \in Nat
  BY TickFields, Constants, BucketOf
<1>3. tick \in Tick
  BY DEF TypeOK
<1>4. /\ tick.pc = "price" /\ tick.left = {}
      /\ UNCHANGED <<clock, account, price, moves, rows, broken, restarts>>
  BY DEF Stamp
<1> QED
  BY <1>1, <1>2, <1>3, <1>4 DEF Tick

LEMMA InsertTick ==
    ASSUME TypeOK, Insert
    PROVE  /\ tick' \in Tick /\ tick.pc = "insert" /\ tick'.pc = "simulate"
           /\ UNCHANGED <<tick.began, tick.due>>
           /\ Filed \in Snapshot /\ Filed.at = tick.at /\ Filed.broken = broken
           /\ \/ Taken(tick.at) /\ UNCHANGED <<rows, broken>>
              \/ ~Taken(tick.at) /\ rows' = Append(rows, Filed) /\ broken' = FALSE
           /\ UNCHANGED <<clock, account, price, moves, restarts>>
<1>1. tick' = [tick EXCEPT !.pc = "simulate"] /\ tick \in Tick
  BY DEF Insert, TypeOK
<1>2. tick' \in Tick /\ tick'.pc = "simulate" /\ UNCHANGED <<tick.began, tick.due>>
  BY <1>1 DEF Tick
<1>3. Filed \in Snapshot /\ Filed.at = tick.at /\ Filed.broken = broken
  <2>1. Total \in Nat
    <3>1. ValueOf(Assets, tick.value) \in Nat
      BY TickFields, Valued
    <3>2. tick.free \in Nat /\ tick.locked \in Nat
      BY TickFields
    <3> QED
      BY <3>1, <3>2 DEF Total
  <2>2. tick.at \in Nat /\ broken \in BOOLEAN
    BY TickFields DEF TypeOK
  <2> QED
    BY <2>1, <2>2 DEF Filed, Snapshot
<1>4. /\ \/ Taken(tick.at) /\ UNCHANGED <<rows, broken>>
         \/ ~Taken(tick.at) /\ rows' = Append(rows, Filed) /\ broken' = FALSE
      /\ tick.pc = "insert"
      /\ UNCHANGED <<clock, account, price, moves, restarts>>
  BY DEF Insert
<1> QED
  BY <1>2, <1>3, <1>4

\* A failed tick, the pause after a tick, and a restart forget what was read.
LEMMA IdleTick ==
    ASSUME TypeOK, Fail \/ Pause \/ Restart
    PROVE  /\ tick' \in Tick /\ tick'.pc \in {"simulate", "wait"}
           /\ UNCHANGED <<clock, account, price, moves, rows>>
           /\ \/ /\ Fail /\ tick'.pc = "simulate" /\ broken' = TRUE
                 /\ tick'.began = IF tick.pc = "wait" THEN clock ELSE tick.began
              \/ /\ Pause /\ tick.pc = "simulate" /\ tick'.pc = "wait" /\ broken' = broken
                 /\ tick'.due = clock + Interval /\ tick'.began = tick.began
              \/ /\ Restart /\ tick'.pc = "wait" /\ broken' = TRUE
                 /\ tick'.due = clock /\ tick'.began = tick.began
           /\ restarts' \in 0..MaxRestarts
<1>0. /\ clock \in Nat /\ tick.began \in Nat /\ Interval \in Nat /\ MaxRestarts \in Nat
      /\ restarts \in 0..MaxRestarts
  BY TickFields, Constants DEF TypeOK
<1>1. CASE Fail
  <2> PICK b \in Nat : b = IF tick.pc = "wait" THEN clock ELSE tick.began
    BY <1>0
  <2>1. tick' = [Waiting(0, b) EXCEPT !.pc = "simulate"]
    BY <1>1 DEF Fail
  <2>2. Waiting(0, b) \in Tick /\ Waiting(0, b).began = b
    BY WaitingFields
  <2>3. tick' \in Tick /\ tick'.pc = "simulate" /\ tick'.began = b
    BY <2>1, <2>2 DEF Tick
  <2>4. UNCHANGED <<clock, account, price, moves, rows, restarts>> /\ broken' = TRUE
    BY <1>1 DEF Fail
  <2> QED
    BY <1>0, <1>1, <2>3, <2>4
<1>2. CASE Pause
  <2>1. tick' = Waiting(clock + Interval, tick.began)
    BY <1>2 DEF Pause
  <2>2. clock + Interval \in Nat
    BY <1>0
  <2>3. /\ tick' \in Tick /\ tick'.pc = "wait" /\ tick'.due = clock + Interval
        /\ tick'.began = tick.began
    BY <1>0, <2>1, <2>2, WaitingFields
  <2>4. /\ UNCHANGED <<clock, account, price, moves, rows, restarts>>
        /\ broken' = broken /\ tick.pc = "simulate"
    BY <1>2 DEF Pause
  <2> QED
    BY <1>0, <1>2, <2>3, <2>4
<1>3. CASE Restart
  <2>1. tick' = Waiting(clock, tick.began)
    BY <1>3 DEF Restart
  <2>3. /\ tick' \in Tick /\ tick'.pc = "wait" /\ tick'.due = clock
        /\ tick'.began = tick.began
    BY <1>0, <2>1, WaitingFields
  <2>4. /\ UNCHANGED <<clock, account, price, moves, rows>>
        /\ broken' = TRUE /\ restarts' \in 0..MaxRestarts
    BY <1>0, <1>3 DEF Restart
  <2> QED
    BY <1>3, <2>3, <2>4
<1> QED
  BY <1>1, <1>2, <1>3

-----------------------------------------------------------------------------
(* The invariant is kept *)

\* Steps of the clock and steps that change nothing leave the rest alone.
LEMMA ClockStep ==
    ASSUME TypeOK, Advance
    PROVE  /\ clock' = clock + 1 /\ clock' \in 0..MaxClock
           /\ tick.pc = "wait" => clock < tick.due
           /\ tick.pc # "wait" => clock < tick.began + MaxDelay
           /\ UNCHANGED <<account, price, moves, tick, rows, broken, restarts>>
  BY TickFields, Constants DEF Advance

LEMMA TypesKept == TypeOK /\ [Next]_vars => TypeOK'
<1> SUFFICES ASSUME TypeOK, [Next]_vars
             PROVE  TypeOK'
  OBVIOUS
<1>1. CASE Traded
  <2>1. UNCHANGED <<clock, rows, broken, restarts>> /\ tick' \in Tick
    BY <1>1, TradedTick
  <2> QED
    BY <1>1, <2>1, TradedTick DEF TypeOK
<1>2. CASE ReadBalances
  BY <1>2, ReadTick DEF TypeOK
<1>3. CASE \E a \in Assets : PriceAsset(a) \/ MissAsset(a)
  BY <1>3, PriceTick DEF TypeOK
<1>4. CASE Stamp
  BY <1>4, StampTick DEF TypeOK
<1>5. CASE Insert
  <2>1. rows' \in Seq(Snapshot) /\ broken' \in BOOLEAN
    <3>1. rows \in Seq(Snapshot) /\ broken \in BOOLEAN
      BY DEF TypeOK
    <3>2. /\ Filed \in Snapshot
          /\ \/ UNCHANGED <<rows, broken>>
             \/ rows' = Append(rows, Filed) /\ broken' = FALSE
      BY <1>5, InsertTick
    <3>3. Append(rows, Filed) \in Seq(Snapshot)
      BY <3>1, <3>2
    <3> QED
      BY <3>1, <3>2, <3>3
  <2> QED
    BY <1>5, <2>1, InsertTick DEF TypeOK
<1>6. CASE Fail \/ Pause \/ Restart
  BY <1>6, IdleTick DEF TypeOK
<1>7. CASE Advance
  BY <1>7, ClockStep DEF TypeOK
<1>8. CASE UNCHANGED vars
  BY <1>8 DEF TypeOK, vars
<1> QED
  BY <1>1, <1>2, <1>3, <1>4, <1>5, <1>6, <1>7, <1>8 DEF Next, Traded

LEMMA TimesKept ==
    ASSUME TypeOK, Times, [Next]_vars
    PROVE  Times'
<1>0. /\ clock \in Nat /\ tick.began \in Nat /\ tick.due \in Nat
      /\ MaxDelay \in Nat /\ Interval \in Nat /\ Interval > 0
  BY TickFields, Constants
<1>1. CASE Traded
  BY <1>1, TradedTick DEF Times
<1>2. CASE ReadBalances
  BY <1>0, <1>2, ReadTick DEF Times
<1>3. CASE \E a \in Assets : PriceAsset(a) \/ MissAsset(a)
  BY <1>3, PriceTick DEF Times
<1>4. CASE Stamp
  BY <1>0, <1>4, StampTick DEF Times
<1>5. CASE Insert
  BY <1>0, <1>5, InsertTick DEF Times
<1>6. CASE Fail \/ Pause \/ Restart
  <2>1. /\ tick'.pc \in {"simulate", "wait"} /\ clock' = clock
        /\ \/ /\ tick'.pc = "simulate"
              /\ tick'.began = IF tick.pc = "wait" THEN clock ELSE tick.began
           \/ /\ tick.pc = "simulate" /\ tick'.pc = "wait"
              /\ tick'.due = clock + Interval /\ tick'.began = tick.began
           \/ tick'.pc = "wait" /\ tick'.due = clock /\ tick'.began = tick.began
    BY <1>6, IdleTick
  <2> QED
    BY <1>0, <2>1 DEF Times
<1>7. CASE Advance
  BY <1>0, <1>7, ClockStep DEF Times
<1>8. CASE UNCHANGED vars
  BY <1>8 DEF Times, vars
<1> QED
  BY <1>1, <1>2, <1>3, <1>4, <1>5, <1>6, <1>7, <1>8 DEF Next, Traded

\* Rows that do not change stay filed while the clock goes on.
LEMMA FilingStays ==
    ASSUME TypeOK, Filing, rows' = rows, clock' \in Nat, clock <= clock',
           tick'.pc = "insert" =>
              tick.pc = "insert" /\ UNCHANGED <<tick.at, tick.began>>
    PROVE  Filing'
<1>1. \A i \in 1..Len(rows) : rows[i].at <= clock'
  BY TickFields DEF Filing
<1>2. tick.pc = "insert" => tick.at <= clock'
  BY TickFields DEF Filing
<1> QED
  BY <1>1, <1>2 DEF Filing, OnePerBucket

\* The bucket of a time is its own.
LEMMA BucketAgain ==
    ASSUME NEW t \in Nat, NEW m \in Nat, m > 0
    PROVE  Bucket(Bucket(t, m), m) = Bucket(t, m)
<1> PICK q \in Nat : q = t \div m
  OBVIOUS
<1> PICK b \in Nat : b = Bucket(t, m) /\ b = q * m
  BY BucketOf DEF Bucket
<1> PICK p \in Nat : p = b \div m
  OBVIOUS
<1>1. p * m <= q * m /\ q * m < p * m + m
  BY BucketOf DEF Bucket
<1>2. q <= p
  BY <1>1, Multiples
<1>3. q * m <= p * m
  BY <1>2, Multiples
<1>4. p * m \in Nat /\ q * m \in Nat
  OBVIOUS
<1>5. p * m = q * m
  BY <1>1, <1>3, <1>4
<1> QED
  BY <1>5 DEF Bucket

LEMMA StampKeepsFiling ==
    ASSUME TypeOK, Times, Filing, Stamp
    PROVE  Filing'
<1>0. /\ clock \in Nat /\ tick.began \in Nat /\ tick.began <= clock
      /\ Interval \in Nat /\ Interval > 0
  BY TickFields, Constants DEF Times
<1> PICK at \in Nat : at = Bucket(clock, Interval)
  BY <1>0, BucketOf
<1>1. /\ rows' = rows /\ clock' = clock /\ tick'.pc = "insert" /\ tick'.at = at
      /\ tick'.began = tick.began
  BY StampTick
<1>2. at = Bucket(at, Interval) /\ at <= clock /\ clock < at + Interval
  BY <1>0, BucketOf, BucketAgain
<1>3. Bucket(tick.began, Interval) <= at /\ tick.began < at + Interval
  BY <1>0, <1>2, BucketsInOrder
<1>4. ASSUME NEW i \in 1..Len(rows)
      PROVE  rows[i].at <= at
  <2>1. rows[i].at \in Nat /\ rows[i].at = Bucket(rows[i].at, Interval)
        /\ rows[i].at <= clock
    BY TickFields DEF Filing
  <2>2. Bucket(rows[i].at, Interval) <= Bucket(clock, Interval)
    BY <1>0, <2>1, BucketsInOrder
  <2> QED
    BY <2>1, <2>2
<1> QED
  BY <1>1, <1>2, <1>3, <1>4 DEF Filing, OnePerBucket

\* A row that is filed is later than all others.
LEMMA FiledLater ==
    ASSUME TypeOK, Filing, Insert, ~Taken(tick.at)
    PROVE  \A i \in 1..Len(rows) : rows[i].at < tick.at
<1> SUFFICES ASSUME NEW i \in 1..Len(rows)
             PROVE  rows[i].at < tick.at
  OBVIOUS
<1>1. rows[i].at <= tick.at /\ rows[i].at # tick.at
  BY InsertTick DEF Filing, Taken
<1>2. rows[i].at \in Nat /\ tick.at \in Nat
  BY TickFields
<1> QED
  BY <1>1, <1>2

LEMMA InsertKeepsFiling ==
    ASSUME TypeOK, Filing, Insert
    PROVE  Filing'
<1>1. CASE Taken(tick.at)
  <2>1. rows' = rows /\ clock' = clock /\ tick'.pc = "simulate"
    BY <1>1, InsertTick
  <2> QED
    BY <2>1 DEF Filing, OnePerBucket
<1>2. CASE ~Taken(tick.at)
  <2>1. /\ rows' = Append(rows, Filed) /\ Filed.at = tick.at /\ clock' = clock
        /\ tick'.pc = "simulate" /\ tick.pc = "insert"
    BY <1>2, InsertTick
  <2> PICK n \in Nat : n = Len(rows)
    BY TickFields
  <2>2. /\ Len(rows') = n + 1 /\ rows'[n + 1].at = tick.at
        /\ \A i \in 1..n : rows'[i] = rows[i]
    BY <2>1, TickFields
  <2>3. \A i \in 1..n : rows[i].at < tick.at
    BY <1>2, FiledLater
  <2>4. \A i \in 1..(n + 1) : i \in 1..n \/ i = n + 1
    OBVIOUS
  <2>5. OnePerBucket'
    <3> SUFFICES ASSUME NEW i \in 1..(n + 1), NEW j \in 1..(n + 1), i < j
                 PROVE  rows'[i].at < rows'[j].at
      BY <2>2 DEF OnePerBucket
    <3>1. i \in 1..n
      OBVIOUS
    <3>2. CASE j \in 1..n
      BY <2>2, <3>1, <3>2 DEF Filing, OnePerBucket
    <3>3. CASE j = n + 1
      BY <2>2, <2>3, <3>1, <3>3
    <3> QED
      BY <2>4, <3>2, <3>3
  <2>6. ASSUME NEW i \in 1..(n + 1)
        PROVE  rows'[i].at = Bucket(rows'[i].at, Interval) /\ rows'[i].at <= clock
    BY <2>1, <2>2, <2>4 DEF Filing
  <2> QED
    BY <2>1, <2>2, <2>5, <2>6 DEF Filing
<1> QED
  BY <1>1, <1>2

LEMMA FilingKept ==
    ASSUME TypeOK, Times, Filing, [Next]_vars
    PROVE  Filing'
<1>0. clock \in Nat
  BY TickFields
<1>1. CASE Traded
  <2>1. rows' = rows /\ clock' = clock /\ UNCHANGED <<tick.pc, tick.at, tick.began>>
    BY <1>1, TradedTick
  <2> QED
    BY <1>0, <2>1, FilingStays
<1>2. CASE ReadBalances
  <2>1. rows' = rows /\ clock' = clock /\ tick'.pc = "price"
    BY <1>2, ReadTick
  <2> QED
    BY <1>0, <2>1, FilingStays
<1>3. CASE \E a \in Assets : PriceAsset(a) \/ MissAsset(a)
  <2>1. rows' = rows /\ clock' = clock /\ UNCHANGED <<tick.pc, tick.at, tick.began>>
    BY <1>3, PriceTick
  <2> QED
    BY <1>0, <2>1, FilingStays
<1>4. CASE Fail \/ Pause \/ Restart
  <2>1. rows' = rows /\ clock' = clock /\ tick'.pc # "insert"
    BY <1>4, IdleTick
  <2> QED
    BY <1>0, <2>1, FilingStays
<1>5. CASE Advance
  <2>1. rows' = rows /\ clock' = clock + 1 /\ tick' = tick
    BY <1>5, ClockStep
  <2> QED
    BY <1>0, <2>1, FilingStays
<1>6. CASE UNCHANGED vars
  BY <1>0, <1>6, FilingStays DEF vars
<1> QED
  BY <1>1, <1>2, <1>3, <1>4, <1>5, <1>6, StampKeepsFiling, InsertKeepsFiling
  DEF Next, Traded

\* An asset that is priced is counted at the price it still had.
LEMMA PriceSplits ==
    ASSUME NEW left \in SUBSET Assets, NEW missed \in SUBSET Assets,
           NEW value \in [Assets -> 0..MaxPrice], NEW prices \in [Assets -> 0..MaxPrice],
           NEW a \in left, value[a] = 0
    PROVE  LET priced == [value EXCEPT ![a] = prices[a]]
           IN  ValueOf(left \ {a}, prices) + ValueOf(missed, prices)
                     + ValueOf(Assets, priced)
                 = ValueOf(left, prices) + ValueOf(missed, prices)
                     + ValueOf(Assets, value)
<1> PICK priced : priced = [value EXCEPT ![a] = prices[a]]
  OBVIOUS
<1>1. /\ priced \in [Assets -> 0..MaxPrice] /\ priced[a] = prices[a]
      /\ \A x \in Assets \ {a} : priced[x] = value[x]
  OBVIOUS
<1>2. ValueOf(left, prices) = prices[a] + ValueOf(left \ {a}, prices)
  BY Valued
<1>3. ValueOf(Assets, value) = value[a] + ValueOf(Assets \ {a}, value)
  BY Valued
<1>4. ValueOf(Assets, priced) = prices[a] + ValueOf(Assets \ {a}, priced)
  BY <1>1, Valued
<1>5. ValueOf(Assets \ {a}, priced) = ValueOf(Assets \ {a}, value)
  <2>1. IsFiniteSet(Assets \ {a}) /\ Typed(priced, Assets \ {a})
    BY <1>1, Valued
  <2> QED
    BY <1>1, <2>1, SumsSame DEF ValueOf
<1>6. /\ ValueOf(left \ {a}, prices) \in Nat /\ ValueOf(missed, prices) \in Nat
      /\ ValueOf(Assets \ {a}, value) \in Nat /\ prices[a] \in Nat
  <2>1. left \ {a} \in SUBSET Assets /\ Assets \ {a} \in SUBSET Assets
    OBVIOUS
  <2>2. prices[a] \in Nat
    BY Constants
  <2> QED
    BY <2>1, <2>2, Valued
<1>7. ValueOf(left \ {a}, prices) + ValueOf(missed, prices) + ValueOf(Assets, priced)
        = ValueOf(left, prices) + ValueOf(missed, prices) + ValueOf(Assets, value)
  BY <1>2, <1>3, <1>4, <1>5, <1>6
<1> QED
  BY <1>7

\* An asset that is missed goes from the ones that are left to the missed ones.
LEMMA MissSplits ==
    ASSUME NEW left \in SUBSET Assets, NEW missed \in SUBSET Assets,
           NEW prices \in [Assets -> 0..MaxPrice], NEW a \in left, a \notin missed
    PROVE  ValueOf(left \ {a}, prices) + ValueOf(missed \cup {a}, prices)
             = ValueOf(left, prices) + ValueOf(missed, prices)
<1>1. ValueOf(left, prices) = prices[a] + ValueOf(left \ {a}, prices)
  BY Valued
<1>2. ValueOf(missed \cup {a}, prices) = prices[a] + ValueOf(missed, prices)
  <2> PICK both \in SUBSET Assets : both = missed \cup {a}
    OBVIOUS
  <2>1. a \in both /\ both \ {a} = missed
    OBVIOUS
  <2>2. ValueOf(both, prices) = prices[a] + ValueOf(both \ {a}, prices)
    BY <2>1, Valued
  <2> QED
    BY <2>1, <2>2
<1>3. /\ ValueOf(left \ {a}, prices) \in Nat /\ ValueOf(missed, prices) \in Nat
      /\ prices[a] \in Nat
  <2>1. left \ {a} \in SUBSET Assets
    OBVIOUS
  <2>2. prices[a] \in Nat
    BY Constants
  <2> QED
    BY <2>1, <2>2, Valued
<1> QED
  BY <1>1, <1>2, <1>3

LEMMA ReadCounts ==
    ASSUME TypeOK, ReadBalances
    PROVE  Counted'
<1>1. /\ tick'.pc = "price" /\ tick'.left = account.held /\ tick'.missed = {}
      /\ tick'.free = account.free /\ tick'.locked = account.locked
      /\ tick'.value = Unpriced /\ tick'.worth = Worth /\ price' = price
  BY ReadTick
<1>2. /\ \A a \in Assets : Unpriced[a] = 0
      /\ account.held \in SUBSET Assets /\ price \in [Assets -> 0..MaxPrice]
      /\ account.free \in Nat /\ account.locked \in Nat
  BY TickFields DEF Unpriced
<1>3. ValueOf(Assets, Unpriced) = 0
  BY <1>2, Constants, SumOfZeros DEF ValueOf
<1>4. ValueOf({}, price) = 0 /\ ValueOf(account.held, price) \in Nat
  BY <1>2, Valued
<1>5. Worth = account.free + account.locked + ValueOf(account.held, price)
                + ValueOf({}, price) + ValueOf(Assets, Unpriced)
  BY <1>2, <1>3, <1>4 DEF Worth
<1>6. Split'
  BY <1>1, <1>5 DEF Split
<1>7. \A a \in tick'.left \cup tick'.missed : tick'.value[a] = 0
  BY <1>1, <1>2
<1> QED
  BY <1>1, <1>6, <1>7 DEF Counted

LEMMA PriceCounts ==
    ASSUME TypeOK, Counted, NEW a \in Assets, PriceAsset(a) \/ MissAsset(a)
    PROVE  Counted'
<1>1. /\ tick.pc = "price" /\ tick'.pc = "price" /\ a \in tick.left
      /\ tick'.free = tick.free /\ tick'.locked = tick.locked
      /\ tick'.worth = tick.worth /\ tick'.steady = tick.steady
      /\ tick'.left = tick.left \ {a} /\ price' = price
      /\ \/ /\ tick'.value = [tick.value EXCEPT ![a] = price[a]]
            /\ tick'.missed = tick.missed
         \/ tick'.missed = tick.missed \cup {a} /\ tick'.value = tick.value
  BY PriceTick
<1>2. /\ tick.left \in SUBSET Assets /\ tick.missed \in SUBSET Assets
      /\ tick.value \in [Assets -> 0..MaxPrice] /\ price \in [Assets -> 0..MaxPrice]
      /\ tick.free \in Nat /\ tick.locked \in Nat
  BY TickFields
<1>3. /\ tick.left \cap tick.missed = {}
      /\ \A x \in tick.left \cup tick.missed : tick.value[x] = 0
      /\ tick.steady => Split
  BY <1>1 DEF Counted
<1>4. tick'.left \cap tick'.missed = {}
  BY <1>1, <1>3
<1>5. \A x \in tick'.left \cup tick'.missed : tick'.value[x] = 0
  <2> SUFFICES ASSUME NEW x \in tick'.left \cup tick'.missed
               PROVE  tick'.value[x] = 0
    OBVIOUS
  <2>1. x \in tick.left \cup tick.missed /\ tick.value[x] = 0 /\ x \in Assets
    BY <1>1, <1>2, <1>3
  <2>2. CASE tick'.value = [tick.value EXCEPT ![a] = price[a]] /\ tick'.missed = tick.missed
    <3>1. x # a
      BY <1>1, <1>3, <2>2
    <3> QED
      BY <1>2, <2>1, <2>2, <3>1
  <2>3. CASE tick'.value = tick.value
    BY <2>1, <2>3
  <2> QED
    BY <1>1, <2>2, <2>3
<1> DEFINE Sum(left, missed, value) ==
              ValueOf(left, price) + ValueOf(missed, price) + ValueOf(Assets, value)
<1>6. Sum(tick'.left, tick'.missed, tick'.value) = Sum(tick.left, tick.missed, tick.value)
  <2>1. CASE tick'.value = [tick.value EXCEPT ![a] = price[a]] /\ tick'.missed = tick.missed
    <3>1. tick.value[a] = 0
      BY <1>1, <1>3
    <3> QED
      BY <1>1, <1>2, <2>1, <3>1, PriceSplits
  <2>2. CASE tick'.missed = tick.missed \cup {a} /\ tick'.value = tick.value
    <3>1. a \notin tick.missed
      BY <1>1, <1>3
    <3>2. ValueOf(tick'.left, price) + ValueOf(tick'.missed, price)
            = ValueOf(tick.left, price) + ValueOf(tick.missed, price)
      BY <1>1, <1>2, <2>2, <3>1, MissSplits
    <3> QED
      BY <2>2, <3>2
  <2> QED
    BY <1>1, <2>1, <2>2
<1>7. ASSUME tick.steady
      PROVE  Split'
  <2>1. tick.worth = tick.free + tick.locked + ValueOf(tick.left, price)
                     + ValueOf(tick.missed, price) + ValueOf(Assets, tick.value)
    BY <1>3, <1>7 DEF Split
  <2>2. /\ ValueOf(tick.left, price) \in Nat /\ ValueOf(tick.missed, price) \in Nat
        /\ ValueOf(Assets, tick.value) \in Nat
    BY <1>2, Valued
  <2>3. /\ tick'.left \in SUBSET Assets /\ tick'.missed \in SUBSET Assets
        /\ tick'.value \in [Assets -> 0..MaxPrice]
    BY <1>1, <1>2
  <2>4. /\ ValueOf(tick'.left, price) \in Nat /\ ValueOf(tick'.missed, price) \in Nat
        /\ ValueOf(Assets, tick'.value) \in Nat
    BY <1>2, <2>3, Valued
  <2>5. ValueOf(tick'.left, price) + ValueOf(tick'.missed, price)
            + ValueOf(Assets, tick'.value)
          = ValueOf(tick.left, price) + ValueOf(tick.missed, price)
            + ValueOf(Assets, tick.value)
    BY <1>6
  <2>6. tick.worth = tick.free + tick.locked + ValueOf(tick'.left, price)
                     + ValueOf(tick'.missed, price) + ValueOf(Assets, tick'.value)
    BY <1>2, <2>1, <2>2, <2>4, <2>5
  <2> QED
    BY <1>1, <2>6 DEF Split
<1> QED
  BY <1>1, <1>4, <1>5, <1>7 DEF Counted

LEMMA CountedKept ==
    ASSUME TypeOK, Counted, [Next]_vars
    PROVE  Counted'
<1>1. CASE Traded
  <2>1. /\ UNCHANGED <<tick.pc, tick.free, tick.locked, tick.worth, tick.left,
                       tick.missed, tick.value>>
        /\ tick'.steady => tick.steady /\ price' = price
    BY <1>1, TradedTick
  <2>2. tick'.steady /\ Split => Split'
    BY <2>1 DEF Split
  <2> QED
    BY <2>1, <2>2 DEF Counted
<1>2. CASE Stamp
  <2>1. /\ UNCHANGED <<tick.free, tick.locked, tick.worth, tick.left,
                       tick.missed, tick.value, tick.steady, price>>
        /\ tick.pc = "price" /\ tick'.pc = "insert" /\ tick.left = {}
    BY <1>2, StampTick
  <2>2. Split => Split'
    BY <2>1 DEF Split
  <2> QED
    BY <2>1, <2>2 DEF Counted
<1>3. CASE Insert \/ Fail \/ Pause \/ Restart
  <2>1. tick'.pc \in {"simulate", "wait"}
    BY <1>3, InsertTick, IdleTick
  <2> QED
    BY <2>1 DEF Counted
<1>4. CASE Advance
  BY <1>4, ClockStep DEF Counted, Split
<1>5. CASE UNCHANGED vars
  BY <1>5 DEF vars, Counted, Split
<1> QED
  BY <1>1, <1>2, <1>3, <1>4, <1>5, ReadCounts, PriceCounts DEF Next, Traded

LEMMA HistoryHolds == Spec => []HistoryInv
<1>1. Init => HistoryInv
  <2> SUFFICES ASSUME Init
               PROVE  HistoryInv
    OBVIOUS
  <2>1. /\ tick \in Tick /\ tick.pc = "wait" /\ tick.due = 0 /\ tick.began = 0
    BY WaitingFields DEF Init
  <2>2. /\ clock = 0 /\ rows = <<>> /\ moves = 0 /\ broken = FALSE /\ restarts = 0
        /\ account = [free |-> Cash, locked |-> 0, held |-> {}]
        /\ price \in [Assets -> {MaxPrice}]
    BY DEF Init
  <2>3. TypeOK
    <3>1. /\ clock \in 0..MaxClock /\ moves \in 0..MaxMoves
          /\ restarts \in 0..MaxRestarts /\ broken \in BOOLEAN
      <4>1. 0 \in 0..MaxClock /\ 0 \in 0..MaxMoves /\ 0 \in 0..MaxRestarts
        BY Constants
      <4> QED
        BY <2>2, <4>1
    <3>2. account \in [free : Nat, locked : Nat, held : SUBSET Assets]
      BY <2>2, Constants
    <3>3. price \in [Assets -> 0..MaxPrice]
      BY <2>2, Constants
    <3>4. rows \in Seq(Snapshot)
      BY <2>2
    <3> QED
      BY <2>1, <3>1, <3>2, <3>3, <3>4 DEF TypeOK
  <2>4. Times
    BY <2>1, <2>2, Constants DEF Times
  <2>5. Filing
    BY <2>1, <2>2 DEF Filing, OnePerBucket
  <2>6. Counted
    BY <2>1 DEF Counted
  <2> QED
    BY <2>3, <2>4, <2>5, <2>6 DEF HistoryInv
<1>2. HistoryInv /\ [Next]_vars => HistoryInv'
  BY TypesKept, TimesKept, FilingKept, CountedKept DEF HistoryInv
<1> QED
  BY <1>1, <1>2, PTL DEF Spec

-----------------------------------------------------------------------------
(* What is filed, and when *)

\* The value of a snapshot is what the account was worth when its balances
\* were read, for any assets and prices, whatever is missed on the way and
\* whatever is traded meanwhile.
THEOREM ValuesAreAsRead == Spec => []ValuedAsRead
<1>1. ASSUME HistoryInv
      PROVE  ValuedAsRead
  <2> SUFFICES ASSUME tick.pc = "insert"
               PROVE  /\ tick.steady =>
                            Filed.total = tick.worth - ValueOf(tick.missed, price)
                      /\ Filed.at \in Bucket(tick.began, Interval)..clock
    BY DEF ValuedAsRead
  <2>0. /\ tick.left \in SUBSET Assets /\ tick.missed \in SUBSET Assets
        /\ tick.value \in [Assets -> 0..MaxPrice] /\ price \in [Assets -> 0..MaxPrice]
        /\ tick.free \in Nat /\ tick.locked \in Nat /\ tick.at \in Nat
        /\ tick.began \in Nat /\ clock \in Nat
    BY <1>1, TickFields DEF HistoryInv
  <2>1. Filed.total = Total /\ Filed.at = tick.at
    BY DEF Filed
  <2>2. ASSUME tick.steady
        PROVE  Total = tick.worth - ValueOf(tick.missed, price)
    <3>1. tick.left = {} /\ Split
      BY <1>1, <2>2 DEF HistoryInv, Counted
    <3>2. /\ ValueOf(tick.left, price) = 0 /\ ValueOf(tick.missed, price) \in Nat
          /\ ValueOf(Assets, tick.value) \in Nat
      BY <2>0, <3>1, Valued
    <3> QED
      BY <2>0, <3>1, <3>2 DEF Split, Total
  <2>3. /\ Bucket(tick.began, Interval) <= tick.at /\ tick.at <= clock
        /\ Bucket(tick.began, Interval) \in Nat
    BY <1>1, <2>0, BucketOf, Constants DEF HistoryInv, Filing
  <2> QED
    BY <2>0, <2>1, <2>2, <2>3
<1> QED
  BY <1>1, HistoryHolds, PTL

\* Types, one row per bucket, and no attempt overdue, whatever fails and
\* however often the process restarts.
THEOREM NeverOverdue == Spec => [](TypeOK /\ OnePerBucket /\ KeepsTrying)
<1>1. ASSUME HistoryInv
      PROVE  TypeOK /\ OnePerBucket /\ KeepsTrying
  <2>1. /\ clock \in Nat /\ tick.began \in Nat /\ tick.due \in Nat
        /\ MaxDelay \in Nat /\ Interval \in Nat
    BY <1>1, TickFields, Constants DEF HistoryInv
  <2>2. KeepsTrying
    BY <1>1, <2>1 DEF HistoryInv, Times, KeepsTrying
  <2> QED
    BY <1>1, <2>2 DEF HistoryInv, Filing
<1> QED
  BY <1>1, HistoryHolds, PTL

\* While nothing has failed since the last row, the scheduler is never more than
\* two intervals and the length of a tick behind it.
Newest == rows[Len(rows)].at

Punctual ==
    rows # <<>> /\ ~broken =>
        /\ tick.pc = "simulate" => tick.began < Newest + Interval
        /\ tick.pc = "wait" => tick.due < Newest + 2 * Interval + MaxDelay
        /\ tick.pc = "price" => tick.began < Newest + 2 * Interval + MaxDelay
        /\ tick.pc = "insert" => tick.at <= Newest + 2 * Interval

\* Both passes of a tick together take half an interval at most.
Short == 2 * MaxDelay <= Interval

LEMMA NewestFields ==
    ASSUME HistoryInv, rows # <<>>
    PROVE  /\ Len(rows) \in 1..Len(rows) /\ Newest \in Nat
           /\ Newest = Bucket(Newest, Interval) /\ Newest <= clock
           /\ \A i \in 1..Len(rows) : rows[i].at <= Newest
<1>1. Len(rows) \in 1..Len(rows)
  BY TickFields DEF HistoryInv
<1>2. Newest \in Nat /\ Newest = Bucket(Newest, Interval) /\ Newest <= clock
  BY <1>1, TickFields DEF HistoryInv, Filing, Newest
<1>3. ASSUME NEW i \in 1..Len(rows)
      PROVE  rows[i].at <= Newest
  <2>1. i = Len(rows) \/ rows[i].at < Newest
    BY <1>1 DEF HistoryInv, Filing, OnePerBucket, Newest
  <2>2. rows[i].at \in Nat
    BY TickFields DEF HistoryInv
  <2> QED
    BY <1>2, <2>1, <2>2 DEF Newest
<1> QED
  BY <1>1, <1>2, <1>3

LEMMA StampPunctual ==
    ASSUME HistoryInv, Punctual, Stamp, Short
    PROVE  Punctual'
<1>1. /\ rows' = rows /\ broken' = broken /\ tick'.pc = "insert" /\ tick.pc = "price"
      /\ tick'.at = Bucket(clock, Interval)
  BY StampTick DEF HistoryInv
<1> SUFFICES ASSUME rows # <<>>, ~broken
             PROVE  tick'.at <= Newest + 2 * Interval
  BY <1>1 DEF Punctual, Newest
<1>2. /\ Newest \in Nat /\ Newest = Bucket(Newest, Interval)
      /\ clock \in Nat /\ tick.began \in Nat /\ MaxDelay \in Nat
      /\ Interval \in Nat /\ Interval > 0
  BY NewestFields, TickFields, Constants DEF HistoryInv
<1>3. /\ clock <= tick.began + MaxDelay
      /\ tick.began < Newest + 2 * Interval + MaxDelay
  BY <1>1 DEF HistoryInv, Times, Punctual
<1>4. clock < Newest + 3 * Interval
  BY <1>2, <1>3 DEF Short
<1> QED
  BY <1>1, <1>2, <1>4, TwoBucketsOn

\* A row that is filed is the newest one, and two intervals at most after the
\* one before it, or says that something failed.
LEMMA InsertPunctual ==
    ASSUME HistoryInv, Punctual, GapsAreExplained, Insert
    PROVE  Punctual' /\ GapsAreExplained'
<1>0. /\ tick.pc = "insert" /\ tick'.pc = "simulate" /\ tick'.began = tick.began
      /\ tick.began < tick.at + Interval /\ Filed.at = tick.at /\ Filed.broken = broken
      /\ rows \in Seq(Snapshot) /\ tick.at \in Nat /\ tick.began \in Nat
  BY InsertTick, TickFields DEF HistoryInv, Filing
<1>1. CASE Taken(tick.at)
  <2>1. rows' = rows /\ broken' = broken
    BY <1>1, InsertTick DEF HistoryInv
  <2>2. PICK i \in 1..Len(rows) : rows[i].at = tick.at
    BY <1>1 DEF Taken
  <2>3. rows # <<>>
    BY <1>0, <2>2
  <2>4. tick.at <= Newest /\ Newest <= tick.at /\ Newest \in Nat
    <3>1. Len(rows) \in 1..Len(rows) /\ tick.at <= Newest /\ Newest \in Nat
      BY <2>2, <2>3, NewestFields
    <3>2. rows[Len(rows)].at <= tick.at
      BY <1>0, <3>1 DEF HistoryInv, Filing
    <3> QED
      BY <3>1, <3>2 DEF Newest
  <2>5. tick.began < Newest + Interval
    BY <1>0, <2>4, Constants
  <2> QED
    BY <1>0, <2>1, <2>5 DEF Punctual, Newest, GapsAreExplained
<1>2. CASE ~Taken(tick.at)
  <2>1. rows' = Append(rows, Filed) /\ broken' = FALSE
    BY <1>2, InsertTick DEF HistoryInv
  <2> PICK n \in Nat : n = Len(rows)
    BY <1>0
  <2>2. /\ Len(rows') = n + 1 /\ rows'[n + 1] = Filed
        /\ \A i \in 1..n : rows'[i] = rows[i]
    BY <1>0, <2>1
  <2>3. Punctual'
    <3>1. rows'[Len(rows')].at = tick.at
      BY <1>0, <2>2
    <3> QED
      BY <1>0, <3>1 DEF Punctual, Newest
  <2>4. GapsAreExplained'
    <3> SUFFICES ASSUME NEW i \in 2..(n + 1)
                 PROVE  rows'[i].broken \/ rows'[i].at - rows'[i - 1].at <= 2 * Interval
      BY <2>2 DEF GapsAreExplained
    <3>1. CASE i \in 2..n
      <4>1. i \in 1..n /\ i - 1 \in 1..n
        BY <3>1
      <4>2. rows'[i] = rows[i] /\ rows'[i - 1] = rows[i - 1]
        BY <2>2, <4>1
      <4>3. rows[i].broken \/ rows[i].at - rows[i - 1].at <= 2 * Interval
        BY <3>1 DEF GapsAreExplained
      <4> QED
        BY <4>2, <4>3
    <3>2. CASE i = n + 1 /\ ~broken
      <4>1. i - 1 = n /\ n \in 1..n /\ rows # <<>>
        BY <1>0, <3>2
      <4>2. rows'[i].at = tick.at /\ rows'[i - 1].at = Newest
        BY <1>0, <2>2, <3>2, <4>1 DEF Newest
      <4>3. tick.at <= Newest + 2 * Interval
        BY <1>0, <3>2, <4>1 DEF Punctual
      <4>4. Newest \in Nat /\ Interval \in Nat
        BY <4>1, NewestFields, Constants
      <4> QED
        BY <1>0, <4>2, <4>3, <4>4
    <3>3. CASE i = n + 1 /\ broken
      BY <1>0, <2>2, <3>3
    <3>4. broken \in BOOLEAN
      BY DEF HistoryInv, TypeOK
    <3> QED
      BY <3>1, <3>2, <3>3, <3>4
  <2> QED
    BY <2>3, <2>4
<1> QED
  BY <1>1, <1>2

\* Every other step leaves the rows alone.
LEMMA SteadyPunctual ==
    ASSUME HistoryInv, Punctual, [Next]_vars, ~Insert, ~Stamp
    PROVE  Punctual' /\ rows' = rows
<1>0. /\ TypeOK /\ Times /\ clock \in Nat /\ tick.began \in Nat /\ tick.due \in Nat
      /\ MaxDelay \in Nat /\ Interval \in Nat /\ Interval > 0
  BY TickFields, Constants DEF HistoryInv
<1>1. CASE Traded \/ \E a \in Assets : PriceAsset(a) \/ MissAsset(a)
  <2>1. rows' = rows /\ broken' = broken
    <3>1. CASE Traded
      BY <1>0, <3>1, TradedTick
    <3>2. CASE \E a \in Assets : PriceAsset(a) \/ MissAsset(a)
      BY <1>0, <3>2, PriceTick
    <3> QED
      BY <1>1, <3>1, <3>2
  <2>2. UNCHANGED <<tick.pc, tick.began, tick.due, tick.at>>
    <3>1. CASE Traded
      BY <1>0, <3>1, TradedTick
    <3>2. CASE \E a \in Assets : PriceAsset(a) \/ MissAsset(a)
      BY <1>0, <3>2, PriceTick
    <3> QED
      BY <1>1, <3>1, <3>2
  <2> QED
    BY <2>1, <2>2 DEF Punctual, Newest
<1>2. CASE ReadBalances
  <2>1. /\ rows' = rows /\ broken' = broken /\ tick.pc = "wait" /\ tick'.pc = "price"
        /\ tick'.began = clock /\ clock <= tick.due
    BY <1>0, <1>2, ReadTick DEF Times
  <2>2. ASSUME rows # <<>>, ~broken
        PROVE  clock < Newest + 2 * Interval + MaxDelay
    <3>1. tick.due < Newest + 2 * Interval + MaxDelay /\ Newest \in Nat
      BY <2>1, <2>2, NewestFields DEF Punctual
    <3> QED
      BY <1>0, <2>1, <3>1
  <2> QED
    BY <2>1, <2>2 DEF Punctual, Newest
<1>3. CASE Pause
  <2>1. /\ rows' = rows /\ broken' = broken /\ tick.pc = "simulate" /\ tick'.pc = "wait"
        /\ tick'.due = clock + Interval /\ clock <= tick.began + MaxDelay
    <3>1. tick.pc = "simulate" /\ tick'.pc = "wait" /\ tick'.due = clock + Interval
      BY <1>3, WaitingFields, <1>0 DEF Pause
    <3>2. rows' = rows /\ broken' = broken
      BY <1>3 DEF Pause
    <3> QED
      BY <1>0, <3>1, <3>2 DEF Times
  <2>2. ASSUME rows # <<>>, ~broken
        PROVE  clock + Interval < Newest + 2 * Interval + MaxDelay
    <3>1. tick.began < Newest + Interval /\ Newest \in Nat
      BY <2>1, <2>2, NewestFields DEF Punctual
    <3> QED
      BY <1>0, <2>1, <3>1
  <2> QED
    BY <2>1, <2>2 DEF Punctual, Newest
<1>4. CASE Fail \/ Restart
  <2>1. rows' = rows /\ broken' = TRUE
    BY <1>4 DEF Fail, Restart
  <2> QED
    BY <2>1 DEF Punctual
<1>5. CASE Advance
  <2>1. UNCHANGED <<rows, broken, tick>>
    BY <1>5 DEF Advance
  <2> QED
    BY <2>1 DEF Punctual, Newest
<1>6. CASE UNCHANGED vars
  BY <1>6 DEF vars, Punctual, Newest
<1> QED
  BY <1>1, <1>2, <1>3, <1>4, <1>5, <1>6 DEF Next, Traded

\* The scheduler keeps to its schedule when a tick takes half an interval at
\* most: a bucket without a row has a failure or a restart behind it, or is a
\* single one.
THEOREM ScheduleIsKept == ASSUME Short PROVE Spec => []ScheduleKept
<1>1. Init => GapsAreExplained /\ Punctual
  <2> SUFFICES ASSUME Init
               PROVE  GapsAreExplained /\ Punctual
    OBVIOUS
  <2>1. rows = <<>>
    BY DEF Init
  <2> QED
    BY <2>1 DEF GapsAreExplained, Punctual
<1>2. HistoryInv /\ GapsAreExplained /\ Punctual /\ [Next]_vars
        => (GapsAreExplained /\ Punctual)'
  <2> SUFFICES ASSUME HistoryInv, GapsAreExplained, Punctual, [Next]_vars
               PROVE  GapsAreExplained' /\ Punctual'
    OBVIOUS
  <2>1. CASE Insert
    BY <2>1, InsertPunctual
  <2>2. CASE Stamp
    <3>1. rows' = rows
      BY <2>2 DEF Stamp
    <3> QED
      BY <2>2, <3>1, StampPunctual DEF GapsAreExplained
  <2>3. CASE ~Insert /\ ~Stamp
    BY <2>3, SteadyPunctual DEF GapsAreExplained
  <2> QED
    BY <2>1, <2>2, <2>3
<1>3. Spec => [](GapsAreExplained /\ Punctual)
  BY <1>1, <1>2, HistoryHolds, PTL DEF Spec
<1>4. GapsAreExplained /\ Punctual /\ TypeOK /\ OnePerBucket /\ KeepsTrying
        => ScheduleKept
  BY DEF ScheduleKept
<1> QED
  BY <1>3, <1>4, NeverOverdue, PTL

-----------------------------------------------------------------------------
(* Selecting from a sequence *)

\* Snapshots in the order of their times.
Ordered(s) == \A i, j \in 1..Len(s) : i < j => s[i].at < s[j].at

KeepStep(s, keep) ==
    [x \in (1..Len(s)) \X Seq(Snapshot) |->
        IF s[x[1]] \in keep THEN Append(x[2], s[x[1]]) ELSE x[2]]

\* The definition of Selected is met: there is such a function, and it is typed.
LEMMA SelectedRun ==
    ASSUME NEW s \in Seq(Snapshot), NEW keep
    PROVE  \E r : /\ Runs(r, Len(s), Seq(Snapshot), <<>>, KeepStep(s, keep))
                  /\ Selected(s, keep) = r[Len(s)]
<1> DEFINE n == Len(s)
           V == Seq(Snapshot)
           step == KeepStep(s, keep)
           Keep(i, acc) == IF s[i] \in keep THEN Append(acc, s[i]) ELSE acc
           Eq(kept) == kept = [i \in 0..n |-> IF i = 0 THEN <<>>
                                 ELSE IF s[i] \in keep THEN Append(kept[i - 1], s[i])
                                      ELSE kept[i - 1]]
<1>1. n \in Nat /\ \A i \in 1..n : s[i] \in Snapshot
  OBVIOUS
<1>2. step \in [(1..n) \X V -> V]
  <2>1. ASSUME NEW x \in (1..n) \X V
        PROVE  (IF s[x[1]] \in keep THEN Append(x[2], s[x[1]]) ELSE x[2]) \in V
    <3>1. s[x[1]] \in Snapshot /\ x[2] \in Seq(Snapshot)
      BY <1>1
    <3> QED
      BY <3>1
  <2> QED
    BY <2>1 DEF KeepStep
<1>3. \A i \in 1..n, acc \in V : step[<<i, acc>>] = Keep(i, acc)
  BY DEF KeepStep
<1>4. <<>> \in V
  OBVIOUS
<1>5. Selected(s, keep) = (CHOOSE kept : Eq(kept))[n]
  BY DEF Selected
<1> HIDE DEF n, step, V
<1>6. PICK r : Runs(r, n, V, <<>>, step)
  BY <1>1, <1>2, <1>4, RunExists
<1>7. Eq(r)
  <2>1. /\ r \in [0..n -> V] /\ r[0] = <<>>
        /\ \A i \in 1..n : r[i] = step[<<i, r[i - 1]>>]
    BY <1>6 DEF Runs
  <2>2. \A i \in 1..n : r[i - 1] \in V
    BY <1>1, <2>1
  <2>3. \A i \in 1..n : r[i] = Keep(i, r[i - 1])
    BY <1>3, <2>1, <2>2
  <2>4. \A i \in 0..n : i = 0 \/ i \in 1..n
    BY <1>1
  <2> QED
    BY <2>1, <2>3, <2>4
<1> HIDE DEF Eq
<1>8. PICK b : Eq(b) /\ Selected(s, keep) = b[n]
  <2> PICK c : c = CHOOSE kept : Eq(kept)
    OBVIOUS
  <2>1. Eq(c)
    BY <1>7
  <2> QED
    BY <1>5, <2>1
<1> USE DEF Eq
<1>9. \A i \in 1..n : b[i] = Keep(i, b[i - 1])
  <2> SUFFICES ASSUME NEW i \in 1..n
               PROVE  b[i] = Keep(i, b[i - 1])
    OBVIOUS
  <2>1. i \in 0..n /\ i # 0
    BY <1>1
  <2> QED
    BY <1>8, <2>1
<1>10. Follows(b, n, V, <<>>, step)
  <2>1. b[0] = <<>>
    BY <1>1, <1>8
  <2> QED
    BY <1>3, <1>9, <2>1 DEF Follows
<1>11. b[n] = r[n]
  <2>1. n \in Nat
    BY <1>1
  <2> HIDE DEF Eq
  <2>2. \A i \in 0..n : b[i] = r[i]
    BY <1>6, <1>10, <2>1, RunsAgree
  <2> QED
    BY <2>1, <2>2
<1> QED
  BY <1>6, <1>8, <1>11 DEF n, step, V

\* What is selected of the first i of s.
Chosen(s, keep, i, t) ==
    /\ t \in Seq(Snapshot)
    /\ Range(t) = {s[j] : j \in 1..i} \cap keep
    /\ Ordered(s) => Ordered(t)
    /\ i > 0 /\ s[i] \in keep => t # <<>> /\ t[Len(t)] = s[i]

LEMMA RangeOf ==
    ASSUME NEW s \in Seq(Snapshot)
    PROVE  /\ Range(s) = {s[i] : i \in 1..Len(s)}
           /\ \A r \in Range(s) : r \in Snapshot /\ r.at \in Nat /\ r.total \in Nat
           /\ s # <<>> => /\ Len(s) \in 1..Len(s)
                          /\ Last(s) = s[Len(s)] /\ Last(s) \in Range(s)
<1>1. Range(s) = {s[i] : i \in 1..Len(s)}
  BY DEF Range
<1>2. \A r \in Range(s) : r \in Snapshot /\ r.at \in Nat /\ r.total \in Nat
  <2> SUFFICES ASSUME NEW i \in 1..Len(s)
               PROVE  s[i] \in Snapshot /\ s[i].at \in Nat /\ s[i].total \in Nat
    BY <1>1
  <2>1. s[i] \in Snapshot
    OBVIOUS
  <2> QED
    BY <2>1 DEF Snapshot
<1>3. s # <<>> => Len(s) \in 1..Len(s)
  OBVIOUS
<1> QED
  BY <1>1, <1>2, <1>3 DEF Last

\* One element more.
LEMMA ChosenGrows ==
    ASSUME NEW s \in Seq(Snapshot), NEW keep, NEW i \in Nat, i + 1 <= Len(s),
           NEW t, Chosen(s, keep, i, t)
    PROVE  Chosen(s, keep, i + 1,
                  IF s[i + 1] \in keep THEN Append(t, s[i + 1]) ELSE t)
<1> PICK k \in Nat : k = i + 1
  OBVIOUS
<1>0. k \in 1..Len(s) /\ k > 0 /\ s[k] \in Snapshot
  OBVIOUS
<1>1. /\ t \in Seq(Snapshot) /\ Range(t) = {s[j] : j \in 1..i} \cap keep
      /\ Ordered(s) => Ordered(t)
  BY DEF Chosen
<1>2. {s[j] : j \in 1..k} = {s[j] : j \in 1..i} \cup {s[k]}
  OBVIOUS
<1>3. CASE s[k] \notin keep
  <2>1. Range(t) = {s[j] : j \in 1..k} \cap keep
    BY <1>1, <1>2, <1>3
  <2>2. Chosen(s, keep, k, t)
    BY <1>1, <1>3, <2>1 DEF Chosen
  <2> QED
    BY <1>3, <2>2
<1>4. CASE s[k] \in keep
  <2> PICK n \in Nat : n = Len(t)
    BY <1>1
  <2>0. Append(t, s[k]) \in Seq(Snapshot)
    BY <1>0, <1>1
  <2> PICK u \in Seq(Snapshot) : u = Append(t, s[k])
    BY <2>0
  <2>1. Len(u) = n + 1 /\ u[n + 1] = s[k] /\ \A j \in 1..n : u[j] = t[j]
    BY <1>0, <1>1
  <2>2. \A j \in 1..(n + 1) : j \in 1..n \/ j = n + 1
    OBVIOUS
  <2>3. Range(u) = Range(t) \cup {s[k]}
    <3>1. Range(u) = {u[j] : j \in 1..(n + 1)} /\ Range(t) = {t[j] : j \in 1..n}
      BY <1>1, <2>1, RangeOf
    <3> QED
      BY <2>1, <2>2, <3>1
  <2>4. Range(u) = {s[j] : j \in 1..k} \cap keep
    BY <1>1, <1>2, <1>4, <2>3
  <2>5. ASSUME Ordered(s)
        PROVE  Ordered(u)
    <3> SUFFICES ASSUME NEW p \in 1..(n + 1), NEW q \in 1..(n + 1), p < q
                 PROVE  u[p].at < u[q].at
      BY <2>1 DEF Ordered
    <3>1. p \in 1..n
      OBVIOUS
    <3>2. CASE q \in 1..n
      BY <1>1, <2>1, <2>5, <3>1, <3>2 DEF Ordered
    <3>3. CASE q = n + 1
      <4>1. t[p] \in Range(t)
        <5>1. Range(t) = {t[j] : j \in 1..Len(t)}
          BY <1>1, RangeOf
        <5> QED
          BY <3>1, <5>1
      <4>2. PICK j \in 1..i : t[p] = s[j]
        BY <1>1, <4>1
      <4>3. j \in 1..Len(s) /\ j < k
        BY <1>0
      <4>4. s[j].at < s[k].at
        BY <1>0, <2>5, <4>3 DEF Ordered
      <4> QED
        BY <2>1, <3>1, <3>3, <4>2, <4>4
    <3> QED
      BY <2>2, <3>2, <3>3
  <2>6. u # <<>> /\ u[Len(u)] = s[k]
    BY <2>1
  <2>7. Chosen(s, keep, k, u)
    BY <2>4, <2>5, <2>6 DEF Chosen
  <2> QED
    BY <1>4, <2>7
<1> QED
  BY <1>3, <1>4

\* Selecting keeps exactly what it should, in its order.
LEMMA SelectedIs ==
    ASSUME NEW s \in Seq(Snapshot), NEW keep
    PROVE  /\ Selected(s, keep) \in Seq(Snapshot)
           /\ Range(Selected(s, keep)) = Range(s) \cap keep
           /\ Ordered(s) => Ordered(Selected(s, keep))
           /\ s # <<>> /\ Last(s) \in keep =>
                 Selected(s, keep) # <<>> /\ Last(Selected(s, keep)) = Last(s)
<1>1. PICK r : /\ Runs(r, Len(s), Seq(Snapshot), <<>>, KeepStep(s, keep))
               /\ Selected(s, keep) = r[Len(s)]
  BY SelectedRun
<1> PICK n \in Nat : n = Len(s)
  OBVIOUS
<1> DEFINE S == {i \in Nat : i <= n => Chosen(s, keep, i, r[i])}
<1>2. 0 \in S
  <2>1. r[0] = <<>>
    BY <1>1 DEF Runs
  <2>2. <<>> \in Seq(Snapshot)
    OBVIOUS
  <2>3. Range(<<>>) = {s[j] : j \in 1..0} \cap keep
    BY DEF Range
  <2>4. Ordered(<<>>)
    BY DEF Ordered
  <2>5. Chosen(s, keep, 0, <<>>)
    BY <2>2, <2>3, <2>4 DEF Chosen
  <2> QED
    BY <2>1, <2>5
<1>3. ASSUME NEW i \in Nat, i \in S
      PROVE  i + 1 \in S
  <2> SUFFICES ASSUME i + 1 <= n
               PROVE  Chosen(s, keep, i + 1, r[i + 1])
    OBVIOUS
  <2>1. Chosen(s, keep, i, r[i])
    BY <1>3
  <2> PICK k \in 1..n : k = i + 1
    OBVIOUS
  <2>2. k - 1 = i /\ r[k] = KeepStep(s, keep)[<<k, r[k - 1]>>]
    BY <1>1 DEF Runs
  <2>3. r[i] \in Seq(Snapshot)
    BY <2>1 DEF Chosen
  <2>4. r[k] = IF s[k] \in keep THEN Append(r[i], s[k]) ELSE r[i]
    BY <2>2, <2>3 DEF KeepStep
  <2> QED
    BY <2>1, <2>4, ChosenGrows
<1> HIDE DEF S
<1>4. n \in S
  BY <1>2, <1>3, Induction
<1>5. Chosen(s, keep, n, Selected(s, keep))
  BY <1>1, <1>4 DEF S
<1>6. Range(Selected(s, keep)) = Range(s) \cap keep
  BY <1>5, RangeOf DEF Chosen
<1>7. s # <<>> => n > 0 /\ Last(s) = s[n]
  BY RangeOf
<1>8. Selected(s, keep) # <<>>
        => Last(Selected(s, keep)) = Selected(s, keep)[Len(Selected(s, keep))]
  BY DEF Last
<1> QED
  BY <1>5, <1>6, <1>7, <1>8 DEF Chosen

-----------------------------------------------------------------------------
(* The curve *)

InWindow(s, now, w) == {r \in Range(s) : r.at >= now - Windows[w].span}

\* In an ordered sequence nothing is later than the last.
LEMMA LastIsLatest ==
    ASSUME NEW s \in Seq(Snapshot), Ordered(s), s # <<>>
    PROVE  \A r \in Range(s) : r.at <= Last(s).at
<1> SUFFICES ASSUME NEW i \in 1..Len(s)
             PROVE  s[i].at <= Last(s).at
  BY RangeOf
<1>1. Len(s) \in 1..Len(s) /\ Last(s) = s[Len(s)]
  BY RangeOf
<1>2. \A j \in 1..Len(s) : s[j].at \in Nat
  BY RangeOf
<1>3. i = Len(s) \/ s[i].at < s[Len(s)].at
  BY <1>1 DEF Ordered
<1> QED
  BY <1>1, <1>2, <1>3

\* What a window's curve is of rows in order.
LEMMA CurveOf ==
    ASSUME NEW s \in Seq(Snapshot), Ordered(s), NEW now \in Nat, NEW w \in DOMAIN Windows
    PROVE  /\ Recent(s, now, w) \in Seq(Snapshot)
           /\ Range(Recent(s, now, w)) = InWindow(s, now, w)
           /\ Curve(s, now, w) \in Seq(Snapshot) /\ Ordered(Curve(s, now, w))
           /\ Range(Curve(s, now, w)) =
                 IF Windows[w].minutes = 0 THEN InWindow(s, now, w)
                 ELSE Latest(Recent(s, now, w), Windows[w].minutes)
           /\ Range(Curve(s, now, w)) \subseteq InWindow(s, now, w)
           /\ InWindow(s, now, w) # {} => Last(Curve(s, now, w)) = Last(s)
<1>0. Windows[w].span \in Nat /\ Windows[w].minutes \in Nat
  BY HistoryAssumption
<1> PICK t : t = Recent(s, now, w)
  OBVIOUS
<1>1. /\ t \in Seq(Snapshot) /\ Ordered(t) /\ Range(t) = InWindow(s, now, w)
      /\ s # <<>> /\ Last(s) \in InWindow(s, now, w) => t # <<>> /\ Last(t) = Last(s)
  BY SelectedIs DEF Recent, InWindow
<1>2. ASSUME InWindow(s, now, w) # {}
      PROVE  t # <<>> /\ Last(t) = Last(s)
  <2>1. PICK r \in Range(s) : r.at >= now - Windows[w].span
    BY <1>2 DEF InWindow
  <2>2. s # <<>>
    BY <2>1, RangeOf
  <2>3. r.at <= Last(s).at /\ Last(s) \in Range(s) /\ Last(s).at \in Nat /\ r.at \in Nat
    BY <2>2, LastIsLatest, RangeOf
  <2>4. Last(s).at >= now - Windows[w].span
    BY <1>0, <2>1, <2>3
  <2> QED
    BY <1>1, <2>2, <2>3, <2>4 DEF InWindow
<1>3. CASE Windows[w].minutes = 0
  <2>1. Curve(s, now, w) = t
    BY <1>3 DEF Curve, Downsample
  <2> QED
    BY <1>1, <1>2, <1>3, <2>1
<1>4. CASE Windows[w].minutes # 0
  <2> PICK m \in Nat : m = Windows[w].minutes
    BY <1>0
  <2>1. Curve(s, now, w) = Selected(t, Latest(t, m))
    BY <1>4 DEF Curve, Downsample
  <2>2. Latest(t, m) \subseteq Range(t)
    BY DEF Latest
  <2> PICK c : c = Selected(t, Latest(t, m))
    OBVIOUS
  <2>3. /\ c \in Seq(Snapshot) /\ Ordered(c) /\ Range(c) = Latest(t, m)
        /\ t # <<>> /\ Last(t) \in Latest(t, m) => Last(c) = Last(t)
    <3> PICK keep : keep = Latest(t, m)
      OBVIOUS
    <3>1. /\ c \in Seq(Snapshot) /\ Ordered(c) /\ Range(c) = Range(t) \cap keep
          /\ t # <<>> /\ Last(t) \in keep => Last(c) = Last(t)
      BY <1>1, SelectedIs
    <3> QED
      BY <2>2, <3>1
  <2>4. t # <<>> => Last(t) \in Latest(t, m)
    BY <1>1, LastIsLatest, RangeOf DEF Latest
  <2>5. InWindow(s, now, w) # {} => Last(c) = Last(s)
    BY <1>2, <2>3, <2>4
  <2>6. Latest(t, m) \subseteq InWindow(s, now, w)
    BY <1>1, <2>2
  <2>7. Curve(s, now, w) = c /\ Recent(s, now, w) = t /\ m # 0
    BY <1>4, <2>1
  <2>8. /\ Recent(s, now, w) \in Seq(Snapshot)
        /\ Range(Recent(s, now, w)) = InWindow(s, now, w)
    BY <1>1, <2>7
  <2>9. /\ Curve(s, now, w) \in Seq(Snapshot) /\ Ordered(Curve(s, now, w))
        /\ Range(Curve(s, now, w)) = Latest(Recent(s, now, w), m)
    BY <2>3, <2>7
  <2>10. /\ Range(Curve(s, now, w)) \subseteq InWindow(s, now, w)
         /\ InWindow(s, now, w) # {} => Last(Curve(s, now, w)) = Last(s)
    BY <2>5, <2>6, <2>7, <2>9
  <2> QED
    BY <1>4, <2>8, <2>9, <2>10
<1> QED
  BY <1>3, <1>4

\* A bucket that has a row has a latest one, which is no earlier than that row.
LEMMA LatestExists ==
    ASSUME NEW t \in Seq(Snapshot), NEW m \in Nat, m > 0, NEW r \in Range(t)
    PROVE  \E p \in Latest(t, m) : Bucket(p.at, m) = Bucket(r.at, m) /\ r.at <= p.at
<1>0. \A q \in Range(t) : q.at \in Nat
  BY RangeOf
<1> PICK b \in Nat : b = Bucket(r.at, m)
  BY <1>0, BucketOf
<1> DEFINE S == {k \in Nat : \E q \in Range(t) : Bucket(q.at, m) = b /\ q.at + k = b + m}
<1>1. ASSUME NEW q \in Range(t), Bucket(q.at, m) = b
      PROVE  (b + m) - q.at \in S /\ q.at + ((b + m) - q.at) = b + m
  <2>1. q.at \in Nat /\ q.at < b + m
    BY <1>0, <1>1, BucketOf
  <2>2. (b + m) - q.at \in Nat /\ q.at + ((b + m) - q.at) = b + m
    BY <2>1
  <2> QED
    BY <1>1, <2>2
<1>2. S # {}
  BY <1>1
<1>3. PICK k \in S : \A j \in S : k <= j
  BY <1>2, LeastNat
<1>4. PICK p \in Range(t) : Bucket(p.at, m) = b /\ p.at + k = b + m
  BY <1>3
<1>5. ASSUME NEW q \in Range(t), Bucket(q.at, m) = b
      PROVE  q.at <= p.at
  <2>1. q.at \in Nat /\ p.at \in Nat /\ k \in Nat
    BY <1>0
  <2>2. k <= (b + m) - q.at
    BY <1>1, <1>3, <1>5
  <2> QED
    BY <1>4, <2>1, <2>2
<1>6. p \in Latest(t, m)
  BY <1>4, <1>5 DEF Latest
<1> QED
  BY <1>4, <1>5, <1>6

\* A curve that is thinned out has one point of a bucket at most, and a later
\* one for each row that it leaves out.
LEMMA CurveThins ==
    ASSUME NEW s \in Seq(Snapshot), Ordered(s), NEW now \in Nat,
           NEW w \in DOMAIN Windows, NEW m \in Nat, m > 0, m = Windows[w].minutes,
           NEW recent, recent = Range(Recent(s, now, w)),
           NEW curve, curve = Curve(s, now, w)
    PROVE  /\ \A i, j \in 1..Len(curve) :
                 i < j => Bucket(curve[i].at, m) # Bucket(curve[j].at, m)
           /\ \A r \in recent \ Range(curve) : \E p \in Range(curve) :
                 r.at < p.at /\ Bucket(p.at, m) = Bucket(r.at, m)
<1> PICK t : t = Recent(s, now, w)
  OBVIOUS
<1>1. t \in Seq(Snapshot) /\ Ordered(t) /\ recent = Range(t)
  BY SelectedIs DEF Recent
<1>2. curve \in Seq(Snapshot) /\ Ordered(curve)
  BY CurveOf
<1>3. Range(curve) = Latest(t, m)
  <2>1. Windows[w].minutes # 0
    OBVIOUS
  <2>2. Range(curve) = Latest(Recent(s, now, w), Windows[w].minutes)
    BY <2>1, CurveOf
  <2> QED
    BY <2>2
<1>4. ASSUME NEW i \in 1..Len(curve), NEW j \in 1..Len(curve), i < j,
             Bucket(curve[i].at, m) = Bucket(curve[j].at, m)
      PROVE  FALSE
  <2>1. curve[i] \in Latest(t, m) /\ curve[j] \in Latest(t, m)
    <3>1. curve[i] \in Range(curve) /\ curve[j] \in Range(curve)
      BY <1>2, RangeOf
    <3> QED
      BY <1>3, <3>1
  <2>2. curve[j].at <= curve[i].at
    BY <1>4, <2>1 DEF Latest
  <2>3. curve[i].at < curve[j].at
    BY <1>2, <1>4 DEF Ordered
  <2>4. curve[i].at \in Nat /\ curve[j].at \in Nat
    BY <1>2, RangeOf
  <2> QED
    BY <2>2, <2>3, <2>4
<1>5. ASSUME NEW r \in recent \ Range(curve)
      PROVE  \E p \in Range(curve) : r.at < p.at /\ Bucket(p.at, m) = Bucket(r.at, m)
  <2>1. r \in Range(t) /\ r \notin Latest(t, m)
    BY <1>1, <1>3, <1>5
  <2>2. PICK p \in Latest(t, m) : Bucket(p.at, m) = Bucket(r.at, m) /\ r.at <= p.at
    BY <1>1, <2>1, LatestExists
  <2>3. p \in Range(t) /\ p # r
    BY <2>1, <2>2 DEF Latest
  <2>4. PICK i \in 1..Len(t), j \in 1..Len(t) : r = t[i] /\ p = t[j]
    BY <1>1, <2>1, <2>3, RangeOf
  <2>5. i < j \/ j < i
    BY <2>3, <2>4
  <2>6. r.at # p.at /\ r.at \in Nat /\ p.at \in Nat
    <3>1. r.at \in Nat /\ p.at \in Nat
      BY <1>1, <2>1, <2>3, RangeOf
    <3>2. r.at < p.at \/ p.at < r.at
      BY <1>1, <2>4, <2>5 DEF Ordered
    <3> QED
      BY <3>1, <3>2
  <2>7. r.at < p.at
    BY <2>2, <2>6
  <2> QED
    BY <1>3, <2>2, <2>7
<1> QED
  BY <1>4, <1>5

\* The curve is made of rows of the window, in their order, ends with the
\* newest row, has one point of a bucket at most, and leaves out only what a
\* later point of the same bucket stands for.
THEOREM CurveIsOfRows == Spec => []CurveIsRecorded
<1>1. ASSUME HistoryInv
      PROVE  CurveIsRecorded
  <2>1. rows \in Seq(Snapshot) /\ Ordered(rows) /\ clock \in Nat
    BY <1>1, TickFields DEF HistoryInv, Filing, OnePerBucket, Ordered
  <2> SUFFICES ASSUME NEW w \in DOMAIN Windows,
                      NEW recent, recent = Range(Recent(rows, clock, w)),
                      NEW curve, curve = Curve(rows, clock, w),
                      NEW m, m = Windows[w].minutes
               PROVE  /\ Range(curve) \subseteq recent
                      /\ recent # {} => Last(curve) = Last(rows)
                      /\ \A i, j \in 1..Len(curve) : i < j =>
                            /\ curve[i].at < curve[j].at
                            /\ m # 0 => Bucket(curve[i].at, m) # Bucket(curve[j].at, m)
                      /\ \A r \in recent \ Range(curve) :
                            /\ m # 0
                            /\ \E p \in Range(curve) :
                                  r.at < p.at /\ Bucket(p.at, m) = Bucket(r.at, m)
    BY DEF CurveIsRecorded
  <2>2. recent = InWindow(rows, clock, w)
    BY <2>1, CurveOf
  <2>3. /\ Range(curve) \subseteq recent
        /\ recent # {} => Last(curve) = Last(rows)
    BY <2>1, <2>2, CurveOf
  <2>4. m = 0 => Range(curve) = recent
    BY <2>1, <2>2, CurveOf
  <2>5. \A i, j \in 1..Len(curve) : i < j => curve[i].at < curve[j].at
    BY <2>1, CurveOf DEF Ordered
  <2>6. m \in Nat
    BY HistoryAssumption
  <2>7. CASE m = 0
    BY <2>3, <2>4, <2>5, <2>7
  <2>8. CASE m # 0
    <3>1. m > 0
      BY <2>6, <2>8
    <3>2. \A i, j \in 1..Len(curve) :
            i < j => Bucket(curve[i].at, m) # Bucket(curve[j].at, m)
      BY <2>1, <2>6, <3>1, CurveThins
    <3>3. \A r \in recent \ Range(curve) : \E p \in Range(curve) :
            r.at < p.at /\ Bucket(p.at, m) = Bucket(r.at, m)
      BY <2>1, <2>6, <3>1, CurveThins
    <3> QED
      BY <2>3, <2>5, <2>8, <3>2, <3>3
  <2> QED
    BY <2>7, <2>8
<1> QED
  BY <1>1, HistoryHolds, PTL

\* New rows that are later than all others, and time that goes on, change no
\* point of the curve's past.
LEMMA Settles ==
    ASSUME NEW s \in Seq(Snapshot), Ordered(s), NEW t \in Seq(Snapshot), Ordered(t),
           NEW now \in Nat, NEW later \in Nat, now <= later, NEW w \in DOMAIN Windows,
           Range(s) \subseteq Range(t),
           \A r \in Range(t) \ Range(s) : \A q \in Range(s) : r.at > q.at,
           Curve(s, now, w) # <<>>,
           NEW p \in Range(Curve(t, later, w)), p \notin Range(Curve(s, now, w))
    PROVE  p.at > Last(Curve(s, now, w)).at
<1>0. Windows[w].span \in Nat /\ Windows[w].minutes \in Nat
  BY HistoryAssumption
<1>1. p \in InWindow(t, later, w)
  BY CurveOf
<1>2. Last(Curve(s, now, w)) \in Range(s)
  <2>1. Last(Curve(s, now, w)) \in Range(Curve(s, now, w))
    BY CurveOf, RangeOf
  <2> QED
    BY <2>1, CurveOf DEF InWindow
<1>3. CASE p \notin Range(s)
  BY <1>1, <1>2, <1>3 DEF InWindow
<1>4. CASE p \in Range(s)
  <2>1. \A r \in Range(s) : r.at >= later - Windows[w].span
                                => r \in InWindow(s, now, w) /\ r \in InWindow(t, later, w)
    <3> SUFFICES ASSUME NEW r \in Range(s), r.at >= later - Windows[w].span
                 PROVE  r \in InWindow(s, now, w) /\ r \in InWindow(t, later, w)
      OBVIOUS
    <3>1. r.at \in Nat
      BY RangeOf
    <3>2. r.at >= now - Windows[w].span
      BY <1>0, <3>1
    <3> QED
      BY <3>2 DEF InWindow
  <2>2. p.at >= later - Windows[w].span /\ p \in InWindow(s, now, w)
    BY <1>1, <1>4, <2>1 DEF InWindow
  <2>3. Windows[w].minutes # 0
    BY <2>2, CurveOf
  <2> PICK m \in Nat : m = Windows[w].minutes
    BY <1>0
  <2>0. /\ Range(Curve(s, now, w)) = Latest(Recent(s, now, w), m)
        /\ Range(Recent(s, now, w)) = InWindow(s, now, w)
    BY <2>3, CurveOf
  <2>a. /\ Range(Curve(t, later, w)) = Latest(Recent(t, later, w), m)
        /\ Range(Recent(t, later, w)) = InWindow(t, later, w)
    BY <2>3, CurveOf
  <2>4. /\ p \in Latest(Recent(t, later, w), m)
        /\ p \notin Latest(Recent(s, now, w), m)
        /\ Range(Recent(s, now, w)) = InWindow(s, now, w)
        /\ Range(Recent(t, later, w)) = InWindow(t, later, w)
    BY <2>0, <2>a
  <2>5. PICK q \in InWindow(s, now, w) :
            Bucket(q.at, m) = Bucket(p.at, m) /\ ~(q.at <= p.at)
    BY <2>2, <2>4 DEF Latest
  <2>6. q \in Range(s) /\ q.at \in Nat /\ p.at \in Nat
    BY <1>4, RangeOf DEF InWindow
  <2>7. q.at >= later - Windows[w].span
    BY <1>0, <2>2, <2>5, <2>6
  <2>8. q \in InWindow(t, later, w)
    BY <2>1, <2>6, <2>7
  <2>9. q.at <= p.at
    BY <2>4, <2>5, <2>8 DEF Latest
  <2> QED
    BY <2>5, <2>9
<1> QED
  BY <1>3, <1>4

\* The rows after a step: the same, or one more that is later than all others.
LEMMA RowsGrow ==
    ASSUME HistoryInv, [Next]_vars
    PROVE  /\ clock' \in Nat /\ clock <= clock'
           /\ Range(rows) \subseteq Range(rows')
           /\ \A r \in Range(rows') \ Range(rows) : \A q \in Range(rows) : r.at > q.at
<1>0. TypeOK /\ Filing /\ clock \in Nat /\ rows \in Seq(Snapshot)
  BY TickFields DEF HistoryInv
<1>1. clock' \in Nat /\ clock <= clock'
  <2>1. clock' = clock \/ Advance
    BY DEF Next, Buy, Sell, Move, Lock, Event, PriceAsset, MissAsset, ReadBalances,
           Stamp, Insert, Fail, Pause, Restart, vars
  <2> QED
    BY <1>0, <2>1, ClockStep
<1>2. rows' = rows \/ (Insert /\ ~Taken(tick.at) /\ rows' = Append(rows, Filed))
  BY DEF Next, Buy, Sell, Move, Lock, Event, PriceAsset, MissAsset, ReadBalances,
         Stamp, Insert, Fail, Pause, Restart, Advance, vars
<1>3. CASE rows' = rows
  BY <1>1, <1>3
<1>4. CASE Insert /\ ~Taken(tick.at) /\ rows' = Append(rows, Filed)
  <2>1. Filed \in Snapshot /\ Filed.at = tick.at
    BY <1>0, <1>4, InsertTick
  <2> PICK n \in Nat : n = Len(rows)
    BY <1>0
  <2>2. /\ Len(rows') = n + 1 /\ rows'[n + 1] = Filed
        /\ \A i \in 1..n : rows'[i] = rows[i]
    BY <1>0, <1>4, <2>1
  <2> PICK t : t = Append(rows, Filed)
    OBVIOUS
  <2>3. t \in Seq(Snapshot)
    BY <1>0, <2>1
  <2>4. Range(rows) = {rows[i] : i \in 1..n} /\ Range(t) = {t[i] : i \in 1..(n + 1)}
    BY <1>0, <1>4, <2>2, <2>3, RangeOf
  <2>5. \A i \in 1..(n + 1) : i \in 1..n \/ i = n + 1
    OBVIOUS
  <2>6. Range(t) = Range(rows) \cup {Filed}
    BY <1>4, <2>2, <2>4, <2>5
  <2>7. \A i \in 1..n : rows[i].at < tick.at
    BY <1>0, <1>4, FiledLater
  <2>8. \A q \in Range(rows) : Filed.at > q.at
    BY <2>1, <2>4, <2>7
  <2> QED
    BY <1>1, <1>4, <2>6, <2>8
<1> QED
  BY <1>2, <1>3, <1>4

\* A point of a curve stays there until it leaves the window or is replaced by
\* a later one of its bucket, and no new point comes before the curve's end.
THEOREM PastStaysSettled == Spec => PastIsSettled
<1>1. ASSUME HistoryInv, HistoryInv', [Next]_vars, NEW w \in DOMAIN Windows,
             Curve(rows, clock, w) # <<>>,
             NEW p \in Range(Curve(rows', clock', w)) \ Range(Curve(rows, clock, w))
      PROVE  p.at > Last(Curve(rows, clock, w)).at
  <2>1. rows \in Seq(Snapshot) /\ Ordered(rows) /\ clock \in Nat
    BY <1>1, TickFields DEF HistoryInv, Filing, OnePerBucket, Ordered
  <2> PICK t : t = rows'
    OBVIOUS
  <2> PICK later : later = clock'
    OBVIOUS
  <2>2. t \in Seq(Snapshot) /\ Ordered(t)
    BY <1>1 DEF HistoryInv, TypeOK, Filing, OnePerBucket, Ordered
  <2>3. /\ later \in Nat /\ clock <= later /\ Range(rows) \subseteq Range(t)
        /\ \A r \in Range(t) \ Range(rows) : \A q \in Range(rows) : r.at > q.at
    BY <1>1, RowsGrow
  <2> QED
    BY <1>1, <2>1, <2>2, <2>3, Settles
<1>2. HistoryInv /\ HistoryInv' /\ [Next]_vars =>
         [\A w \in DOMAIN Windows :
             LET curve == Curve(rows, clock, w)
                 next == Curve(rows', clock', w)
             IN  curve # <<>> =>
                    \A p \in Range(next) \ Range(curve) : p.at > Last(curve).at]_vars
  BY <1>1
<1> QED
  BY <1>2, HistoryHolds, PTL DEF Spec, PastIsSettled

-----------------------------------------------------------------------------
(* The maximum drawdown *)

Fraction == [drop : Int, of : Nat]
Acc == [peak : Nat, worst : Fraction]

LoopStep(s) == [x \in (1..Len(s)) \X Acc |-> Step(x[2], s[x[1]])]
LoopStart(s) == [peak |-> Head(s).total, worst |-> Undefined]

LEMMA StepType ==
    ASSUME NEW acc \in Acc, NEW r \in Snapshot
    PROVE  /\ Step(acc, r) \in Acc
           /\ Step(acc, r).peak = Higher(acc.peak, r)
<1> PICK peak : peak = Higher(acc.peak, r)
  OBVIOUS
<1>1. peak \in Nat /\ r.total \in Nat
  BY DEF Higher, Acc, Snapshot
<1> PICK fall : fall = [drop |-> peak - r.total, of |-> peak]
  OBVIOUS
<1>2. fall \in Fraction
  BY <1>1 DEF Fraction
<1>3. acc.worst \in Fraction
  BY DEF Acc
<1> PICK worst : worst = IF peak > 0 /\ (acc.worst = Undefined \/ Exceeds(fall, acc.worst))
                         THEN fall ELSE acc.worst
  OBVIOUS
<1>4. worst \in Fraction
  BY <1>2, <1>3
<1>5. Step(acc, r) = [peak |-> peak, worst |-> worst]
  BY DEF Step
<1> QED
  BY <1>1, <1>4, <1>5 DEF Acc

\* The definition of Loop is met: there is such a function, and it is typed.
LEMMA LoopRun ==
    ASSUME NEW s \in Seq(Snapshot), s # <<>>
    PROVE  \E r : /\ Runs(r, Len(s), Acc, LoopStart(s), LoopStep(s))
                  /\ Loop(s)[Len(s)] = r[Len(s)]
<1> DEFINE n == Len(s)
           step == LoopStep(s)
           base == LoopStart(s)
           Eq(acc) == acc = [i \in 0..n |->
                               IF i = 0 THEN [peak |-> Head(s).total, worst |-> Undefined]
                                        ELSE Step(acc[i - 1], s[i])]
<1>1. n \in Nat /\ \A i \in 1..n : s[i] \in Snapshot
  OBVIOUS
<1>2. step \in [(1..n) \X Acc -> Acc]
  BY <1>1, StepType DEF LoopStep
<1>3. \A i \in 1..n, acc \in Acc : step[<<i, acc>>] = Step(acc, s[i])
  BY DEF LoopStep
<1>4. base \in Acc
  <2>1. Head(s) \in Snapshot
    OBVIOUS
  <2>2. Head(s).total \in Nat
    BY <2>1 DEF Snapshot
  <2> QED
    BY <2>2 DEF LoopStart, Acc, Fraction, Undefined
<1>5. Loop(s) = CHOOSE acc : Eq(acc)
  BY DEF Loop
<1>6. base = [peak |-> Head(s).total, worst |-> Undefined]
  BY DEF LoopStart
<1> HIDE DEF n, step, base
<1>7. PICK r : Runs(r, n, Acc, base, step)
  BY <1>1, <1>2, <1>4, RunExists
<1>8. Eq(r)
  <2>1. /\ r \in [0..n -> Acc] /\ r[0] = base
        /\ \A i \in 1..n : r[i] = step[<<i, r[i - 1]>>]
    BY <1>7 DEF Runs
  <2>2. \A i \in 1..n : r[i - 1] \in Acc
    BY <1>1, <2>1
  <2>3. \A i \in 1..n : r[i] = Step(r[i - 1], s[i])
    BY <1>3, <2>1, <2>2
  <2>4. \A i \in 0..n : i = 0 \/ i \in 1..n
    BY <1>1
  <2> QED
    BY <1>6, <2>1, <2>3, <2>4
<1> HIDE DEF Eq
<1>9. PICK b : Eq(b) /\ Loop(s) = b
  <2> PICK c : c = CHOOSE acc : Eq(acc)
    OBVIOUS
  <2>1. Eq(c)
    BY <1>8
  <2> QED
    BY <1>5, <2>1
<1> USE DEF Eq
<1>10. \A i \in 1..n : b[i] = Step(b[i - 1], s[i])
  <2> SUFFICES ASSUME NEW i \in 1..n
               PROVE  b[i] = Step(b[i - 1], s[i])
    OBVIOUS
  <2>1. i \in 0..n /\ i # 0
    BY <1>1
  <2> QED
    BY <1>9, <2>1
<1>11. Follows(b, n, Acc, base, step)
  <2>1. b[0] = base
    BY <1>1, <1>6, <1>9
  <2> QED
    BY <1>3, <1>10, <2>1 DEF Follows
<1>12. b[n] = r[n]
  <2>1. n \in Nat
    BY <1>1
  <2> HIDE DEF Eq
  <2>2. \A i \in 0..n : b[i] = r[i]
    BY <1>7, <1>11, <2>1, RunsAgree
  <2> QED
    BY <2>1, <2>2
<1> QED
  BY <1>7, <1>9, <1>12 DEF n, step, base

\* A fraction is not more than another; fractions are compared crosswise.
LEMMA NotMore ==
    ASSUME NEW x \in Fraction, NEW y \in Fraction
    PROVE  /\ ~Exceeds(x, y) <=> x.drop * y.of <= y.drop * x.of
           /\ Exceeds(x, y) => y.drop * x.of <= x.drop * y.of
<1>1. x.drop * y.of \in Int /\ y.drop * x.of \in Int
  BY DEF Fraction
<1> QED
  BY <1>1 DEF Exceeds

LEMMA Regroup ==
    ASSUME NEW x \in Int, NEW y \in Int, NEW z \in Int
    PROVE  (x * y) * z = (x * z) * y
  OBVIOUS

LEMMA CrossTransitive ==
    ASSUME NEW a \in Int, NEW b \in Nat, b > 0, NEW c \in Int, NEW d \in Nat, d > 0,
           NEW e \in Int, NEW f \in Nat, f > 0, a * d <= c * b, c * f <= e * d
    PROVE  a * f <= e * b
<1>1. (a * d) * f <= (c * b) * f
  <2> PICK p \in Int : p = a * d
    OBVIOUS
  <2> PICK q \in Int : q = c * b
    OBVIOUS
  <2> QED
    BY Multiples
<1>2. (c * f) * b <= (e * d) * b
  <2> PICK p \in Int : p = c * f
    OBVIOUS
  <2> PICK q \in Int : q = e * d
    OBVIOUS
  <2> QED
    BY Multiples
<1>3. /\ (a * d) * f = (a * f) * d /\ (c * b) * f = (c * f) * b
      /\ (e * d) * b = (e * b) * d
  BY Regroup
<1> PICK x \in Int : x = a * f
  OBVIOUS
<1> PICK y \in Int : y = e * b
  OBVIOUS
<1>4. x * d <= y * d
  <2> PICK p \in Int : p = (a * d) * f
    OBVIOUS
  <2> PICK q \in Int : q = (c * b) * f
    OBVIOUS
  <2> PICK t \in Int : t = (e * d) * b
    OBVIOUS
  <2>1. p <= q /\ q <= t /\ p = x * d /\ t = y * d
    BY <1>1, <1>2, <1>3
  <2> QED
    BY <2>1
<1>5. x * d < y * d + d
  <2> PICK p \in Int : p = x * d
    OBVIOUS
  <2> PICK q \in Int : q = y * d
    OBVIOUS
  <2> QED
    BY <1>4
<1> QED
  BY <1>5, Multiples

LEMMA NotMoreTransitive ==
    ASSUME NEW x \in Fraction, NEW y \in Fraction, NEW z \in Fraction,
           x.of > 0, y.of > 0, z.of > 0,
           x.drop * y.of <= y.drop * x.of, y.drop * z.of <= z.drop * y.of
    PROVE  x.drop * z.of <= z.drop * x.of
<1>1. /\ x.drop \in Int /\ y.drop \in Int /\ z.drop \in Int
      /\ x.of \in Nat /\ y.of \in Nat /\ z.of \in Nat
  BY DEF Fraction
<1> QED
  BY <1>1, CrossTransitive

\* From a higher point a fall to the same point is no smaller.
LEMMA HigherFallsFurther ==
    ASSUME NEW t \in Nat, NEW peak \in Nat, NEW r \in Nat, t <= peak
    PROVE  (t - r) * peak <= (peak - r) * t
<1> PICK p \in Int : p = t * r
  OBVIOUS
<1> PICK q \in Int : q = peak * r
  OBVIOUS
<1> PICK b \in Int : b = t * peak
  OBVIOUS
<1>1. p <= q
  <2>1. CASE r = 0
    BY <2>1
  <2>2. CASE r > 0
    BY <2>2, Multiples
  <2> QED
    BY <2>1, <2>2
<1>2. (t - r) * peak = b - q /\ (peak - r) * t = b - p
  OBVIOUS
<1> QED
  BY <1>1, <1>2

\* From one point of a sequence to another; those among the first i.
FallOf(s, p, q) == [drop |-> s[p].total - s[q].total, of |-> s[p].total]
FallsTo(s, i) ==
    {FallOf(s, x[1], x[2]) :
        x \in {y \in (1..i) \X (1..i) : y[1] <= y[2] /\ s[y[1]].total > 0}}

\* What the loop knows after i points: the peak is one of them (at first, the
\* first one), and the worst fall is the worst one among them.
Known(s, i, acc) ==
    /\ acc \in Acc
    /\ \A j \in 1..i : s[j].total <= acc.peak
    /\ \E k \in 1..Len(s) : (k <= i \/ k = 1) /\ acc.peak = s[k].total
    /\ FallsTo(s, i) = {} => acc.worst = Undefined
    /\ FallsTo(s, i) # {} =>
          /\ acc.worst \in FallsTo(s, i)
          /\ \A f \in FallsTo(s, i) : ~Exceeds(f, acc.worst)

LEMMA FallsTyped ==
    ASSUME NEW s \in Seq(Snapshot), NEW i \in Nat, i <= Len(s)
    PROVE  \A f \in FallsTo(s, i) : f \in Fraction /\ f.of > 0
<1> SUFFICES ASSUME NEW p \in 1..i, NEW q \in 1..i, s[p].total > 0
             PROVE  FallOf(s, p, q) \in Fraction /\ FallOf(s, p, q).of > 0
  BY DEF FallsTo
<1>1. s[p] \in Snapshot /\ s[q] \in Snapshot
  OBVIOUS
<1>2. s[p].total \in Nat /\ s[q].total \in Nat
  BY <1>1 DEF Snapshot
<1>3. s[p].total - s[q].total \in Int
  BY <1>2
<1> QED
  BY <1>2, <1>3 DEF FallOf, Fraction

\* One point more adds the falls that end there.
LEMMA FallsGrow ==
    ASSUME NEW s \in Seq(Snapshot), NEW k \in 1..Len(s)
    PROVE  /\ FallsTo(s, k - 1) \subseteq FallsTo(s, k)
           /\ \A f \in FallsTo(s, k) :
                 \/ f \in FallsTo(s, k - 1)
                 \/ \E p \in 1..k : s[p].total > 0 /\ f = FallOf(s, p, k)
           /\ \A p \in 1..k : s[p].total > 0 => FallOf(s, p, k) \in FallsTo(s, k)
<1>1. ASSUME NEW f \in FallsTo(s, k - 1)
      PROVE  f \in FallsTo(s, k)
  <2>1. PICK p \in 1..(k - 1), q \in 1..(k - 1) :
            p <= q /\ s[p].total > 0 /\ f = FallOf(s, p, q)
    BY DEF FallsTo
  <2>2. <<p, q>> \in (1..k) \X (1..k)
    OBVIOUS
  <2> QED
    BY <2>1, <2>2 DEF FallsTo
<1>2. ASSUME NEW f \in FallsTo(s, k)
      PROVE  \/ f \in FallsTo(s, k - 1)
             \/ \E p \in 1..k : s[p].total > 0 /\ f = FallOf(s, p, k)
  <2>1. PICK p \in 1..k, q \in 1..k : p <= q /\ s[p].total > 0 /\ f = FallOf(s, p, q)
    BY DEF FallsTo
  <2>2. CASE q = k
    BY <2>1, <2>2
  <2>3. CASE q # k
    <3>1. <<p, q>> \in (1..(k - 1)) \X (1..(k - 1))
      BY <2>1, <2>3
    <3> QED
      BY <2>1, <3>1 DEF FallsTo
  <2> QED
    BY <2>2, <2>3
<1>3. ASSUME NEW p \in 1..k, s[p].total > 0
      PROVE  FallOf(s, p, k) \in FallsTo(s, k)
  <2>1. <<p, k>> \in (1..k) \X (1..k) /\ p <= k
    OBVIOUS
  <2> QED
    BY <1>3, <2>1 DEF FallsTo
<1> QED
  BY <1>1, <1>2, <1>3

\* The loop's body: the peak and the worst fall of one point more.
LEMMA KnownGrows ==
    ASSUME NEW s \in Seq(Snapshot), NEW k \in 1..Len(s), NEW acc, Known(s, k - 1, acc)
    PROVE  Known(s, k, Step(acc, s[k]))
<1> PICK r \in Snapshot : r = s[k]
  OBVIOUS
<1> PICK new : new = Step(acc, r)
  OBVIOUS
<1> PICK peak : peak = Higher(acc.peak, r)
  OBVIOUS
<1> PICK fall : fall = [drop |-> peak - r.total, of |-> peak]
  OBVIOUS
<1>0. /\ acc \in Acc /\ acc.peak \in Nat /\ acc.worst \in Fraction /\ r.total \in Nat
      /\ \A j \in 1..Len(s) : s[j].total \in Nat
  <2>1. \A j \in 1..Len(s) : s[j] \in Snapshot
    OBVIOUS
  <2> QED
    BY <2>1 DEF Known, Acc, Snapshot
<1>1. /\ new \in Acc /\ new.peak = peak /\ peak \in Nat
      /\ new.worst = IF peak > 0 /\ (acc.worst = Undefined \/ Exceeds(fall, acc.worst))
                     THEN fall ELSE acc.worst
  <2>1. new \in Acc /\ new.peak = peak
    BY <1>0, StepType
  <2>2. peak \in Nat
    BY <1>0 DEF Higher
  <2> QED
    BY <2>1, <2>2 DEF Step
<1>2. /\ acc.peak <= peak /\ r.total <= peak
      /\ peak = acc.peak \/ peak = r.total
  BY <1>0 DEF Higher
<1>3. \A j \in 1..k : s[j].total <= peak
  <2> SUFFICES ASSUME NEW j \in 1..k
               PROVE  s[j].total <= peak
    OBVIOUS
  <2>1. j = k \/ j \in 1..(k - 1)
    OBVIOUS
  <2>2. j \in 1..(k - 1) => s[j].total <= acc.peak
    BY DEF Known
  <2>3. s[j].total \in Nat
    BY <1>0
  <2> QED
    BY <1>0, <1>1, <1>2, <2>1, <2>2, <2>3
<1>4. \E i \in 1..k : peak = s[i].total
  <2>1. CASE peak = r.total
    BY <2>1
  <2>2. CASE peak = acc.peak
    <3>1. PICK i \in 1..Len(s) : (i <= k - 1 \/ i = 1) /\ acc.peak = s[i].total
      BY DEF Known
    <3>2. i \in 1..k
      BY <3>1
    <3> QED
      BY <2>2, <3>1, <3>2
  <2> QED
    BY <1>2, <2>1, <2>2
<1>5. \E i \in 1..Len(s) : (i <= k \/ i = 1) /\ peak = s[i].total
  BY <1>4
<1>f. /\ FallsTo(s, k - 1) \subseteq FallsTo(s, k)
      /\ \A f \in FallsTo(s, k) :
            \/ f \in FallsTo(s, k - 1)
            \/ \E p \in 1..k : s[p].total > 0 /\ f = FallOf(s, p, k)
      /\ \A p \in 1..k : s[p].total > 0 => FallOf(s, p, k) \in FallsTo(s, k)
      /\ \A f \in FallsTo(s, k) : f \in Fraction /\ f.of > 0
      /\ \A f \in FallsTo(s, k - 1) : f \in Fraction /\ f.of > 0
  BY FallsGrow, FallsTyped
<1>w. /\ FallsTo(s, k - 1) = {} => acc.worst = Undefined
      /\ FallsTo(s, k - 1) # {} =>
            /\ acc.worst \in FallsTo(s, k - 1)
            /\ \A f \in FallsTo(s, k - 1) : ~Exceeds(f, acc.worst)
  BY DEF Known
<1>6. CASE peak = 0
  <2>1. \A j \in 1..k : ~(s[j].total > 0)
    BY <1>0, <1>3, <1>6
  <2>2. FallsTo(s, k) = {}
    BY <2>1 DEF FallsTo
  <2>3. new.worst = Undefined
    BY <1>1, <1>6, <1>f, <1>w, <2>2
  <2> QED
    BY <1>1, <1>3, <1>5, <2>2, <2>3 DEF Known
<1>7. CASE peak > 0
  <2>1. PICK i \in 1..k : peak = s[i].total
    BY <1>4
  <2>2. fall = FallOf(s, i, k)
    BY <2>1 DEF FallOf
  <2>3. fall \in FallsTo(s, k) /\ fall \in Fraction /\ fall.of > 0
    BY <1>7, <1>f, <2>1, <2>2
  <2>4. ASSUME NEW p \in 1..k, s[p].total > 0
        PROVE  LET f == FallOf(s, p, k) IN f.drop * fall.of <= fall.drop * f.of
    <3> PICK t \in Nat : t = s[p].total
      BY <1>0
    <3>1. t <= peak
      BY <1>3
    <3>2. (t - r.total) * peak <= (peak - r.total) * t
      BY <1>0, <1>1, <3>1, HigherFallsFurther
    <3> QED
      BY <3>2 DEF FallOf
  <2>5. CASE acc.worst = Undefined
    <3>1. FallsTo(s, k - 1) = {}
      <4>1. ~(Undefined.of > 0)
        BY DEF Undefined
      <4> QED
        BY <1>f, <1>w, <2>5, <4>1
    <3>2. new.worst = fall
      BY <1>1, <1>7, <2>5
    <3>3. \A f \in FallsTo(s, k) : ~Exceeds(f, fall)
      BY <1>f, <2>3, <2>4, <3>1, NotMore
    <3> QED
      BY <1>1, <1>3, <1>5, <2>3, <3>2, <3>3 DEF Known
  <2>6. CASE acc.worst # Undefined
    <3> PICK worst : worst = acc.worst
      OBVIOUS
    <3>1. /\ worst \in FallsTo(s, k - 1) /\ worst \in FallsTo(s, k)
          /\ worst \in Fraction /\ worst.of > 0
          /\ \A f \in FallsTo(s, k - 1) : f.drop * worst.of <= worst.drop * f.of
      <4>1. FallsTo(s, k - 1) # {}
        BY <1>w, <2>6
      <4>2. worst \in FallsTo(s, k - 1) /\ worst \in FallsTo(s, k)
        BY <1>f, <1>w, <4>1
      <4>3. \A f \in FallsTo(s, k - 1) : ~Exceeds(f, worst)
        BY <1>w, <4>1
      <4> QED
        BY <1>f, <4>2, <4>3, NotMore
    <3>2. CASE Exceeds(fall, worst)
      <4>1. new.worst = fall
        BY <1>1, <1>7, <3>2
      <4>2. worst.drop * fall.of <= fall.drop * worst.of
        BY <2>3, <3>1, <3>2, NotMore
      <4>3. ASSUME NEW f \in FallsTo(s, k)
            PROVE  ~Exceeds(f, fall)
        <5>1. f \in Fraction /\ f.of > 0
          BY <1>f
        <5>2. f.drop * fall.of <= fall.drop * f.of
          <6>1. CASE f \in FallsTo(s, k - 1)
            <7>1. f.drop * worst.of <= worst.drop * f.of
              BY <3>1, <6>1
            <7> QED
              BY <2>3, <3>1, <4>2, <5>1, <7>1, NotMoreTransitive
          <6>2. CASE \E p \in 1..k : s[p].total > 0 /\ f = FallOf(s, p, k)
            BY <2>4, <6>2
          <6> QED
            BY <1>f, <6>1, <6>2
        <5> QED
          BY <2>3, <5>1, <5>2, NotMore
      <4> QED
        BY <1>1, <1>3, <1>5, <2>3, <4>1, <4>3 DEF Known
    <3>3. CASE ~Exceeds(fall, worst)
      <4>1. new.worst = worst
        BY <1>1, <2>6, <3>3
      <4>2. fall.drop * worst.of <= worst.drop * fall.of
        BY <2>3, <3>1, <3>3, NotMore
      <4>3. ASSUME NEW f \in FallsTo(s, k)
            PROVE  ~Exceeds(f, worst)
        <5>1. f \in Fraction /\ f.of > 0
          BY <1>f
        <5>2. f.drop * worst.of <= worst.drop * f.of
          <6>1. CASE f \in FallsTo(s, k - 1)
            BY <3>1, <6>1
          <6>2. CASE \E p \in 1..k : s[p].total > 0 /\ f = FallOf(s, p, k)
            <7>1. f.drop * fall.of <= fall.drop * f.of
              BY <2>4, <6>2
            <7> QED
              BY <2>3, <3>1, <4>2, <5>1, <7>1, NotMoreTransitive
          <6> QED
            BY <1>f, <6>1, <6>2
        <5> QED
          BY <3>1, <5>1, <5>2, NotMore
      <4> QED
        BY <1>1, <1>3, <1>5, <3>1, <4>1, <4>3 DEF Known
    <3> QED
      BY <3>2, <3>3
  <2> QED
    BY <2>5, <2>6
<1> QED
  BY <1>1, <1>6, <1>7

\* The maximum drawdown of a sequence is the worst of its falls.
LEMMA DrawdownIs ==
    ASSUME NEW s \in Seq(Snapshot)
    PROVE  /\ FallsTo(s, Len(s)) = {} => MaxDrawdown(s) = Undefined
           /\ FallsTo(s, Len(s)) # {} =>
                 /\ MaxDrawdown(s) \in FallsTo(s, Len(s))
                 /\ \A f \in FallsTo(s, Len(s)) : ~Exceeds(f, MaxDrawdown(s))
<1>1. CASE s = <<>>
  <2>1. FallsTo(s, Len(s)) = {}
    BY <1>1 DEF FallsTo
  <2> QED
    BY <1>1, <2>1 DEF MaxDrawdown
<1>2. CASE s # <<>>
  <2> PICK n \in Nat : n = Len(s)
    OBVIOUS
  <2>1. PICK r : /\ Runs(r, n, Acc, LoopStart(s), LoopStep(s))
                 /\ Loop(s)[n] = r[n]
    BY <1>2, LoopRun
  <2> DEFINE S == {i \in Nat : i <= n => Known(s, i, r[i])}
  <2>2. 0 \in S
    <3>1. r[0] = [peak |-> Head(s).total, worst |-> Undefined] /\ r[0] \in Acc
      BY <2>1 DEF Runs, LoopStart
    <3>2. Head(s) = s[1] /\ 1 \in 1..Len(s)
      BY <1>2
    <3>3. FallsTo(s, 0) = {}
      BY DEF FallsTo
    <3>4. Known(s, 0, r[0])
      BY <3>1, <3>2, <3>3 DEF Known
    <3> QED
      BY <3>4
  <2>3. ASSUME NEW i \in Nat, i \in S
        PROVE  i + 1 \in S
    <3> SUFFICES ASSUME i + 1 <= n
                 PROVE  Known(s, i + 1, r[i + 1])
      OBVIOUS
    <3>1. Known(s, i, r[i])
      BY <2>3
    <3> PICK k \in 1..n : k = i + 1
      OBVIOUS
    <3>2. k - 1 = i /\ r[k] = LoopStep(s)[<<k, r[k - 1]>>]
      BY <2>1 DEF Runs
    <3>3. r[i] \in Acc
      BY <3>1 DEF Known
    <3>4. r[k] = Step(r[i], s[k])
      BY <3>2, <3>3 DEF LoopStep
    <3>5. Known(s, k - 1, r[i])
      BY <3>1, <3>2
    <3> QED
      BY <3>4, <3>5, KnownGrows
  <2> HIDE DEF S
  <2>4. n \in S
    BY <2>2, <2>3, Induction
  <2>5. Known(s, n, Loop(s)[n])
    BY <2>1, <2>4 DEF S
  <2>6. MaxDrawdown(s) = Loop(s)[n].worst
    BY <1>2 DEF MaxDrawdown
  <2> QED
    BY <2>5, <2>6 DEF Known
<1> QED
  BY <1>1, <1>2

\* The figures of an answer are those of its curve, whatever the curve: the
\* drawdown is the worst fall there is, and the loss over the window is none
\* that is worse.
THEOREM FiguresAreOfCurve == Spec => []FiguresFollow
<1>1. ASSUME NEW s \in Seq(Snapshot)
      PROVE  /\ Falls(s) = {} => MaxDrawdown(s) = Undefined
             /\ Falls(s) # {} => /\ MaxDrawdown(s) \in Falls(s)
                                 /\ \A f \in Falls(s) : ~Exceeds(f, MaxDrawdown(s))
             /\ Loss(s) # Undefined => ~Exceeds(Loss(s), MaxDrawdown(s))
  <2>1. Falls(s) = FallsTo(s, Len(s))
    BY DEF Falls, FallsTo, FallOf
  <2>2. ASSUME Loss(s) # Undefined
        PROVE  Loss(s) \in FallsTo(s, Len(s))
    <3>1. ~(Len(s) < 2) /\ Head(s).total # 0
      BY <2>2 DEF Loss
    <3>2. 1 \in 1..Len(s) /\ Len(s) \in 1..Len(s) /\ Head(s) = s[1] /\ s[1] \in Snapshot
      BY <3>1
    <3>3. s[1].total > 0
      BY <3>1, <3>2 DEF Snapshot
    <3>4. Loss(s) = FallOf(s, 1, Len(s))
      BY <3>1, <3>2 DEF Loss, FallOf, Last
    <3> QED
      BY <3>2, <3>3, <3>4, FallsGrow
  <2> QED
    BY <2>1, <2>2, DrawdownIs
<1>2. ASSUME HistoryInv
      PROVE  FiguresFollow
  <2>1. rows \in Seq(Snapshot) /\ Ordered(rows) /\ clock \in Nat
    BY <1>2, TickFields DEF HistoryInv, Filing, OnePerBucket, Ordered
  <2>2. \A w \in DOMAIN Windows : Curve(rows, clock, w) \in Seq(Snapshot)
    BY <2>1, CurveOf
  <2>3. DrawdownIsLargest
    BY <1>1, <2>2 DEF DrawdownIsLargest
  <2>4. LossWithinDrawdown
    BY <1>1, <2>2 DEF LossWithinDrawdown
  <2> QED
    BY <2>3, <2>4 DEF FiguresFollow
<1> QED
  BY <1>2, HistoryHolds, PTL

=============================================================================
