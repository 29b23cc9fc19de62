--------------------------- MODULE RiskGate_proofs ---------------------------
(***************************************************************************)
(* Theorems about RiskGate: its types, how far an account may be beyond    *)
(* its limits after an order whose prices have moved, and what the         *)
(* cost-basis walk tells of a history, for any finite set of symbols, any  *)
(* prices and drift, quantities, limits and filters, any number of trades  *)
(* and any number of trades that Binance returns.                          *)
(*                                                                         *)
(* The exposure is a sum over a set and the walk a recursive function:     *)
(* what they compute is proved by induction, which rests on the theorem    *)
(* that subset is well-founded on finite sets.                             *)
(***************************************************************************)
EXTENDS RiskGate, FiniteSetTheorems, WellFoundedInduction, TLAPS

-----------------------------------------------------------------------------
(* Induction and recursion *)

\* A nonempty set of natural numbers has a least element.
LEMMA LeastNat ==
    ASSUME NEW T \in SUBSET Nat, T # {}
    PROVE  \E x \in T : \A y \in T : x <= y
<1> DEFINE U == {0..x : x \in T}
<1>1. U \subseteq FiniteSubsetsOf(Nat) /\ U # {}
  <2>1. ASSUME NEW x \in T
        PROVE  0..x \in FiniteSubsetsOf(Nat)
    <3>1. IsFiniteSet(0..x)
      BY FS_Interval
    <3> QED
      BY <3>1 DEF FiniteSubsetsOf
  <2> QED
    BY <2>1
<1>2. PICK m \in U : \A n \in U : <<n, m>> \notin StrictSubsetOrdering(Nat)
  <2>1. IsWellFoundedOn(StrictSubsetOrdering(Nat), FiniteSubsetsOf(Nat))
    BY FS_StrictSubsetOrderingWellFounded
  <2> HIDE DEF U
  <2> QED
    BY <1>1, <2>1, WFMin
<1>3. PICK x \in T : m = 0..x
  BY <1>2
<1>4. ASSUME NEW y \in T, y < x
      PROVE  FALSE
  <2>1. 0..y \in U
    OBVIOUS
  <2>2. 0..y \subseteq 0..x /\ 0..y # 0..x
    <3>1. x \in 0..x /\ x \notin 0..y
      BY <1>4
    <3> QED
      BY <1>4, <3>1
  <2>3. 0..y \in SUBSET Nat /\ 0..x \in SUBSET Nat
    OBVIOUS
  <2>4. <<0..y, 0..x>> \in StrictSubsetOrdering(Nat)
    BY <2>2, <2>3 DEF StrictSubsetOrdering
  <2> QED
    BY <1>2, <1>3, <2>1, <2>4
<1> QED
  BY <1>4

\* Induction over a set: it holds every number if it holds 0 and successors.
LEMMA Induction ==
    ASSUME NEW S, 0 \in S, \A n \in Nat : n \in S => n + 1 \in S
    PROVE  \A n \in Nat : n \in S
<1> SUFFICES ASSUME Nat \ S # {}
             PROVE  FALSE
  OBVIOUS
<1>1. PICK x \in Nat \ S : \A y \in Nat \ S : x <= y
  BY LeastNat
<1>2. x # 0 /\ x - 1 \in Nat
  OBVIOUS
<1>3. x - 1 \in S
  BY <1>1, <1>2
<1>4. (x - 1) + 1 = x
  OBVIOUS
<1> QED
  BY <1>2, <1>3, <1>4

\* r is what a recursion over 1..n with values in V runs through.
Runs(r, n, V, base, step) ==
    /\ r \in [0..n -> V]
    /\ r[0] = base
    /\ \A i \in 1..n : r[i] = step[<<i, r[i - 1]>>]

\* g takes the same steps wherever it is known to be in V.
Follows(g, n, V, base, step) ==
    /\ g[0] = base
    /\ \A i \in 1..n : g[i - 1] \in V => g[i] = step[<<i, g[i - 1]>>]

\* Every recursion with typed steps has a run.
LEMMA RunExists ==
    ASSUME NEW V, NEW base \in V, NEW N \in Nat, NEW step \in [(1..N) \X V -> V]
    PROVE  \E r : Runs(r, N, V, base, step)
<1> DEFINE P(n) == \E r : Runs(r, n, V, base, step)
           S == {n \in Nat : n <= N => P(n)}
<1>1. 0 \in S
  <2> PICK r : r = [i \in 0..0 |-> base]
    OBVIOUS
  <2>1. Runs(r, 0, V, base, step)
    BY DEF Runs
  <2> QED
    BY <2>1
<1>2. ASSUME NEW n \in Nat, n \in S, n + 1 <= N
      PROVE  P(n + 1)
  <2>1. n <= N /\ P(n)
    BY <1>2
  <2>2. PICK g : Runs(g, n, V, base, step)
    BY <2>1
  <2> PICK k \in Nat : k = n + 1
    OBVIOUS
  <2> PICK h : h = [i \in 0..k |-> IF i = k THEN step[<<k, g[n]>>] ELSE g[i]]
    OBVIOUS
  <2>3. k \in 1..N /\ n \in 0..n /\ g \in [0..n -> V]
    BY <1>2, <2>2 DEF Runs
  <2>4. step[<<k, g[n]>>] \in V
    BY <2>3
  <2>5. \A i \in 0..k : i # k => i \in 0..n
    OBVIOUS
  <2>6. h \in [0..k -> V]
    BY <2>3, <2>4, <2>5
  <2>7. h[0] = base
    BY <2>2 DEF Runs
  <2>8. ASSUME NEW i \in 1..k
        PROVE  h[i] = step[<<i, h[i - 1]>>]
    <3>1. i - 1 \in 0..k /\ i - 1 # k
      OBVIOUS
    <3>2. h[i - 1] = g[i - 1]
      BY <3>1
    <3>3. CASE i = k
      <4>1. i - 1 = n /\ h[k] = step[<<k, g[n]>>]
        BY <3>3
      <4> QED
        BY <3>2, <3>3, <4>1
    <3>4. CASE i # k
      <4>1. i \in 1..n
        BY <3>4
      <4>2. g[i] = step[<<i, g[i - 1]>>]
        BY <2>2, <4>1 DEF Runs
      <4>3. h[i] = g[i]
        BY <3>4
      <4> QED
        BY <3>2, <4>2, <4>3
    <3> QED
      BY <3>3, <3>4
  <2>9. Runs(h, k, V, base, step)
    BY <2>6, <2>7, <2>8 DEF Runs
  <2> QED
    BY <2>9
<1>3. ASSUME NEW n \in Nat, n \in S
      PROVE  n + 1 \in S
  <2>1. CASE n + 1 <= N
    BY <1>2, <1>3, <2>1
  <2>2. CASE ~ (n + 1 <= N)
    BY <2>2
  <2> QED
    BY <2>1, <2>2
<1> HIDE DEF S
<1>4. N \in S
  BY <1>1, <1>3, Induction
<1>5. N <= N => P(N)
  BY <1>4 DEF S
<1> QED
  BY <1>5

\* Whatever takes the same steps runs through the same values.
LEMMA RunsAgree ==
    ASSUME NEW V, NEW base, NEW n \in Nat, NEW step,
           NEW f, Runs(f, n, V, base, step),
           NEW g, Follows(g, n, V, base, step)
    PROVE  \A i \in 0..n : g[i] = f[i]
<1> DEFINE S == {i \in Nat : i <= n => g[i] = f[i]}
<1>1. 0 \in S
  BY DEF Runs, Follows
<1>2. ASSUME NEW i \in Nat, i \in S
      PROVE  i + 1 \in S
  <2> SUFFICES ASSUME i + 1 <= n
               PROVE  g[i + 1] = f[i + 1]
    OBVIOUS
  <2> PICK k \in Nat : k = i + 1
    OBVIOUS
  <2>1. i \in 0..n /\ k \in 1..n /\ k \in 0..n /\ k # 0 /\ k - 1 = i
    OBVIOUS
  <2>2. g[i] = f[i] /\ f[i] \in V
    BY <1>2, <2>1 DEF Runs
  <2>3. f[k] = step[<<k, f[i]>>]
    BY <2>1 DEF Runs
  <2>4. g[k] = step[<<k, g[i]>>]
    BY <2>1, <2>2 DEF Follows
  <2> QED
    BY <2>2, <2>3, <2>4
<1> HIDE DEF S
<1>3. \A i \in Nat : i \in S
  BY <1>1, <1>2, Induction
<1> QED
  BY <1>3 DEF S

-----------------------------------------------------------------------------
(* Sums over a finite set of symbols *)

Picked(s) == CHOOSE x \in s : TRUE

\* F is the sum of f over every subset of T, a term at a time.
Sums(F, f, T) ==
    /\ F \in [SUBSET T -> Int]
    /\ F[{}] = 0
    /\ \A s \in SUBSET T : s # {} => F[s] = f[Picked(s)] + F[s \ {Picked(s)}]

\* What is left of a finite set without the element picked is smaller.
LEMMA PickedRemoves ==
    ASSUME NEW T, IsFiniteSet(T), NEW s \in SUBSET T, s # {}
    PROVE  /\ IsFiniteSet(s) /\ Picked(s) \in s
           /\ s \ {Picked(s)} \in SUBSET T
           /\ Cardinality(s) \in Nat
           /\ Cardinality(s \ {Picked(s)}) = Cardinality(s) - 1
<1>1. IsFiniteSet(s)
  BY FS_Subset
<1>2. Picked(s) \in s
  BY DEF Picked
<1> QED
  BY <1>1, <1>2, FS_CardinalityType, FS_RemoveElement

LEMMA OnlyEmpty ==
    ASSUME NEW T, IsFiniteSet(T), NEW s \in SUBSET T, Cardinality(s) <= 0
    PROVE  s = {}
<1>1. IsFiniteSet(s)
  BY FS_Subset
<1>2. Cardinality(s) = 0
  BY <1>1, FS_CardinalityType
<1> QED
  BY <1>1, <1>2, FS_EmptySet

\* There are sums.
LEMMA SumsExist ==
    ASSUME NEW T, IsFiniteSet(T), NEW f, \A x \in T : f[x] \in Int
    PROVE  \E F : Sums(F, f, T)
<1> DEFINE Up(F, n) ==
             /\ F \in [SUBSET T -> Int]
             /\ F[{}] = 0
             /\ \A s \in SUBSET T : s # {} /\ Cardinality(s) <= n =>
                    F[s] = f[Picked(s)] + F[s \ {Picked(s)}]
           S == {n \in Nat : \E F : Up(F, n)}
<1>1. 0 \in S
  <2> PICK F : F = [s \in SUBSET T |-> 0]
    OBVIOUS
  <2>1. \A s \in SUBSET T : s # {} => Cardinality(s) \in Nat /\ Cardinality(s) # 0
    BY FS_Subset, FS_CardinalityType, FS_EmptySet
  <2>2. Up(F, 0)
    BY <2>1
  <2> QED
    BY <2>2
<1>2. ASSUME NEW n \in Nat, n \in S
      PROVE  n + 1 \in S
  <2>1. PICK F : Up(F, n)
    BY <1>2
  <2> PICK G : G = [s \in SUBSET T |->
                      IF s = {} \/ Cardinality(s) <= n THEN F[s]
                      ELSE f[Picked(s)] + F[s \ {Picked(s)}]]
    OBVIOUS
  <2>2. G \in [SUBSET T -> Int] /\ G[{}] = 0
    <3>1. ASSUME NEW s \in SUBSET T
          PROVE  G[s] \in Int
      <4>1. CASE s = {} \/ Cardinality(s) <= n
        BY <2>1, <4>1
      <4>2. CASE ~ (s = {} \/ Cardinality(s) <= n)
        <5>1. f[Picked(s)] \in Int /\ F[s \ {Picked(s)}] \in Int
          BY <2>1, <4>2, PickedRemoves
        <5> QED
          BY <4>2, <5>1
      <4> QED
        BY <4>1, <4>2
    <3> QED
      BY <2>1, <3>1
  <2>3. ASSUME NEW s \in SUBSET T, s # {}, Cardinality(s) <= n + 1
        PROVE  G[s] = f[Picked(s)] + G[s \ {Picked(s)}]
    <3>1. /\ s \ {Picked(s)} \in SUBSET T
          /\ Cardinality(s) \in Nat
          /\ Cardinality(s \ {Picked(s)}) = Cardinality(s) - 1
      BY <2>3, PickedRemoves
    <3>2. Cardinality(s \ {Picked(s)}) <= n
      BY <2>3, <3>1
    <3>3. G[s \ {Picked(s)}] = F[s \ {Picked(s)}]
      BY <3>1, <3>2
    <3>4. CASE Cardinality(s) <= n
      BY <2>1, <2>3, <3>3, <3>4
    <3>5. CASE ~ (Cardinality(s) <= n)
      BY <2>3, <3>3, <3>5
    <3> QED
      BY <3>4, <3>5
  <2>4. Up(G, n + 1)
    BY <2>2, <2>3
  <2> HIDE DEF Up
  <2> QED
    BY <2>4
<1> HIDE DEF S
<1>3. Cardinality(T) \in Nat
  BY FS_CardinalityType
<1>4. Cardinality(T) \in S
  BY <1>1, <1>2, <1>3, Induction
<1> USE DEF S
<1>5. PICK F : Up(F, Cardinality(T))
  BY <1>4
<1>6. \A s \in SUBSET T : Cardinality(s) <= Cardinality(T)
  BY FS_Subset
<1>7. Sums(F, f, T)
  BY <1>5, <1>6 DEF Sums
<1> QED
  BY <1>7

\* The library's sum is one of them.
LEMMA SumIsOne ==
    ASSUME NEW T, IsFiniteSet(T), NEW f, \A x \in T : f[x] \in Int
    PROVE  \E F : Sums(F, f, T) /\ SumFunctionOnSet(f, T) = F[T]
<1> DEFINE Eq(F) == F = [s \in SUBSET T |->
                           IF s = {} THEN 0
                           ELSE f[Picked(s)] + F[s \ {Picked(s)}]]
<1>1. SumFunctionOnSet(f, T) = (CHOOSE F : Eq(F))[T]
  BY DEF SumFunctionOnSet, FoldFunctionOnSet, MapThenFoldSet, Picked
<1>2. PICK G : Sums(G, f, T)
  BY SumsExist
<1>3. Eq(G)
  BY <1>2 DEF Sums
<1> HIDE DEF Eq
<1>4. PICK F : Eq(F) /\ SumFunctionOnSet(f, T) = F[T]
  <2> PICK C : C = CHOOSE F : Eq(F)
    OBVIOUS
  <2>1. Eq(C)
    BY <1>3
  <2> QED
    BY <1>1, <2>1
<1>5. /\ F = [s \in SUBSET T |->
                 IF s = {} THEN 0 ELSE f[Picked(s)] + F[s \ {Picked(s)}]]
  BY <1>4 DEF Eq
<1>6. F = G
  <2> DEFINE S == {n \in Nat : \A s \in SUBSET T : Cardinality(s) <= n => F[s] = G[s]}
  <2>1. 0 \in S
    <3>1. \A s \in SUBSET T : Cardinality(s) <= 0 => s = {}
      BY OnlyEmpty
    <3>2. F[{}] = G[{}]
      BY <1>2, <1>5 DEF Sums
    <3> QED
      BY <3>1, <3>2
  <2>2. ASSUME NEW n \in Nat, n \in S
        PROVE  n + 1 \in S
    <3>1. ASSUME NEW s \in SUBSET T, s # {}, Cardinality(s) <= n + 1
          PROVE  F[s] = G[s]
      <4>1. /\ s \ {Picked(s)} \in SUBSET T
            /\ Cardinality(s) \in Nat
            /\ Cardinality(s \ {Picked(s)}) = Cardinality(s) - 1
        BY <3>1, PickedRemoves
      <4>2. Cardinality(s \ {Picked(s)}) <= n
        BY <3>1, <4>1
      <4>3. F[s \ {Picked(s)}] = G[s \ {Picked(s)}]
        BY <2>2, <4>1, <4>2
      <4> QED
        BY <1>2, <1>5, <3>1, <4>3 DEF Sums
    <3>2. F[{}] = G[{}]
      BY <1>2, <1>5 DEF Sums
    <3>3. \A s \in SUBSET T : Cardinality(s) <= n + 1 => F[s] = G[s]
      BY <3>1, <3>2
    <3> QED
      BY <3>3
  <2> HIDE DEF S
  <2>3. Cardinality(T) \in S
    BY <2>1, <2>2, Induction, FS_CardinalityType
  <2>4. \A s \in SUBSET T : F[s] = G[s]
    BY <2>3, FS_Subset DEF S
  <2> QED
    BY <1>2, <1>5, <2>4 DEF Sums
<1> QED
  BY <1>2, <1>4, <1>6

\* When one term changes, the sum changes by as much.
LEMMA SumChanges ==
    ASSUME NEW T, IsFiniteSet(T), NEW f \in [T -> Int], NEW g \in [T -> Int],
           NEW x \in T, \A y \in T \ {x} : g[y] = f[y]
    PROVE  /\ SumFunctionOnSet(f, T) \in Int
           /\ SumFunctionOnSet(g, T) = SumFunctionOnSet(f, T) + (g[x] - f[x])
<1>1. PICK F : Sums(F, f, T) /\ SumFunctionOnSet(f, T) = F[T]
  BY SumIsOne
<1>2. PICK G : Sums(G, g, T) /\ SumFunctionOnSet(g, T) = G[T]
  BY SumIsOne
<1> PICK d \in Int : d = g[x] - f[x]
  OBVIOUS
<1> DEFINE Moved(s) == G[s] = F[s] + (IF x \in s THEN d ELSE 0)
           S == {n \in Nat : \A s \in SUBSET T : Cardinality(s) <= n => Moved(s)}
<1>3. Moved({})
  BY <1>1, <1>2 DEF Sums
<1>4. 0 \in S
  <2>1. \A s \in SUBSET T : Cardinality(s) <= 0 => s = {}
    BY OnlyEmpty
  <2> HIDE DEF Moved
  <2> QED
    BY <1>3, <2>1
<1>5. ASSUME NEW n \in Nat, n \in S
      PROVE  n + 1 \in S
  <2>1. ASSUME NEW s \in SUBSET T, s # {}, Cardinality(s) <= n + 1
        PROVE  Moved(s)
    <3> PICK p, r : p = Picked(s) /\ r = s \ {p}
      OBVIOUS
    <3>1. p \in s /\ r \in SUBSET T /\ Cardinality(r) <= n
      <4>1. /\ Picked(s) \in s
            /\ s \ {Picked(s)} \in SUBSET T
            /\ Cardinality(s) \in Nat
            /\ Cardinality(s \ {Picked(s)}) = Cardinality(s) - 1
        BY <2>1, PickedRemoves
      <4> QED
        BY <2>1, <4>1
    <3>2. Moved(r)
      BY <1>5, <3>1
    <3>3. F[s] = f[p] + F[r] /\ G[s] = g[p] + G[r]
      BY <1>1, <1>2, <2>1 DEF Sums
    <3>4. F[r] \in Int /\ f[p] \in Int /\ g[p] \in Int
      BY <1>1, <3>1 DEF Sums
    <3>5. CASE p = x
      <4>1. x \in s /\ x \notin r
        BY <3>1, <3>5
      <4>2. G[r] = F[r]
        BY <3>2, <3>4, <4>1
      <4> QED
        BY <3>3, <3>4, <3>5, <4>1, <4>2
    <3>6. CASE p # x
      <4>1. g[p] = f[p] /\ (x \in s <=> x \in r)
        BY <3>1, <3>6
      <4>2. CASE x \in s
        BY <3>2, <3>3, <3>4, <4>1, <4>2
      <4>3. CASE x \notin s
        BY <3>2, <3>3, <3>4, <4>1, <4>3
      <4> QED
        BY <4>2, <4>3
    <3> QED
      BY <3>5, <3>6
  <2> HIDE DEF Moved
  <2> QED
    BY <1>3, <2>1
<1> HIDE DEF S
<1>6. Cardinality(T) \in S
  BY <1>4, <1>5, Induction, FS_CardinalityType
<1>7. Cardinality(T) <= Cardinality(T)
  BY FS_CardinalityType
<1>8. Moved(T)
  BY <1>6, <1>7 DEF S
<1>9. F[T] \in Int
  BY <1>1 DEF Sums
<1> QED
  BY <1>1, <1>2, <1>8, <1>9

-----------------------------------------------------------------------------
(* Type correctness *)

\* Prices are positive, and what a quantity is worth is a natural number.
LEMMA AmountType ==
    ASSUME NEW p \in [Symbols -> Prices], NEW s \in Symbols, NEW n \in Nat
    PROVE  p[s] \in Prices /\ p[s] \in Nat \ {0} /\ n * p[s] \in Nat
<1>1. p[s] \in Prices /\ Prices \subseteq Nat \ {0}
  BY GateAssumption
<1>2. \A i, j \in Nat : i * j \in Nat
  OBVIOUS
<1> QED
  BY <1>1, <1>2

LEMMA InitTypes == Init => TypeOK
<1> SUFFICES ASSUME Init PROVE TypeOK
  OBVIOUS
<1>1. Unset \in Limits
  BY DEF Unset, Limits, OrNone, None
<1>2. trades \in [Symbols -> Seq(Trade)]
  BY DEF Init
<1>3. 0 \in 0..MaxDay /\ Capital \in Nat
  BY GateAssumption
<1> QED
  BY <1>1, <1>2, <1>3 DEF Init, TypeOK

\* The row an order appends to the history is a trade at the price of its fill.
LEMMA ExecutedTypes ==
    ASSUME TypeOK, NEW side, NEW s \in Symbols, NEW n \in Nat, NEW seen,
           Executed(side, s, n, seen)
    PROVE  /\ trades' \in [Symbols -> Seq(Trade)]
           /\ price' \in [Symbols -> Prices]
           /\ n * price'[s] \in Nat
           /\ today' = today /\ limits' = limits
<1> PICK q \in [Symbols -> Prices] : q = price'
  BY DEF Executed
<1> PICK t : t = [buyer |-> side = "BUY", qty |-> n, price |-> q[s], day |-> today]
  OBVIOUS
<1>1. t \in Trade
  <2>1. today \in Nat /\ q[s] \in Prices
    BY GateAssumption DEF TypeOK
  <2>2. (side = "BUY") \in BOOLEAN
    OBVIOUS
  <2> QED
    BY <2>1, <2>2 DEF Trade
<1>2. trades' = [trades EXCEPT ![s] = Append(trades[s], t)]
  BY DEF Executed
<1>3. Append(trades[s], t) \in Seq(Trade)
  BY <1>1 DEF TypeOK
<1>4. trades' \in [Symbols -> Seq(Trade)]
  BY <1>2, <1>3 DEF TypeOK
<1>5. n * q[s] \in Nat
  BY AmountType
<1> QED
  BY <1>4, <1>5 DEF Executed

LEMMA BuyTypes ==
    ASSUME TypeOK, NEW s \in Symbols, NEW n \in Quantities, NEW seen, Buy(s, n, seen)
    PROVE  TypeOK'
<1>1. n \in Nat
  BY GateAssumption
<1>2. /\ trades' \in [Symbols -> Seq(Trade)] /\ price' \in [Symbols -> Prices]
      /\ n * price'[s] \in Nat /\ today' = today /\ limits' = limits
  BY <1>1, ExecutedTypes DEF Buy
<1>3. quote' \in Nat
  <2>1. n * price'[s] <= quote /\ quote' = quote - n * price'[s] /\ quote \in Nat
    BY DEF Buy, TypeOK
  <2> QED
    BY <1>2, <2>1
<1>4. held' \in [Symbols -> Nat]
  BY <1>1 DEF Buy, TypeOK
<1> QED
  BY <1>2, <1>3, <1>4 DEF TypeOK

LEMMA SellTypes ==
    ASSUME TypeOK, NEW s \in Symbols, NEW n \in Nat, NEW seen, Sell(s, n, seen)
    PROVE  TypeOK'
<1>1. /\ trades' \in [Symbols -> Seq(Trade)] /\ price' \in [Symbols -> Prices]
      /\ n * price'[s] \in Nat /\ today' = today /\ limits' = limits
  BY ExecutedTypes DEF Sell
<1>2. quote' \in Nat
  <2>1. quote' = quote + n * price'[s] /\ quote \in Nat
    BY DEF Sell, TypeOK
  <2> QED
    BY <1>1, <2>1
<1>3. held' \in [Symbols -> Nat]
  BY DEF Sell, TypeOK
<1> QED
  BY <1>1, <1>2, <1>3 DEF TypeOK

\* An order is a purchase of one of the quantities or a sale.
LEMMA OrderCases ==
    ASSUME TypeOK, Order
    PROVE  \E s \in Symbols : \E seen \in Reads(s) :
              \/ \E n \in Quantities : Buy(s, n, seen)
              \/ \E n \in Nat : Sell(s, n, seen)
<1>1. Quantities \subseteq Nat
  BY GateAssumption
<1>2. \A s \in Symbols : held[s] \in Nat
  BY DEF TypeOK
<1> QED
  BY <1>1, <1>2 DEF Order, ClosePosition

LEMMA StepTypes == TypeOK /\ [Next]_vars => TypeOK'
<1> SUFFICES ASSUME TypeOK, [Next]_vars PROVE TypeOK'
  OBVIOUS
<1>1. CASE Order
  BY <1>1, OrderCases, BuyTypes, SellTypes
<1>2. CASE \E l \in LimitChoices : SaveLimits(l)
  BY <1>2, GateAssumption DEF SaveLimits, TypeOK
<1>3. CASE \E s \in Symbols, p \in Prices : MovePrice(s, p)
  BY <1>3 DEF MovePrice, TypeOK
<1>4. CASE NextDay
  <2>1. today' \in 0..MaxDay
    BY <1>4, GateAssumption DEF NextDay, TypeOK
  <2> QED
    BY <1>4, <2>1 DEF NextDay, TypeOK
<1>5. CASE UNCHANGED vars
  BY <1>5 DEF vars, TypeOK
<1> QED
  BY <1>1, <1>2, <1>3, <1>4, <1>5 DEF Next

\* Every reachable account is well typed: in particular no balance, of the
\* quote asset or of a symbol's, is ever negative.
THEOREM GateTypes == Spec => []TypeOK
  BY InitTypes, StepTypes, PTL DEF Spec

-----------------------------------------------------------------------------
(* The walk and the cash of a history *)

Tally == [held : Nat, cost : Int, gain : Int, today : Int]
WalkStep(h, day) == [x \in (1..Len(h)) \X Tally |-> Walked(x[2], h[x[1]], day)]
CashStep(h) == [x \in (1..Len(h)) \X Int |-> Received(x[2], h[x[1]])]

\* The parts of a trade are natural numbers.
LEMMA TradeTypes ==
    ASSUME NEW t \in Trade
    PROVE  /\ t.buyer \in BOOLEAN /\ t.qty \in Nat /\ t.day \in Nat
           /\ t.price \in Prices /\ t.price \in Nat \ {0}
           /\ t.qty * t.price \in Nat
<1>1. /\ t.buyer \in BOOLEAN /\ t.qty \in Nat /\ t.day \in Nat
      /\ t.price \in Prices
  BY DEF Trade
<1>2. Prices \subseteq Nat \ {0}
  BY GateAssumption
<1>3. \A i, j \in Nat : i * j \in Nat
  OBVIOUS
<1> QED
  BY <1>1, <1>2, <1>3

\* What a sale takes from a tally, with the names of its parts.
LEMMA SoldParts ==
    ASSUME NEW w \in Tally, w.held # 0, NEW t \in Trade, NEW day
    PROVE  \E q, b \in Int :
              /\ q = Least(t.qty, w.held) /\ q \in 0..w.held
              /\ b = (w.cost * q) \div w.held
              /\ q * t.price \in Int
              /\ Sold(w, t, day) =
                    [held  |-> w.held - q,
                     cost  |-> w.cost - b,
                     gain  |-> w.gain + (q * t.price - b),
                     today |-> w.today + IF t.day = day THEN q * t.price - b ELSE 0]
<1> PICK q : q = Least(t.qty, w.held)
  OBVIOUS
<1> PICK b : b = (w.cost * q) \div w.held
  OBVIOUS
<1>1. w.held \in Nat \ {0} /\ w.cost \in Int /\ t.qty \in Nat
  BY TradeTypes DEF Tally
<1>2. q \in Int /\ q \in 0..w.held
  BY <1>1 DEF Least
<1>3. t.price \in Int
  BY TradeTypes
<1>4. \A i, j \in Int : i * j \in Int
  OBVIOUS
<1>5. \A i \in Int, j \in Nat \ {0} : i \div j \in Int
  OBVIOUS
<1>6. w.cost * q \in Int /\ q * t.price \in Int
  BY <1>1, <1>2, <1>3, <1>4
<1>7. b \in Int
  BY <1>1, <1>5, <1>6
<1> QED
  BY <1>2, <1>6, <1>7 DEF Sold

\* What a purchase adds to a tally.
LEMMA BoughtParts ==
    ASSUME NEW w \in Tally, NEW t \in Trade
    PROVE  \E n \in Nat, a \in Int :
              /\ n = t.qty /\ a = Amount(t)
              /\ Bought(w, t) = [held |-> w.held + n, cost |-> w.cost + a,
                                 gain |-> w.gain, today |-> w.today]
<1> PICK n \in Nat, a \in Int : n = t.qty /\ a = t.qty * t.price
  BY TradeTypes
<1>1. Bought(w, t) = [w EXCEPT !.held = w.held + n, !.cost = w.cost + a]
  BY DEF Bought
<1>2. Bought(w, t) = [held |-> w.held + n, cost |-> w.cost + a,
                      gain |-> w.gain, today |-> w.today]
  BY <1>1 DEF Tally
<1> QED
  BY <1>2 DEF Amount

\* A trade turns a tally into one, and a sum into one.
LEMMA WalkedType ==
    ASSUME NEW w \in Tally, NEW t \in Trade, NEW day
    PROVE  Walked(w, t, day) \in Tally
<1>1. CASE t.buyer
  <2>1. PICK n \in Nat, a \in Int :
           Bought(w, t) = [held |-> w.held + n, cost |-> w.cost + a,
                           gain |-> w.gain, today |-> w.today]
    BY BoughtParts
  <2>2. w.held + n \in Nat /\ w.cost + a \in Int /\ w.gain \in Int /\ w.today \in Int
    BY DEF Tally
  <2>3. Walked(w, t, day) = Bought(w, t)
    BY <1>1 DEF Walked
  <2> QED
    BY <2>1, <2>2, <2>3 DEF Tally
<1>2. CASE ~t.buyer /\ w.held # 0
  <2>1. PICK q, b \in Int :
              /\ q \in 0..w.held
              /\ q * t.price \in Int
              /\ Sold(w, t, day) =
                    [held  |-> w.held - q,
                     cost  |-> w.cost - b,
                     gain  |-> w.gain + (q * t.price - b),
                     today |-> w.today + IF t.day = day THEN q * t.price - b ELSE 0]
    BY <1>2, SoldParts
  <2> PICK e \in Int : e = q * t.price - b
    BY <2>1
  <2>2. w.held \in Nat /\ w.cost \in Int /\ w.gain \in Int /\ w.today \in Int
    BY DEF Tally
  <2>3. w.held - q \in Nat /\ w.cost - b \in Int /\ w.gain + e \in Int
    BY <2>1, <2>2
  <2>4. w.today + (IF t.day = day THEN e ELSE 0) \in Int
    BY <2>2
  <2>5. Sold(w, t, day) \in Tally
    BY <2>1, <2>3, <2>4 DEF Tally
  <2> QED
    BY <1>2, <2>5 DEF Walked
<1>3. CASE ~t.buyer /\ w.held = 0
  BY <1>3 DEF Walked
<1> QED
  BY <1>1, <1>2, <1>3

LEMMA ReceivedType ==
    ASSUME NEW sum \in Int, NEW t \in Trade
    PROVE  Amount(t) \in Int /\ Received(sum, t) \in Int
<1>1. Amount(t) \in Int
  BY TradeTypes DEF Amount
<1> QED
  BY <1>1 DEF Received

\* The definition of Walk is met: there is such a function, and it is typed.
LEMMA WalkRuns ==
    ASSUME NEW h \in Seq(Trade), NEW day
    PROVE  Runs(Walk(h, day), Len(h), Tally, Flat, WalkStep(h, day))
<1> DEFINE n == Len(h)
           step == WalkStep(h, day)
           Eq(walk) == walk = [i \in 0..n |->
                  IF i = 0 THEN Flat ELSE Walked(walk[i - 1], h[i], day)]
<1>1. n \in Nat /\ \A i \in 1..n : h[i] \in Trade
  OBVIOUS
<1>2. step \in [(1..n) \X Tally -> Tally]
  BY <1>1, WalkedType DEF WalkStep
<1>3. \A i \in 1..n, walk \in Tally : step[<<i, walk>>] = Walked(walk, h[i], day)
  BY DEF WalkStep
<1>4. Flat \in Tally
  BY DEF Flat, Tally
<1>5. Walk(h, day) = CHOOSE walk : Eq(walk)
  BY DEF Walk
<1> HIDE DEF n, step
<1>6. PICK r : Runs(r, n, Tally, Flat, step)
  BY <1>1, <1>2, <1>4, RunExists
<1>7. Eq(r)
  <2>1. /\ r \in [0..n -> Tally] /\ r[0] = Flat
        /\ \A i \in 1..n : r[i] = step[<<i, r[i - 1]>>]
    BY <1>6 DEF Runs
  <2>2. \A i \in 1..n : r[i - 1] \in Tally
    BY <1>1, <2>1
  <2>3. \A i \in 1..n : r[i] = Walked(r[i - 1], h[i], day)
    BY <1>3, <2>1, <2>2
  <2>4. \A i \in 0..n : i = 0 \/ i \in 1..n
    BY <1>1
  <2> QED
    BY <2>1, <2>3, <2>4
<1> HIDE DEF Eq
<1>8. PICK w : Eq(w) /\ Walk(h, day) = w
  <2> PICK c : c = CHOOSE walk : Eq(walk)
    OBVIOUS
  <2>1. Eq(c)
    BY <1>7
  <2> QED
    BY <1>5, <2>1
<1> USE DEF Eq
<1>9. \A i \in 1..n : w[i] = Walked(w[i - 1], h[i], day)
  BY <1>1, <1>8
<1>10. Follows(w, n, Tally, Flat, step)
  <2>1. w[0] = Flat
    BY <1>1, <1>8
  <2> QED
    BY <1>3, <1>9, <2>1 DEF Follows
<1>11. \A i \in 0..n : w[i] = r[i]
  <2>1. n \in Nat
    BY <1>1
  <2> HIDE DEF Eq
  <2> QED
    BY <1>6, <1>10, <2>1, RunsAgree
<1>12. w = r
  BY <1>6, <1>8, <1>11 DEF Runs
<1> QED
  BY <1>6, <1>8, <1>12 DEF n, step

\* The definition of Cash is met as well.
LEMMA CashRuns ==
    ASSUME NEW h \in Seq(Trade)
    PROVE  Runs(Cash(h), Len(h), Int, 0, CashStep(h))
<1> DEFINE n == Len(h)
           step == CashStep(h)
           Eq(sum) == sum = [i \in 0..n |->
                          IF i = 0 THEN 0 ELSE Received(sum[i - 1], h[i])]
<1>1. n \in Nat /\ \A i \in 1..n : h[i] \in Trade
  OBVIOUS
<1>2. step \in [(1..n) \X Int -> Int]
  BY <1>1, ReceivedType DEF CashStep
<1>3. \A i \in 1..n, sum \in Int : step[<<i, sum>>] = Received(sum, h[i])
  BY DEF CashStep
<1>4. 0 \in Int
  OBVIOUS
<1>5. Cash(h) = CHOOSE sum : Eq(sum)
  BY DEF Cash
<1> HIDE DEF n, step
<1>6. PICK r : Runs(r, n, Int, 0, step)
  BY <1>1, <1>2, <1>4, RunExists
<1>7. Eq(r)
  <2>1. /\ r \in [0..n -> Int] /\ r[0] = 0
        /\ \A i \in 1..n : r[i] = step[<<i, r[i - 1]>>]
    BY <1>6 DEF Runs
  <2>2. \A i \in 1..n : r[i - 1] \in Int
    BY <1>1, <2>1
  <2>3. \A i \in 1..n : r[i] = Received(r[i - 1], h[i])
    BY <1>3, <2>1, <2>2
  <2>4. \A i \in 0..n : i = 0 \/ i \in 1..n
    BY <1>1
  <2> QED
    BY <2>1, <2>3, <2>4
<1> HIDE DEF Eq
<1>8. PICK b : Eq(b) /\ Cash(h) = b
  <2> PICK c : c = CHOOSE sum : Eq(sum)
    OBVIOUS
  <2>1. Eq(c)
    BY <1>7
  <2> QED
    BY <1>5, <2>1
<1> USE DEF Eq
<1>9. \A i \in 1..n : b[i] = Received(b[i - 1], h[i])
  BY <1>1, <1>8
<1>10. Follows(b, n, Int, 0, step)
  <2>1. b[0] = 0
    BY <1>1, <1>8
  <2> QED
    BY <1>3, <1>9, <2>1 DEF Follows
<1>11. \A i \in 0..n : b[i] = r[i]
  <2>1. n \in Nat
    BY <1>1
  <2> HIDE DEF Eq
  <2> QED
    BY <1>6, <1>10, <2>1, RunsAgree
<1>12. b = r
  BY <1>6, <1>8, <1>11 DEF Runs
<1> QED
  BY <1>6, <1>8, <1>12 DEF n, step

\* A new trade leaves the earlier tallies alone and makes one step more,
LEMMA WalkGrows ==
    ASSUME NEW h \in Seq(Trade), NEW t \in Trade, NEW day
    PROVE  /\ \A i \in 0..Len(h) : Walk(Append(h, t), day)[i] = Walk(h, day)[i]
           /\ Walk(Append(h, t), day)[Len(h) + 1] = Walked(Walk(h, day)[Len(h)], t, day)
<1>0. Append(h, t) \in Seq(Trade)
  OBVIOUS
<1> PICK g \in Seq(Trade) : g = Append(h, t)
  BY <1>0
<1> PICK n \in Nat : n = Len(h)
  OBVIOUS
<1>1. Len(g) = n + 1 /\ g[n + 1] = t /\ \A i \in 1..n : g[i] = h[i]
  OBVIOUS
<1>2. Runs(Walk(h, day), n, Tally, Flat, WalkStep(h, day))
  BY WalkRuns
<1>3. Runs(Walk(g, day), n + 1, Tally, Flat, WalkStep(g, day))
  BY <1>1, WalkRuns
<1>4. \A i \in 1..(n + 1), walk \in Tally :
         WalkStep(g, day)[<<i, walk>>] = Walked(walk, g[i], day)
  BY <1>1 DEF WalkStep
<1>5. \A i \in 1..n, walk \in Tally : WalkStep(h, day)[<<i, walk>>] = Walked(walk, h[i], day)
  BY DEF WalkStep
<1>6. Follows(Walk(g, day), n, Tally, Flat, WalkStep(h, day))
  <2>1. ASSUME NEW i \in 1..n, Walk(g, day)[i - 1] \in Tally
        PROVE  Walk(g, day)[i] = WalkStep(h, day)[<<i, Walk(g, day)[i - 1]>>]
    <3>1. i \in 1..(n + 1)
      OBVIOUS
    <3>2. Walk(g, day)[i] = WalkStep(g, day)[<<i, Walk(g, day)[i - 1]>>]
      BY <1>3, <3>1 DEF Runs
    <3> QED
      BY <1>1, <1>4, <1>5, <2>1, <3>1, <3>2
  <2> QED
    BY <1>3, <2>1 DEF Follows, Runs
<1>7. \A i \in 0..n : Walk(g, day)[i] = Walk(h, day)[i]
  BY <1>2, <1>6, RunsAgree
<1>8. Walk(g, day)[n + 1] = Walked(Walk(h, day)[n], t, day)
  <2> PICK k : k = n + 1
    OBVIOUS
  <2>1. k \in 1..(n + 1) /\ k - 1 = n /\ n \in 0..n
    OBVIOUS
  <2>2. Walk(h, day)[n] \in Tally
    BY <1>2, <2>1 DEF Runs
  <2>3. Walk(g, day)[k] = WalkStep(g, day)[<<k, Walk(g, day)[k - 1]>>]
    BY <1>3, <2>1 DEF Runs
  <2>4. Walk(g, day)[k - 1] = Walk(h, day)[n]
    BY <1>7, <2>1
  <2>5. Walk(g, day)[k] = Walked(Walk(h, day)[n], g[k], day)
    BY <1>4, <2>1, <2>2, <2>3, <2>4
  <2> QED
    BY <1>1, <2>5
<1> QED
  BY <1>7, <1>8

\* and receives or pays once more.
LEMMA CashGrows ==
    ASSUME NEW h \in Seq(Trade), NEW t \in Trade
    PROVE  /\ \A i \in 0..Len(h) : Cash(Append(h, t))[i] = Cash(h)[i]
           /\ Cash(Append(h, t))[Len(h) + 1] = Received(Cash(h)[Len(h)], t)
<1>0. Append(h, t) \in Seq(Trade)
  OBVIOUS
<1> PICK g \in Seq(Trade) : g = Append(h, t)
  BY <1>0
<1> PICK n \in Nat : n = Len(h)
  OBVIOUS
<1>1. Len(g) = n + 1 /\ g[n + 1] = t /\ \A i \in 1..n : g[i] = h[i]
  OBVIOUS
<1>2. Runs(Cash(h), n, Int, 0, CashStep(h))
  BY CashRuns
<1>3. Runs(Cash(g), n + 1, Int, 0, CashStep(g))
  BY <1>1, CashRuns
<1>4. \A i \in 1..(n + 1), sum \in Int :
         CashStep(g)[<<i, sum>>] = Received(sum, g[i])
  BY <1>1 DEF CashStep
<1>5. \A i \in 1..n, sum \in Int : CashStep(h)[<<i, sum>>] = Received(sum, h[i])
  BY DEF CashStep
<1>6. Follows(Cash(g), n, Int, 0, CashStep(h))
  <2>1. ASSUME NEW i \in 1..n, Cash(g)[i - 1] \in Int
        PROVE  Cash(g)[i] = CashStep(h)[<<i, Cash(g)[i - 1]>>]
    <3>1. i \in 1..(n + 1)
      OBVIOUS
    <3>2. Cash(g)[i] = CashStep(g)[<<i, Cash(g)[i - 1]>>]
      BY <1>3, <3>1 DEF Runs
    <3> QED
      BY <1>1, <1>4, <1>5, <2>1, <3>1, <3>2
  <2> QED
    BY <1>3, <2>1 DEF Follows, Runs
<1>7. \A i \in 0..n : Cash(g)[i] = Cash(h)[i]
  BY <1>2, <1>6, RunsAgree
<1>8. Cash(g)[n + 1] = Received(Cash(h)[n], t)
  <2> PICK k : k = n + 1
    OBVIOUS
  <2>1. k \in 1..(n + 1) /\ k - 1 = n /\ n \in 0..n
    OBVIOUS
  <2>2. Cash(h)[n] \in Int
    BY <1>2, <2>1 DEF Runs
  <2>3. Cash(g)[k] = CashStep(g)[<<k, Cash(g)[k - 1]>>]
    BY <1>3, <2>1 DEF Runs
  <2>4. Cash(g)[k - 1] = Cash(h)[n]
    BY <1>7, <2>1
  <2>5. Cash(g)[k] = Received(Cash(h)[n], g[k])
    BY <1>4, <2>1, <2>2, <2>3, <2>4
  <2> QED
    BY <1>1, <2>5
<1> QED
  BY <1>7, <1>8

\* What a history comes to has its type.
LEMMA LastTypes ==
    ASSUME NEW h \in Seq(Trade), NEW day
    PROVE  Walk(h, day)[Len(h)] \in Tally /\ Cash(h)[Len(h)] \in Int
<1>1. Len(h) \in 0..Len(h)
  OBVIOUS
<1> QED
  BY <1>1, WalkRuns, CashRuns DEF Runs

-----------------------------------------------------------------------------
(* The average entry price *)

\* The quotient of a natural number and a positive one.
LEMMA Quotient ==
    ASSUME NEW x \in Int, NEW h \in Nat \ {0}
    PROVE  x \div h \in Int /\ (x \div h) * h <= x /\ x < (x \div h) * h + h
OBVIOUS

\* Selling q of the h units that cost c leaves units that cost between lo and hi
\* each if they did before, and selling all of them leaves no cost.
LEMMA ShareLeft ==
    ASSUME NEW c \in Int, NEW h \in Nat \ {0}, NEW q \in 0..h, NEW m \in Nat,
           NEW b, b = (c * q) \div h
    PROVE  /\ c >= h * m => c - b >= (h - q) * m
           /\ c <= h * m => c - b <= (h - q) * m
           /\ q = h => b = c
<1>1. \A i, j \in Int : i * j \in Int
  OBVIOUS
<1> PICK x \in Int : x = c * q
  BY <1>1
<1>2. b \in Int /\ b * h <= x /\ x < b * h + h
  BY Quotient
<1> PICK k \in Nat : k = h - q
  OBVIOUS
<1> PICK y \in Int, z \in Int, km \in Int, kmh \in Int, kc \in Int :
       y = b * h /\ z = h * c /\ km = k * m /\ kmh = km * h /\ kc = k * c
  BY <1>1, <1>2
<1>3. kc = z - x
  <2>1. (h - q) * c = h * c - c * q
    OBVIOUS
  <2> QED
    BY <2>1
<1>4. \A i, j \in Int : i <= j => i * h <= j * h
  OBVIOUS
<1>5. \A i, j \in Int : i <= j => k * i <= k * j
  OBVIOUS
<1>6. k * (h * m) = kmh
  <2>1. k * (h * m) = (k * m) * h
    OBVIOUS
  <2> QED
    BY <2>1
<1>7. (c - b) * h = z - y
  BY <1>2
<1>8. (km + 1) * h = kmh + h /\ (km - 1) * h = kmh - h
  OBVIOUS
<1>9. h * m \in Int
  BY <1>1
<1>10. ASSUME c >= h * m
       PROVE  c - b >= km
  <2>1. kmh <= kc
    BY <1>5, <1>6, <1>9, <1>10
  <2> SUFFICES ASSUME c - b <= km - 1
               PROVE  FALSE
    BY <1>2
  <2>2. z - y <= kmh - h
    BY <1>2, <1>4, <1>7, <1>8
  <2> QED
    BY <1>2, <1>3, <2>1, <2>2
<1>11. ASSUME c <= h * m
       PROVE  c - b <= km
  <2>1. kc <= kmh
    BY <1>5, <1>6, <1>9, <1>11
  <2> SUFFICES ASSUME km + 1 <= c - b
               PROVE  FALSE
    BY <1>2
  <2>2. kmh + h <= z - y
    BY <1>2, <1>4, <1>7, <1>8
  <2> QED
    BY <1>2, <1>3, <2>1, <2>2
<1>12. ASSUME q = h
       PROVE  b = c
  <2>1. c * h <= b * h + h /\ b * h <= c * h /\ c * h < b * h + h
    BY <1>2, <1>12
  <2>2. \A i, j \in Int : i * h <= j * h => i <= j
    OBVIOUS
  <2>3. \A i \in Int : i * h + h = (i + 1) * h
    OBVIOUS
  <2>4. b <= c
    BY <1>2, <2>1, <2>2
  <2>5. \A i, j \in Int : i * h < j * h => i < j
    OBVIOUS
  <2>6. c * h < (b + 1) * h
    BY <1>2, <2>1, <2>3
  <2>7. c < b + 1
    BY <1>2, <2>5, <2>6
  <2> QED
    BY <1>2, <2>4, <2>7
<1> QED
  BY <1>10, <1>11, <1>12

\* What is held did cost between lo and hi a unit.
Between(w, lo, hi) == w.cost >= w.held * lo /\ w.cost <= w.held * hi
Emptied(w) == w.held = 0 => w.cost = 0

\* A trade keeps the average between the prices paid.
LEMMA WalkedBetween ==
    ASSUME NEW w \in Tally, Emptied(w), NEW t \in Trade, NEW day
    PROVE  /\ Emptied(Walked(w, t, day))
           /\ \A lo, hi \in Nat :
                 /\ Between(w, lo, hi)
                 /\ t.buyer => t.price >= lo /\ t.price <= hi
                 => Between(Walked(w, t, day), lo, hi)
<1>0. w.held \in Nat /\ w.cost \in Int
  BY DEF Tally
<1>1. CASE t.buyer
  <2>0. PICK n \in Nat, a \in Int :
           /\ n = t.qty /\ a = Amount(t)
           /\ Bought(w, t) = [held |-> w.held + n, cost |-> w.cost + a,
                              gain |-> w.gain, today |-> w.today]
    BY BoughtParts
  <2> PICK p \in Nat : p = t.price
    BY TradeTypes
  <2>1. a = n * p
    BY <2>0 DEF Amount
  <2> PICK v : v = Walked(w, t, day)
    OBVIOUS
  <2>2. v.held = w.held + n /\ v.cost = w.cost + a
    BY <1>1, <2>0 DEF Walked
  <2>3. Emptied(v)
    <3> SUFFICES ASSUME v.held = 0 PROVE v.cost = 0
      BY DEF Emptied
    <3>1. w.held = 0 /\ n = 0
      BY <1>0, <2>2
    <3>2. a = 0
      BY <2>1, <3>1
    <3> QED
      BY <2>2, <3>1, <3>2 DEF Emptied
  <2>4. ASSUME NEW lo \in Nat, NEW hi \in Nat, Between(w, lo, hi), p >= lo, p <= hi
        PROVE  Between(v, lo, hi)
    <3>1. (w.held + n) * lo = w.held * lo + n * lo /\ (w.held + n) * hi = w.held * hi + n * hi
      BY <1>0
    <3>2. n * lo <= a /\ a <= n * hi
      <4>1. \A i, j \in Nat : i <= j => n * i <= n * j
        OBVIOUS
      <4> QED
        BY <2>1, <2>4, <4>1
    <3>3. \A i, j \in Nat : i * j \in Nat
      OBVIOUS
    <3> PICK x \in Nat, y \in Nat, xn \in Nat, yn \in Nat :
           /\ x = w.held * lo /\ y = w.held * hi
           /\ xn = n * lo /\ yn = n * hi
      BY <1>0, <3>3
    <3> QED
      BY <1>0, <2>2, <2>4, <3>1, <3>2 DEF Between
  <2> QED
    BY <1>1, <2>3, <2>4
<1>2. CASE ~t.buyer /\ w.held # 0
  <2>0. PICK q, b \in Int :
              /\ q \in 0..w.held
              /\ b = (w.cost * q) \div w.held
              /\ Sold(w, t, day) =
                    [held  |-> w.held - q,
                     cost  |-> w.cost - b,
                     gain  |-> w.gain + (q * t.price - b),
                     today |-> w.today + IF t.day = day THEN q * t.price - b ELSE 0]
    BY <1>2, SoldParts
  <2> PICK v : v = Walked(w, t, day)
    OBVIOUS
  <2>1. v.held = w.held - q /\ v.cost = w.cost - b
    BY <1>2, <2>0 DEF Walked
  <2> PICK c \in Int, m \in Nat \ {0} : c = w.cost /\ m = w.held
    BY <1>0, <1>2
  <2>2. q \in 0..m /\ b = (c * q) \div m
    BY <2>0
  <2>3. Emptied(v)
    <3> SUFFICES ASSUME v.held = 0 PROVE v.cost = 0
      BY DEF Emptied
    <3>1. q = m
      BY <2>1, <2>2
    <3>2. 0 \in Nat /\ b = c
      BY <2>2, <3>1, ShareLeft
    <3> QED
      BY <2>1, <3>2
  <2>4. ASSUME NEW lo \in Nat, NEW hi \in Nat, Between(w, lo, hi)
        PROVE  Between(v, lo, hi)
    <3>0. c >= m * lo /\ c <= m * hi
      BY <2>4 DEF Between
    <3>1. c - b >= (m - q) * lo
      BY <2>2, <3>0, ShareLeft
    <3>2. c - b <= (m - q) * hi
      BY <2>2, <3>0, ShareLeft
    <3> QED
      BY <2>1, <3>1, <3>2 DEF Between
  <2> QED
    BY <2>3, <2>4
<1>3. CASE ~t.buyer /\ w.held = 0
  BY <1>3 DEF Walked
<1> QED
  BY <1>1, <1>2, <1>3

\* Along the whole walk over any history.
LEMMA AverageOfHistory ==
    ASSUME NEW h \in Seq(Trade), NEW day
    PROVE  LET w == Walk(h, day)[Len(h)]
           IN  /\ w \in Tally
               /\ Emptied(w)
               /\ \A lo, hi \in Nat : PaidWithin(h, lo, hi) => Between(w, lo, hi)
<1> PICK n \in Nat : n = Len(h)
  OBVIOUS
<1> PICK w : w = Walk(h, day)
  OBVIOUS
<1>1. Runs(w, n, Tally, Flat, WalkStep(h, day))
  BY WalkRuns
<1>2. \A i \in 0..n : w[i] \in Tally
  BY <1>1 DEF Runs
<1>3. w[0] = Flat
  BY <1>1 DEF Runs
<1>4. ASSUME NEW i \in 1..n
      PROVE  w[i] = Walked(w[i - 1], h[i], day) /\ w[i - 1] \in Tally /\ h[i] \in Trade
  <2>1. i - 1 \in 0..n
    OBVIOUS
  <2>2. w[i - 1] \in Tally
    BY <1>2, <2>1
  <2>3. w[i] = WalkStep(h, day)[<<i, w[i - 1]>>]
    BY <1>1 DEF Runs
  <2> QED
    BY <2>2, <2>3 DEF WalkStep
<1> DEFINE Kept(i) ==
             /\ Emptied(w[i])
             /\ \A lo, hi \in Nat : PaidWithin(h, lo, hi) => Between(w[i], lo, hi)
           S == {i \in Nat : i <= n => Kept(i)}
<1>5. 0 \in S
  <2>1. Emptied(w[0])
    BY <1>3 DEF Flat, Emptied
  <2>2. \A lo, hi \in Nat : Between(w[0], lo, hi)
    BY <1>3 DEF Flat, Between
  <2> QED
    BY <2>1, <2>2
<1>6. ASSUME NEW i \in Nat, i \in S
      PROVE  i + 1 \in S
  <2> SUFFICES ASSUME i + 1 <= n
               PROVE  Kept(i + 1)
    OBVIOUS
  <2> PICK k \in Nat : k = i + 1
    OBVIOUS
  <2>1. k \in 1..n /\ k - 1 = i
    OBVIOUS
  <2>2. w[k] = Walked(w[i], h[k], day) /\ w[i] \in Tally /\ h[k] \in Trade
    BY <1>4, <2>1
  <2>3. Kept(i)
    BY <1>6
  <2>4. Emptied(w[k])
    BY <2>2, <2>3, WalkedBetween
  <2>5. ASSUME NEW lo \in Nat, NEW hi \in Nat, PaidWithin(h, lo, hi)
        PROVE  Between(w[k], lo, hi)
    <3>1. h[k].buyer => h[k].price >= lo /\ h[k].price <= hi
      BY <2>1, <2>5 DEF PaidWithin
    <3>2. Between(w[i], lo, hi)
      BY <2>3, <2>5
    <3> QED
      BY <2>2, <2>3, <3>1, <3>2, WalkedBetween
  <2> QED
    BY <2>4, <2>5
<1> HIDE DEF S
<1>7. n \in S
  BY <1>5, <1>6, Induction
<1>8. Kept(n)
  BY <1>7 DEF S
<1>9. w[n] \in Tally
  BY <1>2
<1> QED
  BY <1>8, <1>9

\* Binance returns a history of trades.
LEMMA HistoryType ==
    ASSUME TypeOK, NEW s \in Symbols
    PROVE  History(s) \in Seq(Trade)
<1> PICK h \in Seq(Trade) : h = trades[s]
  BY DEF TypeOK
<1> PICK l \in Nat : l = Len(h)
  OBVIOUS
<1> PICK m \in Int : m = 1 + IF l > Window THEN l - Window ELSE 0
  BY GateAssumption
<1>1. m \in 1..(Len(h) + 1)
  <2>1. Window \in Nat
    BY GateAssumption
  <2> QED
    BY <2>1
<1>2. \A i \in m..Len(h) : h[i] \in Trade
  BY <1>1
<1>3. SubSeq(h, m, Len(h)) \in Seq(Trade)
  BY <1>1, <1>2
<1> QED
  BY <1>3 DEF History, Recent

\* Wherever the returned history starts, and whatever quantities are sold, the
\* average entry price stays between the lowest and the highest price paid in
\* it, and a position that is closed has no cost left: for any prices, with
\* quotients that are rounded.
THEOREM AverageIsWithinPaid == Spec => []AverageWithinPaid
<1>1. TypeOK => AverageWithinPaid
  <2> SUFFICES ASSUME TypeOK, NEW s \in Symbols
               PROVE  LET w == Walk(History(s), today)[Len(History(s))] IN
                      /\ w.held >= 0
                      /\ w.held = 0 => w.cost = 0
                      /\ \A lo, hi \in Prices :
                            PaidWithin(History(s), lo, hi) =>
                                w.cost >= w.held * lo /\ w.cost <= w.held * hi
    BY DEF AverageWithinPaid
  <2> PICK h \in Seq(Trade) : h = History(s)
    BY HistoryType
  <2> PICK w : w = Walk(h, today)[Len(h)]
    OBVIOUS
  <2>1. /\ w \in Tally /\ Emptied(w)
        /\ \A lo, hi \in Nat : PaidWithin(h, lo, hi) => Between(w, lo, hi)
    BY AverageOfHistory
  <2>2. Prices \subseteq Nat
    BY GateAssumption
  <2>3. w.held >= 0
    BY <2>1 DEF Tally
  <2> QED
    BY <2>1, <2>2, <2>3 DEF Emptied, Between
<1> QED
  BY <1>1, GateTypes, PTL

-----------------------------------------------------------------------------
(* What an order leaves behind *)

\* An inequality may be multiplied, and two of them added.
LEMMA ScaleUp ==
    ASSUME NEW x \in Int, NEW y \in Int, NEW k \in Nat, x <= y
    PROVE  x * k <= y * k
<1> PICK d \in Nat : y = x + d
  <2>1. y - x \in Nat /\ y = x + (y - x)
    OBVIOUS
  <2> QED
    BY <2>1
<1>1. (x + d) * k = x * k + d * k /\ d * k \in Nat /\ x * k \in Int
  OBVIOUS
<1> QED
  BY <1>1

LEMMA AddScaled ==
    ASSUME NEW a \in Int, NEW b \in Int, NEW c \in Int, NEW e \in Int,
           NEW den \in Nat, NEW num \in Nat, a * den <= c * num, b * den <= e * num
    PROVE  (a + b) * den <= (c + e) * num
<1>1. (a + b) * den = a * den + b * den /\ (c + e) * num = c * num + e * num
  OBVIOUS
<1> PICK x, y, z, w \in Int : x = a * den /\ y = b * den /\ z = c * num /\ w = e * num
  OBVIOUS
<1> QED
  BY <1>1

\* A sum is near another if each of its terms is.
LEMMA SumScales ==
    ASSUME NEW T, IsFiniteSet(T), NEW f \in [T -> Int], NEW g \in [T -> Int],
           NEW den \in Nat, NEW num \in Nat, \A x \in T : f[x] * den <= g[x] * num
    PROVE  /\ SumFunctionOnSet(f, T) \in Int /\ SumFunctionOnSet(g, T) \in Int
           /\ SumFunctionOnSet(f, T) * den <= SumFunctionOnSet(g, T) * num
<1>1. PICK F : Sums(F, f, T) /\ SumFunctionOnSet(f, T) = F[T]
  BY SumIsOne
<1>2. PICK G : Sums(G, g, T) /\ SumFunctionOnSet(g, T) = G[T]
  BY SumIsOne
<1> DEFINE Scaled(s) == F[s] * den <= G[s] * num
           S == {n \in Nat : \A s \in SUBSET T : Cardinality(s) <= n => Scaled(s)}
<1>3. Scaled({})
  <2>1. F[{}] = 0 /\ G[{}] = 0 /\ 0 * den = 0 /\ 0 * num = 0
    BY <1>1, <1>2 DEF Sums
  <2> QED
    BY <2>1
<1>4. 0 \in S
  <2>1. \A s \in SUBSET T : Cardinality(s) <= 0 => s = {}
    BY OnlyEmpty
  <2> HIDE DEF Scaled
  <2> QED
    BY <1>3, <2>1
<1>5. ASSUME NEW n \in Nat, n \in S
      PROVE  n + 1 \in S
  <2>1. ASSUME NEW s \in SUBSET T, s # {}, Cardinality(s) <= n + 1
        PROVE  Scaled(s)
    <3> PICK p, r : p = Picked(s) /\ r = s \ {p}
      OBVIOUS
    <3>1. p \in T /\ r \in SUBSET T /\ Cardinality(r) <= n
      <4>1. /\ Picked(s) \in s
            /\ s \ {Picked(s)} \in SUBSET T
            /\ Cardinality(s) \in Nat
            /\ Cardinality(s \ {Picked(s)}) = Cardinality(s) - 1
        BY <2>1, PickedRemoves
      <4> QED
        BY <2>1, <4>1
    <3>2. Scaled(r)
      BY <1>5, <3>1
    <3>3. F[s] = f[p] + F[r] /\ G[s] = g[p] + G[r]
      BY <1>1, <1>2, <2>1 DEF Sums
    <3>4. PICK a, b, c, e \in Int : a = f[p] /\ b = F[r] /\ c = g[p] /\ e = G[r]
      BY <1>1, <1>2, <3>1 DEF Sums
    <3>5. a * den <= c * num /\ b * den <= e * num
      BY <3>1, <3>2, <3>4
    <3>6. (a + b) * den <= (c + e) * num
      BY <3>5, AddScaled
    <3> QED
      BY <3>3, <3>4, <3>6
  <2> HIDE DEF Scaled
  <2>2. \A s \in SUBSET T : Cardinality(s) <= n + 1 => Scaled(s)
    BY <1>3, <2>1
  <2>3. n + 1 \in Nat
    OBVIOUS
  <2> QED
    BY <2>2, <2>3
<1> HIDE DEF S
<1>6. Cardinality(T) \in S
  BY <1>4, <1>5, Induction, FS_CardinalityType
<1>7. Cardinality(T) <= Cardinality(T)
  BY FS_CardinalityType
<1>8. Scaled(T)
  BY <1>6, <1>7 DEF S
<1>9. F[T] \in Int /\ G[T] \in Int
  BY <1>1, <1>2 DEF Sums
<1> QED
  BY <1>1, <1>2, <1>8, <1>9

\* What a quantity is worth at two prices that are near.
LEMMA AmountsNear ==
    ASSUME NEW S \in SUBSET Symbols, NEW p \in [S -> Prices],
           NEW q \in [Symbols -> Prices], Near(p, q), NEW s \in S, NEW n \in Nat
    PROVE  /\ p[s] \in Nat /\ q[s] \in Nat /\ n * p[s] \in Nat /\ n * q[s] \in Nat
           /\ (n * p[s]) * DriftDen <= (n * q[s]) * DriftNum
           /\ (n * q[s]) * DriftDen <= (n * p[s]) * DriftNum
<1>1. Prices \subseteq Nat /\ DriftNum \in Nat /\ DriftDen \in Nat
  BY GateAssumption
<1> PICK a, b, num, den \in Nat : a = p[s] /\ b = q[s] /\ num = DriftNum /\ den = DriftDen
  BY <1>1
<1>2. a * den <= b * num /\ b * den <= a * num
  BY DEF Near
<1>3. /\ (n * a) * den = (a * den) * n /\ (n * b) * num = (b * num) * n
      /\ (n * b) * den = (b * den) * n /\ (n * a) * num = (a * num) * n
      /\ a * den \in Int /\ b * num \in Int /\ b * den \in Int /\ a * num \in Int
      /\ n * a \in Nat /\ n * b \in Nat
  OBVIOUS
<1>4. (a * den) * n <= (b * num) * n /\ (b * den) * n <= (a * num) * n
  BY <1>2, <1>3, ScaleUp
<1> QED
  BY <1>3, <1>4

\* What is held of a symbol was read about as high as it is.
LEMMA ValuesNear ==
    ASSUME TypeOK, NEW S \in SUBSET Symbols, NEW p \in [S -> Prices],
           NEW q \in [Symbols -> Prices], Near(p, q),
           NEW s \in Symbols, held[s] > 0 => s \in S
    PROVE  /\ ValueAt(p, s) \in Int /\ ValueAt(q, s) \in Int
           /\ ValueAt(p, s) * DriftDen <= ValueAt(q, s) * DriftNum
           /\ ValueAt(q, s) * DriftDen <= ValueAt(p, s) * DriftNum
<1> PICK n \in Nat : n = held[s]
  BY DEF TypeOK
<1>1. ValueAt(q, s) = n * q[s]
  BY DEF ValueAt
<1>2. CASE s \in S
  <2>1. ValueAt(p, s) = n * p[s]
    BY <1>2 DEF ValueAt
  <2> QED
    BY <1>1, <1>2, <2>1, AmountsNear
<1>3. CASE s \notin S
  <2>1. n = 0
    BY <1>3
  <2>2. q[s] \in Nat /\ 0 * q[s] = 0 /\ 0 * DriftDen = 0 /\ 0 * DriftNum = 0
    <3>1. q[s] \in Nat /\ DriftDen \in Nat /\ DriftNum \in Nat
      BY GateAssumption, AmountType
    <3>2. \A i \in Nat : 0 * i = 0
      OBVIOUS
    <3> QED
      BY <3>1, <3>2
  <2>3. ValueAt(p, s) = 0
    BY <1>3 DEF ValueAt
  <2> QED
    BY <1>1, <2>1, <2>2, <2>3
<1> QED
  BY <1>2, <1>3

LEMMA ExposuresNear ==
    ASSUME TypeOK, NEW p \in [Positions -> Prices], NEW q \in [Symbols -> Prices],
           Near(p, q)
    PROVE  /\ ExposureAt(p) \in Int /\ ExposureAt(q) \in Int
           /\ ExposureAt(p) * DriftDen <= ExposureAt(q) * DriftNum
           /\ ExposureAt(q) * DriftDen <= ExposureAt(p) * DriftNum
<1>1. \A s \in Symbols : /\ ValueAt(p, s) \in Int /\ ValueAt(q, s) \in Int
                         /\ ValueAt(p, s) * DriftDen <= ValueAt(q, s) * DriftNum
                         /\ ValueAt(q, s) * DriftDen <= ValueAt(p, s) * DriftNum
  BY ValuesNear DEF Positions
<1> PICK f, g \in [Symbols -> Int] : /\ f = [s \in Symbols |-> ValueAt(p, s)]
                                     /\ g = [s \in Symbols |-> ValueAt(q, s)]
  BY <1>1
<1>2. /\ \A s \in Symbols : f[s] * DriftDen <= g[s] * DriftNum
      /\ \A s \in Symbols : g[s] * DriftDen <= f[s] * DriftNum
  BY <1>1
<1>3. DriftDen \in Nat /\ DriftNum \in Nat /\ IsFiniteSet(Symbols)
  BY GateAssumption
<1>4. /\ SumFunctionOnSet(f, Symbols) \in Int /\ SumFunctionOnSet(g, Symbols) \in Int
      /\ SumFunctionOnSet(f, Symbols) * DriftDen <= SumFunctionOnSet(g, Symbols) * DriftNum
      /\ SumFunctionOnSet(g, Symbols) * DriftDen <= SumFunctionOnSet(f, Symbols) * DriftNum
  BY <1>2, <1>3, SumScales
<1> QED
  BY <1>4 DEF ExposureAt

LEMMA TotalsNear ==
    ASSUME TypeOK, NEW p \in [Positions -> Prices], NEW q \in [Symbols -> Prices],
           Near(p, q)
    PROVE  /\ TotalAt(p) \in Int /\ TotalAt(q) \in Int
           /\ TotalAt(p) * DriftDen <= TotalAt(q) * DriftNum
<1>1. DriftDen \in Nat /\ DriftNum \in Nat /\ DriftDen <= DriftNum
  BY GateAssumption
<1> PICK a, num, den \in Nat : a = quote /\ num = DriftNum /\ den = DriftDen
  BY <1>1 DEF TypeOK
<1> PICK b, c \in Int : b = ExposureAt(p) /\ c = ExposureAt(q)
  BY ExposuresNear
<1>2. b * den <= c * num
  BY ExposuresNear
<1>3. a * den <= a * num
  <2>1. den * a <= num * a
    BY <1>1, ScaleUp
  <2>2. den * a = a * den /\ num * a = a * num
    OBVIOUS
  <2> QED
    BY <2>1, <2>2
<1>4. (a + b) * den <= (a + c) * num
  BY <1>2, <1>3, AddScaled
<1> QED
  BY <1>4 DEF TotalAt

\* The money an order moves between the quote balance and a symbol leaves the
\* total, at the price of its fill, as it was.
LEMMA OrderMoves ==
    ASSUME TypeOK, TypeOK', NEW s \in Symbols, NEW d \in Int, NEW q, q = price',
           held'[s] = held[s] + d, \A t \in Symbols \ {s} : held'[t] = held[t],
           quote' = quote - d * q[s]
    PROVE  /\ ValueAt(price, s)' = ValueAt(q, s) + d * q[s]
           /\ ExposureAt(price)' = ExposureAt(q) + d * q[s]
           /\ TotalAt(price)' = TotalAt(q)
<1>1. q \in [Symbols -> Prices]
  BY DEF TypeOK
<1>2. \A t \in Symbols : q[t] \in Nat
  BY <1>1, AmountType
<1> PICK h, k \in [Symbols -> Nat] : h = held /\ k = held'
  BY DEF TypeOK
<1> PICK f : f = [t \in Symbols |-> h[t] * q[t]]
  OBVIOUS
<1> PICK g : g = [t \in Symbols |-> k[t] * q[t]]
  OBVIOUS
<1>3. f \in [Symbols -> Int] /\ g \in [Symbols -> Int]
  <2>1. \A i, j \in Nat : i * j \in Int
    OBVIOUS
  <2> QED
    BY <1>2, <2>1
<1>4. \A t \in Symbols \ {s} : g[t] = f[t]
  OBVIOUS
<1>5. g[s] - f[s] = d * q[s] /\ g[s] = f[s] + d * q[s] /\ d * q[s] \in Int
  <2> PICK x \in Nat, y \in Nat : x = h[s] /\ y = q[s]
    BY <1>2
  <2>1. k[s] = x + d /\ (x + d) * y = x * y + d * y /\ x * y \in Int /\ d * y \in Int
    OBVIOUS
  <2> QED
    BY <2>1
<1>6. /\ SumFunctionOnSet(f, Symbols) \in Int
      /\ SumFunctionOnSet(g, Symbols) = SumFunctionOnSet(f, Symbols) + (g[s] - f[s])
  <2>1. IsFiniteSet(Symbols)
    BY GateAssumption
  <2>2. \A F, G \in [Symbols -> Int] : (\A t \in Symbols \ {s} : G[t] = F[t]) =>
           /\ SumFunctionOnSet(F, Symbols) \in Int
           /\ SumFunctionOnSet(G, Symbols) = SumFunctionOnSet(F, Symbols) + (G[s] - F[s])
    BY <2>1, SumChanges
  <2> QED
    BY <1>3, <1>4, <2>2
<1>7. ExposureAt(q) = SumFunctionOnSet(f, Symbols)
  <2>1. \A t \in Symbols : ValueAt(q, t) = f[t]
    BY <1>1 DEF ValueAt
  <2>2. [t \in Symbols |-> ValueAt(q, t)] = f
    BY <1>3, <2>1
  <2> QED
    BY <2>2 DEF ExposureAt
<1>8. ExposureAt(price)' = SumFunctionOnSet(g, Symbols)
  <2>1. \A t \in Symbols : ValueAt(price, t)' = g[t]
    BY <1>1 DEF ValueAt
  <2>2. [t \in Symbols |-> ValueAt(price, t)'] = g
    BY <1>3, <2>1
  <2> QED
    BY <2>2 DEF ExposureAt
<1>9. ValueAt(price, s)' = g[s] /\ ValueAt(q, s) = f[s]
  BY <1>1 DEF ValueAt
<1>10. ExposureAt(price)' = ExposureAt(q) + d * q[s] /\ ExposureAt(q) \in Int
  BY <1>5, <1>6, <1>7, <1>8
<1>11. TotalAt(price)' = TotalAt(q)
  <2>1. quote \in Int
    BY DEF TypeOK
  <2> QED
    BY <1>5, <1>10, <2>1 DEF TotalAt
<1> QED
  BY <1>5, <1>9, <1>10, <1>11

\* An amount within a share of the total as they were read is nearly within it
\* as they are.
LEMMA WithinDrifts ==
    ASSUME NEW pct \in OrNone(0..100), NEW a \in Int, NEW b \in Int,
           NEW t \in Int, NEW u \in Int, Within(a, pct, t),
           b * DriftDen <= a * DriftNum, t * DriftDen <= u * DriftNum
    PROVE  NearlyWithin(b, pct, u)
<1>1. pct # None /\ t > 0 /\ a * 100 <= pct * t
  BY DEF Within
<1>2. {DriftDen, DriftNum} \subseteq Nat \ {0}
  BY GateAssumption
<1> PICK num, den, c \in Nat : num = DriftNum /\ den = DriftDen /\ c = pct
  BY <1>1, <1>2 DEF OrNone
<1>3. num > 0 /\ den > 0
  BY <1>2
<1>4. u > 0
  <2>1. t * den > 0
    BY <1>1, <1>3
  <2>2. u * num > 0
    BY <2>1
  <2> QED
    BY <1>3, <2>2
<1>5. (b * den) * (100 * den) <= (a * num) * (100 * den)
  <2>1. b * den \in Int /\ a * num \in Int /\ 100 * den \in Nat
    OBVIOUS
  <2> QED
    BY <2>1, ScaleUp
<1>6. (a * 100) * (num * den) <= (c * t) * (num * den)
  <2>1. a * 100 \in Int /\ c * t \in Int /\ num * den \in Nat
    OBVIOUS
  <2> QED
    BY <1>1, <2>1, ScaleUp
<1>7. (t * den) * (c * num) <= (u * num) * (c * num)
  <2>1. t * den \in Int /\ u * num \in Int /\ c * num \in Nat
    OBVIOUS
  <2> QED
    BY <2>1, ScaleUp
<1>8. /\ b * 100 * den * den = (b * den) * (100 * den)
      /\ (a * num) * (100 * den) = (a * 100) * (num * den)
      /\ (c * t) * (num * den) = (t * den) * (c * num)
      /\ c * u * num * num = (u * num) * (c * num)
  OBVIOUS
<1> PICK v, w, x, y \in Int : /\ v = b * 100 * den * den /\ w = (a * num) * (100 * den)
                              /\ x = (c * t) * (num * den) /\ y = c * u * num * num
  OBVIOUS
<1>9. v <= w /\ w <= x /\ x <= y
  BY <1>5, <1>6, <1>7, <1>8
<1>10. b * 100 * den * den <= c * u * num * num
  BY <1>9
<1> QED
  BY <1>1, <1>4, <1>10 DEF NearlyWithin

\* A loss below its share of the total that was read is below it, but for the
\* drift, as the total is.
LEMMA LossDrifts ==
    ASSUME NEW loss \in Int, NEW pct \in Nat, NEW t \in Int, NEW u \in Int,
           loss * 100 < pct * t, t * DriftDen <= u * DriftNum
    PROVE  loss * 100 * DriftDen < pct * u * DriftNum
<1>1. {DriftDen, DriftNum} \subseteq Nat \ {0}
  BY GateAssumption
<1> PICK num, den \in Nat : num = DriftNum /\ den = DriftDen
  BY <1>1
<1>2. den > 0
  BY <1>1
<1>3. (loss * 100) * den < (pct * t) * den
  <2> PICK x, y \in Int : x = loss * 100 /\ y = pct * t
    OBVIOUS
  <2>1. (x + 1) * den <= y * den
    BY ScaleUp
  <2>2. (x + 1) * den = x * den + den /\ x * den \in Int /\ y * den \in Int
    OBVIOUS
  <2>3. x * den < y * den
    BY <1>2, <2>1, <2>2
  <2> QED
    BY <2>3
<1>4. (t * den) * pct <= (u * num) * pct
  <2>1. t * den \in Int /\ u * num \in Int
    OBVIOUS
  <2> QED
    BY <2>1, ScaleUp
<1>5. (pct * t) * den = (t * den) * pct /\ pct * u * num = (u * num) * pct
  OBVIOUS
<1> PICK v, w, x \in Int : /\ v = loss * 100 * den /\ w = (pct * t) * den
                           /\ x = pct * u * num
  OBVIOUS
<1>6. v < w /\ w <= x
  BY <1>3, <1>4, <1>5
<1>7. v < x
  BY <1>6
<1> QED
  BY <1>7

LEMMA LossType ==
    ASSUME TypeOK
    PROVE  LossToday(Symbols) \in Int
<1> PICK T : T = Symbols \cap Positions
  OBVIOUS
<1> PICK f : f = [s \in Symbols |-> GainToday(s)]
  OBVIOUS
<1>1. IsFiniteSet(T)
  BY GateAssumption, FS_Subset
<1>2. ASSUME NEW s \in T
      PROVE  f[s] \in Int
  <2> PICK h \in Seq(Trade) : h = History(s)
    BY HistoryType
  <2>1. Walk(h, today)[Len(h)] \in Tally
    BY LastTypes
  <2>2. f[s] = Walk(h, today)[Len(h)].today
    BY DEF GainToday
  <2> QED
    BY <2>1, <2>2 DEF Tally
<1>3. PICK F : Sums(F, f, T) /\ SumFunctionOnSet(f, T) = F[T]
  BY <1>1, <1>2, SumIsOne
<1>4. SumFunctionOnSet(f, T) \in Int
  BY <1>3 DEF Sums
<1>5. LossToday(Symbols) = -Least(0, SumFunctionOnSet(f, T))
  BY DEF LossToday
<1> QED
  BY <1>4, <1>5 DEF Least

\* A purchase opens at most one position.
LEMMA BuyPositions ==
    ASSUME TypeOK, NEW s \in Symbols, NEW n \in Nat \ {0},
           held' = [held EXCEPT ![s] = @ + n], held[s] = 0
    PROVE  /\ Cardinality(Positions) \in Nat
           /\ Cardinality(Positions') = Cardinality(Positions) + 1
<1>1. held \in [Symbols -> Nat]
  BY DEF TypeOK
<1>2. Positions' = Positions \cup {s}
  BY <1>1 DEF Positions
<1>3. s \notin Positions
  BY DEF Positions
<1>4. IsFiniteSet(Positions)
  BY GateAssumption, FS_Subset DEF Positions
<1> QED
  BY <1>2, <1>3, <1>4, FS_AddElement, FS_CardinalityType

\* What is kept by an order of s that was executed: by every one of them, and
\* by a purchase.
OrderKept(s) ==
    /\ limits.notional # None
    /\ Amount(Newest(s)') * DriftDen <= limits.notional * DriftNum
    /\ limits.lossPct # None
    /\ LossToday(Symbols) * 100 * DriftDen < limits.lossPct * TotalAt(price)' * DriftNum

PurchaseKept(s) ==
    /\ NearlyWithin(ValueAt(price, s)', limits.symbolPct, TotalAt(price)')
    /\ NearlyWithin(ExposureAt(price)', limits.totalPct, TotalAt(price)')
    /\ limits.positions # None
    /\ held[s] = 0 => Cardinality(Positions') <= limits.positions

\* What the reads of an order found, when none of them failed.
LEMMA AllRead ==
    ASSUME ~MayFail, NEW s \in Symbols, NEW seen \in Reads(s)
    PROVE  /\ seen.own \in [{s} \cap Positions -> Prices]
           /\ seen.positions \in [Positions -> Prices]
           /\ seen.valued \in [Positions -> Prices]
           /\ seen.histories = Symbols
  BY DEF Reads, PricesOf

\* Every order, once its total at the price of the fill is known.
LEMMA OrderWithin ==
    ASSUME ~MayFail, TypeOK, NEW side, NEW s \in Symbols, NEW n \in Nat,
           NEW seen \in Reads(s), Approved(side, s, n, seen),
           Executed(side, s, n, seen), NEW q, q = price', TotalAt(price)' = TotalAt(q)
    PROVE  OrderKept(s)
<1>0. q \in [Symbols -> Prices] /\ price \in [Symbols -> Prices]
  BY DEF Executed, TypeOK
<1>1. Near(seen.valued, q) /\ Near(price, q)
  BY DEF Executed
<1>2. seen.valued \in [Positions -> Prices] /\ seen.histories = Symbols
  BY AllRead
<1>3. /\ TotalAt(seen.valued) \in Int /\ TotalAt(q) \in Int
      /\ TotalAt(seen.valued) * DriftDen <= TotalAt(q) * DriftNum
  BY <1>0, <1>1, <1>2, TotalsNear
<1>4. /\ LossAllowed(LossToday(Symbols), TotalAt(seen.valued))
      /\ NotionalAllowed(n * price[s])
  BY <1>2 DEF Approved
<1>5. limits.lossPct # None /\ limits.notional # None
  BY <1>4 DEF LossAllowed, NotionalAllowed
<1>6. limits.lossPct \in Nat /\ limits.notional \in Nat
  <2>1. limits.lossPct \in OrNone(0..100) /\ limits.notional \in OrNone(Nat)
    BY DEF TypeOK, Limits
  <2> QED
    BY <1>5, <2>1 DEF OrNone
<1>7. LossToday(Symbols) * 100 * DriftDen < limits.lossPct * TotalAt(q) * DriftNum
  <2>1. LossToday(Symbols) * 100 < limits.lossPct * TotalAt(seen.valued)
    BY <1>4 DEF LossAllowed
  <2> QED
    BY <1>3, <1>6, <2>1, LossType, LossDrifts
<1>8. Amount(Newest(s)') = n * q[s]
  <2> PICK t : t = [buyer |-> side = "BUY", qty |-> n, price |-> q[s], day |-> today]
    OBVIOUS
  <2> PICK h \in Seq(Trade) : h = trades[s]
    BY DEF TypeOK
  <2>1. trades'[s] = Append(h, t)
    BY DEF Executed, TypeOK
  <2>2. Append(h, t)[Len(Append(h, t))] = t
    OBVIOUS
  <2>3. Newest(s)' = t
    BY <2>1, <2>2 DEF Newest
  <2> QED
    BY <2>3 DEF Amount
<1>9. (n * q[s]) * DriftDen <= limits.notional * DriftNum
  <2>1. /\ n * price[s] \in Nat /\ n * q[s] \in Nat
        /\ (n * q[s]) * DriftDen <= (n * price[s]) * DriftNum
    BY <1>0, <1>1, AmountsNear
  <2>2. DriftNum \in Nat /\ DriftDen \in Nat
    BY GateAssumption
  <2> PICK x, y, l, num, den \in Nat : /\ x = n * price[s] /\ y = n * q[s]
                                       /\ l = limits.notional
                                       /\ num = DriftNum /\ den = DriftDen
    BY <1>6, <2>1, <2>2
  <2>3. x <= l
    BY <1>4 DEF NotionalAllowed
  <2>4. x * num <= l * num
    BY <2>3, ScaleUp
  <2>5. y * den <= x * num
    BY <2>1
  <2> PICK a, b, c \in Int : a = y * den /\ b = x * num /\ c = l * num
    OBVIOUS
  <2>6. a <= c
    BY <2>4, <2>5
  <2> QED
    BY <2>6
<1> QED
  BY <1>5, <1>7, <1>8, <1>9 DEF OrderKept

\* The gate's promise for one purchase, when every read succeeds.
LEMMA BuyWithin ==
    ASSUME ~MayFail, TypeOK, TypeOK', NEW s \in Symbols, NEW n \in Quantities,
           NEW seen \in Reads(s), Buy(s, n, seen)
    PROVE  OrderKept(s) /\ PurchaseKept(s)
<1> PICK q : q = price'
  OBVIOUS
<1>0. /\ q \in [Symbols -> Prices] /\ price \in [Symbols -> Prices] /\ n \in Nat
      /\ held \in [Symbols -> Nat]
  BY GateAssumption DEF TypeOK
<1>1. /\ Near(seen.own, q) /\ Near(seen.positions, q) /\ Near(seen.valued, q)
      /\ Near(price, q)
  BY DEF Buy, Executed
<1>2. /\ seen.own \in [{s} \cap Positions -> Prices]
      /\ seen.positions \in [Positions -> Prices]
      /\ seen.valued \in [Positions -> Prices]
  BY AllRead
<1> PICK m, r, den, num \in Nat : /\ m = n * price[s] /\ r = n * q[s]
                                  /\ den = DriftDen /\ num = DriftNum
  BY <1>0, AmountType, GateAssumption
<1>3. r * den <= m * num
  BY <1>0, <1>1, AmountsNear
<1>4. /\ ValueAt(price, s)' = ValueAt(q, s) + r
      /\ ExposureAt(price)' = ExposureAt(q) + r
      /\ TotalAt(price)' = TotalAt(q)
  <2>1. /\ held'[s] = held[s] + n /\ quote' = quote - n * q[s]
        /\ \A t \in Symbols \ {s} : held'[t] = held[t]
    BY <1>0 DEF Buy
  <2> QED
    BY <1>0, <2>1, OrderMoves
<1>5. /\ TotalAt(seen.valued) \in Int /\ TotalAt(q) \in Int
      /\ TotalAt(seen.valued) * den <= TotalAt(q) * num
  BY <1>0, <1>1, <1>2, TotalsNear
<1>6. /\ n > 0
      /\ ExposureAllowed(s, m, seen, TotalAt(seen.valued))
      /\ PositionAllowed(s)
  BY DEF Buy, Approved, Valid
<1>7. limits \in Limits
  BY DEF TypeOK
<1>8. NearlyWithin(ValueAt(price, s)', limits.symbolPct, TotalAt(price)')
  <2>1. held[s] > 0 => s \in {s} \cap Positions
    BY DEF Positions
  <2>2. {s} \cap Positions \in SUBSET Symbols
    BY DEF Positions
  <2>3. /\ ValueAt(seen.own, s) \in Int /\ ValueAt(q, s) \in Int
        /\ ValueAt(q, s) * den <= ValueAt(seen.own, s) * num
    BY <1>0, <1>1, <1>2, <2>1, <2>2, ValuesNear
  <2> PICK a, b \in Int : a = ValueAt(seen.own, s) /\ b = ValueAt(q, s)
    BY <2>3
  <2>4. (b + r) * den <= (a + m) * num
    BY <1>3, <2>3, AddScaled
  <2>5. Within(a + m, limits.symbolPct, TotalAt(seen.valued))
    BY <1>6 DEF ExposureAllowed
  <2>6. limits.symbolPct \in OrNone(0..100)
    BY <1>7 DEF Limits
  <2>7. a + m \in Int /\ b + r \in Int
    OBVIOUS
  <2>8. NearlyWithin(b + r, limits.symbolPct, TotalAt(q))
    BY <1>5, <2>4, <2>5, <2>6, <2>7, WithinDrifts
  <2> QED
    BY <1>4, <2>8
<1>9. NearlyWithin(ExposureAt(price)', limits.totalPct, TotalAt(price)')
  <2>1. /\ ExposureAt(seen.positions) \in Int /\ ExposureAt(q) \in Int
        /\ ExposureAt(q) * den <= ExposureAt(seen.positions) * num
    BY <1>0, <1>1, <1>2, ExposuresNear
  <2> PICK a, b \in Int : a = ExposureAt(seen.positions) /\ b = ExposureAt(q)
    BY <2>1
  <2>2. (b + r) * den <= (a + m) * num
    BY <1>3, <2>1, AddScaled
  <2>3. Within(a + m, limits.totalPct, TotalAt(seen.valued))
    BY <1>6 DEF ExposureAllowed
  <2>4. limits.totalPct \in OrNone(0..100)
    BY <1>7 DEF Limits
  <2>5. a + m \in Int /\ b + r \in Int
    OBVIOUS
  <2>6. NearlyWithin(b + r, limits.totalPct, TotalAt(q))
    BY <1>5, <2>2, <2>3, <2>4, <2>5, WithinDrifts
  <2> QED
    BY <1>4, <2>6
<1>10. limits.positions # None
  BY <1>6 DEF PositionAllowed
<1>11. ASSUME held[s] = 0
       PROVE  Cardinality(Positions') <= limits.positions
  <2>1. limits.positions \in Nat
    BY <1>7, <1>10 DEF Limits, OrNone
  <2>2. n \in Nat \ {0}
    BY <1>0, <1>6
  <2>3. held' = [held EXCEPT ![s] = @ + n]
    BY DEF Buy
  <2>4. Cardinality(Positions) < limits.positions
    BY <1>6, <1>11 DEF PositionAllowed
  <2>5. /\ Cardinality(Positions) \in Nat
        /\ Cardinality(Positions') = Cardinality(Positions) + 1
    BY <1>11, <2>2, <2>3, BuyPositions
  <2> QED
    BY <2>1, <2>4, <2>5
<1>12. OrderKept(s)
  BY <1>0, <1>4, OrderWithin DEF Buy
<1> QED
  BY <1>8, <1>9, <1>10, <1>11, <1>12 DEF PurchaseKept

LEMMA SellWithin ==
    ASSUME ~MayFail, TypeOK, TypeOK', NEW s \in Symbols, NEW n \in Nat,
           NEW seen \in Reads(s), Sell(s, n, seen)
    PROVE  OrderKept(s)
<1> PICK q : q = price'
  OBVIOUS
<1>0. q \in [Symbols -> Prices] /\ held \in [Symbols -> Nat] /\ quote \in Nat
  BY DEF TypeOK
<1>1. TotalAt(price)' = TotalAt(q)
  <2> PICK d \in Int : d = -n
    OBVIOUS
  <2>1. held'[s] = held[s] + d /\ \A t \in Symbols \ {s} : held'[t] = held[t]
    BY <1>0 DEF Sell
  <2>2. quote' = quote - d * q[s]
    <3> PICK x \in Nat : x = q[s]
      BY <1>0, AmountType
    <3>1. quote + n * x = quote - d * x
      BY <1>0
    <3> QED
      BY <3>1 DEF Sell
  <2> QED
    BY <2>1, <2>2, OrderMoves
<1> QED
  BY <1>1, OrderWithin DEF Sell

\* Whoever trades while all reads of the account succeed ends within the limits
\* the user saved, at the prices the order filled at, but for what the prices
\* moved since they were read: the amount of the order and the losses of the
\* day by the drift, the shares of the symbol and of all symbols by the drift
\* of the amounts and that of the total, and the number of positions exactly.
\* For any number of symbols, quantities, prices, drift and limits.
THEOREM GateIsHeld ==
    ASSUME ~MayFail
    PROVE  Spec => GateHolds
<1> DEFINE Promise ==
             \A s \in Symbols :
               trades'[s] # trades[s] =>
                 OrderKept(s) /\ (held'[s] > held[s] => PurchaseKept(s))
<1>1. TypeOK /\ [Next]_vars => [Promise]_vars
  <2> SUFFICES ASSUME TypeOK, [Next]_vars PROVE [Promise]_vars
    OBVIOUS
  <2>0. /\ TypeOK' /\ held \in [Symbols -> Nat]
        /\ trades \in [Symbols -> Seq(Trade)]
    BY StepTypes DEF TypeOK
  <2>1. ASSUME trades' = trades
        PROVE  Promise
    BY <2>1
  <2>2. CASE Order
    <3>1. PICK s \in Symbols : \E seen \in Reads(s) :
             \/ \E n \in Quantities : Buy(s, n, seen)
             \/ \E n \in Nat : Sell(s, n, seen)
      BY <2>2, OrderCases
    <3>2. PICK seen \in Reads(s) :
             \/ \E n \in Quantities : Buy(s, n, seen)
             \/ \E n \in Nat : Sell(s, n, seen)
      BY <3>1
    <3>3. CASE \E n \in Quantities : Buy(s, n, seen)
      <4>1. PICK n \in Quantities : Buy(s, n, seen)
        BY <3>3
      <4>2. \A t \in Symbols \ {s} : trades'[t] = trades[t]
        BY <2>0, <4>1 DEF Buy, Executed
      <4>3. OrderKept(s) /\ PurchaseKept(s)
        BY <2>0, <4>1, BuyWithin
      <4> QED
        BY <4>2, <4>3
    <3>4. CASE \E n \in Nat : Sell(s, n, seen)
      <4>1. PICK n \in Nat : Sell(s, n, seen)
        BY <3>4
      <4>2. \A t \in Symbols \ {s} : trades'[t] = trades[t]
        BY <2>0, <4>1 DEF Sell, Executed
      <4>3. OrderKept(s)
        BY <2>0, <4>1, SellWithin
      <4>4. ~ (held'[s] > held[s])
        BY <2>0, <4>1 DEF Sell
      <4> QED
        BY <4>2, <4>3, <4>4
    <3> QED
      BY <3>2, <3>3, <3>4
  <2>3. CASE \E l \in LimitChoices : SaveLimits(l)
    BY <2>1, <2>3 DEF SaveLimits
  <2>4. CASE \E s \in Symbols, p \in Prices : MovePrice(s, p)
    BY <2>1, <2>4 DEF MovePrice
  <2>5. CASE NextDay
    BY <2>1, <2>5 DEF NextDay
  <2> QED
    BY <2>2, <2>3, <2>4, <2>5 DEF Next
<1> DEFINE Stated ==
             \A s \in Symbols :
               trades'[s] # trades[s] =>
                   /\ limits.notional # None
                   /\ Amount(Newest(s)') * DriftDen <= limits.notional * DriftNum
                   /\ limits.lossPct # None
                   /\ LossToday(Symbols) * 100 * DriftDen
                          < limits.lossPct * TotalAt(price)' * DriftNum
                   /\ held'[s] > held[s] =>
                          /\ NearlyWithin(ValueAt(price, s)', limits.symbolPct, TotalAt(price)')
                          /\ NearlyWithin(ExposureAt(price)', limits.totalPct, TotalAt(price)')
                          /\ limits.positions # None
                          /\ held[s] = 0 => Cardinality(Positions') <= limits.positions
<1>2. [Promise]_vars => [Stated]_vars
  BY DEF OrderKept, PurchaseKept
<1> QED
  BY <1>1, <1>2, GateTypes, PTL DEF Spec, GateHolds

-----------------------------------------------------------------------------
(* What the walk finds of a whole history *)

\* The first k trades are those of days before day.
Splits(h, k, day) == \A i \in 1..Len(h) : h[i].day < day <=> i <= k

\* The money the walk at day accounts for after i trades: what came in, and
\* what the quantity held did cost.
Earned(h, day, i) == Cash(h)[i] + Walk(h, day)[i].cost

\* The history h of a symbol of which n is held, seen on the day today.  The
\* walk is also exact on the days to come, on which it has seen no gain yet.
Settled(h, n, now) ==
    LET last == Len(h) IN
    /\ \A i \in 1..last : h[i].day <= now
    /\ \A day \in Nat :
          /\ Walk(h, day)[last].held = n
          /\ Walk(h, day)[last].gain = Earned(h, day, last)
          /\ day > now => Walk(h, day)[last].today = 0
    /\ \E k \in 0..last :
          /\ Splits(h, k, now)
          /\ Walk(h, now)[last].today = Earned(h, now, last) - Earned(h, now, k)

ExactInv == \A s \in Symbols : Settled(trades[s], held[s], today)

\* What a trade that sells no more than is held does to the tally and the cash.
LEMMA TradeBooked ==
    ASSUME NEW w \in Tally, NEW sum \in Int, NEW t \in Trade, NEW day,
           ~t.buyer => t.qty <= w.held,
           NEW v, v = Walked(w, t, day), NEW r, r = Received(sum, t)
    PROVE  /\ v.held = IF t.buyer THEN w.held + t.qty ELSE w.held - t.qty
           /\ v.gain - (r + v.cost) = w.gain - (sum + w.cost)
           /\ v.today = IF t.day = day
                        THEN w.today + ((r + v.cost) - (sum + w.cost))
                        ELSE w.today
<1>0. /\ w.held \in Nat /\ w.cost \in Int /\ w.gain \in Int /\ w.today \in Int
      /\ t.qty \in Nat /\ Amount(t) \in Int
  BY TradeTypes, ReceivedType DEF Tally
<1> PICK a \in Int : a = Amount(t)
  BY <1>0
<1>1. CASE t.buyer
  <2>1. PICK n \in Nat :
           /\ n = t.qty
           /\ Bought(w, t) = [held |-> w.held + n, cost |-> w.cost + a,
                              gain |-> w.gain, today |-> w.today]
    BY BoughtParts
  <2>2. /\ v.held = w.held + t.qty /\ v.cost = w.cost + a
        /\ v.gain = w.gain /\ v.today = w.today
        /\ r = sum - a
    BY <1>1, <2>1 DEF Walked, Received
  <2>3. r + v.cost = sum + w.cost
    BY <1>0, <2>2
  <2> QED
    BY <1>0, <1>1, <2>2, <2>3
<1>2. CASE ~t.buyer /\ w.held # 0
  <2>0. PICK q, b \in Int :
              /\ q = Least(t.qty, w.held)
              /\ Sold(w, t, day) =
                    [held  |-> w.held - q,
                     cost  |-> w.cost - b,
                     gain  |-> w.gain + (q * t.price - b),
                     today |-> w.today + IF t.day = day THEN q * t.price - b ELSE 0]
    BY <1>2, SoldParts
  <2>1. q = t.qty /\ q * t.price = a
    BY <1>0, <1>2, <2>0 DEF Least, Amount
  <2>2. /\ v.held = w.held - t.qty /\ v.cost = w.cost - b
        /\ v.gain = w.gain + (a - b)
        /\ v.today = w.today + IF t.day = day THEN a - b ELSE 0
        /\ r = sum + a
    BY <1>2, <2>0, <2>1 DEF Walked, Received
  <2>3. /\ (r + v.cost) - (sum + w.cost) = a - b
        /\ v.gain - (r + v.cost) = w.gain - (sum + w.cost)
    BY <1>0, <2>2
  <2> QED
    BY <1>0, <1>2, <2>2, <2>3
<1>3. CASE ~t.buyer /\ w.held = 0
  <2>1. t.qty = 0
    BY <1>0, <1>3
  <2>2. a = 0
    BY <2>1, TradeTypes DEF Amount
  <2>3. v = w /\ r = sum
    BY <1>3, <2>2 DEF Walked, Received
  <2> QED
    BY <1>0, <1>3, <2>1, <2>3
<1> QED
  BY <1>1, <1>2, <1>3

LEMMA Telescopes ==
    ASSUME NEW start \in Int, NEW before \in Int, NEW after \in Int
    PROVE  (before - start) + (after - before) = after - start
OBVIOUS

\* A trade of today keeps a history settled.
LEMMA SettledGrows ==
    ASSUME NEW h \in Seq(Trade), NEW n \in Nat, NEW now \in Nat, Settled(h, n, now),
           NEW t \in Trade, t.day = now, ~t.buyer => t.qty <= n
    PROVE  Settled(Append(h, t), IF t.buyer THEN n + t.qty ELSE n - t.qty, now)
<1>0. Append(h, t) \in Seq(Trade)
  OBVIOUS
<1> PICK g \in Seq(Trade) : g = Append(h, t)
  BY <1>0
<1> PICK m \in Nat : m = Len(h)
  OBVIOUS
<1> PICK e \in Nat : e = m + 1
  OBVIOUS
<1>1. Len(g) = e /\ g[e] = t /\ \A i \in 1..m : g[i] = h[i]
  OBVIOUS
<1>2. ASSUME NEW i \in 1..e
      PROVE  i = e \/ i \in 1..m
  OBVIOUS
<1>3. \A i \in 1..e : g[i].day <= now
  <2>1. \A i \in 1..m : h[i].day <= now
    BY DEF Settled
  <2> QED
    BY <1>1, <1>2, <2>1
<1>4. ASSUME NEW day \in Nat
      PROVE  /\ Walk(h, day)[m] \in Tally /\ Cash(h)[m] \in Int
             /\ Walk(g, day)[e] = Walked(Walk(h, day)[m], t, day)
             /\ Cash(g)[e] = Received(Cash(h)[m], t)
             /\ \A i \in 0..m : Walk(g, day)[i] = Walk(h, day)[i] /\ Cash(g)[i] = Cash(h)[i]
  BY LastTypes, WalkGrows, CashGrows
<1>5. ASSUME NEW day \in Nat
      PROVE  /\ Walk(h, day)[m].held = n
             /\ Walk(h, day)[m].gain = Cash(h)[m] + Walk(h, day)[m].cost
             /\ day > now => Walk(h, day)[m].today = 0
  BY DEF Settled, Earned
<1>6. ASSUME NEW day \in Nat
      PROVE  /\ Walk(g, day)[e].held = IF t.buyer THEN n + t.qty ELSE n - t.qty
             /\ Walk(g, day)[e].gain = Earned(g, day, e)
             /\ day > now => Walk(g, day)[e].today = 0
  <2> PICK w : w = Walk(h, day)[m]
    OBVIOUS
  <2> PICK c : c = Cash(h)[m]
    OBVIOUS
  <2> PICK v : v = Walk(g, day)[e]
    OBVIOUS
  <2> PICK r : r = Cash(g)[e]
    OBVIOUS
  <2>1. w \in Tally /\ c \in Int /\ v = Walked(w, t, day) /\ r = Received(c, t)
    BY <1>4
  <2>2. w.held = n /\ w.gain = c + w.cost /\ (day > now => w.today = 0)
    BY <1>5
  <2>3. /\ v.held = IF t.buyer THEN w.held + t.qty ELSE w.held - t.qty
        /\ v.gain - (r + v.cost) = w.gain - (c + w.cost)
        /\ t.day # day => v.today = w.today
    BY <2>1, <2>2, TradeBooked
  <2>4. w.gain \in Int /\ w.cost \in Int /\ v.gain \in Int /\ v.cost \in Int /\ r \in Int
    BY <2>1, WalkedType, ReceivedType DEF Tally
  <2>5. v.gain = r + v.cost
    <3>1. \A a, b, x, y, z \in Int : x - (z + y) = a - (c + b) /\ a = c + b => x = z + y
      OBVIOUS
    <3> QED
      BY <2>2, <2>3, <2>4, <3>1
  <2>6. day > now => v.today = 0
    BY <2>2, <2>3
  <2> QED
    BY <2>2, <2>3, <2>5, <2>6 DEF Earned
<1>7. PICK k \in 0..m :
         /\ Splits(h, k, now)
         /\ Walk(h, now)[m].today = Earned(h, now, m) - Earned(h, now, k)
  BY DEF Settled
<1>8. k \in 0..e /\ Splits(g, k, now)
  <2>1. \A i \in 1..m : h[i].day < now <=> i <= k
    BY <1>7 DEF Splits
  <2>2. ~ (g[e].day < now) /\ ~ (e <= k)
    BY <1>1
  <2>3. \A i \in 1..e : g[i].day < now <=> i <= k
    BY <1>1, <1>2, <2>1, <2>2
  <2> QED
    BY <1>1, <2>3 DEF Splits
<1>9. Walk(g, now)[e].today = Earned(g, now, e) - Earned(g, now, k)
  <2> PICK w : w = Walk(h, now)[m]
    OBVIOUS
  <2> PICK c : c = Cash(h)[m]
    OBVIOUS
  <2> PICK v : v = Walk(g, now)[e]
    OBVIOUS
  <2> PICK r : r = Cash(g)[e]
    OBVIOUS
  <2>1. w \in Tally /\ c \in Int /\ v = Walked(w, t, now) /\ r = Received(c, t)
    BY <1>4
  <2>2. w.held = n
    BY <1>5
  <2>3. v.today = w.today + ((r + v.cost) - (c + w.cost))
    BY <2>1, <2>2, TradeBooked
  <2>4. w.today \in Int /\ w.cost \in Int /\ v.cost \in Int /\ r \in Int
    BY <2>1, WalkedType, ReceivedType DEF Tally
  <2> PICK x : x = Earned(h, now, k)
    OBVIOUS
  <2>5. Earned(g, now, k) = x
    BY <1>4 DEF Earned
  <2>6. x \in Int
    <3>1. Walk(h, now)[k] \in Tally /\ Cash(h)[k] \in Int
      BY WalkRuns, CashRuns DEF Runs
    <3> QED
      BY <3>1 DEF Earned, Tally
  <2>7. w.today = (c + w.cost) - x
    BY <1>7 DEF Earned
  <2>8. v.today = (r + v.cost) - x
    <3> PICK after \in Int : after = r + v.cost
      BY <2>4
    <3> PICK before \in Int : before = c + w.cost
      BY <2>1, <2>4
    <3>1. v.today = w.today + (after - before)
      BY <2>3
    <3>2. w.today = before - x
      BY <2>7
    <3> QED
      BY <2>6, <3>1, <3>2, Telescopes
  <2> QED
    BY <2>5, <2>8 DEF Earned
<1> QED
  BY <1>1, <1>3, <1>6, <1>8, <1>9 DEF Settled

\* A new day, on which nothing was traded yet, does as well.
LEMMA SettledNextDay ==
    ASSUME NEW h \in Seq(Trade), NEW n \in Nat, NEW now \in Nat, Settled(h, n, now)
    PROVE  Settled(h, n, now + 1)
<1> PICK e \in Nat : e = now + 1
  OBVIOUS
<1> PICK m \in Nat : m = Len(h)
  OBVIOUS
<1>1. \A i \in 1..m : h[i].day <= now /\ h[i].day \in Nat
  BY TradeTypes DEF Settled
<1>2. Splits(h, m, e)
  BY <1>1 DEF Splits
<1>3. \A day \in Nat :
         /\ Walk(h, day)[m].held = n
         /\ Walk(h, day)[m].gain = Earned(h, day, m)
         /\ day > now => Walk(h, day)[m].today = 0
  BY DEF Settled
<1>4. Earned(h, e, m) \in Int
  BY LastTypes DEF Earned, Tally
<1>5. Walk(h, e)[m].today = Earned(h, e, m) - Earned(h, e, m)
  BY <1>3, <1>4
<1>6. m \in 0..m
  OBVIOUS
<1>7. \A day \in Nat : day > e => day > now
  OBVIOUS
<1>8. \A i \in 1..m : h[i].day <= e
  BY <1>1
<1>9. Settled(h, n, e)
  BY <1>2, <1>3, <1>5, <1>6, <1>7, <1>8 DEF Settled
<1> QED
  BY <1>9

LEMMA InitExact == Init => ExactInv
<1> SUFFICES ASSUME Init, NEW s \in Symbols
             PROVE  Settled(trades[s], held[s], today)
  BY DEF ExactInv
<1>0. << >> \in Seq(Trade)
  OBVIOUS
<1> PICK h \in Seq(Trade) : h = << >>
  BY <1>0
<1>1. trades[s] = h /\ held[s] = 0 /\ today = 0 /\ Len(h) = 0
  BY DEF Init
<1>2. ASSUME NEW day \in Nat
      PROVE  Walk(h, day)[0] = Flat /\ Cash(h)[0] = 0
  BY WalkRuns, CashRuns DEF Runs
<1>3. Earned(h, 0, 0) \in Int /\ \A day \in Nat : Earned(h, day, 0) = 0
  BY <1>2 DEF Earned, Flat
<1>4. Settled(h, 0, 0)
  <2>1. Splits(h, 0, 0)
    BY <1>1 DEF Splits
  <2>2. Walk(h, 0)[0].today = Earned(h, 0, 0) - Earned(h, 0, 0)
    BY <1>2, <1>3 DEF Flat
  <2>3. \A day \in Nat : /\ Walk(h, day)[0].held = 0
                         /\ Walk(h, day)[0].gain = Earned(h, day, 0)
                         /\ Walk(h, day)[0].today = 0
    BY <1>2, <1>3 DEF Flat
  <2> QED
    BY <1>1, <2>1, <2>2, <2>3 DEF Settled
<1> QED
  BY <1>1, <1>4

\* An order that executes appends a trade of today to the symbol's history.
LEMMA ExecutedExact ==
    ASSUME TypeOK, ExactInv, NEW side \in {"BUY", "SELL"}, NEW s \in Symbols,
           NEW n \in Nat, NEW seen, Executed(side, s, n, seen), today' = today,
           side = "SELL" => n <= held[s],
           held' = [held EXCEPT ![s] = IF side = "BUY" THEN @ + n ELSE @ - n]
    PROVE  ExactInv'
<1> PICK q \in [Symbols -> Prices] : q = price'
  BY DEF Executed
<1> PICK t : t = [buyer |-> side = "BUY", qty |-> n, price |-> q[s], day |-> today]
  OBVIOUS
<1>1. t \in Trade
  <2>1. today \in Nat
    BY GateAssumption DEF TypeOK
  <2>2. (side = "BUY") \in BOOLEAN
    OBVIOUS
  <2>3. q[s] \in Prices
    OBVIOUS
  <2> QED
    BY <2>1, <2>2, <2>3 DEF Trade
<1>2. trades' = [trades EXCEPT ![s] = Append(trades[s], t)]
  BY DEF Executed
<1>3. trades \in [Symbols -> Seq(Trade)] /\ held \in [Symbols -> Nat] /\ today \in Nat
  BY GateAssumption DEF TypeOK
<1>4. Settled(trades'[s], held'[s], today)
  <2> PICK h \in Seq(Trade), r \in Nat : h = trades[s] /\ r = held[s]
    BY <1>3
  <2>1. Settled(h, r, today)
    BY DEF ExactInv
  <2>2. t.day = today /\ t.qty = n /\ t.buyer = (side = "BUY")
    OBVIOUS
  <2>3. ~t.buyer => t.qty <= r
    BY <2>2
  <2>4. Settled(Append(h, t), IF t.buyer THEN r + t.qty ELSE r - t.qty, today)
    <3> PICK now \in Nat : now = today
      BY <1>3
    <3>1. Settled(h, r, now) /\ t.day = now
      BY <2>1, <2>2
    <3> QED
      BY <1>1, <2>3, <3>1, SettledGrows
  <2>5. trades'[s] = Append(h, t)
    BY <1>2, <1>3
  <2>6. held'[s] = IF t.buyer THEN r + t.qty ELSE r - t.qty
    BY <1>3, <2>2
  <2> QED
    BY <2>4, <2>5, <2>6
<1>5. ASSUME NEW u \in Symbols, u # s
      PROVE  Settled(trades'[u], held'[u], today)
  <2>1. trades'[u] = trades[u] /\ held'[u] = held[u]
    BY <1>2, <1>3, <1>5
  <2> QED
    BY <2>1 DEF ExactInv
<1> QED
  BY <1>4, <1>5 DEF ExactInv

LEMMA StepExact == TypeOK /\ ExactInv /\ [Next]_vars => ExactInv'
<1> SUFFICES ASSUME TypeOK, ExactInv, [Next]_vars PROVE ExactInv'
  OBVIOUS
<1>0. ASSUME trades' = trades, held' = held, today' = today
      PROVE  ExactInv'
  BY <1>0 DEF ExactInv
<1>1. CASE Order
  <2>1. PICK s \in Symbols : \E seen \in Reads(s) :
           \/ \E n \in Quantities : Buy(s, n, seen)
           \/ \E n \in Nat : Sell(s, n, seen)
    BY <1>1, OrderCases
  <2> PICK seen \in Reads(s) :
           \/ \E n \in Quantities : Buy(s, n, seen)
           \/ \E n \in Nat : Sell(s, n, seen)
    BY <2>1
  <2>2. CASE \E n \in Quantities : Buy(s, n, seen)
    <3>1. PICK n \in Nat : Buy(s, n, seen)
      BY <2>2, GateAssumption
    <3> QED
      BY <3>1, ExecutedExact, ExecutedTypes DEF Buy
  <2>3. CASE \E n \in Nat : Sell(s, n, seen)
    <3>1. PICK n \in Nat : Sell(s, n, seen)
      BY <2>3
    <3> QED
      BY <3>1, ExecutedExact, ExecutedTypes DEF Sell
  <2> QED
    BY <2>2, <2>3
<1>2. CASE \E l \in LimitChoices : SaveLimits(l)
  BY <1>0, <1>2 DEF SaveLimits
<1>3. CASE \E s \in Symbols, p \in Prices : MovePrice(s, p)
  BY <1>0, <1>3 DEF MovePrice
<1>4. CASE NextDay
  <2>1. today \in Nat /\ \A s \in Symbols : trades[s] \in Seq(Trade) /\ held[s] \in Nat
    BY GateAssumption DEF TypeOK
  <2>2. \A s \in Symbols : Settled(trades[s], held[s], today + 1)
    BY <2>1, SettledNextDay DEF ExactInv
  <2> QED
    BY <1>4, <2>2 DEF NextDay, ExactInv
<1>5. CASE UNCHANGED vars
  BY <1>0, <1>5 DEF vars
<1> QED
  BY <1>1, <1>2, <1>3, <1>4, <1>5 DEF Next

\* Over a symbol's whole history the walk finds the quantity the account holds,
\* and its gains, in all and of today, are the money the symbol brought in,
\* with what is still held standing for its cost: for any trades the gate lets
\* through, at any prices, over any number of days.
THEOREM WalkIsExact == Spec => []WalkExact
<1>1. TypeOK /\ ExactInv => WalkExact
  <2> SUFFICES ASSUME TypeOK, NEW s \in Symbols, Settled(trades[s], held[s], today)
               PROVE  LET all  == trades[s]
                          last == Len(all)
                          w    == Walk(all, today)
                      IN  /\ w[last].held = held[s]
                          /\ w[last].gain = Cash(all)[last] + w[last].cost
                          /\ \E k \in 0..last :
                                /\ SplitsToday(all, k)
                                /\ w[last].today = (Cash(all)[last] + w[last].cost)
                                                    - (Cash(all)[k] + w[k].cost)
    BY DEF WalkExact, ExactInv
  <2>1. today \in Nat
    BY GateAssumption DEF TypeOK
  <2> QED
    BY <2>1 DEF Settled, Splits, SplitsToday, Earned
<1> QED
  BY <1>1, InitExact, StepExact, GateTypes, PTL DEF Spec

=============================================================================
