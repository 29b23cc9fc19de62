----------------------- MODULE ModelSelection_proofs -----------------------
(***************************************************************************)
(* No row that a prediction is computed from holds its future, and the     *)
(* best candidate is selected, for every list of candidates, every ratio   *)
(* and series of every length.                                             *)
(***************************************************************************)
EXTENDS ModelSelection, TLAPS

-----------------------------------------------------------------------------
(* Slices and design matrices *)

LEMMA IsASeq ==
    ASSUME NEW S, NEW n \in Nat, NEW f \in [1..n -> S]
    PROVE  f \in Seq(S) /\ Len(f) = n /\ DOMAIN f = 1..n
  OBVIOUS

LEMMA SliceIs ==
    ASSUME NEW s, NEW a \in Nat, NEW b \in Nat, a <= b
    PROVE  /\ Len(Slice(s, a, b)) = b - a
           /\ \A i \in 1..(b - a) : Slice(s, a, b)[i] = s[a + i]
<1> PICK n, f : n = b - a /\ f = Slice(s, a, b)
  OBVIOUS
<1>1. f = [i \in 1..n |-> s[a + i]] /\ n \in Nat
  BY DEF Slice
<1>2. f \in [1..n -> {s[a + i] : i \in 1..n}]
  BY <1>1
<1>3. Len(f) = n
  BY <1>1, <1>2, IsASeq
<1> QED
  BY <1>1, <1>3

LEMMA LastOfIs ==
    ASSUME NEW S, NEW s \in Seq(S), NEW n \in 1..Len(s)
    PROVE  /\ Len(LastOf(s, n)) = n
           /\ \A i \in 1..n : LastOf(s, n)[i] = s[Len(s) - n + i]
<1> PICK f : f = LastOf(s, n)
  OBVIOUS
<1>1. f = [i \in 1..n |-> s[Len(s) - n + i]]
  <2>1. Len(s) - (Len(s) - n) = n /\ n # 0
    OBVIOUS
  <2> QED
    BY <2>1 DEF LastOf, Slice
<1>2. f \in [1..n -> S]
  BY <1>1
<1> QED
  BY <1>1, <1>2, IsASeq

LEMMA PolyDesign ==
    ASSUME NEW S, NEW s \in Seq(S), NEW m \in Model, m.kind = "poly"
    PROVE  /\ Len(Design(m, s)) = Len(s)
           /\ Design(m, s) = <<>> <=> Len(s) = 0
           /\ \A i \in 1..Len(s) : Design(m, s)[i] = <<s[i]>>
<1>1. Design(m, s) = [i \in 1..Len(s) |-> <<s[i]>>]
  BY DEF Design
<1> PICK d : d = Design(m, s)
  OBVIOUS
<1>2. d \in [1..Len(s) -> Seq(S)]
  BY <1>1
<1>3. d \in Seq(Seq(S)) /\ Len(d) = Len(s)
  BY <1>2, IsASeq
<1> QED
  BY <1>1, <1>3

LEMMA ArDesign ==
    ASSUME NEW S, NEW s \in Seq(S), NEW m \in Model, m.kind = "ar"
    PROVE  IF Len(s) <= m.size THEN Design(m, s) = <<>>
           ELSE /\ Len(Design(m, s)) = Len(s) - m.size
                /\ Design(m, s) # <<>>
                /\ \A i \in 1..(Len(s) - m.size) :
                      Design(m, s)[i] = [lag \in 1..m.size |-> s[m.size - lag + i]]
<1>1. m.size \in Nat /\ m.kind # "poly"
  BY DEF Model
<1>2. CASE Len(s) <= m.size
  BY <1>1, <1>2 DEF Design
<1>3. CASE Len(s) > m.size
  <2> PICK n, d : n = Len(s) - m.size /\ d = Design(m, s)
    OBVIOUS
  <2>1. n \in Nat \ {0}
    BY <1>1, <1>3
  <2>2. d = [i \in 1..n |-> [lag \in 1..m.size |-> Column(s, m.size, lag)[i]]]
    BY <1>1, <1>3 DEF Design
  <2>3. ASSUME NEW i \in 1..n, NEW lag \in 1..m.size
        PROVE  /\ Column(s, m.size, lag)[i] = s[m.size - lag + i]
               /\ s[m.size - lag + i] \in S
    <3>1. /\ m.size - lag \in Nat /\ Len(s) - lag \in Nat
          /\ m.size - lag <= Len(s) - lag /\ Len(s) - lag <= Len(s)
          /\ (Len(s) - lag) - (m.size - lag) = n
          /\ m.size - lag + i \in 1..Len(s)
      BY <1>1, <1>3
    <3> PICK a, b : a = m.size - lag /\ b = Len(s) - lag
      OBVIOUS
    <3>2. Column(s, m.size, lag)[i] = s[a + i]
      <4>1. Column(s, m.size, lag) = [j \in 1..(b - a) |-> s[a + j]]
        BY DEF Column, Slice
      <4>2. i \in 1..(b - a)
        BY <3>1
      <4> QED
        BY <4>1, <4>2
    <3> QED
      BY <3>1, <3>2
  <2>4. ASSUME NEW i \in 1..n
        PROVE  d[i] = [lag \in 1..m.size |-> s[m.size - lag + i]]
    <3>1. d[i] = [lag \in 1..m.size |-> Column(s, m.size, lag)[i]]
      BY <2>2
    <3>2. \A lag \in 1..m.size : Column(s, m.size, lag)[i] = s[m.size - lag + i]
      BY <2>3
    <3> QED
      BY <3>1, <3>2
  <2>5. d \in [1..n -> [1..m.size -> S]]
    BY <2>2, <2>3
  <2>6. d \in Seq([1..m.size -> S]) /\ Len(d) = n
    BY <2>1, <2>5, IsASeq
  <2> QED
    BY <1>1, <1>3, <2>1, <2>4, <2>6
<1> QED
  BY <1>1, <1>2, <1>3

LEMMA DesignLength ==
    ASSUME NEW S, NEW s \in Seq(S), NEW m \in Model
    PROVE  /\ Len(Design(m, s)) \in 0..Len(s)
           /\ Design(m, s) = <<>> <=> Len(Design(m, s)) = 0
<1>1. m.kind \in {"poly", "ar"} /\ m.size \in Nat /\ m.size > 0
  BY DEF Model
<1>2. CASE m.kind = "poly"
  BY <1>2, PolyDesign
<1>3. CASE m.kind = "ar"
  <2>1. CASE Len(s) <= m.size
    BY <1>1, <1>3, <2>1, ArDesign
  <2>2. CASE Len(s) > m.size
    <3>1. Len(Design(m, s)) = Len(s) - m.size /\ Design(m, s) # <<>>
      BY <1>1, <1>3, <2>2, ArDesign
    <3> QED
      BY <1>1, <2>2, <3>1
  <2> QED
    BY <1>1, <2>1, <2>2
<1> QED
  BY <1>1, <1>2, <1>3

-----------------------------------------------------------------------------
(* No row holds anything later than its target, or of the other part *)

\* What PredictionsLookBack says of one model and one part.
LooksBack(m, part) ==
    LET rows == Design(m, part)
        targets == LastOf(part, Len(rows))
    IN  rows # <<>> =>
            /\ Len(targets) = Len(rows)
            /\ \A i \in 1..Len(rows) :
                /\ Range(rows[i]) \subseteq Range(part)
                /\ rows[i] = IF m.kind = "poly" THEN <<targets[i]>>
                             ELSE [lag \in 1..m.size |-> targets[i] - lag]

Consecutive(s, c) == \A i \in 1..Len(s) : s[i] = c + i

LEMMA LaggedPosition ==
    ASSUME NEW s \in Seq(Int), NEW c \in Int, Consecutive(s, c),
           NEW size \in Nat, ~(Len(s) <= size), NEW lag \in 1..size,
           NEW i \in 1..(Len(s) - size)
    PROVE  /\ size - lag + i \in 1..Len(s)
           /\ s[size - lag + i] = s[size + i] - lag
<1>1. size - lag + i \in 1..Len(s) /\ size + i \in 1..Len(s)
  OBVIOUS
<1>2. s[size + i] = c + (size + i) /\ s[size - lag + i] = c + (size - lag + i)
  BY <1>1 DEF Consecutive
<1> QED
  BY <1>1, <1>2

\* A model looks back on every part of consecutive positions.
LEMMA ConsecutiveLookBack ==
    ASSUME NEW m \in Model, NEW s \in Seq(Int), NEW c \in Int,
           Consecutive(s, c)
    PROVE  LooksBack(m, s)
<1> PICK rows, n, targets : /\ rows = Design(m, s) /\ n = Len(rows)
                            /\ targets = LastOf(s, n)
  OBVIOUS
<1>1. m.kind \in {"poly", "ar"} /\ m.size \in Nat /\ m.size > 0
  BY DEF Model
<1> SUFFICES ASSUME rows # <<>>
             PROVE  /\ Len(targets) = n
                    /\ \A i \in 1..n :
                         /\ Range(rows[i]) \subseteq Range(s)
                         /\ rows[i] = IF m.kind = "poly" THEN <<targets[i]>>
                                      ELSE [lag \in 1..m.size |-> targets[i] - lag]
  BY DEF LooksBack
<1>2. n \in 1..Len(s)
  BY DesignLength
<1>3. Len(targets) = n /\ \A i \in 1..n : targets[i] = s[Len(s) - n + i]
  BY <1>2, LastOfIs
<1>4. CASE m.kind = "poly"
  <2>1. n = Len(s) /\ \A i \in 1..n : rows[i] = <<s[i]>>
    BY <1>4, PolyDesign
  <2>2. \A i \in 1..n : targets[i] = s[i]
    BY <1>2, <1>3, <2>1
  <2>3. ASSUME NEW i \in 1..n
        PROVE  Range(rows[i]) \subseteq Range(s)
    <3>1. rows[i] = <<s[i]>> /\ i \in DOMAIN s
      BY <2>1
    <3> QED
      BY <3>1 DEF Range
  <2> QED
    BY <1>3, <1>4, <2>1, <2>2, <2>3
<1>5. CASE m.kind = "ar"
  <2>1. ~(Len(s) <= m.size) /\ n = Len(s) - m.size
    BY <1>5, ArDesign
  <2>2. \A i \in 1..n :
           rows[i] = [lag \in 1..m.size |-> s[m.size - lag + i]]
    BY <1>5, <2>1, ArDesign
  <2>3. ASSUME NEW i \in 1..n, NEW lag \in 1..m.size
        PROVE  /\ m.size - lag + i \in 1..Len(s)
               /\ s[m.size - lag + i] = targets[i] - lag
    <3>1. targets[i] = s[Len(s) - n + i] /\ Len(s) - n + i = m.size + i
      BY <1>1, <1>3, <2>1
    <3>2. m.size \in Nat /\ lag \in 1..m.size /\ i \in 1..(Len(s) - m.size)
      BY <1>1, <2>1
    <3>3. m.size - lag + i \in 1..Len(s)
      BY <2>1, <3>2, LaggedPosition
    <3>4. s[m.size - lag + i] = s[m.size + i] - lag
      BY <2>1, <3>2, LaggedPosition
    <3> QED
      BY <3>1, <3>3, <3>4
  <2>4. ASSUME NEW i \in 1..n
        PROVE  /\ Range(rows[i]) \subseteq Range(s)
               /\ rows[i] = [lag \in 1..m.size |-> targets[i] - lag]
    <3>1. rows[i] = [lag \in 1..m.size |-> s[m.size - lag + i]]
      BY <2>2
    <3>2. \A lag \in 1..m.size : m.size - lag + i \in DOMAIN s
      BY <2>3
    <3>3. Range(rows[i]) \subseteq Range(s)
      BY <3>1, <3>2 DEF Range
    <3> QED
      BY <2>3, <3>1, <3>3
  <2> QED
    BY <1>1, <1>3, <1>5, <2>4
<1> QED
  BY <1>1, <1>4, <1>5

-----------------------------------------------------------------------------
(* Scores *)

LEMMA Monotone ==
    ASSUME NEW n \in Nat, NEW a \in Int, NEW b \in Int, a <= b
    PROVE  n * a <= n * b
  OBVIOUS

\* On equal rows a better AIC with more parameters has smaller residuals.
LEMMA AicOrder ==
    ASSUME NEW n \in Nat, NEW rs \in 1..MaxRss, NEW rr \in 1..MaxRss,
           NEW ks \in Nat, NEW kr \in Nat, n \in DOMAIN Ln,
           kr < ks, Aic(n, rs, ks) <= Aic(n, rr, kr)
    PROVE  rr > rs
<1> SUFFICES ASSUME rr <= rs
             PROVE  FALSE
  OBVIOUS
<1> PICK ls, lr, l : ls = Ln[rs] /\ lr = Ln[rr] /\ l = Ln[n]
  OBVIOUS
<1>1. ls \in Int /\ lr \in Int /\ l \in Int /\ lr <= ls
  BY ModelAssumption
<1>2. n * (lr - l) <= n * (ls - l)
  BY <1>1, Monotone
<1>3. 2 * kr * One < 2 * ks * One
  <2>1. One \in Nat /\ One > 0
    BY ModelAssumption
  <2>2. (ks - kr) * One > 0
    BY <2>1
  <2> QED
    BY <2>1, <2>2
<1>4. n * (ls - l) \in Int /\ n * (lr - l) \in Int
  BY <1>1
<1>5. 2 * kr * One \in Int /\ 2 * ks * One \in Int
  BY ModelAssumption
<1> QED
  BY <1>2, <1>3, <1>4, <1>5 DEF Aic

LEMMA AicTypes ==
    ASSUME NEW n \in Nat, NEW rss \in 1..MaxRss, NEW k \in Nat, n \in DOMAIN Ln
    PROVE  Aic(n, rss, k) \in Int /\ Aicc(n, rss, k) \in Seq(Int)
<1> PICK lr, l : lr = Ln[rss] /\ l = Ln[n]
  OBVIOUS
<1>1. lr \in Int /\ l \in Int /\ One \in Int
  BY ModelAssumption
<1>2. Aic(n, rss, k) \in Int
  <2>1. n * (lr - l) \in Int /\ 2 * k * One \in Int
    BY <1>1
  <2> QED
    BY <2>1 DEF Aic
<1>3. CASE n > k + 1
  <2> PICK a, d : a = 2 * k * (k + 1) * One /\ d = n - k - 1
    OBVIOUS
  <2>1. a \in Int /\ d \in Nat /\ d > 0
    BY <1>1, <1>3
  <2>2. a \div d \in Int
    BY <2>1
  <2> QED
    BY <1>2, <1>3, <2>2 DEF Aicc
<1>4. CASE ~(n > k + 1)
  BY <1>2, <1>4 DEF Aicc
<1> QED
  BY <1>3, <1>4

-----------------------------------------------------------------------------
(* The invariant *)

Number == Int \cup {NaN}

\* A valid result has the numbers of a fit to t that also predicts v.
ScoredOn(r, t, v) ==
    LET n == Len(Design(r.model, t))
        k == Params(r.model)
    IN  r.valid =>
            /\ r.n = n /\ n > k /\ r.rss \in 1..MaxRss
            /\ r.aic = Aic(n, r.rss, k)
            /\ Design(r.model, v) # <<>>

\* A stable sort leaves r before q.
Precedes(r, q) == Less(r, q) \/ (~Less(q, r) /\ r.place < q.place)

SelectionInv ==
    /\ TypeOK
    /\ phase \in {"new", "ready", "raised"} => results = <<>>
    /\ phase \in {"evaluating", "done"} =>
          /\ 1 <= train /\ train < Len(input.x)
          /\ 1..Len(input.x) \subseteq DOMAIN Ln
          /\ Len(results) <= Len(models)
    /\ \A i \in DOMAIN results :
          ScoredOn(results[i], Train(input.x), Validation(input.x))
    /\ phase = "evaluating" =>
          \A i \in DOMAIN results : results[i].place = i
    /\ phase = "done" =>
          /\ {r.place : r \in Range(results)} = 1..Len(models)
          /\ \A i, j \in DOMAIN results :
                i < j => Precedes(results[i], results[j])

LEMMA PartIs ==
    ASSUME NEW S, NEW s \in Seq(S), NEW a \in Nat, NEW b \in Nat,
           a <= b, b <= Len(s)
    PROVE  Slice(s, a, b) \in Seq(S) /\ Len(Slice(s, a, b)) = b - a
<1> PICK n, f : n = b - a /\ f = Slice(s, a, b)
  OBVIOUS
<1>1. f = [i \in 1..n |-> s[a + i]] /\ n \in Nat
  BY DEF Slice
<1>2. ASSUME NEW i \in 1..n
      PROVE  s[a + i] \in S
  <2>1. a + i \in 1..Len(s)
    BY <1>2
  <2> QED
    BY <2>1
<1>3. f \in [1..n -> S]
  BY <1>1, <1>2
<1> QED
  BY <1>1, <1>3, IsASeq

\* Both parts of a series of which train values are the first.
LEMMA PartsAre ==
    ASSUME NEW S, NEW s \in Seq(S), train \in Nat, train < Len(s)
    PROVE  /\ Train(s) \in Seq(S) /\ Len(Train(s)) = train
           /\ Validation(s) \in Seq(S) /\ Len(Validation(s)) = Len(s) - train
<1>1. Slice(s, 0, train) \in Seq(S) /\ Len(Slice(s, 0, train)) = train - 0
  BY PartIs
<1> PICK n, f : n = Len(s) - train /\ f = Validation(s)
  OBVIOUS
<1>2. f = [i \in 1..n |-> s[train + i]] /\ n \in Nat
  BY DEF Validation, Slice
<1>3. ASSUME NEW i \in 1..n
      PROVE  s[train + i] \in S
  <2>1. train + i \in 1..Len(s)
    BY <1>3
  <2> QED
    BY <2>1
<1>4. f \in [1..n -> S]
  BY <1>2, <1>3
<1>5. f \in Seq(S) /\ Len(f) = n
  BY <1>2, <1>4, IsASeq
<1> QED
  BY <1>1, <1>5 DEF Train

LEMMA SplitsAreProper ==
    ASSUME TypeOK, NEW n \in Nat, NEW s \in Splits(n)
    PROVE  s \in Nat /\ 1 <= s /\ s < n
<1>1. ratio \in Nat \X (Nat \ {0})
  BY ModelAssumption DEF TypeOK
<1> PICK a, b : a = n * ratio[1] /\ b = ratio[2]
  OBVIOUS
<1>2. a \in Int /\ b \in Nat \ {0}
  BY <1>1
<1>3. a \div b \in Int
  BY <1>2
<1>4. \A x \in SplitIndexes(n) : x \in Int
  BY <1>3 DEF SplitIndexes
<1> QED
  BY <1>4 DEF Splits

LEMMA InitSelection == Init => SelectionInv
  BY DEF Init, SelectionInv, TypeOK, Model, Result

LEMMA ConstructKeeps ==
    ASSUME SelectionInv, Construct
    PROVE  SelectionInv'
<1>1. /\ phase = "new" /\ results = <<>> /\ phase' \in {"raised", "ready"}
      /\ models' \in Seq(Model) /\ ratio' \in Ratios
      /\ UNCHANGED <<input, train, results>>
  BY ModelAssumption DEF SelectionInv, Construct
<1>2. TypeOK'
  BY <1>1 DEF SelectionInv, TypeOK
<1> QED
  BY <1>1, <1>2 DEF SelectionInv

LEMMA SelectKeeps ==
    ASSUME SelectionInv, Select
    PROVE  SelectionInv'
<1>1. /\ input' \in Inputs /\ phase' \in {"evaluating", "raised"}
      /\ results = <<>> /\ UNCHANGED <<models, ratio, results>>
  BY DEF Select, SelectionInv
<1>2. /\ input'.x \in Seq(Number) /\ input'.y \in Seq(Number)
      /\ 1..Len(input'.x) \subseteq DOMAIN Ln
  BY <1>1, ModelAssumption DEF Number
<1> PICK n : n = Len(input'.x)
  OBVIOUS
<1>3. train' \in Nat /\ (phase' = "evaluating" => 1 <= train' /\ train' < n)
  <2>1. CASE phase' = "raised"
    BY <2>1 DEF Select
  <2>2. CASE phase' = "evaluating"
    <3>1. train' \in Splits(n) /\ n \in Nat
      BY <1>2, <2>2 DEF Select
    <3> PICK t : t = train'
      OBVIOUS
    <3>2. t \in Nat /\ 1 <= t /\ t < n
      BY <3>1, SplitsAreProper DEF SelectionInv
    <3> QED
      BY <3>2
  <2> QED
    BY <1>1, <2>1, <2>2
<1>4. TypeOK'
  BY <1>1, <1>2, <1>3 DEF SelectionInv, TypeOK, Number
<1>5. Len(models') \in Nat
  BY <1>4 DEF TypeOK
<1> QED
  BY <1>1, <1>2, <1>3, <1>4, <1>5 DEF SelectionInv

\* What is appended is a result of the candidate whose turn it is.
LEMMA JudgeKeeps ==
    ASSUME SelectionInv, NEW row \in Result,
           phase = "evaluating", Place <= Len(models),
           row.place = Place, row.model = Candidate,
           ScoredOn(row, Train(input.x), Validation(input.x)),
           results' = Append(results, row),
           UNCHANGED <<phase, models, ratio, input, train>>
    PROVE  SelectionInv'
<1> PICK n, t, v : /\ n = Len(results) /\ t = Train(input.x)
                   /\ v = Validation(input.x)
  OBVIOUS
<1>1. /\ results \in Seq(Result) /\ n \in Nat /\ row.place = n + 1
      /\ n + 1 <= Len(models)
  BY DEF SelectionInv, TypeOK, Place
<1>2. /\ results' \in Seq(Result) /\ Len(results') = n + 1
      /\ DOMAIN results' = 1..(n + 1) /\ results'[n + 1] = row
      /\ \A i \in 1..n : results'[i] = results[i]
  BY <1>1
<1>3. TypeOK'
  BY <1>2 DEF SelectionInv, TypeOK
<1>4. Train(input.x)' = t /\ Validation(input.x)' = v
  BY DEF Train, Validation
<1>5. ASSUME NEW i \in 1..(n + 1)
      PROVE  ScoredOn(results'[i], t, v) /\ results'[i].place = i
  <2>1. CASE i = n + 1
    BY <1>1, <1>2, <2>1
  <2>2. CASE i \in 1..n
    BY <1>1, <1>2, <2>2 DEF SelectionInv
  <2> QED
    BY <1>1, <2>1, <2>2
<1>6. ASSUME NEW i \in DOMAIN results'
      PROVE  ScoredOn(results[i], Train(input.x), Validation(input.x))'
  <2>1. ScoredOn(results'[i], t, v)
    BY <1>2, <1>5
  <2> QED
    BY <1>4, <2>1 DEF ScoredOn
<1> QED
  BY <1>1, <1>2, <1>3, <1>5, <1>6 DEF SelectionInv

LEMMA CandidateIs ==
    ASSUME TypeOK, Place <= Len(models)
    PROVE  Candidate \in Model /\ Params(Candidate) \in Nat /\ Place \in Nat
<1>1. Place \in 1..Len(models)
  BY DEF TypeOK, Place
<1>2. models[Place] \in Model
  BY <1>1 DEF TypeOK
<1> QED
  BY <1>1, <1>2 DEF Candidate, Params, Model

LEMMA FailKeeps ==
    ASSUME SelectionInv, Fail
    PROVE  SelectionInv'
<1> PICK row : row = [model |-> Candidate, place |-> Place, valid |-> FALSE,
                      n |-> 0, rss |-> 0, aic |-> 0, aicc |-> <<>>]
  OBVIOUS
<1>1. /\ phase = "evaluating" /\ Place <= Len(models)
      /\ results' = Append(results, row)
      /\ UNCHANGED <<phase, models, ratio, input, train>>
  BY DEF Fail, Judge, Nothing
<1>2. row \in Result
  BY <1>1, CandidateIs DEF Result, SelectionInv
<1>3. ScoredOn(row, Train(input.x), Validation(input.x))
  BY DEF ScoredOn
<1> QED
  BY <1>1, <1>2, <1>3, JudgeKeeps

LEMMA PassKeeps ==
    ASSUME SelectionInv, NEW rss \in 1..MaxRss, Pass(rss)
    PROVE  SelectionInv'
<1> PICK t, v, n, k : /\ t = Train(input.x) /\ v = Validation(input.x)
                      /\ n = Len(Design(Candidate, t)) /\ k = Params(Candidate)
  OBVIOUS
<1> PICK row : row = [model |-> Candidate, place |-> Place, valid |-> TRUE,
                      n |-> n, rss |-> rss, aic |-> Aic(n, rss, k),
                      aicc |-> Aicc(n, rss, k)]
  OBVIOUS
<1>1. /\ phase = "evaluating" /\ Place <= Len(models)
      /\ results' = Append(results, row)
      /\ UNCHANGED <<phase, models, ratio, input, train>>
      /\ n > k /\ Len(Design(Candidate, v)) > 0
  BY DEF Pass, Judge, Rows, AicDefined, Predicts
<1>2. /\ input.x \in Seq(Number) /\ train \in Nat /\ train < Len(input.x)
      /\ 1..Len(input.x) \subseteq DOMAIN Ln
  BY <1>1 DEF SelectionInv, TypeOK, Number
<1>3. /\ t \in Seq(Number) /\ Len(t) = train /\ v \in Seq(Number)
      /\ Candidate \in Model /\ k \in Nat /\ Place \in Nat
  BY <1>1, <1>2, PartsAre, CandidateIs DEF SelectionInv
<1>4. n \in 0..Len(t) /\ Design(Candidate, v) # <<>>
  BY <1>1, <1>3, DesignLength
<1>5. n \in Nat /\ n \in DOMAIN Ln
  <2> PICK l : l = Len(input.x)
    OBVIOUS
  <2>1. l \in Nat /\ train < l /\ train \in Nat
    BY <1>2
  <2>2. n \in 0..train
    BY <1>3, <1>4
  <2>3. n \in 1..l
    BY <1>1, <1>3, <2>1, <2>2
  <2> QED
    BY <1>2, <2>3
<1>6. Aic(n, rss, k) \in Int /\ Aicc(n, rss, k) \in Seq(Int)
  BY <1>3, <1>5, AicTypes
<1>7. rss \in Nat
  BY ModelAssumption
<1>8. row \in Result
  BY <1>3, <1>5, <1>6, <1>7 DEF Result
<1>9. ScoredOn(row, t, v)
  BY <1>1, <1>4 DEF ScoredOn
<1> QED
  BY <1>1, <1>8, <1>9, JudgeKeeps

LEMMA RankKeeps ==
    ASSUME SelectionInv, Rank
    PROVE  SelectionInv'
<1> PICK n, t, v : /\ n = Len(results) /\ t = Train(input.x)
                   /\ v = Validation(input.x)
  OBVIOUS
<1>1. /\ phase = "evaluating" /\ phase' = "done"
      /\ UNCHANGED <<models, ratio, input, train>>
      /\ results \in Seq(Result) /\ n \in Nat
  BY DEF Rank, SelectionInv, TypeOK, Place
<1>2. DOMAIN results = 1..n
  BY <1>1
<1> PICK p : /\ p \in Bijection(1..n, 1..n) /\ Ordered(p)
             /\ results' = [i \in 1..n |-> results[p[i]]]
  BY DEF Rank, Places
<1>3. p \in [1..n -> 1..n] /\ \A k \in 1..n : \E i \in 1..n : p[i] = k
  BY DEF Bijection, Injection, Surjection
<1>4. ASSUME NEW i \in 1..n
      PROVE  /\ results'[i] = results[p[i]] /\ results'[i] \in Result
             /\ results'[i].place = p[i] /\ ScoredOn(results'[i], t, v)
  <2>1. p[i] \in DOMAIN results
    BY <1>2, <1>3
  <2>2. results'[i] = results[p[i]]
    OBVIOUS
  <2> QED
    BY <1>1, <2>1, <2>2 DEF SelectionInv
<1>5. results' \in Seq(Result) /\ Len(results') = n /\ DOMAIN results' = 1..n
  <2>1. results' \in [1..n -> Result]
    BY <1>4
  <2> QED
    BY <1>1, <2>1, IsASeq
<1>6. TypeOK'
  BY <1>1, <1>5 DEF SelectionInv, TypeOK
<1>7. Train(input.x)' = t /\ Validation(input.x)' = v
  BY <1>1 DEF Train, Validation
<1>8. ASSUME NEW i \in DOMAIN results'
      PROVE  ScoredOn(results[i], Train(input.x), Validation(input.x))'
  <2>1. ScoredOn(results'[i], t, v)
    BY <1>4, <1>5
  <2> QED
    BY <1>7, <2>1 DEF ScoredOn
<1>9. {r.place : r \in Range(results')} = 1..n
  <2>1. ASSUME NEW r \in Range(results')
        PROVE  r.place \in 1..n
    <3> PICK i \in DOMAIN results' : r = results'[i]
      BY DEF Range
    <3> QED
      BY <1>3, <1>4, <1>5
  <2>2. ASSUME NEW k \in 1..n
        PROVE  \E r \in Range(results') : r.place = k
    <3> PICK i \in 1..n : p[i] = k
      BY <1>3
    <3>1. results'[i] \in Range(results') /\ results'[i].place = k
      BY <1>4, <1>5 DEF Range
    <3> QED
      BY <3>1
  <2> QED
    BY <2>1, <2>2
<1>10. ASSUME NEW i \in 1..n, NEW j \in 1..n, i < j
      PROVE  Precedes(results'[i], results'[j])
  <2>1. \/ Less(results[p[i]], results[p[j]])
        \/ ~Less(results[p[j]], results[p[i]]) /\ p[i] < p[j]
    BY <1>10 DEF Ordered, Places
  <2> QED
    BY <1>4, <2>1 DEF Precedes
<1>11. n = Len(models)
  BY DEF Rank, SelectionInv, TypeOK, Place
<1> QED
  BY <1>1, <1>5, <1>6, <1>8, <1>9, <1>10, <1>11 DEF SelectionInv, Precedes, Less, Range

LEMMA SelectionStep == SelectionInv /\ [Next]_vars => SelectionInv'
<1> SUFFICES ASSUME SelectionInv, [Next]_vars
             PROVE  SelectionInv'
  OBVIOUS
<1>1. CASE UNCHANGED vars
  BY <1>1 DEF vars, SelectionInv, TypeOK, ScoredOn, Precedes, Less, Range,
              Train, Validation
<1>2. CASE \E rss \in 1..MaxRss : Pass(rss)
  BY <1>2, PassKeeps
<1> QED
  BY <1>1, <1>2, ConstructKeeps, SelectKeeps, FailKeeps, RankKeeps DEF Next

LEMMA SelectionAlways == Spec => []SelectionInv
  BY InitSelection, SelectionStep, PTL DEF Spec

-----------------------------------------------------------------------------
(* The results *)

\* No row of a design matrix, of either part, holds anything but the values right
\* before its target (or x at its target), for any lists, ratios and series.
THEOREM NoPredictionSeesAhead == Spec => []PredictionsLookBack
<1>1. ASSUME SelectionInv
      PROVE  PredictionsLookBack
  <2> SUFFICES ASSUME phase = "evaluating", NEW m \in Range(models),
                      NEW part \in {Train(Positions), Validation(Positions)}
               PROVE  LooksBack(m, part)
    BY DEF PredictionsLookBack, LooksBack
  <2> PICK l : l = Len(input.x)
    OBVIOUS
  <2>1. /\ m \in Model /\ l \in Nat /\ train \in Nat /\ train < l
    BY <1>1 DEF SelectionInv, TypeOK, Range
  <2>2. /\ Positions \in Seq(Int) /\ Len(Positions) = l
        /\ \A i \in 1..l : Positions[i] = i
    <3> PICK f : f = Positions
      OBVIOUS
    <3>1. f = [i \in 1..l |-> i]
      BY DEF Positions
    <3>2. f \in [1..l -> Int]
      BY <2>1, <3>1
    <3> QED
      BY <2>1, <3>1, <3>2, IsASeq
  <2>3. /\ Train(Positions) \in Seq(Int) /\ Len(Train(Positions)) = train
        /\ Validation(Positions) \in Seq(Int)
        /\ Len(Validation(Positions)) = l - train
    BY <2>1, <2>2, PartsAre
  <2>4. CASE part = Train(Positions)
    <3>1. part = [i \in 1..train |-> Positions[i]]
      BY <2>1, <2>4 DEF Train, Slice
    <3>2. \A i \in 1..train : part[i] = 0 + i
      BY <2>1, <2>2, <3>1
    <3>3. Consecutive(part, 0)
      BY <2>3, <2>4, <3>2 DEF Consecutive
    <3> QED
      BY <2>1, <2>3, <2>4, <3>3, ConsecutiveLookBack
  <2>5. CASE part = Validation(Positions)
    <3>1. part = [i \in 1..(l - train) |-> Positions[train + i]]
      BY <2>2, <2>5 DEF Validation, Slice
    <3>2. \A i \in 1..(l - train) : part[i] = train + i
      BY <2>1, <2>2, <3>1
    <3>3. Consecutive(part, train)
      BY <2>3, <2>5, <3>2 DEF Consecutive
    <3> QED
      BY <2>1, <2>3, <2>5, <3>3, ConsecutiveLookBack
  <2> QED
    BY <2>4, <2>5
<1> QED
  BY <1>1, SelectionAlways, PTL

LEMMA ScoresCoverBothParts ==
    ASSUME SelectionInv
    PROVE  ScoredOnBothParts
<1> SUFFICES ASSUME NEW r \in Valid
             PROVE  /\ Design(r.model, Train(input.x)) # <<>>
                    /\ Design(r.model, Validation(input.x)) # <<>>
  BY DEF ScoredOnBothParts
<1> PICK i : i \in DOMAIN results /\ results[i] = r /\ r.valid
  BY DEF Valid, Range
<1>1. /\ r \in Result /\ ScoredOn(r, Train(input.x), Validation(input.x))
      /\ phase \in {"evaluating", "done"}
  BY DEF SelectionInv, TypeOK
<1> PICK t, n, k : t = Train(input.x) /\ n = Len(Design(r.model, t)) /\ k = Params(r.model)
  OBVIOUS
<1>2. n > k /\ Design(r.model, Validation(input.x)) # <<>>
  BY <1>1 DEF ScoredOn
<1>3. t \in Seq(Number) /\ r.model \in Model
  <2>1. input.x \in Seq(Number) /\ train \in Nat /\ train < Len(input.x)
    BY <1>1 DEF SelectionInv, TypeOK, Number
  <2> QED
    BY <1>1, <2>1, PartsAre DEF Result
<1>4. n # 0
  <2>1. k \in Nat /\ n \in Int
    BY <1>3, DesignLength DEF Params, Model
  <2> QED
    BY <1>2, <2>1
<1> QED
  BY <1>2, <1>3, <1>4, DesignLength

LEMMA BestIsSelected ==
    ASSUME SelectionInv
    PROVE  SelectedIsBest
<1> SUFFICES ASSUME phase = "done", NEW r \in Valid
             PROVE  /\ \/ Selected.aic < r.aic
                       \/ Selected.aic = r.aic /\ Selected.place <= r.place
                    /\ r.n = Selected.n /\ Params(r.model) < Params(Selected.model)
                          => r.rss > Selected.rss
  BY DEF SelectionInv, SelectedIsBest
<1> PICK j : j \in DOMAIN results /\ results[j] = r /\ r.valid
  BY DEF Valid, Range
<1> PICK s : s = results[1]
  OBVIOUS
<1>1. /\ j \in Nat /\ j >= 1 /\ 1 \in DOMAIN results
      /\ r \in Result /\ s \in Result
  BY DEF SelectionInv, TypeOK
<1>2. j # 1 => Precedes(s, r)
  BY <1>1 DEF SelectionInv
<1>3. s.valid
  BY <1>1, <1>2 DEF Precedes, Less
<1>4. Selected = s
  <2>1. \A i \in DOMAIN results :
           results[i].valid /\ (\A k \in 1..(i - 1) : ~results[k].valid) <=> i = 1
    BY <1>1, <1>3 DEF SelectionInv, TypeOK
  <2> QED
    BY <1>1, <2>1 DEF Selected
<1>5. s.aic \in Int /\ r.aic \in Int /\ s.place \in Nat /\ r.place \in Nat
  BY <1>1 DEF Result
<1>6. s.aic < r.aic \/ (s.aic = r.aic /\ s.place <= r.place)
  <2>1. CASE j = 1
    BY <1>5, <2>1
  <2>2. CASE j # 1
    BY <1>2, <1>3, <1>5, <2>2 DEF Precedes, Less
  <2> QED
    BY <2>1, <2>2
<1>7. ASSUME r.n = s.n, Params(r.model) < Params(s.model)
      PROVE  r.rss > s.rss
  <2> PICK n, ks, kr : n = s.n /\ ks = Params(s.model) /\ kr = Params(r.model)
    OBVIOUS
  <2>1. n \in Nat /\ s.model \in Model /\ r.model \in Model
    BY <1>1 DEF Result
  <2>2. ks \in Nat /\ kr \in Nat
    BY <2>1 DEF Params, Model
  <2>3. /\ ScoredOn(s, Train(input.x), Validation(input.x))
        /\ ScoredOn(r, Train(input.x), Validation(input.x))
    BY <1>1 DEF SelectionInv
  <2>4. /\ n > ks /\ s.rss \in 1..MaxRss /\ r.rss \in 1..MaxRss
        /\ s.aic = Aic(n, s.rss, ks) /\ r.aic = Aic(n, r.rss, kr)
        /\ n = Len(Design(s.model, Train(input.x)))
    BY <1>3, <1>7, <2>3 DEF ScoredOn
  <2>5. /\ input.x \in Seq(Number) /\ train \in Nat /\ train < Len(input.x)
        /\ 1..Len(input.x) \subseteq DOMAIN Ln
    BY DEF SelectionInv, TypeOK, Number
  <2>6. Train(input.x) \in Seq(Number) /\ Len(Train(input.x)) = train
    BY <2>5, PartsAre
  <2>7. n \in 0..train
    BY <2>1, <2>4, <2>6, DesignLength
  <2>8. n \in DOMAIN Ln
    BY <2>1, <2>4, <2>5, <2>7, <2>2
  <2>9. Aic(n, s.rss, ks) <= Aic(n, r.rss, kr)
    BY <1>5, <1>6, <2>4
  <2> QED
    BY <1>7, <2>1, <2>4, <2>8, <2>9, <2>2, AicOrder
<1> QED
  BY <1>4, <1>6, <1>7

\* The candidate selected is the best of those scored, on rows of both parts: the
\* ranking is by AIC, ties go to the first of the list, and among equal rows
\* nothing simpler explains TRAIN as well.
THEOREM SelectionIsSound == Spec => []SelectionSound
<1>1. SelectionInv => SelectionSound
  BY ScoresCoverBothParts, BestIsSelected DEF SelectionInv, SelectionSound
<1> QED
  BY <1>1, SelectionAlways, PTL

=============================================================================
