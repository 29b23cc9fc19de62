--------------------------- MODULE ModelSelection ---------------------------
(***************************************************************************)
(* model_selection: a series of observations is split in two at a point in  *)
(* time, every candidate is fitted to the first part (TRAIN) and has to     *)
(* predict the second (VALIDATION), and the one of lowest AIC is selected.  *)
(*                                                                         *)
(* Least squares is numpy's: a fit exists where the columns of the design   *)
(* matrix are independent, and its residual sum of squares is any number    *)
(* that the fits of smaller models allow.  Logarithms are a table, and AIC  *)
(* is counted in the table's unit.                                         *)
(***************************************************************************)
EXTENDS Integers, Sequences, SequencesExt, FiniteSets

CONSTANTS
    Inputs,       \* the pairs [x, y] that select is called with
    Lists,        \* the lists of candidates
    Ratios,       \* train_ratio, as a fraction <<num, den>>
    NaN,          \* a value that is not finite
    MaxRss,       \* bound of the residual sums of squares
    Ln,           \* Ln[i]: the logarithm of i, in units of 1 / One
    One

\* A polynomial of degree size, or an autoregression of order size.
Model == [kind : {"poly", "ar"}, size : Nat \ {0}]

ASSUME ModelAssumption ==
    /\ Lists \subseteq Seq(Model)
    /\ \A in \in Inputs :
          /\ in.x \in Seq(Int \cup {NaN}) /\ in.y \in Seq(Int \cup {NaN})
          /\ 1..Len(in.x) \subseteq DOMAIN Ln
    /\ Ratios \subseteq Nat \X (Nat \ {0})
    /\ MaxRss \in Nat /\ 1..MaxRss \subseteq DOMAIN Ln /\ One \in Nat \ {0}
    /\ \A i \in DOMAIN Ln : Ln[i] \in Int
    /\ \A i, j \in 1..MaxRss : i <= j => Ln[i] <= Ln[j]

VARIABLES
    phase,        \* "new", "ready", "evaluating", "done" or "raised"
    models,       \* the selector's candidates
    ratio,        \* its train_ratio
    input,        \* the x and y of the call
    train,        \* the length of TRAIN
    results       \* of the candidates evaluated so far, then ranked

vars == <<phase, models, ratio, input, train, results>>

Params(m) == m.size + 1

\* The numbers of an invalid candidate.  An aicc of <<>> is None.
Nothing == [n |-> 0, rss |-> 0, aic |-> 0, aicc |-> <<>>]

Result == [model : Model, place : Nat, valid : BOOLEAN, n : Nat, rss : Nat,
           aic : Int, aicc : Seq(Int)]

Init ==
    /\ phase = "new"
    /\ models = <<>>
    /\ ratio = <<1, 2>>
    /\ input = [x |-> <<>>, y |-> <<>>]
    /\ train = 0
    /\ results = <<>>

----------------------------------------------------------------------------
(* Slices *)

\* s[a:b]
Slice(s, a, b) == [i \in 1..(b - a) |-> s[a + i]]

\* s[-m:], which is all of s when m is 0.
LastOf(s, m) == IF m = 0 THEN s ELSE Slice(s, Len(s) - m, Len(s))

Train(s) == Slice(s, 0, train)
Validation(s) == Slice(s, train, Len(s))

\* Plausible bug: the column of a lag starts one row late.
MutantColumn(s, order, lag) == Slice(s, order - lag + 1, Len(s) - lag + 1)

\* The column of a lag in _lagged_design_matrix.
Column(s, order, lag) == Slice(s, order - lag, Len(s) - lag)

\* What each row of the design matrix is made of: the last order values, or the
\* x whose powers fill it.
Design(m, s) ==
    IF m.kind = "poly" THEN [i \in 1..Len(s) |-> <<s[i]>>]
    ELSE IF Len(s) <= m.size THEN <<>>
    ELSE [i \in 1..(Len(s) - m.size) |->
            [lag \in 1..m.size |-> Column(s, m.size, lag)[i]]]

----------------------------------------------------------------------------
(* Fitting *)

\* numpy.linalg.lstsq's rank: no row of the columns' coefficients, but zero,
\* makes their sum vanish.  Series of zeros and ones need no larger ones.
Coefficients == -4..4
Dot(c, row) == FoldLeftDomain(LAMBDA acc, i : acc + c[i] * row[i], 0, row)
Affine(rows) ==
    \E c \in [1..Len(rows[1]) -> Coefficients], c0 \in Coefficients :
        /\ \E i \in 1..Len(rows[1]) : c[i] # 0
        /\ \A i \in 1..Len(rows) : c0 + Dot(c, rows[i]) = 0

FullRank(m, rows) ==
    /\ rows # <<>>
    /\ IF m.kind = "poly" THEN Cardinality(Range(rows)) >= Params(m)
       ELSE ~Affine(rows)

\* fit: an autoregression wants TRAIN's x and y to be one series.
Fits(m) ==
    /\ m.kind = "ar" => Train(input.x) = Train(input.y)
    /\ FullRank(m, Design(m, Train(input.x)))

\* A larger model of the kind leaves no larger residuals.
Possible(m, rss) ==
    \A i \in 1..Len(results) :
        LET r == results[i]
        IN  r.rss > 0 /\ r.model.kind = m.kind =>
                /\ r.model.size <= m.size => rss <= r.rss
                /\ r.model.size >= m.size => rss >= r.rss

\* aic: n * ln(rss / n) + 2k, defined for n > k and rss > 0.
Aic(n, rss, k) == n * (Ln[rss] - Ln[n]) + 2 * k * One
AicDefined(n, rss, k) == n > k /\ rss > 0

\* aic_corrected, or None.
Aicc(n, rss, k) ==
    IF n > k + 1
    THEN <<Aic(n, rss, k) + (2 * k * (k + 1) * One) \div (n - k - 1)>> ELSE <<>>

----------------------------------------------------------------------------
(* ModelSelector *)

Construct ==
    /\ phase = "new"
    /\ models' \in Lists
    /\ ratio' \in Ratios
    /\ phase' = IF models' = <<>> THEN "raised" ELSE "ready"
    /\ UNCHANGED <<input, train, results>>

\* _validate_input
Acceptable(in) ==
    /\ in.x # <<>>
    /\ Len(in.x) = Len(in.y)
    /\ NaN \notin Range(in.x) \cup Range(in.y)

\* floor(n * train_ratio) in floating point: a product that is a whole number
\* may come out just below it.
SplitIndexes(n) ==
    LET exact == (n * ratio[1]) \div ratio[2]
    IN  {exact} \cup (IF (n * ratio[1]) % ratio[2] = 0 THEN {exact - 1} ELSE {})

\* temporal_train_validation_split refuses to leave a part empty.
Splits(n) == {s \in SplitIndexes(n) : s >= 1 /\ s < n}

Select ==
    /\ phase = "ready"
    /\ input' \in Inputs
    /\ \/ /\ Acceptable(input')
          /\ train' \in Splits(Len(input'.x))
          /\ phase' = "evaluating"
       \/ /\ \/ ~Acceptable(input')
             \/ SplitIndexes(Len(input'.x)) # Splits(Len(input'.x))
          /\ train' = 0
          /\ phase' = "raised"
    /\ UNCHANGED <<models, ratio, results>>

Place == Len(results) + 1
Candidate == models[Place]

Judge(valid, numbers) ==
    /\ phase = "evaluating"
    /\ Place <= Len(models)
    /\ results' = Append(results,
           [model |-> Candidate, place |-> Place, valid |-> valid,
            n |-> numbers.n, rss |-> numbers.rss, aic |-> numbers.aic,
            aicc |-> numbers.aicc])
    /\ UNCHANGED <<phase, models, ratio, input, train>>

\* Any step of the evaluation may come upon a LinAlgError or a number that is
\* not finite; one candidate's failure stops at that candidate.
Fail == Judge(FALSE, Nothing)

\* Predictions of TRAIN and of VALIDATION: as many as the design has rows.
Rows(part) == Len(Design(Candidate, part))

Predicts == Rows(Validation(input.x)) > 0

Pass(rss) ==
    LET n == Rows(Train(input.x))
        k == Params(Candidate)
    IN  /\ Place <= Len(models)
        /\ AicDefined(n, rss, k)
        /\ Predicts
        /\ Possible(Candidate, rss)
        /\ Fits(Candidate)
        /\ Judge(TRUE, [n |-> n, rss |-> rss, aic |-> Aic(n, rss, k),
                        aicc |-> Aicc(n, rss, k)])

\* _sort_key
Less(r, q) == r.valid /\ (~q.valid \/ r.aic < q.aic)

Places == 1..Len(results)

\* Plausible bug: the best ones come last and the list is turned round.
MutantOrdered(p) ==
    \A i, j \in Places :
        i < j => \/ Less(results[p[i]], results[p[j]])
                 \/ ~Less(results[p[j]], results[p[i]]) /\ p[i] > p[j]

\* list.sort, which is stable: results come in the order p of their places.
Ordered(p) ==
    \A i, j \in Places :
        i < j => \/ Less(results[p[i]], results[p[j]])
                 \/ ~Less(results[p[j]], results[p[i]]) /\ p[i] < p[j]

Rank ==
    /\ phase = "evaluating"
    /\ Place > Len(models)
    /\ \E p \in Bijection(Places, Places) :
          Ordered(p) /\ results' = [i \in Places |-> results[p[i]]]
    /\ phase' = "done"
    /\ UNCHANGED <<models, ratio, input, train>>

Next ==
    \/ Construct
    \/ Select
    \/ Fail
    \/ \E rss \in 1..MaxRss : Pass(rss)
    \/ Rank

Spec == Init /\ [][Next]_vars

Valid == {r \in Range(results) : r.valid}

\* selected_model
Selected ==
    results[CHOOSE i \in DOMAIN results :
                results[i].valid /\ \A j \in 1..(i - 1) : ~results[j].valid]

----------------------------------------------------------------------------
TypeOK ==
    /\ phase \in {"new", "ready", "evaluating", "done", "raised"}
    /\ models \in Seq(Model)
    /\ ratio \in Ratios \cup {<<1, 2>>}
    /\ input.x \in Seq(Int \cup {NaN}) /\ input.y \in Seq(Int \cup {NaN})
    /\ train \in Nat
    /\ results \in Seq(Result)

Positions == [i \in 1..Len(input.x) |-> i]

\* The row a prediction for time t is computed from, in TRAIN or in VALIDATION,
\* is compared with the value at t and holds the values right before it (an
\* autoregression) or x at t, all of the same part: nothing later than t.  The
\* coefficients, and the mean of x they belong to, come from TRAIN and are not
\* what this is about.
PredictionsLookBack ==
    phase = "evaluating" =>
        \A m \in Range(models), part \in {Train(Positions), Validation(Positions)} :
            LET rows == Design(m, part)
                targets == LastOf(part, Len(rows))
            IN  rows # <<>> =>
                    /\ Len(targets) = Len(rows)
                    /\ \A i \in 1..Len(rows) :
                        /\ Range(rows[i]) \subseteq Range(part)
                        /\ rows[i] = IF m.kind = "poly" THEN <<targets[i]>>
                                     ELSE [lag \in 1..m.size |-> targets[i] - lag]

\* What is scored was scored on something: values of both parts are predicted.
ScoredOnBothParts ==
    \A r \in Valid :
        /\ Design(r.model, Train(input.x)) # <<>>
        /\ Design(r.model, Validation(input.x)) # <<>>

\* Every candidate is reported, and the one selected is the first of the list
\* among those of lowest AIC: on equal rows no other valid one has both fewer
\* parameters and residuals that are no larger.
SelectedIsBest ==
    phase = "done" =>
        /\ {r.place : r \in Range(results)} = 1..Len(models)
        /\ \A r \in Valid :
            /\ Selected.aic < r.aic \/ (Selected.aic = r.aic /\ Selected.place <= r.place)
            /\ r.n = Selected.n /\ Params(r.model) < Params(Selected.model) =>
                   r.rss > Selected.rss

\* A selection is sound: well typed, of candidates that were scored on both
\* parts, the best one first.
SelectionSound == TypeOK /\ ScoredOnBothParts /\ SelectedIsBest

=============================================================================
